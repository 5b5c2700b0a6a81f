---------------------------- MODULE FiscalGraph ----------------------------
(* The worker fills the graph while the API reads it: processNFe validates and
   parses an XML and merges it in one transaction, which can fail and be run
   again after it committed (the job is retried when a later step fails).      *)
EXTENDS ExportFile, HomeScreen, AlertRules

CONSTANTS
    Docs,          \* the XML documents that are uploaded
    Slots,         \* how many jobs run at once, over all workers
    MaxRuns,       \* how often the jobs are run in all
    MaxInstant     \* the instants that are told apart

VARIABLES
    graph,         \* the Neo4j graph
    running,       \* jobs parsed and not merged yet: [doc, at]
    merged,        \* the documents whose transaction committed
    clock          \* counts the jobs that were started

vars == <<graph, running, merged, clock>>

Accepted == {d \in Docs : ValidateNFe(d) = "valid" /\ Invoice(d).ok}

ASSUME DocsAssumption == AreNotas(Accepted)

Init ==
    /\ graph = EmptyGraph
    /\ running = {}
    /\ merged = {}
    /\ clock = 0

\* A job validates and parses its XML; an XML that is not a valid NF-e makes it fail.
Start(d) ==
    /\ clock < MaxRuns
    /\ Cardinality(running) < Slots
    /\ d \in Accepted
    /\ \A j \in running : j.doc # d          \* one job per access key
    /\ running' = running \cup {[doc |-> d, at |-> Min({clock, MaxInstant})]}
    /\ clock' = clock + 1
    /\ UNCHANGED <<graph, merged>>

\* The transaction of mergeInvoice commits.
Merge(j) ==
    /\ graph' = MergeInvoice(graph, ParseNFe(j.doc, j.at), j.doc.root, j.at)
    /\ running' = running \ {j}
    /\ merged' = merged \cup {j.doc}
    /\ UNCHANGED clock

\* It rolls back, or the worker dies: the graph is as it was.
RollBack(j) ==
    /\ running' = running \ {j}
    /\ UNCHANGED <<graph, merged, clock>>

Next ==
    \/ \E d \in Docs : Start(d)
    \/ \E j \in running : Merge(j) \/ RollBack(j)

Spec == Init /\ [][Next]_vars

-----------------------------------------------------------------------------
(* What the graph should hold, said of the documents and not of the merges.   *)

Invoices == {Invoice(d) : d \in merged}
Items == UNION {{<<i.nota.chaveAcesso, i.itens[n]>> : n \in DOMAIN i.itens} : i \in Invoices}

\* The graph is the union of its notas, whatever the order they were merged in, however often
\* each was, and whether a devolução came before or after its origin: no edge is lost,
\* doubled or left over, a stub becomes the nota when it comes, and every nota has one
\* import event.  Company data, product data and instants are not part of it: they are
\* the last writer's, the first writer's and the clock's.
GraphIsItsNotas ==
    /\ Imported(graph) = {i.nota.chaveAcesso : i \in Invoices}
    /\ DOMAIN graph.nf = Imported(graph) \cup UNION {Origins(i) : i \in Invoices}
    /\ \A i \in Invoices :
           Omit(graph.nf[i.nota.chaveAcesso], "importadaEm") = Omit(SerializeInvoice(i), "importadaEm")
    /\ graph.contem = [c \in {<<t[1], t[2].contem.numeroItem, t[2].produto.idUnico>> : t \in Items} |->
                          (CHOOSE t \in Items : t[1] = c[1] /\ t[2].contem.numeroItem = c[2])[2].contem]
    /\ graph.classificado = {<<t[2].produto.idUnico, t[2].ncm>> : t \in Items}
    /\ graph.usaCfop = {<<t[1], t[2].cfop>> : t \in Items}
    /\ graph.emitiu = {<<i.emitente.cnpj, i.nota.chaveAcesso>> : i \in Invoices}
    /\ graph.destinada = UNION {{<<i.nota.chaveAcesso, e.cnpj>> : e \in ToSet(i.destinatario)} : i \in Invoices}
    /\ graph.devolve = UNION {{<<i.nota.chaveAcesso, o>> : o \in Origins(i)} : i \in Invoices}
    /\ DOMAIN graph.emp = {e[1] : e \in graph.emitiu} \cup {d[2] : d \in graph.destinada}
    /\ \A k \in Imported(graph) : Cardinality({e \in graph.eventos : e.chave = k}) = 1

\* GraphIsItsNotas is inductive with this: only accepted documents are merged, a stub has its
\* key and nothing else, a company its CNPJ, and only imported notas have events, finitely many.
Accepts == merged \subseteq Accepted /\ \A j \in running : j.doc \in Accepted
StubsAreKeys ==
    \A k \in DOMAIN graph.nf : IsStub(graph, k) => DOMAIN graph.nf[k] = {"chaveAcesso"}
CompaniesAreNamed == \A c \in DOMAIN graph.emp : graph.emp[c].cnpj = c
EventsAreImports ==
    /\ IsFiniteSet(graph.eventos)
    /\ \A e \in graph.eventos : e.tipo = "importada" /\ e.chave \in Imported(graph)
IInv ==
    /\ DOMAIN graph = DOMAIN EmptyGraph
    /\ Accepts
    /\ StubsAreKeys
    /\ CompaniesAreNamed
    /\ EventsAreImports
    /\ GraphIsItsNotas

\* The UF and the window that the screens ask for.
Requests == {<< >>, [uf |-> "SP"], [dataInicio |-> Day(31), dataFim |-> Day(60)],
             [dataInicio |-> Day(31), dataFim |-> Day(40)],
             [uf |-> "RJ", dataInicio |-> Day(31), dataFim |-> Day(60)]}

\* The ICMS of the rankings by CFOP and by NCM adds up to the KPI of the same screen, ST
\* included, for every UF and window: no item is counted twice and no nota's total per CFOP.
\* (Every product of these documents is sold under one NCM.)
RankingAddsUp ==
    \A q \in Requests :
        LET i == GetImpostos([n \in 1 .. 5 |-> graph], q).body IN
        /\ SumBy(LAMBDA l : l.vICMS, i.topCfop) = i.totais.vICMS + i.totais.vICMSST
        /\ SumBy(LAMBDA l : l.vICMS, i.topNcm) = i.totais.vICMS + i.totais.vICMSST
        /\ \A t \in SeriesNames : SumBy(LAMBDA m : i.serie[m][t], DOMAIN i.serie) = i.totais[t]
        /\ i.transicao.comReforma <= i.transicao.total

\* The size of a node is the exchanges drawn at it, in the same window, plus what the drawing
\* leaves out: notas to nobody and notas of a company to itself.
NodesAgreeWithEdges ==
    \A q \in Requests :
        LET w == <<Janela(q)[1], EndOfDay(Janela(q)[2])>>
            rede == GetNetwork(graph, graph, q).body
            counts(k) == ActiveNF(graph, k) /\ InWindow(graph, k, w)
            alone(c) == {e \in graph.emitiu : e[1] = c /\ counts(e[2]) /\ ~\E d \in graph.destinada : d[1] = e[2]}
            loops(c) == {t \in Trades(graph) : t[1] = c /\ t[3] = c /\ counts(t[2])}
        IN  \A n \in rede.nos :
                n.totalNFs = SumBy(LAMBDA a : a.totalNFs, {a \in rede.arestas : n.cnpj \in {a.de, a.para}})
                             + Cardinality(alone(n.cnpj)) + 2 * Cardinality(loops(n.cnpj))

\* What a hub exchanged is the flow at it, its degree the companies at the other end; around
\* a company the same edges are drawn, to its neighbours, and what it issued covers them.
HubsAgreeWithFlow ==
    LET fluxo == GetFlow(graph, << >>).body IN
    \A n \in GetCentrality(graph, << >>).body :
        LET at == {a \in fluxo : n.cnpj \in {a.de, a.para}}
            partners == UNION {{a.de, a.para} : a \in at} \ {n.cnpj}
            around == GetCompanyGraph(graph, graph, n.cnpj, << >>).body
        IN  /\ n.valorTotal = SumBy(LAMBDA a : a.valorTotal, at)
            /\ n.totalNFs = SumBy(LAMBDA a : a.totalNFs, at)
            /\ n.degree = Cardinality(partners)
            /\ {a \in around.arestas : a.de # a.para} = at
            /\ partners \subseteq {v.cnpj : v \in around.nos}
            /\ GetCompany(graph, n.cnpj).stats.valorTotalEmitido >=
                   SumBy(LAMBDA a : a.valorTotal, {a \in at : a.de = n.cnpj})

\* The companies that a chain of edges joins to a.
Joined(edges, a) ==
    LET grow[n \in 0 .. Cardinality(edges)] ==
            IF n = 0 THEN {a} ELSE grow[n - 1] \cup UNION {e \in edges : e \cap grow[n - 1] # {}}
    IN  grow[Cardinality(edges)]

\* Two companies are in one community exactly when a chain of exchanges joins them, in
\* whatever order the database returns the edges.
CommunitiesAreJoined ==
    LET edges == {{t[1], t[3]} : t \in Exchanges(graph, Always)}
    IN  /\ GetCommunities(graph, << >>).body = {Joined(edges, a) : a \in UNION edges}
        /\ \A o \in SetToSeqs(edges) : ConnectedComponents(o) = {Joined(edges, a) : a \in UNION edges}

\* The network, the flow, the centrality, the communities and the company page of the API
\* draw one picture of who exchanged notas with whom.
NetworkAgrees == NodesAgreeWithEdges /\ HubsAgreeWithFlow /\ CommunitiesAreJoined

\* How many notas the list has for a filter.
Listed(q) == ListNf(graph, graph, q).body.total

\* What the list counts for a filter is what the rankings and the maps count.
ListAgrees ==
    LET porUf == GetByUf(graph, << >>).body
        impostos == GetImpostos([n \in 1 .. 5 |-> graph], << >>).body
    IN  /\ \A l \in GetTopEmpresas(graph, << >>).body : l.totalNFs = Listed([cnpjEmitente |-> l.cnpj])
        /\ \A u \in DOMAIN porUf : porUf[u].totalNFs = Listed([ufEmitente |-> u])
        /\ Listed([comImposto |-> TRUE]) + Listed([comImposto |-> FALSE]) = Listed(<< >>)
        /\ Listed([comReforma |-> TRUE, finalidade |-> "normal"]) = impostos.transicao.comReforma
        /\ \A l \in impostos.topCfop : l.totalNFs = Listed([cfop |-> l.cfop, finalidade |-> "normal"])

\* The home page and the tax page: every card of a tax has its curve, the donut is the curves
\* plus what has none, the reform is a share, and while nothing was returned the insight on
\* concentration and the alert rule with its default threshold name the same company.
HomeAgrees ==
    LET impostos == GetImpostos([n \in 1 .. 5 |-> graph], << >>).body
        ranked == Concentracao(TopCompanies(graph))
        alerted == {a.cnpjEmitente : a \in RuleSupplierConcentration(graph, DefaultAlertConfig.supplierConcentration.threshold)}
    IN  /\ Kpis(impostos) = SerieKeys(impostos)
        /\ Kpis(impostos) \subseteq Linhas(impostos.totais)
        /\ CargaTotal(impostos.totais)
               = SumBy(LAMBDA t : SumBy(LAMBDA m : impostos.serie[m][t], DOMAIN impostos.serie), SerieKeys(impostos))
                 + impostos.totais.vICMSST + impostos.totais.vFCP
        /\ PctReforma(impostos.transicao) \in 0 .. 100
        /\ (\A k \in Imported(graph) : ActiveNF(graph, k)) =>
               /\ ranked \subseteq alerted
               /\ ranked = {} => alerted = {}

\* The screens that count the same notas in different ways agree: the overview, the monthly
\* volume, the ranking of issuers, the map by UF, the list of notas, a comparison over all
\* time and two periods that meet; a product's ranking is what its issuers sold, its price
\* history that and its returns; the feed has the events of all notas, and the home page
\* derives one burden and one concentration from them.
ScreensAgree ==
    LET o == Overview([i \in 1 .. 5 |-> graph])
        volume == GetVolume(graph, [granularidade |-> "mes"]).body
        months == (DOMAIN volume) \ {NoPeriod}
        porUf == GetByUf(graph, << >>).body
        compared == GetComparison([i \in 1 .. 3 |-> graph], [dataInicio |-> 41, dataFim |-> 80]).body
        returned(p) == {c \in DOMAIN graph.contem : c[3] = p /\ ~ActiveNF(graph, c[1])}
        history(p) == GetHistorico(graph, p).body.historico
    IN  /\ o.totalNFs = SumBy(LAMBDA m : volume[m].totalNFs, months)
        /\ o.totalNFs = SumBy(LAMBDA s : o.nfsPorStatus[s], DOMAIN o.nfsPorStatus)
        /\ o.totalNFs = SumBy(LAMBDA u : porUf[u].totalNFs, DOMAIN porUf)
        /\ o.totalNFs = SumBy(LAMBDA l : l.totalNFs, GetTopEmpresas(graph, << >>).body)
        /\ o.totalNFs = Listed(<< >>)
        /\ ListAgrees
        /\ HomeAgrees
        /\ [totalNFs |-> o.totalNFs, valorTotal |-> o.valorTotalProcessado] = PeriodTotals(graph, 0, 1000)
        /\ compared.current.totalNFs + compared.previous.totalNFs = PeriodTotals(graph, 1, 80).totalNFs
        /\ o.valorTotalProcessado = SumBy(LAMBDA u : porUf[u].valorTotal, DOMAIN porUf)
        /\ Cardinality(o.ultimasProcessadas) = Min({10, o.totalNFs})
        /\ \A l \in GetTopProdutos(graph, << >>).body :
               /\ l.valorTotal = SumBy(LAMBDA c : c.valor,
                                    {c \in GetProdutoEmpresas(graph, l.idUnico).body.empresas : c.papel = "emitente"})
               /\ l.valorTotal + SumBy(LAMBDA c : graph.contem[c].valorTotal, returned(l.idUnico))
                     = SumBy(LAMBDA m : history(l.idUnico)[m].valorTotal, DOMAIN history(l.idUnico))
        /\ Cardinality(EventosDe(graph.eventos, ""))
               = SumBy(LAMBDA k : Cardinality(NfEvents(graph, k).eventos), DOMAIN graph.nf)

\* What the items of each nota carry of a tax adds up to the total the nota declares.
AddUpToTotals(taxes) ==
    \A k \in Imported(graph), t \in taxes :
        SumBy(LAMBDA c : Field(graph.contem[c], t), {c \in DOMAIN graph.contem : c[1] = k})
            = TotalOf(graph, k, t)

\* What the items of a nota carry of a tax adds up to the total the nota declares of it, for
\* the ten taxes named here: of these the parser loses no group of an item, nested as the
\* groups of the reform are.  A nota is worth its items, their IPI, ST and FCP.
ItemsAddUpToTotals ==
    /\ AddUpToTotals({"vICMS", "vICMSST", "vFCP", "vIPI", "vPIS", "vCOFINS",
                      "vIBS", "vIBSUF", "vIBSMun", "vCBS"})
    /\ \A k \in Imported(graph) :
           Valor(graph, k) = SumBy(LAMBDA c : graph.contem[c].valorTotal
                                              + SumBy(LAMBDA t : Field(graph.contem[c], t), {"vICMSST", "vFCP", "vIPI"}),
                                   {c \in DOMAIN graph.contem : c[1] = k})

\* nf.types.ts says that the Imposto Seletivo of an item is det/imposto/IS, where the XSD has
\* it: an item whose XML has it there has that vIS in the graph.  It is only looked for
\* inside IBSCBS/gIBSCBS.
SelectiveTaxIsKept ==
    \A d \in merged : \A det \in ToSet(Children(InfOf(d), "det")) :
        LET vIS == Text(Child(Child(det, "imposto"), "IS"), "vIS") IN
        vIS # Absent =>
            \E c \in DOMAIN graph.contem :
                c[1] = Key(d) /\ c[2] = Text(det, "@_nItem") /\ Field(graph.contem[c], "vIS") = vIS

\* A comment of Overview says that a click on a bar of the volume opens the list filtered by the
\* window of that period: the list has the notas that the bar counts.  The end of the
\* window is a date, which the list compares with the instants of the notas.
BarOpensItsNotas ==
    \A gran \in {"dia", "mes"} : \A p \in Drillable(graph, gran) :
        DrillToPeriod(graph, gran, p).total = VolumeBars(graph, gran)[p].totalNFs

\* A gap that is reported is a run of numbers of its série that nobody imported, between two
\* that were, and no number is in two of them: a devolução consumes a number, a stub does not
\* have one.  While the report is not full (50), the gaps of a série are all that is missing
\* of it.  No nota is in two groups of duplicates.
GapsAreTheMissingNumbers ==
    LET anomalias == GetAnomalies(graph, graph, << >>).body
        gaps == anomalias.gaps
        numbered == {e \in graph.emitiu : e[2] \in Imported(graph) /\ graph.nf[e[2]].numero \in Nat}
        serie(e) == <<e[1], graph.nf[e[2]].serie>>
        numbers(s) == {graph.nf[e[2]].numero : e \in {e \in numbered : serie(e) = s}}
        inside(x) == (x.from + 1) .. (x.to - 1)
    IN  /\ \A x \in gaps : /\ {x.from, x.to} \subseteq numbers(x.serie)
                           /\ inside(x) \cap numbers(x.serie) = {}
                           /\ x.missing = Cardinality(inside(x))
        /\ \A x, y \in gaps : x.serie = y.serie /\ x # y => inside(x) \cap inside(y) = {}
        /\ Cardinality(gaps) < 50 =>
               \A s \in {serie(e) : e \in numbered} :
                   UNION {inside(x) : x \in {x \in gaps : x.serie = s}}
                       = (Min(numbers(s)) .. Max(numbers(s))) \ numbers(s)
        /\ \A x, y \in anomalias.duplicatas : x # y => x.chaves \cap y.chaves = {}

\* The graph of some of the documents, and what the page of a nota shows of a field.
MergedOf(docs) == FoldSet(LAMBDA d, g : MergeInvoice(g, Invoice(d), d.root, 0), EmptyGraph, docs)
CellOf(g, k, campo) ==
    LET nf == GetInvoice(g, k)
        dest(x) == IF nf.destinatario = {} THEN Absent ELSE (CHOOSE e \in nf.destinatario : TRUE)[x]
    IN  CASE campo = "cnpjEmitente" -> nf.emitente.cnpj
          [] campo = "razaoSocialEmitente" -> nf.emitente.razaoSocial
          [] campo = "ufEmitente" -> nf.emitente.uf
          [] campo = "cnpjDestinatario" -> dest("cnpj")
          [] campo = "razaoSocialDestinatario" -> dest("razaoSocial")
          [] campo = "ufDestinatario" -> dest("uf")
          [] campo = "vICMSST" -> Or0(nf.totais, "vST")
          [] campo \in {"vICMS", "vIPI", "vPIS", "vCOFINS", "vFCP", "vIBS", "vIBSUF", "vIBSMun", "vCBS", "vIS"} ->
                 Or0(nf.totais, campo)
          [] OTHER -> IF campo \in DOMAIN nf.nota THEN nf.nota[campo] ELSE Absent

\* Two forms of the export page: every field as CSV with the XMLs, some of them as JSON.
Forms ==
    {[tipo |-> "nf", formato |-> "csv", incluirXml |-> TRUE,
      campos |-> FoldSet(LAMBDA g, cs : AlternarGrupo(cs, g), CamposPadrao, Grupos)],
     [tipo |-> "nf", formato |-> "json", incluirXml |-> FALSE, campos |-> AlternarCampo(CamposPadrao, "numero")]}

\* The file that a form gets, when notas are imported between its first page and the second.
FileIsTheList(before, form, filters, stored) ==
    \A file \in {Generate(before, <<before, graph>>, 1, [filtros |-> filters] @@ Pedido(form), stored)} :
    LET records == file.content
        keys == {records[i].chaveAcesso : i \in DOMAIN records}
        shown(k, c) == {CellOf(g, k, c) : g \in {g \in {before, graph} : k \in Imported(g)}}
    IN  /\ Filtered(before, filters) \subseteq keys
        /\ keys \subseteq Filtered(graph, filters)
        /\ Cardinality(keys) = Len(records) /\ file.totalRegistros = Len(records)
        /\ file.total <= file.totalRegistros
        /\ \A i \in DOMAIN records :
               /\ i > 1 => records[i].dataEmissao <= records[i - 1].dataEmissao
               /\ form.formato = "csv" => DOMAIN records[i] = ToSet(form.campos)
               /\ \A c \in ToSet(form.campos) :
                      /\ c \in DOMAIN records[i] => records[i][c] \in shown(records[i].chaveAcesso, c)
                      /\ c \notin DOMAIN records[i] => shown(records[i].chaveAcesso, c) = {Absent}
        /\ file.xmls = IF form.incluirXml THEN keys \cap stored ELSE {}

\* An export is the list, whatever is imported while its pages are read: each nota of the filter
\* that was there at the first page once, newest first, no record that the list does not
\* have, at least as many as were counted, in every field the user ticked what the page of the
\* nota shows, and the XMLs that are stored.  The exported network has both ends of
\* every edge, and nodes at least as busy as their edges, which were read earlier.
ExportIsTheList ==
    \A d \in merged :
        LET before == MergedOf(merged \ {d})
            rede == GenerateRede(before, graph)
        IN  /\ \A form \in Forms, filters \in {<< >>, [finalidade |-> "normal"]} :
                   FileIsTheList(before, form, filters, {Key(x) : x \in merged \ {d}})
            /\ \A e \in rede.edges : \A end \in {e.source, e.target} :
                   \E n \in rede.nodes : n.id = end /\ n.totalNFs >= e.totalNFs
            /\ rede.totalRegistros = Cardinality(rede.nodes)
=============================================================================
