----------------------------- MODULE FiscalApi -----------------------------
(* packages/api: the GET routes of notas, companies and statistics over the
   queries of packages/graph.  A request is the record of the parameters that were
   sent, as ajv coerced them: a route rejects it, or completes it with its defaults.
   The search in naturezaOp is left out.  A route that runs several statements
   takes the graph each of them reads.                                        *)
EXTENDS FiscalQueries, InvoiceQueries

BadRequest == [ok |-> FALSE, status |-> 400]
Ok(body) == [ok |-> TRUE, body |-> body]
Given(q, p, default) == IF p \in DOMAIN q THEN q[p] ELSE default
Bounded(q, p, max) == p \in DOMAIN q => q[p] \in 1 .. max
OneOf(q, p, values) == p \in DOMAIN q => q[p] \in values
Answered(accepted, body) == IF accepted THEN Ok(body) ELSE BadRequest
Janela(q) == <<Given(q, "dataInicio", Always[1]), Given(q, "dataFim", Always[2])>>
Roles == {"emitente", "destinatario"}

-----------------------------------------------------------------------------
(* Notas.                                                                    *)

FilterParams == {"chaveAcesso", "numero", "serie", "dataEmissaoInicio", "dataEmissaoFim", "dataSaidaInicio",
                 "dataSaidaFim", "valorTotalMin", "valorTotalMax", "status", "tipoNF", "finalidade",
                 "cnpjEmitente", "cnpjDestinatario", "ufEmitente", "ufDestinatario", "cfop", "ncm",
                 "vICMSMin", "vICMSMax", "comImposto", "comReforma", "q"}
PageParams == {"cursor", "limit", "orderBy", "order"}
DefaultLimit == 50

\* nfListQuerySchema: ajv drops what it does not name and checks the rest.
AcceptedListQuery(q) ==
    /\ OneOf(q, "status", {"ativa", "cancelada", "denegada", "inutilizada"})
    /\ OneOf(q, "tipoNF", {"entrada", "saida"})
    /\ OneOf(q, "finalidade", {"normal", "complementar", "ajuste", "devolucao"})
    /\ OneOf(q, "order", {"asc", "desc"})
    /\ Bounded(q, "limit", MaxLimit)

\* GET /nf: the page and the count are two statements, sent at once.
ListNf(gPage, gCount, q) ==
    LET filters == Restrict(q, FilterParams \cap DOMAIN q)
        opts == [cursor |-> Given(q, "cursor", NoCursor), limit |-> Given(q, "limit", DefaultLimit),
                 orderBy |-> Given(q, "orderBy", "dataEmissao"), order |-> Given(q, "order", "desc")]
    IN  Answered(AcceptedListQuery(q),
                 [page |-> ListInvoices(gPage, filters, opts), total |-> CountInvoices(gCount, filters),
                  filtrosAtivos |-> DOMAIN filters])

-----------------------------------------------------------------------------
(* Companies.                                                                *)

\* GET /empresa/:cnpj/graph: the depth is checked before the query.
GetCompanyGraph(gNodes, gRest, cnpj, q) ==
    LET depth == Given(q, "depth", 1)
        all == CompanyGraph(gNodes, gRest, cnpj, depth, Given(q, "limit", 100))
        leftOut == {p \in {"produtos", "notas"} : ~Given(q, IF p = "notas" THEN "includeNotas" ELSE "includeProdutos", FALSE)}
    IN  IF ~OneOf(q, "direction", Roles \cup {"both"}) \/ ~Bounded(q, "limit", 500) \/ depth \notin 1 .. 4
        THEN BadRequest
        ELSE Ok(Restrict(all, DOMAIN all \ leftOut))

-----------------------------------------------------------------------------
(* Statistics.                                                               *)

\* Mutant of Overview: a stub is counted.
OverviewWithStubs(gs) ==
    [totalNFs |-> Cardinality(DOMAIN gs[1].nf),
     valorTotalProcessado |-> ValorDas(gs[1], DOMAIN gs[1].nf),
     totalEmpresas |-> Cardinality(DOMAIN gs[2].emp),
     totalProdutos |-> Cardinality(DOMAIN gs[3].prod),
     nfsPorStatus |-> [s \in {"ativa"} |-> Cardinality(DOMAIN gs[4].nf)],
     ultimasProcessadas |-> DOMAIN gs[5].nf]
\* GET /stats/overview: five statements in turn; the last has the ten newest imports.
Overview(gs) ==
    [totalNFs |-> Cardinality(Imported(gs[1])),
     valorTotalProcessado |-> ValorDas(gs[1], Imported(gs[1])),
     totalEmpresas |-> Cardinality(DOMAIN gs[2].emp),
     totalProdutos |-> Cardinality(DOMAIN gs[3].prod),
     nfsPorStatus |-> [s \in {gs[4].nf[k].status : k \in Imported(gs[4])} |->
                          Cardinality({k \in Imported(gs[4]) : gs[4].nf[k].status = s})],
     ultimasProcessadas |-> TopBy(LAMBDA k : gs[5].nf[k].importadaEm, Imported(gs[5]), 10)]

\* GET /stats/comparison: both ends of the period, as days, are required.
GetComparison(gs, q) ==
    Answered({"dataInicio", "dataFim"} \subseteq DOMAIN q, PeriodComparison(gs, q.dataInicio, q.dataFim))

\* GET /stats/anomalies: two statements.
GetAnomalies(gDup, gGaps, q) ==
    LET limit == Given(q, "limit", 50) IN
    Answered(Bounded(q, "limit", 200),
             [duplicatas |-> DuplicateGroups(gDup, limit), gaps |-> NumberingGaps(gGaps, limit)])

\* GET /stats/volume: with no window the stubs are counted, under no period; a week is by day.
NoPeriod == -1
GetVolume(g, q) ==
    LET granularidade == Given(q, "granularidade", "dia")
        periodo(k) == IF IsStub(g, k) THEN NoPeriod
                      ELSE IF granularidade = "mes" THEN MonthOf(g.nf[k].dataEmissao)
                      ELSE IF granularidade = "hora" THEN g.nf[k].dataEmissao
                      ELSE DayOf(g.nf[k].dataEmissao)
        in == {k \in DOMAIN g.nf : {"dataInicio", "dataFim"} \cap DOMAIN q # {} =>
                                       (~IsStub(g, k) /\ InWindow(g, k, Janela(q)))}
    IN  Answered(OneOf(q, "granularidade", {"hora", "dia", "semana", "mes"}),
            [p \in {periodo(k) : k \in in} |->
                LET of == {k \in in : periodo(k) = p} IN
                [totalNFs |-> Cardinality(of), valorTotal |-> ValorDas(g, of),
                 canceladas |-> Cardinality({k \in of : ~IsStub(g, k) /\ g.nf[k].status = "cancelada"})]])

\* The edges of a role: <<company, nota>>.
RoleEdges(g, tipo) == IF tipo = "destinatario" THEN {<<d[2], d[1]>> : d \in g.destinada} ELSE g.emitiu
\* GET /stats/top-empresas: of all time, the window it accepts is not used; devoluções count.
GetTopEmpresas(g, q) ==
    LET edges == RoleEdges(g, Given(q, "tipo", "emitente"))
        notas(c) == {e[2] : e \in {e \in edges : e[1] = c}}
        line(c) == [cnpj |-> c, totalNFs |-> Cardinality(notas(c)),
                    valorTotal |-> ValorDas(g, notas(c))]
        metrica == Given(q, "metrica", "valor")
    IN  Answered(OneOf(q, "tipo", Roles) /\ OneOf(q, "metrica", {"valor", "quantidade"}) /\ Bounded(q, "limit", 50),
            TopBy(LAMBDA l : IF metrica = "quantidade" THEN l.totalNFs ELSE l.valorTotal,
                  {line(e[1]) : e \in edges}, Given(q, "limit", 10)))

\* GET /stats/by-uf.
GetByUf(g, q) ==
    LET edges == RoleEdges(g, Given(q, "tipo", "emitente"))
    IN  Answered(OneOf(q, "tipo", Roles),
            [uf \in {g.emp[e[1]].uf : e \in edges} |->
                LET of == {e \in edges : g.emp[e[1]].uf = uf} IN
                [totalNFs |-> Cardinality(of), valorTotal |-> SumBy(LAMBDA e : Valor(g, e[2]), of)]])

\* GET /stats/top-produtos, /stats/produto/:idUnico/historico and .../empresas.
GetTopProdutos(g, q) ==
    Answered(OneOf(q, "metrica", {"valor", "quantidade"}) /\ Bounded(q, "limit", 50),
             TopProducts(g, Given(q, "metrica", "valor"), Given(q, "ncm", << >>), Janela(q), Given(q, "limit", 10)))
GetHistorico(g, idUnico) == Ok([idUnico |-> idUnico, historico |-> ProductPriceHistory(g, idUnico)])
GetProdutoEmpresas(g, idUnico) == Ok([idUnico |-> idUnico, empresas |-> ProductCompanies(g, idUnico)])

\* GET /stats/impostos: five statements on up to five graphs.
GetImpostos(gs, q) ==
    LET f == [uf |-> Given(q, "uf", ""), janela |-> Janela(q)]
        limit == Given(q, "limit", 10)
    IN  Answered(Bounded(q, "limit", 50),
            [totais |-> TaxTotais(gs[1], f), serie |-> TaxSerie(gs[2], f), transicao |-> TaxTransicao(gs[3], f),
             topNcm |-> TaxByNcm(gs[4], f, limit), topCfop |-> TaxByCfop(gs[5], f, limit)])

\* GET /stats/flow, /stats/network, /stats/centrality and /stats/communities.
GetFlow(g, q) == Answered(Bounded(q, "limite", 100), FluxoEmpresas(g, Given(q, "limite", 30)))
GetNetwork(gEdges, gNodes, q) ==
    Answered(Bounded(q, "limite", 500), RedeGlobal(gEdges, gNodes, Given(q, "limite", 150), Janela(q)))
GetCentrality(g, q) == Answered(Bounded(q, "limit", 200), Centrality(g, Given(q, "limit", 50)))
GetCommunities(g, q) == Answered(Bounded(q, "edgeLimit", 5000), Communities(g, Given(q, "edgeLimit", 2000)))
=============================================================================
