----------------------------- MODULE ExportFile -----------------------------
(* What an export holds: the form of the dashboard (Exports.tsx) that asks for it, the
   job create makes of the request and the file generate and generateRede write from
   the graph, which grows while the pages of notas are read.  The life of the job is
   in ExportService.  A file is the sequence of its records, a line of a CSV among them;
   quoting, the BOM and the separator are left out.  An empty cell is Absent.   *)
EXTENDS FiscalApi

-----------------------------------------------------------------------------
(* The form.                                                                 *)

Grupos ==
    {{"chaveAcesso", "numero", "serie", "status", "tipoNF", "finalidade", "naturezaOp"},
     {"valorTotal"}, {"dataEmissao", "dataSaida", "importadaEm", "processadaEm"},
     {"cnpjEmitente", "razaoSocialEmitente", "ufEmitente"},
     {"cnpjDestinatario", "razaoSocialDestinatario", "ufDestinatario"},
     {"vICMS", "vICMSST", "vIPI", "vPIS", "vCOFINS", "vFCP", "vIBS", "vIBSUF", "vIBSMun", "vCBS", "vIS"}}
TodosCampos == UNION Grupos
CamposPadrao == <<"chaveAcesso", "numero", "dataEmissao", "valorTotal", "cnpjEmitente", "cnpjDestinatario">>

\* The fields are a sequence in the order they were ticked, which is that of the columns.
AlternarCampo(campos, c) == IF c \in ToSet(campos) THEN Remove(campos, c) ELSE Append(campos, c)
AlternarGrupo(campos, grupo) ==
    LET fora == grupo \ ToSet(campos) IN
    IF fora = {} THEN SelectSeq(campos, LAMBDA c : c \notin grupo) ELSE FoldSet(LAMBDA c, cs : Append(cs, c), campos, fora)

\* gerar: the body of the POST.  An empty selection is not sent, but for the button
\* of an empty history, which does not look at it.
Pedido(form) ==
    IF form.tipo = "rede" THEN [formato |-> "json", tipo |-> "rede"]
    ELSE [formato |-> form.formato, campos |-> form.campos, incluirXml |-> form.incluirXml, tipo |-> "nf"]

-----------------------------------------------------------------------------
(* The job.                                                                  *)

\* create, after the schema of POST /export: the network is JSON and has no XMLs.
NewExport(body, hasStorage) ==
    LET rede == Given(body, "tipo", "nf") = "rede" IN
    Answered("formato" \in DOMAIN body /\ OneOf(body, "formato", {"csv", "xlsx", "json"})
                 /\ OneOf(body, "tipo", {"nf", "rede"}),
             [formato |-> IF rede THEN "json" ELSE body.formato, tipo |-> Given(body, "tipo", "nf"),
              incluirXml |-> ~rede /\ Given(body, "incluirXml", FALSE) /\ hasStorage])

-----------------------------------------------------------------------------
(* The rows.                                                                 *)

\* A row as listInvoices returns it; a property that is not set has no key.
ListItem(g, k) ==
    LET nf == g.nf[k]
        empresa(e) == [cnpj |-> e.cnpj, razaoSocial |-> e.razaoSocial, uf |-> e.uf]
        total(t) == Or0(nf.totais, IF t = "vICMSST" THEN "vST" ELSE t)
        plain == {"chaveAcesso", "numero", "serie", "dataEmissao", "dataSaida", "valorTotal", "status",
                  "tipoNF", "finalidade", "importadaEm", "naturezaOp", "processadaEm"}
    IN  Restrict(nf, plain \cap DOMAIN nf)
        @@ [emitente |-> empresa(EmitOf(g, k)),
            tributos |-> [t \in {"vICMS", "vICMSST", "vIPI", "vPIS", "vCOFINS", "vFCP", "vIBS",
                                 "vIBSUF", "vIBSMun", "vCBS", "vIS"} |-> total(t)]]
        @@ (IF DestsOf(g, k) = {} THEN << >>
            ELSE [destinatario |-> empresa(CHOOSE d \in DestsOf(g, k) : TRUE)])

\* Mutant of FlattenRow: the nested taxes are left nested.
FlattenCompanies(row) ==
    LET of(p, x) == IF p \in DOMAIN row THEN row[p][x] ELSE Absent
    IN  [cnpjEmitente |-> of("emitente", "cnpj"), razaoSocialEmitente |-> of("emitente", "razaoSocial"),
         ufEmitente |-> of("emitente", "uf"), cnpjDestinatario |-> of("destinatario", "cnpj"),
         razaoSocialDestinatario |-> of("destinatario", "razaoSocial"),
         ufDestinatario |-> of("destinatario", "uf")] @@ row
\* flattenRow: companies and taxes become keys of the row, which keeps its own.
FlattenRow(row) ==
    LET of(p, x) == IF p \in DOMAIN row THEN row[p][x] ELSE Absent
    IN  row.tributos
        @@ [cnpjEmitente |-> of("emitente", "cnpj"), razaoSocialEmitente |-> of("emitente", "razaoSocial"),
            ufEmitente |-> of("emitente", "uf"), cnpjDestinatario |-> of("destinatario", "cnpj"),
            razaoSocialDestinatario |-> of("destinatario", "razaoSocial"),
            ufDestinatario |-> of("destinatario", "uf")]
        @@ row

\* The rows of the pages up to the first without a cursor, page n as the graph gs[n] has them.
RowsUntilTheLast(gs, page) ==
    LET last == Min({n \in DOMAIN page : page[n].nextCursor = NoCursor})
    IN  FlattenSeq([n \in 1 .. last |->
            [i \in DOMAIN page[n].data |-> ListItem(gs[n], page[n].data[i][2])]])
\* The loop of generate: page n is read from the graph gs[n], the last graph stays.
Collect(gs, filters, limit) ==
    LET seen == [n \in 1 .. Cardinality(DOMAIN Last(gs).nf) + 1 |-> gs[Min({n, Len(gs)})]]
        page[n \in DOMAIN seen] ==
            ListInvoices(seen[n], filters, [limit |-> limit, orderBy |-> "dataEmissao", order |-> "desc",
                                            cursor |-> IF n = 1 THEN NoCursor ELSE page[n - 1].nextCursor])
    IN  RowsUntilTheLast(seen, page)

-----------------------------------------------------------------------------
(* The file.                                                                 *)

\* serialize: a table has every column in every line, a JSON record the keys its row has.
\* Without fields the columns are the keys of the first row.
Serialize(formato, rows, body) ==
    LET cols == IF "campos" \in DOMAIN body THEN ToSet(body.campos)
                ELSE IF rows = << >> THEN {} ELSE DOMAIN rows[1]
        line(row) == [c \in cols |-> IF c \in DOMAIN row THEN row[c] ELSE Absent]
        pick(row) == IF "campos" \in DOMAIN body THEN Restrict(row, cols \cap DOMAIN row) ELSE row
    IN  [i \in DOMAIN rows |-> IF formato = "json" THEN pick(rows[i]) ELSE line(rows[i])]

\* buildZip: the XMLs that are in the storage, whatever is missing.
BuildZip(keys, stored) == keys \cap stored

\* What generate makes of the rows.
Written(job, rows, body, stored) ==
    [totalRegistros |-> Len(rows),
     content |-> Serialize(job.formato, [i \in DOMAIN rows |-> FlattenRow(rows[i])], body),
     xmls |-> IF job.incluirXml THEN BuildZip({rows[i].chaveAcesso : i \in DOMAIN rows}, stored) ELSE {}]
\* generate: the count is read before the pages.
Generate(gCount, gs, limit, body, stored) ==
    LET filters == Given(body, "filtros", << >>)
    IN  [total |-> CountInvoices(gCount, filters)]
        @@ Written(NewExport(body, TRUE).body, Collect(gs, filters, limit), body, stored)

\* generateRede: the network of all time, of 500 edges at most.
GenerateRede(gEdges, gNodes) ==
    LET rede == RedeGlobal(gEdges, gNodes, 500, Always) IN
    [totalRegistros |-> Cardinality(rede.nos),
     nodes |-> {[id |-> n.cnpj, label |-> gNodes.emp[n.cnpj].razaoSocial, uf |-> gNodes.emp[n.cnpj].uf,
                 totalNFs |-> n.totalNFs] : n \in rede.nos},
     edges |-> {[source |-> a.de, target |-> a.para, valorTotal |-> a.valorTotal, totalNFs |-> a.totalNFs] :
                   a \in rede.arestas}]
=============================================================================
