-------------------------- MODULE InvoiceQueries --------------------------
(* The reads of notas and of their events: packages/graph nf.queries.ts and
   the GET /nf routes of packages/api.  Every operator is one query on the graph
   as one statement sees it; what is several statements in the code is read from
   several graphs by the actions that use them.

   A filter is a record with the fields that are set.  A cursor is a pair of the
   value ordered by and the key, or NoCursor.                                 *)
EXTENDS InvoiceGraph

NoCursor == << >>
Orderable == {"dataEmissao", "dataSaida", "valorTotal", "numero", "chaveAcesso"}
MaxLimit == 200

EmitOf(g, k) == g.emp[(CHOOSE e \in g.emitiu : e[2] = k)[1]]
DestsOf(g, k) == {g.emp[d[2]] : d \in {d \in g.destinada : d[1] = k}}

Or0(props, field) == IF field \in DOMAIN props THEN props[field] ELSE 0

\* buildWhere: the clauses on the nota itself.  Texts are values none of which contains
\* another; q is looked for in naturezaOp too, which is left out.
BuildWhere(g, k, f) ==
    LET nf == g.nf[k]
        icms == Or0(nf.totais, "vICMS")
        reforma == Or0(nf.totais, "vIBS") > 0 \/ Or0(nf.totais, "vCBS") > 0
        set == DOMAIN f
    IN  /\ \A p \in {"chaveAcesso", "numero", "serie", "status", "tipoNF", "finalidade"} \cap set :
               nf[p] = f[p]
        /\ "q" \in set => f.q \in {nf.chaveAcesso, nf.numero}
        /\ "dataEmissaoInicio" \in set => nf.dataEmissao >= f.dataEmissaoInicio
        /\ "dataEmissaoFim" \in set => nf.dataEmissao <= f.dataEmissaoFim
        /\ "dataSaidaInicio" \in set => nf.dataSaida >= f.dataSaidaInicio
        /\ "dataSaidaFim" \in set => nf.dataSaida <= f.dataSaidaFim
        /\ "valorTotalMin" \in set => nf.valorTotal >= f.valorTotalMin
        /\ "valorTotalMax" \in set => nf.valorTotal <= f.valorTotalMax
        /\ "vICMSMin" \in set => icms >= f.vICMSMin
        /\ "vICMSMax" \in set => icms <= f.vICMSMax
        /\ "comImposto" \in set => (f.comImposto <=> icms > 0)
        /\ "comReforma" \in set => (f.comReforma <=> reforma)

\* buildFilterQuery: an issued nota whose edges satisfy the filter too.
Filtered(g, f) ==
    LET set == DOMAIN f
        produtos(k) == {c[3] : c \in {c \in DOMAIN g.contem : c[1] = k}}
    IN  {k \in {e[2] : e \in g.emitiu} :
            /\ BuildWhere(g, k, f)
            /\ "cnpjEmitente" \in set => EmitOf(g, k).cnpj = f.cnpjEmitente
            /\ "ufEmitente" \in set => EmitOf(g, k).uf = f.ufEmitente
            /\ "cnpjDestinatario" \in set => \E d \in DestsOf(g, k) : d.cnpj = f.cnpjDestinatario
            /\ "ufDestinatario" \in set => \E d \in DestsOf(g, k) : d.uf = f.ufDestinatario
            /\ "cfop" \in set => <<k, f.cfop>> \in g.usaCfop
            /\ "ncm" \in set =>          \* an NCM, or a chapter as its prefix
                   \E c \in g.classificado :
                       c[1] \in produtos(k) /\ SubSeq(c[2], 1, Len(f.ncm)) = f.ncm}

\* countInvoices, the total GET /nf gives beside a page; another statement.
CountInvoices(g, f) == Cardinality(Filtered(g, f))

\* The order of a list: by a property, then by key, both in one direction.
SortKey(g, k, orderBy) == IF orderBy = "chaveAcesso" THEN k ELSE g.nf[k][orderBy]
Precedes(order, a, b) ==
    IF order = "asc" THEN a[1] < b[1] \/ (a[1] = b[1] /\ a[2] < b[2])
    ELSE a[1] > b[1] \/ (a[1] = b[1] /\ a[2] > b[2])

\* Mutant of AfterCursor: the key does not break ties.
AfterValue(order, cursor, at) == cursor = NoCursor \/ Precedes(order, <<cursor[1], 0>>, <<at[1], 0>>)
\* The rows that come after the cursor.
AfterCursor(order, cursor, at) == cursor = NoCursor \/ Precedes(order, cursor, at)

\* The cursor of the page that follows, when limit + 1 rows were found.
NextCursor(rows, limit) == IF Len(rows) > limit THEN rows[limit] ELSE NoCursor
\* The page of the rows that follow a cursor.
PageOf(rows, limit) ==
    [data |-> SubSeq(rows, 1, Min({Len(rows), limit})),
     nextCursor |-> NextCursor(rows, limit), limit |-> limit, hasMore |-> Len(rows) > limit]

\* listInvoices: a page of rows <<sort value, key>> and the cursor that follows it.
ListInvoices(g, f, opts) ==
    LET by    == IF opts.orderBy \in Orderable THEN opts.orderBy ELSE "dataEmissao"
        at(k) == <<SortKey(g, k, by), k>>
        rows  == {r \in {at(k) : k \in Filtered(g, f)} : AfterCursor(opts.order, opts.cursor, r)}
    IN  PageOf(Ordered(rows, {p \in rows \X rows : Precedes(opts.order, p[1], p[2])}),
               Min({opts.limit, MaxLimit}))

-----------------------------------------------------------------------------
\* getInvoice's rows of items: one per CONTÉM and per NCM of its product.
ItemRows(g, k) ==
    {r \in (DOMAIN g.contem) \X (DOMAIN g.ncm) :
        r[1][1] = k /\ <<r[1][3], r[2]>> \in g.classificado}

\* GET /nf/:chave as formatInvoiceDetail shows it; NotFound is the 404.
NotFound == [found |-> FALSE]
GetInvoice(g, k) ==
    IF ~\E e \in g.emitiu : e[2] = k THEN NotFound
    ELSE [found |-> TRUE,
          nota |-> g.nf[k], totais |-> g.nf[k].totais,
          emitente |-> EmitOf(g, k), destinatario |-> DestsOf(g, k),
          cfops |-> {u[2] : u \in {u \in g.usaCfop : u[1] = k}},
          itens |-> {[numeroItem |-> r[1][2], tributos |-> g.contem[r[1]],
                      produto |-> r[1][3], ncm |-> r[2]] : r \in ItemRows(g, k)}]

\* GET /nf/:chave/events: the events of a nota, of a stub too.
NfEvents(g, k) == IF k \notin DOMAIN g.nf THEN NotFound
                  ELSE [found |-> TRUE, eventos |-> {e \in g.eventos : e.chave = k}]

\* listEventos: the events of a type, which it counts in one statement and of which it reads
\* a page in another, the newest first.  The order of those of one instant is any, and need
\* not be the one another page was read in.
EventosDe(events, tipo) == {e \in events : tipo \in {"", e.tipo}}
ListEventos(events, opts) ==
    {SubSeq(rows, opts.offset + 1, Min({Len(rows), opts.offset + opts.limit})) :
        rows \in {r \in SetToSeqs(EventosDe(events, opts.tipo)) :
                     \A i, j \in DOMAIN r : i < j => r[i].timestamp >= r[j].timestamp}}
=============================================================================
