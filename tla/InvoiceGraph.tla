--------------------------- MODULE InvoiceGraph ---------------------------
(* packages/graph: the fiscal graph in Neo4j and the transaction that merges a
   nota into it.  A node or an edge with properties is a value of a function
   from its key; its properties are a record that holds only what was set, so
   the stub a DEVOLVE creates is the record of its key alone.                *)
EXTENDS NFeDocument

\* What the graph holds after the migrations, before the first nota.
EmptyGraph ==
    [nf |-> << >>, emp |-> << >>, prod |-> << >>, ncm |-> << >>, cfop |-> << >>,
     classificado |-> {},      \* Produto -> NCM
     usaCfop |-> {},           \* NotaFiscal -> CFOP
     contem |-> << >>,         \* <<NotaFiscal, numeroItem, Produto>> -> properties
     emitiu |-> {},            \* Empresa -> NotaFiscal
     destinada |-> {},         \* NotaFiscal -> Empresa
     devolve |-> {},           \* NotaFiscal -> NotaFiscal
     raw |-> << >>,            \* NotaFiscal -> RawData
     eventos |-> {}]           \* [chave, tipo, timestamp]

\* MERGE (n {key: k}) SET n += props, and with ON CREATE SET only.
Upsert(f, k, props) == Over([x \in {k} |-> IF k \in DOMAIN f THEN Over(props, f[k]) ELSE props], f)
CreateOnly(f, k, props) == Over(f, [x \in {k} |-> props])

\* serializeInvoice: total_vICMS is totais.vICMS here.
SerializeInvoice(inv) == Over(inv.nota, [totais |-> inv.totais])

\* Steps 1 to 5: the companies, the nota, its raw data and who issued and receives it.
MergeHeader(g, inv, xml) ==
    LET k       == inv.nota.chaveAcesso
        emp1    == Upsert(g.emp, inv.emitente.cnpj, inv.emitente)
        hasDest == inv.destinatario # << >>
        dest    == inv.destinatario[1]
    IN  [g EXCEPT
            !.emp = IF hasDest THEN Upsert(emp1, dest.cnpj, dest) ELSE emp1,
            !.nf = Upsert(@, k, SerializeInvoice(inv)),
            !.raw = (k :> [xml |-> xml]) @@ @,
            !.emitiu = @ \cup {<<inv.emitente.cnpj, k>>},
            !.destinada = IF hasDest THEN @ \cup {<<k, dest.cnpj>>} ELSE @]

\* One item of step 6.
MergeItem(g, k, item) ==
    LET p == item.produto.idUnico IN
    [g EXCEPT !.prod = CreateOnly(@, p, item.produto),
              !.ncm = Upsert(@, item.ncm, LookupNcm(item.ncm)),
              !.cfop = Upsert(@, item.cfop, LookupCfop(item.cfop)),
              !.classificado = @ \cup {<<p, item.ncm>>},
              !.usaCfop = @ \cup {<<k, item.cfop>>},
              !.contem = Upsert(@, <<k, item.contem.numeroItem, p>>, item.contem)]

\* Step 6: the items, in the order of the document.
MergeItems(g, k, itens) == FoldLeft(LAMBDA acc, item : MergeItem(acc, k, item), g, itens)

\* Step 7: the import is recorded once.
MergeEvent(g, k, now) ==
    IF \E e \in g.eventos : e.chave = k /\ e.tipo = "importada" THEN g
    ELSE [g EXCEPT !.eventos = @ \cup {[chave |-> k, tipo |-> "importada", timestamp |-> now]}]

\* Mutant of MergeReferences: the origin is created over whatever is there.
MergeReferencesFresh(g, inv) ==
    LET k == inv.nota.chaveAcesso
        refs == IF inv.nota.finalidade = "devolucao" THEN ToSet(inv.referencias) \ {k} ELSE {}
    IN  [g EXCEPT !.nf = [r \in refs |-> [chaveAcesso |-> r]] @@ @,
                  !.devolve = @ \cup {<<k, r>> : r \in refs}]
\* Step 8: a devolução points at its origins, a stub where one is not imported yet.
MergeReferences(g, inv) ==
    LET k == inv.nota.chaveAcesso
        refs == IF inv.nota.finalidade = "devolucao" THEN ToSet(inv.referencias) \ {k} ELSE {}
    IN  [g EXCEPT !.nf = Over(@, [r \in refs |-> [chaveAcesso |-> r]]),
                  !.devolve = @ \cup {<<k, r>> : r \in refs}]

\* mergeInvoice: one write transaction.
MergeInvoice(g, inv, xml, now) ==
    LET k == inv.nota.chaveAcesso IN
    MergeReferences(
        MergeEvent(MergeItems(MergeHeader(g, inv, xml), k, inv.itens), k, now),
        inv)

\* The properties a stub lacks read as null.
IsStub(g, k) == "status" \notin DOMAIN g.nf[k]
Imported(g) == {k \in DOMAIN g.nf : ~IsStub(g, k)}

\* activeNFPredicate and buildTaxWhere's fixed clauses.
ActiveNF(g, k) == ~IsStub(g, k) /\ g.nf[k].finalidade # "devolucao"

\* The trade pattern (a:Empresa)-[:EMITIU]->(nf)-[:DESTINADA_A]->(b:Empresa): its rows.
Trades(g) == {<<p[1][1], p[1][2], p[2][2]>> :
                p \in {p \in g.emitiu \X g.destinada : p[1][2] = p[2][1]}}

-----------------------------------------------------------------------------
(* What a document says, whenever it is parsed.                                *)

Invoice(d) == ParseNFe(d, 0)
Key(d) == Invoice(d).nota.chaveAcesso
\* The notas a devolução refers to, itself excepted.
Origins(i) == IF i.nota.finalidade = "devolucao" THEN ToSet(i.referencias) \ {i.nota.chaveAcesso} ELSE {}
\* Properties but for one.
Omit(props, field) == [p \in (DOMAIN props) \ {field} |-> props[p]]

\* Documents that can be merged: they parse, an access key names one nota, and as the XSD asks
\* they have a dhEmi and, by its key pk_nItem, items numbered apart.
AreNotas(docs) ==
    /\ \A d, e \in docs : Key(d) = Key(e) => Invoice(d) = Invoice(e)
    /\ \A d \in docs :
           LET itens == Invoice(d).itens IN
           /\ Invoice(d).ok
           /\ Text(Child(InfOf(d), "ide"), "dhEmi") # Absent
           /\ Len(itens) \in Nat /\ DOMAIN itens = 1 .. Len(itens)
           /\ \A n, m \in DOMAIN itens :
                  itens[n].contem.numeroItem = itens[m].contem.numeroItem => n = m
=============================================================================
