-------------------------- MODULE NetworkQueries --------------------------
(* The company network: company.queries.ts, flow.queries.ts and
   graph.metrics.queries.ts of packages/graph.  Results are functions and sets;
   a LIMIT takes the rows of greatest value.                                  *)
EXTENDS InvoiceGraph

SumBy(Op(_), S) == MapThenSumSet(Op, S)
Valor(g, k) == IF IsStub(g, k) THEN 0 ELSE g.nf[k].valorTotal
ValorDas(g, notas) == SumBy(LAMBDA k : Valor(g, k), notas)
InWindow(g, k, w) == g.nf[k].dataEmissao >= w[1] /\ g.nf[k].dataEmissao <= w[2]
Always == <<0, 1000000>>

\* ORDER BY Op DESC LIMIT n, ties in any fixed order.
TopBy(Op(_), S, n) ==
    LET ranked == Ordered(S, {p \in S \X S : Op(p[1]) > Op(p[2])})
    IN  {x \in S : \E i \in (DOMAIN ranked) \cap (1 .. n) : ranked[i] = x}

\* getCompanyStats: issued and received are aggregated apart.
CompanyStats(g, cnpj) ==
    LET emitidas  == {e[2] : e \in {e \in g.emitiu : e[1] = cnpj /\ ActiveNF(g, e[2])}}
        recebidas == {d[1] : d \in {d \in g.destinada : d[2] = cnpj /\ ActiveNF(g, d[1])}}
        datas     == {g.nf[k].dataEmissao : k \in emitidas}
    IN  [totalNFsEmitidas |-> Cardinality(emitidas), totalNFsRecebidas |-> Cardinality(recebidas),
         valorTotalEmitido |-> ValorDas(g, emitidas),
         primeiraEmissao |-> IF datas = {} THEN 0 ELSE Min(datas),
         ultimaEmissao |-> IF datas = {} THEN 0 ELSE Max(datas)]

\* GET /empresa/:cnpj: the company and its numbers are two statements.
GetCompany(g, cnpj) ==
    IF cnpj \notin DOMAIN g.emp THEN [found |-> FALSE]
    ELSE [found |-> TRUE, empresa |-> g.emp[cnpj], stats |-> CompanyStats(g, cnpj)]

\* Aggregated edges emitente -> destinatário over a set of trade rows.
Aggregated(g, rows) ==
    LET pairs == {<<t[1], t[3]>> : t \in rows}
        of(p) == {t[2] : t \in {t \in rows : <<t[1], t[3]>> = p}}
    IN  {[de |-> p[1], para |-> p[2], totalNFs |-> Cardinality(of(p)),
          valorTotal |-> ValorDas(g, of(p))] : p \in pairs}
ActiveTrades(g) == {t \in Trades(g) : ActiveNF(g, t[2])}

\* How far two companies are, in notas: a path of EMITIU and DESTINADA_A edges, which
\* has two of them per company, repeats no edge and goes at most twice the depth.
LinkedBy(g) == {<<e[1], e[2]>> : e \in g.emitiu} \cup {<<d[2], d[1]>> : d \in g.destinada}
Reached(g, from, depth) ==
    LET within[n \in 0 .. depth] ==
            IF n = 0 THEN from
            ELSE LET notas == {l[2] : l \in {l \in LinkedBy(g) : l[1] \in within[n - 1]}}
                 IN  within[n - 1] \cup {l[1] : l \in {l \in LinkedBy(g) : l[2] \in notas}}
    IN  within[depth]

\* The rows are counted after an OPTIONAL MATCH: no match is one row.
Exchanged(g, a, b) == Max({1, Cardinality({t \in Trades(g) : t[1] = a /\ t[3] = b})})

\* getCompanyGraph: the neighbours up to a depth of 4, with their role, and the edges,
\* products and notas of the root, which later statements read.  The pattern of every
\* direction has no arrow, so direction changes nothing.  The edges have no order, so that
\* a LIMIT takes any of them.
Neighbour(g, cnpj, v, depth) ==
    LET comoEmitente == Exchanged(g, v, cnpj)
        comoDestinatario == Exchanged(g, cnpj, v)
    IN  [cnpj |-> v, grau |-> CHOOSE n \in 1 .. depth : /\ v \in Reached(g, {cnpj}, n)
                                                        /\ v \notin Reached(g, {cnpj}, n - 1),
         totalNFs |-> comoEmitente + comoDestinatario,
         relacao |-> IF comoDestinatario > comoEmitente THEN "destinatario" ELSE "emitente"]
ProdutosOf(g, cnpj) ==
    LET line(c) == LET of == {k \in DOMAIN g.contem : k[3] = c[1] /\ <<cnpj, k[1]>> \in g.emitiu}
                   IN  [idUnico |-> c[1], ncm |-> c[2], totalNFs |-> Cardinality({k[1] : k \in of}),
                        valorTotal |-> SumBy(LAMBDA k : g.contem[k].valorTotal, of)]
    IN  {l \in {line(c) : c \in g.classificado} : l.totalNFs > 0}
CompanyGraph(gNodes, gRest, cnpj, depth, limit) ==
    LET touching == {t \in ActiveTrades(gRest) : cnpj \in {t[1], t[3]}}
        nos == {Neighbour(gNodes, cnpj, v, depth) : v \in Reached(gNodes, {cnpj}, depth) \ {cnpj}}
    IN  IF depth \notin 1 .. 4 THEN [ok |-> FALSE]
        ELSE [ok |-> TRUE,
              nos |-> TopBy(LAMBDA n : n.totalNFs - 1000 * n.grau, nos, limit),
              arestas |-> TopBy(LAMBDA a : 0, Aggregated(gRest, touching), limit),
              notas |-> TopBy(LAMBDA n : n.valorTotal,
                              {[chaveAcesso |-> t[2], valorTotal |-> Valor(gRest, t[2]),
                                cnpjEmitente |-> t[1], cnpjDestinatario |-> t[3]] : t \in touching}, 30),
              produtos |-> TopBy(LAMBDA p : p.valorTotal, ProdutosOf(gRest, cnpj), limit)]

-----------------------------------------------------------------------------
\* Loops are left out of the flow, of the network, of centrality and of communities.
Exchanges(g, w) == {t \in ActiveTrades(g) : t[1] # t[3] /\ InWindow(g, t[2], w)}

\* getFluxoEmpresas.
FluxoEmpresas(g, limite) ==
    TopBy(LAMBDA a : a.valorTotal, Aggregated(g, Exchanges(g, Always)), Min({Max({limite, 1}), 100}))

\* The size of a node of the network: what the company issued and received in the window.
RedeNode(g, cnpj, w) ==
    LET counts(k) == ActiveNF(g, k) /\ InWindow(g, k, w) IN
    [cnpj |-> cnpj,
     totalNFs |-> Cardinality({e \in g.emitiu : e[1] = cnpj /\ counts(e[2])})
                  + Cardinality({d \in g.destinada : d[2] = cnpj /\ counts(d[1])})]

\* getRedeGlobal: the edges are read first, the nodes from a later graph.  Like the
\* comparison of periods, and unlike the other queries, it takes in the last day of a window.
RedeArestas(g, limite, w) ==
    TopBy(LAMBDA a : a.valorTotal, Aggregated(g, Exchanges(g, w)), Min({Max({limite, 1}), 500}))
RedeGlobal(gEdges, gNodes, limite, w) ==
    LET whole == <<w[1], EndOfDay(w[2])>>
        arestas == RedeArestas(gEdges, limite, whole)
    IN  [arestas |-> arestas,
         nos |-> {RedeNode(gNodes, c, whole) : c \in UNION {{a.de, a.para} : a \in arestas}}]

\* Mutant of Centrality: a company is only counted as an issuer.
CentralityOfIssuers(g, limit) ==
    LET of(c) == {t \in Exchanges(g, Always) : t[1] = c}
    IN  {[cnpj |-> c, degree |-> Cardinality({t[3] : t \in of(c)}), totalNFs |-> Cardinality(of(c)),
          valorTotal |-> SumBy(LAMBDA t : Valor(g, t[2]), of(c))] :
            c \in {t[1] : t \in Exchanges(g, Always)}}
\* getCentrality: both directions of every exchange, the partners counted once.
Centrality(g, limit) ==
    LET rows == {<<t[1], t[3], t[2]>> : t \in Exchanges(g, Always)}
                \cup {<<t[3], t[1], t[2]>> : t \in Exchanges(g, Always)}
        of(c) == {r \in rows : r[1] = c}
        node(c) == [cnpj |-> c, degree |-> Cardinality({r[2] : r \in of(c)}),
                    totalNFs |-> Cardinality(of(c)),
                    valorTotal |-> SumBy(LAMBDA r : Valor(g, r[3]), of(c))]
    IN  TopBy(LAMBDA n : 1000 * n.degree + n.valorTotal, {node(r[1]) : r \in rows}, limit)

-----------------------------------------------------------------------------
(* getCommunities: union-find over the undirected edges.                     *)

\* getUndirectedEdges, in the order the statement returns them.
UndirectedEdges(g, edgeLimit) ==
    LET pairs == {{t[1], t[3]} : t \in Exchanges(g, Always)}
    IN  SubSeq(FoldSet(LAMBDA p, s : Append(s, p), << >>, pairs), 1, Min({edgeLimit, Cardinality(pairs)}))

\* find: the root of a member; the path compression that goes with it changes no root.
Find(parent, x) ==
    LET root[y \in DOMAIN parent] == IF parent[y] = y THEN y ELSE root[parent[y]]
    IN  root[x]

\* Mutant of Unite: the node, not its root, is attached.
UniteNodes(parent, a, b) ==
    LET known == parent @@ (a :> a) @@ (b :> b) IN (a :> Find(known, b)) @@ known
\* union: both are added, and the root of one becomes a child of the other's.
Unite(parent, a, b) ==
    LET known == parent @@ (a :> a) @@ (b :> b)
    IN  (Find(known, a) :> Find(known, b)) @@ known

\* connectedComponents: the groups of two companies or more, named by their members.
ConnectedComponents(edges) ==
    LET united == FoldLeft(LAMBDA p, e : LET a == CHOOSE x \in e : TRUE
                                             b == CHOOSE x \in e : x # a
                                         IN  Unite(p, a, b), << >>, edges)
        group(root) == {x \in DOMAIN united : Find(united, x) = root}
    IN  {group(Find(united, x)) : x \in DOMAIN united}

Communities(g, edgeLimit) == ConnectedComponents(UndirectedEdges(g, edgeLimit))
=============================================================================
