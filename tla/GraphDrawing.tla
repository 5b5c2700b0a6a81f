---------------------------- MODULE GraphDrawing ----------------------------
(* graph/layout.ts of the dashboard: how the answers of GET /empresa/:cnpj/graph
   are merged into the nodes and edges on screen, and how these are laid out.
   A drawing maps the id of a node to what its card shows, and the ends of an edge to
   its weight.  Coordinates are abstracted to the ring a node is on.              *)
EXTENDS FiscalApi

Empresa(cnpj) == <<"empresa", cnpj>>
Produto(id) == <<"produto", id>>
NotaFiscal(chave) == <<"notafiscal", chave>>

EmptyDrawing == [nodes |-> << >>, edges |-> << >>]
Weight(valorTotal, totalNFs) == [valorTotal |-> valorTotal, totalNFs |-> totalNFs]

\* The root's card is filled from the answer, or else from GET /empresa/:cnpj, if that answered.
RootNode(api, cnpj, meta) ==
    LET own == {n \in api.nos : n.cnpj = cnpj}
    IN  [relacao |-> "raiz",
         totalNFs |-> IF own # {} THEN {n.totalNFs : n \in own}
                      ELSE {m.stats.totalNFsEmitidas + m.stats.totalNFsRecebidas : m \in meta}]
Companies(nodes, api, cnpj, meta) ==
    LET root == [v \in {Empresa(cnpj)} |-> RootNode(api, cnpj, meta)]
        nos  == [v \in {Empresa(n.cnpj) : n \in api.nos} |->
                    LET n == CHOOSE n \in api.nos : Empresa(n.cnpj) = v
                    IN  [relacao |-> n.relacao, totalNFs |-> {n.totalNFs}]]
    IN  Over(nodes, Over(root, nos))

\* Edges between companies that are there, the products of the root, and the notas of
\* which an end is there, with an edge to each end that is.
TradeEdges(nodes, api) ==
    LET drawn == {a \in api.arestas : {Empresa(a.de), Empresa(a.para)} \subseteq DOMAIN nodes}
        of(e) == CHOOSE a \in drawn : e = <<Empresa(a.de), Empresa(a.para)>>
    IN  [e \in {<<Empresa(a.de), Empresa(a.para)>> : a \in drawn} |-> Weight(of(e).valorTotal, of(e).totalNFs)]
ProductNodes(api) == [v \in {Produto(p.idUnico) : p \in api.produtos} |-> [relacao |-> "", totalNFs |-> {}]]
ProductEdges(api, cnpj) ==
    LET of(e) == CHOOSE p \in api.produtos : e[2] = Produto(p.idUnico)
    IN  [e \in {<<Empresa(cnpj), Produto(p.idUnico)>> : p \in api.produtos} |->
            Weight(of(e).valorTotal, of(e).totalNFs)]
Attached(nodes, api) ==
    {n \in api.notas : {Empresa(n.cnpjEmitente), Empresa(n.cnpjDestinatario)} \cap DOMAIN nodes # {}}
NotaNodes(nodes, api) ==
    [v \in {NotaFiscal(n.chaveAcesso) : n \in Attached(nodes, api)} |-> [relacao |-> "", totalNFs |-> {1}]]
NotaEdges(nodes, api) ==
    LET nf(n) == NotaFiscal(n.chaveAcesso)
        drawn(n) == {<<v, nf(n)>> : v \in {Empresa(n.cnpjEmitente)} \cap DOMAIN nodes}
                    \cup {<<nf(n), v>> : v \in {Empresa(n.cnpjDestinatario)} \cap DOMAIN nodes}
        of(e) == CHOOSE n \in api.notas : e \in drawn(n)
    IN  [e \in UNION {drawn(n) : n \in api.notas} |-> Weight(of(e).valorTotal, 1)]

\* Mutant of MergeGraph: the edges come first.
MergeGraphEdgesFirst(current, api, cnpj, meta) ==
    LET companies == Companies(current.nodes, api, cnpj, meta)
    IN  [nodes |-> Over(companies, Over(ProductNodes(api), NotaNodes(companies, api))),
         edges |-> Over(current.edges, Over(TradeEdges(current.nodes, api),
                        Over(ProductEdges(api, cnpj), NotaEdges(companies, api))))]
\* mergeGraph: what is already drawn stays as it is.
MergeGraph(current, api, cnpj, meta) ==
    LET companies == Companies(current.nodes, api, cnpj, meta)
    IN  [nodes |-> Over(companies, Over(ProductNodes(api), NotaNodes(companies, api))),
         edges |-> Over(current.edges, Over(TradeEdges(companies, api),
                        Over(ProductEdges(api, cnpj), NotaEdges(companies, api))))]

-----------------------------------------------------------------------------
Roots(d) == {v \in DOMAIN d.nodes : d.nodes[v].relacao = "raiz"}
Joined(d, v, w) == {<<v, w>>, <<w, v>>} \cap DOMAIN d.edges # {}

\* applyLayout is radial when every other node is joined to the first root.
IsEgo(d, root) == Cardinality(DOMAIN d.nodes) > 1 /\ \A v \in DOMAIN d.nodes \ {root} : Joined(d, root, v)
\* The rings around the root: companies, products and notas, those that are there.
Kinds == <<"empresa", "produto", "notafiscal">>
Ring(d, root, v) ==
    LET drawn == {i \in DOMAIN Kinds : \E w \in DOMAIN d.nodes \ {root} : w[1] = Kinds[i]}
    IN  IF v = root THEN 0 ELSE Cardinality({i \in drawn : \E j \in i .. Len(Kinds) : Kinds[j] = v[1]})

\* The nodes that stay bright when one is pointed at.
Vizinhanca(d, v) == {v} \cup {w \in DOMAIN d.nodes : Joined(d, v, w)}

\* exportJson: the ids of the nodes, and the ends of the edges with their weights.
ExportJson(d) == [nodes |-> DOMAIN d.nodes,
                  edges |-> {[source |-> e[1], target |-> e[2], weight |-> d.edges[e]] : e \in DOMAIN d.edges}]
=============================================================================
