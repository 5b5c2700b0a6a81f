---------------------------- MODULE GraphProofs ----------------------------
(***************************************************************************)
(* The graph of the notas, for every set of documents, every order in      *)
(* which any number of jobs merges them and every retry.  IInv (module     *)
(* FiscalGraph) is inductive: it says that the graph is the graph of the   *)
(* merged documents (Holds), which a transaction keeps (MergeKeeps).  Of   *)
(* such a graph the report of anomalies lists the gaps of the numbering.   *)
(***************************************************************************)
EXTENDS FiscalGraph, NotaProofs

-----------------------------------------------------------------------------
(* The invariant of the module, said of the graph and the merged documents.   *)
\* The items of some documents and the table GraphIsItsNotas asks CONTEM to be.
ItemsOf(M) == UNION {{<<Key(d), Invoice(d).itens[n]>> : n \in DOMAIN Invoice(d).itens} : d \in M}
Table(M) ==
    [c \in {<<t[1], t[2].contem.numeroItem, t[2].produto.idUnico>> : t \in ItemsOf(M)} |->
        (CHOOSE t \in ItemsOf(M) : t[1] = c[1] /\ t[2].contem.numeroItem = c[2])[2].contem]

\* The edges of the items are that table exactly when each has the properties of its item: a
\* key and a numeroItem name one item.
LEMMA TableIs ==
  ASSUME NEW contem, NEW M \in SUBSET Accepted
  PROVE  contem = Table(M) <=>
             /\ IsFunction(contem)
             /\ DOMAIN contem = UNION {ItemKeys(d) : d \in M}
             /\ \A d \in M : \A n \in DOMAIN Invoice(d).itens :
                    contem[Contained(Key(d), Invoice(d).itens[n])] = Invoice(d).itens[n].contem
<1> DEFINE T == ItemsOf(M)
           C == {<<t[1], t[2].contem.numeroItem, t[2].produto.idUnico>> : t \in T}
           ItemAt(c) == CHOOSE t \in T : t[1] = c[1] /\ t[2].contem.numeroItem = c[2]
<1>1. \A t \in T : \E d \in M : \E n \in DOMAIN Invoice(d).itens : t = <<Key(d), Invoice(d).itens[n]>>
  BY DEF ItemsOf
<1>2. \A d \in M : \A n \in DOMAIN Invoice(d).itens : <<Key(d), Invoice(d).itens[n]>> \in T
  BY DEF ItemsOf
<1>3. Table(M) = [c \in C |-> ItemAt(c)[2].contem]
  BY DEF Table
<1> HIDE DEF T
<1>4. ASSUME NEW t \in T, NEW u \in T, t[1] = u[1], t[2].contem.numeroItem = u[2].contem.numeroItem
      PROVE  t = u
  <2>1. PICK d \in M : \E n \in DOMAIN Invoice(d).itens : t = <<Key(d), Invoice(d).itens[n]>>
    BY <1>1
  <2>2. PICK n \in DOMAIN Invoice(d).itens : t = <<Key(d), Invoice(d).itens[n]>>
    BY <2>1
  <2>3. PICK b \in M : \E m \in DOMAIN Invoice(b).itens : u = <<Key(b), Invoice(b).itens[m]>>
    BY <1>1
  <2>4. PICK m \in DOMAIN Invoice(b).itens : u = <<Key(b), Invoice(b).itens[m]>>
    BY <2>3
  <2>5. Key(d) = Key(b)
    BY <1>4, <2>2, <2>4
  <2>6. Invoice(d) = Invoice(b)
    BY <2>5, DocsAssumption DEF AreNotas
  <2>7. Invoice(d).itens[n].contem.numeroItem = Invoice(d).itens[m].contem.numeroItem /\ m \in DOMAIN Invoice(d).itens
    BY <1>4, <2>2, <2>4, <2>6
  <2>8. n = m
    BY <2>7, DocsAssumption DEF AreNotas
  <2> QED BY <2>2, <2>4, <2>5, <2>6, <2>8
<1>5. ASSUME NEW d \in M, NEW n \in DOMAIN Invoice(d).itens
      PROVE  LET c == Contained(Key(d), Invoice(d).itens[n])
             IN  c \in C /\ ItemAt(c)[2].contem = Invoice(d).itens[n].contem
  <2> DEFINE item == Invoice(d).itens[n]
             k == Key(d)
             t == <<k, item>>
             c == Contained(k, item)
  <2>1. t \in T
    BY <1>2
  <2> HIDE DEF item, k
  <2>2. t[1] = k /\ t[2] = item /\ c = <<k, item.contem.numeroItem, item.produto.idUnico>>
    BY DEF Contained
  <2>3. c \in C
    BY <2>1, <2>2
  <2>4. c[1] = t[1] /\ c[2] = t[2].contem.numeroItem
    BY <2>2
  <2> HIDE DEF t, c
  <2>5. ItemAt(c) \in T /\ ItemAt(c)[1] = c[1] /\ ItemAt(c)[2].contem.numeroItem = c[2]
    BY <2>1, <2>4
  <2> HIDE DEF ItemAt
  <2>6. ItemAt(c) = t
    BY <1>4, <2>1, <2>4, <2>5
  <2> HIDE DEF C
  <2> QED BY <2>2, <2>3, <2>6 DEF item, k, c
<1>6. C = UNION {ItemKeys(d) : d \in M}
  <2>1. ASSUME NEW c \in C PROVE \E d \in M : c \in ItemKeys(d)
    <3>1. PICK t \in T : c = <<t[1], t[2].contem.numeroItem, t[2].produto.idUnico>>
      OBVIOUS
    <3>2. PICK d \in M : \E n \in DOMAIN Invoice(d).itens : t = <<Key(d), Invoice(d).itens[n]>>
      BY <1>1
    <3>3. PICK n \in DOMAIN Invoice(d).itens : t = <<Key(d), Invoice(d).itens[n]>>
      BY <3>2
    <3>4. c = Contained(Key(d), Invoice(d).itens[n])
      BY <3>1, <3>3 DEF Contained
    <3> QED BY <3>4 DEF ItemKeys
  <2>2. ASSUME NEW d \in M, NEW c \in ItemKeys(d) PROVE c \in C
    <3>1. PICK n \in DOMAIN Invoice(d).itens : c = Contained(Key(d), Invoice(d).itens[n])
      BY DEF ItemKeys
    <3> HIDE DEF C
    <3> QED BY <1>5, <3>1
  <2> HIDE DEF C
  <2> QED BY <2>1, <2>2
<1>7. DOMAIN Table(M) = C /\ \A c \in C : Table(M)[c] = ItemAt(c)[2].contem
  <2> HIDE DEF ItemAt, C
  <2> QED BY <1>3
<1>8. IsFunction(Table(M))
  <2> HIDE DEF ItemAt, C
  <2> QED BY <1>3 DEF IsFunction
<1> HIDE DEF ItemAt, C
<1>9. ASSUME contem = Table(M)
      PROVE  /\ IsFunction(contem)
             /\ DOMAIN contem = UNION {ItemKeys(d) : d \in M}
             /\ \A d \in M : \A n \in DOMAIN Invoice(d).itens :
                    contem[Contained(Key(d), Invoice(d).itens[n])] = Invoice(d).itens[n].contem
  BY <1>5, <1>6, <1>7, <1>8, <1>9
<1>10. ASSUME IsFunction(contem), DOMAIN contem = UNION {ItemKeys(d) : d \in M},
              \A d \in M : \A n \in DOMAIN Invoice(d).itens :
                  contem[Contained(Key(d), Invoice(d).itens[n])] = Invoice(d).itens[n].contem
       PROVE  contem = Table(M)
  <2>1. DOMAIN contem = C
    BY <1>6, <1>10
  <2>2. ASSUME NEW c \in C PROVE contem[c] = Table(M)[c]
    <3>1. PICK d \in M : c \in ItemKeys(d)
      BY <1>6
    <3>2. PICK n \in DOMAIN Invoice(d).itens : c = Contained(Key(d), Invoice(d).itens[n])
      BY <3>1 DEF ItemKeys
    <3>3. contem[c] = Invoice(d).itens[n].contem
      BY <1>10, <3>2
    <3>4. ItemAt(c)[2].contem = Invoice(d).itens[n].contem
      BY <1>5, <3>2
    <3> QED BY <1>7, <3>3, <3>4
  <2>3. contem = [x \in C |-> contem[x]]
    BY <1>10, <2>1 DEF IsFunction
  <2>4. Table(M) = [x \in C |-> Table(M)[x]]
    BY <1>7, <1>8 DEF IsFunction
  <2> QED BY <2>2, <2>3, <2>4
<1> QED
  BY <1>9, <1>10


\* The classification and the CFOPs, said of the items or of the documents.
LEMMA ItemsOfIs ==
  ASSUME NEW M
  PROVE  /\ {<<t[2].produto.idUnico, t[2].ncm>> : t \in ItemsOf(M)}
            = UNION {{<<Invoice(d).itens[n].produto.idUnico, Invoice(d).itens[n].ncm>> :
                         n \in DOMAIN Invoice(d).itens} : d \in M}
         /\ {<<t[1], t[2].cfop>> : t \in ItemsOf(M)}
            = UNION {{<<Key(d), Invoice(d).itens[n].cfop>> : n \in DOMAIN Invoice(d).itens} : d \in M}
<1> DEFINE T == ItemsOf(M)
           A(d) == {<<Invoice(d).itens[n].produto.idUnico, Invoice(d).itens[n].ncm>> : n \in DOMAIN Invoice(d).itens}
           B(d) == {<<Key(d), Invoice(d).itens[n].cfop>> : n \in DOMAIN Invoice(d).itens}
           a(t) == <<t[2].produto.idUnico, t[2].ncm>>
           b(t) == <<t[1], t[2].cfop>>
<1>1. \A t \in T : \E d \in M : \E n \in DOMAIN Invoice(d).itens : t = <<Key(d), Invoice(d).itens[n]>>
  BY DEF ItemsOf
<1>2. \A d \in M : \A n \in DOMAIN Invoice(d).itens : <<Key(d), Invoice(d).itens[n]>> \in T
  BY DEF ItemsOf
<1> HIDE DEF T
<1>3. ASSUME NEW t \in T PROVE \E d \in M : a(t) \in A(d) /\ b(t) \in B(d)
  <2>1. PICK d \in M : \E n \in DOMAIN Invoice(d).itens : t = <<Key(d), Invoice(d).itens[n]>>
    BY <1>1
  <2>2. PICK n \in DOMAIN Invoice(d).itens : t = <<Key(d), Invoice(d).itens[n]>>
    BY <2>1
  <2>3. a(t) \in A(d) /\ b(t) \in B(d)
    BY <2>2
  <2> QED BY <2>3
<1>4. ASSUME NEW d \in M, NEW n \in DOMAIN Invoice(d).itens
      PROVE  \E t \in T : /\ a(t) = <<Invoice(d).itens[n].produto.idUnico, Invoice(d).itens[n].ncm>>
                          /\ b(t) = <<Key(d), Invoice(d).itens[n].cfop>>
  <2> DEFINE t == <<Key(d), Invoice(d).itens[n]>>
  <2>1. t \in T
    BY <1>2
  <2>2. t[1] = Key(d) /\ t[2] = Invoice(d).itens[n]
    OBVIOUS
  <2> HIDE DEF t
  <2> QED BY <2>1, <2>2
<1>5. {a(t) : t \in T} \subseteq UNION {A(d) : d \in M} /\ {b(t) : t \in T} \subseteq UNION {B(d) : d \in M}
  <2> HIDE DEF a, b, A, B
  <2> QED BY <1>3
<1>6. UNION {A(d) : d \in M} \subseteq {a(t) : t \in T} /\ UNION {B(d) : d \in M} \subseteq {b(t) : t \in T}
  <2>1. ASSUME NEW d \in M, NEW x \in A(d) PROVE x \in {a(t) : t \in T}
    <3>1. PICK n \in DOMAIN Invoice(d).itens : x = <<Invoice(d).itens[n].produto.idUnico, Invoice(d).itens[n].ncm>>
      OBVIOUS
    <3> HIDE DEF a
    <3> QED BY <1>4, <3>1
  <2>2. ASSUME NEW d \in M, NEW x \in B(d) PROVE x \in {b(t) : t \in T}
    <3>1. PICK n \in DOMAIN Invoice(d).itens : x = <<Key(d), Invoice(d).itens[n].cfop>>
      OBVIOUS
    <3> HIDE DEF b
    <3> QED BY <1>4, <3>1
  <2> HIDE DEF a, b, A, B
  <2> QED BY <2>1, <2>2
<1>7. {a(t) : t \in T} = UNION {A(d) : d \in M} /\ {b(t) : t \in T} = UNION {B(d) : d \in M}
  <2> HIDE DEF a, b, A, B
  <2> QED BY <1>5, <1>6
<1> QED
  BY <1>7 DEF T

\* The parts of IInv say that the graph is the graph of the merged documents.
LEMMA WholeIs ==
  ASSUME Accepts
  PROVE  (HasShape(graph) /\ StubsAreKeys /\ CompaniesAreNamed /\ EventsAreImports /\ GraphIsItsNotas) <=> Holds(graph, merged)
<1> DEFINE M == merged
           Of(d) == Origins(Invoice(d))
           Dest(d) == {e.cnpj : e \in ToSet(Invoice(d).destinatario)}
<1>1. M \in SUBSET Accepted
  BY DEF Accepts
<1>2. Invoices = {Invoice(d) : d \in M}
  BY DEF Invoices
<1>3. Items = ItemsOf(M)
  BY DEF Invoices, Items, ItemsOf, Key
<1>4. Keys(M) = {i.nota.chaveAcesso : i \in Invoices}
  BY <1>2 DEF Keys, Key
<1>5. Imported(graph) = {x \in DOMAIN graph.nf : "status" \in DOMAIN graph.nf[x]}
  BY DEF Imported, IsStub
<1>6. UNION {Origins(i) : i \in Invoices} = UNION {Of(d) : d \in M}
  BY <1>2
<1>7. (\A i \in Invoices :
           Omit(graph.nf[i.nota.chaveAcesso], "importadaEm") = Omit(SerializeInvoice(i), "importadaEm"))
      <=> \A d \in M : Omit(graph.nf[Key(d)], "importadaEm") = Omit(SerializeInvoice(Invoice(d)), "importadaEm")
  BY <1>2 DEF Key
<1>8. (graph.contem = [c \in {<<t[1], t[2].contem.numeroItem, t[2].produto.idUnico>> : t \in Items} |->
                          (CHOOSE t \in Items : t[1] = c[1] /\ t[2].contem.numeroItem = c[2])[2].contem])
      <=> /\ IsFunction(graph.contem)
          /\ DOMAIN graph.contem = UNION {ItemKeys(d) : d \in M}
          /\ \A d \in M : \A n \in DOMAIN Invoice(d).itens :
                 graph.contem[Contained(Key(d), Invoice(d).itens[n])] = Invoice(d).itens[n].contem
  <2>1. Table(M) = [c \in {<<t[1], t[2].contem.numeroItem, t[2].produto.idUnico>> : t \in Items} |->
                       (CHOOSE t \in Items : t[1] = c[1] /\ t[2].contem.numeroItem = c[2])[2].contem]
    BY <1>3 DEF Table
  <2> DEFINE contem == graph.contem
  <2>2. contem = Table(M) <=>
             /\ IsFunction(contem)
             /\ DOMAIN contem = UNION {ItemKeys(d) : d \in M}
             /\ \A d \in M : \A n \in DOMAIN Invoice(d).itens :
                    contem[Contained(Key(d), Invoice(d).itens[n])] = Invoice(d).itens[n].contem
    <3> HIDE DEF contem, M
    <3> QED BY <1>1, TableIs
  <2> QED BY <2>1, <2>2
<1>9. {<<t[2].produto.idUnico, t[2].ncm>> : t \in Items}
      = UNION {{<<Invoice(d).itens[n].produto.idUnico, Invoice(d).itens[n].ncm>> : n \in DOMAIN Invoice(d).itens} : d \in M}
  BY <1>3, ItemsOfIs
<1>10. {<<t[1], t[2].cfop>> : t \in Items}
       = UNION {{<<Key(d), Invoice(d).itens[n].cfop>> : n \in DOMAIN Invoice(d).itens} : d \in M}
  BY <1>3, ItemsOfIs
<1>11. {<<i.emitente.cnpj, i.nota.chaveAcesso>> : i \in Invoices} = {<<Invoice(d).emitente.cnpj, Key(d)>> : d \in M}
  BY <1>2 DEF Key
<1>12. UNION {{<<i.nota.chaveAcesso, e.cnpj>> : e \in ToSet(i.destinatario)} : i \in Invoices}
       = UNION {{<<Key(d), e.cnpj>> : e \in ToSet(Invoice(d).destinatario)} : d \in M}
  BY <1>2 DEF Key
<1>13. UNION {{<<i.nota.chaveAcesso, o>> : o \in Origins(i)} : i \in Invoices}
       = UNION {{<<Key(d), o>> : o \in Origins(Invoice(d))} : d \in M}
  BY <1>2 DEF Key
<1>14. ASSUME graph.emitiu = {<<Invoice(d).emitente.cnpj, Key(d)>> : d \in M},
              graph.destinada = UNION {{<<Key(d), e.cnpj>> : e \in ToSet(Invoice(d).destinatario)} : d \in M}
       PROVE  {e[1] : e \in graph.emitiu} \cup {e[2] : e \in graph.destinada}
              = {Invoice(d).emitente.cnpj : d \in M} \cup UNION {Dest(d) : d \in M}
  <2> HIDE DEF M
  <2>1. {e[1] : e \in graph.emitiu} = {Invoice(d).emitente.cnpj : d \in M}
    <3>1. ASSUME NEW e \in graph.emitiu PROVE \E d \in M : e[1] = Invoice(d).emitente.cnpj
      BY <1>14
    <3>2. ASSUME NEW d \in M PROVE \E e \in graph.emitiu : e[1] = Invoice(d).emitente.cnpj
      <4>1. <<Invoice(d).emitente.cnpj, Key(d)>> \in graph.emitiu
        BY <1>14
      <4> QED BY <4>1
    <3> QED BY <3>1, <3>2
  <2>2. {e[2] : e \in graph.destinada} = UNION {Dest(d) : d \in M}
    <3>1. ASSUME NEW e \in graph.destinada PROVE \E d \in M : e[2] \in Dest(d)
      <4>1. PICK d \in M : e \in {<<Key(d), f.cnpj>> : f \in ToSet(Invoice(d).destinatario)}
        BY <1>14
      <4> QED BY <4>1
    <3>2. ASSUME NEW d \in M, NEW x \in Dest(d) PROVE \E e \in graph.destinada : e[2] = x
      <4>1. <<Key(d), x>> \in graph.destinada
        BY <1>14
      <4> QED BY <4>1
    <3> HIDE DEF Dest
    <3> QED BY <3>1, <3>2
  <2> QED BY <2>1, <2>2
<1>15. ASSUME IsFiniteSet(graph.eventos)
       PROVE  \A x : Cardinality({e \in graph.eventos : e.chave = x}) = 1
                      <=> \E e : {f \in graph.eventos : f.chave = x} = {e}
  <2> TAKE x
  <2> DEFINE S == {e \in graph.eventos : e.chave = x}
  <2>1. IsFiniteSet(S)
    BY <1>15, FS_Subset
  <2> HIDE DEF S
  <2>2. Cardinality(S) = 1 <=> \E e : S = {e}
    BY <2>1, FS_Singleton
  <2> QED BY <2>2 DEF S
<1> DEFINE OneByOne == [c \in {<<t[1], t[2].contem.numeroItem, t[2].produto.idUnico>> : t \in Items} |->
                       (CHOOSE t \in Items : t[1] = c[1] /\ t[2].contem.numeroItem = c[2])[2].contem]
           Classified == {<<t[2].produto.idUnico, t[2].ncm>> : t \in Items}
           Used == {<<t[1], t[2].cfop>> : t \in Items}
           Issued == {<<i.emitente.cnpj, i.nota.chaveAcesso>> : i \in Invoices}
           Sent == UNION {{<<i.nota.chaveAcesso, e.cnpj>> : e \in ToSet(i.destinatario)} : i \in Invoices}
           Returned == UNION {{<<i.nota.chaveAcesso, o>> : o \in Origins(i)} : i \in Invoices}
           Referred == UNION {Origins(i) : i \in Invoices}
           Parties == {e[1] : e \in graph.emitiu} \cup {e[2] : e \in graph.destinada}
           SameNotas == \A i \in Invoices :
                       Omit(graph.nf[i.nota.chaveAcesso], "importadaEm") = Omit(SerializeInvoice(i), "importadaEm")
           NamedKeys == {i.nota.chaveAcesso : i \in Invoices}
<1>16. GraphIsItsNotas <=>
           /\ Imported(graph) = NamedKeys
           /\ DOMAIN graph.nf = Imported(graph) \cup Referred
           /\ SameNotas
           /\ graph.contem = OneByOne
           /\ graph.classificado = Classified
           /\ graph.usaCfop = Used
           /\ graph.emitiu = Issued
           /\ graph.destinada = Sent
           /\ graph.devolve = Returned
           /\ DOMAIN graph.emp = Parties
           /\ \A x \in Imported(graph) : Cardinality({e \in graph.eventos : e.chave = x}) = 1
  BY DEF GraphIsItsNotas
<1> HIDE DEF OneByOne, Classified, Used, Issued, Sent, Returned, Referred, Parties, SameNotas, NamedKeys, Of, Dest
<1>17. StubsAreKeys <=>
           \A x \in DOMAIN graph.nf : "status" \notin DOMAIN graph.nf[x] => DOMAIN graph.nf[x] = {"chaveAcesso"}
  BY DEF StubsAreKeys, IsStub
<1>18. EventsAreImports <=>
           /\ IsFiniteSet(graph.eventos)
           /\ \A e \in graph.eventos : e.tipo = "importada" /\ e.chave \in Imported(graph)
  BY DEF EventsAreImports
<1>19. NamedKeys = Keys(M) /\ Referred = UNION {Origins(Invoice(d)) : d \in M}
  BY <1>4, <1>6 DEF NamedKeys, Referred, Of
<1>20. /\ Classified = UNION {{<<Invoice(d).itens[n].produto.idUnico, Invoice(d).itens[n].ncm>> :
                                  n \in DOMAIN Invoice(d).itens} : d \in M}
       /\ Used = UNION {{<<Key(d), Invoice(d).itens[n].cfop>> : n \in DOMAIN Invoice(d).itens} : d \in M}
  BY <1>9, <1>10 DEF Classified, Used
<1>21. /\ Issued = {<<Invoice(d).emitente.cnpj, Key(d)>> : d \in M}
       /\ Sent = UNION {{<<Key(d), e.cnpj>> : e \in ToSet(Invoice(d).destinatario)} : d \in M}
       /\ Returned = UNION {{<<Key(d), o>> : o \in Origins(Invoice(d))} : d \in M}
  BY <1>11, <1>12, <1>13 DEF Issued, Sent, Returned
<1>22. (graph.emitiu = Issued /\ graph.destinada = Sent) =>
           Parties = {Invoice(d).emitente.cnpj : d \in M} \cup UNION {{e.cnpj : e \in ToSet(Invoice(d).destinatario)} : d \in M}
  BY <1>14, <1>21 DEF Parties, Dest
<1>23. (graph.contem = OneByOne)
       <=> /\ IsFunction(graph.contem)
           /\ DOMAIN graph.contem = UNION {ItemKeys(d) : d \in M}
           /\ \A d \in M : \A n \in DOMAIN Invoice(d).itens :
                  graph.contem[Contained(Key(d), Invoice(d).itens[n])] = Invoice(d).itens[n].contem
  BY <1>8 DEF OneByOne
<1>24. SameNotas <=>
           \A d \in M : Omit(graph.nf[Key(d)], "importadaEm") = Omit(SerializeInvoice(Invoice(d)), "importadaEm")
  BY <1>7 DEF SameNotas
<1> HIDE DEF M
<1>25. ASSUME HasShape(graph), StubsAreKeys, CompaniesAreNamed, EventsAreImports, GraphIsItsNotas
       PROVE  Holds(graph, M)
  <2>1. /\ Imported(graph) = Keys(M)
        /\ DOMAIN graph.nf = Keys(M) \cup UNION {Origins(Invoice(d)) : d \in M}
    BY <1>16, <1>19, <1>25
  <2>2. \A x \in Keys(M) : \E e : {f \in graph.eventos : f.chave = x} = {e}
    <3>1. IsFiniteSet(graph.eventos)
      BY <1>18, <1>25
    <3>2. \A x : Cardinality({e \in graph.eventos : e.chave = x}) = 1
                 <=> \E e : {f \in graph.eventos : f.chave = x} = {e}
      BY <1>15, <3>1
    <3>3. \A x \in Keys(M) : Cardinality({e \in graph.eventos : e.chave = x}) = 1
      BY <1>16, <1>25, <2>1
    <3> QED BY <3>2, <3>3, Zenon
  <2>3. /\ IsFunction(graph.contem)
        /\ DOMAIN graph.contem = UNION {ItemKeys(d) : d \in M}
        /\ \A d \in M : \A n \in DOMAIN Invoice(d).itens :
               graph.contem[Contained(Key(d), Invoice(d).itens[n])] = Invoice(d).itens[n].contem
    BY <1>16, <1>23, <1>25
  <2>4. \A d \in M : Omit(graph.nf[Key(d)], "importadaEm") = Omit(SerializeInvoice(Invoice(d)), "importadaEm")
    BY <1>16, <1>24, <1>25
  <2>5. /\ graph.classificado = UNION {{<<Invoice(d).itens[n].produto.idUnico, Invoice(d).itens[n].ncm>> :
                                          n \in DOMAIN Invoice(d).itens} : d \in M}
        /\ graph.usaCfop = UNION {{<<Key(d), Invoice(d).itens[n].cfop>> : n \in DOMAIN Invoice(d).itens} : d \in M}
    BY <1>16, <1>20, <1>25
  <2>6. /\ graph.emitiu = {<<Invoice(d).emitente.cnpj, Key(d)>> : d \in M}
        /\ graph.destinada = UNION {{<<Key(d), e.cnpj>> : e \in ToSet(Invoice(d).destinatario)} : d \in M}
        /\ graph.devolve = UNION {{<<Key(d), o>> : o \in Origins(Invoice(d))} : d \in M}
    BY <1>16, <1>21, <1>25
  <2>7. DOMAIN graph.emp = {Invoice(d).emitente.cnpj : d \in M}
                           \cup UNION {{e.cnpj : e \in ToSet(Invoice(d).destinatario)} : d \in M}
    BY <1>16, <1>22, <1>25
  <2>8. {x \in DOMAIN graph.nf : "status" \in DOMAIN graph.nf[x]} = Keys(M)
    BY <1>5, <2>1
  <2>9. \A x \in DOMAIN graph.nf : "status" \notin DOMAIN graph.nf[x] => DOMAIN graph.nf[x] = {"chaveAcesso"}
    BY <1>17, <1>25
  <2>10. IsFiniteSet(graph.eventos) /\ \A e \in graph.eventos : e.tipo = "importada" /\ e.chave \in Keys(M)
    BY <1>18, <1>25, <2>1
  <2>11. HasShape(graph) /\ Named(graph.emp)
    BY <1>25 DEF CompaniesAreNamed, Named
  <2> QED
    BY <2>1, <2>2, <2>3, <2>4, <2>5, <2>6, <2>7, <2>8, <2>9, <2>10, <2>11 DEF Holds
<1>26. ASSUME Holds(graph, M)
       PROVE  HasShape(graph) /\ StubsAreKeys /\ CompaniesAreNamed /\ EventsAreImports /\ GraphIsItsNotas
  <2>1. {x \in DOMAIN graph.nf : "status" \in DOMAIN graph.nf[x]} = Keys(M)
    BY <1>26 DEF Holds
  <2>2. Imported(graph) = Keys(M)
    BY <1>5, <2>1
  <2>3. DOMAIN graph.nf = Keys(M) \cup UNION {Origins(Invoice(d)) : d \in M}
    BY <1>26 DEF Holds
  <2>4. DOMAIN graph.nf = Imported(graph) \cup Referred /\ Imported(graph) = NamedKeys
    BY <1>19, <2>2, <2>3
  <2>5. SameNotas
    BY <1>24, <1>26 DEF Holds
  <2>6. graph.contem = OneByOne
    BY <1>23, <1>26 DEF Holds
  <2>7. graph.classificado = Classified /\ graph.usaCfop = Used
    BY <1>20, <1>26 DEF Holds
  <2>8. graph.emitiu = Issued /\ graph.destinada = Sent /\ graph.devolve = Returned
    BY <1>21, <1>26 DEF Holds
  <2>9. DOMAIN graph.emp = Parties
    BY <1>22, <1>26, <2>8 DEF Holds
  <2>10. IsFiniteSet(graph.eventos) /\ \A e \in graph.eventos : e.tipo = "importada" /\ e.chave \in Keys(M)
    BY <1>26 DEF Holds
  <2>11. \A x \in Imported(graph) : Cardinality({e \in graph.eventos : e.chave = x}) = 1
    <3>1. \A x : Cardinality({e \in graph.eventos : e.chave = x}) = 1
                 <=> \E e : {f \in graph.eventos : f.chave = x} = {e}
      BY <1>15, <2>10
    <3>2. \A x \in Keys(M) : \E e : {f \in graph.eventos : f.chave = x} = {e}
      BY <1>26 DEF Holds
    <3>3. \A x \in Keys(M) : Cardinality({e \in graph.eventos : e.chave = x}) = 1
      BY <3>1, <3>2, Zenon
    <3> QED BY <2>2, <3>3
  <2>12. GraphIsItsNotas
    BY <1>16, <2>4, <2>5, <2>6, <2>7, <2>8, <2>9, <2>11
  <2>13. StubsAreKeys
    BY <1>17, <1>26 DEF Holds
  <2>14. EventsAreImports
    BY <1>18, <2>2, <2>10
  <2>15. CompaniesAreNamed
    BY <1>26 DEF Holds, Named, CompaniesAreNamed
  <2> QED
    BY <1>26, <2>12, <2>13, <2>14, <2>15 DEF Holds
<1> QED
  BY <1>25, <1>26 DEF M

\* IInv is that, with only accepted documents merged or on the way.
LEMMA IInvIs == IInv <=> Accepts /\ Holds(graph, merged)
BY WholeIs DEF IInv, HasShape

-----------------------------------------------------------------------------
(* The invariant.                                                             *)
\* The graph after the migrations is the graph of no nota.
LEMMA InitIInv ==
  ASSUME Init PROVE IInv
<1>1. Accepts
  BY DEF Init, Accepts
<1>2. Holds(graph, merged)
  BY NothingHolds DEF Init
<1> QED
  BY <1>1, <1>2, IInvIs

\* Every step keeps it: a start and a rollback leave the graph alone, a merge adds a nota.
LEMMA NextIInv ==
  ASSUME IInv, [Next]_vars PROVE IInv'
<1>1. Accepts /\ Holds(graph, merged)
  BY IInvIs
<1>2. Accepts' /\ Holds(graph', merged')
  <2>1. ASSUME NEW d \in Docs, Start(d) PROVE Accepts' /\ Holds(graph', merged')
    BY <1>1, <2>1 DEF Start, Accepts
  <2>2. ASSUME NEW j \in running, Merge(j) PROVE Accepts' /\ Holds(graph', merged')
    <3>1. merged \in SUBSET Accepted /\ j.doc \in Accepted
      BY <1>1 DEF Accepts
    <3>2. Holds(MergeInvoice(graph, ParseNFe(j.doc, j.at), j.doc.root, j.at), merged \cup {j.doc})
      BY <1>1, <3>1, DocsAssumption, MergeKeeps
    <3> QED BY <1>1, <2>2, <3>1, <3>2 DEF Merge, Accepts
  <2>3. ASSUME NEW j \in running, RollBack(j) PROVE Accepts' /\ Holds(graph', merged')
    BY <1>1, <2>3 DEF RollBack, Accepts
  <2>4. CASE UNCHANGED vars
    BY <1>1, <2>4 DEF vars, Accepts
  <2> QED BY <2>1, <2>2, <2>3, <2>4 DEF Next
<1>3. (IInv <=> Accepts /\ Holds(graph, merged))'
  BY IInvIs, PTL
<1> QED
  BY <1>2, <1>3

\* The inductive invariant holds in every reachable state.
THEOREM GraphInvariance == Spec => []IInv
<1>1. Init => IInv
  BY InitIInv
<1>2. IInv /\ [Next]_vars => IInv'
  BY NextIInv
<1> QED
  BY <1>1, <1>2, PTL DEF Spec

\* The graph is the union of the notas whose transaction committed, in whatever order and
\* however often they were merged and whether a devolução came before its origin
\* (mergeInvoice, nf.repository.ts).
THEOREM GraphWhole == Spec => []GraphIsItsNotas
<1>1. IInv => GraphIsItsNotas
  BY DEF IInv
<1> QED
  BY <1>1, GraphInvariance, PTL

-----------------------------------------------------------------------------
(* The gaps of the numbering.                                               *)

\* The gaps of one série.
GapsOf(id, S) ==
    {[serie |-> id, from |-> Ascending(S)[i], to |-> Ascending(S)[i + 1],
      missing |-> Ascending(S)[i + 1] - Ascending(S)[i] - 1] :
         i \in {i \in 1 .. (Len(Ascending(S)) - 1) : Ascending(S)[i + 1] - Ascending(S)[i] > 1}}
Inside(x) == (x.from + 1) .. (x.to - 1)
\* A gap lies between two numbers of the série that follow each other.
IsGap(x, id, S) ==
    /\ x.serie = id
    /\ x.from \in S /\ x.to \in S /\ x.from + 1 < x.to
    /\ x.missing = x.to - x.from - 1
    /\ Inside(x) \cap S = {}
    /\ x = [serie |-> id, from |-> x.from, to |-> x.to, missing |-> x.to - x.from - 1]
LEMMA GapIs ==
  ASSUME NEW id, NEW S \in SUBSET Nat, IsFiniteSet(S), NEW x \in GapsOf(id, S)
  PROVE  IsGap(x, id, S)
<1> DEFINE s == Ascending(S)
<1>1. Lines(s, S) /\ \A i, j \in DOMAIN s : i < j => s[i] < s[j]
  BY AscendingIs
<1>2. PICK i \in 1 .. (Len(s) - 1) :
        /\ s[i + 1] - s[i] > 1
        /\ x = [serie |-> id, from |-> s[i], to |-> s[i + 1], missing |-> s[i + 1] - s[i] - 1]
  BY DEF GapsOf
<1> HIDE DEF s
<1>3. s \in Seq(S) /\ Len(s) \in Nat /\ DOMAIN s = 1 .. Len(s)
  BY <1>1 DEF Lines
<1>4. i \in DOMAIN s /\ i + 1 \in DOMAIN s /\ i \in Int
  BY <1>2, <1>3
<1>5. s[i] \in S /\ s[i + 1] \in S /\ s[i] \in Nat /\ s[i + 1] \in Nat
  <2>1. s[i] \in S /\ s[i + 1] \in S
    BY <1>3, <1>4
  <2> QED BY <2>1
<1>6. x.serie = id /\ x.from = s[i] /\ x.to = s[i + 1] /\ x.missing = s[i + 1] - s[i] - 1
  BY <1>2
<1>7. Inside(x) \cap S = {}
  <2> SUFFICES ASSUME NEW y \in S, y \in Inside(x) PROVE FALSE
    OBVIOUS
  <2>1. y \in Nat /\ s[i] < y /\ y < s[i + 1]
    BY <1>5, <1>6 DEF Inside
  <2>2. PICK m \in DOMAIN s : s[m] = y
    BY <1>1 DEF Lines
  <2>3. m \in Int /\ (m < i \/ m = i \/ m = i + 1 \/ m > i + 1)
    BY <1>3, <1>4
  <2>4. ~(m < i)
    BY <1>1, <1>4, <2>2, <2>1, <1>5
  <2>5. ~(m > i + 1)
    <3>1. m > i + 1 => s[i + 1] < s[m]
      BY <1>1, <1>4
    <3> QED BY <3>1, <2>2, <2>1, <1>5
  <2> QED BY <2>1, <2>2, <2>3, <2>4, <2>5, <1>5
<1> QED BY <1>2, <1>5, <1>6, <1>7 DEF IsGap

\* Every number that is missing between the least and the greatest lies in a gap.
LEMMA MissingIsInAGap ==
  ASSUME NEW id, NEW S \in SUBSET Nat, IsFiniteSet(S), NEW a \in S, NEW b \in S,
         NEW y \in (a .. b) \ S
  PROVE  \E x \in GapsOf(id, S) : y \in Inside(x)
<1> DEFINE s == Ascending(S)
<1>1. Lines(s, S) /\ \A i, j \in DOMAIN s : i < j => s[i] < s[j]
  BY AscendingIs
<1>2. GapsOf(id, S) = {[serie |-> id, from |-> s[i], to |-> s[i + 1], missing |-> s[i + 1] - s[i] - 1] :
                          i \in {i \in 1 .. (Len(s) - 1) : s[i + 1] - s[i] > 1}}
  BY DEF GapsOf
<1> HIDE DEF s
<1>3. s \in Seq(S) /\ Len(s) \in Nat /\ DOMAIN s = 1 .. Len(s)
  BY <1>1 DEF Lines
<1>4. \A i \in DOMAIN s : s[i] \in S /\ s[i] \in Nat
  <2>1. \A i \in DOMAIN s : s[i] \in S
    BY <1>3
  <2> QED BY <2>1
<1>5. y \in Nat /\ a \in Nat /\ b \in Nat /\ a < y /\ y < b
  BY DEF Nat
<1> DEFINE below == {m \in 1 .. Len(s) : s[m] < y}
           i == Max(below)
<1>6. below # {}
  <2>1. PICK m \in DOMAIN s : s[m] = a
    BY <1>1 DEF Lines
  <2> QED BY <2>1, <1>3, <1>5
<1>7. i \in below /\ \A m \in below : i >= m
  BY <1>3, <1>6, MaxIsThere
<1> HIDE DEF i
<1>9. PICK n \in DOMAIN s : s[n] = b
  BY <1>1 DEF Lines
<1>10. i \in 1 .. Len(s) /\ s[i] < y /\ i \in Int /\ n \in Int
  BY <1>3, <1>7, <1>9
<1>11. i < n
  <2>1. n < i => s[n] < s[i]
    BY <1>1, <1>3, <1>9, <1>10
  <2> QED BY <2>1, <1>3, <1>4, <1>5, <1>9, <1>10
<1>12. i \in 1 .. (Len(s) - 1) /\ i + 1 \in DOMAIN s
  BY <1>3, <1>9, <1>10, <1>11
<1>13. ~(s[i + 1] < y)
  BY <1>3, <1>7, <1>10, <1>12
<1>14. s[i + 1] > y
  <2>1. s[i + 1] # y
    BY <1>4, <1>12
  <2> QED BY <2>1, <1>13, <1>4, <1>5, <1>12
<1>15. s[i + 1] - s[i] > 1
  BY <1>3, <1>4, <1>5, <1>10, <1>12, <1>14
<1> DEFINE x == [serie |-> id, from |-> s[i], to |-> s[i + 1], missing |-> s[i + 1] - s[i] - 1]
<1>16. x \in GapsOf(id, S)
  BY <1>2, <1>12, <1>15
<1>17. y \in Inside(x)
  BY <1>3, <1>4, <1>5, <1>10, <1>12, <1>14, SMTT(30) DEF Inside
<1> QED BY <1>16, <1>17

\* The edges EMITIU of numbered notas, their séries, and what is missing of all of them.
Numbered(g) == {e \in g.emitiu : ~IsStub(g, e[2]) /\ g.nf[e[2]].numero \in Nat}
Serie(g, e) == <<e[1], g.nf[e[2]].serie>>
NumbersOf(g, id) == {g.nf[e[2]].numero : e \in {e \in Numbered(g) : Serie(g, e) = id}}
AllGaps(g) == UNION {GapsOf(Serie(g, e), NumbersOf(g, Serie(g, e))) : e \in Numbered(g)}
Wider(S) == {p \in S \X S : p[1].missing > p[2].missing}
LEMMA GapsReported ==
  ASSUME NEW g, NEW n
  PROVE  NumberingGaps(g, n) = Leading(AllGaps(g), Wider(AllGaps(g)), n)
BY DEF NumberingGaps, TopBy, Leading, AllGaps, GapsOf, NumbersOf, Numbered, Serie, Wider

\* There are finitely many.
LEMMA FiniteGaps ==
  ASSUME NEW g, IsFiniteSet(g.emitiu)
  PROVE  /\ IsFiniteSet(AllGaps(g))
         /\ \A id : IsFiniteSet(NumbersOf(g, id)) /\ NumbersOf(g, id) \in SUBSET Nat
<1> DEFINE number(e) == g.nf[e[2]].numero
           of(id) == {e \in Numbered(g) : Serie(g, e) = id}
<1>1. IsFiniteSet(Numbered(g))
  BY FS_Subset DEF Numbered
<1>2. ASSUME NEW id PROVE IsFiniteSet(NumbersOf(g, id)) /\ NumbersOf(g, id) \in SUBSET Nat
  <2>1. IsFiniteSet(of(id))
    BY <1>1, FS_Subset
  <2>2. IsFiniteSet(NumbersOf(g, id))
    <3> DEFINE f == [e \in of(id) |-> number(e)]
    <3>1. f \in Surjection(of(id), NumbersOf(g, id))
      BY DEF Surjection, NumbersOf
    <3> QED BY <2>1, <3>1, FS_Surjection
  <2> QED BY <2>2 DEF NumbersOf, Numbered
<1>3. ASSUME NEW id PROVE IsFiniteSet(GapsOf(id, NumbersOf(g, id)))
  <2> DEFINE s == Ascending(NumbersOf(g, id))
             gap(i) == [serie |-> id, from |-> s[i], to |-> s[i + 1], missing |-> s[i + 1] - s[i] - 1]
             at == {i \in 1 .. (Len(s) - 1) : s[i + 1] - s[i] > 1}
  <2>1. s \in Seq(NumbersOf(g, id))
    BY <1>2, AscendingIs DEF Lines
  <2>2. IsFiniteSet(at)
    <3>1. Len(s) - 1 \in Int
      <4> HIDE DEF s
      <4> QED BY <2>1
    <3>2. IsFiniteSet(1 .. (Len(s) - 1))
      BY <3>1, FS_Interval
    <3> QED BY <3>2, FS_Subset
  <2>3. IsFiniteSet({gap(i) : i \in at})
    <3> DEFINE f == [i \in at |-> gap(i)]
    <3> HIDE DEF gap, at
    <3>1. f \in Surjection(at, {gap(i) : i \in at})
      BY DEF Surjection
    <3> HIDE DEF f
    <3> QED BY <2>2, <3>1, FS_Surjection
  <2> QED BY <2>3 DEF GapsOf
<1> DEFINE gaps(e) == GapsOf(Serie(g, e), NumbersOf(g, Serie(g, e)))
           T == {gaps(e) : e \in Numbered(g)}
<1>4. IsFiniteSet(T)
  <2> DEFINE f == [e \in Numbered(g) |-> gaps(e)]
  <2> HIDE DEF gaps
  <2>1. f \in Surjection(Numbered(g), T)
    BY DEF Surjection
  <2> HIDE DEF f, T
  <2> QED BY <1>1, <2>1, FS_Surjection
<1>5. \A t \in T : IsFiniteSet(t)
  BY <1>3
<1>6. IsFiniteSet(UNION T)
  <2> HIDE DEF T
  <2> QED BY <1>4, <1>5, FS_UNION
<1> QED BY <1>2, <1>6 DEF AllGaps

\* What a nota's number is missing from is decided by the nota alone.
LEMMA AllGapsAre ==
  ASSUME NEW g, IsFiniteSet(g.emitiu), NEW x \in AllGaps(g)
  PROVE  x \in GapsOf(x.serie, NumbersOf(g, x.serie)) /\ IsGap(x, x.serie, NumbersOf(g, x.serie))
<1>1. PICK e \in Numbered(g) : x \in GapsOf(Serie(g, e), NumbersOf(g, Serie(g, e)))
  BY DEF AllGaps
<1> DEFINE id == Serie(g, e)
<1>2. IsGap(x, id, NumbersOf(g, id))
  <2> HIDE DEF id
  <2>1. x \in GapsOf(id, NumbersOf(g, id))
    BY <1>1 DEF id
  <2> QED BY <2>1, FiniteGaps, GapIs
<1>3. x.serie = id
  BY <1>2 DEF IsGap
<1> QED BY <1>1, <1>2, <1>3

\* Two gaps of a série have no number in common.
LEMMA GapsApart ==
  ASSUME NEW id, NEW S \in SUBSET Nat, NEW x, NEW y, IsGap(x, id, S), IsGap(y, id, S), x # y
  PROVE  Inside(x) \cap Inside(y) = {}
<1> SUFFICES ASSUME NEW n \in Inside(x), n \in Inside(y) PROVE x = y
  OBVIOUS
<1>1. /\ x.from \in Nat /\ x.to \in Nat /\ y.from \in Nat /\ y.to \in Nat
      /\ x.from \in S /\ x.to \in S /\ y.from \in S /\ y.to \in S
  BY DEF IsGap
<1>2. /\ n \in Int /\ x.from < n /\ n < x.to /\ y.from < n /\ n < y.to
  BY <1>1 DEF Inside
<1>3. /\ y.from \notin Inside(x) /\ y.to \notin Inside(x)
      /\ x.from \notin Inside(y) /\ x.to \notin Inside(y)
  BY <1>1 DEF IsGap
<1>4. x.from = y.from /\ x.to = y.to
  BY <1>1, <1>2, <1>3 DEF Inside
<1>5. x = [serie |-> id, from |-> x.from, to |-> x.to, missing |-> x.to - x.from - 1]
      /\ y = [serie |-> id, from |-> y.from, to |-> y.to, missing |-> y.to - y.from - 1]
  BY DEF IsGap
<1> QED BY <1>4, <1>5

\* The issuers and the events of the graph: finitely many, one issuer each.
LEMMA IssuersAre ==
  ASSUME Holds(graph, merged), merged \in SUBSET Accepted
  PROVE  /\ IsFiniteSet(graph.emitiu)
         /\ \A e \in graph.emitiu : e = <<e[1], e[2]>> /\ e[2] \in Imported(graph)
         /\ \A e, f \in graph.emitiu : e[2] = f[2] => e = f
<1> DEFINE E == graph.eventos
           issued(x) == CHOOSE e \in graph.emitiu : e[2] = x.chave
<1>1. graph.emitiu = {<<Invoice(d).emitente.cnpj, Key(d)>> : d \in merged}
  BY DEF Holds
<1>2. \A d, e \in merged : Key(d) = Key(e) => Invoice(d) = Invoice(e)
  BY DocsAssumption DEF AreNotas
<1>3. Imported(graph) = Keys(merged)
  BY DEF Holds, Imported, IsStub
<1>4. \A e \in graph.emitiu : e = <<e[1], e[2]>> /\ e[2] \in Imported(graph)
  BY <1>1, <1>3 DEF Keys
<1>5. \A e, f \in graph.emitiu : e[2] = f[2] => e = f
  BY <1>1, <1>2
<1>6. IsFiniteSet(graph.emitiu)
  <2>1. \A x \in Keys(merged) : \E e : {f \in E : f.chave = x} = {e}
    BY DEF Holds
  <2>2. graph.emitiu \in SUBSET {issued(x) : x \in E}
    <3> SUFFICES ASSUME NEW e \in graph.emitiu PROVE \E x \in E : e = issued(x)
      OBVIOUS
    <3>1. e[2] \in Keys(merged)
      BY <1>3, <1>4
    <3>2. PICK x \in E : x.chave = e[2]
      BY <2>1, <3>1
    <3>3. issued(x) \in graph.emitiu /\ issued(x)[2] = x.chave
      BY <3>2
    <3> QED BY <3>2, <3>3, <1>5
  <2>3. IsFiniteSet(E)
    BY DEF Holds
  <2>4. IsFiniteSet({issued(x) : x \in E})
    <3> DEFINE f == [x \in E |-> issued(x)]
    <3> HIDE DEF issued, E
    <3>1. f \in Surjection(E, {issued(x) : x \in E})
      BY DEF Surjection
    <3> HIDE DEF f
    <3> QED BY <2>3, <3>1, FS_Surjection
  <2> QED BY <2>2, <2>4, FS_Subset
<1> QED BY <1>4, <1>5, <1>6

\* Notas of one issuer, day and value make one group of duplicates.
LEMMA GroupsApart ==
  ASSUME NEW g, NEW n, \A e, f \in g.emitiu : e[2] = f[2] => e = f,
         NEW x \in DuplicateGroups(g, n), NEW y \in DuplicateGroups(g, n), x # y
  PROVE  x.chaves \cap y.chaves = {}
<1> DEFINE issued == {e \in g.emitiu : ActiveNF(g, e[2])}
           same(e) == {<<e[1], DayOf(g.nf[e[2]].dataEmissao), g.nf[e[2]].valorTotal>>}
           group(e) == [emitente |-> e[1], valorTotal |-> g.nf[e[2]].valorTotal,
                        chaves |-> {z[2] : z \in {z \in issued : same(z) = same(e)}}]
<1>1. \A d \in DuplicateGroups(g, n) : \E e \in issued : d = group(e)
  BY DEF DuplicateGroups, TopBy
<1>2. PICK e \in issued : x = group(e)
  <2> HIDE DEF issued, group
  <2> QED BY <1>1
<1>3. PICK f \in issued : y = group(f)
  <2> HIDE DEF issued, group
  <2> QED BY <1>1
<1> SUFFICES ASSUME NEW k \in x.chaves, k \in y.chaves PROVE x = y
  OBVIOUS
<1>4. PICK z \in issued : z[2] = k /\ same(z) = same(e)
  <2> HIDE DEF issued, same
  <2> QED BY <1>2
<1>5. PICK w \in issued : w[2] = k /\ same(w) = same(f)
  <2> HIDE DEF issued, same
  <2> QED BY <1>3
<1>6. z = w
  BY <1>4, <1>5
<1>7. same(e) = same(f)
  <2> HIDE DEF same
  <2> QED BY <1>4, <1>5, <1>6
<1>8. e[1] = f[1] /\ g.nf[e[2]].valorTotal = g.nf[f[2]].valorTotal
  <2>1. <<e[1], DayOf(g.nf[e[2]].dataEmissao), g.nf[e[2]].valorTotal>> \in same(e)
    OBVIOUS
  <2>2. <<e[1], DayOf(g.nf[e[2]].dataEmissao), g.nf[e[2]].valorTotal>>
            = <<f[1], DayOf(g.nf[f[2]].dataEmissao), g.nf[f[2]].valorTotal>>
    BY <1>7, <2>1
  <2> HIDE DEF same
  <2> QED BY <2>2
<1> HIDE DEF same
<1> QED BY <1>2, <1>3, <1>7, <1>8

\* The parts of the property, of the gaps that are reported.
GapsRight(gaps) ==
    /\ \A x \in gaps : /\ {x.from, x.to} \subseteq NumbersOf(graph, x.serie)
                       /\ Inside(x) \cap NumbersOf(graph, x.serie) = {}
                       /\ x.missing = Cardinality(Inside(x))
    /\ \A x, y \in gaps : x.serie = y.serie /\ x # y => Inside(x) \cap Inside(y) = {}
    /\ Cardinality(gaps) < 50 =>
           \A id \in {Serie(graph, e) : e \in Numbered(graph)} :
               UNION {Inside(x) : x \in {x \in gaps : x.serie = id}}
                   = (Min(NumbersOf(graph, id)) .. Max(NumbersOf(graph, id))) \ NumbersOf(graph, id)
LEMMA GapsAreRight ==
  ASSUME IsFiniteSet(graph.emitiu)
  PROVE  GapsRight(NumberingGaps(graph, 50))
<1> DEFINE all == AllGaps(graph)
           gaps == NumberingGaps(graph, 50)
<1>1. gaps = Leading(all, Wider(all), 50) /\ IsFiniteSet(all)
  BY GapsReported, FiniteGaps
<1>2. gaps \in SUBSET all /\ (Cardinality(gaps) < 50 => gaps = all)
  <2>1. gaps \in SUBSET all
    BY <1>1 DEF Leading
  <2>2. Cardinality(gaps) < 50 => gaps = all
    <3> HIDE DEF all, gaps
    <3> QED BY <1>1, NotFull
  <2> QED BY <2>1, <2>2
<1>3. \A x \in all : /\ x \in GapsOf(x.serie, NumbersOf(graph, x.serie))
                     /\ IsGap(x, x.serie, NumbersOf(graph, x.serie))
  BY AllGapsAre
<1>4. \A id : IsFiniteSet(NumbersOf(graph, id)) /\ NumbersOf(graph, id) \in SUBSET Nat
  BY FiniteGaps
<1> HIDE DEF gaps, all
<1>5. ASSUME NEW x \in gaps
      PROVE  /\ {x.from, x.to} \subseteq NumbersOf(graph, x.serie)
             /\ Inside(x) \cap NumbersOf(graph, x.serie) = {}
             /\ x.missing = Cardinality(Inside(x))
  <2>1. IsGap(x, x.serie, NumbersOf(graph, x.serie))
    BY <1>2, <1>3
  <2>2. x.from \in NumbersOf(graph, x.serie) /\ x.to \in NumbersOf(graph, x.serie)
    BY <2>1 DEF IsGap
  <2>3. x.from \in Nat /\ x.to \in Nat
    BY <2>2, <1>4
  <2>4. x.from + 1 < x.to /\ x.missing = x.to - x.from - 1
    BY <2>1 DEF IsGap
  <2>5. Cardinality(Inside(x)) = IF x.from + 1 > x.to - 1 THEN 0 ELSE (x.to - 1) - (x.from + 1) + 1
    <3>1. x.from + 1 \in Int /\ x.to - 1 \in Int
      BY <2>3
    <3> QED BY <3>1, FS_Interval DEF Inside
  <2>6. x.missing = Cardinality(Inside(x))
    BY <2>3, <2>4, <2>5
  <2> QED BY <2>1, <2>2, <2>6 DEF IsGap
<1>6. ASSUME NEW x \in gaps, NEW y \in gaps, x.serie = y.serie, x # y
      PROVE  Inside(x) \cap Inside(y) = {}
  <2>1. IsGap(x, x.serie, NumbersOf(graph, x.serie)) /\ IsGap(y, x.serie, NumbersOf(graph, x.serie))
    BY <1>2, <1>3, <1>6
  <2> QED BY <2>1, <1>4, <1>6, GapsApart
<1>7. ASSUME Cardinality(gaps) < 50, NEW e \in Numbered(graph), NEW id, id = Serie(graph, e)
      PROVE  UNION {Inside(x) : x \in {x \in gaps : x.serie = id}}
                 = (Min(NumbersOf(graph, id)) .. Max(NumbersOf(graph, id))) \ NumbersOf(graph, id)
  <2> DEFINE S == NumbersOf(graph, id)
             U == UNION {Inside(x) : x \in {x \in gaps : x.serie = id}}
  <2>1. S # {}
    BY <1>7 DEF NumbersOf
  <2>2. IsFiniteSet(S) /\ S \in SUBSET Nat
    BY <1>4
  <2>3. gaps = all /\ GapsOf(id, S) \in SUBSET all
    BY <1>2, <1>7 DEF all, AllGaps
  <2> HIDE DEF S
  <2>4. /\ Min(S) \in S /\ \A y \in S : Min(S) <= y
        /\ Max(S) \in S /\ \A y \in S : Max(S) >= y
    BY <2>1, <2>2, BoundsAre
  <2>5. ASSUME NEW n \in U PROVE n \in (Min(S) .. Max(S)) \ S
    <3>1. PICK x \in gaps : x.serie = id /\ n \in Inside(x)
      OBVIOUS
    <3>2. IsGap(x, id, S)
      BY <1>2, <1>3, <3>1 DEF S
    <3>3. x.from \in S /\ x.to \in S /\ n \notin S
      BY <3>1, <3>2 DEF IsGap
    <3>4. x.from \in Nat /\ x.to \in Nat /\ Min(S) \in Nat /\ Max(S) \in Nat
      BY <2>2, <2>4, <3>3
    <3>5. n \in Int /\ x.from < n /\ n < x.to
      BY <3>1, <3>4 DEF Inside
    <3>6. Min(S) <= x.from /\ Max(S) >= x.to
      BY <2>4, <3>3
    <3>7. Min(S) <= n /\ n <= Max(S)
      BY <3>4, <3>5, <3>6
    <3> QED BY <3>3, <3>4, <3>5, <3>7
  <2>6. ASSUME NEW n \in (Min(S) .. Max(S)) \ S PROVE n \in U
    <3>1. PICK x \in GapsOf(id, S) : n \in Inside(x)
      BY <2>2, <2>4, MissingIsInAGap
    <3>2. IsGap(x, id, S)
      BY <2>2, GapIs
    <3> QED BY <2>3, <3>1, <3>2 DEF IsGap
  <2> QED BY <2>5, <2>6 DEF S
<1>8. \A id \in {Serie(graph, e) : e \in Numbered(graph)} : Cardinality(gaps) < 50 =>
        UNION {Inside(x) : x \in {x \in gaps : x.serie = id}}
             = (Min(NumbersOf(graph, id)) .. Max(NumbersOf(graph, id))) \ NumbersOf(graph, id)
  BY <1>7
<1> QED BY <1>5, <1>6, <1>8 DEF GapsRight, gaps

\* The gaps that GET /stats/anomalias reports are runs of numbers that nobody imported, all of
\* them while the report is not full, and no nota is in two groups of duplicates, in every
\* graph that any documents make (findNumberingGaps, findDuplicateInvoices).
THEOREM AnomaliesHold == Spec => []GapsAreTheMissingNumbers
<1>1. IInv => GapsAreTheMissingNumbers
  <2> SUFFICES ASSUME IInv PROVE GapsAreTheMissingNumbers
    OBVIOUS
  <2>1. Holds(graph, merged) /\ merged \in SUBSET Accepted
    BY IInvIs DEF Accepts
  <2>2. /\ IsFiniteSet(graph.emitiu)
        /\ \A e \in graph.emitiu : e = <<e[1], e[2]>> /\ e[2] \in Imported(graph)
        /\ \A e, f \in graph.emitiu : e[2] = f[2] => e = f
    BY <2>1, IssuersAre
  <2> DEFINE a == GetAnomalies(graph, graph, << >>).body
  <2>3. a = [duplicatas |-> DuplicateGroups(graph, 50), gaps |-> NumberingGaps(graph, 50)]
    BY DEF GetAnomalies, Answered, Ok, Bounded, Given
  <2>4. Numbered(graph) = {e \in graph.emitiu : e[2] \in Imported(graph) /\ graph.nf[e[2]].numero \in Nat}
    BY <2>2 DEF Numbered, Imported
  <2>5. GapsRight(a.gaps)
    BY <2>2, <2>3, GapsAreRight
  <2>6. \A x, y \in a.duplicatas : x # y => x.chaves \cap y.chaves = {}
    BY <2>2, <2>3, GroupsApart
  <2> QED BY <2>4, <2>5, <2>6 DEF GapsAreTheMissingNumbers, GapsRight, NumbersOf, Serie, Inside
<1> QED
  BY <1>1, GraphInvariance, PTL
=============================================================================
