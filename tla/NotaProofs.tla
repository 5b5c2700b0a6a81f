----------------------------- MODULE NotaProofs -----------------------------
(***************************************************************************)
(* What the operators over notas give, for every document, graph and list: *)
(* induction over the subsets of a finite set, the folds the graph is made *)
(* with, one transaction of mergeInvoice and the graph of a set of         *)
(* documents, and the order of a list.  No module variable stands in it,   *)
(* so that the proofs about the graph, the alerts and the screens share it.*)
(***************************************************************************)
EXTENDS FiscalApi, FiniteSetTheorems, WellFoundedInduction, TLAPS

-----------------------------------------------------------------------------
(* Induction.                                                                *)

\* A set of subsets of a finite set has a member with no smaller one in it: the induction of
\* this module.
LEMMA LeastSubset ==
  ASSUME NEW D, IsFiniteSet(D), NEW T \in SUBSET SUBSET D, T # {}
  PROVE  \E s \in T : \A u \in SUBSET s : u # s => u \notin T
<1>1. IsWellFoundedOn(StrictSubsetOrdering(D), SUBSET D)
  BY FS_StrictSubsetOrderingWellFounded, FS_FiniteSubsetsOfFinite
<1>2. PICK s \in T : \A u \in T : ~(<<u, s>> \in StrictSubsetOrdering(D))
  BY <1>1, WFMin
<1> QED
  BY <1>2 DEF StrictSubsetOrdering

\* The last position of a set of positions is one of them, and none is after it.
LEMMA MaxIsThere ==
  ASSUME NEW n \in Nat, NEW s \in SUBSET (1 .. n), s # {}
  PROVE  Max(s) \in s /\ \A y \in s : Max(s) >= y
<1> DEFINE Above(x) == {y \in s : y > x}
           T == {Above(x) : x \in s}
<1>1. IsFiniteSet(1 .. n)
  BY FS_Interval
<1>2. T \in SUBSET SUBSET (1 .. n) /\ T # {}
  OBVIOUS
<1>3. PICK t \in T : \A u \in SUBSET t : u # t => u \notin T
  <2> HIDE DEF T
  <2> QED BY <1>1, <1>2, LeastSubset
<1>4. PICK x \in s : t = Above(x)
  BY <1>3
<1>5. Above(x) = {}
  <2> SUFFICES ASSUME NEW y \in s, y > x PROVE FALSE
    OBVIOUS
  <2>1. Above(y) \in T
    OBVIOUS
  <2>2. Above(y) \in SUBSET t
    <3> SUFFICES ASSUME NEW z \in s, z > y PROVE z > x
      BY <1>4
    <3>1. x \in Int /\ y \in Int /\ z \in Int
      OBVIOUS
    <3> QED BY <3>1
  <2>3. y \in t /\ y \notin Above(y)
    <3>1. y \in Int
      OBVIOUS
    <3>2. ~(y > y)
      BY <3>1
    <3> QED BY <1>4, <3>2
  <2> HIDE DEF T, Above
  <2> QED BY <2>1, <2>2, <2>3, <1>3
<1>6. \A y \in s : x >= y
  <2> SUFFICES ASSUME NEW y \in s PROVE x >= y
    OBVIOUS
  <2>1. ~(y > x)
    BY <1>5
  <2>2. x \in Int /\ y \in Int
    OBVIOUS
  <2> QED BY <2>1, <2>2
<1> QED
  BY <1>6 DEF Max

-----------------------------------------------------------------------------
(* Folds.                                                                    *)

\* What a fold takes out of a set, and what it does with it: documents in any order, the items
\* of a nota k from the first to the last.
Taken(fold, u) == IF fold = "notas" THEN CHOOSE x \in u : TRUE ELSE Max(u)
MergeDoc(v, d) == MergeInvoice(v, Invoice(d), d.root, 0)
Folded(fold, k, rows, v, x) == IF fold = "notas" THEN MergeDoc(v, rows[x]) ELSE MergeItem(v, k, rows[x])
\* What the graph is after some of the rows.
IsTable(f, D, fold, g, k, rows) ==
    f = [u \in SUBSET D |-> IF u = {} THEN g
                            ELSE Folded(fold, k, rows, f[u \ {Taken(fold, u)}], Taken(fold, u))]

\* There is a table of the fold: any two attempts agree where both are defined, so the attempts
\* on smaller sets give the one on the next.
LEMMA FoldTable ==
  ASSUME NEW D, IsFiniteSet(D), NEW fold, NEW g, NEW k, NEW rows,
         \A u \in SUBSET D : u # {} => Taken(fold, u) \in u
  PROVE  \E f : IsTable(f, D, fold, g, k, rows)
<1> DEFINE Step(v, u) == Folded(fold, k, rows, v, Taken(fold, u))
           Rest(u) == u \ {Taken(fold, u)}
           Attempt(f, s) == \A u \in SUBSET s : f[u] = IF u = {} THEN g ELSE Step(f[Rest(u)], u)
<1>1. IsFiniteSet(D)
  OBVIOUS
<1>2. \A u \in SUBSET D : u # {} => Rest(u) \in SUBSET u /\ Rest(u) # u
  OBVIOUS
<1> HIDE DEF Step, Rest
<1>3. ASSUME NEW s \in SUBSET D, NEW t \in SUBSET D, NEW f, NEW h, Attempt(f, s), Attempt(h, t),
             NEW u \in SUBSET (s \cap t)
      PROVE  f[u] = h[u]
  <2> DEFINE T == {v \in SUBSET (s \cap t) : f[v] # h[v]}
  <2> SUFFICES ASSUME T # {} PROVE FALSE
    OBVIOUS
  <2>1. T \in SUBSET SUBSET D
    OBVIOUS
  <2>2. PICK v \in T : \A w \in SUBSET v : w # v => w \notin T
    <3> HIDE DEF T
    <3> QED BY <1>1, <2>1, LeastSubset
  <2>3. v \in SUBSET (s \cap t) /\ f[v] # h[v] /\ v \in SUBSET D
    OBVIOUS
  <2>4. CASE v = {}
    BY <1>3, <2>3, <2>4
  <2>5. CASE v # {}
    <3>1. Rest(v) \in SUBSET (s \cap t) /\ Rest(v) \notin T
      BY <1>2, <2>2, <2>3, <2>5
    <3>2. f[Rest(v)] = h[Rest(v)]
      BY <3>1
    <3> QED BY <3>2, <1>3, <2>3, <2>5
  <2> QED BY <2>4, <2>5
<1> DEFINE Val(v) == (CHOOSE h : Attempt(h, v))[v]
           F(s) == [u \in SUBSET s |-> IF u = {} THEN g ELSE Step(Val(Rest(u)), u)]
<1>4. ASSUME NEW s \in SUBSET D, \A v \in SUBSET s : v # s => \E h : Attempt(h, v)
      PROVE  Attempt(F(s), s)
  <2>0. \A u \in SUBSET s : F(s)[u] = IF u = {} THEN g ELSE Step(Val(Rest(u)), u)
    <3> HIDE DEF Val
    <3> QED OBVIOUS
  <2> HIDE DEF F
  <2> SUFFICES ASSUME NEW u \in SUBSET s, u # {}
               PROVE  F(s)[u] = Step(F(s)[Rest(u)], u)
    <3> HIDE DEF Val
    <3> QED BY <2>0
  <2> DEFINE v == Rest(u)
             H == CHOOSE h : Attempt(h, v)
  <2>1. v \in SUBSET s /\ v # s /\ v \in SUBSET D
    BY <1>2
  <2>2. Attempt(H, v)
    BY <1>4, <2>1
  <2>3. F(s)[u] = Step(H[v], u)
    BY <2>0
  <2>4. F(s)[v] = H[v]
    <3>1. CASE v = {}
      <4>1. H[v] = g
        BY <2>2, <3>1
      <4>2. F(s)[v] = g
        BY <2>0, <2>1, <3>1
      <4> QED BY <4>1, <4>2
    <3>2. CASE v # {}
      <4> DEFINE w == Rest(v)
                 K == CHOOSE h : Attempt(h, w)
      <4>1. w \in SUBSET v /\ w # v /\ w \in SUBSET D /\ w \in SUBSET s /\ w # s
        BY <1>2, <2>1, <3>2
      <4>2. Attempt(K, w)
        BY <1>4, <4>1
      <4>3. F(s)[v] = Step(K[w], v)
        BY <2>0, <2>1, <3>2
      <4>4. H[v] = Step(H[w], v)
        BY <2>2, <3>2
      <4>5. H[w] = K[w]
        <5> HIDE DEF H, K, w, v, Attempt
        <5> QED BY <1>3, <2>1, <2>2, <4>1, <4>2
      <4> QED BY <4>3, <4>4, <4>5
    <3> QED BY <3>1, <3>2
  <2> QED BY <2>3, <2>4
<1>5. \A s \in SUBSET D : \E h : Attempt(h, s)
  <2> DEFINE T == {s \in SUBSET D : ~\E h : Attempt(h, s)}
  <2> SUFFICES ASSUME T # {} PROVE FALSE
    OBVIOUS
  <2>1. T \in SUBSET SUBSET D
    OBVIOUS
  <2>2. PICK s \in T : \A w \in SUBSET s : w # s => w \notin T
    <3> HIDE DEF T
    <3> QED BY <1>1, <2>1, LeastSubset
  <2>3. \A v \in SUBSET s : v # s => \E h : Attempt(h, v)
    <3> HIDE DEF Attempt
    <3> QED BY <2>2
  <2>4. Attempt(F(s), s)
    <3> HIDE DEF Attempt, F
    <3> QED BY <1>4, <2>3
  <2> HIDE DEF Attempt, F
  <2> QED BY <2>4
<1>6. Attempt(F(D), D)
  <2> HIDE DEF Attempt, F
  <2> QED BY <1>4, <1>5
<1> DEFINE f == F(D)
<1>7. f = [u \in SUBSET D |-> f[u]]
  OBVIOUS
<1>8. \A u \in SUBSET D : f[u] = IF u = {} THEN g ELSE Step(f[Rest(u)], u)
  <2> HIDE DEF F
  <2> QED BY <1>6
<1> HIDE DEF f
<1>9. f = [u \in SUBSET D |-> IF u = {} THEN g ELSE Step(f[Rest(u)], u)]
  BY <1>7, <1>8
<1> QED
  BY <1>9 DEF Step, Rest, IsTable

\* MergeItems is the last entry of a table of the loop over the items.
LEMMA LoopUnfolds ==
  ASSUME NEW n \in Nat, NEW itens, DOMAIN itens = 1 .. n, NEW g, NEW k
  PROVE  \E f : /\ IsTable(f, DOMAIN itens, "itens", g, k, itens)
                /\ f[DOMAIN itens] = MergeItems(g, k, itens)
<1> DEFINE D == DOMAIN itens
           Loop(f) == f = [s \in SUBSET D |-> IF s = {} THEN g ELSE MergeItem(f[s \ {Max(s)}], k, itens[Max(s)])]
           h == CHOOSE f : Loop(f)
<1>1. IsFiniteSet(D) /\ \A u \in SUBSET D : u # {} => Taken("itens", u) \in u
  <2>1. IsFiniteSet(1 .. n)
    BY FS_Interval
  <2> QED BY <2>1, MaxIsThere DEF Taken
<1>2. \A f : IsTable(f, D, "itens", g, k, itens) <=> Loop(f)
  BY DEF IsTable, Folded, Taken
<1>3. Loop(h)
  <2>1. PICK f : IsTable(f, D, "itens", g, k, itens)
    <3> HIDE DEF D
    <3> QED BY <1>1, FoldTable
  <2>2. Loop(f)
    BY <1>2, <2>1
  <2> HIDE DEF Loop
  <2> QED BY <2>2
<1>4. h[D] = MergeItems(g, k, itens)
  BY DEF MergeItems, FoldLeft, MapThenFoldSet
<1> HIDE DEF h, Loop
<1>5. IsTable(h, D, "itens", g, k, itens)
  BY <1>2, <1>3
<1> QED BY <1>4, <1>5

-----------------------------------------------------------------------------
(* What the items leave.                                                      *)
\* The edge of an item: CONTEM is merged by nota, numeroItem and product.
Contained(k, item) == <<k, item.contem.numeroItem, item.produto.idUnico>>
\* A function, as the properties of a node are.
IsFunction(f) == f = [x \in DOMAIN f |-> f[x]]
\* No two items of a nota have one numeroItem.
NumberedApart(itens) ==
    \A n, m \in DOMAIN itens : itens[n].contem.numeroItem = itens[m].contem.numeroItem => n = m
\* The graph has its labels and edge types.
HasShape(g) == DOMAIN g = DOMAIN EmptyGraph
\* An item of the nota that is there already is there as it is: a job run again writes the same.
Agrees(contem, k, itens) ==
    \A n \in DOMAIN itens :
        /\ IsFunction(itens[n].contem)
        /\ Contained(k, itens[n]) \in DOMAIN contem => contem[Contained(k, itens[n])] = itens[n].contem

\* What the items s of a nota k have left of g.
Merged(h, g, k, itens, s) ==
    /\ HasShape(h)
    /\ h.nf = g.nf /\ h.emp = g.emp /\ h.emitiu = g.emitiu /\ h.destinada = g.destinada
    /\ h.devolve = g.devolve /\ h.eventos = g.eventos
    /\ h.classificado = g.classificado \cup {<<itens[n].produto.idUnico, itens[n].ncm>> : n \in s}
    /\ h.usaCfop = g.usaCfop \cup {<<k, itens[n].cfop>> : n \in s}
    /\ DOMAIN h.contem = DOMAIN g.contem \cup {Contained(k, itens[n]) : n \in s}
    /\ IsFunction(h.contem)
    /\ \A c \in DOMAIN g.contem : h.contem[c] = g.contem[c]
    /\ \A n \in s : h.contem[Contained(k, itens[n])] = itens[n].contem

\* MERGE and SET touch one node: the new properties go over those it has.
LEMMA UpsertIs ==
  ASSUME NEW f, NEW k, NEW props
  PROVE  /\ DOMAIN Upsert(f, k, props) = DOMAIN f \cup {k}
         /\ \A x \in DOMAIN f : x # k => Upsert(f, k, props)[x] = f[x]
         /\ Upsert(f, k, props)[k] = IF k \in DOMAIN f THEN Over(props, f[k]) ELSE props
         /\ IsFunction(Upsert(f, k, props))
<1> DEFINE one == [x \in {k} |-> IF k \in DOMAIN f THEN Over(props, f[k]) ELSE props]
<1>1. DOMAIN one = {k} /\ one[k] = IF k \in DOMAIN f THEN Over(props, f[k]) ELSE props
  OBVIOUS
<1>2. Upsert(f, k, props) = Over(one, f)
  BY DEF Upsert
<1> HIDE DEF one
<1> QED BY <1>1, <1>2 DEF Over, IsFunction

\* The same properties set again change nothing.
LEMMA OverSelf ==
  ASSUME NEW f, IsFunction(f) PROVE Over(f, f) = f
BY DEF Over, IsFunction

\* One item adds its edges and leaves notas, companies and events alone.
LEMMA MergeItemIs ==
  ASSUME NEW h, NEW k, NEW item, HasShape(h)
  PROVE  LET r == MergeItem(h, k, item) IN
         /\ HasShape(r)
         /\ r.nf = h.nf /\ r.emp = h.emp /\ r.emitiu = h.emitiu /\ r.destinada = h.destinada
         /\ r.devolve = h.devolve /\ r.eventos = h.eventos
         /\ r.classificado = h.classificado \cup {<<item.produto.idUnico, item.ncm>>}
         /\ r.usaCfop = h.usaCfop \cup {<<k, item.cfop>>}
         /\ r.contem = Upsert(h.contem, Contained(k, item), item.contem)
<1> DEFINE prod == CreateOnly(h.prod, item.produto.idUnico, item.produto)
           ncm == Upsert(h.ncm, item.ncm, LookupNcm(item.ncm))
           cfop == Upsert(h.cfop, item.cfop, LookupCfop(item.cfop))
           contem == Upsert(h.contem, Contained(k, item), item.contem)
<1>1. MergeItem(h, k, item) = [h EXCEPT !.prod = prod, !.ncm = ncm, !.cfop = cfop,
          !.classificado = @ \cup {<<item.produto.idUnico, item.ncm>>},
          !.usaCfop = @ \cup {<<k, item.cfop>>}, !.contem = contem]
  BY DEF MergeItem, Contained
<1> HIDE DEF prod, ncm, cfop, contem
<1>2. DOMAIN h = {"nf", "emp", "prod", "ncm", "cfop", "classificado", "usaCfop", "contem", "emitiu",
                  "destinada", "devolve", "raw", "eventos"}
  BY DEF HasShape, EmptyGraph
<1> QED BY <1>1, <1>2 DEF HasShape, contem

\* One item more: its edge is apart from those of the other items of the nota.
LEMMA ItemMerged ==
  ASSUME NEW g, NEW h, NEW k, NEW itens, NEW s \in SUBSET DOMAIN itens, NEW m \in DOMAIN itens \ s,
         NumberedApart(itens), Agrees(g.contem, k, itens), Merged(h, g, k, itens, s)
  PROVE  Merged(MergeItem(h, k, itens[m]), g, k, itens, s \cup {m})
<1> DEFINE r == MergeItem(h, k, itens[m])
           c == Contained(k, itens[m])
<1>1. HasShape(h)
  BY DEF Merged
<1>2. /\ HasShape(r)
      /\ r.nf = h.nf /\ r.emp = h.emp /\ r.emitiu = h.emitiu /\ r.destinada = h.destinada
      /\ r.devolve = h.devolve /\ r.eventos = h.eventos
      /\ r.classificado = h.classificado \cup {<<itens[m].produto.idUnico, itens[m].ncm>>}
      /\ r.usaCfop = h.usaCfop \cup {<<k, itens[m].cfop>>}
      /\ r.contem = Upsert(h.contem, c, itens[m].contem)
  BY <1>1, MergeItemIs
<1>3. \A n \in s : Contained(k, itens[n]) # c
  BY DEF Contained, NumberedApart
<1> HIDE DEF r, c
<1>4. /\ DOMAIN r.contem = DOMAIN h.contem \cup {c}
      /\ \A x \in DOMAIN h.contem : x # c => r.contem[x] = h.contem[x]
      /\ r.contem[c] = IF c \in DOMAIN h.contem THEN Over(itens[m].contem, h.contem[c]) ELSE itens[m].contem
      /\ IsFunction(r.contem)
  <2> DEFINE w == Upsert(h.contem, c, itens[m].contem)
  <2>1. /\ DOMAIN w = DOMAIN h.contem \cup {c}
        /\ \A x \in DOMAIN h.contem : x # c => w[x] = h.contem[x]
        /\ w[c] = IF c \in DOMAIN h.contem THEN Over(itens[m].contem, h.contem[c]) ELSE itens[m].contem
        /\ IsFunction(w)
    BY UpsertIs
  <2>2. r.contem = w
    BY <1>2
  <2> HIDE DEF w
  <2> QED BY <2>1, <2>2
<1>5. r.contem[c] = itens[m].contem
  <2>1. CASE c \in DOMAIN h.contem
    <3>1. c \in DOMAIN g.contem /\ h.contem[c] = g.contem[c]
      BY <1>3, <2>1 DEF Merged
    <3>2. g.contem[c] = itens[m].contem /\ IsFunction(itens[m].contem)
      BY <3>1 DEF Agrees, c
    <3> QED BY <1>4, <2>1, <3>1, <3>2, OverSelf
  <2>2. CASE c \notin DOMAIN h.contem
    BY <1>4, <2>2
  <2> QED BY <2>1, <2>2
<1>6. ASSUME NEW x \in DOMAIN g.contem PROVE r.contem[x] = g.contem[x]
  <2>1. x \in DOMAIN h.contem /\ h.contem[x] = g.contem[x]
    BY DEF Merged
  <2>2. CASE x = c
    <3>1. g.contem[c] = itens[m].contem
      BY <2>2 DEF Agrees, c
    <3> QED BY <1>5, <2>2, <3>1
  <2>3. CASE x # c
    BY <1>4, <2>1, <2>3
  <2> QED BY <2>2, <2>3
<1>7. \A n \in s \cup {m} : r.contem[Contained(k, itens[n])] = itens[n].contem
  BY <1>3, <1>4, <1>5 DEF Merged, c
<1>8. DOMAIN r.contem = DOMAIN g.contem \cup {Contained(k, itens[n]) : n \in s \cup {m}}
  BY <1>4 DEF Merged, c
<1>9. /\ r.classificado = g.classificado \cup {<<itens[n].produto.idUnico, itens[n].ncm>> : n \in s \cup {m}}
      /\ r.usaCfop = g.usaCfop \cup {<<k, itens[n].cfop>> : n \in s \cup {m}}
  BY <1>2 DEF Merged
<1>10. /\ r.nf = g.nf /\ r.emp = g.emp /\ r.emitiu = g.emitiu /\ r.destinada = g.destinada
       /\ r.devolve = g.devolve /\ r.eventos = g.eventos
  BY <1>2 DEF Merged
<1> QED
  BY <1>2, <1>4, <1>6, <1>7, <1>8, <1>9, <1>10 DEF Merged, r

\* The whole loop leaves what all the items say, whatever was merged before.
LEMMA ItemsMerged ==
  ASSUME NEW g, NEW k, NEW itens, NEW n \in Nat, DOMAIN itens = 1 .. n, HasShape(g), IsFunction(g.contem),
         NumberedApart(itens), Agrees(g.contem, k, itens)
  PROVE  Merged(MergeItems(g, k, itens), g, k, itens, DOMAIN itens)
<1>1. PICK f : IsTable(f, DOMAIN itens, "itens", g, k, itens) /\ f[DOMAIN itens] = MergeItems(g, k, itens)
  BY LoopUnfolds
<1>2. \A s \in SUBSET DOMAIN itens : Merged(f[s], g, k, itens, s)
  <2> DEFINE T == {s \in SUBSET DOMAIN itens : ~Merged(f[s], g, k, itens, s)}
  <2> SUFFICES ASSUME T # {} PROVE FALSE
    OBVIOUS
  <2>1. T \in SUBSET SUBSET DOMAIN itens /\ IsFiniteSet(DOMAIN itens)
    BY FS_Interval
  <2>2. PICK s \in T : \A u \in SUBSET s : u # s => u \notin T
    <3> HIDE DEF T
    <3> QED BY <2>1, LeastSubset
  <2>3. CASE s = {}
    <3>1. f[s] = g
      BY <1>1, <2>3 DEF IsTable
    <3>2. Merged(g, g, k, itens, {})
      BY DEF Merged
    <3> QED BY <2>3, <3>1, <3>2
  <2>4. CASE s # {}
    <3> DEFINE m == Max(s)
               u == s \ {m}
    <3>1. m \in s
      BY <2>4, MaxIsThere
    <3>2. f[s] = MergeItem(f[u], k, itens[m])
      BY <1>1, <2>4 DEF IsTable, Folded, Taken
    <3> HIDE DEF m
    <3>3. Merged(f[u], g, k, itens, u)
      BY <2>2, <3>1
    <3>4. Merged(MergeItem(f[u], k, itens[m]), g, k, itens, u \cup {m})
      <4> HIDE DEF u
      <4>1. u \in SUBSET DOMAIN itens /\ m \in DOMAIN itens \ u
        BY <3>1 DEF u
      <4> QED BY <3>3, <4>1, ItemMerged
    <3>5. u \cup {m} = s
      BY <3>1
    <3> QED BY <3>2, <3>4, <3>5
  <2> QED BY <2>3, <2>4
<1> QED
  BY <1>1, <1>2

-----------------------------------------------------------------------------
(* What the other steps leave, and the whole transaction.                     *)
\* A nota has an issuer and one recipient or none, with their CNPJs.
HasCompanies(inv) ==
    /\ "cnpj" \in DOMAIN inv.emitente
    /\ inv.destinatario = << >> \/ \E e : inv.destinatario = <<e>> /\ "cnpj" \in DOMAIN e
\* A company is merged by its CNPJ.
Named(emp) == \A c \in DOMAIN emp : emp[c].cnpj = c
\* The labels and edge types of the graph.
Fields == {"nf", "emp", "prod", "ncm", "cfop", "classificado", "usaCfop", "contem", "emitiu",
           "destinada", "devolve", "raw", "eventos"}

\* They are those the migrations leave.
LEMMA ShapeIs == \A g : HasShape(g) <=> DOMAIN g = Fields
BY DEF HasShape, EmptyGraph, Fields

\* An upsert adds its key and no other.
LEMMA UpsertDomain ==
  ASSUME NEW f, NEW k, NEW props
  PROVE  DOMAIN Upsert(f, k, props) = DOMAIN f \cup {k}
BY UpsertIs

\* A company that is merged keeps or gets its CNPJ.
LEMMA UpsertNames ==
  ASSUME NEW emp, Named(emp), NEW props, "cnpj" \in DOMAIN props
  PROVE  Named(Upsert(emp, props.cnpj, props))
<1> DEFINE c == props.cnpj
           r == Upsert(emp, c, props)
<1>1. /\ DOMAIN r = DOMAIN emp \cup {c}
      /\ \A x \in DOMAIN emp : x # c => r[x] = emp[x]
      /\ r[c] = IF c \in DOMAIN emp THEN Over(props, emp[c]) ELSE props
  <2> SUFFICES ASSUME NEW k
               PROVE  /\ DOMAIN Upsert(emp, k, props) = DOMAIN emp \cup {k}
                      /\ \A x \in DOMAIN emp : x # k => Upsert(emp, k, props)[x] = emp[x]
                      /\ Upsert(emp, k, props)[k] = IF k \in DOMAIN emp THEN Over(props, emp[k]) ELSE props
                      /\ IsFunction(Upsert(emp, k, props))
    OBVIOUS
  <2> QED BY UpsertIs
<1>2. Over(props, emp[c]).cnpj = c
  BY DEF Over
<1> HIDE DEF r
<1>3. r[c].cnpj = c
  BY <1>1, <1>2
<1>4. Named(r)
  BY <1>1, <1>3 DEF Named
<1> QED BY <1>4 DEF r

\* Steps 1 to 5 of mergeInvoice: the nota, its companies and its edges to them.
LEMMA HeaderIs ==
  ASSUME NEW g, NEW inv, NEW xml, HasShape(g), HasCompanies(inv)
  PROVE  LET h == MergeHeader(g, inv, xml)
             k == inv.nota.chaveAcesso
         IN  /\ HasShape(h)
             /\ h.nf = Upsert(g.nf, k, SerializeInvoice(inv))
             /\ DOMAIN h.emp = DOMAIN g.emp \cup {inv.emitente.cnpj} \cup {e.cnpj : e \in ToSet(inv.destinatario)}
             /\ Named(g.emp) => Named(h.emp)
             /\ h.emitiu = g.emitiu \cup {<<inv.emitente.cnpj, k>>}
             /\ h.destinada = g.destinada \cup {<<k, e.cnpj>> : e \in ToSet(inv.destinatario)}
             /\ h.contem = g.contem /\ h.classificado = g.classificado /\ h.usaCfop = g.usaCfop
             /\ h.devolve = g.devolve /\ h.eventos = g.eventos
<1> DEFINE k == inv.nota.chaveAcesso
           emp1 == Upsert(g.emp, inv.emitente.cnpj, inv.emitente)
           dest == inv.destinatario[1]
           some == inv.destinatario # << >>
           emp2 == IF some THEN Upsert(emp1, dest.cnpj, dest) ELSE emp1
           nf == Upsert(g.nf, k, SerializeInvoice(inv))
           raw == (k :> [xml |-> xml]) @@ g.raw
           dests == IF some THEN g.destinada \cup {<<k, dest.cnpj>>} ELSE g.destinada
           h == MergeHeader(g, inv, xml)
<1>1. h = [g EXCEPT !.emp = emp2, !.nf = nf, !.raw = raw,
                    !.emitiu = @ \cup {<<inv.emitente.cnpj, k>>}, !.destinada = dests]
  BY DEF MergeHeader
<1>2. ToSet(inv.destinatario) = IF some THEN {dest} ELSE {}
  <2>1. CASE inv.destinatario = << >>
    BY <2>1 DEF ToSet
  <2>2. ASSUME NEW e, inv.destinatario = <<e>> PROVE ToSet(inv.destinatario) = IF some THEN {dest} ELSE {}
    BY <2>2 DEF ToSet
  <2> QED BY <2>1, <2>2 DEF HasCompanies
<1>3. DOMAIN emp2 = DOMAIN g.emp \cup {inv.emitente.cnpj} \cup {e.cnpj : e \in ToSet(inv.destinatario)}
  <2>1. DOMAIN emp1 = DOMAIN g.emp \cup {inv.emitente.cnpj}
    BY UpsertDomain
  <2> HIDE DEF emp1, dest, some
  <2>2. DOMAIN Upsert(emp1, dest.cnpj, dest) = DOMAIN emp1 \cup {dest.cnpj}
    BY UpsertDomain
  <2> QED BY <1>2, <2>1, <2>2
<1>4. dests = g.destinada \cup {<<k, e.cnpj>> : e \in ToSet(inv.destinatario)}
  <2> HIDE DEF some, dest
  <2> QED BY <1>2
<1>8. ASSUME Named(g.emp) PROVE Named(emp2)
  <2>1. Named(emp1)
    BY <1>8, UpsertNames DEF HasCompanies
  <2>2. some => "cnpj" \in DOMAIN dest
    BY DEF HasCompanies
  <2> HIDE DEF emp1, dest, some
  <2> QED BY <2>1, <2>2, UpsertNames
<1> HIDE DEF emp2, nf, raw, dests, h
<1>5. DOMAIN g = Fields
  BY ShapeIs
<1>6. DOMAIN h = Fields
  BY <1>1, <1>5
<1>7. /\ h.emp = emp2 /\ h.nf = nf /\ h.destinada = dests
      /\ h.emitiu = g.emitiu \cup {<<inv.emitente.cnpj, k>>}
      /\ h.contem = g.contem /\ h.classificado = g.classificado /\ h.usaCfop = g.usaCfop
      /\ h.devolve = g.devolve /\ h.eventos = g.eventos
  BY <1>1, <1>5 DEF Fields
<1> QED
  BY <1>3, <1>4, <1>6, <1>7, <1>8, ShapeIs DEF nf, h

\* Step 7: an import event, unless the nota has one.
LEMMA EventIs ==
  ASSUME NEW g, NEW k, NEW now, HasShape(g)
  PROVE  LET h == MergeEvent(g, k, now)
             due == ~\E e \in g.eventos : e.chave = k /\ e.tipo = "importada"
         IN  /\ HasShape(h)
             /\ h.nf = g.nf /\ h.emp = g.emp /\ h.emitiu = g.emitiu /\ h.destinada = g.destinada
             /\ h.contem = g.contem /\ h.classificado = g.classificado /\ h.usaCfop = g.usaCfop
             /\ h.devolve = g.devolve
             /\ h.eventos = g.eventos \cup
                    (IF due THEN {[chave |-> k, tipo |-> "importada", timestamp |-> now]} ELSE {})
<1> DEFINE due == ~\E e \in g.eventos : e.chave = k /\ e.tipo = "importada"
           one == [chave |-> k, tipo |-> "importada", timestamp |-> now]
           h == MergeEvent(g, k, now)
<1>1. h = IF due THEN [g EXCEPT !.eventos = @ \cup {one}] ELSE g
  BY DEF MergeEvent
<1> HIDE DEF due, one, h
<1>2. DOMAIN g = Fields
  BY ShapeIs
<1>3. DOMAIN h = Fields
  BY <1>1, <1>2
<1>4. /\ h.nf = g.nf /\ h.emp = g.emp /\ h.emitiu = g.emitiu /\ h.destinada = g.destinada
      /\ h.contem = g.contem /\ h.classificado = g.classificado /\ h.usaCfop = g.usaCfop
      /\ h.devolve = g.devolve
      /\ h.eventos = g.eventos \cup (IF due THEN {one} ELSE {})
  BY <1>1, <1>2 DEF Fields
<1> QED
  BY <1>3, <1>4, ShapeIs DEF due, one, h

\* Step 8: a nota that is there stays as it is, a missing origin becomes a stub.
LEMMA ReferencesIs ==
  ASSUME NEW g, NEW inv, HasShape(g)
  PROVE  LET h == MergeReferences(g, inv)
         IN  /\ HasShape(h)
             /\ DOMAIN h.nf = DOMAIN g.nf \cup Origins(inv)
             /\ \A x \in DOMAIN g.nf : h.nf[x] = g.nf[x]
             /\ \A x \in Origins(inv) \ DOMAIN g.nf : h.nf[x] = [chaveAcesso |-> x]
             /\ h.emp = g.emp /\ h.emitiu = g.emitiu /\ h.destinada = g.destinada
             /\ h.contem = g.contem /\ h.classificado = g.classificado /\ h.usaCfop = g.usaCfop
             /\ h.devolve = g.devolve \cup {<<inv.nota.chaveAcesso, x>> : x \in Origins(inv)}
             /\ h.eventos = g.eventos
<1> DEFINE stubs == [r \in Origins(inv) |-> [chaveAcesso |-> r]]
           nf == Over(g.nf, stubs)
           devolve == g.devolve \cup {<<inv.nota.chaveAcesso, x>> : x \in Origins(inv)}
           h == MergeReferences(g, inv)
<1>1. h = [g EXCEPT !.nf = nf, !.devolve = devolve]
  BY DEF MergeReferences, Origins
<1>2. /\ DOMAIN nf = DOMAIN g.nf \cup Origins(inv)
      /\ \A x \in DOMAIN g.nf : nf[x] = g.nf[x]
      /\ \A x \in Origins(inv) \ DOMAIN g.nf : nf[x] = [chaveAcesso |-> x]
  BY DEF Over
<1> HIDE DEF nf, devolve, h
<1>3. DOMAIN g = Fields
  BY ShapeIs
<1>4. DOMAIN h = Fields
  BY <1>1, <1>3
<1>5. /\ h.nf = nf /\ h.emp = g.emp /\ h.emitiu = g.emitiu /\ h.destinada = g.destinada
      /\ h.contem = g.contem /\ h.classificado = g.classificado /\ h.usaCfop = g.usaCfop
      /\ h.devolve = devolve /\ h.eventos = g.eventos
  BY <1>1, <1>3 DEF Fields
<1> QED
  BY <1>2, <1>4, <1>5, ShapeIs DEF devolve, h

\* What the transaction leaves of a graph g, for a nota with the properties ser.
Extends(r, g, inv, ser, now) ==
    LET k == inv.nota.chaveAcesso
        itens == inv.itens
    IN  /\ HasShape(r)
        /\ DOMAIN r.nf = DOMAIN g.nf \cup {k} \cup Origins(inv)
        /\ \A x \in DOMAIN g.nf : x # k => r.nf[x] = g.nf[x]
        /\ \A x \in Origins(inv) \ DOMAIN g.nf : r.nf[x] = [chaveAcesso |-> x]
        /\ r.nf[k] = IF k \in DOMAIN g.nf THEN Over(ser, g.nf[k]) ELSE ser
        /\ DOMAIN r.emp = DOMAIN g.emp \cup {inv.emitente.cnpj} \cup {e.cnpj : e \in ToSet(inv.destinatario)}
        /\ Named(g.emp) => Named(r.emp)
        /\ r.emitiu = g.emitiu \cup {<<inv.emitente.cnpj, k>>}
        /\ r.destinada = g.destinada \cup {<<k, e.cnpj>> : e \in ToSet(inv.destinatario)}
        /\ r.devolve = g.devolve \cup {<<k, x>> : x \in Origins(inv)}
        /\ r.classificado = g.classificado \cup {<<itens[m].produto.idUnico, itens[m].ncm>> : m \in DOMAIN itens}
        /\ r.usaCfop = g.usaCfop \cup {<<k, itens[m].cfop>> : m \in DOMAIN itens}
        /\ DOMAIN r.contem = DOMAIN g.contem \cup {Contained(k, itens[m]) : m \in DOMAIN itens}
        /\ IsFunction(r.contem)
        /\ \A c \in DOMAIN g.contem : r.contem[c] = g.contem[c]
        /\ \A m \in DOMAIN itens : r.contem[Contained(k, itens[m])] = itens[m].contem
        /\ r.eventos = g.eventos \cup
               (IF \E e \in g.eventos : e.chave = k /\ e.tipo = "importada" THEN {}
                ELSE {[chave |-> k, tipo |-> "importada", timestamp |-> now]})

\* mergeInvoice leaves exactly that.
LEMMA MergeInvoiceIs ==
  ASSUME NEW g, NEW inv, NEW xml, NEW now, NEW n \in Nat, DOMAIN inv.itens = 1 .. n,
         HasShape(g), IsFunction(g.contem), HasCompanies(inv), NumberedApart(inv.itens),
         Agrees(g.contem, inv.nota.chaveAcesso, inv.itens)
  PROVE  Extends(MergeInvoice(g, inv, xml, now), g, inv, SerializeInvoice(inv), now)
<1> DEFINE k == inv.nota.chaveAcesso
           itens == inv.itens
           g1 == MergeHeader(g, inv, xml)
           g2 == MergeItems(g1, k, itens)
           g3 == MergeEvent(g2, k, now)
           r == MergeInvoice(g, inv, xml, now)
           due(h) == ~\E e \in h.eventos : e.chave = k /\ e.tipo = "importada"
           one == [chave |-> k, tipo |-> "importada", timestamp |-> now]
           kept == Upsert(g.nf, k, SerializeInvoice(inv))
<1>1. /\ HasShape(g1)
      /\ g1.nf = kept
      /\ DOMAIN g1.emp = DOMAIN g.emp \cup {inv.emitente.cnpj} \cup {e.cnpj : e \in ToSet(inv.destinatario)}
      /\ Named(g.emp) => Named(g1.emp)
      /\ g1.emitiu = g.emitiu \cup {<<inv.emitente.cnpj, k>>}
      /\ g1.destinada = g.destinada \cup {<<k, e.cnpj>> : e \in ToSet(inv.destinatario)}
      /\ g1.contem = g.contem /\ g1.classificado = g.classificado /\ g1.usaCfop = g.usaCfop
      /\ g1.devolve = g.devolve /\ g1.eventos = g.eventos
  BY HeaderIs
<1>2. /\ DOMAIN kept = DOMAIN g.nf \cup {k}
      /\ \A x \in DOMAIN g.nf : x # k => kept[x] = g.nf[x]
      /\ kept[k] = IF k \in DOMAIN g.nf THEN Over(SerializeInvoice(inv), g.nf[k]) ELSE SerializeInvoice(inv)
  <2> DEFINE ser == SerializeInvoice(inv)
             nf == g.nf
  <2> HIDE DEF ser, nf, k
  <2>1. /\ DOMAIN Upsert(nf, k, ser) = DOMAIN nf \cup {k}
        /\ \A x \in DOMAIN nf : x # k => Upsert(nf, k, ser)[x] = nf[x]
        /\ Upsert(nf, k, ser)[k] = IF k \in DOMAIN nf THEN Over(ser, nf[k]) ELSE ser
        /\ IsFunction(Upsert(nf, k, ser))
    BY UpsertIs
  <2>2. kept = Upsert(nf, k, ser)
    BY DEF ser, nf
  <2> HIDE DEF kept, g1, g2, g3, r
  <2> QED BY <2>1, <2>2 DEF ser, nf
<1> HIDE DEF g1, kept
<1>3. Merged(g2, g1, k, itens, DOMAIN itens)
  BY <1>1, ItemsMerged
<1> HIDE DEF g2
<1>4. /\ HasShape(g3)
      /\ g3.nf = g2.nf /\ g3.emp = g2.emp /\ g3.emitiu = g2.emitiu /\ g3.destinada = g2.destinada
      /\ g3.contem = g2.contem /\ g3.classificado = g2.classificado /\ g3.usaCfop = g2.usaCfop
      /\ g3.devolve = g2.devolve
      /\ g3.eventos = g2.eventos \cup (IF due(g2) THEN {one} ELSE {})
  BY <1>3, EventIs DEF Merged
<1>5. r = MergeReferences(g3, inv)
  BY DEF MergeInvoice, g1, g2
<1> HIDE DEF g3
<1>6. LET h == MergeReferences(g3, inv)
      IN  /\ HasShape(h)
          /\ DOMAIN h.nf = DOMAIN g3.nf \cup Origins(inv)
          /\ \A x \in DOMAIN g3.nf : h.nf[x] = g3.nf[x]
          /\ \A x \in Origins(inv) \ DOMAIN g3.nf : h.nf[x] = [chaveAcesso |-> x]
          /\ h.emp = g3.emp /\ h.emitiu = g3.emitiu /\ h.destinada = g3.destinada
          /\ h.contem = g3.contem /\ h.classificado = g3.classificado /\ h.usaCfop = g3.usaCfop
          /\ h.devolve = g3.devolve \cup {<<k, x>> : x \in Origins(inv)}
          /\ h.eventos = g3.eventos
  BY <1>4, ReferencesIs
<1> HIDE DEF r
<1>7. /\ HasShape(r)
      /\ DOMAIN r.nf = DOMAIN g3.nf \cup Origins(inv)
      /\ \A x \in DOMAIN g3.nf : r.nf[x] = g3.nf[x]
      /\ \A x \in Origins(inv) \ DOMAIN g3.nf : r.nf[x] = [chaveAcesso |-> x]
      /\ r.emp = g3.emp /\ r.emitiu = g3.emitiu /\ r.destinada = g3.destinada
      /\ r.contem = g3.contem /\ r.classificado = g3.classificado /\ r.usaCfop = g3.usaCfop
      /\ r.devolve = g3.devolve \cup {<<k, x>> : x \in Origins(inv)}
      /\ r.eventos = g3.eventos
  BY <1>5, <1>6
<1>8. g3.nf = kept /\ k \notin Origins(inv)
  BY <1>1, <1>3, <1>4 DEF Merged, Origins
<1>9. /\ DOMAIN r.nf = DOMAIN g.nf \cup {k} \cup Origins(inv)
      /\ \A x \in DOMAIN g.nf : x # k => r.nf[x] = g.nf[x]
      /\ \A x \in Origins(inv) \ DOMAIN g.nf : r.nf[x] = [chaveAcesso |-> x]
      /\ r.nf[k] = IF k \in DOMAIN g.nf THEN Over(SerializeInvoice(inv), g.nf[k]) ELSE SerializeInvoice(inv)
  BY <1>2, <1>7, <1>8
<1>10. /\ DOMAIN r.emp = DOMAIN g.emp \cup {inv.emitente.cnpj} \cup {e.cnpj : e \in ToSet(inv.destinatario)}
       /\ Named(g.emp) => Named(r.emp)
       /\ r.emitiu = g.emitiu \cup {<<inv.emitente.cnpj, k>>}
       /\ r.destinada = g.destinada \cup {<<k, e.cnpj>> : e \in ToSet(inv.destinatario)}
       /\ r.devolve = g.devolve \cup {<<k, x>> : x \in Origins(inv)}
  BY <1>1, <1>3, <1>4, <1>7 DEF Merged
<1>11. /\ r.classificado = g.classificado \cup {<<itens[m].produto.idUnico, itens[m].ncm>> : m \in DOMAIN itens}
       /\ r.usaCfop = g.usaCfop \cup {<<k, itens[m].cfop>> : m \in DOMAIN itens}
  BY <1>1, <1>3, <1>4, <1>7 DEF Merged
<1>12. /\ DOMAIN r.contem = DOMAIN g.contem \cup {Contained(k, itens[m]) : m \in DOMAIN itens}
       /\ IsFunction(r.contem)
       /\ \A c \in DOMAIN g.contem : r.contem[c] = g.contem[c]
       /\ \A m \in DOMAIN itens : r.contem[Contained(k, itens[m])] = itens[m].contem
  <2>1. r.contem = g2.contem /\ g1.contem = g.contem
    BY <1>1, <1>4, <1>7
  <2> QED BY <1>3, <2>1 DEF Merged
<1>13. r.eventos = g.eventos \cup (IF \E e \in g.eventos : e.chave = k /\ e.tipo = "importada" THEN {} ELSE {one})
  <2>1. g2.eventos = g.eventos
    BY <1>1, <1>3 DEF Merged
  <2> QED BY <1>4, <1>7, <2>1
<1> QED
  BY <1>7, <1>9, <1>10, <1>11, <1>12, <1>13 DEF r, Extends

-----------------------------------------------------------------------------
(* What a document says, whenever it is parsed.                               *)
\* Two records that differ in one field at most.
Apart(a, b, p) == DOMAIN a = DOMAIN b /\ \A x \in DOMAIN a : x # p => a[x] = b[x]

\* They still do when the same properties are added to both.
LEMMA OverApart ==
  ASSUME NEW a, NEW b, NEW p, NEW rest, Apart(a, b, p)
  PROVE  Apart(Over(a, rest), Over(b, rest), p)
BY DEF Apart, Over

\* A company has a CNPJ, '' when the document has none.
LEMMA CompanyHasCnpj ==
  ASSUME NEW e, NEW isEmit
  PROVE  "cnpj" \in DOMAIN ParseCompany(e, isEmit)
<1> DEFINE ender == Child(e, IF Child(e, "enderEmit") # None THEN "enderEmit" ELSE "enderDest")
           regime == IF isEmit THEN MapRegime(Text(e, "CRT")) ELSE Absent
           own == [cnpj |-> Or(Text(e, "CNPJ"), Or(Text(e, "CPF"), "")),
                   razaoSocial |-> Or(Text(e, "xNome"), ""),
                   uf |-> Or(Text(ender, "UF"), ""), municipio |-> Or(Text(ender, "xMun"), "")]
           rest == Present(e, [xFant |-> "nomeFantasia", IE |-> "ie", IM |-> "im", CNAE |-> "cnae"])
                   @@ Present(ender, [CEP |-> "cep", xLgr |-> "logradouro", nro |-> "numero"])
                   @@ (IF regime = Absent THEN << >> ELSE [regimeTributario |-> regime])
<1>1. ParseCompany(e, isEmit) = Over(own, rest)
  BY DEF ParseCompany
<1>2. "cnpj" \in DOMAIN own
  OBVIOUS
<1> HIDE DEF own, rest
<1> QED BY <1>1, <1>2 DEF Over

\* The properties every nota has.
Header == {"chaveAcesso", "numero", "serie", "dataEmissao", "dataSaida", "valorTotal", "status", "tipoNF",
           "finalidade"}

\* Parsed at another instant, an accepted document gives the same nota but for importadaEm.  It
\* is there that dhEmi is needed: without it the parser takes the instant as the date.
LEMMA ParseIs ==
  ASSUME NEW S, AreNotas(S), NEW d \in S, NEW t
  PROVE  LET i == Invoice(d)
             p == ParseNFe(d, t)
             s == SerializeInvoice(p)
         IN  /\ p.nota.chaveAcesso = i.nota.chaveAcesso /\ p.nota.finalidade = i.nota.finalidade
             /\ p.emitente = i.emitente /\ p.destinatario = i.destinatario
             /\ p.itens = i.itens /\ p.referencias = i.referencias
             /\ HasCompanies(p)
             /\ \A n \in DOMAIN i.itens : IsFunction(i.itens[n].contem)
             /\ Omit(s, "importadaEm") = Omit(SerializeInvoice(i), "importadaEm")
             /\ {"status", "chaveAcesso"} \subseteq DOMAIN s
             /\ Header \subseteq DOMAIN i.nota
<1> DEFINE inf == InfOf(d)
           ide == Child(inf, "ide")
           emit == Child(inf, "emit")
           dest == Child(inf, "dest")
           tot == Child(inf, "total")
           dets == Children(inf, "det")
           cnpj == Or(Text(emit, "CNPJ"), "")
           em == Text(ide, "dhEmi")
           id == Text(inf, "@_Id")
           rest == Present(ide, [natOp |-> "naturezaOp", indFinal |-> "indFinal", indPres |-> "indPres"])
                   @@ Present(Child(inf, "infAdic"), Same({"infCpl", "infAdFisco"}))
           numero == Or(Text(ide, "nNF"), "")
           serie == Or(Text(ide, "serie"), "")
           saida == Text(ide, "dhSaiEnt")
           valor == Or(Text(Child(tot, "ICMSTot"), "vNF"), 0)
           tipo == MapTipoNF(Text(ide, "tpNF"))
           fin == MapFinalidade(Text(ide, "finNFe"))
           head(u) == [chaveAcesso |-> id, numero |-> numero, serie |-> serie,
                       dataEmissao |-> Or(em, u), dataSaida |-> Or(saida, Or(em, u)),
                       valorTotal |-> valor, status |-> "ativa", tipoNF |-> tipo, finalidade |-> fin,
                       importadaEm |-> u]
           emitente == ParseCompany(emit, TRUE)
           some == IsObj(dest)
           company == ParseCompany(dest, FALSE)
           destinatario == IF some THEN <<company>> ELSE << >>
           item(n) == ParseItem(dets[n], cnpj)
           itens == [n \in DOMAIN dets |-> item(n)]
           totais == ExtractTotals(tot)
           refs == ExtractReferences(ide)
           out(u) == [ok |-> TRUE, nota |-> Over(head(u), rest), emitente |-> emitente,
                      destinatario |-> destinatario, itens |-> itens, totais |-> totais,
                      referencias |-> refs]
           bad == ~IsObj(inf) \/ id \notin AccessKeys
<1>1. \A u : ParseNFe(d, u) = IF bad THEN [ok |-> FALSE] ELSE out(u)
  BY DEF ParseNFe, ParseInf
<1>2. em # Absent
  BY DEF AreNotas
<1>3. \A n \in DOMAIN itens : IsFunction(itens[n].contem)
  <2>1. \A n \in DOMAIN dets : IsFunction(item(n).contem)
    BY DEF ParseItem, Over, IsFunction
  <2> HIDE DEF item, dets
  <2> QED BY <2>1
<1>4. /\ "cnpj" \in DOMAIN emitente
      /\ destinatario = << >> \/ \E e : destinatario = <<e>> /\ "cnpj" \in DOMAIN e
  <2>1. "cnpj" \in DOMAIN emitente /\ "cnpj" \in DOMAIN company
    BY CompanyHasCnpj
  <2> HIDE DEF company, some, emitente
  <2> QED BY <2>1
<1> HIDE DEF inf, ide, emit, dest, tot, dets, cnpj, em, id, rest, numero, serie, saida, valor, tipo, fin,
             emitente, destinatario, itens, totais, refs, bad, some, company
<1>5. ~bad
  <2> SUFFICES ASSUME bad PROVE FALSE
    OBVIOUS
  <2>1. Invoice(d) = [ok |-> FALSE] /\ Invoice(d).ok
    BY <1>1 DEF Invoice, AreNotas
  <2> QED BY <2>1
<1>6. Invoice(d) = out(0) /\ ParseNFe(d, t) = out(t)
  BY <1>1, <1>5 DEF Invoice
<1>7. Apart(head(t), head(0), "importadaEm")
  <2>1. Or(em, t) = em /\ Or(em, 0) = em
    BY <1>2 DEF Or
  <2> DEFINE saiu == Or(saida, em)
  <2>2. /\ head(t) = [chaveAcesso |-> id, numero |-> numero, serie |-> serie,
                       dataEmissao |-> em, dataSaida |-> saiu, valorTotal |-> valor, status |-> "ativa",
                       tipoNF |-> tipo, finalidade |-> fin, importadaEm |-> t]
        /\ head(0) = [chaveAcesso |-> id, numero |-> numero, serie |-> serie,
                       dataEmissao |-> em, dataSaida |-> saiu, valorTotal |-> valor, status |-> "ativa",
                       tipoNF |-> tipo, finalidade |-> fin, importadaEm |-> 0]
    BY <2>1
  <2> HIDE DEF saiu, head
  <2> QED BY <2>2 DEF Apart
<1>8. \A u : Header \subseteq DOMAIN head(u)
             /\ head(u).chaveAcesso = id /\ head(u).finalidade = fin
  BY DEF Header
<1> HIDE DEF head
<1> DEFINE nota(u) == Over(head(u), rest)
           ser(u) == Over(nota(u), [totais |-> totais])
<1>9. \A u : Header \subseteq DOMAIN nota(u)
             /\ nota(u).chaveAcesso = id /\ nota(u).finalidade = fin
  BY <1>8 DEF Over, Header
<1>10. \A u : {"status", "chaveAcesso"} \subseteq DOMAIN ser(u)
  BY <1>9 DEF Over, Header
<1>11. Omit(ser(t), "importadaEm") = Omit(ser(0), "importadaEm")
  <2>1. Apart(nota(t), nota(0), "importadaEm")
    BY <1>7, OverApart
  <2> HIDE DEF nota
  <2>2. Apart(ser(t), ser(0), "importadaEm")
    BY <2>1, OverApart
  <2> HIDE DEF ser
  <2> QED BY <2>2 DEF Omit, Apart
<1>12. \A u : out(u) = [ok |-> TRUE, nota |-> nota(u), emitente |-> emitente, destinatario |-> destinatario,
                        itens |-> itens, totais |-> totais, referencias |-> refs]
  OBVIOUS
<1> HIDE DEF nota, out
<1>13. \A u : /\ out(u).nota = nota(u) /\ out(u).emitente = emitente /\ out(u).destinatario = destinatario
              /\ out(u).itens = itens /\ out(u).referencias = refs /\ out(u).totais = totais
  BY <1>12
<1>14. \A u : SerializeInvoice(out(u)) = ser(u)
  BY <1>13 DEF SerializeInvoice
<1> HIDE DEF ser
<1> QED
  BY <1>3, <1>4, <1>6, <1>9, <1>10, <1>11, <1>13, <1>14 DEF HasCompanies

-----------------------------------------------------------------------------
(* The graph of a set of documents.                                           *)
\* The access keys of some documents, and the edges of the items of one.
Keys(M) == {Key(d) : d \in M}
ItemKeys(d) == {Contained(Key(d), Invoice(d).itens[n]) : n \in DOMAIN Invoice(d).itens}
\* g is the graph of the documents M: IInv of one graph and one set of documents.
Holds(g, M) ==
    /\ HasShape(g)
    /\ \A x \in DOMAIN g.nf : "status" \notin DOMAIN g.nf[x] => DOMAIN g.nf[x] = {"chaveAcesso"}
    /\ {x \in DOMAIN g.nf : "status" \in DOMAIN g.nf[x]} = Keys(M)
    /\ DOMAIN g.nf = Keys(M) \cup UNION {Origins(Invoice(d)) : d \in M}
    /\ \A d \in M : Omit(g.nf[Key(d)], "importadaEm") = Omit(SerializeInvoice(Invoice(d)), "importadaEm")
    /\ DOMAIN g.contem = UNION {ItemKeys(d) : d \in M}
    /\ IsFunction(g.contem)
    /\ \A d \in M : \A n \in DOMAIN Invoice(d).itens :
           g.contem[Contained(Key(d), Invoice(d).itens[n])] = Invoice(d).itens[n].contem
    /\ g.classificado = UNION {{<<Invoice(d).itens[n].produto.idUnico, Invoice(d).itens[n].ncm>> :
                                   n \in DOMAIN Invoice(d).itens} : d \in M}
    /\ g.usaCfop = UNION {{<<Key(d), Invoice(d).itens[n].cfop>> : n \in DOMAIN Invoice(d).itens} : d \in M}
    /\ g.emitiu = {<<Invoice(d).emitente.cnpj, Key(d)>> : d \in M}
    /\ g.destinada = UNION {{<<Key(d), e.cnpj>> : e \in ToSet(Invoice(d).destinatario)} : d \in M}
    /\ g.devolve = UNION {{<<Key(d), o>> : o \in Origins(Invoice(d))} : d \in M}
    /\ DOMAIN g.emp = {Invoice(d).emitente.cnpj : d \in M}
                       \cup UNION {{e.cnpj : e \in ToSet(Invoice(d).destinatario)} : d \in M}
    /\ Named(g.emp)
    /\ IsFiniteSet(g.eventos)
    /\ \A e \in g.eventos : e.tipo = "importada" /\ e.chave \in Keys(M)
    /\ \A x \in Keys(M) : \E e : {f \in g.eventos : f.chave = x} = {e}

\* What a document says of its items is what the graph has of them, when it has them.
LEMMA ItemsAgree ==
  ASSUME NEW g, NEW S, AreNotas(S), NEW M \in SUBSET S, NEW d \in S, Holds(g, M)
  PROVE  Agrees(g.contem, Key(d), Invoice(d).itens)
<1> SUFFICES ASSUME NEW n \in DOMAIN Invoice(d).itens
             PROVE  /\ IsFunction(Invoice(d).itens[n].contem)
                    /\ Contained(Key(d), Invoice(d).itens[n]) \in DOMAIN g.contem =>
                           g.contem[Contained(Key(d), Invoice(d).itens[n])] = Invoice(d).itens[n].contem
  BY DEF Agrees
<1>1. IsFunction(Invoice(d).itens[n].contem)
  BY ParseIs
<1>2. ASSUME Contained(Key(d), Invoice(d).itens[n]) \in DOMAIN g.contem
      PROVE  g.contem[Contained(Key(d), Invoice(d).itens[n])] = Invoice(d).itens[n].contem
  <2>1. PICK b \in M : Contained(Key(d), Invoice(d).itens[n]) \in ItemKeys(b)
    BY <1>2 DEF Holds
  <2>2. PICK m \in DOMAIN Invoice(b).itens :
            Contained(Key(d), Invoice(d).itens[n]) = Contained(Key(b), Invoice(b).itens[m])
    BY <2>1 DEF ItemKeys
  <2>3. g.contem[Contained(Key(b), Invoice(b).itens[m])] = Invoice(b).itens[m].contem
    BY DEF Holds
  <2>4. Key(d) = Key(b) /\ Invoice(d).itens[n].contem.numeroItem = Invoice(b).itens[m].contem.numeroItem
    BY <2>2 DEF Contained
  <2>5. Invoice(b) = Invoice(d)
    BY <2>4 DEF AreNotas
  <2>6. m = n
    BY <2>4, <2>5 DEF AreNotas
  <2> QED BY <2>2, <2>3, <2>5, <2>6
<1> QED
  BY <1>1, <1>2


\* So a merge of the nota parsed at t is a merge of the nota of the document.
LEMMA MergedIs ==
  ASSUME NEW g, NEW S, AreNotas(S), NEW M \in SUBSET S, NEW d \in S, NEW t, NEW xml, Holds(g, M)
  PROVE  Extends(MergeInvoice(g, ParseNFe(d, t), xml, t), g, Invoice(d), SerializeInvoice(ParseNFe(d, t)), t)
<1> DEFINE p == ParseNFe(d, t)
           i == Invoice(d)
           n == Len(i.itens)
<1>1. /\ p.nota.chaveAcesso = i.nota.chaveAcesso /\ p.nota.finalidade = i.nota.finalidade
      /\ p.emitente = i.emitente /\ p.destinatario = i.destinatario
      /\ p.itens = i.itens /\ p.referencias = i.referencias
      /\ HasCompanies(p)
  BY ParseIs
<1>2. n \in Nat /\ DOMAIN i.itens = 1 .. n /\ NumberedApart(i.itens)
  BY DEF NumberedApart, AreNotas
<1>3. Agrees(g.contem, i.nota.chaveAcesso, i.itens) /\ HasShape(g) /\ IsFunction(g.contem)
  BY ItemsAgree DEF Holds, Key
<1> HIDE DEF p, i, n
<1>4. Extends(MergeInvoice(g, p, xml, t), g, p, SerializeInvoice(p), t)
  <2>1. DOMAIN p.itens = 1 .. n
    BY <1>1, <1>2
  <2>2. NumberedApart(p.itens) /\ Agrees(g.contem, p.nota.chaveAcesso, p.itens)
    BY <1>1, <1>2, <1>3
  <2> QED BY <1>1, <1>2, <1>3, <2>1, <2>2, MergeInvoiceIs
<1>5. Origins(p) = Origins(i)
  BY <1>1 DEF Origins
<1>6. Extends(MergeInvoice(g, p, xml, t), g, i, SerializeInvoice(p), t)
  <2> DEFINE r == MergeInvoice(g, p, xml, t)
             ser == SerializeInvoice(p)
  <2>1. Extends(r, g, p, ser, t)
    BY <1>4
  <2> HIDE DEF r, ser
  <2>2. Extends(r, g, i, ser, t)
    BY <1>1, <1>5, <2>1 DEF Extends
  <2> QED BY <2>2 DEF r, ser
<1> QED
  BY <1>6 DEF p, i


\* One transaction takes the graph of M to the graph of M and the document: the nota is new, or
\* a stub, or the same nota merged again.
LEMMA MergeKeeps ==
  ASSUME NEW g, NEW S, AreNotas(S), NEW M \in SUBSET S, NEW d \in S, NEW t, NEW xml, Holds(g, M)
  PROVE  Holds(MergeInvoice(g, ParseNFe(d, t), xml, t), M \cup {d})
<1> DEFINE r == MergeInvoice(g, ParseNFe(d, t), xml, t)
           ser == SerializeInvoice(ParseNFe(d, t))
           N == M \cup {d}
           i == Invoice(d)
           k == Key(d)
<1>1. Extends(r, g, i, ser, t)
  BY MergedIs
<1>2. /\ Omit(ser, "importadaEm") = Omit(SerializeInvoice(i), "importadaEm")
      /\ {"status", "chaveAcesso"} \subseteq DOMAIN ser
  BY ParseIs
<1> HIDE DEF r, ser, i
<1>3. k = i.nota.chaveAcesso /\ i = Invoice(d) /\ k = Key(d)
  BY DEF Key, i
<1>4. k \notin Origins(i)
  BY <1>3 DEF Origins
<1>5. Keys(N) = Keys(M) \cup {k}
  BY DEF Keys
<1> HIDE DEF k
<1>6. \A b \in M : Key(b) = k => Invoice(b) = i
  BY <1>3 DEF AreNotas
<1>7. \A x \in DOMAIN g.nf : x # k => r.nf[x] = g.nf[x]
  BY <1>1, <1>3 DEF Extends
<1>8. \A x \in Origins(i) \ DOMAIN g.nf : r.nf[x] = [chaveAcesso |-> x]
  BY <1>1 DEF Extends
<1>9. r.nf[k] = IF k \in DOMAIN g.nf THEN Over(ser, g.nf[k]) ELSE ser
  BY <1>1, <1>3 DEF Extends
<1>10. DOMAIN r.nf = DOMAIN g.nf \cup {k} \cup Origins(i)
  BY <1>1, <1>3 DEF Extends
<1>11. "status" \in DOMAIN r.nf[k]
  BY <1>2, <1>9 DEF Over
<1>12. \A x \in Origins(i) \ DOMAIN g.nf : DOMAIN r.nf[x] = {"chaveAcesso"} /\ x # k
  BY <1>4, <1>8
<1>13. \A x \in DOMAIN r.nf : "status" \notin DOMAIN r.nf[x] => DOMAIN r.nf[x] = {"chaveAcesso"}
  BY <1>7, <1>10, <1>11, <1>12 DEF Holds
<1>14. {x \in DOMAIN r.nf : "status" \in DOMAIN r.nf[x]} = Keys(N)
  <2>1. {x \in DOMAIN g.nf : "status" \in DOMAIN g.nf[x]} = Keys(M)
    BY DEF Holds
  <2>2. ASSUME NEW x \in DOMAIN r.nf PROVE "status" \in DOMAIN r.nf[x] <=> x \in Keys(N)
    <3>1. CASE x = k
      BY <1>5, <1>11, <3>1
    <3>2. CASE x # k /\ x \in DOMAIN g.nf
      BY <1>5, <1>7, <2>1, <3>2
    <3>3. CASE x # k /\ x \notin DOMAIN g.nf
      <4>1. "status" \notin DOMAIN r.nf[x]
        BY <1>10, <1>12, <3>3
      <4>2. x \notin Keys(M)
        BY <2>1, <3>3
      <4> QED BY <1>5, <3>3, <4>1, <4>2
    <3> QED BY <3>1, <3>2, <3>3
  <2>3. Keys(N) \subseteq DOMAIN r.nf
    BY <1>5, <1>10, <2>1
  <2> QED BY <2>2, <2>3
<1>15. DOMAIN r.nf = Keys(N) \cup UNION {Origins(Invoice(b)) : b \in N}
  <2>1. DOMAIN g.nf = Keys(M) \cup UNION {Origins(Invoice(b)) : b \in M}
    BY DEF Holds
  <2> DEFINE Of(b) == Origins(Invoice(b))
             ks == Keys(M)
  <2>2. Keys(N) = ks \cup {k}
    BY <1>5
  <2>3. DOMAIN g.nf = ks \cup UNION {Of(b) : b \in M}
    BY <2>1
  <2>4. DOMAIN r.nf = DOMAIN g.nf \cup {k} \cup Of(d)
    BY <1>3, <1>10
  <2> HIDE DEF Of, ks
  <2>5. DOMAIN r.nf = (ks \cup {k}) \cup UNION {Of(b) : b \in N}
    BY <2>3, <2>4
  <2>6. DOMAIN r.nf = Keys(N) \cup UNION {Of(b) : b \in N}
    <3> HIDE DEF N
    <3> QED BY <2>2, <2>5
  <2> QED BY <2>6 DEF Of
<1>16. \A b \in N : Omit(r.nf[Key(b)], "importadaEm") = Omit(SerializeInvoice(Invoice(b)), "importadaEm")
  <2>1. Omit(r.nf[k], "importadaEm") = Omit(SerializeInvoice(i), "importadaEm")
    <3>1. CASE k \notin DOMAIN g.nf
      BY <1>2, <1>9, <3>1
    <3>2. CASE k \in DOMAIN g.nf
      <4> DEFINE old == g.nf[k]
      <4>1. (DOMAIN old) \ {"importadaEm"} \subseteq DOMAIN ser
        <5>1. CASE "status" \notin DOMAIN old
          <6>1. DOMAIN old = {"chaveAcesso"}
            BY <3>2, <5>1 DEF Holds
          <6> QED BY <1>2, <6>1
        <5>2. CASE "status" \in DOMAIN old
          <6>1. k \in Keys(M)
            BY <3>2, <5>2 DEF Holds
          <6>2. PICK b \in M : Key(b) = k
            BY <6>1 DEF Keys
          <6>3. Omit(old, "importadaEm") = Omit(SerializeInvoice(i), "importadaEm")
            BY <1>6, <6>2 DEF Holds
          <6>4. DOMAIN Omit(old, "importadaEm") = (DOMAIN old) \ {"importadaEm"}
            BY DEF Omit
          <6>5. DOMAIN Omit(ser, "importadaEm") = (DOMAIN ser) \ {"importadaEm"}
            BY DEF Omit
          <6> QED BY <1>2, <6>3, <6>4, <6>5
        <5> QED BY <5>1, <5>2
      <4> HIDE DEF old
      <4>2. Omit(Over(ser, old), "importadaEm") = Omit(ser, "importadaEm")
        BY <4>1 DEF Omit, Over
      <4> QED BY <1>2, <1>9, <3>2, <4>2 DEF old
    <3> QED BY <3>1, <3>2
  <2>2. ASSUME NEW b \in M
        PROVE  Omit(r.nf[Key(b)], "importadaEm") = Omit(SerializeInvoice(Invoice(b)), "importadaEm")
    <3>1. CASE Key(b) = k
      BY <1>6, <2>1, <3>1
    <3>2. CASE Key(b) # k
      <4>1. Key(b) \in DOMAIN g.nf
        BY DEF Holds, Keys
      <4>2. r.nf[Key(b)] = g.nf[Key(b)]
        BY <1>7, <3>2, <4>1
      <4> QED BY <4>2 DEF Holds
    <3> QED BY <3>1, <3>2
  <2> QED BY <1>3, <2>1, <2>2
<1>17. DOMAIN r.contem = UNION {ItemKeys(b) : b \in N}
  <2>1. DOMAIN r.contem = DOMAIN g.contem \cup ItemKeys(d)
    BY <1>1, <1>3 DEF Extends, ItemKeys
  <2> QED BY <2>1 DEF Holds
<1>18. IsFunction(r.contem)
  BY <1>1 DEF Extends
<1>19. \A b \in N : \A n \in DOMAIN Invoice(b).itens :
           r.contem[Contained(Key(b), Invoice(b).itens[n])] = Invoice(b).itens[n].contem
  <2>1. \A c \in DOMAIN g.contem : r.contem[c] = g.contem[c]
    BY <1>1 DEF Extends
  <2>2. \A n \in DOMAIN i.itens : r.contem[Contained(k, i.itens[n])] = i.itens[n].contem
    BY <1>1, <1>3 DEF Extends
  <2>3. ASSUME NEW b \in M, NEW n \in DOMAIN Invoice(b).itens
        PROVE  r.contem[Contained(Key(b), Invoice(b).itens[n])] = Invoice(b).itens[n].contem
    <3>1. Contained(Key(b), Invoice(b).itens[n]) \in ItemKeys(b)
      BY DEF ItemKeys
    <3>2. Contained(Key(b), Invoice(b).itens[n]) \in DOMAIN g.contem
      BY <3>1 DEF Holds
    <3>3. g.contem[Contained(Key(b), Invoice(b).itens[n])] = Invoice(b).itens[n].contem
      BY DEF Holds
    <3> QED BY <2>1, <3>2, <3>3
  <2> QED BY <1>3, <2>2, <2>3
<1>20. r.classificado = UNION {{<<Invoice(b).itens[n].produto.idUnico, Invoice(b).itens[n].ncm>> :
                                   n \in DOMAIN Invoice(b).itens} : b \in N}
  <2> DEFINE Of(b) == {<<Invoice(b).itens[n].produto.idUnico, Invoice(b).itens[n].ncm>> :
                          n \in DOMAIN Invoice(b).itens}
  <2>1. r.classificado = g.classificado \cup Of(d)
    BY <1>1, <1>3 DEF Extends
  <2>2. g.classificado = UNION {Of(b) : b \in M}
    BY DEF Holds
  <2> HIDE DEF Of
  <2>3. r.classificado = UNION {Of(b) : b \in N}
    BY <2>1, <2>2
  <2> QED BY <2>3 DEF Of
<1>21. r.usaCfop = UNION {{<<Key(b), Invoice(b).itens[n].cfop>> : n \in DOMAIN Invoice(b).itens} : b \in N}
  <2> DEFINE Of(b) == {<<Key(b), Invoice(b).itens[n].cfop>> : n \in DOMAIN Invoice(b).itens}
  <2>1. r.usaCfop = g.usaCfop \cup Of(d)
    BY <1>1, <1>3 DEF Extends
  <2>2. g.usaCfop = UNION {Of(b) : b \in M}
    BY DEF Holds
  <2> HIDE DEF Of
  <2>3. r.usaCfop = UNION {Of(b) : b \in N}
    BY <2>1, <2>2
  <2> QED BY <2>3 DEF Of
<1>22. r.emitiu = {<<Invoice(b).emitente.cnpj, Key(b)>> : b \in N}
  <2>1. r.emitiu = g.emitiu \cup {<<Invoice(d).emitente.cnpj, Key(d)>>}
    BY <1>1, <1>3 DEF Extends
  <2>2. g.emitiu = {<<Invoice(b).emitente.cnpj, Key(b)>> : b \in M}
    BY DEF Holds
  <2> QED BY <2>1, <2>2
<1>23. r.destinada = UNION {{<<Key(b), e.cnpj>> : e \in ToSet(Invoice(b).destinatario)} : b \in N}
  <2> DEFINE Of(b) == {<<Key(b), e.cnpj>> : e \in ToSet(Invoice(b).destinatario)}
  <2>1. r.destinada = g.destinada \cup Of(d)
    BY <1>1, <1>3 DEF Extends
  <2>2. g.destinada = UNION {Of(b) : b \in M}
    BY DEF Holds
  <2> HIDE DEF Of
  <2>3. r.destinada = UNION {Of(b) : b \in N}
    BY <2>1, <2>2
  <2> QED BY <2>3 DEF Of
<1>24. r.devolve = UNION {{<<Key(b), o>> : o \in Origins(Invoice(b))} : b \in N}
  <2> DEFINE Of(b) == {<<Key(b), o>> : o \in Origins(Invoice(b))}
  <2>1. r.devolve = g.devolve \cup Of(d)
    BY <1>1, <1>3 DEF Extends
  <2>2. g.devolve = UNION {Of(b) : b \in M}
    BY DEF Holds
  <2> HIDE DEF Of
  <2>3. r.devolve = UNION {Of(b) : b \in N}
    BY <2>1, <2>2
  <2> QED BY <2>3 DEF Of
<1>25. DOMAIN r.emp = {Invoice(b).emitente.cnpj : b \in N}
                      \cup UNION {{e.cnpj : e \in ToSet(Invoice(b).destinatario)} : b \in N}
  <2> DEFINE Of(b) == {e.cnpj : e \in ToSet(Invoice(b).destinatario)}
  <2>1. DOMAIN r.emp = DOMAIN g.emp \cup {Invoice(d).emitente.cnpj} \cup Of(d)
    BY <1>1, <1>3 DEF Extends
  <2>2. DOMAIN g.emp = {Invoice(b).emitente.cnpj : b \in M} \cup UNION {Of(b) : b \in M}
    BY DEF Holds
  <2> HIDE DEF Of
  <2>3. DOMAIN r.emp = {Invoice(b).emitente.cnpj : b \in N} \cup UNION {Of(b) : b \in N}
    BY <2>1, <2>2
  <2> QED BY <2>3 DEF Of
<1> DEFINE one == [chave |-> k, tipo |-> "importada", timestamp |-> t]
<1>26. r.eventos = g.eventos \cup (IF \E e \in g.eventos : e.chave = k /\ e.tipo = "importada" THEN {} ELSE {one})
  BY <1>1, <1>3 DEF Extends
<1>27. one.chave = k /\ one.tipo = "importada"
  OBVIOUS
<1> HIDE DEF one
<1>28. \A e \in g.eventos : e.tipo = "importada" /\ e.chave \in Keys(M)
  BY DEF Holds
<1>29. \A e \in r.eventos : e.tipo = "importada" /\ e.chave \in Keys(N)
  BY <1>5, <1>26, <1>27, <1>28
<1>30. ASSUME NEW x \in Keys(N) PROVE \E e : {f \in r.eventos : f.chave = x} = {e}
  <2>1. CASE x \in Keys(M)
    <3>1. PICK e : {f \in g.eventos : f.chave = x} = {e}
      BY <2>1 DEF Holds
    <3>2. {f \in r.eventos : f.chave = x} = {f \in g.eventos : f.chave = x}
      BY <1>26, <1>27, <1>28, <3>1
    <3> QED BY <3>1, <3>2
  <2>2. CASE x \notin Keys(M)
    <3>1. x = k
      BY <1>5, <2>2
    <3>2. \A e \in g.eventos : e.chave # k
      BY <1>28, <2>2, <3>1
    <3>3. r.eventos = g.eventos \cup {one}
      BY <1>26, <3>2
    <3>4. {f \in r.eventos : f.chave = x} = {one}
      BY <1>27, <3>1, <3>2, <3>3
    <3> QED BY <3>4
  <2> QED BY <2>1, <2>2
<1>31. HasShape(r)
  BY <1>1 DEF Extends
<1>34. Named(r.emp)
  <2>1. Named(g.emp)
    BY DEF Holds
  <2> QED BY <1>1, <2>1 DEF Extends
<1>32. IsFiniteSet(r.eventos)
  <2>1. IsFiniteSet(g.eventos)
    BY DEF Holds
  <2>2. IsFiniteSet(g.eventos \cup {one})
    BY <2>1, FS_AddElement
  <2> QED BY <1>26, <2>1, <2>2
<1>33. Holds(r, N)
  <2> HIDE DEF N
  <2> QED
    BY <1>13, <1>14, <1>15, <1>16, <1>17, <1>18, <1>19, <1>20, <1>21, <1>22, <1>23, <1>24, <1>25,
       <1>29, <1>30, <1>31, <1>32, <1>34 DEF Holds
<1> QED
  BY <1>33 DEF r

\* The graph after the migrations is the graph of no nota.
LEMMA NothingHolds == Holds(EmptyGraph, {})
<1>1. /\ EmptyGraph.nf = << >> /\ EmptyGraph.emp = << >> /\ EmptyGraph.contem = << >>
      /\ EmptyGraph.classificado = {} /\ EmptyGraph.usaCfop = {} /\ EmptyGraph.emitiu = {}
      /\ EmptyGraph.destinada = {} /\ EmptyGraph.devolve = {} /\ EmptyGraph.eventos = {}
  BY DEF EmptyGraph
<1>2. DOMAIN << >> = {} /\ IsFunction(<< >>)
  BY DEF IsFunction
<1>3. HasShape(EmptyGraph) /\ Keys({}) = {} /\ IsFiniteSet({}) /\ Named(<< >>)
  BY <1>2, FS_EmptySet DEF HasShape, Keys, Named
<1> QED BY <1>1, <1>2, <1>3 DEF Holds

\* Merging each of a finite set of documents, in whatever order, gives the graph of them.
LEMMA UnionHolds ==
  ASSUME NEW D, IsFiniteSet(D), NEW rows, AreNotas({rows[x] : x \in D}),
         NEW f, IsTable(f, D, "notas", EmptyGraph, 0, rows)
  PROVE  Holds(f[D], {rows[x] : x \in D})
<1> DEFINE Of(s) == {rows[x] : x \in s}
<1>1. \A s \in SUBSET D : Holds(f[s], Of(s))
  <2> DEFINE T == {s \in SUBSET D : ~Holds(f[s], Of(s))}
  <2> SUFFICES ASSUME T # {} PROVE FALSE
    OBVIOUS
  <2>1. T \in SUBSET SUBSET D
    OBVIOUS
  <2>2. PICK s \in T : \A u \in SUBSET s : u # s => u \notin T
    <3> HIDE DEF T
    <3> QED BY <2>1, LeastSubset
  <2>3. CASE s = {}
    <3>1. f[s] = EmptyGraph /\ Of(s) = {}
      BY <2>3 DEF IsTable
    <3> QED BY <2>2, <3>1, NothingHolds
  <2>4. CASE s # {}
    <3> DEFINE x == CHOOSE x \in s : TRUE
               u == s \ {x}
    <3>1. x \in s /\ x \in D /\ u \in SUBSET s /\ u # s /\ u \in SUBSET D
      BY <2>4
    <3>2. f[s] = MergeDoc(f[u], rows[x])
      BY <2>4 DEF IsTable, Folded, Taken
    <3> HIDE DEF x
    <3>3. Holds(f[u], Of(u))
      BY <2>2, <3>1
    <3>4. Of(s) = Of(u) \cup {rows[x]}
      BY <3>1
    <3>5. Of(u) \in SUBSET Of(D) /\ rows[x] \in Of(D) /\ AreNotas(Of(D))
      BY <3>1
    <3> HIDE DEF Of, u
    <3>6. Holds(MergeInvoice(f[u], ParseNFe(rows[x], 0), rows[x].root, 0), Of(u) \cup {rows[x]})
      BY <3>3, <3>5, MergeKeeps
    <3> QED BY <2>2, <3>2, <3>4, <3>6 DEF MergeDoc, Invoice
  <2> QED BY <2>3, <2>4
<1> QED BY <1>1

-----------------------------------------------------------------------------
(* The order of a list.                                                      *)

\* The member Ordered takes first.
Heads(T, R) == {x \in T : \A y \in T : <<y, x>> \notin R}
First(T, R) == CHOOSE x \in IF Heads(T, R) = {} THEN T ELSE Heads(T, R) : TRUE
Lists(f, S, R) == f = [T \in SUBSET S |-> IF T = {} THEN << >> ELSE <<First(T, R)>> \o f[T \ {First(T, R)}]]

\* What Ordered takes first is in the set, and is a head when there is one.
LEMMA FirstIsThere ==
  ASSUME NEW T, T # {}, NEW R
  PROVE  /\ First(T, R) \in T
         /\ Heads(T, R) # {} => First(T, R) \in Heads(T, R)
<1>1. Heads(T, R) \in SUBSET T
  BY DEF Heads
<1> DEFINE W == IF Heads(T, R) = {} THEN T ELSE Heads(T, R)
<1>2. W # {} /\ W \in SUBSET T /\ (Heads(T, R) # {} => W = Heads(T, R))
  BY <1>1
<1>3. First(T, R) = CHOOSE x \in W : TRUE
  BY DEF First
<1> HIDE DEF W
<1> QED BY <1>2, <1>3

\* There is a table of the lists: any two attempts agree where both are defined, so the attempts
\* on smaller sets give the one on the next.
LEMMA ListTable ==
  ASSUME NEW S, IsFiniteSet(S), NEW R
  PROVE  \E f : Lists(f, S, R)
<1> DEFINE Step(v, u) == <<First(u, R)>> \o v
           Rest(u) == u \ {First(u, R)}
           Attempt(f, s) == \A u \in SUBSET s : f[u] = IF u = {} THEN << >> ELSE Step(f[Rest(u)], u)
<1>2. \A u \in SUBSET S : u # {} => Rest(u) \in SUBSET u /\ Rest(u) # u
  BY FirstIsThere
<1> HIDE DEF Step, Rest
<1>3. ASSUME NEW s \in SUBSET S, NEW t \in SUBSET S, NEW f, NEW h, Attempt(f, s), Attempt(h, t),
             NEW u \in SUBSET (s \cap t)
      PROVE  f[u] = h[u]
  <2> DEFINE T == {v \in SUBSET (s \cap t) : f[v] # h[v]}
  <2> SUFFICES ASSUME T # {} PROVE FALSE
    OBVIOUS
  <2>1. T \in SUBSET SUBSET S
    OBVIOUS
  <2>2. PICK v \in T : \A w \in SUBSET v : w # v => w \notin T
    <3> HIDE DEF T
    <3> QED BY <2>1, LeastSubset
  <2>3. v \in SUBSET (s \cap t) /\ f[v] # h[v] /\ v \in SUBSET S
    OBVIOUS
  <2>4. CASE v = {}
    BY <1>3, <2>3, <2>4
  <2>5. CASE v # {}
    <3>1. Rest(v) \in SUBSET (s \cap t) /\ Rest(v) \notin T
      BY <1>2, <2>2, <2>3, <2>5
    <3>2. f[Rest(v)] = h[Rest(v)]
      BY <3>1
    <3> QED BY <3>2, <1>3, <2>3, <2>5
  <2> QED BY <2>4, <2>5
<1> DEFINE Val(v) == (CHOOSE h : Attempt(h, v))[v]
           F(s) == [u \in SUBSET s |-> IF u = {} THEN << >> ELSE Step(Val(Rest(u)), u)]
<1>4. ASSUME NEW s \in SUBSET S, \A v \in SUBSET s : v # s => \E h : Attempt(h, v)
      PROVE  Attempt(F(s), s)
  <2>0. \A u \in SUBSET s : F(s)[u] = IF u = {} THEN << >> ELSE Step(Val(Rest(u)), u)
    <3> HIDE DEF Val
    <3> QED OBVIOUS
  <2> HIDE DEF F
  <2> SUFFICES ASSUME NEW u \in SUBSET s, u # {}
               PROVE  F(s)[u] = Step(F(s)[Rest(u)], u)
    <3> HIDE DEF Val
    <3> QED BY <2>0
  <2> DEFINE v == Rest(u)
             H == CHOOSE h : Attempt(h, v)
  <2>1. v \in SUBSET s /\ v # s /\ v \in SUBSET S
    BY <1>2
  <2>2. Attempt(H, v)
    BY <1>4, <2>1
  <2>3. F(s)[u] = Step(H[v], u)
    BY <2>0
  <2>4. F(s)[v] = H[v]
    <3>1. CASE v = {}
      <4>1. H[v] = << >>
        BY <2>2, <3>1
      <4>2. F(s)[v] = << >>
        BY <2>0, <2>1, <3>1
      <4> QED BY <4>1, <4>2
    <3>2. CASE v # {}
      <4> DEFINE w == Rest(v)
                 K == CHOOSE h : Attempt(h, w)
      <4>1. w \in SUBSET v /\ w # v /\ w \in SUBSET S /\ w \in SUBSET s /\ w # s
        BY <1>2, <2>1, <3>2
      <4>2. Attempt(K, w)
        BY <1>4, <4>1
      <4>3. F(s)[v] = Step(K[w], v)
        BY <2>0, <2>1, <3>2
      <4>4. H[v] = Step(H[w], v)
        BY <2>2, <3>2
      <4>5. H[w] = K[w]
        <5> HIDE DEF H, K, w, v, Attempt
        <5> QED BY <1>3, <2>1, <2>2, <4>1, <4>2
      <4> QED BY <4>3, <4>4, <4>5
    <3> QED BY <3>1, <3>2
  <2> QED BY <2>3, <2>4
<1>5. \A s \in SUBSET S : \E h : Attempt(h, s)
  <2> DEFINE T == {s \in SUBSET S : ~\E h : Attempt(h, s)}
  <2> SUFFICES ASSUME T # {} PROVE FALSE
    OBVIOUS
  <2>1. T \in SUBSET SUBSET S
    OBVIOUS
  <2>2. PICK s \in T : \A w \in SUBSET s : w # s => w \notin T
    <3> HIDE DEF T
    <3> QED BY <2>1, LeastSubset
  <2>3. \A v \in SUBSET s : v # s => \E h : Attempt(h, v)
    <3> HIDE DEF Attempt
    <3> QED BY <2>2
  <2>4. Attempt(F(s), s)
    <3> HIDE DEF Attempt, F
    <3> QED BY <1>4, <2>3
  <2> HIDE DEF Attempt, F
  <2> QED BY <2>4
<1>6. Attempt(F(S), S)
  <2> HIDE DEF Attempt, F
  <2> QED BY <1>4, <1>5
<1> DEFINE f == F(S)
<1>7. f = [u \in SUBSET S |-> f[u]]
  OBVIOUS
<1>8. \A u \in SUBSET S : f[u] = IF u = {} THEN << >> ELSE <<First(u, R)>> \o f[u \ {First(u, R)}]
  <2> HIDE DEF F
  <2> QED BY <1>6 DEF Step, Rest
<1> HIDE DEF f
<1>9. f = [u \in SUBSET S |-> IF u = {} THEN << >> ELSE <<First(u, R)>> \o f[u \ {First(u, R)}]]
  BY <1>7, <1>8
<1> QED
  BY <1>9 DEF Lists

\* Ordered is the last entry of such a table.
LEMMA OrderedUnfolds ==
  ASSUME NEW S, IsFiniteSet(S), NEW R
  PROVE  \E f : Lists(f, S, R) /\ f[S] = Ordered(S, R)
<1> DEFINE h == CHOOSE h : Lists(h, S, R)
<1>1. Lists(h, S, R)
  BY ListTable
<1>2. h[S] = Ordered(S, R)
  BY DEF Ordered, Lists, First, Heads
<1> HIDE DEF h
<1> QED BY <1>1, <1>2

\* The list holds each member once.
Lines(s, T) ==
    /\ s \in Seq(T)
    /\ \A x \in T : \E i \in DOMAIN s : s[i] = x
    /\ \A i, j \in DOMAIN s : s[i] = s[j] => i = j
\* A relation that is an order, of members that may tie.
IsOrder(S, R) ==
    /\ \A x \in S : <<x, x>> \notin R
    /\ \A x, y, z \in S : <<x, y>> \in R /\ <<y, z>> \in R => <<x, z>> \in R

\* An order has a first member in every finite set.
LEMMA HeadsExist ==
  ASSUME NEW S, IsFiniteSet(S), NEW R, IsOrder(S, R), NEW T \in SUBSET S, T # {}
  PROVE  Heads(T, R) # {}
<1> DEFINE Ahead(x) == {y \in T : <<y, x>> \in R}
           U == {Ahead(x) : x \in T}
<1>1. U \in SUBSET SUBSET S /\ U # {}
  OBVIOUS
<1>2. PICK t \in U : \A u \in SUBSET t : u # t => u \notin U
  <2> HIDE DEF U
  <2> QED BY <1>1, LeastSubset
<1>3. PICK x \in T : t = Ahead(x)
  OBVIOUS
<1>4. Ahead(x) = {}
  <2> SUFFICES ASSUME NEW y \in Ahead(x) PROVE FALSE
    OBVIOUS
  <2>1. Ahead(y) \in SUBSET t
    BY <1>3 DEF IsOrder
  <2>2. y \in t /\ y \notin Ahead(y)
    BY <1>3 DEF IsOrder
  <2>3. Ahead(y) \in U
    OBVIOUS
  <2> HIDE DEF U, Ahead
  <2> QED BY <1>2, <2>1, <2>2, <2>3
<1> QED BY <1>4 DEF Heads

\* Ordered lists each member once and, when the relation is an order, puts none ahead of one that
\* must come before it.
LEMMA OrderedIs ==
  ASSUME NEW S, IsFiniteSet(S), NEW R
  PROVE  /\ Lines(Ordered(S, R), S)
         /\ IsOrder(S, R) => LET s == Ordered(S, R) IN
                \A i, j \in DOMAIN s : i < j => <<s[j], s[i]>> \notin R
<1>1. PICK f : Lists(f, S, R) /\ f[S] = Ordered(S, R)
  BY OrderedUnfolds
<1> DEFINE Good(s, T) == /\ Lines(s, T)
                         /\ IsOrder(S, R) => \A i, j \in DOMAIN s : i < j => <<s[j], s[i]>> \notin R
<1>2. \A T \in SUBSET S : Good(f[T], T)
  <2> DEFINE B == {T \in SUBSET S : ~Good(f[T], T)}
  <2> SUFFICES ASSUME B # {} PROVE FALSE
    OBVIOUS
  <2>1. PICK T \in B : \A u \in SUBSET T : u # T => u \notin B
    <3>1. B \in SUBSET SUBSET S
      OBVIOUS
    <3> HIDE DEF B
    <3> QED BY <3>1, LeastSubset
  <2>2. CASE T = {}
    <3>1. f[T] = << >>
      BY <1>1, <2>2 DEF Lists
    <3>2. Lines(<< >>, {}) /\ DOMAIN << >> = {}
      BY DEF Lines
    <3>3. Good(f[T], T)
      BY <2>2, <3>1, <3>2
    <3> QED BY <3>3
  <2>3. CASE T # {}
    <3> DEFINE x == First(T, R)
               u == T \ {x}
               p == f[u]
               s == f[T]
    <3>1. x \in T /\ (IsOrder(S, R) => x \in Heads(T, R))
      BY <2>3, FirstIsThere, HeadsExist
    <3>2. s = <<x>> \o p
      BY <1>1, <2>3 DEF Lists
    <3>3. Good(p, u)
      BY <2>1, <3>1
    <3> HIDE DEF x, p, s
    <3>4. p \in Seq(u) /\ u \in SUBSET T
      BY <3>3 DEF Lines
    <3> HIDE DEF u
    <3>5. p \in Seq(T) /\ s \in Seq(T) /\ Len(s) = Len(p) + 1
      BY <3>1, <3>2, <3>4
    <3>6. s[1] = x /\ \A i \in DOMAIN p : s[i + 1] = p[i]
      BY <3>1, <3>2, <3>5
    <3>7. \A i \in DOMAIN s : i = 1 \/ (i > 1 /\ i - 1 \in DOMAIN p /\ s[i] = p[i - 1])
      BY <3>5, <3>6
    <3>8. \A i \in DOMAIN p : p[i] \in u
      BY <3>4
    <3>9. Lines(s, T)
      <4>1. \A y \in T : \E i \in DOMAIN s : s[i] = y
        <5> SUFFICES ASSUME NEW y \in T PROVE \E i \in DOMAIN s : s[i] = y
          OBVIOUS
        <5>1. CASE y = x
          BY <5>1, <3>5, <3>6
        <5>2. CASE y # x
          <6>1. y \in u
            BY <5>2 DEF u
          <6>2. PICK i \in DOMAIN p : p[i] = y
            BY <6>1, <3>3 DEF Lines
          <6> QED BY <6>2, <3>5, <3>6
        <5> QED BY <5>1, <5>2
      <4>2. ASSUME NEW i \in DOMAIN s, NEW j \in DOMAIN s, s[i] = s[j] PROVE i = j
        <5>1. \A n \in DOMAIN p : p[n] # x
          BY <3>8 DEF u
        <5>2. \A m, n \in DOMAIN p : p[m] = p[n] => m = n
          BY <3>3 DEF Lines
        <5>3. i \in Int /\ j \in Int
          BY <3>5
        <5> QED BY <4>2, <5>1, <5>2, <5>3, <3>6, <3>7
      <4> QED BY <3>5, <4>1, <4>2 DEF Lines
    <3>10. ASSUME IsOrder(S, R), NEW i \in DOMAIN s, NEW j \in DOMAIN s, i < j
           PROVE  <<s[j], s[i]>> \notin R
      <4>1. i \in Int /\ j \in Int /\ i >= 1 /\ j > 1
        BY <3>5, <3>10
      <4>2. j - 1 \in DOMAIN p /\ s[j] = p[j - 1] /\ s[j] \in T
        BY <3>7, <3>8, <3>4, <4>1
      <4>3. CASE i = 1
        BY <4>2, <4>3, <3>1, <3>6, <3>10 DEF Heads
      <4>4. CASE i # 1
        <5>1. i - 1 \in DOMAIN p /\ s[i] = p[i - 1] /\ i - 1 < j - 1
          BY <3>7, <4>1, <4>4, <3>10
        <5> QED BY <5>1, <4>2, <3>3, <3>10
      <4> QED BY <4>3, <4>4
    <3>11. Good(s, T)
      BY <3>9, <3>10
    <3> QED BY <3>11 DEF s
  <2> QED BY <2>2, <2>3
<1> QED
  BY <1>1, <1>2

\* A list of a finite set has as many lines as the set has members.
LEMMA LinesCount ==
  ASSUME NEW S, IsFiniteSet(S), NEW s, Lines(s, S)
  PROVE  Len(s) = Cardinality(S)
<1>1. s \in Seq(S) /\ Len(s) \in Nat /\ DOMAIN s = 1 .. Len(s)
  BY DEF Lines
<1>2. s \in [1 .. Len(s) -> S]
  BY <1>1
<1>3. s \in Injection(1 .. Len(s), S)
  BY <1>1, <1>2 DEF Lines, Injection, IsInjective
<1>4. s \in Surjection(1 .. Len(s), S)
  BY <1>1, <1>2 DEF Lines, Surjection
<1>5. IsFiniteSet(1 .. Len(s)) /\ Cardinality(1 .. Len(s)) = Len(s)
  <2>1. Cardinality(1 .. Len(s)) = IF 1 > Len(s) THEN 0 ELSE Len(s) - 1 + 1
    BY <1>1, FS_Interval
  <2> QED BY <1>1, <2>1, FS_Interval, SMTT(30)
<1> QED BY <1>3, <1>4, <1>5, FS_Surjection

-----------------------------------------------------------------------------
(* What TopBy and the numbering gaps give.                                    *)

\* A report that is not full has everything.
Leading(S, R, n) == {x \in S : \E i \in (DOMAIN Ordered(S, R)) \cap (1 .. n) : Ordered(S, R)[i] = x}
LEMMA NotFull ==
  ASSUME NEW S, IsFiniteSet(S), NEW R, NEW n \in Nat, Cardinality(Leading(S, R, n)) < n
  PROVE  Leading(S, R, n) = S
<1> DEFINE s == Ordered(S, R)
           top == Leading(S, R, n)
<1>1. Lines(s, S)
  BY OrderedIs
<1>2. top = {x \in S : \E i \in (DOMAIN s) \cap (1 .. n) : s[i] = x}
  BY DEF Leading
<1> HIDE DEF s, top
<1>3. s \in Seq(S) /\ (\A x \in S : \E i \in DOMAIN s : s[i] = x) /\ \A i, j \in DOMAIN s : s[i] = s[j] => i = j
  BY <1>1 DEF Lines
<1>4. Len(s) \in Nat /\ DOMAIN s = 1 .. Len(s) /\ \A i \in DOMAIN s : s[i] \in S
  BY <1>3
<1>5. top \in SUBSET S
  BY <1>2
<1> SUFFICES ASSUME NEW x \in S, x \notin top PROVE FALSE
  BY <1>5 DEF top
<1>6. PICK j \in DOMAIN s : s[j] = x
  BY <1>3
<1>7. j \notin 1 .. n
  BY <1>2, <1>6
<1>8. 1 .. n \in SUBSET DOMAIN s
  BY <1>4, <1>7
<1> DEFINE f == [i \in 1 .. n |-> s[i]]
<1>9. f \in Injection(1 .. n, top)
  <2>1. \A i \in 1 .. n : s[i] \in top
    BY <1>2, <1>4, <1>8
  <2> QED BY <2>1, <1>3, <1>8 DEF Injection, IsInjective
<1>10. IsFiniteSet(top)
  BY <1>5, FS_Subset
<1>11. Cardinality(1 .. n) <= Cardinality(top)
  BY <1>9, <1>10, FS_Injection
<1>12. Cardinality(1 .. n) = n
  <2>1. Cardinality(1 .. n) = IF 1 > n THEN 0 ELSE n - 1 + 1
    BY FS_Interval
  <2> QED BY <2>1
<1>13. Cardinality(top) \in Nat /\ Cardinality(top) < n
  BY <1>10, FS_CardinalityType DEF top
<1> QED BY <1>11, <1>12, <1>13

\* Rows that are no more than the LIMIT are all taken.
LEMMA FitsIn ==
  ASSUME NEW S, IsFiniteSet(S), NEW R, NEW n \in Nat, Cardinality(S) <= n
  PROVE  Leading(S, R, n) = S
<1> DEFINE s == Ordered(S, R)
<1>1. Lines(s, S)
  BY OrderedIs
<1>2. Leading(S, R, n) = {x \in S : \E i \in (DOMAIN s) \cap (1 .. n) : s[i] = x}
  BY DEF Leading
<1> HIDE DEF s
<1>3. Len(s) = Cardinality(S)
  BY <1>1, LinesCount
<1>4. DOMAIN s = 1 .. Len(s) /\ Len(s) \in Nat /\ \A x \in S : \E i \in DOMAIN s : s[i] = x
  BY <1>1 DEF Lines
<1>5. DOMAIN s \subseteq 1 .. n
  BY <1>3, <1>4
<1> QED BY <1>2, <1>4, <1>5

\* Numbers in ascending order.
LEMMA AscendingIs ==
  ASSUME NEW S \in SUBSET Nat, IsFiniteSet(S)
  PROVE  /\ Lines(Ascending(S), S)
         /\ \A i, j \in DOMAIN Ascending(S) : i < j => Ascending(S)[i] < Ascending(S)[j]
<1> DEFINE R == {p \in S \X S : p[1] < p[2]}
           s == Ordered(S, R)
<1>1. Ascending(S) = s
  BY DEF Ascending
<1>2. IsOrder(S, R)
  <2>1. \A x, y \in S : <<x, y>> \in R <=> x < y
    OBVIOUS
  <2> HIDE DEF R
  <2>2. ASSUME NEW x \in S PROVE <<x, x>> \notin R
    BY <2>1
  <2>3. ASSUME NEW x \in S, NEW y \in S, NEW z \in S, <<x, y>> \in R, <<y, z>> \in R PROVE <<x, z>> \in R
    <3>1. x \in Nat /\ y \in Nat /\ z \in Nat /\ x < y /\ y < z
      BY <2>1, <2>3
    <3> QED BY <3>1, <2>1
  <2> QED BY <2>2, <2>3 DEF IsOrder
<1>3. Lines(s, S) /\ \A i, j \in DOMAIN s : i < j => <<s[j], s[i]>> \notin R
  <2> HIDE DEF R
  <2> QED BY <1>2, OrderedIs
<1>4. ASSUME NEW i \in DOMAIN s, NEW j \in DOMAIN s, i < j PROVE s[i] < s[j]
  <2>1. s[i] \in S /\ s[j] \in S /\ s[i] # s[j]
    <3> HIDE DEF s
    <3>1. i \in Int /\ j \in Int
      BY <1>3 DEF Lines
    <3> QED BY <1>3, <1>4, <3>1 DEF Lines
  <2>2. <<s[j], s[i]>> \notin R
    BY <1>3, <1>4
  <2>3. ~(s[j] < s[i])
    BY <2>1, <2>2
  <2>4. s[i] \in Nat /\ s[j] \in Nat
    BY <2>1
  <2> QED BY <2>1, <2>3, <2>4
<1> HIDE DEF s
<1> QED BY <1>1, <1>3, <1>4

\* The least and the greatest of a set of numbers are in it.
LEMMA BoundsAre ==
  ASSUME NEW S \in SUBSET Nat, IsFiniteSet(S), S # {}
  PROVE  /\ Min(S) \in S /\ \A y \in S : Min(S) <= y
         /\ Max(S) \in S /\ \A y \in S : Max(S) >= y
<1> DEFINE s == Ascending(S)
<1>1. Lines(s, S) /\ \A i, j \in DOMAIN s : i < j => s[i] < s[j]
  BY AscendingIs
<1> HIDE DEF s
<1>2. s \in Seq(S) /\ Len(s) \in Nat /\ DOMAIN s = 1 .. Len(s)
  BY <1>1 DEF Lines
<1>3. PICK m \in DOMAIN s : TRUE
  BY <1>1 DEF Lines
<1>4. 1 \in DOMAIN s /\ Len(s) \in DOMAIN s
  BY <1>2, <1>3
<1>5. \A i \in DOMAIN s : s[i] \in S
  BY <1>2
<1>6. \A y \in S : s[1] <= y /\ s[Len(s)] >= y
  <2> SUFFICES ASSUME NEW i \in DOMAIN s PROVE s[1] <= s[i] /\ s[Len(s)] >= s[i]
    BY <1>1 DEF Lines
  <2>1. s[1] \in Nat /\ s[i] \in Nat /\ s[Len(s)] \in Nat
    BY <1>4, <1>5
  <2>2. i \in Int /\ (i = 1 \/ 1 < i) /\ (i = Len(s) \/ i < Len(s))
    BY <1>2
  <2>3. (1 < i => s[1] < s[i]) /\ (i < Len(s) => s[i] < s[Len(s)])
    BY <1>1, <1>4
  <2> QED BY <2>1, <2>2, <2>3
<1>7. \E x \in S : \A y \in S : x <= y
  BY <1>4, <1>5, <1>6
<1>8. \E x \in S : \A y \in S : x >= y
  BY <1>4, <1>5, <1>6
<1> QED BY <1>7, <1>8 DEF Min, Max

-----------------------------------------------------------------------------
(* The pages of a list of notas.                                              *)

\* A function has finitely many values on a finite set.
LEMMA ImageIsFinite ==
  ASSUME NEW S, IsFiniteSet(S), NEW f
  PROVE  IsFiniteSet({f[x] : x \in S})
<1> DEFINE h == [x \in S |-> f[x]]
<1>1. h \in Surjection(S, {f[x] : x \in S})
  BY DEF Surjection
<1> HIDE DEF h
<1> QED BY <1>1, FS_Surjection

\* They are no more than its arguments.
LEMMA ImageIsNoLarger ==
  ASSUME NEW S, IsFiniteSet(S), NEW f
  PROVE  Cardinality({f[x] : x \in S}) <= Cardinality(S)
<1> DEFINE h == [x \in S |-> f[x]]
<1>1. h \in Surjection(S, {f[x] : x \in S})
  BY DEF Surjection
<1> HIDE DEF h
<1> QED BY <1>1, FS_Surjection

\* Min chooses; of two numbers it is what one expects.
LEMMA MinOfTwo ==
  ASSUME NEW a \in Int, NEW b \in Int
  PROVE  Min({a, b}) = IF a <= b THEN a ELSE b
BY DEF Min

\* Of any two places in a list one precedes the other, in either direction.
Places == Int \X Int
LEMMA PrecedesIs ==
  ASSUME NEW order
  PROVE  /\ \A a \in Places : ~Precedes(order, a, a)
         /\ \A a, b \in Places : a = b \/ Precedes(order, a, b) \/ Precedes(order, b, a)
         /\ \A a, b, c \in Places : Precedes(order, a, b) /\ Precedes(order, b, c) => Precedes(order, a, c)
<1>1. \A a \in Places : a = <<a[1], a[2]>> /\ a[1] \in Int /\ a[2] \in Int
  BY DEF Places
<1>2. \A a \in Places : ~Precedes(order, a, a)
  BY <1>1 DEF Precedes
<1>3. ASSUME NEW a \in Places, NEW b \in Places
      PROVE  a = b \/ Precedes(order, a, b) \/ Precedes(order, b, a)
  <2>1. a = <<a[1], a[2]>> /\ b = <<b[1], b[2]>> /\ a[1] \in Int /\ a[2] \in Int /\ b[1] \in Int /\ b[2] \in Int
    BY <1>1
  <2>2. (a[1] = b[1] /\ a[2] = b[2]) => a = b
    BY <2>1, Zenon
  <2> QED BY <2>1, <2>2 DEF Precedes
<1>4. ASSUME NEW a \in Places, NEW b \in Places, NEW c \in Places,
             Precedes(order, a, b), Precedes(order, b, c)
      PROVE  Precedes(order, a, c)
  <2>1. /\ a[1] \in Int /\ a[2] \in Int /\ b[1] \in Int /\ b[2] \in Int /\ c[1] \in Int /\ c[2] \in Int
    BY <1>1
  <2> QED BY <1>4, <2>1 DEF Precedes
<1> QED BY <1>2, <1>3, <1>4

\* A page is the first rows, and ends at a cursor when there are more.
LEMMA PageOfIs ==
  ASSUME NEW S, NEW s \in Seq(S), NEW n \in Nat \ {0}
  PROVE  \E top \in Nat :
             /\ DOMAIN PageOf(s, n).data = 1 .. top
             /\ \A m \in 1 .. top : m \in DOMAIN s /\ PageOf(s, n).data[m] = s[m]
             /\ \/ top = n /\ n \in DOMAIN s /\ PageOf(s, n).nextCursor = s[n]
                \/ DOMAIN s = 1 .. top /\ PageOf(s, n).nextCursor = NoCursor
<1> DEFINE top == Min({Len(s), n})
           page == PageOf(s, n)
<1>1. page.data = SubSeq(s, 1, top) /\ page.nextCursor = IF Len(s) > n THEN s[n] ELSE NoCursor
  BY DEF PageOf, NextCursor
<1>2. top = IF Len(s) <= n THEN Len(s) ELSE n
  BY MinOfTwo
<1>3. top \in Nat /\ top <= Len(s) /\ (Len(s) > n => top = n) /\ (~(Len(s) > n) => top = Len(s))
  BY <1>2
<1> HIDE DEF top, page
<1>4. /\ DOMAIN SubSeq(s, 1, top) = 1 .. top
      /\ \A m \in 1 .. top : m \in DOMAIN s /\ SubSeq(s, 1, top)[m] = s[m]
  BY <1>3
<1>5. \/ top = n /\ n \in DOMAIN s /\ page.nextCursor = s[n]
      \/ DOMAIN s = 1 .. top /\ page.nextCursor = NoCursor
  BY <1>1, <1>3
<1> QED BY <1>1, <1>3, <1>4, <1>5 DEF page

\* The places of the notas of a filter, and what a page of those that follow a cursor is: it
\* starts after the cursor, leaves out only what comes after its own, and repeats none.
RowsOf(g, f, by) == {<<SortKey(g, k, by), k>> : k \in Filtered(g, f)}
IsListPage(p, rows, order, c) ==
    /\ \A r \in rows : AfterCursor(order, c, r) =>
           \/ \E m \in DOMAIN p.data : p.data[m] = r
           \/ p.nextCursor # NoCursor /\ Precedes(order, p.nextCursor, r)
    /\ \A m \in DOMAIN p.data :
           /\ p.data[m] \in rows /\ AfterCursor(order, c, p.data[m])
           /\ p.nextCursor # NoCursor => p.data[m] = p.nextCursor \/ Precedes(order, p.data[m], p.nextCursor)
    /\ \A m, n \in DOMAIN p.data : p.data[m] = p.data[n] => m = n
    /\ p.nextCursor # NoCursor => \E m \in DOMAIN p.data : p.data[m] = p.nextCursor

LEMMA PageIs ==
  ASSUME NEW g, NEW f, NEW by \in Orderable, NEW order, NEW c, NEW size \in Nat \ {0},
         IsFiniteSet(RowsOf(g, f, by)), RowsOf(g, f, by) \in SUBSET Places
  PROVE  IsListPage(ListInvoices(g, f, [limit |-> size, orderBy |-> by, order |-> order, cursor |-> c]),
                    RowsOf(g, f, by), order, c)
<1> DEFINE P == RowsOf(g, f, by)
           rows == {r \in P : AfterCursor(order, c, r)}
           R == {p \in rows \X rows : Precedes(order, p[1], p[2])}
           s == Ordered(rows, R)
           n == Min({size, MaxLimit})
           page == ListInvoices(g, f, [limit |-> size, orderBy |-> by, order |-> order, cursor |-> c])
<1>1. n \in Nat \ {0}
  BY MinOfTwo DEF MaxLimit
<1>2. page = PageOf(s, n)
  BY DEF ListInvoices, RowsOf
<1>4. rows \in SUBSET P /\ rows \in SUBSET Places /\ IsFiniteSet(rows)
  <2>1. IsFiniteSet(P) /\ P \in SUBSET Places
    OBVIOUS
  <2> HIDE DEF P
  <2> QED BY <2>1, FS_Subset
<1>5. \A x, y \in rows : <<x, y>> \in R <=> Precedes(order, x, y)
  OBVIOUS
<1>6. \A r \in P : r \in rows <=> AfterCursor(order, c, r)
  OBVIOUS
<1> HIDE DEF rows, P, page, n
<1>7. IsOrder(rows, R)
  <2> HIDE DEF R
  <2>1. \A x \in rows : <<x, x>> \notin R
    BY <1>4, <1>5, PrecedesIs
  <2>2. ASSUME NEW x \in rows, NEW y \in rows, NEW z \in rows, <<x, y>> \in R, <<y, z>> \in R
        PROVE  <<x, z>> \in R
    <3>1. Precedes(order, x, y) /\ Precedes(order, y, z)
      BY <1>5, <2>2
    <3>2. x \in Places /\ y \in Places /\ z \in Places
      BY <1>4
    <3>3. Precedes(order, x, z)
      BY <3>1, <3>2, PrecedesIs
    <3> QED BY <1>5, <3>3
  <2> QED BY <2>1, <2>2 DEF IsOrder
<1>8. Lines(s, rows) /\ \A i, j \in DOMAIN s : i < j => <<s[j], s[i]>> \notin R
  <2> HIDE DEF R
  <2> QED BY <1>4, <1>7, OrderedIs
<1> HIDE DEF R, s
<1>19. s \in Seq(rows)
  BY <1>8 DEF Lines
<1>20. DOMAIN s \in SUBSET Int
  BY <1>19
<1>9. \A i \in DOMAIN s : s[i] \in rows /\ s[i] \in Places
  <2>1. \A i \in DOMAIN s : s[i] \in rows
    BY <1>19
  <2> QED BY <1>4, <2>1
<1>10. ASSUME NEW i \in DOMAIN s, NEW j \in DOMAIN s, i < j PROVE Precedes(order, s[i], s[j])
  <2>1. s[i] # s[j]
    <3>1. i \in Int /\ j \in Int
      BY <1>20
    <3> QED BY <1>8, <1>10, <3>1 DEF Lines
  <2>2. ~Precedes(order, s[j], s[i])
    BY <1>5, <1>8, <1>9, <1>10
  <2>3. s[i] \in Places /\ s[j] \in Places
    BY <1>9
  <2> QED BY <2>1, <2>2, <2>3, PrecedesIs
<1>11. PICK top \in Nat :
           /\ DOMAIN page.data = 1 .. top
           /\ \A m \in 1 .. top : m \in DOMAIN s /\ page.data[m] = s[m]
           /\ \/ top = n /\ n \in DOMAIN s /\ page.nextCursor = s[n]
              \/ DOMAIN s = 1 .. top /\ page.nextCursor = NoCursor
  BY <1>1, <1>2, <1>19, PageOfIs
<1>12. /\ DOMAIN page.data = 1 .. top
       /\ \A m \in 1 .. top : m \in DOMAIN s /\ page.data[m] = s[m]
  BY <1>11
<1>13. page.nextCursor # NoCursor <=> top = n /\ n \in DOMAIN s /\ page.nextCursor = s[n]
  <2>1. n \in DOMAIN s => s[n] \in Places
    BY <1>9
  <2>2. NoCursor \notin Places
    BY DEF NoCursor, Places
  <2> QED BY <1>11, <2>1, <2>2
<1>14. ASSUME NEW r \in P, AfterCursor(order, c, r)
       PROVE  \/ \E m \in DOMAIN page.data : page.data[m] = r
              \/ page.nextCursor # NoCursor /\ Precedes(order, page.nextCursor, r)
  <2>1. PICK i \in DOMAIN s : s[i] = r
    BY <1>6, <1>8, <1>14 DEF Lines
  <2>2. CASE i \in 1 .. top
    BY <1>12, <2>1, <2>2
  <2>3. CASE i \notin 1 .. top
    <3>1. top = n /\ n \in DOMAIN s /\ page.nextCursor = s[n]
      BY <1>11, <2>3
    <3>2. n < i
      <4>1. i \in Nat /\ i >= 1
        BY <1>19
      <4> QED BY <1>1, <2>3, <3>1, <4>1
    <3> QED BY <1>10, <1>13, <2>1, <3>1, <3>2
  <2> QED BY <2>2, <2>3
<1>15. ASSUME NEW m \in DOMAIN page.data
       PROVE  /\ page.data[m] \in P /\ AfterCursor(order, c, page.data[m])
              /\ page.nextCursor # NoCursor =>
                     page.data[m] = page.nextCursor \/ Precedes(order, page.data[m], page.nextCursor)
  <2>1. m \in DOMAIN s /\ page.data[m] = s[m] /\ s[m] \in rows
    BY <1>9, <1>12
  <2>2. s[m] \in P /\ AfterCursor(order, c, s[m])
    BY <1>4, <1>6, <2>1
  <2>3. ASSUME page.nextCursor # NoCursor
        PROVE  s[m] = page.nextCursor \/ Precedes(order, s[m], page.nextCursor)
    <3>1. top = n /\ page.nextCursor = s[n] /\ n \in DOMAIN s
      BY <1>13, <2>3
    <3>2. m = n \/ m < n
      <4>1. m \in 1 .. top
        BY <1>12
      <4> QED BY <1>1, <3>1, <4>1
    <3> QED BY <1>10, <2>1, <3>1, <3>2
  <2> QED BY <2>1, <2>2, <2>3
<1>16. \A m, k \in DOMAIN page.data : page.data[m] = page.data[k] => m = k
  BY <1>8, <1>12 DEF Lines
<1>17. page.nextCursor # NoCursor => \E m \in DOMAIN page.data : page.data[m] = page.nextCursor
  <2>1. ASSUME top = n PROVE n \in 1 .. top
    BY <1>1, <2>1
  <2> QED BY <1>12, <1>13, <2>1
<1>18. IsListPage(page, P, order, c)
  BY <1>14, <1>15, <1>16, <1>17 DEF IsListPage
<1> QED
  BY <1>18 DEF page, P

-----------------------------------------------------------------------------
(* What a list finds as notas are added to the graph.                         *)

\* A nota has in the graph what its document says.
LEMMA NotaIs ==
  ASSUME NEW g, NEW S, AreNotas(S), NEW M \in SUBSET S, NEW d \in M, Holds(g, M)
  PROVE  /\ \A p \in Header : g.nf[Key(d)][p] = Invoice(d).nota[p]
         /\ g.nf[Key(d)].totais = SerializeInvoice(Invoice(d)).totais
<1> DEFINE n == g.nf[Key(d)]
           i == Invoice(d)
           ser == SerializeInvoice(i)
<1>1. Omit(n, "importadaEm") = Omit(ser, "importadaEm")
  BY DEF Holds
<1>2. Header \subseteq DOMAIN i.nota
  BY ParseIs
<1>3. /\ DOMAIN ser = {"totais"} \cup DOMAIN i.nota
      /\ \A p \in DOMAIN ser : ser[p] = IF p \in DOMAIN i.nota THEN i.nota[p] ELSE i.totais
  BY DEF SerializeInvoice, Over
<1> HIDE DEF n, i, ser
<1>5. /\ DOMAIN Omit(n, "importadaEm") = (DOMAIN n) \ {"importadaEm"}
      /\ \A p \in (DOMAIN n) \ {"importadaEm"} : Omit(n, "importadaEm")[p] = n[p]
      /\ DOMAIN Omit(ser, "importadaEm") = (DOMAIN ser) \ {"importadaEm"}
      /\ \A p \in (DOMAIN ser) \ {"importadaEm"} : Omit(ser, "importadaEm")[p] = ser[p]
  BY DEF Omit
<1>6. \A p \in (DOMAIN ser) \ {"importadaEm"} : n[p] = ser[p]
  BY <1>1, <1>5
<1>7. "importadaEm" \notin Header \cup {"totais"}
  BY DEF Header
<1> QED BY <1>2, <1>3, <1>6, <1>7 DEF n, i, ser

\* buildWhere reads nothing of a nota that another merge changes.
LEMMA WhereIs ==
  ASSUME NEW g, NEW h, NEW k, \A p \in Header \cup {"totais"} : g.nf[k][p] = h.nf[k][p], NEW f,
         BuildWhere(g, k, f)
  PROVE  BuildWhere(h, k, f)
<1> DEFINE a == g.nf[k]
           b == h.nf[k]
<1>1. /\ a.totais = b.totais /\ a.chaveAcesso = b.chaveAcesso /\ a.numero = b.numero
      /\ a.dataEmissao = b.dataEmissao /\ a.dataSaida = b.dataSaida /\ a.valorTotal = b.valorTotal
      /\ \A p \in {"chaveAcesso", "numero", "serie", "status", "tipoNF", "finalidade"} : a[p] = b[p]
  BY DEF Header
<1> HIDE DEF a, b
<1> QED BY <1>1 DEF BuildWhere, a, b

\* The issuer of a nota.
LEMMA IssuerIs ==
  ASSUME NEW g, NEW S, AreNotas(S), NEW M \in SUBSET S, NEW d \in M, Holds(g, M)
  PROVE  EmitOf(g, Key(d)).cnpj = Invoice(d).emitente.cnpj
<1> DEFINE e == CHOOSE e \in g.emitiu : e[2] = Key(d)
           c == Invoice(d).emitente.cnpj
<1>1. g.emitiu = {<<Invoice(b).emitente.cnpj, Key(b)>> : b \in M} /\ c \in DOMAIN g.emp /\ Named(g.emp)
  BY DEF Holds
<1>2. <<c, Key(d)>> \in g.emitiu
  BY <1>1
<1>3. e \in g.emitiu /\ e[2] = Key(d)
  BY <1>2
<1> HIDE DEF e, c
<1>4. PICK b \in M : e = <<Invoice(b).emitente.cnpj, Key(b)>>
  BY <1>1, <1>3
<1>5. Invoice(b) = Invoice(d)
  BY <1>3, <1>4 DEF AreNotas
<1>6. e[1] = c
  BY <1>4, <1>5 DEF c
<1> QED BY <1>1, <1>6 DEF EmitOf, e, Named, c

\* The filters that a nota does not cease to satisfy: the state of a company is what the last of
\* its notas says, so that those on it are not among them.
Lasting(f) == {"ufEmitente", "ufDestinatario", "cnpjDestinatario"} \cap DOMAIN f = {}
\* A nota that a list finds is there, and is found again when others have been added.
LEMMA FilteredGrows ==
  ASSUME NEW S, AreNotas(S), NEW g, NEW M \in SUBSET S, Holds(g, M), NEW f
  PROVE  /\ Filtered(g, f) \in SUBSET Keys(M)
         /\ Lasting(f) => \A h : \A N \in SUBSET S :
                Holds(h, N) /\ M \subseteq N => Filtered(g, f) \subseteq Filtered(h, f)
<1>1. {e[2] : e \in g.emitiu} = Keys(M)
  <2>1. g.emitiu = {<<Invoice(d).emitente.cnpj, Key(d)>> : d \in M}
    BY DEF Holds
  <2>2. \A d \in M : <<Invoice(d).emitente.cnpj, Key(d)>>[2] = Key(d)
    OBVIOUS
  <2>3. \A e \in g.emitiu : e[2] \in Keys(M)
    BY <2>1, <2>2 DEF Keys
  <2>4. \A k \in Keys(M) : \E e \in g.emitiu : e[2] = k
    BY <2>1, <2>2 DEF Keys
  <2> QED BY <2>3, <2>4
<1>2. Filtered(g, f) \in SUBSET Keys(M)
  BY <1>1 DEF Filtered
<1>3. ASSUME Lasting(f), NEW h, NEW N \in SUBSET S, Holds(h, N), M \subseteq N, NEW k \in Filtered(g, f)
      PROVE  k \in Filtered(h, f)
  <2>1. PICK d \in M : k = Key(d)
    BY <1>2 DEF Keys
  <2>2. d \in N
    BY <1>3
  <2>3. k \in {e[2] : e \in h.emitiu}
    <3>1. h.emitiu = {<<Invoice(b).emitente.cnpj, Key(b)>> : b \in N}
      BY <1>3 DEF Holds
    <3>2. <<Invoice(d).emitente.cnpj, k>> \in h.emitiu
      BY <2>1, <2>2, <3>1
    <3> QED BY <3>2
  <2>4. BuildWhere(h, k, f)
    <3>1. BuildWhere(g, k, f)
      BY <1>3 DEF Filtered
    <3>2. \A p \in Header \cup {"totais"} : g.nf[k][p] = h.nf[k][p]
      <4>1. /\ \A p \in Header : g.nf[k][p] = Invoice(d).nota[p]
            /\ g.nf[k].totais = SerializeInvoice(Invoice(d)).totais
        BY <2>1, NotaIs
      <4>2. /\ \A p \in Header : h.nf[k][p] = Invoice(d).nota[p]
            /\ h.nf[k].totais = SerializeInvoice(Invoice(d)).totais
        BY <1>3, <2>1, <2>2, NotaIs
      <4> QED BY <4>1, <4>2
    <3> QED BY <3>1, <3>2, WhereIs
  <2>5. EmitOf(g, k).cnpj = EmitOf(h, k).cnpj
    BY <1>3, <2>1, <2>2, IssuerIs
  <2>6. g.usaCfop \subseteq h.usaCfop /\ g.classificado \subseteq h.classificado
        /\ DOMAIN g.contem \subseteq DOMAIN h.contem
    BY <1>3 DEF Holds
  <2>7. {c[3] : c \in {c \in DOMAIN g.contem : c[1] = k}} \subseteq {c[3] : c \in {c \in DOMAIN h.contem : c[1] = k}}
    BY <2>6
  <2>8. /\ "cnpjEmitente" \in DOMAIN f => EmitOf(g, k).cnpj = f.cnpjEmitente
        /\ "cfop" \in DOMAIN f => <<k, f.cfop>> \in g.usaCfop
        /\ "ncm" \in DOMAIN f =>
               \E p \in g.classificado :
                   /\ p[1] \in {c[3] : c \in {c \in DOMAIN g.contem : c[1] = k}}
                   /\ SubSeq(p[2], 1, Len(f.ncm)) = f.ncm
    BY <1>3 DEF Filtered
  <2> QED BY <1>3, <2>3, <2>4, <2>5, <2>6, <2>7, <2>8 DEF Filtered, Lasting
<1> QED BY <1>2, <1>3

-----------------------------------------------------------------------------
(* Paging through a list.                                                     *)

\* What holds of the first of some places, and of each when of the one before it, holds of all.
LEMMA NoFirst ==
  ASSUME NEW n \in Nat, NEW B \in SUBSET (1 .. n), 1 \notin B, \A i \in B : i = 1 \/ i - 1 \in B
  PROVE  B = {}
<1> DEFINE T == {1 .. i : i \in B}
<1> SUFFICES ASSUME B # {} PROVE FALSE
  OBVIOUS
<1>1. T \in SUBSET SUBSET (1 .. n) /\ T # {} /\ IsFiniteSet(1 .. n)
  <2>1. \A i \in B : 1 .. i \in SUBSET (1 .. n)
    OBVIOUS
  <2>2. T \in SUBSET SUBSET (1 .. n) /\ T # {}
    <3> HIDE DEF T
    <3>1. T \in SUBSET SUBSET (1 .. n)
      BY <2>1 DEF T
    <3>2. T # {}
      BY DEF T
    <3> QED BY <3>1, <3>2
  <2> QED BY <2>2, FS_Interval
<1>2. PICK s \in T : \A u \in SUBSET s : u # s => u \notin T
  <2> HIDE DEF T
  <2> QED BY <1>1, LeastSubset
<1>3. PICK i \in B : s = 1 .. i
  OBVIOUS
<1>4. i - 1 \in B /\ i \in Int
  OBVIOUS
<1>5. 1 .. (i - 1) \in SUBSET s /\ i \in s /\ i \notin 1 .. (i - 1)
  BY <1>3, <1>4
<1>6. 1 .. (i - 1) \in T
  BY <1>4
<1> HIDE DEF T
<1> QED BY <1>2, <1>5, <1>6

\* Pages that each start where the one before ended, of lists that have what is owed: it is on one
\* of them or after the last, and no two of them have one row.
LEMMA WalkIs ==
  ASSUME NEW n \in Nat \ {0}, NEW walk, NEW rows, NEW c, NEW order, NEW owed,
         \A i \in 1 .. n : /\ rows[i] \in SUBSET Places /\ owed \subseteq rows[i]
                          /\ IsListPage(walk[i], rows[i], order, c[i]),
         c[1] = NoCursor,
         \A i \in 2 .. n : c[i] # NoCursor /\ walk[i - 1].nextCursor = c[i]
  PROVE  /\ \A r \in owed : \/ \E i \in 1 .. n : \E m \in DOMAIN walk[i].data : walk[i].data[m] = r
                            \/ walk[n].nextCursor # NoCursor /\ Precedes(order, walk[n].nextCursor, r)
         /\ \A i, j \in 1 .. n : \A m \in DOMAIN walk[i].data, k \in DOMAIN walk[j].data :
                walk[i].data[m] = walk[j].data[k] => i = j /\ m = k
<1> DEFINE Upto(i, r) == \E j \in 1 .. i : \E m \in DOMAIN walk[j].data : walk[j].data[m] = r
           After(i, r) == walk[i].nextCursor # NoCursor /\ Precedes(order, walk[i].nextCursor, r)
<1>1. ASSUME NEW r \in owed, NEW i \in 1 .. n PROVE Upto(i, r) \/ After(i, r)
  <2> DEFINE B == {j \in 1 .. n : ~Upto(j, r) /\ ~After(j, r)}
  <2>1. ASSUME NEW j \in 1 .. n, AfterCursor(order, c[j], r) PROVE Upto(j, r) \/ After(j, r)
    <3>1. r \in rows[j] /\ IsListPage(walk[j], rows[j], order, c[j])
      OBVIOUS
    <3>2. (\E m \in DOMAIN walk[j].data : walk[j].data[m] = r) \/ After(j, r)
      BY <2>1, <3>1 DEF IsListPage
    <3>3. j \in 1 .. j
      OBVIOUS
    <3> HIDE DEF After
    <3> QED BY <3>2, <3>3
  <2>2. 1 \notin B
    <3>1. 1 \in 1 .. n /\ AfterCursor(order, c[1], r)
      BY DEF AfterCursor
    <3> HIDE DEF Upto, After
    <3> QED BY <2>1, <3>1
  <2>3. ASSUME NEW j \in B, j # 1, j - 1 \notin B PROVE FALSE
    <3>1. j \in 1 .. n /\ j - 1 \in 1 .. n /\ j \in 2 .. n
      BY <2>3
    <3>2. Upto(j - 1, r) => Upto(j, r)
      <4>1. 1 .. (j - 1) \subseteq 1 .. j
        BY <3>1
      <4> QED BY <4>1
    <3>3. After(j - 1, r) => AfterCursor(order, c[j], r)
      BY <3>1 DEF AfterCursor
    <3> HIDE DEF Upto, After
    <3> QED BY <2>1, <2>3, <3>1, <3>2, <3>3
  <2>4. B = {}
    <3> HIDE DEF B
    <3>1. B \in SUBSET (1 .. n)
      BY DEF B
    <3> QED BY <2>2, <2>3, <3>1, NoFirst
  <2> HIDE DEF Upto, After
  <2> QED BY <2>4
<1>2. \A i \in 2 .. n : c[i] \in Places /\ AfterCursor(order, c[i - 1], c[i])
  <2> SUFFICES ASSUME NEW i \in 2 .. n PROVE c[i] \in Places /\ AfterCursor(order, c[i - 1], c[i])
    OBVIOUS
  <2>1. i - 1 \in 1 .. n
    OBVIOUS
  <2>2. IsListPage(walk[i - 1], rows[i - 1], order, c[i - 1]) /\ rows[i - 1] \in SUBSET Places
    BY <2>1
  <2>3. walk[i - 1].nextCursor = c[i] /\ c[i] # NoCursor
    OBVIOUS
  <2>4. PICK m \in DOMAIN walk[i - 1].data : walk[i - 1].data[m] = c[i]
    BY <2>2, <2>3 DEF IsListPage
  <2> QED BY <2>2, <2>4 DEF IsListPage
<1> DEFINE NoLater(a, b) == a = b \/ Precedes(order, a, b)
<1>3. ASSUME NEW i \in 1 .. n, NEW j \in 1 .. n, i < j PROVE NoLater(c[i + 1], c[j])
  <2> DEFINE B == {l \in 1 .. n : i < l /\ ~NoLater(c[i + 1], c[l])}
  <2>1. ASSUME NEW l \in B PROVE l - 1 \in B
    <3>1. l \in 2 .. n /\ l # i + 1 /\ l - 1 \in 2 .. n /\ i < l - 1 /\ i + 1 \in 2 .. n
      <4>1. l \in 1 .. n /\ i < l
        OBVIOUS
      <4>2. l # i + 1
        OBVIOUS
      <4> QED BY <4>1, <4>2
    <3>2. c[l] \in Places /\ c[l - 1] \in Places /\ c[i + 1] \in Places
      BY <1>2, <3>1
    <3>3. AfterCursor(order, c[l - 1], c[l]) /\ c[l - 1] # NoCursor
      BY <1>2, <3>1
    <3>4. Precedes(order, c[l - 1], c[l])
      BY <3>3 DEF AfterCursor
    <3>5. ~NoLater(c[i + 1], c[l - 1])
      <4>1. ~NoLater(c[i + 1], c[l])
        OBVIOUS
      <4> QED BY <3>2, <3>4, <4>1, PrecedesIs
    <3> HIDE DEF NoLater
    <3> QED BY <3>1, <3>5
  <2>2. 1 \notin B
    OBVIOUS
  <2>3. B \in SUBSET (1 .. n)
    OBVIOUS
  <2>4. B = {}
    <3> HIDE DEF B
    <3> QED BY <2>1, <2>2, <2>3, NoFirst
  <2> HIDE DEF NoLater
  <2> QED BY <1>3, <2>4
<1>4. ASSUME NEW i \in 1 .. n, NEW j \in 1 .. n, i < j,
             NEW m \in DOMAIN walk[i].data, NEW k \in DOMAIN walk[j].data
      PROVE  walk[i].data[m] # walk[j].data[k]
  <2>1. i + 1 \in 2 .. n /\ j \in 2 .. n /\ walk[i].nextCursor = c[i + 1] /\ c[i + 1] # NoCursor
    <3>1. i + 1 \in 2 .. n /\ j \in 2 .. n /\ (i + 1) - 1 = i
      BY <1>4
    <3> QED BY <3>1
  <2>2. c[i + 1] \in Places /\ c[j] \in Places /\ c[j] # NoCursor
    BY <1>2, <2>1
  <2> DEFINE a == walk[i].data[m]
             b == walk[j].data[k]
  <2>3. a \in rows[i] /\ NoLater(a, c[i + 1])
    <3>1. IsListPage(walk[i], rows[i], order, c[i])
      OBVIOUS
    <3> QED BY <2>1, <3>1 DEF IsListPage
  <2>4. b \in rows[j] /\ AfterCursor(order, c[j], b)
    <3>1. IsListPage(walk[j], rows[j], order, c[j])
      OBVIOUS
    <3> QED BY <3>1 DEF IsListPage
  <2>5. a \in Places /\ b \in Places
    BY <2>3, <2>4
  <2>6. NoLater(c[i + 1], c[j])
    BY <1>3, <1>4
  <2>7. Precedes(order, c[j], b)
    BY <2>2, <2>4 DEF AfterCursor
  <2> HIDE DEF a, b
  <2>8. Precedes(order, a, b)
    BY <2>2, <2>3, <2>5, <2>6, <2>7, PrecedesIs
  <2>9. a # b
    BY <2>5, <2>8, PrecedesIs
  <2> QED BY <2>9 DEF a, b
<1>5. ASSUME NEW i \in 1 .. n, NEW m \in DOMAIN walk[i].data, NEW k \in DOMAIN walk[i].data,
             walk[i].data[m] = walk[i].data[k]
      PROVE  m = k
  <2>1. IsListPage(walk[i], rows[i], order, c[i])
    OBVIOUS
  <2> QED BY <1>5, <2>1 DEF IsListPage
<1>6. \A i, j \in 1 .. n : i < j \/ j < i \/ i = j
  OBVIOUS
<1>7. n \in 1 .. n
  OBVIOUS
<1>8. \A i, j \in 1 .. n : \A m \in DOMAIN walk[i].data, k \in DOMAIN walk[j].data :
          walk[i].data[m] = walk[j].data[k] => i = j /\ m = k
  BY <1>4, <1>5, <1>6
<1> QED
  BY <1>1, <1>7, <1>8

-----------------------------------------------------------------------------
(* What is around a company.                                                  *)

\* The edges from a company to its notas, and the trades, are as many as the notas at most.
LEMMA LinksAreFinite ==
  ASSUME NEW S, AreNotas(S), NEW M \in SUBSET S, IsFiniteSet(M), NEW g, Holds(g, M)
  PROVE  IsFiniteSet(LinkedBy(g)) /\ IsFiniteSet(ActiveTrades(g))
<1> DEFINE f == [d \in M |-> <<Invoice(d).emitente.cnpj, Key(d)>>]
           h == [d \in M |-> <<Key(d), Invoice(d).destinatario[1].cnpj>>]
<1>1. IsFiniteSet(g.emitiu)
  <2>1. IsFiniteSet({f[d] : d \in M})
    <3> HIDE DEF f
    <3> QED BY ImageIsFinite
  <2>2. {f[d] : d \in M} = {<<Invoice(d).emitente.cnpj, Key(d)>> : d \in M}
    OBVIOUS
  <2>3. g.emitiu = {<<Invoice(d).emitente.cnpj, Key(d)>> : d \in M}
    BY DEF Holds
  <2> QED BY <2>1, <2>2, <2>3
<1>2. IsFiniteSet(g.destinada)
  <2>1. IsFiniteSet({h[d] : d \in M})
    <3> HIDE DEF h
    <3> QED BY ImageIsFinite
  <2>2. g.destinada = UNION {{<<Key(d), e.cnpj>> : e \in ToSet(Invoice(d).destinatario)} : d \in M}
    BY DEF Holds
  <2>3. ASSUME NEW d \in M, NEW e \in ToSet(Invoice(d).destinatario) PROVE <<Key(d), e.cnpj>> = h[d]
    <3>1. HasCompanies(Invoice(d))
      BY ParseIs DEF Invoice
    <3> DEFINE r == Invoice(d).destinatario
    <3>2. r = << >> \/ \E x : r = <<x>>
      BY <3>1 DEF HasCompanies
    <3>3. e = r[1]
      <4> HIDE DEF r
      <4>1. e \in ToSet(r)
        BY DEF r
      <4> QED BY <3>2, <4>1 DEF ToSet
    <3> QED BY <3>3
  <2>4. g.destinada \subseteq {h[d] : d \in M}
    <3> HIDE DEF h
    <3> QED BY <2>2, <2>3
  <2> QED BY <2>1, <2>4, FS_Subset
<1>3. IsFiniteSet(LinkedBy(g))
  <2> DEFINE a == [e \in g.emitiu |-> <<e[1], e[2]>>]
             b == [d \in g.destinada |-> <<d[2], d[1]>>]
  <2>1. IsFiniteSet({a[e] : e \in g.emitiu}) /\ IsFiniteSet({b[d] : d \in g.destinada})
    <3> HIDE DEF a, b
    <3> QED BY <1>1, <1>2, ImageIsFinite
  <2>2. LinkedBy(g) = {a[e] : e \in g.emitiu} \cup {b[d] : d \in g.destinada}
    BY DEF LinkedBy
  <2> HIDE DEF a, b
  <2> QED BY <2>1, <2>2, FS_Union
<1>4. IsFiniteSet(ActiveTrades(g))
  <2> DEFINE P == g.emitiu \X g.destinada
             a == [p \in P |-> <<p[1][1], p[1][2], p[2][2]>>]
  <2>1. IsFiniteSet(P)
    BY <1>1, <1>2, FS_Product
  <2>2. IsFiniteSet({a[p] : p \in P})
    <3> HIDE DEF a, P
    <3> QED BY <2>1, ImageIsFinite
  <2>3. ActiveTrades(g) \subseteq {a[p] : p \in P}
    BY DEF ActiveTrades, Trades
  <2> QED BY <2>2, <2>3, FS_Subset
<1> QED BY <1>3, <1>4

\* Those that are there stay as notas are added.
LEMMA LinksGrow ==
  ASSUME NEW S, AreNotas(S), NEW M \in SUBSET S, NEW N \in SUBSET S, M \subseteq N,
         NEW g, Holds(g, M), NEW h, Holds(h, N)
  PROVE  LinkedBy(g) \subseteq LinkedBy(h) /\ ActiveTrades(g) \subseteq ActiveTrades(h)
<1>1. g.emitiu \subseteq h.emitiu
  BY DEF Holds
<1>2. g.destinada \subseteq h.destinada
  BY DEF Holds
<1>3. \A e \in g.emitiu : \E d \in M : e[2] = Key(d)
  <2>1. g.emitiu = {<<Invoice(d).emitente.cnpj, Key(d)>> : d \in M}
    BY DEF Holds
  <2> QED BY <2>1
<1>4. ASSUME NEW d \in M, ActiveNF(g, Key(d)) PROVE ActiveNF(h, Key(d))
  <2>1. g.nf[Key(d)].finalidade = h.nf[Key(d)].finalidade
    <3>1. g.nf[Key(d)].finalidade = Invoice(d).nota.finalidade
      BY NotaIs DEF Header
    <3>2. h.nf[Key(d)].finalidade = Invoice(d).nota.finalidade
      BY NotaIs DEF Header
    <3> QED BY <3>1, <3>2
  <2>2. Key(d) \in {x \in DOMAIN h.nf : "status" \in DOMAIN h.nf[x]}
    BY DEF Holds, Keys
  <2> QED BY <1>4, <2>1, <2>2 DEF ActiveNF, IsStub
<1>5. ASSUME NEW t \in ActiveTrades(g) PROVE t \in ActiveTrades(h)
  <2>1. t \in Trades(g) /\ ActiveNF(g, t[2])
    BY DEF ActiveTrades
  <2>2. PICK p \in g.emitiu \X g.destinada : p[1][2] = p[2][1] /\ t = <<p[1][1], p[1][2], p[2][2]>>
    BY <2>1 DEF Trades
  <2>3. PICK d \in M : t[2] = Key(d)
    BY <1>3, <2>2
  <2>4. t \in Trades(h)
    BY <1>1, <1>2, <2>2 DEF Trades
  <2> QED BY <1>4, <2>1, <2>3, <2>4 DEF ActiveTrades
<1> QED BY <1>1, <1>2, <1>5 DEF LinkedBy

\* One company further, over the notas of those that are reached.
Around(g, from) ==
    LET notas == {l[2] : l \in {l \in LinkedBy(g) : l[1] \in from}}
    IN  from \cup {l[1] : l \in {l \in LinkedBy(g) : l[2] \in notas}}
Reaches(f, g, from, depth) ==
    f = [n \in 0 .. depth |-> IF n = 0 THEN from ELSE Around(g, f[n - 1])]
LEMMA ReachedUnfolds ==
  ASSUME NEW g, NEW from, NEW depth \in 1 .. 4
  PROVE  \E f : Reaches(f, g, from, depth) /\ f[depth] = Reached(g, from, depth)
<1> DEFINE w == [n \in 0 .. depth |->
                     IF n = 0 THEN from
                     ELSE IF n = 1 THEN Around(g, from)
                     ELSE IF n = 2 THEN Around(g, Around(g, from))
                     ELSE IF n = 3 THEN Around(g, Around(g, Around(g, from)))
                     ELSE Around(g, Around(g, Around(g, Around(g, from))))]
           f == CHOOSE f : Reaches(f, g, from, depth)
<1>1. Reaches(w, g, from, depth)
  <2> HIDE DEF Around
  <2>1. w = [n \in 0 .. depth |-> w[n]]
    OBVIOUS
  <2>2. ASSUME NEW n \in 0 .. depth PROVE w[n] = IF n = 0 THEN from ELSE Around(g, w[n - 1])
    <3>1. n \in {0, 1, 2, 3, 4} /\ (n # 0 => n - 1 \in 0 .. depth)
      OBVIOUS
    <3> QED BY <3>1
  <2> HIDE DEF w
  <2> QED BY <2>1, <2>2 DEF Reaches
<1>2. Reaches(f, g, from, depth)
  <2> HIDE DEF w, Reaches
  <2> QED BY <1>1
<1>3. f[depth] = Reached(g, from, depth)
  BY DEF Reached, Reaches, Around
<1> HIDE DEF f
<1> QED BY <1>2, <1>3

\* What is around some companies grows with them and with the graph.
LEMMA AroundGrows ==
  ASSUME NEW g, NEW h, LinkedBy(g) \subseteq LinkedBy(h), NEW from, NEW to, from \subseteq to
  PROVE  Around(g, from) \subseteq Around(h, to) /\ to \subseteq Around(h, to)
BY DEF Around

\* And it is finite.
LEMMA AroundIsFinite ==
  ASSUME NEW g, IsFiniteSet(LinkedBy(g)), NEW from, IsFiniteSet(from)
  PROVE  IsFiniteSet(Around(g, from))
<1> DEFINE f == [l \in LinkedBy(g) |-> l[1]]
<1>1. IsFiniteSet({f[l] : l \in LinkedBy(g)})
  <2> HIDE DEF f
  <2> QED BY ImageIsFinite
<1>2. IsFiniteSet(from \cup {f[l] : l \in LinkedBy(g)})
  BY <1>1, FS_Union
<1>3. Around(g, from) \subseteq from \cup {f[l] : l \in LinkedBy(g)}
  BY DEF Around
<1> QED BY <1>2, <1>3, FS_Subset

\* A shorter way in a smaller graph leads nowhere that the longest in a larger one does not, and
\* none leaves out the companies one nota away.
LEMMA ReachedIs ==
  ASSUME NEW g, NEW h, LinkedBy(g) \subseteq LinkedBy(h), IsFiniteSet(LinkedBy(h)),
         NEW from, IsFiniteSet(from), NEW depth \in 1 .. 4
  PROVE  /\ Reached(g, from, depth) \subseteq Reached(h, from, 4)
         /\ IsFiniteSet(Reached(h, from, 4))
         /\ Around(g, from) \subseteq Reached(g, from, depth)
<1>1. PICK f : Reaches(f, g, from, depth) /\ f[depth] = Reached(g, from, depth)
  BY ReachedUnfolds
<1>2. PICK w : Reaches(w, h, from, 4) /\ w[4] = Reached(h, from, 4)
  <2>1. 4 \in 1 .. 4
    OBVIOUS
  <2> QED BY <2>1, ReachedUnfolds
<1>3. f[0] = from /\ \A n \in 1 .. depth : f[n] = Around(g, f[n - 1])
  <2>1. \A n \in 0 .. depth : f[n] = IF n = 0 THEN from ELSE Around(g, f[n - 1])
    BY <1>1 DEF Reaches
  <2> QED BY <2>1
<1>4. w[0] = from /\ \A n \in 1 .. 4 : w[n] = Around(h, w[n - 1])
  <2>1. \A n \in 0 .. 4 : w[n] = IF n = 0 THEN from ELSE Around(h, w[n - 1])
    BY <1>2 DEF Reaches
  <2> QED BY <2>1
<1>5. w[1] = Around(h, w[0]) /\ w[2] = Around(h, w[1]) /\ w[3] = Around(h, w[2]) /\ w[4] = Around(h, w[3])
  BY <1>4
<1>6. /\ f[1] = Around(g, f[0])
      /\ depth > 1 => f[2] = Around(g, f[1])
      /\ depth > 2 => f[3] = Around(g, f[2])
      /\ depth > 3 => f[4] = Around(g, f[3])
  BY <1>3
<1>7. depth \in {1, 2, 3, 4}
  OBVIOUS
<1>8. /\ f[1] \subseteq w[1]
      /\ depth > 1 => f[2] \subseteq w[2]
      /\ depth > 2 => f[3] \subseteq w[3]
      /\ depth > 3 => f[4] \subseteq w[4]
  <2>1. f[1] \subseteq w[1]
    BY <1>3, <1>4, <1>5, <1>6, AroundGrows
  <2>2. depth > 1 => f[2] \subseteq w[2]
    BY <1>5, <1>6, <2>1, AroundGrows
  <2>3. depth > 2 => f[3] \subseteq w[3]
    BY <1>5, <1>6, <1>7, <2>2, AroundGrows
  <2>4. depth > 3 => f[4] \subseteq w[4]
    BY <1>5, <1>6, <1>7, <2>3, AroundGrows
  <2> QED BY <2>1, <2>2, <2>3, <2>4
<1>9. w[1] \subseteq w[2] /\ w[2] \subseteq w[3] /\ w[3] \subseteq w[4]
  BY <1>5, AroundGrows
<1>10. /\ depth > 1 => f[1] \subseteq f[2]
       /\ depth > 2 => f[2] \subseteq f[3]
       /\ depth > 3 => f[3] \subseteq f[4]
  BY <1>6, AroundGrows
<1>11. f[depth] \subseteq w[4]
  BY <1>7, <1>8, <1>9
<1>12. f[1] \subseteq f[depth]
  BY <1>7, <1>10
<1>13. IsFiniteSet(w[4])
  BY <1>4, <1>5, AroundIsFinite
<1> QED BY <1>1, <1>2, <1>3, <1>6, <1>11, <1>12, <1>13
=============================================================================
