---------------------------- MODULE ScreenProofs ----------------------------
(***************************************************************************)
(* The feed of events, and the Explorer and the Graph page, for every set  *)
(* of notas, size of a page and bound on what the user does.  FeedInv      *)
(* (module EventFeed) is inductive; from it follows                        *)
(*                                                                         *)
(*   - that paging through the feed skips none but at the instant a page   *)
(*     ends in: the events newer than an instant come first, whatever the  *)
(*     order of ties, and become only more, so an event that is on no page *)
(*     and of no instant a page is cut at has been pushed past the last of *)
(*     them.                                                               *)
(*                                                                         *)
(* IInv (module GraphScreen) is inductive; from it follow                  *)
(*                                                                         *)
(*   - that the pages of the ranking hold every match once: sorting a      *)
(*     table and searching it list what is there, and LastPage is the      *)
(*     quotient that puts the last row on the last page;                   *)
(*   - that paging through the notas by cursor skips none: each page kept  *)
(*     ends where the next begins, and what a page saw only grows;         *)
(*   - that a drawing is closed, shows all that an expanded company trades *)
(*     with, as far as an answer holds it, and has one root.               *)
(*                                                                         *)
(* The last three rest on what Ordered gives (NotaProofs, OrderedIs).      *)
(***************************************************************************)
EXTENDS GraphScreen, EventFeed, NotaProofs

-----------------------------------------------------------------------------
(* The feed of events.                                                       *)

\* A list of the events of a set, the newest first; those of one instant are in any order.
IsNewestFirst(s, F) ==
    /\ Lines(s, F)
    /\ \A i, j \in DOMAIN s : i < j => s[i].timestamp >= s[j].timestamp
\* A set of events to be listed.
AreEvents(F) == IsFiniteSet(F) /\ \A e \in F : e.timestamp \in Int
NewerThan(F, t) == {e \in F : e.timestamp > t}

\* The library's orders of a set list it.
LEMMA OrdersList ==
  ASSUME NEW F, IsFiniteSet(F), NEW s \in SetToSeqs(F)
  PROVE  Lines(s, F)
<1> DEFINE n == Cardinality(F)
<1>1. n \in Nat
  BY FS_CardinalityType
<1>2. s \in [1 .. n -> F] /\ \A i, j \in 1 .. n : i # j => s[i] # s[j]
  BY DEF SetToSeqs
<1>3. IsFiniteSet(1 .. n) /\ Cardinality(1 .. n) = n
  <2>1. Cardinality(1 .. n) = IF 1 > n THEN 0 ELSE n - 1 + 1
    BY <1>1, FS_Interval
  <2> QED BY <1>1, <2>1, FS_Interval
<1>4. s \in Injection(1 .. n, F)
  BY <1>2 DEF Injection, IsInjective
<1>5. s \in Surjection(1 .. n, F)
  BY <1>3, <1>4, FS_Injection
<1> HIDE DEF n
<1>6. s \in Seq(F) /\ DOMAIN s = 1 .. n
  BY <1>1, <1>2
<1>7. \A x \in F : \E i \in 1 .. n : s[i] = x
  BY <1>5 DEF Surjection
<1> QED
  BY <1>2, <1>6, <1>7 DEF Lines

\* The events newer than an instant come first, whatever the order of ties.
LEMMA NewerFirst ==
  ASSUME NEW F, AreEvents(F), NEW s, IsNewestFirst(s, F), NEW t \in Int, NEW p \in DOMAIN s
  PROVE  /\ Cardinality(NewerThan(F, t)) \in Nat
         /\ s[p].timestamp > t <=> p <= Cardinality(NewerThan(F, t))
<1> DEFINE W == NewerThan(F, t)
           a == Cardinality(W)
<1>1. /\ s \in Seq(F) /\ p \in 1 .. Len(s) /\ Len(s) \in Nat /\ DOMAIN s = 1 .. Len(s)
      /\ \A i \in 1 .. Len(s) : s[i] \in F /\ s[i].timestamp \in Int
      /\ \A i, j \in 1 .. Len(s) : s[i] = s[j] => i = j
      /\ \A i, j \in 1 .. Len(s) : i < j => s[i].timestamp >= s[j].timestamp
      /\ \A x \in F : \E i \in 1 .. Len(s) : s[i] = x
  <2>1. s \in Seq(F) /\ Len(s) \in Nat /\ DOMAIN s = 1 .. Len(s)
    BY DEF IsNewestFirst, Lines
  <2>2. \A i \in 1 .. Len(s) : s[i] \in F
    BY <2>1
  <2> QED BY <2>1, <2>2 DEF IsNewestFirst, Lines, AreEvents
<1>2. IsFiniteSet(W) /\ a \in Nat /\ W = {e \in F : e.timestamp > t}
  <2>1. W \in SUBSET F
    BY DEF NewerThan
  <2> QED BY <2>1, FS_Subset, FS_CardinalityType DEF AreEvents, NewerThan
<1> HIDE DEF W
<1>3. \A q \in Nat : IsFiniteSet(1 .. q) /\ Cardinality(1 .. q) = q
  <2> SUFFICES ASSUME NEW q \in Nat PROVE IsFiniteSet(1 .. q) /\ Cardinality(1 .. q) = q
    OBVIOUS
  <2>1. Cardinality(1 .. q) = IF 1 > q THEN 0 ELSE q - 1 + 1
    BY FS_Interval
  <2> QED BY <2>1, FS_Interval
<1>4. ASSUME s[p].timestamp > t
      PROVE  p <= a
  <2> DEFINE h == [i \in 1 .. p |-> s[i]]
  <2>1. \A i \in 1 .. p : i \in 1 .. Len(s) /\ (i = p \/ i < p)
    BY <1>1
  <2>2. \A i \in 1 .. p : s[i].timestamp >= s[p].timestamp
    BY <1>1, <2>1
  <2>3. \A i \in 1 .. p : s[i] \in W
    BY <1>1, <1>2, <1>4, <2>1, <2>2
  <2>4. h \in [1 .. p -> W]
    BY <2>3
  <2>5. h \in Injection(1 .. p, W)
    BY <1>1, <2>1, <2>4 DEF Injection, IsInjective
  <2> HIDE DEF h
  <2>6. Cardinality(1 .. p) <= a /\ p \in Nat
    BY <1>1, <1>2, <2>5, FS_Injection
  <2> QED BY <1>3, <2>6
<1>5. ASSUME ~(s[p].timestamp > t)
      PROVE  a <= p - 1
  <2> DEFINE D == {i \in 1 .. (p - 1) : s[i] \in W}
             h == [i \in D |-> s[i]]
  <2>1. \A i \in 1 .. (p - 1) : i \in 1 .. Len(s)
    BY <1>1
  <2>2. D \in SUBSET (1 .. (p - 1)) /\ p - 1 \in Nat
    BY <1>1
  <2>3. ASSUME NEW e \in W PROVE \E i \in D : s[i] = e
    <3>1. PICK i \in 1 .. Len(s) : s[i] = e
      BY <1>1, <1>2
    <3>2. ~(p < i) /\ i # p
      BY <1>1, <1>2, <1>5, <3>1
    <3>3. i \in 1 .. (p - 1)
      BY <1>1, <3>1, <3>2
    <3> QED BY <3>1, <3>3
  <2>4. h \in Surjection(D, W)
    <3>1. h \in [D -> W]
      OBVIOUS
    <3>2. \A e \in W : \E i \in D : h[i] = e
      BY <2>3
    <3> HIDE DEF h, D
    <3> QED BY <3>1, <3>2 DEF Surjection
  <2> HIDE DEF h, D
  <2>5. IsFiniteSet(D) /\ Cardinality(D) <= p - 1
    <3>1. IsFiniteSet(1 .. (p - 1)) /\ Cardinality(1 .. (p - 1)) = p - 1
      BY <1>3, <2>2
    <3>2. IsFiniteSet(D) /\ Cardinality(D) <= Cardinality(1 .. (p - 1))
      BY <2>2, <3>1, FS_Subset
    <3> QED BY <3>1, <3>2
  <2>6. a <= Cardinality(D) /\ Cardinality(D) \in Nat
    BY <2>4, <2>5, FS_Surjection, FS_CardinalityType
  <2> QED BY <1>2, <2>2, <2>5, <2>6
<1>6. p \in Nat
  BY <1>1
<1> HIDE DEF a
<1> QED
  BY <1>2, <1>4, <1>5, <1>6 DEF a, W

\* More events, more of them newer.
LEMMA NewerGrows ==
  ASSUME NEW F, NEW G, AreEvents(G), F \subseteq G, NEW t
  PROVE  /\ Cardinality(NewerThan(F, t)) \in Nat
         /\ Cardinality(NewerThan(F, t)) <= Cardinality(NewerThan(G, t))
<1>1. NewerThan(F, t) \in SUBSET NewerThan(G, t) /\ NewerThan(G, t) \in SUBSET G
  BY DEF NewerThan
<1>2. IsFiniteSet(NewerThan(G, t))
  BY <1>1, FS_Subset DEF AreEvents
<1> QED
  BY <1>1, <1>2, FS_Subset, FS_CardinalityType

\* A page of a list, from a place on.
Slice(s, from, size) == SubSeq(s, from + 1, Min({Len(s), from + size}))
\* It has the lines of its places, and where it is full its last line is the last of them.
IsPage(w, s, from, size) ==
    /\ \A p \in DOMAIN s : from < p /\ p <= from + size => s[p] \in ToSet(w)
    /\ \A m \in DOMAIN w : m \in 1 .. size /\ from + m \in DOMAIN s /\ w[m] = s[from + m]
    /\ from + size <= Len(s) => w # << >> /\ Len(w) = size /\ Last(w) = s[from + size]
LEMMA SliceIsPage ==
  ASSUME NEW F, NEW s \in Seq(F), NEW from \in Nat, NEW size \in Nat \ {0}
  PROVE  IsPage(Slice(s, from, size), s, from, size) /\ Slice(s, from, size) \in Seq(F)
<1> DEFINE to == Min({Len(s), from + size})
           w == SubSeq(s, from + 1, to)
<1>1. to = IF Len(s) <= from + size THEN Len(s) ELSE from + size
  BY MinOfTwo
<1>2. to \in Nat /\ to <= Len(s) /\ to <= from + size
  BY <1>1
<1> HIDE DEF to
<1>3. /\ DOMAIN w = 1 .. (to - from)
      /\ \A m \in 1 .. (to - from) : w[m] = s[from + m]
  <2>1. CASE from + 1 <= to
    <3>1. Len(w) = to - from /\ w \in Seq(F)
      BY <1>2, <2>1
    <3>2. \A m \in 1 .. (to - from) : w[m] = s[from + 1 + m - 1]
      BY <1>2, <2>1
    <3> QED BY <1>2, <3>1, <3>2
  <2>2. CASE ~(from + 1 <= to)
    <3>1. w = << >>
      BY <1>2, <2>2
    <3> QED BY <1>2, <2>2, <3>1
  <2> QED BY <2>1, <2>2
<1>8. w \in Seq(F)
  <2>1. CASE from + 1 <= to
    BY <1>2, <2>1
  <2>2. CASE ~(from + 1 <= to)
    <3>1. w = << >>
      BY <1>2, <2>2
    <3> HIDE DEF w
    <3> QED BY <3>1
  <2> QED BY <2>1, <2>2
<1>4. ASSUME NEW p \in DOMAIN s, from < p, p <= from + size
      PROVE  s[p] \in ToSet(w)
  <2>1. p \in 1 .. Len(s) /\ p <= to
    BY <1>1, <1>4
  <2>2. p - from \in 1 .. (to - from) /\ from + (p - from) = p
    BY <1>2, <1>4, <2>1
  <2>3. w[p - from] = s[p]
    BY <1>3, <2>2
  <2> HIDE DEF w
  <2> QED BY <1>3, <2>2, <2>3 DEF ToSet
<1>5. ASSUME NEW m \in DOMAIN w
      PROVE  m \in 1 .. size /\ from + m \in DOMAIN s /\ w[m] = s[from + m]
  <2>1. m \in 1 .. (to - from)
    BY <1>3
  <2>2. m \in 1 .. size /\ from + m \in 1 .. Len(s)
    BY <1>2, <2>1
  <2> HIDE DEF w
  <2> QED BY <1>3, <2>1, <2>2
<1>6. ASSUME from + size <= Len(s)
      PROVE  w # << >> /\ Len(w) = size /\ Last(w) = s[from + size]
  <2>1. to - from = size
    BY <1>1, <1>6
  <2>2. Len(w) = size /\ w # << >>
    <3>1. from + 1 <= to /\ to <= Len(s) /\ to - (from + 1) + 1 = size
      BY <1>2, <2>1
    <3>2. Len(w) = to - (from + 1) + 1
      BY <1>2, <3>1
    <3>3. Len(<< >>) = 0 /\ size # 0
      OBVIOUS
    <3> HIDE DEF w
    <3> QED BY <3>1, <3>2, <3>3
  <2>3. w[size] = s[from + size]
    <3>1. size \in 1 .. (to - from)
      BY <2>1
    <3> HIDE DEF w
    <3> QED BY <1>3, <3>1
  <2> HIDE DEF w
  <2> QED BY <2>2, <2>3 DEF Last
<1>7. IsPage(w, s, from, size)
  <2> HIDE DEF w
  <2> QED BY <1>4, <1>5, <1>6 DEF IsPage
<1> QED BY <1>7, <1>8 DEF to, Slice

\* Order is transitive, and a number is below a range, in it or beyond it.
LEMMA AtMostThrough ==
    ASSUME NEW a \in Int, NEW x \in Nat, NEW y \in Nat, a <= x, x <= y
    PROVE  a <= y
OBVIOUS

LEMMA Between ==
    ASSUME NEW a \in Int, NEW b \in Int, NEW y \in Nat, a <= y, ~(b <= y)
    PROVE  a <= y /\ y < b
OBVIOUS

\* What is never on the page it has climbed to is past the last page.
LEMMA Climbs ==
  ASSUME NEW n \in Nat \ {0}, NEW size \in Nat \ {0}, NEW r \in [1 .. n -> Nat],
         \A i \in 1 .. n : i > 1 => r[i - 1] <= r[i],
         \A i \in 1 .. n : ~((i - 1) * size <= r[i] /\ r[i] < i * size)
  PROVE  n * size <= r[n]
<1> DEFINE B == {i \in 1 .. n : ~(i * size <= r[i])}
           T == {1 .. i : i \in B}
<1>1. \A i \in 1 .. n : i * size <= r[i]
  <2> SUFFICES ASSUME B # {} PROVE FALSE
    OBVIOUS
  <2>1. T \in SUBSET SUBSET (1 .. n) /\ T # {} /\ IsFiniteSet(1 .. n)
    <3>1. \A i \in B : 1 .. i \in SUBSET (1 .. n)
      OBVIOUS
    <3> HIDE DEF B
    <3>2. T \in SUBSET SUBSET (1 .. n) /\ T # {}
      BY <3>1
    <3> QED BY <3>2, FS_Interval
  <2>2. PICK s \in T : \A u \in SUBSET s : u # s => u \notin T
    <3> HIDE DEF T
    <3> QED BY <2>1, LeastSubset
  <2>3. PICK i \in B : s = 1 .. i
    OBVIOUS
  <2>4. CASE i = 1
    <3>1. r[1] \in Nat /\ ~(size <= r[1])
      BY <2>3, <2>4
    <3> QED BY <2>4, <3>1
  <2>5. CASE i # 1
    <3>1. i - 1 \in 1 .. n /\ i - 1 < i /\ i > 1
      BY <2>5
    <3>2. 1 .. (i - 1) \in SUBSET s /\ i \in s /\ i \notin 1 .. (i - 1)
      BY <2>3, <3>1
    <3>3. 1 .. (i - 1) \notin T
      <4> HIDE DEF T
      <4> QED BY <2>2, <3>2
    <3>4. i - 1 \notin B
      BY <3>3
    <3>5. (i - 1) * size <= r[i - 1]
      BY <3>1, <3>4
    <3>6. r[i - 1] <= r[i] /\ r[i] \in Nat /\ r[i - 1] \in Nat
      BY <3>1
    <3>7. (i - 1) * size \in Int /\ i * size \in Int
      BY SMTT(30)
    <3>8. (i - 1) * size <= r[i]
      BY <3>5, <3>6, <3>7, AtMostThrough, Zenon
    <3>9. ~((i - 1) * size <= r[i] /\ r[i] < i * size)
      BY Zenon
    <3>10. ~(i * size <= r[i])
      BY Zenon
    <3> QED BY <3>6, <3>7, <3>8, <3>9, <3>10, Between, Zenon
  <2> QED BY <2>4, <2>5
<1> QED
  BY <1>1

\* The pages of a walk: the events each is read from, the order they are read in.
IsWalk(F, s, n) ==
    /\ \A i \in 1 .. n : AreEvents(F[i]) /\ IsNewestFirst(s[i], F[i])
    /\ \A i \in 1 .. n : i > 1 => F[i - 1] \subseteq F[i]

\* An event there was at the first page is on one of the pages, of the instant one of them is cut
\* at, or older than the last of them.
LEMMA FeedReaches ==
  ASSUME NEW size \in Nat \ {0}, NEW n \in Nat \ {0}, NEW F, NEW s, IsWalk(F, s, n), NEW k \in F[1],
         \A i \in 1 .. n : LET page == Slice(s[i], (i - 1) * size, size)
                           IN  k \notin ToSet(page) /\ (Len(page) = size => Last(page).timestamp # k.timestamp)
  PROVE  LET page == Slice(s[n], (n - 1) * size, size)
         IN  page # << >> /\ k.timestamp < Last(page).timestamp
<1> DEFINE t == k.timestamp
           r == [i \in 1 .. n |-> Cardinality(NewerThan(F[i], t))]
           page(i) == Slice(s[i], (i - 1) * size, size)
<1>0. 1 \in 1 .. n /\ n \in 1 .. n
  OBVIOUS
<1>1. \A i \in 1 .. n : k \in F[i]
  <2> DEFINE B == {i \in 1 .. n : k \notin F[i]}
             T == {1 .. i : i \in B}
  <2> SUFFICES ASSUME B # {} PROVE FALSE
    OBVIOUS
  <2>1. T \in SUBSET SUBSET (1 .. n) /\ T # {} /\ IsFiniteSet(1 .. n)
    <3>1. \A i \in B : 1 .. i \in SUBSET (1 .. n)
      OBVIOUS
    <3> HIDE DEF B
    <3>2. T \in SUBSET SUBSET (1 .. n) /\ T # {}
      BY <3>1
    <3> QED BY <3>2, FS_Interval
  <2>2. PICK u \in T : \A v \in SUBSET u : v # u => v \notin T
    <3> HIDE DEF T
    <3> QED BY <2>1, LeastSubset
  <2>3. PICK i \in B : u = 1 .. i
    OBVIOUS
  <2>4. i # 1
    OBVIOUS
  <2>5. i - 1 \in 1 .. n /\ i > 1
    BY <2>4
  <2>6. 1 .. (i - 1) \in SUBSET u /\ i \in u /\ i \notin 1 .. (i - 1)
    BY <2>3, <2>5
  <2>7. 1 .. (i - 1) \notin T
    <3> HIDE DEF T
    <3> QED BY <2>2, <2>6
  <2>8. k \in F[i - 1]
    BY <2>5, <2>7
  <2>9. F[i - 1] \subseteq F[i]
    BY <2>5 DEF IsWalk
  <2> QED BY <2>8, <2>9
<1>2. t \in Int
  BY <1>0, <1>1 DEF IsWalk, AreEvents
<1> HIDE DEF t
<1>3. r \in [1 .. n -> Nat] /\ \A i \in 1 .. n : i > 1 => r[i - 1] <= r[i]
  <2>1. \A i \in 1 .. n : Cardinality(NewerThan(F[i], t)) \in Nat
    BY NewerGrows DEF IsWalk
  <2>2. ASSUME NEW i \in 1 .. n, i > 1 PROVE r[i - 1] <= r[i]
    <3>1. i - 1 \in 1 .. n
      BY <2>2
    <3>2. Cardinality(NewerThan(F[i - 1], t)) <= Cardinality(NewerThan(F[i], t))
      BY <2>2, NewerGrows DEF IsWalk
    <3> QED BY <3>1, <3>2
  <2> QED BY <2>1, <2>2
<1>4. ASSUME NEW i \in 1 .. n
      PROVE  /\ s[i] \in Seq(F[i]) /\ Len(s[i]) \in Nat /\ DOMAIN s[i] = 1 .. Len(s[i])
             /\ \A p \in 1 .. Len(s[i]) : s[i][p] \in F[i] /\ s[i][p].timestamp \in Int
             /\ \A p, q \in 1 .. Len(s[i]) : p < q => s[i][p].timestamp >= s[i][q].timestamp
             /\ \A p \in 1 .. Len(s[i]) : s[i][p].timestamp > t <=> p <= r[i]
             /\ (i - 1) * size \in Nat /\ i * size = (i - 1) * size + size
             /\ IsPage(page(i), s[i], (i - 1) * size, size)
  <2>1. AreEvents(F[i]) /\ IsNewestFirst(s[i], F[i])
    BY DEF IsWalk
  <2>2. s[i] \in Seq(F[i]) /\ Len(s[i]) \in Nat /\ DOMAIN s[i] = 1 .. Len(s[i])
    BY <2>1 DEF IsNewestFirst, Lines
  <2>3. \A p \in 1 .. Len(s[i]) : s[i][p] \in F[i]
    BY <2>2
  <2>4. \A p \in 1 .. Len(s[i]) : s[i][p].timestamp > t <=> p <= r[i]
    BY <1>2, <2>1, <2>2, NewerFirst
  <2>5. (i - 1) * size \in Nat /\ i * size = (i - 1) * size + size
    OBVIOUS
  <2>6. IsPage(page(i), s[i], (i - 1) * size, size)
    BY <2>2, <2>5, SliceIsPage
  <2> HIDE DEF r, page
  <2> QED BY <2>1, <2>2, <2>3, <2>4, <2>5, <2>6 DEF IsNewestFirst, AreEvents
<1>5. \A i \in 1 .. n : k \notin ToSet(page(i)) /\ (Len(page(i)) = size => Last(page(i)).timestamp # t)
  BY DEF t
<1> HIDE DEF r, page
<1>6. \A i \in 1 .. n : ~((i - 1) * size <= r[i] /\ r[i] < i * size)
  <2> SUFFICES ASSUME NEW i \in 1 .. n, (i - 1) * size <= r[i], r[i] < i * size PROVE FALSE
    OBVIOUS
  <2> DEFINE from == (i - 1) * size
  <2>1. from \in Nat /\ i * size = from + size /\ r[i] \in Nat
    BY <1>3, <1>4
  <2>2. PICK p \in 1 .. Len(s[i]) : s[i][p] = k
    <3>1. Lines(s[i], F[i])
      BY DEF IsWalk, IsNewestFirst
    <3> QED BY <1>1, <1>4, <3>1 DEF Lines
  <2>3. IsPage(page(i), s[i], from, size) /\ from <= r[i] /\ r[i] < from + size
    BY <1>4, <2>1
  <2>4. Len(s[i]) \in Nat /\ DOMAIN s[i] = 1 .. Len(s[i])
    BY <1>4
  <2> HIDE DEF from
  <2>5. ~(p <= r[i])
    <3>1. ~(s[i][p].timestamp > t)
      BY <1>2, <2>2 DEF t
    <3> QED BY <1>4, <3>1
  <2>6. from < p
    BY <2>1, <2>2, <2>3, <2>5
  <2>7. ~(p <= from + size)
    <3>1. \A q \in DOMAIN s[i] : from < q /\ q <= from + size => s[i][q] \in ToSet(page(i))
      BY <2>3 DEF IsPage
    <3>2. p \in DOMAIN s[i] /\ k \notin ToSet(page(i))
      BY <1>5, <2>4
    <3> QED BY <2>2, <2>6, <3>1, <3>2
  <2>8. from + size \in 1 .. Len(s[i]) /\ from + size < p /\ ~(from + size <= r[i])
    BY <2>1, <2>2, <2>3, <2>4, <2>7
  <2>9. Len(page(i)) = size /\ Last(page(i)) = s[i][from + size]
    BY <2>3, <2>4, <2>8 DEF IsPage
  <2>10. ~(s[i][from + size].timestamp > t) /\ s[i][from + size].timestamp >= t
    BY <1>4, <2>2, <2>8 DEF t
  <2>11. s[i][from + size].timestamp \in Int
    BY <1>4, <2>8
  <2> QED BY <1>2, <1>5, <2>9, <2>10, <2>11
<1>7. n * size <= r[n]
  BY <1>3, <1>6, Climbs
<1> DEFINE from == (n - 1) * size
<1>8. /\ from \in Nat /\ n * size = from + size /\ r[n] \in Nat
      /\ IsPage(page(n), s[n], from, size) /\ from + size <= r[n]
  BY <1>0, <1>3, <1>4, <1>7
<1> HIDE DEF from
<1>9. from + size \in 1 .. Len(s[n])
  <2>1. PICK p \in 1 .. Len(s[n]) : s[n][p] = k
    <3>1. Lines(s[n], F[n])
      BY <1>0 DEF IsWalk, IsNewestFirst
    <3> QED BY <1>0, <1>1, <1>4, <3>1 DEF Lines
  <2>2. ~(p <= r[n])
    <3>1. ~(s[n][p].timestamp > t)
      BY <1>2, <2>1 DEF t
    <3> QED BY <1>0, <1>4, <3>1
  <2>3. Len(s[n]) \in Nat
    BY <1>0, <1>4
  <2> QED BY <1>8, <2>1, <2>2, <2>3
<1>10. s[n][from + size].timestamp > t
  BY <1>0, <1>4, <1>8, <1>9
<1>11. from + size <= Len(s[n])
  BY <1>9
<1>12. page(n) # << >> /\ Last(page(n)) = s[n][from + size]
  BY <1>8, <1>11 DEF IsPage
<1>13. s[n][from + size].timestamp \in Int
  BY <1>0, <1>4, <1>9
<1> QED
  BY <1>2, <1>10, <1>12, <1>13 DEF page, t

\* An event on two pages that were read from the same events is of the instant the first is cut at.
LEMMA FeedRepeats ==
  ASSUME NEW size \in Nat \ {0}, NEW F, AreEvents(F), NEW s, IsNewestFirst(s, F), NEW r, IsNewestFirst(r, F),
         NEW f \in Nat, NEW g \in Nat, f + size <= g,
         NEW v, v = Slice(s, f, size), NEW w, w = Slice(r, g, size),
         NEW a \in DOMAIN v, NEW b \in DOMAIN w, v[a] = w[b]
  PROVE  Len(v) = size /\ v # << >> /\ Last(v).timestamp = v[a].timestamp
<1>1. /\ s \in Seq(F) /\ r \in Seq(F) /\ Len(s) \in Nat /\ Len(r) \in Nat
      /\ DOMAIN s = 1 .. Len(s) /\ DOMAIN r = 1 .. Len(r)
  BY DEF IsNewestFirst, Lines
<1>2. IsPage(v, s, f, size) /\ IsPage(w, r, g, size)
  BY <1>1, SliceIsPage
<1>3. /\ a \in 1 .. size /\ f + a \in 1 .. Len(s) /\ v[a] = s[f + a]
      /\ b \in 1 .. size /\ g + b \in 1 .. Len(r) /\ w[b] = r[g + b]
  BY <1>1, <1>2 DEF IsPage
<1> DEFINE t == v[a].timestamp
           c == Cardinality(NewerThan(F, t - 1))
<1>4. t \in Int /\ \A p \in 1 .. Len(s) : s[p].timestamp \in Int
  <2>1. \A p \in 1 .. Len(s) : s[p] \in F
    BY <1>1
  <2> QED BY <1>3, <2>1 DEF AreEvents
<1> HIDE DEF t
<1>5. c \in Nat /\ g + b <= c
  <2>1. r[g + b].timestamp > t - 1
    <3>1. r[g + b].timestamp = t
      BY <1>3 DEF t
    <3>2. t \in Int
      BY <1>4
    <3> QED BY <3>1, <3>2
  <2>2. g + b \in DOMAIN r /\ t - 1 \in Int
    BY <1>1, <1>3, <1>4
  <2>3. c \in Nat /\ (r[g + b].timestamp > t - 1 <=> g + b <= c)
    BY <2>2, NewerFirst
  <2> QED BY <2>1, <2>3
<1>6. Len(s) = Len(r)
  BY LinesCount, <1>1 DEF IsNewestFirst, AreEvents
<1>7. f + size \in 1 .. Len(s) /\ f + size <= c
  BY <1>1, <1>3, <1>5, <1>6
<1>8. s[f + size].timestamp > t - 1
  BY <1>1, <1>4, <1>5, <1>7, NewerFirst
<1>9. s[f + size].timestamp <= t
  <2>1. CASE a = size
    BY <1>3, <1>4, <2>1 DEF t
  <2>2. CASE a # size
    <3>1. f + a < f + size
      BY <1>3, <2>2
    <3>2. s[f + a].timestamp >= s[f + size].timestamp
      BY <1>1, <1>3, <1>7, <3>1 DEF IsNewestFirst
    <3> QED BY <1>3, <1>4, <1>7, <3>2 DEF t
  <2> QED BY <2>1, <2>2
<1>10. Len(v) = size /\ v # << >> /\ Last(v) = s[f + size]
  BY <1>2, <1>7 DEF IsPage
<1> QED
  BY <1>4, <1>7, <1>8, <1>9, <1>10 DEF t

\* A page starts where an earlier one has ended.
LEMMA PagesApart ==
  ASSUME NEW size \in Nat \ {0}, NEW i \in Nat, NEW j \in Nat, i < j
  PROVE  i * size \in Nat /\ j * size \in Nat /\ i * size + size <= j * size
<1>1. PICK m \in Nat : j = i + 1 + m
  <2>1. j - i - 1 \in Nat /\ j = i + 1 + (j - i - 1)
    OBVIOUS
  <2> QED BY <2>1
<1>2. m * size \in Nat /\ i * size \in Nat
  OBVIOUS
<1>3. j * size = i * size + size + m * size
  BY <1>1
<1> QED
  BY <1>2, <1>3

\* On one page an event is once.
LEMMA PageOnce ==
  ASSUME NEW size \in Nat \ {0}, NEW F, NEW s, Lines(s, F), NEW i \in Nat, NEW v, v = Slice(s, i * size, size),
         NEW a \in DOMAIN v, NEW b \in DOMAIN v, v[a] = v[b]
  PROVE  a = b
<1> DEFINE f == i * size
<1>1. f \in Nat /\ s \in Seq(F) /\ \A p, q \in DOMAIN s : s[p] = s[q] => p = q
  BY DEF Lines
<1> HIDE DEF f
<1>2. IsPage(v, s, f, size)
  BY <1>1, SliceIsPage DEF f
<1>3. /\ a \in 1 .. size /\ f + a \in DOMAIN s /\ v[a] = s[f + a]
      /\ b \in 1 .. size /\ f + b \in DOMAIN s /\ v[b] = s[f + b]
  BY <1>2 DEF IsPage
<1>4. f + a = f + b
  BY <1>1, <1>3
<1> QED
  BY <1>1, <1>3, <1>4

-----------------------------------------------------------------------------
\* The events a page is read from are a finite set, and more later.
Events == [id : Nat, tipo : Tipos, timestamp : Instants]
LogType == Seq([tipo : Tipos, timestamp : Instants])
EventsOf(n, tipo) == EventosDe(EventsAt(n), tipo)
LEMMA EventsAre ==
  ASSUME FeedAssumption, log \in LogType, NEW n \in 0 .. Len(log), NEW tipo
  PROVE  AreEvents(EventsOf(n, tipo)) /\ EventsOf(n, tipo) \subseteq Events
<1> DEFINE E == EventsAt(n)
           h == [e \in E |-> e.id]
<1>1. \A i \in 1 .. n : log[i] \in [tipo : Tipos, timestamp : Instants] /\ i \in Nat
  <2>1. Len(log) \in Nat /\ \A i \in 1 .. Len(log) : log[i] \in [tipo : Tipos, timestamp : Instants]
    <3> DEFINE S == [tipo : Tipos, timestamp : Instants]
    <3>1. log \in Seq(S)
      BY DEF LogType
    <3> HIDE DEF S
    <3>2. Len(log) \in Nat /\ \A i \in 1 .. Len(log) : log[i] \in S
      BY <3>1
    <3> QED BY <3>2 DEF S
  <2>2. \A i \in 1 .. n : i \in 1 .. Len(log) /\ i \in Nat
    BY <2>1
  <2> QED BY <2>1, <2>2
<1>2. \A e \in E : \E i \in 1 .. n : e = [id |-> i, tipo |-> log[i].tipo, timestamp |-> log[i].timestamp]
  BY DEF EventsAt
<1> HIDE DEF E
<1>3. E \subseteq Events
  <2> SUFFICES ASSUME NEW e \in E PROVE e \in Events
    OBVIOUS
  <2>1. PICK i \in 1 .. n : e = [id |-> i, tipo |-> log[i].tipo, timestamp |-> log[i].timestamp]
    BY <1>2
  <2>2. i \in Nat /\ log[i].tipo \in Tipos /\ log[i].timestamp \in Instants
    BY <1>1
  <2> QED BY <2>1, <2>2 DEF Events
<1>4. IsFiniteSet(E)
  <2>1. \A e \in E : e.id \in 1 .. n
    BY <1>2
  <2>2. ASSUME NEW e \in E, NEW f \in E, e.id = f.id PROVE e = f
    <3>1. PICK i \in 1 .. n : e = [id |-> i, tipo |-> log[i].tipo, timestamp |-> log[i].timestamp]
      BY <1>2
    <3>2. PICK j \in 1 .. n : f = [id |-> j, tipo |-> log[j].tipo, timestamp |-> log[j].timestamp]
      BY <1>2
    <3>3. i = j
      BY <2>2, <3>1, <3>2
    <3> QED BY <3>1, <3>2, <3>3
  <2>3. h \in Injection(E, 1 .. n)
    BY <2>1, <2>2 DEF Injection, IsInjective
  <2> HIDE DEF h
  <2> QED BY <2>3, FS_Injection, FS_Interval
<1>5. EventsOf(n, tipo) \in SUBSET E
  BY DEF EventsOf, EventosDe, E
<1>6. IsFiniteSet(EventsOf(n, tipo))
  BY <1>4, <1>5, FS_Subset
<1>7. \A e \in Events : e.timestamp \in Int
  BY DEF Events, FeedAssumption
<1> QED
  BY <1>3, <1>5, <1>6, <1>7 DEF AreEvents

\* What was there stays.
LEMMA EventsGrow ==
  ASSUME NEW n \in Nat, NEW m \in Nat, n <= m, NEW tipo
  PROVE  EventsOf(n, tipo) \subseteq EventsOf(m, tipo)
<1>1. \A i \in 1 .. n : i \in 1 .. m
  OBVIOUS
<1> QED
  BY <1>1 DEF EventsOf, EventosDe, EventsAt

\* A page of the API is a stretch of its events in some order.
LEMMA PageIsSlice ==
  ASSUME FeedAssumption, log \in LogType, NEW key, NEW page, IsFeedPage(key, page)
  PROVE  \E s : IsNewestFirst(s, EventsOf(page.rows, key[1])) /\ page.eventos = Slice(s, key[2] * key[3], key[3])
<1> DEFINE n == page.rows
           F == EventsOf(n, key[1])
           opts == [tipo |-> key[1], limit |-> key[3], offset |-> key[2] * key[3]]
<1>1. n \in 0 .. Len(log) /\ page.eventos \in ListEventos(EventsAt(n), opts)
  BY DEF IsFeedPage, FeedPages
<1>2. PICK s \in SetToSeqs(F) : /\ \A i, j \in DOMAIN s : i < j => s[i].timestamp >= s[j].timestamp
                               /\ page.eventos = SubSeq(s, opts.offset + 1, Min({Len(s), opts.offset + opts.limit}))
  <2>1. EventosDe(EventsAt(n), opts.tipo) = F
    BY DEF EventsOf
  <2> HIDE DEF opts, F
  <2> QED BY <1>1, <2>1 DEF ListEventos
<1>3. page.eventos = Slice(s, key[2] * key[3], key[3])
  BY <1>2 DEF Slice
<1>4. Lines(s, F)
  <2>1. IsFiniteSet(F)
    BY <1>1, EventsAre DEF AreEvents
  <2> HIDE DEF F
  <2> QED BY <2>1, OrdersList
<1> QED
  BY <1>2, <1>3, <1>4 DEF IsNewestFirst

\* FeedSkipsNothing follows from how the user came to the page.
LEMMA FeedIsWhole ==
  ASSUME FeedAssumption, FeedInv
  PROVE  FeedSkipsNothing
<1> SUFFICES ASSUME FeedLoaded PROVE FeedSkipsNothing
  BY DEF FeedSkipsNothing
<1> DEFINE path == FeedPath
           n == Len(path)
           tipo == feed.tipo
           size == feed.tamanho
           F == [i \in 1 .. n |-> EventsOf(path[i].rows, tipo)]
           IsOf(r, i) == IsNewestFirst(r, F[i]) /\ path[i].eventos = Slice(r, (i - 1) * size, size)
           s == [i \in 1 .. n |-> CHOOSE r : IsOf(r, i)]
<1>1. /\ log \in LogType /\ Len(log) \in Nat
      /\ feed.pagina \in Nat /\ feed.pagina = Len(feed.path) /\ size \in Nat \ {0}
      /\ DOMAIN feed.path = 1 .. feed.pagina
  <2>1. log \in LogType /\ feed.pagina \in Nat /\ size \in FeedSizes /\ feed.pagina = Len(feed.path)
    BY DEF FeedInv, LogType
  <2>2. \E S : feed.path \in Seq(S)
    BY DEF FeedInv
  <2>3. size \in Nat \ {0}
    <3>1. FeedSizes \subseteq 1 .. 200
      BY DEF FeedAssumption
    <3>2. \A m \in 1 .. 200 : m \in Nat \ {0}
      OBVIOUS
    <3> QED BY <2>1, <3>1, <3>2
  <2> HIDE DEF size
  <2> QED BY <2>1, <2>2, <2>3 DEF LogType
<1>2. /\ n = feed.pagina + 1 /\ n \in Nat \ {0} /\ DOMAIN path = 1 .. n /\ path[n] = FeedShown
      /\ \A i \in 1 .. feed.pagina : path[i] = feed.path[i]
  <2>1. PICK S : feed.path \in Seq(S)
    BY DEF FeedInv
  <2>2. path = Append(feed.path, FeedShown)
    BY DEF FeedPath
  <2>3. feed.path \in Seq(S \cup {FeedShown}) /\ FeedShown \in S \cup {FeedShown}
    BY <2>1
  <2> HIDE DEF path
  <2> QED BY <1>1, <2>2, <2>3
<1> HIDE DEF n, path
<1>3. \A i \in 1 .. n : IsFeedPage(<<tipo, i - 1, size>>, path[i])
  <2> SUFFICES ASSUME NEW i \in 1 .. n PROVE IsFeedPage(<<tipo, i - 1, size>>, path[i])
    OBVIOUS
  <2>1. CASE i = n
    <3>1. IsFeedPage(FeedKey(feed), FeedShown)
      BY DEF FeedInv, FeedLoaded, FeedShown
    <3>2. FeedKey(feed) = <<tipo, i - 1, size>>
      BY <1>1, <1>2, <2>1 DEF FeedKey
    <3> QED BY <1>2, <2>1, <3>1, <3>2
  <2>2. CASE i # n
    <3>1. i \in 1 .. feed.pagina
      BY <1>1, <1>2, <2>2
    <3> QED BY <1>1, <1>2, <3>1 DEF FeedInv
  <2> QED BY <2>1, <2>2
<1>4. ASSUME NEW i \in 1 .. n
      PROVE  path[i].rows \in 0 .. Len(log) /\ AreEvents(F[i]) /\ IsOf(s[i], i)
  <2>1. path[i].rows \in 0 .. Len(log) /\ path[i].eventos \in FeedPages(<<tipo, i - 1, size>>, path[i].rows)
    BY <1>3 DEF IsFeedPage
  <2>2. i - 1 \in Nat /\ F[i] = EventsOf(path[i].rows, tipo)
    OBVIOUS
  <2>3. AreEvents(F[i])
    BY <1>1, <2>1, <2>2, EventsAre
  <2>4. \E r : IsOf(r, i)
    <3> DEFINE key == <<tipo, i - 1, size>>
    <3>1. IsFeedPage(key, path[i])
      BY <1>3
    <3>2. key[1] = tipo /\ key[2] = i - 1 /\ key[3] = size
      OBVIOUS
    <3> HIDE DEF key, tipo, size, F
    <3>3. \E r : IsNewestFirst(r, EventsOf(path[i].rows, key[1])) /\ path[i].eventos = Slice(r, key[2] * key[3], key[3])
      BY <1>1, <3>1, PageIsSlice
    <3> QED BY <2>2, <3>2, <3>3
  <2>5. s[i] = CHOOSE r : IsOf(r, i)
    OBVIOUS
  <2> HIDE DEF IsOf, s, F
  <2> QED BY <2>1, <2>3, <2>4, <2>5
<1> DEFINE seen == UNION {ToSet(path[i].eventos) : i \in DOMAIN path}
           owed == EventosDe(EventsAt(path[1].rows), feed.tipo)
           cut == CutInstants(path)
           inOrder == \A i \in 2 .. Len(path) : path[i - 1].rows <= path[i].rows
           quiet == \A i \in DOMAIN path : path[i].rows = path[1].rows
<1>0. 1 \in 1 .. n /\ n \in 1 .. n
  BY <1>2
<1>5. F[1] = owed
  BY <1>0 DEF EventsOf
<1>6. \A i \in 1 .. n : Len(path[i].eventos) = size => Last(path[i].eventos).timestamp \in cut
  BY <1>2 DEF CutInstants
<1> HIDE DEF s, F
<1>7. ASSUME inOrder, NEW e \in owed \ seen, e.timestamp \notin cut
      PROVE  FeedShown.eventos # << >> /\ e.timestamp < Last(FeedShown.eventos).timestamp
  <2>1. ASSUME NEW i \in 1 .. n, i > 1 PROVE F[i - 1] \subseteq F[i]
    <3>1. i - 1 \in 1 .. n /\ i \in 2 .. n
      BY <1>2, <2>1
    <3>2. path[i - 1].rows <= path[i].rows
      BY <1>7, <3>1 DEF n
    <3>3. path[i - 1].rows \in Nat /\ path[i].rows \in Nat
      BY <1>1, <1>4, <3>1
    <3> QED BY <3>1, <3>2, <3>3, EventsGrow DEF F
  <2>2. IsWalk(F, s, n)
    BY <1>4, <2>1 DEF IsWalk
  <2>3. e \in F[1]
    BY <1>5
  <2>4. \A i \in 1 .. n : path[i].eventos = Slice(s[i], (i - 1) * size, size)
    BY <1>4
  <2>5. \A i \in 1 .. n : e \notin ToSet(path[i].eventos)
    BY <1>2
  <2> HIDE DEF size, cut, seen, owed, inOrder
  <2>6. \A i \in 1 .. n : LET page == Slice(s[i], (i - 1) * size, size)
                          IN  e \notin ToSet(page) /\ (Len(page) = size => Last(page).timestamp # e.timestamp)
    BY <1>6, <1>7, <2>4, <2>5
  <2>7. LET page == Slice(s[n], (n - 1) * size, size)
        IN  page # << >> /\ e.timestamp < Last(page).timestamp
    BY <1>1, <1>2, <2>2, <2>3, <2>6, FeedReaches
  <2> QED BY <1>0, <1>2, <2>4, <2>7
<1>8. ASSUME quiet, NEW i \in DOMAIN path, NEW j \in DOMAIN path,
             NEW a \in DOMAIN path[i].eventos, NEW b \in DOMAIN path[j].eventos,
             path[i].eventos[a] = path[j].eventos[b]
      PROVE  (i = j /\ a = b) \/ path[i].eventos[a].timestamp \in cut
  <2>1. i \in 1 .. n /\ j \in 1 .. n /\ i - 1 \in Nat /\ j - 1 \in Nat
    BY <1>2
  <2>2. F[i] = F[j]
    BY <1>8, <2>1 DEF F
  <2>3. /\ AreEvents(F[i]) /\ IsNewestFirst(s[i], F[i]) /\ IsNewestFirst(s[j], F[i])
        /\ path[i].eventos = Slice(s[i], (i - 1) * size, size) /\ path[j].eventos = Slice(s[j], (j - 1) * size, size)
    BY <1>4, <2>1, <2>2
  <2> DEFINE v == path[i].eventos
             w == path[j].eventos
  <2>0. v[a] = w[b] /\ a \in DOMAIN v /\ b \in DOMAIN w /\ size \in Nat \ {0}
    BY <1>1, <1>8
  <2> HIDE DEF size, cut, seen, owed, inOrder, quiet
  <2>4. CASE i = j
    <3>1. Lines(s[i], F[i])
      BY <2>3 DEF IsNewestFirst
    <3>2. a = b
      <4> DEFINE p == i - 1
      <4>1. v = w /\ v = Slice(s[i], p * size, size) /\ p \in Nat
        BY <2>1, <2>3, <2>4
      <4> HIDE DEF v, w, p
      <4> QED BY <2>0, <3>1, <4>1, PageOnce
    <3> QED BY <2>4, <3>2
  <2>5. CASE i < j
    <3>1. i - 1 < j - 1
      BY <2>1, <2>5
    <3>2. Len(path[i].eventos) = size /\ Last(path[i].eventos).timestamp = path[i].eventos[a].timestamp
      <4> DEFINE p == (i - 1) * size
                 q == (j - 1) * size
      <4>1. p \in Nat /\ q \in Nat /\ v = Slice(s[i], p, size) /\ w = Slice(s[j], q, size) /\ p + size <= q
        BY <2>0, <2>1, <2>3, <3>1, PagesApart
      <4> HIDE DEF v, w, p, q
      <4>2. Len(v) = size /\ Last(v).timestamp = v[a].timestamp
        BY <2>0, <2>3, <4>1, FeedRepeats
      <4> QED BY <4>2 DEF v
    <3> QED BY <1>6, <2>1, <3>2
  <2>6. CASE j < i
    <3>1. j - 1 < i - 1
      BY <2>1, <2>6
    <3>2. Len(path[j].eventos) = size /\ Last(path[j].eventos).timestamp = path[j].eventos[b].timestamp
      <4> DEFINE p == (i - 1) * size
                 q == (j - 1) * size
      <4>1. p \in Nat /\ q \in Nat /\ v = Slice(s[i], p, size) /\ w = Slice(s[j], q, size) /\ q + size <= p
        BY <2>0, <2>1, <2>3, <3>1, PagesApart
      <4> HIDE DEF v, w, p, q
      <4>2. Len(w) = size /\ Last(w).timestamp = w[b].timestamp
        BY <2>0, <2>3, <4>1, FeedRepeats
      <4> QED BY <4>2 DEF w
    <3> QED BY <1>6, <1>8, <2>1, <3>2
  <2> QED BY <2>1, <2>4, <2>5, <2>6
<1> HIDE DEF seen, owed, cut, inOrder, quiet
<1>9. inOrder => /\ \A e \in owed \ seen :
                        \/ e.timestamp \in cut
                        \/ FeedShown.eventos # << >> /\ e.timestamp < Last(FeedShown.eventos).timestamp
                 /\ quiet => \A i, j \in DOMAIN path :
                        \A a \in DOMAIN path[i].eventos, b \in DOMAIN path[j].eventos :
                            path[i].eventos[a] = path[j].eventos[b] =>
                                (i = j /\ a = b) \/ path[i].eventos[a].timestamp \in cut
  BY <1>7, <1>8
<1> QED
  BY <1>9 DEF FeedSkipsNothing, seen, owed, cut, inOrder, quiet, path

\* What a page was read from stays, whatever is logged later.
LEMMA PageStays ==
  ASSUME log \in LogType, log' \in LogType, Len(log) <= Len(log'), \A i \in 1 .. Len(log) : log'[i] = log[i],
         NEW key, NEW page, IsFeedPage(key, page)
  PROVE  IsFeedPage(key, page)'
<1> DEFINE n == page.rows
<1>1. n \in 0 .. Len(log) /\ page.eventos \in ListEventos(EventsAt(n), [tipo |-> key[1], limit |-> key[3], offset |-> key[2] * key[3]])
  BY DEF IsFeedPage, FeedPages
<1>2. Len(log) \in Nat /\ Len(log') \in Nat
  BY DEF LogType
<1>3. \A i \in 1 .. n : log'[i] = log[i]
  <2>1. \A i \in 1 .. n : i \in 1 .. Len(log)
    BY <1>1, <1>2
  <2> QED BY <2>1
<1>4. EventsAt(n)' = EventsAt(n)
  BY <1>3 DEF EventsAt
<1>5. n \in 0 .. Len(log')
  BY <1>1, <1>2
<1> QED
  BY <1>1, <1>4, <1>5 DEF IsFeedPage, FeedPages

\* A page has the type that "path" keeps.
Screens == [total : Nat, rows : Nat, eventos : Seq(Events)]
LEMMA PageTyped ==
  ASSUME FeedAssumption, log \in LogType, NEW key, key[2] \in Nat, key[3] \in FeedSizes,
         NEW page, IsFeedPage(key, page)
  PROVE  page.rows \in Nat /\ page.eventos \in Seq(Events)
<1> DEFINE F == EventsOf(page.rows, key[1])
           from == key[2] * key[3]
<1>1. page.rows \in 0 .. Len(log) /\ Len(log) \in Nat
  BY DEF IsFeedPage, LogType
<1>2. F \subseteq Events
  BY <1>1, EventsAre
<1>3. key[3] \in Nat \ {0} /\ from \in Nat
  <2>1. \A m \in 1 .. 200 : m \in Nat \ {0}
    OBVIOUS
  <2>2. key[3] \in Nat \ {0}
    BY <2>1 DEF FeedAssumption
  <2> QED BY <2>2
<1>4. PICK s : IsNewestFirst(s, F) /\ page.eventos = Slice(s, from, key[3])
  BY PageIsSlice
<1> HIDE DEF F, from
<1>5. s \in Seq(F)
  BY <1>4 DEF IsNewestFirst, Lines
<1>6. s \in Seq(Events)
  BY <1>2, <1>5
<1>7. page.eventos \in Seq(Events)
  BY <1>3, <1>4, <1>6, SliceIsPage
<1> QED
  BY <1>1, <1>7

\* What FeedInv says of the screen, and of the pages that were fetched.
FeedOf(f) ==
    /\ f \in [tipo : FeedTypes, pagina : Nat, tamanho : FeedSizes, path : Seq(Screens)]
    /\ f.pagina = Len(f.path)
    /\ \A i \in DOMAIN f.path : IsFeedPage(<<f.tipo, i - 1, f.tamanho>>, f.path[i])
PagesKept ==
    /\ \A key \in DOMAIN eventos : IsFeedPage(key, eventos[key]) /\ IsAnswer(eventos[key])
    /\ \A key \in DOMAIN counted : counted[key] \in Nat
LEMMA FeedParts == FeedInv <=> log \in LogType /\ FeedOf(feed) /\ PagesKept
BY DEF FeedInv, LogType, FeedOf, PagesKept, Screens, Events

\* A turn keeps it, when the screen it comes to is such a screen.
LEMMA FeedTurns ==
  ASSUME FeedInv, NEW f, FeedOf(f), GoToEvents(f)
  PROVE  FeedInv'
<1>1. log' = log /\ feed' = f /\ eventos' = eventos /\ counted' = counted
  BY DEF GoToEvents
<1>2. \A key, page : IsFeedPage(key, page)' <=> IsFeedPage(key, page)
  BY <1>1 DEF IsFeedPage, FeedPages, EventsAt
<1>3. log \in LogType /\ PagesKept
  BY FeedParts
<1>4. PagesKept'
  BY <1>1, <1>2, <1>3 DEF PagesKept
<1>5. FeedOf(feed)'
  BY <1>1, <1>2 DEF FeedOf
<1>6. (log \in LogType)'
  BY <1>1, <1>3 DEF LogType
<1>7. (FeedInv <=> log \in LogType /\ FeedOf(feed) /\ PagesKept)'
  BY FeedParts, PTL
<1> QED
  BY <1>4, <1>5, <1>6, <1>7

\* A turn of the screen, whatever its fields are taken from.
LEMMA FeedWith ==
  ASSUME NEW A, NEW B, NEW C, NEW D, NEW f \in [tipo : A, pagina : B, tamanho : C, path : D],
         NEW a \in A, NEW b \in B, NEW c \in C, NEW d \in D
  PROVE  /\ LET g == [f EXCEPT !.pagina = b, !.path = d]
            IN  /\ g \in [tipo : A, pagina : B, tamanho : C, path : D]
                /\ g.tipo = f.tipo /\ g.pagina = b /\ g.tamanho = f.tamanho /\ g.path = d
         /\ LET g == [f EXCEPT !.tipo = a, !.pagina = b, !.path = d]
            IN  g \in [tipo : A, pagina : B, tamanho : C, path : D] /\ g.pagina = b /\ g.path = d
         /\ LET g == [f EXCEPT !.tamanho = c, !.pagina = b, !.path = d]
            IN  g \in [tipo : A, pagina : B, tamanho : C, path : D] /\ g.pagina = b /\ g.path = d
OBVIOUS

\* The screen as it comes up is such a screen.
LEMMA StartsAnew ==
  ASSUME FeedAssumption
  PROVE  FeedOf(NewFeed)
<1>1. NoType \in FeedTypes
  BY DEF FeedTypes
<1> QED
  BY <1>1 DEF NewFeed, FeedOf, FeedAssumption

\* FeedInv is kept by every step of the feed, one action after the other.
LEMMA FeedStep ==
  ASSUME FeedAssumption, FeedInv, FeedNext
  PROVE  FeedInv'
<1>0. (FeedInv <=> log \in LogType /\ FeedOf(feed) /\ PagesKept)'
  BY FeedParts, PTL
<1>1. /\ log \in LogType /\ Len(log) \in Nat /\ PagesKept /\ FeedOf(feed)
      /\ feed \in [tipo : FeedTypes, pagina : Nat, tamanho : FeedSizes, path : Seq(Screens)]
      /\ feed.pagina = Len(feed.path)
      /\ \A i \in DOMAIN feed.path : IsFeedPage(<<feed.tipo, i - 1, feed.tamanho>>, feed.path[i])
  BY FeedParts DEF FeedOf, LogType
<1>2. ASSUME UNCHANGED log
      PROVE  \A key, page : IsFeedPage(key, page)' <=> IsFeedPage(key, page)
  BY <1>2 DEF IsFeedPage, FeedPages, EventsAt
<1>3. ASSUME NEW tipo \in Tipos, NEW timestamp \in Instants, Record(tipo, timestamp) PROVE FeedInv'
  <2> DEFINE e == [tipo |-> tipo, timestamp |-> timestamp]
             S == [tipo : Tipos, timestamp : Instants]
  <2>1. log' = Append(log, e) /\ e \in S /\ log \in Seq(S)
    BY <1>1, <1>3 DEF Record, LogType
  <2> HIDE DEF e, S
  <2>2. log' \in Seq(S) /\ Len(log') = Len(log) + 1 /\ \A i \in 1 .. Len(log) : log'[i] = log[i]
    BY <1>1, <2>1
  <2>3. log' \in LogType /\ Len(log) <= Len(log')
    BY <1>1, <2>2 DEF LogType, S
  <2>4. \A key, page : IsFeedPage(key, page) => IsFeedPage(key, page)'
    BY <1>1, <2>2, <2>3, PageStays
  <2>5. feed' = feed /\ eventos' = eventos /\ counted' = counted
    BY <1>3 DEF Record
  <2>6. PagesKept'
    BY <1>1, <2>4, <2>5 DEF PagesKept
  <2>7. FeedOf(feed)'
    BY <1>1, <2>4, <2>5 DEF FeedOf
  <2>8. (log \in LogType)'
    BY <2>3 DEF LogType
  <2> QED BY <1>0, <2>6, <2>7, <2>8
<1>4. ASSUME NEW key \in asked, CountEvents(key) PROVE FeedInv'
  <2>1. UNCHANGED <<log, feed, eventos>>
    BY <1>4 DEF CountEvents
  <2> DEFINE count == Cardinality(EventosDe(EventsAt(Len(log)), key[1]))
  <2>2. count \in Nat
    <3>1. Len(log) \in 0 .. Len(log)
      BY <1>1
    <3>2. IsFiniteSet(EventsOf(Len(log), key[1]))
      BY <1>1, <3>1, EventsAre DEF AreEvents
    <3> QED BY <3>2, FS_CardinalityType DEF EventsOf
  <2>3. counted' = Over([k \in {key} |-> count], counted)
    BY <1>4 DEF CountEvents
  <2> HIDE DEF count
  <2>4. \A k \in DOMAIN counted' : counted'[k] \in Nat
    BY <1>1, <2>2, <2>3 DEF Over, PagesKept
  <2>5. PagesKept' /\ FeedOf(feed)' /\ (log \in LogType)'
    BY <1>1, <1>2, <2>1, <2>4 DEF PagesKept, FeedOf, LogType
  <2> QED BY <1>0, <2>5
<1>5. ASSUME NEW key \in DOMAIN counted, FetchEvents(key) PROVE FeedInv'
  <2>1. UNCHANGED <<log, feed>>
    BY <1>5 DEF FetchEvents
  <2>2. PICK w \in FeedPages(key, Len(log)) :
            eventos' = Over([k \in {key} |-> [total |-> counted[key], rows |-> Len(log), eventos |-> w]], eventos)
    BY <1>5 DEF FetchEvents
  <2> DEFINE page == [total |-> counted[key], rows |-> Len(log), eventos |-> w]
  <2>3. IsFeedPage(key, page) /\ IsAnswer(page)
    BY <1>1 DEF IsFeedPage, IsAnswer, PagesKept
  <2> HIDE DEF page
  <2>4. \A k \in DOMAIN eventos' : IsFeedPage(k, eventos'[k]) /\ IsAnswer(eventos'[k])
    BY <1>1, <2>2, <2>3 DEF Over, PagesKept, page
  <2>5. \A k \in DOMAIN counted' : counted'[k] \in Nat
    BY <1>1, <1>5 DEF FetchEvents, Restrict, PagesKept
  <2>6. PagesKept' /\ FeedOf(feed)' /\ (log \in LogType)'
    BY <1>1, <1>2, <2>1, <2>4, <2>5 DEF PagesKept, FeedOf, LogType
  <2> QED BY <1>0, <2>6
<1> DEFINE Fs == [tipo : FeedTypes, pagina : Nat, tamanho : FeedSizes, path : Seq(Screens)]
<1>6. ASSUME NextEvents PROVE FeedInv'
  <2> DEFINE f == [feed EXCEPT !.pagina = @ + 1, !.path = Append(@, FeedShown)]
  <2>1. IsFeedPage(FeedKey(feed), FeedShown) /\ IsAnswer(FeedShown) /\ GoToEvents(f)
    BY <1>1, <1>6 DEF NextEvents, FeedLoaded, FeedShown, PagesKept
  <2>2. FeedKey(feed) = <<feed.tipo, feed.pagina, feed.tamanho>> /\ feed.pagina \in Nat /\ feed.tamanho \in FeedSizes
    BY <1>1 DEF FeedKey
  <2>3. FeedShown \in Screens
    <3>1. FeedShown.rows \in Nat /\ FeedShown.eventos \in Seq(Events)
      BY <1>1, <2>1, <2>2, PageTyped
    <3> QED BY <2>1, <3>1 DEF IsAnswer, Screens
  <2>4. FeedOf(f)
    <3> DEFINE path == Append(feed.path, FeedShown)
    <3>1. feed.path \in Seq(Screens)
      BY <1>1
    <3>2. path \in Seq(Screens) /\ Len(path) = feed.pagina + 1 /\ DOMAIN path = 1 .. (feed.pagina + 1)
      BY <1>1, <2>2, <2>3, <3>1
    <3>3. \A i \in 1 .. feed.pagina : path[i] = feed.path[i] /\ i \in DOMAIN feed.path
      BY <1>1, <2>2, <2>3, <3>1
    <3>4. path[feed.pagina + 1] = FeedShown
      BY <1>1, <2>2, <2>3, <3>1
    <3> HIDE DEF path
    <3>5. f = [feed EXCEPT !.pagina = feed.pagina + 1, !.path = path]
      BY DEF path
    <3> HIDE DEF f
    <3>6. f \in Fs /\ f.pagina = feed.pagina + 1 /\ f.path = path /\ f.tipo = feed.tipo /\ f.tamanho = feed.tamanho
      <4>1. feed \in Fs /\ feed.pagina + 1 \in Nat /\ feed.tipo \in FeedTypes
        BY <1>1, <2>2
      <4> QED BY <2>2, <3>2, <3>5, <4>1, FeedWith
    <3>7. ASSUME NEW i \in DOMAIN path PROVE IsFeedPage(<<feed.tipo, i - 1, feed.tamanho>>, path[i])
      <4>1. CASE i = feed.pagina + 1
        <5>1. i - 1 = feed.pagina
          BY <2>2, <4>1
        <5>2. <<feed.tipo, i - 1, feed.tamanho>> = FeedKey(feed) /\ path[i] = FeedShown
          BY <2>2, <3>4, <4>1, <5>1
        <5> QED BY <2>1, <5>2
      <4>2. CASE i # feed.pagina + 1
        <5>1. i \in 1 .. feed.pagina
          BY <2>2, <3>2, <4>2
        <5> QED BY <1>1, <3>3, <5>1
      <4> QED BY <4>1, <4>2
    <3> QED BY <3>2, <3>6, <3>7 DEF FeedOf
  <2> HIDE DEF f
  <2> QED BY <2>1, <2>4, FeedTurns
<1>7. ASSUME PrevEvents PROVE FeedInv'
  <2> DEFINE f == [feed EXCEPT !.pagina = @ - 1, !.path = Front(@)]
             path == Front(feed.path)
  <2>1. GoToEvents(f) /\ feed.pagina > 0 /\ feed.pagina \in Nat /\ feed.path \in Seq(Screens)
    BY <1>1, <1>7 DEF PrevEvents
  <2>2. /\ path \in Seq(Screens) /\ Len(path) = feed.pagina - 1 /\ DOMAIN path = 1 .. (feed.pagina - 1)
        /\ \A i \in 1 .. (feed.pagina - 1) : path[i] = feed.path[i] /\ i \in DOMAIN feed.path
    <3>1. Len(feed.path) = feed.pagina /\ Len(feed.path) - 1 \in Nat /\ path = SubSeq(feed.path, 1, Len(feed.path) - 1)
      BY <1>1, <2>1 DEF Front
    <3>2. \A i \in 1 .. feed.pagina - 1 : i \in 1 .. Len(feed.path)
      BY <2>1, <3>1
    <3> HIDE DEF path
    <3>3. Len(path) = feed.pagina - 1 /\ path \in Seq(Screens)
      BY <2>1, <3>1
    <3>4. \A i \in 1 .. feed.pagina - 1 : path[i] = feed.path[i]
      BY <2>1, <3>1
    <3> QED BY <2>1, <3>1, <3>2, <3>3, <3>4
  <2> HIDE DEF path
  <2>3. f = [feed EXCEPT !.pagina = feed.pagina - 1, !.path = path]
    BY DEF path
  <2> HIDE DEF f
  <2>4. f \in Fs /\ f.pagina = feed.pagina - 1 /\ f.path = path /\ f.tipo = feed.tipo /\ f.tamanho = feed.tamanho
    <3>1. feed \in Fs /\ feed.pagina - 1 \in Nat /\ feed.tipo \in FeedTypes /\ feed.tamanho \in FeedSizes
      BY <1>1, <2>1
    <3> QED BY <2>2, <2>3, <3>1, FeedWith
  <2>5. FeedOf(f)
    BY <1>1, <2>2, <2>4 DEF FeedOf
  <2> QED BY <2>1, <2>5, FeedTurns
<1>8. ASSUME NEW t \in FeedTypes, MudarTipo(t) PROVE FeedInv'
  <2> DEFINE f == [feed EXCEPT !.tipo = t, !.pagina = 0, !.path = << >>]
  <2>1. GoToEvents(f)
    BY <1>8 DEF MudarTipo
  <2>2. f \in Fs /\ f.pagina = 0 /\ f.path = << >>
    <3>1. feed \in Fs /\ 0 \in Nat /\ << >> \in Seq(Screens) /\ feed.tipo \in FeedTypes /\ feed.tamanho \in FeedSizes
      BY <1>1
    <3> QED BY <3>1, FeedWith
  <2> HIDE DEF f
  <2>3. FeedOf(f)
    BY <2>2 DEF FeedOf
  <2> QED BY <2>1, <2>3, FeedTurns
<1>9. ASSUME NEW n \in FeedSizes, MudarTamanho(n) PROVE FeedInv'
  <2> DEFINE f == [feed EXCEPT !.tamanho = n, !.pagina = 0, !.path = << >>]
  <2>1. GoToEvents(f)
    BY <1>9 DEF MudarTamanho
  <2>2. f \in Fs /\ f.pagina = 0 /\ f.path = << >>
    <3>1. feed \in Fs /\ 0 \in Nat /\ << >> \in Seq(Screens) /\ feed.tipo \in FeedTypes /\ feed.tamanho \in FeedSizes
      BY <1>1
    <3> QED BY <3>1, FeedWith
  <2> HIDE DEF f
  <2>3. FeedOf(f)
    BY <2>2 DEF FeedOf
  <2> QED BY <2>1, <2>3, FeedTurns
<1>10. ASSUME Reabrir PROVE FeedInv'
  <2>1. FeedOf(NewFeed)
    BY StartsAnew
  <2> QED BY <1>10, <2>1, FeedTurns DEF Reabrir
<1> HIDE DEF Fs
<1> QED
  BY <1>3, <1>4, <1>5, <1>6, <1>7, <1>8, <1>9, <1>10 DEF FeedNext

\* It holds when nothing has been fetched yet.
LEMMA FeedStarts ==
  ASSUME FeedAssumption, FeedInit
  PROVE  FeedInv
<1>1. log \in LogType
  BY DEF FeedInit, FeedAssumption, LogType
<1>2. FeedOf(feed)
  BY StartsAnew DEF FeedInit
<1>3. PagesKept
  BY DEF FeedInit, PagesKept
<1> QED
  BY <1>1, <1>2, <1>3, FeedParts

\* FeedInv holds throughout: what is cached, and what the user came by, is what the API answered
\* from some of the log there is, whatever is recorded meanwhile (Events.tsx, listEventos).
THEOREM FeedInvariance == FeedSpec => []FeedInv
<1>1. FeedInit => FeedInv
  BY FeedStarts, FeedAssumption
<1>2. ASSUME FeedInv, UNCHANGED feedVars PROVE FeedInv'
  <2>1. UNCHANGED <<log, feed, eventos, counted>>
    BY <1>2 DEF feedVars
  <2>2. \A key, page : IsFeedPage(key, page)' <=> IsFeedPage(key, page)
    BY <2>1 DEF IsFeedPage, FeedPages, EventsAt
  <2>3. log \in LogType /\ FeedOf(feed) /\ PagesKept
    BY <1>2, FeedParts
  <2>4. (log \in LogType)' /\ FeedOf(feed)' /\ PagesKept'
    BY <2>1, <2>2, <2>3 DEF LogType, FeedOf, PagesKept
  <2>5. (FeedInv <=> log \in LogType /\ FeedOf(feed) /\ PagesKept)'
    BY FeedParts, PTL
  <2> QED BY <2>4, <2>5
<1>3. FeedInv /\ [FeedNext]_feedVars => FeedInv'
  BY <1>2, FeedStep, FeedAssumption
<1> QED
  BY <1>1, <1>3, PTL DEF FeedSpec

\* Who pages on through the feed misses no event there was at its first page and sees none
\* twice while none arrives, but for those of an instant a page ends in (Events.tsx:35, and the
\* order without a tie-breaker of nf.queries.ts:363).
THEOREM FeedWhole == FeedSpec => []FeedSkipsNothing
<1>1. FeedInv => FeedSkipsNothing
  BY FeedIsWhole, FeedAssumption
<1> QED
  BY <1>1, FeedInvariance, PTL

-----------------------------------------------------------------------------
\* Max chooses; of two numbers it is what one expects.
LEMMA MaxOfTwo ==
  ASSUME NEW a \in Int, NEW b \in Int
  PROVE  Max({a, b}) = IF a >= b THEN a ELSE b
BY DEF Max

\* OnPrev stays at a page.
LEMMA PageBefore ==
  ASSUME NEW page \in Nat
  PROVE  Max({0, page - 1}) \in Nat
BY MaxOfTwo

\* The table of the ranking: every step that touches it turns, sorts or renews it.
Tables == [key : {"totalNFs", "valorTotal"}, direction : {"asc", "desc"}, size : Nat \ {0}, page : Nat]
LEMMA TableStep ==
  ASSUME BrowseAssumption, TableInv, Next
  PROVE  TableInv'
<1>1. ranking.table \in Tables /\ DOMAIN ranking = DOMAIN NewRanking
  BY DEF TableInv, Tables
<1>2. DOMAIN NewRanking = {"table", "busca", "seen", "due"} /\ NewRanking.table \in Tables
  BY DEF NewRanking, NewTable, Tables, BrowseAssumption
<1>3. ranking' = ranking => TableInv'
  BY DEF TableInv
<1>4. ASSUME NEW t \in Tables, TableTo(t) PROVE TableInv'
  BY <1>1, <1>2, <1>4 DEF TableTo, TableInv, Tables, NewRanking
<1>5. ASSUME NEW n, UseTable(ranking.table, n) PROVE TableInv'
  <2> DEFINE t == ranking.table
  <2>1. t.page + 1 \in Nat /\ Max({0, t.page - 1}) \in Nat
    <3>1. t.page \in Nat
      BY <1>1 DEF Tables
    <3> HIDE DEF t
    <3> QED BY <3>1, PageBefore
  <2>2. OnNext(t) \in Tables /\ OnPrev(t) \in Tables
    BY <1>1, <2>1 DEF Tables, OnNext, OnPrev
  <2>3. \A key \in {"totalNFs", "valorTotal"} : Toggle(t, key) \in Tables
    BY <1>1 DEF Tables, Toggle
  <2>4. SetPageSize(t, OtherSize) \in Tables
    BY <1>1 DEF Tables, SetPageSize, BrowseAssumption
  <2> QED BY <1>4, <1>5, <2>2, <2>3, <2>4 DEF UseTable
<1>6. FetchRanking \/ Reconnect \/ (\E b \in Buscas : Buscar(b)) => TableInv'
  BY <1>1, <1>2 DEF FetchRanking, Reconnect, Buscar, TableInv, Tables, NewRanking
<1>7. UseRanking => TableInv'
  BY <1>5 DEF UseRanking
<1>8. ASSUME NEW e, NEW l, NEW busca, Show(e, l, busca) PROVE TableInv'
  <2>1. PICK d : ranking' = [NewRanking EXCEPT !.busca = busca, !.seen = ranking.seen, !.due = d]
    BY <1>8 DEF Show
  <2> QED BY <1>2, <2>1 DEF TableInv, Tables, NewRanking
<1>9. ASSUME NEW l, GoTo(l) PROVE ranking' = ranking
  BY <1>9 DEF GoTo
<1>10. (\E e \in Entities : Trocar(e) \/ Rail(e)) \/ (\E v \in views : AplicarViewThere(v)) \/ VerNotas => TableInv'
  BY <1>3, <1>8, <1>9 DEF Trocar, Rail, Navigate, FirstPage, AplicarViewThere, VerNotas
<1>11. NextPage \/ PrevPage \/ ChangeSearch \/ Settle \/ (\E key \in SortKeys : ToggleSort(key))
      \/ (\E text \in Texts : Type(text)) \/ (\E v \in views : AplicarViewHere(v)) => ranking' = ranking
  BY <1>9 DEF NextPage, PrevPage, ChangeSearch, Navigate, Settle, ToggleSort, Type, AplicarViewHere, FirstPage
<1>12. FetchPage \/ SalvarView \/ (\E v \in views : RemoveView(v)) \/ (\E k \in Nota : Import(k))
         => ranking' = ranking
  BY DEF FetchPage, SalvarView, RemoveView, Import
<1> QED
  BY <1>3, <1>6, <1>7, <1>10, <1>11, <1>12 DEF Next

-----------------------------------------------------------------------------
(* The Graph page.                                                           *)

\* The neighbours of an answer are issuers or recipients, never the root.
LEMMA NeighboursAre ==
  ASSUME NEW gNodes, NEW gRest, NEW cnpj, NEW depth \in 1 .. 4, NEW limit
  PROVE  LET all == CompanyGraph(gNodes, gRest, cnpj, depth, limit)
         IN  \A n \in all.nos : n.relacao \in {"emitente", "destinatario"}
<1> DEFINE nos == {Neighbour(gNodes, cnpj, v, depth) : v \in Reached(gNodes, {cnpj}, depth) \ {cnpj}}
           all == CompanyGraph(gNodes, gRest, cnpj, depth, limit)
<1>1. \A n \in nos : n.relacao \in {"emitente", "destinatario"}
  BY DEF Neighbour
<1>2. all.nos = TopBy(LAMBDA n : n.totalNFs - 1000 * n.grau, nos, limit)
  BY DEF CompanyGraph
<1> HIDE DEF nos
<1>3. TopBy(LAMBDA n : n.totalNFs - 1000 * n.grau, nos, limit) \subseteq nos
  BY DEF TopBy
<1> QED BY <1>1, <1>2, <1>3

Options == [depth : 1 .. 4, produtos : BOOLEAN, notas : BOOLEAN]
\* What getCompanyGraph finds for a load.
Found100(l) ==
    CompanyGraph(GraphOfAll(CHOOSE ds \in l.nodes : TRUE), GraphOfAll(CHOOSE ds \in l.rest : TRUE),
                 l.cnpj, l.options.depth, 100)
LEMMA AnswerIs ==
  ASSUME NEW l, l.options \in Options
  PROVE  /\ Answer(l).nos = Found100(l).nos /\ Answer(l).arestas = Found100(l).arestas
         /\ \A n \in Answer(l).nos : n.relacao \in {"emitente", "destinatario"}
<1> DEFINE gNodes == GraphOfAll(CHOOSE ds \in l.nodes : TRUE)
           gRest == GraphOfAll(CHOOSE ds \in l.rest : TRUE)
           d == l.options.depth
           q == [depth |-> d, includeProdutos |-> l.options.produtos, includeNotas |-> l.options.notas]
           all == CompanyGraph(gNodes, gRest, l.cnpj, d, 100)
           left == {p \in {"produtos", "notas"} : ~Given(q, IF p = "notas" THEN "includeNotas" ELSE "includeProdutos", FALSE)}
           body == GetCompanyGraph(gNodes, gRest, l.cnpj, q).body
<1>1. d \in 1 .. 4
  BY DEF Options
<1>2. Given(q, "depth", 1) = d /\ Given(q, "limit", 100) = 100
      /\ OneOf(q, "direction", Roles \cup {"both"}) /\ Bounded(q, "limit", 500)
  BY DEF Given, OneOf, Bounded
<1>3. body = Restrict(all, DOMAIN all \ left)
  <2> HIDE DEF all, left, gNodes, gRest, q
  <2> QED BY <1>1, <1>2 DEF GetCompanyGraph, Ok, all, left
<1>4. Answer(l) = Over(body, [produtos |-> {}, notas |-> {}])
  BY DEF Answer
<1>5. {"nos", "arestas"} \subseteq DOMAIN all
  BY <1>1 DEF CompanyGraph
<1>6. "nos" \notin left /\ "arestas" \notin left
  OBVIOUS
<1>7. \A n \in all.nos : n.relacao \in {"emitente", "destinatario"}
  BY <1>1, NeighboursAre
<1>8. all = Found100(l)
  BY DEF Found100
<1> HIDE DEF all, left, body
<1>9. {"nos", "arestas"} \subseteq DOMAIN body /\ body.nos = all.nos /\ body.arestas = all.arestas
  BY <1>3, <1>5, <1>6 DEF Restrict
<1>10. Answer(l).nos = body.nos /\ Answer(l).arestas = body.arestas
  BY <1>4, <1>9 DEF Over
<1> QED BY <1>7, <1>8, <1>9, <1>10

\* A drawing whose edges have their ends and whose nodes are of the three kinds, joined unless
\* companies.
Drawn(d) ==
    /\ \A e \in DOMAIN d.edges : {e[1], e[2]} \subseteq DOMAIN d.nodes
    /\ \A v \in DOMAIN d.nodes :
           /\ v[1] \in {Kinds[i] : i \in DOMAIN Kinds}
           /\ v[1] # "empresa" => \E w \in DOMAIN d.nodes \ {v} : Joined(d, v, w)

\* The kinds of a node.
LEMMA KindsAre == {Kinds[i] : i \in DOMAIN Kinds} = {"empresa", "produto", "notafiscal"}
<1>1. DOMAIN Kinds = 1 .. 3 /\ Kinds[1] = "empresa" /\ Kinds[2] = "produto" /\ Kinds[3] = "notafiscal"
  BY DEF Kinds
<1>2. 1 .. 3 = {1, 2, 3}
  OBVIOUS
<1> QED BY <1>1, <1>2

\* What an answer adds to a drawing stands on nodes that are there.
LEMMA MergeDraws ==
  ASSUME NEW d, Drawn(d), NEW api, NEW cnpj, NEW meta
  PROVE  Drawn(MergeGraph(d, api, cnpj, meta))
<1> DEFINE companies == Companies(d.nodes, api, cnpj, meta)
           n == MergeGraph(d, api, cnpj, meta)
           P == ProductNodes(api)
           N == NotaNodes(companies, api)
           T == TradeEdges(companies, api)
           Q == ProductEdges(api, cnpj)
           M == NotaEdges(companies, api)
<1>1. /\ DOMAIN n.nodes = DOMAIN companies \cup DOMAIN P \cup DOMAIN N
      /\ DOMAIN n.edges = DOMAIN d.edges \cup DOMAIN T \cup DOMAIN Q \cup DOMAIN M
  BY DEF MergeGraph, Over
<1>2. /\ DOMAIN d.nodes \subseteq DOMAIN companies /\ Empresa(cnpj) \in DOMAIN companies
      /\ \A v \in DOMAIN companies : v \in DOMAIN d.nodes \/ \E c : v = Empresa(c)
  BY DEF Companies, Over
<1>3. \A v \in DOMAIN P : \E p \in api.produtos : v = Produto(p.idUnico)
  BY DEF ProductNodes
<1>4. \A p \in api.produtos : Produto(p.idUnico) \in DOMAIN P
  BY DEF ProductNodes
<1>5. \A v \in DOMAIN N : \E a \in Attached(companies, api) : v = NotaFiscal(a.chaveAcesso)
  BY DEF NotaNodes
<1>6. \A a \in Attached(companies, api) : NotaFiscal(a.chaveAcesso) \in DOMAIN N
  BY DEF NotaNodes
<1>7. \A e \in DOMAIN T : {e[1], e[2]} \subseteq DOMAIN companies
  BY DEF TradeEdges
<1>8. DOMAIN Q = {<<Empresa(cnpj), Produto(p.idUnico)>> : p \in api.produtos}
  BY DEF ProductEdges
<1> DEFINE drawn(a) == {<<v, NotaFiscal(a.chaveAcesso)>> : v \in {Empresa(a.cnpjEmitente)} \cap DOMAIN companies}
                       \cup {<<NotaFiscal(a.chaveAcesso), v>> : v \in {Empresa(a.cnpjDestinatario)} \cap DOMAIN companies}
<1>9. DOMAIN M = UNION {drawn(a) : a \in api.notas}
  BY DEF NotaEdges
<1>10. Attached(companies, api) =
         {a \in api.notas : {Empresa(a.cnpjEmitente), Empresa(a.cnpjDestinatario)} \cap DOMAIN companies # {}}
  BY DEF Attached
<1> HIDE DEF companies, n, P, N, T, Q, M
<1>11. \A e \in DOMAIN M : {e[1], e[2]} \subseteq DOMAIN companies \cup DOMAIN N
  <2> SUFFICES ASSUME NEW a \in api.notas, NEW e \in drawn(a)
               PROVE  {e[1], e[2]} \subseteq DOMAIN companies \cup DOMAIN N
    BY <1>9
  <2>1. a \in Attached(companies, api)
    BY <1>10
  <2> QED BY <2>1, <1>6
<1>12. ASSUME NEW e \in DOMAIN n.edges PROVE {e[1], e[2]} \subseteq DOMAIN n.nodes
  <2>1. e \in DOMAIN d.edges => {e[1], e[2]} \subseteq DOMAIN d.nodes
    BY DEF Drawn
  <2>2. e \in DOMAIN Q => {e[1], e[2]} \subseteq DOMAIN companies \cup DOMAIN P
    BY <1>2, <1>4, <1>8
  <2> QED BY <2>1, <2>2, <1>1, <1>2, <1>7, <1>11
<1> DEFINE Stands(v) == /\ v[1] \in {Kinds[i] : i \in DOMAIN Kinds}
                        /\ v[1] # "empresa" => \E w \in DOMAIN n.nodes \ {v} : Joined(n, v, w)
<1>13. ASSUME NEW v \in DOMAIN n.nodes PROVE Stands(v)
  <2>1. CASE v \in DOMAIN d.nodes
    <3>1. \A w : Joined(d, v, w) => Joined(n, v, w)
      BY <1>1 DEF Joined
    <3> QED BY <2>1, <3>1, <1>1, <1>2 DEF Drawn
  <2>2. ASSUME NEW c, v = Empresa(c) PROVE Stands(v)
    BY <2>2, KindsAre DEF Empresa
  <2>3. ASSUME NEW p \in api.produtos, v = Produto(p.idUnico) PROVE Stands(v)
    <3>1. <<Empresa(cnpj), v>> \in DOMAIN n.edges /\ Empresa(cnpj) \in DOMAIN n.nodes
      BY <1>1, <1>2, <1>8, <2>3
    <3>2. Empresa(cnpj) # v /\ v[1] = "produto"
      BY <2>3 DEF Empresa, Produto
    <3> QED BY <3>1, <3>2, KindsAre DEF Joined
  <2>4. ASSUME NEW a \in Attached(companies, api), v = NotaFiscal(a.chaveAcesso) PROVE Stands(v)
    <3>1. PICK c : Empresa(c) \in DOMAIN companies /\ c \in {a.cnpjEmitente, a.cnpjDestinatario}
      BY <1>10
    <3>2. <<Empresa(c), v>> \in drawn(a) \/ <<v, Empresa(c)>> \in drawn(a)
      BY <2>4, <3>1
    <3>3. a \in api.notas
      BY <1>10
    <3>4. <<Empresa(c), v>> \in DOMAIN n.edges \/ <<v, Empresa(c)>> \in DOMAIN n.edges
      BY <1>1, <1>9, <3>2, <3>3
    <3>5. Empresa(c) # v /\ v[1] = "notafiscal" /\ Empresa(c) \in DOMAIN n.nodes
      BY <1>1, <2>4, <3>1 DEF Empresa, NotaFiscal
    <3> QED BY <3>4, <3>5, KindsAre DEF Joined
  <2> HIDE DEF Stands
  <2> QED BY <1>1, <1>2, <1>3, <1>5, <2>1, <2>2, <2>3, <2>4
<1> QED
  BY <1>12, <1>13 DEF Drawn, n

\* A merge makes a root of the company it is for, when that is not drawn yet, and of no other.
LEMMA MergeRoots ==
  ASSUME NEW d, NEW api, NEW cnpj, NEW meta,
         \A n \in api.nos : n.relacao \in {"emitente", "destinatario"}
  PROVE  Roots(MergeGraph(d, api, cnpj, meta))
           = Roots(d) \cup (IF Empresa(cnpj) \in DOMAIN d.nodes THEN {} ELSE {Empresa(cnpj)})
<1> DEFINE companies == Companies(d.nodes, api, cnpj, meta)
           n == MergeGraph(d, api, cnpj, meta)
           P == ProductNodes(api)
           N == NotaNodes(companies, api)
           E == {Empresa(a.cnpj) : a \in api.nos}
<1>1. /\ DOMAIN n.nodes = DOMAIN companies \cup DOMAIN P \cup DOMAIN N
      /\ \A v \in DOMAIN companies : n.nodes[v] = companies[v]
      /\ \A v \in DOMAIN n.nodes \ DOMAIN companies : n.nodes[v] = IF v \in DOMAIN P THEN P[v] ELSE N[v]
  BY DEF MergeGraph, Over
<1>2. (\A v \in DOMAIN P : P[v].relacao = "") /\ (\A v \in DOMAIN N : N[v].relacao = "")
  BY DEF ProductNodes, NotaNodes
<1>3. /\ DOMAIN companies = DOMAIN d.nodes \cup {Empresa(cnpj)} \cup E
      /\ \A v \in DOMAIN d.nodes : companies[v] = d.nodes[v]
      /\ Empresa(cnpj) \notin DOMAIN d.nodes => companies[Empresa(cnpj)] = RootNode(api, cnpj, meta)
      /\ \A v \in E \ (DOMAIN d.nodes \cup {Empresa(cnpj)}) :
             companies[v] = LET a == CHOOSE a \in api.nos : Empresa(a.cnpj) = v
                            IN  [relacao |-> a.relacao, totalNFs |-> {a.totalNFs}]
  BY DEF Companies, Over
<1>4. RootNode(api, cnpj, meta).relacao = "raiz"
  BY DEF RootNode
<1>5. \A v \in E : (CHOOSE a \in api.nos : Empresa(a.cnpj) = v) \in api.nos
  OBVIOUS
<1>6. \A v \in E \ (DOMAIN d.nodes \cup {Empresa(cnpj)}) : companies[v].relacao # "raiz"
  <2> HIDE DEF companies, E
  <2> QED BY <1>3, <1>5
<1> HIDE DEF companies, n, P, N, E
<1>7. \A v \in DOMAIN n.nodes : n.nodes[v].relacao = "raiz" <=>
          \/ v \in DOMAIN d.nodes /\ d.nodes[v].relacao = "raiz"
          \/ v = Empresa(cnpj) /\ Empresa(cnpj) \notin DOMAIN d.nodes
  <2> DEFINE IsRoot(v) == \/ v \in DOMAIN d.nodes /\ d.nodes[v].relacao = "raiz"
                          \/ v = Empresa(cnpj) /\ Empresa(cnpj) \notin DOMAIN d.nodes
  <2> SUFFICES ASSUME NEW v \in DOMAIN n.nodes PROVE n.nodes[v].relacao = "raiz" <=> IsRoot(v)
    OBVIOUS
  <2>1. CASE v \in DOMAIN d.nodes
    <3>1. n.nodes[v] = d.nodes[v]
      BY <1>1, <1>3, <2>1
    <3> QED BY <2>1, <3>1
  <2>2. CASE v \notin DOMAIN d.nodes /\ v = Empresa(cnpj)
    <3>1. n.nodes[v] = RootNode(api, cnpj, meta)
      BY <1>1, <1>3, <2>2
    <3> QED BY <1>4, <2>2, <3>1
  <2>3. CASE v \notin DOMAIN d.nodes /\ v # Empresa(cnpj) /\ v \in E
    <3>1. n.nodes[v].relacao # "raiz"
      BY <1>1, <1>3, <1>6, <2>3
    <3> QED BY <2>3, <3>1
  <2>4. CASE v \notin DOMAIN companies
    <3>1. n.nodes[v].relacao = ""
      BY <1>1, <1>2, <2>4, ZenonT(30)
    <3> QED BY <1>3, <2>4, <3>1
  <2> QED BY <1>3, <2>1, <2>2, <2>3, <2>4
<1>8. DOMAIN d.nodes \subseteq DOMAIN n.nodes /\ Empresa(cnpj) \in DOMAIN n.nodes
  BY <1>1, <1>3
<1>9. Roots(n) = {v \in DOMAIN n.nodes : n.nodes[v].relacao = "raiz"}
      /\ Roots(d) = {v \in DOMAIN d.nodes : d.nodes[v].relacao = "raiz"}
  BY DEF Roots
<1> QED
  BY <1>7, <1>8, <1>9 DEF n

\* What LoadInv says of one load, and what it says of all of them.
GoodLoad(l) ==
    /\ DOMAIN l = {"id", "cnpj", "options", "merge", "nodes", "rest"}
    /\ l.cnpj \in Cnpjs /\ l.options \in Options /\ l.merge \in BOOLEAN
Alone(ls, nodes) ==
    /\ \A l, m \in ls : l = m
    /\ \A l \in ls : l.merge => Empresa(l.cnpj) \in nodes

LoadParts ==
    /\ url \in Cnpjs \cup {""} /\ options \in Options
    /\ \A l \in loads : GoodLoad(l)
    /\ ~crossed => Alone(loads, DOMAIN drawing.nodes)
LEMMA LoadInvIs == LoadInv <=> LoadParts
<1> HIDE DEF Cnpjs
<1> QED BY DEF LoadInv, LoadParts, GoodLoad, Alone, Options

\* A load that begins while none runs is alone.
LEMMA LoadBegins ==
  ASSUME LoadInv, NEW c \in Cnpjs, NEW o \in Options, NEW merge \in BOOLEAN, Load(c, o, merge),
         merge => Empresa(c) \in DOMAIN drawing.nodes, UNCHANGED drawing
  PROVE  /\ \A l \in loads' : GoodLoad(l)
         /\ ~crossed' => ~crossed /\ Alone(loads', DOMAIN drawing'.nodes)
<1> DEFINE r == [id |-> begun, cnpj |-> c, options |-> o, merge |-> merge, nodes |-> {}, rest |-> {}]
<1>1. GoodLoad(r) /\ r.merge = merge /\ r.cnpj = c
  BY DEF GoodLoad
<1>2. loads' = loads \cup {r} /\ crossed' = (crossed \/ loads # {})
  BY DEF Load
<1> HIDE DEF r
<1>3. \A l \in loads' : GoodLoad(l)
  BY <1>1, <1>2, LoadInvIs DEF LoadParts
<1>4. ASSUME ~crossed' PROVE ~crossed /\ Alone(loads', DOMAIN drawing'.nodes)
  <2>1. ~crossed /\ loads' = {r}
    BY <1>2, <1>4
  <2> QED BY <1>1, <2>1 DEF Alone
<1> QED BY <1>3, <1>4

\* A load that has read more is the load it was.
LEMMA LoadReads ==
  ASSUME LoadInv, NEW l \in loads, NEW m, GoodLoad(m), m.merge = l.merge, m.cnpj = l.cnpj,
         loads' = (loads \ {l}) \cup {m},
         UNCHANGED <<at, url, options, drawing, begun, expanded, root, crossed>>
  PROVE  LoadInv'
<1>1. \A k \in loads' : GoodLoad(k)
  BY LoadInvIs DEF LoadParts
<1>2. ~crossed' => Alone(loads', DOMAIN drawing'.nodes)
  <2> SUFFICES ASSUME ~crossed' PROVE Alone(loads', DOMAIN drawing'.nodes)
    OBVIOUS
  <2>1. Alone(loads, DOMAIN drawing.nodes)
    BY LoadInvIs DEF LoadParts
  <2>2. loads' = {m}
    BY <2>1 DEF Alone
  <2> QED BY <2>1, <2>2 DEF Alone
<1>3. url' \in Cnpjs \cup {""} /\ options' \in Options
  BY LoadInvIs DEF LoadParts
<1>4. LoadInv' <=> LoadParts'
  BY LoadInvIs, PTL
<1> QED BY <1>1, <1>2, <1>3, <1>4 DEF LoadParts

\* LoadInv is kept by every step of the pages.
LEMMA LoadStep ==
  ASSUME LoadInv, PagesNext
  PROVE  LoadInv'
<1>1. LoadParts /\ "" \notin Cnpjs
  BY LoadInvIs DEF Cnpjs
<1>2. LoadInv' <=> LoadParts'
  BY LoadInvIs, PTL
<1> HIDE DEF Cnpjs
<1>3. ASSUME NEW c \in Cnpjs \cup {""}, NEW o \in Options, NEW k \in Cnpjs, NEW q \in Options, NEW merge \in BOOLEAN,
             url' = c, options' = o, Load(k, q, merge), UNCHANGED drawing,
             merge => Empresa(k) \in DOMAIN drawing.nodes
      PROVE  LoadInv'
  BY <1>2, <1>3, LoadBegins DEF LoadParts
<1>4. ASSUME NEW c \in Cnpjs, NEW o \in Options, Reload(c, o) PROVE LoadInv'
  BY <1>3, <1>4 DEF Reload
<1>5. ASSUME NEW c \in Cnpjs, RunSearch(c) PROVE LoadInv'
  BY <1>1, <1>4, <1>5 DEF RunSearch, LoadParts
<1>6. ASSUME NEW c \in Cnpjs, OnNodeClick(c) PROVE LoadInv'
  <2>1. url \in Cnpjs \cup {""} /\ options \in Options
    BY <1>1 DEF LoadParts
  <2>2. [options EXCEPT !.depth = 1] \in Options
    <3>1. \A n \in 1 .. 4 : [options EXCEPT !.depth = n] \in Options
      BY <2>1 DEF Options
    <3>2. 1 \in 1 .. 4
      OBVIOUS
    <3> QED BY <3>1, <3>2
  <2> QED BY <1>3, <1>6, <2>1, <2>2 DEF OnNodeClick
<1>7. ASSUME ScreenAssumption, SetOption PROVE LoadInv'
  <2>1. url \in Cnpjs /\ options \in Options
    BY <1>1, <1>7 DEF SetOption, LoadParts
  <2>2. /\ \A d \in Depths : [options EXCEPT !.depth = d] \in Options
        /\ [options EXCEPT !.notas = ~@] \in Options /\ [options EXCEPT !.produtos = ~@] \in Options
    BY <1>7, <2>1 DEF Options, ScreenAssumption
  <2> QED BY <1>4, <1>7, <2>1, <2>2 DEF SetOption
<1>8. ASSUME Reset PROVE LoadInv'
  <2>1. ~crossed' => loads = {}
    BY <1>8 DEF Reset
  <2> QED BY <1>1, <1>2, <1>8, <2>1 DEF Reset, LoadParts, Alone
<1>9. ASSUME NEW l \in loads, ReadNodes(l) PROVE LoadInv'
  <2>1. GoodLoad([l EXCEPT !.nodes = {there}])
    BY <1>1 DEF LoadParts, GoodLoad
  <2>2. [l EXCEPT !.nodes = {there}].merge = l.merge /\ [l EXCEPT !.nodes = {there}].cnpj = l.cnpj
    BY <1>1 DEF LoadParts, GoodLoad
  <2> QED BY <1>9, <2>1, <2>2, LoadReads DEF ReadNodes
<1>10. ASSUME NEW l \in loads, ReadRest(l) PROVE LoadInv'
  <2>1. GoodLoad([l EXCEPT !.rest = {there}])
    BY <1>1 DEF LoadParts, GoodLoad
  <2>2. [l EXCEPT !.rest = {there}].merge = l.merge /\ [l EXCEPT !.rest = {there}].cnpj = l.cnpj
    BY <1>1 DEF LoadParts, GoodLoad
  <2> QED BY <1>10, <2>1, <2>2, LoadReads DEF ReadRest
<1>11. ASSUME NEW l \in loads, loads' = loads \ {l}, UNCHANGED <<url, options, crossed>> PROVE LoadInv'
  <2>1. ~crossed => loads' = {}
    BY <1>1, <1>11 DEF LoadParts, Alone
  <2> QED BY <1>1, <1>2, <1>11, <2>1 DEF LoadParts, Alone
<1>12. ASSUME NEW l \in loads, Arrive(l) \/ Fail(l) PROVE LoadInv'
  BY <1>11, <1>12 DEF Arrive, Fail
<1>13. ASSUME UNCHANGED screen PROVE LoadInv'
  BY <1>13 DEF screen, LoadInv
<1> QED
  BY <1>5, <1>6, <1>7, <1>8, <1>9, <1>10, <1>12, <1>13, ScreenAssumption DEF PagesNext

\* DrawingInv is kept by every step: only an answer that arrives and a reset touch the drawing.
LEMMA DrawingStep ==
  ASSUME LoadInv, DrawingInv, PagesNext
  PROVE  DrawingInv'
<1> DEFINE Rooted == ~crossed => Roots(drawing) = IF root = "" THEN {} ELSE {Empresa(root)}
<1>1. (DrawingInv <=> Drawn(drawing) /\ Rooted) /\ (DrawingInv' <=> Drawn(drawing') /\ Rooted')
  BY DEF DrawingInv, Drawn
<1>2. LoadParts
  BY LoadInvIs
<1>3. Drawn(EmptyDrawing) /\ Roots(EmptyDrawing) = {} /\ DOMAIN EmptyDrawing.nodes = {}
  BY DEF Drawn, EmptyDrawing, Roots
<1>4. ASSUME UNCHANGED <<drawing, root>>, crossed' = crossed \/ crossed' PROVE DrawingInv'
  BY <1>1, <1>4
<1>5. ASSUME NEW c, NEW o, NEW merge, Load(c, o, merge), UNCHANGED <<drawing, root>> PROVE DrawingInv'
  <2>1. ~crossed' => ~crossed
    BY <1>5 DEF Load
  <2> QED BY <1>1, <1>5, <2>1
<1>6. ASSUME NEW c, RunSearch(c) \/ OnNodeClick(c) PROVE DrawingInv'
  BY <1>5, <1>6 DEF RunSearch, OnNodeClick, Reload
<1>7. ASSUME SetOption PROVE DrawingInv'
  BY <1>5, <1>7 DEF SetOption, Reload
<1>8. ASSUME Reset PROVE DrawingInv'
  <2>1. drawing' = EmptyDrawing /\ root' = ""
    BY <1>8 DEF Reset
  <2> QED BY <1>1, <1>3, <2>1
<1>9. ASSUME NEW l \in loads, ReadNodes(l) \/ ReadRest(l) \/ Fail(l) PROVE DrawingInv'
  <2>1. UNCHANGED <<drawing, root, crossed>>
    BY <1>9 DEF ReadNodes, ReadRest, Fail
  <2> QED BY <1>1, <2>1
<1>10. ASSUME NEW l \in loads, Arrive(l) PROVE DrawingInv'
  <2> DEFINE d == IF l.merge THEN drawing ELSE EmptyDrawing
             api == Answer(l)
  <2>1. GoodLoad(l)
    BY <1>2 DEF LoadParts
  <2>2. PICK meta : drawing' = MergeGraph(d, api, l.cnpj, meta)
    BY <1>10 DEF Arrive
  <2>3. \A n \in api.nos : n.relacao \in {"emitente", "destinatario"}
    BY <2>1, AnswerIs DEF GoodLoad
  <2>4. Drawn(d)
    BY <1>1, <1>3
  <2> HIDE DEF api, d
  <2>5. Drawn(drawing')
    BY <2>2, <2>4, MergeDraws
  <2>6. Roots(drawing') = Roots(d) \cup (IF Empresa(l.cnpj) \in DOMAIN d.nodes THEN {} ELSE {Empresa(l.cnpj)})
    BY <2>2, <2>3, MergeRoots
  <2>7. root' = (IF l.merge THEN root ELSE l.cnpj) /\ crossed' = crossed
    BY <1>10 DEF Arrive
  <2>8. ASSUME ~crossed PROVE Rooted'
    <3>1. CASE l.merge
      <4>1. Empresa(l.cnpj) \in DOMAIN d.nodes /\ d = drawing
        BY <1>2, <2>8, <3>1 DEF LoadParts, Alone, d
      <4> QED BY <1>1, <2>6, <2>7, <2>8, <3>1, <4>1
    <3>2. CASE ~l.merge
      <4>1. Roots(drawing') = {Empresa(l.cnpj)}
        BY <1>3, <2>6, <3>2 DEF d
      <4>2. l.cnpj # ""
        BY <2>1 DEF GoodLoad, Cnpjs
      <4> QED BY <2>7, <3>2, <4>1, <4>2
    <3> QED BY <3>1, <3>2
  <2> QED BY <1>1, <2>5, <2>7, <2>8
<1>11. ASSUME UNCHANGED screen PROVE DrawingInv'
  BY <1>11 DEF screen, DrawingInv
<1> QED
  BY <1>6, <1>7, <1>8, <1>9, <1>10, <1>11 DEF PagesNext

\* An answer has the other end of each trade of the company, and an edge for it.
HasTrades(answer, g, c) ==
    \A t \in TradesAt(g, c) :
        /\ {t[1], t[3]} \subseteq {c} \cup {n.cnpj : n \in answer.nos}
        /\ \E a \in answer.arestas : a.de = t[1] /\ a.para = t[3]
\* Where all that a company trades with fits in an answer, the answer has it: the companies are
\* no more than those reached, and the edges than the pairs that trade, when both are read and later.
LEMMA AnswerFits ==
  ASSUME NEW S, AreNotas(S), NEW L \in SUBSET S, NEW M \in SUBSET S, NEW N \in SUBSET S,
         L \subseteq M, M \subseteq N, IsFiniteSet(N),
         NEW g, Holds(g, L), NEW h, Holds(h, M), NEW k, Holds(k, N),
         NEW c, Fits(k, c), NEW depth \in 1 .. 4
  PROVE  HasTrades(CompanyGraph(g, h, c, depth, 100), g, c)
<1> DEFINE all == CompanyGraph(g, h, c, depth, 100)
           near == Reached(g, {c}, depth)
           touching == {t \in ActiveTrades(h) : c \in {t[1], t[3]}}
           pairs == {<<t[1], t[3]>> : t \in touching}
           of(p) == {t[2] : t \in {t \in touching : <<t[1], t[3]>> = p}}
           no == [v \in near \ {c} |-> Neighbour(g, c, v, depth)]
           row == [p \in pairs |-> [de |-> p[1], para |-> p[2], totalNFs |-> Cardinality(of(p)),
                                    valorTotal |-> ValorDas(h, of(p))]]
           nos == {no[v] : v \in near \ {c}}
           rows == {row[p] : p \in pairs}
           better == {p \in nos \X nos : p[1].totalNFs - 1000 * p[1].grau > p[2].totalNFs - 1000 * p[2].grau}
           any == {p \in rows \X rows : 0 > 0}
<1>1. all.nos = Leading(nos, better, 100) /\ all.arestas = Leading(rows, any, 100)
  <2> DEFINE neighbours == {Neighbour(g, c, v, depth) : v \in Reached(g, {c}, depth) \ {c}}
  <2>1. /\ all.nos = TopBy(LAMBDA n : n.totalNFs - 1000 * n.grau, neighbours, 100)
        /\ all.arestas = TopBy(LAMBDA a : 0, Aggregated(h, touching), 100)
    BY DEF CompanyGraph
  <2>2. neighbours = nos
    OBVIOUS
  <2>3. Aggregated(h, touching) = rows
    BY DEF Aggregated
  <2> HIDE DEF all, nos, rows, neighbours, touching
  <2>4. all.nos = TopBy(LAMBDA n : n.totalNFs - 1000 * n.grau, nos, 100)
    BY <2>1, <2>2
  <2>5. all.arestas = TopBy(LAMBDA a : 0, rows, 100)
    BY <2>1, <2>3
  <2> QED BY <2>4, <2>5 DEF TopBy, Leading
<1>2. LinkedBy(g) \subseteq LinkedBy(k) /\ IsFiniteSet(LinkedBy(k)) /\ IsFiniteSet({c})
  <2>1. L \subseteq N
    OBVIOUS
  <2> QED BY <2>1, LinksGrow, LinksAreFinite, FS_Singleton
<1>3. ActiveTrades(h) \subseteq ActiveTrades(k) /\ IsFiniteSet(ActiveTrades(k))
  BY LinksGrow, LinksAreFinite
<1>4. ActiveTrades(g) \subseteq ActiveTrades(h)
  BY LinksGrow
<1>5. IsFiniteSet(near \ {c}) /\ Cardinality(near \ {c}) <= 100
  <2> DEFINE far == Reached(k, {c}, 4)
  <2>1. near \subseteq far /\ IsFiniteSet(far)
    BY <1>2, ReachedIs
  <2>2. Cardinality(far) <= 100
    BY DEF Fits
  <2> HIDE DEF near, far
  <2>3. near \ {c} \in SUBSET far
    BY <2>1
  <2>4. IsFiniteSet(near \ {c}) /\ Cardinality(near \ {c}) <= Cardinality(far)
    BY <2>1, <2>3, FS_Subset
  <2> QED BY <2>1, <2>2, <2>4, FS_CardinalityType
<1>6. IsFiniteSet(pairs) /\ Cardinality(pairs) <= 100
  <2> DEFINE later == {<<t[1], t[3]>> : t \in TradesAt(k, c)}
             f == [t \in TradesAt(k, c) |-> <<t[1], t[3]>>]
  <2>1. TradesAt(k, c) \subseteq ActiveTrades(k)
    BY DEF TradesAt
  <2>2. IsFiniteSet(later)
    <3>1. IsFiniteSet(TradesAt(k, c))
      BY <1>3, <2>1, FS_Subset
    <3>2. later = {f[t] : t \in TradesAt(k, c)}
      OBVIOUS
    <3> HIDE DEF later, f
    <3> QED BY <3>1, <3>2, ImageIsFinite
  <2>3. Cardinality(later) <= 100
    BY DEF Fits
  <2>4. pairs \in SUBSET later
    BY <1>3 DEF TradesAt
  <2> HIDE DEF pairs, later
  <2>5. IsFiniteSet(pairs) /\ Cardinality(pairs) <= Cardinality(later)
    BY <2>2, <2>4, FS_Subset
  <2> QED BY <2>2, <2>3, <2>5, FS_CardinalityType
<1> HIDE DEF no, row, pairs, near, all
<1>7. all.nos = nos
  <2>1. IsFiniteSet(nos) /\ Cardinality(nos) <= Cardinality(near \ {c})
    BY <1>5, ImageIsFinite, ImageIsNoLarger
  <2> HIDE DEF nos, better
  <2>2. Cardinality(nos) <= 100
    BY <1>5, <2>1, FS_CardinalityType
  <2> QED BY <1>1, <2>1, <2>2, FitsIn
<1>8. all.arestas = rows
  <2>1. IsFiniteSet(rows) /\ Cardinality(rows) <= Cardinality(pairs)
    BY <1>6, ImageIsFinite, ImageIsNoLarger
  <2> HIDE DEF rows, any
  <2>2. Cardinality(rows) <= 100
    BY <1>6, <2>1, FS_CardinalityType
  <2> QED BY <1>1, <2>1, <2>2, FitsIn
<1>9. ASSUME NEW t \in TradesAt(g, c)
      PROVE  /\ {t[1], t[3]} \subseteq {c} \cup {n.cnpj : n \in all.nos}
             /\ \E a \in all.arestas : a.de = t[1] /\ a.para = t[3]
  <2>1. t \in ActiveTrades(g) /\ c \in {t[1], t[3]}
    BY DEF TradesAt
  <2>2. <<t[1], t[2]>> \in LinkedBy(g) /\ <<t[3], t[2]>> \in LinkedBy(g)
    <3>1. PICK p \in g.emitiu \X g.destinada : p[1][2] = p[2][1] /\ t = <<p[1][1], p[1][2], p[2][2]>>
      BY <2>1 DEF ActiveTrades, Trades
    <3>2. <<p[1][1], p[1][2]>> \in LinkedBy(g) /\ <<p[2][2], p[2][1]>> \in LinkedBy(g)
      BY DEF LinkedBy
    <3> QED BY <3>1, <3>2
  <2>3. {t[1], t[3]} \subseteq Around(g, {c})
    <3> DEFINE notas == {l[2] : l \in {l \in LinkedBy(g) : l[1] \in {c}}}
    <3>1. t[2] \in notas
      BY <2>1, <2>2
    <3>2. Around(g, {c}) = {c} \cup {l[1] : l \in {l \in LinkedBy(g) : l[2] \in notas}}
      BY DEF Around
    <3> HIDE DEF notas
    <3> QED BY <2>2, <3>1, <3>2
  <2>4. {t[1], t[3]} \subseteq near
    BY <1>2, <2>3, ReachedIs DEF near
  <2>5. \A v \in near \ {c} : no[v].cnpj = v /\ no[v] \in all.nos
    <3>1. \A v \in near \ {c} : no[v].cnpj = v
      BY DEF no, Neighbour
    <3> QED BY <1>7, <3>1
  <2>6. <<t[1], t[3]>> \in pairs
    BY <1>4, <2>1 DEF pairs
  <2>7. row[<<t[1], t[3]>>].de = t[1] /\ row[<<t[1], t[3]>>].para = t[3] /\ row[<<t[1], t[3]>>] \in all.arestas
    <3>1. row[<<t[1], t[3]>>].de = t[1] /\ row[<<t[1], t[3]>>].para = t[3]
      BY <2>6 DEF row
    <3> QED BY <1>8, <2>6, <3>1
  <2>8. {t[1], t[3]} \subseteq {c} \cup {n.cnpj : n \in all.nos}
    BY <2>4, <2>5
  <2> QED BY <2>7, <2>8
<1> QED
  BY <1>9 DEF HasTrades, all

\* What fits when more has been imported fitted before.
LEMMA FitsBefore ==
  ASSUME NEW S, AreNotas(S), NEW M \in SUBSET S, NEW N \in SUBSET S, M \subseteq N, IsFiniteSet(N),
         NEW h, Holds(h, M), NEW k, Holds(k, N), NEW c, Fits(k, c)
  PROVE  Fits(h, c)
<1>1. LinkedBy(h) \subseteq LinkedBy(k) /\ IsFiniteSet(LinkedBy(k)) /\ IsFiniteSet({c})
      /\ ActiveTrades(h) \subseteq ActiveTrades(k) /\ IsFiniteSet(ActiveTrades(k))
  BY LinksGrow, LinksAreFinite, FS_Singleton
<1>2. Cardinality(Reached(h, {c}, 4)) <= 100
  <2> DEFINE near == Reached(h, {c}, 4)
             far == Reached(k, {c}, 4)
  <2>1. 4 \in 1 .. 4
    OBVIOUS
  <2>2. near \subseteq far /\ IsFiniteSet(far)
    BY <1>1, <2>1, ReachedIs
  <2>3. Cardinality(far) <= 100
    BY DEF Fits
  <2> HIDE DEF near, far
  <2>4. near \in SUBSET far
    BY <2>2
  <2>5. Cardinality(near) <= 100
    BY <2>2, <2>3, <2>4, FS_Subset, FS_CardinalityType
  <2> QED BY <2>5 DEF near
<1>3. Cardinality({<<t[1], t[3]>> : t \in TradesAt(h, c)}) <= 100
  <2> DEFINE pairs == {<<t[1], t[3]>> : t \in TradesAt(h, c)}
             later == {<<t[1], t[3]>> : t \in TradesAt(k, c)}
             f == [t \in TradesAt(k, c) |-> <<t[1], t[3]>>]
  <2>1. TradesAt(k, c) \subseteq ActiveTrades(k) /\ TradesAt(h, c) \subseteq TradesAt(k, c)
    BY <1>1 DEF TradesAt
  <2>2. IsFiniteSet(later)
    <3>1. IsFiniteSet(TradesAt(k, c))
      BY <1>1, <2>1, FS_Subset
    <3>2. later = {f[t] : t \in TradesAt(k, c)}
      OBVIOUS
    <3> HIDE DEF later, f
    <3> QED BY <3>1, <3>2, ImageIsFinite
  <2>3. Cardinality(later) <= 100
    BY DEF Fits
  <2>4. pairs \in SUBSET later
    BY <2>1
  <2> HIDE DEF pairs, later
  <2>5. Cardinality(pairs) <= 100
    BY <2>2, <2>3, <2>4, FS_Subset, FS_CardinalityType
  <2> QED BY <2>5 DEF pairs
<1> QED BY <1>2, <1>3 DEF Fits

\* An answer's edge is drawn when its ends are the company and what the answer found around it, and
\* the edges of the drawing stay.
LEMMA MergeKeepsEdges ==
  ASSUME NEW d, NEW api, NEW cnpj, NEW meta
  PROVE  LET n == MergeGraph(d, api, cnpj, meta)
         IN  /\ DOMAIN d.edges \subseteq DOMAIN n.edges
             /\ \A a \in api.arestas :
                    {a.de, a.para} \subseteq {cnpj} \cup {v.cnpj : v \in api.nos} =>
                        <<Empresa(a.de), Empresa(a.para)>> \in DOMAIN n.edges
<1> DEFINE companies == Companies(d.nodes, api, cnpj, meta)
           n == MergeGraph(d, api, cnpj, meta)
           T == TradeEdges(companies, api)
<1>1. DOMAIN d.edges \cup DOMAIN T \subseteq DOMAIN n.edges
  BY DEF MergeGraph, Over
<1>2. {Empresa(cnpj)} \cup {Empresa(v.cnpj) : v \in api.nos} \subseteq DOMAIN companies
  BY DEF Companies, Over
<1>3. DOMAIN T = {<<Empresa(a.de), Empresa(a.para)>> :
                      a \in {a \in api.arestas : {Empresa(a.de), Empresa(a.para)} \subseteq DOMAIN companies}}
  BY DEF TradeEdges
<1> HIDE DEF companies, n, T
<1>4. ASSUME NEW a \in api.arestas, {a.de, a.para} \subseteq {cnpj} \cup {v.cnpj : v \in api.nos}
      PROVE  <<Empresa(a.de), Empresa(a.para)>> \in DOMAIN n.edges
  <2>1. \A x \in {cnpj} \cup {v.cnpj : v \in api.nos} : Empresa(x) \in DOMAIN companies
    BY <1>2
  <2>2. {Empresa(a.de), Empresa(a.para)} \subseteq DOMAIN companies
    BY <1>4, <2>1
  <2> QED BY <1>1, <1>3, <2>2
<1> QED BY <1>1, <1>4 DEF n

-----------------------------------------------------------------------------
(* The list of notas.                                                        *)

Docs(ds) == {Xml(k) : k \in ds}
\* The columns and directions a list is sorted by, and the filters it can have.
Sorts == {"numero", "valorTotal", "dataEmissao"} \X {"asc", "desc"}
Searches == Advanced \cup {"status", "cnpjEmitente"}

\* More notas have more documents, as many as they are.
LEMMA DocsAre ==
  ASSUME NEW es, NEW ds, ds \subseteq es
  PROVE  Docs(ds) \subseteq Docs(es) /\ (IsFiniteSet(es) => IsFiniteSet(Docs(es)))
<1> DEFINE f == [k \in es |-> Xml(k)]
<1>1. Docs(es) = {f[k] : k \in es} /\ Docs(ds) \subseteq Docs(es)
  BY DEF Docs
<1> HIDE DEF f
<1> QED BY <1>1, ImageIsFinite

\* The graph a page is read from is the graph of the notas there were.
LEMMA GraphIs ==
  ASSUME BrowseAssumption, NEW ds \in SUBSET Nota, IsFiniteSet(ds)
  PROVE  /\ Holds(GraphOfAll(ds), Docs(ds)) /\ Keys(Docs(ds)) = ds
         /\ Docs(ds) \in SUBSET Docs(Nota) /\ AreNotas(Docs(Nota))
<1> DEFINE Pick(s) == CHOOSE x \in s : TRUE
           Table(f) == f = [s \in SUBSET ds |-> IF s = {} THEN EmptyGraph
                                               ELSE MergeDoc(f[s \ {Pick(s)}], Xml(Pick(s)))]
           h == CHOOSE f : Table(f)
           rows == [d \in ds |-> Xml(d)]
<1>1. \A f : IsTable(f, ds, "notas", EmptyGraph, 0, rows) <=> Table(f)
  <2> TAKE f
  <2>1. \A s \in SUBSET ds : s # {} => rows[Pick(s)] = Xml(Pick(s))
    OBVIOUS
  <2> HIDE DEF rows
  <2> QED BY <2>1 DEF IsTable, Folded, Taken
<1>2. Table(h)
  <2>1. \A u \in SUBSET ds : u # {} => Taken("notas", u) \in u
    BY DEF Taken
  <2>2. PICK f : IsTable(f, ds, "notas", EmptyGraph, 0, rows)
    <3> HIDE DEF rows
    <3> QED BY <2>1, FoldTable
  <2>3. Table(f)
    BY <1>1, <2>2
  <2> HIDE DEF Table
  <2> QED BY <2>3
<1>3. h[ds] = GraphOf(ds)
  BY <1>2 DEF GraphOf, FoldSet, MapThenFoldSet, MergeDoc, Invoice
<1>4. IsTable(h, ds, "notas", EmptyGraph, 0, rows)
  <2> HIDE DEF h, Table, rows
  <2> QED BY <1>1, <1>2
<1> HIDE DEF h
<1>5. {rows[d] : d \in ds} = Docs(ds)
  BY DEF Docs
<1>6. Docs(ds) \in SUBSET Docs(Nota) /\ AreNotas(Docs(Nota)) /\ AreNotas({rows[d] : d \in ds})
  <2>1. Docs(ds) \in SUBSET Docs(Nota) /\ AreNotas(Docs(Nota))
    BY DEF Docs, BrowseAssumption
  <2>2. AreNotas(Docs(ds))
    BY <2>1 DEF AreNotas
  <2> HIDE DEF rows
  <2> QED BY <1>5, <2>1, <2>2
<1>7. Holds(GraphOf(ds), Docs(ds))
  <2>1. Holds(h[ds], {rows[d] : d \in ds})
    <3> HIDE DEF rows
    <3> QED BY <1>4, <1>6, UnionHolds
  <2> HIDE DEF rows
  <2> QED BY <1>3, <1>5, <2>1
<1>8. GraphOfAll(ds) = GraphOf(ds)
  <2> DEFINE t == CHOOSE t \in GraphTable : t[1] = ds
  <2>1. <<ds, GraphOf(ds)>> \in GraphTable
    BY DEF GraphTable
  <2>2. t \in GraphTable /\ t[1] = ds
    BY <2>1
  <2>3. GraphOfAll(ds) = t[2]
    BY DEF GraphOfAll
  <2> HIDE DEF t
  <2>4. t = <<ds, GraphOf(ds)>>
    BY <2>2 DEF GraphTable
  <2> QED BY <2>3, <2>4
<1>9. Keys(Docs(ds)) = ds
  BY DEF Keys, Docs, BrowseAssumption
<1> QED
  BY <1>6, <1>7, <1>8, <1>9

\* A nota of it has what its document says.
LEMMA ListedIs ==
  ASSUME NEW h, NEW es \in SUBSET Nota, Holds(h, Docs(es)), AreNotas(Docs(Nota)), NEW k \in es, NEW p \in Header
  PROVE  h.nf[Key(Xml(k))][p] = Invoice(Xml(k)).nota[p]
<1> DEFINE d == Xml(k)
           M == Docs(es)
           S == Docs(Nota)
<1>1. d \in M /\ M \in SUBSET S
  BY DEF Docs
<1> HIDE DEF d, M, S
<1>2. \A q \in Header : h.nf[Key(d)][q] = Invoice(d).nota[q]
  <2>1. Holds(h, M) /\ AreNotas(S)
    BY DEF M, S
  <2> QED BY <1>1, <2>1, NotaIs
<1> QED BY <1>2 DEF d

\* The rows of a list: they are places in it, finitely many, and stay when notas are added.
ListRows(ds, f, by) == RowsOf(GraphOfAll(ds), f, by)
LEMMA ListRowsAre ==
  ASSUME BrowseAssumption, NEW ds \in SUBSET Nota, IsFiniteSet(ds), NEW f, NEW by \in {"numero", "valorTotal", "dataEmissao"}
  PROVE  /\ IsFiniteSet(Filtered(GraphOfAll(ds), f))
         /\ ListRows(ds, f, by) \in SUBSET Places /\ IsFiniteSet(ListRows(ds, f, by))
         /\ Lasting(f) => \A es \in SUBSET Nota :
                IsFiniteSet(es) /\ ds \subseteq es => ListRows(ds, f, by) \subseteq ListRows(es, f, by)
<1> DEFINE g == GraphOfAll(ds)
           S == Docs(Nota)
           F == Filtered(g, f)
<1>1. Holds(g, Docs(ds)) /\ Keys(Docs(ds)) = ds /\ Docs(ds) \in SUBSET S /\ AreNotas(S)
  BY GraphIs
<1>2. by \in Header /\ by # "chaveAcesso"
  BY DEF Header
<1>3. \A k \in Nota : Key(Xml(k)) = k /\ k \in Int /\ Invoice(Xml(k)).nota[by] \in Int
  <2> SUFFICES ASSUME NEW k \in Nota
               PROVE  Key(Xml(k)) = k /\ k \in Int /\ Invoice(Xml(k)).nota[by] \in Int
    OBVIOUS
  <2> DEFINE nota == Invoice(Xml(k)).nota
  <2>1. Key(Xml(k)) = k /\ {k, nota.numero, nota.valorTotal, nota.dataEmissao} \subseteq Int
    BY DEF BrowseAssumption
  <2> HIDE DEF nota
  <2>2. nota[by] \in Int
    BY <2>1
  <2> QED BY <2>1, <2>2 DEF nota
<1>4. ASSUME NEW es \in SUBSET Nota, IsFiniteSet(es), NEW k \in es
      PROVE  SortKey(GraphOfAll(es), k, by) = Invoice(Xml(k)).nota[by]
  <2>1. Holds(GraphOfAll(es), Docs(es)) /\ Docs(es) \in SUBSET S
    BY <1>4, GraphIs
  <2>3. GraphOfAll(es).nf[Key(Xml(k))][by] = Invoice(Xml(k)).nota[by]
    BY <1>1, <1>2, <2>1, ListedIs
  <2> QED BY <1>2, <1>3, <2>3 DEF SortKey
<1>5. F \in SUBSET ds /\ IsFiniteSet(F)
  <2>1. F \in SUBSET Keys(Docs(ds))
    BY <1>1, FilteredGrows
  <2> QED BY <1>1, <2>1, FS_Subset
<1> HIDE DEF F
<1>6. ListRows(ds, f, by) \in SUBSET Places
  <2>1. ASSUME NEW k \in F PROVE <<SortKey(g, k, by), k>> \in Places
    BY <1>3, <1>4, <1>5 DEF Places
  <2> QED BY <2>1 DEF ListRows, RowsOf, F
<1>7. IsFiniteSet(ListRows(ds, f, by))
  <2> DEFINE row == [k \in F |-> <<SortKey(g, k, by), k>>]
  <2>1. IsFiniteSet({row[k] : k \in F})
    <3> HIDE DEF row
    <3> QED BY <1>5, ImageIsFinite
  <2>2. {row[k] : k \in F} = ListRows(ds, f, by)
    BY DEF ListRows, RowsOf, F
  <2> QED BY <2>1, <2>2
<1>8. ASSUME Lasting(f), NEW es \in SUBSET Nota, IsFiniteSet(es), ds \subseteq es
      PROVE  ListRows(ds, f, by) \subseteq ListRows(es, f, by)
  <2>1. Holds(GraphOfAll(es), Docs(es)) /\ Docs(es) \in SUBSET S /\ Docs(ds) \subseteq Docs(es)
    BY <1>8, GraphIs DEF Docs
  <2>2. F \subseteq Filtered(GraphOfAll(es), f)
    <3> HIDE DEF g, S
    <3> QED BY <1>1, <1>8, <2>1, FilteredGrows DEF F
  <2>3. \A k \in F : SortKey(g, k, by) = SortKey(GraphOfAll(es), k, by)
    BY <1>4, <1>5, <1>8
  <2> QED BY <2>2, <2>3 DEF ListRows, RowsOf, F
<1> QED
  BY <1>5, <1>6, <1>7, <1>8 DEF F

\* A page of a list is a page of its rows.
LEMMA ListPageIs ==
  ASSUME BrowseAssumption, NEW ds \in SUBSET Nota, IsFiniteSet(ds), NEW f, NEW sort \in Sorts, NEW c
  PROVE  IsListPage(Page(<<sort, f, c>>, ds), ListRows(ds, f, sort[1]), sort[2], c)
<1> DEFINE by == sort[1]
<1>1. by \in {"numero", "valorTotal", "dataEmissao"} /\ by \in Orderable
  BY DEF Sorts, Orderable
<1>2. PageSize \in Nat \ {0}
  BY DEF BrowseAssumption
<1>3. ListRows(ds, f, by) \in SUBSET Places /\ IsFiniteSet(ListRows(ds, f, by))
  BY <1>1, ListRowsAre
<1>4. Page(<<sort, f, c>>, ds) = ListInvoices(GraphOfAll(ds), f,
          [limit |-> PageSize, orderBy |-> by, order |-> sort[2], cursor |-> c])
  BY DEF Page
<1> HIDE DEF by
<1>5. IsListPage(Page(<<sort, f, c>>, ds), ListRows(ds, f, by), sort[2], c)
  BY <1>1, <1>2, <1>3, <1>4, PageIs DEF ListRows
<1> QED BY <1>5 DEF by

\* No filter of the list is one that a nota may cease to satisfy.
LEMMA FiltersLast ==
  ASSUME NEW q, NEW search, DOMAIN search \subseteq Searches
  PROVE  Lasting(Filters(q, search))
<1> DEFINE set == Restrict(search, DOMAIN search \cap (RecorteParams \cup {"status"}))
<1>1. DOMAIN set \subseteq DOMAIN search
  BY DEF Restrict
<1>2. DOMAIN With(set, "q", q) = DOMAIN set \cup {"q"}
  BY DEF With
<1>3. Filters(q, search) = IF q = NoText THEN set ELSE With(set, "q", q)
  BY DEF Filters
<1> HIDE DEF set
<1>4. DOMAIN Filters(q, search) \subseteq Searches \cup {"q"}
  BY <1>1, <1>2, <1>3
<1> QED BY <1>4 DEF Lasting, Searches, Advanced

\* Of some snapshots there is an oldest.
LEMMA OldestIs ==
  ASSUME NEW seen, seen # {}, IsFiniteSet(there), AreSnapshots(seen)
  PROVE  LET base == CHOOSE s \in seen : \A t \in seen : s \subseteq t
         IN  base \in seen /\ \A t \in seen : base \subseteq t
<1>1. seen \in SUBSET SUBSET there
  BY DEF AreSnapshots
<1>2. PICK s \in seen : \A u \in SUBSET s : u # s => u \notin seen
  BY <1>1, LeastSubset
<1>3. \A t \in seen : s \subseteq t
  BY <1>2 DEF AreSnapshots
<1> QED BY <1>3

\* A list has as many rows as there are notas in it.
LEMMA RowsCount ==
  ASSUME NEW g, NEW f, NEW by, IsFiniteSet(Filtered(g, f))
  PROVE  Cardinality(RowsOf(g, f, by)) = CountInvoices(g, f)
<1> DEFINE F == Filtered(g, f)
           R == RowsOf(g, f, by)
           row == [k \in F |-> <<SortKey(g, k, by), k>>]
<1>1. R = {row[k] : k \in F}
  BY DEF RowsOf
<1>2. \A k \in F : row[k][2] = k
  OBVIOUS
<1>3. row = [k \in F |-> row[k]]
  OBVIOUS
<1> HIDE DEF row, R, F
<1>4. row \in Bijection(F, R)
  <2>1. row \in [F -> R]
    BY <1>1, <1>3
  <2>2. \A k, l \in F : row[k] = row[l] => k = l
    BY <1>2
  <2> QED BY <1>1, <2>1, <2>2 DEF Bijection, Injection, Surjection, IsInjective
<1>5. ExistsBijection(F, R)
  BY <1>4 DEF ExistsBijection
<1>6. Cardinality(R) = Cardinality(F)
  <2>1. IsFiniteSet(F)
    BY DEF F
  <2> QED BY <1>5, <2>1, FS_Bijection
<1> QED BY <1>6 DEF R, F, CountInvoices

\* What WalkSkipsNothing says of the pages of the path and the one on screen.
LEMMA WalkHolds ==
  ASSUME BrowseAssumption, WalkInv
  PROVE  WalkSkipsNothing
<1> DEFINE filters == Filters(list.q, list.search)
           snaps == Append(list.path, pages[KeyOf(list)])
           from(i) == CursorOf(SubSeq(list.stack, 1, i - 1))
           page(i) == Page(<<list.sort, filters, from(i)>>, snaps[i])
           base == CHOOSE s \in ToSet(snaps) : \A t \in ToSet(snaps) : s \subseteq t
           walk == [i \in DOMAIN snaps |-> page(i)]
           quiet == ToSet(snaps) = {base}
           by == list.sort[1]
           order == list.sort[2]
           n == Len(list.path) + 1
           seen == UNION {ToSet(walk[i].data) : i \in DOMAIN walk}
           end == Last(walk).nextCursor
           owed == ListRows(base, filters, by)
<1> SUFFICES ASSUME Loaded PROVE WalkIsTheList(walk, GraphOfAll(base), filters, quiet)
  BY DEF WalkSkipsNothing
<1>1. /\ IsTurned(list) /\ there \subseteq Nota /\ IsFiniteSet(there)
      /\ AreSnapshots({there} \cup {pages[k] : k \in DOMAIN pages} \cup ToSet(list.path))
  BY DEF WalkInv
<1>2. /\ list.path \in Seq(SUBSET Nota) /\ list.stack \in Seq(Int \X Int) /\ Len(list.path) = Len(list.stack)
      /\ list.sort \in Sorts /\ Lasting(filters)
  BY <1>1, FiltersLast DEF IsTurned, Sorts, Searches
<1>3. \A i \in DOMAIN list.path :
          Page(<<list.sort, filters, from(i)>>, list.path[i]).nextCursor = list.stack[i]
  BY <1>1 DEF IsTurned
<1>4. pages[KeyOf(list)] \in {pages[k] : k \in DOMAIN pages}
  BY DEF Loaded
<1> HIDE DEF filters
<1>5. /\ n \in Nat \ {0} /\ n - 1 = Len(list.path) /\ DOMAIN snaps = 1 .. n
      /\ \A i \in DOMAIN list.path : snaps[i] = list.path[i]
      /\ ToSet(snaps) \subseteq {there} \cup {pages[k] : k \in DOMAIN pages} \cup ToSet(list.path)
  <2>1. Len(list.path) \in Nat /\ DOMAIN list.path = 1 .. Len(list.path)
    BY <1>2
  <2>2. DOMAIN snaps = 1 .. n /\ \A i \in 1 .. n : snaps[i] = IF i = n THEN pages[KeyOf(list)] ELSE list.path[i]
    BY <1>2, <2>1
  <2> HIDE DEF snaps
  <2>3. \A i \in 1 .. n : i = n \/ i \in DOMAIN list.path
    BY <2>1
  <2>4. \A i \in 1 .. n : snaps[i] \in {pages[k] : k \in DOMAIN pages} \cup ToSet(list.path)
    BY <1>4, <2>2, <2>3 DEF ToSet
  <2>5. n \in Nat \ {0} /\ n - 1 = Len(list.path) /\ \A i \in DOMAIN list.path : snaps[i] = list.path[i]
    BY <2>1, <2>2
  <2>6. ToSet(snaps) = {snaps[i] : i \in 1 .. n}
    BY <2>2 DEF ToSet
  <2> HIDE DEF n
  <2> QED BY <2>2, <2>4, <2>5, <2>6
<1>6. AreSnapshots(ToSet(snaps))
  BY <1>1, <1>5 DEF AreSnapshots
<1> HIDE DEF snaps
<1>7. base \in ToSet(snaps) /\ \A t \in ToSet(snaps) : base \subseteq t
  <2>1. ToSet(snaps) # {}
    <3>1. 1 \in DOMAIN snaps
      BY <1>5
    <3> QED BY <3>1 DEF ToSet
  <2> QED BY <1>1, <1>6, <2>1, OldestIs
<1> HIDE DEF base
<1>8. \A s \in ToSet(snaps) : s \in SUBSET Nota /\ IsFiniteSet(s)
  BY <1>1, <1>6, FS_Subset DEF AreSnapshots
<1>9. by \in {"numero", "valorTotal", "dataEmissao"}
  BY <1>2 DEF Sorts
<1> DEFINE rows == [i \in 1 .. n |-> ListRows(snaps[i], filters, by)]
           c == [i \in 1 .. n |-> from(i)]
<1>10. ASSUME NEW i \in 1 .. n
       PROVE  /\ rows[i] \in SUBSET Places /\ owed \subseteq rows[i]
              /\ IsListPage(walk[i], rows[i], order, c[i])
  <2>1. snaps[i] \in SUBSET Nota /\ IsFiniteSet(snaps[i]) /\ base \subseteq snaps[i]
        /\ base \in SUBSET Nota /\ IsFiniteSet(base)
    BY <1>5, <1>7, <1>8 DEF ToSet
  <2>2. walk[i] = Page(<<list.sort, filters, c[i]>>, snaps[i])
    BY <1>5
  <2>3. rows[i] = ListRows(snaps[i], filters, by)
    OBVIOUS
  <2> HIDE DEF walk, rows, c
  <2>4. ListRows(snaps[i], filters, by) \in SUBSET Places
    BY <1>9, <2>1, ListRowsAre
  <2>5. owed \subseteq ListRows(snaps[i], filters, by)
    BY <1>2, <1>9, <2>1, ListRowsAre
  <2>6. IsListPage(Page(<<list.sort, filters, c[i]>>, snaps[i]), ListRows(snaps[i], filters, by), order, c[i])
    BY <1>2, <2>1, ListPageIs
  <2> QED BY <2>2, <2>3, <2>4, <2>5, <2>6
<1>11. c[1] = NoCursor
  <2>1. 1 \in 1 .. n /\ SubSeq(list.stack, 1, 1 - 1) = << >>
    BY <1>2, <1>5
  <2> QED BY <2>1 DEF CursorOf
<1>12. ASSUME NEW i \in 2 .. n PROVE c[i] # NoCursor /\ walk[i - 1].nextCursor = c[i]
  <2>1. i \in 1 .. n /\ i - 1 \in 1 .. n /\ i - 1 \in 1 .. Len(list.stack) /\ i - 1 \in DOMAIN list.path
    <3>1. i - 1 \in 1 .. (n - 1) /\ i \in 1 .. n /\ i - 1 \in 1 .. n
      <4>1. n \in Nat \ {0} /\ i \in 2 .. n
        BY <1>5
      <4> HIDE DEF n
      <4> QED BY <4>1
    <3>2. n - 1 = Len(list.stack) /\ DOMAIN list.path = 1 .. (n - 1)
      <4>1. DOMAIN list.path = 1 .. Len(list.path)
        BY <1>2
      <4> QED BY <1>2, <1>5, <4>1
    <3> QED BY <3>1, <3>2
  <2>2. c[i] = list.stack[i - 1] /\ list.stack[i - 1] \in Int \X Int
    <3>1. SubSeq(list.stack, 1, i - 1) # << >> /\ Last(SubSeq(list.stack, 1, i - 1)) = list.stack[i - 1]
      BY <1>2, <2>1, SMTT(30) DEF Last
    <3>2. list.stack[i - 1] \in Int \X Int
      BY <1>2, <2>1
    <3> QED BY <2>1, <3>1, <3>2 DEF CursorOf
  <2>3. NoCursor \notin Int \X Int
    BY DEF NoCursor
  <2>4. walk[i - 1] = Page(<<list.sort, filters, from(i - 1)>>, list.path[i - 1])
    BY <1>5, <2>1
  <2> QED BY <1>3, <2>1, <2>2, <2>3, <2>4
<1>13. DOMAIN walk = 1 .. n /\ Last(walk) = walk[n]
  BY <1>5, SMTT(30) DEF Last
<1> HIDE DEF walk, rows, c, n, owed
<1>14. /\ \A r \in owed :
              \/ \E i \in 1 .. n : \E m \in DOMAIN walk[i].data : walk[i].data[m] = r
              \/ walk[n].nextCursor # NoCursor /\ Precedes(order, walk[n].nextCursor, r)
       /\ \A i, j \in 1 .. n : \A m \in DOMAIN walk[i].data, k \in DOMAIN walk[j].data :
              walk[i].data[m] = walk[j].data[k] => i = j /\ m = k
  BY <1>5, <1>10, <1>11, <1>12, WalkIs
<1>15. \A r : r \in seen <=> \E i \in 1 .. n : \E m \in DOMAIN walk[i].data : walk[i].data[m] = r
  BY <1>13 DEF ToSet
<1>16. \A r \in owed \ seen : end # NoCursor /\ Precedes(order, end, r)
  BY <1>13, <1>14, <1>15
<1>17. ASSUME end = NoCursor, quiet PROVE Cardinality(seen) = CountInvoices(GraphOfAll(base), filters)
  <2>1. owed \subseteq seen
    BY <1>16, <1>17
  <2>2. ASSUME NEW r \in seen PROVE r \in owed
    <3>1. PICK i \in 1 .. n : \E m \in DOMAIN walk[i].data : walk[i].data[m] = r
      BY <1>15
    <3>2. r \in rows[i]
      BY <1>10, <3>1 DEF IsListPage
    <3>3. snaps[i] = base
      BY <1>5, <1>17 DEF ToSet
    <3> QED BY <3>2, <3>3 DEF rows, owed
  <2>3. seen = owed
    BY <2>1, <2>2
  <2>4. IsFiniteSet(Filtered(GraphOfAll(base), filters))
    BY <1>7, <1>8, <1>9, ListRowsAre
  <2>5. Cardinality(RowsOf(GraphOfAll(base), filters, by)) = CountInvoices(GraphOfAll(base), filters)
    BY <2>4, RowsCount
  <2> HIDE DEF seen
  <2> QED BY <2>3, <2>5 DEF owed, ListRows
<1>18. owed = {<<SortKey(GraphOfAll(base), k, list.sort[1]), k>> : k \in Filtered(GraphOfAll(base), filters)}
  BY DEF owed, ListRows, RowsOf
<1> HIDE DEF quiet
<1> QED BY <1>13, <1>14, <1>16, <1>17, <1>18 DEF WalkIsTheList

\* A turn of the list: what its path holds was kept.
LEMMA WalkTurns ==
  ASSUME WalkInv, UNCHANGED <<there, pages>>, IsTurned(list'),
         ToSet(list'.path) \subseteq ToSet(list.path) \cup {pages[k] : k \in DOMAIN pages}
  PROVE  WalkInv'
<1> DEFINE cached == {pages[k] : k \in DOMAIN pages}
           old == {there} \cup cached \cup ToSet(list.path)
<1>1. AreSnapshots(old) /\ there \subseteq Nota /\ IsFiniteSet(there)
  BY DEF WalkInv
<1>2. cached' = cached /\ ToSet(list'.path) \subseteq ToSet(list.path) \cup cached
  OBVIOUS
<1> HIDE DEF cached
<1>3. AreSnapshots({there} \cup cached \cup ToSet(list.path))'
  <2>1. \A s, t \in {there'} \cup cached' \cup ToSet(list'.path) : s \in old /\ t \in old
    BY <1>2
  <2>2. \A s, t \in old : s \subseteq there' /\ (s \subseteq t \/ t \subseteq s)
    BY <1>1 DEF AreSnapshots
  <2> HIDE DEF old
  <2> QED BY <2>1, <2>2 DEF AreSnapshots
<1> QED BY <1>1, <1>3 DEF WalkInv, cached

\* What the list is apart from its page.
SameList(l, m) == /\ DOMAIN l = DOMAIN m /\ l.sort = m.sort /\ l.search = m.search /\ l.q = m.q
                  /\ l.stack = m.stack /\ l.path = m.path
LEMMA TurnedIsSame ==
  ASSUME NEW l, NEW m, SameList(l, m), IsTurned(m)
  PROVE  IsTurned(l)
BY DEF SameList, IsTurned

\* A list of another order or filter is turned to no page, or stays where it is.
LEMMA FirstIsTurned ==
  ASSUME NEW l, DOMAIN l = DOMAIN NewList, l.sort \in Sorts, DOMAIN l.search \subseteq Searches,
         l.path = << >>, l.stack = << >>
  PROVE  IsTurned(l) /\ ToSet(l.path) = {}
<1>1. << >> \in Seq(SUBSET Nota) /\ << >> \in Seq(Int \X Int) /\ Len(<< >>) = 0 /\ DOMAIN << >> = {}
  OBVIOUS
<1> QED BY <1>1 DEF IsTurned, Sorts, Searches, ToSet

\* The list goes to a list that is turned.
LEMMA WalkGoes ==
  ASSUME WalkInv, NEW l, GoTo(l), IsTurned(l),
         ToSet(l.path) \subseteq ToSet(list.path) \cup {pages[k] : k \in DOMAIN pages}
  PROVE  WalkInv'
<1>1. PICK d : list' = [l EXCEPT !.due = d]
  BY DEF GoTo
<1>2. DOMAIN l = {"sort", "search", "typed", "q", "stack", "due", "path"}
  BY DEF IsTurned, NewList
<1>3. SameList(list', l)
  BY <1>1, <1>2 DEF SameList
<1>4. IsTurned(list') /\ ToSet(list'.path) = ToSet(l.path)
  BY <1>3, TurnedIsSame DEF SameList
<1>5. UNCHANGED <<there, pages>>
  BY DEF GoTo
<1> QED BY <1>4, <1>5, WalkTurns

\* So does one whose order or filters change.
LEMMA WalkStartsOver ==
  ASSUME WalkInv, NEW l, FirstPage(l), DOMAIN l = DOMAIN NewList, l.sort \in Sorts,
         DOMAIN l.search \subseteq Searches, l.path = list.path, l.stack = list.stack
  PROVE  WalkInv'
<1>1. IsTurned(list) /\ DOMAIN l = {"sort", "search", "typed", "q", "stack", "due", "path"}
  BY DEF WalkInv, NewList
<1>2. CASE <<l.sort, l.q, l.search>> = <<list.sort, list.q, list.search>>
  <2>1. GoTo(l) /\ SameList(l, list)
    <3>1. GoTo(l)
      BY <1>2 DEF FirstPage
    <3>2. DOMAIN list = DOMAIN NewList
      BY <1>1 DEF IsTurned
    <3> QED BY <1>2, <3>1, <3>2 DEF SameList
  <2>2. IsTurned(l)
    BY <1>1, <2>1, TurnedIsSame
  <2> QED BY <2>1, <2>2, WalkGoes
<1>3. CASE <<l.sort, l.q, l.search>> # <<list.sort, list.q, list.search>>
  <2> DEFINE m == [l EXCEPT !.stack = << >>, !.path = << >>]
  <2>1. GoTo(m)
    BY <1>3 DEF FirstPage
  <2>2. DOMAIN m = DOMAIN NewList /\ m.sort = l.sort /\ m.search = l.search /\ m.path = << >> /\ m.stack = << >>
    BY <1>1
  <2> HIDE DEF m
  <2>3. IsTurned(m) /\ ToSet(m.path) = {}
    BY <2>2, FirstIsTurned
  <2> QED BY <2>1, <2>3, WalkGoes
<1> QED BY <1>2, <1>3

\* The list without its last.
LEMMA FrontIs ==
  ASSUME NEW S, NEW s \in Seq(S), NEW n \in Nat, Len(s) = n + 1
  PROVE  /\ Front(s) \in Seq(S) /\ Len(Front(s)) = n /\ DOMAIN Front(s) = 1 .. n
         /\ \A i \in 1 .. n : Front(s)[i] = s[i]
         /\ \A i \in 1 .. n : SubSeq(Front(s), 1, i - 1) = SubSeq(s, 1, i - 1)
<1>1. Front(s) = SubSeq(s, 1, n)
  BY DEF Front
<1> DEFINE f == SubSeq(s, 1, n)
<1>2. f \in Seq(S) /\ Len(f) = n /\ DOMAIN f = 1 .. n /\ \A i \in 1 .. n : f[i] = s[i]
  OBVIOUS
<1> HIDE DEF f
<1>3. ASSUME NEW i \in 1 .. n PROVE SubSeq(f, 1, i - 1) = SubSeq(s, 1, i - 1)
  <2>1. i - 1 \in Nat /\ \A j \in 1 .. (i - 1) : j \in 1 .. n
    OBVIOUS
  <2>2. SubSeq(f, 1, i - 1) = [j \in 1 .. (i - 1) |-> f[j]]
    BY <1>2, <2>1
  <2>3. SubSeq(s, 1, i - 1) = [j \in 1 .. (i - 1) |-> s[j]]
    BY <2>1
  <2> QED BY <1>2, <2>1, <2>2, <2>3
<1> QED BY <1>1, <1>2, <1>3 DEF f

\* A sequence with one more element: its length and its elements.
LEMMA AppendIs ==
  ASSUME NEW S, NEW s \in Seq(S), NEW x \in S, NEW n \in Nat, Len(s) = n
  PROVE  /\ Append(s, x) \in Seq(S) /\ Len(Append(s, x)) = n + 1 /\ DOMAIN Append(s, x) = 1 .. (n + 1)
         /\ Append(s, x)[n + 1] = x /\ \A i \in 1 .. n : Append(s, x)[i] = s[i]
OBVIOUS

\* A turn to the page that follows: where it ends is where the next one begins.
LEMMA NextIsTurned ==
  ASSUME BrowseAssumption, WalkInv, Loaded, Shown.nextCursor # NoCursor,
         NEW l, l = [list EXCEPT !.stack = Append(@, Shown.nextCursor), !.path = Append(@, pages[KeyOf(list)])]
  PROVE  /\ IsTurned(l)
         /\ ToSet(l.path) \subseteq ToSet(list.path) \cup {pages[k] : k \in DOMAIN pages}
<1> DEFINE seen == pages[KeyOf(list)]
           c == Shown.nextCursor
           filters == Filters(list.q, list.search)
           n == Len(list.path)
           page(m, i) == Page(<<m.sort, Filters(m.q, m.search), CursorOf(SubSeq(m.stack, 1, i - 1))>>, m.path[i])
<1>1. /\ IsTurned(list) /\ DOMAIN list = {"sort", "search", "typed", "q", "stack", "due", "path"}
      /\ DOMAIN list = DOMAIN NewList
  BY DEF WalkInv, IsTurned, NewList
<1>2. /\ list.path \in Seq(SUBSET Nota) /\ list.stack \in Seq(Int \X Int) /\ n = Len(list.stack) /\ n \in Nat
      /\ DOMAIN list.path = 1 .. n /\ DOMAIN list.stack = 1 .. n
  BY <1>1 DEF IsTurned
<1>3. /\ list.sort \in Sorts /\ DOMAIN list.search \subseteq Searches
      /\ \A i \in DOMAIN list.path : page(list, i).nextCursor = list.stack[i]
  BY <1>1 DEF IsTurned, Sorts, Searches
<1>4. /\ l.stack = Append(list.stack, c) /\ l.path = Append(list.path, seen) /\ DOMAIN l = DOMAIN list
      /\ l.sort = list.sort /\ l.search = list.search /\ l.q = list.q
  BY <1>1
<1>5. seen \in {pages[k] : k \in DOMAIN pages}
  BY DEF Loaded
<1>6. seen \in SUBSET Nota /\ IsFiniteSet(seen)
  <2>1. AreSnapshots({there} \cup {pages[k] : k \in DOMAIN pages} \cup ToSet(list.path))
        /\ there \subseteq Nota /\ IsFiniteSet(there)
    BY DEF WalkInv
  <2>2. seen \subseteq there
    BY <1>5, <2>1 DEF AreSnapshots
  <2> QED BY <2>1, <2>2, FS_Subset
<1>7. Shown = Page(<<list.sort, filters, CursorOf(list.stack)>>, seen)
  BY DEF Shown, KeyOf
<1> HIDE DEF seen, filters
<1>8. c \in Int \X Int
  <2> DEFINE rows == ListRows(seen, filters, list.sort[1])
  <2>1. IsListPage(Shown, rows, list.sort[2], CursorOf(list.stack))
    BY <1>3, <1>6, <1>7, ListPageIs
  <2>2. list.sort[1] \in {"numero", "valorTotal", "dataEmissao"}
    BY <1>3 DEF Sorts
  <2>3. rows \in SUBSET Places
    BY <1>6, <2>2, ListRowsAre
  <2> HIDE DEF rows
  <2>4. PICK m \in DOMAIN Shown.data : Shown.data[m] = c
    BY <2>1 DEF IsListPage
  <2>5. c \in rows
    BY <2>1, <2>4 DEF IsListPage
  <2> QED BY <2>3, <2>5 DEF Places
<1> HIDE DEF c
<1>9. /\ l.path \in Seq(SUBSET Nota) /\ l.stack \in Seq(Int \X Int) /\ Len(l.path) = n + 1 /\ Len(l.stack) = n + 1
      /\ DOMAIN l.path = 1 .. (n + 1)
      /\ l.path[n + 1] = seen /\ l.stack[n + 1] = c
      /\ \A i \in 1 .. n : l.path[i] = list.path[i] /\ l.stack[i] = list.stack[i]
  <2> DEFINE p == list.path
             s == list.stack
  <2>1. p \in Seq(SUBSET Nota) /\ s \in Seq(Int \X Int) /\ Len(p) = n /\ Len(s) = n /\ n \in Nat
    BY <1>2
  <2> HIDE DEF p, s, n
  <2>2. /\ Append(p, seen) \in Seq(SUBSET Nota) /\ Len(Append(p, seen)) = n + 1
        /\ DOMAIN Append(p, seen) = 1 .. (n + 1)
        /\ Append(p, seen)[n + 1] = seen /\ \A i \in 1 .. n : Append(p, seen)[i] = p[i]
    BY <1>6, <2>1, AppendIs
  <2>3. /\ Append(s, c) \in Seq(Int \X Int) /\ Len(Append(s, c)) = n + 1
        /\ Append(s, c)[n + 1] = c /\ \A i \in 1 .. n : Append(s, c)[i] = s[i]
    BY <1>8, <2>1, AppendIs
  <2> QED BY <1>4, <2>2, <2>3 DEF p, s
<1>10. \A i \in 1 .. (n + 1) : SubSeq(l.stack, 1, i - 1) = SubSeq(list.stack, 1, i - 1)
  <2> SUFFICES ASSUME NEW i \in 1 .. (n + 1)
               PROVE  SubSeq(l.stack, 1, i - 1) = SubSeq(list.stack, 1, i - 1)
    OBVIOUS
  <2>1. i - 1 \in Nat /\ i - 1 <= n /\ \A j \in 1 .. (i - 1) : j \in 1 .. n
    BY <1>2
  <2>2. SubSeq(l.stack, 1, i - 1) = [j \in 1 .. (i - 1) |-> l.stack[j]]
    BY <2>1, <1>9
  <2>3. SubSeq(list.stack, 1, i - 1) = [j \in 1 .. (i - 1) |-> list.stack[j]]
    BY <2>1, <1>2
  <2> QED BY <1>9, <2>1, <2>2, <2>3
<1>11. SubSeq(list.stack, 1, n) = list.stack
  BY <1>2
<1>12. ASSUME NEW i \in 1 .. (n + 1) PROVE page(l, i).nextCursor = l.stack[i]
  <2>1. CASE i \in 1 .. n
    <3>1. page(l, i) = page(list, i)
      BY <1>4, <1>9, <1>10, <2>1
    <3> HIDE DEF page
    <3> QED BY <1>2, <1>3, <1>9, <2>1, <3>1
  <2>2. CASE i = n + 1
    <3>1. SubSeq(l.stack, 1, i - 1) = list.stack
      BY <1>2, <1>10, <1>11, <2>2
    <3>2. page(l, i) = Shown
      BY <1>4, <1>7, <1>9, <2>2, <3>1 DEF filters
    <3> HIDE DEF page
    <3> QED BY <1>9, <2>2, <3>2 DEF c
  <2>3. i \in 1 .. n \/ i = n + 1
    BY <1>2
  <2> HIDE DEF page, n
  <2> QED BY <2>1, <2>2, <2>3
<1>13. IsTurned(l)
  BY <1>1, <1>3, <1>4, <1>9, <1>12 DEF IsTurned, Sorts, Searches
<1>14. \A i \in DOMAIN l.path : l.path[i] \in ToSet(list.path) \cup {pages[k] : k \in DOMAIN pages}
  <2>1. \A i \in 1 .. (n + 1) : i \in DOMAIN list.path \/ i = n + 1
    BY <1>2
  <2> QED BY <1>2, <1>5, <1>9, <2>1 DEF ToSet
<1> QED BY <1>13, <1>14 DEF ToSet

\* A turn back.
LEMMA PrevIsTurned ==
  ASSUME WalkInv, list.stack # << >>, NEW l, l = [list EXCEPT !.stack = Front(@), !.path = Front(@)]
  PROVE  IsTurned(l) /\ ToSet(l.path) \subseteq ToSet(list.path)
<1> DEFINE n == Len(list.path) - 1
           page(m, i) == Page(<<m.sort, Filters(m.q, m.search), CursorOf(SubSeq(m.stack, 1, i - 1))>>, m.path[i])
<1>1. /\ IsTurned(list) /\ DOMAIN list = {"sort", "search", "typed", "q", "stack", "due", "path"}
      /\ DOMAIN list = DOMAIN NewList
  BY DEF WalkInv, IsTurned, NewList
<1>2. /\ list.path \in Seq(SUBSET Nota) /\ list.stack \in Seq(Int \X Int) /\ n \in Nat
      /\ Len(list.path) = n + 1 /\ Len(list.stack) = n + 1 /\ DOMAIN list.path = 1 .. (n + 1)
  BY <1>1 DEF IsTurned
<1>3. /\ list.sort \in Sorts /\ DOMAIN list.search \subseteq Searches
      /\ \A i \in DOMAIN list.path : page(list, i).nextCursor = list.stack[i]
  BY <1>1 DEF IsTurned, Sorts, Searches
<1>4. /\ l.stack = Front(list.stack) /\ l.path = Front(list.path) /\ DOMAIN l = DOMAIN list
      /\ l.sort = list.sort /\ l.search = list.search /\ l.q = list.q
  BY <1>1
<1> HIDE DEF n
<1>5. /\ l.path \in Seq(SUBSET Nota) /\ Len(l.path) = n /\ DOMAIN l.path = 1 .. n
      /\ \A i \in 1 .. n : l.path[i] = list.path[i]
  <2> DEFINE p == list.path
             f == Front(p)
  <2>1. p \in Seq(SUBSET Nota) /\ n \in Nat /\ Len(p) = n + 1
    BY <1>2
  <2> HIDE DEF p
  <2>2. /\ f \in Seq(SUBSET Nota) /\ Len(f) = n /\ DOMAIN f = 1 .. n
        /\ \A i \in 1 .. n : f[i] = p[i]
    BY <2>1, FrontIs
  <2>3. l.path = f
    BY <1>4 DEF p
  <2> HIDE DEF f
  <2> QED BY <2>2, <2>3 DEF p
<1>6. /\ l.stack \in Seq(Int \X Int) /\ Len(l.stack) = n
      /\ \A i \in 1 .. n : l.stack[i] = list.stack[i] /\ SubSeq(l.stack, 1, i - 1) = SubSeq(list.stack, 1, i - 1)
  <2> DEFINE s == list.stack
             f == Front(s)
  <2>1. s \in Seq(Int \X Int) /\ n \in Nat /\ Len(s) = n + 1
    BY <1>2
  <2> HIDE DEF s
  <2>2. /\ f \in Seq(Int \X Int) /\ Len(f) = n
        /\ \A i \in 1 .. n : f[i] = s[i]
        /\ \A i \in 1 .. n : SubSeq(f, 1, i - 1) = SubSeq(s, 1, i - 1)
    BY <2>1, FrontIs
  <2>3. l.stack = f
    BY <1>4 DEF s
  <2> HIDE DEF f
  <2>4. /\ l.stack \in Seq(Int \X Int) /\ Len(l.stack) = n
        /\ \A i \in 1 .. n : l.stack[i] = s[i] /\ SubSeq(l.stack, 1, i - 1) = SubSeq(s, 1, i - 1)
    BY <2>2, <2>3
  <2> QED BY <2>4 DEF s
<1>7. \A i \in 1 .. n : i \in 1 .. (n + 1)
  BY <1>2
<1>8. ASSUME NEW i \in 1 .. n PROVE page(l, i).nextCursor = l.stack[i]
  <2>1. page(l, i) = page(list, i)
    BY <1>4, <1>5, <1>6
  <2> HIDE DEF page
  <2> QED BY <1>2, <1>3, <1>6, <1>7, <2>1
<1>9. IsTurned(l)
  BY <1>1, <1>3, <1>4, <1>5, <1>6, <1>8 DEF IsTurned, Sorts, Searches
<1>10. ToSet(l.path) \subseteq ToSet(list.path)
  BY <1>2, <1>5, <1>7 DEF ToSet
<1> QED BY <1>9, <1>10

\* The list stays, what is kept was there before or is there now.
LEMMA WalkKept ==
  ASSUME WalkInv, there \subseteq there', there' \subseteq Nota, IsFiniteSet(there'), SameList(list', list),
         \A k \in DOMAIN pages' : pages'[k] \in {there'} \cup {there} \cup {pages[j] : j \in DOMAIN pages}
  PROVE  WalkInv'
<1> DEFINE cached == {pages[k] : k \in DOMAIN pages}
           old == {there} \cup cached \cup ToSet(list.path)
<1>1. AreSnapshots(old) /\ IsTurned(list)
  BY DEF WalkInv
<1>2. list'.path = list.path /\ IsTurned(list')
  BY <1>1, TurnedIsSame DEF SameList
<1>3. \A s \in cached' : s \in old \/ s = there'
  OBVIOUS
<1>4. \A s \in {there'} \cup cached' \cup ToSet(list'.path) : s \in old \/ s = there'
  BY <1>2, <1>3
<1>5. \A s, t \in old : s \subseteq there /\ (s \subseteq t \/ t \subseteq s)
  BY <1>1 DEF AreSnapshots
<1> HIDE DEF old, cached
<1>6. AreSnapshots({there} \cup cached \cup ToSet(list.path))'
  BY <1>4, <1>5 DEF AreSnapshots
<1> QED BY <1>2, <1>6 DEF WalkInv, cached

\* It speaks of the notas in the graph, the list and its cache only.
LEMMA WalkStays ==
  ASSUME WalkInv, UNCHANGED <<there, list, pages>>
  PROVE  WalkInv'
BY DEF WalkInv, AreSnapshots

\* The filters a search is given are those the list has.
LEMMA SearchesAre ==
  ASSUME NEW search, DOMAIN search \subseteq Searches
  PROVE  /\ \A s : DOMAIN SetStatus(search, s) \subseteq Searches
         /\ \A campo \in Searches : \A valor : /\ DOMAIN SetFiltro(search, campo, valor) \subseteq Searches
                                             /\ DOMAIN With(search, campo, valor) \subseteq Searches
         /\ DOMAIN LimparFiltros(search) \subseteq Searches
         /\ DOMAIN LimparRecorte(search) \subseteq Searches
<1>1. \A campo, valor : DOMAIN With(search, campo, valor) = DOMAIN search \cup {campo}
  BY DEF With
<1>2. \A params : DOMAIN Without(search, params) \subseteq DOMAIN search
  BY DEF Without, Restrict
<1>3. "status" \in Searches
  BY DEF Searches
<1>4. DOMAIN LimparRecorte(search) \subseteq DOMAIN search
  BY DEF LimparRecorte, Restrict
<1>5. \A s : SetStatus(search, s) = Without(search, {"status"}) \/ SetStatus(search, s) = With(search, "status", s)
  BY DEF SetStatus
<1>6. \A campo, valor : \/ SetFiltro(search, campo, valor) = Without(search, {campo})
                       \/ SetFiltro(search, campo, valor) = With(search, campo, valor)
  BY DEF SetFiltro
<1>7. DOMAIN LimparFiltros(search) \subseteq DOMAIN search
  BY <1>2 DEF LimparFiltros
<1>8. \A params : DOMAIN Without(search, params) \subseteq Searches
  BY <1>2
<1>9. ASSUME NEW campo \in Searches, NEW valor PROVE DOMAIN With(search, campo, valor) \subseteq Searches
  <2>1. DOMAIN With(search, campo, valor) = DOMAIN search \cup {campo}
    BY <1>1
  <2>2. DOMAIN search \cup {campo} \subseteq Searches
    OBVIOUS
  <2> QED BY <2>1, <2>2, Zenon
<1>10. \A s : DOMAIN SetStatus(search, s) \subseteq Searches
  BY <1>3, <1>5, <1>8, <1>9
<1>11. \A campo \in Searches : \A valor : DOMAIN SetFiltro(search, campo, valor) \subseteq Searches
  BY <1>6, <1>8, <1>9
<1> QED BY <1>4, <1>7, <1>9, <1>10, <1>11

\* Every step keeps it: turning a page, a new order or filter, an answer that is cached, an import.
LEMMA WalkStep ==
  ASSUME BrowseAssumption, WalkInv, Next
  PROVE  WalkInv'
<1>1. /\ there \subseteq Nota /\ IsFiniteSet(there) /\ IsTurned(list) /\ DOMAIN list.search \subseteq Searches
      /\ list.sort \in Sorts /\ DOMAIN list = {"sort", "search", "typed", "q", "stack", "due", "path"}
      /\ DOMAIN list = DOMAIN NewList
  BY DEF WalkInv, IsTurned, Sorts, Searches, NewList
<1>2. SameList(list, list)
  BY <1>1 DEF SameList
<1>3. UNCHANGED <<there, list, pages>> => WalkInv'
  BY WalkStays
<1>4. ASSUME NEW k \in Nota, Import(k) PROVE WalkInv'
  <2>1. there' = there \cup {k} /\ UNCHANGED <<list, pages>>
    BY <1>4 DEF Import
  <2>2. IsFiniteSet(there') /\ there' \subseteq Nota /\ there \subseteq there'
    BY <1>1, <2>1, FS_AddElement
  <2>3. SameList(list', list)
    BY <1>2, <2>1
  <2> QED BY <2>1, <2>2, <2>3, WalkKept
<1>5. ASSUME FetchPage PROVE WalkInv'
  <2>1. /\ pages' = Over([k \in {KeyOf(list)} |-> there], pages) /\ UNCHANGED there
        /\ list' = [list EXCEPT !.due = FALSE]
    BY <1>5 DEF FetchPage
  <2>2. SameList(list', list)
    BY <1>1, <2>1 DEF SameList
  <2> DEFINE fetched == [k \in {KeyOf(list)} |-> there]
  <2>3. pages' = Over(fetched, pages) /\ \A k \in DOMAIN fetched : fetched[k] = there
    BY <2>1
  <2> HIDE DEF fetched
  <2>4. \A k \in DOMAIN pages' : pages'[k] = there \/ (k \in DOMAIN pages /\ pages'[k] = pages[k])
    BY <2>3 DEF Over
  <2> QED BY <1>1, <2>1, <2>2, <2>4, WalkKept
<1>6. ASSUME NextPage PROVE WalkInv'
  <2> DEFINE l == [list EXCEPT !.stack = Append(@, Shown.nextCursor), !.path = Append(@, pages[KeyOf(list)])]
  <2>1. GoTo(l) /\ Loaded /\ Shown.nextCursor # NoCursor
    BY <1>6 DEF NextPage
  <2>2. IsTurned(l) /\ ToSet(l.path) \subseteq ToSet(list.path) \cup {pages[k] : k \in DOMAIN pages}
    BY <2>1, NextIsTurned
  <2> HIDE DEF l
  <2> QED BY <2>1, <2>2, WalkGoes
<1>7. ASSUME PrevPage PROVE WalkInv'
  <2> DEFINE l == [list EXCEPT !.stack = Front(@), !.path = Front(@)]
  <2>1. GoTo(l) /\ list.stack # << >>
    BY <1>7 DEF PrevPage
  <2>2. IsTurned(l) /\ ToSet(l.path) \subseteq ToSet(list.path)
    BY <2>1, PrevIsTurned
  <2> HIDE DEF l
  <2> QED BY <2>1, <2>2, WalkGoes
<1>8. ASSUME NEW key \in SortKeys, ToggleSort(key) PROVE WalkInv'
  <2> DEFINE s == <<key, IF list.sort[1] = key /\ list.sort[2] = "desc" THEN "asc" ELSE "desc">>
             l == [list EXCEPT !.sort = s]
  <2>1. s \in Sorts
    BY DEF Sorts, BrowseAssumption
  <2>2. FirstPage(l)
    BY <1>8 DEF ToggleSort
  <2> HIDE DEF s
  <2>3. DOMAIN l = DOMAIN NewList /\ l.sort = s /\ l.search = list.search /\ l.path = list.path /\ l.stack = list.stack
    BY <1>1
  <2> HIDE DEF l
  <2> QED BY <1>1, <2>1, <2>2, <2>3, WalkStartsOver
<1>9. ASSUME NEW search, DOMAIN search \subseteq Searches, NEW typed,
             FirstPage([list EXCEPT !.search = search, !.typed = typed])
      PROVE  WalkInv'
  <2> DEFINE l == [list EXCEPT !.search = search, !.typed = typed]
  <2>1. DOMAIN l = DOMAIN NewList /\ l.sort = list.sort /\ l.search = search /\ l.path = list.path /\ l.stack = list.stack
    BY <1>1
  <2>2. FirstPage(l)
    BY <1>9
  <2> HIDE DEF l
  <2> QED BY <1>1, <1>9, <2>1, <2>2, WalkStartsOver
<1>10. ASSUME NEW search, DOMAIN search \subseteq Searches, Navigate(search) PROVE WalkInv'
  <2>1. [list EXCEPT !.search = search] = [list EXCEPT !.search = search, !.typed = list.typed]
    BY <1>1
  <2>2. FirstPage([list EXCEPT !.search = search])
    BY <1>10 DEF Navigate
  <2> QED BY <1>9, <1>10, <2>1, <2>2
<1>11. ChangeSearch => WalkInv'
  <2>1. \A f \in Filtros : f[1] \in Searches
    BY DEF BrowseAssumption, Searches
  <2>2. \A s : DOMAIN SetStatus(list.search, s) \subseteq Searches
    BY <1>1, SearchesAre
  <2>3. \A f \in Filtros : \A valor : DOMAIN SetFiltro(list.search, f[1], valor) \subseteq Searches
    BY <1>1, <2>1, SearchesAre
  <2>4. DOMAIN LimparFiltros(list.search) \subseteq Searches /\ DOMAIN LimparRecorte(list.search) \subseteq Searches
    BY <1>1, SearchesAre
  <2> QED BY <1>10, <2>2, <2>3, <2>4 DEF ChangeSearch
<1>12. ASSUME NEW v, AplicarViewHere(v) PROVE WalkInv'
  <2>1. DOMAIN AplicarView(v) \subseteq Searches
    <3>1. DOMAIN NoSearch \subseteq Searches
      BY DEF NoSearch
    <3> QED BY <3>1, SearchesAre DEF AplicarView
  <2>2. FirstPage([list EXCEPT !.search = AplicarView(v), !.typed = v.q])
    BY <1>12 DEF AplicarViewHere
  <2> QED BY <1>9, <2>1, <2>2
<1>13. ASSUME Settle PROVE WalkInv'
  <2> DEFINE l == [list EXCEPT !.q = list.typed]
  <2>1. DOMAIN l = DOMAIN NewList /\ l.sort = list.sort /\ l.search = list.search /\ l.path = list.path
        /\ l.stack = list.stack
    BY <1>1
  <2>2. FirstPage(l)
    BY <1>13 DEF Settle
  <2> HIDE DEF l
  <2> QED BY <1>1, <2>1, <2>2, WalkStartsOver
<1>14. ASSUME NEW text, Type(text) PROVE WalkInv'
  <2> DEFINE l == [list EXCEPT !.typed = text]
  <2>1. SameList(l, list) /\ l.path = list.path
    BY <1>1 DEF SameList
  <2>2. GoTo(l)
    BY <1>14 DEF Type
  <2> HIDE DEF l
  <2>3. IsTurned(l)
    BY <1>1, <2>1, TurnedIsSame
  <2> QED BY <2>1, <2>2, <2>3, WalkGoes
<1>15. ASSUME NEW e, NEW l, DOMAIN l = DOMAIN NewList, l.sort = NewList.sort, DOMAIN l.search \subseteq Searches,
              l.path = << >>, l.stack = << >>, NEW busca, Show(e, l, busca)
       PROVE  WalkInv'
  <2>1. PICK d : list' = [l EXCEPT !.due = d]
    BY <1>15 DEF Show
  <2>2. DOMAIN NewList = {"sort", "search", "typed", "q", "stack", "due", "path"} /\ NewList.sort \in Sorts
    BY DEF NewList, Sorts
  <2>3. /\ DOMAIN list' = DOMAIN NewList /\ list'.sort = NewList.sort /\ list'.search = l.search
        /\ list'.path = << >> /\ list'.stack = << >>
    BY <1>15, <2>1, <2>2
  <2>4. IsTurned(list') /\ ToSet(list'.path) = {}
    BY <1>15, <2>2, <2>3, FirstIsTurned
  <2>5. UNCHANGED <<there, pages>>
    BY <1>15 DEF Show
  <2> QED BY <2>4, <2>5, WalkTurns
<1>16. (\E e \in Entities : Trocar(e) \/ Rail(e)) \/ (\E v \in views : AplicarViewThere(v)) \/ VerNotas => WalkInv'
  <2>1. DOMAIN NoSearch \subseteq Searches /\ "cnpjEmitente" \in Searches
    BY DEF NoSearch, Searches
  <2>2. /\ DOMAIN PlainList = DOMAIN NewList /\ PlainList.sort = NewList.sort /\ PlainList.search = NoSearch
        /\ PlainList.path = << >> /\ PlainList.stack = << >>
        /\ DOMAIN PlainList = {"sort", "search", "typed", "q", "stack", "due", "path"}
    BY DEF NewList, PlainList
  <2> HIDE DEF PlainList
  <2>3. ASSUME NEW e, Trocar(e) PROVE WalkInv'
    <3>1. CASE Show(e, [PlainList EXCEPT !.typed = NoText], "")
      <4> DEFINE l == [PlainList EXCEPT !.typed = NoText]
      <4>1. /\ DOMAIN l = DOMAIN NewList /\ l.sort = NewList.sort /\ l.search = NoSearch
            /\ l.path = << >> /\ l.stack = << >>
        BY <2>2
      <4>2. \E busca : Show(e, l, busca)
        BY <3>1
      <4> HIDE DEF l
      <4> QED BY <1>15, <2>1, <4>1, <4>2
    <3>2. CASE FirstPage([list EXCEPT !.search = NoSearch, !.typed = NoText])
      BY <1>9, <2>1, <3>2
    <3> QED BY <2>3, <3>1, <3>2 DEF Trocar
  <2>4. ASSUME NEW e, Rail(e) PROVE WalkInv'
    <3>1. CASE Show(e, PlainList, ranking.busca)
      BY <1>15, <2>1, <2>2, <3>1
    <3>2. CASE Navigate(NoSearch)
      BY <1>10, <2>1, <3>2
    <3> QED BY <2>4, <3>1, <3>2 DEF Rail
  <2>5. ASSUME NEW v, AplicarViewThere(v) PROVE WalkInv'
    <3> DEFINE l == [PlainList EXCEPT !.search = AplicarView(v), !.typed = v.q]
    <3>1. DOMAIN AplicarView(v) \subseteq Searches
      BY <2>1, SearchesAre DEF AplicarView
    <3>2. /\ DOMAIN l = DOMAIN NewList /\ l.sort = NewList.sort /\ l.search = AplicarView(v)
          /\ l.path = << >> /\ l.stack = << >>
      BY <2>2
    <3>3. Show("notas", l, ranking.busca)
      BY <2>5 DEF AplicarViewThere
    <3> HIDE DEF l
    <3> QED BY <1>15, <3>1, <3>2, <3>3
  <2>6. ASSUME VerNotas PROVE WalkInv'
    <3>1. PICK r \in ToSet(Rows) :
              Show("notas", [PlainList EXCEPT !.search = With(NoSearch, "cnpjEmitente", r.cnpj)], ranking.busca)
      BY <2>6 DEF VerNotas
    <3> DEFINE search == With(NoSearch, "cnpjEmitente", r.cnpj)
               l == [PlainList EXCEPT !.search = search]
    <3>2. DOMAIN search \subseteq Searches
      BY <2>1, SearchesAre
    <3> HIDE DEF search
    <3>3. /\ DOMAIN l = DOMAIN NewList /\ l.sort = NewList.sort /\ l.search = search
          /\ l.path = << >> /\ l.stack = << >>
      BY <2>2
    <3>4. Show("notas", l, ranking.busca)
      BY <3>1 DEF search
    <3> HIDE DEF l
    <3> QED BY <1>15, <3>2, <3>3, <3>4
  <2> QED BY <2>3, <2>4, <2>5, <2>6
<1>17. SalvarView \/ (\E v \in views : RemoveView(v)) => WalkInv'
  BY <1>3 DEF SalvarView, RemoveView
<1>18. FetchRanking \/ Reconnect \/ UseRanking \/ (\E b \in Buscas : Buscar(b)) => WalkInv'
  <2>1. ASSUME NEW t, TableTo(t) PROVE WalkInv'
    BY <1>3, <2>1 DEF TableTo
  <2> QED BY <1>3, <2>1 DEF FetchRanking, Reconnect, UseRanking, UseTable, Buscar
<1> QED
  BY <1>4, <1>5, <1>6, <1>7, <1>8, <1>11, <1>12, <1>13, <1>14, <1>16, <1>17, <1>18 DEF Next

\* It holds when nothing has been fetched yet.
LEMMA WalkStarts ==
  ASSUME BrowseAssumption, Init
  PROVE  WalkInv
<1>1. there = Before /\ list = NewList /\ DOMAIN pages = {}
  BY DEF Init
<1>2. there \subseteq Nota /\ IsFiniteSet(there)
  BY <1>1 DEF BrowseAssumption
<1>3. IsTurned(list) /\ ToSet(list.path) = {}
  <2>1. NewList.sort \in Sorts /\ DOMAIN NewList.search \subseteq Searches /\ NewList.path = << >> /\ NewList.stack = << >>
    BY DEF NewList, NoSearch, Sorts
  <2> QED BY <1>1, <2>1, FirstIsTurned
<1>4. AreSnapshots({there} \cup {pages[k] : k \in DOMAIN pages} \cup ToSet(list.path))
  BY <1>1, <1>3 DEF AreSnapshots
<1> QED BY <1>2, <1>3, <1>4 DEF WalkInv

-----------------------------------------------------------------------------
(* What the drawing was made of.                                             *)

\* A nota that is in the graph stays in it.
LEMMA ThereGrows ==
  ASSUME Next
  PROVE  there \subseteq there'
<1>1. ASSUME NEW k \in Nota, Import(k) PROVE there \subseteq there'
  BY <1>1 DEF Import
<1>2. FetchPage \/ NextPage \/ PrevPage \/ ChangeSearch \/ Settle \/ SalvarView => UNCHANGED there
  BY DEF FetchPage, NextPage, PrevPage, ChangeSearch, Navigate, Settle, SalvarView, FirstPage, GoTo
<1>3. ASSUME NEW x, ToggleSort(x) \/ Type(x) \/ RemoveView(x) \/ AplicarViewHere(x) \/ AplicarViewThere(x)
      PROVE  UNCHANGED there
  BY <1>3 DEF ToggleSort, Type, RemoveView, AplicarViewHere, AplicarViewThere, FirstPage, GoTo, Show
<1>4. FetchRanking \/ Reconnect \/ UseRanking \/ (\E b \in Buscas : Buscar(b)) => UNCHANGED there
  BY DEF FetchRanking, Reconnect, UseRanking, UseTable, TableTo, Buscar
<1>5. (\E e \in Entities : Trocar(e) \/ Rail(e)) \/ VerNotas => UNCHANGED there
  BY DEF Trocar, Rail, VerNotas, Show, Navigate, FirstPage, GoTo
<1> QED
  BY <1>1, <1>2, <1>3, <1>4, <1>5 DEF Next

\* What ReadsInv says of one load.
GoodReads(l, now) ==
    /\ \A ds \in l.nodes \cup l.rest : ds \subseteq now
    /\ \A ds \in l.nodes, es \in l.rest : ds \subseteq es
    /\ l.rest # {} => l.nodes # {}

\* ReadsInv is kept: the server reads what is there, and nothing leaves the graph.
LEMMA ReadsStep ==
  ASSUME LoadInv, ReadsInv, PagesNext, there \subseteq there'
  PROVE  ReadsInv'
<1>1. LoadParts
  BY LoadInvIs
<1>2. (\A l \in loads : GoodReads(l, there)) /\ \A c \in DOMAIN expanded : expanded[c] \subseteq there
  BY DEF ReadsInv, GoodReads
<1>3. ReadsInv' <=> /\ \A l \in loads' : GoodReads(l, there')
                    /\ \A c \in DOMAIN expanded' : expanded'[c] \subseteq there'
  BY DEF ReadsInv, GoodReads
<1>4. \A l : GoodReads(l, there) => GoodReads(l, there')
  BY DEF GoodReads
<1>5. ASSUME \A l \in loads' \ loads : GoodReads(l, there'),
             \A c \in DOMAIN expanded' : expanded'[c] \subseteq there
      PROVE  ReadsInv'
  BY <1>2, <1>3, <1>4, <1>5
<1>6. ASSUME NEW c, NEW o, NEW merge, Load(c, o, merge), UNCHANGED expanded PROVE ReadsInv'
  <2> DEFINE r == [id |-> begun, cnpj |-> c, options |-> o, merge |-> merge, nodes |-> {}, rest |-> {}]
  <2>1. loads' = loads \cup {r}
    BY <1>6 DEF Load
  <2>2. GoodReads(r, there')
    BY DEF GoodReads
  <2> HIDE DEF r
  <2> QED BY <1>2, <1>5, <1>6, <2>1, <2>2
<1>7. ASSUME NEW c, RunSearch(c) \/ OnNodeClick(c) PROVE ReadsInv'
  BY <1>6, <1>7 DEF RunSearch, OnNodeClick, Reload
<1>8. ASSUME SetOption PROVE ReadsInv'
  BY <1>6, <1>8 DEF SetOption, Reload
<1>9. ASSUME Reset PROVE ReadsInv'
  <2>1. loads' = loads /\ expanded' = << >>
    BY <1>9 DEF Reset
  <2> QED BY <1>5, <2>1
<1>10. ASSUME NEW l \in loads, ReadNodes(l) PROVE ReadsInv'
  <2> DEFINE m == [l EXCEPT !.nodes = {there}]
  <2>1. l.nodes = {} /\ loads' = (loads \ {l}) \cup {m} /\ expanded' = expanded
    BY <1>10 DEF ReadNodes
  <2>2. m.nodes = {there} /\ m.rest = l.rest /\ l.rest = {}
    BY <1>1, <1>2, <2>1 DEF LoadParts, GoodLoad, GoodReads
  <2> HIDE DEF m
  <2>3. GoodReads(m, there')
    BY <2>2 DEF GoodReads
  <2> QED BY <1>2, <1>5, <2>1, <2>3
<1>11. ASSUME NEW l \in loads, ReadRest(l) PROVE ReadsInv'
  <2> DEFINE m == [l EXCEPT !.rest = {there}]
  <2>1. l.nodes # {} /\ loads' = (loads \ {l}) \cup {m} /\ expanded' = expanded
    BY <1>11 DEF ReadRest
  <2>2. m.nodes = l.nodes /\ m.rest = {there} /\ \A ds \in l.nodes : ds \subseteq there
    BY <1>1, <1>2 DEF LoadParts, GoodLoad, GoodReads
  <2> HIDE DEF m
  <2>3. GoodReads(m, there')
    BY <2>1, <2>2 DEF GoodReads
  <2> QED BY <1>2, <1>5, <2>1, <2>3
<1>12. ASSUME NEW l \in loads, Arrive(l) PROVE ReadsInv'
  <2> DEFINE seen == CHOOSE ds \in l.nodes : TRUE
             kept == IF l.merge THEN expanded ELSE << >>
  <2>1. l.rest # {} /\ loads' = loads \ {l} /\ expanded' = Over([c \in {l.cnpj} |-> seen], kept)
    BY <1>12 DEF Arrive
  <2>2. seen \in l.nodes /\ seen \subseteq there
    BY <1>2, <2>1 DEF GoodReads
  <2>3. \A c \in DOMAIN kept : kept[c] \subseteq there
    BY <1>2
  <2> HIDE DEF seen, kept
  <2>4. \A c \in DOMAIN expanded' : expanded'[c] \subseteq there
    BY <2>1, <2>2, <2>3 DEF Over
  <2> QED BY <1>5, <2>1, <2>4
<1>13. ASSUME NEW l \in loads, Fail(l) PROVE ReadsInv'
  BY <1>2, <1>5, <1>13 DEF Fail
<1>14. ASSUME UNCHANGED screen PROVE ReadsInv'
  BY <1>2, <1>5, <1>14 DEF screen
<1> QED
  BY <1>7, <1>8, <1>9, <1>10, <1>11, <1>12, <1>13, <1>14 DEF PagesNext

\* What ExpandedIsComplete says of one company.
WholeAt(edges, ds, now, c) ==
    \/ \A t \in TradesAt(GraphOfAll(ds), c) : <<Empresa(t[1]), Empresa(t[3])>> \in edges
    \/ ~Fits(GraphOfAll(now), c)
LEMMA WholeStays ==
  ASSUME BrowseAssumption, NEW es, es \subseteq Nota, IsFiniteSet(es), NEW now, now \subseteq es,
         NEW ds, NEW c, NEW edges, NEW more, edges \subseteq more, WholeAt(edges, ds, now, c)
  PROVE  WholeAt(more, ds, es, c)
<1> SUFFICES ASSUME Fits(GraphOfAll(es), c) PROVE Fits(GraphOfAll(now), c)
  BY DEF WholeAt
<1>1. now \in SUBSET Nota /\ IsFiniteSet(now) /\ es \in SUBSET Nota
  BY FS_Subset
<1>2. /\ Holds(GraphOfAll(now), Docs(now)) /\ Docs(now) \in SUBSET Docs(Nota) /\ AreNotas(Docs(Nota))
      /\ Holds(GraphOfAll(es), Docs(es)) /\ Docs(es) \in SUBSET Docs(Nota)
  BY <1>1, GraphIs
<1>3. Docs(now) \subseteq Docs(es) /\ IsFiniteSet(Docs(es))
  BY DocsAre
<1> QED BY <1>2, <1>3, FitsBefore

\* The trades of a load's company are drawn from its answer where they fit in it.
LEMMA AnswerDraws ==
  ASSUME NEW S, AreNotas(S), NEW L \in SUBSET S, NEW M \in SUBSET S, NEW N \in SUBSET S,
         L \subseteq M, M \subseteq N, IsFiniteSet(N), NEW l, GoodLoad(l), NEW ds, NEW es,
         ds = CHOOSE x \in l.nodes : TRUE, es = CHOOSE x \in l.rest : TRUE,
         Holds(GraphOfAll(ds), L), Holds(GraphOfAll(es), M), NEW k, Holds(k, N), Fits(k, l.cnpj),
         NEW t \in TradesAt(GraphOfAll(ds), l.cnpj), NEW d, NEW meta
  PROVE  <<Empresa(t[1]), Empresa(t[3])>> \in DOMAIN MergeGraph(d, Answer(l), l.cnpj, meta).edges
<1> DEFINE g == GraphOfAll(ds)
           h == GraphOfAll(es)
           c == l.cnpj
           depth == l.options.depth
           all == CompanyGraph(g, h, c, depth, 100)
           n == MergeGraph(d, Answer(l), c, meta)
<1>1. l.options \in Options /\ depth \in 1 .. 4
  BY DEF GoodLoad, Options
<1>2. Found100(l) = all
  BY DEF Found100
<1>3. Answer(l).nos = all.nos /\ Answer(l).arestas = all.arestas
  BY <1>1, <1>2, AnswerIs
<1>4. /\ {t[1], t[3]} \subseteq {c} \cup {v.cnpj : v \in all.nos}
      /\ \E a \in all.arestas : a.de = t[1] /\ a.para = t[3]
  <2>1. Holds(g, L) /\ Holds(h, M) /\ Fits(k, c) /\ t \in TradesAt(g, c)
    OBVIOUS
  <2> HIDE DEF g, h, depth, c
  <2>2. HasTrades(all, g, c)
    BY <1>1, <2>1, AnswerFits, SMTT(30)
  <2> QED BY <2>1, <2>2 DEF HasTrades
<1> HIDE DEF all, n
<1>5. PICK a \in Answer(l).arestas : a.de = t[1] /\ a.para = t[3]
  BY <1>3, <1>4
<1>6. {a.de, a.para} \subseteq {c} \cup {v.cnpj : v \in Answer(l).nos}
  BY <1>3, <1>4, <1>5
<1>7. <<Empresa(a.de), Empresa(a.para)>> \in DOMAIN n.edges
  BY <1>6, MergeKeepsEdges DEF n
<1> QED BY <1>5, <1>7 DEF n

\* An answer whose parts read the graph one after the other draws the company it is for whole.
LEMMA WholeArrives ==
  ASSUME BrowseAssumption, NEW now \in SUBSET Nota, IsFiniteSet(now), NEW l, GoodLoad(l), GoodReads(l, now),
         l.rest # {}, NEW d, NEW meta
  PROVE  WholeAt(DOMAIN MergeGraph(d, Answer(l), l.cnpj, meta).edges, CHOOSE ds \in l.nodes : TRUE, now, l.cnpj)
<1> DEFINE ds == CHOOSE ds \in l.nodes : TRUE
           es == CHOOSE es \in l.rest : TRUE
<1>1. ds \in l.nodes /\ es \in l.rest
  BY DEF GoodReads
<1>2. ds = (CHOOSE x \in l.nodes : TRUE) /\ es = CHOOSE x \in l.rest : TRUE
  OBVIOUS
<1> HIDE DEF ds, es
<1>3. ds \subseteq es /\ es \subseteq now /\ ds \subseteq now
  BY <1>1 DEF GoodReads
<1>4. ds \in SUBSET Nota /\ IsFiniteSet(ds) /\ es \in SUBSET Nota /\ IsFiniteSet(es)
  BY <1>3, FS_Subset
<1>5. /\ Holds(GraphOfAll(ds), Docs(ds)) /\ Docs(ds) \in SUBSET Docs(Nota) /\ AreNotas(Docs(Nota))
      /\ Holds(GraphOfAll(es), Docs(es)) /\ Docs(es) \in SUBSET Docs(Nota)
      /\ Holds(GraphOfAll(now), Docs(now)) /\ Docs(now) \in SUBSET Docs(Nota)
  BY <1>4, GraphIs
<1>6. Docs(ds) \subseteq Docs(es) /\ Docs(es) \subseteq Docs(now) /\ IsFiniteSet(Docs(now))
  BY <1>3, DocsAre
<1>7. ASSUME Fits(GraphOfAll(now), l.cnpj), NEW t \in TradesAt(GraphOfAll(ds), l.cnpj)
      PROVE  <<Empresa(t[1]), Empresa(t[3])>> \in DOMAIN MergeGraph(d, Answer(l), l.cnpj, meta).edges
  <2> DEFINE S == Docs(Nota)
             L == Docs(ds)
             M == Docs(es)
             N == Docs(now)
             k == GraphOfAll(now)
  <2>1. AreNotas(S) /\ L \in SUBSET S /\ M \in SUBSET S /\ N \in SUBSET S
    BY <1>5
  <2>2. Holds(GraphOfAll(ds), L) /\ Holds(GraphOfAll(es), M) /\ Holds(k, N)
    BY <1>5
  <2>3. L \subseteq M /\ M \subseteq N /\ IsFiniteSet(N) /\ Fits(k, l.cnpj)
    BY <1>6, <1>7
  <2> HIDE DEF S, L, M, N, k
  <2> QED BY <1>2, <1>7, <2>1, <2>2, <2>3, AnswerDraws
<1> QED
  BY <1>7 DEF WholeAt, ds

\* ExpandedIsComplete is kept: an answer draws the company it is for, leaves what is drawn, and
\* what does not fit does not fit later.
LEMMA ExpandedStep ==
  ASSUME BrowseAssumption, LoadInv, ReadsInv, ExpandedIsComplete, PagesNext,
         there' \subseteq Nota, IsFiniteSet(there'), there \subseteq there'
  PROVE  ExpandedIsComplete'
<1>1. \A c \in DOMAIN expanded : WholeAt(DOMAIN drawing.edges, expanded[c], there, c)
  BY DEF ExpandedIsComplete, WholeAt
<1>2. ExpandedIsComplete' <=> \A c \in DOMAIN expanded' : WholeAt(DOMAIN drawing'.edges, expanded'[c], there', c)
  BY DEF ExpandedIsComplete, WholeAt
<1>3. ASSUME NEW edges, NEW more, edges \subseteq more, NEW ds, NEW c, WholeAt(edges, ds, there, c)
      PROVE  WholeAt(more, ds, there', c)
  BY <1>3, WholeStays
<1>4. ASSUME UNCHANGED <<drawing, expanded>> PROVE ExpandedIsComplete'
  BY <1>1, <1>2, <1>3, <1>4
<1>5. ASSUME NEW l \in loads, Arrive(l) PROVE ExpandedIsComplete'
  <2> DEFINE seen == CHOOSE ds \in l.nodes : TRUE
             kept == IF l.merge THEN expanded ELSE << >>
             d == IF l.merge THEN drawing ELSE EmptyDrawing
  <2>1. GoodLoad(l) /\ GoodReads(l, there)
    BY LoadInvIs DEF LoadParts, ReadsInv, GoodReads
  <2>2. PICK meta : drawing' = MergeGraph(d, Answer(l), l.cnpj, meta)
    BY <1>5 DEF Arrive
  <2>3. l.rest # {} /\ expanded' = Over([c \in {l.cnpj} |-> seen], kept)
    BY <1>5 DEF Arrive
  <2>4. there \in SUBSET Nota /\ IsFiniteSet(there)
    BY FS_Subset
  <2>5. WholeAt(DOMAIN drawing'.edges, seen, there, l.cnpj)
    <3> HIDE DEF d
    <3> QED BY <2>1, <2>2, <2>3, <2>4, WholeArrives
  <2>6. DOMAIN d.edges \subseteq DOMAIN drawing'.edges
    <3> HIDE DEF d
    <3> QED BY <2>2, MergeKeepsEdges
  <2>7. \A c \in DOMAIN kept : WholeAt(DOMAIN d.edges, kept[c], there, c)
    BY <1>1
  <2> HIDE DEF seen, kept, d
  <2>8. ASSUME NEW c \in DOMAIN expanded' PROVE WholeAt(DOMAIN drawing'.edges, expanded'[c], there', c)
    <3>1. CASE c = l.cnpj
      <4>1. expanded'[c] = seen
        BY <2>3, <3>1 DEF Over
      <4> QED BY <1>3, <2>5, <3>1, <4>1
    <3>2. CASE c # l.cnpj
      <4>1. c \in DOMAIN kept /\ expanded'[c] = kept[c]
        BY <2>3, <3>2 DEF Over
      <4> QED BY <1>3, <2>6, <2>7, <4>1
    <3> QED BY <3>1, <3>2
  <2> QED BY <1>2, <2>8
<1>6. ASSUME Reset PROVE ExpandedIsComplete'
  <2>1. expanded' = << >>
    BY <1>6 DEF Reset
  <2> QED BY <1>2, <2>1
<1>7. ASSUME NEW c, RunSearch(c) \/ OnNodeClick(c) PROVE ExpandedIsComplete'
  BY <1>4, <1>7 DEF RunSearch, OnNodeClick, Reload
<1>8. ASSUME SetOption PROVE ExpandedIsComplete'
  BY <1>4, <1>8 DEF SetOption, Reload
<1>9. ASSUME NEW l \in loads, ReadNodes(l) \/ ReadRest(l) \/ Fail(l) PROVE ExpandedIsComplete'
  BY <1>4, <1>9 DEF ReadNodes, ReadRest, Fail
<1>10. ASSUME UNCHANGED screen PROVE ExpandedIsComplete'
  BY <1>4, <1>10 DEF screen
<1> QED
  BY <1>5, <1>6, <1>7, <1>8, <1>9, <1>10 DEF PagesNext

-----------------------------------------------------------------------------
(* The invariant.                                                            *)

\* The invariant holds when a page comes up.
LEMMA PagesStart ==
  ASSUME BrowseAssumption, ScreenAssumption, PagesInit
  PROVE  IInv
<1>2. TableInv
  BY DEF PagesInit, Init, NewRanking, NewTable, TableInv, BrowseAssumption
<1>3. LoadInv
  <2>1. LoadParts
    <3> HIDE DEF Cnpjs
    <3> QED BY DEF PagesInit, LoadParts, ScreenAssumption, Options, Alone
  <2> QED BY <2>1, LoadInvIs
<1>4. DrawingInv
  <2>1. DOMAIN EmptyDrawing.nodes = {} /\ DOMAIN EmptyDrawing.edges = {}
    BY DEF EmptyDrawing
  <2>2. drawing = EmptyDrawing /\ root = ""
    BY DEF PagesInit
  <2>3. Roots(drawing) = {}
    BY <2>1, <2>2 DEF Roots
  <2> QED BY <2>1, <2>2, <2>3 DEF DrawingInv
<1>5. WalkInv
  BY WalkStarts DEF PagesInit
<1>6. ReadsInv /\ ExpandedIsComplete
  <2>1. loads = {} /\ expanded = << >>
    BY DEF PagesInit
  <2>2. DOMAIN << >> = {}
    OBVIOUS
  <2> QED BY <2>1, <2>2 DEF ReadsInv, ExpandedIsComplete
<1> QED BY <1>2, <1>3, <1>4, <1>5, <1>6 DEF IInv

\* IInv (module GraphScreen) is inductive: it holds in every state of the Explorer and the Graph
\* page, whatever is imported, clicked, fetched or answered in whichever order.
THEOREM ScreenInvariance == PagesSpec => []IInv
<1>1. PagesInit => IInv
  BY PagesStart, BrowseAssumption, ScreenAssumption
<1>2. IInv /\ [PagesNext]_<<vars, screen>> => IInv'
  <2> SUFFICES ASSUME IInv, [PagesNext]_<<vars, screen>> PROVE IInv'
    OBVIOUS
  <2>1. TableInv /\ WalkInv /\ LoadInv /\ DrawingInv /\ ReadsInv /\ ExpandedIsComplete
    BY DEF IInv
  <2>2. CASE PagesNext
    <3>1. LoadInv' /\ DrawingInv'
      BY <2>1, <2>2, LoadStep, DrawingStep
    <3>2. ASSUME Next PROVE TableInv' /\ WalkInv' /\ there \subseteq there'
      BY <2>1, <3>2, TableStep, WalkStep, ThereGrows, BrowseAssumption
    <3>3. ASSUME NEW k \in Nota, Import(k) PROVE Next
      BY <3>3 DEF Next
    <3>4. ASSUME UNCHANGED <<there, explorer>> PROVE TableInv' /\ WalkInv' /\ there \subseteq there'
      BY <2>1, <3>4, WalkStays DEF explorer, TableInv
    <3>5. TableInv' /\ WalkInv' /\ there \subseteq there'
      BY <2>2, <3>2, <3>3, <3>4 DEF PagesNext
    <3>6. ReadsInv'
      BY <2>1, <2>2, <3>5, ReadsStep
    <3>7. there' \subseteq Nota /\ IsFiniteSet(there')
      BY <3>5 DEF WalkInv
    <3>8. ExpandedIsComplete'
      BY <2>1, <2>2, <3>5, <3>7, ExpandedStep, BrowseAssumption
    <3> QED BY <3>1, <3>5, <3>6, <3>8 DEF IInv
  <2>3. CASE UNCHANGED <<vars, screen>>
    <3>1. TableInv' /\ WalkInv'
      BY <2>1, <2>3, WalkStays DEF vars, TableInv
    <3>2. LoadInv' /\ DrawingInv'
      BY <2>1, <2>3 DEF screen, LoadInv, DrawingInv
    <3>3. ReadsInv' /\ ExpandedIsComplete'
      BY <2>1, <2>3 DEF vars, screen, ReadsInv, ExpandedIsComplete
    <3> QED BY <3>1, <3>2, <3>3 DEF IInv
  <2> QED BY <2>2, <2>3
<1> QED BY <1>1, <1>2, PTL DEF PagesSpec

\* Paging through the notas (ExplorerNotas.tsx, listNotasFiscais) by cursor shows none twice and misses
\* none that was there at the oldest page, for every set of notas, size of a page, order and filter.
THEOREM WalkWhole == PagesSpec => []WalkSkipsNothing
<1>1. IInv => WalkSkipsNothing
  BY WalkHolds, BrowseAssumption DEF IInv
<1> QED BY <1>1, ScreenInvariance, PTL

-----------------------------------------------------------------------------
(* What the page of a drawing shows.                                         *)

\* The two properties are read off DrawingInv.
LEMMA ClosedIs ==
  ASSUME DrawingInv
  PROVE  DrawingIsClosed
<1>1. \A e \in ExportJson(drawing).edges : {e.source, e.target} \subseteq ExportJson(drawing).nodes
  <2>1. \A e \in ExportJson(drawing).edges : \E f \in DOMAIN drawing.edges : e.source = f[1] /\ e.target = f[2]
    BY DEF ExportJson
  <2>2. ExportJson(drawing).nodes = DOMAIN drawing.nodes
    BY DEF ExportJson
  <2> QED BY <2>1, <2>2 DEF DrawingInv
<1>2. \A v \in DOMAIN drawing.nodes : v[1] # "empresa" => Vizinhanca(drawing, v) # {v}
  BY DEF DrawingInv, Vizinhanca
<1> QED BY <1>1, <1>2 DEF DrawingIsClosed

\* The rings of a drawing are its kinds, in one order.
LEMMA RingsAre ==
  ASSUME DrawingInv, NEW r, NEW v \in DOMAIN drawing.nodes \ {r}, NEW w \in DOMAIN drawing.nodes \ {r}
  PROVE  (Ring(drawing, r, v) = Ring(drawing, r, w)) <=> (v[1] = w[1])
<1> DEFINE present(i) == \E x \in DOMAIN drawing.nodes \ {r} : x[1] = Kinds[i]
           drawn == {i \in DOMAIN Kinds : present(i)}
           upTo(x) == {i \in drawn : \E j \in i .. Len(Kinds) : Kinds[j] = x[1]}
<1>1. DOMAIN Kinds = 1 .. 3 /\ Len(Kinds) = 3 /\ Kinds[1] = "empresa" /\ Kinds[2] = "produto" /\ Kinds[3] = "notafiscal"
  BY DEF Kinds
<1>2. Ring(drawing, r, v) = Cardinality(upTo(v)) /\ Ring(drawing, r, w) = Cardinality(upTo(w))
  BY DEF Ring
<1>3. ASSUME NEW x \in DOMAIN drawing.nodes \ {r}
      PROVE  \E i \in drawn : x[1] = Kinds[i] /\ upTo(x) = drawn \cap (1 .. i)
  <2>1. PICK i \in 1 .. 3 : x[1] = Kinds[i]
    BY <1>1 DEF DrawingInv
  <2>2. i \in drawn
    BY <1>1, <2>1
  <2>3. \A j \in 1 .. 3 : Kinds[j] = x[1] => j = i
    BY <1>1, <2>1
  <2>4. drawn \subseteq 1 .. 3
    BY <1>1
  <2> HIDE DEF drawn
  <2>5. \A k \in drawn : (\E j \in k .. 3 : Kinds[j] = x[1]) <=> k \in 1 .. i
    BY <2>1, <2>3, <2>4
  <2> QED BY <1>1, <2>1, <2>2, <2>5
<1>4. drawn \subseteq 1 .. 3
  BY <1>1
<1> HIDE DEF drawn, upTo
<1>5. PICK i \in drawn : v[1] = Kinds[i] /\ upTo(v) = drawn \cap (1 .. i)
  BY <1>3
<1>6. PICK j \in drawn : w[1] = Kinds[j] /\ upTo(w) = drawn \cap (1 .. j)
  BY <1>3
<1>7. ASSUME NEW a \in drawn, NEW b \in drawn, a < b
      PROVE  Cardinality(drawn \cap (1 .. a)) # Cardinality(drawn \cap (1 .. b))
  <2> DEFINE A == drawn \cap (1 .. a)
             B == drawn \cap (1 .. b)
  <2>1. A \subseteq B /\ b \in B /\ b \notin A
    BY <1>4, <1>7
  <2>2. IsFiniteSet(B)
    <3>1. B \in SUBSET (1 .. 3)
      BY <1>4
    <3>2. \A m \in Int : IsFiniteSet(1 .. m)
      BY FS_Interval
    <3> QED BY <3>1, <3>2, FS_Subset
  <2> HIDE DEF A, B
  <2>3. A \in SUBSET B /\ A # B
    BY <2>1
  <2>4. Cardinality(A) < Cardinality(B)
    BY <2>2, <2>3, FS_Subset, FS_CardinalityType
  <2>5. Cardinality(A) \in Nat /\ Cardinality(B) \in Nat
    BY <2>2, <2>3, FS_Subset, FS_CardinalityType
  <2> QED BY <2>4, <2>5 DEF A, B
<1>8. i = j <=> v[1] = w[1]
  BY <1>1, <1>4, <1>5, <1>6
<1>9. i \in Int /\ j \in Int
  BY <1>4
<1>10. Cardinality(upTo(v)) = Cardinality(upTo(w)) <=> i = j
  BY <1>5, <1>6, <1>7, <1>9
<1> QED BY <1>2, <1>8, <1>10

\* While no loads cross, all that is joined to the one root is around it.
LEMMA RootIs ==
  ASSUME DrawingInv
  PROVE  RootIsTheCompany
<1> SUFFICES ASSUME ~crossed PROVE RootIsTheCompany
  BY DEF RootIsTheCompany
<1>1. Roots(drawing) = IF root = "" THEN {} ELSE {Empresa(root)}
  BY DEF DrawingInv
<1>2. ASSUME NEW r \in Roots(drawing), IsEgo(drawing, r)
      PROVE  Vizinhanca(drawing, r) = DOMAIN drawing.nodes
  BY <1>2 DEF IsEgo, Vizinhanca, Roots
<1>3. \A r \in Roots(drawing) : \A v, w \in DOMAIN drawing.nodes \ {r} :
          (Ring(drawing, r, v) = Ring(drawing, r, w)) <=> (v[1] = w[1])
  BY RingsAre
<1> QED BY <1>1, <1>2, <1>3 DEF RootIsTheCompany

\* mergeGraph leaves no edge without its ends and no product or nota by itself; a company that was
\* expanded is drawn with all it trades with, for every graph, depth and order in which loads read
\* and arrive, unless that is more than the LIMIT of getCompanyGraph; and unless loads cross the
\* drawing is a star around the one company it was loaded for.
THEOREM DrawingWhole == PagesSpec => []DrawingIsWhole
<1>1. IInv => DrawingIsWhole
  BY ClosedIs, RootIs DEF IInv, DrawingIsWhole
<1> QED BY <1>1, ScreenInvariance, PTL

-----------------------------------------------------------------------------
(* The ranking.                                                              *)

\* Sorting a table's rows rearranges them.
LEMMA SortIs ==
  ASSUME NEW t, NEW R, NEW rows \in Seq(R)
  PROVE  /\ SortRows(t, rows) \in Seq(R) /\ Len(SortRows(t, rows)) = Len(rows)
         /\ ToSet(SortRows(t, rows)) = ToSet(rows)
<1> DEFINE D == DOMAIN rows
           comes(i, j) == LET a == rows[i][t.key]  b == rows[j][t.key] IN
                          \/ IF t.direction = "asc" THEN a < b ELSE a > b
                          \/ a = b /\ i < j
           B == {p \in D \X D : comes(p[1], p[2])}
           order == Ordered(D, B)
           s == SortRows(t, rows)
<1>1. D = 1 .. Len(rows) /\ Len(rows) \in Nat /\ IsFiniteSet(D) /\ Cardinality(D) = Len(rows)
  <2>1. D = 1 .. Len(rows) /\ Len(rows) \in Nat
    OBVIOUS
  <2>2. Cardinality(1 .. Len(rows)) = IF 1 > Len(rows) THEN 0 ELSE Len(rows) - 1 + 1
    BY <2>1, FS_Interval
  <2>3. IsFiniteSet(1 .. Len(rows))
    BY <2>1, FS_Interval
  <2> QED BY <2>1, <2>2, <2>3
<1>2. s = [i \in DOMAIN order |-> rows[order[i]]]
  BY DEF SortRows
<1> HIDE DEF B, s
<1>3. Lines(order, D)
  BY <1>1, OrderedIs
<1>4. Len(order) = Len(rows)
  BY <1>1, <1>3, LinesCount
<1> HIDE DEF order, D
<1>5. DOMAIN order = D /\ (\A i \in D : order[i] \in D) /\ \A k \in D : \E i \in D : order[i] = k
  <2>1. order \in Seq(D) /\ DOMAIN order = 1 .. Len(order) /\ \A k \in D : \E i \in DOMAIN order : order[i] = k
    BY <1>3 DEF Lines
  <2>2. DOMAIN order = D
    BY <1>1, <1>4, <2>1
  <2>3. \A i \in DOMAIN order : order[i] \in D
    BY <2>1
  <2> QED BY <2>1, <2>2, <2>3
<1>6. DOMAIN s = D /\ \A i \in D : s[i] = rows[order[i]]
  BY <1>2, <1>5
<1>7. s \in Seq(R) /\ Len(s) = Len(rows)
  BY <1>1, <1>2, <1>5
<1>8. ToSet(s) = ToSet(rows)
  <2>1. DOMAIN rows = D
    BY DEF D
  <2> QED BY <1>5, <1>6, <2>1 DEF ToSet
<1> QED BY <1>7, <1>8 DEF s

\* As many pages as the rows fill.
LEMMA PagesFill ==
  ASSUME NEW t \in Tables, NEW n \in Nat \ {0}
  PROVE  /\ LastPage(t, n) \in Nat
         /\ LastPage(t, n) * t.size < n /\ n <= (LastPage(t, n) + 1) * t.size
<1> DEFINE z == t.size
           q == (n + z - 1) \div z
<1>1. z \in Nat \ {0}
  BY DEF Tables
<1>2. LastPage(t, n) = Max({0, q - 1})
  BY DEF LastPage
<1> HIDE DEF z
<1>3. q \in Int /\ q * z <= n + z - 1 /\ n + z - 1 < (q + 1) * z
  BY <1>1
<1>4. q >= 1
  BY <1>1
<1> HIDE DEF q
<1>5. LastPage(t, n) = q - 1
  BY <1>2, <1>3, <1>4, MaxOfTwo
<1>6. (q - 1) * z = q * z - z /\ (q + 1) * z = q * z + z /\ q * z \in Int
  BY <1>1, <1>3
<1>7. q - 1 \in Nat /\ (q - 1) * z < n /\ n <= q * z
  BY <1>1, <1>3, <1>4, <1>6
<1>8. q - 1 + 1 = q
  BY <1>3
<1> QED BY <1>5, <1>7, <1>8 DEF z

\* The pages of a table are consecutive stretches of its sorted rows, none of them empty.
LEMMA TableIs ==
  ASSUME NEW t \in Tables, NEW R, NEW rows \in Seq(R), rows # << >>
  PROVE  TableShowsAll(t, rows, Len(rows))
<1> DEFINE n == Len(rows)
           z == t.size
           last == LastPage(t, n)
           p == SafePage(t, n)
<1>1. n \in Nat \ {0} /\ z \in Nat \ {0} /\ t.page \in Nat
  BY DEF Tables
<1>2. last \in Nat /\ last * z < n /\ n <= (last + 1) * z
  BY <1>1, PagesFill
<1>3. p = IF t.page <= last THEN t.page ELSE last
  BY <1>1, <1>2, MinOfTwo DEF SafePage
<1>4. p \in Nat /\ p <= last
  BY <1>1, <1>2, <1>3
<1>5. From(t, n) = p * z + 1 /\ To(t, n) = Min({(p + 1) * z, n})
  BY <1>1 DEF From, To
<1>6. PageRows(t, rows) = SubSeq(SortRows(t, rows), p * z + 1, Min({p * z + z, n}))
  BY DEF PageRows
<1>7. OnNext(t) \in Tables /\ OnNext(t).page = t.page + 1 /\ OnNext(t).size = z
  BY <1>1 DEF Tables, OnNext
<1>8. HasNext(t, n) <=> p < last
  BY DEF HasNext
<1>9. LastPage(OnNext(t), n) = last
  BY <1>7 DEF LastPage
<1>10. From(OnNext(t), n) = SafePage(OnNext(t), n) * z + 1 /\ SafePage(OnNext(t), n) = Min({t.page + 1, last})
  BY <1>1, <1>7, <1>9 DEF From, SafePage
<1> HIDE DEF n, z, last, p
<1>11. (p + 1) * z = p * z + z /\ p * z \in Nat
  BY <1>1, <1>4
<1>12. p * z <= last * z /\ (p < last => p * z + z <= last * z)
  <2>1. PICK m \in Nat : last = p + m
    <3>1. last - p \in Nat /\ last = p + (last - p)
      BY <1>2, <1>4
    <3> QED BY <3>1
  <2>2. last * z = p * z + m * z /\ m * z \in Nat
    BY <1>1, <1>4, <2>1
  <2>3. ASSUME p < last PROVE z <= m * z
    <3>1. m - 1 \in Nat /\ m = (m - 1) + 1
      BY <1>2, <1>4, <2>1, <2>3
    <3>2. m * z = (m - 1) * z + z /\ (m - 1) * z \in Nat
      BY <1>1, <3>1
    <3> QED BY <1>1, <3>2
  <2> QED BY <1>1, <1>11, <2>2, <2>3
<1>13. last * z \in Nat
  BY <1>1, <1>2
<1> DEFINE a == p * z
           b == last * z
<1>14. a \in Nat /\ b \in Nat /\ a <= b /\ b < n /\ (p < last => a + z <= b)
  BY <1>2, <1>11, <1>12, <1>13
<1>15. From(t, n) = a + 1 /\ To(t, n) = Min({a + z, n})
  BY <1>5, <1>11
<1> HIDE DEF a, b
<1>16. To(t, n) = IF a + z <= n THEN a + z ELSE n
  BY <1>1, <1>14, <1>15, MinOfTwo
<1>17. From(t, n) \in 1 .. To(t, n) /\ To(t, n) <= n
  BY <1>1, <1>14, <1>15, <1>16
<1>18. PageRows(t, rows) = SubSeq(SortRows(t, rows), From(t, n), To(t, n))
  BY <1>6, <1>15 DEF a
<1>19. ASSUME HasNext(t, n) PROVE To(t, n) < n /\ From(OnNext(t), n) = To(t, n) + 1
  <2>1. p < last /\ p = t.page /\ t.page + 1 <= last
    BY <1>1, <1>2, <1>3, <1>4, <1>8, <1>19
  <2>2. SafePage(OnNext(t), n) = p + 1
    BY <1>1, <1>2, <1>10, <2>1, MinOfTwo
  <2>3. From(OnNext(t), n) = a + z + 1
    BY <1>10, <1>11, <2>2 DEF a
  <2>4. To(t, n) = a + z /\ a + z < n
    BY <1>1, <1>14, <1>16, <2>1
  <2> QED BY <2>3, <2>4
<1>20. Len(SortRows(t, rows)) = n /\ ToSet(SortRows(t, rows)) = ToSet(rows)
  BY SortIs DEF n
<1> QED
  BY <1>17, <1>18, <1>19, <1>20 DEF TableShowsAll, n

\* The ranking a graph gives has fifty lines at most, each once.
LEMMA RankingIs ==
  ASSUME NEW g
  PROVE  \E L : Ranking(g) \in Seq(L)
<1> DEFINE q == [metrica |-> "valor", limit |-> 50]
           edges == RoleEdges(g, Given(q, "tipo", "emitente"))
           notas(c) == {e[2] : e \in {e \in edges : e[1] = c}}
           line(c) == [cnpj |-> c, totalNFs |-> Cardinality(notas(c)),
                       valorTotal |-> ValorDas(g, notas(c))]
           all == {line(e[1]) : e \in edges}
           lines == GetTopEmpresas(g, q).body
           metrica == Given(q, "metrica", "valor")
           limit == Given(q, "limit", 10)
           by == {p \in all \X all : (IF metrica = "quantidade" THEN p[1].totalNFs ELSE p[1].valorTotal)
                                     > (IF metrica = "quantidade" THEN p[2].totalNFs ELSE p[2].valorTotal)}
           ranked == Ordered(all, by)
<1>1. /\ limit = 50
      /\ OneOf(q, "tipo", Roles) /\ OneOf(q, "metrica", {"valor", "quantidade"}) /\ Bounded(q, "limit", 50)
  BY DEF Given, OneOf, Bounded
<1>2. lines = {x \in all : \E i \in (DOMAIN ranked) \cap (1 .. 50) : ranked[i] = x}
  <2>1. GetTopEmpresas(g, q) = Ok({x \in all : \E i \in (DOMAIN ranked) \cap (1 .. limit) : ranked[i] = x})
    <3> HIDE DEF q
    <3> QED BY <1>1 DEF GetTopEmpresas, Answered, TopBy
  <2> HIDE DEF all, ranked, limit, q
  <2> QED BY <1>1, <2>1 DEF Ok
<1> HIDE DEF lines, all, ranked
<1>3. IsFiniteSet(lines)
  <2> DEFINE D == {i \in (DOMAIN ranked) \cap (1 .. 50) : ranked[i] \in lines}
             f == [i \in D |-> ranked[i]]
  <2>1. D \in SUBSET (1 .. 50)
    OBVIOUS
  <2>2. IsFiniteSet(D)
    <3>1. PICK m \in Int : m = 50
      OBVIOUS
    <3>2. IsFiniteSet(1 .. m)
      BY FS_Interval
    <3> HIDE DEF D
    <3>3. D \in SUBSET (1 .. m)
      BY <2>1, <3>1
    <3> QED BY <3>2, <3>3, FS_Subset
  <2>3. f \in Surjection(D, lines)
    <3>1. f \in [D -> lines]
      OBVIOUS
    <3>2. \A x \in lines : \E i \in D : f[i] = x
      BY <1>2
    <3> QED BY <3>1, <3>2 DEF Surjection
  <2> HIDE DEF D, f
  <2> QED BY <2>2, <2>3, FS_Surjection
<1>4. Ranking(g) = Ordered(lines, {p \in lines \X lines : p[1].valorTotal > p[2].valorTotal})
  BY DEF Ranking, lines
<1>5. Lines(Ranking(g), lines)
  BY <1>3, <1>4, OrderedIs
<1> QED BY <1>5 DEF Lines

\* Searching keeps some of the rows.
LEMMA MatchingIs ==
  ASSUME NEW g, NEW L, NEW rows \in Seq(L), NEW busca
  PROVE  Matching(g, rows, busca) \in Seq(L)
<1> DEFINE S == {i \in DOMAIN rows : busca = "" \/ busca \in {rows[i].cnpj, g.emp[rows[i].cnpj].razaoSocial}}
           kept == Ascending(S)
<1>1. S \subseteq DOMAIN rows
  OBVIOUS
<1>2. Matching(g, rows, busca) = [i \in DOMAIN kept |-> rows[kept[i]]]
  BY DEF Matching
<1> HIDE DEF S
<1>3. IsFiniteSet(S)
  <2>1. S \in SUBSET (1 .. Len(rows)) /\ Len(rows) \in Nat
    BY <1>1
  <2>2. IsFiniteSet(1 .. Len(rows))
    BY <2>1, FS_Interval
  <2> QED BY <2>1, <2>2, FS_Subset
<1>4. Lines(kept, S)
  BY <1>3, OrderedIs DEF Ascending
<1> HIDE DEF kept
<1>5. Len(kept) \in Nat /\ DOMAIN kept = 1 .. Len(kept) /\ \A i \in 1 .. Len(kept) : rows[kept[i]] \in L
  BY <1>1, <1>4 DEF Lines
<1> QED BY <1>2, <1>5

\* useClientTable never shows an empty page of a search that has matches, and its pages hold every
\* match once, for every graph, size of a page, search and way the table was turned.
THEOREM RankingWhole == PagesSpec => []RankingShowsEveryMatch
<1>1. IInv => RankingShowsEveryMatch
  <2> SUFFICES ASSUME IInv, RankingLoaded, Rows # << >>
               PROVE  TableShowsAll(ranking.table, Rows, Len(Rows))
    BY DEF RankingShowsEveryMatch
  <2>1. ranking.table \in Tables
    BY DEF IInv, TableInv, Tables
  <2>2. PICK L : Ranking(SeenGraph) \in Seq(L)
    BY RankingIs
  <2>3. Rows \in Seq(L)
    BY <2>2, MatchingIs DEF Rows
  <2> QED BY <2>1, <2>3, TableIs
<1> QED BY <1>1, ScreenInvariance, PTL
=============================================================================
