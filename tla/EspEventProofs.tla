--------------------------- MODULE EspEventProofs ---------------------------
(***************************************************************************)
(* Proofs about the event loop of components/esp_event/esp_event.c: what   *)
(* the lists of handlers hold, in which order an event's handlers are      *)
(* executed, and what becomes of one that is unregistered while they are.  *)
(*                                                                         *)
(* The theorems are about loops whose handlers are registered and          *)
(* unregistered as instances (Apis = {FALSE}).  With the legacy functions, *)
(* which name a handler by its function, several of them do not hold.      *)
(***************************************************************************)
EXTENDS EspEvent, TLAPS, WellFoundedInduction

-----------------------------------------------------------------------------
(***************************************************************************)
(* Sequences.                                                              *)
(***************************************************************************)
\* A nonempty set of natural numbers has a least element.
LEMMA LeastNat ==
    ASSUME NEW S \in SUBSET Nat, S # {}
    PROVE  \E n \in S : \A k \in S : n <= k
<1> DEFINE R == OpToRel(<, Nat)
<1>1. PICK n \in S : \A y \in S : ~ (<<y, n>> \in R)
  <2>1. IsWellFoundedOn(R, Nat)
    BY NatLessThanWellFounded
  <2> HIDE DEF R
  <2>. QED
    BY <2>1, WFMin
<1>2. \A y \in S : ~ (y < n)
  <2>1. ASSUME NEW y \in S, y < n PROVE <<y, n>> \in R
    BY <2>1 DEF OpToRel
  <2> HIDE DEF R
  <2>. QED
    BY <1>1, <2>1
<1>. QED
  BY <1>2

\* Min of the positions with some property is the first of them.
LEMMA MinIs ==
    ASSUME NEW S \in SUBSET Nat, S # {}
    PROVE  Min(S) \in S /\ \A k \in S : Min(S) <= k
<1>1. \E n \in S : \A k \in S : n <= k
  BY LeastNat
<1>. QED
  BY <1>1 DEF Min

\* Max of the positions in a sequence is the last of them.
LEMMA MaxIs ==
    ASSUME NEW n \in Nat, NEW S \in SUBSET (1 .. n), S # {}
    PROVE  Max(S) \in S /\ \A k \in S : Max(S) >= k
<1> DEFINE T == {n - k : k \in S}
<1>1. T \in SUBSET Nat /\ T # {}
  <2>1. \A k \in S : n - k \in Nat /\ n - k \in T
    OBVIOUS
  <2>2. PICK k \in S : TRUE
    OBVIOUS
  <2>. QED
    BY <2>1, <2>2
<1>2. PICK t \in T : \A u \in T : t <= u
  <2> HIDE DEF T
  <2>. QED
    BY <1>1, LeastNat
<1>3. PICK m \in S : t = n - m
  BY <1>2
<1>4. \A k \in S : n - m <= n - k
  BY <1>2, <1>3
<1>5. \A k \in S : m >= k
  BY <1>3, <1>4
<1>. QED
  BY <1>3, <1>5 DEF Max

\* A sequence without one of its elements.
LEMMA RemoveAtIs ==
    ASSUME NEW S, NEW s \in Seq(S), NEW i \in 1 .. Len(s), NEW s1, s1 = RemoveAt(s, i)
    PROVE  /\ s1 \in Seq(S) /\ Len(s1) = Len(s) - 1
           /\ \A k \in 1 .. Len(s1) : s1[k] = IF k < i THEN s[k] ELSE s[k + 1]
<1>1. PICK n \in Nat : n = Len(s) /\ i \in 1 .. n
  OBVIOUS
<1>2. PICK a, b : a = SubSeq(s, 1, i - 1) /\ b = SubSeq(s, i + 1, n)
  OBVIOUS
<1>3. /\ a \in Seq(S) /\ Len(a) = i - 1
      /\ \A k \in 1 .. i - 1 : a[k] = s[k]
  BY <1>1, <1>2
<1>4. /\ b \in Seq(S) /\ Len(b) = n - i
      /\ \A k \in 1 .. n - i : b[k] = s[k + i]
  BY <1>1, <1>2
<1>5. s1 = a \o b
  BY <1>1, <1>2 DEF RemoveAt
<1>6. /\ s1 \in Seq(S) /\ Len(s1) = (i - 1) + (n - i)
      /\ \A k \in 1 .. (i - 1) + (n - i) : s1[k] = IF k <= i - 1 THEN a[k] ELSE b[k - (i - 1)]
  BY <1>3, <1>4, <1>5
<1>7. ASSUME NEW k \in 1 .. n - 1 PROVE s1[k] = IF k < i THEN s[k] ELSE s[k + 1]
  <2>1. k \in 1 .. (i - 1) + (n - i)
    BY <1>1
  <2>2. CASE k < i
    <3>1. k \in 1 .. i - 1
      BY <1>1, <2>2
    <3>. QED
      BY <1>3, <1>6, <2>1, <2>2, <3>1
  <2>3. CASE ~(k < i)
    <3>1. k - (i - 1) \in 1 .. n - i /\ (k - (i - 1)) + i = k + 1 /\ ~(k <= i - 1)
      BY <1>1, <2>3
    <3>. QED
      BY <1>4, <1>6, <2>1, <2>3, <3>1
  <2>. QED
    BY <2>2, <2>3
<1>8. (i - 1) + (n - i) = n - 1
  BY <1>1
<1>. QED
  BY <1>1, <1>6, <1>7, <1>8

-----------------------------------------------------------------------------
(***************************************************************************)
(* Handlers in the order of their registration, and FlattenSeq.            *)
(***************************************************************************)
HandlerNode == [n : Nat, h : Handlers]

\* Registered first, executed first.
Ascending(hs) == \A i, j \in DOMAIN hs : i < j => hs[i].n < hs[j].n
Before(S, T) == \A x \in S, y \in T : x.n < y.n

HandlerLists == {hs \in Seq(HandlerNode) : Ascending(hs)}

\* One list of handlers behind another.
LEMMA ConcatOrdered ==
    ASSUME NEW a \in HandlerLists, NEW b \in HandlerLists, Before(Range(a), Range(b))
    PROVE  a \o b \in HandlerLists /\ Range(a \o b) = Range(a) \cup Range(b)
<1>1. PICK m \in Nat, n \in Nat : m = Len(a) /\ n = Len(b)
  BY DEF HandlerLists
<1>2. a \in Seq(HandlerNode) /\ b \in Seq(HandlerNode)
  BY DEF HandlerLists
<1>3. PICK c : c = a \o b
  OBVIOUS
<1>4. c \in Seq(HandlerNode) /\ Len(c) = m + n
  BY <1>1, <1>2, <1>3
<1>5. \A k \in 1 .. m + n : c[k] = IF k <= m THEN a[k] ELSE b[k - m]
  BY <1>1, <1>2, <1>3
<1>6. DOMAIN a = 1 .. m /\ DOMAIN b = 1 .. n /\ DOMAIN c = 1 .. m + n
  BY <1>1, <1>2, <1>4
<1>7. Ascending(a) /\ Ascending(b)
  BY DEF HandlerLists
<1>8. \A k \in 1 .. m : a[k] \in Range(a) /\ a[k] = c[k] /\ k \in 1 .. m + n
  BY <1>5, <1>6 DEF Range
<1>9. \A k \in 1 .. n : b[k] \in Range(b) /\ b[k] = c[k + m] /\ k + m \in 1 .. m + n
  <2>1. \A k \in 1 .. n : k + m \in 1 .. m + n /\ ~(k + m <= m) /\ (k + m) - m = k
    OBVIOUS
  <2>. QED
    BY <1>5, <1>6, <2>1 DEF Range
<1>10. \A k \in 1 .. m + n : k \in 1 .. m \/ (k - m \in 1 .. n /\ k = (k - m) + m)
  OBVIOUS
<1>11. Ascending(c)
  <2> SUFFICES ASSUME NEW i \in 1 .. m + n, NEW j \in 1 .. m + n, i < j
               PROVE  c[i].n < c[j].n
    BY <1>6 DEF Ascending
  <2>1. CASE j \in 1 .. m
    <3>1. i \in 1 .. m
      BY <2>1
    <3>. QED
      BY <1>6, <1>7, <1>8, <2>1, <3>1 DEF Ascending
  <2>2. CASE i \in 1 .. m /\ j \notin 1 .. m
    BY <1>8, <1>9, <1>10, <2>2 DEF Before
  <2>3. CASE i \notin 1 .. m /\ j \notin 1 .. m
    <3>1. /\ i - m \in 1 .. n /\ j - m \in 1 .. n /\ i - m < j - m
          /\ (i - m) + m = i /\ (j - m) + m = j
      BY <2>3
    <3>2. b[i - m].n < b[j - m].n
      BY <1>6, <1>7, <3>1 DEF Ascending
    <3>. QED
      BY <1>9, <3>1, <3>2
  <2>. QED
    BY <2>1, <2>2, <2>3
<1>12. Range(c) = Range(a) \cup Range(b)
  <2>1. Range(a) \subseteq Range(c)
    BY <1>6, <1>8 DEF Range
  <2>2. Range(b) \subseteq Range(c)
    BY <1>6, <1>9 DEF Range
  <2>3. ASSUME NEW x \in Range(c) PROVE x \in Range(a) \cup Range(b)
    <3>1. PICK k \in 1 .. m + n : x = c[k]
      BY <1>6 DEF Range
    <3>. QED
      BY <1>8, <1>9, <1>10, <3>1
  <2>. QED
    BY <2>1, <2>2, <2>3
<1>. QED
  BY <1>3, <1>4, <1>11, <1>12 DEF HandlerLists

\* The function that FlattenSeq is defined by.
Flattens(f, n, s) == f = [i \in 1 .. n |-> IF i = 1 THEN s[i] ELSE f[i - 1] \o s[i]]

\* There are flattenings of all prefixes (by a minimal counterexample).
LEMMA FlattenExists ==
    ASSUME NEW s, NEW n \in Nat
    PROVE  \E f : Flattens(f, n, s)
<1> DEFINE S == {j \in Nat : ~ \E f : Flattens(f, j, s)}
<1>1. SUFFICES ASSUME S # {} PROVE FALSE
  OBVIOUS
<1>2. PICK j \in S : \A i \in S : j <= i
  <2>1. S \in SUBSET Nat
    OBVIOUS
  <2> HIDE DEF S
  <2>. QED
    BY <1>1, <2>1, LeastNat
<1>3. CASE j = 0
  <2> DEFINE g == [i \in 1 .. 0 |-> s[i]]
  <2>1. g = [i \in 1 .. 0 |-> IF i = 1 THEN s[i] ELSE g[i - 1] \o s[i]]
    OBVIOUS
  <2> HIDE DEF g
  <2>2. Flattens(g, 0, s)
    BY <2>1 DEF Flattens
  <2>. QED
    BY <2>2, <1>2, <1>3
<1>4. CASE j # 0
  <2>1. j - 1 \in Nat /\ j - 1 \notin S
    BY <1>2, <1>4
  <2>2. PICK f : Flattens(f, j - 1, s)
    BY <2>1
  <2>3. \A k \in 1 .. j - 1 : f[k] = IF k = 1 THEN s[k] ELSE f[k - 1] \o s[k]
    BY <2>2 DEF Flattens
  <2> DEFINE g == [k \in 1 .. j |-> IF k < j THEN f[k]
                                    ELSE IF j = 1 THEN s[j] ELSE f[j - 1] \o s[j]]
  <2>4. ASSUME NEW k \in 1 .. j PROVE g[k] = IF k = 1 THEN s[k] ELSE g[k - 1] \o s[k]
    <3>1. CASE k < j
      <4>1. g[k] = f[k] /\ k \in 1 .. j - 1
        BY <3>1, <1>2
      <4>2. k # 1 => g[k - 1] = f[k - 1]
        BY <3>1, <1>2
      <4>. QED
        BY <2>3, <4>1, <4>2
    <3>2. CASE k = j
      <4>1. g[k] = IF j = 1 THEN s[j] ELSE f[j - 1] \o s[j]
        BY <3>2, <1>2
      <4>2. j # 1 => g[k - 1] = f[j - 1]
        BY <3>2, <1>2
      <4> HIDE DEF g
      <4>. QED
        BY <3>2, <4>1, <4>2
    <3>. QED
      BY <3>1, <3>2, <1>2
  <2>5. g = [k \in 1 .. j |-> g[k]]
    OBVIOUS
  <2> HIDE DEF g
  <2>6. Flattens(g, j, s)
    BY <2>4, <2>5 DEF Flattens
  <2>. QED
    BY <2>6, <1>2
<1>. QED
  BY <1>3, <1>4

\* All that is in the first n lists.
InFirst(s, n) == UNION {Range(s[j]) : j \in 1 .. n}

\* FlattenSeq keeps the order of lists each of which comes before the next.
LEMMA FlattenOrdered ==
    ASSUME NEW s \in Seq(HandlerLists),
           \A i, j \in 1 .. Len(s) : i < j => Before(Range(s[i]), Range(s[j]))
    PROVE  FlattenSeq(s) \in HandlerLists /\ Range(FlattenSeq(s)) = InFirst(s, Len(s))
<1>1. PICK n \in Nat : n = Len(s) /\ DOMAIN s = 1 .. n
  OBVIOUS
<1>2. CASE n = 0
  <2>1. FlattenSeq(s) = s /\ s = << >>
    BY <1>1, <1>2 DEF FlattenSeq
  <2>2. << >> \in HandlerLists /\ Range(<< >>) = {}
    BY DEF HandlerLists, Ascending, Range
  <2>3. InFirst(s, n) = {}
    BY <1>2 DEF InFirst
  <2>. QED
    BY <1>1, <2>1, <2>2, <2>3
<1>3. CASE n # 0
  <2>1. PICK f : f = CHOOSE g : Flattens(g, n, s)
    OBVIOUS
  <2>2. FlattenSeq(s) = f[n]
    BY <1>1, <1>3, <2>1 DEF FlattenSeq, Flattens
  <2>3. Flattens(f, n, s)
    BY <2>1, FlattenExists
  <2>4. \A k \in 1 .. n : f[k] = IF k = 1 THEN s[k] ELSE f[k - 1] \o s[k]
    BY <2>3 DEF Flattens
  <2>5. \A k \in 1 .. n : s[k] \in HandlerLists
    BY <1>1
  <2> DEFINE Good(k) == f[k] \in HandlerLists /\ Range(f[k]) = InFirst(s, k)
             S == {k \in 1 .. n : ~Good(k)}
  <2>6. S = {}
    <3>1. SUFFICES ASSUME S # {} PROVE FALSE
      OBVIOUS
    <3>2. PICK k \in S : \A i \in S : k <= i
      <4>1. S \in SUBSET Nat
        OBVIOUS
      <4> HIDE DEF S
      <4>. QED
        BY <3>1, <4>1, LeastNat
    <3>3. k \in 1 .. n /\ ~Good(k)
      BY <3>2
    <3>4. CASE k = 1
      <4>1. f[k] = s[1] /\ s[1] \in HandlerLists
        BY <2>4, <2>5, <3>3, <3>4
      <4>2. InFirst(s, 1) = Range(s[1])
        BY DEF InFirst
      <4>. QED
        BY <3>3, <3>4, <4>1, <4>2
    <3>5. CASE k # 1
      <4>1. k - 1 \in 1 .. n /\ k - 1 \notin S
        BY <3>2, <3>5
      <4>2. Good(k - 1)
        BY <4>1
      <4>3. PICK a, b : a = f[k - 1] /\ b = s[k] /\ f[k] = a \o b
        <5>1. f[k] = f[k - 1] \o s[k]
          BY ONLY <2>4, <3>3, <3>5
        <5>. QED
          BY ONLY <5>1
      <4>4. a \in HandlerLists /\ b \in HandlerLists /\ Range(a) = InFirst(s, k - 1)
        BY <2>5, <3>3, <4>2, <4>3
      <4>5. Before(Range(a), Range(b))
        <5>1. ASSUME NEW x \in Range(a), NEW y \in Range(b) PROVE x.n < y.n
          <6>1. PICK j \in 1 .. k - 1 : x \in Range(s[j])
            BY <4>4 DEF InFirst
          <6>2. j \in 1 .. Len(s) /\ k \in 1 .. Len(s) /\ j < k
            BY <1>1, <3>3
          <6>. QED
            BY <4>3, <6>1, <6>2 DEF Before
        <5>. QED
          BY <5>1 DEF Before
      <4>6. f[k] \in HandlerLists /\ Range(f[k]) = Range(a) \cup Range(b)
        BY <4>3, <4>4, <4>5, ConcatOrdered
      <4>7. InFirst(s, k) = InFirst(s, k - 1) \cup Range(s[k])
        <5>1. \A j : j \in 1 .. k <=> j \in 1 .. k - 1 \/ j = k
          BY <3>3
        <5>. QED
          BY <5>1 DEF InFirst
      <4>. QED
        BY <3>3, <4>3, <4>4, <4>6, <4>7
    <3>. QED
      BY <3>4, <3>5
  <2>7. n \in 1 .. n
    BY <1>3
  <2>. QED
    BY <1>1, <2>2, <2>6, <2>7
<1>. QED
  BY <1>2, <1>3

-----------------------------------------------------------------------------
(***************************************************************************)
(* The lists of lists.  OfX is what is in a part of them; AtX(p, y, key)   *)
(* says that y is there as a handler for the key.                          *)
(***************************************************************************)
Bases == {key.base : key \in Keys}
Ids == {key.id : key \in Keys}

IdNode == [id : Ids, handlers : HandlerLists]
OfIds(ids) == UNION {Range(ids[k].handlers) : k \in DOMAIN ids}
AtIds(ids, y, id) == \E k \in DOMAIN ids : ids[k].id = id /\ y \in Range(ids[k].handlers)

\* There is one node for an id.
IdLists == {ids \in Seq(IdNode) :
              /\ \A k \in DOMAIN ids : ids[k].id # ANY
              /\ \A j, k \in DOMAIN ids : ids[j].id = ids[k].id => j = k}

BaseNode == [base : Bases, handlers : HandlerLists, ids : IdLists]
OfBase(b) == Range(b.handlers) \cup OfIds(b.ids)
AtBase(b, y, key) ==
    /\ b.base = key.base
    /\ IF key.id = ANY THEN y \in Range(b.handlers) ELSE AtIds(b.ids, y, key.id)

\* The handlers for all events of the base come first.
BaseOk(b) == /\ b \in BaseNode /\ b.base # ANY
             /\ Before(Range(b.handlers), OfIds(b.ids))

\* Of two nodes of one base, the first comes first.
BaseLists == {bs \in Seq(BaseNode) :
                /\ \A j \in DOMAIN bs : BaseOk(bs[j])
                /\ \A i, j \in DOMAIN bs : i < j /\ bs[i].base = bs[j].base =>
                       Before(OfBase(bs[i]), OfBase(bs[j]))}

LoopNode == [handlers : HandlerLists, bases : BaseLists]
OfBases(bs) == UNION {OfBase(bs[j]) : j \in DOMAIN bs}
OfNode(l) == Range(l.handlers) \cup OfBases(l.bases)
AtNode(l, y, key) ==
    IF LoopLevel(key) THEN y \in Range(l.handlers)
    ELSE \E j \in DOMAIN l.bases : AtBase(l.bases[j], y, key)

NodeOk(l) == l \in LoopNode /\ Before(Range(l.handlers), OfBases(l.bases))

NodeLists == {ns \in Seq(LoopNode) :
                /\ \A i \in DOMAIN ns : NodeOk(ns[i])
                /\ \A i, j \in DOMAIN ns : i < j => Before(OfNode(ns[i]), OfNode(ns[j]))}

OfNodes(ns) == UNION {OfNode(ns[i]) : i \in DOMAIN ns}
At(ns, y, key) == \E i \in DOMAIN ns : AtNode(ns[i], y, key)

-----------------------------------------------------------------------------
(***************************************************************************)
(* Dispatch.                                                               *)
(***************************************************************************)
\* The handlers of a base node for an event.
LEMMA BasePlanIs ==
    ASSUME NEW b, BaseOk(b), NEW e, e.base # ANY, e.id # ANY, NEW p, p = BasePlan(b, e)
    PROVE  /\ p \in HandlerLists /\ Range(p) \subseteq OfBase(b)
           /\ b.base # e.base => Range(p) = {}
           /\ b.base = e.base => \A y : y \in Range(p) <=>
                 y \in Range(b.handlers) \/ AtIds(b.ids, y, e.id)
<1>1. PICK hs, ids : hs = b.handlers /\ ids = b.ids
  OBVIOUS
<1>2. hs \in HandlerLists /\ ids \in IdLists /\ ids \in Seq(IdNode)
      /\ Before(Range(hs), OfIds(ids))
  BY <1>1 DEF BaseOk, BaseNode, IdLists
<1>3. PICK n \in Nat : n = Len(ids) /\ DOMAIN ids = 1 .. n
  BY <1>2
<1>4. PICK I : I = {i \in 1 .. n : ids[i].id = e.id}
  OBVIOUS
<1>5. PICK k : k = IF I # {} THEN Min(I) ELSE 0
  OBVIOUS
<1>6. p = IF b.base # e.base THEN << >>
          ELSE hs \o IF k = 0 THEN << >> ELSE ids[k].handlers
  BY <1>1, <1>3, <1>4, <1>5 DEF BasePlan, SelectInSeq
<1>7. << >> \in HandlerLists /\ Range(<< >>) = {}
  BY DEF HandlerLists, Ascending, Range
<1>8. PICK t : t = IF k = 0 THEN << >> ELSE ids[k].handlers
  OBVIOUS
<1>9. t \in HandlerLists /\ Range(t) \subseteq OfIds(ids)
      /\ \A y : y \in Range(t) <=> AtIds(ids, y, e.id)
  <2>1. CASE I = {}
    <3>1. t = << >>
      BY <1>5, <1>8, <2>1
    <3>2. \A i \in DOMAIN ids : ids[i].id # e.id
      BY <1>3, <1>4, <2>1
    <3>. QED
      BY <1>7, <3>1, <3>2 DEF AtIds
  <2>2. CASE I # {}
    <3>1. I \in SUBSET Nat
      BY <1>4
    <3>2. k \in I
      BY <1>5, <2>2, <3>1, MinIs
    <3>3. k \in DOMAIN ids /\ ids[k].id = e.id /\ k # 0
      BY <1>3, <1>4, <3>2
    <3>4. t = ids[k].handlers /\ t \in HandlerLists
      <4>1. t = ids[k].handlers
        BY <1>8, <3>3
      <4>2. ids[k] \in IdNode
        BY <1>2, <3>3
      <4>. QED
        BY <4>1, <4>2 DEF IdNode
    <3>5. \A j \in DOMAIN ids : ids[j].id = e.id => j = k
      BY <1>2, <3>3 DEF IdLists
    <3>. QED
      BY <3>3, <3>4, <3>5 DEF AtIds, OfIds
  <2>. QED
    BY <2>1, <2>2
<1>10. Before(Range(hs), Range(t))
  BY <1>2, <1>9 DEF Before
<1>11. hs \o t \in HandlerLists /\ Range(hs \o t) = Range(hs) \cup Range(t)
  BY <1>2, <1>9, <1>10, ConcatOrdered
<1>12. p = IF b.base # e.base THEN << >> ELSE hs \o t
  BY <1>6, <1>8
<1>13. CASE b.base # e.base
  BY <1>7, <1>12, <1>13
<1>14. CASE b.base = e.base
  <2>1. p = hs \o t
    BY <1>12, <1>14
  <2>. QED
    BY <1>1, <1>9, <1>11, <1>14, <2>1 DEF OfBase
<1>. QED
  BY <1>13, <1>14

\* The handlers of a loop node.
LEMMA NodePlanIs ==
    ASSUME NEW l, NodeOk(l), NEW e, e.base # ANY, e.id # ANY, NEW p, p = NodePlan(l, e)
    PROVE  /\ p \in HandlerLists /\ Range(p) \subseteq OfNode(l)
           /\ \A y : y \in Range(p) <=>
                 \/ y \in Range(l.handlers)
                 \/ \E j \in DOMAIN l.bases :
                      /\ l.bases[j].base = e.base
                      /\ \/ y \in Range(l.bases[j].handlers)
                         \/ AtIds(l.bases[j].ids, y, e.id)
<1>1. PICK hs, bs : hs = l.handlers /\ bs = l.bases
  OBVIOUS
<1>2. hs \in HandlerLists /\ bs \in BaseLists /\ Before(Range(hs), OfBases(bs))
  BY <1>1 DEF NodeOk, LoopNode
<1>3. PICK n \in Nat : n = Len(bs) /\ DOMAIN bs = 1 .. n
  BY <1>2 DEF BaseLists
<1>4. PICK s : s = [j \in 1 .. n |-> BasePlan(bs[j], e)]
  OBVIOUS
<1>5. \A j \in 1 .. n : BaseOk(bs[j])
  BY <1>2, <1>3 DEF BaseLists
<1>6. \A j \in 1 .. n :
        /\ s[j] \in HandlerLists /\ Range(s[j]) \subseteq OfBase(bs[j])
        /\ bs[j].base # e.base => Range(s[j]) = {}
        /\ bs[j].base = e.base => \A y : y \in Range(s[j]) <=>
              y \in Range(bs[j].handlers) \/ AtIds(bs[j].ids, y, e.id)
  BY <1>4, <1>5, BasePlanIs
<1>7. s \in Seq(HandlerLists) /\ Len(s) = n
  BY <1>4, <1>6
<1>8. ASSUME NEW i \in 1 .. n, NEW j \in 1 .. n, i < j
      PROVE  Before(Range(s[i]), Range(s[j]))
  <2>1. CASE bs[i].base = e.base /\ bs[j].base = e.base
    <3>1. Before(OfBase(bs[i]), OfBase(bs[j]))
      BY <1>2, <1>3, <1>8, <2>1 DEF BaseLists
    <3>2. Range(s[i]) \subseteq OfBase(bs[i]) /\ Range(s[j]) \subseteq OfBase(bs[j])
      BY <1>6
    <3>. QED
      BY <3>1, <3>2 DEF Before
  <2>2. CASE ~(bs[i].base = e.base /\ bs[j].base = e.base)
    <3>1. Range(s[i]) = {} \/ Range(s[j]) = {}
      BY <1>6, <2>2
    <3>. QED
      BY <3>1 DEF Before
  <2>. QED
    BY <2>1, <2>2
<1>9. PICK t : t = FlattenSeq(s)
  OBVIOUS
<1>10. t \in HandlerLists /\ Range(t) = InFirst(s, n)
  BY <1>7, <1>8, <1>9, FlattenOrdered
<1>11. Range(t) \subseteq OfBases(bs)
  <2>1. ASSUME NEW y \in Range(t) PROVE y \in OfBases(bs)
    <3>1. PICK j \in 1 .. n : y \in Range(s[j])
      BY <1>10 DEF InFirst
    <3>2. y \in OfBase(bs[j])
      BY <1>6, <3>1
    <3>. QED
      BY <1>3, <3>2 DEF OfBases
  <2>. QED
    BY <2>1
<1>12. Before(Range(hs), Range(t))
  BY <1>2, <1>11 DEF Before
<1>13. p = hs \o t
  BY <1>1, <1>3, <1>4, <1>9 DEF NodePlan
<1>14. p \in HandlerLists /\ Range(p) = Range(hs) \cup Range(t)
  BY <1>2, <1>10, <1>12, <1>13, ConcatOrdered
<1>15. ASSUME NEW y
       PROVE  y \in Range(t) <=>
                 \E j \in 1 .. n : /\ bs[j].base = e.base
                                   /\ \/ y \in Range(bs[j].handlers)
                                      \/ AtIds(bs[j].ids, y, e.id)
  <2>1. y \in Range(t) <=> \E j \in 1 .. n : y \in Range(s[j])
    BY <1>10 DEF InFirst
  <2>. QED
    BY <1>6, <2>1
<1>. QED
  BY <1>1, <1>3, <1>11, <1>14, <1>15 DEF OfNode

\* What esp_event_loop_run executes for an event: the handlers that match it, in
\* the order in which they were registered.
LEMMA PlanIs ==
    ASSUME NEW ns \in NodeLists, NEW e, e.base # ANY, e.id # ANY, NEW p, p = Plan(ns, e)
    PROVE  /\ p \in HandlerLists
           /\ \A y : y \in Range(p) <=>
                \E i \in DOMAIN ns :
                   \/ y \in Range(ns[i].handlers)
                   \/ \E j \in DOMAIN ns[i].bases :
                        /\ ns[i].bases[j].base = e.base
                        /\ \/ y \in Range(ns[i].bases[j].handlers)
                           \/ AtIds(ns[i].bases[j].ids, y, e.id)
<1>1. PICK n \in Nat : n = Len(ns) /\ DOMAIN ns = 1 .. n
  BY DEF NodeLists
<1>2. PICK s : s = [i \in 1 .. n |-> NodePlan(ns[i], e)]
  OBVIOUS
<1>3. \A i \in 1 .. n : NodeOk(ns[i])
  BY <1>1 DEF NodeLists
<1>4. ASSUME NEW i \in 1 .. n
      PROVE  /\ s[i] \in HandlerLists /\ Range(s[i]) \subseteq OfNode(ns[i])
             /\ \A y : y \in Range(s[i]) <=>
                  \/ y \in Range(ns[i].handlers)
                  \/ \E j \in DOMAIN ns[i].bases :
                       /\ ns[i].bases[j].base = e.base
                       /\ \/ y \in Range(ns[i].bases[j].handlers)
                          \/ AtIds(ns[i].bases[j].ids, y, e.id)
  <2>1. PICK l, q : l = ns[i] /\ q = s[i] /\ q = NodePlan(l, e) /\ NodeOk(l)
    BY <1>2, <1>3
  <2>2. /\ q \in HandlerLists /\ Range(q) \subseteq OfNode(l)
        /\ \A y : y \in Range(q) <=>
                 \/ y \in Range(l.handlers)
                 \/ \E j \in DOMAIN l.bases :
                      /\ l.bases[j].base = e.base
                      /\ \/ y \in Range(l.bases[j].handlers)
                         \/ AtIds(l.bases[j].ids, y, e.id)
    BY <2>1, NodePlanIs
  <2>. QED
    BY <2>1, <2>2
<1>5. s \in Seq(HandlerLists) /\ Len(s) = n
  <2>1. \A i \in 1 .. n : s[i] \in HandlerLists
    BY <1>4
  <2>. QED
    BY <1>2, <2>1
<1>6. ASSUME NEW i \in 1 .. n, NEW j \in 1 .. n, i < j
      PROVE  Before(Range(s[i]), Range(s[j]))
  <2>1. Before(OfNode(ns[i]), OfNode(ns[j]))
    BY <1>1, <1>6 DEF NodeLists
  <2>2. Range(s[i]) \subseteq OfNode(ns[i]) /\ Range(s[j]) \subseteq OfNode(ns[j])
    BY <1>4
  <2>. QED
    BY <2>1, <2>2 DEF Before
<1>7. p = FlattenSeq(s)
  BY <1>1, <1>2 DEF Plan
<1>8. p \in HandlerLists /\ Range(p) = InFirst(s, n)
  BY <1>5, <1>6, <1>7, FlattenOrdered
<1>9. \A y : y \in Range(p) <=> \E i \in 1 .. n : y \in Range(s[i])
  BY <1>8 DEF InFirst
<1>. QED
  BY <1>1, <1>4, <1>8, <1>9

\* The same in terms of the keys.
LEMMA PlanAt ==
    ASSUME NEW ns \in NodeLists, NEW e, e.base # ANY, e.id # ANY, NEW p, p = Plan(ns, e)
    PROVE  /\ p \in HandlerLists
           /\ \A y, key : At(ns, y, key) /\ Matches(key, e)
                         /\ (key.base = ANY => key.id = ANY) => y \in Range(p)
           /\ \A y \in Range(p) : \E key : At(ns, y, key) /\ Matches(key, e)
<1>1. p \in HandlerLists
  BY PlanIs
<1>2. \A y : y \in Range(p) <=>
        \E i \in DOMAIN ns :
           \/ y \in Range(ns[i].handlers)
           \/ \E j \in DOMAIN ns[i].bases :
                /\ ns[i].bases[j].base = e.base
                /\ \/ y \in Range(ns[i].bases[j].handlers)
                   \/ AtIds(ns[i].bases[j].ids, y, e.id)
  BY PlanIs
<1>3. ASSUME NEW y, NEW key, At(ns, y, key), Matches(key, e), key.base = ANY => key.id = ANY
      PROVE  y \in Range(p)
  <2>1. PICK i \in DOMAIN ns : AtNode(ns[i], y, key)
    BY <1>3 DEF At
  <2>2. CASE LoopLevel(key)
    BY <1>2, <2>1, <2>2 DEF AtNode
  <2>3. CASE ~LoopLevel(key)
    <3>1. PICK j \in DOMAIN ns[i].bases : AtBase(ns[i].bases[j], y, key)
      BY <2>1, <2>3 DEF AtNode
    <3>2. key.base = e.base /\ key.id \in {ANY, e.id}
      BY <1>3, <2>3 DEF Matches, LoopLevel
    <3>3. ns[i].bases[j].base = e.base
          /\ (y \in Range(ns[i].bases[j].handlers) \/ AtIds(ns[i].bases[j].ids, y, e.id))
      BY <3>1, <3>2 DEF AtBase
    <3>. QED
      BY <1>2, <3>3
  <2>. QED
    BY <2>2, <2>3
<1>4. ASSUME NEW y \in Range(p)
      PROVE  \E key : At(ns, y, key) /\ Matches(key, e)
  <2>1. PICK i \in DOMAIN ns :
           \/ y \in Range(ns[i].handlers)
           \/ \E j \in DOMAIN ns[i].bases :
                /\ ns[i].bases[j].base = e.base
                /\ \/ y \in Range(ns[i].bases[j].handlers)
                   \/ AtIds(ns[i].bases[j].ids, y, e.id)
    BY <1>2
  <2>2. CASE y \in Range(ns[i].handlers)
    <3> DEFINE key == [base |-> ANY, id |-> ANY]
    <3>1. LoopLevel(key) /\ Matches(key, e)
      BY DEF LoopLevel, Matches
    <3> HIDE DEF key
    <3>2. At(ns, y, key)
      BY <2>2, <3>1 DEF At, AtNode
    <3>. QED
      BY <3>1, <3>2
  <2>3. ASSUME NEW j \in DOMAIN ns[i].bases, ns[i].bases[j].base = e.base,
               y \in Range(ns[i].bases[j].handlers)
        PROVE  \E key : At(ns, y, key) /\ Matches(key, e)
    <3> DEFINE key == [base |-> e.base, id |-> ANY]
    <3>1. ~LoopLevel(key) /\ Matches(key, e) /\ key.base = e.base /\ key.id = ANY
      BY DEF LoopLevel, Matches
    <3> HIDE DEF key
    <3>2. AtBase(ns[i].bases[j], y, key)
      BY <2>3, <3>1 DEF AtBase
    <3>3. At(ns, y, key)
      BY <3>1, <3>2 DEF At, AtNode
    <3>. QED
      BY <3>1, <3>3
  <2>4. ASSUME NEW j \in DOMAIN ns[i].bases, ns[i].bases[j].base = e.base,
               AtIds(ns[i].bases[j].ids, y, e.id)
        PROVE  \E key : At(ns, y, key) /\ Matches(key, e)
    <3> DEFINE key == [base |-> e.base, id |-> e.id]
    <3>1. ~LoopLevel(key) /\ Matches(key, e) /\ key.base = e.base /\ key.id = e.id
      BY DEF LoopLevel, Matches
    <3> HIDE DEF key
    <3>2. AtBase(ns[i].bases[j], y, key)
      BY <2>4, <3>1 DEF AtBase
    <3>3. At(ns, y, key)
      BY <3>1, <3>2 DEF At, AtNode
    <3>. QED
      BY <3>1, <3>3
  <2>. QED
    BY <2>1, <2>2, <2>3, <2>4
<1>. QED
  BY <1>1, <1>3, <1>4

-----------------------------------------------------------------------------
(***************************************************************************)
(* Registration.                                                           *)
(***************************************************************************)
SameKey(k, key) == k.base = key.base /\ k.id = key.id

\* A list of one handler.
LEMMA OneHandler ==
    ASSUME NEW x \in HandlerNode
    PROVE  << x >> \in HandlerLists /\ Range(<< x >>) = {x}
<1>1. << x >> \in Seq(HandlerNode) /\ DOMAIN << x >> = {1} /\ << x >>[1] = x
  OBVIOUS
<1>. QED
  BY <1>1 DEF HandlerLists, Ascending, Range

\* handler_instances_add puts a new handler behind the others.
LEMMA AppendHandler ==
    ASSUME NEW hs \in HandlerLists, NEW x \in HandlerNode, Before(Range(hs), {x}),
           NEW h1, h1 = handler_instances_add(hs, x, FALSE)
    PROVE  h1 \in HandlerLists /\ Range(h1) = Range(hs) \cup {x}
<1>1. hs \in Seq(HandlerNode)
  BY DEF HandlerLists
<1>2. h1 = hs \o << x >>
  BY <1>1 DEF handler_instances_add
<1>. QED
  BY <1>2, OneHandler, ConcatOrdered

BaseAdded(b, id, x, b1) ==
    /\ BaseOk(b1) /\ b1.base = b.base /\ OfBase(b1) = OfBase(b) \cup {x}
    /\ \A y, k : AtBase(b1, y, k) <=>
          AtBase(b, y, k) \/ (y = x /\ k.base = b.base /\ k.id = id)

\* base_node_add_handler, where the handlers for single events come last.
LEMMA BaseAdd ==
    ASSUME NEW b, BaseOk(b), NEW id \in Ids, NEW x \in HandlerNode,
           Before(OfBase(b), {x}), id = ANY => b.ids = << >>,
           NEW b1, b1 = base_node_add_handler(b, id, x, FALSE)
    PROVE  BaseAdded(b, id, x, b1)
<1>1. PICK bb, hs, ids : bb = b.base /\ hs = b.handlers /\ ids = b.ids
  OBVIOUS
<1>2. bb \in Bases /\ hs \in HandlerLists /\ ids \in IdLists /\ ids \in Seq(IdNode)
      /\ Before(Range(hs), OfIds(ids)) /\ bb # ANY
  BY <1>1 DEF BaseOk, BaseNode, IdLists
<1>3. b = [base |-> bb, handlers |-> hs, ids |-> ids]
  BY <1>1 DEF BaseOk, BaseNode
<1>4. Before(Range(hs), {x}) /\ Before(OfIds(ids), {x})
  BY <1>1 DEF Before, OfBase
<1>5. CASE id = ANY
  <2>1. PICK h1 : h1 = handler_instances_add(hs, x, FALSE)
    OBVIOUS
  <2>2. h1 \in HandlerLists /\ Range(h1) = Range(hs) \cup {x}
    BY <1>2, <1>4, <2>1, AppendHandler
  <2>3. b1 = [base |-> bb, handlers |-> h1, ids |-> ids]
    BY <1>3, <1>5, <2>1 DEF base_node_add_handler
  <2>3b. b1.base = bb /\ b1.handlers = h1 /\ b1.ids = ids
    BY ONLY <2>3
  <2>4. ids = << >>
    BY <1>1, <1>5
  <2>5. OfIds(ids) = {}
    BY <2>4 DEF OfIds
  <2>6. BaseOk(b1)
    <3>1. b1 \in BaseNode
      BY ONLY <1>2, <2>2, <2>3 DEF BaseNode
    <3>. QED
      BY <1>2, <2>3b, <2>5, <3>1 DEF BaseOk, Before
  <2>7. OfBase(b1) = OfBase(b) \cup {x} /\ b1.base = b.base
    BY <1>1, <2>2, <2>3b DEF OfBase
  <2>8. ASSUME NEW y, NEW k
        PROVE  AtBase(b1, y, k) <=>
                 AtBase(b, y, k) \/ (y = x /\ k.base = b.base /\ k.id = id)
    BY <1>1, <1>5, <2>2, <2>3b DEF AtBase
  <2>. QED
    BY <2>6, <2>7, <2>8 DEF BaseAdded
<1>6. CASE id # ANY
  <2>0. PICK n \in Nat : n = Len(ids) /\ DOMAIN ids = 1 .. n
    BY <1>2
  <2>1. PICK I : I = {i \in 1 .. n : ids[i].id = id}
    OBVIOUS
  <2>2. PICK j : j = IF I # {} THEN Max(I) ELSE 0
    OBVIOUS
  <2>3. PICK i1 : i1 = IF j = 0 THEN Append(ids, [id |-> id, handlers |-> << x >>])
                       ELSE [ids EXCEPT ![j].handlers = handler_instances_add(@, x, FALSE)]
    OBVIOUS
  <2>4. b1 = [base |-> bb, handlers |-> hs, ids |-> i1]
    <3>1. SelectLastInSeq(ids, LAMBDA y : y.id = id) = j
      BY <2>0, <2>1, <2>2 DEF SelectLastInSeq
    <3>2. CASE j = 0
      BY <1>3, <1>6, <2>3, <3>1, <3>2 DEF base_node_add_handler
    <3>3. CASE j # 0
      BY <1>3, <1>6, <2>3, <3>1, <3>3 DEF base_node_add_handler
    <3>. QED
      BY <3>2, <3>3
  <2>4b. b1.base = bb /\ b1.handlers = hs /\ b1.ids = i1
    BY ONLY <2>4
  <2>5. /\ i1 \in IdLists /\ OfIds(i1) = OfIds(ids) \cup {x}
        /\ \A y, q : AtIds(i1, y, q) <=> AtIds(ids, y, q) \/ (y = x /\ q = id)
    <3>1. CASE j = 0
      <4>1. I = {}
        <5>1. ASSUME I # {} PROVE FALSE
          <6>1. Max(I) \in I
            BY <2>1, <5>1, MaxIs
          <6>. QED
            BY <2>1, <2>2, <3>1, <5>1, <6>1
        <5>. QED
          BY <5>1
      <4>2. PICK v : v = [id |-> id, handlers |-> << x >>]
        OBVIOUS
      <4>3. v \in IdNode /\ v.id = id /\ Range(v.handlers) = {x}
        BY <4>2, OneHandler DEF IdNode
      <4>4. i1 = Append(ids, v)
        BY <2>3, <3>1, <4>2
      <4>5. /\ i1 \in Seq(IdNode) /\ DOMAIN i1 = 1 .. n + 1 /\ i1[n + 1] = v
            /\ \A i \in 1 .. n : i1[i] = ids[i]
        BY <1>2, <2>0, <4>3, <4>4
      <4>6. \A i \in 1 .. n : ids[i].id # id
        BY <2>1, <4>1
      <4>7. \A i : i \in 1 .. n + 1 <=> i \in 1 .. n \/ i = n + 1
        BY <2>0
      <4>8. i1 \in IdLists
        <5>1. \A i \in 1 .. n + 1 : i1[i].id # ANY
          BY <1>2, <1>6, <2>0, <4>3, <4>5, <4>7 DEF IdLists
        <5>2. ASSUME NEW i \in 1 .. n + 1, NEW k \in 1 .. n + 1, i1[i].id = i1[k].id
              PROVE  i = k
          <6>1. i \in 1 .. n /\ k \in 1 .. n => i = k
            BY <1>2, <2>0, <4>5, <5>2 DEF IdLists
          <6>. QED
            BY <4>3, <4>5, <4>6, <4>7, <5>2, <6>1
        <5>. QED
          BY <4>5, <5>1, <5>2 DEF IdLists
      <4>9. OfIds(i1) = OfIds(ids) \cup {x}
        <5>1. \A y : y \in OfIds(i1) <=> \E i \in 1 .. n + 1 : y \in Range(i1[i].handlers)
          BY <4>5 DEF OfIds
        <5>2. \A y : y \in OfIds(ids) <=> \E i \in 1 .. n : y \in Range(ids[i].handlers)
          BY <2>0 DEF OfIds
        <5>. QED
          BY <4>3, <4>5, <4>7, <5>1, <5>2
      <4>10. ASSUME NEW y, NEW q
             PROVE  AtIds(i1, y, q) <=> AtIds(ids, y, q) \/ (y = x /\ q = id)
        <5>1. AtIds(i1, y, q) <=>
                 \E i \in 1 .. n + 1 : i1[i].id = q /\ y \in Range(i1[i].handlers)
          BY <4>5 DEF AtIds
        <5>2. AtIds(ids, y, q) <=>
                 \E i \in 1 .. n : ids[i].id = q /\ y \in Range(ids[i].handlers)
          BY <2>0 DEF AtIds
        <5>. QED
          BY <4>3, <4>5, <4>7, <5>1, <5>2
      <4>. QED
        BY <4>8, <4>9, <4>10
    <3>2. CASE j # 0
      <4>1. j \in I
        BY <2>1, <2>2, <3>2, MaxIs
      <4>2. j \in 1 .. n /\ ids[j].id = id
        BY <2>1, <4>1
      <4>3. PICK h : h = ids[j].handlers
        OBVIOUS
      <4>3b. ids[j] = [id |-> id, handlers |-> h] /\ h \in HandlerLists
        <5>1. ids[j] \in IdNode
          BY <1>2, <2>0, <4>2
        <5>. QED
          BY <4>2, <4>3, <5>1 DEF IdNode
      <4>4. PICK h1 : h1 = handler_instances_add(h, x, FALSE)
        OBVIOUS
      <4>5. h1 \in HandlerLists /\ Range(h1) = Range(h) \cup {x}
        <5>1. Before(Range(h), {x})
          BY <1>4, <2>0, <4>2, <4>3 DEF Before, OfIds
        <5>. QED
          BY <4>3b, <4>4, <5>1, AppendHandler
      <4>6. PICK v : v = [id |-> id, handlers |-> h1]
        OBVIOUS
      <4>7. v \in IdNode /\ v.id = id /\ v.handlers = h1
        BY <4>5, <4>6 DEF IdNode
      <4>8. i1 = [ids EXCEPT ![j] = v]
        <5>1. i1 = [ids EXCEPT ![j] = [ids[j] EXCEPT !.handlers = handler_instances_add(ids[j].handlers, x, FALSE)]]
          BY <2>3, <3>2
        <5>. QED
          <6>1. [ids[j] EXCEPT !.handlers = handler_instances_add(ids[j].handlers, x, FALSE)] = v
            <7>1. PICK w : w = ids[j]
              OBVIOUS
            <7>2. [w EXCEPT !.handlers = h1] = [id |-> id, handlers |-> h1]
              BY ONLY <4>3b, <7>1
            <7>. QED
              BY ONLY <4>3, <4>4, <4>6, <7>1, <7>2
          <6>. QED
            BY ONLY <5>1, <6>1
      <4>9. /\ i1 \in Seq(IdNode) /\ DOMAIN i1 = 1 .. n /\ i1[j] = v
            /\ \A i \in 1 .. n : i # j => i1[i] = ids[i]
        BY <1>2, <2>0, <4>2, <4>7, <4>8
      <4>10. \A i \in 1 .. n : i1[i].id = ids[i].id
        BY <4>2, <4>7, <4>9
      <4>11. i1 \in IdLists
        BY <1>2, <2>0, <4>9, <4>10 DEF IdLists
      <4>12. OfIds(i1) = OfIds(ids) \cup {x}
        <5>1. \A y : y \in OfIds(i1) <=> \E i \in 1 .. n : y \in Range(i1[i].handlers)
          BY <4>9 DEF OfIds
        <5>2. \A y : y \in OfIds(ids) <=> \E i \in 1 .. n : y \in Range(ids[i].handlers)
          BY <2>0 DEF OfIds
        <5>3. Range(i1[j].handlers) = Range(ids[j].handlers) \cup {x}
          BY <4>3, <4>5, <4>7, <4>9
        <5>. QED
          BY <4>2, <4>9, <5>1, <5>2, <5>3
      <4>13. ASSUME NEW y, NEW q
             PROVE  AtIds(i1, y, q) <=> AtIds(ids, y, q) \/ (y = x /\ q = id)
        <5>1. AtIds(i1, y, q) <=>
                 \E i \in 1 .. n : i1[i].id = q /\ y \in Range(i1[i].handlers)
          BY <4>9 DEF AtIds
        <5>2. AtIds(ids, y, q) <=>
                 \E i \in 1 .. n : ids[i].id = q /\ y \in Range(ids[i].handlers)
          BY <2>0 DEF AtIds
        <5>3. Range(i1[j].handlers) = Range(ids[j].handlers) \cup {x}
          BY <4>3, <4>5, <4>7, <4>9
        <5>. QED
          BY <4>2, <4>9, <4>10, <5>1, <5>2, <5>3
      <4>. QED
        BY <4>11, <4>12, <4>13
    <3>. QED
      BY <3>1, <3>2
  <2>6. BaseOk(b1)
    <3>1. Before(Range(hs), OfIds(i1))
      BY <1>2, <1>4, <2>5 DEF Before
    <3>. QED
      <4>1. b1 \in BaseNode
        BY ONLY <1>2, <2>4, <2>5 DEF BaseNode
      <4>. QED
        BY <1>2, <2>4b, <3>1, <4>1 DEF BaseOk
  <2>7. OfBase(b1) = OfBase(b) \cup {x} /\ b1.base = b.base
    BY <1>1, <2>4b, <2>5 DEF OfBase
  <2>8. ASSUME NEW y, NEW k
        PROVE  AtBase(b1, y, k) <=>
                 AtBase(b, y, k) \/ (y = x /\ k.base = b.base /\ k.id = id)
    BY <1>1, <1>6, <2>4b, <2>5 DEF AtBase
  <2>. QED
    BY <2>6, <2>7, <2>8 DEF BaseAdded
<1>. QED
  BY <1>5, <1>6

\* What is in the base nodes, position by position.
LEMMA OfBasesIs ==
    ASSUME NEW bs, NEW n, DOMAIN bs = 1 .. n
    PROVE  \A y : y \in OfBases(bs) <=> \E j \in 1 .. n : y \in OfBase(bs[j])
  BY DEF OfBases

\* A new base node is empty.
LEMMA NewBase ==
    ASSUME NEW bb \in Bases, bb # ANY, NEW b, b = [base |-> bb, handlers |-> << >>, ids |-> << >>]
    PROVE  BaseOk(b) /\ b.base = bb /\ b.ids = << >> /\ OfBase(b) = {} /\ \A y, k : ~AtBase(b, y, k)
<1>1. << >> \in HandlerLists /\ Range(<< >>) = {} /\ << >> \in IdLists /\ OfIds(<< >>) = {}
  BY DEF HandlerLists, Ascending, Range, IdLists, OfIds
<1>2. b.base = bb /\ b.handlers = << >> /\ b.ids = << >> /\ b \in BaseNode
  BY <1>1 DEF BaseNode
<1>3. \A y, k : ~AtBase(b, y, k)
  <2>1. \A y, k : ~AtIds(<< >>, y, k)
    BY DEF AtIds
  <2>. QED
    BY <1>1, <1>2, <2>1 DEF AtBase
<1>. QED
  BY <1>1, <1>2, <1>3 DEF BaseOk, OfBase, Before

BaseAppended(bs, v, s1) ==
    /\ s1 \in BaseLists /\ OfBases(s1) = OfBases(bs) \cup OfBase(v)
    /\ \A y, k : (\E j \in DOMAIN s1 : AtBase(s1[j], y, k)) <=>
          (\E j \in DOMAIN bs : AtBase(bs[j], y, k)) \/ AtBase(v, y, k)

\* One more base node, with handlers registered later than all others.
LEMMA AppendBase ==
    ASSUME NEW bs \in BaseLists, NEW v, BaseOk(v), Before(OfBases(bs), OfBase(v)),
           NEW s1, s1 = Append(bs, v)
    PROVE  BaseAppended(bs, v, s1)
<1>1. PICK n \in Nat : n = Len(bs) /\ DOMAIN bs = 1 .. n /\ bs \in Seq(BaseNode)
  BY DEF BaseLists
<1>2. v \in BaseNode
  BY DEF BaseOk
<1>3. /\ s1 \in Seq(BaseNode) /\ DOMAIN s1 = 1 .. n + 1 /\ s1[n + 1] = v
      /\ \A i \in 1 .. n : s1[i] = bs[i]
  BY <1>1, <1>2
<1>4. \A i : i \in 1 .. n + 1 <=> i \in 1 .. n \/ i = n + 1
  BY <1>1
<1>5. \A j \in 1 .. n + 1 : BaseOk(s1[j])
  BY <1>1, <1>3, <1>4 DEF BaseLists
<1>6. ASSUME NEW i \in 1 .. n + 1, NEW j \in 1 .. n + 1, i < j, s1[i].base = s1[j].base
      PROVE  Before(OfBase(s1[i]), OfBase(s1[j]))
  <2>1. i \in 1 .. n
    BY <1>6
  <2>2. CASE j \in 1 .. n
    BY <1>1, <1>3, <1>6, <2>1, <2>2 DEF BaseLists
  <2>3. CASE j = n + 1
    <3>1. s1[i] = bs[i] /\ s1[j] = v
      BY <1>3, <2>1, <2>3
    <3>2. OfBase(bs[i]) \subseteq OfBases(bs)
      BY <1>1, <2>1 DEF OfBases
    <3>. QED
      BY <3>1, <3>2 DEF Before
  <2>. QED
    BY <1>4, <2>2, <2>3
<1>7. s1 \in BaseLists
  BY <1>3, <1>5, <1>6 DEF BaseLists
<1>8. OfBases(s1) = OfBases(bs) \cup OfBase(v)
  <2>1. \A y : y \in OfBases(bs) <=> \E j \in 1 .. n : y \in OfBase(bs[j])
    BY <1>1, OfBasesIs
  <2>2. \A y : y \in OfBases(s1) <=> \E j \in 1 .. n + 1 : y \in OfBase(s1[j])
    BY <1>3, OfBasesIs
  <2>. QED
    BY <1>3, <1>4, <2>1, <2>2
<1>9. \A y, k : (\E j \in DOMAIN s1 : AtBase(s1[j], y, k)) <=>
                 (\E j \in DOMAIN bs : AtBase(bs[j], y, k)) \/ AtBase(v, y, k)
  BY <1>1, <1>3, <1>4
<1>. QED
  BY <1>7, <1>8, <1>9 DEF BaseAppended

BaseExtended(bs, m, v, x, s1) ==
    /\ s1 \in BaseLists /\ OfBases(s1) = OfBases(bs) \cup {x}
    /\ DOMAIN s1 = DOMAIN bs /\ s1[m] = v
    /\ \A j \in DOMAIN bs : j # m => s1[j] = bs[j]

\* The last node of a base gets a handler registered later than all others.
LEMMA ExtendBase ==
    ASSUME NEW bs \in BaseLists, NEW m \in DOMAIN bs, NEW x, NEW v, BaseOk(v),
           v.base = bs[m].base, OfBase(v) = OfBase(bs[m]) \cup {x},
           Before(OfBases(bs), {x}),
           \A i \in DOMAIN bs : bs[i].base = v.base => i <= m,
           NEW s1, s1 = [bs EXCEPT ![m] = v]
    PROVE  BaseExtended(bs, m, v, x, s1)
<1>1. PICK n \in Nat : n = Len(bs) /\ DOMAIN bs = 1 .. n /\ bs \in Seq(BaseNode)
  BY DEF BaseLists
<1>2. v \in BaseNode
  BY DEF BaseOk
<1>3. /\ s1 \in Seq(BaseNode) /\ DOMAIN s1 = 1 .. n /\ s1[m] = v
      /\ \A i \in 1 .. n : i # m => s1[i] = bs[i]
  BY <1>1, <1>2
<1>4. m \in 1 .. n
  BY <1>1
<1>5. \A j \in 1 .. n : BaseOk(s1[j])
  BY <1>1, <1>3, <1>4 DEF BaseLists
<1>6. ASSUME NEW i \in 1 .. n, NEW j \in 1 .. n, i < j, s1[i].base = s1[j].base
      PROVE  Before(OfBase(s1[i]), OfBase(s1[j]))
  <2>0. \A k \in 1 .. n : s1[k].base = bs[k].base
    BY <1>3, <1>4
  <2>1. bs[i].base = bs[j].base
    BY <1>6, <2>0
  <2>2. Before(OfBase(bs[i]), OfBase(bs[j]))
    BY <1>1, <1>6, <2>1 DEF BaseLists
  <2>3. i # m
    <3>1. SUFFICES ASSUME i = m PROVE FALSE
      OBVIOUS
    <3>2. bs[j].base = v.base
      BY <2>1, <3>1
    <3>3. j <= m
      BY <1>1, <3>2
    <3>. QED
      BY <1>4, <1>6, <3>1, <3>3
  <2>4. s1[i] = bs[i]
    BY <1>3, <2>3
  <2>5. CASE j # m
    BY <1>3, <2>2, <2>4, <2>5
  <2>6. CASE j = m
    <3>1. OfBase(s1[j]) = OfBase(bs[j]) \cup {x}
      BY <1>3, <2>6
    <3>2. OfBase(bs[i]) \subseteq OfBases(bs)
      BY <1>1 DEF OfBases
    <3>. QED
      BY <2>2, <2>4, <3>1, <3>2 DEF Before
  <2>. QED
    BY <2>5, <2>6
<1>7. s1 \in BaseLists
  BY <1>3, <1>5, <1>6 DEF BaseLists
<1>8. OfBases(s1) = OfBases(bs) \cup {x}
  <2>1. \A y : y \in OfBases(bs) <=> \E j \in 1 .. n : y \in OfBase(bs[j])
    BY <1>1, OfBasesIs
  <2>2. \A y : y \in OfBases(s1) <=> \E j \in 1 .. n : y \in OfBase(s1[j])
    BY <1>3, OfBasesIs
  <2>3. OfBase(s1[m]) = OfBase(bs[m]) \cup {x}
    BY <1>3, <1>4
  <2>. QED
    BY <1>3, <1>4, <2>1, <2>2, <2>3
<1>. QED
  BY <1>1, <1>3, <1>7, <1>8 DEF BaseExtended

NodeAdded(l, key, x, l1) ==
    /\ NodeOk(l1) /\ OfNode(l1) = OfNode(l) \cup {x}
    /\ \A y, k : AtNode(l1, y, k) <=> AtNode(l, y, k) \/ (y = x /\ SameKey(k, key))

\* loop_node_add_handler, where handlers for all events come first.
LEMMA NodeAdd ==
    ASSUME NEW l, NodeOk(l), NEW key \in Keys, NEW x \in HandlerNode,
           Before(OfNode(l), {x}), LoopLevel(key) => l.bases = << >>,
           NEW l1, l1 = loop_node_add_handler(l, key, x, FALSE)
    PROVE  NodeAdded(l, key, x, l1)
<1>1. PICK hs, bs : hs = l.handlers /\ bs = l.bases
  OBVIOUS
<1>2. hs \in HandlerLists /\ bs \in BaseLists /\ Before(Range(hs), OfBases(bs))
  BY <1>1 DEF NodeOk, LoopNode
<1>3. l = [handlers |-> hs, bases |-> bs]
  BY <1>1 DEF NodeOk, LoopNode
<1>4. Before(Range(hs), {x}) /\ Before(OfBases(bs), {x})
  BY <1>1 DEF Before, OfNode
<1>5. key.base \in Bases /\ key.id \in Ids
  BY DEF Bases, Ids
<1>6. CASE LoopLevel(key)
  <2>1. PICK h1 : h1 = handler_instances_add(hs, x, FALSE)
    OBVIOUS
  <2>2. h1 \in HandlerLists /\ Range(h1) = Range(hs) \cup {x}
    BY <1>2, <1>4, <2>1, AppendHandler
  <2>3. l1 = [handlers |-> h1, bases |-> bs]
    BY <1>3, <1>6, <2>1 DEF loop_node_add_handler
  <2>4. l1.handlers = h1 /\ l1.bases = bs
    BY ONLY <2>3
  <2>5. l1 \in LoopNode
    BY ONLY <1>2, <2>2, <2>3 DEF LoopNode
  <2>6. OfBases(bs) = {}
    <3>1. bs = << >>
      BY <1>1, <1>6
    <3>. QED
      BY <3>1 DEF OfBases
  <2>7. NodeOk(l1)
    BY <2>4, <2>5, <2>6 DEF NodeOk, Before
  <2>8. OfNode(l1) = OfNode(l) \cup {x}
    BY <1>1, <2>2, <2>4 DEF OfNode
  <2>9. \A y, k : AtNode(l1, y, k) <=> AtNode(l, y, k) \/ (y = x /\ SameKey(k, key))
    BY <1>1, <1>6, <2>2, <2>4 DEF AtNode, SameKey, LoopLevel
  <2>. QED
    BY <2>7, <2>8, <2>9 DEF NodeAdded
<1>7. CASE ~LoopLevel(key)
  <2>0. key.base # ANY
    BY <1>7, EventAssumption DEF LoopLevel
  <2>1. PICK n \in Nat : n = Len(bs) /\ DOMAIN bs = 1 .. n
    BY <1>2 DEF BaseLists
  <2>2. PICK I : I = {i \in 1 .. n : bs[i].base = key.base}
    OBVIOUS
  <2>3. PICK m : m = IF I # {} THEN Max(I) ELSE 0
    OBVIOUS
  <2>3b. SelectLastInSeq(bs, LAMBDA b : b.base = key.base) = m
    BY <2>1, <2>2, <2>3 DEF SelectLastInSeq
  <2>4. PICK new : new = [base |-> key.base, handlers |-> << >>, ids |-> << >>]
    OBVIOUS
  <2>5. PICK behind \in BOOLEAN : behind <=>
            /\ key.id = ANY
            /\ \/ bs[m].ids # <<>>
               \/ Last(bs).base # key.base /\ Last(bs).ids # <<>>
    OBVIOUS
  <2>6. PICK s1 : s1 = IF m = 0 \/ behind
                       THEN Append(bs, base_node_add_handler(new, key.id, x, FALSE))
                       ELSE [bs EXCEPT ![m] = base_node_add_handler(@, key.id, x, FALSE)]
    OBVIOUS
  <2>7. l1 = [handlers |-> hs, bases |-> s1]
    <3>1. CASE m = 0 \/ behind
      BY <1>3, <1>7, <2>3b, <2>4, <2>5, <2>6, <3>1 DEF loop_node_add_handler
    <3>2. CASE ~(m = 0 \/ behind)
      BY <1>3, <1>7, <2>3b, <2>4, <2>5, <2>6, <3>2 DEF loop_node_add_handler
    <3>. QED
      BY <3>1, <3>2
  <2>8. /\ s1 \in BaseLists /\ OfBases(s1) = OfBases(bs) \cup {x}
        /\ \A y, k : (\E j \in DOMAIN s1 : AtBase(s1[j], y, k)) <=>
              (\E j \in DOMAIN bs : AtBase(bs[j], y, k)) \/ (y = x /\ SameKey(k, key))
    <3>1. CASE m = 0 \/ behind
      <4>1. PICK v : v = base_node_add_handler(new, key.id, x, FALSE)
        OBVIOUS
      <4>2. BaseOk(new) /\ new.base = key.base /\ new.ids = << >> /\ OfBase(new) = {}
            /\ \A y, k : ~AtBase(new, y, k)
        BY <1>5, <2>0, <2>4, NewBase
      <4>3. Before(OfBase(new), {x})
        BY <4>2 DEF Before
      <4>4. /\ BaseOk(v) /\ OfBase(v) = OfBase(new) \cup {x}
            /\ \A y, k : AtBase(v, y, k) <=>
                 AtBase(new, y, k) \/ (y = x /\ k.base = new.base /\ k.id = key.id)
        <5>1. BaseAdded(new, key.id, x, v)
          BY <1>5, <4>1, <4>2, <4>3, BaseAdd
        <5>. QED
          BY <5>1 DEF BaseAdded
      <4>5. s1 = Append(bs, v)
        BY <2>6, <3>1, <4>1
      <4>6. OfBase(v) = {x}
        BY <4>2, <4>4
      <4>7. /\ s1 \in BaseLists /\ OfBases(s1) = OfBases(bs) \cup OfBase(v)
            /\ \A y, k : (\E j \in DOMAIN s1 : AtBase(s1[j], y, k)) <=>
                 (\E j \in DOMAIN bs : AtBase(bs[j], y, k)) \/ AtBase(v, y, k)
        <5>1. Before(OfBases(bs), OfBase(v)) /\ BaseOk(v)
          BY <1>4, <4>4, <4>6
        <5>2. BaseAppended(bs, v, s1)
          BY ONLY <1>2, <4>5, <5>1, AppendBase
        <5>. QED
          BY <5>2 DEF BaseAppended
      <4>8. \A y, k : AtBase(v, y, k) <=> y = x /\ SameKey(k, key)
        BY <4>2, <4>4 DEF SameKey
      <4>. QED
        BY <4>6, <4>7, <4>8
    <3>2. CASE ~(m = 0 \/ behind)
      <4>1. m \in I /\ \A i \in I : m >= i
        BY <2>2, <2>3, <3>2, MaxIs
      <4>2. m \in 1 .. n /\ bs[m].base = key.base
        BY <2>2, <4>1
      <4>3. PICK b, v : b = bs[m] /\ v = base_node_add_handler(b, key.id, x, FALSE)
        OBVIOUS
      <4>4. BaseOk(b) /\ Before(OfBase(b), {x})
        <5>1. BaseOk(b)
          BY <1>2, <2>1, <4>2, <4>3 DEF BaseLists
        <5>2. OfBase(b) \subseteq OfBases(bs)
          BY <2>1, <4>2, <4>3 DEF OfBases
        <5>. QED
          BY <1>4, <5>1, <5>2 DEF Before
      <4>5. key.id = ANY => b.ids = << >>
        BY <2>5, <3>2, <4>3
      <4>6. /\ BaseOk(v) /\ v.base = b.base /\ OfBase(v) = OfBase(b) \cup {x}
            /\ \A y, k : AtBase(v, y, k) <=>
                 AtBase(b, y, k) \/ (y = x /\ k.base = b.base /\ k.id = key.id)
        <5>1. BaseAdded(b, key.id, x, v)
          BY <1>5, <4>3, <4>4, <4>5, BaseAdd
        <5>. QED
          BY <5>1 DEF BaseAdded
      <4>7. s1 = [bs EXCEPT ![m] = v]
        BY <2>6, <3>2, <4>3
      <4>8. \A i \in DOMAIN bs : bs[i].base = v.base => i <= m
        BY <2>1, <2>2, <4>1, <4>2, <4>3, <4>6
      <4>9. /\ s1 \in BaseLists /\ OfBases(s1) = OfBases(bs) \cup {x}
            /\ DOMAIN s1 = DOMAIN bs /\ s1[m] = v
            /\ \A j \in DOMAIN bs : j # m => s1[j] = bs[j]
        <5>1. m \in DOMAIN bs /\ BaseOk(v) /\ v.base = bs[m].base
              /\ OfBase(v) = OfBase(bs[m]) \cup {x}
          BY <2>1, <4>2, <4>3, <4>6
        <5>2. BaseExtended(bs, m, v, x, s1)
          BY ONLY <1>2, <1>4, <4>7, <4>8, <5>1, ExtendBase
        <5>. QED
          BY <5>2 DEF BaseExtended
      <4>10. ASSUME NEW y, NEW k
             PROVE  (\E j \in DOMAIN s1 : AtBase(s1[j], y, k)) <=>
                (\E j \in DOMAIN bs : AtBase(bs[j], y, k)) \/ (y = x /\ SameKey(k, key))
        <5>1. AtBase(s1[m], y, k) <=> AtBase(bs[m], y, k) \/ (y = x /\ SameKey(k, key))
          BY <4>2, <4>3, <4>6, <4>9 DEF SameKey
        <5>2. m \in DOMAIN bs
          BY <2>1, <4>2
        <5>. QED
          BY <4>9, <5>1, <5>2
      <4>. QED
        BY <4>9, <4>10
    <3>. QED
      BY <3>1, <3>2
  <2>9. l1.handlers = hs /\ l1.bases = s1
    BY ONLY <2>7
  <2>10. l1 \in LoopNode
    BY ONLY <1>2, <2>7, <2>8 DEF LoopNode
  <2>11. NodeOk(l1)
    BY <1>2, <1>4, <2>8, <2>9, <2>10 DEF NodeOk, Before
  <2>12. OfNode(l1) = OfNode(l) \cup {x}
    BY <1>1, <2>8, <2>9 DEF OfNode
  <2>13. ASSUME NEW y, NEW k
         PROVE  AtNode(l1, y, k) <=> AtNode(l, y, k) \/ (y = x /\ SameKey(k, key))
    <3>1. CASE LoopLevel(k)
      <4>1. ~SameKey(k, key)
        BY <1>7, <3>1 DEF SameKey, LoopLevel
      <4>. QED
        BY <1>1, <2>9, <3>1, <4>1 DEF AtNode
    <3>2. CASE ~LoopLevel(k)
      BY <1>1, <2>8, <2>9, <3>2 DEF AtNode
    <3>. QED
      BY <3>1, <3>2
  <2>. QED
    BY <2>11, <2>12, <2>13 DEF NodeAdded
<1>. QED
  BY <1>6, <1>7

Registered(ns, key, x, s1) ==
    /\ s1 \in NodeLists
    /\ \A y, k : At(s1, y, k) <=> At(ns, y, k) \/ (y = x /\ SameKey(k, key))

\* The registration of a handler puts it where its key says, and nothing else.
LEMMA RegisterIs ==
    ASSUME NEW ns \in NodeLists, NEW key \in Keys, NEW x \in HandlerNode,
           Before(OfNodes(ns), {x}), NEW s1, s1 = Register(ns, key, x, FALSE)
    PROVE  Registered(ns, key, x, s1)
<1>1. PICK n \in Nat : n = Len(ns) /\ DOMAIN ns = 1 .. n /\ ns \in Seq(LoopNode)
  BY DEF NodeLists
<1>2. \A i \in 1 .. n : OfNode(ns[i]) \subseteq OfNodes(ns) /\ NodeOk(ns[i])
  BY <1>1 DEF OfNodes, NodeLists
<1>3. PICK new : new = [handlers |-> << >>, bases |-> << >>]
  OBVIOUS
<1>4. NodeOk(new) /\ OfNode(new) = {} /\ (\A y, k : ~AtNode(new, y, k)) /\ new.bases = << >>
  <2>1. << >> \in HandlerLists /\ Range(<< >>) = {} /\ << >> \in BaseLists /\ OfBases(<< >>) = {}
    BY DEF HandlerLists, Ascending, Range, BaseLists, OfBases
  <2>2. new.handlers = << >> /\ new.bases = << >> /\ new \in LoopNode
    BY <1>3, <2>1 DEF LoopNode
  <2>3. \A y, k : ~AtNode(new, y, k)
    BY <2>1, <2>2 DEF AtNode
  <2>. QED
    BY <2>1, <2>2, <2>3 DEF NodeOk, OfNode, Before
<1>5. CASE ns = <<>> \/ (Last(ns).bases # <<>> /\ LoopLevel(key))
  <2>1. PICK v : v = loop_node_add_handler(new, key, x, FALSE)
    OBVIOUS
  <2>2. Before(OfNode(new), {x})
    BY <1>4 DEF Before
  <2>3. /\ NodeOk(v) /\ OfNode(v) = OfNode(new) \cup {x}
        /\ \A y, k : AtNode(v, y, k) <=> AtNode(new, y, k) \/ (y = x /\ SameKey(k, key))
    <3>1. NodeAdded(new, key, x, v)
      BY <1>4, <2>1, <2>2, NodeAdd
    <3>. QED
      BY <3>1 DEF NodeAdded
  <2>4. s1 = Append(ns, v)
    BY <1>3, <1>5, <2>1 DEF Register
  <2>5. v \in LoopNode
    BY <2>3 DEF NodeOk
  <2>6. /\ s1 \in Seq(LoopNode) /\ DOMAIN s1 = 1 .. n + 1 /\ s1[n + 1] = v
        /\ \A i \in 1 .. n : s1[i] = ns[i]
    BY ONLY <1>1, <2>4, <2>5
  <2>7. \A i : i \in 1 .. n + 1 <=> i \in 1 .. n \/ i = n + 1
    BY <1>1
  <2>8. \A i \in 1 .. n + 1 : NodeOk(s1[i])
    BY <1>2, <2>3, <2>6, <2>7
  <2>9. ASSUME NEW i \in 1 .. n + 1, NEW j \in 1 .. n + 1, i < j
        PROVE  Before(OfNode(s1[i]), OfNode(s1[j]))
    <3>1. i \in 1 .. n
      BY <2>9
    <3>2. CASE j \in 1 .. n
      BY <1>1, <2>6, <2>9, <3>1, <3>2 DEF NodeLists
    <3>3. CASE j = n + 1
      BY <1>2, <1>4, <2>3, <2>6, <3>1, <3>3 DEF Before
    <3>. QED
      BY <2>7, <3>2, <3>3
  <2>10. s1 \in NodeLists
    BY <2>6, <2>8, <2>9 DEF NodeLists
  <2>11. \A y, k : At(s1, y, k) <=> At(ns, y, k) \/ AtNode(v, y, k)
    BY <1>1, <2>6, <2>7 DEF At
  <2>. QED
    BY <1>4, <2>3, <2>10, <2>11 DEF Registered
<1>6. CASE ~(ns = <<>> \/ (Last(ns).bases # <<>> /\ LoopLevel(key)))
  <2>1. n \in 1 .. n /\ Last(ns) = ns[n]
    BY <1>1, <1>6 DEF Last
  <2>2. PICK l, v : l = ns[n] /\ v = loop_node_add_handler(l, key, x, FALSE)
    OBVIOUS
  <2>3. NodeOk(l) /\ Before(OfNode(l), {x}) /\ (LoopLevel(key) => l.bases = << >>)
    BY <1>2, <1>6, <2>1, <2>2 DEF Before
  <2>4. /\ NodeOk(v) /\ OfNode(v) = OfNode(l) \cup {x}
        /\ \A y, k : AtNode(v, y, k) <=> AtNode(l, y, k) \/ (y = x /\ SameKey(k, key))
    <3>1. NodeAdded(l, key, x, v)
      BY <2>2, <2>3, NodeAdd
    <3>. QED
      BY <3>1 DEF NodeAdded
  <2>5. s1 = [ns EXCEPT ![n] = v]
    BY <1>1, <1>6, <2>1, <2>2 DEF Register, ReplaceAt
  <2>6. v \in LoopNode
    BY <2>4 DEF NodeOk
  <2>7. /\ s1 \in Seq(LoopNode) /\ DOMAIN s1 = 1 .. n /\ s1[n] = v
        /\ \A i \in 1 .. n : i # n => s1[i] = ns[i]
    BY ONLY <1>1, <2>1, <2>5, <2>6
  <2>8. \A i \in 1 .. n : NodeOk(s1[i])
    BY <1>2, <2>4, <2>7
  <2>9. ASSUME NEW i \in 1 .. n, NEW j \in 1 .. n, i < j
        PROVE  Before(OfNode(s1[i]), OfNode(s1[j]))
    <3>1. i # n /\ Before(OfNode(ns[i]), OfNode(ns[j]))
      BY <1>1, <2>9 DEF NodeLists
    <3>2. CASE j # n
      BY <2>7, <3>1, <3>2
    <3>3. CASE j = n
      <4>1. s1[i] = ns[i] /\ OfNode(s1[j]) = OfNode(ns[j]) \cup {x}
        BY <2>2, <2>4, <2>7, <3>1, <3>3
      <4>. QED
        BY <1>2, <3>1, <4>1 DEF Before
    <3>. QED
      BY <3>2, <3>3
  <2>10. s1 \in NodeLists
    BY <2>7, <2>8, <2>9 DEF NodeLists
  <2>11. ASSUME NEW y, NEW k
         PROVE  At(s1, y, k) <=> At(ns, y, k) \/ (y = x /\ SameKey(k, key))
    <3>1. AtNode(s1[n], y, k) <=> AtNode(ns[n], y, k) \/ (y = x /\ SameKey(k, key))
      BY <2>2, <2>4, <2>7
    <3>2. At(s1, y, k) <=> \E i \in 1 .. n : AtNode(s1[i], y, k)
      BY <2>7 DEF At
    <3>3. At(ns, y, k) <=> \E i \in 1 .. n : AtNode(ns[i], y, k)
      BY <1>1 DEF At
    <3>. QED
      BY <2>1, <2>7, <3>1, <3>2, <3>3
  <2>. QED
    BY <2>10, <2>11 DEF Registered
<1>. QED
  BY <1>5, <1>6

-----------------------------------------------------------------------------
(***************************************************************************)
(* Removal.                                                                *)
(***************************************************************************)
\* A sequence s1 that is s with element i replaced by v or, if d, left out: where
\* each element of s1 comes from.
Origin(s, i, v, d, s1, m) ==
    /\ m \in [1 .. Len(s1) -> 1 .. Len(s)]
    /\ \A j, k \in 1 .. Len(s1) : j < k => m[j] < m[k]
    /\ \A k \in 1 .. Len(s1) : s1[k] = IF m[k] = i THEN v ELSE s[m[k]]
    /\ d => \A k \in 1 .. Len(s1) : m[k] # i
    /\ \A j \in 1 .. Len(s) : j # i \/ ~d => \E k \in 1 .. Len(s1) : m[k] = j

Changed(S, s, i, v, d, s1) == s1 \in Seq(S) /\ \E m : Origin(s, i, v, d, s1, m)

\* ChangeFirst changes, or drops, the first element that the change finds something in.
LEMMA ChangedIs ==
    ASSUME NEW S, NEW s \in Seq(S), NEW i \in 1 .. Len(s), NEW v \in S, NEW d \in BOOLEAN,
           NEW s1, s1 = IF d THEN RemoveAt(s, i) ELSE ReplaceAt(s, i, v)
    PROVE  Changed(S, s, i, v, d, s1)
<1>1. PICK n \in Nat : n = Len(s) /\ i \in 1 .. n /\ DOMAIN s = 1 .. n
  OBVIOUS
<1>2. CASE d
  <2>1. /\ s1 \in Seq(S) /\ Len(s1) = Len(s) - 1
        /\ \A k \in 1 .. Len(s1) : s1[k] = IF k < i THEN s[k] ELSE s[k + 1]
    BY <1>2, RemoveAtIs
  <2>2. PICK m : m = [k \in 1 .. n - 1 |-> IF k < i THEN k ELSE k + 1]
    OBVIOUS
  <2>3. m \in [1 .. n - 1 -> 1 .. n]
    BY <1>1, <2>2
  <2>4. \A j, k \in 1 .. n - 1 : j < k => m[j] < m[k]
    BY <1>1, <2>2
  <2>5. \A k \in 1 .. n - 1 : m[k] # i /\ s1[k] = IF m[k] = i THEN v ELSE s[m[k]]
    <3>1. \A k \in 1 .. n - 1 : m[k] # i /\ m[k] = IF k < i THEN k ELSE k + 1
      BY <1>1, <2>2
    <3>. QED
      BY <1>1, <2>1, <3>1
  <2>6. \A j \in 1 .. n : j # i => \E k \in 1 .. n - 1 : m[k] = j
    <3>1. ASSUME NEW j \in 1 .. n, j < i PROVE j \in 1 .. n - 1 /\ m[j] = j
      BY <1>1, <2>2, <3>1
    <3>2. ASSUME NEW j \in 1 .. n, j > i PROVE j - 1 \in 1 .. n - 1 /\ m[j - 1] = j
      BY <1>1, <2>2, <3>2
    <3>3. \A j \in 1 .. n : j # i => j < i \/ j > i
      BY <1>1
    <3>. QED
      BY <3>1, <3>2, <3>3
  <2>. QED
    <3>1. Len(s1) = n - 1 /\ Len(s) = n
      BY <1>1, <2>1
    <3>2. Origin(s, i, v, d, s1, m)
      BY ONLY <1>2, <2>3, <2>4, <2>5, <2>6, <3>1 DEF Origin
    <3>. QED
      BY <2>1, <3>2 DEF Changed
<1>3. CASE ~d
  <2>1. s1 = [s EXCEPT ![i] = v]
    BY <1>3 DEF ReplaceAt
  <2>2. s1 \in Seq(S) /\ Len(s1) = n /\ \A k \in 1 .. n : s1[k] = IF k = i THEN v ELSE s[k]
    BY ONLY <1>1, <2>1, s \in Seq(S), v \in S
  <2>3. PICK m : m = [k \in 1 .. n |-> k]
    OBVIOUS
  <2>4. m \in [1 .. n -> 1 .. n] /\ \A k \in 1 .. n : m[k] = k
    BY <2>3
  <2>. QED
    <3>1. Len(s1) = n /\ Len(s) = n
      BY <1>1, <2>2
    <3>2. Origin(s, i, v, d, s1, m)
      BY ONLY <1>3, <2>2, <2>4, <3>1 DEF Origin
    <3>. QED
      BY <2>2, <3>2 DEF Changed
<1>. QED
  BY <1>2, <1>3

\* handler_instances_remove, by the address of the node.
HandlersRemoved(hs, n, h1) ==
    /\ h1 \in HandlerLists
    /\ \A y : y \in Range(h1) <=> y \in Range(hs) /\ y.n # n
    /\ h1 # hs => \E y \in Range(hs) : y.n = n

\* handler_instances_remove takes out the node of the request, and no other.
LEMMA RemoveHandler ==
    ASSUME NEW hs \in HandlerLists, NEW r, r.legacy = FALSE,
           NEW h1, h1 = handler_instances_remove(hs, r)
    PROVE  HandlersRemoved(hs, r.x.n, h1)
<1>1. PICK n \in Nat : n = Len(hs) /\ DOMAIN hs = 1 .. n /\ hs \in Seq(HandlerNode)
  BY DEF HandlerLists
<1>2. PICK I : I = {i \in 1 .. n : hs[i].n = r.x.n}
  OBVIOUS
<1>3. PICK i : i = IF I # {} THEN Min(I) ELSE 0
  OBVIOUS
<1>4. h1 = IF i = 0 THEN hs ELSE RemoveAt(hs, i)
  <2>1. SelectInSeq(hs, LAMBDA x : Match(x, r)) = i
    BY <1>1, <1>2, <1>3 DEF SelectInSeq, Match
  <2>. QED
    BY <2>1 DEF handler_instances_remove
<1>5. CASE I = {}
  <2>1. h1 = hs
    BY <1>3, <1>4, <1>5
  <2>2. \A k \in 1 .. n : hs[k].n # r.x.n
    BY <1>2, <1>5
  <2>3. \A y \in Range(hs) : y.n # r.x.n
    BY <1>1, <2>2 DEF Range
  <2>. QED
    BY <2>1, <2>3 DEF HandlersRemoved
<1>6. CASE I # {}
  <2>1. i \in I
    <3>1. I \in SUBSET Nat /\ i = Min(I)
      BY <1>2, <1>3, <1>6
    <3>. QED
      BY ONLY <3>1, <1>6, MinIs
  <2>2. i \in 1 .. n /\ hs[i].n = r.x.n /\ i # 0
    BY <1>2, <2>1
  <2>3. h1 = IF TRUE THEN RemoveAt(hs, i) ELSE ReplaceAt(hs, i, hs[i])
    BY <1>4, <2>2
  <2>4. Changed(HandlerNode, hs, i, hs[i], TRUE, h1)
    <3>1. hs[i] \in HandlerNode /\ i \in 1 .. Len(hs)
      BY <1>1, <2>2
    <3>2. PICK v : v = hs[i] /\ v \in HandlerNode /\ h1 = IF TRUE THEN RemoveAt(hs, i) ELSE ReplaceAt(hs, i, v)
      BY <2>3, <3>1
    <3>3. Changed(HandlerNode, hs, i, v, TRUE, h1)
      BY ONLY <1>1, <3>1, <3>2, ChangedIs
    <3>. QED
      BY <3>2, <3>3
  <2>5. PICK m : Origin(hs, i, hs[i], TRUE, h1, m)
    BY <2>4 DEF Changed
  <2>6. PICK n1 \in Nat : n1 = Len(h1) /\ DOMAIN h1 = 1 .. n1 /\ h1 \in Seq(HandlerNode)
    BY <2>4 DEF Changed
  <2>7. /\ m \in [1 .. n1 -> 1 .. n]
        /\ \A j, k \in 1 .. n1 : j < k => m[j] < m[k]
        /\ \A k \in 1 .. n1 : h1[k] = hs[m[k]] /\ m[k] # i
        /\ \A j \in 1 .. n : j # i => \E k \in 1 .. n1 : m[k] = j
    BY <1>1, <2>5, <2>6 DEF Origin
  <2>9. \A j, k \in 1 .. n : j < k => hs[j].n < hs[k].n
    BY <1>1 DEF HandlerLists, Ascending
  <2>10. \A k \in 1 .. n : hs[k].n \in Nat
    <3>1. \A k \in 1 .. n : hs[k] \in HandlerNode
      BY <1>1
    <3>. QED
      BY <3>1 DEF HandlerNode
  <2>11. \A k \in 1 .. n : k # i => hs[k].n # hs[i].n
    BY <2>2, <2>9, <2>10
  <2>12. Ascending(h1)
    BY <2>6, <2>7, <2>9 DEF Ascending
  <2>14. ASSUME NEW y PROVE y \in Range(h1) <=> y \in Range(hs) /\ y.n # r.x.n
    <3>1. y \in Range(h1) <=> \E k \in 1 .. n1 : y = h1[k]
      BY <2>6 DEF Range
    <3>2. y \in Range(hs) <=> \E k \in 1 .. n : y = hs[k]
      BY <1>1 DEF Range
    <3>3. ASSUME NEW k \in 1 .. n1, y = h1[k] PROVE y \in Range(hs) /\ y.n # r.x.n
      <4>1. m[k] \in 1 .. n /\ m[k] # i /\ y = hs[m[k]]
        BY <2>7, <3>3
      <4>. QED
        BY <2>2, <2>11, <3>2, <4>1
    <3>4. ASSUME NEW k \in 1 .. n, y = hs[k], y.n # r.x.n PROVE \E j \in 1 .. n1 : y = h1[j]
      <4>1. k # i
        BY <2>2, <3>4
      <4>2. PICK j \in 1 .. n1 : m[j] = k
        BY <2>7, <4>1
      <4>. QED
        BY <2>7, <3>4, <4>2
    <3>. QED
      BY <3>1, <3>2, <3>3, <3>4
  <2>15. hs[i] \in Range(hs)
    BY <1>1, <2>2 DEF Range
  <2>. QED
    BY <2>2, <2>6, <2>12, <2>14, <2>15 DEF HandlersRemoved, HandlerLists
<1>. QED
  BY <1>5, <1>6

\* Parts of what is before are before parts of what is behind.
LEMMA BeforeParts ==
    ASSUME NEW S, NEW T, Before(S, T), NEW S1 \in SUBSET S, NEW T1 \in SUBSET T
    PROVE  Before(S1, T1)
  BY DEF Before

\* id_node_remove_handler.
IdRemoved(k, r, v) ==
    /\ v \in IdNode /\ v.id = k.id
    /\ \A y : y \in Range(v.handlers) <=>
          y \in Range(k.handlers) /\ ~(k.id = r.key.id /\ y.n = r.x.n)
    /\ v # k => k.id = r.key.id /\ \E y \in Range(k.handlers) : y.n = r.x.n

\* id_node_remove_handler does so if the id is the one of the key.
LEMMA RemoveFromId ==
    ASSUME NEW k \in IdNode, NEW r, r.legacy = FALSE, NEW v, v = id_node_remove_handler(k, r)
    PROVE  IdRemoved(k, r, v)
<1>1. PICK hs, q : hs = k.handlers /\ q = k.id
  OBVIOUS
<1>2. k = [id |-> q, handlers |-> hs] /\ hs \in HandlerLists /\ q \in Ids
  BY <1>1 DEF IdNode
<1>3. CASE q # r.key.id
  <2>1. v = k
    BY <1>1, <1>3 DEF id_node_remove_handler
  <2>. QED
    BY <1>1, <1>3, <2>1 DEF IdRemoved
<1>4. CASE q = r.key.id
  <2>1. PICK h1 : h1 = handler_instances_remove(hs, r)
    OBVIOUS
  <2>2. HandlersRemoved(hs, r.x.n, h1)
    BY <1>2, <2>1, RemoveHandler
  <2>3. v = [id |-> q, handlers |-> h1]
    BY <1>1, <1>2, <1>4, <2>1 DEF id_node_remove_handler
  <2>4. v.id = q /\ v.handlers = h1
    BY ONLY <2>3
  <2>5. h1 \in HandlerLists
    BY <2>2 DEF HandlersRemoved
  <2>6. v \in IdNode
    BY ONLY <1>2, <2>3, <2>5 DEF IdNode
  <2>7. \A y : y \in Range(h1) <=> y \in Range(hs) /\ y.n # r.x.n
    BY <2>2 DEF HandlersRemoved
  <2>8. v # k => \E y \in Range(hs) : y.n = r.x.n
    <3>1. v # k => h1 # hs
      BY ONLY <1>2, <2>3
    <3>. QED
      BY <2>2, <3>1 DEF HandlersRemoved
  <2>. QED
    BY <1>1, <1>4, <2>4, <2>6, <2>7, <2>8 DEF IdRemoved
<1>. QED
  BY <1>3, <1>4

\* The removal from the id nodes of a base.
IdsRemoved(ids, r, s1) ==
    /\ s1 \in IdLists /\ OfIds(s1) \subseteq OfIds(ids)
    /\ \A y, q : AtIds(s1, y, q) <=> AtIds(ids, y, q) /\ ~(q = r.key.id /\ y.n = r.x.n)
    /\ s1 # ids => \E y \in OfIds(ids) : y.n = r.x.n

\* The removal from the id nodes of a base, with the node that becomes empty.
LEMMA RemoveFromIds ==
    ASSUME NEW ids \in IdLists, NEW r, r.legacy = FALSE,
           NEW s1, s1 = ChangeFirst(ids, LAMBDA k : id_node_remove_handler(k, r),
                                         LAMBDA k : k.handlers = <<>>)
    PROVE  IdsRemoved(ids, r, s1)
<1>1. PICK n \in Nat : n = Len(ids) /\ DOMAIN ids = 1 .. n /\ ids \in Seq(IdNode)
  BY DEF IdLists
<1>2. PICK I : I = {i \in 1 .. n : id_node_remove_handler(ids[i], r) # ids[i]}
  OBVIOUS
<1>3. PICK i : i = IF I # {} THEN Min(I) ELSE 0
  OBVIOUS
<1>4. PICK v : v = id_node_remove_handler(ids[i], r)
  OBVIOUS
<1>4b. SelectInSeq(ids, LAMBDA k : id_node_remove_handler(k, r) # k) = i
  BY <1>1, <1>2, <1>3 DEF SelectInSeq
<1>5. s1 = IF i = 0 THEN ids
           ELSE IF v.handlers = << >> THEN RemoveAt(ids, i) ELSE ReplaceAt(ids, i, v)
  BY <1>4, <1>4b DEF ChangeFirst
<1>6. \A j \in 1 .. n : ids[j] \in IdNode /\ IdRemoved(ids[j], r, id_node_remove_handler(ids[j], r))
  <2>1. ASSUME NEW j \in 1 .. n
        PROVE  ids[j] \in IdNode /\ IdRemoved(ids[j], r, id_node_remove_handler(ids[j], r))
    <3>1. PICK k, u : k = ids[j] /\ u = id_node_remove_handler(k, r)
      OBVIOUS
    <3>2. k \in IdNode
      BY <1>1, <3>1
    <3>3. IdRemoved(k, r, u)
      BY <3>1, <3>2, RemoveFromId
    <3>. QED
      BY <3>1, <3>2, <3>3
  <2>. QED
    BY <2>1
<1>7. ASSUME NEW y, NEW q
      PROVE  AtIds(ids, y, q) <=> \E j \in 1 .. n : ids[j].id = q /\ y \in Range(ids[j].handlers)
  BY <1>1 DEF AtIds
<1>8. ASSUME NEW j \in 1 .. n, id_node_remove_handler(ids[j], r) = ids[j],
             ids[j].id = r.key.id, NEW y \in Range(ids[j].handlers), y.n = r.x.n
      PROVE  FALSE
  BY <1>6, <1>8 DEF IdRemoved
<1>9. CASE I = {}
  <2>1. s1 = ids
    BY <1>3, <1>5, <1>9
  <2>2. \A j \in 1 .. n : id_node_remove_handler(ids[j], r) = ids[j]
    BY <1>2, <1>9
  <2>3. \A y, q : AtIds(ids, y, q) => ~(q = r.key.id /\ y.n = r.x.n)
    BY <1>7, <1>8, <2>2
  <2>. QED
    BY <2>1, <2>3 DEF IdsRemoved
<1>10. CASE I # {}
  <2>1. i \in 1 .. n /\ i # 0 /\ v # ids[i]
    <3>1. i \in I
      <4>1. I \in SUBSET Nat /\ i = Min(I)
        BY <1>2, <1>3, <1>10
      <4>. QED
        BY ONLY <4>1, <1>10, MinIs
    <3>. QED
      BY <1>2, <1>4, <3>1
  <2>2. /\ v \in IdNode /\ v.id = ids[i].id /\ ids[i].id = r.key.id
        /\ \A y : y \in Range(v.handlers) <=> y \in Range(ids[i].handlers) /\ y.n # r.x.n
        /\ \E y \in Range(ids[i].handlers) : y.n = r.x.n
    <3>1. IdRemoved(ids[i], r, v)
      BY <1>4, <1>6, <2>1
    <3>. QED
      BY <2>1, <3>1 DEF IdRemoved
  <2>3. PICK d \in BOOLEAN : d <=> v.handlers = << >>
    OBVIOUS
  <2>4. Changed(IdNode, ids, i, v, d, s1)
    <3>1. s1 = IF d THEN RemoveAt(ids, i) ELSE ReplaceAt(ids, i, v)
      BY <1>5, <2>1, <2>3
    <3>2. i \in 1 .. Len(ids) /\ v \in IdNode
      BY <1>1, <2>1, <2>2
    <3>. QED
      BY ONLY <1>1, <2>3, <3>1, <3>2, ChangedIs
  <2>5. PICK m : Origin(ids, i, v, d, s1, m)
    BY <2>4 DEF Changed
  <2>6. PICK n1 \in Nat : n1 = Len(s1) /\ DOMAIN s1 = 1 .. n1 /\ s1 \in Seq(IdNode)
    BY ONLY <2>4 DEF Changed
  <2>7. /\ m \in [1 .. n1 -> 1 .. n]
        /\ \A j, k \in 1 .. n1 : j < k => m[j] < m[k]
        /\ \A k \in 1 .. n1 : s1[k] = IF m[k] = i THEN v ELSE ids[m[k]]
        /\ \A j \in 1 .. n : j # i \/ ~d => \E k \in 1 .. n1 : m[k] = j
    BY <1>1, <2>5, <2>6 DEF Origin
  <2>8. d => Range(v.handlers) = {}
    <3>1. Range(<< >>) = {}
      BY DEF Range
    <3>. QED
      BY <2>3, <3>1
  <2>9. \A k \in 1 .. n1 : m[k] \in 1 .. n /\ s1[k].id = ids[m[k]].id
                           /\ Range(s1[k].handlers) \subseteq Range(ids[m[k]].handlers)
    BY <2>2, <2>7
  <2>10. \A j, k \in 1 .. n1 : m[j] = m[k] => j = k
    BY <2>7, <2>9
  <2>10b. /\ \A k \in 1 .. n : ids[k].id # ANY
          /\ \A j, k \in 1 .. n : ids[j].id = ids[k].id => j = k
    BY <1>1 DEF IdLists
  <2>11. s1 \in IdLists
    <3>1. \A k \in 1 .. n1 : s1[k].id # ANY
      BY ONLY <2>9, <2>10b
    <3>2. \A j, k \in 1 .. n1 : s1[j].id = s1[k].id => j = k
      BY ONLY <2>9, <2>10, <2>10b
    <3>. QED
      BY <2>6, <3>1, <3>2 DEF IdLists
  <2>12. OfIds(s1) \subseteq OfIds(ids)
    <3>1. ASSUME NEW y \in OfIds(s1) PROVE y \in OfIds(ids)
      <4>1. PICK k \in 1 .. n1 : y \in Range(s1[k].handlers)
        BY <2>6 DEF OfIds
      <4>2. m[k] \in 1 .. n /\ y \in Range(ids[m[k]].handlers)
        BY ONLY <2>9, <4>1
      <4>. QED
        BY ONLY <1>1, <4>2 DEF OfIds
    <3>. QED
      BY <3>1
  <2>13. ASSUME NEW j \in 1 .. n, ids[j].id = r.key.id PROVE j = i
    BY <1>1, <2>1, <2>2, <2>13 DEF IdLists
  <2>14. ASSUME NEW y, NEW q
         PROVE  AtIds(s1, y, q) <=> AtIds(ids, y, q) /\ ~(q = r.key.id /\ y.n = r.x.n)
    <3>1. AtIds(s1, y, q) <=> \E k \in 1 .. n1 : s1[k].id = q /\ y \in Range(s1[k].handlers)
      BY <2>6 DEF AtIds
    <3>2. ASSUME NEW k \in 1 .. n1, s1[k].id = q, y \in Range(s1[k].handlers)
          PROVE  AtIds(ids, y, q) /\ ~(q = r.key.id /\ y.n = r.x.n)
      <4>1. AtIds(ids, y, q)
        BY <1>7, <2>9, <3>2
      <4>2. ASSUME q = r.key.id PROVE y.n # r.x.n
        <5>1. m[k] = i
          BY <2>9, <2>13, <3>2, <4>2
        <5>. QED
          BY <2>2, <2>7, <3>2, <5>1
      <4>. QED
        BY <4>1, <4>2
    <3>3. ASSUME NEW j \in 1 .. n, ids[j].id = q, y \in Range(ids[j].handlers),
                 ~(q = r.key.id /\ y.n = r.x.n)
          PROVE  AtIds(s1, y, q)
      <4>1. CASE j # i
        <5>1. PICK k \in 1 .. n1 : m[k] = j
          BY <2>7, <4>1
        <5>2. s1[k] = ids[j]
          BY <2>7, <4>1, <5>1
        <5>. QED
          BY <3>1, <3>3, <5>2
      <4>2. CASE j = i
        <5>1. y \in Range(v.handlers)
          BY <2>2, <3>3, <4>2
        <5>2. ~d
          BY <2>8, <5>1
        <5>3. PICK k \in 1 .. n1 : m[k] = i
          BY <2>1, <2>7, <5>2
        <5>4. s1[k] = v
          BY <2>7, <5>3
        <5>. QED
          BY <2>2, <3>1, <3>3, <4>2, <5>1, <5>4
      <4>. QED
        BY <4>1, <4>2
    <3>. QED
      BY ONLY <1>7, <3>1, <3>2, <3>3
  <2>15. \E y \in OfIds(ids) : y.n = r.x.n
    BY <1>1, <2>1, <2>2 DEF OfIds
  <2>. QED
    BY <2>11, <2>12, <2>14, <2>15 DEF IdsRemoved
<1>. QED
  BY <1>9, <1>10

\* What is registered for a key in a base node is in it, with an address.
LEMMA AtOfBase ==
    ASSUME NEW b, NEW y, NEW k, AtBase(b, y, k)
    PROVE  y \in OfBase(b)
  BY DEF AtBase, OfBase, AtIds, OfIds

\* Addresses in a list of handlers are positive numbers.
LEMMA ListNat ==
    ASSUME NEW hs \in HandlerLists, NEW y \in Range(hs)
    PROVE  y.n \in Nat
<1>1. y \in HandlerNode
  BY DEF HandlerLists, Range
<1>. QED
  BY <1>1 DEF HandlerNode

\* The handlers of a base node are nodes.
LEMMA OfBaseNat ==
    ASSUME NEW b, BaseOk(b), NEW y \in OfBase(b)
    PROVE  y.n \in Nat
<1>1. PICK hs, ids : hs = b.handlers /\ ids = b.ids /\ hs \in HandlerLists /\ ids \in Seq(IdNode)
  BY DEF BaseOk, BaseNode, IdLists
<1>2. CASE y \in Range(hs)
  BY <1>1, <1>2, ListNat
<1>3. CASE y \in OfIds(ids)
  <2>1. PICK k \in DOMAIN ids : y \in Range(ids[k].handlers)
    BY <1>3 DEF OfIds
  <2>2. ids[k] \in IdNode
    BY <1>1
  <2>3. ids[k].handlers \in HandlerLists
    BY <2>2 DEF IdNode
  <2>. QED
    BY <2>1, <2>3, ListNat
<1>. QED
  BY <1>1, <1>2, <1>3 DEF OfBase

\* base_node_remove_handler.
BaseRemoved(b, r, v) ==
    /\ BaseOk(v) /\ v.base = b.base /\ OfBase(v) \subseteq OfBase(b)
    /\ \A y, k : AtBase(v, y, k) <=> AtBase(b, y, k) /\ ~(SameKey(k, r.key) /\ y.n = r.x.n)
    /\ v # b => b.base = r.key.base /\ \E y \in OfBase(b) : y.n = r.x.n

\* base_node_remove_handler takes out the node of the request, and no other.
LEMMA RemoveFromBase ==
    ASSUME NEW b, BaseOk(b), NEW r, r.legacy = FALSE, NEW v, v = base_node_remove_handler(b, r)
    PROVE  BaseRemoved(b, r, v)
<1>1. PICK bb, hs, ids : bb = b.base /\ hs = b.handlers /\ ids = b.ids
  OBVIOUS
<1>2. bb \in Bases /\ hs \in HandlerLists /\ ids \in IdLists
      /\ Before(Range(hs), OfIds(ids)) /\ bb # ANY
  BY <1>1 DEF BaseOk, BaseNode
<1>3. b = [base |-> bb, handlers |-> hs, ids |-> ids]
  BY <1>1 DEF BaseOk, BaseNode
<1>4. CASE bb # r.key.base
  <2>1. v = b
    BY <1>1, <1>4 DEF base_node_remove_handler
  <2>2. \A y, k : AtBase(b, y, k) => ~SameKey(k, r.key)
    BY <1>1, <1>4 DEF AtBase, SameKey
  <2>. QED
    BY <2>1, <2>2 DEF BaseRemoved
<1>5. CASE bb = r.key.base /\ r.key.id = ANY
  <2>1. PICK h1 : h1 = handler_instances_remove(hs, r)
    OBVIOUS
  <2>2. HandlersRemoved(hs, r.x.n, h1)
    BY <1>2, <2>1, RemoveHandler
  <2>3. v = [base |-> bb, handlers |-> h1, ids |-> ids]
    BY <1>3, <1>5, <2>1 DEF base_node_remove_handler
  <2>4. v.base = bb /\ v.handlers = h1 /\ v.ids = ids
    BY ONLY <2>3
  <2>5. /\ h1 \in HandlerLists /\ Range(h1) \subseteq Range(hs)
        /\ \A y : y \in Range(h1) <=> y \in Range(hs) /\ y.n # r.x.n
    BY <2>2 DEF HandlersRemoved
  <2>6. v \in BaseNode
    BY ONLY <1>2, <2>3, <2>5 DEF BaseNode
  <2>7. BaseOk(v)
    BY <1>2, <2>4, <2>5, <2>6 DEF BaseOk, Before
  <2>8. OfBase(v) \subseteq OfBase(b)
    BY <1>1, <2>4, <2>5 DEF OfBase
  <2>9. ASSUME NEW y, NEW k
        PROVE  AtBase(v, y, k) <=> AtBase(b, y, k) /\ ~(SameKey(k, r.key) /\ y.n = r.x.n)
    BY ONLY <1>1, <1>5, <2>4, <2>5 DEF AtBase, SameKey
  <2>10. v # b => \E y \in OfBase(b) : y.n = r.x.n
    <3>1. v # b => h1 # hs
      BY ONLY <1>3, <2>3
    <3>. QED
      BY <1>1, <2>2, <3>1 DEF HandlersRemoved, OfBase
  <2>. QED
    BY ONLY <1>1, <1>5, <2>4, <2>7, <2>8, <2>9, <2>10 DEF BaseRemoved
<1>6. CASE bb = r.key.base /\ r.key.id # ANY
  <2>1. PICK i1 : i1 = ChangeFirst(ids, LAMBDA k : id_node_remove_handler(k, r),
                                        LAMBDA k : k.handlers = <<>>)
    OBVIOUS
  <2>2. IdsRemoved(ids, r, i1)
    BY <1>2, <2>1, RemoveFromIds
  <2>3. v = [base |-> bb, handlers |-> hs, ids |-> i1]
    BY <1>3, <1>6, <2>1 DEF base_node_remove_handler
  <2>4. v.base = bb /\ v.handlers = hs /\ v.ids = i1
    BY ONLY <2>3
  <2>5. /\ i1 \in IdLists /\ OfIds(i1) \subseteq OfIds(ids)
        /\ \A y, q : AtIds(i1, y, q) <=> AtIds(ids, y, q) /\ ~(q = r.key.id /\ y.n = r.x.n)
    BY ONLY <2>2 DEF IdsRemoved
  <2>6. v \in BaseNode
    BY ONLY <1>2, <2>3, <2>5 DEF BaseNode
  <2>7. BaseOk(v)
    BY ONLY <1>2, <2>4, <2>5, <2>6 DEF BaseOk, Before
  <2>8. OfBase(v) \subseteq OfBase(b)
    BY ONLY <1>1, <2>4, <2>5 DEF OfBase
  <2>9. ASSUME NEW y, NEW k
        PROVE  AtBase(v, y, k) <=> AtBase(b, y, k) /\ ~(SameKey(k, r.key) /\ y.n = r.x.n)
    BY ONLY <1>1, <1>6, <2>4, <2>5 DEF AtBase, SameKey
  <2>10. v # b => \E y \in OfBase(b) : y.n = r.x.n
    <3>1. v # b => i1 # ids
      BY ONLY <1>3, <2>3
    <3>. QED
      BY ONLY <1>1, <2>2, <3>1 DEF IdsRemoved, OfBase
  <2>. QED
    BY ONLY <1>1, <1>6, <2>4, <2>7, <2>8, <2>9, <2>10 DEF BaseRemoved
<1>. QED
  BY <1>4, <1>5, <1>6

AtBases(bs, y, k) == \E j \in DOMAIN bs : AtBase(bs[j], y, k)

\* The removal from the base nodes of a loop node.
BasesRemoved(bs, r, s1) ==
    /\ s1 \in BaseLists /\ OfBases(s1) \subseteq OfBases(bs)
    /\ \A y, k : AtBases(s1, y, k) <=> AtBases(bs, y, k) /\ ~(SameKey(k, r.key) /\ y.n = r.x.n)
    /\ s1 # bs => \E y \in OfBases(bs) : y.n = r.x.n

\* The removal from the base nodes, of which several may have the base of the key.
LEMMA RemoveFromBases ==
    ASSUME NEW ns \in BaseLists, NEW r, r.legacy = FALSE,
           NEW s1, s1 = ChangeFirst(ns, LAMBDA b : base_node_remove_handler(b, r),
                                        LAMBDA b : b.handlers = <<>> /\ b.ids = <<>>)
    PROVE  BasesRemoved(ns, r, s1)
<1>1. PICK n \in Nat : n = Len(ns) /\ DOMAIN ns = 1 .. n /\ ns \in Seq(BaseNode)
  BY DEF BaseLists
<1>2. PICK I : I = {i \in 1 .. n : base_node_remove_handler(ns[i], r) # ns[i]}
  OBVIOUS
<1>3. PICK i : i = IF I # {} THEN Min(I) ELSE 0
  OBVIOUS
<1>4. PICK v : v = base_node_remove_handler(ns[i], r)
  OBVIOUS
<1>4b. SelectInSeq(ns, LAMBDA l : base_node_remove_handler(l, r) # l) = i
  BY <1>1, <1>2, <1>3 DEF SelectInSeq
<1>5. s1 = IF i = 0 THEN ns
           ELSE IF v.handlers = << >> /\ v.ids = << >> THEN RemoveAt(ns, i) ELSE ReplaceAt(ns, i, v)
  BY <1>4, <1>4b DEF ChangeFirst
<1>6. ASSUME NEW j \in 1 .. n
      PROVE  BaseOk(ns[j]) /\ BaseRemoved(ns[j], r, base_node_remove_handler(ns[j], r))
  <2>1. PICK l, u : l = ns[j] /\ u = base_node_remove_handler(l, r)
    OBVIOUS
  <2>2. BaseOk(l)
    BY <1>1, <2>1 DEF BaseLists
  <2>3. BaseRemoved(l, r, u)
    BY <2>1, <2>2, RemoveFromBase
  <2>. QED
    BY ONLY <2>1, <2>2, <2>3
<1>7. ASSUME NEW y, NEW k
      PROVE  AtBases(ns, y, k) <=> \E j \in 1 .. n : AtBase(ns[j], y, k)
  BY <1>1 DEF AtBases
<1>8. ASSUME NEW j \in 1 .. n, base_node_remove_handler(ns[j], r) = ns[j],
             NEW y, NEW k, AtBase(ns[j], y, k), SameKey(k, r.key), y.n = r.x.n
      PROVE  FALSE
  <2>1. BaseRemoved(ns[j], r, ns[j])
    BY <1>6, <1>8
  <2>. QED
    BY <1>8, <2>1 DEF BaseRemoved
<1>9. CASE I = {}
  <2>1. s1 = ns
    BY <1>3, <1>5, <1>9
  <2>2. \A j \in 1 .. n : base_node_remove_handler(ns[j], r) = ns[j]
    BY <1>2, <1>9
  <2>3. \A y, k : AtBases(ns, y, k) => ~(SameKey(k, r.key) /\ y.n = r.x.n)
    BY <1>7, <1>8, <2>2
  <2>. QED
    BY ONLY <2>1, <2>3, ns \in BaseLists DEF BasesRemoved
<1>10. CASE I # {}
  <2>1. i \in I /\ \A j \in I : i <= j
    <3>1. I \in SUBSET Nat /\ i = Min(I)
      BY <1>2, <1>3, <1>10
    <3>. QED
      BY ONLY <3>1, <1>10, MinIs
  <2>2. i \in 1 .. n /\ i # 0 /\ v # ns[i] /\ \A j \in 1 .. n : j < i => j \notin I
    BY <1>2, <1>4, <2>1
  <2>3. /\ BaseOk(v) /\ OfBase(v) \subseteq OfBase(ns[i]) /\ v.base = ns[i].base
        /\ ns[i].base = r.key.base
        /\ \A y, k : AtBase(v, y, k) <=>
              AtBase(ns[i], y, k) /\ ~(SameKey(k, r.key) /\ y.n = r.x.n)
        /\ \E y \in OfBase(ns[i]) : y.n = r.x.n
    <3>1. BaseRemoved(ns[i], r, v)
      BY <1>4, <1>6, <2>2
    <3>. QED
      BY ONLY <2>2, <3>1 DEF BaseRemoved
  <2>4. v \in BaseNode
    BY <2>3 DEF BaseOk
  <2>5. PICK d \in BOOLEAN : d <=> v.handlers = << >> /\ v.ids = << >>
    OBVIOUS
  <2>6. Changed(BaseNode, ns, i, v, d, s1)
    <3>1. s1 = IF d THEN RemoveAt(ns, i) ELSE ReplaceAt(ns, i, v)
      BY <1>5, <2>2, <2>5
    <3>2. i \in 1 .. Len(ns)
      BY <1>1, <2>2
    <3>. QED
      BY ONLY <1>1, <2>4, <2>5, <3>1, <3>2, ChangedIs
  <2>7. PICK m : Origin(ns, i, v, d, s1, m)
    BY ONLY <2>6 DEF Changed
  <2>8. PICK n1 \in Nat : n1 = Len(s1) /\ DOMAIN s1 = 1 .. n1 /\ s1 \in Seq(BaseNode)
    BY ONLY <2>6 DEF Changed
  <2>9. /\ m \in [1 .. n1 -> 1 .. n]
        /\ \A j, k \in 1 .. n1 : j < k => m[j] < m[k]
        /\ \A k \in 1 .. n1 : s1[k] = IF m[k] = i THEN v ELSE ns[m[k]]
        /\ \A j \in 1 .. n : j # i \/ ~d => \E k \in 1 .. n1 : m[k] = j
    BY ONLY <1>1, <2>7, <2>8 DEF Origin
  <2>10. d => \A y, k : ~AtBase(v, y, k)
    <3>1. Range(<< >>) = {} /\ \A y, q : ~AtIds(<< >>, y, q)
      BY DEF Range, AtIds
    <3>. QED
      BY <2>5, <3>1 DEF AtBase
  <2>11. \A k \in 1 .. n1 : /\ m[k] \in 1 .. n /\ BaseOk(s1[k]) /\ s1[k].base = ns[m[k]].base
                            /\ OfBase(s1[k]) \subseteq OfBase(ns[m[k]])
    BY ONLY <1>6, <2>3, <2>9
  <2>12. ASSUME NEW j \in 1 .. n1, NEW k \in 1 .. n1, j < k, s1[j].base = s1[k].base
         PROVE  Before(OfBase(s1[j]), OfBase(s1[k]))
    <3>1. m[j] < m[k] /\ m[j] \in 1 .. n /\ m[k] \in 1 .. n /\ ns[m[j]].base = ns[m[k]].base
      BY ONLY <2>9, <2>11, <2>12
    <3>2. Before(OfBase(ns[m[j]]), OfBase(ns[m[k]]))
      BY ONLY <1>1, <3>1, ns \in BaseLists DEF BaseLists
    <3>. QED
      BY ONLY <2>11, <3>2, BeforeParts
  <2>13. s1 \in BaseLists
    BY ONLY <2>8, <2>11, <2>12 DEF BaseLists
  <2>14. OfBases(s1) \subseteq OfBases(ns)
    <3>1. ASSUME NEW y \in OfBases(s1) PROVE y \in OfBases(ns)
      <4>1. PICK k \in 1 .. n1 : y \in OfBase(s1[k])
        BY ONLY <2>8, <3>1 DEF OfBases
      <4>2. m[k] \in 1 .. n /\ y \in OfBase(ns[m[k]])
        BY ONLY <2>11, <4>1
      <4>. QED
        BY ONLY <1>1, <4>2 DEF OfBases
    <3>. QED
      BY <3>1
  <2>15. ASSUME NEW j \in 1 .. n, NEW y, NEW k, AtBase(ns[j], y, k), SameKey(k, r.key),
                y.n = r.x.n
         PROVE  j = i
    <3>1. CASE j < i
      <4>1. base_node_remove_handler(ns[j], r) = ns[j]
        BY <1>2, <2>2, <3>1
      <4>. QED
        BY <1>8, <2>15, <4>1
    <3>2. CASE j > i
      <4>1. PICK z \in OfBase(ns[i]) : z.n = r.x.n
        BY <2>3
      <4>2. y \in OfBase(ns[j])
        BY <1>6, <2>15, AtOfBase
      <4>2b. ns[i].base = ns[j].base
        BY <2>3, <2>15 DEF AtBase, SameKey
      <4>3. Before(OfBase(ns[i]), OfBase(ns[j]))
        BY ONLY <1>1, <2>2, <3>2, ns \in BaseLists, <4>2b DEF BaseLists
      <4>4. z.n < y.n
        BY ONLY <4>1, <4>2, <4>3 DEF Before
      <4>5. z.n \in Nat
        BY <1>6, <2>2, <4>1, OfBaseNat
      <4>. QED
        BY ONLY <2>15, <4>1, <4>4, <4>5
    <3>. QED
      BY <2>2, <3>1, <3>2
  <2>16. ASSUME NEW y, NEW k
         PROVE  AtBases(s1, y, k) <=> AtBases(ns, y, k) /\ ~(SameKey(k, r.key) /\ y.n = r.x.n)
    <3>1. AtBases(s1, y, k) <=> \E j \in 1 .. n1 : AtBase(s1[j], y, k)
      BY ONLY <2>8 DEF AtBases
    <3>2. ASSUME NEW j \in 1 .. n1, AtBase(s1[j], y, k)
          PROVE  AtBases(ns, y, k) /\ ~(SameKey(k, r.key) /\ y.n = r.x.n)
      <4>1. CASE m[j] = i
        <5>1. s1[j] = v
          BY ONLY <2>9, <4>1
        <5>2. AtBase(ns[i], y, k) /\ ~(SameKey(k, r.key) /\ y.n = r.x.n)
          BY ONLY <2>3, <3>2, <5>1
        <5>. QED
          BY ONLY <1>7, <2>2, <5>2
      <4>2. CASE m[j] # i
        <5>1. s1[j] = ns[m[j]] /\ m[j] \in 1 .. n
          BY ONLY <2>9, <2>11, <4>2
        <5>2. AtBase(ns[m[j]], y, k)
          BY ONLY <3>2, <5>1
        <5>. QED
          BY ONLY <1>7, <2>15, <4>2, <5>1, <5>2
      <4>. QED
        BY <4>1, <4>2
    <3>3. ASSUME NEW j \in 1 .. n, AtBase(ns[j], y, k), ~(SameKey(k, r.key) /\ y.n = r.x.n)
          PROVE  AtBases(s1, y, k)
      <4>1. CASE j # i
        <5>1. PICK q \in 1 .. n1 : m[q] = j
          BY ONLY <2>9, <4>1
        <5>2. s1[q] = ns[j]
          BY ONLY <2>9, <4>1, <5>1
        <5>. QED
          BY ONLY <3>1, <3>3, <5>2
      <4>2. CASE j = i
        <5>1. AtBase(v, y, k)
          BY ONLY <2>3, <3>3, <4>2
        <5>2. ~d
          BY ONLY <2>10, <5>1
        <5>3. PICK q \in 1 .. n1 : m[q] = i
          BY ONLY <2>2, <2>9, <5>2
        <5>4. s1[q] = v
          BY ONLY <2>9, <5>3
        <5>. QED
          BY ONLY <3>1, <5>1, <5>4
      <4>. QED
        BY <4>1, <4>2
    <3>. QED
      BY ONLY <1>7, <3>1, <3>2, <3>3
  <2>17. \E y \in OfBases(ns) : y.n = r.x.n
    BY ONLY <1>1, <2>2, <2>3 DEF OfBases
  <2>. QED
    BY ONLY <2>13, <2>14, <2>16, <2>17 DEF BasesRemoved
<1>. QED
  BY <1>9, <1>10

\* What a loop node holds for a key is among its handlers.
LEMMA AtOfNode ==
    ASSUME NEW l, NEW y, NEW k, AtNode(l, y, k)
    PROVE  y \in OfNode(l)
  BY AtOfBase DEF AtNode, OfNode, OfBases

\* The handlers of a loop node are nodes.
LEMMA OfNodeNat ==
    ASSUME NEW l, NodeOk(l), NEW y \in OfNode(l)
    PROVE  y.n \in Nat
<1>1. PICK hs, bs : hs = l.handlers /\ bs = l.bases /\ hs \in HandlerLists /\ bs \in BaseLists
  BY DEF NodeOk, LoopNode
<1>2. CASE y \in Range(hs)
  BY <1>1, <1>2, ListNat
<1>3. CASE y \in OfBases(bs)
  <2>1. PICK j \in DOMAIN bs : y \in OfBase(bs[j])
    BY <1>3 DEF OfBases
  <2>2. BaseOk(bs[j])
    BY <1>1 DEF BaseLists
  <2>. QED
    BY <2>1, <2>2, OfBaseNat
<1>. QED
  BY <1>1, <1>2, <1>3 DEF OfNode

\* loop_node_remove_handler.
NodeRemoved(l, r, v) ==
    /\ NodeOk(v) /\ OfNode(v) \subseteq OfNode(l)
    /\ \A y, k : AtNode(v, y, k) <=> AtNode(l, y, k) /\ ~(SameKey(k, r.key) /\ y.n = r.x.n)
    /\ v # l => \E y \in OfNode(l) : y.n = r.x.n

\* loop_node_remove_handler takes out the node of the request, and no other.
LEMMA RemoveFromNode ==
    ASSUME NEW l, NodeOk(l), NEW r, r.legacy = FALSE, NEW v, v = loop_node_remove_handler(l, r)
    PROVE  NodeRemoved(l, r, v)
<1>1. PICK hs, bs : hs = l.handlers /\ bs = l.bases
  OBVIOUS
<1>2. hs \in HandlerLists /\ bs \in BaseLists /\ Before(Range(hs), OfBases(bs))
  BY <1>1 DEF NodeOk, LoopNode
<1>3. l = [handlers |-> hs, bases |-> bs]
  BY <1>1 DEF NodeOk, LoopNode
<1>4. \A k : SameKey(k, r.key) => (LoopLevel(k) <=> LoopLevel(r.key))
  BY DEF SameKey, LoopLevel
<1>5. CASE LoopLevel(r.key)
  <2>1. PICK h1 : h1 = handler_instances_remove(hs, r)
    OBVIOUS
  <2>2. HandlersRemoved(hs, r.x.n, h1)
    BY <1>2, <2>1, RemoveHandler
  <2>3. v = [handlers |-> h1, bases |-> bs]
    BY <1>3, <1>5, <2>1 DEF loop_node_remove_handler
  <2>4. v.handlers = h1 /\ v.bases = bs
    BY ONLY <2>3
  <2>5. /\ h1 \in HandlerLists /\ Range(h1) \subseteq Range(hs)
        /\ \A y : y \in Range(h1) <=> y \in Range(hs) /\ y.n # r.x.n
    BY <2>2 DEF HandlersRemoved
  <2>6. v \in LoopNode
    BY ONLY <1>2, <2>3, <2>5 DEF LoopNode
  <2>7. NodeOk(v)
    BY ONLY <1>2, <2>4, <2>5, <2>6 DEF NodeOk, Before
  <2>8. OfNode(v) \subseteq OfNode(l)
    BY ONLY <1>1, <2>4, <2>5 DEF OfNode
  <2>9. ASSUME NEW y, NEW k
        PROVE  AtNode(v, y, k) <=> AtNode(l, y, k) /\ ~(SameKey(k, r.key) /\ y.n = r.x.n)
    BY ONLY <1>1, <1>5, <2>4, <2>5 DEF AtNode, SameKey, LoopLevel
  <2>10. v # l => \E y \in OfNode(l) : y.n = r.x.n
    <3>1. v # l => h1 # hs
      BY ONLY <1>3, <2>3
    <3>. QED
      BY ONLY <1>1, <2>2, <3>1 DEF HandlersRemoved, OfNode
  <2>. QED
    BY ONLY <2>7, <2>8, <2>9, <2>10 DEF NodeRemoved
<1>6. CASE ~LoopLevel(r.key)
  <2>1. PICK b1 : b1 = ChangeFirst(bs, LAMBDA b : base_node_remove_handler(b, r),
                                       LAMBDA b : b.handlers = <<>> /\ b.ids = <<>>)
    OBVIOUS
  <2>2. BasesRemoved(bs, r, b1)
    BY <1>2, <2>1, RemoveFromBases
  <2>3. v = [handlers |-> hs, bases |-> b1]
    BY <1>3, <1>6, <2>1 DEF loop_node_remove_handler
  <2>4. v.handlers = hs /\ v.bases = b1
    BY ONLY <2>3
  <2>5. /\ b1 \in BaseLists /\ OfBases(b1) \subseteq OfBases(bs)
        /\ \A y, k : AtBases(b1, y, k) <=> AtBases(bs, y, k) /\ ~(SameKey(k, r.key) /\ y.n = r.x.n)
    BY ONLY <2>2 DEF BasesRemoved
  <2>6. v \in LoopNode
    BY ONLY <1>2, <2>3, <2>5 DEF LoopNode
  <2>7. NodeOk(v)
    BY ONLY <1>2, <2>4, <2>5, <2>6 DEF NodeOk, Before
  <2>8. OfNode(v) \subseteq OfNode(l)
    BY ONLY <1>1, <2>4, <2>5 DEF OfNode
  <2>9. ASSUME NEW y, NEW k
        PROVE  AtNode(v, y, k) <=> AtNode(l, y, k) /\ ~(SameKey(k, r.key) /\ y.n = r.x.n)
    <3>1. CASE LoopLevel(k)
      <4>1. ~SameKey(k, r.key)
        BY ONLY <1>4, <1>6, <3>1
      <4>. QED
        BY ONLY <1>1, <2>4, <3>1, <4>1 DEF AtNode
    <3>2. CASE ~LoopLevel(k)
      <4>1. (AtNode(v, y, k) <=> AtBases(b1, y, k)) /\ (AtNode(l, y, k) <=> AtBases(bs, y, k))
        BY ONLY <1>1, <2>4, <3>2 DEF AtNode, AtBases
      <4>. QED
        BY ONLY <2>5, <4>1
    <3>. QED
      BY <3>1, <3>2
  <2>10. v # l => \E y \in OfNode(l) : y.n = r.x.n
    <3>1. v # l => b1 # bs
      BY ONLY <1>3, <2>3
    <3>. QED
      BY ONLY <1>1, <2>2, <3>1 DEF BasesRemoved, OfNode
  <2>. QED
    BY ONLY <2>7, <2>8, <2>9, <2>10 DEF NodeRemoved
<1>. QED
  BY <1>5, <1>6

\* loop_remove_handler takes out the node of the request, from the place of its
\* key, and nothing else.
NodesRemoved(ns, r, s1) ==
    /\ s1 \in NodeLists /\ OfNodes(s1) \subseteq OfNodes(ns)
    /\ \A y, k : At(s1, y, k) <=> At(ns, y, k) /\ ~(SameKey(k, r.key) /\ y.n = r.x.n)
    /\ s1 # ns => \E y \in OfNodes(ns) : y.n = r.x.n

\* loop_remove_handler takes out the node of the request, and no other.
LEMMA RemoveIs ==
    ASSUME NEW ns \in NodeLists, NEW r, r.legacy = FALSE,
           NEW s1, s1 = loop_remove_handler(ns, r)
    PROVE  NodesRemoved(ns, r, s1)
<1>1. PICK n \in Nat : n = Len(ns) /\ DOMAIN ns = 1 .. n /\ ns \in Seq(LoopNode)
  BY DEF NodeLists
<1>2. PICK I : I = {i \in 1 .. n : loop_node_remove_handler(ns[i], r) # ns[i]}
  OBVIOUS
<1>3. PICK i : i = IF I # {} THEN Min(I) ELSE 0
  OBVIOUS
<1>4. PICK v : v = loop_node_remove_handler(ns[i], r)
  OBVIOUS
<1>4b. SelectInSeq(ns, LAMBDA l : loop_node_remove_handler(l, r) # l) = i
  BY <1>1, <1>2, <1>3 DEF SelectInSeq
<1>5. s1 = IF i = 0 THEN ns
           ELSE IF v.handlers = << >> /\ v.bases = << >> THEN RemoveAt(ns, i) ELSE ReplaceAt(ns, i, v)
  BY <1>4, <1>4b DEF loop_remove_handler, ChangeFirst
<1>6. ASSUME NEW j \in 1 .. n
      PROVE  NodeOk(ns[j]) /\ NodeRemoved(ns[j], r, loop_node_remove_handler(ns[j], r))
  <2>1. PICK l, u : l = ns[j] /\ u = loop_node_remove_handler(l, r)
    OBVIOUS
  <2>2. NodeOk(l)
    BY <1>1, <2>1 DEF NodeLists
  <2>3. NodeRemoved(l, r, u)
    BY <2>1, <2>2, RemoveFromNode
  <2>. QED
    BY ONLY <2>1, <2>2, <2>3
<1>7. ASSUME NEW y, NEW k
      PROVE  At(ns, y, k) <=> \E j \in 1 .. n : AtNode(ns[j], y, k)
  BY <1>1 DEF At
<1>8. ASSUME NEW j \in 1 .. n, loop_node_remove_handler(ns[j], r) = ns[j],
             NEW y, NEW k, AtNode(ns[j], y, k), SameKey(k, r.key), y.n = r.x.n
      PROVE  FALSE
  <2>1. NodeRemoved(ns[j], r, ns[j])
    BY <1>6, <1>8
  <2>. QED
    BY <1>8, <2>1 DEF NodeRemoved
<1>9. CASE I = {}
  <2>1. s1 = ns
    BY <1>3, <1>5, <1>9
  <2>2. \A j \in 1 .. n : loop_node_remove_handler(ns[j], r) = ns[j]
    BY <1>2, <1>9
  <2>3. \A y, k : At(ns, y, k) => ~(SameKey(k, r.key) /\ y.n = r.x.n)
    BY <1>7, <1>8, <2>2
  <2>. QED
    BY ONLY <2>1, <2>3, ns \in NodeLists DEF NodesRemoved
<1>10. CASE I # {}
  <2>1. i \in I /\ \A j \in I : i <= j
    <3>1. I \in SUBSET Nat /\ i = Min(I)
      BY <1>2, <1>3, <1>10
    <3>. QED
      BY ONLY <3>1, <1>10, MinIs
  <2>2. i \in 1 .. n /\ i # 0 /\ v # ns[i] /\ \A j \in 1 .. n : j < i => j \notin I
    BY <1>2, <1>4, <2>1
  <2>3. /\ NodeOk(v) /\ OfNode(v) \subseteq OfNode(ns[i])
        /\ \A y, k : AtNode(v, y, k) <=>
              AtNode(ns[i], y, k) /\ ~(SameKey(k, r.key) /\ y.n = r.x.n)
        /\ \E y \in OfNode(ns[i]) : y.n = r.x.n
    <3>1. NodeRemoved(ns[i], r, v)
      BY <1>4, <1>6, <2>2
    <3>. QED
      BY ONLY <2>2, <3>1 DEF NodeRemoved
  <2>4. v \in LoopNode
    BY <2>3 DEF NodeOk
  <2>5. PICK d \in BOOLEAN : d <=> v.handlers = << >> /\ v.bases = << >>
    OBVIOUS
  <2>6. Changed(LoopNode, ns, i, v, d, s1)
    <3>1. s1 = IF d THEN RemoveAt(ns, i) ELSE ReplaceAt(ns, i, v)
      BY <1>5, <2>2, <2>5
    <3>2. i \in 1 .. Len(ns)
      BY <1>1, <2>2
    <3>. QED
      BY ONLY <1>1, <2>4, <2>5, <3>1, <3>2, ChangedIs
  <2>7. PICK m : Origin(ns, i, v, d, s1, m)
    BY ONLY <2>6 DEF Changed
  <2>8. PICK n1 \in Nat : n1 = Len(s1) /\ DOMAIN s1 = 1 .. n1 /\ s1 \in Seq(LoopNode)
    BY ONLY <2>6 DEF Changed
  <2>9. /\ m \in [1 .. n1 -> 1 .. n]
        /\ \A j, k \in 1 .. n1 : j < k => m[j] < m[k]
        /\ \A k \in 1 .. n1 : s1[k] = IF m[k] = i THEN v ELSE ns[m[k]]
        /\ \A j \in 1 .. n : j # i \/ ~d => \E k \in 1 .. n1 : m[k] = j
    BY ONLY <1>1, <2>7, <2>8 DEF Origin
  <2>10. d => \A y, k : ~AtNode(v, y, k)
    <3>1. Range(<< >>) = {} /\ \A y, q : ~AtIds(<< >>, y, q)
      BY DEF Range, AtIds
    <3>. QED
      BY <2>5, <3>1 DEF AtNode
  <2>11. \A k \in 1 .. n1 : /\ m[k] \in 1 .. n /\ NodeOk(s1[k])
                            /\ OfNode(s1[k]) \subseteq OfNode(ns[m[k]])
    BY ONLY <1>6, <2>3, <2>9
  <2>12. ASSUME NEW j \in 1 .. n1, NEW k \in 1 .. n1, j < k
         PROVE  Before(OfNode(s1[j]), OfNode(s1[k]))
    <3>1. m[j] < m[k] /\ m[j] \in 1 .. n /\ m[k] \in 1 .. n
      BY ONLY <2>9, <2>11, <2>12
    <3>2. Before(OfNode(ns[m[j]]), OfNode(ns[m[k]]))
      BY ONLY <1>1, <3>1, ns \in NodeLists DEF NodeLists
    <3>. QED
      BY ONLY <2>11, <3>2, BeforeParts
  <2>13. s1 \in NodeLists
    BY ONLY <2>8, <2>11, <2>12 DEF NodeLists
  <2>14. OfNodes(s1) \subseteq OfNodes(ns)
    <3>1. ASSUME NEW y \in OfNodes(s1) PROVE y \in OfNodes(ns)
      <4>1. PICK k \in 1 .. n1 : y \in OfNode(s1[k])
        BY ONLY <2>8, <3>1 DEF OfNodes
      <4>2. m[k] \in 1 .. n /\ y \in OfNode(ns[m[k]])
        BY ONLY <2>11, <4>1
      <4>. QED
        BY ONLY <1>1, <4>2 DEF OfNodes
    <3>. QED
      BY <3>1
  <2>15. ASSUME NEW j \in 1 .. n, NEW y, NEW k, AtNode(ns[j], y, k), SameKey(k, r.key),
                y.n = r.x.n
         PROVE  j = i
    <3>1. CASE j < i
      <4>1. loop_node_remove_handler(ns[j], r) = ns[j]
        BY <1>2, <2>2, <3>1
      <4>. QED
        BY <1>8, <2>15, <4>1
    <3>2. CASE j > i
      <4>1. PICK z \in OfNode(ns[i]) : z.n = r.x.n
        BY <2>3
      <4>2. y \in OfNode(ns[j])
        BY <1>6, <2>15, AtOfNode
      <4>3. Before(OfNode(ns[i]), OfNode(ns[j]))
        BY ONLY <1>1, <2>2, <3>2, ns \in NodeLists DEF NodeLists
      <4>4. z.n < y.n
        BY ONLY <4>1, <4>2, <4>3 DEF Before
      <4>5. z.n \in Nat
        BY <1>6, <2>2, <4>1, OfNodeNat
      <4>. QED
        BY ONLY <2>15, <4>1, <4>4, <4>5
    <3>. QED
      BY <2>2, <3>1, <3>2
  <2>16. ASSUME NEW y, NEW k
         PROVE  At(s1, y, k) <=> At(ns, y, k) /\ ~(SameKey(k, r.key) /\ y.n = r.x.n)
    <3>1. At(s1, y, k) <=> \E j \in 1 .. n1 : AtNode(s1[j], y, k)
      BY ONLY <2>8 DEF At
    <3>2. ASSUME NEW j \in 1 .. n1, AtNode(s1[j], y, k)
          PROVE  At(ns, y, k) /\ ~(SameKey(k, r.key) /\ y.n = r.x.n)
      <4>1. CASE m[j] = i
        <5>1. s1[j] = v
          BY ONLY <2>9, <4>1
        <5>2. AtNode(ns[i], y, k) /\ ~(SameKey(k, r.key) /\ y.n = r.x.n)
          BY ONLY <2>3, <3>2, <5>1
        <5>. QED
          BY ONLY <1>7, <2>2, <5>2
      <4>2. CASE m[j] # i
        <5>1. s1[j] = ns[m[j]] /\ m[j] \in 1 .. n
          BY ONLY <2>9, <2>11, <4>2
        <5>2. AtNode(ns[m[j]], y, k)
          BY ONLY <3>2, <5>1
        <5>. QED
          BY ONLY <1>7, <2>15, <4>2, <5>1, <5>2
      <4>. QED
        BY <4>1, <4>2
    <3>3. ASSUME NEW j \in 1 .. n, AtNode(ns[j], y, k), ~(SameKey(k, r.key) /\ y.n = r.x.n)
          PROVE  At(s1, y, k)
      <4>1. CASE j # i
        <5>1. PICK q \in 1 .. n1 : m[q] = j
          BY ONLY <2>9, <4>1
        <5>2. s1[q] = ns[j]
          BY ONLY <2>9, <4>1, <5>1
        <5>. QED
          BY ONLY <3>1, <3>3, <5>2
      <4>2. CASE j = i
        <5>1. AtNode(v, y, k)
          BY ONLY <2>3, <3>3, <4>2
        <5>2. ~d
          BY ONLY <2>10, <5>1
        <5>3. PICK q \in 1 .. n1 : m[q] = i
          BY ONLY <2>2, <2>9, <5>2
        <5>4. s1[q] = v
          BY ONLY <2>9, <5>3
        <5>. QED
          BY ONLY <3>1, <5>1, <5>4
      <4>. QED
        BY <4>1, <4>2
    <3>. QED
      BY ONLY <1>7, <3>1, <3>2, <3>3
  <2>17. \E y \in OfNodes(ns) : y.n = r.x.n
    BY ONLY <1>1, <2>2, <2>3 DEF OfNodes
  <2>. QED
    BY ONLY <2>13, <2>14, <2>16, <2>17 DEF NodesRemoved
<1>. QED
  BY <1>9, <1>10

-----------------------------------------------------------------------------
(***************************************************************************)
(* The search for the node to mark.                                        *)
(***************************************************************************)
\* Nothing, or the node of the request.
FoundOk(x, r) == x = NONE \/ x.n = r.x.n

\* Visit finds the node of the request, or keeps what was found before.
LEMMA VisitFinds ==
    ASSUME NEW hs \in HandlerLists, NEW r, r.legacy = FALSE, NEW found, FoundOk(found, r)
    PROVE  FoundOk(Visit(found, hs, r), r)
<1>1. PICK n \in Nat : n = Len(hs) /\ DOMAIN hs = 1 .. n
  BY DEF HandlerLists
<1>2. PICK I : I = {i \in 1 .. n : hs[i].n = r.x.n}
  OBVIOUS
<1>3. PICK i : i = IF I # {} THEN Min(I) ELSE 0
  OBVIOUS
<1>4. SelectInSeq(hs, LAMBDA x : Match(x, r)) = i
  BY <1>1, <1>2, <1>3 DEF SelectInSeq, Match
<1>5. Visit(found, hs, r) = IF i = 0 THEN found ELSE hs[i]
  BY <1>4 DEF Visit
<1>6. CASE I = {}
  BY <1>3, <1>5, <1>6
<1>7. CASE I # {}
  <2>1. i \in I
    BY <1>2, <1>3, <1>7, MinIs
  <2>2. hs[i].n = r.x.n /\ i # 0
    BY <1>2, <2>1
  <2>. QED
    BY <1>5, <2>2 DEF FoundOk
<1>. QED
  BY <1>6, <1>7

\* FindInBase finds the node of the request if it is in the base node.
LEMMA FindInBaseFinds ==
    ASSUME NEW b, BaseOk(b), NEW r, r.legacy = FALSE, NEW found, FoundOk(found, r)
    PROVE  FoundOk(FindInBase(found, b, r), r)
<1>1. PICK hs, ids : hs = b.handlers /\ ids = b.ids /\ hs \in HandlerLists /\ ids \in Seq(IdNode)
  BY DEF BaseOk, BaseNode, IdLists
<1>2. PICK n \in Nat : n = Len(ids) /\ DOMAIN ids = 1 .. n
  BY <1>1
<1>3. PICK I : I = {i \in 1 .. n : ids[i].id = r.key.id}
  OBVIOUS
<1>4. PICK k : k = IF I # {} THEN Min(I) ELSE 0
  OBVIOUS
<1>5. PICK x : x = Visit(found, hs, r)
  OBVIOUS
<1>6. FoundOk(x, r)
  BY <1>1, <1>5, VisitFinds
<1>7. SelectInSeq(ids, LAMBDA q : q.id = r.key.id) = k
  BY <1>2, <1>3, <1>4 DEF SelectInSeq
<1>8. FindInBase(found, b, r) = IF b.base # r.key.base THEN found
        ELSE IF x # NONE \/ k = 0 THEN x ELSE Visit(NONE, ids[k].handlers, r)
  BY <1>1, <1>5, <1>7 DEF FindInBase
<1>9. k # 0 => FoundOk(Visit(NONE, ids[k].handlers, r), r)
  <2>1. SUFFICES ASSUME k # 0 PROVE FoundOk(Visit(NONE, ids[k].handlers, r), r)
    OBVIOUS
  <2>2. k \in I
    BY <1>3, <1>4, <2>1, MinIs
  <2>3. ids[k] \in IdNode
    BY <1>1, <1>2, <1>3, <2>2
  <2>4. ids[k].handlers \in HandlerLists
    BY <2>3 DEF IdNode
  <2>5. FoundOk(NONE, r)
    BY DEF FoundOk
  <2>. QED
    BY <2>4, <2>5, VisitFinds
<1>. QED
  BY <1>6, <1>8, <1>9

\* The walk over the base nodes of a loop node.
BaseStep(bs, r, w, j) ==
    IF w.end \/ bs[j].base # r.key.base THEN w
    ELSE [x |-> FindInBase(w.x, bs[j], r), end |-> Visit(w.x, bs[j].handlers, r) # NONE]
BaseWalk(f, n, bs, r) ==
    f = [j \in 0 .. n |-> IF j = 0 THEN [x |-> NONE, end |-> FALSE]
                          ELSE BaseStep(bs, r, f[j - 1], j)]

\* There is a walk of all base nodes (by a minimal counterexample).
LEMMA BaseWalkExists ==
    ASSUME NEW bs, NEW r, NEW n \in Nat
    PROVE  \E f : BaseWalk(f, n, bs, r)
<1> DEFINE S == {j \in Nat : ~ \E f : BaseWalk(f, j, bs, r)}
<1>1. SUFFICES ASSUME S # {} PROVE FALSE
  OBVIOUS
<1>2. PICK j \in S : \A i \in S : j <= i
  <2>1. S \in SUBSET Nat
    OBVIOUS
  <2> HIDE DEF S
  <2>. QED
    BY <1>1, <2>1, LeastNat
<1>3. PICK z : z = [x |-> NONE, end |-> FALSE]
  OBVIOUS
<1>4. CASE j = 0
  <2> DEFINE g == [i \in 0 .. 0 |-> z]
  <2>1. g = [i \in 0 .. 0 |-> IF i = 0 THEN z ELSE BaseStep(bs, r, g[i - 1], i)]
    OBVIOUS
  <2> HIDE DEF g
  <2>2. BaseWalk(g, 0, bs, r)
    BY <1>3, <2>1 DEF BaseWalk
  <2>. QED
    BY <1>2, <1>4, <2>2
<1>5. CASE j # 0
  <2>1. j - 1 \in Nat /\ j - 1 \notin S
    BY <1>2, <1>5
  <2>2. PICK f : BaseWalk(f, j - 1, bs, r)
    BY <2>1
  <2>3. \A k \in 0 .. j - 1 : f[k] = IF k = 0 THEN z ELSE BaseStep(bs, r, f[k - 1], k)
    BY <1>3, <2>2 DEF BaseWalk
  <2>3b. PICK u : u = BaseStep(bs, r, f[j - 1], j)
    OBVIOUS
  <2> DEFINE g == [k \in 0 .. j |-> IF k < j THEN f[k] ELSE u]
  <2>4. ASSUME NEW k \in 0 .. j PROVE g[k] = IF k = 0 THEN z ELSE BaseStep(bs, r, g[k - 1], k)
    <3>1. CASE k < j
      <4>1. g[k] = f[k] /\ k \in 0 .. j - 1
        BY <3>1, <1>2
      <4>2. k # 0 => g[k - 1] = f[k - 1]
        BY <3>1, <1>2
      <4> HIDE DEF g
      <4>. QED
        BY <2>3, <4>1, <4>2
    <3>2. CASE k = j
      <4>1. g[k] = u
        BY <3>2, <1>2
      <4>2. g[k - 1] = f[j - 1] /\ k # 0
        BY <3>2, <1>2, <1>5
      <4> HIDE DEF g
      <4>. QED
        BY <2>3b, <3>2, <4>1, <4>2
    <3>. QED
      BY <3>1, <3>2, <1>2
  <2>5. g = [k \in 0 .. j |-> g[k]]
    OBVIOUS
  <2> HIDE DEF g
  <2>6. BaseWalk(g, j, bs, r)
    BY <1>3, <2>4, <2>5 DEF BaseWalk
  <2>. QED
    BY <1>2, <2>6
<1>. QED
  BY <1>4, <1>5

\* FindInNode finds the node of the request if it is in the loop node.
LEMMA FindInNodeFinds ==
    ASSUME NEW l, NodeOk(l), NEW r, r.legacy = FALSE, NEW found, FoundOk(found, r)
    PROVE  FoundOk(FindInNode(found, l, r), r)
<1>1. PICK hs, bs : hs = l.handlers /\ bs = l.bases /\ hs \in HandlerLists /\ bs \in BaseLists
  BY DEF NodeOk, LoopNode
<1>2. PICK n \in Nat : n = Len(bs) /\ DOMAIN bs = 1 .. n
  BY <1>1 DEF BaseLists
<1>3. PICK x : x = Visit(found, hs, r)
  OBVIOUS
<1>4. FoundOk(x, r)
  BY <1>1, <1>3, VisitFinds
<1>5. PICK f : f = CHOOSE g : BaseWalk(g, n, bs, r)
  OBVIOUS
<1>6. BaseWalk(f, n, bs, r)
  BY <1>5, BaseWalkExists
<1>7. FindInNode(found, l, r) = IF x # NONE THEN x ELSE f[n].x
  BY <1>1, <1>2, <1>3, <1>5 DEF FindInNode, BaseWalk, BaseStep
<1>8. \A k \in 0 .. n : f[k] = IF k = 0 THEN [x |-> NONE, end |-> FALSE]
                               ELSE BaseStep(bs, r, f[k - 1], k)
  BY <1>6 DEF BaseWalk
<1> DEFINE S == {k \in 0 .. n : ~FoundOk(f[k].x, r)}
<1>9. S = {}
  <2>1. SUFFICES ASSUME S # {} PROVE FALSE
    OBVIOUS
  <2>2. PICK k \in S : \A i \in S : k <= i
    <3>1. S \in SUBSET Nat
      OBVIOUS
    <3> HIDE DEF S
    <3>. QED
      BY <2>1, <3>1, LeastNat
  <2>3. CASE k = 0
    BY <1>8, <2>2, <2>3 DEF FoundOk
  <2>4. CASE k # 0
    <3>1. k \in 1 .. n /\ k - 1 \in 0 .. n /\ k - 1 \notin S
      BY <2>2, <2>4
    <3>2. PICK w : w = f[k - 1]
      OBVIOUS
    <3>3. FoundOk(w.x, r)
      BY <3>1, <3>2
    <3>4. PICK y : y = FindInBase(w.x, bs[k], r)
      OBVIOUS
    <3>5. BaseOk(bs[k])
      BY <1>1, <1>2, <3>1 DEF BaseLists
    <3>6. FoundOk(y, r)
      BY <3>3, <3>4, <3>5, FindInBaseFinds
    <3>7. f[k] = BaseStep(bs, r, w, k)
      BY <1>8, <2>2, <2>4, <3>2
    <3>8. f[k] = w \/ f[k].x = y
      BY <3>4, <3>7 DEF BaseStep
    <3>. QED
      BY <2>2, <3>3, <3>6, <3>8
  <2>. QED
    BY <2>3, <2>4
<1>10. FoundOk(f[n].x, r)
  BY <1>2, <1>9
<1>. QED
  BY <1>4, <1>7, <1>10

\* The walk over the loop nodes.
NodeStep(ns, r, w, i) ==
    IF w.end THEN w
    ELSE [x |-> FindInNode(w.x, ns[i], r), end |-> Visit(w.x, ns[i].handlers, r) # NONE]
NodeWalk(f, n, ns, r) ==
    f = [j \in 0 .. n |-> IF j = 0 THEN [x |-> NONE, end |-> FALSE]
                          ELSE NodeStep(ns, r, f[j - 1], j)]

\* There is a walk of all loop nodes (by a minimal counterexample).
LEMMA NodeWalkExists ==
    ASSUME NEW ns, NEW r, NEW n \in Nat
    PROVE  \E f : NodeWalk(f, n, ns, r)
<1> DEFINE S == {j \in Nat : ~ \E f : NodeWalk(f, j, ns, r)}
<1>1. SUFFICES ASSUME S # {} PROVE FALSE
  OBVIOUS
<1>2. PICK j \in S : \A i \in S : j <= i
  <2>1. S \in SUBSET Nat
    OBVIOUS
  <2> HIDE DEF S
  <2>. QED
    BY <1>1, <2>1, LeastNat
<1>3. PICK z : z = [x |-> NONE, end |-> FALSE]
  OBVIOUS
<1>4. CASE j = 0
  <2> DEFINE g == [i \in 0 .. 0 |-> z]
  <2>1. g = [i \in 0 .. 0 |-> IF i = 0 THEN z ELSE NodeStep(ns, r, g[i - 1], i)]
    OBVIOUS
  <2> HIDE DEF g
  <2>2. NodeWalk(g, 0, ns, r)
    BY <1>3, <2>1 DEF NodeWalk
  <2>. QED
    BY <1>2, <1>4, <2>2
<1>5. CASE j # 0
  <2>1. j - 1 \in Nat /\ j - 1 \notin S
    BY <1>2, <1>5
  <2>2. PICK f : NodeWalk(f, j - 1, ns, r)
    BY <2>1
  <2>3. \A k \in 0 .. j - 1 : f[k] = IF k = 0 THEN z ELSE NodeStep(ns, r, f[k - 1], k)
    BY <1>3, <2>2 DEF NodeWalk
  <2>3b. PICK u : u = NodeStep(ns, r, f[j - 1], j)
    OBVIOUS
  <2> DEFINE g == [k \in 0 .. j |-> IF k < j THEN f[k] ELSE u]
  <2>4. ASSUME NEW k \in 0 .. j PROVE g[k] = IF k = 0 THEN z ELSE NodeStep(ns, r, g[k - 1], k)
    <3>1. CASE k < j
      <4>1. g[k] = f[k] /\ k \in 0 .. j - 1
        BY <3>1, <1>2
      <4>2. k # 0 => g[k - 1] = f[k - 1]
        BY <3>1, <1>2
      <4> HIDE DEF g
      <4>. QED
        BY <2>3, <4>1, <4>2
    <3>2. CASE k = j
      <4>1. g[k] = u
        BY <3>2, <1>2
      <4>2. g[k - 1] = f[j - 1] /\ k # 0
        BY <3>2, <1>2, <1>5
      <4> HIDE DEF g
      <4>. QED
        BY <2>3b, <3>2, <4>1, <4>2
    <3>. QED
      BY <3>1, <3>2, <1>2
  <2>5. g = [k \in 0 .. j |-> g[k]]
    OBVIOUS
  <2> HIDE DEF g
  <2>6. NodeWalk(g, j, ns, r)
    BY <1>3, <2>4, <2>5 DEF NodeWalk
  <2>. QED
    BY <1>2, <2>6
<1>. QED
  BY <1>4, <1>5

\* find_and_unregister_handler marks no other node than that of the request.
LEMMA FindFinds ==
    ASSUME NEW ns \in NodeLists, NEW r, r.legacy = FALSE
    PROVE  FoundOk(Find(ns, r), r)
<1>2. PICK n \in Nat : n = Len(ns) /\ DOMAIN ns = 1 .. n
  BY DEF NodeLists
<1>5. PICK f : f = CHOOSE g : NodeWalk(g, n, ns, r)
  OBVIOUS
<1>6. NodeWalk(f, n, ns, r)
  BY <1>5, NodeWalkExists
<1>7. Find(ns, r) = f[n].x
  BY <1>2, <1>5 DEF Find, NodeWalk, NodeStep
<1>8. \A k \in 0 .. n : f[k] = IF k = 0 THEN [x |-> NONE, end |-> FALSE]
                               ELSE NodeStep(ns, r, f[k - 1], k)
  BY <1>6 DEF NodeWalk
<1> DEFINE S == {k \in 0 .. n : ~FoundOk(f[k].x, r)}
<1>9. S = {}
  <2>1. SUFFICES ASSUME S # {} PROVE FALSE
    OBVIOUS
  <2>2. PICK k \in S : \A i \in S : k <= i
    <3>1. S \in SUBSET Nat
      OBVIOUS
    <3> HIDE DEF S
    <3>. QED
      BY <2>1, <3>1, LeastNat
  <2>3. CASE k = 0
    BY <1>8, <2>2, <2>3 DEF FoundOk
  <2>4. CASE k # 0
    <3>1. k \in 1 .. n /\ k - 1 \in 0 .. n /\ k - 1 \notin S
      BY <2>2, <2>4
    <3>2. PICK w : w = f[k - 1]
      OBVIOUS
    <3>3. FoundOk(w.x, r)
      BY <3>1, <3>2
    <3>4. PICK y : y = FindInNode(w.x, ns[k], r)
      OBVIOUS
    <3>5. NodeOk(ns[k])
      BY <1>2, <3>1 DEF NodeLists
    <3>6. FoundOk(y, r)
      BY <3>3, <3>4, <3>5, FindInNodeFinds
    <3>7. f[k] = NodeStep(ns, r, w, k)
      BY <1>8, <2>2, <2>4, <3>2
    <3>8. f[k] = w \/ f[k].x = y
      BY <3>4, <3>7 DEF NodeStep
    <3>. QED
      BY <2>2, <3>3, <3>6, <3>8
  <2>. QED
    BY <2>3, <2>4
<1>10. FoundOk(f[n].x, r)
  BY <1>2, <1>9
<1>. QED
  BY <1>7, <1>10

-----------------------------------------------------------------------------
(***************************************************************************)
(* The invariant of the specification, for handlers that are registered as *)
(* instances.                                                              *)
(***************************************************************************)
\* What esp_event_post_to and find_and_unregister_handler put into the queue.
Requests == [key : Keys \cup {[base |-> ANY, id |-> ANY]}, x : HandlerNode \cup {NONE},
             legacy : {FALSE}]
Posts == [base : {e.base : e \in Events} \cup {"cleanup"},
          id : {e.id : e \in Events} \cup {"0"}, r : Requests]

\* The address of a node is the number of its registration; an error is remembered.
Reg == [key : Keys, x : HandlerNode, legacy : {FALSE},
        removal : {"none", "asked", "ok", "error"}]
RegsOk ==
    /\ regs \in Seq(Reg)
    /\ \A i \in DOMAIN regs : regs[i].x.n = i /\ (regs[i].removal = "error" => i \in refused)

\* The lists are in order, and hold each node where its key says; the nodes that
\* nobody asked to remove are there, and not marked.
TreeOk ==
    /\ loop_nodes \in NodeLists /\ unregistered \subseteq DOMAIN regs
    /\ \A y, k : At(loop_nodes, y, k) =>
          y.n \in DOMAIN regs /\ regs[y.n].x = y /\ SameKey(k, regs[y.n].key)
    /\ \A i \in DOMAIN regs : regs[i].removal = "none" =>
          At(loop_nodes, regs[i].x, regs[i].key) /\ i \notin unregistered

\* A request names a registration that somebody asked to remove.
RequestOk(r) ==
    /\ r.legacy = FALSE /\ r.x.n \in 0 .. Len(regs)
    /\ r.x.n # 0 => /\ r.x = regs[r.x.n].x /\ r.key = regs[r.x.n].key
                    /\ regs[r.x.n].removal # "none"
PostOk(p) == /\ p \in Posts /\ p.base # ANY /\ p.id # ANY
             /\ p.base = "cleanup" => RequestOk(p.r)

PostsOk ==
    /\ queue \in Seq(Posts) /\ \A i \in DOMAIN queue : PostOk(queue[i])
    /\ run.pc = "lock" => PostOk(run.post)

\* What is still to be executed is marked before its removal is reported as done.
TodoOk(todo) ==
    \A k \in DOMAIN todo : /\ todo[k].n \in DOMAIN regs
                           /\ regs[todo[k].n].removal = "ok" => todo[k].n \in unregistered

Executes == run.pc \in {"dispatch", "handler"}
RunOk ==
    /\ run \in [pc : {"out", "receive", "lock", "dispatch", "handler"},
                post : Posts \cup {NoRequest}, todo : Seq(HandlerNode)]
    /\ run.pc = "handler" => run.todo # << >>
    /\ Executes => mutex = Loop /\ TodoOk(run.todo)

Call == [op : {"none", "find", "cleanup", "look", "send"},
         post : Posts \cup {NoRequest}, wait : BOOLEAN]
Removes(c) == call[c].op \in {"find", "cleanup"}

\* A node is marked before the event is posted that removes it, and not before the
\* walk that finds it, unless an earlier request marked it and had no event.
MarkOk(op, n) ==
    /\ op = "cleanup" => n \in unregistered
    /\ op = "find" /\ n \in unregistered => n \in refused

\* A call that posts has a post; one that removes a handler, the only one that does,
\* posts with the mutex held.
CallOk(c) ==
    /\ call[c].op = "cleanup" => mutex = c
    /\ call[c].op # "none" => PostOk(call[c].post)
    /\ Removes(c) => /\ call[c].post.base = "cleanup" /\ call[c].post.r.x.n # 0
                     /\ regs[call[c].post.r.x.n].removal = "asked"
                     /\ MarkOk(call[c].op, call[c].post.r.x.n)
CallsOk ==
    /\ call \in [Callers -> Call]
    /\ call[Loop] # NoCall => run.pc \in {"handler", "out"}
    /\ \A c \in Callers : CallOk(c)
    /\ \A c, d \in Callers :
          Removes(c) /\ Removes(d) /\ call[c].post.r.x.n = call[d].post.r.x.n => c = d

\* A node that was removed with success and is still in the lists is marked, and
\* its removal is under way or an earlier request for it was refused.
Goes(x) == CleanupUnderWay(x) \/ x.n \in refused
GoesOk ==
    \A i \in DOMAIN regs : \A k :
      regs[i].removal = "ok" /\ At(loop_nodes, regs[i].x, k) =>
        i \in unregistered /\ Goes(regs[i].x)

EventInv == RegsOk /\ TreeOk /\ PostsOk /\ RunOk /\ CallsOk /\ GoesOk

\* What is in the lists is there for some key.
LEMMA InTreeAt ==
    ASSUME loop_nodes \in NodeLists, NEW x, InTree(x)
    PROVE  \E k : At(loop_nodes, x, k)
<1>1. PICK ns : ns = loop_nodes
  OBVIOUS
<1>2. PICK l \in Range(ns) :
          \/ x \in Range(l.handlers)
          \/ \E b \in Range(l.bases) : \/ x \in Range(b.handlers)
                                       \/ \E k \in Range(b.ids) : x \in Range(k.handlers)
  BY <1>1 DEF InTree
<1>3. PICK i \in DOMAIN ns : l = ns[i]
  BY <1>2 DEF Range
<1>4. NodeOk(l)
  BY <1>1, <1>3 DEF NodeLists
<1>5. SUFFICES \E k : AtNode(l, x, k)
  BY <1>1, <1>3 DEF At
<1>6. CASE x \in Range(l.handlers)
  <2> DEFINE k == [base |-> ANY, id |-> ANY]
  <2>1. LoopLevel(k)
    BY DEF LoopLevel
  <2> HIDE DEF k
  <2>2. AtNode(l, x, k)
    BY <1>6, <2>1 DEF AtNode
  <2>. QED
    BY <2>2
<1>7. ASSUME NEW b \in Range(l.bases),
             \/ x \in Range(b.handlers)
             \/ \E k \in Range(b.ids) : x \in Range(k.handlers)
      PROVE  \E k : AtNode(l, x, k)
  <2>1. PICK j \in DOMAIN l.bases : b = l.bases[j]
    BY <1>7 DEF Range
  <2>2. l.bases \in BaseLists
    BY <1>4 DEF NodeOk, LoopNode
  <2>3. BaseOk(b) /\ b.base # ANY
    BY <2>1, <2>2 DEF BaseLists, BaseOk
  <2>4. SUFFICES \E k : k.base = b.base /\ AtBase(b, x, k)
    <3>1. ASSUME NEW k, k.base = b.base, AtBase(b, x, k) PROVE AtNode(l, x, k)
      <4>1. ~LoopLevel(k)
        BY <2>3, <3>1 DEF LoopLevel
      <4>. QED
        BY <2>1, <3>1, <4>1 DEF AtNode
    <3>. QED
      BY <3>1
  <2>5. CASE x \in Range(b.handlers)
    <3> DEFINE k == [base |-> b.base, id |-> ANY]
    <3>1. k.base = b.base /\ k.id = ANY
      OBVIOUS
    <3> HIDE DEF k
    <3>2. AtBase(b, x, k)
      BY <2>5, <3>1 DEF AtBase
    <3>. QED
      BY <3>1, <3>2
  <2>6. ASSUME NEW q \in Range(b.ids), x \in Range(q.handlers)
        PROVE  \E k : k.base = b.base /\ AtBase(b, x, k)
    <3>1. PICK m \in DOMAIN b.ids : q = b.ids[m]
      BY <2>6 DEF Range
    <3>2. b.ids \in IdLists
      BY <2>3 DEF BaseOk, BaseNode
    <3>3. q.id # ANY
      BY <3>1, <3>2 DEF IdLists
    <3> DEFINE k == [base |-> b.base, id |-> q.id]
    <3>4. k.base = b.base /\ k.id = q.id
      OBVIOUS
    <3> HIDE DEF k
    <3>5. AtIds(b.ids, x, k.id)
      BY <2>6, <3>1, <3>4 DEF AtIds
    <3>6. AtBase(b, x, k)
      BY <3>3, <3>4, <3>5 DEF AtBase
    <3>. QED
      BY <3>4, <3>6
  <2>. QED
    BY <1>7, <2>5, <2>6
<1>. QED
  BY <1>2, <1>6, <1>7

\* Later registrations and requests leave what is known of earlier ones.
RegsGrow ==
    /\ refused \subseteq refused'
    /\ Len(regs) \in Nat /\ Len(regs') \in Nat /\ Len(regs) <= Len(regs')
    /\ DOMAIN regs = 1 .. Len(regs) /\ DOMAIN regs' = 1 .. Len(regs')
    /\ \A i \in DOMAIN regs : /\ regs'[i].key = regs[i].key /\ regs'[i].x = regs[i].x
                              /\ regs[i].removal # "none" => regs'[i].removal # "none"

\* An event that may be in the queue stays one.
LEMMA PostStays ==
    ASSUME RegsGrow, NEW p, PostOk(p)
    PROVE  PostOk(p)'
<1>1. ASSUME NEW r, RequestOk(r) PROVE RequestOk(r)'
  <2>1. r.legacy = FALSE /\ r.x.n \in 0 .. Len(regs')
    BY <1>1 DEF RequestOk, RegsGrow
  <2>2. ASSUME r.x.n # 0
        PROVE  /\ r.x = regs'[r.x.n].x /\ r.key = regs'[r.x.n].key
               /\ regs'[r.x.n].removal # "none"
    <3>1. r.x.n \in DOMAIN regs
      BY <1>1, <2>2 DEF RequestOk, RegsGrow
    <3>. QED
      BY <1>1, <2>2, <3>1 DEF RequestOk, RegsGrow
  <2>. QED
    BY <2>1, <2>2 DEF RequestOk
<1>2. p.base = "cleanup" => RequestOk(p.r)'
  BY <1>1 DEF PostOk
<1>. QED
  BY <1>2 DEF PostOk

\* The outcome of a request concerns the registration it names alone.
RegSet(n, result) ==
    /\ regs' \in Seq(Reg) /\ Len(regs') = Len(regs) /\ DOMAIN regs' = DOMAIN regs
    /\ \A i \in DOMAIN regs : regs'[i].key = regs[i].key /\ regs'[i].x = regs[i].x
    /\ \A i \in DOMAIN regs : regs'[i].removal = IF i = n THEN result ELSE regs[i].removal
    /\ refused' = IF result = "error" THEN refused \cup {n} ELSE refused

\* The outcome of a request is written to its registration.
LEMMA OutcomeIs ==
    ASSUME RegsOk, NEW n \in DOMAIN regs, NEW r, r.key = regs[n].key, r.x = regs[n].x,
           r.legacy = FALSE, NEW result \in {"asked", "ok", "error"}, Outcome(r, result)
    PROVE  RegSet(n, result) /\ RegsOk' /\ RegsGrow
<1>1. PICK m \in Nat : m = Len(regs) /\ DOMAIN regs = 1 .. m /\ regs \in Seq(Reg)
  BY DEF RegsOk
<1>2. \A i \in 1 .. m : regs[i].x.n = i
  BY <1>1 DEF RegsOk
<1>3. \A i \in 1 .. m : regs[i] \in Reg
  BY <1>1
<1>4. PICK asked : /\ asked = {i \in 1 .. m : /\ regs[i].key = r.key /\ regs[i].legacy = r.legacy
                                             /\ Match(regs[i].x, r)}
                   /\ regs' = [i \in 1 .. m |-> IF i \in asked
                                THEN [regs[i] EXCEPT !.removal = result] ELSE regs[i]]
                   /\ refused' = IF result = "error" THEN refused \union asked ELSE refused
  BY <1>1 DEF Outcome
<1>5. ASSUME NEW i \in 1 .. m
      PROVE  (regs[i].key = r.key /\ regs[i].legacy = r.legacy /\ Match(regs[i].x, r)) <=> i = n
  <2>1. regs[i].legacy = FALSE
    BY <1>3 DEF Reg
  <2>2. Match(regs[i].x, r) <=> i = n
    BY <1>1, <1>2 DEF Match
  <2>. QED
    BY <2>1, <2>2
<1>12. asked = {n}
  BY <1>1, <1>4, <1>5
<1>6. ASSUME NEW i \in 1 .. m
      PROVE  regs'[i] = IF i = n THEN [regs[i] EXCEPT !.removal = result] ELSE regs[i]
  BY <1>4, <1>12
<1>7. ASSUME NEW i \in 1 .. m
      PROVE  /\ regs'[i] \in Reg /\ regs'[i].key = regs[i].key /\ regs'[i].x = regs[i].x
             /\ regs'[i].removal = IF i = n THEN result ELSE regs[i].removal
  <2>1. PICK o, o1 : o = regs[i] /\ o1 = regs'[i] /\ o \in Reg
    BY <1>3
  <2>2. o1 = IF i = n THEN [o EXCEPT !.removal = result] ELSE o
    BY <1>6, <2>1
  <2>3. o1 \in Reg /\ o1.key = o.key /\ o1.x = o.x
        /\ o1.removal = IF i = n THEN result ELSE o.removal
    BY ONLY <2>1, <2>2, result \in {"asked", "ok", "error"} DEF Reg
  <2>. QED
    BY ONLY <2>1, <2>3
<1>8. regs' \in Seq(Reg) /\ Len(regs') = m /\ DOMAIN regs' = 1 .. m
  <2>1. PICK s : s = regs'
    OBVIOUS
  <2>2. s = [i \in 1 .. m |-> s[i]]
    BY <1>4, <2>1
  <2>3. \A i \in 1 .. m : s[i] \in Reg
    BY <1>7, <2>1
  <2>4. s \in Seq(Reg) /\ Len(s) = m /\ DOMAIN s = 1 .. m
    BY ONLY <1>1, <2>2, <2>3
  <2>. QED
    BY ONLY <2>1, <2>4
<1>9. RegSet(n, result)
  BY <1>1, <1>4, <1>7, <1>8, <1>12 DEF RegSet
<1>10. RegsOk'
  <2>1. \A i \in 1 .. m : regs'[i].removal = "error" => i \in refused'
    BY <1>1, <1>4, <1>7, <1>12 DEF RegsOk
  <2>. QED
    BY <1>2, <1>7, <1>8, <2>1 DEF RegsOk
<1>11. RegsGrow
  BY <1>1, <1>4, <1>7, <1>8 DEF RegsGrow
<1>. QED
  BY <1>9, <1>10, <1>11

\* At first there is nothing.
LEMMA InitInv ==
    ASSUME Init PROVE EventInv
<1>1. regs = << >> /\ loop_nodes = << >> /\ unregistered = {} /\ queue = << >>
  BY DEF Init
<1>2. PICK p \in {"out", "receive"} : run = [pc |-> p, post |-> NoRequest, todo |-> << >>]
  BY DEF Init
<1>3. call = [c \in Callers |-> NoCall] /\ Loop \in Callers
  BY DEF Init, Callers
<1>4. RegsOk
  BY <1>1 DEF RegsOk
<1>5. TreeOk
  <2>1. << >> \in NodeLists
    BY DEF NodeLists
  <2>2. \A y, k : ~At(<< >>, y, k)
    BY DEF At
  <2>. QED
    BY <1>1, <2>1, <2>2 DEF TreeOk
<1>6. run.pc = p /\ run.post = NoRequest /\ run.todo = << >>
  BY ONLY <1>2
<1>7. PostsOk
  BY <1>1, <1>6 DEF PostsOk
<1>8. RunOk
  <2>1. run \in [pc : {"out", "receive", "lock", "dispatch", "handler"},
                 post : Posts \cup {NoRequest}, todo : Seq(HandlerNode)]
    BY ONLY <1>2
  <2>. QED
    BY <1>6, <2>1 DEF RunOk, Executes
<1>9. CallsOk
  <2>1. NoCall \in Call /\ NoCall.op = "none"
    BY DEF NoCall, Call
  <2>2. call \in [Callers -> Call] /\ \A c \in Callers : call[c] = NoCall
    BY ONLY <1>3, <2>1
  <2>. QED
    BY <1>3, <2>1, <2>2 DEF CallsOk, CallOk, Removes
<1>10. GoesOk
  BY <1>1 DEF GoesOk
<1>. QED
  BY <1>4, <1>5, <1>7, <1>8, <1>9, <1>10 DEF EventInv

\* The fields of run.
RunRec == run = [pc |-> run.pc, post |-> run.post, todo |-> run.todo]

\* The record of esp_event_loop_run has its three fields.
LEMMA RunFields ==
    ASSUME RunOk
    PROVE  RunRec /\ run.post \in Posts \cup {NoRequest} /\ run.todo \in Seq(HandlerNode)
  BY DEF RunOk, RunRec

\* A run that begins or ends, or gives up waiting for an event.
LEMMA OutStep ==
    ASSUME EventInv, run_call \/ run_timeout
    PROVE  EventInv'
<1>1. UNCHANGED <<task, loop_nodes, unregistered, queue, mutex, running_task, call, regs, refused, posts>>
  BY DEF run_call, run_timeout
<1>2. PICK p \in {"receive", "out"} : run' = [run EXCEPT !.pc = p]
  BY DEF run_call, run_timeout
<1>3. RunRec /\ run.post \in Posts \cup {NoRequest} /\ run.todo \in Seq(HandlerNode)
  BY RunFields DEF EventInv
<1>4. run' = [pc |-> p, post |-> run.post, todo |-> run.todo]
  BY ONLY <1>2, <1>3 DEF RunRec
<1>5. run'.pc = p
  BY ONLY <1>4
<1>6. RegsOk'
  BY <1>1 DEF EventInv, RegsOk
<1>7. TreeOk'
  BY <1>1 DEF EventInv, TreeOk
<1>8. PostsOk'
  BY <1>1, <1>5 DEF EventInv, PostsOk, PostOk, RequestOk
<1>9. RunOk'
  <2>1. run' \in [pc : {"out", "receive", "lock", "dispatch", "handler"},
                  post : Posts \cup {NoRequest}, todo : Seq(HandlerNode)]
    BY ONLY <1>3, <1>4
  <2>. QED
    BY <1>5, <2>1 DEF RunOk, Executes
<1>10. CallsOk'
  <2>1. call[Loop] = NoCall
    BY DEF EventInv, CallsOk, run_call, run_timeout
  <2>. QED
    BY <1>1, <2>1 DEF EventInv, CallsOk, CallOk, MarkOk, PostOk, RequestOk, Removes
<1>11. GoesOk'
  <2>1. run.pc # "lock"
    BY DEF run_call, run_timeout
  <2>. QED
    BY <1>1, <1>5, <2>1 DEF EventInv, GoesOk, CleanupUnderWay, Goes
<1>. QED
  BY <1>6, <1>7, <1>8, <1>9, <1>10, <1>11 DEF EventInv

\* An event is taken out of the queue.
LEMMA ReceiveStep ==
    ASSUME EventInv, run_receive
    PROVE  EventInv'
<1>1. UNCHANGED <<task, loop_nodes, unregistered, mutex, running_task, call, regs, refused, posts>>
      /\ run.pc = "receive" /\ queue # << >>
  BY DEF run_receive
<1>2. RunRec /\ run.post \in Posts \cup {NoRequest} /\ run.todo \in Seq(HandlerNode)
  BY RunFields DEF EventInv
<1>3. PICK n \in Nat : n = Len(queue) /\ DOMAIN queue = 1 .. n /\ queue \in Seq(Posts)
                       /\ 1 \in 1 .. n
  BY <1>1 DEF EventInv, PostsOk
<1>4. PICK q, p : q = queue' /\ p = queue[1] /\ q = Tail(queue) /\ Head(queue) = p
  BY <1>1, <1>3 DEF run_receive
<1>5. q \in Seq(Posts) /\ DOMAIN q = 1 .. n - 1 /\ \A i \in 1 .. n - 1 : q[i] = queue[i + 1]
  BY ONLY <1>1, <1>3, <1>4
<1>6. p \in Posts /\ PostOk(p)
  BY <1>3, <1>4 DEF EventInv, PostsOk
<1>7. run' = [pc |-> "lock", post |-> p, todo |-> run.todo]
  <2>1. run' = [run EXCEPT !.pc = "lock", !.post = p]
    BY <1>4 DEF run_receive
  <2>. QED
    BY ONLY <1>2, <2>1 DEF RunRec
<1>8. run'.pc = "lock" /\ run'.post = p
  BY ONLY <1>7
<1>9. RegsOk'
  BY <1>1 DEF EventInv, RegsOk
<1>10. TreeOk'
  BY <1>1 DEF EventInv, TreeOk
<1>11. PostsOk'
  <2>1. \A i \in 1 .. n - 1 : i + 1 \in 1 .. n
    OBVIOUS
  <2>2. \A i \in 1 .. n - 1 : PostOk(q[i])
    BY <1>3, <1>5, <2>1 DEF EventInv, PostsOk
  <2>3. \A z : PostOk(z) => PostOk(z)'
    BY <1>1 DEF PostOk, RequestOk
  <2>4. (\A i \in DOMAIN q : PostOk(q[i])') /\ PostOk(p)'
    BY <1>5, <1>6, <2>2, <2>3
  <2>. QED
    BY <1>4, <1>5, <1>8, <2>4 DEF PostsOk, PostOk, RequestOk
<1>12. RunOk'
  <2>1. run' \in [pc : {"out", "receive", "lock", "dispatch", "handler"},
                  post : Posts \cup {NoRequest}, todo : Seq(HandlerNode)]
    BY ONLY <1>2, <1>6, <1>7
  <2>. QED
    BY <1>8, <2>1 DEF RunOk, Executes
<1>13. CallsOk'
  <2>1. call[Loop] = NoCall
    BY <1>1 DEF EventInv, CallsOk
  <2>. QED
    BY <1>1, <2>1 DEF EventInv, CallsOk, CallOk, MarkOk, PostOk, RequestOk, Removes
<1>14. ASSUME NEW x, Goes(x) PROVE Goes(x)'
  <2>1. ASSUME NEW i \in 1 .. n, queue[i].base = "cleanup", queue[i].r.x = x
        PROVE  Goes(x)'
    <3>1. CASE i = 1
      BY <1>4, <1>8, <2>1, <3>1 DEF CleanupUnderWay, Goes
    <3>2. CASE i # 1
      <4>1. i - 1 \in 1 .. n - 1 /\ (i - 1) + 1 = i
        BY <3>2
      <4>2. i - 1 \in DOMAIN q /\ q[i - 1] = queue[i]
        BY <1>5, <4>1
      <4>. QED
        BY <1>4, <2>1, <4>2 DEF CleanupUnderWay, Goes
    <3>. QED
      BY <3>1, <3>2
  <2>. QED
    BY <1>1, <1>3, <1>14, <2>1 DEF CleanupUnderWay, Goes
<1>15. GoesOk'
  BY <1>1, <1>14 DEF EventInv, GoesOk
<1>. QED
  BY <1>9, <1>10, <1>11, <1>12, <1>13, <1>15 DEF EventInv

\* The loop goes through the handlers of an event.
LEMMA ExecuteStep ==
    ASSUME EventInv, handler_execute \/ handler_return
    PROVE  EventInv'
<1>1. UNCHANGED <<task, loop_nodes, unregistered, queue, mutex, running_task, call, regs, refused, posts>>
  BY DEF handler_execute, handler_return
<1>2. run.pc \in {"dispatch", "handler"} /\ run.todo # << >> /\ call[Loop] = NoCall
  BY DEF EventInv, RunOk, CallsOk, handler_execute, handler_return
<1>3. RunRec /\ run.post \in Posts \cup {NoRequest} /\ run.todo \in Seq(HandlerNode)
  BY RunFields DEF EventInv
<1>4. PICK todo, post : todo = run.todo /\ post = run.post
  OBVIOUS
<1>5. Tail(todo) \in Seq(HandlerNode) /\ TodoOk(Tail(todo)) /\ mutex = Loop /\ TodoOk(todo)
  <2>1. TodoOk(todo) /\ mutex = Loop
    BY <1>2, <1>4 DEF EventInv, RunOk, Executes
  <2>2. PICK n \in Nat : n = Len(todo) /\ DOMAIN todo = 1 .. n
    BY <1>3, <1>4
  <2>3. PICK t : t = Tail(todo)
    OBVIOUS
  <2>4. t \in Seq(HandlerNode) /\ DOMAIN t = 1 .. n - 1 /\ \A i \in 1 .. n - 1 : t[i] = todo[i + 1]
    BY ONLY <1>2, <1>3, <1>4, <2>2, <2>3
  <2>5. \A i \in 1 .. n - 1 : i + 1 \in 1 .. n
    BY <2>2
  <2>6. TodoOk(t)
    BY <2>1, <2>2, <2>4, <2>5 DEF TodoOk
  <2>. QED
    BY <2>1, <2>3, <2>4, <2>6
<1>6. PICK p \in {"dispatch", "handler"}, u \in {todo, Tail(todo)} :
          /\ run' = [pc |-> p, post |-> post, todo |-> u]
          /\ p = "handler" => u = todo
  <2>1. \/ run' = [run EXCEPT !.todo = Tail(@)] /\ run.pc = "dispatch"
        \/ run' = [run EXCEPT !.pc = "handler"]
        \/ run' = [run EXCEPT !.pc = "dispatch", !.todo = Tail(@)]
    BY DEF handler_execute, handler_return
  <2>2. \/ run' = [pc |-> "dispatch", post |-> post, todo |-> Tail(todo)]
        \/ run' = [pc |-> "handler", post |-> post, todo |-> todo]
    BY ONLY <1>3, <1>4, <2>1 DEF RunRec
  <2>. QED
    BY <2>2
<1>7. run'.pc = p /\ run'.post = post /\ run'.todo = u
  BY ONLY <1>6
<1>8. RegsOk'
  BY <1>1 DEF EventInv, RegsOk
<1>9. TreeOk'
  BY <1>1 DEF EventInv, TreeOk
<1>10. PostsOk'
  BY <1>1, <1>7 DEF EventInv, PostsOk, PostOk, RequestOk
<1>11. RunOk'
  <2>1. u \in Seq(HandlerNode)
    BY <1>3, <1>4, <1>5
  <2>2. run' \in [pc : {"out", "receive", "lock", "dispatch", "handler"},
                  post : Posts \cup {NoRequest}, todo : Seq(HandlerNode)]
    BY ONLY <1>3, <1>4, <1>6, <2>1
  <2>3. TodoOk(u)
    BY <1>5
  <2>4. TodoOk(u)'
    BY <1>1, <2>3 DEF TodoOk
  <2>5. p = "handler" => u # << >>
    BY <1>2, <1>4, <1>6
  <2>. QED
    BY <1>1, <1>5, <1>7, <2>2, <2>4, <2>5 DEF RunOk, Executes, TodoOk
<1>12. CallsOk'
  BY <1>1, <1>2 DEF EventInv, CallsOk, CallOk, MarkOk, PostOk, RequestOk, Removes
<1>13. GoesOk'
  BY <1>1, <1>2, <1>7 DEF EventInv, GoesOk, CleanupUnderWay, Goes
<1>. QED
  BY <1>8, <1>9, <1>10, <1>11, <1>12, <1>13 DEF EventInv

\* The loop gives the mutex back.
LEMMA UnlockStep ==
    ASSUME EventInv, run_unlock
    PROVE  EventInv'
<1>1. UNCHANGED <<task, loop_nodes, unregistered, queue, call, regs, refused, posts>>
      /\ mutex' = NULL /\ run.pc = "dispatch"
  BY DEF run_unlock
<1>2. RunRec /\ run.post \in Posts \cup {NoRequest} /\ run.todo \in Seq(HandlerNode)
  BY RunFields DEF EventInv
<1>3. PICK p \in {"receive", "out"} : run' = [run EXCEPT !.pc = p, !.post = NoRequest]
  BY DEF run_unlock
<1>4. run' = [pc |-> p, post |-> NoRequest, todo |-> run.todo]
  BY ONLY <1>2, <1>3 DEF RunRec
<1>5. run'.pc = p
  BY ONLY <1>4
<1>6. call[Loop] = NoCall /\ mutex = Loop
  BY <1>1 DEF EventInv, CallsOk, RunOk, Executes
<1>7. \A c \in Callers : call[c].op # "cleanup"
  <2>1. NoCall.op = "none"
    BY DEF NoCall
  <2>2. \A c \in Callers : call[c].op = "cleanup" => c = Loop
    BY <1>6 DEF EventInv, CallsOk, CallOk
  <2>. QED
    BY <1>6, <2>1, <2>2
<1>8. RegsOk'
  BY <1>1 DEF EventInv, RegsOk
<1>9. TreeOk'
  BY <1>1 DEF EventInv, TreeOk
<1>10. PostsOk'
  BY <1>1, <1>5 DEF EventInv, PostsOk, PostOk, RequestOk
<1>11. RunOk'
  <2>1. run' \in [pc : {"out", "receive", "lock", "dispatch", "handler"},
                  post : Posts \cup {NoRequest}, todo : Seq(HandlerNode)]
    BY ONLY <1>2, <1>4
  <2>. QED
    BY <1>5, <2>1 DEF RunOk, Executes
<1>12. CallsOk'
  BY <1>1, <1>6, <1>7 DEF EventInv, CallsOk, CallOk, MarkOk, PostOk, RequestOk, Removes
<1>13. GoesOk'
  BY <1>1, <1>5 DEF EventInv, GoesOk, CleanupUnderWay, Goes
<1>. QED
  BY <1>8, <1>9, <1>10, <1>11, <1>12, <1>13 DEF EventInv

\* A removal takes out the node of the request and no other.
LEMMA RemovalKeeps ==
    ASSUME RegsOk, TreeOk, NEW r, r.legacy = FALSE,
           \A i \in DOMAIN regs : i = r.x.n => r.key = regs[i].key,
           NEW s1, s1 = loop_remove_handler(loop_nodes, r)
    PROVE  /\ s1 \in NodeLists
           /\ \A y, k : At(s1, y, k) => At(loop_nodes, y, k)
           /\ \A i \in DOMAIN regs : i # r.x.n =>
                 \A k : At(loop_nodes, regs[i].x, k) => At(s1, regs[i].x, k)
           /\ \A i \in DOMAIN regs : i = r.x.n => \A k : ~At(s1, regs[i].x, k)
<1>1. PICK ns : ns = loop_nodes /\ ns \in NodeLists
  BY DEF TreeOk
<1>3. NodesRemoved(ns, r, s1)
  BY <1>1, RemoveIs
<1>4. /\ s1 \in NodeLists
      /\ \A y, k : At(s1, y, k) <=> At(ns, y, k) /\ ~(SameKey(k, r.key) /\ y.n = r.x.n)
  BY ONLY <1>3 DEF NodesRemoved
<1>5. ASSUME NEW i \in DOMAIN regs PROVE regs[i].x.n = i /\ i # 0
  BY DEF RegsOk
<1>6. \A i \in DOMAIN regs : i # r.x.n =>
          \A k : At(loop_nodes, regs[i].x, k) => At(s1, regs[i].x, k)
  BY <1>1, <1>4, <1>5
<1>7. ASSUME NEW i \in DOMAIN regs, i = r.x.n, NEW k, At(s1, regs[i].x, k) PROVE FALSE
  <2>1. At(ns, regs[i].x, k) /\ ~SameKey(k, r.key)
    BY <1>4, <1>5, <1>7
  <2>2. SameKey(k, regs[i].key)
    BY <1>1, <1>5, <2>1 DEF TreeOk
  <2>3. r.key = regs[i].key
    BY <1>7
  <2>. QED
    BY <2>1, <2>2, <2>3
<1>. QED
  BY <1>1, <1>4, <1>6, <1>7

\* The loop takes the mutex, does the removal if the event is one, and knows which
\* handlers to execute.
LEMMA LockStep ==
    ASSUME EventInv, run_lock
    PROVE  EventInv'
<1>1. UNCHANGED <<task, unregistered, queue, call, regs, refused, posts>>
      /\ mutex = NULL /\ mutex' = Loop /\ run.pc = "lock"
  BY DEF run_lock
<1>2. RunRec /\ run.post \in Posts \cup {NoRequest} /\ run.todo \in Seq(HandlerNode)
  BY RunFields DEF EventInv
<1>3. PICK post, ns, s1, todo :
        /\ post = run.post /\ ns = loop_nodes /\ s1 = loop_nodes' /\ todo = Plan(s1, post)
        /\ s1 = IF post.base # "cleanup" THEN ns ELSE loop_remove_handler(ns, post.r)
        /\ run' = [run EXCEPT !.pc = "dispatch", !.todo = todo]
  BY DEF run_lock
<1>4. run' = [pc |-> "dispatch", post |-> post, todo |-> todo]
  BY ONLY <1>2, <1>3 DEF RunRec
<1>5. run'.pc = "dispatch" /\ run'.todo = todo
  BY ONLY <1>4
<1>6. PostOk(post)
  BY <1>1, <1>3 DEF EventInv, PostsOk
<1>7. RegsOk /\ TreeOk /\ ns \in NodeLists
  BY <1>3 DEF EventInv, TreeOk
<1>8. /\ s1 \in NodeLists
      /\ \A y, k : At(s1, y, k) => At(ns, y, k)
      /\ \A i \in DOMAIN regs : (post.base # "cleanup" \/ i # post.r.x.n) =>
            \A k : At(ns, regs[i].x, k) => At(s1, regs[i].x, k)
      /\ \A i \in DOMAIN regs : post.base = "cleanup" /\ i = post.r.x.n =>
            \A k : ~At(s1, regs[i].x, k)
  <2>1. CASE post.base # "cleanup"
    BY <1>3, <1>7, <2>1
  <2>2. CASE post.base = "cleanup"
    <3>1. PICK r : r = post.r /\ RequestOk(r) /\ s1 = loop_remove_handler(loop_nodes, r)
      BY <1>3, <1>6, <2>2 DEF PostOk
    <3>1b. r.legacy = FALSE /\ \A i \in DOMAIN regs : i = r.x.n => r.key = regs[i].key
      BY <1>7, <3>1 DEF RequestOk, RegsOk
    <3>2. /\ s1 \in NodeLists
          /\ \A y, k : At(s1, y, k) => At(loop_nodes, y, k)
          /\ \A i \in DOMAIN regs : i # r.x.n =>
                 \A k : At(loop_nodes, regs[i].x, k) => At(s1, regs[i].x, k)
          /\ \A i \in DOMAIN regs : i = r.x.n => \A k : ~At(s1, regs[i].x, k)
      BY ONLY <1>7, <3>1, <3>1b, RemovalKeeps
    <3>. QED
      BY ONLY <1>3, <2>2, <3>1, <3>2
  <2>. QED
    BY <2>1, <2>2
<1>9. RegsOk'
  BY <1>1 DEF EventInv, RegsOk
<1>10. TreeOk'
  <2>1. ASSUME NEW y, NEW k, At(s1, y, k)
        PROVE  y.n \in DOMAIN regs /\ regs[y.n].x = y /\ SameKey(k, regs[y.n].key)
    BY <1>3, <1>7, <1>8, <2>1 DEF TreeOk
  <2>2. ASSUME NEW i \in DOMAIN regs, regs[i].removal = "none"
        PROVE  At(s1, regs[i].x, regs[i].key) /\ i \notin unregistered
    <3>1. At(ns, regs[i].x, regs[i].key) /\ i \notin unregistered
      BY <1>3, <1>7, <2>2 DEF TreeOk
    <3>2. ~(post.base = "cleanup" /\ i = post.r.x.n)
      <4>1. i # 0
        BY <1>7 DEF RegsOk
      <4>. QED
        BY <1>6, <2>2, <4>1 DEF PostOk, RequestOk
    <3>. QED
      BY <1>8, <3>1, <3>2
  <2>. QED
    BY <1>1, <1>3, <1>7, <1>8, <2>1, <2>2 DEF TreeOk
<1>11. PostsOk'
  BY <1>1, <1>5 DEF EventInv, PostsOk, PostOk, RequestOk
<1>12. ASSUME NEW i \in DOMAIN regs, NEW k, regs[i].removal = "ok", At(s1, regs[i].x, k)
       PROVE  i \in unregistered /\ Goes(regs[i].x)'
  <2>1. i \in unregistered /\ Goes(regs[i].x)
    BY <1>3, <1>8, <1>12 DEF EventInv, GoesOk
  <2>2. ~(run.post.base = "cleanup" /\ run.post.r.x = regs[i].x)
    <3>1. regs[i].x.n = i
      BY <1>7 DEF RegsOk
    <3>. QED
      BY <1>3, <1>8, <1>12, <3>1
  <2>3. \/ \E j \in DOMAIN queue : queue[j].base = "cleanup" /\ queue[j].r.x = regs[i].x
        \/ \E c \in Callers : call[c].op = "cleanup" /\ call[c].post.r.x = regs[i].x
        \/ regs[i].x.n \in refused
    BY <2>1, <2>2 DEF CleanupUnderWay, Goes
  <2>. QED
    BY <1>1, <2>1, <2>3 DEF CleanupUnderWay, Goes
<1>13. RunOk'
  <2>1. post.base # ANY /\ post.id # ANY
    BY <1>6 DEF PostOk
  <2>2. /\ todo \in HandlerLists
        /\ \A y \in Range(todo) : \E key : At(s1, y, key) /\ Matches(key, post)
    BY ONLY <1>3, <1>8, <2>1, PlanAt
  <2>3. todo \in Seq(HandlerNode)
    BY <2>2 DEF HandlerLists
  <2>4. ASSUME NEW j \in DOMAIN todo
        PROVE  /\ todo[j].n \in DOMAIN regs
               /\ regs[todo[j].n].removal = "ok" => todo[j].n \in unregistered
    <3>1. PICK key : At(s1, todo[j], key)
      BY <2>2 DEF Range
    <3>2. todo[j].n \in DOMAIN regs /\ regs[todo[j].n].x = todo[j]
      BY <1>3, <1>7, <1>8, <3>1 DEF TreeOk
    <3>. QED
      BY <1>12, <3>1, <3>2
  <2>5. TodoOk(todo)'
    BY <1>1, <2>4 DEF TodoOk
  <2>6. run' \in [pc : {"out", "receive", "lock", "dispatch", "handler"},
                  post : Posts \cup {NoRequest}, todo : Seq(HandlerNode)]
    BY ONLY <1>2, <1>3, <1>4, <2>3
  <2>. QED
    BY <1>1, <1>5, <2>5, <2>6 DEF RunOk, Executes, TodoOk
<1>14. CallsOk'
  <2>1. NULL \notin Callers
    BY EventAssumption DEF Callers, NULL, Loop
  <2>2. \A c \in Callers : call[c].op # "cleanup"
    BY <1>1, <2>1 DEF EventInv, CallsOk, CallOk
  <2>3. call[Loop] = NoCall
    BY <1>1 DEF EventInv, CallsOk
  <2>. QED
    BY <1>1, <2>2, <2>3 DEF EventInv, CallsOk, CallOk, MarkOk, PostOk, RequestOk, Removes
<1>15. GoesOk'
  <2>1. \A i \in DOMAIN regs : \A k : regs[i].removal = "ok" /\ At(s1, regs[i].x, k) =>
            i \in unregistered /\ Goes(regs[i].x)'
    BY <1>12
  <2>. QED
    BY <1>1, <1>3, <2>1 DEF GoesOk, CleanupUnderWay, Goes
<1>. QED
  BY <1>9, <1>10, <1>11, <1>13, <1>14, <1>15 DEF EventInv

\* What is in the lists, seen from above.
LEMMA OfInTree ==
    ASSUME NEW y \in OfNodes(loop_nodes)
    PROVE  InTree(y)
<1>1. PICK i \in DOMAIN loop_nodes : y \in OfNode(loop_nodes[i])
  BY DEF OfNodes
<1>2. PICK l : l = loop_nodes[i] /\ l \in Range(loop_nodes)
  BY DEF Range
<1>3. CASE y \in Range(l.handlers)
  BY <1>2, <1>3 DEF InTree
<1>4. ASSUME NEW j \in DOMAIN l.bases, y \in OfBase(l.bases[j]) PROVE InTree(y)
  <2>1. PICK b : b = l.bases[j] /\ b \in Range(l.bases)
    BY DEF Range
  <2>2. CASE y \in Range(b.handlers)
    BY <1>2, <2>1, <2>2 DEF InTree
  <2>3. ASSUME NEW k \in DOMAIN b.ids, y \in Range(b.ids[k].handlers) PROVE InTree(y)
    <3>1. b.ids[k] \in Range(b.ids)
      BY DEF Range
    <3>. QED
      BY <1>2, <2>1, <2>3, <3>1 DEF InTree
  <2>. QED
    BY <1>4, <2>1, <2>2, <2>3 DEF OfBase, OfIds
<1>. QED
  BY <1>1, <1>2, <1>3, <1>4 DEF OfNode, OfBases

\* A handler is registered.
LEMMA RegisterStep ==
    ASSUME EventInv, NEW c \in Callers, NEW key \in Keys, NEW h \in Handlers,
           register(c, key, h, FALSE)
    PROVE  EventInv'
<1>1. UNCHANGED <<task, unregistered, queue, mutex, running_task, run, call, refused, posts>>
  BY DEF register
<1>2. PICK m \in Nat : m = Len(regs) /\ DOMAIN regs = 1 .. m /\ regs \in Seq(Reg)
  BY DEF EventInv, RegsOk
<1>3. PICK x, new, ns, s1 :
        /\ x = [n |-> m + 1, h |-> h] /\ ns = loop_nodes /\ s1 = loop_nodes'
        /\ new = [key |-> key, x |-> x, legacy |-> FALSE, removal |-> "none"]
        /\ s1 = Register(ns, key, x, FALSE)
        /\ s1 # ns => regs' = Append(regs, new)
  BY <1>2 DEF register
<1>4. x \in HandlerNode /\ x.n = m + 1
  BY <1>3 DEF HandlerNode
<1>5. new \in Reg /\ new.key = key /\ new.x = x /\ new.removal = "none"
  BY ONLY <1>3, <1>4, key \in Keys DEF Reg
<1>6. RegsOk /\ TreeOk /\ ns \in NodeLists
  BY <1>3 DEF EventInv, TreeOk
<1>7. \A i \in 1 .. m : regs[i].x.n = i
  BY <1>2, <1>6 DEF RegsOk
<1>8. \A y, k : At(ns, y, k) => y.n \in 1 .. m /\ regs[y.n].x = y /\ SameKey(k, regs[y.n].key)
  BY <1>2, <1>3, <1>6 DEF TreeOk
<1>9. Before(OfNodes(ns), {x})
  <2>1. ASSUME NEW y \in OfNodes(ns) PROVE y.n < x.n
    <3>1. PICK k : At(ns, y, k)
      BY <1>3, <1>6, OfInTree, InTreeAt
    <3>. QED
      BY <1>4, <1>8, <3>1
  <2>. QED
    BY <2>1 DEF Before
<1>10. /\ s1 \in NodeLists
       /\ \A y, k : At(s1, y, k) <=> At(ns, y, k) \/ (y = x /\ SameKey(k, key))
  <2>1. Registered(ns, key, x, s1)
    BY ONLY <1>3, <1>4, <1>6, <1>9, key \in Keys, RegisterIs
  <2>. QED
    BY ONLY <2>1 DEF Registered
<1>11. At(s1, x, key) /\ s1 # ns
  <2>1. At(s1, x, key)
    BY <1>10 DEF SameKey
  <2>2. ~At(ns, x, key)
    BY <1>4, <1>8
  <2>. QED
    BY <2>1, <2>2
<1>12. PICK g : g = regs' /\ g = Append(regs, new)
  BY <1>3, <1>11
<1>13. /\ g \in Seq(Reg) /\ Len(g) = m + 1 /\ DOMAIN g = 1 .. m + 1 /\ g[m + 1] = new
       /\ \A i \in 1 .. m : g[i] = regs[i]
  BY ONLY <1>2, <1>5, <1>12
<1>14. \A i : i \in 1 .. m + 1 <=> i \in 1 .. m \/ i = m + 1
  BY <1>2
<1>15. RegsOk'
  <2>1. \A i \in 1 .. m : regs[i].removal = "error" => i \in refused'
    BY <1>1, <1>2, <1>6 DEF RegsOk
  <2>. QED
    BY <1>4, <1>5, <1>7, <1>12, <1>13, <1>14, <2>1 DEF RegsOk
<1>16. RegsGrow
  BY <1>1, <1>2, <1>12, <1>13 DEF RegsGrow
<1>17. TreeOk'
  <2>1. ASSUME NEW y, NEW k, At(s1, y, k)
        PROVE  y.n \in 1 .. m + 1 /\ g[y.n].x = y /\ SameKey(k, g[y.n].key)
    <3>1. CASE At(ns, y, k)
      BY <1>8, <1>13, <1>14, <3>1
    <3>2. CASE y = x /\ SameKey(k, key)
      BY <1>4, <1>5, <1>13, <1>14, <3>2
    <3>. QED
      BY <1>10, <2>1, <3>1, <3>2
  <2>2. ASSUME NEW i \in 1 .. m + 1, g[i].removal = "none"
        PROVE  At(s1, g[i].x, g[i].key) /\ i \notin unregistered
    <3>1. CASE i \in 1 .. m
      <4>1. At(ns, regs[i].x, regs[i].key) /\ i \notin unregistered
        BY <1>2, <1>3, <1>6, <1>13, <2>2, <3>1 DEF TreeOk
      <4>. QED
        BY <1>10, <1>13, <3>1, <4>1
    <3>2. CASE i = m + 1
      <4>1. m + 1 \notin unregistered
        BY <1>2, <1>6 DEF TreeOk
      <4>. QED
        BY <1>5, <1>11, <1>13, <3>2, <4>1
    <3>. QED
      BY <1>14, <3>1, <3>2
  <2>3. unregistered \subseteq 1 .. m + 1
    BY <1>2, <1>6, <1>14 DEF TreeOk
  <2>. QED
    BY <1>1, <1>3, <1>10, <1>12, <1>13, <2>1, <2>2, <2>3 DEF TreeOk
<1>18. PostsOk'
  <2>1. \A p : PostOk(p) => PostOk(p)'
    BY <1>16, PostStays
  <2>. QED
    BY <1>1, <2>1 DEF EventInv, PostsOk, PostOk, RequestOk
<1>19. RunOk'
  <2>1. \A todo : TodoOk(todo) => TodoOk(todo)'
    BY <1>1, <1>2, <1>12, <1>13, <1>14 DEF TodoOk
  <2>. QED
    BY <1>1, <2>1 DEF EventInv, RunOk, Executes, TodoOk
<1>20. CallsOk'
  <2>1. \A p : PostOk(p) => PostOk(p)'
    BY <1>16, PostStays
  <2>2. ASSUME NEW d \in Callers, Removes(d)
        PROVE  regs'[call[d].post.r.x.n].removal = regs[call[d].post.r.x.n].removal
    <3>1. call[d].post.r.x.n \in 1 .. m
      <4>1. CallOk(d)
        BY DEF EventInv, CallsOk
      <4>2. RequestOk(call[d].post.r) /\ call[d].post.r.x.n # 0
        BY <2>2, <4>1 DEF CallOk, PostOk, Removes
      <4>. QED
        BY <1>2, <4>2 DEF RequestOk
    <3>. QED
      BY <1>12, <1>13, <3>1
  <2>3. ASSUME NEW d \in Callers PROVE CallOk(d)'
    <3>1. CallOk(d)
      BY DEF EventInv, CallsOk
    <3>2. call[d].op # "none" => PostOk(call[d].post)'
      <4>1. PICK p : p = call[d].post
        OBVIOUS
      <4>2. call[d].op # "none" => PostOk(p)'
        BY <2>1, <3>1, <4>1 DEF CallOk
      <4>. QED
        BY <1>1, <4>1, <4>2 DEF PostOk, RequestOk
    <3>. QED
      BY <1>1, <2>2, <3>1, <3>2 DEF CallOk, MarkOk, Removes, PostOk, RequestOk
  <2>. QED
    BY <1>1, <2>3 DEF EventInv, CallsOk, Removes
<1>21. GoesOk'
  <2>1. ASSUME NEW i \in 1 .. m + 1, NEW k, g[i].removal = "ok", At(s1, g[i].x, k)
        PROVE  i \in unregistered /\ Goes(g[i].x)
    <3>1. i \in 1 .. m
      BY <1>5, <1>13, <1>14, <2>1
    <3>2. g[i] = regs[i] /\ g[i].x # x
      <4>1. g[i] = regs[i] /\ regs[i].x.n = i
        BY <1>7, <1>13, <3>1
      <4>. QED
        BY <1>2, <1>4, <3>1, <4>1
    <3>3. At(ns, regs[i].x, k)
      BY <1>10, <2>1, <3>2
    <3>. QED
      BY <1>2, <1>3, <2>1, <3>1, <3>2, <3>3 DEF EventInv, GoesOk
  <2>2. \A y : Goes(y) => Goes(y)'
    BY <1>1 DEF CleanupUnderWay, Goes
  <2>. QED
    BY <1>1, <1>3, <1>12, <1>13, <2>1, <2>2 DEF GoesOk
<1>. QED
  BY <1>15, <1>17, <1>18, <1>19, <1>20, <1>21 DEF EventInv

\* The registration that a call is to remove.
Aim(c) == call[c].post.r.x.n

\* What is known of the registration that a call removes.
LEMMA AimIs ==
    ASSUME RegsOk, CallsOk, NEW c \in Callers, Removes(c), NEW r, r = call[c].post.r
    PROVE  /\ Aim(c) = r.x.n /\ Aim(c) \in DOMAIN regs /\ Aim(c) \in Nat /\ r.legacy = FALSE
           /\ r.key = regs[Aim(c)].key /\ r.x = regs[Aim(c)].x
           /\ regs[Aim(c)].removal = "asked" /\ PostOk(call[c].post)
           /\ call[c].post.base = "cleanup" /\ call[c].post \in Posts
           /\ MarkOk(call[c].op, Aim(c))
<1>1. CallOk(c) /\ call[c] \in Call
  BY DEF CallsOk
<1>2. /\ call[c].post.base = "cleanup" /\ r.x.n # 0 /\ regs[r.x.n].removal = "asked"
      /\ MarkOk(call[c].op, r.x.n)
  BY <1>1 DEF CallOk
<1>3. PostOk(call[c].post)
  BY <1>1 DEF CallOk, Removes
<1>4. RequestOk(r)
  BY <1>2, <1>3 DEF PostOk
<1>5. r.x.n \in DOMAIN regs /\ r.x.n \in Nat
  BY <1>2, <1>4 DEF RequestOk, RegsOk
<1>6. call[c].post \in Posts
  BY <1>3 DEF PostOk
<1>. QED
  BY <1>2, <1>3, <1>4, <1>5, <1>6 DEF Aim, RequestOk

\* The calls of other tasks are not disturbed by what one task does.
LEMMA CallsKeep ==
    ASSUME RegsOk, CallsOk, RegsGrow, run' = run,
           NEW c \in Callers, NEW v \in Call, call' = [call EXCEPT ![c] = v],
           c = Loop /\ v # NoCall => run.pc \in {"handler", "out"},
           \A d \in Callers : d # c /\ Removes(d) =>
              /\ regs'[Aim(d)].removal = "asked"
              /\ Aim(d) \in unregistered' <=> Aim(d) \in unregistered
              /\ v.op \in {"find", "cleanup"} => Aim(d) # v.post.r.x.n,
           \A d \in Callers : d # c /\ call[d].op = "cleanup" => mutex' = d,
           v.op = "cleanup" => mutex' = c,
           v.op # "none" => PostOk(v.post)',
           v.op \in {"find", "cleanup"} =>
              /\ v.post.base = "cleanup" /\ v.post.r.x.n # 0
              /\ regs'[v.post.r.x.n].removal = "asked"
              /\ MarkOk(v.op, v.post.r.x.n)'
    PROVE  CallsOk'
<1>1. PICK q : q = call' /\ q \in [Callers -> Call] /\ q[c] = v
               /\ \A d \in Callers : d # c => q[d] = call[d]
  BY DEF CallsOk
<1>2. ASSUME NEW d \in Callers PROVE CallOk(d)'
  <2>1. PICK w : w = q[d]
    OBVIOUS
  <2>2. CASE d = c
    <3>1. w = v /\ w = call'[d]
      BY <1>1, <2>1, <2>2
    <3>2. w.op # "none" => PostOk(w.post)'
      BY <3>1
    <3>3. call'[d].op # "none" => PostOk(call[d].post)'
      BY <3>1, <3>2 DEF PostOk, RequestOk
    <3>. QED
      BY <2>2, <3>1, <3>3 DEF CallOk, Removes, MarkOk
  <2>3. CASE d # c
    <3>1. w = call[d] /\ w = call'[d]
      BY <1>1, <2>1, <2>3
    <3>2. CallOk(d)
      BY DEF CallsOk
    <3>3. w.op # "none" => PostOk(w.post)
      BY <3>1, <3>2 DEF CallOk
    <3>4. w.op # "none" => PostOk(w.post)'
      <4>1. PICK p : p = w.post
        OBVIOUS
      <4>2. PostOk(p) => PostOk(p)'
        BY PostStays
      <4>. QED
        BY <3>3, <4>1, <4>2
    <3>5. call'[d].op # "none" => PostOk(call[d].post)'
      BY <3>1, <3>4 DEF PostOk, RequestOk
    <3>6. w.op \in {"find", "cleanup"} =>
            /\ w.post.base = "cleanup" /\ w.post.r.x.n # 0
            /\ regs'[w.post.r.x.n].removal = "asked"
            /\ MarkOk(w.op, w.post.r.x.n)'
      BY <2>3, <3>1, <3>2 DEF CallOk, Removes, Aim, MarkOk, RegsGrow
    <3>. QED
      BY <2>3, <3>1, <3>5, <3>6 DEF CallOk, Removes, MarkOk
  <2>. QED
    BY <2>2, <2>3
<1>3. ASSUME NEW d \in Callers, NEW e \in Callers, q[d].op \in {"find", "cleanup"},
             q[e].op \in {"find", "cleanup"}, q[d].post.r.x.n = q[e].post.r.x.n
      PROVE  d = e
  <2>1. CASE d = c /\ e # c
    BY <1>1, <1>3, <2>1 DEF Removes, Aim
  <2>2. CASE d # c /\ e = c
    BY <1>1, <1>3, <2>2 DEF Removes, Aim
  <2>3. CASE d # c /\ e # c
    BY <1>1, <1>3, <2>3 DEF CallsOk, Removes
  <2>. QED
    BY <2>1, <2>2, <2>3
<1>4. q[Loop] # NoCall => run.pc \in {"handler", "out"}
  <2>1. Loop \in Callers
    BY DEF Callers
  <2>. QED
    BY <1>1, <2>1 DEF CallsOk
<1>. QED
  BY <1>1, <1>2, <1>3, <1>4 DEF CallsOk, Removes

\* Calls that nobody touches stay as they should be.
LEMMA CallsStay ==
    ASSUME RegsOk, CallsOk, RegsGrow, UNCHANGED <<call, run, mutex, unregistered>>,
           \A d \in Callers : Removes(d) => regs'[Aim(d)].removal = "asked"
    PROVE  CallsOk'
<1>1. ASSUME NEW d \in Callers PROVE CallOk(d)'
  <2>1. CallOk(d)
    BY DEF CallsOk
  <2>2. PICK p : p = call[d].post
    OBVIOUS
  <2>3. PostOk(p) => PostOk(p)'
    BY PostStays
  <2>4. call'[d].op # "none" => PostOk(call[d].post)'
    BY <2>1, <2>2, <2>3 DEF CallOk, PostOk, RequestOk
  <2>. QED
    BY <2>1, <2>4 DEF CallOk, Removes, Aim, MarkOk, RegsGrow
<1>. QED
  BY <1>1 DEF CallsOk, Removes

\* The queue, when it only gets longer.
LEMMA PostsKeep ==
    ASSUME PostsOk, RegsGrow, run' = run, NEW p \in Posts, PostOk(p)',
           queue' = queue \/ queue' = Append(queue, p)
    PROVE  /\ PostsOk'
           /\ \A i \in DOMAIN queue : i \in DOMAIN queue' /\ queue'[i] = queue[i]
<1>1. PICK n \in Nat : n = Len(queue) /\ DOMAIN queue = 1 .. n /\ queue \in Seq(Posts)
  BY DEF PostsOk
<1>2. \A z : PostOk(z) => PostOk(z)'
  BY PostStays
<1>3. (\A i \in 1 .. n : PostOk(queue[i])) /\ (run.pc = "lock" => PostOk(run.post))
  BY <1>1 DEF PostsOk
<1>4. PICK s, z : s = queue /\ z = run.post
  OBVIOUS
<1>5. (\A i \in 1 .. n : PostOk(s[i])') /\ (run.pc = "lock" => PostOk(z)')
  <2>1. ASSUME NEW i \in 1 .. n PROVE PostOk(s[i])'
    <3>1. PICK u : u = s[i]
      OBVIOUS
    <3>. QED
      BY <1>2, <1>3, <1>4, <3>1
  <2>. QED
    BY <1>2, <1>3, <1>4, <2>1
<1>6. run'.pc = "lock" => PostOk(run.post)'
  BY <1>4, <1>5 DEF PostOk, RequestOk
<1>7. PICK q : q = queue'
  OBVIOUS
<1>8. CASE q = s
  <2>1. \A i \in DOMAIN q : PostOk(q[i])'
    BY <1>1, <1>4, <1>5, <1>8
  <2>2. queue' = queue
    BY <1>4, <1>7, <1>8
  <2>3. (\A i \in DOMAIN queue : PostOk(queue[i])')
    BY <1>4, <1>7, <2>1, <2>2 DEF PostOk, RequestOk
  <2>. QED
    BY <1>1, <1>6, <2>2, <2>3 DEF PostsOk, PostOk, RequestOk
<1>9. CASE q = Append(s, p)
  <2>1. /\ q \in Seq(Posts) /\ DOMAIN q = 1 .. n + 1 /\ q[n + 1] = p
        /\ \A i \in 1 .. n : q[i] = s[i]
    BY ONLY <1>1, <1>4, <1>9, p \in Posts
  <2>2. \A i : i \in 1 .. n + 1 <=> i \in 1 .. n \/ i = n + 1
    BY <1>1
  <2>3. \A i \in DOMAIN q : PostOk(q[i])'
    BY <1>5, <2>1, <2>2
  <2>. QED
    BY <1>1, <1>4, <1>6, <1>7, <2>1, <2>2, <2>3 DEF PostsOk, PostOk, RequestOk
<1>. QED
  BY <1>4, <1>7, <1>8, <1>9

\* What a changed outcome leaves as it was.
LEMMA OutcomeKeeps ==
    ASSUME RegsOk, TreeOk, NEW n, NEW result, RegSet(n, result), result # "none",
           UNCHANGED <<loop_nodes>>, unregistered \subseteq unregistered',
           unregistered' \subseteq unregistered \cup {n}, n \in DOMAIN regs
    PROVE  TreeOk'
<1>1. \A y, k : At(loop_nodes, y, k) =>
          y.n \in DOMAIN regs' /\ regs'[y.n].x = y /\ SameKey(k, regs'[y.n].key)
  BY DEF TreeOk, RegSet
<1>2. ASSUME NEW i \in DOMAIN regs', regs'[i].removal = "none"
      PROVE  At(loop_nodes, regs'[i].x, regs'[i].key) /\ i \notin unregistered'
  <2>1. i \in DOMAIN regs /\ i # n /\ regs[i].removal = "none"
    BY <1>2 DEF RegSet
  <2>2. At(loop_nodes, regs[i].x, regs[i].key) /\ i \notin unregistered
    BY <2>1 DEF TreeOk
  <2>. QED
    BY <2>1, <2>2 DEF RegSet
<1>. QED
  BY <1>1, <1>2 DEF TreeOk, RegSet

\* A task asks for the removal of a handler.
LEMMA UnregisterStep ==
    ASSUME EventInv, NEW c \in Callers, NEW i \in DOMAIN regs, unregister(c, i)
    PROVE  EventInv'
<1>1. UNCHANGED <<task, unregistered, queue, mutex, running_task, run, posts>>
      /\ call[c] = NoCall /\ (c = Loop => run.pc \in {"handler", "out"})
      /\ regs[i].removal \in {"none", "error"}
  BY DEF unregister, Free
<1>2. RegsOk /\ TreeOk /\ PostsOk /\ RunOk /\ CallsOk /\ GoesOk
  BY DEF EventInv
<1>3. PICK r : r = [key |-> regs[i].key, x |-> regs[i].x, legacy |-> regs[i].legacy]
  OBVIOUS
<1>4. r.key = regs[i].key /\ r.x = regs[i].x /\ r.legacy = FALSE /\ r.x.n = i /\ i \in Nat /\ i # 0
      /\ r \in Requests
  <2>1. regs[i] \in Reg /\ regs[i].x.n = i /\ i \in Nat /\ i # 0
    BY <1>2 DEF RegsOk
  <2>. QED
    BY <1>3, <2>1 DEF Reg, Requests
<1>5. ASSUME NEW d \in Callers, Removes(d)
      PROVE  Aim(d) # i /\ regs[Aim(d)].removal = "asked" /\ Aim(d) \in DOMAIN regs
  <2>1. regs[Aim(d)].removal = "asked" /\ Aim(d) \in DOMAIN regs
    BY <1>2, <1>5, AimIs
  <2>. QED
    BY <1>1, <2>1
<1>6. \A x : RegsGrow /\ Goes(x) =>
              \/ Goes(x)'
              \/ \E d \in Callers : call'[d] # call[d] /\ call[d].op = "cleanup"
  BY <1>1 DEF CleanupUnderWay, Goes, RegsGrow
<1>7. CASE mutex = NULL
  <2>0. PICK s1 : s1 = loop_nodes' /\ s1 = loop_remove_handler(loop_nodes, r)
    BY <1>3, <1>7 DEF unregister
  <2>1. PICK result \in {"ok", "error"} :
          /\ s1 = loop_nodes' /\ s1 = loop_remove_handler(loop_nodes, r)
          /\ Outcome(r, result) /\ call' = call
    <3>1. PICK result : result = IF loop_nodes' = loop_nodes THEN "error" ELSE "ok"
      OBVIOUS
    <3>2. Outcome(r, result) /\ call' = call
      BY <1>3, <1>7, <3>1 DEF unregister
    <3>3. result \in {"ok", "error"}
      BY <3>1
    <3>. QED
      BY <2>0, <3>2, <3>3
  <2>2. RegSet(i, result) /\ RegsOk' /\ RegsGrow
    BY <1>2, <1>4, <2>1, OutcomeIs
  <2>3. \A j \in DOMAIN regs : j = r.x.n => r.key = regs[j].key
    BY <1>4
  <2>4. /\ s1 \in NodeLists
        /\ \A y, k : At(s1, y, k) => At(loop_nodes, y, k)
        /\ \A j \in DOMAIN regs : j # r.x.n =>
              \A k : At(loop_nodes, regs[j].x, k) => At(s1, regs[j].x, k)
        /\ \A j \in DOMAIN regs : j = r.x.n => \A k : ~At(s1, regs[j].x, k)
    BY ONLY <1>2, <1>4, <2>1, <2>3, RemovalKeeps
  <2>5. TreeOk'
    <3>1. \A y, k : At(s1, y, k) =>
              y.n \in DOMAIN regs' /\ regs'[y.n].x = y /\ SameKey(k, regs'[y.n].key)
      BY <1>2, <2>2, <2>4 DEF TreeOk, RegSet
    <3>2. ASSUME NEW j \in DOMAIN regs', regs'[j].removal = "none"
          PROVE  At(s1, regs'[j].x, regs'[j].key) /\ j \notin unregistered
      <4>1. j \in DOMAIN regs /\ j # i /\ regs[j].removal = "none"
        BY <2>1, <2>2, <3>2 DEF RegSet
      <4>2. At(loop_nodes, regs[j].x, regs[j].key) /\ j \notin unregistered
        BY <1>2, <4>1 DEF TreeOk
      <4>. QED
        BY <1>4, <2>2, <2>4, <4>1, <4>2 DEF RegSet
    <3>. QED
      BY <1>1, <1>2, <2>1, <2>2, <2>4, <3>1, <3>2 DEF TreeOk, RegSet
  <2>6. PostsOk'
    <3>1. \A p : PostOk(p) => PostOk(p)'
      BY <2>2, PostStays
    <3>. QED
      BY <1>1, <1>2, <3>1 DEF PostsOk, PostOk, RequestOk
  <2>7. RunOk'
    <3>1. ~Executes
      BY <1>2, <1>7 DEF RunOk, NULL, Loop
    <3>. QED
      BY <1>1, <1>2, <3>1 DEF RunOk, Executes
  <2>8. CallsOk'
    <3>1. \A d \in Callers : Removes(d) => regs'[Aim(d)].removal = "asked"
      BY <1>5, <2>2 DEF RegSet
    <3>. QED
      BY <1>1, <1>2, <2>1, <2>2, <3>1, CallsStay
  <2>9. GoesOk'
    <3>1. ASSUME NEW j \in DOMAIN regs', NEW k, regs'[j].removal = "ok", At(s1, regs'[j].x, k)
          PROVE  j \in unregistered /\ Goes(regs[j].x)'
      <4>1. j \in DOMAIN regs /\ j # i /\ regs[j].removal = "ok" /\ regs'[j].x = regs[j].x
        BY <1>4, <2>2, <2>4, <3>1 DEF RegSet
      <4>2. At(loop_nodes, regs[j].x, k)
        BY <2>4, <3>1, <4>1
      <4>3. j \in unregistered /\ Goes(regs[j].x)
        BY <1>2, <4>1, <4>2 DEF GoesOk
      <4>4. PICK y : y = regs[j].x
        OBVIOUS
      <4>5. Goes(y)'
        BY <1>6, <2>1, <2>2, <4>3, <4>4
      <4>6. Goes(regs[j].x)'
        BY <4>1, <4>4, <4>5 DEF CleanupUnderWay, Goes
      <4>. QED
        BY <4>3, <4>6
    <3>. QED
      BY <1>1, <2>1, <3>1 DEF GoesOk, CleanupUnderWay, Goes
  <2>. QED
    BY <2>2, <2>5, <2>6, <2>7, <2>8, <2>9 DEF EventInv
<1>8. CASE mutex # NULL
  <2>1. PICK p, v : /\ p = Cleanup(r) /\ v = [op |-> "find", post |-> p, wait |-> FALSE]
                    /\ call' = [call EXCEPT ![c] = v] /\ Outcome(r, "asked")
                    /\ loop_nodes' = loop_nodes
    BY <1>3, <1>8 DEF unregister
  <2>2. RegSet(i, "asked") /\ RegsOk' /\ RegsGrow
    BY <1>2, <1>4, <2>1, OutcomeIs
  <2>3. p.base = "cleanup" /\ p.id = "0" /\ p.r = r /\ p \in Posts
    BY <1>4, <2>1 DEF Cleanup, Posts
  <2>4. v.op = "find" /\ v.post = p /\ v \in Call
    BY <2>1, <2>3 DEF Call
  <2>5. RequestOk(r)'
    BY <1>2, <1>4, <2>2 DEF RequestOk, RegSet, RegsOk
  <2>6. PostOk(p)'
    BY <2>3, <2>5 DEF PostOk, ANY, RequestOk
  <2>7. TreeOk'
    <3>1. unregistered \subseteq unregistered' /\ unregistered' \subseteq unregistered \cup {i}
      BY <1>1
    <3>. QED
      BY <1>2, <2>1, <2>2, <3>1, OutcomeKeeps
  <2>8. PostsOk'
    <3>1. \A z : PostOk(z) => PostOk(z)'
      BY <2>2, PostStays
    <3>. QED
      BY <1>1, <1>2, <3>1 DEF PostsOk, PostOk, RequestOk
  <2>9. RunOk'
    <3>1. \A todo : TodoOk(todo) => TodoOk(todo)'
      BY <1>1, <2>2 DEF TodoOk, RegSet
    <3>. QED
      BY <1>1, <1>2, <3>1 DEF RunOk, Executes, TodoOk
  <2>10. CallsOk'
    <3>1. i \in unregistered => i \in refused'
      BY <1>1, <1>2, <2>2 DEF TreeOk, RegsOk, RegsGrow
    <3>2. \A d \in Callers : d # c /\ Removes(d) =>
              /\ regs'[Aim(d)].removal = "asked"
              /\ Aim(d) \in unregistered' <=> Aim(d) \in unregistered
              /\ v.op \in {"find", "cleanup"} => Aim(d) # v.post.r.x.n
      BY <1>1, <1>4, <1>5, <2>2, <2>3, <2>4 DEF RegSet
    <3>3. \A d \in Callers : d # c /\ call[d].op = "cleanup" => mutex' = d
      BY <1>1, <1>2 DEF CallsOk, CallOk
    <3>4. v.op \in {"find", "cleanup"} =>
              /\ v.post.base = "cleanup" /\ v.post.r.x.n # 0
              /\ regs'[v.post.r.x.n].removal = "asked"
              /\ MarkOk(v.op, v.post.r.x.n)'
      BY <1>1, <1>4, <2>2, <2>3, <2>4, <3>1 DEF RegSet, MarkOk
    <3>5. /\ run' = run /\ (c = Loop /\ v # NoCall => run.pc \in {"handler", "out"})
          /\ (v.op = "cleanup" => mutex' = c)
      BY <1>1, <2>4
    <3>6. v.op # "none" => PostOk(v.post)'
      BY <2>4, <2>6
    <3>. QED
      BY ONLY <1>2, <2>1, <2>2, <2>4, <3>2, <3>3, <3>4, <3>5, <3>6, c \in Callers, CallsKeep
  <2>11. GoesOk'
    <3>0. \A d \in Callers : call'[d] # call[d] => call[d].op # "cleanup"
      <4>1. NoCall.op = "none"
        BY DEF NoCall
      <4>. QED
        BY <1>1, <1>2, <2>1, <4>1 DEF CallsOk
    <3>1. ASSUME NEW j \in DOMAIN regs', NEW k, regs'[j].removal = "ok",
                 At(loop_nodes, regs'[j].x, k)
          PROVE  j \in unregistered /\ Goes(regs[j].x)'
      <4>1. j \in DOMAIN regs /\ regs[j].removal = "ok" /\ regs'[j].x = regs[j].x
        BY <2>2, <3>1 DEF RegSet
      <4>3. j \in unregistered /\ Goes(regs[j].x)
        BY <1>2, <3>1, <4>1 DEF GoesOk
      <4>4. PICK y : y = regs[j].x
        OBVIOUS
      <4>5. Goes(y)'
        BY <1>6, <2>2, <3>0, <4>3, <4>4
      <4>6. Goes(regs[j].x)'
        BY <4>1, <4>4, <4>5 DEF CleanupUnderWay, Goes
      <4>. QED
        BY <4>3, <4>6
    <3>. QED
      BY <1>1, <2>1, <3>1 DEF GoesOk, CleanupUnderWay, Goes
  <2>. QED
    BY <2>2, <2>7, <2>8, <2>9, <2>10, <2>11 DEF EventInv
<1>. QED
  BY <1>7, <1>8

\* The record of a task that is in no call.
LEMMA NoCallIs ==
    NoCall \in Call /\ NoCall.op = "none"
  BY DEF NoCall, Call

\* The mark, or the end of a call that finds nothing.
LEMMA FindStep ==
    ASSUME EventInv, NEW c \in Callers, find_and_unregister_handler(c)
    PROVE  EventInv'
<1>1. UNCHANGED <<task, loop_nodes, queue, running_task, run, posts>>
      /\ call[c].op = "find" /\ mutex \in {NULL, c}
  BY DEF find_and_unregister_handler, MayLock
<1>2. RegsOk /\ TreeOk /\ PostsOk /\ RunOk /\ CallsOk /\ GoesOk
  BY DEF EventInv
<1>3. PICK r, x, n : r = call[c].post.r /\ x = Find(loop_nodes, r) /\ n = Aim(c)
  OBVIOUS
<1>4. Removes(c)
  BY <1>1 DEF Removes
<1>5. /\ n = r.x.n /\ n \in DOMAIN regs /\ n \in Nat /\ r.legacy = FALSE
      /\ r.key = regs[n].key /\ r.x = regs[n].x
      /\ regs[n].removal = "asked" /\ PostOk(call[c].post)
      /\ call[c].post.base = "cleanup" /\ call[c].post \in Posts
      /\ MarkOk(call[c].op, n)
  BY <1>2, <1>3, <1>4, AimIs
<1>6. (n \in unregistered => n \in refused) /\ n # 0
  BY <1>1, <1>2, <1>5 DEF RegsOk, MarkOk
<1>7. FoundOk(x, r)
  BY <1>2, <1>3, <1>5, FindFinds DEF TreeOk
<1>8. ASSUME NEW d \in Callers, d # c, Removes(d)
      PROVE  Aim(d) # n /\ regs[Aim(d)].removal = "asked" /\ Aim(d) \in DOMAIN regs
  <2>1. regs[Aim(d)].removal = "asked" /\ Aim(d) \in DOMAIN regs
    BY <1>2, <1>8, AimIs
  <2>2. Aim(d) # n
    BY <1>2, <1>3, <1>4, <1>8 DEF CallsOk, Aim
  <2>. QED
    BY <2>1, <2>2
<1>9. c = Loop => run.pc \in {"handler", "out"}
  <2>1. NoCall.op = "none"
    BY DEF NoCall
  <2>. QED
    BY <1>1, <1>2, <2>1 DEF CallsOk
<1>10. PICK w : w = call[c] /\ w \in Call
  BY <1>2 DEF CallsOk
<1>11. CASE x = NONE \/ x.n \in unregistered
  <2>0. PICK result \in {"error", "ok"} : result = IF x = NONE THEN "error" ELSE "ok"
    OBVIOUS
  <2>1. Outcome(r, result) /\ call' = [call EXCEPT ![c] = NoCall]
        /\ unregistered' = unregistered /\ mutex' = mutex
    BY <1>3, <1>11, <2>0 DEF find_and_unregister_handler, Return
  <2>10. result = "ok" => n \in unregistered /\ n \in refused
    BY <1>5, <1>6, <1>7, <1>11, <2>0 DEF FoundOk
  <2>2. RegSet(n, result) /\ RegsOk' /\ RegsGrow
    BY <1>2, <1>5, <2>1, OutcomeIs
  <2>3. TreeOk'
    <3>1. unregistered \subseteq unregistered' /\ unregistered' \subseteq unregistered \cup {n}
      BY <2>1
    <3>. QED
      BY <1>1, <1>2, <1>5, <2>2, <3>1, OutcomeKeeps
  <2>4. PostsOk'
    <3>1. \A z : PostOk(z) => PostOk(z)'
      BY <2>2, PostStays
    <3>. QED
      BY <1>1, <1>2, <3>1 DEF PostsOk, PostOk, RequestOk
  <2>5. RunOk'
    <3>1. \A todo : TodoOk(todo) => TodoOk(todo)'
      BY <2>1, <2>2, <2>10 DEF TodoOk, RegSet
    <3>. QED
      BY <1>1, <1>2, <2>1, <3>1 DEF RunOk, Executes, TodoOk
  <2>6. CallsOk'
    <3>1. PICK v : v = NoCall /\ v.op = "none" /\ v \in Call
      BY NoCallIs
    <3>2. \A d \in Callers : d # c /\ Removes(d) =>
              /\ regs'[Aim(d)].removal = "asked"
              /\ Aim(d) \in unregistered' <=> Aim(d) \in unregistered
              /\ v.op \in {"find", "cleanup"} => Aim(d) # v.post.r.x.n
      BY <1>8, <2>1, <2>2, <3>1 DEF RegSet
    <3>3. \A d \in Callers : d # c /\ call[d].op = "cleanup" => mutex' = d
      BY <1>2, <2>1 DEF CallsOk, CallOk
    <3>4. /\ run' = run /\ (c = Loop /\ v # NoCall => run.pc \in {"handler", "out"})
          /\ v.op # "cleanup" /\ v.op = "none" /\ v.op \notin {"find", "cleanup"}
          /\ call' = [call EXCEPT ![c] = v]
      BY <1>1, <2>1, <3>1
    <3>. QED
      BY ONLY <1>2, <2>2, <3>1, <3>2, <3>3, <3>4, c \in Callers, CallsKeep
  <2>7. GoesOk'
    <3>1. \A d \in Callers : d # c => call'[d] = call[d]
      BY <1>2, <2>1 DEF CallsOk
    <3>2. \A y : Goes(y) => Goes(y)'
      BY <1>1, <2>2, <3>1 DEF CleanupUnderWay, Goes, RegsGrow
    <3>3. ASSUME NEW j \in DOMAIN regs', NEW k, regs'[j].removal = "ok",
                 At(loop_nodes, regs'[j].x, k)
          PROVE  j \in unregistered /\ Goes(regs[j].x)'
      <4>1. j \in DOMAIN regs /\ regs'[j].x = regs[j].x /\ regs[j].x.n = j
        BY <1>2, <2>2, <3>3 DEF RegSet, RegsOk
      <4>2. PICK y : y = regs[j].x
        OBVIOUS
      <4>3. j \in unregistered /\ Goes(y)'
        <5>1. CASE j = n
          <6>1. result = "ok"
            BY <2>2, <3>3, <4>1, <5>1 DEF RegSet
          <6>. QED
            BY <2>2, <2>10, <4>1, <4>2, <5>1, <6>1 DEF Goes, RegsGrow
        <5>2. CASE j # n
          <6>1. regs[j].removal = "ok"
            BY <2>2, <3>3, <4>1, <5>2 DEF RegSet
          <6>. QED
            BY <1>2, <3>2, <3>3, <4>1, <4>2, <6>1 DEF GoesOk
        <5>. QED
          BY <5>1, <5>2
      <4>. QED
        BY <4>1, <4>2, <4>3 DEF CleanupUnderWay, Goes
    <3>. QED
      BY <1>1, <2>1, <3>3 DEF GoesOk, CleanupUnderWay, Goes
  <2>. QED
    BY <2>2, <2>3, <2>4, <2>5, <2>6, <2>7 DEF EventInv
<1>12. CASE x # NONE /\ x.n \notin unregistered
  <2>1. x.n = n /\ x.n \notin unregistered
    BY <1>5, <1>6, <1>7, <1>12 DEF FoundOk
  <2>2. PICK z \in BOOLEAN :
          /\ unregistered' = unregistered \cup {n} /\ mutex' = c /\ regs' = regs
          /\ refused' = refused
          /\ call' = [call EXCEPT ![c].op = "cleanup", ![c].wait = z]
    BY <1>3, <1>12, <2>1 DEF find_and_unregister_handler
  <2>3. PICK v : v = [op |-> "cleanup", post |-> w.post, wait |-> z]
    OBVIOUS
  <2>4. v.op = "cleanup" /\ v.post = w.post /\ v \in Call
    BY <1>10, <2>3 DEF Call
  <2>5. call' = [call EXCEPT ![c] = v]
    <3>1. PICK o, q, t : w = [op |-> o, post |-> q, wait |-> t] /\ q = w.post
      BY <1>10 DEF Call
    <3>2. [[w EXCEPT !.op = "cleanup"] EXCEPT !.wait = z] = v
      <4>1. PICK u : u = [w EXCEPT !.op = "cleanup"]
        OBVIOUS
      <4>2. u = [op |-> "cleanup", post |-> q, wait |-> t]
        BY ONLY <3>1, <4>1
      <4>3. PICK zz : zz = z
        OBVIOUS
      <4>4. [u EXCEPT !.wait = zz] = [op |-> "cleanup", post |-> q, wait |-> zz]
        BY ONLY <4>2
      <4>. QED
        BY ONLY <2>3, <3>1, <4>1, <4>3, <4>4
    <3>3. call \in [Callers -> Call]
      BY <1>2 DEF CallsOk
    <3>4. [[call EXCEPT ![c].op = "cleanup"] EXCEPT ![c].wait = z]
            = [call EXCEPT ![c] = [[w EXCEPT !.op = "cleanup"] EXCEPT !.wait = z]]
      BY ONLY <1>10, <3>3, c \in Callers
    <3>5. call' = [[call EXCEPT ![c].op = "cleanup"] EXCEPT ![c].wait = z]
      BY <2>2
    <3>. QED
      BY ONLY <3>2, <3>4, <3>5
  <2>6. RegsOk' /\ RegsGrow
    BY <1>2, <2>2 DEF RegsOk, RegsGrow
  <2>7. TreeOk'
    <3>1. ASSUME NEW i \in DOMAIN regs, regs[i].removal = "none" PROVE i # n
      BY <1>5, <3>1
    <3>. QED
      BY <1>1, <1>2, <1>5, <2>2, <3>1 DEF TreeOk
  <2>8. PostsOk'
    BY <1>1, <1>2, <2>2 DEF PostsOk, PostOk, RequestOk
  <2>9. RunOk'
    <3>1. Executes => mutex' = Loop
      BY <1>1, <1>2, <2>2 DEF RunOk, NULL, Loop
    <3>2. \A todo : TodoOk(todo) => TodoOk(todo)'
      BY <2>2 DEF TodoOk
    <3>. QED
      BY <1>1, <1>2, <3>1, <3>2 DEF RunOk, Executes, TodoOk
  <2>10. CallsOk'
    <3>1. NULL \notin Callers
      BY EventAssumption DEF Callers, NULL, Loop
    <3>2. \A d \in Callers : call[d].op # "cleanup"
      <4>1. \A d \in Callers : call[d].op = "cleanup" => d = c
        BY <1>1, <1>2, <3>1 DEF CallsOk, CallOk
      <4>. QED
        BY <1>1, <4>1
    <3>3. v.post.r.x.n = n
      BY <1>3, <1>5, <1>10, <2>4
    <3>4. \A d \in Callers : d # c /\ Removes(d) =>
              /\ regs'[Aim(d)].removal = "asked"
              /\ Aim(d) \in unregistered' <=> Aim(d) \in unregistered
              /\ v.op \in {"find", "cleanup"} => Aim(d) # v.post.r.x.n
      BY <1>8, <2>2, <3>3
    <3>5. v.op \in {"find", "cleanup"} =>
              /\ v.post.base = "cleanup" /\ v.post.r.x.n # 0
              /\ regs'[v.post.r.x.n].removal = "asked"
              /\ MarkOk(v.op, v.post.r.x.n)'
      BY <1>5, <1>6, <1>10, <2>2, <2>4, <3>3 DEF MarkOk
    <3>6. /\ run' = run /\ (c = Loop /\ v # NoCall => run.pc \in {"handler", "out"})
          /\ mutex' = c
      BY <1>1, <1>9, <2>2
    <3>7. PostOk(v.post)'
      <4>1. PICK p : p = v.post /\ PostOk(p)
        BY <1>5, <1>10, <2>4
      <4>2. PostOk(p)'
        BY <2>6, <4>1, PostStays
      <4>. QED
        BY <4>1, <4>2
    <3>8. \A d \in Callers : d # c /\ call[d].op = "cleanup" => mutex' = d
      BY <3>2
    <3>. QED
      BY ONLY <1>2, <2>4, <2>5, <2>6, <3>4, <3>5, <3>6, <3>7, <3>8, c \in Callers, CallsKeep
  <2>11. GoesOk'
    <3>1. \A d \in Callers : d # c => call'[d] = call[d]
      BY <1>2, <2>5 DEF CallsOk
    <3>2. \A y : Goes(y) => Goes(y)'
      BY <1>1, <2>2, <3>1 DEF CleanupUnderWay, Goes
    <3>3. ASSUME NEW j \in DOMAIN regs, NEW k, regs[j].removal = "ok",
                 At(loop_nodes, regs[j].x, k)
          PROVE  j \in unregistered' /\ Goes(regs[j].x)'
      <4>2. PICK y : y = regs[j].x
        OBVIOUS
      <4>3. j \in unregistered /\ Goes(y)'
        BY <1>2, <3>2, <3>3, <4>2 DEF GoesOk
      <4>. QED
        BY <2>2, <4>2, <4>3 DEF CleanupUnderWay, Goes
    <3>. QED
      BY <1>1, <2>2, <3>3 DEF GoesOk, CleanupUnderWay, Goes
  <2>. QED
    BY <2>6, <2>7, <2>8, <2>9, <2>10, <2>11 DEF EventInv
<1>. QED
  BY <1>11, <1>12

\* The event that will remove the node is posted, or there is no room for it.
LEMMA CleanupStep ==
    ASSUME EventInv, NEW c \in Callers, post_cleanup(c)
    PROVE  EventInv'
<1>1. UNCHANGED <<task, loop_nodes, unregistered, running_task, run, posts>>
      /\ call[c].op = "cleanup" /\ call' = [call EXCEPT ![c] = NoCall]
      /\ mutex' = Unlocked(c)
  BY DEF post_cleanup, Return
<1>2. RegsOk /\ TreeOk /\ PostsOk /\ RunOk /\ CallsOk /\ GoesOk
  BY DEF EventInv
<1>3. PICK r, p, n : p = call[c].post /\ r = p.r /\ n = Aim(c)
  OBVIOUS
<1>4. Removes(c)
  BY <1>1 DEF Removes
<1>5. /\ n = r.x.n /\ n \in DOMAIN regs /\ n \in Nat /\ r.legacy = FALSE
      /\ r.key = regs[n].key /\ r.x = regs[n].x
      /\ regs[n].removal = "asked" /\ PostOk(p) /\ p.base = "cleanup" /\ p \in Posts
      /\ n \in unregistered
  BY <1>1, <1>2, <1>3, <1>4, AimIs DEF MarkOk
<1>6. PICK result \in {"ok", "error"} :
        /\ Outcome(r, result)
        /\ queue' = queue \/ queue' = Append(queue, p)
        /\ result = "ok" => queue' = Append(queue, p)
  <2>1. CASE Room
    BY <1>3, <2>1 DEF post_cleanup
  <2>2. CASE ~Room
    BY <1>3, <2>2 DEF post_cleanup
  <2>. QED
    BY <2>1, <2>2
<1>7. RegSet(n, result) /\ RegsOk' /\ RegsGrow
  BY <1>2, <1>5, <1>6, OutcomeIs
<1>8. mutex = c
  BY <1>1, <1>2 DEF CallsOk, CallOk
<1>9. c = Loop => run.pc \in {"handler", "out"}
  <2>1. NoCall.op = "none"
    BY DEF NoCall
  <2>. QED
    BY <1>1, <1>2, <2>1 DEF CallsOk
<1>10. Executes => mutex' = Loop
  BY <1>1, <1>2, <1>8, <1>9 DEF RunOk, Executes, Unlocked, InHandler
<1>11. TreeOk'
  <2>1. unregistered \subseteq unregistered' /\ unregistered' \subseteq unregistered \cup {n}
    BY <1>1
  <2>2. result # "none"
    BY <1>6
  <2>. QED
    BY <1>1, <1>2, <1>5, <1>7, <2>1, <2>2, OutcomeKeeps
<1>12. PostsOk' /\ \A i \in DOMAIN queue : i \in DOMAIN queue' /\ queue'[i] = queue[i]
  <2>1. PostOk(p)'
    BY <1>5, <1>7, PostStays
  <2>. QED
    BY <1>1, <1>2, <1>5, <1>6, <1>7, <2>1, PostsKeep
<1>13. RunOk'
  <2>1. \A todo : TodoOk(todo) => TodoOk(todo)'
    BY <1>1, <1>5, <1>7 DEF TodoOk, RegSet
  <2>. QED
    BY <1>1, <1>2, <1>10, <2>1 DEF RunOk, Executes, TodoOk
<1>14. CallsOk'
  <2>1. PICK v : v = NoCall /\ v.op = "none" /\ v \in Call
    BY NoCallIs
  <2>2. ASSUME NEW d \in Callers, d # c, Removes(d)
        PROVE  regs'[Aim(d)].removal = "asked"
    <3>1. regs[Aim(d)].removal = "asked" /\ Aim(d) \in DOMAIN regs
      BY <1>2, <2>2, AimIs
    <3>2. Aim(d) # n
      BY <1>2, <1>3, <1>4, <2>2 DEF CallsOk, Aim
    <3>. QED
      BY <1>7, <3>1, <3>2 DEF RegSet
  <2>3. \A d \in Callers : d # c /\ Removes(d) =>
              /\ regs'[Aim(d)].removal = "asked"
              /\ Aim(d) \in unregistered' <=> Aim(d) \in unregistered
              /\ v.op \in {"find", "cleanup"} => Aim(d) # v.post.r.x.n
    BY <1>1, <2>1, <2>2
  <2>4. \A d \in Callers : d # c /\ call[d].op = "cleanup" => mutex' = d
    BY <1>2, <1>8 DEF CallsOk, CallOk
  <2>5. /\ run' = run /\ (c = Loop /\ v # NoCall => run.pc \in {"handler", "out"})
        /\ v.op # "cleanup" /\ v.op = "none" /\ v.op \notin {"find", "cleanup"}
        /\ call' = [call EXCEPT ![c] = v]
    BY <1>1, <2>1
  <2>. QED
    BY ONLY <1>2, <1>7, <2>1, <2>3, <2>4, <2>5, c \in Callers, CallsKeep
<1>15. GoesOk'
  <2>1. \A d \in Callers : d # c => call'[d] = call[d]
    BY <1>1, <1>2 DEF CallsOk
  <2>2. ASSUME NEW y, Goes(y), y # r.x PROVE Goes(y)'
    <3>1. ASSUME NEW i \in DOMAIN queue, queue[i].base = "cleanup" /\ queue[i].r.x = y
          PROVE  Goes(y)'
      BY <1>12, <3>1 DEF CleanupUnderWay, Goes
    <3>2. ASSUME NEW d \in Callers, call[d].op = "cleanup" /\ call[d].post.r.x = y
          PROVE  Goes(y)'
      <4>1. d # c
        BY <1>3, <2>2, <3>2
      <4>. QED
        BY <2>1, <3>2, <4>1 DEF CleanupUnderWay, Goes
    <3>3. CASE run.pc = "lock" /\ run.post.base = "cleanup" /\ run.post.r.x = y
      BY <1>1, <3>3 DEF CleanupUnderWay, Goes
    <3>4. CASE y.n \in refused
      BY <1>7, <3>4 DEF Goes, RegsGrow
    <3>. QED
      BY <2>2, <3>1, <3>2, <3>3, <3>4 DEF CleanupUnderWay, Goes
  <2>3. ASSUME NEW j \in DOMAIN regs', NEW k, regs'[j].removal = "ok",
               At(loop_nodes, regs'[j].x, k)
        PROVE  j \in unregistered /\ Goes(regs[j].x)'
    <3>1. j \in DOMAIN regs /\ regs'[j].x = regs[j].x /\ regs[j].x.n = j
      BY <1>2, <1>7, <2>3 DEF RegSet, RegsOk
    <3>2. CASE j = n
      <4>1. queue' = Append(queue, p)
        BY <1>6, <1>7, <2>3, <3>1, <3>2 DEF RegSet
      <4>2. PICK q, m : q = queue' /\ m \in DOMAIN q /\ q[m] = p
        <5>1. queue \in Seq(Posts)
          BY <1>2 DEF PostsOk
        <5>2. PICK s, q, m : s = queue /\ q = queue' /\ m = Len(s) + 1
          OBVIOUS
        <5>3. m \in DOMAIN q /\ q[m] = p
          BY ONLY <1>5, <4>1, <5>1, <5>2
        <5>. QED
          BY <5>2, <5>3
      <4>3. PICK y : y = r.x
        OBVIOUS
      <4>4. Goes(y)'
        BY <1>3, <1>5, <4>2, <4>3 DEF CleanupUnderWay, Goes
      <4>5. y = regs'[j].x
        BY <1>5, <3>1, <3>2, <4>3
      <4>. QED
        BY <1>5, <3>2, <4>4, <4>5 DEF CleanupUnderWay, Goes
    <3>3. CASE j # n
      <4>1. regs[j].removal = "ok"
        BY <1>7, <2>3, <3>1, <3>3 DEF RegSet
      <4>2. PICK y : y = regs[j].x
        OBVIOUS
      <4>3. j \in unregistered /\ Goes(y)
        BY <1>2, <2>3, <3>1, <4>1, <4>2 DEF GoesOk
      <4>4. y # r.x
        BY <1>5, <3>1, <3>3, <4>2
      <4>5. Goes(y)'
        BY <2>2, <4>3, <4>4
      <4>. QED
        BY <3>1, <4>2, <4>3, <4>5 DEF CleanupUnderWay, Goes
    <3>. QED
      BY <3>2, <3>3
  <2>. QED
    BY <1>1, <2>3 DEF GoesOk, CleanupUnderWay, Goes
<1>. QED
  BY <1>7, <1>11, <1>12, <1>13, <1>14, <1>15 DEF EventInv

\* Steps that may add an event to the queue and leave the handlers alone.
LEMMA QuietStep ==
    ASSUME EventInv, UNCHANGED <<loop_nodes, unregistered, mutex, run, regs, refused>>, CallsOk',
           NEW p, PostOk(p), queue' = queue \/ queue' = Append(queue, p),
           \A d \in Callers : call[d].op = "cleanup" => call'[d] = call[d]
    PROVE  EventInv'
<1>1. RegsOk /\ TreeOk /\ PostsOk /\ RunOk /\ CallsOk /\ GoesOk
  BY DEF EventInv
<1>2. RegsOk' /\ RegsGrow
  BY <1>1 DEF RegsOk, RegsGrow
<1>3. TreeOk'
  BY <1>1 DEF TreeOk
<1>4. PostsOk' /\ \A i \in DOMAIN queue : i \in DOMAIN queue' /\ queue'[i] = queue[i]
  <2>1. PostOk(p)' /\ p \in Posts
    BY <1>2, PostStays DEF PostOk
  <2>. QED
    BY <1>1, <1>2, <2>1, PostsKeep
<1>5. RunOk'
  BY <1>1 DEF RunOk, Executes, TodoOk
<1>6. ASSUME NEW y, Goes(y) PROVE Goes(y)'
  <2>1. ASSUME NEW i \in DOMAIN queue, queue[i].base = "cleanup" /\ queue[i].r.x = y
        PROVE  Goes(y)'
    BY <1>4, <2>1 DEF CleanupUnderWay, Goes
  <2>2. ASSUME NEW d \in Callers, call[d].op = "cleanup" /\ call[d].post.r.x = y
        PROVE  Goes(y)'
    BY <2>2 DEF CleanupUnderWay, Goes
  <2>3. CASE run.pc = "lock" /\ run.post.base = "cleanup" /\ run.post.r.x = y
    BY <2>3 DEF CleanupUnderWay, Goes
  <2>. QED
    BY <1>6, <2>1, <2>2, <2>3 DEF CleanupUnderWay, Goes
<1>7. GoesOk'
  <2>1. ASSUME NEW j \in DOMAIN regs, NEW k, regs[j].removal = "ok",
               At(loop_nodes, regs[j].x, k)
        PROVE  j \in unregistered /\ Goes(regs[j].x)'
    <3>1. PICK y : y = regs[j].x
      OBVIOUS
    <3>2. j \in unregistered /\ Goes(y)'
      BY <1>1, <1>6, <2>1, <3>1 DEF GoesOk
    <3>. QED
      BY <3>1, <3>2 DEF CleanupUnderWay, Goes
  <2>. QED
    BY <2>1 DEF GoesOk, CleanupUnderWay, Goes
<1>. QED
  BY <1>2, <1>3, <1>4, <1>5, <1>7 DEF EventInv

\* A call that posts, and the calls of others.
LEMMA CallPosts ==
    ASSUME EventInv, UNCHANGED <<loop_nodes, unregistered, mutex, run, regs, refused>>,
           NEW c \in Callers, ~Removes(c), NEW v \in Call, v.op \in {"none", "look", "send"},
           call' = [call EXCEPT ![c] = v], v.op # "none" => PostOk(v.post),
           c = Loop /\ v # NoCall => run.pc \in {"handler", "out"}
    PROVE  CallsOk' /\ \A d \in Callers : call[d].op = "cleanup" => call'[d] = call[d]
<1>1. RegsOk /\ CallsOk /\ RegsGrow
  BY DEF EventInv, RegsOk, RegsGrow
<1>2. \A d \in Callers : d # c /\ Removes(d) =>
              /\ regs'[Aim(d)].removal = "asked"
              /\ Aim(d) \in unregistered' <=> Aim(d) \in unregistered
              /\ v.op \in {"find", "cleanup"} => Aim(d) # v.post.r.x.n
  <2>1. \A d \in Callers : Removes(d) => regs[Aim(d)].removal = "asked"
    BY <1>1, AimIs
  <2>. QED
    BY <2>1
<1>3. \A d \in Callers : d # c /\ call[d].op = "cleanup" => mutex' = d
  BY <1>1 DEF CallsOk, CallOk
<1>4. v.op # "none" => PostOk(v.post)'
  <2>1. PICK p : p = v.post
    OBVIOUS
  <2>2. PostOk(p) => PostOk(p)'
    BY <1>1, PostStays
  <2>. QED
    BY <2>1, <2>2
<1>5. v.op # "cleanup" /\ v.op \notin {"find", "cleanup"} /\ run' = run
  OBVIOUS
<1>6. CallsOk'
  BY ONLY <1>1, <1>2, <1>3, <1>4, <1>5, c \in Callers, v \in Call, call' = [call EXCEPT ![c] = v],
     c = Loop /\ v # NoCall => run.pc \in {"handler", "out"}, CallsKeep
<1>7. \A d \in Callers : call[d].op = "cleanup" => call'[d] = call[d]
  BY <1>1 DEF CallsOk, Removes
<1>. QED
  BY <1>6, <1>7

\* The events of esp_event_post_to.
LEMMA PostedOk ==
    ASSUME RegsOk, NEW e \in Events
    PROVE  PostOk(Posted(e))
<1>1. PICK p : p = Posted(e)
  OBVIOUS
<1>2. NoRequest \in Requests /\ NoRequest.x.n = 0 /\ NoRequest.legacy = FALSE
  BY DEF NoRequest, Requests, NONE
<1>3. p.base = e.base /\ p.id = e.id /\ p.r = NoRequest /\ p \in Posts
  BY <1>1, <1>2 DEF Posted, Posts
<1>. QED
  <2>1. RequestOk(NoRequest)
    <3>1. 0 \in 0 .. Len(regs)
      BY DEF RegsOk
    <3>. QED
      BY <1>2, <3>1 DEF RequestOk
  <2>2. PostOk(p)
    BY <1>3, <2>1, EventAssumption DEF PostOk
  <2>. QED
    BY <1>1, <2>2

\* A call that posts begins.
LEMMA PostToStep ==
    ASSUME EventInv, NEW c \in Callers, NEW e \in Events, NEW ticks \in BOOLEAN,
           esp_event_post_to(c, e, ticks)
    PROVE  EventInv'
<1>1. UNCHANGED <<loop_nodes, unregistered, queue, mutex, run, regs, refused>>
      /\ call[c] = NoCall /\ (c = Loop => run.pc \in {"handler", "out"})
  BY DEF esp_event_post_to, Free
<1>2. PICK o \in {"look", "send"}, w \in BOOLEAN :
        call' = [call EXCEPT ![c] = [op |-> o, post |-> Posted(e), wait |-> w]]
  BY DEF esp_event_post_to
<1>3. PICK p : p = Posted(e) /\ PostOk(p) /\ p \in Posts
  BY PostedOk DEF EventInv, PostOk
<1>4. PICK v : v = [op |-> o, post |-> p, wait |-> w]
  OBVIOUS
<1>5. v \in Call /\ v.op = o /\ v.post = p
  BY <1>3, <1>4 DEF Call
<1>6. call' = [call EXCEPT ![c] = v]
  BY <1>2, <1>3, <1>4
<1>7. ~Removes(c)
  BY <1>1, NoCallIs DEF Removes
<1>8. CallsOk' /\ \A d \in Callers : call[d].op = "cleanup" => call'[d] = call[d]
  <2>1. v.op \in {"none", "look", "send"} /\ (v.op # "none" => PostOk(v.post))
    BY <1>3, <1>5
  <2>. QED
    BY <1>1, <1>5, <1>6, <1>7, <2>1, CallPosts
<1>. QED
  BY <1>1, <1>3, <1>8, QuietStep

\* The call goes on, or gives up.
LEMMA LookStep ==
    ASSUME EventInv, NEW c \in Callers, post_look(c)
    PROVE  EventInv'
<1>1. UNCHANGED <<loop_nodes, unregistered, queue, mutex, run, regs, refused>> /\ call[c].op = "look"
  BY DEF post_look
<1>2. CallOk(c) /\ call[c] \in Call /\ call \in [Callers -> Call] /\ CallsOk
  BY DEF EventInv, CallsOk
<1>3. PICK p : p = call[c].post /\ PostOk(p) /\ p \in Posts
  BY <1>1, <1>2 DEF CallOk, PostOk
<1>4. c = Loop => run.pc \in {"handler", "out"}
  BY <1>1, <1>2, NoCallIs DEF CallsOk
<1>5. PICK v \in Call : /\ call' = [call EXCEPT ![c] = v] /\ v.op \in {"none", "send"}
                        /\ v.op = "send" => v.post = p
  <2>1. CASE MayLock(c)
    <3>1. PICK z \in BOOLEAN : call' = [call EXCEPT ![c].op = "send", ![c].wait = z]
      BY <1>2, <2>1 DEF post_look, Call
    <3>2. PICK zz : zz = z
      OBVIOUS
    <3>3. PICK w, o, t : w = call[c] /\ w = [op |-> o, post |-> p, wait |-> t]
      BY <1>2, <1>3 DEF Call
    <3>4. PICK u : u = [w EXCEPT !.op = "send"]
      OBVIOUS
    <3>5. u = [op |-> "send", post |-> p, wait |-> t]
      BY ONLY <3>3, <3>4
    <3>10. PICK v : v = [u EXCEPT !.wait = zz]
      OBVIOUS
    <3>11. [u EXCEPT !.wait = zz] = [op |-> "send", post |-> p, wait |-> zz]
      BY ONLY <3>5
    <3>6. v = [op |-> "send", post |-> p, wait |-> zz]
      BY ONLY <3>10, <3>11
    <3>7. call' = [[call EXCEPT ![c].op = "send"] EXCEPT ![c].wait = zz]
      BY <3>1, <3>2
    <3>8. [[call EXCEPT ![c].op = "send"] EXCEPT ![c].wait = zz] = [call EXCEPT ![c] = v]
      BY ONLY <1>2, <3>3, <3>4, <3>10, c \in Callers
    <3>9. v \in Call /\ v.op = "send" /\ v.post = p
      BY <1>3, <3>1, <3>2, <3>6 DEF Call
    <3>. QED
      BY ONLY <3>7, <3>8, <3>9
  <2>2. CASE ~MayLock(c)
    BY <2>2, NoCallIs DEF post_look, Return
  <2>. QED
    BY <2>1, <2>2
<1>6. ~Removes(c)
  BY <1>1 DEF Removes
<1>7. CallsOk' /\ \A d \in Callers : call[d].op = "cleanup" => call'[d] = call[d]
  <2>1. v.op \in {"none", "look", "send"} /\ (v.op # "none" => PostOk(v.post))
    BY <1>3, <1>5
  <2>. QED
    BY <1>1, <1>4, <1>5, <1>6, <2>1, CallPosts
<1>. QED
  BY <1>1, <1>3, <1>7, QuietStep

\* The event is put into the queue if there is room.
LEMMA SendStep ==
    ASSUME EventInv, NEW c \in Callers, post_send(c)
    PROVE  EventInv'
<1>1. UNCHANGED <<loop_nodes, unregistered, mutex, run, regs, refused>> /\ call[c].op = "send"
      /\ call' = [call EXCEPT ![c] = NoCall]
  BY DEF post_send, Return
<1>2. CallOk(c)
  BY DEF EventInv, CallsOk
<1>3. PICK p : p = call[c].post /\ PostOk(p)
  BY <1>1, <1>2 DEF CallOk
<1>4. queue' = queue \/ queue' = Append(queue, p)
  BY <1>3 DEF post_send
<1>5. ~Removes(c)
  BY <1>1 DEF Removes
<1>6. CallsOk' /\ \A d \in Callers : call[d].op = "cleanup" => call'[d] = call[d]
  <2>1. PICK v : v = NoCall /\ v \in Call /\ v.op = "none"
    BY NoCallIs
  <2>2. call' = [call EXCEPT ![c] = v] /\ v.op \in {"none", "look", "send"}
    BY <1>1, <2>1
  <2>. QED
    BY <1>1, <1>5, <2>1, <2>2, CallPosts
<1>. QED
  BY <1>1, <1>3, <1>4, <1>6, QuietStep

\* An interrupt handler posts.
LEMMA IsrStep ==
    ASSUME EventInv, NEW e \in Events, esp_event_isr_post_to(e)
    PROVE  EventInv'
<1>1. UNCHANGED <<loop_nodes, unregistered, mutex, run, regs, refused, call>>
  BY DEF esp_event_isr_post_to
<1>2. PICK p : p = Posted(e) /\ PostOk(p)
  BY PostedOk DEF EventInv
<1>3. queue' = queue \/ queue' = Append(queue, p)
  BY <1>2 DEF esp_event_isr_post_to
<1>4. CallsOk'
  BY <1>1 DEF EventInv, CallsOk, CallOk, MarkOk, Removes, PostOk, RequestOk
<1>. QED
  BY <1>1, <1>2, <1>3, <1>4, QuietStep

-----------------------------------------------------------------------------
(***************************************************************************)
(* The theorems.                                                           *)
(***************************************************************************)
\* Every step keeps the invariant, if no handler is registered by a legacy function.
LEMMA NextStep ==
    ASSUME Apis = {FALSE}, EventInv, [Next]_vars
    PROVE  EventInv'
<1>1. CASE Run
  BY <1>1, ReceiveStep, LockStep, ExecuteStep, UnlockStep DEF Run
<1>2. CASE run_call \/ run_timeout
  BY <1>2, OutStep
<1>3. ASSUME NEW c \in Callers, Finish(c) PROVE EventInv'
  BY <1>3, FindStep, CleanupStep, LookStep, SendStep DEF Finish
<1>4. ASSUME NEW c \in Callers, NEW key \in Keys, NEW h \in Handlers, NEW legacy \in Apis,
             register(c, key, h, legacy)
      PROVE  EventInv'
  BY <1>4, RegisterStep
<1>5. ASSUME NEW c \in Callers, NEW i \in DOMAIN regs, unregister(c, i) PROVE EventInv'
  BY <1>5, UnregisterStep
<1>6. ASSUME NEW c \in Callers, NEW e \in Events, NEW ticks \in BOOLEAN,
             esp_event_post_to(c, e, ticks)
      PROVE  EventInv'
  BY <1>6, PostToStep
<1>7. ASSUME NEW e \in Events, esp_event_isr_post_to(e) PROVE EventInv'
  BY <1>7, IsrStep
<1>8. CASE UNCHANGED vars
  <2>1. UNCHANGED <<loop_nodes, unregistered, queue, mutex, run, call, regs, refused>>
    BY <1>8 DEF vars
  <2>2. RegsOk' /\ TreeOk'
    BY <2>1 DEF EventInv, RegsOk, TreeOk
  <2>3. PostsOk'
    BY <2>1 DEF EventInv, PostsOk, PostOk, RequestOk
  <2>4. RunOk'
    BY <2>1 DEF EventInv, RunOk, Executes, TodoOk
  <2>5. CallsOk'
    BY <2>1 DEF EventInv, CallsOk, CallOk, MarkOk, Removes, PostOk, RequestOk
  <2>6. GoesOk'
    BY <2>1 DEF EventInv, GoesOk, CleanupUnderWay, Goes
  <2>. QED
    BY <2>2, <2>3, <2>4, <2>5, <2>6 DEF EventInv
<1>. QED
  BY <1>1, <1>2, <1>3, <1>4, <1>5, <1>6, <1>7, <1>8 DEF Next

\* For handlers that are registered as instances, every state a loop reaches satisfies
\* the invariant.
THEOREM EventInvariant ==
    ASSUME Apis = {FALSE} PROVE Spec => []EventInv
<1>1. Init => EventInv
  BY InitInv
<1>2. EventInv /\ [Next]_vars => EventInv'
  BY NextStep
<1>. QED
  BY <1>1, <1>2, PTL DEF Spec

\* Whatever was registered and unregistered before, esp_event_loop_run executes the
\* handlers that match an event once each, in the order they were registered in, and
\* leaves out none but on a request to remove it.
THEOREM AlwaysInOrder ==
    ASSUME Apis = {FALSE} PROVE Spec => []PlanInOrder
<1>1. ASSUME EventInv PROVE PlanInOrder
  <2>1. RegsOk /\ TreeOk
    BY <1>1 DEF EventInv
  <2>2. SUFFICES ASSUME NEW e \in Events, NEW p, p = Plan(loop_nodes, e)
                 PROVE  /\ \A i, j \in DOMAIN p : i < j => p[i].n < p[j].n
                        /\ \A i \in DOMAIN p : Matches(regs[p[i].n].key, e)
                        /\ \A i \in DOMAIN regs :
                             regs[i].removal = "none" /\ Matches(regs[i].key, e) =>
                               /\ regs[i].x.n \notin unregistered
                               /\ \E j \in DOMAIN p : p[j] = regs[i].x
    BY DEF PlanInOrder
  <2>3. loop_nodes \in NodeLists /\ e.base # ANY /\ e.id # ANY
    BY <2>1, EventAssumption DEF TreeOk
  <2>4. p \in HandlerLists
    BY <2>2, <2>3, PlanAt
  <2>5. \A y, key : At(loop_nodes, y, key) /\ Matches(key, e)
                    /\ (key.base = ANY => key.id = ANY) => y \in Range(p)
    BY <2>2, <2>3, PlanAt
  <2>6. \A y \in Range(p) : \E key : At(loop_nodes, y, key) /\ Matches(key, e)
    BY <2>2, <2>3, PlanAt
  <2>7. \A i, j \in DOMAIN p : i < j => p[i].n < p[j].n
    BY <2>4 DEF HandlerLists, Ascending
  <2>8. ASSUME NEW i \in DOMAIN p PROVE Matches(regs[p[i].n].key, e)
    <3>1. PICK y : y = p[i] /\ y \in Range(p)
      BY DEF Range
    <3>2. PICK key : At(loop_nodes, y, key) /\ Matches(key, e)
      BY <2>6, <3>1
    <3>3. SameKey(key, regs[y.n].key)
      BY <2>1, <3>2 DEF TreeOk
    <3>4. Matches(regs[y.n].key, e)
      BY <3>2, <3>3 DEF SameKey, Matches
    <3>. QED
      BY <3>1, <3>4
  <2>9. ASSUME NEW i \in DOMAIN regs, regs[i].removal = "none", Matches(regs[i].key, e)
        PROVE  regs[i].x.n \notin unregistered /\ \E j \in DOMAIN p : p[j] = regs[i].x
    <3>1. PICK y, key : y = regs[i].x /\ key = regs[i].key
      OBVIOUS
    <3>2. At(loop_nodes, y, key) /\ i \notin unregistered
      BY <2>1, <2>9, <3>1 DEF TreeOk
    <3>3. key \in Keys /\ y.n = i
      <4>1. PICK o : o = regs[i] /\ o \in Reg /\ o.x.n = i
        BY <2>1 DEF RegsOk
      <4>2. o.key \in Keys
        BY <4>1 DEF Reg
      <4>. QED
        BY <3>1, <4>1, <4>2
    <3>4. y \in Range(p)
      BY <2>5, <2>9, <3>1, <3>2, <3>3, EventAssumption
    <3>. QED
      BY <3>1, <3>2, <3>3, <3>4 DEF Range
  <2>. QED
    BY <2>7, <2>8, <2>9
<1>. QED
  BY <1>1, EventInvariant, PTL

\* A handler node that was unregistered with success and is still in the lists, for the
\* loop was executing handlers at the time, has its removal under way: in the queue, or
\* received from it, or about to be posted with the mutex held.  The one exception is a
\* node for which an earlier request was answered with an error.
THEOREM UnregisteredAlwaysGoes ==
    ASSUME Apis = {FALSE} PROVE Spec => []UnregisteredGoes
<1>1. ASSUME EventInv PROVE UnregisteredGoes
  <2>1. TreeOk /\ GoesOk
    BY <1>1 DEF EventInv
  <2>2. SUFFICES ASSUME NEW i \in DOMAIN regs, regs[i].removal = "ok", InTree(regs[i].x)
                 PROVE  Goes(regs[i].x)
    BY DEF UnregisteredGoes, Goes
  <2>3. \E k : At(loop_nodes, regs[i].x, k)
    BY <2>1, <2>2, InTreeAt DEF TreeOk
  <2>. QED
    BY <2>1, <2>2, <2>3 DEF GoesOk
<1>. QED
  BY <1>1, EventInvariant, PTL

\* find_and_unregister_handler marks no node but one whose removal was asked for,
\* wherever its walk of the lists ends.
THEOREM MarksOnlyAskedFor ==
    ASSUME Apis = {FALSE} PROVE Spec => []OnlyAskedFor
<1>1. ASSUME EventInv PROVE OnlyAskedFor
  BY <1>1 DEF EventInv, RegsOk, TreeOk, OnlyAskedFor
<1>. QED
  BY <1>1, EventInvariant, PTL

\* The loop starts no handler whose removal has been reported as done, although its
\* node may have been among those to execute when the event was received.
THEOREM NeverCalledAgain ==
    ASSUME Apis = {FALSE} PROVE Spec => NotCalledAgain
<1> DEFINE Step == run'.pc = "handler" /\ run.pc = "dispatch" =>
                     regs[Head(run.todo).n].removal # "ok"
<1>1. ASSUME EventInv, Next PROVE Step
  <2>1. SUFFICES ASSUME run'.pc = "handler", run.pc = "dispatch"
                 PROVE  regs[Head(run.todo).n].removal # "ok"
    OBVIOUS
  <2>2. RunOk /\ RunRec
    BY <1>1, RunFields DEF EventInv
  <2>3. handler_execute
    <3>1. run' # run
      BY <2>1
    <3>2. ~run_unlock
      BY <2>1, <2>2 DEF run_unlock, RunRec
    <3>3. ~(run_call \/ run_timeout \/ run_receive \/ run_lock \/ handler_return)
      BY <2>1 DEF run_call, run_timeout, run_receive, run_lock, handler_return
    <3>4. ASSUME NEW c \in Callers PROVE ~Finish(c)
      BY <3>1 DEF Finish, find_and_unregister_handler, post_cleanup, post_look, post_send
    <3>5. ASSUME NEW c, NEW key, NEW h, NEW legacy PROVE ~register(c, key, h, legacy)
      BY <3>1 DEF register
    <3>6. ASSUME NEW c, NEW i PROVE ~unregister(c, i)
      BY <3>1 DEF unregister
    <3>7. ASSUME NEW c, NEW e, NEW ticks
          PROVE  ~esp_event_post_to(c, e, ticks) /\ ~esp_event_isr_post_to(e)
      BY <3>1 DEF esp_event_post_to, esp_event_isr_post_to
    <3>. QED
      BY <1>1, <3>2, <3>3, <3>4, <3>5, <3>6, <3>7 DEF Next, Run
  <2>4. run.todo # << >> /\ Head(run.todo).n \notin unregistered
    <3>1. run.todo # << >>
      BY <2>3 DEF handler_execute
    <3>2. ASSUME Head(run.todo).n \in unregistered PROVE FALSE
      <4>1. run' = [run EXCEPT !.todo = Tail(run.todo)]
        BY <2>3, <3>2 DEF handler_execute
      <4>2. run'.pc = run.pc
        BY <2>2, <4>1 DEF RunRec
      <4>. QED
        BY <2>1, <4>2
    <3>. QED
      BY <3>1, <3>2
  <2>5. TodoOk(run.todo) /\ run.todo \in Seq(HandlerNode)
    BY <2>1, <2>2, RunFields DEF RunOk, Executes
  <2>6. 1 \in DOMAIN run.todo /\ Head(run.todo) = run.todo[1]
    BY <2>4, <2>5
  <2>. QED
    BY <2>4, <2>5, <2>6 DEF TodoOk
<1>2. EventInv /\ [Next]_vars => [Step]_vars
  BY <1>1
<1>. QED
  BY <1>2, EventInvariant, PTL DEF Spec, NotCalledAgain
=============================================================================
