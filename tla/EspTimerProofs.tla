--------------------------- MODULE EspTimerProofs ---------------------------
(***************************************************************************)
(* Proofs about EspTimer, for every set of timers and tasks and any times. *)
(* A linked list is described by the sequence of its timers (IsList); the  *)
(* macros of sys/queue.h and timer_insert are shown to do to the sequence  *)
(* what they should, whatever the other list holds.  The invariant is that *)
(* the lists are right (TimerInv) unless a restart has already unlinked a  *)
(* timer that was in no list.                                              *)
(***************************************************************************)
EXTENDS EspTimer, FiniteSetTheorems, WellFoundedInduction, TLAPS

-----------------------------------------------------------------------------
(* A list and the sequence of its timers *)

Entries == Timers \union Methods
ListType ==
    [link : [Entries -> Timers \union {NULL}], prev : [Timers -> Entries \union {NULL}]]

\* The link at which the walk from the head of list m is after i timers of s,
\* and what that link points to.
Place(s, m, i) == IF i = 0 THEN m ELSE s[i]
After(s, i) == IF i = Len(s) THEN NULL ELSE s[i + 1]

\* List m of l holds the timers of s, each once, linked in both directions.
IsList(l, m, s) ==
    /\ s \in Seq(Timers)
    /\ \A i, j \in 1 .. Len(s) : s[i] = s[j] => i = j
    /\ \A i \in 0 .. Len(s) : l.link[Place(s, m, i)] = After(s, i)
    /\ \A i \in 1 .. Len(s) : l.prev[s[i]] = Place(s, m, i - 1)

Consists(s, A) ==
    (\A i \in 1 .. Len(s) : s[i] \in A) /\ (\A t \in A : \E i \in 1 .. Len(s) : s[i] = t)
Ascends(tm, s) == \A i, j \in 1 .. Len(s) : i < j => tm[s[i]].alarm <= tm[s[j]].alarm

\* List m of l holds exactly the timers A, in the order of their alarms.
Keeps(l, tm, m, A) ==
    \E s \in Seq(Timers) : IsList(l, m, s) /\ Consists(s, A) /\ Ascends(tm, s)

(* A nonempty set of natural numbers has a least element.                  *)
LEMMA LeastNat ==
  ASSUME NEW S \in SUBSET Nat, S # {}
  PROVE  \E x \in S : \A y \in S : x <= y
<1> DEFINE R == OpToRel(<, Nat)
<1>1. PICK x \in S : \A y \in S : ~ (<<y, x>> \in R)
  <2>1. IsWellFoundedOn(R, Nat)
    BY NatLessThanWellFounded
  <2> HIDE DEF R
  <2> QED  BY <2>1, WFMin
<1>2. \A y \in S : x <= y
  <2>1. ASSUME NEW y \in S, y < x PROVE <<y, x>> \in R
    BY <2>1 DEF OpToRel
  <2> HIDE DEF R
  <2>2. \A y \in S : ~ (y < x)
    BY <1>1, <2>1
  <2> QED  BY <2>2
<1> QED  BY <1>2

(* No list is longer than there are timers.                                *)
LEMMA ListLength ==
  ASSUME NEW l, NEW m, NEW s, IsList(l, m, s)
  PROVE  Len(s) \in Nat /\ Cardinality(Timers) \in Nat /\ Len(s) <= Cardinality(Timers)
<1>1. s \in Injection(1 .. Len(s), Timers) /\ Len(s) \in Nat
  BY DEF IsList, Injection, IsInjective
<1>2. Cardinality(1 .. Len(s)) = Len(s)
  <2>1. 1 \in Int /\ Len(s) \in Int
    BY <1>1
  <2>2. Cardinality(1 .. Len(s)) = IF 1 > Len(s) THEN 0 ELSE Len(s) - 1 + 1
    BY <2>1, FS_Interval
  <2> QED  BY <1>1, <2>2
<1>3. IsFiniteSet(Timers)
  BY TimerAssumption
<1> QED  BY <1>1, <1>2, <1>3, FS_Injection, FS_CardinalityType

-----------------------------------------------------------------------------
(* The walk of LIST_FOREACH *)

Steps == Cardinality(Timers) + 1
Longer(l, m, s) ==
    LET t == l.link[IF s = <<>> THEN m ELSE Last(s)]
    IN  IF t = NULL THEN s ELSE Append(s, t)
Walks(f, l, m) ==
    f = [n \in 0 .. Steps |-> IF n = 0 THEN <<>> ELSE Longer(l, m, f[n - 1])]
Walked(s) == [n \in 0 .. Steps |-> [i \in 1 .. (IF n <= Len(s) THEN n ELSE Len(s)) |-> s[i]]]

(* Chain is the last of the sequences that its recursion goes through.     *)
LEMMA ChainWalks ==
  ASSUME NEW l, NEW m, NEW g, Walks(g, l, m), \A f : Walks(f, l, m) => f = g
  PROVE  Chain(l, m) = g[Steps]
<1>1. Walks(CHOOSE f : Walks(f, l, m), l, m)
  OBVIOUS
<1>2. (CHOOSE f : Walks(f, l, m)) = g
  BY <1>1
<1>3. Chain(l, m) = (CHOOSE f : Walks(f, l, m))[Steps]
  BY DEF Chain, Walks, Longer, Steps
<1> QED  BY <1>2, <1>3

(* The walk visits the timers of the list one by one, and ends.            *)
LEMMA WalkedStep ==
  ASSUME NEW l, NEW m \in Methods, NEW s, IsList(l, m, s), NEW n \in 1 .. Steps
  PROVE  Walked(s)[n] = Longer(l, m, Walked(s)[n - 1])
<1>1. Len(s) \in Nat /\ Steps \in Nat /\ s \in Seq(Timers)
  <2>1. Len(s) \in Nat /\ Cardinality(Timers) \in Nat
    BY ListLength
  <2> QED  BY <2>1 DEF Steps, IsList
<1> DEFINE p == Walked(s)[n - 1]
           q == Walked(s)[n]
           k == IF n - 1 <= Len(s) THEN n - 1 ELSE Len(s)
<1>2. k \in 0 .. Len(s) /\ p = [i \in 1 .. k |-> s[i]]
  BY <1>1 DEF Walked
<1>3. p \in Seq(Timers) /\ Len(p) = k
  BY <1>1, <1>2
<1>4. l.link[IF p = <<>> THEN m ELSE Last(p)] = After(s, k)
  <2>1. (IF p = <<>> THEN m ELSE Last(p)) = Place(s, m, k)
    BY <1>1, <1>2, <1>3 DEF Last, Place
  <2> QED  BY <1>2, <2>1 DEF IsList
<1>5. CASE n <= Len(s)
  <2>1. After(s, k) = s[n] /\ s[n] # NULL /\ k = n - 1
    BY <1>1, <1>5, NamesAssumption DEF After, NULL
  <2>2. q = [i \in 1 .. n |-> s[i]] /\ q \in Seq(Timers) /\ Len(q) = n
    BY <1>1, <1>5 DEF Walked
  <2>3. Append(p, s[n]) \in Seq(Timers) /\ Len(Append(p, s[n])) = n /\ s[n] \in Timers
    BY <1>1, <1>3, <1>5, <2>1
  <2>4. \A i \in 1 .. n : q[i] = Append(p, s[n])[i]
    BY <1>1, <1>2, <1>3, <1>5, <2>1, <2>2
  <2>5. q = Append(p, s[n])
    BY <2>2, <2>3, <2>4
  <2> QED  BY <1>4, <2>1, <2>5 DEF Longer
<1>6. CASE n > Len(s)
  <2>1. k = Len(s) /\ After(s, k) = NULL
    BY <1>1, <1>6 DEF After
  <2>2. q = [i \in 1 .. Len(s) |-> s[i]]
    BY <1>1, <1>6 DEF Walked
  <2>3. q = p
    BY <1>2, <2>1, <2>2
  <2> QED  BY <1>4, <2>1, <2>3 DEF Longer
<1> QED  BY <1>1, <1>5, <1>6

(* What LIST_FOREACH finds is the sequence of the list's timers.           *)
LEMMA ChainIs ==
  ASSUME NEW l, NEW m \in Methods, NEW s, IsList(l, m, s)
  PROVE  Chain(l, m) = s
<1>1. Len(s) \in Nat /\ Steps \in Nat /\ Len(s) < Steps /\ s \in Seq(Timers)
  <2>1. Len(s) \in Nat /\ Cardinality(Timers) \in Nat /\ Len(s) <= Cardinality(Timers)
    BY ListLength
  <2> QED  BY <2>1 DEF Steps, IsList
<1> DEFINE g == Walked(s)
<1>2. g[0] = <<>> /\ g[Steps] = s
  BY <1>1 DEF Walked
<1>3. Walks(g, l, m)
  <2>1. g = [n \in 0 .. Steps |-> g[n]]
    BY DEF Walked
  <2>2. \A n \in 0 .. Steps : g[n] = IF n = 0 THEN <<>> ELSE Longer(l, m, g[n - 1])
    <3>1. \A n \in 1 .. Steps : g[n] = Longer(l, m, g[n - 1])
      BY WalkedStep
    <3> HIDE DEF g
    <3> QED  BY <1>1, <1>2, <3>1
  <2> HIDE DEF g
  <2> QED  BY <2>1, <2>2 DEF Walks
<1> HIDE DEF g
<1>4. ASSUME NEW f, Walks(f, l, m) PROVE f = g
  <2> DEFINE B == {n \in 0 .. Steps : f[n] # g[n]}
  <2>1. SUFFICES ASSUME B # {} PROVE FALSE
    BY <1>3, <1>4 DEF Walks
  <2>2. PICK n \in B : \A k \in B : n <= k
    <3>1. B \in SUBSET Nat
      BY <1>1
    <3> HIDE DEF B
    <3> QED  BY <2>1, <3>1, LeastNat
  <2>3. n # 0
    BY <1>2, <1>4, <1>1 DEF Walks
  <2>4. f[n - 1] = g[n - 1] /\ n - 1 \in 0 .. Steps
    BY <1>1, <2>2, <2>3
  <2>5. f[n] = Longer(l, m, f[n - 1]) /\ g[n] = Longer(l, m, g[n - 1])
    BY <1>1, <1>3, <1>4, <2>3 DEF Walks
  <2> QED  BY <2>4, <2>5
<1> QED  BY <1>2, <1>3, <1>4, ChainWalks

-----------------------------------------------------------------------------
(* LIST_REMOVE and LIST_INSERT *)

Without(s, i) == [j \in 1 .. Len(s) - 1 |-> IF j < i THEN s[j] ELSE s[j + 1]]
With(s, i, t) ==
    [j \in 1 .. Len(s) + 1 |-> IF j <= i THEN s[j] ELSE IF j = i + 1 THEN t ELSE s[j - 1]]

(* Link by link, what removing a timer does.                               *)
LEMMA RemoveFields ==
  ASSUME NEW l \in ListType, NEW t \in Timers, l.prev[t] # NULL
  PROVE  LET r == LIST_REMOVE(l, t)
         IN  /\ r \in ListType
             /\ \A x \in Entries : r.link[x] = IF x = l.prev[t] THEN l.link[t] ELSE l.link[x]
             /\ \A x \in Timers : r.prev[x] = IF x = l.link[t] THEN l.prev[t] ELSE l.prev[x]
<1>1. l.prev[t] \in Entries /\ l.link[t] \in Timers \union {NULL} /\ NULL \notin Timers
  BY NamesAssumption DEF ListType, Entries, NULL
<1> QED  BY <1>1 DEF LIST_REMOVE, ListType

(* Link by link, what inserting a timer behind the link p does.            *)
LEMMA InsertFields ==
  ASSUME NEW l \in ListType, NEW t \in Timers, NEW p \in Entries, p # t
  PROVE  LET r == LIST_INSERT(l, p, t)
         IN  /\ r \in ListType
             /\ \A x \in Entries : r.link[x] = IF x = p THEN t ELSE IF x = t THEN l.link[p]
                                               ELSE l.link[x]
             /\ \A x \in Timers : r.prev[x] = IF x = t THEN p ELSE IF x = l.link[p] THEN t
                                              ELSE l.prev[x]
<1>1. l.link[p] \in Timers \union {NULL} /\ NULL \notin Timers /\ t \in Entries
  BY NamesAssumption DEF ListType, Entries, NULL
<1> QED  BY <1>1 DEF LIST_INSERT, ListType

(* The places of a list are different entries.                             *)
LEMMA PlaceIs ==
  ASSUME NEW l \in ListType, NEW m \in Methods, NEW s, IsList(l, m, s)
  PROVE  /\ Len(s) \in Nat
         /\ \A i \in 0 .. Len(s) : Place(s, m, i) \in Entries /\ Place(s, m, i) # NULL
         /\ \A i, j \in 0 .. Len(s) : Place(s, m, i) = Place(s, m, j) => i = j
         /\ \A i \in 1 .. Len(s) : s[i] \in Timers /\ Place(s, m, i) = s[i]
<1>1. m \notin Timers /\ m # NULL /\ NULL \notin Timers
  BY NamesAssumption DEF Methods, NULL
<1> QED  BY <1>1 DEF IsList, Place, Entries

(* Removing the i-th timer of a list leaves the others in their order.     *)
LEMMA RemoveIs ==
  ASSUME NEW l \in ListType, NEW m \in Methods, NEW s, IsList(l, m, s), NEW i \in 1 .. Len(s)
  PROVE  /\ LIST_REMOVE(l, s[i]) \in ListType
         /\ IsList(LIST_REMOVE(l, s[i]), m, Without(s, i))
<1> DEFINE r == LIST_REMOVE(l, s[i])
           q == Without(s, i)
<1>1. /\ Len(s) \in Nat
      /\ \A k \in 0 .. Len(s) : Place(s, m, k) \in Entries /\ Place(s, m, k) # NULL
      /\ \A j, k \in 0 .. Len(s) : Place(s, m, j) = Place(s, m, k) => j = k
      /\ \A k \in 1 .. Len(s) : s[k] \in Timers /\ Place(s, m, k) = s[k]
  BY PlaceIs
<1>2. l.prev[s[i]] = Place(s, m, i - 1) /\ l.link[s[i]] = After(s, i)
  <2>1. i \in 0 .. Len(s)
    BY <1>1
  <2> QED  BY <1>1, <2>1 DEF IsList
<1>3. /\ r \in ListType
      /\ \A x \in Entries : r.link[x] = IF x = Place(s, m, i - 1) THEN After(s, i) ELSE l.link[x]
      /\ \A x \in Timers : r.prev[x] = IF x = After(s, i) THEN Place(s, m, i - 1) ELSE l.prev[x]
  <2>1. l.prev[s[i]] # NULL /\ s[i] \in Timers
    BY <1>1, <1>2
  <2> QED  BY <1>2, <2>1, RemoveFields
<1> HIDE DEF r
<1>4. q \in Seq(Timers) /\ Len(q) = Len(s) - 1
  BY <1>1 DEF Without
<1>5. \A j \in 1 .. Len(q) : q[j] = IF j < i THEN s[j] ELSE s[j + 1]
  BY <1>4 DEF Without
<1> HIDE DEF q
<1>6. ASSUME NEW j \in 1 .. Len(q), NEW k \in 1 .. Len(q), q[j] = q[k] PROVE j = k
  <2> DEFINE a == IF j < i THEN j ELSE j + 1
             b == IF k < i THEN k ELSE k + 1
  <2>1. a \in 1 .. Len(s) /\ b \in 1 .. Len(s) /\ (a = b => j = k)
    BY <1>1, <1>4
  <2>2. q[j] = s[a] /\ q[k] = s[b]
    BY <1>5
  <2> HIDE DEF a, b
  <2>3. a = b
    BY <1>6, <2>1, <2>2 DEF IsList
  <2> QED  BY <2>1, <2>3
<1>7. ASSUME NEW j \in 0 .. Len(q) PROVE r.link[Place(q, m, j)] = After(q, j)
  <2>1. CASE j < i - 1
    <3>0. /\ j \in 0 .. Len(s) /\ i - 1 \in 0 .. Len(s) /\ j # i - 1 /\ j # Len(q) /\ j # Len(s)
          /\ j + 1 \in 1 .. Len(q) /\ j + 1 < i /\ (j # 0 => j \in 1 .. Len(q) /\ j < i)
      BY <1>1, <1>4, <2>1
    <3>1. Place(q, m, j) = Place(s, m, j) /\ After(q, j) = After(s, j)
      BY <1>5, <3>0 DEF Place, After
    <3>2. Place(s, m, j) # Place(s, m, i - 1) /\ Place(s, m, j) \in Entries
      BY <1>1, <3>0
    <3>3. l.link[Place(s, m, j)] = After(s, j)
      BY <3>0 DEF IsList
    <3> QED  BY <1>3, <3>1, <3>2, <3>3
  <2>2. CASE j = i - 1
    <3>0. /\ i - 1 \in 0 .. Len(s) /\ (j # Len(q) => j + 1 \in 1 .. Len(q) /\ ~(j + 1 < i) /\ j + 1 = i)
          /\ (j = Len(q) <=> i = Len(s)) /\ (j # 0 => j \in 1 .. Len(q) /\ j < i)
      BY <1>1, <1>4, <2>2
    <3>1. Place(q, m, j) = Place(s, m, i - 1)
      BY <1>5, <2>2, <3>0 DEF Place
    <3>2. After(q, j) = After(s, i)
      BY <1>5, <3>0 DEF After
    <3> QED  BY <1>1, <1>3, <3>0, <3>1, <3>2
  <2>3. CASE j >= i
    <3>0. /\ j + 1 \in 0 .. Len(s) /\ i - 1 \in 0 .. Len(s) /\ j + 1 # i - 1 /\ j # 0 /\ j + 1 # 0
          /\ j \in 1 .. Len(q) /\ ~(j < i) /\ (j = Len(q) <=> j + 1 = Len(s))
          /\ (j # Len(q) => j + 1 \in 1 .. Len(q) /\ ~(j + 1 < i))
      BY <1>1, <1>4, <2>3
    <3>1. Place(q, m, j) = Place(s, m, j + 1) /\ After(q, j) = After(s, j + 1)
      BY <1>5, <3>0 DEF Place, After
    <3>2. Place(s, m, j + 1) # Place(s, m, i - 1) /\ Place(s, m, j + 1) \in Entries
      BY <1>1, <3>0
    <3>3. l.link[Place(s, m, j + 1)] = After(s, j + 1)
      BY <3>0 DEF IsList
    <3> QED  BY <1>3, <3>1, <3>2, <3>3
  <2> QED  BY <1>1, <1>4, <2>1, <2>2, <2>3
<1>8. ASSUME NEW j \in 1 .. Len(q) PROVE r.prev[q[j]] = Place(q, m, j - 1)
  <2>1. CASE j < i
    <3>0. /\ j \in 1 .. Len(s) /\ (i # Len(s) => i + 1 \in 1 .. Len(s)) /\ j # i + 1
          /\ (j - 1 # 0 => j - 1 \in 1 .. Len(q) /\ j - 1 < i)
      BY <1>1, <1>4, <2>1
    <3>1. q[j] = s[j] /\ Place(q, m, j - 1) = Place(s, m, j - 1)
      BY <1>5, <2>1, <3>0 DEF Place
    <3>2. s[j] # After(s, i) /\ s[j] \in Timers
      BY <1>1, <3>0, NamesAssumption DEF After, IsList, NULL
    <3>3. l.prev[s[j]] = Place(s, m, j - 1)
      BY <3>0 DEF IsList
    <3> QED  BY <1>3, <3>1, <3>2, <3>3
  <2>2. CASE j = i
    <3>0. /\ i # Len(s) /\ i + 1 \in 1 .. Len(s) /\ ~(j < i)
          /\ (j - 1 # 0 => j - 1 \in 1 .. Len(q) /\ j - 1 < i)
      BY <1>1, <1>4, <2>2
    <3>1. q[j] = After(s, i) /\ q[j] \in Timers /\ Place(q, m, j - 1) = Place(s, m, i - 1)
      BY <1>1, <1>5, <2>2, <3>0 DEF Place, After
    <3> QED  BY <1>3, <3>1
  <2>3. CASE j > i
    <3>0. /\ j + 1 \in 1 .. Len(s) /\ i # Len(s) /\ i + 1 \in 1 .. Len(s) /\ j + 1 # i + 1
          /\ ~(j < i) /\ j - 1 # 0 /\ j # 0 /\ j - 1 \in 1 .. Len(q) /\ ~(j - 1 < i) /\ (j - 1) + 1 = j
      BY <1>1, <1>4, <2>3
    <3>1. q[j] = s[j + 1] /\ Place(q, m, j - 1) = Place(s, m, j)
      BY <1>5, <3>0 DEF Place
    <3>2. s[j + 1] # After(s, i) /\ s[j + 1] \in Timers
      BY <1>1, <3>0, NamesAssumption DEF After, IsList, NULL
    <3>3. l.prev[s[j + 1]] = Place(s, m, j)
      <4>1. j + 1 \in 1 .. Len(s) /\ (j + 1) - 1 = j
        BY <1>1, <1>4
      <4> QED  BY <4>1 DEF IsList
    <3> QED  BY <1>3, <3>1, <3>2, <3>3
  <2> QED  BY <1>1, <1>4, <2>1, <2>2, <2>3
<1>9. IsList(r, m, q)
  BY <1>4, <1>6, <1>7, <1>8 DEF IsList
<1> QED  BY <1>3, <1>9 DEF r, q

(* The other list is not touched.                                          *)
LEMMA RemoveOther ==
  ASSUME NEW l \in ListType, NEW m \in Methods, NEW s, IsList(l, m, s), NEW i \in 1 .. Len(s),
         NEW o \in Methods, o # m, NEW q, IsList(l, o, q),
         \A j \in 1 .. Len(s), k \in 1 .. Len(q) : s[j] # q[k]
  PROVE  IsList(LIST_REMOVE(l, s[i]), o, q)
<1> DEFINE r == LIST_REMOVE(l, s[i])
<1>1. /\ Len(s) \in Nat
      /\ \A k \in 0 .. Len(s) : Place(s, m, k) \in Entries /\ Place(s, m, k) # NULL
      /\ \A k \in 1 .. Len(s) : s[k] \in Timers /\ Place(s, m, k) = s[k]
  BY PlaceIs
<1>2. l.prev[s[i]] = Place(s, m, i - 1) /\ l.link[s[i]] = After(s, i)
  <2>1. i \in 0 .. Len(s)
    BY <1>1
  <2> QED  BY <1>1, <2>1 DEF IsList
<1>3. /\ \A x \in Entries : r.link[x] = IF x = Place(s, m, i - 1) THEN After(s, i) ELSE l.link[x]
      /\ \A x \in Timers : r.prev[x] = IF x = After(s, i) THEN Place(s, m, i - 1) ELSE l.prev[x]
  <2>1. l.prev[s[i]] # NULL /\ s[i] \in Timers
    BY <1>1, <1>2
  <2> QED  BY <1>2, <2>1, RemoveFields
<1>4. /\ Len(q) \in Nat
      /\ \A k \in 0 .. Len(q) : Place(q, o, k) \in Entries
      /\ \A k \in 1 .. Len(q) : q[k] \in Timers /\ Place(q, o, k) = q[k]
  BY PlaceIs
<1>5. ASSUME NEW k \in 0 .. Len(q) PROVE Place(q, o, k) # Place(s, m, i - 1)
  <2>1. m \notin Timers /\ o \notin Timers
    BY NamesAssumption DEF Methods
  <2> QED  BY <1>1, <1>4, <2>1 DEF Place
<1>6. ASSUME NEW k \in 1 .. Len(q) PROVE q[k] # After(s, i)
  BY <1>1, <1>4, NamesAssumption DEF After, NULL
<1> HIDE DEF r
<1>7. \A k \in 0 .. Len(q) : r.link[Place(q, o, k)] = After(q, k)
  <2>1. \A k \in 0 .. Len(q) : r.link[Place(q, o, k)] = l.link[Place(q, o, k)]
    BY <1>3, <1>4, <1>5
  <2> QED  BY <2>1 DEF IsList
<1>8. \A k \in 1 .. Len(q) : r.prev[q[k]] = Place(q, o, k - 1)
  <2>1. \A k \in 1 .. Len(q) : r.prev[q[k]] = l.prev[q[k]]
    BY <1>3, <1>4, <1>6
  <2> QED  BY <2>1 DEF IsList
<1>9. IsList(r, o, q)
  BY <1>7, <1>8 DEF IsList
<1> QED  BY <1>9 DEF r

(* Inserting t behind the i-th place of a list puts it behind the i-th timer. *)
LEMMA InsertIs ==
  ASSUME NEW l \in ListType, NEW m \in Methods, NEW s, IsList(l, m, s), NEW i \in 0 .. Len(s),
         NEW t \in Timers, \A k \in 1 .. Len(s) : s[k] # t
  PROVE  /\ LIST_INSERT(l, Place(s, m, i), t) \in ListType
         /\ IsList(LIST_INSERT(l, Place(s, m, i), t), m, With(s, i, t))
<1> DEFINE r == LIST_INSERT(l, Place(s, m, i), t)
           q == With(s, i, t)
<1>1. /\ Len(s) \in Nat
      /\ \A k \in 0 .. Len(s) : Place(s, m, k) \in Entries /\ Place(s, m, k) # NULL
      /\ \A j, k \in 0 .. Len(s) : Place(s, m, j) = Place(s, m, k) => j = k
      /\ \A k \in 1 .. Len(s) : s[k] \in Timers /\ Place(s, m, k) = s[k]
  BY PlaceIs
<1>2. l.link[Place(s, m, i)] = After(s, i) /\ t \in Entries /\ t # NULL
  BY NamesAssumption DEF IsList, Entries, NULL
<1>0. \A k \in 0 .. Len(s) : Place(s, m, k) # t
  <2>1. m # t
    BY NamesAssumption DEF Methods
  <2> QED  BY <1>1, <2>1 DEF Place
<1>3. /\ r \in ListType
      /\ \A x \in Entries : r.link[x] = IF x = Place(s, m, i) THEN t ELSE IF x = t THEN After(s, i)
                                        ELSE l.link[x]
      /\ \A x \in Timers : r.prev[x] = IF x = t THEN Place(s, m, i) ELSE IF x = After(s, i) THEN t
                                       ELSE l.prev[x]
  <2>1. Place(s, m, i) \in Entries /\ Place(s, m, i) # t
    BY <1>0, <1>1
  <2> QED  BY <1>2, <2>1, InsertFields
<1> HIDE DEF r
<1>4. q \in Seq(Timers) /\ Len(q) = Len(s) + 1
  <2>1. q = [j \in 1 .. Len(s) + 1 |-> q[j]] /\ Len(s) + 1 \in Nat
    BY <1>1 DEF With
  <2>2. \A j \in 1 .. Len(s) + 1 : q[j] \in Timers
    <3>1. \A j \in 1 .. Len(s) + 1 : /\ (j <= i => j \in 1 .. Len(s))
                                     /\ (~(j <= i) /\ j # i + 1 => j - 1 \in 1 .. Len(s))
      BY <1>1
    <3> QED  BY <1>1, <3>1 DEF With
  <2> HIDE DEF q
  <2> QED  BY <2>1, <2>2
<1>5. \A j \in 1 .. Len(q) : q[j] = IF j <= i THEN s[j] ELSE IF j = i + 1 THEN t ELSE s[j - 1]
  BY <1>4 DEF With
<1> HIDE DEF q
<1>6. ASSUME NEW j \in 1 .. Len(q), NEW k \in 1 .. Len(q), q[j] = q[k] PROVE j = k
  <2> DEFINE a == IF j <= i THEN j ELSE j - 1
             b == IF k <= i THEN k ELSE k - 1
  <2>1. /\ (j # i + 1 => a \in 1 .. Len(s)) /\ (k # i + 1 => b \in 1 .. Len(s))
        /\ (j # i + 1 /\ k # i + 1 /\ a = b => j = k)
    BY <1>1, <1>4
  <2>2. (j # i + 1 => q[j] = s[a]) /\ (k # i + 1 => q[k] = s[b])
    BY <1>5
  <2>3. (j = i + 1 => q[j] = t) /\ (k = i + 1 => q[k] = t)
    BY <1>1, <1>5
  <2> HIDE DEF a, b
  <2>4. j # i + 1 /\ k # i + 1 => a = b
    BY <1>6, <2>1, <2>2 DEF IsList
  <2> QED  BY <1>6, <2>1, <2>2, <2>3, <2>4
<1>7. ASSUME NEW j \in 0 .. Len(q) PROVE r.link[Place(q, m, j)] = After(q, j)
  <2>1. CASE j < i
    <3>0. /\ j \in 0 .. Len(s) /\ j # i /\ j # Len(q) /\ j # Len(s)
          /\ j + 1 \in 1 .. Len(q) /\ j + 1 <= i /\ (j # 0 => j \in 1 .. Len(q) /\ j <= i)
      BY <1>1, <1>4, <2>1
    <3>1. Place(q, m, j) = Place(s, m, j) /\ After(q, j) = After(s, j)
      BY <1>5, <3>0 DEF Place, After
    <3>2. Place(s, m, j) # Place(s, m, i) /\ Place(s, m, j) \in Entries /\ Place(s, m, j) # t
      BY <1>0, <1>1, <3>0
    <3>3. l.link[Place(s, m, j)] = After(s, j)
      BY <3>0 DEF IsList
    <3> QED  BY <1>3, <3>1, <3>2, <3>3
  <2>2. CASE j = i
    <3>0. /\ j # Len(q) /\ j + 1 \in 1 .. Len(q) /\ ~(j + 1 <= i) /\ j + 1 = i + 1
          /\ (j # 0 => j \in 1 .. Len(q) /\ j <= i) /\ i \in 0 .. Len(s)
      BY <1>1, <1>4, <2>2
    <3>1. Place(q, m, j) = Place(s, m, i)
      BY <1>5, <2>2, <3>0 DEF Place
    <3>2. After(q, j) = t
      BY <1>5, <3>0 DEF After
    <3> QED  BY <1>1, <1>3, <3>0, <3>1, <3>2
  <2>3. CASE j = i + 1
    <3>0. /\ j # 0 /\ j \in 1 .. Len(q) /\ ~(j <= i) /\ (j = Len(q) <=> i = Len(s))
          /\ (j # Len(q) => j + 1 \in 1 .. Len(q) /\ ~(j + 1 <= i) /\ j + 1 # i + 1 /\ (j + 1) - 1 = i + 1)
          /\ i \in 0 .. Len(s)
      BY <1>1, <1>4, <2>3
    <3>1. Place(q, m, j) = t
      BY <1>5, <2>3, <3>0 DEF Place
    <3>2. After(q, j) = After(s, i)
      BY <1>5, <3>0 DEF After
    <3>3. Place(s, m, i) # t
      BY <1>0, <3>0
    <3> QED  BY <1>2, <1>3, <3>1, <3>2, <3>3
  <2>4. CASE j > i + 1
    <3>0. /\ j - 1 \in 0 .. Len(s) /\ j - 1 # i /\ j # 0 /\ j - 1 # 0
          /\ j \in 1 .. Len(q) /\ ~(j <= i) /\ j # i + 1 /\ (j = Len(q) <=> j - 1 = Len(s))
          /\ (j # Len(q) => j + 1 \in 1 .. Len(q) /\ ~(j + 1 <= i) /\ j + 1 # i + 1)
          /\ (j + 1) - 1 = (j - 1) + 1 /\ i \in 0 .. Len(s)
      BY <1>1, <1>4, <2>4
    <3>1. Place(q, m, j) = Place(s, m, j - 1)
      BY <1>5, <3>0 DEF Place
    <3>2. After(q, j) = After(s, j - 1)
      BY <1>5, <3>0 DEF After
    <3>3. /\ Place(s, m, j - 1) # Place(s, m, i) /\ Place(s, m, j - 1) \in Entries
          /\ Place(s, m, j - 1) # t
      BY <1>0, <1>1, <3>0
    <3>4. l.link[Place(s, m, j - 1)] = After(s, j - 1)
      BY <3>0 DEF IsList
    <3> QED  BY <1>3, <3>1, <3>2, <3>3, <3>4
  <2> QED  BY <1>1, <1>4, <2>1, <2>2, <2>3, <2>4
<1>8. ASSUME NEW j \in 1 .. Len(q) PROVE r.prev[q[j]] = Place(q, m, j - 1)
  <2>1. CASE j <= i
    <3>0. /\ j \in 1 .. Len(s) /\ (i # Len(s) => i + 1 \in 1 .. Len(s)) /\ j # i + 1
          /\ (j - 1 # 0 => j - 1 \in 1 .. Len(q) /\ j - 1 <= i)
      BY <1>1, <1>4, <2>1
    <3>1. q[j] = s[j] /\ Place(q, m, j - 1) = Place(s, m, j - 1)
      BY <1>5, <2>1, <3>0 DEF Place
    <3>2. s[j] # After(s, i) /\ s[j] \in Timers /\ s[j] # t
      BY <1>1, <3>0, NamesAssumption DEF After, IsList, NULL
    <3>3. l.prev[s[j]] = Place(s, m, j - 1)
      BY <3>0 DEF IsList
    <3> QED  BY <1>3, <3>1, <3>2, <3>3
  <2>2. CASE j = i + 1
    <3>0. /\ ~(j <= i) /\ j - 1 = i /\ (j - 1 # 0 => j - 1 \in 1 .. Len(q) /\ j - 1 <= i)
      BY <1>1, <1>4, <2>2
    <3>1. q[j] = t /\ Place(q, m, j - 1) = Place(s, m, i)
      BY <1>5, <2>2, <3>0 DEF Place
    <3> QED  BY <1>3, <3>1
  <2>3. CASE j = i + 2
    <3>0. /\ ~(j <= i) /\ j # i + 1 /\ j - 1 = i + 1 /\ i # Len(s) /\ i + 1 \in 1 .. Len(s)
          /\ j - 1 # 0 /\ j - 1 \in 1 .. Len(q) /\ ~(j - 1 <= i)
      BY <1>1, <1>4, <2>3
    <3>1. q[j] = After(s, i) /\ q[j] \in Timers /\ q[j] # t
      BY <1>1, <1>5, <3>0 DEF After
    <3>2. Place(q, m, j - 1) = t
      BY <1>5, <3>0 DEF Place
    <3> QED  BY <1>3, <3>1, <3>2
  <2>4. CASE j > i + 2
    <3>0. /\ j - 1 \in 1 .. Len(s) /\ i # Len(s) /\ i + 1 \in 1 .. Len(s) /\ j - 1 # i + 1
          /\ ~(j <= i) /\ j # i + 1 /\ j - 1 # 0 /\ (j - 1) - 1 # 0
          /\ j - 1 \in 1 .. Len(q) /\ ~(j - 1 <= i)
      BY <1>1, <1>4, <2>4
    <3>1. q[j] = s[j - 1]
      BY <1>5, <3>0
    <3>2. Place(q, m, j - 1) = Place(s, m, (j - 1) - 1)
      BY <1>5, <3>0 DEF Place
    <3>3. s[j - 1] # After(s, i) /\ s[j - 1] \in Timers /\ s[j - 1] # t
      BY <1>1, <3>0, NamesAssumption DEF After, IsList, NULL
    <3>4. l.prev[s[j - 1]] = Place(s, m, (j - 1) - 1)
      BY <3>0 DEF IsList
    <3> QED  BY <1>3, <3>1, <3>2, <3>3, <3>4
  <2> QED  BY <1>1, <1>4, <2>1, <2>2, <2>3, <2>4
<1>9. IsList(r, m, q)
  BY <1>4, <1>6, <1>7, <1>8 DEF IsList
<1> QED  BY <1>3, <1>9 DEF r, q

(* The other list is not touched.                                          *)
LEMMA InsertOther ==
  ASSUME NEW l \in ListType, NEW m \in Methods, NEW s, IsList(l, m, s), NEW i \in 0 .. Len(s),
         NEW t \in Timers, \A k \in 1 .. Len(s) : s[k] # t,
         NEW o \in Methods, o # m, NEW q, IsList(l, o, q),
         \A j \in 1 .. Len(s), k \in 1 .. Len(q) : s[j] # q[k], \A k \in 1 .. Len(q) : q[k] # t
  PROVE  IsList(LIST_INSERT(l, Place(s, m, i), t), o, q)
<1> DEFINE r == LIST_INSERT(l, Place(s, m, i), t)
<1>1. /\ Len(s) \in Nat
      /\ \A k \in 0 .. Len(s) : Place(s, m, k) \in Entries /\ Place(s, m, k) # NULL
      /\ \A k \in 1 .. Len(s) : s[k] \in Timers /\ Place(s, m, k) = s[k]
  BY PlaceIs
<1>2. l.link[Place(s, m, i)] = After(s, i) /\ t \in Entries /\ t # NULL /\ m # t /\ o # t
      /\ m \notin Timers /\ o \notin Timers
  BY NamesAssumption DEF IsList, Entries, NULL, Methods
<1>3. /\ \A x \in Entries : r.link[x] = IF x = Place(s, m, i) THEN t ELSE IF x = t THEN After(s, i)
                                        ELSE l.link[x]
      /\ \A x \in Timers : r.prev[x] = IF x = t THEN Place(s, m, i) ELSE IF x = After(s, i) THEN t
                                       ELSE l.prev[x]
  <2>1. Place(s, m, i) \in Entries /\ Place(s, m, i) # t
    BY <1>1, <1>2 DEF Place
  <2> QED  BY <1>2, <2>1, InsertFields
<1>4. /\ Len(q) \in Nat
      /\ \A k \in 0 .. Len(q) : Place(q, o, k) \in Entries
      /\ \A k \in 1 .. Len(q) : q[k] \in Timers /\ Place(q, o, k) = q[k]
  BY PlaceIs
<1>5. ASSUME NEW k \in 0 .. Len(q) PROVE Place(q, o, k) # Place(s, m, i) /\ Place(q, o, k) # t
  BY <1>1, <1>2, <1>4 DEF Place
<1>6. ASSUME NEW k \in 1 .. Len(q) PROVE q[k] # After(s, i)
  BY <1>1, <1>4, NamesAssumption DEF After, NULL
<1> HIDE DEF r
<1>7. \A k \in 0 .. Len(q) : r.link[Place(q, o, k)] = After(q, k)
  <2>1. \A k \in 0 .. Len(q) : r.link[Place(q, o, k)] = l.link[Place(q, o, k)]
    BY <1>3, <1>4, <1>5
  <2> QED  BY <2>1 DEF IsList
<1>8. \A k \in 1 .. Len(q) : r.prev[q[k]] = Place(q, o, k - 1)
  <2>1. \A k \in 1 .. Len(q) : r.prev[q[k]] = l.prev[q[k]]
    BY <1>3, <1>4, <1>6
  <2> QED  BY <2>1 DEF IsList
<1>9. IsList(r, o, q)
  BY <1>7, <1>8 DEF IsList
<1> QED  BY <1>9 DEF r

Alarms(tm) == \A t \in Timers : tm[t].alarm \in Nat

(* timer_insert finds the place behind the timers that are not later.      *)
LEMMA InsertPlace ==
  ASSUME NEW l \in ListType, NEW m \in Methods, NEW s, IsList(l, m, s), Ascends(timer, s),
         Alarms(timer), NEW t \in Timers, NEW a \in Nat
  PROVE  \E i \in 0 .. Len(s) :
           /\ timer_insert(l, t, a, m) = LIST_INSERT(l, Place(s, m, i), t)
           /\ \A j \in 1 .. Len(s) : /\ (j <= i => timer[s[j]].alarm <= a)
                                     /\ (i < j => a <= timer[s[j]].alarm)
<1>1. Chain(l, m) = s
  BY ChainIs
<1>2. s \in Seq(Timers) /\ Len(s) \in Nat /\ DOMAIN s = 1 .. Len(s)
  BY DEF IsList
<1>3. \A j \in 1 .. Len(s) : timer[s[j]].alarm \in Nat
  BY <1>2 DEF Alarms
<1> DEFINE later == {n \in DOMAIN s : a < timer[s[n]].alarm}
           link == CASE s = <<>>     -> m
                     [] later # {}   -> l.prev[s[Min(later)]]
                     [] OTHER        -> Last(s)
<1>4. timer_insert(l, t, a, m) = LIST_INSERT(l, link, t)
  BY <1>1 DEF timer_insert
<1>5. CASE s = <<>>
  <2>1. link = Place(s, m, 0) /\ Len(s) = 0
    BY <1>5 DEF Place
  <2>2. 0 \in 0 .. Len(s) /\ \A j \in 1 .. Len(s) : FALSE
    BY <2>1
  <2> QED  BY <1>4, <2>1, <2>2
<1>6. CASE s # <<>> /\ later = {}
  <2>1. link = Place(s, m, Len(s)) /\ Len(s) \in 0 .. Len(s) /\ Len(s) # 0
    BY <1>2, <1>6 DEF Place, Last
  <2>2. \A j \in 1 .. Len(s) : timer[s[j]].alarm <= a /\ ~(Len(s) < j)
    BY <1>2, <1>3, <1>6
  <2> QED  BY <1>4, <2>1, <2>2
<1>7. CASE s # <<>> /\ later # {}
  <2>1. \E x \in later : \A y \in later : x <= y
    <3>1. later \in SUBSET Nat
      BY <1>2
    <3> HIDE DEF later
    <3> QED  BY <1>7, <3>1, LeastNat
  <2>2. Min(later) \in later /\ \A y \in later : Min(later) <= y
    <3> HIDE DEF later
    <3> QED  BY <2>1 DEF Min
  <2> DEFINE n == Min(later)
  <2> HIDE DEF n
  <2>3. n \in 1 .. Len(s) /\ a < timer[s[n]].alarm /\ link = l.prev[s[n]]
    BY <1>2, <1>7, <2>2 DEF n
  <2>4. \A j \in 1 .. Len(s) : a < timer[s[j]].alarm => n <= j
    BY <1>2, <2>2 DEF n
  <2> HIDE DEF later
  <2>5. link = Place(s, m, n - 1) /\ n - 1 \in 0 .. Len(s)
    <3>1. l.prev[s[n]] = Place(s, m, n - 1)
      BY <2>3 DEF IsList
    <3>2. n - 1 \in 0 .. Len(s)
      BY <1>2, <2>3
    <3> QED  BY <2>3, <3>1, <3>2
  <2> HIDE DEF link
  <2>6. ASSUME NEW j \in 1 .. Len(s), j <= n - 1 PROVE timer[s[j]].alarm <= a
    <3>1. ~(n <= j)
      BY <1>2, <2>3, <2>6
    <3> QED  BY <1>3, <2>4, <3>1
  <2>7. ASSUME NEW j \in 1 .. Len(s), n - 1 < j PROVE a <= timer[s[j]].alarm
    <3>1. n = j \/ n < j
      BY <1>2, <2>3, <2>7
    <3>2. timer[s[n]].alarm <= timer[s[j]].alarm
      BY <1>3, <2>3, <3>1 DEF Ascends
    <3> QED  BY <1>3, <2>3, <3>2
  <2> QED  BY <1>4, <2>5, <2>6, <2>7
<1> QED  BY <1>5, <1>6, <1>7

(* Removing a timer from its list leaves the rest of the two lists.        *)
LEMMA KeepsRemove ==
  ASSUME NEW l \in ListType, NEW tm, NEW m \in Methods, NEW o \in Methods, o # m,
         NEW A \in SUBSET Timers, NEW B \in SUBSET Timers, A \intersect B = {},
         Keeps(l, tm, m, A), Keeps(l, tm, o, B), NEW t \in A
  PROVE  LET r == LIST_REMOVE(l, t)
         IN  r \in ListType /\ Keeps(r, tm, m, A \ {t}) /\ Keeps(r, tm, o, B)
<1> DEFINE r == LIST_REMOVE(l, t)
<1>1. PICK s \in Seq(Timers) : IsList(l, m, s) /\ Consists(s, A) /\ Ascends(tm, s)
  BY DEF Keeps
<1>2. PICK q \in Seq(Timers) : IsList(l, o, q) /\ Consists(q, B) /\ Ascends(tm, q)
  BY DEF Keeps
<1>3. PICK i \in 1 .. Len(s) : s[i] = t
  BY <1>1 DEF Consists
<1> DEFINE w == Without(s, i)
<1>4. r \in ListType /\ IsList(r, m, w)
  BY <1>1, <1>3, RemoveIs
<1>5. IsList(r, o, q)
  <2>1. \A j \in 1 .. Len(s), k \in 1 .. Len(q) : s[j] # q[k]
    BY <1>1, <1>2 DEF Consists
  <2> QED  BY <1>1, <1>2, <1>3, <2>1, RemoveOther
<1>6. w \in Seq(Timers) /\ Len(w) \in Nat
  BY <1>4 DEF IsList
<1>7. /\ Len(s) \in Nat /\ Len(w) = Len(s) - 1
      /\ \A j \in 1 .. Len(w) : w[j] = IF j < i THEN s[j] ELSE s[j + 1]
  <2>1. Len(s) \in Nat /\ Len(s) - 1 \in Nat
    BY <1>3
  <2> QED  BY <2>1 DEF Without
<1> HIDE DEF w, r
<1>8. Consists(w, A \ {t})
  <2>1. ASSUME NEW j \in 1 .. Len(w) PROVE w[j] \in A \ {t}
    <3> DEFINE k == IF j < i THEN j ELSE j + 1
    <3>1. k \in 1 .. Len(s) /\ k # i /\ w[j] = s[k]
      BY <1>7
    <3> HIDE DEF k
    <3>2. s[k] \in A
      BY <1>1, <3>1 DEF Consists
    <3>3. s[k] # t
      BY <1>1, <1>3, <3>1 DEF IsList
    <3> QED  BY <3>1, <3>2, <3>3
  <2>2. ASSUME NEW x \in A \ {t} PROVE \E j \in 1 .. Len(w) : w[j] = x
    <3>1. PICK k \in 1 .. Len(s) : s[k] = x
      BY <1>1 DEF Consists
    <3>2. k # i
      BY <1>3, <3>1
    <3> DEFINE j == IF k < i THEN k ELSE k - 1
    <3>3. j \in 1 .. Len(w) /\ (j < i <=> k < i) /\ (~(k < i) => j + 1 = k) /\ (k < i => j = k)
      BY <1>7, <3>2
    <3> HIDE DEF j
    <3>4. w[j] = s[k]
      BY <1>7, <3>3
    <3> QED  BY <3>1, <3>3, <3>4
  <2> QED  BY <2>1, <2>2 DEF Consists
<1>9. Ascends(tm, w)
  <2> SUFFICES ASSUME NEW j \in 1 .. Len(w), NEW k \in 1 .. Len(w), j < k
               PROVE  tm[w[j]].alarm <= tm[w[k]].alarm
    BY DEF Ascends
  <2> DEFINE a == IF j < i THEN j ELSE j + 1
             b == IF k < i THEN k ELSE k + 1
  <2>1. a \in 1 .. Len(s) /\ b \in 1 .. Len(s) /\ a < b /\ w[j] = s[a] /\ w[k] = s[b]
    BY <1>7
  <2> HIDE DEF a, b
  <2> QED  BY <1>1, <2>1 DEF Ascends
<1>10. Keeps(r, tm, m, A \ {t})
  BY <1>4, <1>6, <1>8, <1>9 DEF Keeps
<1>11. Keeps(r, tm, o, B)
  BY <1>2, <1>5 DEF Keeps
<1> QED  BY <1>4, <1>10, <1>11 DEF r

\* List m of l holds the timers A, list o the timers B, and t is in neither; with
\* the fields tm its alarm is a, and those of A are what they were.
Insertable(l, m, A, o, B, t, a, tm) ==
    /\ l \in ListType /\ Alarms(timer) /\ m \in Methods /\ o \in Methods /\ o # m
    /\ A \in SUBSET Timers /\ B \in SUBSET Timers /\ A \intersect B = {}
    /\ Keeps(l, timer, m, A) /\ Keeps(l, timer, o, B)
    /\ t \in Timers /\ t \notin A /\ t \notin B /\ a \in Nat
    /\ tm[t].alarm = a /\ \A x \in A : tm[x].alarm = timer[x].alarm

(* timer_insert puts a timer where its alarm belongs.                      *)
LEMMA KeepsInsert ==
  ASSUME NEW l, NEW m, NEW A, NEW o, NEW B, NEW t, NEW a, NEW tm,
         Insertable(l, m, A, o, B, t, a, tm)
  PROVE  LET r == timer_insert(l, t, a, m)
         IN  /\ r \in ListType /\ Keeps(r, tm, m, A \union {t}) /\ Keeps(r, timer, o, B)
             /\ r.link[m] \in {t, l.link[m]}
<1>a. /\ l \in ListType /\ Alarms(timer) /\ m \in Methods /\ o \in Methods /\ o # m
      /\ A \in SUBSET Timers /\ B \in SUBSET Timers /\ A \intersect B = {}
      /\ Keeps(l, timer, m, A) /\ Keeps(l, timer, o, B)
      /\ t \in Timers /\ t \notin A /\ t \notin B /\ a \in Nat
      /\ tm[t].alarm = a /\ \A x \in A : tm[x].alarm = timer[x].alarm
  BY DEF Insertable
<1> USE <1>a
<1> DEFINE r == timer_insert(l, t, a, m)
<1>1. PICK s \in Seq(Timers) : IsList(l, m, s) /\ Consists(s, A) /\ Ascends(timer, s)
  BY DEF Keeps
<1>2. PICK q \in Seq(Timers) : IsList(l, o, q) /\ Consists(q, B) /\ Ascends(timer, q)
  BY DEF Keeps
<1>3. PICK i \in 0 .. Len(s) :
           /\ timer_insert(l, t, a, m) = LIST_INSERT(l, Place(s, m, i), t)
           /\ \A j \in 1 .. Len(s) : /\ (j <= i => timer[s[j]].alarm <= a)
                                     /\ (i < j => a <= timer[s[j]].alarm)
  BY <1>1, InsertPlace
<1> DEFINE w == With(s, i, t)
<1>0. \A k \in 1 .. Len(s) : s[k] # t
  BY <1>1 DEF Consists
<1>4. r \in ListType /\ IsList(r, m, w)
  <2>1. LIST_INSERT(l, Place(s, m, i), t) \in ListType /\ IsList(LIST_INSERT(l, Place(s, m, i), t), m, w)
    BY <1>0, <1>1, InsertIs
  <2> QED  BY <1>3, <2>1
<1>5. IsList(r, o, q)
  <2>1. \A j \in 1 .. Len(s), k \in 1 .. Len(q) : s[j] # q[k]
    BY <1>1, <1>2 DEF Consists
  <2>2. \A k \in 1 .. Len(q) : q[k] # t
    BY <1>2 DEF Consists
  <2>3. IsList(LIST_INSERT(l, Place(s, m, i), t), o, q)
    BY <1>0, <1>1, <1>2, <2>1, <2>2, InsertOther
  <2> QED  BY <1>3, <2>3
<1>6. w \in Seq(Timers) /\ Len(w) \in Nat
  BY <1>4 DEF IsList
<1>7. /\ Len(s) \in Nat /\ Len(w) = Len(s) + 1
      /\ \A j \in 1 .. Len(w) : w[j] = IF j <= i THEN s[j] ELSE IF j = i + 1 THEN t ELSE s[j - 1]
  <2>1. Len(s) \in Nat /\ Len(s) + 1 \in Nat
    OBVIOUS
  <2> QED  BY <2>1 DEF With
<1> HIDE DEF w, r
<1>8. Consists(w, A \union {t})
  <2>1. ASSUME NEW j \in 1 .. Len(w) PROVE w[j] \in A \union {t}
    <3> DEFINE k == IF j <= i THEN j ELSE j - 1
    <3>1. j # i + 1 => k \in 1 .. Len(s) /\ w[j] = s[k]
      BY <1>7
    <3>2. j = i + 1 => w[j] = t
      BY <1>7
    <3> HIDE DEF k
    <3> QED  BY <1>1, <3>1, <3>2 DEF Consists
  <2>2. ASSUME NEW x \in A PROVE \E j \in 1 .. Len(w) : w[j] = x
    <3>1. PICK k \in 1 .. Len(s) : s[k] = x
      BY <1>1 DEF Consists
    <3> DEFINE j == IF k <= i THEN k ELSE k + 1
    <3>3. /\ j \in 1 .. Len(w) /\ (j <= i <=> k <= i) /\ (~(k <= i) => j - 1 = k) /\ (k <= i => j = k)
          /\ j # i + 1
      BY <1>7
    <3> HIDE DEF j
    <3>4. w[j] = s[k]
      BY <1>7, <3>3
    <3> QED  BY <3>1, <3>3, <3>4
  <2>3. i + 1 \in 1 .. Len(w) /\ w[i + 1] = t
    BY <1>7
  <2> QED  BY <2>1, <2>2, <2>3 DEF Consists
<1>9. Ascends(tm, w)
  <2> SUFFICES ASSUME NEW j \in 1 .. Len(w), NEW k \in 1 .. Len(w), j < k
               PROVE  tm[w[j]].alarm <= tm[w[k]].alarm
    BY DEF Ascends
  <2> DEFINE x == IF j <= i THEN j ELSE j - 1
             y == IF k <= i THEN k ELSE k - 1
  <2>1. /\ j # i + 1 => x \in 1 .. Len(s) /\ w[j] = s[x]
        /\ k # i + 1 => y \in 1 .. Len(s) /\ w[k] = s[y]
    BY <1>7
  <2>2. /\ j # i + 1 /\ k # i + 1 => x < y
        /\ j = i + 1 => i < y /\ k # i + 1
        /\ k = i + 1 => x <= i /\ j # i + 1
        /\ j = i + 1 => w[j] = t
        /\ k = i + 1 => w[k] = t
    BY <1>7
  <2> HIDE DEF x, y
  <2>3. \A n \in 1 .. Len(s) : tm[s[n]].alarm = timer[s[n]].alarm
    BY <1>1 DEF Consists
  <2>4. CASE j = i + 1
    BY <1>3, <2>1, <2>2, <2>3, <2>4
  <2>5. CASE k = i + 1
    BY <1>3, <2>1, <2>2, <2>3, <2>5
  <2>6. CASE j # i + 1 /\ k # i + 1
    BY <1>1, <2>1, <2>2, <2>3, <2>6 DEF Ascends
  <2> QED  BY <2>4, <2>5, <2>6
<1>10. Keeps(r, tm, m, A \union {t})
  BY <1>4, <1>6, <1>8, <1>9 DEF Keeps
<1>11. Keeps(r, timer, o, B)
  BY <1>2, <1>5 DEF Keeps
<1>12. r.link[m] \in {t, l.link[m]}
  <2>1. 0 \in 0 .. Len(w) /\ 0 \in 0 .. Len(s) /\ Len(w) # 0 /\ 0 + 1 = 1 /\ 1 \in 1 .. Len(w)
    BY <1>7
  <2>2. r.link[m] = w[1]
    <3>1. r.link[Place(w, m, 0)] = After(w, 0)
      BY <1>4, <2>1 DEF IsList
    <3> QED  BY <2>1, <3>1 DEF Place, After
  <2>3. l.link[Place(s, m, 0)] = After(s, 0)
    BY <1>1, <2>1 DEF IsList
  <2>4. w[1] = IF 1 <= i THEN s[1] ELSE t
    BY <1>7, <2>1
  <2>5. 1 <= i => Len(s) # 0
    BY <1>7
  <2> QED  BY <2>1, <2>2, <2>3, <2>4, <2>5 DEF Place, After
<1> QED  BY <1>4, <1>10, <1>11, <1>12 DEF r

(* Only the alarms of its own timers matter to a list.                     *)
LEMMA KeepsSame ==
  ASSUME NEW l, NEW m, NEW A \in SUBSET Timers, NEW tm, NEW tn, Keeps(l, tm, m, A),
         \A t \in A : tn[t].alarm = tm[t].alarm
  PROVE  Keeps(l, tn, m, A)
<1>1. PICK s \in Seq(Timers) : IsList(l, m, s) /\ Consists(s, A) /\ Ascends(tm, s)
  BY DEF Keeps
<1>2. Ascends(tn, s)
  BY <1>1 DEF Ascends, Consists
<1> QED  BY <1>1, <1>2 DEF Keeps

(* The head of a list points to the timer whose alarm is the first.        *)
LEMMA KeepsFirst ==
  ASSUME NEW l, NEW m \in Methods, NEW A \in SUBSET Timers, NEW tm, Alarms(tm), Keeps(l, tm, m, A)
  PROVE  /\ l.link[m] = NULL => A = {}
         /\ l.link[m] # NULL => l.link[m] \in A /\ \A t \in A : tm[l.link[m]].alarm <= tm[t].alarm
<1>1. PICK s \in Seq(Timers) : IsList(l, m, s) /\ Consists(s, A) /\ Ascends(tm, s)
  BY DEF Keeps
<1>2. l.link[m] = IF 0 = Len(s) THEN NULL ELSE s[1]
  <2>1. 0 \in 0 .. Len(s) /\ 0 + 1 = 1
    OBVIOUS
  <2>2. l.link[Place(s, m, 0)] = After(s, 0)
    BY <1>1, <2>1 DEF IsList
  <2> QED  BY <2>1, <2>2 DEF Place, After
<1>3. CASE Len(s) = 0
  BY <1>1, <1>2, <1>3 DEF Consists
<1>4. CASE Len(s) # 0
  <2>1. 1 \in 1 .. Len(s) /\ s[1] \in A /\ s[1] # NULL
    <3>1. 1 \in 1 .. Len(s)
      BY <1>4
    <3> QED  BY <1>1, <3>1, NamesAssumption DEF Consists, NULL
  <2>2. ASSUME NEW t \in A PROVE tm[s[1]].alarm <= tm[t].alarm
    <3>1. PICK k \in 1 .. Len(s) : s[k] = t
      BY <1>1 DEF Consists
    <3>2. 1 = k \/ 1 < k
      OBVIOUS
    <3>3. tm[t].alarm \in Nat
      BY DEF Alarms
    <3> QED  BY <1>1, <2>1, <3>1, <3>2, <3>3 DEF Ascends
  <2> QED  BY <1>2, <1>4, <2>1, <2>2
<1> QED  BY <1>3, <1>4

-----------------------------------------------------------------------------
(* The two lists *)

\* The timers that are armed for list m, by their fields tm and memory mm.
ArmedIn(tm, mm, m) ==
    {t \in Timers : mm[t] # "none" /\ tm[t].alarm > 0 /\ (IF tm[t].isr THEN "ISR" ELSE "TASK") = m}
Lists(l, tm, mm) ==
    l \in ListType /\ \A m \in Methods : Keeps(l, tm, m, ArmedIn(tm, mm, m))
\* The same, but timer t is in neither list.
ListsBut(l, tm, mm, t) ==
    l \in ListType /\ \A m \in Methods : Keeps(l, tm, m, ArmedIn(tm, mm, m) \ {t})

(* There are just two lists.                                               *)
LEMMA OtherIs ==
  ASSUME NEW m \in Methods
  PROVE  Other(m) \in Methods /\ Other(m) # m /\ \A n \in Methods : n = m \/ n = Other(m)
BY DEF Methods, Other

(* Removing an armed timer.                                                *)
LEMMA ListsRemove ==
  ASSUME NEW l, NEW tm, NEW mm, Lists(l, tm, mm), NEW m \in Methods, NEW t \in ArmedIn(tm, mm, m)
  PROVE  /\ ListsBut(LIST_REMOVE(l, t), tm, mm, t)
         /\ l.link[m] # t => LIST_REMOVE(l, t).link[m] = l.link[m]
<1> DEFINE A == ArmedIn(tm, mm, m)
           B == ArmedIn(tm, mm, Other(m))
           r == LIST_REMOVE(l, t)
<1>1. A \in SUBSET Timers /\ B \in SUBSET Timers /\ A \intersect B = {} /\ t \in A /\ t \notin B
  BY OtherIs DEF ArmedIn
<1>2. l \in ListType /\ Keeps(l, tm, m, A) /\ Keeps(l, tm, Other(m), B)
  BY OtherIs DEF Lists
<1> HIDE DEF A, B, r
<1>3. r \in ListType /\ Keeps(r, tm, m, A \ {t}) /\ Keeps(r, tm, Other(m), B)
  <2>1. Other(m) \in Methods /\ Other(m) # m
    BY OtherIs
  <2> QED  BY <1>1, <1>2, <2>1, KeepsRemove DEF r
<1>4. B = B \ {t}
  BY <1>1
<1>5. \A n \in Methods : Keeps(r, tm, n, ArmedIn(tm, mm, n) \ {t})
  <2>1. Keeps(r, tm, Other(m), B \ {t})
    BY <1>3, <1>4
  <2> QED  BY <1>3, <2>1, OtherIs DEF A, B
<1>6. ASSUME l.link[m] # t PROVE r.link[m] = l.link[m]
  <2>1. PICK s \in Seq(Timers) : IsList(l, m, s) /\ Consists(s, A)
    BY <1>2 DEF Keeps
  <2>2. PICK i \in 1 .. Len(s) : s[i] = t
    BY <1>1, <2>1 DEF Consists
  <2>3. l.prev[t] = Place(s, m, i - 1)
    BY <2>1, <2>2 DEF IsList
  <2>4. /\ \A k \in 0 .. Len(s) : Place(s, m, k) # NULL
        /\ \A j, k \in 0 .. Len(s) : Place(s, m, j) = Place(s, m, k) => j = k
        /\ Len(s) \in Nat
    BY <1>2, <2>1, PlaceIs
  <2>5. i # 1
    <3>1. 0 \in 0 .. Len(s) /\ 0 # Len(s) /\ 0 + 1 = 1
      BY <2>4
    <3>2. l.link[Place(s, m, 0)] = After(s, 0)
      BY <2>1, <3>1 DEF IsList
    <3> QED  BY <1>6, <2>2, <3>1, <3>2 DEF Place, After
  <2>6. i - 1 \in 0 .. Len(s) /\ 0 \in 0 .. Len(s) /\ i - 1 # 0
    BY <2>4, <2>5
  <2>7. l.prev[t] # m /\ l.prev[t] # NULL
    <3>1. Place(s, m, 0) = m
      BY DEF Place
    <3> QED  BY <2>3, <2>4, <2>6, <3>1
  <2>8. t \in Timers /\ m \in Entries
    BY <1>1 DEF Entries
  <2>9. r.link[m] = IF m = l.prev[t] THEN l.link[t] ELSE l.link[m]
    BY <1>2, <2>7, <2>8, RemoveFields DEF r
  <2> QED  BY <2>7, <2>9
<1> QED  BY <1>3, <1>5, <1>6 DEF ListsBut, r

(* A removed timer that is armed no more.                                  *)
LEMMA ListsLess ==
  ASSUME NEW l, NEW tm, NEW mm, NEW t \in Timers, ListsBut(l, tm, mm, t), NEW tn, NEW mn,
         \A x \in Timers \ {t} : tn[x] = tm[x] /\ mn[x] = mm[x],
         mn[t] = "none" \/ tn[t].alarm = 0
  PROVE  Lists(l, tn, mn)
<1> SUFFICES ASSUME NEW m \in Methods PROVE Keeps(l, tn, m, ArmedIn(tn, mn, m))
  BY DEF Lists, ListsBut
<1>1. ArmedIn(tn, mn, m) = ArmedIn(tm, mm, m) \ {t}
  BY DEF ArmedIn
<1> DEFINE A == ArmedIn(tm, mm, m) \ {t}
<1>2. A \in SUBSET Timers /\ \A x \in A : tn[x].alarm = tm[x].alarm
  BY DEF ArmedIn
<1>3. Keeps(l, tm, m, A)
  BY DEF ListsBut
<1> HIDE DEF A
<1>4. Keeps(l, tn, m, A)
  BY <1>2, <1>3, KeepsSame
<1> QED  BY <1>1, <1>4 DEF A

(* A timer that is in neither list, being disarmed.                        *)
LEMMA ListsDisarmed ==
  ASSUME NEW l, NEW tm, NEW mm, NEW t \in Timers, Lists(l, tm, mm),
         mm[t] = "none" \/ tm[t].alarm = 0
  PROVE  ListsBut(l, tm, mm, t)
<1> SUFFICES ASSUME NEW m \in Methods PROVE Keeps(l, tm, m, ArmedIn(tm, mm, m) \ {t})
  BY DEF Lists, ListsBut
<1>1. ArmedIn(tm, mm, m) = ArmedIn(tm, mm, m) \ {t}
  BY DEF ArmedIn
<1>2. Keeps(l, tm, m, ArmedIn(tm, mm, m))
  BY DEF Lists
<1> QED  BY <1>1, <1>2

\* The lists without t, and fields and memory in which t is armed for list m.
Armable(l, m, t, a, tn, mn) ==
    /\ m \in Methods /\ t \in Timers /\ Alarms(timer) /\ ListsBut(l, timer, mem, t)
    /\ a \in Nat /\ a > 0 /\ \A x \in Timers \ {t} : tn[x] = timer[x] /\ mn[x] = mem[x]
    /\ mn[t] # "none" /\ tn[t].alarm = a /\ (IF tn[t].isr THEN "ISR" ELSE "TASK") = m

(* timer_insert arms a timer for its list.                                 *)
LEMMA ListsInsert ==
  ASSUME NEW l, NEW m, NEW t, NEW a, NEW tn, NEW mn, Armable(l, m, t, a, tn, mn)
  PROVE  /\ Lists(timer_insert(l, t, a, m), tn, mn)
         /\ timer_insert(l, t, a, m).link[m] \in {t, l.link[m]}
<1> USE DEF Armable
<1> DEFINE A == ArmedIn(timer, mem, m) \ {t}
           B == ArmedIn(timer, mem, Other(m)) \ {t}
           r == timer_insert(l, t, a, m)
<1>0. Other(m) \in Methods /\ Other(m) # m /\ \A n \in Methods : n = m \/ n = Other(m)
  BY OtherIs
<1>1. A \in SUBSET Timers /\ B \in SUBSET Timers /\ A \intersect B = {} /\ t \notin A /\ t \notin B
  BY <1>0 DEF ArmedIn
<1>2. l \in ListType /\ Keeps(l, timer, m, A) /\ Keeps(l, timer, Other(m), B)
  BY <1>0 DEF ListsBut
<1>3. (\A x \in A : tn[x].alarm = timer[x].alarm) /\ (\A x \in B : tn[x].alarm = timer[x].alarm)
  BY DEF ArmedIn
<1>4. ArmedIn(tn, mn, m) = A \union {t} /\ ArmedIn(tn, mn, Other(m)) = B
  BY <1>0 DEF ArmedIn
<1> HIDE DEF A, B, r
<1>5. /\ r \in ListType /\ Keeps(r, tn, m, A \union {t}) /\ Keeps(r, timer, Other(m), B)
      /\ r.link[m] \in {t, l.link[m]}
  <2>1. Insertable(l, m, A, Other(m), B, t, a, tn)
    BY <1>0, <1>1, <1>2, <1>3 DEF Insertable
  <2>2. LET q == timer_insert(l, t, a, m)
        IN  /\ q \in ListType /\ Keeps(q, tn, m, A \union {t}) /\ Keeps(q, timer, Other(m), B)
            /\ q.link[m] \in {t, l.link[m]}
    BY <2>1, KeepsInsert
  <2> QED  BY <2>2 DEF r
<1>6. Keeps(r, tn, Other(m), B)
  BY <1>1, <1>3, <1>5, KeepsSame
<1>7. \A n \in Methods : Keeps(r, tn, n, ArmedIn(tn, mn, n))
  BY <1>0, <1>4, <1>5, <1>6
<1> QED  BY <1>5, <1>7 DEF Lists, r

(* The heads of the lists.                                                 *)
LEMMA ListsFirst ==
  ASSUME NEW l, NEW tm, NEW mm, Lists(l, tm, mm), Alarms(tm), NEW m \in Methods
  PROVE  /\ l.link[m] \in Timers \union {NULL}
         /\ l.link[m] # NULL => l.link[m] \in ArmedIn(tm, mm, m)
<1> DEFINE A == ArmedIn(tm, mm, m)
<1>1. A \in SUBSET Timers /\ Keeps(l, tm, m, A) /\ l \in ListType
  BY DEF ArmedIn, Lists
<1>2. l.link[m] \in Timers \union {NULL}
  BY <1>1 DEF ListType, Entries
<1> HIDE DEF A
<1>3. l.link[m] # NULL => l.link[m] \in A
  BY <1>1, KeepsFirst
<1> QED  BY <1>2, <1>3 DEF A

(* What the lists promise.                                                 *)
LEMMA ListsHold ==
  ASSUME Lists(list, timer, mem), Alarms(timer)
  PROVE  InOrder
<1> SUFFICES ASSUME NEW m \in Methods
             PROVE  LET s == Chain(list, m)
                        armed == ArmedIn(timer, mem, m)
                    IN  /\ Range(s) = armed /\ Len(s) = Cardinality(armed)
                        /\ \A n \in 1 .. Len(s) : list.prev[s[n]] = IF n = 1 THEN m ELSE s[n - 1]
                        /\ \A n \in 2 .. Len(s) : timer[s[n - 1]].alarm <= timer[s[n]].alarm
  BY DEF InOrder, ArmedIn, timer_armed, Method
<1> DEFINE A == ArmedIn(timer, mem, m)
<1>1. A \in SUBSET Timers /\ Keeps(list, timer, m, A)
  BY DEF ArmedIn, Lists
<1> HIDE DEF A
<1>2. PICK s \in Seq(Timers) : IsList(list, m, s) /\ Consists(s, A) /\ Ascends(timer, s)
  BY <1>1 DEF Keeps
<1>3. Chain(list, m) = s
  BY <1>2, ChainIs
<1>4. Len(s) \in Nat /\ DOMAIN s = 1 .. Len(s)
  OBVIOUS
<1>5. Range(s) = A
  BY <1>2, <1>4 DEF Consists, Range
<1>6. Len(s) = Cardinality(A)
  <2>1. s \in Bijection(1 .. Len(s), A)
    <3>1. s \in [1 .. Len(s) -> A]
      BY <1>2, <1>4 DEF Consists
    <3>2. \A i, j \in 1 .. Len(s) : s[i] = s[j] => i = j
      BY <1>2 DEF IsList
    <3>3. \A x \in A : \E i \in 1 .. Len(s) : s[i] = x
      BY <1>2 DEF Consists
    <3> QED  BY <3>1, <3>2, <3>3, <1>4 DEF Bijection, Injection, Surjection, IsInjective
  <2>2. IsFiniteSet(1 .. Len(s)) /\ Cardinality(1 .. Len(s)) = Len(s)
    <3>1. 1 \in Int /\ Len(s) \in Int
      BY <1>4
    <3>2. IsFiniteSet(1 .. Len(s)) /\ Cardinality(1 .. Len(s)) = IF 1 > Len(s) THEN 0 ELSE Len(s) - 1 + 1
      BY <3>1, FS_Interval
    <3> QED  BY <1>4, <3>2
  <2>3. Cardinality(1 .. Len(s)) = Cardinality(A)
    BY <2>1, <2>2, FS_Bijection DEF ExistsBijection
  <2> QED  BY <2>2, <2>3
<1>7. \A n \in 1 .. Len(s) : list.prev[s[n]] = IF n = 1 THEN m ELSE s[n - 1]
  <2>1. \A n \in 1 .. Len(s) : n - 1 = 0 <=> n = 1
    BY <1>4
  <2> QED  BY <1>2, <2>1 DEF IsList, Place
<1>8. \A n \in 2 .. Len(s) : timer[s[n - 1]].alarm <= timer[s[n]].alarm
  <2>1. \A n \in 2 .. Len(s) : n - 1 \in 1 .. Len(s) /\ n \in 1 .. Len(s) /\ n - 1 < n
    BY <1>4
  <2> QED  BY <1>2, <2>1 DEF Ascends
<1> QED  BY <1>3, <1>5, <1>6, <1>7, <1>8 DEF A

-----------------------------------------------------------------------------
(* The inductive invariant *)

Fields == [alarm : Nat, period : Nat, isr : BOOLEAN, del : BOOLEAN]
CallType == [op : {"none", "start", "restart", "delete"}, t : Timers \union {NULL},
             alarm : Nat, period : Nat]

TypeOK ==
    /\ supports_isr \in BOOLEAN /\ now \in Nat \ {0}
    /\ timestamp_id \in [Methods -> Nat] /\ target \in Nat /\ pending \in BOOLEAN
    /\ timer \in [Timers -> Fields] /\ mem \in [Timers -> {"none", "live", "deleted"}]
    /\ pc \in [Methods -> {"wait", "entry", "loop", "again", "taken", "callback"}]
    /\ it \in [Methods -> Timers \union {NULL}]
    /\ processed \in [Methods -> BOOLEAN] /\ notified \in BOOLEAN
    /\ call \in [Callers -> CallType]

\* A timer that is to be freed is marked, and one that is free is not armed.
MemInv ==
    \A t \in Timers : /\ timer[t].del <=> mem[t] = "deleted"
                      /\ mem[t] = "none" => timer[t].alarm = 0

\* A call has a timer that exists, and none is in use by another call when it is
\* deleted.
CallInv ==
    \A c \in Callers : call[c].op # "none" =>
        /\ call[c].t \in Timers /\ mem[call[c].t] = "live"
        /\ call[c].op \in {"start", "delete"} => call[c].alarm > 0
        /\ call[c].op = "delete" =>
             \A d \in Callers : call[d].op # "none" /\ call[d].t = call[c].t => d = c

\* The timer whose callback is about to be called exists, unless it is one of the
\* interrupt handler's and was deleted after the handler had taken it.
TakenInv ==
    \A m \in Methods : pc[m] = "taken" =>
        it[m] \in Timers /\ (mem[it[m]] = "live" \/ (m = "ISR" /\ "delete" \in overtaken))

\* A build without ISR timers has none, and its handler only notifies the task.
BuildInv ==
    ~supports_isr => pc["ISR"] = "wait" /\ \A t \in Timers : ~timer[t].isr

\* In a build without ISR timers somebody will look at the first timer again.
Covers ==
    ~supports_isr /\ First("TASK") # NULL =>
      \/ target <= timer[First("TASK")].alarm
      \/ pending \/ notified \/ pc["TASK"] # "wait"

StateInv == TypeOK /\ MemInv /\ CallInv /\ TakenInv /\ BuildInv
TimerInv == StateInv /\ Lists(list, timer, mem) /\ Covers

-----------------------------------------------------------------------------
(* Arithmetic and the alarm *)

(* Min of two numbers.                                                     *)
LEMMA MinIs ==
  ASSUME NEW a \in Nat, NEW b \in Nat
  PROVE  Min({a, b}) \in Nat /\ Min({a, b}) <= a /\ Min({a, b}) <= b
<1>1. \E x \in {a, b} : \A y \in {a, b} : x <= y
  <2>1. CASE a <= b
    BY <2>1
  <2>2. CASE b <= a
    BY <2>2
  <2> QED  BY <2>1, <2>2
<1> DEFINE S == {a, b}
<1> HIDE DEF S
<1>2. Min(S) \in S /\ \A y \in S : Min(S) <= y
  BY <1>1 DEF Min, S
<1> QED  BY <1>2 DEF S

(* Max of two numbers.                                                     *)
LEMMA MaxIs ==
  ASSUME NEW a \in Nat, NEW b \in Nat
  PROVE  Max({a, b}) \in Nat /\ Max({a, b}) >= a /\ Max({a, b}) >= b
<1>1. \E x \in {a, b} : \A y \in {a, b} : x >= y
  <2>1. CASE a <= b
    BY <2>1
  <2>2. CASE b <= a
    BY <2>2
  <2> QED  BY <2>1, <2>2
<1> DEFINE S == {a, b}
<1> HIDE DEF S
<1>2. Max(S) \in S /\ \A y \in S : Max(S) >= y
  BY <1>1 DEF Max, S
<1> QED  BY <1>2 DEF S

(* After set_alarm_id an interrupt is pending or the hardware will raise one *)
(* no later than the last value.                                             *)
LEMMA AlarmSet ==
  ASSUME TypeOK, NEW m \in Methods, NEW s \in Seq(Nat), set_alarm_id(m, s)
  PROVE  /\ timestamp_id' \in [Methods -> Nat] /\ target' \in Nat /\ pending' \in BOOLEAN
         /\ s = <<>> => UNCHANGED hardware
         /\ s # <<>> => pending' \/ target' <= Last(s)
<1>1. CASE s = <<>>
  BY <1>1 DEF set_alarm_id, hardware, TypeOK
<1>2. CASE s # <<>>
  <2> DEFINE v == Last(s)
             x == timestamp_id[Other(m)]
             w == Min({v, x})
             any == \E n \in DOMAIN s : Min({s[n], x}) <= now
  <2>1. v \in Nat /\ Len(s) \in DOMAIN s /\ v = s[Len(s)]
    BY <1>2 DEF Last
  <2>2. x \in Nat
    BY OtherIs DEF TypeOK
  <2>3. /\ timestamp_id' = [timestamp_id EXCEPT ![m] = v]
        /\ pending' = (pending \/ any)
        /\ target' = IF w <= now THEN UINT64_MAX ELSE w
    BY <1>2 DEF set_alarm_id
  <2> HIDE DEF x
  <2>4. w \in Nat /\ w <= v
    <3> HIDE DEF v
    <3> QED  BY <2>1, <2>2, MinIs
  <2>5. w <= now => any
    BY <2>1
  <2> HIDE DEF any, w, v
  <2>6. timestamp_id' \in [Methods -> Nat]
    BY <2>1, <2>3 DEF TypeOK
  <2>7. target' \in Nat
    BY <2>3, <2>4 DEF UINT64_MAX
  <2>8. pending' \in BOOLEAN
    BY <2>3 DEF TypeOK
  <2>9. pending' \/ target' <= v
    <3>1. CASE w <= now
      BY <2>3, <2>5, <3>1
    <3>2. CASE ~(w <= now)
      BY <2>3, <2>4, <3>2
    <3> QED  BY <3>1, <3>2
  <2> QED  BY <1>2, <2>6, <2>7, <2>8, <2>9 DEF v
<1> QED  BY <1>1, <1>2

(* The alarms that removing a timer asks for.                              *)
LEMMA RemoveAlarms ==
  ASSUME TypeOK, NEW t \in Timers, list \in ListType, Removed(t) \in ListType
  PROVE  AlarmsOfRemove(t) \in Seq(Nat)
<1>1. Method(t) \in Methods
  BY DEF Method, Methods
<1>2. Removed(t).link[Method(t)] \in Timers \union {NULL}
  BY <1>1 DEF ListType, Entries
<1>3. \A x \in Timers : timer[x].alarm \in Nat
  BY DEF TypeOK, Fields
<1> QED  BY <1>2, <1>3 DEF AlarmsOfRemove, UINT64_MAX

(* The first timer of a list is armed for it.                              *)
LEMMA FirstIs ==
  ASSUME TimerInv, NEW m \in Methods
  PROVE  /\ Alarms(timer) /\ First(m) \in Timers \union {NULL} /\ NULL \notin Timers
         /\ First(m) # NULL => /\ First(m) \in ArmedIn(timer, mem, m)
                               /\ First(m) \in Timers /\ mem[First(m)] # "none"
                               /\ timer[First(m)].alarm > 0 /\ Method(First(m)) = m
<1>1. Alarms(timer)
  BY DEF TimerInv, StateInv, TypeOK, Fields, Alarms
<1>2. /\ list.link[m] \in Timers \union {NULL}
      /\ list.link[m] # NULL => list.link[m] \in ArmedIn(timer, mem, m)
  BY <1>1, ListsFirst DEF TimerInv
<1>3. NULL \notin Timers
  BY NamesAssumption DEF NULL
<1> QED  BY <1>1, <1>2, <1>3 DEF First, ArmedIn, Method

-----------------------------------------------------------------------------
(* Steps that leave the timers and the lists alone *)

(* Nothing of the lists has changed.                                       *)
LEMMA ListsSame ==
  ASSUME Lists(list, timer, mem), UNCHANGED <<list, timer, mem>>
  PROVE  Lists(list', timer', mem')
OBVIOUS

(* Time passes, and the hardware alarm fires.                              *)
LEMMA TickKeeps ==
  ASSUME TimerInv, Tick
  PROVE  TimerInv'
<1>1. Lists(list, timer, mem)'
  BY ListsSame DEF TimerInv, Tick
<1> USE DEF TimerInv, StateInv, Tick, dispatch
<1>2. TypeOK'
  BY DEF TypeOK, UINT64_MAX
<1>3. MemInv' /\ CallInv' /\ TakenInv' /\ BuildInv'
  BY DEF MemInv, CallInv, TakenInv, BuildInv
<1>4. Covers'
  BY DEF Covers, First, TypeOK
<1> QED  BY <1>1, <1>2, <1>3, <1>4

(* The interrupt handler is entered.                                       *)
LEMMA IsrKeeps ==
  ASSUME TimerInv, timer_alarm_isr
  PROVE  TimerInv'
<1>1. Lists(list, timer, mem)'
  BY ListsSame DEF TimerInv, timer_alarm_isr
<1> USE DEF TimerInv, StateInv, timer_alarm_isr, env
<1>2. TypeOK'
  BY DEF TypeOK, Methods
<1>3. MemInv' /\ CallInv'
  BY DEF MemInv, CallInv
<1>4. TakenInv' /\ BuildInv'
  BY DEF TakenInv, BuildInv, TypeOK, Methods
<1>5. Covers'
  BY DEF Covers, First, TypeOK
<1> QED  BY <1>1, <1>2, <1>3, <1>4, <1>5

(* The handler sets the alarm of the list that did not fire.               *)
LEMMA NextAlarmKeeps ==
  ASSUME TimerInv, try_to_set_next_alarm
  PROVE  TimerInv'
<1>1. Lists(list, timer, mem)'
  BY ListsSame DEF TimerInv, try_to_set_next_alarm
<1> DEFINE m == IF timestamp_id["TASK"] < timestamp_id["ISR"] THEN "TASK" ELSE "ISR"
<1>2. m \in Methods /\ <<UINT64_MAX>> \in Seq(Nat)
  BY DEF Methods, UINT64_MAX
<1>3. timestamp_id' \in [Methods -> Nat] /\ target' \in Nat /\ pending' \in BOOLEAN
  <2>1. CASE timestamp_id[Other(m)] # UINT64_MAX
    <3>1. set_alarm_id(m, <<UINT64_MAX>>)
      BY <2>1 DEF try_to_set_next_alarm
    <3> HIDE DEF m
    <3> QED  BY <1>2, <3>1, AlarmSet DEF TimerInv, StateInv
  <2>2. CASE timestamp_id[Other(m)] = UINT64_MAX
    <3>1. timestamp_id' = [timestamp_id EXCEPT ![m] = UINT64_MAX] /\ UNCHANGED <<target, pending>>
      BY <2>2 DEF try_to_set_next_alarm
    <3> HIDE DEF m
    <3> QED  BY <1>2, <3>1 DEF TimerInv, StateInv, TypeOK, UINT64_MAX
  <2> QED  BY <2>1, <2>2
<1> HIDE DEF m
<1>4. /\ pc["ISR"] = "entry" /\ pc' = [pc EXCEPT !["ISR"] = "loop"]
      /\ UNCHANGED <<env, overtaken, timer, mem, list, it, processed, notified, call, calls>>
  BY DEF try_to_set_next_alarm
<1> USE DEF TimerInv, StateInv, env
<1>5. TypeOK'
  BY <1>3, <1>4 DEF TypeOK, Methods
<1>6. MemInv' /\ CallInv'
  BY <1>4 DEF MemInv, CallInv
<1>7. TakenInv' /\ BuildInv'
  BY <1>4 DEF TakenInv, BuildInv, TypeOK, Methods
<1>8. supports_isr
  BY <1>4 DEF BuildInv
<1>9. Covers'
  BY <1>4, <1>8 DEF Covers
<1> QED  BY <1>1, <1>5, <1>6, <1>7, <1>9

(* The timer task wakes up.                                                *)
LEMMA TaskKeeps ==
  ASSUME TimerInv, timer_task
  PROVE  TimerInv'
<1>1. Lists(list, timer, mem)'
  BY ListsSame DEF TimerInv, timer_task
<1> USE DEF TimerInv, StateInv, timer_task, env, hardware
<1>2. TypeOK'
  BY DEF TypeOK, Methods
<1>3. MemInv' /\ CallInv'
  BY DEF MemInv, CallInv
<1>4. TakenInv' /\ BuildInv'
  BY DEF TakenInv, BuildInv, TypeOK, Methods
<1>5. Covers'
  BY DEF Covers, First, TypeOK, Methods
<1> QED  BY <1>1, <1>2, <1>3, <1>4, <1>5

(* A callback is called, and returns.                                      *)
LEMMA CallbackKeeps ==
  ASSUME TimerInv, NEW m \in Methods, process_call(m) \/ callback_return(m)
  PROVE  TimerInv'
<1>1. /\ UNCHANGED <<env, overtaken, hardware, timer, mem, list, processed, notified, call, calls>>
      /\ pc[m] \in {"taken", "callback"}
      /\ \E p \in {"callback", "loop"} : pc' = [pc EXCEPT ![m] = p]
      /\ \E t \in Timers \union {NULL} : it' = [it EXCEPT ![m] = t]
  BY DEF process_call, callback_return, TimerInv, StateInv, TypeOK
<1>2. Lists(list, timer, mem)'
  BY <1>1, ListsSame DEF TimerInv
<1> USE DEF TimerInv, StateInv, env, hardware
<1>3. TypeOK'
  BY <1>1 DEF TypeOK
<1>4. MemInv' /\ CallInv'
  BY <1>1 DEF MemInv, CallInv
<1>5. TakenInv' /\ BuildInv'
  BY <1>1 DEF TakenInv, BuildInv, TypeOK
<1>6. Covers'
  BY <1>1 DEF Covers, First, TypeOK, Methods
<1> QED  BY <1>2, <1>3, <1>4, <1>5, <1>6

(* The loop ends and sets the alarm for the first timer.                   *)
LEMMA EndKeeps ==
  ASSUME TimerInv, NEW m \in Methods, process_end(m)
  PROVE  TimerInv'
<1> DEFINE s == CASE First(m) # NULL /\ (m = "TASK" \/ processed[m])
                              -> <<timer[First(m)].alarm>>
                  [] First(m) = NULL /\ processed[m] -> <<UINT64_MAX>>
                  [] OTHER -> <<>>
<1>1. /\ set_alarm_id(m, s) /\ notified' = (notified \/ (m = "ISR" /\ ~processed[m]))
      /\ pc' = [pc EXCEPT ![m] = "wait"] /\ processed' = [processed EXCEPT ![m] = FALSE]
      /\ pc[m] \in {"loop", "again"}
      /\ UNCHANGED <<env, overtaken, timer, mem, list, it, call, calls>>
  BY DEF process_end, Round
<1>2. Lists(list, timer, mem)'
  BY <1>1, ListsSame DEF TimerInv
<1>3. s \in Seq(Nat) /\ (First(m) # NULL /\ m = "TASK" => s = <<timer[First(m)].alarm>>)
  <2>1. First(m) # NULL => timer[First(m)].alarm \in Nat
    BY FirstIs DEF Alarms
  <2> QED  BY <2>1 DEF UINT64_MAX
<1> HIDE DEF s
<1>4. /\ timestamp_id' \in [Methods -> Nat] /\ target' \in Nat /\ pending' \in BOOLEAN
      /\ s # <<>> => pending' \/ target' <= Last(s)
  BY <1>1, <1>3, AlarmSet DEF TimerInv, StateInv
<1>5. First(m) # NULL /\ m = "TASK" => pending' \/ target' <= timer[First(m)].alarm
  <2> SUFFICES ASSUME First(m) # NULL, m = "TASK" PROVE pending' \/ target' <= timer[First(m)].alarm
    OBVIOUS
  <2>1. s = <<timer[First(m)].alarm>>
    BY <1>3
  <2>2. s # <<>> /\ Last(s) = timer[First(m)].alarm
    BY <2>1 DEF Last
  <2> QED  BY <1>4, <2>2
<1> USE DEF TimerInv, StateInv, env
<1>6. TypeOK'
  BY <1>1, <1>4 DEF TypeOK
<1>7. MemInv' /\ CallInv'
  BY <1>1 DEF MemInv, CallInv
<1>8. TakenInv' /\ BuildInv'
  BY <1>1 DEF TakenInv, BuildInv, TypeOK
<1>9. Covers'
  <2>1. CASE m = "TASK"
    BY <1>1, <1>5, <2>1 DEF Covers, First
  <2>2. CASE m = "ISR"
    BY <1>1, <2>2 DEF Covers, BuildInv
  <2> QED  BY <2>1, <2>2 DEF Methods
<1> QED  BY <1>2, <1>6, <1>7, <1>8, <1>9

-----------------------------------------------------------------------------
(* The beginning of a call *)

(* A call has looked at its timer and comes to the lock.                   *)
LEMMA EnterKeeps ==
  ASSUME TimerInv, NEW c \in Callers, NEW t \in Timers, Calling(c, t),
         NEW op \in {"start", "restart", "delete"}, NEW a \in Nat, NEW p \in Nat,
         Enter(c, op, t, a, p), op \in {"start", "delete"} => a > 0,
         op = "delete" => Using(t) = {}
  PROVE  TimerInv'
<1>1. /\ call' = [call EXCEPT ![c] = [op |-> op, t |-> t, alarm |-> a, period |-> p]]
      /\ UNCHANGED <<env, overtaken, hardware, timer, mem, list, dispatch>>
      /\ call[c].op = "none" /\ mem[t] = "live"
  BY DEF Enter, Calling, NoCall
<1>2. Lists(list, timer, mem)'
  BY <1>1, ListsSame DEF TimerInv
<1> USE DEF TimerInv, StateInv, env, hardware, dispatch
<1>3. TypeOK'
  BY <1>1 DEF TypeOK, CallType
<1>4. MemInv'
  BY <1>1 DEF MemInv
<1>5. CallInv'
  <2>1. \A d \in Callers : d # c => call'[d] = call[d]
    BY <1>1 DEF TypeOK
  <2>2. call'[c] = [op |-> op, t |-> t, alarm |-> a, period |-> p]
    BY <1>1 DEF TypeOK
  <2>3. \A d \in Callers : call[d].op = "delete" => call[d].t # t
    BY DEF Calling, Deleting, Using
  <2>4. op = "delete" => \A d \in Callers : call[d].t # t
    BY DEF Using
  <2>5. timer' = timer /\ mem' = mem
    BY <1>1
  <2> SUFFICES ASSUME NEW d \in Callers, call'[d].op # "none"
               PROVE /\ call'[d].t \in Timers /\ mem[call'[d].t] = "live"
                     /\ call'[d].op \in {"start", "delete"} => call'[d].alarm > 0
                     /\ call'[d].op = "delete" =>
                          \A e \in Callers : call'[e].op # "none" /\ call'[e].t = call'[d].t => e = d
    BY <2>5 DEF CallInv
  <2>6. CASE d = c
    BY <1>1, <2>1, <2>2, <2>4, <2>6
  <2>7. CASE d # c
    BY <2>1, <2>2, <2>3, <2>7 DEF CallInv
  <2> QED  BY <2>6, <2>7
<1>6. TakenInv' /\ BuildInv'
  BY <1>1 DEF TakenInv, BuildInv
<1>7. Covers'
  BY <1>1 DEF Covers, First
<1> QED  BY <1>2, <1>3, <1>4, <1>5, <1>6, <1>7

(* A caller returns without having changed a timer.                        *)
LEMMA ReturnKeeps ==
  ASSUME TimerInv, NEW c \in Callers, Return(c),
         UNCHANGED <<env, overtaken, hardware, timer, mem, list, dispatch>>
  PROVE  TimerInv'
<1>1. Lists(list, timer, mem)'
  BY ListsSame DEF TimerInv
<1> USE DEF TimerInv, StateInv, env, hardware, dispatch, Return, NoCall
<1>2. TypeOK'
  BY DEF TypeOK, CallType
<1>3. MemInv'
  BY DEF MemInv
<1>4. CallInv'
  BY DEF CallInv, TypeOK
<1>5. TakenInv' /\ BuildInv'
  BY DEF TakenInv, BuildInv
<1>6. Covers'
  BY DEF Covers, First
<1> QED  BY <1>1, <1>2, <1>3, <1>4, <1>5, <1>6

-----------------------------------------------------------------------------
(* Steps that change a timer *)

(* A timer is created.                                                     *)
LEMMA CreateKeeps ==
  ASSUME TimerInv, NEW t \in Timers, NEW isr \in BOOLEAN, esp_timer_create(t, isr)
  PROVE  TimerInv'
<1>1. /\ mem[t] = "none" /\ (isr => supports_isr)
      /\ mem' = [mem EXCEPT ![t] = "live"]
      /\ timer' = [timer EXCEPT ![t] = [alarm |-> 0, period |-> 0, isr |-> isr, del |-> FALSE]]
      /\ UNCHANGED <<env, overtaken, hardware, list, dispatch, call, calls>>
  BY DEF esp_timer_create, Fresh, DispatchMethods
<1> USE DEF TimerInv, StateInv, env, hardware, dispatch
<1>2. /\ \A x \in Timers \ {t} : timer'[x] = timer[x] /\ mem'[x] = mem[x]
      /\ timer'[t].alarm = 0 /\ timer'[t].isr = isr /\ timer'[t].del = FALSE /\ mem'[t] = "live"
      /\ timer[t].alarm = 0
  BY <1>1 DEF TypeOK, MemInv
<1>3. Lists(list', timer', mem')
  <2>1. ListsBut(list, timer, mem, t)
    BY <1>1, ListsDisarmed
  <2>2. Lists(list, timer', mem')
    BY <1>2, <2>1, ListsLess
  <2> QED  BY <1>1, <2>2
<1>4. TypeOK'
  BY <1>1 DEF TypeOK, Fields
<1>5. MemInv'
  BY <1>2 DEF MemInv
<1>6. CallInv'
  <2>1. \A c \in Callers : call[c].op # "none" => call[c].t # t
    BY <1>1 DEF CallInv
  <2> QED  BY <1>1, <1>2, <2>1 DEF CallInv
<1>7. TakenInv' /\ BuildInv'
  BY <1>1, <1>2 DEF TakenInv, BuildInv
<1>8. Covers'
  <2>1. First("TASK") # NULL => First("TASK") \in Timers /\ First("TASK") # t
    BY <1>2, FirstIs DEF Methods
  <2> QED  BY <1>1, <1>2, <2>1 DEF Covers, First
<1> QED  BY <1>3, <1>4, <1>5, <1>6, <1>7, <1>8

(* The timer task or the handler frees a timer that was deleted.           *)
LEMMA DeleteKeeps ==
  ASSUME TimerInv, NEW m \in Methods, process_delete(m)
  PROVE  TimerInv'
<1> DEFINE t == First(m)
<1>1. /\ pc[m] \in {"loop", "again"} /\ t # NULL /\ timer[t].del
      /\ mem' = [mem EXCEPT ![t] = "none"]
      /\ timer' = [timer EXCEPT ![t] = [alarm |-> 0, period |-> 0, isr |-> FALSE, del |-> FALSE]]
      /\ list' = LIST_REMOVE(list, t)
      /\ processed' = [processed EXCEPT ![m] = TRUE]
      /\ pc' = [pc EXCEPT ![m] = "again"]
      /\ UNCHANGED <<env, overtaken, hardware, it, notified, call, calls>>
  BY DEF process_delete, Round, Due, Fresh
<1>2. t \in ArmedIn(timer, mem, m) /\ t \in Timers
  BY <1>1, FirstIs
<1> HIDE DEF t
<1> USE DEF TimerInv, StateInv, env, hardware
<1>3. /\ \A x \in Timers \ {t} : timer'[x] = timer[x] /\ mem'[x] = mem[x]
      /\ timer'[t].alarm = 0 /\ timer'[t].isr = FALSE /\ timer'[t].del = FALSE /\ mem'[t] = "none"
      /\ mem[t] = "deleted"
  BY <1>1, <1>2 DEF TypeOK, MemInv
<1>4. Lists(list', timer', mem')
  <2>1. ListsBut(LIST_REMOVE(list, t), timer, mem, t)
    BY <1>2, ListsRemove
  <2>2. Lists(LIST_REMOVE(list, t), timer', mem')
    BY <1>2, <1>3, <2>1, ListsLess
  <2> QED  BY <1>1, <2>2
<1>5. TypeOK'
  BY <1>1 DEF TypeOK, Fields
<1>6. MemInv'
  BY <1>3 DEF MemInv
<1>7. CallInv'
  <2>1. \A c \in Callers : call[c].op # "none" => call[c].t # t
    BY <1>3 DEF CallInv
  <2> QED  BY <1>1, <1>3, <2>1 DEF CallInv
<1>8. TakenInv' /\ BuildInv'
  BY <1>1, <1>3 DEF TakenInv, BuildInv, TypeOK
<1>9. Covers'
  <2>1. CASE m = "TASK"
    BY <1>1, <2>1 DEF Covers, TypeOK
  <2>2. CASE m = "ISR"
    BY <1>1, <2>2 DEF Covers, BuildInv
  <2> QED  BY <2>1, <2>2 DEF Methods
<1> QED  BY <1>4, <1>5, <1>6, <1>7, <1>8, <1>9

(* A timer is taken from its list, and put back if it is periodic.         *)
LEMMA TimerKeeps ==
  ASSUME TimerInv, NEW m \in Methods, process_timer(m)
  PROVE  TimerInv'
<1> DEFINE t == First(m)
           next == CASE timer[t].period = 0         -> 0
                     [] timer[t].period > 0 /\ t \in Skip
                        /\ (now - timer[t].alarm) \div timer[t].period > 1 -> now + timer[t].period
                     [] OTHER                       -> timer[t].alarm + timer[t].period
<1>1. /\ pc[m] \in {"loop", "again"} /\ t # NULL /\ ~timer[t].del
      /\ timer' = [timer EXCEPT ![t].alarm = next]
      /\ list' = IF next = 0 THEN LIST_REMOVE(list, t)
                 ELSE timer_insert(LIST_REMOVE(list, t), t, next, m)
      /\ it' = [it EXCEPT ![m] = t]
      /\ processed' = [processed EXCEPT ![m] = TRUE]
      /\ pc' = [pc EXCEPT ![m] = "taken"]
      /\ UNCHANGED <<env, overtaken, hardware, mem, notified, call, calls>>
  BY DEF process_timer, Round, Due
<1>2. /\ t \in ArmedIn(timer, mem, m) /\ t \in Timers /\ Method(t) = m /\ Alarms(timer)
      /\ timer[t].alarm > 0 /\ mem[t] # "none"
  BY <1>1, FirstIs
<1> USE DEF TimerInv, StateInv, env, hardware
<1>3. next \in Nat
  <2>1. timer[t].alarm \in Nat /\ timer[t].period \in Nat /\ now \in Nat
    BY <1>2 DEF TypeOK, Fields
  <2>2. next \in {0, now + timer[t].period, timer[t].alarm + timer[t].period}
    OBVIOUS
  <2> QED  BY <2>1, <2>2
<1> HIDE DEF t, next
<1>4. /\ \A x \in Timers \ {t} : timer'[x] = timer[x] /\ mem'[x] = mem[x]
      /\ timer'[t].alarm = next /\ timer'[t].isr = timer[t].isr /\ timer'[t].del = timer[t].del
      /\ mem'[t] = "live" /\ mem' = mem
  BY <1>1, <1>2 DEF TypeOK, MemInv, Fields
<1>5. Lists(list', timer', mem')
  <2>1. ListsBut(LIST_REMOVE(list, t), timer, mem, t)
    BY <1>2, ListsRemove
  <2>2. CASE next = 0
    <3>1. Lists(LIST_REMOVE(list, t), timer', mem')
      BY <1>2, <1>4, <2>1, <2>2, ListsLess
    <3> QED  BY <1>1, <2>2, <3>1
  <2>3. CASE next # 0
    <3>1. (IF timer'[t].isr THEN "ISR" ELSE "TASK") = m /\ next > 0 /\ mem'[t] # "none"
      BY <1>2, <1>3, <1>4, <2>3 DEF Method
    <3>2. Lists(timer_insert(LIST_REMOVE(list, t), t, next, m), timer', mem')
      <4>1. Armable(LIST_REMOVE(list, t), m, t, next, timer', mem')
        BY <1>2, <1>3, <1>4, <2>1, <3>1 DEF Armable
      <4> QED  BY <4>1, ListsInsert
    <3> QED  BY <1>1, <2>3, <3>2
  <2> QED  BY <2>2, <2>3
<1>6. TypeOK'
  <2>1. timer' \in [Timers -> Fields]
    BY <1>1, <1>2, <1>3 DEF TypeOK, Fields
  <2> QED  BY <1>1, <1>2, <2>1 DEF TypeOK
<1>7. MemInv'
  BY <1>4 DEF MemInv
<1>8. CallInv'
  BY <1>1, <1>4 DEF CallInv
<1>9. TakenInv' /\ BuildInv'
  <2>1. TakenInv'
    <3>1. overtaken' = overtaken /\ mem' = mem /\ mem[t] = "live"
      BY <1>1, <1>4
    <3>2. pc'[m] = "taken" /\ it'[m] = t /\ \A n \in Methods \ {m} : pc'[n] = pc[n] /\ it'[n] = it[n]
      BY <1>1 DEF TypeOK
    <3> QED  BY <1>2, <3>1, <3>2 DEF TakenInv
  <2>2. BuildInv'
    BY <1>1, <1>2, <1>4 DEF BuildInv, TypeOK, Method
  <2> QED  BY <2>1, <2>2
<1>10. Covers'
  <2>1. CASE m = "TASK"
    BY <1>1, <2>1 DEF Covers, TypeOK
  <2>2. CASE m = "ISR"
    BY <1>1, <2>2 DEF Covers, BuildInv
  <2> QED  BY <2>1, <2>2 DEF Methods
<1> QED  BY <1>5, <1>6, <1>7, <1>8, <1>9, <1>10

(* A timer that was not armed is put into its list.                        *)
LEMMA InsertKeeps ==
  ASSUME TimerInv, NEW t \in Timers, NEW f \in Fields, f.alarm > 0, f.isr => supports_isr,
         timer[t].alarm = 0, Insert(t, f), UNCHANGED <<env, dispatch>>,
         mem'[t] # "none", \A x \in Timers \ {t} : mem'[x] = mem[x]
  PROVE  /\ Lists(list', timer', mem') /\ Covers'
         /\ timer' = [timer EXCEPT ![t] = f]
         /\ timestamp_id' \in [Methods -> Nat] /\ target' \in Nat /\ pending' \in BOOLEAN
<1> DEFINE m == IF f.isr THEN "ISR" ELSE "TASK"
           s == IF list'.link[m] = t THEN <<f.alarm>> ELSE <<>>
<1>1. /\ timer' = [timer EXCEPT ![t] = f] /\ list' = timer_insert(list, t, f.alarm, m)
      /\ set_alarm_id(m, s)
  BY DEF Insert
<1>2. m \in Methods /\ s \in Seq(Nat) /\ f.alarm \in Nat /\ (~supports_isr => m = "TASK")
  BY DEF Methods, Fields
<1> USE DEF TimerInv, StateInv, env, dispatch
<1>3. timer'[t] = f /\ \A x \in Timers \ {t} : timer'[x] = timer[x]
  BY <1>1 DEF TypeOK
<1>4. ListsBut(list, timer, mem, t) /\ Alarms(timer)
  BY <1>2, FirstIs, ListsDisarmed
<1>5. (IF timer'[t].isr THEN "ISR" ELSE "TASK") = m /\ timer'[t].alarm = f.alarm
  BY <1>3
<1> HIDE DEF m
<1>6. /\ Lists(timer_insert(list, t, f.alarm, m), timer', mem')
      /\ timer_insert(list, t, f.alarm, m).link[m] \in {t, list.link[m]}
  <2> DEFINE a == f.alarm
  <2>1. a \in Nat /\ a > 0 /\ timer'[t].alarm = a
    BY <1>2, <1>5
  <2>2. \A x \in Timers \ {t} : timer'[x] = timer[x] /\ mem'[x] = mem[x]
    BY <1>3
  <2> HIDE DEF TimerInv, StateInv, s, a
  <2>3. Armable(list, m, t, a, timer', mem')
    BY <1>2, <1>4, <1>5, <2>1, <2>2 DEF Armable
  <2>4. /\ Lists(timer_insert(list, t, a, m), timer', mem')
        /\ timer_insert(list, t, a, m).link[m] \in {t, list.link[m]}
    BY <2>3, ListsInsert
  <2> QED  BY <2>4 DEF a
<1>7. /\ timestamp_id' \in [Methods -> Nat] /\ target' \in Nat /\ pending' \in BOOLEAN
      /\ s = <<>> => UNCHANGED hardware
      /\ s # <<>> => pending' \/ target' <= Last(s)
  <2> HIDE DEF s
  <2> QED  BY <1>1, <1>2, AlarmSet
<1>8. Covers'
  <2>1. CASE supports_isr
    BY <2>1 DEF Covers
  <2>2. CASE ~supports_isr
    <3>1. m = "TASK" /\ First("TASK")' = list'.link[m]
      BY <1>2, <2>2 DEF First
    <3>2. CASE list'.link[m] = t
      <4>1. s # <<>> /\ Last(s) = f.alarm
        BY <3>2 DEF Last
      <4> QED  BY <1>5, <1>7, <3>1, <3>2, <4>1 DEF Covers
    <3>3. CASE list'.link[m] # t
      <4>1. s = <<>>
        BY <3>3
      <4>2. list'.link[m] = First("TASK")
        BY <1>1, <1>6, <3>1, <3>3 DEF First
      <4>3. First("TASK") # NULL => timer'[First("TASK")] = timer[First("TASK")]
        BY <1>2, <1>3, <3>1, FirstIs
      <4> QED  BY <1>7, <3>1, <4>1, <4>2, <4>3 DEF Covers, hardware
    <3> QED  BY <3>2, <3>3
  <2> QED  BY <2>1, <2>2
<1> QED  BY <1>1, <1>6, <1>7, <1>8

(* A timer is started.                                                     *)
LEMMA StartKeeps ==
  ASSUME TimerInv, NEW c \in Callers, start_locked(c)
  PROVE  TimerInv'
<1> DEFINE t == call[c].t
           f == [timer[t] EXCEPT !.alarm = call[c].alarm, !.period = call[c].period]
<1>1. CASE timer_armed(t)
  <2>1. Return(c) /\ UNCHANGED <<env, overtaken, hardware, timer, mem, list, dispatch>>
    BY <1>1 DEF start_locked
  <2> QED  BY <2>1, ReturnKeeps
<1>2. CASE ~timer_armed(t)
  <2>1. Insert(t, f) /\ Return(c) /\ UNCHANGED <<env, overtaken, mem, dispatch, calls>> /\ call[c].op = "start"
    BY <1>2 DEF start_locked
  <2> USE DEF TimerInv, StateInv, env, dispatch
  <2>2. t \in Timers /\ mem[t] = "live" /\ call[c].alarm > 0 /\ call[c] \in CallType
    BY <2>1 DEF CallInv, TypeOK
  <2>3. timer[t] \in Fields /\ f \in Fields /\ f.alarm = call[c].alarm /\ f.isr = timer[t].isr
        /\ f.del = timer[t].del
    <3>1. timer[t] \in Fields
      BY <2>2 DEF TypeOK
    <3>2. call[c].alarm \in Nat /\ call[c].period \in Nat
      BY <2>2 DEF CallType
    <3> HIDE DEF t
    <3> QED  BY <3>1, <3>2 DEF Fields
  <2>4. timer[t].alarm = 0 /\ (f.isr => supports_isr) /\ f.alarm > 0 /\ mem'[t] # "none"
    BY <1>2, <2>1, <2>2, <2>3 DEF timer_armed, Fields, BuildInv
  <2> HIDE DEF f
  <2>5. /\ Lists(list', timer', mem') /\ Covers'
        /\ timer' = [timer EXCEPT ![t] = f]
        /\ timestamp_id' \in [Methods -> Nat] /\ target' \in Nat /\ pending' \in BOOLEAN
    BY <2>1, <2>2, <2>3, <2>4, InsertKeeps
  <2>6. /\ call' = [call EXCEPT ![c] = NoCall]
        /\ \A x \in Timers \ {t} : timer'[x] = timer[x]
        /\ timer'[t] = f
    BY <2>1, <2>2, <2>5 DEF Return, TypeOK
  <2>7. TypeOK'
    BY <2>1, <2>3, <2>5, <2>6 DEF TypeOK, NoCall, CallType
  <2>8. MemInv'
    BY <2>1, <2>2, <2>3, <2>6 DEF MemInv
  <2>9. CallInv'
    <3>1. \A d \in Callers : d # c => call'[d] = call[d]
      BY <2>6 DEF TypeOK
    <3>2. call'[c].op = "none"
      BY <2>6 DEF TypeOK, NoCall
    <3>3. \A x \in Timers : timer[x].alarm > 0 => timer'[x].alarm > 0
      BY <2>4, <2>6
    <3>4. mem' = mem
      BY <2>1
    <3> HIDE DEF t
    <3> QED  BY <3>1, <3>2, <3>3, <3>4 DEF CallInv
  <2>10. TakenInv' /\ BuildInv'
    BY <2>1, <2>3, <2>4, <2>6 DEF TakenInv, BuildInv
  <2> QED  BY <2>5, <2>7, <2>8, <2>9, <2>10
<1> QED  BY <1>1, <1>2

(* A timer is put into the task list to be freed.                          *)
LEMMA DeleteLockedKeeps ==
  ASSUME TimerInv, NEW c \in Callers, delete_locked(c)
  PROVE  TimerInv'
<1> DEFINE t == call[c].t
           f == [alarm |-> call[c].alarm, period |-> 0, isr |-> FALSE, del |-> TRUE]
<1>1. CASE timer_armed(t)
  <2>1. Return(c) /\ UNCHANGED <<env, overtaken, hardware, timer, mem, list, dispatch>>
    BY <1>1 DEF delete_locked
  <2> QED  BY <2>1, ReturnKeeps
<1>2. CASE ~timer_armed(t)
  <2>1. /\ Insert(t, f) /\ Return(c) /\ UNCHANGED <<env, dispatch, calls>> /\ call[c].op = "delete"
        /\ mem' = [mem EXCEPT ![t] = "deleted"] /\ ~Locked("TASK")
        /\ "delete" \in overtaken => "delete" \in overtaken'
        /\ pc["ISR"] = "taken" /\ it["ISR"] = t => "delete" \in overtaken'
    BY <1>2 DEF delete_locked
  <2> USE DEF TimerInv, StateInv, env, dispatch
  <2>2. t \in Timers /\ mem[t] = "live" /\ call[c].alarm > 0 /\ call[c] \in CallType
    BY <2>1 DEF CallInv, TypeOK
  <2>3. f \in Fields /\ f.alarm = call[c].alarm /\ f.isr = FALSE /\ f.del = TRUE
    BY <2>2 DEF Fields, CallType
  <2>4. /\ timer[t].alarm = 0 /\ (f.isr => supports_isr) /\ f.alarm > 0 /\ mem'[t] = "deleted"
        /\ \A x \in Timers \ {t} : mem'[x] = mem[x]
    BY <1>2, <2>1, <2>2, <2>3 DEF timer_armed, TypeOK, Fields
  <2> HIDE DEF f
  <2>5. /\ Lists(list', timer', mem') /\ Covers'
        /\ timer' = [timer EXCEPT ![t] = f]
        /\ timestamp_id' \in [Methods -> Nat] /\ target' \in Nat /\ pending' \in BOOLEAN
    BY <2>1, <2>2, <2>3, <2>4, InsertKeeps
  <2>6. /\ call' = [call EXCEPT ![c] = NoCall]
        /\ \A x \in Timers \ {t} : timer'[x] = timer[x]
        /\ timer'[t] = f
    BY <2>1, <2>2, <2>5 DEF Return, TypeOK
  <2>7. TypeOK'
    BY <2>1, <2>3, <2>5, <2>6 DEF TypeOK, NoCall, CallType
  <2>8. MemInv'
    BY <2>3, <2>4, <2>6 DEF MemInv
  <2>9. CallInv'
    <3>1. \A d \in Callers : d # c => call'[d] = call[d]
      BY <2>6 DEF TypeOK
    <3>2. call'[c].op = "none"
      BY <2>6 DEF TypeOK, NoCall
    <3>3. \A d \in Callers : d # c /\ call[d].op # "none" => call[d].t # t
      BY <2>1 DEF CallInv
    <3> HIDE DEF t
    <3> QED  BY <2>4, <2>6, <3>1, <3>2, <3>3 DEF CallInv
  <2>10. TakenInv'
    BY <2>1, <2>4 DEF TakenInv, Locked, Methods
  <2>11. BuildInv'
    BY <2>1, <2>3, <2>6 DEF BuildInv
  <2> QED  BY <2>5, <2>7, <2>8, <2>9, <2>10, <2>11
<1> QED  BY <1>1, <1>2

(* A timer is stopped.                                                     *)
LEMMA StopKeeps ==
  ASSUME TimerInv, NEW c \in Callers, NEW t \in Timers, esp_timer_stop(c, t)
  PROVE  TimerInv'
<1> DEFINE m == Method(t)
<1>1. /\ mem[t] = "live" /\ timer[t].alarm > 0
      /\ timer' = [timer EXCEPT ![t].alarm = 0, ![t].period = 0]
      /\ list' = LIST_REMOVE(list, t) /\ set_alarm_id(m, AlarmsOfRemove(t))
      /\ UNCHANGED <<env, overtaken, mem, dispatch, call>>
  BY DEF esp_timer_stop, Calling, timer_armed, Removed
<1> USE DEF TimerInv, StateInv, env, dispatch
<1>2. m \in Methods /\ t \in ArmedIn(timer, mem, m) /\ (~supports_isr => m = "TASK")
  BY <1>1 DEF Method, Methods, ArmedIn, BuildInv
<1>3. /\ \A x \in Timers \ {t} : timer'[x] = timer[x] /\ mem'[x] = mem[x]
      /\ timer'[t] \in Fields /\ timer'[t].alarm = 0 /\ timer'[t].isr = timer[t].isr
      /\ timer'[t].del = timer[t].del
  <2>1. \A x \in Timers \ {t} : timer'[x] = timer[x] /\ mem'[x] = mem[x]
    BY <1>1 DEF TypeOK
  <2>2. timer'[t] = [timer[t] EXCEPT !.alarm = 0, !.period = 0] /\ timer[t] \in Fields
    BY <1>1 DEF TypeOK
  <2> DEFINE g == timer[t]
             h == timer'[t]
  <2>3. h = [g EXCEPT !.alarm = 0, !.period = 0] /\ g \in Fields
    BY <2>2
  <2> HIDE DEF g, h
  <2>4. h \in Fields /\ h.alarm = 0 /\ h.isr = g.isr /\ h.del = g.del
    BY <2>3 DEF Fields
  <2> QED  BY <2>1, <2>4 DEF g, h
<1> HIDE DEF m
<1>4. /\ ListsBut(LIST_REMOVE(list, t), timer, mem, t)
      /\ list.link[m] # t => LIST_REMOVE(list, t).link[m] = list.link[m]
  BY <1>2, ListsRemove
<1>5. Lists(list', timer', mem')
  <2>1. Lists(LIST_REMOVE(list, t), timer', mem')
    BY <1>3, <1>4, ListsLess
  <2> QED  BY <1>1, <2>1
<1> DEFINE s == AlarmsOfRemove(t)
<1>6. s \in Seq(Nat)
  <2>1. list \in ListType /\ Removed(t) \in ListType
    BY <1>4 DEF Lists, ListsBut, Removed
  <2> QED  BY <2>1, RemoveAlarms
<1>7. /\ timestamp_id' \in [Methods -> Nat] /\ target' \in Nat /\ pending' \in BOOLEAN
      /\ s = <<>> => UNCHANGED hardware
      /\ s # <<>> => pending' \/ target' <= Last(s)
  <2>1. set_alarm_id(m, s)
    BY <1>1
  <2> HIDE DEF s
  <2> QED  BY <1>2, <1>6, <2>1, AlarmSet
<1>8. TypeOK'
  <2>1. timer' \in [Timers -> Fields]
    BY <1>1, <1>3 DEF TypeOK
  <2> QED  BY <1>1, <1>7, <2>1 DEF TypeOK
<1>9. MemInv'
  BY <1>1, <1>3 DEF MemInv
<1>10. CallInv'
  <2>1. call' = call /\ mem' = mem
    BY <1>1
  <2> QED  BY <2>1 DEF CallInv
<1>11. TakenInv' /\ BuildInv'
  BY <1>1, <1>3 DEF TakenInv, BuildInv
<1>12. Covers'
  <2>1. CASE supports_isr
    BY <1>1, <2>1 DEF Covers
  <2>2. CASE ~supports_isr
    <3> DEFINE n == list'.link[m]
    <3>1. m = "TASK" /\ m = Method(t) /\ n = LIST_REMOVE(list, t).link[m]
      BY <1>1, <1>2, <2>2 DEF m
    <3>2. n # NULL => n \in Timers /\ timer'[n] = timer[n]
      <4>1. Alarms(timer')
        BY <1>8 DEF TypeOK, Fields, Alarms
      <4>2. n # NULL => n \in ArmedIn(timer', mem', m)
        BY <1>2, <1>5, <4>1, ListsFirst
      <4> HIDE DEF n
      <4> QED  BY <1>3, <4>2 DEF ArmedIn
    <3>3. SUFFICES ASSUME n # NULL
                   PROVE  target' <= timer[n].alarm \/ pending' \/ notified \/ pc["TASK"] # "wait"
      BY <1>1, <3>1, <3>2 DEF Covers, First
    <3>4. CASE list.link[m] = t
      <4>1. s = <<timer[n].alarm>>
        BY <3>1, <3>3, <3>4 DEF AlarmsOfRemove, Removed, First
      <4> HIDE DEF s, n
      <4>2. s # <<>> /\ Last(s) = timer[n].alarm
        BY <4>1 DEF Last
      <4> QED  BY <1>7, <4>2
    <3>5. CASE list.link[m] # t
      <4>1. s = <<>>
        BY <3>1, <3>5 DEF AlarmsOfRemove, First
      <4>2. n = list.link["TASK"] /\ UNCHANGED hardware
        BY <1>4, <1>7, <3>1, <3>5, <4>1
      <4> HIDE DEF n
      <4> QED  BY <2>2, <3>3, <4>2 DEF Covers, hardware, First
    <3> QED  BY <3>4, <3>5
  <2> QED  BY <2>1, <2>2
<1> QED  BY <1>5, <1>8, <1>9, <1>10, <1>11, <1>12

(* A timer that is still armed is removed from its list and inserted again. *)
LEMMA RestartKeeps ==
  ASSUME TimerInv, NEW c \in Callers, restart_locked(c), timer_armed(call[c].t)
  PROVE  TimerInv'
<1> DEFINE t == call[c].t
           m == Method(t)
           p == IF timer[t].period = 0 THEN 0 ELSE Max({call[c].period, MinPeriod})
           a == now + IF p = 0 THEN call[c].period ELSE p
           r == LIST_REMOVE(list, t)
           s == AlarmsOfRemove(t) \o IF list'.link[m] = t THEN <<a>> ELSE <<>>
<1>1. /\ call[c].op = "restart" /\ timer' = [timer EXCEPT ![t].alarm = a, ![t].period = p]
      /\ list' = timer_insert(r, t, a, m) /\ set_alarm_id(m, s)
      /\ call' = [call EXCEPT ![c] = NoCall] /\ UNCHANGED <<env, overtaken, mem, dispatch, calls>>
  BY DEF restart_locked, Return, Removed
<1> USE DEF TimerInv, StateInv, env, dispatch
<1>2. t \in Timers /\ mem[t] = "live" /\ timer[t].alarm > 0 /\ call[c].period \in Nat
  BY <1>1 DEF CallInv, TypeOK, CallType, timer_armed
<1> HIDE DEF t
<1>3. p \in Nat /\ a \in Nat /\ a > 0
  <2>1. MinPeriod \in Nat /\ now \in Nat /\ now > 0
    BY TimerAssumption DEF TypeOK
  <2>2. p \in Nat
    BY <1>2, <2>1, MaxIs
  <2> HIDE DEF p
  <2> QED  BY <1>2, <2>1, <2>2
<1>4. m \in Methods /\ t \in ArmedIn(timer, mem, m) /\ (~supports_isr => m = "TASK")
  BY <1>2 DEF Method, Methods, ArmedIn, BuildInv
<1> HIDE DEF p, a
<1>5. /\ \A x \in Timers \ {t} : timer'[x] = timer[x] /\ mem'[x] = mem[x]
      /\ timer'[t] \in Fields /\ timer'[t].alarm = a /\ timer'[t].isr = timer[t].isr
      /\ timer'[t].del = timer[t].del /\ mem'[t] # "none"
  <2>1. /\ \A x \in Timers \ {t} : timer'[x] = timer[x] /\ mem'[x] = mem[x]
        /\ mem'[t] # "none"
    BY <1>1, <1>2 DEF TypeOK
  <2> DEFINE g == timer[t]
             h == timer'[t]
  <2>2. h = [g EXCEPT !.alarm = a, !.period = p] /\ g \in Fields
    BY <1>1, <1>2 DEF TypeOK
  <2> HIDE DEF g, h
  <2>3. h \in Fields /\ h.alarm = a /\ h.isr = g.isr /\ h.del = g.del
    BY <1>3, <2>2 DEF Fields
  <2> QED  BY <2>1, <2>3 DEF g, h
<1>6. (IF timer'[t].isr THEN "ISR" ELSE "TASK") = m /\ Alarms(timer)
  BY <1>4, <1>5, FirstIs DEF Method
<1> HIDE DEF m
<1>7. /\ ListsBut(r, timer, mem, t)
      /\ list.link[m] # t => r.link[m] = list.link[m]
  BY <1>4, ListsRemove
<1>8. AlarmsOfRemove(t) \in Seq(Nat) /\ s \in Seq(Nat)
  <2>1. list \in ListType /\ Removed(t) \in ListType
    BY <1>7 DEF Lists, ListsBut, Removed
  <2>2. AlarmsOfRemove(t) \in Seq(Nat)
    BY <1>2, <2>1, RemoveAlarms
  <2> QED  BY <1>3, <2>2
<1> HIDE DEF r
<1>9. Lists(list', timer', mem') /\ list'.link[m] \in {t, r.link[m]}
  <2>1. /\ Lists(timer_insert(r, t, a, m), timer', mem')
        /\ timer_insert(r, t, a, m).link[m] \in {t, r.link[m]}
    <3> HIDE DEF TimerInv, StateInv, s
    <3>1. \A x \in Timers \ {t} : timer'[x] = timer[x] /\ mem'[x] = mem[x]
      BY <1>5
    <3>2. mem'[t] # "none" /\ timer'[t].alarm = a
      BY <1>5
    <3>3. Armable(r, m, t, a, timer', mem')
      BY <1>2, <1>3, <1>4, <1>6, <1>7, <3>1, <3>2 DEF Armable
    <3> QED  BY <3>3, ListsInsert
  <2> QED  BY <1>1, <2>1
<1>10. /\ timestamp_id' \in [Methods -> Nat] /\ target' \in Nat /\ pending' \in BOOLEAN
       /\ s = <<>> => UNCHANGED hardware
       /\ s # <<>> => pending' \/ target' <= Last(s)
  <2> HIDE DEF s
  <2> QED  BY <1>1, <1>4, <1>8, AlarmSet
<1>11. TypeOK'
  <2>1. timer' \in [Timers -> Fields]
    BY <1>1, <1>2, <1>5 DEF TypeOK
  <2>2. call' \in [Callers -> CallType]
    BY <1>1 DEF TypeOK, NoCall, CallType
  <2> QED  BY <1>1, <1>10, <2>1, <2>2 DEF TypeOK
<1>12. MemInv'
  BY <1>1, <1>2, <1>5 DEF MemInv
<1>13. CallInv'
  <2>1. \A d \in Callers : d # c => call'[d] = call[d]
    BY <1>1 DEF TypeOK
  <2>2. call'[c].op = "none"
    BY <1>1 DEF TypeOK, NoCall
  <2>3. \A x \in Timers : timer[x].alarm > 0 => timer'[x].alarm > 0
    BY <1>3, <1>5
  <2>4. mem' = mem
    BY <1>1
  <2> QED  BY <2>1, <2>2, <2>3, <2>4 DEF CallInv
<1>14. TakenInv' /\ BuildInv'
  BY <1>1, <1>2, <1>5 DEF TakenInv, BuildInv
<1>15. Covers'
  <2>1. CASE supports_isr
    BY <1>1, <2>1 DEF Covers
  <2>2. CASE ~supports_isr
    <3> DEFINE n == list'.link[m]
    <3>1. m = "TASK" /\ m = Method(t)
      BY <1>4, <2>2 DEF m
    <3>3. SUFFICES ASSUME n # NULL
                   PROVE  target' <= timer'[n].alarm \/ pending' \/ notified \/ pc["TASK"] # "wait"
      BY <1>1, <3>1 DEF Covers, First
    <3>4. CASE n = t
      <4>1. s = AlarmsOfRemove(t) \o <<a>>
        BY <3>4
      <4> HIDE DEF s, n
      <4>2. s # <<>> /\ Last(s) = a
        BY <1>3, <1>8, <4>1 DEF Last
      <4> QED  BY <1>5, <1>10, <3>4, <4>2
    <3>5. CASE n # t
      <4>1. s = AlarmsOfRemove(t) \o <<>> /\ n = r.link[m]
        BY <1>9, <3>5
      <4>2. s = AlarmsOfRemove(t)
        BY <1>8, <4>1
      <4>3. n \in Timers /\ timer'[n] = timer[n]
        <5>1. r \in ListType /\ m \in Entries
          BY <1>4, <1>7 DEF ListsBut, Entries
        <5>2. n \in Timers
          BY <3>3, <4>1, <5>1 DEF ListType
        <5> QED  BY <1>5, <3>5, <5>2
      <4> HIDE DEF s
      <4>4. CASE list.link[m] = t
        <5>1. s = <<timer[n].alarm>>
          BY <3>1, <3>3, <4>1, <4>2, <4>4 DEF AlarmsOfRemove, Removed, First, r
        <5> HIDE DEF n
        <5>2. s # <<>> /\ Last(s) = timer[n].alarm
          BY <5>1 DEF Last
        <5> QED  BY <1>10, <4>3, <5>2
      <4>5. CASE list.link[m] # t
        <5>1. s = <<>>
          BY <3>1, <4>2, <4>5 DEF AlarmsOfRemove, First
        <5>2. n = list.link["TASK"] /\ UNCHANGED hardware
          BY <1>7, <1>10, <3>1, <4>1, <4>5, <5>1
        <5> HIDE DEF n
        <5> QED  BY <2>2, <3>3, <4>3, <5>2 DEF Covers, hardware, First
      <4> QED  BY <4>4, <4>5
    <3> QED  BY <3>4, <3>5
  <2> QED  BY <2>1, <2>2
<1> QED  BY <1>9, <1>11, <1>12, <1>13, <1>14, <1>15

-----------------------------------------------------------------------------
(* The steps together *)

(* The steps with which calls begin, and esp_timer_stop.                   *)
LEMMA CallKeeps ==
  ASSUME TimerInv, NEW c \in Callers, Call(c)
  PROVE  TimerInv'
<1>1. PICK t \in Timers : \/ esp_timer_stop(c, t) \/ delete(c, t)
                          \/ \E d \in Timeouts : start_once(c, t, d) \/ start_periodic(c, t, d)
                                                 \/ restart(c, t, d)
  BY DEF Call
<1>2. now \in Nat /\ now > 0 /\ MinPeriod \in Nat /\ MinPeriod > 0
  BY TimerAssumption DEF TimerInv, StateInv, TypeOK
<1>3. CASE esp_timer_stop(c, t)
  BY <1>3, StopKeeps
<1>4. CASE delete(c, t)
  BY <1>2, <1>4, EnterKeeps DEF delete
<1>5. ASSUME NEW d \in Timeouts, start_once(c, t, d) PROVE TimerInv'
  <2>1. d \in Nat /\ now + d \in Nat /\ now + d > 0
    BY <1>2, TimerAssumption
  <2>2. Calling(c, t) /\ Enter(c, "start", t, now + d, 0)
    BY <1>5 DEF start_once
  <2> QED  BY <2>1, <2>2, EnterKeeps
<1>6. ASSUME NEW d \in Timeouts, start_periodic(c, t, d) PROVE TimerInv'
  <2> DEFINE p == Max({d, MinPeriod})
  <2>1. Calling(c, t) /\ Enter(c, "start", t, now + p, p)
    BY <1>6 DEF start_periodic
  <2>2. p \in Nat
    BY <1>2, TimerAssumption, MaxIs
  <2> HIDE DEF p
  <2>3. now + p \in Nat /\ now + p > 0
    BY <1>2, <2>2
  <2> QED  BY <2>1, <2>2, <2>3, EnterKeeps
<1>7. ASSUME NEW d \in Timeouts, restart(c, t, d) PROVE TimerInv'
  <2>1. Calling(c, t) /\ timer_armed(t) /\ Enter(c, "restart", t, 0, d)
    BY <1>7 DEF restart
  <2>2. d \in Nat
    BY TimerAssumption
  <2> QED  BY <2>1, <2>2, EnterKeeps
<1> QED  BY <1>1, <1>3, <1>4, <1>5, <1>6, <1>7

(* The critical sections of the other calls.                               *)
LEMMA FinishKeeps ==
  ASSUME TimerInv, NEW c \in Callers, Finish(c)
  PROVE  "restart" \in overtaken' \/ TimerInv'
<1>1. CASE restart_locked(c) /\ ~timer_armed(call[c].t)
  BY <1>1 DEF restart_locked
<1> QED  BY <1>1, StartKeeps, RestartKeeps, DeleteLockedKeeps DEF Finish

(* The steps of timer_process_alarm.                                       *)
LEMMA ProcessKeeps ==
  ASSUME TimerInv, NEW m \in Methods, Process(m)
  PROVE  TimerInv'
BY DeleteKeeps, TimerKeeps, CallbackKeeps, EndKeeps DEF Process

(* Nothing happens.                                                        *)
LEMMA StutterKeeps ==
  ASSUME TimerInv, UNCHANGED vars
  PROVE  TimerInv'
<1>1. Lists(list, timer, mem)'
  BY ListsSame DEF TimerInv, vars
<1> QED  BY <1>1 DEF TimerInv, StateInv, TypeOK, MemInv, CallInv, TakenInv, BuildInv, Covers,
                    First, vars

(* All timers are created and none is armed.                               *)
LEMMA InitHolds ==
  ASSUME Init
  PROVE  TimerInv
<1> USE DEF Init
<1>1. TypeOK
  <2>1. timer \in [Timers -> Fields]
    <3>1. \A isr \in DispatchMethods : Fresh(isr) \in Fields
      BY DEF Fields, Fresh, DispatchMethods
    <3> QED  BY <3>1
  <2>2. call \in [Callers -> CallType]
    BY DEF CallType, NoCall
  <2>3. /\ supports_isr \in BOOLEAN /\ now \in Nat \ {0}
        /\ timestamp_id \in [Methods -> Nat] /\ target \in Nat /\ pending \in BOOLEAN
    <3>1. supports_isr \in BOOLEAN
      BY TimerAssumption
    <3>2. now \in Nat \ {0} /\ target \in Nat
      BY DEF UINT64_MAX
    <3>4. pending \in BOOLEAN
      OBVIOUS
    <3>3. timestamp_id \in [Methods -> Nat]
      BY DEF UINT64_MAX
    <3> QED  BY <3>1, <3>2, <3>3, <3>4
  <2>4. /\ mem \in [Timers -> {"none", "live", "deleted"}]
        /\ pc \in [Methods -> {"wait", "entry", "loop", "again", "taken", "callback"}]
        /\ it \in [Methods -> Timers \union {NULL}]
        /\ processed \in [Methods -> BOOLEAN] /\ notified \in BOOLEAN
    OBVIOUS
  <2> QED  BY <2>1, <2>2, <2>3, <2>4 DEF TypeOK
<1>2. \A t \in Timers : timer[t].alarm = 0 /\ timer[t].del = FALSE /\ (timer[t].isr => supports_isr)
  BY DEF Fresh, DispatchMethods
<1>3. MemInv /\ CallInv /\ TakenInv /\ BuildInv
  BY <1>2 DEF MemInv, CallInv, TakenInv, BuildInv, NoCall, Methods
<1>4. Lists(list, timer, mem)
  <2>1. list \in ListType
    BY DEF ListType, Entries
  <2>2. ASSUME NEW m \in Methods PROVE Keeps(list, timer, m, ArmedIn(timer, mem, m))
    <3>1. ArmedIn(timer, mem, m) = {}
      BY <1>2 DEF ArmedIn
    <3>2. IsList(list, m, <<>>)
      BY DEF IsList, Place, After, Entries
    <3>3. Consists(<<>>, {}) /\ Ascends(timer, <<>>) /\ <<>> \in Seq(Timers)
      BY DEF Consists, Ascends
    <3> QED  BY <3>1, <3>2, <3>3 DEF Keeps
  <2> QED  BY <2>1, <2>2 DEF Lists
<1>5. Covers
  BY DEF Covers, First, Methods
<1> QED  BY <1>1, <1>3, <1>4, <1>5 DEF TimerInv, StateInv

(* What a restart has done to the lists is not undone.                     *)
LEMMA LatchKeeps ==
  ASSUME "restart" \in overtaken, [Next]_vars
  PROVE  "restart" \in overtaken'
<1>1. ASSUME NEW m, Process(m) PROVE overtaken' = overtaken
  BY <1>1 DEF Process, process_delete, process_timer, process_call, callback_return, process_end
<1>2. ASSUME NEW c, Finish(c) PROVE "restart" \in overtaken'
  BY <1>2 DEF Finish, start_locked, restart_locked, delete_locked
<1>3. ASSUME NEW c, Call(c) PROVE overtaken' = overtaken
  BY <1>3 DEF Call, esp_timer_stop, delete, start_once, start_periodic, restart, Enter
<1>4. CASE Tick \/ timer_alarm_isr \/ try_to_set_next_alarm \/ timer_task \/ UNCHANGED vars
           \/ \E t \in Timers, isr \in BOOLEAN : esp_timer_create(t, isr)
  BY <1>4 DEF Tick, timer_alarm_isr, try_to_set_next_alarm, timer_task, esp_timer_create, vars
<1> QED  BY <1>1, <1>2, <1>3, <1>4 DEF Next, IsrStep, TaskStep

(* The invariant is inductive as long as no restart has broken the lists.  *)
LEMMA NextKeeps ==
  ASSUME TimerInv, [Next]_vars
  PROVE  "restart" \in overtaken' \/ TimerInv'
<1>1. "TASK" \in Methods /\ "ISR" \in Methods /\ "TASK" \in Callers /\ "ISR" \in Callers
      /\ Tasks \subseteq Callers
  BY DEF Methods, Callers
<1>2. CASE IsrStep
  BY <1>1, <1>2, IsrKeeps, NextAlarmKeeps, ProcessKeeps, FinishKeeps DEF IsrStep
<1>3. CASE TaskStep
  BY <1>1, <1>3, TaskKeeps, ProcessKeeps, FinishKeeps DEF TaskStep
<1>4. CASE \E c \in Callers : Call(c)
  BY <1>4, CallKeeps
<1>5. CASE \E c \in Tasks : Finish(c)
  BY <1>1, <1>5, FinishKeeps
<1>6. CASE \E t \in Timers, isr \in BOOLEAN : esp_timer_create(t, isr)
  BY <1>6, CreateKeeps
<1> QED  BY <1>2, <1>3, <1>4, <1>5, <1>6, TickKeeps, StutterKeeps DEF Next

-----------------------------------------------------------------------------

(* The lists are right, or a restart has broken them, in every state.       *)
LEMMA Invariance == Spec => []("restart" \in overtaken \/ TimerInv)
<1> DEFINE I == "restart" \in overtaken \/ TimerInv
<1>1. Init => I
  BY InitHolds
<1>2. I /\ [Next]_vars => I'
  BY NextKeeps, LatchKeeps
<1> QED  BY <1>1, <1>2, PTL DEF Spec

(* The links that LIST_INSERT_HEAD, LIST_INSERT_BEFORE, LIST_INSERT_AFTER and *)
(* LIST_REMOVE leave behind make two lists that hold exactly the armed        *)
(* timers, each once, in the order of their alarms (timer_insert,             *)
(* timer_remove, timer_process_alarm), until the first esp_timer_restart that *)
(* finds under the lock that its timer is no longer armed.                    *)
THEOREM ListsAlwaysHoldArmed == Spec => []ListsHoldArmed
<1>1. TimerInv => InOrder
  BY ListsHold DEF TimerInv, StateInv, TypeOK, Fields, Alarms
<1>2. ("restart" \in overtaken \/ TimerInv) => ListsHoldArmed
  BY <1>1 DEF ListsHoldArmed
<1> QED  BY <1>2, Invariance, PTL

(* In a build without ISR timers the hardware alarm, its interrupt, the       *)
(* notification or the running timer task stands for the first timer of the   *)
(* list: no order of starts, stops, restarts and expiries leaves a timer that *)
(* nobody will look at (esp_timer_impl_set_alarm_id), until a restart of a    *)
(* timer that is no longer armed has broken the list.                         *)
THEOREM AlarmAlwaysCovers == Spec => []AlarmCovers
<1>1. ("restart" \in overtaken \/ TimerInv) => AlarmCovers
  BY DEF TimerInv, Covers, AlarmCovers
<1> QED  BY <1>1, Invariance, PTL

(* The steps of timer_process_alarm that take a timer, and those that call   *)
(* its callback, are the only ones after which a list is in these stages.    *)
LEMMA Stages ==
  ASSUME TypeOK, Next, NEW m \in Methods, pc'[m] # pc[m]
  PROVE  /\ pc'[m] = "taken" => process_timer(m)
         /\ pc'[m] = "callback" => process_call(m)
<1> USE DEF TypeOK
<1>1. ASSUME NEW n \in Methods, Process(n)
      PROVE  /\ pc'[m] = "taken" => process_timer(m)
             /\ pc'[m] = "callback" => process_call(m)
  <2>1. CASE process_delete(n)
    BY <2>1 DEF process_delete
  <2>2. CASE process_timer(n)
    <3>1. pc' = [pc EXCEPT ![n] = "taken"]
      BY <2>2 DEF process_timer
    <3>2. m = n /\ pc'[m] = "taken"
      BY <3>1
    <3> QED  BY <2>2, <3>2
  <2>3. CASE process_call(n)
    BY <2>3 DEF process_call
  <2>4. CASE callback_return(n)
    BY <2>4 DEF callback_return
  <2>5. CASE process_end(n)
    BY <2>5 DEF process_end
  <2> QED  BY <1>1, <2>1, <2>2, <2>3, <2>4, <2>5 DEF Process
<1>2. CASE timer_alarm_isr
  BY <1>2 DEF timer_alarm_isr
<1>3. CASE try_to_set_next_alarm
  BY <1>3 DEF try_to_set_next_alarm
<1>4. CASE timer_task
  BY <1>4 DEF timer_task
<1>5. ASSUME NEW c, Finish(c) PROVE pc' = pc
  BY <1>5 DEF Finish, start_locked, restart_locked, delete_locked, dispatch
<1>6. ASSUME NEW c, Call(c) PROVE pc' = pc
  BY <1>6 DEF Call, esp_timer_stop, delete, start_once, start_periodic, restart, Enter, dispatch
<1>7. CASE Tick \/ \E t \in Timers, isr \in BOOLEAN : esp_timer_create(t, isr)
  BY <1>7 DEF Tick, esp_timer_create, dispatch
<1>8. "TASK" \in Methods /\ "ISR" \in Methods
  BY DEF Methods
<1> HIDE DEF TypeOK
<1> QED  BY <1>1, <1>2, <1>3, <1>4, <1>5, <1>6, <1>7, <1>8 DEF Next, IsrStep, TaskStep

(* The first half of CallbackIsDue: what process_timer takes is due.       *)
LEMMA TakenIsDue ==
  ASSUME TimerInv, Next, NEW m \in Methods, pc[m] \in {"loop", "again"}, pc'[m] = "taken"
  PROVE  mem[it'[m]] = "live" /\ timer[it'[m]].alarm \in 1 .. now
<1>1. process_timer(m)
  BY Stages DEF TimerInv, StateInv
<1>2. First(m) # NULL /\ timer[First(m)].alarm <= now /\ ~timer[First(m)].del /\ it'[m] = First(m)
  BY <1>1 DEF process_timer, Due, TimerInv, StateInv, TypeOK
<1>3. First(m) \in Timers /\ mem[First(m)] # "none" /\ timer[First(m)].alarm > 0
  BY <1>2, FirstIs
<1> QED  BY <1>2, <1>3 DEF TimerInv, StateInv, TypeOK, MemInv, Fields

(* The second half: the callback that is called is that of the timer taken. *)
LEMMA CalledIsTaken ==
  ASSUME TimerInv, Next, NEW m \in Methods, pc[m] = "taken", pc'[m] = "callback"
  PROVE  (it'[m] # NULL /\ mem[it[m]] # "none") \/ (m = "ISR" /\ "delete" \in overtaken)
<1> SUFFICES ASSUME ~(m = "ISR" /\ "delete" \in overtaken)
             PROVE  it'[m] # NULL /\ mem[it[m]] # "none"
  OBVIOUS
<1>1. process_call(m)
  BY Stages DEF TimerInv, StateInv
<1>2. it[m] \in Timers /\ mem[it[m]] = "live" /\ ~timer[it[m]].del
  BY DEF TimerInv, StateInv, TakenInv, MemInv
<1>3. it'[m] = it[m]
  BY <1>1, <1>2 DEF process_call, TimerInv, StateInv, TypeOK
<1> QED  BY <1>2, <1>3, NamesAssumption DEF NULL

(* timer_process_alarm calls the callback only of a timer that was armed and  *)
(* due, and that is neither deleted nor freed before its callback is read,    *)
(* but for the two ways in which a call may be overtaken: the lists are       *)
(* broken, or a timer is deleted that the interrupt handler has just taken.   *)
THEOREM CallbackAlwaysDue == Spec => CallbackIsDue
<1>1. ("restart" \in overtaken \/ TimerInv) /\ [Next]_vars =>
        [\A m \in Methods : "restart" \in overtaken \/
           /\ pc[m] \in {"loop", "again"} /\ pc'[m] = "taken" =>
                mem[it'[m]] = "live" /\ timer[it'[m]].alarm \in 1 .. now
           /\ pc[m] = "taken" /\ pc'[m] = "callback" =>
                \/ it'[m] # NULL /\ mem[it[m]] # "none"
                \/ m = "ISR" /\ "delete" \in overtaken]_vars
  BY TakenIsDue, CalledIsTaken
<1> QED  BY <1>1, Invariance, PTL DEF Spec, CallbackIsDue
=============================================================================
