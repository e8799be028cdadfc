------------------------------ MODULE WlProofs ------------------------------
(***************************************************************************)
(* Proof that, whatever the number of sectors, the rate of the moves and   *)
(* the size of the parts, no step of the wear levelling changes what a     *)
(* restart would find in a logical sector, whenever power is lost, until a *)
(* start rebuilds state sector 1 from sector 2 (rebuilt); and of the parts *)
(* of a sector in safety mode.                                             *)
(***************************************************************************)
EXTENDS WlExtSafe, FiniteSetTheorems, SequenceTheorems, TLAPS

Laps == 0 .. MaxPos - 2

-----------------------------------------------------------------------------
(* Types *)

Cells ==
    {Empty, <<"torn">>, <<"stale">>} \union {<<v>> : v \in Values} \union AnyRecord
Content == [Parts -> Cells]
StateSector == [ok : BOOLEAN, id : BOOLEAN, move : Laps, rec : SUBSET Positions]
States == [{1, 2} -> StateSector]
Calls ==
    {c \in [op : {"erase", "write"}, at : Sectors, to : Content] : c.op = "erase" => c.to = Blank}

TypeOK ==
    /\ flash \in [Positions -> Content]
    /\ st \in States
    /\ wl_dummy_sec_pos \in Positions /\ wl_dummy_sec_move_count \in Laps
    /\ wl_sec_erase_cycle_count \in Nat
    /\ pc \in {"off", "init", "run"}
    /\ calls \in Seq(Calls) /\ (pc # "run" => calls = <<>>)

-----------------------------------------------------------------------------
(* The state sectors and the operations still to come *)

\* Both state sectors are in force, in lap m with the dummy at p.  At the end
\* of a lap the record of the last position may be there already.
Settled(q, p, m) ==
    /\ q[1].ok /\ q[2].ok /\ q[1].move = m /\ q[2].move = m
    /\ q[1].rec = 0 .. p - 1 \/ (p = MaxPos - 1 /\ q[1].rec = Positions)

\* What a power loss may leave of the state sectors.
Usable(q) == q[1].ok => (\E p \in Positions, m \in Laps : Settled(q, p, m)) \/ q[1].rec = {}

\* What remains is the data operation of the call.
CallOp ==
    IF calls = <<>> THEN <<>>
    ELSE <<Data(Addr(Head(calls).at), Head(calls).to)>>

\* What remains of rewriting the state sectors, and then of the call.
Rest(o, j) == <<o>> \o j
Ops1 == Rest(Header(2, wl_dummy_sec_move_count), CallOp)
Ops2 == Rest(EraseState(2), Ops1)
Ops3 == Rest(Header(1, wl_dummy_sec_move_count), Ops2)
Ops4 == Rest(EraseState(1), Ops3)

\* What remains of a move from p.
Lap(p)   == IF p < MaxPos - 1 THEN CallOp ELSE Ops4
Move1(p) == Rest(Record(2, p), Lap(p))
Move2(p) == Rest(Record(1, p), Move1(p))
Move3(p) == Rest(Data(p, flash[wl_dummy_sec_pos]), Move2(p))
Move4(p) == Rest(Data(p, Blank), Move3(p))

\* Between calls or before the data operation of one.
InPlace ==
    /\ Settled(st, wl_dummy_sec_pos, wl_dummy_sec_move_count)
    /\ job = <<>> \/ (job = CallOp /\ pc = "run")

\* In RAM the dummy has moved on from p, on flash it has not.
Moving ==
    /\ pc = "run"
    /\ \E p \in Positions, m \in Laps :
         /\ wl_dummy_sec_pos = (p + 1) % MaxPos /\ wl_dummy_sec_move_count = NextMove(p, m)
         /\ Settled(st, p, m)
         /\ \/ job \in {Move4(p), Move3(p)}
            \/ job = Move2(p) /\ flash[p] = flash[wl_dummy_sec_pos]

\* The record of the move is in sector 1 but not in sector 2.
Recorded ==
    /\ pc = "run"
    /\ \E p \in Positions :
         /\ wl_dummy_sec_pos = (p + 1) % MaxPos
         /\ job = Move1(p)
         /\ IF p < MaxPos - 1 THEN Settled(st, p + 1, wl_dummy_sec_move_count)
            ELSE /\ \E m \in Laps : Settled(st, p, m) /\ wl_dummy_sec_move_count = NextMove(p, m)
                 /\ flash[p] = flash[wl_dummy_sec_pos]

\* State sector 1 is rewritten for a new lap.
Lapping ==
    /\ pc = "run" /\ wl_dummy_sec_pos = 0 /\ flash[MaxPos - 1] = flash[0]
    /\ \E m \in Laps :
         /\ wl_dummy_sec_move_count = NextMove(MaxPos - 1, m)
         /\ \/ job = Ops4 /\ Settled(st, MaxPos - 1, m)
            \/ job = Ops3 /\ ~st[1].ok /\ st[1].rec = {} /\ st[2].ok /\ st[2].move = m

\* Both are written for the first time.
Formatting ==
    /\ pc = "init" /\ wl_dummy_sec_pos = 0 /\ wl_dummy_sec_move_count = 0
    /\ ~st[1].ok /\ ~st[2].ok
    /\ job = Ops4 \/ (job = Ops3 /\ st[1].rec = {})

\* State sector 1 is in force, sector 2 is rewritten after it.
Following ==
    /\ pc \in {"init", "run"} /\ wl_dummy_sec_pos = 0
    /\ st[1].ok /\ st[1].move = wl_dummy_sec_move_count /\ st[1].rec = {}
    /\ job = Ops2 \/ (job = Ops1 /\ ~st[2].ok)

\* State sector 1 is to be rebuilt from sector 2, up to its header.
Mending ==
    /\ pc = "init" /\ ~st[1].ok /\ st[2].ok
    /\ wl_dummy_sec_pos = MaxPos - 1 /\ wl_dummy_sec_move_count = st[2].move
    /\ \E R \in SUBSET Positions :
         LET mend == Rebuild(1, wl_dummy_sec_move_count, R) IN job = mend \/ job = Tail(mend)

Off ==
    /\ pc = "off" /\ job = <<>>
    /\ wl_dummy_sec_pos = 0 /\ wl_dummy_sec_move_count = 0
    /\ Usable(st)

WlInv ==
    /\ TypeOK
    /\ Off \/ (pc # "off" /\ (\/ InPlace \/ Moving \/ Recorded \/ Lapping
                              \/ Formatting \/ Following \/ Mending))

(***************************************************************************)
(* Where a logical sector is.                                              *)
(***************************************************************************)
(* A remainder, where the quotient is 0 or 1.                              *)
LEMMA SmallMod ==
  ASSUME NEW k \in Nat \ {0}, NEW x \in 0 .. 2 * k - 1
  PROVE  x % k = IF x < k THEN x ELSE x - k
<1>1. CASE x < k
  <2>1. x = 0 * k + x
    BY <1>1
  <2> QED  BY <1>1
<1>2. CASE x >= k
  <2>1. (x - k) % k = x - k
    BY <1>2
  <2> QED  BY <1>2, <2>1
<1> QED  BY <1>1, <1>2

(* The address without the wrap of the code's unsigned arithmetic.         *)
Turned(s, m) == IF s < m THEN MaxPos - 1 + s - m ELSE s - m

LEMMA CalcAddrIs ==
  ASSUME NEW s \in Sectors, NEW p \in Positions, NEW m \in Laps
  PROVE  /\ calcAddr(s, p, m) = IF Turned(s, m) < p THEN Turned(s, m) ELSE Turned(s, m) + 1
         /\ Turned(s, m) \in Sectors
<1>1. MaxPos - 1 \in Nat \ {0} /\ MaxPos - 1 - m + s \in 0 .. 2 * (MaxPos - 1) - 1
  BY WlAssumption DEF Sectors, Laps
<1> DEFINE k == MaxPos - 1
           x == MaxPos - 1 - m + s
<1>2. x % k = IF x < k THEN x ELSE x - k
  <2> HIDE DEF k, x
  <2> QED  BY <1>1, SmallMod DEF k, x
<1>3. (IF x < k THEN x ELSE x - k) = Turned(s, m)
  BY WlAssumption DEF Sectors, Laps, Turned
<1>4. x % k = Turned(s, m)
  BY <1>2, <1>3
<1>5. calcAddr(s, p, m) = IF Turned(s, m) < p THEN Turned(s, m) ELSE Turned(s, m) + 1
  BY <1>4 DEF calcAddr
<1> QED  BY <1>5, WlAssumption DEF Turned, Sectors, Laps

(* A logical sector is never where the dummy is, nor where another one is. *)
LEMMA CalcAddrType ==
  ASSUME NEW s \in Sectors, NEW p \in Positions, NEW m \in Laps
  PROVE  /\ calcAddr(s, p, m) \in Positions \ {p}
         /\ \A t \in Sectors : calcAddr(t, p, m) = calcAddr(s, p, m) => t = s
<1>1. calcAddr(s, p, m) \in Positions \ {p}
  BY CalcAddrIs, WlAssumption DEF Positions, Sectors
<1>2. ASSUME NEW t \in Sectors, calcAddr(t, p, m) = calcAddr(s, p, m) PROVE t = s
  <2>1. Turned(t, m) = Turned(s, m)
    BY <1>2, CalcAddrIs, WlAssumption DEF Positions, Sectors
  <2> QED  BY <2>1, WlAssumption DEF Turned, Sectors, Laps
<1> QED  BY <1>1, <1>2

(* The place the dummy moves to and the number of the lap.                 *)
LEMMA NextType ==
  ASSUME NEW p \in Positions, NEW m \in Laps
  PROVE  /\ (p + 1) % MaxPos = IF p < MaxPos - 1 THEN p + 1 ELSE 0
         /\ (p + 1) % MaxPos \in Positions \ {p}
         /\ NextMove(p, m) = IF p < MaxPos - 1 THEN m
                             ELSE IF m < MaxPos - 2 THEN m + 1 ELSE 0
         /\ NextMove(p, m) \in Laps
<1>1. (p + 1) % MaxPos = IF p < MaxPos - 1 THEN p + 1 ELSE 0
  <2>1. MaxPos \in Nat \ {0} /\ p + 1 \in 0 .. 2 * MaxPos - 1
    BY WlAssumption DEF Positions
  <2> DEFINE x == p + 1
  <2>2. x % MaxPos = IF x < MaxPos THEN x ELSE x - MaxPos
    <3> HIDE DEF x
    <3> QED  BY <2>1, SmallMod DEF x
  <2> QED  BY <2>2, WlAssumption DEF Positions
<1>2. (m + 1) % (MaxPos - 1) = IF m < MaxPos - 2 THEN m + 1 ELSE 0
  <2>1. MaxPos - 1 \in Nat \ {0} /\ m + 1 \in 0 .. 2 * (MaxPos - 1) - 1
    BY WlAssumption DEF Laps
  <2> DEFINE k == MaxPos - 1
             x == m + 1
  <2>2. x % k = IF x < k THEN x ELSE x - k
    <3> HIDE DEF k, x
    <3> QED  BY <2>1, SmallMod DEF k, x
  <2> QED  BY <2>2, WlAssumption DEF Laps
<1> QED  BY <1>1, <1>2, WlAssumption DEF Positions, Laps, NextMove

(* A move of the dummy relocates just the sector it changes places with,   *)
(* also at the end of a lap.                                               *)
LEMMA MoveRelocatesOne ==
  ASSUME NEW s \in Sectors, NEW p \in Positions, NEW m \in Laps
  PROVE  calcAddr(s, (p + 1) % MaxPos, NextMove(p, m))
           = IF calcAddr(s, p, m) = (p + 1) % MaxPos THEN p ELSE calcAddr(s, p, m)
<1> DEFINE n == (p + 1) % MaxPos
           k == NextMove(p, m)
           a == calcAddr(s, p, m)
           b == calcAddr(s, n, k)
<1>1. n \in Positions /\ k \in Laps
  BY NextType
<1>2. b = IF Turned(s, k) < n THEN Turned(s, k) ELSE Turned(s, k) + 1
  BY <1>1, CalcAddrIs
<1>3. a = IF Turned(s, m) < p THEN Turned(s, m) ELSE Turned(s, m) + 1
  BY CalcAddrIs
<1>4. /\ n = IF p < MaxPos - 1 THEN p + 1 ELSE 0
      /\ k = IF p < MaxPos - 1 THEN m ELSE IF m < MaxPos - 2 THEN m + 1 ELSE 0
  BY NextType
<1>5. b = IF a = n THEN p ELSE a
  <2> HIDE DEF n, k, a, b
  <2> QED  BY <1>2, <1>3, <1>4, WlAssumption DEF Turned, Positions, Sectors, Laps
<1> QED  BY <1>5

(***************************************************************************)
(* What a restart finds.                                                   *)
(***************************************************************************)
\* Recovered and Durable for state sectors q and data sectors f.
Found(q) ==
    CASE q[1].ok /\ q[2].ok   -> [pos |-> recoverPos(q[1].rec), move |-> q[1].move]
      [] q[1].ok /\ ~q[2].ok  -> [pos |-> 0, move |-> q[1].move]
      [] ~q[1].ok /\ q[2].ok  -> [pos |-> MaxPos - 1, move |-> q[2].move]
      [] ~q[1].ok /\ ~q[2].ok -> [pos |-> 0, move |-> 0]
Seen(f, p, m) == [s \in Sectors |-> f[calcAddr(s, p, m)]]

LEMMA DurableIs ==
  /\ Recovered = Found(st) /\ Recovered' = Found(st')
  /\ Durable = Seen(flash, Found(st).pos, Found(st).move)
  /\ Durable' = Seen(flash', Found(st').pos, Found(st').move)
BY DEF Recovered, Durable, Found, Seen

LEMMA MinIs ==
  ASSUME NEW S \in SUBSET Int, NEW x \in S, \A y \in S : x <= y
  PROVE  Min(S) = x
<1> DEFINE P(z) == \A y \in S : z <= y
<1>1. \A z \in S : P(z) => z = x
  OBVIOUS
<1> QED  BY <1>1 DEF Min

LEMMA RecoverPosIs ==
  ASSUME NEW p \in Positions
  PROVE  recoverPos(0 .. p - 1) = p /\ recoverPos(Positions) = MaxPos - 1 /\ recoverPos({}) = 0
<1>1. recoverPos(0 .. p - 1) = p
  <2> DEFINE S == (Positions \ (0 .. p - 1)) \union {MaxPos - 1}
  <2>1. S \in SUBSET Int /\ p \in S /\ \A y \in S : p <= y
    BY WlAssumption DEF Positions
  <2> HIDE DEF S
  <2>2. Min(S) = p
    BY <2>1, MinIs
  <2> QED  BY <2>2 DEF S, recoverPos
<1>2. recoverPos(Positions) = MaxPos - 1
  <2> DEFINE S == (Positions \ Positions) \union {MaxPos - 1}
  <2>1. S \in SUBSET Int /\ MaxPos - 1 \in S /\ \A y \in S : MaxPos - 1 <= y
    BY WlAssumption DEF Positions
  <2> HIDE DEF S
  <2>2. Min(S) = MaxPos - 1
    BY <2>1, MinIs
  <2> QED  BY <2>2 DEF S, recoverPos
<1>3. recoverPos({}) = 0
  <2> DEFINE S == (Positions \ {}) \union {MaxPos - 1}
  <2>1. S \in SUBSET Int /\ 0 \in S /\ \A y \in S : 0 <= y
    BY WlAssumption DEF Positions
  <2> HIDE DEF S
  <2>2. Min(S) = 0
    BY <2>1, MinIs
  <2> QED  BY <2>2 DEF S, recoverPos
<1> QED  BY <1>1, <1>2, <1>3

LEMMA FoundSettled ==
  ASSUME NEW q \in States, NEW p \in Positions, NEW m \in Laps, Settled(q, p, m)
  PROVE  Found(q).pos = p /\ Found(q).move = m
BY RecoverPosIs DEF Settled, Found

(* At the start of a lap, with sector 2 in any state.                      *)
LEMMA FoundFirst ==
  ASSUME NEW q \in States, q[1].ok, q[1].rec = {}
  PROVE  Found(q).pos = 0 /\ Found(q).move = q[1].move
<1>1. 0 \in Positions
  BY WlAssumption DEF Positions
<1>2. recoverPos({}) = 0
  BY <1>1, RecoverPosIs
<1>3. CASE q[2].ok
  BY <1>2, <1>3 DEF Found
<1>4. CASE ~q[2].ok
  BY <1>4 DEF Found
<1> QED  BY <1>3, <1>4

LEMMA FoundBroken ==
  ASSUME NEW q \in States, ~q[1].ok
  PROVE  /\ q[2].ok => Found(q).pos = MaxPos - 1 /\ Found(q).move = q[2].move
         /\ ~q[2].ok => Found(q).pos = 0 /\ Found(q).move = 0
BY DEF Found

LEMMA FoundType ==
  ASSUME NEW q \in States
  PROVE  Found(q).move \in Laps
BY WlAssumption DEF Found, States, StateSector, Laps

(* Writing to the dummy sector does not show.                              *)
LEMMA DummyNotSeen ==
  ASSUME NEW f \in [Positions -> Content], NEW p \in Positions, NEW m \in Laps, NEW v
  PROVE  Seen([f EXCEPT ![p] = v], p, m) = Seen(f, p, m)
BY CalcAddrType DEF Seen

(* Writing to a logical sector shows in this sector only.                  *)
LEMMA SectorSeen ==
  ASSUME NEW f, NEW g, NEW p \in Positions, NEW m \in Laps,
         NEW s \in Sectors, NEW t \in Sectors \ {s},
         \A x \in Positions \ {calcAddr(s, p, m)} : g[x] = f[x]
  PROVE  Seen(g, p, m)[t] = Seen(f, p, m)[t]
BY CalcAddrType DEF Seen

(* Neither does the move, once the sector is copied.                       *)
LEMMA MoveNotSeen ==
  ASSUME NEW f \in [Positions -> Content], NEW p \in Positions, NEW m \in Laps,
         f[p] = f[(p + 1) % MaxPos]
  PROVE  Seen(f, (p + 1) % MaxPos, NextMove(p, m)) = Seen(f, p, m)
<1>1. ASSUME NEW s \in Sectors
      PROVE  f[calcAddr(s, (p + 1) % MaxPos, NextMove(p, m))] = f[calcAddr(s, p, m)]
  BY MoveRelocatesOne
<1> QED  BY <1>1 DEF Seen

(***************************************************************************)
(* The operations still to be made.                                        *)
(***************************************************************************)
Op == [op : {"data", "erase", "header", "record"}, at : Nat, to : Content \union Nat]

LEMMA RestIs ==
  ASSUME NEW o \in Op, NEW j \in Seq(Op)
  PROVE  /\ Rest(o, j) \in Seq(Op) /\ Rest(o, j) # <<>>
         /\ Head(Rest(o, j)) = o /\ Tail(Rest(o, j)) = j
         /\ Len(Rest(o, j)) = 1 => j = <<>>
<1>1. Rest(o, j) \in Seq(Op) /\ Rest(o, j) # <<>> /\ Head(Rest(o, j)) = o
  BY DEF Rest
<1>2. Tail(Rest(o, j)) = j
  BY DEF Rest
<1>3. Len(Rest(o, j)) = 1 + Len(j)
  BY DEF Rest
<1>4. Len(j) = 0 => j = <<>>
  OBVIOUS
<1>5. Len(j) \in Nat
  OBVIOUS
<1> QED  BY <1>1, <1>2, <1>3, <1>4, <1>5

LEMMA Associative ==
  ASSUME NEW r \in Seq(Op), NEW s \in Seq(Op), NEW t \in Seq(Op)
  PROVE  (r \o s) \o t = r \o (s \o t) /\ s \o t \in Seq(Op)
BY ConcatAssociative

LEMMA PairIs ==
  ASSUME NEW a \in Op, NEW b \in Op
  PROVE  /\ <<a, b>> = Rest(a, Rest(b, <<>>)) /\ <<a, b>> \in Seq(Op)
         /\ \A s \in Seq(Op) : <<a, b>> \o s = Rest(a, Rest(b, s))
<1> DEFINE s == <<a>> \o <<b>>
           t == <<a, b>>
<1>1. s \in Seq(Op) /\ t \in Seq(Op) /\ Len(s) = 2 /\ Len(t) = 2
  OBVIOUS
<1>2. \A i \in 1 .. Len(s) : s[i] = t[i]
  BY <1>1
<1>3. t = s
  <2> HIDE DEF s, t
  <2> QED  BY <1>1, <1>2, SeqEqual
<1>4. <<a>> \in Seq(Op) /\ <<b>> \in Seq(Op) /\ <<b>> \o <<>> = <<b>>
  BY ConcatEmptySeq
<1>5. ASSUME NEW u \in Seq(Op) PROVE <<a, b>> \o u = Rest(a, Rest(b, u))
  BY <1>3, <1>4, Associative DEF Rest
<1> QED  BY <1>1, <1>3, <1>4, <1>5 DEF Rest

LEMMA BlankType == Blank \in Content
BY DEF Blank, Content, Cells, Parts, Empty

LEMMA CallOpType ==
  ASSUME TypeOK
  PROVE  /\ CallOp \in Seq(Op) /\ (calls # <<>> => CallOp # <<>>)
         /\ calls # <<>> => /\ Head(calls) \in Calls /\ Tail(calls) \in Seq(Calls)
                            /\ Addr(Head(calls).at) \in Positions
<1>1. CASE calls = <<>>
  BY <1>1 DEF CallOp
<1>2. CASE calls # <<>>
  <2>1. Head(calls) \in Calls /\ Tail(calls) \in Seq(Calls)
    BY <1>2 DEF TypeOK
  <2>2. Head(calls).at \in Sectors /\ Head(calls).to \in Content
    BY <2>1 DEF Calls
  <2>3. Addr(Head(calls).at) \in Positions
    BY <2>2, CalcAddrType DEF TypeOK, Addr
  <2>4. Data(Addr(Head(calls).at), Head(calls).to) \in Op
    BY <2>2, <2>3, WlAssumption DEF Op, Data, Positions
  <2> QED  BY <1>2, <2>1, <2>3, <2>4 DEF CallOp
<1> QED  BY <1>1, <1>2

LEMMA OpsType ==
  ASSUME TypeOK
  PROVE  /\ Header(1, wl_dummy_sec_move_count) \in Op /\ Header(2, wl_dummy_sec_move_count) \in Op
         /\ EraseState(1) \in Op /\ EraseState(2) \in Op
         /\ Ops1 \in Seq(Op) /\ Ops2 \in Seq(Op) /\ Ops3 \in Seq(Op) /\ Ops4 \in Seq(Op)
         /\ Ops1 # <<>> /\ Ops2 # <<>> /\ Ops3 # <<>> /\ Ops4 # <<>>
<1>1. /\ Header(1, wl_dummy_sec_move_count) \in Op /\ Header(2, wl_dummy_sec_move_count) \in Op
      /\ EraseState(1) \in Op /\ EraseState(2) \in Op
  BY WlAssumption DEF TypeOK, Op, Header, EraseState, Laps
<1>2. Ops1 \in Seq(Op) /\ Ops1 # <<>>
  BY <1>1, CallOpType, RestIs DEF Ops1
<1>3. Ops2 \in Seq(Op) /\ Ops2 # <<>>
  BY <1>1, <1>2, RestIs DEF Ops2
<1>4. Ops3 \in Seq(Op) /\ Ops3 # <<>>
  BY <1>1, <1>3, RestIs DEF Ops3
<1>5. Ops4 \in Seq(Op) /\ Ops4 # <<>>
  BY <1>1, <1>4, RestIs DEF Ops4
<1> QED  BY <1>1, <1>2, <1>3, <1>4, <1>5

LEMMA MoveType ==
  ASSUME TypeOK, NEW p \in Positions
  PROVE  /\ Data(p, Blank) \in Op /\ Data(p, flash[wl_dummy_sec_pos]) \in Op
         /\ Record(1, p) \in Op /\ Record(2, p) \in Op
         /\ Lap(p) \in Seq(Op) /\ Move1(p) \in Seq(Op) /\ Move2(p) \in Seq(Op)
         /\ Move3(p) \in Seq(Op) /\ Move4(p) \in Seq(Op)
         /\ calls # <<>> => Lap(p) # <<>>
         /\ Move1(p) # <<>> /\ Move2(p) # <<>> /\ Move3(p) # <<>>
<1>1. /\ Data(p, Blank) \in Op /\ Data(p, flash[wl_dummy_sec_pos]) \in Op
      /\ Record(1, p) \in Op /\ Record(2, p) \in Op
  BY BlankType, WlAssumption DEF TypeOK, Op, Data, Record, Positions
<1>2. Lap(p) \in Seq(Op) /\ (calls # <<>> => Lap(p) # <<>>)
  BY CallOpType, OpsType DEF Lap
<1>3. Move1(p) \in Seq(Op) /\ Move1(p) # <<>>
  BY <1>1, <1>2, RestIs DEF Move1
<1>4. Move2(p) \in Seq(Op) /\ Move2(p) # <<>>
  BY <1>1, <1>3, RestIs DEF Move2
<1>5. Move3(p) \in Seq(Op) /\ Move3(p) # <<>>
  BY <1>1, <1>4, RestIs DEF Move3
<1>6. Move4(p) \in Seq(Op)
  BY <1>1, <1>5, RestIs DEF Move4
<1> QED  BY <1>1, <1>2, <1>3, <1>4, <1>5, <1>6

(* The step that makes an operation with others, or no call, to come.      *)
LEMMA StepIs ==
  ASSUME NEW o \in Op, NEW j \in Seq(Op), job = Rest(o, j), calls = <<>> \/ j # <<>>, FlashStep
  PROVE  /\ ~OfCall /\ job' = j
         /\ UNCHANGED <<calls, wl_dummy_sec_pos, wl_dummy_sec_move_count, wl_sec_erase_cycle_count, pc>>
         /\ IF o.op = "data" THEN flash' = [flash EXCEPT ![o.at] = o.to] /\ st' = st
            ELSE st' = [st EXCEPT ![o.at] = Written(o)] /\ flash' = flash
<1>1. ~OfCall
  BY RestIs DEF OfCall
<1>2. Head(job) = o /\ Tail(job) = j
  BY RestIs
<1> QED  BY <1>1, <1>2 DEF FlashStep, Put, ram

(***************************************************************************)
(* Every step keeps the invariant and what a restart finds.                *)
(***************************************************************************)
Kept == SectorsKept

(* The data operation of a call.                                           *)
LEMMA StepInPlace ==
  ASSUME TypeOK, InPlace, FlashStep, pc # "off"
  PROVE  WlInv' /\ Kept
<1> DEFINE p == wl_dummy_sec_pos
           m == wl_dummy_sec_move_count
           c == Head(calls)
<1>1. job # <<>> /\ job = CallOp /\ pc = "run" /\ calls # <<>>
  BY DEF FlashStep, InPlace, CallOp
<1>2. c \in Calls /\ Tail(calls) \in Seq(Calls) /\ Addr(c.at) \in Positions
  BY <1>1, CallOpType
<1>3. /\ job = <<Data(Addr(c.at), c.to)>> /\ Len(job) = 1
      /\ Head(job) = Data(Addr(c.at), c.to) /\ Tail(job) = <<>>
  BY <1>1 DEF CallOp
<1>4. OfCall
  BY <1>1, <1>3 DEF OfCall
<1>5. /\ flash' = [flash EXCEPT ![Addr(c.at)] = c.to] /\ st' = st
      /\ job' = <<>> /\ calls' = Tail(calls)
      /\ UNCHANGED <<wl_dummy_sec_pos, wl_dummy_sec_move_count, wl_sec_erase_cycle_count, pc>>
  BY <1>3, <1>4 DEF FlashStep, Put, Data, ram
<1>6. TypeOK'
  BY <1>1, <1>2, <1>5 DEF TypeOK, Calls
<1>7. InPlace'
  BY <1>5 DEF InPlace
<1>8. Kept
  <2>1. Found(st).pos = p /\ Found(st).move = m /\ Found(st').pos = p /\ Found(st').move = m
    BY <1>5, FoundSettled DEF InPlace, TypeOK
  <2>2. c.at \in Sectors
    BY <1>2 DEF Calls
  <2>3. ASSUME NEW t \in Sectors \ {c.at} PROVE Seen(flash', p, m)[t] = Seen(flash, p, m)[t]
    <3>1. p \in Positions /\ m \in Laps
      BY DEF TypeOK
    <3>2. \A x \in Positions \ {calcAddr(c.at, p, m)} : flash'[x] = flash[x]
      BY <1>5 DEF Addr, TypeOK
    <3> HIDE DEF p, m, c
    <3> QED  BY <2>2, <3>1, <3>2, SectorSeen, SMTT(40)
  <2> QED  BY <1>4, <2>1, <2>3, DurableIs DEF Kept, SectorsKept
<1> QED  BY <1>1, <1>5, <1>6, <1>7, <1>8 DEF WlInv

(* The copy of a move, and its record in state sector 1.                   *)
LEMMA StepMoving ==
  ASSUME TypeOK, Moving, FlashStep
  PROVE  WlInv' /\ Kept
<1>1. PICK p \in Positions, m \in Laps :
         /\ wl_dummy_sec_pos = (p + 1) % MaxPos /\ wl_dummy_sec_move_count = NextMove(p, m)
         /\ Settled(st, p, m)
         /\ \/ job \in {Move4(p), Move3(p)}
            \/ job = Move2(p) /\ flash[p] = flash[wl_dummy_sec_pos]
  BY DEF Moving
<1>2. pc = "run" /\ wl_dummy_sec_pos # p
  BY <1>1, NextType DEF Moving
<1>3. Found(st).pos = p /\ Found(st).move = m
  BY <1>1, FoundSettled DEF TypeOK
<1>4. ASSUME NEW v \in Content, flash' = [flash EXCEPT ![p] = v], st' = st
      PROVE  Kept
  <2>1. Found(st').pos = p /\ Found(st').move = m
    BY <1>3, <1>4
  <2>2. Seen(flash', p, m) = Seen(flash, p, m)
    BY <1>4, DummyNotSeen DEF TypeOK
  <2> QED  BY <1>3, <2>1, <2>2, DurableIs DEF Kept, SectorsKept
<1>5. CASE job = Move4(p)
  <2>1. /\ flash' = [flash EXCEPT ![p] = Blank] /\ st' = st /\ job' = Move3(p)
        /\ UNCHANGED <<calls, wl_dummy_sec_pos, wl_dummy_sec_move_count, wl_sec_erase_cycle_count, pc>>
    BY <1>5, StepIs, MoveType DEF Move4, Data
  <2>2. TypeOK'
    BY <2>1, BlankType DEF TypeOK
  <2>3. Move3(p)' = Move3(p)
    BY <1>2, <2>1 DEF Move3, Move2, Move1, Lap, Ops1, Ops2, Ops3, Ops4, CallOp, Addr, TypeOK
  <2>4. Moving'
    BY <1>1, <1>2, <2>1, <2>3 DEF Moving
  <2> QED  BY <1>2, <1>4, <2>1, <2>2, <2>4, BlankType DEF WlInv
<1>6. CASE job = Move3(p)
  <2>1. /\ flash' = [flash EXCEPT ![p] = flash[wl_dummy_sec_pos]] /\ st' = st /\ job' = Move2(p)
        /\ UNCHANGED <<calls, wl_dummy_sec_pos, wl_dummy_sec_move_count, wl_sec_erase_cycle_count, pc>>
    BY <1>6, StepIs, MoveType DEF Move3, Data
  <2>2. TypeOK' /\ flash[wl_dummy_sec_pos] \in Content
    BY <2>1 DEF TypeOK
  <2>3. Move2(p)' = Move2(p)
    BY <2>1 DEF Move2, Move1, Lap, Ops1, Ops2, Ops3, Ops4, CallOp, Addr
  <2>4. Moving'
    BY <1>1, <1>2, <2>1, <2>3 DEF Moving, TypeOK
  <2> QED  BY <1>2, <1>4, <2>1, <2>2, <2>4 DEF WlInv
<1>7. CASE job = Move2(p) /\ flash[p] = flash[wl_dummy_sec_pos]
  <2>1. /\ st' = [st EXCEPT ![1].rec = @ \union {p}] /\ flash' = flash /\ job' = Move1(p)
        /\ UNCHANGED <<calls, wl_dummy_sec_pos, wl_dummy_sec_move_count, wl_sec_erase_cycle_count, pc>>
    <3>1. /\ st' = [st EXCEPT ![1] = Written(Record(1, p))] /\ flash' = flash /\ job' = Move1(p)
          /\ UNCHANGED <<calls, wl_dummy_sec_pos, wl_dummy_sec_move_count, wl_sec_erase_cycle_count, pc>>
      BY <1>7, StepIs, MoveType DEF Move2, Record
    <3> QED  BY <3>1 DEF Written, Record
  <2>2. TypeOK'
    BY <2>1 DEF TypeOK, States, StateSector
  <2>3. Move1(p)' = Move1(p)
    BY <2>1 DEF Move1, Lap, Ops1, Ops2, Ops3, Ops4, CallOp, Addr
  <2>4. CASE p < MaxPos - 1
    <3>1. wl_dummy_sec_pos = p + 1 /\ wl_dummy_sec_move_count = m
      BY <1>1, <2>4, NextType
    <3>2. Settled(st', p + 1, m)
      BY <1>1, <2>1, <2>4, WlAssumption DEF Settled, TypeOK, States, StateSector, Positions
    <3>3. Recorded'
      BY <1>1, <1>2, <2>1, <2>3, <2>4, <3>1, <3>2 DEF Recorded
    <3>4. Found(st').pos = p + 1 /\ Found(st').move = m
      BY <2>2, <3>1, <3>2, FoundSettled DEF TypeOK
    <3>5. Seen(flash', p + 1, m) = Seen(flash, p, m)
      <4>1. Seen(flash, (p + 1) % MaxPos, NextMove(p, m)) = Seen(flash, p, m)
        BY <1>1, <1>7, MoveNotSeen DEF TypeOK
      <4> QED  BY <1>1, <2>1, <3>1, <4>1
    <3>6. Kept
      BY <1>3, <3>4, <3>5, DurableIs DEF Kept, SectorsKept
    <3> QED  BY <1>2, <2>1, <2>2, <3>3, <3>6 DEF WlInv
  <2>5. CASE p = MaxPos - 1
    <3>1. Settled(st', p, m)
      BY <1>1, <2>1, <2>5, WlAssumption DEF Settled, TypeOK, States, StateSector, Positions
    <3>2. Recorded'
      BY <1>1, <1>2, <1>7, <2>1, <2>3, <2>5, <3>1, WlAssumption DEF Recorded
    <3>3. Found(st').pos = p /\ Found(st').move = m
      BY <2>2, <3>1, FoundSettled DEF TypeOK
    <3>4. Kept
      BY <1>3, <2>1, <3>3, DurableIs DEF Kept, SectorsKept
    <3> QED  BY <1>2, <2>1, <2>2, <3>2, <3>4 DEF WlInv
  <2> QED  BY <2>4, <2>5, WlAssumption DEF Positions
<1> QED  BY <1>1, <1>5, <1>6, <1>7

(* The record in state sector 2.                                           *)
LEMMA StepRecorded ==
  ASSUME TypeOK, Recorded, FlashStep
  PROVE  WlInv' /\ Kept
<1>1. PICK p \in Positions :
         /\ wl_dummy_sec_pos = (p + 1) % MaxPos
         /\ job = Move1(p)
         /\ IF p < MaxPos - 1 THEN Settled(st, p + 1, wl_dummy_sec_move_count)
            ELSE /\ \E m \in Laps : Settled(st, p, m) /\ wl_dummy_sec_move_count = NextMove(p, m)
                 /\ flash[p] = flash[wl_dummy_sec_pos]
  BY DEF Recorded
<1>2. pc = "run"
  BY DEF Recorded
<1>3. /\ st' = [st EXCEPT ![2].rec = @ \union {p}] /\ flash' = flash /\ job' = Lap(p)
      /\ UNCHANGED <<calls, wl_dummy_sec_pos, wl_dummy_sec_move_count, wl_sec_erase_cycle_count, pc>>
  <2>1. /\ st' = [st EXCEPT ![2] = Written(Record(2, p))] /\ flash' = flash /\ job' = Lap(p)
        /\ UNCHANGED <<calls, wl_dummy_sec_pos, wl_dummy_sec_move_count, wl_sec_erase_cycle_count, pc>>
    BY <1>1, StepIs, MoveType DEF Move1, Record
  <2> QED  BY <2>1 DEF Written, Record
<1>4. TypeOK'
  BY <1>3 DEF TypeOK, States, StateSector
<1>5. ASSUME NEW i \in Positions, NEW m \in Laps, Settled(st, i, m)
      PROVE  Settled(st', i, m) /\ Kept
  <2>1. Settled(st', i, m)
    BY <1>3, <1>5 DEF Settled, TypeOK, States, StateSector
  <2>2. /\ Found(st).pos = i /\ Found(st).move = m
        /\ Found(st').pos = i /\ Found(st').move = m
    BY <1>4, <1>5, <2>1, FoundSettled DEF TypeOK
  <2> QED  BY <1>3, <2>1, <2>2, DurableIs DEF Kept, SectorsKept
<1>6. CASE p < MaxPos - 1
  <2>1. wl_dummy_sec_pos = p + 1 /\ wl_dummy_sec_pos \in Positions /\ wl_dummy_sec_move_count \in Laps
    BY <1>1, <1>6, NextType DEF TypeOK
  <2>2. Settled(st', wl_dummy_sec_pos, wl_dummy_sec_move_count) /\ Kept
    BY <1>1, <1>5, <1>6, <2>1
  <2>3. job' = CallOp'
    BY <1>3, <1>6 DEF Lap, CallOp, Addr
  <2>4. InPlace'
    BY <1>2, <1>3, <2>2, <2>3 DEF InPlace
  <2> QED  BY <1>2, <1>3, <1>4, <2>2, <2>4 DEF WlInv
<1>7. CASE p = MaxPos - 1
  <2>1. PICK m \in Laps : Settled(st, p, m) /\ wl_dummy_sec_move_count = NextMove(p, m)
    BY <1>1, <1>7, WlAssumption
  <2>2. wl_dummy_sec_pos = 0 /\ flash[MaxPos - 1] = flash[0]
    BY <1>1, <1>7, <2>1, NextType, WlAssumption
  <2>3. Settled(st', p, m) /\ Kept
    BY <1>5, <2>1
  <2>4. job' = Ops4'
    BY <1>3, <1>7, WlAssumption DEF Lap, Ops1, Ops2, Ops3, Ops4, CallOp, Addr
  <2>5. Lapping'
    BY <1>2, <1>3, <1>7, <2>1, <2>2, <2>3, <2>4 DEF Lapping
  <2> QED  BY <1>2, <1>3, <1>4, <2>3, <2>5 DEF WlInv
<1> QED  BY <1>6, <1>7, WlAssumption DEF Positions

LEMMA NoHeaderType == NoHeader \in StateSector
BY WlAssumption DEF NoHeader, StateSector, Laps

(* State sector 1 is rewritten.                                            *)
LEMMA StepLapping ==
  ASSUME TypeOK, Lapping, FlashStep
  PROVE  WlInv' /\ Kept
<1> DEFINE last == MaxPos - 1
<1>1. /\ pc = "run" /\ wl_dummy_sec_pos = 0 /\ flash[last] = flash[0]
      /\ last \in Positions
  BY WlAssumption DEF Lapping, Positions
<1>2. PICK m \in Laps :
         /\ wl_dummy_sec_move_count = NextMove(last, m)
         /\ \/ job = Ops4 /\ Settled(st, last, m)
            \/ job = Ops3 /\ ~st[1].ok /\ st[1].rec = {} /\ st[2].ok /\ st[2].move = m
  BY DEF Lapping
<1>3. CASE job = Ops4 /\ Settled(st, last, m)
  <2>1. /\ st' = [st EXCEPT ![1] = NoHeader] /\ flash' = flash /\ job' = Ops3
        /\ UNCHANGED <<calls, wl_dummy_sec_pos, wl_dummy_sec_move_count, wl_sec_erase_cycle_count, pc>>
    <3>1. /\ st' = [st EXCEPT ![1] = Written(EraseState(1))] /\ flash' = flash /\ job' = Ops3
          /\ UNCHANGED <<calls, wl_dummy_sec_pos, wl_dummy_sec_move_count, wl_sec_erase_cycle_count, pc>>
      BY <1>3, StepIs, OpsType DEF Ops4, EraseState
    <3> QED  BY <3>1 DEF Written, EraseState
  <2>2. TypeOK'
    BY <2>1, NoHeaderType DEF TypeOK, States
  <2>3. Ops3' = Ops3
    BY <2>1 DEF Ops1, Ops2, Ops3, CallOp, Addr
  <2>4. ~st'[1].ok /\ st'[1].rec = {} /\ st'[2].ok /\ st'[2].move = m
    BY <1>3, <2>1 DEF Settled, TypeOK, States, NoHeader
  <2>5. Lapping'
    BY <1>1, <1>2, <2>1, <2>3, <2>4 DEF Lapping
  <2>6. /\ Found(st).pos = last /\ Found(st).move = m
        /\ Found(st').pos = last /\ Found(st').move = m
    BY <1>1, <1>3, <2>2, <2>4, FoundSettled, FoundBroken DEF TypeOK
  <2>7. Kept
    BY <2>1, <2>6, DurableIs DEF Kept, SectorsKept
  <2> QED  BY <1>1, <2>1, <2>2, <2>5, <2>7 DEF WlInv
<1>4. CASE job = Ops3 /\ ~st[1].ok /\ st[1].rec = {} /\ st[2].ok /\ st[2].move = m
  <2> DEFINE k == wl_dummy_sec_move_count
  <2>1. /\ st' = [st EXCEPT ![1].ok = TRUE, ![1].id = TRUE, ![1].move = k]
        /\ flash' = flash /\ job' = Ops2
        /\ UNCHANGED <<calls, wl_dummy_sec_pos, wl_dummy_sec_move_count, wl_sec_erase_cycle_count, pc>>
    <3>1. /\ st' = [st EXCEPT ![1] = Written(Header(1, k))] /\ flash' = flash /\ job' = Ops2
          /\ UNCHANGED <<calls, wl_dummy_sec_pos, wl_dummy_sec_move_count, wl_sec_erase_cycle_count, pc>>
      BY <1>4, StepIs, OpsType DEF Ops3, Header
    <3> QED  BY <3>1 DEF Written, Header, TypeOK, States, StateSector
  <2>2. TypeOK'
    BY <2>1, ZenonT(40) DEF TypeOK, States, StateSector
  <2>3. Ops2' = Ops2
    BY <2>1 DEF Ops1, Ops2, CallOp, Addr
  <2>4. st'[1].ok /\ st'[1].rec = {} /\ st'[1].move = k
    BY <1>4, <2>1 DEF TypeOK, States, StateSector
  <2>5. Following'
    BY <1>1, <2>1, <2>3, <2>4 DEF Following
  <2>6. /\ Found(st).pos = last /\ Found(st).move = m
        /\ Found(st').pos = 0 /\ Found(st').move = k
    BY <1>4, <2>2, <2>4, FoundFirst, FoundBroken DEF TypeOK
  <2>7. (last + 1) % MaxPos = 0
    BY <1>1, NextType, WlAssumption
  <2>8. Seen(flash, 0, k) = Seen(flash, last, m)
    <3>1. flash[last] = flash[(last + 1) % MaxPos]
      BY <1>1, <2>7
    <3>2. Seen(flash, (last + 1) % MaxPos, NextMove(last, m)) = Seen(flash, last, m)
      <4> HIDE DEF last
      <4> QED  BY <1>1, <3>1, MoveNotSeen DEF TypeOK
    <3> QED  BY <1>2, <2>7, <3>2
  <2>9. Kept
    BY <2>1, <2>6, <2>8, DurableIs DEF Kept, SectorsKept
  <2> QED  BY <1>1, <2>1, <2>2, <2>5, <2>9 DEF WlInv
<1> QED  BY <1>2, <1>3, <1>4

(* State sector 1 is written for the first time.                           *)
LEMMA StepFormatting ==
  ASSUME TypeOK, Formatting, FlashStep
  PROVE  WlInv' /\ Kept
<1>1. /\ pc = "init" /\ wl_dummy_sec_pos = 0 /\ wl_dummy_sec_move_count = 0
      /\ ~st[1].ok /\ ~st[2].ok /\ calls = <<>>
      /\ Found(st).pos = 0 /\ Found(st).move = 0
  BY FoundBroken DEF Formatting, TypeOK
<1>2. CASE job = Ops4
  <2>1. /\ st' = [st EXCEPT ![1] = NoHeader] /\ flash' = flash /\ job' = Ops3
        /\ UNCHANGED <<calls, wl_dummy_sec_pos, wl_dummy_sec_move_count, wl_sec_erase_cycle_count, pc>>
    <3>1. /\ st' = [st EXCEPT ![1] = Written(EraseState(1))] /\ flash' = flash /\ job' = Ops3
          /\ UNCHANGED <<calls, wl_dummy_sec_pos, wl_dummy_sec_move_count, wl_sec_erase_cycle_count, pc>>
      BY <1>2, StepIs, OpsType DEF Ops4, EraseState
    <3> QED  BY <3>1 DEF Written, EraseState
  <2>2. TypeOK'
    BY <2>1, NoHeaderType DEF TypeOK, States
  <2>3. Ops3' = Ops3
    BY <2>1 DEF Ops1, Ops2, Ops3, CallOp, Addr
  <2>4. ~st'[1].ok /\ st'[1].rec = {} /\ ~st'[2].ok
    BY <1>1, <2>1 DEF TypeOK, States, NoHeader
  <2>5. Formatting'
    BY <1>1, <2>1, <2>3, <2>4 DEF Formatting
  <2>6. Found(st').pos = 0 /\ Found(st').move = 0
    BY <2>2, <2>4, FoundBroken DEF TypeOK
  <2>7. Kept
    BY <1>1, <2>1, <2>6, DurableIs DEF Kept, SectorsKept
  <2> QED  BY <1>1, <2>1, <2>2, <2>5, <2>7 DEF WlInv
<1>3. CASE job = Ops3 /\ st[1].rec = {}
  <2> DEFINE k == wl_dummy_sec_move_count
  <2>1. /\ st' = [st EXCEPT ![1].ok = TRUE, ![1].id = TRUE, ![1].move = k]
        /\ flash' = flash /\ job' = Ops2
        /\ UNCHANGED <<calls, wl_dummy_sec_pos, wl_dummy_sec_move_count, wl_sec_erase_cycle_count, pc>>
    <3>1. /\ st' = [st EXCEPT ![1] = Written(Header(1, k))] /\ flash' = flash /\ job' = Ops2
          /\ UNCHANGED <<calls, wl_dummy_sec_pos, wl_dummy_sec_move_count, wl_sec_erase_cycle_count, pc>>
      BY <1>3, StepIs, OpsType DEF Ops3, Header
    <3> QED  BY <3>1 DEF Written, Header, TypeOK, States, StateSector
  <2>2. TypeOK'
    BY <2>1, ZenonT(40) DEF TypeOK, States, StateSector
  <2>3. Ops2' = Ops2
    BY <2>1 DEF Ops1, Ops2, CallOp, Addr
  <2>4. st'[1].ok /\ st'[1].rec = {} /\ st'[1].move = k
    BY <1>3, <2>1 DEF TypeOK, States, StateSector
  <2>5. Following'
    BY <1>1, <2>1, <2>3, <2>4 DEF Following
  <2>6. Found(st').pos = 0 /\ Found(st').move = 0
    BY <1>1, <2>2, <2>4, FoundFirst DEF TypeOK
  <2>7. Kept
    BY <1>1, <2>1, <2>6, DurableIs DEF Kept, SectorsKept
  <2> QED  BY <1>1, <2>1, <2>2, <2>5, <2>7 DEF WlInv
<1> QED  BY <1>2, <1>3 DEF Formatting

(* State sector 2 is rewritten.                                            *)
LEMMA StepFollowing ==
  ASSUME TypeOK, Following, FlashStep
  PROVE  WlInv' /\ Kept
<1> DEFINE k == wl_dummy_sec_move_count
<1>1. /\ pc \in {"init", "run"} /\ wl_dummy_sec_pos = 0 /\ k \in Laps
      /\ st[1].ok /\ st[1].move = k /\ st[1].rec = {}
  BY DEF Following, TypeOK
<1>2. Found(st).pos = 0 /\ Found(st).move = k
  BY <1>1, FoundFirst DEF TypeOK
<1>3. ASSUME TypeOK', st'[1] = st[1], flash' = flash PROVE Kept
  <2>1. Found(st').pos = 0 /\ Found(st').move = k
    BY <1>1, <1>3, FoundFirst DEF TypeOK
  <2> QED  BY <1>2, <1>3, <2>1, DurableIs DEF Kept, SectorsKept
<1>4. CASE job = Ops2
  <2>1. /\ st' = [st EXCEPT ![2] = NoHeader] /\ flash' = flash /\ job' = Ops1
        /\ UNCHANGED <<calls, wl_dummy_sec_pos, wl_dummy_sec_move_count, wl_sec_erase_cycle_count, pc>>
    <3>1. /\ st' = [st EXCEPT ![2] = Written(EraseState(2))] /\ flash' = flash /\ job' = Ops1
          /\ UNCHANGED <<calls, wl_dummy_sec_pos, wl_dummy_sec_move_count, wl_sec_erase_cycle_count, pc>>
      BY <1>4, StepIs, OpsType DEF Ops2, EraseState
    <3> QED  BY <3>1 DEF Written, EraseState
  <2>2. TypeOK'
    BY <2>1, NoHeaderType DEF TypeOK, States
  <2>3. Ops1' = Ops1
    BY <2>1 DEF Ops1, CallOp, Addr
  <2>4. st'[1] = st[1] /\ ~st'[2].ok
    BY <2>1 DEF TypeOK, States, NoHeader
  <2>5. Following'
    BY <1>1, <2>1, <2>3, <2>4 DEF Following
  <2> QED  BY <1>1, <1>3, <2>1, <2>2, <2>4, <2>5 DEF WlInv
<1>5. CASE job = Ops1 /\ ~st[2].ok
  <2>1. /\ st' = [st EXCEPT ![2].ok = TRUE, ![2].id = TRUE, ![2].move = k]
        /\ flash' = flash /\ job' = CallOp
        /\ UNCHANGED <<calls, wl_dummy_sec_pos, wl_dummy_sec_move_count, wl_sec_erase_cycle_count, pc>>
    <3>1. /\ st' = [st EXCEPT ![2] = Written(Header(2, k))] /\ flash' = flash /\ job' = CallOp
          /\ UNCHANGED <<calls, wl_dummy_sec_pos, wl_dummy_sec_move_count, wl_sec_erase_cycle_count, pc>>
      BY <1>5, StepIs, OpsType, CallOpType DEF Ops1, Header
    <3> QED  BY <3>1 DEF Written, Header, TypeOK, States, StateSector
  <2>2. TypeOK'
    BY <1>1, <2>1, ZenonT(40) DEF TypeOK, States, StateSector
  <2>3. st'[1] = st[1] /\ st'[2].ok /\ st'[2].move = k
    BY <2>1 DEF TypeOK, States, StateSector
  <2>4. Settled(st', 0, k)
    BY <1>1, <2>3 DEF Settled
  <2>5. job' = CallOp' /\ (pc = "init" => job' = <<>>)
    BY <1>1, <2>1 DEF CallOp, Addr, TypeOK
  <2>6. InPlace'
    BY <1>1, <2>1, <2>4, <2>5 DEF InPlace
  <2> QED  BY <1>1, <1>3, <2>1, <2>2, <2>3, <2>6 DEF WlInv
<1> QED  BY <1>4, <1>5 DEF Following

(* The start of a concatenation is the first sequence.                     *)
LEMMA StartOf ==
  ASSUME NEW S, NEW a \in Seq(S), NEW b \in Seq(S)
  PROVE  /\ a \o b \in Seq(S) /\ Len(a \o b) = Len(a) + Len(b)
         /\ \A i \in 1 .. Len(a) : (a \o b)[i] = a[i]
OBVIOUS

(* What rebuilding state sector 1 begins with.                             *)
LEMMA RebuildIs ==
  ASSUME NEW m, NEW R \in SUBSET Positions
  PROVE  LET mend == Rebuild(1, m, R)
         IN  /\ mend # <<>> /\ Head(mend) = EraseState(1)
             /\ Tail(mend) # <<>> /\ Head(Tail(mend)) = Header(1, m)
<1> DEFINE n == Cardinality(R)
           e == EraseState(1)
           h == Header(1, m)
           r(i) == Record(1, Ascending(R)[i])
           S == {e, h} \union {r(i) : i \in 1 .. n}
           records == [i \in 1 .. n |-> r(i)]
           two == <<e, h>>
           all == two \o records
<1>1. n \in Nat
  <2>1. IsFiniteSet(Positions)
    BY FS_Interval, WlAssumption DEF Positions
  <2> QED  BY <2>1, FS_Subset, FS_CardinalityType
<1>2. records \in Seq(S)
  <2>1. \A i \in 1 .. n : r(i) \in S
    OBVIOUS
  <2> HIDE DEF S, n, r
  <2> QED  BY <1>1, <2>1
<1>3. two \in Seq(S) /\ Len(two) = 2 /\ two[1] = e /\ two[2] = h
  <2>1. e \in S /\ h \in S
    OBVIOUS
  <2> HIDE DEF S, e, h
  <2> QED  BY <2>1
<1>4. /\ all \in Seq(S) /\ Len(all) \in Nat /\ Len(all) >= 2 /\ all[1] = e /\ all[2] = h
  <2> HIDE DEF two, records, S, e, h
  <2>1. /\ all \in Seq(S) /\ Len(all) = Len(two) + Len(records)
        /\ \A i \in 1 .. Len(two) : all[i] = two[i]
    BY <1>2, <1>3, StartOf
  <2>2. Len(records) \in Nat
    BY <1>2
  <2> HIDE DEF all
  <2> QED  BY <1>3, <2>1, <2>2
<1>5. all # <<>> /\ Head(all) = e /\ Tail(all) # <<>> /\ Head(Tail(all)) = h
  <2> HIDE DEF all, S, e, h
  <2>1. all # <<>> /\ Head(all) = e
    BY <1>4
  <2>2. Tail(all) \in Seq(S) /\ Len(Tail(all)) = Len(all) - 1 /\ Tail(all)[1] = all[2]
    BY <1>4
  <2> QED  BY <1>4, <2>1, <2>2
<1>6. Rebuild(1, m, R) = all
  BY DEF Rebuild
<1> HIDE DEF all
<1> QED  BY <1>5, <1>6

(* State sector 1 is erased, to be rebuilt.                                *)
LEMMA StepMending ==
  ASSUME TypeOK, Mending, FlashStep
  PROVE  rebuilt' \/ (WlInv' /\ Kept)
<1> DEFINE k == wl_dummy_sec_move_count
<1>1. PICK R \in SUBSET Positions : job = Rebuild(1, k, R) \/ job = Tail(Rebuild(1, k, R))
  BY DEF Mending
<1>2. pc = "init" /\ ~st[1].ok /\ st[2].ok /\ wl_dummy_sec_pos = MaxPos - 1 /\ k = st[2].move
  BY DEF Mending
<1>3. CASE job = Tail(Rebuild(1, k, R))
  <2>1. Head(job).op = "header" /\ Head(job).at = 1
    BY <1>3, RebuildIs DEF Header
  <2>2. rebuilt' = (rebuilt \/ (/\ pc = "init" /\ st[2].ok
                                /\ Head(job).op = "header" /\ Head(job).at = 1))
    BY DEF FlashStep
  <2> QED  BY <1>2, <2>1, <2>2, Zenon
<1>4. CASE job = Rebuild(1, k, R)
  <2>1. Head(job) = EraseState(1)
    BY <1>4, RebuildIs
  <2>2. /\ st' = [st EXCEPT ![1] = NoHeader] /\ flash' = flash /\ job' = Tail(job)
        /\ UNCHANGED <<wl_dummy_sec_pos, wl_dummy_sec_move_count, wl_sec_erase_cycle_count, pc>>
        /\ calls' = calls
    BY <1>2, <2>1 DEF FlashStep, Put, Written, EraseState, ram, OfCall
  <2>3. TypeOK'
    BY <2>2, NoHeaderType DEF TypeOK, States
  <2>4. ~st'[1].ok /\ st'[2] = st[2]
    BY <2>2 DEF TypeOK, States, NoHeader
  <2>5. Mending'
    BY <1>2, <1>4, <2>2, <2>4 DEF Mending
  <2>6. /\ Found(st).pos = MaxPos - 1 /\ Found(st).move = k
        /\ Found(st').pos = MaxPos - 1 /\ Found(st').move = k
    BY <1>2, <2>3, <2>4, FoundBroken DEF TypeOK
  <2>7. Kept
    BY <2>2, <2>6, DurableIs DEF Kept, SectorsKept
  <2> QED  BY <1>2, <2>2, <2>3, <2>5, <2>7 DEF WlInv
<1> QED  BY <1>1, <1>3, <1>4

LEMMA FlashStepKeeps ==
  ASSUME WlInv, FlashStep
  PROVE  rebuilt' \/ (WlInv' /\ Kept)
<1>1. TypeOK /\ pc # "off"
  BY DEF WlInv, FlashStep, Off
<1> QED  BY <1>1, StepInPlace, StepMoving, StepRecorded, StepLapping, StepFormatting,
            StepFollowing, StepMending DEF WlInv, Off

(* What an interrupted operation leaves.                                   *)
LEMMA TornData ==
  ASSUME TypeOK, NEW p \in Positions, NEW c \in Content, NEW v \in Torn(Data(p, c))
  PROVE  v \in Content
<1>1. PICK r \in TornPart(flash[p][0], c[0]) :
         v = [i \in DOMAIN c |-> CASE i = 0 -> r
                                   [] i > 0 /\ c[i] = flash[p][i] -> c[i]
                                   [] OTHER -> <<"torn">>]
  BY DEF Torn, Data
<1>2. <<"torn">> \in Cells /\ DOMAIN c = Parts /\ \A i \in Parts : c[i] \in Cells
  BY DEF Cells, Content
<1>3. r \in Cells
  <2>1. 0 \in Parts /\ AnyRecord \subseteq Cells
    BY WlAssumption DEF Parts, Cells
  <2> HIDE DEF Cells, AnyRecord
  <2> QED  BY <1>2, <2>1 DEF TornPart
<1>4. ASSUME NEW i \in Parts PROVE v[i] \in Cells
  <2> HIDE DEF Cells
  <2>1. CASE i = 0
    BY <1>1, <1>2, <1>3, <2>1
  <2>2. CASE i # 0
    <3>1. v[i] = IF i > 0 /\ c[i] = flash[p][i] THEN c[i] ELSE <<"torn">>
      BY <1>1, <1>2, <2>2
    <3> QED  BY <1>2, <3>1
  <2> QED  BY <2>1, <2>2
<1>5. v = [i \in Parts |-> v[i]]
  BY <1>1, <1>2
<1> HIDE DEF Cells
<1> QED  BY <1>4, <1>5 DEF Content

LEMMA TornState ==
  ASSUME NEW k \in {1, 2}, NEW m \in Laps, NEW v \in Torn(EraseState(k)) \union Torn(Header(k, m))
  PROVE  v \in StateSector /\ ~v.ok
<1>1. \E b \in BOOLEAN : v = [NoHeader EXCEPT !.id = b]
  BY DEF Torn, EraseState, Header
<1> QED  BY <1>1, NoHeaderType DEF NoHeader, StateSector

LEMMA LossIs ==
  ASSUME NEW o \in Op, NEW j \in Seq(Op), job = Rest(o, j), PowerLoss
  PROVE  \/ flash' = flash /\ st' = st
         \/ \E v \in Torn(o) :
              IF o.op = "data" THEN flash' = [flash EXCEPT ![o.at] = v] /\ st' = st
              ELSE st' = [st EXCEPT ![o.at] = v] /\ flash' = flash
BY RestIs DEF PowerLoss, Put

(* A power loss leaves the library off.                                    *)
LEMMA LossOff ==
  ASSUME PowerLoss, flash' \in [Positions -> Content], st' \in States, Usable(st')
  PROVE  WlInv'
<1>1. 0 \in Positions /\ 0 \in Laps
  BY WlAssumption DEF Positions, Laps
<1>2. TypeOK'
  BY <1>1 DEF TypeOK, PowerLoss
<1> QED  BY <1>2 DEF WlInv, Off, PowerLoss

(* State sector 1 is broken already.                                       *)
LEMMA LossBroken ==
  ASSUME TypeOK, PowerLoss, ~st[1].ok, flash' = flash, st' \in States, ~st'[1].ok, st'[2] = st[2]
  PROVE  WlInv' /\ Kept
<1>1. WlInv'
  BY LossOff DEF TypeOK, Usable
<1>2. Found(st').pos = Found(st).pos /\ Found(st').move = Found(st).move
  BY FoundBroken DEF TypeOK
<1> QED  BY <1>1, <1>2, DurableIs DEF Kept, SectorsKept

LEMMA LossInPlace ==
  ASSUME TypeOK, InPlace, PowerLoss
  PROVE  WlInv' /\ Kept
<1> DEFINE p == wl_dummy_sec_pos
           m == wl_dummy_sec_move_count
           c == Head(calls)
<1>1. p \in Positions /\ m \in Laps /\ Settled(st, p, m)
  BY DEF InPlace, TypeOK
<1>2. CASE flash' = flash /\ st' = st
  <2>1. WlInv'
    BY <1>1, <1>2, LossOff DEF TypeOK, Usable, Settled
  <2>2. Kept
    BY <1>2, DurableIs DEF Kept, SectorsKept
  <2> QED  BY <2>1, <2>2
<1>3. CASE ~(flash' = flash /\ st' = st)
  <2>1. job # <<>> /\ job = CallOp /\ calls # <<>> /\ pc = "run"
    BY <1>3 DEF PowerLoss, InPlace, CallOp
  <2>2. c \in Calls /\ Addr(c.at) \in Positions
    BY <2>1, CallOpType
  <2>3. Head(job) = Data(Addr(c.at), c.to) /\ Len(job) = 1
    BY <2>1 DEF CallOp
  <2>4. OfCall
    BY <2>1, <2>3 DEF OfCall
  <2>5. PICK v \in Torn(Data(Addr(c.at), c.to)) :
           flash' = [flash EXCEPT ![Addr(c.at)] = v] /\ st' = st
    BY <1>3, <2>1, <2>3 DEF PowerLoss, Put, Data
  <2>6. v \in Content
    BY <2>2, <2>5, TornData DEF Calls
  <2>7. WlInv'
    BY <1>1, <2>5, <2>6, LossOff DEF TypeOK, Usable, Settled
  <2>8. c.at \in Sectors
    BY <2>2 DEF Calls
  <2>9. ASSUME NEW t \in Sectors \ {c.at} PROVE Seen(flash', p, m)[t] = Seen(flash, p, m)[t]
    <3>1. \A x \in Positions \ {calcAddr(c.at, p, m)} : flash'[x] = flash[x]
      BY <2>5 DEF Addr, TypeOK
    <3> HIDE DEF p, m, c
    <3> QED  BY <1>1, <2>8, <3>1, SectorSeen
  <2>10. Found(st).pos = p /\ Found(st).move = m /\ Found(st').pos = p /\ Found(st').move = m
    BY <1>1, <2>5, FoundSettled DEF TypeOK
  <2> QED  BY <2>4, <2>7, <2>9, <2>10, DurableIs DEF Kept, SectorsKept
<1> QED  BY <1>2, <1>3

LEMMA LossMoving ==
  ASSUME TypeOK, Moving, PowerLoss
  PROVE  WlInv' /\ Kept
<1>1. PICK p \in Positions, m \in Laps :
         /\ Settled(st, p, m)
         /\ \/ job \in {Move4(p), Move3(p)}
            \/ job = Move2(p)
  BY DEF Moving
<1>2. st' = st /\ (flash' = flash \/ \E v \in Content : flash' = [flash EXCEPT ![p] = v])
  <2>1. CASE job = Move4(p)
    <3>1. \/ flash' = flash /\ st' = st
          \/ \E v \in Torn(Data(p, Blank)) : flash' = [flash EXCEPT ![p] = v] /\ st' = st
      BY <2>1, LossIs, MoveType, ZenonT(40) DEF Move4, Data
    <3>2. \A v \in Torn(Data(p, Blank)) : v \in Content
      BY BlankType, TornData
    <3> QED  BY <3>1, <3>2
  <2>2. CASE job = Move3(p)
    <3> DEFINE c == flash[wl_dummy_sec_pos]
    <3>1. \/ flash' = flash /\ st' = st
          \/ \E v \in Torn(Data(p, c)) : flash' = [flash EXCEPT ![p] = v] /\ st' = st
      BY <2>2, LossIs, MoveType, ZenonT(40) DEF Move3, Data
    <3>2. c \in Content
      BY DEF TypeOK
    <3>3. \A v \in Torn(Data(p, c)) : v \in Content
      BY <3>2, TornData
    <3> QED  BY <3>1, <3>3
  <2>3. CASE job = Move2(p)
    <3>1. \A v \in Torn(Record(1, p)) : v = st[1]
      BY DEF Torn, Record
    <3>2. \/ flash' = flash /\ st' = st
          \/ \E v \in Torn(Record(1, p)) : st' = [st EXCEPT ![1] = v] /\ flash' = flash
      BY <2>3, LossIs, MoveType, ZenonT(40) DEF Move2, Record
    <3> QED  BY <3>1, <3>2 DEF TypeOK, States
  <2> QED  BY <1>1, <2>1, <2>2, <2>3
<1>3. WlInv'
  BY <1>1, <1>2, LossOff DEF TypeOK, Usable, Settled
<1>4. Found(st).pos = p /\ Found(st).move = m
  BY <1>1, FoundSettled DEF TypeOK
<1>5. Seen(flash', p, m) = Seen(flash, p, m)
  BY <1>2, DummyNotSeen DEF TypeOK
<1>6. Kept
  BY <1>2, <1>4, <1>5, DurableIs DEF Kept, SectorsKept
<1> QED  BY <1>3, <1>6

LEMMA LossRecorded ==
  ASSUME TypeOK, Recorded, PowerLoss
  PROVE  WlInv' /\ Kept
<1>1. PICK p \in Positions :
         /\ wl_dummy_sec_pos = (p + 1) % MaxPos /\ job = Move1(p)
         /\ IF p < MaxPos - 1 THEN Settled(st, p + 1, wl_dummy_sec_move_count)
            ELSE \E m \in Laps : Settled(st, p, m)
  BY DEF Recorded
<1>2. flash' = flash /\ st' = st
  <2>1. \A v \in Torn(Record(2, p)) : v = st[2]
    BY DEF Torn, Record
  <2>2. \/ flash' = flash /\ st' = st
        \/ \E v \in Torn(Record(2, p)) : st' = [st EXCEPT ![2] = v] /\ flash' = flash
    BY <1>1, LossIs, MoveType, ZenonT(40) DEF Move1, Record
  <2> QED  BY <2>1, <2>2 DEF TypeOK, States
<1>3. \E i \in Positions, m \in Laps : Settled(st, i, m)
  BY <1>1, WlAssumption DEF TypeOK, Positions
<1>4. WlInv'
  BY <1>2, <1>3, LossOff DEF TypeOK, Usable, Settled
<1>5. Kept
  BY <1>2, DurableIs DEF Kept, SectorsKept
<1> QED  BY <1>4, <1>5

(* With sector 1 broken, sector 2 says the same.                           *)
LEMMA LossLapping ==
  ASSUME TypeOK, Lapping, PowerLoss
  PROVE  WlInv' /\ Kept
<1>1. PICK m \in Laps :
         \/ job = Ops4 /\ Settled(st, MaxPos - 1, m)
         \/ job = Ops3 /\ ~st[1].ok /\ st[2].ok
  BY DEF Lapping
<1>2. MaxPos - 1 \in Positions
  BY WlAssumption DEF Positions
<1>3. CASE job = Ops4 /\ Settled(st, MaxPos - 1, m)
  <2>1. Found(st).pos = MaxPos - 1 /\ Found(st).move = m
    BY <1>2, <1>3, FoundSettled DEF TypeOK
  <2>2. CASE flash' = flash /\ st' = st
    <3>1. WlInv'
      BY <1>2, <1>3, <2>2, LossOff DEF TypeOK, Usable, Settled
    <3> QED  BY <2>2, <3>1, DurableIs DEF Kept, SectorsKept
  <2>3. CASE ~(flash' = flash /\ st' = st)
    <3>1. PICK v \in Torn(EraseState(1)) : st' = [st EXCEPT ![1] = v] /\ flash' = flash
      BY <1>3, <2>3, LossIs, OpsType DEF Ops4, EraseState
    <3>2. v \in StateSector /\ ~v.ok
      BY <1>1, <3>1, TornState
    <3>3. st' \in States /\ ~st'[1].ok /\ st'[2].ok /\ st'[2].move = m
      BY <1>3, <3>1, <3>2 DEF TypeOK, States, Settled
    <3>4. Found(st').pos = MaxPos - 1 /\ Found(st').move = m
      BY <3>3, FoundBroken
    <3>5. WlInv'
      BY <3>1, <3>3, LossOff DEF TypeOK, Usable
    <3> QED  BY <2>1, <3>1, <3>4, <3>5, DurableIs DEF Kept, SectorsKept
  <2> QED  BY <2>2, <2>3
<1>4. CASE job = Ops3 /\ ~st[1].ok /\ st[2].ok
  <2>1. wl_dummy_sec_move_count \in Laps
    BY DEF TypeOK
  <2>2. \/ flash' = flash /\ st' = st
        \/ \E v \in Torn(Header(1, wl_dummy_sec_move_count)) :
              st' = [st EXCEPT ![1] = v] /\ flash' = flash
    BY <1>4, LossIs, OpsType DEF Ops3, Header
  <2>3. \A v \in Torn(Header(1, wl_dummy_sec_move_count)) : v \in StateSector /\ ~v.ok
    BY <2>1, TornState
  <2>4. flash' = flash /\ st' \in States /\ ~st'[1].ok /\ st'[2] = st[2]
    BY <1>4, <2>2, <2>3 DEF TypeOK, States
  <2> QED  BY <1>4, <2>4, LossBroken
<1> QED  BY <1>1, <1>3, <1>4

LEMMA LossFormatting ==
  ASSUME TypeOK, Formatting, PowerLoss
  PROVE  WlInv' /\ Kept
<1>1. wl_dummy_sec_move_count \in Laps /\ ~st[1].ok /\ ~st[2].ok
  BY DEF TypeOK, Formatting
<1>2. flash' = flash /\ st' \in States /\ ~st'[1].ok /\ ~st'[2].ok
  <2>1. CASE job = Ops4
    <3>1. \/ flash' = flash /\ st' = st
          \/ \E v \in Torn(EraseState(1)) : st' = [st EXCEPT ![1] = v] /\ flash' = flash
      BY <2>1, LossIs, OpsType DEF Ops4, EraseState
    <3>2. \A v \in Torn(EraseState(1)) : v \in StateSector /\ ~v.ok
      BY <1>1, TornState
    <3> QED  BY <1>1, <3>1, <3>2 DEF TypeOK, States
  <2>2. CASE job = Ops3
    <3>1. \/ flash' = flash /\ st' = st
          \/ \E v \in Torn(Header(1, wl_dummy_sec_move_count)) :
                st' = [st EXCEPT ![1] = v] /\ flash' = flash
      BY <2>2, LossIs, OpsType DEF Ops3, Header
    <3>2. \A v \in Torn(Header(1, wl_dummy_sec_move_count)) : v \in StateSector /\ ~v.ok
      BY <1>1, TornState
    <3> QED  BY <1>1, <3>1, <3>2 DEF TypeOK, States
  <2> QED  BY <2>1, <2>2 DEF Formatting
<1>3. WlInv'
  BY <1>2, LossOff DEF TypeOK, Usable
<1>4. /\ Found(st).pos = 0 /\ Found(st).move = 0
      /\ Found(st').pos = 0 /\ Found(st').move = 0
  BY <1>1, <1>2, FoundBroken DEF TypeOK
<1>5. Kept
  BY <1>2, <1>4, DurableIs DEF Kept, SectorsKept
<1> QED  BY <1>3, <1>5

LEMMA LossFollowing ==
  ASSUME TypeOK, Following, PowerLoss
  PROVE  WlInv' /\ Kept
<1> DEFINE k == wl_dummy_sec_move_count
<1>1. k \in Laps /\ st[1].ok /\ st[1].move = k /\ st[1].rec = {}
  BY DEF TypeOK, Following
<1>2. flash' = flash /\ st' \in States /\ st'[1] = st[1]
  <2>1. CASE job = Ops2
    <3>1. \/ flash' = flash /\ st' = st
          \/ \E v \in Torn(EraseState(2)) : st' = [st EXCEPT ![2] = v] /\ flash' = flash
      BY <2>1, LossIs, OpsType DEF Ops2, EraseState
    <3>2. \A v \in Torn(EraseState(2)) : v \in StateSector
      BY <1>1, TornState
    <3> QED  BY <3>1, <3>2 DEF TypeOK, States
  <2>2. CASE job = Ops1
    <3>1. \/ flash' = flash /\ st' = st
          \/ \E v \in Torn(Header(2, k)) : st' = [st EXCEPT ![2] = v] /\ flash' = flash
      BY <2>2, LossIs, OpsType, CallOpType DEF Ops1, Header
    <3>2. \A v \in Torn(Header(2, k)) : v \in StateSector
      BY <1>1, TornState
    <3> QED  BY <3>1, <3>2 DEF TypeOK, States
  <2> QED  BY <2>1, <2>2 DEF Following
<1>3. WlInv'
  BY <1>1, <1>2, LossOff DEF TypeOK, Usable
<1>4. /\ Found(st).pos = 0 /\ Found(st).move = k
      /\ Found(st').pos = 0 /\ Found(st').move = k
  BY <1>1, <1>2, FoundFirst DEF TypeOK
<1>5. Kept
  BY <1>2, <1>4, DurableIs DEF Kept, SectorsKept
<1> QED  BY <1>3, <1>5

LEMMA LossMending ==
  ASSUME TypeOK, Mending, PowerLoss
  PROVE  WlInv' /\ Kept
<1> DEFINE k == wl_dummy_sec_move_count
<1>1. PICK R \in SUBSET Positions : job = Rebuild(1, k, R) \/ job = Tail(Rebuild(1, k, R))
  BY DEF Mending
<1>2. k \in Laps /\ ~st[1].ok
  BY DEF TypeOK, Mending
<1>3. PICK o \in {EraseState(1), Header(1, k)} : job # <<>> /\ Head(job) = o
  BY <1>1, RebuildIs
<1>4. \/ flash' = flash /\ st' = st
      \/ \E v \in Torn(o) : st' = [st EXCEPT ![1] = v] /\ flash' = flash
  BY <1>3 DEF PowerLoss, Put, EraseState, Header
<1>5. \A v \in Torn(o) : v \in StateSector /\ ~v.ok
  BY <1>2, <1>3, TornState
<1>6. flash' = flash /\ st' \in States /\ ~st'[1].ok /\ st'[2] = st[2]
  BY <1>2, <1>4, <1>5 DEF TypeOK, States
<1> QED  BY <1>2, <1>6, LossBroken

LEMMA PowerLossKeeps ==
  ASSUME WlInv, PowerLoss
  PROVE  WlInv' /\ Kept
<1>1. TypeOK /\ pc # "off"
  BY DEF WlInv, PowerLoss
<1> QED  BY <1>1, LossInPlace, LossMoving, LossRecorded, LossLapping, LossFormatting,
            LossFollowing, LossMending DEF WlInv, Off

(* Steps that do not write to the flash.                                   *)
LEMMA NothingWritten == ASSUME flash' = flash, st' = st PROVE Kept
BY DurableIs DEF Kept, SectorsKept

LEMMA RebuildEmpty ==
  ASSUME NEW k, NEW m
  PROVE  Rebuild(k, m, {}) = <<EraseState(k), Header(k, m)>>
<1>1. Cardinality({}) = 0
  BY FS_EmptySet
<1>2. [n \in 1 .. Cardinality({}) |-> Record(k, Ascending({})[n])] = <<>>
  BY <1>1
<1>3. Rebuild(k, m, {}) = <<EraseState(k), Header(k, m)>> \o <<>>
  BY <1>2 DEF Rebuild
<1>4. \A a, b : <<a, b>> \o <<>> = <<a, b>>
  OBVIOUS
<1> QED  BY <1>3, <1>4

LEMMA InitKeeps ==
  ASSUME WlInv, init
  PROVE  WlInv' /\ Kept
<1>1. /\ TypeOK /\ Usable(st) /\ calls = <<>> /\ pc' = "init"
      /\ flash' = flash /\ st' = st /\ calls' = calls
      /\ wl_sec_erase_cycle_count' = wl_sec_erase_cycle_count
      /\ wl_dummy_sec_pos' = Found(st).pos /\ wl_dummy_sec_move_count' = Found(st).move
      /\ job' = Repair
  BY DurableIs DEF WlInv, init, Off, TypeOK
<1>2. Kept
  BY <1>1, NothingWritten
<1>3. 0 \in Positions /\ 0 \in Laps
  BY WlAssumption DEF Positions, Laps
<1>4. /\ Ops2' = Rebuild(2, wl_dummy_sec_move_count', {})
      /\ Ops4' = Rebuild(1, wl_dummy_sec_move_count', {}) \o Rebuild(2, wl_dummy_sec_move_count', {})
  <2> DEFINE k == wl_dummy_sec_move_count'
  <2>1. CallOp' = <<>>
    BY <1>1 DEF CallOp
  <2>2. k \in Laps
    BY <1>1, FoundType DEF TypeOK
  <2>3. \A i \in {1, 2} : EraseState(i) \in Op /\ Header(i, k) \in Op
    BY <2>2, WlAssumption DEF Op, EraseState, Header, Laps
  <2>4. Ops2' = <<EraseState(2), Header(2, k)>>
    BY <2>1, <2>3, PairIs DEF Ops1, Ops2
  <2>5. Ops4' = <<EraseState(1), Header(1, k)>> \o <<EraseState(2), Header(2, k)>>
    <3>1. <<EraseState(2), Header(2, k)>> \in Seq(Op)
      BY <2>3, PairIs
    <3>2. Ops4' = Rest(EraseState(1), Rest(Header(1, k), <<EraseState(2), Header(2, k)>>))
      BY <2>4 DEF Ops3, Ops4, EraseState
    <3> HIDE DEF k
    <3> QED  BY <2>3, <3>1, <3>2, PairIs, ZenonT(40)
  <2> QED  BY <2>4, <2>5, RebuildEmpty
<1>5. ASSUME NEW p \in Positions, NEW m \in Laps, Settled(st, p, m) PROVE WlInv'
  <2>1. Found(st).pos = p /\ Found(st).move = m
    BY <1>1, <1>5, FoundSettled DEF TypeOK
  <2>2. Repair = <<>>
    BY <1>5 DEF Repair, Settled
  <2>3. TypeOK' /\ InPlace'
    BY <1>1, <1>5, <2>1, <2>2 DEF TypeOK, InPlace
  <2> QED  BY <1>1, <2>3 DEF WlInv
<1>6. CASE st[1].ok /\ st[1].rec = {}
  <2>1. Found(st).pos = 0 /\ Found(st).move = st[1].move /\ st[1].move \in Laps
    BY <1>1, <1>6, FoundFirst DEF TypeOK, States, StateSector
  <2>2. CASE st[2].ok /\ st[2].move = st[1].move
    <3>1. Settled(st, 0, st[1].move)
      BY <1>6, <2>2 DEF Settled
    <3> QED  BY <1>2, <1>3, <1>5, <2>1, <3>1
  <2>3. CASE ~(st[2].ok /\ st[2].move = st[1].move)
    <3>1. Repair = Rebuild(2, st[1].move, {})
      <4>1. CASE st[2].ok
        BY <1>6, <2>3, <4>1 DEF Repair
      <4>2. CASE ~st[2].ok
        BY <1>6, <4>2 DEF Repair
      <4> QED  BY <4>1, <4>2
    <3>2. job' = Ops2'
      BY <1>1, <1>4, <2>1, <3>1
    <3>3. TypeOK'
      BY <1>1, <1>3, <2>1 DEF TypeOK
    <3>4. Following'
      BY <1>1, <1>6, <2>1, <3>2 DEF Following
    <3> QED  BY <1>1, <1>2, <3>3, <3>4 DEF WlInv
  <2> QED  BY <2>2, <2>3
<1>7. CASE ~st[1].ok /\ ~st[2].ok
  <2>1. Found(st).pos = 0 /\ Found(st).move = 0
    BY <1>1, <1>7, FoundBroken DEF TypeOK
  <2>2. Repair = initSections
    BY <1>7 DEF Repair
  <2>3. job' = Ops4'
    BY <1>1, <1>4, <2>1, <2>2 DEF initSections
  <2>4. TypeOK' /\ Formatting'
    BY <1>1, <1>3, <1>7, <2>1, <2>3 DEF TypeOK, Formatting
  <2> QED  BY <1>1, <1>2, <2>4 DEF WlInv
<1>8. CASE ~st[1].ok /\ st[2].ok
  <2> DEFINE R == IF st[1].id THEN st[2].rec ELSE {}
  <2>1. Found(st).pos = MaxPos - 1 /\ Found(st).move = st[2].move
    BY <1>1, <1>8, FoundBroken DEF TypeOK
  <2>2. Repair = Rebuild(1, st[2].move, R)
    BY <1>8 DEF Repair
  <2>3. R \in SUBSET Positions /\ st[2].move \in Laps /\ MaxPos - 1 \in Positions
    BY <1>1, WlAssumption DEF TypeOK, States, StateSector, Positions
  <2>4. TypeOK'
    BY <1>1, <2>1, <2>3 DEF TypeOK
  <2>5. Mending'
    <3> HIDE DEF R
    <3> QED  BY <1>1, <1>8, <2>1, <2>2, <2>3 DEF Mending
  <2> QED  BY <1>1, <1>2, <2>4, <2>5 DEF WlInv
<1> QED  BY <1>1, <1>2, <1>5, <1>6, <1>7, <1>8 DEF Usable

(* With nothing to write, both state sectors are in force.                 *)
LEMMA ReadyInPlace ==
  ASSUME WlInv, pc # "off", job = <<>>
  PROVE  Settled(st, wl_dummy_sec_pos, wl_dummy_sec_move_count)
<1>1. TypeOK
  BY DEF WlInv
<1>2. ~Moving
  BY <1>1, MoveType, RestIs DEF Moving, Move4
<1>3. ~Recorded
  BY <1>1, MoveType DEF Recorded
<1>4. ~Lapping /\ ~Formatting /\ ~Following
  BY <1>1, OpsType DEF Lapping, Formatting, Following
<1>5. ~Mending
  BY RebuildIs DEF Mending
<1> QED  BY <1>2, <1>3, <1>4, <1>5 DEF WlInv, Off, InPlace

(* The operations of a move, one by one.                                   *)
LEMMA MoveIs ==
  ASSUME TypeOK, NEW p \in Positions, NEW m \in Laps, NEW d \in Seq(Op)
  PROVE  Move(p, m) \o d =
           Rest(Data(p, Blank), Rest(Data(p, flash[(p + 1) % MaxPos]),
             Rest(Record(1, p), Rest(Record(2, p),
               IF p < MaxPos - 1 THEN d
               ELSE Rest(EraseState(1), Rest(Header(1, NextMove(p, m)),
                      Rest(EraseState(2), Rest(Header(2, NextMove(p, m)), d))))))))
<1> DEFINE k == NextMove(p, m)
           n == (p + 1) % MaxPos
           C == <<Data(p, Blank), Data(p, flash[n])>>
           R == <<Record(1, p), Record(2, p)>>
           A == <<EraseState(1), Header(1, k)>>
           B == <<EraseState(2), Header(2, k)>>
           L == IF p < MaxPos - 1 THEN <<>> ELSE A \o B
<1>1. n \in Positions /\ k \in Laps /\ flash[n] \in Content
  BY NextType DEF TypeOK
<1>2. /\ Data(p, Blank) \in Op /\ Data(p, flash[n]) \in Op
      /\ \A i \in {1, 2} : Record(i, p) \in Op /\ EraseState(i) \in Op /\ Header(i, k) \in Op
  <2> HIDE DEF n, k
  <2> QED  BY <1>1, BlankType, WlAssumption DEF Op, Data, Record, EraseState, Header, Positions, Laps
<1>3. C \in Seq(Op) /\ R \in Seq(Op) /\ A \in Seq(Op) /\ B \in Seq(Op)
  <2> HIDE DEF n, k
  <2> QED  BY <1>2, PairIs
<1>4. \A e \in Seq(Op) :
        /\ C \o e = Rest(Data(p, Blank), Rest(Data(p, flash[n]), e))
        /\ R \o e = Rest(Record(1, p), Rest(Record(2, p), e))
        /\ A \o e = Rest(EraseState(1), Rest(Header(1, k), e))
        /\ B \o e = Rest(EraseState(2), Rest(Header(2, k), e))
  <2> HIDE DEF n, k
  <2> QED  BY <1>2, PairIs, SMTT(40)
<1>5. Move(p, m) \o d = ((C \o R) \o L) \o d
  BY RebuildEmpty DEF Move, Copy
<1> HIDE DEF A, B, C, R, k, n
<1>6. L \in Seq(Op) /\ L \o d \in Seq(Op) /\ R \o (L \o d) \in Seq(Op) /\ C \o R \in Seq(Op)
  BY <1>3
<1>7. L \o d = IF p < MaxPos - 1 THEN d
               ELSE Rest(EraseState(1), Rest(Header(1, k), Rest(EraseState(2), Rest(Header(2, k), d))))
  <2>1. CASE p < MaxPos - 1
    BY <2>1, ConcatEmptySeq
  <2>2. CASE ~(p < MaxPos - 1)
    <3>1. L \o d = (A \o B) \o d
      BY <2>2
    <3>2. (A \o B) \o d = A \o (B \o d) /\ B \o d \in Seq(Op)
      BY <1>3, Associative, SMTT(40)
    <3> QED  BY <1>4, <2>2, <3>1, <3>2
  <2> QED  BY <2>1, <2>2
<1>8. ((C \o R) \o L) \o d = C \o (R \o (L \o d))
  <2> DEFINE X == C \o R
             Y == L \o d
  <2> HIDE DEF L
  <2>1. (X \o L) \o d = X \o Y
    <3>1. X \in Seq(Op) /\ L \in Seq(Op)
      BY <1>6
    <3> HIDE DEF X
    <3> QED  BY <3>1, Associative
  <2>2. X \o Y = C \o (R \o Y)
    <3>1. Y \in Seq(Op)
      BY <1>6
    <3> HIDE DEF Y
    <3> QED  BY <1>3, <3>1, Associative, SMTT(40)
  <2> QED  BY <2>1, <2>2
<1>9. C \o (R \o (L \o d)) =
        Rest(Data(p, Blank), Rest(Data(p, flash[n]), Rest(Record(1, p), Rest(Record(2, p), L \o d))))
  <2> HIDE DEF L
  <2> QED  BY <1>4, <1>6
<1> HIDE DEF L
<1>10. Move(p, m) \o d =
        Rest(Data(p, Blank), Rest(Data(p, flash[n]), Rest(Record(1, p), Rest(Record(2, p), L \o d))))
  BY <1>5, <1>8, <1>9
<1> QED  BY <1>7, <1>10 DEF k, n

(* updateWL, and the operation of the call at the new place.               *)
LEMMA UpdateKeeps ==
  ASSUME WlInv, Ready, NEW count \in Nat, NEW s \in Sectors, NEW then,
         updateWL(count, s, then), UNCHANGED <<flash, st, pc, calls>>,
         \A p \in Positions : then[p] = IF calls = <<>> THEN <<>> ELSE <<Data(p, Head(calls).to)>>,
         calls # <<>> => Head(calls).at = s
  PROVE  WlInv' /\ Kept
<1> DEFINE p == wl_dummy_sec_pos
           m == wl_dummy_sec_move_count
<1>1. /\ TypeOK /\ pc = "run" /\ job = <<>> /\ p \in Positions /\ m \in Laps
      /\ Settled(st, p, m)
  BY ReadyInPlace DEF WlInv, Ready, TypeOK
<1>2. Kept
  BY NothingWritten
<1>3. CASE count < UpdateRate
  <2>1. job' = then[Addr(s)] /\ wl_sec_erase_cycle_count' = count /\ p' = p /\ m' = m
    BY <1>3 DEF updateWL
  <2>2. Addr(s) \in Positions
    BY <1>1, CalcAddrType DEF Addr
  <2>3. job' = CallOp'
    BY <2>1, <2>2 DEF CallOp, Addr
  <2>4. TypeOK'
    BY <1>1, <2>1 DEF TypeOK
  <2>5. InPlace'
    BY <1>1, <2>1, <2>3 DEF InPlace
  <2> QED  BY <1>1, <1>2, <2>4, <2>5 DEF WlInv
<1>4. CASE ~(count < UpdateRate)
  <2> DEFINE n == (p + 1) % MaxPos
             k == NextMove(p, m)
             d == then[calcAddr(s, n, k)]
  <2>1. /\ job' = Move(p, m) \o d /\ wl_sec_erase_cycle_count' = 0 /\ p' = n /\ m' = k
    BY <1>4 DEF updateWL
  <2>2. n \in Positions /\ k \in Laps
    BY <1>1, NextType
  <2>3. calcAddr(s, n, k) \in Positions
    BY <2>2, CalcAddrType
  <2>4. d = CallOp'
    BY <2>1, <2>3 DEF CallOp, Addr
  <2>5. TypeOK'
    BY <1>1, <2>1, <2>2 DEF TypeOK
  <2>6. \E q \in Positions, i \in Laps :
           /\ p' = (q + 1) % MaxPos /\ m' = NextMove(q, i) /\ Settled(st', q, i)
           /\ job' = Move4(q)'
    <3>1. ASSUME NEW q, q = p PROVE job' = Move4(q)'
      <4>1. CallOp' \in Seq(Op)
        <5> DEFINE x == calcAddr(s, n, k)
        <5>0. d = IF calls = <<>> THEN <<>> ELSE <<Data(x, Head(calls).to)>>
          <6> HIDE DEF x
          <6> QED  BY <2>3 DEF x
        <5>1. CASE calls = <<>>
          BY <2>4, <5>0, <5>1
        <5>2. CASE calls # <<>>
          <6>1. Head(calls).to \in Content
            BY <1>1, <5>2, CallOpType DEF Calls
          <6>2. Data(calcAddr(s, n, k), Head(calls).to) \in Op
            <7> HIDE DEF n, k
            <7> QED  BY <2>3, <6>1, WlAssumption DEF Op, Data, Positions
          <6> QED  BY <2>4, <5>0, <5>2, <6>2
        <5> QED  BY <5>1, <5>2
      <4> QED  BY <1>1, <2>1, <2>4, <3>1, <4>1, MoveIs
               DEF Move4, Move3, Move2, Move1, Lap, Ops4, Ops3, Ops2, Ops1
    <3> QED  BY <1>1, <2>1, <3>1
  <2>7. Moving'
    BY <1>1, <2>6 DEF Moving
  <2> QED  BY <1>1, <1>2, <2>5, <2>7 DEF WlInv
<1> QED  BY <1>3, <1>4

LEMMA EraseSectorKeeps ==
  ASSUME WlInv, erase_sector
  PROVE  WlInv' /\ Kept
<1> DEFINE then == [p \in Positions |-> <<Data(p, Blank)>>]
           count == wl_sec_erase_cycle_count + 1
           c == Head(calls)
<1>1. /\ Ready /\ calls # <<>> /\ c.op = "erase" /\ updateWL(count, c.at, then)
      /\ UNCHANGED <<flash, st, pc, calls>>
  BY DEF erase_sector
<1>2. count \in Nat /\ c \in Calls /\ c.at \in Sectors
  BY <1>1, CallOpType DEF WlInv, TypeOK, Calls
<1>3. c.to = Blank
  BY <1>1, <1>2 DEF Calls
<1>4. \A p \in Positions : then[p] = IF calls = <<>> THEN <<>> ELSE <<Data(p, c.to)>>
  BY <1>1, <1>3
<1> HIDE DEF then, count, c
<1> QED  BY <1>1, <1>2, <1>4, UpdateKeeps DEF c

LEMMA FlushKeeps ==
  ASSUME WlInv, flush
  PROVE  WlInv' /\ Kept
<1> DEFINE then == [p \in Positions |-> <<>>]
<1>1. /\ Ready /\ calls = <<>> /\ updateWL(UpdateRate, 0, then)
      /\ UNCHANGED <<flash, st, pc, calls>>
  BY DEF flush
<1>2. 0 \in Sectors /\ UpdateRate \in Nat
  BY WlAssumption DEF Sectors
<1>3. \A p \in Positions : then[p] = IF calls = <<>> THEN <<>> ELSE <<Data(p, Head(calls).to)>>
  BY <1>1
<1> HIDE DEF then
<1> QED  BY <1>1, <1>2, <1>3, UpdateKeeps

LEMMA WriteKeeps ==
  ASSUME WlInv, write
  PROVE  WlInv' /\ Kept
<1>1. /\ TypeOK /\ pc = "run" /\ job = <<>> /\ calls # <<>>
      /\ UNCHANGED <<flash, st, wl_dummy_sec_pos, wl_dummy_sec_move_count,
                     wl_sec_erase_cycle_count, pc, calls>>
      /\ job' = <<Data(Addr(Head(calls).at), Head(calls).to)>>
  BY DEF WlInv, write, Ready, ram
<1>2. TypeOK'
  BY <1>1 DEF TypeOK
<1>3. InPlace'
  BY <1>1, ReadyInPlace DEF InPlace, CallOp, Addr
<1> QED  BY <1>1, <1>2, <1>3, NothingWritten DEF WlInv

(* A layer above asks for calls.                                           *)
LEMMA CallsKeep ==
  ASSUME WlInv, pc \in {"init", "run"}, job = <<>>, pc' = "run", calls' \in Seq(Calls),
         UNCHANGED <<flash, st, ram, job>>
  PROVE  WlInv' /\ Kept
<1>1. /\ UNCHANGED <<wl_dummy_sec_pos, wl_dummy_sec_move_count, wl_sec_erase_cycle_count>>
      /\ TypeOK
  BY DEF ram, WlInv
<1>2. TypeOK'
  BY <1>1 DEF TypeOK
<1>3. InPlace'
  BY <1>1, ReadyInPlace DEF InPlace
<1> QED  BY <1>1, <1>2, <1>3, NothingWritten DEF WlInv

LEMMA SafeSectors ==
  /\ DataSectors \subseteq Sectors /\ TransSector \in Sectors /\ DumpSector \in Sectors
  /\ 0 \in Parts
BY WlAssumption, SafeAssumption DEF DataSectors, Sectors, TransSector, DumpSector, Parts

LEMMA ReadType ==
  ASSUME TypeOK, NEW s \in Sectors
  PROVE  Read(s) \in Content
BY CalcAddrType DEF TypeOK, Read, Addr

LEMMA RestoreType ==
  ASSUME NEW s \in Sectors, NEW buf \in Content, NEW first, NEW count \in 0 .. Fats
  PROVE  Restore(s, buf, first, count) \in Seq(Calls)
<1> DEFINE Kept1(i) == i < first \/ i >= first + count
           Part(k) == IF k <= first THEN k - 1 ELSE k - 1 + count
           Back(k) == [i \in Parts |-> IF Kept1(i) /\ i <= Part(k) THEN buf[i] ELSE Empty]
<1>1. Empty \in Cells /\ \A i \in Parts : buf[i] \in Cells
  BY DEF Cells, Content
<1>2. ASSUME NEW k PROVE Back(k) \in Content
  <2> HIDE DEF Kept1, Part
  <2> QED  BY <1>1 DEF Content
<1> HIDE DEF Back
<1>3. \A k \in 1 .. Fats - count : WriteCall(s, Back(k)) \in Calls
  BY <1>2 DEF WriteCall, Calls
<1>4. Fats - count \in Nat
  BY WlAssumption
<1>5. [k \in 1 .. Fats - count |-> WriteCall(s, Back(k))] \in Seq(Calls)
  BY <1>3, <1>4
<1> QED  BY <1>5 DEF Restore, Back

LEMMA EraseCallType ==
  ASSUME NEW s \in Sectors PROVE EraseCall(s) \in Calls
BY BlankType DEF EraseCall, Calls

(* A cell with the sign of a transaction is one.                           *)
LEMMA TransactionIs ==
  ASSUME NEW t \in Cells, Signed(t)
  PROVE  \E s \in Sectors, first \in 0 .. Fats, count \in 0 .. Fats :
            /\ t = <<"trans", s, first, count>> /\ first + count <= Fats
            /\ count = 0 => first = 0
<1>1. t \in AnyRecord
  BY SafeAssumption DEF Cells, Empty, Signed
<1> QED  BY <1>1 DEF AnyRecord

LEMMA InitSafeKeeps ==
  ASSUME WlInv, init_safe
  PROVE  WlInv' /\ Kept
<1> DEFINE t == Read(TransSector)[0]
<1>1. TypeOK /\ t \in Cells /\ Read(DumpSector) \in Content
  BY SafeSectors, ReadType DEF WlInv, Content
<1>2. recover(t) \in Seq(Calls)
  <2> HIDE DEF t
  <2>1. CASE ~Signed(t)
    BY <2>1 DEF recover
  <2>2. CASE Signed(t)
    <3>1. PICK s \in Sectors, first \in 0 .. Fats, count \in 0 .. Fats :
             t = <<"trans", s, first, count>>
      BY <1>1, <2>2, TransactionIs
    <3>2. recover(t) = <<EraseCall(s)>> \o Restore(s, Read(DumpSector), first, count)
                       \o <<EraseCall(TransSector)>>
      BY <2>2, <3>1 DEF recover
    <3>3. Restore(s, Read(DumpSector), first, count) \in Seq(Calls)
      BY <1>1, <3>1, SafeSectors, RestoreType
    <3>4. EraseCall(s) \in Calls /\ EraseCall(TransSector) \in Calls
      BY <3>1, SafeSectors, EraseCallType
    <3> QED  BY <3>2, <3>3, <3>4
  <2> QED  BY <2>1, <2>2
<1> QED  BY <1>2, CallsKeep DEF init_safe

LEMMA EraseRangeKeeps ==
  ASSUME WlInv, NEW s \in DataSectors, NEW first \in Parts, NEW count \in 1 .. Fats - first,
         erase_range(s, first, count)
  PROVE  WlInv' /\ Kept
<1>1. TypeOK /\ s \in Sectors /\ Read(s) \in Content /\ count \in 0 .. Fats
  BY SafeSectors, ReadType, WlAssumption DEF WlInv, Parts
<1>2. erase_sector_fit(s, first, count) \in Seq(Calls)
  <2> DEFINE Kept1(i) == i < first \/ i >= first + count
             buf == [i \in Parts |-> IF Kept1(i) THEN Read(s)[i] ELSE <<"stale">>]
             R == Restore(s, buf, first, count)
             five == <<EraseCall(DumpSector), WriteCall(DumpSector, buf), EraseCall(TransSector),
                       WriteCall(TransSector, Transaction(s, first, count)), EraseCall(s)>>
  <2>1. <<"stale">> \in Cells /\ <<"trans", s, first, count>> \in Cells
    BY <1>1, WlAssumption DEF Cells, AnyRecord, Parts
  <2>2. buf \in Content
    <3> HIDE DEF Kept1
    <3> QED  BY <1>1, <2>1 DEF Content
  <2>3. Transaction(s, first, count) \in Content
    BY <2>1, BlankType DEF Transaction, Content
  <2> HIDE DEF buf
  <2>4. R \in Seq(Calls)
    BY <1>1, <2>2, RestoreType
  <2>5. five \in Seq(Calls)
    <3>1. WriteCall(DumpSector, buf) \in Calls
      BY <2>2, SafeSectors DEF WriteCall, Calls
    <3>2. WriteCall(TransSector, Transaction(s, first, count)) \in Calls
      BY <2>3, SafeSectors DEF WriteCall, Calls
    <3> QED  BY <1>1, <3>1, <3>2, SafeSectors, EraseCallType
  <2>6. EraseCall(TransSector) \in Calls
    BY SafeSectors, EraseCallType
  <2>7. erase_sector_fit(s, first, count) = five \o R \o <<EraseCall(TransSector)>>
    BY DEF erase_sector_fit, buf
  <2> HIDE DEF five, R
  <2> QED  BY <2>4, <2>5, <2>6, <2>7
<1>3. <<EraseCall(s)>> \in Seq(Calls)
  BY <1>1, EraseCallType
<1>4. calls' \in Seq(Calls)
  BY <1>2, <1>3 DEF erase_range
<1> QED  BY <1>4, CallsKeep DEF erase_range, Ready

LEMMA WritePartKeeps ==
  ASSUME WlInv, NEW s \in DataSectors, NEW i \in Parts, NEW v \in Values,
         write_part(s, i, <<v>>)
  PROVE  WlInv' /\ Kept
<1>1. s \in Sectors /\ Read(s) \in Content /\ <<v>> \in Cells
  BY SafeSectors, ReadType DEF WlInv, Cells
<1>2. [Read(s) EXCEPT ![i] = <<v>>] \in Content
  BY <1>1 DEF Content
<1>3. WriteCall(s, [Read(s) EXCEPT ![i] = <<v>>]) \in Calls
  BY <1>1, <1>2 DEF WriteCall, Calls
<1>4. calls' \in Seq(Calls)
  BY <1>3 DEF write_part
<1> QED  BY <1>4, CallsKeep DEF write_part, Ready

(***************************************************************************)
(* The theorem.                                                            *)
(***************************************************************************)
LEMMA WlInitInv == Init => WlInv
<1> SUFFICES ASSUME Init PROVE WlInv
  OBVIOUS
<1>1. 0 \in Positions /\ 0 \in Laps
  BY WlAssumption DEF Positions, Laps
<1>2. PICK h \in {NoHeader, [ok |-> TRUE, id |-> TRUE, move |-> MaxPos - 2, rec |-> {}]} :
         st = [k \in {1, 2} |-> h]
  BY DEF Init, WlInit
<1>3. h \in StateSector /\ h.rec = {}
  <2>1. MaxPos - 2 \in Laps
    BY WlAssumption DEF Laps
  <2>2. [ok |-> TRUE, id |-> TRUE, move |-> MaxPos - 2, rec |-> {}] \in StateSector
    BY <2>1 DEF StateSector
  <2>3. NoHeader.rec = {} /\ [ok |-> TRUE, id |-> TRUE, move |-> MaxPos - 2, rec |-> {}].rec = {}
    BY DEF NoHeader
  <2>4. CASE h = NoHeader
    BY <2>3, <2>4, NoHeaderType
  <2>5. CASE h = [ok |-> TRUE, id |-> TRUE, move |-> MaxPos - 2, rec |-> {}]
    BY <2>2, <2>5
  <2> QED  BY <1>2, <2>4, <2>5
<1>4. TypeOK
  BY <1>1, <1>2, <1>3, BlankType DEF Init, WlInit, TypeOK, States
<1>5. Off
  BY <1>2, <1>3 DEF Init, WlInit, Off, Usable
<1> QED  BY <1>4, <1>5 DEF WlInv

LEMMA WlStep ==
  ASSUME WlInv, [Next]_vars
  PROVE  rebuilt' \/ (WlInv' /\ Kept)
<1>1. CASE init
  BY <1>1, InitKeeps
<1>2. CASE FlashStep
  BY <1>2, FlashStepKeeps
<1>3. CASE erase_sector
  BY <1>3, EraseSectorKeeps
<1>4. CASE write
  BY <1>4, WriteKeeps
<1>5. CASE init_safe
  BY <1>5, InitSafeKeeps
<1>6. CASE Client
  BY <1>6, EraseRangeKeeps, WritePartKeeps, FlushKeeps DEF Client
<1>7. CASE Loss
  BY <1>7, PowerLossKeeps DEF Loss
<1>8. CASE UNCHANGED vars
  <2>1. WlInv'
    BY <1>8 DEF vars, WlInv, TypeOK, Off, InPlace, Moving, Recorded, Lapping, Formatting,
       Following, Mending, CallOp, Addr, Ops1, Ops2, Ops3, Ops4, Lap, Move1, Move2, Move3, Move4
  <2>2. Kept
    BY <1>8, NothingWritten DEF vars
  <2> QED  BY <2>1, <2>2
<1> QED  BY <1>1, <1>2, <1>3, <1>4, <1>5, <1>6, <1>7, <1>8 DEF Next, LowerLayer

(* Once a start has rebuilt state sector 1, it has.                        *)
LEMMA StaysRebuilt ==
  ASSUME rebuilt, [Next]_vars
  PROVE  rebuilt'
BY DEF Next, vars, LowerLayer, init, FlashStep, erase_sector, write, init_safe, Client,
   erase_range, write_part, flush, Loss, PowerLoss

(* For any number of sectors, rate of moves and size of parts, and power   *)
(* lost at any moment: no step of a move of the dummy, of its records or   *)
(* of a recovery, finished or torn, changes what a restart finds; only a   *)
(* client's own operation does, in its own sector.  This ends when a start *)
(* writes the header of state sector 1 again after what sector 2 says.     *)
THEOREM AlwaysSurvivesPowerLoss == Spec => SurvivesPowerLoss
<1>1. ASSUME rebuilt \/ WlInv, [Next]_vars
      PROVE  [rebuilt' \/ SectorsKept]_wlVars
  BY <1>1, WlStep, StaysRebuilt DEF Kept
<1>2. (rebuilt \/ WlInv) /\ [Next]_vars => (rebuilt \/ WlInv)'
  BY WlStep, StaysRebuilt
<1> QED  BY <1>1, <1>2, WlInitInv, PTL DEF Spec, SurvivesPowerLoss

(***************************************************************************)
(* Safety mode.  The calls still to be made, with disk what a restart      *)
(* would find in the logical sectors.                                      *)
(***************************************************************************)
IsOpen(disk) == Signed(disk[TransSector][0])
\* Nothing but the state sector begins with the sign of a transaction.
Clean(disk) == \A s \in Sectors \ {TransSector} : ~Signed(disk[s][0])

Outside(i, first, count) == i < first \/ i >= first + count
LastPart(k, first, count) == IF k <= first THEN k - 1 ELSE k - 1 + count
\* The sector when k parts of it are written back.
Back(buf, first, count, k) ==
    [i \in Parts |-> IF Outside(i, first, count) /\ i <= LastPart(k, first, count)
                     THEN buf[i] ELSE Empty]
\* The calls that remain then.
Left(s, buf, first, count, k) ==
    [j \in 1 .. Fats - count - k + 1 |->
       IF j = Fats - count - k + 1 THEN EraseCall(TransSector)
       ELSE WriteCall(s, Back(buf, first, count, k + j))]

\* No call, or one that is a single operation; b are the parts the client's
\* call is about.
Single(disk, cs, b) ==
    /\ ~IsOpen(disk)
    /\ \/ cs = <<>>
       \/ \E s \in DataSectors : cs = <<EraseCall(s)>> /\ \A i \in Parts : <<s, i>> \in b
       \/ \E s \in DataSectors, v \in Content :
            /\ cs = <<WriteCall(s, v)>> /\ ~Signed(v[0])
            /\ \A i \in Parts : <<s, i>> \in b \/ v[i] = disk[s][i]

Then(c, cs) == <<c>> \o cs
Fit1(s, buf, first, count) == Then(EraseCall(s), Left(s, buf, first, count, 0))
Fit2(s, buf, first, count) ==
    Then(WriteCall(TransSector, Transaction(s, first, count)), Fit1(s, buf, first, count))
Fit3(s, buf, first, count) == Then(EraseCall(TransSector), Fit2(s, buf, first, count))
Fit4(s, buf, first, count) == Then(WriteCall(DumpSector, buf), Fit3(s, buf, first, count))
Fit5(s, buf, first, count) == Then(EraseCall(DumpSector), Fit4(s, buf, first, count))

\* The parts to be kept are dumped, the transaction is not open yet.
Dumping(disk, cs, b) ==
    /\ ~IsOpen(disk)
    /\ \E s \in DataSectors, first \in Parts, count \in 1 .. Fats, buf \in Content :
         /\ first + count <= Fats /\ ~Signed(buf[0])
         /\ \A i \in Parts :
              IF Outside(i, first, count) THEN buf[i] = disk[s][i] ELSE <<s, i>> \in b
         /\ \/ cs = Fit5(s, buf, first, count)
            \/ cs = Fit4(s, buf, first, count)
            \/ cs = Fit3(s, buf, first, count) /\ disk[DumpSector] = buf
            \/ cs = Fit2(s, buf, first, count) /\ disk[DumpSector] = buf

\* The transaction is open: the sector is erased and its parts written back.  A
\* record that was torn may be about no part at all.
Restoring(disk, cs) ==
    \E s \in DataSectors, first \in 0 .. Fats, count \in 0 .. Fats :
      /\ first + count <= Fats /\ (count = 0 => first = 0)
      /\ disk[TransSector][0] = <<"trans", s, first, count>>
      /\ \/ cs = Fit1(s, disk[DumpSector], first, count)
         \/ \E k \in 0 .. Fats - count :
              /\ disk[s] = Back(disk[DumpSector], first, count, k)
              /\ cs = Left(s, disk[DumpSector], first, count, k)

\* A torn record names the state sector or the dump: no call reaches the data.
Harmless == {c \in Calls : c.at \in {TransSector, DumpSector} /\ ~Signed(c.to[0])}
Aside(disk, cs) ==
    /\ IsOpen(disk) => disk[TransSector][0][2] \notin DataSectors
    /\ cs \in Seq(Harmless) /\ cs # <<>> /\ cs[Len(cs)] = EraseCall(TransSector)

InCall(disk, cs, b) ==
    \/ Single(disk, cs, b) \/ Dumping(disk, cs, b) \/ Restoring(disk, cs)
    \/ Aside(disk, cs)
SafeInv == Clean(Durable) /\ (pc = "run" => InCall(Durable, calls, busy))

-----------------------------------------------------------------------------
(* What a restart would find in the parts, and what may change there.      *)
View(disk) ==
    LET t == disk[TransSector][0]
    IN  [s \in DataSectors |-> [i \in Parts |->
           IF ~Signed(t) \/ t[2] # s THEN disk[s][i]
           ELSE IF i < t[3] \/ i >= t[3] + t[4] THEN disk[DumpSector][i] ELSE Empty]]
SameParts(disk, new, b) ==
    \A s \in DataSectors : \A i \in Parts : View(new)[s][i] = View(disk)[s][i] \/ <<s, i>> \in b
Disk == [Sectors -> Content]

LEMMA ThenIs ==
  ASSUME NEW c \in Calls, NEW cs \in Seq(Calls)
  PROVE  /\ Then(c, cs) \in Seq(Calls) /\ Then(c, cs) # <<>>
         /\ Head(Then(c, cs)) = c /\ Tail(Then(c, cs)) = cs
BY DEF Then

LEMMA BackType ==
  ASSUME NEW buf \in Content, NEW first, NEW count, NEW k
  PROVE  Back(buf, first, count, k) \in Content
<1>1. Empty \in Cells /\ \A i \in Parts : buf[i] \in Cells
  BY DEF Cells, Content
<1> QED  BY <1>1 DEF Back, Content

LEMMA BackEnds ==
  ASSUME NEW buf \in Content, NEW first \in 0 .. Fats, NEW count \in 0 .. Fats,
         first + count <= Fats
  PROVE  /\ Back(buf, first, count, 0) = Blank
         /\ Back(buf, first, count, Fats - count)
              = [i \in Parts |-> IF Outside(i, first, count) THEN buf[i] ELSE Empty]
<1>1. \A i \in Parts : ~(i <= LastPart(0, first, count))
  BY WlAssumption DEF Parts, LastPart
<1>2. \A i \in Parts : Outside(i, first, count) => i <= LastPart(Fats - count, first, count)
  BY WlAssumption DEF Parts, LastPart, Outside
<1>3. Back(buf, first, count, 0) = Blank
  BY <1>1 DEF Back, Blank, Parts
<1>4. Back(buf, first, count, Fats - count)
        = [i \in Parts |-> IF Outside(i, first, count) THEN buf[i] ELSE Empty]
  BY <1>2 DEF Back
<1> QED  BY <1>3, <1>4

(* The last element of a sequence is that of its tail, if there is one.    *)
LEMMA LastStays ==
  ASSUME NEW S, NEW q \in Seq(S), q # <<>>
  PROVE  /\ Tail(q) \in Seq(S)
         /\ Len(q) = 1 => Head(q) = q[Len(q)] /\ Tail(q) = <<>>
         /\ Len(q) # 1 => Tail(q) # <<>> /\ Tail(q)[Len(Tail(q))] = q[Len(q)]
<1>1. /\ Tail(q) \in Seq(S) /\ Len(Tail(q)) = Len(q) - 1 /\ Len(q) \in Nat \ {0}
      /\ \A i \in 1 .. Len(q) - 1 : Tail(q)[i] = q[i + 1]
  OBVIOUS
<1>2. CASE Len(q) = 1
  <2>1. Tail(q) = <<>>
    <3>1. \A t \in Seq(S) : Len(t) = 0 => t = <<>>
      BY EmptySeq
    <3>2. Tail(q) \in Seq(S) /\ Len(Tail(q)) = 0
      BY <1>1, <1>2
    <3> QED  BY <3>1, <3>2
  <2> QED  BY <1>1, <1>2, <2>1
<1>3. CASE Len(q) # 1
  <2>1. Len(q) - 1 \in 1 .. Len(q) - 1 /\ (Len(q) - 1) + 1 = Len(q)
    BY <1>1, <1>3
  <2> QED  BY <1>1, <1>3, <2>1
<1> QED  BY <1>2, <1>3

LEMMA LeftIs ==
  ASSUME NEW s \in DataSectors, NEW buf \in Content, NEW first \in 0 .. Fats,
         NEW count \in 0 .. Fats, NEW k \in 0 .. Fats - count
  PROVE  /\ Left(s, buf, first, count, k) \in Seq(Calls) /\ Left(s, buf, first, count, k) # <<>>
         /\ k = Fats - count => /\ Head(Left(s, buf, first, count, k)) = EraseCall(TransSector)
                                /\ Tail(Left(s, buf, first, count, k)) = <<>>
         /\ k < Fats - count => /\ Head(Left(s, buf, first, count, k))
                                     = WriteCall(s, Back(buf, first, count, k + 1))
                                /\ Tail(Left(s, buf, first, count, k))
                                     = Left(s, buf, first, count, k + 1)
<1> DEFINE n == Fats - count - k + 1
           B(j) == Back(buf, first, count, j)
           L == Left(s, buf, first, count, k)
<1>1. n \in Nat \ {0} /\ s \in Sectors
  BY WlAssumption, SafeSectors
<1>2. \A j \in 1 .. n :
        (IF j = n THEN EraseCall(TransSector) ELSE WriteCall(s, B(k + j))) \in Calls
  BY <1>1, BackType, EraseCallType, SafeSectors DEF WriteCall, Calls
<1>3. L \in Seq(Calls) /\ Len(L) = n
  <2> DEFINE e(j) == IF j = n THEN EraseCall(TransSector) ELSE WriteCall(s, B(k + j))
  <2>1. L = [j \in 1 .. n |-> e(j)]
    BY DEF Left
  <2> HIDE DEF e, L, n
  <2> QED  BY <1>1, <1>2, <2>1 DEF e
<1>4. Head(L) = (IF 1 = n THEN EraseCall(TransSector) ELSE WriteCall(s, B(k + 1)))
  BY <1>1, <1>3 DEF Left
<1>0. L # <<>>
  <2> HIDE DEF L, n
  <2> QED  BY <1>1, <1>3
<1>5. CASE k = Fats - count
  <2>1. n = 1
    BY <1>5, WlAssumption
  <2>2. Tail(L) = <<>>
    <3> HIDE DEF L, n
    <3> QED  BY <1>0, <1>3, <2>1, LastStays
  <2>3. Head(L) = EraseCall(TransSector) /\ ~(k < Fats - count)
    BY <1>4, <1>5, <2>1, WlAssumption
  <2> HIDE DEF L
  <2> QED  BY <1>0, <1>3, <2>2, <2>3 DEF L
<1>6. CASE k < Fats - count
  <2> DEFINE M == Left(s, buf, first, count, k + 1)
             T == Tail(L)
  <2>1. n > 1 /\ n - 1 = Fats - count - (k + 1) + 1
    BY <1>6, WlAssumption
  <2>2. T \in Seq(Calls) /\ Len(T) = n - 1
    <3> HIDE DEF L, n
    <3> QED  BY <1>1, <1>3
  <2>3. \A j \in 1 .. n - 1 : T[j] = L[j + 1]
    <3> HIDE DEF L, n
    <3> QED  BY <1>1, <1>3
  <2>4. M = [j \in 1 .. n - 1 |-> IF j = n - 1 THEN EraseCall(TransSector)
                                 ELSE WriteCall(s, B(k + 1 + j))]
    BY <2>1 DEF Left
  <2>5. \A j \in 1 .. n - 1 : L[j + 1] = M[j]
    <3>1. ASSUME NEW j \in 1 .. n - 1 PROVE L[j + 1] = M[j]
      <4>1. j + 1 \in 1 .. n /\ (j + 1 = n <=> j = n - 1) /\ k + (j + 1) = k + 1 + j
        BY <1>1
      <4>2. L[j + 1] = IF j + 1 = n THEN EraseCall(TransSector) ELSE WriteCall(s, B(k + (j + 1)))
        BY <4>1 DEF Left
      <4>3. M[j] = IF j = n - 1 THEN EraseCall(TransSector) ELSE WriteCall(s, B(k + 1 + j))
        BY <2>4
      <4> HIDE DEF L, M, n
      <4> QED  BY <4>1, <4>2, <4>3
    <3> QED  BY <3>1
  <2>6. M \in Seq(Calls) /\ Len(M) = n - 1
    <3>1. \A j \in 1 .. n - 1 : M[j] \in Calls
      <4>1. \A j \in 1 .. n - 1 : j + 1 \in 1 .. Len(L)
        BY <1>1, <1>3
      <4> HIDE DEF M, L, n
      <4> QED  BY <1>3, <2>5, <4>1
    <3>2. n - 1 \in Nat /\ DOMAIN M = 1 .. n - 1
      BY <1>1, <2>4
    <3>3. M = [j \in 1 .. n - 1 |-> M[j]]
      BY <2>4
    <3> HIDE DEF M, n
    <3> QED  BY <3>1, <3>2, <3>3
  <2>7. T = M
    <3> HIDE DEF T, M, n, L
    <3> QED  BY <2>2, <2>3, <2>5, <2>6, SeqEqual
  <2> QED  BY <1>0, <1>3, <1>4, <1>6, <2>1, <2>7
<1> QED  BY <1>5, <1>6, WlAssumption

LEMMA ClosedView ==
  ASSUME NEW disk, NEW s \in DataSectors, NEW i \in Parts, ~IsOpen(disk)
  PROVE  View(disk)[s][i] = disk[s][i]
BY DEF View, IsOpen

(* The record of a sector that is not one of the data does not show.       *)
LEMMA AsideView ==
  ASSUME NEW disk, NEW s \in DataSectors, NEW i \in Parts,
         disk[TransSector][0][2] \notin DataSectors
  PROVE  View(disk)[s][i] = disk[s][i]
BY DEF View

LEMMA OpenView ==
  ASSUME NEW disk, NEW s \in DataSectors, NEW i \in Parts, NEW t, NEW first, NEW count,
         disk[TransSector][0] = <<"trans", t, first, count>>
  PROVE  View(disk)[s][i] = IF t # s THEN disk[s][i]
                            ELSE IF Outside(i, first, count) THEN disk[DumpSector][i] ELSE Empty
BY DEF View, Outside, Signed

LEMMA SectorsDiffer ==
  /\ TransSector \notin DataSectors /\ DumpSector \notin DataSectors /\ TransSector # DumpSector
BY WlAssumption, SafeAssumption DEF TransSector, DumpSector, DataSectors

LEMMA ClosedCells ==
  /\ ~Signed(Empty) /\ ~Signed(<<"torn">>) /\ ~Signed(<<"stale">>) /\ 0 \in Parts
  /\ Blank[0] = Empty
BY WlAssumption DEF Empty, Blank, Parts, Signed

(* What the first of the calls may leave in the sector it is about.        *)
Changed(disk, new, s, v) == new[s] = v /\ \A t \in Sectors \ {s} : new[t] = disk[t]
Outcomes(disk, c) ==
    {v \in Content :
       /\ \A i \in Parts : c.to[i] = disk[c.at][i] => v[i] = c.to[i]
       /\ Signed(v[0]) => v[0] = c.to[0] \/ Signed(disk[c.at][0]) \/ Signed(c.to[0])}
\* A record with its sign that was not there and should not have been.
Misread(disk, c, v) ==
    /\ c.at = TransSector /\ Signed(v[0])
    /\ v[0] \notin {disk[TransSector][0], c.to[0]}

LEMMA SingleCall ==
  ASSUME NEW disk \in Disk, NEW cs \in Seq(Calls), NEW b, Single(disk, cs, b), cs # <<>>,
         NEW v \in Outcomes(disk, Head(cs)), NEW new, Changed(disk, new, Head(cs).at, v)
  PROVE  /\ InCall(new, Tail(cs), b) /\ SameParts(disk, new, b)
         /\ ~Signed(Head(cs).to[0])
<1>1. PICK s \in DataSectors, w \in Content :
        /\ Head(cs).at = s /\ Head(cs).to = w /\ Tail(cs) = <<>> /\ ~Signed(w[0])
        /\ \A i \in Parts : <<s, i>> \in b \/ w[i] = disk[s][i]
  <2>1. CASE \E s \in DataSectors : cs = <<EraseCall(s)>> /\ \A i \in Parts : <<s, i>> \in b
    BY <2>1, BlankType, ClosedCells DEF EraseCall
  <2>2. CASE \E s \in DataSectors, w \in Content :
               /\ cs = <<WriteCall(s, w)>> /\ ~Signed(w[0])
               /\ \A i \in Parts : <<s, i>> \in b \/ w[i] = disk[s][i]
    BY <2>2 DEF WriteCall
  <2> QED  BY <2>1, <2>2 DEF Single
<1>2. s \in Sectors /\ new[TransSector] = disk[TransSector] /\ new[s] = v
      /\ \A t \in DataSectors \ {s} : new[t] = disk[t]
  BY <1>1, SafeSectors, SectorsDiffer DEF Changed
<1>3. ~IsOpen(disk) /\ ~IsOpen(new)
  BY <1>2 DEF Single, IsOpen
<1>4. \A i \in Parts : v[i] = disk[s][i] \/ <<s, i>> \in b
  BY <1>1 DEF Outcomes
<1>5. SameParts(disk, new, b)
  <2> SUFFICES ASSUME NEW t \in DataSectors, NEW i \in Parts
               PROVE  View(new)[t][i] = View(disk)[t][i] \/ <<t, i>> \in b
    BY DEF SameParts
  <2>1. View(new)[t][i] = new[t][i] /\ View(disk)[t][i] = disk[t][i]
    BY <1>3, ClosedView
  <2> QED  BY <1>2, <1>4, <2>1
<1>6. InCall(new, Tail(cs), b)
  BY <1>1, <1>3 DEF InCall, Single
<1> QED  BY <1>1, <1>5, <1>6

LEMMA FitType ==
  ASSUME NEW s \in DataSectors, NEW buf \in Content, NEW first \in 0 .. Fats,
         NEW count \in 0 .. Fats, first + count <= Fats, count = 0 => first = 0
  PROVE  /\ EraseCall(s) \in Calls /\ EraseCall(TransSector) \in Calls
         /\ EraseCall(DumpSector) \in Calls /\ WriteCall(DumpSector, buf) \in Calls
         /\ WriteCall(TransSector, Transaction(s, first, count)) \in Calls
         /\ Left(s, buf, first, count, 0) \in Seq(Calls)
         /\ Fit1(s, buf, first, count) \in Seq(Calls) /\ Fit2(s, buf, first, count) \in Seq(Calls)
         /\ Fit3(s, buf, first, count) \in Seq(Calls) /\ Fit4(s, buf, first, count) \in Seq(Calls)
         /\ Transaction(s, first, count) \in Content
         /\ Transaction(s, first, count)[0] = <<"trans", s, first, count>>
<1>1. 0 \in 0 .. Fats - count /\ s \in Sectors
  BY WlAssumption, SafeSectors
<1>2. <<"trans", s, first, count>> \in Cells
  BY <1>1 DEF Cells, AnyRecord
<1>3. /\ Transaction(s, first, count) \in Content
      /\ Transaction(s, first, count)[0] = <<"trans", s, first, count>>
  BY <1>2, BlankType, SafeSectors DEF Transaction, Content
<1>4. /\ EraseCall(s) \in Calls /\ EraseCall(TransSector) \in Calls
      /\ EraseCall(DumpSector) \in Calls
  BY <1>1, EraseCallType, SafeSectors
<1>5. WriteCall(DumpSector, buf) \in Calls
  BY SafeSectors DEF WriteCall, Calls
<1>6. WriteCall(TransSector, Transaction(s, first, count)) \in Calls
  BY <1>3, SafeSectors DEF WriteCall, Calls
<1>7. Left(s, buf, first, count, 0) \in Seq(Calls)
  BY <1>1, LeftIs
<1>8. Fit1(s, buf, first, count) \in Seq(Calls)
  BY <1>4, <1>7, ThenIs DEF Fit1
<1>9. Fit2(s, buf, first, count) \in Seq(Calls)
  BY <1>6, <1>8, ThenIs DEF Fit2
<1>10. Fit3(s, buf, first, count) \in Seq(Calls)
  BY <1>4, <1>9, ThenIs DEF Fit3
<1>11. Fit4(s, buf, first, count) \in Seq(Calls)
  BY <1>5, <1>10, ThenIs DEF Fit4
<1> QED  BY <1>3, <1>4, <1>5, <1>6, <1>7, <1>8, <1>9, <1>10, <1>11

(* Neither the dump nor the state sector shows while no transaction is     *)
(* open.                                                                   *)
LEMMA ClosedSame ==
  ASSUME NEW disk, NEW new, NEW b, ~IsOpen(disk), ~IsOpen(new),
         \A s \in DataSectors : new[s] = disk[s]
  PROVE  SameParts(disk, new, b)
BY ClosedView DEF SameParts

(* A call leaves in the state sector what was there, what it writes, or    *)
(* nothing that is taken for a transaction.                                *)
LEMMA TransOutcome ==
  ASSUME NEW disk, NEW c, NEW v, c.at = TransSector, ~Misread(disk, c, v)
  PROVE  ~Signed(v[0]) \/ v[0] = disk[TransSector][0] \/ v[0] = c.to[0]
BY DEF Misread

LEMMA DumpingCall ==
  ASSUME NEW disk \in Disk, NEW cs \in Seq(Calls), NEW b, Dumping(disk, cs, b),
         NEW v \in Outcomes(disk, Head(cs)), NEW new, Changed(disk, new, Head(cs).at, v),
         ~Misread(disk, Head(cs), v)
  PROVE  /\ SameParts(disk, new, b) /\ (v = Head(cs).to => InCall(new, Tail(cs), b))
         /\ Head(cs).at # TransSector => ~Signed(Head(cs).to[0])
<1>1. PICK s \in DataSectors, first \in Parts, count \in 1 .. Fats, buf \in Content :
        /\ first + count <= Fats /\ ~Signed(buf[0])
        /\ \A i \in Parts :
             IF Outside(i, first, count) THEN buf[i] = disk[s][i] ELSE <<s, i>> \in b
        /\ \/ cs = Fit5(s, buf, first, count)
           \/ cs = Fit4(s, buf, first, count)
           \/ cs = Fit3(s, buf, first, count) /\ disk[DumpSector] = buf
           \/ cs = Fit2(s, buf, first, count) /\ disk[DumpSector] = buf
  BY DEF Dumping
<1>0. first \in 0 .. Fats /\ count \in 0 .. Fats /\ count # 0
  BY WlAssumption DEF Parts
<1>2. ~IsOpen(disk)
  BY DEF Dumping
<1>3. ASSUME ~IsOpen(new), \A t \in DataSectors : new[t] = disk[t],
             NEW rest, Tail(cs) = rest,
             \/ rest = Fit4(s, buf, first, count)
             \/ rest = Fit3(s, buf, first, count) /\ new[DumpSector] = buf
             \/ rest = Fit2(s, buf, first, count) /\ new[DumpSector] = buf
      PROVE  SameParts(disk, new, b) /\ InCall(new, Tail(cs), b)
  <2>1. SameParts(disk, new, b)
    BY <1>2, <1>3, ClosedSame
  <2>2. Dumping(new, Tail(cs), b)
    BY <1>1, <1>3 DEF Dumping
  <2> QED  BY <2>1, <2>2 DEF InCall
<1>4. CASE cs = Fit5(s, buf, first, count)
  <2>1. Head(cs) = EraseCall(DumpSector) /\ Tail(cs) = Fit4(s, buf, first, count)
    BY <1>0, <1>1, <1>4, FitType, ThenIs DEF Fit5
  <2>2. new[TransSector] = disk[TransSector] /\ \A t \in DataSectors : new[t] = disk[t]
    BY <2>1, SafeSectors, SectorsDiffer DEF Changed, EraseCall
  <2>3. ~Signed(Head(cs).to[0])
    BY <2>1, ClosedCells DEF EraseCall
  <2> QED  BY <1>2, <1>3, <2>1, <2>2, <2>3 DEF IsOpen
<1>5. CASE cs = Fit4(s, buf, first, count)
  <2>1. Head(cs) = WriteCall(DumpSector, buf) /\ Tail(cs) = Fit3(s, buf, first, count)
    BY <1>0, <1>1, <1>5, FitType, ThenIs DEF Fit4
  <2>2. /\ new[TransSector] = disk[TransSector] /\ \A t \in DataSectors : new[t] = disk[t]
        /\ new[DumpSector] = v /\ Head(cs).to = buf
    BY <2>1, SafeSectors, SectorsDiffer DEF Changed, WriteCall
  <2>3. ~IsOpen(new)
    BY <1>2, <2>2 DEF IsOpen
  <2>4. SameParts(disk, new, b)
    BY <1>2, <2>2, <2>3, ClosedSame
  <2> QED  BY <1>1, <1>3, <2>1, <2>2, <2>3, <2>4
<1>6. CASE cs = Fit3(s, buf, first, count) /\ disk[DumpSector] = buf
  <2>1. Head(cs) = EraseCall(TransSector) /\ Tail(cs) = Fit2(s, buf, first, count)
    BY <1>0, <1>1, <1>6, FitType, ThenIs DEF Fit3
  <2>2. /\ new[DumpSector] = disk[DumpSector] /\ \A t \in DataSectors : new[t] = disk[t]
        /\ new[TransSector] = v /\ Head(cs).at = TransSector /\ Head(cs).to = Blank
    BY <2>1, SafeSectors, SectorsDiffer DEF Changed, EraseCall
  <2>3. ~Signed(v[0])
    <3>1. ~Signed(v[0]) \/ v[0] = disk[TransSector][0] \/ v[0] = Empty
      BY <2>2, TransOutcome, ClosedCells
    <3> QED  BY <1>2, <3>1, ClosedCells DEF IsOpen
  <2>4. ~IsOpen(new)
    BY <2>2, <2>3 DEF IsOpen
  <2> QED  BY <1>3, <1>6, <2>1, <2>2, <2>4
<1>7. CASE cs = Fit2(s, buf, first, count) /\ disk[DumpSector] = buf
  <2> DEFINE tr == Transaction(s, first, count)
  <2>1. Head(cs) = WriteCall(TransSector, tr) /\ Tail(cs) = Fit1(s, buf, first, count)
    BY <1>0, <1>1, <1>7, FitType, ThenIs DEF Fit2
  <2>2. /\ new[DumpSector] = disk[DumpSector] /\ \A t \in DataSectors : new[t] = disk[t]
        /\ new[TransSector] = v /\ Head(cs).at = TransSector /\ Head(cs).to = tr
    BY <2>1, SafeSectors, SectorsDiffer DEF Changed, WriteCall
  <2>3. tr[0] = <<"trans", s, first, count>>
    BY <1>0, <1>1, FitType
  <2>4. CASE v[0] = tr[0]
    <3>1. new[TransSector][0] = <<"trans", s, first, count>>
      BY <2>2, <2>3, <2>4
    <3>2. SameParts(disk, new, b)
      <4> SUFFICES ASSUME NEW t \in DataSectors, NEW i \in Parts
                   PROVE  View(new)[t][i] = View(disk)[t][i] \/ <<t, i>> \in b
        BY DEF SameParts
      <4>1. View(disk)[t][i] = disk[t][i]
        BY <1>2, ClosedView
      <4>2. View(new)[t][i] = IF s # t THEN new[t][i]
                              ELSE IF Outside(i, first, count) THEN new[DumpSector][i] ELSE Empty
        BY <3>1, OpenView
      <4> QED  BY <1>1, <1>7, <2>2, <4>1, <4>2
    <3>3. Restoring(new, Tail(cs))
      BY <1>0, <1>1, <1>7, <2>1, <2>2, <3>1 DEF Restoring
    <3> QED  BY <2>2, <3>2, <3>3 DEF InCall
  <2>5. CASE v[0] # tr[0]
    <3>1. ~Signed(v[0]) \/ v[0] = disk[TransSector][0]
      BY <2>2, <2>5, TransOutcome
    <3>2. ~IsOpen(new)
      BY <1>2, <2>2, <3>1 DEF IsOpen
    <3>3. SameParts(disk, new, b)
      BY <1>2, <2>2, <3>2, ClosedSame
    <3> QED  BY <2>2, <2>5, <3>3
  <2> QED  BY <2>4, <2>5
<1> QED  BY <1>1, <1>4, <1>5, <1>6, <1>7

(* The view hangs on the first part of the state sector, the dump and the  *)
(* data.                                                                   *)
LEMMA SameView ==
  ASSUME NEW disk, NEW new, NEW b, new[TransSector][0] = disk[TransSector][0],
         new[DumpSector] = disk[DumpSector], \A t \in DataSectors : new[t] = disk[t]
  PROVE  SameParts(disk, new, b)
BY DEF SameParts, View

LEMMA RestoringCall ==
  ASSUME NEW disk \in Disk, NEW cs \in Seq(Calls), NEW b, Restoring(disk, cs), Clean(disk),
         NEW v \in Outcomes(disk, Head(cs)), NEW new, Changed(disk, new, Head(cs).at, v),
         ~Misread(disk, Head(cs), v)
  PROVE  /\ SameParts(disk, new, b) /\ (v = Head(cs).to => InCall(new, Tail(cs), b))
         /\ Head(cs).at # TransSector => ~Signed(Head(cs).to[0])
<1> DEFINE buf == disk[DumpSector]
<1>1. PICK s \in DataSectors, first \in 0 .. Fats, count \in 0 .. Fats :
        /\ first + count <= Fats /\ (count = 0 => first = 0)
        /\ disk[TransSector][0] = <<"trans", s, first, count>>
        /\ \/ cs = Fit1(s, buf, first, count)
           \/ \E k \in 0 .. Fats - count :
                disk[s] = Back(buf, first, count, k) /\ cs = Left(s, buf, first, count, k)
  BY DEF Restoring
<1>2. buf \in Content /\ ~Signed(buf[0])
  BY SafeSectors, SectorsDiffer DEF Disk, Clean
<1>3. ASSUME Head(cs).at = s
      PROVE  /\ SameParts(disk, new, b) /\ new[s] = v
             /\ new[DumpSector] = buf /\ new[TransSector][0] = <<"trans", s, first, count>>
  <2>1. /\ new[s] = v /\ new[DumpSector] = buf /\ new[TransSector] = disk[TransSector]
        /\ \A t \in DataSectors \ {s} : new[t] = disk[t]
    BY <1>3, SafeSectors, SectorsDiffer DEF Changed
  <2>2. new[TransSector][0] = <<"trans", s, first, count>>
    BY <1>1, <2>1
  <2>3. ASSUME NEW t \in DataSectors, NEW i \in Parts PROVE View(new)[t][i] = View(disk)[t][i]
    <3>1. View(new)[t][i] = IF s # t THEN new[t][i]
                            ELSE IF Outside(i, first, count) THEN new[DumpSector][i] ELSE Empty
      BY <2>2, OpenView
    <3>2. View(disk)[t][i] = IF s # t THEN disk[t][i]
                             ELSE IF Outside(i, first, count) THEN disk[DumpSector][i] ELSE Empty
      BY <1>1, OpenView
    <3> QED  BY <2>1, <3>1, <3>2
  <2> QED  BY <2>1, <2>2, <2>3 DEF SameParts
<1>4. CASE cs = Fit1(s, buf, first, count)
  <2>1. Head(cs) = EraseCall(s) /\ Tail(cs) = Left(s, buf, first, count, 0)
    <3> HIDE DEF buf
    <3> QED  BY <1>1, <1>2, <1>4, FitType, ThenIs DEF Fit1
  <2>2. Head(cs).at = s /\ Head(cs).to = Blank /\ ~Signed(Head(cs).to[0])
    BY <2>1, ClosedCells DEF EraseCall
  <2>3. v = Blank => Restoring(new, Tail(cs))
    <3>1. Back(buf, first, count, 0) = Blank
      <4> HIDE DEF buf
      <4> QED  BY <1>1, <1>2, BackEnds
    <3>2. 0 \in 0 .. Fats - count
      BY WlAssumption
    <3> QED  BY <1>1, <1>3, <2>1, <2>2, <3>1, <3>2 DEF Restoring
  <2> QED  BY <1>3, <2>2, <2>3 DEF InCall
<1>5. ASSUME NEW k \in 0 .. Fats - count, disk[s] = Back(buf, first, count, k),
             cs = Left(s, buf, first, count, k)
      PROVE  /\ SameParts(disk, new, b) /\ (v = Head(cs).to => InCall(new, Tail(cs), b))
             /\ Head(cs).at # TransSector => ~Signed(Head(cs).to[0])
  <2>1. CASE k < Fats - count
    <3>1. /\ Head(cs) = WriteCall(s, Back(buf, first, count, k + 1))
          /\ Tail(cs) = Left(s, buf, first, count, k + 1)
      <4> HIDE DEF buf
      <4> QED  BY <1>2, <1>5, <2>1, LeftIs
    <3>2. Head(cs).at = s /\ Head(cs).to = Back(buf, first, count, k + 1)
      BY <3>1 DEF WriteCall
    <3>3. k + 1 \in 0 .. Fats - count
      BY <2>1, WlAssumption
    <3>4. v = Head(cs).to => Restoring(new, Tail(cs))
      BY <1>1, <1>3, <3>1, <3>2, <3>3 DEF Restoring
    <3>5. ~Signed(Head(cs).to[0])
      BY <1>2, <3>2, ClosedCells DEF Back
    <3> QED  BY <1>3, <3>2, <3>4, <3>5 DEF InCall
  <2>2. CASE k = Fats - count
    <3>1. Head(cs) = EraseCall(TransSector) /\ Tail(cs) = <<>>
      <4> HIDE DEF buf
      <4> QED  BY <1>2, <1>5, <2>2, LeftIs
    <3>2. /\ \A t \in DataSectors : new[t] = disk[t]
          /\ new[DumpSector] = disk[DumpSector]
          /\ new[TransSector] = v /\ Head(cs).at = TransSector /\ Head(cs).to = Blank
      BY <3>1, SafeSectors, SectorsDiffer DEF Changed, EraseCall
    <3>3. CASE v[0] = disk[TransSector][0]
      <4>1. v # Blank
        BY <1>1, <3>3, ClosedCells DEF Signed
      <4> QED  BY <3>2, <3>3, <4>1, SameView
    <3>4. CASE v[0] # disk[TransSector][0]
      <4>0. ~Signed(v[0])
        BY <3>2, <3>4, TransOutcome, ClosedCells
      <4>1. ~IsOpen(new)
        BY <3>2, <4>0 DEF IsOpen
      <4>2. disk[s] = [i \in Parts |-> IF Outside(i, first, count) THEN buf[i] ELSE Empty]
        <5> HIDE DEF buf
        <5> QED  BY <1>1, <1>2, <1>5, <2>2, BackEnds
      <4>3. ASSUME NEW t \in DataSectors, NEW i \in Parts PROVE View(new)[t][i] = View(disk)[t][i]
        <5>1. View(new)[t][i] = new[t][i]
          BY <4>1, ClosedView
        <5>2. View(disk)[t][i] = IF s # t THEN disk[t][i]
                                 ELSE IF Outside(i, first, count) THEN disk[DumpSector][i] ELSE Empty
          BY <1>1, OpenView
        <5> QED  BY <3>2, <4>2, <5>1, <5>2
      <4>4. Single(new, Tail(cs), b)
        BY <3>1, <4>1 DEF Single
      <4> QED  BY <3>2, <4>3, <4>4 DEF InCall, SameParts
    <3> QED  BY <3>3, <3>4
  <2> QED  BY <2>1, <2>2, WlAssumption
<1> QED  BY <1>1, <1>4, <1>5

LEMMA AsideCall ==
  ASSUME NEW disk \in Disk, NEW cs \in Seq(Calls), NEW b, Aside(disk, cs),
         NEW v \in Outcomes(disk, Head(cs)), NEW new, Changed(disk, new, Head(cs).at, v),
         ~Misread(disk, Head(cs), v)
  PROVE  /\ SameParts(disk, new, b) /\ (v = Head(cs).to => InCall(new, Tail(cs), b))
         /\ ~Signed(Head(cs).to[0])
<1> DEFINE c == Head(cs)
<1>1. /\ cs \in Seq(Harmless) /\ cs # <<>> /\ cs[Len(cs)] = EraseCall(TransSector)
      /\ IsOpen(disk) => disk[TransSector][0][2] \notin DataSectors
  BY DEF Aside
<1>2. c \in Harmless
  BY <1>1
<1>3. c.at \in {TransSector, DumpSector} /\ ~Signed(c.to[0])
  BY <1>2 DEF Harmless
<1>4. \A t \in DataSectors : new[t] = disk[t]
  BY <1>3, SafeSectors, SectorsDiffer DEF Changed
<1>5. IsOpen(new) => new[TransSector][0] = disk[TransSector][0]
  <2>1. CASE c.at = TransSector
    <3>1. new[TransSector] = v
      BY <2>1 DEF Changed
    <3> QED  BY <1>3, <2>1, <3>1, TransOutcome DEF IsOpen
  <2>2. CASE c.at = DumpSector
    BY <2>2, SafeSectors, SectorsDiffer DEF Changed
  <2> QED  BY <1>3, <2>1, <2>2
<1>6. IsOpen(new) => new[TransSector][0][2] \notin DataSectors
  BY <1>1, <1>5 DEF IsOpen
<1>7. SameParts(disk, new, b)
  <2> SUFFICES ASSUME NEW t \in DataSectors, NEW i \in Parts
               PROVE  View(new)[t][i] = View(disk)[t][i]
    BY DEF SameParts
  <2>1. View(new)[t][i] = new[t][i]
    BY <1>6, ClosedView, AsideView
  <2>2. View(disk)[t][i] = disk[t][i]
    BY <1>1, ClosedView, AsideView
  <2> QED  BY <1>4, <2>1, <2>2
<1>8. ASSUME v = c.to PROVE InCall(new, Tail(cs), b)
  <2>1. CASE Len(cs) = 1
    <3>1. c = EraseCall(TransSector) /\ Tail(cs) = <<>>
      <4> HIDE DEF Harmless
      <4> QED  BY <1>1, <2>1, LastStays
    <3>2. new[TransSector] = Blank
      BY <1>8, <3>1 DEF Changed, EraseCall
    <3>3. ~IsOpen(new)
      BY <3>2, ClosedCells DEF IsOpen
    <3> QED  BY <3>1, <3>3 DEF InCall, Single
  <2>2. CASE Len(cs) # 1
    <3>1. /\ Tail(cs) \in Seq(Harmless) /\ Tail(cs) # <<>>
          /\ Tail(cs)[Len(Tail(cs))] = EraseCall(TransSector)
      <4> HIDE DEF Harmless
      <4> QED  BY <1>1, <2>2, LastStays
    <3> QED  BY <1>6, <3>1 DEF InCall, Aside
  <2> QED  BY <2>1, <2>2
<1> QED  BY <1>3, <1>7, <1>8

(* Every call keeps what it should, and the sign out of the other sectors. *)
LEMMA AnyCall ==
  ASSUME NEW disk \in Disk, NEW cs \in Seq(Calls), NEW b, InCall(disk, cs, b), Clean(disk),
         cs # <<>>, NEW v \in Outcomes(disk, Head(cs)), NEW new,
         Changed(disk, new, Head(cs).at, v), ~Misread(disk, Head(cs), v)
  PROVE  /\ SameParts(disk, new, b) /\ (v = Head(cs).to => InCall(new, Tail(cs), b))
         /\ Head(cs).at # TransSector => ~Signed(Head(cs).to[0])
<1>1. CASE Single(disk, cs, b)
  BY <1>1, SingleCall
<1>2. CASE Dumping(disk, cs, b)
  BY <1>2, DumpingCall
<1>3. CASE Restoring(disk, cs)
  BY <1>3, RestoringCall
<1>4. CASE Aside(disk, cs)
  BY <1>4, AsideCall
<1> QED  BY <1>1, <1>2, <1>3, <1>4 DEF InCall

(* Whatever a call leaves, in the middle of the record too.                *)
LEMMA StaysClean ==
  ASSUME NEW disk \in Disk, NEW cs \in Seq(Calls), NEW b, InCall(disk, cs, b), Clean(disk),
         cs # <<>>, NEW v \in Outcomes(disk, Head(cs)), NEW new,
         Changed(disk, new, Head(cs).at, v)
  PROVE  Clean(new)
<1> DEFINE c == Head(cs)
<1>1. c \in Calls /\ c.at \in Sectors
  BY DEF Calls
<1>2. CASE c.at = TransSector
  BY <1>2 DEF Changed, Clean
<1>3. CASE c.at # TransSector
  <2>1. ~Misread(disk, c, v)
    BY <1>3 DEF Misread
  <2>2. ~Signed(c.to[0])
    BY <1>3, <2>1, AnyCall
  <2>3. ~Signed(disk[c.at][0])
    BY <1>1, <1>3 DEF Clean
  <2>4. ~Signed(v[0])
    BY <2>2, <2>3 DEF Outcomes
  <2> QED  BY <1>1, <2>4 DEF Changed, Clean
<1> QED  BY <1>2, <1>3

-----------------------------------------------------------------------------
(* The effect of the steps of WlFlash on what a restart would find.        *)
LEMMA DurableType ==
  ASSUME WlInv
  PROVE  Durable \in Disk
<1>1. TypeOK /\ Found(st).move \in Laps
  BY FoundType DEF WlInv, TypeOK
<1>2. Found(st).pos \in Positions
  <2>1. ASSUME NEW p \in Positions, NEW m \in Laps, Settled(st, p, m) PROVE Found(st).pos \in Positions
    BY <1>1, <2>1, FoundSettled DEF TypeOK
  <2>2. CASE Off
    <3>1. CASE st[1].ok
      BY <1>1, <2>1, <2>2, <3>1, FoundFirst, WlAssumption DEF Off, Usable, TypeOK, Positions
    <3>2. CASE ~st[1].ok
      BY <1>1, <2>2, <3>2, FoundBroken, WlAssumption DEF Off, Usable, TypeOK, Positions
    <3> QED  BY <3>1, <3>2
  <2>3. CASE InPlace
    BY <1>1, <2>1, <2>3 DEF InPlace, TypeOK
  <2>4. CASE Moving
    BY <2>1, <2>4 DEF Moving
  <2>5. CASE Recorded
    <3>1. PICK p \in Positions :
            IF p < MaxPos - 1 THEN Settled(st, p + 1, wl_dummy_sec_move_count)
            ELSE \E m \in Laps : Settled(st, p, m)
      BY <2>5 DEF Recorded
    <3>2. p < MaxPos - 1 => p + 1 \in Positions
      BY WlAssumption DEF Positions
    <3> QED  BY <1>1, <2>1, <3>1, <3>2 DEF TypeOK
  <2>6. CASE Lapping
    <3>1. MaxPos - 1 \in Positions
      BY WlAssumption DEF Positions
    <3> QED  BY <1>1, <2>1, <2>6, <3>1, FoundBroken DEF Lapping, TypeOK
  <2>7. CASE Formatting
    BY <1>1, <2>7, FoundBroken, WlAssumption DEF Formatting, TypeOK, Positions
  <2>8. CASE Following
    BY <1>1, <2>8, FoundFirst, WlAssumption DEF Following, TypeOK, Positions
  <2>9. CASE Mending
    BY <1>1, <2>9, FoundBroken, WlAssumption DEF Mending, TypeOK, Positions
  <2> QED  BY <2>2, <2>3, <2>4, <2>5, <2>6, <2>7, <2>8, <2>9 DEF WlInv
<1>3. \A s \in Sectors : flash[calcAddr(s, Found(st).pos, Found(st).move)] \in Content
  BY <1>1, <1>2, CalcAddrType DEF TypeOK
<1> QED  BY <1>3, DurableIs DEF Disk, Seen

LEMMA OfCallInPlace ==
  ASSUME WlInv, OfCall
  PROVE  /\ TypeOK /\ InPlace /\ job = CallOp /\ pc = "run" /\ calls # <<>>
<1>1. TypeOK /\ pc = "run" /\ calls # <<>> /\ Len(job) = 1
  BY DEF WlInv, OfCall
<1>2. job # <<>>
  BY <1>1
<1>3. ASSUME NEW o \in Op, NEW j \in Seq(Op), job = Rest(o, j), j # <<>> PROVE FALSE
  BY <1>1, <1>3, RestIs
<1>4. ~Moving
  <2> SUFFICES ASSUME NEW p \in Positions, job \in {Move4(p), Move3(p), Move2(p)} PROVE FALSE
    BY DEF Moving
  <2> QED  BY <1>1, <1>3, MoveType DEF Move4, Move3, Move2
<1>5. ~Recorded
  BY <1>1, <1>3, MoveType DEF Recorded, Move1
<1>6. job \notin {Ops1, Ops2, Ops3, Ops4}
  BY <1>1, <1>3, OpsType, CallOpType DEF Ops1, Ops2, Ops3, Ops4
<1> QED  BY <1>1, <1>2, <1>4, <1>5, <1>6
         DEF WlInv, Off, InPlace, Lapping, Formatting, Following, Mending

LEMMA QuietStep ==
  ASSUME WlInv, Kept, ~OfCall
  PROVE  Durable' = Durable
<1>1. \A s \in Sectors : Durable'[s] = Durable[s]
  BY DEF Kept, SectorsKept
<1> QED  BY <1>1 DEF Durable

(* The data operation of a call is seen as it is made.                     *)
LEMMA CallSeen ==
  ASSUME WlInv, OfCall, NEW v, flash' = [flash EXCEPT ![Addr(Head(calls).at)] = v], st' = st, Kept
  PROVE  Changed(Durable, Durable', Head(calls).at, v) /\ Durable[Head(calls).at] = Read(Head(calls).at)
<1> DEFINE p == wl_dummy_sec_pos
           m == wl_dummy_sec_move_count
           s == Head(calls).at
<1>1. TypeOK /\ InPlace /\ calls # <<>>
  BY OfCallInPlace
<1>2. s \in Sectors /\ Addr(s) \in Positions
  BY <1>1, CallOpType DEF Calls
<1>3. Found(st).pos = p /\ Found(st).move = m /\ Found(st').pos = p /\ Found(st').move = m
  BY <1>1, FoundSettled DEF InPlace, TypeOK
<1>4. Durable'[s] = flash'[Addr(s)] /\ Durable[s] = flash[Addr(s)]
  BY <1>2, <1>3, DurableIs DEF Seen, Addr
<1>5. flash'[Addr(s)] = v
  BY <1>1, <1>2 DEF TypeOK
<1>6. \A t \in Sectors \ {s} : Durable'[t] = Durable[t]
  BY DEF Kept, SectorsKept
<1> QED  BY <1>4, <1>5, <1>6 DEF Changed, Read

LEMMA StepEffect ==
  ASSUME WlInv, FlashStep, ~rebuilt'
  PROVE  /\ pc' = pc
         /\ \/ calls' = calls /\ Durable' = Durable
            \/ /\ pc = "run" /\ calls # <<>> /\ calls' = Tail(calls)
               /\ Changed(Durable, Durable', Head(calls).at, Head(calls).to)
<1>1. Kept /\ pc' = pc
  BY FlashStepKeeps DEF FlashStep
<1>2. CASE ~OfCall
  BY <1>1, <1>2, QuietStep DEF FlashStep
<1>3. CASE OfCall
  <2>1. job = CallOp /\ pc = "run" /\ calls # <<>>
    BY <1>3, OfCallInPlace
  <2>2. Head(job) = Data(Addr(Head(calls).at), Head(calls).to)
    BY <2>1 DEF CallOp
  <2>3. flash' = [flash EXCEPT ![Addr(Head(calls).at)] = Head(calls).to] /\ st' = st
    BY <2>2 DEF FlashStep, Put, Data
  <2>4. Changed(Durable, Durable', Head(calls).at, Head(calls).to)
    BY <1>1, <1>3, <2>3, CallSeen
  <2> QED  BY <1>1, <1>3, <2>1, <2>4 DEF FlashStep
<1> QED  BY <1>2, <1>3

LEMMA LossEffect ==
  ASSUME WlInv, PowerLoss
  PROVE  \/ Durable' = Durable
         \/ /\ OfCall /\ pc = "run" /\ calls # <<>>
            /\ \E v \in Outcomes(Durable, Head(calls)) :
                 Changed(Durable, Durable', Head(calls).at, v)
<1> DEFINE c == Head(calls)
<1>1. Kept
  BY PowerLossKeeps
<1>2. CASE ~OfCall
  BY <1>1, <1>2, QuietStep
<1>3. CASE OfCall
  <2>1. TypeOK /\ job = CallOp /\ pc = "run" /\ calls # <<>>
    BY <1>3, OfCallInPlace
  <2>2. Head(job) = Data(Addr(c.at), c.to) /\ job # <<>>
    BY <2>1 DEF CallOp
  <2>3. CASE flash' = flash /\ st' = st
    BY <2>3, DurableIs
  <2>4. CASE ~(flash' = flash /\ st' = st)
    <3>1. PICK v \in Torn(Data(Addr(c.at), c.to)) :
             flash' = [flash EXCEPT ![Addr(c.at)] = v] /\ st' = st
      BY <2>2, <2>4 DEF PowerLoss, Put, Data
    <3>2. c.to \in Content /\ Addr(c.at) \in Positions
      BY <2>1, CallOpType DEF Calls
    <3>3. v \in Content
      BY <2>1, <3>1, <3>2, TornData
    <3>4. Changed(Durable, Durable', c.at, v) /\ Durable[c.at] = Read(c.at)
      BY <1>1, <1>3, <3>1, CallSeen
    <3>5. v \in Outcomes(Durable, c)
      <4> DEFINE was == Durable[c.at]
                 to == c.to
      <4>1. was = flash[Addr(c.at)] /\ DOMAIN to = Parts
        BY <3>2, <3>4 DEF Read, Content
      <4>2. PICK r \in TornPart(was[0], to[0]) :
               v = [i \in Parts |-> CASE i = 0 -> r
                                      [] i > 0 /\ to[i] = was[i] -> to[i]
                                      [] OTHER -> <<"torn">>]
        BY <3>1, <4>1 DEF Torn, Data
      <4>3. v[0] = r
        BY <4>2, ClosedCells
      <4> HIDE DEF was, to
      <4>4. ASSUME NEW i \in Parts, to[i] = was[i] PROVE v[i] = to[i]
        <5>1. CASE i = 0
          BY <4>2, <4>3, <4>4, <5>1 DEF TornPart
        <5>2. CASE i # 0
          <6>1. i > 0
            BY <5>2, WlAssumption DEF Parts
          <6> QED  BY <4>2, <4>4, <5>2, <6>1
        <5> QED  BY <5>1, <5>2
      <4>5. Signed(v[0]) => v[0] = to[0] \/ Signed(was[0]) \/ Signed(to[0])
        <5> HIDE DEF AnyRecord, Signed
        <5> QED  BY <4>2, <4>3, ClosedCells DEF TornPart
      <4> QED  BY <3>3, <4>4, <4>5 DEF Outcomes, was, to
    <3> QED  BY <1>3, <2>1, <3>4, <3>5
  <2> QED  BY <2>3, <2>4
<1> QED  BY <1>2, <1>3

(* When the library is ready, a read shows what a restart would find.      *)
LEMMA ReadyRead ==
  ASSUME WlInv, pc # "off", job = <<>>, NEW s \in Sectors
  PROVE  Read(s) = Durable[s]
<1>1. Found(st).pos = wl_dummy_sec_pos /\ Found(st).move = wl_dummy_sec_move_count
  BY ReadyInPlace, FoundSettled DEF WlInv, TypeOK
<1> QED  BY <1>1, DurableIs DEF Seen, Read, Addr

-----------------------------------------------------------------------------
(* The calls of a transaction, one by one.                                 *)
LEMMA RestoreIs ==
  ASSUME NEW s \in DataSectors, NEW buf \in Content, NEW first \in 0 .. Fats, NEW count \in 0 .. Fats
  PROVE  Restore(s, buf, first, count) \o <<EraseCall(TransSector)>> = Left(s, buf, first, count, 0)
<1> DEFINE n == Fats - count
           R == Restore(s, buf, first, count)
           c == EraseCall(TransSector)
           J == R \o <<c>>
           L == Left(s, buf, first, count, 0)
<1>1. n \in Nat /\ s \in Sectors /\ count \in 0 .. Fats /\ 0 \in 0 .. n
  BY WlAssumption, SafeSectors
<1>2. R \in Seq(Calls) /\ c \in Calls /\ L \in Seq(Calls)
  BY <1>1, RestoreType, EraseCallType, SafeSectors, LeftIs
<1>3. R = [k \in 1 .. n |-> WriteCall(s, Back(buf, first, count, k))]
  BY DEF Restore, Back, Outside, LastPart
<1>4. L = [j \in 1 .. n + 1 |-> IF j = n + 1 THEN c ELSE WriteCall(s, Back(buf, first, count, j))]
  <2>1. \A j \in 1 .. n + 1 : 0 + j = j
    BY <1>1
  <2>2. Fats - count - 0 + 1 = n + 1
    BY WlAssumption
  <2> QED  BY <2>1, <2>2 DEF Left
<1>5. Len(R) = n /\ Len(L) = n + 1
  <2>1. DOMAIN R = 1 .. n /\ DOMAIN L = 1 .. n + 1 /\ n + 1 \in Nat
    BY <1>1, <1>3, <1>4
  <2> HIDE DEF R, L, n
  <2> QED  BY <1>1, <1>2, <2>1
<1>6. J \in Seq(Calls) /\ Len(J) = n + 1
  <2> HIDE DEF R, n, c
  <2> QED  BY <1>1, <1>2, <1>5
<1>7. \A j \in 1 .. n + 1 : J[j] = IF j = n + 1 THEN c ELSE R[j]
  <2> HIDE DEF R, n, c
  <2> QED  BY <1>1, <1>2, <1>5
<1>8. \A j \in 1 .. n + 1 : J[j] = L[j]
  <2>1. \A j \in 1 .. n + 1 : j # n + 1 => j \in 1 .. n
    BY <1>1
  <2> HIDE DEF J, n, c, R, L
  <2> QED  BY <1>3, <1>4, <1>7, <2>1
<1>9. J = L
  <2> HIDE DEF J, L, n
  <2> QED  BY <1>2, <1>5, <1>6, <1>8, SeqEqual
<1> QED  BY <1>9

LEMMA CallsAssociative ==
  ASSUME NEW r \in Seq(Calls), NEW s \in Seq(Calls), NEW t \in Seq(Calls)
  PROVE  (r \o s) \o t = r \o (s \o t) /\ s \o t \in Seq(Calls)
BY ConcatAssociative

LEMMA FitIs ==
  ASSUME NEW s \in DataSectors, NEW first \in 0 .. Fats, NEW count \in 0 .. Fats,
         first + count <= Fats, count = 0 => first = 0, NEW buf \in Content,
         buf = [i \in Parts |-> IF i < first \/ i >= first + count THEN Read(s)[i] ELSE <<"stale">>]
  PROVE  erase_sector_fit(s, first, count) = Fit5(s, buf, first, count)
<1> DEFINE R == Restore(s, buf, first, count)
           L == Left(s, buf, first, count, 0)
           et == EraseCall(TransSector)
           ed == EraseCall(DumpSector)
           wd == WriteCall(DumpSector, buf)
           wt == WriteCall(TransSector, Transaction(s, first, count))
           es == EraseCall(s)
           five == <<ed, wd, et, wt, es>>
<1>1. erase_sector_fit(s, first, count) = (five \o R) \o <<et>>
  BY DEF erase_sector_fit
<1>2. /\ ed \in Calls /\ wd \in Calls /\ et \in Calls /\ wt \in Calls /\ es \in Calls
      /\ L \in Seq(Calls)
  BY FitType
<1>3. R \in Seq(Calls) /\ R \o <<et>> = L
  <2>1. s \in Sectors /\ count \in 0 .. Fats
    BY WlAssumption, SafeSectors
  <2> QED  BY <2>1, RestoreIs, RestoreType
<1> HIDE DEF ed, wd, et, wt, es, L
<1>4. five \o L = Then(ed, Then(wd, Then(et, Then(wt, Then(es, L)))))
  <2> DEFINE x4 == Then(es, L)
             x3 == Then(wt, x4)
             x2 == Then(et, x3)
             x1 == Then(wd, x2)
             x == Then(ed, x1)
             y == five \o L
  <2>1. x4 \in Seq(Calls) /\ Len(x4) = Len(L) + 1 /\ x4[1] = es
        /\ \A i \in 1 .. Len(L) : x4[i + 1] = L[i]
    BY <1>2 DEF Then
  <2> HIDE DEF x4
  <2>2. x3 \in Seq(Calls) /\ Len(x3) = Len(x4) + 1 /\ x3[1] = wt
        /\ \A i \in 1 .. Len(x4) : x3[i + 1] = x4[i]
    BY <1>2, <2>1 DEF Then
  <2> HIDE DEF x3
  <2>3. x2 \in Seq(Calls) /\ Len(x2) = Len(x3) + 1 /\ x2[1] = et
        /\ \A i \in 1 .. Len(x3) : x2[i + 1] = x3[i]
    BY <1>2, <2>2 DEF Then
  <2> HIDE DEF x2
  <2>4. x1 \in Seq(Calls) /\ Len(x1) = Len(x2) + 1 /\ x1[1] = wd
        /\ \A i \in 1 .. Len(x2) : x1[i + 1] = x2[i]
    BY <1>2, <2>3 DEF Then
  <2> HIDE DEF x1
  <2>5. x \in Seq(Calls) /\ Len(x) = Len(x1) + 1 /\ x[1] = ed
        /\ \A i \in 1 .. Len(x1) : x[i + 1] = x1[i]
    BY <1>2, <2>4 DEF Then
  <2> HIDE DEF x
  <2>6. /\ y \in Seq(Calls) /\ Len(y) = Len(L) + 5
        /\ y[1] = ed /\ y[2] = wd /\ y[3] = et /\ y[4] = wt /\ y[5] = es
        /\ \A i \in 1 .. Len(L) : y[i + 5] = L[i]
    BY <1>2
  <2> HIDE DEF y
  <2>7. Len(x) = Len(y) /\ Len(L) \in Nat
    BY <1>2, <2>1, <2>2, <2>3, <2>4, <2>5, <2>6
  <2>8. x[1] = ed /\ x[2] = wd /\ x[3] = et /\ x[4] = wt /\ x[5] = es
    <3>1. /\ Len(x4) \in Nat /\ Len(x4) >= 1 /\ Len(x3) \in Nat /\ Len(x3) >= 2
          /\ Len(x2) \in Nat /\ Len(x2) >= 3 /\ Len(x1) \in Nat /\ Len(x1) >= 4
      BY <2>1, <2>2, <2>3, <2>4, <2>7
    <3>2. x3[1 + 1] = x4[1] /\ x2[1 + 1] = x3[1] /\ x2[2 + 1] = x3[2]
      <4>1. x3[1 + 1] = x4[1]
        BY <2>2, <3>1
      <4>2. x2[1 + 1] = x3[1] /\ x2[2 + 1] = x3[2]
        BY <2>3, <3>1
      <4> QED  BY <4>1, <4>2
    <3>3. x1[1 + 1] = x2[1] /\ x1[2 + 1] = x2[2] /\ x1[3 + 1] = x2[3]
      BY <2>4, <3>1
    <3>4. x[1 + 1] = x1[1] /\ x[2 + 1] = x1[2] /\ x[3 + 1] = x1[3] /\ x[4 + 1] = x1[4]
      BY <2>5, <3>1
    <3> QED  BY <2>1, <2>2, <2>3, <2>4, <2>5, <3>2, <3>3, <3>4
  <2>9. ASSUME NEW i \in 1 .. Len(L) PROVE x[i + 5] = L[i]
    <3>1. /\ i + 4 \in 1 .. Len(x1) /\ i + 3 \in 1 .. Len(x2) /\ i + 2 \in 1 .. Len(x3)
          /\ i + 1 \in 1 .. Len(x4)
          /\ i + 4 + 1 = i + 5 /\ i + 3 + 1 = i + 4 /\ i + 2 + 1 = i + 3 /\ i + 1 + 1 = i + 2
      BY <2>1, <2>2, <2>3, <2>4, <2>7, SMTT(40)
    <3>2. x[i + 5] = x1[i + 4] /\ x1[i + 4] = x2[i + 3]
      BY <2>4, <2>5, <3>1
    <3>3. x2[i + 3] = x3[i + 2] /\ x3[i + 2] = x4[i + 1]
      BY <2>2, <2>3, <3>1
    <3> QED  BY <2>1, <3>2, <3>3
  <2>10. ASSUME NEW i \in 1 .. Len(x) PROVE x[i] = y[i]
    <3>1. CASE i <= 5
      BY <2>6, <2>7, <2>8, <3>1
    <3>2. CASE i > 5
      <4>1. i - 5 \in 1 .. Len(L) /\ (i - 5) + 5 = i
        BY <2>6, <2>7, <3>2
      <4> QED  BY <2>6, <2>9, <4>1
    <3> QED  BY <2>7, <3>1, <3>2
  <2>11. x = y
    BY <2>5, <2>6, <2>7, <2>10, SeqEqual
  <2> QED  BY <2>11 DEF x, x1, x2, x3, x4, y
<1>5. five \in Seq(Calls)
  BY <1>2
<1>6. (five \o R) \o <<et>> = five \o (R \o <<et>>)
  <2> HIDE DEF five, R
  <2>1. <<et>> \in Seq(Calls)
    BY <1>2
  <2> DEFINE last == <<et>>
  <2> HIDE DEF last
  <2>2. (five \o R) \o last = five \o (R \o last)
    BY <1>3, <1>5, <2>1, CallsAssociative DEF last
  <2> QED  BY <2>2 DEF last
<1>7. Fit5(s, buf, first, count) = Then(ed, Then(wd, Then(et, Then(wt, Then(es, L)))))
  BY DEF Fit5, Fit4, Fit3, Fit2, Fit1, L, ed, wd, et, wt, es
<1> HIDE DEF five, R
<1> QED  BY <1>1, <1>3, <1>4, <1>6, <1>7

(* What recover does is the rest of the transaction.                       *)
LEMMA RecoverIs ==
  ASSUME NEW s \in DataSectors, NEW first \in 0 .. Fats, NEW count \in 0 .. Fats,
         first + count <= Fats, Read(DumpSector) \in Content
  PROVE  recover(<<"trans", s, first, count>>) = Fit1(s, Read(DumpSector), first, count)
<1> DEFINE buf == Read(DumpSector)
           R == Restore(s, buf, first, count)
           e == <<EraseCall(s)>>
           last == <<EraseCall(TransSector)>>
<1>1. recover(<<"trans", s, first, count>>) = (e \o R) \o last
  BY DEF recover, Signed
<1>2. e \in Seq(Calls) /\ last \in Seq(Calls) /\ R \in Seq(Calls) /\ R \o last = Left(s, buf, first, count, 0)
  <2>1. s \in Sectors /\ count \in 0 .. Fats
    BY WlAssumption, SafeSectors
  <2>2. e \in Seq(Calls) /\ last \in Seq(Calls)
    BY <2>1, EraseCallType, SafeSectors
  <2>3. buf \in Content
    OBVIOUS
  <2>4. R \in Seq(Calls) /\ R \o last = Left(s, buf, first, count, 0)
    <3> HIDE DEF buf
    <3> QED  BY <2>1, <2>3, RestoreIs, RestoreType
  <2> QED  BY <2>2, <2>4
<1>3. (e \o R) \o last = e \o (R \o last)
  <2> HIDE DEF e, R, last
  <2> QED  BY <1>2, CallsAssociative
<1> QED  BY <1>1, <1>2, <1>3 DEF Fit1, Then

(***************************************************************************)
(* Every step keeps the parts the call is not about.                       *)
(***************************************************************************)
LEMMA PartsAre ==
  DurableParts = View(Durable) /\ DurableParts' = View(Durable')
BY DEF DurableParts, View

LEMMA SameDisk == ASSUME NEW disk, NEW b PROVE SameParts(disk, disk, b)
BY DEF SameParts

(* With no calls to come, no transaction is open.                          *)
LEMMA NoCallClosed ==
  ASSUME NEW disk \in Disk, NEW b, InCall(disk, <<>>, b)
  PROVE  ~IsOpen(disk)
<1>1. disk[DumpSector] \in Content
  BY SafeSectors DEF Disk
<1>2. ~Dumping(disk, <<>>, b)
  <2>1. Parts \subseteq 0 .. Fats /\ 1 .. Fats \subseteq 0 .. Fats /\ 0 \notin 1 .. Fats
    BY WlAssumption DEF Parts
  <2> QED  BY <2>1, FitType, ThenIs DEF Dumping, Fit5, Fit4, Fit3, Fit2
<1>3. ~Restoring(disk, <<>>)
  <2> SUFFICES ASSUME Restoring(disk, <<>>) PROVE FALSE
    OBVIOUS
  <2>1. PICK s \in DataSectors, first \in 0 .. Fats, count \in 0 .. Fats :
          /\ first + count <= Fats /\ (count = 0 => first = 0)
          /\ \/ <<>> = Fit1(s, disk[DumpSector], first, count)
             \/ \E k \in 0 .. Fats - count : <<>> = Left(s, disk[DumpSector], first, count, k)
    BY DEF Restoring
  <2>2. <<>> # Fit1(s, disk[DumpSector], first, count)
    BY <1>1, <2>1, FitType, ThenIs DEF Fit1
  <2> QED  BY <1>1, <2>1, <2>2, LeftIs
<1>4. ~Aside(disk, <<>>)
  BY DEF Aside
<1> QED  BY <1>2, <1>3, <1>4 DEF InCall, Single

LEMMA FlashStepParts ==
  ASSUME WlInv, SafeInv, FlashStep, busy' = busy, ~rebuilt'
  PROVE  SafeInv' /\ SameParts(Durable, Durable', busy)
<1>1. CASE calls' = calls /\ Durable' = Durable
  BY <1>1, StepEffect, SameDisk DEF SafeInv
<1>2. CASE ~(calls' = calls /\ Durable' = Durable)
  <2>1. /\ pc = "run" /\ calls # <<>> /\ calls' = Tail(calls)
        /\ Changed(Durable, Durable', Head(calls).at, Head(calls).to)
    BY <1>2, StepEffect
  <2> DEFINE D == Durable
             E == Durable'
             c == Head(calls)
  <2>2. /\ D \in Disk /\ calls \in Seq(Calls) /\ c \in Calls
        /\ InCall(D, calls, busy) /\ Clean(D)
    BY <2>1, DurableType DEF WlInv, TypeOK, SafeInv
  <2>3. c.to \in Outcomes(D, c) /\ ~Misread(D, c, c.to)
    BY <2>2 DEF Outcomes, Misread, Calls
  <2>4. SameParts(D, E, busy) /\ InCall(E, Tail(calls), busy) /\ Clean(E)
    <3> HIDE DEF D, E
    <3>1. Changed(D, E, c.at, c.to)
      BY <2>1 DEF D, E
    <3> QED  BY <2>1, <2>2, <2>3, <3>1, AnyCall, StaysClean
  <2> QED  BY <2>1, <2>4 DEF SafeInv
<1> QED  BY <1>1, <1>2

(* Power is lost, but not in the middle of a record.                       *)
LEMMA LossParts ==
  ASSUME WlInv, SafeInv, PowerLoss
  PROVE  SafeInv' /\ (RecordTorn \/ SameParts(Durable, Durable', busy))
<1>1. pc' = "off"
  BY DEF PowerLoss
<1>2. CASE Durable' = Durable
  BY <1>1, <1>2, SameDisk DEF SafeInv
<1>3. CASE Durable' # Durable
  <2> DEFINE D == Durable
             E == Durable'
             c == Head(calls)
  <2>1. OfCall /\ pc = "run" /\ calls # <<>> /\ \E v \in Outcomes(D, c) : Changed(D, E, c.at, v)
    BY <1>3, LossEffect
  <2>2. PICK v \in Outcomes(D, c) : Changed(D, E, c.at, v)
    BY <2>1
  <2>3. /\ D \in Disk /\ calls \in Seq(Calls) /\ InCall(D, calls, busy) /\ Clean(D)
    BY <2>1, DurableType DEF WlInv, TypeOK, SafeInv
  <2>4. Clean(E)
    <3> HIDE DEF D, E
    <3> QED  BY <2>1, <2>2, <2>3, StaysClean
  <2>5. SafeInv'
    BY <1>1, <2>4 DEF SafeInv
  <2>6. CASE ~Misread(D, c, v)
    <3>1. SameParts(D, E, busy)
      <4> HIDE DEF D, E
      <4> QED  BY <2>1, <2>2, <2>3, <2>6, AnyCall
    <3> QED  BY <2>5, <3>1
  <2>7. CASE Misread(D, c, v)
    <3>1. E[TransSector] = v
      BY <2>2, <2>7 DEF Changed, Misread
    <3>2. RecordTorn
      BY <1>1, <2>1, <2>7, <3>1 DEF RecordTorn, Misread
    <3> QED  BY <2>5, <3>2
  <2> QED  BY <2>6, <2>7
<1> QED  BY <1>2, <1>3

LEMMA Between ==
  ASSUME NEW S, NEW a \in S, NEW z \in S, NEW q \in Seq(S), NEW all, all = (<<a>> \o q) \o <<z>>
  PROVE  all \in Seq(S) /\ all # <<>> /\ all[Len(all)] = z
<1> DEFINE r == <<a>> \o q
<1>1. r \in Seq(S) /\ Len(r) \in Nat
  OBVIOUS
<1> HIDE DEF r
<1>2. /\ r \o <<z>> \in Seq(S) /\ Len(r \o <<z>>) = Len(r) + 1
      /\ (r \o <<z>>)[Len(r) + 1] = z
  BY <1>1
<1>3. all = r \o <<z>>
  BY DEF r
<1>4. all \in Seq(S) /\ Len(all) = Len(r) + 1 /\ all[Len(r) + 1] = z
  BY <1>2, <1>3
<1> QED  BY <1>1, <1>4

(* The calls of a recovery that are not about the data.                    *)
LEMMA RecoverAside ==
  ASSUME NEW s \in {TransSector, DumpSector}, NEW first \in 0 .. Fats, NEW count \in 0 .. Fats,
         Read(DumpSector) \in Content, ~Signed(Read(DumpSector)[0]),
         NEW cs, cs = recover(<<"trans", s, first, count>>)
  PROVE  cs \in Seq(Harmless) /\ cs # <<>> /\ cs[Len(cs)] = EraseCall(TransSector)
<1> DEFINE buf == Read(DumpSector)
           n == Fats - count
           w(k) == WriteCall(s, Back(buf, first, count, k))
           R == [k \in 1 .. n |-> w(k)]
           a == EraseCall(s)
           z == EraseCall(TransSector)
<1>1. s \in Sectors /\ n \in Nat
  BY SafeSectors, WlAssumption
<1>2. a \in Harmless /\ z \in Harmless
  <2>1. a \in Calls /\ z \in Calls
    BY <1>1, EraseCallType, SafeSectors
  <2>2. a.at = s /\ z.at = TransSector /\ a.to = Blank /\ z.to = Blank
    BY DEF EraseCall
  <2> HIDE DEF a, z
  <2> QED  BY <2>1, <2>2, ClosedCells DEF Harmless
<1>3. R \in Seq(Harmless)
  <2>1. ASSUME NEW k \in 1 .. n PROVE w(k) \in Harmless
    <3>1. Back(buf, first, count, k) \in Content
      BY BackType
    <3>2. ~Signed(Back(buf, first, count, k)[0])
      BY ClosedCells DEF Back
    <3> QED  BY <1>1, <3>1, <3>2 DEF Harmless, Calls, WriteCall
  <2> HIDE DEF Harmless, w, n
  <2> QED  BY <1>1, <2>1
<1>4. Restore(s, buf, first, count) = R
  BY DEF Restore, Back, Outside, LastPart
<1>5. cs = (<<a>> \o R) \o <<z>>
  BY <1>4 DEF recover, Signed
<1> HIDE DEF a, z, R, Harmless
<1>6. cs \in Seq(Harmless) /\ cs # <<>> /\ cs[Len(cs)] = z
  <2>1. \A x, y : x \in Harmless /\ y \in Harmless =>
          \A q \in Seq(Harmless) : \A all : all = (<<x>> \o q) \o <<y>> =>
            all \in Seq(Harmless) /\ all # <<>> /\ all[Len(all)] = y
    BY Between
  <2> QED  BY <1>2, <1>3, <1>5, <2>1, Zenon
<1> QED  BY <1>6 DEF z

LEMMA InitSafeParts ==
  ASSUME WlInv, SafeInv, init_safe
  PROVE  SafeInv' /\ SameParts(Durable, Durable', busy)
<1>1. /\ pc = "init" /\ job = <<>> /\ calls' = recover(Read(TransSector)[0])
      /\ flash' = flash /\ st' = st
  BY DEF init_safe
<1>2. Durable' = Durable
  BY <1>1, DurableIs
<1>3. Durable \in Disk /\ Read(TransSector) = Durable[TransSector] /\ Read(DumpSector) = Durable[DumpSector]
  BY <1>1, DurableType, ReadyRead, SafeSectors
<1>4. Read(DumpSector) \in Content /\ Read(TransSector)[0] \in Cells
  BY <1>3, SafeSectors DEF Disk, Content
<1> DEFINE t == Read(TransSector)[0]
<1>0. Clean(Durable) /\ Clean(Durable')
  BY <1>2 DEF SafeInv
<1>5. CASE ~Signed(t)
  <2>1. recover(t) = <<>>
    BY <1>5 DEF recover
  <2>2. Single(Durable, <<>>, busy')
    BY <1>3, <1>5 DEF Single, IsOpen
  <2> QED  BY <1>0, <1>1, <1>2, <2>1, <2>2, SameDisk DEF SafeInv, InCall
<1>6. CASE Signed(t)
  <2>1. PICK s \in Sectors, first \in 0 .. Fats, count \in 0 .. Fats :
           /\ t = <<"trans", s, first, count>> /\ first + count <= Fats
           /\ count = 0 => first = 0
    <3> HIDE DEF t
    <3> QED  BY <1>4, <1>6, TransactionIs DEF t
  <2>2. CASE s \in DataSectors
    <3>1. recover(t) = Fit1(s, Durable[DumpSector], first, count)
      BY <1>3, <1>4, <2>1, <2>2, RecoverIs
    <3>2. Restoring(Durable, recover(t))
      BY <1>3, <2>1, <2>2, <3>1 DEF Restoring
    <3> QED  BY <1>0, <1>1, <1>2, <3>2, SameDisk DEF SafeInv, InCall
  <2>3. CASE s \notin DataSectors
    <3>1. s \in {TransSector, DumpSector}
      BY <2>3, WlAssumption, SafeAssumption DEF Sectors, DataSectors, TransSector, DumpSector
    <3>2. ~Signed(Read(DumpSector)[0])
      BY <1>0, <1>3, SafeSectors, SectorsDiffer DEF Clean
    <3>3. /\ recover(t) \in Seq(Harmless) /\ recover(t) # <<>>
          /\ recover(t)[Len(recover(t))] = EraseCall(TransSector)
      <4> DEFINE cs == recover(t)
      <4>1. cs = recover(<<"trans", s, first, count>>)
        BY <2>1
      <4> HIDE DEF cs, Harmless
      <4>2. cs \in Seq(Harmless) /\ cs # <<>> /\ cs[Len(cs)] = EraseCall(TransSector)
        BY <1>4, <3>1, <3>2, <4>1, RecoverAside
      <4> QED  BY <4>2 DEF cs
    <3>4. Durable[TransSector][0] = t /\ t[2] = s
      BY <1>3, <2>1
    <3>5. Aside(Durable, recover(t))
      <4> HIDE DEF t
      <4> QED  BY <2>3, <3>3, <3>4 DEF Aside
    <3> QED  BY <1>0, <1>1, <1>2, <3>5, SameDisk DEF SafeInv, InCall
  <2> QED  BY <2>2, <2>3
<1> QED  BY <1>5, <1>6

LEMMA EraseRangeParts ==
  ASSUME WlInv, SafeInv, NEW s \in DataSectors, NEW first \in Parts, NEW count \in 1 .. Fats - first,
         erase_range(s, first, count)
  PROVE  SafeInv' /\ SameParts(Durable, Durable', busy)
<1>1. /\ pc = "run" /\ job = <<>> /\ calls = <<>> /\ flash' = flash /\ st' = st
      /\ calls' = IF count = Fats THEN <<EraseCall(s)>> ELSE erase_sector_fit(s, first, count)
      /\ busy' = {s} \X (first .. first + count - 1)
  BY DEF erase_range, Ready
<1>2. Durable' = Durable
  BY <1>1, DurableIs
<1>3. s \in Sectors /\ count \in 1 .. Fats /\ first + count <= Fats
  BY SafeSectors, WlAssumption DEF Parts
<1>0. Clean(Durable) /\ Clean(Durable')
  BY <1>2 DEF SafeInv
<1>4. Durable \in Disk /\ Read(s) = Durable[s] /\ ~IsOpen(Durable) /\ Read(s) \in Content
  <2>1. Durable \in Disk /\ Read(s) = Durable[s]
    BY <1>1, <1>3, DurableType, ReadyRead
  <2>2. ~IsOpen(Durable)
    BY <1>1, <2>1, NoCallClosed DEF SafeInv
  <2> QED  BY <1>3, <2>1, <2>2 DEF Disk
<1>5. \A i \in Parts : ~Outside(i, first, count) => <<s, i>> \in busy'
  BY <1>1, WlAssumption DEF Outside, Parts
<1>6. CASE count = Fats
  <2>1. \A i \in Parts : ~Outside(i, first, count)
    BY <1>3, <1>6, WlAssumption DEF Outside, Parts
  <2>2. Single(Durable, calls', busy')
    BY <1>1, <1>4, <1>5, <1>6, <2>1 DEF Single
  <2> QED  BY <1>0, <1>2, <2>2, SameDisk DEF SafeInv, InCall
<1>7. CASE count # Fats
  <2> DEFINE buf == [i \in Parts |-> IF i < first \/ i >= first + count THEN Read(s)[i] ELSE <<"stale">>]
  <2>1. buf \in Content
    <3>1. <<"stale">> \in Cells /\ \A i \in Parts : Read(s)[i] \in Cells
      BY <1>4 DEF Cells, Content
    <3>2. \A i \in Parts : buf[i] \in Cells
      BY <3>1
    <3> QED  BY <3>2 DEF Content
  <2>2. \A i \in Parts : IF Outside(i, first, count) THEN buf[i] = Durable[s][i] ELSE <<s, i>> \in busy'
    BY <1>4, <1>5 DEF Outside
  <2>3. calls' = Fit5(s, buf, first, count)
    <3>1. first \in 0 .. Fats /\ count \in 0 .. Fats /\ count # 0
      BY <1>3, WlAssumption DEF Parts
    <3> QED  BY <1>1, <1>3, <1>7, <2>1, <3>1, FitIs
  <2>4. ~Signed(buf[0])
    <3>1. ~Signed(Read(s)[0])
      BY <1>0, <1>3, <1>4, SectorsDiffer DEF Clean
    <3>2. buf[0] \in {Read(s)[0], <<"stale">>}
      BY ClosedCells
    <3> QED  BY <3>1, <3>2, ClosedCells
  <2> HIDE DEF buf
  <2>5. Dumping(Durable, calls', busy')
    BY <1>3, <1>4, <2>1, <2>2, <2>3, <2>4 DEF Dumping
  <2> QED  BY <1>0, <1>2, <2>5, SameDisk DEF SafeInv, InCall
<1> QED  BY <1>6, <1>7

LEMMA WritePartParts ==
  ASSUME WlInv, SafeInv, NEW s \in DataSectors, NEW i \in Parts, NEW v \in Values,
         write_part(s, i, <<v>>)
  PROVE  SafeInv' /\ SameParts(Durable, Durable', busy)
<1> DEFINE w == [Read(s) EXCEPT ![i] = <<v>>]
<1>1. /\ pc = "run" /\ job = <<>> /\ calls = <<>> /\ flash' = flash /\ st' = st
      /\ calls' = <<WriteCall(s, w)>> /\ busy' = {<<s, i>>}
  BY DEF write_part, Ready
<1>2. Durable' = Durable
  BY <1>1, DurableIs
<1>3. Durable \in Disk /\ Read(s) = Durable[s] /\ ~IsOpen(Durable) /\ Read(s) \in Content
  <2>1. Durable \in Disk /\ s \in Sectors /\ Read(s) = Durable[s]
    BY <1>1, DurableType, ReadyRead, SafeSectors
  <2>2. ~IsOpen(Durable)
    BY <1>1, <2>1, NoCallClosed DEF SafeInv
  <2> QED  BY <2>1, <2>2 DEF Disk
<1>4. w \in Content
  <2>1. <<v>> \in Cells
    BY DEF Cells
  <2> QED  BY <1>3, <2>1 DEF Content
<1>5. \A j \in Parts : <<s, j>> \in busy' \/ w[j] = Durable[s][j]
  BY <1>1, <1>3 DEF Content
<1>6. Clean(Durable) /\ Clean(Durable')
  BY <1>2 DEF SafeInv
<1>7. ~Signed(w[0])
  <2>1. ~Signed(Read(s)[0])
    BY <1>3, <1>6, SafeSectors, SectorsDiffer DEF Clean
  <2>2. ~Signed(<<v>>)
    BY SafeAssumption DEF Signed
  <2>3. w[0] \in {Read(s)[0], <<v>>}
    BY <1>3, ClosedCells DEF Content
  <2> QED  BY <2>1, <2>2, <2>3
<1> HIDE DEF w
<1>8. Single(Durable, calls', busy')
  BY <1>1, <1>3, <1>4, <1>5, <1>7 DEF Single
<1> QED  BY <1>2, <1>6, <1>8, SameDisk DEF SafeInv, InCall

LEMMA SafeStep ==
  ASSUME WlInv, SafeInv, [Next]_vars, ~rebuilt'
  PROVE  SafeInv' /\ (RecordTorn \/ SameParts(Durable, Durable', busy))
<1>1. ASSUME flash' = flash, st' = st, calls' = calls, busy' = busy, pc' = pc \/ pc' = "init"
      PROVE  SafeInv' /\ SameParts(Durable, Durable', busy)
  <2>1. Durable' = Durable
    BY <1>1, DurableIs
  <2> QED  BY <1>1, <2>1, SameDisk DEF SafeInv
<1>2. CASE init /\ UNCHANGED busy
  BY <1>1, <1>2 DEF init
<1>3. CASE FlashStep /\ UNCHANGED busy
  BY <1>3, FlashStepParts
<1>4. CASE (erase_sector \/ write \/ flush) /\ UNCHANGED busy
  BY <1>1, <1>4 DEF erase_sector, write, flush
<1>5. CASE init_safe
  BY <1>5, InitSafeParts
<1>6. CASE Client
  BY <1>4, <1>6, EraseRangeParts, WritePartParts DEF Client
<1>7. CASE Loss
  BY <1>7, LossParts DEF Loss
<1>8. CASE UNCHANGED vars
  BY <1>1, <1>8 DEF vars
<1> QED  BY <1>2, <1>3, <1>4, <1>5, <1>6, <1>7, <1>8 DEF Next, LowerLayer

LEMMA SafeInit == Init => SafeInv
<1> SUFFICES ASSUME Init PROVE SafeInv
  OBVIOUS
<1>1. WlInv /\ pc = "off" /\ flash = [p \in Positions |-> Blank]
  BY WlInitInv DEF Init, WlInit
<1>2. Durable \in Disk
  BY <1>1, DurableType
<1>3. ASSUME NEW s \in Sectors PROVE Durable[s] = Blank
  <2>1. Found(st).pos \in Positions /\ Found(st).move \in Laps
    <3>1. TypeOK /\ Found(st).move \in Laps
      BY <1>1, FoundType DEF WlInv, TypeOK
    <3>2. CASE st[1].ok
      <4>1. st[1].rec = {}
        BY DEF Init, WlInit, NoHeader
      <4> QED  BY <3>1, <3>2, <4>1, FoundFirst, WlAssumption DEF TypeOK, Positions
    <3>3. CASE ~st[1].ok
      BY <3>1, <3>3, FoundBroken, WlAssumption DEF TypeOK, Positions
    <3> QED  BY <3>1, <3>2, <3>3
  <2>2. calcAddr(s, Found(st).pos, Found(st).move) \in Positions
    BY <2>1, CalcAddrType
  <2> QED  BY <1>1, <2>2, DurableIs DEF Seen
<1>4. Clean(Durable)
  BY <1>3, ClosedCells DEF Clean
<1> QED  BY <1>1, <1>4 DEF SafeInv

(* For any number of sectors and of parts in them, and power lost at any   *)
(* moment: erasing or writing parts of a flash sector never changes what a *)
(* restart finds, after recover, in the parts the call of WL_Ext_Safe is   *)
(* not about, wherever it and its recovery are interrupted, but for a loss *)
(* in the middle of the transaction record that leaves its sign with other *)
(* words, and until a start rebuilds state sector 1.                       *)
THEOREM PartsAlwaysKept == Spec => PartsKept
<1>1. ASSUME rebuilt \/ (WlInv /\ SafeInv), [Next]_vars
      PROVE  [rebuilt' \/ RecordTorn \/ PartsSame]_vars
  <2>1. CASE rebuilt'
    BY <2>1
  <2>2. CASE ~rebuilt'
    <3>1. WlInv /\ SafeInv
      BY <1>1, <2>2, StaysRebuilt
    <3>2. RecordTorn \/ SameParts(Durable, Durable', busy)
      BY <1>1, <2>2, <3>1, SafeStep
    <3> QED  BY <3>2, PartsAre DEF SameParts, PartsSame
  <2> QED  BY <2>1, <2>2
<1>2. (rebuilt \/ (WlInv /\ SafeInv)) /\ [Next]_vars => (rebuilt \/ (WlInv /\ SafeInv))'
  BY WlStep, SafeStep, StaysRebuilt
<1> QED  BY <1>1, <1>2, SafeInit, WlInitInv, PTL DEF Spec, PartsKept
=============================================================================
