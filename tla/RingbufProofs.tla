--------------------------- MODULE RingbufProofs ----------------------------
(***************************************************************************)
(* Proofs about ring buffers of any size.                                  *)
(*                                                                         *)
(* Byte buffers come first: the stream of bytes survives any interleaving  *)
(* of sends, retrievals, returns, waits and time-outs.  The argument rests *)
(* on ByteState, which relates the pointers, the flag and the storage to   *)
(* two numbers: base, the bytes returned so far, and lent, the bytes in    *)
(* the one item that is lent out (0 if none is).  Each prv function        *)
(* preserves it; the specification preserves ByteInv, which says the same  *)
(* of the variables.  The arithmetic is done in lemmas on plain numbers,   *)
(* the fields of the control block.  The same two numbers give the         *)
(* refinement: the queue of RingbufFifo is the run of bytes from           *)
(* base + lent on, and base .. base + lent - 1 are the bytes held.         *)
(*                                                                         *)
(* Then buffers of items, split or not.  What lies between the free and    *)
(* the acquire pointer is a chain of m blocks, the block k at V[k]; the    *)
(* blocks from r on are to be retrieved, the ones from w on to be          *)
(* completed.  Shape says how pointers, flags and headers stand to such a  *)
(* chain, and Counted that there is one that has the callers' handles as   *)
(* its blocks and c items to retrieve.  Each prv function preserves it and *)
(* changes c as it should.  ItemInv adds the tasks: one woken receiver, or *)
(* one notice of the queue set, for each of the c items.                   *)
(***************************************************************************)
EXTENDS Ringbuf, TLAPS, WellFoundedInduction, FiniteSetTheorems

Cells == 0 .. xSize - 1

ByteBlock ==
    [acquire : Cells, write : Cells, read : Cells, free : Cells,
     full : BOOLEAN, waiting : 0 .. xSize, mem : [Cells -> Nat]]

\* Where the pointers are: lent bytes from free on, then w unread ones.
Placed(acq, rd, fr, w, lent) ==
    /\ fr + lent <= xSize
    /\ lent + w <= xSize
    /\ rd = ByteWrap(fr + lent)
    /\ acq = ByteWrap(rd + w)

\* What the storage holds: bytes base, base + 1, ... of the stream.
Stored(mem, rd, fr, w, lent, base) ==
    /\ \A i \in 0 .. lent - 1 : mem[fr + i] = base + i
    /\ \A i \in 0 .. w - 1 : mem[ByteWrap(rd + i)] = base + lent + i

ByteState(b, lent, base) ==
    /\ b \in ByteBlock
    /\ lent \in 0 .. xSize /\ base \in Nat
    /\ b.write = b.acquire
    /\ Placed(b.acquire, b.read, b.free, b.waiting, lent)
    /\ b.full <=> (lent + b.waiting = xSize)
    /\ Stored(b.mem, b.read, b.free, b.waiting, lent, base)

(***************************************************************************)
(* Arithmetic.                                                             *)
(***************************************************************************)
Fits(acq, fr, full, n) ==
    IF acq = fr THEN ~full
    ELSE IF fr > acq THEN n <= fr - acq ELSE n <= xSize - (acq - fr)

\* The storage after n bytes, the first one numbered first, went in at acq.
Copied(mem, acq, n, first, mem1) ==
    \A p \in Cells :
        mem1[p] = IF acq <= p /\ p < acq + n THEN first + p - acq
                  ELSE IF xSize - acq < n /\ p < n - (xSize - acq)
                  THEN first + (xSize - acq) + p
                  ELSE mem[p]

\* prvCheckItemFitsByteBuffer is exact: what it lets in does fit.
LEMMA FitsIsSound ==
    ASSUME NEW acq \in Cells, NEW rd \in Cells, NEW fr \in Cells,
           NEW w \in 0 .. xSize, NEW full \in BOOLEAN, NEW lent \in 0 .. xSize,
           NEW n \in 1 .. xSize,
           Placed(acq, rd, fr, w, lent), full <=> (lent + w = xSize),
           Fits(acq, fr, full, n)
    PROVE  lent + w + n <= xSize
<1>1. xSize \in Nat
  BY SizeAssumption
<1>. QED
  BY <1>1 DEF ByteWrap, Placed, Fits, Cells

\* The acquire pointer after a copy keeps the pointers placed, and the flag
\* is set when it meets the free pointer.
LEMMA CopyPlaced ==
    ASSUME NEW acq \in Cells, NEW rd \in Cells, NEW fr \in Cells,
           NEW w \in 0 .. xSize, NEW lent \in 0 .. xSize, NEW n \in 1 .. xSize,
           Placed(acq, rd, fr, w, lent), lent + w + n <= xSize
    PROVE  /\ Placed(ByteWrap(acq + n), rd, fr, w + n, lent)
           /\ lent + w # xSize
           /\ ByteWrap(acq + n) = fr <=> lent + (w + n) = xSize
<1>1. xSize \in Nat
  BY SizeAssumption
<1>. QED
  BY <1>1 DEF ByteWrap, Placed, Cells

\* The copy does not reach a cell of an unread byte.
LEMMA UnreadSpared ==
    ASSUME NEW acq \in Cells, NEW rd \in Cells, NEW fr \in Cells,
           NEW w \in 0 .. xSize, NEW lent \in 0 .. xSize, NEW n \in 1 .. xSize,
           NEW i \in 0 .. w - 1,
           Placed(acq, rd, fr, w, lent), lent + w + n <= xSize
    PROVE  /\ ~(acq <= ByteWrap(rd + i) /\ ByteWrap(rd + i) < acq + n)
           /\ ~(xSize - acq < n /\ ByteWrap(rd + i) < n - (xSize - acq))
<1>1. xSize \in Nat
  BY SizeAssumption
<1>. QED
  BY <1>1 DEF ByteWrap, Placed, Cells

\* The copy writes byte number base + lent + i to cell q.
Numbered(acq, q, w, lent, n, i, base) ==
    IF acq <= q /\ q < acq + n THEN base + lent + w + q - acq = base + lent + i
    ELSE /\ xSize - acq < n /\ q < n - (xSize - acq)
         /\ base + lent + w + (xSize - acq) + q = base + lent + i

\* Byte i behind the read pointer is one the copy wrote, with its number.
LEMMA CopyNumbers ==
    ASSUME NEW acq \in Cells, NEW rd \in Cells, NEW fr \in Cells,
           NEW w \in 0 .. xSize, NEW lent \in 0 .. xSize, NEW n \in 1 .. xSize,
           NEW i \in w .. w + n - 1, NEW base \in Nat,
           Placed(acq, rd, fr, w, lent), lent + w + n <= xSize
    PROVE  Numbered(acq, ByteWrap(rd + i), w, lent, n, i, base)
<1>1. xSize \in Nat
  BY SizeAssumption
<1>. QED
  BY <1>1 DEF ByteWrap, Placed, Cells, Numbered

\* A copy that fits leaves the lent and the unread bytes where they are and
\* puts its own behind them.
LEMMA CopyStored ==
    ASSUME NEW acq \in Cells, NEW rd \in Cells, NEW fr \in Cells,
           NEW w \in 0 .. xSize, NEW lent \in 0 .. xSize,
           NEW n \in 1 .. xSize, NEW base \in Nat,
           NEW mem \in [Cells -> Nat], NEW mem1 \in [Cells -> Nat],
           Placed(acq, rd, fr, w, lent), lent + w + n <= xSize,
           Stored(mem, rd, fr, w, lent, base),
           Copied(mem, acq, n, base + lent + w, mem1)
    PROVE  Stored(mem1, rd, fr, w + n, lent, base)
<1>0. xSize \in Nat
  BY SizeAssumption
<1>1. ASSUME NEW i \in 0 .. lent - 1
      PROVE  mem1[fr + i] = base + i
  <2>1. fr + i \in Cells /\ mem[fr + i] = base + i
    BY <1>0 DEF Placed, Stored, Cells
  <2>2. /\ ~(acq <= fr + i /\ fr + i < acq + n)
        /\ ~(xSize - acq < n /\ fr + i < n - (xSize - acq))
    BY <1>0 DEF Placed, ByteWrap, Cells
  <2>. QED
    BY <2>1, <2>2 DEF Copied
<1>2. ASSUME NEW i \in 0 .. w + n - 1
      PROVE  mem1[ByteWrap(rd + i)] = base + lent + i
  <2>0. ByteWrap(rd + i) \in Cells
    BY <1>0 DEF ByteWrap, Cells
  <2>1. CASE i < w
    <3>1. i \in 0 .. w - 1
      BY <2>1, <1>0
    <3>2. mem[ByteWrap(rd + i)] = base + lent + i
      BY <3>1 DEF Stored
    <3>. QED
      BY <2>0, <3>1, <3>2, UnreadSpared DEF Copied
  <2>2. CASE i >= w
    <3>1. i \in w .. w + n - 1
      BY <2>2, <1>0
    <3>2. Numbered(acq, ByteWrap(rd + i), w, lent, n, i, base)
      BY <3>1, CopyNumbers
    <3> DEFINE q == ByteWrap(rd + i)
    <3>3. mem1[q] = IF acq <= q /\ q < acq + n THEN base + lent + w + q - acq
                    ELSE IF xSize - acq < n /\ q < n - (xSize - acq)
                    THEN base + lent + w + (xSize - acq) + q
                    ELSE mem[q]
      BY <2>0 DEF Copied
    <3>. QED
      BY <3>2, <3>3, Zenon DEF Numbered
  <2>. QED
    BY <1>0, <2>1, <2>2
<1>. QED
  BY <1>1, <1>2 DEF Stored

\* What prvGetItemByteBuf hands out is unread, not empty, and does not cross
\* the tail, whether or not there is a limit m on its size.
LEMMA ContiguousUnread ==
    ASSUME NEW acq \in Cells, NEW rd \in Cells, NEW fr \in Cells,
           NEW w \in 1 .. xSize, NEW full \in BOOLEAN, NEW m \in Nat,
           Placed(acq, rd, fr, w, 0), full <=> (w = xSize)
    PROVE  LET cont == IF rd > acq \/ full THEN xSize - rd ELSE acq - rd
               k == IF m = 0 \/ cont <= m THEN cont ELSE m
           IN  k \in 1 .. w /\ rd + k <= xSize
<1>1. xSize \in Nat
  BY SizeAssumption
<1>. QED
  BY <1>1 DEF Placed, ByteWrap, Cells

\* The read pointer stays inside the storage.
LEMMA ReadAdvances ==
    ASSUME NEW rd \in Cells, NEW w \in 0 .. xSize, NEW k \in 1 .. w,
           rd + k <= xSize
    PROVE  /\ ByteWrap(rd + k) = IF rd + k = xSize THEN 0 ELSE rd + k
           /\ ByteWrap(rd + k) \in Cells /\ k \in 1 .. xSize
           /\ w - k \in 0 .. xSize
<1>1. xSize \in Nat \ {0}
  BY SizeAssumption
<1>. QED
  BY <1>1 DEF ByteWrap, Cells

\* Retrieving size bytes, no further than the tail or the write pointer, only
\* moves the line between unread and lent bytes.
LEMMA GetPlacedStored ==
    ASSUME NEW acq \in Cells, NEW rd \in Cells, NEW fr \in Cells,
           NEW w \in 0 .. xSize, NEW base \in Nat,
           NEW mem \in [Cells -> Nat], NEW size \in 1 .. w,
           Placed(acq, rd, fr, w, 0), Stored(mem, rd, fr, w, 0, base),
           rd + size <= xSize
    PROVE  /\ Placed(acq, ByteWrap(rd + size), fr, w - size, size)
           /\ Stored(mem, ByteWrap(rd + size), fr, w - size, size, base)
           /\ fr = rd
<1>0. xSize \in Nat
  BY SizeAssumption
<1>1. fr = rd /\ Placed(acq, ByteWrap(rd + size), fr, w - size, size)
  BY <1>0 DEF Placed, ByteWrap, Cells
<1>2. ASSUME NEW i \in 0 .. size - 1
      PROVE  mem[fr + i] = base + i
  <2>1. i \in 0 .. w - 1 /\ ByteWrap(rd + i) = fr + i
    BY <1>0, <1>1 DEF ByteWrap, Cells
  <2>2. mem[ByteWrap(rd + i)] = base + 0 + i
    BY <2>1 DEF Stored
  <2>. QED
    BY <2>1, <2>2
<1>3. ASSUME NEW i \in 0 .. w - size - 1
      PROVE  mem[ByteWrap(ByteWrap(rd + size) + i)] = base + size + i
  <2>1. size + i \in 0 .. w - 1
        /\ ByteWrap(ByteWrap(rd + size) + i) = ByteWrap(rd + (size + i))
    BY <1>0, <1>1 DEF ByteWrap, Cells
  <2>2. mem[ByteWrap(rd + (size + i))] = base + 0 + (size + i)
    BY <2>1 DEF Stored
  <2>. QED
    BY <2>1, <2>2
<1>. QED
  BY <1>1, <1>2, <1>3 DEF Stored

\* Returning moves the free pointer to the read pointer.
LEMMA ReturnPlacedStored ==
    ASSUME NEW acq \in Cells, NEW rd \in Cells, NEW fr \in Cells,
           NEW w \in 0 .. xSize, NEW base \in Nat,
           NEW mem \in [Cells -> Nat], NEW lent \in 1 .. xSize,
           Placed(acq, rd, fr, w, lent),
           Stored(mem, rd, fr, w, lent, base)
    PROVE  /\ Placed(acq, rd, rd, w, 0) /\ 0 + w # xSize
           /\ Stored(mem, rd, rd, w, 0, base + lent)
<1>0. xSize \in Nat
  BY SizeAssumption
<1>1. Placed(acq, rd, rd, w, 0) /\ 0 + w # xSize
  BY <1>0 DEF Placed, ByteWrap, Cells
<1>2. \A i \in 0 .. w - 1 : mem[ByteWrap(rd + i)] = (base + lent) + 0 + i
  BY <1>0 DEF Stored
<1>3. \A i \in 0 .. 0 - 1 : mem[rd + i] = (base + lent) + i
  OBVIOUS
<1>. QED
  BY <1>1, <1>2, <1>3 DEF Stored

(***************************************************************************)
(* The functions of the byte buffer preserve ByteState.                    *)
(***************************************************************************)
\* The fields of a control block have their types.
LEMMA BlockFields ==
    ASSUME NEW b \in ByteBlock
    PROVE  /\ b.acquire \in Cells /\ b.write \in Cells
           /\ b.read \in Cells /\ b.free \in Cells
           /\ b.full \in BOOLEAN /\ b.waiting \in 0 .. xSize
           /\ b.mem \in [Cells -> Nat]
BY DEF ByteBlock

\* prvCopyItemByteBuf, after prvCheckItemFitsByteBuffer said yes.
LEMMA CopyKeepsState ==
    ASSUME NEW b, NEW lent, NEW base, NEW n \in 1 .. xSize,
           ByteState(b, lent, base), prvCheckItemFitsByteBuffer(b, n)
    PROVE  LET c == prvCopyItemByteBuf(b, n, base + lent + b.waiting)
           IN  /\ ByteState(c, lent, base)
               /\ c.waiting = b.waiting + n
               /\ c.free = b.free
<1> DEFINE first == base + lent + b.waiting
           c == prvCopyItemByteBuf(b, n, first)
<1>0. xSize \in Nat \ {0}
  BY SizeAssumption
<1>1. /\ b.acquire \in Cells /\ b.read \in Cells /\ b.free \in Cells
      /\ b.full \in BOOLEAN /\ b.waiting \in 0 .. xSize
      /\ b.mem \in [Cells -> Nat] /\ b.write \in Cells
      /\ lent \in 0 .. xSize /\ base \in Nat
      /\ Placed(b.acquire, b.read, b.free, b.waiting, lent)
      /\ b.full <=> (lent + b.waiting = xSize)
      /\ Stored(b.mem, b.read, b.free, b.waiting, lent, base)
  BY BlockFields DEF ByteState
<1>2. lent + b.waiting + n <= xSize
  <2>1. Fits(b.acquire, b.free, b.full, n)
    BY DEF Fits, prvCheckItemFitsByteBuffer
  <2>. QED
    BY <1>1, <2>1, FitsIsSound
<1>3. c.acquire = ByteWrap(b.acquire + n) /\ c.acquire \in Cells
  <2>1. \A a \in Cells : LET rem  == xSize - a
                            last == IF rem < n THEN n - rem ELSE a + n
                        IN  /\ (IF last = xSize THEN 0 ELSE last)
                                   = ByteWrap(a + n)
                            /\ ByteWrap(a + n) \in Cells
    BY <1>0 DEF ByteWrap, Cells
  <2>. QED
    BY <1>1, <2>1 DEF prvCopyItemByteBuf
<1>4. /\ c.write = c.acquire /\ c.read = b.read /\ c.free = b.free
      /\ c.waiting = b.waiting + n
      /\ c.full = (b.full \/ c.acquire = b.free)
  BY DEF prvCopyItemByteBuf
<1>5. c.mem \in [Cells -> Nat] /\ Copied(b.mem, b.acquire, n, first, c.mem)
  <2>1. c.mem = [p \in Cells |->
                   IF b.acquire <= p /\ p < b.acquire + n
                   THEN first + p - b.acquire
                   ELSE IF xSize - b.acquire < n /\ p < n - (xSize - b.acquire)
                   THEN first + (xSize - b.acquire) + p
                   ELSE b.mem[p]]
    BY DEF prvCopyItemByteBuf, Cells
  <2>2. Copied(b.mem, b.acquire, n, first, c.mem)
    BY <2>1 DEF Copied
  <2>3. first \in Nat
    BY <1>0, <1>1
  <2>4. ASSUME NEW a \in Cells, NEW f \in Nat, NEW m \in [Cells -> Nat],
               NEW p \in Cells
        PROVE  (IF a <= p /\ p < a + n THEN f + p - a
                ELSE IF xSize - a < n /\ p < n - (xSize - a)
                THEN f + (xSize - a) + p
                ELSE m[p]) \in Nat
    BY <1>0 DEF Cells
  <2> HIDE DEF c, first
  <2>5. \A p \in Cells : (IF b.acquire <= p /\ p < b.acquire + n
                          THEN first + p - b.acquire
                          ELSE IF /\ xSize - b.acquire < n
                                  /\ p < n - (xSize - b.acquire)
                          THEN first + (xSize - b.acquire) + p
                          ELSE b.mem[p]) \in Nat
    BY <2>3, <2>4, <1>1, Zenon
  <2>6. c.mem \in [Cells -> Nat]
    BY <2>1, <2>5, Zenon
  <2>. QED
    BY <2>2, <2>6
<1>6. c.waiting \in 0 .. xSize /\ c.full \in BOOLEAN
  <2>1. b.waiting + n \in 0 .. xSize
    BY <1>0, <1>1, <1>2
  <2>. QED
    BY <2>1, <1>4
<1>7. c \in ByteBlock
  <2>1. c = [acquire |-> c.acquire, write |-> c.write, read |-> c.read,
             free |-> c.free, full |-> c.full, waiting |-> c.waiting,
             mem |-> c.mem]
    BY DEF prvCopyItemByteBuf
  <2> HIDE DEF c
  <2>. QED
    BY <2>1, <1>1, <1>3, <1>4, <1>5, <1>6 DEF ByteBlock
<1> HIDE DEF c
<1>8. /\ Placed(c.acquire, c.read, c.free, c.waiting, lent)
      /\ c.full <=> (lent + c.waiting = xSize)
  <2>1. /\ Placed(ByteWrap(b.acquire + n), b.read, b.free, b.waiting + n, lent)
        /\ lent + b.waiting # xSize
        /\ ByteWrap(b.acquire + n) = b.free <=> lent + (b.waiting + n) = xSize
    BY <1>1, <1>2, CopyPlaced
  <2>. QED
    BY <2>1, <1>1, <1>3, <1>4
<1>9. Stored(c.mem, c.read, c.free, c.waiting, lent, base)
  <2>1. Copied(b.mem, b.acquire, n, base + lent + b.waiting, c.mem)
    BY <1>5
  <2>2. Stored(c.mem, b.read, b.free, b.waiting + n, lent, base)
    BY <1>1, <1>2, <1>5, <2>1, CopyStored
  <2>. QED
    BY <2>2, <1>4
<1>. QED
  BY <1>1, <1>4, <1>7, <1>8, <1>9 DEF ByteState, c

\* prvGetItemByteBuf lends the oldest unread bytes, at least one.
LEMMA GetKeepsState ==
    ASSUME NEW b, NEW base, NEW max \in Nat,
           ByteState(b, 0, base), b.waiting > 0
    PROVE  LET c == prvGetItemByteBuf(b, max)
               size == ByteItemSize(b, max)
           IN  /\ ByteState(c, size, base)
               /\ size \in 1 .. xSize
               /\ c.waiting = b.waiting - size
               /\ c.free = b.read
<1> DEFINE size == ByteItemSize(b, max)
           c == prvGetItemByteBuf(b, max)
<1>0. xSize \in Nat \ {0}
  BY SizeAssumption
<1>1. /\ b.acquire \in Cells /\ b.read \in Cells /\ b.free \in Cells
      /\ b.full \in BOOLEAN /\ b.waiting \in 0 .. xSize
      /\ b.mem \in [Cells -> Nat] /\ b.write = b.acquire /\ base \in Nat
      /\ Placed(b.acquire, b.read, b.free, b.waiting, 0)
      /\ b.full <=> (0 + b.waiting = xSize)
      /\ Stored(b.mem, b.read, b.free, b.waiting, 0, base)
  BY BlockFields DEF ByteState
<1>2. size \in 1 .. b.waiting /\ b.read + size <= xSize
  <2>2. b.waiting \in 1 .. xSize
    BY <1>0, <1>1
  <2>3. LET cont == IF b.read > b.acquire \/ b.full
                    THEN xSize - b.read ELSE b.acquire - b.read
            k == IF max = 0 \/ cont <= max THEN cont ELSE max
        IN  k \in 1 .. b.waiting /\ b.read + k <= xSize
    BY <1>1, <2>2, ContiguousUnread
  <2>. QED
    BY <1>1, <2>3 DEF ByteItemSize
<1>3. /\ c = [b EXCEPT !.read = ByteWrap(b.read + size), !.waiting = @ - size]
      /\ ByteWrap(b.read + size) \in Cells /\ size \in 1 .. xSize
      /\ b.waiting - size \in 0 .. xSize
  <2> HIDE DEF size
  <2>2. /\ ByteWrap(b.read + size) = IF b.read + size = xSize THEN 0
                                     ELSE b.read + size
        /\ ByteWrap(b.read + size) \in Cells /\ size \in 1 .. xSize
        /\ b.waiting - size \in 0 .. xSize
    BY <1>1, <1>2, ReadAdvances
  <2>3. c = [b EXCEPT !.read = IF b.read + size = xSize THEN 0
                               ELSE b.read + size,
                      !.waiting = @ - size]
    BY DEF prvGetItemByteBuf, size
  <2>. QED
    BY <2>2, <2>3
<1> HIDE DEF c, size
<1>4. /\ c.read = ByteWrap(b.read + size) /\ c.waiting = b.waiting - size
      /\ c.acquire = b.acquire /\ c.write = b.write /\ c.free = b.free
      /\ c.full = b.full /\ c.mem = b.mem /\ c \in ByteBlock
  BY <1>1, <1>3 DEF ByteState, ByteBlock
<1>5. /\ Placed(c.acquire, c.read, c.free, c.waiting, size)
      /\ Stored(c.mem, c.read, c.free, c.waiting, size, base)
      /\ b.free = b.read
  <2>1. /\ Placed(b.acquire, ByteWrap(b.read + size), b.free,
                  b.waiting - size, size)
        /\ Stored(b.mem, ByteWrap(b.read + size), b.free, b.waiting - size,
                  size, base)
        /\ b.free = b.read
    BY <1>1, <1>2, GetPlacedStored
  <2>. QED
    BY <2>1, <1>4
<1>6. ByteState(c, size, base)
  <2>1. size \in 0 .. xSize
    BY <1>0, <1>3
  <2>2. c.full <=> (size + c.waiting = xSize)
    <3>1. \A w, k \in Nat : k + (w - k) = 0 + w
      OBVIOUS
    <3>2. b.waiting \in Nat /\ size \in Nat
      BY <1>0, <1>1, <2>1
    <3>. QED
      BY <3>1, <3>2, <1>1, <1>4
  <2>. QED
    BY <1>1, <1>4, <1>5, <2>1, <2>2 DEF ByteState
<1>. QED
  BY <1>3, <1>4, <1>5, <1>6 DEF c, size

\* prvReturnItemByteBuf gives back the lent bytes and only those.
LEMMA ReturnKeepsState ==
    ASSUME NEW b, NEW lent, NEW base, ByteState(b, lent, base), lent > 0
    PROVE  /\ ByteState(prvReturnItemByteBuf(b), 0, base + lent)
           /\ prvReturnItemByteBuf(b).waiting = b.waiting
<1> DEFINE c == prvReturnItemByteBuf(b)
<1>0. xSize \in Nat \ {0}
  BY SizeAssumption
<1>1. /\ b.acquire \in Cells /\ b.read \in Cells /\ b.free \in Cells
      /\ b.full \in BOOLEAN /\ b.waiting \in 0 .. xSize
      /\ b.mem \in [Cells -> Nat] /\ b.write = b.acquire /\ base \in Nat
      /\ Placed(b.acquire, b.read, b.free, b.waiting, lent)
      /\ b.full <=> (lent + b.waiting = xSize)
      /\ Stored(b.mem, b.read, b.free, b.waiting, lent, base)
      /\ lent \in 0 .. xSize
  BY BlockFields DEF ByteState
<1>2. lent \in 1 .. xSize /\ base + lent \in Nat /\ 0 \in 0 .. xSize
  BY <1>0, <1>1
<1>3. /\ c.free = b.read /\ c.full = FALSE /\ c.read = b.read
      /\ c.acquire = b.acquire /\ c.write = b.write
      /\ c.waiting = b.waiting /\ c.mem = b.mem /\ c \in ByteBlock
  BY <1>1 DEF ByteState, ByteBlock, prvReturnItemByteBuf
<1> HIDE DEF c
<1>4. /\ Placed(c.acquire, c.read, c.free, c.waiting, 0)
      /\ c.full <=> (0 + c.waiting = xSize)
      /\ Stored(c.mem, c.read, c.free, c.waiting, 0, base + lent)
  <2>1. /\ Placed(b.acquire, b.read, b.read, b.waiting, 0)
        /\ 0 + b.waiting # xSize
        /\ Stored(b.mem, b.read, b.read, b.waiting, 0, base + lent)
    BY <1>1, <1>2, ReturnPlacedStored
  <2>. QED
    BY <2>1, <1>3
<1>5. ByteState(c, 0, base + lent)
  BY <1>1, <1>2, <1>3, <1>4 DEF ByteState
<1>. QED
  BY <1>3, <1>5 DEF c

(***************************************************************************)
(* The specification.                                                      *)
(***************************************************************************)
\* The one handle lent out, if any, covers the lent bytes.
LoansAre(lent) ==
    IF lent = 0 THEN loans = {}
    ELSE \E l \in loans : loans = {l} /\ l.item = rb.free /\ l.size = lent

\* base bytes have been returned, lent are lent out, the others are unread.
Kept(lent, base) ==
    /\ ByteState(rb, lent, base)
    /\ LoansAre(lent)
    /\ sent = base + lent + rb.waiting

BytesKept == \E lent \in 0 .. xSize, base \in Nat : Kept(lent, base)

\* A task waiting in a send, or about to try again, has a size that fits.
RequestsKept ==
    /\ sendPc \in [Senders -> {"idle", "blocked", "woken", "notify", "assert"}]
    /\ sendReq \in [Senders -> [size : Nat, acquire : BOOLEAN]]
    /\ \A s \in Senders : sendPc[s] \in {"blocked", "woken"} =>
           sendReq[s].size \in 1 .. xSize /\ sendReq[s].acquire = FALSE
    /\ recvMax \in [Receivers -> Nat]

ByteInv == acquired = {} /\ BytesKept /\ RequestsKept

\* The sizes that callers pass are positive and no larger than the storage.
LEMMA ByteSizes ==
    ASSUME IsByteBuffer
    PROVE  SendSizes \subseteq 1 .. xSize /\ AcquireSizes = {}
<1>1. xMaxItemSize = xSize
  BY DEF IsByteBuffer, xMaxItemSize
<1>2. 0 \notin SendSizes /\ SendSizes \subseteq 0 .. xSize /\ AcquireSizes = {}
  BY <1>1, SizesAssumption DEF IsByteBuffer
<1>3. \A n \in 0 .. xSize : n # 0 => n \in 1 .. xSize
  BY SizeAssumption
<1>. QED
  BY <1>2, <1>3

\* A byte buffer that has an item available has none lent out.
LEMMA AvailableMeansNoneLent ==
    ASSUME NEW acq \in Cells, NEW fr \in Cells, NEW w \in 0 .. xSize,
           NEW lent \in 0 .. xSize, Placed(acq, fr, fr, w, lent), w > 0
    PROVE  lent = 0
<1>1. xSize \in Nat
  BY SizeAssumption
<1>. QED
  BY <1>1 DEF Placed, ByteWrap, Cells

\* A step that leaves the data alone keeps the bytes.
LEMMA DataUnchanged ==
    ASSUME BytesKept, UNCHANGED dataVars
    PROVE  BytesKept'
<1>1. rb' = rb /\ sent' = sent /\ loans' = loans
  BY DEF dataVars
<1>. QED
  BY <1>1 DEF BytesKept, Kept, LoansAre

\* A new ring buffer is empty.
LEMMA ByteInvInit ==
    ASSUME IsByteBuffer, Init
    PROVE  ByteInv
<1>0. xSize \in Nat \ {0}
  BY SizeAssumption
<1>1. rb = [acquire |-> 0, write |-> 0, read |-> 0, free |-> 0, full |-> FALSE,
            waiting |-> 0, mem |-> [b \in Cells |-> 0]]
  BY DEF Init, prvInitializeNewRingbuffer, IsByteBuffer, Cells
<1>2. 0 \in Cells /\ 0 \in 0 .. xSize
  BY <1>0 DEF Cells
<1>3. Placed(0, 0, 0, 0, 0) /\ 0 + 0 # xSize
  BY <1>0 DEF Placed, ByteWrap
<1>4. Stored([b \in Cells |-> 0], 0, 0, 0, 0, 0)
  BY DEF Stored
<1>5. rb \in ByteBlock
  BY <1>1, <1>2 DEF ByteBlock
<1>6. ByteState(rb, 0, 0)
  BY <1>1, <1>2, <1>3, <1>4, <1>5 DEF ByteState
<1>7. BytesKept
  BY <1>1, <1>2, <1>6 DEF BytesKept, Kept, LoansAre, Init
<1>8. RequestsKept
  BY DEF RequestsKept, Init
<1>. QED
  BY <1>7, <1>8 DEF ByteInv, Init

\* A send that fits puts its bytes behind the unread ones.
LEMMA SendCopiesKeeps ==
    ASSUME IsByteBuffer, BytesKept, NEW s \in Senders, NEW n \in 1 .. xSize,
           SendCopies(s, n)
    PROVE  \E lent \in 0 .. xSize, base \in Nat :
             /\ Kept(lent, base) /\ Kept(lent, base)'
             /\ rb'.waiting = rb.waiting + n
<1>1. PICK lent \in 0 .. xSize, base \in Nat :
        ByteState(rb, lent, base) /\ LoansAre(lent)
        /\ sent = base + lent + rb.waiting
  BY DEF BytesKept, Kept
<1>2. /\ prvCheckItemFitsByteBuffer(rb, n)
      /\ rb' = prvCopyItemByteBuf(rb, n, base + lent + rb.waiting)
      /\ sent' = sent + n /\ loans' = loans
  BY <1>1 DEF SendCopies, xCheckItemFits, vCopyItem, IsByteBuffer, Unit
<1>3. /\ ByteState(rb', lent, base)
      /\ rb'.waiting = rb.waiting + n /\ rb'.free = rb.free
  BY <1>1, <1>2, CopyKeepsState
<1>4. LoansAre(lent)'
  BY <1>1, <1>2, <1>3 DEF LoansAre
<1>5. sent' = base + lent + rb'.waiting
  <2>1. rb.waiting \in Nat
    BY <1>1, BlockFields, SizeAssumption DEF ByteState
  <2>2. \A w \in Nat : base + lent + w + n = base + lent + (w + n)
    BY SizeAssumption
  <2>. QED
    BY <1>1, <1>2, <1>3, <2>1, <2>2
<1>. QED
  BY <1>1, <1>3, <1>4, <1>5 DEF Kept

\* A retrieval lends the oldest bytes, and nothing was lent before it.
LEMMA ReceiveGetsKeeps ==
    ASSUME IsByteBuffer, BytesKept, NEW r \in Receivers, NEW max \in Nat,
           ReceiveGets(r, max)
    PROVE  \E size \in 0 .. xSize, base \in Nat :
             /\ Kept(0, base) /\ Kept(size, base)'
             /\ size > 0 /\ rb'.waiting = rb.waiting - size
<1>1. PICK lent \in 0 .. xSize, base \in Nat :
        ByteState(rb, lent, base) /\ LoansAre(lent)
        /\ sent = base + lent + rb.waiting
  BY DEF BytesKept, Kept
<1>2. rb.read = rb.free /\ rb.waiting > 0
  BY DEF ReceiveGets, prvCheckItemAvail
<1>3. lent = 0
  <2>1. /\ rb.acquire \in Cells /\ rb.free \in Cells
        /\ rb.waiting \in 0 .. xSize
        /\ Placed(rb.acquire, rb.free, rb.free, rb.waiting, lent)
    BY <1>1, <1>2, BlockFields DEF ByteState
  <2>. QED
    BY <1>2, <2>1, AvailableMeansNoneLent
<1>4. /\ rb' = prvGetItemByteBuf(rb, max) /\ sent' = sent
      /\ loans' = {Loan(r, rb.read, ByteItemSize(rb, max))}
  <2>1. loans = {}
    BY <1>1, <1>3 DEF LoansAre
  <2>. QED
    BY <2>1 DEF ReceiveGets, GetParts
<1>5. PICK size \in 1 .. xSize :
        /\ size = ByteItemSize(rb, max) /\ ByteState(rb', size, base)
        /\ rb'.waiting = rb.waiting - size /\ rb'.free = rb.read
  BY <1>1, <1>2, <1>3, <1>4, GetKeepsState
<1>6. LoansAre(size)'
  <2>1. size # 0
    BY SizeAssumption
  <2>. QED
    BY <1>4, <1>5, <2>1 DEF LoansAre, Loan
<1>7. sent' = base + size + rb'.waiting
  <2>1. rb.waiting \in Nat /\ size \in Nat
    BY <1>1, <1>5, BlockFields, SizeAssumption DEF ByteState
  <2>2. \A w, k \in Nat : base + 0 + w = base + k + (w - k)
    OBVIOUS
  <2>. QED
    BY <1>1, <1>3, <1>4, <1>5, <2>1, <2>2
<1>8. size \in 0 .. xSize /\ size > 0
  BY <1>5, SizeAssumption
<1>. QED
  BY <1>1, <1>3, <1>5, <1>6, <1>7, <1>8 DEF Kept

\* A return gives back what was lent.
LEMMA ReturnKeeps ==
    ASSUME IsByteBuffer, BytesKept, NEW l \in loans, vRingbufferReturnItem(l)
    PROVE  \E lent \in 0 .. xSize, base \in Nat :
             /\ Kept(lent, base) /\ base + lent \in Nat
             /\ Kept(0, base + lent)' /\ rb'.waiting = rb.waiting
<1>1. PICK lent \in 0 .. xSize, base \in Nat :
        ByteState(rb, lent, base) /\ LoansAre(lent)
        /\ sent = base + lent + rb.waiting
  BY DEF BytesKept, Kept
<1>2. lent # 0 /\ loans = {l}
  BY <1>1 DEF LoansAre
<1>3. lent > 0
  BY <1>1, <1>2, SizeAssumption
<1>4. /\ rb' = prvReturnItemByteBuf(rb) /\ loans' = {} /\ sent' = sent
  BY <1>2 DEF vRingbufferReturnItem, vReturnItem
<1>5. ByteState(rb', 0, base + lent) /\ rb'.waiting = rb.waiting
  BY <1>1, <1>3, <1>4, ReturnKeepsState
<1>6. LoansAre(0)'
  BY <1>4 DEF LoansAre
<1>7. sent' = (base + lent) + 0 + rb'.waiting /\ base + lent \in Nat
        /\ 0 \in 0 .. xSize
  <2>1. rb.waiting \in Nat
    BY <1>1, BlockFields, SizeAssumption DEF ByteState
  <2>2. /\ \A w \in Nat : base + lent + w = (base + lent) + 0 + w
        /\ base + lent \in Nat /\ 0 \in 0 .. xSize
    BY SizeAssumption
  <2>. QED
    BY <1>1, <1>4, <1>5, <2>1, <2>2
<1>. QED
  BY <1>1, <1>5, <1>6, <1>7 DEF Kept

\* A sender's step keeps the invariant: waits and time-outs move no data.
LEMMA SenderKeeps ==
    ASSUME IsByteBuffer, ByteInv, NEW s \in Senders,
           \/ \E n \in SendSizes : xRingbufferSend(s, n)
           \/ SendRetries(s)
           \/ SendTimesOut(s)
           \/ SendNotifies(s)
    PROVE  ByteInv'
<1> USE DEF ByteInv
<1>1. ASSUME NEW n \in 1 .. xSize, SendCopies(s, n) PROVE ByteInv'
  <2>1. BytesKept' /\ acquired' = {}
    BY <1>1, SendCopiesKeeps DEF SendCopies, BytesKept
  <2>2. RequestsKept'
    BY <1>1 DEF RequestsKept, SendCopies, Announce
  <2>. QED
    BY <2>1, <2>2
<1>2. ASSUME NEW n \in 1 .. xSize, SendBlocks(s, n, FALSE) PROVE ByteInv'
  <2>1. BytesKept' /\ acquired' = {}
    BY <1>2, DataUnchanged DEF SendBlocks, dataVars
  <2>2. n \in Nat
    BY SizeAssumption
  <2>3. RequestsKept'
    BY <1>2, <2>2 DEF RequestsKept, SendBlocks
  <2>. QED
    BY <2>1, <2>3
<1>3. ASSUME NEW n, SendGivesUp(s, n) PROVE ByteInv'
  <2>1. BytesKept' /\ acquired' = {}
    BY <1>3, DataUnchanged DEF SendGivesUp, dataVars
  <2>2. RequestsKept'
    BY <1>3 DEF RequestsKept, SendGivesUp
  <2>. QED
    BY <2>1, <2>2
<1>4. CASE \E n \in SendSizes : xRingbufferSend(s, n)
  BY <1>1, <1>2, <1>4, ByteSizes DEF xRingbufferSend
<1>5. CASE SendRetries(s)
  <2>1. sendReq[s].size \in 1 .. xSize /\ sendReq[s].acquire = FALSE
    BY <1>5 DEF RequestsKept, SendRetries
  <2>2. PICK n \in 1 .. xSize : n = sendReq[s].size
    BY <2>1
  <2>3. SendCopies(s, n) \/ SendBlocks(s, n, FALSE) \/ SendGivesUp(s, n)
    BY <1>5, <2>1, <2>2 DEF SendRetries
  <2>. QED
    BY <2>3, <1>1, <1>2, <1>3
<1>6. CASE SendTimesOut(s)
  <2>1. BytesKept' /\ acquired' = {}
    BY <1>6, DataUnchanged DEF SendTimesOut, dataVars
  <2>2. RequestsKept'
    BY <1>6 DEF RequestsKept, SendTimesOut
  <2>. QED
    BY <2>1, <2>2
<1>7. CASE SendNotifies(s)
  <2>1. BytesKept' /\ acquired' = {}
    BY <1>7, DataUnchanged DEF SendNotifies, dataVars
  <2>2. RequestsKept'
    BY <1>7 DEF RequestsKept, SendNotifies
  <2>. QED
    BY <2>1, <2>2
<1>. QED
  BY <1>4, <1>5, <1>6, <1>7

\* A receiver's step keeps the invariant.
LEMMA ReceiverKeeps ==
    ASSUME IsByteBuffer, ByteInv, NEW r \in Receivers,
           \/ \E max \in ReceiveSizes :
                xRingbufferReceive(r, max) \/ ReceiveSelected(r, max)
           \/ ReceiveRetries(r)
           \/ ReceiveTimesOut(r)
           \/ xQueueSelectFromSet(r)
    PROVE  ByteInv'
<1> USE DEF ByteInv
<1>1. ASSUME NEW max \in Nat, ReceiveGets(r, max) PROVE ByteInv'
  <2>1. BytesKept' /\ acquired' = {}
    BY <1>1, ReceiveGetsKeeps DEF ReceiveGets, BytesKept
  <2>2. RequestsKept'
    BY <1>1 DEF RequestsKept, ReceiveGets
  <2>. QED
    BY <2>1, <2>2
<1>2. ASSUME NEW max \in Nat, ReceiveBlocks(r, max) PROVE ByteInv'
  <2>1. BytesKept' /\ acquired' = {}
    BY <1>2, DataUnchanged DEF ReceiveBlocks, dataVars
  <2>2. RequestsKept'
    BY <1>2 DEF RequestsKept, ReceiveBlocks
  <2>. QED
    BY <2>1, <2>2
<1>3. ASSUME ReceiveGivesUp(r) \/ ReceiveTimesOut(r) \/ xQueueSelectFromSet(r)
      PROVE  ByteInv'
  <2>1. UNCHANGED <<dataVars, sendPc, sendReq, recvMax>>
    BY <1>3 DEF ReceiveGivesUp, ReceiveTimesOut, xQueueSelectFromSet
  <2>2. BytesKept' /\ acquired' = {}
    BY <2>1, DataUnchanged DEF dataVars
  <2>3. RequestsKept'
    BY <2>1 DEF RequestsKept
  <2>. QED
    BY <2>2, <2>3
<1>4. ReceiveSizes \subseteq Nat /\ recvMax[r] \in Nat
  BY SizesAssumption DEF RequestsKept
<1>5. CASE \E max \in ReceiveSizes :
             xRingbufferReceive(r, max) \/ ReceiveSelected(r, max)
  BY <1>1, <1>2, <1>3, <1>4, <1>5 DEF xRingbufferReceive, ReceiveSelected
<1>6. CASE ReceiveRetries(r)
  <2>1. PICK max \in Nat : max = recvMax[r]
    BY <1>4
  <2>2. ReceiveGets(r, max) \/ ReceiveBlocks(r, max) \/ ReceiveGivesUp(r)
    BY <1>6, <2>1 DEF ReceiveRetries
  <2>. QED
    BY <2>2, <1>1, <1>2, <1>3
<1>. QED
  BY <1>3, <1>5, <1>6

\* The remaining actions keep it: a return wakes a sender, the queue set's
\* functions touch neither data nor requests.
LEMMA OthersKeep ==
    ASSUME IsByteBuffer, ByteInv,
           \/ \E l \in loans : vRingbufferReturnItem(l)
           \/ xRingbufferAddToQueueSetRead
           \/ xRingbufferRemoveFromQueueSetRead
           \/ UNCHANGED vars
    PROVE  ByteInv'
<1> USE DEF ByteInv
<1>1. ASSUME NEW l \in loans, vRingbufferReturnItem(l) PROVE ByteInv'
  <2>0. 0 \in 0 .. xSize
    BY SizeAssumption
  <2>1. BytesKept' /\ acquired' = {}
    BY <1>1, <2>0, ReturnKeeps DEF vRingbufferReturnItem, BytesKept
  <2>2. /\ sendReq' = sendReq /\ recvMax' = recvMax
        /\ \/ sendPc' = sendPc
           \/ \E s \in Senders : /\ sendPc[s] = "blocked"
                                 /\ sendPc' = [sendPc EXCEPT ![s] = "woken"]
    BY <1>1 DEF vRingbufferReturnItem, Wake, Blocked, RequestsKept
  <2>3. RequestsKept'
    BY <2>2 DEF RequestsKept
  <2>. QED
    BY <2>1, <2>3
<1>2. ASSUME \/ xRingbufferAddToQueueSetRead
             \/ xRingbufferRemoveFromQueueSetRead
             \/ UNCHANGED vars
      PROVE  ByteInv'
  <2>1. UNCHANGED <<dataVars, taskVars>>
    BY <1>2 DEF xRingbufferAddToQueueSetRead, vars,
                xRingbufferRemoveFromQueueSetRead
  <2>2. BytesKept' /\ acquired' = {}
    BY <2>1, DataUnchanged DEF dataVars
  <2>3. RequestsKept'
    BY <2>1 DEF RequestsKept, taskVars
  <2>. QED
    BY <2>2, <2>3
<1>. QED
  BY <1>1, <1>2

\* The inductive invariant of a byte buffer.
LEMMA ByteInvHolds ==
    Spec => [](IsByteBuffer => ByteInv)
<1>1. Init => (IsByteBuffer => ByteInv)
  BY ByteInvInit
<1>2. (IsByteBuffer => ByteInv) /\ [Next]_vars => (IsByteBuffer => ByteInv)'
  <2> SUFFICES ASSUME IsByteBuffer, ByteInv, [Next]_vars
               PROVE  ByteInv'
    BY DEF IsByteBuffer
  <2>1. \A s \in Senders :
          ~ \E n \in AcquireSizes :
              \/ xRingbufferSendAcquire(s, n)
              \/ \E h \in acquired : h.size = n /\ xRingbufferSendComplete(s, h)
    BY ByteSizes DEF ByteInv
  <2>. QED
    BY <2>1, SenderKeeps, ReceiverKeeps, OthersKeep DEF Next, QueueSetStep
<1>. QED
  BY <1>1, <1>2, PTL DEF Spec

\* For a byte buffer of any size, any number of senders and receivers and any
\* sizes they ask for: the unread bytes are the next ones of the stream, in
\* order, and the bytes lent out stay as sent until vRingbufferReturnItem.
THEOREM StreamAlwaysIntact == Spec => []StreamIntact
<1>1. ByteInv => StreamIntact
  <2> SUFFICES ASSUME ByteInv PROVE StreamIntact
    OBVIOUS
  <2>1. PICK lent \in 0 .. xSize, base \in Nat :
          ByteState(rb, lent, base) /\ LoansAre(lent)
          /\ sent = base + lent + rb.waiting
    BY DEF ByteInv, BytesKept, Kept
  <2>2. PICK w \in Nat : w = rb.waiting
    BY <2>1, BlockFields, SizeAssumption DEF ByteState
  <2>3. lent \in Nat /\ sent - w = base + lent /\ sent - w - lent = base
    BY <2>1, <2>2, SizeAssumption
  <2>4. \A i \in 0 .. rb.waiting - 1 :
          rb.mem[ByteWrap(rb.read + i)] = sent - rb.waiting + i
    BY <2>1, <2>2, <2>3 DEF ByteState, Stored
  <2>5. \A l \in loans : \A i \in 0 .. l.size - 1 :
          rb.mem[l.item + i] = sent - rb.waiting - l.size + i
    BY <2>1, <2>2, <2>3 DEF ByteState, Stored, LoansAre
  <2>. QED
    BY <2>4, <2>5 DEF StreamIntact
<1>2. (IsByteBuffer => ByteInv) => StreamIntact
  BY <1>1 DEF StreamIntact
<1>. QED
  BY <1>2, ByteInvHolds, PTL

\* For the same buffers: rbBUFFER_FULL_FLAG says exactly whether the unread and
\* the lent bytes fill the storage, and one item at most is lent out.
THEOREM FullAlwaysExact == Spec => []FullIsExact
<1>1. ByteInv => FullIsExact
  <2> SUFFICES ASSUME ByteInv PROVE FullIsExact
    OBVIOUS
  <2>1. PICK lent \in 0 .. xSize, base \in Nat :
          ByteState(rb, lent, base) /\ LoansAre(lent)
    BY DEF ByteInv, BytesKept, Kept
  <2>2. rb.full <=> (lent + rb.waiting = xSize)
    BY <2>1 DEF ByteState
  <2>3. lent + rb.waiting = rb.waiting + lent
    <3>1. rb.waiting \in Nat /\ lent \in Nat
      BY <2>1, BlockFields, SizeAssumption DEF ByteState
    <3>. QED
      BY <3>1
  <2>4. \A l, m \in loans : l = m
    BY <2>1 DEF LoansAre
  <2>5. lent = IF loans = {} THEN 0 ELSE (CHOOSE l \in loans : TRUE).size
    BY <2>1 DEF LoansAre
  <2>. QED
    BY <2>2, <2>3, <2>4, <2>5 DEF FullIsExact
<1>2. (IsByteBuffer => ByteInv) => FullIsExact
  BY <1>1 DEF FullIsExact
<1>. QED
  BY <1>2, ByteInvHolds, PTL

(***************************************************************************)
(* A byte buffer implements the abstract FIFO.                             *)
(***************************************************************************)
\* The piece that byte number k is, and n of them from number first on.
Piece(k) == [tags |-> {k}, len |-> 1, split |-> FALSE, ready |-> TRUE]
Pieces(first, n) == [i \in 1 .. n |-> Piece(first + i - 1)]

\* The two views of the storage, in terms of what ByteInv says of it.
ViewsAreBytes ==
    IsByteBuffer =>
      \A lent \in 0 .. xSize, base \in Nat :
        Kept(lent, base) =>
          /\ FifoView = Pieces(base + lent, rb.waiting)
          /\ HeldView = {Piece(k) : k \in base .. base + lent - 1}
          /\ rb.waiting \in Nat

LEMMA ViewsOfBytes == ViewsAreBytes
<1> SUFFICES ASSUME IsByteBuffer, NEW lent \in 0 .. xSize, NEW base \in Nat,
                    Kept(lent, base)
             PROVE  /\ FifoView = Pieces(base + lent, rb.waiting)
                    /\ HeldView = {Piece(k) : k \in base .. base + lent - 1}
                    /\ rb.waiting \in Nat
  BY DEF ViewsAreBytes
<1>0. xSize \in Nat \ {0}
  BY SizeAssumption
<1>1. /\ ByteState(rb, lent, base) /\ LoansAre(lent)
      /\ rb.read \in Cells /\ rb.free \in Cells /\ rb.waiting \in 0 .. xSize
      /\ rb.free + lent <= xSize
      /\ Stored(rb.mem, rb.read, rb.free, rb.waiting, lent, base)
  BY BlockFields DEF Kept, ByteState, Placed
<1>2. FifoView = Pieces(base + lent, rb.waiting)
  <2>1. FifoView = [i \in 1 .. rb.waiting |-> ByteAt(rb.read + i - 1)]
    BY DEF FifoView
  <2>2. ASSUME NEW i \in 1 .. rb.waiting
        PROVE  ByteAt(rb.read + i - 1) = Piece(base + lent + i - 1)
    <3>1. /\ i - 1 \in 0 .. rb.waiting - 1
          /\ rb.read + (i - 1) = rb.read + i - 1
          /\ base + lent + (i - 1) = base + lent + i - 1
      BY <1>0, <1>1 DEF Cells
    <3>2. rb.mem[ByteWrap(rb.read + (i - 1))] = base + lent + (i - 1)
      BY <1>1, <3>1 DEF Stored
    <3>. QED
      BY <3>1, <3>2 DEF ByteAt, Piece
  <2>. QED
    BY <2>1, <2>2 DEF Pieces
<1>3. HeldView = {Piece(k) : k \in base .. base + lent - 1}
  <2> DEFINE held == {ByteAt(b) : b \in UNION {l.item .. l.item + l.size - 1 :
                                               l \in loans}}
  <2>1. HeldView = held
    BY DEF HeldView
  <2>2. CASE lent = 0
    <3>1. loans = {} /\ base .. base + lent - 1 = {}
      BY <1>1, <2>2 DEF LoansAre
    <3>2. held = {}
      BY <3>1
    <3>. QED
      BY <2>1, <3>1, <3>2
  <2>3. CASE lent # 0
    <3>1. UNION {l.item .. l.item + l.size - 1 : l \in loans}
            = rb.free .. rb.free + lent - 1
      BY <1>1, <2>3 DEF LoansAre
    <3>2. held = {ByteAt(b) : b \in rb.free .. rb.free + lent - 1}
      BY <3>1
    <3>3. ASSUME NEW i \in 0 .. lent - 1
          PROVE  ByteAt(rb.free + i) = Piece(base + i)
      <4>1. ByteWrap(rb.free + i) = rb.free + i
        BY <1>0, <1>1 DEF ByteWrap, Cells
      <4>2. rb.mem[rb.free + i] = base + i
        BY <1>1 DEF Stored
      <4>. QED
        BY <4>1, <4>2 DEF ByteAt, Piece
    <3>4. ASSUME NEW b \in rb.free .. rb.free + lent - 1
          PROVE  \E k \in base .. base + lent - 1 : ByteAt(b) = Piece(k)
      <4>1. /\ b - rb.free \in 0 .. lent - 1
            /\ rb.free + (b - rb.free) = b
            /\ base + (b - rb.free) \in base .. base + lent - 1
        BY <1>0, <1>1 DEF Cells
      <4>. QED
        BY <4>1, <3>3
    <3>5. ASSUME NEW k \in base .. base + lent - 1
          PROVE  \E b \in rb.free .. rb.free + lent - 1 : ByteAt(b) = Piece(k)
      <4>1. /\ k - base \in 0 .. lent - 1
            /\ base + (k - base) = k
            /\ rb.free + (k - base) \in rb.free .. rb.free + lent - 1
        BY <1>0, <1>1 DEF Cells
      <4>. QED
        BY <4>1, <3>3
    <3>. QED
      BY <2>1, <3>2, <3>4, <3>5
  <2>. QED
    BY <2>2, <2>3
<1>. QED
  BY <1>0, <1>1, <1>2, <1>3

\* A run of pieces is a sequence; a later part of it is a run as well.
LEMMA PiecesSub ==
    ASSUME NEW first \in Nat, NEW n \in Nat, NEW k \in 0 .. n
    PROVE  /\ Pieces(first, n) \in Seq({Piece(j) : j \in Nat})
           /\ Len(Pieces(first, n)) = n
           /\ \A i \in 1 .. n : Pieces(first, n)[i] = Piece(first + i - 1)
           /\ SubSeq(Pieces(first, n), 1, k) = Pieces(first, k)
           /\ SubSeq(Pieces(first, n), k + 1, n) = Pieces(first + k, n - k)
<1>1. \A i \in 1 .. n : Piece(first + i - 1) \in {Piece(j) : j \in Nat}
  OBVIOUS
<1>2. /\ Pieces(first, n) \in Seq({Piece(j) : j \in Nat})
      /\ Len(Pieces(first, n)) = n
      /\ \A i \in 1 .. n : Pieces(first, n)[i] = Piece(first + i - 1)
  BY <1>1 DEF Pieces
<1>3. SubSeq(Pieces(first, n), 1, k) = Pieces(first, k)
  BY <1>2 DEF Pieces
<1>4. SubSeq(Pieces(first, n), k + 1, n) = Pieces(first + k, n - k)
  BY <1>2 DEF Pieces
<1>. QED
  BY <1>2, <1>3, <1>4
\* A new byte buffer is an empty queue.
LEMMA FifoInit ==
    ASSUME IsByteBuffer, Init
    PROVE  Fifo!Init
<1>1. rb.waiting = 0 /\ loans = {} /\ sent = 0
  BY DEF Init, prvInitializeNewRingbuffer
<1>2. FifoView = <<>>
  BY <1>1 DEF FifoView
<1>3. HeldView = {}
  BY <1>1 DEF HeldView
<1>. QED
  BY <1>1, <1>2, <1>3 DEF Fifo!Init

\* A copy puts its bytes at the end of the queue.
LEMMA SendCopiesPuts ==
    ASSUME IsByteBuffer, BytesKept, NEW s \in Senders, NEW n \in 1 .. xSize,
           SendCopies(s, n)
    PROVE  Fifo!Put
<1>0. xSize \in Nat /\ n \in Nat \ {0}
  BY SizeAssumption
<1>1. PICK lent \in 0 .. xSize, base \in Nat :
        /\ Kept(lent, base) /\ Kept(lent, base)'
        /\ rb'.waiting = rb.waiting + n
  BY SendCopiesKeeps
<1>2. ViewsAreBytes'
  BY ViewsOfBytes, PTL
<1>3. sent' = sent + n
  BY DEF SendCopies, Unit
<1> DEFINE first == base + lent
<1>4. PICK w \in Nat : w = rb.waiting
  BY <1>1, ViewsOfBytes DEF ViewsAreBytes
<1>5. /\ FifoView = Pieces(first, w)
      /\ HeldView = {Piece(k) : k \in base .. base + lent - 1}
      /\ sent = first + w
  BY <1>1, <1>4, ViewsOfBytes DEF Kept, ViewsAreBytes
<1>6. /\ FifoView' = Pieces(first, w + n)
      /\ HeldView' = {Piece(k) : k \in base .. base + lent - 1}
  BY <1>1, <1>2, <1>4 DEF ViewsAreBytes, IsByteBuffer
<1>7. first \in Nat /\ w + n \in Nat /\ w \in 0 .. w + n
  BY <1>0
<1> HIDE DEF first
<1>8. /\ Len(FifoView) = w /\ Len(FifoView') = w + n
      /\ SubSeq(FifoView, 1, w) = Pieces(first, w)
      /\ SubSeq(FifoView', 1, w) = Pieces(first, w)
      /\ SubSeq(FifoView', w + 1, w + n) = Pieces(first + w, w + n - w)
  <2>1. w \in 0 .. w
    OBVIOUS
  <2>2. /\ Len(Pieces(first, w)) = w
        /\ SubSeq(Pieces(first, w), 1, w) = Pieces(first, w)
    BY <1>7, <2>1, PiecesSub
  <2>3. PICK m \in Nat : m = w + n
    BY <1>7
  <2>4. /\ Len(Pieces(first, m)) = m
        /\ SubSeq(Pieces(first, m), 1, w) = Pieces(first, w)
        /\ SubSeq(Pieces(first, m), w + 1, m) = Pieces(first + w, m - w)
    BY <1>7, <2>3, PiecesSub
  <2>. QED
    BY <1>5, <1>6, <2>2, <2>3, <2>4
<1>9. Fifo!IsPrefix(FifoView, FifoView')
  BY <1>7, <1>8, <1>0 DEF Fifo!IsPrefix
<1>10. w + n - w = n /\ n \in 0 .. n
  BY <1>0
<1> DEFINE new == Pieces(sent, n)
<1>11. /\ SubSeq(FifoView', Len(FifoView) + 1, Len(FifoView')) = new
       /\ Len(new) = n
       /\ \A i \in 1 .. n : new[i] = Piece(sent + i - 1)
  <2>1. sent \in Nat
    BY <1>5, <1>7
  <2>. QED
    BY <1>0, <1>5, <1>8, <1>10, <2>1, PiecesSub
<1> HIDE DEF new
<1>12. Fifo!AreBytes(new)
  <2>1. \A k : Piece(k).tags = {k} /\ Piece(k).ready /\ ~Piece(k).split
    BY DEF Piece
  <2>. QED
    BY <1>11, <2>1 DEF Fifo!AreBytes
<1>13. sent' > sent
  BY <1>0, <1>3, <1>5, <1>7
<1>. QED
  BY <1>3, <1>5, <1>6, <1>9, <1>11, <1>12, <1>13 DEF Fifo!Put
\* A retrieval takes the oldest bytes of the queue.
LEMMA ReceiveGetsGets ==
    ASSUME IsByteBuffer, BytesKept, NEW r \in Receivers, NEW max \in Nat,
           ReceiveGets(r, max)
    PROVE  \E i \in 1 .. Len(FifoView) : Fifo!Get(i)
<1>1. PICK k \in 0 .. xSize, base \in Nat :
        /\ Kept(0, base) /\ Kept(k, base)'
        /\ k > 0 /\ rb'.waiting = rb.waiting - k
  BY ReceiveGetsKeeps
<1>2. ViewsAreBytes'
  BY ViewsOfBytes, PTL
<1>3. sent' = sent /\ 0 \in 0 .. xSize
  BY SizeAssumption DEF ReceiveGets
<1>4. PICK w \in Nat : w = rb.waiting
  BY <1>1, <1>3, ViewsOfBytes DEF ViewsAreBytes
<1>5. FifoView = Pieces(base, w) /\ HeldView = {}
  <2>1. /\ FifoView = Pieces(base + 0, w)
        /\ HeldView = {Piece(j) : j \in base .. base + 0 - 1}
    BY <1>1, <1>3, <1>4, ViewsOfBytes DEF ViewsAreBytes
  <2>2. base + 0 = base /\ base .. base + 0 - 1 = {}
    OBVIOUS
  <2>. QED
    BY <2>1, <2>2
<1>6. /\ FifoView' = Pieces(base + k, w - k)
      /\ HeldView' = {Piece(j) : j \in base .. base + k - 1}
      /\ w - k \in Nat
  BY <1>1, <1>2, <1>4 DEF ViewsAreBytes, IsByteBuffer
<1>7. k \in 1 .. w /\ k \in 0 .. w /\ w - k \in 0 .. w - k /\ base + k \in Nat
  BY <1>1, <1>6, SizeAssumption
<1>8. /\ Len(FifoView) = w /\ Len(FifoView') = w - k
      /\ \A i \in 1 .. w : FifoView[i] = Piece(base + i - 1)
      /\ FifoView' = SubSeq(FifoView, k + 1, Len(FifoView))
  <2>1. /\ Len(Pieces(base, w)) = w
        /\ \A i \in 1 .. w : Pieces(base, w)[i] = Piece(base + i - 1)
        /\ SubSeq(Pieces(base, w), k + 1, w) = Pieces(base + k, w - k)
    BY <1>7, PiecesSub
  <2>2. Len(Pieces(base + k, w - k)) = w - k
    BY <1>6, <1>7, PiecesSub
  <2>. QED
    BY <1>5, <1>6, <2>1, <2>2
<1>9. HeldView' = HeldView \cup {FifoView[i] : i \in 1 .. k}
  <2>1. \A i \in 1 .. k : i \in 1 .. w /\ base + i - 1 \in base .. base + k - 1
    BY <1>7
  <2>2. \A j \in base .. base + k - 1 :
          j - base + 1 \in 1 .. k /\ base + (j - base + 1) - 1 = j
    BY <1>7
  <2>3. \A i \in 1 .. k : FifoView[i] \in HeldView'
    BY <1>6, <1>8, <2>1
  <2>4. \A j \in base .. base + k - 1 :
          \E i \in 1 .. k : FifoView[i] = Piece(j)
    BY <1>8, <2>1, <2>2
  <2>. QED
    BY <1>5, <1>6, <2>3, <2>4
<1>10. \A i \in 1 .. k : FifoView[i].ready /\ ~FifoView[i].split
  BY <1>7, <1>8 DEF Piece
<1>11. FifoView # <<>> /\ k \in 1 .. k /\ k \in 1 .. Len(FifoView)
  BY <1>7, <1>8
<1>12. Fifo!Get(k)
  BY <1>3, <1>5, <1>8, <1>9, <1>10, <1>11 DEF Fifo!Get
<1>. QED
  BY <1>11, <1>12

\* A return only takes bytes out of its holder's hands.
LEMMA ReturnReturns ==
    ASSUME IsByteBuffer, BytesKept, NEW l \in loans, vRingbufferReturnItem(l)
    PROVE  Fifo!Return
<1>1. PICK lent \in 0 .. xSize, base \in Nat :
        /\ Kept(lent, base) /\ base + lent \in Nat
        /\ Kept(0, base + lent)' /\ rb'.waiting = rb.waiting
  BY ReturnKeeps
<1>2. ViewsAreBytes'
  BY ViewsOfBytes, PTL
<1>3. sent' = sent /\ 0 \in 0 .. xSize
  BY SizeAssumption DEF vRingbufferReturnItem
<1> DEFINE next == base + lent
<1>4. FifoView = Pieces(next, rb.waiting)
  BY <1>1, ViewsOfBytes DEF ViewsAreBytes
<1>5. /\ FifoView' = Pieces(next + 0, rb.waiting)
      /\ HeldView' = {Piece(j) : j \in next .. next + 0 - 1}
  BY <1>1, <1>2, <1>3 DEF ViewsAreBytes, IsByteBuffer
<1>6. next + 0 = next /\ next .. next + 0 - 1 = {}
  BY <1>1
<1> HIDE DEF next
<1>7. FifoView' = FifoView /\ HeldView' = {}
  BY <1>4, <1>5, <1>6
<1>. QED
  BY <1>3, <1>7 DEF Fifo!Return

\* A step that leaves the data alone leaves the queue alone.
LEMMA QueueUnchanged ==
    ASSUME IsByteBuffer, UNCHANGED dataVars
    PROVE  UNCHANGED <<FifoView, HeldView, sent>>
<1>1. rb' = rb /\ sent' = sent /\ loans' = loans
  BY DEF dataVars
<1>2. /\ FifoView = [i \in 1 .. rb.waiting |-> ByteAt(rb.read + i - 1)]
      /\ HeldView = {ByteAt(b) : b \in UNION {l.item .. l.item + l.size - 1 :
                                               l \in loans}}
  BY DEF FifoView, HeldView
<1>3. /\ FifoView' = [i \in 1 .. rb'.waiting |-> ByteAt(rb.read + i - 1)']
      /\ HeldView' = {ByteAt(b)' : b \in UNION {l.item .. l.item + l.size - 1 :
                                                l \in loans'}}
  BY DEF FifoView, HeldView, IsByteBuffer
<1>4. ASSUME NEW p PROVE ByteAt(p)' = ByteAt(p)
  BY <1>1 DEF ByteAt
<1>. QED
  BY <1>1, <1>2, <1>3, <1>4

\* Every step of a byte buffer is a step of the queue or leaves it alone.
LEMMA FifoStep ==
    ASSUME IsByteBuffer, ByteInv, [Next]_vars
    PROVE  [Fifo!Next]_<<FifoView, HeldView, sent>>
<1> DEFINE Step == [Fifo!Next]_<<FifoView, HeldView, sent>>
<1>0. BytesKept /\ RequestsKept
  BY DEF ByteInv
<1>1. ASSUME NEW s \in Senders, NEW n \in 1 .. xSize, SendCopies(s, n)
      PROVE  Step
  BY <1>0, <1>1, SendCopiesPuts DEF Fifo!Next
<1>2. ASSUME NEW r \in Receivers, NEW max \in Nat, ReceiveGets(r, max)
      PROVE  Step
  BY <1>0, <1>2, ReceiveGetsGets DEF Fifo!Next
<1>3. ASSUME NEW l \in loans, vRingbufferReturnItem(l)
      PROVE  Step
  BY <1>0, <1>3, ReturnReturns DEF Fifo!Next
<1>4. ASSUME UNCHANGED dataVars PROVE Step
  BY <1>4, QueueUnchanged
<1> HIDE DEF Step
<1>5. ASSUME NEW s \in Senders, NEW n \in SendSizes, xRingbufferSend(s, n)
      PROVE  Step
  <2>1. SendCopies(s, n) \/ SendBlocks(s, n, FALSE)
    BY <1>5 DEF xRingbufferSend
  <2>2. CASE SendCopies(s, n)
    BY <2>2, <1>1, ByteSizes
  <2>3. CASE SendBlocks(s, n, FALSE)
    BY <2>3, <1>4 DEF SendBlocks
  <2>. QED
    BY <2>1, <2>2, <2>3
<1>6. ASSUME NEW s \in Senders, SendRetries(s)
      PROVE  Step
  <2>1. sendReq[s].size \in 1 .. xSize /\ sendReq[s].acquire = FALSE
    BY <1>0, <1>6 DEF RequestsKept, SendRetries
  <2>2. PICK n \in 1 .. xSize : n = sendReq[s].size
    BY <2>1
  <2>3. SendCopies(s, n) \/ SendBlocks(s, n, FALSE) \/ SendGivesUp(s, n)
    BY <1>6, <2>1, <2>2 DEF SendRetries
  <2>4. SendCopies(s, n) \/ UNCHANGED dataVars
    BY <2>3 DEF SendBlocks, SendGivesUp
  <2>. QED
    BY <2>4, <1>1, <1>4
<1>7. ASSUME NEW r \in Receivers, NEW max \in Nat,
             ReceiveGets(r, max) \/ ReceiveBlocks(r, max) \/ ReceiveGivesUp(r)
      PROVE  Step
  <2>1. ReceiveGets(r, max) \/ UNCHANGED dataVars
    BY <1>7 DEF ReceiveBlocks, ReceiveGivesUp
  <2>. QED
    BY <2>1, <1>2, <1>4
<1>8. ASSUME NEW r \in Receivers,
             \/ \E max \in ReceiveSizes :
                  xRingbufferReceive(r, max) \/ ReceiveSelected(r, max)
             \/ ReceiveRetries(r)
      PROVE  Step
  <2>1. ReceiveSizes \subseteq Nat /\ recvMax[r] \in Nat
    BY <1>0, SizesAssumption DEF RequestsKept
  <2>2. \E max \in Nat :
          ReceiveGets(r, max) \/ ReceiveBlocks(r, max) \/ ReceiveGivesUp(r)
    BY <1>8, <2>1 DEF xRingbufferReceive, ReceiveSelected, ReceiveRetries
  <2>. QED
    BY <2>2, <1>7
<1>9. ASSUME \/ \E s \in Senders : SendTimesOut(s) \/ SendNotifies(s)
             \/ \E r \in Receivers :
                  ReceiveTimesOut(r) \/ xQueueSelectFromSet(r)
             \/ xRingbufferAddToQueueSetRead
             \/ xRingbufferRemoveFromQueueSetRead
             \/ UNCHANGED vars
      PROVE  Step
  <2>1. UNCHANGED dataVars
    BY <1>9 DEF SendTimesOut, SendNotifies, ReceiveTimesOut, vars,
                xQueueSelectFromSet, xRingbufferAddToQueueSetRead,
                xRingbufferRemoveFromQueueSetRead
  <2>. QED
    BY <2>1, <1>4
<1>10. AcquireSizes = {}
  BY ByteSizes
<1>11. Step
  BY <1>3, <1>5, <1>6, <1>8, <1>9, <1>10 DEF Next, QueueSetStep
<1>. QED
  BY <1>11 DEF Step

\* A byte buffer of any size, with any number of senders and receivers,
\* implements the abstract FIFO: xRingbufferSend appends whole requests to the
\* stream, a retrieval takes from its front and nothing that is lent out
\* changes before vRingbufferReturnItem.
THEOREM ByteBufferIsFifo ==
    ASSUME IsByteBuffer
    PROVE  Spec => IsFifo
<1>1. Init => Fifo!Init
  BY FifoInit
<1>2. ByteInv /\ [Next]_vars => [Fifo!Next]_<<FifoView, HeldView, sent>>
  BY FifoStep
<1>3. Spec => []ByteInv
  <2>1. (IsByteBuffer => ByteInv) => ByteInv
    OBVIOUS
  <2>. QED
    BY <2>1, ByteInvHolds, PTL
<1>. QED
  BY <1>1, <1>2, <1>3, PTL DEF Spec, IsFifo, Fifo!Spec

(***************************************************************************)
(* Buffers of items.  The storage between the free and the acquire pointer *)
(* is a chain of blocks, each with a header.  V[k] is where block k starts *)
(* and V[m + 1] where the next one will; an address counts on from xSize   *)
(* behind the tail, so that the addresses increase along the chain.        *)
(***************************************************************************)
FlagNames == {"WRITTEN", "FREE", "DUMMY", "SPLIT"}
Memory == [Words -> [xItemLen : Nat, uxItemFlags : SUBSET FlagNames, tag : Nat]]

Flags(mem, v) == mem[ByteWrap(v)].uxItemFlags
SizeAt(mem, v) == mem[ByteWrap(v)].xItemLen
TagAt(mem, v) == mem[ByteWrap(v)].tag
Dummy(mem, v) == "DUMMY" \in Flags(mem, v)
Live(mem, v) == Flags(mem, v) \cap {"FREE", "DUMMY"} = {}

\* Where a header may be.
Addr == {v \in 0 .. 2 * xSize - 1 :
           v % 4 = 0 /\ ByteWrap(v) + rbHEADER_SIZE <= xSize}

\* The block at v ends where the one at u begins.
Follows(mem, v, u) ==
    LET p == ByteWrap(v)
        end == p + rbHEADER_SIZE + rbALIGN_SIZE(SizeAt(mem, v))
    IN  IF Dummy(mem, v) THEN v < xSize /\ u = xSize
        ELSE /\ end <= xSize
             /\ u = (v - p) + (IF xSize - end < rbHEADER_SIZE THEN xSize ELSE end)

Spaced(m, V) ==
    /\ m \in Nat
    /\ V \in [1 .. m + 1 -> Addr]
    /\ V[1] < xSize
    /\ \A j, k \in 1 .. m + 1 : j <= k => V[j] + 8 * (k - j) <= V[k]
    /\ V[m + 1] <= V[1] + xSize

Chained(mem, m, V) == \A k \in 1 .. m : Follows(mem, V[k], V[k + 1])

(***************************************************************************)
(* Addresses.                                                              *)
(***************************************************************************)
LEMMA ItemSize ==
    ASSUME ~IsByteBuffer
    PROVE  xSize \in Nat /\ xSize % 4 = 0 /\ xSize >= 16
<1>1. \A n \in Nat : rbALIGN_SIZE(n) \in Nat /\ rbALIGN_SIZE(n) % 4 = 0
  BY DEF rbALIGN_SIZE
<1>. QED
  BY <1>1, SizeAssumption DEF IsByteBuffer, rbHEADER_SIZE

\* rbALIGN_SIZE rounds up to a multiple of 4.
LEMMA AlignIs ==
    ASSUME NEW n \in Nat
    PROVE  /\ rbALIGN_SIZE(n) \in Nat /\ rbALIGN_SIZE(n) % 4 = 0
           /\ n <= rbALIGN_SIZE(n) /\ rbALIGN_SIZE(n) < n + 4
BY DEF rbALIGN_SIZE

\* What an address of a header is, and the place it stands for.
LEMMA AddrIs ==
    ASSUME ~IsByteBuffer, NEW v \in Addr
    PROVE  /\ v \in Nat /\ v < 2 * xSize /\ v % 4 = 0
           /\ ByteWrap(v) \in Words /\ ByteWrap(v) \in Nat
           /\ ByteWrap(v) + 8 <= xSize
           /\ ByteWrap(v) = IF v < xSize THEN v ELSE v - xSize
<1>1. xSize \in Nat /\ xSize % 4 = 0 /\ xSize >= 16
  BY ItemSize
<1>2. /\ v \in Nat /\ v < 2 * xSize /\ v % 4 = 0
      /\ ByteWrap(v) + 8 <= xSize
  BY <1>1 DEF Addr, rbHEADER_SIZE
<1>3. ByteWrap(v) = IF v < xSize THEN v ELSE v - xSize
  BY DEF ByteWrap
<1>4. ByteWrap(v) \in Nat /\ ByteWrap(v) % 4 = 0
  BY <1>1, <1>2, <1>3
<1>. QED
  BY <1>1, <1>2, <1>3, <1>4 DEF Words

\* A place with room for a header before the tail is its own address.
LEMMA WordAddr ==
    ASSUME ~IsByteBuffer, NEW p \in Words, p + 8 <= xSize
    PROVE  p \in Addr /\ ByteWrap(p) = p
<1>1. xSize \in Nat /\ xSize % 4 = 0 /\ xSize >= 16
  BY ItemSize
<1>. QED
  BY <1>1 DEF Addr, Words, ByteWrap, rbHEADER_SIZE

\* A word of memory is a header's.
LEMMA HeaderIs ==
    ASSUME ~IsByteBuffer, NEW mem \in Memory, NEW v \in Addr
    PROVE  /\ SizeAt(mem, v) \in Nat /\ TagAt(mem, v) \in Nat
           /\ Flags(mem, v) \in SUBSET FlagNames
<1>1. ByteWrap(v) \in Words
  BY AddrIs
<1>. QED
  BY <1>1 DEF Memory, SizeAt, TagAt, Flags

\* NextHeader goes from block to block.
LEMMA NextIs ==
    ASSUME ~IsByteBuffer, NEW mem \in Memory, NEW v \in Addr, NEW u \in Addr,
           Follows(mem, v, u)
    PROVE  NextHeader(mem, ByteWrap(v)) = ByteWrap(u)
<1>1. xSize \in Nat /\ xSize >= 16
  BY ItemSize
<1>2. /\ ByteWrap(v) \in Nat /\ v \in Nat
      /\ ByteWrap(v) = IF v < xSize THEN v ELSE v - xSize
      /\ ByteWrap(u) = (IF u < xSize THEN u ELSE u - xSize)
      /\ u \in Nat /\ u < 2 * xSize
  BY AddrIs
<1>3. CASE Dummy(mem, v)
  BY <1>1, <1>2, <1>3 DEF Follows, NextHeader, Dummy, Flags
<1>4. CASE ~Dummy(mem, v)
  <2>1. PICK a \in Nat : a = rbALIGN_SIZE(SizeAt(mem, v))
    BY AlignIs, HeaderIs
  <2>2. NextHeader(mem, ByteWrap(v)) = WrapHeader(ByteWrap(v) + 8 + a)
    BY <1>4, <2>1 DEF NextHeader, Dummy, Flags, SizeAt, rbHEADER_SIZE
  <2>3. LET end == ByteWrap(v) + 8 + a
        IN  /\ end <= xSize
            /\ u = (v - ByteWrap(v)) + (IF xSize - end < 8 THEN xSize ELSE end)
    BY <1>4, <2>1 DEF Follows, rbHEADER_SIZE
  <2>. QED
    BY <1>1, <1>2, <2>1, <2>2, <2>3 DEF WrapHeader, rbHEADER_SIZE
<1>. QED
  BY <1>3, <1>4

\* Two addresses less than xSize apart are different places.
LEMMA PlacesDiffer ==
    ASSUME ~IsByteBuffer, NEW v \in Addr, NEW u \in Addr,
           v < u, u < v + xSize
    PROVE  ByteWrap(v) # ByteWrap(u)
<1>1. xSize \in Nat /\ xSize >= 16
  BY ItemSize
<1>. QED
  BY <1>1, AddrIs

\* Two addresses a storage length apart are the same place.
LEMMA PlacesMeet ==
    ASSUME ~IsByteBuffer, NEW v \in Addr, NEW u \in Addr,
           u = v + xSize
    PROVE  ByteWrap(v) = ByteWrap(u)
<1>1. xSize \in Nat /\ xSize >= 16
  BY ItemSize
<1>. QED
  BY <1>1, AddrIs

(***************************************************************************)
(* Following the headers.                                                  *)
(***************************************************************************)
LEMMA LeastNat ==
    ASSUME NEW S \in SUBSET Nat, S # {}
    PROVE  \E n \in S : \A k \in S : n <= k
<1> DEFINE R == OpToRel(<, Nat)
<1>1. PICK n \in S : \A y \in S : ~ (<<y, n>> \in R)
  <2>1. IsWellFoundedOn(R, Nat)
    BY NatLessThanWellFounded
  <2> HIDE DEF R
  <2>. QED
    BY <2>1, WFMin
<1>2. \A y \in S : ~ (y < n)
  <2>1. ASSUME NEW y \in S, y < n PROVE <<y, n>> \in R
    BY <2>1 DEF OpToRel
  <2> HIDE DEF R
  <2>. QED
    BY <1>1, <2>1
<1>. QED
  BY <1>2

\* A pointer that is followed stays in the storage.
LEMMA NextWord ==
    ASSUME ~IsByteBuffer, NEW mem \in Memory, NEW p \in Words
    PROVE  NextHeader(mem, p) \in Words
<1>1. xSize \in Nat /\ xSize % 4 = 0 /\ xSize >= 16
  BY ItemSize
<1>2. p \in Nat /\ p % 4 = 0
  BY <1>1 DEF Words
<1>3. PICK a \in Nat : a = rbALIGN_SIZE(mem[p].xItemLen) /\ a % 4 = 0
  BY AlignIs DEF Memory
<1>4. 0 \in Words
  BY <1>1 DEF Words
<1>5. WrapHeader(p + rbHEADER_SIZE + a) \in Words
  BY <1>1, <1>2, <1>3, <1>4 DEF WrapHeader, rbHEADER_SIZE, Words
<1>. QED
  BY <1>3, <1>4, <1>5 DEF NextHeader

Walks(f, n, mem, p) ==
    f = [k \in 0 .. n |-> IF k = 0 THEN p
                          ELSE [w \in Words |-> NextHeader(mem, w)][f[k - 1]]]

\* The first steps of a walk from header to header, spelled out.
LEMMA WalkIs ==
    ASSUME ~IsByteBuffer, NEW mem \in Memory, NEW p \in Words, NEW n \in Nat,
           NEW f, Walks(f, n, mem, p)
    PROVE  /\ f \in [0 .. n -> Words] /\ f[0] = p
           /\ \A k \in 1 .. n : f[k] = NextHeader(mem, f[k - 1])
<1> DEFINE next == [w \in Words |-> NextHeader(mem, w)]
<1>0. DOMAIN f = 0 .. n /\ f = [k \in 0 .. n |-> f[k]]
  BY DEF Walks
<1>1. f[0] = p
  BY DEF Walks
<1>2. \A k \in 1 .. n : f[k] = next[f[k - 1]] /\ k \in 0 .. n /\ k - 1 \in 0 .. n
  BY DEF Walks
<1>3. \A w \in Words : next[w] = NextHeader(mem, w) /\ next[w] \in Words
  BY NextWord
<1> HIDE DEF next
<1>4. \A k \in 0 .. n : f[k] \in Words
  <2> DEFINE S == {k \in 0 .. n : f[k] \notin Words}
  <2>1. SUFFICES ASSUME S # {} PROVE FALSE
    OBVIOUS
  <2>2. PICK k \in S : \A j \in S : k <= j
    <3>1. S \in SUBSET Nat
      OBVIOUS
    <3> HIDE DEF S
    <3>. QED
      BY <2>1, <3>1, LeastNat
  <2>3. k # 0
    BY <1>1
  <2>4. k \in 1 .. n /\ k - 1 \in 0 .. n /\ k - 1 \notin S
    BY <2>2, <2>3
  <2>. QED
    BY <2>4, <1>2, <1>3
<1>5. \A k \in 1 .. n : f[k] = NextHeader(mem, f[k - 1])
  BY <1>2, <1>3, <1>4
<1>. QED
  BY <1>0, <1>1, <1>4, <1>5

\* There is a walk of any length (by its minimal counterexample).
LEMMA WalkExists ==
    ASSUME ~IsByteBuffer, NEW mem \in Memory, NEW p \in Words, NEW n \in Nat
    PROVE  \E f : Walks(f, n, mem, p)
<1> DEFINE S == {j \in Nat : ~ \E f : Walks(f, j, mem, p)}
<1>1. SUFFICES ASSUME S # {} PROVE FALSE
  OBVIOUS
<1>2. PICK j \in S : \A i \in S : j <= i
  <2>1. S \in SUBSET Nat
    OBVIOUS
  <2> HIDE DEF S
  <2>. QED
    BY <1>1, <2>1, LeastNat
<1>3. CASE j = 0
  <2>1. Walks([k \in 0 .. 0 |-> p], 0, mem, p)
    BY DEF Walks
  <2>. QED
    BY <2>1, <1>2, <1>3
<1>4. CASE j # 0
  <2>1. j - 1 \in Nat /\ j - 1 \notin S
    BY <1>2, <1>4
  <2>2. PICK f : Walks(f, j - 1, mem, p)
    BY <2>1
  <2>3. /\ f \in [0 .. j - 1 -> Words] /\ f[0] = p
        /\ \A k \in 1 .. j - 1 : f[k] = NextHeader(mem, f[k - 1])
    BY <2>1, <2>2, WalkIs
  <2> DEFINE next == [w \in Words |-> NextHeader(mem, w)]
             g == [k \in 0 .. j |-> IF k < j THEN f[k] ELSE next[f[j - 1]]]
  <2>4. \A k \in 0 .. j : g[k] = IF k = 0 THEN p ELSE next[g[k - 1]]
    <3>1. g[0] = p
      BY <1>4, <2>3
    <3>2. ASSUME NEW k \in 1 .. j - 1 PROVE g[k] = next[g[k - 1]]
      <4>1. g[k] = f[k] /\ g[k - 1] = f[k - 1] /\ f[k - 1] \in Words
        BY <2>3
      <4>. QED
        BY <4>1, <2>3
    <3>3. g[j] = next[g[j - 1]]
      BY <1>4
    <3> HIDE DEF g, next
    <3>4. \A k \in 0 .. j : k = 0 \/ k = j \/ k \in 1 .. j - 1
      OBVIOUS
    <3>. QED
      BY <3>1, <3>2, <3>3, <3>4, <1>4
  <2>5. g = [k \in 0 .. j |-> g[k]]
    OBVIOUS
  <2> HIDE DEF g
  <2>6. Walks(g, j, mem, p)
    BY <2>4, <2>5 DEF Walks
  <2>. QED
    BY <2>6, <1>2
<1>. QED
  BY <1>3, <1>4

\* HeadersFrom, the path the loops of ringbuf.c take, is such a walk.
LEMMA HeadersWalk ==
    ASSUME ~IsByteBuffer, NEW mem \in Memory, NEW p \in Words
    PROVE  Walks(HeadersFrom(mem, p), MaxHeaders, mem, p)
<1>1. MaxHeaders \in Nat
  BY ItemSize DEF MaxHeaders, rbHEADER_SIZE
<1>2. \E f : Walks(f, MaxHeaders, mem, p)
  BY <1>1, WalkExists
<1>3. HeadersFrom(mem, p) = CHOOSE f : Walks(f, MaxHeaders, mem, p)
  BY DEF HeadersFrom, Walks
<1>. QED
  BY <1>2, <1>3

\* A chain is no longer than HeadersFrom goes.
LEMMA ChainShort ==
    ASSUME ~IsByteBuffer, NEW m, NEW V, Spaced(m, V)
    PROVE  m \in 0 .. MaxHeaders /\ 8 * m <= xSize
<1>1. xSize \in Nat /\ m \in Nat
  BY ItemSize DEF Spaced
<1>2. V[1] \in Nat /\ V[m + 1] \in Nat
  BY <1>1, AddrIs DEF Spaced
<1>3. V[1] + 8 * m <= V[m + 1] /\ V[m + 1] <= V[1] + xSize
  BY <1>1 DEF Spaced
<1>4. 8 * m <= xSize
  BY <1>1, <1>2, <1>3
<1>. QED
  BY <1>1, <1>4 DEF MaxHeaders, rbHEADER_SIZE

\* The headers that HeadersFrom finds from block i on are the chain's.
LEMMA PathIs ==
    ASSUME ~IsByteBuffer, NEW mem \in Memory, NEW m, NEW V, Spaced(m, V),
           Chained(mem, m, V), NEW i \in 1 .. m + 1
    PROVE  \A k \in 0 .. m + 1 - i :
             /\ k \in 0 .. MaxHeaders
             /\ HeadersFrom(mem, ByteWrap(V[i]))[k] = ByteWrap(V[i + k])
<1>0. m \in Nat /\ m \in 0 .. MaxHeaders /\ MaxHeaders \in Nat
  <2>1. m \in Nat
    BY DEF Spaced
  <2>2. m \in 0 .. MaxHeaders
    BY ChainShort
  <2>3. MaxHeaders \in Nat
    BY ItemSize DEF MaxHeaders, rbHEADER_SIZE
  <2>. QED
    BY <2>1, <2>2, <2>3
<1>1. \A k \in 1 .. m + 1 : V[k] \in Addr /\ ByteWrap(V[k]) \in Words
  BY AddrIs DEF Spaced
<1> DEFINE f == HeadersFrom(mem, ByteWrap(V[i]))
<1>2. /\ f \in [0 .. MaxHeaders -> Words] /\ f[0] = ByteWrap(V[i])
      /\ \A k \in 1 .. MaxHeaders : f[k] = NextHeader(mem, f[k - 1])
  <2>1. Walks(f, MaxHeaders, mem, ByteWrap(V[i]))
    BY <1>1, HeadersWalk
  <2> HIDE DEF f
  <2>. QED
    BY <1>0, <1>1, <2>1, WalkIs
<1> HIDE DEF f
<1>3. \A k \in 0 .. m + 1 - i : k \in 0 .. MaxHeaders
  BY <1>0
<1>4. \A k \in 0 .. m + 1 - i : f[k] = ByteWrap(V[i + k])
  <2> DEFINE S == {k \in 0 .. m + 1 - i : f[k] # ByteWrap(V[i + k])}
  <2>1. SUFFICES ASSUME S # {} PROVE FALSE
    OBVIOUS
  <2>2. PICK k \in S : \A j \in S : k <= j
    <3>1. S \in SUBSET Nat
      BY <1>0
    <3> HIDE DEF S
    <3>. QED
      BY <2>1, <3>1, LeastNat
  <2>3. k # 0
    BY <1>0, <1>2
  <2>4. /\ k - 1 \in 0 .. m + 1 - i /\ k - 1 \notin S /\ k \in 1 .. MaxHeaders
        /\ i + k - 1 \in 1 .. m /\ i + k \in 1 .. m + 1 /\ i + k - 1 \in 1 .. m + 1
        /\ i + (k - 1) = i + k - 1 /\ (i + k - 1) + 1 = i + k
    BY <1>0, <1>3, <2>2, <2>3
  <2>5. f[k - 1] = ByteWrap(V[i + k - 1])
    BY <2>4
  <2>6. Follows(mem, V[i + k - 1], V[i + k])
    BY <2>4 DEF Chained
  <2>7. NextHeader(mem, ByteWrap(V[i + k - 1])) = ByteWrap(V[i + k])
    BY <1>1, <2>4, <2>6, NextIs
  <2>. QED
    BY <1>2, <2>2, <2>4, <2>5, <2>7
<1>. QED
  BY <1>3, <1>4 DEF f

(***************************************************************************)
(* Writing headers and data.                                               *)
(***************************************************************************)
HeaderWord == [xItemLen : Nat, uxItemFlags : SUBSET FlagNames, tag : Nat]

\* Nothing but the cells from, ..., to - 1 has changed.
Outside(mem, mem1, from, to) ==
    \A p \in Words : p < from \/ to <= p => mem1[p] = mem[p]

\* Fill writes the n cells from at on, and nothing else.
LEMMA FillIs ==
    ASSUME NEW mem \in Memory, NEW at \in Nat, NEW n \in Nat,
           NEW tag \in Nat
    PROVE  /\ Fill(mem, at, n, Word(0, {}, tag)) \in Memory
           /\ Outside(mem, Fill(mem, at, n, Word(0, {}, tag)), at, at + n)
<1>1. Word(0, {}, tag) \in HeaderWord
  BY DEF Word, HeaderWord
<1>2. Words \subseteq Int /\ xSize \in Nat
  BY SizeAssumption DEF Words
<1>. QED
  BY <1>1, <1>2 DEF Fill, Memory, HeaderWord, Outside

\* PutHeader writes a header, and nothing else.
LEMMA PutHeaderIs ==
    ASSUME NEW mem \in Memory, NEW at \in Words, NEW len \in Nat,
           NEW flags \in SUBSET FlagNames, NEW tag \in Nat
    PROVE  LET mem1 == PutHeader(mem, at, len, flags, tag)
           IN  /\ mem1 \in Memory
               /\ mem1[at] = Word(len, flags, tag)
               /\ Outside(mem, mem1, at, at + 8)
<1>0. Words \subseteq Nat
  BY SizeAssumption DEF Words
<1> DEFINE f == Fill(mem, at, rbHEADER_SIZE, Word(0, {}, tag))
           mem1 == PutHeader(mem, at, len, flags, tag)
<1>1. f \in Memory /\ Outside(mem, f, at, at + 8)
  BY <1>0, FillIs DEF rbHEADER_SIZE
<1>2. mem1 = [f EXCEPT ![at] = Word(len, flags, tag)]
  BY DEF PutHeader
<1>3. Word(len, flags, tag) \in HeaderWord
  BY DEF Word, HeaderWord
<1> HIDE DEF f, mem1
<1>4. mem1 \in Memory /\ mem1[at] = Word(len, flags, tag)
  BY <1>1, <1>2, <1>3 DEF Memory, HeaderWord
<1>5. \A p \in Words : p # at => mem1[p] = f[p]
  BY <1>1, <1>2 DEF Memory
<1>6. Outside(mem, mem1, at, at + 8)
  BY <1>0, <1>1, <1>5 DEF Outside
<1>. QED
  BY <1>4, <1>6 DEF mem1

\* The header at at has got the flags add and lost the flags remove.
Flagged(mem, mem1, at, add, remove) ==
    /\ mem1 \in Memory
    /\ \A p \in Words : p # at => mem1[p] = mem[p]
    /\ mem1[at].uxItemFlags = (mem[at].uxItemFlags \cup add) \ remove
    /\ mem1[at].xItemLen = mem[at].xItemLen
    /\ mem1[at].tag = mem[at].tag

\* SetFlags changes the flags of one header, and nothing else.
LEMMA SetFlagsIs ==
    ASSUME NEW mem \in Memory, NEW at \in Words,
           NEW add \in SUBSET FlagNames, NEW remove, NEW mem1,
           mem1 = SetFlags(mem, at, add, remove)
    PROVE  Flagged(mem, mem1, at, add, remove)
<1> DEFINE w == [mem[at] EXCEPT !.uxItemFlags = (@ \cup add) \ remove]
<1>1. mem1 = [mem EXCEPT ![at] = w]
  BY DEF SetFlags
<1>2. mem[at] \in HeaderWord
  BY DEF Memory, HeaderWord
<1>3. /\ w \in HeaderWord
      /\ w.uxItemFlags = (mem[at].uxItemFlags \cup add) \ remove
      /\ w.xItemLen = mem[at].xItemLen /\ w.tag = mem[at].tag
  BY <1>2 DEF HeaderWord
<1> HIDE DEF w
<1>4. mem1 \in Memory /\ mem1[at] = w /\ \A p \in Words : p # at => mem1[p] = mem[p]
  BY <1>1, <1>3 DEF Memory, HeaderWord
<1>. QED
  BY <1>3, <1>4 DEF Flagged

\* Where the next block is, for a block that ends at e of the storage.
After(v, e) ==
    (v - ByteWrap(v)) + (IF xSize - e < rbHEADER_SIZE THEN xSize ELSE e)

Push(m, V, u) == [k \in 1 .. m + 2 |-> IF k = m + 2 THEN u ELSE V[k]]

\* The headers of the chain are not in the space behind it.
LEMMA HeadersSpared ==
    ASSUME ~IsByteBuffer, NEW m, NEW V, Spaced(m, V),
           NEW e \in Nat, e <= xSize, After(V[m + 1], e) <= V[1] + xSize,
           NEW k \in 1 .. m
    PROVE  ByteWrap(V[k]) < ByteWrap(V[m + 1]) \/ e <= ByteWrap(V[k])
<1>1. xSize \in Nat /\ xSize >= 16 /\ m \in Nat /\ m + 1 \in 1 .. m + 1
      /\ k \in 1 .. m + 1 /\ 1 \in 1 .. m + 1
  BY ItemSize DEF Spaced
<1>2. V[1] \in Addr /\ V[k] \in Addr /\ V[m + 1] \in Addr
  BY <1>1 DEF Spaced
<1>3. PICK a, b, c \in Nat : a = V[1] /\ b = V[k] /\ c = V[m + 1]
  BY <1>2, AddrIs
<1>4. a < xSize /\ a <= b /\ b + 8 <= c /\ c <= a + xSize
  <2>1. V[1] + 8 * (k - 1) <= V[k] /\ V[k] + 8 * (m + 1 - k) <= V[m + 1]
    BY <1>1 DEF Spaced
  <2>2. V[1] < xSize /\ V[m + 1] <= V[1] + xSize
    BY DEF Spaced
  <2>3. k - 1 >= 0 /\ m + 1 - k >= 1 /\ k \in Nat
    BY <1>1
  <2>. QED
    BY <1>1, <1>3, <2>1, <2>2, <2>3
<1>5. (c - ByteWrap(c)) + (IF xSize - e < 8 THEN xSize ELSE e) <= a + xSize
  BY <1>3 DEF After, rbHEADER_SIZE
<1>6. ByteWrap(b) < ByteWrap(c) \/ e <= ByteWrap(b)
  BY <1>1, <1>3, <1>4, <1>5 DEF ByteWrap
<1>. QED
  BY <1>3, <1>6

\* A block that ends at e, short of the first one, may be put behind the chain.
LEMMA PushSpaced ==
    ASSUME ~IsByteBuffer, NEW m, NEW V, Spaced(m, V),
           NEW e \in Nat, e <= xSize, e % 4 = 0, ByteWrap(V[m + 1]) + 8 <= e,
           After(V[m + 1], e) <= V[1] + xSize
    PROVE  /\ Spaced(m + 1, Push(m, V, After(V[m + 1], e)))
           /\ V[m + 1] + 8 <= After(V[m + 1], e)
<1>1. xSize \in Nat /\ xSize % 4 = 0 /\ xSize >= 16 /\ m \in Nat
      /\ m + 1 \in 1 .. m + 1 /\ 1 \in 1 .. m + 1
  BY ItemSize DEF Spaced
<1>2. V[1] \in Addr /\ V[m + 1] \in Addr
  BY <1>1 DEF Spaced
<1>3. PICK a, c \in Nat : a = V[1] /\ c = V[m + 1] /\ c % 4 = 0 /\ c < 2 * xSize
  BY <1>2, AddrIs
<1>4. a < xSize /\ c <= a + xSize
  BY <1>3 DEF Spaced
<1>5. PICK u : u = After(V[m + 1], e)
  OBVIOUS
<1>6. u = (c - ByteWrap(c)) + (IF xSize - e < 8 THEN xSize ELSE e)
      /\ u <= a + xSize /\ ByteWrap(c) + 8 <= e
  BY <1>3, <1>5 DEF After, rbHEADER_SIZE
<1>7. /\ u \in Nat /\ c + 8 <= u /\ u % 4 = 0
      /\ u < 2 * xSize /\ ByteWrap(u) + 8 <= xSize
  <2>1. PICK x \in {0, xSize} : ByteWrap(c) = c - x /\ x = c - ByteWrap(c)
    BY <1>1, <1>3 DEF ByteWrap
  <2>2. PICK y \in Nat : /\ y = IF xSize - e < 8 THEN xSize ELSE e
                         /\ y % 4 = 0 /\ e <= y
                         /\ y = xSize \/ y + 8 <= xSize
    BY <1>1
  <2>3. x \in Nat /\ u = x + y /\ c - x + 8 <= e /\ u <= a + xSize
    BY <1>1, <1>6, <2>1, <2>2
  <2>4. u \in Nat /\ c + 8 <= u /\ u < 2 * xSize
    <3>1. e <= y /\ a < xSize /\ xSize \in Nat
      BY <1>1, <1>4, <2>2
    <3>. QED
      BY <2>3, <3>1
  <2>5. CASE x = 0
    BY <1>1, <2>2, <2>3, <2>4, <2>5 DEF ByteWrap
  <2>6. CASE x = xSize
    BY <1>1, <2>2, <2>3, <2>4, <2>6 DEF ByteWrap
  <2>. QED
    BY <2>1, <2>4, <2>5, <2>6
<1>9. u \in Addr
  BY <1>1, <1>7 DEF Addr, rbHEADER_SIZE
<1> DEFINE W == Push(m, V, u)
<1>10. (m + 1) + 1 = m + 2 /\ W \in [1 .. m + 2 -> Addr]
  BY <1>1, <1>9 DEF Push, Spaced
<1>11. W[m + 2] = u /\ \A k \in 1 .. m + 1 : W[k] = V[k]
  BY <1>1 DEF Push
<1> HIDE DEF W
<1>12. ASSUME NEW j \in 1 .. m + 2, NEW k \in 1 .. m + 2, j <= k
       PROVE  W[j] + 8 * (k - j) <= W[k]
  <2>1. CASE k \in 1 .. m + 1
    <3>1. j \in 1 .. m + 1
      BY <1>1, <1>12, <2>1
    <3>2. V[j] + 8 * (k - j) <= V[k]
      BY <1>12, <2>1, <3>1 DEF Spaced
    <3>. QED
      BY <1>11, <2>1, <3>1, <3>2
  <2>2. CASE k = m + 2 /\ j = m + 2
    BY <1>1, <1>7, <1>11, <2>2
  <2>3. CASE k = m + 2 /\ j \in 1 .. m + 1
    <3>1. PICK b \in Nat : b = V[j]
      BY <2>3, AddrIs DEF Spaced
    <3>2. b + 8 * (m + 1 - j) <= c
      BY <1>1, <1>3, <2>3, <3>1 DEF Spaced
    <3>3. b + 8 * (m + 2 - j) <= u
      <4>1. j \in Nat /\ 8 * (m + 2 - j) = 8 * (m + 1 - j) + 8
        BY <1>1, <2>3
      <4>. QED
        BY <1>1, <1>3, <1>7, <3>1, <3>2, <4>1
    <3>. QED
      <4>1. W[k] = u /\ W[j] = b /\ k - j = m + 2 - j
        BY <1>1, <1>11, <2>3, <3>1
      <4>. QED
        BY <3>3, <4>1
  <2>. QED
    BY <1>1, <2>1, <2>2, <2>3
<1>13. Spaced(m + 1, W)
  BY <1>1, <1>3, <1>4, <1>6, <1>10, <1>11, <1>12 DEF Spaced
<1>. QED
  BY <1>3, <1>5, <1>7, <1>13 DEF W

\* A header that has not changed belongs to the same block.
LEMMA SameHeader ==
    ASSUME NEW mem, NEW mem1, NEW v, mem1[ByteWrap(v)] = mem[ByteWrap(v)]
    PROVE  /\ Flags(mem1, v) = Flags(mem, v) /\ SizeAt(mem1, v) = SizeAt(mem, v)
           /\ TagAt(mem1, v) = TagAt(mem, v)
           /\ Dummy(mem1, v) = Dummy(mem, v) /\ Live(mem1, v) = Live(mem, v)
           /\ \A u : Follows(mem1, v, u) = Follows(mem, v, u)
BY DEF Flags, SizeAt, TagAt, Dummy, Live, Follows

\* A block is written behind the chain: the blocks of the chain are as before.
LEMMA PushChained ==
    ASSUME ~IsByteBuffer, NEW mem, NEW mem1, NEW m, NEW V,
           Spaced(m, V), Chained(mem, m, V),
           NEW e \in Nat, e <= xSize, e % 4 = 0, ByteWrap(V[m + 1]) + 8 <= e,
           After(V[m + 1], e) <= V[1] + xSize,
           Outside(mem, mem1, ByteWrap(V[m + 1]), e),
           Follows(mem1, V[m + 1], After(V[m + 1], e))
    PROVE  /\ Chained(mem1, m + 1, Push(m, V, After(V[m + 1], e)))
           /\ \A k \in 1 .. m : mem1[ByteWrap(V[k])] = mem[ByteWrap(V[k])]
<1>1. m \in Nat
  BY DEF Spaced
<1>2. \A k \in 1 .. m : mem1[ByteWrap(V[k])] = mem[ByteWrap(V[k])]
  <2>1. TAKE k \in 1 .. m
  <2>2. ByteWrap(V[k]) < ByteWrap(V[m + 1]) \/ e <= ByteWrap(V[k])
    BY HeadersSpared
  <2>3. ByteWrap(V[k]) \in Words
    BY <1>1, AddrIs DEF Spaced
  <2>. QED
    BY <2>2, <2>3 DEF Outside
<1> DEFINE u == After(V[m + 1], e)
           W == Push(m, V, u)
<1>3. W[m + 2] = u /\ \A k \in 1 .. m + 1 : W[k] = V[k]
  BY <1>1 DEF Push
<1> HIDE DEF W
<1>4. ASSUME NEW k \in 1 .. m + 1 PROVE Follows(mem1, W[k], W[k + 1])
  <2>1. CASE k = m + 1
    BY <1>1, <1>3, <2>1
  <2>2. CASE k \in 1 .. m
    <3>1. Follows(mem, V[k], V[k + 1])
      BY <2>2 DEF Chained
    <3>2. Follows(mem1, V[k], V[k + 1])
      <4>1. mem1[ByteWrap(V[k])] = mem[ByteWrap(V[k])]
        BY <1>2, <2>2
      <4>. QED
        BY <3>1, <4>1, SameHeader
    <3>. QED
      BY <1>1, <1>3, <2>2, <3>2
  <2>. QED
    BY <1>1, <2>1, <2>2
<1>. QED
  BY <1>2, <1>4 DEF Chained, W

\* The block that follows a header of n bytes at v.
LEMMA ItemFollows ==
    ASSUME NEW mem, NEW v, ~Dummy(mem, v),
           ByteWrap(v) + 8 + rbALIGN_SIZE(SizeAt(mem, v)) <= xSize
    PROVE  Follows(mem, v, After(v, ByteWrap(v) + 8 + rbALIGN_SIZE(SizeAt(mem, v))))
BY DEF Follows, After, rbHEADER_SIZE

\* A dummy block reaches to the tail.
LEMMA DummyFollows ==
    ASSUME ~IsByteBuffer, NEW mem, NEW v \in Nat, Dummy(mem, v), v < xSize
    PROVE  Follows(mem, v, After(v, xSize)) /\ After(v, xSize) = xSize
<1>1. xSize \in Nat
  BY ItemSize
<1>. QED
  BY <1>1 DEF Follows, After, ByteWrap, rbHEADER_SIZE

(***************************************************************************)
(* The control block, and blocks put behind the chain.                     *)
(***************************************************************************)
ItemBlock ==
    [acquire : Words, write : Words, read : Words, free : Words,
     full : BOOLEAN, waiting : Nat, mem : Memory]

\* The fields of the control block of a buffer of items.
LEMMA ItemBlockFields ==
    ASSUME NEW b \in ItemBlock
    PROVE  /\ b.acquire \in Words /\ b.write \in Words /\ b.read \in Words
           /\ b.free \in Words /\ b.full \in BOOLEAN /\ b.waiting \in Nat
           /\ b.mem \in Memory
BY DEF ItemBlock

\* Where the chain begins and ends.
Ends(b, m, V) ==
    /\ b.free = V[1] /\ b.acquire = ByteWrap(V[m + 1])
    /\ b.full <=> V[m + 1] = V[1] + xSize

\* An item of xMaxItemSize bytes takes no more than half of a no-split buffer.
LEMMA HalfFits ==
    ASSUME xBufferType = "NOSPLIT", NEW n \in 0 .. xMaxItemSize,
           NEW p \in Nat, p % 4 = 0, p < xSize,
           xSize - p < rbALIGN_SIZE(n) + 8
    PROVE  rbALIGN_SIZE(n) + 8 <= p
<1>1. xSize \in Nat /\ xSize % 4 = 0 /\ xSize >= 16
  BY ItemSize DEF IsByteBuffer
<1>2. PICK q \in Nat : xSize = 4 * q
  BY <1>1
<1>3. xMaxItemSize = ((2 * q + 3) \div 4) * 4 - 8
  BY <1>2 DEF xMaxItemSize, rbALIGN_SIZE, rbHEADER_SIZE
<1>4. PICK t \in Nat : t = (n + 3) \div 4 /\ rbALIGN_SIZE(n) = 4 * t
  BY <1>1, <1>2, <1>3 DEF rbALIGN_SIZE
<1>5. PICK h \in Nat : h = (2 * q + 3) \div 4 /\ 2 * h <= q + 1
  BY <1>2
<1>6. t + 2 <= h
  BY <1>3, <1>4, <1>5
<1>7. PICK z \in Nat : p = 4 * z
  OBVIOUS
<1>8. q - z < t + 2
  BY <1>2, <1>4, <1>7
<1>9. t + 2 <= z
  BY <1>2, <1>5, <1>6, <1>7, <1>8
<1>. QED
  BY <1>4, <1>7, <1>9

\* Two pieces of an allow-split buffer have room for the largest item.
LEMMA SplitFits ==
    ASSUME xBufferType = "ALLOWSPLIT", NEW n \in 0 .. xMaxItemSize
    PROVE  rbALIGN_SIZE(n) + 16 <= xSize
<1>1. xSize \in Nat /\ xSize % 4 = 0 /\ xSize >= 16
  BY ItemSize DEF IsByteBuffer
<1>2. n \in Nat /\ n + 16 <= xSize
  BY <1>1 DEF xMaxItemSize, rbHEADER_SIZE
<1>. QED
  BY <1>1, <1>2 DEF rbALIGN_SIZE

\* prvCheckItemFitsDefault lets in what has room: in one piece before the
\* tail, or else at the head.
LEMMA FitsWhere ==
    ASSUME ~IsByteBuffer, NEW b \in ItemBlock, NEW m, NEW V, Spaced(m, V),
           Ends(b, m, V), NEW n \in 0 .. xMaxItemSize,
           prvCheckItemFitsDefault(b, n)
    PROVE  /\ ~b.full
           /\ IF b.acquire + 8 + rbALIGN_SIZE(n) <= xSize
              THEN After(V[m + 1], b.acquire + 8 + rbALIGN_SIZE(n)) <= V[1] + xSize
              ELSE /\ V[m + 1] = b.acquire
                   /\ IF xBufferType = "NOSPLIT" THEN rbALIGN_SIZE(n) + 8 <= V[1]
                      ELSE rbALIGN_SIZE(n) + 16 <= V[1] + (xSize - b.acquire)
<1>1. xSize \in Nat /\ xSize % 4 = 0 /\ xSize >= 16 /\ m \in Nat
      /\ m + 1 \in 1 .. m + 1 /\ 1 \in 1 .. m + 1
  BY ItemSize DEF Spaced
<1>2. V[1] \in Addr /\ V[m + 1] \in Addr
  BY <1>1 DEF Spaced
<1>3. PICK f, v \in Nat : f = V[1] /\ v = V[m + 1] /\ v % 4 = 0 /\ v < 2 * xSize
                         /\ f % 4 = 0 /\ ByteWrap(f) + 8 <= xSize
  BY <1>2, AddrIs
<1>4. f < xSize /\ f <= v /\ v <= f + xSize /\ f + 8 <= xSize
  <2>1. V[1] + 8 * ((m + 1) - 1) <= V[m + 1]
    BY <1>1 DEF Spaced
  <2>2. f < xSize /\ v <= f + xSize
    BY <1>3 DEF Spaced
  <2>. QED
    BY <1>1, <1>3, <2>1, <2>2 DEF ByteWrap
<1>5. PICK p \in Nat : p = b.acquire /\ p = ByteWrap(v) /\ p + 8 <= xSize
                       /\ p = (IF v < xSize THEN v ELSE v - xSize)
  BY <1>2, <1>3, AddrIs DEF Ends
<1>6. b.free = f /\ (b.full <=> v = f + xSize)
  BY <1>3 DEF Ends
<1>7. n \in Nat
  BY <1>1 DEF xMaxItemSize, rbHEADER_SIZE
<1>8. PICK a \in Nat : a = rbALIGN_SIZE(n)
  BY <1>7, AlignIs
<1>9. IF p = f THEN ~b.full
      ELSE IF f > p THEN a + 8 <= f - p
      ELSE \/ a + 8 <= xSize - p
           \/ IF xBufferType = "ALLOWSPLIT"
              THEN a + 16 <= xSize - (p - f)
              ELSE a + 8 <= f
  <2>1. a + 8 + 8 = a + 16
    BY <1>8
  <2>. QED
    BY <1>5, <1>6, <1>8, <2>1 DEF prvCheckItemFitsDefault, rbHEADER_SIZE
<1>10. ~b.full
  BY <1>1, <1>4, <1>5, <1>6, <1>9
<1>11. v # f + xSize
  BY <1>6, <1>10
<1>12. CASE p + 8 + a <= xSize
  <2>1. (v - p) + (IF xSize - (p + 8 + a) < 8 THEN xSize ELSE p + 8 + a)
          <= f + xSize
    BY <1>1, <1>4, <1>5, <1>9, <1>11, <1>12
  <2>. QED
    BY <1>3, <1>5, <1>8, <1>10, <1>12, <2>1 DEF After, rbHEADER_SIZE
<1>13. CASE ~(p + 8 + a <= xSize)
  <2>1. v = p
    BY <1>1, <1>4, <1>5, <1>9, <1>11, <1>13
  <2>2. CASE p = f
    <3>1. xBufferType = "NOSPLIT" => a + 8 <= f
      <4>1. f \in Nat /\ f % 4 = 0 /\ f < xSize /\ xSize - f < a + 8
        BY <1>1, <1>3, <1>4, <1>13, <2>2
      <4>. QED
        BY <1>8, <4>1, HalfFits
    <3>2. xBufferType = "ALLOWSPLIT" => a + 16 <= xSize
      BY <1>8, SplitFits
    <3>. QED
      BY <1>1, <1>3, <1>5, <1>8, <1>10, <1>13, <2>1, <2>2, <3>1, <3>2,
         TypeAssumption DEF IsByteBuffer
  <2>3. CASE p # f
    <3>1. xBufferType = "NOSPLIT" => a + 8 <= f
      BY <1>1, <1>4, <1>5, <1>9, <1>13, <2>3
    <3>2. xBufferType = "ALLOWSPLIT" => a + 16 <= f + (xSize - p)
      BY <1>1, <1>4, <1>5, <1>9, <1>13, <2>3
    <3>. QED
      BY <1>3, <1>5, <1>8, <1>10, <1>13, <2>1, <3>1, <3>2,
         TypeAssumption DEF IsByteBuffer
  <2>. QED
    BY <2>2, <2>3
<1>. QED
  BY <1>5, <1>8, <1>12, <1>13

\* In a chain of one block or more, equal ends mean a full buffer.
LEMMA FullIs ==
    ASSUME ~IsByteBuffer, NEW m, NEW V, Spaced(m, V), m > 0
    PROVE  ByteWrap(V[m + 1]) = V[1] <=> V[m + 1] = V[1] + xSize
<1>1. xSize \in Nat /\ xSize >= 16 /\ m \in Nat
      /\ m + 1 \in 1 .. m + 1 /\ 1 \in 1 .. m + 1
  BY ItemSize DEF Spaced
<1>2. PICK f, v \in Nat : f = V[1] /\ v = V[m + 1]
  BY <1>1, AddrIs DEF Spaced
<1>3. f < xSize /\ v <= f + xSize /\ f + 8 <= v
  <2>1. V[1] + 8 * ((m + 1) - 1) <= V[m + 1]
    BY <1>1 DEF Spaced
  <2>2. f < xSize /\ v <= f + xSize
    BY <1>2 DEF Spaced
  <2>. QED
    BY <1>1, <1>2, <2>1, <2>2
<1>. QED
  BY <1>1, <1>2, <1>3 DEF ByteWrap

\* The acquire pointer after a block that ends at e.
LEMMA AfterIs ==
    ASSUME ~IsByteBuffer, NEW v \in Addr, NEW e \in Nat, e <= xSize,
           After(v, e) < 2 * xSize
    PROVE  ByteWrap(After(v, e)) = WrapHeader(e)
<1>1. xSize \in Nat /\ xSize >= 16
  BY ItemSize
<1>2. v \in Nat /\ v < 2 * xSize
  BY AddrIs
<1>3. PICK x \in {0, xSize} : x = v - ByteWrap(v)
  BY <1>1, <1>2 DEF ByteWrap
<1>4. After(v, e) = x + (IF xSize - e < 8 THEN xSize ELSE e)
  BY <1>3 DEF After, rbHEADER_SIZE
<1>. QED
  BY <1>1, <1>3, <1>4 DEF WrapHeader, ByteWrap, rbHEADER_SIZE

\* The chain of m blocks has become one of m1, at V1, behind the same blocks.
Grown(mem, mem1, m, V, m1, V1) ==
    /\ m1 \in {m + 1, m + 2} /\ Spaced(m1, V1) /\ Chained(mem1, m1, V1)
    /\ \A k \in 1 .. m + 1 : V1[k] = V[k]
    /\ \A k \in 1 .. m : mem1[ByteWrap(V[k])] = mem[ByteWrap(V[k])]

\* A block that ends at e is written behind the chain.
OneMore(mem, mem1, m, V, e) ==
    /\ Spaced(m, V) /\ Chained(mem, m, V)
    /\ e \in Nat /\ e <= xSize
    /\ e = ByteWrap(V[m + 1]) + 8 + rbALIGN_SIZE(SizeAt(mem1, V[m + 1]))
    /\ SizeAt(mem1, V[m + 1]) \in Nat /\ ~Dummy(mem1, V[m + 1])
    /\ After(V[m + 1], e) <= V[1] + xSize
    /\ Outside(mem, mem1, ByteWrap(V[m + 1]), e)

\* One block more behind the chain.
LEMMA GrowOne ==
    ASSUME ~IsByteBuffer, NEW mem, NEW mem1, NEW m, NEW V, NEW e,
           OneMore(mem, mem1, m, V, e)
    PROVE  LET V1 == Push(m, V, After(V[m + 1], e))
           IN  /\ Grown(mem, mem1, m, V, m + 1, V1)
               /\ ByteWrap(V1[m + 2]) = WrapHeader(e)
<1> USE DEF OneMore
<1>1. m \in Nat /\ m + 1 \in 1 .. m + 1
  BY DEF Spaced
<1>2. V[m + 1] \in Addr /\ V[1] \in Addr /\ V[1] < xSize
  BY <1>1 DEF Spaced
<1>3. e % 4 = 0 /\ ByteWrap(V[m + 1]) + 8 <= e
  <2>1. PICK a \in Nat : a = rbALIGN_SIZE(SizeAt(mem1, V[m + 1])) /\ a % 4 = 0
    BY AlignIs
  <2>2. PICK p \in Nat : p = ByteWrap(V[m + 1]) /\ p % 4 = 0
    BY <1>2, AddrIs DEF Words
  <2>. QED
    BY <2>1, <2>2
<1>4. Follows(mem1, V[m + 1], After(V[m + 1], e))
  BY ItemFollows
<1> DEFINE V1 == Push(m, V, After(V[m + 1], e))
<1>5. Spaced(m + 1, V1)
  BY <1>3, PushSpaced
<1>6. /\ Chained(mem1, m + 1, V1)
      /\ \A k \in 1 .. m : mem1[ByteWrap(V[k])] = mem[ByteWrap(V[k])]
  BY <1>3, <1>4, PushChained
<1>7. V1[m + 2] = After(V[m + 1], e) /\ \A k \in 1 .. m + 1 : V1[k] = V[k]
  BY <1>1 DEF Push
<1>8. ByteWrap(V1[m + 2]) = WrapHeader(e)
  <2>1. V1[m + 2] \in Addr
    BY <1>1, <1>5 DEF Spaced
  <2>2. After(V[m + 1], e) < 2 * xSize
    BY <1>7, <2>1, AddrIs
  <2>. QED
    BY <1>2, <1>7, <2>2, AfterIs
<1>. QED
  BY <1>5, <1>6, <1>7, <1>8 DEF Grown

\* The block before the tail is a dummy or a first part; the next one is at
\* the head and ends at e.
TwoMore(mem, mem1, mem2, m, V, e) ==
    /\ Spaced(m, V) /\ Chained(mem, m, V)
    /\ V[m + 1] < xSize /\ Outside(mem, mem1, V[m + 1], xSize)
    /\ Follows(mem1, V[m + 1], xSize)
    /\ e \in Nat /\ e <= V[1] /\ e = 8 + rbALIGN_SIZE(SizeAt(mem2, 0))
    /\ SizeAt(mem2, 0) \in Nat /\ ~Dummy(mem2, 0)
    /\ Outside(mem1, mem2, 0, e)

\* Two blocks more: one up to the tail and one from the head on.
LEMMA GrowTwo ==
    ASSUME ~IsByteBuffer, NEW mem, NEW mem1, NEW mem2, NEW m, NEW V, NEW e,
           TwoMore(mem, mem1, mem2, m, V, e)
    PROVE  \E V1 : /\ Grown(mem, mem2, m, V, m + 2, V1)
                   /\ V1[m + 2] = xSize
                   /\ ByteWrap(V1[m + 3]) = WrapHeader(e)
                   /\ mem2[V[m + 1]] = mem1[V[m + 1]]
<1> USE DEF TwoMore
<1>1. m \in Nat /\ m + 1 \in 1 .. m + 1 /\ 1 \in 1 .. m + 1
  BY DEF Spaced
<1>2. xSize \in Nat /\ xSize % 4 = 0 /\ xSize >= 16
  BY ItemSize
<1>3. V[m + 1] \in Addr /\ V[1] \in Addr /\ V[1] < xSize
  BY <1>1 DEF Spaced
<1>4. PICK f, v \in Nat : f = V[1] /\ v = V[m + 1] /\ f + 8 <= xSize
                         /\ v + 8 <= xSize /\ f <= v
  <2>1. V[1] + 8 * ((m + 1) - 1) <= V[m + 1]
    BY <1>1 DEF Spaced
  <2>2. PICK f, v \in Nat : f = V[1] /\ v = V[m + 1] /\ f + 8 <= xSize
                            /\ v + 8 <= xSize
    BY <1>3, AddrIs
  <2>3. f <= v
    BY <1>1, <2>1, <2>2
  <2>. QED
    BY <2>2, <2>3
<1>5. ByteWrap(V[m + 1]) = V[m + 1] /\ After(V[m + 1], xSize) = xSize
  BY <1>2, <1>4 DEF ByteWrap, After, rbHEADER_SIZE
<1>6. xSize <= V[1] + xSize
  BY <1>2, <1>4
<1> DEFINE V1 == Push(m, V, xSize)
<1>7. Spaced(m + 1, V1)
  BY <1>2, <1>4, <1>5, <1>6, PushSpaced
<1>8. /\ Chained(mem1, m + 1, V1)
      /\ \A k \in 1 .. m : mem1[ByteWrap(V[k])] = mem[ByteWrap(V[k])]
  BY <1>2, <1>4, <1>5, <1>6, PushChained
<1>9. V1[m + 2] = xSize /\ \A k \in 1 .. m + 1 : V1[k] = V[k]
  BY <1>1 DEF Push
<1> HIDE DEF V1
<1>10. ByteWrap(xSize) = 0 /\ (m + 1) + 1 = m + 2 /\ (m + 1) + 2 = m + 3
  BY <1>1, <1>2 DEF ByteWrap
<1>11. SizeAt(mem2, xSize) = SizeAt(mem2, 0) /\ Dummy(mem2, xSize) = Dummy(mem2, 0)
  BY <1>2, <1>10 DEF SizeAt, Dummy, Flags, ByteWrap
<1>12. After(xSize, e) <= V1[1] + xSize
  BY <1>1, <1>2, <1>4, <1>9, <1>10 DEF After, rbHEADER_SIZE
<1>13. e <= xSize /\ e = 0 + 8 + rbALIGN_SIZE(SizeAt(mem2, xSize))
  <2>1. PICK a \in Nat : a = rbALIGN_SIZE(SizeAt(mem2, 0))
    BY AlignIs
  <2>. QED
    BY <1>2, <1>4, <1>11, <2>1
<1> DEFINE V2 == Push(m + 1, V1, After(xSize, e))
<1>14. /\ Grown(mem1, mem2, m + 1, V1, (m + 1) + 1, V2)
       /\ ByteWrap(V2[(m + 1) + 2]) = WrapHeader(e)
  <2> DEFINE n == m + 1
  <2>1. V1[n + 1] = xSize /\ ByteWrap(V1[n + 1]) = 0
    BY <1>9, <1>10
  <2>2. Spaced(n, V1) /\ Chained(mem1, n, V1)
    BY <1>7, <1>8
  <2>3. SizeAt(mem2, V1[n + 1]) \in Nat /\ ~Dummy(mem2, V1[n + 1])
    BY <1>11, <2>1
  <2>4. e = ByteWrap(V1[n + 1]) + 8 + rbALIGN_SIZE(SizeAt(mem2, V1[n + 1]))
    BY <1>13, <2>1
  <2>5. After(V1[n + 1], e) <= V1[1] + xSize
    BY <1>12, <2>1
  <2>6. Outside(mem1, mem2, ByteWrap(V1[n + 1]), e)
    BY <2>1
  <2>7. V2 = Push(n, V1, After(V1[n + 1], e))
    BY <2>1
  <2> HIDE DEF V2, n
  <2>8. /\ Grown(mem1, mem2, n, V1, n + 1, V2)
        /\ ByteWrap(V2[n + 2]) = WrapHeader(e)
    <3>1. OneMore(mem1, mem2, n, V1, e)
      BY <1>13, <2>2, <2>3, <2>4, <2>5, <2>6 DEF OneMore
    <3>. QED
      BY <2>7, <3>1, GrowOne
  <2>. QED
    BY <2>8 DEF n
<1> HIDE DEF V2
<1>15. /\ Spaced(m + 2, V2) /\ Chained(mem2, m + 2, V2)
       /\ \A k \in 1 .. m + 2 : V2[k] = V1[k]
       /\ \A k \in 1 .. m + 1 : mem2[ByteWrap(V1[k])] = mem1[ByteWrap(V1[k])]
  BY <1>10, <1>14 DEF Grown
<1>16. /\ V2[m + 2] = xSize /\ mem2[V[m + 1]] = mem1[V[m + 1]]
       /\ \A k \in 1 .. m + 1 : V2[k] = V[k]
       /\ \A k \in 1 .. m : mem2[ByteWrap(V[k])] = mem[ByteWrap(V[k])]
  BY <1>1, <1>5, <1>8, <1>9, <1>15
<1>17. Grown(mem, mem2, m, V, m + 2, V2)
  BY <1>15, <1>16 DEF Grown
<1>. QED
  BY <1>10, <1>14, <1>16, <1>17

(***************************************************************************)
(* Acquiring an item of a no-split buffer.                                 *)
(***************************************************************************)
\* What is unchanged outside some cells is so outside more of them.
LEMMA OutsideMore ==
    ASSUME NEW mem, NEW mem1, NEW x, NEW y \in Int, NEW z \in Int, y <= z,
           Outside(mem, mem1, x, y)
    PROVE  Outside(mem, mem1, x, z)
<1>1. Words \subseteq Int
  BY SizeAssumption DEF Words
<1>2. \A p \in Words : z <= p => y <= p
  BY <1>1
<1>. QED
  BY <1>2 DEF Outside

\* The fields of a header just written.
LEMMA WordIs ==
    ASSUME NEW mem, NEW v, NEW len, NEW flags, NEW tag,
           mem[ByteWrap(v)] = Word(len, flags, tag)
    PROVE  /\ SizeAt(mem, v) = len /\ Flags(mem, v) = flags /\ TagAt(mem, v) = tag
           /\ Dummy(mem, v) <=> "DUMMY" \in flags
BY DEF SizeAt, Flags, TagAt, Dummy, Word

\* What prvAcquireItemNoSplit leaves alone.
LEMMA AcquireFields ==
    ASSUME NEW b \in ItemBlock, NEW n, NEW tag, NEW b1,
           b1 = prvAcquireItemNoSplit(b, n, tag)
    PROVE  /\ b1.write = b.write /\ b1.read = b.read /\ b1.free = b.free
           /\ b1.waiting = b.waiting
           /\ b1.acquire = WrapHeader(AcquiredItem(b, n) + rbALIGN_SIZE(n))
           /\ b1.full = (b.full \/ b1.acquire = b.free)
           /\ b1 \in [acquire : {b1.acquire}, write : Words, read : Words,
                      free : Words, full : BOOLEAN, waiting : Nat, mem : {b1.mem}]
BY DEF prvAcquireItemNoSplit, ItemBlock

\* prvAcquireItemNoSplit puts one block behind the chain, or a dummy up to the
\* tail and a block at the head.
LEMMA AcquireGrows ==
    ASSUME xBufferType = "NOSPLIT", NEW b \in ItemBlock, NEW m, NEW V,
           Spaced(m, V), Chained(b.mem, m, V), Ends(b, m, V),
           NEW n \in 0 .. xMaxItemSize, prvCheckItemFitsDefault(b, n),
           NEW tag \in Nat, NEW b1, b1 = prvAcquireItemNoSplit(b, n, tag)
    PROVE  /\ b1 \in ItemBlock
           /\ \E m1, V1 :
                /\ Grown(b.mem, b1.mem, m, V, m1, V1) /\ Ends(b1, m1, V1)
                /\ ByteWrap(V1[m1]) + 8 = AcquiredItem(b, n)
                /\ b1.mem[ByteWrap(V1[m1])] = Word(n, {}, tag)
                /\ m1 = m + 2 =>
                     b1.mem[ByteWrap(V1[m + 1])] = Word(0, {"DUMMY"}, tag)
<1>0. ~IsByteBuffer
  BY DEF IsByteBuffer
<1>1. xSize \in Nat /\ xSize % 4 = 0 /\ xSize >= 16 /\ m \in Nat
      /\ m + 1 \in 1 .. m + 1 /\ 1 \in 1 .. m + 1
  BY <1>0, ItemSize DEF Spaced
<1>2. PICK p \in Words : p = b.acquire /\ p \in Nat /\ p = ByteWrap(V[m + 1])
                         /\ p + 8 <= xSize
  BY <1>0, <1>1, AddrIs DEF Spaced, Ends
<1>3. PICK f \in Nat : f = V[1] /\ f = b.free /\ f < xSize
  BY <1>0, <1>1, AddrIs DEF Spaced, Ends
<1>4. n \in Nat
  BY <1>1 DEF xMaxItemSize, rbHEADER_SIZE
<1>5. PICK a \in Nat : a = rbALIGN_SIZE(n) /\ a % 4 = 0
  BY <1>4, AlignIs
<1>6. ~b.full
  BY <1>0, FitsWhere
<1>7. b.mem \in Memory
  BY DEF ItemBlock
<1>8. /\ b1.write = b.write /\ b1.read = b.read /\ b1.free = b.free
      /\ b1.acquire = WrapHeader(AcquiredItem(b, n) + a)
      /\ b1.full = (b.full \/ b1.acquire = b.free)
      /\ b1 \in [acquire : {b1.acquire}, write : Words, read : Words,
                 free : Words, full : BOOLEAN, waiting : Nat, mem : {b1.mem}]
  BY <1>5, AcquireFields
<1>9. SUFFICES ASSUME NEW m1, NEW V1, Grown(b.mem, b1.mem, m, V, m1, V1),
                      b1.mem \in Memory,
                      ByteWrap(V1[m1 + 1]) = b1.acquire,
                      ByteWrap(V1[m1]) + 8 = AcquiredItem(b, n),
                      b1.mem[ByteWrap(V1[m1])] = Word(n, {}, tag),
                      m1 = m + 2 =>
                        b1.mem[ByteWrap(V1[m + 1])] = Word(0, {"DUMMY"}, tag)
               PROVE  b1 \in ItemBlock /\ Ends(b1, m1, V1)
  <2>1. CASE p + 8 + a <= xSize
    <3>1. AcquiredItem(b, n) = p + 8
      BY <1>1, <1>2, <1>5, <2>1 DEF AcquiredItem, rbHEADER_SIZE
    <3>2. b1.mem = PutHeader(b.mem, p, n, {}, tag)
      <4>1. p + 8 - 8 = p
        BY <1>2
      <4>. QED
        BY <1>2, <3>1, <4>1 DEF prvAcquireItemNoSplit, rbHEADER_SIZE, ItemBlock
    <3>3. /\ b1.mem \in Memory /\ b1.mem[p] = Word(n, {}, tag)
          /\ Outside(b.mem, b1.mem, p, p + 8)
      BY <1>4, <1>7, <3>2, PutHeaderIs
    <3>4. Outside(b.mem, b1.mem, p, p + 8 + a)
      <4>1. p + 8 \in Int /\ p + 8 + a \in Int /\ p + 8 <= p + 8 + a
        BY <1>2, <1>5
      <4>. QED
        BY <3>3, <4>1, OutsideMore
    <3>5. SizeAt(b1.mem, V[m + 1]) = n /\ ~Dummy(b1.mem, V[m + 1])
      BY <1>2, <3>3, WordIs
    <3>6. After(V[m + 1], p + 8 + a) <= V[1] + xSize
      BY <1>0, <1>2, <1>5, <2>1, FitsWhere
    <3> DEFINE V1 == Push(m, V, After(V[m + 1], p + 8 + a))
    <3>7. /\ Grown(b.mem, b1.mem, m, V, m + 1, V1)
          /\ ByteWrap(V1[m + 2]) = WrapHeader(p + 8 + a)
      <4>1. p + 8 + a \in Nat
        BY <1>2, <1>5
      <4>2. p + 8 + a = ByteWrap(V[m + 1]) + 8
                          + rbALIGN_SIZE(SizeAt(b1.mem, V[m + 1]))
        BY <1>2, <1>5, <3>5
      <4>3. Outside(b.mem, b1.mem, ByteWrap(V[m + 1]), p + 8 + a)
        BY <1>2, <3>4
      <4>. QED
        <5> DEFINE e == p + 8 + a
        <5>1. SizeAt(b1.mem, V[m + 1]) \in Nat /\ e \in Nat /\ e <= xSize
          BY <1>4, <2>1, <3>5, <4>1
        <5>2. V1 = Push(m, V, After(V[m + 1], e))
          OBVIOUS
        <5> HIDE DEF e, V1
        <5>3. e = ByteWrap(V[m + 1]) + 8 + rbALIGN_SIZE(SizeAt(b1.mem, V[m + 1]))
          BY <4>2 DEF e
        <5>4. /\ After(V[m + 1], e) <= V[1] + xSize
              /\ Outside(b.mem, b1.mem, ByteWrap(V[m + 1]), e)
          BY <3>6, <4>3 DEF e
        <5>5. /\ Grown(b.mem, b1.mem, m, V, m + 1, V1)
              /\ ByteWrap(V1[m + 2]) = WrapHeader(e)
          <6>1. OneMore(b.mem, b1.mem, m, V, e)
            BY <3>5, <5>1, <5>3, <5>4 DEF OneMore
          <6>. QED
            BY <1>0, <5>2, <6>1, GrowOne
        <5>. QED
          BY <5>5 DEF e
    <3>8. V1[m + 1] = V[m + 1] /\ (m + 1) + 1 = m + 2 /\ m + 1 # m + 2
      BY <1>1, <3>7 DEF Grown
    <3> HIDE DEF V1
    <3>. QED
      BY <1>2, <1>8, <1>9, <3>1, <3>3, <3>7, <3>8
  <2>2. CASE ~(p + 8 + a <= xSize)
    <3>1. /\ V[m + 1] = p /\ a + 8 <= f
      BY <1>0, <1>2, <1>3, <1>5, <2>2, FitsWhere
    <3>2. AcquiredItem(b, n) = 8
      BY <1>1, <1>2, <1>5, <2>2 DEF AcquiredItem, rbHEADER_SIZE
    <3>3. p # 0
      BY <1>1, <1>3, <1>5, <2>2, <3>1
    <3> DEFINE mem1 == PutHeader(b.mem, p, 0, {"DUMMY"}, tag)
    <3>4. b1.mem = PutHeader(mem1, 0, n, {}, tag)
      BY <1>2, <3>2, <3>3 DEF prvAcquireItemNoSplit, rbHEADER_SIZE, ItemBlock
    <3>5. /\ mem1 \in Memory /\ mem1[p] = Word(0, {"DUMMY"}, tag)
          /\ Outside(b.mem, mem1, p, p + 8)
      BY <1>7, PutHeaderIs DEF FlagNames
    <3> HIDE DEF mem1
    <3>6. /\ b1.mem \in Memory /\ b1.mem[0] = Word(n, {}, tag)
          /\ Outside(mem1, b1.mem, 0, 0 + 8)
      <4>1. 0 \in Words
        BY <1>1 DEF Words
      <4>. QED
        BY <1>4, <3>4, <3>5, <4>1, PutHeaderIs
    <3>7. Outside(b.mem, mem1, p, xSize) /\ Outside(mem1, b1.mem, 0, 8 + a)
      <4>1. p + 8 \in Int /\ xSize \in Int /\ p + 8 <= xSize
        BY <1>1, <1>2
      <4>2. 0 + 8 \in Int /\ 8 + a \in Int /\ 0 + 8 <= 8 + a
        BY <1>5
      <4>3. Outside(b.mem, mem1, p, xSize)
        BY <3>5, <4>1, OutsideMore
      <4>. QED
        BY <3>6, <4>2, <4>3, OutsideMore
    <3>8. p < xSize /\ ByteWrap(p) = p /\ ByteWrap(0) = 0
      BY <1>1, <1>2 DEF ByteWrap
    <3>9. Dummy(mem1, p)
      BY <3>5, <3>8, WordIs
    <3>10. Follows(mem1, V[m + 1], xSize)
      BY <1>0, <1>2, <3>1, <3>8, <3>9, DummyFollows
    <3>11. SizeAt(b1.mem, 0) = n /\ ~Dummy(b1.mem, 0)
      BY <3>6, <3>8, WordIs
    <3>12. PICK V1 : /\ Grown(b.mem, b1.mem, m, V, m + 2, V1)
                     /\ V1[m + 2] = xSize
                     /\ ByteWrap(V1[m + 3]) = WrapHeader(8 + a)
                     /\ b1.mem[p] = mem1[p]
      <4>1. 8 + a \in Nat /\ 8 + a <= V[1] /\ 8 + a = 8 + rbALIGN_SIZE(SizeAt(b1.mem, 0))
        BY <1>3, <1>5, <3>1, <3>11
      <4>2. V[m + 1] < xSize /\ Outside(b.mem, mem1, V[m + 1], xSize)
        BY <3>1, <3>7, <3>8
      <4>. QED
        <5> DEFINE e == 8 + a
        <5>1. /\ e \in Nat /\ e <= V[1] /\ e = 8 + rbALIGN_SIZE(SizeAt(b1.mem, 0))
              /\ SizeAt(b1.mem, 0) \in Nat /\ Outside(mem1, b1.mem, 0, e)
          BY <1>4, <3>7, <3>11, <4>1
        <5> HIDE DEF e
        <5>2. \E V1 : /\ Grown(b.mem, b1.mem, m, V, m + 2, V1)
                      /\ V1[m + 2] = xSize
                      /\ ByteWrap(V1[m + 3]) = WrapHeader(e)
                      /\ b1.mem[V[m + 1]] = mem1[V[m + 1]]
          <6>1. TwoMore(b.mem, mem1, b1.mem, m, V, e)
            BY <3>10, <3>11, <4>2, <5>1 DEF TwoMore
          <6>. QED
            BY <1>0, <6>1, GrowTwo
        <5>. QED
          BY <3>1, <5>2 DEF e
    <3>13. V1[m + 1] = p /\ (m + 2) + 1 = m + 3 /\ ByteWrap(V1[m + 2]) = 0
      BY <1>1, <3>1, <3>12 DEF Grown, ByteWrap
    <3>. QED
      BY <1>8, <1>9, <3>2, <3>5, <3>6, <3>8, <3>12, <3>13
  <2>. QED
    BY <2>1, <2>2
<1>10. Spaced(m1, V1) /\ m1 \in {m + 1, m + 2} /\ V1[1] = V[1]
  BY <1>1, <1>9 DEF Grown
<1>11. b1.acquire \in Words
  <2>1. m1 \in Nat /\ m1 + 1 \in 1 .. m1 + 1
    BY <1>1, <1>10
  <2>2. V1[m1 + 1] \in Addr
    BY <1>10, <2>1 DEF Spaced
  <2>. QED
    BY <1>0, <1>9, <2>2, AddrIs
<1>12. b1 \in ItemBlock
  BY <1>8, <1>9, <1>11 DEF ItemBlock
<1>13. ByteWrap(V1[m1 + 1]) = V1[1] <=> V1[m1 + 1] = V1[1] + xSize
  BY <1>0, <1>1, <1>10, FullIs
<1>. QED
  BY <1>3, <1>6, <1>8, <1>9, <1>10, <1>12, <1>13 DEF Ends

(***************************************************************************)
(* Copying an item into an allow-split buffer.                             *)
(***************************************************************************)
\* A header and the data behind it.
LEMMA ItemWritten ==
    ASSUME NEW mem \in Memory, NEW at \in Words, NEW len \in Nat,
           NEW flags \in SUBSET FlagNames, NEW tag \in Nat, NEW mem1,
           mem1 = Fill(PutHeader(mem, at, len, flags, tag), at + 8, len,
                       Word(0, {}, tag))
    PROVE  /\ mem1 \in Memory /\ mem1[at] = Word(len, flags, tag)
           /\ Outside(mem, mem1, at, at + 8 + len)
<1>1. Words \subseteq Nat
  BY SizeAssumption DEF Words
<1> DEFINE g == PutHeader(mem, at, len, flags, tag)
<1>2. g \in Memory /\ g[at] = Word(len, flags, tag) /\ Outside(mem, g, at, at + 8)
  BY PutHeaderIs
<1> HIDE DEF g
<1>3. mem1 \in Memory /\ Outside(g, mem1, at + 8, at + 8 + len)
  <2>1. at + 8 \in Nat
    BY <1>1
  <2>2. mem1 = Fill(g, at + 8, len, Word(0, {}, tag))
    BY DEF g
  <2>. QED
    BY <1>2, <2>1, <2>2, FillIs
<1>4. mem1[at] = g[at]
  BY <1>1, <1>3 DEF Outside
<1>5. Outside(mem, mem1, at, at + 8 + len)
  <2>1. SUFFICES ASSUME NEW p \in Words, p < at \/ at + 8 + len <= p
                 PROVE  mem1[p] = mem[p]
    BY DEF Outside
  <2>2. p \in Nat /\ at \in Nat
    BY <1>1
  <2>3. (p < at \/ at + 8 <= p) /\ (p < at + 8 \/ at + 8 + len <= p)
    BY <2>1, <2>2
  <2>. QED
    BY <1>2, <1>3, <2>3 DEF Outside
<1>. QED
  BY <1>2, <1>3, <1>4, <1>5

\* The blocks that prvCopyItemAllowSplit puts behind the chain, and how many
\* of them a reader will count.
SplitBlocks(mem, m, V, m1, n) ==
    /\ Flags(mem, V[m1]) = {}
    /\ m1 = m + 1 => n = 1
    /\ m1 = m + 2 => /\ V[m + 2] = xSize
                     /\ \/ Flags(mem, V[m + 1]) = {"SPLIT"} /\ n = 2
                        \/ Flags(mem, V[m + 1]) = {"DUMMY"} /\ n = 1

\* What prvCopyItemAllowSplit does to the pointers and the counter.
LEMMA CopySplitFields ==
    ASSUME NEW b \in ItemBlock, NEW n, NEW tag, NEW b1,
           b1 = prvCopyItemAllowSplit(b, n, tag)
    PROVE  /\ b1.write = b1.acquire /\ b1.read = b.read /\ b1.free = b.free
           /\ b1.full = (b.full \/ b1.acquire = b.free)
           /\ b1 \in [acquire : {b1.acquire}, write : {b1.acquire}, read : Words,
                      free : Words, full : BOOLEAN,
                      waiting : {b.waiting + 1, b.waiting + 2}, mem : {b1.mem}]
<1>1. PICK next, g, k :
        /\ k \in {1, 2}
        /\ b1 = [b EXCEPT !.acquire = next, !.write = next, !.full = @ \/ next = b.free,
                          !.waiting = @ + k, !.mem = g]
  BY DEF prvCopyItemAllowSplit
<1>2. b = [acquire |-> b.acquire, write |-> b.write, read |-> b.read, free |-> b.free,
           full |-> b.full, waiting |-> b.waiting, mem |-> b.mem]
      /\ b.read \in Words /\ b.free \in Words /\ b.full \in BOOLEAN
  BY DEF ItemBlock
<1>3. b1 = [acquire |-> next, write |-> next, read |-> b.read, free |-> b.free,
            full |-> b.full \/ next = b.free, waiting |-> b.waiting + k, mem |-> g]
  BY ONLY <1>1, <1>2
<1>4. b.waiting + k \in {b.waiting + 1, b.waiting + 2}
  BY <1>1
<1>. QED
  BY ONLY <1>2, <1>3, <1>4

\* prvCopyItemAllowSplit when the item fits before the tail.
LEMMA CopySplitInPlace ==
    ASSUME NEW b \in ItemBlock, NEW n, NEW tag, NEW b1,
           b1 = prvCopyItemAllowSplit(b, n, tag),
           ~(xSize - b.acquire < rbALIGN_SIZE(n) + 8)
    PROVE  /\ b1.acquire = WrapHeader(b.acquire + 8 + rbALIGN_SIZE(n))
           /\ b1.waiting = b.waiting + 1
           /\ b1.mem = Fill(PutHeader(b.mem, b.acquire, n, {}, tag),
                            b.acquire + 8, n, Word(0, {}, tag))
BY DEF prvCopyItemAllowSplit, ItemBlock, rbHEADER_SIZE

\* An item in two parts, the first of them empty if it is flagged as a dummy.
SplitInTwo(b, b1, n, tag, part, flag) ==
    LET first == Fill(PutHeader(b.mem, b.acquire, part, {flag}, tag),
                      b.acquire + 8, part, Word(0, {}, tag))
    IN  /\ b1.acquire = WrapHeader(0 + 8 + (rbALIGN_SIZE(n) - part))
        /\ b1.waiting = b.waiting + (IF part > 0 THEN 2 ELSE 1)
        /\ b1.mem = Fill(PutHeader(first, 0, n - part, {}, tag),
                         0 + 8, n - part, Word(0, {}, tag))

\* prvCopyItemAllowSplit when it does not: two parts, or a dummy and the item.
LEMMA CopySplitInTwo ==
    ASSUME NEW b \in ItemBlock, NEW n, NEW tag, NEW b1,
           b1 = prvCopyItemAllowSplit(b, n, tag),
           xSize - b.acquire < rbALIGN_SIZE(n) + 8,
           NEW part, part = xSize - b.acquire - 8,
           NEW flag, flag = IF part > 0 THEN "SPLIT" ELSE "DUMMY"
    PROVE  SplitInTwo(b, b1, n, tag, part, flag)
BY DEF prvCopyItemAllowSplit, ItemBlock, rbHEADER_SIZE, SplitInTwo

\* prvCopyItemAllowSplit puts one or two blocks behind the chain.
LEMMA CopySplitGrows ==
    ASSUME xBufferType = "ALLOWSPLIT", NEW b \in ItemBlock, NEW m, NEW V,
           Spaced(m, V), Chained(b.mem, m, V), Ends(b, m, V),
           NEW n \in 0 .. xMaxItemSize, prvCheckItemFitsDefault(b, n),
           NEW tag \in Nat, NEW b1, b1 = prvCopyItemAllowSplit(b, n, tag)
    PROVE  /\ b1 \in ItemBlock /\ b1.read = b.read /\ b1.write = b1.acquire
           /\ \E m1, V1 :
                /\ Grown(b.mem, b1.mem, m, V, m1, V1) /\ Ends(b1, m1, V1)
                /\ SplitBlocks(b1.mem, m, V1, m1, b1.waiting - b.waiting)
<1>0. ~IsByteBuffer
  BY DEF IsByteBuffer
<1>1. xSize \in Nat /\ xSize % 4 = 0 /\ xSize >= 16 /\ m \in Nat
      /\ m + 1 \in 1 .. m + 1 /\ 1 \in 1 .. m + 1
  BY <1>0, ItemSize DEF Spaced
<1>2. PICK p \in Words : p = b.acquire /\ p \in Nat /\ p = ByteWrap(V[m + 1])
                         /\ p + 8 <= xSize /\ p % 4 = 0
  BY <1>0, <1>1, AddrIs DEF Spaced, Ends, Words
<1>3. PICK f \in Nat : f = V[1] /\ f = b.free /\ f < xSize
  BY <1>0, <1>1, AddrIs DEF Spaced, Ends
<1>4. n \in Nat
  BY <1>1 DEF xMaxItemSize, rbHEADER_SIZE
<1>5. PICK a \in Nat : a = rbALIGN_SIZE(n) /\ a % 4 = 0 /\ n <= a /\ a < n + 4
  BY <1>4, AlignIs
<1>6. ~b.full
  BY <1>0, FitsWhere
<1>7. PICK g, h : g = b.mem /\ h = b1.mem /\ g \in Memory
  BY DEF ItemBlock
<1>8. /\ b1.write = b1.acquire /\ b1.read = b.read /\ b1.free = b.free
      /\ b1.full = (b.full \/ b1.acquire = b.free)
      /\ b1 \in [acquire : {b1.acquire}, write : {b1.acquire}, read : Words,
                 free : Words, full : BOOLEAN,
                 waiting : {b.waiting + 1, b.waiting + 2}, mem : {b1.mem}]
  BY CopySplitFields
<1>9. PICK q \in Nat : q = b.waiting
  BY DEF ItemBlock
<1>10. SUFFICES ASSUME NEW m1, NEW V1, Grown(g, h, m, V, m1, V1),
                       h \in Memory, ByteWrap(V1[m1 + 1]) = b1.acquire,
                       SplitBlocks(h, m, V1, m1, b1.waiting - b.waiting)
                PROVE  b1 \in ItemBlock /\ Ends(b1, m1, V1)
  <2>1. CASE p + 8 + a <= xSize
    <3>0. ~(xSize - p < a + 8)
      BY <1>1, <1>2, <1>5, <2>1
    <3>1. /\ b1.acquire = WrapHeader(b.acquire + 8 + rbALIGN_SIZE(n))
          /\ b1.waiting = b.waiting + 1
          /\ b1.mem = Fill(PutHeader(b.mem, b.acquire, n, {}, tag),
                           b.acquire + 8, n, Word(0, {}, tag))
      <4>1. ~(xSize - b.acquire < rbALIGN_SIZE(n) + 8)
        BY <1>2, <1>5, <3>0
      <4>. QED
        BY <4>1, CopySplitInPlace
    <3>2. b1.waiting = q + 1 /\ b1.waiting - b.waiting = 1
      BY <1>9, <3>1
    <3>3. h = Fill(PutHeader(g, p, n, {}, tag), p + 8, n, Word(0, {}, tag))
      BY <1>2, <1>7, <3>1
    <3>4. /\ h \in Memory /\ h[p] = Word(n, {}, tag)
          /\ Outside(g, h, p, p + 8 + n)
      BY <1>4, <1>7, <3>3, ItemWritten
    <3>e. PICK e \in Nat : e = p + 8 + a
      BY <1>2, <1>5
    <3>5. e \in Nat /\ e <= xSize /\ p + 8 + n \in Int /\ p + 8 + n <= e
      BY <1>2, <1>4, <1>5, <2>1, <3>e
    <3>6. SizeAt(h, V[m + 1]) = n /\ ~Dummy(h, V[m + 1]) /\ Flags(h, V[m + 1]) = {}
      <4>1. h[ByteWrap(V[m + 1])] = Word(n, {}, tag)
        BY <1>2, <3>4
      <4>. QED
        BY <4>1, WordIs
    <3>7. /\ SizeAt(h, V[m + 1]) \in Nat
          /\ e = ByteWrap(V[m + 1]) + 8 + rbALIGN_SIZE(SizeAt(h, V[m + 1]))
      BY <1>2, <1>4, <1>5, <3>6, <3>e
    <3>8. After(V[m + 1], e) <= V[1] + xSize
      BY <1>0, <1>2, <1>5, <2>1, <3>e, FitsWhere
    <3>9. b1.acquire = WrapHeader(e)
      BY <1>2, <1>5, <3>1, <3>e
    <3>10. Outside(g, h, ByteWrap(V[m + 1]), e)
      <4>1. Outside(g, h, p, e)
        BY <3>4, <3>5, OutsideMore
      <4>. QED
        BY <1>2, <4>1
    <3> DEFINE V1 == Push(m, V, After(V[m + 1], e))
    <3>11. /\ Grown(g, h, m, V, m + 1, V1)
           /\ ByteWrap(V1[m + 2]) = WrapHeader(e)
      <4>1. Chained(g, m, V)
        BY <1>7
      <4>2. OneMore(g, h, m, V, e)
        BY <3>5, <3>6, <3>7, <3>8, <3>10, <4>1 DEF OneMore
      <4>. QED
        BY <1>0, <4>2, GrowOne
    <3>12. V1[m + 1] = V[m + 1] /\ (m + 1) + 1 = m + 2 /\ m + 1 # m + 2
      BY <1>1, <3>11 DEF Grown
    <3> HIDE DEF V1
    <3>13. SplitBlocks(h, m, V1, m + 1, b1.waiting - b.waiting)
      BY <3>2, <3>6, <3>12 DEF SplitBlocks
    <3>. QED
      BY <1>7, <1>8, <1>10, <3>4, <3>9, <3>11, <3>12, <3>13
  <2>2. CASE ~(p + 8 + a <= xSize)
    <3>0. xSize - p < a + 8
      BY <1>1, <1>2, <1>5, <2>2
    <3>1. V[m + 1] = p /\ a + 16 <= f + (xSize - p)
      <4>1. xBufferType # "NOSPLIT"
        OBVIOUS
      <4>. QED
        BY <1>0, <1>2, <1>3, <1>5, <2>2, <4>1, FitsWhere
    <3>2. PICK part \in Nat : part = xSize - p - 8 /\ part % 4 = 0 /\ part < a
      BY <1>1, <1>2, <1>5, <3>0
    <3>3. PICK flag \in {"SPLIT", "DUMMY"} :
             flag = IF part > 0 THEN "SPLIT" ELSE "DUMMY"
      OBVIOUS
    <3>4. PICK left \in Nat : left = n - part /\ rbALIGN_SIZE(left) = a - part
      <4>1. n - part \in Nat
        BY <1>4, <1>5, <3>2
      <4>2. ((n - part) + 3) \div 4 = ((n + 3) \div 4) - (part \div 4)
        BY <1>4, <3>2, <4>1
      <4>3. rbALIGN_SIZE(n - part) = a - part
        BY <1>4, <1>5, <3>2, <4>1, <4>2 DEF rbALIGN_SIZE
      <4>. QED
        BY <4>1, <4>3
    <3>5. PICK mem1 :
            mem1 = Fill(PutHeader(g, p, part, {flag}, tag), p + 8, part, Word(0, {}, tag))
      OBVIOUS
    <3>6. /\ b1.acquire = WrapHeader(0 + 8 + (rbALIGN_SIZE(n) - part))
          /\ b1.waiting = b.waiting + (IF part > 0 THEN 2 ELSE 1)
          /\ LET first == Fill(PutHeader(b.mem, b.acquire, part, {flag}, tag),
                               b.acquire + 8, part, Word(0, {}, tag))
             IN  b1.mem = Fill(PutHeader(first, 0, n - part, {}, tag),
                               0 + 8, n - part, Word(0, {}, tag))
      <4>1. /\ xSize - b.acquire < rbALIGN_SIZE(n) + 8
            /\ part = xSize - b.acquire - 8
        BY <1>2, <1>5, <3>0, <3>2
      <4>2. SplitInTwo(b, b1, n, tag, part, flag)
        BY <3>3, <4>1, CopySplitInTwo
      <4>. QED
        BY <4>2 DEF SplitInTwo
    <3>7. b1.waiting = q + (IF part > 0 THEN 2 ELSE 1)
      BY <1>9, <3>6
    <3>8. h = Fill(PutHeader(mem1, 0, left, {}, tag), 0 + 8, left, Word(0, {}, tag))
      BY <1>2, <1>7, <3>4, <3>5, <3>6
    <3>9. /\ mem1 \in Memory /\ mem1[p] = Word(part, {flag}, tag)
          /\ Outside(g, mem1, p, p + 8 + part)
      <4>1. {flag} \in SUBSET FlagNames
        BY DEF FlagNames
      <4>. QED
        BY <1>7, <3>5, <4>1, ItemWritten
    <3>10. /\ h \in Memory /\ h[0] = Word(left, {}, tag)
           /\ Outside(mem1, h, 0, 0 + 8 + left)
      <4>1. 0 \in Words
        BY <1>1 DEF Words
      <4>. QED
        BY <3>8, <3>9, <4>1, ItemWritten
    <3>11. p < xSize /\ ByteWrap(p) = p /\ ByteWrap(0) = 0 /\ p + 8 + part = xSize
      BY <1>1, <1>2, <3>2 DEF ByteWrap
    <3>12. Flags(mem1, p) = {flag} /\ SizeAt(mem1, p) = part
      BY <3>9, <3>11, WordIs
    <3>13. Follows(mem1, V[m + 1], xSize)
      <4>1. CASE part > 0
        <5>1. ~Dummy(mem1, p)
          BY <3>3, <3>12, <4>1 DEF Dummy
        <5>2. rbALIGN_SIZE(part) = part
          BY <3>2 DEF rbALIGN_SIZE
        <5>3. Follows(mem1, p, After(p, xSize))
          BY <1>1, <3>11, <3>12, <5>1, <5>2, ItemFollows
        <5>4. After(p, xSize) = xSize
          BY <1>1, <1>2, <3>11 DEF After, rbHEADER_SIZE
        <5>. QED
          BY <3>1, <5>3, <5>4
      <4>2. CASE ~(part > 0)
        <5>1. Dummy(mem1, p)
          BY <3>3, <3>12, <4>2 DEF Dummy
        <5>. QED
          BY <1>0, <1>2, <3>1, <3>11, <5>1, DummyFollows
      <4>. QED
        BY <4>1, <4>2
    <3>14. SizeAt(h, 0) = left /\ ~Dummy(h, 0) /\ Flags(h, 0) = {}
      BY <3>10, <3>11, WordIs
    <3> DEFINE e == 8 + (a - part)
    <3>15. e \in Nat /\ e <= V[1] /\ 0 + 8 + left \in Int /\ 0 + 8 + left <= e
           /\ 0 + 8 + (a - part) = e
      BY <1>1, <1>2, <1>3, <1>5, <3>1, <3>2, <3>4
    <3>16. e = 8 + rbALIGN_SIZE(SizeAt(h, 0)) /\ SizeAt(h, 0) \in Nat
      BY <3>4, <3>14
    <3> HIDE DEF e
    <3>17. Outside(mem1, h, 0, e)
      BY <3>10, <3>15, OutsideMore
    <3>18. V[m + 1] < xSize /\ Outside(g, mem1, V[m + 1], xSize)
      BY <3>1, <3>9, <3>11
    <3>19. PICK V1 : /\ Grown(g, h, m, V, m + 2, V1)
                     /\ V1[m + 2] = xSize
                     /\ ByteWrap(V1[m + 3]) = WrapHeader(e)
                     /\ h[V[m + 1]] = mem1[V[m + 1]]
      <4>1. Chained(g, m, V)
        BY <1>7
      <4>. QED
        <5>1. TwoMore(g, mem1, h, m, V, e)
          BY <3>13, <3>14, <3>15, <3>16, <3>17, <3>18, <4>1 DEF TwoMore
        <5>. QED
          BY <1>0, <5>1, GrowTwo
    <3>20. V1[m + 1] = p /\ (m + 2) + 1 = m + 3 /\ ByteWrap(V1[m + 2]) = 0
           /\ m + 1 # m + 2
      BY <1>1, <3>1, <3>19 DEF Grown, ByteWrap
    <3>21. Flags(h, V1[m + 1]) = {flag} /\ Flags(h, V1[m + 2]) = {}
      BY <3>1, <3>11, <3>12, <3>14, <3>19, <3>20 DEF Flags
    <3>22. SplitBlocks(h, m, V1, m + 2, b1.waiting - b.waiting)
      <4>1. b1.waiting - b.waiting = IF part > 0 THEN 2 ELSE 1
        BY <1>9, <3>7
      <4>. QED
        BY <1>1, <3>3, <3>19, <3>20, <3>21, <4>1 DEF SplitBlocks
    <3>. QED
      <4>1. b1.acquire = WrapHeader(e)
        BY <1>5, <3>6, <3>15
      <4>. QED
        BY <1>7, <1>8, <1>10, <3>10, <3>19, <3>20, <3>22, <4>1
  <2>. QED
    BY <2>1, <2>2
<1>11. Spaced(m1, V1) /\ m1 \in {m + 1, m + 2} /\ V1[1] = V[1]
  BY <1>1, <1>10 DEF Grown
<1>12. b1.acquire \in Words
  <2>1. m1 \in Nat /\ m1 + 1 \in 1 .. m1 + 1
    BY <1>1, <1>11
  <2>2. V1[m1 + 1] \in Addr
    BY <1>11, <2>1 DEF Spaced
  <2>. QED
    BY <1>0, <1>10, <2>2, AddrIs
<1>13. b1 \in ItemBlock
  BY <1>7, <1>8, <1>9, <1>10, <1>12 DEF ItemBlock
<1>14. ByteWrap(V1[m1 + 1]) = V1[1] <=> V1[m1 + 1] = V1[1] + xSize
  BY <1>0, <1>1, <1>11, FullIs
<1>. QED
  BY <1>3, <1>6, <1>8, <1>10, <1>11, <1>13, <1>14 DEF Ends

(***************************************************************************)
(* How the chain is laid out and marked, and what the pointers say of it.  *)
(***************************************************************************)
\* The last block is not a dummy; a first part ends at the tail, and the
\* second part follows it.
Laid(mem, m, V) ==
    /\ Chained(mem, m, V)
    /\ m > 0 => ~Dummy(mem, V[m])
    /\ \A k \in 1 .. m : "SPLIT" \in Flags(mem, V[k]) =>
          /\ k < m /\ V[k + 1] = xSize /\ ~Dummy(mem, V[k])
          /\ xBufferType = "ALLOWSPLIT"

\* Blocks before r have been retrieved, the ones before w sent.
Marked(mem, m, V, r, w) ==
    /\ r \in 1 .. m + 1 /\ w \in r .. m + 1
    /\ \A k \in r .. m : "FREE" \notin Flags(mem, V[k])
    /\ r > 1 => \E k \in 1 .. r - 1 : Live(mem, V[k])
    /\ \A k \in w .. m : "WRITTEN" \notin Flags(mem, V[k])
    /\ xBufferType = "NOSPLIT" =>
          \A k \in r .. w - 1 : "WRITTEN" \in Flags(mem, V[k])
    /\ xBufferType = "ALLOWSPLIT" => w = m + 1

\* The blocks r, ..., w - 1 that are not dummies.
Passed(mem, V, r, w) ==
    (w - r) - (IF \E k \in r .. w - 1 : Dummy(mem, V[k]) THEN 1 ELSE 0)

Shape(b, m, V, r, w) ==
    /\ b \in ItemBlock /\ Spaced(m, V) /\ Laid(b.mem, m, V) /\ Ends(b, m, V)
    /\ Marked(b.mem, m, V, r, w)
    /\ b.read = ByteWrap(V[r]) /\ b.write = ByteWrap(V[w])
    /\ b.waiting = Passed(b.mem, V, r, w)

\* The addresses are far enough apart, and the ends of the chain alone meet.
LEMMA Steps ==
    ASSUME ~IsByteBuffer, NEW m, NEW V, Spaced(m, V),
           NEW j \in 1 .. m + 1, NEW k \in 1 .. m + 1, j < k
    PROVE  /\ m \in Nat /\ V[j] \in Nat /\ V[k] \in Nat
           /\ V[j] + 8 <= V[k] /\ V[k] <= V[j] + xSize
           /\ ~(j = 1 /\ k = m + 1) => V[k] < V[j] + xSize
<1>1. xSize \in Nat /\ m \in Nat /\ m + 1 \in 1 .. m + 1 /\ 1 \in 1 .. m + 1
  BY ItemSize DEF Spaced
<1>2. PICK f, x, y, v \in Nat : f = V[1] /\ x = V[j] /\ y = V[k] /\ v = V[m + 1]
  BY <1>1, AddrIs DEF Spaced
<1>3. PICK jj, kk \in Nat : jj = j /\ kk = k /\ 1 <= jj /\ jj < kk /\ kk <= m + 1
  BY <1>1
<1>4. /\ f + 8 * (jj - 1) <= x /\ x + 8 * (kk - jj) <= y
      /\ y + 8 * (m + 1 - kk) <= v /\ v <= f + xSize
  BY <1>1, <1>2, <1>3 DEF Spaced
<1>5. x + 8 <= y /\ y <= x + xSize
  BY <1>1, <1>3, <1>4
<1>6. ~(jj = 1 /\ kk = m + 1) => y < x + xSize
  BY <1>1, <1>3, <1>4
<1>. QED
  BY <1>1, <1>2, <1>3, <1>5, <1>6

\* The blocks of the chain are at different places.
LEMMA Apart ==
    ASSUME ~IsByteBuffer, NEW m, NEW V, Spaced(m, V),
           NEW j \in 1 .. m + 1, NEW k \in 1 .. m + 1, j # k,
           ~(j = 1 /\ k = m + 1), ~(k = 1 /\ j = m + 1)
    PROVE  ByteWrap(V[j]) # ByteWrap(V[k])
<1>0. m \in Nat /\ xSize \in Nat /\ V[j] \in Addr /\ V[k] \in Addr
  BY ItemSize DEF Spaced
<1>1. CASE j < k
  <2>1. V[j] \in Nat /\ V[k] \in Nat /\ V[j] + 8 <= V[k] /\ V[k] < V[j] + xSize
    BY <1>1, Steps
  <2>. QED
    BY <1>0, <2>1, PlacesDiffer
<1>2. CASE k < j
  <2>1. V[j] \in Nat /\ V[k] \in Nat /\ V[k] + 8 <= V[j] /\ V[j] < V[k] + xSize
    BY <1>2, Steps
  <2>. QED
    BY <1>0, <2>1, PlacesDiffer
<1>. QED
  BY <1>0, <1>1, <1>2

\* At most one block ends at the tail short of its own end.
LEMMA TailOnce ==
    ASSUME ~IsByteBuffer, NEW m, NEW V, Spaced(m, V),
           NEW j \in 1 .. m, NEW k \in 1 .. m, V[j + 1] = xSize, V[k + 1] = xSize
    PROVE  j = k
<1>1. m \in Nat /\ xSize \in Nat /\ j + 1 \in 1 .. m + 1 /\ k + 1 \in 1 .. m + 1
  BY ItemSize DEF Spaced
<1>2. j + 1 < k + 1 => V[j + 1] + 8 <= V[k + 1]
  BY <1>1, Steps
<1>3. k + 1 < j + 1 => V[k + 1] + 8 <= V[j + 1]
  BY <1>1, Steps
<1>. QED
  BY <1>1, <1>2, <1>3

\* At most one block is a dummy or a first part: the one that ends at the tail.
LEMMA DummyOnce ==
    ASSUME ~IsByteBuffer, NEW mem, NEW m, NEW V, Spaced(m, V), Laid(mem, m, V),
           NEW j \in 1 .. m, NEW k \in 1 .. m, Dummy(mem, V[j])
    PROVE  /\ V[j + 1] = xSize /\ j < m
           /\ Dummy(mem, V[k]) \/ "SPLIT" \in Flags(mem, V[k]) => j = k
<1>1. V[j + 1] = xSize
  BY DEF Laid, Chained, Follows
<1>2. Dummy(mem, V[k]) => V[k + 1] = xSize
  BY DEF Laid, Chained, Follows
<1>3. "SPLIT" \in Flags(mem, V[k]) => V[k + 1] = xSize
  BY DEF Laid
<1>4. m \in Nat /\ j # m
  BY DEF Laid, Spaced
<1>. QED
  BY <1>1, <1>2, <1>3, <1>4, TailOnce

\* No header lies in the data of a block.
LEMMA DataSpared ==
    ASSUME ~IsByteBuffer, NEW mem \in Memory, NEW m, NEW V, Spaced(m, V),
           Chained(mem, m, V), NEW i \in 1 .. m, ~Dummy(mem, V[i]),
           NEW k \in 1 .. m
    PROVE  \/ ByteWrap(V[k]) < ByteWrap(V[i]) + 8
           \/ ByteWrap(V[i]) + 8 + SizeAt(mem, V[i]) <= ByteWrap(V[k])
<1>1. xSize \in Nat /\ m \in Nat /\ i + 1 \in 1 .. m + 1 /\ i \in 1 .. m + 1
      /\ k \in 1 .. m + 1
  BY ItemSize DEF Spaced
<1>2. V[i] \in Addr /\ V[k] \in Addr /\ V[i + 1] \in Addr
  BY <1>1 DEF Spaced
<1>3. PICK v, x, u \in Nat : v = V[i] /\ x = V[k] /\ u = V[i + 1]
                            /\ v < 2 * xSize /\ x < 2 * xSize
  BY <1>2, AddrIs
<1>4. PICK n, a \in Nat : n = SizeAt(mem, V[i]) /\ a = rbALIGN_SIZE(n) /\ n <= a
  BY <1>2, HeaderIs, AlignIs
<1>5. /\ ByteWrap(v) + 8 + a <= xSize
      /\ v - ByteWrap(v) + (ByteWrap(v) + 8 + a) <= u
  <2>1. Follows(mem, V[i], V[i + 1])
    BY DEF Chained
  <2>2. PICK p \in Nat : p = ByteWrap(v)
    BY <1>2, <1>3, AddrIs
  <2>3. /\ p + 8 + a <= xSize
        /\ u = (v - p) + (IF xSize - (p + 8 + a) < 8 THEN xSize ELSE p + 8 + a)
    BY <1>3, <1>4, <2>1, <2>2 DEF Follows, rbHEADER_SIZE
  <2>. QED
    BY <1>1, <1>3, <1>4, <2>2, <2>3
<1>6. CASE k = i
  BY <1>1, <1>2, <1>6, AddrIs
<1>7. CASE k < i
  <2>1. x + 8 <= v
    BY <1>1, <1>3, <1>7, Steps
  <2>2. u <= x + xSize
    BY <1>1, <1>3, <1>7, Steps
  <2>. QED
    BY <1>1, <1>3, <1>4, <1>5, <2>1, <2>2 DEF ByteWrap
<1>8. CASE i < k
  <2>1. u <= x
    <3>1. CASE k = i + 1
      BY <1>3, <3>1
    <3>2. CASE i + 1 < k
      BY <1>1, <1>3, <3>2, Steps
    <3>. QED
      BY <1>1, <1>8, <3>1, <3>2
  <2>2. x < v + xSize
    BY <1>1, <1>3, <1>8, Steps
  <2>. QED
    BY <1>1, <1>3, <1>4, <1>5, <2>1, <2>2 DEF ByteWrap
<1>. QED
  BY <1>1, <1>6, <1>7, <1>8

\* The first place at which a loop stops is where FirstStop finds it.
LEMMA FirstStopIs ==
    ASSUME NEW N \in Nat, NEW ends, DOMAIN ends = 0 .. N, NEW k \in 0 .. N,
           ends[k], \A j \in 0 .. k - 1 : ~ends[j]
    PROVE  FirstStop(ends) = k
<1>1. PICK s \in DOMAIN ends : /\ s = FirstStop(ends)
                               /\ ends[s] /\ \A j \in 0 .. s - 1 : ~ends[j]
  BY DEF FirstStop
<1>2. ~(s < k) /\ ~(k < s)
  BY <1>1
<1>. QED
  BY <1>1, <1>2

\* The words in P get a flag.
Mark(mem, P, f) ==
    [w \in Words |-> IF w \in P
                     THEN [mem[w] EXCEPT !.uxItemFlags = @ \cup {f}]
                     ELSE mem[w]]

Marks(mem, mem1, P, f) ==
    /\ mem1 \in Memory
    /\ \A p \in Words :
         /\ mem1[p].xItemLen = mem[p].xItemLen /\ mem1[p].tag = mem[p].tag
         /\ mem1[p].uxItemFlags = IF p \in P THEN mem[p].uxItemFlags \cup {f}
                                  ELSE mem[p].uxItemFlags

\* Mark adds a flag to the headers at P, and changes nothing else.
LEMMA MarkIs ==
    ASSUME NEW mem \in Memory, NEW P, NEW f \in FlagNames
    PROVE  Marks(mem, Mark(mem, P, f), P, f)
<1> DEFINE mem1 == Mark(mem, P, f)
<1>1. \A p \in Words : mem[p] \in HeaderWord
  BY DEF Memory, HeaderWord
<1>2. ASSUME NEW p \in Words
      PROVE  /\ mem1[p] \in HeaderWord
             /\ mem1[p].xItemLen = mem[p].xItemLen /\ mem1[p].tag = mem[p].tag
             /\ mem1[p].uxItemFlags = IF p \in P THEN mem[p].uxItemFlags \cup {f}
                                      ELSE mem[p].uxItemFlags
  <2>1. mem1[p] = IF p \in P THEN [mem[p] EXCEPT !.uxItemFlags = @ \cup {f}]
                  ELSE mem[p]
    BY DEF Mark
  <2>2. PICK h \in HeaderWord : h = mem[p]
    BY <1>1
  <2>3. mem1[p] = IF p \in P THEN [h EXCEPT !.uxItemFlags = @ \cup {f}] ELSE h
    BY <2>1, <2>2
  <2>. QED
    BY <2>2, <2>3 DEF HeaderWord
<1>3. mem1 = [p \in Words |-> mem1[p]]
  BY DEF Mark
<1> HIDE DEF mem1
<1>4. Marks(mem, mem1, P, f)
  BY <1>2, <1>3 DEF Memory, HeaderWord, Marks
<1>. QED
  BY <1>4 DEF mem1

(***************************************************************************)
(* A send keeps the shape.                                                 *)
(***************************************************************************)
\* The one or two blocks put behind the chain.
NewBlocks(mem, m, V, m1) ==
    /\ Flags(mem, V[m1]) = {}
    /\ m1 = m + 2 => \/ Flags(mem, V[m + 1]) = {"DUMMY"}
                     \/ /\ Flags(mem, V[m + 1]) = {"SPLIT"} /\ V[m + 2] = xSize
                        /\ xBufferType = "ALLOWSPLIT"

OldBlock(mem, mem1, m, V, V1, k) ==
    /\ k \in 1 .. m /\ V1[k] = V[k] /\ V1[k + 1] = V[k + 1]
    /\ Flags(mem1, V1[k]) = Flags(mem, V[k])
    /\ Dummy(mem1, V1[k]) = Dummy(mem, V[k])
    /\ Live(mem1, V1[k]) = Live(mem, V[k])
    /\ SizeAt(mem1, V1[k]) = SizeAt(mem, V[k])
    /\ TagAt(mem1, V1[k]) = TagAt(mem, V[k])

NewBlock(mem1, m, m1, V1, k) ==
    \/ k = m1 /\ Flags(mem1, V1[k]) = {}
    \/ k = m + 1 /\ m1 = m + 2 /\ Flags(mem1, V1[k]) = {"DUMMY"}
    \/ /\ k = m + 1 /\ m1 = m + 2 /\ Flags(mem1, V1[k]) = {"SPLIT"}
       /\ V1[k + 1] = xSize /\ xBufferType = "ALLOWSPLIT"

\* The blocks of a chain that has grown are the old ones and the new ones.
LEMMA GrownBlocks ==
    ASSUME NEW mem, NEW mem1, NEW m \in Nat, NEW V, NEW m1, NEW V1,
           Grown(mem, mem1, m, V, m1, V1), NewBlocks(mem1, m, V1, m1),
           NEW k \in 1 .. m1
    PROVE  OldBlock(mem, mem1, m, V, V1, k) \/ NewBlock(mem1, m, m1, V1, k)
<1>1. m1 \in {m + 1, m + 2}
  BY DEF Grown
<1>2. CASE k \in 1 .. m
  <2>1. /\ V1[k] = V[k] /\ V1[k + 1] = V[k + 1]
        /\ mem1[ByteWrap(V[k])] = mem[ByteWrap(V[k])]
    BY <1>2 DEF Grown
  <2>. QED
    BY <1>2, <2>1, SameHeader DEF OldBlock
<1>3. CASE k = m1
  BY <1>3 DEF NewBlocks, NewBlock
<1>4. CASE k = m + 1 /\ m1 = m + 2
  <2>1. k + 1 = m + 2
    BY <1>4
  <2>. QED
    BY <1>4, <2>1 DEF NewBlocks, NewBlock
<1>. QED
  BY <1>1, <1>2, <1>3, <1>4

\* A chain with new blocks behind it is laid out as a chain should be.
LEMMA GrownLaid ==
    ASSUME NEW mem, NEW mem1, NEW m \in Nat, NEW V, NEW m1, NEW V1, Laid(mem, m, V),
           Grown(mem, mem1, m, V, m1, V1), NewBlocks(mem1, m, V1, m1)
    PROVE  Laid(mem1, m1, V1)
<1>1. m1 \in {m + 1, m + 2} /\ m1 \in Nat /\ m1 \in 1 .. m1 /\ Chained(mem1, m1, V1)
  BY DEF Grown
<1>2. ~Dummy(mem1, V1[m1])
  BY DEF NewBlocks, Dummy
<1>3. ASSUME NEW k \in 1 .. m1, "SPLIT" \in Flags(mem1, V1[k])
      PROVE  /\ k < m1 /\ V1[k + 1] = xSize /\ ~Dummy(mem1, V1[k])
             /\ xBufferType = "ALLOWSPLIT"
  <2>1. CASE OldBlock(mem, mem1, m, V, V1, k)
    BY <1>1, <1>3, <2>1 DEF Laid, OldBlock
  <2>2. CASE NewBlock(mem1, m, m1, V1, k)
    BY <1>3, <2>2 DEF NewBlock, Dummy
  <2>. QED
    BY <2>1, <2>2, GrownBlocks
<1>. QED
  BY <1>1, <1>2, <1>3 DEF Laid

\* What is new has been neither sent nor retrieved.
LEMMA GrownMarked ==
    ASSUME NEW mem, NEW mem1, NEW m \in Nat, NEW V, NEW m1, NEW V1, NEW r, NEW w,
           Marked(mem, m, V, r, w), NEW w1,
           Grown(mem, mem1, m, V, m1, V1), NewBlocks(mem1, m, V1, m1),
           \/ xBufferType = "NOSPLIT" /\ w1 = w
           \/ xBufferType = "ALLOWSPLIT" /\ w1 = m1 + 1
    PROVE  Marked(mem1, m1, V1, r, w1)
<1>1. m1 \in {m + 1, m + 2} /\ m1 \in Nat
  BY DEF Grown
<1>2. r \in 1 .. m + 1 /\ w \in r .. m + 1
  BY DEF Marked
<1>3. r \in 1 .. m1 + 1 /\ w1 \in r .. m1 + 1
  BY <1>1, <1>2
<1>4. ASSUME NEW k \in r .. m1 PROVE "FREE" \notin Flags(mem1, V1[k])
  <2>1. k \in 1 .. m1
    BY <1>1, <1>2
  <2>2. CASE OldBlock(mem, mem1, m, V, V1, k)
    <3>1. k \in r .. m
      BY <1>2, <2>2 DEF OldBlock
    <3>. QED
      BY <2>2, <3>1 DEF Marked, OldBlock
  <2>3. CASE NewBlock(mem1, m, m1, V1, k)
    BY <2>3 DEF NewBlock
  <2>. QED
    BY <2>1, <2>2, <2>3, GrownBlocks
<1>5. r > 1 => \E k \in 1 .. r - 1 : Live(mem1, V1[k])
  <2>1. SUFFICES ASSUME NEW k \in 1 .. r - 1, Live(mem, V[k])
                 PROVE  Live(mem1, V1[k])
    BY DEF Marked
  <2>2. k \in 1 .. m /\ k \in 1 .. m + 1
    BY <1>2
  <2>3. V1[k] = V[k] /\ mem1[ByteWrap(V[k])] = mem[ByteWrap(V[k])]
    BY <2>2 DEF Grown
  <2>. QED
    BY <2>1, <2>3, SameHeader
<1>6. ASSUME NEW k \in w1 .. m1 PROVE "WRITTEN" \notin Flags(mem1, V1[k])
  <2>1. k \in 1 .. m1 /\ w1 = w
    BY <1>1, <1>2, <1>3
  <2>2. CASE OldBlock(mem, mem1, m, V, V1, k)
    <3>1. k \in w .. m
      BY <1>2, <2>1, <2>2 DEF OldBlock
    <3>. QED
      BY <2>2, <3>1 DEF Marked, OldBlock
  <2>3. CASE NewBlock(mem1, m, m1, V1, k)
    BY <2>3 DEF NewBlock
  <2>. QED
    BY <2>1, <2>2, <2>3, GrownBlocks
<1>7. ASSUME xBufferType = "NOSPLIT", NEW k \in r .. w1 - 1
      PROVE  "WRITTEN" \in Flags(mem1, V1[k])
  <2>1. w1 = w /\ k \in r .. w - 1 /\ k \in 1 .. m
    BY <1>2, <1>7
  <2>2. V1[k] = V[k] /\ mem1[ByteWrap(V[k])] = mem[ByteWrap(V[k])]
    BY <1>2, <2>1 DEF Grown
  <2>. QED
    BY <1>7, <2>1, <2>2, SameHeader DEF Marked
<1>. QED
  BY <1>3, <1>4, <1>5, <1>6, <1>7 DEF Marked

\* Blocks that are as they were count as they did.
LEMMA PassedSame ==
    ASSUME NEW mem, NEW mem1, NEW V, NEW V1, NEW r, NEW w,
           \A k \in r .. w - 1 : Dummy(mem1, V1[k]) = Dummy(mem, V[k])
    PROVE  Passed(mem1, V1, r, w) = Passed(mem, V, r, w)
BY DEF Passed

\* prvAcquireItemNoSplit keeps the shape.
LEMMA AcquireKeeps ==
    ASSUME xBufferType = "NOSPLIT", NEW b, NEW m, NEW V, NEW r, NEW w,
           Shape(b, m, V, r, w), NEW n \in 0 .. xMaxItemSize,
           prvCheckItemFitsDefault(b, n), NEW tag \in Nat, NEW b1,
           b1 = prvAcquireItemNoSplit(b, n, tag)
    PROVE  \E m1, V1 :
              /\ Shape(b1, m1, V1, r, w)
              /\ Grown(b.mem, b1.mem, m, V, m1, V1) /\ NewBlocks(b1.mem, m, V1, m1)
              /\ ByteWrap(V1[m1]) + 8 = AcquiredItem(b, n)
              /\ SizeAt(b1.mem, V1[m1]) = n /\ TagAt(b1.mem, V1[m1]) = tag
              /\ m1 = m + 2 => Dummy(b1.mem, V1[m + 1])
<1>0. b \in ItemBlock /\ Spaced(m, V) /\ Laid(b.mem, m, V) /\ Ends(b, m, V)
      /\ Marked(b.mem, m, V, r, w) /\ m \in Nat /\ ~IsByteBuffer
      /\ Chained(b.mem, m, V)
  BY DEF Shape, Spaced, IsByteBuffer, Laid
<1>1. b1 \in ItemBlock /\ b1.read = b.read /\ b1.write = b.write /\ b1.waiting = b.waiting
  BY <1>0, AcquireGrows, AcquireFields
<1>2. PICK m1, V1 : /\ Grown(b.mem, b1.mem, m, V, m1, V1) /\ Ends(b1, m1, V1)
                    /\ ByteWrap(V1[m1]) + 8 = AcquiredItem(b, n)
                    /\ b1.mem[ByteWrap(V1[m1])] = Word(n, {}, tag)
                    /\ m1 = m + 2 =>
                         b1.mem[ByteWrap(V1[m + 1])] = Word(0, {"DUMMY"}, tag)
  BY <1>0, AcquireGrows
<1>3. PICK g, h : g = b.mem /\ h = b1.mem
  OBVIOUS
<1>4. /\ SizeAt(h, V1[m1]) = n /\ TagAt(h, V1[m1]) = tag
      /\ Flags(h, V1[m1]) = {}
      /\ m1 = m + 2 => Flags(h, V1[m + 1]) = {"DUMMY"} /\ Dummy(h, V1[m + 1])
  BY <1>2, <1>3, WordIs
<1>5. NewBlocks(h, m, V1, m1)
  BY <1>4 DEF NewBlocks
<1>6. Grown(g, h, m, V, m1, V1) /\ Laid(g, m, V) /\ Marked(g, m, V, r, w)
  BY <1>0, <1>2, <1>3
<1>7. Laid(h, m1, V1)
  BY <1>0, <1>5, <1>6, GrownLaid
<1>8. Marked(h, m1, V1, r, w)
  BY <1>0, <1>5, <1>6, GrownMarked
<1>9. r \in 1 .. m + 1 /\ w \in r .. m + 1
  BY <1>0 DEF Marked
<1>10. Spaced(m1, V1) /\ \A k \in 1 .. m + 1 : V1[k] = V[k]
  BY <1>2 DEF Grown
<1>11. V1[r] = V[r] /\ V1[w] = V[w]
  BY <1>0, <1>9, <1>10
<1>12. Passed(h, V1, r, w) = Passed(g, V, r, w)
  <2>1. ASSUME NEW k \in r .. w - 1 PROVE Dummy(h, V1[k]) = Dummy(g, V[k])
    <3>1. k \in 1 .. m /\ k \in 1 .. m + 1
      BY <1>0, <1>9
    <3>2. V1[k] = V[k] /\ h[ByteWrap(V[k])] = g[ByteWrap(V[k])]
      BY <1>6, <3>1 DEF Grown
    <3>. QED
      BY <3>2, SameHeader
  <2>. QED
    BY <2>1, PassedSame
<1>13. Shape(b1, m1, V1, r, w)
  BY <1>1, <1>2, <1>3, <1>7, <1>8, <1>10, <1>11, <1>12 DEF Shape
<1>. QED
  BY <1>2, <1>3, <1>4, <1>5, <1>13

(***************************************************************************)
(* Counting the items of a stretch of the chain.                           *)
(***************************************************************************)
\* 1 if one of the blocks r, ..., w - 1 is a first part, and 0 if none is.
Halves(mem, V, r, w) ==
    IF \E k \in r .. w - 1 : "SPLIT" \in Flags(mem, V[k]) THEN 1 ELSE 0

\* The items in the blocks r, ..., w - 1.
ItemsIn(mem, V, r, w) == Passed(mem, V, r, w) - Halves(mem, V, r, w)

\* Blocks and first parts in neighbouring stretches of the chain add up.
LEMMA PassedSum ==
    ASSUME ~IsByteBuffer, NEW mem, NEW m, NEW V, Spaced(m, V), Laid(mem, m, V),
           NEW r \in 1 .. m + 1, NEW w \in r .. m + 1, NEW w1 \in w .. m + 1
    PROVE  /\ Passed(mem, V, r, w1) = Passed(mem, V, r, w) + Passed(mem, V, w, w1)
           /\ Halves(mem, V, r, w1) = Halves(mem, V, r, w) + Halves(mem, V, w, w1)
           /\ Passed(mem, V, r, w) \in Int /\ Halves(mem, V, r, w) \in {0, 1}
<1>1. m \in Nat /\ r \in Nat /\ w \in Nat /\ w1 \in Nat
  BY DEF Spaced
<1> DEFINE D(k) == Dummy(mem, V[k])
           S(k) == "SPLIT" \in Flags(mem, V[k])
<1>2. \A k \in r .. w1 - 1 : k \in 1 .. m
  BY <1>1
<1>3. \A j, k \in 1 .. m : D(j) /\ D(k) => j = k
  BY DummyOnce
<1>4. \A j, k \in 1 .. m : S(j) /\ S(k) => j = k
  <2>1. \A j \in 1 .. m : S(j) => V[j + 1] = xSize
    BY DEF Laid
  <2>. QED
    BY <2>1, TailOnce
<1>5. \A k \in r .. w1 - 1 : k \in r .. w - 1 \/ k \in w .. w1 - 1
  BY <1>1
<1>6. /\ \A k \in r .. w - 1 : k \in r .. w1 - 1 /\ k \notin w .. w1 - 1
      /\ \A k \in w .. w1 - 1 : k \in r .. w1 - 1
  BY <1>1
<1> DEFINE d0 == IF \E k \in r .. w - 1 : D(k) THEN 1 ELSE 0
           d1 == IF \E k \in w .. w1 - 1 : D(k) THEN 1 ELSE 0
           d == IF \E k \in r .. w1 - 1 : D(k) THEN 1 ELSE 0
           s0 == IF \E k \in r .. w - 1 : S(k) THEN 1 ELSE 0
           s1 == IF \E k \in w .. w1 - 1 : S(k) THEN 1 ELSE 0
           s == IF \E k \in r .. w1 - 1 : S(k) THEN 1 ELSE 0
<1>7. d = d0 + d1 /\ d0 \in {0, 1} /\ d1 \in {0, 1}
  <2> HIDE DEF D
  <2>. QED
    BY <1>2, <1>3, <1>5, <1>6
<1>8. s = s0 + s1 /\ s0 \in {0, 1}
  <2> HIDE DEF S
  <2>. QED
    BY <1>2, <1>4, <1>5, <1>6
<1>9. /\ Passed(mem, V, r, w) = (w - r) - d0 /\ Passed(mem, V, w, w1) = (w1 - w) - d1
      /\ Passed(mem, V, r, w1) = (w1 - r) - d
  BY DEF Passed
<1>10. /\ Halves(mem, V, r, w) = s0 /\ Halves(mem, V, w, w1) = s1
       /\ Halves(mem, V, r, w1) = s
  BY DEF Halves
<1> HIDE DEF d, d0, d1, s, s0, s1
<1>. QED
  BY <1>1, <1>7, <1>8, <1>9, <1>10

\* One block, and one behind a dummy.
LEMMA PassedOne ==
    ASSUME NEW mem, NEW V, NEW w \in Nat, ~Dummy(mem, V[w])
    PROVE  Passed(mem, V, w, w + 1) = 1
<1>1. \A k \in w .. w + 1 - 1 : k = w
  OBVIOUS
<1>2. ~ \E k \in w .. w + 1 - 1 : Dummy(mem, V[k])
  BY <1>1
<1>. QED
  BY <1>2 DEF Passed

\* The retrievable blocks among two.
LEMMA PassedTwo ==
    ASSUME NEW mem, NEW V, NEW w \in Nat
    PROVE  Passed(mem, V, w, w + 2) =
             IF Dummy(mem, V[w]) \/ Dummy(mem, V[w + 1]) THEN 1 ELSE 2
<1>1. \A k : k \in w .. w + 2 - 1 <=> k = w \/ k = w + 1
  OBVIOUS
<1>2. (\E k \in w .. w + 2 - 1 : Dummy(mem, V[k]))
        <=> Dummy(mem, V[w]) \/ Dummy(mem, V[w + 1])
  BY <1>1
<1>. QED
  BY <1>2 DEF Passed

\* The first parts in one block.
LEMMA HalvesOne ==
    ASSUME NEW mem, NEW V, NEW w \in Nat
    PROVE  Halves(mem, V, w, w + 1) = IF "SPLIT" \in Flags(mem, V[w]) THEN 1 ELSE 0
<1>1. \A k : k \in w .. w + 1 - 1 <=> k = w
  OBVIOUS
<1>. QED
  BY <1>1 DEF Halves

\* The first parts among two blocks.
LEMMA HalvesTwo ==
    ASSUME NEW mem, NEW V, NEW w \in Nat
    PROVE  Halves(mem, V, w, w + 2) =
             IF \/ "SPLIT" \in Flags(mem, V[w])
                \/ "SPLIT" \in Flags(mem, V[w + 1]) THEN 1 ELSE 0
<1>1. \A k : k \in w .. w + 2 - 1 <=> k = w \/ k = w + 1
  OBVIOUS
<1>. QED
  BY <1>1 DEF Halves

\* First parts are told by the flags alone.
LEMMA HalvesSame ==
    ASSUME NEW mem, NEW mem1, NEW V, NEW V1, NEW r, NEW w,
           \A k \in r .. w - 1 : Flags(mem1, V1[k]) = Flags(mem, V[k])
    PROVE  Halves(mem1, V1, r, w) = Halves(mem, V, r, w)
BY DEF Halves

\* prvCopyItemAllowSplit keeps the shape, with one item more to retrieve.
LEMMA CopySplitKeeps ==
    ASSUME xBufferType = "ALLOWSPLIT", NEW b, NEW m, NEW V, NEW r, NEW w,
           Shape(b, m, V, r, w), NEW n \in 0 .. xMaxItemSize,
           prvCheckItemFitsDefault(b, n), NEW tag \in Nat, NEW b1,
           b1 = prvCopyItemAllowSplit(b, n, tag)
    PROVE  \E m1, V1 :
              /\ Shape(b1, m1, V1, r, m1 + 1)
              /\ Grown(b.mem, b1.mem, m, V, m1, V1) /\ NewBlocks(b1.mem, m, V1, m1)
              /\ ItemsIn(b1.mem, V1, r, m1 + 1) = ItemsIn(b.mem, V, r, w) + 1
<1>0. b \in ItemBlock /\ Spaced(m, V) /\ Laid(b.mem, m, V) /\ Ends(b, m, V)
      /\ Marked(b.mem, m, V, r, w) /\ m \in Nat /\ ~IsByteBuffer
      /\ Chained(b.mem, m, V) /\ b.waiting = Passed(b.mem, V, r, w)
      /\ b.read = ByteWrap(V[r])
  BY DEF Shape, Spaced, IsByteBuffer, Laid
<1>1. b1 \in ItemBlock /\ b1.read = b.read /\ b1.write = b1.acquire
  BY <1>0, CopySplitGrows
<1>2. PICK m1, V1 : /\ Grown(b.mem, b1.mem, m, V, m1, V1) /\ Ends(b1, m1, V1)
                    /\ SplitBlocks(b1.mem, m, V1, m1, b1.waiting - b.waiting)
  BY <1>0, CopySplitGrows
<1>3. PICK g, h : g = b.mem /\ h = b1.mem
  OBVIOUS
<1>4. PICK q, q1 \in Nat : q = b.waiting /\ q1 = b1.waiting
  BY <1>0, <1>1, ItemBlockFields
<1>5. SplitBlocks(h, m, V1, m1, q1 - q)
  BY <1>2, <1>3, <1>4
<1>6. NewBlocks(h, m, V1, m1)
  BY <1>5 DEF NewBlocks, SplitBlocks
<1>7. Grown(g, h, m, V, m1, V1) /\ Laid(g, m, V) /\ Marked(g, m, V, r, w)
  BY <1>0, <1>2, <1>3
<1>8. Laid(h, m1, V1)
  BY <1>0, <1>6, <1>7, GrownLaid
<1>9. Marked(h, m1, V1, r, m1 + 1)
  BY <1>0, <1>6, <1>7, GrownMarked
<1>10. r \in 1 .. m + 1 /\ w = m + 1 /\ r \in Nat
  BY <1>0 DEF Marked
<1>11. /\ Spaced(m1, V1) /\ m1 \in {m + 1, m + 2} /\ m1 \in Nat
       /\ \A k \in 1 .. m + 1 : V1[k] = V[k]
  BY <1>0, <1>2 DEF Grown
<1>12. V1[r] = V[r]
  BY <1>10, <1>11
<1>13. /\ Passed(h, V1, r, w) = Passed(g, V, r, w)
       /\ Halves(h, V1, r, w) = Halves(g, V, r, w)
  <2>1. ASSUME NEW k \in r .. w - 1
        PROVE  Dummy(h, V1[k]) = Dummy(g, V[k]) /\ Flags(h, V1[k]) = Flags(g, V[k])
    <3>1. k \in 1 .. m /\ k \in 1 .. m + 1
      BY <1>0, <1>10
    <3>2. V1[k] = V[k] /\ h[ByteWrap(V[k])] = g[ByteWrap(V[k])]
      BY <1>7, <3>1 DEF Grown
    <3>. QED
      BY <3>2, SameHeader
  <2>. QED
    BY <2>1, PassedSame, HalvesSame
<1>14. /\ Passed(h, V1, r, m1 + 1) = Passed(h, V1, r, w) + Passed(h, V1, w, m1 + 1)
       /\ Halves(h, V1, r, m1 + 1) = Halves(h, V1, r, w) + Halves(h, V1, w, m1 + 1)
       /\ Passed(h, V1, r, w) \in Int /\ Halves(h, V1, r, w) \in {0, 1}
  <2>1. r \in 1 .. m1 + 1 /\ w \in r .. m1 + 1 /\ m1 + 1 \in w .. m1 + 1
    BY <1>0, <1>10, <1>11
  <2>. QED
    BY <1>0, <1>8, <1>11, <2>1, PassedSum
<1>15. /\ Passed(h, V1, w, m1 + 1) = q1 - q
       /\ (q1 - q) - Halves(h, V1, w, m1 + 1) = 1
  <2>1. w \in Nat /\ ~Dummy(h, V1[m1]) /\ "SPLIT" \notin Flags(h, V1[m1])
    BY <1>0, <1>5, <1>10 DEF SplitBlocks, Dummy
  <2>2. CASE m1 = m + 1
    <3>1. m1 + 1 = w + 1 /\ m1 = w /\ q1 - q = 1
      BY <1>0, <1>5, <1>10, <2>2 DEF SplitBlocks
    <3>. QED
      BY <2>1, <3>1, PassedOne, HalvesOne
  <2>3. CASE m1 = m + 2
    <3>1. m1 + 1 = w + 2 /\ m1 = w + 1
      BY <1>0, <1>10, <2>3
    <3>2. \/ Flags(h, V1[w]) = {"SPLIT"} /\ q1 - q = 2
          \/ Flags(h, V1[w]) = {"DUMMY"} /\ q1 - q = 1
      BY <1>5, <1>10, <2>3 DEF SplitBlocks
    <3>3. CASE Flags(h, V1[w]) = {"SPLIT"} /\ q1 - q = 2
      <4>1. ~Dummy(h, V1[w]) /\ "SPLIT" \in Flags(h, V1[w])
        BY <3>3 DEF Dummy
      <4>. QED
        BY <2>1, <3>1, <3>3, <4>1, PassedTwo, HalvesTwo
    <3>4. CASE Flags(h, V1[w]) = {"DUMMY"} /\ q1 - q = 1
      <4>1. Dummy(h, V1[w]) /\ "SPLIT" \notin Flags(h, V1[w])
        BY <3>4 DEF Dummy
      <4>. QED
        BY <2>1, <3>1, <3>4, <4>1, PassedTwo, HalvesTwo
    <3>. QED
      BY <3>2, <3>3, <3>4
  <2>. QED
    BY <1>11, <2>2, <2>3
<1>16. q = Passed(g, V, r, w)
  BY <1>0, <1>3, <1>4
<1>17. q1 = Passed(h, V1, r, m1 + 1)
  BY <1>4, <1>13, <1>14, <1>15, <1>16
<1>18. ItemsIn(h, V1, r, m1 + 1) = ItemsIn(g, V, r, w) + 1
  <2>1. PICK x, y, z : /\ x = Halves(h, V1, r, w) /\ y = Halves(h, V1, w, m1 + 1)
                       /\ z = Passed(h, V1, w, m1 + 1)
    OBVIOUS
  <2>2. x \in {0, 1} /\ y \in {0, 1} /\ z = q1 - q /\ z - y = 1
    BY <1>15, <2>1, <1>14 DEF Halves
  <2>. QED
    BY <1>4, <1>13, <1>14, <1>16, <1>17, <2>1, <2>2 DEF ItemsIn
<1>19. Shape(b1, m1, V1, r, m1 + 1)
  <2>1. b1.write = ByteWrap(V1[m1 + 1])
    BY <1>1, <1>2 DEF Ends
  <2>. QED
    BY <1>0, <1>1, <1>2, <1>3, <1>4, <1>8, <1>9, <1>11, <1>12, <1>17, <2>1 DEF Shape
<1>. QED
  BY <1>2, <1>3, <1>6, <1>18, <1>19

(***************************************************************************)
(* Completing an item: the block is marked.                                *)
(***************************************************************************)
\* The block is the same but for the flags, and as much a dummy as before.
SameBlock(mem, mem1, v) ==
    /\ SizeAt(mem1, v) = SizeAt(mem, v) /\ TagAt(mem1, v) = TagAt(mem, v)
    /\ Dummy(mem1, v) = Dummy(mem, v)

\* Blocks of the same sizes make the same chain.
LEMMA SameChain ==
    ASSUME NEW mem, NEW mem1, NEW m, NEW V, Chained(mem, m, V),
           \A k \in 1 .. m : SameBlock(mem, mem1, V[k])
    PROVE  Chained(mem1, m, V)
BY DEF Chained, SameBlock, Follows

\* The headers that a pointer passes on its way from block i to block j.
Between(mem, V, i, j) == {ByteWrap(V[k]) : k \in {x \in i .. j - 1 : Dummy(mem, V[x])}}

\* The dummies on the first stop headers of a path.
DummiesOn(g, path, stop) ==
    {path[k] : k \in {j \in 0 .. stop - 1 : "DUMMY" \in g[path[j]].uxItemFlags}}

\* A loop that goes along path from block i on ends at block j.
EndsAt(mem, m, V, i, j, path, ends) ==
    /\ mem \in Memory /\ Spaced(m, V) /\ Chained(mem, m, V)
    /\ i \in 1 .. m + 1 /\ j \in i .. m + 1
    /\ path = HeadersFrom(mem, ByteWrap(V[i]))
    /\ DOMAIN ends = 0 .. MaxHeaders
    /\ ends[j - i] /\ \A k \in i .. j - 1 : ~ends[k - i]

\* The pointer is then at block j.
LEMMA PointerStops ==
    ASSUME ~IsByteBuffer, NEW mem, NEW m, NEW V, NEW i, NEW j, NEW path, NEW ends,
           EndsAt(mem, m, V, i, j, path, ends),
           NEW stop, stop = FirstStop(ends)
    PROVE  /\ stop = j - i /\ path[stop] = ByteWrap(V[j])
           /\ DummiesOn(mem, path, stop) = Between(mem, V, i, j)
<1> USE DEF EndsAt
<1>1. m \in Nat /\ MaxHeaders \in Nat /\ i \in Nat /\ j \in Nat
  <2>1. m \in Nat
    BY DEF Spaced
  <2>2. MaxHeaders \in Nat
    BY ItemSize DEF MaxHeaders, rbHEADER_SIZE
  <2>. QED
    BY <2>1, <2>2
<1>2. \A k \in 0 .. m + 1 - i : k \in 0 .. MaxHeaders /\ path[k] = ByteWrap(V[i + k])
  BY PathIs
<1>3. j - i \in 0 .. m + 1 - i
  BY <1>1
<1>4. \A k \in 0 .. (j - i) - 1 : ~ends[k]
  <2>1. TAKE k \in 0 .. (j - i) - 1
  <2>2. i + k \in i .. j - 1 /\ (i + k) - i = k
    BY <1>1
  <2>. QED
    BY <2>2
<1>5. stop = j - i
  BY <1>1, <1>2, <1>3, <1>4, FirstStopIs
<1>6. path[stop] = ByteWrap(V[j])
  <2>1. i + (j - i) = j
    BY <1>1
  <2>. QED
    BY <1>2, <1>3, <1>5, <2>1
<1>7. ASSUME NEW x \in 0 .. stop - 1
      PROVE  /\ i + x \in i .. j - 1 /\ path[x] = ByteWrap(V[i + x])
             /\ "DUMMY" \in mem[path[x]].uxItemFlags <=> Dummy(mem, V[i + x])
  <2>1. x \in 0 .. m + 1 - i /\ i + x \in i .. j - 1
    BY <1>1, <1>5
  <2>. QED
    BY <1>2, <2>1 DEF Dummy, Flags
<1>8. ASSUME NEW k \in i .. j - 1
      PROVE  k - i \in 0 .. stop - 1 /\ i + (k - i) = k
  BY <1>1, <1>5
<1>9. DummiesOn(mem, path, stop) = Between(mem, V, i, j)
  <2>1. ASSUME NEW x \in 0 .. stop - 1, "DUMMY" \in mem[path[x]].uxItemFlags
        PROVE  path[x] \in Between(mem, V, i, j)
    BY <1>7, <2>1 DEF Between
  <2>2. ASSUME NEW k \in i .. j - 1, Dummy(mem, V[k])
        PROVE  \E x \in 0 .. stop - 1 : /\ "DUMMY" \in mem[path[x]].uxItemFlags
                                        /\ ByteWrap(V[k]) = path[x]
    <3>1. k - i \in 0 .. stop - 1 /\ i + (k - i) = k
      BY <1>8
    <3>. QED
      BY <1>7, <2>2, <3>1
  <2>. QED
    BY <2>1, <2>2 DEF Between, DummiesOn
<1>. QED
  BY <1>5, <1>6, <1>9

\* Which blocks those are.
LEMMA BetweenIs ==
    ASSUME ~IsByteBuffer, NEW mem, NEW m, NEW V, Spaced(m, V),
           NEW i \in 1 .. m + 1, NEW j \in i .. m + 1, NEW k \in 1 .. m
    PROVE  ByteWrap(V[k]) \in Between(mem, V, i, j)
             <=> k \in i .. j - 1 /\ Dummy(mem, V[k])
<1>1. m \in Nat
  BY DEF Spaced
<1>2. ASSUME NEW x \in i .. j - 1, ByteWrap(V[k]) = ByteWrap(V[x])
      PROVE  x = k
  <2>1. x \in 1 .. m + 1 /\ k \in 1 .. m + 1 /\ x # m + 1 /\ k # m + 1
    BY <1>1
  <2>. QED
    BY <1>2, <2>1, Apart
<1>. QED
  BY <1>2 DEF Between

\* The storage once prvSendItemDoneNoSplit has marked the header.
SentMem(mem, item, n, tag) ==
    SetFlags(Fill(mem, item, n, Word(0, {}, tag)), item - rbHEADER_SIZE,
             {"WRITTEN"}, {"SPLIT"})

\* The header of block i is marked WRITTEN.
BlockWritten(mem, g, m, V, i) ==
    /\ g \in Memory /\ Chained(g, m, V)
    /\ \A k \in 1 .. m :
         /\ SameBlock(mem, g, V[k])
         /\ Flags(g, V[k]) = IF k = i THEN Flags(mem, V[k]) \cup {"WRITTEN"}
                             ELSE Flags(mem, V[k])

\* prvSendItemDoneNoSplit marks the block of the handle WRITTEN, and fills its data.
LEMMA WrittenIs ==
    ASSUME xBufferType = "NOSPLIT", NEW mem \in Memory, NEW m, NEW V, Spaced(m, V),
           Laid(mem, m, V), NEW i \in 1 .. m, ~Dummy(mem, V[i]), NEW tag \in Nat,
           NEW g,
           g = SentMem(mem, ByteWrap(V[i]) + rbHEADER_SIZE, SizeAt(mem, V[i]), tag)
    PROVE  BlockWritten(mem, g, m, V, i)
<1>0. ~IsByteBuffer /\ Chained(mem, m, V) /\ m \in Nat
  BY DEF IsByteBuffer, Laid, Spaced
<1>1. \A k \in 1 .. m : V[k] \in Addr /\ ByteWrap(V[k]) \in Words
                        /\ ByteWrap(V[k]) \in Nat
  <2>1. \A k \in 1 .. m : V[k] \in Addr
    BY <1>0 DEF Spaced
  <2>. QED
    BY <1>0, <2>1, AddrIs
<1>2. PICK p, n \in Nat : p = ByteWrap(V[i]) /\ n = SizeAt(mem, V[i]) /\ p \in Words
  BY <1>0, <1>1, HeaderIs
<1>a. PICK a \in Nat : a = p + 8 /\ a = p + rbHEADER_SIZE
                       /\ a - rbHEADER_SIZE = p
  BY <1>2 DEF rbHEADER_SIZE
<1> DEFINE f == Fill(mem, a, n, Word(0, {}, tag))
<1>3. f \in Memory /\ Outside(mem, f, p + 8, p + 8 + n)
  <2>1. f \in Memory /\ Outside(mem, f, a, a + n)
    BY FillIs
  <2>. QED
    BY <1>a, <2>1
<1>4. ASSUME NEW k \in 1 .. m PROVE f[ByteWrap(V[k])] = mem[ByteWrap(V[k])]
  <2>1. ByteWrap(V[k]) < p + 8 \/ p + 8 + n <= ByteWrap(V[k])
    BY <1>0, <1>2, DataSpared
  <2>. QED
    BY <1>1, <1>3, <2>1 DEF Outside
<1> HIDE DEF f
<1>5. /\ g \in Memory
      /\ \A q \in Words : q # p => g[q] = f[q]
      /\ g[p].uxItemFlags = (f[p].uxItemFlags \cup {"WRITTEN"}) \ {"SPLIT"}
      /\ g[p].xItemLen = f[p].xItemLen /\ g[p].tag = f[p].tag
  <2>1. g = SetFlags(f, p, {"WRITTEN"}, {"SPLIT"})
    <3>1. g = SentMem(mem, a, n, tag)
      BY <1>2, <1>a
    <3>2. g = SetFlags(f, a - rbHEADER_SIZE, {"WRITTEN"}, {"SPLIT"})
      BY <3>1 DEF f, SentMem
    <3>. QED
      BY <1>a, <3>2
  <2>2. {"WRITTEN"} \in SUBSET FlagNames
    BY DEF FlagNames
  <2>3. Flagged(f, g, p, {"WRITTEN"}, {"SPLIT"})
    BY <1>2, <1>3, <2>1, <2>2, SetFlagsIs
  <2>. QED
    BY <2>3 DEF Flagged
<1>6. ASSUME NEW k \in 1 .. m
      PROVE  /\ SameBlock(mem, g, V[k])
             /\ Flags(g, V[k]) = IF k = i THEN Flags(mem, V[k]) \cup {"WRITTEN"}
                                 ELSE Flags(mem, V[k])
  <2>1. CASE k = i
    <3>1. "SPLIT" \notin Flags(mem, V[i])
      BY DEF Laid
    <3>2. f[p] = mem[p]
      BY <1>2, <1>4
    <3>3. Flags(g, V[k]) = Flags(mem, V[k]) \cup {"WRITTEN"}
      BY <1>2, <1>5, <2>1, <3>1, <3>2 DEF Flags
    <3>4. SizeAt(g, V[k]) = SizeAt(mem, V[k]) /\ TagAt(g, V[k]) = TagAt(mem, V[k])
      BY <1>2, <1>5, <2>1, <3>2 DEF SizeAt, TagAt
    <3>. QED
      BY <2>1, <3>3, <3>4 DEF SameBlock, Dummy
  <2>2. CASE k # i
    <3>1. k \in 1 .. m + 1 /\ i \in 1 .. m + 1 /\ k # m + 1 /\ i # m + 1
      BY <1>0
    <3>2. ByteWrap(V[k]) # ByteWrap(V[i])
      BY <1>0, <2>2, <3>1, Apart
    <3>3. g[ByteWrap(V[k])] = mem[ByteWrap(V[k])]
      BY <1>1, <1>2, <1>4, <1>5, <3>2
    <3>. QED
      BY <2>2, <3>3, SameHeader DEF SameBlock
  <2>. QED
    BY <2>1, <2>2
<1>7. Chained(g, m, V)
  BY <1>0, <1>6, SameChain
<1>. QED
  BY <1>5, <1>6, <1>7 DEF BlockWritten

(***************************************************************************)
(* Completing an item: the write pointer.                                  *)
(***************************************************************************)
\* Where the loop of prvSendItemDoneNoSplit ends.
SentStops(g, path, acquire) ==
    [k \in 0 .. MaxHeaders |->
        \/ k > 0 /\ path[k] = acquire
        \/ ~(g[path[k]].uxItemFlags \cap {"WRITTEN", "DUMMY"} # {})]

DoneTo(b, b1, g, path, stop) ==
    b1 = [b EXCEPT !.write = path[stop], !.waiting = @ + 1,
                   !.mem = Mark(g, DummiesOn(g, path, stop), "WRITTEN")]

\* prvSendItemDoneNoSplit moves the write pointer to the end of its walk.
LEMMA DoneIs ==
    ASSUME NEW b \in ItemBlock, NEW item, NEW n, NEW tag
    PROVE  LET g    == SentMem(b.mem, item, n, tag)
               path == HeadersFrom(g, b.write)
               stop == FirstStop(SentStops(g, path, b.acquire))
           IN  DoneTo(b, prvSendItemDoneNoSplit(b, item, n, tag), g, path, stop)
BY DEF prvSendItemDoneNoSplit, Mark, SentMem, SentStops, DummiesOn, DoneTo

\* Where the write pointer goes once block i is sent: past it, and past a
\* dummy behind it.
NextUnsent(mem, m, V, i) ==
    IF i < m /\ Dummy(mem, V[i + 1]) THEN i + 2 ELSE i + 1

\* NextUnsent is the first block behind i that is not a dummy, or the end.
LEMMA NextUnsentIs ==
    ASSUME ~IsByteBuffer, NEW mem, NEW m, NEW V, Spaced(m, V), Laid(mem, m, V),
           NEW i \in 1 .. m, NEW w1, w1 = NextUnsent(mem, m, V, i)
    PROVE  /\ w1 \in i + 1 .. m + 1
           /\ \A k \in i + 1 .. w1 - 1 : Dummy(mem, V[k])
           /\ w1 # m + 1 => ~Dummy(mem, V[w1])
<1>1. m \in Nat
  BY DEF Spaced
<1>2. CASE i < m /\ Dummy(mem, V[i + 1])
  <2>1. w1 = i + 2 /\ i + 1 \in 1 .. m
    BY <1>1, <1>2 DEF NextUnsent
  <2>2. i + 1 < m
    BY <1>2, <2>1, DummyOnce
  <2>3. i + 2 \in 1 .. m /\ i + 2 # i + 1
    BY <1>1, <2>2
  <2>4. ~Dummy(mem, V[i + 2])
    BY <1>2, <2>1, <2>3, DummyOnce
  <2>5. \A k \in i + 1 .. w1 - 1 : k = i + 1
    BY <1>1, <2>1
  <2>. QED
    BY <1>1, <1>2, <2>1, <2>2, <2>4, <2>5
<1>3. CASE ~(i < m /\ Dummy(mem, V[i + 1]))
  <2>1. w1 = i + 1
    BY <1>3 DEF NextUnsent
  <2>. QED
    BY <1>1, <1>3, <2>1
<1>. QED
  BY <1>2, <1>3

\* Among the blocks w, ..., w1 - 1 only block i is not a dummy.
LEMMA OneSent ==
    ASSUME ~IsByteBuffer, NEW mem, NEW m, NEW V, Spaced(m, V), Laid(mem, m, V),
           NEW w \in 1 .. m, NEW i \in w .. m, NEW w1 \in i + 1 .. m + 1,
           ~Dummy(mem, V[i]), \A k \in w .. i - 1 : Dummy(mem, V[k]),
           \A k \in i + 1 .. w1 - 1 : Dummy(mem, V[k])
    PROVE  Passed(mem, V, w, w1) = 1
<1>1. m \in Nat /\ i \in Nat /\ w \in Nat /\ w1 \in Nat
  BY DEF Spaced
<1>2. \A j, k \in 1 .. m : Dummy(mem, V[j]) /\ Dummy(mem, V[k]) => j = k
  BY DummyOnce
<1>3. ~(i > w + 1)
  <2>1. SUFFICES ASSUME i > w + 1 PROVE FALSE
    OBVIOUS
  <2>2. w \in w .. i - 1 /\ w + 1 \in w .. i - 1 /\ w \in 1 .. m /\ w + 1 \in 1 .. m
    BY <1>1, <2>1
  <2>. QED
    BY <1>1, <1>2, <2>2
<1>4. ~(w1 > i + 2)
  <2>1. SUFFICES ASSUME w1 > i + 2 PROVE FALSE
    OBVIOUS
  <2>2. i + 1 \in i + 1 .. w1 - 1 /\ i + 2 \in i + 1 .. w1 - 1
        /\ i + 1 \in 1 .. m /\ i + 2 \in 1 .. m
    BY <1>1, <2>1
  <2>. QED
    BY <1>1, <1>2, <2>2
<1>5. ~(i = w + 1 /\ w1 = i + 2)
  <2>1. SUFFICES ASSUME i = w + 1, w1 = i + 2 PROVE FALSE
    OBVIOUS
  <2>2. w \in w .. i - 1 /\ i + 1 \in i + 1 .. w1 - 1
        /\ w \in 1 .. m /\ i + 1 \in 1 .. m
    BY <1>1, <2>1
  <2>. QED
    BY <1>1, <1>2, <2>1, <2>2
<1>6. CASE i = w /\ w1 = w + 1
  BY <1>1, <1>6, PassedOne
<1>7. CASE i = w /\ w1 = w + 2
  <2>1. w + 1 \in i + 1 .. w1 - 1
    BY <1>1, <1>7
  <2>. QED
    BY <1>1, <1>7, <2>1, PassedTwo
<1>8. CASE i = w + 1 /\ w1 = w + 2
  <2>1. w \in w .. i - 1
    BY <1>1, <1>8
  <2>. QED
    BY <1>1, <1>8, <2>1, PassedTwo
<1>9. \/ i = w /\ w1 = w + 1
      \/ i = w /\ w1 = w + 2
      \/ i = w + 1 /\ w1 = w + 2
  BY <1>1, <1>3, <1>4, <1>5
<1>. QED
  BY <1>6, <1>7, <1>8, <1>9

\* Block i, the first that is not sent, is sent now.
FirstUnsent(mem, m, V, w, i) ==
    /\ i \in w .. m /\ ~Dummy(mem, V[i])
    /\ \A k \in w .. i - 1 : Dummy(mem, V[k])

\* The write pointer has gone to v, with one item more to retrieve.
WriteAt(b, b1, v, mem) ==
    b1 = [b EXCEPT !.write = v, !.waiting = @ + 1, !.mem = mem]

\* The other fields stay as they are.
LEMMA DoneFields ==
    ASSUME NEW b \in ItemBlock, NEW v \in Words, NEW mem \in Memory, NEW b1,
           WriteAt(b, b1, v, mem)
    PROVE  /\ b1 \in ItemBlock /\ b1.mem = mem /\ b1.write = v
           /\ b1.waiting = b.waiting + 1 /\ b1.acquire = b.acquire
           /\ b1.read = b.read /\ b1.free = b.free /\ b1.full = b.full
<1>1. PICK c \in Nat : c = b.waiting + 1
  BY ItemBlockFields
<1>2. b1 = [b EXCEPT !.write = v, !.waiting = c, !.mem = mem]
  BY <1>1 DEF WriteAt
<1>. QED
  BY <1>1, <1>2 DEF ItemBlock

Completed(b, b1, m, V, r, i, w1) ==
    /\ w1 \in i + 1 .. m + 1
    /\ Shape(b1, m, V, r, w1) /\ b1.waiting = b.waiting + 1
    /\ \A k \in i + 1 .. w1 - 1 : Dummy(b.mem, V[k])
    /\ \A k \in 1 .. m : /\ SameBlock(b.mem, b1.mem, V[k])
                         /\ Live(b1.mem, V[k]) = Live(b.mem, V[k])

\* prvSendItemDoneNoSplit keeps the shape and moves the write pointer past the
\* block, and past dummies, which the reader will skip.
LEMMA DoneKeeps ==
    ASSUME xBufferType = "NOSPLIT", NEW b, NEW m, NEW V, NEW r, NEW w,
           Shape(b, m, V, r, w), NEW i, FirstUnsent(b.mem, m, V, w, i),
           NEW tag \in Nat, NEW b1,
           b1 = prvSendItemDoneNoSplit(b, ByteWrap(V[i]) + rbHEADER_SIZE,
                                       SizeAt(b.mem, V[i]), tag)
    PROVE  \E w1 : Completed(b, b1, m, V, r, i, w1)
<1>0. b \in ItemBlock /\ Spaced(m, V) /\ Laid(b.mem, m, V) /\ Ends(b, m, V)
      /\ Marked(b.mem, m, V, r, w) /\ m \in Nat /\ ~IsByteBuffer
      /\ Chained(b.mem, m, V) /\ b.waiting = Passed(b.mem, V, r, w)
      /\ b.read = ByteWrap(V[r]) /\ b.write = ByteWrap(V[w])
  BY DEF Shape, Spaced, IsByteBuffer, Laid
<1>1. r \in 1 .. m + 1 /\ w \in r .. m + 1 /\ i \in w .. m /\ ~Dummy(b.mem, V[i])
      /\ (\A k \in w .. i - 1 : Dummy(b.mem, V[k]))
  BY <1>0 DEF Marked, FirstUnsent
<1>2. i \in 1 .. m /\ w \in 1 .. m /\ r \in Nat /\ w \in Nat /\ i \in Nat
      /\ w \in 1 .. m + 1
  BY <1>0, <1>1
<1>3. PICK h \in Memory : h = b.mem
  BY <1>0, ItemBlockFields
<1>5. PICK item, n : item = ByteWrap(V[i]) + rbHEADER_SIZE /\ n = SizeAt(h, V[i])
  OBVIOUS
<1>g. PICK g : g = SentMem(h, item, n, tag)
  OBVIOUS
<1>6. BlockWritten(h, g, m, V, i)
  BY <1>0, <1>1, <1>2, <1>3, <1>5, <1>g, WrittenIs
<1>7. PICK path : path = HeadersFrom(g, b.write)
  OBVIOUS
<1>8. PICK ends : ends = SentStops(g, path, b.acquire)
  OBVIOUS
<1>9. PICK stop : stop = FirstStop(ends)
  OBVIOUS
<1>10. PICK w1 : w1 = NextUnsent(h, m, V, i)
  OBVIOUS
<1>11. /\ w1 \in i + 1 .. m + 1 /\ w1 \in w .. m + 1 /\ w1 \in Nat
       /\ \A k \in i + 1 .. w1 - 1 : Dummy(h, V[k])
       /\ w1 # m + 1 => ~Dummy(h, V[w1])
  BY <1>0, <1>1, <1>2, <1>3, <1>10, NextUnsentIs
<1>12. \A k \in w .. w1 - 1 : k = i \/ Dummy(h, V[k])
  BY <1>1, <1>2, <1>3, <1>11
<1>13. /\ stop = w1 - w /\ path[stop] = ByteWrap(V[w1])
       /\ DummiesOn(g, path, stop) = Between(g, V, w, w1)
  <2>0. MaxHeaders \in Nat /\ DOMAIN ends = 0 .. MaxHeaders
    BY <1>0, <1>8, ItemSize DEF MaxHeaders, rbHEADER_SIZE, SentStops
  <2>1. g \in Memory /\ Chained(g, m, V)
    BY <1>6 DEF BlockWritten
  <2>2. path = HeadersFrom(g, ByteWrap(V[w]))
    BY <1>0, <1>7
  <2>3. \A k \in 0 .. m + 1 - w : /\ k \in 0 .. MaxHeaders
                                  /\ path[k] = ByteWrap(V[w + k])
    BY <1>0, <1>2, <2>1, <2>2, PathIs
  <2>4. ASSUME NEW k \in w .. m + 1
        PROVE  ends[k - w] <=> \/ k - w > 0 /\ ByteWrap(V[k]) = ByteWrap(V[m + 1])
                               \/ Flags(g, V[k]) \cap {"WRITTEN", "DUMMY"} = {}
    <3>1. k - w \in 0 .. m + 1 - w /\ w + (k - w) = k
      BY <1>0, <1>2
    <3>2. path[k - w] = ByteWrap(V[k]) /\ k - w \in 0 .. MaxHeaders
      BY <2>3, <3>1
    <3>. QED
      BY <1>0, <1>8, <3>2 DEF SentStops, Flags, Ends
  <2>5. ends[w1 - w]
    <3>1. CASE w1 = m + 1
      BY <1>0, <1>2, <1>11, <2>4, <3>1
    <3>2. CASE w1 # m + 1
      <4>1. w1 \in 1 .. m /\ w1 # i /\ w1 \in w .. m
        BY <1>0, <1>2, <1>11, <3>2
      <4>2. Flags(g, V[w1]) = Flags(h, V[w1])
        BY <1>6, <4>1 DEF BlockWritten
      <4>3. "WRITTEN" \notin Flags(h, V[w1]) /\ "DUMMY" \notin Flags(h, V[w1])
        BY <1>0, <1>3, <1>11, <3>2, <4>1 DEF Marked, Dummy
      <4>. QED
        BY <1>11, <2>4, <4>2, <4>3
    <3>. QED
      BY <3>1, <3>2
  <2>6. \A k \in w .. w1 - 1 : ~ends[k - w]
    <3>1. TAKE k \in w .. w1 - 1
    <3>2. k \in 1 .. m /\ k \in w .. m + 1
      BY <1>0, <1>2, <1>11
    <3>3. Flags(g, V[k]) \cap {"WRITTEN", "DUMMY"} # {}
      <4>1. CASE k = i
        BY <1>6, <3>2, <4>1 DEF BlockWritten
      <4>2. CASE Dummy(h, V[k])
        <5>1. Dummy(g, V[k])
          BY <1>6, <3>2, <4>2 DEF BlockWritten, SameBlock
        <5>. QED
          BY <5>1 DEF Dummy
      <4>. QED
        BY <1>12, <4>1, <4>2
    <3>4. k - w > 0 => ByteWrap(V[k]) # ByteWrap(V[m + 1])
      <4>1. SUFFICES ASSUME k - w > 0 PROVE ByteWrap(V[k]) # ByteWrap(V[m + 1])
        OBVIOUS
      <4>2. k # 1 /\ k # m + 1 /\ k \in 1 .. m + 1 /\ m + 1 \in 1 .. m + 1
        BY <1>0, <1>2, <3>2, <4>1
      <4>. QED
        BY <1>0, <4>2, Apart
    <3>. QED
      BY <2>4, <3>2, <3>3, <3>4
  <2>. QED
    <3>1. EndsAt(g, m, V, w, w1, path, ends)
      BY <1>0, <1>2, <1>11, <2>0, <2>1, <2>2, <2>5, <2>6 DEF EndsAt
    <3>. QED
      BY <1>0, <1>9, <3>1, PointerStops
<1>14. DoneTo(b, b1, g, path, stop)
  BY <1>0, <1>3, <1>5, <1>g, <1>7, <1>8, <1>9, DoneIs
<1>15. PICK h1 : h1 = Mark(g, Between(g, V, w, w1), "WRITTEN")
  OBVIOUS
<1>16. Marks(g, h1, Between(g, V, w, w1), "WRITTEN")
  <2>1. g \in Memory /\ "WRITTEN" \in FlagNames
    BY <1>6 DEF BlockWritten, FlagNames
  <2>. QED
    BY <1>15, <2>1, MarkIs
<1>17. ASSUME NEW k \in 1 .. m
       PROVE  /\ SameBlock(h, h1, V[k])
              /\ Flags(h1, V[k]) = IF k \in w .. w1 - 1
                                   THEN Flags(h, V[k]) \cup {"WRITTEN"}
                                   ELSE Flags(h, V[k])
  <2>1. /\ SameBlock(h, g, V[k])
        /\ Flags(g, V[k]) = IF k = i THEN Flags(h, V[k]) \cup {"WRITTEN"}
                            ELSE Flags(h, V[k])
    BY <1>6 DEF BlockWritten
  <2>2. ByteWrap(V[k]) \in Words
    BY <1>0, AddrIs DEF Spaced
  <2>3. /\ SizeAt(h1, V[k]) = SizeAt(g, V[k]) /\ TagAt(h1, V[k]) = TagAt(g, V[k])
        /\ Flags(h1, V[k]) = IF ByteWrap(V[k]) \in Between(g, V, w, w1)
                             THEN Flags(g, V[k]) \cup {"WRITTEN"}
                             ELSE Flags(g, V[k])
    BY <1>16, <2>2 DEF SizeAt, TagAt, Flags, Marks
  <2>4. ByteWrap(V[k]) \in Between(g, V, w, w1)
          <=> k \in w .. w1 - 1 /\ Dummy(g, V[k])
    BY <1>0, <1>2, <1>11, BetweenIs
  <2>5. i \in w .. w1 - 1
    BY <1>1, <1>2, <1>11
  <2>6. Dummy(g, V[k]) = Dummy(h, V[k])
    BY <2>1 DEF SameBlock
  <2>7. Flags(h1, V[k]) = IF k \in w .. w1 - 1
                          THEN Flags(h, V[k]) \cup {"WRITTEN"}
                          ELSE Flags(h, V[k])
    BY <1>12, <2>1, <2>3, <2>4, <2>5, <2>6
  <2>8. Dummy(h1, V[k]) = Dummy(h, V[k])
    BY <2>7 DEF Dummy
  <2>. QED
    BY <2>1, <2>3, <2>7, <2>8 DEF SameBlock
<1>18. \A k \in 1 .. m : Live(h1, V[k]) = Live(h, V[k])
  BY <1>17 DEF Live
<1>19. b1.mem = h1 /\ b1.write = ByteWrap(V[w1]) /\ b1.waiting = b.waiting + 1
       /\ b1.acquire = b.acquire /\ b1.read = b.read /\ b1.free = b.free
       /\ b1.full = b.full /\ b1 \in ItemBlock
  <2>1. h1 \in Memory
    BY <1>16 DEF Marks
  <2>2. ByteWrap(V[w1]) \in Words
    BY <1>0, <1>2, <1>11, AddrIs DEF Spaced
  <2>3. PICK v \in Words : v = ByteWrap(V[w1])
    BY <2>2
  <2>4. WriteAt(b, b1, v, h1)
    BY <1>13, <1>14, <1>15, <2>3 DEF DoneTo, WriteAt
  <2>5. /\ b1 \in ItemBlock /\ b1.mem = h1 /\ b1.write = v
        /\ b1.waiting = b.waiting + 1 /\ b1.acquire = b.acquire
        /\ b1.read = b.read /\ b1.free = b.free /\ b1.full = b.full
    BY <1>0, <2>1, <2>4, DoneFields
  <2>. QED
    BY <2>3, <2>5
<1>20. Laid(h1, m, V)
  <2>1. Chained(h1, m, V)
    BY <1>0, <1>3, <1>17, SameChain
  <2>2. m > 0 => ~Dummy(h1, V[m])
    <3>1. m > 0 => m \in 1 .. m /\ ~Dummy(h, V[m])
      BY <1>0, <1>3 DEF Laid
    <3>2. \A k \in 1 .. m : Dummy(h1, V[k]) = Dummy(h, V[k])
      BY <1>17 DEF SameBlock
    <3>. QED
      BY <3>1, <3>2
  <2>3. \A k \in 1 .. m : "SPLIT" \notin Flags(h1, V[k])
    <3>1. \A k \in 1 .. m : "SPLIT" \notin Flags(h, V[k])
      BY <1>0, <1>3 DEF Laid
    <3>2. TAKE k \in 1 .. m
    <3>3. Flags(h1, V[k]) \in {Flags(h, V[k]), Flags(h, V[k]) \cup {"WRITTEN"}}
      BY <1>17
    <3>. QED
      BY <3>1, <3>3
  <2>. QED
    BY <2>1, <2>2, <2>3 DEF Laid
<1>21. Marked(h1, m, V, r, w1)
  <2>1. r \in 1 .. m + 1 /\ w1 \in r .. m + 1
    BY <1>1, <1>2, <1>11
  <2>2. \A k \in r .. m : "FREE" \notin Flags(h1, V[k])
    <3>1. \A k \in r .. m : k \in 1 .. m /\ "FREE" \notin Flags(h, V[k])
      BY <1>0, <1>1, <1>3 DEF Marked
    <3>2. TAKE k \in r .. m
    <3>3. Flags(h1, V[k]) \in {Flags(h, V[k]), Flags(h, V[k]) \cup {"WRITTEN"}}
      BY <1>17, <3>1
    <3>. QED
      BY <3>1, <3>3
  <2>3. r > 1 => \E k \in 1 .. r - 1 : Live(h1, V[k])
    <3>1. \A k \in 1 .. r - 1 : k \in 1 .. m
      BY <1>0, <1>1
    <3>. QED
      BY <1>0, <1>3, <1>18, <3>1 DEF Marked
  <2>4. \A k \in w1 .. m : "WRITTEN" \notin Flags(h1, V[k])
    <3>1. \A k \in w1 .. m : k \in 1 .. m /\ k \notin w .. w1 - 1 /\ k \in w .. m
      BY <1>0, <1>2, <1>11
    <3>. QED
      BY <1>0, <1>3, <1>17, <3>1 DEF Marked
  <2>5. \A k \in r .. w1 - 1 : "WRITTEN" \in Flags(h1, V[k])
    <3>1. \A k \in r .. w1 - 1 : k \in 1 .. m /\ (k \in w .. w1 - 1 \/ k \in r .. w - 1)
      BY <1>0, <1>1, <1>2, <1>11
    <3>2. \A k \in r .. w - 1 : "WRITTEN" \in Flags(h, V[k])
      BY <1>0, <1>3 DEF Marked
    <3>. QED
      BY <1>17, <3>1, <3>2
  <2>. QED
    BY <2>1, <2>2, <2>3, <2>4, <2>5 DEF Marked
<1>22. b1.waiting = Passed(h1, V, r, w1)
  <2>1. Passed(h, V, w, w1) = 1
    BY <1>0, <1>1, <1>2, <1>3, <1>11, OneSent
  <2>2. Passed(h, V, r, w1) = Passed(h, V, r, w) + Passed(h, V, w, w1)
    BY <1>0, <1>1, <1>3, <1>11, PassedSum
  <2>3. Passed(h1, V, r, w1) = Passed(h, V, r, w1)
    <3>1. \A k \in r .. w1 - 1 : k \in 1 .. m
      BY <1>0, <1>1, <1>11
    <3>2. \A k \in r .. w1 - 1 : Dummy(h1, V[k]) = Dummy(h, V[k])
      BY <1>17, <3>1 DEF SameBlock
    <3>. QED
      BY <3>2, PassedSame
  <2>. QED
    BY <1>0, <1>3, <1>19, <2>1, <2>2, <2>3
<1>23. Ends(b1, m, V)
  BY <1>0, <1>19 DEF Ends
<1>24. Shape(b1, m, V, r, w1)
  BY <1>0, <1>19, <1>20, <1>21, <1>22, <1>23 DEF Shape
<1>25. Completed(b, b1, m, V, r, i, w1)
  BY <1>3, <1>11, <1>17, <1>18, <1>19, <1>24 DEF Completed
<1>. QED
  BY <1>25

(***************************************************************************)
(* Retrieving an item.                                                     *)
(***************************************************************************)
\* The number of retrievable blocks, at its bounds.
LEMMA PassedNat ==
    ASSUME NEW mem, NEW V, NEW r \in Nat, NEW w \in Nat, r <= w
    PROVE  /\ Passed(mem, V, r, w) \in Nat
           /\ Passed(mem, V, r, w) > 0 => r < w
           /\ Passed(mem, V, r, w) > 0 /\ Dummy(mem, V[r]) => r + 1 < w
<1>1. r < w => r \in r .. w - 1
  OBVIOUS
<1>2. r = w => r .. w - 1 = {}
  OBVIOUS
<1>. QED
  BY <1>1, <1>2 DEF Passed

\* Counts of neighbouring stretches of the chain add up.
Ranged(mem, m, V, r, j, w) ==
    /\ Spaced(m, V) /\ Laid(mem, m, V)
    /\ r \in 1 .. m + 1 /\ j \in r .. m + 1 /\ w \in j .. m + 1

Summed(mem, V, r, j, w) ==
    /\ Passed(mem, V, r, w) = Passed(mem, V, r, j) + Passed(mem, V, j, w)
    /\ ItemsIn(mem, V, r, w) = ItemsIn(mem, V, r, j) + ItemsIn(mem, V, j, w)
    /\ Passed(mem, V, r, j) \in Nat /\ Passed(mem, V, j, w) \in Nat
    /\ ItemsIn(mem, V, r, j) \in Int /\ ItemsIn(mem, V, j, w) \in Int

\* The two counts of neighbouring stretches add up.
LEMMA Sums ==
    ASSUME ~IsByteBuffer, NEW mem, NEW m, NEW V, NEW r, NEW j, NEW w,
           Ranged(mem, m, V, r, j, w)
    PROVE  Summed(mem, V, r, j, w)
<1>1. m \in Nat /\ r \in Nat /\ j \in Nat /\ w \in Nat /\ r <= j /\ j <= w
      /\ w \in r .. m + 1 /\ j \in 1 .. m + 1 /\ w \in w .. m + 1
  BY DEF Ranged, Spaced
<1>2. PICK a, x \in Int : a = Passed(mem, V, r, j) /\ x = Halves(mem, V, r, j)
  BY PassedSum DEF Ranged
<1>3. PICK c, y \in Int : c = Passed(mem, V, j, w) /\ y = Halves(mem, V, j, w)
  <2>1. /\ Passed(mem, V, j, w) \in Int /\ Halves(mem, V, j, w) \in {0, 1}
    BY <1>1, PassedSum DEF Ranged
  <2>. QED
    BY <2>1
<1>4. Passed(mem, V, r, w) = a + c /\ Halves(mem, V, r, w) = x + y
  BY <1>1, <1>2, <1>3, PassedSum, SMTT(40) DEF Ranged
<1>5. a \in Nat /\ c \in Nat
  BY <1>1, <1>2, <1>3, PassedNat
<1>. QED
  BY <1>2, <1>3, <1>4, <1>5 DEF Summed, ItemsIn

\* The items in a stretch that ends with block i, behind dummies if any.
LEMMA OneItem ==
    ASSUME NEW mem, NEW m, NEW V, Laid(mem, m, V), NEW r \in 1 .. m, NEW i \in {r, r + 1},
           ~Dummy(mem, V[i]), \A k \in r .. i - 1 : Dummy(mem, V[k])
    PROVE  /\ Passed(mem, V, r, i + 1) = 1
           /\ ItemsIn(mem, V, r, i + 1) =
                IF "SPLIT" \in Flags(mem, V[i]) THEN 0 ELSE 1
<1>1. CASE i = r
  BY <1>1, PassedOne, HalvesOne DEF ItemsIn
<1>2. CASE i = r + 1
  <2>1. r \in r .. i - 1 /\ i + 1 = r + 2
    BY <1>2
  <2>2. Dummy(mem, V[r]) /\ "SPLIT" \notin Flags(mem, V[r])
    BY <2>1 DEF Laid
  <2>3. Passed(mem, V, r, r + 2) = 1
    BY <2>2, PassedTwo
  <2>4. Halves(mem, V, r, r + 2) = IF "SPLIT" \in Flags(mem, V[i]) THEN 1 ELSE 0
    BY <1>2, <2>2, HalvesTwo
  <2>. QED
    BY <2>1, <2>3, <2>4 DEF ItemsIn
<1>. QED
  BY <1>1, <1>2

\* One retrieval: of block i, the first from r on that is not a dummy.
Got(b, b1, m, V, r, w, i) ==
    /\ i \in r .. w - 1 /\ \A k \in r .. i - 1 : Dummy(b.mem, V[k])
    /\ ReadHeader(b) = ByteWrap(V[i])
    /\ Live(b.mem, V[i]) /\ ~Dummy(b.mem, V[i])
    /\ Shape(b1, m, V, i + 1, w)
    /\ b1.mem = b.mem /\ b1.acquire = b.acquire /\ b1.free = b.free
    /\ b1.full = b.full /\ b1.waiting = b.waiting - 1

ReadTo(b, b1, v) == b1 = [b EXCEPT !.read = v, !.waiting = @ - 1]

\* A retrieval changes the read pointer and the counter alone.
LEMMA ReadFields ==
    ASSUME NEW b \in ItemBlock, NEW v \in Words, b.waiting > 0, NEW b1,
           ReadTo(b, b1, v)
    PROVE  /\ b1 \in ItemBlock /\ b1.mem = b.mem /\ b1.write = b.write
           /\ b1.waiting = b.waiting - 1 /\ b1.acquire = b.acquire
           /\ b1.read = v /\ b1.free = b.free /\ b1.full = b.full
<1>1. PICK c \in Nat : c = b.waiting - 1
  BY ItemBlockFields
<1>2. b1 = [b EXCEPT !.read = v, !.waiting = c]
  BY <1>1 DEF ReadTo
<1>. QED
  BY <1>1, <1>2 DEF ItemBlock

\* prvGetItemDefault takes the next block, after the dummy if there is one.
LEMMA GetOne ==
    ASSUME ~IsByteBuffer, NEW b, NEW m, NEW V, NEW r, NEW w, Shape(b, m, V, r, w),
           b.waiting > 0, NEW b1, b1 = prvGetItemDefault(b)
    PROVE  \E i \in {r, r + 1} : Got(b, b1, m, V, r, w, i)
<1>0. b \in ItemBlock /\ Spaced(m, V) /\ Laid(b.mem, m, V) /\ Ends(b, m, V)
      /\ Marked(b.mem, m, V, r, w) /\ m \in Nat
      /\ Chained(b.mem, m, V) /\ b.waiting = Passed(b.mem, V, r, w)
      /\ b.read = ByteWrap(V[r]) /\ b.write = ByteWrap(V[w])
  BY DEF Shape, Spaced, Laid
<1>1. r \in 1 .. m + 1 /\ w \in r .. m + 1 /\ r \in Nat /\ w \in Nat /\ r <= w
  BY <1>0 DEF Marked
<1>2. PICK h \in Memory : h = b.mem
  BY <1>0, ItemBlockFields
<1>3. PICK i : i = IF Dummy(h, V[r]) THEN r + 1 ELSE r
  OBVIOUS
<1>4. i \in r .. w - 1 /\ i \in {r, r + 1} /\ i \in 1 .. m
  BY <1>0, <1>1, <1>2, <1>3, PassedNat
<1>5. ~Dummy(h, V[i]) /\ \A k \in r .. i - 1 : Dummy(h, V[k])
  <2>1. CASE Dummy(h, V[r])
    <3>1. r \in 1 .. m /\ i = r + 1 /\ r # i
      BY <1>0, <1>1, <1>3, <1>4, <2>1
    <3>2. ~Dummy(h, V[i])
      BY <1>0, <1>2, <1>4, <2>1, <3>1, DummyOnce
    <3>3. \A k \in r .. i - 1 : k = r
      BY <1>1, <3>1
    <3>. QED
      BY <2>1, <3>2, <3>3
  <2>2. CASE ~Dummy(h, V[r])
    BY <1>1, <1>3, <2>2
  <2>. QED
    BY <2>1, <2>2
<1>6. "FREE" \notin Flags(h, V[i])
  <2>1. i \in r .. m
    BY <1>0, <1>1, <1>4
  <2>. QED
    BY <1>0, <1>2, <2>1 DEF Marked
<1>7. Live(h, V[i])
  BY <1>5, <1>6 DEF Live, Dummy
<1>8. ReadHeader(b) = ByteWrap(V[i])
  <2>1. ReadHeader(b) = IF Dummy(h, V[r]) THEN 0 ELSE ByteWrap(V[r])
    BY <1>0, <1>2 DEF ReadHeader, Dummy, Flags
  <2>2. CASE Dummy(h, V[r])
    <3>1. r \in 1 .. m /\ i = r + 1
      BY <1>0, <1>1, <1>3, <1>4, <2>2
    <3>2. V[i] = xSize
      BY <1>0, <1>2, <2>2, <3>1, DummyOnce
    <3>3. ByteWrap(xSize) = 0
      BY ItemSize DEF ByteWrap
    <3>. QED
      BY <2>1, <2>2, <3>2, <3>3
  <2>3. CASE ~Dummy(h, V[r])
    BY <1>3, <2>1, <2>3
  <2>. QED
    BY <2>2, <2>3
<1>9. NextHeader(h, ByteWrap(V[i])) = ByteWrap(V[i + 1]) /\ ByteWrap(V[i + 1]) \in Words
  <2>1. i \in 1 .. m + 1 /\ i + 1 \in 1 .. m + 1
    BY <1>0, <1>4
  <2>2. V[i] \in Addr /\ V[i + 1] \in Addr
    BY <1>0, <2>1 DEF Spaced
  <2>3. Follows(h, V[i], V[i + 1])
    BY <1>0, <1>2, <1>4 DEF Chained
  <2>. QED
    BY <2>2, <2>3, NextIs, AddrIs
<1>10. PICK v \in Words : v = ByteWrap(V[i + 1])
  BY <1>9
<1>11. ReadTo(b, b1, v)
  BY <1>2, <1>8, <1>9, <1>10 DEF prvGetItemDefault, ReadTo
<1>12. /\ b1 \in ItemBlock /\ b1.mem = b.mem /\ b1.write = b.write
       /\ b1.waiting = b.waiting - 1 /\ b1.acquire = b.acquire
       /\ b1.read = v /\ b1.free = b.free /\ b1.full = b.full
  BY <1>0, <1>11, ReadFields
<1>13. Passed(h, V, r, i + 1) = 1
  <2>1. r \in 1 .. m
    BY <1>0, <1>1, <1>4
  <2>. QED
    BY <1>0, <1>2, <1>4, <1>5, <2>1, OneItem
<1>14. Passed(h, V, i + 1, w) = Passed(h, V, r, w) - 1
  <2>1. i + 1 \in r .. m + 1 /\ w \in i + 1 .. m + 1
    BY <1>0, <1>1, <1>4
  <2>2. Ranged(h, m, V, r, i + 1, w)
    BY <1>0, <1>1, <1>2, <2>1 DEF Ranged
  <2>3. Summed(h, V, r, i + 1, w)
    BY <2>2, Sums
  <2>. QED
    BY <1>13, <2>3 DEF Summed
<1>15. Marked(h, m, V, i + 1, w)
  <2>1. i + 1 \in 1 .. m + 1 /\ w \in i + 1 .. m + 1
    BY <1>0, <1>1, <1>4
  <2>2. \A k \in i + 1 .. m : k \in r .. m
    BY <1>1, <1>4
  <2>3. \A k \in i + 1 .. w - 1 : k \in r .. w - 1
    BY <1>1, <1>4
  <2>4. i \in 1 .. (i + 1) - 1
    BY <1>4
  <2>. QED
    BY <1>0, <1>2, <1>7, <2>1, <2>2, <2>3, <2>4 DEF Marked
<1>16. Ends(b1, m, V)
  BY <1>0, <1>12 DEF Ends
<1>17. Shape(b1, m, V, i + 1, w)
  BY <1>0, <1>2, <1>10, <1>12, <1>14, <1>15, <1>16 DEF Shape
<1>. QED
  BY <1>2, <1>4, <1>5, <1>7, <1>8, <1>12, <1>17 DEF Got

\* What a retrieval does: the blocks i, ..., r1 - 1 are lent out.
Lent(b, b1, m, V, r, w, i, r1) ==
    /\ i \in r .. w - 1 /\ r1 \in i + 1 .. w
    /\ \A k \in r .. i - 1 : Dummy(b.mem, V[k])
    /\ \A k \in i .. r1 - 1 : Live(b.mem, V[k])
    /\ Shape(b1, m, V, r1, w)
    /\ b1.mem = b.mem /\ b1.acquire = b.acquire /\ b1.free = b.free
    /\ b1.full = b.full
    /\ ItemsIn(b1.mem, V, r1, w) = ItemsIn(b.mem, V, r, w) - 1

Parts(t, mem, V, i, r1) ==
    {Loan(t, ByteWrap(V[k]) + rbHEADER_SIZE, SizeAt(mem, V[k])) : k \in i .. r1 - 1}

\* GetParts, for an item in one piece and in two.
InTwo(mem, p) == xBufferType = "ALLOWSPLIT" /\ "SPLIT" \in mem[p].uxItemFlags

IsOne(got, t, b, h, p) ==
    /\ got.rb = prvGetItemDefault(b)
    /\ got.parts = {Loan(t, p + rbHEADER_SIZE, h[p].xItemLen)}

IsTwo(got, t, b1, h, p, q) ==
    /\ got.rb = prvGetItemDefault(b1)
    /\ got.parts = {Loan(t, p + rbHEADER_SIZE, h[p].xItemLen),
                    Loan(t, q + rbHEADER_SIZE, h[q].xItemLen)}

\* A retrieval of an item that is not split takes one block.
LEMMA GetPartsOne ==
    ASSUME ~IsByteBuffer, NEW t, NEW b, NEW max, ~InTwo(b.mem, ReadHeader(b))
    PROVE  IsOne(GetParts(t, b, max), t, b, b.mem, ReadHeader(b))
BY DEF GetParts, InTwo, IsOne

\* A retrieval of a split item takes both of its parts.
LEMMA GetPartsTwo ==
    ASSUME ~IsByteBuffer, NEW t, NEW b, NEW max, InTwo(b.mem, ReadHeader(b)),
           prvGetItemDefault(b).mem = b.mem
    PROVE  IsTwo(GetParts(t, b, max), t, prvGetItemDefault(b), b.mem,
                 ReadHeader(b), ReadHeader(prvGetItemDefault(b)))
<1>1. PICK b1 : b1 = prvGetItemDefault(b)
  OBVIOUS
<1>2. PICK p, q : p = ReadHeader(b) /\ q = ReadHeader(b1)
  OBVIOUS
<1>. QED
  BY <1>1, <1>2 DEF GetParts, InTwo, IsTwo

\* A retrieval moves the read pointer along the chain past the parts it returns.
LEMMA GetKeeps ==
    ASSUME ~IsByteBuffer, NEW b, NEW m, NEW V, NEW r, NEW w, Shape(b, m, V, r, w),
           b.waiting > 0, NEW t, NEW max, NEW got, got = GetParts(t, b, max)
    PROVE  \E i, r1 : /\ Lent(b, got.rb, m, V, r, w, i, r1)
                      /\ got.parts = Parts(t, b.mem, V, i, r1)
<1>0. b \in ItemBlock /\ Spaced(m, V) /\ Laid(b.mem, m, V)
      /\ Marked(b.mem, m, V, r, w) /\ m \in Nat
  BY DEF Shape, Spaced, Laid
<1>1. r \in 1 .. m + 1 /\ w \in r .. m + 1 /\ r \in Nat /\ w \in Nat /\ r <= w
  BY <1>0 DEF Marked
<1>2. PICK h, b1 : h = b.mem /\ b1 = got.rb
  OBVIOUS
<1>3. PICK b2 : b2 = prvGetItemDefault(b)
  OBVIOUS
<1>4. PICK i \in {r, r + 1} : Got(b, b2, m, V, r, w, i)
  BY <1>3, GetOne
<1>5. /\ i \in r .. w - 1 /\ i \in Nat /\ i \in 1 .. m
      /\ i + 1 \in r .. m + 1 /\ w \in i + 1 .. m + 1 /\ i + 1 \in 1 .. m + 1
      /\ \A k \in r .. i - 1 : Dummy(h, V[k])
  BY <1>0, <1>1, <1>2, <1>4 DEF Got
<1>6. PICK p : p = ReadHeader(b) /\ p = ByteWrap(V[i])
  BY <1>4 DEF Got
<1>7. ItemsIn(h, V, r, w) = ItemsIn(h, V, r, i + 1) + ItemsIn(h, V, i + 1, w)
      /\ ItemsIn(h, V, i + 1, w) \in Int
  <2>1. Ranged(h, m, V, r, i + 1, w)
    BY <1>0, <1>1, <1>2, <1>5 DEF Ranged
  <2>2. Summed(h, V, r, i + 1, w)
    BY <2>1, Sums
  <2>. QED
    BY <2>2 DEF Summed
<1>8. ItemsIn(h, V, r, i + 1) = IF "SPLIT" \in Flags(h, V[i]) THEN 0 ELSE 1
  <2>1. r \in 1 .. m /\ ~Dummy(h, V[i])
    BY <1>0, <1>1, <1>2, <1>4, <1>5 DEF Got
  <2>. QED
    BY <1>0, <1>2, <1>4, <1>5, <2>1, OneItem
<1>9. InTwo(h, p) <=> xBufferType = "ALLOWSPLIT" /\ "SPLIT" \in Flags(h, V[i])
  BY <1>6 DEF InTwo, Flags
<1>10. CASE ~InTwo(h, p)
  <2>1. b1 = b2 /\ got.parts =
                     {Loan(t, p + rbHEADER_SIZE, h[p].xItemLen)}
    <3>1. IsOne(got, t, b, h, p)
      BY <1>2, <1>6, <1>10, GetPartsOne
    <3>. QED
      BY <1>2, <1>3, <3>1 DEF IsOne
  <2>2. "SPLIT" \notin Flags(h, V[i])
    BY <1>0, <1>2, <1>5, <1>9, <1>10 DEF Laid
  <2>3. \A k \in i .. (i + 1) - 1 : k = i
    BY <1>5
  <2>4. i \in i .. (i + 1) - 1 /\ i + 1 \in i + 1 .. w
    BY <1>1, <1>5
  <2>5. ItemsIn(h, V, i + 1, w) = ItemsIn(h, V, r, w) - 1
    BY <1>7, <1>8, <2>2
  <2>6. Lent(b, b1, m, V, r, w, i, i + 1)
    BY <1>2, <1>4, <2>1, <2>3, <2>4, <2>5 DEF Got, Lent
  <2>7. got.parts = Parts(t, b.mem, V, i, i + 1)
    BY <1>2, <1>6, <2>1, <2>3, <2>4 DEF Parts, SizeAt
  <2>. QED
    BY <1>2, <2>6, <2>7
<1>11. CASE InTwo(h, p)
  <2>0. xBufferType = "ALLOWSPLIT" /\ "SPLIT" \in Flags(h, V[i])
    BY <1>9, <1>11
  <2>1. i < m /\ V[i + 1] = xSize /\ ~Dummy(h, V[i]) /\ w = m + 1
    BY <1>0, <1>2, <1>5, <2>0 DEF Laid, Marked
  <2>2. i + 1 \in 1 .. m /\ i # i + 1
    BY <1>0, <1>5, <2>1
  <2>3. ~Dummy(h, V[i + 1])
    <3>1. Dummy(h, V[i + 1]) => i = i + 1
      BY <1>0, <1>2, <1>5, <2>0, <2>2, DummyOnce
    <3>. QED
      BY <2>2, <3>1
  <2>4. "SPLIT" \notin Flags(h, V[i + 1])
    <3>1. "SPLIT" \in Flags(h, V[i + 1]) => V[(i + 1) + 1] = xSize
      BY <1>0, <1>2, <2>2 DEF Laid
    <3>2. V[(i + 1) + 1] = xSize => i = i + 1
      BY <1>0, <1>5, <2>1, <2>2, TailOnce
    <3>. QED
      BY <2>2, <3>1, <3>2
  <2>5. i + 2 \in i + 1 .. m + 1 /\ w \in i + 2 .. m + 1 /\ i + 1 \in 1 .. m + 1
    BY <1>0, <1>5, <2>1
  <2>6. Summed(h, V, i + 1, i + 2, w)
    <3>1. Ranged(h, m, V, i + 1, i + 2, w)
      BY <1>0, <1>2, <2>5 DEF Ranged
    <3>. QED
      BY <3>1, Sums
  <2>7. Passed(h, V, i + 1, i + 2) = 1 /\ ItemsIn(h, V, i + 1, i + 2) = 1
    <3>1. PICK j \in 1 .. m : j = i + 1 /\ j + 1 = i + 2 /\ j \in {j, j + 1}
                              /\ j .. j - 1 = {}
      BY <1>5, <2>2
    <3>2. /\ Passed(h, V, j, j + 1) = 1
          /\ ItemsIn(h, V, j, j + 1) = IF "SPLIT" \in Flags(h, V[j]) THEN 0 ELSE 1
      BY <1>0, <1>2, <2>3, <3>1, OneItem
    <3>. QED
      BY <2>4, <3>1, <3>2
  <2>8. b2.waiting > 0 /\ Shape(b2, m, V, i + 1, w) /\ b2.mem = h
    <3>1. b2.waiting = Passed(h, V, i + 1, w)
      BY <1>2, <1>4 DEF Got, Shape
    <3>2. Passed(h, V, i + 1, w) > 0
      BY <2>6, <2>7 DEF Summed
    <3>. QED
      BY <1>2, <1>4, <3>1, <3>2 DEF Got
  <2>9. PICK q : q = ReadHeader(b2)
    OBVIOUS
  <2>10. b1 = prvGetItemDefault(b2) /\
         got.parts = {Loan(t, p + rbHEADER_SIZE, h[p].xItemLen),
                                      Loan(t, q + rbHEADER_SIZE, h[q].xItemLen)}
    <3>1. IsTwo(got, t, b2, h, p, q)
      BY <1>2, <1>3, <1>6, <1>11, <2>8, <2>9, GetPartsTwo
    <3>. QED
      BY <1>2, <3>1 DEF IsTwo
  <2>11. PICK j \in {i + 1, (i + 1) + 1} : Got(b2, b1, m, V, i + 1, w, j)
    BY <2>8, <2>10, GetOne
  <2>12. j = i + 1
    <3>1. j = (i + 1) + 1 => i + 1 \in i + 1 .. j - 1
      BY <1>5
    <3>2. i + 1 \in i + 1 .. j - 1 => Dummy(h, V[i + 1])
      BY <2>8, <2>11 DEF Got
    <3>. QED
      BY <2>3, <2>11, <3>1, <3>2
  <2>13. q = ByteWrap(V[i + 1]) /\ Live(h, V[i + 1]) /\ Shape(b1, m, V, i + 2, w)
         /\ b1.mem = h /\ b1.acquire = b2.acquire /\ b1.free = b2.free
         /\ b1.full = b2.full
    <3>1. (i + 1) + 1 = i + 2
      BY <1>5
    <3>. QED
      BY <2>8, <2>9, <2>11, <2>12, <3>1 DEF Got
  <2>14. \A k \in i .. (i + 2) - 1 : k = i \/ k = i + 1
    BY <1>5
  <2>15. i \in i .. (i + 2) - 1 /\ i + 1 \in i .. (i + 2) - 1 /\ i + 2 \in i + 1 .. w
    BY <1>1, <1>5, <2>5
  <2>16. ItemsIn(h, V, i + 2, w) = ItemsIn(h, V, r, w) - 1
    BY <1>7, <1>8, <2>0, <2>6, <2>7 DEF Summed
  <2>17. Lent(b, b1, m, V, r, w, i, i + 2)
    BY <1>2, <1>4, <2>13, <2>14, <2>15, <2>16 DEF Got, Lent
  <2>18. got.parts = Parts(t, b.mem, V, i, i + 2)
    BY <1>2, <1>6, <2>10, <2>13, <2>14, <2>15 DEF Parts, SizeAt
  <2>. QED
    BY <1>2, <2>17, <2>18
<1>. QED
  BY <1>10, <1>11

(***************************************************************************)
(* Returning an item.                                                      *)
(***************************************************************************)
\* The storage once prvReturnItemDefault has marked the header.
FreedMem(mem, item) == SetFlags(mem, item - rbHEADER_SIZE, {"FREE"}, {"SPLIT"})

\* Where its loop ends.
FreeStops(g, path, read, advance) ==
    [k \in 0 .. MaxHeaders |->
        \/ ~(g[path[k]].uxItemFlags \cap {"FREE", "DUMMY"} # {})
        \/ path[k] = read /\ ~(k = 0 /\ advance)]

FreeTo(b, b1, g, path, stop) ==
    b1 = [b EXCEPT !.free = path[stop], !.full = @ /\ stop = 0,
                   !.mem = Mark(g, DummiesOn(g, path, stop), "FREE")]

\* prvReturnItemDefault moves the free pointer to the end of its walk.
LEMMA ReturnIs ==
    ASSUME NEW b \in ItemBlock, NEW item
    PROVE  LET g    == FreedMem(b.mem, item)
               path == HeadersFrom(g, b.free)
               stop == FirstStop(FreeStops(g, path, b.read,
                                           b.full \/ b.waiting = 0))
           IN  FreeTo(b, prvReturnItemDefault(b, item), g, path, stop)
BY DEF prvReturnItemDefault, Mark, FreedMem, FreeStops, DummiesOn, FreeTo

\* The header of block c is marked FREE.
BlockFreed(mem, g, m, V, c) ==
    /\ g \in Memory /\ Chained(g, m, V)
    /\ \A k \in 1 .. m :
         /\ SameBlock(mem, g, V[k])
         /\ Flags(g, V[k]) = IF k = c THEN (Flags(mem, V[k]) \cup {"FREE"}) \ {"SPLIT"}
                             ELSE Flags(mem, V[k])

\* prvReturnItemDefault marks the block of the handle FREE.
LEMMA FreedIs ==
    ASSUME ~IsByteBuffer, NEW mem \in Memory, NEW m, NEW V, Spaced(m, V),
           Chained(mem, m, V), NEW c \in 1 .. m, NEW g,
           g = FreedMem(mem, ByteWrap(V[c]) + rbHEADER_SIZE)
    PROVE  BlockFreed(mem, g, m, V, c)
<1>0. m \in Nat
  BY DEF Spaced
<1>1. \A k \in 1 .. m : ByteWrap(V[k]) \in Words /\ ByteWrap(V[k]) \in Nat
  <2>1. \A k \in 1 .. m : V[k] \in Addr
    BY <1>0 DEF Spaced
  <2>. QED
    BY <2>1, AddrIs
<1>2. PICK p \in Words : p = ByteWrap(V[c]) /\ p \in Nat
  BY <1>1
<1>a. PICK a \in Nat : a = p + rbHEADER_SIZE /\ a - rbHEADER_SIZE = p
  BY <1>2 DEF rbHEADER_SIZE
<1>3. Flagged(mem, g, p, {"FREE"}, {"SPLIT"})
  <2>1. g = FreedMem(mem, a)
    BY <1>2, <1>a
  <2>2. g = SetFlags(mem, a - rbHEADER_SIZE, {"FREE"}, {"SPLIT"})
    BY <2>1 DEF FreedMem
  <2>3. g = SetFlags(mem, p, {"FREE"}, {"SPLIT"})
    BY <1>a, <2>2
  <2>4. {"FREE"} \in SUBSET FlagNames
    BY DEF FlagNames
  <2>. QED
    BY <2>3, <2>4, SetFlagsIs
<1>4. /\ g \in Memory
      /\ \A q \in Words : q # p => g[q] = mem[q]
      /\ g[p].uxItemFlags = (mem[p].uxItemFlags \cup {"FREE"}) \ {"SPLIT"}
      /\ g[p].xItemLen = mem[p].xItemLen /\ g[p].tag = mem[p].tag
  BY <1>3 DEF Flagged
<1>5. ASSUME NEW k \in 1 .. m
      PROVE  /\ SameBlock(mem, g, V[k])
             /\ Flags(g, V[k]) = IF k = c
                                 THEN (Flags(mem, V[k]) \cup {"FREE"}) \ {"SPLIT"}
                                 ELSE Flags(mem, V[k])
  <2>1. CASE k = c
    <3>1. Flags(g, V[k]) = (Flags(mem, V[k]) \cup {"FREE"}) \ {"SPLIT"}
      BY <1>2, <1>4, <2>1 DEF Flags
    <3>2. SizeAt(g, V[k]) = SizeAt(mem, V[k]) /\ TagAt(g, V[k]) = TagAt(mem, V[k])
      BY <1>2, <1>4, <2>1 DEF SizeAt, TagAt
    <3>. QED
      BY <2>1, <3>1, <3>2 DEF SameBlock, Dummy
  <2>2. CASE k # c
    <3>1. k \in 1 .. m + 1 /\ c \in 1 .. m + 1 /\ k # m + 1 /\ c # m + 1
      BY <1>0
    <3>2. ByteWrap(V[k]) # ByteWrap(V[c])
      BY <2>2, <3>1, Apart
    <3>3. g[ByteWrap(V[k])] = mem[ByteWrap(V[k])]
      BY <1>1, <1>2, <1>4, <3>2
    <3>4. /\ Flags(g, V[k]) = Flags(mem, V[k]) /\ SizeAt(g, V[k]) = SizeAt(mem, V[k])
          /\ TagAt(g, V[k]) = TagAt(mem, V[k]) /\ Dummy(g, V[k]) = Dummy(mem, V[k])
      BY <3>3, SameHeader
    <3>. QED
      BY <2>2, <3>4 DEF SameBlock
  <2>. QED
    BY <2>1, <2>2
<1>6. Chained(g, m, V)
  BY <1>5, SameChain
<1>. QED
  BY <1>4, <1>5, <1>6 DEF BlockFreed

\* The free pointer has gone to v.
FreeAt(b, b1, v, stays, mem) ==
    b1 = [b EXCEPT !.free = v, !.full = @ /\ stays, !.mem = mem]

\* A return changes the free pointer, the flag and the storage alone.
LEMMA FreeFields ==
    ASSUME NEW b \in ItemBlock, NEW v \in Words, NEW stays \in BOOLEAN,
           NEW mem \in Memory, NEW b1, FreeAt(b, b1, v, stays, mem)
    PROVE  /\ b1 \in ItemBlock /\ b1.mem = mem /\ b1.write = b.write
           /\ b1.waiting = b.waiting /\ b1.acquire = b.acquire
           /\ b1.read = b.read /\ b1.free = v /\ b1.full = (b.full /\ stays)
<1>1. PICK c \in BOOLEAN : c = (b.full /\ stays)
  BY ItemBlockFields
<1>2. b1 = [b EXCEPT !.free = v, !.full = c, !.mem = mem]
  BY <1>1 DEF FreeAt
<1>. QED
  BY <1>1, <1>2 DEF ItemBlock

\* Which blocks the free pointer passes: e is the first one still in use, or
\* the read pointer's.
FirstUsed(mem, V, r, e) ==
    /\ e \in 1 .. r
    /\ e # r => Live(mem, V[e])
    /\ \A k \in 1 .. e - 1 : ~Live(mem, V[k])

\* There is a first block in use, or none is.
LEMMA FirstUsedExists ==
    ASSUME NEW mem, NEW V, NEW r \in Nat, r > 0
    PROVE  \E e : FirstUsed(mem, V, r, e)
<1> DEFINE S == {k \in 1 .. r : k = r \/ Live(mem, V[k])}
<1>1. S \in SUBSET Nat /\ r \in S
  OBVIOUS
<1>2. PICK e \in S : \A k \in S : e <= k
  BY <1>1, LeastNat
<1>3. \A k \in 1 .. e - 1 : ~Live(mem, V[k])
  BY <1>2
<1>. QED
  BY <1>2, <1>3 DEF FirstUsed

\* The storage is as before but for the flags: FREE at c and at the dummies
\* that the free pointer passes.
Freed(mem, mem1, m, V, r, c, e) ==
    /\ mem1 \in Memory
    /\ \A k \in 1 .. m :
         /\ SameBlock(mem, mem1, V[k])
         /\ "SPLIT" \in Flags(mem1, V[k]) => "SPLIT" \in Flags(mem, V[k])
         /\ k >= r => Flags(mem1, V[k]) = Flags(mem, V[k])
         /\ k >= e => (Live(mem1, V[k]) <=> Live(mem, V[k]) /\ k # c)
         /\ k < e => ~Live(mem, V[k]) \/ k = c
         /\ "WRITTEN" \in Flags(mem1, V[k]) <=> "WRITTEN" \in Flags(mem, V[k])

\* The walk of prvReturnItemDefault frees the blocks up to the first one in use.
LEMMA ReturnFrees ==
    ASSUME ~IsByteBuffer, NEW b, NEW m, NEW V, NEW r, NEW w, Shape(b, m, V, r, w),
           NEW c \in 1 .. r - 1, NEW b1,
           b1 = prvReturnItemDefault(b, ByteWrap(V[c]) + rbHEADER_SIZE)
    PROVE  \E e \in 1 .. r : \E mem1 :
              /\ Freed(b.mem, mem1, m, V, r, c, e) /\ (e # r => Live(mem1, V[e]))
              /\ FreeAt(b, b1, ByteWrap(V[e]), e = 1, mem1)
<1>0. b \in ItemBlock /\ Spaced(m, V) /\ Laid(b.mem, m, V) /\ Ends(b, m, V)
      /\ Marked(b.mem, m, V, r, w) /\ m \in Nat
      /\ Chained(b.mem, m, V) /\ b.read = ByteWrap(V[r])
  BY DEF Shape, Spaced, Laid
<1>1. r \in 1 .. m + 1 /\ r \in Nat /\ c \in Nat /\ c \in 1 .. m /\ r > 1
  BY <1>0 DEF Marked
<1>2. PICK h \in Memory : h = b.mem
  BY <1>0, ItemBlockFields
<1>3. PICK item : item = ByteWrap(V[c]) + rbHEADER_SIZE
  OBVIOUS
<1>4. PICK g : g = FreedMem(h, item)
  OBVIOUS
<1>5. BlockFreed(h, g, m, V, c)
  BY <1>0, <1>1, <1>2, <1>3, <1>4, FreedIs
<1>6. PICK path, advance : path = HeadersFrom(g, b.free)
                           /\ advance = (b.full \/ b.waiting = 0)
  OBVIOUS
<1>7. PICK ends : ends = FreeStops(g, path, b.read, advance)
  OBVIOUS
<1>8. PICK stop : stop = FirstStop(ends)
  OBVIOUS
<1>9. PICK e : FirstUsed(g, V, r, e)
  BY <1>1, FirstUsedExists
<1>10. e \in 1 .. r /\ e \in Nat /\ e \in 1 .. m + 1 /\ e <= r
  BY <1>0, <1>1, <1>9 DEF FirstUsed
<1>11. V[1] < xSize /\ b.free = V[1] /\ ByteWrap(V[1]) = V[1]
  BY <1>0 DEF Ends, Spaced, ByteWrap
<1>12. /\ stop = e - 1 /\ path[stop] = ByteWrap(V[e])
       /\ DummiesOn(g, path, stop) = Between(g, V, 1, e)
  <2>0. MaxHeaders \in Nat /\ DOMAIN ends = 0 .. MaxHeaders
    BY <1>0, <1>7, ItemSize DEF MaxHeaders, rbHEADER_SIZE, FreeStops
  <2>1. g \in Memory /\ Chained(g, m, V)
    BY <1>5 DEF BlockFreed
  <2>2. path = HeadersFrom(g, ByteWrap(V[1]))
    BY <1>6, <1>11
  <2>3. \A k \in 0 .. m + 1 - 1 : /\ k \in 0 .. MaxHeaders
                                  /\ path[k] = ByteWrap(V[1 + k])
    <3>1. 1 \in 1 .. m + 1
      BY <1>0
    <3>. QED
      BY <1>0, <2>1, <2>2, <3>1, PathIs
  <2>4. ASSUME NEW k \in 1 .. m + 1
        PROVE  ends[k - 1] <=> \/ Flags(g, V[k]) \cap {"FREE", "DUMMY"} = {}
                               \/ /\ ByteWrap(V[k]) = ByteWrap(V[r])
                                  /\ ~(k = 1 /\ advance)
    <3>1. k - 1 \in 0 .. m + 1 - 1 /\ 1 + (k - 1) = k /\ (k - 1 = 0 <=> k = 1)
      BY <1>0
    <3>2. path[k - 1] = ByteWrap(V[k]) /\ k - 1 \in 0 .. MaxHeaders
      BY <2>3, <3>1
    <3>. QED
      BY <1>0, <1>7, <3>1, <3>2 DEF FreeStops, Flags
  <2>5. ends[e - 1]
    <3>1. CASE e = r
      BY <1>1, <1>10, <2>4, <3>1
    <3>2. CASE e # r
      BY <1>9, <1>10, <2>4, <3>2 DEF FirstUsed, Live
    <3>. QED
      BY <3>1, <3>2
  <2>6. \A k \in 1 .. e - 1 : ~ends[k - 1]
    <3>1. TAKE k \in 1 .. e - 1
    <3>2. k \in 1 .. m + 1 /\ k # m + 1 /\ k # r /\ k < r
      BY <1>0, <1>1, <1>10
    <3>3. Flags(g, V[k]) \cap {"FREE", "DUMMY"} # {}
      BY <1>9 DEF FirstUsed, Live
    <3>4. ByteWrap(V[k]) = ByteWrap(V[r]) => k = 1 /\ advance
      <4>1. SUFFICES ASSUME ByteWrap(V[k]) = ByteWrap(V[r]) PROVE k = 1 /\ advance
        OBVIOUS
      <4>2. k = 1 /\ r = m + 1
        BY <1>0, <1>1, <3>2, <4>1, Apart
      <4>3. ByteWrap(V[m + 1]) = V[1]
        BY <1>11, <4>1, <4>2
      <4>4. V[m + 1] = V[1] + xSize
        BY <1>0, <1>1, <4>2, <4>3, FullIs
      <4>5. b.full = TRUE
        BY <1>0, <4>4, ItemBlockFields DEF Ends
      <4>. QED
        BY <1>6, <4>2, <4>5
    <3>. QED
      BY <2>4, <3>2, <3>3, <3>4
  <2>. QED
    <3>1. 1 \in 1 .. m + 1 /\ e \in 1 .. m + 1
      BY <1>0, <1>10
    <3>2. EndsAt(g, m, V, 1, e, path, ends)
      BY <1>0, <2>0, <2>1, <2>2, <2>5, <2>6, <3>1 DEF EndsAt
    <3>. QED
      BY <1>0, <1>8, <3>2, PointerStops
<1>13. FreeTo(b, b1, g, path, stop)
  BY <1>0, <1>2, <1>3, <1>4, <1>6, <1>7, <1>8, ReturnIs
<1>14. PICK h1 : h1 = Mark(g, Between(g, V, 1, e), "FREE")
  OBVIOUS
<1>15. Marks(g, h1, Between(g, V, 1, e), "FREE")
  <2>1. g \in Memory /\ "FREE" \in FlagNames
    BY <1>5 DEF BlockFreed, FlagNames
  <2>. QED
    BY <1>14, <2>1, MarkIs
<1>16. ASSUME NEW k \in 1 .. m
       PROVE  /\ SameBlock(h, h1, V[k])
              /\ Flags(h1, V[k]) = IF k < e /\ Dummy(h, V[k])
                                   THEN Flags(g, V[k]) \cup {"FREE"}
                                   ELSE Flags(g, V[k])
              /\ Flags(g, V[k]) = IF k = c
                                  THEN (Flags(h, V[k]) \cup {"FREE"}) \ {"SPLIT"}
                                  ELSE Flags(h, V[k])
  <2>1. /\ SameBlock(h, g, V[k])
        /\ Flags(g, V[k]) = IF k = c THEN (Flags(h, V[k]) \cup {"FREE"}) \ {"SPLIT"}
                            ELSE Flags(h, V[k])
    BY <1>5 DEF BlockFreed
  <2>2. ByteWrap(V[k]) \in Words
    BY <1>0, AddrIs DEF Spaced
  <2>3. /\ SizeAt(h1, V[k]) = SizeAt(g, V[k]) /\ TagAt(h1, V[k]) = TagAt(g, V[k])
        /\ Flags(h1, V[k]) = IF ByteWrap(V[k]) \in Between(g, V, 1, e)
                             THEN Flags(g, V[k]) \cup {"FREE"}
                             ELSE Flags(g, V[k])
    BY <1>15, <2>2 DEF SizeAt, TagAt, Flags, Marks
  <2>4. ByteWrap(V[k]) \in Between(g, V, 1, e)
          <=> k \in 1 .. e - 1 /\ Dummy(g, V[k])
    <3>1. 1 \in 1 .. m + 1
      BY <1>0
    <3>. QED
      BY <1>0, <1>10, <3>1, BetweenIs
  <2>5. k \in 1 .. e - 1 <=> k < e
    BY <1>10
  <2>6. Dummy(g, V[k]) = Dummy(h, V[k])
    BY <2>1 DEF SameBlock
  <2>7. Flags(h1, V[k]) = IF k < e /\ Dummy(h, V[k])
                          THEN Flags(g, V[k]) \cup {"FREE"}
                          ELSE Flags(g, V[k])
    BY <2>3, <2>4, <2>5, <2>6
  <2>8. Dummy(h1, V[k]) = Dummy(g, V[k])
    BY <2>7 DEF Dummy
  <2>. QED
    BY <2>1, <2>3, <2>6, <2>7, <2>8 DEF SameBlock
<1>17. Freed(h, h1, m, V, r, c, e)
  <2>1. h1 \in Memory
    BY <1>15 DEF Marks
  <2>2. ASSUME NEW k \in 1 .. m
        PROVE  /\ "SPLIT" \in Flags(h1, V[k]) => "SPLIT" \in Flags(h, V[k])
               /\ k >= r => Flags(h1, V[k]) = Flags(h, V[k])
               /\ k >= e => (Live(h1, V[k]) <=> Live(h, V[k]) /\ k # c)
               /\ k < e => ~Live(h, V[k]) \/ k = c
               /\ "WRITTEN" \in Flags(h1, V[k]) <=> "WRITTEN" \in Flags(h, V[k])
    <3>1. (k >= r => k # c /\ ~(k < e)) /\ (k >= e => ~(k < e))
      BY <1>1, <1>10
    <3>a. PICK x, y, z : /\ x = Flags(h, V[k]) /\ y = Flags(g, V[k])
                         /\ z = Flags(h1, V[k])
                         /\ z \in {y, y \cup {"FREE"}}
                         /\ ~(k < e) => z = y
                         /\ y = IF k = c THEN (x \cup {"FREE"}) \ {"SPLIT"} ELSE x
      BY <1>16
    <3>2. "SPLIT" \in Flags(h1, V[k]) => "SPLIT" \in Flags(h, V[k])
      BY <3>a
    <3>3. k >= r => Flags(h1, V[k]) = Flags(h, V[k])
      BY <3>1, <3>a
    <3>4. k >= e => (Live(h1, V[k]) <=> Live(h, V[k]) /\ k # c)
      <4>1. SUFFICES ASSUME k >= e PROVE Live(h1, V[k]) <=> Live(h, V[k]) /\ k # c
        OBVIOUS
      <4>2. Flags(h1, V[k]) = IF k = c
                              THEN (Flags(h, V[k]) \cup {"FREE"}) \ {"SPLIT"}
                              ELSE Flags(h, V[k])
        BY <3>1, <3>a, <4>1
      <4>. QED
        BY <4>2 DEF Live
    <3>5. k < e => ~Live(h, V[k]) \/ k = c
      <4>1. SUFFICES ASSUME k < e, k # c PROVE ~Live(h, V[k])
        OBVIOUS
      <4>2. k \in 1 .. e - 1
        BY <1>10, <4>1
      <4>3. ~Live(g, V[k]) /\ Flags(g, V[k]) = Flags(h, V[k])
        BY <1>9, <1>16, <4>1, <4>2 DEF FirstUsed
      <4>. QED
        BY <4>3 DEF Live
    <3>6. "WRITTEN" \in Flags(h1, V[k]) <=> "WRITTEN" \in Flags(h, V[k])
      BY <3>a
    <3>. QED
      BY <3>2, <3>3, <3>4, <3>5, <3>6
  <2>. QED
    BY <1>16, <2>1, <2>2 DEF Freed
<1>18. e # r => Live(h1, V[e])
  <2>1. SUFFICES ASSUME e # r PROVE Live(h1, V[e])
    OBVIOUS
  <2>2. e \in 1 .. m /\ ~(e < e)
    BY <1>0, <1>1, <1>10, <2>1
  <2>3. Flags(h1, V[e]) = Flags(g, V[e])
    BY <1>16, <2>2
  <2>. QED
    BY <1>9, <2>1, <2>3 DEF FirstUsed, Live
<1>19. FreeAt(b, b1, ByteWrap(V[e]), e = 1, h1)
  <2>1. (stop = 0) = (e = 1)
    BY <1>10, <1>12
  <2>. QED
    BY <1>12, <1>13, <1>14, <2>1 DEF FreeTo, FreeAt
<1>. QED
  BY <1>2, <1>10, <1>17, <1>18, <1>19

(***************************************************************************)
(* Addresses counted anew, from the free pointer on.                       *)
(***************************************************************************)
\* An address and the one a storage length before it are the same place.
LEMMA AddrBack ==
    ASSUME ~IsByteBuffer, NEW v \in Addr, NEW d \in {0, xSize}, d <= v
    PROVE  v - d \in Addr /\ ByteWrap(v - d) = ByteWrap(v)
<1>0. xSize \in Nat /\ xSize % 4 = 0 /\ xSize >= 16
  BY ItemSize
<1>1. v \in Nat /\ v < 2 * xSize /\ v % 4 = 0 /\ ByteWrap(v) + 8 <= xSize
  BY AddrIs
<1>2. CASE d = 0
  BY <1>1, <1>2
<1>3. CASE d = xSize
  <2>1. v - xSize \in Nat /\ v - xSize < xSize /\ (v - xSize) % 4 = 0
    BY <1>0, <1>1, <1>3
  <2>2. ByteWrap(v - xSize) = v - xSize /\ ByteWrap(v) = v - xSize
    BY <1>0, <1>1, <1>3, <2>1 DEF ByteWrap
  <2>. QED
    BY <1>0, <1>1, <1>3, <2>1, <2>2 DEF Addr, rbHEADER_SIZE
<1>. QED
  BY <1>2, <1>3

\* Blocks follow each other at the places a storage length before, too.
LEMMA FollowsBack ==
    ASSUME ~IsByteBuffer, NEW mem \in Memory, NEW v \in Addr, NEW u \in Addr,
           NEW d \in {0, xSize}, d <= v, Follows(mem, v, u)
    PROVE  Follows(mem, v - d, u - d)
<1>0. xSize \in Nat
  BY ItemSize
<1>1. v \in Nat /\ u \in Nat
  BY AddrIs
<1>2. PICK p, y \in Nat : p = ByteWrap(v) /\ p = ByteWrap(v - d) /\ y = v - d
  BY <1>0, <1>1, AddrBack, AddrIs
<1>3. SizeAt(mem, y) = SizeAt(mem, v) /\ Dummy(mem, y) = Dummy(mem, v)
  BY <1>2 DEF SizeAt, Dummy, Flags
<1>4. CASE Dummy(mem, v)
  BY <1>0, <1>1, <1>2, <1>3, <1>4 DEF Follows
<1>5. CASE ~Dummy(mem, v)
  <2>1. PICK e \in Nat : e = p + rbHEADER_SIZE + rbALIGN_SIZE(SizeAt(mem, v))
    BY <1>2, HeaderIs, AlignIs DEF rbHEADER_SIZE
  <2>2. e <= xSize /\ u = (v - p) + (IF xSize - e < rbHEADER_SIZE THEN xSize ELSE e)
    BY <1>2, <1>5, <2>1 DEF Follows
  <2>3. u - d = (y - p) + (IF xSize - e < rbHEADER_SIZE THEN xSize ELSE e)
    BY <1>0, <1>1, <1>2, <2>1, <2>2
  <2>. QED
    BY <1>2, <1>3, <1>5, <2>1, <2>2, <2>3 DEF Follows
<1>. QED
  BY <1>4, <1>5

\* The chain without its first s blocks.
Dropped(m, V, s, m1, V1) ==
    LET d == IF V[s + 1] >= xSize THEN xSize ELSE 0
    IN  /\ s \in 0 .. m /\ m1 = m - s
        /\ V1 = [k \in 1 .. m1 + 1 |-> V[k + s] - d]

\* Without its first s blocks the chain is a chain, its addresses counted anew.
LEMMA DropIs ==
    ASSUME ~IsByteBuffer, NEW m, NEW V, Spaced(m, V), NEW s, NEW m1, NEW V1,
           Dropped(m, V, s, m1, V1)
    PROVE  /\ Spaced(m1, V1) /\ V1[1] = ByteWrap(V[s + 1])
           /\ \A k \in 1 .. m1 + 1 : ByteWrap(V1[k]) = ByteWrap(V[k + s])
           /\ V1[m1 + 1] = V1[1] + xSize <=> s = 0 /\ V[m + 1] = V[1] + xSize
           /\ \A k \in 1 .. m1 : V[(k + s) + 1] = xSize => V1[k + 1] = xSize
           /\ \A mem \in Memory : Chained(mem, m, V) => Chained(mem, m1, V1)
<1>0. m \in Nat /\ s \in Nat /\ s <= m /\ m1 \in Nat /\ m1 = m - s /\ xSize \in Nat
      /\ xSize >= 16
  BY ItemSize DEF Dropped, Spaced
<1>1. PICK d \in {0, xSize} : /\ d = IF V[s + 1] >= xSize THEN xSize ELSE 0
                              /\ V1 = [k \in 1 .. m1 + 1 |-> V[k + s] - d]
  BY DEF Dropped
<1>2. \A k \in 1 .. m + 1 : V[k] \in Addr /\ V[k] \in Nat /\ V[k] < 2 * xSize
  BY AddrIs DEF Spaced
<1>3. \A k \in 1 .. m1 + 1 : k + s \in 1 .. m + 1 /\ s + 1 <= k + s
  BY <1>0
<1>4. s + 1 \in 1 .. m + 1 /\ 1 \in 1 .. m1 + 1 /\ m1 + 1 \in 1 .. m1 + 1
      /\ 1 \in 1 .. m + 1 /\ m + 1 \in 1 .. m + 1 /\ (m1 + 1) + s = m + 1
  BY <1>0
<1>5. \A j, k \in 1 .. m + 1 : j <= k => V[j] + 8 * (k - j) <= V[k]
  BY DEF Spaced
<1>6. ASSUME NEW k \in 1 .. m1 + 1
      PROVE  /\ V1[k] = V[k + s] - d /\ d <= V[k + s]
             /\ V1[k] \in Addr /\ ByteWrap(V1[k]) = ByteWrap(V[k + s])
  <2>1. k + s \in 1 .. m + 1 /\ s + 1 <= k + s
    BY <1>3
  <2>2. PICK x, y \in Nat : x = V[s + 1] /\ y = V[k + s]
    BY <1>2, <1>4, <2>1
  <2>3. x <= y
    <3>1. x + 8 * ((k + s) - (s + 1)) <= y
      BY <1>4, <1>5, <2>1, <2>2
    <3>. QED
      BY <1>0, <2>1, <2>2, <3>1
  <2>4. d <= y
    BY <1>0, <1>1, <2>2, <2>3
  <2>. QED
    BY <1>1, <1>2, <2>1, <2>2, <2>4, AddrBack
<1>7. V1[1] = ByteWrap(V[s + 1]) /\ V1[1] < xSize
  <2>1. V1[1] = V[s + 1] - d
    BY <1>0, <1>4, <1>6
  <2>. QED
    BY <1>0, <1>1, <1>2, <1>4, <2>1 DEF ByteWrap
<1>8. \A j, k \in 1 .. m1 + 1 : j <= k => V1[j] + 8 * (k - j) <= V1[k]
  <2>1. SUFFICES ASSUME NEW j \in 1 .. m1 + 1, NEW k \in 1 .. m1 + 1, j <= k
                 PROVE  V1[j] + 8 * (k - j) <= V1[k]
    OBVIOUS
  <2>2. j + s \in 1 .. m + 1 /\ k + s \in 1 .. m + 1 /\ j + s <= k + s
        /\ (k + s) - (j + s) = k - j
    BY <1>0, <1>3, <2>1
  <2>3. PICK x, y \in Nat : x = V[j + s] /\ y = V[k + s]
    BY <1>2, <2>2
  <2>4. x + 8 * (k - j) <= y
    BY <1>5, <2>2, <2>3
  <2>5. V1[j] = x - d /\ V1[k] = y - d
    BY <1>6, <2>3
  <2>. QED
    BY <1>0, <2>3, <2>4, <2>5
<1>9. PICK f, x, v \in Nat : /\ f = V[1] /\ x = V[s + 1] /\ v = V[m + 1]
                             /\ f + 8 * s <= x /\ v <= f + xSize
                             /\ V1[1] = x - d /\ V1[m1 + 1] = v - d
  <2>1. V[1] + 8 * ((s + 1) - 1) <= V[s + 1]
    BY <1>0, <1>4, <1>5
  <2>2. (s + 1) - 1 = s /\ 1 + s = s + 1
    BY <1>0
  <2>3. V[m + 1] <= V[1] + xSize
    BY DEF Spaced
  <2>4. V1[1] = V[s + 1] - d /\ V1[m1 + 1] = V[m + 1] - d
    BY <1>4, <1>6, <2>2
  <2>. QED
    BY <1>2, <1>4, <2>1, <2>2, <2>3, <2>4
<1>10. V1[m1 + 1] <= V1[1] + xSize
  BY <1>0, <1>9
<1>11. Spaced(m1, V1)
  <2>1. V1 \in [1 .. m1 + 1 -> Addr]
    BY <1>1, <1>6
  <2>. QED
    BY <1>0, <1>7, <1>8, <1>10, <2>1 DEF Spaced
<1>12. V1[m1 + 1] = V1[1] + xSize <=> s = 0 /\ V[m + 1] = V[1] + xSize
  <2>1. s = 0 => x = f
    BY <1>9
  <2>. QED
    BY <1>0, <1>9, <2>1
<1>13. ASSUME NEW k \in 1 .. m1, V[(k + s) + 1] = xSize PROVE V1[k + 1] = xSize
  <2>1. k \in 1 .. m1 + 1 /\ k + 1 \in 1 .. m1 + 1 /\ (k + 1) + s = (k + s) + 1
        /\ (k + s) + 1 \in 1 .. m + 1 /\ s + 1 \in 1 .. m + 1
        /\ s + 1 <= (k + s) + 1
    BY <1>0
  <2>2. x + 8 * (((k + s) + 1) - (s + 1)) <= xSize
    BY <1>5, <1>9, <1>13, <2>1
  <2>3. x < xSize
    BY <1>0, <1>9, <2>1, <2>2
  <2>4. d = 0
    BY <1>0, <1>1, <1>9, <2>3
  <2>5. V1[k + 1] = xSize - d
    BY <1>6, <1>13, <2>1
  <2>. QED
    BY <1>0, <2>4, <2>5
<1>14. ASSUME NEW mem \in Memory, Chained(mem, m, V) PROVE Chained(mem, m1, V1)
  <2>1. SUFFICES ASSUME NEW k \in 1 .. m1 PROVE Follows(mem, V1[k], V1[k + 1])
    BY DEF Chained
  <2>2. k \in 1 .. m1 + 1 /\ k + 1 \in 1 .. m1 + 1 /\ (k + 1) + s = (k + s) + 1
        /\ k + s \in 1 .. m /\ (k + s) + 1 \in 1 .. m + 1 /\ k + s \in 1 .. m + 1
    BY <1>0
  <2>3. PICK y, u \in Addr : y = V[k + s] /\ u = V[(k + s) + 1]
    BY <1>2, <2>2
  <2>4. V1[k] = y - d /\ V1[k + 1] = u - d /\ d <= y
    BY <1>6, <2>2, <2>3
  <2>5. Follows(mem, y, u)
    BY <1>14, <2>2, <2>3 DEF Chained
  <2>6. Follows(mem, y - d, u - d)
    BY <2>4, <2>5, FollowsBack
  <2>. QED
    BY <2>4, <2>6
<1>. QED
  BY <1>6, <1>7, <1>11, <1>12, <1>13, <1>14

\* The blocks that stay count as before.
FlagsBack(mem, mem1, V, V1, r, w, s) ==
    \A k \in r .. w - 1 : Flags(mem1, V1[k - s]) = Flags(mem, V[k])

\* The counts do not depend on the blocks dropped.
LEMMA CountsBack ==
    ASSUME NEW mem, NEW mem1, NEW V, NEW V1, NEW r \in Nat, NEW w \in Nat, NEW s \in Nat,
           FlagsBack(mem, mem1, V, V1, r, w, s)
    PROVE  /\ Passed(mem1, V1, r - s, w - s) = Passed(mem, V, r, w)
           /\ ItemsIn(mem1, V1, r - s, w - s) = ItemsIn(mem, V, r, w)
<1>1. \A k \in r .. w - 1 : k - s \in r - s .. (w - s) - 1
  OBVIOUS
<1>2. \A k \in r - s .. (w - s) - 1 : k + s \in r .. w - 1 /\ (k + s) - s = k
  OBVIOUS
<1>3. (\E k \in r - s .. (w - s) - 1 : Dummy(mem1, V1[k]))
        <=> (\E k \in r .. w - 1 : Dummy(mem, V[k]))
  BY <1>1, <1>2 DEF Dummy, FlagsBack
<1>4. (\E k \in r - s .. (w - s) - 1 : "SPLIT" \in Flags(mem1, V1[k]))
        <=> (\E k \in r .. w - 1 : "SPLIT" \in Flags(mem, V[k]))
  BY <1>1, <1>2 DEF FlagsBack
<1>5. (w - s) - (r - s) = w - r
  OBVIOUS
<1>6. Passed(mem1, V1, r - s, w - s) = Passed(mem, V, r, w)
  BY <1>3, <1>5 DEF Passed
<1>7. Halves(mem1, V1, r - s, w - s) = Halves(mem, V, r, w)
  BY <1>4 DEF Halves
<1>. QED
  BY <1>6, <1>7 DEF ItemsIn

(***************************************************************************)
(* A return keeps the shape.                                               *)
(***************************************************************************)
\* What returning block c does: the first s blocks, none of them in use any
\* more, leave the chain, and block c is in use no more.
Returned(b, b1, m, V, r, w, c, s, m1, V1) ==
    /\ s \in 0 .. r - 1 /\ m1 = m - s
    /\ Shape(b1, m1, V1, r - s, w - s)
    /\ \A k \in 1 .. s : Live(b.mem, V[k]) => k = c
    /\ \A k \in s + 1 .. m :
         /\ ByteWrap(V1[k - s]) = ByteWrap(V[k])
         /\ SizeAt(b1.mem, V1[k - s]) = SizeAt(b.mem, V[k])
         /\ TagAt(b1.mem, V1[k - s]) = TagAt(b.mem, V[k])
         /\ Dummy(b1.mem, V1[k - s]) = Dummy(b.mem, V[k])
         /\ Live(b1.mem, V1[k - s]) <=> Live(b.mem, V[k]) /\ k # c
    /\ ItemsIn(b1.mem, V1, r - s, w - s) = ItemsIn(b.mem, V, r, w)

\* prvReturnItemDefault drops the freed blocks from the chain and keeps the rest.
LEMMA ItemReturnKeeps ==
    ASSUME ~IsByteBuffer, NEW b, NEW m, NEW V, NEW r, NEW w, Shape(b, m, V, r, w),
           NEW c \in 1 .. r - 1, NEW b1,
           b1 = prvReturnItemDefault(b, ByteWrap(V[c]) + rbHEADER_SIZE)
    PROVE  \E s, m1, V1 : Returned(b, b1, m, V, r, w, c, s, m1, V1)
<1>0. b \in ItemBlock /\ Spaced(m, V) /\ Laid(b.mem, m, V) /\ Ends(b, m, V)
      /\ Marked(b.mem, m, V, r, w) /\ m \in Nat
      /\ Chained(b.mem, m, V) /\ b.read = ByteWrap(V[r]) /\ b.write = ByteWrap(V[w])
      /\ b.waiting = Passed(b.mem, V, r, w)
  BY DEF Shape, Spaced, Laid
<1>1. r \in 1 .. m + 1 /\ r \in Nat /\ c \in Nat /\ w \in r .. m + 1 /\ w \in Nat
  BY <1>0 DEF Marked
<1>2. PICK h \in Memory : h = b.mem
  BY <1>0, ItemBlockFields
<1>3. PICK e \in 1 .. r : \E h1 :
              /\ Freed(h, h1, m, V, r, c, e) /\ (e # r => Live(h1, V[e]))
              /\ FreeAt(b, b1, ByteWrap(V[e]), e = 1, h1)
  BY <1>2, ReturnFrees
<1>h. PICK h1 : /\ Freed(h, h1, m, V, r, c, e) /\ (e # r => Live(h1, V[e]))
              /\ FreeAt(b, b1, ByteWrap(V[e]), e = 1, h1)
  BY <1>3
<1>4. PICK s \in Nat : s = e - 1 /\ e = s + 1
  BY <1>1
<1>5. s \in 0 .. r - 1 /\ s \in 0 .. m /\ s <= m
  BY <1>0, <1>1, <1>4
<1>6. PICK m1 \in Nat : m1 = m - s
  BY <1>0, <1>5
<1>7. PICK V1 : Dropped(m, V, s, m1, V1)
  BY <1>5, <1>6 DEF Dropped
<1>8. /\ Spaced(m1, V1) /\ V1[1] = ByteWrap(V[s + 1])
      /\ \A k \in 1 .. m1 + 1 : ByteWrap(V1[k]) = ByteWrap(V[k + s])
      /\ V1[m1 + 1] = V1[1] + xSize <=> s = 0 /\ V[m + 1] = V[1] + xSize
      /\ \A k \in 1 .. m1 : V[(k + s) + 1] = xSize => V1[k + 1] = xSize
      /\ \A mem \in Memory : Chained(mem, m, V) => Chained(mem, m1, V1)
  BY <1>0, <1>7, DropIs
<1>9. h1 \in Memory /\ Chained(h1, m, V)
  <2>1. h1 \in Memory /\ \A k \in 1 .. m : SameBlock(h, h1, V[k])
    BY <1>h DEF Freed
  <2>. QED
    BY <1>0, <1>2, <2>1, SameChain
<1>10. \A k \in 1 .. m1 : /\ k + s \in 1 .. m /\ k \in 1 .. m1 + 1
                          /\ k + s >= e /\ (k + s) + 1 = (k + 1) + s
  BY <1>0, <1>4, <1>6
<1>11. \A k \in 1 .. m1 : /\ Flags(h1, V1[k]) = Flags(h1, V[k + s])
                          /\ SizeAt(h1, V1[k]) = SizeAt(h1, V[k + s])
                          /\ TagAt(h1, V1[k]) = TagAt(h1, V[k + s])
                          /\ Dummy(h1, V1[k]) = Dummy(h1, V[k + s])
                          /\ Live(h1, V1[k]) = Live(h1, V[k + s])
  BY <1>8, <1>10 DEF Flags, SizeAt, TagAt, Dummy, Live
<1>12. /\ b1 \in ItemBlock /\ b1.mem = h1 /\ b1.write = b.write
       /\ b1.waiting = b.waiting /\ b1.acquire = b.acquire
       /\ b1.read = b.read /\ b1.free = V1[1] /\ b1.full = (b.full /\ s = 0)
  <2>1. PICK v \in Words : v = ByteWrap(V[e]) /\ v = V1[1]
    <3>1. e \in 1 .. m + 1
      BY <1>0, <1>1
    <3>2. V[e] \in Addr
      BY <1>0, <3>1 DEF Spaced
    <3>. QED
      BY <1>4, <1>8, <3>2, AddrIs
  <2>2. PICK stays \in BOOLEAN : stays = (e = 1)
    OBVIOUS
  <2>3. FreeAt(b, b1, v, stays, h1)
    BY <1>h, <2>1, <2>2
  <2>4. /\ b1 \in ItemBlock /\ b1.mem = h1 /\ b1.write = b.write
        /\ b1.waiting = b.waiting /\ b1.acquire = b.acquire
        /\ b1.read = b.read /\ b1.free = v /\ b1.full = (b.full /\ stays)
    BY <1>0, <1>9, <2>3, FreeFields
  <2>5. stays = (s = 0)
    BY <1>4, <2>2
  <2>. QED
    BY <2>1, <2>4, <2>5
<1>13. Ends(b1, m1, V1)
  <2>1. b1.acquire = ByteWrap(V1[m1 + 1])
    <3>1. m1 + 1 \in 1 .. m1 + 1 /\ (m1 + 1) + s = m + 1
      BY <1>0, <1>6
    <3>. QED
      BY <1>0, <1>8, <1>12, <3>1 DEF Ends
  <2>2. b1.full <=> V1[m1 + 1] = V1[1] + xSize
    BY <1>0, <1>8, <1>12, ItemBlockFields DEF Ends
  <2>. QED
    BY <1>12, <2>1, <2>2 DEF Ends
<1>14. Laid(h1, m1, V1)
  <2>1. Chained(h1, m1, V1)
    BY <1>8, <1>9
  <2>2. m1 > 0 => ~Dummy(h1, V1[m1])
    <3>1. SUFFICES ASSUME m1 > 0 PROVE ~Dummy(h1, V1[m1])
      OBVIOUS
    <3>2. m1 \in 1 .. m1 /\ m1 + s = m /\ m > 0 /\ m \in 1 .. m
      BY <1>0, <1>6, <3>1
    <3>3. Dummy(h1, V1[m1]) = Dummy(h1, V[m])
      BY <1>11, <3>2
    <3>4. Dummy(h1, V[m]) = Dummy(h, V[m])
      BY <1>h, <3>2 DEF Freed, SameBlock
    <3>. QED
      BY <1>0, <1>2, <3>2, <3>3, <3>4 DEF Laid
  <2>3. ASSUME NEW k \in 1 .. m1, "SPLIT" \in Flags(h1, V1[k])
        PROVE  /\ k < m1 /\ V1[k + 1] = xSize /\ ~Dummy(h1, V1[k])
               /\ xBufferType = "ALLOWSPLIT"
    <3>1. k + s \in 1 .. m /\ "SPLIT" \in Flags(h1, V[k + s])
      BY <1>10, <1>11, <2>3
    <3>2. "SPLIT" \in Flags(h, V[k + s])
      BY <1>h, <3>1 DEF Freed
    <3>3. k + s < m /\ V[(k + s) + 1] = xSize /\ ~Dummy(h, V[k + s])
          /\ xBufferType = "ALLOWSPLIT"
      BY <1>0, <1>2, <3>1, <3>2 DEF Laid
    <3>4. Dummy(h1, V1[k]) = Dummy(h, V[k + s])
      BY <1>h, <1>11, <3>1 DEF Freed, SameBlock
    <3>5. k < m1
      BY <1>0, <1>6, <3>3
    <3>. QED
      BY <1>8, <3>3, <3>4, <3>5
  <2>. QED
    BY <2>1, <2>2, <2>3 DEF Laid
<1>15. PICK r1, w1 \in Nat : r1 = r - s /\ w1 = w - s /\ r1 + s = r /\ w1 + s = w
                            /\ r1 \in 1 .. m1 + 1 /\ w1 \in r1 .. m1 + 1
  BY <1>0, <1>1, <1>5, <1>6
<1>16. \A k \in 1 .. m1 : k >= r1 => /\ Flags(h1, V1[k]) = Flags(h, V[k + s])
                                     /\ k + s \in r .. m
  <2>1. TAKE k \in 1 .. m1
  <2>2. k + s \in 1 .. m /\ (k >= r1 => k + s >= r)
    BY <1>10, <1>15
  <2>3. k >= r1 => Flags(h1, V[k + s]) = Flags(h, V[k + s])
    BY <1>h, <2>2 DEF Freed
  <2>. QED
    BY <1>1, <1>11, <2>2, <2>3
<1>17. Marked(h1, m1, V1, r1, w1)
  <2>1. \A k \in r1 .. m1 : "FREE" \notin Flags(h1, V1[k])
    <3>1. TAKE k \in r1 .. m1
    <3>2. k \in 1 .. m1 /\ k >= r1
      BY <1>15
    <3>. QED
      BY <1>0, <1>2, <1>16, <3>2 DEF Marked
  <2>2. r1 > 1 => \E k \in 1 .. r1 - 1 : Live(h1, V1[k])
    <3>1. SUFFICES ASSUME r1 > 1 PROVE 1 \in 1 .. r1 - 1 /\ Live(h1, V1[1])
      OBVIOUS
    <3>2. e # r /\ 1 \in 1 .. m1 /\ 1 + s = e /\ 1 \in 1 .. r1 - 1
      BY <1>4, <1>6, <1>15, <3>1
    <3>. QED
      BY <1>h, <1>11, <3>2
  <2>3. \A k \in w1 .. m1 : "WRITTEN" \notin Flags(h1, V1[k])
    <3>1. TAKE k \in w1 .. m1
    <3>2. k \in 1 .. m1 /\ k >= r1 /\ k + s \in w .. m
      BY <1>0, <1>6, <1>15
    <3>. QED
      BY <1>0, <1>2, <1>16, <3>2 DEF Marked
  <2>4. xBufferType = "NOSPLIT" =>
          \A k \in r1 .. w1 - 1 : "WRITTEN" \in Flags(h1, V1[k])
    <3>1. SUFFICES ASSUME xBufferType = "NOSPLIT", NEW k \in r1 .. w1 - 1
                   PROVE  "WRITTEN" \in Flags(h1, V1[k])
      OBVIOUS
    <3>2. k \in 1 .. m1 /\ k >= r1 /\ k + s \in r .. w - 1
      BY <1>15
    <3>3. "WRITTEN" \in Flags(h, V[k + s])
      BY <1>0, <1>2, <3>1, <3>2 DEF Marked
    <3>. QED
      BY <1>16, <3>2, <3>3
  <2>5. xBufferType = "ALLOWSPLIT" => w1 = m1 + 1
    <3>1. w = m + 1 => w1 = m1 + 1
      BY <1>0, <1>6, <1>15
    <3>. QED
      BY <1>0, <3>1 DEF Marked
  <2>. QED
    BY <1>15, <2>1, <2>2, <2>3, <2>4, <2>5 DEF Marked
<1>18. /\ Passed(h1, V1, r - s, w - s) = Passed(h, V, r, w)
       /\ ItemsIn(h1, V1, r - s, w - s) = ItemsIn(h, V, r, w)
  <2>1. ASSUME NEW k \in r .. w - 1 PROVE Flags(h1, V1[k - s]) = Flags(h, V[k])
    <3>1. k - s \in 1 .. m1 /\ k - s >= r1 /\ (k - s) + s = k
      BY <1>0, <1>1, <1>6, <1>15
    <3>. QED
      BY <1>16, <3>1
  <2>2. FlagsBack(h, h1, V, V1, r, w, s)
    BY <2>1 DEF FlagsBack
  <2>. QED
    BY <1>1, <2>2, CountsBack
<1>19. Shape(b1, m1, V1, r1, w1)
  <2>1. b1.read = ByteWrap(V1[r1]) /\ b1.write = ByteWrap(V1[w1])
    <3>1. r1 \in 1 .. m1 + 1 /\ w1 \in 1 .. m1 + 1
      BY <1>15
    <3>. QED
      BY <1>0, <1>8, <1>12, <1>15, <3>1
  <2>2. b1.waiting = Passed(b1.mem, V1, r1, w1)
    BY <1>0, <1>2, <1>12, <1>15, <1>18
  <2>. QED
    BY <1>8, <1>12, <1>13, <1>14, <1>17, <2>1, <2>2 DEF Shape
<1>20. \A k \in 1 .. s : Live(h, V[k]) => k = c
  <2>1. TAKE k \in 1 .. s
  <2>2. k \in 1 .. m /\ k < e
    BY <1>0, <1>4, <1>5
  <2>. QED
    BY <1>h, <2>2 DEF Freed
<1>21. ASSUME NEW k \in s + 1 .. m
       PROVE  /\ ByteWrap(V1[k - s]) = ByteWrap(V[k])
              /\ SizeAt(h1, V1[k - s]) = SizeAt(h, V[k])
              /\ TagAt(h1, V1[k - s]) = TagAt(h, V[k])
              /\ Dummy(h1, V1[k - s]) = Dummy(h, V[k])
              /\ Live(h1, V1[k - s]) <=> Live(h, V[k]) /\ k # c
  <2>1. PICK j \in 1 .. m1 : j = k - s /\ j + s = k /\ j \in 1 .. m1 + 1
                            /\ k \in 1 .. m /\ k >= e
    BY <1>0, <1>4, <1>5, <1>6
  <2>2. SameBlock(h, h1, V[k]) /\ (Live(h1, V[k]) <=> Live(h, V[k]) /\ k # c)
    BY <1>h, <2>1 DEF Freed
  <2>3. /\ SizeAt(h1, V1[j]) = SizeAt(h1, V[k]) /\ TagAt(h1, V1[j]) = TagAt(h1, V[k])
        /\ Dummy(h1, V1[j]) = Dummy(h1, V[k]) /\ Live(h1, V1[j]) = Live(h1, V[k])
        /\ ByteWrap(V1[j]) = ByteWrap(V[k])
    BY <1>8, <1>11, <2>1
  <2>. QED
    BY <2>1, <2>2, <2>3 DEF SameBlock
<1>22. Returned(b, b1, m, V, r, w, c, s, m1, V1)
  BY <1>2, <1>5, <1>6, <1>12, <1>15, <1>18, <1>19, <1>20, <1>21 DEF Returned
<1>. QED
  BY <1>22

(***************************************************************************)
(* Sends, in terms of the chain alone.                                     *)
(***************************************************************************)
\* Blocks have been added to the chain; the old ones are as they were.
Added(mem, mem1, m, V, m1, V1) ==
    /\ m1 \in Nat /\ m < m1
    /\ \A k \in 1 .. m : /\ V1[k] = V[k] /\ SameBlock(mem, mem1, V[k])
                         /\ Live(mem1, V[k]) = Live(mem, V[k])

\* What a grown chain has in common with the chain before.
LEMMA GrownAdded ==
    ASSUME NEW mem, NEW mem1, NEW m \in Nat, NEW V, NEW m1, NEW V1,
           Grown(mem, mem1, m, V, m1, V1)
    PROVE  Added(mem, mem1, m, V, m1, V1)
<1>1. m1 \in Nat /\ m < m1
  BY DEF Grown
<1>2. ASSUME NEW k \in 1 .. m
      PROVE  /\ V1[k] = V[k] /\ SameBlock(mem, mem1, V[k])
             /\ Live(mem1, V[k]) = Live(mem, V[k])
  <2>1. k \in 1 .. m + 1
    OBVIOUS
  <2>2. V1[k] = V[k] /\ mem1[ByteWrap(V[k])] = mem[ByteWrap(V[k])]
    BY <2>1 DEF Grown
  <2>3. /\ SizeAt(mem1, V[k]) = SizeAt(mem, V[k]) /\ TagAt(mem1, V[k]) = TagAt(mem, V[k])
        /\ Dummy(mem1, V[k]) = Dummy(mem, V[k]) /\ Live(mem1, V[k]) = Live(mem, V[k])
    BY <2>2, SameHeader
  <2>. QED
    BY <2>2, <2>3 DEF SameBlock
<1>. QED
  BY <1>1, <1>2 DEF Added

\* No-split buffers have no first parts, so every block counts.
LEMMA NoHalves ==
    ASSUME xBufferType = "NOSPLIT", NEW mem, NEW m \in Nat, NEW V, Laid(mem, m, V),
           NEW r \in 1 .. m + 1, NEW w \in r .. m + 1
    PROVE  Passed(mem, V, r, w) \in Nat /\ ItemsIn(mem, V, r, w) = Passed(mem, V, r, w)
<1>1. \A k \in r .. w - 1 : k \in 1 .. m
  OBVIOUS
<1>2. \A k \in r .. w - 1 : "SPLIT" \notin Flags(mem, V[k])
  BY <1>1 DEF Laid
<1>3. Halves(mem, V, r, w) = 0
  BY <1>2 DEF Halves
<1>4. Passed(mem, V, r, w) \in Nat
  BY PassedNat
<1>. QED
  BY <1>3, <1>4 DEF ItemsIn

\* prvCopyItemNoSplit keeps the shape when nothing is left to complete.
LEMMA CopyNoSplitKeeps ==
    ASSUME xBufferType = "NOSPLIT", NEW b, NEW m, NEW V, NEW r, Shape(b, m, V, r, m + 1),
           NEW n \in 0 .. xMaxItemSize, prvCheckItemFitsDefault(b, n),
           NEW tag \in Nat, NEW b1, b1 = prvCopyItemNoSplit(b, n, tag)
    PROVE  \E m1, V1 :
              /\ Shape(b1, m1, V1, r, m1 + 1) /\ Added(b.mem, b1.mem, m, V, m1, V1)
              /\ ItemsIn(b1.mem, V1, r, m1 + 1) = ItemsIn(b.mem, V, r, m + 1) + 1
<1>0. m \in Nat /\ Spaced(m, V) /\ Laid(b.mem, m, V) /\ r \in 1 .. m + 1
      /\ b.waiting = Passed(b.mem, V, r, m + 1) /\ m + 1 \in r .. m + 1
  BY DEF Shape, Spaced, Marked
<1>1. PICK b2 : b2 = prvAcquireItemNoSplit(b, n, tag)
  OBVIOUS
<1>2. PICK w : w = m + 1
  OBVIOUS
<1>3. PICK m1, V1 :
              /\ Shape(b2, m1, V1, r, w)
              /\ Grown(b.mem, b2.mem, m, V, m1, V1) /\ NewBlocks(b2.mem, m, V1, m1)
              /\ ByteWrap(V1[m1]) + 8 = AcquiredItem(b, n)
              /\ SizeAt(b2.mem, V1[m1]) = n /\ TagAt(b2.mem, V1[m1]) = tag
              /\ m1 = m + 2 => Dummy(b2.mem, V1[m + 1])
  BY <1>1, <1>2, AcquireKeeps
<1>4. m1 \in {m + 1, m + 2} /\ m1 \in Nat
  BY <1>0, <1>3 DEF Grown
<1>5. FirstUnsent(b2.mem, m1, V1, w, m1)
  <2>1. ~Dummy(b2.mem, V1[m1])
    BY <1>3 DEF NewBlocks, Dummy
  <2>2. \A k \in w .. m1 - 1 : m1 = m + 2 /\ k = m + 1
    BY <1>0, <1>2, <1>4
  <2>. QED
    BY <1>0, <1>2, <1>3, <1>4, <2>1, <2>2 DEF FirstUnsent
<1>6. b1 = prvSendItemDoneNoSplit(b2, ByteWrap(V1[m1]) + rbHEADER_SIZE,
                                  SizeAt(b2.mem, V1[m1]), tag)
  <2>1. b1 = prvSendItemDoneNoSplit(b2, AcquiredItem(b, n), n, tag)
    BY <1>1 DEF prvCopyItemNoSplit
  <2>2. ByteWrap(V1[m1]) + rbHEADER_SIZE = AcquiredItem(b, n)
    BY <1>3 DEF rbHEADER_SIZE
  <2>. QED
    BY <1>3, <2>1, <2>2
<1>c. PICK w1 : Completed(b2, b1, m1, V1, r, m1, w1)
  BY <1>3, <1>5, <1>6, DoneKeeps
<1>7.         /\ Shape(b1, m1, V1, r, w1) /\ b1.waiting = b2.waiting + 1
              /\ \A k \in 1 .. m1 : /\ SameBlock(b2.mem, b1.mem, V1[k])
                                    /\ Live(b1.mem, V1[k]) = Live(b2.mem, V1[k])
  BY <1>c DEF Completed
<1>8. w1 = m1 + 1
  BY <1>4, <1>c DEF Completed
<1>9. Added(b.mem, b1.mem, m, V, m1, V1)
  <2>1. Added(b.mem, b2.mem, m, V, m1, V1)
    BY <1>0, <1>3, GrownAdded
  <2>2. \A k \in 1 .. m : k \in 1 .. m1
    BY <1>0, <1>4
  <2>. QED
    BY <1>7, <2>1, <2>2 DEF Added, SameBlock
<1>10. Passed(b1.mem, V1, r, m1 + 1) = Passed(b.mem, V, r, m + 1) + 1
  <2>1. b1.waiting = Passed(b1.mem, V1, r, m1 + 1)
    BY <1>7, <1>8 DEF Shape
  <2>2. b2.waiting = b.waiting
    <3>1. b \in ItemBlock
      BY DEF Shape
    <3>. QED
      BY <1>1, <3>1, AcquireFields
  <2>. QED
    BY <1>0, <1>7, <2>1, <2>2
<1>11. ItemsIn(b1.mem, V1, r, m1 + 1) = Passed(b1.mem, V1, r, m1 + 1)
  <2>1. Laid(b1.mem, m1, V1) /\ r \in 1 .. m1 + 1 /\ m1 + 1 \in r .. m1 + 1
    BY <1>7, <1>8 DEF Shape, Marked
  <2>. QED
    BY <1>4, <2>1, NoHalves
<1>12. ItemsIn(b.mem, V, r, m + 1) = Passed(b.mem, V, r, m + 1)
  BY <1>0, NoHalves
<1>. QED
  BY <1>7, <1>8, <1>9, <1>10, <1>11, <1>12

\* A copy, of either kind.
LEMMA ItemCopyKeeps ==
    ASSUME ~IsByteBuffer, NEW b, NEW m, NEW V, NEW r, Shape(b, m, V, r, m + 1),
           NEW n \in 0 .. xMaxItemSize, xCheckItemFits(b, n),
           NEW tag \in Nat, NEW b1, b1 = vCopyItem(b, n, tag)
    PROVE  \E m1, V1 :
              /\ Shape(b1, m1, V1, r, m1 + 1) /\ Added(b.mem, b1.mem, m, V, m1, V1)
              /\ ItemsIn(b1.mem, V1, r, m1 + 1) = ItemsIn(b.mem, V, r, m + 1) + 1
<1>0. prvCheckItemFitsDefault(b, n) /\ m \in Nat
  BY DEF xCheckItemFits, Shape, Spaced
<1>1. CASE xBufferType = "NOSPLIT"
  <2>1. b1 = prvCopyItemNoSplit(b, n, tag)
    BY <1>1 DEF vCopyItem
  <2>. QED
    BY <1>0, <1>1, <2>1, CopyNoSplitKeeps
<1>2. CASE xBufferType = "ALLOWSPLIT"
  <2>1. b1 = prvCopyItemAllowSplit(b, n, tag)
    BY <1>2 DEF vCopyItem
  <2>2. PICK m1, V1 :
              /\ Shape(b1, m1, V1, r, m1 + 1)
              /\ Grown(b.mem, b1.mem, m, V, m1, V1)
              /\ ItemsIn(b1.mem, V1, r, m1 + 1) = ItemsIn(b.mem, V, r, m + 1) + 1
    BY <1>0, <1>2, <2>1, CopySplitKeeps
  <2>3. Added(b.mem, b1.mem, m, V, m1, V1)
    BY <1>0, <2>2, GrownAdded
  <2>. QED
    BY <2>2, <2>3
<1>. QED
  BY <1>1, <1>2, TypeAssumption DEF IsByteBuffer

\* There is something to retrieve exactly when an item is stored between the
\* read and the write pointer.
LEMMA AvailIs ==
    ASSUME ~IsByteBuffer, NEW b, NEW m, NEW V, NEW r, NEW w, Shape(b, m, V, r, w),
           NEW c, c = ItemsIn(b.mem, V, r, w)
    PROVE  /\ c \in Nat /\ b.waiting \in Nat
           /\ b.waiting > 0 <=> c > 0
           /\ prvCheckItemAvail(b) <=> c > 0
           /\ c = 0 /\ w = m + 1 => r = w
<1>0. b \in ItemBlock /\ Spaced(m, V) /\ Laid(b.mem, m, V) /\ Ends(b, m, V)
      /\ Marked(b.mem, m, V, r, w) /\ m \in Nat
      /\ b.waiting = Passed(b.mem, V, r, w)
      /\ b.read = ByteWrap(V[r]) /\ b.write = ByteWrap(V[w])
  BY DEF Shape, Spaced, Laid
<1>1. r \in 1 .. m + 1 /\ w \in r .. m + 1 /\ r \in Nat /\ w \in Nat /\ r <= w
      /\ w \in 1 .. m + 1
  BY <1>0 DEF Marked
<1>2. PICK h \in Memory : h = b.mem
  BY <1>0, ItemBlockFields
<1>3. PICK p \in Nat : p = Passed(h, V, r, w) /\ p = b.waiting /\ (p > 0 => r < w)
  BY <1>0, <1>1, <1>2, PassedNat
<1>4. c \in Nat /\ (p > 0 <=> c > 0)
  <2>1. CASE \E k \in r .. w - 1 : "SPLIT" \in Flags(h, V[k])
    <3>1. PICK k \in r .. w - 1 : "SPLIT" \in Flags(h, V[k])
      BY <2>1
    <3>2. k \in 1 .. m
      BY <1>0, <1>1
    <3>3. k < m /\ xBufferType = "ALLOWSPLIT" /\ ~Dummy(h, V[k])
      BY <1>0, <1>2, <3>1, <3>2 DEF Laid
    <3>4. w = m + 1
      BY <1>0, <3>3 DEF Marked
    <3>5. ASSUME NEW j \in r .. w - 1 PROVE ~Dummy(h, V[j])
      <4>1. j \in 1 .. m
        BY <1>0, <1>1
      <4>. QED
        BY <1>0, <1>2, <3>1, <3>2, <3>3, <4>1, DummyOnce
    <3>6. p = w - r
      BY <1>1, <1>3, <3>5 DEF Passed
    <3>7. Halves(h, V, r, w) = 1
      BY <2>1 DEF Halves
    <3>8. w - r >= 2
      BY <1>0, <1>1, <3>3, <3>4
    <3>9. c = p - 1
      BY <1>2, <1>3, <3>7 DEF ItemsIn
    <3>. QED
      BY <1>1, <3>6, <3>8, <3>9
  <2>2. CASE ~\E k \in r .. w - 1 : "SPLIT" \in Flags(h, V[k])
    <3>1. Halves(h, V, r, w) = 0
      BY <2>2 DEF Halves
    <3>2. c = p
      BY <1>2, <1>3, <3>1 DEF ItemsIn
    <3>. QED
      BY <1>3, <3>2
  <2>. QED
    BY <2>1, <2>2
<1>5. p = 0 /\ w = m + 1 => r = w
  <2>1. SUFFICES ASSUME p = 0, w = m + 1, r < w PROVE FALSE
    BY <1>1
  <2>2. r + 1 = w /\ \E k \in r .. w - 1 : Dummy(h, V[k])
    BY <1>1, <1>3, <2>1 DEF Passed
  <2>3. r \in 1 .. m /\ Dummy(h, V[r])
    <3>1. \A k \in r .. w - 1 : k = r
      BY <1>1, <2>2
    <3>. QED
      BY <1>0, <1>1, <2>1, <2>2, <3>1
  <2>4. r < m
    BY <1>0, <1>2, <2>3, DummyOnce
  <2>. QED
    BY <1>0, <1>1, <2>1, <2>2, <2>3, <2>4
<1>6. p > 0 => (b.read # b.write \/ b.full)
  <2>1. SUFFICES ASSUME r < w, ByteWrap(V[r]) = ByteWrap(V[w]) PROVE b.full
    BY <1>0, <1>3
  <2>2. r = 1 /\ w = m + 1 /\ m > 0
    BY <1>0, <1>1, <2>1, Apart
  <2>3. ByteWrap(V[1]) = V[1]
    BY <1>0 DEF Spaced, ByteWrap
  <2>4. V[m + 1] = V[1] + xSize
    BY <1>0, <2>1, <2>2, <2>3, FullIs
  <2>. QED
    BY <1>0, <2>4 DEF Ends
<1>7. p > 0 /\ xBufferType = "NOSPLIT" => "WRITTEN" \in h[b.read].uxItemFlags
  <2>1. SUFFICES ASSUME r < w, xBufferType = "NOSPLIT"
                 PROVE  "WRITTEN" \in Flags(h, V[r])
    BY <1>0, <1>3 DEF Flags
  <2>2. r \in r .. w - 1
    BY <1>1, <2>1
  <2>. QED
    BY <1>0, <1>2, <2>1, <2>2 DEF Marked
<1>. QED
  BY <1>2, <1>3, <1>4, <1>5, <1>6, <1>7 DEF prvCheckItemAvail

(***************************************************************************)
(* The callers' handles.                                                   *)
(***************************************************************************)
Handle(mem, v) == [item |-> ByteWrap(v) + rbHEADER_SIZE,
                   size |-> SizeAt(mem, v), tag |-> TagAt(mem, v)]

\* The items acquired and not completed are the blocks from w on, numbered in
\* the order of the chain.
Unsent(mem, m, V, w) == {k \in w .. m : ~Dummy(mem, V[k])}

HandlesAre(mem, A, n, m, V, w) ==
    /\ A = {Handle(mem, V[k]) : k \in Unsent(mem, m, V, w)}
    /\ \A j, k \in Unsent(mem, m, V, w) : j < k => TagAt(mem, V[j]) < TagAt(mem, V[k])
    /\ \A k \in Unsent(mem, m, V, w) : TagAt(mem, V[k]) \in Nat /\ TagAt(mem, V[k]) < n

\* The items lent out are the blocks before r that are in use.
LentAt(mem, V, k, l) ==
    /\ Live(mem, V[k])
    /\ l.item = ByteWrap(V[k]) + rbHEADER_SIZE /\ l.size = SizeAt(mem, V[k])

LentAre(mem, L, V, r) ==
    /\ \A l \in L : \E k \in 1 .. r - 1 : LentAt(mem, V, k, l)
    /\ \A k \in 1 .. r - 1 : Live(mem, V[k]) => \E l \in L : LentAt(mem, V, k, l)
    /\ \A l, g \in L : l.item = g.item => l = g

Whole(b, A, L, n, m, V, r, w) ==
    /\ Shape(b, m, V, r, w) /\ n \in Nat
    /\ HandlesAre(b.mem, A, n, m, V, w) /\ LentAre(b.mem, L, V, r)

\* A buffer with the handles A and L out, n items given space to so far, and
\* c items to retrieve.
Counted(b, A, L, n, c) ==
    \E m, V, r, w : Whole(b, A, L, n, m, V, r, w) /\ c = ItemsIn(b.mem, V, r, w)

\* When nothing is to be completed, everything up to the acquire pointer is sent.
LEMMA AllSent ==
    ASSUME NEW b, NEW L, NEW n, NEW m, NEW V, NEW r, NEW w,
           Whole(b, {}, L, n, m, V, r, w)
    PROVE  w = m + 1
<1>1. m \in Nat /\ w \in Nat /\ w <= m + 1 /\ Laid(b.mem, m, V)
  BY DEF Whole, Shape, Marked, Spaced
<1>2. SUFFICES ASSUME w <= m PROVE FALSE
  BY <1>1
<1>3. w \in 1 .. m + 1
  BY DEF Whole, Shape, Marked, Spaced
<1>4. m > 0 /\ m \in w .. m
  BY <1>1, <1>2, <1>3
<1>5. m \in Unsent(b.mem, m, V, w)
  BY <1>1, <1>4 DEF Unsent, Laid
<1>6. Handle(b.mem, V[m]) \in {Handle(b.mem, V[k]) : k \in Unsent(b.mem, m, V, w)}
  BY <1>5
<1>. QED
  BY <1>6 DEF Whole, HandlesAre

\* Without acquired items, all blocks are sent.
LEMMA NothingUnsent ==
    ASSUME NEW mem, NEW m \in Nat, NEW V, NEW n
    PROVE  HandlesAre(mem, {}, n, m, V, m + 1)
<1>1. Unsent(mem, m, V, m + 1) = {}
  BY DEF Unsent
<1>. QED
  BY <1>1 DEF HandlesAre

\* Blocks put behind the chain leave the lent items as they are.
LEMMA LoansSame ==
    ASSUME NEW mem, NEW mem1, NEW L, NEW V, NEW V1, NEW m, NEW m1, NEW r,
           LentAre(mem, L, V, r), Added(mem, mem1, m, V, m1, V1),
           r \in 1 .. m + 1, m \in Nat
    PROVE  LentAre(mem1, L, V1, r)
<1>1. ASSUME NEW k \in 1 .. r - 1
      PROVE  /\ \A l : LentAt(mem1, V1, k, l) = LentAt(mem, V, k, l)
             /\ Live(mem1, V1[k]) = Live(mem, V[k])
  <2>1. k \in 1 .. m
    OBVIOUS
  <2>2. V1[k] = V[k] /\ SizeAt(mem1, V[k]) = SizeAt(mem, V[k])
        /\ Live(mem1, V[k]) = Live(mem, V[k])
    BY <2>1 DEF Added, SameBlock
  <2>. QED
    BY <2>2 DEF LentAt
<1>. QED
  BY <1>1 DEF LentAre

\* vCopyItem adds one item to the ones to retrieve.
LEMMA CopyCounts ==
    ASSUME ~IsByteBuffer, NEW b, NEW L, NEW n, NEW c, Counted(b, {}, L, n, c),
           NEW len \in 0 .. xMaxItemSize, xCheckItemFits(b, len),
           NEW b1, b1 = vCopyItem(b, len, n)
    PROVE  Counted(b1, {}, L, n + 1, c + 1)
<1>1. PICK m, V, r, w : Whole(b, {}, L, n, m, V, r, w) /\ c = ItemsIn(b.mem, V, r, w)
  BY DEF Counted
<1>2. w = m + 1
  BY <1>1, AllSent
<1>3. Shape(b, m, V, r, m + 1) /\ n \in Nat /\ LentAre(b.mem, L, V, r)
      /\ m \in Nat /\ r \in 1 .. m + 1
  BY <1>1, <1>2 DEF Whole, Shape, Spaced, Marked
<1>4. PICK m1, V1 :
              /\ Shape(b1, m1, V1, r, m1 + 1) /\ Added(b.mem, b1.mem, m, V, m1, V1)
              /\ ItemsIn(b1.mem, V1, r, m1 + 1) = ItemsIn(b.mem, V, r, m + 1) + 1
  BY <1>3, ItemCopyKeeps
<1>5. m1 \in Nat
  BY <1>4 DEF Added
<1>6. HandlesAre(b1.mem, {}, n + 1, m1, V1, m1 + 1)
  BY <1>5, NothingUnsent
<1>7. LentAre(b1.mem, L, V1, r)
  BY <1>3, <1>4, LoansSame
<1>8. Whole(b1, {}, L, n + 1, m1, V1, r, m1 + 1)
  BY <1>3, <1>4, <1>6, <1>7 DEF Whole
<1>. QED
  BY <1>1, <1>2, <1>4, <1>8 DEF Counted

\* In a no-split buffer xItemsWaiting counts the items.
LEMMA WaitingIs ==
    ASSUME xBufferType = "NOSPLIT", NEW b, NEW m, NEW V, NEW r, NEW w,
           Shape(b, m, V, r, w)
    PROVE  b.waiting = ItemsIn(b.mem, V, r, w)
<1>1. m \in Nat /\ Laid(b.mem, m, V) /\ r \in 1 .. m + 1 /\ w \in r .. m + 1
      /\ b.waiting = Passed(b.mem, V, r, w)
  BY DEF Shape, Spaced, Marked
<1>. QED
  BY <1>1, NoHalves

\* prvAcquireItemNoSplit adds one handle to the acquired ones.
LEMMA AcquireCounts ==
    ASSUME xBufferType = "NOSPLIT", NEW b, NEW A, NEW L, NEW n, NEW c,
           Counted(b, A, L, n, c),
           NEW len \in 0 .. xMaxItemSize, xCheckItemFits(b, len),
           NEW b1, b1 = prvAcquireItemNoSplit(b, len, n), NEW g,
           g = [item |-> AcquiredItem(b, len), size |-> len, tag |-> n]
    PROVE  Counted(b1, A \cup {g}, L, n + 1, c) /\ g \notin A
<1>0. ~IsByteBuffer /\ prvCheckItemFitsDefault(b, len)
  BY DEF IsByteBuffer, xCheckItemFits
<1>1. PICK m, V, r, w : Whole(b, A, L, n, m, V, r, w) /\ c = ItemsIn(b.mem, V, r, w)
  BY DEF Counted
<1>2. Shape(b, m, V, r, w) /\ n \in Nat /\ LentAre(b.mem, L, V, r)
      /\ m \in Nat /\ r \in 1 .. m + 1 /\ HandlesAre(b.mem, A, n, m, V, w)
      /\ w \in 1 .. m + 1 /\ w \in Nat /\ b \in ItemBlock
  BY <1>1 DEF Whole, Shape, Spaced, Marked
<1>3. PICK m1, V1 :
              /\ Shape(b1, m1, V1, r, w)
              /\ Grown(b.mem, b1.mem, m, V, m1, V1) /\ NewBlocks(b1.mem, m, V1, m1)
              /\ ByteWrap(V1[m1]) + 8 = AcquiredItem(b, len)
              /\ SizeAt(b1.mem, V1[m1]) = len /\ TagAt(b1.mem, V1[m1]) = n
              /\ m1 = m + 2 => Dummy(b1.mem, V1[m + 1])
  BY <1>0, <1>2, AcquireKeeps
<1>4. Added(b.mem, b1.mem, m, V, m1, V1)
  BY <1>2, <1>3, GrownAdded
<1>5. LentAre(b1.mem, L, V1, r)
  BY <1>2, <1>4, LoansSame
<1>6. m1 \in {m + 1, m + 2} /\ m1 \in Nat
  BY <1>2, <1>3 DEF Grown
<1>7. PICK h, h1 : h = b.mem /\ h1 = b1.mem
  OBVIOUS
<1>8. \A k \in 1 .. m : /\ Dummy(h1, V1[k]) = Dummy(h, V[k])
                        /\ Handle(h1, V1[k]) = Handle(h, V[k])
                        /\ TagAt(h1, V1[k]) = TagAt(h, V[k])
  BY <1>4, <1>7 DEF Added, SameBlock, Handle
<1>9. Handle(h1, V1[m1]) = g /\ ~Dummy(h1, V1[m1]) /\ TagAt(h1, V1[m1]) = n
  BY <1>3, <1>7 DEF Handle, NewBlocks, Dummy, rbHEADER_SIZE
<1>10. Unsent(h1, m1, V1, w) = Unsent(h, m, V, w) \cup {m1}
  <2>1. ASSUME NEW k \in w .. m1, ~Dummy(h1, V1[k])
        PROVE  k = m1 \/ (k \in w .. m /\ ~Dummy(h, V[k]))
    <3>1. k = m1 \/ k \in 1 .. m \/ (m1 = m + 2 /\ k = m + 1)
      BY <1>2, <1>6
    <3>. QED
      BY <1>2, <1>3, <1>7, <1>8, <2>1, <3>1
  <2>2. ASSUME NEW k \in w .. m, ~Dummy(h, V[k])
        PROVE  k \in w .. m1 /\ ~Dummy(h1, V1[k])
    <3>1. k \in 1 .. m
      BY <1>2
    <3>. QED
      BY <1>2, <1>6, <1>8, <2>2, <3>1
  <2>3. m1 \in w .. m1
    BY <1>2, <1>6
  <2>. QED
    BY <1>9, <2>1, <2>2, <2>3 DEF Unsent
<1>11. \A k \in Unsent(h, m, V, w) : k \in 1 .. m /\ k < m1 /\ TagAt(h, V[k]) \in Nat
                                    /\ TagAt(h, V[k]) < n
  BY <1>2, <1>6, <1>7 DEF Unsent, HandlesAre
<1>12. HandlesAre(h1, A \cup {g}, n + 1, m1, V1, w)
  <2>1. A \cup {g} = {Handle(h1, V1[k]) : k \in Unsent(h1, m1, V1, w)}
    <3>1. A = {Handle(h, V[k]) : k \in Unsent(h, m, V, w)}
      BY <1>2, <1>7 DEF HandlesAre
    <3>. QED
      BY <1>8, <1>9, <1>10, <1>11, <3>1
  <2>2. ASSUME NEW j \in Unsent(h1, m1, V1, w), NEW k \in Unsent(h1, m1, V1, w), j < k
        PROVE  TagAt(h1, V1[j]) < TagAt(h1, V1[k])
    <3>1. j \in Unsent(h, m, V, w)
      BY <1>6, <1>10, <1>11, <2>2 DEF Unsent
    <3>2. TagAt(h1, V1[j]) = TagAt(h, V[j]) /\ TagAt(h, V[j]) < n
      BY <1>8, <1>11, <3>1
    <3>3. CASE k = m1
      BY <1>9, <3>2, <3>3
    <3>4. CASE k \in Unsent(h, m, V, w)
      <4>1. TagAt(h1, V1[k]) = TagAt(h, V[k])
        BY <1>8, <1>11, <3>4
      <4>2. TagAt(h, V[j]) < TagAt(h, V[k])
        BY <1>2, <1>7, <2>2, <3>1, <3>4 DEF HandlesAre
      <4>. QED
        BY <3>2, <4>1, <4>2
    <3>. QED
      BY <1>10, <3>3, <3>4
  <2>3. ASSUME NEW k \in Unsent(h1, m1, V1, w)
        PROVE  TagAt(h1, V1[k]) \in Nat /\ TagAt(h1, V1[k]) < n + 1
    <3>1. CASE k = m1
      BY <1>2, <1>9, <3>1
    <3>2. CASE k \in Unsent(h, m, V, w)
      BY <1>2, <1>8, <1>11, <3>2
    <3>. QED
      BY <1>10, <3>1, <3>2
  <2>. QED
    BY <2>1, <2>2, <2>3 DEF HandlesAre
<1>13. c = ItemsIn(b1.mem, V1, r, w)
  <2>1. b1.waiting = b.waiting
    BY <1>2, AcquireFields
  <2>2. b.waiting = ItemsIn(b.mem, V, r, w) /\ b1.waiting = ItemsIn(b1.mem, V1, r, w)
    BY <1>2, <1>3, WaitingIs
  <2>. QED
    BY <1>1, <2>1, <2>2
<1>14. Whole(b1, A \cup {g}, L, n + 1, m1, V1, r, w)
  BY <1>2, <1>3, <1>5, <1>7, <1>12 DEF Whole
<1>15. g \notin A
  <2>1. ASSUME NEW k \in Unsent(h, m, V, w) PROVE Handle(h, V[k]) # g
    <3>1. Handle(h, V[k]).tag = TagAt(h, V[k]) /\ g.tag = n
      BY DEF Handle
    <3>. QED
      BY <1>2, <1>11, <3>1
  <2>2. A = {Handle(h, V[k]) : k \in Unsent(h, m, V, w)}
    BY <1>2, <1>7 DEF HandlesAre
  <2>. QED
    BY <2>1, <2>2
<1>. QED
  BY <1>13, <1>14, <1>15 DEF Counted

(***************************************************************************)
(* The operations, and the items counted.                                  *)
(***************************************************************************)
\* The item completed first is the first unsent block.
LEMMA OldestFirst ==
    ASSUME NEW mem, NEW A, NEW n, NEW m \in Nat, NEW V, NEW w \in Nat,
           HandlesAre(mem, A, n, m, V, w),
           NEW h \in A, \A g \in A : h.tag <= g.tag
    PROVE  \E i : FirstUnsent(mem, m, V, w, i) /\ h = Handle(mem, V[i])
<1>1. A = {Handle(mem, V[k]) : k \in Unsent(mem, m, V, w)}
  BY DEF HandlesAre
<1>2. PICK i \in Unsent(mem, m, V, w) : h = Handle(mem, V[i])
  BY <1>1
<1>3. i \in w .. m /\ ~Dummy(mem, V[i])
  BY <1>2 DEF Unsent
<1>4. ASSUME NEW k \in w .. i - 1, ~Dummy(mem, V[k]) PROVE FALSE
  <2>1. k \in Unsent(mem, m, V, w) /\ k < i
    BY <1>3, <1>4 DEF Unsent
  <2>2. TagAt(mem, V[k]) < TagAt(mem, V[i]) /\ TagAt(mem, V[k]) \in Nat
        /\ TagAt(mem, V[i]) \in Nat
    BY <1>2, <2>1 DEF HandlesAre
  <2>3. Handle(mem, V[k]) \in A /\ Handle(mem, V[k]).tag = TagAt(mem, V[k])
        /\ h.tag = TagAt(mem, V[i])
    BY <1>1, <1>2, <2>1 DEF Handle
  <2>4. h.tag <= Handle(mem, V[k]).tag
    BY <2>3
  <2>. QED
    BY <2>2, <2>3, <2>4
<1>. QED
  BY <1>2, <1>3, <1>4 DEF FirstUnsent

\* prvSendItemDoneNoSplit, of the oldest handle, adds one item to retrieve.
LEMMA CompleteCounts ==
    ASSUME xBufferType = "NOSPLIT", NEW b, NEW A, NEW L, NEW n, NEW c,
           Counted(b, A, L, n, c), NEW h \in A, \A g \in A : h.tag <= g.tag,
           NEW b1, b1 = prvSendItemDoneNoSplit(b, h.item, h.size, h.tag)
    PROVE  Counted(b1, A \ {h}, L, n, c + 1)
<1>1. PICK m, V, r, w : Whole(b, A, L, n, m, V, r, w) /\ c = ItemsIn(b.mem, V, r, w)
  BY DEF Counted
<1>2. Shape(b, m, V, r, w) /\ n \in Nat /\ LentAre(b.mem, L, V, r)
      /\ m \in Nat /\ r \in 1 .. m + 1 /\ HandlesAre(b.mem, A, n, m, V, w)
      /\ w \in r .. m + 1 /\ w \in Nat /\ w >= 1 /\ b \in ItemBlock
  BY <1>1 DEF Whole, Shape, Spaced, Marked
<1>3. PICK i : FirstUnsent(b.mem, m, V, w, i) /\ h = Handle(b.mem, V[i])
  BY <1>2, OldestFirst
<1>4. i \in w .. m /\ ~Dummy(b.mem, V[i]) /\ i \in Nat
      /\ \A k \in w .. i - 1 : Dummy(b.mem, V[k])
  BY <1>2, <1>3 DEF FirstUnsent
<1>5. h.tag \in Nat /\ h.tag = TagAt(b.mem, V[i])
  <2>1. i \in Unsent(b.mem, m, V, w)
    BY <1>4 DEF Unsent
  <2>. QED
    BY <1>2, <1>3, <2>1 DEF HandlesAre, Handle
<1>6. h.item = ByteWrap(V[i]) + rbHEADER_SIZE /\ h.size = SizeAt(b.mem, V[i])
  BY <1>3 DEF Handle
<1>7. PICK w1 : Completed(b, b1, m, V, r, i, w1)
  <2>1. PICK tag \in Nat : tag = h.tag
    BY <1>5
  <2>2. b1 = prvSendItemDoneNoSplit(b, ByteWrap(V[i]) + rbHEADER_SIZE,
                                    SizeAt(b.mem, V[i]), tag)
    BY <1>6, <2>1
  <2>. QED
    BY <1>2, <1>3, <2>2, DoneKeeps
<1>8. /\ w1 \in i + 1 .. m + 1
      /\ Shape(b1, m, V, r, w1) /\ b1.waiting = b.waiting + 1
      /\ \A k \in i + 1 .. w1 - 1 : Dummy(b.mem, V[k])
      /\ \A k \in 1 .. m : /\ SameBlock(b.mem, b1.mem, V[k])
                           /\ Live(b1.mem, V[k]) = Live(b.mem, V[k])
  BY <1>7 DEF Completed
<1>9. PICK f, f1 : f = b.mem /\ f1 = b1.mem
  OBVIOUS
<1>10. \A k \in 1 .. m : /\ Dummy(f1, V[k]) = Dummy(f, V[k])
                         /\ Handle(f1, V[k]) = Handle(f, V[k])
                         /\ TagAt(f1, V[k]) = TagAt(f, V[k])
  BY <1>8, <1>9 DEF SameBlock, Handle
<1>11. Unsent(f1, m, V, w1) = Unsent(f, m, V, w) \ {i}
  <2>1. ASSUME NEW k \in w1 .. m PROVE k \in w .. m /\ k # i /\ k \in 1 .. m
    BY <1>2, <1>4, <1>8
  <2>2. ASSUME NEW k \in w .. m, k # i, ~Dummy(f, V[k]) PROVE k \in w1 .. m
    <3>1. k \in w .. i - 1 \/ k \in i + 1 .. w1 - 1 \/ k \in w1 .. m
      BY <1>2, <1>4, <1>8, <2>2
    <3>. QED
      BY <1>4, <1>8, <1>9, <2>2, <3>1
  <2>3. ASSUME NEW k \in w .. m PROVE k \in 1 .. m
    BY <1>2
  <2>. QED
    BY <1>10, <2>1, <2>2, <2>3 DEF Unsent
<1>12. \A k \in Unsent(f, m, V, w) : k \in 1 .. m
  BY <1>2 DEF Unsent
<1>13. A = {Handle(f, V[k]) : k \in Unsent(f, m, V, w)} /\ h = Handle(f, V[i])
  BY <1>2, <1>3, <1>9 DEF HandlesAre
<1>14. \A k \in Unsent(f, m, V, w) : k # i => Handle(f, V[k]) # h
  <2>1. TAKE k \in Unsent(f, m, V, w)
  <2>2. SUFFICES ASSUME k # i PROVE Handle(f, V[k]) # h
    OBVIOUS
  <2>3. i \in Unsent(f, m, V, w) /\ k \in Nat
    BY <1>4, <1>9, <1>12 DEF Unsent
  <2>4. TagAt(f, V[k]) # TagAt(f, V[i])
    <3>1. k < i => TagAt(f, V[k]) < TagAt(f, V[i])
      BY <1>2, <1>9, <2>1, <2>3 DEF HandlesAre
    <3>2. i < k => TagAt(f, V[i]) < TagAt(f, V[k])
      BY <1>2, <1>9, <2>1, <2>3 DEF HandlesAre
    <3>3. TagAt(f, V[k]) \in Nat /\ TagAt(f, V[i]) \in Nat
      BY <1>2, <1>9, <2>1, <2>3 DEF HandlesAre
    <3>. QED
      BY <1>4, <2>2, <2>3, <3>1, <3>2, <3>3
  <2>5. Handle(f, V[k]).tag = TagAt(f, V[k]) /\ h.tag = TagAt(f, V[i])
    BY <1>13 DEF Handle
  <2>. QED
    BY <2>4, <2>5
<1>15. HandlesAre(f1, A \ {h}, n, m, V, w1)
  <2>1. A \ {h} = {Handle(f1, V[k]) : k \in Unsent(f1, m, V, w1)}
    BY <1>10, <1>11, <1>12, <1>13, <1>14
  <2>2. \A k \in Unsent(f1, m, V, w1) : k \in Unsent(f, m, V, w)
                                       /\ TagAt(f1, V[k]) = TagAt(f, V[k])
    BY <1>10, <1>11, <1>12
  <2>. QED
    BY <1>2, <1>9, <2>1, <2>2 DEF HandlesAre
<1>16. LentAre(f1, L, V, r)
  <2>1. ASSUME NEW k \in 1 .. r - 1
        PROVE  /\ \A l : LentAt(f1, V, k, l) = LentAt(f, V, k, l)
               /\ Live(f1, V[k]) = Live(f, V[k])
    <3>1. k \in 1 .. m
      BY <1>2
    <3>. QED
      BY <1>8, <1>9, <3>1 DEF LentAt, SameBlock
  <2>. QED
    BY <1>2, <1>9, <2>1 DEF LentAre
<1>17. ItemsIn(b1.mem, V, r, w1) = c + 1
  <2>1. b.waiting = ItemsIn(b.mem, V, r, w) /\ b1.waiting = ItemsIn(b1.mem, V, r, w1)
    BY <1>2, <1>8, WaitingIs
  <2>. QED
    BY <1>1, <1>8, <2>1
<1>18. Whole(b1, A \ {h}, L, n, m, V, r, w1)
  BY <1>2, <1>8, <1>9, <1>15, <1>16 DEF Whole
<1>. QED
  BY <1>17, <1>18 DEF Counted

\* A retrieval takes one item, and lends out its parts.
LEMMA GetCounts ==
    ASSUME ~IsByteBuffer, NEW b, NEW A, NEW L, NEW n, NEW c, Counted(b, A, L, n, c),
           prvCheckItemAvail(b), NEW t, NEW max, NEW got, got = GetParts(t, b, max)
    PROVE  /\ Counted(got.rb, A, L \cup got.parts, n, c - 1)
           /\ got.rb.acquire = b.acquire /\ got.rb.free = b.free
           /\ got.rb.full = b.full
<1>1. PICK m, V, r, w : Whole(b, A, L, n, m, V, r, w) /\ c = ItemsIn(b.mem, V, r, w)
  BY DEF Counted
<1>2. Shape(b, m, V, r, w) /\ n \in Nat /\ LentAre(b.mem, L, V, r)
      /\ m \in Nat /\ r \in 1 .. m + 1 /\ HandlesAre(b.mem, A, n, m, V, w)
      /\ w \in r .. m + 1 /\ w \in Nat /\ r \in Nat /\ Spaced(m, V)
  BY <1>1, SMTT(40) DEF Whole, Shape, Spaced, Marked
<1>3. b.waiting > 0
  BY <1>1, <1>2, AvailIs
<1>4. PICK i, r1 : /\ Lent(b, got.rb, m, V, r, w, i, r1)
                   /\ got.parts = Parts(t, b.mem, V, i, r1)
  BY <1>2, <1>3, GetKeeps
<1>5. PICK f, b1 : f = b.mem /\ b1 = got.rb
  OBVIOUS
<1>6. /\ i \in r .. w - 1 /\ r1 \in i + 1 .. w /\ i \in Nat /\ r1 \in Nat
      /\ \A k \in r .. i - 1 : Dummy(f, V[k])
      /\ \A k \in i .. r1 - 1 : Live(f, V[k])
      /\ Shape(b1, m, V, r1, w)
      /\ b1.mem = f /\ b1.acquire = b.acquire /\ b1.free = b.free
      /\ b1.full = b.full /\ ItemsIn(f, V, r1, w) = c - 1
  BY <1>1, <1>2, <1>4, <1>5 DEF Lent
<1>7. PICK P : P = got.parts
               /\ P = {Loan(t, ByteWrap(V[k]) + rbHEADER_SIZE, SizeAt(f, V[k])) :
                          k \in i .. r1 - 1}
  BY <1>4, <1>5 DEF Parts
<1>8. \A l \in P : \E k \in i .. r1 - 1 : /\ LentAt(f, V, k, l)
                                          /\ l = Loan(t, ByteWrap(V[k]) + rbHEADER_SIZE,
                                                      SizeAt(f, V[k]))
  BY <1>6, <1>7 DEF LentAt, Loan
<1>9. \A k \in i .. r1 - 1 : \E l \in P : LentAt(f, V, k, l)
  <2>1. TAKE k \in i .. r1 - 1
  <2>2. PICK l : l = Loan(t, ByteWrap(V[k]) + rbHEADER_SIZE, SizeAt(f, V[k]))
    OBVIOUS
  <2>3. l \in P
    BY <1>7, <2>2
  <2>4. LentAt(f, V, k, l)
    BY <1>6, <2>2 DEF LentAt, Loan
  <2>. QED
    BY <2>3, <2>4
<1>10. \A j, k \in 1 .. m :
         ByteWrap(V[j]) + rbHEADER_SIZE = ByteWrap(V[k]) + rbHEADER_SIZE => j = k
  <2>1. TAKE j, k \in 1 .. m
  <2>2. SUFFICES ASSUME j # k
                 PROVE  ByteWrap(V[j]) + rbHEADER_SIZE # ByteWrap(V[k]) + rbHEADER_SIZE
    OBVIOUS
  <2>3. j \in 1 .. m + 1 /\ k \in 1 .. m + 1 /\ j # m + 1 /\ k # m + 1
    BY <1>2
  <2>4. ByteWrap(V[j]) # ByteWrap(V[k])
    BY <1>2, <2>2, <2>3, Apart
  <2>5. ByteWrap(V[j]) \in Nat /\ ByteWrap(V[k]) \in Nat
    BY <1>2, <2>3, AddrIs DEF Spaced
  <2>. QED
    BY <2>4, <2>5 DEF rbHEADER_SIZE
<1>11. /\ \A k \in i .. r1 - 1 : k \in 1 .. m /\ k \in 1 .. r1 - 1 /\ k >= r
       /\ \A k \in 1 .. r - 1 : k \in 1 .. m /\ k \in 1 .. r1 - 1 /\ k < r
       /\ \A k \in 1 .. r1 - 1 : k \in 1 .. r - 1 \/ k \in r .. i - 1 \/ k \in i .. r1 - 1
  BY <1>2, <1>6
<1>12. LentAre(f, L \cup P, V, r1)
  <2>1. \A l \in L : \E k \in 1 .. r - 1 : LentAt(f, V, k, l)
    BY <1>2, <1>5 DEF LentAre
  <2>2. \A l \in L \cup P : \E k \in 1 .. r1 - 1 : LentAt(f, V, k, l)
    BY <1>8, <1>11, <2>1
  <2>3. ASSUME NEW k \in 1 .. r1 - 1, Live(f, V[k])
        PROVE  \E l \in L \cup P : LentAt(f, V, k, l)
    <3>1. k \in 1 .. r - 1 => \E l \in L : LentAt(f, V, k, l)
      BY <1>2, <1>5, <2>3 DEF LentAre
    <3>2. k \notin r .. i - 1
      BY <1>6, <2>3 DEF Live, Dummy
    <3>. QED
      BY <1>9, <1>11, <3>1, <3>2
  <2>4. ASSUME NEW l \in L \cup P, NEW g \in L \cup P, l.item = g.item PROVE l = g
    <3>1. ASSUME NEW x \in L, NEW y \in P PROVE x.item # y.item
      <4>1. PICK j \in 1 .. r - 1 : x.item = ByteWrap(V[j]) + rbHEADER_SIZE
        BY <2>1 DEF LentAt
      <4>2. PICK k \in i .. r1 - 1 : y.item = ByteWrap(V[k]) + rbHEADER_SIZE
        BY <1>8 DEF LentAt
      <4>3. j \in 1 .. m /\ k \in 1 .. m /\ j # k
        BY <1>2, <1>11
      <4>. QED
        BY <1>10, <4>1, <4>2, <4>3
    <3>2. ASSUME NEW x \in P, NEW y \in P, x.item = y.item PROVE x = y
      <4>1. PICK j \in i .. r1 - 1 : /\ LentAt(f, V, j, x)
                                     /\ x = Loan(t, ByteWrap(V[j]) + rbHEADER_SIZE,
                                                 SizeAt(f, V[j]))
        BY <1>8
      <4>2. PICK k \in i .. r1 - 1 : /\ LentAt(f, V, k, y)
                                     /\ y = Loan(t, ByteWrap(V[k]) + rbHEADER_SIZE,
                                                 SizeAt(f, V[k]))
        BY <1>8
      <4>3. j = k
        BY <1>10, <1>11, <3>2, <4>1, <4>2 DEF LentAt
      <4>. QED
        BY <4>1, <4>2, <4>3
    <3>3. ASSUME NEW x \in L, NEW y \in L, x.item = y.item PROVE x = y
      BY <1>2, <3>3 DEF LentAre
    <3>. QED
      BY <2>4, <3>1, <3>2, <3>3
  <2>. QED
    BY <2>2, <2>3, <2>4 DEF LentAre
<1>13. Whole(b1, A, L \cup P, n, m, V, r1, w)
  BY <1>2, <1>5, <1>6, <1>12 DEF Whole
<1>14. Counted(b1, A, L \cup P, n, c - 1)
  BY <1>6, <1>13 DEF Counted
<1>. QED
  BY <1>5, <1>6, <1>7, <1>14

\* A return of any of the lent parts takes its handle away, and no item.
LEMMA ReturnCounts ==
    ASSUME ~IsByteBuffer, NEW b, NEW A, NEW L, NEW n, NEW c, Counted(b, A, L, n, c),
           NEW l \in L, NEW b1, b1 = prvReturnItemDefault(b, l.item)
    PROVE  Counted(b1, A, L \ {l}, n, c)
<1>1. PICK m, V, r, w : Whole(b, A, L, n, m, V, r, w) /\ c = ItemsIn(b.mem, V, r, w)
  BY DEF Counted
<1>2. Shape(b, m, V, r, w) /\ n \in Nat /\ LentAre(b.mem, L, V, r)
      /\ m \in Nat /\ r \in 1 .. m + 1 /\ HandlesAre(b.mem, A, n, m, V, w)
      /\ w \in r .. m + 1 /\ w \in Nat /\ r \in Nat /\ Spaced(m, V)
  BY <1>1 DEF Whole, Shape, Spaced, Marked
<1>3. PICK i \in 1 .. r - 1 : LentAt(b.mem, V, i, l)
  BY <1>2 DEF LentAre
<1>4. l.item = ByteWrap(V[i]) + rbHEADER_SIZE
  BY <1>3 DEF LentAt
<1>5. PICK s, m1, V1 : Returned(b, b1, m, V, r, w, i, s, m1, V1)
  BY <1>2, <1>4, ItemReturnKeeps
<1>6. PICK f, f1 : f = b.mem /\ f1 = b1.mem
  OBVIOUS
<1>7. /\ s \in 0 .. r - 1 /\ s \in Nat /\ m1 = m - s
      /\ Shape(b1, m1, V1, r - s, w - s)
      /\ \A k \in 1 .. s : Live(f, V[k]) => k = i
      /\ ItemsIn(f1, V1, r - s, w - s) = ItemsIn(f, V, r, w)
  BY <1>5, <1>6 DEF Returned
<1>8. \A k \in s + 1 .. m : /\ Dummy(f1, V1[k - s]) = Dummy(f, V[k])
                            /\ TagAt(f1, V1[k - s]) = TagAt(f, V[k])
                            /\ Handle(f1, V1[k - s]) = Handle(f, V[k])
  BY <1>5, <1>6 DEF Returned, Handle
<1>9. \A k \in s + 1 .. m : Live(f1, V1[k - s]) <=> Live(f, V[k]) /\ k # i
  BY <1>5, <1>6 DEF Returned
<1>10. \A k \in s + 1 .. m : /\ ByteWrap(V1[k - s]) = ByteWrap(V[k])
                             /\ SizeAt(f1, V1[k - s]) = SizeAt(f, V[k])
  BY <1>5, <1>6 DEF Returned
<1>11. \A j, k \in 1 .. m :
         ByteWrap(V[j]) + rbHEADER_SIZE = ByteWrap(V[k]) + rbHEADER_SIZE => j = k
  <2>1. TAKE j, k \in 1 .. m
  <2>2. SUFFICES ASSUME j # k
                 PROVE  ByteWrap(V[j]) + rbHEADER_SIZE # ByteWrap(V[k]) + rbHEADER_SIZE
    OBVIOUS
  <2>3. j \in 1 .. m + 1 /\ k \in 1 .. m + 1 /\ j # m + 1 /\ k # m + 1
    BY <1>2
  <2>4. ByteWrap(V[j]) # ByteWrap(V[k])
    BY <1>2, <2>2, <2>3, Apart
  <2>5. ByteWrap(V[j]) \in Nat /\ ByteWrap(V[k]) \in Nat
    BY <1>2, <2>3, AddrIs DEF Spaced
  <2>. QED
    BY <2>4, <2>5 DEF rbHEADER_SIZE
<1>12. LentAre(f1, L \ {l}, V1, r - s)
  <2>1. ASSUME NEW g \in L \ {l}
        PROVE  \E j \in 1 .. (r - s) - 1 : LentAt(f1, V1, j, g)
    <3>1. PICK k \in 1 .. r - 1 : LentAt(f, V, k, g)
      BY <1>2, <1>6 DEF LentAre
    <3>2. k # i
      <4>1. g.item # l.item
        BY <1>2, <2>1 DEF LentAre
      <4>. QED
        BY <1>4, <3>1, <4>1 DEF LentAt
    <3>3. k \notin 1 .. s
      BY <1>7, <3>1, <3>2 DEF LentAt
    <3>4. k \in s + 1 .. m /\ k - s \in 1 .. (r - s) - 1
      BY <1>2, <1>7, <3>3
    <3>5. LentAt(f1, V1, k - s, g)
      BY <1>9, <1>10, <3>1, <3>2, <3>4 DEF LentAt
    <3>. QED
      BY <3>4, <3>5
  <2>2. ASSUME NEW j \in 1 .. (r - s) - 1, Live(f1, V1[j])
        PROVE  \E g \in L \ {l} : LentAt(f1, V1, j, g)
    <3>1. PICK k : k = j + s /\ k \in s + 1 .. m /\ k - s = j /\ k \in 1 .. r - 1
                   /\ k \in 1 .. m
      BY <1>2, <1>7
    <3>2. Live(f, V[k]) /\ k # i
      BY <1>9, <2>2, <3>1
    <3>3. PICK g \in L : LentAt(f, V, k, g)
      BY <1>2, <1>6, <3>1, <3>2 DEF LentAre
    <3>4. g # l
      <4>1. i \in 1 .. m
        BY <1>2
      <4>. QED
        BY <1>4, <1>11, <3>1, <3>2, <3>3, <4>1 DEF LentAt
    <3>5. LentAt(f1, V1, k - s, g)
      BY <1>9, <1>10, <3>1, <3>2, <3>3 DEF LentAt
    <3>. QED
      BY <3>1, <3>3, <3>4, <3>5
  <2>3. \A x, y \in L \ {l} : x.item = y.item => x = y
    BY <1>2 DEF LentAre
  <2>. QED
    BY <2>1, <2>2, <2>3 DEF LentAre
<1>13. HandlesAre(f1, A, n, m1, V1, w - s)
  <2>1. ASSUME NEW k \in Unsent(f, m, V, w)
        PROVE  k - s \in Unsent(f1, m1, V1, w - s) /\ k \in s + 1 .. m
    <3>1. k \in w .. m /\ ~Dummy(f, V[k])
      BY DEF Unsent
    <3>2. k \in s + 1 .. m /\ k - s \in w - s .. m1
      BY <1>2, <1>7, <3>1
    <3>. QED
      BY <1>8, <3>1, <3>2 DEF Unsent
  <2>2. ASSUME NEW j \in Unsent(f1, m1, V1, w - s)
        PROVE  j + s \in Unsent(f, m, V, w) /\ j + s \in s + 1 .. m /\ (j + s) - s = j
               /\ j \in Int
    <3>1. j \in w - s .. m1 /\ ~Dummy(f1, V1[j])
      BY DEF Unsent
    <3>2. j + s \in s + 1 .. m /\ j + s \in w .. m /\ (j + s) - s = j
      BY <1>2, <1>7, <3>1
    <3>. QED
      BY <1>8, <3>1, <3>2 DEF Unsent
  <2>3. A = {Handle(f, V[k]) : k \in Unsent(f, m, V, w)}
    BY <1>2, <1>6 DEF HandlesAre
  <2>4. A = {Handle(f1, V1[j]) : j \in Unsent(f1, m1, V1, w - s)}
    <3>1. ASSUME NEW x \in A PROVE \E j \in Unsent(f1, m1, V1, w - s) : x = Handle(f1, V1[j])
      <4>1. PICK k \in Unsent(f, m, V, w) : x = Handle(f, V[k])
        BY <2>3
      <4>2. k - s \in Unsent(f1, m1, V1, w - s) /\ x = Handle(f1, V1[k - s])
        BY <1>8, <2>1, <4>1
      <4>. QED
        BY <4>2
    <3>2. ASSUME NEW j \in Unsent(f1, m1, V1, w - s) PROVE Handle(f1, V1[j]) \in A
      <4>1. j + s \in Unsent(f, m, V, w) /\ j + s \in s + 1 .. m /\ (j + s) - s = j
        BY <2>2
      <4>2. Handle(f1, V1[j]) = Handle(f, V[j + s])
        BY <1>8, <4>1
      <4>. QED
        BY <2>3, <4>1, <4>2
    <3>. QED
      BY <3>1, <3>2
  <2>5. ASSUME NEW j \in Unsent(f1, m1, V1, w - s)
        PROVE  TagAt(f1, V1[j]) = TagAt(f, V[j + s])
    BY <1>8, <2>2
  <2>6. ASSUME NEW j \in Unsent(f1, m1, V1, w - s), NEW k \in Unsent(f1, m1, V1, w - s),
               j < k
        PROVE  TagAt(f1, V1[j]) < TagAt(f1, V1[k])
    <3>1. j + s \in Unsent(f, m, V, w) /\ k + s \in Unsent(f, m, V, w) /\ j + s < k + s
      BY <1>7, <2>2, <2>6
    <3>2. TagAt(f, V[j + s]) < TagAt(f, V[k + s])
      BY <1>2, <1>6, <3>1 DEF HandlesAre
    <3>. QED
      BY <2>5, <3>2
  <2>7. ASSUME NEW j \in Unsent(f1, m1, V1, w - s)
        PROVE  TagAt(f1, V1[j]) \in Nat /\ TagAt(f1, V1[j]) < n
    <3>1. TagAt(f, V[j + s]) \in Nat /\ TagAt(f, V[j + s]) < n
      BY <1>2, <1>6, <2>2 DEF HandlesAre
    <3>. QED
      BY <2>5, <3>1
  <2>. QED
    BY <2>4, <2>6, <2>7 DEF HandlesAre
<1>14. Whole(b1, A, L \ {l}, n, m1, V1, r - s, w - s)
  BY <1>2, <1>6, <1>7, <1>12, <1>13 DEF Whole
<1>. QED
  BY <1>1, <1>6, <1>7, <1>14 DEF Counted

\* A new buffer has one place for a block and none in it.
LEMMA InitCounts ==
    ASSUME ~IsByteBuffer
    PROVE  Counted(prvInitializeNewRingbuffer, {}, {}, 0, 0)
<1>0. xSize \in Nat /\ xSize % 4 = 0 /\ xSize >= 16
  BY ItemSize
<1>1. PICK b, mem, V : /\ b = prvInitializeNewRingbuffer /\ mem = b.mem
                       /\ mem = [p \in Words |-> Word(0, {}, 0)]
                       /\ V = [k \in 1 .. 1 |-> 0]
  BY DEF prvInitializeNewRingbuffer
<1>2. /\ b.acquire = 0 /\ b.write = 0 /\ b.read = 0 /\ b.free = 0
      /\ b.full = FALSE /\ b.waiting = 0
  BY <1>1 DEF prvInitializeNewRingbuffer
<1>3. 0 \in Words /\ 0 \in Addr /\ ByteWrap(0) = 0
  BY <1>0 DEF Words, Addr, ByteWrap, rbHEADER_SIZE
<1>4. b \in ItemBlock
  <2>1. Word(0, {}, 0) \in HeaderWord
    BY DEF Word, HeaderWord
  <2>2. mem \in Memory
    BY <1>1, <2>1 DEF Memory, HeaderWord
  <2>3. b = [acquire |-> 0, write |-> 0, read |-> 0, free |-> 0,
             full |-> FALSE, waiting |-> 0, mem |-> mem]
    BY <1>1 DEF prvInitializeNewRingbuffer
  <2>. QED
    BY <1>3, <2>2, <2>3 DEF ItemBlock
<1>5. V[1] = 0 /\ V[0 + 1] = 0 /\ V \in [1 .. 0 + 1 -> Addr]
  BY <1>1, <1>3
<1>6. Spaced(0, V)
  <2>1. \A j, k \in 1 .. 0 + 1 : j = 1 /\ k = 1
    OBVIOUS
  <2>2. \A j, k \in 1 .. 0 + 1 : j <= k => V[j] + 8 * (k - j) <= V[k]
    BY <1>5, <2>1
  <2>. QED
    BY <1>0, <1>5, <2>2 DEF Spaced
<1>7. Laid(mem, 0, V) /\ Marked(mem, 0, V, 1, 1) /\ Ends(b, 0, V)
  <2>1. Laid(mem, 0, V)
    BY DEF Laid, Chained
  <2>2. Marked(mem, 0, V, 1, 1)
    BY DEF Marked
  <2>3. Ends(b, 0, V)
    BY <1>0, <1>2, <1>3, <1>5 DEF Ends
  <2>. QED
    BY <2>1, <2>2, <2>3
<1>8. Passed(mem, V, 1, 1) = 0 /\ Halves(mem, V, 1, 1) = 0
  <2>1. 1 .. 1 - 1 = {} /\ 1 - 1 = 0
    OBVIOUS
  <2>2. /\ ~ \E k \in 1 .. 1 - 1 : Dummy(mem, V[k])
        /\ ~ \E k \in 1 .. 1 - 1 : "SPLIT" \in Flags(mem, V[k])
    BY <2>1
  <2>3. Passed(mem, V, 1, 1) = (1 - 1) - 0 /\ Halves(mem, V, 1, 1) = 0
    BY <2>2, Zenon DEF Passed, Halves
  <2>. QED
    BY <2>3
<1>9. Shape(b, 0, V, 1, 1)
  BY <1>1, <1>2, <1>3, <1>4, <1>5, <1>6, <1>7, <1>8 DEF Shape
<1>10. HandlesAre(mem, {}, 0, 0, V, 1)
  BY NothingUnsent
<1>11. LentAre(mem, {}, V, 1)
  BY DEF LentAre
<1>12. Whole(b, {}, {}, 0, 0, V, 1, 1)
  BY <1>1, <1>9, <1>10, <1>11 DEF Whole
<1>13. 0 = ItemsIn(b.mem, V, 1, 1)
  BY <1>1, <1>8 DEF ItemsIn
<1>. QED
  BY <1>1, <1>12, <1>13 DEF Counted

\* prvCheckItemAvail says whether there is an item to retrieve.
LEMMA CountedIs ==
    ASSUME ~IsByteBuffer, NEW b, NEW A, NEW L, NEW n, NEW c, Counted(b, A, L, n, c)
    PROVE  /\ b \in ItemBlock /\ n \in Nat /\ c \in Nat
           /\ prvCheckItemAvail(b) <=> c > 0
<1>1. PICK m, V, r, w : Whole(b, A, L, n, m, V, r, w) /\ c = ItemsIn(b.mem, V, r, w)
  BY DEF Counted
<1>2. Shape(b, m, V, r, w) /\ n \in Nat
  BY <1>1 DEF Whole
<1>3. b \in ItemBlock
  BY <1>2 DEF Shape
<1>. QED
  BY <1>1, <1>2, <1>3, AvailIs

\* The headers of the items out.
LEMMA HandlesHold ==
    ASSUME ~IsByteBuffer, NEW b, NEW A, NEW L, NEW n, NEW c, Counted(b, A, L, n, c)
    PROVE  /\ \A h \in A : LET w == b.mem[h.item - rbHEADER_SIZE] IN
               w.xItemLen = h.size /\ w.uxItemFlags \cap {"WRITTEN", "DUMMY"} = {}
           /\ \A l \in L : LET w == b.mem[l.item - rbHEADER_SIZE] IN
               w.xItemLen = l.size /\ w.uxItemFlags \cap {"FREE", "DUMMY"} = {}
<1>1. PICK m, V, r, w : Whole(b, A, L, n, m, V, r, w)
  BY DEF Counted
<1>2. /\ HandlesAre(b.mem, A, n, m, V, w) /\ LentAre(b.mem, L, V, r)
      /\ Marked(b.mem, m, V, r, w) /\ Spaced(m, V)
  BY <1>1 DEF Whole, Shape
<1>3. /\ m \in Nat /\ r \in 1 .. m + 1 /\ w \in r .. m + 1
  BY <1>2 DEF Marked, Spaced
<1>4. \A k \in 1 .. m + 1 : ByteWrap(V[k]) \in Nat
  BY <1>2, AddrIs DEF Spaced
<1>5. \A k \in 1 .. m + 1 : (ByteWrap(V[k]) + rbHEADER_SIZE) - rbHEADER_SIZE
                           = ByteWrap(V[k])
  BY <1>4 DEF rbHEADER_SIZE
<1>6. ASSUME NEW h \in A
      PROVE  /\ b.mem[h.item - rbHEADER_SIZE].xItemLen = h.size
             /\ b.mem[h.item - rbHEADER_SIZE].uxItemFlags
                  \cap {"WRITTEN", "DUMMY"} = {}
  <2>1. PICK k \in Unsent(b.mem, m, V, w) : h = Handle(b.mem, V[k])
    BY <1>2 DEF HandlesAre
  <2>2. k \in w .. m /\ ~Dummy(b.mem, V[k]) /\ k \in 1 .. m + 1
    BY <1>3, <2>1 DEF Unsent
  <2>3. "WRITTEN" \notin Flags(b.mem, V[k])
    BY <1>2, <2>2 DEF Marked
  <2>4. h.item - rbHEADER_SIZE = ByteWrap(V[k]) /\ h.size = SizeAt(b.mem, V[k])
    BY <1>5, <2>1, <2>2 DEF Handle
  <2>. QED
    BY <2>2, <2>3, <2>4 DEF Dummy, Flags, SizeAt
<1>7. ASSUME NEW l \in L
      PROVE  /\ b.mem[l.item - rbHEADER_SIZE].xItemLen = l.size
             /\ b.mem[l.item - rbHEADER_SIZE].uxItemFlags
                  \cap {"FREE", "DUMMY"} = {}
  <2>1. PICK k \in 1 .. r - 1 : LentAt(b.mem, V, k, l)
    BY <1>2 DEF LentAre
  <2>2. k \in 1 .. m + 1
    BY <1>3
  <2>3. l.item - rbHEADER_SIZE = ByteWrap(V[k]) /\ l.size = SizeAt(b.mem, V[k])
        /\ Live(b.mem, V[k])
    BY <1>5, <2>1, <2>2 DEF LentAt
  <2>. QED
    BY <2>3 DEF Live, Flags, SizeAt
<1>. QED
  BY <1>6, <1>7

\* With nothing out and nothing to retrieve, no block is left.
LEMMA EmptyIs ==
    ASSUME ~IsByteBuffer, NEW b, NEW n, NEW c, Counted(b, {}, {}, n, c),
           b.waiting = 0
    PROVE  b.acquire = b.free /\ ~b.full
<1>1. PICK m, V, r, w : Whole(b, {}, {}, n, m, V, r, w) /\ c = ItemsIn(b.mem, V, r, w)
  BY DEF Counted
<1>2. Shape(b, m, V, r, w) /\ LentAre(b.mem, {}, V, r) /\ Spaced(m, V)
      /\ Ends(b, m, V) /\ Marked(b.mem, m, V, r, w) /\ m \in Nat
  BY <1>1 DEF Whole, Shape, Spaced
<1>3. w = m + 1
  BY <1>1, AllSent
<1>4. r = w
  BY <1>1, <1>2, <1>3, AvailIs
<1>5. r = 1
  <2>1. \A k \in 1 .. r - 1 : ~Live(b.mem, V[k])
    BY <1>2 DEF LentAre
  <2>. QED
    BY <1>2, <2>1 DEF Marked
<1>6. m = 0 /\ V[m + 1] = V[1]
  BY <1>2, <1>3, <1>4, <1>5
<1>7. V[1] \in Nat /\ V[1] < xSize /\ xSize \in Nat
  <2>1. 1 \in 1 .. m + 1
    BY <1>2
  <2>. QED
    BY <1>2, <2>1, AddrIs, ItemSize DEF Spaced
<1>. QED
  BY <1>2, <1>6, <1>7 DEF Ends, ByteWrap

\* The largest item is of some size.
LEMMA ItemMaxNat ==
    ASSUME ~IsByteBuffer
    PROVE  xMaxItemSize \in Nat
<1>0. xSize \in Nat /\ xSize % 4 = 0 /\ xSize >= 16
  BY ItemSize
<1>1. CASE xBufferType = "NOSPLIT"
  BY <1>0, <1>1 DEF xMaxItemSize, rbALIGN_SIZE, rbHEADER_SIZE
<1>2. CASE xBufferType = "ALLOWSPLIT"
  BY <1>0, <1>2 DEF xMaxItemSize, rbHEADER_SIZE
<1>. QED
  BY <1>1, <1>2, TypeAssumption DEF IsByteBuffer

\* What xGetCurMaxSize promises fits: of a buffer of items, ...
LEMMA ItemFreeSize ==
    ASSUME ~IsByteBuffer, NEW b \in ItemBlock, NEW n \in 1 .. xGetCurMaxSize(b)
    PROVE  xCheckItemFits(b, n)
<1>0. xSize \in Nat /\ xSize % 4 = 0 /\ xSize >= 16
  BY ItemSize
<1>1. PICK a, f \in Nat : /\ a = b.acquire /\ f = b.free /\ a % 4 = 0 /\ f % 4 = 0
                          /\ a < xSize /\ f < xSize
  BY <1>0, ItemBlockFields DEF Words
<1>2. PICK x, y, z \in Nat : a = 4 * x /\ f = 4 * y /\ xSize = 4 * z
  BY <1>0, <1>1
<1>3. CASE b.full
  BY <1>3, TypeAssumption DEF xGetCurMaxSize, IsByteBuffer, prvGetCurMaxSizeNoSplit,
                              prvGetCurMaxSizeAllowSplit
<1>4. CASE ~b.full
  <2>1. CASE xBufferType = "NOSPLIT"
    <3>1. PICK room \in Int :
            room = (IF a < f THEN f - a ELSE LargerOf(xSize - a, f)) - 8
      BY <1>0, <1>1 DEF LargerOf
    <3>2. xGetCurMaxSize(b) = AtMost(room, xMaxItemSize)
      BY <1>1, <1>4, <2>1, <3>1 DEF xGetCurMaxSize, prvGetCurMaxSizeNoSplit, rbHEADER_SIZE
    <3>3. n \in Nat /\ n <= room
      BY <3>1, <3>2, ItemMaxNat DEF AtMost
    <3>4. PICK t \in Nat : rbALIGN_SIZE(n) = 4 * t /\ 4 * t < n + 4
      BY <3>3 DEF rbALIGN_SIZE
    <3>5. IF a = f THEN TRUE
          ELSE IF f > a THEN 4 * t + 8 <= f - a
          ELSE 4 * t + 8 <= xSize - a \/ 4 * t + 8 <= f
      BY <1>0, <1>1, <1>2, <3>1, <3>3, <3>4 DEF LargerOf
    <3>. QED
      BY <1>1, <1>4, <2>1, <3>4, <3>5
         DEF xCheckItemFits, prvCheckItemFitsDefault, IsByteBuffer, rbHEADER_SIZE
  <2>2. CASE xBufferType = "ALLOWSPLIT"
    <3>1. PICK room \in Int :
            room = IF a = 0 /\ f = 0 THEN xSize - 8
                   ELSE IF a < f THEN (f - a) - 8 ELSE f + (xSize - a) - 16
      BY <1>0, <1>1
    <3>2. xGetCurMaxSize(b) = AtMost(room, xMaxItemSize)
      BY <1>0, <1>1, <1>4, <2>2, <3>1
         DEF xGetCurMaxSize, prvGetCurMaxSizeAllowSplit, rbHEADER_SIZE
    <3>3. n \in Nat /\ n <= room
      BY <3>1, <3>2, ItemMaxNat DEF AtMost
    <3>4. PICK t \in Nat : rbALIGN_SIZE(n) = 4 * t /\ 4 * t < n + 4
      BY <3>3 DEF rbALIGN_SIZE
    <3>5. IF a = f THEN TRUE
          ELSE IF f > a THEN 4 * t + 8 <= f - a
          ELSE 4 * t + 8 + 8 <= xSize - (a - f)
      BY <1>0, <1>1, <1>2, <3>1, <3>3, <3>4
    <3>. QED
      BY <1>1, <1>4, <2>2, <3>4, <3>5
         DEF xCheckItemFits, prvCheckItemFitsDefault, IsByteBuffer, rbHEADER_SIZE
  <2>. QED
    BY <2>1, <2>2, TypeAssumption DEF IsByteBuffer
<1>. QED
  BY <1>3, <1>4

\* ... and of a byte buffer.
LEMMA ByteFreeSize ==
    ASSUME IsByteBuffer, NEW b \in ByteBlock, NEW n \in 1 .. xGetCurMaxSize(b)
    PROVE  xCheckItemFits(b, n)
<1>1. PICK a, f \in Cells : a = b.acquire /\ f = b.free
  BY BlockFields
<1>2. xSize \in Nat /\ a \in Nat /\ f \in Nat
  BY SizeAssumption DEF Cells
<1>3. xGetCurMaxSize(b) = IF b.full THEN 0
                          ELSE IF f - a <= 0 THEN f - a + xSize ELSE f - a
  BY <1>1 DEF xGetCurMaxSize, IsByteBuffer, prvGetCurMaxSizeByteBuf
<1>4. IF a = f THEN ~b.full
      ELSE IF f > a THEN n <= f - a ELSE n <= xSize - (a - f)
  BY <1>2, <1>3
<1>. QED
  BY <1>1, <1>4 DEF xCheckItemFits, prvCheckItemFitsByteBuffer

\* An empty buffer has room for any item.
LEMMA EmptyFits ==
    ASSUME NEW b, b.acquire = b.free, ~b.full, NEW n
    PROVE  xCheckItemFits(b, n)
BY DEF xCheckItemFits, prvCheckItemFitsByteBuffer, prvCheckItemFitsDefault

(***************************************************************************)
(* Counting tasks.  Nothing is assumed of the number of tasks; the ones    *)
(* that are not idle are finitely many, as each step moves at most one.    *)
(***************************************************************************)
InState(pc, X) == {t \in DOMAIN pc : pc[t] \in X}
Count(pc, X) == Cardinality(InState(pc, X))

\* Task t goes to x: the tasks in the states X are one more, one fewer or as many.
Moved(pc, pc1, t, x, X) ==
    /\ IsFiniteSet(InState(pc1, X))
    /\ Count(pc, X) \in Nat /\ Count(pc1, X) \in Nat
    /\ x \in X /\ pc[t] \notin X => Count(pc1, X) = Count(pc, X) + 1
    /\ x \notin X /\ pc[t] \in X => Count(pc1, X) = Count(pc, X) - 1
    /\ (x \in X <=> pc[t] \in X) => Count(pc1, X) = Count(pc, X)

\* A step of one task changes the numbers of tasks by one at most.
LEMMA MoveCounts ==
    ASSUME NEW T, NEW U, NEW pc \in [T -> U], NEW t \in T, NEW x, NEW X, NEW pc1,
           pc1 = [pc EXCEPT ![t] = x], IsFiniteSet(InState(pc, X))
    PROVE  Moved(pc, pc1, t, x, X)
<1>1. DOMAIN pc = T /\ DOMAIN pc1 = T /\ pc1[t] = x
      /\ \A u \in T : u # t => pc1[u] = pc[u]
  OBVIOUS
<1>2. PICK S, S1 : S = InState(pc, X) /\ S1 = InState(pc1, X)
  OBVIOUS
<1>3. t \in S <=> pc[t] \in X
  BY <1>1, <1>2 DEF InState
<1>4. x \in X => S1 = S \cup {t}
  BY <1>1, <1>2 DEF InState
<1>5. x \notin X => S1 = S \ {t}
  BY <1>1, <1>2 DEF InState
<1>6. IsFiniteSet(S) /\ Cardinality(S) \in Nat
  BY <1>2, FS_CardinalityType
<1>7. /\ IsFiniteSet(S \cup {t})
      /\ Cardinality(S \cup {t}) = IF t \in S THEN Cardinality(S)
                                   ELSE Cardinality(S) + 1
  BY <1>6, FS_AddElement
<1>8. /\ IsFiniteSet(S \ {t})
      /\ Cardinality(S \ {t}) = IF t \in S THEN Cardinality(S) - 1
                                ELSE Cardinality(S)
  BY <1>6, FS_RemoveElement
<1>9. IsFiniteSet(S1) /\ Cardinality(S1) \in Nat
  BY <1>4, <1>5, <1>7, <1>8, FS_CardinalityType
<1>10. x \in X /\ pc[t] \notin X => Cardinality(S1) = Cardinality(S) + 1
  BY <1>3, <1>4, <1>7
<1>11. x \notin X /\ pc[t] \in X => Cardinality(S1) = Cardinality(S) - 1
  BY <1>3, <1>5, <1>8
<1>12. (x \in X <=> pc[t] \in X) => Cardinality(S1) = Cardinality(S)
  BY <1>3, <1>4, <1>5, <1>7, <1>8
<1>. QED
  BY <1>2, <1>6, <1>9, <1>10, <1>11, <1>12 DEF Moved, Count

(***************************************************************************)
(* The invariant of a buffer of items.                                     *)
(***************************************************************************)
SendStates == {"idle", "blocked", "woken", "notify", "assert"}
RecvStates == {"idle", "blocked", "woken", "selected"}
InSend == {"blocked", "woken"}

TasksAre ==
    /\ sendPc \in [Senders -> SendStates] /\ recvPc \in [Receivers -> RecvStates]
    /\ sendReq \in [Senders -> [size : Nat, acquire : BOOLEAN]]
    /\ inSet \in BOOLEAN /\ notices \in Nat

\* What a task that waits in a send has asked for; a copy goes in with nothing
\* acquired before it, as there is a single sender or nobody acquires.
RequestsAre ==
    /\ \A s \in Senders : sendPc[s] \in InSend =>
         /\ sendReq[s].size \in 0 .. xMaxItemSize
         /\ sendReq[s].acquire => AcquireSizes # {}
         /\ ~sendReq[s].acquire => acquired = {}
    /\ AcquireSizes = {} => acquired = {}

\* The items to retrieve and to complete were sent, and the bound leaves room
\* for the ones waited for.
Budget(c) ==
    /\ IsFiniteSet(acquired) /\ IsFiniteSet(InState(sendPc, InSend))
    /\ c + Cardinality(acquired) <= sent
    /\ sent + Count(sendPc, InSend) <= MaxSent

\* While a receiver waits, there is a woken one for each item.
Woke(c) ==
    /\ IsFiniteSet(InState(recvPc, {"woken"}))
    /\ ~inSet /\ Blocked(recvPc) # {} => c <= Count(recvPc, {"woken"})

\* In a queue set that is long enough there is a notice for each item.
Told(c) ==
    /\ IsFiniteSet(InState(sendPc, {"notify"}))
    /\ IsFiniteSet(InState(recvPc, {"selected"}))
    /\ inSet /\ SetLength >= MaxSent =>
         c <= notices + Count(sendPc, {"notify"}) + Count(recvPc, {"selected"})

ItemsAre(c) == /\ Counted(rb, acquired, loans, sent, c)
               /\ Budget(c) /\ Woke(c) /\ Told(c)

ItemInv == TasksAre /\ RequestsAre /\ \E c : ItemsAre(c)

\* Items are completed in the order in which they were acquired, by one sender.
Orderly == xBufferType = "NOSPLIT" =>
             AcquireSizes = {} \/ (InOrder /\ \A s, t \in Senders : s = t)

\* Where items are acquired, there is one sender and it completes them in order.
LEMMA OrderlyIs ==
    ASSUME ~IsByteBuffer, Orderly, AcquireSizes # {}
    PROVE  xBufferType = "NOSPLIT" /\ InOrder /\ \A s, t \in Senders : s = t
BY SizesAssumption DEF Orderly

\* A new buffer.
LEMMA ItemInvInit ==
    ASSUME ~IsByteBuffer, Init
    PROVE  ItemInv
<1>1. TasksAre /\ RequestsAre
  BY DEF Init, TasksAre, RequestsAre, SendStates, RecvStates, InSend
<1>2. Counted(rb, acquired, loans, sent, 0)
  BY InitCounts DEF Init
<1>3. /\ InState(sendPc, InSend) = {} /\ InState(sendPc, {"notify"}) = {}
      /\ InState(recvPc, {"woken"}) = {} /\ InState(recvPc, {"selected"}) = {}
  BY DEF Init, InState, InSend
<1>4. IsFiniteSet({}) /\ Cardinality({}) = 0
  BY FS_EmptySet
<1>5. Budget(0) /\ Woke(0) /\ Told(0)
  <2>1. /\ Count(sendPc, InSend) = 0 /\ Count(sendPc, {"notify"}) = 0
        /\ Count(recvPc, {"woken"}) = 0 /\ Count(recvPc, {"selected"}) = 0
    BY <1>3, <1>4 DEF Count
  <2>2. acquired = {} /\ Cardinality(acquired) = 0 /\ sent = 0 /\ inSet = FALSE
        /\ MaxSent \in Nat
    BY <1>4, SizesAssumption DEF Init
  <2>3. Budget(0)
    BY <1>3, <1>4, <2>1, <2>2 DEF Budget
  <2>4. Woke(0)
    BY <1>3, <1>4, <2>1 DEF Woke
  <2>5. Told(0)
    BY <1>3, <1>4, <2>2 DEF Told
  <2>. QED
    BY <2>3, <2>4, <2>5
<1>. QED
  BY <1>1, <1>2, <1>5 DEF ItemInv, ItemsAre

(***************************************************************************)
(* The actions, and the items counted.                                     *)
(***************************************************************************)
\* An operation on the data, and what it does to the number of items.
LEMMA CopyStep ==
    ASSUME ~IsByteBuffer, acquired = {}, NEW s, NEW n \in 0 .. xMaxItemSize,
           SendCopies(s, n), NEW c, Counted(rb, acquired, loans, sent, c)
    PROVE  /\ Counted(rb', acquired', loans', sent', c + 1)
           /\ sent' = sent + 1 /\ acquired' = {}
<1>1. /\ xCheckItemFits(rb, n) /\ rb' = vCopyItem(rb, n, sent)
      /\ sent' = sent + 1 /\ acquired' = {} /\ loans' = loans
  BY DEF SendCopies, Unit
<1>2. Counted(rb, {}, loans, sent, c)
  OBVIOUS
<1>3. Counted(rb', {}, loans, sent + 1, c + 1)
  BY <1>1, <1>2, CopyCounts
<1>. QED
  BY <1>1, <1>3

\* The same for an acquisition.
LEMMA AcquireStep ==
    ASSUME xBufferType = "NOSPLIT", NEW s, NEW n \in 0 .. xMaxItemSize,
           SendAcquires(s, n), NEW c, Counted(rb, acquired, loans, sent, c)
    PROVE  /\ Counted(rb', acquired', loans', sent', c)
           /\ sent' = sent + 1
           /\ \E g : g \notin acquired /\ acquired' = acquired \cup {g}
<1>1. PICK g : g = [item |-> AcquiredItem(rb, n), size |-> n, tag |-> sent]
  OBVIOUS
<1>2. /\ xCheckItemFits(rb, n) /\ rb' = prvAcquireItemNoSplit(rb, n, sent)
      /\ sent' = sent + 1 /\ acquired' = acquired \cup {g} /\ loans' = loans
  BY <1>1 DEF SendAcquires
<1>3. Counted(rb', acquired \cup {g}, loans, sent + 1, c) /\ g \notin acquired
  BY <1>1, <1>2, AcquireCounts
<1>. QED
  BY <1>2, <1>3

\* The same for a completion in order.
LEMMA CompleteStep ==
    ASSUME xBufferType = "NOSPLIT", InOrder, NEW s, NEW h \in acquired,
           xRingbufferSendComplete(s, h), NEW c, Counted(rb, acquired, loans, sent, c)
    PROVE  /\ Counted(rb', acquired', loans', sent', c + 1)
           /\ sent' = sent /\ acquired' = acquired \ {h}
<1>1. /\ rb' = prvSendItemDoneNoSplit(rb, h.item, h.size, h.tag)
      /\ sent' = sent /\ acquired' = acquired \ {h} /\ loans' = loans
      /\ \A g \in acquired : h.tag <= g.tag
  BY DEF xRingbufferSendComplete
<1>2. Counted(rb', acquired \ {h}, loans, sent, c + 1)
  BY <1>1, CompleteCounts
<1>. QED
  BY <1>1, <1>2

\* The same for a retrieval.
LEMMA GetStep ==
    ASSUME ~IsByteBuffer, NEW r, NEW max, ReceiveGets(r, max),
           NEW c, Counted(rb, acquired, loans, sent, c)
    PROVE  Counted(rb', acquired', loans', sent', c - 1) /\ c \in Nat /\ c > 0
<1>1. prvCheckItemAvail(rb) /\ acquired' = acquired /\ sent' = sent
  BY DEF ReceiveGets
<1>2. PICK got : got = GetParts(r, rb, max)
  OBVIOUS
<1>3. rb' = got.rb /\ loans' = loans \cup got.parts
  BY <1>2 DEF ReceiveGets
<1>4. Counted(got.rb, acquired, loans \cup got.parts, sent, c - 1)
  BY <1>1, <1>2, GetCounts
<1>5. c \in Nat /\ c > 0
  BY <1>1, CountedIs
<1>. QED
  BY <1>1, <1>3, <1>4, <1>5

\* The same for a return.
LEMMA ReturnStep ==
    ASSUME ~IsByteBuffer, NEW l \in loans, vRingbufferReturnItem(l),
           NEW c, Counted(rb, acquired, loans, sent, c)
    PROVE  Counted(rb', acquired', loans', sent', c)
<1>1. /\ rb' = prvReturnItemDefault(rb, l.item) /\ loans' = loans \ {l}
      /\ acquired' = acquired /\ sent' = sent
  BY DEF vRingbufferReturnItem, vReturnItem
<1>2. Counted(rb', acquired, loans \ {l}, sent, c)
  BY <1>1, ReturnCounts
<1>. QED
  BY <1>1, <1>2

(***************************************************************************)
(* Announcing an item.                                                     *)
(***************************************************************************)
\* A receiver's waiting list shrinks by the one that is woken.
LEMMA WakeReceiver ==
    ASSUME TasksAre, Wake(recvPc, recvPc'), ~inSet, inSet' = inSet,
           NEW c \in Nat, Woke(c)
    PROVE  /\ recvPc' \in [Receivers -> RecvStates] /\ Woke(c + 1)'
           /\ InState(recvPc', {"selected"}) = InState(recvPc, {"selected"})
<1>1. CASE Blocked(recvPc) = {}
  <2>1. recvPc' = recvPc
    BY <1>1 DEF Wake
  <2>. QED
    BY <1>1, <2>1 DEF TasksAre, Woke
<1>2. CASE Blocked(recvPc) # {}
  <2>1. PICK t \in Blocked(recvPc) : recvPc' = [recvPc EXCEPT ![t] = "woken"]
    BY <1>2 DEF Wake
  <2>2. t \in Receivers /\ recvPc[t] = "blocked" /\ recvPc \in [Receivers -> RecvStates]
    BY <2>1 DEF Blocked, TasksAre
  <2>3. Moved(recvPc, recvPc', t, "woken", {"woken"})
    BY <2>1, <2>2, MoveCounts DEF Woke
  <2>4. IsFiniteSet(InState(recvPc', {"woken"}))
        /\ Count(recvPc', {"woken"}) = Count(recvPc, {"woken"}) + 1
        /\ Count(recvPc, {"woken"}) \in Nat
    BY <2>2, <2>3 DEF Moved
  <2>5. c <= Count(recvPc, {"woken"})
    BY <1>2 DEF Woke
  <2>6. Woke(c + 1)'
    BY <2>4, <2>5 DEF Woke
  <2>. QED
    BY <2>1, <2>2, <2>6 DEF InState, RecvStates
<1>. QED
  BY <1>1, <1>2

\* The sender s, which was in a call, is done; the budget apart.
LEMMA AnnounceKeeps ==
    ASSUME TasksAre, NEW s \in Senders, sendPc[s] \in {"idle", "woken"}, Announce(s),
           UNCHANGED <<inSet, notices, sendReq>>, NEW c \in Nat, Woke(c), Told(c)
    PROVE  /\ TasksAre' /\ Woke(c + 1)' /\ Told(c + 1)'
           /\ \E x \in {"idle", "notify"} : sendPc' = [sendPc EXCEPT ![s] = x]
<1>1. inSet' = inSet /\ notices' = notices /\ sendReq' = sendReq
  OBVIOUS
<1>2. sendPc \in [Senders -> SendStates] /\ notices \in Nat
  BY DEF TasksAre
<1>3. CASE inSet
  <2>1. sendPc' = [sendPc EXCEPT ![s] = "notify"] /\ recvPc' = recvPc
    BY <1>3 DEF Announce
  <2>2. TasksAre'
    BY <1>1, <2>1 DEF TasksAre, SendStates
  <2>3. Woke(c + 1)'
    BY <1>1, <1>3, <2>1 DEF Woke
  <2>4. Moved(sendPc, sendPc', s, "notify", {"notify"})
    BY <1>2, <2>1, MoveCounts DEF Told
  <2>5. IsFiniteSet(InState(sendPc', {"notify"}))
        /\ Count(sendPc', {"notify"}) = Count(sendPc, {"notify"}) + 1
        /\ Count(sendPc, {"notify"}) \in Nat
    BY <2>4 DEF Moved
  <2>6. Count(recvPc, {"selected"}) \in Nat
    BY FS_CardinalityType DEF Told, Count
  <2>7. Told(c + 1)'
    BY <1>1, <1>2, <1>3, <2>1, <2>5, <2>6 DEF Told
  <2>. QED
    BY <2>1, <2>2, <2>3, <2>7
<1>4. CASE ~inSet
  <2>1. sendPc' = [sendPc EXCEPT ![s] = "idle"] /\ Wake(recvPc, recvPc')
    BY <1>4 DEF Announce
  <2>2. /\ recvPc' \in [Receivers -> RecvStates] /\ Woke(c + 1)'
        /\ InState(recvPc', {"selected"}) = InState(recvPc, {"selected"})
    BY <1>1, <1>4, <2>1, WakeReceiver
  <2>3. TasksAre'
    BY <1>1, <2>1, <2>2 DEF TasksAre, SendStates
  <2>4. Moved(sendPc, sendPc', s, "idle", {"notify"})
    BY <1>2, <2>1, MoveCounts DEF Told
  <2>5. Told(c + 1)'
    BY <1>1, <1>4, <2>2, <2>4 DEF Told, Moved
  <2>. QED
    BY <2>1, <2>2, <2>3, <2>5
<1>. QED
  BY <1>3, <1>4

(***************************************************************************)
(* The senders' steps.                                                     *)
(***************************************************************************)
\* A task in a call may send: its item is within the bound.
May(s) == \/ sendPc[s] = "woken"
          \/ sendPc[s] = "idle" /\ sent + Count(sendPc, InSend) + 1 <= MaxSent

\* A sender that leaves its call has spent what it reserved.
LEMMA BudgetSpent ==
    ASSUME TasksAre, NEW s \in Senders, May(s), NEW c, Budget(c), sent \in Nat,
           NEW x, x \notin InSend, sendPc' = [sendPc EXCEPT ![s] = x],
           sent' = sent + 1, IsFiniteSet(acquired'),
           NEW c1, c1 + Cardinality(acquired') <= sent'
    PROVE  Budget(c1)'
<1>1. sendPc \in [Senders -> SendStates] /\ MaxSent \in Nat
  BY SizesAssumption DEF TasksAre
<1>2. Moved(sendPc, sendPc', s, x, InSend)
  BY <1>1, MoveCounts DEF Budget
<1>3. IsFiniteSet(InState(sendPc', InSend))
      /\ Count(sendPc, InSend) \in Nat /\ Count(sendPc', InSend) \in Nat
  BY <1>2 DEF Moved
<1>4. sent' + Count(sendPc', InSend) <= MaxSent
  <2>1. CASE sendPc[s] = "woken"
    <3>1. Count(sendPc', InSend) = Count(sendPc, InSend) - 1
      BY <1>2, <2>1 DEF Moved, InSend
    <3>. QED
      BY <1>1, <1>3, <3>1 DEF Budget
  <2>2. CASE /\ sendPc[s] = "idle"
             /\ sent + Count(sendPc, InSend) + 1 <= MaxSent
    <3>1. Count(sendPc', InSend) = Count(sendPc, InSend)
      BY <1>2, <2>2 DEF Moved, InSend
    <3>. QED
      BY <1>1, <1>3, <2>2, <3>1
  <2>. QED
    BY <2>1, <2>2 DEF May
<1>. QED
  BY <1>3, <1>4 DEF Budget

\* A send that copies its item.
LEMMA CopyKeepsItems ==
    ASSUME ~IsByteBuffer, TasksAre, RequestsAre, NEW c, ItemsAre(c),
           NEW s \in Senders, May(s), acquired = {},
           NEW n \in 0 .. xMaxItemSize, SendCopies(s, n)
    PROVE  ItemInv'
<1>1. /\ Counted(rb', acquired', loans', sent', c + 1)
      /\ sent' = sent + 1 /\ acquired' = {}
  BY CopyStep DEF ItemsAre
<1>2. c \in Nat /\ sent \in Nat
  BY CountedIs DEF ItemsAre
<1>3. Announce(s) /\ UNCHANGED <<inSet, notices, sendReq>>
  BY DEF SendCopies, setVars
<1>4. sendPc[s] \in {"idle", "woken"}
  BY DEF May
<1>5. /\ TasksAre' /\ Woke(c + 1)' /\ Told(c + 1)'
      /\ \E x \in {"idle", "notify"} : sendPc' = [sendPc EXCEPT ![s] = x]
  BY <1>2, <1>3, <1>4, AnnounceKeeps DEF ItemsAre
<1>6. PICK x \in {"idle", "notify"} : sendPc' = [sendPc EXCEPT ![s] = x]
  BY <1>5
<1>7. x \notin InSend
  BY <1>6 DEF InSend
<1>8. Budget(c + 1)'
  <2>1. IsFiniteSet(acquired') /\ Cardinality(acquired') = 0
    BY <1>1, FS_EmptySet
  <2>2. Cardinality(acquired) = 0
    BY FS_EmptySet
  <2>3. (c + 1) + Cardinality(acquired') <= sent'
    BY <1>1, <1>2, <2>1, <2>2 DEF ItemsAre, Budget
  <2>. QED
    BY <1>1, <1>2, <1>6, <1>7, <2>1, <2>3, BudgetSpent DEF ItemsAre
<1>9. RequestsAre'
  <2>1. sendReq' = sendReq /\ sendPc \in [Senders -> SendStates]
    BY <1>3 DEF TasksAre
  <2>. QED
    BY <1>1, <1>6, <1>7, <2>1 DEF RequestsAre
<1>. QED
  BY <1>1, <1>5, <1>8, <1>9 DEF ItemInv, ItemsAre

\* A send that acquires its item.
LEMMA AcquireKeepsItems ==
    ASSUME ~IsByteBuffer, Orderly, TasksAre, RequestsAre, NEW c, ItemsAre(c),
           NEW s \in Senders, May(s), AcquireSizes # {},
           NEW n \in 0 .. xMaxItemSize, SendAcquires(s, n)
    PROVE  ItemInv'
<1>0. xBufferType = "NOSPLIT" /\ \A u, t \in Senders : u = t
  BY OrderlyIs
<1>1. /\ Counted(rb', acquired', loans', sent', c) /\ sent' = sent + 1
      /\ \E g : g \notin acquired /\ acquired' = acquired \cup {g}
  BY <1>0, AcquireStep DEF ItemsAre
<1>2. c \in Nat /\ sent \in Nat
  BY CountedIs DEF ItemsAre
<1>3. /\ sendPc' = [sendPc EXCEPT ![s] = "idle"]
      /\ sendReq' = sendReq /\ recvPc' = recvPc /\ inSet' = inSet /\ notices' = notices
  BY DEF SendAcquires, setVars
<1>4. TasksAre'
  BY <1>3 DEF TasksAre, SendStates
<1>5. Budget(c)'
  <2>1. PICK g : g \notin acquired /\ acquired' = acquired \cup {g}
    BY <1>1
  <2>2. IsFiniteSet(acquired) /\ Cardinality(acquired) \in Nat
    BY FS_CardinalityType DEF ItemsAre, Budget
  <2>3. IsFiniteSet(acquired') /\ Cardinality(acquired') = Cardinality(acquired) + 1
    BY <2>1, <2>2, FS_AddElement
  <2>4. c + Cardinality(acquired') <= sent'
    BY <1>1, <1>2, <2>2, <2>3 DEF ItemsAre, Budget
  <2>5. "idle" \notin InSend
    BY DEF InSend
  <2>. QED
    BY <1>1, <1>2, <1>3, <2>3, <2>4, <2>5, BudgetSpent DEF ItemsAre
<1>6. Woke(c)'
  BY <1>3 DEF ItemsAre, Woke
<1>7. Told(c)'
  <2>1. Moved(sendPc, sendPc', s, "idle", {"notify"})
    BY <1>3, MoveCounts DEF ItemsAre, Told, TasksAre
  <2>2. Count(sendPc', {"notify"}) = Count(sendPc, {"notify"})
        /\ IsFiniteSet(InState(sendPc', {"notify"}))
    BY <2>1 DEF Moved, May
  <2>. QED
    BY <1>3, <2>2 DEF ItemsAre, Told
<1>8. RequestsAre'
  <2>1. \A t \in Senders : t = s /\ sendPc'[t] = "idle"
    BY <1>0, <1>3 DEF TasksAre
  <2>. QED
    BY <2>1 DEF RequestsAre, InSend
<1>. QED
  BY <1>1, <1>4, <1>5, <1>6, <1>7, <1>8 DEF ItemInv, ItemsAre

\* The completion of an acquired item.
LEMMA CompleteKeepsItems ==
    ASSUME ~IsByteBuffer, Orderly, TasksAre, RequestsAre, NEW c, ItemsAre(c),
           NEW s \in Senders, NEW h \in acquired, AcquireSizes # {},
           xRingbufferSendComplete(s, h)
    PROVE  ItemInv'
<1>0. xBufferType = "NOSPLIT" /\ InOrder /\ \A u, t \in Senders : u = t
  BY OrderlyIs
<1>1. /\ Counted(rb', acquired', loans', sent', c + 1)
      /\ sent' = sent /\ acquired' = acquired \ {h}
  BY <1>0, CompleteStep DEF ItemsAre
<1>2. c \in Nat /\ sent \in Nat
  BY CountedIs DEF ItemsAre
<1>3. Announce(s) /\ UNCHANGED <<inSet, notices, sendReq>> /\ sendPc[s] = "idle"
  BY DEF xRingbufferSendComplete, setVars
<1>4. sendPc[s] \in {"idle", "woken"}
  BY <1>3
<1>5. /\ TasksAre' /\ Woke(c + 1)' /\ Told(c + 1)'
      /\ \E x \in {"idle", "notify"} : sendPc' = [sendPc EXCEPT ![s] = x]
  BY <1>2, <1>3, <1>4, AnnounceKeeps DEF ItemsAre
<1>6. PICK x \in {"idle", "notify"} : sendPc' = [sendPc EXCEPT ![s] = x]
  BY <1>5
<1>7. x \notin InSend /\ sendPc[s] \notin InSend
  BY <1>3, <1>6 DEF InSend
<1>8. Budget(c + 1)'
  <2>1. IsFiniteSet(acquired) /\ Cardinality(acquired) \in Nat
    BY FS_CardinalityType DEF ItemsAre, Budget
  <2>2. IsFiniteSet(acquired') /\ Cardinality(acquired') = Cardinality(acquired) - 1
    BY <1>1, <2>1, FS_RemoveElement
  <2>3. (c + 1) + Cardinality(acquired') <= sent'
    BY <1>1, <1>2, <2>1, <2>2 DEF ItemsAre, Budget
  <2>4. Moved(sendPc, sendPc', s, x, InSend)
    BY <1>6, MoveCounts DEF ItemsAre, Budget, TasksAre
  <2>5. Count(sendPc', InSend) = Count(sendPc, InSend)
        /\ IsFiniteSet(InState(sendPc', InSend))
    BY <1>7, <2>4 DEF Moved
  <2>. QED
    BY <1>1, <2>2, <2>3, <2>5 DEF ItemsAre, Budget
<1>9. RequestsAre'
  <2>1. \A t \in Senders : t = s /\ sendPc'[t] = x
    BY <1>0, <1>6 DEF TasksAre
  <2>. QED
    BY <1>7, <2>1 DEF RequestsAre
<1>. QED
  BY <1>1, <1>5, <1>8, <1>9 DEF ItemInv, ItemsAre

\* A step that leaves the data alone leaves the items where they are.
LEMMA SameItems ==
    ASSUME UNCHANGED dataVars, NEW c, ItemsAre(c)
    PROVE  /\ Counted(rb', acquired', loans', sent', c)
           /\ rb' = rb /\ acquired' = acquired /\ sent' = sent /\ loans' = loans
BY DEF dataVars, ItemsAre

\* A sender goes to wait, wakes up or gives up.
LEMMA SenderMoves ==
    ASSUME ~IsByteBuffer, TasksAre, NEW c, ItemsAre(c), UNCHANGED dataVars,
           NEW s \in Senders, NEW x \in {"idle", "blocked", "woken"},
           sendPc' = [sendPc EXCEPT ![s] = x], sendPc[s] \in {"idle", "blocked", "woken"},
           sendPc[s] = "idle" => sent + Count(sendPc, InSend) + 1 <= MaxSent,
           UNCHANGED <<recvPc, inSet, notices>>
    PROVE  ItemsAre(c)'
<1>1. /\ Counted(rb', acquired', loans', sent', c)
      /\ rb' = rb /\ acquired' = acquired /\ sent' = sent
  BY SameItems
<1>2. c \in Nat /\ sent \in Nat /\ MaxSent \in Nat
  BY CountedIs, SizesAssumption DEF ItemsAre
<1>3. recvPc' = recvPc /\ inSet' = inSet /\ notices' = notices
  OBVIOUS
<1>4. Moved(sendPc, sendPc', s, x, InSend) /\ Moved(sendPc, sendPc', s, x, {"notify"})
  BY MoveCounts DEF ItemsAre, Budget, Told, TasksAre
<1>5. Budget(c)'
  <2>1. IsFiniteSet(InState(sendPc', InSend)) /\ Count(sendPc, InSend) \in Nat
        /\ Count(sendPc', InSend) \in Nat
    BY <1>4 DEF Moved
  <2>2. Count(sendPc', InSend) <= Count(sendPc, InSend)
        \/ (sendPc[s] = "idle" /\ Count(sendPc', InSend) = Count(sendPc, InSend) + 1)
    <3>1. x \in InSend /\ sendPc[s] \notin InSend => sendPc[s] = "idle"
      BY DEF InSend
    <3>. QED
      BY <1>4, <2>1, <3>1 DEF Moved
  <2>3. sent' + Count(sendPc', InSend) <= MaxSent
    BY <1>1, <1>2, <2>1, <2>2 DEF ItemsAre, Budget
  <2>. QED
    BY <1>1, <2>1, <2>3 DEF ItemsAre, Budget
<1>6. Woke(c)'
  BY <1>3 DEF ItemsAre, Woke
<1>7. Told(c)'
  <2>1. Count(sendPc', {"notify"}) = Count(sendPc, {"notify"})
        /\ IsFiniteSet(InState(sendPc', {"notify"}))
    BY <1>4 DEF Moved
  <2>. QED
    BY <1>3, <2>1 DEF ItemsAre, Told
<1>. QED
  BY <1>1, <1>5, <1>6, <1>7 DEF ItemsAre

\* A sender goes to sleep.
LEMMA BlockKeepsItems ==
    ASSUME ~IsByteBuffer, TasksAre, RequestsAre, NEW c, ItemsAre(c),
           NEW s \in Senders, May(s), NEW n \in 0 .. xMaxItemSize, NEW acq \in BOOLEAN,
           acq => AcquireSizes # {}, ~acq => acquired = {},
           SendBlocks(s, n, acq)
    PROVE  ItemInv'
<1>1. /\ UNCHANGED dataVars /\ UNCHANGED <<recvPc, inSet, notices>>
      /\ sendPc' = [sendPc EXCEPT ![s] = "blocked"] /\ acquired' = acquired
      /\ sendReq' = [sendReq EXCEPT ![s] = [size |-> n, acquire |-> acq]]
  BY DEF SendBlocks, dataVars, setVars
<1>2. ItemsAre(c)'
  <2>1. sendPc[s] \in {"idle", "blocked", "woken"}
        /\ (sendPc[s] = "idle" => sent + Count(sendPc, InSend) + 1 <= MaxSent)
    BY DEF May
  <2>. QED
    BY <1>1, <2>1, SenderMoves
<1>3. n \in Nat
  BY ItemMaxNat
<1>4. TasksAre'
  BY <1>1, <1>3 DEF TasksAre, SendStates
<1>5. RequestsAre'
  <2>1. /\ sendReq'[s].size = n /\ sendReq'[s].acquire = acq
        /\ \A t \in Senders : t # s => sendReq'[t] = sendReq[t] /\ sendPc'[t] = sendPc[t]
    BY <1>1 DEF TasksAre
  <2>2. ASSUME NEW t \in Senders, sendPc'[t] \in InSend
        PROVE  /\ sendReq'[t].size \in 0 .. xMaxItemSize
               /\ sendReq'[t].acquire => AcquireSizes # {}
               /\ ~sendReq'[t].acquire => acquired' = {}
    <3>1. CASE t = s
      BY <1>1, <2>1, <3>1
    <3>2. CASE t # s
      BY <1>1, <2>1, <2>2, <3>2 DEF RequestsAre
    <3>. QED
      BY <3>1, <3>2
  <2>. QED
    BY <1>1, <2>2 DEF RequestsAre
<1>. QED
  BY <1>2, <1>4, <1>5 DEF ItemInv

\* A sender is woken, or its wait times out.
LEMMA LeaveKeepsItems ==
    ASSUME ~IsByteBuffer, TasksAre, RequestsAre, NEW c, ItemsAre(c),
           NEW s \in Senders, NEW x \in {"idle", "woken"}, sendPc[s] \in InSend,
           sendPc' = [sendPc EXCEPT ![s] = x],
           UNCHANGED <<dataVars, sendReq, recvPc, recvMax, setVars>>
    PROVE  ItemInv'
<1>1. /\ UNCHANGED dataVars /\ UNCHANGED <<recvPc, inSet, notices>>
      /\ sendReq' = sendReq /\ acquired' = acquired
  BY DEF dataVars, setVars
<1>2. ItemsAre(c)'
  <2>1. x \in {"idle", "blocked", "woken"} /\ sendPc[s] \in {"idle", "blocked", "woken"}
        /\ sendPc[s] # "idle"
    BY DEF InSend
  <2>. QED
    BY <1>1, <2>1, SenderMoves
<1>3. TasksAre'
  BY <1>1 DEF TasksAre, SendStates
<1>4. RequestsAre'
  <2>1. \A t \in Senders : sendPc'[t] \in InSend => sendPc[t] \in InSend
    BY DEF TasksAre
  <2>. QED
    BY <1>1, <2>1 DEF RequestsAre
<1>. QED
  BY <1>2, <1>3, <1>4 DEF ItemInv

\* The notice is queued: a queue as long as the bound has room for it.
LEMMA NotifyKeepsItems ==
    ASSUME ~IsByteBuffer, TasksAre, RequestsAre, NEW c, ItemsAre(c),
           NEW s \in Senders, SendNotifies(s)
    PROVE  ItemInv'
<1>1. /\ UNCHANGED dataVars /\ recvPc' = recvPc /\ inSet' = inSet
      /\ sendReq' = sendReq /\ acquired' = acquired /\ sendPc[s] = "notify"
      /\ sendPc' = [sendPc EXCEPT ![s] = IF inSet THEN "idle" ELSE "assert"]
      /\ notices' = IF inSet /\ notices < SetLength THEN notices + 1 ELSE notices
  BY DEF SendNotifies, dataVars
<1>2. PICK x \in {"idle", "assert"} : sendPc' = [sendPc EXCEPT ![s] = x]
  BY <1>1
<1>3. /\ Counted(rb', acquired', loans', sent', c) /\ sent' = sent
  BY <1>1, SameItems
<1>4. c \in Nat /\ sent \in Nat /\ MaxSent \in Nat /\ SetLength \in Nat /\ notices \in Nat
  BY CountedIs, SizesAssumption DEF ItemsAre, TasksAre
<1>5. Moved(sendPc, sendPc', s, x, InSend) /\ Moved(sendPc, sendPc', s, x, {"notify"})
  BY <1>2, MoveCounts DEF ItemsAre, Budget, Told, TasksAre
<1>6. Count(sendPc', InSend) = Count(sendPc, InSend)
      /\ IsFiniteSet(InState(sendPc', InSend)) /\ Count(sendPc, InSend) \in Nat
  BY <1>1, <1>5 DEF Moved, InSend
<1>7. Count(sendPc', {"notify"}) = Count(sendPc, {"notify"}) - 1
      /\ IsFiniteSet(InState(sendPc', {"notify"}))
      /\ Count(sendPc, {"notify"}) \in Nat /\ Count(sendPc', {"notify"}) \in Nat
  BY <1>1, <1>5 DEF Moved
<1>8. Budget(c)'
  BY <1>1, <1>3, <1>6 DEF ItemsAre, Budget
<1>9. Woke(c)'
  BY <1>1 DEF ItemsAre, Woke
<1>10. Told(c)'
  <2>1. Count(recvPc, {"selected"}) \in Nat
    BY FS_CardinalityType DEF Count, ItemsAre, Told
  <2>2. IsFiniteSet(acquired) /\ Cardinality(acquired) \in Nat
    BY FS_CardinalityType DEF ItemsAre, Budget
  <2>3. c <= MaxSent
    BY <1>4, <1>6, <2>2 DEF ItemsAre, Budget
  <2>4. ASSUME inSet, SetLength >= MaxSent
        PROVE  c <= notices' + Count(sendPc', {"notify"}) + Count(recvPc, {"selected"})
    <3>1. CASE notices < SetLength
      BY <1>1, <1>4, <1>7, <2>1, <2>4, <3>1 DEF ItemsAre, Told
    <3>2. CASE ~(notices < SetLength)
      BY <1>1, <1>4, <1>7, <2>1, <2>3, <2>4, <3>2
    <3>. QED
      BY <3>1, <3>2
  <2>. QED
    BY <1>1, <1>7, <2>4 DEF ItemsAre, Told
<1>11. TasksAre'
  <2>1. notices' \in Nat
    BY <1>1, <1>4
  <2>. QED
    BY <1>1, <1>2, <2>1 DEF TasksAre, SendStates
<1>12. RequestsAre'
  <2>1. \A t \in Senders : sendPc'[t] \in InSend => sendPc[t] \in InSend
    BY <1>2 DEF TasksAre, InSend
  <2>. QED
    BY <1>1, <2>1 DEF RequestsAre
<1>. QED
  BY <1>3, <1>8, <1>9, <1>10, <1>11, <1>12 DEF ItemInv, ItemsAre

(***************************************************************************)
(* The receivers' steps.                                                   *)
(***************************************************************************)
\* A receiver's step leaves the senders, and their requests, alone.
LEMMA SendersSame ==
    ASSUME TasksAre, RequestsAre, UNCHANGED <<acquired, sendPc, sendReq, inSet>>,
           NEW r \in Receivers, NEW x \in RecvStates,
           recvPc' = [recvPc EXCEPT ![r] = x], notices' \in Nat
    PROVE  TasksAre' /\ RequestsAre'
<1>1. acquired' = acquired /\ sendPc' = sendPc /\ sendReq' = sendReq /\ inSet' = inSet
  OBVIOUS
<1>2. TasksAre'
  BY <1>1 DEF TasksAre
<1>3. RequestsAre'
  BY <1>1 DEF RequestsAre
<1>. QED
  BY <1>2, <1>3

\* The tasks counted, after a receiver's step.
LEMMA ReceiverCounts ==
    ASSUME TasksAre, NEW c, ItemsAre(c), NEW r \in Receivers, NEW x,
           recvPc' = [recvPc EXCEPT ![r] = x]
    PROVE  /\ Moved(recvPc, recvPc', r, x, {"woken"})
           /\ Moved(recvPc, recvPc', r, x, {"selected"})
           /\ Count(sendPc, {"notify"}) \in Nat
<1>1. recvPc \in [Receivers -> RecvStates]
  BY DEF TasksAre
<1>2. Moved(recvPc, recvPc', r, x, {"woken"})
  BY <1>1, MoveCounts DEF ItemsAre, Woke
<1>3. Moved(recvPc, recvPc', r, x, {"selected"})
  BY <1>1, MoveCounts DEF ItemsAre, Told
<1>4. Count(sendPc, {"notify"}) \in Nat
  BY FS_CardinalityType DEF Count, ItemsAre, Told
<1>. QED
  BY <1>2, <1>3, <1>4

\* A receiver that does not go to sleep adds nobody to the waiting list.
LEMMA NoMoreBlocked ==
    ASSUME TasksAre, NEW r \in Receivers, NEW x, x # "blocked",
           recvPc' = [recvPc EXCEPT ![r] = x]
    PROVE  Blocked(recvPc') \subseteq Blocked(recvPc)
BY DEF Blocked, TasksAre

\* A receive that retrieves an item.
LEMMA GetKeepsItems ==
    ASSUME ~IsByteBuffer, TasksAre, RequestsAre, NEW c, ItemsAre(c),
           NEW r \in Receivers, NEW max, ReceiveGets(r, max)
    PROVE  ItemInv'
<1>1. Counted(rb', acquired', loans', sent', c - 1) /\ c \in Nat /\ c > 0
  BY GetStep DEF ItemsAre
<1>2. /\ acquired' = acquired /\ sent' = sent /\ sendPc' = sendPc /\ sendReq' = sendReq
      /\ inSet' = inSet /\ notices' = notices
      /\ recvPc' = [recvPc EXCEPT ![r] = "idle"]
  BY DEF ReceiveGets, setVars
<1>3. TasksAre' /\ RequestsAre'
  <2>1. "idle" \in RecvStates /\ notices' \in Nat
    BY <1>2 DEF RecvStates, TasksAre
  <2>. QED
    BY <1>2, <2>1, SendersSame
<1>4. /\ Moved(recvPc, recvPc', r, "idle", {"woken"})
      /\ Moved(recvPc, recvPc', r, "idle", {"selected"})
      /\ Count(sendPc, {"notify"}) \in Nat
      /\ Blocked(recvPc') \subseteq Blocked(recvPc)
  <2>1. PICK x : x = "idle" /\ x # "blocked" /\ recvPc' = [recvPc EXCEPT ![r] = x]
    BY <1>2
  <2>2. /\ Moved(recvPc, recvPc', r, x, {"woken"})
        /\ Moved(recvPc, recvPc', r, x, {"selected"})
        /\ Count(sendPc, {"notify"}) \in Nat
    BY <2>1, ReceiverCounts
  <2>3. Blocked(recvPc') \subseteq Blocked(recvPc)
    BY <2>1, NoMoreBlocked
  <2>. QED
    BY <2>1, <2>2, <2>3
<1>5. Budget(c - 1)'
  <2>1. IsFiniteSet(acquired) /\ Cardinality(acquired) \in Nat /\ sent \in Nat
    BY FS_CardinalityType, CountedIs DEF ItemsAre, Budget
  <2>2. (c - 1) + Cardinality(acquired) <= sent
    BY <1>1, <2>1 DEF ItemsAre, Budget
  <2>. QED
    BY <1>2, <2>2 DEF ItemsAre, Budget
<1>6. Woke(c - 1)'
  <2>1. IsFiniteSet(InState(recvPc', {"woken"})) /\ Count(recvPc, {"woken"}) \in Nat
        /\ Count(recvPc', {"woken"}) \in Nat
        /\ Count(recvPc', {"woken"}) >= Count(recvPc, {"woken"}) - 1
    BY <1>4 DEF Moved
  <2>2. ASSUME ~inSet, Blocked(recvPc') # {} PROVE c - 1 <= Count(recvPc', {"woken"})
    <3>1. c <= Count(recvPc, {"woken"})
      BY <1>4, <2>2 DEF ItemsAre, Woke
    <3>. QED
      BY <1>1, <2>1, <3>1
  <2>. QED
    BY <1>2, <2>1, <2>2 DEF Woke
<1>7. Told(c - 1)'
  <2>1. IsFiniteSet(InState(recvPc', {"selected"})) /\ Count(recvPc, {"selected"}) \in Nat
        /\ Count(recvPc', {"selected"}) \in Nat
        /\ Count(recvPc', {"selected"}) >= Count(recvPc, {"selected"}) - 1
    BY <1>4 DEF Moved
  <2>2. notices \in Nat
    BY DEF TasksAre
  <2>3. ASSUME inSet, SetLength >= MaxSent
        PROVE  c - 1 <= notices + Count(sendPc, {"notify"}) + Count(recvPc', {"selected"})
    BY <1>1, <1>4, <2>1, <2>2, <2>3 DEF ItemsAre, Told
  <2>. QED
    BY <1>2, <2>1, <2>3 DEF ItemsAre, Told
<1>. QED
  BY <1>1, <1>3, <1>5, <1>6, <1>7 DEF ItemInv, ItemsAre

\* With nothing to retrieve, a receiver may block or leave.
LEMMA NothingToGet ==
    ASSUME ~IsByteBuffer, TasksAre, RequestsAre, NEW c, ItemsAre(c),
           NEW r \in Receivers, NEW x \in RecvStates, ~prvCheckItemAvail(rb),
           recvPc' = [recvPc EXCEPT ![r] = x],
           UNCHANGED <<dataVars, sendPc, sendReq, setVars>>
    PROVE  ItemInv'
<1>1. /\ Counted(rb', acquired', loans', sent', c)
      /\ acquired' = acquired /\ sent' = sent
  BY SameItems
<1>2. c \in Nat /\ c = 0
  BY CountedIs DEF ItemsAre
<1>3. sendPc' = sendPc /\ sendReq' = sendReq /\ inSet' = inSet /\ notices' = notices
      /\ notices \in Nat
  BY DEF setVars, TasksAre
<1>4. TasksAre' /\ RequestsAre'
  BY <1>1, <1>3, SendersSame
<1>5. /\ Moved(recvPc, recvPc', r, x, {"woken"})
      /\ Moved(recvPc, recvPc', r, x, {"selected"})
      /\ Count(sendPc, {"notify"}) \in Nat
  BY ReceiverCounts
<1>6. Budget(c)'
  BY <1>1, <1>3 DEF ItemsAre, Budget
<1>7. Woke(c)'
  BY <1>2, <1>5 DEF Moved, Woke
<1>8. Told(c)'
  <2>1. IsFiniteSet(InState(recvPc', {"selected"})) /\ Count(recvPc', {"selected"}) \in Nat
    BY <1>5 DEF Moved
  <2>2. c <= notices + Count(sendPc, {"notify"}) + Count(recvPc', {"selected"})
    BY <1>2, <1>3, <1>5, <2>1
  <2>. QED
    BY <1>3, <2>1, <2>2 DEF ItemsAre, Told
<1>. QED
  BY <1>1, <1>4, <1>6, <1>7, <1>8 DEF ItemInv, ItemsAre

\* A receiver's time is over, or it is handed a notice of the queue set.
LEMMA TimeOutKeepsItems ==
    ASSUME ~IsByteBuffer, TasksAre, RequestsAre, NEW c, ItemsAre(c),
           NEW r \in Receivers, ReceiveTimesOut(r)
    PROVE  ItemInv'
<1>1. /\ UNCHANGED dataVars /\ sendPc' = sendPc /\ sendReq' = sendReq
      /\ inSet' = inSet /\ notices' = notices /\ notices \in Nat
      /\ recvPc[r] = "blocked" /\ recvPc' = [recvPc EXCEPT ![r] = "woken"]
  BY DEF ReceiveTimesOut, setVars, TasksAre
<1>2. /\ Counted(rb', acquired', loans', sent', c)
      /\ acquired' = acquired /\ sent' = sent /\ c \in Nat
  BY <1>1, SameItems, CountedIs DEF ItemsAre
<1>3. TasksAre' /\ RequestsAre'
  <2>1. "woken" \in RecvStates
    BY DEF RecvStates
  <2>. QED
    BY <1>1, <1>2, <2>1, SendersSame
<1>4. /\ Moved(recvPc, recvPc', r, "woken", {"woken"})
      /\ Moved(recvPc, recvPc', r, "woken", {"selected"})
      /\ Blocked(recvPc') \subseteq Blocked(recvPc)
  <2>1. PICK x : x = "woken" /\ x # "blocked" /\ recvPc' = [recvPc EXCEPT ![r] = x]
    BY <1>1
  <2>2. /\ Moved(recvPc, recvPc', r, x, {"woken"})
        /\ Moved(recvPc, recvPc', r, x, {"selected"})
        /\ Count(sendPc, {"notify"}) \in Nat
    BY <2>1, ReceiverCounts
  <2>3. Blocked(recvPc') \subseteq Blocked(recvPc)
    BY <2>1, NoMoreBlocked
  <2>. QED
    BY <2>1, <2>2, <2>3
<1>5. Budget(c)'
  BY <1>1, <1>2 DEF ItemsAre, Budget
<1>6. Woke(c)'
  <2>1. IsFiniteSet(InState(recvPc', {"woken"})) /\ Count(recvPc, {"woken"}) \in Nat
        /\ Count(recvPc', {"woken"}) = Count(recvPc, {"woken"}) + 1
    BY <1>1, <1>4 DEF Moved
  <2>2. ASSUME ~inSet, Blocked(recvPc') # {} PROVE c <= Count(recvPc', {"woken"})
    <3>1. c <= Count(recvPc, {"woken"})
      BY <1>4, <2>2 DEF ItemsAre, Woke
    <3>. QED
      BY <1>2, <2>1, <3>1
  <2>. QED
    BY <1>1, <2>1, <2>2 DEF Woke
<1>7. Told(c)'
  <2>1. IsFiniteSet(InState(recvPc', {"selected"}))
        /\ Count(recvPc', {"selected"}) = Count(recvPc, {"selected"})
    BY <1>1, <1>4 DEF Moved
  <2>. QED
    BY <1>1, <2>1 DEF ItemsAre, Told
<1>. QED
  BY <1>2, <1>3, <1>5, <1>6, <1>7 DEF ItemInv, ItemsAre

\* A reader of the queue set takes a notice.
LEMMA SelectKeepsItems ==
    ASSUME ~IsByteBuffer, TasksAre, RequestsAre, NEW c, ItemsAre(c),
           NEW r \in Receivers, xQueueSelectFromSet(r)
    PROVE  ItemInv'
<1>1. /\ UNCHANGED dataVars /\ sendPc' = sendPc /\ sendReq' = sendReq
      /\ inSet' = inSet /\ notices' = notices - 1 /\ notices \in Nat /\ notices > 0
      /\ recvPc[r] = "idle" /\ recvPc' = [recvPc EXCEPT ![r] = "selected"]
  BY DEF xQueueSelectFromSet, TasksAre
<1>2. /\ Counted(rb', acquired', loans', sent', c)
      /\ acquired' = acquired /\ sent' = sent /\ c \in Nat
  BY <1>1, SameItems, CountedIs DEF ItemsAre
<1>3. TasksAre' /\ RequestsAre'
  <2>1. "selected" \in RecvStates /\ notices' \in Nat
    BY <1>1 DEF RecvStates
  <2>. QED
    BY <1>1, <1>2, <2>1, SendersSame
<1>4. /\ Moved(recvPc, recvPc', r, "selected", {"woken"})
      /\ Moved(recvPc, recvPc', r, "selected", {"selected"})
      /\ Count(sendPc, {"notify"}) \in Nat
      /\ Blocked(recvPc') \subseteq Blocked(recvPc)
  <2>1. PICK x : x = "selected" /\ x # "blocked" /\ recvPc' = [recvPc EXCEPT ![r] = x]
    BY <1>1
  <2>2. /\ Moved(recvPc, recvPc', r, x, {"woken"})
        /\ Moved(recvPc, recvPc', r, x, {"selected"})
        /\ Count(sendPc, {"notify"}) \in Nat
    BY <2>1, ReceiverCounts
  <2>3. Blocked(recvPc') \subseteq Blocked(recvPc)
    BY <2>1, NoMoreBlocked
  <2>. QED
    BY <2>1, <2>2, <2>3
<1>5. Budget(c)'
  BY <1>1, <1>2 DEF ItemsAre, Budget
<1>6. Woke(c)'
  <2>1. IsFiniteSet(InState(recvPc', {"woken"}))
        /\ Count(recvPc', {"woken"}) = Count(recvPc, {"woken"})
    BY <1>1, <1>4 DEF Moved
  <2>2. ASSUME ~inSet, Blocked(recvPc') # {} PROVE c <= Count(recvPc', {"woken"})
    BY <1>4, <2>1, <2>2 DEF ItemsAre, Woke
  <2>. QED
    BY <1>1, <2>1, <2>2 DEF Woke
<1>7. Told(c)'
  <2>1. IsFiniteSet(InState(recvPc', {"selected"})) /\ Count(recvPc, {"selected"}) \in Nat
        /\ Count(recvPc', {"selected"}) = Count(recvPc, {"selected"}) + 1
    BY <1>1, <1>4 DEF Moved
  <2>2. ASSUME inSet, SetLength >= MaxSent
        PROVE  c <= notices' + Count(sendPc, {"notify"}) + Count(recvPc', {"selected"})
    BY <1>1, <1>2, <1>4, <2>1, <2>2 DEF ItemsAre, Told
  <2>. QED
    BY <1>1, <2>1, <2>2 DEF ItemsAre, Told
<1>. QED
  BY <1>2, <1>3, <1>5, <1>6, <1>7 DEF ItemInv, ItemsAre

\* A returned item wakes a sender; it stays in its call.
LEMMA ReturnKeepsItems ==
    ASSUME ~IsByteBuffer, TasksAre, RequestsAre, NEW c, ItemsAre(c),
           NEW l \in loans, vRingbufferReturnItem(l)
    PROVE  ItemInv'
<1>1. /\ Wake(sendPc, sendPc') /\ sent' = sent /\ acquired' = acquired
      /\ sendReq' = sendReq /\ recvPc' = recvPc /\ inSet' = inSet /\ notices' = notices
  BY DEF vRingbufferReturnItem, setVars
<1>2. Counted(rb', acquired', loans', sent', c)
  BY ReturnStep DEF ItemsAre
<1>3. /\ sendPc' \in [Senders -> SendStates]
      /\ \A t \in Senders : sendPc'[t] \in InSend <=> sendPc[t] \in InSend
      /\ \A t \in Senders : sendPc'[t] = "notify" <=> sendPc[t] = "notify"
  <2>1. CASE sendPc' = sendPc
    BY <2>1 DEF TasksAre
  <2>2. CASE \E t \in Blocked(sendPc) : sendPc' = [sendPc EXCEPT ![t] = "woken"]
    <3>1. PICK t \in Senders : /\ sendPc[t] = "blocked"
                               /\ sendPc' = [sendPc EXCEPT ![t] = "woken"]
      BY <2>2 DEF Blocked, TasksAre
    <3>. QED
      BY <3>1 DEF TasksAre, SendStates, InSend
  <2>. QED
    BY <1>1, <2>1, <2>2 DEF Wake
<1>4. /\ InState(sendPc', InSend) = InState(sendPc, InSend)
      /\ InState(sendPc', {"notify"}) = InState(sendPc, {"notify"})
  BY <1>3 DEF InState, TasksAre
<1>5. TasksAre' /\ RequestsAre'
  <2>1. TasksAre'
    BY <1>1, <1>3 DEF TasksAre
  <2>2. RequestsAre'
    BY <1>1, <1>3 DEF RequestsAre
  <2>. QED
    BY <2>1, <2>2
<1>6. Budget(c)'
  BY <1>1, <1>4 DEF ItemsAre, Budget, Count
<1>7. Woke(c)' /\ Told(c)'
  <2>1. Woke(c)'
    BY <1>1 DEF ItemsAre, Woke
  <2>2. Told(c)'
    BY <1>1, <1>4 DEF ItemsAre, Told, Count
  <2>. QED
    BY <2>1, <2>2
<1>. QED
  BY <1>2, <1>5, <1>6, <1>7 DEF ItemInv, ItemsAre

\* A buffer is put in a set, and taken out, only when there is nothing in it.
LEMMA SetKeepsItems ==
    ASSUME ~IsByteBuffer, TasksAre, RequestsAre, NEW c, ItemsAre(c),
           xRingbufferAddToQueueSetRead \/ xRingbufferRemoveFromQueueSetRead
    PROVE  ItemInv'
<1>1. /\ UNCHANGED dataVars /\ sendPc' = sendPc /\ sendReq' = sendReq
      /\ recvPc' = recvPc /\ inSet' \in BOOLEAN /\ notices' = notices
      /\ ~prvCheckItemAvail(rb)
  BY DEF xRingbufferAddToQueueSetRead, xRingbufferRemoveFromQueueSetRead, taskVars
<1>2. /\ Counted(rb', acquired', loans', sent', c)
      /\ acquired' = acquired /\ sent' = sent
  BY <1>1, SameItems
<1>3. c \in Nat /\ c = 0 /\ notices \in Nat
  BY <1>1, CountedIs DEF ItemsAre, TasksAre
<1>4. Count(sendPc, {"notify"}) \in Nat /\ Count(recvPc, {"selected"}) \in Nat
      /\ Count(recvPc, {"woken"}) \in Nat
  BY FS_CardinalityType DEF Count, ItemsAre, Told, Woke
<1>5. Budget(c)'
  BY <1>1, <1>2 DEF ItemsAre, Budget
<1>6. Woke(c)'
  BY <1>1, <1>3, <1>4 DEF ItemsAre, Woke
<1>7. Told(c)'
  BY <1>1, <1>3, <1>4 DEF ItemsAre, Told
<1>8. TasksAre' /\ RequestsAre'
  <2>1. TasksAre'
    BY <1>1 DEF TasksAre
  <2>2. RequestsAre'
    BY <1>1, <1>2 DEF RequestsAre
  <2>. QED
    BY <2>1, <2>2
<1>. QED
  BY <1>2, <1>5, <1>6, <1>7, <1>8 DEF ItemInv, ItemsAre

(***************************************************************************)
(* The specification, and its theorems.                                    *)
(***************************************************************************)
\* Every step preserves ItemInv.
LEMMA ItemInvStep ==
    ASSUME ~IsByteBuffer, Orderly, ItemInv, [Next]_vars
    PROVE  ItemInv'
<1>1. PICK c : ItemsAre(c)
  BY DEF ItemInv
<1>2. TasksAre /\ RequestsAre
  BY DEF ItemInv
<1>3. Asked = Count(sendPc, InSend)
  <2>1. InState(sendPc, InSend) = {s \in Senders : sendPc[s] \in {"blocked", "woken"}}
    BY <1>2 DEF InState, InSend, TasksAre
  <2>. QED
    BY <2>1 DEF Asked, Count
<1>4. ASSUME NEW s \in Senders, NEW n, MaySend(s, n) PROVE May(s)
  BY <1>3, <1>4 DEF MaySend, May, Unit
<1>5. SendSizes \subseteq 0 .. xMaxItemSize /\ AcquireSizes \subseteq 0 .. xMaxItemSize
  BY SizesAssumption
<1>6. ASSUME NEW s \in Senders, NEW n \in SendSizes, xRingbufferSend(s, n) PROVE ItemInv'
  <2>1. n \in 0 .. xMaxItemSize /\ May(s)
    BY <1>4, <1>5, <1>6 DEF xRingbufferSend
  <2>2. acquired = {}
    BY <1>2, <1>6, OrderlyIs DEF RequestsAre, xRingbufferSend
  <2>3. CASE SendCopies(s, n)
    BY <1>1, <1>2, <2>1, <2>2, <2>3, CopyKeepsItems
  <2>4. CASE SendBlocks(s, n, FALSE)
    BY <1>1, <1>2, <2>1, <2>2, <2>4, BlockKeepsItems
  <2>. QED
    BY <1>6, <2>3, <2>4 DEF xRingbufferSend
<1>7. ASSUME NEW s \in Senders, NEW n \in AcquireSizes, xRingbufferSendAcquire(s, n)
      PROVE  ItemInv'
  <2>1. n \in 0 .. xMaxItemSize /\ May(s) /\ AcquireSizes # {}
    BY <1>4, <1>5, <1>7 DEF xRingbufferSendAcquire
  <2>2. CASE SendAcquires(s, n)
    BY <1>1, <1>2, <2>1, <2>2, AcquireKeepsItems
  <2>3. CASE SendBlocks(s, n, TRUE)
    BY <1>1, <1>2, <2>1, <2>3, BlockKeepsItems
  <2>. QED
    BY <1>7, <2>2, <2>3 DEF xRingbufferSendAcquire
<1>8. ASSUME NEW s \in Senders, SendRetries(s) PROVE ItemInv'
  <2>1. sendPc[s] = "woken" /\ sendPc[s] \in InSend /\ May(s)
    BY <1>8 DEF SendRetries, InSend, May
  <2>2. PICK n, acq : n = sendReq[s].size /\ acq = sendReq[s].acquire
    OBVIOUS
  <2>3. /\ n \in 0 .. xMaxItemSize /\ acq \in BOOLEAN
        /\ acq => AcquireSizes # {}
        /\ ~acq => acquired = {}
    BY <1>2, <2>1, <2>2 DEF RequestsAre, TasksAre
  <2>4. CASE ~acq /\ SendCopies(s, n)
    BY <1>1, <1>2, <2>1, <2>3, <2>4, CopyKeepsItems
  <2>5. CASE acq /\ SendAcquires(s, n)
    BY <1>1, <1>2, <2>1, <2>3, <2>5, AcquireKeepsItems
  <2>6. CASE SendBlocks(s, n, acq)
    BY <1>1, <1>2, <2>1, <2>3, <2>6, BlockKeepsItems
  <2>7. CASE SendGivesUp(s, n)
    BY <1>1, <1>2, <2>1, <2>7, LeaveKeepsItems DEF SendGivesUp
  <2>. QED
    BY <1>8, <2>2, <2>4, <2>5, <2>6, <2>7 DEF SendRetries
<1>9. ASSUME NEW s \in Senders, SendTimesOut(s) PROVE ItemInv'
  <2>1. sendPc[s] \in InSend
    BY <1>9 DEF SendTimesOut, InSend
  <2>. QED
    BY <1>1, <1>2, <1>9, <2>1, LeaveKeepsItems DEF SendTimesOut
<1>10. ASSUME NEW r \in Receivers, NEW max,
              \/ ReceiveGets(r, max) \/ ReceiveBlocks(r, max) \/ ReceiveGivesUp(r)
       PROVE  ItemInv'
  <2>1. CASE ReceiveGets(r, max)
    BY <1>1, <1>2, <2>1, GetKeepsItems
  <2>2. CASE ReceiveBlocks(r, max) \/ ReceiveGivesUp(r)
    <3>1. PICK x \in RecvStates : recvPc' = [recvPc EXCEPT ![r] = x]
      BY <2>2 DEF ReceiveBlocks, ReceiveGivesUp, RecvStates
    <3>2. /\ ~prvCheckItemAvail(rb)
          /\ UNCHANGED <<dataVars, sendPc, sendReq, setVars>>
      BY <2>2 DEF ReceiveBlocks, ReceiveGivesUp
    <3>. QED
      BY <1>1, <1>2, <3>1, <3>2, NothingToGet
  <2>. QED
    BY <1>10, <2>1, <2>2
<1>11. ASSUME NEW s \in Senders, NEW n \in AcquireSizes, NEW h \in acquired,
              xRingbufferSendComplete(s, h)
       PROVE  ItemInv'
  BY <1>1, <1>2, <1>11, CompleteKeepsItems
<1>12. CASE UNCHANGED vars
  <2>1. /\ UNCHANGED dataVars /\ UNCHANGED taskVars /\ UNCHANGED setVars
    BY <1>12 DEF vars
  <2>2. ItemsAre(c)'
    BY <1>1, <2>1 DEF dataVars, taskVars, setVars, ItemsAre, Budget, Woke, Told
  <2>3. TasksAre' /\ RequestsAre'
    BY <1>2, <2>1 DEF dataVars, taskVars, setVars, TasksAre, RequestsAre
  <2>. QED
    BY <2>2, <2>3 DEF ItemInv
<1>13. CASE \E q \in QueueSets : QueueSetStep
  <2>1. CASE xRingbufferAddToQueueSetRead \/ xRingbufferRemoveFromQueueSetRead
    BY <1>1, <1>2, <2>1, SetKeepsItems
  <2>2. CASE \E s \in Senders : SendNotifies(s)
    BY <1>1, <1>2, <2>2, NotifyKeepsItems
  <2>3. CASE \E r \in Receivers : xQueueSelectFromSet(r)
    BY <1>1, <1>2, <2>3, SelectKeepsItems
  <2>4. CASE \E r \in Receivers : \E max \in ReceiveSizes : ReceiveSelected(r, max)
    BY <1>10, <2>4 DEF ReceiveSelected
  <2>. QED
    BY <1>13, <2>1, <2>2, <2>3, <2>4 DEF QueueSetStep
<1>14. CASE \E s \in Senders :
              \/ \E n \in SendSizes : xRingbufferSend(s, n)
              \/ \E n \in AcquireSizes :
                   \/ xRingbufferSendAcquire(s, n)
                   \/ \E h \in acquired : h.size = n /\ xRingbufferSendComplete(s, h)
              \/ SendRetries(s)
              \/ SendTimesOut(s)
  BY <1>6, <1>7, <1>8, <1>9, <1>11, <1>14
<1>15. CASE \E r \in Receivers :
              \/ \E max \in ReceiveSizes : xRingbufferReceive(r, max)
              \/ ReceiveRetries(r)
              \/ ReceiveTimesOut(r)
  <2>1. PICK r \in Receivers : \/ \E max \in ReceiveSizes : xRingbufferReceive(r, max)
                               \/ ReceiveRetries(r)
                               \/ ReceiveTimesOut(r)
    BY <1>15
  <2>2. CASE \E max \in ReceiveSizes : xRingbufferReceive(r, max)
    BY <1>10, <2>2 DEF xRingbufferReceive
  <2>3. CASE ReceiveRetries(r)
    BY <1>10, <2>3 DEF ReceiveRetries
  <2>4. CASE ReceiveTimesOut(r)
    BY <1>1, <1>2, <2>4, TimeOutKeepsItems
  <2>. QED
    BY <2>1, <2>2, <2>3, <2>4
<1>16. CASE \E l \in loans : vRingbufferReturnItem(l)
  BY <1>1, <1>2, <1>16, ReturnKeepsItems
<1>. QED
  BY <1>12, <1>13, <1>14, <1>15, <1>16 DEF Next

\* ItemInv is an invariant of buffers of items.
LEMMA ItemInvHolds ==
    Spec => [](~IsByteBuffer /\ Orderly => ItemInv)
<1>1. Init => (~IsByteBuffer /\ Orderly => ItemInv)
  BY ItemInvInit
<1>2. (~IsByteBuffer /\ Orderly => ItemInv) /\ [Next]_vars
      => (~IsByteBuffer /\ Orderly => ItemInv)'
  BY ItemInvStep DEF IsByteBuffer, Orderly
<1>. QED
  BY <1>1, <1>2, PTL DEF Spec

\* A handle never goes bad: as long as an item is acquired or lent, the header in
\* front of it is its own, of its size, and not marked as completed or returned:
\* what configASSERT demands in prvSendItemDoneNoSplit and prvReturnItemDefault.
THEOREM HandlesAlwaysValid ==
    ASSUME Orderly
    PROVE  Spec => []HandlesValid
<1>1. (~IsByteBuffer /\ Orderly => ItemInv) => HandlesValid
  <2> SUFFICES ASSUME ItemInv, ~IsByteBuffer PROVE HandlesValid
    BY DEF HandlesValid
  <2>1. PICK c : Counted(rb, acquired, loans, sent, c)
    BY DEF ItemInv, ItemsAre
  <2>. QED
    BY <2>1, HandlesHold DEF HandlesValid
<1>. QED
  BY <1>1, ItemInvHolds, PTL

(***************************************************************************)
(* Space and waiters.                                                      *)
(***************************************************************************)
\* An emptied byte buffer has its pointers together.
LEMMA EmptyBytes ==
    ASSUME IsByteBuffer, ByteInv, loans = {}, rb.waiting = 0
    PROVE  rb.acquire = rb.free /\ ~rb.full
<1>1. PICK lent \in 0 .. xSize, base \in Nat :
        ByteState(rb, lent, base) /\ LoansAre(lent)
  BY DEF ByteInv, BytesKept, Kept
<1>2. lent = 0
  BY <1>1 DEF LoansAre
<1>3. PICK a, f, r \in Cells : a = rb.acquire /\ f = rb.free /\ r = rb.read
  BY <1>1, BlockFields DEF ByteState
<1>4. xSize \in Nat /\ xSize # 0 /\ a \in Nat /\ f \in Nat /\ r \in Nat /\ f < xSize
      /\ r < xSize
  BY <1>3, SizeAssumption DEF Cells
<1>5. Placed(a, r, f, 0, 0) /\ (rb.full <=> (0 + 0 = xSize))
  BY <1>1, <1>2, <1>3 DEF ByteState
<1>6. r = f /\ a = r
  BY <1>4, <1>5 DEF Placed, ByteWrap
<1>. QED
  BY <1>3, <1>4, <1>5, <1>6

\* A no-split item that does not fit before the tail fits before the pointer.
LEMMA PlacedBeforeTail ==
    ASSUME xBufferType = "NOSPLIT", NEW b \in ItemBlock, NEW n \in 0 .. xMaxItemSize
    PROVE  AcquiredItem(b, n) + rbALIGN_SIZE(n) <= xSize
<1>0. ~IsByteBuffer /\ xSize \in Nat
  BY SizeAssumption DEF IsByteBuffer
<1>1. PICK a \in Nat : a = b.acquire /\ a % 4 = 0 /\ a < xSize
  BY <1>0, ItemBlockFields DEF Words
<1>2. n \in Nat
  BY <1>0, ItemMaxNat
<1>3. PICK t \in Nat : t = rbALIGN_SIZE(n)
  BY <1>2, AlignIs
<1>4. xSize - a < t + 8 => t + 8 <= a
  BY <1>1, <1>3, HalfFits
<1>5. AcquiredItem(b, n) = IF xSize - a < t + 8 THEN 8 ELSE a + 8
  BY <1>1, <1>3 DEF AcquiredItem, rbHEADER_SIZE
<1>. QED
  BY <1>0, <1>1, <1>3, <1>4, <1>5

\* No sequence of calls leaks space, in any of the three kinds of buffer: once
\* everything is retrieved and returned, prvCheckItemFitsDefault (or its byte
\* buffer counterpart) accepts every item up to xMaxItemSize, and a no-split one
\* is placed before the tail.
THEOREM EmptyAlwaysAccepts ==
    ASSUME Orderly
    PROVE  Spec => []EmptyAcceptsAll
<1>1. /\ IsByteBuffer => ByteInv
      /\ ~IsByteBuffer /\ Orderly => ItemInv
      => EmptyAcceptsAll
  <2> SUFFICES ASSUME IsByteBuffer => ByteInv, ~IsByteBuffer => ItemInv,
                      acquired = {}, loans = {}, rb.waiting = 0,
                      NEW n \in 0 .. xMaxItemSize
               PROVE  /\ xCheckItemFits(rb, n)
                      /\ xBufferType = "NOSPLIT" =>
                           AcquiredItem(rb, n) + rbALIGN_SIZE(n) <= xSize
    BY DEF EmptyAcceptsAll
  <2>1. CASE IsByteBuffer
    BY <2>1, EmptyBytes, EmptyFits DEF IsByteBuffer
  <2>2. CASE ~IsByteBuffer
    <3>1. PICK c : Counted(rb, {}, {}, sent, c)
      BY <2>2 DEF ItemInv, ItemsAre
    <3>2. rb.acquire = rb.free /\ ~rb.full /\ rb \in ItemBlock
      BY <2>2, <3>1, EmptyIs, CountedIs
    <3>. QED
      BY <3>2, EmptyFits, PlacedBeforeTail
  <2>. QED
    BY <2>1, <2>2
<1>. QED
  BY <1>1, ByteInvHolds, ItemInvHolds, PTL

\* xRingbufferGetCurFreeSize, in any of the three kinds of buffer, promises no
\* more than a send accepts now.
THEOREM FreeSizeAlwaysFits ==
    ASSUME Orderly
    PROVE  Spec => []FreeSizeFits
<1>1. /\ IsByteBuffer => ByteInv
      /\ ~IsByteBuffer /\ Orderly => ItemInv
      => FreeSizeFits
  <2> SUFFICES ASSUME IsByteBuffer => ByteInv, ~IsByteBuffer => ItemInv,
                      NEW n \in 1 .. xGetCurMaxSize(rb)
               PROVE  xCheckItemFits(rb, n)
    BY DEF FreeSizeFits
  <2>1. CASE IsByteBuffer
    <3>1. rb \in ByteBlock
      BY <2>1 DEF ByteInv, BytesKept, Kept, ByteState
    <3>. QED
      BY <2>1, <3>1, ByteFreeSize
  <2>2. CASE ~IsByteBuffer
    <3>1. rb \in ItemBlock
      BY <2>2, CountedIs DEF ItemInv, ItemsAre
    <3>. QED
      BY <2>2, <3>1, ItemFreeSize
  <2>. QED
    BY <2>1, <2>2
<1>. QED
  BY <1>1, ByteInvHolds, ItemInvHolds, PTL

\* In a buffer of items, no receiver is left on the waiting list with an item to
\* retrieve unless another has been woken: each send wakes one receiver, and a
\* receiver that retrieves takes one item.
THEOREM ReceiversNeverStranded ==
    ASSUME Orderly, ~IsByteBuffer
    PROVE  Spec => []NoStrandedReceiver
<1>1. (~IsByteBuffer /\ Orderly => ItemInv) => NoStrandedReceiver
  <2> SUFFICES ASSUME ItemInv, Blocked(recvPc) # {}, ~inSet, prvCheckItemAvail(rb)
               PROVE  \E r \in Receivers : recvPc[r] = "woken"
    BY DEF NoStrandedReceiver
  <2>1. PICK c : ItemsAre(c)
    BY DEF ItemInv
  <2>2. c \in Nat /\ c > 0
    BY <2>1, CountedIs DEF ItemsAre
  <2>3. c <= Count(recvPc, {"woken"})
    BY <2>1 DEF ItemsAre, Woke
  <2>4. InState(recvPc, {"woken"}) # {}
    BY <2>2, <2>3, FS_EmptySet DEF Count
  <2>. QED
    BY <2>4 DEF InState, ItemInv, TasksAre
<1>. QED
  BY <1>1, ItemInvHolds, PTL

\* A buffer of items in a queue set that is long enough has a notice, queued or on
\* its way, for each item: the reader of the set hears of all of them.
THEOREM ReadableAlwaysNoticed ==
    ASSUME Orderly, ~IsByteBuffer, SetLength >= MaxSent
    PROVE  Spec => []ReadableIsNoticed
<1>1. (~IsByteBuffer /\ Orderly => ItemInv) => ReadableIsNoticed
  <2> SUFFICES ASSUME ItemInv, inSet, prvCheckItemAvail(rb), notices <= 0
               PROVE  \/ \E s \in Senders : sendPc[s] = "notify"
                      \/ \E r \in Receivers : recvPc[r] = "selected"
    BY DEF ReadableIsNoticed, ItemInv, TasksAre
  <2>1. PICK c : ItemsAre(c)
    BY DEF ItemInv
  <2>2. c \in Nat /\ c > 0 /\ notices \in Nat
    BY <2>1, CountedIs DEF ItemsAre, ItemInv, TasksAre
  <2>3. c <= notices + Count(sendPc, {"notify"}) + Count(recvPc, {"selected"})
    BY <2>1 DEF ItemsAre, Told
  <2>4. ~(Count(sendPc, {"notify"}) = 0 /\ Count(recvPc, {"selected"}) = 0)
    BY <2>2, <2>3
  <2>5. InState(sendPc, {"notify"}) # {} \/ InState(recvPc, {"selected"}) # {}
    BY <2>4, FS_EmptySet DEF Count
  <2>. QED
    BY <2>5 DEF InState, ItemInv, TasksAre
<1>. QED
  BY <1>1, ItemInvHolds, PTL

(***************************************************************************)
(* A single sender, of any kind of buffer.                                 *)
(***************************************************************************)
OneSender == \A s, t \in Senders : s = t

RbFields == {"acquire", "write", "read", "free", "full", "waiting", "mem"}

\* A sender waits only while its item does not fit.
NoRoom(b, s) == sendPc[s] = "blocked" => ~xCheckItemFits(b, sendReq[s].size)

SenderInv ==
    /\ DOMAIN rb = RbFields /\ DOMAIN sendPc = Senders /\ DOMAIN sendReq = Senders
    /\ \A s \in Senders : NoRoom(rb, s)

\* The operations keep the fields of the control block.
LEMMA FieldsKept ==
    ASSUME NEW b, DOMAIN b = RbFields, NEW n, NEW tag, NEW item, NEW len
    PROVE  /\ DOMAIN vCopyItem(b, n, tag) = RbFields
           /\ DOMAIN prvAcquireItemNoSplit(b, n, tag) = RbFields
           /\ DOMAIN prvSendItemDoneNoSplit(b, item, len, tag) = RbFields
           /\ DOMAIN vReturnItem(b, item) = RbFields
<1>1. ASSUME NEW d, DOMAIN d = RbFields
      PROVE  DOMAIN prvAcquireItemNoSplit(d, n, tag) = RbFields
  BY <1>1 DEF prvAcquireItemNoSplit
<1>2. ASSUME NEW d, DOMAIN d = RbFields, NEW x
      PROVE  DOMAIN prvSendItemDoneNoSplit(d, x, len, tag) = RbFields
  BY <1>2 DEF prvSendItemDoneNoSplit
<1>3. DOMAIN prvCopyItemNoSplit(b, n, tag) = RbFields
  <2>1. PICK d, x : d = prvAcquireItemNoSplit(b, n, tag) /\ x = AcquiredItem(b, n)
    OBVIOUS
  <2>2. prvCopyItemNoSplit(b, n, tag) = prvSendItemDoneNoSplit(d, x, n, tag)
    BY <2>1 DEF prvCopyItemNoSplit
  <2>3. DOMAIN d = RbFields
    BY <1>1, <2>1
  <2>. QED
    BY <2>2, <2>3 DEF prvSendItemDoneNoSplit
<1>4. DOMAIN prvCopyItemAllowSplit(b, n, tag) = RbFields
  BY DEF prvCopyItemAllowSplit
<1>5. DOMAIN prvCopyItemByteBuf(b, n, tag) = RbFields
  BY DEF prvCopyItemByteBuf, RbFields
<1>6. DOMAIN prvReturnItemDefault(b, item) = RbFields
  BY DEF prvReturnItemDefault
<1>7. DOMAIN prvReturnItemByteBuf(b) = RbFields
  BY DEF prvReturnItemByteBuf
<1>8. DOMAIN vCopyItem(b, n, tag) = RbFields
  BY <1>3, <1>4, <1>5, TypeAssumption DEF vCopyItem
<1>9. DOMAIN vReturnItem(b, item) = RbFields
  BY <1>6, <1>7 DEF vReturnItem
<1>. QED
  BY <1>1, <1>2, <1>8, <1>9

\* A retrieval makes no room.
SameRoom(b, b1) ==
    /\ DOMAIN b1 = RbFields
    /\ b1.acquire = b.acquire /\ b1.free = b.free /\ b1.full = b.full

\* A retrieval leaves the space as it is: only a return makes room.
LEMMA GetMakesNoRoom ==
    ASSUME NEW b, DOMAIN b = RbFields, NEW r, NEW max
    PROVE  SameRoom(b, GetParts(r, b, max).rb)
<1>1. ASSUME NEW d, DOMAIN d = RbFields
      PROVE  SameRoom(d, prvGetItemDefault(d))
  <2>1. PICK x, y : prvGetItemDefault(d) = [[d EXCEPT !.read = x] EXCEPT !.waiting = y]
    BY DEF prvGetItemDefault
  <2>. QED
    BY <1>1, <2>1 DEF RbFields, SameRoom
<1>2. SameRoom(b, prvGetItemByteBuf(b, max))
  <2>1. PICK x, y :
          prvGetItemByteBuf(b, max) = [[b EXCEPT !.read = x] EXCEPT !.waiting = y]
    BY DEF prvGetItemByteBuf
  <2>. QED
    BY <2>1 DEF RbFields, SameRoom
<1>3. PICK b1 : b1 = prvGetItemDefault(b)
  OBVIOUS
<1>4. SameRoom(b, b1) /\ SameRoom(b1, prvGetItemDefault(b1))
  BY <1>1, <1>3 DEF SameRoom
<1>5. SameRoom(b, prvGetItemDefault(b1))
  BY <1>4 DEF SameRoom
<1>6. GetParts(r, b, max).rb \in {prvGetItemByteBuf(b, max), b1, prvGetItemDefault(b1)}
  BY <1>3 DEF GetParts
<1>. QED
  BY <1>2, <1>4, <1>5, <1>6

\* With the same space, the same items fit.
LEMMA SameRoomFits ==
    ASSUME NEW b, NEW b1, SameRoom(b, b1), NEW n
    PROVE  xCheckItemFits(b1, n) <=> xCheckItemFits(b, n)
BY DEF SameRoom, xCheckItemFits, prvCheckItemFitsByteBuffer, prvCheckItemFitsDefault

\* A step of the sender: either it does not wait after it, or it has found no room.
LEMMA SenderStep ==
    ASSUME OneSender, SenderInv, NEW s \in Senders, NEW x,
           sendPc' = [sendPc EXCEPT ![s] = x], DOMAIN rb' = RbFields,
           DOMAIN sendReq' = Senders, x = "blocked" => ~xCheckItemFits(rb', sendReq'[s].size)
    PROVE  SenderInv'
<1>1. DOMAIN sendPc' = Senders /\ sendPc'[s] = x /\ \A t \in Senders : t = s
  BY DEF SenderInv, OneSender
<1>. QED
  BY <1>1 DEF SenderInv, NoRoom

\* Every step preserves SenderInv.
LEMMA SenderInvStep ==
    ASSUME OneSender, SenderInv, [Next]_vars
    PROVE  SenderInv'
<1>0. DOMAIN rb = RbFields /\ DOMAIN sendPc = Senders /\ DOMAIN sendReq = Senders
  BY DEF SenderInv
<1>1. ASSUME NEW s \in Senders, NEW n, SendCopies(s, n) PROVE SenderInv'
  <2>1. DOMAIN rb' = RbFields /\ sendReq' = sendReq
    BY <1>0, <1>1, FieldsKept DEF SendCopies
  <2>2. PICK x \in {"idle", "notify"} : sendPc' = [sendPc EXCEPT ![s] = x]
    BY <1>1 DEF SendCopies, Announce
  <2>. QED
    BY <1>0, <2>1, <2>2, SenderStep
<1>2. ASSUME NEW s \in Senders, NEW n, SendAcquires(s, n) PROVE SenderInv'
  <2>1. DOMAIN rb' = RbFields /\ sendReq' = sendReq
    BY <1>0, <1>2, FieldsKept DEF SendAcquires
  <2>2. sendPc' = [sendPc EXCEPT ![s] = "idle"]
    BY <1>2 DEF SendAcquires
  <2>. QED
    BY <1>0, <2>1, <2>2, SenderStep
<1>3. ASSUME NEW s \in Senders, NEW n, NEW acq, SendBlocks(s, n, acq) PROVE SenderInv'
  <2>1. /\ rb' = rb /\ ~xCheckItemFits(rb, n)
        /\ sendReq' = [sendReq EXCEPT ![s] = [size |-> n, acquire |-> acq]]
        /\ sendPc' = [sendPc EXCEPT ![s] = "blocked"]
    BY <1>3 DEF SendBlocks, dataVars
  <2>2. DOMAIN sendReq' = Senders /\ sendReq'[s].size = n
    BY <1>0, <2>1
  <2>. QED
    BY <1>0, <2>1, <2>2, SenderStep
<1>4. ASSUME NEW s \in Senders,
             (\E n : SendGivesUp(s, n)) \/ SendTimesOut(s) \/ SendNotifies(s)
      PROVE  SenderInv'
  <2>1. rb' = rb /\ sendReq' = sendReq
    BY <1>4 DEF SendGivesUp, SendTimesOut, SendNotifies, dataVars
  <2>2. PICK x \in {"idle", "woken", "assert"} : sendPc' = [sendPc EXCEPT ![s] = x]
    BY <1>4 DEF SendGivesUp, SendTimesOut, SendNotifies
  <2>. QED
    BY <1>0, <2>1, <2>2, SenderStep
<1>5. ASSUME NEW s \in Senders, NEW h, xRingbufferSendComplete(s, h) PROVE SenderInv'
  <2>1. DOMAIN rb' = RbFields /\ sendReq' = sendReq
    BY <1>0, <1>5, FieldsKept DEF xRingbufferSendComplete
  <2>2. PICK x \in {"idle", "notify"} : sendPc' = [sendPc EXCEPT ![s] = x]
    BY <1>5 DEF xRingbufferSendComplete, Announce
  <2>. QED
    BY <1>0, <2>1, <2>2, SenderStep
<1>6. ASSUME SameRoom(rb, rb'), sendPc' = sendPc, sendReq' = sendReq PROVE SenderInv'
  BY <1>0, <1>6, SameRoomFits DEF SenderInv, NoRoom, SameRoom
<1>7. ASSUME NEW r, NEW max, ReceiveGets(r, max) PROVE SenderInv'
  <2>1. rb' = GetParts(r, rb, max).rb /\ sendPc' = sendPc /\ sendReq' = sendReq
    BY <1>7 DEF ReceiveGets
  <2>. QED
    BY <1>0, <1>6, <2>1, GetMakesNoRoom
<1>8. ASSUME rb' = rb, sendPc' = sendPc, sendReq' = sendReq PROVE SenderInv'
  BY <1>8 DEF SenderInv, NoRoom
<1>9. ASSUME NEW r, NEW max, ReceiveBlocks(r, max) \/ ReceiveGivesUp(r) PROVE SenderInv'
  BY <1>8, <1>9 DEF ReceiveBlocks, ReceiveGivesUp, dataVars
<1>10. ASSUME NEW l \in loans, vRingbufferReturnItem(l) PROVE SenderInv'
  <2>1. DOMAIN rb' = RbFields /\ sendReq' = sendReq /\ Wake(sendPc, sendPc')
    BY <1>0, <1>10, FieldsKept DEF vRingbufferReturnItem
  <2>2. CASE Blocked(sendPc) = {}
    <3>1. sendPc' = sendPc /\ \A s \in Senders : sendPc[s] # "blocked"
      BY <1>0, <2>1, <2>2 DEF Wake, Blocked
    <3>. QED
      BY <1>0, <2>1, <3>1 DEF SenderInv, NoRoom
  <2>3. CASE Blocked(sendPc) # {}
    <3>1. PICK t \in Blocked(sendPc) : sendPc' = [sendPc EXCEPT ![t] = "woken"]
      BY <2>1, <2>3 DEF Wake
    <3>2. t \in Senders
      BY <1>0, <3>1 DEF Blocked
    <3>. QED
      BY <1>0, <2>1, <3>1, <3>2, SenderStep
  <2>. QED
    BY <2>2, <2>3
<1>11. ASSUME NEW s \in Senders, SendRetries(s) PROVE SenderInv'
  <2>1. PICK n, acq : \/ SendCopies(s, n) \/ SendAcquires(s, n)
                      \/ SendBlocks(s, n, acq) \/ SendGivesUp(s, n)
    BY <1>11 DEF SendRetries
  <2>. QED
    BY <1>1, <1>2, <1>3, <1>4, <2>1
<1>12. CASE \E s \in Senders :
              \/ \E n \in SendSizes : xRingbufferSend(s, n)
              \/ \E n \in AcquireSizes :
                   \/ xRingbufferSendAcquire(s, n)
                   \/ \E h \in acquired : h.size = n /\ xRingbufferSendComplete(s, h)
              \/ SendRetries(s)
              \/ SendTimesOut(s)
  BY <1>1, <1>2, <1>3, <1>4, <1>5, <1>11, <1>12
     DEF xRingbufferSend, xRingbufferSendAcquire
<1>13. ASSUME NEW r \in Receivers,
              \/ \E max \in ReceiveSizes :
                   xRingbufferReceive(r, max) \/ ReceiveSelected(r, max)
              \/ ReceiveRetries(r)
       PROVE  SenderInv'
  BY <1>7, <1>9, <1>13 DEF xRingbufferReceive, ReceiveSelected, ReceiveRetries
<1>14. ASSUME NEW r \in Receivers, ReceiveTimesOut(r) \/ xQueueSelectFromSet(r)
       PROVE  SenderInv'
  BY <1>8, <1>14 DEF ReceiveTimesOut, xQueueSelectFromSet, dataVars
<1>15. CASE \/ xRingbufferAddToQueueSetRead \/ xRingbufferRemoveFromQueueSetRead
            \/ UNCHANGED vars
  BY <1>8, <1>15 DEF xRingbufferAddToQueueSetRead, xRingbufferRemoveFromQueueSetRead,
                     dataVars, taskVars, vars
<1>. QED
  BY <1>4, <1>10, <1>12, <1>13, <1>14, <1>15 DEF Next, QueueSetStep

\* A single sender, whatever the kind of buffer and the number of receivers, is not
\* left on the waiting list with room for its item: only vRingbufferReturnItem
\* makes room, and it wakes the sender in the same critical section.
THEOREM SenderNeverStranded ==
    ASSUME OneSender
    PROVE  Spec => []NoStrandedSender
<1>1. Init => SenderInv
  BY DEF Init, SenderInv, prvInitializeNewRingbuffer, RbFields, NoRoom
<1>2. SenderInv /\ [Next]_vars => SenderInv'
  BY SenderInvStep
<1>3. SenderInv => NoStrandedSender
  BY DEF SenderInv, NoStrandedSender, NoRoom, Blocked
<1>. QED
  BY <1>1, <1>2, <1>3, PTL DEF Spec

\* Nobody is stranded in a buffer of items with one sender: neither the sender
\* with room for its item nor a receiver with an item to retrieve.
THEOREM NoneEverStranded ==
    ASSUME Orderly, OneSender, ~IsByteBuffer
    PROVE  Spec => []NoneStranded
<1>1. NoStrandedSender /\ NoStrandedReceiver => NoneStranded
  BY DEF NoneStranded
<1>. QED
  BY <1>1, SenderNeverStranded, ReceiversNeverStranded, PTL
=============================================================================
