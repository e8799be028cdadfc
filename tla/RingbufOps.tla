----------------------------- MODULE RingbufOps -----------------------------
(***************************************************************************)
(* The operations of components/esp_ringbuf/ringbuf.c on one ring buffer,  *)
(* as operators on its control block.  Each static function of the file    *)
(* runs inside the buffer's critical section, so it is one function from a *)
(* control block (and arguments) to the next control block.                *)
(*                                                                         *)
(* A control block rb has the four pointers acquire, write, read and free  *)
(* as offsets from pucHead (pucTail is xSize), the flag rbBUFFER_FULL_FLAG *)
(* as full, xItemsWaiting as waiting, and the storage as mem.              *)
(*                                                                         *)
(* Storage is abstracted to what the properties tell apart.  A byte buffer *)
(* holds in each cell the position in the sent stream of the byte stored   *)
(* there.  A no-split or allow-split buffer holds in each 32-bit word the  *)
(* header fields kept there, if any, and the number (tag) of the item the  *)
(* word was last written for.                                              *)
(***************************************************************************)
EXTENDS Integers

CONSTANTS xBufferType,  \* RingbufferType_t
          xSize         \* the size of the storage area, in bytes

rbHEADER_SIZE == 8
rbALIGN_SIZE(n) == ((n + 3) \div 4) * 4

ASSUME TypeAssumption == xBufferType \in {"NOSPLIT", "ALLOWSPLIT", "BYTEBUF"}
ASSUME SizeAssumption ==
    /\ xSize \in Nat \ {0}
    /\ xBufferType # "BYTEBUF" =>
           xSize = rbALIGN_SIZE(xSize) /\ xSize >= 2 * rbHEADER_SIZE

IsByteBuffer == xBufferType = "BYTEBUF"

xMaxItemSize ==
    CASE xBufferType = "NOSPLIT" -> rbALIGN_SIZE(xSize \div 2) - rbHEADER_SIZE
      [] xBufferType = "ALLOWSPLIT" -> xSize - 2 * rbHEADER_SIZE
      [] OTHER                      -> xSize

(***************************************************************************)
(* Storage.                                                                *)
(***************************************************************************)
Words == {w \in 0 .. xSize - 1 : w % 4 = 0}
Word(len, flags, tag) == [xItemLen |-> len, uxItemFlags |-> flags, tag |-> tag]

\* Fill writes value v to the cells at, at+1, ..., at+n-1.
Fill(mem, at, n, v) ==
    [w \in DOMAIN mem |-> IF at <= w /\ w < at + n THEN v ELSE mem[w]]

\* A header takes two words; the first one stands for its fields.
PutHeader(mem, at, len, flags, tag) ==
    [Fill(mem, at, rbHEADER_SIZE, Word(0, {}, tag)) EXCEPT
        ![at] = Word(len, flags, tag)]

SetFlags(mem, at, add, remove) ==
    [mem EXCEPT ![at].uxItemFlags = (@ \cup add) \ remove]

\* Fault: the pointer goes to the head only at the tail itself.
WrapAtTail(p) == IF p >= xSize THEN 0 ELSE p

\* A pointer with no room for a header before the tail goes to the head.
WrapHeader(p) == IF xSize - p < rbHEADER_SIZE THEN 0 ELSE p

prvInitializeNewRingbuffer ==
    [acquire |-> 0, write |-> 0, read |-> 0, free |-> 0,
     full |-> FALSE, waiting |-> 0,
     mem |-> IF IsByteBuffer THEN [b \in 0 .. xSize - 1 |-> 0]
             ELSE [w \in Words |-> Word(0, {}, 0)]]

(***************************************************************************)
(* Byte buffers.                                                           *)
(***************************************************************************)
\* The cell at distance p from the head, past the tail at most once.
ByteWrap(p) == IF p < xSize THEN p ELSE p - xSize

\* Fault: equal pointers are always taken for an empty buffer.
FitsByteIgnoringFull(rb, n) ==
    IF rb.acquire = rb.free THEN TRUE
    ELSE IF rb.free > rb.acquire THEN n <= rb.free - rb.acquire
    ELSE n <= xSize - (rb.acquire - rb.free)

prvCheckItemFitsByteBuffer(rb, n) ==
    IF rb.acquire = rb.free THEN ~rb.full
    ELSE IF rb.free > rb.acquire THEN n <= rb.free - rb.acquire
    ELSE n <= xSize - (rb.acquire - rb.free)

\* prvCopyItemByteBuf stores the bytes first, ..., first+n-1 of the stream.
prvCopyItemByteBuf(rb, n, first) ==
    LET rem   == xSize - rb.acquire
        last  == IF rem < n THEN n - rem ELSE rb.acquire + n
        next  == IF last = xSize THEN 0 ELSE last
        copied(b) ==
            IF rb.acquire <= b /\ b < rb.acquire + n THEN first + b - rb.acquire
            ELSE IF rem < n /\ b < n - rem THEN first + rem + b
            ELSE rb.mem[b]
    IN  [acquire |-> next, write |-> next, read |-> rb.read, free |-> rb.free,
         full |-> rb.full \/ next = rb.free, waiting |-> rb.waiting + n,
         mem |-> [b \in 0 .. xSize - 1 |-> copied(b)]]

\* The bytes that one retrieval returns: max = 0 stands for no limit.
ByteItemSize(rb, max) ==
    LET contiguous == IF rb.read > rb.write \/ rb.full THEN xSize - rb.read
                      ELSE rb.write - rb.read
    IN  IF max = 0 \/ contiguous <= max THEN contiguous ELSE max

prvGetItemByteBuf(rb, max) ==
    LET size == ByteItemSize(rb, max)
        next == IF rb.read + size = xSize THEN 0 ELSE rb.read + size
    IN  [rb EXCEPT !.read = next, !.waiting = @ - size]

prvReturnItemByteBuf(rb) == [rb EXCEPT !.free = rb.read, !.full = FALSE]

prvGetCurMaxSizeByteBuf(rb) ==
    IF rb.full THEN 0
    ELSE IF rb.free - rb.acquire <= 0 THEN rb.free - rb.acquire + xSize
    ELSE rb.free - rb.acquire

(***************************************************************************)
(* No-split and allow-split buffers: sending.                              *)
(***************************************************************************)
prvCheckItemFitsDefault(rb, n) ==
    LET total == rbALIGN_SIZE(n) + rbHEADER_SIZE
    IN  IF rb.acquire = rb.free THEN ~rb.full
        ELSE IF rb.free > rb.acquire THEN total <= rb.free - rb.acquire
        ELSE \/ total <= xSize - rb.acquire
             \/ IF xBufferType = "ALLOWSPLIT"
                THEN total + rbHEADER_SIZE <= xSize - (rb.acquire - rb.free)
                ELSE total <= rb.free

\* The address of the item that prvAcquireItemNoSplit hands out.
AcquiredItem(rb, n) ==
    IF xSize - rb.acquire < rbALIGN_SIZE(n) + rbHEADER_SIZE
    THEN rbHEADER_SIZE ELSE rb.acquire + rbHEADER_SIZE

prvAcquireItemNoSplit(rb, n, tag) ==
    LET item  == AcquiredItem(rb, n)
        at    == item - rbHEADER_SIZE
        dummy == IF at = rb.acquire THEN rb.mem
                 ELSE PutHeader(rb.mem, rb.acquire, 0, {"DUMMY"}, tag)
        next  == WrapHeader(item + rbALIGN_SIZE(n))
    IN  [rb EXCEPT !.acquire = next, !.full = @ \/ next = rb.free,
                   !.mem = PutHeader(dummy, at, n, {}, tag)]

\* The header that follows the one at p: a dummy ends at the tail.
NextHeader(mem, p) ==
    IF "DUMMY" \in mem[p].uxItemFlags THEN 0
    ELSE WrapHeader(p + rbHEADER_SIZE + rbALIGN_SIZE(mem[p].xItemLen))

MaxHeaders == xSize \div rbHEADER_SIZE

\* HeadersFrom(mem, p)[k] is the header reached from p in k steps.
HeadersFrom(mem, p) ==
    LET next == [w \in Words |-> NextHeader(mem, w)]
        path[k \in 0 .. MaxHeaders] == IF k = 0 THEN p ELSE next[path[k - 1]]
    IN  path

\* The number of headers a pointer skips: ends[k] when the loop ends after k.
FirstStop(ends) == CHOOSE k \in DOMAIN ends :
                     ends[k] /\ \A j \in 0 .. k - 1 : ~ends[j]

\* The user's data is in the item when prvSendItemDoneNoSplit is called.
prvSendItemDoneNoSplit(rb, item, len, tag) ==
    LET at      == item - rbHEADER_SIZE
        filled  == Fill(rb.mem, item, len, Word(0, {}, tag))
        written == SetFlags(filled, at, {"WRITTEN"}, {"SPLIT"})
        path    == HeadersFrom(written, rb.write)
        Skipped(k) ==
            written[path[k]].uxItemFlags \cap {"WRITTEN", "DUMMY"} # {}
        stop    == FirstStop([k \in 0 .. MaxHeaders |->
                                \/ k > 0 /\ path[k] = rb.acquire
                                \/ ~Skipped(k)])
        dummies == {path[k] : k \in {j \in 0 .. stop - 1 :
                        "DUMMY" \in written[path[j]].uxItemFlags}}
    IN  [rb EXCEPT !.write = path[stop], !.waiting = @ + 1,
                   !.mem = [w \in Words |-> IF w \in dummies
                              THEN [written[w] EXCEPT !.uxItemFlags =
                                                        @ \cup {"WRITTEN"}]
                              ELSE written[w]]]

prvCopyItemNoSplit(rb, n, tag) ==
    prvSendItemDoneNoSplit(prvAcquireItemNoSplit(rb, n, tag),
                           AcquiredItem(rb, n), n, tag)

prvCopyItemAllowSplit(rb, n, tag) ==
    LET rem    == xSize - rb.acquire
        splits == rem < rbALIGN_SIZE(n) + rbHEADER_SIZE
        part   == rem - rbHEADER_SIZE
        flag   == IF part > 0 THEN "SPLIT" ELSE "DUMMY"
        first  == IF splits
                  THEN Fill(PutHeader(rb.mem, rb.acquire, part, {flag}, tag),
                            rb.acquire + rbHEADER_SIZE, part, Word(0, {}, tag))
                  ELSE rb.mem
        at     == IF splits THEN 0 ELSE rb.acquire
        left   == IF splits THEN n - part ELSE n
        room   == IF splits THEN rbALIGN_SIZE(n) - part ELSE rbALIGN_SIZE(n)
        next   == WrapHeader(at + rbHEADER_SIZE + room)
    IN  [rb EXCEPT !.acquire = next, !.write = next,
                   !.full = @ \/ next = rb.free,
                   !.waiting = @ + (IF splits /\ part > 0 THEN 2 ELSE 1),
                   !.mem = Fill(PutHeader(first, at, left, {}, tag),
                                at + rbHEADER_SIZE, left, Word(0, {}, tag))]

(***************************************************************************)
(* No-split and allow-split buffers: retrieving and returning.             *)
(***************************************************************************)
\* Fault: a dummy is handed out like an item.
ReadHeaderAsIs(rb) == rb.read

\* The header of the item retrieved next, past a dummy.
ReadHeader(rb) ==
    IF "DUMMY" \in rb.mem[rb.read].uxItemFlags THEN 0 ELSE rb.read

prvGetItemDefault(rb) ==
    [rb EXCEPT !.read = NextHeader(rb.mem, ReadHeader(rb)), !.waiting = @ - 1]

\* Fault: the item returned last frees everything retrieved so far.
ReturnItemAllRead(rb, item) == [rb EXCEPT !.free = rb.read, !.full = FALSE]

\* Fault: the flag stays set.
ReturnItemStillFull(rb, item) ==
    [rb EXCEPT !.free = rb.read,
               !.mem = SetFlags(rb.mem, item - rbHEADER_SIZE, {"FREE"}, {"SPLIT"})]

prvReturnItemDefault(rb, item) ==
    LET mem     == SetFlags(rb.mem, item - rbHEADER_SIZE, {"FREE"}, {"SPLIT"})
        advance == rb.full \/ rb.waiting = 0    \* allow_advance_free_pointer
        path    == HeadersFrom(mem, rb.free)
        Skipped(k) == mem[path[k]].uxItemFlags \cap {"FREE", "DUMMY"} # {}
        stop    == FirstStop([k \in 0 .. MaxHeaders |->
                                \/ ~Skipped(k)
                                \/ path[k] = rb.read /\ ~(k = 0 /\ advance)])
        dummies == {path[k] : k \in {j \in 0 .. stop - 1 :
                        "DUMMY" \in mem[path[j]].uxItemFlags}}
    IN  [rb EXCEPT !.free = path[stop], !.full = @ /\ stop = 0,
                   !.mem = [w \in Words |-> IF w \in dummies
                              THEN [mem[w] EXCEPT !.uxItemFlags =
                                                    @ \cup {"FREE"}]
                              ELSE mem[w]]]

AtMost(n, max) == IF n < 0 THEN 0 ELSE IF n > max THEN max ELSE n
LargerOf(m, n) == IF m > n THEN m ELSE n

\* Fault: the header is not counted.
MaxSizeNoSplitNoHeader(rb) ==
    LET contiguous == IF rb.acquire < rb.free THEN rb.free - rb.acquire
                      ELSE LargerOf(xSize - rb.acquire, rb.free)
    IN  IF rb.full THEN 0 ELSE AtMost(contiguous, xMaxItemSize)

prvGetCurMaxSizeNoSplit(rb) ==
    LET contiguous == IF rb.acquire < rb.free THEN rb.free - rb.acquire
                      ELSE LargerOf(xSize - rb.acquire, rb.free)
    IN  IF rb.full THEN 0
        ELSE AtMost(contiguous - rbHEADER_SIZE, xMaxItemSize)

\* Fault: one header for two parts.
MaxSizeAllowSplitOneHeader(rb) ==
    LET size == IF rb.acquire < rb.free THEN rb.free - rb.acquire - rbHEADER_SIZE
                ELSE rb.free + (xSize - rb.acquire) - rbHEADER_SIZE
    IN  IF rb.full THEN 0 ELSE AtMost(size, xMaxItemSize)

prvGetCurMaxSizeAllowSplit(rb) ==
    LET size == IF rb.acquire = 0 /\ rb.free = 0 THEN xSize - rbHEADER_SIZE
                ELSE IF rb.acquire < rb.free
                     THEN rb.free - rb.acquire - rbHEADER_SIZE
                ELSE rb.free + (xSize - rb.acquire) - 2 * rbHEADER_SIZE
    IN  IF rb.full THEN 0 ELSE AtMost(size, xMaxItemSize)

(***************************************************************************)
(* The function pointers of the control block, and the test they share.    *)
(***************************************************************************)
xCheckItemFits(rb, n) ==
    IF IsByteBuffer THEN prvCheckItemFitsByteBuffer(rb, n)
    ELSE prvCheckItemFitsDefault(rb, n)

vCopyItem(rb, n, tag) ==
    CASE xBufferType = "NOSPLIT"    -> prvCopyItemNoSplit(rb, n, tag)
      [] xBufferType = "ALLOWSPLIT" -> prvCopyItemAllowSplit(rb, n, tag)
      [] OTHER                      -> prvCopyItemByteBuf(rb, n, tag)

vReturnItem(rb, item) ==
    IF IsByteBuffer THEN prvReturnItemByteBuf(rb)
    ELSE prvReturnItemDefault(rb, item)

xGetCurMaxSize(rb) ==
    CASE xBufferType = "NOSPLIT"    -> prvGetCurMaxSizeNoSplit(rb)
      [] xBufferType = "ALLOWSPLIT" -> prvGetCurMaxSizeAllowSplit(rb)
      [] OTHER                      -> prvGetCurMaxSizeByteBuf(rb)

prvCheckItemAvail(rb) ==
    /\ IsByteBuffer => rb.read = rb.free
    /\ rb.waiting > 0
    /\ rb.read # rb.write \/ rb.full
    /\ xBufferType = "NOSPLIT" => "WRITTEN" \in rb.mem[rb.read].uxItemFlags
=============================================================================
