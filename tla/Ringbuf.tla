------------------------------ MODULE Ringbuf -------------------------------
(***************************************************************************)
(* Tasks and interrupt handlers that share one ring buffer of              *)
(* components/esp_ringbuf/ringbuf.c.                                       *)
(*                                                                         *)
(* Every public function does its work in one critical section, which is   *)
(* one step here.  A call that cannot proceed returns at once (a call with *)
(* xTicksToWait = 0, or a FromISR function), or puts its task on a waiting *)
(* list; a woken or timed-out task tries again from the top of the loop.   *)
(* The lists are ordered by priority: as priorities are arbitrary, any     *)
(* waiting task may be the one an operation wakes.                         *)
(*                                                                         *)
(* Items handed out are tracked as the caller's handles: acquired for the  *)
(* items between xRingbufferSendAcquire and xRingbufferSendComplete, loans *)
(* for the items (or parts) between a retrieval and vRingbufferReturnItem. *)
(***************************************************************************)
EXTENDS RingbufOps, FiniteSets, Sequences

CONSTANTS Senders, Receivers,   \* the tasks
          SendSizes,            \* sizes passed to xRingbufferSend
          AcquireSizes,         \* sizes passed to xRingbufferSendAcquire
          ReceiveSizes,         \* xMaxSize of a retrieval, 0 for no limit
          InOrder,              \* callers complete items in acquire order, and
                                \* do not send while an item is acquired
          QueueSets,            \* the queue set the buffer may be put in, or {}
          SetLength,            \* length of the queue set's queue
          MaxSent               \* bound on the items (bytes) sent

ASSUME SizesAssumption ==
    /\ SendSizes \subseteq 0 .. xMaxItemSize
    /\ AcquireSizes \subseteq 0 .. xMaxItemSize
    /\ IsByteBuffer => 0 \notin SendSizes
    /\ xBufferType # "NOSPLIT" => AcquireSizes = {}
    /\ ReceiveSizes \subseteq Nat
    /\ InOrder \in BOOLEAN /\ \A p, q \in QueueSets : p = q
    /\ MaxSent \in Nat /\ SetLength \in Nat

VARIABLES
    rb,         \* the control block and the storage
    sent,       \* items (bytes) given space so far: the next one's tag is sent
    acquired,   \* handles not yet completed
    loans,      \* handles not yet returned
    sendPc,     \* "idle", "blocked", "woken", "notify" or "assert", per sender
    sendReq,    \* the call a blocked sender is in: size and kind
    recvPc,     \* "idle", "blocked", "woken" or "selected", per receiver
    recvMax,    \* xMaxSize of the call a blocked receiver is in
    inSet,      \* xQueueSet # NULL
    notices     \* entries for this buffer in the queue set's queue

dataVars == <<rb, sent, acquired, loans>>
taskVars == <<sendPc, sendReq, recvPc, recvMax>>
setVars  == <<inSet, notices>>
vars     == <<dataVars, taskVars, setVars>>

Unit(n) == IF IsByteBuffer THEN n ELSE 1    \* what an item adds to sent

Init ==
    /\ rb = prvInitializeNewRingbuffer
    /\ sent = 0 /\ acquired = {} /\ loans = {}
    /\ sendPc = [s \in Senders |-> "idle"]
    /\ sendReq = [s \in Senders |-> [size |-> 0, acquire |-> FALSE]]
    /\ recvPc = [r \in Receivers |-> "idle"]
    /\ recvMax = [r \in Receivers |-> 0]
    /\ inSet = FALSE /\ notices = 0

(***************************************************************************)
(* Waking.  An operation removes at most one task from a waiting list; a   *)
(* buffer in a queue set notifies the set instead of a waiting receiver.   *)
(***************************************************************************)
Blocked(pc) == {t \in DOMAIN pc : pc[t] = "blocked"}

Wake(pc, pc1) ==
    IF Blocked(pc) = {} THEN pc1 = pc
    ELSE \E t \in Blocked(pc) : pc1 = [pc EXCEPT ![t] = "woken"]

\* Fault: the sender tells nobody.
AnnounceSilently(s) ==
    /\ sendPc' = [sendPc EXCEPT ![s] = "idle"]
    /\ UNCHANGED recvPc

\* The data is in: wake a receiver, or go on to notify the queue set.
Announce(s) ==
    IF inSet THEN /\ sendPc' = [sendPc EXCEPT ![s] = "notify"]
                  /\ UNCHANGED recvPc
    ELSE /\ sendPc' = [sendPc EXCEPT ![s] = "idle"]
         /\ Wake(recvPc, recvPc')

(***************************************************************************)
(* prvSendAcquireGeneric: one pass of the loop in the critical section.    *)
(***************************************************************************)
SendCopies(s, n) ==
    /\ xCheckItemFits(rb, n)
    /\ rb' = vCopyItem(rb, n, sent)
    /\ sent' = sent + Unit(n)
    /\ Announce(s)
    /\ UNCHANGED <<acquired, loans, sendReq, recvMax, setVars>>

SendAcquires(s, n) ==
    /\ xCheckItemFits(rb, n)
    /\ rb' = prvAcquireItemNoSplit(rb, n, sent)
    /\ sent' = sent + 1
    /\ acquired' = acquired \cup
           {[item |-> AcquiredItem(rb, n), size |-> n, tag |-> sent]}
    /\ sendPc' = [sendPc EXCEPT ![s] = "idle"]
    /\ UNCHANGED <<loans, sendReq, recvPc, recvMax, setVars>>

SendBlocks(s, n, acq) ==
    /\ ~xCheckItemFits(rb, n)
    /\ sendPc' = [sendPc EXCEPT ![s] = "blocked"]
    /\ sendReq' = [sendReq EXCEPT ![s] = [size |-> n, acquire |-> acq]]
    /\ UNCHANGED <<dataVars, recvPc, recvMax, setVars>>

SendGivesUp(s, n) ==
    /\ ~xCheckItemFits(rb, n)
    /\ sendPc' = [sendPc EXCEPT ![s] = "idle"]
    /\ UNCHANGED <<dataVars, sendReq, recvPc, recvMax, setVars>>

\* The bound: the items sent and the ones that callers wait to send.
Asked == LET waiting == {s \in Senders : sendPc[s] \in {"blocked", "woken"}}
         IN  IF IsByteBuffer THEN xSize * Cardinality(waiting)
             ELSE Cardinality(waiting)
MaySend(s, n) == sendPc[s] = "idle" /\ sent + Asked + Unit(n) <= MaxSent

xRingbufferSend(s, n) ==
    /\ MaySend(s, n)
    /\ InOrder => acquired = {}
    /\ SendCopies(s, n) \/ SendBlocks(s, n, FALSE)

xRingbufferSendAcquire(s, n) ==
    /\ MaySend(s, n)
    /\ SendAcquires(s, n) \/ SendBlocks(s, n, TRUE)

\* The loop goes round: it sends, blocks again or, timed out, gives up.
SendRetries(s) ==
    /\ sendPc[s] = "woken"
    /\ LET n == sendReq[s].size
           acq == sendReq[s].acquire
       IN  \/ ~acq /\ SendCopies(s, n)
           \/ acq /\ SendAcquires(s, n)
           \/ SendBlocks(s, n, acq)
           \/ SendGivesUp(s, n)

\* The tick takes a task whose time is over off the waiting list.
SendTimesOut(s) ==
    /\ sendPc[s] = "blocked"
    /\ sendPc' = [sendPc EXCEPT ![s] = "woken"]
    /\ UNCHANGED <<dataVars, sendReq, recvPc, recvMax, setVars>>

xRingbufferSendComplete(s, h) ==
    /\ sendPc[s] = "idle"
    /\ InOrder => \A g \in acquired : h.tag <= g.tag
    /\ rb' = prvSendItemDoneNoSplit(rb, h.item, h.size, h.tag)
    /\ acquired' = acquired \ {h}
    /\ Announce(s)
    /\ UNCHANGED <<sent, loans, sendReq, recvMax, setVars>>

\* The deferred notification reads xQueueSet again outside the critical
\* section: xQueueSend asserts that it is not NULL, and drops the notice when
\* the set's queue is full, as it has no time to wait.
SendNotifies(s) ==
    /\ sendPc[s] = "notify"
    /\ sendPc' = [sendPc EXCEPT ![s] = IF inSet THEN "idle" ELSE "assert"]
    /\ notices' = IF inSet /\ notices < SetLength THEN notices + 1 ELSE notices
    /\ UNCHANGED <<dataVars, sendReq, recvPc, recvMax, inSet>>

(***************************************************************************)
(* prvReceiveGeneric and prvReceiveGenericFromISR.                         *)
(***************************************************************************)
Loan(r, item, n) == [item |-> item, size |-> n, by |-> r]

\* The parts handed out by one retrieval, and the control block after it.
GetParts(r, b, max) ==
    LET at    == ReadHeader(b)
        first == Loan(r, at + rbHEADER_SIZE, b.mem[at].xItemLen)
        b1    == prvGetItemDefault(b)
        at2   == ReadHeader(b1)
    IN  IF IsByteBuffer
        THEN [parts |-> {Loan(r, b.read, ByteItemSize(b, max))},
              rb |-> prvGetItemByteBuf(b, max)]
        ELSE IF xBufferType = "ALLOWSPLIT" /\ "SPLIT" \in b.mem[at].uxItemFlags
        THEN [parts |-> {first, Loan(r, at2 + rbHEADER_SIZE,
                                     b1.mem[at2].xItemLen)},
              rb |-> prvGetItemDefault(b1)]
        ELSE [parts |-> {first}, rb |-> b1]

ReceiveGets(r, max) ==
    /\ prvCheckItemAvail(rb)
    /\ LET got == GetParts(r, rb, max)
       IN  rb' = got.rb /\ loans' = loans \cup got.parts
    /\ recvPc' = [recvPc EXCEPT ![r] = "idle"]
    /\ UNCHANGED <<sent, acquired, sendPc, sendReq, recvMax, setVars>>

ReceiveBlocks(r, max) ==
    /\ ~prvCheckItemAvail(rb)
    /\ recvPc' = [recvPc EXCEPT ![r] = "blocked"]
    /\ recvMax' = [recvMax EXCEPT ![r] = max]
    /\ UNCHANGED <<dataVars, sendPc, sendReq, setVars>>

ReceiveGivesUp(r) ==
    /\ ~prvCheckItemAvail(rb)
    /\ recvPc' = [recvPc EXCEPT ![r] = "idle"]
    /\ UNCHANGED <<dataVars, sendPc, sendReq, recvMax, setVars>>

\* A byte buffer's item is returned before the task retrieves again.
MayReceive(r) == IsByteBuffer => \A l \in loans : l.by # r

xRingbufferReceive(r, max) ==
    /\ recvPc[r] = "idle" /\ ~inSet /\ MayReceive(r)
    /\ ReceiveGets(r, max) \/ ReceiveBlocks(r, max)

\* A buffer in a queue set is read after xQueueSelectFromSet, without waiting.
ReceiveSelected(r, max) ==
    /\ recvPc[r] = "selected" /\ MayReceive(r)
    /\ ReceiveGets(r, max) \/ ReceiveGivesUp(r)

ReceiveRetries(r) ==
    /\ recvPc[r] = "woken"
    /\ \/ ReceiveGets(r, recvMax[r])
       \/ ReceiveBlocks(r, recvMax[r])
       \/ ReceiveGivesUp(r)

ReceiveTimesOut(r) ==
    /\ recvPc[r] = "blocked"
    /\ recvPc' = [recvPc EXCEPT ![r] = "woken"]
    /\ UNCHANGED <<dataVars, sendPc, sendReq, recvMax, setVars>>

\* Fault: the space is freed without a word to the waiting senders.
ReturnItemSilently(l) ==
    /\ rb' = vReturnItem(rb, l.item)
    /\ loans' = loans \ {l}
    /\ UNCHANGED <<sent, acquired, sendPc, sendReq, recvPc, recvMax, setVars>>

vRingbufferReturnItem(l) ==
    /\ rb' = vReturnItem(rb, l.item)
    /\ loans' = loans \ {l}
    /\ Wake(sendPc, sendPc')
    /\ UNCHANGED <<sent, acquired, sendReq, recvPc, recvMax, setVars>>

(***************************************************************************)
(* Queue sets.                                                             *)
(***************************************************************************)
xRingbufferAddToQueueSetRead ==
    /\ ~inSet /\ ~prvCheckItemAvail(rb)
    /\ inSet' = TRUE
    /\ UNCHANGED <<dataVars, taskVars, notices>>

xRingbufferRemoveFromQueueSetRead ==
    /\ inSet /\ ~prvCheckItemAvail(rb)
    /\ inSet' = FALSE
    /\ UNCHANGED <<dataVars, taskVars, notices>>

xQueueSelectFromSet(r) ==
    /\ recvPc[r] = "idle" /\ notices > 0
    /\ recvPc' = [recvPc EXCEPT ![r] = "selected"]
    /\ notices' = notices - 1
    /\ UNCHANGED <<dataVars, sendPc, sendReq, recvMax, inSet>>

\* What can happen only to a buffer that there is a queue set for.
QueueSetStep ==
    \/ xRingbufferAddToQueueSetRead
    \/ xRingbufferRemoveFromQueueSetRead
    \/ \E s \in Senders : SendNotifies(s)
    \/ \E r \in Receivers : \/ xQueueSelectFromSet(r)
                            \/ \E max \in ReceiveSizes : ReceiveSelected(r, max)

(***************************************************************************)
(* The specification.                                                      *)
(***************************************************************************)
Next ==
    \/ \E s \in Senders :
         \/ \E n \in SendSizes : xRingbufferSend(s, n)
         \/ \E n \in AcquireSizes :
              \/ xRingbufferSendAcquire(s, n)
              \/ \E h \in acquired : h.size = n /\ xRingbufferSendComplete(s, h)
         \/ SendRetries(s)
         \/ SendTimesOut(s)
    \/ \E r \in Receivers :
         \/ \E max \in ReceiveSizes : xRingbufferReceive(r, max)
         \/ ReceiveRetries(r)
         \/ ReceiveTimesOut(r)
    \/ \E l \in loans : vRingbufferReturnItem(l)
    \/ \E q \in QueueSets : QueueSetStep

Spec == Init /\ [][Next]_vars

(***************************************************************************)
(* Views of the storage, for the properties: what a reader would find by   *)
(* following the headers from the read pointer, and under the handles out. *)
(***************************************************************************)
ItemAt == [p \in Words |->
    LET h == rb.mem[p]
        data == {w \in Words : p + rbHEADER_SIZE <= w
                              /\ w < p + rbHEADER_SIZE + h.xItemLen}
        ready == xBufferType = "ALLOWSPLIT" \/ "WRITTEN" \in h.uxItemFlags
    IN  [tags  |-> {h.tag} \cup (IF ready THEN {rb.mem[w].tag : w \in data}
                                ELSE {}),
         len   |-> h.xItemLen,
         split |-> "SPLIT" \in h.uxItemFlags,
         ready |-> ready]]

ByteAt(p) == [tags |-> {rb.mem[ByteWrap(p)]}, len |-> 1,
              split |-> FALSE, ready |-> TRUE]

Unread == rb.waiting + Cardinality(acquired)

FifoView ==
    IF IsByteBuffer THEN [i \in 1 .. rb.waiting |-> ByteAt(rb.read + i - 1)]
    ELSE LET path  == HeadersFrom(rb.mem, rb.read)
             heads == SelectSeq([k \in 1 .. MaxHeaders |-> path[k - 1]],
                          LAMBDA p : "DUMMY" \notin rb.mem[p].uxItemFlags)
         IN  [i \in 1 .. Unread |-> ItemAt[heads[i]]]

HeldView ==
    IF IsByteBuffer
    THEN {ByteAt(b) : b \in UNION {l.item .. l.item + l.size - 1 : l \in loans}}
    ELSE {ItemAt[l.item - rbHEADER_SIZE] : l \in loans}

Fifo == INSTANCE RingbufFifo WITH
            Bytes <- IsByteBuffer, MaxLen <- xMaxItemSize,
            fifo <- FifoView, held <- HeldView, count <- sent

(***************************************************************************)
(* Properties.                                                             *)
(***************************************************************************)
\* The shape of the state: the pointers stay inside the storage and aligned,
\* as the assertions at the head of every prv function demand.
TypeOK ==
    /\ {rb.acquire, rb.write, rb.read, rb.free} \subseteq
           (IF IsByteBuffer THEN 0 .. xSize - 1
            ELSE {w \in Words : xSize - w >= rbHEADER_SIZE})
    /\ rb.full \in BOOLEAN
    /\ rb.waiting \in 0 .. xSize
    /\ sent \in 0 .. MaxSent
    /\ sendPc \in [Senders -> {"idle", "blocked", "woken", "notify", "assert"}]
    /\ recvPc \in [Receivers -> {"idle", "blocked", "woken", "selected"}]
    /\ recvMax \in [Receivers -> {0} \cup ReceiveSizes]
    /\ inSet \in BOOLEAN /\ notices \in 0 .. SetLength

\* The storage, read through the headers and pointers, is a FIFO queue whose
\* retrieved pieces are left alone until returned: no copy overwrites an item
\* that is unread or lent out, none is lost, repeated or reordered, whatever
\* the order in which items are completed and returned.
IsFifo == Fifo!Spec

\* Of a byte buffer, sent - waiting bytes have been retrieved.  The unread ones
\* are stored from the read pointer on, in the order they were sent, and the
\* ones lent out are the last retrieved and still as they were sent: no copy
\* reaches them before vRingbufferReturnItem.
StreamIntact ==
    IsByteBuffer =>
      /\ \A i \in 0 .. rb.waiting - 1 :
            rb.mem[ByteWrap(rb.read + i)] = sent - rb.waiting + i
      /\ \A l \in loans : \A i \in 0 .. l.size - 1 :
            rb.mem[l.item + i] = sent - rb.waiting - l.size + i

\* Of a byte buffer, rbBUFFER_FULL_FLAG is set exactly when the unread and the
\* lent bytes fill the storage, so that equal acquire and free pointers are
\* never misread; one item at most is lent out at a time.
FullIsExact ==
    IsByteBuffer =>
      LET lent == IF loans = {} THEN 0 ELSE (CHOOSE l \in loans : TRUE).size
      IN  /\ rb.full <=> (rb.waiting + lent = xSize)
          /\ \A l, m \in loans : l = m

\* The assertions of prvSendItemDoneNoSplit and prvReturnItemDefault on the
\* header of a caller's handle: it is still the header of that item, not a
\* dummy, and not completed (returned) already.
HandlesValid ==
    ~IsByteBuffer =>
      /\ \A h \in acquired : LET w == rb.mem[h.item - rbHEADER_SIZE] IN
             w.xItemLen = h.size /\ w.uxItemFlags \cap {"WRITTEN", "DUMMY"} = {}
      /\ \A l \in loans : LET w == rb.mem[l.item - rbHEADER_SIZE] IN
             w.xItemLen = l.size /\ w.uxItemFlags \cap {"FREE", "DUMMY"} = {}

\* An acquired item "as well as the following items ``SendAcquire`` or ``Send``
\* after it, will not be able to be read from the ring buffer until this item
\* is actually sent" (ringbuf.h): nothing lent out was acquired before, or
\* together with, an item that is not completed.
UnsentNotRetrieved ==
    \A h \in acquired, l \in loans : l.item # h.item

\* Once everything is retrieved and returned, an item of any size up to
\* xMaxItemSize is accepted, wherever the pointers ended up, and a no-split
\* item is placed before the tail: no sequence of calls leaks space.
EmptyAcceptsAll ==
    (acquired = {} /\ loans = {} /\ rb.waiting = 0) =>
      \A n \in 0 .. xMaxItemSize :
        /\ xCheckItemFits(rb, n)
        /\ xBufferType = "NOSPLIT" =>
               AcquiredItem(rb, n) + rbALIGN_SIZE(n) <= xSize

\* xRingbufferGetCurFreeSize never promises too much: an item of any positive
\* size up to its result would be accepted now.
FreeSizeFits ==
    \A n \in 1 .. xGetCurMaxSize(rb) : xCheckItemFits(rb, n)

\* xRingbufferGetCurFreeSize "represents the maximum size an item/data can
\* have if it was currently sent" (ringbuf.h): nothing larger is accepted.
FreeSizeIsMaximum ==
    \A n \in xGetCurMaxSize(rb) + 1 .. xMaxItemSize : ~xCheckItemFits(rb, n)

\* A receiver blocks "until there is data available for retrieval" (ringbuf.h):
\* while a buffer outside queue sets has something to retrieve, some waiting
\* task has been woken for it.
NoStrandedReceiver ==
    (Blocked(recvPc) # {} /\ ~inSet /\ prvCheckItemAvail(rb)) =>
        \E r \in Receivers : recvPc[r] = "woken"

\* The same for a single sender: it is not left on the list with room for it.
NoStrandedSender ==
    (\E s \in Blocked(sendPc) : xCheckItemFits(rb, sendReq[s].size)) =>
        \E s \in Senders : sendPc[s] = "woken"

\* Neither side waits for what is there, unless one of them has been woken for it.
NoneStranded == NoStrandedSender /\ NoStrandedReceiver

\* A queue set is "notified when the new data becomes available to read"
\* (ringbuf.h): while a buffer in a set has something to retrieve, a notice is
\* queued, about to be queued, or in the hands of a reader.
ReadableIsNoticed ==
    (inSet /\ prvCheckItemAvail(rb)) =>
        \/ notices > 0
        \/ \E s \in Senders : sendPc[s] = "notify"
        \/ \E r \in Receivers : recvPc[r] = "selected"

(***************************************************************************)
(* Liveness: woken tasks run, receivers keep retrieving, and holders give  *)
(* back what they hold.  Nothing forces a wait to time out.                *)
(***************************************************************************)
Fairness ==
    /\ \A s \in Senders : WF_vars(SendRetries(s))
    /\ \A r \in Receivers :
         /\ WF_vars(ReceiveRetries(r))
         /\ WF_vars(\E max \in ReceiveSizes : xRingbufferReceive(r, max))
    /\ WF_vars(\E l \in loans : vRingbufferReturnItem(l))
    /\ WF_vars(\E s \in Senders, h \in acquired : xRingbufferSendComplete(s, h))

FairSpec == Spec /\ Fairness

\* A sender that blocks returns in the end, although each returned item wakes
\* one waiting sender only, possibly one whose item does not fit.
BlockedSenderReturns ==
    \A s \in Senders : sendPc[s] = "blocked" ~> sendPc[s] = "idle"

\* Everything sent is retrieved in the end.
SentIsRetrieved == (rb.waiting > 0 /\ acquired = {}) ~> (rb.waiting = 0)
=============================================================================
