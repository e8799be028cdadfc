-------------------------- MODULE MCRingbufItems ---------------------------
(***************************************************************************)
(* The two kinds of ring buffer that hold items, one or the other in each  *)
(* behaviour: a no-split buffer, whose items are also acquired and filled  *)
(* in place, and an allow-split buffer that is put in a queue set.         *)
(***************************************************************************)
EXTENDS Integers

CONSTANTS s1, r1, r2    \* a sender and two receivers

VARIABLES kind, rb, sent, acquired, loans, sendPc, sendReq, recvPc, recvMax, inSet, notices

NoSplit == INSTANCE Ringbuf WITH
    xBufferType <- "NOSPLIT", xSize <- 48, Senders <- {s1}, Receivers <- {r1},
    SendSizes <- {0, 16}, AcquireSizes <- {12}, ReceiveSizes <- {0}, InOrder <- TRUE,
    QueueSets <- {}, SetLength <- 0, MaxSent <- 5

AllowSplit == INSTANCE Ringbuf WITH
    xBufferType <- "ALLOWSPLIT", xSize <- 36, Senders <- {s1}, Receivers <- {r1, r2},
    SendSizes <- {0, 13, 20}, AcquireSizes <- {}, ReceiveSizes <- {0}, InOrder <- TRUE,
    QueueSets <- {"set"}, SetLength <- 4, MaxSent <- 3

vars == <<kind, rb, sent, acquired, loans, sendPc, sendReq, recvPc, recvMax, inSet, notices>>

Init == \/ kind = "NOSPLIT" /\ NoSplit!Init
        \/ kind = "ALLOWSPLIT" /\ AllowSplit!Init

Next == /\ \/ kind = "NOSPLIT" /\ NoSplit!Next
           \/ kind = "ALLOWSPLIT" /\ AllowSplit!Next
        /\ UNCHANGED kind

Spec == Init /\ [][Next]_vars

-----------------------------------------------------------------------------
(* Properties: those of Ringbuf, of the buffer at hand *)

\* The header of every acquired or lent item is still that item's, as
\* prvSendItemDoneNoSplit and prvReturnItemDefault assert.
HandlesValid == IF kind = "NOSPLIT" THEN NoSplit!HandlesValid ELSE AllowSplit!HandlesValid

\* An emptied buffer accepts every item up to xMaxItemSize, wherever its
\* pointers are: no sequence of calls leaks space.
EmptyAcceptsAll ==
    IF kind = "NOSPLIT" THEN NoSplit!EmptyAcceptsAll ELSE AllowSplit!EmptyAcceptsAll

\* xRingbufferGetCurFreeSize never promises too much.
FreeSizeFits == IF kind = "NOSPLIT" THEN NoSplit!FreeSizeFits ELSE AllowSplit!FreeSizeFits

\* No sender stays on the waiting list with room for its item, and no receiver
\* with an item to retrieve, unless another of them has been woken for it.
NoneStranded ==
    IF kind = "NOSPLIT" THEN NoSplit!NoneStranded ELSE AllowSplit!NoneStranded

\* The reader of a queue set hears of every item in the buffer.
ReadableIsNoticed ==
    IF kind = "NOSPLIT" THEN NoSplit!ReadableIsNoticed ELSE AllowSplit!ReadableIsNoticed

\* The queue the storage stands for; MaxLen is the larger xMaxItemSize of the two.
Fifo == INSTANCE RingbufFifo WITH
    Bytes <- FALSE, MaxLen <- AllowSplit!xMaxItemSize, count <- sent,
    fifo <- IF kind = "NOSPLIT" THEN NoSplit!FifoView ELSE AllowSplit!FifoView,
    held <- IF kind = "NOSPLIT" THEN NoSplit!HeldView ELSE AllowSplit!HeldView

\* The storage, read through its headers and pointers, implements a FIFO queue of
\* items whose retrieved pieces are left alone until they are returned.
IsFifo == Fifo!Spec
=============================================================================
