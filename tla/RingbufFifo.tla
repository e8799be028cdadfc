---------------------------- MODULE RingbufFifo -----------------------------
(***************************************************************************)
(* What a ring buffer promises: "strictly FIFO buffers" whose items are    *)
(* retrieved by reference.  The buffer is a queue of pieces; a piece is an *)
(* item, one of the two parts of a split item, or one byte of a byte       *)
(* buffer.  A piece that was handed out stays as it is until its holder    *)
(* returns it, in whatever order the pieces are returned.                  *)
(***************************************************************************)
EXTENDS Integers, SequencesExt

CONSTANTS Bytes,    \* TRUE for a byte buffer
          MaxLen    \* the largest item

VARIABLES fifo,     \* pieces sent, or given space, and not yet retrieved
          held,     \* pieces retrieved and not yet returned
          count     \* items (bytes) given space so far

Init == fifo = <<>> /\ held = {} /\ count = 0

\* What one send may add.  An item is a whole piece, ready once its data is in,
\* or two ready parts, the first of them marked split.  Bytes are numbered on.
IsItem(q) ==
    /\ Len(q) \in {1, 2}
    /\ \A i \in 1 .. Len(q) : /\ q[i].tags = {count}
                              /\ q[i].split = (i < Len(q))
                              /\ Len(q) = 2 => q[i].ready /\ q[i].len > 0
    /\ q[1].len + (IF Len(q) = 2 THEN q[2].len ELSE 0) \in 0 .. MaxLen

AreBytes(q) ==
    \A i \in 1 .. Len(q) : /\ q[i].tags = {count + i - 1}
                          /\ q[i].ready /\ ~q[i].split

\* New pieces enter at the end and the queue is otherwise as it was.
Put ==
    /\ count' > count
    /\ IsPrefix(fifo, fifo')
    /\ LET new == SubSeq(fifo', Len(fifo) + 1, Len(fifo'))
       IN  IF Bytes THEN AreBytes(new) /\ count' = count + Len(new)
           ELSE IsItem(new) /\ count' = count + 1
    /\ UNCHANGED held

\* The data of an item that was given space earlier is complete.
Complete(i) ==
    /\ UNCHANGED <<count, held>>
    /\ ~fifo[i].ready
    /\ fifo' = [fifo EXCEPT ![i].ready = TRUE]

\* Retrieval takes the oldest item, with both its parts, or the oldest bytes.
Get(k) ==
    /\ UNCHANGED count /\ fifo # <<>>
    /\ Len(fifo') = Len(fifo) - k
    /\ \A i \in 1 .. k : fifo[i].ready /\ fifo[i] \notin held
    /\ ~fifo[k].split
    /\ ~Bytes => \A i \in 1 .. k - 1 : fifo[i].split
    /\ held' = held \cup {fifo[i] : i \in 1 .. k}
    /\ fifo' = SubSeq(fifo, k + 1, Len(fifo))

Return ==
    /\ UNCHANGED <<count, fifo>>
    /\ held' \subseteq held

Next ==
    \/ Put
    \/ \E i \in 1 .. Len(fifo) : Complete(i) \/ Get(i)
    \/ Return

Spec == Init /\ [][Next]_<<fifo, held, count>>
=============================================================================
