------------------------------ MODULE OtaProofs -----------------------------
(***************************************************************************)
(* Theorems about over-the-air updates, for any number of slots, with or   *)
(* without a factory application and rollback.  First those that hold for  *)
(* every application, then those for applications that keep to the         *)
(* documented order of calls.                                              *)
(***************************************************************************)
EXTENDS Ota, WellFoundedInduction, TLAPS

(***************************************************************************)
(* The inductive invariant.                                                *)
(***************************************************************************)
\* NextSeq is asked for numbers up to here only.
SeqBound == MaxSeq * AppCount

States == {"UNDEFINED", "NEW", "PENDING_VERIFY", "VALID", "INVALID", "ABORTED"}
Seqs == {n \in Int : n <= SeqBound}
Entry == [ota_seq : Seqs, ota_state : States, crc : BOOLEAN]
SectorOp == [op : {"sector"}, at : 0 .. 1, to : Entry]
ImageOp == [op : {"image"}, at : Partitions, to : {"ok", "bad"}]

\* An image is written by a running application only, and never its own.
Allowed == SectorOp \union {o \in ImageOp : pc = "run" /\ o.at # running}

TypeOK ==
    /\ conf \in [factory : BOOLEAN, rollback : BOOLEAN]
    /\ otadata \in [0 .. 1 -> Entry]
    /\ image \in [Partitions -> {"ok", "bad"}]
    /\ pc \in {"off", "reset", "load", "run"}
    /\ boot_index \in Partitions
    /\ handle \in [part : Partitions \union {NoPartition}, wrote : BOOLEAN]

\* What a running application has still to write spares its own image, which
\* is whole, and so does what it may yet write to the open update.
RunningInv ==
    /\ job \in Seq(Allowed)
    /\ pc = "run" => running \in Partitions /\ Bootable(running)
    /\ handle # NoHandle =>
           pc = "run" /\ handle.part \in OtaSlots /\ handle.part # running

OtaInv == TypeOK /\ RunningInv /\ AlwaysBootable

(***************************************************************************)
(* Lemmas about the operators.                                             *)
(***************************************************************************)
(* A nonempty set of natural numbers has a least element, and Min is it.   *)
LEMMA MinOfNat ==
  ASSUME NEW S \in SUBSET Nat, S # {}
  PROVE  Min(S) \in S /\ \A y \in S : Min(S) <= y
<1> DEFINE R == OpToRel(<, Nat)
<1>1. PICK x \in S : \A y \in S : ~ (<<y, x>> \in R)
  <2>1. IsWellFoundedOn(R, Nat)
    BY NatLessThanWellFounded
  <2> HIDE DEF R
  <2> QED  BY <2>1, WFMin
<1>2. \A y \in S : x <= y
  <2>1. ASSUME NEW y \in S, y < x PROVE <<y, x>> \in R
    BY <2>1 DEF OpToRel
  <2> HIDE DEF R
  <2>2. \A y \in S : ~ (y < x)
    BY <1>1, <2>1
  <2> QED  BY <2>2
<1> QED  BY <1>2 DEF Min

(* The bound leaves room for every number that is asked for.               *)
LEMMA BoundType == SeqBound \in Nat /\ SeqBound >= MaxSeq /\ SeqBound >= AppCount
<1>1. \A m, a \in Nat \ {0} : m * a \in Nat /\ m * a >= m /\ m * a >= a
  OBVIOUS
<1> QED  BY <1>1, OtaAssumption DEF SeqBound

(* Every record names a slot of the partition table.                       *)
LEMMA SlotType == ASSUME NEW e \in Entry PROVE Slot(e) \in OtaSlots
<1>1. \A n \in Int, a \in Nat \ {0} : n % a \in 0 .. a - 1
  OBVIOUS
<1>2. e.ota_seq - 1 \in Int
  BY DEF Entry, Seqs
<1> QED  BY <1>1, <1>2, OtaAssumption DEF Slot, OtaSlots

(* get_active_otadata names a sector with a valid record, or none.         *)
LEMMA ActiveType ==
  ASSUME NEW o
  PROVE  get_active_otadata(o) \in {-1, 0, 1}
BY DEF get_active_otadata

(* The least number not below seq that stands for a slot exists, and is    *)
(* the one that is written.                                                *)
LEMMA NextSeqType ==
  ASSUME NEW slot \in OtaSlots, NEW seq \in Int, seq <= SeqBound
  PROVE  NextSeq(slot, seq) \in Int
<1> DEFINE B == {((slot + 1) % AppCount) + i * AppCount : i \in 0 .. MaxSeq}
           S == {b \in B : b >= seq}
<1>1. (slot + 1) % AppCount \in Nat
  BY OtaAssumption DEF OtaSlots
<1>2. B \subseteq Nat
  <2>1. \A i, a \in Nat : i * a \in Nat
    OBVIOUS
  <2> QED  BY <1>1, <2>1, OtaAssumption
<1>3. ((slot + 1) % AppCount) + MaxSeq * AppCount \in S
  BY <1>1, BoundType, OtaAssumption DEF SeqBound
<1>4. Min(S) \in S
  BY <1>2, <1>3, MinOfNat
<1> QED  BY <1>2, <1>4 DEF NextSeq

(* The loop of the bootloader tries every partition, wherever it starts.   *)
LEMMA LoadOrderCovers ==
  ASSUME NEW start \in Partitions, NEW p \in Partitions
  PROVE  \E k \in 1 .. AppCount + 1 : LoadOrder(start)[k] = p
<1> USE OtaAssumption DEF Partitions, OtaSlots, FACTORY_INDEX, LoadOrder
<1>1. CASE p <= start
  <2>1. start + 1 - p \in 1 .. AppCount + 1
    BY <1>1
  <2>2. LoadOrder(start)[start + 1 - p] = p
    BY <1>1, <2>1
  <2> QED  BY <2>1, <2>2
<1>2. CASE p > start
  <2>1. p + 2 \in 1 .. AppCount + 1
    BY <1>2
  <2>2. LoadOrder(start)[p + 2] = p
    BY <1>2, <2>1
  <2> QED  BY <2>1, <2>2
<1> QED  BY <1>1, <1>2 DEF Partitions, OtaSlots

(* So it starts one of the partitions that can be started, if there is any. *)
LEMMA FirstBootableType ==
  ASSUME NEW start \in Partitions, NEW P \in SUBSET Partitions, P # {}
  PROVE  FirstBootable(start, P) \in P
<1> DEFINE K == {k \in 1 .. AppCount + 1 : LoadOrder(start)[k] \in P}
<1>1. K \subseteq Nat /\ K # {}
  BY LoadOrderCovers, OtaAssumption
<1>2. Min(K) \in K
  BY <1>1, MinOfNat
<1> QED  BY <1>2 DEF FirstBootable

(* An erased sector holds a record.                                        *)
LEMMA ErasedType == Erased \in Entry
<1>1. UINT32_MAX \in Seqs
  BY BoundType DEF UINT32_MAX, Seqs
<1> QED  BY <1>1 DEF Erased, Entry, States

(* Changing the state or the check sum of a record leaves a record.        *)
LEMMA EntryExcept ==
  ASSUME NEW e \in Entry, NEW state \in States, NEW crc \in BOOLEAN
  PROVE  /\ [e EXCEPT !.ota_state = state] \in Entry
         /\ [e EXCEPT !.crc = crc] \in Entry
         /\ [e EXCEPT !.crc = crc, !.ota_state = state] \in Entry
BY DEF Entry

(* Rewriting a record takes two operations on its sector.                  *)
LEMMA RewriteType ==
  ASSUME NEW i \in 0 .. 1, NEW e \in Entry
  PROVE  rewrite_ota_seq(i, e) \in Seq(SectorOp)
<1> QED  BY ErasedType DEF rewrite_ota_seq, SetSector, SectorOp

(* A sequence of operations on otadata is always allowed.                  *)
LEMMA SectorsAllowed == Seq(SectorOp) \subseteq Seq(Allowed)
BY DEF Allowed

(***************************************************************************)
(* The steps.                                                              *)
(***************************************************************************)
LEMMA InitInv == Init => OtaInv
<1> SUFFICES ASSUME Init PROVE OtaInv
  OBVIOUS
<1> USE OtaAssumption DEF Init
<1>1. otadata \in [0 .. 1 -> Entry]
  BY ErasedType
<1>2. find_default_boot_partition \in Partitions
  BY DEF find_default_boot_partition, Partitions, OtaSlots
<1>3. image \in [Partitions -> {"ok", "bad"}]
  OBVIOUS
<1>4. Bootable(find_default_boot_partition)
  BY <1>2 DEF Bootable, find_default_boot_partition, FACTORY_INDEX
<1>5. boot_index \in Partitions
  BY DEF Partitions
<1>6. handle \in [part : Partitions \union {NoPartition}, wrote : BOOLEAN]
  BY DEF NoHandle
<1> QED
  BY <1>1, <1>2, <1>3, <1>4, <1>5, <1>6
  DEF OtaInv, TypeOK, RunningInv, AlwaysBootable

(* A flash operation that is allowed leaves an image to start, and that of *)
(* the running application alone.                                          *)
LEMMA ApplyKeeps ==
  ASSUME OtaInv, UNCHANGED conf, NEW o \in Allowed, NEW v, Apply(o, v),
         v \in IF o.op = "sector" THEN Entry ELSE {"ok", "bad"}
  PROVE  /\ otadata' \in [0 .. 1 -> Entry]
         /\ image' \in [Partitions -> {"ok", "bad"}]
         /\ AlwaysBootable'
         /\ pc = "run" => image'[running] = image[running]
<1> USE DEF OtaInv, TypeOK, RunningInv, Apply
<1>1. CASE o \in SectorOp
  BY <1>1 DEF SectorOp, AlwaysBootable, Bootable
<1>2. CASE o \in ImageOp /\ pc = "run" /\ o.at # running
  <2>1. image' = [image EXCEPT ![o.at] = v] /\ UNCHANGED otadata
    BY <1>2 DEF ImageOp
  <2>2. v \in {"ok", "bad"}
    BY <1>2 DEF ImageOp
  <2>3. image'[running] = image[running]
    BY <1>2, <2>1
  <2>4. AlwaysBootable'
    BY <1>2, <2>3 DEF AlwaysBootable, Bootable
  <2> QED  BY <2>1, <2>2, <2>3, <2>4
<1> QED  BY <1>1, <1>2 DEF Allowed

(* What is left of a job is allowed as long as the same application runs.  *)
LEMMA AllowedKept ==
  ASSUME UNCHANGED <<pc, running>>
  PROVE  Allowed' = Allowed
BY DEF Allowed, SectorOp, ImageOp, Entry, Seqs, SeqBound, Partitions, OtaSlots

LEMMA FlashStepKeeps == OtaInv /\ FlashStep => OtaInv'
<1> SUFFICES ASSUME OtaInv, FlashStep PROVE OtaInv'
  OBVIOUS
<1>1. Head(job) \in Allowed /\ Tail(job) \in Seq(Allowed)
  BY DEF FlashStep, OtaInv, RunningInv
<1>2. Head(job).to \in IF Head(job).op = "sector" THEN Entry ELSE {"ok", "bad"}
  BY <1>1 DEF Allowed, SectorOp, ImageOp
<1>3. UNCHANGED <<conf, pc, running, boot_index, handle>>
  BY DEF FlashStep, boot
<1>4. /\ otadata' \in [0 .. 1 -> Entry]
      /\ image' \in [Partitions -> {"ok", "bad"}]
      /\ AlwaysBootable'
      /\ pc = "run" => image'[running] = image[running]
  BY <1>1, <1>2, <1>3, ApplyKeeps DEF FlashStep
<1>5. job' \in Seq(Allowed')
  BY <1>1, <1>3, AllowedKept DEF FlashStep
<1> QED
  BY <1>3, <1>4, <1>5 DEF OtaInv, TypeOK, RunningInv, Bootable, NoHandle

LEMMA PowerLossKeeps == OtaInv /\ PowerLoss => OtaInv'
<1> SUFFICES ASSUME OtaInv, PowerLoss PROVE OtaInv'
  OBVIOUS
<1>1. /\ UNCHANGED <<conf, boot_index>>
      /\ pc' = "off" /\ job' = <<>> /\ handle' = NoHandle
  BY DEF PowerLoss
<1>2. /\ otadata' \in [0 .. 1 -> Entry]
      /\ image' \in [Partitions -> {"ok", "bad"}]
      /\ AlwaysBootable'
  <2>1. CASE UNCHANGED flash
    BY <1>1, <2>1 DEF flash, OtaInv, TypeOK, AlwaysBootable, Bootable
  <2>2. CASE job # <<>> /\ \E v \in Torn(Head(job)) : Apply(Head(job), v)
    <3>1. PICK v \in Torn(Head(job)) : Apply(Head(job), v)
      BY <2>2
    <3>2. Head(job) \in Allowed
      BY <2>2 DEF OtaInv, RunningInv
    <3>3. v \in IF Head(job).op = "sector" THEN Entry ELSE {"ok", "bad"}
      <4>1. CASE Head(job) \in SectorOp
        <5>1. /\ Head(job).op = "sector" /\ Head(job).to \in Entry
              /\ otadata[Head(job).at] \in Entry
          BY <4>1 DEF SectorOp, OtaInv, TypeOK
        <5>2. FALSE \in BOOLEAN /\ "UNDEFINED" \in States
          BY DEF States
        <5> QED  BY <3>1, <5>1, <5>2, EntryExcept, ZenonT(40) DEF Torn
      <4>2. CASE Head(job) \in ImageOp
        BY <3>1, <4>2 DEF Torn, ImageOp
      <4> QED  BY <3>2, <4>1, <4>2 DEF Allowed
    <3> QED  BY <1>1, <3>1, <3>2, <3>3, ApplyKeeps
  <2> QED  BY <2>1, <2>2 DEF PowerLoss
<1> QED
  BY <1>1, <1>2 DEF OtaInv, TypeOK, RunningInv, NoHandle

(* Selecting the partition writes to otadata only, and ends within the     *)
(* partition table.                                                        *)
LEMMA SelectKeeps == OtaInv /\ get_selected_boot_partition => OtaInv'
<1> SUFFICES ASSUME OtaInv, get_selected_boot_partition PROVE OtaInv'
  OBVIOUS
<1> DEFINE pending == {i \in 0 .. 1 : /\ conf.rollback
                                      /\ otadata[i].ota_state = "PENDING_VERIFY"}
           aborted == [i \in 0 .. 1 |->
                         IF i \in pending
                         THEN [otadata[i] EXCEPT !.ota_state = "ABORTED"]
                         ELSE otadata[i]]
           none == \A i \in 0 .. 1 : select_invalid(aborted[i])
           active == get_active_otadata(aborted)
           abort(i) == IF i \in pending THEN rewrite_ota_seq(i, aborted[i]) ELSE <<>>
           trial == /\ conf.rollback /\ ~none /\ active # -1
                    /\ aborted[active].ota_state = "NEW"
           begin == IF trial
                    THEN rewrite_ota_seq(active,
                           [aborted[active] EXCEPT !.ota_state = "PENDING_VERIFY"])
                    ELSE <<>>
<1>1. \A i \in 0 .. 1 : aborted[i] \in Entry
  BY EntryExcept DEF OtaInv, TypeOK, States
<1>2. active \in {-1, 0, 1}
  BY ActiveType
<1>3. job' = abort(0) \o abort(1) \o begin
  BY DEF get_selected_boot_partition
<1>4. boot_index' = CASE none /\ ~conf.factory   -> 0
                      [] ~none /\ active # -1    -> Slot(aborted[active])
                      [] OTHER                   -> FACTORY_INDEX
  BY DEF get_selected_boot_partition
<1>5. UNCHANGED <<conf, otadata, image, running, handle>> /\ pc' = "load"
  BY DEF get_selected_boot_partition, flash
<1> HIDE DEF aborted, none, active, pending
<1>6. job' \in Seq(SectorOp)
  <2>1. \A i \in 0 .. 1 : abort(i) \in Seq(SectorOp)
    BY <1>1, RewriteType
  <2>2. begin \in Seq(SectorOp)
    <3>1. CASE active # -1
      <4>1. active \in 0 .. 1
        BY <1>2, <3>1
      <4>2. [aborted[active] EXCEPT !.ota_state = "PENDING_VERIFY"] \in Entry
        BY <1>1, <4>1, EntryExcept DEF States
      <4> QED  BY <4>1, <4>2, RewriteType
    <3> QED  BY <3>1
  <2> QED  BY <1>3, <2>1, <2>2
<1>7. boot_index' \in Partitions
  <2>1. active # -1 => Slot(aborted[active]) \in OtaSlots
    BY <1>1, <1>2, SlotType
  <2>2. 0 \in Partitions /\ FACTORY_INDEX \in Partitions
    BY OtaAssumption DEF Partitions, OtaSlots
  <2> QED  BY <1>4, <2>1, <2>2 DEF Partitions
<1>8. job' \in Seq(Allowed')
  BY <1>6 DEF Allowed
<1>9. handle = NoHandle
  BY DEF get_selected_boot_partition, OtaInv, RunningInv
<1> QED
  BY <1>5, <1>7, <1>8, <1>9
  DEF OtaInv, TypeOK, RunningInv, AlwaysBootable, Bootable, NoHandle

(* The bootloader starts an application whose image is whole.              *)
LEMMA LoadKeeps == OtaInv /\ load_boot_image => OtaInv'
<1> SUFFICES ASSUME OtaInv, load_boot_image PROVE OtaInv'
  OBVIOUS
<1> DEFINE P == {p \in Partitions : Bootable(p)}
           q == FirstBootable(boot_index, P)
<1>1. P # {}
  BY DEF OtaInv, AlwaysBootable
<1>2. q \in P
  BY <1>1, FirstBootableType DEF OtaInv, TypeOK
<1>3. /\ running' = q /\ pc' = "run" /\ job' = set_actual_ota_seq(q)
      /\ UNCHANGED <<conf, otadata, image, boot_index, handle>>
  BY <1>1 DEF load_boot_image, LoadFrom, flash
<1> HIDE DEF q
<1>4. job' \in Seq(SectorOp)
  <2>1. q > FACTORY_INDEX => NewEntry(q + 1, "VALID") \in Entry
    BY <1>2, BoundType, OtaAssumption
    DEF NewEntry, Entry, Seqs, States, Partitions, OtaSlots, FACTORY_INDEX
  <2> QED  BY <1>3, <2>1, RewriteType DEF set_actual_ota_seq
<1>5. job' \in Seq(Allowed')
  BY <1>4 DEF Allowed
<1>6. handle = NoHandle
  BY DEF load_boot_image, LoadFrom, OtaInv, RunningInv
<1> QED
  BY <1>1, <1>2, <1>3, <1>5, <1>6
  DEF OtaInv, TypeOK, RunningInv, AlwaysBootable, Bootable, NoHandle
(* A call that changes only its handle and the job it leaves keeps the     *)
(* invariant if both spare the running application.                        *)
LEMMA CallKeeps ==
  ASSUME OtaInv, pc = "run",
         UNCHANGED <<conf, otadata, image, pc, boot_index, running>>,
         job' \in Seq(Allowed),
         handle' \in [part : Partitions \union {NoPartition}, wrote : BOOLEAN],
         handle' # NoHandle => handle'.part \in OtaSlots /\ handle'.part # running
  PROVE  OtaInv'
<1>1. job' \in Seq(Allowed')
  BY AllowedKept
<1> QED
  BY <1>1 DEF OtaInv, TypeOK, RunningInv, AlwaysBootable, Bootable, NoHandle

(* Erasing the previous application spares the running one.                *)
LEMMA EraseLastType ==
  ASSUME OtaInv, pc = "run", NEW skip \in BOOLEAN
  PROVE  erase_last_boot_app_partition(skip) \in Seq(Allowed)
<1> DEFINE active == get_active_otadata(otadata)
           last == otadata[1 - active]
<1>1. active \in {-1, 0, 1}
  BY ActiveType
<1> HIDE DEF active
<1>2. CASE active # -1 /\ Slot(last) # running
  <2>1. 1 - active \in 0 .. 1 /\ last \in Entry
    BY <1>1, <1>2 DEF OtaInv, TypeOK
  <2>2. Slot(last) \in Partitions
    BY <2>1, SlotType DEF Partitions
  <2>3. SetImage(Slot(last), "bad") \in Allowed
    BY <1>2, <2>2 DEF SetImage, ImageOp, Allowed
  <2>4. SetSector(1 - active, Erased) \in Allowed
    BY <2>1, ErasedType DEF SetSector, SectorOp, Allowed
  <2>5. /\ <<SetImage(Slot(last), "bad")>> \in Seq(Allowed)
        /\ <<SetSector(1 - active, Erased)>> \in Seq(Allowed)
    BY <2>3, <2>4
  <2> QED  BY <2>5 DEF erase_last_boot_app_partition, active
<1>3. CASE ~(active # -1 /\ Slot(last) # running)
  BY <1>3 DEF erase_last_boot_app_partition, active
<1> QED  BY <1>2, <1>3

(* Choosing a partition writes to otadata only.                            *)
LEMMA RewriteOtaDataType ==
  ASSUME OtaInv, NEW slot \in OtaSlots,
         Last(RewriteOtaData(slot)).to.ota_seq <= MaxSeq
  PROVE  RewriteOtaData(slot) \in Seq(SectorOp)
<1> DEFINE active == get_active_otadata(otadata)
           state == IF conf.rollback THEN "NEW" ELSE "UNDEFINED"
           seq == NextSeq(slot, otadata[active].ota_seq)
<1>1. active \in {-1, 0, 1} /\ state \in States
  BY ActiveType DEF States
<1> HIDE DEF active, state
<1>2. CASE active = -1
  <2>1. NewEntry(slot + 1, state) \in Entry
    BY <1>1, BoundType, OtaAssumption DEF NewEntry, Entry, Seqs, OtaSlots
  <2> QED  BY <1>2, <2>1, RewriteType DEF RewriteOtaData, active, state
<1>3. CASE active # -1
  <2>1. 1 - active \in 0 .. 1 /\ otadata[active] \in Entry
    BY <1>1, <1>3 DEF OtaInv, TypeOK
  <2>2. otadata[active].ota_seq \in Int /\ otadata[active].ota_seq <= SeqBound
    BY <2>1 DEF Entry, Seqs
  <2>3. seq \in Int
    BY <2>2, NextSeqType
  <2>4. RewriteOtaData(slot) = rewrite_ota_seq(1 - active, NewEntry(seq, state))
    BY <1>3 DEF RewriteOtaData, active, state
  <2> HIDE DEF seq
  <2>5. seq <= MaxSeq
    BY <2>4 DEF rewrite_ota_seq, SetSector, NewEntry, Last
  <2>6. NewEntry(seq, state) \in Entry
    BY <1>1, <2>3, <2>5, BoundType, OtaAssumption DEF NewEntry, Entry, Seqs
  <2> QED  BY <2>1, <2>4, <2>6, RewriteType
<1> QED  BY <1>2, <1>3

(* No call of an application touches its own image.                        *)
LEMMA ApplicationKeeps == OtaInv /\ Application => OtaInv'
<1> SUFFICES ASSUME OtaInv, Application PROVE OtaInv'
  OBVIOUS
<1> USE DEF Idle, flash, boot, ghost
<1>0. /\ handle \in [part : Partitions \union {NoPartition}, wrote : BOOLEAN]
      /\ handle # NoHandle => handle.part \in OtaSlots /\ handle.part # running
      /\ OtaSlots \subseteq Partitions
  BY DEF OtaInv, TypeOK, RunningInv, Partitions
<1>1. ASSUME NEW p \in OtaSlots, NEW b \in BOOLEAN, esp_ota_begin(p, b)
      PROVE  OtaInv'
  <2>1. SetImage(p, "bad") \in Allowed
    BY <1>0, <1>1 DEF esp_ota_begin, BeginIn, SetImage, ImageOp, Allowed
  <2>2. <<SetImage(p, "bad")>> \in Seq(Allowed)
    BY <2>1
  <2>3. job' \in Seq(Allowed)
    <3>1. erase_last_boot_app_partition(TRUE) \in Seq(Allowed)
      BY <1>1, EraseLastType DEF esp_ota_begin, BeginIn
    <3>2. <<>> \in Seq(Allowed)
      OBVIOUS
    <3> HIDE DEF Allowed
    <3>3. \A r, u \in Seq(Allowed) : r \o u \in Seq(Allowed)
      OBVIOUS
    <3> QED  BY <1>1, <2>2, <3>1, <3>2, <3>3 DEF esp_ota_begin, BeginIn
  <2>4. /\ pc = "run" /\ p # running /\ handle' = [part |-> p, wrote |-> FALSE]
        /\ UNCHANGED <<conf, otadata, image, pc, boot_index, running>>
    BY <1>1 DEF esp_ota_begin, BeginIn
  <2> QED  BY <1>0, <2>3, <2>4, CallKeeps
<1>2. ASSUME NEW p \in OtaSlots, NEW b \in BOOLEAN, esp_ota_resume(p, b)
      PROVE  OtaInv'
  <2>1. /\ pc = "run" /\ p # running /\ handle' = [part |-> p, wrote |-> b]
        /\ job = <<>>
        /\ UNCHANGED <<conf, otadata, image, pc, job, boot_index, running>>
    BY <1>2 DEF esp_ota_resume
  <2> QED  BY <1>0, <2>1, CallKeeps
<1>3. ASSUME NEW v \in {"ok", "bad"}, esp_ota_write(v)
      PROVE  OtaInv'
  <2>1. /\ pc = "run" /\ handle # NoHandle
        /\ handle' = [handle EXCEPT !.wrote = TRUE]
        /\ job' = <<SetImage(handle.part, v)>>
        /\ UNCHANGED <<conf, otadata, image, pc, boot_index, running>>
    BY <1>3 DEF esp_ota_write
  <2>2. SetImage(handle.part, v) \in Allowed
    BY <1>0, <2>1 DEF SetImage, ImageOp, Allowed
  <2>3. job' \in Seq(Allowed)
    BY <2>1, <2>2
  <2>4. /\ handle' \in [part : Partitions \union {NoPartition}, wrote : BOOLEAN]
        /\ handle'.part = handle.part
    BY <1>0, <2>1
  <2> QED  BY <1>0, <2>1, <2>3, <2>4, CallKeeps
<1>4. CASE esp_ota_end
  <2>1. /\ pc = "run" /\ handle' = NoHandle /\ job = <<>>
        /\ UNCHANGED <<conf, otadata, image, pc, job, boot_index, running>>
    BY <1>4 DEF esp_ota_end
  <2>2. NoHandle \in [part : Partitions \union {NoPartition}, wrote : BOOLEAN]
    BY DEF NoHandle
  <2> QED  BY <2>1, <2>2, CallKeeps
<1>5. ASSUME NEW p \in Partitions, esp_ota_set_boot_partition(p)
      PROVE  OtaInv'
  <2>1. /\ pc = "run"
        /\ UNCHANGED <<conf, otadata, image, pc, boot_index, running, handle>>
    BY <1>5 DEF esp_ota_set_boot_partition
  <2>2. CASE p = FACTORY_INDEX
    <3>1. \A i \in 0 .. 1 : SetSector(i, Erased) \in SectorOp
      BY ErasedType DEF SetSector, SectorOp
    <3>2. job' = <<SetSector(0, Erased), SetSector(1, Erased)>>
      BY <1>5, <2>2 DEF esp_ota_set_boot_partition
    <3>3. job' \in Seq(SectorOp)
      BY <3>1, <3>2
    <3>4. job' \in Seq(Allowed)
      BY <3>3, SectorsAllowed
    <3> QED  BY <1>0, <2>1, <3>4, CallKeeps
  <2>3. CASE p # FACTORY_INDEX
    <3>1. p \in OtaSlots /\ job' = RewriteOtaData(p)
      BY <1>5, <2>3 DEF esp_ota_set_boot_partition, Partitions
    <3>2. Last(RewriteOtaData(p)).to.ota_seq <= MaxSeq
      BY <1>5, <3>1 DEF esp_ota_set_boot_partition
    <3>3. job' \in Seq(Allowed)
      BY <3>1, <3>2, RewriteOtaDataType, SectorsAllowed
    <3> QED  BY <1>0, <2>1, <3>3, CallKeeps
  <2> QED  BY <2>2, <2>3
<1>6. ASSUME NEW i \in 0 .. 1, NEW state \in States, pc = "run",
             job' = rewrite_ota_seq(i, [otadata[i] EXCEPT !.ota_state = state]),
             UNCHANGED <<conf, otadata, image, pc, boot_index, running, handle>>
      PROVE  OtaInv'
  <2>1. [otadata[i] EXCEPT !.ota_state = state] \in Entry
    BY EntryExcept DEF OtaInv, TypeOK
  <2>2. job' \in Seq(Allowed)
    BY <1>6, <2>1, RewriteType, SectorsAllowed
  <2> QED  BY <1>0, <1>6, <2>2, CallKeeps
<1>7. CASE esp_ota_mark_app_valid_cancel_rollback
  <2>1. get_active_otadata(otadata) \in 0 .. 1
    BY <1>7, ActiveType DEF esp_ota_mark_app_valid_cancel_rollback
  <2>2. "VALID" \in States
    BY DEF States
  <2> QED  BY <1>6, <1>7, <2>1, <2>2 DEF esp_ota_mark_app_valid_cancel_rollback
<1>8. CASE esp_ota_mark_app_invalid_rollback
  <2>1. get_active_otadata(otadata) \in 0 .. 1
    BY <1>8, ActiveType
    DEF esp_ota_mark_app_invalid_rollback, esp_ota_check_rollback_is_possible
  <2>2. "INVALID" \in States
    BY DEF States
  <2> QED  BY <1>6, <1>8, <2>1, <2>2 DEF esp_ota_mark_app_invalid_rollback
<1>9. CASE esp_ota_erase_last_boot_app_partition
  <2>1. /\ pc = "run"
        /\ UNCHANGED <<conf, otadata, image, pc, boot_index, running, handle>>
    BY <1>9 DEF esp_ota_erase_last_boot_app_partition
  <2>2. job' \in Seq(Allowed)
    BY <1>9, EraseLastType DEF esp_ota_erase_last_boot_app_partition
  <2> QED  BY <1>0, <2>1, <2>2, CallKeeps
<1>10. CASE esp_restart
  <2>1. NoHandle \in [part : Partitions \union {NoPartition}, wrote : BOOLEAN]
    BY DEF NoHandle
  <2> QED
    BY <1>10, <2>1 DEF esp_restart, OtaInv, TypeOK, RunningInv, AlwaysBootable,
       Bootable, NoHandle
<1> QED
  BY <1>1, <1>2, <1>3, <1>4, <1>5, <1>7, <1>8, <1>9, <1>10 DEF Application

(* The invariant holds throughout.                                         *)
LEMMA OtaInvariant == Spec => []OtaInv
<1>1. OtaInv /\ [Next]_vars => OtaInv'
  <2> SUFFICES ASSUME OtaInv, [Next]_vars PROVE OtaInv'
    OBVIOUS
  <2>1. CASE UNCHANGED vars
    <3>1. Allowed' = Allowed
      BY <2>1, AllowedKept DEF vars
    <3> QED
      BY <2>1, <3>1 DEF vars, OtaInv, TypeOK, RunningInv, AlwaysBootable,
         Bootable, NoHandle
  <2> QED
    BY <2>1, FlashStepKeeps, SelectKeeps, LoadKeeps, ApplicationKeeps,
       PowerLossKeeps DEF Next, Bootloader
<1> QED  BY InitInv, <1>1, PTL DEF Spec

(* At every moment, also between two flash operations and after a power    *)
(* loss in the middle of one, the device has an image to start, whatever   *)
(* the application calls in whatever order.                                *)
THEOREM SomeImageAlwaysBootable == Spec => []AlwaysBootable
<1>1. OtaInv => AlwaysBootable
  BY DEF OtaInv
<1> QED  BY OtaInvariant, <1>1, PTL

(* The partition at the head of the order the bootloader tries them in,    *)
(* if the factory application is passed over when there is none.           *)
LEMMA FirstPresentIs ==
  ASSUME NEW start \in Partitions
  PROVE  FirstPresent(start) =
           IF start = FACTORY_INDEX /\ ~conf.factory THEN 0 ELSE start
<1> USE OtaAssumption DEF Partitions, OtaSlots, FACTORY_INDEX, LoadOrder
<1> DEFINE present == {k \in 1 .. AppCount + 1 :
                         LoadOrder(start)[k] = FACTORY_INDEX => conf.factory}
<1>1. LoadOrder(start)[1] = start /\ 1 \in 1 .. AppCount + 1
  OBVIOUS
<1>2. present \subseteq Nat \ {0}
  OBVIOUS
<1>3. CASE start = FACTORY_INDEX /\ ~conf.factory
  <2>1. LoadOrder(start)[2] = 0 /\ 2 \in present /\ 1 \notin present
    BY <1>1, <1>3
  <2>2. Min(present) \in present /\ \A y \in present : Min(present) <= y
    BY <1>2, <2>1, MinOfNat
  <2>3. Min(present) \in Nat \ {0} /\ Min(present) <= 2 /\ Min(present) # 1
    <3> HIDE DEF present
    <3> QED  BY <1>2, <2>1, <2>2
  <2>4. Min(present) = 2
    BY <2>3
  <2> QED  BY <1>3, <2>1, <2>4 DEF FirstPresent
<1>4. CASE ~(start = FACTORY_INDEX /\ ~conf.factory)
  <2>1. 1 \in present
    BY <1>1, <1>4
  <2>2. Min(present) \in present /\ \A y \in present : Min(present) <= y
    BY <1>2, <2>1, MinOfNat
  <2>3. Min(present) \in Nat \ {0} /\ Min(present) <= 1
    <3> HIDE DEF present
    <3> QED  BY <1>2, <2>1, <2>2
  <2>4. Min(present) = 1
    BY <2>3
  <2> QED  BY <1>1, <1>4, <2>4 DEF FirstPresent
<1> QED  BY <1>3, <1>4

(* esp_ota_get_boot_partition, in the application, and the selection of    *)
(* the bootloader agree on what is started next, unless the bootloader has *)
(* a record to give up first: two implementations of one rule, for every   *)
(* content of otadata, torn records included.                              *)
THEOREM BootPartitionAlwaysAgrees == Spec => BootPartitionAgrees
<1> DEFINE Selects == pc' = "load" /\ pc # "load" /\ NothingToGiveUp
                      => FirstPresent(boot_index') = esp_ota_get_boot_partition
<1>1. ASSUME OtaInv, OtaInv', [Next]_vars PROVE [Selects]_vars
  <2> SUFFICES ASSUME pc' = "load", pc # "load", NothingToGiveUp
               PROVE  FirstPresent(boot_index') = esp_ota_get_boot_partition
    OBVIOUS
  <2>1. get_selected_boot_partition
    BY <1>1 DEF Next, Bootloader, FlashStep, load_boot_image, LoadFrom, PowerLoss,
       Application, esp_ota_begin, BeginIn, esp_ota_resume, esp_ota_write,
       esp_ota_end, esp_ota_set_boot_partition,
       esp_ota_mark_app_valid_cancel_rollback, esp_ota_mark_app_invalid_rollback,
       esp_ota_erase_last_boot_app_partition, esp_restart, vars
  <2> DEFINE none == \A i \in 0 .. 1 : select_invalid(otadata[i])
             active == get_active_otadata(otadata)
  <2>2. boot_index' = CASE none /\ ~conf.factory   -> 0
                        [] ~none /\ active # -1    -> Slot(otadata[active])
                        [] OTHER                   -> FACTORY_INDEX
    <3> DEFINE aborted == [i \in 0 .. 1 |->
                 IF i \in {j \in 0 .. 1 : /\ conf.rollback
                                          /\ otadata[j].ota_state = "PENDING_VERIFY"}
                 THEN [otadata[i] EXCEPT !.ota_state = "ABORTED"]
                 ELSE otadata[i]]
    <3>1. aborted = otadata
      <4>1. otadata = [i \in 0 .. 1 |-> otadata[i]]
        BY <1>1 DEF OtaInv, TypeOK
      <4> QED  BY <4>1 DEF NothingToGiveUp
    <3>2. boot_index' =
            CASE (\A i \in 0 .. 1 : select_invalid(aborted[i])) /\ ~conf.factory -> 0
              [] /\ ~(\A i \in 0 .. 1 : select_invalid(aborted[i]))
                 /\ get_active_otadata(aborted) # -1
                   -> Slot(aborted[get_active_otadata(aborted)])
              [] OTHER -> FACTORY_INDEX
      BY <2>1 DEF get_selected_boot_partition
    <3> HIDE DEF aborted
    <3> QED  BY <3>1, <3>2
  <2>3. active \in {-1, 0, 1}
    BY ActiveType
  <2>4. active # -1 => Slot(otadata[active]) \in OtaSlots
    BY <1>1, <2>3, SlotType DEF OtaInv, TypeOK
  <2>5. esp_ota_get_boot_partition =
          IF none \/ active = -1 THEN find_default_boot_partition
          ELSE Slot(otadata[active])
    BY DEF esp_ota_get_boot_partition
  <2>6. /\ 0 \in Partitions /\ FACTORY_INDEX \in Partitions
        /\ OtaSlots \subseteq Partitions
        /\ FACTORY_INDEX \notin OtaSlots /\ FACTORY_INDEX # 0
    BY OtaAssumption DEF Partitions, OtaSlots, FACTORY_INDEX
  <2> HIDE DEF none, active
  <2>7. boot_index' \in Partitions
    BY <2>2, <2>4, <2>6
  <2>8. FirstPresent(boot_index') =
          IF boot_index' = FACTORY_INDEX /\ ~conf.factory THEN 0 ELSE boot_index'
    BY <2>7, FirstPresentIs
  <2> QED  BY <2>2, <2>4, <2>5, <2>6, <2>8 DEF find_default_boot_partition
<1> QED  BY <1>1, OtaInvariant, PTL DEF Spec, BootPartitionAgrees

(***************************************************************************)
(* What the records promise, for applications that keep to the documented  *)
(* order of calls.                                                         *)
(***************************************************************************)
\* The number by which a record is selected at the next boot, or -1 if it is not: a
\* record on trial is given up.  Named is the partition that the highest number stands for.
Held(e) == IF select_valid(e) /\ ~(conf.rollback /\ e.ota_state = "PENDING_VERIFY")
           THEN e.ota_seq ELSE -1
Highest(x, y) == IF x >= y THEN x ELSE y
Named(n) == IF n = -1 THEN find_default_boot_partition ELSE (n - 1) % AppCount
Boots(x, y) == Named(Highest(x, y))

IsNew(e) == conf.rollback /\ e.crc /\ e.ota_state = "NEW"
IsPending(e) == conf.rollback /\ e.crc /\ e.ota_state = "PENDING_VERIFY"

\* What the job has still to write to sector i, all that sector i holds until it is
\* done, and the numbers a power loss may leave there before the last operation.
OpsOf(s, i) == {s[k].to : k \in {j \in DOMAIN s : s[j].op = "sector" /\ s[j].at = i}}
Records(i) == {otadata[i]} \union OpsOf(job, i)
Seen(i) == {Held(otadata[i])} \union {-1 : e \in OpsOf(job, i)}

\* Nothing is promised (there is a factory application then), or x is.
Void(W) == conf.factory /\ Partitions \subseteq W
Kept(x, W) == Void(W) \/ (x \in W /\ Bootable(x))
One(x, W) == (conf.factory /\ W = Partitions) \/ (W = {x} /\ Bootable(x))

\* A record e on trial in sector i is the latest one, and without it the other sector
\* leads home.
TrialOk(e, i) ==
    /\ \A y \in Seen(1 - i) : One(Named(y), home) /\ Named(y) # Slot(e) /\ Named(y) \notin tried
    /\ \A f \in Records(1 - i) : select_valid(f) => f.ota_seq < e.ota_seq

\* An erased or torn record has no check sum; esp_ota_get_state_partition finds the record
\* on trial, for no sector before it names the same slot; a new record may be put on trial;
\* and no application that had its attempt is named by a record, or started in the end.
RecordOk(e) ==
    /\ e.ota_seq >= -1 /\ (e.crc => e.ota_seq >= 0)
    /\ Held(e) # -1 => Slot(e) \notin tried
RecordsOk ==
    \A i \in 0 .. 1 : \A e \in Records(i) : RecordOk(e) /\ (IsNew(e) => TrialOk(e, i))
SlotsApart ==
    \A e \in Records(1), f \in Records(0) :
      (IsNew(e) \/ IsPending(e)) /\ f.crc => Slot(e) # Slot(f)
SeenUntried == \A x \in Seen(0), y \in Seen(1) : Boots(x, y) \notin tried
Common == RecordsOk /\ SlotsApart /\ SeenUntried /\ tried \subseteq OtaSlots

OffInv == pc \in {"off", "reset"} =>
    job = <<>> /\ goal = next /\ Kept(Boots(Held(otadata[0]), Held(otadata[1])), next)

\* The partition the bootloader has selected.
First == IF boot_index = FACTORY_INDEX THEN find_default_boot_partition ELSE boot_index
OnTrialAs(e, i, p) == IsPending(e) => Slot(e) = p /\ TrialOk(e, i)
LoadInv == pc = "load" =>
    /\ goal = next /\ Kept(First, next) /\ boot_index \notin tried
    /\ \A k \in DOMAIN job : job[k].op = "sector" /\ Held(job[k].to) = -1
    /\ \A x \in Seen(0), y \in Seen(1) : Kept(Boots(x, y), next \union home)
    /\ \A i \in 0 .. 1 : \A e \in OpsOf(job, i) : ~IsNew(e) /\ OnTrialAs(e, i, boot_index)
    /\ \A i \in 0 .. 1 : OpsOf(job, i) = {} => ~IsNew(otadata[i]) /\ OnTrialAs(otadata[i], i, boot_index)
    /\ \/ job # <<>> /\ IsPending(Last(job).to)
       \/ job = <<>> /\ \E i \in 0 .. 1 : IsPending(otadata[i])
       \/ \A x \in Seen(0), y \in Seen(1) : Boots(x, y) = First
    /\ ota_has_initial_contents =>
         ~conf.factory /\ \A i \in 0 .. 1 : \A e \in Records(i) : BlankOrBad(e)

\* The number sector i has when the job is done.
IsLast(i) == job # <<>> /\ Last(job).op = "sector" /\ Last(job).at = i
End(i) == IF IsLast(i) THEN Held(Last(job).to)
          ELSE IF OpsOf(job, i) # {} THEN -1 ELSE Held(otadata[i])

RunInv == pc = "run" =>
    /\ \A k \in DOMAIN job : k # Len(job) /\ job[k].op = "sector" => Held(job[k].to) = -1
    /\ \A k \in DOMAIN job : job[k].op = "image" => goal = next /\ One(running, next)
    /\ \A x \in Seen(0), y \in Seen(1) : One(Boots(x, y), next)
    /\ One(Boots(End(0), End(1)), goal) /\ Boots(End(0), End(1)) \notin tried
    /\ job = <<>> => goal = next
    /\ handle # NoHandle => goal = next /\ running \in next
    /\ \A i \in 0 .. 1 : \A e \in Records(i) :
          IsNew(e) => running # Slot(e) /\ goal = {Slot(e)} /\ handle = NoHandle
    /\ \A i \in 0 .. 1 : IsNew(otadata[i]) => job = <<>>
    /\ \A i \in 0 .. 1 : \A e \in OpsOf(job, i) : ~IsPending(e)
    /\ ~(IsPending(otadata[0]) /\ IsPending(otadata[1]))
    /\ \A i \in 0 .. 1 : IsPending(otadata[i]) /\ goal = {running} => Slot(otadata[i]) = running
    /\ \A i \in 0 .. 1 : IsPending(otadata[i]) /\ Slot(otadata[i]) = running =>
          TrialOk(otadata[i], i) /\ handle = NoHandle
          /\ \A k \in DOMAIN job : job[k].op = "sector" /\ job[k].at = i

TrialInv == Common /\ OffInv /\ LoadInv /\ RunInv

(***************************************************************************)
(* Numbers and records.                                                    *)
(***************************************************************************)
\* The remainder of a number that is written with it.
LEMMA ModIs ==
    ASSUME NEW N \in Nat \ {0}, NEW r \in 0 .. N - 1, NEW i \in Int
    PROVE  (i * N + r) % N = r
<1>1. PICK m : m = i * N + r
  OBVIOUS
<1>2. m \in Int
  BY <1>1
<1>3. PICK q \in Int, t \in 0 .. N - 1 : m = q * N + t /\ m % N = t
  <2>1. (m % N) \in 0 .. N - 1 /\ m = (m \div N) * N + (m % N) /\ (m \div N) \in Int
    BY <1>2
  <2>. QED
    BY <2>1
<1>4. (q - i) * N = r - t
  BY <1>1, <1>3
<1>5. PICK d \in Int : d = q - i
  BY <1>3
<1>6. d * N = r - t
  BY <1>4, <1>5
<1>7. d = 0
  <2>1. CASE d >= 1
    <3>1. d * N >= N
      BY ONLY d \in Int, N \in Nat \ {0}, <2>1
    <3>. QED
      BY ONLY <1>3, <1>6, <3>1, r \in 0 .. N - 1, N \in Nat, d * N \in Int
  <2>2. CASE d <= -1
    <3>1. d * N <= -N
      BY ONLY d \in Int, N \in Nat \ {0}, <2>2
    <3>. QED
      BY ONLY <1>3, <1>6, <3>1, r \in 0 .. N - 1, N \in Nat, d * N \in Int
  <2>. QED
    BY <2>1, <2>2
<1>8. t = r
  BY <1>6, <1>7, <1>3
<1>. QED
  BY <1>1, <1>3, <1>8

\* NextSeq stands for the slot, and is not below the number given.
LEMMA NextSeqIs ==
    ASSUME NEW slot \in OtaSlots, NEW seq \in Int, seq <= SeqBound, NEW n, n = NextSeq(slot, seq)
    PROVE  n \in Nat /\ n >= seq /\ (n - 1) % AppCount = slot
<1> DEFINE B == {((slot + 1) % AppCount) + i * AppCount : i \in 0 .. MaxSeq}
           S == {b \in B : b >= seq}
<1>1. (slot + 1) % AppCount \in Nat
  BY OtaAssumption DEF OtaSlots
<1>2. B \subseteq Nat
  <2>1. \A i, a \in Nat : i * a \in Nat
    OBVIOUS
  <2> QED  BY <1>1, <2>1, OtaAssumption
<1>3. ((slot + 1) % AppCount) + MaxSeq * AppCount \in S
  BY <1>1, BoundType, OtaAssumption DEF SeqBound
<1>4. Min(S) \in S
  BY <1>2, <1>3, MinOfNat
<1>5. n \in S
  BY <1>4 DEF NextSeq
<1>6. n \in Nat /\ n >= seq
  BY <1>2, <1>5
<1>7. PICK i \in 0 .. MaxSeq : n = ((slot + 1) % AppCount) + i * AppCount
  BY <1>5
<1>8. PICK N \in Nat \ {0} : N = AppCount /\ slot \in 0 .. N - 1
  BY OtaAssumption DEF OtaSlots
<1>9. i \in Int
  BY <1>7, OtaAssumption
<1>10. CASE slot + 1 < N
  <2>1. (slot + 1) % N = slot + 1
    BY <1>8, <1>10
  <2>2. n - 1 = i * N + slot
    BY <1>7, <1>8, <1>9, <2>1
  <2>3. (i * N + slot) % N = slot
    BY ONLY <1>8, <1>9, ModIs
  <2>. QED
    BY ONLY <1>6, <1>8, <2>2, <2>3
<1>11. CASE slot + 1 = N
  <2>1. (slot + 1) % N = 0
    BY <1>8, <1>11
  <2>2. n - 1 = (i - 1) * N + slot
    BY <1>7, <1>8, <1>9, <1>11, <2>1
  <2>3. i - 1 \in Int
    BY <1>9
  <2>4. ((i - 1) * N + slot) % N = slot
    <3>1. PICK j \in Int : j = i - 1
      BY <2>3
    <3>2. (j * N + slot) % N = slot
      BY ONLY <1>8, <3>1, ModIs
    <3>. QED
      BY ONLY <3>1, <3>2
  <2>. QED
    BY ONLY <1>6, <1>8, <2>2, <2>4
<1>. QED
  BY <1>8, <1>10, <1>11

\* The first number of a slot stands for it.
LEMMA FirstSeqIs ==
    ASSUME NEW p \in OtaSlots
    PROVE  p + 1 \in Nat /\ ((p + 1) - 1) % AppCount = p
  BY OtaAssumption DEF OtaSlots

\* get_active_otadata names the valid record with the highest number.
LEMMA ActiveIs ==
    ASSUME NEW o \in [0 .. 1 -> Entry], NEW a, a = get_active_otadata(o)
    PROVE  \/ a = -1 /\ ~select_valid(o[0]) /\ ~select_valid(o[1])
           \/ /\ a \in 0 .. 1 /\ a # -1 /\ 1 - a \in 0 .. 1 /\ select_valid(o[a])
              /\ select_valid(o[1 - a]) => o[1 - a].ota_seq <= o[a].ota_seq
<1>1. PICK valid : valid = {i \in 0 .. 1 : select_valid(o[i])}
  OBVIOUS
<1>2. o[0].ota_seq \in Int /\ o[1].ota_seq \in Int
  BY DEF Entry, Seqs
<1>3. a = CASE valid = {}     -> -1
          [] valid = 0 .. 1 -> IF o[0].ota_seq >= o[1].ota_seq THEN 0 ELSE 1
          [] OTHER          -> CHOOSE i \in valid : TRUE
  BY <1>1 DEF get_active_otadata
<1>4. CASE valid = {}
  BY <1>1, <1>3, <1>4
<1>5. CASE valid = 0 .. 1
  <2>1. valid # {}
    BY <1>5
  <2>2. a = IF o[0].ota_seq >= o[1].ota_seq THEN 0 ELSE 1
    BY <1>3, <1>5, <2>1
  <2>3. select_valid(o[0]) /\ select_valid(o[1])
    BY <1>1, <1>5
  <2>. QED
    BY <1>2, <2>2, <2>3
<1>6. CASE valid # {} /\ valid # 0 .. 1
  <2>1. a = CHOOSE i \in valid : TRUE
    BY <1>3, <1>6
  <2>2. a \in valid
    BY <1>6, <2>1
  <2>3. a \in 0 .. 1 /\ select_valid(o[a])
    BY <1>1, <2>2
  <2>4. ~(select_valid(o[0]) /\ select_valid(o[1]))
    BY <1>1, <1>6
  <2>. QED
    BY <2>3, <2>4
<1>. QED
  BY <1>4, <1>5, <1>6

\* What Held and Named are, and what a slot is in these terms.
LEMMA HeldIs ==
    ASSUME NEW e \in Entry, RecordOk(e)
    PROVE  /\ Held(e) \in Int /\ Held(e) >= -1 /\ e.ota_seq \in Int
           /\ Held(e) # -1 => select_valid(e) /\ Held(e) = e.ota_seq /\ Named(Held(e)) = Slot(e)
           /\ select_valid(e) => e.crc /\ e.ota_seq >= 0
           /\ select_valid(e) /\ ~IsPending(e) => Held(e) = e.ota_seq
           /\ IsPending(e) => Held(e) = -1 /\ select_valid(e)
           /\ IsNew(e) => Held(e) = e.ota_seq /\ select_valid(e) /\ Held(e) # -1
<1>1. e.ota_seq \in Int
  BY DEF Entry, Seqs
<1>2. select_valid(e) => e.crc /\ e.ota_seq # -1 /\ e.ota_seq >= 0
  BY DEF select_valid, select_invalid, UINT32_MAX, RecordOk
<1>3. IsPending(e) => select_valid(e)
  BY <1>1 DEF select_valid, select_invalid, UINT32_MAX, RecordOk, IsPending
<1>4. IsNew(e) => select_valid(e) /\ ~IsPending(e)
  BY <1>1 DEF select_valid, select_invalid, UINT32_MAX, RecordOk, IsPending, IsNew
<1>5. Held(e) = IF select_valid(e) /\ ~IsPending(e) THEN e.ota_seq ELSE -1
  BY <1>2 DEF Held, IsPending
<1>6. Held(e) # -1 => Named(Held(e)) = Slot(e)
  BY <1>5 DEF Named, Slot
<1>. QED
  BY <1>1, <1>2, <1>3, <1>4, <1>5, <1>6

\* An erased or torn record is neither selected nor on trial.
LEMMA BlankIs ==
    ASSUME NEW e, ~e.crc
    PROVE  Held(e) = -1 /\ ~IsNew(e) /\ ~IsPending(e) /\ ~select_valid(e)
  BY DEF Held, IsNew, IsPending, select_valid

\* The same for the record of an erased sector.
LEMMA ErasedIs ==
    /\ Held(Erased) = -1 /\ ~IsNew(Erased) /\ ~IsPending(Erased) /\ ~select_valid(Erased)
    /\ RecordOk(Erased) /\ BlankOrBad(Erased) /\ Erased.crc = FALSE
<1>1. Erased.crc = FALSE /\ Erased.ota_seq = -1
  BY DEF Erased, UINT32_MAX
<1>2. Held(Erased) = -1 /\ ~IsNew(Erased) /\ ~IsPending(Erased) /\ ~select_valid(Erased)
  BY <1>1 DEF Held, IsNew, IsPending, select_valid
<1>. QED
  BY <1>1, <1>2 DEF RecordOk, BlankOrBad

\* Partitions and slots.
LEMMA SlotsAre ==
    /\ 0 \in OtaSlots /\ OtaSlots \subseteq Partitions /\ FACTORY_INDEX \in Partitions
    /\ FACTORY_INDEX \notin OtaSlots /\ find_default_boot_partition \in Partitions
    /\ conf.factory => find_default_boot_partition = FACTORY_INDEX
    /\ ~conf.factory => find_default_boot_partition = 0
    /\ \A p \in Partitions : Partitions # {p}
<1>1. 0 \in OtaSlots /\ FACTORY_INDEX \notin OtaSlots /\ FACTORY_INDEX = -1
  BY OtaAssumption DEF OtaSlots, FACTORY_INDEX
<1>. QED
  BY <1>1 DEF Partitions, find_default_boot_partition

(***************************************************************************)
(* Jobs.                                                                   *)
(***************************************************************************)
\* A job without operations.
LEMMA OpsNone == \A i : OpsOf(<<>>, i) = {}
  BY DEF OpsOf

\* A job of one operation.
LEMMA OpsOne ==
    ASSUME NEW h, NEW i
    PROVE  OpsOf(<<h>>, i) = IF h.op = "sector" /\ h.at = i THEN {h.to} ELSE {}
  BY DEF OpsOf

\* Two jobs, one after the other.
LEMMA OpsCat ==
    ASSUME NEW S, NEW s \in Seq(S), NEW t \in Seq(S), NEW i
    PROVE  OpsOf(s \o t, i) = OpsOf(s, i) \union OpsOf(t, i)
<1>1. PICK m \in Nat, n \in Nat : /\ m = Len(s) /\ DOMAIN s = 1 .. m
                                  /\ n = Len(t) /\ DOMAIN t = 1 .. n
  OBVIOUS
<1>2. PICK u : u = s \o t
  OBVIOUS
<1>3. DOMAIN u = 1 .. m + n /\ (\A k \in 1 .. m : u[k] = s[k])
      /\ \A k \in 1 .. n : m + k \in 1 .. m + n /\ u[m + k] = t[k]
  BY <1>1, <1>2
<1>4. ASSUME NEW e \in OpsOf(s, i) PROVE e \in OpsOf(u, i)
  <2>1. PICK k \in 1 .. m : s[k].op = "sector" /\ s[k].at = i /\ e = s[k].to
    BY <1>1, <1>4 DEF OpsOf
  <2>2. k \in DOMAIN u /\ u[k].op = "sector" /\ u[k].at = i /\ e = u[k].to
    BY <1>1, <1>3, <2>1
  <2>. QED
    BY <2>2 DEF OpsOf
<1>5. ASSUME NEW e \in OpsOf(t, i) PROVE e \in OpsOf(u, i)
  <2>1. PICK k \in 1 .. n : t[k].op = "sector" /\ t[k].at = i /\ e = t[k].to
    BY <1>1, <1>5 DEF OpsOf
  <2>2. m + k \in DOMAIN u /\ u[m + k].op = "sector" /\ u[m + k].at = i /\ e = u[m + k].to
    BY <1>3, <2>1
  <2>. QED
    BY <2>2 DEF OpsOf
<1>6. ASSUME NEW e \in OpsOf(u, i) PROVE e \in OpsOf(s, i) \union OpsOf(t, i)
  <2>1. PICK k \in 1 .. m + n : u[k].op = "sector" /\ u[k].at = i /\ e = u[k].to
    BY <1>3, <1>6 DEF OpsOf
  <2>2. CASE k <= m
    <3>1. k \in DOMAIN s /\ u[k] = s[k]
      BY <1>1, <1>3, <2>2
    <3>. QED
      BY <2>1, <3>1 DEF OpsOf
  <2>3. CASE k > m
    <3>1. PICK j \in 1 .. n : k = m + j
      <4>1. k - m \in 1 .. n /\ k = m + (k - m)
        BY <1>1, <2>3
      <4>. QED
        BY <4>1
    <3>2. j \in DOMAIN t /\ u[k] = t[j]
      BY <1>1, <1>3, <3>1
    <3>. QED
      BY <2>1, <3>2 DEF OpsOf
  <2>. QED
    BY <1>1, <2>2, <2>3
<1>. QED
  BY <1>2, <1>4, <1>5, <1>6

\* A job, its first operation and the rest.
OpAt(h, i) == h.op = "sector" /\ h.at = i
Split(S, s, h, t) == s \in Seq(S) /\ s # <<>> /\ h = Head(s) /\ t = Tail(s)

\* A job and what is left of it after one operation.
LEMMA OpsTail ==
    ASSUME NEW S, NEW s, NEW h, NEW t, Split(S, s, h, t)
    PROVE  \A i : OpsOf(s, i) = (IF OpAt(h, i) THEN {h.to} ELSE {}) \union OpsOf(t, i)
<1>. TAKE i
<1>1. PICK r : r = <<h>>
  OBVIOUS
<1>2. s = r \o t /\ r \in Seq(S) /\ t \in Seq(S)
  BY <1>1 DEF Split
<1>3. OpsOf(r \o t, i) = OpsOf(r, i) \union OpsOf(t, i)
  BY ONLY <1>2, OpsCat
<1>4. OpsOf(r, i) = IF OpAt(h, i) THEN {h.to} ELSE {}
  BY <1>1, OpsOne DEF OpAt
<1>. QED
  BY <1>2, <1>3, <1>4

\* A record that is rewritten.
LEMMA OpsRewrite ==
    ASSUME NEW i \in 0 .. 1, NEW j \in 0 .. 1, NEW e
    PROVE  OpsOf(rewrite_ota_seq(j, e), i) = IF i = j THEN {Erased, e} ELSE {}
<1>1. PICK a, b : a = SetSector(j, Erased) /\ b = SetSector(j, e)
  OBVIOUS
<1>2. a.op = "sector" /\ a.at = j /\ a.to = Erased /\ b.op = "sector" /\ b.at = j /\ b.to = e
  BY <1>1 DEF SetSector
<1>3. rewrite_ota_seq(j, e) = <<a, b>>
  BY <1>1 DEF rewrite_ota_seq
<1>4. PICK s : s = <<a, b>>
  OBVIOUS
<1>5. DOMAIN s = 1 .. 2 /\ s[1] = a /\ s[2] = b
  BY <1>4
<1>6. OpsOf(s, i) = IF i = j THEN {Erased, e} ELSE {}
  BY <1>2, <1>5 DEF OpsOf
<1>. QED
  BY <1>3, <1>4, <1>6

\* An operation of a job and its place in it.
LEMMA OpsIs ==
    ASSUME NEW s, NEW i, NEW e
    PROVE  e \in OpsOf(s, i) <=>
             \E k \in DOMAIN s : s[k].op = "sector" /\ s[k].at = i /\ e = s[k].to
  BY DEF OpsOf

\* The types of what is in otadata and what the job writes there.
LEMMA RecordsType ==
    ASSUME OtaInv, NEW i \in 0 .. 1
    PROVE  Records(i) \subseteq Entry /\ OpsOf(job, i) \subseteq Records(i) /\ otadata[i] \in Records(i)
<1>1. ASSUME NEW e \in OpsOf(job, i) PROVE e \in Entry
  <2>1. PICK k \in DOMAIN job : job[k].op = "sector" /\ e = job[k].to
    BY <1>1, OpsIs
  <2>2. job[k] \in Allowed
    BY DEF OtaInv, RunningInv
  <2>3. job[k] \in SectorOp
    BY <2>1, <2>2 DEF Allowed, ImageOp
  <2>. QED
    BY <2>1, <2>3 DEF SectorOp
<1>2. otadata[i] \in Entry
  BY DEF OtaInv, TypeOK
<1>. QED
  BY <1>1, <1>2 DEF Records

\* What depends on the build alone does not change.
Same ==
    /\ \A e : Held(e)' = Held(e) /\ (IsNew(e)' <=> IsNew(e)) /\ (IsPending(e)' <=> IsPending(e))
    /\ \A n : Named(n)' = Named(n)
    /\ \A x, y : Boots(x, y)' = Boots(x, y)

\* They depend on nothing else.
LEMMA SameIs == ASSUME UNCHANGED conf PROVE Same
  BY DEF Same, Held, IsNew, IsPending, Named, Boots, find_default_boot_partition

\* The set of a sector's numbers, spelled out.
LEMMA SeenIs ==
    ASSUME NEW i
    PROVE  /\ \A x : x \in Seen(i) <=> x = Held(otadata[i]) \/ (x = -1 /\ OpsOf(job, i) # {})
           /\ OpsOf(job, i) = {} => Seen(i) = {Held(otadata[i])} /\ Records(i) = {otadata[i]}
  BY DEF Seen, Records

\* What may be started stays so if no image changes.
LEMMA OneStays ==
    ASSUME UNCHANGED conf, NEW x, image' = image \/ Bootable(x)'
    PROVE  /\ \A W : One(x, W) => One(x, W)'
           /\ \A W : Kept(x, W) => Kept(x, W)'
  BY DEF One, Kept, Void, Bootable, Partitions, OtaSlots

(***************************************************************************)
(* Steps that leave less in the sectors, and less to be written.           *)
(***************************************************************************)
\* Every record was there, or to be written, before, or is torn.
NoMore == \A i \in 0 .. 1 : \A e \in Records(i)' : e \in Records(i) \/ (~e.crc /\ e.ota_seq >= -1)

\* The trial of a record that stays, while the other sector holds no more than before.
LEMMA TrialStays ==
    ASSUME UNCHANGED <<conf, home, image>>, tried' \subseteq tried, NoMore,
           NEW i \in 0 .. 1, NEW e, TrialOk(e, i), Seen(1 - i)' \subseteq Seen(1 - i)
    PROVE  TrialOk(e, i)'
<1>1. Same
  BY SameIs
<1>2. ASSUME NEW y \in Seen(1 - i)'
      PROVE  (One(Named(y), home) /\ Named(y) # Slot(e) /\ Named(y) \notin tried)'
  <2>1. One(Named(y), home) /\ Named(y) # Slot(e) /\ Named(y) \notin tried
    BY <1>2 DEF TrialOk
  <2>2. PICK n, w : n = Named(y) /\ w = home
    OBVIOUS
  <2>3. Named(y)' = n /\ home' = w
    BY <1>1, <2>2 DEF Same
  <2>4. One(n, w)'
    BY <2>1, <2>2, OneStays
  <2>5. One(Named(y), home)'
    BY <2>3, <2>4 DEF One
  <2>. QED
    BY <2>1, <2>2, <2>3, <2>5
<1>3. ASSUME NEW f \in Records(1 - i)', select_valid(f) PROVE f.ota_seq < e.ota_seq
  <2>1. f \in Records(1 - i)
    BY <1>3 DEF NoMore, select_valid
  <2>. QED
    BY <1>3, <2>1 DEF TrialOk
<1>. QED
  BY <1>2, <1>3 DEF TrialOk

\* The records stay in order while they become fewer.
LEMMA RecordsStay ==
    ASSUME UNCHANGED <<conf, home>>, tried' \subseteq tried, RecordsOk, NoMore,
           \A i \in 0 .. 1 : \A e \in Records(i)' :
              IsNew(e) => image' = image /\ Seen(1 - i)' \subseteq Seen(1 - i)
    PROVE  RecordsOk'
<1>1. Same
  BY SameIs
<1>2. ASSUME NEW i \in 0 .. 1, NEW e \in Records(i)'
      PROVE  RecordOk(e)' /\ (IsNew(e)' => TrialOk(e, i)')
  <2>1. CASE e \in Records(i)
    <3>1. RecordOk(e) /\ (IsNew(e) => TrialOk(e, i))
      BY <2>1 DEF RecordsOk
    <3>2. RecordOk(e)'
      BY <1>1, <3>1 DEF RecordOk, Same
    <3>3. ASSUME IsNew(e) PROVE TrialOk(e, i)'
      BY <1>2, <3>1, <3>3, TrialStays
    <3>. QED
      BY <1>1, <3>2, <3>3 DEF Same
  <2>2. CASE ~e.crc /\ e.ota_seq >= -1
    <3>1. Held(e) = -1 /\ ~IsNew(e)
      BY <2>2, BlankIs
    <3>2. RecordOk(e)'
      BY <1>1, <2>2, <3>1 DEF RecordOk, Same
    <3>. QED
      BY <1>1, <3>1, <3>2 DEF Same
  <2>. QED
    BY <1>2, <2>1, <2>2 DEF NoMore
<1>. QED
  BY <1>2 DEF RecordsOk

\* So do the slots they name.
LEMMA ApartStays ==
    ASSUME UNCHANGED conf, SlotsApart, NoMore
    PROVE  SlotsApart'
<1>1. Same
  BY SameIs
<1>2. ASSUME NEW e \in Records(1)', NEW f \in Records(0)', IsNew(e)' \/ IsPending(e)', f.crc
      PROVE  Slot(e) # Slot(f)
  <2>1. IsNew(e) \/ IsPending(e)
    BY <1>1, <1>2 DEF Same
  <2>2. e.crc
    BY <2>1 DEF IsNew, IsPending
  <2>3. e \in Records(1) /\ f \in Records(0)
    BY <1>2, <2>2 DEF NoMore
  <2>. QED
    BY <1>2, <2>1, <2>3 DEF SlotsApart
<1>. QED
  BY <1>2 DEF SlotsApart

\* So does what is started.
LEMMA UntriedStays ==
    ASSUME UNCHANGED conf, tried' \subseteq tried, SeenUntried,
           Seen(0)' \subseteq Seen(0), Seen(1)' \subseteq Seen(1)
    PROVE  SeenUntried'
  BY SameIs DEF SeenUntried, Same

(***************************************************************************)
(* A flash operation.                                                      *)
(***************************************************************************)
\* How a job relates to its first operation and the rest.
Ahead(s, h, t) ==
    /\ \A i : OpsOf(s, i) = (IF OpAt(h, i) THEN {h.to} ELSE {}) \union OpsOf(t, i)
    /\ (t = <<>> <=> Len(s) = 1) /\ h = s[1] /\ 1 \in DOMAIN s
    /\ t = <<>> => Last(s) = h
    /\ t # <<>> => Last(t) = Last(s)
    /\ \A k \in DOMAIN t : /\ k + 1 \in DOMAIN s /\ t[k] = s[k + 1]
                          /\ (k = Len(t) <=> k + 1 = Len(s))

\* The last operation of a job, and the places of the operations, when the first is made.
LEMMA LastTail ==
    ASSUME NEW S, NEW s, NEW h, NEW t, Split(S, s, h, t)
    PROVE  /\ t \in Seq(S) /\ (t = <<>> <=> Len(s) = 1)
           /\ t = <<>> => Last(s) = Head(s) /\ Last(s) = s[1] /\ 1 = Len(s)
           /\ t # <<>> => Last(t) = Last(s) /\ 1 # Len(s)
           /\ \A k \in DOMAIN t : /\ k + 1 \in DOMAIN s /\ t[k] = s[k + 1]
                                 /\ (k = Len(t) <=> k + 1 = Len(s))
<1>0. s \in Seq(S) /\ s # <<>> /\ t = Tail(s)
  BY DEF Split
<1>1. PICK n \in Nat : n = Len(s) /\ DOMAIN s = 1 .. n /\ n >= 1
  BY <1>0
<1>2. t \in Seq(S) /\ Len(t) = n - 1 /\ DOMAIN t = 1 .. n - 1
  BY <1>0, <1>1
<1>3. \A k \in 1 .. n - 1 : t[k] = s[k + 1]
  BY <1>0, <1>1
<1>4. t = <<>> <=> n = 1
  <2>1. t = <<>> => Len(t) = 0
    OBVIOUS
  <2>2. Len(t) = 0 => t = <<>>
    BY <1>2
  <2>. QED
    BY <1>1, <1>2, <2>1, <2>2
<1>5. n # 1 => t[n - 1] = s[n]
  <2>1. n # 1 => n - 1 \in 1 .. n - 1 /\ (n - 1) + 1 = n
    BY <1>1
  <2>. QED
    BY <1>3, <2>1
<1>6. Head(s) = s[1]
  BY <1>0
<1>7. \A k \in 1 .. n - 1 : k + 1 \in 1 .. n /\ (k = n - 1 <=> k + 1 = n)
  BY <1>1
<1>. QED
  BY <1>1, <1>2, <1>3, <1>4, <1>5, <1>6, <1>7 DEF Last

\* The facts about a job and its rest, together.
LEMMA SplitIs ==
    ASSUME NEW S, NEW s, NEW h, NEW t, Split(S, s, h, t) PROVE Ahead(s, h, t)
<1>1. s \in Seq(S) /\ s # <<>> /\ h = Head(s) /\ t = Tail(s) /\ h = s[1] /\ 1 \in DOMAIN s
  BY DEF Split
<1>2. \A i : OpsOf(s, i) = (IF OpAt(h, i) THEN {h.to} ELSE {}) \union OpsOf(t, i)
  BY OpsTail
<1>3. /\ t \in Seq(S) /\ (t = <<>> <=> Len(s) = 1)
      /\ t = <<>> => Last(s) = Head(s)
      /\ t # <<>> => Last(t) = Last(s)
      /\ \A k \in DOMAIN t : /\ k + 1 \in DOMAIN s /\ t[k] = s[k + 1]
                            /\ (k = Len(t) <=> k + 1 = Len(s))
  BY LastTail
<1>. QED
  BY <1>1, <1>2, <1>3 DEF Ahead

\* What one flash operation changes.
LEMMA FlashFacts ==
    ASSUME OtaInv, FlashStep, NEW h, h = Head(job)
    PROVE  /\ job # <<>> /\ h \in Allowed /\ h = job[1] /\ 1 \in DOMAIN job
           /\ h.op = "sector" => h.at \in 0 .. 1 /\ image' = image
           /\ h.op # "sector" => h.op = "image" /\ otadata' = otadata
           /\ \A i \in 0 .. 1 : otadata'[i] = IF OpAt(h, i) THEN h.to ELSE otadata[i]
           /\ \A i \in 0 .. 1 : OpsOf(job, i) = (IF OpAt(h, i) THEN {h.to} ELSE {}) \union OpsOf(job, i)'
           /\ Ahead(job, h, job')
           /\ UNCHANGED <<conf, pc, handle, boot_index, ota_has_initial_contents, running, home, goal, tried>>
<1>1. job # <<>> /\ job' = Tail(job) /\ Apply(h, h.to)
      /\ UNCHANGED <<conf, pc, handle, boot_index, ota_has_initial_contents, running, home, goal, tried>>
  BY DEF FlashStep, boot
<1>2. job \in Seq(Allowed)
  BY DEF OtaInv, RunningInv
<1>3. h \in Allowed /\ h = job[1] /\ 1 \in DOMAIN job
  BY <1>1, <1>2
<1>0. Ahead(job, h, job')
  <2>1. PICK S, s, t : S = Allowed /\ s = job /\ t = job'
    OBVIOUS
  <2>2. Split(S, s, h, t)
    BY <1>1, <1>2, <2>1 DEF Split
  <2>3. Ahead(s, h, t)
    BY ONLY <2>2, SplitIs
  <2>. QED
    BY <2>1, <2>3
<1>4. ASSUME NEW i \in 0 .. 1
      PROVE  OpsOf(job, i) = (IF OpAt(h, i) THEN {h.to} ELSE {}) \union OpsOf(job, i)'
  <2>1. Ahead(job, h, job')
    BY <1>0
  <2>2. PICK t : t = job'
    OBVIOUS
  <2>3. OpsOf(job, i)' = OpsOf(t, i)
    BY <2>2 DEF OpsOf
  <2>. QED
    BY <2>1, <2>2, <2>3 DEF Ahead
<1>5. otadata \in [0 .. 1 -> Entry]
  BY DEF OtaInv, TypeOK
<1>6. CASE h \in SectorOp
  <2>1. h.op = "sector" /\ h.at \in 0 .. 1
    BY <1>6 DEF SectorOp
  <2>2. otadata' = [otadata EXCEPT ![h.at] = h.to] /\ image' = image
    BY <1>1, <2>1 DEF Apply
  <2>3. \A i \in 0 .. 1 : otadata'[i] = IF OpAt(h, i) THEN h.to ELSE otadata[i]
    BY <1>5, <2>1, <2>2 DEF OpAt
  <2>. QED
    BY <1>0, <1>1, <1>3, <1>4, <2>1, <2>2, <2>3
<1>7. CASE h \in ImageOp
  <2>1. h.op = "image"
    BY <1>7 DEF ImageOp
  <2>2. otadata' = otadata
    BY <1>1, <2>1 DEF Apply
  <2>. QED
    BY <1>0, <1>1, <1>3, <1>4, <2>1, <2>2 DEF OpAt
<1>. QED
  BY <1>3, <1>6, <1>7 DEF Allowed

\* A flash operation leaves no more than there was, or was to be written.
LEMMA FlashLess ==
    ASSUME OtaInv, FlashStep, NEW h, h = Head(job)
    PROVE  /\ NoMore
           /\ \A i \in 0 .. 1 : Records(i)' \subseteq Records(i)
           /\ \A i \in 0 .. 1 : ~OpAt(h, i) \/ Held(h.to) = -1 => Seen(i)' \subseteq Seen(i)
<1>1. Same
  BY FlashFacts, SameIs
<1>2. ASSUME NEW i \in 0 .. 1 PROVE Records(i)' \subseteq Records(i)
  <2>1. /\ otadata'[i] = IF OpAt(h, i) THEN h.to ELSE otadata[i]
        /\ OpsOf(job, i) = (IF OpAt(h, i) THEN {h.to} ELSE {}) \union OpsOf(job, i)'
    BY FlashFacts
  <2>. QED
    BY <2>1 DEF Records
<1>3. ASSUME NEW i \in 0 .. 1, ~OpAt(h, i) \/ Held(h.to) = -1 PROVE Seen(i)' \subseteq Seen(i)
  <2>1. /\ otadata'[i] = IF OpAt(h, i) THEN h.to ELSE otadata[i]
        /\ OpsOf(job, i) = (IF OpAt(h, i) THEN {h.to} ELSE {}) \union OpsOf(job, i)'
    BY FlashFacts
  <2>2. PICK u, v : u = otadata'[i] /\ v = otadata[i]
    OBVIOUS
  <2>3. Held(otadata[i])' = Held(u) /\ Held(otadata[i]) = Held(v)
    BY <1>1, <2>2 DEF Same, Held
  <2>4. ASSUME NEW x \in Seen(i)' PROVE x \in Seen(i)
    <3>1. x = Held(u) \/ (x = -1 /\ OpsOf(job, i)' # {})
      BY <2>3, <2>4 DEF Seen
    <3>2. CASE OpAt(h, i)
      <4>1. x = -1 /\ OpsOf(job, i) # {}
        BY <1>3, <2>1, <2>2, <3>1, <3>2
      <4>. QED
        BY <4>1, SeenIs
    <3>3. CASE ~OpAt(h, i)
      <4>1. x = Held(v) \/ (x = -1 /\ OpsOf(job, i) # {})
        BY <2>1, <2>2, <3>1, <3>3
      <4>. QED
        BY <2>3, <4>1, SeenIs
    <3>. QED
      BY <3>2, <3>3
  <2>. QED
    BY <2>4
<1>. QED
  BY <1>2, <1>3 DEF NoMore

\* The bootloader gives up a record, or puts one on trial.
LEMMA FlashLoad ==
    ASSUME OtaInv, TrialInv, FlashStep, pc = "load"
    PROVE  TrialInv'
<1>1. PICK h : h = Head(job)
  OBVIOUS
<1>2. Common /\ LoadInv /\ Same /\ UNCHANGED conf
  BY <1>1, FlashFacts, SameIs DEF TrialInv
<1>3. h.op = "sector" /\ h.at \in 0 .. 1 /\ Held(h.to) = -1 /\ image' = image
  BY <1>1, <1>2, FlashFacts DEF LoadInv
<1>4. NoMore /\ (\A i \in 0 .. 1 : Records(i)' \subseteq Records(i) /\ Seen(i)' \subseteq Seen(i))
  BY <1>1, <1>3, FlashLess
<1>5. UNCHANGED <<conf, pc, handle, boot_index, ota_has_initial_contents, running, home, goal, tried>>
  BY <1>1, FlashFacts
<1>6. Common'
  <2>1. RecordsOk'
    BY <1>2, <1>3, <1>4, <1>5, RecordsStay DEF Common
  <2>2. SlotsApart'
    BY <1>2, <1>4, ApartStays DEF Common
  <2>3. SeenUntried'
    BY <1>2, <1>4, <1>5, UntriedStays DEF Common
  <2>. QED
    BY <1>2, <1>5, <2>1, <2>2, <2>3 DEF Common, OtaSlots
<1>7. next' = next /\ First' = First
  BY <1>2, <1>5 DEF FlashStep, LoadInv, First, find_default_boot_partition
<1>8. PICK s, t : s = job /\ t = job'
  OBVIOUS
<1>9. s # <<>>
  BY <1>8 DEF FlashStep
<1>10. /\ (t = <<>> <=> Len(s) = 1)
       /\ t = <<>> => Last(s) = h
       /\ t # <<>> => Last(t) = Last(s)
       /\ \A k \in DOMAIN t : k + 1 \in DOMAIN s /\ t[k] = s[k + 1]
  BY <1>1, <1>8, FlashFacts DEF Ahead
<1>11. \A i \in 0 .. 1 : /\ otadata'[i] = IF OpAt(h, i) THEN h.to ELSE otadata[i]
                         /\ OpsOf(job, i) = (IF OpAt(h, i) THEN {h.to} ELSE {}) \union OpsOf(job, i)'
  BY <1>1, FlashFacts
<1>12. (goal = next /\ Kept(First, next) /\ boot_index \notin tried)'
  <2>1. PICK x, w : x = First /\ w = next
    OBVIOUS
  <2>2. Kept(x, w)'
    BY <1>2, <1>3, <1>5, <2>1, OneStays DEF LoadInv
  <2>3. Kept(First, next)'
    BY <1>7, <2>1, <2>2 DEF Kept, Void
  <2>. QED
    BY <1>2, <1>5, <1>7, <2>3 DEF LoadInv
<1>13. ASSUME NEW k \in DOMAIN t PROVE t[k].op = "sector" /\ Held(t[k].to)' = -1
  BY <1>2, <1>8, <1>10 DEF LoadInv, Same
<1>14. ASSUME NEW x \in Seen(0)', NEW y \in Seen(1)' PROVE Kept(Boots(x, y), next \union home)'
  <2>0. x \in Seen(0) /\ y \in Seen(1)
    BY <1>4, <1>14
  <2>1. Kept(Boots(x, y), next \union home)
    BY <1>2, <2>0 DEF LoadInv
  <2>2. PICK b, w : b = Boots(x, y) /\ w = next \union home
    OBVIOUS
  <2>3. Kept(b, w)'
    BY <1>3, <1>5, <2>1, <2>2, OneStays
  <2>4. Boots(x, y)' = b /\ (next \union home)' = w
    BY <1>2, <1>5, <1>7, <2>2 DEF Same
  <2>. QED
    BY <2>3, <2>4 DEF Kept, Void
<1>15. ASSUME NEW i \in 0 .. 1, NEW e, ~IsNew(e), OnTrialAs(e, i, boot_index)
       PROVE  ~IsNew(e)' /\ OnTrialAs(e, i, boot_index)'
  <2>1. CASE IsPending(e)
    <3>1. Slot(e) = boot_index /\ TrialOk(e, i)
      BY <1>15, <2>1 DEF OnTrialAs
    <3>2. 1 - i \in 0 .. 1
      OBVIOUS
    <3>3. Seen(1 - i)' \subseteq Seen(1 - i)
      BY <1>4, <3>2
    <3>4. TrialOk(e, i)'
      BY <1>3, <1>4, <1>5, <3>1, <3>3, TrialStays
    <3>. QED
      BY <1>2, <1>5, <1>15, <3>1, <3>4 DEF Same, OnTrialAs
  <2>2. CASE ~IsPending(e)
    BY <1>2, <1>15, <2>2 DEF Same, OnTrialAs
  <2>. QED
    BY <2>1, <2>2
<1>16. ASSUME NEW i \in 0 .. 1, NEW e \in OpsOf(job, i)'
       PROVE  ~IsNew(e)' /\ OnTrialAs(e, i, boot_index)'
  <2>1. e \in OpsOf(job, i)
    BY <1>11, <1>16
  <2>2. ~IsNew(e) /\ OnTrialAs(e, i, boot_index)
    BY <1>2, <2>1 DEF LoadInv
  <2>. QED
    BY <1>15, <2>2
<1>17. ASSUME NEW i \in 0 .. 1, OpsOf(job, i)' = {}, NEW e, e = otadata'[i]
       PROVE  ~IsNew(e)' /\ OnTrialAs(e, i, boot_index)'
  <2>1. e \in OpsOf(job, i) \/ (OpsOf(job, i) = {} /\ e = otadata[i])
    BY <1>11, <1>17
  <2>2. ~IsNew(e) /\ OnTrialAs(e, i, boot_index)
    BY <1>2, <2>1 DEF LoadInv
  <2>. QED
    BY <1>15, <2>2
<1>18. \/ job' # <<>> /\ IsPending(Last(job).to)'
       \/ job' = <<>> /\ \E i \in 0 .. 1 : IsPending(otadata[i])'
       \/ \A x \in Seen(0)', y \in Seen(1)' : Boots(x, y)' = First'
  <2>1. CASE IsPending(Last(job).to)
    <3>1. CASE t = <<>>
      <4>1. IsPending(h.to) /\ OpAt(h, h.at)
        BY <1>3, <1>8, <1>10, <2>1, <3>1 DEF OpAt
      <4>0. PICK e : e = h.to
        OBVIOUS
      <4>2. PICK i \in 0 .. 1 : i = h.at /\ e = h.to /\ otadata'[i] = e
        BY <1>3, <1>11, <4>0, <4>1
      <4>3. IsPending(e)'
        BY <1>2, <4>1, <4>2 DEF Same
      <4>4. IsPending(otadata[i])'
        BY <4>2, <4>3 DEF IsPending
      <4>. QED
        BY <1>8, <3>1, <4>4
    <3>2. CASE t # <<>>
      <4>1. PICK e : e = Last(job).to
        OBVIOUS
      <4>2. Last(job)'.to = e
        BY <1>8, <1>10, <3>2, <4>1
      <4>3. IsPending(e)'
        BY <1>2, <2>1, <4>1 DEF Same
      <4>4. IsPending(Last(job).to)'
        BY <4>2, <4>3 DEF IsPending
      <4>. QED
        BY <1>8, <3>2, <4>4
    <3>. QED
      BY <3>1, <3>2
  <2>2. CASE \A x \in Seen(0), y \in Seen(1) : Boots(x, y) = First
    BY <1>2, <1>4, <1>7, <2>2 DEF Same
  <2>. QED
    BY <1>2, <1>8, <1>9, <2>1, <2>2 DEF LoadInv
<1>19. ota_has_initial_contents' =>
         ~conf'.factory /\ \A i \in 0 .. 1 : \A e \in Records(i)' : BlankOrBad(e)
  BY <1>2, <1>4, <1>5 DEF LoadInv
<1>20. LoadInv'
  BY <1>8, <1>12, <1>13, <1>14, <1>16, <1>17, <1>18, <1>19 DEF LoadInv
<1>21. OffInv' /\ RunInv'
  BY <1>5 DEF OffInv, RunInv
<1>. QED
  BY <1>6, <1>20, <1>21 DEF TrialInv

(***************************************************************************)
(* A flash operation of the application.                                   *)
(***************************************************************************)
\* What a sector holds after a step, in terms of the build before it.
LEMMA SectorIs ==
    ASSUME UNCHANGED conf, NEW i
    PROVE  /\ Held(otadata[i])' = Held(otadata'[i])
           /\ (IsNew(otadata[i])' <=> IsNew(otadata'[i]))
           /\ (IsPending(otadata[i])' <=> IsPending(otadata'[i]))
  BY DEF Held, IsNew, IsPending

\* What is promised and is the running application stays so while its image does.
LEMMA OneSame ==
    ASSUME UNCHANGED <<conf, running>>, Bootable(running)', NEW x, NEW W, One(running, W), One(x, W)
    PROVE  One(x, W)'
<1>1. CASE conf.factory /\ W = Partitions
  BY <1>1 DEF One, Partitions, OtaSlots
<1>2. CASE W = {running} /\ W = {x}
  BY <1>2 DEF One, Bootable
<1>3. CASE W = {running} /\ conf.factory /\ W = Partitions
  BY <1>3 DEF One, Partitions, OtaSlots
<1>. QED
  BY <1>1, <1>2, <1>3 DEF One

\* What holds of a job holds of the rest of it.
LEMMA JobTail ==
    ASSUME UNCHANGED conf, NEW h, Ahead(job, h, job'),
           \A k \in DOMAIN job : k # Len(job) /\ job[k].op = "sector" => Held(job[k].to) = -1
    PROVE  (\A k \in DOMAIN job : k # Len(job) /\ job[k].op = "sector" => Held(job[k].to) = -1)'
<1>1. Same
  BY SameIs
<1>2. PICK s, t : s = job /\ t = job'
  OBVIOUS
<1>3. ASSUME NEW k \in DOMAIN t, k # Len(t), t[k].op = "sector" PROVE Held(t[k].to)' = -1
  <2>1. PICK e : e = t[k].to
    OBVIOUS
  <2>2. Held(e) = -1
    BY <1>2, <1>3, <2>1 DEF Ahead
  <2>. QED
    BY <1>1, <2>1, <2>2 DEF Same
<1>. QED
  BY <1>2, <1>3

\* No record is new while an image is written.
LEMMA NoNewOnImage ==
    ASSUME OtaInv, RunInv, pc = "run", NEW k \in DOMAIN job, job[k].op = "image", NEW i \in 0 .. 1
    PROVE  \A e \in Records(i) : ~IsNew(e)
<1>1. SUFFICES ASSUME NEW e \in Records(i), IsNew(e) PROVE FALSE
  OBVIOUS
<1>2. goal = next /\ One(running, next)
  BY DEF RunInv
<1>3. running # Slot(e) /\ goal = {Slot(e)}
  BY <1>1 DEF RunInv
<1>4. Slot(e) \in Partitions
  BY <1>1, RecordsType, SlotType, SlotsAre
<1>. QED
  BY <1>2, <1>3, <1>4, SlotsAre DEF One

\* The numbers in the end, when the first operation is made.
LEMMA EndSame ==
    ASSUME OtaInv, FlashStep, NEW h, h = Head(job), NEW i \in 0 .. 1,
           OpAt(h, i) /\ job' # <<>> => Held(h.to) = -1
    PROVE  End(i)' = End(i)
<1>1. /\ h.op # "sector" => otadata' = otadata
      /\ otadata'[i] = IF OpAt(h, i) THEN h.to ELSE otadata[i]
      /\ OpsOf(job, i) = (IF OpAt(h, i) THEN {h.to} ELSE {}) \union OpsOf(job, i)'
      /\ Ahead(job, h, job') /\ job # <<>> /\ UNCHANGED conf
  BY FlashFacts
<1>2. PICK s, t, u, v : s = job /\ t = job' /\ u = otadata[i] /\ v = otadata'[i]
  OBVIOUS
<1>3. Same
  BY <1>1, SameIs
<1>4. End(i) = IF Last(s).op = "sector" /\ Last(s).at = i THEN Held(Last(s).to)
               ELSE IF OpsOf(s, i) # {} THEN -1 ELSE Held(u)
  BY <1>1, <1>2 DEF End, IsLast
<1>5. End(i)' = IF t # <<>> /\ Last(t).op = "sector" /\ Last(t).at = i THEN Held(Last(t).to)
                ELSE IF OpsOf(t, i) # {} THEN -1 ELSE Held(v)
  <2>1. End(i)' = IF t # <<>> /\ Last(t).op = "sector" /\ Last(t).at = i THEN Held(Last(job).to)'
                  ELSE IF OpsOf(job, i)' # {} THEN -1 ELSE Held(otadata[i])'
    BY <1>2 DEF End, IsLast
  <2>2. OpsOf(job, i)' = OpsOf(t, i)
    BY <1>2 DEF OpsOf
  <2>3. Held(Last(job).to)' = Held(Last(t).to)
    BY <1>1, <1>2 DEF Held
  <2>4. Held(otadata[i])' = Held(v)
    BY <1>1, <1>2, SectorIs
  <2>. QED
    BY <2>1, <2>2, <2>3, <2>4
<1>6. /\ t = <<>> => Last(s) = h
      /\ t # <<>> => Last(t) = Last(s)
      /\ OpsOf(s, i) = (IF OpAt(h, i) THEN {h.to} ELSE {}) \union OpsOf(t, i)
  BY <1>1, <1>2 DEF Ahead
<1>7. CASE t = <<>>
  <2>1. OpsOf(t, i) = {}
    BY <1>7, OpsNone
  <2>2. CASE OpAt(h, i)
    BY <1>1, <1>2, <1>4, <1>5, <1>6, <1>7, <2>1, <2>2 DEF OpAt
  <2>3. CASE ~OpAt(h, i)
    BY <1>1, <1>2, <1>4, <1>5, <1>6, <1>7, <2>1, <2>3 DEF OpAt
  <2>. QED
    BY <2>2, <2>3
<1>8. CASE t # <<>>
  <2>1. CASE Last(s).op = "sector" /\ Last(s).at = i
    BY <1>4, <1>5, <1>6, <1>8, <2>1
  <2>2. CASE ~(Last(s).op = "sector" /\ Last(s).at = i)
    <3>1. CASE OpAt(h, i)
      <4>1. v = h.to /\ Held(v) = -1 /\ OpsOf(s, i) # {}
        BY <1>1, <1>2, <1>6, <1>8, <3>1
      <4>. QED
        BY <1>4, <1>5, <1>6, <1>8, <2>2, <4>1
    <3>2. CASE ~OpAt(h, i)
      <4>1. v = u /\ OpsOf(s, i) = OpsOf(t, i)
        BY <1>1, <1>2, <1>6, <3>2
      <4>. QED
        BY <1>4, <1>5, <1>6, <1>8, <2>2, <4>1
    <3>. QED
      BY <3>1, <3>2
  <2>. QED
    BY <2>1, <2>2
<1>. QED
  BY <1>7, <1>8

\* An application writes an image.
LEMMA FlashImage ==
    ASSUME OtaInv, OtaInv', TrialInv, FlashStep, pc = "run", NEW h, h = Head(job), h.op # "sector"
    PROVE  TrialInv'
<1>1. /\ job # <<>> /\ h = job[1] /\ 1 \in DOMAIN job /\ h.op = "image" /\ otadata' = otadata
      /\ Ahead(job, h, job')
      /\ \A i \in 0 .. 1 : OpsOf(job, i)' = OpsOf(job, i)
      /\ UNCHANGED <<conf, pc, handle, boot_index, ota_has_initial_contents, running, home, goal, tried>>
  BY FlashFacts DEF OpAt
<1>2. Common /\ RunInv /\ Same
  BY <1>1, SameIs DEF TrialInv
<1>3. goal = next /\ One(running, next)
  BY <1>1, <1>2 DEF RunInv
<1>4. next' = next /\ Bootable(running)'
  BY <1>1, <1>3 DEF FlashStep, OtaInv, RunningInv
<1>5. ASSUME NEW i \in 0 .. 1 PROVE Records(i)' = Records(i) /\ Seen(i)' = Seen(i)
  BY <1>1, SectorIs DEF Records, Seen
<1>6. \A i \in 0 .. 1 : \A e \in Records(i) : ~IsNew(e)
  BY <1>1, <1>2, NoNewOnImage
<1>7. Common'
  <2>1. NoMore
    BY <1>5 DEF NoMore
  <2>2. \A i \in 0 .. 1 : \A e \in Records(i)' : ~IsNew(e)
    BY <1>5, <1>6
  <2>3. RecordsOk'
    BY <1>1, <1>2, <2>1, <2>2, RecordsStay DEF Common
  <2>4. SlotsApart'
    BY <1>1, <1>2, <2>1, ApartStays DEF Common
  <2>5. SeenUntried'
    BY <1>1, <1>2, <1>5, UntriedStays DEF Common
  <2>. QED
    BY <1>1, <1>2, <2>3, <2>4, <2>5 DEF Common, OtaSlots
<1>8. ASSUME NEW x, One(x, next) PROVE One(x, next)'
  <2>1. PICK w : w = next
    OBVIOUS
  <2>2. One(x, w)'
    BY <1>1, <1>3, <1>4, <1>8, <2>1, OneSame
  <2>. QED
    BY <1>4, <2>1, <2>2 DEF One
<1>9. (\A k \in DOMAIN job : k # Len(job) /\ job[k].op = "sector" => Held(job[k].to) = -1)'
  BY <1>1, <1>2, JobTail DEF RunInv
<1>10. One(running, next)'
  <2>1. PICK r : r = running
    OBVIOUS
  <2>2. One(r, next)'
    BY <1>3, <1>8, <2>1
  <2>. QED
    BY <1>1, <2>1, <2>2 DEF One, Bootable
<1>11. ASSUME NEW x \in Seen(0)', NEW y \in Seen(1)' PROVE One(Boots(x, y), next)'
  <2>1. PICK b : b = Boots(x, y) /\ b = Boots(x, y)'
    BY <1>2 DEF Same
  <2>0. x \in Seen(0) /\ y \in Seen(1)
    BY <1>5, <1>11
  <2>2. One(b, next)
    BY <1>2, <2>0, <2>1 DEF RunInv
  <2>3. One(b, next)'
    BY <1>8, <2>2
  <2>. QED
    BY <2>1, <2>3 DEF One, Bootable
<1>12. (One(Boots(End(0), End(1)), goal) /\ Boots(End(0), End(1)) \notin tried)'
  <2>1. End(0)' = End(0) /\ End(1)' = End(1)
    BY EndSame DEF OpAt
  <2>2. PICK x, y : x = End(0) /\ y = End(1)
    OBVIOUS
  <2>3. PICK b : b = Boots(x, y) /\ b = Boots(x, y)'
    BY <1>2 DEF Same
  <2>4. One(b, next) /\ b \notin tried
    BY <1>2, <1>3, <2>2, <2>3 DEF RunInv
  <2>5. One(b, next)'
    BY <1>8, <2>4
  <2>6. Boots(End(0), End(1))' = b
    BY <2>1, <2>2, <2>3 DEF Boots, Named
  <2>. QED
    BY <1>1, <1>3, <1>4, <2>4, <2>5, <2>6 DEF One, Bootable
<1>13. ASSUME NEW i \in 0 .. 1
       PROVE  /\ \A e \in Records(i)' : ~IsNew(e)' 
              /\ ~IsNew(otadata[i])'
              /\ \A e \in OpsOf(job, i)' : ~IsPending(e)'
              /\ (IsPending(otadata[i])' <=> IsPending(otadata[i]))
              /\ ~(IsPending(otadata[i]) /\ Slot(otadata[i]) = running)
  <2>1. \A e \in Records(i)' : ~IsNew(e)' 
    BY <1>2, <1>5, <1>6 DEF Same
  <2>2. ~IsNew(otadata[i])'
    BY <1>1, <1>6, SectorIs DEF Records
  <2>3. \A e \in OpsOf(job, i)' : ~IsPending(e)'
    BY <1>1, <1>2 DEF Same, RunInv
  <2>4. IsPending(otadata[i])' <=> IsPending(otadata[i])
    BY <1>1, SectorIs
  <2>5. ~(IsPending(otadata[i]) /\ Slot(otadata[i]) = running)
    BY <1>1, <1>2 DEF RunInv
  <2>. QED
    BY <2>1, <2>2, <2>3, <2>4, <2>5
<1>14. ~(IsPending(otadata[0]) /\ IsPending(otadata[1]))'
  BY <1>2, <1>13 DEF RunInv
<1>15. \A i \in 0 .. 1 : ~(IsPending(otadata[i]) /\ goal = {running})'
  BY <1>1, <1>2, <1>13 DEF RunInv
<1>16. \A i \in 0 .. 1 : ~(IsPending(otadata[i]) /\ Slot(otadata[i]) = running)'
  BY <1>1, <1>13
<1>17. goal' = next' /\ (handle' # NoHandle' => running' \in next')
  BY <1>1, <1>2, <1>3, <1>4 DEF RunInv, NoHandle
<1>18. RunInv'
  BY <1>9, <1>10, <1>11, <1>12, <1>13, <1>14, <1>15, <1>16, <1>17 DEF RunInv
<1>. QED
  BY <1>1, <1>7, <1>18 DEF TrialInv, OffInv, LoadInv

\* An application writes a record.
LEMMA FlashSector ==
    ASSUME OtaInv, TrialInv, FlashStep, pc = "run", NEW h, h = Head(job), h.op = "sector"
    PROVE  TrialInv'
<1>1. /\ job # <<>> /\ h = job[1] /\ 1 \in DOMAIN job /\ h.at \in 0 .. 1 /\ image' = image
      /\ Ahead(job, h, job')
      /\ UNCHANGED <<conf, pc, handle, boot_index, ota_has_initial_contents, running, home, goal, tried>>
  BY FlashFacts
<1>2. Common /\ RunInv /\ Same
  BY <1>1, SameIs DEF TrialInv
<1>3. \A i \in 0 .. 1 : /\ otadata'[i] = IF OpAt(h, i) THEN h.to ELSE otadata[i]
                        /\ OpsOf(job, i) = (IF OpAt(h, i) THEN {h.to} ELSE {}) \union OpsOf(job, i)'
  BY FlashFacts
<1>4. NoMore /\ (\A i \in 0 .. 1 : Records(i)' \subseteq Records(i))
  BY FlashLess
<1>5. job' # <<>> => Held(h.to) = -1
  <2>1. job' # <<>> => 1 # Len(job)
    BY <1>1 DEF Ahead
  <2>. QED
    BY <1>1, <1>2, <2>1 DEF RunInv
<1>6. \A i \in 0 .. 1 : ~OpAt(h, i) \/ job' # <<>> => Seen(i)' \subseteq Seen(i)
  BY <1>5, FlashLess
<1>7. \A i \in 0 .. 1 : OpAt(h, i) => ~OpAt(h, 1 - i)
  BY DEF OpAt
<1>8. \A i \in 0 .. 1 : End(i)' = End(i)
  BY <1>5, EndSame
<1>9. job' = <<>> => \A i \in 0 .. 1 : Seen(i)' = {End(i)}
  <2>1. SUFFICES ASSUME job' = <<>>, NEW i \in 0 .. 1 PROVE Seen(i)' = {End(i)}
    OBVIOUS
  <2>2. OpsOf(job, i)' = {}
    BY <2>1 DEF OpsOf
  <2>3. Seen(i)' = {Held(otadata[i])'}
    BY <2>2 DEF Seen
  <2>4. End(i)' = Held(otadata[i])'
    BY <2>1, <2>2 DEF End, IsLast
  <2>. QED
    BY <1>8, <2>3, <2>4
<1>10. ASSUME NEW i \in 0 .. 1, IsNew(otadata'[i]) PROVE OpAt(h, i) /\ job' = <<>>
  <2>1. OpAt(h, i)
    BY <1>1, <1>2, <1>3, <1>10 DEF RunInv
  <2>2. IsNew(h.to) /\ h.to \in Records(i)
    BY <1>3, <1>10, <2>1 DEF Records
  <2>3. h.to \in Entry /\ RecordOk(h.to)
    BY <1>2, <2>2, RecordsType DEF Common, RecordsOk
  <2>4. Held(h.to) # -1
    BY <2>2, <2>3, HeldIs
  <2>. QED
    BY <1>5, <2>1, <2>4
<1>11. Common'
  <2>1. ASSUME NEW i \in 0 .. 1, NEW e \in Records(i)', IsNew(e) PROVE Seen(1 - i)' \subseteq Seen(1 - i)
    <3>0. 1 - i \in 0 .. 1
      OBVIOUS
    <3>1. CASE job' # <<>>
      BY <1>6, <3>0, <3>1
    <3>2. CASE job' = <<>>
      <4>1. OpsOf(job, i)' = {}
        BY <3>2 DEF OpsOf
      <4>2. e = otadata'[i]
        BY <2>1, <4>1 DEF Records
      <4>3. ~OpAt(h, 1 - i)
        BY <1>7, <1>10, <2>1, <4>2
      <4>. QED
        BY <1>6, <3>0, <4>3
    <3>. QED
      BY <3>1, <3>2
  <2>3. RecordsOk'
    BY <1>1, <1>2, <1>4, <2>1, RecordsStay DEF Common
  <2>4. SlotsApart'
    BY <1>1, <1>2, <1>4, ApartStays DEF Common
  <2>5. SeenUntried'
    <3>1. CASE job' # <<>>
      BY <1>1, <1>2, <1>6, <3>1, UntriedStays DEF Common
    <3>2. CASE job' = <<>>
      <4>1. PICK x, y : x = End(0) /\ y = End(1)
        OBVIOUS
      <4>2. Boots(x, y) \notin tried
        BY <1>2, <4>1 DEF RunInv
      <4>3. Seen(0)' = {x} /\ Seen(1)' = {y}
        BY <1>9, <3>2, <4>1
      <4>4. Boots(x, y)' \notin tried'
        BY <1>1, <1>2, <4>2 DEF Same
      <4>. QED
        BY <4>3, <4>4 DEF SeenUntried
    <3>. QED
      BY <3>1, <3>2
  <2>. QED
    BY <1>1, <1>2, <2>3, <2>4, <2>5 DEF Common, OtaSlots
<1>12. next' = IF job' = <<>> THEN goal ELSE next
  BY <1>1 DEF Ahead, FlashStep
<1>13. (\A k \in DOMAIN job : k # Len(job) /\ job[k].op = "sector" => Held(job[k].to) = -1)'
  BY <1>1, <1>2, JobTail DEF RunInv
<1>14. ASSUME NEW x, NEW W, One(x, W) PROVE One(x, W)'
  BY <1>1, <1>14, OneStays
<1>15. ASSUME NEW k \in DOMAIN job', job'[k].op = "image" PROVE goal' = next' /\ One(running, next)'
  <2>1. job' # <<>> /\ next' = next
    BY <1>12, <1>15
  <2>2. PICK s, t : s = job /\ t = job'
    OBVIOUS
  <2>3. k + 1 \in DOMAIN job /\ job[k + 1].op = "image"
    BY <1>1, <1>15, <2>2 DEF Ahead
  <2>4. goal = next /\ One(running, next)
    BY <1>2, <2>3 DEF RunInv
  <2>5. PICK r, w : r = running /\ w = next
    OBVIOUS
  <2>6. One(r, w)'
    BY <1>14, <2>4, <2>5
  <2>. QED
    BY <1>1, <2>1, <2>4, <2>5, <2>6 DEF One, Bootable
<1>16. (One(Boots(End(0), End(1)), goal) /\ Boots(End(0), End(1)) \notin tried)'
  <2>2. PICK x, y, w : x = End(0) /\ y = End(1) /\ w = goal
    OBVIOUS
  <2>3. PICK b : b = Boots(x, y) /\ b = Boots(x, y)'
    BY <1>2 DEF Same
  <2>4. One(b, w) /\ b \notin tried
    BY <1>2, <2>2, <2>3 DEF RunInv
  <2>5. One(b, w)'
    BY <1>14, <2>4
  <2>6. Boots(End(0), End(1))' = b
    BY <1>8, <2>2, <2>3 DEF Boots, Named
  <2>. QED
    BY <1>1, <2>2, <2>4, <2>5, <2>6 DEF One, Bootable
<1>17. ASSUME NEW x \in Seen(0)', NEW y \in Seen(1)' PROVE One(Boots(x, y), next)'
  <2>1. PICK b : b = Boots(x, y) /\ b = Boots(x, y)'
    BY <1>2 DEF Same
  <2>2. CASE job' # <<>>
    <3>1. x \in Seen(0) /\ y \in Seen(1) /\ next' = next
      BY <1>6, <1>12, <1>17, <2>2
    <3>2. PICK w : w = next
      OBVIOUS
    <3>3. One(b, w)
      BY <1>2, <2>1, <3>1, <3>2 DEF RunInv
    <3>4. One(b, w)'
      BY <1>14, <3>3
    <3>. QED
      BY <2>1, <3>1, <3>2, <3>4 DEF One, Bootable
  <2>3. CASE job' = <<>>
    <3>1. x = End(0)' /\ y = End(1)' /\ next' = goal'
      BY <1>1, <1>8, <1>9, <1>12, <1>17, <2>3
    <3>2. One(Boots(End(0), End(1)), goal)'
      BY <1>16
    <3>. QED
      BY <3>1, <3>2 DEF One, Bootable, Boots, Named
  <2>. QED
    BY <2>2, <2>3
<1>18. ASSUME NEW i \in 0 .. 1, NEW e \in Records(i)', IsNew(e)'
       PROVE  (running # Slot(e) /\ goal = {Slot(e)} /\ handle = NoHandle)'
  <2>1. IsNew(e) /\ e \in Records(i)
    BY <1>2, <1>4, <1>18 DEF Same
  <2>2. running # Slot(e) /\ goal = {Slot(e)} /\ handle = NoHandle
    BY <1>2, <2>1 DEF RunInv
  <2>. QED
    BY <1>1, <2>2 DEF NoHandle, Slot
<1>19. \A i \in 0 .. 1 : IsNew(otadata[i])' => job' = <<>>
  BY <1>1, <1>10, SectorIs
<1>20. \A i \in 0 .. 1 : \A e \in OpsOf(job, i)' : ~IsPending(e)'
  <2>1. \A i \in 0 .. 1 : \A e \in OpsOf(job, i)' : e \in OpsOf(job, i)
    BY <1>3
  <2>. QED
    BY <1>2, <2>1 DEF Same, RunInv
<1>21. ASSUME NEW i \in 0 .. 1, IsPending(otadata'[i])
       PROVE  /\ IsPending(otadata[i]) /\ otadata'[i] = otadata[i] /\ Slot(otadata[i]) # running
  <2>1. ~OpAt(h, i)
    BY <1>2, <1>3, <1>21 DEF RunInv
  <2>2. otadata'[i] = otadata[i]
    BY <1>3, <2>1
  <2>3. ~(h.op = "sector" /\ h.at = i)
    BY <2>1 DEF OpAt
  <2>4. Slot(otadata[i]) # running
    BY <1>1, <1>2, <1>21, <2>2, <2>3 DEF RunInv
  <2>. QED
    BY <1>21, <2>2, <2>4
<1>22. ~(IsPending(otadata[0]) /\ IsPending(otadata[1]))'
  BY <1>1, <1>2, <1>21, SectorIs DEF RunInv
<1>23. \A i \in 0 .. 1 : ~(IsPending(otadata[i]) /\ goal = {running})'
  BY <1>1, <1>2, <1>21, SectorIs DEF RunInv
<1>24. \A i \in 0 .. 1 : ~(IsPending(otadata[i]) /\ Slot(otadata[i]) = running)'
  BY <1>1, <1>21, SectorIs DEF Slot
<1>25. (job = <<>> => goal = next)' /\ (handle # NoHandle => goal = next /\ running \in next)'
  BY <1>1, <1>2, <1>12 DEF RunInv, NoHandle
<1>26. RunInv'
  BY <1>13, <1>15, <1>16, <1>17, <1>18, <1>19, <1>20, <1>22, <1>23, <1>24, <1>25 DEF RunInv
<1>. QED
  BY <1>1, <1>11, <1>26 DEF TrialInv, OffInv, LoadInv

\* A flash operation, of the bootloader or of the application.
LEMMA FlashKeepsTrial == ASSUME OtaInv, OtaInv', TrialInv, FlashStep PROVE TrialInv'
<1>1. PICK h : h = Head(job)
  OBVIOUS
<1>2. pc \notin {"off", "reset"}
  BY DEF TrialInv, OffInv, FlashStep
<1>3. pc \in {"load", "run"}
  BY <1>2 DEF OtaInv, TypeOK
<1>4. CASE pc = "load"
  BY <1>4, FlashLoad
<1>5. CASE pc = "run" /\ h.op = "sector"
  BY <1>1, <1>5, FlashSector
<1>6. CASE pc = "run" /\ h.op # "sector"
  BY <1>1, <1>6, FlashImage
<1>. QED
  BY <1>3, <1>4, <1>5, <1>6

(***************************************************************************)
(* Power loss.                                                             *)
(***************************************************************************)
\* More may be promised.
LEMMA KeptMore ==
    ASSUME NEW x, NEW V, NEW W, V \subseteq W
    PROVE  (Kept(x, V) => Kept(x, W)) /\ (One(x, V) => Kept(x, W))
  BY DEF Kept, Void, One

\* What is left of a record, or of an image, in the middle of a write.
LEMMA TornIs ==
    ASSUME OtaInv, Common, UNCHANGED conf, job # <<>>, NEW h, h = Head(job), NEW v \in Torn(h), Apply(h, v)
    PROVE  /\ h = job[1] /\ 1 \in DOMAIN job
           /\ \/ /\ h.op = "sector" /\ h.at \in 0 .. 1 /\ image' = image
                 /\ \A i \in 0 .. 1 : otadata'[i] = IF i = h.at THEN v ELSE otadata[i]
                 /\ ~v.crc /\ v.ota_seq >= -1 /\ OpsOf(job, h.at) # {}
              \/ /\ h.op = "image" /\ otadata' = otadata /\ pc = "run" /\ image'[running] = image[running]
<1>1. job \in Seq(Allowed)
  BY DEF OtaInv, RunningInv
<1>2. h \in Allowed /\ h = job[1] /\ 1 \in DOMAIN job
  BY <1>1
<1>3. CASE h \in SectorOp
  <2>1. h.op = "sector" /\ h.at \in 0 .. 1 /\ h.to \in Entry
    BY <1>3 DEF SectorOp
  <2>2. otadata' = [otadata EXCEPT ![h.at] = v] /\ image' = image
    BY <2>1 DEF Apply
  <2>3. otadata \in [0 .. 1 -> Entry]
    BY DEF OtaInv, TypeOK
  <2>4. \A i \in 0 .. 1 : otadata'[i] = IF i = h.at THEN v ELSE otadata[i]
    BY <2>1, <2>2, <2>3
  <2>5. h.to \in OpsOf(job, h.at)
    BY <1>2, <2>1 DEF OpsOf
  <2>6. PICK e, f : e = otadata[h.at] /\ f = h.to
    OBVIOUS
  <2>7. e \in Entry /\ f \in Entry /\ RecordOk(e) /\ RecordOk(f)
    <3>1. e \in Records(h.at) /\ f \in Records(h.at)
      BY <2>5, <2>6 DEF Records
    <3>. QED
      BY <2>1, <2>3, <2>6, <3>1 DEF Common, RecordsOk
  <2>8. v \in {[e EXCEPT !.crc = FALSE], [f EXCEPT !.crc = FALSE],
               [f EXCEPT !.crc = FALSE, !.ota_state = "UNDEFINED"]}
    BY <2>1, <2>6 DEF Torn
  <2>9. v.crc = FALSE /\ v.ota_seq \in {e.ota_seq, f.ota_seq}
    BY <2>7, <2>8 DEF Entry
  <2>10. v.ota_seq >= -1
    BY <2>7, <2>9 DEF RecordOk
  <2>. QED
    BY <1>2, <2>1, <2>2, <2>4, <2>5, <2>9, <2>10
<1>4. CASE h \in ImageOp /\ pc = "run" /\ h.at # running
  <2>1. h.op = "image"
    BY <1>4 DEF ImageOp
  <2>2. v = "bad" /\ otadata' = otadata
    BY <2>1 DEF Torn, Apply
  <2>3. image'[running] = image[running]
    BY <1>2, <1>4, <2>1, <2>2, ApplyKeeps
  <2>. QED
    BY <1>2, <1>4, <2>1, <2>2, <2>3
<1>. QED
  BY <1>2, <1>3, <1>4 DEF Allowed

\* Power is lost, before an operation or in the middle of it.
LEMMA PowerLossTrial == ASSUME OtaInv, TrialInv, PowerLoss PROVE TrialInv'
<1>1. /\ UNCHANGED <<conf, boot_index, ota_has_initial_contents, home, tried>>
      /\ pc' = "off" /\ job' = <<>>
      /\ next' = next \union goal \union (IF pc = "load" THEN home ELSE {}) /\ goal' = next'
  BY DEF PowerLoss
<1>2. Common /\ OffInv /\ LoadInv /\ RunInv /\ Same
  BY <1>1, SameIs DEF TrialInv
<1>3. \A i \in 0 .. 1 : OpsOf(job, i)' = {}
  BY <1>1 DEF OpsOf
<1>4. \A i \in 0 .. 1 : Records(i)' = {otadata'[i]} /\ Seen(i)' = {Held(otadata'[i])}
  BY <1>1, <1>3, SectorIs DEF Records, Seen
<1> DEFINE Fine == /\ NoMore /\ \A i \in 0 .. 1 : Seen(i)' \subseteq Seen(i)
                   /\ \/ image' = image
                      \/ /\ pc = "run" /\ One(running, next) /\ image'[running] = image[running]
                         /\ \A i \in 0 .. 1 : \A e \in Records(i) : ~IsNew(e)
<1>5. Fine
  <2>1. CASE UNCHANGED flash
    <3>1. otadata' = otadata /\ image' = image
      BY <2>1 DEF flash
    <3>. QED
      BY <1>4, <3>1 DEF NoMore, Records, Seen
  <2>2. CASE job # <<>> /\ \E v \in Torn(Head(job)) : Apply(Head(job), v)
    <3>1. PICK h : h = Head(job)
      OBVIOUS
    <3>2. PICK v \in Torn(h) : Apply(h, v)
      BY <2>2, <3>1
    <3>3. /\ h = job[1] /\ 1 \in DOMAIN job
          /\ \/ /\ h.op = "sector" /\ h.at \in 0 .. 1 /\ image' = image
                /\ \A i \in 0 .. 1 : otadata'[i] = IF i = h.at THEN v ELSE otadata[i]
                /\ ~v.crc /\ v.ota_seq >= -1 /\ OpsOf(job, h.at) # {}
             \/ /\ h.op = "image" /\ otadata' = otadata /\ pc = "run" /\ image'[running] = image[running]
      BY <1>1, <1>2, <2>2, <3>1, <3>2, TornIs
    <3>4. CASE h.op = "sector"
      <4>1. NoMore
        BY <1>4, <3>3, <3>4 DEF NoMore, Records
      <4>2. ASSUME NEW i \in 0 .. 1 PROVE Seen(i)' \subseteq Seen(i)
        <5>1. CASE i = h.at
          <6>1. Seen(i)' = {-1}
            BY <1>4, <3>3, <3>4, <5>1, BlankIs
          <6>. QED
            BY <3>3, <3>4, <5>1, <6>1 DEF Seen
        <5>2. CASE i # h.at
          BY <1>4, <3>3, <3>4, <5>2 DEF Seen
        <5>. QED
          BY <5>1, <5>2
      <4>. QED
        BY <3>3, <3>4, <4>1, <4>2
    <3>5. CASE h.op = "image"
      <4>1. otadata' = otadata /\ pc = "run" /\ image'[running] = image[running]
        BY <3>3, <3>5
      <4>2. One(running, next)
        BY <1>2, <3>3, <3>5, <4>1 DEF RunInv
      <4>3. \A i \in 0 .. 1 : \A e \in Records(i) : ~IsNew(e)
        BY <1>2, <3>3, <3>5, <4>1, NoNewOnImage
      <4>. QED
        BY <1>4, <4>1, <4>2, <4>3 DEF NoMore, Records, Seen
    <3>. QED
      BY <3>3, <3>4, <3>5
  <2>. QED
    BY <2>1, <2>2 DEF PowerLoss
<1>6. Common'
  <2>1. \A i \in 0 .. 1 : \A e \in Records(i)' : IsNew(e) => image' = image
    BY <1>5 DEF NoMore, IsNew
  <2>2. \A i \in 0 .. 1 : Seen(1 - i)' \subseteq Seen(1 - i)
    BY <1>5
  <2>3. RecordsOk'
    BY <1>1, <1>2, <1>5, <2>1, <2>2, RecordsStay DEF Common
  <2>4. SlotsApart'
    BY <1>1, <1>2, <1>5, ApartStays DEF Common
  <2>5. SeenUntried'
    BY <1>1, <1>2, <1>5, UntriedStays DEF Common
  <2>. QED
    BY <1>1, <1>2, <2>3, <2>4, <2>5 DEF Common, OtaSlots
<1>7. PICK x, y, b : x = Held(otadata'[0]) /\ y = Held(otadata'[1]) /\ b = Boots(x, y)
  OBVIOUS
<1>8. x \in Seen(0) /\ y \in Seen(1)
  BY <1>4, <1>5, <1>7
<1>9. Kept(b, next)'
  <2>0. PICK w : w = next'
    OBVIOUS
  <2>1. CASE pc = "run"
    <3>1. One(b, next)
      BY <1>2, <1>7, <1>8, <2>1 DEF RunInv
    <3>2. CASE image' = image
      <4>1. Kept(b, w)
        BY <1>1, <2>0, <3>1, KeptMore
      <4>2. Kept(b, w)'
        BY <1>1, <3>2, <4>1, OneStays
      <4>. QED
        BY <2>0, <4>2 DEF Kept, Void
    <3>3. CASE One(running, next) /\ image'[running] = image[running]
      <4>1. CASE conf.factory /\ next = Partitions
        BY <1>1, <4>1 DEF Kept, Void, Partitions, OtaSlots
      <4>2. CASE next = {running} /\ Bootable(running)
        <5>1. b = running \/ next = Partitions
          BY <3>1, <4>2 DEF One
        <5>2. running \in Partitions
          BY <2>1 DEF OtaInv, RunningInv
        <5>3. b = running /\ b \in next'
          BY <1>1, <4>2, <5>1, <5>2, SlotsAre
        <5>4. Bootable(b)'
          BY <1>1, <3>3, <4>2, <5>3 DEF Bootable
        <5>. QED
          BY <5>3, <5>4 DEF Kept
      <4>. QED
        BY <3>3, <4>1, <4>2 DEF One
    <3>. QED
      BY <1>5, <3>2, <3>3
  <2>2. CASE pc = "load"
    <3>1. Kept(b, next \union home)
      BY <1>2, <1>7, <1>8, <2>2 DEF LoadInv
    <3>2. Kept(b, w)
      BY <1>1, <2>0, <2>2, <3>1, KeptMore
    <3>3. Kept(b, w)'
      BY <1>1, <1>5, <2>2, <3>2, OneStays
    <3>. QED
      BY <2>0, <3>3 DEF Kept, Void
  <2>3. CASE pc = "reset"
    <3>1. job = <<>> /\ Kept(Boots(Held(otadata[0]), Held(otadata[1])), next)
      BY <1>2, <2>3 DEF OffInv
    <3>2. otadata' = otadata /\ image' = image
      BY <3>1 DEF PowerLoss, flash
    <3>3. Kept(b, w)
      BY <1>1, <1>7, <2>0, <3>1, <3>2, KeptMore
    <3>4. Kept(b, w)'
      BY <1>1, <3>2, <3>3, OneStays
    <3>. QED
      BY <2>0, <3>4 DEF Kept, Void
  <2>. QED
    BY <2>1, <2>2, <2>3 DEF PowerLoss, OtaInv, TypeOK
<1>10. Kept(Boots(Held(otadata[0]), Held(otadata[1])), next)'
  <2>1. Boots(Held(otadata[0]), Held(otadata[1]))' = b
    <3>1. Held(otadata[0])' = x /\ Held(otadata[1])' = y
      BY <1>1, <1>7, SectorIs
    <3>2. Boots(x, y)' = b
      BY <1>2, <1>7 DEF Same
    <3>. QED
      BY <3>1, <3>2 DEF Boots, Named
  <2>. QED
    BY <1>9, <2>1 DEF Kept, Void, Bootable
<1>. QED
  BY <1>1, <1>6, <1>10 DEF TrialInv, OffInv, LoadInv, RunInv

(***************************************************************************)
(* The bootloader selects a partition.                                     *)
(***************************************************************************)
\* A record whose state is changed.
LEMMA StateIs ==
    ASSUME NEW e \in Entry, NEW st \in States, NEW z, z = [e EXCEPT !.ota_state = st]
    PROVE  z \in Entry /\ z.ota_seq = e.ota_seq /\ z.crc = e.crc /\ z.ota_state = st /\ Slot(z) = Slot(e)
<1>1. z \in Entry
  BY EntryExcept
<1>2. z.ota_seq = e.ota_seq /\ z.ota_state = st
  BY DEF Entry
<1>3. z.crc = e.crc
  BY DEF Entry
<1>. QED
  BY <1>1, <1>2, <1>3 DEF Slot

\* The last operation of a job that ends with a record being rewritten.
Ends(S, s, i, e, u) ==
    s \in Seq(S) /\ rewrite_ota_seq(i, e) \in Seq(S) /\ u = s \o rewrite_ota_seq(i, e)

\* It is the one that writes the record.
LEMMA LastCat ==
    ASSUME NEW S, NEW s, NEW i, NEW e, NEW u, Ends(S, s, i, e, u)
    PROVE  u # <<>> /\ Last(u).to = e /\ Last(u).at = i /\ Last(u).op = "sector"
<1>1. PICK c, d, w : c = SetSector(i, Erased) /\ d = SetSector(i, e) /\ w = <<c, d>>
  OBVIOUS
<1>2. w = rewrite_ota_seq(i, e) /\ w \in Seq(S) /\ s \in Seq(S) /\ u = s \o w
  BY <1>1 DEF rewrite_ota_seq, Ends
<1>3. PICK n \in Nat : n = Len(s)
  BY <1>2
<1>4. Len(w) = 2 /\ w[2] = d
  BY <1>1
<1>5. Len(u) = n + 2 /\ u[n + 2] = d
  <2>1. s \in Seq(S) /\ w \in Seq(S) /\ u = s \o w
    BY <1>2
  <2>2. PICK m \in Nat : m = Len(w) /\ DOMAIN w = 1 .. m
    BY <2>1
  <2>3. DOMAIN s = 1 .. n
    BY <1>2, <1>3
  <2>4. Len(u) = n + m
    BY ONLY <1>3, <2>1, <2>2
  <2>5. \A k \in 1 .. m : u[n + k] = w[k]
    BY ONLY <1>3, <2>1, <2>2, <2>3
  <2>. QED
    BY <1>4, <2>2, <2>4, <2>5
<1>6. u # <<>>
  BY <1>3, <1>5
<1>7. d.to = e /\ d.at = i /\ d.op = "sector"
  BY <1>1 DEF SetSector
<1>. QED
  BY <1>5, <1>6, <1>7 DEF Last

\* The trial of a record goes on under a new state, if the other sector holds no more
\* that could be selected.
LEMMA TrialMoves ==
    ASSUME UNCHANGED <<conf, home, image>>, tried' \subseteq tried,
           NEW i \in 0 .. 1, NEW e, NEW d, d.ota_seq = e.ota_seq, TrialOk(e, i),
           Seen(1 - i)' \subseteq Seen(1 - i),
           \A f \in Records(1 - i)' : select_valid(f) => f \in Records(1 - i)
    PROVE  TrialOk(d, i)'
<1>1. Same /\ Slot(d) = Slot(e)
  BY SameIs DEF Slot
<1>2. ASSUME NEW y \in Seen(1 - i)'
      PROVE  (One(Named(y), home) /\ Named(y) # Slot(d) /\ Named(y) \notin tried)'
  <2>1. One(Named(y), home) /\ Named(y) # Slot(e) /\ Named(y) \notin tried
    BY <1>2 DEF TrialOk
  <2>2. PICK n, w : n = Named(y) /\ w = home
    OBVIOUS
  <2>3. Named(y)' = n /\ home' = w
    BY <1>1, <2>2 DEF Same
  <2>4. One(n, w)'
    BY <2>1, <2>2, OneStays
  <2>5. One(Named(y), home)'
    BY <2>3, <2>4 DEF One
  <2>. QED
    BY <1>1, <2>1, <2>2, <2>3, <2>5
<1>3. ASSUME NEW f \in Records(1 - i)', select_valid(f) PROVE f.ota_seq < d.ota_seq
  BY <1>3 DEF TrialOk
<1>. QED
  BY <1>2, <1>3 DEF TrialOk

\* A record of otadata, as the selection sees it: one on trial is given up.
Aborted(e) == IF conf.rollback /\ e.ota_state = "PENDING_VERIFY"
              THEN [e EXCEPT !.ota_state = "ABORTED"] ELSE e

\* Giving up leaves the number and the check sum.
LEMMA AbortedIs ==
    ASSUME NEW e \in Entry, RecordOk(e), NEW z, z = Aborted(e)
    PROVE  /\ z \in Entry /\ z.ota_seq = e.ota_seq /\ z.crc = e.crc /\ Slot(z) = Slot(e)
           /\ (select_valid(z) <=> Held(e) # -1) /\ (select_valid(z) => z = e)
           /\ z # e => Held(e) = -1 /\ z.ota_state = "ABORTED"
           /\ (BlankOrBad(z) <=> BlankOrBad(e))
<1>1. "ABORTED" \in States
  BY DEF States
<1>2. CASE conf.rollback /\ e.ota_state = "PENDING_VERIFY"
  <2>1. z = [e EXCEPT !.ota_state = "ABORTED"]
    BY <1>2 DEF Aborted
  <2>2. /\ z \in Entry /\ z.ota_seq = e.ota_seq /\ z.crc = e.crc /\ z.ota_state = "ABORTED"
        /\ Slot(z) = Slot(e)
    BY <1>1, <2>1, StateIs
  <2>3. ~select_valid(z) /\ Held(e) = -1
    BY <1>2, <2>2 DEF select_valid, select_invalid, Held
  <2>. QED
    BY <2>2, <2>3 DEF BlankOrBad
<1>3. CASE ~(conf.rollback /\ e.ota_state = "PENDING_VERIFY")
  <2>1. z = e
    BY <1>3 DEF Aborted
  <2>2. select_valid(e) => e.ota_seq # -1
    BY DEF select_valid, select_invalid, UINT32_MAX
  <2>3. select_valid(e) <=> Held(e) # -1
    BY <1>3, <2>2 DEF Held
  <2>. QED
    BY <2>1, <2>3
<1>. QED
  BY <1>2, <1>3

\* The sector a that is selected, or -1; whether its record goes on trial, as tr; and
\* what is written.
Selection(a, T, tr) ==
    /\ a = -1 => /\ \A i \in 0 .. 1 : Held(otadata[i]) = -1
                 /\ boot_index' = FACTORY_INDEX \/ (boot_index' = 0 /\ ~conf.factory)
    /\ a # -1 => /\ a \in 0 .. 1 /\ 1 - a \in 0 .. 1 /\ Held(otadata[a]) # -1
                 /\ Held(otadata[1 - a]) <= Held(otadata[a]) /\ boot_index' = Slot(otadata[a])
    /\ T <=> a # -1 /\ IsNew(otadata[a])
    /\ T => /\ tr = [otadata[a] EXCEPT !.ota_state = "PENDING_VERIFY"]
            /\ job' # <<>> /\ Last(job').to = tr
    /\ \A i \in 0 .. 1 :
          OpsOf(job, i)' =
            (IF Aborted(otadata[i]) # otadata[i] THEN {Erased, Aborted(otadata[i])} ELSE {})
            \union (IF T /\ a = i THEN {Erased, tr} ELSE {})
    /\ ota_has_initial_contents' =>
          ~conf.factory /\ ~T /\ \A i \in 0 .. 1 : BlankOrBad(otadata[i])

\* Three jobs one after the other.
Three(S, r, s, t, u) == r \in Seq(S) /\ s \in Seq(S) /\ t \in Seq(S) /\ u = r \o s \o t

\* Three jobs, one after the other.
LEMMA OpsCat3 ==
    ASSUME NEW S, NEW r, NEW s, NEW t, NEW u, Three(S, r, s, t, u)
    PROVE  \A i : OpsOf(u, i) = OpsOf(r, i) \union OpsOf(s, i) \union OpsOf(t, i)
<1>. TAKE i
<1>1. PICK v : v = r \o s
  OBVIOUS
<1>2. v \in Seq(S) /\ u = v \o t /\ r \in Seq(S) /\ s \in Seq(S) /\ t \in Seq(S)
  BY <1>1 DEF Three
<1>3. OpsOf(v \o t, i) = OpsOf(v, i) \union OpsOf(t, i)
  BY ONLY <1>2, OpsCat
<1>4. OpsOf(r \o s, i) = OpsOf(r, i) \union OpsOf(s, i)
  BY ONLY <1>2, OpsCat
<1>. QED
  BY <1>1, <1>2, <1>3, <1>4

\* The selection of the bootloader is one in this sense.
LEMMA SelectIs ==
    ASSUME OtaInv, Common, get_selected_boot_partition
    PROVE  \E a, T, tr : Selection(a, T, tr)
<1> DEFINE pending == {i \in 0 .. 1 : /\ conf.rollback
                                      /\ otadata[i].ota_state = "PENDING_VERIFY"}
           aborted == [i \in 0 .. 1 |->
                         IF i \in pending
                         THEN [otadata[i] EXCEPT !.ota_state = "ABORTED"]
                         ELSE otadata[i]]
           none == \A i \in 0 .. 1 : select_invalid(aborted[i])
           active == get_active_otadata(aborted)
           abort(i) == IF i \in pending THEN rewrite_ota_seq(i, aborted[i]) ELSE <<>>
           trial == /\ conf.rollback /\ ~none /\ active # -1
                    /\ aborted[active].ota_state = "NEW"
           tr == [aborted[active] EXCEPT !.ota_state = "PENDING_VERIFY"]
           begin == IF trial THEN rewrite_ota_seq(active, tr) ELSE <<>>
<1>1. job' = abort(0) \o abort(1) \o begin
  BY DEF get_selected_boot_partition
<1>2. boot_index' = CASE none /\ ~conf.factory   -> 0
                      [] ~none /\ active # -1    -> Slot(aborted[active])
                      [] OTHER                   -> FACTORY_INDEX
  BY DEF get_selected_boot_partition
<1>3. ota_has_initial_contents' = (none /\ ~conf.factory /\ \A i \in 0 .. 1 : BlankOrBad(aborted[i]))
  BY DEF get_selected_boot_partition
<1>4. \A i \in 0 .. 1 : aborted[i] = Aborted(otadata[i])
  BY DEF Aborted
<1>5. \A i \in 0 .. 1 : otadata[i] \in Entry /\ RecordOk(otadata[i])
  BY DEF OtaInv, TypeOK, Common, RecordsOk, Records
<1>6. PICK o : o = aborted
  OBVIOUS
<1>7. ASSUME NEW i \in 0 .. 1
      PROVE  /\ o[i] = Aborted(otadata[i]) /\ o[i] \in Entry /\ o[i].ota_seq = otadata[i].ota_seq
             /\ o[i].crc = otadata[i].crc /\ Slot(o[i]) = Slot(otadata[i])
             /\ (select_valid(o[i]) <=> Held(otadata[i]) # -1) /\ (select_valid(o[i]) => o[i] = otadata[i])
             /\ o[i] # otadata[i] => Held(otadata[i]) = -1 /\ o[i].ota_state = "ABORTED"
             /\ (BlankOrBad(o[i]) <=> BlankOrBad(otadata[i]))
  <2>1. PICK e, z : e = otadata[i] /\ z = Aborted(e)
    OBVIOUS
  <2>2. e \in Entry /\ RecordOk(e) /\ z = o[i]
    BY <1>4, <1>5, <1>6, <2>1
  <2>3. /\ z \in Entry /\ z.ota_seq = e.ota_seq /\ z.crc = e.crc /\ Slot(z) = Slot(e)
        /\ (select_valid(z) <=> Held(e) # -1) /\ (select_valid(z) => z = e)
        /\ z # e => Held(e) = -1 /\ z.ota_state = "ABORTED"
        /\ (BlankOrBad(z) <=> BlankOrBad(e))
    BY <2>1, <2>2, AbortedIs
  <2>. QED
    BY <2>1, <2>2, <2>3
<1>8. \A i \in 0 .. 1 : i \in pending <=> o[i] # otadata[i]
  <2>1. SUFFICES ASSUME NEW i \in 0 .. 1 PROVE i \in pending <=> o[i] # otadata[i]
    OBVIOUS
  <2>2. CASE i \in pending
    <3>1. o[i] = [otadata[i] EXCEPT !.ota_state = "ABORTED"] /\ otadata[i].ota_state = "PENDING_VERIFY"
      BY <1>6, <2>2
    <3>2. o[i].ota_state = "ABORTED"
      BY <1>5, <3>1 DEF Entry
    <3>. QED
      BY <2>2, <3>1, <3>2
  <2>3. CASE i \notin pending
    BY <1>6, <2>3
  <2>. QED
    BY <2>2, <2>3
<1>9. PICK a : a = active
  OBVIOUS
<1>10. o \in [0 .. 1 -> Entry]
  <2>1. o = [i \in 0 .. 1 |-> o[i]]
    BY <1>6
  <2>. QED
    BY <1>7, <2>1
<1>11. \/ a = -1 /\ ~select_valid(o[0]) /\ ~select_valid(o[1])
       \/ /\ a \in 0 .. 1 /\ a # -1 /\ 1 - a \in 0 .. 1 /\ select_valid(o[a])
          /\ select_valid(o[1 - a]) => o[1 - a].ota_seq <= o[a].ota_seq
  <2>1. a = get_active_otadata(o)
    BY <1>6, <1>9
  <2>. QED
    BY <1>10, <2>1, ActiveIs
<1>12. PICK N \in BOOLEAN : N = none
  OBVIOUS
<1>13. N <=> \A i \in 0 .. 1 : select_invalid(o[i])
  BY <1>6, <1>12
<1>14. PICK T \in BOOLEAN : T = trial
  OBVIOUS
<1>15. T <=> conf.rollback /\ ~N /\ a # -1 /\ o[a].ota_state = "NEW"
  BY <1>6, <1>9, <1>12, <1>14
<1>16. PICK q : q = tr
  OBVIOUS
<1>17. q = [o[a] EXCEPT !.ota_state = "PENDING_VERIFY"]
  BY <1>6, <1>9, <1>16
<1>23. boot_index' = CASE N /\ ~conf.factory   -> 0
                       [] ~N /\ a # -1    -> Slot(o[a])
                       [] OTHER                   -> FACTORY_INDEX
  BY <1>2, <1>6, <1>9, <1>12
<1>24. ota_has_initial_contents' => N /\ ~conf.factory /\ \A i \in 0 .. 1 : BlankOrBad(o[i])
  BY <1>3, <1>6, <1>12
<1> HIDE DEF pending, aborted, none, active, trial, tr
<1>18. PICK r, s, t : r = abort(0) /\ s = abort(1) /\ t = begin
  OBVIOUS
<1>19. job' = r \o s \o t
  BY <1>1, <1>18
<1>20. r = (IF o[0] # otadata[0] THEN rewrite_ota_seq(0, o[0]) ELSE <<>>)
  BY <1>6, <1>8, <1>18
<1>21. s = (IF o[1] # otadata[1] THEN rewrite_ota_seq(1, o[1]) ELSE <<>>)
  BY <1>6, <1>8, <1>18
<1>22. t = (IF T THEN rewrite_ota_seq(a, q) ELSE <<>>)
  BY <1>9, <1>14, <1>16, <1>18
<1> HIDE DEF abort, begin
<1>25. a # -1 => ~N
  BY <1>11, <1>13 DEF select_valid
<1>26. T <=> a # -1 /\ IsNew(otadata[a])
  <2>1. CASE a # -1
    <3>1. o[a] = otadata[a] /\ otadata[a].crc /\ a \in 0 .. 1
      BY <1>7, <1>11, <2>1 DEF select_valid
    <3>. QED
      BY <1>15, <1>25, <2>1, <3>1 DEF IsNew
  <2>2. CASE a = -1
    BY <1>15, <2>2
  <2>. QED
    BY <2>1, <2>2
<1>27. T => a \in 0 .. 1 /\ o[a] = otadata[a] /\ q \in Entry
  <2>1. T => a \in 0 .. 1 /\ select_valid(o[a])
    BY <1>11, <1>15
  <2>2. "PENDING_VERIFY" \in States
    BY DEF States
  <2>. QED
    BY <1>7, <1>17, <2>1, <2>2, EntryExcept
<1>28. PICK S : S = SectorOp
  OBVIOUS
<1>29. r \in Seq(S) /\ s \in Seq(S) /\ t \in Seq(S)
  <2>1. r \in Seq(S)
    BY <1>7, <1>20, <1>28, RewriteType
  <2>2. s \in Seq(S)
    BY <1>7, <1>21, <1>28, RewriteType
  <2>3. t \in Seq(S)
    BY <1>22, <1>27, <1>28, RewriteType
  <2>. QED
    BY <2>1, <2>2, <2>3
<1>30. ASSUME NEW i \in 0 .. 1
       PROVE  OpsOf(job, i)' = (IF o[i] # otadata[i] THEN {Erased, o[i]} ELSE {})
                               \union (IF T /\ a = i THEN {Erased, q} ELSE {})
  <2>1. PICK u : u = job'
    OBVIOUS
  <2>2. OpsOf(u, i) = OpsOf(r, i) \union OpsOf(s, i) \union OpsOf(t, i)
    <3>1. Three(S, r, s, t, u)
      BY <1>19, <1>29, <2>1 DEF Three
    <3>. QED
      BY ONLY <3>1, OpsCat3
  <2>3. OpsOf(r, i) = IF i = 0 /\ o[0] # otadata[0] THEN {Erased, o[0]} ELSE {}
    <3>1. PICK j \in 0 .. 1 : j = 0
      OBVIOUS
    <3>2. PICK z : z = o[0]
      OBVIOUS
    <3>3. OpsOf(rewrite_ota_seq(j, z), i) = IF i = j THEN {Erased, z} ELSE {}
      BY ONLY i \in 0 .. 1, j \in 0 .. 1, OpsRewrite
    <3>. QED
      BY <1>20, <3>1, <3>2, <3>3, OpsNone
  <2>4. OpsOf(s, i) = IF i = 1 /\ o[1] # otadata[1] THEN {Erased, o[1]} ELSE {}
    <3>1. PICK j \in 0 .. 1 : j = 1
      OBVIOUS
    <3>2. PICK z : z = o[1]
      OBVIOUS
    <3>3. OpsOf(rewrite_ota_seq(j, z), i) = IF i = j THEN {Erased, z} ELSE {}
      BY ONLY i \in 0 .. 1, j \in 0 .. 1, OpsRewrite
    <3>. QED
      BY <1>21, <3>1, <3>2, <3>3, OpsNone
  <2>5. OpsOf(t, i) = IF T /\ a = i THEN {Erased, q} ELSE {}
    BY <1>22, <1>27, OpsNone, OpsRewrite
  <2>6. OpsOf(job, i)' = OpsOf(u, i)
    BY <2>1 DEF OpsOf
  <2>7. CASE i = 0
    BY <2>2, <2>3, <2>4, <2>5, <2>6, <2>7
  <2>8. CASE i = 1
    BY <2>2, <2>3, <2>4, <2>5, <2>6, <2>8
  <2>. QED
    BY <2>7, <2>8
<1>31. T => job' # <<>> /\ Last(job').to = q
  <2>1. SUFFICES ASSUME T PROVE job' # <<>> /\ Last(job').to = q
    OBVIOUS
  <2>2. PICK v, u : v = r \o s /\ u = job'
    OBVIOUS
  <2>3. Ends(S, v, a, q, u)
    BY <1>19, <1>22, <1>29, <2>1, <2>2 DEF Ends
  <2>4. u # <<>> /\ Last(u).to = q
    BY ONLY <2>3, LastCat
  <2>. QED
    BY <2>2, <2>4
<1>32. a = -1 => /\ \A i \in 0 .. 1 : Held(otadata[i]) = -1
                 /\ boot_index' = FACTORY_INDEX \/ (boot_index' = 0 /\ ~conf.factory)
  <2>1. a = -1 => Held(otadata[0]) = -1 /\ Held(otadata[1]) = -1
    BY <1>7, <1>11
  <2>2. a = -1 => boot_index' = FACTORY_INDEX \/ (boot_index' = 0 /\ ~conf.factory)
    BY <1>23
  <2>. QED
    BY <2>1, <2>2
<1>33. a # -1 => /\ a \in 0 .. 1 /\ 1 - a \in 0 .. 1 /\ Held(otadata[a]) # -1
                 /\ Held(otadata[1 - a]) <= Held(otadata[a]) /\ boot_index' = Slot(otadata[a])
  <2>1. SUFFICES ASSUME a # -1
                 PROVE /\ a \in 0 .. 1 /\ 1 - a \in 0 .. 1 /\ Held(otadata[a]) # -1
                       /\ Held(otadata[1 - a]) <= Held(otadata[a]) /\ boot_index' = Slot(otadata[a])
    OBVIOUS
  <2>2. /\ a \in 0 .. 1 /\ 1 - a \in 0 .. 1 /\ select_valid(o[a])
        /\ select_valid(o[1 - a]) => o[1 - a].ota_seq <= o[a].ota_seq
    BY <1>11, <2>1
  <2>3. /\ Held(otadata[a]) # -1 /\ o[a] = otadata[a]
        /\ (select_valid(o[1 - a]) <=> Held(otadata[1 - a]) # -1)
        /\ (select_valid(o[1 - a]) => o[1 - a] = otadata[1 - a])
    BY <1>7, <2>2
  <2>4. /\ Held(otadata[a]) \in Int /\ Held(otadata[a]) >= -1 /\ Held(otadata[a]) = otadata[a].ota_seq
        /\ Held(otadata[1 - a]) # -1 => Held(otadata[1 - a]) = otadata[1 - a].ota_seq
    <3>1. PICK e, f : e = otadata[a] /\ f = otadata[1 - a]
      OBVIOUS
    <3>2. e \in Entry /\ RecordOk(e) /\ f \in Entry /\ RecordOk(f) /\ Held(e) # -1
      BY <1>5, <2>2, <2>3, <3>1
    <3>3. Held(e) \in Int /\ Held(e) >= -1 /\ Held(e) = e.ota_seq
      BY <3>2, HeldIs
    <3>4. Held(f) # -1 => Held(f) = f.ota_seq
      BY <3>2, HeldIs
    <3>. QED
      BY <3>1, <3>3, <3>4
  <2>5. Held(otadata[1 - a]) <= Held(otadata[a])
    BY <2>2, <2>3, <2>4
  <2>6. boot_index' = Slot(otadata[a])
    BY <1>23, <1>25, <2>1, <2>3
  <2>. QED
    BY <2>2, <2>3, <2>5, <2>6
<1>34. ota_has_initial_contents' =>
          ~conf.factory /\ ~T /\ \A i \in 0 .. 1 : BlankOrBad(otadata[i])
  BY <1>7, <1>15, <1>24
<1>35. T => q = [otadata[a] EXCEPT !.ota_state = "PENDING_VERIFY"]
  BY <1>17, <1>27
<1>36. \A i \in 0 .. 1 :
          OpsOf(job, i)' =
            (IF Aborted(otadata[i]) # otadata[i] THEN {Erased, Aborted(otadata[i])} ELSE {})
            \union (IF T /\ a = i THEN {Erased, q} ELSE {})
  BY <1>7, <1>30
<1>37. Selection(a, T, q)
  BY <1>26, <1>31, <1>32, <1>33, <1>34, <1>35, <1>36 DEF Selection
<1>. QED
  BY <1>37

\* With one sector out of account the other one's number is the highest.
LEMMA HighestIs ==
    ASSUME NEW x \in Int, NEW y \in Int, x >= -1, y >= -1
    PROVE  /\ Boots(-1, y) = Named(y) /\ Boots(x, -1) = Named(x)
           /\ x >= y => Boots(x, y) = Named(x)
           /\ y >= x => Boots(x, y) = Named(y)
  BY DEF Boots, Highest

\* The records that the selection leaves, and those it has still to write.
LEMMA SelectRecords ==
    ASSUME OtaInv, Common, NEW a, NEW T, NEW tr, Selection(a, T, tr), NEW i \in 0 .. 1,
           NEW e \in OpsOf(job, i)'
    PROVE  /\ Held(e) = -1 /\ ~IsNew(e) /\ RecordOk(e)
           /\ e.crc => otadata[i].crc /\ Slot(e) = Slot(otadata[i])
           /\ IsPending(e) => /\ T /\ a = i /\ e = tr /\ e.ota_seq = otadata[i].ota_seq
                              /\ Slot(e) = Slot(otadata[i]) /\ IsNew(otadata[i])
           /\ ~IsPending(e) => ~select_valid(e)
           /\ BlankOrBad(otadata[i]) => BlankOrBad(e)
<1>0. PICK f : f = otadata[i]
  OBVIOUS
<1>1. f \in Entry /\ RecordOk(f)
  BY <1>0 DEF OtaInv, TypeOK, Common, RecordsOk, Records
<1>2. CASE e = Erased
  BY <1>2, ErasedIs
<1>3. CASE e = Aborted(f) /\ e # f
  <2>1. e.ota_seq = f.ota_seq /\ e.crc = f.crc /\ e.ota_state = "ABORTED" /\ Slot(e) = Slot(f)
    BY <1>1, <1>3, AbortedIs
  <2>2. BlankOrBad(f) => BlankOrBad(e)
    BY <2>1 DEF BlankOrBad
  <2>3. ~select_valid(e) /\ Held(e) = -1 /\ ~IsNew(e) /\ ~IsPending(e)
    BY <2>1 DEF select_valid, select_invalid, Held, IsNew, IsPending
  <2>4. RecordOk(e)
    BY <1>1, <2>1, <2>3 DEF RecordOk
  <2>. QED
    BY <1>0, <2>1, <2>2, <2>3, <2>4
<1>4. CASE T /\ a = i /\ e = tr
  <2>1. e = [f EXCEPT !.ota_state = "PENDING_VERIFY"] /\ IsNew(f)
    BY <1>0, <1>4 DEF Selection
  <2>2. "PENDING_VERIFY" \in States
    BY DEF States
  <2>3. e.ota_seq = f.ota_seq /\ e.crc = f.crc /\ e.ota_state = "PENDING_VERIFY" /\ Slot(e) = Slot(f)
    BY <1>1, <2>1, <2>2, StateIs
  <2>4. e.crc /\ IsPending(e) /\ Held(e) = -1 /\ ~IsNew(e)
    BY <2>1, <2>3 DEF IsNew, IsPending, Held
  <2>5. RecordOk(e)
    BY <1>1, <2>3, <2>4 DEF RecordOk
  <2>6. BlankOrBad(f) => BlankOrBad(e)
    BY <2>3 DEF BlankOrBad
  <2>. QED
    BY <1>0, <1>4, <2>1, <2>3, <2>4, <2>5, <2>6
<1>5. e = Erased \/ (e = Aborted(f) /\ e # f) \/ (T /\ a = i /\ e = tr)
  BY <1>0 DEF Selection
<1>. QED
  BY <1>2, <1>3, <1>4, <1>5

\* The bootloader selects a partition, and puts a new record on trial.
LEMMA SelectTrial == ASSUME OtaInv, OtaInv', TrialInv, get_selected_boot_partition PROVE TrialInv'
<1>1. /\ pc \in {"off", "reset"} /\ pc' = "load"
      /\ UNCHANGED <<conf, otadata, image, running, handle, home, next, goal, tried>>
  BY DEF get_selected_boot_partition, flash, ghost
<1>2. Common /\ OffInv /\ Same
  BY <1>1, SameIs DEF TrialInv
<1>3. job = <<>> /\ goal = next /\ Kept(Boots(Held(otadata[0]), Held(otadata[1])), next)
  BY <1>1, <1>2 DEF OffInv
<1>4. PICK a, T, tr : Selection(a, T, tr)
  BY <1>2, SelectIs
<1>5. PICK v : v = [i \in 0 .. 1 |-> Held(otadata[i])]
  OBVIOUS
<1>6. ASSUME NEW i \in 0 .. 1
      PROVE  /\ v[i] = Held(otadata[i]) /\ v[i] \in Int /\ v[i] >= -1
             /\ Records(i) = {otadata[i]} /\ Seen(i) = {v[i]} /\ OpsOf(job, i) = {}
             /\ otadata[i] \in Entry /\ RecordOk(otadata[i])
  <2>1. otadata[i] \in Entry /\ RecordOk(otadata[i])
    BY <1>2 DEF OtaInv, TypeOK, Common, RecordsOk, Records
  <2>2. v[i] = Held(otadata[i])
    BY <1>5
  <2>3. Held(otadata[i]) \in Int /\ Held(otadata[i]) >= -1
    BY <2>1, HeldIs
  <2>4. OpsOf(job, i) = {}
    BY <1>3, OpsNone
  <2>. QED
    BY <2>1, <2>2, <2>3, <2>4, SeenIs
<1>7. ASSUME NEW i \in 0 .. 1, IsNew(otadata[i])
      PROVE  TrialOk(otadata[i], i) /\ T /\ a = i
  <2>1. TrialOk(otadata[i], i)
    BY <1>2, <1>6, <1>7 DEF Common, RecordsOk
  <2>2. PICK e, f : e = otadata[i] /\ f = otadata[1 - i]
    OBVIOUS
  <2>3. e \in Entry /\ RecordOk(e) /\ f \in Entry /\ RecordOk(f) /\ f \in Records(1 - i)
    BY <1>6, <2>2 DEF Records
  <2>4. Held(e) = e.ota_seq /\ Held(e) # -1 /\ e.ota_seq \in Int /\ f.ota_seq \in Int
    BY <1>7, <2>2, <2>3, HeldIs
  <2>5. Held(f) # -1 => select_valid(f) /\ Held(f) = f.ota_seq
    BY <2>3, HeldIs
  <2>6. select_valid(f) => f.ota_seq < e.ota_seq
    BY <2>1, <2>2, <2>3 DEF TrialOk
  <2>7. a # -1
    BY <1>4, <2>2, <2>4 DEF Selection
  <2>8. a \in 0 .. 1 /\ Held(otadata[a]) # -1 /\ Held(otadata[1 - a]) <= Held(otadata[a])
    BY <1>4, <2>7 DEF Selection
  <2>9. a = i
    <3>1. SUFFICES ASSUME a = 1 - i PROVE FALSE
      BY <2>8
    <3>2. 1 - a = i /\ otadata[a] = f /\ otadata[1 - a] = e
      BY <2>2, <3>1
    <3>3. Held(f) # -1 /\ Held(e) <= Held(f)
      BY <2>8, <3>2
    <3>. QED
      BY <2>4, <2>5, <2>6, <3>3
  <2>. QED
    BY <1>4, <1>7, <2>1, <2>7, <2>9 DEF Selection
<1>8. ASSUME NEW i \in 0 .. 1
      PROVE  /\ \A x : x \in Seen(i)' <=> x = v[i] \/ (x = -1 /\ T /\ a = i)
             /\ ~(T /\ a = i) => Seen(i)' = {v[i]}
             /\ Records(i)' = {otadata[i]} \union OpsOf(job, i)'
  <2>1. Seen(i)' = {v[i]} \union {-1 : e \in OpsOf(job, i)'}
    BY <1>1, <1>6, SectorIs DEF Seen
  <2>2. Records(i)' = {otadata[i]} \union OpsOf(job, i)'
    BY <1>1 DEF Records
  <2>3. OpsOf(job, i)' # {} => v[i] = -1 \/ (T /\ a = i)
    <3>1. PICK f : f = otadata[i]
      OBVIOUS
    <3>2. Aborted(f) # f => Held(f) = -1
      BY <1>6, <3>1, AbortedIs
    <3>. QED
      BY <1>4, <1>6, <3>1, <3>2 DEF Selection
  <2>4. T /\ a = i => OpsOf(job, i)' # {}
    BY <1>4 DEF Selection
  <2>. QED
    BY <2>1, <2>2, <2>3, <2>4
<1>9. ASSUME NEW i \in 0 .. 1, NEW d, IsNew(otadata[i]), d.ota_seq = otadata[i].ota_seq
      PROVE  TrialOk(d, i)'
  <2>1. TrialOk(otadata[i], i) /\ T /\ a = i
    BY <1>7, <1>9
  <2>2. 1 - i \in 0 .. 1 /\ 1 - i # a
    BY <2>1
  <2>3. Seen(1 - i)' \subseteq Seen(1 - i)
    BY <1>6, <1>8, <2>2
  <2>4. ASSUME NEW f \in Records(1 - i)', select_valid(f) PROVE f \in Records(1 - i)
    <3>1. CASE f = otadata[1 - i]
      BY <3>1 DEF Records
    <3>2. CASE f \in OpsOf(job, 1 - i)'
      <4>1. /\ IsPending(f) => a = 1 - i
            /\ ~IsPending(f) => ~select_valid(f)
        BY <1>2, <1>4, <2>2, <3>2, SelectRecords
      <4>. QED
        BY <2>2, <2>4, <4>1
    <3>. QED
      BY <1>8, <2>2, <2>4, <3>1, <3>2
  <2>. QED
    BY <1>1, <1>9, <2>1, <2>3, <2>4, TrialMoves
<1>10. ASSUME T
       PROVE  /\ a \in 0 .. 1 /\ 1 - a \in 0 .. 1 /\ IsNew(otadata[a])
              /\ One(Named(v[1 - a]), home) /\ Named(v[1 - a]) \notin tried
  <2>1. a \in 0 .. 1 /\ 1 - a \in 0 .. 1 /\ IsNew(otadata[a])
    BY <1>4, <1>10 DEF Selection
  <2>2. TrialOk(otadata[a], a)
    BY <1>7, <2>1
  <2>3. v[1 - a] \in Seen(1 - a)
    BY <1>6, <2>1
  <2>. QED
    BY <2>1, <2>2, <2>3 DEF TrialOk
<1>11. PICK b : b = Boots(v[0], v[1])
  OBVIOUS
<1>12. ASSUME NEW x \in Seen(0)', NEW y \in Seen(1)'
       PROVE  \/ x = v[0] /\ y = v[1] /\ Boots(x, y) = b
              \/ T /\ Boots(x, y) = Named(v[1 - a])
  <2>1. v[0] \in Int /\ v[0] >= -1 /\ v[1] \in Int /\ v[1] >= -1
    BY <1>6
  <2>2. x = v[0] \/ (x = -1 /\ T /\ a = 0)
    BY <1>8, <1>12
  <2>3. y = v[1] \/ (y = -1 /\ T /\ a = 1)
    BY <1>8, <1>12
  <2>4. CASE x = v[0] /\ y = v[1]
    BY <1>11, <2>4
  <2>5. CASE x = -1 /\ T /\ a = 0
    <3>1. y = v[1] /\ 1 - a = 1
      BY <2>3, <2>5
    <3>2. Boots(-1, v[1]) = Named(v[1])
      BY <2>1, HighestIs
    <3>. QED
      BY <2>5, <3>1, <3>2
  <2>6. CASE y = -1 /\ T /\ a = 1
    <3>1. x = v[0] /\ 1 - a = 0
      BY <2>2, <2>6
    <3>2. Boots(v[0], -1) = Named(v[0])
      BY <2>1, HighestIs
    <3>. QED
      BY <2>6, <3>1, <3>2
  <2>. QED
    BY <2>2, <2>3, <2>4, <2>5, <2>6
<1>13. b \notin tried /\ Kept(b, next)
  <2>1. v[0] \in Seen(0) /\ v[1] \in Seen(1)
    BY <1>6
  <2>2. b \notin tried
    BY <1>2, <1>11, <2>1 DEF Common, SeenUntried
  <2>3. v[0] = Held(otadata[0]) /\ v[1] = Held(otadata[1])
    BY <1>6
  <2>. QED
    BY <1>3, <1>11, <2>2, <2>3
<1>14. First' = b /\ boot_index' \in {b, FACTORY_INDEX}
  <2>1. v[0] \in Int /\ v[0] >= -1 /\ v[1] \in Int /\ v[1] >= -1
    BY <1>6
  <2>2. CASE a = -1
    <3>1. v[0] = -1 /\ v[1] = -1 /\ (boot_index' = FACTORY_INDEX \/ (boot_index' = 0 /\ ~conf.factory))
      BY <1>4, <1>5, <2>2 DEF Selection
    <3>2. b = find_default_boot_partition
      BY <1>11, <3>1 DEF Boots, Highest, Named
    <3>3. CASE boot_index' = FACTORY_INDEX
      BY <1>1, <3>2, <3>3 DEF First, find_default_boot_partition
    <3>4. CASE boot_index' = 0 /\ ~conf.factory
      BY <3>2, <3>4, SlotsAre DEF First, find_default_boot_partition
    <3>. QED
      BY <3>1, <3>3, <3>4
  <2>3. CASE a # -1
    <3>1. /\ a \in 0 .. 1 /\ 1 - a \in 0 .. 1 /\ v[a] # -1 /\ v[1 - a] <= v[a]
          /\ boot_index' = Slot(otadata[a])
      BY <1>4, <1>5, <2>3 DEF Selection
    <3>2. Named(v[a]) = Slot(otadata[a])
      BY <1>6, <3>1, HeldIs
    <3>3. b = Named(v[a])
      <4>1. CASE a = 0
        BY <1>11, <2>1, <3>1, <4>1, HighestIs
      <4>2. CASE a = 1
        BY <1>11, <2>1, <3>1, <4>2, HighestIs
      <4>. QED
        BY <3>1, <4>1, <4>2
    <3>4. Slot(otadata[a]) \in OtaSlots
      BY <1>6, <3>1, SlotType
    <3>. QED
      BY <3>1, <3>2, <3>3, <3>4, SlotsAre DEF First
  <2>. QED
    BY <2>2, <2>3
<1>15. \A i \in 0 .. 1 : \A e \in OpsOf(job, i)' :
          /\ Held(e) = -1 /\ ~IsNew(e) /\ RecordOk(e)
          /\ e.crc => otadata[i].crc /\ Slot(e) = Slot(otadata[i])
          /\ IsPending(e) => /\ T /\ a = i /\ e = tr /\ e.ota_seq = otadata[i].ota_seq
                             /\ Slot(e) = Slot(otadata[i]) /\ IsNew(otadata[i])
          /\ BlankOrBad(otadata[i]) => BlankOrBad(e)
  BY <1>2, <1>4, SelectRecords
<1>16. Common'
  <2>1. ASSUME NEW i \in 0 .. 1, NEW e \in Records(i)' PROVE RecordOk(e)' /\ (IsNew(e)' => TrialOk(e, i)')
    <3>1. RecordOk(e)
      BY <1>6, <1>8, <1>15, <2>1
    <3>2. RecordOk(e)'
      BY <1>1, <1>2, <3>1 DEF RecordOk, Same
    <3>3. ASSUME IsNew(e) PROVE TrialOk(e, i)'
      <4>1. e = otadata[i]
        BY <1>8, <1>15, <2>1, <3>3
      <4>. QED
        BY <1>9, <3>3, <4>1
    <3>. QED
      BY <1>2, <3>2, <3>3 DEF Same
  <2>2. ASSUME NEW e \in Records(1)', NEW f \in Records(0)', IsNew(e)' \/ IsPending(e)', f.crc
        PROVE  Slot(e) # Slot(f)
    <3>1. IsNew(e) \/ IsPending(e)
      BY <1>2, <2>2 DEF Same
    <3>2. Slot(e) = Slot(otadata[1]) /\ (IsNew(otadata[1]) \/ IsPending(otadata[1]))
      BY <1>8, <1>15, <2>2, <3>1
    <3>3. Slot(f) = Slot(otadata[0]) /\ otadata[0].crc
      BY <1>8, <1>15, <2>2
    <3>. QED
      BY <1>2, <3>2, <3>3 DEF Common, SlotsApart, Records
  <2>3. ASSUME NEW x \in Seen(0)', NEW y \in Seen(1)' PROVE Boots(x, y)' \notin tried'
    <3>1. Boots(x, y) \notin tried
      BY <1>10, <1>12, <1>13, <2>3
    <3>. QED
      BY <1>1, <1>2, <3>1 DEF Same
  <2>4. RecordsOk'
    BY <2>1 DEF RecordsOk
  <2>5. SlotsApart'
    BY <2>2 DEF SlotsApart
  <2>6. SeenUntried'
    BY <2>3 DEF SeenUntried
  <2>. QED
    BY <1>1, <1>2, <2>4, <2>5, <2>6 DEF Common, OtaSlots
<1>17. (goal = next /\ Kept(First, next) /\ boot_index \notin tried)'
  <2>1. PICK w : w = next
    OBVIOUS
  <2>2. Kept(b, w)'
    BY <1>1, <1>13, <2>1, OneStays
  <2>3. Kept(First, next)'
    BY <1>1, <1>14, <2>1, <2>2 DEF Kept, Void, Bootable
  <2>4. boot_index' \notin tried'
    BY <1>1, <1>2, <1>13, <1>14, SlotsAre DEF Common
  <2>. QED
    BY <1>1, <1>3, <2>3, <2>4
<1>18. \A k \in DOMAIN job' : job'[k].op = "sector" /\ Held(job'[k].to) = -1
  <2>1. SUFFICES ASSUME NEW k \in DOMAIN job' PROVE job'[k].op = "sector" /\ Held(job'[k].to) = -1
    OBVIOUS
  <2>2. job'[k] \in Allowed'
    BY DEF OtaInv, RunningInv
  <2>3. job'[k] \in SectorOp'
    BY <1>1, <2>2 DEF Allowed
  <2>4. job'[k].op = "sector" /\ job'[k].at \in 0 .. 1
    BY <2>3 DEF SectorOp
  <2>5. job'[k].to \in OpsOf(job, job[k].at)'
    BY <2>4 DEF OpsOf
  <2>6. PICK i \in 0 .. 1 : i = job'[k].at
    BY <2>4
  <2>7. job'[k].to \in OpsOf(job, i)'
    BY <2>5, <2>6 DEF OpsOf
  <2>. QED
    BY <1>15, <2>4, <2>7
<1>19. (\A k \in DOMAIN job : job[k].op = "sector" /\ Held(job[k].to) = -1)'
  BY <1>1, <1>18 DEF Held
<1>20. ASSUME NEW x \in Seen(0)', NEW y \in Seen(1)' PROVE Kept(Boots(x, y), next \union home)'
  <2>1. PICK w : w = next \union home
    OBVIOUS
  <2>2. PICK c : c = Boots(x, y) /\ c = Boots(x, y)'
    BY <1>2 DEF Same
  <2>3. Kept(c, w)
    <3>1. CASE c = b
      BY <1>13, <2>1, <3>1, KeptMore
    <3>2. CASE T /\ c = Named(v[1 - a])
      BY <1>10, <2>1, <3>2, KeptMore
    <3>. QED
      BY <1>12, <1>20, <2>2, <3>1, <3>2
  <2>4. Kept(c, w)'
    BY <1>1, <2>3, OneStays
  <2>. QED
    BY <1>1, <2>1, <2>2, <2>4 DEF Kept, Void, Bootable
<1>21. ASSUME NEW i \in 0 .. 1, NEW e \in OpsOf(job, i)' PROVE ~IsNew(e)' /\ OnTrialAs(e, i, boot_index)'
  <2>1. ~IsNew(e)'
    BY <1>2, <1>15, <1>21 DEF Same
  <2>2. ASSUME IsPending(e) PROVE Slot(e) = boot_index' /\ TrialOk(e, i)'
    <3>1. /\ T /\ a = i /\ e.ota_seq = otadata[i].ota_seq /\ Slot(e) = Slot(otadata[i]) /\ IsNew(otadata[i])
      BY <1>15, <1>21, <2>2
    <3>2. boot_index' = Slot(otadata[i])
      BY <1>4, <3>1 DEF Selection
    <3>. QED
      BY <1>9, <3>1, <3>2
  <2>. QED
    BY <1>2, <2>1, <2>2 DEF OnTrialAs, Same
<1>22. ASSUME NEW i \in 0 .. 1, OpsOf(job, i)' = {}
       PROVE  ~IsNew(otadata[i])' /\ OnTrialAs(otadata[i], i, boot_index)'
  <2>1. ~IsNew(otadata[i])
    <3>1. SUFFICES ASSUME IsNew(otadata[i]) PROVE FALSE
      OBVIOUS
    <3>2. T /\ a = i
      BY <1>7, <3>1
    <3>. QED
      BY <1>4, <1>22, <3>2 DEF Selection
  <2>2. ~IsPending(otadata[i])
    <3>1. SUFFICES ASSUME IsPending(otadata[i]) PROVE FALSE
      OBVIOUS
    <3>2. PICK f, z : f = otadata[i] /\ z = Aborted(f)
      OBVIOUS
    <3>3. f \in Entry /\ f.ota_state = "PENDING_VERIFY" /\ z = [f EXCEPT !.ota_state = "ABORTED"]
      BY <1>6, <3>1, <3>2 DEF IsPending, Aborted
    <3>4. "ABORTED" \in States
      BY DEF States
    <3>5. z.ota_state = "ABORTED"
      BY <3>3, <3>4, StateIs
    <3>6. z # f
      BY <3>3, <3>5
    <3>. QED
      BY <1>4, <1>22, <3>2, <3>6 DEF Selection
  <2>. QED
    BY <1>1, <2>1, <2>2, SectorIs DEF OnTrialAs
<1>23. \/ job' # <<>> /\ IsPending(Last(job).to)'
       \/ \A x \in Seen(0)', y \in Seen(1)' : Boots(x, y)' = First'
  <2>1. CASE T
    <3>1. job' # <<>> /\ Last(job').to = tr /\ a \in 0 .. 1 /\ tr \in OpsOf(job, a)'
      BY <1>4, <1>10, <2>1 DEF Selection
    <3>2. tr = [otadata[a] EXCEPT !.ota_state = "PENDING_VERIFY"] /\ IsNew(otadata[a])
      BY <1>4, <1>10, <2>1 DEF Selection
    <3>3. "PENDING_VERIFY" \in States
      BY DEF States
    <3>4. tr.crc = otadata[a].crc /\ tr.ota_state = "PENDING_VERIFY"
      BY <1>6, <3>1, <3>2, <3>3, StateIs
    <3>5. IsPending(tr)
      BY <3>2, <3>4 DEF IsPending, IsNew
    <3>6. IsPending(Last(job).to)'
      BY <1>1, <3>1, <3>5 DEF IsPending
    <3>. QED
      BY <3>1, <3>6
  <2>2. CASE ~T
    BY <1>2, <1>12, <1>14, <2>2 DEF Same
  <2>. QED
    BY <2>1, <2>2
<1>24. ota_has_initial_contents' =>
         ~conf'.factory /\ \A i \in 0 .. 1 : \A e \in Records(i)' : BlankOrBad(e)
  BY <1>1, <1>4, <1>8, <1>15 DEF Selection
<1>25. LoadInv'
  BY <1>17, <1>19, <1>20, <1>21, <1>22, <1>23, <1>24 DEF LoadInv
<1>. QED
  BY <1>1, <1>16, <1>25 DEF TrialInv, OffInv, RunInv

(***************************************************************************)
(* The bootloader starts an application.                                   *)
(***************************************************************************)
\* The records of the two sectors.
LEMMA EntriesAre ==
    ASSUME OtaInv, Common, NEW i \in 0 .. 1
    PROVE  otadata[i] \in Entry /\ RecordOk(otadata[i]) /\ otadata[i] \in Records(i)
  BY DEF OtaInv, TypeOK, Common, RecordsOk, Records

\* The partition that the bootloader has selected is the one it starts, if it can.
LEMMA LoadsFirst ==
    ASSUME OtaInv, NEW P, P = {p \in Partitions : Bootable(p)}, Bootable(First)
    PROVE  FirstBootable(boot_index, P) = First /\ First \in Partitions
<1>1. PICK start \in Partitions : start = boot_index
  BY DEF OtaInv, TypeOK
<1> DEFINE K == {k \in 1 .. AppCount + 1 : LoadOrder(start)[k] \in P}
<1>2. First \in P /\ First \in Partitions
  <2>1. First \in Partitions
    BY <1>1, SlotsAre DEF First
  <2>. QED
    BY <2>1
<1>3. K \subseteq Nat \ {0}
  BY OtaAssumption
<1>4. 1 \in 1 .. AppCount + 1 /\ 2 \in 1 .. AppCount + 1
  BY OtaAssumption
<1>5. LoadOrder(start)[1] = start
  BY <1>1, <1>4, OtaAssumption DEF LoadOrder, Partitions, OtaSlots, FACTORY_INDEX
<1>6. CASE start = FACTORY_INDEX /\ ~conf.factory
  <2>1. LoadOrder(start)[2] = 0
    BY <1>4, <1>6, OtaAssumption DEF LoadOrder, FACTORY_INDEX
  <2>2. First = 0
    BY <1>1, <1>6 DEF First, find_default_boot_partition
  <2>3. start \notin P
    BY <1>6 DEF Bootable
  <2>4. 2 \in K /\ 1 \notin K
    BY <1>2, <1>4, <1>5, <2>1, <2>2, <2>3
  <2> HIDE DEF K
  <2>5. Min(K) \in K /\ \A y \in K : Min(K) <= y
    BY <1>3, <2>4, MinOfNat
  <2>6. Min(K) = 2
    <3>1. Min(K) \in Nat \ {0} /\ Min(K) <= 2 /\ Min(K) # 1
      BY <1>3, <2>4, <2>5
    <3>. QED
      BY <3>1
  <2>. QED
    BY <1>1, <1>2, <2>1, <2>2, <2>6 DEF FirstBootable, K
<1>7. CASE ~(start = FACTORY_INDEX /\ ~conf.factory)
  <2>2. First = start
    BY <1>1, <1>7 DEF First, find_default_boot_partition
  <2>4. 1 \in K
    BY <1>2, <1>4, <1>5, <2>2
  <2> HIDE DEF K
  <2>5. Min(K) \in K /\ \A y \in K : Min(K) <= y
    BY <1>3, <2>4, MinOfNat
  <2>6. Min(K) = 1
    <3>1. Min(K) \in Nat \ {0} /\ Min(K) <= 1
      BY <1>3, <2>4, <2>5
    <3>. QED
      BY <3>1
  <2>. QED
    BY <1>1, <1>2, <1>5, <2>2, <2>6 DEF FirstBootable, K
<1>. QED
  BY <1>6, <1>7

\* esp_ota_get_state_partition finds the record that is on trial.
LEMMA OnTrialIs ==
    ASSUME OtaInv, Common, NEW p
    PROVE  OnTrial(p) <=> \E i \in 0 .. 1 : IsPending(otadata[i]) /\ Slot(otadata[i]) = p
<1> DEFINE named == {i \in 0 .. 1 : otadata[i].crc /\ Slot(otadata[i]) = p}
<1>1. OnTrial(p) <=> /\ conf.rollback
                     /\ (IF named = {} THEN "NOT_FOUND" ELSE otadata[Min(named)].ota_state) = "PENDING_VERIFY"
  BY DEF OnTrial, esp_ota_get_state_partition
<1>2. named \subseteq 0 .. 1
  OBVIOUS
<1>3. named # {} => Min(named) \in named /\ \A y \in named : Min(named) <= y
  BY MinOfNat
<1>4. ASSUME OnTrial(p) PROVE \E i \in 0 .. 1 : IsPending(otadata[i]) /\ Slot(otadata[i]) = p
  <2>1. named # {}
    BY <1>1, <1>4
  <2>2. PICK m \in named : m = Min(named)
    BY <1>3, <2>1
  <2>3. otadata[m].ota_state = "PENDING_VERIFY" /\ conf.rollback
    BY <1>1, <1>4, <2>1, <2>2
  <2>. QED
    BY <2>2, <2>3 DEF IsPending
<1>5. ASSUME NEW i \in 0 .. 1, IsPending(otadata[i]), Slot(otadata[i]) = p PROVE OnTrial(p)
  <2>1. i \in named /\ conf.rollback /\ otadata[i].ota_state = "PENDING_VERIFY"
    BY <1>5 DEF IsPending
  <2>2. i = 1 => 0 \notin named
    BY <1>5 DEF Common, SlotsApart, Records
  <2>3. Min(named) = i
    <3> HIDE DEF named
    <3>1. Min(named) \in 0 .. 1 /\ Min(named) \in named /\ Min(named) <= i
      BY <1>2, <1>3, <2>1
    <3>. QED
      BY <2>1, <2>2, <3>1
  <2>. QED
    BY <1>1, <2>1, <2>3
<1>. QED
  BY <1>4, <1>5

\* esp_ota_get_boot_partition: the record with the highest number, of those that can be
\* selected; a record on trial is always that one.
LEMMA BootIs ==
    ASSUME OtaInv, Common, NEW a, a = get_active_otadata(otadata)
    PROVE  /\ (\A i \in 0 .. 1 : ~IsPending(otadata[i]))
                => esp_ota_get_boot_partition = Boots(Held(otadata[0]), Held(otadata[1]))
           /\ \A i \in 0 .. 1 : IsPending(otadata[i]) /\ TrialOk(otadata[i], i)
                => a = i /\ esp_ota_get_boot_partition = Slot(otadata[i])
           /\ a # -1 => esp_ota_get_boot_partition = Slot(otadata[a])
           /\ a = -1 => esp_ota_get_boot_partition = find_default_boot_partition
<1>1. PICK e, f : e = otadata[0] /\ f = otadata[1]
  OBVIOUS
<1>2. e \in Entry /\ RecordOk(e) /\ f \in Entry /\ RecordOk(f)
  BY <1>1, EntriesAre
<1>3. \/ a = -1 /\ ~select_valid(otadata[0]) /\ ~select_valid(otadata[1])
      \/ /\ a \in 0 .. 1 /\ a # -1 /\ 1 - a \in 0 .. 1 /\ select_valid(otadata[a])
         /\ select_valid(otadata[1 - a]) => otadata[1 - a].ota_seq <= otadata[a].ota_seq
  BY ActiveIs DEF OtaInv, TypeOK
<1>4. a # -1 => esp_ota_get_boot_partition = Slot(otadata[a])
  BY <1>3 DEF esp_ota_get_boot_partition, select_valid
<1>5. a = -1 => esp_ota_get_boot_partition = find_default_boot_partition
  BY DEF esp_ota_get_boot_partition
<1>6. /\ Held(e) \in Int /\ Held(e) >= -1 /\ e.ota_seq \in Int
      /\ Held(e) # -1 => select_valid(e) /\ Held(e) = e.ota_seq /\ Named(Held(e)) = Slot(e)
      /\ select_valid(e) => e.ota_seq >= 0
      /\ select_valid(e) /\ ~IsPending(e) => Held(e) = e.ota_seq
      /\ IsPending(e) => select_valid(e)
  BY <1>2, HeldIs
<1>7. /\ Held(f) \in Int /\ Held(f) >= -1 /\ f.ota_seq \in Int
      /\ Held(f) # -1 => select_valid(f) /\ Held(f) = f.ota_seq /\ Named(Held(f)) = Slot(f)
      /\ select_valid(f) => f.ota_seq >= 0
      /\ select_valid(f) /\ ~IsPending(f) => Held(f) = f.ota_seq
      /\ IsPending(f) => select_valid(f)
  BY <1>2, HeldIs
<1>8. ASSUME \A i \in 0 .. 1 : ~IsPending(otadata[i])
      PROVE  esp_ota_get_boot_partition = Boots(Held(e), Held(f))
  <2>1. ~IsPending(e) /\ ~IsPending(f)
    BY <1>1, <1>8
  <2>2. CASE a = -1
    <3>1. Held(e) = -1 /\ Held(f) = -1
      BY <1>1, <1>3, <1>6, <1>7, <2>2
    <3>2. Boots(Held(e), Held(f)) = find_default_boot_partition
      BY <3>1 DEF Boots, Highest, Named
    <3>. QED
      BY <1>5, <2>2, <3>2
  <2>3. CASE a = 0
    <3>1. select_valid(e) /\ (select_valid(f) => f.ota_seq <= e.ota_seq)
      BY <1>1, <1>3, <2>3
    <3>2. Held(e) >= Held(f) /\ Held(e) # -1
      BY <1>6, <1>7, <2>1, <3>1
    <3>3. Boots(Held(e), Held(f)) = Named(Held(e))
      BY <1>6, <1>7, <3>2, HighestIs
    <3>. QED
      BY <1>1, <1>4, <1>6, <2>3, <3>2, <3>3
  <2>4. CASE a = 1
    <3>1. select_valid(f) /\ (select_valid(e) => e.ota_seq <= f.ota_seq)
      BY <1>1, <1>3, <2>4
    <3>2. Held(f) >= Held(e) /\ Held(f) # -1
      BY <1>6, <1>7, <2>1, <3>1
    <3>3. Boots(Held(e), Held(f)) = Named(Held(f))
      BY <1>6, <1>7, <3>2, HighestIs
    <3>. QED
      BY <1>1, <1>4, <1>7, <2>4, <3>2, <3>3
  <2>. QED
    BY <1>3, <2>2, <2>3, <2>4
<1>9. ASSUME NEW i \in 0 .. 1, IsPending(otadata[i]), TrialOk(otadata[i], i) PROVE a = i
  <2>1. select_valid(otadata[i])
    BY <1>1, <1>6, <1>7, <1>9
  <2>2. 1 - i \in 0 .. 1
    OBVIOUS
  <2>3. select_valid(otadata[1 - i]) => otadata[1 - i].ota_seq < otadata[i].ota_seq
    BY <1>9 DEF TrialOk, Records
  <2>4. otadata[0].ota_seq \in Int /\ otadata[1].ota_seq \in Int
    BY <1>1, <1>6, <1>7
  <2>5. CASE i = 0
    BY <1>3, <2>1, <2>3, <2>4, <2>5
  <2>6. CASE i = 1
    BY <1>3, <2>1, <2>3, <2>4, <2>6
  <2>. QED
    BY <2>5, <2>6
<1>10. \A i \in 0 .. 1 : IsPending(otadata[i]) /\ TrialOk(otadata[i], i)
                => a = i /\ esp_ota_get_boot_partition = Slot(otadata[i])
  BY <1>4, <1>9
<1>. QED
  BY <1>1, <1>4, <1>5, <1>8, <1>10

\* The invariant of a running application that has nothing left to write.
LEMMA RunIdle ==
    ASSUME UNCHANGED conf, job' = <<>>, goal' = next',
           NEW b, b = Boots(Held(otadata'[0]), Held(otadata'[1])), One(b, next)', b \notin tried',
           handle' # NoHandle => running' \in next',
           \A i \in 0 .. 1 : IsNew(otadata'[i]) =>
              running' # Slot(otadata'[i]) /\ goal' = {Slot(otadata'[i])} /\ handle' = NoHandle,
           ~(IsPending(otadata'[0]) /\ IsPending(otadata'[1])),
           \A i \in 0 .. 1 : IsPending(otadata'[i]) /\ goal' = {running'} => Slot(otadata'[i]) = running',
           \A i \in 0 .. 1 : IsPending(otadata'[i]) /\ Slot(otadata'[i]) = running' =>
              TrialOk(otadata[i], i)' /\ handle' = NoHandle
    PROVE  RunInv'
<1>1. Same
  BY SameIs
<1>2. \A i \in 0 .. 1 : OpsOf(job, i)' = {}
  BY DEF OpsOf
<1>3. \A i \in 0 .. 1 : Records(i)' = {otadata'[i]} /\ Seen(i)' = {Held(otadata'[i])}
  BY <1>2, SectorIs DEF Records, Seen
<1>4. \A i \in 0 .. 1 : End(i)' = Held(otadata'[i])
  BY <1>2, SectorIs DEF End, IsLast
<1>5. PICK x, y : x = Held(otadata'[0]) /\ y = Held(otadata'[1])
  OBVIOUS
<1>6. Boots(x, y)' = b /\ Seen(0)' = {x} /\ Seen(1)' = {y} /\ End(0)' = x /\ End(1)' = y
  BY <1>1, <1>3, <1>4, <1>5 DEF Same
<1>7. Boots(End(0), End(1))' = b
  BY <1>6 DEF Boots, Named
<1>8. (\A s \in Seen(0), t \in Seen(1) : One(Boots(s, t), next))'
  BY <1>6 DEF One, Bootable
<1>9. (One(Boots(End(0), End(1)), goal) /\ Boots(End(0), End(1)) \notin tried)'
  BY <1>7 DEF One, Bootable
<1>10. (handle # NoHandle => goal = next /\ running \in next)'
  BY DEF NoHandle
<1>11. ASSUME NEW i \in 0 .. 1, NEW e \in Records(i)', IsNew(e)'
       PROVE  (running # Slot(e) /\ goal = {Slot(e)} /\ handle = NoHandle)'
  <2>1. e = otadata'[i] /\ IsNew(e)
    BY <1>1, <1>3, <1>11 DEF Same
  <2>. QED
    BY <2>1 DEF NoHandle, Slot
<1>12. (~(IsPending(otadata[0]) /\ IsPending(otadata[1])))'
  BY SectorIs
<1>13. \A i \in 0 .. 1 : (IsPending(otadata[i]) /\ goal = {running} => Slot(otadata[i]) = running)'
  BY SectorIs DEF Slot
<1>14. \A i \in 0 .. 1 : (IsPending(otadata[i]) /\ Slot(otadata[i]) = running =>
          TrialOk(otadata[i], i) /\ handle = NoHandle)'
  BY SectorIs DEF Slot, NoHandle
<1>15. DOMAIN job' = {}
  OBVIOUS
<1>. QED
  BY <1>2, <1>8, <1>9, <1>10, <1>11, <1>12, <1>13, <1>14, <1>15 DEF RunInv

\* What the bootloader finds when it starts an application.
LEMMA LoadFacts ==
    ASSUME OtaInv, TrialInv, load_boot_image, NEW p, p = running'
    PROVE  /\ pc' = "run" /\ p \in Partitions /\ Bootable(p) /\ job = <<>> /\ handle = NoHandle
           /\ job' = set_actual_ota_seq(p)
           /\ home' = (IF OnTrial(p) THEN home ELSE OwnRecord(p)) /\ next' = home' /\ goal' = home'
           /\ tried' = IF OnTrial(p) THEN tried \union {p} ELSE tried
           /\ UNCHANGED <<conf, otadata, image, boot_index, ota_has_initial_contents, handle>>
           /\ p = First \/ Void(next)
           /\ Common /\ LoadInv /\ pc = "load"
<1> DEFINE P == {q \in Partitions : Bootable(q)}
<1>1. P # {}
  BY DEF OtaInv, AlwaysBootable
<1>2. PICK S : S = P
  OBVIOUS
<1>3. LoadFrom(S) /\ S # {}
  BY <1>1, <1>2 DEF load_boot_image
<1>4. /\ pc = "load" /\ job = <<>> /\ p = FirstBootable(boot_index, S) /\ pc' = "run"
      /\ job' = set_actual_ota_seq(p)
      /\ home' = (IF OnTrial(p) THEN home ELSE OwnRecord(p)) /\ next' = home' /\ goal' = home'
      /\ tried' = (IF OnTrial(p) THEN tried \union {p} ELSE tried)
      /\ UNCHANGED <<conf, otadata, image, boot_index, ota_has_initial_contents, handle>>
  BY <1>3 DEF LoadFrom, flash
<1>5. boot_index \in Partitions /\ S \subseteq Partitions
  BY <1>2 DEF OtaInv, TypeOK
<1>6. p \in S
  BY <1>3, <1>4, <1>5, FirstBootableType
<1>7. handle = NoHandle
  BY <1>4 DEF OtaInv, RunningInv
<1>8. p = First \/ Void(next)
  <2>1. Bootable(First) => p = First
    BY <1>2, <1>4, LoadsFirst
  <2>. QED
    BY <1>4, <2>1 DEF TrialInv, LoadInv, Kept
<1>. QED
  BY <1>2, <1>4, <1>6, <1>7, <1>8 DEF TrialInv

\* It starts one that is on trial.
LEMMA LoadOnTrial ==
    ASSUME OtaInv, TrialInv, load_boot_image, OnTrial(running') PROVE TrialInv'
<1>1. PICK p : p = running'
  OBVIOUS
<1>2. /\ pc' = "run" /\ p \in Partitions /\ Bootable(p) /\ job = <<>> /\ handle = NoHandle
      /\ job' = set_actual_ota_seq(p) /\ home' = home /\ next' = home /\ goal' = home
      /\ tried' = tried \union {p}
      /\ UNCHANGED <<conf, otadata, image, boot_index, ota_has_initial_contents, handle>>
      /\ Common /\ LoadInv /\ pc = "load"
  BY <1>1, LoadFacts
<1>3. Same
  BY <1>2, SameIs
<1>4. \A i \in 0 .. 1 : OpsOf(job, i) = {} /\ Seen(i) = {Held(otadata[i])} /\ Records(i) = {otadata[i]}
  BY <1>2, OpsNone, SeenIs
<1>5. \A i \in 0 .. 1 : otadata[i] \in Entry /\ RecordOk(otadata[i])
  BY <1>2, EntriesAre
<1>6. \A i \in 0 .. 1 : /\ ~IsNew(otadata[i])
                        /\ IsPending(otadata[i]) => Slot(otadata[i]) = boot_index /\ TrialOk(otadata[i], i)
  BY <1>2, <1>4 DEF LoadInv, OnTrialAs
<1>7. PICK i \in 0 .. 1 : IsPending(otadata[i]) /\ Slot(otadata[i]) = p
  BY <1>1, <1>2, OnTrialIs
<1>8. boot_index = p /\ TrialOk(otadata[i], i) /\ 1 - i \in 0 .. 1
  BY <1>6, <1>7
<1>9. PICK e, f, x, y : e = otadata[i] /\ f = otadata[1 - i] /\ x = Held(e) /\ y = Held(f)
  OBVIOUS
<1>10. e \in Entry /\ RecordOk(e) /\ f \in Entry /\ RecordOk(f)
  BY <1>5, <1>8, <1>9
<1>11. x = -1 /\ y \in Int /\ y >= -1 /\ (y # -1 => Named(y) = Slot(f)) /\ e.ota_seq >= 0 /\ e.crc
  BY <1>7, <1>9, <1>10, HeldIs
<1>12. One(Named(y), home) /\ Named(y) # p /\ Named(y) \notin tried
  BY <1>4, <1>7, <1>8, <1>9 DEF TrialOk
<1>13. job' = <<>>
  <2>1. ota_has_initial_contents => BlankOrBad(e)
    BY <1>2, <1>4, <1>9 DEF LoadInv
  <2>2. ~BlankOrBad(e)
    BY <1>10, <1>11 DEF BlankOrBad, UINT32_MAX
  <2>. QED
    BY <1>2, <2>1, <2>2 DEF set_actual_ota_seq
<1>14. Boots(Held(otadata[0]), Held(otadata[1])) = Named(y)
  <2>0. Boots(-1, y) = Named(y) /\ Boots(y, -1) = Named(y)
    BY <1>11, HighestIs
  <2>1. CASE i = 0
    <3>2. i = 0 /\ 1 - i = 1
      BY <2>1
    <3>3. otadata[i] = otadata[0] /\ otadata[1 - i] = otadata[1]
      BY <3>2
    <3>1. Held(otadata[0]) = -1 /\ Held(otadata[1]) = y
      BY <1>9, <1>11, <3>3
    <3>. QED
      BY <2>0, <3>1
  <2>2. CASE i = 1
    <3>2. i = 1 /\ 1 - i = 0
      BY <2>2
    <3>3. otadata[i] = otadata[1] /\ otadata[1 - i] = otadata[0]
      BY <3>2
    <3>1. Held(otadata[1]) = -1 /\ Held(otadata[0]) = y
      BY <1>9, <1>11, <3>3
    <3>. QED
      BY <2>0, <3>1
  <2>. QED
    BY <2>1, <2>2
<1>15. \A j \in 0 .. 1 : OpsOf(job, j)' = {}
  BY <1>13 DEF OpsOf
<1>16. \A j \in 0 .. 1 : Records(j)' = {otadata[j]} /\ Seen(j)' = {Held(otadata[j])}
  BY <1>2, <1>15, SectorIs DEF Records, Seen
<1>17. \A j \in 0 .. 1 : j = i \/ j = 1 - i
  OBVIOUS
<1>18. Common'
  <2>1. ASSUME NEW j \in 0 .. 1, NEW d \in Records(j)' PROVE RecordOk(d)' /\ ~IsNew(d)'
    <3>1. d = otadata[j] /\ ~IsNew(d) /\ RecordOk(d)
      BY <1>5, <1>6, <1>16, <2>1
    <3>2. ~IsNew(d)'
      BY <1>3, <3>1 DEF Same
    <3>3. Held(d) # -1 => Slot(d) # p
      <4>1. CASE j = i
        BY <1>9, <1>11, <3>1, <4>1
      <4>2. CASE j = 1 - i
        BY <1>9, <1>11, <1>12, <3>1, <4>2
      <4>. QED
        BY <1>17, <4>1, <4>2
    <3>4. RecordOk(d)'
      BY <1>2, <1>3, <3>1, <3>3 DEF RecordOk, Same
    <3>. QED
      BY <3>2, <3>4
  <2>2. RecordsOk'
    BY <2>1 DEF RecordsOk
  <2>3. NoMore
    BY <1>4, <1>16 DEF NoMore
  <2>4. SlotsApart'
    BY <1>2, <2>3, ApartStays DEF Common
  <2>5. SeenUntried'
    <3>1. PICK u, w : u = Held(otadata[0]) /\ w = Held(otadata[1])
      OBVIOUS
    <3>2. Boots(u, w)' = Named(y)
      BY <1>3, <1>14, <3>1 DEF Same
    <3>. QED
      BY <1>2, <1>12, <1>16, <3>1, <3>2 DEF SeenUntried
  <2>6. p \in OtaSlots
    BY <1>5, <1>7, SlotType
  <2>. QED
    BY <1>2, <2>2, <2>4, <2>5, <2>6 DEF Common, OtaSlots
<1>19. ASSUME NEW j \in 0 .. 1, IsPending(otadata'[j]) PROVE Slot(otadata'[j]) = p /\ TrialOk(otadata[j], j)'
  <2>1. otadata'[j] = otadata[j] /\ IsPending(otadata[j])
    BY <1>2, <1>19
  <2>2. Slot(otadata[j]) = p /\ TrialOk(otadata[j], j)
    BY <1>6, <1>8, <2>1
  <2>3. PICK d : d = otadata[j]
    OBVIOUS
  <2>4. Seen(1 - j)' = Seen(1 - j) /\ Records(1 - j)' = Records(1 - j)
    <3>1. 1 - j \in 0 .. 1
      OBVIOUS
    <3>. QED
      BY <1>4, <1>16, <3>1
  <2>5. ASSUME NEW z \in Seen(1 - j)'
        PROVE (One(Named(z), home) /\ Named(z) # Slot(d) /\ Named(z) \notin tried)'
    <3>1. One(Named(z), home) /\ Named(z) # p /\ Named(z) \notin tried
      BY <2>2, <2>4, <2>5 DEF TrialOk
    <3>2. PICK n, w : n = Named(z) /\ w = home
      OBVIOUS
    <3>3. Named(z)' = n
      BY <1>3, <3>2 DEF Same
    <3>4. One(n, w)'
      BY <1>2, <3>1, <3>2, OneStays
    <3>5. One(Named(z), home)'
      BY <1>2, <3>2, <3>3, <3>4 DEF One, Bootable
    <3>. QED
      BY <1>2, <2>2, <2>3, <3>1, <3>2, <3>3, <3>5
  <2>6. TrialOk(d, j)'
    BY <2>2, <2>3, <2>4, <2>5 DEF TrialOk
  <2>. QED
    BY <1>2, <2>1, <2>2, <2>3, <2>6 DEF TrialOk
<1>20. RunInv'
  <2>1. PICK b : b = Named(y)
    OBVIOUS
  <2>2. b = Boots(Held(otadata'[0]), Held(otadata'[1])) /\ b \notin tried'
    BY <1>2, <1>12, <1>14, <2>1
  <2>3. One(b, next)'
    <3>1. PICK w : w = home
      OBVIOUS
    <3>2. One(b, w)'
      BY <1>2, <1>12, <2>1, <3>1, OneStays
    <3>. QED
      BY <1>2, <3>1, <3>2 DEF One
  <2>4. ~(IsPending(otadata'[0]) /\ IsPending(otadata'[1]))
    <3>1. SUFFICES ASSUME IsPending(otadata[0]), IsPending(otadata[1]) PROVE FALSE
      BY <1>2
    <3>2. Slot(otadata[0]) = Slot(otadata[1]) /\ otadata[0].crc
      BY <1>6, <3>1 DEF IsPending
    <3>. QED
      BY <1>2, <3>1, <3>2 DEF Common, SlotsApart, Records
  <2>5. goal' = next' /\ handle' = NoHandle
    BY <1>2
  <2>6. \A j \in 0 .. 1 : ~IsNew(otadata'[j])
    BY <1>2, <1>6
  <2>. QED
    BY <1>1, <1>2, <1>13, <1>19, <2>2, <2>3, <2>4, <2>5, <2>6, RunIdle
<1>. QED
  BY <1>2, <1>18, <1>20 DEF TrialInv, OffInv, LoadInv

\* A job that rewrites one record.
LEMMA RewriteJob ==
    ASSUME NEW j \in 0 .. 1, NEW e, NEW s, s = rewrite_ota_seq(j, e)
    PROVE  /\ \A i \in 0 .. 1 : OpsOf(s, i) = IF i = j THEN {Erased, e} ELSE {}
           /\ s # <<>> /\ Last(s).op = "sector" /\ Last(s).at = j /\ Last(s).to = e
           /\ DOMAIN s = 1 .. 2 /\ Len(s) = 2 /\ s[1].to = Erased
           /\ \A k \in DOMAIN s : s[k].op = "sector" /\ s[k].at = j
<1>1. \A i \in 0 .. 1 : OpsOf(s, i) = IF i = j THEN {Erased, e} ELSE {}
  BY OpsRewrite
<1>2. PICK a, b : a = SetSector(j, Erased) /\ b = SetSector(j, e)
  OBVIOUS
<1>3. a.op = "sector" /\ a.at = j /\ a.to = Erased /\ b.op = "sector" /\ b.at = j /\ b.to = e
  BY <1>2 DEF SetSector
<1>4. s = <<a, b>>
  BY <1>2 DEF rewrite_ota_seq
<1>5. DOMAIN s = 1 .. 2 /\ Len(s) = 2 /\ s[1] = a /\ s[2] = b /\ s # <<>>
  BY <1>4
<1>6. Last(s) = b
  BY <1>5 DEF Last
<1>. QED
  BY <1>1, <1>3, <1>5, <1>6

\* It starts one that is not on trial.
LEMMA LoadOwn ==
    ASSUME OtaInv, TrialInv, load_boot_image, ~OnTrial(running') PROVE TrialInv'
<1>1. PICK p : p = running'
  OBVIOUS
<1>2. /\ pc' = "run" /\ p \in Partitions /\ Bootable(p) /\ job = <<>> /\ handle = NoHandle
      /\ job' = set_actual_ota_seq(p) /\ home' = OwnRecord(p) /\ next' = home' /\ goal' = home'
      /\ tried' = tried
      /\ UNCHANGED <<conf, otadata, image, boot_index, ota_has_initial_contents, handle>>
      /\ p = First \/ Void(next)
      /\ Common /\ LoadInv /\ pc = "load"
  BY <1>1, LoadFacts
<1>3. Same
  BY <1>2, SameIs
<1>4. \A i \in 0 .. 1 : OpsOf(job, i) = {} /\ Seen(i) = {Held(otadata[i])} /\ Records(i) = {otadata[i]}
  BY <1>2, OpsNone, SeenIs
<1>5. \A i \in 0 .. 1 : otadata[i] \in Entry /\ RecordOk(otadata[i])
  BY <1>2, EntriesAre
<1>6. \A i \in 0 .. 1 : /\ ~IsNew(otadata[i])
                        /\ IsPending(otadata[i]) => Slot(otadata[i]) = boot_index /\ TrialOk(otadata[i], i)
  BY <1>2, <1>4 DEF LoadInv, OnTrialAs
<1>7. \A i \in 0 .. 1 : IsPending(otadata[i]) => Slot(otadata[i]) # p
  BY <1>1, <1>2, OnTrialIs
<1>8. PICK x, y : x = Held(otadata[0]) /\ y = Held(otadata[1])
  OBVIOUS
<1>9. PICK b : b = Boots(x, y)
  OBVIOUS
<1>10. b \notin tried
  BY <1>2, <1>4, <1>8, <1>9 DEF Common, SeenUntried
<1>11. \/ home' = {p} /\ b = p /\ \A i \in 0 .. 1 : ~IsPending(otadata[i])
       \/ conf.factory /\ home' = Partitions
  <2>0. OwnRecord(p) = IF p = esp_ota_get_boot_partition THEN {p} ELSE Partitions
    BY DEF OwnRecord
  <2>1. ASSUME NEW i \in 0 .. 1, IsPending(otadata[i]) PROVE conf.factory /\ home' = Partitions
    <3>1. Slot(otadata[i]) = boot_index /\ TrialOk(otadata[i], i) /\ boot_index # p
      BY <1>6, <1>7, <2>1
    <3>2. esp_ota_get_boot_partition = boot_index
      BY <1>2, <2>1, <3>1, BootIs
    <3>3. boot_index \in OtaSlots
      BY <1>5, <3>1, SlotType
    <3>4. First = boot_index
      BY <3>3, SlotsAre DEF First
    <3>. QED
      BY <1>2, <2>0, <3>1, <3>2, <3>4 DEF Void
  <2>2. CASE \A i \in 0 .. 1 : ~IsPending(otadata[i])
    <3>1. esp_ota_get_boot_partition = b
      BY <1>2, <1>8, <1>9, <2>2, BootIs
    <3>2. b = First
      BY <1>2, <1>4, <1>8, <1>9, <2>2 DEF LoadInv
    <3>. QED
      BY <1>2, <2>0, <2>2, <3>1, <3>2 DEF Void
  <2>. QED
    BY <2>1, <2>2
<1>12. ~(IsPending(otadata[0]) /\ IsPending(otadata[1]))
  <2>1. SUFFICES ASSUME IsPending(otadata[0]), IsPending(otadata[1]) PROVE FALSE
    OBVIOUS
  <2>2. Slot(otadata[0]) = Slot(otadata[1]) /\ otadata[0].crc
    BY <1>6, <2>1 DEF IsPending
  <2>. QED
    BY <1>2, <2>1, <2>2 DEF Common, SlotsApart, Records
<1>13. \A i \in 0 .. 1 : IsPending(otadata[i]) => home' # {p}
  BY <1>2, <1>11, SlotsAre
<1>14. One(b, next)'
  <2>1. CASE home' = {p} /\ b = p
    <3>1. Bootable(b)'
      BY <1>2, <2>1 DEF Bootable
    <3>. QED
      BY <1>2, <2>1, <3>1 DEF One
  <2>2. CASE conf.factory /\ home' = Partitions
    BY <1>2, <2>2 DEF One, Partitions, OtaSlots
  <2>. QED
    BY <1>11, <2>1, <2>2
<1>15. CASE job' = <<>>
  <2>1. \A j \in 0 .. 1 : OpsOf(job, j)' = {}
    BY <1>15 DEF OpsOf
  <2>2. \A j \in 0 .. 1 : Records(j)' = {otadata[j]} /\ Seen(j)' = {Held(otadata[j])}
    BY <1>2, <2>1, SectorIs DEF Records, Seen
  <2>3. NoMore
    BY <1>4, <2>2 DEF NoMore
  <2>4. Common'
    <3>1. ASSUME NEW j \in 0 .. 1, NEW d \in Records(j)' PROVE RecordOk(d)' /\ ~IsNew(d)'
      <4>1. d = otadata[j] /\ ~IsNew(d) /\ RecordOk(d)
        BY <1>5, <1>6, <2>2, <3>1
      <4>. QED
        BY <1>2, <1>3, <4>1 DEF RecordOk, Same
    <3>2. RecordsOk'
      BY <3>1 DEF RecordsOk
    <3>3. SlotsApart'
      BY <1>2, <2>3, ApartStays DEF Common
    <3>4. SeenUntried'
      BY <1>2, <1>4, <2>2, UntriedStays DEF Common
    <3>. QED
      BY <1>2, <3>2, <3>3, <3>4 DEF Common, OtaSlots
  <2>5. RunInv'
    <3>1. b = Boots(Held(otadata'[0]), Held(otadata'[1])) /\ b \notin tried' /\ goal' = next'
      BY <1>2, <1>8, <1>9, <1>10
    <3>2. \A i \in 0 .. 1 : ~IsNew(otadata'[i]) /\ (IsPending(otadata'[i]) => Slot(otadata'[i]) # running' /\ goal' # {running'})
      BY <1>1, <1>2, <1>6, <1>7, <1>13
    <3>3. ~(IsPending(otadata'[0]) /\ IsPending(otadata'[1])) /\ handle' = NoHandle
      BY <1>2, <1>12
    <3>. QED
      BY <1>2, <1>14, <1>15, <3>1, <3>2, <3>3, RunIdle
  <2>. QED
    BY <1>2, <2>4, <2>5 DEF TrialInv, OffInv, LoadInv
<1>16. CASE job' # <<>>
  <2>1. p > FACTORY_INDEX /\ ota_has_initial_contents /\ job' = rewrite_ota_seq(0, NewEntry(p + 1, "VALID"))
    BY <1>2, <1>16 DEF set_actual_ota_seq
  <2>2. ~conf.factory /\ \A i \in 0 .. 1 : BlankOrBad(otadata[i])
    BY <1>2, <1>4, <2>1 DEF LoadInv
  <2>3. ASSUME NEW i \in 0 .. 1 PROVE Held(otadata[i]) = -1 /\ ~IsPending(otadata[i])
    <3>1. PICK e : e = otadata[i]
      OBVIOUS
    <3>2. e \in Entry /\ RecordOk(e) /\ BlankOrBad(e)
      BY <1>5, <2>2, <3>1
    <3>3. ~select_valid(e)
      BY <3>2 DEF BlankOrBad, select_valid, select_invalid
    <3>4. Held(e) = -1 /\ ~IsPending(e)
      BY <3>2, <3>3, HeldIs
    <3>. QED
      BY <3>1, <3>4
  <2>4. home' = {p} /\ b = p /\ x = -1 /\ y = -1
    BY <1>8, <1>11, <2>2, <2>3
  <2>5. p = 0
    BY <1>9, <2>2, <2>4, SlotsAre DEF Boots, Highest, Named
  <2>6. PICK w, s : w = NewEntry(1, "VALID") /\ s = job'
    OBVIOUS
  <2>7. s = rewrite_ota_seq(0, w)
    <3>1. p + 1 = 1
      BY <2>5
    <3>. QED
      BY <2>1, <2>6, <3>1
  <2>8. w.ota_seq = 1 /\ w.ota_state = "VALID" /\ w.crc = TRUE
    BY <2>6 DEF NewEntry
  <2>9. select_valid(w) /\ Held(w) = 1 /\ ~IsNew(w) /\ ~IsPending(w) /\ w.crc
    BY <2>8 DEF select_valid, select_invalid, UINT32_MAX, Held, IsNew, IsPending
  <2>10. Slot(w) = 0 /\ Named(1) = 0
    BY <2>8, OtaAssumption DEF Slot, Named
  <2>11. RecordOk(w)
    BY <1>10, <2>4, <2>5, <2>8, <2>10 DEF RecordOk
  <2>12. /\ \A i \in 0 .. 1 : OpsOf(s, i) = IF i = 0 THEN {Erased, w} ELSE {}
         /\ s # <<>> /\ Last(s).op = "sector" /\ Last(s).at = 0 /\ Last(s).to = w
         /\ DOMAIN s = 1 .. 2 /\ Len(s) = 2 /\ s[1].to = Erased
         /\ \A k \in DOMAIN s : s[k].op = "sector" /\ s[k].at = 0
    <3>1. PICK j \in 0 .. 1 : j = 0
      OBVIOUS
    <3>2. s = rewrite_ota_seq(j, w)
      BY <2>7, <3>1
    <3>3. /\ \A i \in 0 .. 1 : OpsOf(s, i) = IF i = j THEN {Erased, w} ELSE {}
          /\ s # <<>> /\ Last(s).op = "sector" /\ Last(s).at = j /\ Last(s).to = w
          /\ DOMAIN s = 1 .. 2 /\ Len(s) = 2 /\ s[1].to = Erased
          /\ \A k \in DOMAIN s : s[k].op = "sector" /\ s[k].at = j
      BY <3>2, RewriteJob
    <3>. QED
      BY <3>1, <3>3
  <2>13. \A i \in 0 .. 1 : OpsOf(job, i)' = IF i = 0 THEN {Erased, w} ELSE {}
    BY <2>6, <2>12 DEF OpsOf
  <2>14. ASSUME NEW i \in 0 .. 1
         PROVE  /\ Seen(i)' = {-1}
                /\ \A e \in Records(i)' : e = otadata[i] \/ e = Erased \/ (i = 0 /\ e = w)
                /\ \A e \in OpsOf(job, i)' : e = Erased \/ e = w
    BY <1>2, <2>3, <2>13, SectorIs DEF Seen, Records
  <2>15. \A i \in 0 .. 1 : \A e \in Records(i)' : RecordOk(e) /\ ~IsNew(e) /\ ~IsPending(e)
    BY <1>5, <1>6, <2>3, <2>9, <2>11, <2>14, ErasedIs
  <2>16. Common'
    <3>1. ASSUME NEW j \in 0 .. 1, NEW d \in Records(j)' PROVE RecordOk(d)' /\ ~IsNew(d)' /\ ~IsPending(d)'
      <4>1. ~IsNew(d) /\ RecordOk(d) /\ ~IsPending(d)
        BY <2>15, <3>1
      <4>. QED
        BY <1>2, <1>3, <4>1 DEF RecordOk, Same
    <3>2. RecordsOk'
      BY <3>1 DEF RecordsOk
    <3>3. SlotsApart'
      BY <3>1 DEF SlotsApart
    <3>4. SeenUntried'
      <4>1. Boots(-1, -1)' = Boots(x, y)
        BY <1>3, <2>4 DEF Same
      <4>. QED
        BY <1>2, <1>9, <1>10, <2>14, <4>1 DEF SeenUntried
    <3>. QED
      BY <1>2, <3>2, <3>3, <3>4 DEF Common, OtaSlots
  <2>17. End(0)' = 1 /\ End(1)' = -1
    <3>1. Held(Last(job).to)' = 1
      BY <1>2, <2>6, <2>9, <2>12 DEF Held
    <3>2. End(0)' = 1
      BY <2>6, <2>12, <3>1 DEF End, IsLast
    <3>3. Held(otadata[1])' = -1
      BY <1>2, <2>3, SectorIs
    <3>4. OpsOf(job, 1)' = {}
      BY <2>13
    <3>5. End(1)' = -1
      BY <2>6, <2>12, <3>3, <3>4 DEF End, IsLast
    <3>. QED
      BY <3>2, <3>5
  <2>18. Boots(End(0), End(1))' = b
    <3>1. Boots(1, -1) = Named(1)
      BY DEF Boots, Highest
    <3>2. Boots(1, -1)' = b
      BY <1>3, <2>4, <2>5, <2>10, <3>1 DEF Same
    <3>. QED
      BY <2>17, <3>2 DEF Boots, Named
  <2>19. RunInv'
    <3>1. (\A k \in DOMAIN job : k # Len(job) /\ job[k].op = "sector" => Held(job[k].to) = -1)'
      <4>1. \A k \in DOMAIN s : k # Len(s) => s[k].to = Erased
        BY <2>12
      <4>2. Held(Erased)' = -1
        BY <1>3, ErasedIs DEF Same
      <4>. QED
        BY <2>6, <4>1, <4>2
    <3>2. \A k \in DOMAIN job' : job'[k].op # "image"
      BY <2>6, <2>12
    <3>3. ASSUME NEW t \in Seen(0)', NEW u \in Seen(1)' PROVE One(Boots(t, u), next)'
      <4>1. t = -1 /\ u = -1
        BY <2>14, <3>3
      <4>2. Boots(t, u)' = b
        BY <1>3, <1>9, <2>4, <4>1 DEF Same
      <4>. QED
        BY <1>14, <4>2 DEF One, Bootable
    <3>4. (One(Boots(End(0), End(1)), goal) /\ Boots(End(0), End(1)) \notin tried)'
      BY <1>2, <1>10, <1>14, <2>18 DEF One, Bootable
    <3>5. goal' = next' /\ handle' = NoHandle'
      BY <1>2 DEF NoHandle
    <3>6. \A i \in 0 .. 1 : \A e \in Records(i)' : ~IsNew(e)' /\ ~IsPending(e)'
      BY <1>3, <2>15 DEF Same
    <3>7. \A i \in 0 .. 1 : ~IsNew(otadata[i])' /\ ~IsPending(otadata[i])'
      BY <1>2, <1>6, <2>3, SectorIs
    <3>8. \A i \in 0 .. 1 : OpsOf(job, i)' \subseteq Records(i)'
      BY DEF Records
    <3>. QED
      BY <3>1, <3>2, <3>3, <3>4, <3>5, <3>6, <3>7, <3>8 DEF RunInv
  <2>. QED
    BY <1>2, <2>16, <2>19 DEF TrialInv, OffInv, LoadInv
<1>. QED
  BY <1>15, <1>16

(***************************************************************************)
(* The calls of an application.                                            *)
(***************************************************************************)
\* What holds between two calls.
LEMMA IdleFacts ==
    ASSUME OtaInv, TrialInv, Idle, NEW b, b = Boots(Held(otadata[0]), Held(otadata[1]))
    PROVE  /\ Common /\ RunInv /\ pc = "run" /\ job = <<>> /\ goal = next
           /\ \A i \in 0 .. 1 : OpsOf(job, i) = {} /\ Seen(i) = {Held(otadata[i])} /\ Records(i) = {otadata[i]}
           /\ \A i \in 0 .. 1 : otadata[i] \in Entry /\ RecordOk(otadata[i])
           /\ One(b, next) /\ b \notin tried
           /\ running \in Partitions /\ Bootable(running)
           /\ \A i \in 0 .. 1 : IsNew(otadata[i]) => /\ running # Slot(otadata[i]) /\ goal = {Slot(otadata[i])}
                                                     /\ handle = NoHandle /\ TrialOk(otadata[i], i)
           /\ ~(IsPending(otadata[0]) /\ IsPending(otadata[1]))
           /\ \A i \in 0 .. 1 : IsPending(otadata[i]) /\ goal = {running} => Slot(otadata[i]) = running
           /\ \A i \in 0 .. 1 : IsPending(otadata[i]) /\ Slot(otadata[i]) = running =>
                 TrialOk(otadata[i], i) /\ handle = NoHandle
           /\ tried \subseteq OtaSlots
<1>1. Common /\ RunInv /\ pc = "run" /\ job = <<>>
  BY DEF TrialInv, Idle
<1>2. \A i \in 0 .. 1 : OpsOf(job, i) = {} /\ Seen(i) = {Held(otadata[i])} /\ Records(i) = {otadata[i]}
  BY <1>1, OpsNone, SeenIs
<1>3. \A i \in 0 .. 1 : otadata[i] \in Entry /\ RecordOk(otadata[i])
  BY <1>1, EntriesAre
<1>4. One(b, next) /\ b \notin tried
  BY <1>1, <1>2 DEF RunInv, Common, SeenUntried
<1>5. goal = next /\ running \in Partitions /\ Bootable(running)
  BY <1>1 DEF RunInv, OtaInv, RunningInv
<1>6. \A i \in 0 .. 1 : IsNew(otadata[i]) => /\ running # Slot(otadata[i]) /\ goal = {Slot(otadata[i])}
                                             /\ handle = NoHandle /\ TrialOk(otadata[i], i)
  BY <1>1, <1>2 DEF RunInv, Common, RecordsOk
<1>7. /\ ~(IsPending(otadata[0]) /\ IsPending(otadata[1]))
      /\ \A i \in 0 .. 1 : IsPending(otadata[i]) /\ goal = {running} => Slot(otadata[i]) = running
      /\ \A i \in 0 .. 1 : IsPending(otadata[i]) /\ Slot(otadata[i]) = running =>
            TrialOk(otadata[i], i) /\ handle = NoHandle
  BY <1>1 DEF RunInv
<1>8. tried \subseteq OtaSlots
  BY <1>1 DEF Common
<1>. QED
  BY <1>1, <1>2, <1>3, <1>4, <1>5, <1>6, <1>7, <1>8

\* What holds when an application may start an update or choose a partition: no record is
\* new, none of the running application is on trial, and unless nothing is promised the
\* running application is the one to be started again.
Calm(a, b) ==
    /\ \A i \in 0 .. 1 : ~IsNew(otadata[i]) /\ ~(IsPending(otadata[i]) /\ Slot(otadata[i]) = running)
    /\ One(running, next)
    /\ \/ conf.factory /\ next = Partitions
       \/ /\ next = {running} /\ b = running /\ esp_ota_get_boot_partition = running
          /\ \A i \in 0 .. 1 : ~IsPending(otadata[i])
    /\ a = -1 => Held(otadata[0]) = -1 /\ Held(otadata[1]) = -1
    /\ a # -1 => /\ a \in 0 .. 1 /\ 1 - a \in 0 .. 1 /\ select_valid(otadata[a])
                 /\ select_valid(otadata[1 - a]) => otadata[1 - a].ota_seq <= otadata[a].ota_seq
                 /\ One(Named(Held(otadata[a])), next) /\ Named(Held(otadata[a])) \notin tried

\* It holds once the application is settled.
LEMMA CalmIs ==
    ASSUME OtaInv, TrialInv, Idle, running \in next, ~OnTrial(running),
           NEW b, b = Boots(Held(otadata[0]), Held(otadata[1])),
           NEW a, a = get_active_otadata(otadata)
    PROVE  Calm(a, b)
<1>1. /\ Common /\ goal = next /\ One(b, next) /\ b \notin tried /\ running \in Partitions /\ Bootable(running)
      /\ \A i \in 0 .. 1 : otadata[i] \in Entry /\ RecordOk(otadata[i])
      /\ \A i \in 0 .. 1 : IsNew(otadata[i]) => running # Slot(otadata[i]) /\ goal = {Slot(otadata[i])}
      /\ \A i \in 0 .. 1 : IsPending(otadata[i]) /\ goal = {running} => Slot(otadata[i]) = running
      /\ tried \subseteq OtaSlots
  BY IdleFacts
<1>2. \A i \in 0 .. 1 : ~IsNew(otadata[i]) /\ ~(IsPending(otadata[i]) /\ Slot(otadata[i]) = running)
  BY <1>1, OnTrialIs
<1>3. \/ conf.factory /\ next = Partitions
      \/ /\ next = {running} /\ b = running /\ esp_ota_get_boot_partition = running
         /\ \A i \in 0 .. 1 : ~IsPending(otadata[i])
  <2>1. CASE next = {b}
    <3>1. next = {running} /\ b = running
      BY <2>1
    <3>2. \A i \in 0 .. 1 : ~IsPending(otadata[i])
      BY <1>1, <1>2, <3>1
    <3>3. esp_ota_get_boot_partition = b
      BY <1>1, <3>2, BootIs
    <3>. QED
      BY <3>1, <3>2, <3>3
  <2>. QED
    BY <1>1, <2>1 DEF One
<1>4. One(running, next)
  BY <1>1, <1>3 DEF One
<1>5. \/ a = -1 /\ ~select_valid(otadata[0]) /\ ~select_valid(otadata[1])
      \/ /\ a \in 0 .. 1 /\ a # -1 /\ 1 - a \in 0 .. 1 /\ select_valid(otadata[a])
         /\ select_valid(otadata[1 - a]) => otadata[1 - a].ota_seq <= otadata[a].ota_seq
  BY ActiveIs DEF OtaInv, TypeOK
<1>6. a = -1 => Held(otadata[0]) = -1 /\ Held(otadata[1]) = -1
  <2>1. ASSUME NEW i \in 0 .. 1, ~select_valid(otadata[i]) PROVE Held(otadata[i]) = -1
    BY <2>1 DEF Held
  <2>. QED
    BY <1>5, <2>1
<1>7. ASSUME a # -1 PROVE One(Named(Held(otadata[a])), next) /\ Named(Held(otadata[a])) \notin tried
  <2>1. PICK e : e = otadata[a]
    OBVIOUS
  <2>2. e \in Entry /\ RecordOk(e) /\ a \in 0 .. 1
    BY <1>1, <1>5, <1>7, <2>1
  <2>3. CASE conf.factory /\ next = Partitions
    <3>1. One(Named(Held(e)), next)
      BY <2>3 DEF One
    <3>2. CASE Held(e) = -1
      <4>1. Named(Held(e)) = FACTORY_INDEX
        BY <2>3, <3>2 DEF Named, find_default_boot_partition
      <4>. QED
        BY <1>1, <2>1, <3>1, <4>1, SlotsAre
    <3>3. CASE Held(e) # -1
      <4>1. Named(Held(e)) = Slot(e)
        BY <2>2, <3>3, HeldIs
      <4>2. Slot(e) \notin tried
        BY <2>2, <3>3 DEF RecordOk
      <4>. QED
        BY <2>1, <3>1, <4>1, <4>2
    <3>. QED
      BY <3>2, <3>3
  <2>4. CASE /\ next = {running} /\ b = running /\ esp_ota_get_boot_partition = running
             /\ \A i \in 0 .. 1 : ~IsPending(otadata[i])
    <3>1. esp_ota_get_boot_partition = Slot(e)
      BY <1>1, <1>7, <2>1, BootIs
    <3>2. Named(Held(e)) = Slot(e)
      <4>1. select_valid(e) /\ ~IsPending(e)
        BY <1>5, <1>7, <2>1, <2>2, <2>4
      <4>2. Held(e) = e.ota_seq /\ e.ota_seq >= 0
        BY <2>2, <4>1, HeldIs
      <4>. QED
        BY <4>2 DEF Named, Slot
    <3>3. Named(Held(otadata[a])) = b
      BY <2>1, <2>4, <3>1, <3>2
    <3>. QED
      BY <1>1, <3>3
  <2>. QED
    BY <1>3, <2>3, <2>4
<1>. QED
  BY <1>2, <1>3, <1>4, <1>5, <1>6, <1>7 DEF Calm

\* With the other sector empty, what is selected is promised and not tried before, too.
LEMMA CalmBoots ==
    ASSUME OtaInv, TrialInv, Idle, NEW a, NEW b, b = Boots(Held(otadata[0]), Held(otadata[1])), Calm(a, b),
           NEW x, NEW y, a = -1 => x = -1 /\ y = -1,
           x = Held(otadata[0]) \/ (x = -1 /\ a # 0),
           y = Held(otadata[1]) \/ (y = -1 /\ a # 1)
    PROVE  One(Boots(x, y), next) /\ Boots(x, y) \notin tried
<1>1. /\ One(b, next) /\ b \notin tried
      /\ \A i \in 0 .. 1 : otadata[i] \in Entry /\ RecordOk(otadata[i])
  BY IdleFacts
<1>2. PICK e, f : e = otadata[0] /\ f = otadata[1]
  OBVIOUS
<1>3. e \in Entry /\ RecordOk(e) /\ f \in Entry /\ RecordOk(f)
  BY <1>1, <1>2
<1>4. Held(e) \in Int /\ Held(e) >= -1 /\ Held(f) \in Int /\ Held(f) >= -1
  <2>1. Held(e) \in Int /\ Held(e) >= -1
    BY <1>3, HeldIs
  <2>2. Held(f) \in Int /\ Held(f) >= -1
    BY <1>3, HeldIs
  <2>. QED
    BY <2>1, <2>2
<1>5. CASE a = -1
  <2>1. x = Held(otadata[0]) /\ y = Held(otadata[1])
    BY <1>5 DEF Calm
  <2>. QED
    BY <1>1, <2>1
<1>6. CASE a = 0
  <2>1. x = Held(e) /\ (y = Held(f) \/ y = -1)
    BY <1>2, <1>6
  <2>2. Boots(Held(e), -1) = Named(Held(e))
    BY <1>4, HighestIs
  <2>3. One(Named(Held(e)), next) /\ Named(Held(e)) \notin tried
    BY <1>2, <1>6 DEF Calm
  <2>. QED
    BY <1>1, <1>2, <2>1, <2>2, <2>3
<1>7. CASE a = 1
  <2>1. y = Held(f) /\ (x = Held(e) \/ x = -1)
    BY <1>2, <1>7
  <2>2. Boots(-1, Held(f)) = Named(Held(f))
    BY <1>4, HighestIs
  <2>3. One(Named(Held(f)), next) /\ Named(Held(f)) \notin tried
    BY <1>2, <1>7 DEF Calm
  <2>. QED
    BY <1>1, <1>2, <2>1, <2>2, <2>3
<1>8. a \in {-1, 0, 1}
  BY DEF Calm
<1>. QED
  BY <1>5, <1>6, <1>7, <1>8

\* An operation of a call that writes images and erases the record that is not active.
Spares(o, a) == \/ o.op = "image"
                \/ o.op = "sector" /\ a \in 0 .. 1 /\ o.at = 1 - a /\ o.to = Erased

\* A call with such operations only.
LEMMA CallTrial ==
    ASSUME OtaInv, OtaInv', TrialInv, Idle, running \in next, ~OnTrial(running),
           UNCHANGED <<conf, otadata, image, pc, running, home, next, goal, tried>>,
           NEW a, a = get_active_otadata(otadata),
           \A k \in DOMAIN job' : Spares(job'[k], a)
    PROVE  TrialInv'
<1>0. PICK b, s : b = Boots(Held(otadata[0]), Held(otadata[1])) /\ s = job'
  OBVIOUS
<1>1. /\ Common /\ RunInv /\ pc = "run" /\ goal = next
      /\ \A i \in 0 .. 1 : OpsOf(job, i) = {} /\ Seen(i) = {Held(otadata[i])} /\ Records(i) = {otadata[i]}
      /\ \A i \in 0 .. 1 : otadata[i] \in Entry /\ RecordOk(otadata[i])
      /\ One(b, next) /\ b \notin tried
      /\ ~(IsPending(otadata[0]) /\ IsPending(otadata[1]))
      /\ \A i \in 0 .. 1 : IsPending(otadata[i]) /\ goal = {running} => Slot(otadata[i]) = running
  BY <1>0, IdleFacts
<1>2. Calm(a, b)
  BY <1>0, CalmIs
<1>3. Same
  BY SameIs
<1>4. ASSUME NEW i \in 0 .. 1
      PROVE  /\ \A e \in OpsOf(job, i)' : e = Erased /\ a \in 0 .. 1 /\ i = 1 - a
             /\ \A e \in Records(i)' : e = otadata[i] \/ e = Erased
             /\ \A x \in Seen(i)' : x = Held(otadata[i]) \/ (x = -1 /\ OpsOf(job, i)' # {})
  <2>1. OpsOf(job, i)' = OpsOf(s, i)
    BY <1>0 DEF OpsOf
  <2>2. ASSUME NEW e \in OpsOf(s, i) PROVE e = Erased /\ a \in 0 .. 1 /\ i = 1 - a
    <3>1. PICK k \in DOMAIN s : s[k].op = "sector" /\ s[k].at = i /\ e = s[k].to
      BY <2>2, OpsIs
    <3>. QED
      BY <1>0, <3>1 DEF Spares
  <2>3. Records(i)' = {otadata[i]} \union OpsOf(s, i) /\ Seen(i)' = {Held(otadata[i])} \union {-1 : e \in OpsOf(s, i)}
    BY <2>1, SectorIs DEF Records, Seen
  <2>. QED
    BY <2>1, <2>2, <2>3
<1>5. ASSUME NEW x \in Seen(0)', NEW y \in Seen(1)' PROVE One(Boots(x, y), next) /\ Boots(x, y) \notin tried
  <2>1. x = Held(otadata[0]) \/ (x = -1 /\ a = 1)
    <3>1. x = Held(otadata[0]) \/ (x = -1 /\ OpsOf(job, 0)' # {})
      BY <1>4, <1>5
    <3>2. OpsOf(job, 0)' # {} => a \in 0 .. 1 /\ 0 = 1 - a
      BY <1>4
    <3>. QED
      BY <3>1, <3>2
  <2>2. y = Held(otadata[1]) \/ (y = -1 /\ a = 0)
    <3>1. y = Held(otadata[1]) \/ (y = -1 /\ OpsOf(job, 1)' # {})
      BY <1>4, <1>5
    <3>2. OpsOf(job, 1)' # {} => a \in 0 .. 1 /\ 1 = 1 - a
      BY <1>4
    <3>. QED
      BY <3>1, <3>2
  <2>3. a = -1 => x = -1 /\ y = -1
    BY <1>2, <2>1, <2>2 DEF Calm
  <2>. QED
    BY <1>0, <1>2, <2>1, <2>2, <2>3, CalmBoots
<1>6. ASSUME NEW i \in 0 .. 1 PROVE End(i)' \in Seen(i)'
  <2>1. Seen(i)' = {Held(otadata[i])'} \union {-1 : e \in OpsOf(job, i)'}
    BY DEF Seen
  <2>2. CASE IsLast(i)'
    <3>1. s # <<>> /\ Last(s).op = "sector" /\ Last(s).at = i
      BY <1>0, <2>2 DEF IsLast
    <3>2. s \in Seq(Allowed')
      BY <1>0 DEF OtaInv, RunningInv
    <3>3. Len(s) \in DOMAIN s
      <4>1. PICK S : S = Allowed'
        OBVIOUS
      <4>2. s \in Seq(S)
        BY <3>2, <4>1
      <4>3. Len(s) \in Nat /\ DOMAIN s = 1 .. Len(s)
        BY <4>2
      <4>4. Len(s) # 0
        BY <3>1, <4>2
      <4>. QED
        BY <4>3, <4>4
    <3>4. s[Len(s)].op = "sector" /\ s[Len(s)].at = i /\ Last(s).to = s[Len(s)].to
      BY <3>1 DEF Last
    <3>5. Last(s).to \in OpsOf(s, i)
      BY <3>3, <3>4, OpsIs
    <3>6. OpsOf(job, i)' = OpsOf(s, i)
      BY <1>0 DEF OpsOf
    <3>7. Last(s).to = Erased /\ OpsOf(job, i)' # {}
      BY <1>4, <3>5, <3>6
    <3>8. End(i)' = Held(Erased)'
      BY <1>0, <2>2, <3>7 DEF End
    <3>9. End(i)' = -1
      BY <1>3, <3>8, ErasedIs DEF Same
    <3>. QED
      BY <2>1, <3>7, <3>9
  <2>3. CASE ~IsLast(i)'
    <3>1. End(i)' = IF OpsOf(job, i)' # {} THEN -1 ELSE Held(otadata[i])'
      BY <2>3 DEF End
    <3>. QED
      BY <2>1, <3>1
  <2>. QED
    BY <2>2, <2>3
<1>7. ASSUME NEW i \in 0 .. 1, NEW e \in Records(i)' PROVE RecordOk(e) /\ ~IsNew(e) /\ (e.crc => e = otadata[i])
  <2>1. CASE e = otadata[i]
    BY <1>1, <1>2, <2>1 DEF Calm
  <2>2. CASE e = Erased
    BY <2>2, ErasedIs
  <2>. QED
    BY <1>4, <1>7, <2>1, <2>2
<1>8. Common'
  <2>1. ASSUME NEW i \in 0 .. 1, NEW e \in Records(i)' PROVE RecordOk(e)' /\ ~IsNew(e)'
    <3>1. RecordOk(e) /\ ~IsNew(e)
      BY <1>7, <2>1
    <3>. QED
      BY <1>3, <3>1 DEF RecordOk, Same
  <2>2. RecordsOk'
    BY <2>1 DEF RecordsOk
  <2>3. NoMore
    <3>1. ASSUME NEW i \in 0 .. 1, NEW e \in Records(i)' PROVE e \in Records(i) \/ (~e.crc /\ e.ota_seq >= -1)
      BY <1>1, <1>4, <3>1 DEF Erased, UINT32_MAX
    <3>. QED
      BY <3>1 DEF NoMore
  <2>4. SlotsApart'
    BY <1>1, <2>3, ApartStays DEF Common
  <2>5. SeenUntried'
    BY <1>3, <1>5 DEF SeenUntried, Same
  <2>. QED
    BY <1>1, <2>2, <2>4, <2>5 DEF Common, OtaSlots
<1>9. ASSUME NEW x, NEW W, One(x, W) PROVE One(x, W)'
  BY <1>9, OneStays
<1>10. ASSUME NEW x \in Seen(0)', NEW y \in Seen(1)'
       PROVE  One(Boots(x, y), next)' /\ Boots(x, y)' \notin tried'
  <2>1. PICK c, w : c = Boots(x, y) /\ c = Boots(x, y)' /\ w = next
    BY <1>3 DEF Same
  <2>2. One(c, w)' /\ c \notin tried
    BY <1>5, <1>9, <1>10, <2>1
  <2>. QED
    BY <2>1, <2>2 DEF One, Bootable
<1>11. (One(Boots(End(0), End(1)), goal) /\ Boots(End(0), End(1)) \notin tried)'
  <2>1. PICK x, y : x = End(0)' /\ y = End(1)'
    OBVIOUS
  <2>2. One(Boots(x, y), next)' /\ Boots(x, y)' \notin tried'
    BY <1>6, <1>10, <2>1
  <2>3. goal' = next'
    BY <1>1
  <2>. QED
    BY <2>1, <2>2, <2>3 DEF One, Bootable, Boots, Named
<1>12. One(running, next)'
  <2>1. PICK r, w : r = running /\ w = next
    OBVIOUS
  <2>2. One(r, w)'
    BY <1>2, <1>9, <2>1 DEF Calm
  <2>. QED
    BY <2>1, <2>2 DEF One, Bootable
<1>13. (\A k \in DOMAIN job : k # Len(job) /\ job[k].op = "sector" => Held(job[k].to) = -1)'
  <2>1. \A k \in DOMAIN s : s[k].op = "sector" => s[k].to = Erased
    BY <1>0 DEF Spares
  <2>2. Held(Erased)' = -1
    BY <1>3, ErasedIs DEF Same
  <2>. QED
    BY <1>0, <2>1, <2>2
<1>14. \A i \in 0 .. 1 : \A e \in Records(i)' : ~IsNew(e)'
  BY <1>3, <1>7 DEF Same
<1>15. \A i \in 0 .. 1 : ~IsNew(otadata[i])' /\ (IsPending(otadata[i])' <=> IsPending(otadata[i]))
  BY <1>2, SectorIs DEF Calm
<1>16. \A i \in 0 .. 1 : \A e \in OpsOf(job, i)' : ~IsPending(e)'
  <2>1. ~IsPending(Erased)'
    BY <1>3, ErasedIs DEF Same
  <2>. QED
    BY <1>4, <2>1
<1>17. \A i \in 0 .. 1 : ~(IsPending(otadata[i]) /\ Slot(otadata[i]) = running)
  BY <1>2 DEF Calm
<1>18. goal' = next' /\ running' \in next'
  BY <1>1
<1>19. RunInv'
  BY <1>1, <1>10, <1>11, <1>12, <1>13, <1>14, <1>15, <1>16, <1>17, <1>18 DEF RunInv
<1>. QED
  BY <1>1, <1>8, <1>19 DEF TrialInv, OffInv, LoadInv

\* Every operation of two jobs made one after the other spares what each spares.
LEMMA SparesCat ==
    ASSUME NEW S, NEW s \in Seq(S), NEW t \in Seq(S), NEW a,
           \A k \in DOMAIN s : Spares(s[k], a), \A k \in DOMAIN t : Spares(t[k], a),
           NEW u, u = s \o t
    PROVE  \A k \in DOMAIN u : Spares(u[k], a)
<1>1. PICK m \in Nat, n \in Nat : /\ m = Len(s) /\ DOMAIN s = 1 .. m
                                  /\ n = Len(t) /\ DOMAIN t = 1 .. n
  OBVIOUS
<1>2. DOMAIN u = 1 .. m + n /\ (\A k \in 1 .. m : u[k] = s[k])
      /\ \A k \in 1 .. n : m + k \in 1 .. m + n /\ u[m + k] = t[k]
  BY <1>1
<1>3. ASSUME NEW k \in DOMAIN u PROVE Spares(u[k], a)
  <2>1. CASE k <= m
    <3>1. k \in DOMAIN s /\ u[k] = s[k]
      BY <1>1, <1>2, <1>3, <2>1
    <3>. QED
      BY <3>1
  <2>2. CASE k > m
    <3>1. PICK j \in 1 .. n : k = m + j
      <4>1. k - m \in 1 .. n /\ k = m + (k - m)
        BY <1>1, <1>2, <1>3, <2>2
      <4>. QED
        BY <4>1
    <3>2. j \in DOMAIN t /\ u[k] = t[j]
      BY <1>1, <1>2, <3>1
    <3>. QED
      BY <3>2
  <2>. QED
    BY <1>1, <1>2, <1>3, <2>1, <2>2
<1>. QED
  BY <1>3

\* The previous record and, unless it is to stay, the previous image: the active record
\* is spared.
LEMMA EraseSpares ==
    ASSUME OtaInv, NEW a, a = get_active_otadata(otadata), NEW skip \in BOOLEAN,
           NEW s, s = erase_last_boot_app_partition(skip)
    PROVE  \A k \in DOMAIN s : Spares(s[k], a)
<1>1. PICK q, last : last = otadata[1 - a] /\ q = Slot(last)
  OBVIOUS
<1>2. PICK g, h : g = SetImage(q, "bad") /\ h = SetSector(1 - a, Erased)
  OBVIOUS
<1>3. g.op = "image" /\ h.op = "sector" /\ h.at = 1 - a /\ h.to = Erased
  BY <1>2 DEF SetImage, SetSector
<1>4. a \in {-1, 0, 1}
  BY ActiveType
<1>5. \/ s = <<>>
      \/ a # -1 /\ s = (IF skip THEN <<>> ELSE <<g>>) \o <<h>>
  BY <1>1, <1>2 DEF erase_last_boot_app_partition
<1>6. ASSUME s = <<>> PROVE \A k \in DOMAIN s : Spares(s[k], a)
  BY <1>6
<1>7. ASSUME a # -1, s = (IF skip THEN <<>> ELSE <<g>>) \o <<h>>
      PROVE  \A k \in DOMAIN s : Spares(s[k], a)
  <2>1. PICK S, r, w : S = {g, h} /\ r = (IF skip THEN <<>> ELSE <<g>>) /\ w = <<h>>
    OBVIOUS
  <2>2. Spares(g, a) /\ Spares(h, a)
    BY <1>3, <1>4, <1>7 DEF Spares
  <2>3. /\ <<>> \in Seq(S) /\ <<g>> \in Seq(S) /\ w \in Seq(S)
        /\ \A k \in DOMAIN w : Spares(w[k], a)
    <3>1. DOMAIN w = 1 .. 1 /\ w[1] = h
      BY <2>1
    <3>2. \A k \in DOMAIN w : Spares(w[k], a)
      BY <2>2, <3>1
    <3>3. g \in S /\ h \in S
      BY <2>1
    <3>4. <<>> \in Seq(S) /\ <<g>> \in Seq(S) /\ <<h>> \in Seq(S)
      BY <3>3
    <3>. QED
      BY <2>1, <3>2, <3>4
  <2>4. \A k \in DOMAIN r : Spares(r[k], a)
    <3>1. CASE r = <<>>
      BY <3>1
    <3>2. CASE r = <<g>>
      <4>1. DOMAIN r = 1 .. 1 /\ r[1] = g
        BY <3>2
      <4>. QED
        BY <2>2, <4>1
    <3>. QED
      BY <2>1, <3>1, <3>2
  <2>5. r \in Seq(S) /\ s = r \o w
    BY <1>7, <2>1, <2>3
  <2>. QED
    BY <2>3, <2>4, <2>5, SparesCat
<1>. QED
  BY <1>5, <1>6, <1>7

\* esp_ota_begin erases the partition of the update, and the previous record.
LEMMA BeginTrial ==
    ASSUME OtaInv, OtaInv', TrialInv, Careful, NEW p \in OtaSlots, NEW sequential \in BOOLEAN,
           esp_ota_begin(p, sequential)
    PROVE  TrialInv'
<1>1. PICK a, s, t : /\ a = get_active_otadata(otadata)
                     /\ s = IF sequential THEN <<>> ELSE <<SetImage(p, "bad")>>
                     /\ t = IF conf.rollback THEN erase_last_boot_app_partition(TRUE) ELSE <<>>
  OBVIOUS
<1>2. /\ Idle /\ running \in next /\ ~OnTrial(running) /\ job' = s \o t
      /\ UNCHANGED <<conf, otadata, image, pc, running, home, next, goal, tried>>
  BY <1>1 DEF esp_ota_begin, BeginIn, Settled, flash, boot, ghost
<1>3. \A k \in DOMAIN s : Spares(s[k], a)
  <2>1. CASE s = <<>>
    BY <2>1
  <2>2. CASE s = <<SetImage(p, "bad")>>
    <3>1. DOMAIN s = 1 .. 1 /\ s[1] = SetImage(p, "bad")
      BY <2>2
    <3>2. Spares(SetImage(p, "bad"), a)
      BY DEF Spares, SetImage
    <3>. QED
      BY <3>1, <3>2
  <2>. QED
    BY <1>1, <2>1, <2>2
<1>4. \A k \in DOMAIN t : Spares(t[k], a)
  <2>1. CASE t = <<>>
    BY <2>1
  <2>2. CASE t = erase_last_boot_app_partition(TRUE)
    BY <1>1, <2>2, EraseSpares
  <2>. QED
    BY <1>1, <2>1, <2>2
<1>5. PICK S : s \in Seq(S) /\ t \in Seq(S)
  <2>1. pc = "run" /\ p # running /\ p \in Partitions
    BY <1>2, SlotsAre DEF Idle, esp_ota_begin
  <2>2. SetImage(p, "bad") \in Allowed
    BY <2>1 DEF SetImage, ImageOp, Allowed
  <2>3. PICK S : S = Allowed
    OBVIOUS
  <2>4. <<SetImage(p, "bad")>> \in Seq(S) /\ <<>> \in Seq(S)
    BY <2>2, <2>3
  <2>5. erase_last_boot_app_partition(TRUE) \in Seq(S)
    BY <2>1, <2>3, EraseLastType
  <2>. QED
    BY <1>1, <2>4, <2>5
<1>6. PICK u : u = job'
  OBVIOUS
<1>7. \A k \in DOMAIN u : Spares(u[k], a)
  BY <1>2, <1>3, <1>4, <1>5, <1>6, SparesCat
<1>. QED
  BY <1>1, <1>2, <1>6, <1>7, CallTrial

\* esp_ota_resume writes nothing.
LEMMA ResumeTrial ==
    ASSUME OtaInv, OtaInv', TrialInv, Careful, NEW p, NEW offset, esp_ota_resume(p, offset)
    PROVE  TrialInv'
<1>1. /\ Idle /\ running \in next /\ ~OnTrial(running) /\ job' = <<>>
      /\ UNCHANGED <<conf, otadata, image, pc, running, home, next, goal, tried>>
  BY DEF esp_ota_resume, Settled, Idle, flash, boot, ghost
<1>2. PICK a : a = get_active_otadata(otadata)
  OBVIOUS
<1>3. \A k \in DOMAIN job' : Spares(job'[k], a)
  BY <1>1
<1>. QED
  BY <1>1, <1>2, <1>3, CallTrial

\* esp_ota_write writes to the partition of the update.
LEMMA WriteTrial ==
    ASSUME OtaInv, OtaInv', TrialInv, NEW v, esp_ota_write(v)
    PROVE  TrialInv'
<1>1. /\ Idle /\ handle # NoHandle /\ job' = <<SetImage(handle.part, v)>>
      /\ UNCHANGED <<conf, otadata, image, pc, running, home, next, goal, tried>>
  BY DEF esp_ota_write, flash, boot, ghost
<1>2. PICK a, h, u : a = get_active_otadata(otadata) /\ h = SetImage(handle.part, v) /\ u = job'
  OBVIOUS
<1>3. \A k \in DOMAIN u : Spares(u[k], a)
  <2>1. u = <<h>>
    BY <1>1, <1>2
  <2>2. DOMAIN u = 1 .. 1 /\ u[1] = h
    BY <2>1
  <2>3. Spares(h, a)
    BY <1>2 DEF Spares, SetImage
  <2>. QED
    BY <2>2, <2>3
<1>4. running \in next
  BY <1>1 DEF TrialInv, RunInv, Idle
<1>5. ~OnTrial(running)
  <2>1. Common
    BY DEF TrialInv
  <2>2. \A i \in 0 .. 1 : ~(IsPending(otadata[i]) /\ Slot(otadata[i]) = running)
    BY <1>1 DEF TrialInv, RunInv, Idle
  <2>. QED
    BY <2>1, <2>2, OnTrialIs
<1>. QED
  BY <1>1, <1>2, <1>3, <1>4, <1>5, CallTrial

\* esp_ota_erase_last_boot_app_partition erases the previous record and image.
LEMMA EraseTrial ==
    ASSUME OtaInv, OtaInv', TrialInv, Careful, esp_ota_erase_last_boot_app_partition
    PROVE  TrialInv'
<1>1. /\ Idle /\ running \in next /\ ~OnTrial(running) /\ job' = erase_last_boot_app_partition(FALSE)
      /\ UNCHANGED <<conf, otadata, image, pc, running, home, next, goal, tried>>
  BY DEF esp_ota_erase_last_boot_app_partition, Settled, flash, boot, ghost
<1>2. PICK a, u : a = get_active_otadata(otadata) /\ u = job'
  OBVIOUS
<1>3. \A k \in DOMAIN u : Spares(u[k], a)
  BY <1>1, <1>2, EraseSpares
<1>. QED
  BY <1>1, <1>2, <1>3, CallTrial

\* A step that changes neither otadata, nor an image, nor the job.
LEMMA RestKeeps ==
    ASSUME TrialInv, UNCHANGED <<conf, otadata, image, job, home, tried>>
    PROVE  Common' /\ \A i \in 0 .. 1 : \A e : TrialOk(e, i) => TrialOk(e, i)'
<1>1. Common
  BY DEF TrialInv
<1>2. \A i \in 0 .. 1 : Records(i)' = Records(i) /\ Seen(i)' = Seen(i) /\ Seen(1 - i)' = Seen(1 - i)
  <2>1. \A i : Records(i)' = Records(i)
    BY DEF Records, OpsOf
  <2>2. ASSUME NEW i PROVE Seen(i)' = Seen(i)
    BY DEF Seen, OpsOf, Held
  <2>. QED
    BY <2>1, <2>2
<1>3. NoMore
  BY <1>2 DEF NoMore
<1>4. RecordsOk'
  BY <1>1, <1>2, <1>3, RecordsStay DEF Common
<1>5. SlotsApart' /\ SeenUntried'
  BY <1>1, <1>2, <1>3, ApartStays, UntriedStays DEF Common
<1>6. (tried \subseteq OtaSlots)'
  BY <1>1 DEF Common, OtaSlots
<1>7. ASSUME NEW i \in 0 .. 1, NEW e, TrialOk(e, i) PROVE TrialOk(e, i)'
  BY <1>2, <1>3, <1>7, TrialStays
<1>. QED
  BY <1>4, <1>5, <1>6, <1>7 DEF Common

\* esp_ota_end gives up the handle.
LEMMA EndTrial ==
    ASSUME OtaInv, TrialInv, esp_ota_end
    PROVE  TrialInv'
<1>1. /\ Idle /\ handle' = NoHandle
      /\ UNCHANGED <<conf, otadata, image, pc, job, running, home, next, goal, tried>>
  BY DEF esp_ota_end, flash, boot, ghost
<1>2. Common' /\ \A i \in 0 .. 1 : \A e : TrialOk(e, i) => TrialOk(e, i)'
  BY <1>1, RestKeeps
<1>3. PICK b : b = Boots(Held(otadata[0]), Held(otadata[1]))
  OBVIOUS
<1>4. /\ pc = "run" /\ job = <<>> /\ goal = next /\ One(b, next) /\ b \notin tried
      /\ \A i \in 0 .. 1 : IsNew(otadata[i]) => running # Slot(otadata[i]) /\ goal = {Slot(otadata[i])}
      /\ ~(IsPending(otadata[0]) /\ IsPending(otadata[1]))
      /\ \A i \in 0 .. 1 : IsPending(otadata[i]) /\ goal = {running} => Slot(otadata[i]) = running
      /\ \A i \in 0 .. 1 : IsPending(otadata[i]) /\ Slot(otadata[i]) = running => TrialOk(otadata[i], i)
  BY <1>1, <1>3, IdleFacts
<1>5. One(b, next)'
  <2>1. PICK w : w = next
    OBVIOUS
  <2>2. One(b, w)'
    BY <1>1, <1>4, <2>1, OneStays
  <2>. QED
    BY <1>1, <2>1, <2>2 DEF One, Bootable
<1>6. ASSUME NEW i \in 0 .. 1, IsPending(otadata[i]), Slot(otadata[i]) = running PROVE TrialOk(otadata[i], i)'
  <2>1. PICK e : e = otadata[i] /\ e = otadata'[i]
    BY <1>1
  <2>2. TrialOk(e, i)'
    BY <1>2, <1>4, <1>6, <2>1
  <2>. QED
    BY <2>1, <2>2 DEF TrialOk
<1>7. otadata' = otadata /\ running' = running /\ goal' = next' /\ job' = <<>> /\ goal' = goal
  BY <1>1, <1>4
<1>8. RunInv'
  BY <1>1, <1>3, <1>4, <1>5, <1>6, <1>7, RunIdle
<1>. QED
  BY <1>1, <1>2, <1>4, <1>8 DEF TrialInv, OffInv, LoadInv

\* esp_restart leaves what an application that is off needs.
LEMMA RestartTrial ==
    ASSUME OtaInv, TrialInv, esp_restart
    PROVE  TrialInv'
<1>1. /\ Idle /\ pc' = "reset"
      /\ UNCHANGED <<conf, otadata, image, job, home, next, goal, tried>>
  BY DEF esp_restart, flash, ghost
<1>2. Common'
  BY <1>1, RestKeeps
<1>3. PICK b, w : b = Boots(Held(otadata[0]), Held(otadata[1])) /\ w = next
  OBVIOUS
<1>4. pc = "run" /\ job = <<>> /\ goal = next /\ One(b, w)
  BY <1>1, <1>3, IdleFacts
<1>5. Kept(b, w)'
  <2>1. Kept(b, w)
    BY <1>4, KeptMore
  <2>. QED
    BY <1>1, <2>1, OneStays
<1>6. b = Boots(Held(otadata[0]), Held(otadata[1]))'
  BY <1>1, <1>3 DEF Boots, Named, Held, find_default_boot_partition
<1>7. Kept(Boots(Held(otadata[0]), Held(otadata[1])), next)'
  BY <1>1, <1>3, <1>5, <1>6 DEF Kept, Void, Bootable
<1>8. OffInv'
  BY <1>1, <1>4, <1>7 DEF OffInv
<1>. QED
  BY <1>1, <1>2, <1>8 DEF TrialInv, LoadInv, RunInv

\* A device that was never updated.
LEMMA InitTrial == ASSUME Init PROVE TrialInv
<1>1. PICK d : d = find_default_boot_partition
  OBVIOUS
<1>2. /\ \A i \in 0 .. 1 : otadata[i] = Erased
      /\ pc = "off" /\ job = <<>> /\ tried = {} /\ next = {d} /\ goal = next
  BY <1>1 DEF Init
<1>3. Bootable(d) /\ d \in Partitions
  <2>1. d \in Partitions
    BY <1>1, SlotsAre
  <2>2. d = IF conf.factory THEN FACTORY_INDEX ELSE 0
    BY <1>1 DEF find_default_boot_partition
  <2>3. image[d] = "ok"
    BY <2>1, <2>2 DEF Init
  <2>4. d = FACTORY_INDEX => conf.factory
    BY <2>2 DEF FACTORY_INDEX
  <2>. QED
    BY <2>1, <2>3, <2>4 DEF Bootable
<1>4. \A i \in 0 .. 1 : Records(i) = {Erased} /\ Seen(i) = {-1} /\ Held(otadata[i]) = -1
  BY <1>2, OpsNone, SeenIs, ErasedIs
<1>5. Boots(-1, -1) = d
  BY <1>1 DEF Boots, Named, Highest
<1>6. Common
  <2>1. RecordsOk
    BY <1>4, ErasedIs DEF RecordsOk
  <2>2. SlotsApart
    BY <1>4, ErasedIs DEF SlotsApart
  <2>3. SeenUntried
    BY <1>2 DEF SeenUntried
  <2>. QED
    BY <1>2, <2>1, <2>2, <2>3 DEF Common
<1>7. OffInv
  BY <1>2, <1>3, <1>4, <1>5 DEF OffInv, Kept
<1>. QED
  BY <1>2, <1>6, <1>7 DEF TrialInv, LoadInv, RunInv

\* What the running application's record on trial means between two calls.
LEMMA OnTrialFacts ==
    ASSUME OtaInv, TrialInv, Idle, OnTrial(running), NEW a, a = get_active_otadata(otadata)
    PROVE  /\ a \in 0 .. 1 /\ 1 - a \in 0 .. 1 /\ handle = NoHandle
           /\ IsPending(otadata[a]) /\ Slot(otadata[a]) = running /\ TrialOk(otadata[a], a)
           /\ \A i \in 0 .. 1 : ~IsNew(otadata[i])
           /\ ~IsPending(otadata[1 - a])
<1>1. Common
  BY DEF TrialInv
<1>2. PICK i \in 0 .. 1 : IsPending(otadata[i]) /\ Slot(otadata[i]) = running
  BY <1>1, OnTrialIs
<1>3. /\ \A k \in 0 .. 1 : Records(k) = {otadata[k]} /\ otadata[k] \in Entry /\ RecordOk(otadata[k])
      /\ \A k \in 0 .. 1 : IsNew(otadata[k]) => TrialOk(otadata[k], k)
      /\ ~(IsPending(otadata[0]) /\ IsPending(otadata[1]))
      /\ \A k \in 0 .. 1 : IsPending(otadata[k]) /\ Slot(otadata[k]) = running =>
            TrialOk(otadata[k], k) /\ handle = NoHandle
  BY IdleFacts
<1>4. TrialOk(otadata[i], i) /\ handle = NoHandle
  BY <1>2, <1>3
<1>5. a = i
  BY <1>1, <1>2, <1>4, BootIs
<1>6. PICK e, f : e = otadata[i] /\ f = otadata[1 - i]
  OBVIOUS
<1>7. 1 - i \in 0 .. 1 /\ 1 - (1 - i) = i
  OBVIOUS
<1>8. e \in Entry /\ RecordOk(e) /\ f \in Entry /\ RecordOk(f) /\ IsPending(e)
      /\ e \in Records(i) /\ f \in Records(1 - i)
  BY <1>2, <1>3, <1>6, <1>7
<1>9. ~IsPending(f)
  <2>1. (i = 0 /\ 1 - i = 1) \/ (i = 1 /\ 1 - i = 0)
    OBVIOUS
  <2>. QED
    BY <1>2, <1>3, <1>6, <2>1
<1>10. ~IsNew(e)
  BY <1>8 DEF IsNew, IsPending
<1>11. ASSUME IsNew(f) PROVE FALSE
  <2>1. TrialOk(f, 1 - i)
    BY <1>3, <1>6, <1>7, <1>11
  <2>2. select_valid(f) /\ f.ota_seq \in Int
    BY <1>8, <1>11, HeldIs
  <2>3. select_valid(e) /\ e.ota_seq \in Int
    BY <1>8, HeldIs
  <2>4. f.ota_seq < e.ota_seq
    BY <1>4, <1>6, <1>8, <2>2 DEF TrialOk
  <2>5. e \in Records(1 - (1 - i))
    BY <1>7, <1>8
  <2>6. e.ota_seq < f.ota_seq
    BY <2>1, <2>3, <2>5 DEF TrialOk
  <2>. QED
    BY <2>2, <2>3, <2>4, <2>6
<1>12. \A k \in 0 .. 1 : k = i \/ k = 1 - i
  OBVIOUS
<1>13. \A k \in 0 .. 1 : ~IsNew(otadata[k])
  BY <1>6, <1>10, <1>11, <1>12
<1>. QED
  BY <1>2, <1>4, <1>5, <1>6, <1>7, <1>9, <1>13

\* The application confirms itself, or gives itself up: its record is the active one, and
\* is rewritten with another state.
LEMMA MarkTrial ==
    ASSUME OtaInv, TrialInv, Idle, OnTrial(running), NEW a, a = get_active_otadata(otadata),
           NEW st \in {"VALID", "INVALID"}, NEW z, z = [otadata[a] EXCEPT !.ota_state = st],
           job' = rewrite_ota_seq(a, z),
           UNCHANGED <<conf, otadata, image, pc, running, handle, home, next>>,
           st = "VALID" => goal' = {running} /\ tried' = tried \ {running},
           st = "INVALID" => goal' = goal /\ tried' = tried
    PROVE  TrialInv'
<1>1. /\ a \in 0 .. 1 /\ 1 - a \in 0 .. 1 /\ handle = NoHandle
      /\ IsPending(otadata[a]) /\ Slot(otadata[a]) = running /\ TrialOk(otadata[a], a)
      /\ \A i \in 0 .. 1 : ~IsNew(otadata[i])
      /\ ~IsPending(otadata[1 - a])
  BY OnTrialFacts
<1>2. PICK e, f, b, s : /\ e = otadata[a] /\ f = otadata[1 - a] /\ s = job'
                        /\ b = Boots(Held(otadata[0]), Held(otadata[1]))
  OBVIOUS
<1>3. /\ Common /\ RunInv /\ pc = "run" /\ goal = next
      /\ \A i \in 0 .. 1 : OpsOf(job, i) = {} /\ Seen(i) = {Held(otadata[i])} /\ Records(i) = {otadata[i]}
      /\ \A i \in 0 .. 1 : otadata[i] \in Entry /\ RecordOk(otadata[i])
      /\ One(b, next) /\ b \notin tried /\ running \in Partitions /\ Bootable(running)
      /\ tried \subseteq OtaSlots
  BY <1>2, IdleFacts
<1>4. Same
  BY SameIs
<1>5. e \in Entry /\ f \in Entry /\ RecordOk(e) /\ RecordOk(f)
  BY <1>1, <1>2, <1>3
<1>6. e.crc /\ e.ota_seq \in Int /\ e.ota_seq >= 0 /\ Held(e) = -1 /\ select_valid(e)
      /\ Held(f) \in Int /\ Held(f) >= -1
  <2>1. Held(e) = -1 /\ select_valid(e) /\ e.crc /\ e.ota_seq >= 0 /\ e.ota_seq \in Int
    BY <1>1, <1>2, <1>5, HeldIs
  <2>2. Held(f) \in Int /\ Held(f) >= -1
    BY <1>5, HeldIs
  <2>. QED
    BY <2>1, <2>2
<1>7. z \in Entry /\ z.ota_seq = e.ota_seq /\ z.crc = e.crc /\ z.ota_state = st /\ Slot(z) = running
  <2>1. st \in States
    BY DEF States
  <2>. QED
    BY <1>1, <1>2, <1>5, <2>1, StateIs
<1>8. /\ ~IsNew(z) /\ ~IsPending(z)
      /\ st = "VALID" => Held(z) = e.ota_seq
      /\ st = "INVALID" => Held(z) = -1
  BY <1>6, <1>7 DEF IsNew, IsPending, Held, select_valid, select_invalid, UINT32_MAX
<1>9. /\ \A i \in 0 .. 1 : OpsOf(s, i) = IF i = a THEN {Erased, z} ELSE {}
      /\ s # <<>> /\ Last(s).op = "sector" /\ Last(s).at = a /\ Last(s).to = z
      /\ DOMAIN s = 1 .. 2 /\ Len(s) = 2 /\ s[1].to = Erased
      /\ \A k \in DOMAIN s : s[k].op = "sector" /\ s[k].at = a
  <2>1. s = rewrite_ota_seq(a, z) /\ a \in 0 .. 1
    BY <1>1, <1>2
  <2>. QED
    BY ONLY <2>1, RewriteJob
<1>10. tried' \subseteq tried
  OBVIOUS
<1>11. ASSUME NEW i \in 0 .. 1
       PROVE  /\ OpsOf(job, i)' = IF i = a THEN {Erased, z} ELSE {}
              /\ Records(i)' = IF i = a THEN {e, Erased, z} ELSE {f}
              /\ Seen(i)' = Seen(i)
  <2>1. OpsOf(job, i)' = OpsOf(s, i)
    BY <1>2 DEF OpsOf
  <2>2. OpsOf(job, i)' = IF i = a THEN {Erased, z} ELSE {}
    BY <1>9, <2>1
  <2>3. Records(i)' = {otadata[i]} \union OpsOf(job, i)'
    BY DEF Records
  <2>4. Seen(i)' = {Held(otadata[i])} \union {-1 : g \in OpsOf(job, i)'}
    BY SectorIs DEF Seen
  <2>5. i = a \/ i = 1 - a
    BY <1>1
  <2>6. CASE i = a
    BY <1>2, <1>3, <1>6, <2>2, <2>3, <2>4, <2>6
  <2>7. CASE i # a
    <3>1. otadata[i] = f
      BY <1>2, <2>5, <2>7
    <3>. QED
      BY <1>3, <2>2, <2>3, <2>4, <2>7, <3>1
  <2>. QED
    BY <2>6, <2>7
<1>12. ASSUME NEW i \in 0 .. 1, NEW g \in Records(i)' PROVE RecordOk(g)' /\ ~IsNew(g)
  <2>1. ASSUME RecordOk(g) PROVE RecordOk(g)'
    BY <1>4, <1>10, <2>1 DEF RecordOk, Same
  <2>2. CASE g = e
    BY <1>1, <1>2, <1>5, <2>1, <2>2
  <2>3. CASE g = f
    BY <1>1, <1>2, <1>5, <2>1, <2>3
  <2>4. CASE g = Erased
    BY <2>1, <2>4, ErasedIs
  <2>5. CASE g = z
    <3>1. z.ota_seq >= -1 /\ (z.crc => z.ota_seq >= 0)
      BY <1>6, <1>7
    <3>2. Held(z) # -1 => Slot(z) \notin tried'
      BY <1>7, <1>8
    <3>. QED
      BY <1>4, <1>8, <2>5, <3>1, <3>2 DEF RecordOk, Same
  <2>. QED
    BY <1>11, <1>12, <2>2, <2>3, <2>4, <2>5
<1>13. SlotsApart'
  <2>1. ASSUME NEW c \in Records(1)', NEW d \in Records(0)', IsNew(c) \/ IsPending(c), d.crc
        PROVE  Slot(c) # Slot(d)
    <3>1. IsPending(c)
      BY <1>12, <2>1
    <3>2. c \in {e, f, Erased, z}
      BY <1>11, <2>1
    <3>3. c = e /\ a = 1
      BY <1>1, <1>2, <1>8, <1>11, <2>1, <3>1, <3>2, ErasedIs
    <3>4. d = f /\ e = otadata[1] /\ f = otadata[0]
      BY <1>2, <1>11, <2>1, <3>3
    <3>5. c \in Records(1) /\ d \in Records(0)
      BY <1>3, <3>3, <3>4
    <3>. QED
      BY <1>3, <2>1, <3>1, <3>5 DEF Common, SlotsApart
  <2>. QED
    BY <1>4, <2>1 DEF SlotsApart, Same
<1>14. Common'
  <2>1. RecordsOk'
    BY <1>4, <1>12 DEF RecordsOk, Same
  <2>2. SeenUntried'
    BY <1>3, <1>10, <1>11, UntriedStays DEF Common
  <2>. QED
    BY <1>3, <1>10, <1>13, <2>1, <2>2 DEF Common, OtaSlots
<1>15. ASSUME NEW i \in 0 .. 1 PROVE End(i)' = IF i = a THEN Held(z) ELSE Held(f)
  <2>1. IsLast(i)' <=> i = a
    BY <1>2, <1>9 DEF IsLast
  <2>2. CASE i = a
    <3>1. End(i)' = Held(Last(s).to)'
      BY <1>2, <2>1, <2>2 DEF End
    <3>. QED
      BY <1>4, <1>9, <2>2, <3>1 DEF Same
  <2>3. CASE i # a
    <3>1. otadata[i] = f
      BY <1>1, <1>2, <2>3
    <3>2. OpsOf(job, i)' = {}
      BY <1>11, <2>3
    <3>3. End(i)' = Held(otadata[i])'
      BY <2>1, <2>3, <3>2 DEF End
    <3>. QED
      BY <2>3, <3>1, <3>3, SectorIs
  <2>. QED
    BY <2>2, <2>3
<1>16. (One(Boots(End(0), End(1)), goal) /\ Boots(End(0), End(1)) \notin tried)'
  <2>1. PICK x, y : x = End(0)' /\ y = End(1)'
    OBVIOUS
  <2>2. Boots(End(0), End(1))' = Boots(x, y)'
    BY <2>1 DEF Boots, Named, Highest
  <2>3. PICK c : c = Boots(x, y) /\ c = Boots(End(0), End(1))'
    BY <1>4, <2>2 DEF Same
  <2>4. CASE st = "VALID"
    <3>1. Held(f) < e.ota_seq
      <4>1. CASE Held(f) = -1
        BY <1>6, <4>1
      <4>2. CASE Held(f) # -1
        <5>1. select_valid(f) /\ Held(f) = f.ota_seq
          BY <1>5, <4>2, HeldIs
        <5>2. f \in Records(1 - a)
          BY <1>1, <1>2, <1>3
        <5>3. TrialOk(e, a)
          BY <1>1, <1>2
        <5>. QED
          BY <5>1, <5>2, <5>3 DEF TrialOk
      <4>. QED
        BY <4>1, <4>2
    <3>2. Named(e.ota_seq) = running
      BY <1>1, <1>2, <1>6 DEF Named, Slot
    <3>3. (x = e.ota_seq /\ y = Held(f)) \/ (y = e.ota_seq /\ x = Held(f))
      BY <1>1, <1>8, <1>15, <2>1, <2>4
    <3>4. c = Named(e.ota_seq)
      <4>1. PICK m \in Int, h \in Int : m = e.ota_seq /\ h = Held(f)
        BY <1>6
      <4>2. m >= -1 /\ h >= -1 /\ m >= h
        BY <1>6, <3>1, <4>1
      <4>3. Boots(m, h) = Named(m) /\ Boots(h, m) = Named(m)
        BY ONLY <4>1, <4>2, HighestIs
      <4>. QED
        BY <2>3, <3>3, <4>1, <4>3
    <3>5. c = running /\ goal' = {running} /\ c \notin tried'
      BY <2>4, <3>2, <3>4
    <3>6. One(c, goal)'
      BY <1>3, <3>5 DEF One, Bootable
    <3>. QED
      BY <2>3, <3>5, <3>6 DEF One, Bootable
  <2>5. CASE st = "INVALID"
    <3>1. x = Held(otadata[0]) /\ y = Held(otadata[1])
      <4>1. (a = 0 /\ e = otadata[0] /\ f = otadata[1]) \/ (a = 1 /\ e = otadata[1] /\ f = otadata[0])
        BY <1>1, <1>2
      <4>. QED
        BY <1>6, <1>8, <1>15, <2>1, <2>5, <4>1
    <3>2. c = b
      BY <1>2, <2>3, <3>1
    <3>3. One(c, next) /\ goal' = next
      BY <1>3, <2>5, <3>2
    <3>4. PICK w : w = next /\ w = goal'
      BY <3>3
    <3>5. One(c, w)'
      BY <3>3, <3>4, OneStays
    <3>6. One(c, goal)'
      BY <3>4, <3>5 DEF One, Bootable
    <3>. QED
      BY <1>3, <1>10, <2>3, <3>2, <3>6 DEF One, Bootable
  <2>. QED
    BY <2>4, <2>5
<1>17. ASSUME NEW x \in Seen(0)', NEW y \in Seen(1)' PROVE One(Boots(x, y), next)'
  <2>1. PICK c, w : c = Boots(x, y) /\ c = Boots(x, y)' /\ w = next
    BY <1>4 DEF Same
  <2>2. x \in Seen(0) /\ y \in Seen(1)
    BY <1>11, <1>17
  <2>3. One(c, w)
    <3>1. \A p \in Seen(0), q \in Seen(1) : One(Boots(p, q), next)
      BY <1>3 DEF RunInv
    <3>. QED
      BY <2>1, <2>2, <3>1
  <2>4. One(c, w)'
    BY <2>3, OneStays
  <2>. QED
    BY <2>1, <2>4 DEF One, Bootable
<1>18. (\A k \in DOMAIN job : k # Len(job) /\ job[k].op = "sector" => Held(job[k].to) = -1)'
  <2>1. \A k \in DOMAIN s : k # Len(s) => s[k].to = Erased
    BY <1>9
  <2>2. Held(Erased)' = -1
    BY <1>4, ErasedIs DEF Same
  <2>. QED
    BY <1>2, <2>1, <2>2
<1>19. \A i \in 0 .. 1 : \A g \in OpsOf(job, i)' : ~IsPending(g)'
  BY <1>4, <1>8, <1>11, ErasedIs DEF Same
<1>20. \A i \in 0 .. 1 : IsPending(otadata[i]) => i = a
  BY <1>1
<1>21. TrialOk(otadata[a], a)'
  <2>1. \A g \in Records(1 - a)' : select_valid(g) => g \in Records(1 - a)
    BY <1>1, <1>2, <1>3, <1>11
  <2>2. Seen(1 - a)' \subseteq Seen(1 - a)
    BY <1>1, <1>11
  <2>3. TrialOk(e, a) /\ e = otadata'[a]
    BY <1>1, <1>2
  <2>4. TrialOk(e, a)'
    BY <1>1, <1>10, <2>1, <2>2, <2>3, TrialMoves
  <2>. QED
    BY <2>3, <2>4 DEF TrialOk
<1>22. \A i \in 0 .. 1 : (IsPending(otadata[i])' <=> IsPending(otadata[i])) /\ ~IsNew(otadata[i])'
  BY <1>1, SectorIs
<1>23. \A i \in 0 .. 1 : \A g \in Records(i)' : ~IsNew(g)'
  BY <1>4, <1>12 DEF Same
<1>24. job' # <<>> /\ \A k \in DOMAIN job' : job'[k].op = "sector" /\ job'[k].at = a
  BY <1>2, <1>9
<1>25. handle' = NoHandle /\ otadata' = otadata /\ running' = running
  BY <1>1
<1>26. ~(IsPending(otadata[0]) /\ IsPending(otadata[1]))
  BY <1>20
<1>27. RunInv'
  BY <1>1, <1>16, <1>17, <1>18, <1>19, <1>20, <1>21, <1>22, <1>23, <1>24, <1>25, <1>26 DEF RunInv
<1>. QED
  BY <1>3, <1>14, <1>27 DEF TrialInv, OffInv, LoadInv

\* What an application that keeps to the order of calls has seen to when it chooses p.
LEMMA ChooseFacts ==
    ASSUME OtaInv, TrialInv, Careful, ~Again, NEW p \in Partitions, esp_ota_set_boot_partition(p)
    PROVE  /\ Idle /\ Bootable(p) /\ running \in next /\ ~OnTrial(running)
           /\ p # esp_ota_get_boot_partition /\ p # running /\ handle = NoHandle
           /\ job' = IF p = FACTORY_INDEX THEN <<SetSector(0, Erased), SetSector(1, Erased)>> ELSE RewriteOtaData(p)
           /\ home' = OwnRecord(running) /\ goal' = {p} /\ tried' = tried \ {p}
           /\ next' = IF p = FACTORY_INDEX THEN Partitions ELSE next
           /\ UNCHANGED <<conf, otadata, image, pc, running, handle>>
  BY DEF esp_ota_set_boot_partition, Settled, flash, boot

\* Choosing the factory application: both records are erased.
LEMMA FactoryTrial ==
    ASSUME OtaInv, TrialInv, Careful, ~Again, esp_ota_set_boot_partition(FACTORY_INDEX)
    PROVE  TrialInv'
<1>1. /\ Idle /\ Bootable(FACTORY_INDEX) /\ running \in next /\ ~OnTrial(running)
      /\ FACTORY_INDEX # running /\ handle = NoHandle
      /\ job' = <<SetSector(0, Erased), SetSector(1, Erased)>>
      /\ goal' = {FACTORY_INDEX} /\ tried' = tried \ {FACTORY_INDEX} /\ next' = Partitions
      /\ UNCHANGED <<conf, otadata, image, pc, running, handle>>
  BY SlotsAre, ChooseFacts
<1>2. conf.factory
  BY <1>1 DEF Bootable
<1>3. PICK a, b, g, h, s : /\ a = get_active_otadata(otadata) /\ b = Boots(Held(otadata[0]), Held(otadata[1]))
                           /\ g = SetSector(0, Erased) /\ h = SetSector(1, Erased) /\ s = job'
  OBVIOUS
<1>4. /\ Common /\ RunInv /\ pc = "run"
      /\ \A i \in 0 .. 1 : Records(i) = {otadata[i]}
      /\ \A i \in 0 .. 1 : otadata[i] \in Entry /\ RecordOk(otadata[i])
      /\ ~(IsPending(otadata[0]) /\ IsPending(otadata[1]))
      /\ tried \subseteq OtaSlots
  BY <1>1, <1>3, IdleFacts
<1>5. \A i \in 0 .. 1 : ~IsNew(otadata[i]) /\ ~(IsPending(otadata[i]) /\ Slot(otadata[i]) = running)
  BY <1>1, <1>3, CalmIs DEF Calm
<1>6. Same /\ tried' \subseteq tried /\ FACTORY_INDEX \notin tried
  BY <1>1, <1>4, SameIs, SlotsAre
<1>7. /\ g.op = "sector" /\ g.at = 0 /\ g.to = Erased /\ h.op = "sector" /\ h.at = 1 /\ h.to = Erased
  BY <1>3 DEF SetSector
<1>8. s = <<g, h>>
  BY <1>1, <1>3
<1>9. DOMAIN s = 1 .. 2 /\ Len(s) = 2 /\ s[1] = g /\ s[2] = h /\ s # <<>>
  BY <1>8
<1>10. ASSUME NEW i \in 0 .. 1
       PROVE  /\ OpsOf(job, i)' = {Erased} /\ Records(i)' = {otadata[i], Erased}
              /\ \A x \in Seen(i)' : x = Held(otadata[i]) \/ x = -1
  <2>1. OpsOf(job, i)' = OpsOf(s, i)
    BY <1>3 DEF OpsOf
  <2>2. OpsOf(s, i) = {Erased}
    BY <1>7, <1>9 DEF OpsOf
  <2>3. Records(i)' = {otadata[i]} \union OpsOf(job, i)'
    BY <1>1 DEF Records
  <2>4. Seen(i)' = {Held(otadata[i])} \union {-1 : e \in OpsOf(job, i)'}
    BY <1>1, SectorIs DEF Seen
  <2>. QED
    BY <2>1, <2>2, <2>3, <2>4
<1>11. Common'
  <2>1. ASSUME NEW i \in 0 .. 1, NEW e \in Records(i)' PROVE RecordOk(e)' /\ ~IsNew(e)'
    <3>1. RecordOk(e) /\ ~IsNew(e)
      <4>1. e = otadata[i] \/ e = Erased
        BY <1>10, <2>1
      <4>. QED
        BY <1>4, <1>5, <4>1, ErasedIs
    <3>. QED
      BY <1>6, <3>1 DEF RecordOk, Same
  <2>2. RecordsOk'
    BY <2>1 DEF RecordsOk
  <2>3. NoMore
    <3>1. ASSUME NEW i \in 0 .. 1, NEW e \in Records(i)' PROVE e \in Records(i) \/ (~e.crc /\ e.ota_seq >= -1)
      BY <1>4, <1>10, <3>1 DEF Erased, UINT32_MAX
    <3>. QED
      BY <3>1 DEF NoMore
  <2>4. SlotsApart'
    BY <1>1, <1>4, <2>3, ApartStays DEF Common
  <2>5. ASSUME NEW x \in Seen(0)', NEW y \in Seen(1)' PROVE Boots(x, y) \notin tried
    <3>1. Named(-1) \notin tried
      BY <1>2, <1>6 DEF Named, find_default_boot_partition
    <3>2. ASSUME NEW i \in 0 .. 1 PROVE Named(Held(otadata[i])) \notin tried
      <4>1. PICK e : e = otadata[i]
        OBVIOUS
      <4>2. e \in Entry /\ RecordOk(e)
        BY <1>4, <4>1
      <4>3. CASE Held(e) = -1
        BY <3>1, <4>1, <4>3
      <4>4. CASE Held(e) # -1
        <5>1. Named(Held(e)) = Slot(e)
          BY <4>2, <4>4, HeldIs
        <5>. QED
          BY <4>1, <4>2, <4>4, <5>1 DEF RecordOk
      <4>. QED
        BY <4>3, <4>4
    <3>3. Named(x) \notin tried /\ Named(y) \notin tried
      BY <1>10, <2>5, <3>1, <3>2
    <3>. QED
      BY <3>3 DEF Boots, Highest
  <2>6. SeenUntried'
    BY <1>6, <2>5 DEF SeenUntried, Same
  <2>. QED
    BY <1>4, <1>6, <2>2, <2>4, <2>6 DEF Common, OtaSlots
<1>12. \A x \in Seen(0)', y \in Seen(1)' : One(Boots(x, y), next)'
  BY <1>1, <1>2 DEF One, Partitions, OtaSlots
<1>13. (\A k \in DOMAIN job : job[k].op = "sector" /\ Held(job[k].to) = -1)'
  <2>1. \A k \in DOMAIN s : s[k].op = "sector" /\ s[k].to = Erased
    BY <1>7, <1>9
  <2>2. Held(Erased)' = -1
    BY <1>6, ErasedIs DEF Same
  <2>. QED
    BY <1>3, <2>1, <2>2
<1>14. (One(Boots(End(0), End(1)), goal) /\ Boots(End(0), End(1)) \notin tried)'
  <2>1. Last(s) = h
    BY <1>9 DEF Last
  <2>2. ~IsLast(0)' /\ IsLast(1)'
    BY <1>3, <1>7, <1>9, <2>1 DEF IsLast
  <2>3. End(0)' = -1
    <3>1. OpsOf(job, 0)' # {}
      BY <1>10
    <3>. QED
      BY <2>2, <3>1 DEF End
  <2>4. End(1)' = -1
    <3>1. End(1)' = Held(Last(s).to)'
      BY <1>3, <2>2 DEF End
    <3>2. Held(Erased)' = -1
      BY <1>6, ErasedIs DEF Same
    <3>. QED
      BY <1>7, <2>1, <3>1, <3>2
  <2>5. Boots(End(0), End(1))' = FACTORY_INDEX
    BY <1>1, <1>2, <2>3, <2>4 DEF Boots, Named, Highest, find_default_boot_partition
  <2>6. One(FACTORY_INDEX, goal)'
    BY <1>1 DEF One, Bootable
  <2>. QED
    BY <1>6, <2>5, <2>6 DEF One, Bootable
<1>15. \A i \in 0 .. 1 : \A e \in Records(i)' : ~IsNew(e)'
  BY <1>5, <1>6, <1>10, ErasedIs DEF Same
<1>16. \A i \in 0 .. 1 : \A e \in OpsOf(job, i)' : ~IsPending(e)'
  BY <1>6, <1>10, ErasedIs DEF Same
<1>17. \A i \in 0 .. 1 : ~IsNew(otadata[i])' /\ (IsPending(otadata[i])' <=> IsPending(otadata[i]))
  BY <1>1, <1>5, SectorIs
<1>18. goal' # {running'} /\ handle' = NoHandle /\ job' # <<>> /\ otadata' = otadata /\ running' = running
  BY <1>1, <1>3, <1>9
<1>19. RunInv'
  BY <1>4, <1>5, <1>12, <1>13, <1>14, <1>15, <1>16, <1>17, <1>18 DEF RunInv
<1>. QED
  BY <1>1, <1>4, <1>11, <1>19 DEF TrialInv, OffInv, LoadInv

\* The record N that is written to sector j when slot p is chosen: its number n stands
\* for the slot, is not below that of the active record, and goes to the other sector.
Chosen(p, a, j, n, N) ==
    /\ RewriteOtaData(p) = rewrite_ota_seq(j, N)
    /\ N.ota_seq = n /\ N.crc /\ N.ota_state = IF conf.rollback THEN "NEW" ELSE "UNDEFINED"
    /\ (n - 1) % AppCount = p
    /\ a = -1 => j = 0
    /\ a # -1 => j = 1 - a /\ n >= otadata[a].ota_seq

\* Choosing a slot writes such a record.
LEMMA ChosenIs ==
    ASSUME OtaInv, NEW p \in OtaSlots, NEW a, a = get_active_otadata(otadata)
    PROVE  \E j \in 0 .. 1, n \in Nat : \E N : Chosen(p, a, j, n, N)
<1>1. PICK st : st = IF conf.rollback THEN "NEW" ELSE "UNDEFINED"
  OBVIOUS
<1>2. a \in {-1, 0, 1}
  BY ActiveType
<1>3. CASE a = -1
  <2>1. PICK n, N : n = p + 1 /\ N = NewEntry(n, st)
    OBVIOUS
  <2>2. n \in Nat /\ (n - 1) % AppCount = p
    BY <2>1, FirstSeqIs
  <2>3. N.ota_seq = n /\ N.crc /\ N.ota_state = st
    BY <2>1 DEF NewEntry
  <2>4. RewriteOtaData(p) = rewrite_ota_seq(0, N)
    BY <1>1, <1>3, <2>1 DEF RewriteOtaData
  <2>. QED
    <3>1. Chosen(p, a, 0, n, N)
      BY <1>1, <1>3, <2>2, <2>3, <2>4 DEF Chosen
    <3>. QED
      BY <2>2, <3>1
<1>4. CASE a # -1
  <2>1. PICK e, q : e = otadata[a] /\ q = e.ota_seq
    OBVIOUS
  <2>2. e \in Entry /\ 1 - a \in 0 .. 1
    BY <1>2, <1>4, <2>1 DEF OtaInv, TypeOK
  <2>3. q \in Int /\ q <= SeqBound
    BY <2>1, <2>2 DEF Entry, Seqs
  <2>4. PICK n, N : n = NextSeq(p, q) /\ N = NewEntry(n, st)
    OBVIOUS
  <2>5. n \in Nat /\ n >= q /\ (n - 1) % AppCount = p
    BY <2>3, <2>4, NextSeqIs
  <2>6. N.ota_seq = n /\ N.crc /\ N.ota_state = st
    BY <2>4 DEF NewEntry
  <2>7. RewriteOtaData(p) = rewrite_ota_seq(1 - a, N)
    BY <1>1, <1>4, <2>1, <2>4 DEF RewriteOtaData
  <2>. QED
    <3>1. Chosen(p, a, 1 - a, n, N)
      BY <1>1, <1>4, <2>1, <2>2, <2>5, <2>6, <2>7 DEF Chosen
    <3>. QED
      BY <2>2, <2>5, <3>1
<1>. QED
  BY <1>3, <1>4

\* The record kept in sector 1 - j while the one in sector j is rewritten for p: it leads
\* to what the application in charge would come back to, and not to p.
KeptRecord(g, p, n) ==
    /\ g \in Entry /\ RecordOk(g) /\ ~IsNew(g)
    /\ Held(g) \in Int /\ Held(g) >= -1 /\ Held(g) < n
    /\ One(Named(Held(g)), OwnRecord(running)) /\ Named(Held(g)) # p /\ Named(Held(g)) \notin tried
    /\ select_valid(g) => g.ota_seq < n /\ Slot(g) # p

\* The active record is one, or else neither record can be selected.
LEMMA KeptRecordIs ==
    ASSUME OtaInv, TrialInv, Idle, running \in next, ~OnTrial(running),
           NEW p \in OtaSlots, p # esp_ota_get_boot_partition,
           NEW a, a = get_active_otadata(otadata), NEW j \in 0 .. 1, NEW n \in Nat,
           (n - 1) % AppCount = p, a = -1 => j = 0, a # -1 => j = 1 - a /\ n >= otadata[a].ota_seq,
           NEW g, g = otadata[1 - j]
    PROVE  KeptRecord(g, p, n)
<1>1. PICK b, q : b = Boots(Held(otadata[0]), Held(otadata[1])) /\ q = esp_ota_get_boot_partition
  OBVIOUS
<1>2. /\ Common /\ One(b, next) /\ b \notin tried /\ running \in Partitions /\ Bootable(running)
      /\ \A i \in 0 .. 1 : otadata[i] \in Entry /\ RecordOk(otadata[i])
  BY <1>1, IdleFacts
<1>3. Calm(a, b)
  BY <1>1, CalmIs
<1>4. 1 - j \in 0 .. 1
  OBVIOUS
<1>5. g \in Entry /\ RecordOk(g) /\ ~IsNew(g)
  BY <1>2, <1>3, <1>4 DEF Calm
<1>6. Held(g) \in Int /\ Held(g) >= -1 /\ g.ota_seq \in Int
  BY <1>5, HeldIs
<1>7. \/ a = -1 /\ ~select_valid(otadata[0]) /\ ~select_valid(otadata[1])
      \/ a \in 0 .. 1 /\ a # -1 /\ select_valid(otadata[a])
  BY ActiveIs DEF OtaInv, TypeOK
<1>8. a # -1 => g = otadata[a] /\ q = Slot(g)
  <2>1. a # -1 => 1 - j = a
    BY <1>7
  <2>. QED
    BY <1>1, <1>2, <2>1, BootIs
<1>9. a = -1 => ~select_valid(g) /\ Held(g) = -1 /\ q = find_default_boot_partition
  <2>1. a = -1 => g = otadata[1]
    OBVIOUS
  <2>2. a = -1 => q = find_default_boot_partition
    BY <1>1, <1>2, BootIs
  <2>. QED
    BY <1>3, <1>7, <2>1, <2>2 DEF Calm
<1>10. select_valid(g) => g.ota_seq < n /\ Slot(g) # p
  <2>1. ASSUME a # -1 PROVE g.ota_seq < n /\ Slot(g) # p
    <3>1. n >= g.ota_seq /\ Slot(g) # p
      BY <1>1, <1>8, <2>1
    <3>2. n # g.ota_seq
      BY <3>1 DEF Slot
    <3>. QED
      BY <1>6, <3>1, <3>2
  <2>. QED
    BY <1>9, <2>1
<1>11. Held(g) < n
  <2>1. Held(g) # -1 => select_valid(g) /\ Held(g) = g.ota_seq
    BY <1>5, HeldIs
  <2>. QED
    BY <1>6, <1>10, <2>1
<1>12. \/ Named(Held(g)) = q
       \/ conf.factory /\ Named(Held(g)) = FACTORY_INDEX /\ q # running
  <2>1. CASE a = -1
    BY <1>9, <2>1 DEF Named
  <2>2. CASE a # -1 /\ ~IsPending(g)
    <3>1. select_valid(g)
      BY <1>7, <1>8, <2>2
    <3>2. Held(g) = g.ota_seq /\ g.ota_seq >= 0
      BY <1>5, <2>2, <3>1, HeldIs
    <3>3. Named(Held(g)) = Slot(g)
      BY <3>2 DEF Named, Slot
    <3>. QED
      BY <1>8, <2>2, <3>3
  <2>3. CASE a # -1 /\ IsPending(g)
    <3>1. Held(g) = -1
      BY <1>5, <2>3, HeldIs
    <3>2. Slot(g) # running /\ conf.factory
      BY <1>3, <1>4, <2>3 DEF Calm
    <3>3. Named(-1) = FACTORY_INDEX
      BY <3>2 DEF Named, find_default_boot_partition
    <3>. QED
      BY <1>8, <2>3, <3>1, <3>2, <3>3
  <2>. QED
    BY <2>1, <2>2, <2>3
<1>13. q = running \/ conf.factory
  BY <1>1, <1>3 DEF Calm
<1>14. One(Named(Held(g)), OwnRecord(running))
  <2>1. CASE q = running
    <3>1. OwnRecord(running) = {running}
      BY <1>1, <2>1 DEF OwnRecord
    <3>2. Named(Held(g)) = running
      BY <1>12, <2>1
    <3>. QED
      BY <1>2, <3>1, <3>2 DEF One
  <2>2. CASE q # running
    <3>1. OwnRecord(running) = Partitions
      BY <1>1, <2>2 DEF OwnRecord
    <3>. QED
      BY <1>13, <2>2, <3>1 DEF One
  <2>. QED
    BY <2>1, <2>2
<1>15. Named(Held(g)) # p
  BY <1>1, <1>12, SlotsAre
<1>16. Named(Held(g)) \notin tried
  <2>1. CASE a # -1
    BY <1>3, <1>8, <2>1 DEF Calm
  <2>2. CASE a = -1
    <3>1. Held(otadata[0]) = -1 /\ Held(otadata[1]) = -1
      BY <1>3, <2>2 DEF Calm
    <3>2. b = Named(-1)
      BY <1>1, <3>1 DEF Boots, Highest
    <3>. QED
      BY <1>2, <1>9, <2>2, <3>2
  <2>. QED
    BY <2>1, <2>2
<1>. QED
  BY <1>5, <1>6, <1>10, <1>11, <1>14, <1>15, <1>16 DEF KeptRecord

\* Choosing a slot: the record that is not active is rewritten.
LEMMA SlotTrial ==
    ASSUME OtaInv, TrialInv, Careful, ~Again, NEW p \in OtaSlots, esp_ota_set_boot_partition(p)
    PROVE  TrialInv'
<1>1. /\ Idle /\ Bootable(p) /\ running \in next /\ ~OnTrial(running)
      /\ p # esp_ota_get_boot_partition /\ p # running /\ handle = NoHandle
      /\ job' = RewriteOtaData(p)
      /\ home' = OwnRecord(running) /\ goal' = {p} /\ tried' = tried \ {p} /\ next' = next
      /\ UNCHANGED <<conf, otadata, image, pc, running, handle>>
  BY SlotsAre, ChooseFacts
<1>2. PICK a, b, s : /\ a = get_active_otadata(otadata) /\ b = Boots(Held(otadata[0]), Held(otadata[1]))
                     /\ s = job'
  OBVIOUS
<1>3. PICK j \in 0 .. 1, n \in Nat : \E N : Chosen(p, a, j, n, N)
  BY <1>2, ChosenIs
<1>4. PICK N : /\ RewriteOtaData(p) = rewrite_ota_seq(j, N)
               /\ N.ota_seq = n /\ N.crc /\ N.ota_state = IF conf.rollback THEN "NEW" ELSE "UNDEFINED"
               /\ (n - 1) % AppCount = p
               /\ a = -1 => j = 0
               /\ a # -1 => j = 1 - a /\ n >= otadata[a].ota_seq
  BY <1>3 DEF Chosen
<1>5. PICK e, g : e = otadata[j] /\ g = otadata[1 - j]
  OBVIOUS
<1>6. /\ Common /\ RunInv /\ pc = "run"
      /\ \A i \in 0 .. 1 : Records(i) = {otadata[i]} /\ otadata[i] \in Entry /\ RecordOk(otadata[i])
      /\ ~(IsPending(otadata[0]) /\ IsPending(otadata[1]))
      /\ tried \subseteq OtaSlots
  BY <1>1, <1>2, IdleFacts
<1>7. Calm(a, b)
  BY <1>1, <1>2, CalmIs
<1>8. KeptRecord(g, p, n)
  BY <1>1, <1>2, <1>4, <1>5, KeptRecordIs
<1>9. Same /\ tried' \subseteq tried
  BY <1>1, SameIs
<1>10. /\ \A i \in 0 .. 1 : OpsOf(s, i) = IF i = j THEN {Erased, N} ELSE {}
       /\ s # <<>> /\ Last(s).op = "sector" /\ Last(s).at = j /\ Last(s).to = N
       /\ DOMAIN s = 1 .. 2 /\ Len(s) = 2 /\ s[1].to = Erased
       /\ \A k \in DOMAIN s : s[k].op = "sector" /\ s[k].at = j
  <2>1. s = rewrite_ota_seq(j, N)
    BY <1>1, <1>2, <1>4
  <2>. QED
    BY ONLY <2>1, j \in 0 .. 1, RewriteJob
<1>11. Held(N) = n /\ ~IsPending(N) /\ Slot(N) = p /\ N.ota_seq >= 0 /\ Named(n) = p
  BY <1>4 DEF Held, IsPending, select_valid, select_invalid, UINT32_MAX, Slot, Named
<1>12. ASSUME NEW i \in 0 .. 1
       PROVE  /\ OpsOf(job, i)' = IF i = j THEN {Erased, N} ELSE {}
              /\ Records(i)' = IF i = j THEN {e, Erased, N} ELSE {g}
              /\ \A x \in Seen(i)' : x = Held(otadata[i]) \/ (x = -1 /\ i = j)
              /\ i # j => otadata[i] = g
  <2>1. OpsOf(job, i)' = OpsOf(s, i)
    BY <1>2 DEF OpsOf
  <2>2. OpsOf(job, i)' = IF i = j THEN {Erased, N} ELSE {}
    BY <1>10, <2>1
  <2>3. Records(i)' = {otadata[i]} \union OpsOf(job, i)'
    BY <1>1 DEF Records
  <2>4. Seen(i)' = {Held(otadata[i])} \union {-1 : x \in OpsOf(job, i)'}
    BY <1>1, SectorIs DEF Seen
  <2>5. i # j => otadata[i] = g
    BY <1>5
  <2>6. CASE i = j
    BY <1>5, <2>2, <2>3, <2>4, <2>6
  <2>7. CASE i # j
    BY <2>2, <2>3, <2>4, <2>5, <2>7
  <2>. QED
    BY <2>6, <2>7
<1>13. e \in Entry /\ RecordOk(e) /\ ~IsNew(e) /\ RecordOk(g) /\ ~IsNew(g)
  BY <1>5, <1>6, <1>7, <1>8 DEF Calm, KeptRecord
<1>14. ASSUME NEW i \in 0 .. 1, NEW f \in Records(i)' PROVE RecordOk(f)' /\ (IsNew(f) => f = N /\ i = j)
  <2>1. ASSUME RecordOk(f) PROVE RecordOk(f)'
    BY <1>9, <2>1 DEF RecordOk, Same
  <2>2. CASE f = e
    BY <1>13, <2>1, <2>2
  <2>3. CASE f = g
    BY <1>13, <2>1, <2>3
  <2>4. CASE f = Erased
    BY <2>1, <2>4, ErasedIs
  <2>5. CASE f = N /\ i = j
    <3>1. Held(N)' = n /\ Slot(N) \notin tried'
      BY <1>1, <1>9, <1>11 DEF Same
    <3>2. RecordOk(N)'
      <4>1. N.ota_seq >= -1 /\ (N.crc => N.ota_seq >= 0)
        BY <1>4, <1>11
      <4>. QED
        BY <3>1, <4>1 DEF RecordOk, Slot
    <3>. QED
      BY <2>5, <3>2
  <2>. QED
    BY <1>12, <1>14, <2>2, <2>3, <2>4, <2>5
<1>15. TrialOk(N, j)'
  <2>1. 1 - j \in 0 .. 1 /\ 1 - j # j
    OBVIOUS
  <2>2. ASSUME NEW y \in Seen(1 - j)'
        PROVE  (One(Named(y), home) /\ Named(y) # Slot(N) /\ Named(y) \notin tried)'
    <3>1. y = Held(g)
      BY <1>12, <2>1, <2>2
    <3>2. PICK c, w : c = Named(y) /\ c = Named(y)' /\ w = OwnRecord(running)
      BY <1>9 DEF Same
    <3>3. One(c, w) /\ c # p /\ c \notin tried
      BY <1>8, <3>1, <3>2 DEF KeptRecord
    <3>4. One(c, w)'
      BY <1>1, <3>3, OneStays
    <3>5. One(Named(y), home)'
      BY <1>1, <3>2, <3>4 DEF One, Bootable
    <3>6. Slot(N)' = p
      BY <1>11 DEF Slot
    <3>. QED
      BY <1>9, <3>2, <3>3, <3>5, <3>6
  <2>3. ASSUME NEW f \in Records(1 - j)', select_valid(f) PROVE f.ota_seq < N.ota_seq
    <3>1. f = g
      BY <1>12, <2>1, <2>3
    <3>. QED
      BY <1>4, <1>8, <2>3, <3>1 DEF KeptRecord
  <2>. QED
    BY <2>2, <2>3 DEF TrialOk
<1>16. SlotsApart'
  <2>1. ASSUME NEW c \in Records(1)', NEW d \in Records(0)', IsNew(c) \/ IsPending(c), d.crc
        PROVE  Slot(c) # Slot(d)
    <3>1. CASE j = 1
      <4>1. c \in {e, Erased, N} /\ d = g /\ e = otadata[1] /\ g = otadata[0] /\ a = 0
        BY <1>4, <1>5, <1>7, <1>12, <2>1, <3>1 DEF Calm
      <4>2. CASE c = N
        <5>1. select_valid(g)
          BY <1>7, <4>1 DEF Calm
        <5>. QED
          BY <1>8, <1>11, <4>1, <4>2, <5>1 DEF KeptRecord
      <4>3. CASE c = e
        <5>1. c \in Records(1) /\ d \in Records(0)
          BY <1>6, <4>1, <4>3
        <5>. QED
          BY <1>6, <2>1, <5>1 DEF Common, SlotsApart
      <4>. QED
        BY <2>1, <4>1, <4>2, <4>3, ErasedIs
    <3>2. CASE j = 0
      <4>1. d \in {e, Erased, N} /\ c = g /\ e = otadata[0] /\ g = otadata[1]
        BY <1>5, <1>12, <2>1, <3>2
      <4>2. CASE d = N
        <5>1. IsPending(g)
          BY <1>13, <2>1, <4>1
        <5>2. select_valid(g)
          BY <1>8, <5>1, HeldIs DEF KeptRecord
        <5>. QED
          BY <1>8, <1>11, <4>1, <4>2, <5>2 DEF KeptRecord
      <4>3. CASE d = e
        <5>1. c \in Records(1) /\ d \in Records(0)
          BY <1>6, <4>1, <4>3
        <5>. QED
          BY <1>6, <2>1, <5>1 DEF Common, SlotsApart
      <4>. QED
        BY <2>1, <4>1, <4>2, <4>3, ErasedIs
    <3>. QED
      BY <3>1, <3>2
  <2>. QED
    BY <1>9, <2>1 DEF SlotsApart, Same
<1>17. ASSUME NEW x \in Seen(0)', NEW y \in Seen(1)' PROVE One(Boots(x, y), next) /\ Boots(x, y) \notin tried
  <2>1. x = Held(otadata[0]) \/ (x = -1 /\ j = 0)
    BY <1>12, <1>17
  <2>2. y = Held(otadata[1]) \/ (y = -1 /\ j = 1)
    BY <1>12, <1>17
  <2>3. a = -1 => x = -1 /\ y = -1
    BY <1>7, <2>1, <2>2 DEF Calm
  <2>4. a # j
    BY <1>4, <1>7 DEF Calm
  <2>5. x = Held(otadata[0]) \/ (x = -1 /\ a # 0)
    BY <2>1, <2>4
  <2>6. y = Held(otadata[1]) \/ (y = -1 /\ a # 1)
    BY <2>2, <2>4
  <2>. QED
    BY <1>1, <1>2, <1>7, <2>3, <2>5, <2>6, CalmBoots
<1>18. Common'
  <2>1. RecordsOk'
    BY <1>9, <1>14, <1>15 DEF RecordsOk, Same
  <2>2. SeenUntried'
    BY <1>9, <1>17 DEF SeenUntried, Same
  <2>. QED
    BY <1>6, <1>9, <1>16, <2>1, <2>2 DEF Common, OtaSlots
<1>19. \A x \in Seen(0)', y \in Seen(1)' : One(Boots(x, y), next)'
  <2>1. ASSUME NEW x \in Seen(0)', NEW y \in Seen(1)' PROVE One(Boots(x, y), next)'
    <3>1. PICK c, w : c = Boots(x, y) /\ c = Boots(x, y)' /\ w = next
      BY <1>9 DEF Same
    <3>2. One(c, w)
      BY <1>17, <2>1, <3>1
    <3>3. One(c, w)'
      BY <1>1, <3>2, OneStays
    <3>. QED
      BY <1>1, <3>1, <3>3 DEF One, Bootable
  <2>. QED
    BY <2>1
<1>20. ASSUME NEW i \in 0 .. 1 PROVE End(i)' = IF i = j THEN n ELSE Held(g)
  <2>1. IsLast(i)' <=> i = j
    BY <1>2, <1>10 DEF IsLast
  <2>2. CASE i = j
    <3>1. End(i)' = Held(Last(s).to)'
      BY <1>2, <2>1, <2>2 DEF End
    <3>. QED
      BY <1>9, <1>10, <1>11, <2>2, <3>1 DEF Same
  <2>3. CASE i # j
    <3>1. otadata[i] = g /\ OpsOf(job, i)' = {}
      BY <1>12, <2>3
    <3>2. End(i)' = Held(otadata[i])'
      BY <2>1, <2>3, <3>1 DEF End
    <3>. QED
      BY <1>1, <2>3, <3>1, <3>2, SectorIs
  <2>. QED
    BY <2>2, <2>3
<1>21. (One(Boots(End(0), End(1)), goal) /\ Boots(End(0), End(1)) \notin tried)'
  <2>1. PICK x, y : x = End(0)' /\ y = End(1)'
    OBVIOUS
  <2>2. Boots(End(0), End(1))' = Boots(x, y)'
    BY <2>1 DEF Boots, Named, Highest
  <2>3. PICK h \in Int : h = Held(g) /\ h >= -1 /\ h < n
    BY <1>8 DEF KeptRecord
  <2>4. (x = n /\ y = h) \/ (y = n /\ x = h)
    BY <1>20, <2>1, <2>3
  <2>5. Boots(n, h) = Named(n) /\ Boots(h, n) = Named(n)
    <3>1. n \in Int /\ n >= -1 /\ n >= h
      BY <2>3
    <3>. QED
      BY ONLY <2>3, <3>1, HighestIs
  <2>6. Boots(End(0), End(1))' = p
    BY <1>9, <1>11, <2>2, <2>4, <2>5 DEF Same
  <2>7. One(p, goal)'
    BY <1>1 DEF One, Bootable
  <2>. QED
    BY <1>1, <2>6, <2>7 DEF One, Bootable
<1>22. (\A k \in DOMAIN job : k # Len(job) /\ job[k].op = "sector" => Held(job[k].to) = -1)'
  <2>1. \A k \in DOMAIN s : k # Len(s) => s[k].to = Erased
    BY <1>10
  <2>2. Held(Erased)' = -1
    BY <1>9, ErasedIs DEF Same
  <2>. QED
    BY <1>2, <2>1, <2>2
<1>23. \A i \in 0 .. 1 : \A f \in OpsOf(job, i)' : ~IsPending(f)'
  BY <1>9, <1>11, <1>12, ErasedIs DEF Same
<1>24. \A i \in 0 .. 1 : \A f \in Records(i)' : IsNew(f)' => Slot(f) = p
  BY <1>9, <1>11, <1>14 DEF Same
<1>25. \A i \in 0 .. 1 : ~IsNew(otadata[i])' /\ (IsPending(otadata[i])' <=> IsPending(otadata[i]))
  BY <1>1, <1>7, SectorIs DEF Calm
<1>26. \A i \in 0 .. 1 : ~(IsPending(otadata[i]) /\ Slot(otadata[i]) = running)
  BY <1>7 DEF Calm
<1>27. /\ goal' # {running'} /\ goal' = {p} /\ running' # p /\ handle' = NoHandle /\ job' # <<>>
       /\ otadata' = otadata /\ running' = running
  BY <1>1, <1>2, <1>10
<1>28. \A k \in DOMAIN job' : job'[k].op = "sector"
  BY <1>2, <1>10
<1>29. RunInv'
  BY <1>6, <1>19, <1>21, <1>22, <1>23, <1>24, <1>25, <1>26, <1>27, <1>28 DEF RunInv
<1>. QED
  BY <1>1, <1>6, <1>18, <1>29 DEF TrialInv, OffInv, LoadInv

\* Every call of an application that keeps to the order of calls.
LEMMA ApplicationTrial ==
    ASSUME Careful, ~Again, OtaInv, OtaInv', TrialInv, Application
    PROVE  TrialInv'
<1>1. ASSUME NEW p \in OtaSlots, NEW b \in BOOLEAN, esp_ota_begin(p, b) PROVE TrialInv'
  BY <1>1, BeginTrial
<1>2. ASSUME NEW p \in OtaSlots, NEW b \in BOOLEAN, esp_ota_resume(p, b) PROVE TrialInv'
  BY <1>2, ResumeTrial
<1>3. ASSUME NEW v \in {"ok", "bad"}, esp_ota_write(v) PROVE TrialInv'
  BY <1>3, WriteTrial
<1>4. CASE esp_ota_end
  BY <1>4, EndTrial
<1>5. ASSUME NEW p \in Partitions, esp_ota_set_boot_partition(p) PROVE TrialInv'
  <2>1. CASE p = FACTORY_INDEX
    BY <1>5, <2>1, FactoryTrial
  <2>2. CASE p # FACTORY_INDEX
    <3>1. p \in OtaSlots
      BY <2>2 DEF Partitions
    <3>. QED
      BY <1>5, <3>1, SlotTrial
  <2>. QED
    BY <2>1, <2>2
<1>6. CASE esp_ota_mark_app_valid_cancel_rollback
  <2>1. PICK a, z, st : /\ a = get_active_otadata(otadata) /\ st = "VALID"
                        /\ z = [otadata[a] EXCEPT !.ota_state = st]
    OBVIOUS
  <2>2. /\ Idle /\ OnTrial(running) /\ job' = rewrite_ota_seq(a, z)
        /\ goal' = {running} /\ tried' = tried \ {running}
        /\ UNCHANGED <<conf, otadata, image, pc, running, handle, home, next>>
    BY <1>6, <2>1 DEF esp_ota_mark_app_valid_cancel_rollback, flash, boot
  <2>3. st \in {"VALID", "INVALID"} /\ st # "INVALID"
    BY <2>1
  <2>. QED
    BY <2>1, <2>2, <2>3, MarkTrial
<1>7. CASE esp_ota_mark_app_invalid_rollback
  <2>1. PICK a, z, st : /\ a = get_active_otadata(otadata) /\ st = "INVALID"
                        /\ z = [otadata[a] EXCEPT !.ota_state = st]
    OBVIOUS
  <2>2. /\ Idle /\ OnTrial(running) /\ job' = rewrite_ota_seq(a, z)
        /\ goal' = goal /\ tried' = tried
        /\ UNCHANGED <<conf, otadata, image, pc, running, handle, home, next>>
    BY <1>7, <2>1 DEF esp_ota_mark_app_invalid_rollback, flash, boot, ghost
  <2>3. st \in {"VALID", "INVALID"} /\ st # "VALID"
    BY <2>1
  <2>. QED
    BY <2>1, <2>2, <2>3, MarkTrial
<1>8. CASE esp_ota_erase_last_boot_app_partition
  BY <1>8, EraseTrial
<1>9. CASE esp_restart
  BY <1>9, RestartTrial
<1>. QED
  BY <1>1, <1>2, <1>3, <1>4, <1>5, <1>6, <1>7, <1>8, <1>9 DEF Application

\* A step that changes nothing.
LEMMA StutterTrial == ASSUME TrialInv, UNCHANGED vars PROVE TrialInv'
<1>1. UNCHANGED <<conf, otadata, image, pc, job, boot_index, ota_has_initial_contents,
                  running, handle, home, next, goal, tried>>
  BY DEF vars
<1>2. Common' /\ \A i \in 0 .. 1 : \A e : TrialOk(e, i) => TrialOk(e, i)'
  BY <1>1, RestKeeps
<1>3. Same
  BY <1>1, SameIs
<1>4. \A i : Records(i)' = Records(i) /\ OpsOf(job, i)' = OpsOf(job, i)
  BY <1>1 DEF Records, OpsOf
<1>5. ASSUME NEW i
      PROVE  /\ Held(otadata[i])' = Held(otadata[i]) /\ (IsNew(otadata[i])' <=> IsNew(otadata[i]))
             /\ (IsPending(otadata[i])' <=> IsPending(otadata[i]))
  BY <1>1, SectorIs
<1>6. \A i : Seen(i)' = Seen(i)
  BY <1>4, <1>5 DEF Seen
<1>7. ASSUME NEW x, NEW W PROVE (One(x, W) => One(x, W)') /\ (Kept(x, W) => Kept(x, W)')
  BY <1>1, OneStays
<1>8. OffInv'
  <2>1. PICK b, w : b = Boots(Held(otadata[0]), Held(otadata[1])) /\ w = next
    OBVIOUS
  <2>2. b = Boots(Held(otadata[0]), Held(otadata[1]))'
    BY <1>1, <2>1 DEF Boots, Named, Held, find_default_boot_partition
  <2>3. Kept(b, w) => Kept(Boots(Held(otadata[0]), Held(otadata[1])), next)'
    BY <1>1, <1>7, <2>1, <2>2 DEF Kept, Void, Bootable
  <2>. QED
    BY <1>1, <2>1, <2>3 DEF TrialInv, OffInv
<1>9. ASSUME NEW i \in 0 .. 1, TrialOk(otadata[i], i) PROVE TrialOk(otadata[i], i)'
  <2>1. PICK e : e = otadata[i] /\ e = otadata'[i]
    BY <1>1
  <2>2. TrialOk(e, i)'
    BY <1>2, <1>9, <2>1
  <2>. QED
    BY <2>1, <2>2 DEF TrialOk
<1>10. ASSUME NEW x, NEW y
       PROVE  /\ Boots(x, y)' = Boots(x, y)
              /\ One(Boots(x, y), next) => One(Boots(x, y), next)'
              /\ Kept(Boots(x, y), next \union home) => Kept(Boots(x, y), next \union home)'
  <2>1. PICK c, v, w : c = Boots(x, y) /\ c = Boots(x, y)' /\ v = next /\ w = next \union home
    BY <1>3 DEF Same
  <2>2. (One(c, v) => One(c, v)') /\ (Kept(c, w) => Kept(c, w)')
    BY <1>7
  <2>. QED
    BY <1>1, <2>1, <2>2 DEF One, Kept, Void, Bootable
<1>11. LoadInv'
  <2> SUFFICES ASSUME pc' = "load" PROVE LoadInv'
    BY DEF LoadInv
  <2>1. pc = "load" /\ LoadInv
    BY <1>1 DEF TrialInv
  <2>2. First' = First
    BY <1>1 DEF First, find_default_boot_partition
  <2>3. (goal = next /\ Kept(First, next) /\ boot_index \notin tried)'
    <3>1. PICK c, w : c = First /\ w = next
      OBVIOUS
    <3>2. Kept(c, w)'
      BY <1>7, <2>1, <3>1 DEF LoadInv
    <3>. QED
      BY <1>1, <2>1, <2>2, <3>1, <3>2 DEF LoadInv, Kept, Void, Bootable
  <2>4. (\A k \in DOMAIN job : job[k].op = "sector" /\ Held(job[k].to) = -1)'
    BY <1>1, <1>3, <2>1 DEF LoadInv, Same
  <2>5. (\A x \in Seen(0), y \in Seen(1) : Kept(Boots(x, y), next \union home))'
    BY <1>6, <1>10, <2>1 DEF LoadInv
  <2>6. (\A i \in 0 .. 1 : \A e \in OpsOf(job, i) : ~IsNew(e) /\ OnTrialAs(e, i, boot_index))'
    BY <1>1, <1>2, <1>3, <1>4, <2>1 DEF LoadInv, OnTrialAs, Same
  <2>7. (\A i \in 0 .. 1 : OpsOf(job, i) = {} => ~IsNew(otadata[i]) /\ OnTrialAs(otadata[i], i, boot_index))'
    BY <1>1, <1>4, <1>5, <1>9, <2>1 DEF LoadInv, OnTrialAs
  <2>8. (\/ job # <<>> /\ IsPending(Last(job).to)
         \/ job = <<>> /\ \E i \in 0 .. 1 : IsPending(otadata[i])
         \/ \A x \in Seen(0), y \in Seen(1) : Boots(x, y) = First)'
    BY <1>1, <1>3, <1>5, <1>6, <2>1, <2>2 DEF LoadInv, Same
  <2>9. (ota_has_initial_contents =>
           ~conf.factory /\ \A i \in 0 .. 1 : \A e \in Records(i) : BlankOrBad(e))'
    BY <1>1, <1>4, <2>1 DEF LoadInv
  <2>. QED
    BY <2>3, <2>4, <2>5, <2>6, <2>7, <2>8, <2>9 DEF LoadInv
<1>12. RunInv'
  <2> SUFFICES ASSUME pc' = "run" PROVE RunInv'
    BY DEF RunInv
  <2>1. pc = "run" /\ RunInv
    BY <1>1 DEF TrialInv
  <2>2. \A i \in 0 .. 1 : End(i)' = End(i)
    BY <1>1, <1>3, <1>4, <1>5 DEF End, IsLast, Same
  <2>3. (\A k \in DOMAIN job : k # Len(job) /\ job[k].op = "sector" => Held(job[k].to) = -1)'
    BY <1>1, <1>3, <2>1 DEF RunInv, Same
  <2>4. (\A k \in DOMAIN job : job[k].op = "image" => goal = next /\ One(running, next))'
    <3>1. PICK r, w : r = running /\ w = next
      OBVIOUS
    <3>2. One(running, next) => One(running, next)'
      BY <1>1, <1>7, <3>1 DEF One, Bootable
    <3>. QED
      BY <1>1, <2>1, <3>2 DEF RunInv
  <2>5. (\A x \in Seen(0), y \in Seen(1) : One(Boots(x, y), next))'
    BY <1>6, <1>10, <2>1 DEF RunInv
  <2>6. (One(Boots(End(0), End(1)), goal) /\ Boots(End(0), End(1)) \notin tried)'
    <3>1. PICK x, y, c, w : x = End(0) /\ y = End(1) /\ c = Boots(x, y) /\ w = goal
      OBVIOUS
    <3>2. Boots(End(0), End(1))' = c
      BY <1>1, <2>2, <3>1 DEF Boots, Named, Highest, find_default_boot_partition
    <3>3. One(c, w)' /\ c \notin tried
      BY <1>7, <2>1, <3>1 DEF RunInv
    <3>. QED
      BY <1>1, <3>1, <3>2, <3>3 DEF One, Bootable
  <2>7. (\A i \in 0 .. 1 : \A e \in Records(i) :
            IsNew(e) => running # Slot(e) /\ goal = {Slot(e)} /\ handle = NoHandle)'
    BY <1>1, <1>3, <1>4, <2>1 DEF RunInv, Same
  <2>8. (\A i \in 0 .. 1 : \A e \in OpsOf(job, i) : ~IsPending(e))'
    BY <1>3, <1>4, <2>1 DEF RunInv, Same
  <2>. QED
    BY <1>1, <1>5, <1>9, <2>1, <2>3, <2>4, <2>5, <2>6, <2>7, <2>8 DEF RunInv
<1>. QED
  BY <1>2, <1>8, <1>11, <1>12 DEF TrialInv

\* The records keep their promise throughout, if the application keeps to the order of
\* calls.
LEMMA TrialInvariant == ASSUME Careful, ~Again PROVE Spec => []TrialInv
<1>1. Init => TrialInv
  BY InitTrial
<1>2. OtaInv /\ OtaInv' /\ TrialInv /\ [Next]_vars => TrialInv'
  <2> SUFFICES ASSUME OtaInv, OtaInv', TrialInv, [Next]_vars PROVE TrialInv'
    OBVIOUS
  <2>1. CASE FlashStep
    BY <2>1, FlashKeepsTrial
  <2>2. CASE get_selected_boot_partition
    BY <2>2, SelectTrial
  <2>3. CASE load_boot_image
    BY <2>3, LoadOnTrial, LoadOwn
  <2>4. CASE Application
    BY <2>4, ApplicationTrial
  <2>5. CASE PowerLoss
    BY <2>5, PowerLossTrial
  <2>6. CASE UNCHANGED vars
    BY <2>6, StutterTrial
  <2>. QED
    BY <2>1, <2>2, <2>3, <2>4, <2>5, <2>6 DEF Next, Bootloader
<1>. QED
  BY <1>1, <1>2, OtaInvariant, PTL DEF Spec

\* Only load_boot_image starts an application.
LEMMA StartsAre ==
    ASSUME OtaInv, [Next]_vars, pc = "load", pc' = "run" PROVE load_boot_image
<1>1. ~FlashStep /\ ~get_selected_boot_partition /\ ~PowerLoss
  BY DEF FlashStep, get_selected_boot_partition, PowerLoss
<1>2. ~Application
  BY DEF Application, Idle, esp_ota_begin, BeginIn, esp_ota_resume, esp_ota_write, esp_ota_end,
     esp_ota_set_boot_partition, esp_ota_mark_app_valid_cancel_rollback,
     esp_ota_mark_app_invalid_rollback, esp_ota_erase_last_boot_app_partition, esp_restart
<1>. QED
  BY <1>1, <1>2 DEF Next, Bootloader, vars

(* An application that keeps to the documented order of calls gets what it *)
(* was promised, whenever power is lost: the partition that it chose, the  *)
(* old one if the choice was not yet written, and the old one again if the *)
(* new application did not confirm.                                        *)
THEOREM AlwaysBootsAsPromised == ASSUME Careful, ~Again PROVE Spec => BootsAsPromised
<1>1. OtaInv /\ TrialInv /\ [Next]_vars => [pc = "load" /\ pc' = "run" => running' \in next]_vars
  <2> SUFFICES ASSUME OtaInv, TrialInv, [Next]_vars, pc = "load", pc' = "run" PROVE running' \in next
    OBVIOUS
  <2>1. load_boot_image
    BY StartsAre
  <2>2. PICK p : p = running'
    OBVIOUS
  <2>3. p \in Partitions /\ (p = First \/ Void(next)) /\ LoadInv
    BY <2>1, <2>2, LoadFacts
  <2>4. Kept(First, next)
    BY <2>3 DEF LoadInv
  <2>. QED
    BY <2>2, <2>3, <2>4 DEF Kept, Void
<1>. QED
  BY <1>1, OtaInvariant, TrialInvariant, PTL DEF Spec, BootsAsPromised

(* Neither does an application that had its attempt and was not confirmed  *)
(* get another, as long as the application that chose it keeps to the      *)
(* documented order of calls.                                              *)
THEOREM AlwaysOneAttempt == ASSUME Careful, ~Again PROVE Spec => OneAttempt
<1>1. OtaInv /\ TrialInv /\ [Next]_vars =>
        [pc = "load" /\ pc' = "run" /\ running' = boot_index /\ running' \in tried
         => \A p \in Partitions \ {running'} : ~Bootable(p)]_vars
  <2> SUFFICES ASSUME TrialInv, pc = "load", running' = boot_index, running' \in tried PROVE FALSE
    OBVIOUS
  <2>. QED
    BY DEF TrialInv, LoadInv
<1>. QED
  BY <1>1, OtaInvariant, TrialInvariant, PTL DEF Spec, OneAttempt
=============================================================================
