--------------------------------- MODULE Ota --------------------------------
(***************************************************************************)
(* Over-the-air updates: the functions of components/app_update/           *)
(* esp_ota_ops.c, which write application images and the two sectors of    *)
(* the otadata partition, and the second-stage bootloader of               *)
(* components/bootloader_support/src/bootloader_utility.c, which reads     *)
(* them and starts an application.                                         *)
(*                                                                         *)
(* A call reads otadata, decides, and leaves in `job' the flash operations *)
(* it still has to make; they are made one by one, and power may be lost   *)
(* before, in the middle of or after each.  An image is what image         *)
(* verification makes of it: "ok" or "bad".  The 32-bit word of ones, the  *)
(* value of ota_seq in an erased sector, is written -1.                    *)
(***************************************************************************)
EXTENDS Integers, SequencesExt, FiniteSetsExt

CONSTANTS AppCount,   \* OTA slots of the partition table
          MaxSeq,     \* bound: no call that needs a larger ota_seq is made
          Careful,    \* the application keeps to the documented call order
          Again       \* but it may choose a partition twice before it restarts

ASSUME OtaAssumption ==
    /\ AppCount \in Nat \ {0} /\ MaxSeq \in Nat \ {0}
    /\ {Careful, Again} \subseteq BOOLEAN

VARIABLES
    conf,       \* the build: a factory partition; BOOTLOADER_APP_ROLLBACK_ENABLE
    otadata,    \* the two sectors of the otadata partition
    image,      \* the application partitions
    pc,         \* "off", "reset", "load" (bootloader) or "run" (application)
    job,        \* flash operations still to be made
    boot_index, \* where the bootloader starts looking for an image
    ota_has_initial_contents,
    running,    \* the partition of the running application
    handle,     \* the open update: its partition, and whether data was written
    home,       \* ghost: the applications to come back to
    next,       \* ghost: the applications the next boot may start
    goal,       \* ghost: the same, once the job is done
    tried       \* ghost: slots booted since they were chosen, not yet confirmed

flash == <<otadata, image>>
boot  == <<boot_index, ota_has_initial_contents, running>>
ghost == <<home, next, goal, tried>>
vars  == <<conf, otadata, image, pc, job, boot_index, ota_has_initial_contents,
           running, handle, home, next, goal, tried>>

UINT32_MAX == -1
FACTORY_INDEX == -1
OtaSlots == 0 .. AppCount - 1
Partitions == OtaSlots \union {FACTORY_INDEX}
NoPartition == -2
NoHandle == [part |-> NoPartition, wrote |-> FALSE]

Erased == [ota_seq |-> UINT32_MAX, ota_state |-> "UNDEFINED", crc |-> FALSE]
NewEntry(seq, state) == [ota_seq |-> seq, ota_state |-> state, crc |-> TRUE]

-----------------------------------------------------------------------------
(* Reading otadata.  `crc' says whether the stored CRC is that of ota_seq. *)

Slot(e) == (e.ota_seq - 1) % AppCount

\* Fault: a record that was given up is selected like any other.
select_invalid_not_aborted(e) ==
    e.ota_seq = UINT32_MAX \/ e.ota_state = "INVALID"

select_invalid(e) ==
    e.ota_seq = UINT32_MAX \/ e.ota_state \in {"INVALID", "ABORTED"}

select_valid(e) == ~select_invalid(e) /\ e.crc

\* Fault: of two valid records the one in sector 1 wins.
active_is_second(o) ==
    LET valid == {i \in 0 .. 1 : select_valid(o[i])}
    IN  IF valid = {} THEN -1 ELSE Max(valid)

get_active_otadata(o) ==
    LET valid == {i \in 0 .. 1 : select_valid(o[i])}
    IN  CASE valid = {}     -> -1
          [] valid = 0 .. 1 -> IF o[0].ota_seq >= o[1].ota_seq THEN 0 ELSE 1
          [] OTHER          -> CHOOSE i \in valid : TRUE

BlankOrBad(e) == e.ota_seq = UINT32_MAX \/ ~e.crc

\* The application's own idea of what the bootloader will start.
\* Fault: the factory application is named whether there is one or not.
default_is_factory == FACTORY_INDEX

find_default_boot_partition == IF conf.factory THEN FACTORY_INDEX ELSE 0

esp_ota_get_boot_partition ==
    LET active == get_active_otadata(otadata)
    IN  IF \/ \A i \in 0 .. 1 : select_invalid(otadata[i])
           \/ active = -1
        THEN find_default_boot_partition
        ELSE Slot(otadata[active])

\* The state recorded for a slot: the first sector that names the slot.
esp_ota_get_state_partition(p) ==
    LET named == {i \in 0 .. 1 : otadata[i].crc /\ Slot(otadata[i]) = p}
    IN  IF named = {} THEN "NOT_FOUND" ELSE otadata[Min(named)].ota_state

-----------------------------------------------------------------------------
(* Flash operations *)

SetSector(i, e) == [op |-> "sector", at |-> i, to |-> e]
SetImage(p, v)  == [op |-> "image", at |-> p, to |-> v]

\* Erase, then write: the same in the application and in the bootloader.
rewrite_ota_seq(i, e) == <<SetSector(i, Erased), SetSector(i, e)>>

Apply(op, v) ==
    IF op.op = "sector"
    THEN otadata' = [otadata EXCEPT ![op.at] = v] /\ UNCHANGED image
    ELSE image' = [image EXCEPT ![op.at] = v] /\ UNCHANGED otadata

\* What power loss in the middle of an operation may leave.  A record is
\* written from its ota_seq on to its CRC, which comes last.
Torn(op) ==
    IF op.op = "image" THEN {"bad"}
    ELSE IF op.to = Erased THEN {[otadata[op.at] EXCEPT !.crc = FALSE]}
    ELSE {[op.to EXCEPT !.crc = FALSE],
          [op.to EXCEPT !.crc = FALSE, !.ota_state = "UNDEFINED"]}

FlashStep ==
    /\ job # <<>>
    /\ Apply(Head(job), Head(job).to)
    /\ job' = Tail(job)
    /\ next' = IF Len(job) = 1 THEN goal ELSE next
    /\ UNCHANGED <<conf, pc, handle, boot, home, goal, tried>>

PowerLoss ==
    /\ pc # "off"
    /\ IF job = <<>> THEN UNCHANGED flash
       ELSE \/ UNCHANGED flash
            \/ \E v \in Torn(Head(job)) : Apply(Head(job), v)
    /\ pc' = "off" /\ job' = <<>> /\ running' = NoPartition
    /\ handle' = NoHandle
    /\ next' = next \union goal \union (IF pc = "load" THEN home ELSE {})
    /\ goal' = next'
    /\ UNCHANGED <<conf, boot_index, ota_has_initial_contents, home, tried>>

-----------------------------------------------------------------------------
(* The bootloader *)

Init ==
    /\ conf \in [factory : BOOLEAN, rollback : BOOLEAN]
    /\ otadata = [i \in 0 .. 1 |-> Erased]
    /\ image = [p \in Partitions |->
                  IF p = (IF conf.factory THEN FACTORY_INDEX ELSE 0)
                  THEN "ok" ELSE "bad"]
    /\ pc = "off" /\ job = <<>>
    /\ boot_index = FACTORY_INDEX /\ ota_has_initial_contents = FALSE
    /\ running = NoPartition /\ handle = NoHandle
    /\ home = {find_default_boot_partition}
    /\ next = home /\ goal = next /\ tried = {}

\* bootloader_utility_get_selected_boot_partition: give up the records of
\* applications that did not confirm, select, and put a new one on trial.
get_selected_boot_partition ==
    /\ pc \in {"off", "reset"}
    /\ LET pending == {i \in 0 .. 1 : /\ conf.rollback
                                      /\ otadata[i].ota_state = "PENDING_VERIFY"}
           aborted == [i \in 0 .. 1 |->
                         IF i \in pending
                         THEN [otadata[i] EXCEPT !.ota_state = "ABORTED"]
                         ELSE otadata[i]]
           none == \A i \in 0 .. 1 : select_invalid(aborted[i])
           active == get_active_otadata(aborted)
           abort(i) == IF i \in pending THEN rewrite_ota_seq(i, aborted[i]) ELSE <<>>
           trial == /\ conf.rollback /\ ~none /\ active # -1
                    /\ aborted[active].ota_state = "NEW"
       IN  /\ job' = abort(0) \o abort(1) \o
                     IF trial
                     THEN rewrite_ota_seq(active,
                            [aborted[active] EXCEPT !.ota_state = "PENDING_VERIFY"])
                     ELSE <<>>
           /\ boot_index' = CASE none /\ ~conf.factory   -> 0
                              [] ~none /\ active # -1    -> Slot(aborted[active])
                              [] OTHER                   -> FACTORY_INDEX
           /\ ota_has_initial_contents' =
                 (none /\ ~conf.factory /\ \A i \in 0 .. 1 : BlankOrBad(aborted[i]))
    /\ pc' = "load"
    /\ UNCHANGED <<conf, flash, running, handle, ghost>>

\* Down from the selected index to the factory application, then up.
LoadOrder(start) ==
    [k \in 1 .. AppCount + 1 |-> IF k <= start + 2 THEN start + 1 - k ELSE k - 2]

Bootable(p) == image[p] = "ok" /\ (p = FACTORY_INDEX => conf.factory)

FirstBootable(start, P) ==
    LoadOrder(start)[Min({k \in 1 .. AppCount + 1 : LoadOrder(start)[k] \in P})]

set_actual_ota_seq(p) ==
    IF p > FACTORY_INDEX /\ ota_has_initial_contents
    THEN rewrite_ota_seq(0, NewEntry(p + 1, "VALID")) ELSE <<>>

OnTrial(p) == conf.rollback /\ esp_ota_get_state_partition(p) = "PENDING_VERIFY"

\* Ghost: an application started in place of a broken one is not the one the
\* records name, and nothing is promised about the boots that follow.
OwnRecord(p) == IF p = esp_ota_get_boot_partition THEN {p} ELSE Partitions

\* The loop over the partitions P; bootloader_reset when none can be started.
LoadFrom(P) ==
    /\ pc = "load" /\ job = <<>>
    /\ IF P # {}
       THEN LET p == FirstBootable(boot_index, P)
            IN  /\ running' = p /\ pc' = "run"
                /\ job' = set_actual_ota_seq(p)
                /\ home' = IF OnTrial(p) THEN home ELSE OwnRecord(p)
                /\ next' = home' /\ goal' = home'
                /\ tried' = IF OnTrial(p) THEN tried \union {p} ELSE tried
       ELSE pc' = "reset" /\ UNCHANGED <<running, job, ghost>>
    /\ UNCHANGED <<conf, flash, boot_index, ota_has_initial_contents, handle>>

\* Fault: the partitions above the selected one are not tried.
load_downwards == LoadFrom({p \in Partitions : p <= boot_index /\ Bootable(p)})

load_boot_image == LoadFrom({p \in Partitions : Bootable(p)})

-----------------------------------------------------------------------------
(* The running application *)

Idle == pc = "run" /\ job = <<>>

\* Documented order of calls: an application confirms itself before it starts
\* an update, and restarts once it has chosen another partition.
Settled == Careful => running \in next /\ ~OnTrial(running)

\* erase_last_boot_app_partition: the record that is not active, and unless
\* skip_app_part_erase its image too, if it is not that of the running one.
erase_last_boot_app_partition(skip_app_part_erase) ==
    LET active == get_active_otadata(otadata)
        last == otadata[1 - active]
    IN  IF active = -1 \/ BlankOrBad(last) \/ Slot(last) = running THEN <<>>
        ELSE (IF skip_app_part_erase THEN <<>> ELSE <<SetImage(Slot(last), "bad")>>)
             \o <<SetSector(1 - active, Erased)>>

BeginIn(p, sequential) ==
    /\ Idle /\ handle = NoHandle
    /\ Settled
    /\ handle' = [part |-> p, wrote |-> FALSE]
    /\ job' = (IF sequential THEN <<>> ELSE <<SetImage(p, "bad")>>)
              \o (IF conf.rollback THEN erase_last_boot_app_partition(TRUE) ELSE <<>>)
    /\ UNCHANGED <<conf, flash, pc, boot, ghost>>

\* Fault: an update may be written over the running application.
begin_anywhere(p, sequential) == ~OnTrial(running) /\ BeginIn(p, sequential)

esp_ota_begin(p, sequential) ==
    p # running /\ ~OnTrial(running) /\ BeginIn(p, sequential)

esp_ota_resume(p, offset) ==
    /\ Idle /\ handle = NoHandle /\ p # running
    /\ Settled
    /\ handle' = [part |-> p, wrote |-> offset]
    /\ UNCHANGED <<conf, flash, pc, job, boot, ghost>>

\* The image is whole once its last part is written.
esp_ota_write(v) ==
    /\ Idle /\ handle # NoHandle
    /\ handle' = [handle EXCEPT !.wrote = TRUE]
    /\ job' = <<SetImage(handle.part, v)>>
    /\ UNCHANGED <<conf, flash, pc, boot, ghost>>

\* Verification does not change the image, and the handle goes in any case.
esp_ota_end ==
    /\ Idle /\ handle # NoHandle
    /\ handle' = NoHandle
    /\ UNCHANGED <<conf, flash, pc, job, boot, ghost>>

\* The least ota_seq not below seq that stands for the slot.
NextSeq(slot, seq) ==
    Min({b \in {((slot + 1) % AppCount) + i * AppCount : i \in 0 .. MaxSeq} : b >= seq})

RewriteOtaData(slot) ==
    LET active == get_active_otadata(otadata)
        state == IF conf.rollback THEN "NEW" ELSE "UNDEFINED"
    IN  IF active = -1 THEN rewrite_ota_seq(0, NewEntry(slot + 1, state))
        ELSE rewrite_ota_seq(1 - active,
               NewEntry(NextSeq(slot, otadata[active].ota_seq), state))

\* Choosing the factory application erases sector 0, then sector 1: in between
\* an older record shows, and the model promises nothing if power is lost there.
esp_ota_set_boot_partition(p) ==
    /\ Idle /\ Bootable(p)
    /\ \/ Settled /\ (Careful => p # esp_ota_get_boot_partition)
       \/ Again /\ next = {p}
    /\ Careful => p # running /\ handle = NoHandle
    /\ job' = IF p = FACTORY_INDEX
              THEN <<SetSector(0, Erased), SetSector(1, Erased)>>
              ELSE RewriteOtaData(p)
    /\ Last(job').to.ota_seq <= MaxSeq
    /\ home' = OwnRecord(running) /\ goal' = {p} /\ tried' = tried \ {p}
    /\ next' = IF p = FACTORY_INDEX THEN Partitions ELSE next
    /\ UNCHANGED <<conf, flash, pc, boot, handle>>

esp_ota_mark_app_valid_cancel_rollback ==
    /\ Idle /\ (Careful => OnTrial(running))
    /\ LET active == get_active_otadata(otadata)
       IN  /\ active # -1 /\ otadata[active].ota_state # "VALID"
           /\ job' = rewrite_ota_seq(active,
                        [otadata[active] EXCEPT !.ota_state = "VALID"])
    /\ goal' = {running} /\ tried' = tried \ {running}
    /\ UNCHANGED <<conf, flash, pc, boot, handle, home, next>>

esp_ota_check_rollback_is_possible ==
    LET active == get_active_otadata(otadata)
        last == otadata[1 - active]
    IN  /\ active # -1
        /\ IF select_valid(last) THEN image[Slot(last)] = "ok"
           ELSE Bootable(FACTORY_INDEX)

esp_ota_mark_app_invalid_rollback ==
    /\ Idle /\ (Careful => OnTrial(running))
    /\ esp_ota_check_rollback_is_possible
    /\ LET active == get_active_otadata(otadata)
       IN  job' = rewrite_ota_seq(active,
                     [otadata[active] EXCEPT !.ota_state = "INVALID"])
    /\ UNCHANGED <<conf, flash, pc, boot, handle, ghost>>

esp_ota_erase_last_boot_app_partition ==
    /\ Idle /\ Settled
    /\ job' = erase_last_boot_app_partition(FALSE) /\ job' # <<>>
    /\ UNCHANGED <<conf, flash, pc, boot, handle, ghost>>

esp_restart ==
    /\ Idle
    /\ pc' = "reset" /\ running' = NoPartition /\ handle' = NoHandle
    /\ UNCHANGED <<conf, flash, job, boot_index, ota_has_initial_contents, ghost>>

Application ==
    \/ \E p \in OtaSlots : \E b \in BOOLEAN :
          esp_ota_begin(p, b) \/ esp_ota_resume(p, b)
    \/ \E v \in {"ok", "bad"} : esp_ota_write(v)
    \/ esp_ota_end
    \/ \E p \in Partitions : esp_ota_set_boot_partition(p)
    \/ esp_ota_mark_app_valid_cancel_rollback
    \/ esp_ota_mark_app_invalid_rollback
    \/ esp_ota_erase_last_boot_app_partition
    \/ esp_restart

Bootloader == FlashStep \/ get_selected_boot_partition \/ load_boot_image

Next == Bootloader \/ Application \/ PowerLoss

Spec == Init /\ [][Next]_vars /\ WF_vars(Bootloader)

-----------------------------------------------------------------------------
(* Properties *)

\* At every moment, also between two flash operations, some image can be
\* started: an update and the erasure of the previous application never touch
\* the running one.
AlwaysBootable == \E p \in Partitions : Bootable(p)

\* A boot starts what the records promise: the chosen partition once
\* esp_ota_set_boot_partition has returned; the old or the chosen one when
\* power was lost before; and when the new application was not confirmed, the
\* one that had chosen it.
BootsAsPromised == [][pc = "load" /\ pc' = "run" => running' \in next]_vars

\* With rollback enabled, an application that was started once and did not
\* confirm is not selected again unless it is the only one left.
OneAttempt ==
    [][pc = "load" /\ pc' = "run" /\ running' = boot_index /\ running' \in tried
       => \A p \in Partitions \ {running'} : ~Bootable(p)]_vars

\* esp_ota_get_boot_partition names the partition at which the bootloader
\* will start looking, unless a record is still to be given up.
NothingToGiveUp ==
    conf.rollback => \A i \in 0 .. 1 : otadata[i].ota_state # "PENDING_VERIFY"

FirstPresent(start) ==
    LET present == {k \in 1 .. AppCount + 1 :
                      LoadOrder(start)[k] = FACTORY_INDEX => conf.factory}
    IN  LoadOrder(start)[Min(present)]

BootPartitionAgrees ==
    [][pc' = "load" /\ pc # "load" /\ NothingToGiveUp
       => FirstPresent(boot_index') = esp_ota_get_boot_partition]_vars

\* If power stays on, an application runs again and again.
AlwaysBoots == <>[](pc # "off") => []<>(pc = "run")
=============================================================================
