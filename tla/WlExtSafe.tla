----------------------------- MODULE WlExtSafe ------------------------------
(***************************************************************************)
(* Safety mode of the wear levelling library, components/wear_levelling/   *)
(* WL_Ext_Safe.cpp and WL_Ext_Perf.cpp, on top of WlFlash: sectors smaller *)
(* than those of the flash.  Erasing some of the parts of a flash sector   *)
(* saves the others in the dump sector and describes the transaction in    *)
(* the state sector, so that init can finish it after a power loss.        *)
(***************************************************************************)
EXTENDS WlFlash

CONSTANTS Values,       \* what a client writes
          MaxCalls,     \* bound: calls a client makes
          MaxLosses     \* bound: times power is lost

ASSUME SafeAssumption == MaxPos > 3 /\ "trans" \notin Values /\ {MaxCalls, MaxLosses} \subseteq Nat

VARIABLES busy,         \* ghost: the parts the last call is about
          made, lost    \* calls made, times power was lost

vars == <<flash, st, wl_dummy_sec_pos, wl_dummy_sec_move_count,
          wl_sec_erase_cycle_count, pc, job, calls, rebuilt, busy, made, lost>>

DataSectors == 0 .. MaxPos - 4
TransSector == MaxPos - 3       \* buff_trans_state_addr
DumpSector  == MaxPos - 2       \* dump_addr
Parts == 0 .. Fats - 1

Read(s) == flash[Addr(s)]

\* A transaction record is written as one block of 16 bytes at the start; what a power
\* loss makes of it is in Torn.
Transaction(s, first, count) == [Blank EXCEPT ![0] = <<"trans", s, first, count>>]

\* Write back, one after the other, the parts outside first .. first+count-1.
Restore(s, buf, first, count) ==
    LET Kept(i) == i < first \/ i >= first + count
        Part(k) == IF k <= first THEN k - 1 ELSE k - 1 + count      \* the k-th of them
    IN  [k \in 1 .. Fats - count |->
           WriteCall(s, [i \in Parts |-> IF Kept(i) /\ i <= Part(k) THEN buf[i] ELSE Empty])]

\* The parts to be erased are not read: the dump holds for them whatever the
\* buffer held before.
erase_sector_fit(s, first, count) ==
    LET buf == [i \in Parts |-> IF i < first \/ i >= first + count
                                THEN Read(s)[i] ELSE <<"stale">>]
    IN  <<EraseCall(DumpSector), WriteCall(DumpSector, buf),
          EraseCall(TransSector), WriteCall(TransSector, Transaction(s, first, count)),
          EraseCall(s)>>
        \o Restore(s, buf, first, count) \o <<EraseCall(TransSector)>>

\* Whole sectors are erased directly.
erase_range(s, first, count) ==
    /\ Ready /\ calls = <<>>
    /\ calls' = IF count = Fats THEN <<EraseCall(s)>> ELSE erase_sector_fit(s, first, count)
    /\ busy' = {s} \X (first .. first + count - 1)
    /\ UNCHANGED <<flash, st, ram, pc, job, rebuilt>>

\* A client writes to parts it has erased.
write_part(s, i, v) ==
    /\ Ready /\ calls = <<>> /\ Read(s)[i] = Empty
    /\ calls' = <<WriteCall(s, [Read(s) EXCEPT ![i] = v])>>
    /\ busy' = {<<s, i>>}
    /\ UNCHANGED <<flash, st, ram, pc, job, rebuilt>>

\* Fault: an interrupted transaction is not finished.
recover_nothing(t) == <<>>

\* What is still to be done of the transaction found in the state sector.
recover(t) ==
    IF ~Signed(t) THEN <<>>
    ELSE <<EraseCall(t[2])>> \o Restore(t[2], Read(DumpSector), t[3], t[4])
         \o <<EraseCall(TransSector)>>

\* The init of this layer goes on where that of WlFlash ends.
init_safe ==
    /\ pc = "init" /\ job = <<>>
    /\ pc' = "run"
    /\ calls' = recover(Read(TransSector)[0])
    /\ UNCHANGED <<flash, st, ram, job, rebuilt, busy, made, lost>>

Init == WlInit /\ busy = {} /\ made = 0 /\ lost = 0

LowerLayer == (init \/ FlashStep \/ erase_sector \/ write) /\ UNCHANGED <<busy, made, lost>>

Client ==
  /\ made < MaxCalls /\ made' = made + 1 /\ UNCHANGED lost
  /\ \/ \E s \in DataSectors : \E first \in Parts : \E count \in 1 .. Fats - first :
          erase_range(s, first, count)
     \/ \E s \in DataSectors : \E i \in Parts : \E v \in Values : write_part(s, i, <<v>>)
     \/ flush /\ UNCHANGED busy

Loss == PowerLoss /\ lost < MaxLosses /\ lost' = lost + 1 /\ UNCHANGED <<busy, made>>

Next == LowerLayer \/ init_safe \/ Client \/ Loss

Spec == Init /\ [][Next]_vars

-----------------------------------------------------------------------------
(* Properties *)

\* What a restart would find in each part, once recover has finished the
\* transaction it finds.
DurableParts ==
    LET disk == Durable
        t == disk[TransSector][0]
    IN  [s \in DataSectors |-> [i \in Parts |->
           IF ~Signed(t) \/ t[2] # s THEN disk[s][i]
           ELSE IF i < t[3] \/ i >= t[3] + t[4] THEN disk[DumpSector][i] ELSE Empty]]

\* A step changes what a restart would find only in parts the last call is about.
PartsSame ==
    LET before == DurableParts
        after == DurableParts'
    IN  \A s \in DataSectors : \A i \in Parts :
          after[s][i] = before[s][i] \/ <<s, i>> \in busy

\* Power is lost while the transaction record is written or erased, and leaves its
\* sign with other words than were there or should have been.
RecordTorn ==
    LET t == Durable'[TransSector][0]
    IN  /\ pc' = "off" /\ OfCall /\ Head(calls).at = TransSector
        /\ Signed(t) /\ t \notin {Durable[TransSector][0], Head(calls).to[0]}

\* Erasing or writing some parts never costs the others of the same flash
\* sector, whenever power is lost, again while the transaction is being finished
\* or in the moves in between, as long as state sector 1 need not be rebuilt; the
\* one step that may is the loss of power in the middle of the transaction record,
\* which recover, knowing it by its sign alone, takes for one of another sector.
PartsKept == [][rebuilt' \/ RecordTorn \/ PartsSame]_vars

\* The same with every loss in the middle of a record.
PartsKeptByAnyRecord == [][rebuilt' \/ PartsSame]_vars
=============================================================================
