------------------------------ MODULE WlFlash -------------------------------
(***************************************************************************)
(* Wear levelling of components/wear_levelling/WL_Flash.cpp.  A partition  *)
(* of MaxPos data sectors shows MaxPos - 1 logical ones; the sector left   *)
(* over, the dummy, moves through the partition, and where it is, is kept  *)
(* in two state sectors: a header with the number of laps, and a record    *)
(* for each sector the dummy has passed in this lap.                       *)
(*                                                                         *)
(* `calls' are the operations a client still has to make on logical        *)
(* sectors, `job' the flash operations the current one still has to make.  *)
(* Power may be lost before, in the middle of or after each of those.      *)
(***************************************************************************)
EXTENDS Integers, Sequences, FiniteSetsExt

CONSTANTS MaxPos,       \* wl_part_max_sec_pos
          UpdateRate,   \* wl_max_sec_erase_cycle_count: erases between moves
          Fats          \* flash_fat_sector_size_factor: parts of a sector

ASSUME WlAssumption ==
    /\ MaxPos \in Nat /\ MaxPos > 1 /\ UpdateRate \in Nat \ {0}
    /\ Fats \in Nat \ {0}

VARIABLES
    flash,      \* the data sectors
    st,         \* the two state sectors
    wl_dummy_sec_pos, wl_dummy_sec_move_count, wl_sec_erase_cycle_count,
    pc,         \* "off", "init", "recover" or "run"
    job,        \* flash operations still to be made
    calls,      \* erase and write calls still to be made
    rebuilt     \* history: init has begun to rebuild state sector 1 from sector 2

ram == <<wl_dummy_sec_pos, wl_dummy_sec_move_count, wl_sec_erase_cycle_count>>
wlVars == <<flash, st, wl_dummy_sec_pos, wl_dummy_sec_move_count,
            wl_sec_erase_cycle_count, pc, job, calls, rebuilt>>

Positions == 0 .. MaxPos - 1
Sectors == 0 .. MaxPos - 2
\* A sector is made of Fats parts; one that was never programmed is Empty.
Empty == <<"empty">>
Blank == [i \in 0 .. Fats - 1 |-> Empty]

\* A header passes its CRC check or not; `id' says whether wl_device_id, which
\* the records are made from, can be read from it (from sector 2 it never is,
\* unless the CRC is right).  The records of a broken sector are never read.
NoHeader == [ok |-> FALSE, id |-> FALSE, move |-> 0, rec |-> {}]

-----------------------------------------------------------------------------
(* Where a logical sector is *)

calcAddr(sector, pos, move) ==
    LET result == (MaxPos - 1 - move + sector) % (MaxPos - 1)
    IN  IF result < pos THEN result ELSE result + 1

Addr(sector) == calcAddr(sector, wl_dummy_sec_pos, wl_dummy_sec_move_count)

\* The dummy is at the first position without a record, or at the last one.
recoverPos(rec) == Min((Positions \ rec) \union {MaxPos - 1})

-----------------------------------------------------------------------------
(* Flash operations *)

Data(p, v)   == [op |-> "data", at |-> p, to |-> v]
EraseState(k) == [op |-> "erase", at |-> k, to |-> 0]
Header(k, m) == [op |-> "header", at |-> k, to |-> m]
Record(k, i) == [op |-> "record", at |-> k, to |-> i]

Written(o) ==
    CASE o.op = "erase"  -> NoHeader
      [] o.op = "header" -> [st[o.at] EXCEPT !.ok = TRUE, !.id = TRUE, !.move = o.to]
      [] o.op = "record" -> [st[o.at] EXCEPT !.rec = @ \union {o.to}]

\* The layer above keeps a record of four words at the start of a sector, and knows
\* it by the first.  Of the others, a sector number is taken modulo the size of the
\* partition, and offset and count come down to the parts that are not restored.
Signed(part) == part[1] = "trans"
AnyRecord ==
    {r \in {"trans"} \X Sectors \X (0 .. Fats) \X (0 .. Fats) :
       r[3] + r[4] <= Fats /\ (r[4] = 0 => r[3] = 0)}


\* The data operation of a call is the last of its job.
OfCall == pc = "run" /\ Len(job) = 1 /\ calls # <<>>

\* What may be left of a part that is being changed.
TornPart(was, to) ==
    IF to = was THEN {to}
    ELSE {<<"torn">>} \union IF Signed(was) \/ Signed(to) THEN AnyRecord ELSE {}

\* What a power loss in the middle of the operation may leave.
Torn(o) ==
    CASE o.op = "data"   ->
           {[i \in DOMAIN o.to |-> CASE i = 0 -> r
                                     [] i > 0 /\ o.to[i] = flash[o.at][i] -> o.to[i]
                                     [] OTHER -> <<"torn">>] :
              r \in TornPart(flash[o.at][0], o.to[0])}
      [] o.op \in {"erase", "header"} ->
           {[NoHeader EXCEPT !.id = b] : b \in IF o.at = 1 THEN BOOLEAN ELSE {FALSE}}
      [] o.op = "record" -> {st[o.at]}

Put(o, v) ==
    IF o.op = "data"
    THEN flash' = [flash EXCEPT ![o.at] = v] /\ UNCHANGED st
    ELSE st' = [st EXCEPT ![o.at] = v] /\ UNCHANGED flash

FlashStep ==
    /\ job # <<>>
    /\ LET o == Head(job) IN Put(o, IF o.op = "data" THEN o.to ELSE Written(o))
    /\ job' = Tail(job)
    /\ calls' = IF OfCall THEN Tail(calls) ELSE calls
    /\ rebuilt' = (rebuilt \/ (/\ pc = "init" /\ st[2].ok
                               /\ Head(job).op = "header" /\ Head(job).at = 1))
    /\ UNCHANGED <<ram, pc>>

PowerLoss ==
    /\ pc # "off"
    /\ IF job = <<>> THEN UNCHANGED <<flash, st>>
       ELSE \/ UNCHANGED <<flash, st>>
            \/ \E v \in Torn(Head(job)) : Put(Head(job), v)
    /\ pc' = "off" /\ job' = <<>> /\ calls' = <<>>
    /\ wl_dummy_sec_pos' = 0 /\ wl_dummy_sec_move_count' = 0
    /\ wl_sec_erase_cycle_count' = 0
    /\ UNCHANGED rebuilt

-----------------------------------------------------------------------------
(* Start *)

\* A partition that was never used, or one that was erased in the last lap before
\* the number of laps starts again.
WlInit ==
    /\ flash = [p \in Positions |-> Blank]
    /\ \E h \in {NoHeader, [ok |-> TRUE, id |-> TRUE, move |-> MaxPos - 2, rec |-> {}]} :
         st = [k \in {1, 2} |-> h]
    /\ wl_dummy_sec_pos = 0 /\ wl_dummy_sec_move_count = 0
    /\ wl_sec_erase_cycle_count = 0
    /\ pc = "off" /\ job = <<>> /\ calls = <<>> /\ rebuilt = FALSE

\* The positions in S from the first to the last.
Ascending(S) ==
    [n \in 1 .. Cardinality(S) |-> CHOOSE x \in S : Cardinality({y \in S : y < x}) = n - 1]

\* Rewrite state sector k: header, then the records the code recognises.
Rebuild(k, move, rec) ==
    <<EraseState(k), Header(k, move)>>
    \o [n \in 1 .. Cardinality(rec) |-> Record(k, Ascending(rec)[n])]

initSections == Rebuild(1, 0, {}) \o Rebuild(2, 0, {})

\* Where WL_Flash::init finds the dummy.  If state sector 1 is broken it was
\* being rewritten, and the dummy is taken to be at the last position; if only
\* sector 2 is, the position is the one in the header, which is always 0.
Recovered ==
    CASE st[1].ok /\ st[2].ok   -> [pos |-> recoverPos(st[1].rec), move |-> st[1].move]
      [] st[1].ok /\ ~st[2].ok  -> [pos |-> 0, move |-> st[1].move]
      [] ~st[1].ok /\ st[2].ok  -> [pos |-> MaxPos - 1, move |-> st[2].move]
      [] ~st[1].ok /\ ~st[2].ok -> [pos |-> 0, move |-> 0]

\* What it writes.  The records of sector 2 are compared with the device id
\* read from the broken header of sector 1 (OkBuffSet).
Repair ==
    CASE st[1].ok /\ st[2].ok   -> IF st[1].move = st[2].move THEN <<>>
                                  ELSE Rebuild(2, st[1].move, st[1].rec)
      [] st[1].ok /\ ~st[2].ok  -> Rebuild(2, st[1].move, st[1].rec)
      [] ~st[1].ok /\ st[2].ok  -> Rebuild(1, st[2].move, IF st[1].id THEN st[2].rec ELSE {})
      [] ~st[1].ok /\ ~st[2].ok -> initSections

init ==
    /\ pc = "off" /\ pc' = "init"
    /\ wl_dummy_sec_pos' = Recovered.pos
    /\ wl_dummy_sec_move_count' = Recovered.move
    /\ job' = Repair
    /\ UNCHANGED <<flash, st, wl_sec_erase_cycle_count, calls, rebuilt>>

-----------------------------------------------------------------------------
(* Moving the dummy *)

\* The operations of a move, and of the start of a new lap.
Copy(pos) == LET next == (pos + 1) % MaxPos
             IN  <<Data(pos, Blank), Data(pos, flash[next])>>

NextMove(pos, move) ==
    IF pos < MaxPos - 1 THEN move ELSE (move + 1) % (MaxPos - 1)

\* Fault: the records are written before the data is copied.
move_record_first(pos, move) ==
    <<Record(1, pos), Record(2, pos)>> \o Copy(pos)
    \o IF pos < MaxPos - 1 THEN <<>>
       ELSE Rebuild(1, NextMove(pos, move), {}) \o Rebuild(2, NextMove(pos, move), {})

\* Fault: the headers of a new lap are written with the old number.
move_old_lap(pos, move) ==
    Copy(pos) \o <<Record(1, pos), Record(2, pos)>>
    \o IF pos < MaxPos - 1 THEN <<>> ELSE Rebuild(1, move, {}) \o Rebuild(2, move, {})

Move(pos, move) ==
    Copy(pos) \o <<Record(1, pos), Record(2, pos)>>
    \o IF pos < MaxPos - 1 THEN <<>>
       ELSE Rebuild(1, NextMove(pos, move), {}) \o Rebuild(2, NextMove(pos, move), {})

\* updateWL, followed by the operation `then' on sector s at its new place.
updateWL(count, s, then) ==
    LET pos == wl_dummy_sec_pos
        move == wl_dummy_sec_move_count
        npos == (pos + 1) % MaxPos
        nmove == NextMove(pos, move)
    IN  IF count < UpdateRate
        THEN /\ job' = then[Addr(s)]
             /\ wl_sec_erase_cycle_count' = count
             /\ UNCHANGED <<wl_dummy_sec_pos, wl_dummy_sec_move_count>>
        ELSE /\ job' = Move(pos, move) \o then[calcAddr(s, npos, nmove)]
             /\ wl_sec_erase_cycle_count' = 0
             /\ wl_dummy_sec_pos' = npos /\ wl_dummy_sec_move_count' = nmove

Ready == pc = "run" /\ job = <<>>

EraseCall(s)    == [op |-> "erase", at |-> s, to |-> Blank]
WriteCall(s, v) == [op |-> "write", at |-> s, to |-> v]

erase_sector ==
    /\ Ready /\ calls # <<>> /\ Head(calls).op = "erase"
    /\ updateWL(wl_sec_erase_cycle_count + 1, Head(calls).at,
                [p \in Positions |-> <<Data(p, Blank)>>])
    /\ UNCHANGED <<flash, st, pc, calls, rebuilt>>

write ==
    /\ Ready /\ calls # <<>> /\ Head(calls).op = "write"
    /\ job' = <<Data(Addr(Head(calls).at), Head(calls).to)>>
    /\ UNCHANGED <<flash, st, ram, pc, calls, rebuilt>>

\* Moves the dummy whatever the count.
flush ==
    /\ Ready /\ calls = <<>>
    /\ updateWL(UpdateRate, 0, [p \in Positions |-> <<>>])
    /\ UNCHANGED <<flash, st, pc, calls, rebuilt>>

WlNext == init \/ FlashStep \/ erase_sector \/ write \/ flush \/ PowerLoss

-----------------------------------------------------------------------------
(* Properties *)

\* What a restart would find in each logical sector.
Durable ==
    LET r == Recovered IN [s \in Sectors |-> flash[calcAddr(s, r.pos, r.move)]]

\* A step changes what a restart would find only in the sector of a client's call,
\* when it is the data operation of that call.
SectorsKept ==
    LET before == Durable
        after == Durable'
    IN  \A s \in Sectors : after[s] = before[s] \/ (OfCall /\ Head(calls).at = s)

\* Power can be lost at any moment: no step of a move of the dummy, of its
\* records, of a new lap or of a start, finished or torn, changes what a restart
\* would find in any logical sector, until a start has to rebuild state sector 1
\* from sector 2 and writes its header: the records that say where the dummy is
\* follow one by one, or not at all.
SurvivesPowerLoss == [][rebuilt' \/ SectorsKept]_wlVars

\* The same without the exception: what the documentation says of the copies of
\* the state.
SurvivesAnyLoss == [][SectorsKept]_wlVars
=============================================================================
