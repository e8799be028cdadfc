------------------------ MODULE SpiBusLockSlotsProofs ------------------------
(***************************************************************************)
(* Theorems about the registration of devices with the SPI bus lock, for   *)
(* any tasks, addresses and number of slots.                               *)
(***************************************************************************)
EXTENDS SpiBusLockSlots, TLAPS

TypeOK ==
    /\ dev \in [Slots -> Addr \union {"NULL", "claimed"}]
    /\ last_dev \in Addr \union {"NULL"}
    /\ pc \in [Tasks -> {"idle", "scan", "alloc", "semphr", "registered",
                         "clear_last", "unregister", "free"}]
    /\ id \in [Tasks -> Int]
    /\ cs \in [Tasks -> BOOLEAN]
    /\ handle \in [Tasks -> Addr \union {"NULL"}]

(***************************************************************************)
(* The inductive invariant.                                                *)
(***************************************************************************)
\* Where a task has claimed a slot, and where it has a device lock.
Claiming == {"alloc", "semphr"}
InSlot   == {"registered", "clear_last", "unregister"}
Owns     == Claiming \union InSlot
HasLock  == {"semphr", "free"} \union InSlot

\* A claimed slot belongs to one task, and holds its device once it has one.
OwnerInv ==
    /\ \A t \in Tasks : pc[t] \in Owns =>
           /\ id[t] \in Slots
           /\ cs[t] => id[t] < periph_cs_num
           /\ dev[id[t]] = IF pc[t] \in Claiming THEN "claimed" ELSE handle[t]
    /\ \A t, u \in Tasks :
           pc[t] \in Owns /\ pc[u] \in Owns /\ id[t] = id[u] => t = u

\* Device locks in use have different addresses.
HandleInv ==
    /\ \A t \in Tasks : handle[t] \in Addr <=> pc[t] \in HasLock
    /\ \A t, u \in Tasks : handle[t] = handle[u] /\ handle[t] \in Addr => t = u

\* last_dev names a device that is still registered, or whose removal is about
\* to clear it, and the hardware is set up for that device.
LastInv ==
    last_dev \in Addr =>
        \E t \in Tasks : /\ pc[t] \in {"registered", "clear_last"}
                         /\ handle[t] = last_dev /\ setUp = t

SlotsInv == TypeOK /\ OwnerInv /\ HandleInv /\ LastInv

\* A slot that is not empty has an owner, or is one that a registration without
\* memory for its device lock left behind; those stay claimed, and no task owns
\* them.
NoOrphan ==
    /\ leaked \subseteq Slots
    /\ \A i \in leaked : dev[i] = "claimed"
    /\ \A t \in Tasks : pc[t] \in Owns => id[t] \notin leaked
    /\ \A i \in Slots : dev[i] # "NULL" =>
           i \in leaked \/ \E t \in Tasks : pc[t] \in Owns /\ id[t] = i

TaskStep(t) ==
    \/ \E required \in BOOLEAN : spi_bus_lock_register_dev(t, required)
    \/ try_acquire_free_dev(t)
    \/ register_dev_not_supported(t)
    \/ register_dev_calloc(t)
    \/ register_dev_semphr(t)
    \/ spi_bus_lock_touch(t)
    \/ spi_bus_lock_unregister_dev(t)
    \/ unregister_dev_clear_last(t)
    \/ unregister_dev_free_slot(t)
    \/ unregister_dev_free(t)

(***************************************************************************)
(* Proofs.                                                                 *)
(***************************************************************************)
(* At the start no slot is claimed and no device lock exists.              *)
LEMMA InitInv == Init => SlotsInv /\ NoOrphan
BY SlotAssumption DEF Init, SlotsInv, TypeOK, OwnerInv, HandleInv, LastInv,
   NoOrphan, Claiming, InSlot, Owns, HasLock

(* Every step keeps the types and the owners of the slots.                 *)
LEMMA OwnersKept ==
  ASSUME SlotsInv, NEW t \in Tasks, TaskStep(t)
  PROVE  (TypeOK /\ OwnerInv)'
<1> USE SlotAssumption
<1> USE DEF SlotsInv, TypeOK, OwnerInv, HandleInv, Claiming, InSlot, Owns, HasLock,
            Slots, Unused, Goto
<1>1. ASSUME NEW required \in BOOLEAN, spi_bus_lock_register_dev(t, required)
      PROVE  (TypeOK /\ OwnerInv)'
  BY <1>1 DEF spi_bus_lock_register_dev
<1>2. CASE try_acquire_free_dev(t)
  <2>1. CASE dev[id[t]] = "NULL"
    <3>1. id[t] \in Slots /\ (cs[t] => id[t] < periph_cs_num)
      BY <1>2 DEF try_acquire_free_dev
    <3>2. \A u \in Tasks : pc[u] \in Owns => id[u] # id[t]
      BY <2>1
    <3>3. /\ dev' = [dev EXCEPT ![id[t]] = "claimed"]
          /\ pc' = [pc EXCEPT ![t] = "alloc"]
          /\ UNCHANGED <<last_dev, setUp, id, cs, handle>>
      BY <1>2, <2>1 DEF try_acquire_free_dev
    <3>4. TypeOK'
      BY <3>1, <3>3
    <3> QED  BY <3>1, <3>2, <3>3, <3>4
  <2>2. CASE dev[id[t]] # "NULL"
    <3>1. id' = [id EXCEPT ![t] = IF cs[t] THEN id[t] + 1 ELSE id[t] - 1]
      BY <1>2, <2>2 DEF try_acquire_free_dev
    <3>2. UNCHANGED <<dev, pc, last_dev, setUp, cs, handle>>
      BY <1>2, <2>2 DEF try_acquire_free_dev
    <3>3. id' \in [Tasks -> Int] /\ \A u \in Tasks : u # t => id'[u] = id[u]
      BY <3>1
    <3>4. pc[t] \notin Owns
      BY <1>2 DEF try_acquire_free_dev
    <3>5. TypeOK'
      BY <3>2, <3>3
    <3>6. \A u \in Tasks : pc[u] \in Owns => id'[u] = id[u]
      BY <3>3, <3>4
    <3>7. OwnerInv'
      BY <3>2, <3>6
    <3> QED  BY <3>5, <3>7
  <2> QED  BY <2>1, <2>2
<1>3. CASE register_dev_not_supported(t)
  BY <1>3 DEF register_dev_not_supported
<1>4. CASE register_dev_calloc(t)
  <2>1. ASSUME NEW a \in Unused, handle' = [handle EXCEPT ![t] = a],
               Goto(t, "semphr")
        PROVE  (TypeOK /\ OwnerInv)'
    BY <1>4, <2>1 DEF register_dev_calloc
  <2>2. CASE Goto(t, "idle") /\ UNCHANGED handle
    BY <1>4, <2>2 DEF register_dev_calloc
  <2> QED  BY <1>4, <2>1, <2>2 DEF register_dev_calloc
<1>5. CASE register_dev_semphr(t)
  <2>1. CASE /\ dev' = [dev EXCEPT ![id[t]] = handle[t]]
             /\ Goto(t, "registered") /\ UNCHANGED handle
    BY <1>5, <2>1 DEF register_dev_semphr
  <2>2. CASE /\ dev' = [dev EXCEPT ![id[t]] = "NULL"]
             /\ handle' = [handle EXCEPT ![t] = "NULL"] /\ Goto(t, "idle")
    BY <1>5, <2>2 DEF register_dev_semphr
  <2> QED  BY <1>5, <2>1, <2>2 DEF register_dev_semphr
<1>6. CASE spi_bus_lock_touch(t)
  BY <1>6 DEF spi_bus_lock_touch
<1>7. CASE spi_bus_lock_unregister_dev(t)
  BY <1>7 DEF spi_bus_lock_unregister_dev
<1>8. CASE unregister_dev_clear_last(t)
  BY <1>8 DEF unregister_dev_clear_last
<1>9. CASE unregister_dev_free_slot(t)
  BY <1>9 DEF unregister_dev_free_slot
<1>10. CASE unregister_dev_free(t)
  BY <1>10 DEF unregister_dev_free
<1> QED
  BY <1>1, <1>2, <1>3, <1>4, <1>5, <1>6, <1>7, <1>8, <1>9, <1>10 DEF TaskStep

(* Every step keeps the addresses apart and last_dev up to date.           *)
LEMMA HandlesKept ==
  ASSUME SlotsInv, NEW t \in Tasks, TaskStep(t)
  PROVE  (HandleInv /\ LastInv)'
<1> USE SlotAssumption
<1> USE DEF SlotsInv, TypeOK, HandleInv, LastInv, Claiming, InSlot, Owns, HasLock,
            Unused, Goto
<1>1. ASSUME NEW required \in BOOLEAN, spi_bus_lock_register_dev(t, required)
      PROVE  (HandleInv /\ LastInv)'
  BY <1>1 DEF spi_bus_lock_register_dev
<1>2. CASE try_acquire_free_dev(t)
  BY <1>2 DEF try_acquire_free_dev
<1>3. CASE register_dev_not_supported(t)
  BY <1>3 DEF register_dev_not_supported
<1>4. CASE register_dev_calloc(t)
  BY <1>4 DEF register_dev_calloc
<1>5. CASE register_dev_semphr(t)
  BY <1>5 DEF register_dev_semphr
<1>6. CASE spi_bus_lock_touch(t)
  BY <1>6 DEF spi_bus_lock_touch
<1>7. CASE spi_bus_lock_unregister_dev(t)
  BY <1>7 DEF spi_bus_lock_unregister_dev
<1>8. CASE unregister_dev_clear_last(t)
  BY <1>8 DEF unregister_dev_clear_last
<1>9. CASE unregister_dev_free_slot(t)
  BY <1>9 DEF unregister_dev_free_slot
<1>10. CASE unregister_dev_free(t)
  BY <1>10 DEF unregister_dev_free
<1> QED
  BY <1>1, <1>2, <1>3, <1>4, <1>5, <1>6, <1>7, <1>8, <1>9, <1>10 DEF TaskStep

(* Every step leaves each slot in use with an owner, but for the one of a    *)
(* registration that finds no memory for its device lock.                  *)
LEMMA OrphansKept ==
  ASSUME SlotsInv, NoOrphan, NEW t \in Tasks, TaskStep(t)
  PROVE  NoOrphan'
<1> USE SlotAssumption
<1> USE DEF SlotsInv, TypeOK, OwnerInv, NoOrphan, Claiming, InSlot, Owns, Slots, Goto
<1>1. ASSUME NEW required \in BOOLEAN, spi_bus_lock_register_dev(t, required)
      PROVE  NoOrphan'
  BY <1>1 DEF spi_bus_lock_register_dev
<1>2. CASE try_acquire_free_dev(t)
  BY <1>2 DEF try_acquire_free_dev
<1>3. CASE register_dev_not_supported(t)
  BY <1>3 DEF register_dev_not_supported
<1>4. CASE register_dev_calloc(t)
  <2>1. pc[t] = "alloc" /\ id[t] \in Slots /\ dev[id[t]] = "claimed"
    BY <1>4 DEF register_dev_calloc
  <2>2. CASE Goto(t, "semphr") /\ UNCHANGED <<leaked, dev, id>>
    BY <2>1, <2>2
  <2>3. CASE Goto(t, "idle") /\ leaked' = leaked \union {id[t]} /\ UNCHANGED <<dev, id>>
    <3>1. pc'[t] = "idle" /\ \A u \in Tasks : u # t => pc'[u] = pc[u]
      BY <2>3
    <3>2. \A u \in Tasks : pc'[u] \in Owns => u # t /\ pc[u] \in Owns /\ id[u] # id[t]
      BY <2>1, <3>1
    <3>3. \A i \in Slots : dev[i] # "NULL" => i \in leaked' \/ \E u \in Tasks : pc'[u] \in Owns /\ id[u] = i
      BY <2>3, <3>1
    <3>4. leaked' \subseteq Slots /\ \A i \in leaked' : dev[i] = "claimed"
      BY <2>1, <2>3
    <3>5. \A u \in Tasks : pc'[u] \in Owns => id[u] \notin leaked'
      BY <2>3, <3>2
    <3>6. dev' = dev /\ id' = id
      BY <2>3
    <3> QED  BY <3>3, <3>4, <3>5, <3>6
  <2> QED  BY <1>4, <2>2, <2>3 DEF register_dev_calloc
<1>5. CASE register_dev_semphr(t)
  <2>1. CASE /\ dev' = [dev EXCEPT ![id[t]] = handle[t]]
             /\ Goto(t, "registered") /\ UNCHANGED handle
    BY <1>5, <2>1 DEF register_dev_semphr
  <2>2. CASE /\ dev' = [dev EXCEPT ![id[t]] = "NULL"]
             /\ handle' = [handle EXCEPT ![t] = "NULL"] /\ Goto(t, "idle")
    BY <1>5, <2>2 DEF register_dev_semphr
  <2> QED  BY <1>5, <2>1, <2>2 DEF register_dev_semphr
<1>6. CASE spi_bus_lock_touch(t)
  BY <1>6 DEF spi_bus_lock_touch
<1>7. CASE spi_bus_lock_unregister_dev(t)
  BY <1>7 DEF spi_bus_lock_unregister_dev
<1>8. CASE unregister_dev_clear_last(t)
  BY <1>8 DEF unregister_dev_clear_last
<1>9. CASE unregister_dev_free_slot(t)
  BY <1>9 DEF unregister_dev_free_slot
<1>10. CASE unregister_dev_free(t)
  BY <1>10 DEF unregister_dev_free
<1> QED
  BY <1>1, <1>2, <1>3, <1>4, <1>5, <1>6, <1>7, <1>8, <1>9, <1>10 DEF TaskStep

(* The invariant is inductive.                                             *)
LEMMA NextKeeps == SlotsInv /\ [Next]_vars => SlotsInv'
<1> SUFFICES ASSUME SlotsInv, [Next]_vars PROVE SlotsInv'
  OBVIOUS
<1>1. ASSUME NEW t \in Tasks, TaskStep(t) PROVE SlotsInv'
  BY <1>1, OwnersKept, HandlesKept DEF SlotsInv
<1>2. CASE UNCHANGED vars
  BY <1>2 DEF vars, SlotsInv, TypeOK, OwnerInv, HandleInv, LastInv
<1> QED  BY <1>1, <1>2 DEF Next, TaskStep

(* The invariant holds throughout.                                         *)
LEMMA SlotsInvariant == Spec => []SlotsInv
<1>1. Init => SlotsInv
  BY InitInv
<1> QED  BY <1>1, NextKeeps, PTL DEF Spec

(* The slot of a registered device holds that device until it is removed,  *)
(* however the scans of concurrent registrations interleave, and a device  *)
(* that needs a hardware chip select has one.                              *)
THEOREM SlotAlwaysHoldsDevice == Spec => []SlotHoldsDevice
<1>1. SlotsInv => SlotHoldsDevice
  BY DEF SlotsInv, OwnerInv, SlotHoldsDevice, Owns, InSlot, Claiming
<1> QED  BY SlotsInvariant, <1>1, PTL

(* A device is told that the bus is set up for it only if it is, although  *)
(* addresses are used again and last_dev is tested and cleared in two      *)
(* accesses.                                                               *)
THEOREM TouchAlwaysSeesChange == Spec => []TouchSeesChange
<1>1. SlotsInv => TouchSeesChange
  BY DEF SlotsInv, HandleInv, LastInv, TouchSeesChange, HasLock, InSlot
<1> QED  BY SlotsInvariant, <1>1, PTL

(* When no device is left, the slots in use are exactly those of the       *)
(* registrations that found no memory for a device lock, so the assertion  *)
(* of spi_bus_deinit_lock holds if and only if there was none.             *)
THEOREM SlotsAlwaysGivenBack == Spec => [](SlotsGivenBack /\ (leaked = {} => SlotsEmptyAtDeinit))
<1>1. SlotsInv /\ NoOrphan /\ [Next]_vars => NoOrphan'
  <2> SUFFICES ASSUME SlotsInv, NoOrphan, [Next]_vars PROVE NoOrphan'
    OBVIOUS
  <2>1. ASSUME NEW t \in Tasks, TaskStep(t) PROVE NoOrphan'
    BY <2>1, OrphansKept
  <2>2. CASE UNCHANGED vars
    BY <2>2 DEF vars, NoOrphan
  <2> QED  BY <2>1, <2>2 DEF Next, TaskStep
<1>2. NoOrphan => SlotsGivenBack /\ (leaked = {} => SlotsEmptyAtDeinit)
  <2> SUFFICES ASSUME NoOrphan, \A t \in Tasks : pc[t] = "idle"
               PROVE  /\ {i \in Slots : dev[i] # "NULL"} = leaked
                      /\ leaked = {} => \A i \in Slots : dev[i] = "NULL"
    BY DEF SlotsGivenBack, SlotsEmptyAtDeinit
  <2> QED  BY DEF NoOrphan, Owns, Claiming, InSlot
<1>3. Init => NoOrphan
  BY InitInv
<1> QED  BY SlotsInvariant, <1>1, <1>2, <1>3, PTL DEF Spec
=============================================================================
