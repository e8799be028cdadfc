-------------------------- MODULE SpiBusLockSlots ---------------------------
(***************************************************************************)
(* Registration of devices with the SPI bus lock of                        *)
(* components/esp_hw_support/spi_bus_lock.c: the slots lock->dev[], which  *)
(* several tasks claim at once with compare-and-exchange, and last_dev,    *)
(* the device for which the bus hardware was set up last.                  *)
(*                                                                         *)
(* A device lock is known by its address.  The heap may hand out a freed   *)
(* address again, so the same address may name another device later.       *)
(* Each task adds, uses and removes one device at a time.  Every access to *)
(* a shared variable is a step.                                            *)
(***************************************************************************)
EXTENDS Integers

CONSTANTS Tasks,
          Addr,             \* addresses of the heap for device locks
          DEV_NUM_MAX,      \* slots
          periph_cs_num     \* slots whose chip select the hardware drives

ASSUME SlotAssumption ==
    /\ DEV_NUM_MAX \in Nat /\ periph_cs_num \in 0 .. DEV_NUM_MAX
    /\ "NULL" \notin Addr /\ "claimed" \notin Addr

VARIABLES
    dev,        \* lock->dev[]: "NULL", "claimed" (the value 1) or an address
    last_dev,   \* lock->last_dev: "NULL" or an address
    setUp,      \* the task whose device the hardware is set up for, if any
    pc,         \* where a task is
    id,         \* the slot it tries or has
    cs,         \* it asked for SPI_BUS_LOCK_DEV_FLAG_CS_REQUIRED
    handle,     \* the address of its device lock, "NULL" if it has none
    leaked      \* history: the slots whose registration got no device lock

vars == <<dev, last_dev, setUp, pc, id, cs, handle, leaked>>

Slots == 0 .. DEV_NUM_MAX - 1
Unused == {a \in Addr : \A t \in Tasks : handle[t] # a}

Init ==
    /\ dev = [i \in Slots |-> "NULL"]
    /\ last_dev = "NULL" /\ setUp = "nobody"
    /\ pc = [t \in Tasks |-> "idle"]
    /\ id = [t \in Tasks |-> 0]
    /\ cs = [t \in Tasks |-> FALSE]
    /\ handle = [t \in Tasks |-> "NULL"]
    /\ leaked = {}

Goto(t, l) == pc' = [pc EXCEPT ![t] = l]

spi_bus_lock_register_dev(t, required) ==
    /\ pc[t] = "idle"
    /\ cs' = [cs EXCEPT ![t] = required]
    /\ id' = [id EXCEPT ![t] = IF required THEN 0 ELSE DEV_NUM_MAX - 1]
    /\ Goto(t, "scan")
    /\ UNCHANGED <<dev, last_dev, setUp, handle, leaked>>

\* Fault: the slot is read in one access and claimed in another.
try_acquire_not_atomic(t) ==
    /\ id[t] \in IF cs[t] THEN 0 .. periph_cs_num - 1 ELSE Slots
    /\ \/ /\ pc[t] = "scan" /\ dev[id[t]] = "NULL"
          /\ Goto(t, "claim")
          /\ UNCHANGED <<id, dev>>
       \/ /\ pc[t] = "claim"
          /\ dev' = [dev EXCEPT ![id[t]] = "claimed"]
          /\ Goto(t, "alloc") /\ UNCHANGED id
       \/ /\ pc[t] = "scan" /\ dev[id[t]] # "NULL"
          /\ id' = [id EXCEPT ![t] = IF cs[t] THEN @ + 1 ELSE @ - 1]
          /\ UNCHANGED <<dev, pc>>
    /\ UNCHANGED <<last_dev, setUp, cs, handle, leaked>>

\* One compare-and-exchange of the scan: from slot 0 up when the device needs
\* a hardware chip select, from the last slot down when it does not.
try_acquire_free_dev(t) ==
    /\ pc[t] = "scan"
    /\ id[t] \in IF cs[t] THEN 0 .. periph_cs_num - 1 ELSE Slots
    /\ IF dev[id[t]] = "NULL"
       THEN /\ dev' = [dev EXCEPT ![id[t]] = "claimed"]
            /\ Goto(t, "alloc")
            /\ UNCHANGED id
       ELSE /\ id' = [id EXCEPT ![t] = IF cs[t] THEN @ + 1 ELSE @ - 1]
            /\ UNCHANGED <<dev, pc>>
    /\ UNCHANGED <<last_dev, setUp, cs, handle, leaked>>

register_dev_not_supported(t) ==
    /\ pc[t] = "scan"
    /\ id[t] \notin IF cs[t] THEN 0 .. periph_cs_num - 1 ELSE Slots
    /\ Goto(t, "idle")
    /\ UNCHANGED <<dev, last_dev, setUp, id, cs, handle, leaked>>

\* Without memory for the device lock the function returns as it is: the slot
\* stays claimed.
register_dev_calloc(t) ==
    /\ pc[t] = "alloc"
    /\ \/ /\ \E a \in Unused : handle' = [handle EXCEPT ![t] = a]
          /\ Goto(t, "semphr")
          /\ UNCHANGED leaked
       \/ /\ leaked' = leaked \union {id[t]}
          /\ Goto(t, "idle")
          /\ UNCHANGED handle
    /\ UNCHANGED <<dev, last_dev, setUp, id, cs>>

\* Fault: the slot is not given back.
register_dev_semphr_keeps_slot(t) ==
    /\ pc[t] = "semphr"
    /\ \/ /\ dev' = [dev EXCEPT ![id[t]] = handle[t]]
          /\ Goto(t, "registered")
          /\ UNCHANGED handle
       \/ /\ handle' = [handle EXCEPT ![t] = "NULL"]
          /\ Goto(t, "idle")
          /\ UNCHANGED dev
    /\ UNCHANGED <<last_dev, setUp, id, cs, leaked>>

\* Without memory for the semaphore the device lock and the slot are freed.
register_dev_semphr(t) ==
    /\ pc[t] = "semphr"
    /\ \/ /\ dev' = [dev EXCEPT ![id[t]] = handle[t]]
          /\ Goto(t, "registered")
          /\ UNCHANGED handle
       \/ /\ dev' = [dev EXCEPT ![id[t]] = "NULL"]
          /\ handle' = [handle EXCEPT ![t] = "NULL"]
          /\ Goto(t, "idle")
    /\ UNCHANGED <<last_dev, setUp, id, cs, leaked>>

\* The holder of the bus sets the hardware up only if the device changed.
spi_bus_lock_touch(t) ==
    /\ pc[t] = "registered"
    /\ last_dev' = handle[t]
    /\ setUp' = IF last_dev # handle[t] THEN t ELSE setUp
    /\ UNCHANGED <<dev, pc, id, cs, handle, leaked>>

\* Fault: last_dev keeps the address of the device.
unregister_dev_keeps_last(t) ==
    /\ pc[t] = "registered"
    /\ Goto(t, "unregister")
    /\ UNCHANGED <<dev, last_dev, setUp, id, cs, handle, leaked>>

\* last_dev is tested and cleared in two accesses.
spi_bus_lock_unregister_dev(t) ==
    /\ pc[t] = "registered"
    /\ Goto(t, IF last_dev = handle[t] THEN "clear_last" ELSE "unregister")
    /\ UNCHANGED <<dev, last_dev, setUp, id, cs, handle, leaked>>

unregister_dev_clear_last(t) ==
    /\ pc[t] = "clear_last"
    /\ last_dev' = "NULL"
    /\ Goto(t, "unregister")
    /\ UNCHANGED <<dev, setUp, id, cs, handle, leaked>>

unregister_dev_free_slot(t) ==
    /\ pc[t] = "unregister"
    /\ dev' = [dev EXCEPT ![id[t]] = "NULL"]
    /\ Goto(t, "free")
    /\ UNCHANGED <<last_dev, setUp, id, cs, handle, leaked>>

unregister_dev_free(t) ==
    /\ pc[t] = "free"
    /\ handle' = [handle EXCEPT ![t] = "NULL"]
    /\ setUp' = IF setUp = t THEN "nobody" ELSE setUp   \* the device is gone
    /\ Goto(t, "idle")
    /\ UNCHANGED <<dev, last_dev, id, cs, leaked>>

Next ==
    \E t \in Tasks :
        \/ \E required \in BOOLEAN : spi_bus_lock_register_dev(t, required)
        \/ try_acquire_free_dev(t)
        \/ register_dev_not_supported(t)
        \/ register_dev_calloc(t)
        \/ register_dev_semphr(t)
        \/ spi_bus_lock_touch(t)
        \/ spi_bus_lock_unregister_dev(t)
        \/ unregister_dev_clear_last(t)
        \/ unregister_dev_free_slot(t)
        \/ unregister_dev_free(t)

Spec == Init /\ [][Next]_vars

(***************************************************************************)
(* Properties.                                                             *)
(***************************************************************************)
\* The slot of a registered device holds that device, so that no two devices
\* share the status bits that their slot gives them: concurrent scans of
\* try_acquire_free_dev never claim the same slot.
SlotHoldsDevice ==
    \A t \in Tasks : pc[t] \in {"registered", "clear_last", "unregister"} =>
        /\ dev[id[t]] = handle[t]
        /\ cs[t] => id[t] < periph_cs_num

\* spi_bus_lock_touch reports "no change" only to the device the hardware is
\* set up for: last_dev never names a device by an address it had inherited
\* from one that was removed.
TouchSeesChange ==
    \A t \in Tasks : (pc[t] = "registered" /\ last_dev = handle[t]) => setUp = t

\* Once every device is removed and no registration is under way, which is when
\* spi_bus_deinit_lock may be called, the slots in use are exactly the ones of
\* the registrations that got no memory for a device lock: every other way out
\* of spi_bus_lock_register_dev and of spi_bus_lock_unregister_dev gives the
\* slot back, and no other registration or removal revives a lost one.
SlotsGivenBack ==
    (\A t \in Tasks : pc[t] = "idle") => {i \in Slots : dev[i] # "NULL"} = leaked

\* The assertion of spi_bus_deinit_lock: then every slot is empty.  It does not
\* hold once calloc has failed in spi_bus_lock_register_dev.
SlotsEmptyAtDeinit ==
    (\A t \in Tasks : pc[t] = "idle") => \A i \in Slots : dev[i] = "NULL"
=============================================================================
