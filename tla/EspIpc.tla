------------------------------- MODULE EspIpc -------------------------------
(***************************************************************************)
(* Inter-processor calls of components/esp_system/esp_ipc.c: one IPC task  *)
(* per core runs the functions that tasks and interrupt handlers of any    *)
(* core ask it to run.                                                     *)
(*                                                                         *)
(* The shared variables are volatile and accessed one at a time; every     *)
(* access that another actor can observe is a step.  A function and its    *)
(* argument are both known by the caller that passed them, so that a       *)
(* function run with another call's argument shows.  Callbacks neither     *)
(* block nor yield, as the programming guide requires.                     *)
(***************************************************************************)
EXTENDS Naturals, FiniteSets

CONSTANTS Cores,      \* core numbers
          Callers,    \* tasks, or interrupt handlers, that make calls
          NoFunc,     \* a null pointer
          PerCore     \* CONFIG_ESP_IPC_USES_CALLERS_PRIORITY

ASSUME CoreAssumption == Cores \subseteq Nat /\ 0 \in Cores
ASSUME CallerAssumption == NoFunc \notin Callers /\ PerCore \in BOOLEAN

VARIABLES
    s_func, s_func_arg, s_wait_for,   \* the call that waits, per core
    s_ipc_mutex,                      \* holder of each mutex, or NoFunc
    s_ipc_ack,                        \* binary semaphores
    s_no_block_func, s_no_block_func_arg,
    s_no_block_func_and_arg_are_ready,
    notified,                         \* the IPC task has notifications
    pc, cpu_id, wait_for,             \* per caller
    ipc, func, func_arg, ipc_wait,    \* per IPC task
    runs                              \* times a waiting call's function ran

callVars  == <<s_func, s_func_arg, s_wait_for, s_ipc_mutex, s_ipc_ack>>
nbVars    == <<s_no_block_func, s_no_block_func_arg,
               s_no_block_func_and_arg_are_ready>>
callerVars == <<pc, cpu_id, wait_for>>
taskVars  == <<ipc, func, func_arg, ipc_wait>>
vars      == <<callVars, nbVars, notified, callerVars, taskVars, runs>>

Waits == {"START", "END"}
NoCall == [c \in Cores |-> NoFunc]

Init ==
    /\ s_func = NoCall /\ s_func_arg = NoCall
    /\ s_wait_for = [c \in Cores |-> "NO"]
    /\ s_ipc_mutex = NoCall
    /\ s_ipc_ack = [c \in Cores |-> 0]
    /\ s_no_block_func = NoCall /\ s_no_block_func_arg = NoCall
    /\ s_no_block_func_and_arg_are_ready = [c \in Cores |-> FALSE]
    /\ notified = [c \in Cores |-> FALSE]
    /\ pc = [t \in Callers |-> "idle"]
    /\ cpu_id = [t \in Callers |-> 0]
    /\ wait_for = [t \in Callers |-> "NO"]
    /\ ipc = [c \in Cores |-> "take"]
    /\ func = NoCall /\ func_arg = NoCall
    /\ ipc_wait = [c \in Cores |-> "NO"]
    /\ runs = [t \in Callers |-> 0]

(***************************************************************************)
(* esp_ipc_call_and_wait, for esp_ipc_call and esp_ipc_call_blocking.      *)
(***************************************************************************)
Step(t, from, to) == pc[t] = from /\ pc' = [pc EXCEPT ![t] = to]

\* The parameters of a call end with it.
Returned(t) ==
    /\ cpu_id' = [cpu_id EXCEPT ![t] = 0]
    /\ wait_for' = [wait_for EXCEPT ![t] = "NO"]

\* One mutex per core, or the first one for all of them.
Mutex(c) == IF PerCore THEN c ELSE 0

esp_ipc_call_and_wait(t, c, w) ==
    /\ Step(t, "idle", "mutex")
    /\ cpu_id' = [cpu_id EXCEPT ![t] = c]
    /\ wait_for' = [wait_for EXCEPT ![t] = w]
    /\ UNCHANGED <<callVars, nbVars, notified, taskVars, runs>>

call_take_mutex(t) ==
    /\ Step(t, "mutex", "arg")
    /\ s_ipc_mutex[Mutex(cpu_id[t])] = NoFunc
    /\ s_ipc_mutex' = [s_ipc_mutex EXCEPT ![Mutex(cpu_id[t])] = t]
    /\ UNCHANGED <<s_func, s_func_arg, s_wait_for, s_ipc_ack, nbVars, notified,
                   cpu_id, wait_for, taskVars, runs>>

call_set_arg(t) ==
    /\ Step(t, "arg", "wait_for")
    /\ s_func_arg' = [s_func_arg EXCEPT ![cpu_id[t]] = t]
    /\ UNCHANGED <<s_func, s_wait_for, s_ipc_mutex, s_ipc_ack, nbVars, notified,
                   cpu_id, wait_for, taskVars, runs>>

call_set_wait_for(t) ==
    /\ Step(t, "wait_for", "func")
    /\ s_wait_for' = [s_wait_for EXCEPT ![cpu_id[t]] = wait_for[t]]
    /\ UNCHANGED <<s_func, s_func_arg, s_ipc_mutex, s_ipc_ack, nbVars, notified,
                   cpu_id, wait_for, taskVars, runs>>

\* s_func is set last: the IPC task takes it for the sign that all is there.
call_set_func(t) ==
    /\ Step(t, "func", "notify")
    /\ s_func' = [s_func EXCEPT ![cpu_id[t]] = t]
    /\ UNCHANGED <<s_func_arg, s_wait_for, s_ipc_mutex, s_ipc_ack, nbVars,
                   notified, cpu_id, wait_for, taskVars, runs>>

call_notify(t) ==
    /\ Step(t, "notify", "ack")
    /\ notified' = [notified EXCEPT ![cpu_id[t]] = TRUE]
    /\ UNCHANGED <<callVars, nbVars, cpu_id, wait_for, taskVars, runs>>

call_take_ack(t) ==
    /\ Step(t, "ack", "release")
    /\ s_ipc_ack[cpu_id[t]] = 1
    /\ s_ipc_ack' = [s_ipc_ack EXCEPT ![cpu_id[t]] = 0]
    /\ UNCHANGED <<s_func, s_func_arg, s_wait_for, s_ipc_mutex, nbVars, notified,
                   cpu_id, wait_for, taskVars, runs>>

call_give_mutex(t) ==
    /\ Step(t, "release", "idle")
    /\ s_ipc_mutex' = [s_ipc_mutex EXCEPT ![Mutex(cpu_id[t])] = NoFunc]
    /\ Returned(t)
    /\ runs' = [runs EXCEPT ![t] = 0]
    /\ UNCHANGED <<s_func, s_func_arg, s_wait_for, s_ipc_ack, nbVars, notified,
                   taskVars>>

(***************************************************************************)
(* esp_ipc_call_nonblocking: it returns ESP_FAIL, and changes nothing, if  *)
(* the previous call is not completed.                                     *)
(***************************************************************************)
esp_ipc_call_nonblocking(t, c) ==
    /\ Step(t, "idle", "nb_arg")
    /\ s_no_block_func[c] = NoFunc
    /\ s_no_block_func' = [s_no_block_func EXCEPT ![c] = t]
    /\ cpu_id' = [cpu_id EXCEPT ![t] = c]
    /\ UNCHANGED <<callVars, s_no_block_func_arg,
                   s_no_block_func_and_arg_are_ready, notified, wait_for,
                   taskVars, runs>>

\* Fault: the call is declared ready before its argument is set.
nonblocking_arg_late(t) ==
    /\ \/ /\ Step(t, "nb_arg", "nb_arg2")
          /\ s_no_block_func_and_arg_are_ready' =
                 [s_no_block_func_and_arg_are_ready EXCEPT ![cpu_id[t]] = TRUE]
          /\ UNCHANGED s_no_block_func_arg
       \/ /\ Step(t, "nb_arg2", "nb_notify")
          /\ s_no_block_func_arg' = [s_no_block_func_arg EXCEPT ![cpu_id[t]] = t]
          /\ UNCHANGED s_no_block_func_and_arg_are_ready
    /\ UNCHANGED <<callVars, s_no_block_func, notified, cpu_id, wait_for,
                   taskVars, runs>>

nonblocking_set_arg(t) ==
    /\ Step(t, "nb_arg", "nb_ready")
    /\ s_no_block_func_arg' = [s_no_block_func_arg EXCEPT ![cpu_id[t]] = t]
    /\ UNCHANGED <<callVars, s_no_block_func, s_no_block_func_and_arg_are_ready,
                   notified, cpu_id, wait_for, taskVars, runs>>

nonblocking_set_ready(t) ==
    /\ Step(t, "nb_ready", "nb_notify")
    /\ s_no_block_func_and_arg_are_ready' =
           [s_no_block_func_and_arg_are_ready EXCEPT ![cpu_id[t]] = TRUE]
    /\ UNCHANGED <<callVars, s_no_block_func, s_no_block_func_arg, notified,
                   cpu_id, wait_for, taskVars, runs>>

nonblocking_notify(t) ==
    /\ Step(t, "nb_notify", "idle")
    /\ notified' = [notified EXCEPT ![cpu_id[t]] = TRUE]
    /\ Returned(t)
    /\ UNCHANGED <<callVars, nbVars, taskVars, runs>>

(***************************************************************************)
(* ipc_task.  The values that it caches are stable while it reads them: the *)
(* caller that set them waits for the acknowledgement.                     *)
(***************************************************************************)
At(c, from, to) == ipc[c] = from /\ ipc' = [ipc EXCEPT ![c] = to]

ipc_task_take(c) ==
    /\ At(c, "take", "nb_test")
    /\ notified[c]
    /\ notified' = [notified EXCEPT ![c] = FALSE]
    /\ UNCHANGED <<callVars, nbVars, callerVars, func, func_arg, ipc_wait, runs>>

ipc_task_test_nonblocking(c) ==
    /\ At(c, "nb_test",
          IF s_no_block_func_and_arg_are_ready[c] /\ s_no_block_func[c] # NoFunc
          THEN "nb_run" ELSE "test")
    /\ UNCHANGED <<callVars, nbVars, notified, callerVars, func, func_arg,
                   ipc_wait, runs>>

ipc_task_run_nonblocking(c) ==
    /\ At(c, "nb_run", "nb_unready")
    /\ UNCHANGED <<callVars, nbVars, notified, callerVars, func, func_arg,
                   ipc_wait, runs>>

\* Fault: the slot is emptied before the call is declared not ready.
ipc_task_unready_late(c) ==
    /\ \/ /\ At(c, "nb_unready", "nb_clear")
          /\ s_no_block_func' = [s_no_block_func EXCEPT ![c] = NoFunc]
          /\ UNCHANGED s_no_block_func_and_arg_are_ready
       \/ /\ At(c, "nb_clear", "test")
          /\ s_no_block_func_and_arg_are_ready' =
                 [s_no_block_func_and_arg_are_ready EXCEPT ![c] = FALSE]
          /\ UNCHANGED s_no_block_func
    /\ UNCHANGED <<callVars, s_no_block_func_arg, notified, callerVars, func,
                   func_arg, ipc_wait, runs>>

\* Fault: nonblocking calls are served in a loop that never empties the slot.
ipc_task_serves_on(c) ==
    /\ At(c, "nb_unready", "nb_clear") \/ At(c, "nb_clear", "nb_test")
    /\ UNCHANGED <<callVars, nbVars, notified, callerVars, func, func_arg,
                   ipc_wait, runs>>

ipc_task_clear_nonblocking(c) ==
    /\ \/ /\ At(c, "nb_unready", "nb_clear")
          /\ s_no_block_func_and_arg_are_ready' =
                 [s_no_block_func_and_arg_are_ready EXCEPT ![c] = FALSE]
          /\ UNCHANGED s_no_block_func
       \/ /\ At(c, "nb_clear", "test")
          /\ s_no_block_func' = [s_no_block_func EXCEPT ![c] = NoFunc]
          /\ UNCHANGED s_no_block_func_and_arg_are_ready
    /\ UNCHANGED <<callVars, s_no_block_func_arg, notified, callerVars, func,
                   func_arg, ipc_wait, runs>>

ipc_task_test(c) ==
    /\ At(c, "test", IF s_func[c] # NoFunc THEN "cache" ELSE "take")
    /\ UNCHANGED <<callVars, nbVars, notified, callerVars, func, func_arg,
                   ipc_wait, runs>>

ipc_task_cache(c) ==
    /\ At(c, "cache", "clear")
    /\ func' = [func EXCEPT ![c] = s_func[c]]
    /\ func_arg' = [func_arg EXCEPT ![c] = s_func_arg[c]]
    /\ ipc_wait' = [ipc_wait EXCEPT ![c] = s_wait_for[c]]
    /\ UNCHANGED <<callVars, nbVars, notified, callerVars, runs>>

\* Fault: the caller goes on before its function has run.
ipc_task_clear_ack_first(c) ==
    /\ At(c, "clear", "ack_start")
    /\ s_func' = [s_func EXCEPT ![c] = NoFunc]
    /\ UNCHANGED <<s_func_arg, s_wait_for, s_ipc_mutex, s_ipc_ack, nbVars,
                   notified, callerVars, func, func_arg, ipc_wait, runs>>

ipc_task_clear(c) ==
    /\ At(c, "clear", CASE ipc_wait[c] = "START" -> "ack_start"
                        [] ipc_wait[c] = "END"   -> "run_end"
                        [] OTHER                 -> "abort")
    /\ s_func' = [s_func EXCEPT ![c] = NoFunc]
    /\ UNCHANGED <<s_func_arg, s_wait_for, s_ipc_mutex, s_ipc_ack, nbVars,
                   notified, callerVars, func, func_arg, ipc_wait, runs>>

\* The cached values end with the block that declares them.
Cached(c) == UNCHANGED <<func, func_arg, ipc_wait>>
Ended(c) == /\ func' = [func EXCEPT ![c] = NoFunc]
            /\ func_arg' = [func_arg EXCEPT ![c] = NoFunc]
            /\ ipc_wait' = [ipc_wait EXCEPT ![c] = "NO"]

ipc_task_ack(c) ==
    /\ \/ At(c, "ack_start", "run_start") /\ Cached(c)
       \/ At(c, "ack_end", "take") /\ Ended(c)
    /\ s_ipc_ack' = [s_ipc_ack EXCEPT ![c] = 1]
    /\ UNCHANGED <<s_func, s_func_arg, s_wait_for, s_ipc_mutex, nbVars, notified,
                   callerVars, runs>>

\* runs counts the runs that the caller waits for the end of.
ipc_task_run(c) ==
    /\ \/ At(c, "run_start", "take") /\ Ended(c) /\ UNCHANGED runs
       \/ /\ At(c, "run_end", "ack_end") /\ Cached(c)
          /\ runs' = [runs EXCEPT ![func[c]] = @ + 1]
    /\ UNCHANGED <<callVars, nbVars, notified, callerVars>>

(***************************************************************************)
(* The specification.                                                      *)
(***************************************************************************)
CallerStep(t) ==
    \/ call_take_mutex(t) \/ call_set_arg(t) \/ call_set_wait_for(t)
    \/ call_set_func(t) \/ call_notify(t) \/ call_take_ack(t)
    \/ call_give_mutex(t)
    \/ nonblocking_set_arg(t) \/ nonblocking_set_ready(t)
    \/ nonblocking_notify(t)

IpcStep(c) ==
    \/ ipc_task_take(c)
    \/ ipc_task_test_nonblocking(c) \/ ipc_task_run_nonblocking(c)
    \/ ipc_task_clear_nonblocking(c)
    \/ ipc_task_test(c) \/ ipc_task_cache(c) \/ ipc_task_clear(c)
    \/ ipc_task_ack(c) \/ ipc_task_run(c)

Next ==
    \/ \E t \in Callers :
         \/ \E c \in Cores : \/ \E w \in Waits : esp_ipc_call_and_wait(t, c, w)
                             \/ esp_ipc_call_nonblocking(t, c)
         \/ CallerStep(t)
    \/ \E c \in Cores : IpcStep(c)

Spec == Init /\ [][Next]_vars

(***************************************************************************)
(* Every task that can run does, and the mutex goes to its waiters in the  *)
(* order of their coming ("first come first serve", ipc.rst).              *)
(***************************************************************************)
FairSpec ==
    /\ Spec
    /\ \A t \in Callers : WF_vars(CallerStep(t)) /\ SF_vars(call_take_mutex(t))
    /\ \A c \in Cores : WF_vars(IpcStep(c))

(***************************************************************************)
(* Properties.                                                             *)
(***************************************************************************)
\* The function of each call runs with the argument of that very call, for
\* waiting and for nonblocking calls, and the IPC task never meets a waiting
\* call without a kind (its abort()).
OwnArgument ==
    \A c \in Cores :
        /\ ipc[c] \in {"ack_start", "run_start", "run_end", "ack_end"} =>
               func[c] \in Callers /\ func_arg[c] = func[c]
        /\ ipc[c] = "nb_run" => /\ s_no_block_func[c] \in Callers
                                /\ s_no_block_func_arg[c] = s_no_block_func[c]
        /\ ipc[c] # "abort"

\* esp_ipc_call_blocking returns once "the target core's IPC task completes
\* execution of the callback" (ipc.rst), which ran exactly once.
BlockingCallRan ==
    \A t \in Callers : pc[t] = "release" /\ wait_for[t] = "END" => runs[t] = 1

\* Every call returns.
CallReturns == \A t \in Callers : pc[t] = "mutex" ~> pc[t] = "idle"

\* Every accepted nonblocking call is run and makes room for the next.
NonblockingCompletes ==
    \A c \in Cores : s_no_block_func[c] # NoFunc ~> ipc[c] = "nb_clear"
=============================================================================
