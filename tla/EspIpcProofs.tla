---------------------------- MODULE EspIpcProofs ----------------------------
(***************************************************************************)
(* Theorems about inter-processor calls, for any set of cores and callers, *)
(* with one mutex per core or one for all of them.                         *)
(***************************************************************************)
EXTENDS EspIpc, TLAPS

CallerPcs == {"idle", "mutex", "arg", "wait_for", "func", "notify", "ack",
              "release", "nb_arg", "nb_ready", "nb_notify"}
IpcPcs == {"take", "nb_test", "nb_run", "nb_unready", "nb_clear", "test",
           "cache", "clear", "ack_start", "run_start", "run_end", "ack_end"}
Maybe == Callers \union {NoFunc}

TypeOK ==
    /\ s_func \in [Cores -> Maybe] /\ s_func_arg \in [Cores -> Maybe]
    /\ s_wait_for \in [Cores -> Waits \union {"NO"}]
    /\ s_ipc_mutex \in [Cores -> Maybe]
    /\ s_ipc_ack \in [Cores -> 0 .. 1]
    /\ s_no_block_func \in [Cores -> Maybe]
    /\ s_no_block_func_arg \in [Cores -> Maybe]
    /\ s_no_block_func_and_arg_are_ready \in [Cores -> BOOLEAN]
    /\ notified \in [Cores -> BOOLEAN]
    /\ pc \in [Callers -> CallerPcs]
    /\ cpu_id \in [Callers -> Cores]
    /\ wait_for \in [Callers -> Waits \union {"NO"}]
    /\ ipc \in [Cores -> IpcPcs]
    /\ func \in [Cores -> Maybe] /\ func_arg \in [Cores -> Maybe]
    /\ ipc_wait \in [Cores -> Waits \union {"NO"}]
    /\ runs \in [Callers -> 0 .. 1]

(***************************************************************************)
(* The inductive invariant.                                                *)
(***************************************************************************)
\* Where a caller has a mutex, and where its function may be with the IPC task.
Holding == {"arg", "wait_for", "func", "notify", "ack", "release"}
Handed  == {"notify", "ack"}

\* Where an IPC task serves a call whose caller is not acknowledged yet.
Serving == {"ack_start", "run_end", "ack_end"}
Busy    == {"cache", "clear"} \union Serving

\* A caller between take and give has the mutex of its core.
MutexInv ==
    \A t \in Callers : pc[t] \in Holding => s_ipc_mutex[Mutex(cpu_id[t])] = t

\* What a call leaves in the shared variables while it fills them in.
CallInv ==
    \A t \in Callers :
        /\ pc[t] \in Holding \union {"mutex"} => wait_for[t] \in Waits
        /\ pc[t] \in {"wait_for", "func"} \union Handed =>
               s_func_arg[cpu_id[t]] = t
        /\ pc[t] \in {"func"} \union Handed =>
               s_wait_for[cpu_id[t]] = wait_for[t]
        /\ pc[t] \notin Handed \union {"release"} => runs[t] = 0
        /\ pc[t] = "release" /\ wait_for[t] = "END" => runs[t] = 1

\* A call is with one of its two parties: the function waits in s_func, or the
\* IPC task serves it, or the acknowledgement is there.
Waiting(t, c) ==
    /\ s_func[c] = t /\ ipc[c] \notin Serving /\ s_ipc_ack[c] = 0
    /\ runs[t] = 0
    /\ ipc[c] = "clear" =>
           func[c] = t /\ func_arg[c] = t /\ ipc_wait[c] = wait_for[t]

Served(t, c) ==
    /\ s_func[c] = NoFunc /\ ipc[c] \in Serving /\ s_ipc_ack[c] = 0
    /\ func[c] = t /\ func_arg[c] = t
    /\ runs[t] = IF ipc[c] = "ack_end" THEN 1 ELSE 0
    /\ wait_for[t] = "END" <=> ipc[c] # "ack_start"

Acknowledged(t, c) ==
    /\ s_func[c] = NoFunc /\ ipc[c] \notin Busy /\ s_ipc_ack[c] = 1
    /\ wait_for[t] = "END" => runs[t] = 1

HandedInv ==
    \A t \in Callers : pc[t] \in Handed =>
        \/ Waiting(t, cpu_id[t])
        \/ Served(t, cpu_id[t])
        \/ Acknowledged(t, cpu_id[t])

\* Without a call on its way to a core nothing is left of earlier ones there.
QuietInv ==
    \A c \in Cores :
        (\A t \in Callers : pc[t] \in Handed => cpu_id[t] # c) =>
            s_func[c] = NoFunc /\ ipc[c] \notin Busy /\ s_ipc_ack[c] = 0

\* A function that runs after the acknowledgement has its own argument too.
StartInv ==
    \A c \in Cores : ipc[c] = "run_start" =>
        func[c] \in Callers /\ func_arg[c] = func[c]

\* The slot of nonblocking calls: it belongs to the caller that fills it in
\* until it is declared ready, and from then on to the IPC task.
SlotInv ==
    /\ \A t \in Callers : pc[t] \in {"nb_arg", "nb_ready"} =>
           /\ s_no_block_func[cpu_id[t]] = t
           /\ ~s_no_block_func_and_arg_are_ready[cpu_id[t]]
           /\ pc[t] = "nb_ready" => s_no_block_func_arg[cpu_id[t]] = t
           /\ ipc[cpu_id[t]] # "nb_clear"
    /\ \A c \in Cores :
           /\ s_no_block_func_and_arg_are_ready[c] =>
                  /\ s_no_block_func[c] \in Callers
                  /\ s_no_block_func_arg[c] = s_no_block_func[c]
           /\ ipc[c] \in {"nb_run", "nb_unready"} =>
                  s_no_block_func_and_arg_are_ready[c]
           /\ ipc[c] = "nb_clear" =>
                  /\ ~s_no_block_func_and_arg_are_ready[c]
                  /\ s_no_block_func[c] # NoFunc

CallsInv == MutexInv /\ CallInv /\ HandedInv /\ QuietInv /\ StartInv /\ SlotInv

IpcInv == TypeOK /\ CallsInv

(***************************************************************************)
(* Proofs.                                                                 *)
(***************************************************************************)
(* The mutex of a core is the mutex of some core.                          *)
LEMMA MutexType == ASSUME NEW c \in Cores PROVE Mutex(c) \in Cores
BY CoreAssumption DEF Mutex

(* Two callers that are between take and give have different target cores: *)
(* the mutex of the core keeps them apart.                                 *)
LEMMA OneHolder ==
  ASSUME IpcInv, NEW t \in Callers, NEW u \in Callers,
         pc[t] \in Holding, pc[u] \in Holding, cpu_id[t] = cpu_id[u]
  PROVE  t = u
BY DEF IpcInv, CallsInv, MutexInv

(* An IPC task that serves a call has one caller, which waits for it.      *)
LEMMA CallerOf ==
  ASSUME IpcInv, NEW c \in Cores, ipc[c] \in Busy
  PROVE  \E t \in Callers :
            /\ pc[t] \in Handed /\ cpu_id[t] = c
            /\ IF ipc[c] \in Serving THEN Served(t, c) ELSE Waiting(t, c)
            /\ \A u \in Callers : pc[u] \in Handed /\ cpu_id[u] = c => u = t
<1>1. PICK t \in Callers : pc[t] \in Handed /\ cpu_id[t] = c
  BY DEF IpcInv, CallsInv, QuietInv
<1>2. IF ipc[c] \in Serving THEN Served(t, c) ELSE Waiting(t, c)
  BY <1>1 DEF IpcInv, CallsInv, HandedInv, Waiting, Served, Acknowledged
<1>3. \A u \in Callers : pc[u] \in Handed /\ cpu_id[u] = c => u = t
  BY <1>1, OneHolder DEF Holding, Handed
<1> QED  BY <1>1, <1>2, <1>3

(* A core without calls: nothing waits and nobody is served.               *)
LEMMA InitInv == Init => IpcInv
<1> SUFFICES ASSUME Init PROVE IpcInv
  OBVIOUS
<1> USE CoreAssumption, CallerAssumption DEF Init, NoCall
<1>1. TypeOK
  BY DEF TypeOK, Maybe, CallerPcs, IpcPcs
<1>2. MutexInv /\ CallInv /\ HandedInv /\ StartInv /\ SlotInv
  BY DEF MutexInv, CallInv, HandedInv, StartInv, SlotInv, Holding, Handed
<1>3. QuietInv
  BY DEF QuietInv, Busy, Serving
<1> QED  BY <1>1, <1>2, <1>3 DEF IpcInv, CallsInv

(* Every step of a caller keeps the types.                                 *)
LEMMA TypeCaller ==
  ASSUME IpcInv, NEW t \in Callers,
         \/ \E c \in Cores : \/ \E w \in Waits : esp_ipc_call_and_wait(t, c, w)
                             \/ esp_ipc_call_nonblocking(t, c)
         \/ CallerStep(t)
  PROVE  TypeOK'
<1> USE CoreAssumption, CallerAssumption, MutexType
<1> USE DEF IpcInv, CallsInv, TypeOK, Maybe, CallerPcs, Waits, Step, Returned,
            callVars, nbVars, taskVars
<1>1. ASSUME NEW c \in Cores, NEW w \in Waits, esp_ipc_call_and_wait(t, c, w)
      PROVE  TypeOK'
  BY <1>1 DEF esp_ipc_call_and_wait
<1>2. ASSUME NEW c \in Cores, esp_ipc_call_nonblocking(t, c) PROVE TypeOK'
  BY <1>2 DEF esp_ipc_call_nonblocking
<1>3. CASE call_take_mutex(t)
  BY <1>3 DEF call_take_mutex
<1>4. CASE call_set_arg(t)
  BY <1>4 DEF call_set_arg
<1>5. CASE call_set_wait_for(t)
  BY <1>5 DEF call_set_wait_for
<1>6. CASE call_set_func(t)
  BY <1>6 DEF call_set_func
<1>7. CASE call_notify(t)
  BY <1>7 DEF call_notify
<1>8. CASE call_take_ack(t)
  BY <1>8 DEF call_take_ack
<1>9. CASE call_give_mutex(t)
  <2>1. s_ipc_mutex' \in [Cores -> Maybe]
    BY <1>9 DEF call_give_mutex
  <2>2. /\ pc' \in [Callers -> CallerPcs] /\ cpu_id' \in [Callers -> Cores]
        /\ wait_for' \in [Callers -> Waits \union {"NO"}]
        /\ runs' \in [Callers -> 0 .. 1]
    BY <1>9 DEF call_give_mutex
  <2> QED  BY <1>9, <2>1, <2>2 DEF call_give_mutex
<1>10. CASE nonblocking_set_arg(t)
  BY <1>10 DEF nonblocking_set_arg
<1>11. CASE nonblocking_set_ready(t)
  BY <1>11 DEF nonblocking_set_ready
<1>12. CASE nonblocking_notify(t)
  BY <1>12 DEF nonblocking_notify
<1> QED
  BY <1>1, <1>2, <1>3, <1>4, <1>5, <1>6, <1>7, <1>8, <1>9, <1>10, <1>11, <1>12
  DEF CallerStep

(* Every step of an IPC task keeps the types: in particular it never meets *)
(* a call without a kind, so that it does not abort.                       *)
LEMMA TypeIpc ==
  ASSUME IpcInv, NEW c \in Cores, IpcStep(c)
  PROVE  TypeOK'
<1> USE CoreAssumption, CallerAssumption
<1> USE DEF IpcInv, CallsInv, TypeOK, Maybe, IpcPcs, At, Cached, Ended,
            callVars, nbVars, callerVars
<1>1. CASE ipc_task_take(c)
  BY <1>1 DEF ipc_task_take
<1>2. CASE ipc_task_test_nonblocking(c)
  BY <1>2 DEF ipc_task_test_nonblocking
<1>3. CASE ipc_task_run_nonblocking(c)
  BY <1>3 DEF ipc_task_run_nonblocking
<1>4. CASE ipc_task_clear_nonblocking(c)
  BY <1>4 DEF ipc_task_clear_nonblocking
<1>5. CASE ipc_task_test(c)
  BY <1>5 DEF ipc_task_test
<1>6. CASE ipc_task_cache(c)
  BY <1>6 DEF ipc_task_cache
<1>7. CASE ipc_task_clear(c)
  <2>1. ipc_wait[c] \in Waits
    <3>1. PICK t \in Callers : pc[t] \in Handed /\ Waiting(t, c)
      BY <1>7, CallerOf DEF ipc_task_clear, Busy, Serving
    <3> QED
      BY <1>7, <3>1 DEF ipc_task_clear, Waiting, CallInv, Holding, Handed
  <2>2. ipc' \in [Cores -> IpcPcs]
    BY <1>7, <2>1 DEF ipc_task_clear, Waits
  <2> QED  BY <1>7, <2>2 DEF ipc_task_clear
<1>8. CASE ipc_task_ack(c)
  BY <1>8 DEF ipc_task_ack
<1>9. CASE ipc_task_run(c)
  <2>1. CASE ipc[c] = "run_end"
    <3>1. PICK t \in Callers : Served(t, c)
      BY <2>1, CallerOf DEF Busy, Serving
    <3>2. func[c] \in Callers /\ runs[func[c]] = 0
      BY <2>1, <3>1 DEF Served
    <3> QED  BY <1>9, <2>1, <3>2 DEF ipc_task_run
  <2>2. CASE ipc[c] # "run_end"
    BY <1>9, <2>2 DEF ipc_task_run
  <2> QED  BY <2>1, <2>2
<1> QED
  BY <1>1, <1>2, <1>3, <1>4, <1>5, <1>6, <1>7, <1>8, <1>9 DEF IpcStep

(* Every step of a caller keeps the rest of the invariant.                 *)
LEMMA CallerKeeps ==
  ASSUME IpcInv, NEW t \in Callers,
         \/ \E c \in Cores : \/ \E w \in Waits : esp_ipc_call_and_wait(t, c, w)
                             \/ esp_ipc_call_nonblocking(t, c)
         \/ CallerStep(t)
  PROVE  CallsInv'
<1> USE CallerAssumption, OneHolder, MutexType
<1> USE DEF IpcInv, TypeOK, Maybe, Waits, Step, Returned, Holding, Handed, Busy,
            Serving, callVars, nbVars, taskVars
<1> USE DEF CallsInv, MutexInv, CallInv, HandedInv, Waiting, Served,
            Acknowledged, QuietInv, StartInv, SlotInv
<1>1. ASSUME NEW c \in Cores, NEW w \in Waits, esp_ipc_call_and_wait(t, c, w)
      PROVE  CallsInv'
  BY <1>1, SMTT(40) DEF esp_ipc_call_and_wait
<1>2. ASSUME NEW c \in Cores, esp_ipc_call_nonblocking(t, c)
      PROVE  CallsInv'
  <2>1. SlotInv'
    BY <1>2 DEF esp_ipc_call_nonblocking
  <2> QED  BY <1>2, <2>1 DEF esp_ipc_call_nonblocking
<1>3. CASE call_take_mutex(t)
  BY <1>3 DEF call_take_mutex
<1>4. CASE call_set_arg(t)
  BY <1>4 DEF call_set_arg
<1>5. CASE call_set_wait_for(t)
  BY <1>5 DEF call_set_wait_for
<1>6. CASE call_set_func(t)
  <2>1. HandedInv'
    <3>1. \A u \in Callers : pc[u] \in Handed => cpu_id[u] # cpu_id[t]
      BY <1>6 DEF call_set_func
    <3>2. Waiting(t, cpu_id[t])'
      BY <1>6, <3>1 DEF call_set_func
    <3>3. ASSUME NEW u \in Callers, u # t, pc[u] \in Handed
          PROVE  \/ Waiting(u, cpu_id[u])' \/ Served(u, cpu_id[u])'
                 \/ Acknowledged(u, cpu_id[u])'
      BY <1>6, <3>1, <3>3 DEF call_set_func
    <3> QED  BY <1>6, <3>2, <3>3 DEF call_set_func
  <2> QED  BY <1>6, <2>1 DEF call_set_func
<1>7. CASE call_notify(t)
  BY <1>7 DEF call_notify
<1>8. CASE call_take_ack(t)
  <2>1. Acknowledged(t, cpu_id[t])
    BY <1>8 DEF call_take_ack
  <2>2. CallInv'
    BY <1>8, <2>1 DEF call_take_ack
  <2>3. QuietInv'
    BY <1>8, <2>1 DEF call_take_ack
  <2> QED  BY <1>8, <2>1, <2>2, <2>3 DEF call_take_ack
<1>9. CASE call_give_mutex(t)
  BY <1>9 DEF call_give_mutex
<1>10. CASE nonblocking_set_arg(t)
  BY <1>10 DEF nonblocking_set_arg
<1>11. CASE nonblocking_set_ready(t)
  BY <1>11 DEF nonblocking_set_ready
<1>12. CASE nonblocking_notify(t)
  BY <1>12 DEF nonblocking_notify
<1> HIDE DEF CallsInv, IpcInv
<1> QED
  BY <1>1, <1>2, <1>3, <1>4, <1>5, <1>6, <1>7, <1>8, <1>9, <1>10, <1>11, <1>12
  DEF CallerStep

(* Every step of an IPC task keeps the rest of the invariant.              *)
LEMMA IpcKeeps ==
  ASSUME IpcInv, NEW c \in Cores, IpcStep(c)
  PROVE  CallsInv'
<1> USE CallerAssumption, OneHolder
<1> USE DEF IpcInv, TypeOK, Maybe, Waits, At, Cached, Ended, Holding, Handed,
            Busy, Serving, callVars, nbVars, callerVars
<1> USE DEF CallsInv, MutexInv, CallInv, HandedInv, Waiting, Served,
            Acknowledged, QuietInv, StartInv, SlotInv
<1>1. CASE ipc_task_take(c)
  BY <1>1 DEF ipc_task_take
<1>2. CASE ipc_task_test_nonblocking(c)
  BY <1>2 DEF ipc_task_test_nonblocking
<1>3. CASE ipc_task_run_nonblocking(c)
  BY <1>3 DEF ipc_task_run_nonblocking
<1>4. CASE ipc_task_clear_nonblocking(c)
  BY <1>4, SMTT(40) DEF ipc_task_clear_nonblocking
<1>5. CASE ipc_task_test(c)
  BY <1>5 DEF ipc_task_test
<1>6. CASE ipc_task_cache(c)
  <2>1. PICK t \in Callers :
            /\ pc[t] \in Handed /\ cpu_id[t] = c
            /\ IF ipc[c] \in Serving THEN Served(t, c) ELSE Waiting(t, c)
            /\ \A u \in Callers : pc[u] \in Handed /\ cpu_id[u] = c => u = t
    BY <1>6, CallerOf DEF ipc_task_cache
  <2>2. HandedInv'
    <3>1. (IF ipc[c] \in Serving THEN Served(t, c) ELSE Waiting(t, c))'
      BY <1>6, <2>1 DEF ipc_task_cache
    <3>2. ASSUME NEW u \in Callers, u # t, pc[u] \in Handed
          PROVE  \/ Waiting(u, cpu_id[u])' \/ Served(u, cpu_id[u])'
                 \/ Acknowledged(u, cpu_id[u])'
      BY <1>6, <2>1, <3>2 DEF ipc_task_cache
    <3> QED  BY <1>6, <2>1, <3>1, <3>2 DEF ipc_task_cache
  <2> QED  BY <1>6, <2>1, <2>2 DEF ipc_task_cache
<1>7. CASE ipc_task_clear(c)
  <2>1. PICK t \in Callers :
            /\ pc[t] \in Handed /\ cpu_id[t] = c
            /\ IF ipc[c] \in Serving THEN Served(t, c) ELSE Waiting(t, c)
            /\ \A u \in Callers : pc[u] \in Handed /\ cpu_id[u] = c => u = t
    BY <1>7, CallerOf DEF ipc_task_clear
  <2>2. HandedInv'
    <3>1. (IF ipc[c] \in Serving THEN Served(t, c) ELSE Waiting(t, c))'
      BY <1>7, <2>1 DEF ipc_task_clear
    <3>2. ASSUME NEW u \in Callers, u # t, pc[u] \in Handed
          PROVE  \/ Waiting(u, cpu_id[u])' \/ Served(u, cpu_id[u])'
                 \/ Acknowledged(u, cpu_id[u])'
      BY <1>7, <2>1, <3>2 DEF ipc_task_clear
    <3> QED  BY <1>7, <2>1, <3>1, <3>2 DEF ipc_task_clear
  <2> QED  BY <1>7, <2>1, <2>2 DEF ipc_task_clear
<1>8. CASE ipc_task_ack(c)
  <2>1. StartInv'
    <3>1. ipc[c] = "ack_start" => func[c] \in Callers /\ func_arg[c] = func[c]
      BY CallerOf DEF Served
    <3> QED  BY <1>8, <3>1 DEF ipc_task_ack
  <2> QED  BY <1>8, <2>1 DEF ipc_task_ack
<1>9. CASE ipc_task_run(c)
  <2>1. ipc[c] = "run_end" => \E t \in Callers :
            /\ pc[t] \in Handed /\ cpu_id[t] = c /\ Served(t, c)
            /\ \A u \in Callers : pc[u] \in Handed /\ cpu_id[u] = c => u = t
    BY CallerOf
  <2>2. CallInv'
    BY <1>9, <2>1 DEF ipc_task_run
  <2>3. HandedInv'
    BY <1>9, <2>1 DEF ipc_task_run
  <2>4. (QuietInv /\ StartInv)'
    BY <1>9 DEF ipc_task_run
  <2>5. (MutexInv /\ SlotInv)'
    BY <1>9 DEF ipc_task_run
  <2> QED  BY <2>2, <2>3, <2>4, <2>5
<1> QED
  BY <1>1, <1>2, <1>3, <1>4, <1>5, <1>6, <1>7, <1>8, <1>9 DEF IpcStep

(* The invariant is inductive.                                             *)
LEMMA NextKeeps == IpcInv /\ [Next]_vars => IpcInv'
<1> SUFFICES ASSUME IpcInv, [Next]_vars PROVE IpcInv'
  OBVIOUS
<1>1. ASSUME NEW t \in Callers,
             \/ \E c \in Cores :
                   \/ \E w \in Waits : esp_ipc_call_and_wait(t, c, w)
                   \/ esp_ipc_call_nonblocking(t, c)
             \/ CallerStep(t)
      PROVE  IpcInv'
  BY <1>1, TypeCaller, CallerKeeps DEF IpcInv
<1>2. ASSUME NEW c \in Cores, IpcStep(c) PROVE IpcInv'
  BY <1>2, TypeIpc, IpcKeeps DEF IpcInv
<1>3. CASE UNCHANGED vars
  BY <1>3 DEF vars, callVars, nbVars, callerVars, taskVars, IpcInv, CallsInv,
     TypeOK, MutexInv, CallInv, HandedInv, Waiting, Served, Acknowledged,
     QuietInv, StartInv, SlotInv
<1> QED  BY <1>1, <1>2, <1>3 DEF Next

(* The invariant holds throughout.                                         *)
LEMMA IpcInvariant == Spec => []IpcInv
<1> QED  BY InitInv, NextKeeps, PTL DEF Spec

(* The function of every call, waiting or nonblocking, runs with the       *)
(* argument of that very call, whatever the interleaving of the writes of  *)
(* s_func, s_func_arg and s_wait_for with the reads of the IPC tasks, and  *)
(* no IPC task aborts: for any callers and cores, one mutex or several.    *)
THEOREM ArgumentAlwaysOwn == Spec => []OwnArgument
<1>1. ASSUME IpcInv PROVE OwnArgument
  <2> SUFFICES ASSUME NEW c \in Cores
      PROVE  /\ ipc[c] \in {"ack_start", "run_start", "run_end", "ack_end"} =>
                    func[c] \in Callers /\ func_arg[c] = func[c]
             /\ ipc[c] = "nb_run" => /\ s_no_block_func[c] \in Callers
                                     /\ s_no_block_func_arg[c] = s_no_block_func[c]
             /\ ipc[c] # "abort"
    BY DEF OwnArgument
  <2>1. ipc[c] \in Serving => func[c] \in Callers /\ func_arg[c] = func[c]
    BY <1>1, CallerOf DEF Served, Busy
  <2> QED
    BY <1>1, <2>1
    DEF Serving, IpcInv, CallsInv, TypeOK, IpcPcs, StartInv, SlotInv
<1> QED  BY IpcInvariant, <1>1, PTL

(* When esp_ipc_call_blocking gives its mutex back, its function has run,  *)
(* once: no acknowledgement of an earlier call, on this core or another,   *)
(* lets a caller go on too soon.                                           *)
THEOREM BlockingCallAlwaysRan == Spec => []BlockingCallRan
<1>1. IpcInv => BlockingCallRan
  BY DEF IpcInv, CallsInv, CallInv, BlockingCallRan
<1> QED  BY IpcInvariant, <1>1, PTL
=============================================================================
