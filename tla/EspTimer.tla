------------------------------ MODULE EspTimer ------------------------------
(***************************************************************************)
(* Software timers of components/esp_timer/src/esp_timer.c: two lists of   *)
(* armed timers, whose callbacks are called from the timer task or from    *)
(* the interrupt handler, over one hardware alarm (esp_timer_impl_common.c *)
(* and esp_timer_impl_systimer.c).                                         *)
(*                                                                         *)
(* A step is a critical section of a list's lock, except that the section  *)
(* in which a timer is taken from its list ends in a step of its own:      *)
(* esp_timer_delete holds the lock of the task list whatever list a timer  *)
(* was in.  The lists are linked as the macros of sys/queue.h link them.   *)
(***************************************************************************)
EXTENDS Integers, SequencesExt, FiniteSetsExt

CONSTANTS Timers,       \* addresses of timers
          Configs,      \* builds: values of CONFIG_ESP_TIMER_SUPPORTS_ISR_DISPATCH_METHOD
          Skip,         \* timers created with skip_unhandled_events
          Tasks,        \* tasks that call the functions below
          Timeouts,     \* timeouts and periods they ask for
          MinPeriod,    \* esp_timer_impl_get_min_period_us
          MaxTime,      \* bound: time stops
          MaxCalls      \* bound: calls in all

UINT64_MAX == 999
NULL == "NULL"

ASSUME TimerAssumption ==
    /\ IsFiniteSet(Timers) /\ Configs \subseteq BOOLEAN /\ Skip \subseteq Timers
    /\ Timeouts \subseteq Nat /\ MinPeriod \in Nat \ {0}
    /\ MaxTime \in Nat /\ MaxCalls \in Nat
    /\ \A d \in Timeouts : MaxTime + d < UINT64_MAX

\* A timer's address is neither NULL nor that of the head of a list.
ASSUME NamesAssumption == Timers \intersect {"TASK", "ISR", "NULL"} = {}

VARIABLES
    supports_isr,   \* the build, one of Configs
    now,            \* esp_timer_impl_get_time
    timestamp_id,   \* the alarm wanted for each list
    target,         \* the alarm of the hardware, UINT64_MAX once it has fired
    pending,        \* its interrupt
    timer,          \* the fields of each timer
    mem,            \* "none", "live", or "deleted": still to be freed
    list,           \* list entries: what each link points to, and back
    pc, it, processed,  \* timer_process_alarm, for each list
    notified,       \* notification of the timer task
    call,           \* the call each caller is in
    calls,          \* number of calls made
    overtaken       \* history: "restart" once a restart found under the lock that its
                    \* timer was no longer armed, "delete" once a timer was deleted
                    \* that the interrupt handler had taken and not called yet

env == <<supports_isr, now>>
hardware == <<timestamp_id, target, pending>>
dispatch == <<pc, it, processed, notified>>
vars == <<supports_isr, now, timestamp_id, target, pending, timer, mem, list, pc, it,
          processed, notified, call, calls, overtaken>>

\* The two lists; also the contexts callbacks run and make calls in.
Methods == {"TASK", "ISR"}
Other(m) == IF m = "TASK" THEN "ISR" ELSE "TASK"
Callers == Tasks \union Methods

Method(t) == IF timer[t].isr THEN "ISR" ELSE "TASK"
timer_armed(t) == timer[t].alarm > 0
Fresh(isr) == [alarm |-> 0, period |-> 0, isr |-> isr, del |-> FALSE]
\* ESP_TIMER_ISR exists only in builds that support it.
DispatchMethods == {isr \in BOOLEAN : isr => supports_isr}
NoCall == [op |-> "none", t |-> NULL, alarm |-> 0, period |-> 0]

-----------------------------------------------------------------------------
(* Linked lists.  The head of a list is a link like the `next' of a timer. *)

LIST_REMOVE(l, t) ==
    LET n == l.link[t]
        back == IF n = NULL THEN l.prev ELSE [l.prev EXCEPT ![n] = l.prev[t]]
    IN  [link |-> [l.link EXCEPT ![l.prev[t]] = n], prev |-> back]

\* Put t into the link p.
LIST_INSERT(l, p, t) ==
    LET n == l.link[p]
        back == IF n = NULL THEN l.prev ELSE [l.prev EXCEPT ![n] = t]
    IN  [link |-> [l.link EXCEPT ![t] = n, ![p] = t], prev |-> [back EXCEPT ![t] = p]]

\* The timers found on the way from the head of the list.
Chain(l, m) ==
    LET walk[n \in 0 .. Cardinality(Timers) + 1] ==
            IF n = 0 THEN <<>>
            ELSE LET s == walk[n - 1]
                     t == l.link[IF s = <<>> THEN m ELSE Last(s)]
                 IN  IF t = NULL THEN s ELSE Append(s, t)
    IN  walk[Cardinality(Timers) + 1]

\* Fault: a timer goes to the head of the list.
insert_head(l, t, alarm, m) == LIST_INSERT(l, m, t)

timer_insert(l, t, alarm, m) ==
    LET s == Chain(l, m)
        later == {n \in DOMAIN s : alarm < timer[s[n]].alarm}
    IN  LIST_INSERT(l, CASE s = <<>>     -> m
                         [] later # {}   -> l.prev[s[Min(later)]]
                         [] OTHER        -> Last(s), t)

-----------------------------------------------------------------------------
(* The alarm.  A target that is not in the future fires at once (external). *)

\* esp_timer_impl_set_alarm_id for list m, with each value of s in turn.
set_alarm_id(m, s) ==
    LET value(v) == Min({v, timestamp_id[Other(m)]})
    IN  IF s = <<>> THEN UNCHANGED hardware
        ELSE /\ timestamp_id' = [timestamp_id EXCEPT ![m] = Last(s)]
             /\ pending' = (pending \/ \E n \in DOMAIN s : value(s[n]) <= now)
             /\ target' = IF value(Last(s)) <= now THEN UINT64_MAX ELSE value(Last(s))

Tick ==
    /\ now < MaxTime
    /\ now' = now + 1
    /\ pending' = (pending \/ target <= now')
    /\ target' = IF target <= now' THEN UINT64_MAX ELSE target
    /\ UNCHANGED <<supports_isr, overtaken, timestamp_id, timer, mem, list, dispatch, call, calls>>

-----------------------------------------------------------------------------

Init ==
    /\ now = 1
    /\ timestamp_id = [m \in Methods |-> UINT64_MAX]
    /\ target = UINT64_MAX /\ pending = FALSE
    /\ supports_isr \in Configs
    /\ timer \in [Timers -> {Fresh(isr) : isr \in DispatchMethods}]
    /\ mem = [t \in Timers |-> "live"]
    /\ list = [link |-> [x \in Timers \union Methods |-> NULL],
               prev |-> [t \in Timers |-> NULL]]
    /\ pc = [m \in Methods |-> "wait"] /\ it = [m \in Methods |-> NULL]
    /\ processed = [m \in Methods |-> FALSE] /\ notified = FALSE
    /\ call = [c \in Callers |-> NoCall] /\ calls = 0 /\ overtaken = {}

esp_timer_create(t, isr) ==
    /\ mem[t] = "none" /\ isr \in DispatchMethods
    /\ mem' = [mem EXCEPT ![t] = "live"]
    /\ timer' = [timer EXCEPT ![t] = Fresh(isr)]
    /\ UNCHANGED <<env, overtaken, hardware, list, dispatch, call, calls>>

-----------------------------------------------------------------------------
(* Dispatching *)

\* The interrupt handler is entered and clears the interrupt; without ISR timers
\* timer_alarm_handler has only to notify the timer task.
timer_alarm_isr ==
    /\ pc["ISR"] = "wait" /\ pending
    /\ pending' = FALSE
    /\ IF supports_isr THEN pc' = [pc EXCEPT !["ISR"] = "entry"] /\ UNCHANGED notified
       ELSE notified' = TRUE /\ UNCHANGED pc
    /\ UNCHANGED <<env, overtaken, timestamp_id, target, timer, mem, list, it, processed, call, calls>>

\* The earlier of the two alarms is taken as the one that fired.
try_to_set_next_alarm ==
    /\ pc["ISR"] = "entry"
    /\ LET m == IF timestamp_id["TASK"] < timestamp_id["ISR"] THEN "TASK" ELSE "ISR"
       IN  IF timestamp_id[Other(m)] # UINT64_MAX THEN set_alarm_id(m, <<UINT64_MAX>>)
           ELSE /\ timestamp_id' = [timestamp_id EXCEPT ![m] = UINT64_MAX]
                /\ UNCHANGED <<target, pending>>
    /\ pc' = [pc EXCEPT !["ISR"] = "loop"]
    /\ UNCHANGED <<env, overtaken, timer, mem, list, it, processed, notified, call, calls>>

timer_task ==
    /\ pc["TASK"] = "wait" /\ notified
    /\ notified' = FALSE
    /\ pc' = [pc EXCEPT !["TASK"] = "loop"]
    /\ UNCHANGED <<env, overtaken, hardware, timer, mem, list, it, processed, call, calls>>

\* One round of the loop of timer_process_alarm: the first timer, if it is due.
\* In "again" and "taken" the lock is held from the step before.
Locked(m) == pc[m] \in {"again", "taken"}
Round(m) == pc[m] \in {"loop", "again"}
First(m) == list.link[m]
Due(m) == First(m) # NULL /\ timer[First(m)].alarm <= now

process_delete(m) ==
    /\ Round(m) /\ Due(m) /\ timer[First(m)].del
    /\ mem' = [mem EXCEPT ![First(m)] = "none"]
    /\ timer' = [timer EXCEPT ![First(m)] = Fresh(FALSE)]
    /\ list' = LIST_REMOVE(list, First(m))
    /\ processed' = [processed EXCEPT ![m] = TRUE]
    /\ pc' = [pc EXCEPT ![m] = "again"]
    /\ UNCHANGED <<env, overtaken, hardware, it, notified, call, calls>>

process_timer(m) ==
    /\ Round(m) /\ Due(m) /\ ~timer[First(m)].del
    /\ LET t == First(m)
           f == timer[t]
           skipped == (now - f.alarm) \div f.period
           next == CASE f.period = 0                -> 0
                     [] f.period > 0 /\ t \in Skip /\ skipped > 1 -> now + f.period
                     [] OTHER                       -> f.alarm + f.period
           rest == LIST_REMOVE(list, t)
       IN  /\ timer' = [timer EXCEPT ![t].alarm = next]
           /\ list' = IF next = 0 THEN rest ELSE timer_insert(rest, t, next, m)
           /\ it' = [it EXCEPT ![m] = t]
    /\ processed' = [processed EXCEPT ![m] = TRUE]
    /\ pc' = [pc EXCEPT ![m] = "taken"]
    /\ UNCHANGED <<env, overtaken, hardware, mem, notified, call, calls>>

\* The callback is read, the lock released, and the callback called; `it' says
\* which timer's it was, or NULL if esp_timer_delete had overwritten it.
process_call(m) ==
    /\ pc[m] = "taken"
    /\ pc' = [pc EXCEPT ![m] = "callback"]
    /\ it' = [it EXCEPT ![m] = IF timer[it[m]].del THEN NULL ELSE it[m]]
    /\ UNCHANGED <<env, overtaken, hardware, timer, mem, list, processed, notified, call, calls>>

callback_return(m) ==
    /\ pc[m] = "callback" /\ call[m] = NoCall
    /\ pc' = [pc EXCEPT ![m] = "loop"] /\ it' = [it EXCEPT ![m] = NULL]
    /\ UNCHANGED <<env, overtaken, hardware, timer, mem, list, processed, notified, call, calls>>

\* The end of the loop; the handler passes an alarm it had no timer for to the
\* timer task.
process_end(m) ==
    /\ Round(m) /\ ~Due(m)
    /\ set_alarm_id(m, CASE First(m) # NULL /\ (m = "TASK" \/ processed[m])
                              -> <<timer[First(m)].alarm>>
                         [] First(m) = NULL /\ processed[m] -> <<UINT64_MAX>>
                         [] OTHER -> <<>>)
    /\ notified' = (notified \/ (m = "ISR" /\ ~processed[m]))
    /\ pc' = [pc EXCEPT ![m] = "wait"] /\ processed' = [processed EXCEPT ![m] = FALSE]
    /\ UNCHANGED <<env, overtaken, timer, mem, list, it, call, calls>>

Process(m) == \/ process_delete(m) \/ process_timer(m) \/ process_call(m)
              \/ callback_return(m) \/ process_end(m)

-----------------------------------------------------------------------------
(* Calls.  Tasks make them, and callbacks.  A timer that is being deleted is *)
(* not used any more, and it is deleted when no other call is using it.      *)

Using(t) == {c \in Callers : call[c].t = t}
Deleting(t) == {c \in Using(t) : call[c].op = "delete"}

Calling(c, t) ==
    /\ call[c] = NoCall /\ (c \in Methods => pc[c] = "callback")
    /\ mem[t] = "live" /\ Deleting(t) = {}
    /\ calls < MaxCalls /\ calls' = calls + 1

Enter(c, op, t, alarm, period) ==
    /\ call' = [call EXCEPT ![c] = [op |-> op, t |-> t, alarm |-> alarm, period |-> period]]
    /\ UNCHANGED <<env, overtaken, hardware, timer, mem, list, dispatch>>

\* esp_timer_start_once and esp_timer_start_periodic take the time before the lock.
start_once(c, t, d) == Calling(c, t) /\ Enter(c, "start", t, now + d, 0)

start_periodic(c, t, d) ==
    LET p == Max({d, MinPeriod}) IN Calling(c, t) /\ Enter(c, "start", t, now + p, p)

Return(c) == call' = [call EXCEPT ![c] = NoCall]

\* Put t, with the fields f, into its list.
Insert(t, f) ==
    LET m == IF f.isr THEN "ISR" ELSE "TASK"
    IN  /\ timer' = [timer EXCEPT ![t] = f]
        /\ list' = timer_insert(list, t, f.alarm, m)
        /\ set_alarm_id(m, IF list'.link[m] = t THEN <<f.alarm>> ELSE <<>>)

start_locked(c) ==
    /\ call[c].op = "start"
    /\ LET t == call[c].t
       IN  /\ ~Locked(Method(t))
           /\ IF timer_armed(t) THEN UNCHANGED <<timer, list, hardware>>
              ELSE Insert(t, [timer[t] EXCEPT !.alarm = call[c].alarm, !.period = call[c].period])
    /\ Return(c)
    /\ UNCHANGED <<env, overtaken, mem, dispatch, calls>>

\* timer_remove: the list without t, and the alarms it asks for, one or none.
Removed(t) == LIST_REMOVE(list, t)

\* Fault: the alarm is cleared although the list has more timers.
clear_on_remove(t) == IF First(Method(t)) # t THEN <<>> ELSE <<UINT64_MAX>>

AlarmsOfRemove(t) ==
    LET m == Method(t)
        n == Removed(t).link[m]
    IN  IF First(m) # t THEN <<>>
        ELSE IF n = NULL THEN <<UINT64_MAX>> ELSE <<timer[n].alarm>>

\* Fault: a stopped timer stays in its list.
stop_unlisted(c, t) ==
    /\ Calling(c, t) /\ ~Locked(Method(t)) /\ timer_armed(t)
    /\ timer' = [timer EXCEPT ![t].alarm = 0, ![t].period = 0]
    /\ UNCHANGED <<env, overtaken, hardware, list, mem, dispatch, call>>

esp_timer_stop(c, t) ==
    /\ Calling(c, t) /\ ~Locked(Method(t)) /\ timer_armed(t)
    /\ timer' = [timer EXCEPT ![t].alarm = 0, ![t].period = 0]
    /\ list' = Removed(t)
    /\ set_alarm_id(Method(t), AlarmsOfRemove(t))
    /\ UNCHANGED <<env, overtaken, mem, dispatch, call>>

\* esp_timer_restart looks at the timer before the lock.
restart(c, t, d) == Calling(c, t) /\ timer_armed(t) /\ Enter(c, "restart", t, 0, d)

\* It removes the timer, and inserts it again, without another look.
restart_locked(c) ==
    /\ call[c].op = "restart"
    /\ LET t == call[c].t
           m == Method(t)
           p == IF timer[t].period = 0 THEN 0 ELSE Max({call[c].period, MinPeriod})
           alarm == now + IF p = 0 THEN call[c].period ELSE p
       IN  /\ ~Locked(m)
           /\ timer' = [timer EXCEPT ![t].alarm = alarm, ![t].period = p]
           /\ list' = timer_insert(Removed(t), t, alarm, m)
           /\ set_alarm_id(m, AlarmsOfRemove(t)
                              \o IF list'.link[m] = t THEN <<alarm>> ELSE <<>>)
           /\ overtaken' = IF timer_armed(t) THEN overtaken ELSE overtaken \union {"restart"}
    /\ Return(c)
    /\ UNCHANGED <<env, mem, dispatch, calls>>

delete(c, t) == Calling(c, t) /\ Using(t) = {} /\ Enter(c, "delete", t, now, 0)

\* Under the lock of the task list: the timer is put into that list, from where
\* the timer task frees it.
delete_locked(c) ==
    /\ call[c].op = "delete" /\ ~Locked("TASK")
    /\ LET t == call[c].t
           called == pc["ISR"] # "taken" \/ it["ISR"] # t
       IN  IF timer_armed(t) THEN UNCHANGED <<timer, list, hardware, mem, overtaken>>
           ELSE /\ Insert(t, [alarm |-> call[c].alarm, period |-> 0, isr |-> FALSE, del |-> TRUE])
                /\ mem' = [mem EXCEPT ![t] = "deleted"]
                /\ overtaken' = IF called THEN overtaken ELSE overtaken \union {"delete"}
    /\ Return(c)
    /\ UNCHANGED <<env, dispatch, calls>>

Finish(c) == start_locked(c) \/ restart_locked(c) \/ delete_locked(c)

Call(c) == \E t \in Timers :
              \/ esp_timer_stop(c, t) \/ delete(c, t)
              \/ \E d \in Timeouts : start_once(c, t, d) \/ start_periodic(c, t, d)
                                     \/ restart(c, t, d)

\* Steps of the interrupt handler and of the timer task, the ends of their
\* callbacks' calls included.
IsrStep  == timer_alarm_isr \/ try_to_set_next_alarm \/ Process("ISR") \/ Finish("ISR")
TaskStep == timer_task \/ Process("TASK") \/ Finish("TASK")

Next ==
    \/ Tick \/ IsrStep \/ TaskStep
    \/ \E c \in Callers : Call(c)
    \/ \E c \in Tasks : Finish(c)
    \/ \E t \in Timers, isr \in BOOLEAN : esp_timer_create(t, isr)

Spec == Init /\ [][Next]_vars

\* Interrupts are taken, the timer task runs, calls return.
FairSpec == /\ Spec /\ WF_vars(IsrStep) /\ WF_vars(TaskStep)
            /\ \A c \in Tasks : WF_vars(Finish(c))

-----------------------------------------------------------------------------
(* Properties *)

\* Outside the critical sections the timers of a list are exactly those that are
\* armed for it, in the order of their alarms, and linked in both directions:
\* none is lost, in two lists, or twice in one.
InOrder ==
    \A m \in Methods :
      LET s == Chain(list, m)
          armed == {t \in Timers : mem[t] # "none" /\ timer_armed(t) /\ Method(t) = m}
      IN  /\ Range(s) = armed /\ Len(s) = Cardinality(armed)
          /\ \A n \in 1 .. Len(s) : list.prev[s[n]] = IF n = 1 THEN m ELSE s[n - 1]
          /\ \A n \in 2 .. Len(s) : timer[s[n - 1]].alarm <= timer[s[n]].alarm

\* The lists are in order whatever the order of calls and expiries, with one
\* exception: an esp_timer_restart whose timer expires for good or is stopped
\* between the look and the lock unlinks a timer that is in no list.
ListsHoldArmed == "restart" \in overtaken \/ InOrder

\* A callback is called only for a timer that was armed and due, and not for one
\* that was stopped, deleted or freed meanwhile, as long as the lists are in order
\* and esp_timer_delete, which does not hold the lock of the interrupt handler's
\* list, has not come between the handler's taking a timer and its callback.
CallbackIsDue ==
    [][\A m \in Methods : "restart" \in overtaken \/
         /\ pc[m] \in {"loop", "again"} /\ pc'[m] = "taken" =>
              mem[it'[m]] = "live" /\ timer[it'[m]].alarm \in 1 .. now
         /\ pc[m] = "taken" /\ pc'[m] = "callback" =>
              \/ it'[m] # NULL /\ mem[it[m]] # "none"
              \/ m = "ISR" /\ "delete" \in overtaken]_vars

\* In a build without ISR timers, the first timer of the list is always on its
\* way to its callback: the hardware alarm is set for it, its interrupt or the
\* notification of the timer task is pending, or the task is at work and will
\* look at the list again, as long as the list is in order.
AlarmCovers ==
    ~supports_isr /\ First("TASK") # NULL =>
      \/ target <= timer[First("TASK")].alarm
      \/ pending \/ notified \/ pc["TASK"] # "wait"
      \/ "restart" \in overtaken

\* A timer that is due is dealt with in the end, whatever its dispatch method:
\* its callback is called, it is stopped or restarted or, if it was deleted, its
\* memory is freed.
IsDue(t) == timer_armed(t) /\ timer[t].alarm <= now
DueIsDispatched == \A t \in Timers : IsDue(t) ~> ~IsDue(t)
=============================================================================
