------------------------------ MODULE EspEvent ------------------------------
(***************************************************************************)
(* An event loop of components/esp_event/esp_event.c: tasks register and   *)
(* unregister handlers and post events while one task runs the loop and    *)
(* executes the handlers of each event with the loop's mutex held.         *)
(*                                                                         *)
(* A step is what a task does between two points where it may block, on    *)
(* the mutex or on the queue.  Handlers post events and unregister         *)
(* themselves, the only change of registrations allowed to them            *)
(* (docs/en/api-reference/system/esp_event.rst:185).                       *)
(***************************************************************************)
EXTENDS EspEventTree

CONSTANTS Tasks,        \* tasks other than the one that runs the loop
          Handlers,     \* functions
          Keys,         \* [base, id] pairs handlers are registered for
          Events,       \* [base, id] pairs that are posted
          Apis,         \* TRUE for the legacy functions, FALSE for instances
          QueueSize,    \* queue_size of the loop
          TaskNames,    \* task_name of esp_event_loop_create: TRUE if there is one
          MaxRegs,      \* bound: registrations
          MaxPosts      \* bound: calls that post

Loop == "loop"          \* the task that runs the loop
NULL == "NULL"

ASSUME EventAssumption ==
    /\ NULL \notin Tasks
    /\ \A k \in Keys : k.base = ANY => k.id = ANY
    /\ \A e \in Events : e.base # ANY /\ e.id # ANY
    /\ Apis \subseteq BOOLEAN /\ TaskNames \subseteq BOOLEAN
    /\ QueueSize \in Nat \ {0} /\ MaxRegs \in Nat /\ MaxPosts \in Nat

Callers == Tasks \union {Loop}

VARIABLES
    task,           \* the loop's own task, or NULL
    loop_nodes,     \* the registered handlers
    unregistered,   \* addresses of the handler nodes that are marked so
    queue,          \* events posted; the request of a cleanup goes with it
    mutex,          \* the task that holds the mutex, or NULL
    running_task,   \* as in the loop
    run,            \* esp_event_loop_run: where it is, the event, handlers to come
    call,           \* the call each task is in
    regs,           \* all registrations so far: key, node, and fate of the request
                    \* to remove it
    refused,        \* history: addresses of the handler nodes for which a request to
                    \* remove them was answered with an error
    posts           \* number of calls that post

vars == <<task, loop_nodes, unregistered, queue, mutex, running_task, run, call, regs, refused,
          posts>>
Dedicated == task = Loop

Room == Len(queue) < QueueSize
NoRequest == [key |-> [base |-> ANY, id |-> ANY], x |-> NONE, legacy |-> FALSE]
Posted(e) == [base |-> e.base, id |-> e.id, r |-> NoRequest]
Cleanup(r) == [base |-> "cleanup", id |-> "0", r |-> r]
NoCall == [op |-> "none", post |-> NoRequest, wait |-> FALSE]
InTree(x) ==
    \E l \in Range(loop_nodes) :
      \/ x \in Range(l.handlers)
      \/ \E b \in Range(l.bases) : \/ x \in Range(b.handlers)
                                   \/ \E k \in Range(b.ids) : x \in Range(k.handlers)

Init ==
    /\ task \in {IF named THEN Loop ELSE NULL : named \in TaskNames}
    /\ loop_nodes = <<>> /\ unregistered = {} /\ queue = <<>>
    /\ mutex = NULL /\ running_task = NULL
    /\ run = [pc |-> IF Dedicated THEN "receive" ELSE "out", post |-> NoRequest, todo |-> <<>>]
    /\ call = [c \in Callers |-> NoCall] /\ regs = <<>> /\ refused = {} /\ posts = 0

-----------------------------------------------------------------------------
(* esp_event_loop_run *)

\* A loop without a task of its own is run by calls, for some time or for ever.
run_call ==
    /\ run.pc = "out" /\ call[Loop] = NoCall
    /\ run' = [run EXCEPT !.pc = "receive"]
    /\ UNCHANGED <<task, loop_nodes, unregistered, queue, mutex, running_task, call, regs, refused, posts>>

run_receive ==
    /\ run.pc = "receive" /\ queue # <<>>
    /\ run' = [run EXCEPT !.pc = "lock", !.post = Head(queue)]
    /\ queue' = Tail(queue)
    /\ UNCHANGED <<task, loop_nodes, unregistered, mutex, running_task, call, regs, refused, posts>>

\* Nothing came in the time given.
run_timeout ==
    /\ run.pc = "receive" /\ queue = <<>> /\ ~Dedicated
    /\ run' = [run EXCEPT !.pc = "out"]
    /\ UNCHANGED <<task, loop_nodes, unregistered, queue, mutex, running_task, call, regs, refused, posts>>

run_lock ==
    /\ run.pc = "lock" /\ mutex = NULL
    /\ mutex' = Loop /\ running_task' = Loop
    /\ loop_nodes' = IF run.post.base # "cleanup" THEN loop_nodes
                     ELSE loop_remove_handler(loop_nodes, run.post.r)
    /\ run' = [run EXCEPT !.pc = "dispatch", !.todo = Plan(loop_nodes', run.post)]
    /\ UNCHANGED <<task, unregistered, queue, call, regs, refused, posts>>

\* Fault: the mark is not looked at.
execute_any ==
    /\ run.pc = "dispatch" /\ run.todo # <<>>
    /\ run' = [run EXCEPT !.pc = "handler"]
    /\ UNCHANGED <<task, loop_nodes, unregistered, queue, mutex, running_task, call, regs, refused, posts>>

handler_execute ==
    /\ run.pc = "dispatch" /\ run.todo # <<>>
    /\ run' = IF Head(run.todo).n \in unregistered THEN [run EXCEPT !.todo = Tail(@)]
              ELSE [run EXCEPT !.pc = "handler"]
    /\ UNCHANGED <<task, loop_nodes, unregistered, queue, mutex, running_task, call, regs, refused, posts>>

handler_return ==
    /\ run.pc = "handler" /\ call[Loop] = NoCall
    /\ run' = [run EXCEPT !.pc = "dispatch", !.todo = Tail(@)]
    /\ UNCHANGED <<task, loop_nodes, unregistered, queue, mutex, running_task, call, regs, refused, posts>>

\* The next event, or, when the time given is over, the return to the caller, which
\* does not reset running_task.
run_unlock ==
    /\ run.pc = "dispatch" /\ run.todo = <<>>
    /\ mutex' = NULL
    /\ \/ run' = [run EXCEPT !.pc = "receive", !.post = NoRequest] /\ running_task' = NULL
       \/ /\ ~Dedicated
          /\ run' = [run EXCEPT !.pc = "out", !.post = NoRequest] /\ UNCHANGED running_task
    /\ UNCHANGED <<task, loop_nodes, unregistered, queue, call, regs, refused, posts>>

Run == run_receive \/ run_lock \/ handler_execute \/ handler_return \/ run_unlock

-----------------------------------------------------------------------------
(* Calls.  The task that runs the loop makes calls from handlers and, if the  *)
(* loop is not its only duty, between runs.                                   *)

Free(c) == call[c] = NoCall /\ (c = Loop => run.pc \in {"handler", "out"})
InHandler(c) == c = Loop /\ run.pc = "handler"
MayLock(c) == mutex \in {NULL, c}
Unlocked(c) == IF InHandler(c) THEN mutex ELSE NULL     \* the mutex after c's last give
Return(c) == call' = [call EXCEPT ![c] = NoCall]

\* A registration that was there already, with a legacy function, is renewed.
register(c, key, h, legacy) ==
    /\ Free(c) /\ ~InHandler(c) /\ mutex = NULL /\ Len(regs) < MaxRegs
    /\ LET x == [n |-> Len(regs) + 1, h |-> h]
           new == [key |-> key, x |-> x, legacy |-> legacy, removal |-> "none"]
       IN  /\ loop_nodes' = Register(loop_nodes, key, x, legacy)
           /\ regs' = IF loop_nodes' # loop_nodes THEN Append(regs, new)
                      ELSE [i \in DOMAIN regs |->
                              IF regs[i].key = key /\ regs[i].x.h = h /\ InTree(regs[i].x)
                              THEN [regs[i] EXCEPT !.removal = "none"] ELSE regs[i]]
    /\ UNCHANGED <<task, unregistered, queue, mutex, running_task, run, call, refused, posts>>

\* The outcome of c's request to unregister.
Outcome(r, result) ==
    LET asked == {i \in DOMAIN regs : /\ regs[i].key = r.key /\ regs[i].legacy = r.legacy
                                      /\ Match(regs[i].x, r)}
    IN  /\ regs' = [i \in DOMAIN regs |->
                      IF i \in asked THEN [regs[i] EXCEPT !.removal = result] ELSE regs[i]]
        /\ refused' = IF result = "error" THEN refused \union asked ELSE refused

\* A handler is unregistered with the arguments it was registered with, by a task or
\* by itself, and again if that was answered with an error.
unregister(c, i) ==
    LET r == [key |-> regs[i].key, x |-> regs[i].x, legacy |-> regs[i].legacy]
    IN  /\ Free(c) /\ regs[i].removal \in {"none", "error"}
        /\ InHandler(c) => Head(run.todo) = regs[i].x
        /\ IF mutex = NULL
           THEN /\ loop_nodes' = loop_remove_handler(loop_nodes, r)
                /\ Outcome(r, IF loop_nodes' = loop_nodes THEN "error" ELSE "ok")
                /\ UNCHANGED call
           ELSE /\ call' = [call EXCEPT ![c] = [op |-> "find", post |-> Cleanup(r), wait |-> FALSE]]
                /\ Outcome(r, "asked") /\ UNCHANGED loop_nodes
    /\ UNCHANGED <<task, unregistered, queue, mutex, running_task, run, posts>>

find_and_unregister_handler(c) ==
    /\ call[c].op = "find" /\ MayLock(c)
    /\ LET r == call[c].post.r
           x == Find(loop_nodes, r)
           zero == c = (IF Dedicated THEN task ELSE running_task)
       IN  IF x = NONE \/ x.n \in unregistered
           THEN /\ Outcome(r, IF x = NONE THEN "error" ELSE "ok") /\ Return(c)
                /\ UNCHANGED <<unregistered, mutex>>
           ELSE /\ unregistered' = unregistered \union {x.n}
                /\ mutex' = c
                /\ call' = [call EXCEPT ![c].op = "cleanup", ![c].wait = ~zero]
                /\ UNCHANGED <<regs, refused>>
    /\ UNCHANGED <<task, loop_nodes, queue, running_task, run, posts>>

\* Fault: the result of esp_event_post_to is ignored.
post_cleanup_unchecked(c) ==
    /\ call[c].op = "cleanup" /\ (Room \/ ~call[c].wait)
    /\ queue' = IF Room THEN Append(queue, call[c].post) ELSE queue
    /\ Outcome(call[c].post.r, "ok")
    /\ mutex' = Unlocked(c) /\ Return(c)
    /\ UNCHANGED <<task, loop_nodes, unregistered, running_task, run, posts>>

\* The event that will remove the node is posted with the mutex held.
post_cleanup(c) ==
    /\ call[c].op = "cleanup" /\ (Room \/ ~call[c].wait)
    /\ queue' = IF Room THEN Append(queue, call[c].post) ELSE queue
    /\ Outcome(call[c].post.r, IF Room THEN "ok" ELSE "error")
    /\ mutex' = Unlocked(c) /\ Return(c)
    /\ UNCHANGED <<task, loop_nodes, unregistered, running_task, run, posts>>

\* esp_event_post_to, with or without time to wait.
esp_event_post_to(c, e, ticks) ==
    /\ Free(c) /\ posts < MaxPosts /\ posts' = posts + 1
    /\ call' = [call EXCEPT ![c] = [op |-> IF Dedicated THEN "send" ELSE "look",
                                    post |-> Posted(e), wait |-> ticks /\ task # c]]
    /\ UNCHANGED <<task, loop_nodes, unregistered, queue, mutex, running_task, run, regs, refused>>

\* Without a task of its own, the loop tells by running_task who may not wait.
post_look(c) ==
    /\ call[c].op = "look" /\ (MayLock(c) \/ ~call[c].wait)
    /\ IF MayLock(c)
       THEN call' = [call EXCEPT ![c].op = "send", ![c].wait = @ /\ running_task # c]
       ELSE Return(c)
    /\ UNCHANGED <<task, loop_nodes, unregistered, queue, mutex, running_task, run, regs, refused, posts>>

post_send(c) ==
    /\ call[c].op = "send" /\ (Room \/ ~call[c].wait)
    /\ queue' = IF Room THEN Append(queue, call[c].post) ELSE queue
    /\ Return(c)
    /\ UNCHANGED <<task, loop_nodes, unregistered, mutex, running_task, run, regs, refused, posts>>

esp_event_isr_post_to(e) ==
    /\ posts < MaxPosts /\ posts' = posts + 1
    /\ queue' = IF Room THEN Append(queue, Posted(e)) ELSE queue
    /\ UNCHANGED <<task, loop_nodes, unregistered, mutex, running_task, run, call, regs, refused>>

Finish(c) ==
    \/ find_and_unregister_handler(c) \/ post_cleanup(c) \/ post_look(c) \/ post_send(c)

Next ==
    \/ Run \/ run_call \/ run_timeout
    \/ \E c \in Callers :
         \/ Finish(c)
         \/ \E key \in Keys, h \in Handlers, legacy \in Apis : register(c, key, h, legacy)
         \/ \E i \in DOMAIN regs : unregister(c, i)
         \/ \E e \in Events, ticks \in BOOLEAN : esp_event_post_to(c, e, ticks)
    \/ \E e \in Events : esp_event_isr_post_to(e)

Spec == Init /\ [][Next]_vars

\* The loop keeps running, handlers return, and calls go on when they can.
FairSpec == Spec /\ WF_vars(Run) /\ \A c \in Callers : WF_vars(Finish(c))

-----------------------------------------------------------------------------
(* Properties *)

Matches(key, e) == key.base \in {ANY, e.base} /\ key.id \in {ANY, e.id}

\* Whatever was registered and unregistered before, the handlers that match an
\* event, whether by id, by base or as handlers of all events, are executed once
\* each, "those which are registered first also get executed first"
\* (esp_event.rst:207), and no registration is lost but by a request to remove it.
PlanInOrder ==
    \A e \in Events :
      LET p == Plan(loop_nodes, e)
      IN  /\ \A i, j \in DOMAIN p : i < j => p[i].n < p[j].n
          /\ \A i \in DOMAIN p : Matches(regs[p[i].n].key, e)
          /\ \A i \in DOMAIN regs : regs[i].removal = "none" /\ Matches(regs[i].key, e) =>
                regs[i].x.n \notin unregistered /\ \E j \in DOMAIN p : p[j] = regs[i].x

\* A handler that has been unregistered "will no longer be called during dispatch"
\* (esp_event.h:302), although its node may still be in the lists.
NotCalledAgain ==
    [][run'.pc = "handler" /\ run.pc = "dispatch" =>
         regs[Head(run.todo).n].removal # "ok"]_vars

CleanupUnderWay(x) ==
    \/ \E i \in DOMAIN queue : queue[i].base = "cleanup" /\ queue[i].r.x = x
    \/ run.pc = "lock" /\ run.post.base = "cleanup" /\ run.post.r.x = x
    \/ \E c \in Callers : call[c].op = "cleanup" /\ call[c].post.r.x = x

\* A handler node that was unregistered with success and is still in the lists has
\* its removal under way, unless an earlier request for it was answered with an
\* error: after a full queue the node is marked and no event will remove it, and
\* the request made again may find the mark and succeed without an event.  No
\* other node stays for ever.
UnregisteredGoes ==
    \A i \in DOMAIN regs :
      regs[i].removal = "ok" /\ InTree(regs[i].x) =>
        CleanupUnderWay(regs[i].x) \/ regs[i].x.n \in refused

\* Every mark has its event, whether the call succeeded or not: of a node that is
\* marked the code says "It means an event was already created to remove from the
\* list" (esp_event.c:518).
MarkedHasEvent ==
    \A i \in DOMAIN regs :
      regs[i].x.n \in unregistered /\ InTree(regs[i].x) => CleanupUnderWay(regs[i].x)

\* Only a handler that somebody asked to unregister is marked: "This avoids
\* accidental unregistration of handlers registered by other users or components"
\* (esp_event.h:264).
OnlyAskedFor ==
    \A i \in DOMAIN regs : regs[i].x.n \in unregistered => regs[i].removal # "none"

\* An event that "has already been unqueued" is executed (esp_event.c:645).
UnqueuedIsExecuted == run.pc = "lock" ~> run.pc = "dispatch"
=============================================================================
