---------------------------- MODULE EspEventTree ----------------------------
(***************************************************************************)
(* The handlers registered with an event loop, as the lists of lists of    *)
(* components/esp_event/esp_event.c hold them: loop nodes, each with       *)
(* handlers for all events and base nodes; base nodes, each with handlers  *)
(* for all events of the base and id nodes.                                *)
(*                                                                         *)
(* A handler node is a record [n |-> its address, h |-> the function].  A  *)
(* request r to remove one names its key, and the node or, from the older  *)
(* ("legacy") functions, the function.                                     *)
(***************************************************************************)
EXTENDS Integers, SequencesExt, FiniteSetsExt

ANY  == "ANY"       \* ESP_EVENT_ANY_BASE, ESP_EVENT_ANY_ID
NONE == [n |-> 0, h |-> "none"]

LoopLevel(key) == key.base = ANY /\ key.id = ANY

-----------------------------------------------------------------------------
(* Dispatch: the handlers of an event in the order of esp_event_loop_run *)

BasePlan(b, e) ==
    LET k == SelectInSeq(b.ids, LAMBDA x : x.id = e.id)
    IN  IF b.base # e.base THEN <<>>
        ELSE b.handlers \o IF k = 0 THEN <<>> ELSE b.ids[k].handlers

NodePlan(l, e) ==
    l.handlers \o FlattenSeq([j \in DOMAIN l.bases |-> BasePlan(l.bases[j], e)])

Plan(nodes, e) == FlattenSeq([i \in DOMAIN nodes |-> NodePlan(nodes[i], e)])

-----------------------------------------------------------------------------
(* Registration *)

handler_instances_add(hs, x, legacy) ==
    IF legacy /\ \E i \in DOMAIN hs : hs[i].h = x.h THEN hs ELSE Append(hs, x)

base_node_add_handler(b, id, x, legacy) ==
    LET k == SelectLastInSeq(b.ids, LAMBDA y : y.id = id)
    IN  IF id = ANY THEN [b EXCEPT !.handlers = handler_instances_add(@, x, legacy)]
        ELSE IF k = 0 THEN [b EXCEPT !.ids = Append(@, [id |-> id, handlers |-> <<x>>])]
        ELSE [b EXCEPT !.ids[k].handlers = handler_instances_add(@, x, legacy)]

\* Fault: handlers for all events of a base join its last node, behind which
\* there may be handlers of single events already.
one_node_per_base(l, key, x, legacy) ==
    LET j == SelectLastInSeq(l.bases, LAMBDA b : b.base = key.base)
        new == [base |-> key.base, handlers |-> <<>>, ids |-> <<>>]
    IN  IF LoopLevel(key) THEN [l EXCEPT !.handlers = handler_instances_add(@, x, legacy)]
        ELSE IF j = 0
        THEN [l EXCEPT !.bases = Append(@, base_node_add_handler(new, key.id, x, legacy))]
        ELSE [l EXCEPT !.bases[j] = base_node_add_handler(@, key.id, x, legacy)]

loop_node_add_handler(l, key, x, legacy) ==
    LET j == SelectLastInSeq(l.bases, LAMBDA b : b.base = key.base)
        new == [base |-> key.base, handlers |-> <<>>, ids |-> <<>>]
        behind == /\ key.id = ANY
                  /\ \/ l.bases[j].ids # <<>>
                     \/ Last(l.bases).base # key.base /\ Last(l.bases).ids # <<>>
    IN  IF LoopLevel(key) THEN [l EXCEPT !.handlers = handler_instances_add(@, x, legacy)]
        ELSE IF j = 0 \/ behind
        THEN [l EXCEPT !.bases = Append(@, base_node_add_handler(new, key.id, x, legacy))]
        ELSE [l EXCEPT !.bases[j] = base_node_add_handler(@, key.id, x, legacy)]

Register(nodes, key, x, legacy) ==
    LET new == [handlers |-> <<>>, bases |-> <<>>]
    IN  IF nodes = <<>> \/ (Last(nodes).bases # <<>> /\ LoopLevel(key))
        THEN Append(nodes, loop_node_add_handler(new, key, x, legacy))
        ELSE ReplaceAt(nodes, Len(nodes), loop_node_add_handler(Last(nodes), key, x, legacy))

-----------------------------------------------------------------------------
(* Removal.  Each function returns the list it was given if it finds nothing. *)

Match(x, r) == IF r.legacy THEN x.h = r.x.h ELSE x.n = r.x.n

handler_instances_remove(hs, r) ==
    LET i == SelectInSeq(hs, LAMBDA x : Match(x, r))
    IN  IF i = 0 THEN hs ELSE RemoveAt(hs, i)

\* Apply f to the first element of s that it changes, and drop it if it is empty.
ChangeFirst(s, f(_), Empty(_)) ==
    LET i == SelectInSeq(s, LAMBDA x : f(x) # x)
    IN  IF i = 0 THEN s
        ELSE IF Empty(f(s[i])) THEN RemoveAt(s, i) ELSE ReplaceAt(s, i, f(s[i]))

id_node_remove_handler(k, r) ==
    IF k.id # r.key.id THEN k
    ELSE [k EXCEPT !.handlers = handler_instances_remove(@, r)]

base_node_remove_handler(b, r) ==
    IF b.base # r.key.base THEN b
    ELSE IF r.key.id = ANY THEN [b EXCEPT !.handlers = handler_instances_remove(@, r)]
    ELSE [b EXCEPT !.ids = ChangeFirst(@, LAMBDA k : id_node_remove_handler(k, r),
                                          LAMBDA k : k.handlers = <<>>)]

loop_node_remove_handler(l, r) ==
    IF LoopLevel(r.key) THEN [l EXCEPT !.handlers = handler_instances_remove(@, r)]
    ELSE [l EXCEPT !.bases = ChangeFirst(@, LAMBDA b : base_node_remove_handler(b, r),
                                            LAMBDA b : b.handlers = <<>> /\ b.ids = <<>>)]

loop_remove_handler(nodes, r) ==
    ChangeFirst(nodes, LAMBDA l : loop_node_remove_handler(l, r),
                       LAMBDA l : l.handlers = <<>> /\ l.bases = <<>>)

-----------------------------------------------------------------------------
(* find_and_unregister_handler: the node to mark.  The walk goes on after a *)
(* match among the handlers of an event, up to the next list it has to look *)
(* through for a whole base or loop.                                        *)

Visit(found, hs, r) ==
    LET i == SelectInSeq(hs, LAMBDA x : Match(x, r)) IN IF i = 0 THEN found ELSE hs[i]

FindInBase(found, b, r) ==
    LET k == SelectInSeq(b.ids, LAMBDA x : x.id = r.key.id)
        x == Visit(found, b.handlers, r)
    IN  IF b.base # r.key.base THEN found
        ELSE IF x # NONE \/ k = 0 THEN x ELSE Visit(NONE, b.ids[k].handlers, r)

\* A match before this list, which ended the walk, or one in it.
FindInNode(found, l, r) ==
    LET x == Visit(found, l.handlers, r)
        walk[j \in 0 .. Len(l.bases)] ==
            IF j = 0 THEN [x |-> NONE, end |-> FALSE]
            ELSE LET w == walk[j - 1]
                     b == l.bases[j]
                     y == FindInBase(w.x, b, r)
                 IN  IF w.end \/ b.base # r.key.base THEN w
                     ELSE [x |-> y, end |-> Visit(w.x, b.handlers, r) # NONE]
    IN  IF x # NONE THEN x ELSE walk[Len(l.bases)].x

Find(nodes, r) ==
    LET walk[i \in 0 .. Len(nodes)] ==
            IF i = 0 THEN [x |-> NONE, end |-> FALSE]
            ELSE LET w == walk[i - 1]
                 IN  IF w.end THEN w
                     ELSE [x |-> FindInNode(w.x, nodes[i], r),
                           end |-> Visit(w.x, nodes[i].handlers, r) # NONE]
    IN  walk[Len(nodes)].x
=============================================================================
