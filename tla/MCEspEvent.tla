----------------------------- MODULE MCEspEvent -----------------------------
(* Two events of one base, and handlers for one of them, for the base, for      *)
(* another base and for all events.                                          *)
EXTENDS EspEvent

MCEvents == {[base |-> "B", id |-> "1"], [base |-> "B", id |-> "2"]}
MCKeys == {[base |-> ANY, id |-> ANY], [base |-> "B", id |-> ANY],
           [base |-> "B", id |-> "1"], [base |-> "C", id |-> ANY]}
MCOneKey == {[base |-> "B", id |-> ANY]}
=============================================================================
