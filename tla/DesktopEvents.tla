---------------------------- MODULE DesktopEvents ----------------------------
(***************************************************************************)
(* The events that the modules of nRF Desktop exchange (src/events) and    *)
(* what a listener does with one.  A handler is an operator that takes the *)
(* state of its module and an event and returns a record:                  *)
(*                                                                         *)
(*   m    the state of the module after the event                          *)
(*   out  the events submitted, in order                                   *)
(*   eat  what the handler returns: TRUE keeps the event from the          *)
(*        listeners after it                                               *)
(*   bad  an assertion of the code failed                                  *)
(***************************************************************************)
EXTENDS Integers, Sequences, FiniteSets, SequencesExt

Emit(m, out) == [m |-> m, out |-> out, eat |-> FALSE, bad |-> FALSE]
Done(m) == Emit(m, << >>)
Eats(r, eat) == [r EXCEPT !.eat = eat]
Asserts(r, holds) == [r EXCEPT !.bad = r.bad \/ ~holds]

\* module_set_state(): every module says what became of it.
module_set_state(id, state) == [t |-> "module", id |-> id, state |-> state]

check_state(e, id, state) == e.t = "module" /\ e.id = id /\ e.state = state

power_down_event == [t |-> "power_down"]
wake_up_event == [t |-> "wake_up"]

peer_operation(op, arg) == [t |-> "peer_operation", op |-> op, arg |-> arg]
=============================================================================
