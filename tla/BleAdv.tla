------------------------------- MODULE BleAdv -------------------------------
(***************************************************************************)
(* Advertising of nRF Desktop (src/modules/ble_adv.c).  The module stops   *)
(* advertising when a peer connects, starts again when it leaves, and      *)
(* before the device sleeps keeps advertising for a while without the      *)
(* Swift Pair section, so that the power_down_event is swallowed until the *)
(* grace period is over.                                                   *)
(*                                                                         *)
(*   upd, grace  the works adv_update and sp_grace_period_to are pending   *)
(*   radio       what the stack advertises: "none", "und" or "dir"         *)
(*   hangup      the stack was asked to disconnect the peer                *)
(*                                                                         *)
(* x is the world around: x.fast, x.swift and x.direct are the             *)
(* configuration, x.link is the identity of the link or NoLink, x.bonds    *)
(* the identities that have a bond, x.fail the call that the stack         *)
(* refuses: "none", "stop" or "start" (an update of the data counts as a   *)
(* start).                                                                 *)
(***************************************************************************)
EXTENDS DesktopEvents

NoLink == -1

AdvInit == [state |-> "DISABLED", upd |-> FALSE, grace |-> FALSE, id |-> 0,
            radio |-> "none", hangup |-> FALSE, init |-> FALSE, started |-> FALSE]

Off(a) == Emit([a EXCEPT !.state = "OFF"], << module_set_state("ble_adv", "OFF") >>)
Error(a) == Emit(a, << module_set_state("ble_adv", "ERROR") >>)

\* ble_adv_stop(): the works are cancelled with the advertising.
ble_adv_stop(a) == [a EXCEPT !.radio = "none", !.upd = FALSE, !.grace = FALSE, !.state = "IDLE"]

\* ble_adv_start(): the stack refuses while a peer is connected, which is
\* no error.  The state follows the configuration, not the interval used.
ble_adv_start(a0, x) ==
  LET a == ble_adv_stop(a0)
      direct == x.direct /\ a.id \in x.bonds
      state == CASE direct -> IF x.fast THEN "ACTIVE_FAST_DIRECT" ELSE "ACTIVE_SLOW_DIRECT"
                 [] OTHER -> IF x.fast THEN "ACTIVE_FAST" ELSE "ACTIVE_SLOW"
  IN  CASE x.fail = "stop" -> [m |-> a0, err |-> TRUE]
        [] x.fail = "start" -> [m |-> a, err |-> TRUE]
        [] x.fail = "none" /\ x.link # NoLink -> [m |-> a, err |-> FALSE]
        [] OTHER -> [m |-> [a EXCEPT !.radio = IF direct THEN "dir" ELSE "und",
                                     !.state = state, !.upd = x.fast /\ ~direct],
                     err |-> FALSE]

Reported(r) == IF r.err THEN Error(r.m) ELSE Done(r.m)

sp_grace_period_fn(a0, x) ==
  LET a == [a0 EXCEPT !.grace = FALSE] IN IF x.fail = "stop" THEN Error(a) ELSE Off(ble_adv_stop(a))

ble_adv_update_fn(a, x) ==
  Asserts(Reported(ble_adv_start([a EXCEPT !.upd = FALSE], x)), a.state = "ACTIVE_FAST")

\* Without advertising there is nothing to remove the section from.
remove_vendor_section(a, x) ==
  CASE x.fail # "none" -> Error(a)
    [] x.fail = "none" /\ a.radio = "none" -> Off(ble_adv_stop(a))
    [] OTHER -> Done([a EXCEPT !.upd = FALSE, !.grace = TRUE, !.state = "GRACE_PERIOD"])

-----------------------------------------------------------------------------
(* Events.                                                                 *)

on_adv_module(a, e, x) ==
  CASE check_state(e, "ble_state", "READY") ->
         Asserts(Emit([a EXCEPT !.init = TRUE], << module_set_state("ble_adv", "READY") >>),
                 ~a.init)
    [] check_state(e, "ble_bond", "READY") ->
         Asserts(Reported(ble_adv_start([a EXCEPT !.started = TRUE], x)), ~a.started)
    [] OTHER -> Done(a)


on_adv_peer(a, peer, x) ==
  CASE peer = "CONNECTED" -> IF x.fail = "stop" THEN Error(a) ELSE Done(ble_adv_stop(a))
    [] peer \in {"DISCONNECTED", "CONN_FAILED"} /\ a.state # "OFF" ->
         Reported(ble_adv_start(a, x))
    [] OTHER -> Done(a)

SelectsWhenAwake(a, id, x) ==
  IF a.state \in {"OFF", "GRACE_PERIOD"} THEN Done(a)
  ELSE Done(ble_adv_start([a EXCEPT !.id = id, !.hangup = @ \/ x.link = a.id], x).m)

\* A new peer: the link of the old identity is given up.
on_adv_selected(a, id, x) ==
  IF a.state \in {"OFF", "GRACE_PERIOD"} THEN Done([a EXCEPT !.id = id])
  ELSE LET hangup == x.link = a.id /\ a.id \in x.bonds
       IN  Done(ble_adv_start([a EXCEPT !.id = id, !.hangup = @ \/ hangup], x).m)

on_adv_power_down(a, x) ==
  LET r == CASE a.state \in {"ACTIVE_FAST", "ACTIVE_SLOW"} /\ x.swift ->
                  remove_vendor_section(a, x)
             [] \/ a.state \in {"ACTIVE_FAST", "ACTIVE_SLOW"} /\ ~x.swift
                \/ a.state \in {"ACTIVE_FAST_DIRECT", "ACTIVE_SLOW_DIRECT"} ->
                  IF x.fail = "stop" THEN Error(a) ELSE Off(ble_adv_stop(a))
             [] a.state = "IDLE" -> Off(a)
             [] OTHER -> Asserts(Done(a), a.state # "DISABLED")
  IN  Eats(r, r.m.state # "OFF")

on_adv_wake_up(a, x) ==
  IF a.state \notin {"OFF", "GRACE_PERIOD"} THEN Done(a)
  ELSE LET r == ble_adv_start(IF a.state = "OFF" THEN [a EXCEPT !.state = "IDLE"] ELSE a, x)
       IN  CASE r.err -> Error(r.m)
             [] ~r.err /\ a.state = "OFF" ->
                  Emit(r.m, << module_set_state("ble_adv", "READY") >>)
             [] OTHER -> Done(r.m)

adv_handler(a, e, x) ==
  CASE e.t = "module" -> on_adv_module(a, e, x)
    [] e.t = "peer" -> on_adv_peer(a, e.state, x)
    [] e.t = "peer_operation" /\ e.op = "SELECTED" -> on_adv_selected(a, e.arg, x)
    [] e.t = "power_down" -> on_adv_power_down(a, x)
    [] e.t = "wake_up" -> on_adv_wake_up(a, x)
    [] OTHER -> Done(a)
=============================================================================
