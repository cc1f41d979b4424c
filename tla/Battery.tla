------------------------------- MODULE Battery -------------------------------
(***************************************************************************)
(* The battery of nRF Desktop (src/hw_interface/battery_discrete.c) and    *)
(* the battery service (src/services/bas.c).  A delayed work alternately   *)
(* starts an ADC conversion and polls for its result; the edges of the     *)
(* charger's status pin are counted and judged by another work.            *)
(*                                                                         *)
(*   work      battery_lvl_read is pending, pend adc_async_read_pending    *)
(*   sig       async_sig is raised: nothing in the code resets it          *)
(*   cso       cso_counter, up to one more than the limit                  *)
(*   chk       error_check is pending                                      *)
(*   cb        the callback of the status pin is enabled                   *)
(*   charge    the charger is enabled                                      *)
(*                                                                         *)
(* pin is the level of the status pin; fail says that a driver call fails, *)
(* or which: "early" or "late" in a sequence of them, if not "none".       *)
(***************************************************************************)
EXTENDS DesktopEvents

CSO_CHANGE_MAX == 3

BattInit ==
  [active |-> FALSE, sampling |-> FALSE, pend |-> FALSE, work |-> FALSE, adc |-> FALSE,
   sig |-> FALSE, cso |-> 0, chk |-> FALSE, cb |-> FALSE, state |-> "none",
   charge |-> FALSE, init |-> FALSE]

-----------------------------------------------------------------------------
(* The charger.                                                            *)

\* cs_change(), the interrupt of the status pin.
cs_change(b) ==
  IF ~b.active THEN b
  ELSE [b EXCEPT !.chk = b.chk \/ b.cso = 0,
                 !.cso = IF b.cso > CSO_CHANGE_MAX THEN b.cso ELSE b.cso + 1]

\* error_check_handler(): too many edges are an error of the charger.
error_check_handler(b, pin) ==
  LET error == b.cso > CSO_CHANGE_MAX
      state == CASE error -> "ERROR"
                 [] ~error /\ pin = 0 -> "CHARGING"
                 [] OTHER -> "IDLE"
  IN  Emit([b EXCEPT !.chk = FALSE, !.cso = 0, !.cb = b.cb /\ ~error, !.state = state],
           IF state # b.state THEN << [t |-> "battery_state", state |-> state] >> ELSE << >>)

-----------------------------------------------------------------------------
(* The level.                                                              *)

battery_monitor_start(b) == [b EXCEPT !.sampling = TRUE, !.work = TRUE]

battery_monitor_stop(b, fail) ==
  Emit([b EXCEPT !.work = FALSE, !.sampling = FALSE],
       << module_set_state("battery", IF fail THEN "ERROR" ELSE "STANDBY") >>)

\* battery_lvl_process(): the level, cut to 0 .. 100 percent, is announced.
battery_lvl_process == << [t |-> "battery_level"] >>

\* The work: one call starts a conversion, the next polls for its end.
battery_lvl_read_fn(b, fail) ==
  LET started == [b EXCEPT !.pend = ~fail, !.adc = ~fail]
      read == IF b.sig THEN [b EXCEPT !.pend = FALSE] ELSE b
      m == IF b.pend THEN read ELSE started
      out == IF b.pend /\ b.sig THEN battery_lvl_process ELSE << >>
      stop == battery_monitor_stop(m, fail)
  IN  IF m.active \/ m.pend THEN Emit([m EXCEPT !.work = TRUE], out)
      ELSE [stop EXCEPT !.out = out \o stop.out]

\* The driver raises the signal when the conversion ends.
adc_done(b) == [b EXCEPT !.adc = FALSE, !.sig = TRUE]

-----------------------------------------------------------------------------
(* Events.                                                                 *)

\* What fails after the charger's pin is set up leaves it armed.
battery_init(b, fail) ==
  LET begun == [b EXCEPT !.init = TRUE, !.charge = FALSE]
      armed == [begun EXCEPT !.cb = TRUE, !.cso = 1, !.chk = TRUE]
      error == << module_set_state("battery", "ERROR") >>
  IN  CASE fail = "early" -> Emit(begun, error)
        [] fail = "late" -> Emit(armed, error)
        [] OTHER -> Emit([battery_monitor_start(armed) EXCEPT !.active = TRUE],
                         << module_set_state("battery", "READY") >>)

on_battery_wake_up(b, fail) ==
  LET m == [b EXCEPT !.active = TRUE, !.cso = 1, !.chk = TRUE]
  IN  CASE b.active -> Done(b)
        [] ~b.active /\ fail # "none" -> Emit([m EXCEPT !.cb = fail = "late"], << module_set_state("battery", "ERROR") >>)
        [] OTHER -> Emit([battery_monitor_start(m) EXCEPT !.cb = TRUE],
                         << module_set_state("battery", "READY") >>)

\* A conversion under way is waited for; the event is swallowed until then.
on_battery_power_down(b, fail) ==
  LET m == [b EXCEPT !.active = FALSE, !.cb = FALSE]
      said == IF fail THEN << module_set_state("battery", "ERROR") >> ELSE << >>
      stop == battery_monitor_stop(m, fail)
      r == CASE ~b.active -> Done(b)
             [] b.active /\ b.pend -> Asserts(Emit([m EXCEPT !.work = TRUE], said), b.sampling)
             [] OTHER -> [stop EXCEPT !.out = said \o stop.out]
  IN  Eats(r, r.m.sampling)

on_battery_usb(b, usb, fail) ==
  LET m == CASE usb \in {"SUSPENDED", "DISCONNECTED"} -> [b EXCEPT !.charge = FALSE]
             [] usb \in {"POWERED", "ACTIVE"} -> [b EXCEPT !.charge = TRUE]
             [] OTHER -> b
  IN  IF fail THEN Emit(b, << module_set_state("battery", "ERROR") >>) ELSE Done(m)

battery_handler(b, e, fail) ==
  CASE check_state(e, "main", "READY") -> Asserts(battery_init(b, fail), ~b.init)
    [] e.t = "wake_up" -> on_battery_wake_up(b, fail)
    [] e.t = "power_down" -> on_battery_power_down(b, fail # "none")
    [] e.t = "usb" -> on_battery_usb(b, e.state, fail # "none")
    [] OTHER -> Done(b)

-----------------------------------------------------------------------------
(* The battery service: sent counts the notifications, up to one.          *)

BasInit == [init |-> FALSE, active |-> FALSE, sent |-> FALSE]

blvl_ccc_cfg_changed(s, notify) == [s EXCEPT !.active = notify]

bas_handler(s, e) ==
  CASE e.t = "battery_level" -> Done([s EXCEPT !.sent = s.sent \/ s.active])
    [] check_state(e, "ble_state", "READY") ->
         Asserts(Emit([s EXCEPT !.init = TRUE], << module_set_state("bas", "READY") >>), ~s.init)
    [] OTHER -> Done(s)
=============================================================================
