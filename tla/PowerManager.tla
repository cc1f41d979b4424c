---------------------------- MODULE PowerManager ----------------------------
(***************************************************************************)
(* The power manager of nRF Desktop (src/modules/power_manager.c).  A      *)
(* delayed work counts the seconds without a mouse report; when there are  *)
(* enough, the manager asks every module to stop with a power_down_event,  *)
(* that any of them may swallow, and asks again whenever a module says     *)
(* that it stopped.  It is the last listener: the event that reaches it    *)
(* was passed on by every other module.                                    *)
(***************************************************************************)
EXTENDS DesktopEvents

CONSTANT TimeoutChecks  \* CONFIG_DESKTOP_POWER_MANAGER_TIMEOUT, in checks

PmInit == [state |-> "IDLE", work |-> FALSE, count |-> 0, conns |-> 0,
           usb |-> FALSE, init |-> FALSE]

system_off(p) == [p EXCEPT !.state = "OFF"]

\* The delayed work power_down(); pending again unless the time is over.
power_down(p) ==
  LET next == [p EXCEPT !.count = IF p.count < TimeoutChecks THEN p.count + 1 ELSE p.count]
      r == IF p.count >= TimeoutChecks
           THEN Emit([next EXCEPT !.state = "SUSPENDING", !.work = FALSE],
                     << power_down_event >>)
           ELSE Done([next EXCEPT !.work = TRUE])
  IN  Asserts(r, ~p.usb /\ p.state = "IDLE")

-----------------------------------------------------------------------------
(* The event handler, by event.                                            *)

on_hid_mouse(p) ==
  Asserts(Done(IF p.state = "IDLE" THEN [p EXCEPT !.count = 0] ELSE p), p.state # "OFF")

on_power_down(p) ==
  Done(IF ~p.usb /\ p.state = "SUSPENDING"
       THEN IF p.conns # 0 THEN [p EXCEPT !.state = "SUSPENDED"] ELSE system_off(p)
       ELSE p)

\* With USB the work stays cancelled and the count is left as it is.
on_wake_up(p) ==
  Done(IF p.usb THEN [p EXCEPT !.state = "IDLE"]
       ELSE [p EXCEPT !.state = "IDLE", !.count = 0, !.work = TRUE])

\* connection_count has no room below zero: -1 stands for UINT_MAX.
on_peer(p, peer) ==
  LET n == CASE peer = "CONNECTED" -> p.conns + 1
             [] peer = "DISCONNECTED" -> p.conns - 1
             [] OTHER -> p.conns
      c == [p EXCEPT !.conns = IF n < -1 THEN -1 ELSE n]
  IN  Asserts(Done(IF ~c.usb /\ c.conns = 0 /\ c.state = "SUSPENDED"
                   THEN system_off(c) ELSE c),
              c.conns >= 0)

on_usb(p, usb) ==
  CASE usb = "POWERED" ->
         Emit([p EXCEPT !.usb = TRUE, !.work = FALSE],
              IF p.state # "IDLE" THEN << wake_up_event >> ELSE << >>)
    [] usb = "DISCONNECTED" -> Done([p EXCEPT !.usb = FALSE, !.work = TRUE])
    [] OTHER -> Done(p)

on_module(p, e) ==
  CASE e.state \in {"OFF", "STANDBY"} /\ p.state = "SUSPENDING" ->
         Emit(p, << power_down_event >>)
    [] check_state(e, "main", "READY") ->
         Asserts(Done([p EXCEPT !.init = TRUE, !.work = TRUE]), ~p.init)
    [] OTHER -> Done(p)

pm_handler(p, e) ==
  CASE e.t = "hid_mouse" -> on_hid_mouse(p)
    [] e.t = "power_down" -> on_power_down(p)
    [] e.t = "wake_up" -> on_wake_up(p)
    [] e.t = "peer" -> on_peer(p, e.state)
    [] e.t = "usb" -> on_usb(p, e.state)
    [] e.t = "module" -> on_module(p, e)
    [] OTHER -> Done(p)
=============================================================================
