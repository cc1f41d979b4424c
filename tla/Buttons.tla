------------------------------- MODULE Buttons -------------------------------
(***************************************************************************)
(* The button matrix of nRF Desktop (src/hw_interface/buttons.c).  While a *)
(* key is down a delayed work scans the matrix; otherwise the module waits *)
(* for the level interrupt of the pins, active or, when the device is      *)
(* asleep, idle.  cb says that the callbacks of the pins are enabled, work *)
(* that matrix_scan is pending; old is old_state of scan_fn().             *)
(*                                                                         *)
(* pressed is the set of keys held down and fail the GPIO call that fails, *)
(* if any: one of init_fn(), of reading the rows, of leaving the columns   *)
(* in a neutral state, or callback_ctrl() that arms or disarms.            *)
(***************************************************************************)
EXTENDS DesktopEvents

ButtonCalls == {"init", "rows", "cols", "arm", "disarm"}

ButtonsInit == [state |-> "IDLE", cb |-> FALSE, work |-> FALSE, old |-> {},
                init |-> FALSE]

\* suspend_nolock(): the error is "EBUSY" until the scanning ends.
suspend_nolock(b, fail) ==
  CASE b.state = "SCANNING" -> [m |-> [b EXCEPT !.state = "SUSPENDING"], err |-> "EBUSY"]
    [] b.state = "SUSPENDING" -> [m |-> b, err |-> "EBUSY"]
    [] b.state = "ACTIVE" ->
         [m |-> [b EXCEPT !.state = "IDLE", !.cb = fail # "arm"],
          err |-> IF fail = "arm" THEN "EIO" ELSE "OK"]
    [] OTHER -> [m |-> b, err |-> "EALREADY"]

ButtonChanges(old, pressed) ==
  SetToSeq({[t |-> "button", key |-> k, pressed |-> k \in pressed] :
              k \in (old \ pressed) \cup (pressed \ old)})

\* The end of a scan that finds no key down.
Released(b, fail) ==
  CASE b.state = "SCANNING" ->
         [m |-> [b EXCEPT !.state = "ACTIVE", !.cb = fail # "arm"],
          err |-> IF fail = "arm" THEN "EIO" ELSE "OK"]
    [] OTHER -> suspend_nolock([b EXCEPT !.state = "ACTIVE"], fail)

\* A call that fails ends the scan in the state it has then, with no scan
\* to follow; one that reads the rows even before the changes are told.
scan_fn(b0, pressed, fail) ==
  LET begun == [b0 EXCEPT !.work = FALSE]
      b == [begun EXCEPT !.old = pressed]
      changes == ButtonChanges(b0.old, pressed)
      error == << module_set_state("buttons", "ERROR") >>
      standby == << module_set_state("buttons", "STANDBY") >>
      r == Released(b, fail)
  IN  Asserts(CASE fail = "rows" -> Emit(begun, error)
                [] fail = "cols" -> Emit(b, changes \o error)
                [] fail \notin {"rows", "cols"} /\ pressed # {} ->
                     Emit([b EXCEPT !.work = TRUE], changes)
                [] OTHER ->
                     Emit(r.m, changes \o (CASE r.err # "OK" -> error
                                             [] r.err = "OK" /\ b.state = "SUSPENDING" -> standby
                                             [] OTHER -> << >>)),
              b0.state \in {"SCANNING", "SUSPENDING"})

\* resume(): wakes up from IDLE only, with a scan.
resume(b, pressed, fail) ==
  CASE b.state # "IDLE" -> Done(b)
    [] b.state = "IDLE" /\ fail = "disarm" -> Emit(b, << module_set_state("buttons", "ERROR") >>)
    [] OTHER ->
         LET r == scan_fn([b EXCEPT !.cb = FALSE, !.state = "SCANNING"], pressed, fail)
         IN  [r EXCEPT !.out = Append(r.out, module_set_state("buttons", "READY"))]

\* button_pressed(), the interrupt: a level, so the callbacks are disabled.
button_pressed(b) ==
  CASE b.state = "IDLE" -> Emit([b EXCEPT !.cb = FALSE], << wake_up_event >>)
    [] b.state = "ACTIVE" -> Done([b EXCEPT !.cb = FALSE, !.state = "SCANNING", !.work = TRUE])
    [] OTHER -> Asserts(Done([b EXCEPT !.cb = FALSE]), FALSE)

buttons_init(b, pressed, fail) ==
  IF fail = "init" THEN Emit(b, << module_set_state("buttons", "ERROR") >>)
  ELSE LET r == scan_fn([b EXCEPT !.state = "SCANNING", !.cb = FALSE, !.init = TRUE],
                        pressed, fail)
       IN  [r EXCEPT !.out = << module_set_state("buttons", "READY") >> \o r.out]

BusyIsPassedOn(b, fail) ==
  LET s == suspend_nolock(b, fail)
  IN  IF s.err = "OK" THEN Emit(s.m, << module_set_state("buttons", "STANDBY") >>)
      ELSE Done(s.m)

suspend(b, fail) ==
  LET s == suspend_nolock(b, fail)
  IN  CASE s.err = "OK" -> Emit(s.m, << module_set_state("buttons", "STANDBY") >>)
        [] s.err = "EALREADY" -> Done(s.m)
        [] s.err = "EBUSY" -> Eats(Done(s.m), TRUE)
        [] OTHER -> Eats(Emit(s.m, << module_set_state("buttons", "ERROR") >>), TRUE)

buttons_handler(b, e, pressed, fail) ==
  CASE check_state(e, "main", "READY") -> Asserts(buttons_init(b, pressed, fail), ~b.init)
    [] e.t = "wake_up" -> resume(b, pressed, fail)
    [] e.t = "power_down" -> suspend(b, fail)
    [] OTHER -> Done(b)
=============================================================================
