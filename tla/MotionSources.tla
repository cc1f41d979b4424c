---------------------------- MODULE MotionSources ----------------------------
(***************************************************************************)
(* The wheel and the two other sources of motion of nRF Desktop: a         *)
(* quadrature decoder (src/hw_interface/wheel.c), four buttons             *)
(* (src/hw_interface/motion_buttons.c), set up and taken down by works of  *)
(* their own, and a simulated trajectory                                   *)
(* (src/hw_interface/motion_simulated.c) started from the shell.           *)
(***************************************************************************)
EXTENDS DesktopEvents

CONSTANT WheelDivider   \* CONFIG_DESKTOP_WHEEL_SENSOR_VALUE_DIVIDER

-----------------------------------------------------------------------------
(* Wheel: a decoder while the module is active, and level interrupts of    *)
(* its two pins to wake the device while it is not.  trig says that the    *)
(* trigger of the decoder is set, int that the pin callbacks are enabled,  *)
(* fail that a driver call fails.                                          *)

SCHAR_MAX == 127
SCHAR_MIN == -128

WheelInit == [active |-> FALSE, trig |-> FALSE, int |-> FALSE, init |-> FALSE]

\* C divides towards zero; the quotient is cut to a signed char.
WheelValue(rotation) ==
  LET w == IF rotation > 0 THEN -(rotation \div WheelDivider)
           ELSE (-rotation) \div WheelDivider
  IN  CASE w > SCHAR_MAX -> SCHAR_MAX
        [] w < SCHAR_MIN -> SCHAR_MIN
        [] OTHER -> w

data_ready_handler(w, rotation, fail) ==
  IF ~w.active \/ fail THEN Done(w)
  ELSE Emit(w, << [t |-> "wheel", value |-> WheelValue(rotation)] >>)

wakeup_int_ctrl(w, on) == [w EXCEPT !.int = on]

wakeup_cb(w, fail) ==
  Asserts(IF fail THEN Done(w) ELSE Emit(wakeup_int_ctrl(w, FALSE), << wake_up_event >>),
          ~w.active)

\* enable() after init() or after wakeup_int_ctrl(false).
enable(w, fail) ==
  IF fail THEN Emit(w, << module_set_state("wheel", "ERROR") >>)
  ELSE Emit([wakeup_int_ctrl(w, FALSE) EXCEPT !.trig = TRUE, !.active = TRUE],
            << module_set_state("wheel", "READY") >>)

\* setup_wakeup(): the pins are set to the level that is not there now.
setup_wakeup(w) == wakeup_int_ctrl(w, TRUE)

\* active is cleared before disable() and setup_wakeup() are tried.
disable(w, fail) ==
  IF fail THEN Emit([w EXCEPT !.active = FALSE], << module_set_state("wheel", "ERROR") >>)
  ELSE Emit([setup_wakeup(w) EXCEPT !.active = FALSE, !.trig = FALSE],
            << module_set_state("wheel", "STANDBY") >>)

wheel_handler(w, e, fail) ==
  CASE check_state(e, "main", "READY") ->
         Asserts(enable([w EXCEPT !.init = TRUE], fail), ~w.init)
    [] e.t = "wake_up" /\ ~w.active -> enable(w, fail)
    [] e.t = "power_down" /\ w.active -> disable(w, fail)
    [] OTHER -> Done(w)

-----------------------------------------------------------------------------
(* Buttons: todo is the set of works submitted, on says that the pin       *)
(* callbacks are enabled.                                                  *)

MbInit == [state |-> "IDLE", todo |-> {}, on |-> FALSE]

async_init_fn(mb) ==
  Emit([mb EXCEPT !.todo = mb.todo \ {"init"}, !.on = TRUE],
       << module_set_state("motion", "READY") >>)

TerminatesQuietly(mb) ==
  Done([mb EXCEPT !.todo = mb.todo \ {"term"}, !.on = FALSE, !.state = "IDLE"])

async_term_fn(mb) ==
  Emit([mb EXCEPT !.todo = mb.todo \ {"term"}, !.on = FALSE, !.state = "IDLE"],
       << module_set_state("motion", "OFF") >>)

\* A button moves the pointer one step.
motion_button_pressed(mb) == Emit(mb, << [t |-> "motion"] >>)

motion_buttons_handler(mb, e) ==
  CASE check_state(e, "board", "READY") /\ mb.state = "IDLE" ->
         Done([mb EXCEPT !.state = "ACTIVE", !.todo = mb.todo \cup {"init"}])
    [] e.t = "power_down" ->
         LET m == IF mb.state = "ACTIVE"
                  THEN [mb EXCEPT !.state = "TERMINATING", !.todo = mb.todo \cup {"term"}]
                  ELSE mb
         IN  Eats(Done(m), m.state # "IDLE")
    [] OTHER -> Done(mb)

-----------------------------------------------------------------------------
(* Simulated: a motion event when the motion starts, the host subscribes   *)
(* or a report was sent.                                                   *)

MsInit == [state |-> "IDLE", peers |-> 0, connected |-> FALSE]

generate_motion_event == << [t |-> "motion"] >>

start_motion(ms) ==
  IF ms.state # "IDLE" THEN Done(ms)
  ELSE Emit([ms EXCEPT !.state = "FETCHING"],
            IF ms.connected THEN generate_motion_event ELSE << >>)

stop_motion(ms) == IF ms.state = "FETCHING" THEN [ms EXCEPT !.state = "IDLE"] ELSE ms

simulated_subscription(ms, enabled) ==
  LET n == IF enabled THEN ms.peers + 1 ELSE ms.peers - 1
      m == [ms EXCEPT !.peers = n, !.connected = n # 0]
  IN  Asserts(Emit(m, IF m.connected /\ ~ms.connected /\ ms.state = "FETCHING"
                      THEN generate_motion_event ELSE << >>),
              n >= 0)

motion_simulated_handler(ms, e) ==
  CASE e.t = "subscription" -> simulated_subscription(ms, e.enabled)
    [] e.t = "report_sent" /\ ms.state = "FETCHING" -> Emit(ms, generate_motion_event)
    [] check_state(e, "main", "READY") -> Done([ms EXCEPT !.state = "IDLE"])
    [] e.t = "power_down" -> Done([ms EXCEPT !.state = "SUSPENDED"])
    [] e.t = "wake_up" -> Done([ms EXCEPT !.state = "IDLE"])
    [] OTHER -> Done(ms)
=============================================================================
