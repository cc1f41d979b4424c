-------------------------------- MODULE Leds --------------------------------
(***************************************************************************)
(* The LEDs of nRF Desktop (src/hw_interface/leds.c), what they show       *)
(* (src/modules/led_state.c) and the board's pins                          *)
(* (src/hw_interface/board.c).  An LED event is recorded at any time and   *)
(* carried out only while the driver is on; pwm is what the light does,    *)
(* work the LEDs whose blinking work is pending.                           *)
(***************************************************************************)
EXTENDS DesktopEvents

LedIds == {"peer", "system"}

\* An effect: the mode, and what the colour and the period tell.
Effect(mode, shows) == [mode |-> mode, shows |-> shows]
Dark == Effect("OFF", << >>)

\* led_peer_state_effect and led_system_state_effect of the mouse.
peer_effect(state, id) ==
  Effect(IF state = "CONNECTED" THEN "ON" ELSE "BLINKING", << state, id >>)
system_effect(state) ==
  Effect(IF state = "ERROR" THEN "BLINKING" ELSE "ON", << state >>)

-----------------------------------------------------------------------------
(* The driver.                                                             *)

LedsInit == [on |-> FALSE, rec |-> [l \in LedIds |-> Dark],
             pwm |-> [l \in LedIds |-> Dark], work |-> {}]

led_mode_update(d, l, effect) ==
  CASE effect.mode = "BLINKING" -> [d EXCEPT !.work = d.work \cup {l}]
    [] OTHER -> [d EXCEPT !.work = d.work \ {l}, !.pwm[l] = effect]

\* work_handler() and led_blink(): on, off, and on again.
work_handler(d, l) ==
  Asserts(Done([d EXCEPT !.pwm[l] = IF @ = d.rec[l] THEN Dark ELSE d.rec[l]]),
          d.rec[l].mode = "BLINKING")

leds_start(d) ==
  [led_mode_update(led_mode_update(d, "peer", d.rec["peer"]), "system", d.rec["system"])
     EXCEPT !.on = TRUE]

leds_stop(d) ==
  [led_mode_update(led_mode_update(d, "peer", Dark), "system", Dark) EXCEPT !.on = FALSE]

leds_handler(d, e, fail) ==
  CASE e.t = "led" ->
         LET m == [d EXCEPT !.rec[e.id] = e.effect]
         IN  Done(IF d.on THEN led_mode_update(m, e.id, e.effect) ELSE m)
    [] check_state(e, "main", "READY") ->
         IF fail THEN Emit(d, << module_set_state("leds", "ERROR") >>)
         ELSE Emit(leds_start(d), << module_set_state("leds", "READY") >>)
    [] e.t = "wake_up" /\ ~d.on -> Emit(leds_start(d), << module_set_state("leds", "READY") >>)
    [] e.t = "power_down" /\ d.on -> Emit(leds_stop(d), << module_set_state("leds", "OFF") >>)
    [] OTHER -> Done(d)

-----------------------------------------------------------------------------
(* What they show.                                                         *)

LedStateInit == [system |-> "IDLE", connected |-> FALSE, op |-> "CANCEL", cur |-> 0, tmp |-> 0]

load_peer_state_led(s) ==
  LET state == CASE s.op = "SELECT" -> "CONFIRM_SELECT"
                 [] s.op = "ERASE" -> "CONFIRM_ERASE"
                 [] s.op = "CANCEL" /\ s.connected -> "CONNECTED"
                 [] OTHER -> "DISCONNECTED"
  IN  [t |-> "led", id |-> "peer",
       effect |-> peer_effect(state, IF s.op = "SELECT" THEN s.tmp ELSE s.cur)]

load_system_state_led(s) == [t |-> "led", id |-> "system", effect |-> system_effect(s.system)]

\* An error is shown for good.
set_system_state_led(s, state) ==
  IF s.system = "ERROR" THEN Done(s)
  ELSE LET m == [s EXCEPT !.system = state] IN Emit(m, << load_system_state_led(m) >>)

on_led_peer(s, peer) ==
  LET m == CASE peer \in {"SECURED", "CONNECTED"} -> [s EXCEPT !.connected = TRUE]
             [] peer = "DISCONNECTED" -> [s EXCEPT !.connected = FALSE]
             [] OTHER -> s
  IN  Emit(m, << load_peer_state_led(m) >>)

on_led_operation(s, e) ==
  LET m == CASE e.op = "SELECT" -> [s EXCEPT !.tmp = e.arg, !.op = "SELECT"]
             [] e.op = "ERASE" -> [s EXCEPT !.op = "ERASE"]
             [] e.op = "SELECTED" -> [s EXCEPT !.cur = s.tmp, !.op = "CANCEL"]
             [] OTHER -> [s EXCEPT !.op = "CANCEL"]
  IN  Emit(m, << load_peer_state_led(m) >>)

led_state_handler(s, e) ==
  CASE e.t = "peer" -> on_led_peer(s, e.state)
    [] e.t = "peer_operation" -> on_led_operation(s, e)
    [] e.t = "battery_state" -> set_system_state_led(s, e.state)
    [] check_state(e, "main", "READY") ->
         Emit(s, << load_system_state_led(s), load_peer_state_led(s) >>)
    [] e.t = "module" /\ e.state = "ERROR" -> set_system_state_led(s, "ERROR")
    [] OTHER -> Done(s)

-----------------------------------------------------------------------------
(* The board: on is "initialized"; a pin that cannot be set is an error    *)
(* and the state changes all the same.                                     *)

BoardInit == [on |-> FALSE]

\* ports_setup() of turn_board_on() and turn_board_off().
ports_setup(state, fail) == << module_set_state("board", IF fail THEN "ERROR" ELSE state) >>

board_handler(b, e, fail) ==
  CASE check_state(e, "main", "READY") ->
         Asserts(Emit([on |-> TRUE], ports_setup("READY", fail)), ~b.on)
    [] e.t = "wake_up" /\ ~b.on -> Emit([on |-> TRUE], ports_setup("READY", fail))
    [] e.t = "power_down" /\ b.on -> Emit([on |-> FALSE], ports_setup("OFF", fail))
    [] OTHER -> Done(b)
=============================================================================
