---------------------------- MODULE DesktopDevice ----------------------------
(***************************************************************************)
(* The modules of an nRF Desktop device put together: the event manager    *)
(* hands the events of one queue to the listeners in their order, in the   *)
(* system work queue, where the delayed works run too; interrupts, the     *)
(* thread of the optical sensor and the Bluetooth stack come in between.   *)
(* Which modules a device has, and how it advertises, is its configuration *)
(* (CONFIG_DESKTOP_...), chosen by Init among Devices.                     *)
(*                                                                         *)
(*   m     the state of each module; m.hid is the part of hid_state that   *)
(*         matters here: subscribed, a report under way, more to send      *)
(*   q     the queue of events; those nobody listens to are left out       *)
(*   w     the world: the keys held down, whether the mouse moves, the     *)
(*         charger's pin, USB, the Bluetooth stack and the link; and what  *)
(*         happened in it, for the properties: kept says that another      *)
(*         identity was selected while the peer of the link had not bonded *)
(*         or the device was asleep or falling asleep,                     *)
(*         stranger that a peer is or was refused, missed which inputs     *)
(*         missed the event that would have set them going                 *)
(*   ok    no assertion of the code has failed since the last reset        *)
(***************************************************************************)
EXTENDS PowerManager, Buttons, MotionOptical, MotionSources, Battery, Leds,
        BleAdv, BleBond

CONSTANTS Devices,    \* the configurations, each with its Bluetooth peers and how often
                      \* the world acts on it
          Keys,       \* the keys of the matrix
          Rotations,  \* what the wheel's decoder may measure
          Values      \* values of a setting

VARIABLES cfg, m, q, w, ok

vars == << cfg, m, q, w, ok >>

HidInit == [sub |-> FALSE, busy |-> FALSE, more |-> FALSE]

Boot == [pm |-> PmInit, board |-> BoardInit, buttons |-> ButtonsInit, wheel |-> WheelInit,
         optical |-> MoInit, mbuttons |-> MbInit, simulated |-> MsInit, leds |-> LedsInit,
         battery |-> BattInit, bas |-> BasInit, bond |-> BondInit, adv |-> AdvInit,
         config |-> ConfigInit, led_state |-> LedStateInit, hid |-> HidInit]

main == << module_set_state("main", "READY") >>

Init ==
  /\ cfg \in Devices
  /\ m = Boot
  /\ q = main
  /\ w = [pressed |-> {}, moving |-> FALSE, pin |-> 1, usb |-> FALSE, bt |-> "off",
          link |-> NoLink, peer |-> NoPeer, secured |-> FALSE, sub |-> FALSE,
          kept |-> FALSE, stranger |-> {}, missed |-> {}, left |-> cfg.stimuli]
  /\ ok = TRUE

Has(x) == x \in cfg.mods
On == m.pm.state # "OFF"

-----------------------------------------------------------------------------
(* Delivery of an event.                                                   *)

\* The listeners by priority, and by the order of linking within one.
Subscribers(e) ==
  CASE e.t = "module" -> << "board", "optical", "mbuttons", "simulated", "buttons", "wheel",
                            "leds", "battery", "bond", "adv", "config", "led_state", "pm", "bas" >>
    [] e.t = "wake_up" -> << "board", "optical", "simulated", "buttons", "wheel", "leds",
                             "battery", "adv", "pm" >>
    [] e.t = "power_down" -> << "optical", "mbuttons", "buttons", "wheel", "battery",
                                "board", "simulated", "leds", "adv", "pm" >>
    [] e.t = "peer" -> << "adv", "led_state", "pm" >>
    [] e.t = "peer_operation" -> << "adv", "led_state" >>
    [] e.t = "button" -> << "bond", "hid" >>
    [] e.t \in {"motion", "wheel"} -> << "hid" >>
    [] e.t \in {"subscription", "report_sent"} -> << "optical", "simulated", "hid" >>
    [] e.t = "led" -> << "leds" >>
    [] e.t = "battery_state" -> << "led_state" >>
    [] e.t = "battery_level" -> << "bas" >>
    [] e.t = "usb" -> << "battery", "pm" >>
    [] e.t = "config" -> << "optical", "config" >>
    [] OTHER -> << "pm" >>

Listeners(e) == SelectSeq(Subscribers(e), Has)

\* Modules whose READY the settings wait for.
req_modules == {"main"} \cup (IF Has("adv") THEN {"ble_adv"} ELSE {})
                        \cup (IF Has("bas") THEN {"bas"} ELSE {})
                        \cup (IF Has("optical") THEN {"motion"} ELSE {})

\* A READY that only announces itself is not kept in the queue.
Heard(e) ==
  /\ e.t = "module" /\ e.state = "READY" =>
        e.id \in req_modules \cup {"ble_state", "ble_bond", "config"}
                             \cup (IF Has("mbuttons") THEN {"board"} ELSE {})
  /\ Listeners(e) # << >>

World(mm, fail) ==
  [fast |-> cfg.fast, swift |-> cfg.swift, direct |-> cfg.direct, link |-> w.link,
   bonds |-> {i \in DOMAIN mm.bond.bonds : mm.bond.bonds[i] # NoPeer}, fail |-> fail]

\* hid_state: an input is reported to a subscribed host, one report at a time.
hid_handler(h, e) ==
  LET report == << [t |-> "hid_mouse"] >>
  IN  CASE e.t \in {"motion", "wheel", "button"} /\ h.sub /\ ~h.busy ->
             Emit([h EXCEPT !.busy = TRUE], report)
        [] e.t \in {"motion", "wheel", "button"} /\ h.sub /\ h.busy ->
             Done([h EXCEPT !.more = TRUE])
        [] e.t = "report_sent" /\ h.more -> Emit([h EXCEPT !.more = FALSE], report)
        [] e.t = "report_sent" /\ ~h.more -> Done([h EXCEPT !.busy = FALSE])
        [] e.t = "subscription" -> Done([HidInit EXCEPT !.sub = e.enabled])
        [] OTHER -> Done(h)

\* What may fail in module l: one of its calls, by name where it matters which.
Failures(l) ==
  CASE cfg.fault # l \/ l = "none" -> {"none"}
    [] cfg.fault = l /\ l = "buttons" -> {"none"} \cup ButtonCalls
    [] OTHER -> {"none", "early", "late"}

\* What a listener does; f and short are the choices of the world.
Listens(l, mm, e, f, short) ==
  LET fail == IF cfg.fault = l THEN f ELSE "none"
      bad == fail # "none"
  IN  CASE l = "pm" -> pm_handler(mm.pm, e)
        [] l = "board" -> board_handler(mm.board, e, bad)
        [] l = "buttons" -> buttons_handler(mm.buttons, e, w.pressed, fail)
        [] l = "wheel" -> wheel_handler(mm.wheel, e, bad)
        [] l = "optical" -> optical_handler(mm.optical, e)
        [] l = "mbuttons" -> motion_buttons_handler(mm.mbuttons, e)
        [] l = "simulated" -> motion_simulated_handler(mm.simulated, e)
        [] l = "leds" -> leds_handler(mm.leds, e, bad)
        [] l = "battery" -> battery_handler(mm.battery, e, fail)
        [] l = "bas" -> bas_handler(mm.bas, e)
        [] l = "bond" -> bond_handler(mm.bond, e, short)
        [] l = "adv" -> adv_handler(mm.adv, e, World(mm, IF bad THEN "start" ELSE "none"))
        [] l = "config" -> config_handler(mm.config, e, req_modules)
        [] l = "led_state" -> led_state_handler(mm.led_state, e)
        [] OTHER -> hid_handler(mm.hid, e)

Delivered(e, fail, short) ==
  LET listen(acc, l) ==
        LET r == Listens(l, acc.m, e, fail, short)
        IN  IF acc.eat THEN acc
            ELSE [m |-> [acc.m EXCEPT ![l] = r.m], out |-> acc.out \o r.out,
                  eat |-> r.eat, bad |-> acc.bad \/ r.bad]
  IN  FoldLeft(listen, [m |-> m, out |-> << >>, eat |-> FALSE, bad |-> FALSE], Listeners(e))

Submitted(out) == q \o SelectSeq(out, Heard)

\* A step of module l with the result r.
Step(l, r) ==
  /\ m' = [m EXCEPT ![l] = r.m]
  /\ q' = Submitted(r.out)
  /\ ok' = (ok /\ ~r.bad)

Fails(l) == IF cfg.fault = l THEN BOOLEAN ELSE {FALSE}

\* The inputs that an event finds in a state in which it does not help: the
\* sensor fetching for a host that subscribes only now; motion buttons that
\* have stopped or still do when the board, which is to start them, is still
\* on or already up, and those that a power-down stops after the wake-up.
Misses(e) ==
  {l \in {"optical", "mbuttons"} :
     CASE l = "optical" -> e.t = "subscription" /\ m.optical.state = "FETCHING"
       [] OTHER -> \/ e.t = "wake_up" /\ m.board.on /\ m.mbuttons.state # "ACTIVE"
                   \/ check_state(e, "board", "READY") /\ m.mbuttons.state = "TERMINATING"
                   \/ e.t = "power_down" /\ m.pm.state = "IDLE"}

\* Those that are set going by another one.
Going(mm) ==
  {l \in {"optical", "mbuttons"} :
     CASE l = "optical" -> mm.optical.state # "FETCHING" \/ mm.optical.sample
       [] OTHER -> mm.mbuttons.state = "ACTIVE"}

\* One event; the stack drops the link of a bond that was erased.
ProcessEvent ==
  /\ On /\ q # << >>
  /\ \E fail \in Failures(cfg.fault),
        short \in (IF Head(q).t = "button" /\ Has("bond") THEN BOOLEAN ELSE {TRUE}) :
       LET d == Delivered(Head(q), fail, short)
           gone == w.link # NoLink /\ m.bond.bonds[w.link] # d.m.bond.bonds[w.link]
       IN  /\ m' = [d.m EXCEPT !.adv.hangup = @ \/ gone]
           /\ q' = Tail(q) \o SelectSeq(d.out, Heard)
           /\ ok' = (ok /\ ~d.bad)
           /\ w' = [w EXCEPT !.bt = IF check_state(Head(q), "main", "READY") THEN "starting" ELSE @,
                            !.kept = @ \/ /\ d.m.adv.id # m.adv.id /\ w.link = m.adv.id
                                          /\ \/ m.bond.bonds[w.link] = NoPeer
                                             \/ m.adv.state \in {"OFF", "GRACE_PERIOD"},
                            !.missed = (@ \cup Misses(Head(q))) \ Going(d.m)]
           /\ cfg' = cfg

-----------------------------------------------------------------------------
(* Works of the system work queue.  A delay of half a second or more is    *)
(* long for a queue of events: such a work runs when the queue is empty,   *)
(* the power manager's when the device has started, too.                   *)

Quiet == q = << >>
Started == w.bt = "ready" /\ (Has("bond") => m.bond.init)

PowerDownWork ==
  /\ On /\ m.pm.work /\ Quiet /\ Started
  /\ Step("pm", power_down(m.pm)) /\ UNCHANGED << cfg, w >>

MatrixScan ==
  /\ On /\ m.buttons.work
  /\ \E fail \in Failures("buttons") : Step("buttons", scan_fn(m.buttons, w.pressed, fail))
  /\ UNCHANGED << cfg, w >>

LedWork ==
  /\ On /\ Quiet
  /\ \E l \in m.leds.work : Step("leds", work_handler(m.leds, l))
  /\ UNCHANGED << cfg, w >>

BatteryWork ==
  /\ On
  /\ \/ /\ m.battery.work /\ (m.battery.active => Quiet)
        /\ \E fail \in Fails("battery") : Step("battery", battery_lvl_read_fn(m.battery, fail))
     \/ m.battery.chk /\ Quiet /\ Step("battery", error_check_handler(m.battery, w.pin))
  /\ UNCHANGED << cfg, w >>

AdvWork ==
  /\ On /\ Quiet
  /\ \E fail \in (IF cfg.fault = "adv" THEN {"none", "stop", "start"} ELSE {"none"}) :
       \/ m.adv.upd /\ Step("adv", ble_adv_update_fn(m.adv, World(m, fail)))
       \/ m.adv.grace /\ Step("adv", sp_grace_period_fn(m.adv, World(m, fail)))
  /\ UNCHANGED << cfg, w >>

\* Ten seconds, half a second, and five seconds, in which the half is over.
BondWork ==
  /\ On /\ Quiet
  /\ \/ m.bond.timeout /\ Step("bond", timeout_handler(m.bond))
     \/ m.bond.single /\ Step("bond", single_click_handler(m.bond))
     \/ m.bond.long /\ ~m.bond.single /\ Step("bond", long_click_handler(m.bond))
  /\ UNCHANGED << cfg, w >>

MotionWork ==
  /\ On
  /\ \/ "init" \in m.mbuttons.todo /\ Step("mbuttons", async_init_fn(m.mbuttons))
     \/ m.mbuttons.todo = {"term"} /\ Step("mbuttons", async_term_fn(m.mbuttons))
  /\ UNCHANGED << cfg, w >>

-----------------------------------------------------------------------------
(* The thread of the optical sensor.                                       *)

ThreadInit ==
  /\ On /\ m.optical.pc = "init"
  /\ \E outcome \in (IF cfg.fault = "optical" THEN {"ok", "io", "id"} ELSE {"ok"}) :
       Step("optical", thread_init(m.optical, outcome))
  /\ UNCHANGED << cfg, w >>

ThreadTake ==
  /\ On /\ CanTake(m.optical)
  /\ \E fail \in Fails("optical") : Step("optical", thread_take(m.optical, fail))
  /\ UNCHANGED << cfg, w >>

ThreadRead ==
  /\ On /\ m.optical.pc = "read"
  /\ \E fail \in Fails("optical") : Step("optical", motion_read(m.optical, w.moving, fail))
  /\ UNCHANGED << cfg, w >>

ThreadAfter ==
  /\ On /\ m.optical.pc = "after"
  /\ Step("optical", thread_after(m.optical)) /\ UNCHANGED << cfg, w >>

-----------------------------------------------------------------------------
(* Interrupts.                                                             *)

Interrupt ==
  /\ On
  /\ \/ m.buttons.cb /\ w.pressed # {} /\ Step("buttons", button_pressed(m.buttons))
     \/ m.optical.cb /\ w.moving /\ Step("optical", irq_handler(m.optical))
     \/ m.battery.adc /\ Step("battery", Done(adc_done(m.battery)))
  /\ UNCHANGED << cfg, w >>

-----------------------------------------------------------------------------
(* The world, cfg.stimuli times.  The user lets go of a key and stops       *)
(* moving, and a peer leaves, as often as it comes.                        *)

Stimulus == On /\ w.left > 0 /\ cfg' = cfg

User ==
  \/ /\ Stimulus /\ Has("buttons") /\ (Has("bond") => m.bond.init)
     /\ \E k \in Keys \ w.pressed :
          w' = [w EXCEPT !.pressed = @ \cup {k}, !.left = @ - 1]
     /\ UNCHANGED << m, q, ok >>
  \/ /\ On /\ \E k \in w.pressed : w' = [w EXCEPT !.pressed = @ \ {k}]
     /\ UNCHANGED << cfg, m, q, ok >>
  \/ /\ Stimulus /\ Has("optical") /\ ~w.moving
     /\ w' = [w EXCEPT !.moving = TRUE, !.left = @ - 1] /\ UNCHANGED << m, q, ok >>
  \/ /\ On /\ w.moving /\ w' = [w EXCEPT !.moving = FALSE]
     /\ UNCHANGED << cfg, m, q, ok >>
  \/ /\ Stimulus /\ Has("wheel") /\ w' = [w EXCEPT !.left = @ - 1]
     /\ \E fail \in Fails("wheel") :
          \/ m.wheel.trig /\ \E v \in Rotations :
                Step("wheel", data_ready_handler(m.wheel, v, fail))
          \/ m.wheel.int /\ Step("wheel", wakeup_cb(m.wheel, fail))
  \/ /\ Stimulus /\ m.mbuttons.on /\ w' = [w EXCEPT !.left = @ - 1]
     /\ Step("mbuttons", motion_button_pressed(m.mbuttons))
  \/ /\ Stimulus /\ Has("simulated") /\ w' = [w EXCEPT !.left = @ - 1]
     /\ \/ Step("simulated", start_motion(m.simulated))
        \/ Step("simulated", Done(stop_motion(m.simulated)))

\* USB is plugged and unplugged (usb_state.c), the charger's pin changes.
Cable ==
  \/ /\ Stimulus /\ Has("usb") /\ w.bt = "ready"
     /\ w' = [w EXCEPT !.usb = ~@, !.left = @ - 1]
     /\ q' = Submitted(<< [t |-> "usb", state |-> IF w.usb THEN "DISCONNECTED" ELSE "POWERED"] >>)
     /\ UNCHANGED << m, ok >>
  \/ /\ Stimulus /\ m.battery.cb
     /\ w' = [w EXCEPT !.pin = 1 - @, !.left = @ - 1]
     /\ Step("battery", Done(cs_change(m.battery)))

-----------------------------------------------------------------------------
(* The Bluetooth stack and ble_state.c.                                    *)

BtReady ==
  /\ On /\ w.bt = "starting"
  /\ w' = [w EXCEPT !.bt = "ready"]
  /\ q' = Submitted(<< module_set_state("ble_state", "READY") >>)
  /\ UNCHANGED << cfg, m, ok >>

peer_event(state) == [t |-> "peer", state |-> state]

\* connected(): an identity with a bond is for that peer only; the link of
\* another one is cut without having been announced.
connected(p) ==
  LET bond == m.bond.bonds[m.adv.id]
      stranger == bond # NoPeer /\ bond # p
  IN  /\ w' = [w EXCEPT !.link = m.adv.id, !.peer = p, !.secured = FALSE, !.left = @ - 1,
                       !.stranger = IF stranger THEN @ \cup {"linked"} ELSE @]
      /\ m' = [m EXCEPT !.adv.radio = "none", !.adv.hangup = stranger]
      /\ q' = IF stranger THEN q ELSE Submitted(<< peer_event("CONNECTED") >>)
      /\ UNCHANGED << cfg, ok >>

PeerConnects ==
  /\ Stimulus /\ w.link = NoLink /\ m.adv.radio # "none"
  /\ \E p \in cfg.peers :
       /\ m.adv.radio = "dir" => m.bond.bonds[m.adv.id] = p
       /\ connected(p)

\* Directed advertising of high duty ends by itself.
ConnectFails ==
  /\ On /\ m.adv.radio = "dir" /\ cfg.fast
  /\ m' = [m EXCEPT !.adv.radio = "none"]
  /\ q' = Submitted(<< peer_event("CONN_FAILED") >>)
  /\ UNCHANGED << cfg, w, ok >>

security_changed ==
  /\ On /\ w.link # NoLink /\ ~w.secured /\ ~m.adv.hangup
  /\ w' = [w EXCEPT !.secured = TRUE]
  /\ m' = [m EXCEPT !.bond.bonds[w.link] = w.peer]
  /\ q' = Submitted(<< peer_event("SECURED") >>)
  /\ UNCHANGED << cfg, ok >>

Subscription(enabled) == [t |-> "subscription", enabled |-> enabled]

disconnected ==
  /\ On /\ w.link # NoLink
  /\ w' = [w EXCEPT !.link = NoLink, !.peer = NoPeer, !.secured = FALSE, !.sub = FALSE,
                   !.kept = FALSE, !.stranger = IF "linked" \in @ THEN {"left"} ELSE @]
  /\ m' = [m EXCEPT !.adv.hangup = FALSE, !.bas.active = FALSE]
  /\ q' = Submitted((IF w.sub THEN << Subscription(FALSE) >> ELSE << >>)
                     \o << peer_event("DISCONNECTED") >>)
  /\ UNCHANGED << cfg, ok >>

\* The host subscribes to the mouse or to the battery, takes a report, or
\* sends a setting.
Host ==
  /\ w.secured /\ Stimulus
  /\ \/ /\ Has("hid") /\ ~w.sub /\ w' = [w EXCEPT !.sub = TRUE, !.left = @ - 1]
        /\ q' = Submitted(<< Subscription(TRUE) >>) /\ UNCHANGED << m, ok >>
     \/ /\ Has("bas") /\ w' = [w EXCEPT !.left = @ - 1] 
        /\ m' = [m EXCEPT !.bas = blvl_ccc_cfg_changed(m.bas, TRUE)]
        /\ UNCHANGED << q, ok >>
     \/ /\ Has("optical") /\ w' = [w EXCEPT !.left = @ - 1] /\ UNCHANGED << m, ok >>
        /\ \E s \in Settings, v \in Values :
             q' = Submitted(<< [t |-> "config", id |-> s, value |-> v, store |-> TRUE] >>)

ReportSent ==
  /\ On /\ m.hid.busy /\ [t |-> "report_sent"] \notin Range(q)
  /\ q' = Submitted(<< [t |-> "report_sent"] >>)
  /\ UNCHANGED << cfg, m, w, ok >>

-----------------------------------------------------------------------------
(* System off is left by a reset, when a pin that is armed, or USB, wakes  *)
(* the chip: everything but the bonds and the settings starts again, and   *)
(* the USB stack says anew whether there is a cable.                       *)

Armed ==
  \/ m.buttons.cb /\ w.pressed # {}
  \/ m.optical.cb /\ w.moving
  \/ m.wheel.int
  \/ w.usb

Reset ==
  /\ ~On /\ w.left > 0 /\ Armed
  /\ m' = [Boot EXCEPT !.bond.bonds = m.bond.bonds, !.config.stored = m.config.stored]
  /\ q' = main
  /\ w' = [w EXCEPT !.bt = "off", !.usb = FALSE, !.link = NoLink, !.peer = NoPeer,
                   !.secured = FALSE, !.sub = FALSE, !.kept = FALSE, !.stranger = {},
                   !.missed = {}, !.left = @ - 1]
  /\ ok' = TRUE
  /\ cfg' = cfg

\* The device sleeps and the world goes on.
UserWhenOff ==
  /\ ~On /\ w.left > 0
  /\ \/ Has("buttons") /\ w.pressed = {} /\ \E k \in Keys : w' = [w EXCEPT !.pressed = {k}, !.left = @ - 1]
     \/ Has("optical") /\ ~w.moving /\ w' = [w EXCEPT !.moving = TRUE, !.left = @ - 1]
  /\ UNCHANGED << cfg, m, q, ok >>

Works == PowerDownWork \/ MatrixScan \/ LedWork \/ BatteryWork \/ AdvWork \/ BondWork \/ MotionWork
Thread == ThreadInit \/ ThreadTake \/ ThreadRead \/ ThreadAfter
Bluetooth == BtReady \/ PeerConnects \/ ConnectFails \/ security_changed \/ disconnected

Next == ProcessEvent \/ Works \/ Thread \/ Interrupt \/ User \/ Cable \/ Bluetooth \/ Host
        \/ ReportSent \/ Reset \/ UserWhenOff

Spec == Init /\ [][Next]_vars

-----------------------------------------------------------------------------
(* Properties.                                                             *)

WakeUpComes == wake_up_event \in Range(q)

\* The power manager sleeps only when every module has stopped: the event
\* that reaches it was swallowed by none (the return values of the
\* handlers of power_down_event).  Where a refused peer has upset its count
\* of connections, it may turn off as the next one connects.
SleepsStopped ==
  m.pm.state \in {"SUSPENDED", "OFF"} =>
    /\ ~m.pm.work \/ WakeUpComes
    /\ Has("buttons") => m.buttons.state = "IDLE" /\ ~m.buttons.work
    /\ Has("wheel") => ~m.wheel.active
    /\ Has("optical") => m.optical.state \in {"SUSPENDED", "DISABLED"}
    /\ Has("mbuttons") => m.mbuttons.state = "IDLE" /\ ~m.mbuttons.on
    /\ Has("battery") => ~m.battery.sampling /\ ~m.battery.pend /\ ~m.battery.work
    /\ Has("adv") /\ "left" \notin w.stranger =>
         m.adv.state = "OFF" /\ m.adv.radio = "none" /\ ~m.adv.upd /\ ~m.adv.grace
    /\ Has("leds") => ~m.leds.on /\ m.leds.work = {} /\ \A l \in LedIds : m.leds.pwm[l] = Dark
    /\ ~m.board.on

\* The sensor is asked for a sample, or a report that asks for one will end.
SamplesGoOn ==
  \/ m.optical.sample \/ m.optical.smp
  \/ [t |-> "motion"] \in Range(q) \/ [t |-> "report_sent"] \in Range(q)
  \/ m.hid.busy

\* No input goes deaf: its interrupt is enabled, or the work that looks at
\* it is pending, or the wake-up is on its way (callback_ctrl of the
\* buttons, wakeup_int_ctrl of the wheel, the pin of the sensor and its
\* samples, the works of the motion buttons).  Those the code does leave
\* deaf are named: one whose wake-up is in the queue when the manager
\* switches off, which then comes no more; the sensor if it is powered down
\* while a read finds nothing, which ends its thread, or was fetching when
\* a host subscribed; motion buttons woken while they stop, or stopped by a
\* power-down that comes after the wake-up; and those whose driver fails.
NeverDeaf ==
  /\ Has("buttons") /\ m.buttons.init /\ cfg.fault # "buttons" =>
       CASE m.buttons.state = "ACTIVE" -> m.buttons.cb
         [] m.buttons.state = "IDLE" -> m.buttons.cb \/ WakeUpComes
         [] OTHER -> m.buttons.work
  /\ m.wheel.init /\ cfg.fault # "wheel" => m.wheel.active \/ m.wheel.int \/ WakeUpComes
  /\ m.optical.state = "IDLE" => m.optical.cb
  /\ m.optical.state = "SUSPENDED" => m.optical.cb \/ WakeUpComes
  /\ m.optical.pc = "dead" => cfg.fault = "optical" \/ m.optical.err = "ENODATA"
  /\ m.optical.state = "FETCHING" /\ m.optical.connected /\ m.optical.pc # "dead" =>
       SamplesGoOn \/ "optical" \in w.missed
  /\ Has("mbuttons") /\ Quiet /\ m.pm.state = "IDLE" =>
       m.mbuttons.on \/ "init" \in m.mbuttons.todo \/ "mbuttons" \in w.missed

\* When all events are handled the button, the advertising and the LED mean
\* the same peer and the same operation, and the link of a peer that is no
\* longer selected is being given up (ble_bond.c, ble_adv.c, led_state.c).
\* Two links are kept: one whose peer had not bonded yet when another was
\* selected, and one that was selected away by a click that the power-down
\* has overtaken, when the advertising is off.
PeersAgree ==
  Quiet /\ Has("bond") /\ m.bond.init =>
    /\ Has("adv") =>
         /\ m.adv.id = m.bond.cur
         /\ w.link \in {NoLink, m.bond.cur} \/ m.adv.hangup \/ w.kept
    /\ Has("led_state") =>
         /\ m.led_state.cur = m.bond.cur
         /\ m.led_state.op = (IF m.bond.state = "IDLE" THEN "CANCEL" ELSE m.bond.state)
         /\ m.bond.state = "SELECT" => m.led_state.tmp = m.bond.tmp
         /\ m.leds.on => m.leds.rec["peer"] = load_peer_state_led(m.led_state).effect
    /\ (m.bond.state # "IDLE") = m.bond.timeout


\* While the power manager waits for the modules, one that swallowed the
\* power_down_event still has something under way that ends with a state
\* event, so that the manager asks again (MODULE_STATE_OFF and STANDBY).
\* A device with Swift Pair is left out: a peer that connects in the grace
\* period cancels it, and the manager waits for ever.
PowerDownGoesOn ==
  Quiet /\ m.pm.state = "SUSPENDING" /\ cfg.fault = "none" /\ ~cfg.swift =>
    \/ Has("buttons") /\ m.buttons.state = "SUSPENDING" /\ m.buttons.work
    \/ Has("mbuttons") /\ "term" \in m.mbuttons.todo
    \/ Has("battery") /\ ~m.battery.active /\ m.battery.sampling /\ m.battery.work
    \/ Has("optical") /\ m.optical.pc = "init"

=============================================================================
