---------------------------- MODULE MotionOptical ----------------------------
(***************************************************************************)
(* The optical motion sensor of nRF Desktop                                *)
(* (src/hw_interface/motion_optical.c): a preemptible thread that talks to *)
(* the sensor over SPI, the interrupt of its motion pin, and the handler   *)
(* of events, which runs in the system work queue and preempts the thread. *)
(* The thread waits for the semaphore, for half a second or for ever;      *)
(* writes the settings that changed; decides under the lock whether to     *)
(* sample; reads the sensor without the lock; and looks at the state       *)
(* again.                                                                  *)
(*                                                                         *)
(*   cb     the callback of the motion pin is enabled                      *)
(*   pc     where the thread is; smp and err are its locals, timed is its  *)
(*          timeout                                                        *)
(*   cfg    the settings asked for (sensor_cpi and the others)             *)
(*   opt    the thread's options, reg the registers of the sensor          *)
(*   burst  last_read_burst                                                *)
(***************************************************************************)
EXTENDS DesktopEvents

CONSTANTS NodataLimit,   \* NODATA_LIMIT
          Settings,      \* the resolution and the downshift times
          Default,       \* their initial values
          InRange        \* the values the sensor accepts

MoInit ==
  [state |-> "DISABLED", connected |-> FALSE, peers |-> 0, sample |-> FALSE,
   sem |-> 1, cb |-> FALSE, pc |-> "none", smp |-> FALSE, err |-> "OK",
   timed |-> TRUE, nodata |-> 0, burst |-> FALSE,
   cfg |-> [s \in Settings |-> Default], opt |-> [s \in Settings |-> Default],
   reg |-> [s \in Settings |-> 0], init |-> FALSE]

Gives(mo) == [mo EXCEPT !.sem = 1]

-----------------------------------------------------------------------------
(* The thread.                                                             *)

\* reg_read(), reg_write() and burst_write() end a burst of reads.
EndsBurst(mo) == [mo EXCEPT !.burst = FALSE]

\* motion_burst_read(): the burst register is written when the last access
\* was another one.
motion_burst_read(mo) == [mo EXCEPT !.burst = TRUE]

\* update_cpi() and update_downshift_time(): out of range is ignored.
Written(reg, s, v) == IF v \in InRange THEN [reg EXCEPT ![s] = v] ELSE reg

\* firmware_load(): it fails on the bus, or with another firmware id.
firmware_load(outcome) == outcome # "io"

\* init(): a wrong product id is an error for the module and none for the
\* thread.
thread_init(mo, outcome) ==
  LET set == EndsBurst([mo EXCEPT !.pc = "wait", !.reg = mo.opt, !.cfg = mo.opt])
      error == module_set_state("motion", "ERROR")
  IN  CASE ~firmware_load(outcome) -> Emit([mo EXCEPT !.pc = "dead"], << error, error >>)
        [] outcome = "id" -> Emit(set, << error >>)
        [] OTHER -> Emit([set EXCEPT !.state = "IDLE", !.cb = TRUE],
                         << module_set_state("motion", "READY") >>)

\* write_config(): what differs from the thread's options is written; a
\* write that fails is reported and not tried again.
write_config(mo, fail) ==
  LET changed == {s \in Settings : mo.cfg[s] # mo.opt[s]}
      c == [mo EXCEPT !.opt = mo.cfg,
              !.reg = [s \in Settings |->
                         IF s \in changed /\ ~fail THEN Written(mo.reg, s, mo.cfg[s])[s]
                         ELSE mo.reg[s]]]
      tried == \E s \in changed : mo.cfg[s] \in InRange
  IN  Emit(IF tried THEN EndsBurst(c) ELSE c,
           IF tried /\ fail THEN << module_set_state("motion", "ERROR") >> ELSE << >>)

CanTake(mo) == mo.pc = "wait" /\ (mo.sem = 1 \/ mo.timed)

\* From k_sem_take() to the decision under the lock.
thread_take(mo, fail) ==
  LET r == write_config([mo EXCEPT !.sem = 0], fail)
      sample == r.m.state = "FETCHING" /\ r.m.connected /\ r.m.sample
  IN  [r EXCEPT !.m.pc = "read", !.m.smp = sample, !.m.sample = FALSE]

\* motion_read(): too many reads without motion end the sampling.
motion_read(mo, moved, fail) ==
  LET r == [motion_burst_read(mo) EXCEPT !.pc = "after"]
      event == << [t |-> "motion"] >>
  IN  CASE fail -> Done([r EXCEPT !.err = "EIO"])
        [] ~fail /\ ~mo.smp -> Done([r EXCEPT !.err = "OK"])
        [] ~fail /\ mo.smp /\ moved -> Emit([r EXCEPT !.err = "OK", !.nodata = 0], event)
        [] ~fail /\ mo.smp /\ ~moved /\ mo.nodata < NodataLimit ->
             Emit([r EXCEPT !.err = "OK", !.nodata = mo.nodata + 1], event)
        [] OTHER -> Done([r EXCEPT !.err = "ENODATA", !.nodata = 0])

\* The second look under the lock, and the condition of the loop.
thread_after(mo) ==
  LET idle == mo.smp /\ mo.state = "FETCHING" /\ mo.err = "ENODATA"
      r == IF idle THEN [mo EXCEPT !.state = "IDLE", !.cb = TRUE, !.err = "OK"] ELSE mo
  IN  IF r.err # "OK"
      THEN Emit([r EXCEPT !.pc = "dead"], << module_set_state("motion", "ERROR") >>)
      ELSE Done([r EXCEPT !.pc = "wait", !.timed = ~mo.smp, !.smp = FALSE])

-----------------------------------------------------------------------------
(* The interrupt and the events.                                           *)

irq_handler(mo) ==
  LET m == [mo EXCEPT !.cb = FALSE]
  IN  CASE mo.state = "IDLE" ->
             Done(Gives([m EXCEPT !.state = "FETCHING", !.sample = TRUE]))
        [] mo.state = "SUSPENDED" -> Emit(m, << wake_up_event >>)
        [] OTHER -> Asserts(Done(m), FALSE)

on_subscription(mo, enabled) ==
  LET n == IF enabled THEN mo.peers + 1 ELSE mo.peers - 1
  IN  Asserts(Done([mo EXCEPT !.peers = n, !.connected = n # 0]), n >= 0)

on_optical_wake_up(mo) ==
  IF mo.state # "SUSPENDED" THEN Done(mo)
  ELSE Emit(Gives([mo EXCEPT !.cb = FALSE, !.state = "FETCHING", !.sample = TRUE]),
            << module_set_state("motion", "READY") >>)

SuspendsDeaf(mo) ==
  CASE mo.state \in {"FETCHING", "IDLE"} ->
         Emit([mo EXCEPT !.state = "SUSPENDED"], << module_set_state("motion", "STANDBY") >>)
    [] mo.state = "SUSPENDED" -> Done(mo)
    [] OTHER -> Eats(Done(mo), TRUE)

on_optical_power_down(mo) ==
  CASE mo.state \in {"FETCHING", "IDLE"} ->
         Emit([mo EXCEPT !.cb = TRUE, !.state = "SUSPENDED"],
              << module_set_state("motion", "STANDBY") >>)
    [] mo.state = "SUSPENDED" -> Done(mo)
    [] OTHER -> Eats(Done(mo), TRUE)

update_config(mo, s, v) == Gives([mo EXCEPT !.cfg[s] = v])

optical_handler(mo, e) ==
  CASE e.t = "report_sent" ->
         Done(IF mo.state = "FETCHING" THEN Gives([mo EXCEPT !.sample = TRUE]) ELSE mo)
    [] e.t = "subscription" -> on_subscription(mo, e.enabled)
    [] check_state(e, "main", "READY") ->
         Asserts(Done([mo EXCEPT !.init = TRUE, !.pc = "init"]), ~mo.init)
    [] e.t = "wake_up" -> on_optical_wake_up(mo)
    [] e.t = "power_down" -> on_optical_power_down(mo)
    [] e.t = "config" -> Done(update_config(mo, e.id, e.value))
    [] OTHER -> Done(mo)
=============================================================================
