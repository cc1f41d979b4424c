----------------------------- MODULE HidCentral -----------------------------
(***************************************************************************)
(* Two applications on top of the scanning library, the discovery manager  *)
(* and the HID client:                                                     *)
(*   "dongle"  the nRF desktop dongle: modules/ble_scan.c, hid_forward.c,  *)
(*             usb_state.c and ble_state.c, which talk through the queue   *)
(*             of the event manager and forward mouse reports and          *)
(*             configuration between a USB host and a Bluetooth mouse;     *)
(*   "sample"  samples/bluetooth/central_hids, which does everything in    *)
(*             the callbacks of the stack and a work item.                 *)
(* Callbacks of the stack, events and work items are cooperative: each is  *)
(* one step.                                                               *)
(*                                                                         *)
(* Assumed of the stack, which is not in this repository: on link loss it  *)
(* first ends the requests under way with an error (a discovery with no    *)
(* connection), forgets the subscriptions, and then calls disconnected();  *)
(* it reports the security of a connection once; a connection takes longer *)
(* to come up than the queued events to be handled; a bus reset keeps or   *)
(* clears the report in the endpoint, and no callback comes for a cleared  *)
(* one.  A write to a null pointer or a block freed that never was one is  *)
(* a fatal error: the device takes no further step.                        *)
(***************************************************************************)
EXTENDS Scan, HidsClient

CONSTANTS
  Apps,        \* the applications to check
  Peers,       \* peers: [addr, adv, hids, chars, fits]
  ShortName,   \* DEVICE_NAME, as a name
  MaxLinks,    \* bound: connections
  MaxFailures, \* bound: calls into the stack that fail
  MaxUsb,      \* bound: changes of the USB state
  MaxConfigs   \* bound: configuration requests of the USB host

VARIABLES
  app,
  scan, scanning, \* scan.c: bt_scan, and whether the stack scans
  link, peer,     \* the connection, and who is or was last at its other end
  bonded,         \* address of the bonded peer, or NoAddr
  dm,             \* gatt_dm.c: bt_gatt_dm_inst
  hidc, used,     \* the HID client and the blocks used of its slab
  att,            \* requests on reports given to the stack: <<"write"|"read", r>>
  queue,          \* dongle: the queue of the event manager
  fwd,            \* dongle: static variables of hid_forward.c
  usb,            \* dongle: [state, before_suspend, endpoint] of usb_state.c
  forward_status, \* dongle: usb_state.c
  ready_work,     \* sample: hids_ready_work is pending
  default_conn,   \* sample: default_conn # NULL
  budget,         \* what is left of the bounds
  seen            \* auxiliary: failures and losses that explain a state

btVars == <<scan, scanning, link, peer, bonded, dm, hidc, used, att>>
usbVars == <<fwd, usb, forward_status>>
sampleVars == <<ready_work, default_conn>>
vars == <<app, btVars, queue, usbVars, sampleVars, budget, seen>>

NoAddr == "none"
NoPeer == [addr |-> NoAddr]

Init ==
  /\ app \in Apps
  /\ scan = bt_scan_init(FALSE) /\ scanning = FALSE
  /\ link = "down" /\ peer = NoPeer /\ bonded = NoAddr
  /\ dm = DmInit /\ hidc = HcInit /\ used = 0 /\ att = {}
  /\ queue = IF app = "dongle" THEN <<[type |-> "ble_state_ready"], [type |-> "ble_bond_ready"]>>
             ELSE << >>
  /\ fwd = [usb_id |-> FALSE, usb_ready |-> FALSE, usb_busy |-> FALSE, next_event |-> FALSE]
  /\ usb = [state |-> "DISCONNECTED", before_suspend |-> "DISCONNECTED", endpoint |-> 0]
  /\ forward_status = "SUCCESS"
  /\ ready_work = FALSE /\ default_conn = FALSE
  /\ budget = [links |-> MaxLinks, failures |-> MaxFailures, usb |-> MaxUsb,
               configs |-> MaxConfigs]
  /\ seen = [failed |-> FALSE, conn_failed |-> FALSE, dropped |-> FALSE]

-----------------------------------------------------------------------------
(* Calls into the stack may fail, within the budget.                       *)

MayFail == IF budget.failures > 0 THEN BOOLEAN ELSE {FALSE}
MayFill == IF budget.failures > 0 THEN SUBSET (1 .. 3) ELSE {{}}
Spend(failed) ==
  /\ budget' = IF failed THEN [budget EXCEPT !.failures = @ - 1] ELSE budget
  /\ seen' = IF failed THEN [seen EXCEPT !.failed = TRUE] ELSE seen

Submit(es) == queue' = queue \o es
Peer(st) == [type |-> "peer", state |-> st]
Forwarded(st) == [type |-> "forwarded", status |-> st]

-----------------------------------------------------------------------------
(* Scanning.                                                               *)

KeepsOldFilters(s) ==
  LET add == IF bonded # NoAddr THEN bt_scan_filter_add(s, "ADDR", bonded)
             ELSE bt_scan_filter_add(s, "UUID", "HIDS")
  IN  IF add.err # "OK" THEN add
      ELSE bt_scan_filter_enable(add.scan, IF bonded # NoAddr THEN {"ADDR"} ELSE {"UUID"}, TRUE)

\* ble_scan.c: the bonded peer by address, otherwise name and service.
configure_filters(s) ==
  LET none == bt_scan_filter_remove_all(s)
      by_addr == bt_scan_filter_add(none, "ADDR", bonded)
      by_name == bt_scan_filter_add(none, "SHORT_NAME",
                                    [name |-> ShortName, min_len |-> ShortName.len])
      by_uuid == bt_scan_filter_add(by_name.scan, "UUID", "HIDS")
      add == IF bonded # NoAddr THEN by_addr
             ELSE IF by_name.err # "OK" THEN by_name ELSE by_uuid
      mode == IF bonded # NoAddr THEN {"ADDR"} ELSE {"SHORT_NAME", "UUID"}
  IN  IF add.err # "OK" THEN add ELSE bt_scan_filter_enable(add.scan, mode, TRUE)

\* ble_scan.c: scan_start(); a failure ends in MODULE_STATE_ERROR.
scan_start(failed) ==
  LET f == configure_filters(scan)
  IN  /\ scan' = IF f.err = "OK" THEN bt_scan_start(f.scan, "ACTIVE") ELSE f.scan
      /\ scanning' = (f.err = "OK" /\ ~failed)

\* central_hids: the filter on the service is set once.
SampleFilters ==
  bt_scan_filter_enable(bt_scan_filter_add(bt_scan_init(TRUE), "UUID", "HIDS").scan,
                        {"UUID"}, FALSE).scan

\* central_hids: main().
main ==
  /\ app = "sample" /\ scan.connect_if_match = FALSE
  /\ scan' = bt_scan_start(SampleFilters, "ACTIVE")
  /\ \E failed \in MayFail : scanning' = ~failed /\ Spend(failed)
  /\ UNCHANGED <<link, peer, bonded, dm, hidc, used, att, queue, usbVars, sampleVars>>

\* scan_device_found(): both applications stop scanning on a match, then
\* the library connects; a refused connection is reported and no more.
scan_device_found(p) ==
  /\ scanning /\ link = "down" /\ budget.links > 0
  /\ filter_state_check(scan, p.adv) /\ scan.connect_if_match
  /\ scanning' = FALSE
  /\ \E failed \in MayFail :
       /\ link' = IF failed THEN "down" ELSE "connecting"
       /\ peer' = IF failed THEN peer ELSE p
       /\ default_conn' = (app = "sample" /\ ~failed)
       /\ seen' = IF failed THEN [seen EXCEPT !.conn_failed = TRUE] ELSE seen
       /\ budget' = [budget EXCEPT !.links = @ - 1,
                                   !.failures = IF failed THEN @ - 1 ELSE @]
  /\ UNCHANGED <<scan, bonded, dm, hidc, used, att, queue, usbVars, ready_work>>

-----------------------------------------------------------------------------
(* Connections.                                                            *)

\* connected() of ble_state.c, which reports it, and of central_hids, which
\* asks for security and starts the discovery.
connected ==
  /\ link = "connecting" /\ queue = << >>
  /\ link' = "connected"
  /\ \E failed, full \in MayFail :
       /\ dm' = IF app = "sample" /\ default_conn THEN bt_gatt_dm_start(dm, failed, ~full)
                ELSE dm
       /\ failed \/ full => app = "sample"
       /\ Spend(failed \/ full)
  /\ Submit(IF app = "dongle" THEN <<Peer("CONNECTED")>> ELSE << >>)
  /\ UNCHANGED <<scan, scanning, peer, bonded, hidc, used, att, usbVars, sampleVars>>

\* connected() with an error: nobody starts scanning again.
conn_failed ==
  /\ link = "connecting" /\ budget.failures > 0
  /\ link' = "down"
  /\ Submit(IF app = "dongle" THEN <<Peer("CONN_FAILED")>> ELSE << >>)
  /\ seen' = [seen EXCEPT !.conn_failed = TRUE]
  /\ budget' = [budget EXCEPT !.failures = @ - 1]
  /\ UNCHANGED <<scan, scanning, peer, bonded, dm, hidc, used, att, usbVars, sampleVars>>

\* ble_state.c: the link is encrypted, and the peer bonded.
security_changed ==
  /\ link = "connected"
  /\ link' = "secured"
  /\ bonded' = IF app = "dongle" THEN peer.addr ELSE bonded
  /\ Submit(IF app = "dongle" THEN <<Peer("SECURED")>> ELSE << >>)
  /\ UNCHANGED <<scan, scanning, peer, dm, hidc, used, att, usbVars, sampleVars,
                 budget, seen>>

\* What is left of the client when the stack has ended its requests.
Aborted ==
  LET hc == IF hidc.req # "none" THEN hids_prep_error(hidc) ELSE hidc
  IN  [hc EXCEPT !.rep_info = [i \in DOMAIN @ |->
                                 [@[i] EXCEPT !.write_cb = FALSE, !.read_cb = FALSE]],
                 !.boot = [r \in DOMAIN @ |->
                             IF @[r] = NoReport THEN @[r]
                             ELSE [@[r] EXCEPT !.write_cb = FALSE, !.read_cb = FALSE]]]

\* Link loss; a write under way is answered to the host by hidc_write_cb().
disconnected ==
  /\ link \in {"connected", "secured"}
  /\ link' = "down"
  /\ dm' = IF dm.phase = "none" THEN dm
           ELSE [discovery_callback(dm, peer, FALSE, FALSE, {}) EXCEPT !.cb = "none"]
  /\ att' = {}
  /\ Submit(IF app # "dongle" THEN << >>
            ELSE (IF att = {} THEN << >> ELSE <<Forwarded("WRITE_ERROR")>>)
                 \o <<Peer("DISCONNECTED")>>)
  /\ IF app = "sample"
     THEN LET r == IF bt_gatt_hids_c_assign_check(hidc)
                   THEN bt_gatt_hids_c_release(Aborted, used) ELSE [hc |-> hidc, used |-> used]
          IN  /\ hidc' = r.hc /\ used' = r.used
              /\ default_conn' = FALSE
              /\ scan' = IF default_conn THEN bt_scan_start(scan, "ACTIVE") ELSE scan
              /\ \E failed \in MayFail :
                   /\ scanning' = (default_conn /\ ~failed)
                   /\ failed => default_conn
                   /\ Spend(failed)
     ELSE /\ hidc' = Aborted
          /\ UNCHANGED <<used, default_conn, scan, scanning, budget, seen>>
  /\ UNCHANGED <<peer, bonded, usbVars, ready_work>>

-----------------------------------------------------------------------------
(* Discovery and preparation.                                              *)

\* discovery_completed_cb() of central_hids: assign, then release.
SampleCompletes(d, failed, heap) ==
  LET r == bt_gatt_hids_c_handles_assign(hidc, used, Service(d, peer), failed, heap)
  IN  /\ hidc' = r.hc /\ used' = r.used
      /\ dm' = [bt_gatt_dm_data_release(d) EXCEPT !.cb = "none"]

\* One call of discovery_callback(), and of the application's callback.
Discover ==
  /\ link # "down" /\ dm.phase # "none"
  /\ \E failed \in MayFail, full \in MayFill :
       LET d == discovery_callback(dm, peer, TRUE, failed, full)
       IN  /\ failed => full = {}
           /\ Spend(failed \/ full # {})
           /\ IF ~d.fault /\ d.cb = "completed" /\ app = "sample"
              THEN SampleCompletes(d, failed, 1 \notin full) /\ UNCHANGED queue
              ELSE /\ dm' = [d EXCEPT !.cb = "none"]
                   /\ Submit(IF d.cb = "completed" THEN <<[type |-> "complete"]>> ELSE << >>)
                   /\ UNCHANGED <<hidc, used>>
  /\ UNCHANGED <<scan, scanning, link, peer, bonded, att, usbVars, sampleVars>>

\* hid_forward.c: hidc_ready() subscribes to the first input report.
hidc_ready(hc, failed) ==
  LET is == {i \in 1 .. hc.rep_cnt : hc.rep_info[i].type = "INPUT"}
  IN  IF is = {} THEN hc ELSE bt_gatt_hids_c_rep_subscribe(hc, Min(is), failed)

\* The stack answers the read the client waits for.
Answer ==
  /\ link # "down" /\ hidc.req # "none"
  /\ \E failed \in MayFail, ok \in BOOLEAN :
       LET id == IF hidc.req = "ref" THEN hidc.rep_idx ELSE 0
           hc == CASE hidc.req = "info" -> hid_info_read_process(hidc, ok, failed)
                   [] hidc.req = "ref" -> repref_read_process(hidc, ok, id, failed)
                   [] hidc.req = "pm" -> pm_read_process(hidc, ok, "REPORT")
       IN  /\ ~ok => budget.failures > 0 /\ ~failed
           /\ Spend(failed \/ ~ok)
           /\ IF hc.ready /\ app = "dongle"
              THEN hidc' = hidc_ready(hc, failed) /\ UNCHANGED ready_work
              ELSE hidc' = hc /\ ready_work' = (ready_work \/ hc.ready)
  /\ UNCHANGED <<scan, scanning, link, peer, bonded, dm, used, att, queue, usbVars,
                 default_conn>>

-----------------------------------------------------------------------------
(* The dongle.                                                             *)

SubscriptionEvent(st) == [type |-> "subscription", enabled |-> st = "ACTIVE"]

\* usb_state.c: the new state of device_status().  The stack powers a port
\* that is disconnected, and configures, suspends and resumes in that order.
device_status(status) ==
  CASE status = "CONNECTED" /\ usb.state = "DISCONNECTED" -> "POWERED"
    [] status = "DISCONNECTED" /\ usb.state # "DISCONNECTED" -> "DISCONNECTED"
    [] status = "CONFIGURED" /\ usb.state = "POWERED" -> "ACTIVE"
    [] status = "RESET" /\ usb.state \notin {"DISCONNECTED", "SUSPENDED"} -> "POWERED"
    [] status = "SUSPEND" /\ usb.state \in {"POWERED", "ACTIVE"} -> "SUSPENDED"
    [] status = "RESUME" /\ usb.state = "SUSPENDED" -> usb.before_suspend
    [] OTHER -> usb.state

UsbStatus(status) ==
  LET new == device_status(status)
  IN  /\ app = "dongle" /\ budget.usb > 0 /\ new # usb.state
      /\ \E clears \in CASE status = "DISCONNECTED" -> {TRUE}
                         [] status = "RESET" -> BOOLEAN
                         [] OTHER -> {FALSE} :
           /\ usb' = [state |-> new,
                      before_suspend |-> IF new = "SUSPENDED" THEN usb.state
                                         ELSE usb.before_suspend,
                      endpoint |-> IF clears THEN 0 ELSE usb.endpoint]
           /\ seen' = IF clears /\ usb.endpoint > 0 THEN [seen EXCEPT !.dropped = TRUE]
                      ELSE seen
      /\ Submit((IF usb.state = "ACTIVE" THEN <<SubscriptionEvent(new)>> ELSE << >>)
                \o <<[type |-> "usb", state |-> new]>>
                \o (IF new = "ACTIVE" THEN <<SubscriptionEvent(new)>> ELSE << >>))
      /\ budget' = [budget EXCEPT !.usb = @ - 1]
      /\ UNCHANGED <<btVars, fwd, forward_status, sampleVars>>

mouse_report_sent_cb ==
  /\ usb.state = "ACTIVE" /\ usb.endpoint > 0
  /\ usb' = [usb EXCEPT !.endpoint = @ - 1]
  /\ Submit(<<[type |-> "sent"]>>)
  /\ UNCHANGED <<btVars, fwd, forward_status, sampleVars, budget, seen>>

\* usb_state.c: a request for this device succeeds at once.
set_report(own) ==
  /\ app = "dongle" /\ usb.state = "ACTIVE" /\ budget.configs > 0
  /\ forward_status' = IF own THEN "SUCCESS" ELSE "PENDING"
  /\ Submit(IF own THEN << >> ELSE <<[type |-> "forward"]>>)
  /\ budget' = [budget EXCEPT !.configs = @ - 1]
  /\ UNCHANGED <<btVars, fwd, usb, sampleVars, seen>>

\* hid_forward.c: a notification of the mouse.  One event is on its way to
\* USB, and the newest of the others waits.
hidc_read ==
  /\ app = "dongle" /\ link = "secured"
  /\ \E i \in 1 .. hidc.rep_cnt : hidc.rep_info[i].notify_cb
  /\ fwd.usb_ready /\ ~fwd.next_event
  /\ fwd' = IF fwd.usb_busy THEN [fwd EXCEPT !.next_event = TRUE]
            ELSE [fwd EXCEPT !.usb_busy = TRUE]
  /\ Submit(IF fwd.usb_busy THEN << >> ELSE <<[type |-> "mouse", sub |-> fwd.usb_id]>>)
  /\ UNCHANGED <<btVars, usb, forward_status, sampleVars, budget, seen>>

AnswersSuccessOnly ==
  /\ app = "dongle" /\ att # {}
  /\ \E a \in att, ok \in BOOLEAN :
       /\ hidc' = rep_write_process(hidc, a[2])
       /\ att' = att \ {a}
       /\ Submit(IF ok THEN <<Forwarded("SUCCESS")>> ELSE << >>)
  /\ UNCHANGED <<scan, scanning, link, peer, bonded, dm, used, usbVars, sampleVars,
                 budget, seen>>

\* The answer to a write of the configuration report: hidc_write_cb().
hidc_write_cb ==
  /\ app = "dongle" /\ att # {}
  /\ \E a \in att, ok \in BOOLEAN :
       /\ hidc' = rep_write_process(hidc, a[2])
       /\ att' = att \ {a}
       /\ Submit(<<Forwarded(IF ok THEN "SUCCESS" ELSE "WRITE_ERROR")>>)
  /\ UNCHANGED <<scan, scanning, link, peer, bonded, dm, used, usbVars, sampleVars,
                 budget, seen>>

-----------------------------------------------------------------------------
(* The event processor of the dongle: the head of the queue, all its       *)
(* listeners in order.                                                     *)

Take(es) == queue' = Tail(queue) \o es

\* hid_forward.c takes the event first, ble_scan.c releases the data.  With
\* the link gone the first read fails and everything is released again.
complete_event ==
  /\ \E failed \in IF link = "down" THEN {TRUE} ELSE MayFail, full \in MayFail :
       LET r == bt_gatt_hids_c_handles_assign(hidc, used, Service(dm, peer), failed, ~full)
       IN  /\ hidc' = r.hc /\ used' = r.used
           /\ Spend(full \/ (failed /\ link # "down"))
  /\ dm' = bt_gatt_dm_data_release(dm)
  /\ Take(<< >>)
  /\ UNCHANGED <<scan, scanning, link, peer, bonded, att, usbVars>>

peer_event(e) ==
  /\ IF e.state = "DISCONNECTED"
     THEN /\ \E failed \in MayFail : scan_start(failed) /\ Spend(failed)
          /\ LET r == IF bt_gatt_hids_c_assign_check(hidc)
                      THEN bt_gatt_hids_c_release(hidc, used) ELSE [hc |-> hidc, used |-> used]
             IN  hidc' = r.hc /\ used' = r.used
          /\ UNCHANGED dm
     ELSE /\ IF e.state = "SECURED"
             THEN \E failed \in IF link = "down" THEN {TRUE} ELSE MayFail, full \in MayFail :
                    /\ dm' = bt_gatt_dm_start(dm, failed, ~full)
                    /\ Spend(full \/ (failed /\ link # "down"))
             ELSE UNCHANGED <<dm, budget, seen>>
          /\ UNCHANGED <<scan, scanning, hidc, used>>
  /\ Take(<< >>)
  /\ UNCHANGED <<link, peer, bonded, att, usbVars>>

module_event(e) ==
  /\ IF e.type = "ble_state_ready"
     THEN scan' = bt_scan_init(TRUE) /\ UNCHANGED <<scanning, budget, seen>>
     ELSE \E failed \in MayFail : scan_start(failed) /\ Spend(failed)
  /\ Take(<< >>)
  /\ UNCHANGED <<link, peer, bonded, dm, hidc, used, att, usbVars>>

\* usb_state.c: send_mouse_report(); a report that is not for this USB
\* connection is dropped without an answer.
mouse_event(e) ==
  /\ IF e.sub /\ usb.state = "ACTIVE"
     THEN \E failed \in MayFail :
            /\ usb' = IF failed THEN usb ELSE [usb EXCEPT !.endpoint = @ + 1]
            /\ Take(IF failed THEN <<[type |-> "sent"]>> ELSE << >>)
            /\ Spend(failed)
     ELSE /\ seen' = [seen EXCEPT !.dropped = TRUE]
          /\ Take(<< >>) /\ UNCHANGED <<usb, budget>>
  /\ UNCHANGED <<btVars, fwd, forward_status>>

SentIsIdle ==
  /\ fwd' = [fwd EXCEPT !.next_event = FALSE, !.usb_busy = FALSE]
  /\ Take(IF fwd.next_event THEN <<[type |-> "mouse", sub |-> fwd.usb_id]>> ELSE << >>)
  /\ UNCHANGED <<btVars, usb, forward_status, budget, seen>>

\* hid_forward.c: the report that waited follows the one that was sent.
sent_event ==
  /\ IF fwd.next_event
     THEN /\ fwd' = [fwd EXCEPT !.next_event = FALSE]
          /\ Take(<<[type |-> "mouse", sub |-> fwd.usb_id]>>)
     ELSE fwd' = [fwd EXCEPT !.usb_busy = FALSE] /\ Take(<< >>)
  /\ UNCHANGED <<btVars, usb, forward_status, budget, seen>>

usb_event(e) ==
  /\ fwd' = CASE e.type = "subscription" ->
                   IF fwd.usb_id THEN [fwd EXCEPT !.usb_ready = e.enabled] ELSE fwd
              [] e.type = "usb" /\ e.state = "POWERED" -> [fwd EXCEPT !.usb_id = TRUE]
              [] e.type = "usb" /\ e.state = "DISCONNECTED" ->
                   [fwd EXCEPT !.usb_id = FALSE, !.usb_ready = FALSE]
              [] OTHER -> fwd
  /\ Take(<< >>)
  /\ UNCHANGED <<btVars, usb, forward_status, budget, seen>>

\* hid_forward.c: the configuration goes to the feature report of the peer.
forward_event ==
  LET r == bt_gatt_hids_c_rep_find(hidc, "FEATURE", 2)
  IN  /\ IF ~bt_gatt_hids_c_ready_check(hidc)
         THEN Take(<<Forwarded("DISCONNECTED_ERROR")>>) /\ UNCHANGED <<hidc, att, budget, seen>>
         ELSE IF r = 0
         THEN Take(<<Forwarded("WRITE_ERROR")>>) /\ UNCHANGED <<hidc, att, budget, seen>>
         ELSE \E failed \in IF link = "down" THEN {TRUE} ELSE MayFail :
                /\ hidc' = bt_gatt_hids_c_rep_write(hidc, r, failed)
                /\ IF CanWrite(hidc, r, failed)
                   THEN att' = att \cup {<<"write", r>>} /\ Take(<< >>)
                   ELSE Take(<<Forwarded("WRITE_ERROR")>>) /\ UNCHANGED att
                /\ IF link = "down" THEN UNCHANGED <<budget, seen>> ELSE Spend(failed)
      /\ UNCHANGED <<scan, scanning, link, peer, bonded, dm, used, usbVars>>

forwarded_event(e) ==
  /\ forward_status' = e.status
  /\ Take(<< >>)
  /\ UNCHANGED <<btVars, fwd, usb, budget, seen>>

event_processor_fn ==
  /\ queue # << >>
  /\ LET e == Head(queue)
     IN  CASE e.type = "complete" -> complete_event
           [] e.type = "peer" -> peer_event(e)
           [] e.type \in {"ble_state_ready", "ble_bond_ready"} -> module_event(e)
           [] e.type = "mouse" -> mouse_event(e)
           [] e.type = "sent" -> sent_event
           [] e.type \in {"usb", "subscription"} -> usb_event(e)
           [] e.type = "forward" -> forward_event
           [] e.type = "forwarded" -> forwarded_event(e)
  /\ UNCHANGED sampleVars

-----------------------------------------------------------------------------
(* The sample.                                                             *)

\* hids_on_ready(): all input reports, then the boot reports.
hids_on_ready ==
  /\ ready_work
  /\ ready_work' = FALSE
  /\ \E failed \in IF link = "down" THEN {TRUE} ELSE MayFail :
       LET all == FoldLeft(LAMBDA hc, i : bt_gatt_hids_c_rep_subscribe(hc, i, failed),
                           hidc, [i \in 1 .. hidc.rep_cnt |-> i])
           boot == FoldLeft(LAMBDA hc, r : IF hc.boot[r] = NoReport THEN hc
                                           ELSE bt_gatt_hids_c_rep_subscribe(hc, r, failed),
                            all, <<kbd_inp, mouse_inp>>)
       IN  /\ hidc' = boot
           /\ budget' = IF failed /\ link # "down" THEN [budget EXCEPT !.failures = @ - 1]
                        ELSE budget
           /\ seen' = [seen EXCEPT !.failed = @ \/ (failed /\ link # "down")]
  /\ UNCHANGED <<scan, scanning, link, peer, bonded, dm, used, att, queue, usbVars,
                 default_conn>>

\* Buttons: protocol mode, caps lock without and with response.
button_bootmode ==
  /\ app = "sample" /\ bt_gatt_hids_c_ready_check(hidc)
  /\ \E failed \in MayFail :
       /\ hidc' = bt_gatt_hids_c_pm_write(hidc, IF hidc.pm = "BOOT" THEN "REPORT" ELSE "BOOT",
                                          failed)
       /\ Spend(failed)
  /\ UNCHANGED <<scan, scanning, link, peer, bonded, dm, used, att, queue, usbVars,
                 sampleVars>>

button_capslock_rsp ==
  /\ app = "sample" /\ bt_gatt_hids_c_ready_check(hidc) /\ hidc.boot[kbd_out] # NoReport
  /\ \E failed \in MayFail :
       /\ hidc' = bt_gatt_hids_c_rep_write(hidc, kbd_out, failed)
       /\ att' = IF CanWrite(hidc, kbd_out, failed) THEN att \cup {<<"write", kbd_out>>}
                 ELSE att
       /\ Spend(failed)
  /\ UNCHANGED <<scan, scanning, link, peer, bonded, dm, used, queue, usbVars, sampleVars>>

\* capslock_write_cb() reads the report back; capslock_read_cb() prints it.
capslock_cb(a) ==
  /\ app = "sample" /\ a \in att
  /\ \E failed \in MayFail :
       IF a[1] = "write"
       THEN LET hc == bt_gatt_hids_c_rep_read(hidc, a[2], failed)
            IN  /\ hidc' = rep_write_process(hc, a[2])
                /\ att' = (att \ {a})
                          \cup (IF hc # hidc THEN {<<"read", a[2]>>} ELSE {})
                /\ Spend(failed)
       ELSE /\ hidc' = rep_read_process(hidc, a[2])
            /\ att' = att \ {a}
            /\ ~failed /\ Spend(failed)
  /\ UNCHANGED <<scan, scanning, link, peer, bonded, dm, used, queue, usbVars, sampleVars>>

-----------------------------------------------------------------------------
Bluetooth ==
  \/ main \/ \E p \in Peers : scan_device_found(p)
  \/ connected \/ conn_failed \/ security_changed \/ disconnected
  \/ Discover \/ Answer

Usb ==
  \/ \E s \in {"CONNECTED", "DISCONNECTED", "CONFIGURED", "RESET", "SUSPEND", "RESUME"} :
        UsbStatus(s)
  \/ mouse_report_sent_cb \/ \E own \in BOOLEAN : set_report(own)
  \/ hidc_read \/ hidc_write_cb

Sample ==
  \/ hids_on_ready \/ button_bootmode \/ button_capslock_rsp
  \/ \E a \in att : capslock_cb(a)

Faulted == dm.fault \/ hidc.fault

Next ==
  /\ ~Faulted
  /\ Bluetooth \/ Usb \/ event_processor_fn \/ Sample
  /\ UNCHANGED app

Spec == Init /\ [][Next]_vars

-----------------------------------------------------------------------------
(* Properties.                                                             *)

Count(P(_)) == Cardinality({i \in DOMAIN queue : P(queue[i])})

(***************************************************************************)
(* The discovery manager is locked exactly while a discovery runs or its   *)
(* result waits in the queue for ble_scan.c to release it, and all memory  *)
(* it holds is memory a release frees: otherwise every later discovery     *)
(* fails with -EALREADY or runs out of chunks.  The exception is the fatal *)
(* error: gatt_dm.c goes through a null pointer (276, 369) when a value    *)
(* cannot be stored, and frees what is behind its array (104) when the     *)
(* chunks are used up, so it comes only to a peer with more data than the  *)
(* chunks hold, or after a k_malloc() that failed.                         *)
(***************************************************************************)
DiscoveryBalanced ==
  IF dm.fault THEN dm.cur_id >= MaxChunks \/ seen.failed
  ELSE /\ dm.locked <=> dm.phase # "none" \/ dm.pending
       /\ dm.pending <=> Count(LAMBDA e : e.type = "complete") = 1
       /\ dm.chunks \subseteq 0 .. dm.cur_id /\ dm.cur_id < MaxChunks
       /\ ~dm.locked => dm.chunks \subseteq {0}

\* A service some report of which cannot be created.
Incomplete(p) ==
  \/ \E i \in DOMAIN p.chars :
       /\ p.chars[i].uuid = "REPORT"
       /\ \/ ~bt_gatt_dm_desc_by_uuid(p, i, "REF")
          \/ GuessedType(p.chars[i]) = "INPUT" /\ ~bt_gatt_dm_desc_by_uuid(p, i, "CCC")
  \/ Cardinality({i \in DOMAIN p.chars : p.chars[i].uuid \in
                   {"REPORT", "BOOT_MOUSE_IN", "BOOT_KB_IN", "BOOT_KB_OUT"}}) > ReportsMax

(***************************************************************************)
(* Every slab block in use belongs to a report of the client, and the      *)
(* stack has no request on a report that was freed.  The exception is the  *)
(* fatal error of a release after a report could not be created, which     *)
(* frees the entries behind it too (hids_c.c:787-793): only a peer whose   *)
(* reports lack a descriptor or are too many for the slab leads there.     *)
(***************************************************************************)
ReportsAccounted ==
  IF hidc.fault THEN Incomplete(peer)
  ELSE /\ used = Held(hidc)
       /\ \A a \in att :
            LET r == IF a[2] \in DOMAIN hidc.boot THEN hidc.boot[a[2]]
                     ELSE IF a[2] <= hidc.rep_cnt THEN hidc.rep_info[a[2]] ELSE NoReport
            IN  r # NoReport /\ (IF a[1] = "write" THEN r.write_cb ELSE r.read_cb)
       /\ hidc.req # "none" => hidc.conn /\ hidc.sem = 0 /\ link # "down"

Quiet == ~Faulted /\ queue = << >> /\ dm.phase = "none" /\ hidc.req = "none" /\ ~ready_work

(***************************************************************************)
(* When nothing is left to do, a peer that has what it needs is ready and  *)
(* its input report subscribed, unless a call failed; without a connection *)
(* the central is scanning, unless a connection attempt failed; and it     *)
(* connects only to a device that passes its filters as scan.rst describes *)
(* them.                                                                   *)
(***************************************************************************)
QuietMeansReady ==
  /\ Quiet /\ ~seen.failed =>
       /\ link = "secured" /\ peer.fits =>
            hidc.ready /\ \E i \in 1 .. hidc.rep_cnt : hidc.rep_info[i].notify_cb
       /\ link = "down" /\ ~seen.conn_failed /\ scan.connect_if_match => scanning
  /\ link = "connecting" => DocumentedMatch(scan, peer.adv)

(***************************************************************************)
(* hid_forward.c keeps at most one mouse report on its way to USB: not     *)
(* busy means none, a report waits only while busy, and busy without a     *)
(* report on its way is explained by a report USB dropped.                 *)
(***************************************************************************)
OneReportInFlight ==
  LET n == Count(LAMBDA e : e.type \in {"mouse", "sent"}) + usb.endpoint
  IN  /\ n <= 1
      /\ fwd.next_event => fwd.usb_busy
      /\ n = 1 => fwd.usb_busy
      /\ fwd.usb_busy /\ ~seen.dropped => n = 1

(***************************************************************************)
(* A host that polls a configuration request does not wait for ever: while *)
(* the status is pending, the request, its write or its answer is on its   *)
(* way.                                                                    *)
(***************************************************************************)
ConfigAnswered ==
  forward_status = "PENDING" =>
    att # {} \/ Count(LAMBDA e : e.type \in {"forward", "forwarded"}) > 0

=============================================================================
