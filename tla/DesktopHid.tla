---------------------------- MODULE DesktopHid ------------------------------
(***************************************************************************)
(* The HID path of an nRF desktop device: the HID state module, the USB    *)
(* module (modules/usb_state.c) and the Bluetooth HID service module       *)
(* (services/hids.c, with the connection callbacks of                      *)
(* modules/ble_state.c), which talk through the queue of the event manager *)
(* (subsys/event_manager).                                                 *)
(*                                                                         *)
(* The event processor takes the queue and hands every event to its        *)
(* listeners, in order, while interrupts and the USB and Bluetooth threads *)
(* keep submitting; a listener that submits appends to the same queue.     *)
(* One step of Process is one event with all its listeners.                *)
(*                                                                         *)
(* Assumed of the world outside: a cable is plugged in, and a peer         *)
(* connects again, only after the queue has drained (both take far longer  *)
(* than handling an event); nothing in flight on a link is reported after  *)
(* the link is gone; malloc succeeds.                                      *)
(***************************************************************************)
EXTENDS HidState, SequencesExt

CONSTANTS
  Devices,    \* devices: [transports, reports, keymap, modes, wheel, burst], see below
  MaxWheel,   \* bound: what the wheel accumulates
  MaxValue    \* bound: the reference count of an item when a key is pressed

VARIABLES
  device,         \* the configuration the firmware was built with
  queue,          \* event manager: eventq
  hid,            \* hid_state.c: state
  usb,            \* usb_state.c: state
  before_suspend, \* usb_state.c: before_suspend
  endpoint,       \* reports written to the USB endpoint, not yet sent
  link,           \* the Bluetooth stack has a connection
  cur_conn,       \* hids.c: cur_conn # NULL
  report_mode,    \* hids.c: report_mode
  report_enabled, \* hids.c: report_enabled
  notifying,      \* notifications given to the Bluetooth stack, not yet sent
  held,           \* keys the user holds
  pressed         \* auxiliary: keys held as of the button events handled so far

usbVars == <<usb, before_suspend, endpoint>>
bleVars == <<link, cur_conn, report_mode, report_enabled, notifying>>
vars == <<device, queue, hid, usbVars, bleVars, held, pressed>>

(***************************************************************************)
(* A device has transports, target reports, a keymap from keys to report   *)
(* and usage, the steps of its wheel, and two bounds on its world: the     *)
(* protocol modes its hosts use and burst, the number of waiting events at *)
(* which the world pauses.                                                 *)
(***************************************************************************)
Modes == {"REPORT", "BOOT"}
Keys == DOMAIN device.keymap

Init ==
  /\ device \in Devices
  /\ queue = << >>
  /\ hid = HidInit
  /\ usb = "DISCONNECTED" /\ before_suspend = "DISCONNECTED" /\ endpoint = 0
  /\ link = FALSE /\ cur_conn = FALSE
  /\ report_mode = "REPORT"
  /\ report_enabled = [tr \in Reports |-> [m \in Modes |-> FALSE]]
  /\ notifying = [tr \in Reports |-> 0]
  /\ held = {} /\ pressed = {}

-----------------------------------------------------------------------------
(* The event manager.                                                      *)

\* _event_submit(), once for each event of es.
Submit(es) == queue' = queue \o es

\* The processor takes the head; its listeners submit es.
TakeAndSubmit(es) == queue' = Tail(queue) \o es

Sent(id, tr, error) == [type |-> "sent", sub |-> id, tr |-> tr, error |-> error]
Subscription(id, tr, on) ==
  [type |-> "subscription", sub |-> id, tr |-> tr, enabled |-> on]
UsbEvent(st) == [type |-> "usb", state |-> st]
PeerEvent(st) == [type |-> "peer", state |-> st]

Idle == queue = << >>
Room == Len(queue) < device.burst

-----------------------------------------------------------------------------
(* Listeners.                                                              *)

\* usb_state.c: a report for us is written to the endpoint while active.
UsbSends(e) ==
  /\ e.sub = "usb" /\ e.tr = "mouse"
  /\ \/ /\ usb # "ACTIVE"
        /\ TakeAndSubmit(<< >>) /\ UNCHANGED endpoint
     \/ /\ usb = "ACTIVE"
        /\ endpoint' = endpoint + 1
        /\ TakeAndSubmit(<< >>)
     \/ /\ usb = "ACTIVE"
        /\ TakeAndSubmit(<<Sent("usb", e.tr, TRUE)>>) /\ UNCHANGED endpoint
  /\ UNCHANGED <<hid, usb, before_suspend, bleVars, pressed>>

\* hids.c: a report for the current connection is notified if enabled.
HidsSends(e) ==
  /\ e.sub = "ble"
  /\ \/ /\ ~cur_conn \/ ~report_enabled[e.tr][report_mode]
        /\ TakeAndSubmit(<< >>) /\ UNCHANGED notifying
     \/ /\ cur_conn /\ report_enabled[e.tr][report_mode] /\ link
        /\ notifying' = [notifying EXCEPT ![e.tr] = @ + 1]
        /\ TakeAndSubmit(<< >>)
     \/ /\ cur_conn /\ report_enabled[e.tr][report_mode]
        /\ TakeAndSubmit(<<Sent("ble", e.tr, TRUE)>>) /\ UNCHANGED notifying
  /\ UNCHANGED <<hid, usbVars, link, cur_conn, report_mode, report_enabled, pressed>>

\* hids.c handles peer events before hid_state.c: it subscribes early.  The
\* service takes the peer: it has a context for the one connection there is.
NotifyHids(e) ==
  cur_conn' = CASE e.type = "peer" /\ e.state = "CONNECTED" -> TRUE
                [] e.type = "peer" /\ e.state = "DISCONNECTED" -> FALSE
                [] OTHER -> cur_conn

HidStateHandles(e) ==
  /\ e.type # "report"
  /\ NotifyHids(e)
  /\ \E garbage \in BOOLEAN :
       LET r == HidHandles(hid, e, garbage)
       IN  hid' = r.h /\ TakeAndSubmit(r.out)
  /\ pressed' = CASE e.type = "button" /\ e.pressed -> pressed \cup {e.key}
                  [] e.type = "button" /\ ~e.pressed -> pressed \ {e.key}
                  [] OTHER -> pressed
  /\ UNCHANGED <<usbVars, link, report_mode, report_enabled, notifying>>

event_processor_fn ==
  /\ queue # << >>
  /\ LET e == Head(queue)
     IN  \/ e.type = "report" /\ (UsbSends(e) \/ HidsSends(e))
         \/ HidStateHandles(e)
  /\ UNCHANGED <<device, held>>

-----------------------------------------------------------------------------
(* The USB stack.                                                          *)

\* The tail of device_status(): what the module submits for a new state.
UsbChanges(new) ==
  /\ usb' = new
  /\ Submit((IF usb = "ACTIVE" THEN <<Subscription("usb", "mouse", FALSE)>> ELSE << >>)
            \o <<UsbEvent(new)>>
            \o (IF new = "ACTIVE" THEN <<Subscription("usb", "mouse", TRUE)>> ELSE << >>))

USB_DC_CONNECTED ==
  /\ usb = "DISCONNECTED" /\ Idle
  /\ UsbChanges("POWERED")
  /\ UNCHANGED <<before_suspend, endpoint>>

USB_DC_DISCONNECTED ==
  /\ usb # "DISCONNECTED"
  /\ UsbChanges("DISCONNECTED")
  /\ endpoint' = 0
  /\ UNCHANGED before_suspend

USB_DC_CONFIGURED ==
  /\ usb = "POWERED"
  /\ UsbChanges("ACTIVE")
  /\ UNCHANGED <<before_suspend, endpoint>>

USB_DC_RESET ==
  /\ usb = "ACTIVE"
  /\ UsbChanges("POWERED")
  /\ UNCHANGED <<before_suspend, endpoint>>

USB_DC_SUSPEND ==
  /\ usb \in {"POWERED", "ACTIVE"}
  /\ before_suspend' = usb
  /\ UsbChanges("SUSPENDED")
  /\ UNCHANGED endpoint

USB_DC_RESUME ==
  /\ usb = "SUSPENDED"
  /\ UsbChanges(before_suspend)
  /\ UNCHANGED <<before_suspend, endpoint>>

mouse_report_sent_cb ==
  /\ usb = "ACTIVE" /\ endpoint > 0
  /\ endpoint' = endpoint - 1
  /\ Submit(<<Sent("usb", "mouse", FALSE)>>)
  /\ UNCHANGED <<usb, before_suspend>>

UsbStack ==
  /\ "usb" \in device.transports /\ Room
  /\ \/ USB_DC_CONNECTED \/ USB_DC_DISCONNECTED \/ USB_DC_CONFIGURED
     \/ USB_DC_RESET \/ USB_DC_SUSPEND \/ USB_DC_RESUME \/ mouse_report_sent_cb
  /\ UNCHANGED <<device, hid, bleVars, held, pressed>>

-----------------------------------------------------------------------------
(* The Bluetooth stack.                                                    *)

connected ==
  /\ ~link /\ Idle
  /\ link' = TRUE
  /\ Submit(<<PeerEvent("CONNECTED")>>)
  /\ UNCHANGED <<cur_conn, report_mode, report_enabled, notifying>>

\* The stack withdraws the notifications of a lost connection, or keeps
\* them, before it calls disconnected().
disconnected ==
  /\ link /\ cur_conn
  /\ link' = FALSE
  /\ notifying' = [tr \in Reports |-> 0]
  /\ \/ UNCHANGED report_enabled /\ Submit(<<PeerEvent("DISCONNECTED")>>)
     \/ LET on == {tr \in device.reports : report_enabled[tr][report_mode]}
        IN  /\ report_enabled' = [tr \in Reports |-> [m \in Modes |-> FALSE]]
            /\ Submit(SetToSeq({Subscription("ble", tr, FALSE) : tr \in on})
                      \o <<PeerEvent("DISCONNECTED")>>)
  /\ UNCHANGED <<cur_conn, report_mode>>

\* The peer writes a client configuration that is not the one in force.
notif_handler(tr, mode) ==
  /\ link /\ cur_conn
  /\ report_enabled' = [report_enabled EXCEPT ![tr][mode] = ~@]
  /\ IF report_mode = mode
     THEN Submit(<<Subscription("ble", tr, report_enabled'[tr][mode])>>)
     ELSE UNCHANGED queue
  /\ UNCHANGED <<link, cur_conn, report_mode, notifying>>

\* The peer changes the protocol mode.  Whatever reports the device has, it
\* is the mouse report whose subscription is announced, once for each.
pm_evt_handler ==
  /\ link /\ cur_conn
  /\ report_mode' \in device.modes \ {report_mode}
  /\ LET now == report_enabled["mouse"][report_mode']
     IN  Submit(IF report_enabled["mouse"][report_mode] = now THEN << >>
                ELSE [i \in 1 .. Cardinality(device.reports) |->
                        Subscription("ble", "mouse", now)])
  /\ UNCHANGED <<link, cur_conn, report_enabled, notifying>>

report_sent_cb(tr) ==
  /\ link /\ cur_conn /\ notifying[tr] > 0
  /\ notifying' = [notifying EXCEPT ![tr] = @ - 1]
  /\ Submit(<<Sent("ble", tr, FALSE)>>)
  /\ UNCHANGED <<link, cur_conn, report_mode, report_enabled>>

BluetoothStack ==
  /\ "ble" \in device.transports /\ Room
  /\ \/ connected \/ disconnected \/ pm_evt_handler
     \/ \E tr \in device.reports, m \in device.modes : notif_handler(tr, m)
     \/ \E tr \in device.reports : report_sent_cb(tr)
  /\ UNCHANGED <<device, hid, usbVars, held, pressed>>

-----------------------------------------------------------------------------
(* The user, and time.                                                     *)

RefCount(k) ==
  ValueOf(hid.report_data[device.keymap[k].tr].items, device.keymap[k].usage)

ButtonMoves ==
  /\ Room
  /\ \E k \in Keys :
       /\ k \in held \/ RefCount(k) < MaxValue
       /\ held' = IF k \in held THEN held \ {k} ELSE held \cup {k}
       /\ Submit(<<[type |-> "button", key |-> k, tr |-> device.keymap[k].tr,
                    usage |-> device.keymap[k].usage, pressed |-> k \in held']>>)
  /\ UNCHANGED <<device, hid, usbVars, bleVars, pressed>>

PointerMoves ==
  /\ Room /\ "mouse" \in device.reports
  /\ \/ Submit(<<[type |-> "motion"]>>)
     \/ \E d \in device.wheel :
          /\ hid.wheel_acc + d \in -MaxWheel .. MaxWheel
          /\ \A i \in DOMAIN queue : queue[i].type # "wheel"
          /\ Submit(<<[type |-> "wheel", step |-> d]>>)
  /\ UNCHANGED <<device, hid, usbVars, bleVars, held, pressed>>

\* The oldest event of a queue that has not expired yet expires.
Expire(tr) ==
  LET rd == hid.report_data[tr]
      valid == Expired(rd.eventq) + 1
  IN  /\ valid <= Len(rd.eventq)
      /\ hid' = [hid EXCEPT !.report_data[tr].eventq[valid].old = TRUE]
      /\ UNCHANGED <<device, queue, usbVars, bleVars, held, pressed>>

Next ==
  \/ event_processor_fn \/ UsbStack \/ BluetoothStack
  \/ ButtonMoves \/ PointerMoves \/ \E tr \in Reports : Expire(tr)

Spec == Init /\ [][Next]_vars

-----------------------------------------------------------------------------
TypeOK ==
  /\ device \in Devices
  /\ usb \in {"DISCONNECTED", "POWERED", "ACTIVE", "SUSPENDED"}
  /\ endpoint \in 0 .. 1
  /\ hid.selected \in SubscriberSlots \cup {NoSlot}
  /\ \A s \in SubscriberSlots :
       /\ hid.subscriber[s].id \in Ids \cup {NoId}
       /\ \A tr \in Reports : hid.subscriber[s].cnt[tr] \in 0 .. CntMod - 1
  /\ \A tr \in Reports : Len(hid.report_data[tr].eventq) <= QueueSize
  /\ held \subseteq Keys /\ pressed \subseteq Keys

(***************************************************************************)
(* The item arrays stay what key_value_set() expects of them: sorted, free *)
(* slots first, no usage twice, counted, and every item with a positive    *)
(* reference count.                                                        *)
(***************************************************************************)
ItemsOK ==
  \A tr \in Reports :
    LET items == hid.report_data[tr].items
        used == {i \in 1 .. ItemCount : items.item[i].usage # 0}
    IN  /\ items.item_count = Cardinality(used)
        /\ \A i, j \in 1 .. ItemCount :
             i < j => items.item[i].usage < items.item[j].usage
                      \/ items.item[i] = FreeItem
        /\ \A i \in used : items.item[i].value > 0

Count(P(_)) == Cardinality({i \in DOMAIN queue : P(queue[i])})

\* Reports of tr for id that are on their way: queued, in flight or answered.
Outstanding(id, tr) ==
  Count(LAMBDA e : e.type = "report" /\ e.sub = id /\ e.tr = tr)
  + Count(LAMBDA e : e.type = "sent" /\ e.sub = id /\ e.tr = tr)
  + CASE id = "ble" -> notifying[tr] [] id = "usb" /\ tr = "mouse" -> endpoint [] OTHER -> 0

(***************************************************************************)
(* report_issued() never takes the counter of reports below zero: every    *)
(* report on its way to a subscriber is counted, and no more of them are   *)
(* counted than the pipeline is deep.                                      *)
(***************************************************************************)
ReportsCounted ==
  \A s \in SubscriberSlots, tr \in Reports :
    LET sub == hid.subscriber[s]
    IN  sub.id # NoId => /\ Outstanding(sub.id, tr) <= sub.cnt[tr]
                         /\ sub.cnt[tr] <= pipeline_depth(sub.id)

\* The value the item of usage u has when the queued events are applied.
Drained(rd, u) ==
  LET d[i \in 0 .. Len(rd.eventq)] ==
        IF i = 0 THEN ValueOf(rd.items, u)
        ELSE LET e == rd.eventq[i]
             IN  IF e.usage = u THEN Max({0, d[i - 1] + e.value}) ELSE d[i - 1]
  IN  d[Len(rd.eventq)]

\* How often u is pressed in what is recorded and queued, beyond the user.
Excess(tr, u) ==
  Drained(hid.report_data[tr], u)
    - Cardinality({k \in pressed : device.keymap[k] = [tr |-> tr, usage |-> u]})

\* The events that eventq_cleanup() purges when a key is queued or a report
\* subscribed hold a key up of u whose key down is recorded as an item.
KeyUpExpires(tr, u) ==
  LET q == hid.report_data[tr].eventq
      e == Head(queue)
      purged == {i \in 1 .. Walk(q, Expired(q)) : q[i].usage = u}
  IN  /\ e.type \in {"button", "subscription"} /\ e.tr = tr
      /\ MapThenSumSet(LAMBDA i : q[i].value, purged) < 0
      /\ ValueOf(hid.report_data[tr].items, u) > 0

(***************************************************************************)
(* No key gets stuck but in one way: on a mouse with one transport, no     *)
(* step makes what the module has recorded and queued press a usage more   *)
(* often than the user does, through failed reports, full queues and lost  *)
(* connections - unless eventq_cleanup() purges, as expired, the key up of *)
(* a key that is recorded as pressed.                                      *)
(***************************************************************************)
MouseHasNoStuckKeys ==
  [][device.reports = {"mouse"} /\ Cardinality(device.transports) = 1 =>
       \A tr \in Reports : \A u \in {device.keymap[k].usage : k \in Keys} :
         Excess(tr, u)' > 0 /\ Excess(tr, u)' > Excess(tr, u) => KeyUpExpires(tr, u)]_vars

=============================================================================
