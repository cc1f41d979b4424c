----------------------------- MODULE HidState -------------------------------
(***************************************************************************)
(* The nRF desktop HID state module (modules/hid_state.c): it turns key,   *)
(* motion and wheel events into reports for one selected subscriber.       *)
(*                                                                         *)
(* The module is driven by the event manager: its handler runs for one     *)
(* event at a time, in the order of submission, and submits report events. *)
(* The operators below are its functions; each takes the module's state h  *)
(* (the static variable "state") and returns the new one, or a pair        *)
(* [h, out] with the report events it has submitted.                       *)
(***************************************************************************)
EXTENDS HidReportData

CONSTANTS
  Reports,       \* the target reports of the device: "mouse", "keyboard"
  CntMod         \* the modulus of the unsigned counter report_state.cnt

ASSUME HidReports == Reports \subseteq {"mouse", "keyboard"} /\ CntMod \in Nat \ {0, 1}

NoId == "null"
Ids == {"usb", "ble"}
SubscriberSlots == 1 .. 2
NoSlot == 0

FreeSlot == [id |-> NoId,
             state |-> [tr \in Reports |-> "DISCONNECTED"],
             cnt |-> [tr \in Reports |-> 0]]

\* motion stands for last_dx and last_dy: whether one of them is not 0.
HidInit == [report_data |-> [tr \in Reports |-> NewReportData],
            subscriber |-> [s \in SubscriberSlots |-> FreeSlot],
            selected |-> NoSlot,
            motion |-> FALSE,
            wheel_acc |-> 0]

Quiet(h) == [h |-> h, out |-> << >>]

ReportEvent(id, tr) == [type |-> "report", sub |-> id, tr |-> tr]

-----------------------------------------------------------------------------
(* Subscribers.                                                            *)

\* The first slot with this identity; NULL finds a free slot.
get_subscriber(h, id) ==
  LET found == {s \in SubscriberSlots : h.subscriber[s].id = id}
  IN  IF found = {} THEN NoSlot ELSE Min(found)

HasUsb(h) == get_subscriber(h, "usb") # NoSlot

\* USB takes over; a Bluetooth peer is selected only when nobody is.
SelectNew(h, s, id) ==
  IF h.selected = NoSlot \/ id = "usb" THEN s ELSE h.selected

connect_subscriber(h, id) ==
  LET s == get_subscriber(h, NoId)
  IN  IF s = NoSlot THEN h
      ELSE [h EXCEPT !.subscriber[s].id = id, !.selected = SelectNew(h, s, id)]

ClearData(h, tr) == [h EXCEPT !.report_data[tr] = NewReportData]

\* The slot keeps its report state and its counter.
DisconnectKeepsState(h, id) ==
  LET s == get_subscriber(h, id)
      h2 == [h EXCEPT !.subscriber[s].id = NoId]
  IN  CASE s = NoSlot -> h
        [] s # NoSlot /\ s = h.selected -> [h2 EXCEPT !.selected = get_subscriber(h2, "ble")]
        [] OTHER -> h2

\* Only the mouse data is cleared, and only if it was being sent.
disconnect_subscriber(h, id) ==
  LET s == get_subscriber(h, id)
      active == s = h.selected
      h1 == IF active /\ "mouse" \in Reports
               /\ h.subscriber[s].state["mouse"] # "DISCONNECTED"
            THEN ClearData(h, "mouse") ELSE h
      h2 == [h1 EXCEPT !.subscriber[s] = FreeSlot]
  IN  CASE s = NoSlot -> h
        [] s # NoSlot /\ active -> [h2 EXCEPT !.selected = get_subscriber(h2, "ble")]
        [] OTHER -> h2

-----------------------------------------------------------------------------
(* Reports.                                                                *)

Pointer(h) == h.motion \/ h.wheel_acc # 0

update_report(h, tr) ==
  LET rd == h.report_data[tr]
  IN  [h |-> [h EXCEPT !.report_data[tr] = TakeEvents(rd)],
       needed |-> Updating(rd) # {} \/ (tr = "mouse" /\ Pointer(h))]

\* C division: toward zero.
Half(w) == IF w >= 0 THEN w \div 2 ELSE -((-w) \div 2)

\* send_report_keyboard() and send_report_mouse(), and the count of it.
SendReport(h, tr) ==
  LET h1 == IF tr = "mouse"
            THEN [h EXCEPT !.motion = FALSE, !.wheel_acc = @ - 2 * Half(@)] ELSE h
  IN  [h |-> [h1 EXCEPT !.subscriber[h.selected].cnt[tr] = @ + 1],
       out |-> <<ReportEvent(h.subscriber[h.selected].id, tr)>>]

pipeline_depth(id) == IF id = "usb" THEN 1 ELSE 2

\* The loop of report_send(): at most pipeline_depth reports.
SendLoop(h, tr, send_always) ==
  LET sel == h.selected
      depth == pipeline_depth(h.subscriber[sel].id)
      loop[n \in 0 .. 2] ==
        IF n = 0 THEN Quiet(h)
        ELSE LET s == loop[n - 1]
                 u == update_report(s.h, tr)
                 r == SendReport(u.h, tr)
             IN  CASE s.h.subscriber[sel].cnt[tr] >= depth -> s
                   [] s.h.subscriber[sel].cnt[tr] < depth /\ (u.needed \/ send_always) ->
                        [h |-> r.h, out |-> s.out \o r.out]
                   [] OTHER -> [s EXCEPT !.h = u.h]
  IN  loop[2]

SetState(h, s, tr, st) == [h EXCEPT !.subscriber[s].state[tr] = st]

report_send(h, tr, check_state, send_always) ==
  IF h.selected = NoSlot
     \/ (check_state /\ h.subscriber[h.selected].state[tr] = "DISCONNECTED")
  THEN Quiet(h)
  ELSE LET r == SendLoop(h, tr, send_always)
           busy == r.h.subscriber[h.selected].cnt[tr] # 0
       IN  [r EXCEPT !.h = SetState(@, h.selected, tr,
                             IF busy THEN "BUSY" ELSE "IDLE")]

IdleIfDone(h, s, tr) ==
  IF h.subscriber[s].cnt[tr] = 0 THEN SetState(h, s, tr, "IDLE") ELSE h

\* A report that failed takes everything recorded with it.
ReportFailed(h, tr) ==
  LET h1 == ClearData(h, tr)
  IN  IF tr = "mouse" THEN [h1 EXCEPT !.motion = FALSE, !.wheel_acc = 0] ELSE h1

report_issued(h, id, tr, error) ==
  LET s == get_subscriber(h, id)
      h1 == [h EXCEPT !.subscriber[s].cnt[tr] = (@ - 1) % CntMod]
  IN  CASE s = NoSlot -> Quiet(h)
        [] s # NoSlot /\ s # h.selected -> Quiet(IdleIfDone(h1, s, tr))
        [] s # NoSlot /\ s = h.selected /\ error ->
             Quiet(IdleIfDone(ReportFailed(h1, tr), s, tr))
        [] OTHER -> IF h1.subscriber[s].cnt[tr] = 0
                    THEN report_send(h1, tr, FALSE, FALSE) ELSE Quiet(h1)

connect(h, id, tr) ==
  LET s == get_subscriber(h, id)
      h1 == SetState(h, s, tr, "IDLE")
      h2 == IF tr = "mouse" THEN [h1 EXCEPT !.motion = FALSE, !.wheel_acc = 0] ELSE h1
      h3 == [h2 EXCEPT !.report_data[tr].eventq = eventq_cleanup(@, Expired(@))]
  IN  CASE s = NoSlot -> Quiet(h)
        [] s # NoSlot /\ s # h.selected -> Quiet(h1)
        [] OTHER -> report_send(h3, tr, FALSE, TRUE)

\* The report data is cleared, whoever unsubscribes.
disconnect(h, id, tr) ==
  LET s == get_subscriber(h, id)
  IN  IF s = NoSlot THEN h ELSE ClearData(SetState(h, s, tr, "DISCONNECTED"), tr)

(***************************************************************************)
(* update_key(): with no selected subscriber the code reads its state      *)
(* through a null pointer; garbage is what it finds there.                 *)
(***************************************************************************)
update_key(h, tr, u, v, garbage) ==
  LET sel == h.selected
      st == h.subscriber[sel].state[tr]
      connected == IF sel = NoSlot THEN garbage ELSE st # "DISCONNECTED"
      rd == h.report_data[tr]
  IN  CASE sel = NoSlot \/ st # "IDLE" ->
             Quiet([h EXCEPT !.report_data[tr] = enqueue(rd, u, v, connected)])
        [] sel # NoSlot /\ st = "IDLE" /\ Records(rd.items, u, v) ->
             report_send([h EXCEPT !.report_data[tr].items = key_value_set(rd.items, u, v)],
                         tr, FALSE, TRUE)
        [] OTHER -> Quiet(h)

-----------------------------------------------------------------------------
(***************************************************************************)
(* event_handler(): what the module does with an event.                    *)
(***************************************************************************)
HidHandles(h, e, garbage) ==
  CASE e.type = "motion" ->
         report_send([h EXCEPT !.motion = TRUE], "mouse", TRUE, TRUE)
    [] e.type = "wheel" ->
         report_send([h EXCEPT !.wheel_acc = @ + e.step], "mouse", TRUE, TRUE)
    [] e.type = "sent" -> report_issued(h, e.sub, e.tr, e.error)
    [] e.type = "button" -> update_key(h, e.tr, e.usage, IF e.pressed THEN 1 ELSE -1, garbage)
    [] e.type = "subscription" ->
         IF e.enabled THEN connect(h, e.sub, e.tr) ELSE Quiet(disconnect(h, e.sub, e.tr))
    [] e.type = "peer" ->
         CASE e.state = "CONNECTED" -> Quiet(connect_subscriber(h, "ble"))
           [] e.state = "DISCONNECTED" -> Quiet(disconnect_subscriber(h, "ble"))
           [] OTHER -> Quiet(h)
    [] e.type = "usb" ->
         CASE e.state = "POWERED" /\ ~HasUsb(h) -> Quiet(connect_subscriber(h, "usb"))
           [] e.state = "DISCONNECTED" -> Quiet(disconnect_subscriber(h, "usb"))
           [] OTHER -> Quiet(h)
    [] OTHER -> Quiet(h)
=============================================================================
