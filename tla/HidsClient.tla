----------------------------- MODULE HidsClient -----------------------------
(***************************************************************************)
(* The HID service client (subsys/bluetooth/services/hids_c.c): it takes   *)
(* the handles of a discovered HID service, allocates a structure for each *)
(* report from a slab shared by all clients, reads what it needs to know   *)
(* of the peer, and reads, writes and subscribes to the reports.  The      *)
(* operators take and return the client hc and the number of slab blocks   *)
(* in use, as [hc, used, err]; err is 0 or the negative error code of the  *)
(* function, by name.                                                      *)
(*                                                                         *)
(* A request given to the stack is hc.req: "info", "ref" or "pm".  Freeing *)
(* a report that was never allocated writes through a null pointer: that   *)
(* sets hc.fault.                                                          *)
(***************************************************************************)
EXTENDS GattDm, SequencesExt

CONSTANT ReportsMax  \* CONFIG_BT_GATT_HIDS_C_REPORTS_MAX

NoReport == [type |-> "none"]

\* Reports are named by number: their index, or one of these (rep_boot).
mouse_inp == 101
kbd_inp == 102
kbd_out == 103

HcInit ==
  [rep_info |-> << >>, rep_cnt |-> 0,
   boot |-> [r \in {mouse_inp, kbd_inp, kbd_out} |-> NoReport],
   has_pm |-> FALSE, pm |-> "REPORT",
   ready |-> FALSE, conn |-> FALSE, fault |-> FALSE,
   sem |-> 1,            \* read_params_sem, at most 1
   req |-> "none",       \* the read given to the stack
   rep_idx |-> 0]        \* init_repref.rep_idx

-----------------------------------------------------------------------------
(* Reports.                                                                *)

\* The type is guessed from the properties of the characteristic.
GuessedType(ch) ==
  CASE "write_wo_rsp" \in ch.props -> "OUTPUT"
    [] "write_wo_rsp" \notin ch.props /\ "notify" \in ch.props -> "INPUT"
    [] OTHER -> "FEATURE"

\* rep_new(): the block is given back when a descriptor is missing.
rep_new(used, peer, i) ==
  LET ch == peer.chars[i]
      missing == \/ GuessedType(ch) = "INPUT" /\ ~bt_gatt_dm_desc_by_uuid(peer, i, "CCC")
                 \/ ch.uuid = "REPORT" /\ ~bt_gatt_dm_desc_by_uuid(peer, i, "REF")
  IN  CASE used >= ReportsMax -> [err |-> "ENOMEM", used |-> used, rep |-> NoReport]
        [] used < ReportsMax /\ missing ->
             [err |-> "EINVAL", used |-> used, rep |-> NoReport]
        [] OTHER ->
             [err |-> "OK", used |-> used + 1,
              rep |-> [type |-> GuessedType(ch), id |-> 0, char |-> i,
                       notify_cb |-> FALSE, write_cb |-> FALSE, read_cb |-> FALSE]]

Held(hc) ==
  Cardinality({r \in DOMAIN hc.boot : hc.boot[r] # NoReport})
  + Cardinality({i \in DOMAIN hc.rep_info : hc.rep_info[i] # NoReport})

ReleaseKeepsBoot(hc, used) ==
  [hc |-> [HcInit EXCEPT !.pm = hc.pm, !.req = hc.req, !.rep_idx = hc.rep_idx],
   used |-> used - hc.rep_cnt, err |-> "OK"]

\* bt_gatt_hids_c_release(): every entry of the array is freed, whether or
\* not a report was created there, and each boot report there is; the
\* semaphore is given whoever holds it.
bt_gatt_hids_c_release(hc, used) ==
  [hc |-> [HcInit EXCEPT !.pm = hc.pm, !.req = hc.req, !.rep_idx = hc.rep_idx,
                         !.fault = \E i \in DOMAIN hc.rep_info : hc.rep_info[i] = NoReport],
   used |-> used - hc.rep_cnt
                 - Cardinality({r \in DOMAIN hc.boot : hc.boot[r] # NoReport}),
   err |-> "OK"]

-----------------------------------------------------------------------------
(* Handles.                                                                *)

Mandatory(peer) ==
  \A u \in {"CTRL_POINT", "INFO", "REPORT_MAP"} : bt_gatt_dm_char_by_uuid(peer, u) # 0

\* One boot report, if the characteristic is there and nothing failed yet.
BootReport(r, peer, which, uuid) ==
  LET i == bt_gatt_dm_char_by_uuid(peer, uuid)
      n == rep_new(r.used, peer, i)
  IN  IF r.err # "OK" \/ i = 0 THEN r
      ELSE [hc |-> [r.hc EXCEPT !.boot[which] = n.rep], used |-> n.used, err |-> n.err]

\* The boot keyboard is used only when both of its reports are there.
BootReports(r, peer) ==
  LET mouse == BootReport(r, peer, mouse_inp, "BOOT_MOUSE_IN")
      kbd == \A u \in {"BOOT_KB_IN", "BOOT_KB_OUT"} : bt_gatt_dm_char_by_uuid(peer, u) # 0
  IN  IF kbd THEN BootReport(BootReport(mouse, peer, kbd_inp, "BOOT_KB_IN"),
                             peer, kbd_out, "BOOT_KB_OUT")
      ELSE mouse

\* Protocol mode is mandatory with a boot report and ignored otherwise.
ProtocolMode(r, peer) ==
  IF r.err # "OK" \/ \A b \in DOMAIN r.hc.boot : r.hc.boot[b] = NoReport THEN r
  ELSE IF bt_gatt_dm_char_by_uuid(peer, "PROTOCOL_MODE") = 0
       THEN [r EXCEPT !.err = "EINVAL"]
       ELSE [r EXCEPT !.hc.has_pm = TRUE]

\* rep_cnt is the number of report characteristics before any is created;
\* heap says whether there is memory for the array.
Reports(r, peer, heap) ==
  LET is == SetToSortSeq({i \in DOMAIN peer.chars : peer.chars[i].uuid = "REPORT"}, <)
      start == [r EXCEPT !.hc.rep_info = [k \in DOMAIN is |-> NoReport],
                         !.hc.rep_cnt = Len(is)]
      create(k, s) ==
        LET n == rep_new(s.used, peer, is[k])
        IN  IF s.err # "OK" THEN s
            ELSE [hc |-> [s.hc EXCEPT !.rep_info[k] = n.rep],
                  used |-> n.used, err |-> n.err]
  IN  CASE r.err # "OK" -> r
        [] r.err = "OK" /\ ~heap -> [r EXCEPT !.err = "ENOMEM"]
        [] OTHER -> FoldLeft(LAMBDA s, k : create(k, s), start, [k \in DOMAIN is |-> k])

\* post_discovery_start() and hid_info_read_start().
post_discovery_start(r, failed) ==
  CASE r.err # "OK" -> r
    [] r.err = "OK" /\ r.hc.sem = 0 -> [r EXCEPT !.err = "EBUSY", !.hc.conn = TRUE]
    [] r.err = "OK" /\ r.hc.sem = 1 /\ failed -> [r EXCEPT !.err = "EIO", !.hc.conn = TRUE]
    [] OTHER -> [r EXCEPT !.hc.conn = TRUE, !.hc.sem = 0, !.hc.req = "info"]

handles_assign_internal(hc, used, peer, failed, heap) ==
  LET r == bt_gatt_hids_c_release(hc, used)
      boot == ProtocolMode(BootReports(r, peer), peer)
  IN  CASE ~peer.hids -> [r EXCEPT !.err = "ENOTSUP"]
        [] peer.hids /\ ~Mandatory(peer) -> [r EXCEPT !.err = "EINVAL"]
        [] OTHER -> post_discovery_start(Reports(boot, peer, heap), failed)

bt_gatt_hids_c_handles_assign(hc, used, peer, failed, heap) ==
  LET r == handles_assign_internal(hc, used, peer, failed, heap)
  IN  IF r.err = "OK" THEN r
      ELSE [bt_gatt_hids_c_release(r.hc, r.used) EXCEPT !.err = r.err]

bt_gatt_hids_c_assign_check(hc) == hc.conn
bt_gatt_hids_c_ready_check(hc) == hc.ready

-----------------------------------------------------------------------------
(* Preparation: HID information, then the reference of every report, then  *)
(* the protocol mode.  ok says that the peer answered with what is         *)
(* expected, failed that the next request was refused by the stack.  The   *)
(* result has ready = TRUE in the step that calls ready_cb.                *)

hids_mark_ready(hc) == [hc EXCEPT !.sem = 1, !.ready = TRUE, !.req = "none"]

hids_prep_error(hc) == [hc EXCEPT !.sem = 1, !.req = "none"]

pm_read_start(hc, failed) ==
  CASE ~hc.has_pm -> hids_mark_ready(hc)
    [] hc.has_pm /\ failed -> hids_prep_error(hc)
    [] OTHER -> [hc EXCEPT !.req = "pm"]

repref_read_start(hc, idx, failed) ==
  CASE idx > hc.rep_cnt -> pm_read_start(hc, failed)
    [] idx <= hc.rep_cnt /\ failed -> hids_prep_error([hc EXCEPT !.rep_idx = idx])
    [] OTHER -> [hc EXCEPT !.req = "ref", !.rep_idx = idx]

hid_info_read_process(hc, ok, failed) ==
  IF ok THEN repref_read_start(hc, 1, failed) ELSE hids_prep_error(hc)

repref_read_process(hc, ok, id, failed) ==
  IF ok
  THEN repref_read_start([hc EXCEPT !.rep_info[hc.rep_idx].id = id],
                         hc.rep_idx + 1, failed)
  ELSE hids_prep_error(hc)

pm_read_process(hc, ok, pm) ==
  IF ok THEN hids_mark_ready([hc EXCEPT !.pm = pm]) ELSE hids_prep_error(hc)

-----------------------------------------------------------------------------
(* Using the reports.                                                      *)

rep_at(hc, r) == IF r \in DOMAIN hc.boot THEN hc.boot[r] ELSE hc.rep_info[r]
rep_set(hc, r, f, v) ==
  IF r \in DOMAIN hc.boot THEN [hc EXCEPT !.boot[r] = [@ EXCEPT ![f] = v]]
  ELSE [hc EXCEPT !.rep_info[r] = [@ EXCEPT ![f] = v]]

\* -ENOTSUP, -EALREADY, or the error of the stack, which takes it back.
bt_gatt_hids_c_rep_subscribe(hc, r, failed) ==
  IF rep_at(hc, r).type # "INPUT" \/ rep_at(hc, r).notify_cb \/ failed THEN hc
  ELSE rep_set(hc, r, "notify_cb", TRUE)

\* Whether the write is given to the stack: not when one is under way.
CanWrite(hc, r, failed) == ~rep_at(hc, r).write_cb /\ ~failed

bt_gatt_hids_c_rep_write(hc, r, failed) ==
  IF CanWrite(hc, r, failed) THEN rep_set(hc, r, "write_cb", TRUE) ELSE hc

\* The callback is called before it is cleared: it may not write again.
rep_write_process(hc, r) == rep_set(hc, r, "write_cb", FALSE)

bt_gatt_hids_c_rep_read(hc, r, failed) ==
  IF rep_at(hc, r).read_cb \/ failed THEN hc ELSE rep_set(hc, r, "read_cb", TRUE)

rep_read_process(hc, r) == rep_set(hc, r, "read_cb", FALSE)

\* -EOPNOTSUPP without the characteristic; otherwise pm is what was written.
bt_gatt_hids_c_pm_write(hc, pm, failed) ==
  IF hc.has_pm /\ ~failed THEN [hc EXCEPT !.pm = pm] ELSE hc

bt_gatt_hids_c_rep_find(hc, type, id) ==
  LET is == {i \in 1 .. hc.rep_cnt : hc.rep_info[i].id = id /\ hc.rep_info[i].type = type}
  IN  IF is = {} THEN 0 ELSE Min(is)
=============================================================================
