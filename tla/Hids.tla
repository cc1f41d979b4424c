-------------------------------- MODULE Hids --------------------------------
(* subsys/bluetooth/services/hids.c: the HID service of a peripheral, and   *)
(* subsys/bluetooth/conn_ctx.c, where it keeps a context per connection.    *)
(*                                                                          *)
(* A device is a record of what bt_gatt_hids_init() is given: the numbers   *)
(* of input, output and feature reports, is_mouse and is_kb.  What a        *)
(* context stores of the reports is only ever read back, and is left out.   *)
(* The handlers work on the contexts l, with the mutex held: what they      *)
(* return has the mutex released, or not.                                   *)
EXTENDS GattPool, TLC

CONSTANTS MAX_CONN,      \* BT_MAX_CONN, the length of the array
          BLOCKS         \* the blocks of the memory slab

ASSUME ConnCtxSizes == MAX_CONN \in Nat \ {0} /\ BLOCKS \in Nat \ {0}

(* ------------------------- connection contexts ------------------------ *)
(* subsys/bluetooth/conn_ctx.c: one context per connection, guarded by a    *)
(* recursive mutex that alloc and get leave locked until release.  l.ctx is *)
(* the array of contexts; l.owner and l.n are the thread that holds the     *)
(* mutex and how often it took it.  A thread that unlocks for the last time *)
(* hands the mutex to the thread that waits for it.                         *)

NoConn == "NULL"
NoThread == "none"
NoEntry == 0

EmptyCtx == [conn |-> NoConn]
InitCtx == [ctx |-> [i \in 1 .. MAX_CONN |-> EmptyCtx],
            owner |-> NoThread, n |-> 0]

CanLock(l, t) == l.owner \in {NoThread, t}
Lock(l, t) == [l EXCEPT !.owner = t, !.n = @ + 1]
Unlock(l, waiting) ==
  IF l.n > 1 THEN [l EXCEPT !.n = @ - 1]
  ELSE [l EXCEPT !.owner = waiting, !.n = IF waiting = NoThread THEN 0 ELSE 1]

Used(l) == { i \in DOMAIN l.ctx : l.ctx[i].conn # NoConn }
EntriesOf(l, conn) == { i \in DOMAIN l.ctx : l.ctx[i].conn = conn }

(* The first free entry, if the slab has a block for it.                    *)
bt_conn_ctx_alloc(l, conn, data) ==
  IF Used(l) = DOMAIN l.ctx \/ Cardinality(Used(l)) >= BLOCKS THEN l
  ELSE [l EXCEPT !.ctx[Min(DOMAIN l.ctx \ Used(l))] =
          [conn |-> conn, data |-> data]]

bt_conn_ctx_free(l, conn) ==
  [l EXCEPT !.ctx = [i \in DOMAIN @ |->
     IF EntriesOf(l, conn) # {} /\ i = Min(EntriesOf(l, conn)) THEN EmptyCtx
     ELSE @[i]]]

bt_conn_ctx_free_all(l) == [l EXCEPT !.ctx = [i \in DOMAIN @ |-> EmptyCtx]]

(* What get finds; release asserts that the data still belongs to an entry. *)
bt_conn_ctx_get(l, conn) ==
  IF EntriesOf(l, conn) = {} THEN NoEntry ELSE Min(EntriesOf(l, conn))

(* ------------------------- the service --------------------------------- *)

Modes == {"boot", "report"}

(* ------------------------- registration ------------------------------- *)

Times(n, kinds) == FlattenSeq([i \in 1 .. n |-> kinds])

hids_input_reports_register(dev) == Times(dev.inp, <<"chrc", "desc", "ccc", "desc">>)
hids_outp_reports_register(dev) == Times(dev.outp, <<"chrc", "desc", "desc">>)
hids_feat_reports_register(dev) == Times(dev.feat, <<"chrc", "desc", "desc">>)

BootMouse(dev) == IF dev.is_mouse THEN <<"chrc", "desc", "ccc">> ELSE <<>>
BootKeyboard(dev) ==
  IF dev.is_kb THEN <<"chrc", "desc", "ccc", "chrc", "desc">> ELSE <<>>

bt_gatt_hids_init(g, dev) ==
  FoldLeft(PoolGet, g,
    <<"svc", "chrc", "desc">> \o hids_input_reports_register(dev)
      \o hids_outp_reports_register(dev) \o hids_feat_reports_register(dev)
      \o <<"chrc", "desc">> \o BootMouse(dev) \o BootKeyboard(dev)
      \o <<"chrc", "desc", "chrc", "desc">>)

(* att_ind of an input report and of the boot input report: the number of   *)
(* attributes once the characteristic is declared.                          *)
inp_att_ind(dev, r) == 3 + 4 * (r - 1) + 1
boot_att_ind(dev) ==
  3 + 4 * dev.inp + 3 * dev.outp + 3 * dev.feat + 2 + 1

(* The attributes go back in the order that uninit believes they came in.   *)
UninitOrder(dev) ==
  <<"svc", "chrc", "desc">> \o Times(dev.inp, <<"chrc", "desc", "ccc", "desc">>)
    \o Times(dev.outp, <<"chrc", "desc", "desc">>)
    \o Times(dev.feat, <<"chrc", "desc", "desc">>)
    \o <<"chrc", "desc">>
    \o (IF dev.is_mouse THEN <<"chrc", "desc", "ccc">> ELSE <<>>)
    \o (IF dev.is_kb THEN <<"chrc", "desc", "ccc", "chrc", "desc">> ELSE <<>>)
    \o <<"chrc", "desc", "chrc", "desc">>

bt_gatt_hids_uninit(g, dev) ==
  LET order == UninitOrder(dev) IN
  [FoldLeft(LAMBDA a, i : PoolPut(a, order[i], g.attrs[i]), g,
            [i \in 1 .. Len(order) |-> i]) EXCEPT !.attrs = <<>>]

(* The attribute that a notification names is the value of a characteristic *)
(* with a CCC descriptor behind it.                                         *)
Notifies(g, ind) == g.attrs[ind + 1].kind = "desc" /\ g.attrs[ind + 2].kind = "ccc"

(* ------------------------- connections -------------------------------- *)

NewData == [pm |-> "report"]

bt_gatt_hids_notify_connected(l, conn) == bt_conn_ctx_alloc(l, conn, NewData)
bt_gatt_hids_notify_disconnected(l, conn) == bt_conn_ctx_free(l, conn)

(* ------------------------- attribute handlers ------------------------- *)
(* The mutex is held on entry when the context exists.  A write that is     *)
(* refused returns without releasing it.                                    *)

Refused == "refused"        \* an unknown value, or one that is too long

hids_protocol_mode_write(l, conn, value, w) ==
  LET i == bt_conn_ctx_get(l, conn) IN
  IF i = NoEntry THEN Unlock(l, w)
  ELSE IF value \notin Modes THEN l
  ELSE Unlock([l EXCEPT !.ctx[i].data.pm = value], w)

hids_outp_rep_write(l, conn, value, w) ==
  IF bt_conn_ctx_get(l, conn) # NoEntry /\ value = Refused THEN l
  ELSE Unlock(l, w)

hids_boot_kb_outp_report_write(l, conn, value, w) ==
  IF bt_conn_ctx_get(l, conn) # NoEntry /\ value = Refused THEN l
  ELSE Unlock(l, w)

(* Reading a report: with or without a context the mutex is free again.     *)
ReadKeepsMutex(l, conn, w) == IF bt_conn_ctx_get(l, conn) = NoEntry
                              THEN Unlock(l, w) ELSE l

hids_inp_rep_read(l, conn, w) == Unlock(l, w)
=============================================================================
