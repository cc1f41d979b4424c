---------------------------- MODULE HidsPeripheral --------------------------
(* The samples peripheral_hids_keyboard and peripheral_hids_mouse on the    *)
(* HID service, with several hosts.                                         *)
(*                                                                          *)
(* Two threads: "rx", the Bluetooth receive thread, runs the connection     *)
(* callbacks and the attribute handlers; "wq", the system work queue, runs  *)
(* the button handler of the DK library and what the sample submits.  Both  *)
(* are cooperative: they change places where one blocks, which is on the    *)
(* mutex of the contexts and in bt_gatt_notify_cb(), waiting for a buffer.  *)
EXTENDS Hids

CONSTANTS
  Conns,               \* connection objects
  Peers, Bonded,       \* hosts, and those the device is bonded with
  MAX_CLIENT_COUNT,    \* entries of conn_mode
  HIDS_QUEUE_SIZE,     \* movements that can wait
  MaxLeaks             \* bound: refused writes in a behaviour

ASSUME PeripheralSizes ==
  /\ Bonded \subseteq Peers
  /\ NoConn \notin Conns
  /\ BLOCKS <= MAX_CLIENT_COUNT   \* BT_GATT_HIDS_DEF: as many as clients
  /\ MAX_CLIENT_COUNT \in Nat \ {0} /\ HIDS_QUEUE_SIZE \in Nat \ {0}

Keyboard == [is_kb |-> TRUE, is_mouse |-> FALSE, inp |-> 1, outp |-> 1, feat |-> 0]
Mouse == [is_kb |-> FALSE, is_mouse |-> TRUE, inp |-> 3, outp |-> 0, feat |-> 0]

(* The text and the shift button of the keyboard, the four of the mouse.    *)
Buttons(d) == IF d.is_kb THEN {"text", "shift"} ELSE {"left"}

VARIABLES
  dev,        \* the sample: it does not change
  svc,        \* the attribute table and the pools
  lib,        \* the connection contexts and their mutex
  link,       \* stack: per connection its host and whether the link is up
  subs,       \* stack: per host the input reports it has notifications of
  conn_mode,  \* the sample's table of clients
  rx,         \* the handler that waits for the mutex in the receive thread
  wq,         \* where the work queue is
  held,       \* last_button_scan
  keys,       \* hid_keyboard_state
  moves,      \* hids_queue: how many movements wait
  work,       \* hids_work is pending
  seen,       \* history: the keys each host believes to be down
  refused,    \* history: writes refused
  cancelled   \* history: a disconnection cancelled the pending work

vars == <<dev, svc, lib, link, subs, conn_mode, rx, wq, held, keys,
          moves, work, seen, refused, cancelled>>

NoLink == [peer |-> "none", up |-> FALSE]
NoOp == [op |-> "none"]
Idle == [pc |-> "idle", i |-> 0, conn |-> NoConn, boot |-> FALSE,
         todo |-> <<>>, err |-> 0]

Init ==
  /\ dev \in {Keyboard, Mouse}
  /\ svc = bt_gatt_hids_init(EmptyPools, dev)
  /\ lib = InitCtx
  /\ link = [c \in Conns |-> NoLink]
  /\ subs \in [Peers -> {{}}]
  /\ conn_mode = [i \in 1 .. MAX_CLIENT_COUNT |->
                    [conn |-> NoConn, in_boot_mode |-> FALSE]]
  /\ rx = NoOp /\ wq = Idle
  /\ held \in SUBSET Buttons(dev)      \* buttons_scan_fn: the initial run
  /\ keys = {} /\ moves = 0 /\ work = FALSE
  /\ seen = [c \in Conns |-> {}]
  /\ refused = 0 /\ cancelled = FALSE

(* ----------------------- the receive thread ---------------------------- *)

(* Who gets the mutex when the receive thread gives it up for good.         *)
WqWaits == IF wq.pc = "lock" THEN "wq" ELSE NoThread

FreeClients == { i \in DOMAIN conn_mode : conn_mode[i].conn = NoConn }

KeepsMode(c) == [conn_mode EXCEPT ![Min(FreeClients)].conn = c]
TakesClient(c) ==
  [conn_mode EXCEPT ![Min(FreeClients)] = [conn |-> c, in_boot_mode |-> FALSE]]

(* connected(): the service may have no context left.                       *)
connected(l, c) ==
  LET n == bt_gatt_hids_notify_connected(l, c) IN
  /\ lib' = Unlock(n, WqWaits)
  /\ conn_mode' = IF n = l \/ FreeClients = {} THEN conn_mode ELSE TakesClient(c)
  /\ UNCHANGED <<subs, work, refused, cancelled>>

(* disconnected(): the mouse cancels its work whoever has left.             *)
disconnected(l, c) ==
  /\ lib' = Unlock(bt_gatt_hids_notify_disconnected(l, c), WqWaits)
  /\ conn_mode' = [i \in DOMAIN conn_mode |->
       IF conn_mode[i].conn = c THEN [conn_mode[i] EXCEPT !.conn = NoConn]
       ELSE conn_mode[i]]
  /\ subs' = IF link[c].peer \in Bonded THEN subs
             ELSE [subs EXCEPT ![link[c].peer] = {}]
  /\ work' = FALSE
  /\ cancelled' = (cancelled \/ work)
  /\ UNCHANGED refused

(* hids_pm_evt_handler() runs before the mode is stored.                    *)
hids_pm_evt_handler(c, value) ==
  [i \in DOMAIN conn_mode |->
     IF conn_mode[i].conn = c
     THEN [conn_mode[i] EXCEPT !.in_boot_mode = (value = "boot")]
     ELSE conn_mode[i]]

Accepted(l, op) == bt_conn_ctx_get(l, op.conn) # NoEntry /\ op.value # Refused
CountRefused(l, op) ==
  refused' = refused +
    (IF bt_conn_ctx_get(l, op.conn) # NoEntry /\ op.value = Refused THEN 1 ELSE 0)

ModeWritten(l, op) ==
  /\ lib' = hids_protocol_mode_write(l, op.conn, op.value, WqWaits)
  /\ conn_mode' = IF Accepted(l, op) THEN hids_pm_evt_handler(op.conn, op.value)
                  ELSE conn_mode
  /\ CountRefused(l, op)
  /\ UNCHANGED <<subs, work, cancelled>>

(* The output report and the boot output report: their value only reaches  *)
(* the LED, and is left out.                                                *)
OutputWritten(l, op) ==
  /\ lib' = IF op.op = "outp"
            THEN hids_outp_rep_write(l, op.conn, op.value, WqWaits)
            ELSE hids_boot_kb_outp_report_write(l, op.conn, op.value, WqWaits)
  /\ CountRefused(l, op)
  /\ UNCHANGED <<conn_mode, subs, work, cancelled>>

ReportRead(l, op) ==
  /\ lib' = hids_inp_rep_read(l, op.conn, WqWaits)
  /\ UNCHANGED <<conn_mode, subs, work, refused, cancelled>>

(* The part of a handler that needs the mutex, which l shows as taken.      *)
Handles(l, op) ==
  \/ op.op = "connected" /\ connected(l, op.conn)
  \/ op.op = "disconnected" /\ disconnected(l, op.conn)
  \/ op.op = "pm" /\ ModeWritten(l, op)
  \/ op.op \in {"outp", "bootout"} /\ OutputWritten(l, op)
  \/ op.op = "read" /\ ReportRead(l, op)

(* The connection object is free once disconnected() has run.               *)
Freed(lk, op) ==
  IF op.op = "disconnected" THEN [lk EXCEPT ![op.conn] = NoLink] ELSE lk

(* The receive thread runs while the work queue has nothing to do or waits. *)
WqBlocked == wq.pc \in {"idle", "lock", "notify"}

(* A callback starts, lk is what the stack has made of the links.  It goes  *)
(* through unless the work queue has the mutex.                             *)
Starts(op, lk) ==
  /\ rx = NoOp /\ WqBlocked
  /\ IF CanLock(lib, "rx")
     THEN Handles(Lock(lib, "rx"), op) /\ link' = Freed(lk, op) /\ UNCHANGED rx
     ELSE /\ rx' = op /\ link' = lk
          /\ UNCHANGED <<lib, conn_mode, subs, work, refused, cancelled>>
  /\ UNCHANGED <<dev, svc, wq, held, keys, moves>>

Connects(c, p) ==
  /\ link[c] = NoLink /\ \A d \in Conns : link[d].peer # p
  /\ seen' = [seen EXCEPT ![c] = {}]
  /\ Starts([op |-> "connected", conn |-> c],
            [link EXCEPT ![c] = [peer |-> p, up |-> TRUE]])

LosesLink(c) ==
  /\ link[c].up
  /\ seen' = [seen EXCEPT ![c] = {}]
  /\ Starts([op |-> "disconnected", conn |-> c], [link EXCEPT ![c].up = FALSE])

WritesMode(c, value) ==
  /\ link[c].up
  /\ value = Refused => refused < MaxLeaks
  /\ Starts([op |-> "pm", conn |-> c, value |-> value], link)
  /\ UNCHANGED seen

(* A host writes the output report of the mode it has chosen.               *)
WritesOutput(c, attr, value) ==
  /\ dev.is_kb /\ link[c].up
  /\ attr = "bootout" <=> \E x \in EntriesOf(lib, c) : lib.ctx[x].data.pm = "boot"
  /\ value = Refused => refused < MaxLeaks
  /\ Starts([op |-> attr, conn |-> c, value |-> value], link)
  /\ UNCHANGED seen

Reads(c) ==
  /\ link[c].up
  /\ Starts([op |-> "read", conn |-> c], link)
  /\ UNCHANGED seen

(* The CCC descriptors are the stack's; the samples have no handler.        *)
Subscribes(c, rep) ==
  /\ link[c].up /\ rx = NoOp /\ WqBlocked
  /\ subs' = [subs EXCEPT ![link[c].peer] =
                IF rep \in @ THEN @ \ {rep} ELSE @ \cup {rep}]
  /\ UNCHANGED <<dev, svc, lib, link, conn_mode, rx, wq, held, keys,
                 moves, work, seen, refused, cancelled>>

(* The mutex has been handed to the handler that waited for it.             *)
RxResumes ==
  /\ rx # NoOp /\ lib.owner = "rx" /\ WqBlocked
  /\ Handles(lib, rx) /\ link' = Freed(link, rx)
  /\ rx' = NoOp
  /\ UNCHANGED <<dev, svc, wq, held, keys, moves, seen>>

(* ----------------------- the work queue -------------------------------- *)

rxUnchanged == UNCHANGED <<dev, svc, link, subs, conn_mode, rx, refused,
                           cancelled>>

(* hids_is_notification_enabled(): by the address behind the connection.    *)
hids_is_notification_enabled(c, boot) ==
  (IF boot THEN "boot" ELSE "report") \in subs[link[c].peer]

(* The end of a key_report_send() with an error or without.                 *)
SendEnds(w, err) ==
  [w EXCEPT !.pc = IF w.todo = <<>> THEN "idle" ELSE "keys", !.err = err,
            !.i = 0, !.conn = NoConn, !.boot = FALSE]

(* After one client: the keyboard stops at an error, the mouse goes on.     *)
ReturnsAtOnce(w, err) ==
  IF dev.is_kb THEN SendEnds(w, err)
  ELSE [w EXCEPT !.pc = "loop", !.i = @ + 1, !.conn = NoConn, !.boot = FALSE]

AfterClient(w, err) ==
  IF err # 0 /\ dev.is_kb THEN SendEnds(w, err)
  ELSE [w EXCEPT !.pc = "loop", !.i = @ + 1, !.conn = NoConn, !.boot = FALSE]

(* buttons_scan_fn() and button_changed(): the keyboard handles text before *)
(* shift; the mouse queues a movement for what was pressed and submits its  *)
(* work for the first one.                                                  *)
Change(now, b) ==
  IF (b \in now) # (b \in held) THEN <<[key |-> b, down |-> b \in now]>> ELSE <<>>

SubmitsLate(n) == n = 2
Submits(n) == n = 1

ButtonsScanned(now) ==
  /\ wq.pc = "idle" /\ now # held
  /\ held' = now
  /\ IF dev.is_kb
     THEN /\ wq' = [wq EXCEPT !.pc = "keys", !.err = 0,
                      !.todo = Change(now, "text") \o Change(now, "shift")]
          /\ UNCHANGED <<moves, work>>
     ELSE /\ IF now \subseteq held \/ moves = HIDS_QUEUE_SIZE
             THEN UNCHANGED <<moves, work>>
             ELSE moves' = moves + 1 /\ work' = (work \/ Submits(moves + 1))
          /\ UNCHANGED wq
  /\ rxUnchanged /\ UNCHANGED <<lib, keys, seen>>

(* hid_buttons_press() and hid_buttons_release().  The text key of a button *)
(* that was held at start-up is not in keys_state: the search runs past the *)
(* array and returns by what it finds there.                                *)
KeyChanged ==
  LET k == Head(wq.todo)
      w == [wq EXCEPT !.todo = Tail(@), !.err = 0]
      send == [w EXCEPT !.pc = "loop", !.i = 1] IN
  /\ wq.pc = "keys"
  /\ keys' = IF k.down THEN keys \cup {k.key} ELSE keys \ {k.key}
  /\ wq' \in IF k.down \/ k.key = "shift" \/ k.key \in keys THEN {send}
             ELSE {send, SendEnds(w, 1)}
  /\ rxUnchanged /\ UNCHANGED <<lib, held, moves, work, seen>>

(* mouse_handler(): the loop over the queue is entered, or goes on.         *)
TakesMove(w) ==
  IF moves > 0
  THEN wq' = [w EXCEPT !.pc = "loop", !.i = 1] /\ moves' = moves - 1
  ELSE wq' = SendEnds(w, 0) /\ UNCHANGED moves

RunsWork ==
  /\ wq.pc = "idle" /\ work
  /\ work' = FALSE
  /\ TakesMove(wq)
  /\ rxUnchanged /\ UNCHANGED <<lib, held, keys, seen>>

(* From the mutex to the notification: the report is stored, and a link     *)
(* that is already down refuses it.                                         *)
SendsLocked(l, w) ==
  LET i == bt_conn_ctx_get(l, w.conn)
      rxWaits == IF rx # NoOp THEN "rx" ELSE NoThread IN
  IF i = NoEntry \/ ~link[w.conn].up
  THEN lib' = Unlock(l, rxWaits) /\ wq' = AfterClient(w, 1)
  ELSE lib' = l /\ wq' = [w EXCEPT !.pc = "notify"]

(* One turn of key_report_send() and mouse_movement_send().                 *)
PastClients(i) == i > MAX_CLIENT_COUNT

SendsToClient ==
  LET m == conn_mode[wq.i]
      w == [wq EXCEPT !.conn = m.conn, !.boot = m.in_boot_mode] IN
  /\ wq.pc = "loop"
  /\ CASE PastClients(wq.i) ->
            /\ IF dev.is_kb THEN wq' = SendEnds(wq, 0) /\ UNCHANGED moves
               ELSE TakesMove(wq)
            /\ UNCHANGED lib
       [] ~PastClients(wq.i) /\ m.conn = NoConn ->
            wq' = [wq EXCEPT !.i = @ + 1] /\ UNCHANGED <<lib, moves>>
       [] ~PastClients(wq.i) /\ m.conn # NoConn
          /\ ~hids_is_notification_enabled(m.conn, m.in_boot_mode) ->
            wq' = AfterClient(w, 1) /\ UNCHANGED <<lib, moves>>
       [] OTHER ->
            /\ IF CanLock(lib, "wq") THEN SendsLocked(Lock(lib, "wq"), w)
               ELSE wq' = [w EXCEPT !.pc = "lock"] /\ UNCHANGED lib
            /\ UNCHANGED moves
  /\ rxUnchanged /\ UNCHANGED <<held, keys, work, seen>>

WqResumes ==
  /\ wq.pc = "lock" /\ lib.owner = "wq"
  /\ SendsLocked(lib, wq)
  /\ rxUnchanged /\ UNCHANGED <<held, keys, moves, work, seen>>

(* bt_gatt_notify_cb() returns.  A link that went down meanwhile swallows   *)
(* the report or makes it fail.                                             *)
NotifyReturns ==
  /\ wq.pc = "notify"
  /\ IF link[wq.conn].up
     THEN /\ seen' = [seen EXCEPT ![wq.conn] = keys]
          /\ wq' = AfterClient(wq, 0)
     ELSE /\ \E err \in {0, 1} : wq' = AfterClient(wq, err)
          /\ UNCHANGED seen
  /\ lib' = Unlock(lib, IF rx # NoOp THEN "rx" ELSE NoThread)
  /\ rxUnchanged /\ UNCHANGED <<held, keys, moves, work>>

(* bt_gatt_hids_uninit() and bt_gatt_hids_init() by an application that has *)
(* no connection; uninit clears the CCC values with the instance.  The host *)
(* accepts both: the returns of a bt_gatt_service_unregister() or _register *)
(* that fails (hids.c:949, 957-960) are left out.                           *)
Reinitialises ==
  /\ wq.pc = "idle" /\ rx = NoOp /\ CanLock(lib, "wq")
  /\ \A c \in Conns : link[c] = NoLink
  /\ svc' = bt_gatt_hids_init(bt_gatt_hids_uninit(svc, dev), dev)
  /\ lib' = bt_conn_ctx_free_all(lib)
  /\ subs' = [p \in Peers |-> {}]
  /\ UNCHANGED <<dev, link, conn_mode, rx, wq, held, keys, moves, work,
                 seen, refused, cancelled>>

Next ==
  \/ \E c \in Conns :
       \/ \E p \in Peers : Connects(c, p)
       \/ LosesLink(c) \/ Reads(c)
       \/ \E v \in Modes \cup {Refused} : WritesMode(c, v)
       \/ \E a \in {"outp", "bootout"}, v \in {"leds", Refused} :
            WritesOutput(c, a, v)
       \/ \E r \in Modes : Subscribes(c, r)
  \/ RxResumes
  \/ \E now \in SUBSET Buttons(dev) : ButtonsScanned(now)
  \/ KeyChanged \/ RunsWork \/ SendsToClient \/ WqResumes \/ NotifyReturns
  \/ Reinitialises

Symmetry == Permutations(Conns)

Spec == Init /\ [][Next]_vars

(* ----------------------- properties ------------------------------------ *)

(* The sample's table of clients, the contexts of the service and the links *)
(* tell the same story whenever no callback is waiting: a client has a link *)
(* and one context, in the protocol mode that the sample sends in, and no   *)
(* context outlives its link.  hids_pm_evt_handler(), connected() and       *)
(* disconnected() against protocol mode writes and reused table entries.    *)
ClientsAgree ==
  rx = NoOp =>
    /\ \A i \in DOMAIN conn_mode :
         LET c == conn_mode[i].conn IN
         c # NoConn =>
           /\ link[c].up
           /\ \E x \in DOMAIN lib.ctx :
                /\ EntriesOf(lib, c) = {x}
                /\ conn_mode[i].in_boot_mode = (lib.ctx[x].data.pm = "boot")
    /\ \A x \in Used(lib) :
         \E i \in DOMAIN conn_mode : conn_mode[i].conn = lib.ctx[x].conn

(* No key stays down on a host: once the keyboard has handled its buttons   *)
(* and key_report_send() has returned 0, no host that is connected has seen *)
(* a key go down that is up by now, whatever hosts came, went, changed mode *)
(* or subscription while the reports were sent.  (When it returns an error  *)
(* the hosts behind the one that failed have been left out.)                *)
NoStuckKeys ==
  (wq.pc = "idle" /\ wq.err = 0) =>
    \A c \in Conns : link[c].up => seen[c] \subseteq keys

(* A movement that waits in hids_queue has a work that will send it, or the *)
(* work queue is at it.  Two ways to be silent are not excluded: once a     *)
(* disconnection has cancelled the work, the queue is never seen with one   *)
(* element again and nothing is said from there on; and a work queue that   *)
(* waits in "lock" counts as being at it, also when the mutex was left      *)
(* locked by a refused write and never comes (SenderNotBlocked, below).     *)
MovesGoOn ==
  moves > 0 => work \/ cancelled \/ wq.pc \in {"loop", "lock", "notify"}

(* The mutex of the contexts is free between two calls but for the writes   *)
(* that were refused: each of them left it locked once, and then, and only  *)
(* then, the work queue waits although no callback is running.              *)
MutexReturned ==
  rx = NoOp =>
    /\ wq.pc \notin {"notify", "lock"} => lib.n = refused
    /\ (wq.pc = "lock" /\ lib.owner # "wq") => refused > 0

(* Every element that is locked in a pool belongs to one attribute of the   *)
(* service, initialised once or again, and what the reports remember as     *)
(* their attribute is a value that can be notified.  (Looked at while there *)
(* is no connection, which is when the service can change.)                 *)
ServiceSound ==
  (\A c \in Conns : link[c] = NoLink) =>
    /\ PoolsBalanced(svc)
    /\ \A r \in 1 .. dev.inp : Notifies(svc, inp_att_ind(dev, r))
    /\ Notifies(svc, boot_att_ind(dev))

(* conn_ctx.h: bt_conn_ctx_get() "should be used in conjunction with        *)
(* bt_conn_ctx_release to ensure proper operation": the work queue waits    *)
(* for the mutex only while a callback is using the contexts.               *)
SenderNotBlocked == ~(wq.pc = "lock" /\ rx = NoOp /\ lib.owner = "rx")

=============================================================================
