----------------------------- MODULE HidsProofs -----------------------------
(* Proofs about the HID peripheral samples, for every number of connections, *)
(* clients, hosts and queued movements.                                      *)
EXTENDS HidsPeripheral, FiniteSetTheorems, WellFoundedInduction, TLAPS

(* ----------------------- the inductive invariant ------------------------ *)

Ctx == {EmptyCtx} \cup [conn : Conns, data : [pm : Modes]]
Client == [conn : Conns \cup {NoConn}, in_boot_mode : BOOLEAN]
Handler ==
  [op : {"connected", "disconnected", "read"}, conn : Conns]
    \cup [op : {"pm"}, conn : Conns, value : Modes \cup {Refused}]
    \cup [op : {"outp", "bootout"}, conn : Conns, value : {"leds", Refused}]
Key == [key : {"text", "shift"}, down : BOOLEAN]
Sender ==
  [pc : {"idle", "keys", "loop", "lock", "notify"},
   i : 0 .. MAX_CLIENT_COUNT + 1, conn : Conns \cup {NoConn},
   boot : BOOLEAN, todo : Seq(Key), err : {0, 1}]

(* The type of the state.                                                   *)
TypeOK ==
  /\ dev \in {Keyboard, Mouse}
  /\ lib \in [ctx : [1 .. MAX_CONN -> Ctx],
              owner : {NoThread, "rx", "wq"}, n : Nat]
  /\ link \in [Conns -> [peer : Peers \cup {"none"}, up : BOOLEAN]]
  /\ subs \in [Peers -> SUBSET Modes]
  /\ conn_mode \in [1 .. MAX_CLIENT_COUNT -> Client]
  /\ rx \in {NoOp} \cup Handler
  /\ wq \in Sender
  /\ keys \in SUBSET {"text", "shift"}
  /\ moves \in Nat /\ work \in BOOLEAN
  /\ seen \in [Conns -> SUBSET {"text", "shift"}]
  /\ refused \in Nat /\ cancelled \in BOOLEAN

(* Who holds the mutex, and how often: a sender that waits for its         *)
(* notification or was handed the mutex, once; the receive thread once for *)
(* every refused write, and once more for the handler it was handed to.    *)
MutexHeld ==
  /\ lib.owner = NoThread =>
       lib.n = 0 /\ refused = 0 /\ wq.pc \notin {"notify", "lock"} /\ rx = NoOp
  /\ lib.owner = "wq" =>
       lib.n = 1 /\ refused = 0 /\ wq.pc \in {"notify", "lock"}
  /\ lib.owner = "rx" =>
       /\ wq.pc # "notify"
       /\ rx = NoOp => lib.n = refused /\ refused > 0
       /\ rx # NoOp => lib.n = 1 /\ refused = 0

(* The keyboard queues no movement, the mouse has no keys.                  *)
OneSample ==
  /\ dev.is_kb => moves = 0 /\ ~work
  /\ ~dev.is_kb => /\ wq.pc # "keys" /\ wq.todo = <<>>
                   /\ keys = {} /\ \A c \in Conns : seen[c] = {}

(* The work queue is at a client while it sends to one.                     *)
AtClient ==
  /\ wq.pc = "keys" => wq.todo # <<>>
  /\ wq.pc = "loop" => wq.i # 0
  /\ wq.pc \in {"lock", "notify"} =>
       wq.i \in 1 .. MAX_CLIENT_COUNT /\ wq.conn \in Conns

(* The table of clients and the contexts.                                   *)
Clients == { conn_mode[i].conn : i \in DOMAIN conn_mode } \ {NoConn}
Served(l) == { l.ctx[x].conn : x \in DOMAIN l.ctx } \ {NoConn}

TablesAgree ==
  /\ \A i, j \in DOMAIN conn_mode :
       conn_mode[i].conn = conn_mode[j].conn /\ conn_mode[i].conn # NoConn => i = j
  /\ \A x, y \in DOMAIN lib.ctx :
       lib.ctx[x].conn = lib.ctx[y].conn /\ lib.ctx[x].conn # NoConn => x = y
  /\ Clients = Served(lib)
  /\ \A i \in DOMAIN conn_mode, x \in DOMAIN lib.ctx :
       conn_mode[i].conn = lib.ctx[x].conn /\ conn_mode[i].conn # NoConn
         => (conn_mode[i].in_boot_mode <=> lib.ctx[x].data.pm = "boot")

(* A client has a link, but for the one whose disconnected() waits; one     *)
(* whose connected() waits is no client yet.                                *)
ClientsLinked ==
  /\ \A c \in Clients :
       link[c].up \/ (rx # NoOp /\ rx.op = "disconnected" /\ rx.conn = c)
  /\ rx # NoOp /\ rx.op = "connected" =>
       rx.conn \notin Clients /\ link[rx.conn].up
  /\ rx # NoOp /\ rx.op = "disconnected" => ~link[rx.conn].up

(* The client the work queue sends to is still where it was found, unless   *)
(* it left before the work queue got the mutex.                             *)
SendingTo ==
  /\ wq.pc = "notify" => conn_mode[wq.i].conn = wq.conn
  /\ wq.pc = "lock" /\ refused = 0 =>
       \/ conn_mode[wq.i].conn = wq.conn
       \/ lib.owner = "wq" /\ wq.conn \notin Clients

(* A host that believes a key is down is a client, and one that believes it *)
(* of a key that is up has its turn still to come while a report is sent.   *)
StuckOn(c) == link[c].up /\ ~(seen[c] \subseteq keys)
KeysFollow ==
  /\ \A c \in Conns : link[c].up /\ seen[c] # {} => c \in Clients
  /\ wq.pc = "idle" /\ wq.err = 0 => \A c \in Conns : ~StuckOn(c)
  /\ wq.pc \in {"loop", "lock", "notify"} =>
       \A c \in Conns : StuckOn(c) =>
         \E j \in DOMAIN conn_mode : j >= wq.i /\ conn_mode[j].conn = c

HidsInv ==
  /\ TypeOK /\ MutexHeld /\ OneSample /\ AtClient /\ TablesAgree
  /\ ClientsLinked /\ SendingTo /\ KeysFollow /\ MovesGoOn

(* ----------------------- the contexts ----------------------------------- *)

(* What a handler or a sender is given: the contexts, with the mutex held.  *)
Locked(l) ==
  /\ l \in [ctx : [1 .. MAX_CONN -> Ctx], owner : {"rx", "wq"}, n : Nat]
  /\ l.n > 0
Held(l) ==
  /\ Locked(l)
  /\ \A x, y \in DOMAIN l.ctx :
       l.ctx[x].conn = l.ctx[y].conn /\ l.ctx[x].conn # NoConn => x = y

(* A set of natural numbers that is not empty has a least element: the      *)
(* loops over the tables stop at the first entry that fits.                 *)
LEMMA MinOf ==
  ASSUME NEW S, S \subseteq Nat, S # {}
  PROVE  Min(S) \in S /\ \A y \in S : Min(S) <= y
<1>1. PICK x \in S : \A y \in S : ~ (<<y, x>> \in OpToRel(<, Nat))
  BY WFMin, NatLessThanWellFounded
<1>2. \A m, n \in Nat : <<m, n>> \in OpToRel(<, Nat) <=> m < n
  BY Zenon DEF OpToRel
<1>3. \A y \in S : ~(y < x)
  BY <1>1, <1>2, Zenon
<1>4. \A y \in S : x <= y
  BY <1>3, SMT
<1> QED  BY <1>4 DEF Min

(* A context has no connection, or one and a protocol mode.                 *)
LEMMA CtxType ==
  ASSUME NEW e \in Ctx
  PROVE  /\ e.conn \in Conns \cup {NoConn}
         /\ e.conn # NoConn => e \in [conn : Conns, data : [pm : Modes]]
         /\ e.conn = NoConn => e = EmptyCtx
  BY PeripheralSizes DEF Ctx, EmptyCtx

(* Unlocking changes the mutex only.                                        *)
LEMMA UnlockEffect ==
  ASSUME NEW l, Locked(l), NEW w \in {NoThread, "rx", "wq"}
  PROVE  /\ Unlock(l, w) \in [ctx : [1 .. MAX_CONN -> Ctx],
                              owner : {NoThread, "rx", "wq"}, n : Nat]
         /\ Unlock(l, w).ctx = l.ctx
         /\ l.n > 1 => Unlock(l, w).owner = l.owner /\ Unlock(l, w).n = l.n - 1
         /\ l.n = 1 => /\ Unlock(l, w).owner = w
                       /\ Unlock(l, w).n = IF w = NoThread THEN 0 ELSE 1
<1>1. l.ctx \in [1 .. MAX_CONN -> Ctx] /\ l.owner \in {"rx", "wq"}
      /\ l.n \in Nat /\ l.n > 0
  BY DEF Locked
<1>2. CASE l.n > 1
  <2>1. Unlock(l, w) = [l EXCEPT !.n = @ - 1]
    BY <1>2 DEF Unlock
  <2> QED  BY <1>1, <1>2, <2>1 DEF Locked
<1>3. CASE l.n = 1
  <2> DEFINE k == IF w = NoThread THEN 0 ELSE 1
  <2>1. Unlock(l, w) = [l EXCEPT !.owner = w, !.n = k]
    BY <1>3 DEF Unlock
  <2>2. k \in Nat
    OBVIOUS
  <2> HIDE DEF k
  <2>3. Unlock(l, w) \in [ctx : [1 .. MAX_CONN -> Ctx],
                          owner : {NoThread, "rx", "wq"}, n : Nat]
    BY <2>1, <2>2 DEF Locked
  <2>4. Unlock(l, w).ctx = l.ctx /\ Unlock(l, w).owner = w /\ Unlock(l, w).n = k
    BY <2>1 DEF Locked
  <2> QED  BY <1>3, <2>3, <2>4 DEF k
<1> QED  BY <1>1, <1>2, <1>3

(* bt_conn_ctx_get() finds the entry of the connection, if there is one.    *)
LEMMA GetEffect ==
  ASSUME NEW l, Held(l), NEW c \in Conns
  PROVE  /\ bt_conn_ctx_get(l, c) = NoEntry <=> c \notin Served(l)
         /\ bt_conn_ctx_get(l, c) # NoEntry =>
              /\ bt_conn_ctx_get(l, c) \in 1 .. MAX_CONN
              /\ l.ctx[bt_conn_ctx_get(l, c)].conn = c
<1>1. EntriesOf(l, c) \subseteq 1 .. MAX_CONN
  BY DEF EntriesOf, Held, Locked
<1>2. EntriesOf(l, c) = {} <=> c \notin Served(l)
  BY PeripheralSizes DEF EntriesOf, Served, Held, Locked
<1>3. EntriesOf(l, c) # {} => Min(EntriesOf(l, c)) \in EntriesOf(l, c)
  BY <1>1, MinOf, ConnCtxSizes
<1>4. \A x \in EntriesOf(l, c) : x \in 1 .. MAX_CONN /\ l.ctx[x].conn = c /\ x # 0
  BY <1>1, ConnCtxSizes DEF EntriesOf
<1> QED  BY <1>2, <1>3, <1>4 DEF bt_conn_ctx_get, NoEntry

(* bt_conn_ctx_alloc() fills one free entry, or none when no block is left. *)
LEMMA AllocEffect ==
  ASSUME NEW l, Locked(l), NEW c \in Conns, NEW n,
         n = bt_conn_ctx_alloc(l, c, NewData)
  PROVE  \/ n = l
         \/ /\ n # l
            /\ Cardinality(Used(l)) < BLOCKS
            /\ \E x \in 1 .. MAX_CONN :
                 /\ l.ctx[x].conn = NoConn
                 /\ n = [l EXCEPT !.ctx[x] = [conn |-> c, data |-> NewData]]
<1> DEFINE free == DOMAIN l.ctx \ Used(l)
           x == Min(free)
<1>1. CASE Used(l) = DOMAIN l.ctx \/ Cardinality(Used(l)) >= BLOCKS
  BY <1>1 DEF bt_conn_ctx_alloc
<1>2. CASE ~(Used(l) = DOMAIN l.ctx \/ Cardinality(Used(l)) >= BLOCKS)
  <2>1. free # {} /\ free \subseteq Nat /\ DOMAIN l.ctx = 1 .. MAX_CONN
    BY <1>2, ConnCtxSizes DEF Used, Locked
  <2>2. x \in free
    BY <2>1, MinOf
  <2>3. x \in 1 .. MAX_CONN /\ l.ctx[x].conn = NoConn
    BY <2>1, <2>2 DEF Used
  <2>4. n = [l EXCEPT !.ctx[x] = [conn |-> c, data |-> NewData]]
    BY <1>2 DEF bt_conn_ctx_alloc
  <2> HIDE DEF x
  <2>5. n.ctx[x].conn = c
    <3>1. l.ctx \in [1 .. MAX_CONN -> Ctx]
          /\ l = [ctx |-> l.ctx, owner |-> l.owner, n |-> l.n]
      BY DEF Locked
    <3>2. n.ctx = [l.ctx EXCEPT ![x] = [conn |-> c, data |-> NewData]]
      BY <2>4, <3>1
    <3>3. n.ctx[x] = [conn |-> c, data |-> NewData]
      BY <2>3, <3>1, <3>2
    <3> QED  BY <3>3
  <2>6. n # l
    BY <2>3, <2>5, PeripheralSizes
  <2>7. Cardinality(Used(l)) \in Nat
    <3>1. Used(l) \subseteq 1 .. MAX_CONN
      BY DEF Used, Locked
    <3>2. IsFiniteSet(1 .. MAX_CONN)
      BY ConnCtxSizes, FS_Interval
    <3>3. IsFiniteSet(Used(l))
      BY <3>1, <3>2, FS_Subset
    <3> QED  BY <3>3, FS_CardinalityType
  <2>8. Cardinality(Used(l)) < BLOCKS
    BY <1>2, <2>7, ConnCtxSizes
  <2> HIDE DEF free
  <2> QED  BY <2>3, <2>4, <2>6, <2>8
<1> QED  BY <1>1, <1>2

(* bt_conn_ctx_free() empties the entry of the connection and no other.     *)
LEMMA FreeEffect ==
  ASSUME NEW l, Held(l), NEW c \in Conns
  PROVE  /\ Held(bt_conn_ctx_free(l, c))
         /\ bt_conn_ctx_free(l, c).owner = l.owner
         /\ bt_conn_ctx_free(l, c).n = l.n
         /\ \A x \in 1 .. MAX_CONN : bt_conn_ctx_free(l, c).ctx[x] =
              IF l.ctx[x].conn = c THEN EmptyCtx ELSE l.ctx[x]
<1> DEFINE f == bt_conn_ctx_free(l, c)
<1>1. DOMAIN l.ctx = 1 .. MAX_CONN
  BY DEF Held, Locked
<1>2. EntriesOf(l, c) # {} => Min(EntriesOf(l, c)) \in EntriesOf(l, c)
  <2>1. EntriesOf(l, c) \subseteq Nat
    BY <1>1, ConnCtxSizes DEF EntriesOf
  <2> QED  BY <2>1, MinOf
<1>3. \A x \in 1 .. MAX_CONN :
        (EntriesOf(l, c) # {} /\ x = Min(EntriesOf(l, c))) <=> l.ctx[x].conn = c
  BY <1>1, <1>2, PeripheralSizes DEF EntriesOf, Held, Locked
<1> DEFINE g == [x \in DOMAIN l.ctx |->
                   IF EntriesOf(l, c) # {} /\ x = Min(EntriesOf(l, c))
                   THEN EmptyCtx ELSE l.ctx[x]]
<1>4. f.ctx = [x \in 1 .. MAX_CONN |->
                 IF EntriesOf(l, c) # {} /\ x = Min(EntriesOf(l, c))
                 THEN EmptyCtx ELSE l.ctx[x]]
      /\ f.owner = l.owner /\ f.n = l.n
      /\ f = [ctx |-> f.ctx, owner |-> l.owner, n |-> l.n]
  <2>1. f = [l EXCEPT !.ctx = g]
    BY DEF bt_conn_ctx_free
  <2> HIDE DEF f, g
  <2>2. f.ctx = g /\ f.owner = l.owner /\ f.n = l.n
        /\ f = [ctx |-> f.ctx, owner |-> l.owner, n |-> l.n]
    BY <2>1 DEF Held, Locked
  <2> QED  BY <1>1, <2>2 DEF g
<1>5. \A x \in 1 .. MAX_CONN : f.ctx[x] =
              IF l.ctx[x].conn = c THEN EmptyCtx ELSE l.ctx[x]
  BY <1>3, <1>4
<1>6. f.ctx \in [1 .. MAX_CONN -> Ctx]
  BY <1>4, ZenonT(40) DEF Held, Locked, Ctx
<1> HIDE DEF f
<1>7. Held(f)
  <2>1. f \in [ctx : [1 .. MAX_CONN -> Ctx], owner : {"rx", "wq"}, n : Nat] /\ f.n > 0
    BY <1>4, <1>6 DEF Held, Locked
  <2>2. \A x, y \in 1 .. MAX_CONN :
          f.ctx[x].conn = f.ctx[y].conn /\ f.ctx[x].conn # NoConn => x = y
    BY <1>1, <1>5 DEF Held, Locked, EmptyCtx
  <2> QED  BY <1>6, <2>1, <2>2 DEF Held, Locked
<1> QED  BY <1>4, <1>5, <1>7 DEF f


(* ----------------------- the tables of clients --------------------------- *)

(* While a block is left there is room in conn_mode: the clients, each with *)
(* a context of its own, are fewer than the blocks.                         *)
LEMMA RoomForClient ==
  ASSUME TypeOK, TablesAgree, Cardinality(Used(lib)) < BLOCKS
  PROVE  FreeClients # {} /\ Min(FreeClients) \in FreeClients
<1>1. DOMAIN conn_mode = 1 .. MAX_CLIENT_COUNT /\ DOMAIN lib.ctx = 1 .. MAX_CONN
  BY DEF TypeOK
<1>2. IsFiniteSet(Used(lib))
  <2>1. Used(lib) \subseteq 1 .. MAX_CONN
    BY <1>1 DEF Used
  <2>2. IsFiniteSet(1 .. MAX_CONN)
    BY ConnCtxSizes, FS_Interval
  <2> QED  BY <2>1, <2>2, FS_Subset
<1>3. FreeClients # {}
  <2>1. SUFFICES ASSUME FreeClients = {} PROVE FALSE
    OBVIOUS
  <2> DEFINE f == [i \in 1 .. MAX_CLIENT_COUNT |->
                     CHOOSE x \in Used(lib) : lib.ctx[x].conn = conn_mode[i].conn]
  <2>2. ASSUME NEW i \in 1 .. MAX_CLIENT_COUNT
        PROVE  /\ conn_mode[i].conn # NoConn
               /\ \E x \in Used(lib) : lib.ctx[x].conn = conn_mode[i].conn
    <3>1. conn_mode[i].conn # NoConn
      BY <1>1, <2>1 DEF FreeClients
    <3>2. conn_mode[i].conn \in Clients
      BY <1>1, <3>1 DEF Clients
    <3>3. conn_mode[i].conn \in Served(lib)
      BY <3>2 DEF TablesAgree
    <3> QED  BY <3>1, <3>3 DEF Served, Used
  <2>3. \A i \in 1 .. MAX_CLIENT_COUNT :
          f[i] \in Used(lib) /\ lib.ctx[f[i]].conn = conn_mode[i].conn
    BY <2>2
  <2> HIDE DEF f
  <2>4. \A i, j \in 1 .. MAX_CLIENT_COUNT : f[i] = f[j] => i = j
    BY <1>1, <2>2, <2>3 DEF TablesAgree
  <2>5. f \in [1 .. MAX_CLIENT_COUNT -> Used(lib)]
    BY <2>3 DEF f
  <2>6. Cardinality(1 .. MAX_CLIENT_COUNT) = MAX_CLIENT_COUNT
        /\ IsFiniteSet(1 .. MAX_CLIENT_COUNT)
    BY PeripheralSizes, FS_Interval
  <2>7. Cardinality(Used(lib)) \in Nat
    BY <1>2, FS_CardinalityType
  <2>8. Cardinality(Used(lib)) < Cardinality(1 .. MAX_CLIENT_COUNT)
    BY <2>6, <2>7, PeripheralSizes, ConnCtxSizes
  <2>9. \E i, j \in 1 .. MAX_CLIENT_COUNT : i # j /\ f[i] = f[j]
    BY <1>2, <2>5, <2>6, <2>8, FS_PigeonHole
  <2> QED  BY <2>4, <2>9
<1>4. FreeClients \subseteq Nat
  BY <1>1, PeripheralSizes DEF FreeClients
<1> QED  BY <1>3, <1>4, MinOf

(* What the connection callbacks and a write may do to the clients.         *)
ClientAdded(c) ==
  \E k \in FreeClients, x \in 1 .. MAX_CONN :
    /\ lib.ctx[x].conn = NoConn
    /\ conn_mode' = [conn_mode EXCEPT ![k] = [conn |-> c, in_boot_mode |-> FALSE]]
    /\ lib'.ctx = [lib.ctx EXCEPT ![x] = [conn |-> c, data |-> NewData]]

ClientRemoved(c) ==
  /\ conn_mode' = [i \in 1 .. MAX_CLIENT_COUNT |->
       IF conn_mode[i].conn = c THEN [conn_mode[i] EXCEPT !.conn = NoConn]
       ELSE conn_mode[i]]
  /\ lib'.ctx \in [1 .. MAX_CONN -> Ctx]
  /\ \A x \in 1 .. MAX_CONN :
       lib'.ctx[x] = IF lib.ctx[x].conn = c THEN EmptyCtx ELSE lib.ctx[x]

ModeChanged(c) ==
  \E value \in Modes, x \in 1 .. MAX_CONN :
    /\ lib.ctx[x].conn = c
    /\ conn_mode' = hids_pm_evt_handler(c, value)
    /\ lib'.ctx = [lib.ctx EXCEPT ![x].data.pm = value]

TablesStep(op) ==
  \/ op.op # "disconnected" /\ conn_mode' = conn_mode /\ lib'.ctx = lib.ctx
  \/ op.op = "connected" /\ ClientAdded(op.conn)
  \/ op.op = "disconnected" /\ ClientRemoved(op.conn)
  \/ op.op = "pm" /\ ModeChanged(op.conn)

(* What they do to the mutex, given as it was held: released, or kept by a  *)
(* write that is refused.                                                   *)
MutexStep(l) ==
  \/ /\ refused' = refused
     /\ l.n > 1 => lib'.owner = l.owner /\ lib'.n = l.n - 1
     /\ l.n = 1 => /\ lib'.owner = WqWaits
                   /\ lib'.n = IF WqWaits = NoThread THEN 0 ELSE 1
  \/ refused' = refused + 1 /\ lib'.owner = l.owner /\ lib'.n = l.n

(* And to the rest.                                                         *)
WorkStep ==
  \/ work' = work /\ cancelled' = cancelled
  \/ work' = FALSE /\ cancelled' = (cancelled \/ work)


(* connected(): a client and its context are added together, or neither.    *)
LEMMA ConnectedSteps ==
  ASSUME TypeOK, TablesAgree, NEW l, Locked(l), l.ctx = lib.ctx, NEW c \in Conns,
         connected(l, c)
  PROVE  /\ (conn_mode' = conn_mode /\ lib'.ctx = lib.ctx) \/ ClientAdded(c)
         /\ MutexStep(l) /\ WorkStep /\ subs' = subs
         /\ lib' \in [ctx : [1 .. MAX_CONN -> Ctx],
                      owner : {NoThread, "rx", "wq"}, n : Nat]
<1> DEFINE n == bt_gatt_hids_notify_connected(l, c)
<1>0. WqWaits \in {NoThread, "wq"}
  BY DEF WqWaits
<1>1. lib' = Unlock(n, WqWaits) /\ subs' = subs /\ work' = work
      /\ refused' = refused /\ cancelled' = cancelled
      /\ conn_mode' = IF n = l \/ FreeClients = {} THEN conn_mode ELSE TakesClient(c)
  BY DEF connected
<1>2. n = bt_conn_ctx_alloc(l, c, NewData)
  BY DEF bt_gatt_hids_notify_connected
<1> HIDE DEF n
<1>3. CASE n = l
  BY <1>0, <1>1, <1>3, UnlockEffect DEF MutexStep, WorkStep
<1>4. CASE n # l
  <2>1. Cardinality(Used(l)) < BLOCKS
        /\ \E x \in 1 .. MAX_CONN :
             /\ l.ctx[x].conn = NoConn
             /\ n = [l EXCEPT !.ctx[x] = [conn |-> c, data |-> NewData]]
    BY <1>2, <1>4, AllocEffect
  <2>2. PICK x \in 1 .. MAX_CONN :
             /\ l.ctx[x].conn = NoConn
             /\ n = [l EXCEPT !.ctx[x] = [conn |-> c, data |-> NewData]]
    BY <2>1
  <2>3. n.ctx = [l.ctx EXCEPT ![x] = [conn |-> c, data |-> NewData]]
        /\ n.owner = l.owner /\ n.n = l.n
    BY <2>2 DEF Locked
  <2>4. Locked(n)
    <3>1. [conn |-> c, data |-> NewData] \in Ctx
      BY DEF Ctx, NewData, Modes
    <3> QED  BY <2>2, <3>1 DEF Locked
  <2>5. FreeClients # {} /\ Min(FreeClients) \in FreeClients
    <3>1. Used(l) = Used(lib)
      BY DEF Used
    <3> QED  BY <2>1, <3>1, RoomForClient
  <2>6. conn_mode' =
          [conn_mode EXCEPT ![Min(FreeClients)] = [conn |-> c, in_boot_mode |-> FALSE]]
    BY <1>1, <1>4, <2>5 DEF TakesClient
  <2>7. lib'.ctx = n.ctx /\ MutexStep(l)
        /\ lib' \in [ctx : [1 .. MAX_CONN -> Ctx],
                      owner : {NoThread, "rx", "wq"}, n : Nat]
    BY <1>0, <1>1, <2>3, <2>4, UnlockEffect DEF MutexStep
  <2>8. ClientAdded(c)
    BY <2>2, <2>3, <2>5, <2>6, <2>7 DEF ClientAdded
  <2> QED  BY <1>1, <2>7, <2>8 DEF WorkStep
<1> QED  BY <1>3, <1>4


(* disconnected(): both go, and the mutex is released.                      *)
LEMMA DisconnectedSteps ==
  ASSUME TypeOK, NEW l, Held(l), l.ctx = lib.ctx, NEW c \in Conns,
         disconnected(l, c)
  PROVE  /\ ClientRemoved(c)
         /\ MutexStep(l) /\ WorkStep /\ subs' \in [Peers -> SUBSET Modes]
         /\ lib' \in [ctx : [1 .. MAX_CONN -> Ctx],
                      owner : {NoThread, "rx", "wq"}, n : Nat]
<1> DEFINE n == bt_conn_ctx_free(l, c)
<1>0. WqWaits \in {NoThread, "wq"}
  BY DEF WqWaits
<1>1. lib' = Unlock(n, WqWaits) /\ refused' = refused
  BY DEF disconnected, bt_gatt_hids_notify_disconnected
<1>2. Held(n) /\ n.owner = l.owner /\ n.n = l.n
      /\ \A x \in 1 .. MAX_CONN :
           n.ctx[x] = IF l.ctx[x].conn = c THEN EmptyCtx ELSE l.ctx[x]
  BY FreeEffect
<1> HIDE DEF n
<1>3. lib'.ctx = n.ctx /\ MutexStep(l)
      /\ lib' \in [ctx : [1 .. MAX_CONN -> Ctx],
                   owner : {NoThread, "rx", "wq"}, n : Nat]
  BY <1>0, <1>1, <1>2, UnlockEffect DEF MutexStep, Held
<1>4. conn_mode' = [i \in 1 .. MAX_CLIENT_COUNT |->
        IF conn_mode[i].conn = c THEN [conn_mode[i] EXCEPT !.conn = NoConn]
        ELSE conn_mode[i]]
  BY DEF disconnected, TypeOK
<1>5. ClientRemoved(c)
  BY <1>2, <1>3, <1>4 DEF ClientRemoved
<1>6. subs' \in [Peers -> SUBSET Modes]
  BY DEF disconnected, TypeOK
<1> QED  BY <1>3, <1>5, <1>6 DEF disconnected, WorkStep

(* A write of the protocol mode changes the context and the client alike,   *)
(* or neither; one that is refused keeps the mutex.                         *)
LEMMA ModeWrittenSteps ==
  ASSUME TypeOK, NEW l, Held(l), l.ctx = lib.ctx, NEW op \in Handler,
         op.op = "pm", ModeWritten(l, op)
  PROVE  /\ (conn_mode' = conn_mode /\ lib'.ctx = lib.ctx) \/ ModeChanged(op.conn)
         /\ MutexStep(l) /\ WorkStep /\ subs' = subs
         /\ lib' \in [ctx : [1 .. MAX_CONN -> Ctx],
                      owner : {NoThread, "rx", "wq"}, n : Nat]
<1> DEFINE x == bt_conn_ctx_get(l, op.conn)
<1>0. WqWaits \in {NoThread, "wq"}
  BY DEF WqWaits
<1>1. op.conn \in Conns /\ op.value \in Modes \cup {Refused} /\ Refused \notin Modes
  BY DEF Handler, Modes, Refused
<1>2. x # NoEntry => x \in 1 .. MAX_CONN /\ l.ctx[x].conn = op.conn
  BY <1>1, GetEffect
<1>3. WorkStep /\ subs' = subs
  BY DEF ModeWritten, WorkStep
<1>4. CASE x = NoEntry
  <2>1. lib' = Unlock(l, WqWaits) /\ refused' = refused /\ conn_mode' = conn_mode
    BY <1>4 DEF ModeWritten, hids_protocol_mode_write, CountRefused, Accepted, TypeOK
  <2> QED  BY <1>0, <1>3, <2>1, UnlockEffect DEF MutexStep, Held
<1>5. CASE x # NoEntry /\ op.value = Refused
  <2>1. lib' = l /\ refused' = refused + 1 /\ conn_mode' = conn_mode
    BY <1>1, <1>5 DEF ModeWritten, hids_protocol_mode_write, CountRefused, Accepted
  <2> QED  BY <1>3, <2>1 DEF MutexStep, Held, Locked
<1>6. CASE x # NoEntry /\ op.value # Refused
  <2> DEFINE m == [l EXCEPT !.ctx[x].data.pm = op.value]
  <2>1. lib' = Unlock(m, WqWaits) /\ refused' = refused
        /\ conn_mode' = hids_pm_evt_handler(op.conn, op.value) /\ op.value \in Modes
    BY <1>1, <1>6 DEF ModeWritten, hids_protocol_mode_write, CountRefused, Accepted, TypeOK
  <2> DEFINE e == [l.ctx[x] EXCEPT !.data.pm = op.value]
  <2> HIDE DEF x
  <2>2. l.ctx[x] \in [conn : Conns, data : [pm : Modes]]
    BY <1>1, <1>2, <1>6, CtxType, PeripheralSizes DEF Held, Locked
  <2>3. e \in Ctx
    BY <2>1, <2>2 DEF Ctx
  <2>4. m = [l EXCEPT !.ctx[x] = e]
    BY <1>2, <1>6 DEF Held, Locked
  <2> HIDE DEF e
  <2>5. Locked(m) /\ m.ctx = [l.ctx EXCEPT ![x] = e] /\ m.owner = l.owner /\ m.n = l.n
    BY <1>2, <1>6, <2>3, <2>4 DEF Held, Locked
  <2> HIDE DEF m
  <2>6. lib'.ctx = m.ctx /\ MutexStep(l)
        /\ lib' \in [ctx : [1 .. MAX_CONN -> Ctx],
                     owner : {NoThread, "rx", "wq"}, n : Nat]
    BY <1>0, <2>1, <2>5, UnlockEffect DEF MutexStep
  <2>7. ModeChanged(op.conn)
    <3>1. lib'.ctx = [lib.ctx EXCEPT ![x].data.pm = op.value]
      BY <1>2, <1>6, <2>5, <2>6 DEF e, Held, Locked
    <3> QED  BY <1>2, <1>6, <2>1, <3>1 DEF ModeChanged
  <2> QED  BY <1>3, <2>6, <2>7
<1> QED  BY <1>4, <1>5, <1>6

(* The other attribute handlers leave the tables alone.                     *)
LEMMA OutputWrittenSteps ==
  ASSUME TypeOK, NEW l, Held(l), l.ctx = lib.ctx, NEW op \in Handler,
         OutputWritten(l, op)
  PROVE  /\ conn_mode' = conn_mode /\ lib'.ctx = lib.ctx
         /\ MutexStep(l) /\ WorkStep /\ subs' = subs
         /\ lib' \in [ctx : [1 .. MAX_CONN -> Ctx],
                      owner : {NoThread, "rx", "wq"}, n : Nat]
<1> DEFINE keeps == bt_conn_ctx_get(l, op.conn) # NoEntry /\ op.value = Refused
<1>0. WqWaits \in {NoThread, "wq"}
  BY DEF WqWaits
<1>1. lib' = (IF keeps THEN l ELSE Unlock(l, WqWaits))
  BY DEF OutputWritten, hids_outp_rep_write, hids_boot_kb_outp_report_write
<1>2. refused' = IF keeps THEN refused + 1 ELSE refused
  BY DEF OutputWritten, CountRefused, TypeOK
<1>3. conn_mode' = conn_mode /\ subs' = subs /\ WorkStep
  BY DEF OutputWritten, WorkStep
<1> HIDE DEF keeps
<1>4. CASE keeps
  BY <1>1, <1>2, <1>3, <1>4 DEF MutexStep, Held, Locked
<1>5. CASE ~keeps
  BY <1>0, <1>1, <1>2, <1>3, <1>5, UnlockEffect DEF MutexStep, Held
<1> QED  BY <1>4, <1>5

(* Any handler, with the mutex held.                                        *)
LEMMA HandlesSteps ==
  ASSUME TypeOK, TablesAgree, NEW l, Held(l), l.ctx = lib.ctx,
         NEW op \in Handler, Handles(l, op)
  PROVE  /\ TablesStep(op)
         /\ MutexStep(l) /\ WorkStep /\ subs' \in [Peers -> SUBSET Modes]
         /\ lib' \in [ctx : [1 .. MAX_CONN -> Ctx],
                      owner : {NoThread, "rx", "wq"}, n : Nat]
<1>0. op.conn \in Conns /\ Locked(l) /\ subs \in [Peers -> SUBSET Modes]
  BY DEF Handler, Held, TypeOK
<1>1. CASE op.op = "connected" /\ connected(l, op.conn)
  BY <1>0, <1>1, ConnectedSteps DEF TablesStep
<1>2. CASE op.op = "disconnected" /\ disconnected(l, op.conn)
  BY <1>0, <1>2, DisconnectedSteps DEF TablesStep
<1>3. CASE op.op = "pm" /\ ModeWritten(l, op)
  BY <1>0, <1>3, ModeWrittenSteps DEF TablesStep
<1>4. CASE op.op \in {"outp", "bootout"} /\ OutputWritten(l, op)
  BY <1>0, <1>4, OutputWrittenSteps DEF TablesStep
<1>5. CASE op.op = "read" /\ ReportRead(l, op)
  <2>1. WqWaits \in {NoThread, "wq"}
    BY DEF WqWaits
  <2>2. lib' = Unlock(l, WqWaits) /\ conn_mode' = conn_mode /\ subs' = subs
        /\ work' = work /\ refused' = refused /\ cancelled' = cancelled
    BY <1>5 DEF ReportRead, hids_inp_rep_read
  <2> QED  BY <1>0, <1>5, <2>1, <2>2, UnlockEffect DEF TablesStep, MutexStep, WorkStep
<1> QED  BY <1>1, <1>2, <1>3, <1>4, <1>5 DEF Handles


(* The connections in conn_mode after a handler.                            *)
ClientsChange(op) ==
  \/ /\ op.op # "disconnected"
     /\ \A i \in 1 .. MAX_CLIENT_COUNT : conn_mode'[i].conn = conn_mode[i].conn
  \/ /\ op.op = "connected"
     /\ \E k \in 1 .. MAX_CLIENT_COUNT :
          /\ conn_mode[k].conn = NoConn
          /\ \A i \in 1 .. MAX_CLIENT_COUNT :
               conn_mode'[i].conn = IF i = k THEN op.conn ELSE conn_mode[i].conn
  \/ /\ op.op = "disconnected"
     /\ \A i \in 1 .. MAX_CLIENT_COUNT : conn_mode'[i].conn =
          IF conn_mode[i].conn = op.conn THEN NoConn ELSE conn_mode[i].conn

(* The tables still agree after a handler.                                  *)
LEMMA TablesKept ==
  ASSUME TypeOK, TablesAgree, NEW op \in Handler, TablesStep(op),
         op.op = "connected" => op.conn \notin Clients,
         lib' \in [ctx : [1 .. MAX_CONN -> Ctx],
                   owner : {NoThread, "rx", "wq"}, n : Nat]
  PROVE  /\ conn_mode' \in [1 .. MAX_CLIENT_COUNT -> Client]
         /\ TablesAgree' /\ ClientsChange(op)
<1> DEFINE c == op.conn
           I == 1 .. MAX_CLIENT_COUNT
           X == 1 .. MAX_CONN
<1>0. /\ c \in Conns /\ c # NoConn
      /\ DOMAIN conn_mode = I /\ DOMAIN lib.ctx = X /\ DOMAIN lib'.ctx = X
      /\ conn_mode \in [I -> Client]
      /\ lib.ctx \in [X -> Ctx]
  BY PeripheralSizes DEF TypeOK, Handler
<1>1. CASE op.op # "disconnected" /\ conn_mode' = conn_mode /\ lib'.ctx = lib.ctx
  <2>1. Clients' = Clients /\ Served(lib)' = Served(lib)
    BY <1>1 DEF Clients, Served
  <2> QED  BY <1>0, <1>1, <2>1 DEF TablesAgree, ClientsChange
<1>2. CASE op.op = "connected" /\ ClientAdded(c)
  <2>1. PICK k \in FreeClients, x \in X :
          /\ lib.ctx[x].conn = NoConn
          /\ conn_mode' = [conn_mode EXCEPT ![k] = [conn |-> c, in_boot_mode |-> FALSE]]
          /\ lib'.ctx = [lib.ctx EXCEPT ![x] = [conn |-> c, data |-> NewData]]
    BY <1>2 DEF ClientAdded
  <2>2. k \in I /\ conn_mode[k].conn = NoConn
    BY <1>0 DEF FreeClients
  <2>3. /\ conn_mode' \in [I -> Client]
        /\ \A i \in I : conn_mode'[i] =
             IF i = k THEN [conn |-> c, in_boot_mode |-> FALSE] ELSE conn_mode[i]
    BY <1>0, <2>1, <2>2 DEF Client
  <2>4. \A y \in X : lib'.ctx[y] =
          IF y = x THEN [conn |-> c, data |-> NewData] ELSE lib.ctx[y]
    BY <1>0, <2>1
  <2>5. /\ \A i \in I : conn_mode[i].conn # c
        /\ \A y \in X : lib.ctx[y].conn # c
    BY <1>0, <1>2 DEF TablesAgree, Clients, Served
  <2>6. Clients' = Served(lib)'
    <3>1. Clients' = Clients \cup {c}
      BY <1>0, <2>2, <2>3 DEF Clients
    <3>2. Served(lib)' = Served(lib) \cup {c}
      BY <1>0, <2>1, <2>4 DEF Served
    <3> QED  BY <3>1, <3>2 DEF TablesAgree
  <2>7. TablesAgree'
    <3>1. \A i, j \in I :
            conn_mode'[i].conn = conn_mode'[j].conn /\ conn_mode'[i].conn # NoConn => i = j
      BY <1>0, <2>3, <2>5 DEF TablesAgree
    <3>2. \A y, z \in X :
            lib'.ctx[y].conn = lib'.ctx[z].conn /\ lib'.ctx[y].conn # NoConn => y = z
      BY <1>0, <2>4, <2>5 DEF TablesAgree
    <3>3. \A i \in I, y \in X :
            conn_mode'[i].conn = lib'.ctx[y].conn /\ conn_mode'[i].conn # NoConn
              => (conn_mode'[i].in_boot_mode <=> lib'.ctx[y].data.pm = "boot")
      <4> SUFFICES ASSUME NEW i \in I, NEW y \in X,
                          conn_mode'[i].conn = lib'.ctx[y].conn,
                          conn_mode'[i].conn # NoConn
                   PROVE  conn_mode'[i].in_boot_mode <=> lib'.ctx[y].data.pm = "boot"
        OBVIOUS
      <4>1. i = k <=> y = x
        BY <1>0, <2>3, <2>4, <2>5
      <4>2. CASE i = k
        <5>1. ~conn_mode'[i].in_boot_mode
          BY <2>3, <4>2
        <5>2. lib'.ctx[y].data.pm = "report"
          BY <2>4, <4>1, <4>2 DEF NewData
        <5> QED  BY <5>1, <5>2
      <4>3. CASE i # k
        <5>1. conn_mode'[i] = conn_mode[i] /\ lib'.ctx[y] = lib.ctx[y]
          BY <2>3, <2>4, <4>1, <4>3
        <5> QED  BY <1>0, <5>1 DEF TablesAgree
      <4> QED  BY <4>2, <4>3
    <3> QED  BY <1>0, <2>3, <2>6, <3>1, <3>2, <3>3 DEF TablesAgree
  <2> QED  BY <1>2, <2>2, <2>3, <2>7 DEF ClientsChange
<1>3. CASE op.op = "disconnected" /\ ClientRemoved(c)
  <2>1. /\ conn_mode' \in [I -> Client]
        /\ \A i \in I : conn_mode'[i] =
             IF conn_mode[i].conn = c THEN [conn_mode[i] EXCEPT !.conn = NoConn]
             ELSE conn_mode[i]
    BY <1>0, <1>3 DEF ClientRemoved, Client
  <2>2. \A i \in I :
          /\ conn_mode'[i].conn = IF conn_mode[i].conn = c THEN NoConn ELSE conn_mode[i].conn
          /\ conn_mode'[i].in_boot_mode = conn_mode[i].in_boot_mode
    BY <1>0, <2>1 DEF Client
  <2>3. \A y \in X :
          /\ lib'.ctx[y] = IF lib.ctx[y].conn = c THEN EmptyCtx ELSE lib.ctx[y]
          /\ lib'.ctx[y].conn = IF lib.ctx[y].conn = c THEN NoConn ELSE lib.ctx[y].conn
    BY <1>3 DEF ClientRemoved, EmptyCtx
  <2>4. Clients' = Served(lib)'
    <3>1. Clients' = Clients \ {c}
      BY <1>0, <2>1, <2>2 DEF Clients
    <3>2. Served(lib)' = Served(lib) \ {c}
      BY <1>0, <2>3 DEF Served
    <3> QED  BY <3>1, <3>2 DEF TablesAgree
  <2>5. TablesAgree'
    <3>1. \A i, j \in I :
            conn_mode'[i].conn = conn_mode'[j].conn /\ conn_mode'[i].conn # NoConn => i = j
      BY <1>0, <2>2 DEF TablesAgree
    <3>2. \A y, z \in X :
            lib'.ctx[y].conn = lib'.ctx[z].conn /\ lib'.ctx[y].conn # NoConn => y = z
      BY <1>0, <2>3 DEF TablesAgree
    <3>3. \A i \in I, y \in X :
            conn_mode'[i].conn = lib'.ctx[y].conn /\ conn_mode'[i].conn # NoConn
              => (conn_mode'[i].in_boot_mode <=> lib'.ctx[y].data.pm = "boot")
      BY <1>0, <2>2, <2>3 DEF TablesAgree
    <3> QED  BY <1>0, <2>1, <2>4, <3>1, <3>2, <3>3 DEF TablesAgree
  <2> QED  BY <1>3, <2>1, <2>2, <2>5 DEF ClientsChange
<1>4. CASE op.op = "pm" /\ ModeChanged(c)
  <2>1. PICK value \in Modes, x \in X :
          /\ lib.ctx[x].conn = c
          /\ conn_mode' = hids_pm_evt_handler(c, value)
          /\ lib'.ctx = [lib.ctx EXCEPT ![x].data.pm = value]
    BY <1>4 DEF ModeChanged
  <2>2. /\ conn_mode' \in [I -> Client]
        /\ \A i \in I :
             /\ conn_mode'[i].conn = conn_mode[i].conn
             /\ conn_mode[i].conn = c =>
                  (conn_mode'[i].in_boot_mode <=> value = "boot")
             /\ conn_mode[i].conn # c => conn_mode'[i] = conn_mode[i]
    <3> DEFINE b == value = "boot"
    <3>1. conn_mode' = [i \in I |-> IF conn_mode[i].conn = c
                          THEN [conn_mode[i] EXCEPT !.in_boot_mode = b]
                          ELSE conn_mode[i]]
      BY <1>0, <2>1 DEF hids_pm_evt_handler
    <3>2. b \in BOOLEAN
      OBVIOUS
    <3> HIDE DEF b
    <3>3. \A i \in I : /\ conn_mode'[i] \in Client
                       /\ conn_mode'[i].conn = conn_mode[i].conn
                       /\ conn_mode[i].conn = c => conn_mode'[i].in_boot_mode = b
                       /\ conn_mode[i].conn # c => conn_mode'[i] = conn_mode[i]
      BY <1>0, <3>1, <3>2 DEF Client
    <3>4. conn_mode' \in [I -> Client]
      BY <3>1, <3>3
    <3> QED  BY <3>3, <3>4 DEF b
  <2>3. lib.ctx[x] \in [conn : Conns, data : [pm : Modes]]
    BY <1>0, <2>1, CtxType
  <2>4. /\ \A y \in X : lib'.ctx[y].conn = lib.ctx[y].conn
        /\ \A y \in X : y # x => lib'.ctx[y] = lib.ctx[y]
        /\ lib'.ctx[x].data.pm = value
    <3> DEFINE e == [lib.ctx[x] EXCEPT !.data.pm = value]
    <3>1. lib'.ctx = [lib.ctx EXCEPT ![x] = e]
      BY <1>0, <2>1
    <3>2. e.conn = lib.ctx[x].conn /\ e.data.pm = value
      BY <2>3
    <3> HIDE DEF e
    <3> QED  BY <1>0, <3>1, <3>2
  <2>5. Clients' = Served(lib)'
    <3>1. Clients' = Clients
      BY <1>0, <2>2 DEF Clients
    <3>2. Served(lib)' = Served(lib)
      BY <1>0, <2>4 DEF Served
    <3> QED  BY <3>1, <3>2 DEF TablesAgree
  <2>6. TablesAgree'
    <3>1. \A i, j \in I :
            conn_mode'[i].conn = conn_mode'[j].conn /\ conn_mode'[i].conn # NoConn => i = j
      BY <1>0, <2>2 DEF TablesAgree
    <3>2. \A y, z \in X :
            lib'.ctx[y].conn = lib'.ctx[z].conn /\ lib'.ctx[y].conn # NoConn => y = z
      BY <1>0, <2>4 DEF TablesAgree
    <3>3. \A i \in I, y \in X :
            conn_mode'[i].conn = lib'.ctx[y].conn /\ conn_mode'[i].conn # NoConn
              => (conn_mode'[i].in_boot_mode <=> lib'.ctx[y].data.pm = "boot")
      BY <1>0, <2>1, <2>2, <2>4 DEF TablesAgree
    <3> QED  BY <1>0, <2>2, <2>5, <3>1, <3>2, <3>3 DEF TablesAgree
  <2> QED  BY <1>4, <2>2, <2>6 DEF ClientsChange
<1> QED  BY <1>1, <1>2, <1>3, <1>4 DEF TablesStep


(* ----------------------- the receive thread ------------------------------ *)

(* A handler has run to its end: what it and the stack made of the link of  *)
(* its connection, and what they left alone.                                *)
LinkStep(op) ==
  /\ link' \in [Conns -> [peer : Peers \cup {"none"}, up : BOOLEAN]]
  /\ seen' \in [Conns -> SUBSET {"text", "shift"}]
  /\ \A c \in Conns : c # op.conn => link'[c] = link[c] /\ seen'[c] = seen[c]
  /\ op.op = "connected" =>
       /\ link'[op.conn].up
       /\ seen'[op.conn] = {}
            \/ (link[op.conn].up /\ seen'[op.conn] = seen[op.conn])
  /\ op.op = "disconnected" =>
       ~link'[op.conn].up /\ seen'[op.conn] \in {{}, seen[op.conn]}
  /\ op.op \notin {"connected", "disconnected"} =>
       link'[op.conn] = link[op.conn] /\ seen'[op.conn] = seen[op.conn]

Handled(op) ==
  /\ rx \in {NoOp, op} /\ rx' = NoOp
  /\ op.op = "connected" => op.conn \notin Clients
  /\ LinkStep(op)
  /\ UNCHANGED <<dev, wq, keys, moves>>

(* A handler that got the mutex keeps the invariant.                        *)
LEMMA HandledKeeps ==
  ASSUME HidsInv, NEW op \in Handler, Handled(op),
         NEW l, Held(l), l.ctx = lib.ctx, l.owner = "rx", l.n = refused + 1,
         lib.owner \in {NoThread, "rx"}, Handles(l, op)
  PROVE  HidsInv'
<1> USE DEF HidsInv
<1> DEFINE I == 1 .. MAX_CLIENT_COUNT
<1>1. /\ TablesStep(op) /\ MutexStep(l) /\ WorkStep
      /\ subs' \in [Peers -> SUBSET Modes]
      /\ lib' \in [ctx : [1 .. MAX_CONN -> Ctx],
                   owner : {NoThread, "rx", "wq"}, n : Nat]
  BY HandlesSteps
<1>2. /\ conn_mode' \in [I -> Client] /\ conn_mode \in [I -> Client]
      /\ TablesAgree' /\ ClientsChange(op)
  BY <1>1, TablesKept DEF Handled, TypeOK
<1>3. op.conn \in Conns /\ op.conn # NoConn
  BY PeripheralSizes DEF Handler
<1>4. wq.pc # "notify" /\ (lib.owner = NoThread => wq.pc # "lock")
  BY DEF MutexHeld, TypeOK
<1>5. TypeOK'
  <2>1. refused' \in Nat /\ work' \in BOOLEAN /\ cancelled' \in BOOLEAN
    BY <1>1 DEF MutexStep, WorkStep, TypeOK
  <2> QED  BY <1>1, <1>2, <2>1 DEF TypeOK, Handled, LinkStep
<1>6. MutexHeld'
  BY <1>1, <1>4 DEF MutexStep, MutexHeld, WqWaits, Handled, TypeOK, NoThread, Held, Locked
<1>7. OneSample'
  BY <1>1, <1>3 DEF OneSample, WorkStep, Handled, LinkStep, TypeOK
<1>8. AtClient'
  BY DEF AtClient, Handled
<1>9. \A c \in Conns : c # op.conn => (c \in Clients' <=> c \in Clients)
  BY <1>2, <1>3, PeripheralSizes DEF ClientsChange, Clients
<1>10. /\ op.op = "disconnected" => op.conn \notin Clients'
       /\ op.op # "disconnected" /\ op.conn \in Clients => op.conn \in Clients'
       /\ op.op \notin {"connected", "disconnected"} =>
            (op.conn \in Clients' <=> op.conn \in Clients)
  BY <1>2, <1>3, PeripheralSizes DEF ClientsChange, Clients
<1>11. Clients \subseteq Conns /\ Clients' \subseteq Conns
  BY <1>2 DEF Clients, Client
<1>12. ClientsLinked'
  BY <1>3, <1>9, <1>10, <1>11 DEF ClientsLinked, Handled, LinkStep, TypeOK
<1>13. SendingTo'
  <2> SUFFICES ASSUME wq.pc = "lock", refused' = 0
               PROVE  conn_mode'[wq.i].conn = wq.conn
                        \/ (lib'.owner = "wq" /\ wq.conn \notin Clients')
    BY <1>4 DEF SendingTo, Handled
  <2>1. refused = 0 /\ l.n = 1 /\ lib'.owner = "wq"
    BY <1>1 DEF MutexStep, WqWaits, TypeOK, Held, Locked
  <2>2. conn_mode[wq.i].conn = wq.conn /\ wq.i \in I /\ wq.conn \in Conns
    BY <2>1 DEF SendingTo, AtClient, NoThread
  <2> QED  BY <1>2, <1>3, <1>10, <2>1, <2>2, PeripheralSizes DEF ClientsChange
<1>14. \A c \in Conns : link'[c].up /\ seen'[c] # {} => c \in Clients'
  BY <1>3, <1>9, <1>10 DEF KeysFollow, Handled, LinkStep
<1>15. \A c \in Conns : StuckOn(c)' => StuckOn(c) /\ ~(op.op = "disconnected" /\ c = op.conn)
  BY <1>3 DEF StuckOn, Handled, LinkStep
<1>16. \A c \in Conns, j \in I : conn_mode[j].conn = c
           /\ ~(op.op = "disconnected" /\ c = op.conn) => conn_mode'[j].conn = c
  BY <1>2, <1>3, PeripheralSizes DEF ClientsChange
<1>17. KeysFollow'
  BY <1>2, <1>14, <1>15, <1>16 DEF KeysFollow, Handled
<1>18. MovesGoOn'
  BY <1>1 DEF MovesGoOn, WorkStep, Handled, TypeOK
<1> QED  BY <1>2, <1>5, <1>6, <1>7, <1>8, <1>12, <1>13, <1>17, <1>18

(* One that has to wait for it does too.                                    *)
LEMMA WaitingKeeps ==
  ASSUME HidsInv, NEW op \in Handler, rx = NoOp, rx' = op, lib.owner = "wq",
         op.op = "connected" => op.conn \notin Clients,
         LinkStep(op),
         UNCHANGED <<dev, lib, subs, conn_mode, wq, keys, moves, work, refused, cancelled>>
  PROVE  HidsInv'
<1> USE DEF HidsInv
<1>1. op # NoOp /\ op.conn \in Conns
  BY DEF Handler, NoOp
<1>3. TypeOK'
  BY DEF TypeOK, LinkStep
<1>4. MutexHeld'
  BY <1>1 DEF MutexHeld, NoThread
<1>5. OneSample' /\ AtClient'
  BY <1>1 DEF OneSample, AtClient, LinkStep
<1>6. TablesAgree' /\ Clients' = Clients
  BY DEF TablesAgree, Clients, Served
<1>7. Clients \subseteq Conns
  BY DEF Clients, TypeOK, Client
<1>8. ClientsLinked'
  BY <1>1, <1>6, <1>7 DEF ClientsLinked, LinkStep
<1>9. SendingTo'
  BY <1>6 DEF SendingTo
<1>10. KeysFollow'
  BY <1>1, <1>6 DEF KeysFollow, StuckOn, LinkStep
<1>11. MovesGoOn'
  BY DEF MovesGoOn
<1> QED  BY <1>3, <1>4, <1>5, <1>6, <1>8, <1>9, <1>10, <1>11


(* A callback starts, with what the stack has made of the link.             *)
LEMMA StartsKeeps ==
  ASSUME HidsInv, NEW op \in Handler, NEW lk, Starts(op, lk),
         op.op = "connected" => op.conn \notin Clients,
         lk \in [Conns -> [peer : Peers \cup {"none"}, up : BOOLEAN]],
         seen' \in [Conns -> SUBSET {"text", "shift"}],
         \A c \in Conns : c # op.conn => lk[c] = link[c] /\ seen'[c] = seen[c],
         op.op = "connected" => lk[op.conn].up /\ seen'[op.conn] = {},
         op.op = "disconnected" => ~lk[op.conn].up /\ seen'[op.conn] = {},
         op.op \notin {"connected", "disconnected"} =>
           lk[op.conn] = link[op.conn] /\ seen'[op.conn] = seen[op.conn]
  PROVE  HidsInv'
<1>1. rx = NoOp /\ UNCHANGED <<dev, wq, keys, moves>>
  BY DEF Starts
<1>2. op.conn \in Conns
  BY DEF Handler
<1>3. CASE CanLock(lib, "rx")
  <2> DEFINE l == Lock(lib, "rx")
  <2>1. Handles(l, op) /\ link' = Freed(lk, op) /\ rx' = NoOp
    BY <1>1, <1>3 DEF Starts
  <2>2. lib.owner \in {NoThread, "rx"} /\ lib.n = refused
    BY <1>1, <1>3 DEF CanLock, HidsInv, MutexHeld
  <2>3. l = [lib EXCEPT !.owner = "rx", !.n = lib.n + 1]
    BY DEF Lock
  <2> HIDE DEF l
  <2>4. l.ctx = lib.ctx /\ l.owner = "rx" /\ l.n = refused + 1 /\ Locked(l)
    <3>1. lib \in [ctx : [1 .. MAX_CONN -> Ctx],
                   owner : {NoThread, "rx", "wq"}, n : Nat]
      BY DEF HidsInv, TypeOK
    <3> DEFINE k == lib.n + 1
    <3>2. k \in Nat /\ k > 0 /\ k = refused + 1
      BY <2>2, <3>1
    <3>3. l = [lib EXCEPT !.owner = "rx", !.n = k]
      BY <2>3
    <3> HIDE DEF k
    <3>4. l.ctx = lib.ctx /\ l.owner = "rx" /\ l.n = k
          /\ l \in [ctx : [1 .. MAX_CONN -> Ctx], owner : {"rx", "wq"}, n : Nat]
      BY <3>1, <3>2, <3>3
    <3> QED  BY <3>2, <3>4 DEF Locked
  <2>5. Held(l)
    BY <2>4 DEF Held, HidsInv, TablesAgree
  <2>6. LinkStep(op)
    <3>1. CASE op.op = "disconnected"
      <4>1. link' = [lk EXCEPT ![op.conn] = NoLink]
        BY <2>1, <3>1 DEF Freed
      <4>2. NoLink \in [peer : Peers \cup {"none"}, up : BOOLEAN] /\ ~NoLink.up
        BY DEF NoLink
      <4> QED  BY <1>2, <3>1, <4>1, <4>2 DEF LinkStep
    <3>2. CASE op.op # "disconnected"
      <4>1. link' = lk
        BY <2>1, <3>2 DEF Freed
      <4> QED  BY <1>2, <3>2, <4>1 DEF LinkStep
    <3> QED  BY <3>1, <3>2
  <2> QED  BY <1>1, <2>1, <2>2, <2>4, <2>5, <2>6, HandledKeeps DEF Handled
<1>4. CASE ~CanLock(lib, "rx")
  <2>1. /\ rx' = op /\ link' = lk
        /\ UNCHANGED <<lib, conn_mode, subs, work, refused, cancelled>>
    BY <1>4 DEF Starts
  <2>2. lib.owner = "wq"
    BY <1>4 DEF CanLock, HidsInv, TypeOK
  <2>3. LinkStep(op)
    BY <1>2, <2>1 DEF LinkStep
  <2> QED  BY <1>1, <2>1, <2>2, <2>3, WaitingKeeps
<1> QED  BY <1>3, <1>4

(* Every action of the receive thread keeps the invariant.                  *)
LEMMA ReceiveKeeps ==
  ASSUME HidsInv, NEW c \in Conns,
         \/ \E p \in Peers : Connects(c, p)
         \/ LosesLink(c) \/ Reads(c)
         \/ \E v \in Modes \cup {Refused} : WritesMode(c, v)
         \/ \E a \in {"outp", "bootout"}, v \in {"leds", Refused} : WritesOutput(c, a, v)
  PROVE  HidsInv'
<1>0. /\ link \in [Conns -> [peer : Peers \cup {"none"}, up : BOOLEAN]]
      /\ seen \in [Conns -> SUBSET {"text", "shift"}]
  BY DEF HidsInv, TypeOK
<1>1. ASSUME NEW p \in Peers, Connects(c, p) PROVE HidsInv'
  <2> DEFINE op == [op |-> "connected", conn |-> c]
             lk == [link EXCEPT ![c] = [peer |-> p, up |-> TRUE]]
  <2>1. op \in Handler /\ op.op = "connected" /\ op.conn = c
    BY DEF Handler
  <2>2. /\ lk \in [Conns -> [peer : Peers \cup {"none"}, up : BOOLEAN]]
        /\ \A d \in Conns : d # c => lk[d] = link[d]
        /\ lk[c].up
    BY <1>0
  <2>3. seen' = [seen EXCEPT ![c] = {}] /\ Starts(op, lk) /\ link[c] = NoLink
    BY <1>1 DEF Connects
  <2>4. c \notin Clients
    BY <2>3 DEF Starts, HidsInv, ClientsLinked, NoLink
  <2> HIDE DEF op, lk
  <2> QED  BY <1>0, <2>1, <2>2, <2>3, <2>4, StartsKeeps
<1>2. ASSUME LosesLink(c) PROVE HidsInv'
  <2> DEFINE op == [op |-> "disconnected", conn |-> c]
             lk == [link EXCEPT ![c].up = FALSE]
  <2>1. op \in Handler /\ op.op = "disconnected" /\ op.conn = c
    BY DEF Handler
  <2>2. /\ lk \in [Conns -> [peer : Peers \cup {"none"}, up : BOOLEAN]]
        /\ \A d \in Conns : d # c => lk[d] = link[d]
        /\ ~lk[c].up
    BY <1>0
  <2>3. seen' = [seen EXCEPT ![c] = {}] /\ Starts(op, lk)
    BY <1>2 DEF LosesLink
  <2> HIDE DEF op, lk
  <2> QED  BY <1>0, <2>1, <2>2, <2>3, StartsKeeps
<1>3. ASSUME NEW op \in Handler, op.op \notin {"connected", "disconnected"},
             Starts(op, link), seen' = seen
      PROVE  HidsInv'
  BY <1>0, <1>3, StartsKeeps
<1>4. ASSUME Reads(c) PROVE HidsInv'
  <2> DEFINE op == [op |-> "read", conn |-> c]
  <2>1. op \in Handler /\ op.op = "read"
    BY DEF Handler
  <2>2. Starts(op, link) /\ seen' = seen
    BY <1>4 DEF Reads
  <2> HIDE DEF op
  <2> QED  BY <2>1, <2>2, <1>3
<1>5. ASSUME NEW v \in Modes \cup {Refused}, WritesMode(c, v) PROVE HidsInv'
  <2> DEFINE op == [op |-> "pm", conn |-> c, value |-> v]
  <2>1. op \in Handler /\ op.op = "pm"
    BY DEF Handler
  <2>2. Starts(op, link) /\ seen' = seen
    BY <1>5 DEF WritesMode
  <2> HIDE DEF op
  <2> QED  BY <2>1, <2>2, <1>3
<1>6. ASSUME NEW a \in {"outp", "bootout"}, NEW v \in {"leds", Refused},
             WritesOutput(c, a, v)
      PROVE  HidsInv'
  <2> DEFINE op == [op |-> a, conn |-> c, value |-> v]
  <2>1. op \in Handler /\ op.op = a
    BY DEF Handler
  <2>2. Starts(op, link) /\ seen' = seen
    BY <1>6 DEF WritesOutput
  <2> HIDE DEF op
  <2> QED  BY <2>1, <2>2, <1>3
<1> QED  BY <1>1, <1>2, <1>4, <1>5, <1>6

(* A handler that waited goes on with the mutex it was handed.              *)
LEMMA RxResumesKeeps ==
  ASSUME HidsInv, RxResumes
  PROVE  HidsInv'
<1>1. /\ rx # NoOp /\ lib.owner = "rx" /\ Handles(lib, rx) /\ link' = Freed(link, rx)
      /\ rx' = NoOp /\ seen' = seen /\ UNCHANGED <<dev, wq, keys, moves>>
  BY DEF RxResumes
<1>2. rx \in Handler /\ rx.conn \in Conns
  BY <1>1 DEF HidsInv, TypeOK, Handler
<1>3. lib.n = 1 /\ refused = 0 /\ Held(lib)
  BY <1>1 DEF HidsInv, MutexHeld, Held, Locked, TypeOK, TablesAgree
<1>4. LinkStep(rx)
  <2>1. CASE rx.op = "disconnected"
    <3>1. link' = [link EXCEPT ![rx.conn] = NoLink]
      BY <1>1, <2>1 DEF Freed
    <3>2. NoLink \in [peer : Peers \cup {"none"}, up : BOOLEAN] /\ ~NoLink.up
      BY DEF NoLink
    <3> QED  BY <1>1, <1>2, <2>1, <3>1, <3>2 DEF LinkStep, HidsInv, TypeOK
  <2>2. CASE rx.op # "disconnected"
    <3>1. link' = link
      BY <1>1, <2>2 DEF Freed
    <3> QED  BY <1>1, <1>2, <2>2, <3>1 DEF LinkStep, HidsInv, TypeOK, ClientsLinked
  <2> QED  BY <2>1, <2>2
<1>5. Handled(rx)
  BY <1>1, <1>4 DEF Handled, HidsInv, ClientsLinked
<1> QED  BY <1>1, <1>2, <1>3, <1>5, HandledKeeps

(* The stack changes a subscription.                                        *)
LEMMA SubscribesKeeps ==
  ASSUME HidsInv, NEW c \in Conns, NEW rep \in Modes, Subscribes(c, rep)
  PROVE  HidsInv'
<1>1. UNCHANGED <<dev, lib, link, conn_mode, rx, wq, keys, moves, work, seen,
                  refused, cancelled>>
  BY DEF Subscribes
<1>2. subs' \in [Peers -> SUBSET Modes]
  BY DEF Subscribes, HidsInv, TypeOK
<1>3. TypeOK'
  BY <1>1, <1>2 DEF HidsInv, TypeOK
<1>4. MutexHeld' /\ OneSample' /\ AtClient' /\ MovesGoOn'
  BY <1>1 DEF HidsInv, MutexHeld, OneSample, AtClient, MovesGoOn
<1>5. TablesAgree' /\ Clients' = Clients
  BY <1>1 DEF HidsInv, TablesAgree, Clients, Served
<1>6. ClientsLinked' /\ SendingTo' /\ KeysFollow'
  BY <1>1, <1>5 DEF HidsInv, ClientsLinked, SendingTo, KeysFollow, StuckOn
<1> QED  BY <1>3, <1>4, <1>5, <1>6 DEF HidsInv


(* ----------------------- the work queue ---------------------------------- *)

(* A step of the work queue leaves the tables, the links and what waits in  *)
(* the receive thread alone.                                                *)
LEMMA SenderTables ==
  ASSUME HidsInv, lib'.ctx = lib.ctx, UNCHANGED <<link, conn_mode, rx>>
  PROVE  TablesAgree' /\ ClientsLinked' /\ Clients' = Clients
<1>1. Clients' = Clients /\ Served(lib)' = Served(lib)
  BY DEF Clients, Served
<1>2. TablesAgree'
  BY <1>1 DEF HidsInv, TablesAgree
<1> QED  BY <1>1, <1>2 DEF HidsInv, ClientsLinked

(* Where a report ends, or goes on to the next client.                      *)
LEMMA SendEndsType ==
  ASSUME NEW w \in Sender, NEW e \in {0, 1}
  PROVE  /\ SendEnds(w, e) \in Sender
         /\ SendEnds(w, e).pc = IF w.todo = <<>> THEN "idle" ELSE "keys"
         /\ SendEnds(w, e).err = e
         /\ SendEnds(w, e).todo = w.todo
<1> DEFINE p == IF w.todo = <<>> THEN "idle" ELSE "keys"
<1>1. p \in {"idle", "keys"}
  OBVIOUS
<1>2. SendEnds(w, e) =
        [w EXCEPT !.pc = p, !.err = e, !.i = 0, !.conn = NoConn, !.boot = FALSE]
  BY DEF SendEnds
<1>3. 0 \in 0 .. MAX_CLIENT_COUNT + 1
  BY PeripheralSizes
<1> HIDE DEF p
<1>4. SendEnds(w, e) \in Sender
  BY <1>1, <1>2, <1>3 DEF Sender
<1>5. SendEnds(w, e).pc = p /\ SendEnds(w, e).err = e /\ SendEnds(w, e).todo = w.todo
  BY <1>2 DEF Sender
<1> QED  BY <1>4, <1>5 DEF p

LEMMA AfterClientType ==
  ASSUME TypeOK, NEW w \in Sender, w.i \in 1 .. MAX_CLIENT_COUNT, NEW e \in {0, 1}
  PROVE  /\ AfterClient(w, e) \in Sender
         /\ AfterClient(w, e).todo = w.todo
         /\ dev.is_kb /\ e = 1 =>
              /\ AfterClient(w, e).pc = IF w.todo = <<>> THEN "idle" ELSE "keys"
              /\ AfterClient(w, e).err = 1
         /\ ~(dev.is_kb /\ e = 1) =>
              AfterClient(w, e).pc = "loop" /\ AfterClient(w, e).i = w.i + 1
<1>1. CASE dev.is_kb /\ e = 1
  <2>1. AfterClient(w, e) = SendEnds(w, 1)
    BY <1>1 DEF AfterClient
  <2> QED  BY <1>1, <2>1, SendEndsType
<1>2. CASE ~(dev.is_kb /\ e = 1)
  <2> DEFINE k == w.i + 1
  <2>1. AfterClient(w, e) = [w EXCEPT !.pc = "loop", !.i = k, !.conn = NoConn, !.boot = FALSE]
    BY <1>2 DEF AfterClient
  <2>2. k \in 0 .. MAX_CLIENT_COUNT + 1
    BY PeripheralSizes
  <2> HIDE DEF k
  <2>3. AfterClient(w, e) \in Sender
    BY <2>1, <2>2 DEF Sender
  <2>4. AfterClient(w, e).pc = "loop" /\ AfterClient(w, e).i = k /\ AfterClient(w, e).todo = w.todo
    BY <2>1 DEF Sender
  <2> QED  BY <1>2, <2>3, <2>4 DEF k
<1> QED  BY <1>1, <1>2

(* What is left of the invariant after a step of the work queue that has    *)
(* only moved on and perhaps given the mutex back.                          *)
LEMMA SenderKeeps ==
  ASSUME HidsInv, lib'.ctx = lib.ctx,
         UNCHANGED <<dev, link, subs, conn_mode, rx, refused, cancelled, keys, work>>,
         TypeOK', MutexHeld', AtClient', SendingTo', MovesGoOn',
         wq'.todo = wq.todo, moves' <= moves, wq'.pc = "keys" => dev.is_kb,
         seen' = seen,
         wq.pc \in {"loop", "lock", "notify"},
         wq'.pc = "idle" /\ wq'.err = 0 => \A c \in Conns : ~StuckOn(c),
         wq'.pc \in {"loop", "lock", "notify"} =>
           \A c \in Conns : StuckOn(c) =>
             \E j \in DOMAIN conn_mode : j >= wq'.i /\ conn_mode[j].conn = c
  PROVE  HidsInv'
<1>1. TablesAgree' /\ ClientsLinked' /\ Clients' = Clients
  BY SenderTables
<1>2. OneSample'
  BY DEF HidsInv, OneSample, TypeOK
<1>3. \A c \in Conns : StuckOn(c)' <=> StuckOn(c)
  BY DEF StuckOn
<1>4. KeysFollow'
  BY <1>1, <1>3 DEF KeysFollow, HidsInv
<1> QED  BY <1>1, <1>2, <1>4 DEF HidsInv

(* A client of whom nothing is known is left, with an error or without: its *)
(* host has seen no key go down that is up, or the report ends with the     *)
(* error.                                                                   *)
LEMMA LeavesClient ==
  ASSUME HidsInv, NEW w \in Sender, w.i = wq.i, w.todo = wq.todo,
         wq.i \in 1 .. MAX_CLIENT_COUNT, NEW e \in {0, 1}, wq' = AfterClient(w, e),
         wq.pc \in {"loop", "lock", "notify"},
         e = 0 \/ ~dev.is_kb => \A c \in Conns : StuckOn(c) => conn_mode[wq.i].conn # c,
         lib' \in [ctx : [1 .. MAX_CONN -> Ctx],
                   owner : {NoThread, "rx", "wq"}, n : Nat],
         lib'.ctx = lib.ctx,
         UNCHANGED <<dev, link, subs, conn_mode, rx, refused, cancelled, keys, moves,
                     work, seen>>,
         wq'.pc \in {"idle", "keys", "loop"} => MutexHeld'
  PROVE  HidsInv'
<1>0. TypeOK /\ (dev.is_kb => moves = 0) /\ (~dev.is_kb => wq.todo = <<>>)
  BY DEF HidsInv, OneSample
<1>1. /\ wq' \in Sender /\ wq'.todo = w.todo
      /\ dev.is_kb /\ e = 1 =>
           wq'.pc = (IF w.todo = <<>> THEN "idle" ELSE "keys") /\ wq'.err = 1
      /\ ~(dev.is_kb /\ e = 1) => wq'.pc = "loop" /\ wq'.i = wq.i + 1
  BY <1>0, AfterClientType
<1>2. wq'.pc \in {"idle", "keys", "loop"}
  BY <1>1
<1>3. TypeOK'
  BY <1>0, <1>1 DEF TypeOK
<1>4. AtClient' /\ SendingTo'
  BY <1>1, <1>2 DEF AtClient, SendingTo
<1>5. MovesGoOn'
  BY <1>0, <1>1 DEF MovesGoOn
<1>6. ASSUME wq'.pc = "loop", NEW c \in Conns, StuckOn(c)
      PROVE  \E j \in DOMAIN conn_mode : j >= wq'.i /\ conn_mode[j].conn = c
  <2>1. ~(dev.is_kb /\ e = 1)
    BY <1>1, <1>6
  <2>2. PICK j \in DOMAIN conn_mode : j >= wq.i /\ conn_mode[j].conn = c
    BY <1>6 DEF HidsInv, KeysFollow
  <2>3. j # wq.i
    BY <1>6, <2>1, <2>2
  <2>4. j \in 1 .. MAX_CLIENT_COUNT
    BY <1>0 DEF TypeOK
  <2>5. j >= wq'.i
    BY <1>1, <2>1, <2>2, <2>3, <2>4, PeripheralSizes
  <2> QED  BY <2>2, <2>5
<1>7. moves' <= moves
  BY <1>0 DEF TypeOK
<1> QED  BY <1>0, <1>1, <1>2, <1>3, <1>4, <1>5, <1>6, <1>7, SenderKeeps


(* The sender gives the mutex back, to the handler that waits if there is   *)
(* one.                                                                     *)
RxWaits == IF rx # NoOp THEN "rx" ELSE NoThread

LEMMA SenderUnlocks ==
  ASSUME TypeOK, NEW l, Locked(l), l.ctx = lib.ctx, l.n = 1, refused = 0,
         lib' = Unlock(l, RxWaits), UNCHANGED <<rx, refused>>
  PROVE  /\ lib' \in [ctx : [1 .. MAX_CONN -> Ctx],
                      owner : {NoThread, "rx", "wq"}, n : Nat]
         /\ lib'.ctx = lib.ctx
         /\ wq'.pc \in {"idle", "keys", "loop"} => MutexHeld'
<1>1. RxWaits \in {NoThread, "rx"}
  BY DEF RxWaits
<1>2. lib' \in [ctx : [1 .. MAX_CONN -> Ctx],
                owner : {NoThread, "rx", "wq"}, n : Nat]
      /\ lib'.ctx = lib.ctx /\ lib'.owner = RxWaits
      /\ lib'.n = IF RxWaits = NoThread THEN 0 ELSE 1
  BY <1>1, UnlockEffect
<1> QED  BY <1>2 DEF MutexHeld, RxWaits, NoThread

(* The part of a report that needs the mutex.                               *)
LEMMA SendsLockedKeeps ==
  ASSUME HidsInv, NEW l, Held(l), l.ctx = lib.ctx, l.owner = "wq", l.n = 1, refused = 0,
         NEW w \in Sender, w.i = wq.i, w.todo = wq.todo, w.i \in 1 .. MAX_CLIENT_COUNT,
         w.conn \in Conns, wq.pc \in {"loop", "lock"},
         conn_mode[w.i].conn = w.conn \/ w.conn \notin Clients,
         SendsLocked(l, w),
         UNCHANGED <<dev, link, subs, conn_mode, rx, refused, cancelled, keys, moves,
                     work, seen>>
  PROVE  HidsInv'
<1> DEFINE x == bt_conn_ctx_get(l, w.conn)
<1>0. TypeOK /\ Locked(l)
  BY DEF HidsInv, Held
<1>1. CASE x = NoEntry \/ ~link[w.conn].up
  <2>1. lib' = Unlock(l, RxWaits) /\ wq' = AfterClient(w, 1)
    BY <1>1 DEF SendsLocked, RxWaits
  <2>2. ~dev.is_kb => \A c \in Conns : ~StuckOn(c)
    BY DEF HidsInv, OneSample, StuckOn
  <2> HIDE DEF x
  <2> QED  BY <1>0, <2>1, <2>2, SenderUnlocks, LeavesClient
<1>2. CASE ~(x = NoEntry \/ ~link[w.conn].up)
  <2>1. lib' = l /\ wq' = [w EXCEPT !.pc = "notify"]
    BY <1>2 DEF SendsLocked
  <2>2. w.conn \in Served(l)
    BY <1>2, GetEffect
  <2>3. w.conn \in Clients
    BY <2>2 DEF Served, HidsInv, TablesAgree
  <2> HIDE DEF x
  <2>4. wq' \in Sender /\ wq'.pc = "notify" /\ wq'.i = wq.i /\ wq'.todo = wq.todo
        /\ wq'.conn = w.conn
    BY <2>1 DEF Sender
  <2>5. TypeOK'
    BY <1>0, <2>1, <2>4 DEF TypeOK, Locked
  <2>6. MutexHeld'
    BY <2>1, <2>4 DEF MutexHeld, NoThread
  <2>7. AtClient' /\ SendingTo' /\ MovesGoOn'
    BY <2>3, <2>4 DEF AtClient, SendingTo, MovesGoOn
  <2>8. \A c \in Conns : StuckOn(c) =>
          \E j \in DOMAIN conn_mode : j >= wq'.i /\ conn_mode[j].conn = c
    BY <2>4 DEF HidsInv, KeysFollow
  <2>9. moves' <= moves
    BY <1>0 DEF TypeOK
  <2> QED  BY <2>1, <2>4, <2>5, <2>6, <2>7, <2>8, <2>9, SenderKeeps
<1> QED  BY <1>1, <1>2

LEMMA WqResumesKeeps ==
  ASSUME HidsInv, WqResumes
  PROVE  HidsInv'
<1>1. /\ wq.pc = "lock" /\ lib.owner = "wq" /\ SendsLocked(lib, wq)
      /\ UNCHANGED <<dev, link, subs, conn_mode, rx, refused, cancelled, keys, moves,
                     work, seen>>
  BY DEF WqResumes, rxUnchanged
<1>2. lib.n = 1 /\ refused = 0 /\ Held(lib) /\ wq \in Sender
  BY <1>1 DEF HidsInv, MutexHeld, Held, Locked, TypeOK, TablesAgree
<1>3. wq.i \in 1 .. MAX_CLIENT_COUNT /\ wq.conn \in Conns
      /\ (conn_mode[wq.i].conn = wq.conn \/ wq.conn \notin Clients)
  BY <1>1, <1>2 DEF HidsInv, AtClient, SendingTo
<1> QED  BY <1>1, <1>2, <1>3, SendsLockedKeeps

(* mouse_handler(): the next movement, or the end.                          *)
LEMMA TakesMoveKeeps ==
  ASSUME HidsInv, ~dev.is_kb, wq.pc \in {"idle", "loop"},
         TakesMove(wq), work' \in {work, FALSE},
         UNCHANGED <<dev, lib, link, subs, conn_mode, rx, refused, cancelled, keys, seen>>
  PROVE  HidsInv'
<1>0. TypeOK /\ wq \in Sender /\ moves \in Nat /\ wq.todo = <<>>
      /\ \A c \in Conns : seen[c] = {}
  BY DEF HidsInv, TypeOK, OneSample
<1>1. /\ wq' \in Sender /\ wq'.todo = <<>> /\ moves' \in Nat
      /\ \/ wq'.pc = "loop" /\ wq'.i = 1
         \/ wq'.pc = "idle" /\ moves' = 0
  <2>1. CASE moves > 0
    <3>1. wq' = [wq EXCEPT !.pc = "loop", !.i = 1] /\ moves' = moves - 1
      BY <2>1 DEF TakesMove
    <3>2. 1 \in 0 .. MAX_CLIENT_COUNT + 1
      BY PeripheralSizes
    <3>3. wq' \in Sender /\ wq'.pc = "loop" /\ wq'.i = 1 /\ wq'.todo = wq.todo
      BY <1>0, <3>1, <3>2 DEF Sender
    <3> QED  BY <1>0, <2>1, <3>1, <3>3
  <2>2. CASE ~(moves > 0)
    <3>1. wq' = SendEnds(wq, 0) /\ moves' = moves
      BY <2>2 DEF TakesMove
    <3> QED  BY <1>0, <2>2, <3>1, SendEndsType
  <2> QED  BY <2>1, <2>2
<1>2. TypeOK'
  BY <1>0, <1>1 DEF TypeOK
<1>3. MutexHeld' /\ AtClient' /\ SendingTo' /\ MovesGoOn' /\ OneSample'
  BY <1>1 DEF HidsInv, MutexHeld, AtClient, SendingTo, MovesGoOn, OneSample
<1>4. TablesAgree' /\ ClientsLinked' /\ Clients' = Clients
  BY SenderTables
<1>5. KeysFollow'
  BY <1>0, <1>4 DEF KeysFollow, StuckOn
<1> QED  BY <1>2, <1>3, <1>4, <1>5 DEF HidsInv

LEMMA RunsWorkKeeps ==
  ASSUME HidsInv, RunsWork
  PROVE  HidsInv'
<1>1. /\ wq.pc = "idle" /\ work /\ work' = FALSE /\ TakesMove(wq)
      /\ UNCHANGED <<dev, lib, link, subs, conn_mode, rx, refused, cancelled, keys, seen>>
  BY DEF RunsWork, rxUnchanged
<1>2. ~dev.is_kb
  BY <1>1 DEF HidsInv, OneSample
<1> QED  BY <1>1, <1>2, TakesMoveKeeps


(* One turn of the loop over the clients.                                   *)
LEMMA SendsToClientKeeps ==
  ASSUME HidsInv, SendsToClient
  PROVE  HidsInv'
<1> DEFINE m == conn_mode[wq.i]
           w == [wq EXCEPT !.conn = m.conn, !.boot = m.in_boot_mode]
<1>0. /\ wq.pc = "loop"
      /\ UNCHANGED <<dev, link, subs, conn_mode, rx, refused, cancelled, keys, work, seen>>
  BY DEF SendsToClient, rxUnchanged
<1>1. TypeOK /\ wq \in Sender /\ wq.i \in 1 .. MAX_CLIENT_COUNT + 1 /\ moves \in Nat
      /\ DOMAIN conn_mode = 1 .. MAX_CLIENT_COUNT
  BY <1>0, PeripheralSizes DEF HidsInv, TypeOK, AtClient, Sender
<1>2. CASE PastClients(wq.i)
  <2>1. UNCHANGED lib
    BY <1>2 DEF SendsToClient
  <2>2. \A c \in Conns : ~StuckOn(c)
    BY <1>0, <1>1, <1>2, PeripheralSizes DEF HidsInv, KeysFollow, PastClients
  <2>3. CASE dev.is_kb
    <3>1. wq' = SendEnds(wq, 0) /\ moves' = moves
      BY <1>2, <2>3 DEF SendsToClient
    <3>2. wq' \in Sender /\ wq'.todo = wq.todo /\ wq'.err = 0
          /\ wq'.pc = IF wq.todo = <<>> THEN "idle" ELSE "keys"
      BY <1>1, <3>1, SendEndsType
    <3>3. TypeOK'
      BY <1>0, <1>1, <2>1, <3>1, <3>2 DEF TypeOK
    <3>4. MutexHeld' /\ AtClient' /\ SendingTo' /\ MovesGoOn'
      BY <1>0, <2>1, <2>3, <3>1, <3>2
         DEF HidsInv, MutexHeld, AtClient, SendingTo, MovesGoOn, OneSample
    <3>5. moves' <= moves
      BY <1>1, <3>1
    <3> QED  BY <1>0, <2>1, <2>2, <2>3, <3>2, <3>3, <3>4, <3>5, SenderKeeps
  <2>4. CASE ~dev.is_kb
    <3>1. TakesMove(wq)
      BY <1>2, <2>4 DEF SendsToClient
    <3> QED  BY <1>0, <2>1, <2>4, <3>1, TakesMoveKeeps
  <2> QED  BY <2>3, <2>4
<1>3. CASE ~PastClients(wq.i)
  <2>1. wq.i \in 1 .. MAX_CLIENT_COUNT /\ m \in Client
    <3>1. wq.i \in 1 .. MAX_CLIENT_COUNT
      BY <1>1, <1>3, PeripheralSizes DEF PastClients
    <3> QED  BY <1>1, <3>1 DEF TypeOK
  <2>2. CASE m.conn = NoConn
    <3>1. wq' = [wq EXCEPT !.i = @ + 1] /\ UNCHANGED <<lib, moves>>
      BY <1>3, <2>2 DEF SendsToClient
    <3>2. wq.i + 1 \in 0 .. MAX_CLIENT_COUNT + 1
      BY <2>1, PeripheralSizes
    <3>3. wq' \in Sender /\ wq'.pc = "loop" /\ wq'.i = wq.i + 1 /\ wq'.todo = wq.todo
      BY <1>0, <1>1, <3>1, <3>2 DEF Sender
    <3>4. TypeOK'
      BY <1>0, <1>1, <3>1, <3>3 DEF TypeOK
    <3>5. MutexHeld' /\ AtClient' /\ SendingTo' /\ MovesGoOn'
      BY <1>0, <2>1, <3>1, <3>3
         DEF HidsInv, MutexHeld, AtClient, SendingTo, MovesGoOn, OneSample
    <3>6. moves' <= moves
      BY <1>1, <3>1
    <3>7. ASSUME NEW c \in Conns, StuckOn(c)
          PROVE  \E j \in DOMAIN conn_mode : j >= wq'.i /\ conn_mode[j].conn = c
      <4>1. PICK j \in DOMAIN conn_mode : j >= wq.i /\ conn_mode[j].conn = c
        BY <1>0, <3>7 DEF HidsInv, KeysFollow
      <4>2. j # wq.i
        BY <2>2, <4>1, PeripheralSizes
      <4>3. j >= wq'.i
        BY <1>1, <2>1, <3>3, <4>1, <4>2, PeripheralSizes
      <4> QED  BY <4>1, <4>3
    <3> QED  BY <1>0, <3>1, <3>3, <3>4, <3>5, <3>6, <3>7, SenderKeeps
  <2>3. CASE m.conn # NoConn
    <3>1. m.conn \in Conns /\ m.in_boot_mode \in BOOLEAN
      BY <2>1, <2>3 DEF Client
    <3>2. w \in Sender /\ w.i = wq.i /\ w.todo = wq.todo /\ w.conn = m.conn /\ w.pc = "loop"
      BY <1>0, <1>1, <3>1 DEF Sender
    <3>3. ~dev.is_kb => \A c \in Conns : ~StuckOn(c)
      BY DEF HidsInv, OneSample, StuckOn
    <3>4. CASE ~hids_is_notification_enabled(m.conn, m.in_boot_mode)
      <4>1. wq' = AfterClient(w, 1) /\ UNCHANGED <<lib, moves>>
        BY <1>3, <2>3, <3>4 DEF SendsToClient
      <4> HIDE DEF w, m
      <4>2. wq'.pc \in {"idle", "keys", "loop"} => MutexHeld'
        BY <1>0, <4>1 DEF HidsInv, MutexHeld
      <4>3. lib' \in [ctx : [1 .. MAX_CONN -> Ctx],
                      owner : {NoThread, "rx", "wq"}, n : Nat]
            /\ lib'.ctx = lib.ctx
        BY <1>1, <4>1 DEF TypeOK
      <4> QED  BY <1>0, <2>1, <3>2, <3>3, <4>1, <4>2, <4>3, LeavesClient
    <3>5. CASE hids_is_notification_enabled(m.conn, m.in_boot_mode) /\ CanLock(lib, "wq")
      <4>1. SendsLocked(Lock(lib, "wq"), w) /\ UNCHANGED moves
        BY <1>3, <2>3, <3>5 DEF SendsToClient
      <4>2. lib.owner = NoThread /\ lib.n = 0 /\ refused = 0
        BY <1>0, <3>5 DEF CanLock, HidsInv, MutexHeld
      <4> DEFINE l == Lock(lib, "wq")
      <4>3. l = [lib EXCEPT !.owner = "wq", !.n = 1]
        BY <4>2 DEF Lock
      <4> HIDE DEF l, w, m
      <4>4. l.ctx = lib.ctx /\ l.owner = "wq" /\ l.n = 1 /\ Locked(l)
        <5>1. lib \in [ctx : [1 .. MAX_CONN -> Ctx],
                       owner : {NoThread, "rx", "wq"}, n : Nat]
          BY <1>1 DEF TypeOK
        <5>2. l.ctx = lib.ctx /\ l.owner = "wq" /\ l.n = 1
              /\ l \in [ctx : [1 .. MAX_CONN -> Ctx], owner : {"rx", "wq"}, n : Nat]
          BY <4>3, <5>1
        <5> QED  BY <5>2 DEF Locked
      <4>5. Held(l)
        BY <4>4 DEF Held, HidsInv, TablesAgree
      <4>6. SendsLocked(l, w)
        BY <4>1 DEF l
      <4>7. conn_mode[w.i].conn = w.conn
        BY <3>2 DEF m
      <4> QED  BY <1>0, <2>1, <3>1, <3>2, <4>1, <4>2, <4>4, <4>5, <4>6, <4>7, SendsLockedKeeps
    <3>6. CASE hids_is_notification_enabled(m.conn, m.in_boot_mode) /\ ~CanLock(lib, "wq")
      <4>1. wq' = [w EXCEPT !.pc = "lock"] /\ UNCHANGED <<lib, moves>>
        BY <1>3, <2>3, <3>6 DEF SendsToClient
      <4>2. lib.owner = "rx"
        BY <1>1, <3>6 DEF CanLock, TypeOK
      <4>3. conn_mode[wq.i].conn = w.conn
        BY <3>2
      <4> HIDE DEF w, m
      <4>4. wq' \in Sender /\ wq'.pc = "lock" /\ wq'.i = wq.i /\ wq'.todo = wq.todo
            /\ wq'.conn = w.conn
        BY <3>2, <4>1 DEF Sender
      <4>5. TypeOK'
        BY <1>0, <1>1, <4>1, <4>4 DEF TypeOK
      <4>6. MutexHeld' /\ AtClient' /\ SendingTo' /\ MovesGoOn'
        BY <1>0, <2>1, <3>1, <3>2, <4>1, <4>2, <4>3, <4>4
           DEF HidsInv, MutexHeld, AtClient, SendingTo, MovesGoOn, OneSample, NoThread
      <4>7. \A c \in Conns : StuckOn(c) =>
              \E j \in DOMAIN conn_mode : j >= wq'.i /\ conn_mode[j].conn = c
        BY <1>0, <4>4 DEF HidsInv, KeysFollow
      <4>8. moves' <= moves
        BY <1>1, <4>1
      <4> QED  BY <1>0, <4>1, <4>4, <4>5, <4>6, <4>7, <4>8, SenderKeeps
    <3> QED  BY <3>4, <3>5, <3>6
  <2> QED  BY <2>2, <2>3
<1> QED  BY <1>2, <1>3

(* bt_gatt_notify_cb() returns.                                             *)
LEMMA NotifyReturnsKeeps ==
  ASSUME HidsInv, NotifyReturns
  PROVE  HidsInv'
<1>0. /\ wq.pc = "notify" /\ lib' = Unlock(lib, RxWaits)
      /\ UNCHANGED <<dev, link, subs, conn_mode, rx, refused, cancelled, keys, moves, work>>
  BY DEF NotifyReturns, rxUnchanged, RxWaits
<1>1. TypeOK /\ wq \in Sender /\ wq.i \in 1 .. MAX_CLIENT_COUNT /\ wq.conn \in Conns
      /\ conn_mode[wq.i].conn = wq.conn /\ DOMAIN conn_mode = 1 .. MAX_CLIENT_COUNT
  BY <1>0 DEF HidsInv, TypeOK, AtClient, SendingTo
<1>2. lib.owner = "wq" /\ lib.n = 1 /\ refused = 0 /\ Locked(lib)
  BY <1>0 DEF HidsInv, MutexHeld, TypeOK, Locked
<1>3. /\ lib' \in [ctx : [1 .. MAX_CONN -> Ctx],
                   owner : {NoThread, "rx", "wq"}, n : Nat]
      /\ lib'.ctx = lib.ctx
      /\ wq'.pc \in {"idle", "keys", "loop"} => MutexHeld'
  BY <1>0, <1>1, <1>2, SenderUnlocks
<1>4. CASE ~link[wq.conn].up
  <2>1. PICK err \in {0, 1} : wq' = AfterClient(wq, err) /\ seen' = seen
    BY <1>4 DEF NotifyReturns
  <2>2. \A c \in Conns : StuckOn(c) => conn_mode[wq.i].conn # c
    BY <1>1, <1>4 DEF StuckOn
  <2> QED  BY <1>0, <1>1, <1>3, <2>1, <2>2, LeavesClient
<1>5. CASE link[wq.conn].up
  <2>1. seen' = [seen EXCEPT ![wq.conn] = keys] /\ wq' = AfterClient(wq, 0)
    BY <1>5 DEF NotifyReturns
  <2>2. wq' \in Sender /\ wq'.todo = wq.todo /\ wq'.pc = "loop" /\ wq'.i = wq.i + 1
    BY <1>1, <2>1, AfterClientType
  <2>3. TypeOK'
    BY <1>0, <1>1, <1>3, <2>1, <2>2 DEF TypeOK
  <2>4. MutexHeld'
    BY <1>3, <2>2
  <2>5. AtClient' /\ SendingTo' /\ MovesGoOn'
    BY <1>1, <2>2 DEF AtClient, SendingTo, MovesGoOn
  <2>6. OneSample'
    BY <1>0, <1>1, <2>1, <2>2 DEF HidsInv, OneSample, TypeOK
  <2>7. TablesAgree' /\ ClientsLinked' /\ Clients' = Clients
    BY <1>0, <1>3, SenderTables
  <2>8. wq.conn \in Clients
    BY <1>1, PeripheralSizes DEF Clients
  <2>9. \A c \in Conns : link'[c].up /\ seen'[c] # {} => c \in Clients'
    BY <1>0, <1>1, <2>1, <2>7, <2>8 DEF HidsInv, KeysFollow, TypeOK
  <2>10. ASSUME NEW c \in Conns, StuckOn(c)'
         PROVE  \E j \in DOMAIN conn_mode' : j >= wq'.i /\ conn_mode'[j].conn = c
    <3>1. c # wq.conn /\ StuckOn(c)
      BY <1>0, <1>1, <2>1, <2>10 DEF StuckOn, TypeOK
    <3>2. PICK j \in DOMAIN conn_mode : j >= wq.i /\ conn_mode[j].conn = c
      BY <1>0, <3>1 DEF HidsInv, KeysFollow
    <3>3. j # wq.i
      BY <1>1, <3>1, <3>2
    <3>4. j >= wq'.i
      BY <1>1, <2>2, <3>2, <3>3, PeripheralSizes
    <3> QED  BY <1>0, <3>2, <3>4
  <2>11. KeysFollow'
    BY <2>2, <2>9, <2>10 DEF KeysFollow
  <2> QED  BY <2>3, <2>4, <2>5, <2>6, <2>7, <2>11 DEF HidsInv
<1> QED  BY <1>4, <1>5


(* The buttons that were found pressed are buttons of the sample.           *)
ButtonsHeld == held \subseteq Buttons(dev)

(* A button that changed is reported, in one element.                       *)
LEMMA ChangeType ==
  ASSUME NEW b \in {"text", "shift"}, NEW now
  PROVE  /\ Change(now, b) \in Seq(Key)
         /\ ~(b \in now <=> b \in held) => Len(Change(now, b)) = 1
<1> DEFINE d == b \in now
           h == b \in held
           e == [key |-> b, down |-> d]
<1>1. d \in BOOLEAN /\ h \in BOOLEAN
  OBVIOUS
<1>2. Change(now, b) = IF d # h THEN <<e>> ELSE <<>>
  BY DEF Change
<1>3. e \in Key
  BY <1>1 DEF Key
<1> HIDE DEF d, h, e
<1>4. ~(d <=> h) => d # h
  OBVIOUS
<1>5. Change(now, b) \in Seq(Key) /\ (~(d <=> h) => Len(Change(now, b)) = 1)
  BY <1>2, <1>3, <1>4
<1> QED  BY <1>5 DEF d, h

(* A button has changed: the keyboard has keys to report, the mouse queues  *)
(* a movement.                                                              *)
LEMMA ButtonsScannedKeeps ==
  ASSUME HidsInv, ButtonsHeld, NEW now \in SUBSET Buttons(dev), ButtonsScanned(now)
  PROVE  HidsInv'
<1>0. /\ wq.pc = "idle" /\ now # held
      /\ UNCHANGED <<dev, link, subs, conn_mode, rx, refused, cancelled, lib, keys, seen>>
  BY DEF ButtonsScanned, rxUnchanged
<1>1. TypeOK /\ wq \in Sender /\ moves \in Nat
  BY DEF HidsInv, TypeOK
<1>2. TablesAgree' /\ ClientsLinked' /\ Clients' = Clients
  BY <1>0, SenderTables
<1>3. CASE dev.is_kb
  <2> DEFINE todo == Change(now, "text") \o Change(now, "shift")
  <2>1. wq' = [wq EXCEPT !.pc = "keys", !.err = 0, !.todo = todo] /\ UNCHANGED <<moves, work>>
    BY <1>3 DEF ButtonsScanned
  <2>2. todo \in Seq(Key) /\ todo # <<>>
    <3>1. Change(now, "text") \in Seq(Key) /\ Change(now, "shift") \in Seq(Key)
      BY ChangeType
    <3>2. \E b \in {"text", "shift"} : ~(b \in now <=> b \in held)
      <4>1. Buttons(dev) = {"text", "shift"}
        BY <1>3 DEF Buttons
      <4>2. held \subseteq {"text", "shift"} /\ now \subseteq {"text", "shift"}
        BY <4>1 DEF ButtonsHeld
      <4>3. (\A b \in {"text", "shift"} : b \in now <=> b \in held) =>
              \A b : b \in now <=> b \in held
        BY <4>2
      <4>4. (\A b : b \in now <=> b \in held) => now = held
        OBVIOUS
      <4> QED  BY <1>0, <4>3, <4>4
    <3>3. Len(Change(now, "text")) = 1 \/ Len(Change(now, "shift")) = 1
      BY <3>2, ChangeType
    <3>4. Len(todo) = Len(Change(now, "text")) + Len(Change(now, "shift"))
          /\ todo \in Seq(Key)
      BY <3>1
    <3> HIDE DEF todo
    <3> QED  BY <3>1, <3>3, <3>4
  <2> HIDE DEF todo
  <2>3. wq' \in Sender /\ wq'.pc = "keys" /\ wq'.todo = todo
    BY <1>1, <2>1, <2>2 DEF Sender
  <2>4. TypeOK'
    BY <1>0, <1>1, <2>1, <2>3 DEF TypeOK
  <2>5. MutexHeld' /\ AtClient' /\ SendingTo' /\ MovesGoOn' /\ OneSample'
    BY <1>0, <1>3, <2>1, <2>2, <2>3
       DEF HidsInv, MutexHeld, AtClient, SendingTo, MovesGoOn, OneSample
  <2>6. KeysFollow'
    BY <1>0, <1>2, <2>3 DEF HidsInv, KeysFollow
  <2> QED  BY <1>2, <2>4, <2>5, <2>6 DEF HidsInv
<1>4. CASE ~dev.is_kb
  <2>1. /\ wq' = wq
        /\ \/ UNCHANGED <<moves, work>>
           \/ /\ moves' = moves + 1 /\ work' \in BOOLEAN
              /\ work' <=> (work \/ Submits(moves + 1))
    BY <1>4, Zenon DEF ButtonsScanned
  <2>2. moves' \in Nat /\ work' \in BOOLEAN
    BY <1>1, <2>1 DEF TypeOK
  <2>3. MovesGoOn'
    <3>1. Submits(moves + 1) <=> moves = 0
      BY <1>1 DEF Submits
    <3> QED  BY <1>0, <1>1, <2>1, <3>1 DEF HidsInv, MovesGoOn, TypeOK
  <2>4. TypeOK'
    BY <1>0, <1>1, <2>1, <2>2 DEF TypeOK
  <2>5. MutexHeld' /\ AtClient' /\ SendingTo' /\ OneSample'
    BY <1>0, <1>4, <2>1 DEF HidsInv, MutexHeld, AtClient, SendingTo, OneSample
  <2>6. KeysFollow'
    BY <1>0, <1>2, <2>1 DEF HidsInv, KeysFollow, StuckOn
  <2> QED  BY <1>2, <2>3, <2>4, <2>5, <2>6 DEF HidsInv
<1> QED  BY <1>3, <1>4

(* A key goes down or up: its report is for every client.                   *)
LEMMA KeyChangedKeeps ==
  ASSUME HidsInv, KeyChanged
  PROVE  HidsInv'
<1> DEFINE k == Head(wq.todo)
           w == [wq EXCEPT !.todo = Tail(@), !.err = 0]
           send == [w EXCEPT !.pc = "loop", !.i = 1]
<1>0. /\ wq.pc = "keys"
      /\ UNCHANGED <<dev, link, subs, conn_mode, rx, refused, cancelled, lib, moves, work, seen>>
      /\ keys' = (IF k.down THEN keys \cup {k.key} ELSE keys \ {k.key})
      /\ wq' \in {send, SendEnds(w, 1)}
  BY DEF KeyChanged, rxUnchanged
<1>1. TypeOK /\ wq \in Sender /\ dev.is_kb /\ wq.todo \in Seq(Key) /\ wq.todo # <<>>
  BY <1>0 DEF HidsInv, TypeOK, OneSample, AtClient, Sender
<1>2. k \in Key /\ Tail(wq.todo) \in Seq(Key)
  BY <1>1
<1>3. keys' \in SUBSET {"text", "shift"}
  <2>1. k.key \in {"text", "shift"}
    BY <1>2 DEF Key
  <2> HIDE DEF k
  <2> QED  BY <1>0, <1>1, <2>1 DEF TypeOK
<1> HIDE DEF k
<1>4. w \in Sender
  BY <1>1, <1>2 DEF Sender
<1>5. send \in Sender /\ send.pc = "loop" /\ send.i = 1
  <2>1. 1 \in 0 .. MAX_CLIENT_COUNT + 1
    BY PeripheralSizes
  <2> HIDE DEF w
  <2> QED  BY <1>4, <2>1 DEF Sender
<1> HIDE DEF w, send
<1>6. /\ wq' \in Sender
      /\ \/ wq'.pc = "loop" /\ wq'.i = 1
         \/ wq'.pc = "idle" /\ wq'.err = 1
         \/ wq'.pc = "keys" /\ wq'.todo # <<>>
  BY <1>0, <1>4, <1>5, SendEndsType
<1>7. TypeOK'
  BY <1>0, <1>1, <1>3, <1>6 DEF TypeOK
<1>8. MutexHeld' /\ AtClient' /\ SendingTo' /\ MovesGoOn' /\ OneSample'
  BY <1>0, <1>1, <1>6
     DEF HidsInv, MutexHeld, AtClient, SendingTo, MovesGoOn, OneSample
<1>9. TablesAgree' /\ ClientsLinked' /\ Clients' = Clients
  BY <1>0, SenderTables
<1>10. ASSUME NEW c \in Conns, StuckOn(c)'
       PROVE  \E j \in DOMAIN conn_mode' : j >= 1 /\ conn_mode'[j].conn = c
  <2>1. link[c].up /\ seen[c] # {}
    BY <1>0, <1>10 DEF StuckOn
  <2>2. c \in Clients
    BY <2>1 DEF HidsInv, KeysFollow
  <2>3. PICK j \in DOMAIN conn_mode : conn_mode[j].conn = c
    BY <2>2 DEF Clients
  <2> QED  BY <1>0, <1>1, <2>3, PeripheralSizes DEF TypeOK
<1>11. KeysFollow'
  BY <1>0, <1>6, <1>9, <1>10 DEF HidsInv, KeysFollow
<1> QED  BY <1>7, <1>8, <1>9, <1>11 DEF HidsInv

(* The service is set up anew while nobody is connected.                    *)
LEMMA ReinitialisesKeeps ==
  ASSUME HidsInv, Reinitialises
  PROVE  HidsInv'
<1>0. /\ rx = NoOp /\ \A c \in Conns : link[c] = NoLink
      /\ lib' = bt_conn_ctx_free_all(lib) /\ subs' = [p \in Peers |-> {}]
      /\ UNCHANGED <<dev, link, conn_mode, rx, wq, keys, moves, work, seen, refused, cancelled>>
  BY DEF Reinitialises
<1>1. TypeOK /\ DOMAIN conn_mode = 1 .. MAX_CLIENT_COUNT /\ DOMAIN lib.ctx = 1 .. MAX_CONN
  BY DEF HidsInv, TypeOK
<1>2. Clients = {}
  <2>1. Clients \subseteq Conns
    BY <1>1 DEF Clients, TypeOK, Client
  <2> QED  BY <1>0, <2>1 DEF HidsInv, ClientsLinked, NoLink
<1>3. Served(lib) = {}
  BY <1>2 DEF HidsInv, TablesAgree
<1>4. \A x \in 1 .. MAX_CONN : lib.ctx[x].conn = NoConn /\ lib.ctx[x] = EmptyCtx
  BY <1>1, <1>3, CtxType, ZenonT(40) DEF Served, TypeOK
<1>5. lib' = lib
  <2> DEFINE g == [i \in DOMAIN lib.ctx |-> EmptyCtx]
  <2>1. lib' = [lib EXCEPT !.ctx = g]
    BY <1>0 DEF bt_conn_ctx_free_all
  <2>2. g = lib.ctx
    BY <1>1, <1>4 DEF TypeOK
  <2> HIDE DEF g
  <2> QED  BY <1>1, <2>1, <2>2 DEF TypeOK
<1>6. subs' \in [Peers -> SUBSET Modes]
  BY <1>0
<1>7. TypeOK'
  BY <1>0, <1>1, <1>5, <1>6 DEF TypeOK
<1>8. MutexHeld' /\ OneSample' /\ AtClient' /\ MovesGoOn'
  BY <1>0, <1>5 DEF HidsInv, MutexHeld, OneSample, AtClient, MovesGoOn
<1>9. TablesAgree' /\ ClientsLinked' /\ Clients' = Clients
  BY <1>0, <1>5, SenderTables
<1>10. SendingTo' /\ KeysFollow'
  BY <1>0, <1>5, <1>9 DEF HidsInv, SendingTo, KeysFollow, StuckOn
<1> QED  BY <1>7, <1>8, <1>9, <1>10 DEF HidsInv


(* ----------------------- the theorems ------------------------------------ *)

LEMMA Initially ==
  Init => HidsInv /\ ButtonsHeld
<1> SUFFICES ASSUME Init PROVE HidsInv /\ ButtonsHeld
  OBVIOUS
<1>1. TypeOK
  <2>1. wq \in Sender
    BY PeripheralSizes DEF Init, Idle, Sender
  <2>2. lib \in [ctx : [1 .. MAX_CONN -> Ctx], owner : {NoThread, "rx", "wq"}, n : Nat]
    BY DEF Init, InitCtx, Ctx
  <2>3. link \in [Conns -> [peer : Peers \cup {"none"}, up : BOOLEAN]]
        /\ conn_mode \in [1 .. MAX_CLIENT_COUNT -> Client]
        /\ subs \in [Peers -> SUBSET Modes]
    BY DEF Init, NoLink, Client
  <2> QED  BY <2>1, <2>2, <2>3 DEF Init, TypeOK
<1>2. MutexHeld /\ OneSample /\ AtClient /\ MovesGoOn
  BY DEF Init, Idle, InitCtx, MutexHeld, OneSample, AtClient, MovesGoOn, Keyboard, Mouse,
         NoThread
<1>3. Clients = {} /\ Served(lib) = {}
  BY DEF Init, InitCtx, Clients, Served, EmptyCtx
<1>4. TablesAgree
  BY <1>3 DEF Init, InitCtx, TablesAgree, EmptyCtx
<1>5. ClientsLinked /\ SendingTo
  BY <1>3 DEF Init, ClientsLinked, SendingTo, Idle
<1>6. KeysFollow
  BY DEF Init, KeysFollow, StuckOn, Idle
<1>7. ButtonsHeld
  BY DEF Init, ButtonsHeld
<1> QED  BY <1>1, <1>2, <1>4, <1>5, <1>6, <1>7 DEF HidsInv

LEMMA Inductive ==
  HidsInv /\ ButtonsHeld /\ [Next]_vars => (HidsInv /\ ButtonsHeld)'
<1> SUFFICES ASSUME HidsInv, ButtonsHeld, [Next]_vars PROVE HidsInv' /\ ButtonsHeld'
  OBVIOUS
<1>1. ASSUME UNCHANGED vars PROVE HidsInv'
  <2>1. UNCHANGED <<dev, lib, link, subs, conn_mode, rx, wq, keys, moves, work, seen,
                    refused, cancelled>>
    BY <1>1 DEF vars
  <2>2. TablesAgree' /\ ClientsLinked' /\ Clients' = Clients
    BY <2>1, SenderTables
  <2>3. TypeOK' /\ MutexHeld' /\ OneSample' /\ AtClient' /\ MovesGoOn'
    BY <2>1 DEF HidsInv, TypeOK, MutexHeld, OneSample, AtClient, MovesGoOn
  <2>4. SendingTo' /\ KeysFollow'
    BY <2>1, <2>2 DEF HidsInv, SendingTo, KeysFollow, StuckOn
  <2> QED  BY <2>2, <2>3, <2>4 DEF HidsInv
<1>2. ASSUME Next PROVE HidsInv'
  <2>1. ASSUME NEW c \in Conns,
               \/ \E p \in Peers : Connects(c, p)
               \/ LosesLink(c) \/ Reads(c)
               \/ \E v \in Modes \cup {Refused} : WritesMode(c, v)
               \/ \E a \in {"outp", "bootout"}, v \in {"leds", Refused} :
                    WritesOutput(c, a, v)
        PROVE  HidsInv'
    BY <2>1, ReceiveKeeps
  <2>2. ASSUME NEW c \in Conns, NEW rep \in Modes, Subscribes(c, rep) PROVE HidsInv'
    BY <2>2, SubscribesKeeps
  <2>3. ASSUME NEW now \in SUBSET Buttons(dev), ButtonsScanned(now) PROVE HidsInv'
    BY <2>3, ButtonsScannedKeeps
  <2> QED  BY <1>2, <2>1, <2>2, <2>3, RxResumesKeeps, KeyChangedKeeps, RunsWorkKeeps,
              SendsToClientKeeps, WqResumesKeeps, NotifyReturnsKeeps, ReinitialisesKeeps
           DEF Next
<1>3. ButtonsHeld'
  <2>1. dev' = dev /\ (held' = held \/ held' \in SUBSET Buttons(dev))
    BY DEF Next, vars, Connects, LosesLink, Reads, WritesMode, WritesOutput, Subscribes,
           Starts, RxResumes, ButtonsScanned, KeyChanged, RunsWork, SendsToClient, WqResumes,
           NotifyReturns, Reinitialises, rxUnchanged
  <2> QED  BY <2>1 DEF ButtonsHeld, Buttons
<1> QED  BY <1>1, <1>2, <1>3

LEMMA Always == Spec => [](HidsInv /\ ButtonsHeld)
  BY Initially, Inductive, PTL DEF Spec

(* The type of the state, for every number of hosts and clients.            *)
THEOREM TypeCorrect == Spec => []TypeOK
<1>1. HidsInv => TypeOK
  BY DEF HidsInv
<1> QED  BY <1>1, Always, PTL

(* conn_ctx.c, hids.c: the mutex is free between two calls but for the      *)
(* writes that were refused, and the work queue waits for nobody only if    *)
(* there were such writes.                                                  *)
THEOREM MutexAlwaysReturned == Spec => []MutexReturned
<1>1. HidsInv => MutexReturned
  BY DEF HidsInv, TypeOK, MutexHeld, MutexReturned
<1> QED  BY <1>1, Always, PTL

(* The mouse: what waits in hids_queue is sent, or a disconnection          *)
(* cancelled the work.                                                      *)
THEOREM MovesAlwaysGoOn == Spec => []MovesGoOn
<1>1. HidsInv => MovesGoOn
  BY DEF HidsInv
<1> QED  BY <1>1, Always, PTL

(* The sample's table of clients agrees with the contexts of the service    *)
(* and with the links, whatever the hosts and however many.                 *)
THEOREM ClientsAlwaysAgree == Spec => []ClientsAgree
<1>1. HidsInv => ClientsAgree
  <2> SUFFICES ASSUME HidsInv, rx = NoOp PROVE
        /\ \A i \in DOMAIN conn_mode :
             conn_mode[i].conn # NoConn =>
               /\ link[conn_mode[i].conn].up
               /\ \E x \in DOMAIN lib.ctx :
                    /\ EntriesOf(lib, conn_mode[i].conn) = {x}
                    /\ conn_mode[i].in_boot_mode = (lib.ctx[x].data.pm = "boot")
        /\ \A x \in Used(lib) :
             \E i \in DOMAIN conn_mode : conn_mode[i].conn = lib.ctx[x].conn
    BY DEF ClientsAgree
  <2>1. ASSUME NEW i \in DOMAIN conn_mode, conn_mode[i].conn # NoConn
        PROVE  /\ link[conn_mode[i].conn].up
               /\ \E x \in DOMAIN lib.ctx :
                    /\ EntriesOf(lib, conn_mode[i].conn) = {x}
                    /\ conn_mode[i].in_boot_mode = (lib.ctx[x].data.pm = "boot")
    <3>1. conn_mode[i].conn \in Clients
      BY <2>1 DEF Clients
    <3>2. link[conn_mode[i].conn].up
      BY <3>1 DEF HidsInv, ClientsLinked
    <3>3. PICK x \in DOMAIN lib.ctx : lib.ctx[x].conn = conn_mode[i].conn
      BY <3>1 DEF HidsInv, TablesAgree, Served
    <3>4. EntriesOf(lib, conn_mode[i].conn) = {x}
      BY <2>1, <3>3 DEF EntriesOf, HidsInv, TablesAgree
    <3>5. conn_mode[i].in_boot_mode <=> lib.ctx[x].data.pm = "boot"
      BY <2>1, <3>3 DEF HidsInv, TablesAgree
    <3>6. conn_mode[i].in_boot_mode \in BOOLEAN
      BY DEF HidsInv, TypeOK, Client
    <3>7. conn_mode[i].in_boot_mode = (lib.ctx[x].data.pm = "boot")
      BY <3>5, <3>6, Zenon
    <3> QED  BY <3>2, <3>4, <3>7
  <2>2. ASSUME NEW x \in Used(lib)
        PROVE  \E i \in DOMAIN conn_mode : conn_mode[i].conn = lib.ctx[x].conn
    <3>1. lib.ctx[x].conn \in Served(lib)
      BY DEF Used, Served
    <3>2. lib.ctx[x].conn \in Clients
      BY <3>1 DEF HidsInv, TablesAgree
    <3> QED  BY <3>2 DEF Clients
  <2> QED  BY <2>1, <2>2
<1> QED  BY <1>1, Always, PTL

(* The keyboard: once key_report_send() has returned 0, no host believes a  *)
(* key to be down that is up.                                               *)
THEOREM NoKeyEverStuck == Spec => []NoStuckKeys
<1>1. HidsInv => NoStuckKeys
  BY DEF HidsInv, KeysFollow, StuckOn, NoStuckKeys
<1> QED  BY <1>1, Always, PTL

=============================================================================
