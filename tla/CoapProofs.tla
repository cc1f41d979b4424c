----------------------------- MODULE CoapProofs -----------------------------
(* Proofs about the CoAP library, for every size of the queue and the      *)
(* tables, every retransmission setting and every number of messages.      *)
EXTENDS Coap, FiniteSetTheorems, SequenceTheorems, WellFoundedInduction, TLAPS

(* ----------------------- the inductive invariant ------------------------ *)

Kinds == {"con", "non", "fire", "obs", "dereg", "notify"}

Item == [m : Nat, mid : Nat, tok : Nat, timeout : Nat, timeout_val : Nat,
         retrans_count : Nat, buffer : BOOLEAN]

Req == [kind : Kinds, tok : Nat, mid : Nat, fd : Nat, sent : BOOLEAN,
        st : {"gone", "queued", "done"}, calls : Nat, age : Nat]

Transport == [port : [Entries -> Nat], local : [Entries -> Nat],
              sess : [1 .. Sessions -> [used : BOOLEAN, remote : Nat]],
              open : SUBSET Nat]

(* The type of the state, but for the message of the codec.                 *)
TypeOK ==
  /\ q \in [slot : [Slots -> Item], count : Nat]
  /\ heap \in Int /\ next_id \in Nat
  /\ obs \in [1 .. MaxObservables -> Nat]
  /\ observers \in [1 .. MaxObservers -> [remote : Nat, resource : Nat]]
  /\ tr \in Transport
  /\ pc \in [op : Callbacks \cup {"idle", "tick"}, slot : 0 .. QueueSize]
  /\ req \in Seq(Req)

(* Message ids: none is 0 before the counter wraps, so a cleared slot is    *)
(* never taken for the one of a message.                                    *)
IdsNotZero ==
  /\ next_id \in 1 .. Len(req) + 1
  /\ \A m \in Requests : req[m].mid # 0
  /\ \A s \in Slots : ~q.slot[s].buffer => q.slot[s] = NoItem

(* A slot in use belongs to one message, and the callback that runs has its *)
(* slot still in use.                                                       *)
SlotsOwned ==
  /\ \A s \in Used(q) :
       /\ q.slot[s].m \in Requests
       /\ req[q.slot[s].m].st = (IF InCallback(s) THEN "done" ELSE "queued")
       /\ \A t \in Used(q) : q.slot[s].m = q.slot[t].m => s = t
  /\ pc.op \in {"input_cb", "tick_cb"} => pc.slot \in Used(q)

(* A message that waits is in the queue; one with an outcome was told once. *)
MessagesKept ==
  \A m \in Requests :
    /\ req[m].st = "queued" => \E s \in Used(q) : q.slot[s].m = m
    /\ req[m].calls = (IF req[m].st = "done" THEN 1 ELSE 0)

(* The counter of the queue and the blocks of the heap.                     *)
Counted ==
  /\ q.count = Cardinality(Used(q))
  /\ heap = Cardinality(Used(q)) + (IF pc.op \in {"input_cb", "obs_cb", "req_cb"} THEN 1 ELSE 0)

(* The wait after k retransmissions.                                        *)
Wait(k) == AckTimeout * 2 ^ k

(* How long a queued message has waited, against its timers.                *)
OnTime(it, r) ==
  IF IsCon(r.kind)
  THEN /\ it.retrans_count < Timeouts /\ it.timeout_val = Wait(it.retrans_count)
       /\ r.age + it.timeout + AckTimeout <= 2 * it.timeout_val + it.retrans_count
  ELSE it.retrans_count = MaxRetransmit /\ r.age + it.timeout <= MaxSpan

Timed == \A s \in Used(q) : req[q.slot[s].m].st = "queued" => OnTime(q.slot[s], req[q.slot[s].m])

TablesInv == TypeOK /\ TablesSound

QueueInv == IdsNotZero /\ SlotsOwned /\ MessagesKept /\ Counted /\ Timed

(* ----------------------- powers of two ---------------------------------- *)

(* There are n numbers from 1 to n.                                         *)
LEMMA CountTo ==
  ASSUME NEW n \in Nat
  PROVE  IsFiniteSet(1 .. n) /\ Cardinality(1 .. n) = n
BY FS_Interval

(* The power of two is what counts the subsets: the way to its laws.        *)
LEMMA PowerIsSubsets ==
  ASSUME NEW n \in Nat
  PROVE  /\ IsFiniteSet(SUBSET (1 .. n))
         /\ Cardinality(SUBSET (1 .. n)) = 2 ^ n
         /\ 2 ^ n \in Nat
<1>1. IsFiniteSet(1 .. n) /\ Cardinality(1 .. n) = n
  BY CountTo
<1>2. IsFiniteSet(SUBSET (1 .. n)) /\ Cardinality(SUBSET (1 .. n)) = 2 ^ n
  BY <1>1, FS_SUBSET
<1> QED  BY <1>2, FS_CardinalityType

(* One more element doubles the subsets: half of them hold it.              *)
LEMMA PowerDoubles ==
  ASSUME NEW n \in Nat
  PROVE  2 ^ (n + 1) = 2 * 2 ^ n
<1> DEFINE A == SUBSET (1 .. n)
           B == {S \cup {n + 1} : S \in A}
           f == [S \in A |-> S \cup {n + 1}]
<1>1. IsFiniteSet(A) /\ Cardinality(A) = 2 ^ n /\ 2 ^ n \in Nat
  BY PowerIsSubsets
<1>2. \A S \in A : n + 1 \notin S
  OBVIOUS
<1>3. ExistsBijection(A, B)
  <2>1. ASSUME NEW S \in A, NEW T \in A, S \cup {n + 1} = T \cup {n + 1}
        PROVE  S = T
    <3>1. n + 1 \notin S /\ n + 1 \notin T
      BY <1>2
    <3>2. S = (S \cup {n + 1}) \ {n + 1} /\ T = (T \cup {n + 1}) \ {n + 1}
      BY <3>1
    <3> QED  BY <2>1, <3>2
  <2>2. f \in [A -> B] /\ \A x \in A : f[x] = x \cup {n + 1}
    BY Zenon
  <2>3. f \in Injection(A, B)
    BY <2>1, <2>2, Zenon DEF Injection, IsInjective
  <2>4. \A y \in B : \E x \in A : f[x] = y
    BY <2>2, Zenon
  <2>5. f \in Surjection(A, B)
    BY <2>2, <2>4, Zenon DEF Surjection
  <2> QED  BY <2>3, <2>5, Zenon DEF Bijection, ExistsBijection
<1>4. IsFiniteSet(B) /\ Cardinality(B) = 2 ^ n
  BY <1>1, <1>3, FS_Bijection, Zenon
<1>5. A \cap B = {}
  BY <1>2
<1>6. SUBSET (1 .. n + 1) = A \cup B
  <2>1. ASSUME NEW S \in SUBSET (1 .. n + 1), n + 1 \in S
        PROVE  S \in B
    <3>1. S \ {n + 1} \in A
      OBVIOUS
    <3>2. S = (S \ {n + 1}) \cup {n + 1}
      BY <2>1
    <3> QED  BY <3>1, <3>2, Zenon
  <2>2. ASSUME NEW S \in SUBSET (1 .. n + 1), n + 1 \notin S
        PROVE  S \in A
    BY <2>2
  <2>3. \A S \in A : S \in SUBSET (1 .. n + 1) /\ S \cup {n + 1} \in SUBSET (1 .. n + 1)
    OBVIOUS
  <2>4. SUBSET (1 .. n + 1) \subseteq A \cup B
    BY <2>1, <2>2, Zenon
  <2>5. ASSUME NEW T \in B PROVE T \in SUBSET (1 .. n + 1)
    <3>1. PICK S \in A : T = S \cup {n + 1}
      OBVIOUS
    <3> QED  BY <2>3, <3>1
  <2> HIDE DEF A, B
  <2>6. A \cup B \subseteq SUBSET (1 .. n + 1)
    BY <2>3, <2>5, Zenon
  <2> QED  BY <2>4, <2>6, Zenon
<1>7. Cardinality(A \cup B) = Cardinality(A) + Cardinality(B) - Cardinality(A \cap B)
  BY <1>1, <1>4, FS_Union
<1>8. 2 ^ (n + 1) = Cardinality(A \cup B)
  BY <1>6, PowerIsSubsets, n + 1 \in Nat
<1> HIDE DEF A, B
<1> QED  BY <1>1, <1>4, <1>5, <1>7, <1>8, FS_EmptySet

(* A larger exponent gives no smaller power.                                *)
LEMMA PowerGrows ==
  ASSUME NEW n \in Nat, NEW k \in Nat, k <= n
  PROVE  2 ^ k <= 2 ^ n
<1>1. SUBSET (1 .. k) \subseteq SUBSET (1 .. n)
  OBVIOUS
<1>2. Cardinality(SUBSET (1 .. k)) <= Cardinality(SUBSET (1 .. n))
  BY <1>1, PowerIsSubsets, FS_Subset
<1> QED  BY <1>2, PowerIsSubsets

(* The power of zero.                                                       *)
LEMMA PowerOfZero == 2 ^ 0 = 1
<1>1. SUBSET (1 .. 0) = {{}}
  OBVIOUS
<1> QED  BY <1>1, PowerIsSubsets, FS_Singleton
(* The waits double, from the first timeout on (coap_time_tick).            *)
LEMMA WaitsDouble ==
  ASSUME NEW k \in Nat
  PROVE  /\ Wait(0) = AckTimeout /\ Wait(k) \in Nat
         /\ Wait(k + 1) = 2 * Wait(k)
         /\ \A n \in Nat : k <= n => Wait(k) <= Wait(n)
<1>1. AckTimeout \in Nat
  BY CoapAssumption
<1>2. 2 ^ k \in Nat /\ 2 ^ (k + 1) = 2 * 2 ^ k
  BY PowerIsSubsets, PowerDoubles
<1>3. \A a, b \in Nat : a * b \in Nat /\ a * (2 * b) = 2 * (a * b)
  OBVIOUS
<1>4. \A a, b, c \in Nat : b <= c => a * b <= a * c
  OBVIOUS
<1>5. ASSUME NEW n \in Nat, k <= n
      PROVE  Wait(k) <= Wait(n)
  <2>1. 2 ^ k <= 2 ^ n /\ 2 ^ n \in Nat
    BY <1>5, PowerGrows, PowerIsSubsets
  <2> QED  BY <1>1, <1>2, <1>4, <2>1 DEF Wait
<1>6. Wait(0) = AckTimeout
  BY <1>1, PowerOfZero DEF Wait
<1> QED  BY <1>1, <1>2, <1>3, <1>5, <1>6 DEF Wait

(* ----------------------- the tables ------------------------------------- *)

(* A set of natural numbers that is not empty has a least element.          *)
LEMMA LeastOf ==
  ASSUME NEW S, S \subseteq Nat, S # {}
  PROVE  LET x == CHOOSE i \in S : \A j \in S : i <= j
         IN  x \in S /\ \A j \in S : x <= j
<1>1. PICK x \in S : \A y \in S : ~ (<<y, x>> \in OpToRel(<, Nat))
  BY WFMin, NatLessThanWellFounded
<1>2. \A m, n \in Nat : <<m, n>> \in OpToRel(<, Nat) <=> m < n
  BY Zenon DEF OpToRel
<1>3. \A y \in S : ~(y < x)
  BY <1>1, <1>2, Zenon
<1>4. \A y \in S : x <= y
  BY <1>3, SMT
<1> QED  BY <1>4

(* The loops over the tables: the first entry that fits, or none.           *)
LEMMA FirstFits ==
  ASSUME NEW S, S \subseteq Nat \ {0}
  PROVE  /\ First(S) = FirstIndex(S) /\ Least(S) = FirstIndex(S)
         /\ First(S) = 0 <=> S = {}
         /\ First(S) # 0 => First(S) \in S
<1>1. First(S) = FirstIndex(S) /\ Least(S) = FirstIndex(S)
  BY DEF First, FirstIndex, Least
<1>2. CASE S = {}
  BY <1>1, <1>2 DEF First
<1>3. CASE S # {}
  BY <1>1, <1>3, LeastOf DEF First
<1> QED  BY <1>2, <1>3

(* The observables after a response: no token is entered twice.             *)
Once(t) == \A i, j \in DOMAIN t : t[i] # 0 /\ t[i] = t[j] => i = j
Observables == [1 .. MaxObservables -> Nat]

LEMMA UnregisterOnce ==
  ASSUME NEW t \in Observables, Once(t), NEW i
  PROVE  /\ internal_coap_observe_client_unregister(t, i) \in Observables
         /\ Once(internal_coap_observe_client_unregister(t, i))
  BY DEF internal_coap_observe_client_unregister, Observables, Once

LEMMA ResponseOnce ==
  ASSUME NEW t \in Observables, Once(t), NEW d, d.tok \in Nat, NEW found \in BOOLEAN
  PROVE  /\ coap_observe_client_response_handle(t, d, found) \in Observables
         /\ Once(coap_observe_client_response_handle(t, d, found))
<1> DEFINE S == {i \in DOMAIN t : t[i] # 0 /\ t[i] = d.tok}
           F == {j \in DOMAIN t : t[j] = 0}
           u == internal_coap_observe_client_register(t, d.tok)
<1>1. S \subseteq Nat \ {0} /\ F \subseteq Nat \ {0}
  BY ObserveAssumption DEF Observables
<1>2. ASSUME internal_coap_observe_client_search(t, d.tok) = 0
      PROVE  u \in Observables /\ Once(u)
  <2>1. S = {}
    BY <1>1, <1>2, FirstFits DEF internal_coap_observe_client_search
  <2>2. CASE FirstIndex(F) = 0
    BY <2>2 DEF internal_coap_observe_client_register
  <2>3. CASE FirstIndex(F) # 0
    <3>1. FirstIndex(F) \in F
      BY <1>1, <2>3, FirstFits
    <3>2. u = [t EXCEPT ![FirstIndex(F)] = d.tok]
      BY <2>3 DEF internal_coap_observe_client_register
    <3> QED  BY <2>1, <3>1, <3>2 DEF Observables, Once
  <2> QED  BY <2>2, <2>3
<1> QED  BY <1>2, UnregisterOnce DEF coap_observe_client_response_handle

(* The observers of the server.                                             *)
Observers == [1 .. MaxObservers -> [remote : Nat, resource : Nat]]
OnceEach(t) == \A i, j \in DOMAIN t : t[i].resource # 0 /\ t[i] = t[j] => i = j

LEMMA RegisterOnce ==
  ASSUME NEW t \in Observers, OnceEach(t), NEW remote \in Nat, NEW resource \in Nat \ {0}
  PROVE  /\ internal_coap_observe_server_register(t, remote, resource) \in Observers
         /\ OnceEach(internal_coap_observe_server_register(t, remote, resource))
<1> DEFINE S == {i \in DOMAIN t : t[i].resource = resource /\ t[i].remote = remote}
           F == {i \in DOMAIN t : t[i].resource = 0}
           e == [remote |-> remote, resource |-> resource]
           u == internal_coap_observe_server_register(t, remote, resource)
<1>1. S \subseteq Nat \ {0} /\ F \subseteq Nat \ {0}
  BY ObserveAssumption DEF Observers
<1>2. CASE S # {}
  <2>1. FirstIndex(S) # 0 /\ FirstIndex(S) \in S
    BY <1>1, <1>2, FirstFits
  <2>2. u = [t EXCEPT ![FirstIndex(S)] = e]
    BY <2>1 DEF internal_coap_observe_server_register, internal_coap_observe_server_search
  <2>3. t[FirstIndex(S)] = e
    BY <2>1 DEF Observers
  <2>4. u = t
    BY <2>1, <2>2, <2>3 DEF Observers
  <2> QED  BY <2>4
<1>3. CASE S = {} /\ F # {}
  <2>1. FirstIndex(S) = 0 /\ FirstIndex(F) # 0 /\ FirstIndex(F) \in F
    BY <1>1, <1>3, FirstFits
  <2>2. u = [t EXCEPT ![FirstIndex(F)] = e]
    BY <2>1 DEF internal_coap_observe_server_register, internal_coap_observe_server_search
  <2>3. \A i \in DOMAIN t : t[i] # e
    BY <1>3
  <2>4. e \in [remote : Nat, resource : Nat]
    OBVIOUS
  <2> HIDE DEF e
  <2>5. u \in Observers
    BY <2>1, <2>2, <2>4 DEF Observers
  <2>6. OnceEach(u)
    BY <2>1, <2>2, <2>3, <2>4 DEF Observers, OnceEach
  <2> QED  BY <2>5, <2>6
<1>4. CASE S = {} /\ F = {}
  <2>1. FirstIndex(S) = 0 /\ FirstIndex(F) = 0
    BY <1>1, <1>4, FirstFits
  <2> QED  BY <2>1 DEF internal_coap_observe_server_register, internal_coap_observe_server_search
<1> QED  BY <1>2, <1>3, <1>4

LEMMA UnregisterServerOnce ==
  ASSUME NEW t \in Observers, OnceEach(t), NEW i
  PROVE  /\ internal_coap_observe_server_unregister(t, i) \in Observers
         /\ OnceEach(internal_coap_observe_server_unregister(t, i))
  BY DEF internal_coap_observe_server_unregister, Observers, OnceEach

(* The sessions own their sockets: what TablesSound says of the transport.  *)
Sound(t) ==
  /\ t.open = {t.port[i] : i \in Entries} \ {0}
  /\ \A i \in 1 .. Sessions : t.sess[i].used <=> t.port[i] # 0
  /\ \A i, j \in Entries : t.port[i] # 0 /\ t.port[i] = t.port[j] => i = j
  /\ \A i, j \in 1 .. Sessions :
       t.sess[i].used /\ t.sess[i] = t.sess[j] /\ t.local[i] = t.local[j] => i = j

Session == [used : BOOLEAN, remote : Nat]

(* The parts of a transport, and what a new socket changes of it.           *)
LEMMA Parts ==
  ASSUME NEW t \in Transport
  PROVE  /\ t.port \in [Entries -> Nat] /\ t.local \in [Entries -> Nat]
         /\ t.sess \in [1 .. Sessions -> Session] /\ t.open \in SUBSET Nat
  BY DEF Transport, Session

LEMMA Bound ==
  ASSUME NEW t \in Transport, NEW i \in Entries, NEW local \in Nat, socket(t) \in Nat
  PROVE  LET b == socket_create_and_bind(t, i, local)
         IN  /\ b \in Transport
             /\ b.port = [t.port EXCEPT ![i] = socket(t)] /\ b.sess = t.sess
             /\ b.local = [t.local EXCEPT ![i] = local] /\ b.open = t.open \cup {socket(t)}
  BY DEF socket_create_and_bind, Transport

(* A session changes.                                                       *)
LEMMA SessionSet ==
  ASSUME NEW t \in Transport, NEW i \in 1 .. Sessions, NEW e \in Session
  PROVE  LET u == [t EXCEPT !.sess = [t.sess EXCEPT ![i] = e]]
         IN  /\ u \in Transport
             /\ u.port = t.port /\ u.local = t.local /\ u.open = t.open
             /\ u.sess = [t.sess EXCEPT ![i] = e]
<1>1. [t.sess EXCEPT ![i] = e] \in [1 .. Sessions -> Session]
  BY Parts
<1> DEFINE f == [t.sess EXCEPT ![i] = e]
<1> HIDE DEF f
<1> QED  BY <1>1 DEF Transport, Session, f

(* A session and its socket are given back.                                 *)
LEMMA SessionFreed ==
  ASSUME NEW t \in Transport, NEW i \in 1 .. Sessions
  PROVE  LET u == session_free(t, i)
         IN  /\ u \in Transport
             /\ u.port = [t.port EXCEPT ![i] = 0] /\ u.open = t.open \ {t.port[i]}
             /\ u.local = [t.local EXCEPT ![i] = 0]
             /\ u.sess = [t.sess EXCEPT ![i] = [used |-> FALSE, remote |-> 0]]
<1>1. i \in Entries
  BY SessionsAssumption DEF Entries
<1> QED  BY <1>1 DEF session_free, Transport

(* As many sockets are open as there are entries at most.                   *)
LEMMA OpenFinite ==
  ASSUME NEW t \in Transport, t.open = {t.port[i] : i \in Entries} \ {0}
  PROVE  IsFiniteSet(t.open)
<1> DEFINE P == {t.port[i] : i \in Entries}
<1>1. IsFiniteSet(Entries)
  BY FS_Interval, SessionsAssumption DEF Entries
<1>2. t.port \in [Entries -> P]
  BY DEF Transport
<1>3. t.port \in Surjection(Entries, P)
  BY <1>2, Zenon DEF Surjection
<1>4. IsFiniteSet(P)
  BY <1>1, <1>3, FS_Surjection
<1>5. t.open \subseteq P
  OBVIOUS
<1> QED  BY <1>4, <1>5, FS_Subset

(* socket() returns a descriptor that is not in use.                        *)
LEMMA SocketFree ==
  ASSUME NEW t, t.open \subseteq Nat, IsFiniteSet(t.open)
  PROVE  socket(t) \in Nat \ {0} /\ socket(t) \notin t.open
<1> DEFINE n == Cardinality(t.open)
           S == {fd \in 1 .. n + 1 : fd \notin t.open}
<1>1. n \in Nat
  BY FS_CardinalityType
<1>2. S # {}
  <2>1. SUFFICES ASSUME 1 .. n + 1 \subseteq t.open PROVE FALSE
    OBVIOUS
  <2>2. Cardinality(1 .. n + 1) <= n
    BY <2>1, FS_Subset
  <2>3. Cardinality(1 .. n + 1) = n + 1
    <3> HIDE DEF n
    <3>1. n + 1 \in Nat
      BY <1>1
    <3> QED  BY <3>1, CountTo
  <2> HIDE DEF n
  <2> QED  BY <2>2, <2>3, <1>1
<1>3. S \subseteq Nat
  BY <1>1
<1>4. PICK x \in S : \A y \in S : x <= y
  BY <1>2, <1>3, LeastOf
<1>5. \A g \in 1 .. x - 1 : g \in t.open
  <2> HIDE DEF n
  <2> QED  BY <1>1, <1>4
<1>6. \E fd \in 1 .. n + 1 : fd \notin t.open /\ \A g \in 1 .. fd - 1 : g \in t.open
  BY <1>4, <1>5
<1>7. socket(t) \in 1 .. n + 1 /\ socket(t) \notin t.open
  BY <1>6 DEF socket
<1> QED  BY <1>1, <1>7

(* coap_transport_init().                                                   *)
LEMMA InitSound == coap_transport_init \in Transport /\ Sound(coap_transport_init)
<1> DEFINE t == [port  |-> [i \in Entries |-> 0],
                 local |-> [i \in Entries |-> 0],
                 sess  |-> [i \in 1 .. Sessions |-> [used |-> FALSE, remote |-> 0]],
                 open  |-> {}]
<1>1. socket(t) \in Nat \ {0}
  BY SocketFree, FS_EmptySet
<1>2. 0 \in Entries /\ 1 .. Sessions \subseteq Entries
  BY SessionsAssumption DEF Entries
<1>3. \A i \in 1 .. Sessions : i # 0
  BY SessionsAssumption
<1>4. t \in Transport /\ coap_transport_init = socket_create_and_bind(t, 0, 1)
  BY DEF coap_transport_init, Transport
<1>5. /\ t.port = [i \in Entries |-> 0] /\ t.local = [i \in Entries |-> 0] /\ t.open = {}
      /\ t.sess = [i \in 1 .. Sessions |-> [used |-> FALSE, remote |-> 0]]
  OBVIOUS
<1> HIDE DEF t
<1> DEFINE u == socket_create_and_bind(t, 0, 1)
<1>6. /\ u.port = [t.port EXCEPT ![0] = socket(t)] /\ u.open = t.open \cup {socket(t)}
      /\ u.sess = t.sess
  BY <1>4 DEF socket_create_and_bind, Transport
<1>7. u \in Transport
  BY <1>1, <1>2, <1>4 DEF socket_create_and_bind, Transport
<1> HIDE DEF u
<1>8. u.open = {u.port[j] : j \in Entries} \ {0}
  BY <1>1, <1>2, <1>5, <1>6
<1>9. \A i \in 1 .. Sessions : ~u.sess[i].used /\ u.port[i] = 0
  BY <1>2, <1>3, <1>5, <1>6
<1>10. \A i \in Entries : u.port[i] # 0 => i = 0
  BY <1>5, <1>6
<1>11. Sound(u)
  BY <1>8, <1>9, <1>10 DEF Sound
<1> QED  BY <1>4, <1>7, <1>11 DEF u

(* session_free() gives back the socket of the session and nothing else.    *)
LEMMA FreeSound ==
  ASSUME NEW t \in Transport, Sound(t), NEW i \in 1 .. Sessions
  PROVE  session_free(t, i) \in Transport /\ Sound(session_free(t, i))
<1> DEFINE u == session_free(t, i)
<1>1. i \in Entries /\ 1 .. Sessions \subseteq Entries
  BY SessionsAssumption DEF Entries
<1>2. u \in Transport
  BY SessionFreed
<1>3. /\ u.port = [t.port EXCEPT ![i] = 0] /\ u.open = t.open \ {t.port[i]}
      /\ u.local = [t.local EXCEPT ![i] = 0]
      /\ u.sess = [t.sess EXCEPT ![i] = [used |-> FALSE, remote |-> 0]]
  BY SessionFreed
<1> HIDE DEF u
<1>0. /\ t.port \in [Entries -> Nat] /\ t.local \in [Entries -> Nat]
      /\ t.sess \in [1 .. Sessions -> Session]
  BY Parts
<1>4. /\ u.open = {u.port[j] : j \in Entries} \ {0}
      /\ u.sess[i] = [used |-> FALSE, remote |-> 0] /\ u.port[i] = 0
  <2>1. u.sess[i] = [used |-> FALSE, remote |-> 0] /\ u.port[i] = 0
    BY <1>0, <1>1, <1>3
  <2>2. \A j \in Entries : j # i => u.port[j] = t.port[j]
    BY <1>0, <1>3
  <2>3. t.open = {t.port[j] : j \in Entries} \ {0}
    BY DEF Sound
  <2>4. \A j \in Entries : t.port[j] # 0 /\ t.port[j] = t.port[i] => i = j
    BY <1>1 DEF Sound
  <2>5. u.open = t.open \ {t.port[i]}
    BY <1>3
  <2> QED  BY <1>1, <2>1, <2>2, <2>3, <2>4, <2>5
<1>5. \A j \in 1 .. Sessions : u.sess[j].used <=> u.port[j] # 0
  <2>1. \A j \in 1 .. Sessions : j # i => u.sess[j] = t.sess[j] /\ u.port[j] = t.port[j]
    BY <1>0, <1>1, <1>3
  <2>2. ~u.sess[i].used
    BY <1>4
  <2>3. \A j \in 1 .. Sessions : t.sess[j].used <=> t.port[j] # 0
    BY DEF Sound
  <2> QED  BY <1>4, <2>1, <2>2, <2>3, ZenonT(40)
<1>6. \A j, k \in Entries : u.port[j] # 0 /\ u.port[j] = u.port[k] => j = k
  BY <1>1, <1>3 DEF Sound, Transport
<1>7. \A j, k \in 1 .. Sessions :
        u.sess[j].used /\ u.sess[j] = u.sess[k] /\ u.local[j] = u.local[k] => j = k
  <2>1. ~u.sess[i].used
    BY <1>4
  <2>2. \A j \in 1 .. Sessions : j # i => u.sess[j] = t.sess[j] /\ u.local[j] = t.local[j]
    BY <1>0, <1>1, <1>3
  <2> QED  BY <2>1, <2>2, Zenon DEF Sound
<1> QED  BY <1>2, <1>4, <1>5, <1>6, <1>7, Zenon DEF Sound, u

(* coap_security_setup() takes a socket and a session for it, or nothing.   *)
LEMMA SetupSound ==
  ASSUME NEW t \in Transport, Sound(t), NEW local \in Nat, NEW remote \in Nat,
         NEW fail, NEW connects \in BOOLEAN
  PROVE  /\ coap_security_setup(t, local, remote, fail, connects) \in Transport
         /\ Sound(coap_security_setup(t, local, remote, fail, connects))
<1> DEFINE F  == {j \in 1 .. Sessions : ~t.sess[j].used /\ j \notin fail}
           K  == {j \in 1 .. Sessions : t.sess[j].used /\ t.sess[j].remote = remote
                                                       /\ t.local[j] = local}
           i  == Least(F)
           fd == socket(t)
           t1 == [socket_create_and_bind(t, i, local) EXCEPT !.sess[i].used = TRUE]
           u  == coap_security_setup(t, local, remote, fail, connects)
<1>1. F \subseteq Nat \ {0} /\ K \subseteq Nat \ {0} /\ 1 .. Sessions \subseteq Entries
  BY SessionsAssumption, SMTT(30) DEF Entries
<1>2. CASE session_find(t, local, remote) # 0 \/ i = 0
  BY <1>2 DEF coap_security_setup
<1>3. ASSUME session_find(t, local, remote) = 0, i # 0
      PROVE  u \in Transport /\ Sound(u)
  <2>1. i \in F
    BY <1>1, <1>3, FirstFits
  <2>2. \A j \in 1 .. Sessions :
          ~(t.sess[j].used /\ t.sess[j].remote = remote /\ t.local[j] = local)
    BY <1>1, <1>3, FirstFits DEF session_find
  <2>3. fd \in Nat \ {0} /\ fd \notin t.open
    BY OpenFinite, SocketFree DEF Sound, Transport
  <2>4. t.port[i] = 0 /\ i \in Entries
    BY <1>1, <2>1 DEF Sound
  <2> HIDE DEF i, fd
  <2> DEFINE b == socket_create_and_bind(t, i, local)
             e == [t.sess[i] EXCEPT !.used = TRUE]
  <2>5. /\ b \in Transport /\ b.sess = t.sess
        /\ b.port = [t.port EXCEPT ![i] = fd] /\ b.open = t.open \cup {fd}
        /\ b.local = [t.local EXCEPT ![i] = local]
    BY <2>3, <2>4, Bound DEF fd
  <2> HIDE DEF b
  <2>0. /\ t.port \in [Entries -> Nat] /\ t.local \in [Entries -> Nat]
        /\ t.sess \in [1 .. Sessions -> Session] /\ t.open = {t.port[j] : j \in Entries} \ {0}
    BY Parts DEF Sound
  <2>6. e \in Session
    <3>1. t.sess[i] \in Session
      BY <2>0, <2>1
    <3> QED  BY <3>1 DEF Session
  <2>7. t1 = [b EXCEPT !.sess = [b.sess EXCEPT ![i] = e]]
    <3>1. t1 = [b EXCEPT !.sess = [b.sess EXCEPT ![i] = [b.sess[i] EXCEPT !.used = TRUE]]]
      BY <2>5 DEF b, Transport
    <3> QED  BY <2>5, <2>6, <3>1
  <2> HIDE DEF t1, e
  <2>8. /\ t1 \in Transport /\ t1.sess = [t.sess EXCEPT ![i] = e]
        /\ t1.port = b.port /\ t1.open = b.open /\ t1.local = b.local
    <3>1. i \in 1 .. Sessions
      BY <2>1
    <3> QED  BY <2>5, <2>6, <2>7, <3>1, SessionSet
  <2>9. CASE connects
    <3> DEFINE e2 == [e EXCEPT !.remote = remote]
    <3>1. u = [t1 EXCEPT !.sess[i].remote = remote]
      BY <1>3, <2>9 DEF coap_security_setup, i, t1, b
    <3>2. t1.sess[i] = e /\ e2 \in Session /\ e2.used /\ e2.remote = remote
      <4>1. t1.sess[i] = e
        BY <2>0, <2>1, <2>8
      <4>2. t.sess[i] \in Session
        BY <2>0, <2>1
      <4>3. e.used
        BY <4>2 DEF e, Session
      <4>4. e2 \in Session /\ e2.used /\ e2.remote = remote
        BY <2>6, <4>3 DEF Session
      <4> QED  BY <4>1, <4>4
    <3> HIDE DEF e2
    <3>3. u = [t1 EXCEPT !.sess = [t1.sess EXCEPT ![i] = e2]]
      <4>1. u = [t1 EXCEPT !.sess = [t1.sess EXCEPT ![i] = [t1.sess[i] EXCEPT !.remote = remote]]]
        BY <2>8, <3>1 DEF Transport
      <4> QED  BY <3>2, <4>1 DEF e2
    <3>0. /\ u \in Transport /\ u.port = t1.port /\ u.open = t1.open /\ u.local = t1.local
          /\ u.sess = [t1.sess EXCEPT ![i] = e2]
      <4>1. i \in 1 .. Sessions
        BY <2>1
      <4> HIDE DEF u
      <4> QED  BY <2>8, <3>2, <3>3, <4>1, SessionSet
    <3> HIDE DEF u
    <3>4. u.open = {u.port[j] : j \in Entries} \ {0}
      <4>1. u.port = [t.port EXCEPT ![i] = fd] /\ u.open = t.open \cup {fd}
        BY <2>5, <2>8, <3>0
      <4>2. u.port[i] = fd /\ \A j \in Entries : j # i => u.port[j] = t.port[j]
        BY <2>0, <2>4, <4>1
      <4> QED  BY <2>0, <2>3, <2>4, <4>1, <4>2
    <3>5. \A j \in 1 .. Sessions : j # i =>
            u.sess[j] = t.sess[j] /\ u.local[j] = t.local[j] /\ u.port[j] = t.port[j]
      <4>1. u.sess = [[t.sess EXCEPT ![i] = e] EXCEPT ![i] = e2]
        BY <2>8, <3>0
      <4>2. u.local = [t.local EXCEPT ![i] = local] /\ u.port = [t.port EXCEPT ![i] = fd]
        BY <2>5, <2>8, <3>0
      <4> QED  BY <1>1, <2>0, <4>1, <4>2
    <3>6. u.sess[i] = e2 /\ u.local[i] = local /\ u.port[i] = fd
      <4>1. u.sess = [[t.sess EXCEPT ![i] = e] EXCEPT ![i] = e2]
        BY <2>8, <3>0
      <4>2. u.local = [t.local EXCEPT ![i] = local] /\ u.port = [t.port EXCEPT ![i] = fd]
        BY <2>5, <2>8, <3>0
      <4> QED  BY <1>1, <2>0, <2>1, <4>1, <4>2
    <3>7. \A j \in 1 .. Sessions : u.sess[j].used <=> u.port[j] # 0
      <4>1. u.sess[i].used /\ u.port[i] # 0
        BY <2>3, <3>2, <3>6
      <4> QED  BY <3>5, <4>1, Zenon DEF Sound
    <3>8. \A j, k \in Entries : u.port[j] # 0 /\ u.port[j] = u.port[k] => j = k
      <4>1. u.port = [t.port EXCEPT ![i] = fd]
        BY <2>5, <2>8, <3>0
      <4>2. \A j \in Entries : t.port[j] # fd
        BY <2>0, <2>3
      <4> QED  BY <2>0, <4>1, <4>2 DEF Sound
    <3>9. \A j \in 1 .. Sessions : j # i =>
            ~(u.sess[j] = u.sess[i] /\ u.local[j] = u.local[i])
      BY <2>2, <3>2, <3>5, <3>6
    <3>10. \A j, k \in 1 .. Sessions :
             u.sess[j].used /\ u.sess[j] = u.sess[k] /\ u.local[j] = u.local[k] => j = k
      BY <3>5, <3>9, ZenonT(40) DEF Sound
    <3>11. Sound(u)
      BY <3>4, <3>7, <3>8, <3>10 DEF Sound
    <3> QED  BY <3>0, <3>11
  <2>10. CASE ~connects
    <3>1. u = session_free(t1, i)
      BY <1>3, <2>10 DEF coap_security_setup, i, t1, b
    <3>2. i \in 1 .. Sessions
      BY <2>1
    <3> HIDE DEF u
    <3>3. /\ u \in Transport
          /\ u.port = [t1.port EXCEPT ![i] = 0] /\ u.open = t1.open \ {t1.port[i]}
          /\ u.local = [t1.local EXCEPT ![i] = 0]
          /\ u.sess = [t1.sess EXCEPT ![i] = [used |-> FALSE, remote |-> 0]]
      BY <2>8, <3>1, <3>2, SessionFreed
    <3>4. u.port = t.port /\ u.open = t.open
      BY <2>0, <2>3, <2>4, <2>5, <2>8, <3>3
    <3>5. \A j \in 1 .. Sessions : j # i =>
            u.sess[j] = t.sess[j] /\ u.local[j] = t.local[j]
      <4>1. u.sess = [[t.sess EXCEPT ![i] = e] EXCEPT ![i] = [used |-> FALSE, remote |-> 0]]
        BY <2>8, <3>3
      <4>2. u.local = [[t.local EXCEPT ![i] = local] EXCEPT ![i] = 0]
        BY <2>5, <2>8, <3>3
      <4> QED  BY <1>1, <2>0, <4>1, <4>2
    <3>6. ~u.sess[i].used
      <4>1. u.sess[i] = [used |-> FALSE, remote |-> 0]
        BY <2>0, <2>8, <3>2, <3>3
      <4> QED  BY <4>1
    <3>7. \A j \in 1 .. Sessions : u.sess[j].used <=> u.port[j] # 0
      BY <2>4, <3>4, <3>5, <3>6, Zenon DEF Sound
    <3>8. \A j, k \in 1 .. Sessions :
            u.sess[j].used /\ u.sess[j] = u.sess[k] /\ u.local[j] = u.local[k] => j = k
      BY <3>5, <3>6, Zenon DEF Sound
    <3>9. /\ u.open = {u.port[j] : j \in Entries} \ {0}
          /\ \A j, k \in Entries : u.port[j] # 0 /\ u.port[j] = u.port[k] => j = k
      BY <3>4 DEF Sound
    <3>10. Sound(u)
      BY <3>7, <3>8, <3>9 DEF Sound
    <3> QED  BY <3>3, <3>10
  <2> QED  BY <2>9, <2>10
<1> QED  BY <1>2, <1>3

(* coap_security_destroy() of an open socket.                               *)
LEMMA DestroySound ==
  ASSUME NEW t \in Transport, Sound(t), NEW fd
  PROVE  /\ coap_security_destroy(t, fd) \in Transport
         /\ Sound(coap_security_destroy(t, fd))
<1> DEFINE i == local_endpoint_find(t, fd)
<1>1. CASE i \in Entries /\ i > 0
  <2>1. i \in 1 .. Sessions
    BY <1>1, SessionsAssumption DEF Entries
  <2>2. coap_security_destroy(t, fd) = session_free(t, i)
    BY <1>1 DEF coap_security_destroy, secure_endpoint_check
  <2> QED  BY <2>1, <2>2, FreeSound
<1>2. CASE ~(i \in Entries /\ i > 0)
  BY <1>2 DEF coap_security_destroy, secure_endpoint_check
<1> QED  BY <1>1, <1>2

(* TablesSound, table by table.                                             *)
LEMMA TablesByTable ==
  ASSUME TypeOK
  PROVE  TablesSound <=> Once(obs) /\ OnceEach(observers) /\ Sound(tr)
<1>1. DOMAIN obs = 1 .. MaxObservables /\ DOMAIN observers = 1 .. MaxObservers
  BY DEF TypeOK
<1> QED  BY <1>1, Zenon DEF TablesSound, Once, OnceEach, Sound

LEMMA TablesNext ==
  ASSUME TypeOK', Once(obs'), OnceEach(observers'), Sound(tr')
  PROVE  TablesInv'
<1>1. DOMAIN obs' = 1 .. MaxObservables /\ DOMAIN observers' = 1 .. MaxObservers
  BY DEF TypeOK
<1>2. TablesSound'
  BY <1>1, Zenon DEF TablesSound, Once, OnceEach, Sound
<1> QED  BY <1>2 DEF TablesInv

Queue == [slot : [Slots -> Item], count : Nat]

(* The queue keeps its type.                                                *)
LEMMA QueueTypes ==
  ASSUME NEW p \in Queue
  PROVE  /\ \A it \in Item : coap_queue_add(p, it) \in Queue
         /\ \A s : coap_queue_remove(p, s) \in Queue
<1>1. \A x \in Nat : x % CountSpace \in Nat
  BY QueueAssumption
<1>2. NoItem \in Item
  BY DEF NoItem, Item
<1>3. p.count + 1 \in Nat /\ p.count + CountSpace - 1 \in Nat
  BY QueueAssumption DEF Queue
<1>4. (p.count + 1) % CountSpace \in Nat /\ (p.count + CountSpace - 1) % CountSpace \in Nat
  BY <1>1, <1>3
<1> QED  BY <1>2, <1>4 DEF coap_queue_add, coap_queue_remove, Queue

(* The searches end in a slot or nowhere.                                   *)
LEMMA Searches ==
  ASSUME NEW p \in Queue, NEW x
  PROVE  /\ coap_queue_item_by_token_get(p, x) \in 0 .. QueueSize
         /\ coap_queue_item_by_mid_get(p, x) \in 0 .. QueueSize
         /\ coap_queue_item_next_get(p, x) \in 0 .. QueueSize
<1>1. Slots \subseteq Nat \ {0} /\ Slots \subseteq 0 .. QueueSize /\ 0 \in 0 .. QueueSize
  BY QueueAssumption DEF Slots
<1>2. \A S \in SUBSET Slots : First(S) \in 0 .. QueueSize
  BY <1>1, FirstFits
<1> QED  BY <1>2 DEF coap_queue_item_by_token_get, coap_queue_item_by_mid_get,
                     coap_queue_item_next_get, Used

(* A message is sent: only the observables may lose the one it is about.    *)
LEMMA TransmitTables ==
  ASSUME TablesInv, NEW kind \in Kinds, NEW tok \in Nat, NEW fd \in Nat,
         NEW out \in Outcomes, Transmit(kind, tok, fd, out)
  PROVE  TablesInv'
<1> DEFINE r == [kind |-> kind, tok |-> tok, mid |-> next_id % IdSpace, fd |-> fd,
                 sent |-> out = "ok" /\ coap_transport_write(tr, fd),
                 st |-> "gone", calls |-> 0, age |-> 0]
           kept == r.sent /\ Kept(kind) /\ CanAdd(q)
           it == NewItem(r, Len(req) + 1)
           ob == coap_observe_client_send_handle(obs, r)
<1>1. /\ next_id' = IF out = "nomsg" THEN next_id ELSE next_id + 1
      /\ obs' = IF out = "nomsg" THEN obs ELSE ob
      /\ req' = Append(req, IF kept THEN [r EXCEPT !.st = "queued"] ELSE r)
      /\ q' = IF kept THEN coap_queue_add(q, it) ELSE q
      /\ heap' = heap + (IF kept THEN 1 ELSE 0)
      /\ UNCHANGED <<observers, tr, pc>>
  BY Zenon DEF Transmit
<1>2. next_id % IdSpace \in Nat
  BY CoapAssumption DEF TablesInv, TypeOK
<1>3. r \in Req /\ [r EXCEPT !.st = "queued"] \in Req
  BY <1>2 DEF Req
<1>4. it \in Item
  BY <1>2, CoapAssumption DEF NewItem, Item, TablesInv, TypeOK
<1>5. ob \in Observables /\ Once(ob)
  <2>1. obs \in Observables /\ Once(obs)
    BY TablesByTable DEF TablesInv, TypeOK, Observables
  <2> QED  BY <2>1, UnregisterOnce DEF coap_observe_client_send_handle
<1> HIDE DEF r, it, ob, kept
<1>6. obs' \in Observables /\ Once(obs')
  BY <1>1, <1>5, TablesByTable DEF TablesInv, TypeOK, Observables
<1>7. q' \in Queue /\ req' \in Seq(Req) /\ heap' \in Int /\ next_id' \in Nat
  <2>1. q' \in Queue
    BY <1>1, <1>4, QueueTypes DEF TablesInv, TypeOK, Queue
  <2>2. req' \in Seq(Req)
    BY <1>1, <1>3 DEF TablesInv, TypeOK
  <2> QED  BY <1>1, <2>1, <2>2 DEF TablesInv, TypeOK
<1>8. TypeOK'
  BY <1>1, <1>6, <1>7 DEF TablesInv, TypeOK, Queue, Observables
<1>9. OnceEach(observers') /\ Sound(tr')
  BY <1>1, TablesByTable DEF TablesInv
<1> QED  BY <1>6, <1>8, <1>9, TablesNext

(* The other steps of the library that touch no table but the observables.  *)
LEMMA ObsOnlyTables ==
  ASSUME TablesInv, UNCHANGED <<observers, tr>>, obs' \in Observables, Once(obs'),
         q' \in Queue, heap' \in Int, next_id' \in Nat, req' \in Seq(Req),
         pc' \in [op : Callbacks \cup {"idle", "tick"}, slot : 0 .. QueueSize]
  PROVE  TablesInv'
<1>1. TypeOK'
  BY DEF TablesInv, TypeOK, Observables, Queue
<1>2. OnceEach(observers') /\ Sound(tr')
  BY TablesByTable DEF TablesInv
<1> QED  BY <1>1, <1>2, TablesNext

(* A request changes by what became of it.                                  *)
Concluded(r) == [r EXCEPT !.st = "done", !.calls = r.calls + 1, !.age = 0]

LEMMA ConcludedType ==
  ASSUME NEW r \in Req
  PROVE  /\ Concluded(r) \in Req /\ Concluded(r).st = "done"
         /\ Concluded(r).calls = r.calls + 1 /\ Concluded(r).age = 0
         /\ Concluded(r).sent = r.sent /\ Concluded(r).mid = r.mid
         /\ Concluded(r).kind = r.kind
<1>1. r.calls + 1 \in Nat
  BY DEF Req
<1> DEFINE c == r.calls + 1
<1> HIDE DEF c
<1>2. Concluded(r) = [r EXCEPT !.st = "done", !.calls = c, !.age = 0] /\ c \in Nat
  BY <1>1 DEF Concluded, c
<1>3. Concluded(r) \in Req
  <2>1. [r EXCEPT !.st = "done", !.calls = c, !.age = 0] \in Req
    BY <1>2 DEF Req, Kinds
  <2> QED  BY <1>2, <2>1
<1>4. /\ Concluded(r).st = "done" /\ Concluded(r).calls = c /\ Concluded(r).age = 0
      /\ Concluded(r).sent = r.sent /\ Concluded(r).mid = r.mid
      /\ Concluded(r).kind = r.kind
  BY <1>2 DEF Req
<1> QED  BY <1>3, <1>4 DEF c

LEMMA CalledEffect ==
  ASSUME TypeOK, NEW s
  PROVE  /\ Called(s) \in Seq(Req) /\ Len(Called(s)) = Len(req)
         /\ \A m \in Requests :
              Called(s)[m] = IF m = q.slot[s].m THEN Concluded(req[m]) ELSE req[m]
<1> DEFINE n == q.slot[s].m
<1>1. req \in Seq(Req)
  BY DEF TypeOK
<1>2. Called(s) = [req EXCEPT ![n].st = "done", ![n].calls = @ + 1, ![n].age = 0]
  BY DEF Called
<1> HIDE DEF n
<1>3. CASE n \in DOMAIN req
  <2>1. req[n] \in Req
    BY <1>1, <1>3
  <2>2. Called(s) = [req EXCEPT ![n] = Concluded(req[n])]
    BY <1>1, <1>2, <1>3, <2>1 DEF Concluded, Req
  <2>3. Concluded(req[n]) \in Req
    BY <2>1, ConcludedType
  <2>4. n \in 1 .. Len(req)
    BY <1>1, <1>3
  <2>5. Called(s) \in Seq(Req) /\ Len(Called(s)) = Len(req)
    BY <1>1, <2>2, <2>3, <2>4, ExceptSeq
  <2>6. \A m \in Requests : Called(s)[m] = IF m = n THEN Concluded(req[m]) ELSE req[m]
    BY <1>1, <2>2 DEF Requests
  <2> QED  BY <2>5, <2>6 DEF n
<1>4. CASE n \notin DOMAIN req
  <2>1. Called(s) = req
    BY <1>1, <1>2, <1>4
  <2> QED  BY <1>1, <1>4, <2>1 DEF n, Requests
<1> QED  BY <1>3, <1>4

(* An answer arrives.                                                       *)
LEMMA ReadTables ==
  ASSUME TablesInv, coap_transport_read
  PROVE  TablesInv'
<1>1. PICK m \in Requests : \E d \in Answers(m) :
        req[m].sent /\ IF IsEmpty(d) THEN AckOrReset(d) ELSE Response(d)
  BY DEF coap_transport_read
<1>2. PICK d \in Answers(m) : IF IsEmpty(d) THEN AckOrReset(d) ELSE Response(d)
  BY <1>1
<1>3. d.tok \in Nat
  <2>1. req[m].tok \in Nat
    <3>1. req \in Seq(Req)
      BY DEF TablesInv, TypeOK
    <3>2. req[m] \in Req
      BY <3>1 DEF Requests
    <3> QED  BY <3>2 DEF Req
  <2> QED  BY <2>1 DEF Answers
<1>4. UNCHANGED <<next_id, observers, tr>>
  BY DEF coap_transport_read
<1>5. obs \in Observables /\ Once(obs) /\ q \in Queue
  BY TablesByTable DEF TablesInv, TypeOK, Observables, Queue
<1>6. CASE AckOrReset(d)
  <2> DEFINE s == coap_queue_item_by_mid_get(q, d.mid)
             dd == [d EXCEPT !.tok = q.slot[s].tok]
  <2>1. s \in 0 .. QueueSize
    BY <1>5, Searches
  <2>2. CASE s = 0 \/ ~q.slot[s].buffer
    <3>1. obs' = obs /\ pc' = pc /\ heap' = heap /\ req' = req
          /\ (q' = q \/ q' = coap_queue_remove(q, s))
      BY <1>6, <2>2 DEF AckOrReset
    <3> HIDE DEF s
    <3>2. q' \in Queue
      BY <1>5, <3>1, QueueTypes
    <3> QED  BY <1>4, <1>5, <3>1, <3>2, ObsOnlyTables DEF TablesInv, TypeOK
  <2>3. CASE ~(s = 0 \/ ~q.slot[s].buffer)
    <3>1. /\ obs' = coap_observe_client_response_handle(obs, dd, TRUE)
          /\ pc' = [op |-> "input_cb", slot |-> s]
          /\ heap' = heap + 1 /\ req' = Called(s) /\ q' = q
      BY <1>6, <2>3 DEF AckOrReset
    <3>2. dd.tok \in Nat
      <4>1. s \in Slots
        BY <2>1, <2>3, QueueAssumption DEF Slots
      <4>2. q.slot[s].tok \in Nat
        BY <1>5, <4>1 DEF Queue, Item
      <4> HIDE DEF s
      <4>3. "tok" \in DOMAIN d
        BY DEF Answers
      <4> QED  BY <4>2, <4>3
    <3> HIDE DEF s, dd
    <3>3. obs' \in Observables /\ Once(obs')
      BY <1>5, <3>1, <3>2, ResponseOnce
    <3>4. req' \in Seq(Req)
      BY <3>1, CalledEffect DEF TablesInv
    <3>5. pc' \in [op : Callbacks \cup {"idle", "tick"}, slot : 0 .. QueueSize]
      BY <2>1, <3>1 DEF Callbacks
    <3>6. heap' \in Int /\ next_id' \in Nat /\ q' \in Queue
      BY <1>4, <1>5, <3>1 DEF TablesInv, TypeOK
    <3> QED  BY <1>4, <3>3, <3>4, <3>5, <3>6, ObsOnlyTables
  <2> QED  BY <2>2, <2>3
<1>7. CASE Response(d)
  <2> DEFINE s == coap_queue_item_by_token_get(q, d.tok)
  <2>1. s \in 0 .. QueueSize
    BY <1>5, Searches
  <2>2. PICK found \in BOOLEAN : obs' = coap_observe_client_response_handle(obs, d, found)
    BY <1>7 DEF Response
  <2>3. obs' \in Observables /\ Once(obs')
    BY <1>3, <1>5, <2>2, ResponseOnce
  <2>4. /\ pc' = pc \/ pc' = [op |-> "obs_cb", slot |-> 0]
                     \/ pc' = [op |-> "input_cb", slot |-> s]
        /\ heap' = heap \/ heap' = heap + 1
        /\ req' = req \/ req' = Called(s)
        /\ q' = q
    <3>1. heap \in Int
      BY DEF TablesInv, TypeOK
    <3> DEFINE N == Notifies(obs, d, FALSE)
    <3>2. \/ /\ pc' = IF N THEN [op |-> "obs_cb", slot |-> 0] ELSE pc
             /\ heap' = heap + (IF N THEN 1 ELSE 0)
             /\ req' = req /\ q' = q
          \/ /\ pc' = [op |-> "input_cb", slot |-> s]
             /\ heap' = heap + 1 /\ req' = Called(s) /\ q' = q
      BY <1>7, Zenon DEF Response
    <3> HIDE DEF s, N
    <3> QED  BY <3>1, <3>2
  <2> HIDE DEF s
  <2>5. pc' \in [op : Callbacks \cup {"idle", "tick"}, slot : 0 .. QueueSize]
    BY <2>1, <2>4, QueueAssumption DEF Callbacks, TablesInv, TypeOK
  <2>6. heap' \in Int /\ next_id' \in Nat /\ q' \in Queue
    BY <1>4, <1>5, <2>4 DEF TablesInv, TypeOK
  <2>7. req' \in Seq(Req)
    BY <2>4, CalledEffect DEF TablesInv, TypeOK
  <2> QED  BY <1>4, <2>3, <2>5, <2>6, <2>7, ObsOnlyTables
<1> QED  BY <1>2, <1>6, <1>7

(* What a tick does to an item and to its request.                          *)
LEMMA TickedType ==
  ASSUME NEW it \in Item
  PROVE  /\ Ticked(it) \in Item /\ Ticked(it).m = it.m /\ Ticked(it).mid = it.mid
         /\ Ticked(it).tok = it.tok /\ Ticked(it).buffer = it.buffer
         /\ it.timeout > 0 => /\ Ticked(it).timeout = it.timeout - 1
                              /\ Ticked(it).timeout_val = it.timeout_val
                              /\ Ticked(it).retrans_count = it.retrans_count
         /\ it.timeout = 0 /\ it.retrans_count < MaxRetransmit =>
              /\ Ticked(it).timeout = it.timeout_val * 2
              /\ Ticked(it).timeout_val = it.timeout_val * 2
              /\ Ticked(it).retrans_count = it.retrans_count + 1
         /\ it.timeout = 0 /\ ~(it.retrans_count < MaxRetransmit) => Ticked(it) = it
<1>1. it.timeout \in Nat /\ it.timeout_val \in Nat /\ it.retrans_count \in Nat
  BY DEF Item
<1> DEFINE v == it.timeout_val * 2
           k == it.retrans_count + 1
           w == it.timeout - 1
<1>2. v \in Nat /\ k \in Nat
  BY <1>1
<1>3. CASE it.timeout > 0
  <2>1. Ticked(it) = [it EXCEPT !.timeout = w]
    BY <1>3 DEF Ticked
  <2>2. w \in Nat
    BY <1>1, <1>3
  <2> HIDE DEF w
  <2>3. [it EXCEPT !.timeout = w] \in Item
    BY <2>2 DEF Item
  <2>4. /\ Ticked(it).m = it.m /\ Ticked(it).mid = it.mid
        /\ Ticked(it).tok = it.tok /\ Ticked(it).buffer = it.buffer
        /\ Ticked(it).timeout = w /\ Ticked(it).timeout_val = it.timeout_val
        /\ Ticked(it).retrans_count = it.retrans_count
    BY <2>1 DEF Item
  <2> QED  BY <1>1, <1>3, <2>1, <2>3, <2>4 DEF w
<1>4. CASE it.timeout = 0 /\ it.retrans_count < MaxRetransmit
  <2>1. Ticked(it) = [it EXCEPT !.timeout = v, !.timeout_val = v, !.retrans_count = k]
    BY <1>4 DEF Ticked, Item
  <2> HIDE DEF v, k
  <2>2. [it EXCEPT !.timeout = v, !.timeout_val = v, !.retrans_count = k] \in Item
    BY <1>2 DEF Item
  <2>3. /\ Ticked(it).m = it.m /\ Ticked(it).mid = it.mid
        /\ Ticked(it).tok = it.tok /\ Ticked(it).buffer = it.buffer
        /\ Ticked(it).timeout = v /\ Ticked(it).timeout_val = v
        /\ Ticked(it).retrans_count = k
    BY <2>1 DEF Item
  <2> QED  BY <1>4, <2>1, <2>2, <2>3 DEF v, k
<1>5. CASE it.timeout = 0 /\ ~(it.retrans_count < MaxRetransmit)
  <2>1. Ticked(it) = it
    BY <1>5 DEF Ticked
  <2> QED  BY <1>5, <2>1
<1> QED  BY <1>1, <1>3, <1>4, <1>5

Aged(r, sends) == [r EXCEPT !.sent = r.sent \/ sends,
                            !.age = IF r.age < AgeLimit(r.kind) THEN r.age + 1 ELSE r.age]

LEMMA AgedType ==
  ASSUME NEW r \in Req, NEW sends \in BOOLEAN
  PROVE  /\ Aged(r, sends) \in Req /\ Aged(r, sends).st = r.st
         /\ Aged(r, sends).kind = r.kind /\ Aged(r, sends).mid = r.mid
         /\ Aged(r, sends).calls = r.calls
         /\ Aged(r, sends).sent <=> (r.sent \/ sends)
         /\ Aged(r, sends).age <= r.age + 1
<1> DEFINE a == IF r.age < AgeLimit(r.kind) THEN r.age + 1 ELSE r.age
           b == r.sent \/ sends
<1>1. a \in Nat /\ a <= r.age + 1 /\ b \in BOOLEAN
  <2>1. r.age \in Nat /\ r.sent \in BOOLEAN
    BY DEF Req
  <2> QED  BY <2>1
<1>2. Aged(r, sends) = [r EXCEPT !.sent = b, !.age = a]
  BY DEF Aged
<1> HIDE DEF a, b
<1>3. [r EXCEPT !.sent = b, !.age = a] \in Req
  BY <1>1 DEF Req, Kinds
<1>4. /\ Aged(r, sends).st = r.st /\ Aged(r, sends).kind = r.kind
      /\ Aged(r, sends).mid = r.mid /\ Aged(r, sends).calls = r.calls
      /\ Aged(r, sends).sent = b /\ Aged(r, sends).age = a
  BY <1>2 DEF Req
<1> QED  BY <1>1, <1>2, <1>3, <1>4 DEF b

(* One round of the loop over the queue.                                    *)
LEMMA TickEffect ==
  ASSUME TypeOK, coap_time_tick
  PROVE  LET s  == coap_queue_item_next_get(q, pc.slot)
             it == q.slot[s]
         IN  /\ pc.op = "tick"
             /\ UNCHANGED <<role, heap, next_id, obs, observers, tr>>
             /\ s = 0 => pc' = Idle /\ UNCHANGED <<q, req>>
             /\ s # 0 =>
                  /\ s \in Used(q) /\ it \in Item
                  /\ q' = [q EXCEPT !.slot[s] = Ticked(it)] /\ q' \in Queue
                  /\ pc' = [op |-> IF Expired(it) THEN "tick_cb" ELSE "tick", slot |-> s]
                  /\ req' \in Seq(Req) /\ Len(req') = Len(req)
                  /\ \A m \in Requests : m # it.m => req'[m] = req[m]
                  /\ it.m \in Requests =>
                       \E sends \in BOOLEAN :
                         req'[it.m] = IF Expired(it) THEN Concluded(Aged(req[it.m], sends))
                                                     ELSE Aged(req[it.m], sends)
<1> DEFINE s  == coap_queue_item_next_get(q, pc.slot)
           it == q.slot[s]
           sends == it.timeout = 0 /\ it.retrans_count < MaxRetransmit
                      /\ coap_transport_write(tr, req[it.m].fd)
           r1 == [req[it.m] EXCEPT !.sent = @ \/ sends,
                       !.age = IF @ < AgeLimit(req[it.m].kind) THEN @ + 1 ELSE @]
           r2 == IF Expired(it)
                 THEN [r1 EXCEPT !.st = "done", !.calls = @ + 1, !.age = 0] ELSE r1
<1>1. /\ pc.op = "tick" /\ UNCHANGED <<role, heap, next_id, obs, observers, tr>>
      /\ s = 0 => pc' = Idle /\ UNCHANGED <<q, req>>
      /\ s # 0 => /\ q' = [q EXCEPT !.slot[s] = Ticked(it)]
                  /\ req' = [req EXCEPT ![it.m] = r2]
                  /\ pc' = [op |-> IF Expired(it) THEN "tick_cb" ELSE "tick", slot |-> s]
  BY Zenon DEF coap_time_tick
<1>2. ASSUME s # 0
      PROVE  /\ s \in Used(q) /\ it \in Item /\ q' \in Queue
             /\ req' \in Seq(Req) /\ Len(req') = Len(req)
             /\ \A m \in Requests : m # it.m => req'[m] = req[m]
             /\ it.m \in Requests =>
                  \E b \in BOOLEAN :
                    req'[it.m] = IF Expired(it) THEN Concluded(Aged(req[it.m], b))
                                                ELSE Aged(req[it.m], b)
  <2>1. {t \in Used(q) : t > pc.slot} \subseteq Nat \ {0}
    BY QueueAssumption DEF Used, Slots
  <2>2. s \in Used(q)
    BY <1>2, <2>1, FirstFits DEF coap_queue_item_next_get
  <2> HIDE DEF s
  <2>3. it \in Item
    BY <2>2 DEF Used, TypeOK
  <2>4. q' \in Queue
    <3>1. Ticked(it) \in Item
      BY <2>3, TickedType
    <3> HIDE DEF it
    <3> QED  BY <1>1, <1>2, <3>1 DEF TypeOK, Queue
  <2>5. req \in Seq(Req)
    BY DEF TypeOK
  <2>6. CASE it.m \in Requests
    <3>1. req[it.m] \in Req /\ it.m \in 1 .. Len(req)
      BY <2>5, <2>6 DEF Requests
    <3>2. sends \in BOOLEAN
      BY DEF coap_transport_write
    <3> HIDE DEF sends, it
    <3>3. r1 = Aged(req[it.m], sends)
      BY <3>1 DEF Aged, Req
    <3>4. Aged(req[it.m], sends) \in Req
      BY <3>1, <3>2, AgedType
    <3>5. r2 = (IF Expired(it) THEN Concluded(Aged(req[it.m], sends))
                               ELSE Aged(req[it.m], sends))
      <4> HIDE DEF r1
      <4>1. [r1 EXCEPT !.st = "done", !.calls = @ + 1, !.age = 0] = Concluded(r1)
        BY <3>3, <3>4 DEF Concluded, Req
      <4> QED  BY <3>3, <4>1
    <3>6. r2 \in Req
      BY <3>4, <3>5, ConcludedType
    <3> HIDE DEF r2
    <3>7. /\ req' \in Seq(Req) /\ Len(req') = Len(req)
          /\ \A j \in 1 .. Len(req) : req'[j] = IF j = it.m THEN r2 ELSE req[j]
      BY <1>1, <1>2, <2>5, <3>1, <3>6, ExceptSeq
    <3>8. Requests = 1 .. Len(req)
      BY <2>5 DEF Requests
    <3> QED  BY <2>2, <2>3, <2>4, <2>6, <3>2, <3>5, <3>7, <3>8
  <2>7. CASE it.m \notin Requests
    <3> HIDE DEF r2, it
    <3>1. req' = req
      BY <1>1, <1>2, <2>5, <2>7 DEF Requests
    <3> QED  BY <2>2, <2>3, <2>4, <2>5, <2>7, <3>1
  <2> QED  BY <2>6, <2>7
<1> QED  BY <1>1, <1>2

LEMMA InitTables == Init => TablesInv
<1> SUFFICES ASSUME Init PROVE TablesInv
  OBVIOUS
<1> USE DEF Init, coap_init
<1>1. q \in Queue /\ pc \in [op : Callbacks \cup {"idle", "tick"}, slot : 0 .. QueueSize]
  BY QueueAssumption DEF coap_queue_init, Queue, NoItem, Item, Idle
<1>2. obs \in Observables /\ Once(obs)
  BY DEF observe_client_init, Observables, Once
<1>3. observers \in Observers /\ OnceEach(observers)
  BY DEF observe_server_init, Observers, OnceEach, NoObserver
<1>4. tr \in Transport /\ Sound(tr)
  BY InitSound
<1>5. TypeOK
  BY <1>1, <1>2, <1>3, <1>4 DEF TypeOK, Queue, Observables, Observers
<1> QED  BY <1>2, <1>3, <1>4, <1>5, TablesByTable DEF TablesInv

(* The four ways to send, with what they send.                              *)
Sends ==
  \E kind \in Kinds, tok \in Nat, fd \in Nat, out \in Outcomes : Transmit(kind, tok, fd, out)

LEMMA SendingSends ==
  ASSUME TypeOK
  PROVE  /\ \A kind \in {"con", "non", "fire", "obs"}, out \in Outcomes :
              client_get_send(kind, out) => Sends
         /\ \A m \in Requests, out \in Outcomes : Deregister(m, out) => Sends
         /\ \A r, start : \A out \in Outcomes : Notify(r, start, out) => Sends
         /\ \A i \in 1 .. Sessions, out \in Outcomes : SecureSend(i, out) => Sends
<1>1. Len(req) + 1 \in Nat /\ \A i \in Entries : tr.port[i] \in Nat
  BY DEF TypeOK, Transport
<1>2. 0 \in Entries /\ 1 .. Sessions \subseteq Entries
  BY SessionsAssumption DEF Entries
<1>3. \A m \in Requests : req[m].tok \in Nat
  <2>1. \A m \in Requests : req[m] \in Req
    BY DEF TypeOK, Requests
  <2> QED  BY <2>1 DEF Req
<1>4. ASSUME NEW kind \in {"con", "non", "fire", "obs"}, NEW out \in Outcomes,
             client_get_send(kind, out)
      PROVE  Sends
  <2>1. Transmit(kind, Len(req) + 1, tr.port[0], out) /\ kind \in Kinds
    BY <1>4 DEF client_get_send, Kinds
  <2> QED  BY <1>1, <1>2, <2>1, Zenon DEF Sends
<1>5. ASSUME NEW m \in Requests, NEW out \in Outcomes, Deregister(m, out)
      PROVE  Sends
  <2>1. Transmit("dereg", req[m].tok, tr.port[0], out) /\ "dereg" \in Kinds
    BY <1>5 DEF Deregister, Kinds
  <2> QED  BY <1>1, <1>2, <1>3, <2>1, Zenon DEF Sends
<1>6. ASSUME NEW r, NEW start, NEW out \in Outcomes, Notify(r, start, out)
      PROVE  Sends
  <2>1. Transmit("notify", Len(req) + 1, tr.port[0], out) /\ "notify" \in Kinds
    BY <1>6 DEF Notify, Kinds
  <2> QED  BY <1>1, <1>2, <2>1, Zenon DEF Sends
<1>7. ASSUME NEW i \in 1 .. Sessions, NEW out \in Outcomes, SecureSend(i, out)
      PROVE  Sends
  <2>1. Transmit("con", Len(req) + 1, tr.port[i], out) /\ "con" \in Kinds
    BY <1>7 DEF SecureSend, Kinds
  <2> QED  BY <1>1, <1>2, <2>1, Zenon DEF Sends
<1> QED  BY <1>4, <1>5, <1>6, <1>7

(* The steps of the library and its application, sorted by what they touch. *)
QueueVars == <<q, heap, next_id, pc, req>>
Returns ==
  AnswerReturns \/ NotificationReturns \/ TickStart \/ TimeoutReturns \/ RequestReturns
    \/ \E path \in Paths, code \in {"GET", "PUT"} : Request(path, code)
Registers ==
  \/ \E remote \in Remotes, r \in {1, 3} : coap_observe_server_register(remote, r)
  \/ \E i \in 1 .. MaxObservers : coap_observe_server_unregister(i)
Secures ==
  \/ \E local \in 1 .. 2, remote \in Remotes : Setup(local, remote)
  \/ \E i \in 1 .. Sessions : Destroy(i)
Encodes == UNCHANGED <<obs, observers, tr, QueueVars>>

LEMMA NextSorted ==
  ASSUME TypeOK, [Next]_vars
  PROVE  Sends \/ coap_transport_read \/ coap_time_tick \/ Returns \/ Registers \/ Secures \/ Encodes
<1>1. CASE UNCHANGED vars
  <2>1. /\ obs' = obs /\ observers' = observers /\ tr' = tr
        /\ q' = q /\ heap' = heap /\ next_id' = next_id /\ pc' = pc /\ req' = req
    BY <1>1 DEF vars
  <2>2. Encodes
    BY <2>1 DEF Encodes, QueueVars
  <2> QED  BY <2>2
<1>2. CASE Build \/ \E n \in Lengths : SetPayload(n)
  <2>1. ASSUME NEW m1, NEW num, NEW val, Adds(m1, num, val)
        PROVE  Encodes
    BY <2>1 DEF Adds, Encodes, QueueVars
  <2>2. ASSUME NEW n \in Lengths, SetPayload(n)
        PROVE  Encodes
    BY <2>2 DEF SetPayload, Encodes, QueueVars
  <2>3. Build => Encodes
    BY <2>1, Zenon DEF Build
  <2> QED  BY <1>2, <2>2, <2>3, Zenon
<1>3. CASE \/ \E kind \in {"con", "non", "fire", "obs"}, out \in Outcomes : client_get_send(kind, out)
           \/ \E m \in Requests, out \in Outcomes : Deregister(m, out)
           \/ \E r \in {1, 3}, start \in 0 .. MaxObservers, out \in {"ok", "eio"} : Notify(r, start, out)
           \/ \E i \in 1 .. Sessions, out \in {"ok", "eio"} : SecureSend(i, out)
  <2>1. {"ok", "eio"} \subseteq Outcomes
    BY DEF Outcomes
  <2> QED  BY <1>3, <2>1, SendingSends
<1> QED  BY <1>1, <1>2, <1>3, Zenon DEF Next, Returns, Registers, Secures

LEMMA ReturnsTables ==
  ASSUME TablesInv, Returns
  PROVE  TablesInv'
<1>1. /\ UNCHANGED <<next_id, obs, observers, tr, req>>
      /\ q' = q \/ q' = coap_queue_remove(q, pc.slot)
      /\ heap' \in {heap, heap - 1, heap - 2, heap + 1}
      /\ pc' \in {pc, Idle, [op |-> "tick", slot |-> 0], [op |-> "req_cb", slot |-> 0],
                  [pc EXCEPT !.op = "tick"]}
  BY DEF Returns, AnswerReturns, NotificationReturns, TickStart, TimeoutReturns, RequestReturns,
         Request, send_error_response
<1>2. q' \in Queue
  BY <1>1, QueueTypes DEF TablesInv, TypeOK, Queue
<1>3. pc' \in [op : Callbacks \cup {"idle", "tick"}, slot : 0 .. QueueSize]
  BY <1>1, QueueAssumption DEF TablesInv, TypeOK, Idle, Callbacks
<1>4. obs' \in Observables /\ Once(obs')
  BY <1>1, TablesByTable DEF TablesInv, TypeOK, Observables
<1> QED  BY <1>1, <1>2, <1>3, <1>4, ObsOnlyTables DEF TablesInv, TypeOK

LEMMA TickTables ==
  ASSUME TablesInv, coap_time_tick
  PROVE  TablesInv'
<1> DEFINE s == coap_queue_item_next_get(q, pc.slot)
<1>1. UNCHANGED <<heap, next_id, obs, observers, tr>>
  BY TickEffect DEF TablesInv
<1>2. obs' \in Observables /\ Once(obs')
  BY <1>1, TablesByTable DEF TablesInv, TypeOK, Observables
<1>3. s \in 0 .. QueueSize
  BY Searches DEF TablesInv, TypeOK, Queue
<1>4. q' \in Queue /\ req' \in Seq(Req)
  <2>1. s = 0 => UNCHANGED <<q, req>>
    BY TickEffect DEF TablesInv
  <2>2. s # 0 => q' \in Queue /\ req' \in Seq(Req)
    BY TickEffect DEF TablesInv
  <2> QED  BY <2>1, <2>2 DEF TablesInv, TypeOK, Queue
<1>5. pc' = Idle \/ \E op \in {"tick", "tick_cb"} : pc' = [op |-> op, slot |-> s]
  BY TickEffect DEF TablesInv
<1>6. pc' \in [op : Callbacks \cup {"idle", "tick"}, slot : 0 .. QueueSize]
  <2> HIDE DEF s
  <2> QED  BY <1>3, <1>5, QueueAssumption DEF Idle, Callbacks
<1> QED  BY <1>1, <1>2, <1>4, <1>6, ObsOnlyTables DEF TablesInv, TypeOK

(* Each step keeps the types and the tables.                                *)
LEMMA TablesInductive ==
  ASSUME TablesInv, [Next]_vars
  PROVE  TablesInv'
<1>1. Sends \/ coap_transport_read \/ coap_time_tick \/ Returns \/ Registers \/ Secures \/ Encodes
  BY NextSorted DEF TablesInv
<1>2. obs \in Observables /\ Once(obs) /\ observers \in Observers /\ OnceEach(observers)
      /\ tr \in Transport /\ Sound(tr)
  BY TablesByTable DEF TablesInv, TypeOK, Observables, Observers
<1>3. CASE Sends
  BY <1>3, TransmitTables DEF Sends
<1>4. CASE Registers
  <2>1. UNCHANGED <<q, heap, next_id, obs, tr, pc, req>>
    BY <1>4 DEF Registers, coap_observe_server_register, coap_observe_server_unregister
  <2>2. observers' \in Observers /\ OnceEach(observers')
    <3>1. Remotes \subseteq Nat /\ {1, 3} \subseteq Nat \ {0}
      BY DEF Remotes
    <3> QED  BY <1>2, <1>4, <3>1, RegisterOnce, UnregisterServerOnce
                DEF Registers, coap_observe_server_register, coap_observe_server_unregister
  <2>3. TypeOK'
    BY <2>1, <2>2 DEF TablesInv, TypeOK, Observers
  <2> QED  BY <1>2, <2>1, <2>2, <2>3, TablesNext
<1>5. CASE Secures
  <2>1. UNCHANGED <<q, heap, next_id, obs, observers, pc, req>>
    BY <1>5 DEF Secures, Setup, Destroy
  <2>2. tr' \in Transport /\ Sound(tr')
    <3>1. Remotes \subseteq Nat /\ 1 .. 2 \subseteq Nat
      BY DEF Remotes
    <3>2. CASE \E local \in 1 .. 2, remote \in Remotes : Setup(local, remote)
      <4>1. PICK local \in 1 .. 2, remote \in Remotes : Setup(local, remote)
        BY <3>2
      <4>2. PICK fail \in SUBSET (1 .. Sessions), connects \in BOOLEAN :
              tr' = coap_security_setup(tr, local, remote, fail, connects)
        BY <4>1, Zenon DEF Setup
      <4>3. local \in Nat /\ remote \in Nat
        BY <3>1
      <4> QED  BY <1>2, <4>2, <4>3, SetupSound
    <3>3. CASE \E i \in 1 .. Sessions : Destroy(i)
      BY <1>2, <3>3, DestroySound DEF Destroy
    <3> QED  BY <1>5, <3>2, <3>3 DEF Secures
  <2>3. TypeOK'
    BY <2>1, <2>2 DEF TablesInv, TypeOK
  <2> QED  BY <1>2, <2>1, <2>2, <2>3, TablesNext
<1>6. CASE Encodes
  <2>1. TypeOK'
    BY <1>6 DEF Encodes, QueueVars, TablesInv, TypeOK
  <2>2. Once(obs') /\ OnceEach(observers') /\ Sound(tr')
    BY <1>2, <1>6 DEF Encodes
  <2> QED  BY <2>1, <2>2, TablesNext
<1> QED  BY <1>1, <1>3, <1>4, <1>5, <1>6, ReadTables, TickTables, ReturnsTables

(* ----------------------- the queue -------------------------------------- *)

LEMMA SlotsFinite ==
  ASSUME NEW p
  PROVE  /\ Used(p) \subseteq Slots /\ IsFiniteSet(Used(p)) /\ Cardinality(Used(p)) \in Nat
         /\ Cardinality(Used(p)) <= QueueSize
         /\ Slots \subseteq Nat \ {0}
<1>1. IsFiniteSet(Slots) /\ Cardinality(Slots) = QueueSize
  BY FS_Interval, QueueAssumption DEF Slots
<1>2. Used(p) \subseteq Slots
  BY DEF Used
<1> QED  BY <1>1, <1>2, FS_Subset, FS_CardinalityType, QueueAssumption DEF Slots

(* An item goes into a slot that was free.                                  *)
LEMMA AddEffect ==
  ASSUME NEW p \in Queue, CanAdd(p), p.count = Cardinality(Used(p)),
         NEW it \in Item, it.buffer
  PROVE  \E f \in Slots \ Used(p) :
           LET u == coap_queue_add(p, it)
           IN  /\ u.slot[f] = it /\ \A s \in Slots : s # f => u.slot[s] = p.slot[s]
               /\ Used(u) = Used(p) \cup {f}
               /\ u.count = p.count + 1
               /\ Cardinality(Used(u)) = Cardinality(Used(p)) + 1
<1> DEFINE f == First(Slots \ Used(p))
           u == coap_queue_add(p, it)
<1>1. f \in Slots \ Used(p)
  <2>1. Slots \ Used(p) # {} /\ Slots \ Used(p) \subseteq Nat \ {0}
    BY SlotsFinite DEF CanAdd
  <2> QED  BY <2>1, FirstFits
<1>2. u = [slot |-> [p.slot EXCEPT ![f] = it], count |-> (p.count + 1) % CountSpace]
  BY DEF coap_queue_add
<1> HIDE DEF f, u
<1>3. p.slot \in [Slots -> Item] /\ p.count \in Nat
  BY DEF Queue
<1>4. u.slot[f] = it /\ \A s \in Slots : s # f => u.slot[s] = p.slot[s]
  BY <1>1, <1>2, <1>3
<1>5. Used(u) = Used(p) \cup {f}
  BY <1>1, <1>4 DEF Used
<1>6. u.count = p.count + 1
  <2>1. p.count + 1 \in 0 .. CountSpace - 1
    BY <1>3, QueueAssumption DEF CanAdd
  <2>2. \A x \in 0 .. CountSpace - 1 : x % CountSpace = x
    BY QueueAssumption
  <2> QED  BY <1>2, <2>1, <2>2
<1>7. Cardinality(Used(u)) = Cardinality(Used(p)) + 1
  BY <1>1, <1>5, SlotsFinite, FS_AddElement, ZenonT(40)
<1> QED
  <2> USE <1>1
  <2> WITNESS f \in Slots \ Used(p)
  <2> QED  BY <1>4, <1>5, <1>6, <1>7, Zenon DEF u

(* The item of a slot in use is taken out.                                  *)
LEMMA RemoveEffect ==
  ASSUME NEW p \in Queue, p.count = Cardinality(Used(p)), NEW x \in Used(p)
  PROVE  LET u == coap_queue_remove(p, x)
         IN  /\ u.slot[x] = NoItem /\ \A s \in Slots : s # x => u.slot[s] = p.slot[s]
             /\ Used(u) = Used(p) \ {x}
             /\ u.count = p.count - 1
             /\ Cardinality(Used(u)) = Cardinality(Used(p)) - 1
<1> DEFINE u == coap_queue_remove(p, x)
<1>1. x \in Slots /\ p.slot \in [Slots -> Item] /\ p.count \in Nat
  BY SlotsFinite DEF Queue
<1>2. u = [slot |-> [p.slot EXCEPT ![x] = NoItem], count |-> (p.count + CountSpace - 1) % CountSpace]
  BY DEF coap_queue_remove
<1> HIDE DEF u
<1>3. u.slot[x] = NoItem /\ \A s \in Slots : s # x => u.slot[s] = p.slot[s]
  BY <1>1, <1>2
<1>4. Used(u) = Used(p) \ {x}
  BY <1>1, <1>3 DEF Used, NoItem
<1>5. Cardinality(Used(u)) = Cardinality(Used(p)) - 1
  BY <1>4, SlotsFinite, FS_RemoveElement
<1>6. Cardinality(Used(u)) \in Nat /\ Cardinality(Used(p)) <= QueueSize
  BY SlotsFinite
<1>7. u.count = p.count - 1
  <2>1. p.count - 1 \in 0 .. CountSpace - 1
    BY <1>1, <1>5, <1>6, QueueAssumption
  <2>2. \A y \in 0 .. CountSpace - 1 : (y + CountSpace) % CountSpace = y
    BY QueueAssumption
  <2>3. p.count + CountSpace - 1 = (p.count - 1) + CountSpace
    BY <1>1, QueueAssumption
  <2> QED  BY <1>2, <2>1, <2>2, <2>3
<1> QED  BY <1>3, <1>4, <1>5, <1>7 DEF u

(* Fewer messages are sent than there are ids.                              *)
IdsDoNotWrap == MaxMsgs < IdSpace /\ OtherMsgs < IdSpace

Inv == TablesInv /\ QueueInv

LEMMA RequestsAre ==
  ASSUME TypeOK
  PROVE  /\ Requests = 1 .. Len(req) /\ Len(req) \in Nat
         /\ \A m \in Requests : req[m] \in Req
         /\ q \in Queue /\ \A s \in Slots : q.slot[s] \in Item
<1>1. req \in Seq(Req) /\ q \in Queue
  BY DEF TypeOK, Queue
<1> QED  BY <1>1 DEF Requests, Queue

(* Nothing of the queue changes.                                            *)
LEMMA SameQueue ==
  ASSUME Inv, UNCHANGED QueueVars
  PROVE  QueueInv'
<1> USE DEF QueueVars
<1>1. \A s : InCallback(s)' <=> InCallback(s)
  BY DEF InCallback
<1>2. IdsNotZero' /\ Counted'
  BY DEF Inv, QueueInv, IdsNotZero, Counted, Requests
<1>3. SlotsOwned'
  BY <1>1 DEF Inv, QueueInv, SlotsOwned, Requests
<1>4. MessagesKept' /\ Timed'
  BY DEF Inv, QueueInv, MessagesKept, Timed, Requests
<1> QED  BY <1>2, <1>3, <1>4 DEF QueueInv

(* A call of the application that is not about an item starts or returns.   *)
LEMMA OtherCalls ==
  ASSUME Inv, UNCHANGED <<q, req, next_id>>,
         pc.op \notin {"input_cb", "tick_cb"}, pc'.op \notin {"input_cb", "tick_cb"},
         heap' = Cardinality(Used(q)) + (IF pc'.op \in {"obs_cb", "req_cb"} THEN 1 ELSE 0)
  PROVE  QueueInv'
<1>1. \A s : ~InCallback(s)' /\ ~InCallback(s)
  BY DEF InCallback
<1>2. IdsNotZero' /\ Counted'
  BY DEF Inv, QueueInv, IdsNotZero, Counted, Requests
<1>3. SlotsOwned'
  BY <1>1 DEF Inv, QueueInv, SlotsOwned, Requests
<1>4. MessagesKept' /\ Timed'
  BY DEF Inv, QueueInv, MessagesKept, Timed, Requests
<1> QED  BY <1>2, <1>3, <1>4 DEF QueueInv

(* The callback of an item returns, the item is taken out.                  *)
LEMMA ItemReturns ==
  ASSUME Inv, TypeOK', pc.op \in {"input_cb", "tick_cb"}, q' = coap_queue_remove(q, pc.slot),
         UNCHANGED <<req, next_id>>, pc'.op \in {"idle", "tick"},
         heap' = heap - (IF pc.op = "input_cb" THEN 2 ELSE 1)
  PROVE  QueueInv'
<1> DEFINE x == pc.slot
<1>1. x \in Used(q) /\ q.count = Cardinality(Used(q)) /\ q \in Queue
  BY RequestsAre DEF Inv, TablesInv, QueueInv, SlotsOwned, Counted
<1>2. /\ q'.slot[x] = NoItem /\ \A s \in Slots : s # x => q'.slot[s] = q.slot[s]
      /\ Used(q') = Used(q) \ {x}
      /\ q'.count = q.count - 1
      /\ Cardinality(Used(q')) = Cardinality(Used(q)) - 1
  BY <1>1, RemoveEffect
<1>3. \A s \in Used(q) : InCallback(s) <=> s = x
  BY DEF InCallback
<1>4. \A s : ~InCallback(s)'
  BY DEF InCallback
<1>5. Used(q) \subseteq Slots /\ Cardinality(Used(q)) \in Nat
  BY SlotsFinite
<1> HIDE DEF x
<1>6. IdsNotZero'
  BY <1>2 DEF Inv, QueueInv, IdsNotZero, Requests
<1>7. SlotsOwned'
  BY <1>2, <1>3, <1>4, <1>5 DEF Inv, QueueInv, SlotsOwned, Requests
<1>8. MessagesKept'
  <2>1. req[q.slot[x].m].st = "done"
    BY <1>1, <1>3 DEF Inv, QueueInv, SlotsOwned
  <2> QED  BY <1>2, <1>5, <2>1 DEF Inv, QueueInv, MessagesKept, Requests
<1>9. Counted'
  BY <1>1, <1>2, <1>5 DEF Inv, QueueInv, Counted
<1>10. Timed'
  BY <1>2, <1>5 DEF Inv, QueueInv, Timed
<1> QED  BY <1>6, <1>7, <1>8, <1>9, <1>10 DEF QueueInv

(* The steps that return from a callback, start a tick or take a request.   *)
LEMMA ReturnsQueue ==
  ASSUME Inv, TypeOK', Returns
  PROVE  QueueInv'
<1>0. /\ heap = Cardinality(Used(q)) + (IF pc.op \in {"input_cb", "obs_cb", "req_cb"} THEN 1 ELSE 0)
      /\ pc \in [op : Callbacks \cup {"idle", "tick"}, slot : 0 .. QueueSize]
      /\ Cardinality(Used(q)) \in Nat
  BY SlotsFinite DEF Inv, TablesInv, TypeOK, QueueInv, Counted
<1>1. CASE AnswerReturns
  BY <1>1, ItemReturns DEF AnswerReturns, Idle
<1>2. CASE TimeoutReturns
  <2>1. pc'.op = "tick"
    BY <1>0, <1>2 DEF TimeoutReturns
  <2> QED  BY <1>2, <2>1, ItemReturns DEF TimeoutReturns
<1>3. CASE NotificationReturns
  BY <1>0, <1>3, OtherCalls DEF NotificationReturns, Idle
<1>4. CASE TickStart
  BY <1>0, <1>4, OtherCalls DEF TickStart
<1>5. CASE RequestReturns
  BY <1>0, <1>5, OtherCalls DEF RequestReturns, Idle
<1>6. ASSUME NEW path \in Paths, NEW code \in {"GET", "PUT"}, Request(path, code)
      PROVE  QueueInv'
  <2>1. /\ UNCHANGED <<q, req, next_id>> /\ pc.op = "idle"
        /\ \/ UNCHANGED <<heap, pc>>
           \/ pc' = [op |-> "req_cb", slot |-> 0] /\ heap' = heap + 1
    BY <1>6, Zenon DEF Request, send_error_response
  <2> QED  BY <1>0, <2>1, OtherCalls
<1> QED  BY <1>1, <1>2, <1>3, <1>4, <1>5, <1>6 DEF Returns

(* A message is sent, and kept when it waits for an answer.                 *)
LEMMA TransmitQueue ==
  ASSUME IdsDoNotWrap, Inv, TypeOK', NEW kind \in Kinds, NEW tok \in Nat, NEW fd \in Nat,
         NEW out \in Outcomes, Transmit(kind, tok, fd, out)
  PROVE  QueueInv'
<1> DEFINE n == Len(req) + 1
           r == [kind |-> kind, tok |-> tok, mid |-> next_id % IdSpace, fd |-> fd,
                 sent |-> out = "ok" /\ coap_transport_write(tr, fd),
                 st |-> "gone", calls |-> 0, age |-> 0]
           kept == r.sent /\ Kept(kind) /\ CanAdd(q)
           e == IF kept THEN [r EXCEPT !.st = "queued"] ELSE r
           it == NewItem(r, n)
<1>1. /\ AppRuns /\ Len(req) < (IF role = "client" THEN MaxMsgs ELSE OtherMsgs)
      /\ next_id' = IF out = "nomsg" THEN next_id ELSE next_id + 1
      /\ req' = Append(req, e)
      /\ q' = IF kept THEN coap_queue_add(q, it) ELSE q
      /\ heap' = heap + (IF kept THEN 1 ELSE 0)
      /\ UNCHANGED pc
  BY Zenon DEF Transmit
<1>2. /\ Requests = 1 .. Len(req) /\ Len(req) \in Nat /\ \A m \in Requests : req[m] \in Req
      /\ q \in Queue /\ \A s \in Slots : q.slot[s] \in Item /\ req \in Seq(Req)
      /\ next_id \in 1 .. n
  BY RequestsAre DEF Inv, TablesInv, QueueInv, IdsNotZero, TypeOK
<1>3. next_id % IdSpace = next_id
  <2>1. Len(req) < MaxMsgs \/ Len(req) < OtherMsgs
    BY <1>1
  <2>2. next_id \in 0 .. IdSpace - 1
    BY <1>2, <2>1, CoapAssumption DEF IdsDoNotWrap
  <2>3. \A x \in 0 .. IdSpace - 1 : x % IdSpace = x
    BY CoapAssumption
  <2> QED  BY <2>2, <2>3
<1>4. e \in Req /\ e.mid = next_id /\ e.calls = 0 /\ e.age = 0 /\ e.kind = kind
      /\ e.st = (IF kept THEN "queued" ELSE "gone")
  <2>1. next_id \in Nat /\ (out = "ok" /\ coap_transport_write(tr, fd)) \in BOOLEAN
    BY <1>2
  <2>2. r \in Req /\ r.mid = next_id
    BY <1>3, <2>1 DEF Req
  <2>3. /\ r.calls = 0 /\ r.age = 0 /\ r.kind = kind /\ r.st = "gone"
    OBVIOUS
  <2> HIDE DEF r, kept
  <2>4. [r EXCEPT !.st = "queued"] \in Req
    BY <2>2 DEF Req, Kinds
  <2>5. LET r2 == [r EXCEPT !.st = "queued"]
        IN  r2.mid = r.mid /\ r2.calls = r.calls /\ r2.age = r.age /\ r2.kind = r.kind
            /\ r2.st = "queued"
    BY <2>2 DEF Req
  <2> QED  BY <2>2, <2>3, <2>4, <2>5
<1>5. it \in Item /\ it.m = n /\ it.mid = next_id /\ it.buffer
      /\ (e.st = "queued" => OnTime(it, e))
  <2>1. /\ it.m = n /\ it.mid = next_id /\ it.buffer /\ it.tok = tok
        /\ it.timeout_val = AckTimeout
        /\ it.timeout = (IF IsCon(kind) THEN AckTimeout ELSE MaxSpan)
        /\ it.retrans_count = (IF IsCon(kind) THEN 0 ELSE MaxRetransmit)
    BY <1>3 DEF NewItem
  <2>2. it \in Item
    BY <1>2, <1>3, CoapAssumption DEF NewItem, Item
  <2>3. OnTime(it, e)
    <3>1. Wait(0) = AckTimeout
      BY WaitsDouble
    <3> HIDE DEF it, e
    <3> QED  BY <1>4, <2>1, <3>1, CoapAssumption DEF OnTime, Timeouts
  <2> QED  BY <2>1, <2>2, <2>3
<1> HIDE DEF r, e, it, kept
<1>6. /\ Len(req') = n /\ Requests' = 1 .. n
      /\ req'[n] = e /\ \A m \in Requests : req'[m] = req[m]
  BY <1>1, <1>2, <1>4, AppendProperties DEF Requests
<1>7. pc.op \notin {"tick"} /\ \A s : InCallback(s)' <=> InCallback(s)
  BY <1>1 DEF InCallback, AppRuns, Callbacks
<1>8. Used(q) \subseteq Slots /\ Cardinality(Used(q)) \in Nat
  BY SlotsFinite
<1>9. CASE ~kept
  <2>1. UNCHANGED <<q, heap, pc>> /\ e.st = "gone"
    BY <1>1, <1>4, <1>9, <1>8 DEF Inv, QueueInv, Counted
  <2>2. IdsNotZero'
    BY <1>1, <1>2, <1>4, <1>6, <2>1 DEF Inv, QueueInv, IdsNotZero
  <2>3. SlotsOwned'
    BY <1>2, <1>6, <1>7, <2>1 DEF Inv, QueueInv, SlotsOwned
  <2>4. MessagesKept'
    BY <1>2, <1>4, <1>6, <2>1 DEF Inv, QueueInv, MessagesKept
  <2>5. Counted'
    BY <2>1 DEF Inv, QueueInv, Counted
  <2>6. Timed'
    BY <1>2, <1>6, <2>1 DEF Inv, QueueInv, Timed, SlotsOwned
  <2> QED  BY <2>2, <2>3, <2>4, <2>5, <2>6 DEF QueueInv
<1>10. CASE kept
  <2>1. q' = coap_queue_add(q, it) /\ CanAdd(q) /\ q.count = Cardinality(Used(q))
    BY <1>1, <1>10 DEF kept, Inv, QueueInv, Counted
  <2>2. PICK f \in Slots \ Used(q) :
          /\ q'.slot[f] = it /\ \A s \in Slots : s # f => q'.slot[s] = q.slot[s]
          /\ Used(q') = Used(q) \cup {f}
          /\ q'.count = q.count + 1
          /\ Cardinality(Used(q')) = Cardinality(Used(q)) + 1
    BY <1>2, <1>5, <2>1, AddEffect
  <2>3. ~InCallback(f) /\ e.st = "queued"
    BY <1>4, <1>10, <2>2 DEF InCallback, Inv, QueueInv, SlotsOwned
  <2>4. IdsNotZero'
    BY <1>1, <1>2, <1>4, <1>5, <1>6, <2>2 DEF Inv, QueueInv, IdsNotZero
  <2>0. /\ \A t \in Used(q') : t = f \/ (t \in Used(q) /\ t # f)
        /\ f \in Used(q') /\ q'.slot[f].m = n
        /\ \A t \in Used(q) : /\ t \in Used(q') /\ q'.slot[t] = q.slot[t]
                              /\ q'.slot[t].m \in Requests /\ q'.slot[t].m # n
    <3>1. \A t \in Used(q) : q.slot[t].m \in Requests
      BY DEF Inv, QueueInv, SlotsOwned
    <3> QED  BY <1>2, <1>5, <1>8, <2>2, <3>1
  <2>5. SlotsOwned'
    <3>1. ASSUME NEW t \in Used(q')
          PROVE  /\ q'.slot[t].m \in Requests'
                 /\ req'[q'.slot[t].m].st = (IF InCallback(t)' THEN "done" ELSE "queued")
      <4>1. CASE t = f
        BY <1>2, <1>6, <1>7, <2>3, <2>0, <4>1
      <4>2. CASE t \in Used(q)
        <5>1. req[q.slot[t].m].st = (IF InCallback(t) THEN "done" ELSE "queued")
          BY <4>2 DEF Inv, QueueInv, SlotsOwned
        <5> QED  BY <1>2, <1>6, <1>7, <2>0, <4>2, <5>1, SMTT(30)
      <4> QED  BY <2>0, <4>1, <4>2
    <3>2. ASSUME NEW t \in Used(q'), NEW t2 \in Used(q'), q'.slot[t].m = q'.slot[t2].m
          PROVE  t = t2
      <4>1. \A x, y \in Used(q) : q.slot[x].m = q.slot[y].m => x = y
        BY DEF Inv, QueueInv, SlotsOwned
      <4> QED  BY <2>0, <3>2, <4>1
    <3>3. pc'.op \in {"input_cb", "tick_cb"} => pc'.slot \in Used(q')
      BY <1>1, <2>0 DEF Inv, QueueInv, SlotsOwned
    <3> QED  BY <3>1, <3>2, <3>3 DEF SlotsOwned
  <2>6. MessagesKept'
    <3>1. ASSUME NEW m \in Requests'
          PROVE  /\ req'[m].st = "queued" => \E t \in Used(q') : q'.slot[t].m = m
                 /\ req'[m].calls = (IF req'[m].st = "done" THEN 1 ELSE 0)
      <4>1. CASE m = n
        BY <1>4, <1>6, <2>3, <2>0, <4>1
      <4>2. CASE m \in Requests
        <5>1. /\ req[m].st = "queued" => \E t \in Used(q) : q.slot[t].m = m
              /\ req[m].calls = (IF req[m].st = "done" THEN 1 ELSE 0)
          BY <4>2 DEF Inv, QueueInv, MessagesKept
        <5> QED  BY <1>6, <2>0, <4>2, <5>1
      <4> QED  BY <1>2, <1>6, <4>1, <4>2
    <3> QED  BY <3>1 DEF MessagesKept
  <2>7. Counted'
    BY <1>1, <1>8, <1>10, <2>1, <2>2 DEF Inv, QueueInv, Counted
  <2>8. Timed'
    <3>1. ASSUME NEW t \in Used(q'), req'[q'.slot[t].m].st = "queued"
          PROVE  OnTime(q'.slot[t], req'[q'.slot[t].m])
      <4>1. CASE t = f
        BY <1>5, <1>6, <2>2, <2>3, <2>0, <4>1
      <4>2. CASE t \in Used(q)
        <5>1. req[q.slot[t].m].st = "queued" => OnTime(q.slot[t], req[q.slot[t].m])
          BY <4>2 DEF Inv, QueueInv, Timed
        <5>2. req'[q'.slot[t].m] = req[q.slot[t].m] /\ q'.slot[t] = q.slot[t]
          BY <1>6, <2>0, <4>2
        <5> QED  BY <3>1, <5>1, <5>2
      <4> QED  BY <2>0, <4>1, <4>2
    <3> QED  BY <3>1 DEF Timed
  <2> QED  BY <2>4, <2>5, <2>6, <2>7, <2>8 DEF QueueInv
<1> QED  BY <1>9, <1>10

(* A tick keeps the message on time, unless it gives it up.                 *)
LEMMA TickOnTime ==
  ASSUME NEW it \in Item, NEW r \in Req, NEW b \in BOOLEAN, OnTime(it, r), ~Expired(it)
  PROVE  OnTime(Ticked(it), Aged(r, b))
<1> DEFINE u == Ticked(it)
           a == Aged(r, b)
           k == it.retrans_count
<1>1. /\ it.timeout \in Nat /\ it.timeout_val \in Nat /\ k \in Nat /\ r.age \in Nat
      /\ MaxRetransmit \in Nat /\ AckTimeout \in Nat /\ MaxSpan \in Nat
  BY CoapAssumption DEF Item, Req
<1>2. a \in Req /\ a.kind = r.kind /\ a.age <= r.age + 1
  BY AgedType
<1>3. a.age \in Nat
  BY <1>2 DEF Req
<1>4. CASE it.timeout > 0
  <2>1. u.timeout = it.timeout - 1 /\ u.timeout_val = it.timeout_val /\ u.retrans_count = k
    BY <1>4, TickedType
  <2> HIDE DEF u, a
  <2>2. CASE IsCon(r.kind)
    <3>1. /\ k < Timeouts /\ it.timeout_val = Wait(k)
          /\ r.age + it.timeout + AckTimeout <= 2 * it.timeout_val + k
      BY <2>2 DEF OnTime
    <3>2. a.age + u.timeout + AckTimeout <= 2 * u.timeout_val + u.retrans_count
      BY <1>1, <1>2, <1>3, <2>1, <3>1
    <3> QED  BY <1>2, <2>1, <2>2, <3>1, <3>2 DEF OnTime, u, a
  <2>3. CASE ~IsCon(r.kind)
    <3>1. k = MaxRetransmit /\ r.age + it.timeout <= MaxSpan
      BY <2>3 DEF OnTime
    <3>2. a.age + u.timeout <= MaxSpan
      BY <1>1, <1>2, <1>3, <2>1, <3>1
    <3> QED  BY <1>2, <2>1, <2>3, <3>1, <3>2 DEF OnTime, u, a
  <2> QED  BY <2>2, <2>3
<1>5. CASE it.timeout = 0
  <2>1. u.retrans_count < MaxRetransmit /\ u \in Item
    <3>1. u \in Item
      BY TickedType
    <3>2. u.retrans_count \in Nat
      BY <3>1 DEF Item
    <3> QED  BY <1>1, <1>5, <3>1, <3>2 DEF Expired
  <2>2. k < MaxRetransmit
    <3>1. k >= MaxRetransmit => u = it
      BY <1>1, <1>5, TickedType
    <3> QED  BY <1>1, <2>1, <3>1
  <2>3. /\ u.timeout = it.timeout_val * 2 /\ u.timeout_val = it.timeout_val * 2
        /\ u.retrans_count = k + 1
    BY <1>5, <2>2, TickedType
  <2>4. IsCon(r.kind)
    BY <1>1, <2>2 DEF OnTime
  <2>5. /\ it.timeout_val = Wait(k)
        /\ r.age + it.timeout + AckTimeout <= 2 * it.timeout_val + k
    BY <2>4 DEF OnTime
  <2>6. Wait(k + 1) = 2 * Wait(k) /\ Wait(k) \in Nat
    BY <1>1, WaitsDouble
  <2> HIDE DEF u, a, k
  <2>7. u.timeout_val = Wait(u.retrans_count) /\ u.retrans_count < Timeouts
    BY <1>1, <2>1, <2>3, <2>5, <2>6 DEF Timeouts
  <2>8. a.age + u.timeout + AckTimeout <= 2 * u.timeout_val + u.retrans_count
    BY <1>1, <1>2, <1>3, <1>5, <2>3, <2>5
  <2> QED  BY <1>2, <2>4, <2>7, <2>8 DEF OnTime, u, a
<1> QED  BY <1>1, <1>4, <1>5

(* A message that is on time has its outcome within the limit.              *)
LEMMA OnTimeInLimit ==
  ASSUME NEW it \in Item, NEW r \in Req, OnTime(it, r)
  PROVE  r.age < AgeLimit(r.kind)
<1> DEFINE k == it.retrans_count
           T == Timeouts
<1>1. /\ it.timeout \in Nat /\ it.timeout_val \in Nat /\ k \in Nat /\ r.age \in Nat
      /\ T \in Nat /\ AckTimeout \in Nat /\ MaxSpan \in Nat
  BY CoapAssumption DEF Item, Req, Timeouts
<1>2. CASE IsCon(r.kind)
  <2>1. /\ k < T /\ it.timeout_val = Wait(k)
        /\ r.age + it.timeout + AckTimeout <= 2 * it.timeout_val + k
    BY <1>2 DEF OnTime
  <2> HIDE DEF k, T
  <2>2. Wait(k + 1) = 2 * Wait(k) /\ Wait(k) \in Nat
    BY <1>1, WaitsDouble
  <2>3. Wait(k + 1) <= Wait(T) /\ Wait(T) \in Nat
    <3>1. k + 1 \in Nat /\ k + 1 <= T
      BY <1>1, <2>1
    <3> QED  BY <1>1, <3>1, WaitsDouble
  <2>4. AgeLimit(r.kind) = Wait(T) - AckTimeout + T
    <3>1. 2 ^ T \in Nat
      BY <1>1, PowerIsSubsets
    <3>2. \A x, y \in Nat : x * (y - 1) = x * y - x
      OBVIOUS
    <3>3. AckTimeout * (2 ^ T - 1) = AckTimeout * 2 ^ T - AckTimeout
      BY <1>1, <3>1, <3>2
    <3> QED  BY <1>2, <3>3 DEF AgeLimit, Wait, T
  <2> QED  BY <1>1, <2>1, <2>2, <2>3, <2>4
<1>3. CASE ~IsCon(r.kind)
  <2>1. r.age + it.timeout <= MaxSpan /\ AgeLimit(r.kind) = MaxSpan + 1
    BY <1>3 DEF OnTime, AgeLimit
  <2> QED  BY <1>1, <2>1
<1> QED  BY <1>2, <1>3

(* The message of a slot that does not run a callback waits.                *)
LEMMA Waiting ==
  ASSUME Inv, NEW s \in Used(q), pc.op \notin {"input_cb", "tick_cb"}
  PROVE  /\ q.slot[s].m \in Requests /\ req[q.slot[s].m].st = "queued"
         /\ req[q.slot[s].m].calls = 0
         /\ OnTime(q.slot[s], req[q.slot[s].m])
         /\ \A t \in Used(q) : q.slot[t].m = q.slot[s].m => t = s
<1>1. ~InCallback(s)
  BY DEF InCallback
<1>2. q.slot[s].m \in Requests /\ req[q.slot[s].m].st = "queued"
  BY <1>1 DEF Inv, QueueInv, SlotsOwned
<1>3. req[q.slot[s].m].calls = 0
  BY <1>2 DEF Inv, QueueInv, MessagesKept
<1> QED  BY <1>2, <1>3 DEF Inv, QueueInv, SlotsOwned, Timed

(* The message of a slot is told its outcome: its callback starts.          *)
LEMMA CallbackStarts ==
  ASSUME Inv, pc.op \in {"idle", "tick"}, NEW s \in Used(q), NEW e \in Item, NEW r \in Req,
         e.buffer, e.m = q.slot[s].m, r.st = "queued", r.calls = 0,
         r.mid # 0,
         q' = [q EXCEPT !.slot[s] = e], next_id' = next_id,
         Len(req') = Len(req),
         TypeOK',
         \A m \in Requests : req'[m] = IF m = e.m THEN Concluded(r) ELSE req[m],
         pc' = [op |-> IF pc.op = "idle" THEN "input_cb" ELSE "tick_cb", slot |-> s],
         heap' = heap + (IF pc.op = "idle" THEN 1 ELSE 0)
  PROVE  QueueInv'
<1>1. /\ Requests = 1 .. Len(req) /\ Requests' = 1 .. Len(req)
      /\ q \in Queue /\ Used(q) \subseteq Slots /\ Cardinality(Used(q)) \in Nat
  BY RequestsAre, SlotsFinite DEF Inv, TablesInv, TypeOK, Requests
<1>2. /\ q'.count = q.count /\ q'.slot[s] = e
      /\ \A t \in Slots : t # s => q'.slot[t] = q.slot[t]
  BY <1>1 DEF Queue
<1>3. Used(q') = Used(q)
  BY <1>1, <1>2 DEF Used
<1>4. /\ \A t \in Used(q) : /\ q.slot[t].m \in Requests /\ req[q.slot[t].m].st = "queued"
                            /\ q'.slot[t].m = q.slot[t].m
                            /\ q.slot[t].m = e.m => t = s
      /\ e.m \in Requests
  BY <1>1, <1>2, Waiting
<1>5. /\ Concluded(r).st = "done" /\ Concluded(r).calls = 1 /\ Concluded(r).mid = r.mid
      /\ Concluded(r).sent = r.sent
  BY ConcludedType
<1>6. \A t : InCallback(t)' <=> t = s
  BY DEF InCallback
<1>7. IdsNotZero'
  BY <1>1, <1>2, <1>5 DEF Inv, QueueInv, IdsNotZero, Used
<1>8. SlotsOwned'
  <2>1. \A t \in Used(q') :
          /\ q'.slot[t].m \in Requests'
          /\ req'[q'.slot[t].m].st = (IF InCallback(t)' THEN "done" ELSE "queued")
    BY <1>1, <1>3, <1>4, <1>5, <1>6
  <2>2. \A t, t2 \in Used(q') : q'.slot[t].m = q'.slot[t2].m => t = t2
    BY <1>3, <1>4 DEF Inv, QueueInv, SlotsOwned
  <2> QED  BY <1>3, <2>1, <2>2 DEF SlotsOwned
<1>9. MessagesKept'
  <2>1. ASSUME NEW m \in Requests
        PROVE  /\ req'[m].st = "queued" => \E t \in Used(q') : q'.slot[t].m = m
               /\ req'[m].calls = (IF req'[m].st = "done" THEN 1 ELSE 0)
    <3>1. CASE m = e.m
      BY <1>4, <1>5, <3>1
    <3>2. CASE m # e.m
      <4>1. req'[m] = req[m]
        BY <3>2
      <4> QED  BY <1>3, <1>4, <4>1 DEF Inv, QueueInv, MessagesKept
    <3> QED  BY <3>1, <3>2
  <2> QED  BY <1>1, <2>1 DEF MessagesKept
<1>10. Counted'
  BY <1>1, <1>2, <1>3 DEF Inv, QueueInv, Counted
<1>11. Timed'
  <2>1. ASSUME NEW t \in Used(q), req'[q'.slot[t].m].st = "queued"
        PROVE  OnTime(q'.slot[t], req'[q'.slot[t].m])
    <3>1. t # s /\ q'.slot[t] = q.slot[t] /\ req'[q.slot[t].m] = req[q.slot[t].m]
      BY <1>1, <1>2, <1>4, <1>5, <2>1
    <3> QED  BY <2>1, <3>1 DEF Inv, QueueInv, Timed
  <2> QED  BY <1>3, <2>1 DEF Timed
<1> QED  BY <1>7, <1>8, <1>9, <1>10, <1>11 DEF QueueInv

(* An answer finds the item it is about, or none.                           *)
LEMMA ReadQueue ==
  ASSUME Inv, TypeOK', coap_transport_read
  PROVE  QueueInv'
<1>1. PICK m \in Requests : \E d \in Answers(m) :
        req[m].sent /\ IF IsEmpty(d) THEN AckOrReset(d) ELSE Response(d)
  BY DEF coap_transport_read
<1>2. PICK d \in Answers(m) : IF IsEmpty(d) THEN AckOrReset(d) ELSE Response(d)
  BY <1>1
<1>3. /\ q \in Queue /\ \A x \in Slots : q.slot[x] \in Item
      /\ Requests = 1 .. Len(req) /\ \A x \in Requests : req[x] \in Req
      /\ Slots \subseteq Nat \ {0} /\ heap \in Int
      /\ heap = Cardinality(Used(q)) + (IF pc.op \in {"input_cb", "obs_cb", "req_cb"} THEN 1 ELSE 0)
      /\ Cardinality(Used(q)) \in Nat
  BY RequestsAre, SlotsFinite DEF Inv, TablesInv, TypeOK, QueueInv, Counted
<1>4. pc.op = "idle" /\ next_id' = next_id
  BY DEF coap_transport_read
<1>5. d.mid # 0
  <2>1. req[m].mid # 0
    BY <1>1 DEF Inv, QueueInv, IdsNotZero
  <2> QED  BY <2>1 DEF Answers
<1>6. ASSUME NEW s \in Used(q), q' = q, req' = Called(s), heap' = heap + 1,
             pc' = [op |-> "input_cb", slot |-> s]
      PROVE  QueueInv'
  <2> DEFINE e == q.slot[s]
             r == req[e.m]
  <2>1. /\ e \in Item /\ e.buffer /\ e.m \in Requests /\ r \in Req
        /\ r.st = "queued" /\ r.calls = 0
    BY <1>3, <1>4, Waiting DEF Used
  <2>2. r.mid # 0
    BY <2>1 DEF Inv, QueueInv, IdsNotZero
  <2>3. /\ Len(req') = Len(req)
        /\ \A x \in Requests : req'[x] = IF x = e.m THEN Concluded(req[x]) ELSE req[x]
    BY <1>6, CalledEffect DEF Inv, TablesInv
  <2>4. \A x \in Requests : req'[x] = IF x = e.m THEN Concluded(r) ELSE req[x]
    BY <2>3
  <2>5. q' = [q EXCEPT !.slot[s] = e]
    BY <1>3, <1>6 DEF Queue
  <2>6. /\ e.m = q.slot[s].m
        /\ pc' = [op |-> IF pc.op = "idle" THEN "input_cb" ELSE "tick_cb", slot |-> s]
        /\ heap' = heap + (IF pc.op = "idle" THEN 1 ELSE 0) /\ pc.op \in {"idle", "tick"}
    BY <1>4, <1>6
  <2> HIDE DEF e, r
  <2> QED  BY <1>4, <2>1, <2>2, <2>3, <2>4, <2>5, <2>6, CallbackStarts
<1>7. CASE AckOrReset(d)
  <2> DEFINE s == coap_queue_item_by_mid_get(q, d.mid)
  <2>1. CASE s = 0
    <3>1. UNCHANGED QueueVars
      BY <1>4, <1>7, <2>1 DEF AckOrReset, QueueVars
    <3> QED  BY <3>1, SameQueue
  <2>2. CASE s # 0
    <3>1. s \in {t \in Slots : q.slot[t].mid = d.mid}
      BY <1>3, <2>2, FirstFits DEF coap_queue_item_by_mid_get
    <3> HIDE DEF s
    <3>2. q.slot[s].buffer /\ s \in Used(q)
      <4>1. q.slot[s] # NoItem
        BY <1>5, <3>1 DEF NoItem
      <4> QED  BY <3>1, <4>1 DEF Used, Inv, QueueInv, IdsNotZero
    <3>3. q' = q /\ req' = Called(s) /\ heap' = heap + 1 /\ pc' = [op |-> "input_cb", slot |-> s]
      BY <1>7, <2>2, <3>2 DEF AckOrReset, s
    <3> QED  BY <1>6, <3>2, <3>3
  <2> QED  BY <2>1, <2>2
<1>8. CASE Response(d)
  <2> DEFINE s == coap_queue_item_by_token_get(q, d.tok)
             N == Notifies(obs, d, FALSE)
  <2>1. \/ /\ s = 0 /\ UNCHANGED <<req, q>>
           /\ pc' = IF N THEN [op |-> "obs_cb", slot |-> 0] ELSE pc
           /\ heap' = heap + (IF N THEN 1 ELSE 0)
        \/ /\ s # 0 /\ q' = q /\ req' = Called(s) /\ heap' = heap + 1
           /\ pc' = [op |-> "input_cb", slot |-> s]
    BY <1>8, Zenon DEF Response
  <2>2. CASE s = 0
    <3> HIDE DEF s, N
    <3>1. UNCHANGED <<q, req, next_id>> /\ pc'.op \notin {"input_cb", "tick_cb"}
          /\ heap' = Cardinality(Used(q)) + (IF pc'.op \in {"obs_cb", "req_cb"} THEN 1 ELSE 0)
      BY <1>3, <1>4, <2>1, <2>2
    <3> QED  BY <1>4, <3>1, OtherCalls
  <2>3. CASE s # 0
    <3>1. s \in {t \in Slots : d.tok # 0 /\ q.slot[t].tok = d.tok}
      BY <1>3, <2>3, FirstFits DEF coap_queue_item_by_token_get
    <3> HIDE DEF s
    <3>2. s \in Used(q)
      <4>1. q.slot[s] # NoItem
        BY <3>1 DEF NoItem
      <4> QED  BY <3>1, <4>1 DEF Used, Inv, QueueInv, IdsNotZero
    <3> QED  BY <1>6, <2>1, <2>3, <3>2
  <2> QED  BY <2>2, <2>3
<1> QED  BY <1>2, <1>7, <1>8

(* A round of the tick.                                                     *)
LEMMA TickQueue ==
  ASSUME Inv, TypeOK', coap_time_tick
  PROVE  QueueInv'
<1> DEFINE s  == coap_queue_item_next_get(q, pc.slot)
           it == q.slot[s]
<1>0. TypeOK
  BY DEF Inv, TablesInv
<1>1. pc.op = "tick" /\ UNCHANGED <<heap, next_id>>
  BY <1>0, TickEffect
<1>2. CASE s = 0
  <2>1. pc' = Idle /\ UNCHANGED <<q, req>>
    BY <1>0, <1>2, TickEffect
  <2>2. heap = Cardinality(Used(q)) /\ Cardinality(Used(q)) \in Nat
    BY <1>1, SlotsFinite DEF Inv, QueueInv, Counted
  <2> QED  BY <1>1, <2>1, <2>2, OtherCalls DEF Idle
<1>3. CASE s # 0
  <2>1. /\ s \in Used(q) /\ it \in Item
        /\ q' = [q EXCEPT !.slot[s] = Ticked(it)]
        /\ pc' = [op |-> IF Expired(it) THEN "tick_cb" ELSE "tick", slot |-> s]
        /\ Len(req') = Len(req)
        /\ \A m \in Requests : m # it.m => req'[m] = req[m]
        /\ it.m \in Requests =>
             \E b \in BOOLEAN :
               req'[it.m] = IF Expired(it) THEN Concluded(Aged(req[it.m], b))
                                           ELSE Aged(req[it.m], b)
    BY <1>0, <1>3, TickEffect
  <2> HIDE DEF s
  <2>2. /\ it.m \in Requests /\ req[it.m].st = "queued" /\ req[it.m].calls = 0
        /\ OnTime(it, req[it.m]) /\ it.buffer
        /\ \A t \in Used(q) : q.slot[t].m = it.m => t = s
    BY <1>1, <2>1, Waiting DEF Used
  <2>3. PICK b \in BOOLEAN :
          req'[it.m] = IF Expired(it) THEN Concluded(Aged(req[it.m], b))
                                      ELSE Aged(req[it.m], b)
    BY <2>1, <2>2
  <2> DEFINE e == Ticked(it)
             r == Aged(req[it.m], b)
  <2>4. /\ Requests = 1 .. Len(req) /\ Requests' = 1 .. Len(req)
        /\ q \in Queue /\ req[it.m] \in Req
        /\ Used(q) \subseteq Slots /\ Cardinality(Used(q)) \in Nat
    BY <1>0, <2>1, <2>2, RequestsAre, SlotsFinite DEF TypeOK, Requests
  <2> HIDE DEF it
  <2>5. /\ r \in Req /\ r.st = "queued" /\ r.calls = 0 /\ r.mid = req[it.m].mid
    BY <2>2, <2>3, <2>4, AgedType
  <2>6. e \in Item /\ e.buffer /\ e.m = it.m /\ e.mid = it.mid /\ e.tok = it.tok
    BY <2>1, <2>2, TickedType
  <2>7. r.mid # 0
    BY <2>2, <2>5 DEF Inv, QueueInv, IdsNotZero
  <2>8. /\ Wait(0) = AckTimeout /\ it = q.slot[s]
        /\ ~InCallback(s) /\ heap \in Int
    BY <1>0, <1>1, WaitsDouble DEF InCallback, it, TypeOK
  <2> HIDE DEF e, r
  <2>9. CASE Expired(it)
    <3>1. \A m \in Requests : req'[m] = IF m = e.m THEN Concluded(r) ELSE req[m]
      BY <2>1, <2>3, <2>6, <2>9 DEF r
    <3>2. /\ pc' = [op |-> IF pc.op = "idle" THEN "input_cb" ELSE "tick_cb", slot |-> s]
          /\ heap' = heap + (IF pc.op = "idle" THEN 1 ELSE 0) /\ pc.op \in {"idle", "tick"}
          /\ q' = [q EXCEPT !.slot[s] = e] /\ e.m = q.slot[s].m
      BY <1>1, <2>1, <2>6, <2>8, <2>9 DEF e
    <3> QED  BY <1>1, <2>1, <2>5, <2>6, <2>7, <3>1, <3>2, CallbackStarts
  <2>10. CASE ~Expired(it)
    <3>1. /\ req'[it.m] = r /\ \A m \in Requests : m # it.m => req'[m] = req[m]
          /\ pc'.op = "tick"
      BY <2>1, <2>3, <2>10 DEF r
    <3>2. /\ q'.count = q.count /\ q'.slot[s] = e
          /\ \A t \in Slots : t # s => q'.slot[t] = q.slot[t]
      BY <2>1, <2>4 DEF Queue, e
    <3>3. Used(q') = Used(q)
      BY <2>1, <2>4, <2>6, <3>2 DEF Used
    <3>4. \A t : ~InCallback(t)' /\ ~InCallback(t)
      BY <1>1, <3>1 DEF InCallback
    <3>5. \A t \in Used(q) : q'.slot[t].m = q.slot[t].m /\ q.slot[t].m \in Requests
      BY <2>2, <2>4, <2>6, <2>8, <3>2 DEF Inv, QueueInv, SlotsOwned
    <3>6. \A m \in Requests : req'[m].st = req[m].st /\ req'[m].calls = req[m].calls
      BY <2>2, <2>5, <3>1
    <3>7. IdsNotZero'
      <4>1. \A m \in Requests' : req'[m].mid # 0
        BY <2>4, <2>7, <3>1 DEF Inv, QueueInv, IdsNotZero
      <4>2. \A t \in Slots : ~q'.slot[t].buffer => q'.slot[t] = NoItem
        BY <2>6, <3>2 DEF Inv, QueueInv, IdsNotZero
      <4> QED  BY <1>1, <2>1, <4>1, <4>2 DEF Inv, QueueInv, IdsNotZero
    <3>8. SlotsOwned'
      BY <2>4, <3>1, <3>3, <3>4, <3>5, <3>6 DEF Inv, QueueInv, SlotsOwned
    <3>9. MessagesKept'
      BY <2>4, <3>3, <3>5, <3>6 DEF Inv, QueueInv, MessagesKept
    <3>10. Counted'
      BY <1>1, <3>1, <3>2, <3>3 DEF Inv, QueueInv, Counted
    <3>11. Timed'
      <4>1. OnTime(e, r)
        BY <2>2, <2>4, <2>1, <2>10, TickOnTime DEF e, r
      <4>2. ASSUME NEW t \in Used(q), t # s
            PROVE  OnTime(q'.slot[t], req'[q'.slot[t].m])
        <5>1. q'.slot[t] = q.slot[t] /\ req'[q.slot[t].m] = req[q.slot[t].m]
          BY <2>2, <2>4, <3>1, <3>2, <3>5, <4>2
        <5> QED  BY <1>1, <5>1, Waiting
      <4> QED  BY <2>6, <3>1, <3>2, <3>3, <4>1, <4>2 DEF Timed
    <3> QED  BY <3>7, <3>8, <3>9, <3>10, <3>11 DEF QueueInv
  <2> QED  BY <2>9, <2>10
<1> QED  BY <1>2, <1>3

(* For every size of the tables: no token is observed twice, no remote      *)
(* observes a resource twice, and the sessions, their sockets and the       *)
(* sockets that are open agree (coap_observe.c, coap_transport_socket.c).   *)
THEOREM TablesAlwaysSound == Spec => []TablesSound
<1>1. Spec => []TablesInv
  BY InitTables, TablesInductive, PTL DEF Spec
<1>2. TablesInv => TablesSound
  BY DEF TablesInv
<1> QED  BY <1>1, <1>2, PTL

(* The state keeps its type, but for the message of the codec.              *)
THEOREM TypeCorrect == Spec => []TypeOK
<1>1. Spec => []TablesInv
  BY InitTables, TablesInductive, PTL DEF Spec
<1>2. TablesInv => TypeOK
  BY DEF TablesInv
<1> QED  BY <1>1, <1>2, PTL

LEMMA InitQueue ==
  ASSUME IdsDoNotWrap
  PROVE  Init => Inv
<1> SUFFICES ASSUME Init PROVE Inv
  OBVIOUS
<1>1. TablesInv /\ Used(q) = {} /\ q.count = 0 /\ heap = 0 /\ next_id = 1 /\ req = <<>>
      /\ pc = Idle /\ \A s \in Slots : q.slot[s] = NoItem
  BY InitTables DEF Init, coap_init, coap_queue_init, Used, NoItem
<1>2. Requests = {} /\ Len(req) = 0 /\ Cardinality(Used(q)) = 0
  BY <1>1, FS_EmptySet DEF Requests
<1>3. IdsNotZero /\ SlotsOwned /\ MessagesKept /\ Counted /\ Timed
  BY <1>1, <1>2 DEF IdsNotZero, SlotsOwned, MessagesKept, Counted, Timed, Idle
<1> QED  BY <1>1, <1>3 DEF Inv, QueueInv

(* Each step keeps the queue and what the messages are told.                *)
LEMMA QueueInductive ==
  ASSUME IdsDoNotWrap, Inv, [Next]_vars
  PROVE  Inv'
<1>1. TablesInv'
  BY TablesInductive DEF Inv
<1>2. TypeOK' /\ TypeOK
  BY <1>1 DEF Inv, TablesInv
<1>3. Sends \/ coap_transport_read \/ coap_time_tick \/ Returns \/ Registers \/ Secures \/ Encodes
  BY <1>2, NextSorted
<1>4. Sends => QueueInv'
  BY <1>2, TransmitQueue DEF Sends
<1>5. Registers \/ Secures \/ Encodes => QueueInv'
  <2>1. SUFFICES ASSUME Registers \/ Secures \/ Encodes PROVE UNCHANGED QueueVars
    BY SameQueue
  <2> QED  BY <2>1 DEF Registers, coap_observe_server_register, coap_observe_server_unregister,
                       Secures, Setup, Destroy, Encodes, QueueVars
<1>6. QueueInv'
  BY <1>2, <1>3, <1>4, <1>5, ReadQueue, TickQueue, ReturnsQueue
<1> QED  BY <1>1, <1>6 DEF Inv

LEMMA QueueFollows == Inv => QueueAccounted
<1> SUFFICES ASSUME Inv PROVE QueueAccounted
  OBVIOUS
<1>1. /\ Requests = 1 .. Len(req) /\ \A m \in Requests : req[m] \in Req
      /\ \A s \in Slots : q.slot[s] \in Item
      /\ Used(q) \subseteq Slots /\ IsFiniteSet(Used(q))
  BY RequestsAre, SlotsFinite DEF Inv, TablesInv
<1>2. \A s \in Used(q) : req[q.slot[s].m].st = (IF InCallback(s) THEN "done" ELSE "queued")
  BY DEF Inv, QueueInv, SlotsOwned
<1>3. ASSUME NEW m \in Requests
      PROVE  /\ req[m].st = "queued" => req[m].age < AgeLimit(req[m].kind)
             /\ Cardinality({s \in Used(q) : q.slot[s].m = m /\ ~InCallback(s)})
                  = (IF req[m].st = "queued" THEN 1 ELSE 0)
  <2> DEFINE S == {s \in Used(q) : q.slot[s].m = m /\ ~InCallback(s)}
  <2>1. CASE req[m].st = "queued"
    <3>1. PICK s \in Used(q) : q.slot[s].m = m
      BY <2>1 DEF Inv, QueueInv, MessagesKept
    <3>2. ~InCallback(s)
      BY <1>2, <2>1, <3>1
    <3>3. S = {s}
      BY <3>1, <3>2 DEF Inv, QueueInv, SlotsOwned
    <3>4. OnTime(q.slot[s], req[m])
      BY <2>1, <3>1 DEF Inv, QueueInv, Timed
    <3>5. req[m].age < AgeLimit(req[m].kind)
      BY <1>1, <3>1, <3>4, OnTimeInLimit
    <3> QED  BY <2>1, <3>3, <3>5, FS_Singleton
  <2>2. CASE req[m].st # "queued"
    <3>1. S = {}
      BY <1>2, <2>2
    <3> QED  BY <2>2, <3>1, FS_EmptySet
  <2> QED  BY <2>1, <2>2
<1>4. \A m \in Requests : req[m].calls = (IF req[m].st = "done" THEN 1 ELSE 0)
  BY DEF Inv, QueueInv, MessagesKept
<1>5. /\ q.count = Cardinality(Used(q))
      /\ heap = Cardinality(Used(q)) + (IF pc.op \in {"input_cb", "obs_cb", "req_cb"} THEN 1 ELSE 0)
  BY DEF Inv, QueueInv, Counted
<1> QED  BY <1>2, <1>3, <1>4, <1>5 DEF QueueAccounted

(* Until the message ids wrap, for every size of the queue and every        *)
(* retransmission setting: the counter, the heap and the slots agree, each  *)
(* message that waits is in the queue once and has waited no longer than    *)
(* its timeouts add up to, and each outcome is told once                    *)
(* (coap_transport_read, coap_time_tick, coap_queue.c). An acknowledgment   *)
(* with id 0 would be taken for a slot that was cleared.                    *)
THEOREM QueueStaysAccounted ==
  ASSUME IdsDoNotWrap
  PROVE  Spec => []QueueAccounted
<1>1. Spec => []Inv
  BY InitQueue, QueueInductive, PTL DEF Spec
<1> QED  BY <1>1, QueueFollows, PTL
=============================================================================
