-------------------------------- MODULE Coap ---------------------------------
(***************************************************************************)
(* The CoAP library (coap.c) over its queue, its tables, its messages and  *)
(* its sockets, with an application that does one of five things (role):   *)
(*   client   sends requests, observes (as the sample coap_client, which   *)
(*            sends confirmable GETs, and the observe API)                 *)
(*   server   has resources, and observers it notifies                     *)
(*   proxy    handles every request itself (coap_request_handler_register) *)
(*   secure   opens and closes DTLS sessions and sends over them           *)
(*   codec    builds a message and reads it back                           *)
(*                                                                         *)
(* COAP_MUTEX_LOCK and COAP_MUTEX_UNLOCK are empty: the library runs in    *)
(* one thread, the main loop of the application, and only its callbacks    *)
(* come in between. pc says where the library called the application; a    *)
(* callback may send, then it returns.                                     *)
(*                                                                         *)
(* The network loses, repeats and reorders: an answer to a request that    *)
(* was transmitted can arrive at any time, any number of times.            *)
(***************************************************************************)
EXTENDS CoapQueue, CoapObserve, CoapTransport, CoapMessage, TLC

CONSTANTS
  Roles,           \* what the application may be
  MaxMsgs,         \* bound: messages a client sends
  OtherMsgs,       \* bound: messages any other application sends
  IdSpace,         \* message ids, 2^16 in the code
  AckTimeout,      \* COAP_ACK_TIMEOUT * COAP_ACK_RANDOM_FACTOR, in ticks
  MaxSpan,         \* COAP_MAX_TRANSMISSION_SPAN
  MaxRetransmit,   \* COAP_MAX_RETRANSMIT_COUNT
  MaxFails         \* bound: calls into the environment that fail

ASSUME CoapAssumption ==
  /\ MaxMsgs \in Nat /\ OtherMsgs \in Nat /\ IdSpace \in Nat \ {0} /\ AckTimeout \in Nat
  /\ MaxSpan \in Nat /\ MaxRetransmit \in Nat /\ MaxFails \in Nat

VARIABLES
  role,
  q,          \* the message queue
  heap,       \* blocks taken with coap_alloc_fn and not freed
  next_id,    \* message_id_counter
  obs,        \* observables of the client
  observers,  \* observers of the server
  tr,         \* the transport
  pc,         \* [op, slot]: the loop of coap_time_tick, the callback that runs
  req,        \* the messages the application sent, in order
  msg,        \* the message of the codec, and what was added to it
  fails

vars == <<role, q, heap, next_id, obs, observers, tr, pc, req, msg, fails>>

Callbacks == {"input_cb", "obs_cb", "req_cb", "tick_cb"}

Idle == [op |-> "idle", slot |-> 0]

\* The application runs: outside of the library, or in a callback.
AppRuns == pc.op \in Callbacks \cup {"idle"}

NoMsg == [m |-> coap_message_create("CON", 1, 258, <<>>), added |-> <<>>]

coap_init ==
  /\ q = coap_queue_init /\ heap = 0 /\ next_id = 1
  /\ obs = observe_client_init /\ observers = observe_server_init
  /\ tr = coap_transport_init

Init ==
  /\ role \in Roles
  /\ coap_init
  /\ pc = Idle /\ req = <<>> /\ msg = NoMsg /\ fails = 0

------------------------------------------------------------------------------
(* Sending.                                                                *)

\* Confirmable messages and requests with a callback wait for an answer. What
\* waits has a callback, as in the samples: the NULL branches (coap.c:444, 501)
\* and the call of a NULL callback in the tick (coap.c:756) do not come up.
Kept(kind) == kind # "fire"

IsCon(kind) == kind \notin {"non", "fire"}

\* What internal_coap_message_send() puts in the queue.
NewItem(r, m) ==
  [m |-> m, mid |-> r.mid, tok |-> r.tok, buffer |-> TRUE, timeout_val |-> AckTimeout,
   timeout |-> IF IsCon(r.kind) THEN AckTimeout ELSE MaxSpan,
   retrans_count |-> IF IsCon(r.kind) THEN 0 ELSE MaxRetransmit]

\* How the environment answers: all calls succeed, no memory for the message
\* or for the buffer, sendto() fails.
Outcomes == {"ok", "nomsg", "nobuf", "eio"}

\* coap_message_new(), coap_message_send() and coap_message_delete(), as in
\* client_get_send(). The message and its data are freed whatever happens.
\* A message the queue has no room for was sent all the same.
Transmit(kind, tok, fd, out) ==
  LET r    == [kind |-> kind, tok |-> tok, mid |-> next_id % IdSpace, fd |-> fd,
               sent |-> out = "ok" /\ coap_transport_write(tr, fd),
               st |-> "gone", calls |-> 0, age |-> 0]
      kept == r.sent /\ Kept(kind) /\ CanAdd(q)
  IN  /\ AppRuns /\ Len(req) < (IF role = "client" THEN MaxMsgs ELSE OtherMsgs)
      /\ fails + (IF out = "ok" THEN 0 ELSE 1) <= MaxFails
      /\ fails' = fails + (IF out = "ok" THEN 0 ELSE 1)
      /\ next_id' = IF out = "nomsg" THEN next_id ELSE next_id + 1
      /\ obs' = IF out = "nomsg" THEN obs ELSE coap_observe_client_send_handle(obs, r)
      /\ req' = Append(req, IF kept THEN [r EXCEPT !.st = "queued"] ELSE r)
      /\ q' = IF kept THEN coap_queue_add(q, NewItem(r, Len(req) + 1)) ELSE q
      /\ heap' = heap + (IF kept THEN 1 ELSE 0)
      /\ UNCHANGED <<role, observers, tr, pc, msg>>

Requests == DOMAIN req

client_get_send(kind, out) ==
  /\ role = "client" /\ kind \in {"con", "non", "fire", "obs"}
  /\ Transmit(kind, Len(req) + 1, tr.port[0], out)

\* A GET with observe 1 uses the token of the GET with observe 0.
Deregister(m, out) ==
  /\ role = "client" /\ m \in Requests /\ req[m].kind = "obs"
  /\ Transmit("dereg", req[m].tok, tr.port[0], out)

------------------------------------------------------------------------------
(* Receiving.                                                              *)

\* What a peer that got message m may answer.
Answers(m) ==
  LET D(type, code, o) == [type |-> type, code |-> code, mid |-> req[m].mid,
                           tok |-> IF code = "empty" THEN 0 ELSE req[m].tok,
                           observe |-> o, re |-> m]
  IN  {D("ACK", "empty", FALSE), D("RST", "empty", FALSE)}
        \cup {D("ACK", c, FALSE) : c \in {"205", "404"}}
        \cup (IF req[m].kind = "obs" THEN {D("ACK", "205", TRUE), D("NON", "205", TRUE)} ELSE {})

IsEmpty(d) == d.code = "empty"

\* The callback of the message in slot s is called.
Called(s) == [req EXCEPT ![q.slot[s].m].st = "done", ![q.slot[s].m].calls = @ + 1,
                             ![q.slot[s].m].age = 0]

\* An empty ACK and a reset are matched by message id, whatever the slot
\* holds. The token is filled in from the item; no option is present.
AckOrReset(d) ==
  LET s == coap_queue_item_by_mid_get(q, d.mid)
  IN  IF s = 0 THEN UNCHANGED <<obs, pc, heap, req, q>>
      ELSE IF ~q.slot[s].buffer
      THEN q' = coap_queue_remove(q, s) /\ UNCHANGED <<obs, pc, heap, req>>
      ELSE /\ obs' = coap_observe_client_response_handle(obs,
                       [d EXCEPT !.tok = q.slot[s].tok], TRUE)
           /\ pc' = [op |-> "input_cb", slot |-> s]
           /\ heap' = heap + 1 /\ req' = Called(s) /\ UNCHANGED q

\* A response is matched by token. Without a request it may be a notification.
Response(d) ==
  LET s == coap_queue_item_by_token_get(q, d.tok)
  IN  IF s = 0
      THEN /\ obs' = coap_observe_client_response_handle(obs, d, FALSE)
           /\ pc' = IF Notifies(obs, d, FALSE) THEN [op |-> "obs_cb", slot |-> 0] ELSE pc
           /\ heap' = heap + (IF Notifies(obs, d, FALSE) THEN 1 ELSE 0)
           /\ UNCHANGED <<req, q>>
      ELSE /\ obs' = coap_observe_client_response_handle(obs, d, TRUE)
           /\ pc' = [op |-> "input_cb", slot |-> s]
           /\ heap' = heap + 1 /\ req' = Called(s) /\ UNCHANGED q

\* coap_transport_read() of an answer. (Without memory for the message, or
\* with one that does not decode, it is as if the network had lost it.)
coap_transport_read ==
  /\ pc.op = "idle"
  /\ \E m \in Requests : \E d \in Answers(m) :
        /\ req[m].sent
        /\ IF IsEmpty(d) THEN AckOrReset(d) ELSE Response(d)
  /\ UNCHANGED <<role, next_id, observers, tr, msg, fails>>

\* The callback of an answered message returns: buffer, item and the received
\* message are freed.
AnswerReturns ==
  /\ pc.op = "input_cb"
  /\ q' = coap_queue_remove(q, pc.slot)
  /\ heap' = heap - 2
  /\ pc' = Idle
  /\ UNCHANGED <<role, next_id, obs, observers, tr, req, msg, fails>>

NotificationReturns ==
  /\ pc.op = "obs_cb"
  /\ heap' = heap - 1
  /\ pc' = Idle
  /\ UNCHANGED <<role, q, next_id, obs, observers, tr, req, msg, fails>>

------------------------------------------------------------------------------
(* Time.                                                                   *)

\* coap_time_tick() starts with the first item.
TickStart ==
  /\ pc.op = "idle" /\ Used(q) # {}
  /\ pc' = [op |-> "tick", slot |-> 0]
  /\ UNCHANGED <<role, q, heap, next_id, obs, observers, tr, req, msg, fails>>

\* What one tick does to the timers of an item.
Ticked(it) ==
  IF it.timeout > 0 THEN [it EXCEPT !.timeout = @ - 1]
  ELSE IF it.retrans_count < MaxRetransmit
  THEN [it EXCEPT !.timeout = it.timeout_val * 2, !.timeout_val = it.timeout_val * 2,
                  !.retrans_count = @ + 1]
  ELSE it

\* When it would be given up if only the span counted.
ExpiresBySpan(it) == it.timeout = 0 /\ Ticked(it).timeout > MaxSpan

\* The item is given up after this tick.
Expired(it) == /\ it.timeout = 0
               /\ Ticked(it).timeout > MaxSpan \/ Ticked(it).retrans_count >= MaxRetransmit

\* The timeouts a confirmable message waits for; without retransmissions it
\* waits for the first one all the same.
Timeouts == IF MaxRetransmit = 0 THEN 1 ELSE MaxRetransmit

\* The ticks in which a message has to have its outcome; its age is not counted
\* any further.
AgeLimit(kind) ==
  IF IsCon(kind) THEN AckTimeout * (2 ^ Timeouts - 1) + Timeouts ELSE MaxSpan + 1

\* One round of the loop. A retransmission that cannot be written only calls
\* the error handler.
coap_time_tick ==
  LET s  == coap_queue_item_next_get(q, pc.slot)
      it == q.slot[s]
      sends == it.timeout = 0 /\ it.retrans_count < MaxRetransmit
                 /\ coap_transport_write(tr, req[it.m].fd)
      r1 == [req[it.m] EXCEPT !.sent = @ \/ sends,
                  !.age = IF @ < AgeLimit(req[it.m].kind) THEN @ + 1 ELSE @]
  IN  /\ pc.op = "tick"
      /\ IF s = 0
         THEN pc' = Idle /\ UNCHANGED <<q, req>>
         ELSE /\ q' = [q EXCEPT !.slot[s] = Ticked(it)]
              /\ req' = [req EXCEPT ![it.m] = IF Expired(it)
                           THEN [r1 EXCEPT !.st = "done", !.calls = @ + 1, !.age = 0] ELSE r1]
              /\ pc' = [op |-> IF Expired(it) THEN "tick_cb" ELSE "tick", slot |-> s]
      /\ UNCHANGED <<role, heap, next_id, obs, observers, tr, msg, fails>>

\* The callback with ETIMEDOUT returns and the loop goes on behind the item.
TimeoutReturns ==
  /\ pc.op = "tick_cb"
  /\ q' = coap_queue_remove(q, pc.slot)
  /\ heap' = heap - 1
  /\ pc' = [pc EXCEPT !.op = "tick"]
  /\ UNCHANGED <<role, next_id, obs, observers, tr, req, msg, fails>>

------------------------------------------------------------------------------
(* The server: its resources, an example of a tree with one level. Names   *)
(* are sequences of letters.                                               *)

Root == 0
Children(r) == IF r = Root THEN <<1, 2, 3>> ELSE <<>>
Name(r) == <<<<>>, <<"l">>, <<"l", "e">>, <<"t">>>>[r + 1]
\* Resource 2 has no callback, 1 may be read, 3 may be written.
Permission(r) == <<{}, {"GET"}, {}, {"PUT"}>>[r + 1]
HasCallback(r) == r \in {1, 3}

\* A child whose name is the beginning of the segment is taken for it.
coap_resource_child_resolve(r, segment) ==
  SelectSeq(Children(r), LAMBDA c : IsPrefix(Name(c), segment))

\* The resource of a path, as a set of at most one.
coap_resource_get(path) ==
  FoldLeft(LAMBDA R, segment :
             UNION {LET C == coap_resource_child_resolve(r, segment)
                    IN  IF C = <<>> THEN {} ELSE {C[1]} : r \in R},
           {Root}, path)

Paths == {<<>>, <<Name(1)>>, <<Name(2)>>, <<Name(3)>>, <<<<"x">>>>}

\* send_error_response(): response, data and buffer are freed on every path,
\* so nothing is left behind whichever call fails.
send_error_response == UNCHANGED <<heap, pc>>

Request(path, code) ==
  /\ role \in {"server", "proxy"} /\ pc.op = "idle"
  /\ \/ /\ role = "proxy"
           \/ \E r \in coap_resource_get(path) : HasCallback(r) /\ code \in Permission(r)
        /\ pc' = [op |-> "req_cb", slot |-> 0] /\ heap' = heap + 1
     \/ /\ role = "server"
        /\ \A r \in coap_resource_get(path) : ~HasCallback(r) \/ code \notin Permission(r)
        /\ send_error_response
  /\ UNCHANGED <<role, q, next_id, obs, observers, tr, req, msg, fails>>

\* The callback of the resource, or the request handler and the error response
\* to its return value, return.
RequestReturns ==
  /\ pc.op = "req_cb"
  /\ heap' = heap - 1
  /\ pc' = Idle
  /\ UNCHANGED <<role, q, next_id, obs, observers, tr, req, msg, fails>>

Remotes == 1 .. 2

coap_observe_server_register(remote, resource) ==
  /\ role = "server" /\ AppRuns
  /\ observers' = internal_coap_observe_server_register(observers, remote, resource)
  /\ UNCHANGED <<role, q, heap, next_id, obs, tr, pc, req, msg, fails>>

coap_observe_server_unregister(i) ==
  /\ role = "server" /\ AppRuns
  /\ observers' = internal_coap_observe_server_unregister(observers, i)
  /\ UNCHANGED <<role, q, heap, next_id, obs, tr, pc, req, msg, fails>>

\* A confirmable notification to an observer the iteration finds.
Notify(resource, start, out) ==
  /\ role = "server"
  /\ internal_coap_observe_server_next_get(observers, start, resource) # 0
  /\ Transmit("notify", Len(req) + 1, tr.port[0], out)

------------------------------------------------------------------------------
(* Secure sessions.                                                        *)

Setup(local, remote) ==
  /\ role = "secure" /\ pc.op = "idle"
  /\ \E fail \in SUBSET (1 .. Sessions), connects \in BOOLEAN :
       LET f == Cardinality(fail) + (IF connects THEN 0 ELSE 1)
       IN  /\ fails + f <= MaxFails
           /\ fails' = fails + f
           /\ tr' = coap_security_setup(tr, local, remote, fail, connects)
  /\ UNCHANGED <<role, q, heap, next_id, obs, observers, pc, req, msg>>

\* The application destroys what it was given (and not yet destroyed).
Destroy(i) ==
  /\ role = "secure" /\ pc.op = "idle" /\ tr.sess[i].used
  /\ tr' = coap_security_destroy(tr, tr.port[i])
  /\ UNCHANGED <<role, q, heap, next_id, obs, observers, pc, req, msg, fails>>

SecureSend(i, out) ==
  /\ role = "secure" /\ tr.sess[i].used
  /\ Transmit("con", Len(req) + 1, tr.port[i], out)

------------------------------------------------------------------------------
(* Building a message.                                                     *)

Bytes(n) == [i \in 1 .. n |-> (i * 7) % 251]

Lengths == {0, 2, 13, 269}

Formats == {CT.plain, CT.json, CT.tlv}

Support == {1, 7, 8}

Blocks == {[size |-> s, more |-> b, number |-> n] :
             s \in {16, 1024}, b \in 0 .. 1, n \in {0, 5, BLOCK_NUMBER_MAX}}

\* The option is there afterwards, or the call was refused.
Adds(m1, num, val) ==
  /\ role = "codec" /\ num > msg.m.delta /\ msg.m.payload = <<>>
  /\ msg' = [m |-> m1, added |-> IF m1 = msg.m THEN msg.added
                                 ELSE Append(msg.added, [number |-> num, val |-> val])]
  /\ UNCHANGED <<role, q, heap, next_id, obs, observers, tr, pc, req, fails>>

Build ==
  \/ \E num \in {1, 290} : Adds(coap_message_opt_empty_add(msg.m, num), num, <<>>)
  \/ \E num \in {4, 290}, n \in Lengths :
       Adds(coap_message_opt_opaque_add(msg.m, num, Bytes(n)), num, Bytes(n))
  \/ \E n \in Lengths : /\ n <= DataMaxSize - msg.m.offset
                        /\ Adds(coap_message_opt_str_add(msg.m, 11, Bytes(n)), 11, Bytes(n))
  \/ \E ct \in Formats : Adds(coap_message_opt_uint_add(msg.m, 17, ct), 17, ct)
  \/ \E b \in Blocks : /\ BlockEncodes(b)
                       /\ Adds(coap_message_opt_uint_add(msg.m, 27, block_opt_encode(b)), 27, b)

SetPayload(n) ==
  /\ role = "codec" /\ msg.m.payload = <<>> /\ n > 0
  /\ msg' = [msg EXCEPT !.m = coap_message_payload_set(msg.m, Bytes(n))]
  /\ UNCHANGED <<role, q, heap, next_id, obs, observers, tr, pc, req, fails>>

------------------------------------------------------------------------------
Next ==
  \/ \E kind \in {"con", "non", "fire", "obs"}, out \in Outcomes : client_get_send(kind, out)
  \/ \E m \in Requests, out \in Outcomes : Deregister(m, out)
  \/ coap_transport_read
  \/ AnswerReturns
  \/ NotificationReturns
  \/ TickStart
  \/ coap_time_tick
  \/ TimeoutReturns
  \/ \E path \in Paths, code \in {"GET", "PUT"} : Request(path, code)
  \/ RequestReturns
  \/ \E remote \in Remotes, r \in {1, 3} : coap_observe_server_register(remote, r)
  \/ \E i \in 1 .. MaxObservers : coap_observe_server_unregister(i)
  \/ \E r \in {1, 3}, start \in 0 .. MaxObservers, out \in {"ok", "eio"} : Notify(r, start, out)
  \/ \E local \in 1 .. 2, remote \in Remotes : Setup(local, remote)
  \/ \E i \in 1 .. Sessions : Destroy(i)
  \/ \E i \in 1 .. Sessions, out \in {"ok", "eio"} : SecureSend(i, out)
  \/ Build
  \/ \E n \in Lengths : SetPayload(n)

\* The main loop of the application takes in at most one round of datagrams and
\* calls coap_time_tick() once a second between them: it cannot be kept from it
\* by traffic. A tick that started ends, and callbacks return.
Spec ==
  /\ Init /\ [][Next]_vars
  /\ SF_vars(TickStart) /\ WF_vars(coap_time_tick)
  /\ WF_vars(AnswerReturns \/ NotificationReturns \/ TimeoutReturns \/ RequestReturns)

------------------------------------------------------------------------------
InCallback(s) == pc.op \in {"input_cb", "tick_cb"} /\ pc.slot = s

\* The queue holds exactly the messages that wait for their outcome, each once,
\* its counter and the heap agree with it, and no message gets two outcomes:
\* whatever is sent, answered, repeated, timed out, or sent from a callback
\* while the item of that callback is still there (coap_transport_read,
\* coap_time_tick).  Nothing stays queued longer than the configuration
\* allows: the sum of the doubling timeouts, or the span for a message that
\* is not confirmable.
QueueAccounted ==
  /\ \A m \in Requests : req[m].st = "queued" => req[m].age < AgeLimit(req[m].kind)
  /\ q.count = Cardinality(Used(q))
  /\ heap = Cardinality(Used(q)) + (IF pc.op \in {"input_cb", "obs_cb", "req_cb"} THEN 1 ELSE 0)
  /\ \A s \in Used(q) : req[q.slot[s].m].st = (IF InCallback(s) THEN "done" ELSE "queued")
  /\ \A m \in Requests :
       /\ req[m].calls = (IF req[m].st = "done" THEN 1 ELSE 0)
       /\ Cardinality({s \in Used(q) : q.slot[s].m = m /\ ~InCallback(s)})
            = (IF req[m].st = "queued" THEN 1 ELSE 0)

\* The tables have no entry twice and own what they point to: a token is
\* observed once, a remote observes a resource once, sessions have sockets of
\* their own, there is one session between two endpoints, and the sockets that
\* are open are the port and the sessions
\* (coap_observe_client_response_handle, internal_coap_observe_server_register,
\* coap_security_setup, session_free).
TablesSound ==
  /\ \A i, j \in 1 .. MaxObservables : obs[i] # 0 /\ obs[i] = obs[j] => i = j
  /\ \A i, j \in 1 .. MaxObservers :
       observers[i].resource # 0 /\ observers[i] = observers[j] => i = j
  /\ tr.open = {tr.port[i] : i \in Entries} \ {0}
  /\ \A i \in 1 .. Sessions : tr.sess[i].used <=> tr.port[i] # 0
  /\ \A i, j \in Entries : tr.port[i] # 0 /\ tr.port[i] = tr.port[j] => i = j
  /\ \A i, j \in 1 .. Sessions :
       tr.sess[i].used /\ tr.sess[i] = tr.sess[j] /\ tr.local[i] = tr.local[j] => i = j

\* A message that was built with the API is read back as it was meant: header,
\* token, options with their numbers and values, block options, payload; it
\* takes the bytes that were predicted, and the content format selected for it
\* is one it accepts (coap_message_encode, coap_message_decode).
MessagesReadBack ==
  LET raw == coap_message_encode(msg.m)
      d   == coap_message_decode(raw)
      Value(o, a) == IF a.number = 17 THEN coap_opt_uint_decode(o.data)
                     ELSE IF a.number = 27 THEN block_opt_decode(coap_opt_uint_decode(o.data))
                     ELSE o.data
      accepted == {msg.added[i].val : i \in {j \in DOMAIN msg.added : msg.added[j].number = 17}}
  IN  role = "codec" =>
      /\ Len(raw) = EncodedLength(msg.m) /\ Decodes(raw) /\ msg.m.offset <= DataMaxSize
      /\ \A f \in {"type", "code", "id", "tok", "payload"} : d[f] = msg.m[f]
      /\ Len(d.opts) = Len(msg.added)
      /\ \A i \in DOMAIN d.opts : /\ d.opts[i].number = msg.added[i].number
                                  /\ msg.added[i].number = 27 =>
                                       BlockDecodes(coap_opt_uint_decode(d.opts[i].data))
                                  /\ Value(d.opts[i], msg.added[i]) = msg.added[i].val
      /\ coap_message_ct_match_select(d.opts, Support)
           = (IF accepted = {} THEN {CT.plain} ELSE accepted)

\* Every message that waits for an answer is answered or timed out.
EveryMessageConcludes ==
  \A m \in 1 .. MaxMsgs :
    (m \in Requests /\ req[m].st = "queued") ~> (m \in Requests /\ req[m].st = "done")
=============================================================================
