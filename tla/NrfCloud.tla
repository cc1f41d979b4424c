------------------------------ MODULE NrfCloud -------------------------------
(***************************************************************************)
(* The nRF Cloud library (nrf_cloud.c, nrf_cloud_transport.c) between the  *)
(* MQTT client below it and the asset tracker application above it         *)
(* (applications/asset_tracker), with the broker at the other end.         *)
(*                                                                         *)
(* Three threads use the library: main polls it (nrf_cloud_process) and so *)
(* runs the state machine, the system work queue reconnects and streams    *)
(* sensor data, and the GPS thread sends positions. The MQTT client drops  *)
(* its mutex around every callback, and the state machine has no lock of   *)
(* its own, so a step is what a thread does between two points where       *)
(* another thread can run: stack[t] holds the statements thread t still    *)
(* has to execute, one sequence per active function.                       *)
(*                                                                         *)
(* The broker and the cloud are external: they answer in order, they may   *)
(* refuse or close a connection, and the cloud asks for any pairing state  *)
(* at any time unless it is calm, when it answers every request for the    *)
(* state with "paired".                                                    *)
(***************************************************************************)
EXTENDS MqttClient, NrfCloudFsm, TLC

CONSTANTS
  Clouds,        \* the behaviours of the cloud: subset of {"calm", "any"}
  Tags,          \* message identifiers the application gives sensor data
  Sensors,       \* ARRAY_SIZE(available_sensors)
  CounterMod,    \* modulus of the counter attached_sensors
  ReadMax,       \* packets one read of the socket can return
  NetMax,        \* bound on the packets in flight to the device
  MaxSessions,   \* bound on the connections
  MaxSends,      \* bound on the messages of the application
  MaxFaults,     \* bound on the failures, refusals and disconnections
  MaxShadow      \* bound on the messages of a cloud that is not calm

ASSUME CloudAssumption ==
  /\ Clouds \subseteq {"calm", "any"}
  /\ {Sensors, ReadMax, MaxSessions} \subseteq Nat \ {0}
  /\ CounterMod \in Nat /\ CounterMod > Sensors
  /\ {NetMax, MaxSends, MaxFaults, MaxShadow} \subseteq Nat

VARIABLES
  fsm,       \* m_current_state
  mq,        \* the MQTT client
  endp,      \* the data topics are set: nct.dc_tx_endp and dc_rx_endp
  stack,     \* statements each thread has to execute
  err,       \* result of the last call of each thread: TRUE if it failed
  held,      \* thread that keeps mqtt_mutex locked over a callback
  app,       \* state of the application
  net,       \* packets on their way to the device
  brk,       \* the broker's end of the connection
  cloud,     \* behaviour of the cloud
  left,      \* what is left of the bounds
  sess,      \* number of the current connection
  history    \* what has happened since the last restart, subset of Happenings

vars == << fsm, mq, endp, stack, err, held, app, net, brk, cloud, left, sess, history >>

Threads == {"main", "work", "gps"}

-----------------------------------------------------------------------------
(* Statements of the library and the application.                          *)

nct_input(e) == [op |-> "input", evt |-> e]
Call(body) == [op |-> "call", body |-> body]
Op(name) == [op |-> name]
Failed(connect) == [op |-> "failed", connect |-> connect]

\* nrf_cloud_connect, nct_connect, nct_mqtt_connect in cloud_connect.
cloud_connect ==
  << Call(<< Op("check connect"), Op("client init"), Op("mqtt connect") >>),
     Op("app error") >>

\* nrf_cloud_sensor_data_send (QoS 1) and _stream (QoS 0) in sensor_data_send.
sensor_data_send(id, qos) ==
  << Call(<< Op("check send"), Transmit("PUBLISH", id, qos, TRUE) >>), Op("app error") >>

cloud_user_associate ==
  << Call(<< Op("check associate"), Report(CC_UA_DATA_ID) >>),
     Op("app error"), Op("pattern sent") >>

nrf_cloud_disconnect == << EndpointFree, Disconnect >>

\* The transport event for an event of the MQTT client (nct_mqtt_evt_handler).
NctEvent(e) ==
  IF e.type = "DISCONNECT" THEN [type |-> "DISCONNECTED"]
  ELSE [type |-> "CONNECTED", ok |-> e.ok]

\* nct_mqtt_evt_handler for a packet: a publication is acknowledged first.
nct_mqtt_evt_handler(p) ==
  CASE p.kind = "CONNACK" -> << nct_input([type |-> "CONNECTED", ok |-> p.ok]) >>
    [] p.kind = "SUBACK" ->
         << nct_input([type |-> IF p.id = "CC" THEN "CC_CONNECTED" ELSE "DC_CONNECTED",
                       ok |-> TRUE]) >>
    [] p.kind = "PUBACK" -> << nct_input([type |-> "CC_TX_DATA_CNF", id |-> p.id]) >>
    [] p.kind = "PUBLISH" ->
         << Transmit("PUBACK", "none", 0, FALSE),
            nct_input(IF p.id = "CC"
                      THEN [type |-> "CC_RX_DATA", req |-> p.req, topics |-> p.topics]
                      ELSE [type |-> "DC_RX_DATA"]) >>
    [] OTHER -> << >>

-----------------------------------------------------------------------------
(* Executing statements.                                                   *)

Running(t) == ~app.halted /\ stack[t] # << >>
Idle(t) == ~app.halted /\ stack[t] = << >>
Statement(t) == Head(Head(stack[t]))
At(t, name) == Running(t) /\ Statement(t).op = name
MayLock(t) == held \in {"none", t}

NonEmpty(frames) == SelectSeq(frames, LAMBDA f : f # << >>)

\* A call that comes first is a frame of its own.
Frames(body) ==
  IF body # << >> /\ Head(body).op = "call"
  THEN << Head(body).body, Tail(body) >> ELSE << body >>

\* The thread goes on with body, then with what is left of its functions.
Enter(t, body) ==
  stack' = [stack EXCEPT ![t] =
              NonEmpty(Frames(body) \o Frames(Tail(Head(@))) \o Tail(@))]
Continue(t) == Enter(t, << >>)
Return(t, body) == stack' = [stack EXCEPT ![t] = NonEmpty(<< body >> \o Tail(@))]
Begin(t, body) == Idle(t) /\ stack' = [stack EXCEPT ![t] = NonEmpty(Frames(body))]

Result(t, failed) == err' = [err EXCEPT ![t] = failed]

\* A transmission has ended; the caller may return if it has failed.
Finish(t, failed) ==
  LET rest == Tail(Head(stack[t]))
      checked == rest # << >> /\ Head(rest).op = "iferr"
  IN  /\ Result(t, failed)
      /\ CASE checked /\ failed -> Return(t, Head(rest).then)
           [] checked /\ ~failed -> Return(t, Tail(rest))
           [] OTHER -> Continue(t)

\* The thread runs body inside the current statement, then becomes stmt.
Callback(t, body, stmt) ==
  stack' = [stack EXCEPT ![t] = << body, << stmt >> \o Tail(Head(@)) >> \o Tail(@)]

\* error_handler: the device restarts.
Halted == [app EXCEPT !.halted = TRUE, !.enabled = FALSE]

Fault == left.faults > 0 /\ left' = [left EXCEPT !.faults = @ - 1]

CloudVars == << net, brk, cloud >>
-----------------------------------------------------------------------------
(* The state machine and the application's event handler.                  *)

\* nct_input: the handler is chosen by the state at this moment.
Input(t) ==
  /\ At(t, "input")
  /\ Enter(t, nfsm_handle_incoming_event(fsm, Statement(t).evt))
  /\ UNCHANGED << fsm, mq, endp, err, held, app, CloudVars, left, sess, history >>

sensor_attached == (app.attached + 1) % CounterMod

\* cloud_event_handler: the new state of the application.
AppAfter(e) ==
  CASE e = "USER_ASSOCIATION_REQUEST" /\ ~app.recording ->
         [app EXCEPT !.recording = TRUE, !.entered = FALSE, !.paired = FALSE]
    [] e = "READY" -> [app EXCEPT !.paired = TRUE]
    [] e = "SENSOR_ATTACHED" ->
         [app EXCEPT !.attached = sensor_attached,
                     !.enabled = @ \/ sensor_attached = Sensors]
    [] e = "TRANSPORT_DISCONNECTED" ->
         [app EXCEPT !.enabled = FALSE, !.paired = FALSE, !.connect_work = TRUE]
    [] e = "ERROR" -> Halted
    [] OTHER -> app

\* cloud_event_handler: what it goes on to do in the same thread.
AppCalls(e) ==
  CASE e = "READY" -> [i \in 1 .. Sensors |-> Op("attach")]
    [] e = "SENSOR_ATTACHED" /\ sensor_attached = Sensors -> << Op("stream") >>
    [] OTHER -> << >>

nfsm_set_current_state_and_notify(t, s, e) ==
  /\ fsm' = s
  /\ app' = AppAfter(e)
  /\ Enter(t, AppCalls(e))

\* overwritten: a state beyond STATE_INITIALIZED was set although there is no
\* connection. collision: a sensor message was sent with a reserved identifier.
\* no memory: a message could not be encoded.
Happenings == {"overwritten", "collision", "no memory"}

Overwrites(s) == s > STATE_INITIALIZED /\ "CONNECTED" \notin mq.flags

SetState(t) ==
  /\ At(t, "set")
  /\ nfsm_set_current_state_and_notify(t, Statement(t).state, Statement(t).evt)
  /\ history' = history \cup {h \in {"overwritten"} : Overwrites(Statement(t).state)}
  /\ UNCHANGED << mq, endp, err, held, CloudVars, left, sess >>

\* dc_rx_data_handler reads the state and writes it back.
ForwardData(t) ==
  /\ At(t, "set current")
  /\ Enter(t, << Set(fsm, Statement(t).evt) >>)
  /\ UNCHANGED << fsm, mq, endp, err, held, app, CloudVars, left, sess, history >>

\* nrf_cloud_sensor_attach.
SensorAttach(t) ==
  /\ At(t, "attach")
  /\ \/ /\ fsm <= STATE_DC_CONNECTED
        /\ Enter(t, << Set(STATE_DC_CONNECTED, "SENSOR_ATTACHED") >>)
        /\ UNCHANGED app
     \/ /\ fsm > STATE_DC_CONNECTED
        /\ app' = Halted
        /\ Continue(t)
  /\ UNCHANGED << fsm, mq, endp, err, held, CloudVars, left, sess, history >>

EndpointStep(t) ==
  /\ \/ At(t, "endpoint set") /\ endp' = TRUE
     \/ At(t, "endpoint free") /\ endp' = FALSE
  /\ Continue(t)
  /\ UNCHANGED << fsm, mq, err, held, app, CloudVars, left, sess, history >>

-----------------------------------------------------------------------------
(* Writing packets: mqtt_publish, mqtt_subscribe, mqtt_unsubscribe,        *)
(* mqtt_publish_qos1_ack and mqtt_disconnect.                              *)

\* What the broker owes for a packet.
Owed(p) ==
  CASE p.kind = "SUBSCRIBE" -> << [kind |-> "SUBACK", id |-> p.id] >>
    [] p.kind = "UNSUBSCRIBE" -> << [kind |-> "UNSUBACK", id |-> p.id] >>
    [] p.kind = "PUBLISH" /\ p.qos = 1 -> << [kind |-> "PUBACK", id |-> p.id] >>
    [] OTHER -> << >>

BrokerGets(p) ==
  IF brk.open
  THEN [brk EXCEPT !.owed = @ \o Owed(p),
                   !.asked = @ \/ (p.kind = "PUBLISH" /\ p.id = CLOUD_STATE_REQ_ID)]
  ELSE brk

\* nrf_cloud_encode_* finds no memory.
EncodeFails(t) ==
  /\ At(t, "tx") /\ Statement(t).encoded
  /\ Fault
  /\ Result(t, TRUE)
  /\ Return(t, << >>)
  /\ history' = history \cup {"no memory"}
  /\ UNCHANGED << fsm, mq, endp, held, app, CloudVars, sess >>

NotConnected(t) ==
  /\ At(t, "tx") /\ MayLock(t) /\ ~verify_tx_state(mq)
  /\ Finish(t, TRUE)
  /\ UNCHANGED << fsm, mq, endp, held, app, CloudVars, left, sess, history >>

Written(t) ==
  /\ At(t, "tx") /\ MayLock(t) /\ verify_tx_state(mq)
  /\ brk' = BrokerGets(Statement(t).pkt)
  /\ mq' = IF Statement(t).pkt.kind = "DISCONNECT" THEN Disconnecting(mq) ELSE mq
  /\ Finish(t, FALSE)
  /\ UNCHANGED << fsm, endp, held, app, net, cloud, left, sess, history >>

\* client_write fails: the client disconnects, reports it and returns -EIO.
WriteFails(t) ==
  /\ At(t, "tx") /\ MayLock(t) /\ verify_tx_state(mq)
  /\ Fault
  /\ mq' = disconnect_event_notify(mq)
  /\ Callback(t, << nct_input(NctEvent(LostEvent(mq))) >>, Failed(FALSE))
  /\ UNCHANGED << fsm, endp, err, held, app, CloudVars, sess, history >>

\* The call that failed returns; mqtt_connect frees the client before.
CallFails(t) ==
  /\ At(t, "failed") /\ MayLock(t)
  /\ mq' = IF Statement(t).connect THEN ConnectFailed(mq) ELSE mq
  /\ Finish(t, TRUE)
  /\ UNCHANGED << fsm, endp, held, app, CloudVars, left, sess, history >>

-----------------------------------------------------------------------------
(* nrf_cloud_connect.                                                      *)

CheckConnect(t) ==
  /\ At(t, "check connect")
  /\ \/ /\ fsm > STATE_INITIALIZED                \* NOT_VALID_STATE
        /\ Result(t, TRUE) /\ Return(t, << >>)
        /\ UNCHANGED left
     \/ /\ fsm <= STATE_INITIALIZED               \* getaddrinfo fails
        /\ Fault
        /\ Result(t, TRUE) /\ Return(t, << >>)
     \/ /\ fsm <= STATE_INITIALIZED
        /\ Continue(t)
        /\ UNCHANGED << err, left >>
  /\ UNCHANGED << fsm, mq, endp, held, app, CloudVars, sess, history >>

ClientInit(t) ==
  /\ At(t, "client init") /\ MayLock(t)
  /\ mq' = mqtt_client_init(mq)
  /\ Continue(t)
  /\ UNCHANGED << fsm, endp, err, held, app, CloudVars, left, sess, history >>

\* The broker's end of a new connection.
NewBroker == [open |-> TRUE, owed |-> << [kind |-> "CONNACK", ok |-> TRUE] >>,
              confirmed |-> {}, asked |-> FALSE]

MqttConnected(t) ==
  /\ At(t, "mqtt connect") /\ MayLock(t) /\ CanConnect(mq)
  /\ mq' = TransportConnected(mq)
  /\ sess' = sess + 1
  /\ net' = << >>
  /\ brk' = NewBroker
  /\ Result(t, FALSE)
  /\ Continue(t)
  /\ UNCHANGED << fsm, endp, held, app, cloud, left, history >>

MqttConnectFails(t) ==
  /\ At(t, "mqtt connect") /\ MayLock(t)
  /\ \/ ~CanConnect(mq) /\ mq' = NoMemory(mq) /\ UNCHANGED left
     \/ CanConnect(mq) /\ Fault /\ mq' = ConnectFailed(mq)
  /\ Result(t, TRUE)
  /\ Continue(t)
  /\ UNCHANGED << fsm, endp, held, app, CloudVars, sess, history >>

\* The transport connects and the CONNECT packet cannot be written:
\* client_abort reports a refused connection, then mqtt_connect frees the
\* client.
ConnectWriteFails(t) ==
  /\ At(t, "mqtt connect") /\ MayLock(t) /\ CanConnect(mq)
  /\ Fault
  /\ mq' = disconnect_event_notify(TransportConnected(mq))
  /\ Callback(t, << nct_input(NctEvent(LostEvent(TransportConnected(mq)))) >>, Failed(TRUE))
  /\ UNCHANGED << fsm, endp, err, held, app, CloudVars, sess, history >>

-----------------------------------------------------------------------------
(* The other checks of the API and what the application does with errors.  *)

\* NOT_VALID_STATE for sensor data and for the association data.
CheckState(t) ==
  /\ At(t, "check send") \/ At(t, "check associate")
  /\ LET expected == IF Statement(t).op = "check send"
                     THEN STATE_DC_CONNECTED ELSE STATE_UA_INPUT_WAIT
     IN  IF fsm > expected
         THEN Result(t, TRUE) /\ Return(t, << >>)
         ELSE Continue(t) /\ UNCHANGED err
  /\ UNCHANGED << fsm, mq, endp, held, app, CloudVars, left, sess, history >>

\* The call of env_data_send in sensors_init.
Stream(t) ==
  /\ At(t, "stream")
  /\ Enter(t, IF app.enabled /\ ~app.recording
              THEN sensor_data_send("env", 0) ELSE << >>)
  /\ UNCHANGED << fsm, mq, endp, err, held, app, CloudVars, left, sess, history >>

AppError(t) ==
  /\ At(t, "app error")
  /\ app' = IF err[t] THEN Halted ELSE app
  /\ Continue(t)
  /\ UNCHANGED << fsm, mq, endp, err, held, CloudVars, left, sess, history >>

PatternSent(t) ==
  /\ At(t, "pattern sent")
  /\ app' = [app EXCEPT !.recording = FALSE]
  /\ Continue(t)
  /\ UNCHANGED << fsm, mq, endp, err, held, CloudVars, left, sess, history >>

-----------------------------------------------------------------------------
(* nrf_cloud_process and input_process, in the loop of main.               *)

Packets == {i \in 1 .. Len(net) :
              \A j \in 1 .. i : net[j].kind \notin {"EOF", "RESET"}}

\* mqtt_input or mqtt_live: a disconnect that was requested, the end of the
\* stream, or a failed read.
ConnectionLost ==
  /\ MayLock("main")
  /\ \/ "DISCONNECTING" \in mq.flags
     \/ "TCP_CONNECTED" \in mq.flags /\ net # << >> /\ 1 \notin Packets
  /\ Begin("main", << nct_input(NctEvent(LostEvent(mq))) >>)
  /\ mq' = disconnect_event_notify(mq)
  /\ UNCHANGED << fsm, endp, err, held, app, CloudVars, left, sess, history >>

\* mqtt_input: client_read gets n packets.
Read(n) ==
  /\ MayLock("main")
  /\ "TCP_CONNECTED" \in mq.flags /\ n \in Packets
  /\ Begin("main", [i \in 1 .. n |-> [op |-> "packet", pkt |-> net[i]]]
                   \o << [op |-> "flush", n |-> n] >>)
  /\ mq' = Received(mq, n)
  /\ net' = SubSeq(net, n + 1, Len(net))
  /\ UNCHANGED << fsm, endp, err, held, app, brk, cloud, left, sess, history >>

mqtt_handle_packet(t) ==
  /\ At(t, "packet") /\ MayLock(t)
  /\ mq' = IF Statement(t).pkt.kind = "CONNACK" /\ Statement(t).pkt.ok
           THEN ConnectionAccepted(mq) ELSE mq
  /\ Enter(t, << Call(nct_mqtt_evt_handler(Statement(t).pkt)) >>)
  /\ UNCHANGED << fsm, endp, err, held, app, CloudVars, left, sess, history >>

\* The end of client_read.
Flush(t) ==
  /\ At(t, "flush") /\ MayLock(t)
  /\ LET n == Statement(t).n
     IN  \/ ~Overrun(mq, n) /\ mq' = Flushed(mq, n) /\ Continue(t)
         \/ Overrun(mq, n) /\ ~Disconnectable(mq) /\ mq' = mq /\ Continue(t)
         \/ /\ Overrun(mq, n) /\ Disconnectable(mq)
            /\ mq' = disconnect_event_notify(mq)
            /\ Enter(t, << nct_input(NctEvent(LostEvent(mq))) >>)
  /\ UNCHANGED << fsm, endp, err, held, app, CloudVars, left, sess, history >>

\* mqtt_live: a ping that cannot be written. mqtt_live has locked the mutex
\* once more, so it stays locked during the callback.
PingFails ==
  /\ held = "none" /\ mq.listed /\ verify_tx_state(mq)
  /\ Fault
  /\ Begin("main", << nct_input(NctEvent(LostEvent(mq))), Op("unlock") >>)
  /\ mq' = disconnect_event_notify(mq)
  /\ held' = "main"
  /\ UNCHANGED << fsm, endp, err, app, CloudVars, sess, history >>

Unlock(t) ==
  /\ At(t, "unlock")
  /\ held' = "none"
  /\ Continue(t)
  /\ UNCHANGED << fsm, mq, endp, err, app, CloudVars, left, sess, history >>

\* input_process: the pattern is complete and is sent.
InputProcess ==
  /\ app.recording /\ app.entered
  /\ Begin("main", cloud_user_associate)
  /\ app' = [app EXCEPT !.entered = FALSE]
  /\ UNCHANGED << fsm, mq, endp, err, held, CloudVars, left, sess, history >>

\* pairing_button_register: the user completes the pattern.
PatternEntered ==
  /\ ~app.halted /\ app.recording /\ ~app.entered
  /\ app' = [app EXCEPT !.entered = TRUE, !.paired = FALSE]
  /\ UNCHANGED << fsm, mq, endp, stack, err, held, CloudVars, left, sess, history >>

-----------------------------------------------------------------------------
(* The other threads.                                                      *)

ConnectWork ==
  /\ app.connect_work /\ sess < MaxSessions
  /\ Begin("work", cloud_connect)
  /\ app' = [app EXCEPT !.connect_work = FALSE, !.paired = FALSE]
  /\ UNCHANGED << fsm, mq, endp, err, held, CloudVars, left, sess, history >>

\* The GPS thread sends a position and the environment data after it.
GpsTrigger(id) ==
  /\ app.enabled /\ ~app.recording
  /\ left.sends > 0 /\ left' = [left EXCEPT !.sends = @ - 1]
  /\ Begin("gps", sensor_data_send(id, 1) \o << Op("stream") >>)
  /\ history' = history \cup {h \in {"collision"} : id \in ReservedIds}
  /\ UNCHANGED << fsm, mq, endp, err, held, app, CloudVars, sess >>

\* flip_send, button_send, modem_rsrp_data_send, device_status_send.
StreamWork ==
  /\ app.enabled /\ ~app.recording
  /\ left.sends > 0 /\ left' = [left EXCEPT !.sends = @ - 1]
  /\ Begin("work", sensor_data_send("stream", 0))
  /\ UNCHANGED << fsm, mq, endp, err, held, app, CloudVars, sess, history >>

\* nrf_cloud_disconnect, which the asset tracker never calls: another
\* application does between two calls of nrf_cloud_process.
AppDisconnects ==
  /\ fsm <= STATE_CONNECTED
  /\ Fault
  /\ Begin("main", nrf_cloud_disconnect)
  /\ UNCHANGED << fsm, mq, endp, err, held, app, CloudVars, sess, history >>

Threading(t) ==
  \/ Input(t) \/ SetState(t) \/ ForwardData(t) \/ SensorAttach(t)
  \/ EndpointStep(t)
  \/ EncodeFails(t) \/ NotConnected(t) \/ Written(t) \/ WriteFails(t) \/ CallFails(t)
  \/ CheckConnect(t) \/ ClientInit(t) \/ MqttConnected(t) \/ MqttConnectFails(t)
  \/ ConnectWriteFails(t)
  \/ CheckState(t) \/ Stream(t) \/ AppError(t) \/ PatternSent(t)
  \/ mqtt_handle_packet(t) \/ Flush(t) \/ Unlock(t)

-----------------------------------------------------------------------------
(* The broker and the cloud.                                               *)

\* The broker answers, in order. It may refuse the connection.
BrokerAnswers ==
  /\ ~app.halted /\ brk.open /\ brk.owed # << >> /\ Len(net) < NetMax
  /\ LET p == Head(brk.owed)
     IN  /\ brk' = [brk EXCEPT !.owed = Tail(@),
                               !.confirmed = CASE p.kind = "SUBACK" -> @ \cup {p.id}
                                               [] p.kind = "UNSUBACK" -> @ \ {p.id}
                                               [] OTHER -> @]
         /\ \/ net' = Append(net, p) /\ UNCHANGED left
            \/ /\ p.kind = "CONNACK" /\ Fault
               /\ net' = Append(net, [p EXCEPT !.ok = FALSE])
  /\ UNCHANGED << fsm, mq, endp, stack, err, held, app, cloud, sess, history >>

Paired == [kind |-> "PUBLISH", id |-> "CC", req |-> STATE_UA_COMPLETE, topics |-> TRUE]

\* A calm cloud answers the request for the state, after the broker has
\* acknowledged it.
CloudAnswers ==
  /\ ~app.halted /\ cloud = "calm" /\ brk.open /\ brk.asked
  /\ brk.owed = << >> /\ Len(net) < NetMax
  /\ net' = Append(net, Paired)
  /\ brk' = [brk EXCEPT !.asked = FALSE]
  /\ UNCHANGED << fsm, mq, endp, stack, err, held, app, cloud, left, sess, history >>

\* Any other cloud publishes what it wants. A pairing state the library does
\* not know leaves the requested state undefined: it can be any of them.
Publications ==
  {Paired} \cup
  [kind : {"PUBLISH"}, id : {"CC"}, topics : {FALSE},
   req : {STATE_UA_INITIATE, STATE_UA_INPUT_WAIT, STATE_UA_INPUT_MISMATCH,
          STATE_UA_INPUT_TIMEOUT, STATE_UA_COMPLETE}]

CloudPublishes ==
  /\ ~app.halted /\ cloud = "any" /\ brk.open /\ Len(net) < NetMax
  /\ left.shadow > 0 /\ left' = [left EXCEPT !.shadow = @ - 1]
  /\ \/ "CC" \in brk.confirmed /\ \E p \in Publications : net' = Append(net, p)
     \/ "DC" \in brk.confirmed /\ net' = Append(net, [kind |-> "PUBLISH", id |-> "DC"])
  /\ UNCHANGED << fsm, mq, endp, stack, err, held, app, brk, cloud, sess, history >>

PeerCloses ==
  /\ ~app.halted /\ brk.open
  /\ Fault
  /\ brk' = [brk EXCEPT !.open = FALSE]
  /\ \/ net' = Append(net, [kind |-> "EOF"])
     \/ net' = << [kind |-> "RESET"] >>
  /\ UNCHANGED << fsm, mq, endp, stack, err, held, app, cloud, sess, history >>

-----------------------------------------------------------------------------

AppStart == [enabled |-> FALSE, recording |-> FALSE, entered |-> FALSE,
             attached |-> 0, connect_work |-> FALSE,
             paired |-> FALSE, halted |-> FALSE]

NoBroker == [open |-> FALSE, owed |-> << >>, confirmed |-> {}, asked |-> FALSE]

\* main has called nrf_cloud_init and is about to connect.
Boot ==
  [fsm |-> STATE_INITIALIZED, mq |-> mqtt_init, endp |-> FALSE,
   stack |-> [t \in Threads |-> IF t = "main" THEN Frames(cloud_connect) ELSE << >>],
   err |-> [t \in Threads |-> FALSE], held |-> "none", app |-> AppStart,
   net |-> << >>, brk |-> NoBroker]

Init ==
  /\ fsm = Boot.fsm /\ mq = Boot.mq /\ endp = Boot.endp /\ stack = Boot.stack
  /\ err = Boot.err /\ held = Boot.held /\ app = Boot.app
  /\ net = Boot.net /\ brk = Boot.brk
  /\ cloud \in Clouds
  /\ left = [sends |-> MaxSends, faults |-> MaxFaults, shadow |-> MaxShadow]
  /\ sess = 0
  /\ history = {}

\* error_handler has rebooted the device.
Reboot ==
  /\ app.halted /\ sess < MaxSessions
  /\ fsm' = Boot.fsm /\ mq' = Boot.mq /\ endp' = Boot.endp /\ stack' = Boot.stack
  /\ err' = Boot.err /\ held' = Boot.held /\ app' = Boot.app
  /\ net' = Boot.net /\ brk' = Boot.brk
  /\ history' = {}
  /\ UNCHANGED << cloud, left, sess >>

Environment ==
  \/ BrokerAnswers \/ CloudAnswers \/ CloudPublishes \/ PeerCloses \/ PatternEntered

Next ==
  \/ \E t \in Threads : Threading(t)
  \/ ConnectionLost \/ \E n \in 1 .. ReadMax : Read(n)
  \/ PingFails \/ InputProcess
  \/ ConnectWork \/ AppDisconnects
  \/ StreamWork \/ \E id \in Tags : GpsTrigger(id)
  \/ Environment
  \/ Reboot

Spec == Init /\ [][Next]_vars

-----------------------------------------------------------------------------
(* Properties.                                                             *)

TypeOK ==
  /\ fsm \in States /\ mq \in Clients /\ endp \in BOOLEAN
  /\ err \in [Threads -> BOOLEAN] /\ held \in Threads \cup {"none"}
  /\ app.halted \in BOOLEAN /\ app.attached \in 0 .. CounterMod - 1
  /\ brk.confirmed \subseteq {"CC", "DC"} /\ sess \in 0 .. MaxSessions
  /\ history \subseteq Happenings

\* A thread is between mqtt_client_init and mqtt_connect.
Connecting ==
  \E t \in Threads : stack[t] # << >> /\ Statement(t).op = "mqtt connect"

\* The client's table entry, buffers and socket are accounted for: while a
\* connection exists it has one socket, one entry and both buffers, and when
\* none does everything has been given back (nothing is lost when one thread
\* reconnects while another is still inside a callback of the old connection).
ClientResources ==
  /\ mq.listed <=> mq.flags # {}
  /\ mq.socks = IF mq.flags # {} THEN 1 ELSE 0
  /\ mq.tx /\ mq.rx <=> mq.flags # {} \/ Connecting
  /\ mq.used = IF mq.tx THEN SlabBuffers ELSE 0

\* Between two rounds of main's loop the library is in STATE_DC_CONNECTED only
\* in a connection whose control and data channels the broker has confirmed
\* and not given up since, unless a handler overwrote the state or ran out of
\* memory between leaving the data channel and leaving the state.  It is
\* subscribed to only when the cloud has named its topics and nobody has freed
\* them since, as long as the application's identifiers differ from the
\* reserved ones.
ReadyMeansSubscribed ==
  /\ /\ fsm = STATE_DC_CONNECTED /\ mq.flags # {} /\ stack["main"] = << >>
     /\ history \cap {"overwritten", "no memory"} = {}
     => brk.confirmed = {"CC", "DC"}
  /\ \A t \in Threads :
       /\ At(t, "tx") /\ Statement(t).pkt = Subscribe("DC").pkt
       /\ "collision" \notin history
       => endp

\* When the connection is gone and every thread has finished, the
\* application is going to connect again or is about to restart, whatever
\* callback the connection was lost in.
NeverStranded ==
  /\ mq.flags = {} /\ ~app.halted /\ "overwritten" \notin history
  /\ \A t \in Threads : stack[t] = << >>
  => app.connect_work

\* With a cloud that answers, a connection the broker has accepted never comes
\* to rest before it is ready: when no thread has anything to do and nothing is
\* in flight or owed, the application has been told that it is ready, unless
\* a message could not be encoded or a handler overwrote the state.
NeverStalls ==
  /\ cloud = "calm" /\ "CONNECTED" \in mq.flags /\ ~app.halted
  /\ \A t \in Threads : stack[t] = << >>
  /\ net = << >> /\ brk.open /\ brk.owed = << >> /\ ~brk.asked
  /\ history \cap {"overwritten", "no memory"} = {}
  => app.paired

=============================================================================
