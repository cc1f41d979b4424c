---------------------------- MODULE NrfCloudFsm ------------------------------
(***************************************************************************)
(* The connection state machine of nRF Cloud (nrf_cloud_fsm.c): which      *)
(* handler serves a transport event in which state, and what it does.      *)
(*                                                                         *)
(* A handler is the sequence of the statements it executes. A statement    *)
(* that sends can be overtaken by other threads and can fail, so a handler *)
(* is not one step: whoever calls it executes its statements in order.     *)
(***************************************************************************)
EXTENDS Naturals, Sequences

\* enum nfsm_state; the API compares states as numbers.
STATE_IDLE == 0
STATE_INITIALIZED == 1
STATE_CONNECTED == 2
STATE_CC_CONNECTING == 3
STATE_CC_CONNECTED == 4
STATE_CLOUD_STATE_REQUESTED == 5
STATE_UA_INITIATE == 6
STATE_UA_INPUT_WAIT == 7
STATE_UA_INPUT_MISMATCH == 8
STATE_UA_INPUT_TIMEOUT == 9
STATE_UA_COMPLETE == 10
STATE_DC_CONNECTING == 11
STATE_DC_CONNECTED == 12
STATE_ERROR == 15
States == 0 .. 15

\* Message identifiers the library reserves, and any other one.
CLOUD_STATE_REQ_ID == "state request"
INITIATE_STATUS_REPORT_ID == "initiate report"
PAIRING_STATUS_REPORT_ID == "pairing report"
DEFAULT_REPORT_ID == "default report"
CC_UA_DATA_ID == "association data"
ReservedIds == {CLOUD_STATE_REQ_ID, INITIATE_STATUS_REPORT_ID,
                PAIRING_STATUS_REPORT_ID, DEFAULT_REPORT_ID, CC_UA_DATA_ID}

-----------------------------------------------------------------------------
(* Statements.                                                             *)

\* nfsm_set_current_state_and_notify(s, e); e = "none" is NULL.
Set(s, e) == [op |-> "set", state |-> s, evt |-> e]

\* A packet is sent. If it is encoded first and there is no memory for that,
\* the function returns.
Transmit(kind, id, qos, encoded) ==
  [op |-> "tx", encoded |-> encoded, pkt |-> [kind |-> kind, id |-> id, qos |-> qos]]

\* nct_cc_send without and with a document, nct_cc_connect and nct_dc_connect,
\* nct_dc_disconnect, mqtt_disconnect.
Publish(id) == Transmit("PUBLISH", id, 1, FALSE)
Report(id) == Transmit("PUBLISH", id, 1, TRUE)
Subscribe(ch) == Transmit("SUBSCRIBE", ch, 1, FALSE)
Unsubscribe(ch) == Transmit("UNSUBSCRIBE", ch, 1, FALSE)
Disconnect == Transmit("DISCONNECT", "none", 0, FALSE)

\* After a packet: if (err) { stmts; return err; }
ReturnIfErr(stmts) == [op |-> "iferr", then |-> stmts]

\* nct_dc_endpoint_set and dc_endpoint_free.
EndpointSet == [op |-> "endpoint set"]
EndpointFree == [op |-> "endpoint free"]

\* Set the state that is current by then and notify.
SetCurrent(e) == [op |-> "set current", evt |-> e]

-----------------------------------------------------------------------------
(* Handlers.                                                               *)

state_ua_initiate ==
  << Report(INITIATE_STATUS_REPORT_ID), Set(STATE_UA_INITIATE, "none") >>

state_ua_input_wait ==
  << Report(DEFAULT_REPORT_ID),
     Set(STATE_UA_INPUT_WAIT, "USER_ASSOCIATION_REQUEST") >>

state_ua_complete ==
  << Report(PAIRING_STATUS_REPORT_ID),
     Set(STATE_UA_COMPLETE, "USER_ASSOCIATED") >>

\* A mismatch is reported and the pattern is asked for again.
state_ua_mismatch == state_ua_input_wait

drop_event_handler == << >>

connection_handler(ok) ==
  IF ~ok THEN << Set(STATE_CONNECTED, "ERROR") >>
  ELSE << Set(STATE_CONNECTED, "TRANSPORT_CONNECTED"), Subscribe("CC"),
          ReturnIfErr(<< >>), Set(STATE_CC_CONNECTING, "none") >>

\* The application is not told that the connection is gone.
SilentDisconnection == << Set(STATE_INITIALIZED, "none") >>

disconnection_handler == << Set(STATE_INITIALIZED, "TRANSPORT_DISCONNECTED") >>

\* The state of the device is not requested from the cloud.
NoRequest(ok) ==
  IF ~ok THEN << Set(STATE_ERROR, "ERROR") >>
  ELSE << Set(STATE_CC_CONNECTED, "none"), Set(STATE_CLOUD_STATE_REQUESTED, "none") >>

cc_connection_handler(ok) ==
  IF ~ok THEN << Set(STATE_ERROR, "ERROR") >>
  ELSE << Set(STATE_CC_CONNECTED, "none"), Publish(CLOUD_STATE_REQ_ID),
          ReturnIfErr(<< Set(STATE_CONNECTED, "ERROR") >>),
          Set(STATE_CLOUD_STATE_REQUESTED, "none") >>

\* req is what nrf_cloud_decode_requested_state has found: a state, or
\* "invalid" when it fails. topics says whether
\* nrf_cloud_decode_data_endpoint finds the data topics.
initiate_n_complete_request_handler(req, topics) ==
  CASE req = STATE_UA_INITIATE -> state_ua_initiate
    [] req = STATE_UA_INPUT_WAIT -> state_ua_input_wait
    [] req = STATE_UA_COMPLETE /\ topics -> << EndpointSet >> \o state_ua_complete
    [] OTHER -> << >>

all_ua_request_handler(req, topics) ==
  CASE req = STATE_UA_INITIATE -> state_ua_initiate
    [] req = STATE_UA_INPUT_WAIT -> state_ua_input_wait
    [] req = STATE_UA_COMPLETE /\ topics ->
         << EndpointSet, [op |-> "call", body |-> state_ua_complete],
            EndpointFree, Disconnect >>
    [] req = STATE_UA_INPUT_MISMATCH -> state_ua_mismatch
    [] req = STATE_UA_INPUT_TIMEOUT -> << Set(STATE_ERROR, "ERROR") >>
    [] OTHER -> << >>

initiate_cmd_handler(req) ==
  IF req = STATE_UA_INITIATE THEN state_ua_initiate ELSE << >>

initiate_cmd_in_dc_conn_handler(req) ==
  IF req = STATE_UA_INITIATE
  THEN << Unsubscribe("DC") >> \o state_ua_initiate
  ELSE << >>

\* cc_tx_cnf_handler as it would be if it did not wait for the SUBACK.
ReadyAtOnce(id) ==
  IF id = PAIRING_STATUS_REPORT_ID
  THEN << Subscribe("DC"), ReturnIfErr(<< >>), Set(STATE_DC_CONNECTED, "READY") >>
  ELSE << >>

cc_tx_cnf_handler(id) ==
  CASE id = CLOUD_STATE_REQ_ID -> << Set(STATE_CLOUD_STATE_REQUESTED, "none") >>
    [] id = PAIRING_STATUS_REPORT_ID ->
         << Subscribe("DC"), ReturnIfErr(<< >>), Set(STATE_DC_CONNECTING, "none") >>
    [] OTHER -> << >>

cc_tx_cnf_in_state_requested_handler(id) ==
  IF id = CLOUD_STATE_REQ_ID
  THEN << Set(STATE_CLOUD_STATE_REQUESTED, "none") >> ELSE << >>

dc_connection_handler(ok) ==
  IF ok THEN << Set(STATE_DC_CONNECTED, "READY") >> ELSE << >>

dc_rx_data_handler == << SetCurrent("RX_DATA") >>

-----------------------------------------------------------------------------
(* The transition tables.                                                  *)

ConnectedStates ==
  {STATE_CONNECTED, STATE_CC_CONNECTING, STATE_CC_CONNECTED,
   STATE_CLOUD_STATE_REQUESTED, STATE_UA_INITIATE, STATE_UA_INPUT_WAIT,
   STATE_UA_COMPLETE, STATE_DC_CONNECTING, STATE_DC_CONNECTED}

ControlData(s, e) ==
  CASE s \in {STATE_CC_CONNECTED, STATE_CLOUD_STATE_REQUESTED} ->
         initiate_n_complete_request_handler(e.req, e.topics)
    [] s \in {STATE_UA_INITIATE, STATE_UA_INPUT_WAIT} ->
         all_ua_request_handler(e.req, e.topics)
    [] s = STATE_UA_COMPLETE -> initiate_cmd_handler(e.req)
    [] s \in {STATE_DC_CONNECTING, STATE_DC_CONNECTED} ->
         initiate_cmd_in_dc_conn_handler(e.req)
    [] OTHER -> drop_event_handler

Confirmation(s, id) ==
  CASE s \in {STATE_CLOUD_STATE_REQUESTED, STATE_UA_INITIATE} ->
         cc_tx_cnf_in_state_requested_handler(id)
    [] s \in {STATE_UA_INPUT_WAIT, STATE_UA_COMPLETE, STATE_DC_CONNECTING,
              STATE_DC_CONNECTED} -> cc_tx_cnf_handler(id)
    [] OTHER -> drop_event_handler

nfsm_handle_incoming_event(s, e) ==
  CASE e.type = "CONNECTED" /\ s = STATE_INITIALIZED -> connection_handler(e.ok)
    [] e.type = "DISCONNECTED" /\ s \in ConnectedStates -> disconnection_handler
    [] e.type = "CC_CONNECTED" /\ s = STATE_CC_CONNECTING ->
         cc_connection_handler(e.ok)
    [] e.type = "DC_CONNECTED" /\ s = STATE_DC_CONNECTING ->
         dc_connection_handler(e.ok)
    [] e.type = "CC_RX_DATA" -> ControlData(s, e)
    [] e.type = "CC_TX_DATA_CNF" -> Confirmation(s, e.id)
    [] e.type = "DC_RX_DATA" /\ s = STATE_DC_CONNECTED -> dc_rx_data_handler
    [] OTHER -> drop_event_handler
=============================================================================
