----------------------------- MODULE MqttClient ------------------------------
(***************************************************************************)
(* The MQTT client (subsys/net/lib/mqtt_socket): the state of one client   *)
(* instance, the table of clients, the slab its packet buffers come from   *)
(* and its socket.                                                         *)
(*                                                                         *)
(* Every operation runs under mqtt_mutex; the operators below are what the *)
(* functions do between a lock and the next unlock, as functions of the    *)
(* client m:                                                               *)
(*   flags    client->state, the set of the flags that are raised          *)
(*   listed   the table of clients holds this client                       *)
(*   tx, rx   client->tx_buf, client->rx_buf are not NULL                  *)
(*   used     blocks of mqtt_slab that are allocated                       *)
(*   socks    sockets the client has opened and not closed                 *)
(*   datalen  client->rx_buf_datalen, in packets                           *)
(* There is one client (MQTT_MAX_CLIENTS is 1 by default) and no packet is *)
(* longer than the buffers. MQTT_STATE_PENDING_WRITE is raised and lowered *)
(* under one lock, so no step of another thread sees it.                   *)
(***************************************************************************)
EXTENDS Naturals, FiniteSets

Flags == {"TCP_CONNECTED", "CONNECTED", "DISCONNECTING"}

SlabBuffers == 2

Clients == [flags : SUBSET Flags, listed : BOOLEAN, tx : BOOLEAN, rx : BOOLEAN,
            used : 0 .. SlabBuffers, socks : Nat, datalen : Nat]

mqtt_init == [flags |-> {}, listed |-> FALSE, tx |-> FALSE, rx |-> FALSE,
              used |-> 0, socks |-> 0, datalen |-> 0]

Blocks(b) == IF b THEN 1 ELSE 0

\* client_free as it would be if the receive buffer were forgotten.
FreeTxOnly(m) ==
  [m EXCEPT !.flags = {}, !.tx = FALSE, !.used = @ - Blocks(m.tx)]

client_free(m) ==
  [m EXCEPT !.flags = {}, !.tx = FALSE, !.rx = FALSE,
            !.used = @ - Blocks(m.tx) - Blocks(m.rx)]

\* The instance is zeroed whatever it held; the buffers are the blocks the
\* slab still has.
client_init(m) ==
  LET tx == m.used < SlabBuffers
      rx == m.used + Blocks(tx) < SlabBuffers
  IN  [m EXCEPT !.flags = {}, !.datalen = 0, !.tx = tx, !.rx = rx,
                !.used = @ + Blocks(tx) + Blocks(rx)]

mqtt_client_init(m) == client_init(m)

\* mqtt_connect has a table entry and both buffers.
CanConnect(m) == ~m.listed /\ m.tx /\ m.rx

\* The transport is connected and the CONNECT packet is about to be written.
TransportConnected(m) ==
  [m EXCEPT !.listed = TRUE, !.flags = @ \cup {"TCP_CONNECTED"}, !.socks = @ + 1]

\* The end of a mqtt_connect that failed.
ConnectFailed(m) == [client_free(m) EXCEPT !.listed = FALSE]

\* mqtt_connect finds no free entry or no buffers: the entry, if it was taken
\* by this call, keeps the client.
NoMemory(m) == [client_free(m) EXCEPT !.listed = TRUE]

\* verify_tx_state returns 0.
verify_tx_state(m) == "CONNECTED" \in m.flags

\* Whether client_disconnect acts; otherwise it returns -EACCES.
Disconnectable(m) == m.flags \cap {"TCP_CONNECTED", "DISCONNECTING"} # {}

\* The transport is closed, the client leaves the table and is freed.
disconnect_event_notify(m) ==
  [client_free(m) EXCEPT !.listed = FALSE, !.socks = @ - 1]

\* The event disconnect_event_notify reports.
LostEvent(m) ==
  IF m.flags \cap {"CONNECTED", "DISCONNECTING"} # {}
  THEN [type |-> "DISCONNECT", ok |-> TRUE]
  ELSE [type |-> "CONNACK", ok |-> FALSE]

\* mqtt_disconnect after its packet is written.
Disconnecting(m) == [m EXCEPT !.flags = {"DISCONNECTING"}]

\* mqtt_handle_packet for a CONNACK with return code accepted.
ConnectionAccepted(m) == [m EXCEPT !.flags = @ \cup {"CONNECTED"}]

\* client_read takes n packets from the socket and, when they are handled,
\* flushes them.
Received(m, n) == [m EXCEPT !.datalen = @ + n]
Flushed(m, n) == [m EXCEPT !.datalen = @ - n]

\* The packets that were handled are more than the buffer is said to hold.
Overrun(m, n) == n > m.datalen
=============================================================================
