---------------------------- MODULE CoapTransport ----------------------------
(***************************************************************************)
(* The socket transport of CoAP (coap_transport_socket.c) with one port    *)
(* (COAP_PORT_COUNT is 1 by default) and a table of secure sessions.       *)
(*                                                                         *)
(*   t.port[i]   port_table[i].socket_fd, 0 when the entry is cleared;     *)
(*               entry 0 is the port, entry i the one of session i         *)
(*   t.local[i]  its local address                                         *)
(*   t.sess[i]   the remote of session_table[i], 0 for none; .used: its    *)
(*               local pointer is set                                      *)
(*   t.open      sockets that are open (the BSD socket library: external)  *)
(***************************************************************************)
EXTENDS Naturals, FiniteSets

CONSTANT Sessions      \* COAP_SESSION_COUNT

ASSUME SessionsAssumption == Sessions \in Nat

Entries == 0 .. Sessions

\* socket(): the lowest descriptor that is free.
socket(t) == CHOOSE fd \in 1 .. (Cardinality(t.open) + 1) :
               fd \notin t.open /\ \A g \in 1 .. (fd - 1) : g \in t.open

\* A socket that cannot be configured or bound is closed again and changes no
\* entry: the slots in the set fail of coap_security_setup() below.
socket_create_and_bind(t, i, local) ==
  LET fd == socket(t)
  IN  [t EXCEPT !.port[i] = fd, !.local[i] = local, !.open = @ \cup {fd}]

\* coap_transport_init() of a module that was not used before.
coap_transport_init ==
  socket_create_and_bind([port  |-> [i \in Entries |-> 0],
                          local |-> [i \in Entries |-> 0],
                          sess  |-> [i \in 1 .. Sessions |-> [used |-> FALSE, remote |-> 0]],
                          open  |-> {}], 0, 1)

session_free(t, i) ==
  [t EXCEPT !.open = @ \ {t.port[i]}, !.port[i] = 0, !.local[i] = 0,
            !.sess[i] = [used |-> FALSE, remote |-> 0]]

Least(S) == IF S = {} THEN 0 ELSE CHOOSE i \in S : \A j \in S : i <= j

session_find(t, local, remote) ==
  Least({i \in 1 .. Sessions : t.sess[i].used /\ t.sess[i].remote = remote
                                              /\ t.local[i] = local})

\* -1 in the code is Sessions + 1 here.
local_endpoint_find(t, fd) ==
  LET S == {i \in Entries : t.port[i] = fd}
  IN  IF S = {} THEN Sessions + 1 ELSE CHOOSE i \in S : \A j \in S : i <= j

secure_endpoint_check(i) == i > 0

\* coap_security_setup(): a session that exists is used again; otherwise the
\* first free slot whose socket binds is taken (fail: the slots whose does
\* not), and given back when connect() fails.
coap_security_setup(t, local, remote, fail, connects) ==
  LET i  == Least({j \in 1 .. Sessions : ~t.sess[j].used /\ j \notin fail})
      t1 == [socket_create_and_bind(t, i, local) EXCEPT !.sess[i].used = TRUE]
  IN  IF session_find(t, local, remote) # 0 \/ i = 0 THEN t
      ELSE IF connects THEN [t1 EXCEPT !.sess[i].remote = remote]
      ELSE session_free(t1, i)

\* coap_security_destroy() of a transport the application was given.
coap_security_destroy(t, fd) ==
  LET i == local_endpoint_find(t, fd)
  IN  IF i \in Entries /\ secure_endpoint_check(i) THEN session_free(t, i) ELSE t

\* coap_transport_write() reaches the network only through a known socket.
coap_transport_write(t, fd) == local_endpoint_find(t, fd) \in Entries
=============================================================================
