----------------------------- MODULE CoapObserve -----------------------------
(***************************************************************************)
(* The tables of the observe extension (coap_observe.c): what a client     *)
(* observes, by token, and who observes the resources of a server, by      *)
(* remote and resource. An entry is free when its token, or its resource,  *)
(* is 0 (response_callback, resource_of_interest are NULL). The search     *)
(* compares as many bytes as the stored token has (coap_observe.c:314-318);*)
(* a client's tokens all have one length (two bytes in the sample), so that *)
(* this compares tokens.                                                    *)
(*                                                                         *)
(* coap_observe.c calls coap_opt_u_decode(), which no file defines; the    *)
(* model takes it for coap_opt_uint_decode().                              *)
(***************************************************************************)
EXTENDS Naturals

CONSTANTS
  MaxObservables,  \* COAP_OBSERVE_MAX_NUM_OBSERVABLES
  MaxObservers     \* COAP_OBSERVE_MAX_NUM_OBSERVERS

ASSUME ObserveAssumption == MaxObservables \in Nat /\ MaxObservers \in Nat

NoObserver == [remote |-> 0, resource |-> 0]

observe_client_init == [i \in 1 .. MaxObservables |-> 0]

observe_server_init == [i \in 1 .. MaxObservers |-> NoObserver]

FirstIndex(S) == IF S = {} THEN 0 ELSE CHOOSE i \in S : \A j \in S : i <= j

------------------------------------------------------------------------------
internal_coap_observe_client_search(t, tok) ==
  FirstIndex({i \in DOMAIN t : t[i] # 0 /\ t[i] = tok})

\* A full table is left as it is: nobody looks at ENOMEM.
internal_coap_observe_client_register(t, tok) ==
  LET i == FirstIndex({j \in DOMAIN t : t[j] = 0})
  IN  IF i = 0 THEN t ELSE [t EXCEPT ![i] = tok]

internal_coap_observe_client_unregister(t, i) ==
  IF i \in DOMAIN t /\ t[i] # 0 THEN [t EXCEPT ![i] = 0] ELSE t

\* A GET with the observe option 1 is about to be sent.
coap_observe_client_send_handle(t, r) ==
  IF r.kind = "dereg"
  THEN internal_coap_observe_client_unregister(t,
         internal_coap_observe_client_search(t, r.tok))
  ELSE t

\* The table after a response as it would be if every answer of an observe
\* request were a new observable.
RegistersEveryAnswer(t, d, found) ==
  IF ~d.observe
  THEN internal_coap_observe_client_unregister(t,
         internal_coap_observe_client_search(t, d.tok))
  ELSE IF found /\ d.code = "205"
       THEN internal_coap_observe_client_register(t, d.tok)
       ELSE t

\* The table after response d; found: its token is in the message queue.
coap_observe_client_response_handle(t, d, found) ==
  LET i == internal_coap_observe_client_search(t, d.tok)
  IN  IF ~d.observe
      THEN internal_coap_observe_client_unregister(t, i)
      ELSE IF found /\ i = 0 /\ d.code = "205"
           THEN internal_coap_observe_client_register(t, d.tok)
           ELSE t

\* A notification calls the application back.
Notifies(t, d, found) ==
  d.observe /\ ~found /\ internal_coap_observe_client_search(t, d.tok) # 0

------------------------------------------------------------------------------
internal_coap_observe_server_search(t, remote, resource) ==
  FirstIndex({i \in DOMAIN t : t[i].resource = resource /\ t[i].remote = remote})

\* An observer that is known keeps its entry; ENOMEM changes nothing.
internal_coap_observe_server_register(t, remote, resource) ==
  LET known == internal_coap_observe_server_search(t, remote, resource)
      free  == FirstIndex({i \in DOMAIN t : t[i].resource = 0})
      i     == IF known # 0 THEN known ELSE free
  IN  IF i = 0 THEN t
      ELSE [t EXCEPT ![i] = [remote |-> remote, resource |-> resource]]

\* Only the resource is cleared, the remote stays behind.
internal_coap_observe_server_unregister(t, i) ==
  IF i \in DOMAIN t /\ t[i].resource # 0
  THEN [t EXCEPT ![i].resource = 0]
  ELSE t

\* The next observer of a resource behind entry start, 0 for none.
internal_coap_observe_server_next_get(t, start, resource) ==
  FirstIndex({i \in DOMAIN t : i > start /\ t[i].resource = resource})
=============================================================================
