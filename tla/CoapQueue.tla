------------------------------ MODULE CoapQueue ------------------------------
(***************************************************************************)
(* The queue of CoAP messages that wait for an answer (coap_queue.c).      *)
(*                                                                         *)
(* q.slot is the array queue[], q.count is message_queue_count. An item:   *)
(*   m        the message it was made for (item->arg: how the application  *)
(*            tells its messages apart)                                    *)
(*   mid      message id                                                   *)
(*   tok      token, 0 for a token of length 0                             *)
(*   timeout, timeout_val, retrans_count                                   *)
(*   buffer   item->buffer is not NULL: the slot is in use                 *)
(* A slot that memset() cleared has message id 0 and no token. The field   *)
(* handle is copied uninitialised and read by nobody: coap_message_abort() *)
(* is not supported.                                                       *)
(***************************************************************************)
EXTENDS Integers, FiniteSets

CONSTANTS
  QueueSize,    \* COAP_MESSAGE_QUEUE_SIZE
  CountSpace    \* the values of message_queue_count, 2^32 in the code

ASSUME QueueAssumption ==
  QueueSize \in Nat \ {0} /\ CountSpace \in Nat /\ CountSpace > QueueSize

Slots == 1 .. QueueSize

NoItem == [m |-> 0, mid |-> 0, tok |-> 0, timeout |-> 0, timeout_val |-> 0,
           retrans_count |-> 0, buffer |-> FALSE]

coap_queue_init == [slot |-> [s \in Slots |-> NoItem], count |-> 0]

Used(q) == {s \in Slots : q.slot[s].buffer}

\* The first slot of a set, 0 when there is none.
First(S) == IF S = {} THEN 0 ELSE CHOOSE s \in S : \A t \in S : s <= t

\* ENOMEM by the counter; the item goes to the first slot that is free.
CanAdd(q) == q.count < QueueSize /\ Used(q) # Slots

coap_queue_add(q, item) ==
  [slot |-> [q.slot EXCEPT ![First(Slots \ Used(q))] = item],
   count |-> (q.count + 1) % CountSpace]

\* coap_queue_remove as it would be if it left the counter alone.
RemoveUncounted(q, s) == [q EXCEPT !.slot[s] = NoItem]

coap_queue_remove(q, s) ==
  [slot |-> [q.slot EXCEPT ![s] = NoItem],
   count |-> (q.count + CountSpace - 1) % CountSpace]

coap_queue_item_by_token_get(q, tok) ==
  First({s \in Slots : tok # 0 /\ q.slot[s].tok = tok})

\* A cleared slot is not told from one in use.
coap_queue_item_by_mid_get(q, mid) == First({s \in Slots : q.slot[s].mid = mid})

coap_queue_item_next_get(q, start) == First({s \in Used(q) : s > start})
=============================================================================
