------------------------------ MODULE GattPool ------------------------------
(* subsys/bluetooth/gatt_pool.c: the pools that the attributes of a service *)
(* are built from.  A pool is the set of its locked elements; g holds the   *)
(* pools of 16-bit UUIDs, characteristics and CCC descriptors (the HID      *)
(* service uses no longer UUID) and the attribute table of the service.     *)
EXTENDS Integers, Sequences, FiniteSets, FiniteSetsExt, SequencesExt

CONSTANTS UUID16_POOL_SIZE, CHRC_POOL_SIZE, CCC_POOL_SIZE, ATTR_MAX

ASSUME PoolSizes ==
  {UUID16_POOL_SIZE, CHRC_POOL_SIZE, CCC_POOL_SIZE, ATTR_MAX} \subseteq Nat

EmptyPools == [uuid |-> {}, chrc |-> {}, ccc |-> {}, attrs |-> <<>>]

(* The lowest element that is not locked, or the size of the pool: that is  *)
(* only asserted against, and is then the index of an element past the end. *)
free_element_find(locked, size) ==
  IF 0 .. size - 1 \subseteq locked THEN size
  ELSE Min((0 .. size - 1) \ locked)

(* An attribute of a kind: its own UUID and what its user data points to,   *)
(* the UUID of the service, the characteristic with the UUID of its value,  *)
(* or the CCC descriptor.                                                   *)
Uuid(g, taken) == free_element_find(g.uuid \cup taken, UUID16_POOL_SIZE)

Attr(kind, uuid, data, uuid2) ==
  [kind |-> kind, uuid |-> uuid, data |-> data, uuid2 |-> uuid2]

NoElement == -1

Append1(g, a) ==
  [g EXCEPT !.attrs = Append(@, a),
            !.uuid = @ \cup {a.uuid} \cup ({a.uuid2} \ {NoElement})]

bt_gatt_pool_svc_get(g) ==
  LET u == Uuid(g, {}) IN
  Append1(g, Attr("svc", u, NoElement, Uuid(g, {u})))

bt_gatt_pool_chrc_get(g) ==
  LET u == Uuid(g, {})
      c == free_element_find(g.chrc, CHRC_POOL_SIZE) IN
  [Append1(g, Attr("chrc", u, c, Uuid(g, {u}))) EXCEPT !.chrc = @ \cup {c}]

bt_gatt_pool_desc_get(g) ==
  Append1(g, Attr("desc", Uuid(g, {}), NoElement, NoElement))

bt_gatt_pool_ccc_get(g) ==
  LET c == free_element_find(g.ccc, CCC_POOL_SIZE) IN
  [Append1(g, Attr("ccc", Uuid(g, {}), c, NoElement)) EXCEPT
     !.ccc = @ \cup {c}]

PoolGet(g, kind) ==
  CASE kind = "svc"  -> bt_gatt_pool_svc_get(g)
    [] kind = "chrc" -> bt_gatt_pool_chrc_get(g)
    [] kind = "desc" -> bt_gatt_pool_desc_get(g)
    [] kind = "ccc"  -> bt_gatt_pool_ccc_get(g)

(* The elements go back by what the caller takes the attribute for.         *)
KeepsValueUuid(g, a) ==
  [g EXCEPT !.uuid = @ \ {a.uuid}, !.chrc = @ \ {a.data}]

bt_gatt_pool_svc_put(g, a) == [g EXCEPT !.uuid = @ \ {a.uuid, a.uuid2}]
bt_gatt_pool_chrc_put(g, a) ==
  [g EXCEPT !.uuid = @ \ {a.uuid, a.uuid2}, !.chrc = @ \ {a.data}]
bt_gatt_pool_desc_put(g, a) == [g EXCEPT !.uuid = @ \ {a.uuid}]
bt_gatt_pool_ccc_put(g, a) ==
  [g EXCEPT !.uuid = @ \ {a.uuid}, !.ccc = @ \ {a.data}]

PoolPut(g, kind, a) ==
  CASE kind = "svc"  -> bt_gatt_pool_svc_put(g, a)
    [] kind = "chrc" -> bt_gatt_pool_chrc_put(g, a)
    [] kind = "desc" -> bt_gatt_pool_desc_put(g, a)
    [] kind = "ccc"  -> bt_gatt_pool_ccc_put(g, a)

(* What the attributes of the table hold of each pool.                      *)
HeldUuids(g) ==
  { a.uuid : a \in Range(g.attrs) } \cup
  ({ a.uuid2 : a \in Range(g.attrs) } \ {NoElement})
HeldData(g, kind) ==
  { g.attrs[i].data : i \in { j \in DOMAIN g.attrs : g.attrs[j].kind = kind } }

(* Every locked element belongs to one attribute and is one of the pool.    *)
PoolsBalanced(g) ==
  /\ g.uuid = HeldUuids(g) /\ g.uuid \subseteq 0 .. UUID16_POOL_SIZE - 1
  /\ g.chrc = HeldData(g, "chrc") /\ g.chrc \subseteq 0 .. CHRC_POOL_SIZE - 1
  /\ g.ccc = HeldData(g, "ccc") /\ g.ccc \subseteq 0 .. CCC_POOL_SIZE - 1
  /\ Cardinality(g.uuid) =
       Len(g.attrs) + Len(SelectSeq(g.attrs, LAMBDA a : a.uuid2 # NoElement))
  /\ Len(g.attrs) <= ATTR_MAX
=============================================================================
