------------------------------- MODULE GattDm -------------------------------
(***************************************************************************)
(* The GATT discovery manager (subsys/bluetooth/gatt_dm.c): it finds one   *)
(* service, stores its attributes in a table and their data in memory      *)
(* chunks, reports the result, and stays locked until the data are         *)
(* released.  The operators take and return the instance dm.               *)
(*                                                                         *)
(* A peer is [chars, hids, ...]: whether it has the service looked for and *)
(* the characteristics of the service, each [uuid, props, descs].  The     *)
(* stack reports attributes and characteristics in the order of their      *)
(* handles, so the table is a prefix of the service: its length says it    *)
(* all.                                                                    *)
(*                                                                         *)
(* k_malloc() may fail: heap says whether it succeeds, full is the set of  *)
(* stores of a step, by number, in which it does not.  Where the code goes *)
(* through a null pointer or beyond its array, dm.fault is set, and what   *)
(* dm is after that means nothing.                                         *)
(***************************************************************************)
EXTENDS Naturals, Sequences, FiniteSets, FiniteSetsExt

CONSTANTS
  MaxAttrs,   \* CONFIG_BT_GATT_DM_MAX_ATTRS
  MaxChunks,  \* CONFIG_BT_GATT_DM_MAX_MEM_CHUNKS
  ChunkSize,  \* CHUNK_SIZE
  DataSize    \* bytes of a stored value: [uuid, service_val, chrc]

ASSUME DataFits ==
  /\ MaxChunks \in Nat \ {0} /\ ChunkSize \in Nat
  /\ DataSize \in [{"uuid", "service_val", "chrc"} -> 0 .. ChunkSize]

\* Attributes of the service: its declaration, and for each characteristic
\* the declaration, the value and the descriptors.
AttrCount(peer) ==
  1 + FoldSet(LAMBDA i, n : n + 2 + Cardinality(peer.chars[i].descs),
                            0, DOMAIN peer.chars)

\* The first service of every peer: Generic Access.
GenericAccess ==
  [hids |-> FALSE,
   chars |-> [i \in 1 .. 2 |-> [uuid |-> <<"DEVICE_NAME", "APPEARANCE">>[i],
                                props |-> {}, descs |-> {}]]]

DmInit ==
  [locked |-> FALSE, pending |-> FALSE, phase |-> "none",
   cur_attr_id |-> 0,    \* attributes stored
   chrcs |-> 0,          \* characteristic declarations with their data stored
   chunks |-> {},        \* data_chunk.chunks that are not NULL
   cur_id |-> 0, cur_len |-> 0,
   any |-> FALSE,        \* discover_params.uuid = NULL: any service will do
   fault |-> FALSE,
   cb |-> "none"]        \* the callback this step calls

-----------------------------------------------------------------------------
(* Memory.                                                                 *)

\* k_malloc() of the chunk at the index, and the len bytes taken from it.
NewChunk(dm, len, heap) ==
  IF heap THEN [ok |-> TRUE, dm |-> [dm EXCEPT !.chunks = @ \cup {dm.cur_id}, !.cur_len = len]]
  ELSE [ok |-> FALSE, dm |-> [dm EXCEPT !.cur_len = 0]]

\* user_data_store(): NULL when the chunks are used up.  The next chunk has
\* to be free, and its index is advanced before it is looked at.
user_data_store(dm, kind, heap) ==
  LET len == DataSize[kind]
      next == [dm EXCEPT !.cur_id = @ + 1]
  IN  CASE dm.cur_id \notin dm.chunks -> NewChunk(dm, len, heap /\ dm.cur_id < MaxChunks)
        [] dm.cur_id \in dm.chunks /\ dm.cur_len + len <= ChunkSize ->
             [ok |-> TRUE, dm |-> [dm EXCEPT !.cur_len = @ + len]]
        [] OTHER -> IF next.cur_id \in next.chunks \/ next.cur_id >= MaxChunks
                    THEN [ok |-> FALSE, dm |-> next] ELSE NewChunk(next, len, heap)

uuid_store(dm, heap) == user_data_store(dm, "uuid", heap)

Fault(dm) == [dm EXCEPT !.fault = TRUE]

\* The chunks up to the current one are freed; when all are used up, so is
\* what comes behind the array.
svc_attr_memory_release(dm) ==
  IF dm.cur_id >= MaxChunks THEN Fault(dm)
  ELSE [dm EXCEPT !.cur_attr_id = 0, !.chrcs = 0, !.chunks = @ \ (0 .. dm.cur_id),
                  !.cur_id = 0, !.cur_len = 0]

attr_store(dm) ==
  IF dm.cur_attr_id >= MaxAttrs THEN [ok |-> FALSE, dm |-> dm]
  ELSE [ok |-> TRUE, dm |-> [dm EXCEPT !.cur_attr_id = @ + 1]]

-----------------------------------------------------------------------------
(* Discovery.  failed says that bt_gatt_discover() returned an error.      *)

discovery_complete(dm) ==
  [dm EXCEPT !.pending = TRUE, !.phase = "none", !.cb = "completed"]

Unlock(dm) == [svc_attr_memory_release(dm) EXCEPT !.locked = FALSE, !.phase = "none"]

discovery_complete_not_found(dm) == [Unlock(dm) EXCEPT !.cb = "service_not_found"]

ErrorKeepsLock(dm) ==
  [svc_attr_memory_release(dm) EXCEPT !.phase = "none", !.cb = "error_found"]

discovery_complete_error(dm) == [Unlock(dm) EXCEPT !.cb = "error_found"]

\* The value of the service is written to before it is tested for NULL.
discovery_process_service(dm, found, failed, full) ==
  LET attr == attr_store(dm)
      uuid == uuid_store(attr.dm, 1 \notin full)
      val == user_data_store(uuid.dm, "service_val", 2 \notin full)
      val_uuid == uuid_store(val.dm, 3 \notin full)
  IN  CASE ~found -> discovery_complete_not_found(dm)
        [] found /\ ~attr.ok -> discovery_complete_error(dm)
        [] found /\ attr.ok /\ ~val.ok -> Fault(val.dm)
        [] found /\ attr.ok /\ val.ok ->
             IF ~uuid.ok \/ ~val_uuid.ok \/ failed THEN discovery_complete_error(val_uuid.dm)
             ELSE [val_uuid.dm EXCEPT !.phase = "ATTRIBUTE"]

discovery_process_attribute(dm, found, failed, full) ==
  IF found
  THEN LET attr == attr_store(dm)
           uuid == uuid_store(attr.dm, 1 \notin full)
       IN  IF ~attr.ok THEN discovery_complete_error(dm)
           ELSE IF uuid.ok THEN uuid.dm ELSE discovery_complete_error(uuid.dm)
  ELSE IF dm.cur_attr_id > 1
       THEN IF failed THEN discovery_complete_error(dm)
            ELSE [dm EXCEPT !.phase = "CHARACTERISTIC"]
       ELSE discovery_complete(dm)

\* So is the value of a characteristic.
discovery_process_characteristic(dm, found, full) ==
  LET val == user_data_store(dm, "chrc", 1 \notin full)
      uuid == uuid_store(val.dm, 2 \notin full)
  IN  CASE ~found -> discovery_complete(dm)
        [] found /\ ~val.ok -> Fault(val.dm)
        [] found /\ val.ok -> IF uuid.ok THEN [uuid.dm EXCEPT !.chrcs = @ + 1]
                              ELSE discovery_complete_error(uuid.dm)

\* The service a discovery finds at the peer, if there is one.
Service(dm, peer) == IF dm.any THEN GenericAccess ELSE peer

\* The stack ends a discovery that lost its connection with a call for no
\* connection, which is not the one the instance was started with.
discovery_callback(dm, peer, connected, failed, full) ==
  LET service == Service(dm, peer)
  IN  CASE ~connected -> discovery_complete_error(dm)
        [] connected /\ dm.phase = "PRIMARY" ->
             discovery_process_service(dm, dm.any \/ peer.hids, failed, full)
        [] connected /\ dm.phase = "ATTRIBUTE" ->
             discovery_process_attribute(dm, dm.cur_attr_id < AttrCount(service), failed, full)
        [] connected /\ dm.phase = "CHARACTERISTIC" ->
             discovery_process_characteristic(dm, dm.chrcs < Len(service.chars), full)

\* bt_gatt_dm_start(): -EALREADY while locked.  When the UUID cannot be
\* stored, the discovery is started without one.
bt_gatt_dm_start(dm, failed, heap) ==
  IF dm.locked THEN dm
  ELSE LET r == uuid_store([dm EXCEPT !.locked = TRUE, !.cur_attr_id = 0,
                                      !.chrcs = 0, !.cur_len = 0, !.cur_id = 0], heap)
       IN  IF failed THEN [r.dm EXCEPT !.locked = FALSE, !.any = ~r.ok]
           ELSE [r.dm EXCEPT !.phase = "PRIMARY", !.any = ~r.ok]

\* bt_gatt_dm_data_release(): -EALREADY unless a result is waiting.
bt_gatt_dm_data_release(dm) ==
  IF dm.pending THEN [Unlock(dm) EXCEPT !.pending = FALSE] ELSE dm

-----------------------------------------------------------------------------
(* The table, as the clients read it.                                      *)

\* The n-th characteristic, or NULL: bt_gatt_dm_char_next() in a loop.
bt_gatt_dm_char_by_uuid(peer, uuid) ==
  LET is == {i \in DOMAIN peer.chars : peer.chars[i].uuid = uuid}
  IN  IF is = {} THEN 0 ELSE Min(is)

bt_gatt_dm_desc_by_uuid(peer, i, uuid) == uuid \in peer.chars[i].descs
=============================================================================
