-------------------------- MODULE HidCentralProofs --------------------------
(***************************************************************************)
(* Proofs about the HID central of HidCentral, for every set of peers, all *)
(* memory sizes and every number of connections, failing calls, changes of *)
(* the USB state and configuration requests.                               *)
(***************************************************************************)
EXTENDS HidCentral, FiniteSetTheorems, SequenceTheorems, TLAPS

-----------------------------------------------------------------------------
(* The inductive invariant.                                                *)

UsbStates == {"DISCONNECTED", "POWERED", "ACTIVE", "SUSPENDED"}
Answers == {"SUCCESS", "WRITE_ERROR", "DISCONNECTED_ERROR"}

Event ==
  [type : {"complete", "ble_state_ready", "ble_bond_ready", "sent", "forward"}]
    \cup [type : {"peer"}, state : {"CONNECTED", "CONN_FAILED", "SECURED", "DISCONNECTED"}]
    \cup [type : {"forwarded"}, status : Answers]
    \cup [type : {"mouse"}, sub : BOOLEAN]
    \cup [type : {"usb"}, state : UsbStates]
    \cup [type : {"subscription"}, enabled : BOOLEAN]

Dm == [locked : BOOLEAN, pending : BOOLEAN,
       phase : {"none", "PRIMARY", "ATTRIBUTE", "CHARACTERISTIC"},
       cur_attr_id : Nat, chrcs : Nat, chunks : SUBSET Nat,
       cur_id : Nat, cur_len : Nat,
       any : BOOLEAN, fault : BOOLEAN,
       cb : {"none", "completed", "service_not_found", "error_found"}]

\* The events of some types in a queue.
Has(q, S) == Cardinality({i \in DOMAIN q : q[i].type \in S})

Reporting == {"mouse", "sent"}
Answering == {"forward", "forwarded"}

(***************************************************************************)
(* The discovery manager between two steps: no callback is under way, a    *)
(* result waits only once its discovery has ended.                         *)
(***************************************************************************)
MemoryHeld(d) ==
  /\ d.chunks \subseteq 0 .. d.cur_id
  /\ \A n \in d.chunks : n < MaxChunks

DmOK(d) ==
  /\ d \in Dm /\ ~d.fault
  /\ d.locked <=> d.phase # "none" \/ d.pending
  /\ d.phase # "none" => ~d.pending
  /\ MemoryHeld(d) /\ d.cur_id < MaxChunks
  /\ ~d.locked => d.chunks \subseteq {0}

(* As many results in the queue as wait for their release: one or none.    *)
(* After a fatal error only its cause is known.                            *)
DmInv ==
  IF dm.fault THEN dm.cur_id >= MaxChunks \/ seen.failed
  ELSE /\ DmOK(dm) /\ dm.cb = "none"
       /\ Has(queue, {"complete"}) = IF dm.pending THEN 1 ELSE 0

(* The report on its way is an event or in the endpoint.                   *)
UsbType ==
  /\ fwd \in [usb_id : BOOLEAN, usb_ready : BOOLEAN, usb_busy : BOOLEAN,
              next_event : BOOLEAN]
  /\ usb \in [state : UsbStates, before_suspend : UsbStates, endpoint : Nat]
  /\ seen \in [failed : BOOLEAN, conn_failed : BOOLEAN, dropped : BOOLEAN]

OnItsWay == Has(queue, Reporting) + usb.endpoint

ReportInv ==
  /\ OnItsWay <= 1
  /\ fwd.next_event => fwd.usb_busy
  /\ OnItsWay = 1 => fwd.usb_busy
  /\ fwd.usb_busy /\ ~seen.dropped => OnItsWay = 1

(* Only the dongle has a host that waits for an answer.                    *)
ConfigInv ==
  forward_status = "PENDING" =>
    app = "dongle" /\ (att # {} \/ Has(queue, Answering) > 0)

CentralInv == queue \in Seq(Event) /\ DmInv /\ UsbType /\ ReportInv /\ ConfigInv

-----------------------------------------------------------------------------
(* Queues.                                                                 *)

LEMMA HasFinite ==
  ASSUME NEW q \in Seq(Event), NEW S
  PROVE  /\ IsFiniteSet({i \in DOMAIN q : q[i].type \in S})
         /\ Has(q, S) \in Nat
<1>1. IsFiniteSet(1 .. Len(q)) /\ DOMAIN q = 1 .. Len(q)
  BY FS_Interval, LenProperties
<1>2. IsFiniteSet({i \in DOMAIN q : q[i].type \in S})
  BY <1>1, FS_Subset
<1> QED  BY <1>2, FS_CardinalityType DEF Has

LEMMA HasSome ==
  ASSUME NEW q \in Seq(Event), NEW S, NEW i \in DOMAIN q, q[i].type \in S
  PROVE  Has(q, S) > 0
<1> DEFINE A == {j \in DOMAIN q : q[j].type \in S}
<1>1. A # {}
  OBVIOUS
<1>2. IsFiniteSet(A) /\ Has(q, S) \in Nat /\ Has(q, S) = Cardinality(A)
  BY HasFinite DEF Has
<1>3. Cardinality(A) # 0
  <2> HIDE DEF A
  <2> QED  BY <1>1, <1>2, FS_EmptySet
<1> QED  BY <1>2, <1>3

LEMMA HasNone ==
  ASSUME NEW q \in Seq(Event), NEW S, \A i \in DOMAIN q : q[i].type \notin S
  PROVE  Has(q, S) = 0
<1>1. {j \in DOMAIN q : q[j].type \in S} = {}
  OBVIOUS
<1> QED  BY <1>1, FS_EmptySet DEF Has

LEMMA HasEmpty ==
  ASSUME NEW S
  PROVE  << >> \in Seq(Event) /\ Has(<< >>, S) = 0
<1>1. << >> \in Seq(Event) /\ DOMAIN << >> = {}
  OBVIOUS
<1> QED  BY <1>1, HasNone

LEMMA HasOne ==
  ASSUME NEW S, NEW e \in Event
  PROVE  <<e>> \in Seq(Event) /\ Has(<<e>>, S) = IF e.type \in S THEN 1 ELSE 0
<1>1. <<e>> \in Seq(Event) /\ DOMAIN <<e>> = {1} /\ <<e>>[1] = e
  OBVIOUS
<1>2. CASE e.type \in S
  <2>1. {i \in DOMAIN <<e>> : <<e>>[i].type \in S} = {1}
    BY <1>1, <1>2
  <2> QED  BY <1>1, <1>2, <2>1, FS_Singleton DEF Has
<1>3. CASE e.type \notin S
  BY <1>1, <1>3, HasNone
<1> QED  BY <1>1, <1>2, <1>3

(* The events of two queues, one behind the other.                         *)
LEMMA HasConcat ==
  ASSUME NEW q \in Seq(Event), NEW es \in Seq(Event), NEW S
  PROVE  /\ q \o es \in Seq(Event)
         /\ Has(q \o es, S) = Has(q, S) + Has(es, S)
<1> DEFINE n == Len(q)
           A == {i \in DOMAIN q : q[i].type \in S}
           B == {i \in DOMAIN es : es[i].type \in S}
           C == {i \in DOMAIN (q \o es) : (q \o es)[i].type \in S}
           D == {i \in C : i > n}
           f == [i \in B |-> n + i]
<1>1. /\ q \o es \in Seq(Event) /\ n \in Nat /\ Len(es) \in Nat
      /\ DOMAIN q = 1 .. n /\ DOMAIN es = 1 .. Len(es)
      /\ DOMAIN (q \o es) = 1 .. n + Len(es)
      /\ \A i \in 1 .. n + Len(es) : (q \o es)[i] = IF i <= n THEN q[i] ELSE es[i - n]
  BY ConcatProperties, LenProperties
<1>2. C = A \cup D /\ A \cap D = {}
  BY <1>1
<1>3. f \in Bijection(B, D)
  <2>1. f \in [B -> D]
    BY <1>1
  <2>2. \A i, j \in B : f[i] = f[j] => i = j
    BY <1>1
  <2>3. \A d \in D : \E i \in B : f[i] = d
    <3> SUFFICES ASSUME NEW d \in D PROVE d - n \in B /\ f[d - n] = d
      BY Zenon
    <3> QED  BY <1>1
  <2> HIDE DEF f, B, D
  <2> QED  BY <2>1, <2>2, <2>3 DEF Bijection, Injection, Surjection, IsInjective
<1>4. IsFiniteSet(A) /\ IsFiniteSet(B)
  BY HasFinite
<1>5. IsFiniteSet(D) /\ Cardinality(D) = Cardinality(B)
  <2>1. ExistsBijection(B, D)
    BY <1>3 DEF ExistsBijection
  <2> QED  BY <2>1, <1>4, FS_Bijection
<1>6. Cardinality(C) = Cardinality(A) + Cardinality(D)
  <2>1. Cardinality(A \cup D) = Cardinality(A) + Cardinality(D) - Cardinality(A \cap D)
    BY <1>4, <1>5, FS_Union
  <2>2. Cardinality(A) \in Nat /\ Cardinality(D) \in Nat /\ Cardinality({}) = 0
    BY <1>4, <1>5, FS_CardinalityType, FS_EmptySet
  <2>3. Cardinality(A \cap D) = 0
    BY <1>2, <2>2
  <2>4. Cardinality(C) = Cardinality(A \cup D)
    BY <1>2
  <2> HIDE DEF A, D, C
  <2> QED  BY <2>1, <2>2, <2>3, <2>4
<1> QED  BY <1>1, <1>5, <1>6 DEF Has

(* The queue without its head.                                             *)
LEMMA HasTail ==
  ASSUME NEW q \in Seq(Event), q # << >>, NEW S
  PROVE  /\ Tail(q) \in Seq(Event) /\ Head(q) \in Event
         /\ Has(Tail(q), S) + (IF Head(q).type \in S THEN 1 ELSE 0) = Has(q, S)
<1>1. Tail(q) \in Seq(Event) /\ Head(q) \in Event /\ q = <<Head(q)>> \o Tail(q)
  OBVIOUS
<1>2. /\ <<Head(q)>> \in Seq(Event)
      /\ Has(<<Head(q)>>, S) = IF Head(q).type \in S THEN 1 ELSE 0
  BY <1>1, HasOne
<1>3. Has(<<Head(q)>> \o Tail(q), S) = Has(<<Head(q)>>, S) + Has(Tail(q), S)
  BY <1>1, <1>2, HasConcat
<1>4. Has(Tail(q), S) \in Nat /\ Has(q, S) = Has(<<Head(q)>> \o Tail(q), S)
  BY <1>1, HasFinite
<1> QED  BY <1>1, <1>2, <1>3, <1>4

(* What taking an event makes of the queue.                                *)
LEMMA Takes ==
  ASSUME NEW q \in Seq(Event), q # << >>, NEW es \in Seq(Event), NEW S
  PROVE  /\ Tail(q) \o es \in Seq(Event)
         /\ Has(Tail(q) \o es, S) =
              Has(q, S) + Has(es, S) - (IF Head(q).type \in S THEN 1 ELSE 0)
<1>1. Tail(q) \in Seq(Event)
  BY HasTail
<1>2. /\ Tail(q) \o es \in Seq(Event)
      /\ Has(Tail(q) \o es, S) = Has(Tail(q), S) + Has(es, S)
  BY <1>1, HasConcat
<1>3. Has(Tail(q), S) + (IF Head(q).type \in S THEN 1 ELSE 0) = Has(q, S)
  BY HasTail
<1>4. Has(Tail(q), S) \in Nat /\ Has(q, S) \in Nat /\ Has(es, S) \in Nat
  BY <1>1, HasFinite
<1> QED  BY <1>2, <1>3, <1>4

-----------------------------------------------------------------------------
(* The discovery manager.                                                  *)

DataKinds == {"uuid", "service_val", "chrc"}

\* What a store leaves alone: everything but the table and the memory.
SameControl(d, r) ==
  /\ r.locked = d.locked /\ r.pending = d.pending /\ r.phase = d.phase
  /\ r.cb = d.cb /\ r.fault = d.fault

Stored(d, r, heap) ==
  /\ r.ok \in BOOLEAN /\ r.dm \in Dm
  /\ MemoryHeld(r.dm) /\ SameControl(d, r.dm) /\ r.dm.cur_id >= d.cur_id
  /\ r.ok => r.dm.cur_id < MaxChunks
  /\ ~r.ok /\ heap => r.dm.cur_id >= MaxChunks

(* A chunk that was allocated is at or before the index, even when memory  *)
(* is out; without a failing k_malloc() that is when the chunks are out.   *)
LEMMA NewChunkHolds ==
  ASSUME NEW d \in Dm, MemoryHeld(d), NEW len \in Nat, NEW heap \in BOOLEAN,
         heap => d.cur_id < MaxChunks
  PROVE  LET r == NewChunk(d, len, heap)
         IN  /\ r.ok \in BOOLEAN /\ (r.ok <=> heap) /\ r.dm \in Dm /\ MemoryHeld(r.dm) /\ SameControl(d, r.dm)
             /\ r.dm.cur_id = d.cur_id
<1>1. d.cur_id \in Nat /\ d.chunks \cup {d.cur_id} \in SUBSET Nat /\ MaxChunks \in Nat
  BY DataFits DEF Dm
<1> DEFINE f == [d EXCEPT !.chunks = @ \cup {d.cur_id}, !.cur_len = len]
           g == [d EXCEPT !.cur_len = 0]
<1>2. /\ f \in Dm /\ SameControl(d, f) /\ f.cur_id = d.cur_id
      /\ f.chunks = d.chunks \cup {d.cur_id}
  BY <1>1 DEF Dm, SameControl
<1>3. g \in Dm /\ SameControl(d, g) /\ g.cur_id = d.cur_id /\ g.chunks = d.chunks
  BY <1>1 DEF Dm, SameControl
<1>4. NewChunk(d, len, heap) = IF heap THEN [ok |-> TRUE, dm |-> f] ELSE [ok |-> FALSE, dm |-> g]
  BY DEF NewChunk
<1> HIDE DEF f, g
<1>5. MemoryHeld(g) /\ (heap => MemoryHeld(f))
  BY <1>1, <1>2, <1>3 DEF MemoryHeld
<1>6. CASE heap
  BY <1>2, <1>4, <1>5, <1>6
<1>7. CASE ~heap
  BY <1>3, <1>4, <1>5, <1>7
<1> QED  BY <1>6, <1>7

LEMMA StoreHolds ==
  ASSUME NEW d \in Dm, MemoryHeld(d), NEW kind \in DataKinds, NEW heap \in BOOLEAN
  PROVE  Stored(d, user_data_store(d, kind, heap), heap)
<1> DEFINE len == DataSize[kind]
           next == [d EXCEPT !.cur_id = @ + 1]
           grown == [d EXCEPT !.cur_len = @ + len]
           r == user_data_store(d, kind, heap)
<1>1. len \in Nat /\ MaxChunks \in Nat /\ ChunkSize \in Nat
  BY DataFits DEF DataKinds
<1>2. d.cur_id \in Nat /\ d.cur_len \in Nat /\ d.chunks \in SUBSET Nat
  BY DEF Dm
<1>3. next \in Dm /\ SameControl(d, next) /\ next.cur_id = d.cur_id + 1 /\ next.chunks = d.chunks
  BY <1>2 DEF Dm, SameControl
<1>4. grown \in Dm /\ SameControl(d, grown) /\ grown.cur_id = d.cur_id /\ grown.chunks = d.chunks
  BY <1>1, <1>2 DEF Dm, SameControl
<1>5. r = CASE d.cur_id \notin d.chunks -> NewChunk(d, len, heap /\ d.cur_id < MaxChunks)
            [] d.cur_id \in d.chunks /\ d.cur_len + len <= ChunkSize ->
                 [ok |-> TRUE, dm |-> grown]
            [] OTHER -> IF next.cur_id \in next.chunks \/ next.cur_id >= MaxChunks
                        THEN [ok |-> FALSE, dm |-> next] ELSE NewChunk(next, len, heap)
  BY DEF user_data_store
<1> SUFFICES Stored(d, r, heap)
  OBVIOUS
<1> HIDE DEF next, grown, len, r
<1>6. MemoryHeld(grown) /\ MemoryHeld(next) /\ next.cur_id \notin next.chunks
  BY <1>2, <1>3, <1>4 DEF MemoryHeld
<1>7. CASE d.cur_id \notin d.chunks
  <2> DEFINE h == heap /\ d.cur_id < MaxChunks
  <2>1. r = NewChunk(d, len, h) /\ h \in BOOLEAN /\ (h => d.cur_id < MaxChunks)
    BY <1>5, <1>7
  <2>2. h = TRUE <=> heap /\ d.cur_id < MaxChunks
    OBVIOUS
  <2> HIDE DEF h
  <2>3. /\ r.ok \in BOOLEAN /\ (r.ok <=> h) /\ r.dm \in Dm /\ MemoryHeld(r.dm) /\ SameControl(d, r.dm)
        /\ r.dm.cur_id = d.cur_id
    BY <1>1, <2>1, NewChunkHolds
  <2> QED  BY <1>1, <1>2, <2>1, <2>2, <2>3 DEF Stored
<1>8. CASE d.cur_id \in d.chunks /\ d.cur_len + len <= ChunkSize
  <2>1. r.ok \in BOOLEAN /\ r.ok /\ r.dm = grown
    BY <1>5, <1>8
  <2>2. grown.cur_id < MaxChunks
    BY <1>1, <1>2, <1>4, <1>8 DEF MemoryHeld
  <2> QED  BY <1>1, <1>2, <1>4, <1>6, <2>1, <2>2 DEF Stored
<1>9. CASE d.cur_id \in d.chunks /\ ~(d.cur_len + len <= ChunkSize) /\ next.cur_id >= MaxChunks
  <2>1. r.ok \in BOOLEAN /\ ~r.ok /\ r.dm = next
    BY <1>5, <1>9
  <2> QED  BY <1>1, <1>2, <1>3, <1>6, <1>9, <2>1 DEF Stored
<1>10. CASE d.cur_id \in d.chunks /\ ~(d.cur_len + len <= ChunkSize) /\ next.cur_id < MaxChunks
  <2>1. r = NewChunk(next, len, heap)
    BY <1>1, <1>2, <1>3, <1>5, <1>6, <1>10
  <2>2. /\ r.ok \in BOOLEAN /\ (r.ok <=> heap) /\ r.dm \in Dm /\ MemoryHeld(r.dm) /\ SameControl(next, r.dm)
        /\ r.dm.cur_id = next.cur_id
    <3>1. next \in Dm /\ MemoryHeld(next) /\ len \in Nat /\ (heap => next.cur_id < MaxChunks)
      BY <1>1, <1>3, <1>6, <1>10
    <3> HIDE DEF r
    <3> QED  BY <2>1, <3>1, NewChunkHolds
  <2>3. SameControl(d, r.dm)
    BY <1>3, <2>2 DEF SameControl
  <2> QED  BY <1>1, <1>2, <1>3, <1>10, <2>2, <2>3 DEF Stored
<1>11. next.cur_id >= MaxChunks \/ next.cur_id < MaxChunks
  BY <1>1, <1>2, <1>3
<1> QED  BY <1>7, <1>8, <1>9, <1>10, <1>11

(* One store after another.                                                *)
LEMMA StoreMore ==
  ASSUME NEW d \in Dm, NEW e \in Dm, MemoryHeld(e), SameControl(d, e), e.cur_id >= d.cur_id,
         NEW kind \in DataKinds, NEW heap \in BOOLEAN
  PROVE  LET r == user_data_store(e, kind, heap)
         IN  Stored(d, r, heap) /\ r.dm.cur_id >= e.cur_id
<1> DEFINE r == user_data_store(e, kind, heap)
<1>1. Stored(e, r, heap)
  BY StoreHolds
<1> HIDE DEF r
<1>2. d.cur_id \in Nat /\ e.cur_id \in Nat /\ r.dm.cur_id \in Nat
  BY <1>1 DEF Stored, Dm
<1>3. Stored(d, r, heap)
  BY <1>1, <1>2 DEF Stored, SameControl
<1> QED  BY <1>1, <1>3 DEF r, Stored

LEMMA AttrStored ==
  ASSUME NEW d \in Dm, MemoryHeld(d)
  PROVE  LET r == attr_store(d)
         IN  /\ r.dm \in Dm /\ MemoryHeld(r.dm) /\ SameControl(d, r.dm)
             /\ r.dm.cur_id = d.cur_id
BY DEF Dm, MemoryHeld, SameControl, attr_store

(* A release frees every chunk, or goes beyond the array.                  *)
Freed(d, r) ==
  /\ r \in Dm /\ ~r.locked /\ r.phase = "none" /\ r.chunks = {} /\ r.cur_id = 0
  /\ r.pending = d.pending /\ r.cb = d.cb /\ ~r.fault

LEMMA UnlockFrees ==
  ASSUME NEW d \in Dm, MemoryHeld(d), ~d.fault
  PROVE  /\ d.cur_id < MaxChunks => Freed(d, Unlock(d))
         /\ ~(d.cur_id < MaxChunks) => /\ Unlock(d).fault /\ Unlock(d).cur_id = d.cur_id
                                       /\ d.cur_id >= MaxChunks /\ Unlock(d) \in Dm
<1>1. d.chunks \ (0 .. d.cur_id) = {}
  BY DEF MemoryHeld
<1>2. d.cur_id \in Nat /\ MaxChunks \in Nat
  BY DataFits DEF Dm
<1> DEFINE s == svc_attr_memory_release(d)
           u == [s EXCEPT !.locked = FALSE, !.phase = "none"]
<1>3. Unlock(d) = u
  BY DEF Unlock
<1>4. CASE d.cur_id < MaxChunks
  <2>1. s = [d EXCEPT !.cur_attr_id = 0, !.chrcs = 0, !.chunks = @ \ (0 .. d.cur_id),
                      !.cur_id = 0, !.cur_len = 0]
    BY <1>2, <1>4 DEF svc_attr_memory_release
  <2> HIDE DEF s
  <2>2. /\ s \in Dm /\ s.chunks = {} /\ s.cur_id = 0
        /\ s.pending = d.pending /\ s.cb = d.cb /\ ~s.fault
    BY <1>1, <2>1 DEF Dm
  <2>3. Freed(d, u)
    BY <2>2 DEF Dm, Freed
  <2> QED  BY <1>3, <1>4, <2>3
<1>5. CASE ~(d.cur_id < MaxChunks)
  <2>1. s = [d EXCEPT !.fault = TRUE] /\ d.cur_id >= MaxChunks
    BY <1>2, <1>5 DEF svc_attr_memory_release, Fault
  <2> HIDE DEF s
  <2>2. s \in Dm /\ s.fault /\ s.cur_id = d.cur_id
    BY <2>1 DEF Dm
  <2>3. u \in Dm /\ u.fault /\ u.cur_id = d.cur_id
    BY <2>2 DEF Dm
  <2> QED  BY <1>3, <1>5, <2>1, <2>3
<1> QED  BY <1>4, <1>5

(* What a call of discovery_callback() may leave: a discovery that goes    *)
(* on, one that ended with a result, one that ended without, and the fatal *)
(* error, which takes a failing k_malloc() or chunks that are used up.     *)
Called(r, full) ==
  /\ r \in Dm
  /\ IF r.fault THEN r.cur_id >= MaxChunks \/ full # {}
     ELSE /\ DmOK([r EXCEPT !.cb = "none"])
          /\ r.cb = "completed" <=> r.pending

LEMMA GoesOn ==
  ASSUME NEW d, DmOK(d), d.phase # "none", d.cb = "none", NEW r \in Dm, NEW full,
         MemoryHeld(r), r.cur_id < MaxChunks, r.locked = d.locked, ~r.fault,
         r.pending = d.pending, r.cb = d.cb, r.phase # "none"
  PROVE  Called(r, full)
<1> DEFINE s == [r EXCEPT !.cb = "none"]
<1>1. /\ s \in Dm /\ s.chunks = r.chunks /\ s.cur_id = r.cur_id /\ s.locked = r.locked
      /\ s.phase = r.phase /\ s.pending = r.pending /\ ~s.fault
  BY DEF Dm
<1>2. d.locked /\ ~d.pending
  BY DEF DmOK
<1> HIDE DEF s
<1>3. DmOK(s)
  BY <1>1, <1>2 DEF DmOK, MemoryHeld
<1>4. ~r.pending /\ r.cb # "completed"
  BY <1>2
<1> QED  BY <1>3, <1>4 DEF Called, s

LEMMA EndsWithout ==
  ASSUME NEW d, DmOK(d), d.phase # "none", NEW r \in Dm, NEW full,
         MemoryHeld(r), r.pending = d.pending, ~r.fault
  PROVE  /\ Called(discovery_complete_error(r), full)
         /\ Called(discovery_complete_not_found(r), full)
<1> DEFINE u == Unlock(r)
           e == [u EXCEPT !.cb = "error_found"]
           n == [u EXCEPT !.cb = "service_not_found"]
<1>1. MaxChunks \in Nat \ {0} /\ ~r.pending
  BY DataFits DEF DmOK
<1>2. discovery_complete_error(r) = e /\ discovery_complete_not_found(r) = n
  BY DEF discovery_complete_error, discovery_complete_not_found
<1>3. CASE r.cur_id < MaxChunks
  <2>1. Freed(r, u)
    BY <1>3, UnlockFrees
  <2> HIDE DEF u
  <2>2. [u EXCEPT !.cb = "none"] = [e EXCEPT !.cb = "none"]
        /\ [u EXCEPT !.cb = "none"] = [n EXCEPT !.cb = "none"]
    BY <2>1 DEF Freed, Dm
  <2> DEFINE s == [u EXCEPT !.cb = "none"]
  <2>3. s \in Dm /\ s.chunks = {} /\ s.cur_id = 0 /\ ~s.locked /\ s.phase = "none"
        /\ ~s.pending /\ ~s.fault
    BY <1>1, <2>1 DEF Freed, Dm
  <2> HIDE DEF s
  <2>4. DmOK(s)
    BY <1>1, <2>3 DEF DmOK, MemoryHeld
  <2>5. e \in Dm /\ n \in Dm /\ ~e.pending /\ ~n.pending /\ ~e.fault /\ ~n.fault
        /\ e.cb # "completed" /\ n.cb # "completed"
    BY <1>1, <2>1 DEF Freed, Dm
  <2> QED  BY <1>2, <2>2, <2>4, <2>5 DEF Called, s
<1>4. CASE ~(r.cur_id < MaxChunks)
  <2>1. u \in Dm /\ u.fault /\ u.cur_id = r.cur_id /\ r.cur_id >= MaxChunks
    BY <1>4, UnlockFrees
  <2> HIDE DEF u
  <2>2. /\ e \in Dm /\ e.fault /\ e.cur_id >= MaxChunks
        /\ n \in Dm /\ n.fault /\ n.cur_id >= MaxChunks
    BY <2>1 DEF Dm
  <2> QED  BY <1>2, <2>2 DEF Called
<1> QED  BY <1>3, <1>4

LEMMA EndsWith ==
  ASSUME NEW d, DmOK(d), d.phase # "none", d.cb = "none", NEW full
  PROVE  Called(discovery_complete(d), full)
<1> DEFINE r == [d EXCEPT !.pending = TRUE, !.phase = "none", !.cb = "completed"]
           s == [r EXCEPT !.cb = "none"]
<1>1. /\ r \in Dm /\ ~r.fault /\ r.cb = "completed" /\ r.pending
      /\ s \in Dm /\ s.locked = d.locked /\ s.pending /\ s.phase = "none"
      /\ s.chunks = d.chunks /\ s.cur_id = d.cur_id /\ ~s.fault
  BY DEF DmOK, Dm
<1>2. discovery_complete(d) = r
  BY DEF discovery_complete
<1> HIDE DEF s
<1>3. DmOK(s)
  BY <1>1 DEF DmOK, MemoryHeld
<1> QED  BY <1>1, <1>2, <1>3 DEF Called, s

LEMMA Faults ==
  ASSUME NEW r \in Dm, NEW full, r.cur_id >= MaxChunks \/ full # {}
  PROVE  Called(Fault(r), full)
BY DEF Called, Fault, Dm

LEMMA ServiceCalled ==
  ASSUME NEW d, DmOK(d), d.phase # "none", d.cb = "none", NEW found, NEW failed, NEW full
  PROVE  Called(discovery_process_service(d, found, failed, full), full)
<1> DEFINE attr == attr_store(d)
           uuid == uuid_store(attr.dm, 1 \notin full)
           val == user_data_store(uuid.dm, "service_val", 2 \notin full)
           val_uuid == uuid_store(val.dm, 3 \notin full)
           s == [val_uuid.dm EXCEPT !.phase = "ATTRIBUTE"]
           result == discovery_process_service(d, found, failed, full)
<1>0. d \in Dm /\ MemoryHeld(d) /\ ~d.fault /\ d.cur_id \in Nat
  BY DEF DmOK, Dm
<1>a. "service_val" \in DataKinds /\ "uuid" \in DataKinds
  BY DEF DataKinds
<1>b. \A n \in 1 .. 3 : (n \notin full) \in BOOLEAN
  OBVIOUS
<1>1. /\ attr.dm \in Dm /\ MemoryHeld(attr.dm) /\ SameControl(d, attr.dm)
      /\ attr.dm.cur_id >= d.cur_id
  BY <1>0, AttrStored
<1>r. result =
        CASE ~found -> discovery_complete_not_found(d)
          [] found /\ ~attr.ok -> discovery_complete_error(d)
          [] found /\ attr.ok /\ ~val.ok -> Fault(val.dm)
          [] found /\ attr.ok /\ val.ok ->
               IF ~uuid.ok \/ ~val_uuid.ok \/ failed THEN discovery_complete_error(val_uuid.dm)
               ELSE s
  BY DEF discovery_process_service
<1> HIDE DEF attr, result
<1>2. Stored(d, uuid, 1 \notin full)
  BY <1>0, <1>a, <1>1, StoreMore DEF uuid_store
<1> HIDE DEF uuid
<1>3. Stored(d, val, 2 \notin full) /\ val.dm.cur_id >= uuid.dm.cur_id
  BY <1>0, <1>a, <1>2, StoreMore DEF Stored
<1> HIDE DEF val
<1>4. Stored(d, val_uuid, 3 \notin full)
  BY <1>0, <1>a, <1>3, StoreMore DEF uuid_store, Stored
<1> HIDE DEF val_uuid
<1>5. Called(discovery_complete_error(d), full) /\ Called(discovery_complete_not_found(d), full)
  BY <1>0, EndsWithout
<1>6. Called(discovery_complete_error(val_uuid.dm), full)
  BY <1>0, <1>4, EndsWithout DEF Stored, SameControl
<1>7. ~val.ok => Called(Fault(val.dm), full)
  BY <1>3, Faults DEF Stored
<1>8. val_uuid.ok => Called(s, full)
  <2> SUFFICES ASSUME val_uuid.ok PROVE Called(s, full)
    OBVIOUS
  <2>1. /\ s \in Dm /\ MemoryHeld(s) /\ s.cur_id < MaxChunks /\ s.locked = d.locked
        /\ s.pending = d.pending /\ s.cb = d.cb /\ s.phase # "none" /\ ~s.fault
    BY <1>0, <1>4 DEF Stored, SameControl, Dm, MemoryHeld
  <2> HIDE DEF s
  <2> QED  BY <2>1, GoesOn
<1> HIDE DEF s
<1> QED  BY <1>r, <1>5, <1>6, <1>7, <1>8 DEF result

LEMMA AttributeCalled ==
  ASSUME NEW d, DmOK(d), d.phase # "none", d.cb = "none", NEW found, NEW failed, NEW full
  PROVE  Called(discovery_process_attribute(d, found, failed, full), full)
<1> DEFINE attr == attr_store(d)
           uuid == uuid_store(attr.dm, 1 \notin full)
           s == [d EXCEPT !.phase = "CHARACTERISTIC"]
<1>0. d \in Dm /\ MemoryHeld(d) /\ ~d.fault /\ d.cur_id \in Nat /\ "uuid" \in DataKinds
  BY DEF DmOK, Dm, DataKinds
<1>1. /\ attr.dm \in Dm /\ MemoryHeld(attr.dm) /\ SameControl(d, attr.dm)
      /\ attr.dm.cur_id >= d.cur_id
  BY <1>0, AttrStored
<1>5. discovery_process_attribute(d, found, failed, full) \in
        (IF found THEN IF ~attr.ok THEN {discovery_complete_error(d)}
                       ELSE IF uuid.ok THEN {uuid.dm} ELSE {discovery_complete_error(uuid.dm)}
         ELSE {discovery_complete_error(d), s, discovery_complete(d)})
  BY DEF discovery_process_attribute
<1> HIDE DEF attr
<1>2. Stored(d, uuid, 1 \notin full)
  BY <1>0, <1>1, StoreMore DEF uuid_store
<1> HIDE DEF uuid
<1>3. Called(discovery_complete_error(d), full) /\ Called(discovery_complete(d), full)
  BY <1>0, EndsWithout, EndsWith
<1>4. Called(discovery_complete_error(uuid.dm), full) /\ (uuid.ok => Called(uuid.dm, full))
  BY <1>0, <1>2, EndsWithout, GoesOn DEF Stored, SameControl
<1>6. Called(s, full)
  <2>1. /\ s \in Dm /\ MemoryHeld(s) /\ s.cur_id < MaxChunks /\ s.locked = d.locked
        /\ s.pending = d.pending /\ s.cb = d.cb /\ s.phase # "none" /\ ~s.fault
    BY DEF DmOK, Dm, MemoryHeld
  <2> HIDE DEF s
  <2> QED  BY <2>1, GoesOn
<1> HIDE DEF s
<1> QED  BY <1>3, <1>4, <1>5, <1>6

LEMMA CharacteristicCalled ==
  ASSUME NEW d, DmOK(d), d.phase # "none", d.cb = "none", NEW found, NEW full
  PROVE  Called(discovery_process_characteristic(d, found, full), full)
<1> DEFINE val == user_data_store(d, "chrc", 1 \notin full)
           uuid == uuid_store(val.dm, 2 \notin full)
           s == [uuid.dm EXCEPT !.chrcs = @ + 1]
           result == discovery_process_characteristic(d, found, full)
<1>0. /\ d \in Dm /\ MemoryHeld(d) /\ ~d.fault /\ d.cur_id \in Nat
      /\ "chrc" \in DataKinds /\ "uuid" \in DataKinds
  BY DEF DmOK, Dm, DataKinds
<1>r. result = CASE ~found -> discovery_complete(d)
                 [] found /\ ~val.ok -> Fault(val.dm)
                 [] found /\ val.ok -> IF uuid.ok THEN s ELSE discovery_complete_error(uuid.dm)
  BY DEF discovery_process_characteristic
<1> HIDE DEF result
<1>1. Stored(d, val, 1 \notin full)
  BY <1>0, StoreHolds
<1> HIDE DEF val
<1>2. Stored(d, uuid, 2 \notin full)
  BY <1>0, <1>1, StoreMore DEF uuid_store, Stored
<1> HIDE DEF uuid
<1>3. Called(discovery_complete(d), full)
  BY EndsWith
<1>4. Called(discovery_complete_error(uuid.dm), full)
  BY <1>0, <1>2, EndsWithout DEF Stored, SameControl
<1>5. ~val.ok => Called(Fault(val.dm), full)
  BY <1>1, Faults DEF Stored
<1>6. uuid.ok => Called(s, full)
  <2> SUFFICES ASSUME uuid.ok PROVE Called(s, full)
    OBVIOUS
  <2>1. /\ s \in Dm /\ MemoryHeld(s) /\ s.cur_id < MaxChunks /\ s.locked = d.locked
        /\ s.pending = d.pending /\ s.cb = d.cb /\ s.phase # "none" /\ ~s.fault
    BY <1>0, <1>2 DEF Stored, SameControl, Dm, MemoryHeld
  <2> HIDE DEF s
  <2> QED  BY <2>1, GoesOn
<1> HIDE DEF s
<1> QED  BY <1>r, <1>3, <1>4, <1>5, <1>6 DEF result

LEMMA CallbackCalled ==
  ASSUME NEW d, DmOK(d), d.phase # "none", d.cb = "none", NEW p, NEW c \in BOOLEAN,
         NEW failed, NEW full
  PROVE  Called(discovery_callback(d, p, c, failed, full), full)
<1> DEFINE service == Service(d, p)
<1>1. d.phase \in {"PRIMARY", "ATTRIBUTE", "CHARACTERISTIC"} /\ d \in Dm /\ MemoryHeld(d)
      /\ ~d.fault
  BY DEF DmOK, Dm
<1>2. Called(discovery_complete_error(d), full)
  BY <1>1, EndsWithout
<1>3. /\ Called(discovery_process_service(d, d.any \/ p.hids, failed, full), full)
      /\ Called(discovery_process_attribute(d, d.cur_attr_id < AttrCount(service), failed, full),
                full)
      /\ Called(discovery_process_characteristic(d, d.chrcs < Len(service.chars), full), full)
  BY ServiceCalled, AttributeCalled, CharacteristicCalled
<1> QED  BY <1>1, <1>2, <1>3 DEF discovery_callback

(* bt_gatt_dm_start() and bt_gatt_dm_data_release().                       *)
LEMMA StartHolds ==
  ASSUME NEW d, DmOK(d), d.cb = "none", NEW failed, NEW heap \in BOOLEAN
  PROVE  LET r == bt_gatt_dm_start(d, failed, heap)
         IN  DmOK(r) /\ r.cb = "none" /\ r.pending = d.pending
<1> DEFINE e == [d EXCEPT !.locked = TRUE, !.cur_attr_id = 0, !.chrcs = 0, !.cur_len = 0,
                          !.cur_id = 0]
           r == uuid_store(e, heap)
           f == [r.dm EXCEPT !.locked = FALSE, !.any = ~r.ok]
           g == [r.dm EXCEPT !.phase = "PRIMARY", !.any = ~r.ok]
<1>1. CASE d.locked
  BY <1>1 DEF bt_gatt_dm_start
<1>2. CASE ~d.locked
  <2>0. d \in Dm /\ d.chunks \subseteq {0} /\ d.phase = "none" /\ ~d.pending /\ ~d.fault
    BY <1>2 DEF DmOK
  <2>4. MaxChunks \in Nat \ {0} /\ DataSize["uuid"] \in 0 .. ChunkSize /\ ChunkSize \in Nat
    BY DataFits
  <2>1. /\ e \in Dm /\ e.chunks \subseteq {0} /\ e.cur_id = 0 /\ e.cur_len = 0
        /\ e.phase = "none" /\ ~e.pending /\ e.cb = "none" /\ e.locked /\ ~e.fault
    BY <2>0 DEF Dm
  <2>6. bt_gatt_dm_start(d, failed, heap) = IF failed THEN f ELSE g
    BY <1>2 DEF bt_gatt_dm_start
  <2> HIDE DEF e
  <2>2. /\ r.dm \in Dm /\ SameControl(e, r.dm) /\ r.dm.chunks \subseteq {0} /\ r.dm.cur_id = 0
        /\ r.ok \in BOOLEAN
    <3>1. MemoryHeld(e)
      BY <2>1, <2>4 DEF MemoryHeld
    <3>2. Stored(e, r, heap)
      BY <2>1, <3>1, StoreHolds DEF uuid_store, DataKinds
    <3> DEFINE j == [e EXCEPT !.cur_len = @ + DataSize["uuid"]]
    <3>3. r = IF 0 \notin e.chunks THEN NewChunk(e, DataSize["uuid"], heap)
              ELSE [ok |-> TRUE, dm |-> j]
      BY <2>1, <2>4 DEF uuid_store, user_data_store
    <3>4. j.cur_id = 0 /\ j.chunks = e.chunks
      BY <2>1 DEF Dm
    <3>5. /\ NewChunk(e, DataSize["uuid"], heap).dm.cur_id = 0
          /\ NewChunk(e, DataSize["uuid"], heap).dm.chunks \subseteq {0}
      BY <2>1 DEF NewChunk, Dm
    <3> HIDE DEF j, r
    <3> QED  BY <2>1, <3>2, <3>3, <3>4, <3>5 DEF Stored
  <2> HIDE DEF r
  <2>7. /\ f \in Dm /\ ~f.locked /\ f.phase = "none" /\ ~f.pending /\ f.cb = "none"
        /\ f.chunks \subseteq {0} /\ f.cur_id = 0 /\ ~f.fault
    BY <2>1, <2>2 DEF Dm, SameControl
  <2>8. /\ g \in Dm /\ g.locked /\ g.phase = "PRIMARY" /\ ~g.pending /\ g.cb = "none"
        /\ g.chunks \subseteq {0} /\ g.cur_id = 0 /\ ~g.fault
    BY <2>1, <2>2 DEF Dm, SameControl
  <2> HIDE DEF f, g
  <2>9. DmOK(f) /\ DmOK(g)
    BY <2>4, <2>7, <2>8 DEF DmOK, MemoryHeld
  <2>10. f.pending = d.pending /\ g.pending = d.pending
    BY <2>0, <2>7, <2>8 DEF Dm
  <2> QED  BY <2>6, <2>7, <2>8, <2>9, <2>10
<1> QED  BY <1>1, <1>2

LEMMA ReleaseHolds ==
  ASSUME NEW d \in Dm, DmOK([d EXCEPT !.cb = "none"])
  PROVE  LET r == bt_gatt_dm_data_release(d)
         IN  /\ r \in Dm /\ r.cb = d.cb /\ ~r.pending
             /\ DmOK([r EXCEPT !.cb = "none"])
<1>1. CASE d.pending
  <2>1. Freed(d, Unlock(d)) /\ MaxChunks \in Nat \ {0}
    <3> DEFINE s == [d EXCEPT !.cb = "none"]
    <3>1. s.chunks = d.chunks /\ s.cur_id = d.cur_id /\ s.fault = d.fault
      BY DEF Dm
    <3> HIDE DEF s
    <3>2. MemoryHeld(d) /\ d.cur_id < MaxChunks /\ ~d.fault
      BY <3>1 DEF DmOK, MemoryHeld, s
    <3> QED  BY <3>2, UnlockFrees, DataFits
  <2> DEFINE u == Unlock(d)
             r == [u EXCEPT !.pending = FALSE]
             s == [r EXCEPT !.cb = "none"]
  <2>2. bt_gatt_dm_data_release(d) = r
    BY <1>1 DEF bt_gatt_dm_data_release
  <2> HIDE DEF u
  <2>3. /\ r \in Dm /\ ~r.locked /\ r.phase = "none" /\ ~r.pending /\ r.cb = d.cb
        /\ r.chunks = {} /\ r.cur_id = 0 /\ ~r.fault
    BY <2>1 DEF Freed, Dm, u
  <2> HIDE DEF r
  <2>4. /\ s \in Dm /\ ~s.locked /\ s.phase = "none" /\ ~s.pending
        /\ s.chunks = {} /\ s.cur_id = 0 /\ ~s.fault
    BY <2>3 DEF Dm
  <2> HIDE DEF s
  <2>5. DmOK(s)
    BY <2>1, <2>4 DEF DmOK, MemoryHeld
  <2> QED  BY <2>2, <2>3, <2>5 DEF s
<1>2. CASE ~d.pending
  BY <1>2 DEF bt_gatt_dm_data_release
<1> QED  BY <1>1, <1>2

-----------------------------------------------------------------------------
(* Steps.                                                                  *)

LEMMA CountsAreNat ==
  ASSUME NEW q \in Seq(Event)
  PROVE  /\ Has(q, {"complete"}) \in Nat /\ Has(q, Reporting) \in Nat
         /\ Has(q, Answering) \in Nat
BY HasFinite

(* The three counts of an event that is none of theirs, and of those that  *)
(* are.                                                                    *)
LEMMA EventCounts ==
  ASSUME NEW e \in Event
  PROVE  /\ <<e>> \in Seq(Event)
         /\ Has(<<e>>, {"complete"}) = IF e.type = "complete" THEN 1 ELSE 0
         /\ Has(<<e>>, Reporting) = IF e.type \in Reporting THEN 1 ELSE 0
         /\ Has(<<e>>, Answering) = IF e.type \in Answering THEN 1 ELSE 0
<1>1. e.type \in {"complete"} <=> e.type = "complete"
  OBVIOUS
<1> QED  BY <1>1, HasOne

LEMMA PeerEvents ==
  ASSUME NEW st \in {"CONNECTED", "CONN_FAILED", "SECURED", "DISCONNECTED"},
         NEW es, es = << >> \/ es = <<Peer(st)>>
  PROVE  /\ es \in Seq(Event) /\ Has(es, {"complete"}) = 0
         /\ Has(es, Reporting) = 0 /\ Has(es, Answering) = 0
<1>1. Peer(st) \in Event /\ Peer(st).type = "peer"
  BY DEF Peer, Event
<1>2. "peer" # "complete" /\ "peer" \notin Reporting /\ "peer" \notin Answering
  BY DEF Reporting, Answering
<1>3. CASE es = << >>
  BY <1>3, HasEmpty
<1>4. CASE es = <<Peer(st)>>
  BY <1>1, <1>2, <1>4, EventCounts
<1> QED  BY <1>3, <1>4

LEMMA SpendKeeps ==
  ASSUME UsbType, NEW failed, Spend(failed)
  PROVE  /\ seen' \in [failed : BOOLEAN, conn_failed : BOOLEAN, dropped : BOOLEAN]
         /\ seen'.dropped = seen.dropped
BY DEF UsbType, Spend

(* A step that leaves hid_forward.c and usb_state.c alone.                 *)
UsbKept ==
  /\ UNCHANGED <<fwd, usb>>
  /\ seen' \in [failed : BOOLEAN, conn_failed : BOOLEAN, dropped : BOOLEAN]
  /\ seen'.dropped = seen.dropped
  /\ Has(queue', Reporting) = Has(queue, Reporting)

DmKept ==
  /\ DmOK(dm') /\ dm'.cb = "none"
  /\ Has(queue', {"complete"}) = IF dm'.pending THEN 1 ELSE 0

Fatal == dm'.fault /\ (dm'.cur_id >= MaxChunks \/ seen'.failed)

ConfigKept ==
  /\ forward_status' = forward_status
  /\ app = "dongle" /\ (att # {} \/ Has(queue, Answering) > 0) =>
       att' # {} \/ Has(queue', Answering) > 0

LEMMA UsbKeeps ==
  ASSUME CentralInv, UsbKept
  PROVE  UsbType' /\ ReportInv'
BY DEF CentralInv, UsbType, ReportInv, OnItsWay, UsbKept

LEMMA ConfigKeeps ==
  ASSUME CentralInv, ConfigKept, app' = app
  PROVE  ConfigInv'
BY DEF CentralInv, ConfigInv, ConfigKept

LEMMA Keeps ==
  ASSUME CentralInv, queue' \in Seq(Event), app' = app, DmKept \/ Fatal, UsbKept, ConfigKept
  PROVE  CentralInv'
<1>1. UsbType' /\ ReportInv' /\ ConfigInv'
  BY UsbKeeps, ConfigKeeps
<1>2. DmInv'
  BY DEF DmKept, Fatal, DmInv, DmOK
<1> QED  BY <1>1, <1>2 DEF CentralInv

(* A step that submits nothing that counts.                                *)
LEMMA Quietly ==
  ASSUME CentralInv, NEW es \in Seq(Event), queue' = queue \o es,
         Has(es, {"complete"}) = 0, Has(es, Reporting) = 0, Has(es, Answering) = 0
  PROVE  /\ queue' \in Seq(Event)
         /\ Has(queue', {"complete"}) = Has(queue, {"complete"})
         /\ Has(queue', Reporting) = Has(queue, Reporting)
         /\ Has(queue', Answering) = Has(queue, Answering)
<1>1. queue \in Seq(Event)
  BY DEF CentralInv
<1>2. ASSUME NEW S PROVE queue' \in Seq(Event) /\ Has(queue', S) = Has(queue, S) + Has(es, S)
  BY <1>1, HasConcat
<1>3. /\ Has(queue', {"complete"}) = Has(queue, {"complete"}) + 0
      /\ Has(queue', Reporting) = Has(queue, Reporting) + 0
      /\ Has(queue', Answering) = Has(queue, Answering) + 0
  BY <1>2
<1> QED  BY <1>1, <1>2, <1>3, CountsAreNat

LEMMA QueueSame ==
  ASSUME CentralInv, queue' = queue
  PROVE  /\ queue' \in Seq(Event)
         /\ Has(queue', {"complete"}) = Has(queue, {"complete"})
         /\ Has(queue', Reporting) = Has(queue, Reporting)
         /\ Has(queue', Answering) = Has(queue, Answering)
BY DEF CentralInv

(* ----------------------- scanning and connections ----------------------- *)

LEMMA Stutters ==
  ASSUME CentralInv, ~dm.fault, app' = app, UNCHANGED <<dm, att, queue, fwd, usb, forward_status>>,
         seen' \in [failed : BOOLEAN, conn_failed : BOOLEAN, dropped : BOOLEAN],
         seen'.dropped = seen.dropped
  PROVE  CentralInv'
<1>1. DmKept /\ UsbKept /\ ConfigKept
  BY QueueSame DEF DmKept, UsbKept, ConfigKept, CentralInv, DmInv
<1> QED  BY <1>1, Keeps, QueueSame

LEMMA FoundStep ==
  ASSUME CentralInv, ~dm.fault, app' = app, NEW p \in Peers, scan_device_found(p)
  PROVE  CentralInv'
<1>1. UNCHANGED <<dm, att, queue, fwd, usb, forward_status>>
  BY DEF scan_device_found, usbVars
<1>2. /\ seen' \in [failed : BOOLEAN, conn_failed : BOOLEAN, dropped : BOOLEAN]
      /\ seen'.dropped = seen.dropped
  BY DEF scan_device_found, CentralInv, UsbType
<1> QED  BY <1>1, <1>2, Stutters

LEMMA ConnectedStep ==
  ASSUME CentralInv, ~dm.fault, app' = app, connected
  PROVE  CentralInv'
<1> DEFINE es == IF app = "dongle" THEN <<Peer("CONNECTED")>> ELSE << >>
<1>1. /\ es \in Seq(Event) /\ Has(es, {"complete"}) = 0
      /\ Has(es, Reporting) = 0 /\ Has(es, Answering) = 0
  BY PeerEvents
<1>2. queue' = queue \o es
  BY DEF connected, Submit
<1> HIDE DEF es
<1>3. /\ queue' \in Seq(Event)
      /\ Has(queue', {"complete"}) = Has(queue, {"complete"})
      /\ Has(queue', Reporting) = Has(queue, Reporting)
      /\ Has(queue', Answering) = Has(queue, Answering)
  BY <1>1, <1>2, Quietly
<1>4. PICK failed \in MayFail, full \in MayFail :
        /\ dm' = IF app = "sample" /\ default_conn THEN bt_gatt_dm_start(dm, failed, ~full)
                 ELSE dm
        /\ Spend(failed \/ full)
  BY DEF connected
<1>5. DmKept
  <2>1. (~full) \in BOOLEAN /\ DmOK(dm) /\ dm.cb = "none"
    BY DEF CentralInv, DmInv
  <2>2. DmOK(dm') /\ dm'.cb = "none" /\ dm'.pending = dm.pending
    BY <1>4, <2>1, StartHolds
  <2> QED  BY <1>3, <2>2 DEF DmKept, CentralInv, DmInv
<1>6. UsbKept /\ ConfigKept
  BY <1>3, <1>4, SpendKeeps DEF UsbKept, ConfigKept, CentralInv, connected, usbVars
<1> QED  BY <1>3, <1>5, <1>6, Keeps

LEMMA ConnFailedStep ==
  ASSUME CentralInv, ~dm.fault, app' = app, conn_failed
  PROVE  CentralInv'
<1> DEFINE es == IF app = "dongle" THEN <<Peer("CONN_FAILED")>> ELSE << >>
<1>1. /\ es \in Seq(Event) /\ Has(es, {"complete"}) = 0
      /\ Has(es, Reporting) = 0 /\ Has(es, Answering) = 0
  BY PeerEvents
<1>2. queue' = queue \o es
  BY DEF conn_failed, Submit
<1> HIDE DEF es
<1>3. /\ queue' \in Seq(Event)
      /\ Has(queue', {"complete"}) = Has(queue, {"complete"})
      /\ Has(queue', Reporting) = Has(queue, Reporting)
      /\ Has(queue', Answering) = Has(queue, Answering)
  BY <1>1, <1>2, Quietly
<1>4. /\ seen' \in [failed : BOOLEAN, conn_failed : BOOLEAN, dropped : BOOLEAN]
      /\ seen'.dropped = seen.dropped
  BY DEF conn_failed, CentralInv, UsbType
<1>5. DmKept /\ UsbKept /\ ConfigKept
  BY <1>3, <1>4 DEF DmKept, UsbKept, ConfigKept, CentralInv, DmInv, conn_failed, usbVars
<1> QED  BY <1>3, <1>5, Keeps

LEMMA SecurityStep ==
  ASSUME CentralInv, ~dm.fault, app' = app, security_changed
  PROVE  CentralInv'
<1> DEFINE es == IF app = "dongle" THEN <<Peer("SECURED")>> ELSE << >>
<1>1. /\ es \in Seq(Event) /\ Has(es, {"complete"}) = 0
      /\ Has(es, Reporting) = 0 /\ Has(es, Answering) = 0
  BY PeerEvents
<1>2. queue' = queue \o es
  BY DEF security_changed, Submit
<1> HIDE DEF es
<1>3. /\ queue' \in Seq(Event)
      /\ Has(queue', {"complete"}) = Has(queue, {"complete"})
      /\ Has(queue', Reporting) = Has(queue, Reporting)
      /\ Has(queue', Answering) = Has(queue, Answering)
  BY <1>1, <1>2, Quietly
<1>4. DmKept /\ UsbKept /\ ConfigKept
  BY <1>3 DEF DmKept, UsbKept, ConfigKept, CentralInv, DmInv, UsbType, security_changed, usbVars
<1> QED  BY <1>3, <1>4, Keeps

LEMMA AnswerEvents ==
  ASSUME NEW st \in Answers
  PROVE  /\ <<Forwarded(st)>> \in Seq(Event) /\ Has(<<Forwarded(st)>>, {"complete"}) = 0
         /\ Has(<<Forwarded(st)>>, Reporting) = 0 /\ Has(<<Forwarded(st)>>, Answering) = 1
<1>1. Forwarded(st) \in Event /\ Forwarded(st).type = "forwarded"
  BY DEF Forwarded, Event
<1>2. "forwarded" # "complete" /\ "forwarded" \notin Reporting /\ "forwarded" \in Answering
  BY DEF Reporting, Answering
<1> QED  BY <1>1, <1>2, EventCounts

(* A step that submits answers and nothing else that counts.               *)
LEMMA Answering1 ==
  ASSUME CentralInv, NEW es \in Seq(Event), queue' = queue \o es,
         Has(es, {"complete"}) = 0, Has(es, Reporting) = 0
  PROVE  /\ queue' \in Seq(Event)
         /\ Has(queue', {"complete"}) = Has(queue, {"complete"})
         /\ Has(queue', Reporting) = Has(queue, Reporting)
         /\ Has(queue', Answering) = Has(queue, Answering) + Has(es, Answering)
         /\ Has(queue, Answering) \in Nat /\ Has(es, Answering) \in Nat
<1>1. queue \in Seq(Event)
  BY DEF CentralInv
<1>2. ASSUME NEW S PROVE queue' \in Seq(Event) /\ Has(queue', S) = Has(queue, S) + Has(es, S)
  BY <1>1, HasConcat
<1>3. /\ Has(queue', {"complete"}) = Has(queue, {"complete"}) + 0
      /\ Has(queue', Reporting) = Has(queue, Reporting) + 0
  BY <1>2
<1> QED  BY <1>1, <1>2, <1>3, CountsAreNat

LEMMA DisconnectedStep ==
  ASSUME CentralInv, ~dm.fault, app' = app, disconnected
  PROVE  CentralInv'
<1> DEFINE as == IF att = {} THEN << >> ELSE <<Forwarded("WRITE_ERROR")>>
           es == IF app # "dongle" THEN << >> ELSE as \o <<Peer("DISCONNECTED")>>
<1>1. /\ as \in Seq(Event) /\ Has(as, {"complete"}) = 0
      /\ Has(as, Reporting) = 0 /\ Has(as, Answering) = IF att = {} THEN 0 ELSE 1
  <2>1. "WRITE_ERROR" \in Answers
    BY DEF Answers
  <2> QED  BY <2>1, HasEmpty, AnswerEvents
<1>2. /\ <<Peer("DISCONNECTED")>> \in Seq(Event)
      /\ Has(<<Peer("DISCONNECTED")>>, {"complete"}) = 0
      /\ Has(<<Peer("DISCONNECTED")>>, Reporting) = 0
      /\ Has(<<Peer("DISCONNECTED")>>, Answering) = 0
  BY PeerEvents
<1> HIDE DEF as
<1>3. /\ es \in Seq(Event) /\ Has(es, {"complete"}) = 0 /\ Has(es, Reporting) = 0
      /\ app = "dongle" /\ att # {} => Has(es, Answering) = 1
  <2>1. CASE app # "dongle"
    BY <2>1, HasEmpty
  <2>2. CASE app = "dongle"
    <3>1. ASSUME NEW S
          PROVE  /\ es \in Seq(Event)
                 /\ Has(es, S) = Has(as, S) + Has(<<Peer("DISCONNECTED")>>, S)
      BY <1>1, <1>2, <2>2, HasConcat
    <3> HIDE DEF es
    <3>2. /\ Has(es, {"complete"}) = 0 + 0 /\ Has(es, Reporting) = 0 + 0
          /\ Has(es, Answering) = Has(as, Answering) + 0
      BY <1>1, <1>2, <3>1
    <3>3. es \in Seq(Event)
      BY <3>1
    <3>4. att # {} => Has(es, Answering) = 1
      BY <1>1, <3>2
    <3>5. Has(es, {"complete"}) = 0 /\ Has(es, Reporting) = 0
      BY <3>2
    <3> QED  BY <3>3, <3>4, <3>5, Zenon
  <2> QED  BY <2>1, <2>2
<1>4. queue' = queue \o es
  BY DEF disconnected, Submit, as
<1> HIDE DEF es
<1>5. /\ queue' \in Seq(Event)
      /\ Has(queue', {"complete"}) = Has(queue, {"complete"})
      /\ Has(queue', Reporting) = Has(queue, Reporting)
      /\ Has(queue', Answering) = Has(queue, Answering) + Has(es, Answering)
      /\ Has(queue, Answering) \in Nat /\ Has(es, Answering) \in Nat
  BY <1>3, <1>4, Answering1
<1>6. DmKept
  <2>1. CASE dm.phase = "none"
    BY <1>5, <2>1 DEF disconnected, DmKept, CentralInv, DmInv
  <2>2. CASE dm.phase # "none"
    <3> DEFINE d == discovery_callback(dm, peer, FALSE, FALSE, {})
    <3>0. DmOK(dm) /\ dm \in Dm /\ ~dm.pending /\ MemoryHeld(dm) /\ dm.cur_id < MaxChunks
      BY <2>2 DEF CentralInv, DmInv, DmOK
    <3>2. d.cb # "completed" /\ ~d.fault
      <4>1. d = [Unlock(dm) EXCEPT !.cb = "error_found"]
        BY DEF discovery_callback, discovery_complete_error
      <4>2. Freed(dm, Unlock(dm))
        BY <3>0, UnlockFrees
      <4> QED  BY <4>1, <4>2 DEF Freed, Dm
    <3>1. Called(d, {})
      BY <2>2, <3>0, CallbackCalled DEF CentralInv, DmInv
    <3>3. dm' = [d EXCEPT !.cb = "none"]
      BY <2>2 DEF disconnected
    <3> HIDE DEF d
    <3>4. DmOK(dm') /\ dm'.cb = "none" /\ ~dm'.pending
      BY <3>1, <3>2, <3>3 DEF Called, Dm
    <3> QED  BY <1>5, <3>0, <3>4 DEF DmKept, CentralInv, DmInv
  <2> QED  BY <2>1, <2>2
<1>7. UsbKept
  <2>1. seen' = seen \/ \E failed : Spend(failed)
    BY DEF disconnected
  <2>2. /\ seen' \in [failed : BOOLEAN, conn_failed : BOOLEAN, dropped : BOOLEAN]
        /\ seen'.dropped = seen.dropped
    BY <2>1, SpendKeeps DEF CentralInv, UsbType
  <2> QED  BY <1>5, <2>2 DEF UsbKept, disconnected, usbVars
<1>8. ConfigKept
  BY <1>3, <1>5 DEF ConfigKept, disconnected, usbVars
<1> QED  BY <1>5, <1>6, <1>7, <1>8, Keeps

(* ----------------------- discovery and preparation ---------------------- *)

LEMMA DiscoverStep ==
  ASSUME CentralInv, ~dm.fault, app' = app, Discover
  PROVE  CentralInv'
<1>1. PICK failed \in MayFail, full \in MayFill :
        LET d == discovery_callback(dm, peer, TRUE, failed, full)
        IN  /\ Spend(failed \/ full # {})
            /\ IF ~d.fault /\ d.cb = "completed" /\ app = "sample"
               THEN SampleCompletes(d, failed, 1 \notin full) /\ UNCHANGED queue
               ELSE /\ dm' = [d EXCEPT !.cb = "none"]
                    /\ Submit(IF d.cb = "completed" THEN <<[type |-> "complete"]>> ELSE << >>)
                    /\ UNCHANGED <<hidc, used>>
  BY DEF Discover
<1> DEFINE d == discovery_callback(dm, peer, TRUE, failed, full)
<1>2. Called(d, full) /\ ~dm.pending
  BY CallbackCalled DEF Discover, CentralInv, DmInv, DmOK
<1>a. /\ seen' \in [failed : BOOLEAN, conn_failed : BOOLEAN, dropped : BOOLEAN]
      /\ seen'.dropped = seen.dropped /\ (full # {} => seen'.failed)
  BY <1>1 DEF Spend, CentralInv, UsbType
<1>3. UNCHANGED <<fwd, usb, forward_status, att>>
  BY DEF Discover, usbVars
<1>4. queue \in Seq(Event) /\ Has(queue, {"complete"}) = 0
  BY <1>2 DEF CentralInv, DmInv
<1>5. CASE ~d.fault /\ d.cb = "completed" /\ app = "sample"
  <2> DEFINE r == bt_gatt_dm_data_release(d)
  <2>1. dm' = [r EXCEPT !.cb = "none"] /\ queue' = queue
    BY <1>1, <1>5 DEF SampleCompletes
  <2> HIDE DEF d
  <2>2. r \in Dm /\ ~r.pending /\ DmOK([r EXCEPT !.cb = "none"])
    BY <1>2, <1>5, ReleaseHolds DEF Called
  <2> HIDE DEF r
  <2>3. DmOK(dm') /\ dm'.cb = "none" /\ ~dm'.pending
    BY <2>1, <2>2 DEF Dm
  <2>7. DmKept /\ UsbKept /\ ConfigKept
    BY <1>a, <1>3, <1>4, <2>1, <2>3, QueueSame DEF DmKept, UsbKept, ConfigKept
  <2> QED  BY <2>1, <2>7, Keeps, QueueSame
<1>6. CASE ~(~d.fault /\ d.cb = "completed" /\ app = "sample")
  <2> DEFINE es == IF d.cb = "completed" THEN <<[type |-> "complete"]>> ELSE << >>
  <2>1. dm' = [d EXCEPT !.cb = "none"] /\ queue' = queue \o es
    BY <1>1, <1>6 DEF Submit
  <2> HIDE DEF d
  <2>2. /\ es \in Seq(Event) /\ Has(es, Reporting) = 0 /\ Has(es, Answering) = 0
        /\ ~d.fault => Has(es, {"complete"}) = IF d.pending THEN 1 ELSE 0
    <3>1. [type |-> "complete"] \in Event
      BY DEF Event
    <3>2. "complete" \notin Reporting /\ "complete" \notin Answering
      BY DEF Reporting, Answering
    <3>3. CASE d.cb = "completed"
      <4>1. ~d.fault => d.pending
        BY <3>3, <1>2 DEF Called
      <4> QED  BY <3>1, <3>2, <3>3, <4>1, EventCounts
    <3>4. CASE d.cb # "completed"
      <4>1. ~d.fault => ~d.pending
        BY <3>4, <1>2 DEF Called
      <4> QED  BY <3>4, <4>1, HasEmpty
    <3> QED  BY <3>3, <3>4
  <2> HIDE DEF es
  <2>3. ASSUME NEW S PROVE queue' \in Seq(Event) /\ Has(queue', S) = Has(queue, S) + Has(es, S)
    BY <1>4, <2>1, <2>2, HasConcat
  <2>4. /\ Has(queue', Reporting) = Has(queue, Reporting) + 0
        /\ Has(queue', Answering) = Has(queue, Answering) + 0
        /\ Has(queue', {"complete"}) = 0 + Has(es, {"complete"})
    BY <1>4, <2>2, <2>3
  <2>5. /\ Has(queue', Reporting) = Has(queue, Reporting)
        /\ Has(queue', Answering) = Has(queue, Answering)
        /\ ~d.fault => Has(queue', {"complete"}) = IF d.pending THEN 1 ELSE 0
    BY <1>4, <2>2, <2>4, CountsAreNat
  <2>6. /\ ~d.fault => DmOK(dm') /\ dm'.cb = "none" /\ dm'.pending = d.pending
        /\ d.fault => Fatal
    BY <1>2, <1>a, <2>1 DEF Called, Dm, Fatal
  <2>7. (DmKept \/ Fatal) /\ UsbKept /\ ConfigKept
    BY <1>a, <1>3, <2>1, <2>5, <2>6 DEF DmKept, UsbKept, ConfigKept
  <2> QED  BY <2>3, <2>7, Keeps
<1> QED  BY <1>5, <1>6

LEMMA AnswerStep ==
  ASSUME CentralInv, ~dm.fault, app' = app, Answer
  PROVE  CentralInv'
<1>1. UNCHANGED <<dm, att, queue, fwd, usb, forward_status>>
  BY DEF Answer, usbVars
<1>2. \E failed : Spend(failed)
  BY DEF Answer
<1> QED  BY <1>1, <1>2, SpendKeeps, Stutters DEF CentralInv

-----------------------------------------------------------------------------
(* USB.                                                                    *)

(* A step that leaves the discovery manager alone.                         *)
LEMMA DmUntouched ==
  ASSUME CentralInv, ~dm.fault, dm' = dm, Has(queue', {"complete"}) = Has(queue, {"complete"})
  PROVE  DmInv'
BY DEF CentralInv, DmInv

LEMMA StatusEvents ==
  ASSUME NEW new \in UsbStates, NEW was, NEW is
  PROVE  LET es == (IF was THEN <<SubscriptionEvent(new)>> ELSE << >>)
                   \o <<[type |-> "usb", state |-> new]>>
                   \o (IF is THEN <<SubscriptionEvent(new)>> ELSE << >>)
         IN  /\ es \in Seq(Event) /\ Has(es, {"complete"}) = 0
             /\ Has(es, Reporting) = 0 /\ Has(es, Answering) = 0
<1> DEFINE Q == {e \in Event : e.type \in {"usb", "subscription"}}
           a == IF was THEN <<SubscriptionEvent(new)>> ELSE << >>
           b == <<[type |-> "usb", state |-> new]>>
           c == IF is THEN <<SubscriptionEvent(new)>> ELSE << >>
           es == a \o b \o c
<1>1. SubscriptionEvent(new) \in Q /\ [type |-> "usb", state |-> new] \in Q
  BY DEF SubscriptionEvent, Event
<1> HIDE DEF Q
<1>2. a \in Seq(Q) /\ b \in Seq(Q) /\ c \in Seq(Q)
  BY <1>1
<1> HIDE DEF a, b, c
<1>3. es \in Seq(Q)
  <2>1. a \o b \in Seq(Q)
    BY <1>2, ConcatProperties
  <2> QED  BY <1>2, <2>1, ConcatProperties
<1> HIDE DEF es
<1>4. es \in Seq(Event)
  <2>1. Q \subseteq Event
    BY DEF Q
  <2> QED  BY <1>3, <2>1, SeqMonotonic
<1>5. \A i \in DOMAIN es : es[i].type \in {"usb", "subscription"}
  <2>1. \A i \in DOMAIN es : es[i] \in Q
    BY <1>3, LenProperties, ElementOfSeq
  <2> QED  BY <2>1 DEF Q
<1>6. \A i \in DOMAIN es : /\ es[i].type \notin {"complete"} /\ es[i].type \notin Reporting
                            /\ es[i].type \notin Answering
  BY <1>5 DEF Reporting, Answering
<1>7. Has(es, {"complete"}) = 0 /\ Has(es, Reporting) = 0 /\ Has(es, Answering) = 0
  BY <1>4, <1>6, HasNone
<1> QED  BY <1>4, <1>7 DEF es, a, b, c

LEMMA UsbStatusStep ==
  ASSUME CentralInv, ~dm.fault, app' = app, NEW status, UsbStatus(status)
  PROVE  CentralInv'
<1> DEFINE new == device_status(status)
           es == (IF usb.state = "ACTIVE" THEN <<SubscriptionEvent(new)>> ELSE << >>)
                 \o <<[type |-> "usb", state |-> new]>>
                 \o (IF new = "ACTIVE" THEN <<SubscriptionEvent(new)>> ELSE << >>)
<1>0. UsbType /\ ReportInv /\ queue \in Seq(Event)
  BY DEF CentralInv
<1>1. new \in UsbStates
  BY <1>0 DEF device_status, UsbType, UsbStates
<1>2. /\ queue' = queue \o es
      /\ UNCHANGED <<dm, att, fwd, forward_status>>
  BY DEF UsbStatus, Submit, btVars
<1>a. PICK clears \in BOOLEAN :
        /\ usb' = [state |-> new,
                   before_suspend |-> IF new = "SUSPENDED" THEN usb.state ELSE usb.before_suspend,
                   endpoint |-> IF clears THEN 0 ELSE usb.endpoint]
        /\ seen' = IF clears /\ usb.endpoint > 0 THEN [seen EXCEPT !.dropped = TRUE] ELSE seen
  BY DEF UsbStatus
<1> HIDE DEF new
<1>3. /\ es \in Seq(Event) /\ Has(es, {"complete"}) = 0
      /\ Has(es, Reporting) = 0 /\ Has(es, Answering) = 0
  BY <1>1, StatusEvents
<1> HIDE DEF es
<1>4. /\ queue' \in Seq(Event)
      /\ Has(queue', {"complete"}) = Has(queue, {"complete"})
      /\ Has(queue', Reporting) = Has(queue, Reporting)
      /\ Has(queue', Answering) = Has(queue, Answering)
  BY <1>2, <1>3, Quietly
<1>5. DmInv'
  BY <1>2, <1>4, DmUntouched
<1>6. ConfigInv'
  BY <1>2, <1>4, ConfigKeeps DEF ConfigKept
<1>7. UsbType'
  BY <1>0, <1>1, <1>2, <1>a DEF UsbType
<1>8. ReportInv'
  <2>1. /\ Has(queue, Reporting) \in Nat /\ usb.endpoint \in Nat
        /\ usb'.endpoint = IF clears THEN 0 ELSE usb.endpoint
        /\ seen'.dropped = (seen.dropped \/ (clears /\ usb.endpoint > 0))
        /\ seen.dropped \in BOOLEAN
    BY <1>0, <1>a, CountsAreNat DEF UsbType
  <2> QED  BY <1>0, <1>2, <1>4, <2>1 DEF ReportInv, OnItsWay
<1> QED  BY <1>4, <1>5, <1>6, <1>7, <1>8 DEF CentralInv

(* Submitting one event.                                                   *)
LEMMA Submits ==
  ASSUME CentralInv, NEW e \in Event, Submit(<<e>>)
  PROVE  /\ queue' \in Seq(Event)
         /\ Has(queue', {"complete"}) =
              Has(queue, {"complete"}) + (IF e.type = "complete" THEN 1 ELSE 0)
         /\ Has(queue', Reporting) =
              Has(queue, Reporting) + (IF e.type \in Reporting THEN 1 ELSE 0)
         /\ Has(queue', Answering) =
              Has(queue, Answering) + (IF e.type \in Answering THEN 1 ELSE 0)
         /\ Has(queue, {"complete"}) \in Nat /\ Has(queue, Reporting) \in Nat
         /\ Has(queue, Answering) \in Nat
<1>1. queue \in Seq(Event) /\ <<e>> \in Seq(Event) /\ queue' = queue \o <<e>>
  BY EventCounts DEF CentralInv, Submit
<1>2. ASSUME NEW S PROVE queue' \in Seq(Event) /\ Has(queue', S) = Has(queue, S) + Has(<<e>>, S)
  BY <1>1, HasConcat
<1> QED  BY <1>1, <1>2, EventCounts, CountsAreNat

LEMMA SubmitsNothing ==
  ASSUME CentralInv, Submit(<< >>)
  PROVE  queue' = queue
BY ConcatEmptySeq DEF CentralInv, Submit

LEMMA SentCbStep ==
  ASSUME CentralInv, ~dm.fault, app' = app, mouse_report_sent_cb
  PROVE  CentralInv'
<1>0. UsbType /\ ReportInv
  BY DEF CentralInv
<1> DEFINE e == [type |-> "sent"]
<1>1. /\ e \in Event /\ e.type = "sent" /\ e.type # "complete"
      /\ e.type \in Reporting /\ e.type \notin Answering
  BY DEF Event, Reporting, Answering
<1>2. Submit(<<e>>) /\ UNCHANGED <<dm, att, fwd, forward_status, seen>>
  BY DEF mouse_report_sent_cb, btVars
<1> HIDE DEF e
<1>3. /\ queue' \in Seq(Event)
      /\ Has(queue', {"complete"}) = Has(queue, {"complete"})
      /\ Has(queue', Reporting) = Has(queue, Reporting) + 1
      /\ Has(queue', Answering) = Has(queue, Answering)
      /\ Has(queue, Reporting) \in Nat
  BY <1>1, <1>2, Submits
<1>4. usb' = [usb EXCEPT !.endpoint = @ - 1] /\ usb.endpoint > 0
  BY DEF mouse_report_sent_cb
<1>5. usb'.endpoint + 1 = usb.endpoint /\ UsbType'
  BY <1>0, <1>2, <1>4 DEF UsbType
<1>6. OnItsWay' = OnItsWay
  BY <1>0, <1>3, <1>5 DEF OnItsWay, UsbType
<1>7. ReportInv'
  BY <1>0, <1>2, <1>6 DEF ReportInv
<1> QED  BY <1>2, <1>3, <1>5, <1>7, DmUntouched, ConfigKeeps DEF CentralInv, ConfigKept

LEMMA SetReportStep ==
  ASSUME CentralInv, ~dm.fault, app' = app, NEW own \in BOOLEAN, set_report(own)
  PROVE  CentralInv'
<1> DEFINE e == [type |-> "forward"]
<1>1. e \in Event /\ e.type # "complete" /\ e.type \notin Reporting /\ e.type \in Answering
  BY DEF Event, Reporting, Answering
<1>2. /\ UNCHANGED <<dm, att, fwd, usb, seen>> /\ app = "dongle"
      /\ own => Submit(<< >>) /\ forward_status' = "SUCCESS"
      /\ ~own => Submit(<<e>>) /\ forward_status' = "PENDING"
  BY DEF set_report, btVars
<1> HIDE DEF e
<1>3. /\ queue' \in Seq(Event)
      /\ Has(queue', {"complete"}) = Has(queue, {"complete"})
      /\ Has(queue', Reporting) = Has(queue, Reporting)
      /\ ~own => Has(queue', Answering) > 0
  <2>1. CASE own
    BY <1>2, <2>1, SubmitsNothing DEF CentralInv
  <2>2. CASE ~own
    BY <1>1, <1>2, <2>2, Submits
  <2> QED  BY <2>1, <2>2
<1>4. ConfigInv'
  BY <1>2, <1>3 DEF ConfigInv
<1>5. UsbKept
  BY <1>2, <1>3 DEF UsbKept, CentralInv, UsbType
<1> QED  BY <1>2, <1>3, <1>4, <1>5, UsbKeeps, DmUntouched DEF CentralInv

LEMMA HidcReadStep ==
  ASSUME CentralInv, ~dm.fault, app' = app, hidc_read
  PROVE  CentralInv'
<1>0. UsbType /\ ReportInv /\ queue \in Seq(Event)
  BY DEF CentralInv
<1> DEFINE e == [type |-> "mouse", sub |-> fwd.usb_id]
<1>1. e \in Event /\ e.type # "complete" /\ e.type \in Reporting /\ e.type \notin Answering
  BY <1>0 DEF Event, Reporting, Answering, UsbType
<1>2. /\ UNCHANGED <<dm, att, usb, forward_status, seen>>
      /\ fwd.usb_busy => Submit(<< >>) /\ fwd' = [fwd EXCEPT !.next_event = TRUE]
      /\ ~fwd.usb_busy => Submit(<<e>>) /\ fwd' = [fwd EXCEPT !.usb_busy = TRUE]
      /\ ~fwd.next_event
  BY DEF hidc_read, btVars
<1> HIDE DEF e
<1>3. Has(queue, Reporting) \in Nat /\ usb.endpoint \in Nat /\ fwd.usb_busy \in BOOLEAN
  BY <1>0, CountsAreNat DEF UsbType
<1>4. UsbType'
  BY <1>0, <1>2 DEF UsbType
<1>5. CASE fwd.usb_busy
  <2>1. queue' = queue
    BY <1>2, <1>5, SubmitsNothing
  <2>2. fwd'.usb_busy /\ fwd'.next_event
    BY <1>0, <1>2, <1>5 DEF UsbType
  <2>3. ReportInv'
    BY <1>0, <1>2, <1>5, <2>1, <2>2 DEF ReportInv, OnItsWay
  <2> QED  BY <1>0, <1>2, <1>4, <2>1, <2>3, DmUntouched, ConfigKeeps, QueueSame
           DEF CentralInv, ConfigKept
<1>6. CASE ~fwd.usb_busy
  <2>1. /\ queue' \in Seq(Event)
        /\ Has(queue', {"complete"}) = Has(queue, {"complete"})
        /\ Has(queue', Reporting) = Has(queue, Reporting) + 1
        /\ Has(queue', Answering) = Has(queue, Answering)
    BY <1>1, <1>2, <1>6, Submits
  <2>2. fwd'.usb_busy /\ ~fwd'.next_event
    BY <1>0, <1>2, <1>6 DEF UsbType
  <2>3. OnItsWay = 0 /\ OnItsWay' = 1
    BY <1>0, <1>2, <1>3, <1>6, <2>1 DEF ReportInv, OnItsWay
  <2>4. ReportInv'
    BY <2>2, <2>3 DEF ReportInv
  <2> QED  BY <1>2, <1>4, <2>1, <2>4, DmUntouched, ConfigKeeps DEF CentralInv, ConfigKept
<1> QED  BY <1>5, <1>6

LEMMA WriteCbStep ==
  ASSUME CentralInv, ~dm.fault, app' = app, hidc_write_cb
  PROVE  CentralInv'
<1>1. PICK ok \in BOOLEAN : Submit(<<Forwarded(IF ok THEN "SUCCESS" ELSE "WRITE_ERROR")>>)
  BY DEF hidc_write_cb
<1> DEFINE e == Forwarded(IF ok THEN "SUCCESS" ELSE "WRITE_ERROR")
<1>2. e \in Event /\ e.type # "complete" /\ e.type \notin Reporting /\ e.type \in Answering
  BY DEF Forwarded, Event, Answers, Reporting, Answering
<1> HIDE DEF e
<1>3. /\ queue' \in Seq(Event)
      /\ Has(queue', {"complete"}) = Has(queue, {"complete"})
      /\ Has(queue', Reporting) = Has(queue, Reporting)
      /\ Has(queue', Answering) > 0
  BY <1>1, <1>2, Submits DEF e
<1>4. UNCHANGED <<dm, fwd, usb, forward_status, seen>>
  BY DEF hidc_write_cb, usbVars
<1>5. UsbKept /\ ConfigKept
  BY <1>3, <1>4 DEF UsbKept, ConfigKept, CentralInv, UsbType
<1> QED  BY <1>3, <1>4, <1>5, UsbKeeps, ConfigKeeps, DmUntouched DEF CentralInv

-----------------------------------------------------------------------------
(* The event processor.                                                    *)

Bit(b) == IF b THEN 1 ELSE 0

(* The counts when the head is replaced by the events es at the end.       *)
LEMMA Taking ==
  ASSUME CentralInv, queue # << >>, NEW es \in Seq(Event), Take(es)
  PROVE  /\ queue' \in Seq(Event) /\ Head(queue) \in Event
         /\ Has(queue', {"complete"}) =
              Has(queue, {"complete"}) + Has(es, {"complete"})
                - Bit(Head(queue).type = "complete")
         /\ Has(queue', Reporting) =
              Has(queue, Reporting) + Has(es, Reporting) - Bit(Head(queue).type \in Reporting)
         /\ Has(queue', Answering) =
              Has(queue, Answering) + Has(es, Answering) - Bit(Head(queue).type \in Answering)
         /\ Has(queue, {"complete"}) \in Nat /\ Has(queue, Reporting) \in Nat
         /\ Has(queue, Answering) \in Nat
         /\ Has(queue', Answering) \in Nat
<1>1. queue \in Seq(Event) /\ queue' = Tail(queue) \o es
  BY DEF CentralInv, Take
<1>2. ASSUME NEW S
      PROVE  /\ queue' \in Seq(Event) /\ Head(queue) \in Event
             /\ Has(queue', S) = Has(queue, S) + Has(es, S) - Bit(Head(queue).type \in S)
  BY <1>1, Takes, HasTail DEF Bit
<1>3. queue' \in Seq(Event) /\ Head(queue) \in Event
  BY <1>2
<1>4. Head(queue).type \in {"complete"} <=> Head(queue).type = "complete"
  OBVIOUS
<1>5. Has(queue', Answering) \in Nat
  BY <1>3, CountsAreNat
<1>6. Has(queue', {"complete"}) = Has(queue, {"complete"}) + Has(es, {"complete"})
                                  - Bit(Head(queue).type = "complete")
  BY <1>2, <1>4 DEF Bit
<1> QED  BY <1>1, <1>2, <1>3, <1>5, <1>6, CountsAreNat

(* The counts when the event that is taken is answered by nothing.         *)
LEMMA TakesOnly ==
  ASSUME CentralInv, queue # << >>, Take(<< >>)
  PROVE  /\ queue' \in Seq(Event)
         /\ Has(queue', {"complete"}) =
              Has(queue, {"complete"}) - Bit(Head(queue).type = "complete")
         /\ Has(queue', Reporting) =
              Has(queue, Reporting) - Bit(Head(queue).type \in Reporting)
         /\ Has(queue', Answering) =
              Has(queue, Answering) - Bit(Head(queue).type \in Answering)
<1> DEFINE es == << >>
<1>1. /\ es \in Seq(Event) /\ Has(es, {"complete"}) = 0
      /\ Has(es, Reporting) = 0 /\ Has(es, Answering) = 0
  BY HasEmpty
<1>2. Take(es)
  OBVIOUS
<1> HIDE DEF es
<1>3. /\ queue' \in Seq(Event)
      /\ Has(queue', {"complete"}) =
           Has(queue, {"complete"}) + 0 - Bit(Head(queue).type = "complete")
      /\ Has(queue', Reporting) =
           Has(queue, Reporting) + 0 - Bit(Head(queue).type \in Reporting)
      /\ Has(queue', Answering) =
           Has(queue, Answering) + 0 - Bit(Head(queue).type \in Answering)
  BY <1>1, <1>2, Taking
<1>4. /\ Has(queue, {"complete"}) \in Nat /\ Has(queue, Reporting) \in Nat
      /\ Has(queue, Answering) \in Nat
  BY CountsAreNat DEF CentralInv
<1> QED  BY <1>3, <1>4 DEF Bit

(* The counts when it is answered by one event.                            *)
LEMMA TakesFor ==
  ASSUME CentralInv, queue # << >>, NEW e \in Event, Take(<<e>>)
  PROVE  /\ queue' \in Seq(Event)
         /\ Has(queue', {"complete"}) =
              Has(queue, {"complete"}) + Bit(e.type = "complete")
                - Bit(Head(queue).type = "complete")
         /\ Has(queue', Reporting) =
              Has(queue, Reporting) + Bit(e.type \in Reporting)
                - Bit(Head(queue).type \in Reporting)
         /\ Has(queue', Answering) =
              Has(queue, Answering) + Bit(e.type \in Answering)
                - Bit(Head(queue).type \in Answering)
<1> DEFINE es == <<e>>
<1>1. /\ es \in Seq(Event) /\ Has(es, {"complete"}) = Bit(e.type = "complete")
      /\ Has(es, Reporting) = Bit(e.type \in Reporting)
      /\ Has(es, Answering) = Bit(e.type \in Answering)
  BY EventCounts DEF Bit
<1>2. Take(es)
  OBVIOUS
<1> HIDE DEF es
<1> QED  BY <1>1, <1>2, Taking

(* An event of no interest to the three counts.                            *)
LEMMA TakesQuietly ==
  ASSUME CentralInv, queue # << >>, Take(<< >>), Head(queue).type # "complete",
         Head(queue).type \notin Reporting, Head(queue).type \notin Answering
  PROVE  /\ queue' \in Seq(Event)
         /\ Has(queue', {"complete"}) = Has(queue, {"complete"})
         /\ Has(queue', Reporting) = Has(queue, Reporting)
         /\ Has(queue', Answering) = Has(queue, Answering)
<1>1. /\ Has(queue, {"complete"}) \in Nat /\ Has(queue, Reporting) \in Nat
      /\ Has(queue, Answering) \in Nat
  BY CountsAreNat DEF CentralInv
<1> QED  BY <1>1, TakesOnly DEF Bit

LEMMA CompleteStep ==
  ASSUME CentralInv, ~dm.fault, app' = app, queue # << >>, Head(queue).type = "complete", complete_event
  PROVE  CentralInv'
<1>1. Has(queue, Reporting) \in Nat /\ Has(queue, Answering) \in Nat
  BY CountsAreNat DEF CentralInv
<1>2. "complete" \notin Reporting /\ "complete" \notin Answering
  BY DEF Reporting, Answering
<1>3. Take(<< >>) /\ dm' = bt_gatt_dm_data_release(dm) /\ UNCHANGED <<att, fwd, usb, forward_status>>
  BY DEF complete_event, usbVars
<1>4. /\ queue' \in Seq(Event)
      /\ Has(queue', {"complete"}) = Has(queue, {"complete"}) - 1
      /\ Has(queue', Reporting) = Has(queue, Reporting)
      /\ Has(queue', Answering) = Has(queue, Answering)
      /\ Has(queue, {"complete"}) > 0
  <2>1. /\ queue' \in Seq(Event)
        /\ Has(queue', {"complete"}) = Has(queue, {"complete"}) - 1
        /\ Has(queue', Reporting) = Has(queue, Reporting)
        /\ Has(queue', Answering) = Has(queue, Answering)
    BY <1>1, <1>2, <1>3, TakesOnly DEF Bit
  <2>2. Has(queue', {"complete"}) \in Nat /\ Has(queue, {"complete"}) \in Nat
    BY <2>1, CountsAreNat DEF CentralInv
  <2> QED  BY <2>1, <2>2
<1>5. DmKept
  <2>1. DmOK(dm) /\ dm.cb = "none" /\ Has(queue, {"complete"}) = IF dm.pending THEN 1 ELSE 0
    BY DEF CentralInv, DmInv
  <2>2. DmOK(dm') /\ dm'.cb = "none" /\ ~dm'.pending
    <3>1. dm = [dm EXCEPT !.cb = "none"] /\ dm \in Dm
      BY <2>1 DEF DmOK, Dm
    <3>2. dm' \in Dm /\ dm'.cb = "none" /\ ~dm'.pending /\ DmOK([dm' EXCEPT !.cb = "none"])
      BY <1>3, <2>1, <3>1, ReleaseHolds
    <3>3. dm' = [dm' EXCEPT !.cb = "none"]
      BY <3>2 DEF Dm
    <3> QED  BY <3>2, <3>3
  <2>3. Has(queue', {"complete"}) = 0
    BY <1>4, <2>1
  <2> QED  BY <2>2, <2>3 DEF DmKept
<1>6. /\ seen' \in [failed : BOOLEAN, conn_failed : BOOLEAN, dropped : BOOLEAN]
      /\ seen'.dropped = seen.dropped
  <2>1. seen' = seen \/ \E failed : Spend(failed)
    BY DEF complete_event
  <2> QED  BY <2>1, SpendKeeps DEF CentralInv, UsbType
<1>7. UsbKept /\ ConfigKept
  BY <1>3, <1>4, <1>6 DEF UsbKept, ConfigKept
<1> QED  BY <1>4, <1>5, <1>7, Keeps

LEMMA PeerStep ==
  ASSUME CentralInv, ~dm.fault, app' = app, queue # << >>, Head(queue).type = "peer",
         NEW e, peer_event(e)
  PROVE  CentralInv'
<1>1. Take(<< >>) /\ UNCHANGED <<att, fwd, usb, forward_status>>
  BY DEF peer_event, usbVars
<1>2. "peer" # "complete" /\ "peer" \notin Reporting /\ "peer" \notin Answering
  BY DEF Reporting, Answering
<1>3. /\ queue' \in Seq(Event)
      /\ Has(queue', {"complete"}) = Has(queue, {"complete"})
      /\ Has(queue', Reporting) = Has(queue, Reporting)
      /\ Has(queue', Answering) = Has(queue, Answering)
  BY <1>1, <1>2, TakesQuietly
<1>4. dm' = dm \/ \E failed, full : dm' = bt_gatt_dm_start(dm, failed, ~full)
  BY DEF peer_event
<1>5. DmKept
  <2>1. DmOK(dm) /\ dm.cb = "none" /\ \A full : (~full) \in BOOLEAN
    BY DEF CentralInv, DmInv
  <2>2. DmOK(dm') /\ dm'.cb = "none" /\ dm'.pending = dm.pending
    <3>1. CASE dm' = dm
      BY <2>1, <3>1
    <3>2. ASSUME NEW failed, NEW full, dm' = bt_gatt_dm_start(dm, failed, ~full)
          PROVE  DmOK(dm') /\ dm'.cb = "none" /\ dm'.pending = dm.pending
      BY <2>1, <3>2, StartHolds
    <3> QED  BY <1>4, <3>1, <3>2
  <2> QED  BY <1>3, <2>2 DEF DmKept, CentralInv, DmInv
<1>6. /\ seen' \in [failed : BOOLEAN, conn_failed : BOOLEAN, dropped : BOOLEAN]
      /\ seen'.dropped = seen.dropped
  <2>1. seen' = seen \/ \E failed : Spend(failed)
    BY DEF peer_event
  <2> QED  BY <2>1, SpendKeeps DEF CentralInv, UsbType
<1>7. UsbKept /\ ConfigKept
  BY <1>1, <1>3, <1>6 DEF UsbKept, ConfigKept
<1> QED  BY <1>3, <1>5, <1>7, Keeps

LEMMA ModuleStep ==
  ASSUME CentralInv, ~dm.fault, app' = app, queue # << >>,
         Head(queue).type \in {"ble_state_ready", "ble_bond_ready"}, NEW e, module_event(e)
  PROVE  CentralInv'
<1>1. Take(<< >>) /\ UNCHANGED <<dm, att, fwd, usb, forward_status>>
  BY DEF module_event, usbVars
<1>2. /\ Head(queue).type # "complete" /\ Head(queue).type \notin Reporting
      /\ Head(queue).type \notin Answering
  BY DEF Reporting, Answering
<1>3. /\ queue' \in Seq(Event)
      /\ Has(queue', {"complete"}) = Has(queue, {"complete"})
      /\ Has(queue', Reporting) = Has(queue, Reporting)
      /\ Has(queue', Answering) = Has(queue, Answering)
  BY <1>1, <1>2, TakesQuietly
<1>4. /\ seen' \in [failed : BOOLEAN, conn_failed : BOOLEAN, dropped : BOOLEAN]
      /\ seen'.dropped = seen.dropped
  <2>1. seen' = seen \/ \E failed : Spend(failed)
    BY DEF module_event
  <2> QED  BY <2>1, SpendKeeps DEF CentralInv, UsbType
<1>5. DmKept /\ UsbKept /\ ConfigKept
  BY <1>1, <1>3, <1>4 DEF DmKept, UsbKept, ConfigKept, CentralInv, DmInv
<1> QED  BY <1>3, <1>5, Keeps

LEMMA MouseStep ==
  ASSUME CentralInv, ~dm.fault, app' = app, queue # << >>, Head(queue).type = "mouse", mouse_event(Head(queue))
  PROVE  CentralInv'
<1>0. UsbType /\ ReportInv /\ queue \in Seq(Event)
  BY DEF CentralInv
<1>1. UNCHANGED <<dm, att, fwd, forward_status>>
  BY DEF mouse_event, btVars
<1>2. "mouse" # "complete" /\ "mouse" \in Reporting /\ "mouse" \notin Answering
  BY DEF Reporting, Answering
<1>3. /\ Has(queue, {"complete"}) \in Nat /\ Has(queue, Reporting) \in Nat
      /\ Has(queue, Answering) \in Nat /\ usb.endpoint \in Nat
  BY <1>0, CountsAreNat DEF UsbType
<1> DEFINE sent == [type |-> "sent"]
<1>4. sent \in Event /\ sent.type # "complete" /\ sent.type \in Reporting /\ sent.type \notin Answering
  BY DEF Event, Reporting, Answering
<1> HIDE DEF sent
<1>5. CASE Head(queue).sub /\ usb.state = "ACTIVE"
  <2>1. PICK failed \in MayFail :
          /\ usb' = IF failed THEN usb ELSE [usb EXCEPT !.endpoint = @ + 1]
          /\ Take(IF failed THEN <<sent>> ELSE << >>)
          /\ Spend(failed)
    BY <1>5 DEF mouse_event, sent
  <2>2. /\ queue' \in Seq(Event)
        /\ Has(queue', {"complete"}) = Has(queue, {"complete"})
        /\ Has(queue', Answering) = Has(queue, Answering)
        /\ Has(queue', Reporting) = IF failed THEN Has(queue, Reporting) ELSE Has(queue, Reporting) - 1
    <3>1. CASE failed
      <4>1. Take(<<sent>>)
        BY <2>1, <3>1
      <4> QED  BY <1>2, <1>3, <1>4, <3>1, <4>1, TakesFor DEF Bit
    <3>2. CASE ~failed
      BY <1>2, <1>3, <2>1, <3>2, TakesOnly DEF Bit
    <3> QED  BY <3>1, <3>2
  <2>3. /\ seen' \in [failed : BOOLEAN, conn_failed : BOOLEAN, dropped : BOOLEAN]
        /\ seen'.dropped = seen.dropped
    BY <1>0, <2>1, SpendKeeps
  <2>4. /\ UsbType'
        /\ usb'.endpoint = IF failed THEN usb.endpoint ELSE usb.endpoint + 1
    <3>1. usb.endpoint + 1 \in Nat
      BY <1>3
    <3>2. CASE failed
      BY <1>0, <1>1, <2>1, <2>3, <3>2 DEF UsbType
    <3>3. CASE ~failed
      BY <1>0, <1>1, <2>1, <2>3, <3>1, <3>3 DEF UsbType
    <3> QED  BY <3>2, <3>3
  <2>5. OnItsWay' = OnItsWay
    BY <1>3, <2>2, <2>4, SMTT(30) DEF OnItsWay
  <2>6. ReportInv'
    BY <1>0, <1>1, <2>3, <2>5 DEF ReportInv
  <2> QED  BY <1>1, <2>2, <2>4, <2>6, DmUntouched, ConfigKeeps DEF CentralInv, ConfigKept
<1>6. CASE ~(Head(queue).sub /\ usb.state = "ACTIVE")
  <2>1. seen' = [seen EXCEPT !.dropped = TRUE] /\ Take(<< >>) /\ usb' = usb
    BY <1>6 DEF mouse_event
  <2>2. /\ queue' \in Seq(Event)
        /\ Has(queue', {"complete"}) = Has(queue, {"complete"})
        /\ Has(queue', Answering) = Has(queue, Answering)
        /\ Has(queue', Reporting) = Has(queue, Reporting) - 1
    BY <1>2, <1>3, <2>1, TakesOnly DEF Bit
  <2>3. UsbType' /\ seen'.dropped
    BY <1>0, <1>1, <2>1 DEF UsbType
  <2>4. OnItsWay' = OnItsWay - 1 /\ OnItsWay \in Nat
    BY <1>3, <2>1, <2>2, SMTT(30) DEF OnItsWay
  <2>5. ReportInv'
    BY <1>0, <1>1, <2>3, <2>4 DEF ReportInv
  <2> QED  BY <1>1, <2>2, <2>3, <2>5, DmUntouched, ConfigKeeps DEF CentralInv, ConfigKept
<1> QED  BY <1>5, <1>6

LEMMA SentStep ==
  ASSUME CentralInv, ~dm.fault, app' = app, queue # << >>, Head(queue).type = "sent", sent_event
  PROVE  CentralInv'
<1>0. UsbType /\ ReportInv /\ queue \in Seq(Event)
  BY DEF CentralInv
<1>1. UNCHANGED <<dm, att, usb, forward_status, seen>>
  BY DEF sent_event, btVars
<1>2. "sent" # "complete" /\ "sent" \in Reporting /\ "sent" \notin Answering
  BY DEF Reporting, Answering
<1>3. /\ Has(queue, {"complete"}) \in Nat /\ Has(queue, Reporting) \in Nat
      /\ Has(queue, Answering) \in Nat /\ usb.endpoint \in Nat
  BY <1>0, CountsAreNat DEF UsbType
<1> DEFINE e == [type |-> "mouse", sub |-> fwd.usb_id]
<1>4. e \in Event /\ e.type # "complete" /\ e.type \in Reporting /\ e.type \notin Answering
  BY <1>0 DEF Event, Reporting, Answering, UsbType
<1>5. /\ fwd.next_event => Take(<<e>>) /\ fwd' = [fwd EXCEPT !.next_event = FALSE]
      /\ ~fwd.next_event => Take(<< >>) /\ fwd' = [fwd EXCEPT !.usb_busy = FALSE]
  BY DEF sent_event
<1> HIDE DEF e
<1>6. UsbType'
  BY <1>0, <1>1, <1>5 DEF UsbType
<1>7. CASE fwd.next_event
  <2>2. /\ queue' \in Seq(Event)
        /\ Has(queue', {"complete"}) = Has(queue, {"complete"})
        /\ Has(queue', Answering) = Has(queue, Answering)
        /\ Has(queue', Reporting) = Has(queue, Reporting)
    BY <1>2, <1>3, <1>4, <1>5, <1>7, TakesFor DEF Bit
  <2>3. fwd'.usb_busy = fwd.usb_busy /\ ~fwd'.next_event
    BY <1>0, <1>5, <1>7 DEF UsbType
  <2>4. ReportInv'
    BY <1>0, <1>1, <2>2, <2>3 DEF ReportInv, OnItsWay
  <2> QED  BY <1>1, <1>6, <2>2, <2>4, DmUntouched, ConfigKeeps DEF CentralInv, ConfigKept
<1>8. CASE ~fwd.next_event
  <2>1. /\ queue' \in Seq(Event)
        /\ Has(queue', {"complete"}) = Has(queue, {"complete"})
        /\ Has(queue', Answering) = Has(queue, Answering)
        /\ Has(queue', Reporting) = Has(queue, Reporting) - 1
    BY <1>2, <1>3, <1>5, <1>8, TakesOnly DEF Bit
  <2>2. ~fwd'.usb_busy /\ ~fwd'.next_event
    BY <1>0, <1>5, <1>8 DEF UsbType
  <2>3. Has(queue', Reporting) \in Nat
    BY <2>1, CountsAreNat
  <2>4. OnItsWay' = 0
    BY <1>0, <1>1, <1>3, <2>1, <2>3 DEF ReportInv, OnItsWay
  <2>5. ReportInv'
    BY <2>2, <2>4 DEF ReportInv
  <2> QED  BY <1>1, <1>6, <2>1, <2>5, DmUntouched, ConfigKeeps DEF CentralInv, ConfigKept
<1> QED  BY <1>7, <1>8

LEMMA UsbEventStep ==
  ASSUME CentralInv, ~dm.fault, app' = app, queue # << >>, Head(queue).type \in {"usb", "subscription"},
         usb_event(Head(queue))
  PROVE  CentralInv'
<1>0. UsbType /\ ReportInv /\ queue \in Seq(Event)
  BY DEF CentralInv
<1>1. UNCHANGED <<dm, att, usb, forward_status, seen>> /\ Take(<< >>)
  BY DEF usb_event, btVars
<1>2. /\ Head(queue).type # "complete" /\ Head(queue).type \notin Reporting
      /\ Head(queue).type \notin Answering
  BY DEF Reporting, Answering
<1>3. /\ queue' \in Seq(Event)
      /\ Has(queue', {"complete"}) = Has(queue, {"complete"})
      /\ Has(queue', Reporting) = Has(queue, Reporting)
      /\ Has(queue', Answering) = Has(queue, Answering)
  BY <1>1, <1>2, TakesQuietly
<1>4. Head(queue).type = "subscription" => Head(queue).enabled \in BOOLEAN
  <2>1. Head(queue) \in Event
    BY <1>0, HasTail
  <2> QED  BY <2>1 DEF Event
<1>5. /\ UsbType'
      /\ fwd'.usb_busy = fwd.usb_busy /\ fwd'.next_event = fwd.next_event
  BY <1>0, <1>1, <1>4 DEF UsbType, usb_event
<1>6. ReportInv'
  BY <1>0, <1>1, <1>3, <1>5 DEF ReportInv, OnItsWay
<1> QED  BY <1>1, <1>3, <1>5, <1>6, DmUntouched, ConfigKeeps DEF CentralInv, ConfigKept

LEMMA ForwardStep ==
  ASSUME CentralInv, ~dm.fault, app' = app, queue # << >>, Head(queue).type = "forward", forward_event
  PROVE  CentralInv'
<1>0. UsbType /\ queue \in Seq(Event)
  BY DEF CentralInv
<1>1. UNCHANGED <<dm, fwd, usb, forward_status>>
  BY DEF forward_event, usbVars
<1>2. "forward" # "complete" /\ "forward" \notin Reporting /\ "forward" \in Answering
  BY DEF Reporting, Answering
<1>3. /\ Has(queue, {"complete"}) \in Nat /\ Has(queue, Reporting) \in Nat
      /\ Has(queue, Answering) \in Nat
  BY <1>0, CountsAreNat
<1>4. \/ \E st \in Answers : Take(<<Forwarded(st)>>)
      \/ att' # {} /\ Take(<< >>)
  BY DEF forward_event, Answers
<1>5. /\ queue' \in Seq(Event)
      /\ Has(queue', {"complete"}) = Has(queue, {"complete"})
      /\ Has(queue', Reporting) = Has(queue, Reporting)
      /\ att' # {} \/ Has(queue', Answering) > 0
  <2>1. CASE \E st \in Answers : Take(<<Forwarded(st)>>)
    <3>1. PICK st \in Answers : Take(<<Forwarded(st)>>)
      BY <2>1
    <3> DEFINE e == Forwarded(st)
    <3>2. e \in Event /\ e.type # "complete" /\ e.type \notin Reporting /\ e.type \in Answering
      BY DEF Forwarded, Event, Reporting, Answering
    <3>3. Take(<<e>>)
      BY <3>1
    <3> HIDE DEF e
    <3>4. /\ queue' \in Seq(Event)
          /\ Has(queue', {"complete"}) = Has(queue, {"complete"})
          /\ Has(queue', Reporting) = Has(queue, Reporting)
          /\ Has(queue', Answering) = Has(queue, Answering)
      <4>1. /\ queue' \in Seq(Event)
            /\ Has(queue', {"complete"}) = Has(queue, {"complete"}) + 0 - 0
            /\ Has(queue', Reporting) = Has(queue, Reporting) + 0 - 0
            /\ Has(queue', Answering) = Has(queue, Answering) + 1 - 1
        BY <1>2, <3>2, <3>3, TakesFor DEF Bit
      <4> QED  BY <1>3, <4>1
    <3>5. 1 \in DOMAIN queue /\ queue[1].type \in Answering
      BY <1>0, <1>2
    <3>6. Has(queue, Answering) > 0
      BY <1>0, <3>5, HasSome
    <3> QED  BY <3>4, <3>6
  <2>2. CASE att' # {} /\ Take(<< >>)
    BY <1>2, <1>3, <2>2, TakesOnly DEF Bit
  <2> QED  BY <1>4, <2>1, <2>2
<1>6. /\ seen' \in [failed : BOOLEAN, conn_failed : BOOLEAN, dropped : BOOLEAN]
      /\ seen'.dropped = seen.dropped
  <2>1. seen' = seen \/ \E failed : Spend(failed)
    BY DEF forward_event
  <2> QED  BY <1>0, <2>1, SpendKeeps DEF UsbType
<1>7. UsbKept /\ ConfigKept
  BY <1>1, <1>5, <1>6 DEF UsbKept, ConfigKept
<1> QED  BY <1>1, <1>5, <1>7, UsbKeeps, ConfigKeeps, DmUntouched DEF CentralInv

LEMMA ForwardedStep ==
  ASSUME CentralInv, ~dm.fault, app' = app, queue # << >>, Head(queue).type = "forwarded",
         forwarded_event(Head(queue))
  PROVE  CentralInv'
<1>0. UsbType /\ queue \in Seq(Event)
  BY DEF CentralInv
<1>1. /\ UNCHANGED <<dm, att, fwd, usb, seen>> /\ Take(<< >>)
      /\ forward_status' = Head(queue).status
  BY DEF forwarded_event, btVars
<1>2. "forwarded" # "complete" /\ "forwarded" \notin Reporting
  BY DEF Reporting
<1>3. /\ Has(queue, {"complete"}) \in Nat /\ Has(queue, Reporting) \in Nat
  BY <1>0, CountsAreNat
<1>4. /\ queue' \in Seq(Event)
      /\ Has(queue', {"complete"}) = Has(queue, {"complete"})
      /\ Has(queue', Reporting) = Has(queue, Reporting)
  BY <1>1, <1>2, <1>3, TakesOnly DEF Bit
<1>5. Head(queue).status \in Answers
  <2>1. Head(queue) \in Event
    BY <1>0, HasTail
  <2> QED  BY <2>1 DEF Event
<1>6. ConfigInv'
  BY <1>1, <1>5 DEF ConfigInv, Answers
<1>7. UsbKept
  BY <1>0, <1>1, <1>4 DEF UsbKept, UsbType
<1> QED  BY <1>1, <1>4, <1>6, <1>7, UsbKeeps, DmUntouched DEF CentralInv

LEMMA ProcessorStep ==
  ASSUME CentralInv, ~dm.fault, app' = app, event_processor_fn
  PROVE  CentralInv'
<1>1. queue # << >> /\ queue \in Seq(Event)
  BY DEF event_processor_fn, CentralInv
<1>2. Head(queue).type \in {"complete", "peer", "ble_state_ready", "ble_bond_ready", "mouse",
                            "sent", "usb", "subscription", "forward", "forwarded"}
  <2>1. Head(queue) \in Event
    BY <1>1, HasTail
  <2> QED  BY <2>1 DEF Event
<1>3. CASE Head(queue).type = "complete"
  BY <1>1, <1>3, CompleteStep DEF event_processor_fn
<1>4. CASE Head(queue).type = "peer"
  BY <1>1, <1>4, PeerStep DEF event_processor_fn
<1>5. CASE Head(queue).type \in {"ble_state_ready", "ble_bond_ready"}
  BY <1>1, <1>5, ModuleStep DEF event_processor_fn
<1>6. CASE Head(queue).type = "mouse"
  BY <1>1, <1>6, MouseStep DEF event_processor_fn
<1>7. CASE Head(queue).type = "sent"
  BY <1>1, <1>7, SentStep DEF event_processor_fn
<1>8. CASE Head(queue).type \in {"usb", "subscription"}
  BY <1>1, <1>8, UsbEventStep DEF event_processor_fn
<1>9. CASE Head(queue).type = "forward"
  BY <1>1, <1>9, ForwardStep DEF event_processor_fn
<1>10. CASE Head(queue).type = "forwarded"
  BY <1>1, <1>10, ForwardedStep DEF event_processor_fn
<1> QED  BY <1>2, <1>3, <1>4, <1>5, <1>6, <1>7, <1>8, <1>9, <1>10

-----------------------------------------------------------------------------
(* The sample, which has no host that waits.                               *)

LEMMA SampleStep ==
  ASSUME CentralInv, ~dm.fault, app' = app, app # "dongle", UNCHANGED <<dm, queue, fwd, usb, forward_status>>,
         seen' \in [failed : BOOLEAN, conn_failed : BOOLEAN, dropped : BOOLEAN],
         seen'.dropped = seen.dropped
  PROVE  CentralInv'
<1>1. DmKept /\ UsbKept /\ ConfigKept
  BY QueueSame DEF DmKept, UsbKept, ConfigKept, CentralInv, DmInv
<1> QED  BY <1>1, Keeps, QueueSame

LEMMA OnReadyStep ==
  ASSUME CentralInv, ~dm.fault, app' = app, hids_on_ready
  PROVE  CentralInv'
<1>1. UNCHANGED <<dm, att, queue, fwd, usb, forward_status>>
  BY DEF hids_on_ready, usbVars
<1>2. \E failed : seen' = [seen EXCEPT !.failed = @ \/ (failed /\ link # "down")]
  BY Zenon DEF hids_on_ready
<1>3. /\ seen' \in [failed : BOOLEAN, conn_failed : BOOLEAN, dropped : BOOLEAN]
      /\ seen'.dropped = seen.dropped
  BY <1>2 DEF CentralInv, UsbType
<1> QED  BY <1>1, <1>3, Stutters

LEMMA SampleSteps ==
  ASSUME CentralInv, ~dm.fault, app' = app, Sample
  PROVE  CentralInv'
<1>1. CASE hids_on_ready
  BY <1>1, OnReadyStep
<1>2. CASE button_bootmode
  <2>1. UNCHANGED <<dm, att, queue, fwd, usb, forward_status>> /\ \E failed : Spend(failed)
    BY <1>2 DEF button_bootmode, usbVars
  <2> QED  BY <2>1, SpendKeeps, Stutters DEF CentralInv
<1>3. CASE button_capslock_rsp
  <2>1. /\ UNCHANGED <<dm, queue, fwd, usb, forward_status>> /\ app # "dongle"
        /\ \E failed : Spend(failed)
    BY <1>3 DEF button_capslock_rsp, usbVars
  <2> QED  BY <2>1, SpendKeeps, SampleStep DEF CentralInv
<1>4. ASSUME NEW a \in att, capslock_cb(a) PROVE CentralInv'
  <2>1. /\ UNCHANGED <<dm, queue, fwd, usb, forward_status>> /\ app # "dongle"
        /\ \E failed : Spend(failed)
    BY <1>4 DEF capslock_cb, usbVars
  <2> QED  BY <2>1, SpendKeeps, SampleStep DEF CentralInv
<1> QED  BY <1>1, <1>2, <1>3, <1>4 DEF Sample

-----------------------------------------------------------------------------
(* The invariant holds.                                                    *)

LEMMA InitCentral ==
  ASSUME Init
  PROVE  CentralInv
<1> DEFINE q == <<[type |-> "ble_state_ready"], [type |-> "ble_bond_ready"]>>
<1>1. /\ q \in Seq(Event) /\ DOMAIN q = {1, 2}
      /\ q[1].type = "ble_state_ready" /\ q[2].type = "ble_bond_ready"
  BY DEF Event
<1> HIDE DEF q
<1>2. \A i \in DOMAIN q : /\ q[i].type \notin {"complete"} /\ q[i].type \notin Reporting
                           /\ q[i].type \notin Answering
  BY <1>1 DEF Reporting, Answering
<1>3. Has(q, {"complete"}) = 0 /\ Has(q, Reporting) = 0 /\ Has(q, Answering) = 0
  BY <1>1, <1>2, HasNone
<1>4. queue = q \/ queue = << >>
  BY DEF Init, q
<1>5. /\ queue \in Seq(Event)
      /\ Has(queue, {"complete"}) = 0 /\ Has(queue, Reporting) = 0 /\ Has(queue, Answering) = 0
  BY <1>1, <1>3, <1>4, HasEmpty
<1>6. DmInv
  <2>1. dm \in Dm /\ ~dm.locked /\ ~dm.pending /\ dm.phase = "none" /\ dm.chunks = {}
        /\ dm.cur_id = 0 /\ dm.cb = "none" /\ ~dm.fault
    BY DEF Init, DmInit, Dm
  <2>2. MaxChunks \in Nat \ {0}
    BY DataFits
  <2> QED  BY <1>5, <2>1, <2>2 DEF DmInv, DmOK, MemoryHeld
<1>7. UsbType /\ ReportInv
  BY <1>5 DEF Init, UsbType, UsbStates, ReportInv, OnItsWay
<1>8. ConfigInv
  BY DEF Init, ConfigInv
<1> QED  BY <1>5, <1>6, <1>7, <1>8 DEF CentralInv

LEMMA NextCentral ==
  ASSUME CentralInv, [Next]_vars
  PROVE  CentralInv'
<1>1. CASE Next
  <2>0. app' = app /\ ~dm.fault
    BY <1>1 DEF Next, Faulted
  <2>1. CASE Bluetooth
    <3>1. CASE main
      <4>1. /\ UNCHANGED <<dm, att, queue, fwd, usb, forward_status>>
            /\ \E failed : Spend(failed)
        BY <3>1 DEF main, usbVars
      <4> QED  BY <2>0, <4>1, SpendKeeps, Stutters DEF CentralInv
    <3>2. ASSUME NEW p \in Peers, scan_device_found(p) PROVE CentralInv'
      BY <2>0, <3>2, FoundStep
    <3> QED  BY <2>0, <2>1, <3>1, <3>2, ConnectedStep, ConnFailedStep, SecurityStep,
                DisconnectedStep, DiscoverStep, AnswerStep DEF Bluetooth
  <2>2. CASE Usb
    <3>1. ASSUME NEW s, UsbStatus(s) PROVE CentralInv'
      BY <2>0, <3>1, UsbStatusStep
    <3>2. ASSUME NEW own \in BOOLEAN, set_report(own) PROVE CentralInv'
      BY <2>0, <3>2, SetReportStep
    <3> QED  BY <2>0, <2>2, <3>1, <3>2, SentCbStep, HidcReadStep, WriteCbStep DEF Usb
  <2>3. CASE event_processor_fn
    BY <2>0, <2>3, ProcessorStep
  <2>4. CASE Sample
    BY <2>0, <2>4, SampleSteps
  <2> QED  BY <1>1, <2>1, <2>2, <2>3, <2>4 DEF Next
<1>2. CASE UNCHANGED vars
  <2>1. UNCHANGED <<app, dm, att, queue, fwd, usb, forward_status, seen>>
    BY <1>2 DEF vars, btVars, usbVars
  <2> QED  BY <2>1 DEF CentralInv, DmInv, UsbType, ReportInv, OnItsWay, ConfigInv
<1> QED  BY <1>1, <1>2

LEMMA CentralAlways == Spec => []CentralInv
<1>1. Init => CentralInv
  BY InitCentral
<1>2. CentralInv /\ [Next]_vars => CentralInv'
  BY NextCentral
<1> QED  BY <1>1, <1>2, PTL DEF Spec

(***************************************************************************)
(* The lock of gatt_dm.c is held exactly while a discovery runs or its     *)
(* result waits in the queue of the event manager, and an unlocked manager *)
(* holds no memory a later discovery would miss: for every table a peer    *)
(* may present, all sizes of the chunks and wherever a discovery, a store  *)
(* or the link fails.  The exception is the fatal error of a store through *)
(* a null pointer or a release beyond the array, which a peer reaches only *)
(* by using up the chunks, or a call of the device's own that failed.      *)
(***************************************************************************)
THEOREM DiscoveryAlwaysBalanced == Spec => []DiscoveryBalanced
<1>1. CentralInv => DiscoveryBalanced
  <2> SUFFICES ASSUME CentralInv PROVE DiscoveryBalanced
    OBVIOUS
  <2>1. Count(LAMBDA e : e.type = "complete") = Has(queue, {"complete"})
    <3>1. {i \in DOMAIN queue : queue[i].type = "complete"} =
            {i \in DOMAIN queue : queue[i].type \in {"complete"}}
      OBVIOUS
    <3> QED  BY <3>1 DEF Count, Has
  <2>2. ~dm.fault => (dm.pending <=> Has(queue, {"complete"}) = 1)
    BY DEF CentralInv, DmInv
  <2> QED  BY <2>1, <2>2 DEF CentralInv, DmInv, DmOK, MemoryHeld, DiscoveryBalanced
<1> QED  BY <1>1, CentralAlways, PTL

(***************************************************************************)
(* At most one mouse report is on its way from hid_forward.c to the USB    *)
(* host, and hid_forward.c stays busy without one only after USB dropped   *)
(* a report: however notifications, USB resets and suspends, failing       *)
(* writes and the events of the queue interleave.                          *)
(***************************************************************************)
THEOREM OneReportAlways == Spec => []OneReportInFlight
<1>1. CentralInv => OneReportInFlight
  <2> SUFFICES ASSUME CentralInv PROVE OneReportInFlight
    OBVIOUS
  <2>1. Count(LAMBDA e : e.type \in {"mouse", "sent"}) = Has(queue, Reporting)
    BY DEF Count, Has, Reporting
  <2> QED  BY <2>1 DEF CentralInv, ReportInv, OnItsWay, OneReportInFlight
<1> QED  BY <1>1, CentralAlways, PTL

(***************************************************************************)
(* While usb_state.c tells the host that its request is pending, the       *)
(* request, its write or its answer exists: hid_forward.c answers every    *)
(* path, the write that the link loss ends included.                       *)
(***************************************************************************)
THEOREM ConfigAlwaysAnswered == Spec => []ConfigAnswered
<1>1. CentralInv => ConfigAnswered
  <2> SUFFICES ASSUME CentralInv PROVE ConfigAnswered
    OBVIOUS
  <2>1. Count(LAMBDA e : e.type \in {"forward", "forwarded"}) = Has(queue, Answering)
    BY DEF Count, Has, Answering
  <2> QED  BY <2>1 DEF CentralInv, ConfigInv, ConfigAnswered
<1> QED  BY <1>1, CentralAlways, PTL
=============================================================================
