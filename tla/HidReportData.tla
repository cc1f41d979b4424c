--------------------------- MODULE HidReportData ----------------------------
(***************************************************************************)
(* The report data of the nRF desktop HID state module: the array of       *)
(* pressed items and the queue of item events that wait for a report.      *)
(*                                                                         *)
(* items is an array of ItemCount slots; a free slot has usage 0.  The     *)
(* code looks items up with a binary search, so the array must stay sorted *)
(* by usage: free slots first.  eventq is a sequence of [usage, value,     *)
(* old]; old says that the event is older than the expiration time, which  *)
(* holds of a prefix of the queue because events are queued in time order. *)
(***************************************************************************)
EXTENDS Integers, Sequences, FiniteSets, TLC, FiniteSetsExt

CONSTANTS
  ItemCount,   \* CONFIG_DESKTOP_HID_STATE_ITEM_COUNT
  QueueSize    \* CONFIG_DESKTOP_HID_EVENT_QUEUE_SIZE

ASSUME HidSizes == ItemCount \in Nat \ {0} /\ QueueSize \in Nat \ {0, 1}

FreeItem == [usage |-> 0, value |-> 0]
NoItems == [item |-> [i \in 1 .. ItemCount |-> FreeItem], item_count |-> 0]
NewReportData == [items |-> NoItems, eventq |-> << >>]

-----------------------------------------------------------------------------
(* Items.                                                                  *)

\* The slots that hold usage u: what bsearch() finds in a sorted array.
Slots(items, u) == {i \in 1 .. ItemCount : items.item[i].usage = u}

ValueOf(items, u) ==
  IF Slots(items, u) = {} THEN 0 ELSE items.item[Min(Slots(items, u))].value

\* The array is not sorted again.
KeepOrder(items) == items

SortItems(items) ==
  [items EXCEPT !.item = SortSeq(@, LAMBDA a, b : a.usage < b.usage)]

\* Add v to an item that is there; an item that reaches 0 frees its slot.
UpdateItem(items, i, v) ==
  LET new == items.item[i].value + v
  IN  IF new = 0
      THEN SortItems([item |-> [items.item EXCEPT ![i] = FreeItem],
                      item_count |-> items.item_count - 1])
      ELSE [items EXCEPT !.item[i].value = new]

\* The free slots are at the beginning: the last of them takes a new item.
AddItem(items, u, v) ==
  LET idx == ItemCount - items.item_count
  IN  SortItems([item |-> [items.item EXCEPT ![idx] = [usage |-> u, value |-> v]],
                 item_count |-> items.item_count + 1])

\* Whether key_value_set() records anything: a key up of an item that is not
\* there, and a key down that finds no free slot, are dropped.
Records(items, u, v) ==
  Slots(items, u) # {} \/ (v > 0 /\ items.item_count < ItemCount)

key_value_set(items, u, v) ==
  CASE Slots(items, u) # {} -> UpdateItem(items, Min(Slots(items, u)), v)
    [] Slots(items, u) = {} /\ Records(items, u, v) -> AddItem(items, u, v)
    [] OTHER -> items

-----------------------------------------------------------------------------
(* The event queue.                                                        *)

eventq_is_full(q) == Len(q) >= QueueSize

eventq_append(q, u, v) == Append(q, [usage |-> u, value |-> v, old |-> FALSE])

\* The number of expired events: first_valid is the one after them.
Expired(q) == Cardinality({i \in DOMAIN q : q[i].old})

\* The sum of the values that usage q[i].usage takes from i to j.
Balance(q, i, j) ==
  MapThenSumSet(LAMBDA k : q[k].value, {k \in i .. j : q[k].usage = q[i].usage})

\* The events before first_valid that complete the key down at i.
Pairs(q, i, valid) == {j \in i + 1 .. valid : Balance(q, i, j) = 0}

(***************************************************************************)
(* eventq_cleanup() walks the expired events.  A key down moves maxfound   *)
(* to the key up that completes it, and ends the walk if there is none;    *)
(* when the walk reaches maxfound, everything up to it is purged.          *)
(* maxfound starts at the head, so a key up there is purged by itself.     *)
(***************************************************************************)
Walk(q, valid) ==
  LET w[i \in 0 .. valid] ==
        IF i = 0 THEN [maxfound |-> 1, purged |-> 0, stop |-> FALSE]
        ELSE LET s == w[i - 1]
                 down == q[i].value > 0
                 pairs == Pairs(q, i, valid)
                 found == IF down /\ pairs # {} /\ Min(pairs) > s.maxfound
                          THEN Min(pairs) ELSE s.maxfound
             IN  IF s.stop \/ (down /\ pairs = {})
                 THEN [s EXCEPT !.stop = TRUE]
                 ELSE [maxfound |-> found,
                       purged |-> IF i = found THEN i ELSE s.purged,
                       stop |-> FALSE]
  IN  w[valid].purged

DropFirst(q, n) == SubSeq(q, n + 1, Len(q))

eventq_cleanup(q, valid) == DropFirst(q, Walk(q, valid))

\* All events are dropped, and the items are kept.
MakeRoomKeepsItems(rd, connected) == [rd EXCEPT !.eventq = << >>]

(***************************************************************************)
(* enqueue() to a queue that is full after the cleanup: with no connection *)
(* the oldest complete pair is removed, expired or not; if there is none,  *)
(* or with a connection, all events and items are dropped.                 *)
(***************************************************************************)
MakeRoom(rd, connected) ==
  LET cuts == {i \in DOMAIN rd.eventq : Walk(rd.eventq, i) > 0}
  IN  IF ~connected /\ cuts # {}
      THEN [rd EXCEPT !.eventq = eventq_cleanup(@, Min(cuts))]
      ELSE NewReportData

enqueue(rd, u, v, connected) ==
  LET q == eventq_cleanup(rd.eventq, Expired(rd.eventq))
      clean == [rd EXCEPT !.eventq = q]
      room == IF eventq_is_full(q) THEN MakeRoom(clean, connected) ELSE clean
  IN  [room EXCEPT !.eventq = eventq_append(@, u, v)]

(***************************************************************************)
(* The loop of update_report(): take events until one changes an item.     *)
(***************************************************************************)
Updating(rd) ==
  {i \in DOMAIN rd.eventq : Records(rd.items, rd.eventq[i].usage, rd.eventq[i].value)}

TakeEvents(rd) ==
  IF Updating(rd) = {} THEN [rd EXCEPT !.eventq = << >>]
  ELSE LET i == Min(Updating(rd))
       IN  [items |-> key_value_set(rd.items, rd.eventq[i].usage, rd.eventq[i].value),
            eventq |-> DropFirst(rd.eventq, i)]
=============================================================================
