------------------------------ MODULE EsbFifo -------------------------------
(***************************************************************************)
(* The payload queues of subsys/enhanced_shockburst/nrf_esb.c.             *)
(*                                                                         *)
(* struct payload_tx_fifo and struct payload_rx_fifo are rings of payload  *)
(* slots with two cursors and a separate element counter.  Nothing ever    *)
(* erases a slot: dropping an element only moves a cursor, so the payload  *)
(* that was in the slot can still be read through a stale cursor.          *)
(*                                                                         *)
(* The counter is an unsigned C integer: CountMod is the number of values  *)
(* it has (2^32 in the build), so that a decrement of 0 wraps.             *)
(***************************************************************************)
EXTENDS Integers, Sequences

CONSTANT CountMod

ASSUME CountModAssumption == CountMod \in Nat \ {0, 1}

\* Mutant of Advance: the wrap-around test is off by one.
AdvanceLate(i, size) == IF i + 1 > size THEN 0 ELSE i + 1

\* ++cursor with the wrap-around test every operation repeats.
Advance(i, size) == IF i + 1 >= size THEN 0 ELSE i + 1

Incr(n) == (n + 1) % CountMod

Decr(n) == (n - 1) % CountMod

Fifos(size, Payload) ==
  [payload : [0 .. size - 1 -> Payload],
   back    : 0 .. size - 1,
   front   : 0 .. size - 1,
   count   : 0 .. CountMod - 1]

\* The static slots start zeroed (p0) and reset_fifos() zeroes the cursors.
NewFifo(size, p0) ==
  [payload |-> [i \in 0 .. size - 1 |-> p0], back |-> 0, front |-> 0, count |-> 0]

\* reset_fifos(), nrf_esb_flush_tx(), nrf_esb_flush_rx(): the slots survive.
Reset(f) == [f EXCEPT !.back = 0, !.front = 0, !.count = 0]

Push(f, size, p) ==
  [f EXCEPT !.payload[f.back] = p,
            !.back  = Advance(f.back, size),
            !.count = Incr(f.count)]

DropFront(f, size) ==
  [f EXCEPT !.front = Advance(f.front, size), !.count = Decr(f.count)]

FrontOf(f) == f.payload[f.front]

-----------------------------------------------------------------------------
(***************************************************************************)
(* The ring agrees with its counter: the queue is the count slots from     *)
(* front on, and back is the slot after them.                              *)
(***************************************************************************)
RingOK(f, size) ==
  /\ f.count <= size
  /\ f.back = (f.front + f.count) % size

\* The queued payloads, first out first.
Contents(f, size) ==
  [i \in 1 .. f.count |-> f.payload[(f.front + i - 1) % size]]
=============================================================================
