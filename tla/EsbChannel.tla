----------------------------- MODULE EsbChannel -----------------------------
(***************************************************************************)
(* What Enhanced ShockBurst promises an application that sends packets     *)
(* with acknowledgment on one pipe: a FIFO channel that delivers every     *)
(* payload once and in order, and takes a payload off the queue only when  *)
(* the receiver has it.                                                    *)
(*                                                                         *)
(* The promise has one hole, which doc/nrf/ug_esb.rst describes: a packet  *)
(* is recognised by its PID and its content alone.  A payload with the     *)
(* content of the last delivered one is taken for its retransmission when  *)
(* the payloads between them were given up and the PID has wrapped around. *)
(***************************************************************************)
EXTENDS Integers, Sequences, SequencesExt

CONSTANTS PidMax, MaxId

VARIABLES queue, delivered, confirmed, written

chan == <<queue, delivered, confirmed, written>>

Init == queue = << >> /\ delivered = << >> /\ confirmed = {} /\ written = 0

\* Payload i has the PID of the last delivered one.
Collides(i) ==
  /\ delivered # << >>
  /\ i # Last(delivered)
  /\ (i - Last(delivered)) % (PidMax + 1) = 0

Write ==
  /\ written < MaxId
  /\ written' = written + 1
  /\ queue' = Append(queue, written')
  /\ UNCHANGED <<delivered, confirmed>>

Deliver ==
  /\ queue # << >>
  /\ delivered # << >> => Last(delivered) < Head(queue)
  /\ delivered' = Append(delivered, Head(queue))
  /\ UNCHANGED <<queue, confirmed, written>>

Confirm ==
  /\ queue # << >>
  /\ Head(queue) \in Range(delivered) \/ Collides(Head(queue))
  /\ queue' = Tail(queue)
  /\ confirmed' = confirmed \cup {Head(queue)}
  /\ UNCHANGED <<delivered, written>>

Flush ==
  /\ queue # << >>
  /\ queue' = << >>
  /\ UNCHANGED <<delivered, confirmed, written>>

Next == Write \/ Deliver \/ Confirm \/ Flush

Spec == Init /\ [][Next]_chan
=============================================================================
