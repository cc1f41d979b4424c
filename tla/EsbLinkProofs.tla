--------------------------- MODULE EsbLinkProofs ----------------------------
(***************************************************************************)
(* The link of EsbLink implements the channel of EsbChannel: every payload *)
(* is delivered at most once and in order, and leaves the queue as sent    *)
(* only when the receiver has it, for every FIFO size, PID range, payload  *)
(* content, retransmission count and number of payloads.                   *)
(***************************************************************************)
EXTENDS EsbLink, EsbPtxProofs, SequenceTheorems

(***************************************************************************)
(* The discipline the theorem asks of the two applications.                *)
(*   OnePipe        the PIDs of a pipe count the payloads of that pipe     *)
(*                  only, so the channel is one pipe;                      *)
(*   Protocol       the PID is on the air only with ESB_DPL;               *)
(*   TxMode         nrf_esb_write_payload() does not start transactions:   *)
(*                  in automatic mode it may start one on an empty queue   *)
(*                  (InFlightIsHead of EsbPtx);                            *)
(*   IdleOnly       nrf_esb_flush_tx() is called only when idle.           *)
(***************************************************************************)
OnePipe == \A p, q \in Pipes : p = q

LinkDiscipline ==
  /\ OnePipe
  /\ Protocol = "ESB_DPL"
  /\ TxMode # "AUTO"
  /\ "flush_tx" \in IdleOnly

-----------------------------------------------------------------------------
(* The inductive invariant.                                                *)

PidMod == PidMax + 1

Pair(q) == [data |-> q.data, pid |-> q.pid, noack |-> q.noack]

PipeInfos == [Pipes -> [crc : Prx!Crcs, pid : 0 .. PidMax, ack_payload : BOOLEAN]]

\* Nobody pops, so the TX ring always agrees with its count.
RingAgrees == RingOK(tx_fifo, TxFifoSize)

\* The TX FIFO holds the last count payloads written, in order.
FirstId == nextId - tx_fifo.count

Consecutive ==
  /\ nextId \in Nat \ {0}
  /\ tx_fifo.count < nextId
  /\ \A i \in 1 .. tx_fifo.count :
       /\ Contents(tx_fifo, TxFifoSize)[i].id = nextId - 1 - tx_fifo.count + i
       /\ Contents(tx_fifo, TxFifoSize)[i].pid = Contents(tx_fifo, TxFifoSize)[i].id % PidMod
  /\ \A p \in Pipes : pids[p] = (nextId - 1) % PidMod

\* What the thread has tested is still true; the handler calls nothing.
CallsOK ==
  /\ call["handler"] = NoCall
  /\ call["thread"].step \in {"none", "write_locked", "write_kick", "start"}
  /\ call["thread"].step = "write_locked" => tx_fifo.count < TxFifoSize /\ nextId <= MaxId
  /\ call["thread"].step = "start" => esb_state = "IDLE" /\ tx_fifo.count # 0

BeforeInit ==
  ~esb_initialized =>
    nextId = 1 /\ call["thread"] = NoCall /\ esb_state = "IDLE" /\ radio = "off"

InFlight ==
  /\ radio # "off" => esb_state # "IDLE"
  /\ InFlightIsHead

(***************************************************************************)
(* The record of the receiver is the last payload it delivered: its PID,   *)
(* and all of its content while that payload is still queued.              *)
(***************************************************************************)
RecordIsLast ==
  /\ delivered \in Seq(Nat)
  /\ \A p \in Pipes :
       IF delivered = << >>
       THEN r_pipe_info[p].crc.pid = PidMod
       ELSE LET last == delivered[Len(delivered)] IN
            /\ last < nextId /\ last <= FirstId
            /\ r_pipe_info[p].crc.pid = last % PidMod
            /\ r_pipe_info[p].pid = last % PidMod
            /\ tx_fifo.count # 0 /\ last = FirstId =>
                 r_pipe_info[p].crc = Pair(FrontOf(tx_fifo))

\* A transmitter that still hears the ACK hears the ACK of what it sent.
AckIsForHead ==
  listening =>
    /\ esb_state # "IDLE"
    /\ delivered # << >>
    /\ \A p \in Pipes : r_pipe_info[p].crc = Pair(tx_payload_buffer)

LinkInv ==
  /\ TypeOK /\ RingAgrees
  /\ r_pipe_info \in PipeInfos
  /\ Consecutive /\ CallsOK /\ BeforeInit /\ InFlight /\ RecordIsLast /\ AckIsForHead

-----------------------------------------------------------------------------
(* Arithmetic of the packet identifier, and runs of consecutive numbers.   *)

LEMMA DivMod ==
  ASSUME NEW m \in Nat \ {0}, NEW n \in Int
  PROVE  n = m * (n \div m) + (n % m) /\ n % m \in 0 .. m - 1 /\ n \div m \in Int
  OBVIOUS

LEMMA ModUnique ==
  ASSUME NEW m \in Nat \ {0}, NEW q \in Int, NEW r \in 0 .. m - 1
  PROVE  (m * q + r) % m = r
  OBVIOUS

LEMMA ModSucc ==
  ASSUME NEW m \in Nat \ {0}, NEW n \in Nat
  PROVE  ((n % m) + 1) % m = (n + 1) % m
  <1> DEFINE q == n \div m
             r == n % m
  <1>1. n = m * q + r /\ r \in 0 .. m - 1 /\ q \in Int
    BY DivMod
  <1> HIDE DEF q, r
  <1>2. CASE r + 1 < m
    <2>1. n + 1 = m * q + (r + 1) /\ r + 1 \in 0 .. m - 1
      BY <1>1, <1>2
    <2>2. (n + 1) % m = r + 1 /\ (r + 1) % m = r + 1
      BY <1>1, <2>1, ModUnique
    <2> QED
      BY <2>2 DEF r
  <1>3. CASE r + 1 = m
    <2>1. /\ n + 1 = m * (q + 1) + 0 /\ r + 1 = m * 1 + 0
          /\ 0 \in 0 .. m - 1 /\ q + 1 \in Int
      BY <1>1, <1>3
    <2>2. (n + 1) % m = 0 /\ (r + 1) % m = 0
      BY <1>1, <2>1, ModUnique
    <2> QED
      BY <2>2 DEF r
  <1> QED
    BY <1>1, <1>2, <1>3

LEMMA ModSame ==
  ASSUME NEW m \in Nat \ {0}, NEW a \in Nat, NEW b \in Nat, a % m = b % m
  PROVE  (a - b) % m = 0
  <1> DEFINE q == a \div m
             p == b \div m
             r == a % m
  <1>1. a = m * q + r /\ b = m * p + r /\ r \in 0 .. m - 1 /\ q \in Int /\ p \in Int
    BY DivMod
  <1> HIDE DEF q, p, r
  <1>2. a - b = m * (q - p) + 0 /\ 0 \in 0 .. m - 1 /\ q - p \in Int
    BY <1>1
  <1> QED
    BY <1>2, ModUnique

Block(b, n) == [i \in 1 .. n |-> b + i]

LEMMA BlockType ==
  ASSUME NEW b \in Int, NEW n \in Nat
  PROVE  Block(b, n) \in Seq(Int) /\ Len(Block(b, n)) = n /\ (Block(b, n) = << >> <=> n = 0)
  BY DEF Block

LEMMA BlockAppend ==
  ASSUME NEW b \in Int, NEW n \in Nat
  PROVE  Append(Block(b, n), b + n + 1) = Block(b, n + 1)
  BY DEF Block

LEMMA BlockTail ==
  ASSUME NEW b \in Int, NEW n \in Nat, n # 0
  PROVE  Head(Block(b, n)) = b + 1 /\ Tail(Block(b, n)) = Block(b + 1, n - 1)
  <1>1. Block(b, n) \in Seq(Int) /\ Len(Block(b, n)) = n /\ Block(b, n) # << >>
    BY BlockType
  <1>2. Head(Block(b, n)) = b + 1
    BY <1>1 DEF Block
  <1>3. /\ Tail(Block(b, n)) \in Seq(Int) /\ Len(Tail(Block(b, n))) = n - 1
        /\ \A i \in 1 .. n - 1 : Tail(Block(b, n))[i] = Block(b, n)[i + 1]
    BY <1>1, HeadTailProperties
  <1>4. \A i \in 1 .. n - 1 : Block(b, n)[i + 1] = (b + 1) + i
    BY DEF Block
  <1>5. /\ n - 1 \in Nat /\ b + 1 \in Int
        /\ \A i \in 1 .. n - 1 : Block(b + 1, n - 1)[i] = (b + 1) + i
    BY DEF Block
  <1>6. Block(b + 1, n - 1) \in Seq(Int) /\ Len(Block(b + 1, n - 1)) = n - 1
    BY <1>5, BlockType
  <1>7. Tail(Block(b, n)) = Block(b + 1, n - 1)
    <2> DEFINE s == Tail(Block(b, n))
               t == Block(b + 1, n - 1)
    <2>1. /\ s \in Seq(Int) /\ t \in Seq(Int) /\ Len(s) = Len(t)
          /\ \A i \in 1 .. Len(s) : s[i] = t[i]
      BY <1>3, <1>4, <1>5, <1>6
    <2> HIDE DEF s, t
    <2>2. s = t
      BY <2>1, SeqEqual
    <2> QED
      BY <2>2 DEF s, t
  <1> QED
    BY <1>2, <1>7

-----------------------------------------------------------------------------
(***************************************************************************)
(* The abstract queue of a state that satisfies Consecutive.               *)
(***************************************************************************)
Queue == [i \in 1 .. tx_fifo.count |-> Contents(tx_fifo, TxFifoSize)[i].id]

LEMMA QueueIsBlock ==
  ASSUME TypeOK, Consecutive
  PROVE  /\ Queue = Block(nextId - 1 - tx_fifo.count, tx_fifo.count)
         /\ tx_fifo.count \in Nat /\ nextId - 1 - tx_fifo.count \in Int
  <1>1. tx_fifo.count \in Nat
    BY CountModAssumption DEF TypeOK, Fifos
  <1> QED
    BY <1>1 DEF Queue, Block, Consecutive

\* The head of the queue is the slot under the front cursor.
LEMMA HeadOfQueue ==
  ASSUME TypeOK, Consecutive, tx_fifo.count # 0
  PROVE  /\ Queue # << >> /\ Head(Queue) = FirstId
         /\ FrontOf(tx_fifo).id = FirstId /\ FirstId \in Nat
         /\ FrontOf(tx_fifo).pid = FirstId % PidMod
  <1>1. tx_fifo.count \in Nat /\ nextId \in Nat /\ tx_fifo.count < nextId
    BY QueueIsBlock DEF Consecutive
  <1>2. Contents(tx_fifo, TxFifoSize)[1] = FrontOf(tx_fifo)
    BY ContentsFront, PtxAssumption DEF TypeOK
  <1>3. 1 \in 1 .. tx_fifo.count /\ nextId - 1 - tx_fifo.count + 1 = FirstId
    BY <1>1 DEF FirstId
  <1>4. FrontOf(tx_fifo).id = FirstId /\ FrontOf(tx_fifo).pid = FirstId % PidMod
    BY <1>2, <1>3 DEF Consecutive
  <1>5. Queue # << >> /\ Head(Queue) = FirstId
    BY <1>1, <1>3, QueueIsBlock, BlockType, BlockTail
  <1>6. FirstId \in Nat
    BY <1>1 DEF FirstId
  <1> QED
    BY <1>4, <1>5, <1>6

LEMMA Stutter ==
  ASSUME UNCHANGED <<tx_fifo, nextId, history>>
  PROVE  UNCHANGED Channel!chan
  BY DEF history, Channel!chan, Contents

\* Parts of the invariant that follow when nothing they mention changes.
LEMMA QueueSame ==
  ASSUME Consecutive, UNCHANGED <<tx_fifo, nextId, pids>>
  PROVE  Consecutive' /\ FirstId' = FirstId
  BY DEF Consecutive, FirstId, Contents

LEMMA RecordSame ==
  ASSUME RecordIsLast, UNCHANGED <<tx_fifo, nextId, delivered, r_pipe_info>>
  PROVE  RecordIsLast'
  BY DEF RecordIsLast, FirstId, FrontOf, Pair

\* A packet ends: on_radio_disabled_tx() for the transmitter.
LEMMA TxEnds ==
  ASSUME LinkInv, on_radio_disabled_tx
  PROVE  /\ TypeOK' /\ RingAgrees' /\ Consecutive' /\ CallsOK' /\ BeforeInit' /\ InFlight'
         /\ tx_fifo.count # 0 /\ FrontOf(tx_fifo) = tx_payload_buffer
         /\ esb_state' # "IDLE"
         /\ UNCHANGED <<tx_fifo, nextId, pids, tx_payload_buffer>>
  <1> USE DEF LinkInv
  <1>1. esb_state # "IDLE" /\ esb_initialized
    BY DEF on_radio_disabled_tx, InFlight, BeforeInit
  <1>2. tx_fifo.count # 0 /\ FrontOf(tx_fifo) = tx_payload_buffer
    BY <1>1, CountModAssumption DEF InFlight, InFlightIsHead, TypeOK, Fifos
  <1>3. TypeOK'
    BY RadioType DEF Radio
  <1>4. /\ UNCHANGED <<tx_fifo, nextId, pids, tx_payload_buffer, call, esb_initialized>>
        /\ esb_state' = "PTX_RX_ACK"
    BY DEF on_radio_disabled_tx, auxiliary
  <1>5. RingAgrees' /\ Consecutive'
    BY <1>4, QueueSame DEF RingAgrees
  <1>6. CallsOK' /\ BeforeInit'
    BY <1>1, <1>4 DEF CallsOK, BeforeInit
  <1>7. InFlight'
    BY <1>1, <1>4 DEF InFlight, InFlightIsHead, FrontOf
  <1> QED
    BY <1>2, <1>3, <1>4, <1>5, <1>6, <1>7

\* What on_radio_disabled_rx() leaves in the record of the pipe.
LEMMA RecordWritten ==
  ASSUME LinkDiscipline, LinkInv, Prx!on_radio_disabled_rx(OnAir)
  PROVE  /\ r_pipe_info' \in PipeInfos
         /\ \A p \in Pipes : /\ r_pipe_info'[p].crc = Pair(tx_payload_buffer)
                             /\ r_pipe_info'[p].pid = tx_payload_buffer.pid
         /\ \A p \in Pipes : Prx!IsRetransmit(OnAir) <=>
                             /\ r_pipe_info[p].crc = Pair(tx_payload_buffer)
                             /\ r_pipe_info[p].pid = tx_payload_buffer.pid
  <1> DEFINE b == tx_payload_buffer
             info == Prx!NewPipeInfo(OnAir)
  <1>1. b.pipe \in Pipes /\ b.data \in Data /\ b.noack \in BOOLEAN /\ b.pid \in 0 .. PidMax
    BY DEF LinkInv, TypeOK, Payload
  <1>2. Pair(b) \in Prx!Crcs
    <2>1. b.pid \in 0 .. PidMax + 1
      BY <1>1, PtxAssumption
    <2> QED
      BY <1>1, <2>1 DEF Pair, Prx!Crcs
  <1>3. Prx!Crc(OnAir) = Pair(b) /\ Prx!RxPid(OnAir) = b.pid /\ OnAir.pipe = b.pipe
    BY DEF Prx!Crc, Prx!RxPid, OnAir, Pair, LinkDiscipline
  <1>4. \A p \in Pipes : p = b.pipe
    BY <1>1 DEF LinkDiscipline, OnePipe
  <1>5. info.crc = Pair(b) /\ info.pid = b.pid
    BY <1>3 DEF Prx!NewPipeInfo
  <1>6. info \in [crc : Prx!Crcs, pid : 0 .. PidMax, ack_payload : BOOLEAN]
    <2>1. Prx!AckPayloadReady(OnAir) \in BOOLEAN
      BY DEF Prx!AckPayloadReady
    <2>2. r_pipe_info[OnAir.pipe].ack_payload \in BOOLEAN
      BY <1>1, <1>3 DEF LinkInv, PipeInfos
    <2> QED
      BY <1>1, <1>2, <1>3, <2>1, <2>2 DEF Prx!NewPipeInfo
  <1>7. r_pipe_info' = [r_pipe_info EXCEPT ![b.pipe] = info]
    BY <1>3 DEF Prx!on_radio_disabled_rx
  <1> HIDE DEF info
  <1>8. r_pipe_info' \in PipeInfos /\ \A p \in Pipes : r_pipe_info'[p] = info
    BY <1>1, <1>4, <1>6, <1>7 DEF LinkInv, PipeInfos
  <1>9. Prx!IsRetransmit(OnAir) <=>
          r_pipe_info[b.pipe].crc = Pair(b) /\ r_pipe_info[b.pipe].pid = b.pid
    BY <1>3 DEF Prx!IsRetransmit
  <1> QED
    BY <1>4, <1>5, <1>8, <1>9

LEMMA PacketArrivesStep ==
  ASSUME LinkDiscipline, LinkInv, PacketArrives
  PROVE  LinkInv' /\ [Channel!Next]_(Channel!chan)
  <1> DEFINE b == tx_payload_buffer
             pipe == b.pipe
             last == delivered[Len(delivered)]
  <1>1. /\ on_radio_disabled_tx /\ Prx!on_radio_disabled_rx(OnAir)
        /\ listening' = TRUE /\ confirmed' = confirmed
        /\ delivered' = IF Prx!IsRetransmit(OnAir) THEN delivered ELSE Append(delivered, b.id)
    BY DEF PacketArrives
  <1>2. /\ TypeOK' /\ RingAgrees' /\ Consecutive' /\ CallsOK' /\ BeforeInit' /\ InFlight'
        /\ tx_fifo.count # 0 /\ FrontOf(tx_fifo) = b
        /\ esb_state' # "IDLE"
        /\ UNCHANGED <<tx_fifo, nextId, pids, tx_payload_buffer>>
    BY <1>1, TxEnds
  <1>3. /\ r_pipe_info' \in PipeInfos
        /\ \A p \in Pipes : r_pipe_info'[p].crc = Pair(b) /\ r_pipe_info'[p].pid = b.pid
        /\ \A p \in Pipes : Prx!IsRetransmit(OnAir) <=>
                              r_pipe_info[p].crc = Pair(b) /\ r_pipe_info[p].pid = b.pid
    BY <1>1, RecordWritten
  <1>4. /\ Queue # << >> /\ Head(Queue) = FirstId /\ FirstId \in Nat
        /\ b.id = FirstId /\ b.pid = FirstId % PidMod
    BY <1>2, HeadOfQueue DEF LinkInv
  <1>5. b.pid \in 0 .. PidMax /\ pipe \in Pipes /\ Pair(b).pid = b.pid
    BY DEF LinkInv, TypeOK, Payload, Pair
  <1>6. delivered \in Seq(Nat) /\ FirstId' = FirstId /\ FrontOf(tx_fifo)' = b
    BY <1>2 DEF LinkInv, RecordIsLast, FirstId, FrontOf
  <1>7. CASE Prx!IsRetransmit(OnAir)
    <2>1. delivered' = delivered
      BY <1>1, <1>7
    <2>2. delivered # << >>
      BY <1>3, <1>5, <1>7, PtxAssumption DEF LinkInv, RecordIsLast, PidMod
    <2>3. \A p \in Pipes : /\ r_pipe_info'[p].crc = r_pipe_info[p].crc
                          /\ r_pipe_info'[p].pid = r_pipe_info[p].pid
      BY <1>3, <1>7
    <2>4. RecordIsLast'
      BY <1>2, <1>6, <2>1, <2>2, <2>3 DEF LinkInv, RecordIsLast
    <2>5. AckIsForHead'
      BY <1>2, <1>3, <2>1, <2>2 DEF AckIsForHead, Pair
    <2> QED
      BY <1>1, <1>2, <1>3, <2>1, <2>4, <2>5, Stutter DEF LinkInv, history
  <1>8. CASE ~Prx!IsRetransmit(OnAir)
    <2>1. delivered' = Append(delivered, FirstId)
      BY <1>1, <1>4, <1>8
    <2>2. /\ delivered' \in Seq(Nat) /\ delivered' # << >>
          /\ delivered'[Len(delivered')] = FirstId
      BY <1>4, <1>6, <2>1
    <2>3. FirstId < nextId
      BY <1>2, QueueIsBlock DEF LinkInv, Consecutive, FirstId
    <2>4. RecordIsLast'
      BY <1>2, <1>3, <1>4, <1>5, <1>6, <2>2, <2>3 DEF RecordIsLast, Pair
    <2>5. AckIsForHead'
      BY <1>2, <1>3, <2>2 DEF AckIsForHead, Pair
    <2>6. delivered # << >> => last < FirstId
      <3> SUFFICES ASSUME delivered # << >> PROVE last < FirstId
        OBVIOUS
      <3>1. last \in Nat /\ last <= FirstId
        <4>1. Len(delivered) \in 1 .. Len(delivered)
          BY <1>6
        <4> QED
          BY <1>5, <1>6, <4>1 DEF LinkInv, RecordIsLast
      <3>2. last # FirstId
        BY <1>2, <1>3, <1>4, <1>5, <1>8 DEF LinkInv, RecordIsLast
      <3> QED
        BY <1>4, <3>1, <3>2
    <2>7. Channel!Deliver
      <3>1. UNCHANGED <<Queue, nextId>>
        BY <1>2 DEF Queue, Contents
      <3> QED
        BY <1>1, <1>4, <2>1, <2>6, <3>1 DEF Channel!Deliver, Channel!Last, Queue
    <2> QED
      BY <1>1, <1>2, <1>3, <2>4, <2>5, <2>7 DEF LinkInv, Channel!Next
  <1> QED
    BY <1>7, <1>8

LEMMA PacketLostStep ==
  ASSUME LinkInv, PacketLost
  PROVE  LinkInv' /\ [Channel!Next]_(Channel!chan)
  <1>1. /\ on_radio_disabled_tx /\ listening' = FALSE
        /\ UNCHANGED <<r_pipe_info, delivered, history>>
    BY DEF PacketLost, prx, history
  <1>2. /\ TypeOK' /\ RingAgrees' /\ Consecutive' /\ CallsOK' /\ BeforeInit' /\ InFlight'
        /\ UNCHANGED <<tx_fifo, nextId>>
    BY <1>1, TxEnds
  <1>3. RecordIsLast' /\ AckIsForHead'
    BY <1>1, <1>2, RecordSame DEF LinkInv, AckIsForHead
  <1> QED
    BY <1>1, <1>2, <1>3, Stutter DEF LinkInv

(***************************************************************************)
(* The ACK arrives: the payload at the front of the queue is confirmed.    *)
(* It was delivered, or it has the PID and the content of the last         *)
(* delivered one.                                                          *)
(***************************************************************************)
LEMMA AckArrivesStep ==
  ASSUME LinkDiscipline, LinkInv, AckArrives
  PROVE  LinkInv' /\ [Channel!Next]_(Channel!chan)
  <1> USE DEF LinkInv
  <1> DEFINE b == tx_payload_buffer
             n == tx_fifo.count
             f == DropFront(tx_fifo, TxFifoSize)
             last == delivered[Len(delivered)]
  <1>1. /\ listening /\ AckReceived(EmptyAck) /\ listening' = FALSE
        /\ confirmed' = confirmed \cup {FrontOf(tx_fifo).id}
        /\ UNCHANGED <<delivered, r_pipe_info>>
    BY DEF AckArrives, Prx!on_radio_disabled_rx_ack
  <1>2. esb_state # "IDLE" /\ esb_initialized /\ call["thread"].step # "start"
    BY <1>1 DEF AckIsForHead, BeforeInit, CallsOK
  <1>3. n # 0 /\ FrontOf(tx_fifo) = b /\ n \in Nat
    BY <1>2, QueueIsBlock DEF InFlight, InFlightIsHead
  <1>4. /\ tx_fifo' = f
        /\ UNCHANGED <<nextId, pids, call, esb_initialized>>
        /\ \/ GoIdle
           \/ f.count # 0 /\ start_tx_transaction(f)
    BY <1>1, <1>3 DEF AckReceived, tx_fifo_remove_last
  <1>5. TypeOK'
    <2>1. EmptyAck \in Acks
      BY DEF Acks
    <2> QED
      BY <1>1, <2>1, RadioType DEF Radio, on_radio_disabled_tx_wait_for_ack
  <1>6. /\ f.count = n - 1
        /\ \A i \in 1 .. n - 1 : Contents(f, TxFifoSize)[i] = Contents(tx_fifo, TxFifoSize)[i + 1]
        /\ RingOK(f, TxFifoSize)
    BY <1>3, ContentsDrop, RingDrop, PtxAssumption DEF TypeOK, RingAgrees
  <1>7. Consecutive' /\ FirstId' = FirstId + 1
    <2>1. nextId \in Nat /\ n < nextId /\ n - 1 \in Nat
      BY <1>3 DEF Consecutive
    <2>2. \A i \in 1 .. n - 1 :
            /\ Contents(f, TxFifoSize)[i].id = nextId - 1 - (n - 1) + i
            /\ Contents(f, TxFifoSize)[i].pid = Contents(f, TxFifoSize)[i].id % PidMod
      <3> SUFFICES ASSUME NEW i \in 1 .. n - 1
                   PROVE  /\ Contents(f, TxFifoSize)[i].id = nextId - 1 - (n - 1) + i
                          /\ Contents(f, TxFifoSize)[i].pid =
                               Contents(f, TxFifoSize)[i].id % PidMod
        OBVIOUS
      <3>1. i + 1 \in 1 .. n /\ nextId - 1 - n + (i + 1) = nextId - 1 - (n - 1) + i
        BY <1>3, <2>1
      <3> QED
        BY <1>6, <3>1 DEF Consecutive
    <2>3. FirstId' = FirstId + 1 /\ tx_fifo'.count = n - 1 /\ n - 1 < nextId
      BY <1>3, <1>4, <1>6, <2>1 DEF FirstId
    <2> QED
      BY <1>4, <2>1, <2>2, <2>3 DEF Consecutive
  <1>8. CallsOK' /\ BeforeInit'
    BY <1>2, <1>3, <1>4, <1>6, PtxAssumption DEF CallsOK, BeforeInit
  <1>9. InFlight'
    <2>1. CASE GoIdle
      BY <2>1 DEF GoIdle, InFlight, InFlightIsHead
    <2>2. CASE f.count # 0 /\ start_tx_transaction(f)
      <3>1. tx_fifo'.count > 0 /\ tx_payload_buffer' = FrontOf(tx_fifo') /\ esb_state' # "IDLE"
        BY <1>3, <1>4, <1>6, <2>2 DEF start_tx_transaction
      <3> QED
        BY <3>1 DEF InFlight, InFlightIsHead, FrontOf
    <2> QED
      BY <1>4, <2>1, <2>2
  <1>10. /\ delivered \in Seq(Nat) /\ delivered # << >>
         /\ Len(delivered) \in 1 .. Len(delivered) /\ last \in Nat
    BY <1>1 DEF RecordIsLast, AckIsForHead
  <1>11. FirstId \in Nat /\ nextId \in Nat
    BY <1>3, HeadOfQueue DEF Consecutive
  <1>12. \A p \in Pipes : /\ last < nextId /\ last <= FirstId
                          /\ r_pipe_info[p].crc.pid = last % PidMod
                          /\ r_pipe_info[p].pid = last % PidMod
    BY <1>10 DEF RecordIsLast
  <1>13. RecordIsLast'
    BY <1>1, <1>4, <1>7, <1>10, <1>11, <1>12 DEF RecordIsLast
  <1>14. AckIsForHead'
    BY <1>1 DEF AckIsForHead
  <1>15. RingAgrees'
    BY <1>4, <1>6 DEF RingAgrees
  <1>16. Channel!Confirm
    <2>1. /\ Queue # << >> /\ Head(Queue) = FirstId
          /\ b.id = FirstId /\ b.pid = FirstId % PidMod
      BY <1>3, HeadOfQueue
    <2>2. Queue' = Tail(Queue)
      <3>1. /\ Queue = Block(nextId - 1 - n, n)
            /\ Queue' = Block(nextId' - 1 - tx_fifo'.count, tx_fifo'.count)
        BY <1>7, QueueIsBlock DEF Queue, Block, Consecutive
      <3>2. /\ nextId' - 1 - tx_fifo'.count = (nextId - 1 - n) + 1 /\ tx_fifo'.count = n - 1
            /\ nextId - 1 - n \in Int
        BY <1>3, <1>4, <1>6, <1>11
      <3> QED
        BY <1>3, <3>1, <3>2, BlockTail
    <2>3. FirstId % PidMod = last % PidMod
      <3>1. PICK p \in Pipes : TRUE
        BY PtxAssumption
      <3>2. r_pipe_info[p].crc = Pair(b)
        BY <1>1 DEF AckIsForHead
      <3> QED
        BY <1>12, <2>1, <3>2 DEF Pair
    <2>4. (FirstId - last) % PidMod = 0
      <3>1. PidMod \in Nat \ {0}
        BY PtxAssumption DEF PidMod
      <3> QED
        BY <1>10, <1>11, <2>3, <3>1, ModSame
    <2>5. FirstId \in Channel!Range(delivered) \/ Channel!Collides(FirstId)
      <3>1. FirstId = last => FirstId \in Channel!Range(delivered)
        BY <1>10 DEF Channel!Range
      <3>2. FirstId # last => Channel!Collides(FirstId)
        BY <1>10, <2>4 DEF Channel!Collides, Channel!Last, PidMod
      <3> QED
        BY <3>1, <3>2
    <2> QED
      BY <1>1, <1>3, <1>4, <2>1, <2>2, <2>5 DEF Channel!Confirm, Queue
  <1> QED
    BY <1>1, <1>5, <1>7, <1>8, <1>9, <1>13, <1>14, <1>15, <1>16 DEF Channel!Next

\* Steps of the receiver alone, or of the transmitter's software interrupt.
LEMMA ReceiverStep ==
  ASSUME LinkInv,
         \/ AckLost \/ Receiver \/ PtxLocal(Event)
         \/ UNCHANGED linkVars
  PROVE  LinkInv' /\ [Channel!Next]_(Channel!chan)
  <1> USE DEF LinkInv
  <1>1. TypeOK'
    <2>1. CASE UNCHANGED vars
      BY <2>1 DEF vars, driver, hardware, auxiliary, TypeOK
    <2>2. CASE Event
      BY <2>2, EventType
    <2> QED
      BY <2>1, <2>2 DEF AckLost, Receiver, PtxLocal, linkVars
  <1>2. UNCHANGED <<tx_fifo, nextId, pids, call, esb_state, radio, esb_initialized,
                    tx_payload_buffer>>
    BY DEF AckLost, Receiver, PtxLocal, linkVars, vars, driver, hardware, auxiliary, Event,
           ESB_EVT_IRQHandler, get_and_clear_irqs, event_handler, EvtReturn
  <1>3. UNCHANGED <<r_pipe_info, delivered, history>>
    BY DEF AckLost, Receiver, PtxLocal, linkVars, prx, history,
           Prx!on_radio_disabled_rx_ack, Prx!Event, Prx!nrf_esb_start_rx,
           Prx!ESB_EVT_IRQHandler, Prx!esb_event_handler, Prx!nrf_esb_read_rx_payload,
           Prx!EvtReturn
  <1>4. listening' = listening \/ listening' = FALSE
    BY DEF AckLost, Receiver, PtxLocal, linkVars
  <1>5. RingAgrees' /\ Consecutive' /\ RecordIsLast'
    BY <1>2, <1>3, QueueSame, RecordSame DEF RingAgrees
  <1>6. CallsOK' /\ BeforeInit'
    BY <1>2 DEF CallsOK, BeforeInit
  <1>7. InFlight'
    BY <1>2 DEF InFlight, InFlightIsHead, FrontOf
  <1>8. AckIsForHead'
    BY <1>2, <1>3, <1>4 DEF AckIsForHead, Pair
  <1> QED
    BY <1>1, <1>2, <1>3, <1>5, <1>6, <1>7, <1>8, Stutter

\* The window ends without an ACK, or the timer starts the packet again.
LEMMA RetryStep ==
  ASSUME LinkInv, WindowEnds \/ PtxLocal(RetransmitTimer)
  PROVE  LinkInv' /\ [Channel!Next]_(Channel!chan)
  <1> USE DEF LinkInv
  <1>1. TypeOK'
    <2>1. NoAck \in Acks
      BY DEF Acks
    <2> QED
      BY <2>1, RadioType DEF WindowEnds, PtxLocal, Radio, on_radio_disabled_tx_wait_for_ack
  <1>2. UNCHANGED <<tx_fifo, nextId, pids, call, esb_initialized, tx_payload_buffer>>
    BY DEF WindowEnds, AckMissed, PtxLocal, RetransmitTimer, driver, auxiliary
  <1>3. UNCHANGED <<r_pipe_info, delivered, history>>
    BY DEF WindowEnds, PtxLocal, prx, history
  <1>4. esb_state # "IDLE" /\ esb_initialized
    BY DEF WindowEnds, AckMissed, PtxLocal, RetransmitTimer, InFlight, BeforeInit
  <1>5. /\ radio' # "off" => esb_state' # "IDLE"
        /\ listening' = FALSE \/ (listening' = listening /\ esb_state' = esb_state)
    BY <1>4 DEF WindowEnds, AckMissed, GiveUp, Rearm, RearmAs, PtxLocal, RetransmitTimer,
                driver
  <1>6. RingAgrees' /\ Consecutive' /\ RecordIsLast'
    BY <1>2, <1>3, QueueSame, RecordSame DEF RingAgrees
  <1>7. CallsOK' /\ BeforeInit'
    BY <1>2, <1>4 DEF CallsOK, BeforeInit
  <1>8. InFlight'
    BY <1>2, <1>4, <1>5 DEF InFlight, InFlightIsHead, FrontOf
  <1>9. AckIsForHead'
    BY <1>2, <1>3, <1>5 DEF AckIsForHead, Pair
  <1> QED
    BY <1>1, <1>2, <1>3, <1>6, <1>7, <1>8, <1>9, Stutter

-----------------------------------------------------------------------------
(* The application of the transmitter.                                     *)

LEMMA ThreadOnly ==
  ASSUME LinkInv, PtxLocal(Application)
  PROVE  /\ TypeOK'
         /\ UNCHANGED <<r_pipe_info, listening, delivered, confirmed>>
         /\ call'["handler"] = NoCall
  <1>1. /\ Application
        /\ UNCHANGED <<r_pipe_info, listening, delivered, confirmed>>
    BY DEF PtxLocal, prx, history
  <1>2. Api("thread")
    BY <1>1 DEF Application, Continue, Api
  <1>3. "thread" \in Contexts
    BY DEF Contexts
  <1>4. TypeOK'
    BY <1>2, <1>3, ApiType DEF LinkInv
  <1>5. call'["handler"] = call["handler"]
    BY <1>1 DEF Application, Continue, nrf_esb_init, nrf_esb_write_payload, nrf_esb_start_tx,
                nrf_esb_flush_tx, WriteLocked, WriteKick, StartTransaction, PopLocked,
                ReadLocked, Goto, Return, LinkInv, TypeOK, Contexts
  <1> QED
    BY <1>1, <1>4, <1>5 DEF LinkInv, CallsOK

(***************************************************************************)
(* A call that leaves the queue, the radio and the record alone.           *)
(***************************************************************************)
LEMMA QuietCallStep ==
  ASSUME LinkDiscipline, LinkInv, PtxLocal(Application),
         \/ nrf_esb_write_payload("thread") \/ nrf_esb_start_tx("thread")
         \/ WriteKick("thread")
  PROVE  LinkInv' /\ [Channel!Next]_(Channel!chan)
  <1> USE DEF LinkInv
  <1>1. /\ TypeOK'
        /\ UNCHANGED <<r_pipe_info, listening, delivered, confirmed>>
        /\ call'["handler"] = NoCall
    BY ThreadOnly
  <1>2. UNCHANGED <<tx_fifo, nextId, pids, esb_state, radio, esb_initialized,
                    tx_payload_buffer>>
    BY DEF nrf_esb_write_payload, nrf_esb_start_tx, WriteKick, driver, hardware, auxiliary
  <1>3. CallsOK'
    <2>1. CASE nrf_esb_write_payload("thread")
      <3>1. call'["thread"].step = "write_locked" /\ tx_fifo.count < TxFifoSize /\ nextId <= MaxId
        BY <2>1 DEF nrf_esb_write_payload, TypeOK, Contexts
      <3> QED
        BY <1>1, <1>2, <3>1 DEF CallsOK
    <2>2. CASE nrf_esb_start_tx("thread")
      <3>1. call'["thread"].step = "start" /\ tx_fifo.count # 0 /\ esb_state = "IDLE"
        BY <2>2 DEF nrf_esb_start_tx, Goto, TypeOK, Contexts
      <3> QED
        BY <1>1, <1>2, <3>1 DEF CallsOK
    <2>3. CASE WriteKick("thread")
      <3>1. call'["thread"].step = "none"
        BY <2>3 DEF WriteKick, Return, NoCall, TypeOK, Contexts, LinkDiscipline
      <3> QED
        BY <1>1, <3>1 DEF CallsOK
    <2> QED
      BY <2>1, <2>2, <2>3
  <1>4. BeforeInit'
    <2>1. CASE nrf_esb_write_payload("thread")
      BY <1>2, <2>1 DEF nrf_esb_write_payload, BeforeInit
    <2>2. CASE nrf_esb_start_tx("thread")
      <3>1. nextId # 1
        BY <2>2, QueueIsBlock DEF nrf_esb_start_tx, Consecutive
      <3> QED
        BY <1>2, <3>1 DEF BeforeInit
    <2>3. CASE WriteKick("thread")
      BY <1>2, <2>3 DEF WriteKick, AtStep, NoCall, BeforeInit
    <2> QED
      BY <2>1, <2>2, <2>3
  <1>5. RingAgrees' /\ Consecutive' /\ RecordIsLast'
    BY <1>1, <1>2, QueueSame, RecordSame DEF RingAgrees
  <1>6. InFlight' /\ AckIsForHead'
    BY <1>1, <1>2 DEF InFlight, InFlightIsHead, FrontOf, AckIsForHead, Pair
  <1> QED
    BY <1>1, <1>2, <1>3, <1>4, <1>5, <1>6, Stutter DEF history

\* start_tx_transaction(): the payload at the front goes on the air.
LEMMA StartStep ==
  ASSUME LinkInv, PtxLocal(Application), StartTransaction("thread")
  PROVE  LinkInv' /\ [Channel!Next]_(Channel!chan)
  <1> USE DEF LinkInv
  <1>1. /\ TypeOK'
        /\ UNCHANGED <<r_pipe_info, listening, delivered, confirmed>>
        /\ call'["handler"] = NoCall
    BY ThreadOnly
  <1>2. esb_state = "IDLE" /\ tx_fifo.count # 0 /\ call["thread"].step = "start"
    BY DEF StartTransaction, AtStep, CallsOK
  <1>3. /\ UNCHANGED <<tx_fifo, nextId, pids, esb_initialized>>
        /\ esb_state' # "IDLE" /\ tx_payload_buffer' = FrontOf(tx_fifo)
    BY DEF StartTransaction, start_tx_transaction
  <1>4. call'["thread"].step = "none"
    BY DEF StartTransaction, Return, NoCall, TypeOK, Contexts
  <1>5. esb_initialized
    BY <1>2 DEF BeforeInit, NoCall
  <1>6. CallsOK' /\ BeforeInit'
    BY <1>1, <1>3, <1>4, <1>5 DEF CallsOK, BeforeInit
  <1>7. RingAgrees' /\ Consecutive' /\ RecordIsLast'
    BY <1>1, <1>3, QueueSame, RecordSame DEF RingAgrees
  <1>8. InFlight'
    <2>1. tx_fifo.count > 0
      BY <1>2, QueueIsBlock
    <2> QED
      BY <1>3, <2>1 DEF InFlight, InFlightIsHead, FrontOf
  <1>9. AckIsForHead'
    BY <1>1, <1>2 DEF AckIsForHead
  <1> QED
    BY <1>1, <1>3, <1>6, <1>7, <1>8, <1>9, Stutter DEF history

\* nrf_esb_flush_tx() while idle, and the one nrf_esb_init().
LEMMA ResetStep ==
  ASSUME LinkDiscipline, LinkInv, PtxLocal(Application),
         \/ nrf_esb_flush_tx("thread")
         \/ ~esb_initialized /\ nrf_esb_init("thread")
  PROVE  LinkInv' /\ [Channel!Next]_(Channel!chan)
  <1> USE DEF LinkInv
  <1>1. /\ TypeOK'
        /\ UNCHANGED <<r_pipe_info, listening, delivered, confirmed>>
        /\ call'["handler"] = NoCall
    BY ThreadOnly
  <1>2. /\ tx_fifo' = Reset(tx_fifo)
        /\ UNCHANGED <<nextId, call, radio>> /\ esb_initialized'
        /\ call["thread"] = NoCall
    BY DEF nrf_esb_flush_tx, nrf_esb_init, MayCall, hardware, auxiliary
  <1>3. esb_state = "IDLE" /\ esb_state' = "IDLE" /\ radio = "off"
    BY DEF nrf_esb_flush_tx, nrf_esb_init, MayCall, LinkDiscipline, BeforeInit, InFlight
  <1>4. tx_fifo'.count = 0 /\ RingOK(tx_fifo', TxFifoSize)
    BY <1>2, RingReset, PtxAssumption DEF Reset, TypeOK, Fifos
  <1>5. nextId \in Nat \ {0} /\ tx_fifo.count \in Nat
    BY QueueIsBlock DEF Consecutive
  <1>6. \A p \in Pipes : pids'[p] = (nextId' - 1) % PidMod
    <2>1. CASE nrf_esb_flush_tx("thread")
      BY <1>2, <2>1 DEF nrf_esb_flush_tx, Consecutive
    <2>2. CASE ~esb_initialized /\ nrf_esb_init("thread")
      <3>1. nextId = 1 /\ \A p \in Pipes : pids'[p] = 0
        BY <2>2 DEF nrf_esb_init, BeforeInit
      <3>2. 0 % PidMod = 0
        BY PtxAssumption DEF PidMod
      <3>3. nextId' - 1 = 0
        BY <1>2, <3>1
      <3> QED
        BY <3>1, <3>2, <3>3
    <2> QED
      BY <2>1, <2>2
  <1>7. Consecutive' /\ FirstId' = nextId
    BY <1>2, <1>4, <1>5, <1>6 DEF Consecutive, FirstId
  <1>8. CallsOK' /\ BeforeInit'
    BY <1>1, <1>2 DEF CallsOK, BeforeInit, NoCall
  <1>9. InFlight' /\ AckIsForHead' /\ RingAgrees'
    BY <1>1, <1>2, <1>3, <1>4 DEF InFlight, InFlightIsHead, AckIsForHead, RingAgrees
  <1>10. RecordIsLast'
    <2>1. delivered # << >> => delivered[Len(delivered)] \in Nat
      BY DEF RecordIsLast
    <2> QED
      BY <1>1, <1>2, <1>4, <1>5, <1>7, <2>1 DEF RecordIsLast
  <1>11. [Channel!Next]_(Channel!chan)
    <2>1. Queue' = << >> /\ UNCHANGED <<nextId, delivered, confirmed>>
      BY <1>1, <1>2, <1>4 DEF Queue
    <2>2. CASE Queue = << >>
      BY <2>1, <2>2 DEF Channel!chan, Queue
    <2>3. CASE Queue # << >>
      <3>1. Channel!Flush
        BY <2>1, <2>3 DEF Channel!Flush, Queue
      <3> QED
        BY <3>1 DEF Channel!Next
    <2> QED
      BY <2>2, <2>3
  <1> QED
    BY <1>1, <1>7, <1>8, <1>9, <1>10, <1>11

\* The locked part of nrf_esb_write_payload(): the next payload is queued.
LEMMA WriteStep ==
  ASSUME LinkDiscipline, LinkInv, PtxLocal(Application), WriteLocked("thread")
  PROVE  LinkInv' /\ [Channel!Next]_(Channel!chan)
  <1> USE DEF LinkInv
  <1> DEFINE w == call["thread"]
             n == tx_fifo.count
             pid == (pids[w.pipe] + 1) % (PidMax + 1)
             q == [id |-> nextId, data |-> w.data, pipe |-> w.pipe,
                   noack |-> w.noack, pid |-> pid]
             f == Push(tx_fifo, TxFifoSize, q)
             last == delivered[Len(delivered)]
  <1>1. /\ TypeOK'
        /\ UNCHANGED <<r_pipe_info, listening, delivered, confirmed>>
        /\ call'["handler"] = NoCall
    BY ThreadOnly
  <1>2. /\ w.step = "write_locked" /\ n < TxFifoSize /\ nextId <= MaxId /\ esb_initialized
    BY DEF WriteLocked, AtStep, CallsOK, BeforeInit, NoCall
  <1>3. w.data \in Data /\ w.pipe \in Pipes /\ w.noack \in BOOLEAN
    BY <1>2 DEF TypeOK, Calls, Contexts
  <1>4. /\ tx_fifo' = f /\ nextId' = nextId + 1
        /\ pids' = [pids EXCEPT ![w.pipe] = pid]
        /\ UNCHANGED <<esb_state, radio, esb_initialized, tx_payload_buffer>>
        /\ call'["thread"].step = "write_kick"
    BY DEF WriteLocked, hardware, Goto, TypeOK, Contexts
  <1>5. n \in Nat /\ nextId \in Nat \ {0} /\ n < nextId
    BY QueueIsBlock DEF Consecutive
  <1>6. pid = nextId % PidMod /\ pid \in 0 .. PidMax
    <2>1. PidMod \in Nat \ {0} /\ nextId - 1 \in Nat /\ (nextId - 1) + 1 = nextId
      BY <1>5, PtxAssumption DEF PidMod
    <2>2. pid = (((nextId - 1) % PidMod) + 1) % PidMod
      BY <1>3 DEF Consecutive, PidMod
    <2>3. (((nextId - 1) % PidMod) + 1) % PidMod = ((nextId - 1) + 1) % PidMod
      BY <2>1, ModSucc
    <2>4. nextId % PidMod \in 0 .. PidMod - 1
      BY <1>5, <2>1
    <2> QED
      BY <2>1, <2>2, <2>3, <2>4, PtxAssumption DEF PidMod
  <1>7. q \in Payload
    BY <1>3, <1>5, <1>6 DEF Payload
  <1> HIDE DEF pid
  <1>8. /\ f.count = n + 1
        /\ \A i \in 1 .. n : Contents(f, TxFifoSize)[i] = Contents(tx_fifo, TxFifoSize)[i]
        /\ Contents(f, TxFifoSize)[n + 1] = q
        /\ RingOK(f, TxFifoSize)
    <2> HIDE DEF q
    <2> QED
      BY <1>2, <1>7, ContentsPush, RingPush, PtxAssumption DEF TypeOK, RingAgrees
  <1>9. \A i \in 1 .. n + 1 :
          /\ Contents(f, TxFifoSize)[i].id = (nextId + 1) - 1 - (n + 1) + i
          /\ Contents(f, TxFifoSize)[i].pid = Contents(f, TxFifoSize)[i].id % PidMod
    <2> SUFFICES ASSUME NEW i \in 1 .. n + 1
                 PROVE  /\ Contents(f, TxFifoSize)[i].id = (nextId + 1) - 1 - (n + 1) + i
                        /\ Contents(f, TxFifoSize)[i].pid =
                             Contents(f, TxFifoSize)[i].id % PidMod
      OBVIOUS
    <2>1. CASE i \in 1 .. n
      <3>1. (nextId + 1) - 1 - (n + 1) + i = nextId - 1 - n + i
        BY <1>5, <2>1
      <3> QED
        BY <1>8, <2>1, <3>1 DEF Consecutive
    <2>2. CASE i = n + 1
      <3>1. (nextId + 1) - 1 - (n + 1) + i = nextId
        BY <1>5, <2>2
      <3>2. Contents(f, TxFifoSize)[i] = q /\ q.id = nextId /\ q.pid = pid
        BY <1>8, <2>2
      <3> QED
        BY <1>6, <3>1, <3>2
    <2> QED
      BY <1>5, <2>1, <2>2
  <1>10. \A p \in Pipes : pids'[p] = nextId % PidMod
    BY <1>3, <1>4, <1>6, SMTT(30) DEF TypeOK, LinkDiscipline, OnePipe
  <1>11. Consecutive'
    <2>1. nextId' - 1 = nextId /\ nextId' \in Nat \ {0} /\ n + 1 < nextId'
      BY <1>4, <1>5
    <2> QED
      BY <1>4, <1>8, <1>9, <1>10, <2>1 DEF Consecutive
  <1>12. FirstId' = FirstId
    BY <1>4, <1>5, <1>8 DEF FirstId
  <1>13. n # 0 => FrontOf(tx_fifo)' = FrontOf(tx_fifo)
    <2> SUFFICES ASSUME n # 0 PROVE FrontOf(f) = FrontOf(tx_fifo)
      BY <1>4 DEF FrontOf
    <2>1. f \in Fifos(TxFifoSize, Payload) /\ f.count # 0 /\ 1 \in 1 .. n
      BY <1>1, <1>4, <1>5, <1>8 DEF TypeOK
    <2> HIDE DEF f
    <2>2. /\ Contents(f, TxFifoSize)[1] = FrontOf(f)
          /\ Contents(tx_fifo, TxFifoSize)[1] = FrontOf(tx_fifo)
      BY <2>1, ContentsFront, PtxAssumption DEF TypeOK
    <2> QED
      BY <1>8, <2>1, <2>2 DEF f
  <1>14. RecordIsLast'
    <2>1. delivered # << >> => last \in Nat
      BY DEF RecordIsLast
    <2>2. n = 0 => FirstId = nextId
      BY <1>5 DEF FirstId
    <2> QED
      BY <1>1, <1>4, <1>5, <1>8, <1>12, <1>13, <2>1, <2>2 DEF RecordIsLast
  <1>15. InFlight'
    <2>1. esb_state # "IDLE" => n # 0
      BY <1>5 DEF InFlight, InFlightIsHead
    <2> QED
      BY <1>4, <1>5, <1>8, <1>13, <2>1 DEF InFlight, InFlightIsHead
  <1>16. CallsOK' /\ BeforeInit' /\ AckIsForHead' /\ RingAgrees'
    BY <1>1, <1>2, <1>4, <1>8 DEF CallsOK, BeforeInit, AckIsForHead, RingAgrees, Pair
  <1>17. Channel!Write
    <2>1. Queue' = Append(Queue, nextId)
      <3>1. Queue' = Block(nextId' - 1 - tx_fifo'.count, tx_fifo'.count)
        BY <1>11 DEF Queue, Block, Consecutive
      <3>2. /\ nextId' - 1 - tx_fifo'.count = nextId - 1 - n /\ tx_fifo'.count = n + 1
            /\ nextId - 1 - n \in Int /\ (nextId - 1 - n) + n + 1 = nextId
        BY <1>4, <1>5, <1>8
      <3>3. Queue = Block(nextId - 1 - n, n)
        BY QueueIsBlock
      <3> QED
        BY <1>5, <3>1, <3>2, <3>3, BlockAppend
    <2>2. nextId - 1 < MaxId /\ nextId' - 1 = (nextId - 1) + 1 /\ nextId' - 1 = nextId
      BY <1>2, <1>4, <1>5, PtxAssumption
    <2> QED
      BY <1>1, <2>1, <2>2 DEF Channel!Write, Queue
  <1> QED
    BY <1>1, <1>11, <1>14, <1>15, <1>16, <1>17 DEF Channel!Next

LEMMA ApplicationStep ==
  ASSUME LinkDiscipline, LinkInv, PtxLocal(Application)
  PROVE  LinkInv' /\ [Channel!Next]_(Channel!chan)
  <1>1. Application
    BY DEF PtxLocal
  <1>2. ~PopLocked("thread") /\ ~ReadLocked("thread")
    BY DEF LinkInv, CallsOK, PopLocked, ReadLocked, AtStep
  <1> QED
    BY <1>1, <1>2, QuietCallStep, StartStep, ResetStep, WriteStep DEF Application, Continue

-----------------------------------------------------------------------------
LEMMA LinkInitially == LinkInit => LinkInv /\ Channel!Init
  <1> SUFFICES ASSUME LinkInit PROVE LinkInv /\ Channel!Init
    OBVIOUS
  <1> USE DEF LinkInit
  <1>1. TypeOK
    BY InitType
  <1>2. /\ tx_fifo = NewFifo(TxFifoSize, ZeroPayload) /\ tx_fifo.count = 0
        /\ RingOK(tx_fifo, TxFifoSize)
    <2>1. RingOK(NewFifo(TxFifoSize, ZeroPayload), TxFifoSize)
      BY NewFifoType, ZeroPayloadType, PtxAssumption
    <2> QED
      BY <2>1 DEF Init, NewFifo
  <1>3. r_pipe_info \in PipeInfos /\ \A p \in Pipes : r_pipe_info[p].crc.pid = PidMod
    <2>1. PidMax + 1 \in 0 .. PidMax + 1 /\ 0 \in 0 .. PidMax
      BY PtxAssumption
    <2>2. Prx!NoData \in Data
      BY PtxAssumption DEF Prx!NoData
    <2>3. Prx!NoCrc \in Prx!Crcs /\ Prx!NoCrc.pid = PidMod
      BY <2>1, <2>2 DEF Prx!NoCrc, Prx!Crcs, PidMod
    <2> QED
      BY <2>1, <2>3 DEF Prx!Init, Prx!NoInfos, Prx!NoPipeInfo, PipeInfos
  <1>4. Consecutive
    <2>1. 0 % PidMod = 0 /\ nextId = 1
      BY PtxAssumption DEF PidMod, Init
    <2> QED
      BY <1>2, <2>1 DEF Init, Consecutive
  <1>5. CallsOK /\ BeforeInit /\ InFlight
    BY DEF Init, CallsOK, BeforeInit, InFlight, InFlightIsHead, NoCall, Contexts
  <1>6. RecordIsLast /\ AckIsForHead
    BY <1>3 DEF RecordIsLast, AckIsForHead
  <1>7. Channel!Init
    <2>1. [i \in 1 .. tx_fifo.count |-> Contents(tx_fifo, TxFifoSize)[i].id] = << >>
      BY <1>2
    <2> QED
      BY <2>1 DEF Channel!Init, Init
  <1> QED
    BY <1>1, <1>2, <1>3, <1>4, <1>5, <1>6, <1>7 DEF LinkInv, RingAgrees

LEMMA LinkStep ==
  ASSUME LinkDiscipline
  PROVE  LinkInv /\ [LinkNext]_linkVars => LinkInv' /\ [Channel!Next]_(Channel!chan)
  <1> SUFFICES ASSUME LinkInv, [LinkNext]_linkVars
               PROVE  LinkInv' /\ [Channel!Next]_(Channel!chan)
    OBVIOUS
  <1>1. CASE PacketArrives
    BY <1>1, LinkDiscipline, PacketArrivesStep
  <1>2. CASE PacketLost
    BY <1>2, PacketLostStep
  <1>3. CASE AckArrives
    BY <1>3, LinkDiscipline, AckArrivesStep
  <1>4. CASE AckLost \/ Receiver \/ PtxLocal(Event) \/ UNCHANGED linkVars
    BY <1>4, ReceiverStep
  <1>5. CASE WindowEnds \/ PtxLocal(RetransmitTimer)
    BY <1>5, RetryStep
  <1>6. CASE PtxLocal(Application)
    BY <1>6, LinkDiscipline, ApplicationStep
  <1> QED
    BY <1>1, <1>2, <1>3, <1>4, <1>5, <1>6 DEF LinkNext

(***************************************************************************)
(* The link implements the channel: whatever packets and acknowledgments   *)
(* the air loses, retransmission and duplicate detection deliver every     *)
(* payload at most once and in order, and TX_SUCCESS takes off the queue   *)
(* only a payload the receiver has, or one it could not tell from the last *)
(* it had.                                                                 *)
(***************************************************************************)
THEOREM LinkImplementsChannel ==
  ASSUME LinkDiscipline
  PROVE  LinkSpec => ImplementsChannel
  <1>1. LinkInit => LinkInv /\ Channel!Init
    BY LinkInitially
  <1>2. LinkInv /\ [LinkNext]_linkVars => LinkInv' /\ [Channel!Next]_(Channel!chan)
    BY LinkDiscipline, LinkStep
  <1> QED
    BY <1>1, <1>2, PTL DEF LinkSpec, ImplementsChannel, Channel!Spec
=============================================================================
