---------------------------- MODULE EsbPtxProofs ----------------------------
(***************************************************************************)
(* Proofs about the PTX driver of EsbPtx, for every FIFO size, counter     *)
(* width, set of pipes and application.                                    *)
(***************************************************************************)
EXTENDS EsbPtx, EsbFifoProofs, TLAPS

-----------------------------------------------------------------------------
(* Type correctness.                                                       *)

LEMMA RemoveType ==
  ASSUME NEW f \in Fifos(TxFifoSize, Payload)
  PROVE  tx_fifo_remove_last(f) \in Fifos(TxFifoSize, Payload)
  BY DropFrontType, PtxAssumption DEF tx_fifo_remove_last

LEMMA ZeroPayloadType == ZeroPayload \in Payload
  <1>1. NoPipe \in Pipes /\ NoData \in Data
    BY PtxAssumption DEF NoPipe, NoData
  <1> QED
    BY <1>1, PtxAssumption DEF ZeroPayload, Payload

\* What start_tx_transaction() assigns.
LEMMA StartType ==
  ASSUME TypeOK, NEW f \in Fifos(TxFifoSize, Payload), start_tx_transaction(f)
  PROVE  /\ last_tx_attempts' \in 0 .. CountMod - 1
         /\ tx_payload_buffer' \in Payload
         /\ retransmits_remaining' \in 0 .. CountMod - 1
         /\ on_radio_disabled' \in {"tx_noack", "tx"}
         /\ esb_state' \in States
         /\ shorts_rxen' \in BOOLEAN
         /\ radio' = "tx"
         /\ onair' \in Nat
  <1>1. FrontOf(f) \in Payload
    BY FrontType, PtxAssumption
  <1>2. 1 \in 0 .. CountMod - 1
    BY CountModAssumption
  <1>3. retransmit_count \in 0 .. CountMod - 1
    BY PtxAssumption, CountModAssumption DEF TypeOK
  <1> QED
    BY <1>1, <1>2, <1>3 DEF start_tx_transaction, TypeOK, States

LEMMA InitType == Init => TypeOK
  <1>1. NewFifo(TxFifoSize, ZeroPayload) \in Fifos(TxFifoSize, Payload)
    BY ZeroPayloadType, PtxAssumption, CountModAssumption DEF NewFifo, Fifos
  <1>2. NewFifo(RxFifoSize, ZeroPayload) \in Fifos(RxFifoSize, Payload)
    BY ZeroPayloadType, PtxAssumption, CountModAssumption DEF NewFifo, Fifos
  <1>3. 0 \in 0 .. CountMod - 1 /\ 0 \in 0 .. PidMax
    BY PtxAssumption, CountModAssumption
  <1>4. NoCall \in Calls
    BY DEF NoCall, Calls
  <1> SUFFICES ASSUME Init PROVE TypeOK
    OBVIOUS
  <1>5. /\ esb_initialized \in BOOLEAN
        /\ esb_state \in States
        /\ interrupt_flags \in SUBSET Flags
        /\ retransmit_count \in RetransmitCounts
        /\ on_radio_disabled = "NULL"
        /\ shorts_rxen \in BOOLEAN
        /\ radio = "off"
        /\ evt_irq \in [enabled : BOOLEAN, pending : BOOLEAN]
        /\ nextId \in Nat /\ onair \in Nat /\ popped \in BOOLEAN
    BY DEF Init, States
  <1>6. evt \in [pc : {"exit", "entered", "run"}, interrupts : SUBSET Flags,
                 now : Flags \cup {"none"}, tx_attempts : 0 .. CountMod - 1]
    BY <1>3 DEF Init
  <1>7. call \in [Contexts -> Calls]
    BY <1>4 DEF Init
  <1>8. /\ tx_fifo \in Fifos(TxFifoSize, Payload)
        /\ rx_fifo \in Fifos(RxFifoSize, Payload)
        /\ tx_payload_buffer \in Payload
        /\ pids \in [Pipes -> 0 .. PidMax]
        /\ retransmits_remaining \in 0 .. CountMod - 1
        /\ last_tx_attempts \in 0 .. CountMod - 1
    BY <1>1, <1>2, <1>3, ZeroPayloadType DEF Init
  <1> QED
    BY <1>5, <1>6, <1>7, <1>8 DEF TypeOK

LEMMA RadioType == TypeOK /\ Radio => TypeOK'
  <1> SUFFICES ASSUME TypeOK, Radio PROVE TypeOK'
    OBVIOUS
  <1>f. tx_fifo_remove_last(tx_fifo) \in Fifos(TxFifoSize, Payload)
    BY RemoveType DEF TypeOK
  <1>p. SetPending => evt_irq' \in [enabled : BOOLEAN, pending : BOOLEAN]
    BY DEF SetPending, TypeOK
  <1>1. CASE on_radio_disabled_tx_noack
    <2>1. CASE GoIdle /\ UNCHANGED last_tx_attempts
      BY <1>1, <1>f, <1>p, <2>1
      DEF on_radio_disabled_tx_noack, GoIdle, TypeOK, States, Flags
    <2>2. CASE start_tx_transaction(tx_fifo_remove_last(tx_fifo))
      BY <1>1, <1>f, <1>p, <2>2, StartType
      DEF on_radio_disabled_tx_noack, TypeOK, Flags
    <2> QED
      BY <1>1, <2>1, <2>2 DEF on_radio_disabled_tx_noack, SendNext
  <1>2. CASE on_radio_disabled_tx
    BY <1>2 DEF on_radio_disabled_tx, TypeOK, States, auxiliary
  <1>3. ASSUME NEW ack \in Acks, AckReceived(ack)
        PROVE  TypeOK'
    <2>1. rx_fifo' \in Fifos(RxFifoSize, Payload) /\ interrupt_flags' \in SUBSET Flags
      <3>1. CASE ack.kind = "ack_payload"
        <4>1. ack.payload \in Payload
          <5>1. ack # NoAck /\ ack # EmptyAck
            BY <3>1 DEF NoAck, EmptyAck
          <5>2. PICK p \in AckPayloads : ack = PayloadAck(p)
            BY <5>1 DEF Acks
          <5>3. p \in Payload
            <6>1. 0 \in 0 .. PidMax /\ AckIds \subseteq Nat
              BY PtxAssumption
            <6>2. /\ p.id \in Nat /\ p.data \in Data /\ p.pipe \in Pipes
                  /\ p.noack \in BOOLEAN /\ p.pid \in 0 .. PidMax
                  /\ p = [id |-> p.id, data |-> p.data, pipe |-> p.pipe,
                          noack |-> p.noack, pid |-> p.pid]
              BY <6>1 DEF AckPayloads
            <6> QED
              BY <6>2 DEF Payload
          <5> QED
            BY <5>2, <5>3 DEF PayloadAck
        <4>2. Push(rx_fifo, RxFifoSize, ack.payload) \in Fifos(RxFifoSize, Payload)
          BY <4>1, PushType, PtxAssumption DEF TypeOK
        <4> QED
          BY <1>3, <4>2 DEF AckReceived, PushAck, TypeOK, Flags
      <3>2. CASE ack.kind # "ack_payload"
        BY <1>3, <3>2 DEF AckReceived, PushAck, TypeOK, Flags
      <3> QED
        BY <3>1, <3>2
    <2>2. CASE last_tx_attempts' = Attempts /\ GoIdle
      <3>1. retransmit_count \in Int /\ retransmits_remaining \in Int
        BY PtxAssumption DEF TypeOK
      <3>2. Attempts \in 0 .. CountMod - 1
        BY <3>1, ModRange DEF Attempts
      <3> QED
        BY <1>3, <1>f, <1>p, <2>1, <2>2, <3>2
        DEF AckReceived, GoIdle, TypeOK, States
    <2>3. CASE start_tx_transaction(tx_fifo_remove_last(tx_fifo))
      BY <1>3, <1>f, <1>p, <2>1, <2>3, StartType DEF AckReceived, TypeOK
    <2> QED
      BY <1>3, <2>2, <2>3 DEF AckReceived
  <1>4. ASSUME NEW ack \in Acks, AckMissed(ack)
        PROVE  TypeOK'
    <2>1. retransmits_remaining' \in 0 .. CountMod - 1
      BY <1>4, CounterType DEF AckMissed, TypeOK
    <2>2. CASE GiveUp
      <3>1. (retransmit_count + 1) % CountMod \in 0 .. CountMod - 1
        BY ModRange, PtxAssumption DEF TypeOK
      <3> QED
        BY <1>4, <1>p, <2>1, <2>2, <3>1 DEF AckMissed, GiveUp, TypeOK, States, Flags, auxiliary
    <2>3. CASE Rearm
      BY <1>4, <2>1, <2>3 DEF AckMissed, Rearm, RearmAs, TypeOK, States, auxiliary
    <2> QED
      BY <1>4, <2>2, <2>3 DEF AckMissed
  <1>5. CASE RetransmitTimer
    BY <1>5 DEF RetransmitTimer, TypeOK, driver
  <1> QED
    BY <1>1, <1>2, <1>3, <1>4, <1>5 DEF Radio, on_radio_disabled_tx_wait_for_ack

LEMMA EventType == TypeOK /\ Event => TypeOK'
  <1> SUFFICES ASSUME TypeOK, Event PROVE TypeOK'
    OBVIOUS
  <1> USE DEF driver, hardware, auxiliary
  <1>1. CASE ESB_EVT_IRQHandler
    BY <1>1 DEF ESB_EVT_IRQHandler, TypeOK
  <1>2. CASE get_and_clear_irqs
    BY <1>2 DEF get_and_clear_irqs, TypeOK
  <1>3. CASE event_handler
    <2>1. NextFlag(evt.interrupts) \in Flags
      BY DEF NextFlag, Flags
    <2> QED
      BY <1>3, <2>1, ZenonT(40) DEF event_handler, TypeOK
  <1>4. CASE EvtReturn
    BY <1>4, ZenonT(40) DEF EvtReturn, TypeOK
  <1> QED
    BY <1>1, <1>2, <1>3, <1>4 DEF Event

(***************************************************************************)
(* The API calls: each keeps the type of what it assigns.                 *)
(***************************************************************************)
LEMMA CallType ==
  ASSUME TypeOK, NEW c \in Contexts
  PROVE  /\ Return(c) => call' \in [Contexts -> Calls]
         /\ \A st \in {"write_kick", "start", "pop_locked", "read_locked"} :
              Goto(c, st) => call' \in [Contexts -> Calls]
  BY DEF TypeOK, Return, Goto, NoCall, Calls

LEMMA WriteType ==
  ASSUME TypeOK, NEW c \in Contexts,
         nrf_esb_write_payload(c) \/ WriteLocked(c) \/ WriteKick(c)
  PROVE  TypeOK'
  <1> USE DEF driver, hardware, auxiliary
  <1>1. CASE nrf_esb_write_payload(c)
    <2>1. PICK d \in Data, p \in Pipes, n \in NoAcks :
            call' = [call EXCEPT ![c] =
                      [step |-> "write_locked", data |-> d, pipe |-> p, noack |-> n]]
      BY <1>1 DEF nrf_esb_write_payload
    <2>2. [step |-> "write_locked", data |-> d, pipe |-> p, noack |-> n] \in Calls
      BY PtxAssumption DEF Calls
    <2>3. call' \in [Contexts -> Calls]
      BY <2>1, <2>2 DEF TypeOK
    <2> QED
      BY <1>1, <2>3 DEF nrf_esb_write_payload, TypeOK
  <1>2. CASE WriteLocked(c)
    <2> DEFINE w == call[c]
               pid == (pids[w.pipe] + 1) % (PidMax + 1)
               q == [id |-> nextId, data |-> w.data, pipe |-> w.pipe,
                     noack |-> w.noack, pid |-> pid]
    <2>1. w.data \in Data /\ w.pipe \in Pipes /\ w.noack \in BOOLEAN
      BY <1>2 DEF WriteLocked, AtStep, TypeOK, Calls
    <2>2. pid \in 0 .. PidMax
      <3>1. pids[w.pipe] \in 0 .. PidMax
        BY <2>1 DEF TypeOK
      <3> QED
        BY <3>1, PtxAssumption
    <2>3. q \in Payload
      BY <2>1, <2>2 DEF Payload, TypeOK
    <2>4. tx_fifo' \in Fifos(TxFifoSize, Payload)
      BY <1>2, <2>3, PushType, PtxAssumption DEF WriteLocked, TypeOK
    <2>5. pids' \in [Pipes -> 0 .. PidMax]
      BY <1>2, <2>1, <2>2 DEF WriteLocked, TypeOK
    <2>6. call' \in [Contexts -> Calls]
      BY <1>2, CallType DEF WriteLocked
    <2>7. nextId' \in Nat
      BY <1>2 DEF WriteLocked, TypeOK
    <2> QED
      BY <1>2, <2>4, <2>5, <2>6, <2>7 DEF WriteLocked, TypeOK
  <1>3. CASE WriteKick(c)
    <2>1. call' \in [Contexts -> Calls]
      BY <1>3, CallType DEF WriteKick
    <2> QED
      BY <1>3, <2>1 DEF WriteKick, TypeOK
  <1> QED
    BY <1>1, <1>2, <1>3

LEMMA StartTxType ==
  ASSUME TypeOK, NEW c \in Contexts, nrf_esb_start_tx(c) \/ StartTransaction(c)
  PROVE  TypeOK'
  <1>1. call' \in [Contexts -> Calls]
    BY CallType DEF nrf_esb_start_tx, StartTransaction
  <1>2. CASE nrf_esb_start_tx(c)
    BY <1>1, <1>2 DEF nrf_esb_start_tx, TypeOK, driver, hardware, auxiliary
  <1>3. CASE StartTransaction(c)
    <2>1. tx_fifo \in Fifos(TxFifoSize, Payload) /\ start_tx_transaction(tx_fifo)
      BY <1>3 DEF StartTransaction, TypeOK
    <2> QED
      BY <1>1, <1>3, <2>1, StartType DEF StartTransaction, TypeOK
  <1> QED
    BY <1>2, <1>3

LEMMA QueueType ==
  ASSUME TypeOK, NEW c \in Contexts,
         \/ nrf_esb_flush_tx(c) \/ nrf_esb_pop_tx(c) \/ PopLocked(c)
         \/ nrf_esb_read_rx_payload(c) \/ ReadLocked(c) \/ nrf_esb_flush_rx(c)
  PROVE  TypeOK'
  <1> USE DEF driver, hardware, auxiliary
  <1>1. CASE nrf_esb_flush_tx(c)
    <2>1. Reset(tx_fifo) \in Fifos(TxFifoSize, Payload)
      BY ResetType, PtxAssumption DEF TypeOK
    <2> QED
      BY <1>1, <2>1 DEF nrf_esb_flush_tx, TypeOK
  <1>2. CASE nrf_esb_pop_tx(c)
    <2>1. call' \in [Contexts -> Calls]
      BY <1>2, CallType DEF nrf_esb_pop_tx
    <2> QED
      BY <1>2, <2>1 DEF nrf_esb_pop_tx, TypeOK
  <1>3. CASE PopLocked(c)
    <2>1. call' \in [Contexts -> Calls]
      BY <1>3, CallType DEF PopLocked
    <2>2. Advance(tx_fifo.back, TxFifoSize) \in 0 .. TxFifoSize - 1
      BY AdvanceType, PtxAssumption DEF TypeOK, Fifos
    <2>3. Decr(tx_fifo.count) \in 0 .. CountMod - 1
      BY CounterType DEF TypeOK, Fifos
    <2>4. tx_fifo' \in Fifos(TxFifoSize, Payload)
      BY <1>3, <2>2, <2>3 DEF PopLocked, TypeOK, Fifos
    <2> QED
      BY <1>3, <2>1, <2>4 DEF PopLocked, TypeOK
  <1>4. CASE nrf_esb_read_rx_payload(c)
    <2>1. call' \in [Contexts -> Calls]
      BY <1>4, CallType DEF nrf_esb_read_rx_payload
    <2> QED
      BY <1>4, <2>1 DEF nrf_esb_read_rx_payload, TypeOK
  <1>5. CASE ReadLocked(c)
    <2>1. call' \in [Contexts -> Calls]
      BY <1>5, CallType DEF ReadLocked
    <2>2. rx_fifo' \in Fifos(RxFifoSize, Payload)
      BY <1>5, DropFrontType, PtxAssumption DEF ReadLocked, TypeOK
    <2> QED
      BY <1>5, <2>1, <2>2 DEF ReadLocked, TypeOK
  <1>6. CASE nrf_esb_flush_rx(c)
    <2>1. Reset(rx_fifo) \in Fifos(RxFifoSize, Payload)
      BY ResetType, PtxAssumption DEF TypeOK
    <2> QED
      BY <1>6, <2>1 DEF nrf_esb_flush_rx, TypeOK
  <1> QED
    BY <1>1, <1>2, <1>3, <1>4, <1>5, <1>6

LEMMA ConfigType ==
  ASSUME TypeOK, NEW c \in Contexts,
         \/ nrf_esb_set_retransmit_count(c) \/ nrf_esb_reuse_pid(c)
         \/ nrf_esb_init(c) \/ nrf_esb_disable(c)
  PROVE  TypeOK'
  <1> USE DEF auxiliary, hardware
  <1>r. /\ Reset(tx_fifo) \in Fifos(TxFifoSize, Payload)
        /\ Reset(rx_fifo) \in Fifos(RxFifoSize, Payload)
    BY ResetType, PtxAssumption DEF TypeOK
  <1>z. [p \in Pipes |-> 0] \in [Pipes -> 0 .. PidMax]
    BY PtxAssumption
  <1>d. DisableEffect => /\ esb_state' \in States
                         /\ popped' = FALSE
                         /\ shorts_rxen' \in BOOLEAN
                         /\ radio' \in {"off", "tx", "rx", "rx_open", "expire", "wait"}
    BY DEF DisableEffect, AfterPpiClear, TypeOK, States
  <1>1. CASE nrf_esb_set_retransmit_count(c)
    BY <1>1 DEF nrf_esb_set_retransmit_count, TypeOK
  <1>2. CASE nrf_esb_reuse_pid(c)
    <2>1. PICK p \in Pipes : pids' = [pids EXCEPT ![p] = (pids[p] + PidMax) % (PidMax + 1)]
      BY <1>2 DEF nrf_esb_reuse_pid
    <2>2. (pids[p] + PidMax) % (PidMax + 1) \in 0 .. PidMax
      <3>1. pids[p] \in 0 .. PidMax
        BY DEF TypeOK
      <3> QED
        BY <3>1, PtxAssumption
    <2>3. pids' \in [Pipes -> 0 .. PidMax]
      BY <2>1, <2>2 DEF TypeOK
    <2> QED
      BY <1>2, <2>3 DEF nrf_esb_reuse_pid, TypeOK
  <1>3. CASE nrf_esb_init(c)
    <2>1. /\ tx_fifo' \in Fifos(TxFifoSize, Payload)
          /\ rx_fifo' \in Fifos(RxFifoSize, Payload)
          /\ pids' \in [Pipes -> 0 .. PidMax]
      BY <1>3, <1>r, <1>z DEF nrf_esb_init, DisableEffect
    <2>2. /\ esb_state' \in States
          /\ popped' = FALSE
          /\ shorts_rxen' \in BOOLEAN
          /\ radio' \in {"off", "tx", "rx", "rx_open", "expire", "wait"}
      BY <1>3, <1>d DEF nrf_esb_init, TypeOK, States
    <2>3. evt_irq' \in [enabled : BOOLEAN, pending : BOOLEAN]
      BY <1>3 DEF nrf_esb_init, TypeOK
    <2> QED
      BY <1>3, <2>1, <2>2, <2>3 DEF nrf_esb_init, TypeOK
  <1>4. CASE nrf_esb_disable(c)
    <2>1. /\ tx_fifo' \in Fifos(TxFifoSize, Payload)
          /\ rx_fifo' \in Fifos(RxFifoSize, Payload)
          /\ pids' \in [Pipes -> 0 .. PidMax]
      BY <1>4, <1>r, <1>z DEF nrf_esb_disable, DisableEffect
    <2>2. evt_irq' \in [enabled : BOOLEAN, pending : BOOLEAN]
      BY <1>4 DEF nrf_esb_disable, TypeOK
    <2> QED
      BY <1>4, <1>d, <2>1, <2>2 DEF nrf_esb_disable, TypeOK
  <1> QED
    BY <1>1, <1>2, <1>3, <1>4

(***************************************************************************)
(* Type correctness: whatever the application calls and the radio brings,  *)
(* cursors stay inside their rings, counters inside their width and the    *)
(* installed handler is one the driver knows.                              *)
(***************************************************************************)
THEOREM TypeCorrect == Spec => []TypeOK
  <1>1. Init => TypeOK
    BY InitType
  <1>2. TypeOK /\ [Next]_vars => TypeOK'
    <2> SUFFICES ASSUME TypeOK, [Next]_vars PROVE TypeOK'
      OBVIOUS
    <2>1. CASE Radio
      BY <2>1, RadioType
    <2>2. CASE Event
      BY <2>2, EventType
    <2>3. ASSUME NEW c \in Contexts, Api(c) PROVE TypeOK'
      BY <2>3, WriteType, StartTxType, QueueType, ConfigType DEF Api
    <2>4. CASE UNCHANGED vars
      BY <2>4 DEF vars, driver, hardware, auxiliary, TypeOK
    <2> QED
      BY <2>1, <2>2, <2>3, <2>4 DEF Next
  <1> QED
    BY <1>1, <1>2, PTL DEF Spec

-----------------------------------------------------------------------------
(***************************************************************************)
(* One transaction at a time.  Nothing locks the test of esb_state and the *)
(* call of start_tx_transaction() together, so what keeps a transaction    *)
(* from being started over another one is a property of the application:   *)
(*   OneStarter  the thread and the event handler do not both write or     *)
(*               start;                                                    *)
(*   IdleReset   nrf_esb_init() and nrf_esb_disable() are called only when *)
(*               nrf_esb_is_idle().                                        *)
(***************************************************************************)
OpsOf(c) == IF c = "thread" THEN ThreadOps ELSE HandlerOps

Starter(c) == OpsOf(c) \cap {"write", "start_tx"} # {}

OneStarter == ~(Starter("thread") /\ Starter("handler"))

IdleReset == {"init", "disable"} \subseteq IdleOnly

\* A context inside nrf_esb_write_payload() or nrf_esb_start_tx() is a starter.
StartersOnly ==
  \A c \in Contexts :
    call[c].step \in {"write_locked", "write_kick", "start"} => Starter(c)

(***************************************************************************)
(* AttemptsBounded is not inductive: while the retransmit timer runs       *)
(* (radio = "wait") the attempt it will make is already accounted for.     *)
(***************************************************************************)
AttemptsInv ==
  esb_state \in {"PTX_TX_ACK", "PTX_RX_ACK"} =>
    onair + retransmits_remaining <=
      IF radio = "wait" THEN retransmit_count ELSE retransmit_count + 1

TransactionInv ==
  /\ TypeOK
  /\ StateMatchesRadio
  /\ StartOnIdleRadio
  /\ StartersOnly
  /\ AttemptsInv

\* start_tx_transaction() leaves state, radio and handler in agreement.
LEMMA StartMatches ==
  ASSUME TypeOK, NEW f, start_tx_transaction(f), retransmit_count' = retransmit_count
  PROVE  StateMatchesRadio' /\ AttemptsInv'
  <1>1. StateMatchesRadio'
    BY DEF start_tx_transaction, StateMatchesRadio
  <1>2. /\ onair' = 1 /\ radio' = "tx"
        /\ esb_state' = "PTX_TX_ACK" => retransmits_remaining' = retransmit_count
        /\ esb_state' # "PTX_RX_ACK"
    BY DEF start_tx_transaction
  <1>3. retransmit_count \in Nat
    BY PtxAssumption DEF TypeOK
  <1>4. AttemptsInv'
    BY <1>2, <1>3 DEF AttemptsInv
  <1> QED
    BY <1>1, <1>4

LEMMA RadioOnly ==
  ASSUME TransactionInv, Radio
  PROVE  TransactionInv'
  <1> USE DEF TransactionInv
  <1>t. TypeOK'
    BY RadioType
  <1>o. \A c \in Contexts : call[c].step # "start"
    BY DEF Radio, on_radio_disabled_tx_noack, on_radio_disabled_tx, StartOnIdleRadio,
           on_radio_disabled_tx_wait_for_ack, AckReceived, AckMissed, RetransmitTimer
  <1>c. call' = call
    BY DEF Radio, on_radio_disabled_tx_noack, on_radio_disabled_tx,
           on_radio_disabled_tx_wait_for_ack, AckReceived, AckMissed, RetransmitTimer
  <1>s. StartOnIdleRadio' /\ StartersOnly'
    BY <1>o, <1>c DEF StartOnIdleRadio, StartersOnly
  <1>1. CASE on_radio_disabled_tx_noack
    <2>1. GoIdle => StateMatchesRadio' /\ AttemptsInv'
      BY <1>1 DEF on_radio_disabled_tx_noack, GoIdle, StateMatchesRadio, AttemptsInv
    <2>2. start_tx_transaction(tx_fifo_remove_last(tx_fifo))
            => StateMatchesRadio' /\ AttemptsInv'
      BY <1>1, StartMatches DEF on_radio_disabled_tx_noack
    <2>3. StateMatchesRadio' /\ AttemptsInv'
      BY <1>1, <2>1, <2>2 DEF on_radio_disabled_tx_noack, SendNext
    <2> QED
      BY <1>t, <1>s, <2>3
  <1>2. CASE on_radio_disabled_tx
    <2>1. esb_state = "PTX_TX_ACK" /\ shorts_rxen
      BY <1>2 DEF on_radio_disabled_tx, StateMatchesRadio, TypeOK, States
    <2>2. StateMatchesRadio' /\ AttemptsInv'
      BY <1>2, <2>1 DEF on_radio_disabled_tx, StateMatchesRadio, AttemptsInv, auxiliary
    <2> QED
      BY <1>t, <1>s, <2>2
  <1>3. ASSUME NEW ack \in Acks, AckReceived(ack)
        PROVE  TransactionInv'
    <2>1. GoIdle => StateMatchesRadio' /\ AttemptsInv'
      BY <1>3 DEF AckReceived, GoIdle, StateMatchesRadio, AttemptsInv
    <2>2. start_tx_transaction(tx_fifo_remove_last(tx_fifo))
            => StateMatchesRadio' /\ AttemptsInv'
      BY <1>3, StartMatches DEF AckReceived
    <2>3. StateMatchesRadio' /\ AttemptsInv'
      BY <1>3, <2>1, <2>2 DEF AckReceived
    <2> QED
      BY <1>t, <1>s, <2>3
  <1>4. ASSUME NEW ack \in Acks, AckMissed(ack)
        PROVE  TransactionInv'
    <2>1. CASE GiveUp
      <3>1. StateMatchesRadio' /\ AttemptsInv'
        BY <1>4, <2>1 DEF AckMissed, GiveUp, StateMatchesRadio, AttemptsInv
      <3> QED
        BY <1>t, <1>s, <3>1
    <2>2. CASE Rearm
      <3>1. esb_state = "PTX_RX_ACK"
        BY <1>4 DEF AckMissed, StateMatchesRadio, TypeOK, States
      <3>2. retransmits_remaining' = retransmits_remaining - 1
        BY <1>4, <2>2, DecrPositive DEF AckMissed, Rearm, TypeOK
      <3>3. StateMatchesRadio'
        BY <1>4, <2>2 DEF AckMissed, Rearm, RearmAs, StateMatchesRadio
      <3>4. radio # "wait"
        BY <1>4 DEF AckMissed
      <3>5. onair + retransmits_remaining <= retransmit_count + 1
        BY <3>1, <3>4 DEF AttemptsInv
      <3>6. onair \in Nat /\ retransmits_remaining \in Nat /\ retransmit_count \in Nat
        BY PtxAssumption DEF TypeOK
      <3>7. AttemptsInv'
        BY <1>4, <2>2, <3>2, <3>5, <3>6
        DEF AckMissed, Rearm, RearmAs, AttemptsInv, auxiliary
      <3> QED
        BY <1>t, <1>s, <3>3, <3>7
    <2> QED
      BY <1>4, <2>1, <2>2 DEF AckMissed
  <1>5. CASE RetransmitTimer
    <2>1. esb_state = "PTX_TX_ACK"
      BY <1>5 DEF RetransmitTimer, StateMatchesRadio, TypeOK, States
    <2>2. onair \in Nat /\ retransmits_remaining \in Nat /\ retransmit_count \in Nat
      BY PtxAssumption DEF TypeOK
    <2>3. StateMatchesRadio' /\ AttemptsInv'
      BY <1>5, <2>1, <2>2
      DEF RetransmitTimer, StateMatchesRadio, AttemptsInv, driver
    <2> QED
      BY <1>t, <1>s, <2>3
  <1> QED
    BY <1>1, <1>2, <1>3, <1>4, <1>5 DEF Radio, on_radio_disabled_tx_wait_for_ack

LEMMA EventKeeps ==
  ASSUME TransactionInv, Event
  PROVE  TransactionInv'
  <1>1. TypeOK'
    BY EventType DEF TransactionInv
  <1>2. UNCHANGED <<esb_state, radio, on_radio_disabled, shorts_rxen, call, onair,
                    retransmits_remaining, retransmit_count>>
    BY DEF Event, ESB_EVT_IRQHandler, get_and_clear_irqs, event_handler, EvtReturn,
           driver, hardware, auxiliary
  <1> QED
    BY <1>1, <1>2
    DEF TransactionInv, StateMatchesRadio, StartOnIdleRadio, StartersOnly, AttemptsInv

\* Nobody else can be about to start when c is a starter.
LEMMA OnlyStarter ==
  ASSUME OneStarter, StartersOnly, NEW c \in Contexts, Starter(c),
         NEW d \in Contexts, d # c
  PROVE  call[d].step # "start"
  BY DEF OneStarter, StartersOnly, Contexts

LEMMA ApiType ==
  ASSUME TypeOK, NEW c \in Contexts, Api(c)
  PROVE  TypeOK'
  BY WriteType, StartTxType, QueueType, ConfigType DEF Api

LEMMA StarterKeeps ==
  ASSUME OneStarter, TransactionInv, NEW c \in Contexts,
         \/ nrf_esb_write_payload(c) \/ WriteLocked(c) \/ WriteKick(c)
         \/ nrf_esb_start_tx(c) \/ StartTransaction(c)
  PROVE  TransactionInv'
  <1> USE DEF TransactionInv
  <1>t. TypeOK'
    BY ApiType DEF Api
  <1>c. Starter(c)
    <2>1. ASSUME MayCall(c, "write") \/ MayCall(c, "start_tx") PROVE Starter(c)
      BY <2>1 DEF MayCall, Starter, OpsOf
    <2>2. ASSUME NEW st \in {"write_locked", "write_kick", "start"}, AtStep(c, st)
          PROVE  Starter(c)
      BY <2>2 DEF AtStep, StartersOnly
    <2> QED
      BY <2>1, <2>2 DEF nrf_esb_write_payload, WriteLocked, WriteKick, nrf_esb_start_tx,
                        StartTransaction
  <1>d. \A d \in Contexts : d # c => call'[d] = call[d]
    BY DEF nrf_esb_write_payload, WriteLocked, WriteKick, nrf_esb_start_tx,
           StartTransaction, Goto, Return, TypeOK
  <1>s. StartersOnly'
    BY <1>c, <1>d DEF StartersOnly
  <1>1. CASE StartTransaction(c)
    <2>1. call'[c].step = "none"
      BY <1>1 DEF StartTransaction, Return, NoCall, TypeOK
    <2>2. \A d \in Contexts : call'[d].step # "start"
      BY <1>c, <1>d, <2>1, OnlyStarter
    <2>3. StateMatchesRadio' /\ AttemptsInv'
      BY <1>1, StartMatches DEF StartTransaction
    <2> QED
      BY <1>t, <1>s, <2>2, <2>3 DEF StartOnIdleRadio
  <1>2. CASE ~StartTransaction(c)
    <2>1. UNCHANGED <<esb_state, radio, on_radio_disabled, shorts_rxen, onair,
                      retransmits_remaining, retransmit_count>>
      BY <1>2 DEF nrf_esb_write_payload, WriteLocked, WriteKick, nrf_esb_start_tx,
                  driver, hardware, auxiliary
    <2>2. call'[c].step = "start" => esb_state = "IDLE"
      BY <1>2 DEF nrf_esb_write_payload, WriteLocked, WriteKick, nrf_esb_start_tx,
                  Goto, Return, NoCall, TypeOK
    <2>3. StartOnIdleRadio'
      BY <1>d, <2>1, <2>2 DEF StartOnIdleRadio, StateMatchesRadio
    <2> QED
      BY <1>t, <1>s, <2>1, <2>3 DEF StateMatchesRadio, AttemptsInv
  <1> QED
    BY <1>1, <1>2

LEMMA QueueKeeps ==
  ASSUME TransactionInv, NEW c \in Contexts,
         \/ nrf_esb_flush_tx(c) \/ nrf_esb_pop_tx(c) \/ PopLocked(c)
         \/ nrf_esb_read_rx_payload(c) \/ ReadLocked(c) \/ nrf_esb_flush_rx(c)
         \/ nrf_esb_reuse_pid(c)
  PROVE  TransactionInv'
  <1> USE DEF TransactionInv
  <1>t. TypeOK'
    BY ApiType DEF Api
  <1>1. UNCHANGED <<esb_state, radio, on_radio_disabled, shorts_rxen, onair,
                    retransmits_remaining, retransmit_count>>
    BY DEF nrf_esb_flush_tx, nrf_esb_pop_tx, PopLocked, nrf_esb_read_rx_payload,
           ReadLocked, nrf_esb_flush_rx, nrf_esb_reuse_pid, driver, hardware, auxiliary
  <1>2. \A d \in Contexts :
          \/ call'[d] = call[d]
          \/ call'[d].step \in {"none", "pop_locked", "read_locked"}
    BY DEF nrf_esb_flush_tx, nrf_esb_pop_tx, PopLocked, nrf_esb_read_rx_payload,
           ReadLocked, nrf_esb_flush_rx, nrf_esb_reuse_pid, Goto, Return, NoCall, TypeOK
  <1> QED
    BY <1>t, <1>1, <1>2
    DEF StateMatchesRadio, StartOnIdleRadio, StartersOnly, AttemptsInv

LEMMA ConfigKeeps ==
  ASSUME IdleReset, TransactionInv, NEW c \in Contexts,
         nrf_esb_set_retransmit_count(c) \/ nrf_esb_init(c) \/ nrf_esb_disable(c)
  PROVE  TransactionInv'
  <1> USE DEF TransactionInv
  <1>t. TypeOK'
    BY ApiType DEF Api
  <1>1. esb_state = "IDLE"
    BY DEF nrf_esb_set_retransmit_count, nrf_esb_init, nrf_esb_disable, MayCall, IdleReset
  <1>2. radio = "off"
    BY <1>1 DEF StateMatchesRadio
  <1>3. esb_state' = "IDLE" /\ radio' = "off" /\ call' = call
    BY <1>1, <1>2
    DEF nrf_esb_set_retransmit_count, nrf_esb_init, nrf_esb_disable, DisableEffect,
        AfterPpiClear, hardware
  <1> QED
    BY <1>t, <1>3 DEF StateMatchesRadio, StartOnIdleRadio, StartersOnly, AttemptsInv

LEMMA TransactionInvariant ==
  ASSUME OneStarter, IdleReset
  PROVE  Spec => []TransactionInv
  <1>1. Init => TransactionInv
    BY InitType
    DEF Init, TransactionInv, StateMatchesRadio, StartOnIdleRadio, StartersOnly,
        AttemptsInv, NoCall
  <1>2. TransactionInv /\ [Next]_vars => TransactionInv'
    <2> SUFFICES ASSUME TransactionInv, [Next]_vars PROVE TransactionInv'
      OBVIOUS
    <2>1. CASE Radio
      BY <2>1, RadioOnly
    <2>2. CASE Event
      BY <2>2, EventKeeps
    <2>3. ASSUME NEW c \in Contexts, Api(c) PROVE TransactionInv'
      BY <2>3, StarterKeeps, QueueKeeps, ConfigKeeps, OneStarter, IdleReset DEF Api
    <2>4. CASE UNCHANGED vars
      BY <2>4 DEF vars, driver, hardware, auxiliary, TransactionInv, TypeOK,
                  StateMatchesRadio, StartOnIdleRadio, StartersOnly, AttemptsInv
    <2> QED
      BY <2>1, <2>2, <2>3, <2>4 DEF Next
  <1> QED
    BY <1>1, <1>2, PTL DEF Spec

(***************************************************************************)
(* esb_state, the radio and the installed handler always agree, whichever  *)
(* context interrupts whichever call.                                      *)
(***************************************************************************)
THEOREM StateAgreesWithRadio ==
  ASSUME OneStarter, IdleReset
  PROVE  Spec => []StateMatchesRadio
  <1>1. TransactionInv => StateMatchesRadio
    BY DEF TransactionInv
  <1> QED
    BY <1>1, TransactionInvariant, PTL

(***************************************************************************)
(* A transaction is never started over one in progress: the unlocked test  *)
(* of esb_state in nrf_esb_write_payload() and nrf_esb_start_tx() is still *)
(* true at the call of start_tx_transaction().                             *)
(***************************************************************************)
THEOREM OneTransactionAtATime ==
  ASSUME OneStarter, IdleReset
  PROVE  Spec => []StartOnIdleRadio
  <1>1. TransactionInv => StartOnIdleRadio
    BY DEF TransactionInv
  <1> QED
    BY <1>1, TransactionInvariant, PTL

\* A packet is sent at most retransmit_count + 1 times.
THEOREM RetransmitLimit ==
  ASSUME OneStarter, IdleReset
  PROVE  Spec => []AttemptsBounded
  <1>1. TransactionInv => AttemptsBounded
    <2> SUFFICES ASSUME TransactionInv, esb_state \in {"PTX_TX_ACK", "PTX_RX_ACK"}
                 PROVE  onair + retransmits_remaining <= retransmit_count + 1
      BY DEF AttemptsBounded
    <2>1. onair \in Nat /\ retransmits_remaining \in Nat /\ retransmit_count \in Nat
      BY PtxAssumption DEF TransactionInv, TypeOK
    <2> QED
      BY <2>1 DEF TransactionInv, AttemptsInv
  <1> QED
    BY <1>1, TransactionInvariant, PTL

-----------------------------------------------------------------------------
(***************************************************************************)
(* The rings.  The count is tested before irq_lock(), so the rings are     *)
(* safe only if the test cannot be overtaken:                              *)
(*   OneWriter  the thread and the event handler do not both write;        *)
(*   OneReader  the event handler does not empty the RX FIFO under a       *)
(*              thread that reads it.                                      *)
(***************************************************************************)
OneWriter == ~("write" \in ThreadOps /\ "write" \in HandlerOps)

OneReader ==
  "read_rx" \in ThreadOps =>
    HandlerOps \cap {"read_rx", "flush_rx", "init", "disable"} = {}

(***************************************************************************)
(* The inductive invariant: a context between its test and its lock still  *)
(* has the room, or the payload, it saw; and the handler is inside the API *)
(* only while a callback runs, so the thread never overtakes it.           *)
(***************************************************************************)
TestsHold ==
  \A c \in Contexts :
    /\ call[c].step = "write_locked" =>
         (popped \/ tx_fifo.count < TxFifoSize) /\ "write" \in OpsOf(c)
    /\ call[c].step = "read_locked" =>
         rx_fifo.count # 0 /\ "read_rx" \in OpsOf(c)

HandlerInCallback ==
  /\ call["handler"] # NoCall => evt.now # "none"
  /\ evt.now # "none" => evt.pc = "run"

RingInv == TypeOK /\ TxRingOK /\ RxRingOK /\ TestsHold /\ HandlerInCallback

LEMMA RadioRings ==
  ASSUME RingInv, Radio
  PROVE  RingInv'
  <1> USE DEF RingInv
  <1>t. TypeOK'
    BY RadioType
  <1>1. tx_fifo' = tx_fifo \/ tx_fifo' = tx_fifo_remove_last(tx_fifo)
    BY DEF Radio, on_radio_disabled_tx_noack, on_radio_disabled_tx, RetransmitTimer,
           on_radio_disabled_tx_wait_for_ack, AckReceived, AckMissed, driver
  <1>2. \/ rx_fifo' = rx_fifo
        \/ \E p : /\ rx_fifo.count < RxFifoSize
                  /\ rx_fifo' = Push(rx_fifo, RxFifoSize, p)
    BY DEF Radio, on_radio_disabled_tx_noack, on_radio_disabled_tx, RetransmitTimer,
           on_radio_disabled_tx_wait_for_ack, AckReceived, AckMissed, PushAck, driver
  <1>3. UNCHANGED <<call, evt, popped>>
    BY DEF Radio, on_radio_disabled_tx_noack, on_radio_disabled_tx, RetransmitTimer,
           on_radio_disabled_tx_wait_for_ack, AckReceived, AckMissed, auxiliary
  <1>4. TxRingOK' /\ tx_fifo'.count <= tx_fifo.count
    <2>1. CASE tx_fifo' = tx_fifo
      BY <1>3, <2>1 DEF TxRingOK, TypeOK, Fifos
    <2>2. CASE tx_fifo.count # 0 /\ tx_fifo' = DropFront(tx_fifo, TxFifoSize)
      <3>1. popped \/ RingOK(DropFront(tx_fifo, TxFifoSize), TxFifoSize)
        BY <2>2, RingDrop, PtxAssumption DEF TypeOK, TxRingOK
      <3>2. tx_fifo'.count = tx_fifo.count - 1
        BY <2>2, DecrPositive DEF TypeOK, Fifos, DropFront
      <3> QED
        BY <1>3, <2>2, <3>1, <3>2 DEF TxRingOK, TypeOK, Fifos
    <2> QED
      BY <1>1, <2>1, <2>2 DEF tx_fifo_remove_last
  <1>5. RxRingOK' /\ (rx_fifo.count # 0 => rx_fifo'.count # 0)
    <2>1. CASE rx_fifo' = rx_fifo
      BY <2>1 DEF RxRingOK
    <2>2. ASSUME NEW p, rx_fifo.count < RxFifoSize, rx_fifo' = Push(rx_fifo, RxFifoSize, p)
          PROVE  RxRingOK' /\ rx_fifo'.count # 0
      <3>1. RingOK(Push(rx_fifo, RxFifoSize, p), RxFifoSize)
        BY <2>2, RingPush, PtxAssumption DEF TypeOK, RxRingOK
      <3>2. rx_fifo'.count = Incr(rx_fifo.count)
        BY <2>2 DEF TypeOK, Fifos, Push
      <3>3. Incr(rx_fifo.count) = rx_fifo.count + 1
        <4>1. rx_fifo.count \in Nat /\ rx_fifo.count + 1 \in 0 .. CountMod - 1
          BY <2>2, PtxAssumption, CountModAssumption, SMTT(30) DEF TypeOK, Fifos
        <4> QED
          BY <4>1, CountModAssumption DEF Incr
      <3> QED
        BY <2>2, <3>1, <3>2, <3>3 DEF RxRingOK, TypeOK, Fifos
    <2> QED
      BY <1>2, <2>1, <2>2
  <1>6. TestsHold'
    <2>1. tx_fifo.count \in Nat /\ tx_fifo'.count \in Nat
      BY <1>t, CountModAssumption DEF TypeOK, Fifos
    <2> QED
      BY <1>3, <1>4, <1>5, <2>1, PtxAssumption DEF TestsHold
  <1>7. HandlerInCallback'
    BY <1>3 DEF HandlerInCallback
  <1> QED
    BY <1>t, <1>4, <1>5, <1>6, <1>7

LEMMA EventRings ==
  ASSUME RingInv, Event
  PROVE  RingInv'
  <1> USE DEF RingInv
  <1>t. TypeOK'
    BY EventType
  <1>1. UNCHANGED <<tx_fifo, rx_fifo, call, popped>>
    BY DEF Event, ESB_EVT_IRQHandler, get_and_clear_irqs, event_handler, EvtReturn, driver,
           auxiliary
  <1>2. HandlerInCallback'
    <2>1. CASE ESB_EVT_IRQHandler
      BY <2>1 DEF ESB_EVT_IRQHandler, HandlerInCallback, TypeOK
    <2>2. CASE get_and_clear_irqs
      BY <2>2 DEF get_and_clear_irqs, HandlerInCallback, TypeOK
    <2>3. CASE event_handler
      BY <2>3 DEF event_handler, HandlerInCallback, TypeOK
    <2>4. CASE EvtReturn
      BY <2>4 DEF EvtReturn, HandlerInCallback, TypeOK
    <2> QED
      BY <2>1, <2>2, <2>3, <2>4 DEF Event
  <1> QED
    BY <1>t, <1>1, <1>2 DEF TxRingOK, RxRingOK, TestsHold

\* While the thread runs the handler is not inside the API, and the other way
\* round a step of the handler leaves the thread where it is.
LEMMA OtherCall ==
  ASSUME HandlerInCallback, NEW c \in Contexts, Runs(c),
         NEW d \in Contexts, d # c, call[d] # NoCall
  PROVE  c = "handler" /\ d = "thread"
  BY DEF HandlerInCallback, Runs, Contexts

LEMMA ApiRings ==
  ASSUME OneWriter, OneReader, RingInv, NEW c \in Contexts, Api(c)
  PROVE  RingInv'
  <1> USE DEF RingInv
  <1>t. TypeOK'
    BY ApiType
  <1>r. Runs(c)
    BY DEF Api, MayCall, AtStep, nrf_esb_write_payload, WriteLocked, WriteKick,
           nrf_esb_start_tx, StartTransaction, nrf_esb_flush_tx, nrf_esb_pop_tx, PopLocked,
           nrf_esb_read_rx_payload, ReadLocked, nrf_esb_flush_rx,
           nrf_esb_set_retransmit_count, nrf_esb_reuse_pid, nrf_esb_init, nrf_esb_disable
  <1>e. evt' = evt
    BY DEF Api, nrf_esb_write_payload, WriteLocked, WriteKick,
           nrf_esb_start_tx, StartTransaction, nrf_esb_flush_tx, nrf_esb_pop_tx, PopLocked,
           nrf_esb_read_rx_payload, ReadLocked, nrf_esb_flush_rx,
           nrf_esb_set_retransmit_count, nrf_esb_reuse_pid, nrf_esb_init, nrf_esb_disable
  <1>d. \A d \in Contexts : d # c => call'[d] = call[d]
    BY DEF Api, nrf_esb_write_payload, WriteLocked, WriteKick,
           nrf_esb_start_tx, StartTransaction, nrf_esb_flush_tx, nrf_esb_pop_tx, PopLocked,
           nrf_esb_read_rx_payload, ReadLocked, nrf_esb_flush_rx, Goto, Return, TypeOK,
           nrf_esb_set_retransmit_count, nrf_esb_reuse_pid, nrf_esb_init, nrf_esb_disable
  <1>h. HandlerInCallback'
    <2>1. CASE c = "handler"
      BY <1>r, <1>e, <2>1 DEF HandlerInCallback, Runs
    <2>2. CASE c = "thread"
      BY <1>d, <1>e, <2>2 DEF HandlerInCallback, Contexts
    <2> QED
      BY <2>1, <2>2 DEF Contexts
  <1>1. CASE WriteLocked(c)
    <2>1. call[c].step = "write_locked" /\ call'[c].step = "write_kick"
      BY <1>1 DEF WriteLocked, AtStep, Goto, TypeOK
    <2>2. (popped \/ tx_fifo.count < TxFifoSize) /\ "write" \in OpsOf(c)
      BY <2>1 DEF TestsHold
    <2>3. popped' = popped /\ \E p : tx_fifo' = Push(tx_fifo, TxFifoSize, p)
      BY <1>1 DEF WriteLocked
    <2>4. TxRingOK'
      BY <2>2, <2>3, RingPush, PtxAssumption DEF TypeOK, TxRingOK
    <2>5. \A d \in Contexts : d # c => call[d].step # "write_locked"
      BY <2>2 DEF TestsHold, OneWriter, OpsOf, Contexts
    <2>6. rx_fifo' = rx_fifo
      BY <1>1 DEF WriteLocked
    <2> QED
      BY <1>t, <1>h, <1>d, <2>1, <2>4, <2>5, <2>6 DEF RxRingOK, TestsHold
  <1>2. CASE ReadLocked(c)
    <2>1. call[c].step = "read_locked" /\ call'[c].step = "none"
      BY <1>2 DEF ReadLocked, AtStep, Return, NoCall, TypeOK
    <2>2. rx_fifo.count # 0 /\ "read_rx" \in OpsOf(c)
      BY <2>1 DEF TestsHold
    <2>3. RxRingOK'
      BY <1>2, <2>2, RingDrop, PtxAssumption DEF ReadLocked, TypeOK, RxRingOK
    <2>4. \A d \in Contexts : d # c => call[d].step # "read_locked"
      BY <2>2 DEF TestsHold, OneReader, OpsOf, Contexts
    <2>5. tx_fifo' = tx_fifo /\ popped' = popped
      BY <1>2 DEF ReadLocked, auxiliary
    <2> QED
      BY <1>t, <1>h, <1>d, <2>1, <2>3, <2>4, <2>5 DEF TxRingOK, TestsHold
  <1>3. CASE nrf_esb_flush_tx(c)
    <2>1. TxRingOK' /\ tx_fifo'.count = 0
      BY <1>3, RingReset, PtxAssumption DEF nrf_esb_flush_tx, TypeOK, TxRingOK, Reset, Fifos
    <2>2. rx_fifo' = rx_fifo /\ call' = call
      BY <1>3 DEF nrf_esb_flush_tx
    <2> QED
      BY <1>t, <1>h, <2>1, <2>2, PtxAssumption DEF RxRingOK, TestsHold
  <1>4. CASE nrf_esb_flush_rx(c) \/ nrf_esb_init(c) \/ nrf_esb_disable(c)
    <2>1. RxRingOK'
      BY <1>4, RingReset, PtxAssumption
      DEF nrf_esb_flush_rx, nrf_esb_init, nrf_esb_disable, DisableEffect, TypeOK, RxRingOK
    <2>2. \/ tx_fifo' = tx_fifo /\ popped' = popped
          \/ tx_fifo' = Reset(tx_fifo)
      BY <1>4 DEF nrf_esb_flush_rx, nrf_esb_init, nrf_esb_disable, DisableEffect, auxiliary
    <2>3. /\ TxRingOK'
          /\ \/ tx_fifo'.count = tx_fifo.count /\ popped' = popped
             \/ tx_fifo'.count = 0
      <3>1. RingOK(Reset(tx_fifo), TxFifoSize) /\ Reset(tx_fifo).count = 0
        BY RingReset, PtxAssumption DEF TypeOK, Reset, Fifos
      <3> QED
        BY <2>2, <3>1 DEF TxRingOK
    <2>4. call' = call /\ call[c] = NoCall
      BY <1>4 DEF nrf_esb_flush_rx, nrf_esb_init, nrf_esb_disable, MayCall
    <2>5. OpsOf(c) \cap {"flush_rx", "init", "disable"} # {}
      BY <1>4 DEF nrf_esb_flush_rx, nrf_esb_init, nrf_esb_disable, MayCall, OpsOf
    <2>6. \A d \in Contexts : call[d].step # "read_locked"
      <3>1. SUFFICES ASSUME NEW d \in Contexts, call[d].step = "read_locked" PROVE FALSE
        OBVIOUS
      <3>2. d # c /\ call[d] # NoCall
        BY <2>4, <3>1 DEF NoCall
      <3>3. c = "handler" /\ d = "thread"
        BY <1>r, <3>2, OtherCall
      <3> QED
        BY <2>5, <3>1, <3>3 DEF TestsHold, OneReader, OpsOf
    <2>7. TestsHold'
      BY <2>3, <2>4, <2>6, PtxAssumption DEF TestsHold
    <2> QED
      BY <1>t, <1>h, <2>1, <2>3, <2>7
  <1>5. CASE \/ nrf_esb_write_payload(c) \/ WriteKick(c) \/ nrf_esb_start_tx(c)
             \/ StartTransaction(c) \/ nrf_esb_pop_tx(c) \/ nrf_esb_read_rx_payload(c)
             \/ nrf_esb_set_retransmit_count(c) \/ nrf_esb_reuse_pid(c)
    <2>1. UNCHANGED <<tx_fifo, rx_fifo, popped>>
      BY <1>5 DEF nrf_esb_write_payload, WriteKick, nrf_esb_start_tx, StartTransaction,
                  nrf_esb_pop_tx, nrf_esb_read_rx_payload, nrf_esb_set_retransmit_count,
                  nrf_esb_reuse_pid, driver, auxiliary
    <2>2. /\ call'[c].step = "write_locked" =>
               tx_fifo.count < TxFifoSize /\ "write" \in OpsOf(c)
          /\ call'[c].step = "read_locked" =>
               rx_fifo.count # 0 /\ "read_rx" \in OpsOf(c)
      BY <1>5 DEF nrf_esb_write_payload, WriteKick, nrf_esb_start_tx, StartTransaction,
                  nrf_esb_pop_tx, nrf_esb_read_rx_payload, nrf_esb_set_retransmit_count,
                  nrf_esb_reuse_pid, MayCall, OpsOf, Goto, Return, NoCall, TypeOK, TestsHold
    <2> QED
      BY <1>t, <1>h, <1>d, <2>1, <2>2 DEF TxRingOK, RxRingOK, TestsHold
  <1>6. CASE PopLocked(c)
    <2>1. popped' = TRUE /\ rx_fifo' = rx_fifo /\ call'[c].step = "none"
      BY <1>6 DEF PopLocked, Return, NoCall, TypeOK
    <2> QED
      BY <1>t, <1>h, <1>d, <2>1 DEF TxRingOK, RxRingOK, TestsHold
  <1> QED
    BY <1>1, <1>2, <1>3, <1>4, <1>5, <1>6 DEF Api

LEMMA RingInvariant ==
  ASSUME OneWriter, OneReader
  PROVE  Spec => []RingInv
  <1>1. Init => RingInv
    <2> SUFFICES ASSUME Init PROVE RingInv
      OBVIOUS
    <2>1. \A size \in Nat \ {0} : RingOK(NewFifo(size, ZeroPayload), size)
      <3> TAKE size \in Nat \ {0}
      <3>1. 0 % size = 0
        OBVIOUS
      <3> QED
        BY <3>1 DEF RingOK, NewFifo
    <2>2. TxRingOK /\ RxRingOK
      BY <2>1, PtxAssumption DEF Init, TxRingOK, RxRingOK
    <2>3. TestsHold /\ HandlerInCallback
      BY DEF Init, TestsHold, HandlerInCallback, NoCall, Contexts
    <2> QED
      BY <2>2, <2>3, InitType DEF RingInv
  <1>2. RingInv /\ [Next]_vars => RingInv'
    <2> SUFFICES ASSUME RingInv, [Next]_vars PROVE RingInv'
      OBVIOUS
    <2>1. CASE Radio
      BY <2>1, RadioRings
    <2>2. CASE Event
      BY <2>2, EventRings
    <2>3. ASSUME NEW c \in Contexts, Api(c) PROVE RingInv'
      BY <2>3, ApiRings, OneWriter, OneReader
    <2>4. CASE UNCHANGED vars
      BY <2>4 DEF vars, driver, hardware, auxiliary, RingInv, TypeOK, TxRingOK, RxRingOK,
                  TestsHold, HandlerInCallback
    <2> QED
      BY <2>1, <2>2, <2>3, <2>4 DEF Next
  <1> QED
    BY <1>1, <1>2, PTL DEF Spec

(***************************************************************************)
(* The TX FIFO never overflows and its cursors agree with its count,       *)
(* although nrf_esb_write_payload() tests the count before irq_lock().     *)
(***************************************************************************)
THEOREM TxRingSafe ==
  ASSUME OneWriter, OneReader
  PROVE  Spec => []TxRingOK
  <1>1. RingInv => TxRingOK
    BY DEF RingInv
  <1> QED
    BY <1>1, RingInvariant, PTL

(***************************************************************************)
(* The same for the RX FIFO: its unsigned count never wraps, although      *)
(* nrf_esb_read_rx_payload() tests it before irq_lock().                   *)
(***************************************************************************)
THEOREM RxRingSafe ==
  ASSUME OneWriter, OneReader
  PROVE  Spec => []RxRingOK
  <1>1. RingInv => RxRingOK
    BY DEF RingInv
  <1> QED
    BY <1>1, RingInvariant, PTL

-----------------------------------------------------------------------------
(***************************************************************************)
(* No lost wakeup.  It needs no discipline of the application: whichever   *)
(* context writes or starts, whoever resets the module when, a module that *)
(* becomes idle has an empty queue or has given a packet up, and a payload *)
(* that is queued afterwards comes with a writer that has not looked at    *)
(* esb_state yet.                                                          *)
(***************************************************************************)
WakeupInv == TypeOK /\ NoLostWakeup

\* start_tx_transaction() leaves the idle state.
LEMMA StartLeavesIdle ==
  ASSUME NEW f, start_tx_transaction(f)
  PROVE  NoLostWakeup'
  BY DEF start_tx_transaction, NoLostWakeup

LEMMA RadioWakeup ==
  ASSUME WakeupInv, Radio
  PROVE  NoLostWakeup'
  <1> USE DEF WakeupInv
  <1>c. call' = call /\ popped' = popped
    BY DEF Radio, on_radio_disabled_tx_noack, on_radio_disabled_tx, auxiliary,
           on_radio_disabled_tx_wait_for_ack, AckReceived, AckMissed, RetransmitTimer
  <1>1. CASE on_radio_disabled_tx_noack
    <2>1. tx_fifo'.count = 0 => NoLostWakeup'
      BY DEF NoLostWakeup
    <2> QED
      BY <1>1, <2>1, StartLeavesIdle DEF on_radio_disabled_tx_noack, SendNext
  <1>2. CASE on_radio_disabled_tx
    BY <1>2 DEF on_radio_disabled_tx, NoLostWakeup
  <1>3. ASSUME NEW ack \in Acks, AckReceived(ack) PROVE NoLostWakeup'
    <2>1. tx_fifo'.count = 0 \/ TxMode = "MANUAL" => NoLostWakeup'
      BY DEF NoLostWakeup
    <2> QED
      BY <1>3, <2>1, StartLeavesIdle DEF AckReceived
  <1>4. ASSUME NEW ack \in Acks, AckMissed(ack) PROVE NoLostWakeup'
    <2>1. CASE GiveUp
      <3>1. (0 - 1) % CountMod = CountMod - 1
        BY CountModAssumption
      <3>2. LastFailed'
        BY <1>4, <2>1, <3>1 DEF AckMissed, GiveUp, Decr, LastFailed
      <3> QED
        BY <3>2 DEF NoLostWakeup
    <2>2. CASE Rearm
      BY <2>2 DEF Rearm, RearmAs, NoLostWakeup
    <2> QED
      BY <1>4, <2>1, <2>2 DEF AckMissed
  <1>5. CASE RetransmitTimer
    BY <1>c, <1>5 DEF RetransmitTimer, driver, NoLostWakeup, LastFailed
  <1> QED
    BY <1>1, <1>2, <1>3, <1>4, <1>5 DEF Radio, on_radio_disabled_tx_wait_for_ack

LEMMA ApiWakeup ==
  ASSUME WakeupInv, NEW c \in Contexts, Api(c)
  PROVE  NoLostWakeup'
  <1> USE DEF WakeupInv
  <1>1. CASE WriteLocked(c)
    <2>1. call'[c].step = "write_kick"
      BY <1>1 DEF WriteLocked, Goto, TypeOK
    <2> QED
      BY <2>1 DEF NoLostWakeup
  <1>2. CASE WriteKick(c)
    <2>1. CASE Goto(c, "start")
      <3>1. call'[c].step = "start"
        BY <2>1 DEF Goto, TypeOK
      <3> QED
        BY <3>1 DEF NoLostWakeup
    <2>2. CASE ~(TxMode = "AUTO" /\ esb_state = "IDLE")
      <3>1. esb_state' = esb_state
        BY <1>2 DEF WriteKick, driver
      <3> QED
        BY <2>2, <3>1 DEF NoLostWakeup
    <2> QED
      BY <1>2, <2>1, <2>2 DEF WriteKick
  <1>3. CASE StartTransaction(c)
    BY <1>3, StartLeavesIdle DEF StartTransaction
  <1>4. CASE nrf_esb_flush_tx(c) \/ nrf_esb_init(c) \/ nrf_esb_disable(c)
    <2>1. tx_fifo' = Reset(tx_fifo)
      BY <1>4 DEF nrf_esb_flush_tx, nrf_esb_init, nrf_esb_disable, DisableEffect
    <2>2. tx_fifo'.count = 0
      BY <2>1 DEF Reset, TypeOK, Fifos
    <2> QED
      BY <2>2 DEF NoLostWakeup
  <1>5. CASE \/ nrf_esb_write_payload(c) \/ nrf_esb_start_tx(c) \/ nrf_esb_pop_tx(c)
             \/ nrf_esb_read_rx_payload(c) \/ ReadLocked(c) \/ nrf_esb_flush_rx(c)
             \/ nrf_esb_set_retransmit_count(c) \/ nrf_esb_reuse_pid(c)
    <2>1. UNCHANGED <<esb_state, tx_fifo, retransmits_remaining, popped>>
      BY <1>5 DEF nrf_esb_write_payload, nrf_esb_start_tx, nrf_esb_pop_tx,
                  nrf_esb_read_rx_payload, ReadLocked, nrf_esb_flush_rx,
                  nrf_esb_set_retransmit_count, nrf_esb_reuse_pid, driver, auxiliary
    <2>2. \A d \in Contexts :
            call[d].step \in {"write_kick", "start"} => call'[d] = call[d]
      BY <1>5 DEF nrf_esb_write_payload, nrf_esb_start_tx, nrf_esb_pop_tx,
                  nrf_esb_read_rx_payload, ReadLocked, nrf_esb_flush_rx,
                  nrf_esb_set_retransmit_count, nrf_esb_reuse_pid, MayCall, AtStep, NoCall, Goto, Return, TypeOK
    <2> QED
      BY <2>1, <2>2 DEF NoLostWakeup, LastFailed
  <1>6. CASE PopLocked(c)
    BY <1>6 DEF PopLocked, NoLostWakeup
  <1> QED
    BY <1>1, <1>2, <1>3, <1>4, <1>5, <1>6 DEF Api

(***************************************************************************)
(* In automatic mode no queued payload is forgotten: while the module is   *)
(* idle with a payload in the TX FIFO, a writer is still on its way to     *)
(* start_tx_transaction() or the last packet was given up with TX_FAILED.  *)
(***************************************************************************)
THEOREM NoPayloadForgotten == Spec => []NoLostWakeup
  <1>1. Init => NoLostWakeup
    BY DEF Init, NoLostWakeup, NewFifo
  <1>2. WakeupInv /\ [Next]_vars => NoLostWakeup'
    <2> SUFFICES ASSUME WakeupInv, [Next]_vars PROVE NoLostWakeup'
      OBVIOUS
    <2>1. CASE Radio
      BY <2>1, RadioWakeup
    <2>2. CASE Event \/ UNCHANGED vars
      <3>1. UNCHANGED <<esb_state, tx_fifo, call, retransmits_remaining, popped>>
        BY <2>2 DEF Event, ESB_EVT_IRQHandler, get_and_clear_irqs, event_handler, EvtReturn,
                    driver, auxiliary, vars
      <3> QED
        BY <3>1 DEF WakeupInv, NoLostWakeup, LastFailed
    <2>3. ASSUME NEW c \in Contexts, Api(c) PROVE NoLostWakeup'
      BY <2>3, ApiWakeup
    <2> QED
      BY <2>1, <2>2, <2>3 DEF Next
  <1> QED
    BY <1>1, <1>2, TypeCorrect, PTL DEF Spec, WakeupInv
=============================================================================
