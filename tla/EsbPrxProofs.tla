---------------------------- MODULE EsbPrxProofs ----------------------------
(***************************************************************************)
(* Proofs about the PRX driver of EsbPrx, for every FIFO size, counter     *)
(* width, set of pipes, protocol and application.                          *)
(***************************************************************************)
EXTENDS EsbPrx, EsbFifoProofs, TLAPS

-----------------------------------------------------------------------------
(* Type correctness.                                                       *)

LEMMA ZeroTypes ==
  /\ NoPipe \in Pipes /\ NoData \in Data
  /\ ZeroPacket \in Packets
  /\ ZeroPayload \in AckPayload
  /\ NoCrc \in Crcs
  /\ NoInfos \in [Pipes -> [crc : Crcs, pid : 0 .. PidMax, ack_payload : BOOLEAN]]
  <1>1. NoPipe \in Pipes /\ NoData \in Data
    BY PrxAssumption DEF NoPipe, NoData
  <1>2. 0 \in 0 .. PidMax /\ PidMax + 1 \in 0 .. PidMax + 1
    BY PrxAssumption
  <1>3. NoCrc \in Crcs
    BY <1>1, <1>2 DEF NoCrc, Crcs
  <1> QED
    BY <1>1, <1>2, <1>3 DEF ZeroPacket, Packets, ZeroPayload, AckPayload, NoInfos, NoPipeInfo

LEMMA PacketTypes ==
  ASSUME NEW pkt \in Packets
  PROVE  Crc(pkt) \in Crcs /\ RxPid(pkt) \in 0 .. PidMax
  <1>1. pkt.data \in Data /\ pkt.noack \in BOOLEAN /\ pkt.pid \in 0 .. PidMax
    BY DEF Packets
  <1>2. pkt.pid \in 0 .. PidMax + 1 /\ 0 \in 0 .. PidMax
    BY <1>1, PrxAssumption
  <1> QED
    BY <1>1, <1>2 DEF Crc, Crcs, RxPid

LEMMA InitType == Init => TypeOK
  <1> SUFFICES ASSUME Init PROVE TypeOK
    OBVIOUS
  <1>1. /\ tx_fifo \in Fifos(TxFifoSize, AckPayload)
        /\ rx_fifo \in Fifos(RxFifoSize, Packets)
    BY NewFifoType, ZeroTypes, PrxAssumption DEF Init
  <1>2. tx_payload_buffer \in [pipe : Pipes, payload : AckPayload]
    BY ZeroTypes DEF Init
  <1>3. evt \in [running : BOOLEAN, interrupts : SUBSET Flags, now : Flags \cup {"none"}]
    BY DEF Init
  <1> QED
    BY <1>1, <1>2, <1>3, ZeroTypes DEF Init, TypeOK

\* The ACK queue after on_radio_disabled_rx_dpl(), and what it attaches.
LEMMA AckTypes ==
  ASSUME TypeOK, NEW pkt \in Packets
  PROVE  /\ DplTxFifo(pkt) \in Fifos(TxFifoSize, AckPayload)
         /\ AckContent(pkt) \in AckPayload
  <1>1. DplTxFifo(pkt) \in Fifos(TxFifoSize, AckPayload)
    BY DropFrontType, PrxAssumption DEF TypeOK, DplTxFifo
  <1>2. FrontOf(DplTxFifo(pkt)) \in AckPayload
    BY <1>1, FrontType, PrxAssumption
  <1> QED
    BY <1>1, <1>2, ZeroTypes DEF AckContent

LEMMA ReceiveType ==
  ASSUME TypeOK, NEW pkt \in Packets, on_radio_disabled_rx(pkt)
  PROVE  TypeOK'
  <1>1. pkt.pipe \in Pipes
    BY DEF Packets
  <1>2. rx_pipe_info' \in [Pipes -> [crc : Crcs, pid : 0 .. PidMax, ack_payload : BOOLEAN]]
    <2>1. AckPayloadReady(pkt) \in BOOLEAN
      BY DEF AckPayloadReady
    <2>2. rx_pipe_info[pkt.pipe].ack_payload \in BOOLEAN
      BY <1>1 DEF TypeOK
    <2>3. NewPipeInfo(pkt) \in [crc : Crcs, pid : 0 .. PidMax, ack_payload : BOOLEAN]
      BY <2>1, <2>2, PacketTypes DEF NewPipeInfo
    <2> QED
      BY <2>3 DEF on_radio_disabled_rx, TypeOK
  <1>3. interrupt_flags' \in SUBSET Flags
    BY DEF on_radio_disabled_rx, RaisedFlags, AckPayloadDone, TypeOK, Flags
  <1>4. /\ rx_fifo' \in Fifos(RxFifoSize, Packets)
        /\ stored' \in [Pipes -> Crcs]
        /\ evt_irq' \in BOOLEAN
    <2>1. Push(rx_fifo, RxFifoSize, pkt) \in Fifos(RxFifoSize, Packets)
      BY PushType, PrxAssumption DEF TypeOK
    <2>2. [stored EXCEPT ![pkt.pipe] = Crc(pkt)] \in [Pipes -> Crcs]
      BY PacketTypes DEF TypeOK
    <2> QED
      BY <2>1, <2>2 DEF on_radio_disabled_rx, TypeOK
  <1>5. /\ tx_payload_buffer' \in [pipe : Pipes, payload : AckPayload]
        /\ tx_fifo' \in Fifos(TxFifoSize, AckPayload)
        /\ shorts' \in {"none", "TXEN", "RXEN"}
        /\ radio' \in {"off", "rx", "tx"}
        /\ esb_state' \in {"IDLE", "PRX", "PRX_SEND_ACK"}
        /\ on_radio_disabled' \in {"NULL", "rx", "rx_ack"}
    BY <1>1, AckTypes DEF on_radio_disabled_rx, SendAck, RestartRx, TypeOK
  <1> QED
    BY <1>2, <1>3, <1>4, <1>5 DEF on_radio_disabled_rx, TypeOK

LEMMA EventType == TypeOK /\ Event => TypeOK'
  <1> SUFFICES ASSUME TypeOK, Event PROVE TypeOK'
    OBVIOUS
  <1> USE DEF fifos, hardware, auxiliary
  <1>1. CASE ESB_EVT_IRQHandler
    BY <1>1, ZenonT(40) DEF ESB_EVT_IRQHandler, TypeOK
  <1>2. ASSUME NEW f \in Flags, esb_event_handler(f) PROVE TypeOK'
    BY <1>2, ZenonT(40) DEF esb_event_handler, TypeOK
  <1>3. CASE nrf_esb_read_rx_payload
    <2>1. DropFront(rx_fifo, RxFifoSize) \in Fifos(RxFifoSize, Packets)
      BY DropFrontType, PrxAssumption DEF TypeOK
    <2> QED
      BY <1>3, <2>1 DEF nrf_esb_read_rx_payload, TypeOK
  <1>4. CASE EvtReturn
    BY <1>4 DEF EvtReturn, TypeOK
  <1> QED
    BY <1>1, <1>2, <1>3, <1>4 DEF Event

LEMMA ThreadType == TypeOK /\ Thread => TypeOK'
  <1> SUFFICES ASSUME TypeOK, Thread PROVE TypeOK'
    OBVIOUS
  <1> USE DEF fifos, hardware, auxiliary
  <1>r. /\ Reset(tx_fifo) \in Fifos(TxFifoSize, AckPayload)
        /\ Reset(rx_fifo) \in Fifos(RxFifoSize, Packets)
    BY ResetType, PrxAssumption DEF TypeOK
  <1>1. CASE nrf_esb_start_rx
    BY <1>1 DEF nrf_esb_start_rx, TypeOK
  <1>2. CASE nrf_esb_stop_rx
    BY <1>2 DEF nrf_esb_stop_rx, TypeOK
  <1>3. CASE StopDisable
    BY <1>3 DEF StopDisable, TypeOK
  <1>4. CASE nrf_esb_write_payload
    BY <1>4 DEF nrf_esb_write_payload, TypeOK
  <1>5. CASE Write
    <2>1. PICK d \in Data \ TooLong, p \in Pipes :
            WriteLocked([id |-> nextId, data |-> d, pipe |-> p])
      BY <1>5 DEF Write
    <2>2. [id |-> nextId, data |-> d, pipe |-> p] \in AckPayload
      BY DEF AckPayload, TypeOK
    <2>3. tx_fifo' \in Fifos(TxFifoSize, AckPayload)
      BY <2>1, <2>2, PushType, PrxAssumption DEF WriteLocked, TypeOK
    <2> QED
      BY <2>1, <2>3 DEF WriteLocked, TypeOK
  <1>6. CASE nrf_esb_flush_tx
    BY <1>6, <1>r DEF nrf_esb_flush_tx, TypeOK
  <1>7. CASE nrf_esb_flush_rx
    BY <1>7, <1>r, ZeroTypes DEF nrf_esb_flush_rx, TypeOK
  <1>8. CASE nrf_esb_init
    BY <1>8, <1>r, ZeroTypes DEF nrf_esb_init, TypeOK
  <1> QED
    BY <1>1, <1>2, <1>3, <1>4, <1>5, <1>6, <1>7, <1>8 DEF Thread

LEMMA NextType == TypeOK /\ [Next]_vars => TypeOK'
  <1> SUFFICES ASSUME TypeOK, [Next]_vars PROVE TypeOK'
    OBVIOUS
  <1>1. ASSUME NEW pkt \in OnAir, on_radio_disabled_rx(pkt) PROVE TypeOK'
    BY <1>1, ReceiveType DEF OnAir
  <1>2. CASE on_radio_disabled_rx_ack
    BY <1>2 DEF on_radio_disabled_rx_ack, TypeOK, fifos, auxiliary
  <1>3. CASE Event
    BY <1>3, EventType
  <1>4. CASE Thread
    BY <1>4, ThreadType
  <1>5. CASE UNCHANGED vars
    BY <1>5 DEF vars, fifos, hardware, auxiliary, TypeOK
  <1> QED
    BY <1>1, <1>2, <1>3, <1>4, <1>5 DEF Next

(***************************************************************************)
(* Type correctness: cursors stay inside their rings, counters inside      *)
(* their width, and the installed handler is one the driver knows,         *)
(* whatever is received and whatever the application calls.                *)
(***************************************************************************)
THEOREM TypeCorrect == Spec => []TypeOK
  BY InitType, NextType, PTL DEF Spec

-----------------------------------------------------------------------------
(***************************************************************************)
(* The radio.  StateMatchesRadio is inductive beside the types: a radio    *)
(* handler runs only while intenset is set, which IDLE excludes, and the   *)
(* handler that is installed says which of the two other states it is.     *)
(***************************************************************************)
LEMMA RadioStep ==
  TypeOK /\ StateMatchesRadio /\ [Next]_vars => StateMatchesRadio'
  <1> SUFFICES ASSUME TypeOK, StateMatchesRadio, [Next]_vars PROVE StateMatchesRadio'
    OBVIOUS
  <1> USE DEF fifos, hardware, auxiliary
  <1>1. ASSUME NEW pkt \in OnAir, on_radio_disabled_rx(pkt) PROVE StateMatchesRadio'
    <2>1. esb_state = "PRX"
      BY <1>1 DEF on_radio_disabled_rx, RadioInterrupt, StateMatchesRadio, TypeOK
    <2> QED
      BY <1>1, <2>1
      DEF on_radio_disabled_rx, RadioInterrupt, SendAck, RestartRx, StateMatchesRadio
  <1>2. CASE on_radio_disabled_rx_ack
    BY <1>2 DEF on_radio_disabled_rx_ack, RadioInterrupt, StateMatchesRadio
  <1>3. CASE Event
    <2>1. UNCHANGED <<esb_state, on_radio_disabled, intenset, radio>>
      BY <1>3 DEF Event, ESB_EVT_IRQHandler, esb_event_handler, nrf_esb_read_rx_payload,
                  EvtReturn
    <2> QED
      BY <2>1 DEF StateMatchesRadio
  <1>4. CASE nrf_esb_start_rx \/ StopDisable
    BY <1>4 DEF nrf_esb_start_rx, StopDisable, StateMatchesRadio
  <1>5. CASE \/ nrf_esb_stop_rx \/ nrf_esb_write_payload \/ Write
             \/ nrf_esb_flush_tx \/ nrf_esb_flush_rx \/ nrf_esb_init
    <2>1. UNCHANGED <<esb_state, on_radio_disabled, intenset, radio>>
      BY <1>5 DEF nrf_esb_stop_rx, nrf_esb_write_payload, Write, WriteLocked,
                  nrf_esb_flush_tx, nrf_esb_flush_rx, nrf_esb_init
    <2> QED
      BY <2>1 DEF StateMatchesRadio
  <1>6. CASE UNCHANGED vars
    BY <1>6 DEF vars, StateMatchesRadio
  <1> QED
    BY <1>1, <1>2, <1>3, <1>4, <1>5, <1>6 DEF Next, Thread

(***************************************************************************)
(* esb_state, the radio and the installed handler agree, whenever the      *)
(* application starts and stops the receiver and whatever interrupts it.   *)
(***************************************************************************)
THEOREM StateAgreesWithRadio == Spec => []StateMatchesRadio
  <1>1. Init => StateMatchesRadio
    BY DEF Init, StateMatchesRadio
  <1> QED
    BY <1>1, RadioStep, TypeCorrect, PTL DEF Spec

-----------------------------------------------------------------------------
(***************************************************************************)
(* Duplicate detection.  The record of a pipe changes in three places:     *)
(* with a packet that is pushed in the same interrupt, with one whose      *)
(* length is refused there, and with a retransmitted one, whose CRC is the *)
(* recorded one.                                                           *)
(***************************************************************************)
LEMMA RecordStep ==
  TypeOK /\ RecordedIsStored /\ [Next]_vars => RecordedIsStored'
  <1> SUFFICES ASSUME TypeOK, RecordedIsStored, [Next]_vars PROVE RecordedIsStored'
    OBVIOUS
  <1> USE DEF fifos, hardware, auxiliary
  <1>1. ASSUME NEW pkt \in OnAir, on_radio_disabled_rx(pkt) PROVE RecordedIsStored'
    <2>1. pkt.pipe \in Pipes
      BY DEF OnAir, Packets
    <2>2. \A p \in Pipes :
            rx_pipe_info'[p].crc = IF p = pkt.pipe THEN Crc(pkt) ELSE rx_pipe_info[p].crc
      BY <1>1, <2>1 DEF on_radio_disabled_rx, NewPipeInfo, TypeOK
    <2>3. CASE IsRetransmit(pkt)
      <3>1. stored' = stored /\ rx_pipe_info[pkt.pipe].crc = Crc(pkt)
        BY <1>1, <2>3 DEF on_radio_disabled_rx, IsRetransmit, Stores
      <3> QED
        BY <2>1, <2>2, <3>1 DEF RecordedIsStored
    <2>4. CASE Stores(pkt)
      <3>1. \A p \in Pipes : stored'[p] = IF p = pkt.pipe THEN Crc(pkt) ELSE stored[p]
        BY <1>1, <2>1, <2>4 DEF on_radio_disabled_rx, TypeOK
      <3> QED
        BY <2>2, <3>1 DEF RecordedIsStored
    <2>5. CASE Refused(pkt)
      <3>1. Protocol = "ESB_DPL" /\ Crc(pkt).data \in TooLong
        BY <2>5 DEF Refused, Crc
      <3>2. \A p \in Pipes : p # pkt.pipe => stored'[p] = stored[p]
        BY <1>1, <2>1 DEF on_radio_disabled_rx, TypeOK
      <3> QED
        BY <2>2, <3>1, <3>2 DEF RecordedIsStored
    <2> QED
      BY <2>3, <2>4, <2>5 DEF Stores
  <1>2. CASE nrf_esb_flush_rx \/ nrf_esb_init
    BY <1>2 DEF nrf_esb_flush_rx, nrf_esb_init, NoInfos, NoPipeInfo, RecordedIsStored
  <1>3. CASE \/ on_radio_disabled_rx_ack \/ Event
             \/ nrf_esb_start_rx \/ nrf_esb_stop_rx \/ StopDisable
             \/ nrf_esb_write_payload \/ Write \/ nrf_esb_flush_tx
             \/ UNCHANGED vars
    <2>1. UNCHANGED <<rx_pipe_info, stored>>
      BY <1>3 DEF on_radio_disabled_rx_ack, Event, ESB_EVT_IRQHandler, esb_event_handler,
                  nrf_esb_read_rx_payload, EvtReturn, nrf_esb_start_rx,
                  nrf_esb_stop_rx, StopDisable, nrf_esb_write_payload, Write, WriteLocked,
                  nrf_esb_flush_tx, vars
    <2> QED
      BY <2>1 DEF RecordedIsStored
  <1> QED
    BY <1>1, <1>2, <1>3 DEF Next, Thread

(***************************************************************************)
(* What on_radio_disabled_rx() remembers as received it has stored, with   *)
(* any number of pipes, protocol and RX FIFO size, but for a packet longer *)
(* than the receiver's maximum: no other packet is acknowledged as a       *)
(* duplicate of one that was dropped.                                      *)
(***************************************************************************)
THEOREM RecordedOnlyIfStored == Spec => []RecordedIsStored
  <1>1. Init => RecordedIsStored
    BY DEF Init, NoInfos, NoPipeInfo, RecordedIsStored
  <1> QED
    BY <1>1, RecordStep, TypeCorrect, PTL DEF Spec

-----------------------------------------------------------------------------
(***************************************************************************)
(* The rings.  nrf_esb_write_payload() tests the count before irq_lock(),  *)
(* and the radio interrupt takes payloads off the TX FIFO meanwhile: the   *)
(* room the thread saw is still there because only the thread writes.      *)
(***************************************************************************)
RoomHolds == call = "write_locked" => tx_fifo.count < TxFifoSize

RingsOK == RingOK(tx_fifo, TxFifoSize) /\ RingOK(rx_fifo, RxFifoSize)

LEMMA RingStep ==
  TypeOK /\ RingsOK /\ RoomHolds /\ [Next]_vars => RingsOK' /\ RoomHolds'
  <1> SUFFICES ASSUME TypeOK, RingsOK, RoomHolds, [Next]_vars
               PROVE  RingsOK' /\ RoomHolds'
    OBVIOUS
  <1> USE DEF fifos, hardware, auxiliary
  <1>r. /\ RingOK(Reset(tx_fifo), TxFifoSize) /\ Reset(tx_fifo).count = 0
        /\ RingOK(Reset(rx_fifo), RxFifoSize)
    <2>1. Reset(tx_fifo).count = 0
      BY DEF Reset, TypeOK, Fifos
    <2> QED
      BY <2>1, RingReset, PrxAssumption DEF TypeOK
  <1>n. tx_fifo.count \in 0 .. CountMod - 1 /\ rx_fifo.count \in 0 .. CountMod - 1
    BY DEF TypeOK, Fifos
  <1>1. ASSUME NEW pkt \in OnAir, on_radio_disabled_rx(pkt) PROVE RingsOK' /\ RoomHolds'
    <2>1. RingOK(rx_fifo', RxFifoSize)
      <3>1. RingOK(Push(rx_fifo, RxFifoSize, pkt), RxFifoSize)
        BY <1>1, RingPush, PrxAssumption DEF on_radio_disabled_rx, RingsOK, TypeOK
      <3> QED
        BY <1>1, <3>1 DEF on_radio_disabled_rx, RingsOK
    <2>2. \/ tx_fifo' = tx_fifo
          \/ tx_fifo.count > 0 /\ tx_fifo' = DropFront(tx_fifo, TxFifoSize)
      BY <1>1 DEF on_radio_disabled_rx, SendAck, RestartRx, DplTxFifo, PreviousAckArrived,
                  AckPayloadReady
    <2>3. RingOK(tx_fifo', TxFifoSize) /\ tx_fifo'.count <= tx_fifo.count
      <3>1. CASE tx_fifo' = tx_fifo
        BY <1>n, <3>1 DEF RingsOK
      <3>2. CASE tx_fifo.count > 0 /\ tx_fifo' = DropFront(tx_fifo, TxFifoSize)
        <4>1. tx_fifo.count # 0
          BY <1>n, <3>2
        <4>2. RingOK(DropFront(tx_fifo, TxFifoSize), TxFifoSize)
          BY <4>1, RingDrop, PrxAssumption DEF RingsOK, TypeOK
        <4>3. tx_fifo'.count = tx_fifo.count - 1
          BY <1>n, <3>2, <4>1, DecrPositive DEF DropFront, TypeOK, Fifos
        <4> QED
          BY <1>n, <3>2, <4>2, <4>3
      <3> QED
        BY <2>2, <3>1, <3>2
    <2>4. tx_fifo'.count \in Nat /\ call' = call
      <3>1. TypeOK'
        BY <1>1, ReceiveType DEF OnAir
      <3> QED
        BY <1>1, <3>1, CountModAssumption DEF on_radio_disabled_rx, TypeOK, Fifos
    <2>5. RoomHolds'
      BY <1>n, <2>3, <2>4, PrxAssumption DEF RoomHolds
    <2> QED
      BY <2>1, <2>3, <2>5 DEF RingsOK
  <1>2. CASE nrf_esb_read_rx_payload
    <2>1. rx_fifo.count # 0 => RingOK(DropFront(rx_fifo, RxFifoSize), RxFifoSize)
      BY RingDrop, PrxAssumption DEF RingsOK, TypeOK
    <2> QED
      BY <1>2, <2>1 DEF nrf_esb_read_rx_payload, RingsOK, RoomHolds
  <1>3. CASE Write
    <2>1. PICK p : WriteLocked(p)
      BY <1>3 DEF Write
    <2>2. tx_fifo.count < TxFifoSize
      BY <2>1 DEF WriteLocked, RoomHolds
    <2>3. RingOK(Push(tx_fifo, TxFifoSize, p), TxFifoSize)
      BY <2>2, RingPush, PrxAssumption DEF RingsOK, TypeOK
    <2> QED
      BY <2>1, <2>3 DEF WriteLocked, RingsOK, RoomHolds
  <1>4. CASE nrf_esb_flush_tx \/ nrf_esb_flush_rx \/ nrf_esb_init
    BY <1>4, <1>r DEF nrf_esb_flush_tx, nrf_esb_flush_rx, nrf_esb_init, MayCall, RingsOK,
                      RoomHolds
  <1>5. CASE nrf_esb_write_payload
    BY <1>5 DEF nrf_esb_write_payload, RingsOK, RoomHolds
  <1>6. CASE \/ on_radio_disabled_rx_ack \/ ESB_EVT_IRQHandler
             \/ \E f \in Flags : esb_event_handler(f)
             \/ EvtReturn \/ nrf_esb_start_rx \/ nrf_esb_stop_rx
             \/ StopDisable \/ UNCHANGED vars
    <2>1. /\ UNCHANGED <<tx_fifo, rx_fifo>>
          /\ call' = call \/ call' = "none" \/ call' = "stop_shorts"
      BY <1>6 DEF on_radio_disabled_rx_ack, ESB_EVT_IRQHandler, esb_event_handler,
                  EvtReturn, nrf_esb_start_rx, nrf_esb_stop_rx, StopDisable, vars
    <2> QED
      BY <2>1 DEF RingsOK, RoomHolds
  <1> QED
    BY <1>1, <1>2, <1>3, <1>4, <1>5, <1>6 DEF Next, Thread, Event

(***************************************************************************)
(* Neither ring of the receiver overflows and no counter wraps, however    *)
(* the radio interrupt, the software interrupt and the thread interleave.  *)
(***************************************************************************)
THEOREM RingsSafe == Spec => []RingsOK
  <1>1. Init => RingsOK /\ RoomHolds
    <2>1. /\ RingOK(NewFifo(TxFifoSize, ZeroPayload), TxFifoSize)
          /\ RingOK(NewFifo(RxFifoSize, ZeroPacket), RxFifoSize)
      BY NewFifoType, ZeroTypes, PrxAssumption
    <2> QED
      BY <2>1 DEF Init, RingsOK, RoomHolds
  <1> QED
    BY <1>1, RingStep, TypeCorrect, PTL DEF Spec
=============================================================================
