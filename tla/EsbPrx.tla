------------------------------- MODULE EsbPrx -------------------------------
(***************************************************************************)
(* A primary receiver (PRX): nrf_esb.c configured with NRF_ESB_MODE_PRX,   *)
(* under an application that queues ACK payloads from its thread and, as   *)
(* samples/esb/prx does, reads one payload for each event.                 *)
(*                                                                         *)
(* shorts is the DISABLED shortcut of NRF_RADIO->SHORTS: what the radio    *)
(* starts by itself after DISABLED.  The radio is "off", in "rx" (a packet *)
(* ends it with DISABLED) or in "tx" (sending the ACK).                    *)
(***************************************************************************)
EXTENDS EsbFifo, FiniteSets

CONSTANTS
  Pipes,             \* CONFIG_NRF_ESB_PIPE_COUNT pipes
  TxFifoSize,        \* CONFIG_NRF_ESB_TX_FIFO_SIZE
  RxFifoSize,        \* CONFIG_NRF_ESB_RX_FIFO_SIZE
  PidMax,            \* PID_MAX
  Protocol,          \* esb_cfg.protocol
  SelectiveAutoAck,  \* esb_cfg.selective_auto_ack
  Data,              \* payload contents
  TooLong,           \* contents over CONFIG_NRF_ESB_MAX_PAYLOAD_LENGTH
  ThreadOps,         \* API functions the application's thread calls
  NoAcks,            \* the noack flags of received packets
  MaxId              \* bound: ACK payloads written in a behaviour

Ops == {"write", "flush_tx", "flush_rx", "stop_rx", "init"}

ASSUME PrxAssumption ==
  /\ TxFifoSize \in Nat \ {0}
  /\ RxFifoSize \in Nat \ {0}
  /\ TxFifoSize < CountMod /\ RxFifoSize < CountMod
  /\ PidMax \in Nat
  /\ Protocol \in {"ESB", "ESB_DPL"}
  /\ SelectiveAutoAck \in BOOLEAN
  /\ NoAcks \subseteq BOOLEAN
  /\ TooLong \subseteq Data
  /\ ThreadOps \subseteq Ops
  /\ MaxId \in Nat
  /\ Pipes # {} /\ Data # {}

VARIABLES
  esb_state,
  tx_fifo,
  rx_fifo,
  rx_pipe_info,
  interrupt_flags,
  tx_payload_buffer,   \* the ACK being sent: [pipe, payload], payload 0 if empty
  on_radio_disabled,
  shorts,
  intenset,            \* RADIO_INTENSET_DISABLED is set
  radio,
  evt_irq,             \* the software interrupt is pending
  evt,                 \* ESB_EVT_IRQHandler: program counter and locals
  call,                \* the API call the thread is in
  nextId,              \* auxiliary: identity of the next ACK payload
  stored               \* auxiliary: CRC of the last packet stored, per pipe

fifos == <<tx_fifo, rx_fifo>>
hardware == <<shorts, intenset, radio>>
auxiliary == <<nextId, stored>>
vars == <<esb_state, fifos, rx_pipe_info, interrupt_flags, tx_payload_buffer,
          on_radio_disabled, hardware, evt_irq, evt, call, auxiliary>>

Flags == {"TX_SUCCESS", "RX_RECEIVED"}

NoPipe == CHOOSE p \in Pipes : TRUE
NoData == CHOOSE d \in Data : TRUE

\* An on-air packet, and a queued payload: an ACK payload has an identity.
Packets == [data : Data, pipe : Pipes, noack : BOOLEAN, pid : 0 .. PidMax]
AckPayload == [id : Nat, data : Data, pipe : Pipes]
ZeroPacket == [data |-> NoData, pipe |-> NoPipe, noack |-> FALSE, pid |-> 0]
ZeroPayload == [id |-> 0, data |-> NoData, pipe |-> NoPipe]

(***************************************************************************)
(* NRF_RADIO->RXCRC covers everything in the packet; two packets of a pipe *)
(* have the same CRC exactly when they are equal (collisions are left out) *)
(* and none has the CRC 0 that memset() puts in rx_pipe_info.              *)
(***************************************************************************)
NoCrc == [data |-> NoData, pid |-> PidMax + 1, noack |-> FALSE]
Crc(pkt) == [data |-> pkt.data, pid |-> pkt.pid, noack |-> pkt.noack]
Crcs == [data : Data, pid : 0 .. PidMax + 1, noack : BOOLEAN]

NoPipeInfo == [crc |-> NoCrc, pid |-> 0, ack_payload |-> FALSE]
NoInfos == [p \in Pipes |-> NoPipeInfo]

\* rx_payload_buffer[1] >> 1: the legacy format keeps the PID in byte 0.
RxPid(pkt) == IF Protocol = "ESB_DPL" THEN pkt.pid ELSE 0

TypeOK ==
  /\ esb_state \in {"IDLE", "PRX", "PRX_SEND_ACK"}
  /\ tx_fifo \in Fifos(TxFifoSize, AckPayload)
  /\ rx_fifo \in Fifos(RxFifoSize, Packets)
  /\ rx_pipe_info \in
       [Pipes -> [crc : Crcs, pid : 0 .. PidMax, ack_payload : BOOLEAN]]
  /\ interrupt_flags \in SUBSET Flags
  /\ tx_payload_buffer \in [pipe : Pipes, payload : AckPayload]
  /\ on_radio_disabled \in {"NULL", "rx", "rx_ack"}
  /\ shorts \in {"none", "TXEN", "RXEN"}
  /\ intenset \in BOOLEAN
  /\ radio \in {"off", "rx", "tx"}
  /\ evt_irq \in BOOLEAN
  /\ evt \in [running : BOOLEAN, interrupts : SUBSET Flags, now : Flags \cup {"none"}]
  /\ call \in {"none", "write_locked", "stop_shorts"}
  /\ nextId \in Nat
  /\ stored \in [Pipes -> Crcs]

Init ==
  /\ esb_state = "IDLE"
  /\ tx_fifo = NewFifo(TxFifoSize, ZeroPayload)
  /\ rx_fifo = NewFifo(RxFifoSize, ZeroPacket)
  /\ rx_pipe_info = NoInfos
  /\ interrupt_flags = {}
  /\ tx_payload_buffer = [pipe |-> NoPipe, payload |-> ZeroPayload]
  /\ on_radio_disabled = "NULL"
  /\ shorts = "none"
  /\ intenset = FALSE
  /\ radio = "off"
  /\ evt_irq = FALSE
  /\ evt = [running |-> FALSE, interrupts |-> {}, now |-> "none"]
  /\ call = "none"
  /\ nextId = 1
  /\ stored = [p \in Pipes |-> NoCrc]

-----------------------------------------------------------------------------
(* The radio interrupt.                                                    *)

NeedsAck(pkt) == ~SelectiveAutoAck \/ (Protocol = "ESB_DPL" /\ ~pkt.noack)

\* Mutant of IsRetransmit: the CRC is not compared.
SamePid(pkt) == rx_pipe_info[pkt.pipe].pid = RxPid(pkt)

IsRetransmit(pkt) ==
  LET info == rx_pipe_info[pkt.pipe]
  IN info.crc = Crc(pkt) /\ info.pid = RxPid(pkt)

\* An ACK payload waits at the front for the pipe the packet came from.
AckPayloadReady(pkt) == tx_fifo.count > 0 /\ FrontOf(tx_fifo).pipe = pkt.pipe

(***************************************************************************)
(* on_radio_disabled_rx_dpl(): the ACK payload sent with the previous ACK  *)
(* of this pipe is dropped when a new packet arrives, and the front slot   *)
(* is attached to this ACK.                                                *)
(***************************************************************************)
PreviousAckArrived(pkt) ==
  /\ AckPayloadReady(pkt)
  /\ rx_pipe_info[pkt.pipe].ack_payload
  /\ ~IsRetransmit(pkt)

DplTxFifo(pkt) ==
  IF PreviousAckArrived(pkt) THEN DropFront(tx_fifo, TxFifoSize) ELSE tx_fifo

AckContent(pkt) ==
  IF Protocol = "ESB_DPL" /\ AckPayloadReady(pkt)
  THEN FrontOf(DplTxFifo(pkt))
  ELSE ZeroPayload

\* pipe_info->pid and ->crc are written for every accepted packet,
\* ->ack_payload only where an ACK is prepared.
NewPipeInfo(pkt) ==
  [crc |-> Crc(pkt),
   pid |-> RxPid(pkt),
   ack_payload |-> IF NeedsAck(pkt) /\ Protocol = "ESB_DPL"
                   THEN AckPayloadReady(pkt)
                   ELSE rx_pipe_info[pkt.pipe].ack_payload]

SendAck(pkt) ==
  /\ tx_payload_buffer' = [pipe |-> pkt.pipe, payload |-> AckContent(pkt)]
  /\ IF Protocol = "ESB_DPL" /\ PreviousAckArrived(pkt)
     THEN tx_fifo' = DplTxFifo(pkt)
     ELSE UNCHANGED tx_fifo
  /\ shorts' = "RXEN"
  /\ radio' = "tx"
  /\ esb_state' = "PRX_SEND_ACK"
  /\ on_radio_disabled' = "rx_ack"

\* clear_events_restart_rx(): no ACK, straight back to receiving.
RestartRx ==
  /\ shorts' = "TXEN"
  /\ radio' = "rx"
  /\ UNCHANGED <<tx_payload_buffer, tx_fifo, esb_state, on_radio_disabled>>

\* What rx_fifo_push_rfbuf() refuses for its length; that the FIFO has room
\* has been tested before.
Refused(pkt) == Protocol = "ESB_DPL" /\ pkt.data \in TooLong

\* The packet is new and goes into the RX FIFO.
Stores(pkt) == ~IsRetransmit(pkt) /\ ~Refused(pkt)

AckPayloadDone(pkt) ==
  IF NeedsAck(pkt) /\ Protocol = "ESB_DPL" /\ PreviousAckArrived(pkt)
  THEN {"TX_SUCCESS"} ELSE {}

\* Mutant of RaisedFlags: the event announces that the FIFO is no longer empty.
RaisedWhenEmpty(pkt) ==
  AckPayloadDone(pkt) \cup
    (IF Stores(pkt) /\ rx_fifo.count = 0 THEN {"RX_RECEIVED"} ELSE {})

RaisedFlags(pkt) ==
  AckPayloadDone(pkt) \cup (IF Stores(pkt) THEN {"RX_RECEIVED"} ELSE {})

RadioInterrupt(h) == intenset /\ on_radio_disabled = h

(***************************************************************************)
(* on_radio_disabled_rx() for a packet with a good CRC.  A bad CRC or a    *)
(* full RX FIFO restarts the receiver and changes nothing else.  PID and   *)
(* CRC are recorded, and the ACK is sent, before rx_fifo_push_rfbuf() may  *)
(* refuse the packet.  The interrupt flags are raised at once, the         *)
(* software interrupt is requested only with RX_RECEIVED.                  *)
(***************************************************************************)
on_radio_disabled_rx(pkt) ==
  /\ RadioInterrupt("rx")
  /\ radio = "rx"
  /\ rx_fifo.count < RxFifoSize
  /\ rx_pipe_info' = [rx_pipe_info EXCEPT ![pkt.pipe] = NewPipeInfo(pkt)]
  /\ interrupt_flags' = interrupt_flags \cup RaisedFlags(pkt)
  /\ \/ NeedsAck(pkt) /\ SendAck(pkt)
     \/ ~NeedsAck(pkt) /\ RestartRx
  /\ \/ /\ Stores(pkt)
        /\ rx_fifo' = Push(rx_fifo, RxFifoSize, pkt)
        /\ stored' = [stored EXCEPT ![pkt.pipe] = Crc(pkt)]
        /\ evt_irq' = TRUE
     \/ /\ ~Stores(pkt)
        /\ UNCHANGED <<rx_fifo, stored, evt_irq>>
  /\ UNCHANGED <<intenset, evt, call, nextId>>

on_radio_disabled_rx_ack ==
  /\ RadioInterrupt("rx_ack")
  /\ radio = "tx"
  /\ radio' = IF shorts = "RXEN" THEN "rx" ELSE "off"
  /\ shorts' = "TXEN"
  /\ on_radio_disabled' = "rx"
  /\ esb_state' = "PRX"
  /\ UNCHANGED <<fifos, rx_pipe_info, interrupt_flags, tx_payload_buffer,
                 intenset, evt_irq, evt, call, auxiliary>>

-----------------------------------------------------------------------------
(* The software interrupt and the application's event handler.             *)

ESB_EVT_IRQHandler ==
  /\ ~evt.running
  /\ evt_irq
  /\ evt_irq' = FALSE
  /\ evt' = [running |-> TRUE, interrupts |-> interrupt_flags, now |-> "none"]
  /\ interrupt_flags' = {}
  /\ UNCHANGED <<esb_state, fifos, rx_pipe_info, tx_payload_buffer,
                 on_radio_disabled, hardware, call, auxiliary>>

\* The handler of TX_SUCCESS does nothing but log.
esb_event_handler(f) ==
  /\ evt.running /\ evt.now = "none"
  /\ f \in evt.interrupts
  /\ f = "RX_RECEIVED" => "TX_SUCCESS" \notin evt.interrupts
  /\ evt' = [evt EXCEPT !.interrupts = @ \ {f},
                        !.now = IF f = "RX_RECEIVED" THEN f ELSE "none"]
  /\ UNCHANGED <<esb_state, fifos, rx_pipe_info, interrupt_flags, tx_payload_buffer,
                 on_radio_disabled, hardware, evt_irq, call, auxiliary>>

\* nrf_esb_read_rx_payload() in the handler, which only the radio preempts: one
\* payload for each event, if there is one.
nrf_esb_read_rx_payload ==
  /\ evt.now = "RX_RECEIVED"
  /\ rx_fifo' = IF rx_fifo.count = 0 THEN rx_fifo ELSE DropFront(rx_fifo, RxFifoSize)
  /\ evt' = [evt EXCEPT !.now = "none"]
  /\ UNCHANGED <<esb_state, tx_fifo, rx_pipe_info, interrupt_flags, tx_payload_buffer,
                 on_radio_disabled, hardware, evt_irq, call, auxiliary>>

EvtReturn ==
  /\ evt.running /\ evt.now = "none"
  /\ evt.interrupts = {}
  /\ evt' = [evt EXCEPT !.running = FALSE]
  /\ UNCHANGED <<esb_state, fifos, rx_pipe_info, interrupt_flags, tx_payload_buffer,
                 on_radio_disabled, hardware, evt_irq, call, auxiliary>>

-----------------------------------------------------------------------------
(* The thread.                                                             *)

ThreadRuns == ~evt.running /\ ~evt_irq

MayCall(op) == ThreadRuns /\ call = "none" /\ op \in ThreadOps

nrf_esb_start_rx ==
  /\ ThreadRuns /\ call = "none"
  /\ esb_state = "IDLE"
  /\ on_radio_disabled' = "rx"
  /\ shorts' = "TXEN"
  /\ intenset' = TRUE
  /\ radio' = "rx"
  /\ esb_state' = "PRX"
  /\ UNCHANGED <<fifos, rx_pipe_info, interrupt_flags, tx_payload_buffer,
                 evt_irq, evt, call, auxiliary>>

\* nrf_esb_stop_rx() up to SHORTS = 0, and from there to its return.
nrf_esb_stop_rx ==
  /\ MayCall("stop_rx")
  /\ esb_state \in {"PRX", "PRX_SEND_ACK"}
  /\ shorts' = "none"
  /\ call' = "stop_shorts"
  /\ UNCHANGED <<esb_state, fifos, rx_pipe_info, interrupt_flags, tx_payload_buffer,
                 on_radio_disabled, intenset, radio, evt_irq, evt, auxiliary>>

\* Mutant of StopDisable: the radio interrupt stays enabled.
StopKeepsInterrupt ==
  /\ ThreadRuns /\ call = "stop_shorts"
  /\ on_radio_disabled' = "NULL"
  /\ radio' = "off"
  /\ esb_state' = "IDLE"
  /\ call' = "none"
  /\ UNCHANGED <<fifos, rx_pipe_info, interrupt_flags, tx_payload_buffer, shorts,
                 intenset, evt_irq, evt, auxiliary>>

StopDisable ==
  /\ ThreadRuns /\ call = "stop_shorts"
  /\ intenset' = FALSE
  /\ on_radio_disabled' = "NULL"
  /\ radio' = CASE shorts = "RXEN" -> "rx"
                [] shorts = "TXEN" -> "tx"
                [] OTHER -> "off"
  /\ esb_state' = "IDLE"
  /\ call' = "none"
  /\ UNCHANGED <<fifos, rx_pipe_info, interrupt_flags, tx_payload_buffer, shorts,
                 evt_irq, evt, auxiliary>>

\* The PRX never starts a transaction: writing only queues the payload.
nrf_esb_write_payload ==
  /\ MayCall("write")
  /\ tx_fifo.count < TxFifoSize
  /\ nextId <= MaxId
  /\ call' = "write_locked"
  /\ UNCHANGED <<esb_state, fifos, rx_pipe_info, interrupt_flags, tx_payload_buffer,
                 on_radio_disabled, hardware, evt_irq, evt, auxiliary>>

WriteLocked(p) ==
  /\ ThreadRuns /\ call = "write_locked"
  /\ tx_fifo' = Push(tx_fifo, TxFifoSize, p)
  /\ nextId' = nextId + 1
  /\ call' = "none"
  /\ UNCHANGED <<esb_state, rx_fifo, rx_pipe_info, interrupt_flags, tx_payload_buffer,
                 on_radio_disabled, hardware, evt_irq, evt, stored>>

nrf_esb_flush_tx ==
  /\ MayCall("flush_tx")
  /\ tx_fifo' = Reset(tx_fifo)
  /\ UNCHANGED <<esb_state, rx_fifo, rx_pipe_info, interrupt_flags, tx_payload_buffer,
                 on_radio_disabled, hardware, evt_irq, evt, call, auxiliary>>

nrf_esb_flush_rx ==
  /\ MayCall("flush_rx")
  /\ rx_fifo' = Reset(rx_fifo)
  /\ rx_pipe_info' = NoInfos
  /\ stored' = [p \in Pipes |-> NoCrc]
  /\ UNCHANGED <<esb_state, tx_fifo, interrupt_flags, tx_payload_buffer,
                 on_radio_disabled, hardware, evt_irq, evt, call, nextId>>

\* nrf_esb_init() again, after nrf_esb_stop_rx(): queues and pipes start over.
nrf_esb_init ==
  /\ MayCall("init")
  /\ esb_state = "IDLE"
  /\ tx_fifo' = Reset(tx_fifo)
  /\ rx_fifo' = Reset(rx_fifo)
  /\ rx_pipe_info' = NoInfos
  /\ stored' = [p \in Pipes |-> NoCrc]
  /\ interrupt_flags' = {}
  /\ shorts' = "none"
  /\ UNCHANGED <<esb_state, tx_payload_buffer, on_radio_disabled, intenset, radio,
                 evt_irq, evt, call, nextId>>

-----------------------------------------------------------------------------
Event ==
  \/ ESB_EVT_IRQHandler
  \/ \E f \in Flags : esb_event_handler(f)
  \/ nrf_esb_read_rx_payload \/ EvtReturn

Write == \E d \in Data \ TooLong, p \in Pipes :
           WriteLocked([id |-> nextId, data |-> d, pipe |-> p])

Thread ==
  \/ nrf_esb_start_rx \/ nrf_esb_stop_rx \/ StopDisable
  \/ nrf_esb_write_payload \/ Write
  \/ nrf_esb_flush_tx \/ nrf_esb_flush_rx \/ nrf_esb_init

OnAir == {pkt \in Packets : pkt.noack \in NoAcks}

Next ==
  \/ \E pkt \in OnAir : on_radio_disabled_rx(pkt)
  \/ on_radio_disabled_rx_ack
  \/ Event
  \/ Thread

Spec == Init /\ [][Next]_vars

\* The software interrupt is taken and its handler returns.
FairSpec == Spec /\ WF_vars(Event)

-----------------------------------------------------------------------------
(***************************************************************************)
(* What the PRX remembers as received, it has put in the RX FIFO: a packet *)
(* recorded in rx_pipe_info is the last one stored for its pipe.  Were a   *)
(* packet recorded and not stored (the FIFO being full), its               *)
(* retransmission would be acknowledged as a duplicate and lost.  That is  *)
(* what happens to the one packet excepted here, whose length is refused   *)
(* by rx_fifo_push_rfbuf() after PID and CRC are recorded.                 *)
(***************************************************************************)
RecordedIsStored ==
  \A p \in Pipes :
    \/ rx_pipe_info[p].crc = stored[p]
    \/ Protocol = "ESB_DPL" /\ rx_pipe_info[p].crc.data \in TooLong

\* esb_state, the radio and the installed handler agree while receiving.
StateMatchesRadio ==
  /\ esb_state = "PRX" => on_radio_disabled = "rx" /\ intenset /\ radio \in {"rx", "off"}
  /\ esb_state = "PRX_SEND_ACK" => on_radio_disabled = "rx_ack" /\ intenset /\ radio = "tx"
  /\ esb_state = "IDLE" => ~intenset

(***************************************************************************)
(* The receiver never goes deaf.  A packet that finds the RX FIFO full is  *)
(* dropped without an event, so a full FIFO whose events have all been     *)
(* handled would stay full for ever; the sample's handler reads one        *)
(* payload for each event, and one event may stand for several packets.    *)
(***************************************************************************)
FullFifoIsRead == rx_fifo.count = RxFifoSize ~> rx_fifo.count < RxFifoSize
=============================================================================
