------------------------------- MODULE EsbPtx -------------------------------
(***************************************************************************)
(* A primary transmitter (PTX): nrf_esb.c configured with NRF_ESB_MODE_PTX *)
(*                                                                         *)
(* Three contexts share the driver's static variables, each preempting the *)
(* ones after it: the radio interrupt (RADIO_IRQHandler, which runs the    *)
(* handler in on_radio_disabled), the software interrupt that calls the    *)
(* application's event handler (ESB_EVT_IRQHandler), and the application's *)
(* thread.  The API is called from the last two.  irq_lock() sections are  *)
(* single steps; what the API reads before locking is a step of its own.   *)
(*                                                                         *)
(* The hardware is radio: what the radio (with the system timer and the    *)
(* PPI channels) is doing.                                                 *)
(*   "off"     nothing: no DISABLED event will come                        *)
(*   "tx"      sending tx_payload_buffer, DISABLED follows                 *)
(*   "rx"      waiting for the ACK, the timer ends the window              *)
(*   "rx_open" waiting with the RX timeout channel cleared                 *)
(*   "expire"  off, and the timer will trigger DISABLE                     *)
(*   "wait"    off, and the timer will trigger TXEN (retransmit delay)     *)
(***************************************************************************)
EXTENDS EsbFifo, FiniteSets

CONSTANTS
  Pipes,             \* CONFIG_NRF_ESB_PIPE_COUNT pipes
  TxFifoSize,        \* CONFIG_NRF_ESB_TX_FIFO_SIZE
  RxFifoSize,        \* CONFIG_NRF_ESB_RX_FIFO_SIZE
  PidMax,            \* PID_MAX
  RetransmitCounts,  \* the values the application gives retransmit_count
  TxMode,            \* esb_cfg.tx_mode
  Protocol,          \* esb_cfg.protocol
  SelectiveAutoAck,  \* esb_cfg.selective_auto_ack
  NoAcks,            \* the noack flags the application writes
  Data,              \* payload contents
  ThreadOps,         \* API functions the application's thread calls
  HandlerOps,        \* API functions its event handler calls
  IdleOnly,          \* those it calls only after nrf_esb_is_idle()
  AckIds,            \* payloads that may come back in an ACK
  MaxId              \* bound: payloads written in a behaviour

Ops == {"write", "start_tx", "flush_tx", "pop_tx", "read_rx", "flush_rx",
        "set_retransmit_count", "reuse_pid", "init", "disable"}

ASSUME PtxAssumption ==
  /\ TxFifoSize \in Nat \ {0}
  /\ RxFifoSize \in Nat \ {0}
  /\ PidMax \in Nat
  /\ RetransmitCounts \subseteq Nat /\ RetransmitCounts # {}
  /\ \A n \in RetransmitCounts : n < CountMod
  /\ TxFifoSize < CountMod /\ RxFifoSize < CountMod
  /\ TxMode \in {"AUTO", "MANUAL", "MANUAL_START"}
  /\ Protocol \in {"ESB", "ESB_DPL"}
  /\ SelectiveAutoAck \in BOOLEAN
  /\ NoAcks \subseteq BOOLEAN
  /\ ThreadOps \subseteq Ops /\ HandlerOps \subseteq Ops /\ IdleOnly \subseteq Ops
  /\ AckIds \subseteq Nat
  /\ MaxId \in Nat
  /\ Pipes # {} /\ Data # {}

VARIABLES
  esb_initialized,
  esb_state,
  tx_fifo,
  rx_fifo,
  pids,
  interrupt_flags,
  retransmits_remaining,
  retransmit_count,     \* esb_cfg.retransmit_count
  last_tx_attempts,
  tx_payload_buffer,
  on_radio_disabled,
  shorts_rxen,          \* DISABLED_RXEN is in NRF_RADIO->SHORTS
  radio,
  evt_irq,              \* ESB_EVT_IRQ: [enabled, pending]
  evt,                  \* ESB_EVT_IRQHandler: program counter and locals
  call,                 \* per context, the API call in progress
  nextId,               \* auxiliary: identity of the next payload
  onair,                \* auxiliary: transmissions of the current packet
  popped                \* auxiliary: nrf_esb_pop_tx() since the TX ring was empty

driver == <<esb_initialized, esb_state, tx_fifo, rx_fifo, pids, interrupt_flags,
            retransmits_remaining, retransmit_count, last_tx_attempts,
            tx_payload_buffer, on_radio_disabled>>
hardware == <<shorts_rxen, radio, evt_irq>>
auxiliary == <<nextId, onair, popped>>
vars == <<driver, hardware, evt, call, auxiliary>>

Contexts == {"thread", "handler"}

Flags == {"TX_SUCCESS", "TX_FAILED", "RX_RECEIVED"}

States == {"IDLE", "PTX_TX", "PTX_TX_ACK", "PTX_RX_ACK"}

NoPipe == CHOOSE p \in Pipes : TRUE
NoData == CHOOSE d \in Data : TRUE

Payload == [id : Nat, data : Data, pipe : Pipes, noack : BOOLEAN, pid : 0 .. PidMax]

\* A slot nobody has written: static memory.
ZeroPayload == [id |-> 0, data |-> NoData, pipe |-> NoPipe, noack |-> FALSE, pid |-> 0]

\* What the radio brings back in the ACK window: nothing with a good CRC, an
\* empty ACK, or an ACK with a payload.
NoAck == [kind |-> "none"]
EmptyAck == [kind |-> "ack"]
PayloadAck(p) == [kind |-> "ack_payload", payload |-> p]
AckPayloads == [id : AckIds, data : Data, pipe : Pipes, noack : {FALSE}, pid : {0}]

NoCall == [step |-> "none"]
Calls == [step : {"none", "write_kick", "start", "pop_locked", "read_locked"}]
           \cup [step : {"write_locked"}, data : Data, pipe : Pipes, noack : BOOLEAN]

TypeOK ==
  /\ esb_initialized \in BOOLEAN
  /\ esb_state \in States
  /\ tx_fifo \in Fifos(TxFifoSize, Payload)
  /\ rx_fifo \in Fifos(RxFifoSize, Payload)
  /\ pids \in [Pipes -> 0 .. PidMax]
  /\ interrupt_flags \in SUBSET Flags
  /\ retransmits_remaining \in 0 .. CountMod - 1
  /\ retransmit_count \in RetransmitCounts
  /\ last_tx_attempts \in 0 .. CountMod - 1
  /\ tx_payload_buffer \in Payload
  /\ on_radio_disabled \in {"NULL", "tx_noack", "tx", "tx_wait_for_ack"}
  /\ shorts_rxen \in BOOLEAN
  /\ radio \in {"off", "tx", "rx", "rx_open", "expire", "wait"}
  /\ evt_irq \in [enabled : BOOLEAN, pending : BOOLEAN]
  /\ evt \in [pc : {"exit", "entered", "run"}, interrupts : SUBSET Flags,
              now : Flags \cup {"none"}, tx_attempts : 0 .. CountMod - 1]
  /\ call \in [Contexts -> Calls]
  /\ nextId \in Nat
  /\ onair \in Nat
  /\ popped \in BOOLEAN

Init ==
  /\ esb_initialized = FALSE
  /\ esb_state = "IDLE"
  /\ tx_fifo = NewFifo(TxFifoSize, ZeroPayload)
  /\ rx_fifo = NewFifo(RxFifoSize, ZeroPayload)
  /\ pids = [p \in Pipes |-> 0]
  /\ interrupt_flags = {}
  /\ retransmits_remaining = 0
  /\ retransmit_count \in RetransmitCounts
  /\ last_tx_attempts = 0
  /\ tx_payload_buffer = ZeroPayload
  /\ on_radio_disabled = "NULL"
  /\ shorts_rxen = FALSE
  /\ radio = "off"
  /\ evt_irq = [enabled |-> FALSE, pending |-> FALSE]
  /\ evt = [pc |-> "exit", interrupts |-> {}, now |-> "none", tx_attempts |-> 0]
  /\ call = [c \in Contexts |-> NoCall]
  /\ nextId = 1
  /\ onair = 0
  /\ popped = FALSE

-----------------------------------------------------------------------------
(***************************************************************************)
(* Who may take a step.  The software interrupt preempts the thread as     *)
(* soon as it is pending and enabled; the event handler calls the API from *)
(* inside a callback.                                                      *)
(***************************************************************************)
Runs(c) ==
  IF c = "thread"
  THEN evt.pc = "exit" /\ ~(evt_irq.pending /\ evt_irq.enabled)
  ELSE evt.now # "none"

MayCall(c, op) ==
  /\ Runs(c)
  /\ call[c] = NoCall
  /\ op \in (IF c = "thread" THEN ThreadOps ELSE HandlerOps)
  /\ op \in IdleOnly => esb_state = "IDLE"

AtStep(c, s) == Runs(c) /\ call[c].step = s

Goto(c, s) == call' = [call EXCEPT ![c] = [step |-> s]]

Return(c) == call' = [call EXCEPT ![c] = NoCall]

SetPending == evt_irq' = [evt_irq EXCEPT !.pending = TRUE]

\* Mutant of tx_fifo_remove_last: the test of an empty FIFO is gone.
RemoveUnchecked(f) == DropFront(f, TxFifoSize)

\* tx_fifo_remove_last(): the payload at the front, if there is one.
tx_fifo_remove_last(f) == IF f.count = 0 THEN f ELSE DropFront(f, TxFifoSize)

(***************************************************************************)
(* start_tx_transaction(), on the TX FIFO f: it sends whatever is in the   *)
(* front slot, whether or not the slot is queued.                          *)
(***************************************************************************)
start_tx_transaction(f) ==
  LET p   == FrontOf(f)
      ack == Protocol = "ESB" \/ ~p.noack \/ ~SelectiveAutoAck
  IN /\ last_tx_attempts' = 1
     /\ tx_payload_buffer' = p
     /\ retransmits_remaining' =
          IF ack THEN retransmit_count ELSE retransmits_remaining
     /\ on_radio_disabled' = IF ack THEN "tx" ELSE "tx_noack"
     /\ esb_state' = IF ack THEN "PTX_TX_ACK" ELSE "PTX_TX"
     /\ shorts_rxen' = ack
     /\ radio' = "tx"
     /\ onair' = 1

GoIdle ==
  /\ esb_state' = "IDLE"
  /\ radio' = "off"
  /\ UNCHANGED <<tx_payload_buffer, retransmits_remaining, on_radio_disabled,
                 shorts_rxen, onair>>

-----------------------------------------------------------------------------
(* The radio interrupt, one action per handler in on_radio_disabled.       *)

\* Mutant of SendNext: what is still queued is forgotten.
SendNextNever(f) == GoIdle /\ UNCHANGED last_tx_attempts

\* The packet is done: the next one in the FIFO f is sent at once.
SendNext(f) ==
  \/ f.count = 0 /\ GoIdle /\ UNCHANGED last_tx_attempts
  \/ f.count # 0 /\ start_tx_transaction(f)

on_radio_disabled_tx_noack ==
  LET f == tx_fifo_remove_last(tx_fifo)
  IN /\ radio = "tx"
     /\ on_radio_disabled = "tx_noack"
     /\ interrupt_flags' = interrupt_flags \cup {"TX_SUCCESS"}
     /\ tx_fifo' = f
     /\ SetPending
     /\ SendNext(f)
     /\ UNCHANGED <<esb_initialized, rx_fifo, pids, retransmit_count, evt, call,
                    nextId, popped>>

\* Mutant: esb_state is not advanced to PTX_RX_ACK.
TxKeepsState ==
  /\ radio = "tx"
  /\ on_radio_disabled = "tx"
  /\ on_radio_disabled' = "tx_wait_for_ack"
  /\ radio' = "rx"
  /\ shorts_rxen' = FALSE
  /\ UNCHANGED <<esb_initialized, esb_state, tx_fifo, rx_fifo, pids, interrupt_flags,
                 retransmits_remaining, retransmit_count, last_tx_attempts,
                 tx_payload_buffer, evt_irq, evt, call, auxiliary>>

on_radio_disabled_tx ==
  /\ radio = "tx"
  /\ on_radio_disabled = "tx"
  /\ on_radio_disabled' = "tx_wait_for_ack"
  /\ esb_state' = "PTX_RX_ACK"
  /\ radio' = IF shorts_rxen THEN "rx" ELSE "expire"
  /\ shorts_rxen' = FALSE
  /\ UNCHANGED <<esb_initialized, tx_fifo, rx_fifo, pids, interrupt_flags,
                 retransmits_remaining, retransmit_count, last_tx_attempts,
                 tx_payload_buffer, evt_irq, evt, call, auxiliary>>

\* rx_fifo_push_rfbuf() on the PTX: a full RX FIFO loses the payload.  An ACK
\* payload of a length it refuses leaves what an empty ACK leaves.
PushAck(ack) ==
  IF /\ Protocol # "ESB"
     /\ ack.kind = "ack_payload"
     /\ rx_fifo.count < RxFifoSize
  THEN /\ rx_fifo' = Push(rx_fifo, RxFifoSize, ack.payload)
       /\ interrupt_flags' = interrupt_flags \cup {"TX_SUCCESS", "RX_RECEIVED"}
  ELSE /\ interrupt_flags' = interrupt_flags \cup {"TX_SUCCESS"}
       /\ UNCHANGED rx_fifo

Attempts == (retransmit_count - retransmits_remaining + 1) % CountMod

AckReceived(ack) ==
  LET f == tx_fifo_remove_last(tx_fifo)
  IN /\ radio \in {"rx", "rx_open"}
     /\ on_radio_disabled = "tx_wait_for_ack"
     /\ ack.kind # "none"
     /\ tx_fifo' = f
     /\ PushAck(ack)
     /\ SetPending
     /\ \/ /\ f.count = 0 \/ TxMode = "MANUAL"
           /\ last_tx_attempts' = Attempts
           /\ GoIdle
        \/ /\ f.count # 0 /\ TxMode # "MANUAL"
           /\ start_tx_transaction(f)
     /\ UNCHANGED <<esb_initialized, pids, retransmit_count, evt, call, nextId, popped>>

GiveUp ==
  /\ retransmits_remaining = 0
  /\ last_tx_attempts' = (retransmit_count + 1) % CountMod
  /\ interrupt_flags' = interrupt_flags \cup {"TX_FAILED"}
  /\ esb_state' = "IDLE"
  /\ radio' = "off"
  /\ SetPending
  /\ UNCHANGED <<on_radio_disabled, shorts_rxen>>

RearmAs(r) ==
  /\ shorts_rxen' = TRUE
  /\ on_radio_disabled' = "tx"
  /\ esb_state' = "PTX_TX_ACK"
  /\ radio' = r
  /\ UNCHANGED <<last_tx_attempts, interrupt_flags, evt_irq>>

\* Mutants of Rearm: the remaining attempts are not tested; the timer that
\* starts the retransmission is not armed.
RearmAlways == RearmAs("wait")
RearmNoTimer == retransmits_remaining # 0 /\ RearmAs("off")

Rearm == retransmits_remaining # 0 /\ RearmAs("wait")

AckMissed(ack) ==
  /\ radio \in {"rx", "rx_open", "expire"}
  /\ on_radio_disabled = "tx_wait_for_ack"
  /\ ack.kind = "none"
  /\ retransmits_remaining' = Decr(retransmits_remaining)
  /\ GiveUp \/ Rearm
  /\ UNCHANGED <<esb_initialized, tx_fifo, rx_fifo, pids, retransmit_count,
                 tx_payload_buffer, evt, call, auxiliary>>

on_radio_disabled_tx_wait_for_ack(ack) == AckReceived(ack) \/ AckMissed(ack)

\* The system timer reaches CC[1] and PPI starts the retransmission.
RetransmitTimer ==
  /\ radio = "wait"
  /\ radio' = "tx"
  /\ onair' = onair + 1
  /\ UNCHANGED <<driver, shorts_rxen, evt_irq, evt, call, nextId, popped>>

-----------------------------------------------------------------------------
(***************************************************************************)
(* The software interrupt.  The attempts are read first, then the flags    *)
(* are read and cleared under irq_lock(), then the application's handler   *)
(* is called once per flag, in a fixed order.                              *)
(***************************************************************************)
ESB_EVT_IRQHandler ==
  /\ evt.pc = "exit"
  /\ evt_irq.pending /\ evt_irq.enabled
  /\ evt_irq' = [evt_irq EXCEPT !.pending = FALSE]
  /\ evt' = [evt EXCEPT !.pc = "entered", !.tx_attempts = last_tx_attempts]
  /\ UNCHANGED <<driver, shorts_rxen, radio, call, auxiliary>>

get_and_clear_irqs ==
  /\ evt.pc = "entered"
  /\ evt' = [evt EXCEPT !.pc = "run", !.interrupts = interrupt_flags]
  /\ interrupt_flags' = {}
  /\ UNCHANGED <<esb_initialized, esb_state, tx_fifo, rx_fifo, pids,
                 retransmits_remaining, retransmit_count, last_tx_attempts,
                 tx_payload_buffer, on_radio_disabled, hardware, call, auxiliary>>

NextFlag(S) ==
  CASE "TX_SUCCESS" \in S -> "TX_SUCCESS"
    [] "TX_SUCCESS" \notin S /\ "TX_FAILED" \in S -> "TX_FAILED"
    [] OTHER -> "RX_RECEIVED"

\* The previous callback has returned; the handler is called for the next flag.
event_handler ==
  /\ evt.pc = "run"
  /\ evt.interrupts # {}
  /\ call["handler"] = NoCall
  /\ evt' = [evt EXCEPT !.now = NextFlag(evt.interrupts),
                        !.interrupts = @ \ {NextFlag(evt.interrupts)}]
  /\ UNCHANGED <<driver, hardware, call, auxiliary>>

EvtReturn ==
  /\ evt.pc = "run"
  /\ evt.interrupts = {}
  /\ call["handler"] = NoCall
  /\ evt' = [evt EXCEPT !.pc = "exit", !.now = "none"]
  /\ UNCHANGED <<driver, hardware, call, auxiliary>>

-----------------------------------------------------------------------------
(* The API.  An error return changes nothing and has no action.            *)

nrf_esb_write_payload(c) ==
  /\ MayCall(c, "write")
  /\ esb_initialized
  /\ tx_fifo.count < TxFifoSize
  /\ nextId <= MaxId
  /\ \E d \in Data, p \in Pipes, n \in NoAcks :
       call' = [call EXCEPT ![c] =
                  [step |-> "write_locked", data |-> d, pipe |-> p, noack |-> n]]
  /\ UNCHANGED <<driver, hardware, evt, auxiliary>>

WriteLocked(c) ==
  LET w   == call[c]
      pid == (pids[w.pipe] + 1) % (PidMax + 1)
  IN /\ AtStep(c, "write_locked")
     /\ tx_fifo' = Push(tx_fifo, TxFifoSize,
                        [id |-> nextId, data |-> w.data, pipe |-> w.pipe,
                         noack |-> w.noack, pid |-> pid])
     /\ pids' = [pids EXCEPT ![w.pipe] = pid]
     /\ nextId' = nextId + 1
     /\ Goto(c, "write_kick")
     /\ UNCHANGED <<esb_initialized, esb_state, rx_fifo, interrupt_flags,
                    retransmits_remaining, retransmit_count, last_tx_attempts,
                    tx_payload_buffer, on_radio_disabled, hardware, evt,
                    onair, popped>>

\* Mutant of WriteKick: esb_state is not tested.
WriteKickAlways(c) ==
  /\ AtStep(c, "write_kick")
  /\ Goto(c, "start")
  /\ UNCHANGED <<driver, hardware, evt, auxiliary>>

\* After irq_unlock(): in automatic mode an idle module is started.
WriteKick(c) ==
  /\ AtStep(c, "write_kick")
  /\ \/ TxMode = "AUTO" /\ esb_state = "IDLE" /\ Goto(c, "start")
     \/ ~(TxMode = "AUTO" /\ esb_state = "IDLE") /\ Return(c)
  /\ UNCHANGED <<driver, hardware, evt, auxiliary>>

nrf_esb_start_tx(c) ==
  /\ MayCall(c, "start_tx")
  /\ esb_state = "IDLE"
  /\ tx_fifo.count # 0
  /\ Goto(c, "start")
  /\ UNCHANGED <<driver, hardware, evt, auxiliary>>

StartTransaction(c) ==
  /\ AtStep(c, "start")
  /\ start_tx_transaction(tx_fifo)
  /\ Return(c)
  /\ UNCHANGED <<esb_initialized, tx_fifo, rx_fifo, pids, interrupt_flags,
                 retransmit_count, evt_irq, evt, nextId, popped>>

nrf_esb_flush_tx(c) ==
  /\ MayCall(c, "flush_tx")
  /\ esb_initialized
  /\ tx_fifo' = Reset(tx_fifo)
  /\ popped' = FALSE
  /\ UNCHANGED <<esb_initialized, esb_state, rx_fifo, pids, interrupt_flags,
                 retransmits_remaining, retransmit_count, last_tx_attempts,
                 tx_payload_buffer, on_radio_disabled, hardware, evt, call, nextId, onair>>

nrf_esb_pop_tx(c) ==
  /\ MayCall(c, "pop_tx")
  /\ esb_initialized
  /\ tx_fifo.count # 0
  /\ Goto(c, "pop_locked")
  /\ UNCHANGED <<driver, hardware, evt, auxiliary>>

\* The locked part of nrf_esb_pop_tx() moves the back cursor forward.
PopLocked(c) ==
  /\ AtStep(c, "pop_locked")
  /\ tx_fifo' = [tx_fifo EXCEPT !.back  = Advance(tx_fifo.back, TxFifoSize),
                                !.count = Decr(tx_fifo.count)]
  /\ popped' = TRUE
  /\ Return(c)
  /\ UNCHANGED <<esb_initialized, esb_state, rx_fifo, pids, interrupt_flags,
                 retransmits_remaining, retransmit_count, last_tx_attempts,
                 tx_payload_buffer, on_radio_disabled, hardware, evt, nextId, onair>>

nrf_esb_read_rx_payload(c) ==
  /\ MayCall(c, "read_rx")
  /\ esb_initialized
  /\ rx_fifo.count # 0
  /\ Goto(c, "read_locked")
  /\ UNCHANGED <<driver, hardware, evt, auxiliary>>

ReadLocked(c) ==
  /\ AtStep(c, "read_locked")
  /\ rx_fifo' = DropFront(rx_fifo, RxFifoSize)
  /\ Return(c)
  /\ UNCHANGED <<esb_initialized, esb_state, tx_fifo, pids, interrupt_flags,
                 retransmits_remaining, retransmit_count, last_tx_attempts,
                 tx_payload_buffer, on_radio_disabled, hardware, evt, auxiliary>>

nrf_esb_flush_rx(c) ==
  /\ MayCall(c, "flush_rx")
  /\ esb_initialized
  /\ rx_fifo' = Reset(rx_fifo)
  /\ UNCHANGED <<esb_initialized, esb_state, tx_fifo, pids, interrupt_flags,
                 retransmits_remaining, retransmit_count, last_tx_attempts,
                 tx_payload_buffer, on_radio_disabled, hardware, evt, call, auxiliary>>

nrf_esb_set_retransmit_count(c) ==
  /\ MayCall(c, "set_retransmit_count")
  /\ esb_state = "IDLE"
  /\ retransmit_count' \in RetransmitCounts
  /\ UNCHANGED <<esb_initialized, esb_state, tx_fifo, rx_fifo, pids, interrupt_flags,
                 retransmits_remaining, last_tx_attempts, tx_payload_buffer,
                 on_radio_disabled, hardware, evt, call, auxiliary>>

nrf_esb_reuse_pid(c) ==
  /\ MayCall(c, "reuse_pid")
  /\ esb_state = "IDLE"
  /\ \E p \in Pipes : pids' = [pids EXCEPT ![p] = (@ + PidMax) % (PidMax + 1)]
  /\ UNCHANGED <<esb_initialized, esb_state, tx_fifo, rx_fifo, interrupt_flags,
                 retransmits_remaining, retransmit_count, last_tx_attempts,
                 tx_payload_buffer, on_radio_disabled, hardware, evt, call, auxiliary>>

(***************************************************************************)
(* nrf_esb_disable() clears the PPI channels and the shortcuts but neither *)
(* stops the radio nor forgets on_radio_disabled: a packet on the air runs *)
(* to its end, and its handler after it.                                   *)
(***************************************************************************)
AfterPpiClear == CASE radio \in {"wait", "expire"} -> "off"
                   [] radio = "rx" -> "rx_open"
                   [] OTHER -> radio

DisableEffect ==
  /\ tx_fifo' = Reset(tx_fifo)
  /\ rx_fifo' = Reset(rx_fifo)
  /\ pids' = [p \in Pipes |-> 0]
  /\ esb_state' = "IDLE"
  /\ radio' = AfterPpiClear
  /\ shorts_rxen' = FALSE
  /\ popped' = FALSE

nrf_esb_disable(c) ==
  /\ MayCall(c, "disable")
  /\ DisableEffect
  /\ esb_initialized' = FALSE
  /\ evt_irq' = [evt_irq EXCEPT !.enabled = FALSE]
  /\ UNCHANGED <<interrupt_flags, retransmits_remaining, retransmit_count,
                 last_tx_attempts, tx_payload_buffer, on_radio_disabled,
                 evt, call, nextId, onair>>

nrf_esb_init(c) ==
  /\ MayCall(c, "init")
  /\ \/ esb_initialized /\ DisableEffect
     \/ /\ ~esb_initialized
        /\ tx_fifo' = Reset(tx_fifo) /\ rx_fifo' = Reset(rx_fifo)
        /\ pids' = [p \in Pipes |-> 0]
        /\ esb_state' = "IDLE"
        /\ popped' = FALSE
        /\ UNCHANGED <<radio, shorts_rxen>>
  /\ esb_initialized' = TRUE
  /\ interrupt_flags' = {}
  /\ retransmit_count' \in RetransmitCounts
  /\ evt_irq' = [evt_irq EXCEPT !.enabled = TRUE]
  /\ UNCHANGED <<retransmits_remaining, last_tx_attempts, tx_payload_buffer,
                 on_radio_disabled, evt, call, nextId, onair>>

-----------------------------------------------------------------------------
Api(c) ==
  \/ nrf_esb_write_payload(c) \/ WriteLocked(c) \/ WriteKick(c)
  \/ nrf_esb_start_tx(c) \/ StartTransaction(c)
  \/ nrf_esb_flush_tx(c)
  \/ nrf_esb_pop_tx(c) \/ PopLocked(c)
  \/ nrf_esb_read_rx_payload(c) \/ ReadLocked(c)
  \/ nrf_esb_flush_rx(c)
  \/ nrf_esb_set_retransmit_count(c) \/ nrf_esb_reuse_pid(c)
  \/ nrf_esb_init(c) \/ nrf_esb_disable(c)

Acks == {NoAck, EmptyAck} \cup {PayloadAck(p) : p \in AckPayloads}

Radio ==
  \/ on_radio_disabled_tx_noack
  \/ on_radio_disabled_tx
  \/ \E ack \in Acks : on_radio_disabled_tx_wait_for_ack(ack)
  \/ RetransmitTimer

Event == ESB_EVT_IRQHandler \/ get_and_clear_irqs \/ event_handler \/ EvtReturn

Next == Radio \/ Event \/ \E c \in Contexts : Api(c)

\* A call in progress: the steps after the application entered the API.
Continue(c) ==
  WriteLocked(c) \/ WriteKick(c) \/ StartTransaction(c) \/ PopLocked(c) \/ ReadLocked(c)

Spec == Init /\ [][Next]_vars

-----------------------------------------------------------------------------
(***************************************************************************)
(* The TX ring: back is the slot after the queued payloads and the count   *)
(* stays within the FIFO, from one reset of the ring to the next, unless   *)
(* nrf_esb_pop_tx(), which moves back forwards, was called in between.     *)
(* The count is tested before irq_lock() in nrf_esb_write_payload(), so    *)
(* this is about what the interrupt and the other context do between the   *)
(* test and the push.                                                      *)
(***************************************************************************)
TxRingOK == ~popped => RingOK(tx_fifo, TxFifoSize)

\* The same for the RX ring, filled by the radio interrupt and emptied by
\* nrf_esb_read_rx_payload(), whose emptiness test is before irq_lock().
RxRingOK == RingOK(rx_fifo, RxFifoSize)

(***************************************************************************)
(* While a transaction is in progress the packet on the air is the payload *)
(* at the front of the TX FIFO, so that the tx_fifo_remove_last() that     *)
(* follows the ACK removes the payload that was acknowledged.              *)
(***************************************************************************)
InFlightIsHead ==
  esb_state # "IDLE" => tx_fifo.count > 0 /\ FrontOf(tx_fifo) = tx_payload_buffer

(***************************************************************************)
(* The test of esb_state that lets a context call start_tx_transaction()   *)
(* is still true when it does: no transaction is started over another one, *)
(* whoever preempts the caller between the test and the call.              *)
(***************************************************************************)
StartOnIdleRadio ==
  \A c \in Contexts :
    call[c].step = "start" => esb_state = "IDLE" /\ radio = "off"

(***************************************************************************)
(* No lost wakeup in automatic mode: a queued payload is being sent, or    *)
(* the writer is about to look at esb_state, or the last transaction ended *)
(* in TX_FAILED (the module then waits for the application), or the count  *)
(* is what nrf_esb_pop_tx() left behind: it wraps when the ring is emptied *)
(* between the test of the count and irq_lock().                           *)
(***************************************************************************)
LastFailed == retransmits_remaining = CountMod - 1

NoLostWakeup ==
  (TxMode = "AUTO" /\ esb_state = "IDLE" /\ tx_fifo.count > 0) =>
    \/ \E c \in Contexts : call[c].step \in {"write_kick", "start"}
    \/ LastFailed
    \/ popped

\* The state of the protocol, the radio and the installed handler agree.
StateMatchesRadio ==
  /\ esb_state = "IDLE" <=> radio = "off"
  /\ esb_state = "PTX_TX" => radio = "tx" /\ on_radio_disabled = "tx_noack"
  /\ esb_state = "PTX_TX_ACK" =>
       radio \in {"tx", "wait"} /\ on_radio_disabled = "tx" /\ shorts_rxen
  /\ esb_state = "PTX_RX_ACK" => radio = "rx" /\ on_radio_disabled = "tx_wait_for_ack"

\* A packet is sent at most retransmit_count + 1 times.
AttemptsBounded ==
  esb_state \in {"PTX_TX_ACK", "PTX_RX_ACK"} =>
    onair + retransmits_remaining <= retransmit_count + 1

-----------------------------------------------------------------------------
=============================================================================
