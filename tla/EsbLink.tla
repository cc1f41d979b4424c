------------------------------ MODULE EsbLink -------------------------------
(***************************************************************************)
(* A transmitter and a receiver on one channel: EsbPtx and EsbPrx composed *)
(* through the air, which loses packets and acknowledgments.               *)
(*                                                                         *)
(* The transmitter's variables keep their names, the receiver's begin with *)
(* r_.  A packet ends for both radios in one step; so does an ACK, if the  *)
(* transmitter was listening when it began.  The application is any user   *)
(* of the API that starts by hand, sends packets that need an ACK and      *)
(* flushes only while idle.  Both ends are built with the same maximum     *)
(* payload length, so no packet is too long for the receiver.              *)
(***************************************************************************)
EXTENDS EsbPtx

VARIABLES
  r_state, r_tx_fifo, r_rx_fifo, r_pipe_info, r_flags, r_tx_buffer, r_handler,
  r_shorts, r_intenset, r_radio, r_evt_irq, r_evt, r_call, r_nextId, r_stored,
  listening,   \* the window the PTX is in was open when the ACK began
  delivered,   \* auxiliary: identities of the payloads the PRX stored, in order
  confirmed    \* auxiliary: identities of the payloads reported with TX_SUCCESS

prx == <<r_state, r_tx_fifo, r_rx_fifo, r_pipe_info, r_flags, r_tx_buffer, r_handler,
         r_shorts, r_intenset, r_radio, r_evt_irq, r_evt, r_call, r_nextId, r_stored>>
history == <<delivered, confirmed>>
linkVars == <<vars, prx, listening, history>>

Prx == INSTANCE EsbPrx WITH
  esb_state <- r_state, tx_fifo <- r_tx_fifo, rx_fifo <- r_rx_fifo,
  rx_pipe_info <- r_pipe_info, interrupt_flags <- r_flags,
  tx_payload_buffer <- r_tx_buffer, on_radio_disabled <- r_handler,
  shorts <- r_shorts, intenset <- r_intenset, radio <- r_radio,
  evt_irq <- r_evt_irq, evt <- r_evt, call <- r_call, nextId <- r_nextId,
  stored <- r_stored,
  ThreadOps <- {}, TooLong <- {}

LinkInit ==
  /\ Init /\ Prx!Init
  /\ listening = FALSE
  /\ delivered = << >> /\ confirmed = {}

OnAir == [data |-> tx_payload_buffer.data, pipe |-> tx_payload_buffer.pipe,
          noack |-> tx_payload_buffer.noack, pid |-> tx_payload_buffer.pid]

-----------------------------------------------------------------------------
\* The packet reaches the PRX, which acknowledges it.
PacketArrives ==
  /\ on_radio_disabled_tx
  /\ Prx!on_radio_disabled_rx(OnAir)
  /\ listening' = TRUE
  /\ delivered' = IF Prx!IsRetransmit(OnAir) THEN delivered
                  ELSE Append(delivered, tx_payload_buffer.id)
  /\ UNCHANGED confirmed

\* Lost on the air, received while the PRX is not listening, or dropped
\* because its RX FIFO is full.
PacketLost ==
  /\ on_radio_disabled_tx
  /\ listening' = FALSE
  /\ UNCHANGED <<prx, history>>

AckArrives ==
  /\ listening
  /\ Prx!on_radio_disabled_rx_ack
  /\ AckReceived(EmptyAck)
  /\ listening' = FALSE
  /\ confirmed' = confirmed \cup {FrontOf(tx_fifo).id}
  /\ UNCHANGED delivered

AckLost ==
  /\ Prx!on_radio_disabled_rx_ack
  /\ listening' = FALSE
  /\ UNCHANGED <<vars, history>>

WindowEnds ==
  /\ AckMissed(NoAck)
  /\ listening' = FALSE
  /\ UNCHANGED <<prx, history>>

PtxLocal(A) == A /\ UNCHANGED <<prx, listening, history>>

Application ==
  \/ ~esb_initialized /\ nrf_esb_init("thread")
  \/ nrf_esb_write_payload("thread") \/ nrf_esb_start_tx("thread")
  \/ nrf_esb_flush_tx("thread")
  \/ Continue("thread")

Receiver == (Prx!Event \/ Prx!nrf_esb_start_rx) /\ UNCHANGED <<vars, listening, history>>

LinkNext ==
  \/ PacketArrives \/ PacketLost \/ AckArrives \/ AckLost \/ WindowEnds
  \/ PtxLocal(RetransmitTimer) \/ PtxLocal(Event) \/ PtxLocal(Application)
  \/ Receiver

LinkSpec == LinkInit /\ [][LinkNext]_linkVars

(***************************************************************************)
(* Fairness: the radios end what they do, timers and software interrupts   *)
(* are served, and a thread inside the API goes on.  Nothing is asked of   *)
(* the air, which may lose everything, or of the application, which may    *)
(* never start or try again.                                               *)
(***************************************************************************)
LinkFairness ==
  /\ WF_linkVars(PacketArrives \/ PacketLost)
  /\ WF_linkVars(WindowEnds \/ AckArrives)
  /\ WF_linkVars(AckArrives \/ AckLost)
  /\ WF_linkVars(PtxLocal(RetransmitTimer))
  /\ WF_linkVars(PtxLocal(Event))
  /\ WF_linkVars(PtxLocal(Continue("thread")))
  /\ WF_linkVars(Receiver)

FairLinkSpec == LinkSpec /\ LinkFairness

-----------------------------------------------------------------------------
(***************************************************************************)
(* The link implements the abstract channel: the queue is the TX FIFO of   *)
(* the transmitter, and every payload is delivered at most once, in order, *)
(* and confirmed only when delivered, whatever is lost on the way.         *)
(***************************************************************************)
Channel == INSTANCE EsbChannel WITH
  queue <- [i \in 1 .. tx_fifo.count |-> Contents(tx_fifo, TxFifoSize)[i].id],
  written <- nextId - 1

ImplementsChannel == Channel!Spec

(***************************************************************************)
(* Whatever the air loses, a transmission that was started ends, and the   *)
(* application is told: its handler is called with TX_SUCCESS or TX_FAILED *)
(* after it.  The ptx sample sends its next packet only then.              *)
(***************************************************************************)
EveryAttemptReported ==
  esb_state # "IDLE" ~> evt.now \in {"TX_SUCCESS", "TX_FAILED"}
=============================================================================
