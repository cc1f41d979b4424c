----------------------------- MODULE St25r3911b -----------------------------
(***************************************************************************)
(* The ST25R3911B reader chip as drivers/st25r3911b uses it: its interrupt *)
(* status, the mask the driver keeps of it, the edge of the interrupt pin, *)
(* the direct commands that are answered by an interrupt, the FIFO, and    *)
(* the exchange of a frame with the tags in the field.  Everything is an   *)
(* operator on a record c:                                                 *)
(*   irq, mask  bits of the status registers, and irq_mask                 *)
(*   sem        irq_sem is available                                       *)
(*   field      transmitter and receiver are enabled                       *)
(*   wire       interrupts still to come: <<[bits, n], ...>>, each with    *)
(*              the n bytes that are in the FIFO more when it is raised    *)
(*   frame      the frame last sent                                        *)
(*   ans, n     what the FIFO holds, and how many bytes of it              *)
(* The bits for errors of a reception, which only choose the error code    *)
(* that is printed, are left out, as are register reads and writes without *)
(* an effect of their own (timers, modes, gain).                           *)
(*                                                                         *)
(* Assumed of the chip: a cause that is masked is not recorded, a recorded *)
(* one drives the pin while it is not masked, reading the status clears    *)
(* it, and CMD_CLEAR ends the exchange under way and empties the FIFO.     *)
(***************************************************************************)
EXTENDS Naturals, Sequences, SequencesExt

Bits == {"TXE", "RXS", "RXE", "COL", "FWL", "NRE", "OSC", "DCT", "CAT", "CAC"}

ST25R3911B_MAX_FIFO_LEN == 96
ST25R3911B_MAX_TX_LEN == 8191
FIFO_RX_WATER_LVL == 64

Pin(c) == c.irq \ c.mask # {}

\* irq_pin_cb(): the rising edge of the pin gives the semaphore.
irq_pin_cb(before, c) == [c EXCEPT !.sem = @ \/ (~Pin(before) /\ Pin(c))]

\* The chip raises the next interrupts of the exchange.
Raise(c) ==
  LET e == Head(c.wire)
  IN  irq_pin_cb(c, [c EXCEPT !.irq = @ \cup (e.bits \ c.mask), !.n = @ + e.n,
                              !.wire = Tail(@)])

st25r3911b_irq_modify(c, clr, set) ==
  irq_pin_cb(c, [c EXCEPT !.mask = (@ \ clr) \cup set])
st25r3911b_irq_enable(c, bits) == st25r3911b_irq_modify(c, bits, {})
st25r3911b_irq_disable(c, bits) == st25r3911b_irq_modify(c, {}, bits)

\* Reading the status registers clears them.
st25r39_irq_clear(c) == [c EXCEPT !.irq = {}]

\* What one pass of st25r3911b_irq_read() returns.
IrqStatus(c) == c.irq \ c.mask

NoFrame == [kind |-> "none", len |-> 0]
NoAnswer == [kind |-> "none"]
ChipInit == [irq |-> {}, mask |-> Bits, sem |-> FALSE, field |-> FALSE,
             wire |-> << >>, frame |-> NoFrame, ans |-> NoAnswer, n |-> 0]

-----------------------------------------------------------------------------
(* Direct commands that end in an interrupt: the start-up sequence of      *)
(* st25r3911b_init() and st25r3911b_field_on().                            *)

StartUp == <<"osc_start", "measure_voltage", "adjust_regulator", "calibrate_antenna",
             "calibrate_antenna", "adjust_regulator">>

\* What a command waits for, and what makes it succeed.
Awaits(cmd) == CASE cmd = "osc_start" -> {"OSC"} [] cmd = "field_on" -> {"CAT", "CAC"}
                 [] OTHER -> {"DCT"}
Succeeds(cmd, status) == IF cmd = "field_on" THEN "CAT" \in status
                         ELSE status \cap Awaits(cmd) # {}

\* command_process(), up to the wait; the chip answers or it does not.
command_start(c, cmd, answer) ==
  [st25r3911b_irq_enable(c, Awaits(cmd)) EXCEPT
     !.wire = IF answer = {} THEN << >> ELSE <<[bits |-> answer, n |-> 0]>>]

\* st25r3911b_irq_wait_for_irq() took the semaphore, and the mask is restored.
command_end(c, cmd) ==
  st25r3911b_irq_disable(st25r39_irq_clear([c EXCEPT !.sem = FALSE]), Awaits(cmd))

st25r3911b_rx_tx_disable(c) == [c EXCEPT !.field = FALSE]
rx_tx_enable(c) == [c EXCEPT !.field = TRUE]

-----------------------------------------------------------------------------
(* Frames.                                                                 *)

\* transmission_prepare(): the FIFO is cleared and every interrupt masked.
transmission_prepare(c) ==
  st25r3911b_irq_disable([c EXCEPT !.wire = << >>, !.n = 0, !.ans = NoAnswer], Bits)

fifo_write_ok(len) == len <= ST25R3911B_MAX_FIFO_LEN
tx_len_ok(len) == len <= ST25R3911B_MAX_TX_LEN

\* What goes out on the air: the FIFO runs low when the frame is longer than it.
Transmit(c, frame, enabled) ==
  [st25r3911b_irq_enable(transmission_prepare(c), enabled) EXCEPT
     !.frame = frame,
     !.wire = (IF frame.len > ST25R3911B_MAX_FIFO_LEN THEN <<[bits |-> {"FWL"}, n |-> 0]>>
               ELSE << >>) \o <<[bits |-> {"TXE"}, n |-> 0]>>]

\* Interrupts of the reception of n bytes.
Reception(n) ==
  <<[bits |-> {"RXS"}, n |-> 0]>>
  \o (IF n > FIFO_RX_WATER_LVL THEN <<[bits |-> {"FWL"}, n |-> FIFO_RX_WATER_LVL]>> ELSE << >>)
  \o <<[bits |-> {"RXE"}, n |-> IF n > FIFO_RX_WATER_LVL THEN n - FIFO_RX_WATER_LVL ELSE n]>>
Collision == <<[bits |-> {"RXS"}, n |-> 0], [bits |-> {"COL"}, n |-> 2],
               [bits |-> {"RXE"}, n |-> 3]>>
NoResponse == <<[bits |-> {"NRE"}, n |-> 0]>>
\* "In some cases RXE irq is not triggered".
WithoutRxe(n) == Front(Reception(n))

\* st25r3911b_fifo_read(): what the FIFO does not hold is read as garbage.
st25r3911b_fifo_read(c, k) == [c EXCEPT !.n = IF @ < k THEN 0 ELSE @ - k]
=============================================================================
