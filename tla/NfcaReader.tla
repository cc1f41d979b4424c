----------------------------- MODULE NfcaReader -----------------------------
(***************************************************************************)
(* The NFC-A driver of drivers/st25r3911b/st25r3911b_nfca.c under the      *)
(* application samples/nfc/tag_reader, with the chip of St25r3911b and the *)
(* tags in its field.                                                      *)
(*                                                                         *)
(* Two threads run driver code: main(), which polls for user requests and  *)
(* interrupts and calls st25r3911b_nfca_process(), and the system work     *)
(* queue, which runs timeout_work of the driver and transmit_work of the   *)
(* sample; callbacks run in the thread that found the reason for them, and *)
(* nfc_timeout() sleeps in it.  The chip raises interrupts between any two *)
(* steps.  A delay of seconds (ALL_REQ_DELAY, TRANSMIT_DELAY) ends only    *)
(* when the exchange is over and main() waits or sleeps; RXS_TIMEOUT ends  *)
(* at any time.  Tags that are in the field together answer a detection    *)
(* alike, so that they first collide in the collision resolution, and the  *)
(* status of the interrupts can always be read.                            *)
(***************************************************************************)
EXTENDS Integers, St25r3911b

CONSTANTS
  TxLens,      \* bytes to send in a transfer
  RxLens,      \* room for the answer to a transfer
  Answers,     \* lengths of the answers of a tag to a transfer
  Rests,       \* bytes of an answer that are behind the bits a frame names
  Levels,      \* cascade levels of the tags there are
  MissesRxe    \* the chip may leave out the interrupt at the end of a frame

ASSUME ReaderAssumption ==
  /\ TxLens \subseteq Nat \ {0} /\ RxLens \subseteq Nat
  /\ Answers \subseteq 1..2 * FIFO_RX_WATER_LVL - 1   \* the level is reached once
  /\ Rests \subseteq 1..5
  /\ Levels \subseteq 1..3

VARIABLES
  s,      \* struct st25r3911b_nfca, the semaphores, the works and the chip
  main,   \* main(): [pc, todo, poll, status, cnt]
  wq      \* system work queue: "idle", or "asleep" in nfc_timeout()

vars == <<s, main, wq>>

NFCA_NFCID1_SINGLE_SIZE == 4
NFCID1_MAX_LEN == 10

Init ==
  /\ \E t \in [tx : TxLens, rx : RxLens] :
       s = [state |-> "IDLE", txrx |-> "TX_START", lvl |-> 0, idx |-> 0, tx |-> t.tx,
            rx |-> t.rx, written |-> 0,
            received |-> 0, user_sem |-> FALSE, timer |-> FALSE,
            work |-> FALSE, slept |-> FALSE, err |-> "none", chip |-> ChipInit,
            tag |-> 0,          \* environment: cascade levels of the tag that answers
            broken |-> FALSE,   \* auxiliary: what is stored is of an earlier resolution, or
                                \* tags have collided in this one
            misnamed |-> FALSE, \* auxiliary: an identifier reported was not the tag's
            crossed |-> FALSE,  \* auxiliary: what was read was not the answer, none being stale
            collided |-> FALSE, \* auxiliary: tags have collided
            stale |-> FALSE,    \* auxiliary: a frame was sent with an interrupt unread
            lost |-> FALSE]     \* auxiliary: the end of this transmission was overwritten
  /\ main = [pc |-> "start", todo |-> StartUp, poll |-> {}, status |-> {}, cnt |-> 0]
  /\ wq = "idle"

-----------------------------------------------------------------------------
(* The API: a request is accepted in STATE_IDLE only; the application      *)
(* prints the error otherwise.                                             *)

clear_local_data(d) == [d EXCEPT !.written = 0, !.received = 0]

\* The compare-and-set every request starts with, and the semaphore it ends with.
request(d, prepared, state) ==
  IF d.state # "IDLE" THEN d ELSE [prepared EXCEPT !.state = state, !.user_sem = TRUE]

st25r3911b_nfca_field_on(d) == request(d, d, "FIELD_ON")
st25r3911b_nfca_tag_sleep(d) == request(d, d, "SLEEP")
st25r3911b_nfca_tag_detect(d) == request(d, clear_local_data(d), "TAG_DETECTION")
st25r3911b_nfca_anticollision_start(d) == request(d, clear_local_data(d), "ANTICOLLISION")
st25r3911b_nfca_transfer(d) ==
  request(d, [clear_local_data(d) EXCEPT !.txrx = "TX_START"], "TRANSFER")

-----------------------------------------------------------------------------
(* The callbacks of the sample.                                            *)

nfc_field_on(d) == st25r3911b_nfca_tag_detect(d)
DetectsAtOnce(d) == st25r3911b_nfca_tag_detect(d)
nfc_timeout(d) == [d EXCEPT !.slept = TRUE]
tag_detected(d) == st25r3911b_nfca_anticollision_start(d)
anticollision_completed(d, is_t2t) ==
  IF is_t2t THEN st25r3911b_nfca_transfer(d) ELSE st25r3911b_nfca_tag_detect(d)
transfer_completed(d) == [st25r3911b_nfca_tag_sleep(d) EXCEPT !.work = TRUE]

-----------------------------------------------------------------------------
(* Frames the driver sends.                                                *)

Fails(d, err) == [d EXCEPT !.err = err]
Send(d, frame, bits) == [d EXCEPT !.chip = Transmit(@, frame, bits), !.lost = FALSE,
                                        !.stale = @ \/ d.chip.irq \cap bits # {}]

ReceptionBits == {"TXE", "RXS", "RXE", "COL"}

\* "sdd" asks for a part of the identifier, "rest" for what is behind the bits that
\* it names, and "sel" selects the tag with the part.
anticollision_transmit(d, kind) ==
  Send(d, [kind |-> kind, len |-> 7, lvl |-> d.lvl], ReceptionBits \cup {"NRE"})

ANTICOLLISION_CASCADE_3 == 3
anticollision_resolution(d, lvl) ==
  IF lvl > ANTICOLLISION_CASCADE_3 THEN Fails(d, "assert")
  ELSE anticollision_transmit([d EXCEPT !.lvl = lvl], "sdd")

tag_detect(d) ==
  Send(d, [kind |-> "detect", len |-> 0], ReceptionBits \cup {"NRE"})

\* transfer(); without a frame delay time there is no response to wait for.
transfer(d, len, fdt) ==
  LET sent == Send(d, [kind |-> IF fdt THEN "data" ELSE "slp", len |-> len],
                   ReceptionBits \cup {"FWL"} \cup (IF fdt THEN {"NRE"} ELSE {}))
  IN  IF tx_len_ok(len) THEN [sent EXCEPT !.written = IF len < ST25R3911B_MAX_FIFO_LEN
                                                       THEN len ELSE ST25R3911B_MAX_FIFO_LEN]
      ELSE Fails([d EXCEPT !.chip = transmission_prepare(@)], "EFAULT")

tag_sleep(d) == transfer(d, 2, FALSE)

user_state_process(d) ==
  CASE d.state = "TAG_DETECTION" -> tag_detect(d)
    [] d.state = "ANTICOLLISION" -> anticollision_resolution(d, 1)
    [] d.state = "TRANSFER" -> transfer(d, d.tx, TRUE)
    [] d.state = "SLEEP" -> tag_sleep(d)
    [] d.state = "FIELD_OFF" -> [d EXCEPT !.chip = st25r3911b_rx_tx_disable(@), !.state = "IDLE"]
    [] OTHER -> d

-----------------------------------------------------------------------------
(* What the driver does with what it receives.                             *)

timeout_process(d) ==
  nfc_timeout([d EXCEPT !.state = "IDLE", !.broken = d.idx # 0])

\* read_rx_data(): the bytes in the FIFO go behind the ones already received; the room
\* left is unsigned.
read_rx_data(d, len) ==
  IF len >= d.received /\ len - d.received < d.chip.n THEN Fails(d, "ENOMEM")
  ELSE [d EXCEPT !.chip = st25r3911b_fifo_read(@, d.chip.n)]

\* Auxiliary: the frame the FIFO's content answers, against the one expected, and
\* the bytes there are, against the ones that are needed.
Crosses(d, kinds, least) ==
  [d EXCEPT !.crossed = @ \/ (~d.stale /\ (d.chip.ans.kind \notin kinds \/ d.chip.n < least))]

SkipsFirstByte(d, cascade) == [d EXCEPT !.idx = @ + NFCA_NFCID1_SINGLE_SIZE - 1]

\* A part of the identifier, of three bytes behind a cascade tag; nothing keeps it
\* inside nfcid1.
store_nfcid1(d, cascade) ==
  [d EXCEPT !.idx = @ + NFCA_NFCID1_SINGLE_SIZE - (IF cascade THEN 1 ELSE 0)]

anticollision_rx(d0) ==
  LET ans == d0.chip.ans
      n == d0.chip.n
      d == read_rx_data(Crosses(d0, {"sdd", "sel"}, 1), 5)
      blank == ans.kind = "none" \/ n = 0   \* the buffer is all zero, and so is its check byte
  IN  IF d.err # "none" THEN d
      ELSE IF n = 1
      THEN IF ans.more THEN anticollision_resolution(d, d.lvl + 1)
           ELSE anticollision_completed(
                  [d EXCEPT !.state = "IDLE", !.idx = 0, !.broken = FALSE,
                            !.misnamed = @ \/ (~d.broken /\ ~d.stale /\ d.idx # 3 * d.tag + 1)],
                  ans.t2t)
      ELSE IF ~blank /\ (ans.kind # "sdd" \/ ~ans.ok)
      THEN anticollision_completed([d EXCEPT !.state = "IDLE", !.broken = d.idx # 0], FALSE)
      ELSE anticollision_transmit(
             store_nfcid1(d, ~blank /\ ans.kind = "sdd" /\ ans.cascade), "sel")

on_rx_complete(d) ==
  CASE d.state = "ANTICOLLISION" -> anticollision_rx(d)
    [] d.state = "TAG_DETECTION" ->
         tag_detected([read_rx_data(Crosses(d, {"sens"}, 1), 2) EXCEPT !.state = "IDLE"])
    [] d.state = "TRANSFER" ->
         transfer_completed([read_rx_data(Crosses(d, {"data"}, 0), d.rx) EXCEPT
                               !.received = @ + d.chip.n, !.state = "IDLE"])
    [] OTHER -> d

\* The rest of the frame is written at once, its length cut to a byte.
tx_fifo_water(d) ==
  LET k == (d.tx - d.written) % 256
  IN  IF fifo_write_ok(k) THEN [d EXCEPT !.written = @ + k]
      ELSE Fails([d EXCEPT !.written = @ + k], "EINVAL")

\* Auxiliary: a level that was not reached, although the one interrupt for both
\* directions cannot be the one of the transmission.
Misses(d) == [d EXCEPT !.crossed = @ \/ (/\ ~d.stale /\ d.tx <= ST25R3911B_MAX_FIFO_LEN
                                        /\ d.chip.n < FIFO_RX_WATER_LVL)]

rx_fifo_water(d) ==
  IF d.rx <= d.received + FIFO_RX_WATER_LVL THEN Fails(d, "assert")
  ELSE [Misses(d) EXCEPT !.received = @ + FIFO_RX_WATER_LVL,
                         !.chip = st25r3911b_fifo_read(@, FIFO_RX_WATER_LVL)]

on_fifo_water_lvl(d) ==
  CASE d.txrx = "TX_START" -> tx_fifo_water(d)
    [] d.txrx = "RX_START" -> rx_fifo_water(d)
    [] OTHER -> Fails(d, "EPERM")

\* The next frame names the bits before the collision, which are then forgotten: its
\* answer is read as if it were a whole one.
on_collision(d) ==
  LET r == read_rx_data(d, 5)
  IN  IF d.state # "ANTICOLLISION" THEN Fails(d, "EFAULT")
      ELSE IF r.err # "none" THEN r
      ELSE anticollision_transmit([r EXCEPT !.broken = TRUE], "rest")

TrustsRxe(d) == [d EXCEPT !.txrx = "RX_START"]

\* RXS also starts timeout_work, in case there is no RXE; RXE cancels it.
StartsReception(d) == [d EXCEPT !.txrx = "RX_START", !.timer = TRUE]
EndsReception(d) == [d EXCEPT !.txrx = "RX_COMPLETE", !.timer = FALSE]

\* The parts of irq_process(), one for each interrupt it handles.
OnTxe(d, irq) ==
  IF "TXE" \in irq
  THEN [d EXCEPT !.txrx = "TX_COMPLETE", !.state = IF @ = "SLEEP" THEN "IDLE" ELSE @] ELSE d
OnRxs(d, irq) == IF "RXS" \in irq THEN StartsReception(d) ELSE d
OnRxe(d, irq) == IF "RXE" \in irq THEN on_rx_complete(EndsReception(d)) ELSE d
OnCol(d, irq) == IF "COL" \in irq THEN on_collision(Fails(d, "none")) ELSE d
OnFwl(d, irq) == IF "FWL" \in irq THEN on_fifo_water_lvl(Fails(d, "none")) ELSE d
OnNre(d, irq) == IF "NRE" \in irq /\ d.txrx # "RX_START" THEN timeout_process(d) ELSE d

\* irq_process(): a later handler runs whatever an earlier one returned, and its
\* result is the one that counts.
irq_process(d, irq) ==
  LET received == OnRxe(OnRxs(OnTxe(d, irq), irq), irq)
  IN  OnNre(OnFwl(OnCol(received, irq), irq), irq)

-----------------------------------------------------------------------------
(* main().                                                                 *)

Goto(pc) == main' = [main EXCEPT !.pc = pc]
\* st25r3911b_nfca_process() returns after its user part, or goes on.
AfterUser == IF "irq" \in main.poll THEN "take" ELSE "wait"

Answer(cmd) ==
  {{}} \cup {{b} : b \in Awaits(cmd)}

\* A command of st25r3911b_init() or st25r3911b_field_on() is given.
StartCommand ==
  /\ main.pc = "start"
  /\ \E a \in Answer(Head(main.todo)) :
       s' = [s EXCEPT !.chip = command_start(@, Head(main.todo), a)]
  /\ Goto("await")
  /\ UNCHANGED wq

\* The interrupt it waits for has come.
CommandAnswered ==
  LET cmd == Head(main.todo)
      ok == Succeeds(cmd, IrqStatus(s.chip))
      ended == [s EXCEPT !.chip = command_end(@, cmd), !.state = "IDLE"]
  IN  /\ main.pc = "await" /\ s.chip.sem
      /\ s' = IF ~ok THEN Fails(ended, "EACCES")
              ELSE IF cmd = "field_on"
              THEN nfc_field_on([ended EXCEPT !.chip = rx_tx_enable(@)])
              ELSE IF Len(main.todo) = 1
              THEN st25r3911b_nfca_field_on([ended EXCEPT !.chip = st25r3911b_rx_tx_disable(@)])
              ELSE ended
      /\ main' = [main EXCEPT !.todo = Tail(@),
                              !.pc = IF ~ok THEN "ended"
                                     ELSE IF Len(main.todo) > 1 THEN "start"
                                     ELSE IF cmd = "field_on" THEN AfterUser ELSE "wait"]
      /\ UNCHANGED wq

\* No interrupt came in time.
CommandTimesOut ==
  /\ main.pc = "await" /\ ~s.chip.sem /\ s.chip.wire = << >>
  /\ s' = Fails([s EXCEPT !.chip = command_end(@, Head(main.todo)), !.state = "IDLE"], "ENXIO")
  /\ Goto("ended")
  /\ UNCHANGED wq

\* k_poll() returns: with everything that is there when it is called, or with
\* what woke it up.
Poll ==
  LET there == (IF s.user_sem THEN {"user"} ELSE {}) \cup (IF s.chip.sem THEN {"irq"} ELSE {})
  IN  /\ main.pc = "wait"
      /\ there # {}
      /\ \E p \in {there} \cup {{e} : e \in there} :
           main' = [main EXCEPT !.poll = p, !.pc = IF "user" \in p THEN "user" ELSE "take"]
      /\ UNCHANGED <<s, wq>>

\* st25r3911b_nfca_process(): the request of the application.
ProcessUser ==
  LET d == [s EXCEPT !.user_sem = FALSE]
      done == user_state_process(d)
  IN  /\ main.pc = "user"
      /\ IF d.state = "FIELD_ON"
         THEN s' = d /\ main' = [main EXCEPT !.pc = "start", !.todo = <<"field_on">>]
         ELSE s' = done /\ Goto(IF done.err = "none" THEN AfterUser ELSE "ended")
      /\ UNCHANGED wq

\* st25r3911b_nfca_process(): the semaphore is taken.
ProcessIrq ==
  /\ main.pc = "take"
  /\ s' = [s EXCEPT !.chip.sem = FALSE]
  /\ main' = [main EXCEPT !.pc = "read"]
  /\ UNCHANGED wq

IRQ_REG_READ_MAX_CNT == 5

\* st25r3911b_irq_read(): the registers are read, then the pin; what an earlier
\* pass read is overwritten.
st25r3911b_irq_read ==
  /\ main.pc = "read"
  /\ s' = [s EXCEPT !.chip = st25r39_irq_clear(@), !.lost = @ \/ "TXE" \in main.status]
  /\ main' = [main EXCEPT !.status = IrqStatus(s.chip), !.cnt = @ + 1, !.pc = "pin"]
  /\ UNCHANGED wq

PinRead ==
  /\ main.pc = "pin"
  /\ Goto(IF Pin(s.chip) /\ main.cnt < IRQ_REG_READ_MAX_CNT THEN "read" ELSE "process")
  /\ UNCHANGED <<s, wq>>

\* irq_process(); a callback that sleeps does so at its very end.
IrqProcess ==
  LET d == irq_process(s, main.status)
  IN  /\ main.pc = "process"
      /\ s' = [d EXCEPT !.slept = FALSE]
      /\ main' = [main EXCEPT !.pc = IF d.slept THEN "asleep"
                                     ELSE IF d.err # "none" THEN "ended" ELSE "wait",
                              !.poll = {}, !.status = {}, !.cnt = 0]
      /\ UNCHANGED wq

\* An SPI transfer fails, and the loop of the sample ends.
BusFails ==
  /\ main.pc \in {"user", "process"}
  /\ s' = Fails([s EXCEPT !.state = IF @ \in {"FIELD_ON", "FIELD_OFF"} THEN "IDLE" ELSE @], "EIO")
  /\ Goto("ended")
  /\ UNCHANGED wq

-----------------------------------------------------------------------------
(* The chip and the tags.                                                  *)

\* What follows a frame: the interrupts and the answer that is in the FIFO.
Heard(ev, ans) == [ev |-> ev, ans |-> ans]
Received(n, ans) ==
  {Heard(Reception(n), ans)} \cup (IF MissesRxe THEN {Heard(WithoutRxe(n), ans)} ELSE {})
Silence == Heard(NoResponse, NoAnswer)

\* The last n bytes of an answer, the first of them in part, as they look to a reader
\* that takes them for its first bytes: one is an acknowledgment of a selection, and
\* the check byte of more, with zeros behind them, is right by chance only.
Noise == [kind |-> "sdd", ok |-> FALSE, cascade |-> FALSE]
Cut(n) == IF n = 1 THEN [kind : {"sel"}, more : BOOLEAN, t2t : BOOLEAN]
          ELSE [kind : {"sdd"}, ok : {TRUE}, cascade : BOOLEAN] \cup {Noise}

\* Answers to a frame of a tag with k cascade levels, alone in the field or not.
Outcomes(f, k) ==
  CASE f.kind = "slp" -> {Heard(<< >>, NoAnswer)}
    [] f.kind = "detect" ->
         {Silence} \cup (IF k = 0 THEN {} ELSE Received(2, [kind |-> "sens"]))
    [] f.kind = "sdd" ->
         LET part == [kind |-> "sdd", ok |-> TRUE, cascade |-> f.lvl < k]
         IN  {Silence} \cup (IF f.lvl \notin 1..k THEN {} ELSE Received(5, part)
               \cup {Heard(Reception(5), Noise), Heard(Collision, Noise)})
    [] f.kind = "rest" ->
         {Silence} \cup (IF f.lvl \notin 1..k THEN {}
           ELSE {Heard(Collision, Noise)}
                \cup UNION {UNION {Received(n, a) : a \in Cut(n)} : n \in Rests})
    [] f.kind = "sel" ->
         {Silence} \cup (IF f.lvl \notin 1..k THEN {}
           ELSE UNION {Received(1, [kind |-> "sel", more |-> f.lvl < k, t2t |-> b]) : b \in BOOLEAN})
    [] f.kind = "data" ->
         {Silence} \cup UNION {Received(n, [kind |-> "data"]) : n \in Answers}
    [] OTHER -> {Heard(<< >>, NoAnswer)}

\* The chip raises an interrupt; at the end of the transmission it is settled who
\* answers, and at a detection which tag is in the field.
ChipInterrupt ==
  /\ s.chip.wire # << >>
  /\ LET sent == "TXE" \in Head(s.chip.wire).bits
         f == s.chip.frame
     IN  \E k \in IF sent /\ f.kind = "detect" THEN Levels \cup {0} ELSE {s.tag} :
         \E o \in IF sent THEN Outcomes(f, k) ELSE {Heard(Tail(s.chip.wire), s.chip.ans)} :
           s' = [s EXCEPT !.chip = [Raise(@) EXCEPT !.wire = o.ev, !.ans = o.ans], !.tag = k,
                         !.collided = @ \/ "COL" \in Head(s.chip.wire).bits]
  /\ UNCHANGED <<main, wq>>

-----------------------------------------------------------------------------
(* The system work queue, and the end of the long delays.                  *)

\* timeout_handler(), RXS_TIMEOUT after the start of a reception.
timeout_handler ==
  /\ s.timer /\ wq = "idle"
  /\ LET d == timeout_process([s EXCEPT !.timer = FALSE])
     IN  /\ s' = [d EXCEPT !.slept = FALSE]
         /\ wq' = IF d.slept THEN "asleep" ELSE "idle"
  /\ UNCHANGED main

MainRests == main.pc \in {"asleep", "ended"} \/ (main.pc = "wait" /\ ~s.user_sem /\ ~s.chip.sem)
LongAfter == s.chip.wire = << >> /\ MainRests /\ (s.timer => wq = "asleep")

\* The end of nfc_timeout(), in main() or in the work queue.
WakeMain ==
  /\ main.pc = "asleep" /\ LongAfter
  /\ s' = st25r3911b_nfca_tag_detect(s)
  /\ Goto(IF s.err # "none" THEN "ended" ELSE "wait")
  /\ UNCHANGED wq

WakeWorkQueue ==
  /\ wq = "asleep" /\ LongAfter
  /\ s' = st25r3911b_nfca_tag_detect(s)
  /\ wq' = "idle"
  /\ UNCHANGED main

\* The work of the sample, TRANSMIT_DELAY after a transfer.
transfer_handler ==
  /\ s.work /\ wq = "idle" /\ LongAfter
  /\ s' = st25r3911b_nfca_tag_detect([s EXCEPT !.work = FALSE])
  /\ UNCHANGED <<main, wq>>

\* memcpy() wrote behind nfcid1: over the flag sleep, and with two bytes more over the
\* state of the driver.  What the program does from there is not defined.
Overrun == s.idx > NFCID1_MAX_LEN

Next ==
  /\ ~Overrun
  /\ \/ StartCommand \/ CommandAnswered \/ CommandTimesOut \/ Poll \/ ProcessUser
     \/ ProcessIrq \/ st25r3911b_irq_read \/ PinRead \/ IrqProcess \/ BusFails
     \/ ChipInterrupt \/ timeout_handler \/ WakeMain \/ WakeWorkQueue \/ transfer_handler

Spec == Init /\ [][Next]_vars

-----------------------------------------------------------------------------
(* The reader never falls silent: while main() waits with nothing to do,   *)
(* an exchange is under way, or a work or a sleeping callback will start   *)
(* the next detection; whatever the tags do, frames that end without RXE,  *)
(* and time-outs of the work queue that race main() included.  The one     *)
(* exception is an end of transmission that st25r3911b_irq_read()          *)
(* overwrote: the state of the exchange before is then taken for this one. *)
ReaderGoesOn ==
  main.pc = "wait" /\ ~s.user_sem /\ ~s.chip.sem /\ s.chip.wire = << >>
    => s.timer \/ s.work \/ wq = "asleep" \/ s.lost

(* An identifier that is reported is the tag's, all levels and no more,    *)
(* and none is written behind the end of nfcid1, with three exceptions: a  *)
(* resolution was broken off before (nfcid_idx is reset only when one      *)
(* completes), tags have collided in this one (the driver asks for the     *)
(* rest of the answer and takes it for a whole one), or an interrupt of an *)
(* earlier frame was left over.                                            *)
IdentifierWhole == ~s.misnamed /\ (Overrun => s.broken \/ s.stale)

(* What the driver reads from the FIFO is the answer to the request it     *)
(* serves, and there is one, if no interrupt of an earlier frame was left  *)
(* over, and none is unless tags have collided: then the end of the frame  *)
(* that was given up can be taken for the end of the next one.  (When the  *)
(* frame sent was longer than the FIFO, the interrupt for its level can be *)
(* taken for the one of the answer: they are the same bit.)                *)
AnswersMatch == ~s.crossed /\ (s.stale => s.collided)
=============================================================================
