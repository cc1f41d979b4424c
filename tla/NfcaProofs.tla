----------------------------- MODULE NfcaProofs -----------------------------
(***************************************************************************)
(* Proofs about the NFC reader of NfcaReader, for every length of the      *)
(* frames, the answers and the buffers, all tags and every interleaving of *)
(* the two threads with the interrupts of the chip.                        *)
(***************************************************************************)
EXTENDS NfcaReader, SequenceTheorems, TLAPS

-----------------------------------------------------------------------------
(* The type of the state.                                                  *)

States == {"IDLE", "FIELD_ON", "TAG_DETECTION", "ANTICOLLISION", "TRANSFER", "SLEEP"}
TxRx == {"TX_START", "TX_COMPLETE", "RX_START", "RX_COMPLETE"}
Errors == {"none", "EACCES", "ENXIO", "EIO", "EFAULT", "ENOMEM", "EINVAL", "EPERM",
           "assert"}
Commands == {"osc_start", "measure_voltage", "adjust_regulator", "calibrate_antenna",
             "field_on"}

Event == [bits : {{b} : b \in Bits}, n : Nat]
Frame == [kind : {"none", "detect", "slp", "data"}, len : Nat]
           \cup [kind : {"sdd", "rest", "sel"}, len : Nat, lvl : Nat]
Answered == [kind : {"none", "sens", "data"}]
              \cup [kind : {"sdd"}, ok : BOOLEAN, cascade : BOOLEAN]
              \cup [kind : {"sel"}, more : BOOLEAN, t2t : BOOLEAN]

Chip == [irq : SUBSET Bits, mask : SUBSET Bits, sem : BOOLEAN, field : BOOLEAN,
         wire : Seq(Event), frame : Frame, ans : Answered, n : Nat]

Driver ==
  [state : States, txrx : TxRx, lvl : Nat, idx : Nat, tx : Nat, rx : Nat, written : Int,
   received : Int, user_sem : BOOLEAN, timer : BOOLEAN, work : BOOLEAN, slept : BOOLEAN,
   err : Errors, chip : Chip, tag : 0..3, broken : BOOLEAN, misnamed : BOOLEAN,
   crossed : BOOLEAN, collided : BOOLEAN, stale : BOOLEAN, lost : BOOLEAN]

StartPcs == {"start", "await"}
LoopPcs == {"wait", "user", "take", "read", "pin", "process", "asleep"}
MainThread ==
  [pc : StartPcs \cup LoopPcs \cup {"ended"}, todo : Seq(Commands),
   poll : SUBSET {"user", "irq"}, status : SUBSET Bits, cnt : Nat]

TypeOK == s \in Driver /\ main \in MainThread /\ wq \in {"idle", "asleep"}

-----------------------------------------------------------------------------
(* Interrupts: to come, not read yet, and both.                            *)

Due(w) == UNION {w[i].bits : i \in DOMAIN w}
Wire(c) == Due(c.wire)
Unread(c) == c.irq \ c.mask
Coming(c) == Wire(c) \cup Unread(c)

Ends == {"RXS", "RXE", "COL", "FWL", "NRE"}
Enabled(f) ==
  CASE f.kind \in {"detect", "sdd", "rest", "sel"} -> ReceptionBits \cup {"NRE"}
    [] f.kind = "data" -> ReceptionBits \cup {"NRE", "FWL"}
    [] f.kind = "slp" -> ReceptionBits \cup {"FWL"}
    [] OTHER -> {}

(* The chip while a frame is exchanged: what is to come is not masked, and *)
(* behind an end of transmission that is not read there is an answer or    *)
(* its absence, except after a frame that has none.                        *)
ChipOK(c) ==
  /\ c.mask = Bits \ Enabled(c.frame)
  /\ Wire(c) \subseteq Enabled(c.frame)
  /\ "TXE" \in Unread(c) /\ "TXE" \notin Wire(c) /\ c.frame.kind # "slp"
       => {"NRE", "RXS"} \cap Coming(c) # {}
  /\ \A i \in DOMAIN c.wire : c.wire[i].bits = {"TXE"} => i = Len(c.wire)
  /\ c.frame.kind = "none" => c.irq = {} /\ ~c.sem /\ c.wire = << >>

(* The frame is one of the state, once the request has been served.        *)
Matches(d) ==
  ~d.user_sem =>
    /\ d.state = "TAG_DETECTION" => d.chip.frame.kind = "detect"
    /\ d.state = "ANTICOLLISION" => d.chip.frame.kind \in {"sdd", "rest", "sel"}
    /\ d.state = "TRANSFER" => d.chip.frame.kind = "data"
    /\ d.state = "SLEEP" => d.chip.frame.kind = "slp"

-----------------------------------------------------------------------------
(* Why the reader goes on.  In a state with an exchange, the request is    *)
(* not served yet, timeout_work is pending, the frame is being sent, or    *)
(* its end is not read or has been noticed and one more interrupt follows; *)
(* or the end was overwritten.  st is what main() has read.                *)

Active == {"TAG_DETECTION", "ANTICOLLISION", "TRANSFER"}

Noticed(d, st) ==
  /\ "TXE" \in Unread(d.chip) \cup st \/ d.txrx \in {"TX_COMPLETE", "RX_COMPLETE"}
  /\ Ends \cap (Coming(d.chip) \cup st) # {}

Alive(d, st) ==
  /\ d.state \in Active =>
       \/ d.user_sem \/ d.timer \/ d.lost \/ "TXE" \in Wire(d.chip) \/ Noticed(d, st)
  /\ d.state = "SLEEP" /\ ~d.user_sem => d.lost \/ "TXE" \in Coming(d.chip) \cup st
  /\ d.state = "SLEEP" /\ (d.user_sem \/ "TXE" \in Coming(d.chip) \cup st) => d.work
  /\ d.state = "FIELD_ON" => d.user_sem /\ d.chip.frame.kind = "none"

LoopOK ==
  main.pc \in LoopPcs =>
    /\ ChipOK(s.chip) /\ Matches(s) /\ Alive(s, main.status)
    /\ Pin(s.chip) => s.chip.sem \/ main.pc = "read"
    /\ s.state = "IDLE" => s.work \/ wq = "asleep" \/ main.pc = "asleep"
    /\ main.pc \notin {"read", "pin", "process"} => main.status = {}
    /\ main.pc = "read" /\ main.status # {} => Pin(s.chip)
    /\ main.pc = "asleep" => s.state = "IDLE" \/ (s.state = "TAG_DETECTION" /\ s.user_sem)
    /\ main.pc = "user" => s.user_sem
    /\ s.chip.frame.kind = "none" =>
         main.status = {} /\ main.pc \in {"wait", "user"} /\ "irq" \notin main.poll /\ s.idx = 0

(* The commands before: one interrupt each, or none.                       *)
StartOK ==
  main.pc \in StartPcs =>
    /\ main.todo # << >> /\ s.chip.frame.kind = "none" /\ main.status = {}
    /\ s.state \in {"IDLE", "FIELD_ON"} /\ s.idx = 0
    /\ "irq" \notin main.poll
    /\ \/ main.todo = <<"field_on">>
       \/ \A i \in DOMAIN main.todo : main.todo[i] # "field_on"
    /\ main.pc = "start" =>
         s.chip.mask = Bits /\ s.chip.irq = {} /\ ~s.chip.sem /\ s.chip.wire = << >>
    /\ main.pc = "await" =>
         /\ s.chip.mask = Bits \ Awaits(Head(main.todo))
         /\ Wire(s.chip) \subseteq Awaits(Head(main.todo)) /\ Len(s.chip.wire) <= 1
         /\ s.chip.wire # << >> => ~s.chip.sem /\ s.chip.irq = {}

GoesOnInv == TypeOK /\ ~s.slept /\ LoopOK /\ StartOK

-----------------------------------------------------------------------------
(* The clean exchange: as long as no interrupt was left over, everything   *)
(* that is to come, raised or read belongs to the frame last sent.         *)

Raised(d, st) == d.chip.irq \cup st
All(d, st) == Wire(d.chip) \cup Raised(d, st)

Sizes(f, a) ==
  CASE f.kind = "detect" -> {2} [] f.kind = "sdd" -> {5} [] f.kind = "sel" -> {1}
    [] f.kind = "rest" -> IF a.kind = "sel" THEN {1} ELSE 2..5
    [] OTHER -> {0}

AnswerTo(f, a, k) ==
  /\ f.kind = "detect" => a.kind = "sens"
  /\ f.kind = "sdd" => a.kind = "sdd" /\ f.lvl \in 1..k
                         /\ (a.ok => (a.cascade <=> f.lvl < k))
  /\ f.kind = "rest" => a.kind \in {"sdd", "sel"}
  /\ f.kind = "sel" => a.kind = "sel" /\ f.lvl \in 1..k /\ (a.more <=> f.lvl < k)
  /\ f.kind = "data" => a.kind = "data"

(* Interrupts come in their order: nothing follows the end of a reception  *)
(* or its absence, and a frame that is being sent has raised none but that *)
(* for the level of the FIFO.                                              *)
InOrder(d, st) ==
  /\ d.chip.irq \cap d.chip.mask = {}
  /\ {"RXE", "NRE"} \cap Raised(d, st) # {} => d.chip.wire = << >>
  /\ {"RXE", "NRE"} \cap st # {} => d.chip.irq = {}
  /\ "NRE" \in All(d, st) => {"RXS", "RXE", "COL"} \cap All(d, st) = {}
  /\ "TXE" \in Wire(d.chip) => All(d, st) \subseteq {"FWL", "TXE"}
  /\ \A i \in DOMAIN d.chip.wire :
       /\ d.chip.wire[i].bits \in {{"RXE"}, {"NRE"}} => i = Len(d.chip.wire)
       /\ \A j \in DOMAIN d.chip.wire : d.chip.wire[i].bits = d.chip.wire[j].bits => i = j

(* The FIFO: how much an answer has, a collision that has spoilt it, and   *)
(* the level that was reached once.                                        *)
Fills(d, st) ==
  LET c == d.chip IN
  /\ "RXE" \in All(d, st) => AnswerTo(c.frame, c.ans, d.tag)
  /\ "RXE" \in Raised(d, st) /\ c.frame.kind # "data" => c.n \in Sizes(c.frame, c.ans)
  /\ \A i \in DOMAIN c.wire :
       /\ c.wire[i].bits = {"RXE"} /\ c.frame.kind # "data" =>
            c.n + c.wire[i].n + (IF "COL" \in Wire(c) THEN 2 ELSE 0)
              \in Sizes(c.frame, c.ans)
       /\ c.wire[i].bits = {"COL"} => c.wire[i].n = 2
       /\ c.wire[i].bits \in {{"RXS"}, {"TXE"}} => c.wire[i].n = 0
       /\ c.wire[i].bits = {"FWL"} /\ "TXE" \in Wire(c) => c.wire[i].n = 0
  /\ "TXE" \in Wire(c) => c.n = 0
  /\ "COL" \in All(d, st) => c.frame.kind \in {"sdd", "rest"} /\ c.ans.kind = "sdd" /\ ~c.ans.ok
  /\ "COL" \in Raised(d, st) => d.collided

LevelOnce(d, st) ==
  LET c == d.chip IN
  /\ "FWL" \in All(d, st) => c.frame.kind = "data"
  /\ c.frame.kind = "data" => c.frame.len = d.tx
  /\ d.tx <= ST25R3911B_MAX_FIFO_LEN =>
       /\ \A i \in DOMAIN c.wire : c.wire[i].bits = {"FWL"} =>
            c.wire[i].n = FIFO_RX_WATER_LVL
       /\ "TXE" \in Wire(c) => "FWL" \notin All(d, st)
       /\ "FWL" \in Raised(d, st) => "FWL" \notin Wire(c) /\ c.n >= FIFO_RX_WATER_LVL
       /\ "FWL" \in st => "FWL" \notin c.irq

(* The part of the identifier that is stored, when no resolution was       *)
(* broken off and no tags have collided in this one.                       *)
Stored(d) ==
  ~d.broken =>
    /\ d.state # "ANTICOLLISION" \/ d.user_sem => d.idx = 0
    /\ d.state = "ANTICOLLISION" /\ ~d.user_sem =>
         LET f == d.chip.frame IN
         /\ f.lvl = d.lvl /\ f.lvl \in 1..3 /\ f.kind \in {"sdd", "sel"}
         /\ f.kind = "sdd" => d.idx = 3 * (f.lvl - 1)
         /\ f.kind = "sel" => f.lvl \in 1..d.tag
                              /\ d.idx = 3 * f.lvl + (IF f.lvl < d.tag THEN 0 ELSE 1)

(* What is stored is inside nfcid1.                                        *)
Fits(d) == d.idx <= NFCID1_MAX_LEN \/ d.broken \/ d.stale

CleanOK(d, st) ==
  /\ d.user_sem => d.chip.wire = << >> /\ d.chip.irq = {} /\ st = {}
  /\ InOrder(d, st) /\ Fills(d, st) /\ LevelOnce(d, st) /\ Stored(d)

CleanInv ==
  /\ ~s.crossed /\ ~s.misnamed /\ (s.stale => s.collided) /\ Fits(s)
  /\ main.pc \in LoopPcs /\ ~s.stale =>
       /\ CleanOK(s, main.status)
       /\ main.pc = "asleep" => s.chip.wire = << >> /\ s.chip.irq = {}

ReaderInv == GoesOnInv /\ CleanInv

-----------------------------------------------------------------------------
(* Interrupts to come.                                                     *)

\* Nothing is due on an empty wire.
LEMMA DueEmpty == Due(<< >>) = {}
  BY DEF Due

\* One interrupt.
LEMMA DueOne ==
  ASSUME NEW e
  PROVE  /\ Due(<<e>>) = e.bits /\ Len(<<e>>) = 1 /\ DOMAIN <<e>> = {1}
         /\ <<e>>[1] = e /\ Head(<<e>>) = e /\ Tail(<<e>>) = << >>
<1>1. DOMAIN <<e>> = {1} /\ <<e>>[1] = e
  OBVIOUS
<1>2. Due(<<e>>) = e.bits
  BY <1>1 DEF Due
<1> QED
  BY <1>1, <1>2

\* Interrupts one after the other.
LEMMA Joined ==
  ASSUME NEW a, NEW b
  PROVE  <<a>> \o <<b>> = <<a, b>> /\ << >> \o <<b>> = <<b>>
<1>1. <<a>> \in Seq({a, b}) /\ <<b>> \in Seq({a, b}) /\ <<a, b>> \in Seq({a, b})
  OBVIOUS
<1>2. /\ <<a>> \o <<b>> \in Seq({a, b}) /\ Len(<<a>> \o <<b>>) = 2 
      /\ \A i \in 1..2 : (<<a>> \o <<b>>)[i] = <<a, b>>[i]
  BY <1>1
<1> QED
  BY <1>1, <1>2, SeqEqual, ConcatEmptySeq

\* Two interrupts.
LEMMA DueTwo ==
  ASSUME NEW e, NEW f
  PROVE  /\ Due(<<e, f>>) = e.bits \cup f.bits /\ Len(<<e, f>>) = 2 /\ DOMAIN <<e, f>> = {1, 2}
         /\ <<e, f>>[1] = e /\ <<e, f>>[2] = f
<1>1. DOMAIN <<e, f>> = {1, 2} /\ <<e, f>>[1] = e /\ <<e, f>>[2] = f
  OBVIOUS
<1>2. Due(<<e, f>>) = e.bits \cup f.bits
  BY <1>1 DEF Due
<1> QED
  BY <1>1, <1>2

\* Three interrupts.
LEMMA DueThree ==
  ASSUME NEW e, NEW f, NEW g
  PROVE  /\ Due(<<e, f, g>>) = e.bits \cup f.bits \cup g.bits
         /\ Len(<<e, f, g>>) = 3 /\ DOMAIN <<e, f, g>> = {1, 2, 3}
         /\ <<e, f, g>>[1] = e /\ <<e, f, g>>[2] = f /\ <<e, f, g>>[3] = g
<1>1. /\ DOMAIN <<e, f, g>> = {1, 2, 3}
      /\ <<e, f, g>>[1] = e /\ <<e, f, g>>[2] = f /\ <<e, f, g>>[3] = g
  OBVIOUS
<1>2. Due(<<e, f, g>>) = e.bits \cup f.bits \cup g.bits
  BY <1>1 DEF Due
<1> QED
  BY <1>1, <1>2

\* The next interrupt, and the others.
LEMMA DueTail ==
  ASSUME NEW w \in Seq(Event), w # << >>
  PROVE  /\ Head(w) \in Event /\ Head(w) = w[1] /\ 1 \in DOMAIN w /\ Len(w) \in Nat
         /\ Tail(w) \in Seq(Event) /\ Len(Tail(w)) = Len(w) - 1
         /\ \A i \in DOMAIN Tail(w) : i + 1 \in DOMAIN w /\ Tail(w)[i] = w[i + 1] /\ i \in Nat \ {0}
         /\ Due(w) = Head(w).bits \cup Due(Tail(w))
         /\ \E b \in Bits : Head(w).bits = {b}
         /\ Head(w).n \in Nat
<1>1. /\ Head(w) \in Event /\ Head(w) = w[1] /\ 1 \in DOMAIN w /\ Len(w) \in Nat
      /\ Tail(w) \in Seq(Event) /\ Len(Tail(w)) = Len(w) - 1
      /\ \A i \in DOMAIN Tail(w) : i + 1 \in DOMAIN w /\ Tail(w)[i] = w[i + 1] /\ i \in Nat \ {0}
  OBVIOUS
<1>2. \A i \in DOMAIN w : i = 1 \/ (i - 1 \in DOMAIN Tail(w) /\ w[i] = Tail(w)[i - 1])
  OBVIOUS
<1>3. Due(w) = Head(w).bits \cup Due(Tail(w))
  <2>1. ASSUME NEW b \in Due(w) PROVE b \in Head(w).bits \cup Due(Tail(w))
    <3>1. PICK i \in DOMAIN w : b \in w[i].bits
      BY <2>1 DEF Due
    <3>2. CASE i = 1
      BY <3>1, <3>2, <1>1
    <3>3. CASE i - 1 \in DOMAIN Tail(w) /\ w[i] = Tail(w)[i - 1]
      BY <3>1, <3>3 DEF Due
    <3> QED
      BY <3>2, <3>3, <1>2
  <2>2. ASSUME NEW b \in Head(w).bits \cup Due(Tail(w)) PROVE b \in Due(w)
    BY <2>2, <1>1, <1>2 DEF Due
  <2> QED
    BY <2>1, <2>2
<1>4. /\ \E b \in Bits : Head(w).bits = {b}
      /\ Head(w).n \in Nat
  BY <1>1 DEF Event
<1> QED
  BY <1>1, <1>3, <1>4

\* An interrupt that is due is one of the wire.
LEMMA DueIs ==
  ASSUME NEW w \in Seq(Event), NEW b
  PROVE  /\ b \in Due(w) <=> \E i \in DOMAIN w : w[i].bits = {b}
         /\ \A i \in DOMAIN w : w[i].n \in Nat /\ \E x \in Bits : w[i].bits = {x}
<1>1. \A i \in DOMAIN w : w[i] \in Event
  OBVIOUS
<1>2. \A i \in DOMAIN w : w[i].n \in Nat /\ \E x \in Bits : w[i].bits = {x}
  BY <1>1 DEF Event
<1>3. b \in Due(w) <=> \E i \in DOMAIN w : b \in w[i].bits
  BY DEF Due
<1> QED
  BY <1>2, <1>3

-----------------------------------------------------------------------------
(* The chip.                                                               *)

Sent(f) ==
  IF f.len > ST25R3911B_MAX_FIFO_LEN
  THEN <<[bits |-> {"FWL"}, n |-> 0], [bits |-> {"TXE"}, n |-> 0]>>
  ELSE <<[bits |-> {"TXE"}, n |-> 0]>>

\* What a frame that is sent will raise.
LEMMA SentWire ==
  ASSUME NEW f \in Frame
  PROVE  /\ Sent(f) \in Seq(Event) /\ "TXE" \in Due(Sent(f)) /\ Due(Sent(f)) \subseteq {"FWL", "TXE"}
         /\ \A i \in DOMAIN Sent(f) :
              /\ Sent(f)[i].n = 0 /\ Sent(f)[i].bits \in {{"FWL"}, {"TXE"}}
              /\ Sent(f)[i].bits = {"TXE"} => i = Len(Sent(f))
              /\ \A j \in DOMAIN Sent(f) : Sent(f)[i].bits = Sent(f)[j].bits => i = j
         /\ "FWL" \in Due(Sent(f)) <=> f.len > ST25R3911B_MAX_FIFO_LEN
<1> DEFINE t == [bits |-> {"TXE"}, n |-> 0]
           l == [bits |-> {"FWL"}, n |-> 0]
<1>1. t \in Event /\ l \in Event /\ t.bits = {"TXE"} /\ l.bits = {"FWL"} /\ t.n = 0 /\ l.n = 0
  BY DEF Event, Bits
<1>2. {"TXE"} # {"FWL"}
  OBVIOUS
<1> HIDE DEF t, l
<1>3. CASE f.len > ST25R3911B_MAX_FIFO_LEN
  <2>1. Sent(f) = <<l, t>>
    BY <1>3 DEF Sent, t, l
  <2> QED
    BY <1>1, <1>2, <1>3, <2>1, DueTwo
<1>4. CASE ~(f.len > ST25R3911B_MAX_FIFO_LEN)
  <2>1. Sent(f) = <<t>>
    BY <1>4 DEF Sent, t
  <2> QED
    BY <1>1, <1>2, <1>4, <2>1, DueOne
<1> QED
  BY <1>3, <1>4

\* transmission_prepare() masks everything and empties the FIFO.
LEMMA PrepareChip ==
  ASSUME NEW c \in Chip
  PROVE  transmission_prepare(c) =
           [c EXCEPT !.wire = << >>, !.n = 0, !.ans = NoAnswer, !.mask = Bits]
<1> DEFINE e == [c EXCEPT !.wire = << >>, !.n = 0, !.ans = NoAnswer]
           m == [e EXCEPT !.mask = Bits]
<1>1. (e.mask \ {}) \cup Bits = Bits /\ e.irq \subseteq Bits
  BY DEF Chip
<1>2. transmission_prepare(c) = irq_pin_cb(e, [e EXCEPT !.mask = (@ \ {}) \cup Bits])
  BY DEF transmission_prepare, st25r3911b_irq_disable, st25r3911b_irq_modify
<1>3. transmission_prepare(c) = irq_pin_cb(e, m)
  BY <1>1, <1>2
<1>4. ~Pin(m) /\ m.sem \in BOOLEAN
  BY <1>1 DEF Pin, Chip
<1>5. irq_pin_cb(e, m) = m
  BY <1>4 DEF irq_pin_cb, Chip
<1>6. m = [c EXCEPT !.wire = << >>, !.n = 0, !.ans = NoAnswer, !.mask = Bits]
  BY DEF Chip
<1> QED
  BY <1>3, <1>5, <1>6

\* A frame is sent: nothing of an earlier exchange is to come, but an interrupt
\* that was raised and not read is taken for one of this frame.
LEMMA TransmitChip ==
  ASSUME NEW c \in Chip, NEW f \in Frame, NEW bits \in SUBSET Bits
  PROVE  /\ Transmit(c, f, bits) \in Chip
         /\ Transmit(c, f, bits).irq = c.irq
         /\ Transmit(c, f, bits).mask = Bits \ bits
         /\ Transmit(c, f, bits).sem = (c.sem \/ c.irq \cap bits # {})
         /\ Transmit(c, f, bits).wire = Sent(f)
         /\ Transmit(c, f, bits).frame = f
         /\ Transmit(c, f, bits).ans = NoAnswer
         /\ Transmit(c, f, bits).n = 0
<1> DEFINE p == transmission_prepare(c)
           w == (IF f.len > ST25R3911B_MAX_FIFO_LEN THEN <<[bits |-> {"FWL"}, n |-> 0]>>
                 ELSE << >>) \o <<[bits |-> {"TXE"}, n |-> 0]>>
           e == st25r3911b_irq_enable(p, bits)
<1>1. w = Sent(f)
  <2>1. ASSUME NEW a, NEW b PROVE <<a>> \o <<b>> = <<a, b>> /\ << >> \o <<b>> = <<b>>
    BY Joined
  <2> QED
    BY <2>1 DEF Sent
<1>2. /\ p \in Chip /\ p.irq = c.irq /\ p.mask = Bits /\ p.sem = c.sem /\ p.wire = << >>
      /\ p.ans = NoAnswer /\ p.n = 0 /\ p.frame = c.frame /\ p.irq \subseteq Bits
  <2>1. NoAnswer \in Answered
    BY DEF NoAnswer, Answered
  <2>2. p = [c EXCEPT !.wire = << >>, !.n = 0, !.ans = NoAnswer, !.mask = Bits]
    BY PrepareChip
  <2>3. << >> \in Seq(Event) /\ 0 \in Nat /\ Bits \in SUBSET Bits
    OBVIOUS
  <2> QED
    BY <2>1, <2>2, <2>3 DEF Chip
<1> HIDE DEF p, w
<1>3. (p.mask \ bits) \cup {} = Bits \ bits
  BY <1>2
<1>4. e = irq_pin_cb(p, [p EXCEPT !.mask = Bits \ bits])
  BY <1>3 DEF st25r3911b_irq_enable, st25r3911b_irq_modify
<1>5. ~Pin(p)
  BY <1>2 DEF Pin
<1>6. Pin([p EXCEPT !.mask = Bits \ bits]) = (c.irq \cap bits # {})
  BY <1>2 DEF Pin, Chip
<1>7. /\ e \in Chip /\ e.irq = c.irq /\ e.mask = Bits \ bits
      /\ e.sem = (c.sem \/ c.irq \cap bits # {})
      /\ e.ans = NoAnswer /\ e.n = 0
  BY <1>2, <1>4, <1>5, <1>6, ZenonT(40) DEF irq_pin_cb, Chip
<1>8. Transmit(c, f, bits) = [e EXCEPT !.frame = f, !.wire = w]
  BY DEF Transmit, p, w
<1> HIDE DEF e
<1>9. w \in Seq(Event)
  BY <1>1, SentWire
<1>10. Transmit(c, f, bits) \in Chip
  BY <1>7, <1>8, <1>9 DEF Chip
<1> QED
  BY <1>1, <1>7, <1>8, <1>10 DEF Chip

-----------------------------------------------------------------------------
(* What follows a frame.                                                   *)

Orderly(w) ==
  /\ w \in Seq(Event) /\ "TXE" \notin Due(w)
  /\ "NRE" \in Due(w) => {"RXS", "RXE", "COL"} \cap Due(w) = {}
  /\ \A i \in DOMAIN w :
       /\ w[i].bits \in {{"RXE"}, {"NRE"}} => i = Len(w)
       /\ w[i].bits = {"COL"} => w[i].n = 2
       /\ w[i].bits = {"RXS"} => w[i].n = 0
       /\ w[i].bits = {"FWL"} => w[i].n = FIFO_RX_WATER_LVL
       /\ \A j \in DOMAIN w : w[i].bits = w[j].bits => i = j

\* The frame is received by n bytes.
Ended(w, n) == \A i \in DOMAIN w : w[i].bits = {"RXE"} => w[i].n = n

\* The causes differ.
LEMMA Causes ==
  /\ {"RXS"} # {"RXE"} /\ {"RXS"} # {"NRE"} /\ {"RXS"} # {"COL"} /\ {"RXS"} # {"FWL"}
  /\ {"RXE"} # {"NRE"} /\ {"RXE"} # {"COL"} /\ {"RXE"} # {"FWL"}
  /\ {"NRE"} # {"COL"} /\ {"NRE"} # {"FWL"} /\ {"COL"} # {"FWL"}
  /\ {"TXE"} # {"RXS"} /\ {"TXE"} # {"RXE"} /\ {"TXE"} # {"NRE"} /\ {"TXE"} # {"COL"}
  /\ {"TXE"} # {"FWL"}
  OBVIOUS

\* An event, and that one is none but itself.
LEMMA EventIs ==
  ASSUME NEW b \in Bits, NEW n \in Nat
  PROVE  /\ [bits |-> {b}, n |-> n] \in Event
         /\ [bits |-> {b}, n |-> n].bits = {b} /\ [bits |-> {b}, n |-> n].n = n
  BY DEF Event

\* The front of two and of three events.
LEMMA FrontTwo ==
  ASSUME NEW a \in Event, NEW b \in Event
  PROVE  SubSeq(<<a, b>>, 1, 1) = <<a>>
<1>1. <<a, b>> \in Seq(Event) /\ <<a>> \in Seq(Event) /\ Len(<<a, b>>) = 2 /\ Len(<<a>>) = 1
  OBVIOUS
<1>2. /\ SubSeq(<<a, b>>, 1, 1) \in Seq(Event) /\ Len(SubSeq(<<a, b>>, 1, 1)) = 1
      /\ \A i \in 1..1 : SubSeq(<<a, b>>, 1, 1)[i] = <<a>>[i]
  BY <1>1, SubSeqProperties
<1> DEFINE u == SubSeq(<<a, b>>, 1, 1)
           v == <<a>>
<1>3. u \in Seq(Event) /\ v \in Seq(Event) /\ Len(u) = Len(v) /\ \A i \in 1..Len(u) : u[i] = v[i]
  BY <1>1, <1>2
<1> HIDE DEF u, v
<1>4. u = v
  BY <1>3, SeqEqual
<1> QED
  BY <1>4 DEF u, v

LEMMA FrontThree ==
  ASSUME NEW a \in Event, NEW b \in Event, NEW c \in Event
  PROVE  SubSeq(<<a, b, c>>, 1, 2) = <<a, b>>
<1>1. /\ <<a, b, c>> \in Seq(Event) /\ <<a, b>> \in Seq(Event)
      /\ Len(<<a, b, c>>) = 3 /\ Len(<<a, b>>) = 2
  OBVIOUS
<1>2. /\ SubSeq(<<a, b, c>>, 1, 2) \in Seq(Event) /\ Len(SubSeq(<<a, b, c>>, 1, 2)) = 2
      /\ \A i \in 1..2 : SubSeq(<<a, b, c>>, 1, 2)[i] = <<a, b>>[i]
  BY <1>1, SubSeqProperties
<1> DEFINE u == SubSeq(<<a, b, c>>, 1, 2)
           v == <<a, b>>
<1>3. u \in Seq(Event) /\ v \in Seq(Event) /\ Len(u) = Len(v) /\ \A i \in 1..Len(u) : u[i] = v[i]
  BY <1>1, <1>2
<1> HIDE DEF u, v
<1>4. u = v
  BY <1>3, SeqEqual
<1> QED
  BY <1>4 DEF u, v

\* A reception below the level of the FIFO.
LEMMA ShortReception ==
  ASSUME NEW n \in Nat, n <= FIFO_RX_WATER_LVL
  PROVE  /\ Orderly(Reception(n)) /\ Due(Reception(n)) = {"RXS", "RXE"} /\ Ended(Reception(n), n)
         /\ Orderly(WithoutRxe(n)) /\ Due(WithoutRxe(n)) = {"RXS"} /\ Ended(WithoutRxe(n), n)
<1> DEFINE a == [bits |-> {"RXS"}, n |-> 0]
           e == [bits |-> {"RXE"}, n |-> n]
<1>1. a \in Event /\ e \in Event /\ a.bits = {"RXS"} /\ e.bits = {"RXE"} /\ a.n = 0 /\ e.n = n
  BY EventIs DEF Bits
<1>2. Reception(n) = (<<a>> \o << >>) \o <<e>>
  <2>1. ~(n > FIFO_RX_WATER_LVL)
    BY DEF FIFO_RX_WATER_LVL
  <2> QED
    BY <2>1 DEF Reception
<1> HIDE DEF a, e
<1>3. Reception(n) = <<a, e>>
  <2>1. <<a>> \in Seq(Event)
    BY <1>1
  <2>2. <<a>> \o << >> = <<a>>
    BY <2>1, ConcatEmptySeq
  <2> QED
    BY <1>2, <2>2, Joined
<1>4. WithoutRxe(n) = <<a>>
  <2>1. WithoutRxe(n) = SubSeq(<<a, e>>, 1, 1)
    BY <1>3 DEF WithoutRxe, Front
  <2> QED
    BY <2>1, <1>1, FrontTwo
<1>5. Orderly(<<a, e>>) /\ Due(<<a, e>>) = {"RXS", "RXE"} /\ Ended(<<a, e>>, n)
  <2>1. <<a, e>> \in Seq(Event) /\ Due(<<a, e>>) = {"RXS", "RXE"}
    BY <1>1, DueTwo
  <2> QED
    BY <1>1, <2>1, Causes, DueTwo DEF Orderly, Ended
<1>6. Orderly(<<a>>) /\ Due(<<a>>) = {"RXS"} /\ Ended(<<a>>, n)
  <2>1. <<a>> \in Seq(Event) /\ Due(<<a>>) = {"RXS"}
    BY <1>1, DueOne
  <2> QED
    BY <1>1, <2>1, Causes, DueOne DEF Orderly, Ended
<1> QED
  BY <1>3, <1>4, <1>5, <1>6

\* A reception that reaches the level once.
LEMMA LongReception ==
  ASSUME NEW n \in Nat, n > FIFO_RX_WATER_LVL
  PROVE  /\ Orderly(Reception(n)) /\ Due(Reception(n)) = {"RXS", "FWL", "RXE"}
         /\ Orderly(WithoutRxe(n)) /\ Due(WithoutRxe(n)) = {"RXS", "FWL"}
<1> DEFINE a == [bits |-> {"RXS"}, n |-> 0]
           l == [bits |-> {"FWL"}, n |-> FIFO_RX_WATER_LVL]
           e == [bits |-> {"RXE"}, n |-> n - FIFO_RX_WATER_LVL]
<1>1. /\ a \in Event /\ e \in Event /\ a.bits = {"RXS"} /\ e.bits = {"RXE"} /\ a.n = 0
      /\ l \in Event /\ l.bits = {"FWL"} /\ l.n = FIFO_RX_WATER_LVL
  <2>1. FIFO_RX_WATER_LVL \in Nat /\ n - FIFO_RX_WATER_LVL \in Nat
    BY DEF FIFO_RX_WATER_LVL
  <2> QED
    BY <2>1, EventIs DEF Bits
<1>2. Reception(n) = (<<a>> \o <<l>>) \o <<e>>
  BY DEF Reception
<1> HIDE DEF a, e, l
<1>3. Reception(n) = <<a, l, e>>
  <2>1. Reception(n) = <<a, l>> \o <<e>>
    BY <1>2, Joined
  <2>2. <<a, l>> \o <<e>> = <<a, l, e>>
    <3>1. <<a, l>> \in Seq(Event) /\ <<e>> \in Seq(Event) /\ <<a, l, e>> \in Seq(Event)
      BY <1>1
    <3>2. /\ <<a, l>> \o <<e>> \in Seq(Event) /\ Len(<<a, l>> \o <<e>>) = 3
          /\ \A i \in 1..3 : (<<a, l>> \o <<e>>)[i] = <<a, l, e>>[i]
      BY <3>1
    <3> QED
      BY <3>1, <3>2, SeqEqual
  <2> QED
    BY <2>1, <2>2
<1>4. WithoutRxe(n) = <<a, l>>
  <2>1. WithoutRxe(n) = SubSeq(<<a, l, e>>, 1, 2)
    BY <1>3 DEF WithoutRxe, Front
  <2> QED
    BY <2>1, <1>1, FrontThree
<1>5. Orderly(<<a, l, e>>) /\ Due(<<a, l, e>>) = {"RXS", "FWL", "RXE"}
  <2>1. <<a, l, e>> \in Seq(Event) /\ Due(<<a, l, e>>) = {"RXS", "FWL", "RXE"}
    BY <1>1, DueThree
  <2> QED
    BY <1>1, <2>1, Causes, DueThree DEF Orderly
<1>6. Orderly(<<a, l>>) /\ Due(<<a, l>>) = {"RXS", "FWL"}
  <2>1. <<a, l>> \in Seq(Event) /\ Due(<<a, l>>) = {"RXS", "FWL"}
    BY <1>1, DueTwo
  <2> QED
    BY <1>1, <2>1, Causes, DueTwo DEF Orderly
<1> QED
  BY <1>3, <1>4, <1>5, <1>6

\* A collision, no answer, and a frame that has none.
LEMMA OtherEnds ==
  /\ Orderly(Collision) /\ Due(Collision) = {"RXS", "COL", "RXE"} /\ Ended(Collision, 3)
  /\ Orderly(NoResponse) /\ Due(NoResponse) = {"NRE"}
  /\ Orderly(<< >>) /\ Due(<< >>) = {}
<1> DEFINE a == [bits |-> {"RXS"}, n |-> 0]
           x == [bits |-> {"COL"}, n |-> 2]
           e == [bits |-> {"RXE"}, n |-> 3]
           r == [bits |-> {"NRE"}, n |-> 0]
<1>1. /\ a \in Event /\ e \in Event /\ a.bits = {"RXS"} /\ e.bits = {"RXE"} /\ a.n = 0 /\ e.n = 3
      /\ x \in Event /\ x.bits = {"COL"} /\ x.n = 2 /\ r \in Event /\ r.bits = {"NRE"}
  BY EventIs DEF Bits
<1>2. Collision = <<a, x, e>> /\ NoResponse = <<r>>
  BY DEF Collision, NoResponse
<1> HIDE DEF a, x, e, r
<1>3. Orderly(<<a, x, e>>) /\ Due(<<a, x, e>>) = {"RXS", "COL", "RXE"} /\ Ended(<<a, x, e>>, 3)
  <2>1. <<a, x, e>> \in Seq(Event) /\ Due(<<a, x, e>>) = {"RXS", "COL", "RXE"}
    BY <1>1, DueThree
  <2> QED
    BY <1>1, <2>1, Causes, DueThree DEF Orderly, Ended
<1>4. Orderly(<<r>>) /\ Due(<<r>>) = {"NRE"}
  <2>1. <<r>> \in Seq(Event) /\ Due(<<r>>) = {"NRE"}
    BY <1>1, DueOne
  <2> QED
    BY <1>1, <2>1, Causes, DueOne DEF Orderly
<1>5. Orderly(<< >>) /\ Due(<< >>) = {}
  BY DueEmpty DEF Orderly
<1> QED
  BY <1>2, <1>3, <1>4, <1>5

\* What may follow a frame, in terms of the frame and of the tag.
Hears(f, k, o) ==
  /\ Orderly(o.ev) /\ o.ans \in Answered /\ Due(o.ev) \subseteq Enabled(f)
  /\ f.kind # "slp" => {"NRE", "RXS"} \cap Due(o.ev) # {}
  /\ "RXE" \in Due(o.ev) => AnswerTo(f, o.ans, k)
  /\ "RXE" \in Due(o.ev) /\ f.kind # "data" =>
       \E m \in Sizes(f, o.ans) : Ended(o.ev, IF "COL" \in Due(o.ev) THEN m - 2 ELSE m)
  /\ "COL" \in Due(o.ev) => f.kind \in {"sdd", "rest"} /\ o.ans.kind = "sdd" /\ ~o.ans.ok
  /\ "FWL" \in Due(o.ev) => f.kind = "data"

\* The bits that are enabled for a frame, by its kind.
LEMMA EnabledFor ==
  ASSUME NEW f
  PROVE  /\ f.kind \in {"detect", "sdd", "rest", "sel"} =>
              Enabled(f) = {"TXE", "RXS", "RXE", "COL", "NRE"}
         /\ f.kind = "data" => Enabled(f) = {"TXE", "RXS", "RXE", "COL", "NRE", "FWL"}
         /\ f.kind = "slp" => Enabled(f) = {"TXE", "RXS", "RXE", "COL", "FWL"}
         /\ f.kind = "none" => Enabled(f) = {}
<1>1. CASE f.kind \in {"detect", "sdd", "rest", "sel"}
  BY <1>1 DEF Enabled, ReceptionBits
<1>2. CASE f.kind = "data"
  BY <1>2 DEF Enabled, ReceptionBits
<1>3. CASE f.kind = "slp"
  BY <1>3 DEF Enabled, ReceptionBits
<1>4. CASE f.kind = "none"
  BY <1>4 DEF Enabled
<1> QED
  BY <1>1, <1>2, <1>3, <1>4

\* No answer.
LEMMA HearsSilence ==
  ASSUME NEW f, NEW k, f.kind \in {"detect", "sdd", "rest", "sel", "data"}
  PROVE  Hears(f, k, Silence)
<1>1. Silence.ev = NoResponse /\ Silence.ans = NoAnswer
  BY DEF Silence, Heard
<1>2. NoAnswer \in Answered
  BY DEF NoAnswer, Answered
<1> QED
  BY <1>1, <1>2, OtherEnds, EnabledFor DEF Hears

\* An answer of n bytes below the level.
LEMMA HearsShort ==
  ASSUME NEW f, NEW k, NEW n \in Nat, NEW a \in Answered, NEW o \in Received(n, a),
         f.kind \in {"detect", "sdd", "rest", "sel", "data"}, n <= FIFO_RX_WATER_LVL,
         AnswerTo(f, a, k), f.kind # "data" => n \in Sizes(f, a)
  PROVE  Hears(f, k, o)
<1>1. o.ans = a /\ o.ev \in {Reception(n), WithoutRxe(n)}
  BY DEF Received, Heard
<1>2. CASE o.ev = Reception(n)
  BY <1>1, <1>2, ShortReception, EnabledFor DEF Hears
<1>3. CASE o.ev = WithoutRxe(n)
  BY <1>1, <1>3, ShortReception, EnabledFor DEF Hears
<1> QED
  BY <1>1, <1>2, <1>3

\* An answer to a transfer that reaches it.
LEMMA HearsLong ==
  ASSUME NEW f, NEW k, NEW n \in Nat, NEW a \in Answered, NEW o \in Received(n, a),
         f.kind = "data", n > FIFO_RX_WATER_LVL, AnswerTo(f, a, k)
  PROVE  Hears(f, k, o)
<1>1. o.ans = a /\ o.ev \in {Reception(n), WithoutRxe(n)}
  BY DEF Received, Heard
<1>2. CASE o.ev = Reception(n)
  BY <1>1, <1>2, LongReception, EnabledFor DEF Hears
<1>3. CASE o.ev = WithoutRxe(n)
  BY <1>1, <1>3, LongReception, EnabledFor DEF Hears
<1> QED
  BY <1>1, <1>2, <1>3

\* Every outcome of a frame.
LEMMA HearsOutcome ==
  ASSUME NEW f, NEW k \in 0..3, NEW o \in Outcomes(f, k),
         f.kind \in {"detect", "sdd", "rest", "sel", "data", "slp"}
  PROVE  Hears(f, k, o)
<1>0. 2 <= FIFO_RX_WATER_LVL /\ 5 <= FIFO_RX_WATER_LVL /\ 1 <= FIFO_RX_WATER_LVL
  BY DEF FIFO_RX_WATER_LVL
<1>1. CASE f.kind = "slp"
  <2>1. o.ev = << >> /\ o.ans = NoAnswer
    BY <1>1 DEF Outcomes, Heard
  <2>2. NoAnswer \in Answered
    BY DEF NoAnswer, Answered
  <2> QED
    BY <1>1, <2>1, <2>2, OtherEnds DEF Hears
<1>2. CASE f.kind = "detect"
  <2> DEFINE a == [kind |-> "sens"]
  <2>1. a \in Answered /\ AnswerTo(f, a, k) /\ 2 \in Sizes(f, a)
    BY <1>2 DEF Answered, AnswerTo, Sizes
  <2>2. o = Silence \/ o \in Received(2, a)
    BY <1>2 DEF Outcomes
  <2> QED
    BY <1>0, <1>2, <2>1, <2>2, HearsSilence, HearsShort
<1>3. CASE f.kind = "sdd"
  <2> DEFINE a == [kind |-> "sdd", ok |-> TRUE, cascade |-> f.lvl < k]
             b == Noise
  <2>1. /\ o = Silence
           \/ (f.lvl \in 1..k /\ (o \in Received(5, a) \/ o = Heard(Reception(5), b)
                                    \/ o = Heard(Collision, b)))
    BY <1>3 DEF Outcomes
  <2>2. CASE o = Silence
    BY <1>3, <2>2, HearsSilence
  <2>3. CASE f.lvl \in 1..k
    <3>1. a \in Answered /\ b \in Answered /\ b.kind = "sdd" /\ ~b.ok
      <4>1. (f.lvl < k) \in BOOLEAN
        BY <2>3
      <4> QED
        BY <4>1 DEF Answered, Noise
    <3>2. AnswerTo(f, a, k) /\ 5 \in Sizes(f, a)
      BY <1>3, <2>3 DEF AnswerTo, Sizes
    <3>6. AnswerTo(f, b, k) /\ 5 \in Sizes(f, b)
      BY <1>3, <2>3, <3>1 DEF AnswerTo, Sizes
    <3> HIDE DEF a, b
    <3>3. CASE o \in Received(5, a)
      BY <1>0, <1>3, <3>1, <3>2, <3>3, HearsShort
    <3>4. CASE o = Heard(Reception(5), b)
      <4>1. o.ev = Reception(5) /\ o.ans = b
        BY <3>4 DEF Heard
      <4> QED
        BY <1>0, <1>3, <3>1, <3>6, <4>1, ShortReception, EnabledFor DEF Hears
    <3>5. CASE o = Heard(Collision, b)
      <4>1. o.ev = Collision /\ o.ans = b
        BY <3>5 DEF Heard
      <4> QED
        BY <1>3, <3>1, <3>6, <4>1, OtherEnds, EnabledFor DEF Hears
    <3> QED
      BY <2>1, <2>2, <3>3, <3>4, <3>5
  <2> QED
    BY <2>1, <2>2, <2>3
<1>4. CASE f.kind = "sel"
  <2>1. /\ o = Silence
           \/ (f.lvl \in 1..k /\ \E b \in BOOLEAN :
                 o \in Received(1, [kind |-> "sel", more |-> f.lvl < k, t2t |-> b]))
    BY <1>4 DEF Outcomes
  <2>2. CASE o = Silence
    BY <1>4, <2>2, HearsSilence
  <2>3. CASE f.lvl \in 1..k /\ o # Silence
    <3>1. PICK b \in BOOLEAN : o \in Received(1, [kind |-> "sel", more |-> f.lvl < k, t2t |-> b])
      BY <2>1, <2>3
    <3> DEFINE a == [kind |-> "sel", more |-> f.lvl < k, t2t |-> b]
    <3>2. a \in Answered
      <4>1. (f.lvl < k) \in BOOLEAN
        BY <2>3
      <4> QED
        BY <4>1 DEF Answered
    <3>3. AnswerTo(f, a, k) /\ 1 \in Sizes(f, a)
      BY <1>4, <2>3 DEF AnswerTo, Sizes
    <3> HIDE DEF a
    <3> QED
      BY <1>0, <1>4, <3>1, <3>2, <3>3, HearsShort DEF a
  <2> QED
    BY <2>1, <2>2, <2>3
<1>5. CASE f.kind = "rest"
  <2>1. \/ o = Silence \/ o = Heard(Collision, Noise)
        \/ \E n \in Rests : \E a \in Cut(n) : o \in Received(n, a)
    BY <1>5 DEF Outcomes
  <2>2. CASE o = Silence
    BY <1>5, <2>2, HearsSilence
  <2>3. CASE o = Heard(Collision, Noise)
    <3>1. o.ev = Collision /\ o.ans = Noise
      BY <2>3 DEF Heard
    <3>2. Noise \in Answered /\ Noise.kind = "sdd" /\ ~Noise.ok
      BY DEF Noise, Answered
    <3>3. AnswerTo(f, Noise, k) /\ 5 \in Sizes(f, Noise)
      BY <1>5, <3>2 DEF AnswerTo, Sizes
    <3> QED
      BY <1>5, <3>1, <3>2, <3>3, OtherEnds, EnabledFor DEF Hears
  <2>4. ASSUME NEW n \in Rests, NEW a \in Cut(n), o \in Received(n, a) PROVE Hears(f, k, o)
    <3>1. n \in 1..5 /\ n \in Nat /\ n <= FIFO_RX_WATER_LVL
      BY ReaderAssumption DEF FIFO_RX_WATER_LVL
    <3>2. a \in Answered /\ a.kind = IF n = 1 THEN "sel" ELSE "sdd"
      <4>1. CASE n = 1
        <5>1. a \in [kind : {"sel"}, more : BOOLEAN, t2t : BOOLEAN]
          BY <4>1 DEF Cut
        <5> QED
          BY <4>1, <5>1 DEF Answered
      <4>2. CASE n # 1
        <5>1. a \in [kind : {"sdd"}, ok : {TRUE}, cascade : BOOLEAN] \/ a = Noise
          BY <4>2 DEF Cut
        <5>2. CASE a = Noise
          BY <4>2, <5>2 DEF Answered, Noise
        <5>3. CASE a # Noise
          <6>1. a \in [kind : {"sdd"}, ok : BOOLEAN, cascade : BOOLEAN]
            BY <5>1, <5>3
          <6> QED
            BY <4>2, <6>1 DEF Answered
        <5> QED
          BY <5>2, <5>3
      <4> QED
        BY <4>1, <4>2
    <3>3. AnswerTo(f, a, k) /\ n \in Sizes(f, a)
      BY <1>5, <3>1, <3>2 DEF AnswerTo, Sizes
    <3> QED
      BY <1>5, <2>4, <3>1, <3>2, <3>3, HearsShort
  <2> QED
    BY <2>1, <2>2, <2>3, <2>4
<1>6. CASE f.kind = "data"
  <2> DEFINE a == [kind |-> "data"]
  <2>1. a \in Answered /\ AnswerTo(f, a, k)
    BY <1>6 DEF Answered, AnswerTo
  <2>2. o = Silence \/ \E n \in Answers : o \in Received(n, a)
    BY <1>6 DEF Outcomes
  <2> HIDE DEF a
  <2>3. CASE o = Silence
    BY <1>6, <2>3, HearsSilence
  <2>4. ASSUME NEW n \in Answers, o \in Received(n, a) PROVE Hears(f, k, o)
    <3>1. n \in Nat /\ (n > FIFO_RX_WATER_LVL \/ n <= FIFO_RX_WATER_LVL)
      BY ReaderAssumption DEF FIFO_RX_WATER_LVL
    <3> QED
      BY <1>6, <2>1, <2>4, <3>1, HearsLong, HearsShort
  <2> QED
    BY <2>2, <2>3, <2>4
<1> QED
  BY <1>1, <1>2, <1>3, <1>4, <1>6, <1>5

-----------------------------------------------------------------------------
(* The driver: frames, requests and the data that is read.                 *)

\* What a frame leaves alone.
Left(d, e) ==
  /\ e.state = d.state /\ e.txrx = d.txrx /\ e.idx = d.idx /\ e.tx = d.tx
  /\ e.user_sem = d.user_sem /\ e.timer = d.timer /\ e.work = d.work /\ e.slept = d.slept
  /\ e.err = d.err /\ e.tag = d.tag /\ e.broken = d.broken /\ e.misnamed = d.misnamed
  /\ e.crossed = d.crossed /\ e.collided = d.collided

\* A frame is sent.
LEMMA SendIs ==
  ASSUME NEW d \in Driver, NEW f \in Frame, NEW bits \in SUBSET Bits
  PROVE  /\ Send(d, f, bits) \in Driver
         /\ Send(d, f, bits).chip = Transmit(d.chip, f, bits)
         /\ ~Send(d, f, bits).lost
         /\ Send(d, f, bits).stale <=> (d.stale \/ d.chip.irq \cap bits # {})
         /\ Left(d, Send(d, f, bits)) /\ Send(d, f, bits).lvl = d.lvl
<1> DEFINE t == Transmit(d.chip, f, bits)
           x == d.stale \/ d.chip.irq \cap bits # {}
<1>1. Send(d, f, bits) = [d EXCEPT !.chip = t, !.lost = FALSE, !.stale = x]
  BY DEF Send
<1>2. d.chip \in Chip /\ d.stale \in BOOLEAN
  BY DEF Driver
<1>3. t \in Chip /\ x \in BOOLEAN
  BY <1>2, TransmitChip
<1> HIDE DEF t, x
<1>4. [d EXCEPT !.chip = t, !.lost = FALSE, !.stale = x] \in Driver
  BY <1>3 DEF Driver
<1>5. Left(d, [d EXCEPT !.chip = t, !.lost = FALSE, !.stale = x])
  BY DEF Driver, Left
<1>6. LET e == [d EXCEPT !.chip = t, !.lost = FALSE, !.stale = x]
      IN  e.chip = t /\ ~e.lost /\ (e.stale <=> x) /\ e.lvl = d.lvl
  BY DEF Driver
<1> QED
  BY <1>1, <1>4, <1>5, <1>6 DEF t, x

\* The chip after a frame of the driver.
Sending(d, e, f) ==
  /\ e \in Driver /\ e.chip.frame = f /\ e.chip.wire = Sent(f) /\ e.chip.irq = d.chip.irq
  /\ e.chip.mask = Bits \ Enabled(f) /\ ChipOK(e.chip) /\ (Pin(e.chip) => e.chip.sem)
  /\ e.chip.n = 0 /\ e.chip.ans = NoAnswer /\ "TXE" \in Wire(e.chip)
  /\ ~e.lost /\ (e.stale <=> d.stale \/ d.chip.irq \cap Enabled(f) # {})

LEMMA SendFrame ==
  ASSUME NEW d \in Driver, NEW f \in Frame, f.kind # "none",
         "FWL" \in Due(Sent(f)) => "FWL" \in Enabled(f)
  PROVE  Sending(d, Send(d, f, Enabled(f)), f)
<1> DEFINE e == Send(d, f, Enabled(f))
<1>1. Enabled(f) \in SUBSET Bits /\ "TXE" \in Enabled(f)
  BY EnabledFor DEF Frame, Bits
<1>2. d.chip \in Chip /\ d.chip.irq \subseteq Bits
  BY DEF Driver, Chip
<1>3. /\ e \in Driver /\ e.chip = Transmit(d.chip, f, Enabled(f)) /\ ~e.lost
      /\ e.stale <=> (d.stale \/ d.chip.irq \cap Enabled(f) # {})
  BY <1>1, SendIs
<1> HIDE DEF e
<1>4. /\ e.chip.frame = f /\ e.chip.wire = Sent(f) /\ e.chip.irq = d.chip.irq
      /\ e.chip.mask = Bits \ Enabled(f) /\ e.chip.n = 0 /\ e.chip.ans = NoAnswer
      /\ e.chip.sem = (d.chip.sem \/ d.chip.irq \cap Enabled(f) # {})
  BY <1>1, <1>2, <1>3, TransmitChip
<1>5. Pin(e.chip) => e.chip.sem
  BY <1>2, <1>4 DEF Pin
<1>6. "TXE" \in Wire(e.chip) /\ Wire(e.chip) \subseteq Enabled(f)
  BY <1>1, <1>4, SentWire DEF Wire
<1>7. \A i \in DOMAIN e.chip.wire : e.chip.wire[i].bits = {"TXE"} => i = Len(e.chip.wire)
  BY <1>4, SentWire
<1>8. ChipOK(e.chip)
  BY <1>4, <1>6, <1>7 DEF ChipOK
<1> QED
  BY <1>3, <1>4, <1>5, <1>6, <1>8 DEF Sending, e

\* The frames of the collision resolution.
LEMMA ResolutionFrame ==
  ASSUME NEW d \in Driver, NEW kind \in {"sdd", "rest", "sel"}
  PROVE  LET f == [kind |-> kind, len |-> 7, lvl |-> d.lvl]
             e == anticollision_transmit(d, kind)
         IN  f \in Frame /\ Sending(d, e, f) /\ Left(d, e) /\ e.lvl = d.lvl
<1> DEFINE f == [kind |-> kind, len |-> 7, lvl |-> d.lvl]
<1>1. f \in Frame /\ f.kind = kind /\ f.len = 7 /\ f.kind # "none"
  BY DEF Frame, Driver
<1>2. Enabled(f) = ReceptionBits \cup {"NRE"}
  BY <1>1 DEF Enabled
<1>3. "FWL" \notin Due(Sent(f))
  BY <1>1, SentWire DEF ST25R3911B_MAX_FIFO_LEN
<1>4. anticollision_transmit(d, kind) = Send(d, f, Enabled(f))
  BY <1>2 DEF anticollision_transmit
<1>5. Enabled(f) \in SUBSET Bits
  BY <1>2 DEF ReceptionBits, Bits
<1> HIDE DEF f
<1> DEFINE e == Send(d, f, Enabled(f))
<1>6. Sending(d, e, f)
  BY <1>1, <1>3, SendFrame
<1>7. Left(d, e) /\ e.lvl = d.lvl
  BY <1>1, <1>5, SendIs
<1> HIDE DEF e
<1> QED
  BY <1>1, <1>4, <1>6, <1>7 DEF f, e

\* The next level.
LEMMA NextLevel ==
  ASSUME NEW d \in Driver, NEW lvl \in Nat, ~(lvl > ANTICOLLISION_CASCADE_3)
  PROVE  LET f == [kind |-> "sdd", len |-> 7, lvl |-> lvl]
             e == anticollision_resolution(d, lvl)
         IN  f \in Frame /\ Sending(d, e, f) /\ Left(d, e) /\ e.lvl = lvl
<1> DEFINE g == [d EXCEPT !.lvl = lvl]
           f == [kind |-> "sdd", len |-> 7, lvl |-> lvl]
           e == anticollision_transmit(g, "sdd")
<1>1. g \in Driver /\ g.lvl = lvl /\ g.chip = d.chip /\ g.stale = d.stale /\ Left(d, g)
  BY DEF Driver, Left
<1>2. anticollision_resolution(d, lvl) = e
  BY DEF anticollision_resolution
<1> HIDE DEF g
<1>3. f \in Frame /\ Sending(g, e, f) /\ Left(g, e) /\ e.lvl = g.lvl
  BY <1>1, ResolutionFrame
<1> HIDE DEF e, f
<1>4. Sending(d, e, f)
  BY <1>1, <1>3 DEF Sending
<1>5. Left(d, e)
  BY <1>1, <1>3 DEF Left
<1> QED
  BY <1>1, <1>2, <1>3, <1>4, <1>5 DEF f

\* The frame of a detection.
LEMMA DetectionFrame ==
  ASSUME NEW d \in Driver
  PROVE  LET f == [kind |-> "detect", len |-> 0]
             e == tag_detect(d)
         IN  f \in Frame /\ Sending(d, e, f) /\ Left(d, e) /\ e.lvl = d.lvl
<1> DEFINE f == [kind |-> "detect", len |-> 0]
<1>1. f \in Frame /\ f.kind = "detect" /\ f.len = 0 /\ f.kind # "none"
  BY DEF Frame
<1>2. Enabled(f) = ReceptionBits \cup {"NRE"}
  BY <1>1 DEF Enabled
<1>3. "FWL" \notin Due(Sent(f))
  BY <1>1, SentWire DEF ST25R3911B_MAX_FIFO_LEN
<1>4. tag_detect(d) = Send(d, f, Enabled(f))
  BY <1>2 DEF tag_detect
<1>5. Enabled(f) \in SUBSET Bits
  BY <1>2 DEF ReceptionBits, Bits
<1> HIDE DEF f
<1> DEFINE e == Send(d, f, Enabled(f))
<1>6. Sending(d, e, f)
  BY <1>1, <1>3, SendFrame
<1>7. Left(d, e) /\ e.lvl = d.lvl
  BY <1>1, <1>5, SendIs
<1> HIDE DEF e
<1> QED
  BY <1>1, <1>4, <1>6, <1>7 DEF f, e

\* The frame of a transfer or of the end of one, when its length is accepted.
LEMMA TransferFrame ==
  ASSUME NEW d \in Driver, NEW len \in Nat, NEW fdt \in BOOLEAN, tx_len_ok(len)
  PROVE  LET f == [kind |-> IF fdt THEN "data" ELSE "slp", len |-> len]
             e == transfer(d, len, fdt)
         IN  f \in Frame /\ Sending(d, e, f) /\ Left(d, e) /\ e.lvl = d.lvl
<1> DEFINE f == [kind |-> IF fdt THEN "data" ELSE "slp", len |-> len]
           g == Send(d, f, Enabled(f))
           k == IF len < ST25R3911B_MAX_FIFO_LEN THEN len ELSE ST25R3911B_MAX_FIFO_LEN
           e == [g EXCEPT !.written = k]
<1>1. f \in Frame /\ f.kind = (IF fdt THEN "data" ELSE "slp") /\ f.len = len /\ f.kind # "none"
  BY DEF Frame
<1>2. Enabled(f) = ReceptionBits \cup {"FWL"} \cup (IF fdt THEN {"NRE"} ELSE {})
  BY <1>1 DEF Enabled
<1>3. transfer(d, len, fdt) = e
  BY <1>2 DEF transfer
<1>4. Enabled(f) \in SUBSET Bits /\ "FWL" \in Enabled(f)
  BY <1>2 DEF ReceptionBits, Bits
<1>5. k \in Int
  BY DEF ST25R3911B_MAX_FIFO_LEN
<1> HIDE DEF f, k
<1>6. Sending(d, g, f) /\ Left(d, g) /\ g.lvl = d.lvl /\ g \in Driver
  BY <1>1, <1>4, SendFrame, SendIs
<1> HIDE DEF g
<1>7. /\ e \in Driver /\ e.chip = g.chip /\ e.lost = g.lost /\ e.stale = g.stale
      /\ Left(g, e) /\ e.lvl = g.lvl
  BY <1>5, <1>6 DEF Driver, Left
<1> HIDE DEF e
<1>8. Sending(d, e, f)
  BY <1>6, <1>7 DEF Sending
<1>9. Left(d, e)
  BY <1>6, <1>7 DEF Left
<1> QED
  BY <1>1, <1>3, <1>6, <1>7, <1>8, <1>9 DEF f

\* A transfer of any length keeps the types.
LEMMA TransferTyped ==
  ASSUME NEW d \in Driver, NEW len \in Nat, NEW fdt \in BOOLEAN
  PROVE  /\ transfer(d, len, fdt) \in Driver
         /\ ~tx_len_ok(len) => transfer(d, len, fdt).err # "none" /\ transfer(d, len, fdt).slept = d.slept
              /\ transfer(d, len, fdt).crossed = d.crossed
              /\ transfer(d, len, fdt).misnamed = d.misnamed
              /\ transfer(d, len, fdt).stale = d.stale
              /\ transfer(d, len, fdt).collided = d.collided
              /\ transfer(d, len, fdt).idx = d.idx
              /\ transfer(d, len, fdt).broken = d.broken
<1>1. CASE tx_len_ok(len)
  BY <1>1, TransferFrame DEF Sending
<1>2. CASE ~tx_len_ok(len)
  <2> DEFINE c == transmission_prepare(d.chip)
  <2>1. transfer(d, len, fdt) = [[d EXCEPT !.chip = c] EXCEPT !.err = "EFAULT"]
    BY <1>2 DEF transfer, Fails
  <2>2. c \in Chip
    <3>1. d.chip \in Chip
      BY DEF Driver
    <3>2. c = [d.chip EXCEPT !.wire = << >>, !.n = 0, !.ans = NoAnswer, !.mask = Bits]
      BY <3>1, PrepareChip
    <3>3. NoAnswer \in Answered
      BY DEF NoAnswer, Answered
    <3>4. << >> \in Seq(Event) /\ 0 \in Nat /\ Bits \in SUBSET Bits
      OBVIOUS
    <3> QED
      BY <3>1, <3>2, <3>3, <3>4 DEF Chip
  <2> HIDE DEF c
  <2> DEFINE e == [d EXCEPT !.chip = c, !.err = "EFAULT"]
  <2>3. transfer(d, len, fdt) = e
    BY <2>1
  <2>4. e \in Driver
    BY <2>2 DEF Driver, Errors
  <2>5. /\ e.err = "EFAULT" /\ e.slept = d.slept /\ e.crossed = d.crossed
        /\ e.misnamed = d.misnamed /\ e.stale = d.stale /\ e.collided = d.collided
        /\ e.idx = d.idx /\ e.broken = d.broken
    BY DEF Driver
  <2> HIDE DEF e
  <2> QED
    BY <1>2, <2>3, <2>4, <2>5
<1> QED
  BY <1>1, <1>2

\* What a request leaves alone.
Kept(d, e) ==
  /\ e.lvl = d.lvl /\ e.tx = d.tx /\ e.timer = d.timer
  /\ e.work = d.work /\ e.slept = d.slept /\ e.tag = d.tag /\ e.collided = d.collided
  /\ e.stale = d.stale /\ e.lost = d.lost

\* And what the driver has found out.
KeptAll(d, e) ==
  /\ Kept(d, e) /\ e.err = d.err /\ e.idx = d.idx /\ e.broken = d.broken
  /\ e.misnamed = d.misnamed /\ e.crossed = d.crossed

\* A request that was made.
Asked(d, e, state) ==
  /\ e \in Driver /\ e.chip = d.chip /\ KeptAll(d, e)
  /\ d.state = "IDLE" => e.state = state /\ e.user_sem
  /\ d.state # "IDLE" => e = d

\* Each request of the API.
LEMMA Requests ==
  ASSUME NEW d \in Driver
  PROVE  /\ Asked(d, st25r3911b_nfca_field_on(d), "FIELD_ON")
         /\ Asked(d, st25r3911b_nfca_tag_sleep(d), "SLEEP")
         /\ Asked(d, st25r3911b_nfca_tag_detect(d), "TAG_DETECTION")
         /\ Asked(d, st25r3911b_nfca_anticollision_start(d), "ANTICOLLISION")
         /\ Asked(d, st25r3911b_nfca_transfer(d), "TRANSFER")
<1>1. ASSUME NEW p \in Driver, NEW state \in States, p.chip = d.chip, KeptAll(d, p)
      PROVE  Asked(d, request(d, p, state), state)
  <2>1. CASE d.state # "IDLE"
    BY <2>1 DEF request, Asked, KeptAll, Kept
  <2>2. CASE d.state = "IDLE"
    <3> DEFINE e == [p EXCEPT !.state = state, !.user_sem = TRUE]
    <3>1. request(d, p, state) = e
      BY <2>2 DEF request
    <3>2. /\ e \in Driver /\ e.chip = p.chip /\ e.state = state /\ e.user_sem
      BY DEF Driver
    <3>3. KeptAll(p, e)
      BY DEF Driver, KeptAll, Kept
    <3> HIDE DEF e
    <3>4. KeptAll(d, e)
      BY <1>1, <3>3 DEF KeptAll, Kept
    <3> QED
      BY <1>1, <2>2, <3>1, <3>2, <3>4 DEF Asked
  <2> QED
    BY <2>1, <2>2
<1>2. d.chip = d.chip /\ KeptAll(d, d)
  BY DEF KeptAll, Kept
<1> DEFINE c == clear_local_data(d)
           t == [c EXCEPT !.txrx = "TX_START"]
<1>3. c \in Driver /\ c.chip = d.chip /\ KeptAll(d, c)
  <2>1. c = [d EXCEPT !.written = 0, !.received = 0] /\ 0 \in Int
    BY DEF clear_local_data
  <2>2. c \in Driver /\ c.chip = d.chip
    BY <2>1 DEF Driver
  <2>3. KeptAll(d, c)
    BY <2>1 DEF Driver, KeptAll, Kept
  <2> QED
    BY <2>2, <2>3
<1>4. t \in Driver /\ t.chip = c.chip /\ KeptAll(c, t)
  <2> HIDE DEF c
  <2> QED
    BY <1>3 DEF Driver, KeptAll, Kept, TxRx
<1> HIDE DEF c, t
<1>5. t.chip = d.chip /\ KeptAll(d, t)
  BY <1>3, <1>4 DEF KeptAll, Kept
<1>6. {"FIELD_ON", "SLEEP", "TAG_DETECTION", "ANTICOLLISION", "TRANSFER"} \subseteq States
  BY DEF States
<1>7. Asked(d, request(d, d, "FIELD_ON"), "FIELD_ON") /\ Asked(d, request(d, d, "SLEEP"), "SLEEP")
  BY <1>1, <1>2, <1>6
<1>8. /\ Asked(d, request(d, c, "TAG_DETECTION"), "TAG_DETECTION")
      /\ Asked(d, request(d, c, "ANTICOLLISION"), "ANTICOLLISION")
  BY <1>1, <1>3, <1>6
<1>9. Asked(d, request(d, t, "TRANSFER"), "TRANSFER")
  BY <1>1, <1>4, <1>5, <1>6
<1> QED
  BY <1>7, <1>8, <1>9
  DEF st25r3911b_nfca_field_on, st25r3911b_nfca_tag_sleep, st25r3911b_nfca_tag_detect,
      st25r3911b_nfca_anticollision_start, st25r3911b_nfca_transfer, c, t

\* The exchange goes on as it was.
SameExchange(c, e) ==
  /\ e.irq = c.irq /\ e.mask = c.mask /\ e.sem = c.sem /\ e.wire = c.wire /\ e.frame = c.frame
  /\ e.ans = c.ans

\* Bytes are read from the FIFO, or they do not fit.
LEMMA ReadIs ==
  ASSUME NEW d \in Driver, NEW len \in Nat
  PROVE  LET e == read_rx_data(d, len)
         IN  /\ e \in Driver /\ SameExchange(d.chip, e.chip) /\ Kept(d, e)
             /\ e.state = d.state /\ e.txrx = d.txrx /\ e.user_sem = d.user_sem
             /\ e.idx = d.idx /\ e.broken = d.broken /\ e.misnamed = d.misnamed
             /\ e.crossed = d.crossed /\ e.received = d.received
             /\ \/ e.err = "ENOMEM" /\ e.chip.n = d.chip.n
                \/ e.err = d.err /\ e.chip.n = 0
<1>1. d.chip \in Chip /\ d.chip.n \in Nat
  BY DEF Driver, Chip
<1>2. CASE len >= d.received /\ len - d.received < d.chip.n
  <2> DEFINE e == [d EXCEPT !.err = "ENOMEM"]
  <2>1. read_rx_data(d, len) = e
    BY <1>2 DEF read_rx_data, Fails
  <2>2. e \in Driver /\ e.chip = d.chip /\ e.err = "ENOMEM"
    BY DEF Driver, Errors
  <2>3. /\ Kept(d, e) /\ e.state = d.state /\ e.txrx = d.txrx /\ e.user_sem = d.user_sem
        /\ e.idx = d.idx /\ e.broken = d.broken /\ e.misnamed = d.misnamed
        /\ e.crossed = d.crossed /\ e.received = d.received
    BY DEF Driver, Kept
  <2> HIDE DEF e
  <2> QED
    BY <1>2, <2>1, <2>2, <2>3 DEF SameExchange
<1>3. CASE ~(len >= d.received /\ len - d.received < d.chip.n)
  <2> DEFINE c == st25r3911b_fifo_read(d.chip, d.chip.n)
             e == [d EXCEPT !.chip = c]
  <2>1. read_rx_data(d, len) = e
    BY <1>3 DEF read_rx_data
  <2>2. c = [d.chip EXCEPT !.n = 0]
    BY <1>1 DEF st25r3911b_fifo_read
  <2>3. c \in Chip /\ SameExchange(d.chip, c) /\ c.n = 0
    BY <1>1, <2>2 DEF Chip, SameExchange
  <2> HIDE DEF c
  <2>4. e \in Driver /\ e.chip = c /\ e.err = d.err
    BY <2>3 DEF Driver
  <2>5. /\ Kept(d, e) /\ e.state = d.state /\ e.txrx = d.txrx /\ e.user_sem = d.user_sem
        /\ e.idx = d.idx /\ e.broken = d.broken /\ e.misnamed = d.misnamed
        /\ e.crossed = d.crossed /\ e.received = d.received
    BY DEF Driver, Kept
  <2> HIDE DEF e
  <2> QED
    BY <1>3, <2>1, <2>3, <2>4, <2>5
<1> QED
  BY <1>2, <1>3

\* What is noted of the bytes that are read.
LEMMA CrossesIs ==
  ASSUME NEW d \in Driver, NEW kinds, NEW least \in Nat
  PROVE  LET e == Crosses(d, kinds, least)
         IN  /\ e \in Driver /\ e.chip = d.chip /\ Kept(d, e)
             /\ e.state = d.state /\ e.txrx = d.txrx /\ e.user_sem = d.user_sem
             /\ e.idx = d.idx /\ e.broken = d.broken /\ e.misnamed = d.misnamed
             /\ e.received = d.received /\ e.err = d.err /\ e.rx = d.rx
             /\ e.crossed <=> d.crossed \/ (~d.stale /\ (d.chip.ans.kind \notin kinds \/ d.chip.n < least))
<1> DEFINE x == d.crossed \/ (~d.stale /\ (d.chip.ans.kind \notin kinds \/ d.chip.n < least))
           e == [d EXCEPT !.crossed = x]
<1>1. Crosses(d, kinds, least) = e
  BY DEF Crosses
<1>2. x \in BOOLEAN
  BY DEF Driver
<1> HIDE DEF x
<1>3. e \in Driver /\ e.chip = d.chip /\ (e.crossed <=> x)
  BY <1>2 DEF Driver
<1>4. /\ Kept(d, e) /\ e.state = d.state /\ e.txrx = d.txrx /\ e.user_sem = d.user_sem
      /\ e.idx = d.idx /\ e.broken = d.broken /\ e.misnamed = d.misnamed
      /\ e.received = d.received /\ e.err = d.err /\ e.rx = d.rx
  BY DEF Driver, Kept
<1> HIDE DEF e
<1> QED
  BY <1>1, <1>3, <1>4 DEF x

-----------------------------------------------------------------------------
(* The handlers, by what becomes of the state.                             *)

\* What no handler of an interrupt changes.
Apart(d, e) ==
  /\ e \in Driver /\ e.work = d.work /\ e.slept = d.slept /\ e.tx = d.tx
  /\ e.tag = d.tag /\ e.collided = d.collided

\* The handler fails, and the exchange is left as it is.
Refused(d, e) ==
  /\ e.err # "none" /\ SameExchange(d.chip, e.chip) /\ e.state = d.state /\ e.txrx = d.txrx
  /\ e.user_sem = d.user_sem /\ e.stale = d.stale /\ e.lost = d.lost /\ e.lvl = d.lvl
  /\ e.idx = d.idx /\ e.broken = d.broken /\ e.misnamed = d.misnamed

\* It sends the next frame of the resolution.
Resends(d, e, kind, lvl, idx) ==
  /\ Sending(d, e, [kind |-> kind, len |-> 7, lvl |-> lvl])
  /\ e.state = d.state /\ e.txrx = d.txrx /\ e.user_sem = d.user_sem
  /\ e.lvl = lvl /\ e.idx = idx /\ (e.broken <=> d.broken \/ kind = "rest") /\ e.misnamed = d.misnamed

\* It completes, and the application makes its next request.
Completes(d, e, states) ==
  /\ e.state \in states /\ e.user_sem /\ SameExchange(d.chip, e.chip)
  /\ e.stale = d.stale /\ e.lost = d.lost

\* A field that the error is kept in.
LEMMA FailsIs ==
  ASSUME NEW d \in Driver, NEW err \in Errors
  PROVE  LET e == Fails(d, err)
         IN  /\ e \in Driver /\ e.err = err /\ e.chip = d.chip /\ Kept(d, e)
             /\ e.state = d.state /\ e.txrx = d.txrx /\ e.user_sem = d.user_sem
             /\ e.idx = d.idx /\ e.broken = d.broken /\ e.misnamed = d.misnamed
             /\ e.crossed = d.crossed /\ e.rx = d.rx /\ e.received = d.received
             /\ e.written = d.written
  BY DEF Fails, Driver, Kept

\* What is read for the resolution, and what is noted of it.
LEMMA ResolutionRead ==
  ASSUME NEW d \in Driver
  PROVE  LET g == read_rx_data(Crosses(d, {"sdd", "sel"}, 1), 5)
         IN  /\ g \in Driver /\ SameExchange(d.chip, g.chip) /\ Kept(d, g)
             /\ g.state = d.state /\ g.txrx = d.txrx /\ g.user_sem = d.user_sem
             /\ g.idx = d.idx /\ g.broken = d.broken /\ g.misnamed = d.misnamed
             /\ g.crossed <=> d.crossed \/ (~d.stale /\ (d.chip.ans.kind \notin {"sdd", "sel"} \/ d.chip.n < 1))
<1> DEFINE x == Crosses(d, {"sdd", "sel"}, 1)
           g == read_rx_data(x, 5)
<1>1. /\ x \in Driver /\ x.chip = d.chip /\ Kept(d, x)
      /\ x.state = d.state /\ x.txrx = d.txrx /\ x.user_sem = d.user_sem
      /\ x.idx = d.idx /\ x.broken = d.broken /\ x.misnamed = d.misnamed
      /\ x.crossed <=> d.crossed \/ (~d.stale /\ (d.chip.ans.kind \notin {"sdd", "sel"} \/ d.chip.n < 1))
  BY CrossesIs
<1> HIDE DEF x
<1>2. /\ g \in Driver /\ SameExchange(x.chip, g.chip) /\ Kept(x, g)
      /\ g.state = x.state /\ g.txrx = x.txrx /\ g.user_sem = x.user_sem
      /\ g.idx = x.idx /\ g.broken = x.broken /\ g.misnamed = x.misnamed
      /\ g.crossed = x.crossed
  BY <1>1, ReadIs
<1> HIDE DEF g
<1>3. Kept(d, g)
  BY <1>1, <1>2 DEF Kept
<1> QED
  BY <1>1, <1>2, <1>3 DEF g, x

\* A part of the identifier is stored.
LEMMA StoreIs ==
  ASSUME NEW d \in Driver, NEW cascade
  PROVE  LET e == store_nfcid1(d, cascade)
             k == IF cascade THEN 3 ELSE 4
         IN  /\ e \in Driver /\ e.chip = d.chip /\ Kept(d, e) /\ e.state = d.state /\ e.txrx = d.txrx
             /\ e.user_sem = d.user_sem /\ e.broken = d.broken /\ e.misnamed = d.misnamed
             /\ e.crossed = d.crossed /\ e.err = d.err /\ e.idx = d.idx + k
<1> DEFINE k == IF cascade THEN 3 ELSE 4
           j == d.idx + k
           b == [d EXCEPT !.idx = j]
<1>1. k \in Nat /\ NFCA_NFCID1_SINGLE_SIZE - (IF cascade THEN 1 ELSE 0) = k
  BY DEF NFCA_NFCID1_SINGLE_SIZE
<1>2. d.idx + NFCA_NFCID1_SINGLE_SIZE - (IF cascade THEN 1 ELSE 0) = j
  BY DEF NFCA_NFCID1_SINGLE_SIZE, Driver
<1> HIDE DEF k
<1>3. store_nfcid1(d, cascade) = b
  BY <1>2 DEF store_nfcid1
<1>4. j \in Nat
  BY <1>1 DEF Driver
<1> HIDE DEF j
<1>5. /\ b \in Driver /\ b.chip = d.chip /\ Kept(d, b) /\ b.state = d.state /\ b.txrx = d.txrx
      /\ b.user_sem = d.user_sem /\ b.broken = d.broken /\ b.misnamed = d.misnamed
      /\ b.crossed = d.crossed /\ b.err = d.err /\ b.idx = j
  BY <1>4 DEF Driver, Kept
<1> HIDE DEF b
<1> QED
  BY <1>3, <1>5 DEF j, k

\* The outcomes of anticollision_rx().
Resolved(d, e, blank) ==
  LET a == d.chip.ans
      n == d.chip.n
  IN  \/ Refused(d, e)
      \/ n = 1 /\ a.more /\ Resends(d, e, "sdd", d.lvl + 1, d.idx)
      \/ /\ n = 1 /\ ~a.more /\ Completes(d, e, {"TRANSFER", "TAG_DETECTION"}) /\ e.idx = 0
         /\ e.misnamed <=> d.misnamed \/ (~d.broken /\ ~d.stale /\ d.idx # 3 * d.tag + 1)
      \/ /\ n # 1 /\ ~blank /\ (a.kind # "sdd" \/ ~a.ok) /\ Completes(d, e, {"TAG_DETECTION"})
         /\ e.idx = d.idx /\ e.misnamed = d.misnamed /\ (e.broken <=> d.idx # 0)
      \/ /\ n # 1 /\ (blank \/ (a.kind = "sdd" /\ a.ok))
         /\ Resends(d, e, "sel", d.lvl,
                    d.idx + IF ~blank /\ a.kind = "sdd" /\ a.cascade THEN 3 ELSE 4)

LEMMA ResolutionIs ==
  ASSUME NEW d \in Driver
  PROVE  LET e == anticollision_rx(d)
         IN  /\ Apart(d, e) /\ e.timer = d.timer
             /\ e.crossed <=> d.crossed \/ (~d.stale /\ (d.chip.ans.kind \notin {"sdd", "sel"} \/ d.chip.n < 1))
             /\ Resolved(d, e, d.chip.ans.kind = "none" \/ d.chip.n = 0)
<1> DEFINE a == d.chip.ans
           n == d.chip.n
           x == d.crossed \/ (~d.stale /\ (a.kind \notin {"sdd", "sel"} \/ n < 1))
           g == read_rx_data(Crosses(d, {"sdd", "sel"}, 1), 5)
           blank == a.kind = "none" \/ n = 0
           cascade == ~blank /\ a.kind = "sdd" /\ a.cascade
           st == store_nfcid1(g, cascade)
           c == [g EXCEPT !.state = "IDLE", !.idx = 0, !.broken = FALSE,
                          !.misnamed = @ \/ (~g.broken /\ ~g.stale /\ g.idx # 3 * g.tag + 1)]
           b == [g EXCEPT !.state = "IDLE", !.broken = g.idx # 0]
           Goal(e) == /\ Apart(d, e) /\ e.timer = d.timer
                      /\ e.crossed <=> x
                      /\ Resolved(d, e, blank)
<1>1. /\ g \in Driver /\ SameExchange(d.chip, g.chip) /\ Kept(d, g)
      /\ g.state = d.state /\ g.txrx = d.txrx /\ g.user_sem = d.user_sem
      /\ g.idx = d.idx /\ g.broken = d.broken /\ g.misnamed = d.misnamed
      /\ g.crossed <=> x
  BY ResolutionRead
<1>2. anticollision_rx(d) =
        IF g.err # "none" THEN g
        ELSE IF n = 1
        THEN IF a.more THEN anticollision_resolution(g, g.lvl + 1)
             ELSE anticollision_completed(c, a.t2t)
        ELSE IF ~blank /\ (a.kind # "sdd" \/ ~a.ok) THEN anticollision_completed(b, FALSE)
        ELSE anticollision_transmit(st, "sel")
  BY DEF anticollision_rx
<1> HIDE DEF g, a, n, x, blank
<1>3. Apart(d, g) /\ g.timer = d.timer
  BY <1>1 DEF Apart, Kept
<1>4. CASE g.err # "none"
  <2>1. Refused(d, g)
    BY <1>1, <1>4 DEF Refused, Kept
  <2>2. Goal(g)
    BY <1>1, <1>3, <2>1 DEF Resolved
  <2> QED
    BY <1>2, <1>4, <2>2 DEF x, blank, a, n
<1>5. CASE g.err = "none" /\ n = 1 /\ a.more /\ g.lvl + 1 > ANTICOLLISION_CASCADE_3
  <2> DEFINE e == Fails(g, "assert")
  <2>1. "assert" \in Errors
    BY DEF Errors
  <2>2. /\ e \in Driver /\ e.err = "assert" /\ e.chip = g.chip /\ Kept(g, e)
        /\ e.state = g.state /\ e.txrx = g.txrx /\ e.user_sem = g.user_sem
        /\ e.idx = g.idx /\ e.broken = g.broken /\ e.misnamed = g.misnamed
        /\ e.crossed = g.crossed
    BY <1>1, <2>1, FailsIs
  <2>3. anticollision_rx(d) = e
    BY <1>2, <1>5 DEF anticollision_resolution
  <2> HIDE DEF e
  <2>4. Refused(d, e) /\ Apart(d, e) /\ e.timer = d.timer
    BY <1>1, <1>3, <2>2 DEF Refused, Kept, Apart
  <2>5. Goal(e)
    BY <1>1, <2>2, <2>4 DEF Resolved
  <2> QED
    BY <2>3, <2>5 DEF x, blank, a, n
<1>6. CASE g.err = "none" /\ n = 1 /\ a.more /\ ~(g.lvl + 1 > ANTICOLLISION_CASCADE_3)
  <2> DEFINE e == anticollision_resolution(g, g.lvl + 1)
             f == [kind |-> "sdd", len |-> 7, lvl |-> g.lvl + 1]
  <2>1. g.lvl + 1 \in Nat /\ g.lvl = d.lvl
    BY <1>1 DEF Driver, Kept
  <2>2. Sending(g, e, f) /\ Left(g, e) /\ e.lvl = g.lvl + 1
    BY <1>1, <1>6, <2>1, NextLevel
  <2>3. anticollision_rx(d) = e
    BY <1>2, <1>6
  <2> HIDE DEF e
  <2>4. Sending(d, e, f)
    BY <1>1, <2>2 DEF Sending, SameExchange, Kept
  <2>5. Resends(d, e, "sdd", d.lvl + 1, d.idx)
    BY <1>1, <2>1, <2>2, <2>4 DEF Resends, Left
  <2>6. Apart(d, e) /\ e.timer = d.timer /\ (e.crossed <=> x)
    BY <1>1, <1>3, <2>2 DEF Apart, Left, Sending
  <2>7. Goal(e)
    BY <1>6, <2>5, <2>6 DEF Resolved, a, n
  <2> QED
    BY <2>3, <2>7 DEF x, blank, a, n
<1>7. CASE g.err = "none" /\ n = 1 /\ ~a.more
  <2> DEFINE e == anticollision_completed(c, a.t2t)
             y == g.misnamed \/ (~g.broken /\ ~g.stale /\ g.idx # 3 * g.tag + 1)
  <2>1. y \in BOOLEAN
    BY <1>1 DEF Driver
  <2>2. c = [g EXCEPT !.state = "IDLE", !.idx = 0, !.broken = FALSE, !.misnamed = y]
    OBVIOUS
  <2>3. anticollision_rx(d) = e
    BY <1>2, <1>7
  <2> HIDE DEF c, y
  <2>4. c \in Driver
    BY <1>1, <2>1, <2>2 DEF Driver, States
  <2>5. /\ c.chip = g.chip /\ Kept(g, c) /\ c.state = "IDLE" /\ c.idx = 0
        /\ (c.misnamed <=> y) /\ c.crossed = g.crossed
    BY <1>1, <2>1, <2>2 DEF Driver, Kept
  <2>6. Asked(c, e, "TRANSFER") \/ Asked(c, e, "TAG_DETECTION")
    BY <2>4, Requests DEF anticollision_completed
  <2> HIDE DEF e
  <2>7. /\ e \in Driver /\ e.chip = g.chip /\ Kept(g, e) /\ e.idx = 0 /\ (e.misnamed <=> y)
        /\ e.crossed = g.crossed /\ e.user_sem /\ e.state \in {"TRANSFER", "TAG_DETECTION"}
    BY <2>5, <2>6 DEF Asked, KeptAll, Kept
  <2>8. Completes(d, e, {"TRANSFER", "TAG_DETECTION"})
    BY <1>1, <2>7 DEF Completes, Kept
  <2>9. e.misnamed <=> d.misnamed \/ (~d.broken /\ ~d.stale /\ d.idx # 3 * d.tag + 1)
    BY <1>1, <2>7 DEF y, Kept
  <2>10. Apart(d, e) /\ e.timer = d.timer /\ (e.crossed <=> x)
    BY <1>1, <1>3, <2>7 DEF Apart, Kept
  <2>11. Goal(e)
    BY <1>7, <2>7, <2>8, <2>9, <2>10 DEF Resolved, a, n
  <2> QED
    BY <2>3, <2>11 DEF x, blank, a, n
<1>8. CASE g.err = "none" /\ n # 1 /\ ~blank /\ (a.kind # "sdd" \/ ~a.ok)
  <2> DEFINE e == anticollision_completed(b, FALSE)
             y == g.idx # 0
  <2>1. y \in BOOLEAN
    BY <1>1 DEF Driver
  <2>2. b = [g EXCEPT !.state = "IDLE", !.broken = y]
    OBVIOUS
  <2>3. anticollision_rx(d) = e
    BY <1>2, <1>8
  <2> HIDE DEF b, y
  <2>4. b \in Driver
    BY <1>1, <2>1, <2>2 DEF Driver, States
  <2>5. /\ b.chip = g.chip /\ Kept(g, b) /\ b.state = "IDLE" /\ b.idx = g.idx
        /\ (b.broken <=> y) /\ b.crossed = g.crossed /\ b.misnamed = g.misnamed
    BY <1>1, <2>1, <2>2 DEF Driver, Kept
  <2>6. Asked(b, e, "TAG_DETECTION")
    BY <2>4, Requests DEF anticollision_completed
  <2> HIDE DEF e
  <2>7. /\ e \in Driver /\ e.chip = g.chip /\ Kept(g, e) /\ e.idx = g.idx /\ (e.broken <=> y)
        /\ e.crossed = g.crossed /\ e.user_sem /\ e.state = "TAG_DETECTION"
        /\ e.misnamed = g.misnamed
    BY <2>5, <2>6 DEF Asked, KeptAll, Kept
  <2>8. Completes(d, e, {"TAG_DETECTION"})
    BY <1>1, <2>7 DEF Completes, Kept
  <2>9. e.broken <=> d.idx # 0
    BY <1>1, <2>7 DEF y
  <2>10. Apart(d, e) /\ e.timer = d.timer /\ (e.crossed <=> x)
    BY <1>1, <1>3, <2>7 DEF Apart, Kept
  <2>11. Goal(e)
    BY <1>1, <1>8, <2>7, <2>8, <2>9, <2>10 DEF Resolved, a, n
  <2> QED
    BY <2>3, <2>11 DEF x, blank, a, n
<1>9. CASE g.err = "none" /\ n # 1 /\ (blank \/ (a.kind = "sdd" /\ a.ok))
  <2> DEFINE k == IF cascade THEN 3 ELSE 4
  <2> HIDE DEF cascade
  <2>1. /\ st \in Driver /\ st.chip = g.chip /\ Kept(g, st) /\ st.state = g.state /\ st.txrx = g.txrx
        /\ st.user_sem = g.user_sem /\ st.broken = g.broken /\ st.misnamed = g.misnamed
        /\ st.crossed = g.crossed /\ st.err = g.err /\ st.idx = g.idx + k
    BY <1>1, StoreIs
  <2> HIDE DEF st, k
  <2>2. Apart(d, st) /\ st.timer = d.timer /\ (st.crossed <=> x)
    BY <1>1, <1>3, <2>1 DEF Apart, Kept
  <2> DEFINE e == anticollision_transmit(st, "sel")
             f == [kind |-> "sel", len |-> 7, lvl |-> st.lvl]
  <2>3. Sending(st, e, f) /\ Left(st, e) /\ e.lvl = st.lvl
    BY <2>1, ResolutionFrame
  <2>4. anticollision_rx(d) = e
    BY <1>2, <1>9
  <2> HIDE DEF e
  <2>5. st.lvl = d.lvl /\ st.idx = d.idx + k
    BY <1>1, <2>1 DEF Kept
  <2>6. Sending(d, e, f)
    BY <1>1, <2>1, <2>3 DEF Sending, SameExchange, Kept
  <2>7. Resends(d, e, "sel", d.lvl, d.idx + k)
    BY <1>1, <2>1, <2>3, <2>5, <2>6 DEF Resends, Left
  <2>8. Apart(d, e) /\ e.timer = d.timer /\ (e.crossed <=> x)
    BY <2>2, <2>3 DEF Apart, Left, Sending
  <2>9. Goal(e)
    BY <1>9, <2>7, <2>8 DEF Resolved, a, n, k, cascade
  <2> QED
    BY <2>4, <2>9 DEF x, blank, a, n
<1> QED
  BY <1>4, <1>5, <1>6, <1>7, <1>8, <1>9

\* The answer to a detection.
LEMMA DetectionIs ==
  ASSUME NEW d \in Driver, d.state = "TAG_DETECTION"
  PROVE  LET e == on_rx_complete(d)
         IN  /\ Apart(d, e) /\ e.timer = d.timer /\ Completes(d, e, {"ANTICOLLISION"})
             /\ e.idx = d.idx /\ e.broken = d.broken /\ e.misnamed = d.misnamed
             /\ e.crossed <=> d.crossed \/ (~d.stale /\ (d.chip.ans.kind \notin {"sens"} \/ d.chip.n < 1))
<1> DEFINE x == Crosses(d, {"sens"}, 1)
           g == read_rx_data(x, 2)
           i == [g EXCEPT !.state = "IDLE"]
           e == st25r3911b_nfca_anticollision_start(i)
<1>1. on_rx_complete(d) = e
  BY DEF on_rx_complete, tag_detected
<1>2. /\ x \in Driver /\ x.chip = d.chip /\ Kept(d, x)
      /\ x.idx = d.idx /\ x.broken = d.broken /\ x.misnamed = d.misnamed
      /\ x.crossed <=> d.crossed \/ (~d.stale /\ (d.chip.ans.kind \notin {"sens"} \/ d.chip.n < 1))
  BY CrossesIs
<1> HIDE DEF x
<1>3. /\ g \in Driver /\ SameExchange(x.chip, g.chip) /\ Kept(x, g)
      /\ g.idx = x.idx /\ g.broken = x.broken /\ g.misnamed = x.misnamed /\ g.crossed = x.crossed
  BY <1>2, ReadIs
<1> HIDE DEF g
<1>4. /\ i \in Driver /\ i.chip = g.chip /\ Kept(g, i) /\ i.state = "IDLE"
      /\ i.idx = g.idx /\ i.broken = g.broken /\ i.misnamed = g.misnamed /\ i.crossed = g.crossed
  BY <1>3 DEF Driver, States, Kept
<1> HIDE DEF i
<1>5. Asked(i, e, "ANTICOLLISION")
  BY <1>4, Requests
<1> HIDE DEF e
<1>6. /\ e \in Driver /\ e.chip = g.chip /\ Kept(g, e) /\ e.state = "ANTICOLLISION" /\ e.user_sem
      /\ e.idx = g.idx /\ e.broken = g.broken /\ e.misnamed = g.misnamed /\ e.crossed = g.crossed
  BY <1>4, <1>5 DEF Asked, KeptAll, Kept
<1>7. Apart(d, e) /\ e.timer = d.timer
  BY <1>2, <1>3, <1>6 DEF Apart, Kept
<1>8. Completes(d, e, {"ANTICOLLISION"})
  BY <1>2, <1>3, <1>6 DEF Completes, Kept
<1> QED
  BY <1>1, <1>2, <1>3, <1>6, <1>7, <1>8

\* The answer to a transfer.
LEMMA TransferIs ==
  ASSUME NEW d \in Driver, d.state = "TRANSFER"
  PROVE  LET e == on_rx_complete(d)
         IN  /\ e \in Driver /\ e.work /\ e.slept = d.slept /\ e.tx = d.tx /\ e.tag = d.tag
             /\ e.collided = d.collided /\ e.timer = d.timer /\ Completes(d, e, {"SLEEP"})
             /\ e.idx = d.idx /\ e.broken = d.broken /\ e.misnamed = d.misnamed
             /\ e.txrx = d.txrx
             /\ e.crossed <=> d.crossed \/ (~d.stale /\ (d.chip.ans.kind \notin {"data"} \/ d.chip.n < 0))
<1> DEFINE x == Crosses(d, {"data"}, 0)
           g == read_rx_data(x, d.rx)
           i == [g EXCEPT !.received = @ + d.chip.n, !.state = "IDLE"]
           j == st25r3911b_nfca_tag_sleep(i)
           e == [j EXCEPT !.work = TRUE]
<1>1. on_rx_complete(d) = e
  BY DEF on_rx_complete, transfer_completed
<1>2. /\ x \in Driver /\ x.chip = d.chip /\ Kept(d, x) /\ x.txrx = d.txrx
      /\ x.idx = d.idx /\ x.broken = d.broken /\ x.misnamed = d.misnamed
      /\ x.crossed <=> d.crossed \/ (~d.stale /\ (d.chip.ans.kind \notin {"data"} \/ d.chip.n < 0))
  BY CrossesIs
<1> HIDE DEF x
<1>3. d.rx \in Nat /\ d.chip.n \in Nat
  BY DEF Driver, Chip
<1>4. /\ g \in Driver /\ SameExchange(x.chip, g.chip) /\ Kept(x, g) /\ g.txrx = x.txrx
      /\ g.idx = x.idx /\ g.broken = x.broken /\ g.misnamed = x.misnamed /\ g.crossed = x.crossed
  BY <1>2, <1>3, ReadIs
<1> HIDE DEF g
<1>5. /\ i \in Driver /\ i.chip = g.chip /\ Kept(g, i) /\ i.state = "IDLE" /\ i.txrx = g.txrx
      /\ i.idx = g.idx /\ i.broken = g.broken /\ i.misnamed = g.misnamed /\ i.crossed = g.crossed
  <2>1. g.received + d.chip.n \in Int
    BY <1>3, <1>4 DEF Driver
  <2> QED
    BY <1>4, <2>1 DEF Driver, States, Kept
<1> HIDE DEF i
<1>6. Asked(i, j, "SLEEP")
  BY <1>5, Requests
<1>11. j.txrx = i.txrx
  BY <1>5 DEF st25r3911b_nfca_tag_sleep, request, Driver
<1> HIDE DEF j
<1>7. /\ j \in Driver /\ j.chip = g.chip /\ Kept(g, j) /\ j.state = "SLEEP" /\ j.user_sem
      /\ j.idx = g.idx /\ j.broken = g.broken /\ j.misnamed = g.misnamed /\ j.crossed = g.crossed
  BY <1>5, <1>6 DEF Asked, KeptAll, Kept
<1>8. /\ e \in Driver /\ e.chip = j.chip /\ e.work /\ e.state = "SLEEP" /\ e.user_sem
      /\ e.idx = j.idx /\ e.broken = j.broken /\ e.misnamed = j.misnamed /\ e.crossed = j.crossed
      /\ e.slept = j.slept /\ e.tx = j.tx /\ e.tag = j.tag /\ e.collided = j.collided
      /\ e.timer = j.timer /\ e.stale = j.stale /\ e.lost = j.lost /\ e.txrx = j.txrx
  BY <1>7 DEF Driver
<1> HIDE DEF e
<1>9. Completes(d, e, {"SLEEP"})
  BY <1>2, <1>4, <1>7, <1>8 DEF Completes, Kept
<1>10. /\ e.slept = d.slept /\ e.tx = d.tx /\ e.tag = d.tag
       /\ e.collided = d.collided /\ e.timer = d.timer
  BY <1>2, <1>4, <1>7, <1>8 DEF Kept
<1>12. e.txrx = d.txrx
  BY <1>2, <1>4, <1>5, <1>8, <1>11
<1> QED
  BY <1>1, <1>2, <1>4, <1>7, <1>8, <1>9, <1>10, <1>12

\* A collision: the frame is sent again, or there is none to send.
LEMMA CollisionIs ==
  ASSUME NEW d \in Driver
  PROVE  LET e == on_collision(d)
         IN  /\ Apart(d, e) /\ e.timer = d.timer /\ e.crossed = d.crossed
             /\ \/ Refused(d, e)
                \/ d.state = "ANTICOLLISION" /\ Resends(d, e, "rest", d.lvl, d.idx)
<1> DEFINE g == read_rx_data(d, 5)
           e == on_collision(d)
<1>1. /\ g \in Driver /\ SameExchange(d.chip, g.chip) /\ Kept(d, g)
      /\ g.state = d.state /\ g.txrx = d.txrx /\ g.user_sem = d.user_sem
      /\ g.idx = d.idx /\ g.broken = d.broken /\ g.misnamed = d.misnamed
      /\ g.crossed = d.crossed
  BY ReadIs
<1>2. e = IF d.state # "ANTICOLLISION" THEN Fails(d, "EFAULT")
          ELSE IF g.err # "none" THEN g ELSE anticollision_transmit([g EXCEPT !.broken = TRUE], "rest")
  BY DEF on_collision
<1> HIDE DEF g, e
<1>3. CASE d.state # "ANTICOLLISION"
  <2> DEFINE h == Fails(d, "EFAULT")
  <2>1. "EFAULT" \in Errors
    BY DEF Errors
  <2>2. /\ h \in Driver /\ h.err = "EFAULT" /\ h.chip = d.chip /\ Kept(d, h)
        /\ h.state = d.state /\ h.txrx = d.txrx /\ h.user_sem = d.user_sem /\ h.idx = d.idx
        /\ h.broken = d.broken /\ h.misnamed = d.misnamed /\ h.crossed = d.crossed
    BY <2>1, FailsIs
  <2>3. e = h
    BY <1>2, <1>3
  <2> HIDE DEF h
  <2> QED
    BY <2>2, <2>3 DEF Apart, Refused, Kept, SameExchange, e
<1>4. CASE d.state = "ANTICOLLISION" /\ g.err # "none"
  <2>1. e = g
    BY <1>2, <1>4
  <2> QED
    BY <1>1, <1>4, <2>1 DEF Apart, Refused, Kept, e
<1>5. CASE d.state = "ANTICOLLISION" /\ g.err = "none"
  <2> DEFINE b == [g EXCEPT !.broken = TRUE]
             h == anticollision_transmit(b, "rest")
             f == [kind |-> "rest", len |-> 7, lvl |-> b.lvl]
  <2>0. /\ b \in Driver /\ b.chip = g.chip /\ Kept(g, b) /\ b.state = g.state
        /\ b.txrx = g.txrx /\ b.user_sem = g.user_sem /\ b.idx = g.idx /\ b.broken
        /\ b.misnamed = g.misnamed /\ b.crossed = g.crossed
    BY <1>1 DEF Driver, Kept
  <2>2. e = h
    BY <1>2, <1>5
  <2> HIDE DEF b
  <2>1. Sending(b, h, f) /\ Left(b, h) /\ h.lvl = b.lvl
    BY <2>0, ResolutionFrame
  <2> HIDE DEF h
  <2>3. Sending(d, h, f) /\ b.lvl = d.lvl
    BY <1>1, <2>0, <2>1 DEF Sending, SameExchange, Kept
  <2>4. Resends(d, h, "rest", d.lvl, d.idx)
    BY <1>1, <2>0, <2>1, <2>3 DEF Resends, Left
  <2>5. Apart(d, h) /\ h.timer = d.timer /\ h.crossed = d.crossed
    BY <1>1, <2>0, <2>1 DEF Apart, Left, Sending, Kept
  <2> QED
    BY <1>5, <2>2, <2>4, <2>5 DEF e
<1> QED
  BY <1>3, <1>4, <1>5

\* The level of the FIFO.
LEMMA LevelIs ==
  ASSUME NEW d \in Driver
  PROVE  LET e == on_fifo_water_lvl(d)
         IN  /\ Apart(d, e) /\ e.timer = d.timer /\ SameExchange(d.chip, e.chip)
             /\ e.state = d.state /\ e.txrx = d.txrx /\ e.user_sem = d.user_sem
             /\ e.idx = d.idx /\ e.broken = d.broken /\ e.misnamed = d.misnamed
             /\ e.stale = d.stale /\ e.lost = d.lost /\ e.lvl = d.lvl
             /\ e.chip.n <= d.chip.n
             /\ d.txrx \notin {"TX_START", "RX_START"} => e.err # "none" /\ e.crossed = d.crossed
             /\ d.crossed => e.crossed
             /\ e.crossed => d.crossed \/ (/\ ~d.stale /\ d.tx <= ST25R3911B_MAX_FIFO_LEN
                                           /\ d.chip.n < FIFO_RX_WATER_LVL)
<1> DEFINE Goal(e) ==
             /\ Apart(d, e) /\ e.timer = d.timer /\ SameExchange(d.chip, e.chip)
             /\ e.state = d.state /\ e.txrx = d.txrx /\ e.user_sem = d.user_sem
             /\ e.idx = d.idx /\ e.broken = d.broken /\ e.misnamed = d.misnamed
             /\ e.stale = d.stale /\ e.lost = d.lost /\ e.lvl = d.lvl
             /\ e.chip.n <= d.chip.n
           Sized(e) == /\ d.crossed => e.crossed
                       /\ e.crossed => d.crossed \/ (/\ ~d.stale /\ d.tx <= ST25R3911B_MAX_FIFO_LEN
                                                     /\ d.chip.n < FIFO_RX_WATER_LVL)
<1>1. d.chip \in Chip /\ d.chip.n \in Nat /\ d.tx \in Nat /\ d.written \in Int /\ d.received \in Int
  BY DEF Driver, Chip
<1>2. ASSUME NEW err \in Errors \ {"none"}
      PROVE  Goal(Fails(d, err)) /\ Fails(d, err).crossed = d.crossed /\ Fails(d, err).err # "none"
  <2> DEFINE h == Fails(d, err)
  <2>1. /\ h \in Driver /\ h.err = err /\ h.chip = d.chip /\ Kept(d, h)
        /\ h.state = d.state /\ h.txrx = d.txrx /\ h.user_sem = d.user_sem
        /\ h.idx = d.idx /\ h.broken = d.broken /\ h.misnamed = d.misnamed
        /\ h.crossed = d.crossed
    BY FailsIs
  <2> HIDE DEF h
  <2>2. Goal(h)
    BY <1>1, <2>1 DEF Apart, Kept, SameExchange
  <2> QED
    BY <2>1, <2>2 DEF h
<1>3. CASE d.txrx = "TX_START"
  <2> DEFINE k == (d.tx - d.written) % 256
             w == [d EXCEPT !.written = @ + k]
  <2>1. k \in Int
    BY <1>1
  <2>2. on_fifo_water_lvl(d) = IF fifo_write_ok(k) THEN w ELSE Fails(w, "EINVAL")
    BY <1>3 DEF on_fifo_water_lvl, tx_fifo_water
  <2> HIDE DEF k
  <2>3. d.written + k \in Int
    BY <1>1, <2>1
  <2>4. /\ w \in Driver /\ w.chip = d.chip /\ Kept(d, w)
        /\ w.state = d.state /\ w.txrx = d.txrx /\ w.user_sem = d.user_sem
        /\ w.idx = d.idx /\ w.broken = d.broken /\ w.misnamed = d.misnamed
        /\ w.crossed = d.crossed
    BY <2>3 DEF Driver, Kept
  <2> HIDE DEF w
  <2>5. Goal(w) /\ Sized(w)
    BY <1>1, <2>4 DEF Apart, Kept, SameExchange
  <2>6. Goal(Fails(w, "EINVAL")) /\ Sized(Fails(w, "EINVAL"))
    <3> DEFINE h == Fails(w, "EINVAL")
    <3>1. "EINVAL" \in Errors
      BY DEF Errors
    <3>2. /\ h \in Driver /\ h.chip = w.chip /\ Kept(w, h)
          /\ h.state = w.state /\ h.txrx = w.txrx /\ h.user_sem = w.user_sem
          /\ h.idx = w.idx /\ h.broken = w.broken /\ h.misnamed = w.misnamed
          /\ h.crossed = w.crossed
      BY <2>4, <3>1, FailsIs
    <3> HIDE DEF h
    <3>3. Goal(h) /\ Sized(h)
      BY <1>1, <2>4, <3>2 DEF Apart, Kept, SameExchange
    <3> QED
      BY <3>3 DEF h
  <2> QED
    BY <1>3, <2>2, <2>5, <2>6
<1>4. CASE d.txrx = "RX_START"
  <2>1. CASE d.rx <= d.received + FIFO_RX_WATER_LVL
    <3>1. on_fifo_water_lvl(d) = Fails(d, "assert") /\ "assert" \in Errors \ {"none"}
      BY <1>4, <2>1 DEF on_fifo_water_lvl, rx_fifo_water, Errors
    <3> QED
      BY <1>2, <1>4, <3>1
  <2>2. CASE ~(d.rx <= d.received + FIFO_RX_WATER_LVL)
    <3> DEFINE x == d.crossed \/ (/\ ~d.stale /\ d.tx <= ST25R3911B_MAX_FIFO_LEN
                                  /\ d.chip.n < FIFO_RX_WATER_LVL)
               m == [d EXCEPT !.crossed = x]
               c == st25r3911b_fifo_read(d.chip, FIFO_RX_WATER_LVL)
               r == d.received + FIFO_RX_WATER_LVL
               e == [m EXCEPT !.received = r, !.chip = c]
    <3>1. x \in BOOLEAN /\ r \in Int
      BY <1>1 DEF Driver, FIFO_RX_WATER_LVL
    <3>2. /\ m \in Driver /\ m.chip = d.chip /\ m.received = d.received /\ Kept(d, m)
          /\ m.state = d.state /\ m.txrx = d.txrx /\ m.user_sem = d.user_sem
          /\ m.idx = d.idx /\ m.broken = d.broken /\ m.misnamed = d.misnamed
          /\ (m.crossed <=> x)
      <4> HIDE DEF x
      <4> QED
        BY <3>1 DEF Driver, Kept
    <3>3. on_fifo_water_lvl(d) = e
      <4>1. Misses(d) = m
        BY DEF Misses
      <4> HIDE DEF m
      <4> QED
        BY <1>4, <2>2, <3>2, <4>1 DEF on_fifo_water_lvl, rx_fifo_water
    <3>4. c \in Chip /\ SameExchange(d.chip, c) /\ c.n <= d.chip.n
      <4>1. c = [d.chip EXCEPT !.n = IF d.chip.n < FIFO_RX_WATER_LVL THEN 0
                                     ELSE d.chip.n - FIFO_RX_WATER_LVL]
        BY DEF st25r3911b_fifo_read
      <4> QED
        BY <1>1, <4>1 DEF Chip, SameExchange, FIFO_RX_WATER_LVL
    <3> HIDE DEF m, c, x, r
    <3>5. /\ e \in Driver /\ e.chip = c /\ Kept(m, e)
          /\ e.state = m.state /\ e.txrx = m.txrx /\ e.user_sem = m.user_sem
          /\ e.idx = m.idx /\ e.broken = m.broken /\ e.misnamed = m.misnamed
          /\ e.crossed = m.crossed
      BY <3>1, <3>2, <3>4 DEF Driver, Kept
    <3> HIDE DEF e
    <3>6. Goal(e)
      BY <3>2, <3>4, <3>5 DEF Apart, Kept
    <3> QED
      BY <1>4, <3>2, <3>3, <3>5, <3>6 DEF x
  <2> QED
    BY <2>1, <2>2
<1>5. CASE d.txrx \notin {"TX_START", "RX_START"}
  <2>1. on_fifo_water_lvl(d) = Fails(d, "EPERM") /\ "EPERM" \in Errors \ {"none"}
    BY <1>5 DEF on_fifo_water_lvl, Errors
  <2> QED
    BY <1>2, <2>1
<1> QED
  BY <1>3, <1>4, <1>5

\* The end of an exchange that was not answered.
LEMMA TimeoutIs ==
  ASSUME NEW d \in Driver
  PROVE  LET e == timeout_process(d)
         IN  /\ e \in Driver /\ e.state = "IDLE" /\ e.slept /\ e.chip = d.chip
             /\ e.txrx = d.txrx /\ e.user_sem = d.user_sem /\ e.timer = d.timer /\ e.work = d.work
             /\ e.tx = d.tx /\ e.tag = d.tag /\ e.collided = d.collided /\ e.stale = d.stale
             /\ e.lost = d.lost /\ e.crossed = d.crossed /\ e.misnamed = d.misnamed
             /\ e.idx = d.idx /\ (e.broken <=> d.idx # 0) /\ e.err = d.err
<1> DEFINE y == d.idx # 0
           e == [[d EXCEPT !.state = "IDLE", !.broken = y] EXCEPT !.slept = TRUE]
<1>1. timeout_process(d) = e
  BY DEF timeout_process, nfc_timeout
<1>2. y \in BOOLEAN
  BY DEF Driver
<1> HIDE DEF y
<1>3. e \in Driver
  BY <1>2 DEF Driver, States
<1>4. /\ e.state = "IDLE" /\ e.slept /\ e.chip = d.chip
      /\ e.txrx = d.txrx /\ e.user_sem = d.user_sem /\ e.timer = d.timer /\ e.work = d.work
      /\ e.tx = d.tx /\ e.tag = d.tag /\ e.collided = d.collided /\ e.stale = d.stale
      /\ e.lost = d.lost /\ e.crossed = d.crossed /\ e.misnamed = d.misnamed
      /\ e.idx = d.idx /\ (e.broken <=> y) /\ e.err = d.err
  BY <1>2 DEF Driver
<1> HIDE DEF e
<1> QED
  BY <1>1, <1>3, <1>4 DEF y

-----------------------------------------------------------------------------
(* Why the reader goes on: the stages of irq_process().  What is left of   *)
(* the status is r; an error of an earlier stage is forgotten by a later   *)
(* one only if that one fails too or the exchange goes on.                 *)

Complete == {"TX_COMPLETE", "RX_COMPLETE"}

Sound(d) ==
  /\ d \in Driver /\ ChipOK(d.chip) /\ Matches(d) /\ (Pin(d.chip) => d.chip.sem)
  /\ d.chip.frame.kind # "none"

Going(d, r, w) ==
  /\ Sound(d) /\ ~d.slept /\ (d.state = "IDLE" => d.work \/ w = "asleep")
  /\ Alive(d, r) \/ (d.err # "none" /\ d.txrx \in Complete /\ d.state \in Active)

\* What is the same when the exchange is.
LEMMA ExchangeKept ==
  ASSUME NEW c, NEW e, SameExchange(c, e)
  PROVE  /\ Wire(e) = Wire(c) /\ Unread(e) = Unread(c) /\ Coming(e) = Coming(c)
         /\ Pin(e) = Pin(c) /\ ChipOK(e) = ChipOK(c)
<1>1. /\ Wire(e) = Wire(c) /\ Unread(e) = Unread(c) /\ Coming(e) = Coming(c)
      /\ Pin(e) = Pin(c)
  BY DEF SameExchange, Wire, Unread, Coming, Pin
<1>2. ChipOK(e) = ChipOK(c)
  BY <1>1 DEF SameExchange, ChipOK
<1> QED
  BY <1>1, <1>2

\* Alive depends on the state, the timer, the work and the exchange only.
LEMMA AliveKept ==
  ASSUME NEW d, NEW e, NEW r, Alive(d, r), SameExchange(d.chip, e.chip),
         e.state = d.state, e.txrx = d.txrx, e.user_sem = d.user_sem, e.timer = d.timer,
         e.work = d.work, e.lost = d.lost
  PROVE  Alive(e, r)
<1>1. /\ Wire(e.chip) = Wire(d.chip) /\ Unread(e.chip) = Unread(d.chip)
      /\ Coming(e.chip) = Coming(d.chip) /\ e.chip.frame = d.chip.frame
  BY ExchangeKept DEF SameExchange
<1> QED
  BY <1>1 DEF Alive, Noticed

\* So does soundness.
LEMMA SoundKept ==
  ASSUME NEW d, NEW e \in Driver, Sound(d), SameExchange(d.chip, e.chip),
         \/ e.state = d.state /\ e.user_sem = d.user_sem
         \/ e.user_sem \/ e.state = "IDLE"
  PROVE  Sound(e)
<1>1. ChipOK(e.chip) /\ (Pin(e.chip) => e.chip.sem) /\ e.chip.frame = d.chip.frame
  BY ExchangeKept DEF SameExchange, Sound
<1>2. Matches(e)
  BY <1>1 DEF Matches, Sound
<1> QED
  BY <1>1, <1>2 DEF Sound

\* While the end of the transmission has not been noticed, what has been read
\* of the status does not keep the exchange alive.
LEMMA StatusNotNeeded ==
  ASSUME NEW d, NEW r, Sound(d), Alive(d, r), "TXE" \notin r, d.txrx \notin Complete
  PROVE  Alive(d, {})
<1>1. ASSUME d.state \in Active, ~d.user_sem, Noticed(d, r), "TXE" \notin Wire(d.chip)
      PROVE  Noticed(d, {})
  <2>1. "TXE" \in Unread(d.chip)
    BY <1>1 DEF Noticed, Complete
  <2>2. d.chip.frame.kind # "slp"
    BY <1>1 DEF Sound, Matches, Active
  <2>3. {"NRE", "RXS"} \cap Coming(d.chip) # {}
    BY <1>1, <2>1, <2>2 DEF Sound, ChipOK
  <2> QED
    BY <2>1, <2>3 DEF Noticed, Ends
<1>2. d.state \in Active =>
       \/ d.user_sem \/ d.timer \/ d.lost \/ "TXE" \in Wire(d.chip) \/ Noticed(d, {})
  BY <1>1 DEF Alive
<1>3. \A x : "TXE" \in x \cup r <=> "TXE" \in x \cup {}
  OBVIOUS
<1> QED
  BY <1>2, <1>3 DEF Alive

\* The end of the transmission.
LEMMA GoesTxe ==
  ASSUME NEW d, NEW st, NEW r, NEW w, Going(d, r, w), "TXE" \in st <=> "TXE" \in r
  PROVE  Going(OnTxe(d, st), r \ {"TXE"}, w)
<1>1. CASE "TXE" \notin st
  <2>1. OnTxe(d, st) = d /\ r \ {"TXE"} = r
    BY <1>1 DEF OnTxe
  <2> QED
    BY <2>1
<1>2. CASE "TXE" \in st
  <2> DEFINE e == [d EXCEPT !.txrx = "TX_COMPLETE", !.state = IF @ = "SLEEP" THEN "IDLE" ELSE @]
  <2>1. OnTxe(d, st) = e
    BY <1>2 DEF OnTxe
  <2>2. d \in Driver
    BY DEF Going, Sound
  <2>3. /\ e \in Driver /\ e.chip = d.chip /\ e.txrx = "TX_COMPLETE" /\ e.user_sem = d.user_sem
        /\ e.timer = d.timer /\ e.work = d.work /\ e.lost = d.lost /\ e.slept = d.slept
        /\ e.err = d.err /\ e.state = (IF d.state = "SLEEP" THEN "IDLE" ELSE d.state)
    BY <2>2 DEF Driver, States, TxRx
  <2> HIDE DEF e
  <2>4. SameExchange(d.chip, e.chip)
    BY <2>3 DEF SameExchange
  <2>5. Sound(e)
    BY <2>3, <2>4, SoundKept DEF Going
  <2>6. CASE Alive(d, r)
    <3>1. d.state = "SLEEP" => d.work
      BY <1>2, <2>6 DEF Alive
    <3>2. e.state \in Active =>
       \/ e.user_sem \/ e.timer \/ e.lost \/ "TXE" \in Wire(e.chip) \/ Noticed(e, r \ {"TXE"})
      BY <2>3, <2>6 DEF Alive, Noticed, Complete, Ends, Active
    <3>3. e.state # "SLEEP" /\ (e.state = "FIELD_ON" => e.user_sem /\ e.chip.frame.kind = "none")
      BY <2>3, <2>6 DEF Alive
    <3>4. Alive(e, r \ {"TXE"})
      BY <3>2, <3>3 DEF Alive
    <3> QED
      BY <2>1, <2>3, <2>5, <3>1, <3>4 DEF Going
  <2>7. CASE d.err # "none" /\ d.txrx \in Complete /\ d.state \in Active
    BY <2>1, <2>3, <2>5, <2>7 DEF Going, Active, Complete
  <2> QED
    BY <2>6, <2>7 DEF Going
<1> QED
  BY <1>1, <1>2

\* The start of a reception.
LEMMA GoesRxs ==
  ASSUME NEW d, NEW st, NEW r, NEW w, Going(d, r, w), "RXS" \in st <=> "RXS" \in r
  PROVE  Going(OnRxs(d, st), r \ {"RXS"}, w)
<1>1. CASE "RXS" \notin st
  <2>1. OnRxs(d, st) = d /\ r \ {"RXS"} = r
    BY <1>1 DEF OnRxs
  <2> QED
    BY <2>1
<1>2. CASE "RXS" \in st
  <2> DEFINE e == [d EXCEPT !.txrx = "RX_START", !.timer = TRUE]
  <2>1. OnRxs(d, st) = e
    BY <1>2 DEF OnRxs, StartsReception
  <2>2. d \in Driver
    BY DEF Going, Sound
  <2>3. /\ e \in Driver /\ e.chip = d.chip /\ e.user_sem = d.user_sem
        /\ e.timer /\ e.work = d.work /\ e.lost = d.lost /\ e.slept = d.slept
        /\ e.state = d.state
    BY <2>2 DEF Driver, TxRx
  <2> HIDE DEF e
  <2>4. SameExchange(d.chip, e.chip)
    BY <2>3 DEF SameExchange
  <2>5. Sound(e)
    BY <2>3, <2>4, SoundKept DEF Going
  <2>6. \A x : "TXE" \in x \cup r <=> "TXE" \in x \cup (r \ {"RXS"})
    OBVIOUS
  <2>7. Alive(e, r \ {"RXS"})
    <3>1. CASE Alive(d, r)
      BY <2>3, <2>6, <3>1 DEF Alive
    <3>2. CASE d.state \in Active
      BY <2>3, <3>2 DEF Alive, Active
    <3> QED
      BY <3>1, <3>2 DEF Going
  <2> QED
    BY <2>1, <2>3, <2>5, <2>7 DEF Going
<1> QED
  BY <1>1, <1>2

\* A frame of the resolution keeps it alive.
LEMMA ResendGoes ==
  ASSUME NEW d, NEW e, NEW kind \in {"sdd", "rest", "sel"}, NEW lvl, NEW idx, NEW r,
         d.state = "ANTICOLLISION", Resends(d, e, kind, lvl, idx)
  PROVE  Sound(e) /\ Alive(e, r) /\ e.state = "ANTICOLLISION"
<1> DEFINE f == [kind |-> kind, len |-> 7, lvl |-> lvl]
<1>1. Sending(d, e, f) /\ e.state = "ANTICOLLISION" /\ f.kind = kind
  BY DEF Resends
<1> HIDE DEF f
<1>2. Sound(e)
  BY <1>1 DEF Sending, Sound, Matches
<1>3. Alive(e, r)
  BY <1>1 DEF Sending, Alive
<1> QED
  BY <1>1, <1>2, <1>3

\* A request that a callback has made keeps it alive.
LEMMA CompleteGoes ==
  ASSUME NEW d, NEW e \in Driver, NEW states, NEW r, NEW w, Sound(d), Completes(d, e, states),
         states \subseteq Active \/ (states = {"SLEEP"} /\ e.work), ~e.slept
  PROVE  Going(e, r, w)
<1>1. Sound(e)
  BY SoundKept DEF Completes
<1>2. e.user_sem /\ (e.state \in Active \/ (e.state = "SLEEP" /\ e.work))
  BY DEF Completes
<1>3. Alive(e, r) /\ e.state # "IDLE"
  BY <1>2 DEF Alive, Active
<1> QED
  BY <1>1, <1>3 DEF Going

\* What ends a reception.
LEMMA EndsIs ==
  ASSUME NEW d \in Driver
  PROVE  LET g == EndsReception(d)
         IN  /\ g \in Driver /\ g.chip = d.chip /\ g.txrx = "RX_COMPLETE" /\ ~g.timer
             /\ g.state = d.state /\ g.user_sem = d.user_sem /\ g.work = d.work
             /\ g.lost = d.lost /\ g.slept = d.slept /\ g.err = d.err /\ g.lvl = d.lvl
             /\ g.tx = d.tx /\ g.tag = d.tag /\ g.collided = d.collided /\ g.stale = d.stale
             /\ g.idx = d.idx /\ g.broken = d.broken /\ g.misnamed = d.misnamed
             /\ g.crossed = d.crossed
  BY DEF EndsReception, Driver, TxRx

\* The end of a reception.
LEMMA GoesRxe ==
  ASSUME NEW d, NEW st, NEW r, NEW w, Going(d, r, w), "RXE" \in st <=> "RXE" \in r
  PROVE  Going(OnRxe(d, st), r \ {"RXE"}, w)
<1>1. CASE "RXE" \notin st
  <2>1. OnRxe(d, st) = d /\ r \ {"RXE"} = r
    BY <1>1 DEF OnRxe
  <2> QED
    BY <2>1
<1>2. CASE "RXE" \in st
  <2> DEFINE g == EndsReception(d)
             e == on_rx_complete(g)
             q == r \ {"RXE"}
  <2>1. OnRxe(d, st) = e
    BY <1>2 DEF OnRxe
  <2>2. d \in Driver
    BY DEF Going, Sound
  <2>3. /\ g \in Driver /\ g.chip = d.chip /\ g.txrx = "RX_COMPLETE"
        /\ g.state = d.state /\ g.user_sem = d.user_sem /\ g.work = d.work
        /\ g.lost = d.lost /\ g.slept = d.slept
    BY <2>2, EndsIs
  <2> HIDE DEF g
  <2>4. Sound(g) /\ ~g.slept
    <3>1. SameExchange(d.chip, g.chip)
      BY <2>3 DEF SameExchange
    <3> QED
      BY <2>3, <3>1, SoundKept DEF Going
  <2>5. CASE g.state = "TAG_DETECTION"
    <3>1. Apart(g, e) /\ Completes(g, e, {"ANTICOLLISION"})
      BY <2>3, <2>5, DetectionIs
    <3> HIDE DEF e
    <3>2. Going(e, q, w)
      BY <2>4, <3>1, CompleteGoes DEF Apart, Active
    <3> QED
      BY <2>1, <3>2
  <2>6. CASE g.state = "TRANSFER"
    <3>1. e \in Driver /\ e.work /\ e.slept = g.slept /\ Completes(g, e, {"SLEEP"})
      BY <2>3, <2>6, TransferIs
    <3> HIDE DEF e
    <3>2. Going(e, q, w)
      BY <2>4, <3>1, CompleteGoes
    <3> QED
      BY <2>1, <3>2
  <2>7. CASE g.state = "ANTICOLLISION"
    <3>1. e = anticollision_rx(g)
      BY <2>7 DEF on_rx_complete
    <3>2. Apart(g, e) /\ Resolved(g, e, g.chip.ans.kind = "none" \/ g.chip.n = 0)
      BY <2>3, <3>1, ResolutionIs
    <3> HIDE DEF e
    <3>3. e \in Driver /\ ~e.slept
      BY <2>4, <3>2 DEF Apart
    <3>4. \/ Refused(g, e) 
          \/ \E states : states \subseteq Active /\ Completes(g, e, states)
          \/ \E kind \in {"sdd", "rest", "sel"} : \E lvl, idx : Resends(g, e, kind, lvl, idx)
      <4>1. {"TRANSFER", "TAG_DETECTION"} \subseteq Active /\ {"TAG_DETECTION"} \subseteq Active
        BY DEF Active
      <4> QED
        BY <3>2, <4>1 DEF Resolved
    <3>5. CASE Refused(g, e)
      <4>1. Sound(e)
        BY <2>4, <3>3, <3>5, SoundKept DEF Refused
      <4>2. e.err # "none" /\ e.txrx \in Complete /\ e.state = "ANTICOLLISION"
        BY <2>3, <2>7, <3>5 DEF Refused, Complete
      <4> QED
        BY <2>1, <3>3, <4>1, <4>2 DEF Going, Active
    <3>6. CASE \E states : states \subseteq Active /\ Completes(g, e, states)
      BY <2>1, <2>4, <3>3, <3>6, CompleteGoes
    <3>7. CASE \E kind \in {"sdd", "rest", "sel"} : \E lvl, idx : Resends(g, e, kind, lvl, idx)
      <4>1. Sound(e) /\ Alive(e, q) /\ e.state = "ANTICOLLISION"
        BY <2>7, <3>7, ResendGoes
      <4> QED
        BY <2>1, <3>3, <4>1 DEF Going
    <3> QED
      BY <3>4, <3>5, <3>6, <3>7
  <2>8. CASE g.state \notin Active
    <3>1. e = g
      BY <2>8 DEF on_rx_complete, Active
    <3>2. Alive(d, r)
      BY <2>3, <2>8 DEF Going
    <3>3. \A x : "TXE" \in x \cup r <=> "TXE" \in x \cup q
      OBVIOUS
    <3>4. Alive(g, q)
      BY <2>3, <2>8, <3>2, <3>3 DEF Alive
    <3> QED
      BY <2>1, <2>3, <2>4, <3>1, <3>4 DEF Going
  <2> QED
    BY <2>5, <2>6, <2>7, <2>8 DEF Active
<1> QED
  BY <1>1, <1>2

\* What is read besides does no harm.
LEMMA AliveMore ==
  ASSUME NEW d, NEW q, Alive(d, {}), "TXE" \notin q
  PROVE  Alive(d, q)
<1>1. \A x : "TXE" \in x \cup q <=> "TXE" \in x \cup {}
  OBVIOUS
<1>2. Noticed(d, {}) => Noticed(d, q)
  BY DEF Noticed
<1> QED
  BY <1>1, <1>2 DEF Alive

\* A stage that fails.
LEMMA RefusalGoes ==
  ASSUME NEW d, NEW e \in Driver, NEW r, NEW q, NEW w, Going(d, r, w),
         "TXE" \notin r, "TXE" \notin q,
         Refused(d, e), e.timer = d.timer, e.work = d.work, e.slept = d.slept
  PROVE  Going(e, q, w)
<1>1. Sound(e) /\ ~e.slept /\ (e.state = "IDLE" => e.work \/ w = "asleep")
  BY SoundKept DEF Going, Refused
<1>2. CASE e.state \in Active /\ e.txrx \in Complete
  BY <1>1, <1>2 DEF Going, Refused
<1>3. CASE ~(e.state \in Active /\ e.txrx \in Complete)
  <2>1. Alive(d, r)
    BY <1>3 DEF Going, Refused
  <2>2. Alive(d, {})
    <3>1. CASE d.txrx \notin Complete
      BY <2>1, <3>1, StatusNotNeeded DEF Going
    <3>2. CASE d.state \notin Active
      <4>1. \A x : "TXE" \in x \cup r <=> "TXE" \in x \cup {}
        OBVIOUS
      <4> QED
        BY <2>1, <3>2, <4>1 DEF Alive
    <3> QED
      BY <1>3, <3>1, <3>2 DEF Refused
  <2>3. Alive(e, {})
    BY <2>2, AliveKept DEF Refused
  <2>4. Alive(e, q)
    BY <2>3, AliveMore
  <2> QED
    BY <1>1, <2>4 DEF Going
<1> QED
  BY <1>2, <1>3

\* A collision.
LEMMA GoesCol ==
  ASSUME NEW d, NEW st, NEW r, NEW w, Going(d, r, w), "COL" \in st <=> "COL" \in r, "TXE" \notin r
  PROVE  Going(OnCol(d, st), r \ {"COL"}, w)
<1>1. CASE "COL" \notin st
  <2>1. OnCol(d, st) = d /\ r \ {"COL"} = r
    BY <1>1 DEF OnCol
  <2> QED
    BY <2>1
<1>2. CASE "COL" \in st
  <2> DEFINE g == Fails(d, "none")
             e == on_collision(g)
             q == r \ {"COL"}
  <2>1. OnCol(d, st) = e
    BY <1>2 DEF OnCol
  <2>2. d \in Driver /\ "none" \in Errors /\ "TXE" \notin q
    BY DEF Going, Sound, Errors
  <2>3. /\ g \in Driver /\ g.chip = d.chip /\ Kept(d, g) /\ g.state = d.state
        /\ g.txrx = d.txrx /\ g.user_sem = d.user_sem /\ g.misnamed = d.misnamed
        /\ g.idx = d.idx /\ g.broken = d.broken
    BY <2>2, FailsIs
  <2> HIDE DEF g
  <2>4. Apart(g, e) /\ e.timer = g.timer
        /\ (Refused(g, e) \/ (g.state = "ANTICOLLISION" /\ Resends(g, e, "rest", g.lvl, g.idx)))
    BY <2>3, CollisionIs
  <2> HIDE DEF e
  <2>5. CASE Refused(g, e)
    <3>1. Refused(d, e)
      BY <2>3, <2>5 DEF Refused, Kept
    <3>2. e \in Driver /\ e.timer = d.timer /\ e.work = d.work /\ e.slept = d.slept
      BY <2>3, <2>4 DEF Apart, Kept
    <3> QED
      BY <2>1, <2>2, <3>1, <3>2, RefusalGoes
  <2>6. CASE g.state = "ANTICOLLISION" /\ Resends(g, e, "rest", g.lvl, g.idx)
    <3>1. Sound(e) /\ Alive(e, q) /\ e.state = "ANTICOLLISION"
      BY <2>6, ResendGoes
    <3>2. ~e.slept
      BY <2>3, <2>4 DEF Apart, Kept, Going
    <3> QED
      BY <2>1, <3>1, <3>2 DEF Going
  <2> QED
    BY <2>4, <2>5, <2>6
<1> QED
  BY <1>1, <1>2

\* The level of the FIFO.
LEMMA GoesFwl ==
  ASSUME NEW d, NEW st, NEW r, NEW w, Going(d, r, w), "FWL" \in st <=> "FWL" \in r, "TXE" \notin r
  PROVE  Going(OnFwl(d, st), r \ {"FWL"}, w)
<1>1. CASE "FWL" \notin st
  <2>1. OnFwl(d, st) = d /\ r \ {"FWL"} = r
    BY <1>1 DEF OnFwl
  <2> QED
    BY <2>1
<1>2. CASE "FWL" \in st
  <2> DEFINE g == Fails(d, "none")
             e == on_fifo_water_lvl(g)
             q == r \ {"FWL"}
  <2>1. OnFwl(d, st) = e
    BY <1>2 DEF OnFwl
  <2>2. d \in Driver /\ "none" \in Errors /\ "TXE" \notin q
    BY DEF Going, Sound, Errors
  <2>3. /\ g \in Driver /\ g.chip = d.chip /\ Kept(d, g) /\ g.state = d.state
        /\ g.txrx = d.txrx /\ g.user_sem = d.user_sem /\ g.misnamed = d.misnamed
        /\ g.idx = d.idx /\ g.broken = d.broken
    BY <2>2, FailsIs
  <2> HIDE DEF g
  <2>4. /\ Apart(g, e) /\ e.timer = g.timer /\ SameExchange(g.chip, e.chip)
        /\ e.state = g.state /\ e.txrx = g.txrx /\ e.user_sem = g.user_sem
        /\ e.misnamed = g.misnamed /\ e.stale = g.stale /\ e.lost = g.lost
        /\ e.idx = g.idx /\ e.broken = g.broken /\ e.lvl = g.lvl
        /\ g.txrx \notin {"TX_START", "RX_START"} => e.err # "none"
    BY <2>3, LevelIs
  <2> HIDE DEF e
  <2>5. /\ e \in Driver /\ e.timer = d.timer /\ e.work = d.work /\ e.slept = d.slept
        /\ SameExchange(d.chip, e.chip) /\ e.state = d.state /\ e.txrx = d.txrx
        /\ e.user_sem = d.user_sem /\ e.misnamed = d.misnamed /\ e.stale = d.stale
        /\ e.lost = d.lost /\ e.idx = d.idx /\ e.broken = d.broken /\ e.lvl = d.lvl
    BY <2>3, <2>4 DEF Apart, Kept
  <2>6. CASE d.txrx \in Complete
    <3>1. e.err # "none"
      BY <2>3, <2>4, <2>6 DEF Complete
    <3>2. Refused(d, e)
      BY <2>5, <3>1 DEF Refused
    <3> QED
      BY <2>1, <2>2, <2>5, <3>2, RefusalGoes
  <2>7. CASE d.txrx \notin Complete
    <3>1. Alive(d, {})
      BY <2>7, StatusNotNeeded DEF Going
    <3>2. Alive(e, {})
      BY <2>5, <3>1, AliveKept
    <3>3. Alive(e, q)
      BY <2>2, <3>2, AliveMore
    <3>4. Sound(e)
      BY <2>5, SoundKept DEF Going
    <3> QED
      BY <2>1, <2>5, <3>3, <3>4 DEF Going
  <2> QED
    BY <2>6, <2>7
<1> QED
  BY <1>1, <1>2

\* The whole of irq_process(): an exchange that is alive stays so, or a request
\* is made, or the loop ends, or the callback sleeps.
LEMMA IrqGoes ==
  ASSUME NEW d, NEW st, NEW w, Going(d, st, w), st \subseteq Bits
  PROVE  LET e == irq_process(d, st)
         IN  /\ Sound(e) /\ (e.slept => e.state = "IDLE")
             /\ ~e.slept /\ e.err = "none" =>
                  Alive(e, {}) /\ (e.state = "IDLE" => e.work \/ w = "asleep")
<1> DEFINE d1 == OnTxe(d, st)
           d2 == OnRxs(d1, st)
           d3 == OnRxe(d2, st)
           d4 == OnCol(d3, st)
           d5 == OnFwl(d4, st)
           e == OnNre(d5, st)
           r1 == st \ {"TXE"}
           r2 == r1 \ {"RXS"}
           r3 == r2 \ {"RXE"}
           r4 == r3 \ {"COL"}
           r5 == r4 \ {"FWL"}
<1>1. irq_process(d, st) = e
  BY DEF irq_process
<1>2. Going(d1, r1, w)
  BY GoesTxe
<1> HIDE DEF d1
<1>3. Going(d2, r2, w)
  BY <1>2, GoesRxs
<1> HIDE DEF d2
<1>4. Going(d3, r3, w)
  BY <1>3, GoesRxe
<1> HIDE DEF d3
<1>5. Going(d4, r4, w)
  BY <1>4, GoesCol
<1> HIDE DEF d4
<1>6. Going(d5, r5, w)
  BY <1>5, GoesFwl
<1> HIDE DEF d5
<1>7. d5 \in Driver
  BY <1>6 DEF Going, Sound
<1>8. CASE "NRE" \in st /\ d5.txrx # "RX_START"
  <2>1. e = timeout_process(d5)
    BY <1>8 DEF OnNre
  <2>2. e \in Driver /\ e.state = "IDLE" /\ e.slept /\ e.chip = d5.chip
    BY <1>7, <2>1, TimeoutIs
  <2> HIDE DEF e
  <2>3. SameExchange(d5.chip, e.chip)
    BY <2>2 DEF SameExchange
  <2>4. Sound(e)
    BY <1>6, <2>2, <2>3, SoundKept DEF Going
  <2> QED
    BY <1>1, <2>2, <2>4
<1>9. CASE "NRE" \notin st \/ d5.txrx = "RX_START"
  <2>1. e = d5
    BY <1>9 DEF OnNre
  <2>2. "TXE" \notin r5 /\ ("NRE" \in r5 <=> "NRE" \in st)
    OBVIOUS
  <2>3. d5.err = "none" => Alive(d5, {})
    <3>1. CASE d5.txrx \notin Complete
      BY <1>6, <2>2, <3>1, StatusNotNeeded DEF Going
    <3>2. CASE d5.txrx \in Complete
      <4>1. "NRE" \notin st
        BY <1>9, <3>2 DEF Complete
      <4> DEFINE Rest == Bits \ {"TXE", "RXS", "RXE", "COL", "FWL", "NRE"}
      <4>2. r5 \subseteq Rest /\ Rest \cap Ends = {}
        BY <4>1 DEF Ends
      <4>3. Noticed(d5, r5) => Noticed(d5, {})
        BY <4>2 DEF Noticed
      <4>4. \A x : "TXE" \in x \cup r5 <=> "TXE" \in x \cup {}
        OBVIOUS
      <4>5. Alive(d5, r5) => Alive(d5, {})
        BY <4>3, <4>4 DEF Alive
      <4> QED
        BY <1>6, <4>5 DEF Going
    <3> QED
      BY <3>1, <3>2
  <2> QED
    BY <1>1, <1>6, <2>1, <2>3 DEF Going
<1> QED
  BY <1>8, <1>9

-----------------------------------------------------------------------------
(* Why the reader goes on: the actions.                                    *)

\* main() has ended its loop.
LEMMA EndedGoes ==
  ASSUME TypeOK', ~s'.slept, main'.pc = "ended"
  PROVE  GoesOnInv'
  BY DEF GoesOnInv, LoopOK, StartOK, LoopPcs, StartPcs

\* The parts of the state.
LEMMA Typed ==
  ASSUME TypeOK
  PROVE  /\ s \in Driver /\ s.chip \in Chip /\ main \in MainThread
         /\ s.chip.irq \subseteq Bits /\ s.chip.mask \subseteq Bits /\ s.chip.sem \in BOOLEAN
         /\ s.chip.wire \in Seq(Event) /\ s.chip.n \in Nat
         /\ main.todo \in Seq(Commands) /\ main.status \subseteq Bits /\ main.cnt \in Nat
         /\ main.poll \subseteq {"user", "irq"} /\ wq \in {"idle", "asleep"}
  BY DEF TypeOK, Driver, Chip, MainThread

\* What a command waits for.
LEMMA AwaitsIs ==
  ASSUME NEW cmd
  PROVE  Awaits(cmd) \subseteq Bits /\ Awaits(cmd) # {}
<1>1. Awaits(cmd) = {"OSC"} \/ Awaits(cmd) = {"CAT", "CAC"} \/ Awaits(cmd) = {"DCT"}
  BY DEF Awaits
<1> QED
  BY <1>1 DEF Bits

\* A command is given.
LEMMA CommandStarts ==
  ASSUME NEW c \in Chip, NEW cmd, NEW a \in Answer(cmd), c.mask = Bits, c.irq = {}, ~c.sem
  PROVE  LET e == command_start(c, cmd, a)
         IN  /\ e \in Chip /\ e.irq = {} /\ e.mask = Bits \ Awaits(cmd) /\ ~e.sem
             /\ e.frame = c.frame /\ e.n = c.n
             /\ Wire(e) \subseteq Awaits(cmd) /\ Len(e.wire) <= 1
<1> DEFINE w == IF a = {} THEN << >> ELSE <<[bits |-> a, n |-> 0]>>
           m == [c EXCEPT !.mask = Bits \ Awaits(cmd)]
           e == [m EXCEPT !.wire = w]
<1>1. command_start(c, cmd, a) = e
  <2>1. (c.mask \ Awaits(cmd)) \cup {} = Bits \ Awaits(cmd)
    OBVIOUS
  <2>2. irq_pin_cb(c, m) = m
    <3>1. m.irq = {} /\ m.sem = c.sem /\ c.sem \in BOOLEAN
      BY DEF Chip
    <3> QED
      BY <3>1 DEF irq_pin_cb, Pin, Chip
  <2>3. st25r3911b_irq_enable(c, Awaits(cmd)) = m
    BY <2>1, <2>2 DEF st25r3911b_irq_enable, st25r3911b_irq_modify
  <2> QED
    BY <2>3 DEF command_start
<1>2. w \in Seq(Event) /\ Due(w) \subseteq Awaits(cmd) /\ Len(w) <= 1
  <2>1. CASE a = {}
    BY <2>1, DueEmpty
  <2>2. CASE a # {}
    <3>1. PICK b \in Awaits(cmd) : a = {b}
      BY <2>2 DEF Answer
    <3>2. b \in Bits
      BY AwaitsIs
    <3> DEFINE v == [bits |-> {b}, n |-> 0]
    <3>3. v \in Event /\ v.bits = {b}
      BY <3>2, EventIs
    <3>4. w = <<v>>
      BY <2>2, <3>1
    <3> HIDE DEF v, w
    <3> QED
      BY <3>3, <3>4, DueOne
  <2> QED
    BY <2>1, <2>2
<1> HIDE DEF w
<1>3. Bits \ Awaits(cmd) \subseteq Bits
  OBVIOUS
<1>4. e \in Chip
  BY <1>2, <1>3 DEF Chip
<1>5. /\ e.irq = {} /\ e.mask = Bits \ Awaits(cmd) /\ ~e.sem
      /\ e.frame = c.frame /\ e.n = c.n /\ e.wire = w
  BY <1>2, <1>3 DEF Chip
<1> HIDE DEF e
<1> QED
  BY <1>1, <1>2, <1>4, <1>5 DEF Wire

\* It has been answered or not: everything is masked again.
LEMMA CommandEnds ==
  ASSUME NEW c \in Chip, NEW cmd, c.mask = Bits \ Awaits(cmd)
  PROVE  LET e == command_end(c, cmd)
         IN  /\ e \in Chip /\ e.irq = {} /\ e.mask = Bits /\ ~e.sem
             /\ e.frame = c.frame /\ e.wire = c.wire /\ e.n = c.n
<1> DEFINE g == [[c EXCEPT !.sem = FALSE] EXCEPT !.irq = {}]
           e == [g EXCEPT !.mask = Bits]
<1>1. g \in Chip /\ g.irq = {} /\ g.mask = c.mask /\ ~g.sem /\ g.sem \in BOOLEAN
  BY DEF Chip
<1>2. command_end(c, cmd) = e
  <2>1. (g.mask \ {}) \cup Awaits(cmd) = Bits
    BY <1>1, AwaitsIs
  <2>2. command_end(c, cmd) = irq_pin_cb(g, [g EXCEPT !.mask = (@ \ {}) \cup Awaits(cmd)])
    BY DEF command_end, st25r3911b_irq_disable, st25r3911b_irq_modify, st25r39_irq_clear
  <2>3. command_end(c, cmd) = irq_pin_cb(g, e)
    BY <2>1, <2>2
  <2> HIDE DEF g
  <2>4. irq_pin_cb(g, e) = e
    BY <1>1 DEF irq_pin_cb, Pin, Chip
  <2> QED
    BY <2>3, <2>4
<1>3. Bits \subseteq Bits
  OBVIOUS
<1>4. /\ e \in Chip /\ e.irq = {} /\ e.mask = Bits /\ ~e.sem
      /\ e.frame = c.frame /\ e.wire = c.wire /\ e.n = c.n
  BY <1>3 DEF Chip
<1> HIDE DEF e
<1> QED
  BY <1>2, <1>4

\* The initial state.
LEMMA InitGoes ==
  ASSUME Init
  PROVE  GoesOnInv
<1>1. PICK t \in [tx : TxLens, rx : RxLens] :
         s = [state |-> "IDLE", txrx |-> "TX_START", lvl |-> 0, idx |-> 0, tx |-> t.tx,
              rx |-> t.rx, written |-> 0,
              received |-> 0, user_sem |-> FALSE, timer |-> FALSE,
              work |-> FALSE, slept |-> FALSE, err |-> "none", chip |-> ChipInit,
              tag |-> 0, broken |-> FALSE, misnamed |-> FALSE, crossed |-> FALSE,
              collided |-> FALSE, stale |-> FALSE, lost |-> FALSE]
  BY DEF Init
<1>2. ChipInit \in Chip
  <2>1. NoFrame \in Frame /\ NoAnswer \in Answered /\ << >> \in Seq(Event)
    BY DEF NoFrame, NoAnswer, Frame, Answered
  <2>2. {} \subseteq Bits /\ Bits \subseteq Bits
    OBVIOUS
  <2> QED
    BY <2>1, <2>2 DEF ChipInit, Chip
<1>3. t.tx \in Nat /\ t.rx \in Nat
  BY ReaderAssumption
<1>4. s \in Driver
  BY <1>1, <1>2, <1>3 DEF Driver, States, TxRx, Errors
<1>5. StartUp \in Seq(Commands) /\ \A i \in DOMAIN StartUp : StartUp[i] # "field_on"
  BY DEF StartUp, Commands
<1>6. StartUp # << >>
  BY DEF StartUp
<1>7. main = [pc |-> "start", todo |-> StartUp, poll |-> {}, status |-> {}, cnt |-> 0]
  BY DEF Init
<1>8. main \in MainThread
  BY <1>5, <1>7 DEF MainThread, StartPcs
<1>9. TypeOK /\ ~s.slept
  BY <1>1, <1>4, <1>8 DEF TypeOK, Init
<1>10. LoopOK
  BY <1>7 DEF LoopOK, LoopPcs
<1>11. /\ s.chip.frame.kind = "none" /\ s.chip.mask = Bits /\ s.chip.irq = {} /\ ~s.chip.sem
       /\ s.chip.wire = << >> /\ s.state = "IDLE" /\ s.idx = 0
  BY <1>1 DEF ChipInit, NoFrame
<1>12. StartOK
  BY <1>5, <1>6, <1>7, <1>11 DEF StartOK
<1> QED
  BY <1>9, <1>10, <1>12 DEF GoesOnInv

\* A command is given.
LEMMA StartCommandGoes ==
  ASSUME GoesOnInv, StartCommand
  PROVE  GoesOnInv'
<1> DEFINE cmd == Head(main.todo)
<1>1. PICK a \in Answer(cmd) : s' = [s EXCEPT !.chip = command_start(@, cmd, a)]
  BY DEF StartCommand
<1>2. main' = [main EXCEPT !.pc = "await"] /\ wq' = wq /\ main.pc = "start"
  BY DEF StartCommand, Goto
<1>3. s \in Driver /\ s.chip \in Chip /\ main \in MainThread /\ wq \in {"idle", "asleep"}
  BY Typed DEF GoesOnInv
<1>4. /\ main.todo # << >> /\ s.chip.frame.kind = "none" /\ main.status = {}
      /\ s.state \in {"IDLE", "FIELD_ON"} /\ s.idx = 0 /\ "irq" \notin main.poll
      /\ \/ main.todo = <<"field_on">>
         \/ \A i \in DOMAIN main.todo : main.todo[i] # "field_on"
      /\ s.chip.mask = Bits /\ s.chip.irq = {} /\ ~s.chip.sem
  BY <1>2 DEF GoesOnInv, StartOK, StartPcs
<1> DEFINE c == command_start(s.chip, cmd, a)
<1>5. /\ c \in Chip /\ c.irq = {} /\ c.mask = Bits \ Awaits(cmd) /\ ~c.sem
      /\ c.frame = s.chip.frame /\ Wire(c) \subseteq Awaits(cmd) /\ Len(c.wire) <= 1
  BY <1>3, <1>4, CommandStarts
<1> HIDE DEF c
<1>6. s' \in Driver /\ s'.chip = c /\ s'.state = s.state /\ s'.idx = s.idx /\ s'.slept = s.slept
  BY <1>1, <1>3, <1>5 DEF Driver, c
<1>7. /\ main' \in MainThread /\ main'.pc = "await" /\ main'.todo = main.todo
      /\ main'.status = main.status /\ main'.poll = main.poll
  BY <1>2, <1>3 DEF MainThread, StartPcs
<1>8. TypeOK' /\ ~s'.slept
  BY <1>2, <1>3, <1>6, <1>7 DEF TypeOK, GoesOnInv
<1>9. LoopOK'
  BY <1>7 DEF LoopOK, LoopPcs
<1>10. StartOK'
  BY <1>4, <1>5, <1>6, <1>7 DEF StartOK
<1> QED
  BY <1>8, <1>9, <1>10 DEF GoesOnInv

\* A command has been answered.
LEMMA CommandAnsweredGoes ==
  ASSUME GoesOnInv, CommandAnswered
  PROVE  GoesOnInv'
<1> DEFINE cmd == Head(main.todo)
           ok == Succeeds(cmd, IrqStatus(s.chip))
           c == command_end(s.chip, cmd)
           ended == [s EXCEPT !.chip = c, !.state = "IDLE"]
           on == [ended EXCEPT !.chip = rx_tx_enable(@)]
           off == [ended EXCEPT !.chip = st25r3911b_rx_tx_disable(@)]
<1>1. /\ main.pc = "await" /\ s.chip.sem /\ wq' = wq
      /\ s' = IF ~ok THEN Fails(ended, "EACCES")
              ELSE IF cmd = "field_on" THEN nfc_field_on(on)
              ELSE IF Len(main.todo) = 1 THEN st25r3911b_nfca_field_on(off)
              ELSE ended
      /\ main' = [main EXCEPT !.todo = Tail(@),
                              !.pc = IF ~ok THEN "ended"
                                     ELSE IF Len(main.todo) > 1 THEN "start"
                                     ELSE IF cmd = "field_on" THEN AfterUser ELSE "wait"]
  BY DEF CommandAnswered
<1>2. s \in Driver /\ s.chip \in Chip /\ main \in MainThread /\ wq \in {"idle", "asleep"}
      /\ main.todo \in Seq(Commands) /\ s.chip.wire \in Seq(Event)
  BY Typed DEF GoesOnInv
<1>3. /\ main.todo # << >> /\ s.chip.frame.kind = "none" /\ main.status = {}
      /\ s.idx = 0 /\ "irq" \notin main.poll
      /\ \/ main.todo = <<"field_on">>
         \/ \A i \in DOMAIN main.todo : main.todo[i] # "field_on"
      /\ s.chip.mask = Bits \ Awaits(cmd) /\ s.chip.wire = << >> /\ ~s.slept
  BY <1>1 DEF GoesOnInv, StartOK, StartPcs
<1>4. /\ c \in Chip /\ c.irq = {} /\ c.mask = Bits /\ ~c.sem
      /\ c.frame = s.chip.frame /\ c.wire = s.chip.wire
  BY <1>2, <1>3, CommandEnds
<1>5. /\ Tail(main.todo) \in Seq(Commands) /\ Len(main.todo) \in Nat /\ Len(main.todo) >= 1
      /\ Len(Tail(main.todo)) = Len(main.todo) - 1
      /\ \A i \in DOMAIN Tail(main.todo) : i + 1 \in DOMAIN main.todo
                                           /\ Tail(main.todo)[i] = main.todo[i + 1]
      /\ cmd = main.todo[1] /\ 1 \in DOMAIN main.todo
  BY <1>2, <1>3
<1>17. /\ Len(main.todo) = 1 \/ Len(main.todo) > 1
       /\ Len(main.todo) > 1 => Len(main.todo) # 1 /\ Tail(main.todo) # << >>
  <2>1. ASSUME NEW q \in Seq(Commands), q # << >>
        PROVE  /\ Len(q) = 1 \/ Len(q) > 1
               /\ Len(q) > 1 => Len(q) # 1 /\ Tail(q) # << >>
    <3>1. Len(q) \in Nat /\ Len(q) # 0
      BY <2>1
    <3>2. Len(q) = 1 \/ Len(q) > 1
      BY <3>1
    <3>3. Len(q) > 1 => Len(q) # 1
      <4>1. ~(1 > 1)
        OBVIOUS
      <4> QED
        BY <4>1
    <3>4. Tail(q) \in Seq(Commands) /\ Len(Tail(q)) = Len(q) - 1
      BY <2>1
    <3>5. Len(q) > 1 => Len(Tail(q)) # 0
      BY <3>1, <3>4
    <3>6. Len(q) > 1 => Tail(q) # << >>
      BY <3>5
    <3> QED
      BY <3>2, <3>3, <3>6
  <2> QED
    BY <1>2, <1>3, <2>1
<1>6. AfterUser = "wait"
  BY <1>3 DEF AfterUser
<1> DEFINE pc == IF ~ok THEN "ended" ELSE IF Len(main.todo) > 1 THEN "start" ELSE "wait"
<1>7. main' = [main EXCEPT !.todo = Tail(main.todo), !.pc = pc]
  BY <1>1, <1>6
<1>8. pc \in StartPcs \cup LoopPcs \cup {"ended"}
  BY DEF StartPcs, LoopPcs
<1> HIDE DEF pc
<1>9. /\ main' \in MainThread /\ main'.pc = pc /\ main'.todo = Tail(main.todo)
      /\ main'.status = main.status /\ main'.poll = main.poll
  BY <1>2, <1>5, <1>7, <1>8 DEF MainThread
<1> HIDE DEF ok, c
<1>10. /\ ended \in Driver /\ ended.chip = c /\ ended.state = "IDLE" /\ ended.idx = s.idx
       /\ ended.slept = s.slept
  BY <1>2, <1>4 DEF Driver, States
<1> HIDE DEF ended
<1>11. ASSUME NEW v \in BOOLEAN
       PROVE  LET x == [ended EXCEPT !.chip = [c EXCEPT !.field = v]]
              IN  /\ x \in Driver /\ x.state = "IDLE" /\ x.idx = s.idx /\ x.slept = s.slept
                  /\ x.chip.irq = {} /\ x.chip.mask = Bits /\ ~x.chip.sem
                  /\ x.chip.frame = s.chip.frame /\ x.chip.wire = s.chip.wire
  <2> DEFINE k == [c EXCEPT !.field = v]
             x == [ended EXCEPT !.chip = k]
  <2>1. /\ k \in Chip /\ k.irq = {} /\ k.mask = Bits /\ ~k.sem
        /\ k.frame = c.frame /\ k.wire = c.wire
    BY <1>4 DEF Chip
  <2> HIDE DEF k
  <2>2. x \in Driver /\ x.chip = k /\ x.state = ended.state /\ x.idx = ended.idx /\ x.slept = ended.slept
    BY <1>10, <2>1 DEF Driver
  <2> HIDE DEF x
  <2>3. /\ x \in Driver /\ x.state = "IDLE" /\ x.idx = s.idx /\ x.slept = s.slept
        /\ x.chip.irq = {} /\ x.chip.mask = Bits /\ ~x.chip.sem
        /\ x.chip.frame = s.chip.frame /\ x.chip.wire = s.chip.wire
    BY <1>4, <1>10, <2>1, <2>2
  <2> QED
    BY <2>3 DEF x, k
<1>12. ASSUME NEW x \in Driver, x.state = "IDLE", x.idx = s.idx, x.slept = s.slept,
              x.chip.irq = {}, x.chip.mask = Bits, ~x.chip.sem,
              x.chip.frame = s.chip.frame, x.chip.wire = s.chip.wire,
              NEW state \in {"FIELD_ON", "TAG_DETECTION"}, Asked(x, s', state), pc = "wait"
       PROVE  GoesOnInv'
  <2>1. /\ s' \in Driver /\ s'.chip = x.chip /\ s'.state = state /\ s'.user_sem
        /\ s'.idx = 0 /\ ~s'.slept
    BY <1>3, <1>12 DEF Asked, KeptAll, Kept
  <2>2. Wire(s'.chip) = {} /\ Unread(s'.chip) = {} /\ ~Pin(s'.chip)
    BY <1>3, <1>12, <2>1, DueEmpty DEF Wire, Unread, Pin
  <2>3. s'.chip.frame.kind = "none" /\ s'.chip.wire = << >> /\ s'.chip.irq = {} /\ ~s'.chip.sem
        /\ s'.chip.mask = Bits
    BY <1>3, <1>12, <2>1
  <2>4. ChipOK(s'.chip)
    <3>1. Enabled(s'.chip.frame) = {}
      BY <2>3, EnabledFor
    <3> QED
      BY <2>2, <2>3, <3>1 DEF ChipOK
  <2>5. Matches(s') /\ Alive(s', main'.status)
    BY <2>1, <2>3 DEF Matches, Alive
  <2>6. LoopOK'
    BY <1>3, <1>9, <1>12, <2>1, <2>2, <2>3, <2>4, <2>5 DEF LoopOK
  <2>7. StartOK'
    BY <1>9, <1>12 DEF StartOK, StartPcs
  <2>8. TypeOK'
    BY <1>1, <1>2, <1>9, <2>1 DEF TypeOK
  <2> QED
    BY <2>1, <2>6, <2>7, <2>8 DEF GoesOnInv
<1>13. CASE ~ok
  <2>1. s' = Fails(ended, "EACCES") /\ "EACCES" \in Errors
    BY <1>1, <1>13 DEF Errors
  <2>2. s' \in Driver /\ s'.slept = ended.slept
    BY <1>10, <2>1, FailsIs DEF Kept
  <2>3. main'.pc = "ended"
    BY <1>9, <1>13 DEF pc
  <2>4. TypeOK'
    BY <1>1, <1>2, <1>9, <2>2 DEF TypeOK
  <2> QED
    BY <1>3, <1>10, <2>2, <2>3, <2>4, EndedGoes
<1>14. CASE ok /\ cmd = "field_on"
  <2>1. main.todo = <<"field_on">>
    BY <1>3, <1>5, <1>14
  <2>2. pc = "wait"
    BY <1>14, <2>1 DEF pc
  <2> DEFINE x == [ended EXCEPT !.chip = [c EXCEPT !.field = TRUE]]
  <2>3. s' = st25r3911b_nfca_tag_detect(x)
    <3>1. on = x
      BY <1>10 DEF rx_tx_enable
    <3> QED
      BY <1>1, <1>14, <3>1 DEF nfc_field_on
  <2>4. /\ x \in Driver /\ x.state = "IDLE" /\ x.idx = s.idx /\ x.slept = s.slept
        /\ x.chip.irq = {} /\ x.chip.mask = Bits /\ ~x.chip.sem
        /\ x.chip.frame = s.chip.frame /\ x.chip.wire = s.chip.wire
    BY <1>11
  <2> HIDE DEF x
  <2>5. Asked(x, s', "TAG_DETECTION")
    BY <2>3, <2>4, Requests
  <2> QED
    BY <1>12, <2>2, <2>4, <2>5
<1>15. CASE ok /\ cmd # "field_on" /\ Len(main.todo) = 1
  <2>1. pc = "wait"
    BY <1>15 DEF pc
  <2> DEFINE x == [ended EXCEPT !.chip = [c EXCEPT !.field = FALSE]]
  <2>2. s' = st25r3911b_nfca_field_on(x)
    <3>1. off = x
      BY <1>10 DEF st25r3911b_rx_tx_disable
    <3> QED
      BY <1>1, <1>15, <3>1
  <2>3. /\ x \in Driver /\ x.state = "IDLE" /\ x.idx = s.idx /\ x.slept = s.slept
        /\ x.chip.irq = {} /\ x.chip.mask = Bits /\ ~x.chip.sem
        /\ x.chip.frame = s.chip.frame /\ x.chip.wire = s.chip.wire
    BY <1>11
  <2> HIDE DEF x
  <2>4. Asked(x, s', "FIELD_ON")
    BY <2>2, <2>3, Requests
  <2> QED
    BY <1>12, <2>1, <2>3, <2>4
<1>16. CASE ok /\ cmd # "field_on" /\ Len(main.todo) > 1
  <2>1. s' = ended /\ pc = "start"
    BY <1>1, <1>16, <1>17 DEF pc
  <2>2. \A i \in DOMAIN main.todo : main.todo[i] # "field_on"
    BY <1>3, <1>5, <1>16
  <2>3. Tail(main.todo) # << >> /\ \A i \in DOMAIN Tail(main.todo) : Tail(main.todo)[i] # "field_on"
    BY <1>5, <1>16, <1>17, <2>2
  <2>4. StartOK'
    BY <1>3, <1>4, <1>9, <1>10, <2>1, <2>3 DEF StartOK
  <2>5. LoopOK'
    BY <1>9, <2>1 DEF LoopOK, LoopPcs
  <2>6. TypeOK' /\ ~s'.slept
    BY <1>1, <1>2, <1>3, <1>9, <1>10, <2>1 DEF TypeOK
  <2> QED
    BY <2>4, <2>5, <2>6 DEF GoesOnInv
<1> QED
  BY <1>13, <1>14, <1>15, <1>16, <1>17

\* A command is not answered.
LEMMA CommandTimesOutGoes ==
  ASSUME GoesOnInv, CommandTimesOut
  PROVE  GoesOnInv'
<1> DEFINE cmd == Head(main.todo)
           c == command_end(s.chip, cmd)
           ended == [s EXCEPT !.chip = c, !.state = "IDLE"]
<1>1. /\ main.pc = "await" /\ wq' = wq /\ s' = Fails(ended, "ENXIO")
      /\ main' = [main EXCEPT !.pc = "ended"]
  BY DEF CommandTimesOut, Goto
<1>2. s \in Driver /\ s.chip \in Chip /\ main \in MainThread /\ wq \in {"idle", "asleep"}
  BY Typed DEF GoesOnInv
<1>3. s.chip.mask = Bits \ Awaits(cmd) /\ ~s.slept
  BY <1>1 DEF GoesOnInv, StartOK, StartPcs
<1>4. c \in Chip
  BY <1>2, <1>3, CommandEnds
<1> HIDE DEF c
<1>5. ended \in Driver /\ ended.slept = s.slept
  BY <1>2, <1>4 DEF Driver, States
<1> HIDE DEF ended
<1>6. s' \in Driver /\ s'.slept = ended.slept
  BY <1>1, <1>5, FailsIs DEF Kept, Errors
<1>7. main' \in MainThread /\ main'.pc = "ended"
  BY <1>1, <1>2 DEF MainThread
<1> QED
  BY <1>1, <1>2, <1>3, <1>5, <1>6, <1>7, EndedGoes DEF TypeOK

\* main() polls.
LEMMA PollGoes ==
  ASSUME GoesOnInv, Poll
  PROVE  GoesOnInv'
<1> DEFINE there == (IF s.user_sem THEN {"user"} ELSE {}) \cup (IF s.chip.sem THEN {"irq"} ELSE {})
<1>1. /\ main.pc = "wait" /\ there # {} /\ s' = s /\ wq' = wq
      /\ \E p \in {there} \cup {{e} : e \in there} :
           main' = [main EXCEPT !.poll = p, !.pc = IF "user" \in p THEN "user" ELSE "take"]
  BY DEF Poll
<1>2. PICK p \in {there} \cup {{e} : e \in there} :
        main' = [main EXCEPT !.poll = p, !.pc = IF "user" \in p THEN "user" ELSE "take"]
  BY <1>1
<1>3. p \subseteq there /\ p # {}
  BY <1>1, <1>2
<1>4. /\ p \subseteq {"user", "irq"} /\ ("user" \in p => s.user_sem) /\ ("irq" \in p => s.chip.sem)
      /\ ("user" \notin p => "irq" \in p)
  BY <1>3
<1> HIDE DEF there
<1>5. /\ main' \in MainThread /\ main'.poll = p /\ main'.status = main.status
      /\ main'.pc = IF "user" \in p THEN "user" ELSE "take"
  BY <1>2, <1>4, Typed DEF MainThread, LoopPcs, GoesOnInv
<1>6. /\ ChipOK(s.chip) /\ Matches(s) /\ Alive(s, main.status) /\ (Pin(s.chip) => s.chip.sem)
      /\ (s.state = "IDLE" => s.work \/ wq = "asleep") /\ main.status = {} /\ ~s.slept
      /\ (s.chip.frame.kind = "none" => s.idx = 0)
  BY <1>1 DEF GoesOnInv, LoopOK, LoopPcs
<1>7. s.chip.frame.kind = "none" => "irq" \notin p
  BY <1>4, <1>6 DEF ChipOK
<1>8. TypeOK'
  BY <1>1, <1>5, Typed DEF TypeOK, GoesOnInv
<1>9. LoopOK'
  BY <1>1, <1>4, <1>5, <1>6, <1>7 DEF LoopOK
<1>10. StartOK'
  BY <1>5 DEF StartOK, StartPcs
<1> QED
  BY <1>1, <1>6, <1>8, <1>9, <1>10 DEF GoesOnInv

\* The request of the application is served.
LEMMA ProcessUserGoes ==
  ASSUME GoesOnInv, ProcessUser
  PROVE  GoesOnInv'
<1> DEFINE d == [s EXCEPT !.user_sem = FALSE]
           done == user_state_process(d)
<1>1. main.pc = "user" /\ wq' = wq
  BY DEF ProcessUser
<1>2. IF d.state = "FIELD_ON"
      THEN s' = d /\ main' = [main EXCEPT !.pc = "start", !.todo = <<"field_on">>]
      ELSE s' = done /\ main' = [main EXCEPT !.pc = IF done.err = "none" THEN AfterUser ELSE "ended"]
  BY DEF ProcessUser, Goto
<1>3. s \in Driver /\ main \in MainThread /\ wq \in {"idle", "asleep"}
  BY Typed DEF GoesOnInv
<1>4. /\ d \in Driver /\ d.chip = s.chip /\ d.state = s.state /\ ~d.user_sem /\ d.work = s.work
      /\ d.slept = s.slept /\ d.idx = s.idx /\ d.timer = s.timer /\ d.lost = s.lost /\ d.tx = s.tx
      /\ d.txrx = s.txrx
  BY <1>3 DEF Driver
<1>5. /\ ChipOK(s.chip) /\ Matches(s) /\ Alive(s, main.status) /\ (Pin(s.chip) => s.chip.sem)
      /\ (s.state = "IDLE" => s.work \/ wq = "asleep") /\ main.status = {} /\ ~s.slept
      /\ s.user_sem
      /\ (s.chip.frame.kind = "none" => "irq" \notin main.poll /\ s.idx = 0)
  BY <1>1 DEF GoesOnInv, LoopOK, LoopPcs
<1> HIDE DEF d
<1>6. CASE d.state = "FIELD_ON"
  <2>1. s' = d /\ main' = [main EXCEPT !.pc = "start", !.todo = <<"field_on">>]
    BY <1>2, <1>6
  <2>2. <<"field_on">> \in Seq(Commands) /\ <<"field_on">> # << >>
    BY DEF Commands
  <2>3. /\ main' \in MainThread /\ main'.pc = "start" /\ main'.todo = <<"field_on">>
        /\ main'.status = main.status /\ main'.poll = main.poll
    BY <1>3, <2>1, <2>2 DEF MainThread, StartPcs
  <2>4. s.chip.frame.kind = "none"
    BY <1>4, <1>5, <1>6 DEF Alive
  <2>5. s.chip.mask = Bits /\ s.chip.irq = {} /\ ~s.chip.sem /\ s.chip.wire = << >>
    BY <1>5, <2>4, EnabledFor DEF ChipOK
  <2>6. StartOK'
    BY <1>4, <1>5, <1>6, <2>1, <2>2, <2>3, <2>4, <2>5 DEF StartOK
  <2>7. LoopOK'
    BY <2>3 DEF LoopOK, LoopPcs
  <2>8. TypeOK'
    BY <1>1, <1>3, <1>4, <2>1, <2>3 DEF TypeOK
  <2> QED
    BY <1>4, <1>5, <2>1, <2>6, <2>7, <2>8 DEF GoesOnInv
<1>7. CASE d.state # "FIELD_ON"
  <2>1. s' = done /\ main' = [main EXCEPT !.pc = IF done.err = "none" THEN AfterUser ELSE "ended"]
    BY <1>2, <1>7
  <2>2. AfterUser \in {"take", "wait"} /\ ("irq" \notin main.poll => AfterUser = "wait")
    BY DEF AfterUser
  <2>3. /\ main' \in MainThread /\ main'.pc \in {"take", "wait", "ended"}
        /\ main'.status = main.status /\ main'.poll = main.poll
        /\ ("irq" \notin main.poll => main'.pc # "take")
        /\ (done.err # "none" => main'.pc = "ended")
    BY <1>3, <2>1, <2>2 DEF MainThread, LoopPcs, StartPcs
  <2>4. StartOK'
    BY <2>3 DEF StartOK, StartPcs
  <2> HIDE DEF done
  <2>5. ASSUME NEW f, Sending(d, done, f), Left(d, done), f.kind # "none",
               d.state = "TAG_DETECTION" => f.kind = "detect",
               d.state = "ANTICOLLISION" => f.kind \in {"sdd", "rest", "sel"},
               d.state = "TRANSFER" => f.kind = "data",
               d.state = "SLEEP" => f.kind = "slp",
               d.state # "IDLE"
        PROVE  GoesOnInv'
    <3>1. /\ s' \in Driver /\ s'.chip.frame = f /\ ChipOK(s'.chip) /\ (Pin(s'.chip) => s'.chip.sem)
          /\ "TXE" \in Wire(s'.chip)
      BY <2>1, <2>5 DEF Sending
    <3>2. s'.state = s.state /\ ~s'.user_sem /\ s'.work = s.work /\ ~s'.slept
      BY <1>4, <1>5, <2>1, <2>5 DEF Left
    <3>3. Matches(s')
      BY <1>4, <2>5, <3>1, <3>2 DEF Matches
    <3>4. Alive(s', main'.status)
      BY <1>4, <1>5, <1>7, <3>1, <3>2 DEF Alive, Coming
    <3>5. LoopOK'
      BY <1>4, <1>5, <2>3, <2>5, <3>1, <3>2, <3>3, <3>4 DEF LoopOK
    <3>6. TypeOK'
      BY <1>1, <1>3, <2>3, <3>1 DEF TypeOK
    <3> QED
      BY <2>4, <3>2, <3>5, <3>6 DEF GoesOnInv
  <2>6. CASE d.state = "TAG_DETECTION"
    <3> DEFINE f == [kind |-> "detect", len |-> 0]
    <3>1. done = tag_detect(d)
      BY <2>6 DEF user_state_process, done
    <3>2. Sending(d, done, f) /\ Left(d, done) /\ f.kind = "detect"
      BY <1>4, <3>1, DetectionFrame
    <3> HIDE DEF f
    <3> QED
      BY <2>5, <2>6, <3>2
  <2>7. CASE d.state = "ANTICOLLISION"
    <3> DEFINE f == [kind |-> "sdd", len |-> 7, lvl |-> 1]
    <3>1. done = anticollision_resolution(d, 1)
      BY <2>7 DEF user_state_process, done
    <3>2. Sending(d, done, f) /\ Left(d, done) /\ f.kind = "sdd"
      BY <1>4, <3>1, NextLevel DEF ANTICOLLISION_CASCADE_3
    <3> HIDE DEF f
    <3> QED
      BY <2>5, <2>7, <3>2
  <2>8. CASE d.state = "TRANSFER"
    <3>1. done = transfer(d, d.tx, TRUE)
      BY <2>8 DEF user_state_process, done
    <3>2. d.tx \in Nat
      BY <1>4 DEF Driver
    <3>3. CASE tx_len_ok(d.tx)
      <4> DEFINE f == [kind |-> IF TRUE THEN "data" ELSE "slp", len |-> d.tx]
      <4>1. Sending(d, done, f) /\ Left(d, done) /\ f.kind = "data"
        BY <1>4, <3>1, <3>2, <3>3, TransferFrame
      <4> HIDE DEF f
      <4> QED
        BY <2>5, <2>8, <4>1
    <3>4. CASE ~tx_len_ok(d.tx)
      <4>1. done \in Driver /\ done.err # "none" /\ done.slept = d.slept
        BY <1>4, <3>1, <3>2, <3>4, TransferTyped
      <4>2. TypeOK' /\ main'.pc = "ended" /\ ~s'.slept
        BY <1>1, <1>3, <1>4, <1>5, <2>1, <2>3, <4>1 DEF TypeOK
      <4> QED
        BY <4>2, EndedGoes
    <3> QED
      BY <3>3, <3>4
  <2>9. CASE d.state = "SLEEP"
    <3> DEFINE f == [kind |-> IF FALSE THEN "data" ELSE "slp", len |-> 2]
    <3>1. done = transfer(d, 2, FALSE)
      BY <2>9 DEF user_state_process, tag_sleep, done
    <3>2. tx_len_ok(2)
      BY DEF tx_len_ok, ST25R3911B_MAX_TX_LEN
    <3>3. Sending(d, done, f) /\ Left(d, done) /\ f.kind = "slp"
      BY <1>4, <3>1, <3>2, TransferFrame
    <3> HIDE DEF f
    <3> QED
      BY <2>5, <2>9, <3>3
  <2>10. CASE d.state = "IDLE"
    <3>1. done = d
      BY <2>10 DEF user_state_process, done
    <3>2. Matches(s') /\ Alive(s', main'.status)
      BY <2>1, <2>10, <3>1 DEF Matches, Alive, Active
    <3>5. /\ ChipOK(s'.chip) /\ (Pin(s'.chip) => s'.chip.sem) /\ s'.state = "IDLE"
          /\ (s'.work \/ wq' = "asleep") /\ s'.chip.frame = s.chip.frame /\ s'.idx = s.idx
      BY <1>1, <1>4, <1>5, <2>1, <2>10, <3>1
    <3>3. LoopOK'
      BY <1>5, <2>3, <3>2, <3>5 DEF LoopOK, LoopPcs
    <3>4. TypeOK'
      BY <1>1, <1>3, <1>4, <2>1, <2>3, <3>1 DEF TypeOK
    <3> QED
      BY <1>4, <1>5, <2>1, <2>4, <3>1, <3>3, <3>4 DEF GoesOnInv
  <2> QED
    BY <1>4, <1>7, <2>6, <2>7, <2>8, <2>9, <2>10 DEF Driver, States
<1> QED
  BY <1>6, <1>7

\* The semaphore is taken.
LEMMA ProcessIrqGoes ==
  ASSUME GoesOnInv, ProcessIrq
  PROVE  GoesOnInv'
<1>1. /\ main.pc = "take" /\ s' = [s EXCEPT !.chip.sem = FALSE] /\ wq' = wq
      /\ main' = [main EXCEPT !.pc = "read"]
  BY DEF ProcessIrq
<1>2. s \in Driver /\ s.chip \in Chip /\ main \in MainThread /\ wq \in {"idle", "asleep"}
  BY Typed DEF GoesOnInv
<1> DEFINE c == [s.chip EXCEPT !.sem = FALSE]
<1>3. /\ c \in Chip /\ c.irq = s.chip.irq /\ c.mask = s.chip.mask /\ c.wire = s.chip.wire
      /\ c.frame = s.chip.frame /\ ~c.sem
  BY <1>2 DEF Chip
<1>4. s' = [s EXCEPT !.chip = c]
  BY <1>1, <1>2 DEF Driver
<1> HIDE DEF c
<1>5. /\ s' \in Driver /\ s'.chip = c /\ s'.state = s.state /\ s'.txrx = s.txrx
      /\ s'.user_sem = s.user_sem /\ s'.timer = s.timer /\ s'.work = s.work /\ s'.lost = s.lost
      /\ s'.slept = s.slept
  BY <1>2, <1>3, <1>4 DEF Driver
<1>6. /\ main' \in MainThread /\ main'.pc = "read" /\ main'.status = main.status
  BY <1>1, <1>2 DEF MainThread, LoopPcs
<1>7. /\ ChipOK(s.chip) /\ Matches(s) /\ Alive(s, main.status)
      /\ (s.state = "IDLE" => s.work \/ wq = "asleep") /\ main.status = {} /\ ~s.slept
      /\ s.chip.frame.kind # "none"
  BY <1>1 DEF GoesOnInv, LoopOK, LoopPcs
<1>8. Wire(s'.chip) = Wire(s.chip) /\ Unread(s'.chip) = Unread(s.chip) /\ Coming(s'.chip) = Coming(s.chip)
  BY <1>3, <1>5 DEF Wire, Unread, Coming
<1>9. ChipOK(s'.chip)
  BY <1>3, <1>5, <1>7, <1>8 DEF ChipOK
<1>10. Matches(s') /\ Alive(s', main'.status)
  BY <1>3, <1>5, <1>6, <1>7, <1>8 DEF Matches, Alive, Noticed
<1>11. LoopOK'
  BY <1>1, <1>3, <1>5, <1>6, <1>7, <1>9, <1>10 DEF LoopOK
<1>12. StartOK'
  BY <1>6 DEF StartOK, StartPcs
<1> QED
  BY <1>1, <1>2, <1>5, <1>6, <1>7, <1>11, <1>12 DEF GoesOnInv, TypeOK

\* The status is read; an end of transmission that an earlier pass read is lost.
LEMMA IrqReadGoes ==
  ASSUME GoesOnInv, st25r3911b_irq_read
  PROVE  GoesOnInv'
<1> DEFINE c == [s.chip EXCEPT !.irq = {}]
           x == s.lost \/ "TXE" \in main.status
<1>1. /\ main.pc = "read" /\ s' = [s EXCEPT !.chip = c, !.lost = x] /\ wq' = wq
      /\ main' = [main EXCEPT !.status = Unread(s.chip), !.cnt = @ + 1, !.pc = "pin"]
  BY DEF st25r3911b_irq_read, st25r39_irq_clear, IrqStatus, Unread
<1>2. /\ s \in Driver /\ s.chip \in Chip /\ main \in MainThread /\ wq \in {"idle", "asleep"}
      /\ s.chip.irq \subseteq Bits /\ main.cnt \in Nat
  BY Typed DEF GoesOnInv
<1>3. /\ c \in Chip /\ c.irq = {} /\ c.mask = s.chip.mask /\ c.wire = s.chip.wire
      /\ c.frame = s.chip.frame
  BY <1>2 DEF Chip
<1>4. x \in BOOLEAN
  BY <1>2 DEF Driver
<1> HIDE DEF c, x
<1>5. /\ s' \in Driver /\ s'.chip = c /\ s'.state = s.state /\ s'.txrx = s.txrx
      /\ s'.user_sem = s.user_sem /\ s'.timer = s.timer /\ s'.work = s.work /\ (s'.lost <=> x)
      /\ s'.slept = s.slept
  BY <1>1, <1>2, <1>3, <1>4 DEF Driver
<1>6. main' \in MainThread /\ main'.pc = "pin" /\ main'.status = Unread(s.chip)
  <2>1. Unread(s.chip) \subseteq Bits /\ main.cnt + 1 \in Nat
    BY <1>2 DEF Unread
  <2> QED
    BY <1>1, <1>2, <2>1 DEF MainThread, LoopPcs
<1>7. /\ ChipOK(s.chip) /\ Matches(s) /\ Alive(s, main.status)
      /\ (s.state = "IDLE" => s.work \/ wq = "asleep") /\ ~s.slept
      /\ s.chip.frame.kind # "none" /\ (main.status # {} => Unread(s.chip) # {})
  BY <1>1 DEF GoesOnInv, LoopOK, LoopPcs, Pin, Unread
<1>8. Wire(s'.chip) = Wire(s.chip) /\ Unread(s'.chip) = {} /\ Coming(s'.chip) = Wire(s.chip)
      /\ ~Pin(s'.chip)
  BY <1>3, <1>5 DEF Wire, Unread, Coming, Pin
<1>9. ChipOK(s'.chip)
  BY <1>3, <1>5, <1>7, <1>8 DEF ChipOK
<1>10. Matches(s')
  BY <1>3, <1>5, <1>7 DEF Matches
<1>11. ASSUME s.state \in Active, ~s.user_sem, Noticed(s, main.status), ~x, "TXE" \notin Wire(s.chip)
       PROVE  Noticed(s', Unread(s.chip))
  <2>1. "TXE" \notin main.status
    BY <1>11 DEF x
  <2>2. "TXE" \in Unread(s.chip) \/ s.txrx \in {"TX_COMPLETE", "RX_COMPLETE"}
    BY <1>11, <2>1 DEF Noticed
  <2>3. Coming(s'.chip) \cup Unread(s.chip) = Coming(s.chip)
    BY <1>8 DEF Coming
  <2>4. Ends \cap Coming(s.chip) # {}
    <3>1. CASE Unread(s.chip) = {}
      <4>1. main.status = {}
        BY <1>7, <3>1
      <4> QED
        BY <1>11, <4>1 DEF Noticed
    <3>2. CASE "TXE" \in Unread(s.chip)
      <4>1. s.chip.frame.kind # "slp"
        BY <1>7, <1>11 DEF Matches, Active
      <4>2. {"NRE", "RXS"} \cap Coming(s.chip) # {}
        BY <1>7, <1>11, <3>2, <4>1 DEF ChipOK
      <4> QED
        BY <4>2 DEF Ends
    <3>3. CASE Unread(s.chip) # {} /\ "TXE" \notin Unread(s.chip)
      <4>1. Unread(s.chip) \subseteq Enabled(s.chip.frame)
        BY <1>2, <1>7 DEF Unread, ChipOK
      <4>2. Enabled(s.chip.frame) \subseteq {"TXE"} \cup Ends
        <5>1. s.chip.frame.kind \in {"none", "detect", "slp", "data", "sdd", "rest", "sel"}
          <6>1. s.chip.frame \in Frame
            BY <1>2 DEF Chip
          <6> QED
            BY <6>1 DEF Frame
        <5> QED
          BY <5>1, EnabledFor DEF Ends
      <4> QED
        BY <3>3, <4>1, <4>2 DEF Coming
    <3> QED
      BY <3>1, <3>2, <3>3
  <2> QED
    BY <1>5, <2>2, <2>3, <2>4 DEF Noticed
<1>12. Coming(s'.chip) \cup main'.status = Coming(s.chip)
  BY <1>6, <1>8 DEF Coming
<1>13. Alive(s', main'.status)
  <2>1. s'.state \in Active => \/ s'.user_sem \/ s'.timer \/ s'.lost \/ "TXE" \in Wire(s'.chip)
                               \/ Noticed(s', main'.status)
    <3>1. s.state \in Active => \/ s.user_sem \/ s.timer \/ s.lost \/ "TXE" \in Wire(s.chip)
                                \/ Noticed(s, main.status)
      BY <1>7 DEF Alive
    <3>2. s.lost => x
      BY DEF x
    <3> QED
      BY <1>5, <1>6, <1>8, <1>11, <3>1, <3>2
  <2>2. s'.state = "SLEEP" /\ ~s'.user_sem => s'.lost \/ "TXE" \in Coming(s'.chip) \cup main'.status
    BY <1>5, <1>7, <1>12 DEF Alive, x
  <2>3. /\ s'.state = "SLEEP" /\ (s'.user_sem \/ "TXE" \in Coming(s'.chip) \cup main'.status) => s'.work
        /\ s'.state = "FIELD_ON" => s'.user_sem /\ s'.chip.frame.kind = "none"
    BY <1>3, <1>5, <1>7, <1>12 DEF Alive
  <2> QED
    BY <2>1, <2>2, <2>3 DEF Alive
<1>14. LoopOK'
  BY <1>1, <1>3, <1>5, <1>6, <1>7, <1>8, <1>9, <1>10, <1>13 DEF LoopOK
<1>15. StartOK'
  BY <1>6 DEF StartOK, StartPcs
<1> QED
  BY <1>1, <1>2, <1>5, <1>6, <1>7, <1>14, <1>15 DEF GoesOnInv, TypeOK

\* The pin is read.
LEMMA PinReadGoes ==
  ASSUME GoesOnInv, PinRead
  PROVE  GoesOnInv'
<1> DEFINE pc == IF Pin(s.chip) /\ main.cnt < IRQ_REG_READ_MAX_CNT THEN "read" ELSE "process"
<1>1. main.pc = "pin" /\ s' = s /\ wq' = wq /\ main' = [main EXCEPT !.pc = pc]
  BY DEF PinRead, Goto
<1>2. pc \in {"read", "process"} /\ (pc = "read" => Pin(s.chip))
  OBVIOUS
<1> HIDE DEF pc
<1>3. /\ main' \in MainThread /\ main'.pc = pc /\ main'.status = main.status
  BY <1>1, <1>2, Typed DEF MainThread, LoopPcs, GoesOnInv
<1>4. /\ ChipOK(s.chip) /\ Matches(s) /\ Alive(s, main.status) /\ (Pin(s.chip) => s.chip.sem)
      /\ (s.state = "IDLE" => s.work \/ wq = "asleep") /\ ~s.slept
      /\ s.chip.frame.kind # "none"
  BY <1>1 DEF GoesOnInv, LoopOK, LoopPcs
<1>5. LoopOK'
  BY <1>1, <1>2, <1>3, <1>4 DEF LoopOK
<1>6. StartOK'
  BY <1>2, <1>3 DEF StartOK, StartPcs
<1>7. TypeOK'
  BY <1>1, <1>3, Typed DEF TypeOK, GoesOnInv
<1> QED
  BY <1>1, <1>4, <1>5, <1>6, <1>7 DEF GoesOnInv

\* The interrupts are processed.
LEMMA IrqProcessGoes ==
  ASSUME GoesOnInv, IrqProcess
  PROVE  GoesOnInv'
<1> DEFINE d == irq_process(s, main.status)
           pc == IF d.slept THEN "asleep" ELSE IF d.err # "none" THEN "ended" ELSE "wait"
<1>1. /\ main.pc = "process" /\ s' = [d EXCEPT !.slept = FALSE] /\ wq' = wq
      /\ main' = [main EXCEPT !.pc = pc, !.poll = {}, !.status = {}, !.cnt = 0]
  BY DEF IrqProcess
<1>2. /\ s \in Driver /\ main \in MainThread /\ wq \in {"idle", "asleep"} /\ main.status \subseteq Bits
  BY Typed DEF GoesOnInv
<1>3. Going(s, main.status, wq)
  BY <1>1, <1>2 DEF GoesOnInv, LoopOK, LoopPcs, Going, Sound
<1>4. /\ Sound(d) /\ (d.slept => d.state = "IDLE")
      /\ ~d.slept /\ d.err = "none" =>
           Alive(d, {}) /\ (d.state = "IDLE" => d.work \/ wq = "asleep")
  BY <1>2, <1>3, IrqGoes
<1>5. pc \in {"asleep", "ended", "wait"} /\ (pc = "asleep" <=> d.slept)
      /\ (pc = "wait" => ~d.slept /\ d.err = "none")
  OBVIOUS
<1> HIDE DEF d, pc
<1>6. /\ s' \in Driver /\ s'.chip = d.chip /\ s'.state = d.state /\ s'.txrx = d.txrx
      /\ s'.user_sem = d.user_sem /\ s'.timer = d.timer /\ s'.work = d.work /\ s'.lost = d.lost
      /\ ~s'.slept
  BY <1>1, <1>4 DEF Driver, Sound
<1>7. /\ main' \in MainThread /\ main'.pc = pc /\ main'.status = {} /\ main'.poll = {}
  BY <1>1, <1>2, <1>5 DEF MainThread, LoopPcs
<1>8. TypeOK'
  BY <1>1, <1>2, <1>6, <1>7 DEF TypeOK
<1>9. CASE pc = "ended"
  BY <1>6, <1>7, <1>8, <1>9, EndedGoes
<1>10. CASE pc # "ended"
  <2>1. SameExchange(d.chip, s'.chip)
    BY <1>6 DEF SameExchange
  <2>2. Sound(s')
    BY <1>4, <1>6, <2>1, SoundKept
  <2>3. Alive(s', {})
    <3>1. CASE pc = "wait"
      BY <1>4, <1>5, <1>6, <2>1, <3>1, AliveKept
    <3>2. CASE pc = "asleep"
      BY <1>4, <1>5, <1>6, <3>2 DEF Alive, Active
    <3> QED
      BY <1>5, <1>10, <3>1, <3>2
  <2>4. LoopOK'
    BY <1>1, <1>4, <1>5, <1>6, <1>7, <1>10, <2>2, <2>3 DEF LoopOK, Sound
  <2>5. StartOK'
    BY <1>5, <1>7 DEF StartOK, StartPcs
  <2> QED
    BY <1>6, <1>8, <2>4, <2>5 DEF GoesOnInv
<1> QED
  BY <1>9, <1>10

\* The bus fails.
LEMMA BusFailsGoes ==
  ASSUME GoesOnInv, BusFails
  PROVE  GoesOnInv'
<1> DEFINE v == IF s.state \in {"FIELD_ON", "FIELD_OFF"} THEN "IDLE" ELSE s.state
           d == [s EXCEPT !.state = v]
<1>1. s' = Fails(d, "EIO") /\ main' = [main EXCEPT !.pc = "ended"] /\ wq' = wq
  BY DEF BusFails, Goto
<1>2. s \in Driver /\ main \in MainThread /\ wq \in {"idle", "asleep"}
  BY Typed DEF GoesOnInv
<1>3. v \in States
  BY <1>2 DEF Driver, States
<1> HIDE DEF v
<1>4. d \in Driver /\ d.slept = s.slept
  BY <1>2, <1>3 DEF Driver
<1> HIDE DEF d
<1>5. s' \in Driver /\ s'.slept = d.slept
  BY <1>1, <1>4, FailsIs DEF Kept, Errors
<1>6. main' \in MainThread /\ main'.pc = "ended"
  BY <1>1, <1>2 DEF MainThread
<1> QED
  BY <1>1, <1>2, <1>4, <1>5, <1>6, EndedGoes DEF TypeOK, GoesOnInv

\* An interrupt of the chip: what was to come is raised, and behind the end of
\* the transmission there is the answer.
LEMMA RaiseIs ==
  ASSUME NEW c \in Chip, c.wire # << >>, NEW o, o.ev \in Seq(Event), o.ans \in Answered
  PROVE  LET e == [Raise(c) EXCEPT !.wire = o.ev, !.ans = o.ans]
         IN  /\ e \in Chip /\ e.irq = c.irq \cup (Head(c.wire).bits \ c.mask) /\ e.mask = c.mask
             /\ e.wire = o.ev /\ e.ans = o.ans /\ e.frame = c.frame /\ e.n = c.n + Head(c.wire).n
             /\ (e.sem <=> c.sem \/ (~Pin(c) /\ Pin(e)))
<1> DEFINE h == Head(c.wire)
           i == c.irq \cup (h.bits \ c.mask)
           n == c.n + h.n
           t == Tail(c.wire)
           r == [c EXCEPT !.irq = i, !.n = n, !.wire = t]
           b == c.sem \/ (~Pin(c) /\ Pin(r))
           e == [[r EXCEPT !.sem = b] EXCEPT !.wire = o.ev, !.ans = o.ans]
<1>1. c.wire \in Seq(Event) /\ c.irq \subseteq Bits /\ c.n \in Nat /\ c.sem \in BOOLEAN
  BY DEF Chip
<1>2. h \in Event /\ t \in Seq(Event) /\ h.bits \subseteq Bits /\ h.n \in Nat
  <2>1. h \in Event /\ t \in Seq(Event) /\ h.n \in Nat /\ \E y \in Bits : h.bits = {y}
    BY <1>1, DueTail
  <2>2. h.bits \subseteq Bits
    BY <2>1
  <2> QED
    BY <2>1, <2>2
<1>3. i \subseteq Bits /\ n \in Nat
  BY <1>1, <1>2
<1>4. Raise(c) = [r EXCEPT !.sem = b]
  <2>1. Raise(c) = irq_pin_cb(c, r)
    BY DEF Raise
  <2> HIDE DEF i, n, t
  <2>2. r.sem = c.sem
    BY DEF Chip
  <2> HIDE DEF r
  <2> QED
    BY <2>1, <2>2 DEF irq_pin_cb
<1> HIDE DEF i, n, t
<1>5. r \in Chip /\ r.irq = i /\ r.mask = c.mask /\ r.frame = c.frame /\ r.n = n /\ r.sem = c.sem
  BY <1>2, <1>3 DEF Chip
<1>6. b \in BOOLEAN
  BY <1>1
<1> HIDE DEF r, b
<1>7. e \in Chip
  BY <1>5, <1>6 DEF Chip
<1>8. /\ e.irq = i /\ e.mask = c.mask /\ e.wire = o.ev /\ e.ans = o.ans /\ e.frame = c.frame
      /\ e.n = n /\ (e.sem <=> b)
  BY <1>5, <1>6 DEF Chip
<1> HIDE DEF e
<1>9. Pin(e) = Pin(r)
  BY <1>5, <1>8 DEF Pin
<1>10. /\ e \in Chip /\ e.irq = c.irq \cup (Head(c.wire).bits \ c.mask) /\ e.mask = c.mask
       /\ e.wire = o.ev /\ e.ans = o.ans /\ e.frame = c.frame /\ e.n = c.n + Head(c.wire).n
       /\ (e.sem <=> c.sem \/ (~Pin(c) /\ Pin(e)))
  BY <1>7, <1>8, <1>9 DEF i, n, b
<1> QED
  BY <1>4, <1>10 DEF e

\* What the step of the chip does to the state.
Raised1(k, o) ==
  LET h == Head(s.chip.wire) IN
  /\ s' \in Driver /\ s'.chip.irq = s.chip.irq \cup (h.bits \ s.chip.mask)
  /\ s'.chip.mask = s.chip.mask /\ s'.chip.wire = o.ev /\ s'.chip.ans = o.ans
  /\ s'.chip.frame = s.chip.frame /\ s'.chip.n = s.chip.n + h.n
  /\ (s'.chip.sem <=> s.chip.sem \/ (~Pin(s.chip) /\ Pin(s'.chip)))
  /\ s'.tag = k /\ (s'.collided <=> s.collided \/ "COL" \in h.bits)
  /\ s'.state = s.state /\ s'.txrx = s.txrx /\ s'.lvl = s.lvl /\ s'.idx = s.idx /\ s'.tx = s.tx
  /\ s'.user_sem = s.user_sem /\ s'.timer = s.timer /\ s'.work = s.work /\ s'.slept = s.slept
  /\ s'.err = s.err /\ s'.broken = s.broken /\ s'.misnamed = s.misnamed /\ s'.crossed = s.crossed
  /\ s'.stale = s.stale /\ s'.lost = s.lost

LEMMA InterruptIs ==
  ASSUME TypeOK, ChipInterrupt
  PROVE  /\ main' = main /\ wq' = wq /\ s.chip.wire # << >> /\ s.chip.wire \in Seq(Event)
         /\ \E k \in 0..3 : \E o :
              /\ Raised1(k, o) /\ o.ev \in Seq(Event)
              /\ \/ /\ "TXE" \in Head(s.chip.wire).bits
                    /\ s.chip.frame.kind # "none" => Hears(s.chip.frame, k, o)
                    /\ (s.chip.frame.kind # "detect" => k = s.tag)
                 \/ "TXE" \notin Head(s.chip.wire).bits /\ k = s.tag
                    /\ o.ev = Tail(s.chip.wire) /\ o.ans = s.chip.ans
<1> DEFINE h == Head(s.chip.wire)
           sent == "TXE" \in h.bits
           f == s.chip.frame
<1>1. /\ s.chip.wire # << >> /\ main' = main /\ wq' = wq
      /\ \E k \in IF sent /\ f.kind = "detect" THEN Levels \cup {0} ELSE {s.tag} :
         \E o \in IF sent THEN Outcomes(f, k) ELSE {Heard(Tail(s.chip.wire), s.chip.ans)} :
           s' = [s EXCEPT !.chip = [Raise(@) EXCEPT !.wire = o.ev, !.ans = o.ans], !.tag = k,
                          !.collided = @ \/ "COL" \in h.bits]
  BY DEF ChipInterrupt
<1>2. PICK k \in IF sent /\ f.kind = "detect" THEN Levels \cup {0} ELSE {s.tag} :
         \E o \in IF sent THEN Outcomes(f, k) ELSE {Heard(Tail(s.chip.wire), s.chip.ans)} :
           s' = [s EXCEPT !.chip = [Raise(@) EXCEPT !.wire = o.ev, !.ans = o.ans], !.tag = k,
                          !.collided = @ \/ "COL" \in h.bits]
  BY <1>1
<1>3. PICK o \in IF sent THEN Outcomes(f, k) ELSE {Heard(Tail(s.chip.wire), s.chip.ans)} :
           s' = [s EXCEPT !.chip = [Raise(@) EXCEPT !.wire = o.ev, !.ans = o.ans], !.tag = k,
                          !.collided = @ \/ "COL" \in h.bits]
  BY <1>2
<1>4. /\ s \in Driver /\ s.chip \in Chip /\ s.tag \in 0..3 /\ s.chip.ans \in Answered
      /\ s.chip.wire \in Seq(Event) /\ f \in Frame /\ s.collided \in BOOLEAN
  BY DEF TypeOK, Driver, Chip
<1>5. k \in 0..3 /\ (~(sent /\ f.kind = "detect") => k = s.tag)
  <2>1. CASE sent /\ f.kind = "detect"
    BY <2>1, <1>2, ReaderAssumption
  <2>2. CASE ~(sent /\ f.kind = "detect")
    BY <2>2, <1>2, <1>4
  <2> QED
    BY <2>1, <2>2
<1>6. /\ o.ev \in Seq(Event) /\ o.ans \in Answered
      /\ (sent /\ f.kind # "none" => Hears(f, k, o))
      /\ (~sent => o.ev = Tail(s.chip.wire) /\ o.ans = s.chip.ans)
  <2>1. CASE sent /\ f.kind # "none"
    <3>1. f.kind \in {"detect", "sdd", "rest", "sel", "data", "slp"}
      BY <1>4, <2>1 DEF Frame
    <3>2. o \in Outcomes(f, k)
      BY <1>3, <2>1
    <3>3. Hears(f, k, o)
      BY <1>5, <3>1, <3>2, HearsOutcome
    <3> QED
      BY <2>1, <3>3 DEF Hears, Orderly
  <2>3. CASE sent /\ f.kind = "none"
    <3>1. o \in Outcomes(f, k)
      BY <1>3, <2>3
    <3>2. o = Heard(<< >>, NoAnswer)
      BY <2>3, <3>1 DEF Outcomes
    <3>3. o.ev = << >> /\ o.ans = NoAnswer /\ NoAnswer \in Answered
      BY <3>2 DEF Heard, NoAnswer, Answered
    <3> QED
      BY <2>3, <3>3
  <2>2. CASE ~sent
    <3>1. o = Heard(Tail(s.chip.wire), s.chip.ans)
      BY <1>3, <2>2
    <3>2. o.ev = Tail(s.chip.wire) /\ o.ans = s.chip.ans
      BY <3>1 DEF Heard
    <3>3. Tail(s.chip.wire) \in Seq(Event)
      BY <1>1, <1>4
    <3> QED
      BY <1>4, <2>2, <3>2, <3>3
  <2> QED
    BY <2>1, <2>2, <2>3
<1> DEFINE e == [Raise(s.chip) EXCEPT !.wire = o.ev, !.ans = o.ans]
           x == s.collided \/ "COL" \in h.bits
<1>7. s' = [s EXCEPT !.chip = e, !.tag = k, !.collided = x]
  BY <1>3, SMTT(30)
<1>8. /\ e \in Chip /\ e.irq = s.chip.irq \cup (h.bits \ s.chip.mask) /\ e.mask = s.chip.mask
      /\ e.wire = o.ev /\ e.ans = o.ans /\ e.frame = s.chip.frame /\ e.n = s.chip.n + h.n
      /\ (e.sem <=> s.chip.sem \/ (~Pin(s.chip) /\ Pin(e)))
  BY <1>1, <1>4, <1>6, RaiseIs
<1>9. x \in BOOLEAN
  BY <1>4
<1> HIDE DEF e, x
<1>10. s' \in Driver
  BY <1>4, <1>5, <1>7, <1>8, <1>9 DEF Driver
<1>11. /\ s'.chip = e /\ s'.tag = k /\ (s'.collided <=> x)
       /\ s'.state = s.state /\ s'.txrx = s.txrx /\ s'.lvl = s.lvl /\ s'.idx = s.idx /\ s'.tx = s.tx
       /\ s'.user_sem = s.user_sem /\ s'.timer = s.timer /\ s'.work = s.work /\ s'.slept = s.slept
       /\ s'.err = s.err /\ s'.broken = s.broken /\ s'.misnamed = s.misnamed /\ s'.crossed = s.crossed
       /\ s'.stale = s.stale /\ s'.lost = s.lost
  BY <1>4, <1>5, <1>7, <1>8, <1>9 DEF Driver
<1>12. Raised1(k, o)
  BY <1>8, <1>10, <1>11 DEF Raised1, x
<1>13. \/ sent /\ (f.kind # "none" => Hears(f, k, o)) /\ (f.kind # "detect" => k = s.tag)
       \/ ~sent /\ k = s.tag /\ o.ev = Tail(s.chip.wire) /\ o.ans = s.chip.ans
  BY <1>5, <1>6
<1> QED
  BY <1>1, <1>4, <1>5, <1>6, <1>12, <1>13

\* What is to come and what is not read, after an interrupt of a frame.
LEMMA ComingAfter ==
  ASSUME TypeOK, ChipOK(s.chip), s.chip.wire # << >>, NEW k, NEW o, Raised1(k, o),
         \/ "TXE" \in Head(s.chip.wire).bits /\ Hears(s.chip.frame, k, o)
         \/ "TXE" \notin Head(s.chip.wire).bits /\ o.ev = Tail(s.chip.wire)
  PROVE  /\ Unread(s'.chip) = Unread(s.chip) \cup Head(s.chip.wire).bits
         /\ Wire(s.chip) = Head(s.chip.wire).bits \cup Due(Tail(s.chip.wire))
         /\ s.chip.frame.kind # "none" /\ Head(s.chip.wire).bits \subseteq Enabled(s.chip.frame)
         /\ "TXE" \in Head(s.chip.wire).bits =>
              /\ Tail(s.chip.wire) = << >> /\ Head(s.chip.wire).bits = {"TXE"}
              /\ Wire(s.chip) = {"TXE"}
              /\ "TXE" \notin Wire(s'.chip)
         /\ "TXE" \notin Head(s.chip.wire).bits => Coming(s'.chip) = Coming(s.chip)
         /\ "TXE" \in Wire(s.chip) => "TXE" \in Wire(s'.chip) \cup Unread(s'.chip)
         /\ "TXE" \in Coming(s'.chip) <=> "TXE" \in Coming(s.chip)
         /\ ChipOK(s'.chip)
<1> DEFINE h == Head(s.chip.wire)
           w == s.chip.wire
           f == s.chip.frame
<1>1. s.chip \in Chip /\ w \in Seq(Event) /\ s.chip.irq \subseteq Bits
  BY DEF TypeOK, Driver, Chip
<1>2. /\ h = w[1] /\ 1 \in DOMAIN w /\ Len(w) \in Nat /\ Tail(w) \in Seq(Event)
      /\ Len(Tail(w)) = Len(w) - 1 /\ Due(w) = h.bits \cup Due(Tail(w))
      /\ \A i \in DOMAIN Tail(w) : i + 1 \in DOMAIN w /\ Tail(w)[i] = w[i + 1] /\ i \in Nat \ {0}
      /\ \E b \in Bits : h.bits = {b}
  BY <1>1, DueTail
<1>3. f.kind # "none"
  BY DEF ChipOK
<1>4. h.bits \subseteq Enabled(f) /\ h.bits \subseteq Bits
  BY <1>2 DEF ChipOK, Wire
<1>5. s.chip.mask = Bits \ Enabled(f)
  BY DEF ChipOK
<1>6. h.bits \ s.chip.mask = h.bits
  BY <1>4, <1>5
<1>7. Unread(s'.chip) = Unread(s.chip) \cup h.bits
  BY <1>6 DEF Raised1, Unread
<1>8. Wire(s.chip) = h.bits \cup Due(Tail(w)) /\ Wire(s'.chip) = Due(o.ev)
  BY <1>2 DEF Wire, Raised1
<1>9. ASSUME "TXE" \in h.bits
      PROVE  /\ Tail(w) = << >> /\ h.bits = {"TXE"} /\ Wire(s.chip) = {"TXE"}
             /\ "TXE" \notin Wire(s'.chip)
  <2>1. h.bits = {"TXE"}
    BY <1>2, <1>9
  <2>2. Len(w) = 1
    BY <1>2, <2>1 DEF ChipOK
  <2>3. Tail(w) = << >>
    BY <1>2, <2>2
  <2>4. "TXE" \notin Due(o.ev)
    BY <1>9 DEF Hears, Orderly
  <2> QED
    BY <1>8, <2>1, <2>3, <2>4, DueEmpty
<1>10. ASSUME "TXE" \notin h.bits PROVE Coming(s'.chip) = Coming(s.chip)
  BY <1>7, <1>8, <1>10 DEF Coming
<1>11. "TXE" \in Wire(s.chip) => "TXE" \in Wire(s'.chip) \cup Unread(s'.chip)
  BY <1>7, <1>8
<1>12. "TXE" \in Coming(s'.chip) <=> "TXE" \in Coming(s.chip)
  <2>1. CASE "TXE" \in h.bits
    BY <1>7, <1>8, <2>1 DEF Coming
  <2>2. CASE "TXE" \notin h.bits
    BY <1>10, <2>2
  <2> QED
    BY <2>1, <2>2
<1>13. s'.chip.frame = f /\ s'.chip.mask = s.chip.mask /\ s'.chip.wire = o.ev
  BY DEF Raised1
<1>14. ChipOK(s'.chip)
  <2>1. CASE "TXE" \in h.bits
    <3>1. /\ Due(o.ev) \subseteq Enabled(f) /\ "TXE" \notin Due(o.ev) /\ o.ev \in Seq(Event)
          /\ (f.kind # "slp" => {"NRE", "RXS"} \cap Due(o.ev) # {})
      BY <2>1 DEF Hears, Orderly
    <3>2. \A i \in DOMAIN o.ev : o.ev[i].bits # {"TXE"}
      BY <3>1, DueIs
    <3>3. {"NRE", "RXS"} \cap Due(o.ev) # {} => {"NRE", "RXS"} \cap Coming(s'.chip) # {}
      BY <1>8 DEF Coming
    <3> QED
      BY <1>3, <1>5, <1>8, <1>13, <3>1, <3>2, <3>3 DEF ChipOK
  <2>2. CASE "TXE" \notin h.bits
    <3>1. o.ev = Tail(w)
      BY <2>2
    <3>2. Wire(s'.chip) \subseteq Enabled(f) /\ ("TXE" \in Wire(s'.chip) <=> "TXE" \in Wire(s.chip))
      BY <1>8, <2>2, <3>1 DEF ChipOK
    <3>3. "TXE" \in Unread(s'.chip) <=> "TXE" \in Unread(s.chip)
      BY <1>7, <2>2
    <3>4. \A i \in DOMAIN o.ev : o.ev[i].bits = {"TXE"} => i = Len(o.ev)
      <4>1. SUFFICES ASSUME NEW i \in DOMAIN Tail(w), Tail(w)[i].bits = {"TXE"}
                     PROVE  i = Len(Tail(w))
        BY <3>1
      <4>2. i + 1 = Len(w) /\ i \in Nat
        BY <1>2, <4>1 DEF ChipOK
      <4> QED
        BY <1>2, <4>2
    <3>5. /\ "TXE" \in Unread(s'.chip) /\ "TXE" \notin Wire(s'.chip) /\ f.kind # "slp"
            => {"NRE", "RXS"} \cap Coming(s'.chip) # {}
      BY <1>10, <2>2, <3>2, <3>3 DEF ChipOK
    <3> QED
      BY <1>3, <1>5, <1>13, <3>2, <3>4, <3>5 DEF ChipOK
  <2> QED
    BY <2>1, <2>2
<1> QED
  BY <1>3, <1>4, <1>7, <1>8, <1>9, <1>10, <1>11, <1>12, <1>14

\* An interrupt is raised.
LEMMA ChipInterruptGoes ==
  ASSUME GoesOnInv, ChipInterrupt
  PROVE  GoesOnInv'
<1> DEFINE h == Head(s.chip.wire)
           w == s.chip.wire
<1>1. TypeOK /\ ~s.slept
  BY SMTT(30) DEF GoesOnInv
<1>2. /\ main' = main /\ wq' = wq /\ w # << >> /\ w \in Seq(Event)
      /\ \E k \in 0..3 : \E o :
           /\ Raised1(k, o) /\ o.ev \in Seq(Event)
           /\ \/ /\ "TXE" \in h.bits
                 /\ s.chip.frame.kind # "none" => Hears(s.chip.frame, k, o)
                 /\ (s.chip.frame.kind # "detect" => k = s.tag)
              \/ "TXE" \notin h.bits /\ k = s.tag
                 /\ o.ev = Tail(w) /\ o.ans = s.chip.ans
  BY <1>1, InterruptIs
<1>3. PICK k \in 0..3 : \E o :
           /\ Raised1(k, o) /\ o.ev \in Seq(Event)
           /\ \/ /\ "TXE" \in h.bits
                 /\ s.chip.frame.kind # "none" => Hears(s.chip.frame, k, o)
              \/ "TXE" \notin h.bits /\ o.ev = Tail(w)
  BY <1>2
<1>4. PICK o :
           /\ Raised1(k, o) /\ o.ev \in Seq(Event)
           /\ \/ /\ "TXE" \in h.bits
                 /\ s.chip.frame.kind # "none" => Hears(s.chip.frame, k, o)
              \/ "TXE" \notin h.bits /\ o.ev = Tail(w)
  BY <1>3
<1>5. TypeOK' /\ ~s'.slept
  BY <1>1, <1>2, <1>4 DEF TypeOK, Raised1
<1>6. CASE main.pc = "ended"
  BY <1>2, <1>5, <1>6, EndedGoes
<1>7. CASE main.pc \in StartPcs
  <2>1. /\ main.pc = "await" /\ s.chip.frame.kind = "none"
        /\ s.chip.mask = Bits \ Awaits(Head(main.todo))
        /\ Wire(s.chip) \subseteq Awaits(Head(main.todo)) /\ Len(w) <= 1
    BY <1>2, <1>7 DEF GoesOnInv, StartOK, StartPcs
  <2>2. "TXE" \notin Awaits(Head(main.todo))
    BY DEF Awaits
  <2>3. /\ Due(w) = h.bits \cup Due(Tail(w)) /\ Tail(w) \in Seq(Event)
        /\ Len(Tail(w)) = Len(w) - 1 /\ Len(w) \in Nat /\ w # << >>
    BY <1>2, DueTail
  <2>4. Tail(w) = << >>
    BY <2>1, <2>3
  <2>5. o.ev = << >>
    BY <1>4, <2>1, <2>2, <2>3, <2>4 DEF Wire
  <2>6. Wire(s'.chip) = {} /\ Len(s'.chip.wire) <= 1 /\ s'.chip.wire = << >>
    BY <1>4, <2>5, DueEmpty DEF Raised1, Wire
  <2>7. StartOK'
    BY <1>2, <1>4, <1>7, <2>1, <2>6 DEF GoesOnInv, StartOK, Raised1
  <2>8. LoopOK'
    BY <1>2, <2>1 DEF LoopOK, LoopPcs
  <2> QED
    BY <1>5, <2>7, <2>8 DEF GoesOnInv
<1>8. CASE main.pc \in LoopPcs
  <2>1. LoopOK
    BY DEF GoesOnInv
  <2>2. ChipOK(s.chip)
    BY <1>8, <2>1 DEF LoopOK
  <2>3. s.chip.frame.kind # "none"
    BY <1>2, <2>2 DEF ChipOK
  <2>4. /\ Unread(s'.chip) = Unread(s.chip) \cup h.bits
        /\ Wire(s.chip) = h.bits \cup Due(Tail(w))
        /\ ("TXE" \in h.bits => "TXE" \notin Wire(s'.chip))
        /\ ("TXE" \notin h.bits => Coming(s'.chip) = Coming(s.chip))
        /\ ("TXE" \in Wire(s.chip) => "TXE" \in Wire(s'.chip) \cup Unread(s'.chip))
        /\ ("TXE" \in Coming(s'.chip) <=> "TXE" \in Coming(s.chip))
        /\ ChipOK(s'.chip)
    BY <1>1, <1>2, <1>4, <2>2, <2>3, ComingAfter
  <2>5. /\ s'.state = s.state /\ s'.txrx = s.txrx /\ s'.user_sem = s.user_sem /\ s'.timer = s.timer
        /\ s'.work = s.work /\ s'.lost = s.lost /\ s'.chip.frame = s.chip.frame
        /\ (s'.chip.sem <=> s.chip.sem \/ (~Pin(s.chip) /\ Pin(s'.chip)))
    BY <1>4 DEF Raised1
  <2>6. Matches(s')
    BY <1>8, <2>1, <2>5 DEF LoopOK, Matches
  <2>7. Alive(s, main.status) /\ Matches(s)
    BY <1>8, <2>1 DEF LoopOK
  <2>8. ASSUME s.state \in Active, ~s.user_sem,
               "TXE" \in Wire(s.chip) \/ Noticed(s, main.status), "TXE" \notin Wire(s'.chip)
        PROVE  Noticed(s', main.status)
    <3>1. s.chip.frame.kind # "slp"
      BY <2>7, <2>8 DEF Matches, Active
    <3>2. CASE "TXE" \in Unread(s'.chip)
      <4>1. {"NRE", "RXS"} \cap Coming(s'.chip) # {}
        BY <2>4, <2>5, <2>8, <3>1, <3>2 DEF ChipOK
      <4> QED
        BY <3>2, <4>1 DEF Noticed, Ends
    <3>3. CASE "TXE" \notin Unread(s'.chip)
      <4>1. "TXE" \notin h.bits /\ "TXE" \notin Unread(s.chip) /\ "TXE" \notin Wire(s.chip)
        BY <2>4, <2>8, <3>3
      <4>2. Coming(s'.chip) = Coming(s.chip)
        BY <2>4, <4>1
      <4> QED
        BY <2>5, <2>8, <4>1, <4>2 DEF Noticed
    <3> QED
      BY <3>2, <3>3
  <2>9. Alive(s', main.status)
    <3>1. s'.state \in Active => \/ s'.user_sem \/ s'.timer \/ s'.lost \/ "TXE" \in Wire(s'.chip)
                                 \/ Noticed(s', main.status)
      BY <2>5, <2>7, <2>8 DEF Alive
    <3>2. "TXE" \in Coming(s'.chip) \cup main.status <=> "TXE" \in Coming(s.chip) \cup main.status
      BY <2>4
    <3> QED
      BY <2>5, <2>7, <3>1, <3>2 DEF Alive
  <2>10. Pin(s.chip) => Pin(s'.chip)
    BY <2>4 DEF Pin, Unread
  <2>11. LoopOK'
    BY <1>2, <1>8, <2>1, <2>3, <2>4, <2>5, <2>6, <2>9, <2>10 DEF LoopOK
  <2>12. StartOK'
    BY <1>2, <1>8 DEF StartOK, StartPcs, LoopPcs
  <2> QED
    BY <1>5, <2>11, <2>12 DEF GoesOnInv
<1> QED
  BY <1>1, <1>6, <1>7, <1>8 DEF TypeOK, MainThread

\* The timer after the start of a reception has run out.
LEMMA timeout_handlerGoes ==
  ASSUME GoesOnInv, timeout_handler
  PROVE  GoesOnInv'
<1> DEFINE x == [s EXCEPT !.timer = FALSE]
           d == timeout_process(x)
<1>1. main' = main /\ s' = [d EXCEPT !.slept = FALSE] /\ wq' = IF d.slept THEN "asleep" ELSE "idle"
  BY DEF timeout_handler
<1>2. s \in Driver /\ main \in MainThread
  BY Typed DEF GoesOnInv
<1>3. /\ x \in Driver /\ x.chip = s.chip /\ x.idx = s.idx /\ x.user_sem = s.user_sem
  BY <1>2 DEF Driver
<1> HIDE DEF x
<1>4. /\ d \in Driver /\ d.state = "IDLE" /\ d.slept /\ d.chip = s.chip /\ d.idx = s.idx
      /\ d.user_sem = s.user_sem
  BY <1>3, TimeoutIs
<1> HIDE DEF d
<1>5. /\ s' \in Driver /\ s'.state = "IDLE" /\ ~s'.slept /\ s'.chip = s.chip /\ s'.idx = s.idx
      /\ s'.user_sem = s.user_sem
  BY <1>1, <1>4 DEF Driver
<1>6. wq' = "asleep"
  BY <1>1, <1>4
<1>7. TypeOK'
  BY <1>1, <1>2, <1>5, <1>6 DEF TypeOK
<1>8. Matches(s') /\ Alive(s', main.status)
  BY <1>5 DEF Matches, Alive, Active
<1>9. LoopOK'
  BY <1>1, <1>5, <1>6, <1>8 DEF GoesOnInv, LoopOK
<1>10. StartOK'
  BY <1>1, <1>5 DEF GoesOnInv, StartOK
<1> QED
  BY <1>5, <1>7, <1>9, <1>10 DEF GoesOnInv

\* A detection is requested after one of the long delays.
LEMMA DetectionGoes ==
  ASSUME GoesOnInv, LongAfter, main.pc \in LoopPcs, NEW d \in Driver,
         d.state = s.state, d.chip = s.chip, KeptAll([s EXCEPT !.work = d.work], d),
         d.user_sem = s.user_sem, d.txrx = s.txrx,
         Asked(d, s', "TAG_DETECTION"), main' \in MainThread, main'.status = main.status,
         main'.poll = main.poll, wq' \in {"idle", "asleep"},
         main'.pc = main.pc \/ (main.pc = "asleep" /\ main'.pc = "wait")
  PROVE  GoesOnInv'
<1>1. s \in Driver /\ main \in MainThread /\ s.chip \in Chip /\ ~s.slept /\ LoopOK
  BY Typed DEF GoesOnInv
<1>2. /\ d.slept = s.slept /\ d.idx = s.idx /\ d.timer = s.timer /\ d.lost = s.lost
  BY <1>1 DEF KeptAll, Kept, Driver
<1>3. /\ s' \in Driver /\ s'.chip = s.chip /\ ~s'.slept /\ s'.idx = s.idx
      /\ s'.timer = s.timer /\ s'.lost = s.lost /\ s'.work = d.work
  BY <1>1, <1>2 DEF Asked, KeptAll, Kept
<1>4. /\ ChipOK(s.chip) /\ Matches(s) /\ Alive(s, main.status)
      /\ (main.pc # "read" => (Pin(s.chip) => s.chip.sem))
      /\ (main.pc \notin {"read", "pin", "process"} => main.status = {})
  BY <1>1 DEF LoopOK
<1>5. main.pc \in {"asleep", "wait"} /\ main.status = {} /\ s.chip.wire = << >>
  BY <1>4 DEF LongAfter, MainRests, LoopPcs
<1>6. s.state = "SLEEP" => ~s.user_sem /\ "TXE" \notin Coming(s.chip) \cup main.status
  <2>1. SUFFICES ASSUME s.state = "SLEEP" PROVE ~s.user_sem /\ "TXE" \notin Coming(s.chip)
    BY <1>5
  <2>2. main.pc = "wait" /\ ~s.user_sem /\ ~s.chip.sem
    BY <1>1, <1>5, <2>1 DEF LoopOK, LongAfter, MainRests
  <2>3. ~Pin(s.chip)
    BY <1>4, <2>2
  <2>4. Unread(s.chip) = {} /\ Wire(s.chip) = {}
    BY <1>5, <2>3, DueEmpty DEF Pin, Unread, Wire
  <2> QED
    BY <2>2, <2>4 DEF Coming
<1>7. s'.state # "IDLE" /\ (s.user_sem => s'.user_sem)
      /\ (s.state = "IDLE" => s'.state = "TAG_DETECTION" /\ s'.user_sem)
      /\ (s.state # "IDLE" => s'.state = s.state /\ s'.user_sem = s.user_sem /\ s'.txrx = s.txrx)
  BY DEF Asked
<1>8. Matches(s') /\ Alive(s', main.status)
  <2>1. CASE s.state = "IDLE"
    BY <1>7, <2>1 DEF Matches, Alive, Active
  <2>2. CASE s.state # "IDLE"
    BY <1>3, <1>4, <1>6, <1>7, <2>2 DEF Matches, Alive, Noticed
  <2> QED
    BY <2>1, <2>2
<1>9. main'.pc \in {"asleep", "wait"} /\ main'.pc \in LoopPcs
      /\ (main'.pc = "asleep" => main.pc = "asleep")
  BY <1>5 DEF LoopPcs
<1>10. main.pc = "asleep" => s.chip.frame.kind # "none"
  BY <1>1 DEF LoopOK
<1>11. s.chip.frame.kind = "none" => "irq" \notin main.poll /\ s.idx = 0
  BY <1>1 DEF LoopOK
<1>12. main.pc = "asleep" => s.state = "IDLE" \/ (s.state = "TAG_DETECTION" /\ s.user_sem)
  BY <1>1 DEF LoopOK
<1>13. LoopOK'
  BY <1>3, <1>4, <1>5, <1>7, <1>8, <1>9, <1>10, <1>11, <1>12 DEF LoopOK
<1>14. StartOK'
  BY <1>9 DEF StartOK, StartPcs
<1>15. TypeOK'
  BY <1>3 DEF TypeOK
<1> QED
  BY <1>3, <1>13, <1>14, <1>15 DEF GoesOnInv

\* nfc_timeout() has slept in main().
LEMMA WakeMainGoes ==
  ASSUME GoesOnInv, WakeMain
  PROVE  GoesOnInv'
<1> DEFINE pc == IF s.err # "none" THEN "ended" ELSE "wait"
<1>1. /\ main.pc = "asleep" /\ LongAfter /\ s' = st25r3911b_nfca_tag_detect(s) /\ wq' = wq
      /\ main' = [main EXCEPT !.pc = pc]
  BY DEF WakeMain, Goto
<1>2. s \in Driver /\ main \in MainThread /\ wq \in {"idle", "asleep"} /\ ~s.slept
  BY Typed DEF GoesOnInv
<1>3. Asked(s, s', "TAG_DETECTION")
  BY <1>1, <1>2, Requests
<1>4. pc \in {"ended", "wait"}
  OBVIOUS
<1> HIDE DEF pc
<1>5. /\ main' \in MainThread /\ main'.pc = pc /\ main'.status = main.status
      /\ main'.poll = main.poll
  BY <1>1, <1>2, <1>4 DEF MainThread, LoopPcs
<1>6. CASE pc = "ended"
  <2>1. TypeOK' /\ ~s'.slept
    BY <1>1, <1>2, <1>3, <1>5 DEF TypeOK, Asked, KeptAll, Kept
  <2> QED
    BY <1>5, <1>6, <2>1, EndedGoes
<1>7. CASE pc = "wait"
  <2>1. KeptAll([s EXCEPT !.work = s.work], s)
    BY <1>2 DEF KeptAll, Kept, Driver
  <2>2. main.pc \in LoopPcs
    BY <1>1 DEF LoopPcs
  <2> QED
    BY <1>1, <1>2, <1>3, <1>5, <1>7, <2>1, <2>2, DetectionGoes
<1> QED
  BY <1>4, <1>6, <1>7

\* And in the work queue.
LEMMA WakeWorkQueueGoes ==
  ASSUME GoesOnInv, WakeWorkQueue
  PROVE  GoesOnInv'
<1>1. LongAfter /\ s' = st25r3911b_nfca_tag_detect(s) /\ wq' = "idle" /\ main' = main
  BY DEF WakeWorkQueue
<1>2. s \in Driver /\ main \in MainThread /\ ~s.slept
  BY Typed DEF GoesOnInv
<1>3. Asked(s, s', "TAG_DETECTION")
  BY <1>1, <1>2, Requests
<1>4. CASE main.pc = "ended"
  <2>1. TypeOK' /\ ~s'.slept
    BY <1>1, <1>2, <1>3 DEF TypeOK, Asked, KeptAll, Kept
  <2> QED
    BY <1>1, <1>4, <2>1, EndedGoes
<1>5. CASE main.pc # "ended"
  <2>1. KeptAll([s EXCEPT !.work = s.work], s)
    BY <1>2 DEF KeptAll, Kept, Driver
  <2>2. main.pc \in LoopPcs
    BY <1>1, <1>5 DEF LoopPcs, LongAfter, MainRests
  <2> QED
    BY <1>1, <1>2, <1>3, <2>1, <2>2, DetectionGoes
<1> QED
  BY <1>4, <1>5

\* The delay after a transfer is over.
LEMMA transfer_handlerGoes ==
  ASSUME GoesOnInv, transfer_handler
  PROVE  GoesOnInv'
<1> DEFINE d == [s EXCEPT !.work = FALSE]
<1>1. LongAfter /\ s' = st25r3911b_nfca_tag_detect(d) /\ wq' = wq /\ main' = main
  BY DEF transfer_handler
<1>2. s \in Driver /\ main \in MainThread /\ ~s.slept /\ wq \in {"idle", "asleep"}
  BY Typed DEF GoesOnInv
<1>3. /\ d \in Driver /\ d.state = s.state /\ d.chip = s.chip /\ d.user_sem = s.user_sem
      /\ d.txrx = s.txrx /\ d.slept = s.slept /\ d.work = FALSE
  BY <1>2 DEF Driver
<1>4. KeptAll([s EXCEPT !.work = FALSE], d)
  BY DEF KeptAll, Kept
<1> HIDE DEF d
<1>5. Asked(d, s', "TAG_DETECTION")
  BY <1>1, <1>3, Requests
<1>6. CASE main.pc = "ended"
  <2>1. TypeOK' /\ ~s'.slept
    BY <1>1, <1>2, <1>3, <1>5 DEF TypeOK, Asked, KeptAll, Kept
  <2> QED
    BY <1>1, <1>6, <2>1, EndedGoes
<1>7. CASE main.pc # "ended"
  <2>1. KeptAll([s EXCEPT !.work = d.work], d)
    BY <1>3, <1>4
  <2>2. main.pc \in LoopPcs
    BY <1>1, <1>7 DEF LoopPcs, LongAfter, MainRests
  <2> QED
    BY <1>1, <1>2, <1>3, <1>5, <2>1, <2>2, DetectionGoes
<1> QED
  BY <1>6, <1>7

\* Every step.
LEMMA NextGoes ==
  ASSUME GoesOnInv, [Next]_vars
  PROVE  GoesOnInv'
<1>1. CASE Next
  BY <1>1, StartCommandGoes, CommandAnsweredGoes, CommandTimesOutGoes, PollGoes, ProcessUserGoes,
     ProcessIrqGoes, IrqReadGoes, PinReadGoes, IrqProcessGoes, BusFailsGoes, ChipInterruptGoes,
     timeout_handlerGoes, WakeMainGoes, WakeWorkQueueGoes, transfer_handlerGoes DEF Next
<1>2. CASE UNCHANGED vars
  BY <1>2 DEF vars, GoesOnInv, TypeOK, LoopOK, StartOK, LongAfter, MainRests
<1> QED
  BY <1>1, <1>2

-----------------------------------------------------------------------------
(* The inductive invariant of the reader: the types, what the chip still   *)
(* has to raise for the frame that was sent, and what keeps the exchange   *)
(* of each state alive, through irq_process(), the callbacks of the sample *)
(* and the two threads.                                                    *)
THEOREM ReaderGoesOnInductive == Spec => []GoesOnInv
<1>1. Init => GoesOnInv
  BY InitGoes
<1>2. GoesOnInv /\ [Next]_vars => GoesOnInv'
  BY NextGoes
<1> QED
  BY <1>1, <1>2, PTL DEF Spec

(* The reader never falls silent: when main() waits in k_poll() for events *)
(* that nothing is left to raise, timeout_work or the work of the sample   *)
(* is scheduled, or nfc_timeout() sleeps in the work queue and will        *)
(* request the next detection, unless st25r3911b_irq_read() overwrote the  *)
(* end of a transmission; for all lengths of frames, answers and buffers.  *)
THEOREM ReaderKeepsGoing == Spec => []ReaderGoesOn
<1>1. GoesOnInv => ReaderGoesOn
  <2>1. SUFFICES ASSUME GoesOnInv, main.pc = "wait", ~s.user_sem, ~s.chip.sem, s.chip.wire = << >>,
                        ~s.timer, ~s.lost
                 PROVE  s.work \/ wq = "asleep"
    BY DEF ReaderGoesOn
  <2>2. /\ Alive(s, main.status) /\ (Pin(s.chip) => s.chip.sem) /\ main.status = {}
        /\ (s.state = "IDLE" => s.work \/ wq = "asleep")
    BY <2>1 DEF GoesOnInv, LoopOK, LoopPcs
  <2>3. Unread(s.chip) = {} /\ Wire(s.chip) = {}
    BY <2>1, <2>2, DueEmpty DEF Pin, Unread, Wire
  <2>4. Coming(s.chip) \cup main.status = {} /\ ~Noticed(s, main.status)
    BY <2>2, <2>3 DEF Coming, Noticed
  <2>5. s.state \in States
    BY <2>1, Typed DEF GoesOnInv, Driver
  <2> QED
    BY <2>1, <2>2, <2>3, <2>4, <2>5 DEF Alive, States, Active
<1> QED
  BY <1>1, ReaderGoesOnInductive, PTL

-----------------------------------------------------------------------------
(* What is read belongs to the frame last sent: the parts of the proof.    *)

\* What the theorems say, and that only a collision leaves interrupts over.
Pure(d) == ~d.crossed /\ ~d.misnamed /\ (d.stale => d.collided) /\ Fits(d)

\* Three levels of a tag are ten bytes.
LEMMA StoredFits ==
  ASSUME NEW d \in Driver, Stored(d)
  PROVE  Fits(d)
<1>1. d.tag \in 0..3 /\ d.idx \in Nat
  BY DEF Driver
<1>2. CASE d.broken
  BY <1>2 DEF Fits
<1>3. CASE ~d.broken
  BY <1>1, <1>3 DEF Stored, Fits, NFCID1_MAX_LEN
<1> QED
  BY <1>2, <1>3

\* No resolution is under way, and nothing of an identifier is stored.
LEMMA StoredNone ==
  ASSUME NEW d, d.state # "ANTICOLLISION" \/ d.user_sem, d.broken \/ d.idx = 0
  PROVE  Stored(d)
  BY DEF Stored

\* The resolution is where it was.
LEMMA StoredSame ==
  ASSUME NEW d, NEW e, Stored(d), e.state = d.state, e.user_sem = d.user_sem,
         e.chip.frame = d.chip.frame, e.lvl = d.lvl, e.idx = d.idx, e.broken = d.broken,
         e.tag = d.tag
  PROVE  Stored(e)
  BY DEF Stored

\* The chip has nothing to raise, and nothing was raised that is not processed.
LEMMA QuietClean ==
  ASSUME NEW d, d.chip.wire = << >>, d.chip.irq = {}, Stored(d),
         d.chip.frame.kind = "data" => d.chip.frame.len = d.tx
  PROVE  CleanOK(d, {})
<1>1. Wire(d.chip) = {} /\ Raised(d, {}) = {} /\ All(d, {}) = {} /\ DOMAIN d.chip.wire = {}
  BY DueEmpty DEF Wire, Raised, All
<1>2. InOrder(d, {})
  BY <1>1 DEF InOrder
<1>3. Fills(d, {})
  BY <1>1 DEF Fills
<1>4. LevelOnce(d, {})
  BY <1>1 DEF LevelOnce
<1> QED
  BY <1>2, <1>3, <1>4 DEF CleanOK

\* A frame has been sent, and no interrupt was left over.
LEMMA SentClean ==
  ASSUME NEW d, NEW e, NEW f \in Frame, Sending(d, e, f), d.chip.irq = {}, ~e.user_sem,
         f.len > ST25R3911B_MAX_FIFO_LEN => f.kind = "data",
         f.kind = "data" => f.len = e.tx, Stored(e)
  PROVE  CleanOK(e, {})
<1> DEFINE c == e.chip
           w == Sent(f)
<1>1. c.wire = w /\ c.irq = {} /\ c.n = 0 /\ c.frame = f
  BY DEF Sending
<1>2. /\ w \in Seq(Event) /\ Due(w) \subseteq {"FWL", "TXE"}
      /\ ("FWL" \in Due(w) <=> f.len > ST25R3911B_MAX_FIFO_LEN)
      /\ \A i \in DOMAIN w :
              /\ w[i].n = 0 /\ w[i].bits \in {{"FWL"}, {"TXE"}}
              /\ \A j \in DOMAIN w : w[i].bits = w[j].bits => i = j
  BY SentWire
<1> HIDE DEF w
<1>3. Wire(c) = Due(w) /\ Raised(e, {}) = {} /\ All(e, {}) = Due(w)
  BY <1>1 DEF Wire, Raised, All
<1>4. \A i \in DOMAIN w : w[i].bits # {"RXE"} /\ w[i].bits # {"NRE"} /\ w[i].bits # {"COL"}
  BY <1>2, Causes
<1>5. InOrder(e, {})
  BY <1>1, <1>2, <1>3, <1>4 DEF InOrder
<1>6. Fills(e, {})
  BY <1>1, <1>2, <1>3, <1>4 DEF Fills
<1>7. LevelOnce(e, {})
  <2>1. "FWL" \in Due(w) => f.kind = "data"
    BY <1>2
  <2>2. f.kind = "data" => f.len = e.tx
    OBVIOUS
  <2>3. e.tx <= ST25R3911B_MAX_FIFO_LEN => "FWL" \notin Due(w)
    <3>1. SUFFICES ASSUME "FWL" \in Due(w), e.tx <= ST25R3911B_MAX_FIFO_LEN PROVE FALSE
      OBVIOUS
    <3>2. f.len = e.tx /\ f.len > ST25R3911B_MAX_FIFO_LEN /\ f.len \in Nat
      BY <1>2, <2>1, <3>1 DEF Frame
    <3> QED
      BY <3>1, <3>2 DEF ST25R3911B_MAX_FIFO_LEN
  <2>4. "FWL" \notin Due(w) => \A i \in DOMAIN w : w[i].bits # {"FWL"}
    BY <1>2, DueIs
  <2> QED
    BY <1>1, <1>3, <2>1, <2>2, <2>3, <2>4 DEF LevelOnce
<1> QED
  BY <1>5, <1>6, <1>7 DEF CleanOK

\* Less of the status is left to process, and the FIFO has what it had.
LEMMA CleanKept ==
  ASSUME NEW d, NEW e, NEW st, NEW q, CleanOK(d, st), q \subseteq st,
         e.chip.irq = d.chip.irq, e.chip.mask = d.chip.mask, e.chip.wire = d.chip.wire,
         e.chip.frame = d.chip.frame, e.chip.ans = d.chip.ans, e.chip.n = d.chip.n,
         e.tag = d.tag, e.tx = d.tx, d.collided => e.collided, e.user_sem => d.user_sem,
         Stored(e)
  PROVE  CleanOK(e, q)
<1>1. /\ Wire(e.chip) = Wire(d.chip) /\ Raised(e, q) \subseteq Raised(d, st)
      /\ All(e, q) \subseteq All(d, st)
  BY DEF Wire, Raised, All
<1>2. InOrder(e, q)
  <2>1. InOrder(d, st)
    BY DEF CleanOK
  <2>2. e.chip.irq \cap e.chip.mask = {}
    BY <2>1 DEF InOrder
  <2>3. {"RXE", "NRE"} \cap Raised(e, q) # {} => e.chip.wire = << >>
    BY <1>1, <2>1 DEF InOrder
  <2>4. {"RXE", "NRE"} \cap q # {} => e.chip.irq = {}
    BY <2>1 DEF InOrder
  <2>5. "NRE" \in All(e, q) => {"RXS", "RXE", "COL"} \cap All(e, q) = {}
    BY <1>1, <2>1 DEF InOrder
  <2>6. "TXE" \in Wire(e.chip) => All(e, q) \subseteq {"FWL", "TXE"}
    BY <1>1, <2>1 DEF InOrder
  <2> QED
    BY <2>1, <2>2, <2>3, <2>4, <2>5, <2>6 DEF InOrder
<1>3. Fills(e, q)
  <2>1. Fills(d, st)
    BY DEF CleanOK
  <2> QED
    BY <1>1, <2>1 DEF Fills
<1>4. LevelOnce(e, q)
  <2>1. LevelOnce(d, st)
    BY DEF CleanOK
  <2> QED
    BY <1>1, <2>1 DEF LevelOnce
<1>5. e.user_sem => e.chip.wire = << >> /\ e.chip.irq = {} /\ q = {}
  BY DEF CleanOK
<1> QED
  BY <1>2, <1>3, <1>4, <1>5 DEF CleanOK

\* The level was reached and the bytes were read.
LEMMA CleanLevel ==
  ASSUME NEW d \in Driver, NEW e \in Driver, NEW st, CleanOK(d, st), "FWL" \in st,
         SameExchange(d.chip, e.chip), e.chip.n <= d.chip.n,
         e.tag = d.tag, e.tx = d.tx, d.collided => e.collided, e.user_sem => d.user_sem,
         Stored(e)
  PROVE  CleanOK(e, {})
<1>1. /\ e.chip.irq = d.chip.irq /\ e.chip.mask = d.chip.mask /\ e.chip.wire = d.chip.wire
      /\ e.chip.frame = d.chip.frame /\ e.chip.ans = d.chip.ans
      /\ e.chip.n \in Nat /\ d.chip.n \in Nat
  BY DEF SameExchange, Driver, Chip
<1>2. /\ Wire(e.chip) = Wire(d.chip) /\ Raised(e, {}) = d.chip.irq
      /\ Raised(e, {}) \subseteq Raised(d, st) /\ All(e, {}) \subseteq All(d, st)
      /\ "FWL" \in Raised(d, st) /\ "FWL" \in All(d, st)
  BY <1>1 DEF Wire, Raised, All
<1>3. InOrder(d, st) /\ Fills(d, st) /\ LevelOnce(d, st)
  BY DEF CleanOK
<1>4. InOrder(e, {})
  <2>1. e.chip.irq \cap e.chip.mask = {}
    BY <1>1, <1>3 DEF InOrder
  <2>2. {"RXE", "NRE"} \cap Raised(e, {}) # {} => e.chip.wire = << >>
    BY <1>1, <1>2, <1>3 DEF InOrder
  <2>3. "NRE" \in All(e, {}) => {"RXS", "RXE", "COL"} \cap All(e, {}) = {}
    BY <1>2, <1>3 DEF InOrder
  <2>4. "TXE" \in Wire(e.chip) => All(e, {}) \subseteq {"FWL", "TXE"}
    BY <1>2, <1>3 DEF InOrder
  <2> QED
    BY <1>1, <1>3, <2>1, <2>2, <2>3, <2>4 DEF InOrder
<1>5. e.chip.frame.kind = "data" /\ e.chip.frame.len = e.tx
  BY <1>1, <1>2, <1>3 DEF LevelOnce
<1>6. Fills(e, {})
  <2>1. "TXE" \in Wire(e.chip) => e.chip.n = 0
    <3>1. "TXE" \in Wire(e.chip) => d.chip.n = 0
      BY <1>2, <1>3 DEF Fills
    <3> QED
      BY <1>1, <3>1
  <2> QED
    BY <1>1, <1>2, <1>3, <1>5, <2>1 DEF Fills
<1>7. LevelOnce(e, {})
  <2>1. e.tx <= ST25R3911B_MAX_FIFO_LEN => "FWL" \notin Raised(e, {})
    BY <1>2, <1>3 DEF LevelOnce
  <2> QED
    BY <1>1, <1>2, <1>3, <1>5, <2>1 DEF LevelOnce
<1>8. ~e.user_sem
  BY DEF CleanOK
<1> QED
  BY <1>4, <1>6, <1>7, <1>8 DEF CleanOK

-----------------------------------------------------------------------------
(* What is read belongs to the frame last sent: the actions.               *)

\* What the invariant says, before a step and after it.
LEMMA CleanIs ==
  ASSUME CleanInv
  PROVE  /\ Pure(s)
         /\ main.pc \in LoopPcs /\ ~s.stale =>
              /\ CleanOK(s, main.status)
              /\ main.pc = "asleep" => s.chip.wire = << >> /\ s.chip.irq = {}
  BY DEF CleanInv, Pure

LEMMA OutsideClean ==
  ASSUME Pure(s'), main'.pc \notin LoopPcs
  PROVE  CleanInv'
  BY DEF CleanInv, Pure

LEMMA LoopClean ==
  ASSUME Pure(s'), ~s'.stale => CleanOK(s', main'.status),
         ~s'.stale /\ main'.pc = "asleep" => s'.chip.wire = << >> /\ s'.chip.irq = {}
  PROVE  CleanInv'
  BY DEF CleanInv, Pure

\* What the theorems are about is the same.
LEMMA PureKept ==
  ASSUME NEW d, NEW e, Pure(d), e.crossed = d.crossed, e.misnamed = d.misnamed,
         e.stale = d.stale, d.collided => e.collided, e.idx = d.idx,
         e.broken = d.broken \/ (e.broken <=> d.idx # 0)
  PROVE  Pure(e)
  BY DEF Pure, Fits, NFCID1_MAX_LEN

LEMMA InitClean ==
  ASSUME Init
  PROVE  CleanInv
<1>1. ~s.crossed /\ ~s.misnamed /\ ~s.stale /\ main.pc = "start" /\ s.idx = 0
  BY DEF Init
<1> QED
  BY <1>1 DEF CleanInv, LoopPcs, Fits, NFCID1_MAX_LEN

LEMMA StartCommandClean ==
  ASSUME ReaderInv, StartCommand
  PROVE  CleanInv'
<1>1. /\ s'.crossed = s.crossed /\ s'.misnamed = s.misnamed /\ s'.stale = s.stale
      /\ s'.collided = s.collided /\ s'.idx = s.idx /\ s'.broken = s.broken
  BY Typed DEF StartCommand, ReaderInv, GoesOnInv, Driver
<1>2. main'.pc = "await"
  BY Typed DEF StartCommand, Goto, ReaderInv, GoesOnInv, MainThread
<1>3. Pure(s')
  BY <1>1, CleanIs, PureKept DEF ReaderInv
<1> QED
  BY <1>2, <1>3, OutsideClean DEF LoopPcs

LEMMA CommandTimesOutClean ==
  ASSUME ReaderInv, CommandTimesOut
  PROVE  CleanInv'
<1> DEFINE x == [s EXCEPT !.chip = command_end(@, Head(main.todo)), !.state = "IDLE"]
<1>1. s' = [x EXCEPT !.err = "ENXIO"]
  BY DEF CommandTimesOut, Fails
<1>2. s \in Driver /\ main \in MainThread
  BY Typed DEF ReaderInv, GoesOnInv
<1>3. /\ s'.crossed = s.crossed /\ s'.misnamed = s.misnamed /\ s'.stale = s.stale
      /\ s'.collided = s.collided /\ s'.idx = s.idx /\ s'.broken = s.broken
  BY <1>1, <1>2 DEF Driver
<1>4. main'.pc = "ended"
  BY <1>2 DEF CommandTimesOut, Goto, MainThread
<1>5. Pure(s')
  BY <1>3, CleanIs, PureKept DEF ReaderInv
<1> QED
  BY <1>4, <1>5, OutsideClean DEF LoopPcs

LEMMA BusFailsClean ==
  ASSUME ReaderInv, BusFails
  PROVE  CleanInv'
<1> DEFINE x == [s EXCEPT !.state = IF @ \in {"FIELD_ON", "FIELD_OFF"} THEN "IDLE" ELSE @]
<1>1. s' = [x EXCEPT !.err = "EIO"]
  BY DEF BusFails, Fails
<1>2. s \in Driver /\ main \in MainThread
  BY Typed DEF ReaderInv, GoesOnInv
<1>3. /\ s'.crossed = s.crossed /\ s'.misnamed = s.misnamed /\ s'.stale = s.stale
      /\ s'.collided = s.collided /\ s'.idx = s.idx /\ s'.broken = s.broken
  BY <1>1, <1>2 DEF Driver
<1>4. main'.pc = "ended"
  BY <1>2 DEF BusFails, Goto, MainThread
<1>5. Pure(s')
  BY <1>3, CleanIs, PureKept DEF ReaderInv
<1> QED
  BY <1>4, <1>5, OutsideClean DEF LoopPcs

\* The last command is answered: the first request is made, or the loop does not start.
LEMMA CommandAnsweredClean ==
  ASSUME ReaderInv, CommandAnswered
  PROVE  CleanInv'
<1> DEFINE cmd == Head(main.todo)
           ok == Succeeds(cmd, IrqStatus(s.chip))
           c == command_end(s.chip, cmd)
           ended == [s EXCEPT !.chip = c, !.state = "IDLE"]
           on == [ended EXCEPT !.chip = rx_tx_enable(@)]
           off == [ended EXCEPT !.chip = st25r3911b_rx_tx_disable(@)]
<1>1. /\ main.pc = "await" /\ s.chip.sem
      /\ s' = IF ~ok THEN Fails(ended, "EACCES")
              ELSE IF cmd = "field_on" THEN nfc_field_on(on)
              ELSE IF Len(main.todo) = 1 THEN st25r3911b_nfca_field_on(off)
              ELSE ended
      /\ main' = [main EXCEPT !.todo = Tail(@),
                              !.pc = IF ~ok THEN "ended"
                                     ELSE IF Len(main.todo) > 1 THEN "start"
                                     ELSE IF cmd = "field_on" THEN AfterUser ELSE "wait"]
  BY DEF CommandAnswered
<1>2. s \in Driver /\ s.chip \in Chip /\ main \in MainThread /\ main.todo \in Seq(Commands)
  BY Typed DEF ReaderInv, GoesOnInv
<1>3. /\ s.chip.frame.kind = "none" /\ s.idx = 0 /\ main.status = {} /\ s.chip.wire = << >>
      /\ s.chip.mask = Bits \ Awaits(cmd) /\ main.todo # << >>
      /\ \/ main.todo = <<"field_on">>
         \/ \A i \in DOMAIN main.todo : main.todo[i] # "field_on"
  BY <1>1 DEF ReaderInv, GoesOnInv, StartOK, StartPcs
<1>4. c \in Chip /\ c.irq = {} /\ c.frame = s.chip.frame /\ c.wire = s.chip.wire
  BY <1>2, <1>3, CommandEnds
<1> HIDE DEF c, ok
<1>5. /\ ended \in Driver /\ ended.chip = c /\ ended.state = "IDLE" /\ ended.idx = 0
      /\ ended.crossed = s.crossed /\ ended.misnamed = s.misnamed /\ ended.stale = s.stale
      /\ ended.collided = s.collided /\ ended.broken = s.broken
  BY <1>2, <1>3, <1>4 DEF Driver, States
<1> HIDE DEF ended
<1>6. main'.status = {}
  BY <1>1, <1>2, <1>3 DEF MainThread
<1>7. Pure(ended)
  BY <1>3, <1>5, CleanIs, PureKept DEF ReaderInv
<1>8. ASSUME NEW v \in BOOLEAN, NEW state, NEW x, x = [ended EXCEPT !.chip = [c EXCEPT !.field = v]],
             Asked(x, s', state), x \in Driver
      PROVE  CleanInv'
  <2> DEFINE k == [c EXCEPT !.field = v]
  <2>1. k.irq = {} /\ k.frame.kind = "none" /\ k.wire = << >>
    BY <1>3, <1>4 DEF Chip
  <2> HIDE DEF k
  <2>2. x = [ended EXCEPT !.chip = k]
    BY <1>8 DEF k
  <2>3. /\ x.chip = k /\ x.state = "IDLE" /\ x.idx = 0 /\ x.crossed = ended.crossed
        /\ x.broken = ended.broken
        /\ x.misnamed = ended.misnamed /\ x.stale = ended.stale /\ x.collided = ended.collided
    BY <1>5, <2>2 DEF Driver
  <2>4. /\ s'.chip = k /\ s'.user_sem /\ s'.idx = 0 /\ s'.crossed = ended.crossed
        /\ s'.broken = ended.broken
        /\ s'.misnamed = ended.misnamed /\ s'.stale = ended.stale /\ s'.collided = ended.collided
    BY <1>8, <2>3 DEF Asked, KeptAll, Kept
  <2>5. Pure(s')
    BY <1>5, <1>7, <2>4, PureKept
  <2>6. Stored(s')
    BY <2>4, StoredNone
  <2>7. CleanOK(s', {})
    BY <2>1, <2>4, <2>6, QuietClean
  <2>8. s'.chip.wire = << >> /\ s'.chip.irq = {}
    BY <2>1, <2>4
  <2> QED
    BY <1>6, <2>5, <2>7, <2>8, LoopClean
<1>9. ASSUME NEW v \in BOOLEAN
      PROVE  [ended EXCEPT !.chip = [c EXCEPT !.field = v]] \in Driver
  <2>1. [c EXCEPT !.field = v] \in Chip
    BY <1>4 DEF Chip
  <2> QED
    BY <1>5, <2>1 DEF Driver
<1>10. CASE ~ok
  <2>1. s' = Fails(ended, "EACCES") /\ "EACCES" \in Errors
    BY <1>1, <1>10 DEF Errors
  <2>2. /\ s'.crossed = ended.crossed /\ s'.misnamed = ended.misnamed
        /\ s'.stale = ended.stale /\ s'.collided = ended.collided
        /\ s'.idx = ended.idx /\ s'.broken = ended.broken
    BY <1>5, <2>1, FailsIs DEF Kept
  <2>3. main'.pc = "ended"
    BY <1>1, <1>2, <1>10 DEF MainThread
  <2>4. Pure(s')
    BY <1>7, <2>2, PureKept
  <2> QED
    BY <2>3, <2>4, OutsideClean DEF LoopPcs
<1>11. CASE ok /\ cmd = "field_on"
  <2> DEFINE x == [ended EXCEPT !.chip = [c EXCEPT !.field = TRUE]]
  <2>1. s' = st25r3911b_nfca_tag_detect(x)
    <3>1. on = x
      BY <1>5 DEF rx_tx_enable
    <3> QED
      BY <1>1, <1>11, <3>1 DEF nfc_field_on
  <2>2. x \in Driver
    BY <1>9
  <2>3. Asked(x, s', "TAG_DETECTION")
    <3> HIDE DEF x
    <3> QED
      BY <2>1, <2>2, Requests
  <2> QED
    BY <1>8, <2>2, <2>3
<1>12. CASE ok /\ cmd # "field_on" /\ Len(main.todo) = 1
  <2> DEFINE x == [ended EXCEPT !.chip = [c EXCEPT !.field = FALSE]]
  <2>1. s' = st25r3911b_nfca_field_on(x)
    <3>1. off = x
      BY <1>5 DEF st25r3911b_rx_tx_disable
    <3> QED
      BY <1>1, <1>12, <3>1
  <2>2. x \in Driver
    BY <1>9
  <2>3. Asked(x, s', "FIELD_ON")
    <3> HIDE DEF x
    <3> QED
      BY <2>1, <2>2, Requests
  <2> QED
    BY <1>8, <2>2, <2>3
<1>13. CASE ok /\ cmd # "field_on" /\ Len(main.todo) # 1
  <2>1. s' = ended
    BY <1>1, <1>13
  <2>2. Len(main.todo) > 1
    <3>1. Len(main.todo) \in Nat /\ Len(main.todo) # 0
      BY <1>2, <1>3
    <3>2. \A n \in Nat : n # 0 /\ n # 1 => n > 1
      OBVIOUS
    <3> QED
      BY <1>13, <3>1, <3>2
  <2>3. main'.pc = "start"
    BY <1>1, <1>2, <1>13, <2>2 DEF MainThread
  <2> QED
    BY <1>7, <2>1, <2>3, OutsideClean DEF LoopPcs
<1> QED
  BY <1>10, <1>11, <1>12, <1>13

\* main() polls.
LEMMA PollClean ==
  ASSUME ReaderInv, Poll
  PROVE  CleanInv'
<1>1. s' = s /\ main.pc = "wait" /\ main'.status = main.status /\ main'.pc \in {"user", "take"}
  BY Typed DEF Poll, ReaderInv, GoesOnInv, MainThread
<1>2. Pure(s) /\ (~s.stale => CleanOK(s, main.status))
  BY <1>1, CleanIs DEF ReaderInv, LoopPcs
<1> QED
  BY <1>1, <1>2, LoopClean

\* The request of the application is served: nothing is left over when it is.
LEMMA ProcessUserClean ==
  ASSUME ReaderInv, ProcessUser
  PROVE  CleanInv'
<1> DEFINE d == [s EXCEPT !.user_sem = FALSE]
           done == user_state_process(d)
<1>1. main.pc = "user" /\ main.pc \in LoopPcs
  BY DEF ProcessUser, LoopPcs
<1>2. IF d.state = "FIELD_ON"
      THEN s' = d /\ main' = [main EXCEPT !.pc = "start", !.todo = <<"field_on">>]
      ELSE s' = done /\ main' = [main EXCEPT !.pc = IF done.err = "none" THEN AfterUser ELSE "ended"]
  BY DEF ProcessUser, Goto
<1>3. s \in Driver /\ main \in MainThread /\ s.tx \in Nat
  BY Typed DEF ReaderInv, GoesOnInv, Driver
<1>4. /\ d \in Driver /\ d.chip = s.chip /\ d.state = s.state /\ ~d.user_sem
      /\ d.idx = s.idx /\ d.tx = s.tx /\ d.broken = s.broken /\ d.tag = s.tag
      /\ d.crossed = s.crossed /\ d.misnamed = s.misnamed /\ d.stale = s.stale
      /\ d.collided = s.collided
  BY <1>3 DEF Driver
<1>5. main.status = {} /\ s.user_sem
  BY <1>1 DEF ReaderInv, GoesOnInv, LoopOK
<1>6. /\ Pure(s) /\ (~s.stale => CleanOK(s, {}))
  BY <1>1, <1>5, CleanIs DEF ReaderInv
<1>7. ~s.stale => /\ s.chip.wire = << >> /\ s.chip.irq = {} /\ (s.broken \/ s.idx = 0)
                  /\ (s.chip.frame.kind = "data" => s.chip.frame.len = s.tx)
  BY <1>5, <1>6 DEF CleanOK, Stored, LevelOnce
<1> HIDE DEF d
<1>8. Pure(d)
  BY <1>4, <1>6, PureKept
<1>9. CASE d.state = "FIELD_ON"
  <2>1. s' = d /\ main'.pc = "start"
    BY <1>2, <1>3, <1>9 DEF MainThread
  <2> QED
    BY <1>8, <2>1, OutsideClean DEF LoopPcs
<1>10. CASE d.state # "FIELD_ON"
  <2>1. s' = done /\ main' = [main EXCEPT !.pc = IF done.err = "none" THEN AfterUser ELSE "ended"]
    BY <1>2, <1>10
  <2>2. /\ main'.status = {} /\ main'.pc # "asleep"
        /\ (done.err # "none" => main'.pc = "ended")
    BY <1>3, <1>5, <2>1 DEF MainThread, AfterUser
  <2> HIDE DEF done
  <2>3. ASSUME NEW f \in Frame, Sending(d, done, f), Left(d, done),
               f.len > ST25R3911B_MAX_FIFO_LEN => f.kind = "data",
               f.kind = "data" => f.len = s.tx,
               done.broken \/ done.idx = 0 => Stored(done)
        PROVE  CleanInv'
    <3>1. /\ ~done.user_sem /\ done.tx = s.tx /\ done.idx = s.idx /\ done.broken = s.broken
          /\ done.crossed = d.crossed /\ done.misnamed = d.misnamed /\ done.collided = d.collided
      BY <1>4, <2>3 DEF Left
    <3>2. done.stale <=> d.stale \/ d.chip.irq \cap Enabled(f) # {}
      BY <2>3 DEF Sending
    <3>3. s.stale => done.stale /\ Pure(done)
      BY <1>4, <1>8, <3>1, <3>2 DEF Pure, Fits
    <3>4. ~s.stale => ~done.stale /\ Pure(done)
      BY <1>4, <1>7, <1>8, <3>1, <3>2 DEF Pure, Fits
    <3>5. ~done.stale => CleanOK(done, {})
      <4>1. SUFFICES ASSUME ~s.stale PROVE CleanOK(done, {})
        BY <3>3
      <4>2. Stored(done) /\ d.chip.irq = {}
        BY <1>4, <1>7, <2>3, <3>1, <4>1
      <4> QED
        BY <2>3, <3>1, <4>2, SentClean
    <3> QED
      BY <2>1, <2>2, <3>3, <3>4, <3>5, LoopClean
  <2>4. CASE d.state = "TAG_DETECTION"
    <3> DEFINE f == [kind |-> "detect", len |-> 0]
    <3>1. done = tag_detect(d)
      BY <2>4 DEF user_state_process, done
    <3>2. f \in Frame /\ Sending(d, done, f) /\ Left(d, done)
      BY <1>4, <3>1, DetectionFrame
    <3>3. ~(f.len > ST25R3911B_MAX_FIFO_LEN) /\ f.kind = "detect"
      BY DEF ST25R3911B_MAX_FIFO_LEN
    <3>4. done.state = "TAG_DETECTION"
      BY <2>4, <3>2 DEF Left
    <3>5. done.broken \/ done.idx = 0 => Stored(done)
      BY <3>4, StoredNone
    <3> HIDE DEF f
    <3> QED
      BY <2>3, <3>2, <3>3, <3>5
  <2>5. CASE d.state = "ANTICOLLISION"
    <3> DEFINE f == [kind |-> "sdd", len |-> 7, lvl |-> 1]
    <3>1. done = anticollision_resolution(d, 1)
      BY <2>5 DEF user_state_process, done
    <3>2. f \in Frame /\ Sending(d, done, f) /\ Left(d, done) /\ done.lvl = 1
      BY <1>4, <3>1, NextLevel DEF ANTICOLLISION_CASCADE_3
    <3>3. ~(f.len > ST25R3911B_MAX_FIFO_LEN) /\ f.kind = "sdd" /\ f.lvl = 1
      BY DEF ST25R3911B_MAX_FIFO_LEN
    <3> HIDE DEF f
    <3>4. done.chip.frame = f
      BY <3>2 DEF Sending
    <3>5. done.broken \/ done.idx = 0 => Stored(done)
      <4>1. SUFFICES ASSUME done.idx = 0, ~done.broken PROVE Stored(done)
        BY DEF Stored
      <4>2. done.state = "ANTICOLLISION" /\ ~done.user_sem
        BY <1>4, <2>5, <3>2 DEF Left
      <4>3. 3 * (1 - 1) = 0 /\ 1 \in 1..3
        OBVIOUS
      <4> QED
        BY <3>2, <3>3, <3>4, <4>1, <4>2, <4>3 DEF Stored
    <3> QED
      BY <2>3, <3>2, <3>3, <3>5
  <2>6. CASE d.state = "TRANSFER"
    <3>1. done = transfer(d, d.tx, TRUE)
      BY <2>6 DEF user_state_process, done
    <3>2. CASE tx_len_ok(d.tx)
      <4> DEFINE f == [kind |-> "data", len |-> d.tx]
      <4>1. f \in Frame /\ Sending(d, done, f) /\ Left(d, done)
        BY <1>3, <1>4, <3>1, <3>2, TransferFrame
      <4>2. f.kind = "data" /\ f.len = s.tx
        BY <1>4
      <4>3. done.state = "TRANSFER"
        BY <2>6, <4>1 DEF Left
      <4>4. done.broken \/ done.idx = 0 => Stored(done)
        BY <4>3, StoredNone
      <4> HIDE DEF f
      <4> QED
        BY <2>3, <4>1, <4>2, <4>4
    <3>3. CASE ~tx_len_ok(d.tx)
      <4>1. /\ done.err # "none" /\ done.crossed = d.crossed /\ done.misnamed = d.misnamed
            /\ done.stale = d.stale /\ done.collided = d.collided
            /\ done.idx = d.idx /\ done.broken = d.broken
        <5>1. d.tx \in Nat /\ TRUE \in BOOLEAN
          BY <1>3, <1>4
        <5>2. /\ transfer(d, d.tx, TRUE).err # "none"
              /\ transfer(d, d.tx, TRUE).crossed = d.crossed
              /\ transfer(d, d.tx, TRUE).misnamed = d.misnamed
              /\ transfer(d, d.tx, TRUE).stale = d.stale
              /\ transfer(d, d.tx, TRUE).collided = d.collided
              /\ transfer(d, d.tx, TRUE).idx = d.idx
              /\ transfer(d, d.tx, TRUE).broken = d.broken
          BY <1>4, <3>3, <5>1, TransferTyped
        <5> QED
          BY <3>1, <5>2
      <4>2. Pure(done) /\ main'.pc = "ended"
        BY <1>8, <2>2, <4>1, PureKept
      <4> QED
        BY <2>1, <4>2, OutsideClean DEF LoopPcs
    <3> QED
      BY <3>2, <3>3
  <2>7. CASE d.state = "SLEEP"
    <3> DEFINE f == [kind |-> "slp", len |-> 2]
    <3>1. done = transfer(d, 2, FALSE)
      BY <2>7 DEF user_state_process, tag_sleep, done
    <3>2. tx_len_ok(2) /\ ~(2 > ST25R3911B_MAX_FIFO_LEN)
      BY DEF tx_len_ok, ST25R3911B_MAX_TX_LEN, ST25R3911B_MAX_FIFO_LEN
    <3>3. f \in Frame /\ Sending(d, done, f) /\ Left(d, done)
      BY <1>4, <3>1, <3>2, TransferFrame
    <3>4. f.kind = "slp" /\ f.len = 2
      OBVIOUS
    <3>5. done.state = "SLEEP"
      BY <2>7, <3>3 DEF Left
    <3>6. done.broken \/ done.idx = 0 => Stored(done)
      BY <3>5, StoredNone
    <3> HIDE DEF f
    <3> QED
      BY <2>3, <3>2, <3>3, <3>4, <3>6
  <2>8. CASE d.state = "IDLE"
    <3>1. done = d
      BY <2>8 DEF user_state_process, done
    <3>2. ~s.stale => CleanOK(d, {})
      <4>1. SUFFICES ASSUME ~s.stale PROVE CleanOK(d, {})
        OBVIOUS
      <4>2. Stored(d)
        BY <1>4, <1>7, <2>8, <4>1, StoredNone
      <4> QED
        BY <1>4, <1>7, <4>1, <4>2, QuietClean
    <3> QED
      BY <1>4, <1>8, <2>1, <2>2, <3>1, <3>2, LoopClean
  <2> QED
    BY <1>4, <1>10, <2>4, <2>5, <2>6, <2>7, <2>8 DEF Driver, States
<1> QED
  BY <1>9, <1>10

\* The semaphore is taken.
LEMMA ProcessIrqClean ==
  ASSUME ReaderInv, ProcessIrq
  PROVE  CleanInv'
<1> DEFINE c == [s.chip EXCEPT !.sem = FALSE]
<1>1. /\ s' = [s EXCEPT !.chip = c] /\ main.pc = "take" /\ main' = [main EXCEPT !.pc = "read"]
  BY DEF ProcessIrq
<1>2. s \in Driver /\ s.chip \in Chip /\ main \in MainThread
  BY Typed DEF ReaderInv, GoesOnInv
<1>3. /\ c.irq = s.chip.irq /\ c.mask = s.chip.mask /\ c.wire = s.chip.wire
      /\ c.frame = s.chip.frame /\ c.ans = s.chip.ans /\ c.n = s.chip.n
  BY <1>2 DEF Chip
<1> HIDE DEF c
<1>4. /\ s'.chip = c /\ s'.tag = s.tag /\ s'.tx = s.tx /\ s'.collided = s.collided
      /\ s'.user_sem = s.user_sem /\ s'.state = s.state /\ s'.lvl = s.lvl /\ s'.idx = s.idx
      /\ s'.broken = s.broken /\ s'.crossed = s.crossed /\ s'.misnamed = s.misnamed
      /\ s'.stale = s.stale
  BY <1>1, <1>2 DEF Driver
<1>5. main'.status = main.status /\ main'.pc = "read"
  BY <1>1, <1>2 DEF MainThread
<1>6. Pure(s) /\ (~s.stale => CleanOK(s, main.status))
  BY <1>1, CleanIs DEF ReaderInv, LoopPcs
<1>7. Pure(s')
  BY <1>4, <1>6, PureKept
<1>8. ~s'.stale => CleanOK(s', main.status)
  <2>1. SUFFICES ASSUME CleanOK(s, main.status) PROVE CleanOK(s', main.status)
    BY <1>4, <1>6
  <2>2. Stored(s')
    BY <1>3, <1>4, <2>1, StoredSame DEF CleanOK
  <2> QED
    BY <1>3, <1>4, <2>1, <2>2, CleanKept
<1> QED
  BY <1>5, <1>7, <1>8, LoopClean

\* The status is read: everything that was raised is in it.
LEMMA IrqReadClean ==
  ASSUME ReaderInv, st25r3911b_irq_read
  PROVE  CleanInv'
<1> DEFINE c == [s.chip EXCEPT !.irq = {}]
           x == s.lost \/ "TXE" \in main.status
           q == s.chip.irq \ s.chip.mask
<1>1. /\ s' = [s EXCEPT !.chip = c, !.lost = x] /\ main.pc = "read"
      /\ main' = [main EXCEPT !.status = q, !.cnt = @ + 1, !.pc = "pin"]
  BY DEF st25r3911b_irq_read, st25r39_irq_clear, IrqStatus
<1>2. s \in Driver /\ s.chip \in Chip /\ main \in MainThread
  BY Typed DEF ReaderInv, GoesOnInv
<1>3. /\ c.irq = {} /\ c.mask = s.chip.mask /\ c.wire = s.chip.wire
      /\ c.frame = s.chip.frame /\ c.ans = s.chip.ans /\ c.n = s.chip.n
  BY <1>2 DEF Chip
<1> HIDE DEF c, x
<1>4. /\ s'.chip = c /\ s'.tag = s.tag /\ s'.tx = s.tx /\ s'.collided = s.collided
      /\ s'.user_sem = s.user_sem /\ s'.state = s.state /\ s'.lvl = s.lvl /\ s'.idx = s.idx
      /\ s'.broken = s.broken /\ s'.crossed = s.crossed /\ s'.misnamed = s.misnamed
      /\ s'.stale = s.stale
  BY <1>1, <1>2 DEF Driver
<1>5. main'.status = q /\ main'.pc = "pin"
  BY <1>1, <1>2 DEF MainThread
<1>6. Pure(s) /\ (~s.stale => CleanOK(s, main.status))
  BY <1>1, CleanIs DEF ReaderInv, LoopPcs
<1>7. Pure(s')
  BY <1>4, <1>6, PureKept
<1>8. ~s'.stale => CleanOK(s', q)
  <2> DEFINE st == main.status
  <2>1. SUFFICES ASSUME CleanOK(s, st) PROVE CleanOK(s', q)
    BY <1>4, <1>6
  <2>2. Stored(s')
    BY <1>3, <1>4, <2>1, StoredSame DEF CleanOK
  <2>3. InOrder(s, st) /\ Fills(s, st) /\ LevelOnce(s, st)
    BY <2>1 DEF CleanOK
  <2>4. q = s.chip.irq
    BY <2>3 DEF InOrder
  <2>5. /\ Wire(s'.chip) = Wire(s.chip) /\ Raised(s', q) = q /\ Raised(s', q) \subseteq Raised(s, st)
        /\ All(s', q) \subseteq All(s, st) /\ s'.chip.irq = {}
    BY <1>3, <1>4, <2>4 DEF Wire, Raised, All
  <2>6. InOrder(s', q)
    <3>1. {"RXE", "NRE"} \cap Raised(s', q) # {} => s'.chip.wire = << >>
      BY <1>3, <1>4, <2>3, <2>5 DEF InOrder
    <3>2. "NRE" \in All(s', q) => {"RXS", "RXE", "COL"} \cap All(s', q) = {}
      BY <2>3, <2>5 DEF InOrder
    <3>3. "TXE" \in Wire(s'.chip) => All(s', q) \subseteq {"FWL", "TXE"}
      BY <2>3, <2>5 DEF InOrder
    <3> QED
      BY <1>3, <1>4, <2>3, <2>5, <3>1, <3>2, <3>3 DEF InOrder
  <2>7. Fills(s', q)
    <3>1. "RXE" \in All(s', q) => AnswerTo(s'.chip.frame, s'.chip.ans, s'.tag)
      BY <1>3, <1>4, <2>3, <2>5 DEF Fills
    <3>2. "RXE" \in Raised(s', q) /\ s'.chip.frame.kind # "data" => s'.chip.n \in Sizes(s'.chip.frame, s'.chip.ans)
      BY <1>3, <1>4, <2>3, <2>5 DEF Fills
    <3>3. /\ "COL" \in All(s', q) =>
               s'.chip.frame.kind \in {"sdd", "rest"} /\ s'.chip.ans.kind = "sdd" /\ ~s'.chip.ans.ok
          /\ "COL" \in Raised(s', q) => s'.collided
      BY <1>3, <1>4, <2>3, <2>5 DEF Fills
    <3>4. "TXE" \in Wire(s'.chip) => s'.chip.n = 0
      BY <1>3, <1>4, <2>3, <2>5 DEF Fills
    <3> QED
      BY <1>3, <1>4, <2>3, <2>5, <3>1, <3>2, <3>3, <3>4 DEF Fills
  <2>8. LevelOnce(s', q)
    BY <1>3, <1>4, <2>3, <2>5 DEF LevelOnce
  <2>9. s'.user_sem => s'.chip.wire = << >> /\ s'.chip.irq = {} /\ q = {}
    BY <1>3, <1>4, <2>1, <2>4 DEF CleanOK
  <2> QED
    BY <2>2, <2>6, <2>7, <2>8, <2>9 DEF CleanOK
<1> QED
  BY <1>5, <1>7, <1>8, LoopClean

\* The pin is read.
LEMMA PinReadClean ==
  ASSUME ReaderInv, PinRead
  PROVE  CleanInv'
<1>1. /\ s' = s /\ main.pc = "pin" /\ main'.status = main.status
      /\ main'.pc \in {"read", "process"}
  BY Typed DEF PinRead, Goto, ReaderInv, GoesOnInv, MainThread
<1>2. Pure(s) /\ (~s.stale => CleanOK(s, main.status))
  BY <1>1, CleanIs DEF ReaderInv, LoopPcs
<1> QED
  BY <1>1, <1>2, LoopClean

\* The timer after the start of a reception has run out.
LEMMA timeout_handlerClean ==
  ASSUME ReaderInv, timeout_handler
  PROVE  CleanInv'
<1> DEFINE x == [s EXCEPT !.timer = FALSE]
           d == timeout_process(x)
<1>1. main' = main /\ s' = [d EXCEPT !.slept = FALSE]
  BY DEF timeout_handler
<1>2. s \in Driver
  BY Typed DEF ReaderInv, GoesOnInv
<1>3. /\ x \in Driver /\ x.chip = s.chip /\ x.idx = s.idx /\ x.user_sem = s.user_sem /\ x.tx = s.tx
      /\ x.tag = s.tag /\ x.collided = s.collided /\ x.stale = s.stale /\ x.crossed = s.crossed
      /\ x.misnamed = s.misnamed /\ x.broken = s.broken
  BY <1>2 DEF Driver
<1> HIDE DEF x
<1>4. /\ d \in Driver /\ d.state = "IDLE" /\ d.chip = s.chip /\ d.idx = s.idx
      /\ d.user_sem = s.user_sem /\ d.tx = s.tx
      /\ d.tag = s.tag /\ d.collided = s.collided /\ d.stale = s.stale /\ d.crossed = s.crossed
      /\ d.misnamed = s.misnamed /\ (d.broken <=> s.idx # 0)
  BY <1>3, TimeoutIs
<1> HIDE DEF d
<1>5. /\ s'.state = "IDLE" /\ s'.chip = s.chip /\ s'.idx = s.idx
      /\ s'.user_sem = s.user_sem /\ s'.tx = s.tx
      /\ s'.tag = s.tag /\ s'.collided = s.collided /\ s'.stale = s.stale /\ s'.crossed = s.crossed
      /\ s'.misnamed = s.misnamed /\ (s'.broken <=> s.idx # 0)
  BY <1>1, <1>4 DEF Driver
<1>6. Pure(s')
  BY <1>5, CleanIs, PureKept DEF ReaderInv
<1>7. CASE main.pc \notin LoopPcs
  BY <1>1, <1>6, <1>7, OutsideClean
<1>8. CASE main.pc \in LoopPcs
  <2>1. ~s.stale => /\ CleanOK(s, main.status)
                    /\ main.pc = "asleep" => s.chip.wire = << >> /\ s.chip.irq = {}
    BY <1>8, CleanIs DEF ReaderInv
  <2>2. Stored(s')
    BY <1>5, StoredNone
  <2>3. ~s'.stale => CleanOK(s', main.status)
    BY <1>5, <2>1, <2>2, CleanKept
  <2> QED
    BY <1>1, <1>5, <1>6, <2>1, <2>3, LoopClean
<1> QED
  BY <1>7, <1>8

\* A detection is requested after one of the long delays: the exchange is over.
LEMMA DetectionClean ==
  ASSUME ReaderInv, LongAfter, NEW d \in Driver,
         d.state = s.state, d.chip = s.chip, KeptAll([s EXCEPT !.work = d.work], d),
         d.user_sem = s.user_sem,
         Asked(d, s', "TAG_DETECTION"), main'.status = main.status,
         main'.pc = main.pc \/ (main.pc = "asleep" /\ main'.pc \in {"wait", "ended"})
  PROVE  CleanInv'
<1>1. s \in Driver /\ LoopOK
  BY Typed DEF ReaderInv, GoesOnInv
<1>2. /\ d.lvl = s.lvl /\ d.tx = s.tx /\ d.tag = s.tag /\ d.collided = s.collided
      /\ d.stale = s.stale /\ d.idx = s.idx /\ d.broken = s.broken
      /\ d.misnamed = s.misnamed /\ d.crossed = s.crossed
  BY <1>1 DEF KeptAll, Kept, Driver
<1>3. /\ s'.chip = s.chip /\ s'.lvl = s.lvl /\ s'.tx = s.tx /\ s'.tag = s.tag
      /\ s'.collided = s.collided /\ s'.stale = s.stale /\ s'.idx = s.idx /\ s'.broken = s.broken
      /\ s'.misnamed = s.misnamed /\ s'.crossed = s.crossed
      /\ (s.state = "IDLE" => s'.state = "TAG_DETECTION" /\ s'.user_sem)
      /\ (s.state # "IDLE" => s'.state = s.state /\ s'.user_sem = s.user_sem)
  BY <1>2 DEF Asked, KeptAll, Kept
<1>4. Pure(s')
  BY <1>3, CleanIs, PureKept DEF ReaderInv
<1>5. CASE main.pc \notin LoopPcs
  <2>1. main'.pc = main.pc
    BY <1>5 DEF LoopPcs
  <2> QED
    BY <1>4, <1>5, <2>1, OutsideClean
<1>6. CASE main.pc \in LoopPcs
  <2>1. SUFFICES ASSUME ~s.stale
                 PROVE  CleanOK(s', main.status) /\ s'.chip.wire = << >> /\ s'.chip.irq = {}
    BY <1>3, <1>4, LoopClean
  <2>2. /\ CleanOK(s, main.status)
        /\ main.pc = "asleep" => s.chip.wire = << >> /\ s.chip.irq = {}
    BY <1>6, <2>1, CleanIs DEF ReaderInv
  <2>3. main.pc \in {"asleep", "wait"} /\ main.status = {} /\ s.chip.wire = << >>
    BY <1>1, <1>6 DEF LoopOK, LongAfter, MainRests, LoopPcs
  <2>4. s.chip.irq = {}
    <3>1. CASE main.pc = "asleep"
      BY <2>2, <3>1
    <3>2. CASE main.pc = "wait"
      <4>1. ~s.chip.sem
        BY <3>2 DEF LongAfter, MainRests
      <4>2. s.chip.irq \ s.chip.mask = {}
        BY <1>1, <1>6, <3>2, <4>1 DEF LoopOK, Pin
      <4>3. s.chip.irq \cap s.chip.mask = {}
        BY <2>2 DEF CleanOK, InOrder
      <4> QED
        BY <4>2, <4>3
    <3> QED
      BY <2>3, <3>1, <3>2
  <2>5. Stored(s) /\ (s.chip.frame.kind = "data" => s.chip.frame.len = s.tx)
    BY <2>2 DEF CleanOK, LevelOnce
  <2>6. Stored(s')
    <3>1. CASE s.state = "IDLE"
      BY <1>3, <2>5, <3>1, StoredNone DEF Stored
    <3>2. CASE s.state # "IDLE"
      BY <1>3, <2>5, <3>2, StoredSame
    <3> QED
      BY <3>1, <3>2
  <2>7. CleanOK(s', {})
    BY <1>3, <2>3, <2>4, <2>5, <2>6, QuietClean
  <2> QED
    BY <1>3, <2>3, <2>4, <2>7
<1> QED
  BY <1>5, <1>6

LEMMA WakeMainClean ==
  ASSUME ReaderInv, WakeMain
  PROVE  CleanInv'
<1>1. /\ main.pc = "asleep" /\ LongAfter /\ s' = st25r3911b_nfca_tag_detect(s)
      /\ main' = [main EXCEPT !.pc = IF s.err # "none" THEN "ended" ELSE "wait"]
  BY DEF WakeMain, Goto
<1>2. s \in Driver /\ main \in MainThread
  BY Typed DEF ReaderInv, GoesOnInv
<1>3. Asked(s, s', "TAG_DETECTION")
  BY <1>1, <1>2, Requests
<1>4. main'.status = main.status /\ main'.pc \in {"wait", "ended"}
  BY <1>1, <1>2 DEF MainThread
<1>5. KeptAll([s EXCEPT !.work = s.work], s)
  BY <1>2 DEF KeptAll, Kept, Driver
<1> QED
  BY <1>1, <1>2, <1>3, <1>4, <1>5, DetectionClean

LEMMA WakeWorkQueueClean ==
  ASSUME ReaderInv, WakeWorkQueue
  PROVE  CleanInv'
<1>1. LongAfter /\ s' = st25r3911b_nfca_tag_detect(s) /\ main' = main
  BY DEF WakeWorkQueue
<1>2. s \in Driver
  BY Typed DEF ReaderInv, GoesOnInv
<1>3. Asked(s, s', "TAG_DETECTION")
  BY <1>1, <1>2, Requests
<1>4. KeptAll([s EXCEPT !.work = s.work], s)
  BY <1>2 DEF KeptAll, Kept, Driver
<1> QED
  BY <1>1, <1>2, <1>3, <1>4, DetectionClean

LEMMA transfer_handlerClean ==
  ASSUME ReaderInv, transfer_handler
  PROVE  CleanInv'
<1> DEFINE d == [s EXCEPT !.work = FALSE]
<1>1. LongAfter /\ s' = st25r3911b_nfca_tag_detect(d) /\ main' = main
  BY DEF transfer_handler
<1>2. s \in Driver
  BY Typed DEF ReaderInv, GoesOnInv
<1>3. d \in Driver /\ d.state = s.state /\ d.chip = s.chip /\ d.user_sem = s.user_sem /\ d.work = FALSE
  BY <1>2 DEF Driver
<1>4. KeptAll([s EXCEPT !.work = FALSE], d)
  BY DEF KeptAll, Kept
<1> HIDE DEF d
<1>5. Asked(d, s', "TAG_DETECTION")
  BY <1>1, <1>3, Requests
<1>6. KeptAll([s EXCEPT !.work = d.work], d)
  BY <1>3, <1>4
<1> QED
  BY <1>1, <1>3, <1>5, <1>6, DetectionClean

\* The end of a transmission: what follows is the answer to the frame, or its absence.
LEMMA SentInterruptClean ==
  ASSUME TypeOK, ChipOK(s.chip), Matches(s), s.chip.wire # << >>, NEW st, CleanOK(s, st),
         NEW k \in 0..3, NEW o, Raised1(k, o), "TXE" \in Head(s.chip.wire).bits,
         Hears(s.chip.frame, k, o), s.chip.frame.kind # "detect" => k = s.tag
  PROVE  CleanOK(s', st)
<1> DEFINE h == Head(s.chip.wire)
           w == o.ev
           f == s.chip.frame
           c == s'.chip
<1>1. /\ Unread(c) = Unread(s.chip) \cup h.bits /\ h.bits = {"TXE"} /\ Wire(s.chip) = {"TXE"}
      /\ "TXE" \notin Wire(c) /\ h.bits \subseteq Enabled(f)
  BY ComingAfter
<1>2. /\ c.irq = s.chip.irq \cup (h.bits \ s.chip.mask) /\ c.mask = s.chip.mask /\ c.wire = w
      /\ c.ans = o.ans /\ c.frame = f /\ c.n = s.chip.n + h.n /\ s'.tag = k
      /\ (s'.collided <=> s.collided \/ "COL" \in h.bits)
      /\ s'.state = s.state /\ s'.lvl = s.lvl /\ s'.idx = s.idx /\ s'.tx = s.tx
      /\ s'.user_sem = s.user_sem /\ s'.broken = s.broken
  BY DEF Raised1
<1>3. InOrder(s, st) /\ Fills(s, st) /\ LevelOnce(s, st) /\ Stored(s) /\ ~s.user_sem
  BY DEF CleanOK
<1>4. s.chip \in Chip /\ s.chip.irq \subseteq Bits /\ s.chip.wire \in Seq(Event)
  BY DEF TypeOK, Driver, Chip
<1>5. h = s.chip.wire[1] /\ 1 \in DOMAIN s.chip.wire
  BY <1>4, DueTail
<1>6. h.n = 0 /\ s.chip.n = 0
  BY <1>1, <1>3, <1>5 DEF Fills
<1>7. c.n = 0
  BY <1>2, <1>6
<1>8. All(s, st) \subseteq {"FWL", "TXE"}
  BY <1>1, <1>3 DEF InOrder
<1>9. s.chip.irq \subseteq {"FWL", "TXE"} /\ st \subseteq {"FWL", "TXE"}
  BY <1>8 DEF All, Raised
<1>10. /\ Raised(s', st) \subseteq {"FWL", "TXE"} /\ All(s', st) \subseteq Due(w) \cup {"FWL", "TXE"}
       /\ Wire(c) = Due(w) /\ Raised(s', st) \subseteq Raised(s, st) \cup {"TXE"}
  BY <1>1, <1>2, <1>9 DEF Raised, All, Wire
<1>11. /\ Orderly(w) /\ ("RXE" \in Due(w) => AnswerTo(f, o.ans, k))
       /\ ("RXE" \in Due(w) /\ f.kind # "data" =>
             \E m \in Sizes(f, o.ans) : Ended(w, IF "COL" \in Due(w) THEN m - 2 ELSE m))
       /\ ("COL" \in Due(w) => f.kind \in {"sdd", "rest"} /\ o.ans.kind = "sdd" /\ ~o.ans.ok)
       /\ ("FWL" \in Due(w) => f.kind = "data")
  BY DEF Hears
<1>12. "TXE" \notin Due(w) /\ w \in Seq(Event)
  BY <1>11 DEF Orderly
<1>13. /\ "RXE" \in All(s', st) => "RXE" \in Due(w)
       /\ "NRE" \in All(s', st) => "NRE" \in Due(w)
       /\ "COL" \in All(s', st) => "COL" \in Due(w)
       /\ "RXS" \in All(s', st) => "RXS" \in Due(w)
       /\ "RXE" \notin Raised(s', st) /\ "NRE" \notin Raised(s', st) /\ "COL" \notin Raised(s', st)
       /\ "RXE" \notin st /\ "NRE" \notin st
  BY <1>9, <1>10
<1>14. InOrder(s', st)
  <2>1. c.irq \cap c.mask = {}
    BY <1>2, <1>3 DEF InOrder
  <2>2. "NRE" \in All(s', st) => {"RXS", "RXE", "COL"} \cap All(s', st) = {}
    BY <1>11, <1>13 DEF Orderly
  <2> QED
    BY <1>2, <1>10, <1>11, <1>12, <1>13, <2>1, <2>2 DEF InOrder, Orderly
<1>15. \A i \in DOMAIN w : w[i].bits = {"RXE"} /\ f.kind # "data" =>
         c.n + w[i].n + (IF "COL" \in Wire(c) THEN 2 ELSE 0) \in Sizes(f, c.ans)
  <2>1. SUFFICES ASSUME NEW i \in DOMAIN w, w[i].bits = {"RXE"}, f.kind # "data"
                 PROVE  0 + w[i].n + (IF "COL" \in Due(w) THEN 2 ELSE 0) \in Sizes(f, c.ans)
    BY <1>7, <1>10
  <2>2. "RXE" \in Due(w)
    BY <1>12, <2>1, DueIs
  <2>3. PICK m \in Sizes(f, o.ans) : w[i].n = IF "COL" \in Due(w) THEN m - 2 ELSE m
    BY <1>11, <2>1, <2>2 DEF Ended
  <2>4. m \in Int
    BY DEF Sizes
  <2>5. 0 + w[i].n + (IF "COL" \in Due(w) THEN 2 ELSE 0) = m
    BY <2>3, <2>4
  <2> QED
    BY <1>2, <2>3, <2>5
<1>16. Fills(s', st)
  <2>1. \A i \in DOMAIN w : w[i].bits \in {{"RXS"}, {"TXE"}} => w[i].n = 0
    BY <1>11, <1>12, DueIs DEF Orderly
  <2>2. \A i \in DOMAIN w : w[i].bits = {"COL"} => w[i].n = 2
    BY <1>11 DEF Orderly
  <2>3. "RXE" \in All(s', st) => AnswerTo(c.frame, c.ans, s'.tag)
    BY <1>2, <1>11, <1>13
  <2>4. "COL" \in All(s', st) => c.frame.kind \in {"sdd", "rest"} /\ c.ans.kind = "sdd" /\ ~c.ans.ok
    BY <1>2, <1>11, <1>13
  <2> QED
    BY <1>2, <1>10, <1>12, <1>13, <1>15, <2>1, <2>2, <2>3, <2>4 DEF Fills
<1>17. LevelOnce(s', st)
  <2>1. "FWL" \in All(s', st) => f.kind = "data"
    <3>1. "FWL" \in All(s', st) => "FWL" \in Due(w) \/ "FWL" \in All(s, st)
      BY <1>10 DEF All
    <3> QED
      BY <1>3, <1>11, <3>1 DEF LevelOnce
  <2>2. s.tx <= ST25R3911B_MAX_FIFO_LEN => "FWL" \notin Raised(s', st) /\ "FWL" \notin st
    <3>1. s.tx <= ST25R3911B_MAX_FIFO_LEN => "FWL" \notin All(s, st)
      BY <1>1, <1>3 DEF LevelOnce
    <3> QED
      BY <1>10, <3>1 DEF All, Raised
  <2>3. f.kind = "data" => f.len = s.tx
    BY <1>3 DEF LevelOnce
  <2> QED
    BY <1>2, <1>10, <1>11, <1>12, <2>1, <2>2, <2>3 DEF LevelOnce, Orderly
<1>18. Stored(s')
  <2>1. CASE s.state # "ANTICOLLISION"
    BY <1>2, <1>3, <2>1 DEF Stored
  <2>2. CASE s.state = "ANTICOLLISION"
    <3>1. f.kind # "detect"
      BY <1>3, <2>2 DEF Matches
    <3> QED
      BY <1>2, <1>3, <3>1, StoredSame
  <2> QED
    BY <2>1, <2>2
<1> QED
  BY <1>2, <1>3, <1>14, <1>16, <1>17, <1>18 DEF CleanOK

\* Any other interrupt: it is raised, and the bytes before it are in the FIFO.
LEMMA OtherInterruptClean ==
  ASSUME TypeOK, ChipOK(s.chip), s.chip.wire # << >>, NEW st, CleanOK(s, st),
         NEW o, Raised1(s.tag, o), "TXE" \notin Head(s.chip.wire).bits,
         o.ev = Tail(s.chip.wire), o.ans = s.chip.ans
  PROVE  CleanOK(s', st)
<1> DEFINE h == Head(s.chip.wire)
           v == s.chip.wire
           w == Tail(s.chip.wire)
           f == s.chip.frame
           c == s'.chip
<1>1. /\ Wire(s.chip) = h.bits \cup Due(w) /\ h.bits \subseteq Enabled(f) /\ f.kind # "none"
  BY ComingAfter
<1>2. /\ c.irq = s.chip.irq \cup (h.bits \ s.chip.mask) /\ c.mask = s.chip.mask /\ c.wire = w
      /\ c.ans = s.chip.ans /\ c.frame = f /\ c.n = s.chip.n + h.n /\ s'.tag = s.tag
      /\ (s'.collided <=> s.collided \/ "COL" \in h.bits)
      /\ s'.state = s.state /\ s'.lvl = s.lvl /\ s'.idx = s.idx /\ s'.tx = s.tx
      /\ s'.user_sem = s.user_sem /\ s'.broken = s.broken
  BY DEF Raised1
<1>3. InOrder(s, st) /\ Fills(s, st) /\ LevelOnce(s, st) /\ Stored(s) /\ ~s.user_sem
  BY DEF CleanOK
<1>4. s.chip \in Chip /\ s.chip.irq \subseteq Bits /\ v \in Seq(Event) /\ s.chip.n \in Nat
  BY DEF TypeOK, Driver, Chip
<1>5. /\ h = v[1] /\ 1 \in DOMAIN v /\ Len(v) \in Nat /\ w \in Seq(Event)
      /\ Len(w) = Len(v) - 1 /\ h.n \in Nat
      /\ \A i \in DOMAIN w : i + 1 \in DOMAIN v /\ w[i] = v[i + 1] /\ i \in Nat \ {0}
      /\ \E b \in Bits : h.bits = {b}
  BY <1>4, DueTail
<1>6. PICK b \in Bits : h.bits = {b}
  BY <1>5
<1>7. b \in {"RXS", "RXE", "COL", "NRE", "FWL"} /\ b \in Enabled(f)
  <2>1. b \in Enabled(f) /\ b # "TXE"
    BY <1>1, <1>6
  <2>2. Enabled(f) \subseteq {"TXE", "RXS", "RXE", "COL", "NRE", "FWL"}
    BY <1>1, EnabledFor DEF ChipOK, Enabled, ReceptionBits
  <2> QED
    BY <2>1, <2>2
<1>8. h.bits \ s.chip.mask = {b}
  BY <1>6, <1>7 DEF ChipOK
<1>9. /\ Raised(s', st) = Raised(s, st) \cup {b} /\ All(s', st) = All(s, st)
      /\ Wire(c) = Due(w) /\ Wire(s.chip) = {b} \cup Due(w) /\ c.irq = s.chip.irq \cup {b}
  BY <1>1, <1>2, <1>6, <1>8 DEF Raised, All, Wire
<1>10. b \in All(s, st) /\ b \in Wire(s.chip)
  BY <1>9 DEF All
<1>11. b \notin Due(w)
  <2>1. SUFFICES ASSUME b \in Due(w) PROVE FALSE
    OBVIOUS
  <2>2. PICK i \in DOMAIN w : w[i].bits = {b}
    BY <1>5, <2>1, DueIs
  <2>3. i + 1 \in DOMAIN v /\ v[i + 1].bits = v[1].bits /\ i \in Nat \ {0}
    BY <1>5, <1>6, <2>2
  <2>4. i + 1 = 1
    BY <1>3, <1>5, <2>3 DEF InOrder
  <2> QED
    BY <2>3, <2>4
<1>12. {"RXE", "NRE"} \cap Raised(s, st) = {} /\ {"RXE", "NRE"} \cap st = {}
  BY <1>3 DEF InOrder, Raised
<1>13. b \in {"RXE", "NRE"} => w = << >> /\ Due(w) = {}
  <2>1. SUFFICES ASSUME b \in {"RXE", "NRE"} PROVE w = << >>
    BY DueEmpty
  <2>2. v[1].bits \in {{"RXE"}, {"NRE"}}
    BY <1>5, <1>6, <2>1
  <2>3. Len(v) = 1
    BY <1>3, <1>5, <2>2 DEF InOrder
  <2> QED
    BY <1>5, <2>3
<1>14. InOrder(s', st)
  <2>1. c.irq \cap c.mask = {}
    BY <1>2, <1>3 DEF InOrder
  <2>2. {"RXE", "NRE"} \cap Raised(s', st) # {} => c.wire = << >>
    BY <1>2, <1>9, <1>12, <1>13
  <2>3. "NRE" \in All(s', st) => {"RXS", "RXE", "COL"} \cap All(s', st) = {}
    BY <1>3, <1>9 DEF InOrder
  <2>4. "TXE" \in Wire(c) => All(s', st) \subseteq {"FWL", "TXE"}
    BY <1>3, <1>9 DEF InOrder
  <2>5. ASSUME NEW i \in DOMAIN w
        PROVE  /\ w[i].bits \in {{"RXE"}, {"NRE"}} => i = Len(w)
               /\ \A j \in DOMAIN w : w[i].bits = w[j].bits => i = j
    <3>1. i + 1 \in DOMAIN v /\ w[i] = v[i + 1] /\ i \in Nat
      BY <1>5
    <3>2. w[i].bits \in {{"RXE"}, {"NRE"}} => i + 1 = Len(v)
      BY <1>3, <3>1 DEF InOrder
    <3>3. w[i].bits \in {{"RXE"}, {"NRE"}} => i = Len(w)
      <4>1. \A n \in Nat : i + 1 = n => i = n - 1
        BY <3>1
      <4> QED
        BY <1>5, <3>2, <4>1
    <3>4. ASSUME NEW j \in DOMAIN w, w[i].bits = w[j].bits PROVE i = j
      <4>1. j + 1 \in DOMAIN v /\ w[j] = v[j + 1] /\ j \in Nat
        BY <1>5
      <4>2. i + 1 = j + 1
        BY <1>3, <3>1, <3>4, <4>1 DEF InOrder
      <4> QED
        BY <3>1, <4>1, <4>2
    <3> QED
      BY <3>3, <3>4
  <2> QED
    BY <1>2, <1>12, <2>1, <2>2, <2>3, <2>4, <2>5 DEF InOrder
<1>15. Fills(s', st)
  <2>1. "RXE" \in All(s', st) => AnswerTo(c.frame, c.ans, s'.tag)
    BY <1>2, <1>3, <1>9 DEF Fills
  <2>2. "RXE" \in Raised(s', st) /\ f.kind # "data" => c.n \in Sizes(f, c.ans)
    <3>1. SUFFICES ASSUME b = "RXE", f.kind # "data" PROVE c.n \in Sizes(f, c.ans)
      BY <1>9, <1>12
    <3>2. "COL" \notin Wire(s.chip)
      BY <1>9, <1>13, <3>1
    <3>3. s.chip.n + v[1].n + (IF "COL" \in Wire(s.chip) THEN 2 ELSE 0) \in Sizes(f, s.chip.ans)
      BY <1>3, <1>5, <1>6, <3>1 DEF Fills
    <3>4. s.chip.n + h.n + 0 \in Sizes(f, s.chip.ans)
      BY <1>5, <3>2, <3>3
    <3> QED
      BY <1>2, <1>4, <1>5, <3>4
  <2>3. ASSUME NEW i \in DOMAIN w, w[i].bits = {"RXE"}, f.kind # "data"
        PROVE  c.n + w[i].n + (IF "COL" \in Wire(c) THEN 2 ELSE 0) \in Sizes(f, c.ans)
    <3>1. i + 1 \in DOMAIN v /\ w[i] = v[i + 1]
      BY <1>5
    <3>2. s.chip.n + w[i].n + (IF "COL" \in Wire(s.chip) THEN 2 ELSE 0) \in Sizes(f, s.chip.ans)
      BY <1>3, <2>3, <3>1 DEF Fills
    <3>3. w[i].n \in Nat /\ "RXE" \in Due(w)
      BY <1>5, <2>3, DueIs
    <3>4. b # "FWL"
      BY <1>3, <1>10, <2>3 DEF LevelOnce
    <3>5. b \notin {"RXE", "NRE"}
      BY <1>13, <3>3
    <3>6. CASE b = "COL"
      <4>1. h.n = 2
        BY <1>3, <1>5, <1>6, <3>6 DEF Fills
      <4>2. "COL" \notin Wire(c) /\ "COL" \in Wire(s.chip)
        BY <1>9, <1>11, <3>6
      <4>3. s.chip.n + w[i].n + 2 \in Sizes(f, s.chip.ans)
        BY <3>2, <4>2
      <4>4. c.n + w[i].n + 0 \in Sizes(f, c.ans)
        <5>1. c.n = s.chip.n + 2
          BY <1>2, <4>1
        <5>2. \A x, y \in Nat : (x + 2) + y + 0 = x + y + 2
          OBVIOUS
        <5> QED
          BY <1>2, <1>4, <3>3, <4>3, <5>1, <5>2, ZenonT(40)
      <4> QED
        BY <4>2, <4>4
    <3>7. CASE b = "RXS"
      <4>1. h.n = 0
        BY <1>3, <1>5, <1>6, <3>7, ZenonT(40) DEF Fills
      <4>2. "COL" \in Wire(c) <=> "COL" \in Wire(s.chip)
        BY <1>9, <3>7
      <4>3. c.n = s.chip.n
        BY <1>2, <1>4, <4>1
      <4> QED
        BY <1>2, <3>2, <4>2, <4>3
    <3> QED
      BY <1>7, <3>4, <3>5, <3>6, <3>7
  <2>4. ASSUME NEW i \in DOMAIN w
        PROVE  /\ w[i].bits = {"COL"} => w[i].n = 2
               /\ w[i].bits \in {{"RXS"}, {"TXE"}} => w[i].n = 0
               /\ w[i].bits = {"FWL"} /\ "TXE" \in Wire(c) => w[i].n = 0
    <3>1. i + 1 \in DOMAIN v /\ w[i] = v[i + 1]
      BY <1>5
    <3>2. "TXE" \in Wire(c) => "TXE" \in Wire(s.chip)
      BY <1>9
    <3> QED
      BY <1>3, <3>1, <3>2 DEF Fills
  <2>5. "TXE" \in Wire(c) => c.n = 0
    <3>1. SUFFICES ASSUME "TXE" \in Wire(c) PROVE c.n = 0
      OBVIOUS
    <3>2. "TXE" \in Wire(s.chip)
      BY <1>9, <3>1
    <3>3. b = "FWL"
      BY <1>3, <1>7, <1>10, <3>2 DEF InOrder
    <3>4. h.n = 0 /\ s.chip.n = 0
      BY <1>3, <1>5, <1>6, <3>2, <3>3 DEF Fills
    <3> QED
      BY <1>2, <3>4
  <2>6. /\ "COL" \in All(s', st) => c.frame.kind \in {"sdd", "rest"} /\ c.ans.kind = "sdd" /\ ~c.ans.ok
        /\ "COL" \in Raised(s', st) => s'.collided
    <3>1. "COL" \in Raised(s', st) => s'.collided
      BY <1>2, <1>3, <1>6, <1>9 DEF Fills
    <3> QED
      BY <1>2, <1>3, <1>9, <3>1 DEF Fills
  <2>7. c.frame = f /\ c.wire = w
    BY <1>2
  <2>8. \A i \in DOMAIN c.wire :
          /\ c.wire[i].bits = {"RXE"} /\ c.frame.kind # "data" =>
               c.n + c.wire[i].n + (IF "COL" \in Wire(c) THEN 2 ELSE 0) \in Sizes(c.frame, c.ans)
          /\ c.wire[i].bits = {"COL"} => c.wire[i].n = 2
          /\ c.wire[i].bits \in {{"RXS"}, {"TXE"}} => c.wire[i].n = 0
          /\ c.wire[i].bits = {"FWL"} /\ "TXE" \in Wire(c) => c.wire[i].n = 0
    BY <2>3, <2>4, <2>7
  <2>9. "RXE" \in Raised(s', st) /\ c.frame.kind # "data" => c.n \in Sizes(c.frame, c.ans)
    BY <2>2, <2>7
  <2> HIDE DEF f, w
  <2> QED
    BY <2>1, <2>5, <2>6, <2>8, <2>9 DEF Fills
<1>16. LevelOnce(s', st)
  <2>1. "FWL" \in All(s', st) => c.frame.kind = "data"
    BY <1>2, <1>3, <1>9 DEF LevelOnce
  <2>2. c.frame.kind = "data" => c.frame.len = s'.tx
    BY <1>2, <1>3 DEF LevelOnce
  <2>3. ASSUME s.tx <= ST25R3911B_MAX_FIFO_LEN
        PROVE  /\ \A i \in DOMAIN w : w[i].bits = {"FWL"} => w[i].n = FIFO_RX_WATER_LVL
               /\ "TXE" \in Wire(c) => "FWL" \notin All(s', st)
               /\ "FWL" \in Raised(s', st) => "FWL" \notin Wire(c) /\ c.n >= FIFO_RX_WATER_LVL
               /\ "FWL" \in st => "FWL" \notin c.irq
    <3>1. /\ \A i \in DOMAIN v : v[i].bits = {"FWL"} => v[i].n = FIFO_RX_WATER_LVL
          /\ "TXE" \in Wire(s.chip) => "FWL" \notin All(s, st)
          /\ "FWL" \in Raised(s, st) => "FWL" \notin Wire(s.chip) /\ s.chip.n >= FIFO_RX_WATER_LVL
          /\ "FWL" \in st => "FWL" \notin s.chip.irq
      BY <1>3, <2>3 DEF LevelOnce
    <3>2. \A i \in DOMAIN w : w[i].bits = {"FWL"} => w[i].n = FIFO_RX_WATER_LVL
      BY <1>5, <3>1, SMTT(30)
    <3>3. "TXE" \in Wire(c) => "FWL" \notin All(s', st)
      BY <1>9, <3>1
    <3>4. "FWL" \in Raised(s, st) => b # "FWL" /\ "FWL" \notin Wire(c) /\ c.n >= FIFO_RX_WATER_LVL
      <4>1. SUFFICES ASSUME "FWL" \in Raised(s, st) PROVE c.n >= FIFO_RX_WATER_LVL
        BY <1>9, <3>1
      <4>2. s.chip.n >= FIFO_RX_WATER_LVL
        BY <3>1, <4>1
      <4> QED
        BY <1>2, <1>4, <1>5, <4>2 DEF FIFO_RX_WATER_LVL
    <3>5. b = "FWL" => "FWL" \notin Wire(c) /\ c.n >= FIFO_RX_WATER_LVL
      <4>1. SUFFICES ASSUME b = "FWL" PROVE c.n >= FIFO_RX_WATER_LVL
        BY <1>9, <1>11
      <4>2. h.n = FIFO_RX_WATER_LVL
        BY <1>5, <1>6, <3>1, <4>1
      <4> QED
        BY <1>2, <1>4, <4>2 DEF FIFO_RX_WATER_LVL
    <3>6. "FWL" \in Raised(s', st) => "FWL" \notin Wire(c) /\ c.n >= FIFO_RX_WATER_LVL
      BY <1>9, <3>4, <3>5
    <3>7. "FWL" \in st => "FWL" \notin c.irq
      BY <1>9, <3>1, <3>4 DEF Raised
    <3> QED
      BY <3>2, <3>3, <3>6, <3>7
  <2> QED
    BY <1>2, <2>1, <2>2, <2>3 DEF LevelOnce
<1>17. Stored(s')
  BY <1>2, <1>3, StoredSame
<1> QED
  BY <1>2, <1>3, <1>14, <1>15, <1>16, <1>17 DEF CleanOK

\* An interrupt is raised.
LEMMA ChipInterruptClean ==
  ASSUME ReaderInv, ChipInterrupt
  PROVE  CleanInv'
<1> DEFINE h == Head(s.chip.wire)
<1>1. TypeOK /\ CleanInv /\ LoopOK
  BY SMTT(30) DEF ReaderInv, GoesOnInv
<1>2. /\ main' = main /\ s.chip.wire # << >>
      /\ \E k \in 0..3 : \E o :
           /\ Raised1(k, o) /\ o.ev \in Seq(Event)
           /\ \/ /\ "TXE" \in h.bits
                 /\ s.chip.frame.kind # "none" => Hears(s.chip.frame, k, o)
                 /\ (s.chip.frame.kind # "detect" => k = s.tag)
              \/ "TXE" \notin h.bits /\ k = s.tag
                 /\ o.ev = Tail(s.chip.wire) /\ o.ans = s.chip.ans
  BY <1>1, InterruptIs
<1>3. PICK k \in 0..3 : \E o :
           /\ Raised1(k, o)
           /\ \/ /\ "TXE" \in h.bits
                 /\ s.chip.frame.kind # "none" => Hears(s.chip.frame, k, o)
                 /\ (s.chip.frame.kind # "detect" => k = s.tag)
              \/ "TXE" \notin h.bits /\ k = s.tag
                 /\ o.ev = Tail(s.chip.wire) /\ o.ans = s.chip.ans
  BY <1>2
<1>4. PICK o :
           /\ Raised1(k, o)
           /\ \/ /\ "TXE" \in h.bits
                 /\ s.chip.frame.kind # "none" => Hears(s.chip.frame, k, o)
                 /\ (s.chip.frame.kind # "detect" => k = s.tag)
              \/ "TXE" \notin h.bits /\ k = s.tag
                 /\ o.ev = Tail(s.chip.wire) /\ o.ans = s.chip.ans
  BY <1>3
<1>5. /\ s'.crossed = s.crossed /\ s'.misnamed = s.misnamed /\ s'.stale = s.stale
      /\ (s.collided => s'.collided) /\ s'.idx = s.idx /\ s'.broken = s.broken
  BY <1>4 DEF Raised1
<1>6. Pure(s')
  BY <1>1, <1>5, CleanIs, PureKept
<1>7. CASE main.pc \notin LoopPcs
  BY <1>2, <1>6, <1>7, OutsideClean
<1>8. CASE main.pc \in LoopPcs
  <2>1. ChipOK(s.chip) /\ Matches(s)
    BY <1>1, <1>8 DEF LoopOK
  <2>2. s.chip.frame.kind # "none"
    BY <1>2, <2>1 DEF ChipOK
  <2>3. ~s.stale => CleanOK(s, main.status) /\ main.pc # "asleep"
    BY <1>1, <1>2, <1>8, CleanIs
  <2>4. ~s'.stale => CleanOK(s', main.status)
    <3>1. CASE "TXE" \in h.bits
      BY <1>1, <1>2, <1>4, <1>5, <2>1, <2>2, <2>3, <3>1, SentInterruptClean
    <3>2. CASE "TXE" \notin h.bits
      BY <1>1, <1>2, <1>4, <1>5, <2>1, <2>3, <3>2, OtherInterruptClean
    <3> QED
      BY <3>1, <3>2
  <2> QED
    BY <1>2, <1>5, <1>6, <2>3, <2>4, LoopClean
<1> QED
  BY <1>7, <1>8

-----------------------------------------------------------------------------
(* What is read belongs to the frame last sent: irq_process().             *)

\* The two stages that only note where the exchange is.
LEMMA NotedIs ==
  ASSUME NEW d \in Driver, NEW st
  PROVE  LET g == OnRxs(OnTxe(d, st), st)
         IN  /\ g \in Driver /\ g.chip = d.chip
             /\ g.state = (IF "TXE" \in st /\ d.state = "SLEEP" THEN "IDLE" ELSE d.state)
             /\ g.lvl = d.lvl /\ g.idx = d.idx /\ g.tx = d.tx /\ g.user_sem = d.user_sem
             /\ g.tag = d.tag /\ g.broken = d.broken /\ g.misnamed = d.misnamed
             /\ g.crossed = d.crossed /\ g.collided = d.collided /\ g.stale = d.stale
             /\ g.slept = d.slept /\ g.err = d.err
<1> DEFINE x == OnTxe(d, st)
           g == OnRxs(x, st)
<1>1. /\ x \in Driver /\ x.chip = d.chip
      /\ x.state = (IF "TXE" \in st /\ d.state = "SLEEP" THEN "IDLE" ELSE d.state)
      /\ x.lvl = d.lvl /\ x.idx = d.idx /\ x.tx = d.tx /\ x.user_sem = d.user_sem
      /\ x.tag = d.tag /\ x.broken = d.broken /\ x.misnamed = d.misnamed
      /\ x.crossed = d.crossed /\ x.collided = d.collided /\ x.stale = d.stale
      /\ x.slept = d.slept /\ x.err = d.err
  <2>1. CASE "TXE" \in st
    BY <2>1 DEF OnTxe, Driver, States, TxRx
  <2>2. CASE "TXE" \notin st
    BY <2>2 DEF OnTxe
  <2> QED
    BY <2>1, <2>2
<1> HIDE DEF x
<1>2. /\ g \in Driver /\ g.chip = x.chip /\ g.state = x.state
      /\ g.lvl = x.lvl /\ g.idx = x.idx /\ g.tx = x.tx /\ g.user_sem = x.user_sem
      /\ g.tag = x.tag /\ g.broken = x.broken /\ g.misnamed = x.misnamed
      /\ g.crossed = x.crossed /\ g.collided = x.collided /\ g.stale = x.stale
      /\ g.slept = x.slept /\ g.err = x.err
  <2>1. CASE "RXS" \in st
    BY <1>1, <2>1 DEF OnRxs, StartsReception, Driver, TxRx
  <2>2. CASE "RXS" \notin st
    BY <1>1, <2>2 DEF OnRxs
  <2> QED
    BY <2>1, <2>2
<1> HIDE DEF g
<1> QED
  BY <1>1, <1>2 DEF g, x

\* Once an interrupt is left over, nothing is noted any more.
Stays(d, e) ==
  /\ e \in Driver
  /\ d.stale => /\ e.stale /\ e.crossed = d.crossed /\ e.misnamed = d.misnamed
                /\ e.collided = d.collided

LEMMA StaysTwice ==
  ASSUME NEW d, NEW e, NEW g, Stays(d, e), Stays(e, g)
  PROVE  Stays(d, g)
  BY DEF Stays

LEMMA RxeStays ==
  ASSUME NEW d \in Driver, NEW st
  PROVE  Stays(d, OnRxe(d, st))
<1>1. CASE "RXE" \notin st
  BY <1>1 DEF OnRxe, Stays
<1>2. CASE "RXE" \in st
  <2> DEFINE g == EndsReception(d)
             e == on_rx_complete(g)
  <2>1. OnRxe(d, st) = e
    BY <1>2 DEF OnRxe
  <2>2. /\ g \in Driver /\ g.state = d.state /\ g.collided = d.collided /\ g.stale = d.stale
        /\ g.misnamed = d.misnamed /\ g.crossed = d.crossed
    BY EndsIs
  <2> HIDE DEF g
  <2>3. CASE g.state = "TAG_DETECTION"
    <3>1. /\ Apart(g, e) /\ Completes(g, e, {"ANTICOLLISION"}) /\ e.misnamed = g.misnamed
          /\ e.crossed <=> g.crossed \/ (~g.stale /\ (g.chip.ans.kind \notin {"sens"} \/ g.chip.n < 1))
      BY <2>2, <2>3, DetectionIs
    <3> HIDE DEF e
    <3>2. g.crossed \in BOOLEAN /\ e.crossed \in BOOLEAN
      BY <2>2, <3>1 DEF Apart, Driver
    <3> QED
      BY <2>1, <2>2, <3>1, <3>2 DEF Apart, Completes, Stays
  <2>4. CASE g.state = "TRANSFER"
    <3>1. /\ e \in Driver /\ e.collided = g.collided /\ Completes(g, e, {"SLEEP"})
          /\ e.misnamed = g.misnamed
          /\ e.crossed <=> g.crossed \/ (~g.stale /\ (g.chip.ans.kind \notin {"data"} \/ g.chip.n < 0))
      BY <2>2, <2>4, TransferIs
    <3> HIDE DEF e
    <3>2. g.crossed \in BOOLEAN /\ e.crossed \in BOOLEAN
      BY <2>2, <3>1 DEF Driver
    <3> QED
      BY <2>1, <2>2, <3>1, <3>2 DEF Completes, Stays
  <2>5. CASE g.state = "ANTICOLLISION"
    <3>1. e = anticollision_rx(g)
      BY <2>5 DEF on_rx_complete
    <3>2. /\ Apart(g, e)
          /\ e.crossed <=> g.crossed \/ (~g.stale /\ (g.chip.ans.kind \notin {"sdd", "sel"} \/ g.chip.n < 1))
          /\ Resolved(g, e, g.chip.ans.kind = "none" \/ g.chip.n = 0)
      BY <2>2, <3>1, ResolutionIs
    <3> HIDE DEF e
    <3>3. g.crossed \in BOOLEAN /\ e.crossed \in BOOLEAN /\ g.misnamed \in BOOLEAN
          /\ e.misnamed \in BOOLEAN
      BY <2>2, <3>2 DEF Apart, Driver
    <3>4. g.stale => e.stale /\ e.misnamed = g.misnamed
      BY <3>2, <3>3 DEF Resolved, Refused, Resends, Completes, Sending
    <3> QED
      BY <2>1, <2>2, <3>2, <3>3, <3>4 DEF Apart, Stays
  <2>6. CASE g.state \notin {"TAG_DETECTION", "TRANSFER", "ANTICOLLISION"}
    <3>1. e = g
      BY <2>6 DEF on_rx_complete
    <3> QED
      BY <2>1, <2>2, <3>1 DEF Stays
  <2> QED
    BY <2>3, <2>4, <2>5, <2>6
<1> QED
  BY <1>1, <1>2

LEMMA ColStays ==
  ASSUME NEW d \in Driver, NEW st
  PROVE  Stays(d, OnCol(d, st))
<1>1. CASE "COL" \notin st
  BY <1>1 DEF OnCol, Stays
<1>2. CASE "COL" \in st
  <2> DEFINE g == Fails(d, "none")
             e == on_collision(g)
  <2>1. OnCol(d, st) = e
    BY <1>2 DEF OnCol
  <2>2. "none" \in Errors
    BY DEF Errors
  <2>3. g \in Driver /\ Kept(d, g) /\ g.misnamed = d.misnamed /\ g.crossed = d.crossed
    BY <2>2, FailsIs
  <2> HIDE DEF g
  <2>4. /\ Apart(g, e) /\ e.crossed = g.crossed
        /\ (Refused(g, e) \/ Resends(g, e, "rest", g.lvl, g.idx))
    BY <2>3, CollisionIs
  <2> HIDE DEF e
  <2> QED
    BY <2>1, <2>3, <2>4 DEF Stays, Apart, Kept, Refused, Resends, Sending
<1> QED
  BY <1>1, <1>2

LEMMA FwlStays ==
  ASSUME NEW d \in Driver, NEW st
  PROVE  Stays(d, OnFwl(d, st))
<1>1. CASE "FWL" \notin st
  BY <1>1 DEF OnFwl, Stays
<1>2. CASE "FWL" \in st
  <2> DEFINE g == Fails(d, "none")
             e == on_fifo_water_lvl(g)
  <2>1. OnFwl(d, st) = e
    BY <1>2 DEF OnFwl
  <2>2. "none" \in Errors
    BY DEF Errors
  <2>3. g \in Driver /\ Kept(d, g) /\ g.misnamed = d.misnamed /\ g.crossed = d.crossed
    BY <2>2, FailsIs
  <2> HIDE DEF g
  <2>4. /\ Apart(g, e) /\ e.stale = g.stale /\ e.misnamed = g.misnamed
        /\ (g.stale => (e.crossed <=> g.crossed))
    BY <2>3, LevelIs
  <2> HIDE DEF e
  <2>5. g.crossed \in BOOLEAN /\ e.crossed \in BOOLEAN
    BY <2>3, <2>4 DEF Apart, Driver
  <2> QED
    BY <2>1, <2>3, <2>4, <2>5 DEF Stays, Apart, Kept
<1> QED
  BY <1>1, <1>2

LEMMA NreStays ==
  ASSUME NEW d \in Driver, NEW st
  PROVE  Stays(d, OnNre(d, st))
<1>1. CASE "NRE" \in st /\ d.txrx # "RX_START"
  BY <1>1, TimeoutIs DEF OnNre, Stays
<1>2. CASE ~("NRE" \in st /\ d.txrx # "RX_START")
  BY <1>2 DEF OnNre, Stays
<1> QED
  BY <1>1, <1>2

LEMMA IrqStays ==
  ASSUME NEW d \in Driver, NEW st
  PROVE  Stays(d, irq_process(d, st))
<1> DEFINE a == OnRxs(OnTxe(d, st), st)
           b == OnRxe(a, st)
           c == OnCol(b, st)
           e == OnFwl(c, st)
<1>1. Stays(d, a) /\ a \in Driver
  BY NotedIs DEF Stays
<1> HIDE DEF a
<1>2. Stays(a, b) /\ b \in Driver
  BY <1>1, RxeStays DEF Stays
<1> HIDE DEF b
<1>3. Stays(b, c) /\ c \in Driver
  BY <1>2, ColStays DEF Stays
<1> HIDE DEF c
<1>4. Stays(c, e) /\ e \in Driver
  BY <1>3, FwlStays DEF Stays
<1> HIDE DEF e
<1>5. Stays(e, OnNre(e, st))
  BY <1>4, NreStays
<1>6. irq_process(d, st) = OnNre(e, st)
  BY DEF irq_process, a, b, c, e
<1> QED
  BY <1>1, <1>2, <1>3, <1>4, <1>5, <1>6, StaysTwice

\* The end of a reception, when no interrupt was left over: the answer is the one
\* to the frame, whole, and the request or the frame that follows finds a quiet chip.
AfterRxe(d, e, st) ==
  /\ e \in Driver /\ Pure(e) /\ ~e.stale /\ e.slept = d.slept /\ e.collided = d.collided
  /\ CleanOK(e, {})
  /\ "FWL" \in st => e.txrx = "RX_COMPLETE"
  /\ "COL" \in st /\ e.state = "ANTICOLLISION" =>
       /\ ~e.user_sem /\ e.chip.frame.kind \in {"sdd", "rest"}
       /\ e.chip.irq = {}

LEMMA RxeFacts ==
  ASSUME NEW d \in Driver, NEW st, "RXE" \in st, CleanOK(d, st)
  PROVE  /\ d.chip.wire = << >> /\ d.chip.irq = {} /\ ~d.user_sem
         /\ AnswerTo(d.chip.frame, d.chip.ans, d.tag)
         /\ d.chip.frame.kind # "data" => d.chip.n \in Sizes(d.chip.frame, d.chip.ans)
         /\ "COL" \in st => /\ d.chip.frame.kind \in {"sdd", "rest"} /\ d.chip.ans.kind = "sdd"
                            /\ ~d.chip.ans.ok /\ d.collided
         /\ "FWL" \in st => d.chip.frame.kind = "data"
         /\ d.chip.frame.kind = "data" => d.chip.frame.len = d.tx
         /\ "NRE" \notin st /\ Stored(d)
<1>1. InOrder(d, st) /\ Fills(d, st) /\ LevelOnce(d, st) /\ Stored(d)
  BY DEF CleanOK
<1>2. "RXE" \in Raised(d, st) /\ "RXE" \in All(d, st)
  BY DEF Raised, All
<1>3. d.chip.wire = << >> /\ d.chip.irq = {} /\ ~d.user_sem
  BY <1>1, <1>2 DEF InOrder, CleanOK
<1>4. /\ AnswerTo(d.chip.frame, d.chip.ans, d.tag)
      /\ d.chip.frame.kind # "data" => d.chip.n \in Sizes(d.chip.frame, d.chip.ans)
  BY <1>1, <1>2 DEF Fills
<1>5. "COL" \in st => /\ d.chip.frame.kind \in {"sdd", "rest"} /\ d.chip.ans.kind = "sdd"
                      /\ ~d.chip.ans.ok /\ d.collided
  BY <1>1 DEF Fills, All, Raised
<1>6. /\ "FWL" \in st => d.chip.frame.kind = "data"
      /\ d.chip.frame.kind = "data" => d.chip.frame.len = d.tx
  BY <1>1 DEF LevelOnce, All, Raised
<1>7. "NRE" \notin st
  <2>1. "NRE" \in st => "NRE" \in All(d, st)
    BY DEF All, Raised
  <2>2. "NRE" \in All(d, st) => "RXE" \notin All(d, st)
    BY <1>1 DEF InOrder
  <2> QED
    BY <1>2, <2>1, <2>2
<1> QED
  BY <1>1, <1>3, <1>4, <1>5, <1>6, <1>7

\* An answer of the collision resolution.
LEMMA ResolutionClean ==
  ASSUME NEW d \in Driver, NEW st, "RXE" \in st, CleanOK(d, st), Pure(d), ~d.stale, Matches(d),
         d.state = "ANTICOLLISION"
  PROVE  AfterRxe(d, anticollision_rx(d), st)
<1> DEFINE e == anticollision_rx(d)
           a == d.chip.ans
           f == d.chip.frame
           n == d.chip.n
<1>1. /\ d.chip.wire = << >> /\ d.chip.irq = {} /\ ~d.user_sem
      /\ AnswerTo(f, a, d.tag) /\ (f.kind # "data" => n \in Sizes(f, a))
      /\ ("COL" \in st => f.kind \in {"sdd", "rest"} /\ a.kind = "sdd" /\ ~a.ok /\ d.collided)
      /\ ("FWL" \in st => f.kind = "data") /\ Stored(d)
  BY RxeFacts
<1>2. f.kind \in {"sdd", "rest", "sel"}
  BY <1>1 DEF Matches
<1>3. "FWL" \notin st /\ n \in Sizes(f, a)
  BY <1>1, <1>2
<1>4. /\ f.kind = "sdd" => n = 5 /\ a.kind = "sdd" /\ f.lvl \in 1..d.tag
                           /\ (a.ok => (a.cascade <=> f.lvl < d.tag))
      /\ f.kind = "sel" => n = 1 /\ a.kind = "sel" /\ f.lvl \in 1..d.tag /\ (a.more <=> f.lvl < d.tag)
      /\ f.kind = "rest" => n \in 1..5 /\ a.kind \in {"sdd", "sel"} /\ (n = 1 <=> a.kind = "sel")
  BY <1>1, <1>3 DEF AnswerTo, Sizes
<1>5. /\ Apart(d, e)
      /\ e.crossed <=> d.crossed \/ (~d.stale /\ (a.kind \notin {"sdd", "sel"} \/ n < 1))
      /\ Resolved(d, e, a.kind = "none" \/ n = 0)
  BY ResolutionIs
<1> SUFFICES AfterRxe(d, e, st)
  OBVIOUS
<1> HIDE DEF e
<1>6. e \in Driver /\ e.slept = d.slept /\ e.collided = d.collided /\ e.tx = d.tx /\ e.tag = d.tag
  BY <1>5 DEF Apart
<1>7. ~e.crossed
  BY <1>2, <1>4, <1>5 DEF Pure
<1>8. ~(a.kind = "none" \/ n = 0)
  BY <1>2, <1>4
<1>9. d.tag \in 0..3 /\ d.lvl \in Nat /\ d.idx \in Nat
  BY DEF Driver
<1>10. ~d.broken => /\ f.lvl = d.lvl /\ f.lvl \in 1..3 /\ f.kind # "rest"
                    /\ f.kind = "sdd" => d.idx = 3 * (f.lvl - 1)
                    /\ f.kind = "sel" => d.idx = 3 * f.lvl + (IF f.lvl < d.tag THEN 0 ELSE 1)
  BY <1>1 DEF Stored
<1>11. ASSUME SameExchange(d.chip, e.chip), Stored(e)
       PROVE  CleanOK(e, {})
  <2>1. e.chip.wire = << >> /\ e.chip.irq = {} /\ e.chip.frame.kind # "data"
    BY <1>1, <1>2, <1>11 DEF SameExchange
  <2> QED
    BY <1>11, <2>1, QuietClean
<1>12. ASSUME NEW kind \in {"sdd", "sel"}, NEW lvl \in Nat, NEW idx, Resends(d, e, kind, lvl, idx),
              "COL" \notin st,
              ~d.broken => /\ lvl \in 1..3 /\ (kind = "sdd" => idx = 3 * (lvl - 1))
                           /\ kind = "sel" => lvl \in 1..d.tag
                                              /\ idx = 3 * lvl + (IF lvl < d.tag THEN 0 ELSE 1)
       PROVE  AfterRxe(d, e, st)
  <2> DEFINE m == [kind |-> kind, len |-> 7, lvl |-> lvl]
  <2>1. m \in Frame /\ m.kind = kind /\ m.len = 7 /\ m.lvl = lvl
    BY DEF Frame
  <2> HIDE DEF m
  <2>2. /\ Sending(d, e, m) /\ e.state = "ANTICOLLISION" /\ ~e.user_sem /\ e.lvl = lvl
        /\ e.idx = idx /\ (e.broken <=> d.broken) /\ e.misnamed = d.misnamed
    BY <1>1, <1>12 DEF Resends, m
  <2>3. e.chip.frame = m /\ ~e.stale
    BY <1>1, <2>2 DEF Sending
  <2>4. Stored(e)
    BY <1>6, <1>12, <2>1, <2>2, <2>3 DEF Stored
  <2>5. ~(m.len > ST25R3911B_MAX_FIFO_LEN) /\ m.kind # "data"
    BY <2>1 DEF ST25R3911B_MAX_FIFO_LEN
  <2>6. CleanOK(e, {})
    BY <1>1, <2>1, <2>2, <2>4, <2>5, SentClean
  <2>7. Pure(e)
    BY <1>6, <1>7, <2>2, <2>3, <2>4, StoredFits DEF Pure
  <2> QED
    BY <1>3, <1>6, <1>12, <2>3, <2>6, <2>7 DEF AfterRxe
<1>13. CASE Refused(d, e)
  <2>1. /\ SameExchange(d.chip, e.chip) /\ e.state = d.state /\ e.user_sem = d.user_sem
        /\ e.lvl = d.lvl /\ e.idx = d.idx /\ e.broken = d.broken /\ e.misnamed = d.misnamed
        /\ e.stale = d.stale
    BY <1>13 DEF Refused
  <2>2. e.chip.frame = f /\ e.chip.irq = {}
    BY <1>1, <2>1 DEF SameExchange
  <2>3. Stored(e)
    BY <1>1, <1>6, <2>1, <2>2, StoredSame
  <2>4. CleanOK(e, {})
    BY <1>11, <2>1, <2>3
  <2>5. Pure(e) /\ ~e.stale
    BY <1>6, <1>7, <2>1, <2>3, StoredFits DEF Pure
  <2> QED
    BY <1>1, <1>3, <1>6, <2>1, <2>2, <2>4, <2>5 DEF AfterRxe
<1>14. CASE n = 1 /\ a.more /\ Resends(d, e, "sdd", d.lvl + 1, d.idx)
  <2>1. (f.kind # "rest" => f.kind = "sel" /\ f.lvl < d.tag) /\ "COL" \notin st
    BY <1>1, <1>2, <1>4, <1>14
  <2>2. d.lvl + 1 \in Nat /\ (~d.broken => d.lvl + 1 \in 1..3)
    <3>1. ~d.broken => f.lvl = d.lvl /\ f.lvl \in 1..3 /\ f.lvl < d.tag
      BY <1>10, <2>1
    <3> QED
      BY <1>9, <3>1
  <2>3. ~d.broken => d.idx = 3 * ((d.lvl + 1) - 1)
    <3>1. SUFFICES ASSUME ~d.broken PROVE d.idx = 3 * ((d.lvl + 1) - 1)
      OBVIOUS
    <3>2. d.idx = 3 * d.lvl + 0
      BY <1>10, <2>1, <3>1
    <3> QED
      BY <1>9, <3>2
  <2> QED
    BY <1>12, <1>14, <2>1, <2>2, <2>3
<1>15. CASE /\ n = 1 /\ ~a.more /\ Completes(d, e, {"TRANSFER", "TAG_DETECTION"}) /\ e.idx = 0
            /\ e.misnamed <=> d.misnamed \/ (~d.broken /\ ~d.stale /\ d.idx # 3 * d.tag + 1)
  <2>1. /\ f.kind # "rest" => f.kind = "sel" /\ f.lvl \in 1..d.tag /\ ~(f.lvl < d.tag)
        /\ "COL" \notin st
    BY <1>1, <1>2, <1>4, <1>15
  <2>2. f.kind # "rest" => f.lvl = d.tag
    BY <1>9, <2>1
  <2>3. ~d.broken => d.idx = 3 * d.tag + 1
    BY <1>10, <2>1, <2>2
  <2>4. ~e.misnamed
    BY <1>15, <2>3 DEF Pure
  <2>5. e.user_sem /\ SameExchange(d.chip, e.chip) /\ ~e.stale
    BY <1>15 DEF Completes
  <2>6. Stored(e)
    BY <1>15, <2>5, StoredNone
  <2>7. CleanOK(e, {})
    BY <1>11, <2>5, <2>6
  <2>8. Pure(e)
    BY <1>6, <1>7, <2>4, <2>5, <2>6, StoredFits DEF Pure
  <2> QED
    BY <1>3, <1>6, <2>1, <2>5, <2>7, <2>8 DEF AfterRxe
<1>16. CASE /\ n # 1 /\ Completes(d, e, {"TAG_DETECTION"})
            /\ e.idx = d.idx /\ e.misnamed = d.misnamed /\ (e.broken <=> d.idx # 0)
  <2>1. /\ e.user_sem /\ SameExchange(d.chip, e.chip) /\ ~e.stale /\ e.state = "TAG_DETECTION"
    BY <1>16 DEF Completes
  <2>2. Stored(e)
    BY <1>16, <2>1, StoredNone
  <2>3. CleanOK(e, {})
    BY <1>11, <2>1, <2>2
  <2>4. Pure(e)
    BY <1>6, <1>7, <1>16, <2>1, <2>2, StoredFits DEF Pure
  <2> QED
    BY <1>3, <1>6, <2>1, <2>3, <2>4 DEF AfterRxe
<1>17. CASE /\ n # 1 /\ (a.kind = "sdd" /\ a.ok)
            /\ Resends(d, e, "sel", d.lvl, d.idx + IF a.kind = "sdd" /\ a.cascade THEN 3 ELSE 4)
  <2> DEFINE j == d.idx + IF a.kind = "sdd" /\ a.cascade THEN 3 ELSE 4
  <2>1. /\ f.kind # "rest" => f.kind = "sdd" /\ f.lvl \in 1..d.tag /\ (a.cascade <=> f.lvl < d.tag)
        /\ "COL" \notin st
    BY <1>1, <1>2, <1>4, <1>17
  <2>2. ASSUME ~d.broken
        PROVE  /\ d.lvl \in 1..3 /\ d.lvl \in 1..d.tag
               /\ j = 3 * d.lvl + (IF d.lvl < d.tag THEN 0 ELSE 1)
    <3>1. f.lvl = d.lvl /\ d.lvl \in 1..3 /\ d.idx = 3 * (d.lvl - 1) /\ f.kind # "rest"
      BY <1>10, <2>1, <2>2
    <3>2. CASE d.lvl < d.tag
      <4>1. j = d.idx + 3
        BY <1>17, <2>1, <3>1, <3>2
      <4>2. j = 3 * d.lvl + 0
        BY <1>9, <3>1, <4>1
      <4> QED
        BY <2>1, <3>1, <3>2, <4>2
    <3>3. CASE ~(d.lvl < d.tag)
      <4>1. j = d.idx + 4
        BY <1>17, <2>1, <3>1, <3>3
      <4>2. j = 3 * d.lvl + 1
        BY <1>9, <3>1, <4>1
      <4> QED
        BY <2>1, <3>1, <3>3, <4>2
    <3> QED
      BY <3>2, <3>3
  <2> HIDE DEF j
  <2>3. Resends(d, e, "sel", d.lvl, j)
    BY <1>17 DEF j
  <2> QED
    BY <1>9, <1>12, <2>1, <2>2, <2>3
<1>18. \/ Refused(d, e)
       \/ n = 1 /\ a.more /\ Resends(d, e, "sdd", d.lvl + 1, d.idx)
       \/ /\ n = 1 /\ ~a.more /\ Completes(d, e, {"TRANSFER", "TAG_DETECTION"}) /\ e.idx = 0
          /\ e.misnamed <=> d.misnamed \/ (~d.broken /\ ~d.stale /\ d.idx # 3 * d.tag + 1)
       \/ /\ n # 1 /\ Completes(d, e, {"TAG_DETECTION"})
          /\ e.idx = d.idx /\ e.misnamed = d.misnamed /\ (e.broken <=> d.idx # 0)
       \/ /\ n # 1 /\ (a.kind = "sdd" /\ a.ok)
          /\ Resends(d, e, "sel", d.lvl, d.idx + IF a.kind = "sdd" /\ a.cascade THEN 3 ELSE 4)
  <2> DEFINE blank == a.kind = "none" \/ n = 0
  <2>1. ~blank /\ Resolved(d, e, blank)
    BY <1>5, <1>8
  <2> HIDE DEF blank
  <2>2. (~blank /\ a.kind = "sdd" /\ a.cascade) <=> (a.kind = "sdd" /\ a.cascade)
    BY <2>1
  <2>3. (IF ~blank /\ a.kind = "sdd" /\ a.cascade THEN 3 ELSE 4)
          = (IF a.kind = "sdd" /\ a.cascade THEN 3 ELSE 4)
    BY <2>2
  <2> QED
    BY <2>1, <2>3 DEF Resolved
<1> QED
  BY <1>13, <1>14, <1>15, <1>16, <1>17, <1>18

\* Every answer.
LEMMA RxeClean ==
  ASSUME NEW d \in Driver, NEW st, "RXE" \in st, CleanOK(d, st), Pure(d), ~d.stale, Matches(d)
  PROVE  AfterRxe(d, OnRxe(d, st), st)
<1> DEFINE g == EndsReception(d)
           e == on_rx_complete(g)
<1>1. OnRxe(d, st) = e
  BY DEF OnRxe
<1>2. /\ g \in Driver /\ g.chip = d.chip /\ g.txrx = "RX_COMPLETE" /\ g.state = d.state
      /\ g.user_sem = d.user_sem /\ g.slept = d.slept /\ g.lvl = d.lvl /\ g.tx = d.tx /\ g.tag = d.tag
      /\ g.collided = d.collided /\ g.stale = d.stale /\ g.idx = d.idx /\ g.broken = d.broken
      /\ g.misnamed = d.misnamed /\ g.crossed = d.crossed
  BY EndsIs
<1> HIDE DEF g
<1>3. Stored(g)
  BY <1>2, StoredSame DEF CleanOK
<1>4. CleanOK(g, st)
  BY <1>2, <1>3, CleanKept
<1>5. Pure(g) /\ ~g.stale /\ Matches(g)
  BY <1>2, PureKept DEF Matches
<1>6. /\ g.chip.wire = << >> /\ g.chip.irq = {} /\ ~g.user_sem
      /\ AnswerTo(g.chip.frame, g.chip.ans, g.tag)
      /\ (g.chip.frame.kind # "data" => g.chip.n \in Sizes(g.chip.frame, g.chip.ans))
      /\ ("COL" \in st => g.chip.frame.kind \in {"sdd", "rest"})
      /\ ("FWL" \in st => g.chip.frame.kind = "data")
      /\ (g.chip.frame.kind = "data" => g.chip.frame.len = g.tx)
  BY <1>2, <1>4, RxeFacts
<1>7. ASSUME NEW x, x \in Driver, SameExchange(g.chip, x.chip), x.stale = g.stale, Pure(x),
             x.slept = g.slept, x.collided = g.collided, x.tx = g.tx, Stored(x),
             "FWL" \in st => x.txrx = "RX_COMPLETE", "COL" \in st => x.state # "ANTICOLLISION"
      PROVE  AfterRxe(d, x, st)
  <2>1. /\ x.chip.wire = << >> /\ x.chip.irq = {}
        /\ (x.chip.frame.kind = "data" => x.chip.frame.len = x.tx)
    BY <1>6, <1>7 DEF SameExchange
  <2>2. CleanOK(x, {})
    BY <1>7, <2>1, QuietClean
  <2> QED
    BY <1>2, <1>5, <1>7, <2>1, <2>2 DEF AfterRxe
<1>8. CASE g.state = "TAG_DETECTION"
  <2>1. /\ Apart(g, e) /\ Completes(g, e, {"ANTICOLLISION"}) /\ e.idx = g.idx
        /\ e.broken = g.broken /\ e.misnamed = g.misnamed
        /\ e.crossed <=> g.crossed \/ (~g.stale /\ (g.chip.ans.kind \notin {"sens"} \/ g.chip.n < 1))
    BY <1>2, <1>8, DetectionIs
  <2> HIDE DEF e
  <2>2. g.chip.frame.kind = "detect"
    BY <1>5, <1>6, <1>8 DEF Matches
  <2>3. g.chip.ans.kind = "sens" /\ g.chip.n = 2 /\ "COL" \notin st /\ "FWL" \notin st
    BY <1>6, <2>2 DEF AnswerTo, Sizes
  <2>4. ~e.crossed
    BY <1>5, <2>1, <2>3 DEF Pure
  <2>5. e.broken \/ e.idx = 0
    BY <1>3, <1>8, <2>1 DEF Stored
  <2>6. /\ e \in Driver /\ e.slept = g.slept /\ e.collided = g.collided /\ e.tx = g.tx
        /\ e.user_sem /\ SameExchange(g.chip, e.chip) /\ e.stale = g.stale
    BY <2>1 DEF Apart, Completes
  <2>8. Stored(e)
    BY <2>1, <2>5, <2>6, StoredNone DEF Completes
  <2>7. Pure(e) /\ Stored(e)
    BY <1>5, <2>1, <2>4, <2>6, <2>8, StoredFits DEF Pure
  <2> QED
    BY <1>1, <1>7, <2>3, <2>6, <2>7
<1>9. CASE g.state = "TRANSFER"
  <2>1. /\ e \in Driver /\ e.slept = g.slept /\ e.tx = g.tx
        /\ e.collided = g.collided /\ Completes(g, e, {"SLEEP"})
        /\ e.idx = g.idx /\ e.broken = g.broken /\ e.misnamed = g.misnamed
        /\ e.txrx = g.txrx
        /\ e.crossed <=> g.crossed \/ (~g.stale /\ (g.chip.ans.kind \notin {"data"} \/ g.chip.n < 0))
    BY <1>2, <1>9, TransferIs
  <2> HIDE DEF e
  <2>2. g.chip.frame.kind = "data"
    BY <1>5, <1>6, <1>9 DEF Matches
  <2>3. g.chip.ans.kind = "data" /\ ~(g.chip.n < 0) /\ "COL" \notin st
    <3>1. g.chip.n \in Nat
      BY <1>2 DEF Driver, Chip
    <3> QED
      BY <1>6, <2>2, <3>1 DEF AnswerTo
  <2>4. ~e.crossed
    BY <1>5, <2>1, <2>3 DEF Pure
  <2>5. e.broken \/ e.idx = 0
    BY <1>3, <1>9, <2>1 DEF Stored
  <2>6. e.user_sem /\ SameExchange(g.chip, e.chip) /\ e.stale = g.stale
    BY <2>1 DEF Completes
  <2>8. Stored(e)
    BY <2>1, <2>5, <2>6, StoredNone DEF Completes
  <2>7. Pure(e) /\ Stored(e)
    BY <1>5, <2>1, <2>4, <2>6, <2>8, StoredFits DEF Pure
  <2> QED
    BY <1>1, <1>2, <1>7, <2>1, <2>3, <2>6, <2>7
<1>10. CASE g.state = "ANTICOLLISION"
  <2>1. e = anticollision_rx(g)
    BY <1>10 DEF on_rx_complete
  <2>2. AfterRxe(g, e, st)
    BY <1>2, <1>4, <1>5, <1>10, <2>1, ResolutionClean
  <2> QED
    BY <1>1, <1>2, <2>2 DEF AfterRxe
<1>11. CASE g.state \notin {"TAG_DETECTION", "TRANSFER", "ANTICOLLISION"}
  <2>1. e = g
    BY <1>11 DEF on_rx_complete
  <2>2. SameExchange(g.chip, g.chip)
    BY DEF SameExchange
  <2>3. AfterRxe(d, g, st)
    BY <1>2, <1>3, <1>5, <1>7, <1>11, <2>2
  <2> QED
    BY <1>1, <2>1, <2>3
<1> QED
  BY <1>8, <1>9, <1>10, <1>11

\* A collision: the frame is sent again on a quiet chip, or an interrupt is left over.
LEMMA ColClean ==
  ASSUME NEW d \in Driver, NEW st, "COL" \in st, Pure(d), ~d.stale, d.collided, Stored(d),
         d.state = "ANTICOLLISION" =>
           /\ ~d.user_sem /\ d.chip.frame.kind \in {"sdd", "rest"}
           /\ d.chip.irq \subseteq Enabled(d.chip.frame)
  PROVE  LET e == OnCol(d, st)
         IN  /\ e \in Driver /\ Pure(e) /\ e.slept = d.slept
             /\ ~e.stale /\ e.err = "none" => CleanOK(e, {})
<1> DEFINE g == Fails(d, "none")
           e == on_collision(g)
<1>1. OnCol(d, st) = e
  BY DEF OnCol
<1>2. "none" \in Errors
  BY DEF Errors
<1>3. /\ g \in Driver /\ g.chip = d.chip /\ Kept(d, g) /\ g.state = d.state
      /\ g.user_sem = d.user_sem /\ g.idx = d.idx /\ g.broken = d.broken
      /\ g.misnamed = d.misnamed /\ g.crossed = d.crossed
  BY <1>2, FailsIs
<1> HIDE DEF g
<1>4. /\ Apart(g, e) /\ e.crossed = g.crossed
      /\ \/ Refused(g, e)
         \/ g.state = "ANTICOLLISION" /\ Resends(g, e, "rest", g.lvl, g.idx)
  BY <1>3, CollisionIs
<1> HIDE DEF e
<1>5. /\ e \in Driver /\ e.slept = d.slept /\ e.collided = d.collided /\ e.tag = d.tag
      /\ e.crossed = d.crossed
  BY <1>3, <1>4 DEF Apart, Kept
<1>6. e.misnamed = d.misnamed /\ e.idx = d.idx /\ (d.broken => e.broken)
  BY <1>3, <1>4 DEF Refused, Resends
<1>7. Pure(e)
  BY <1>5, <1>6 DEF Pure, Fits
<1>8. ~e.stale /\ e.err = "none" => CleanOK(e, {})
  <2>1. SUFFICES ASSUME ~e.stale, g.state = "ANTICOLLISION", Resends(g, e, "rest", g.lvl, g.idx)
                 PROVE  CleanOK(e, {})
    BY <1>4 DEF Refused
  <2> DEFINE m == [kind |-> "rest", len |-> 7, lvl |-> g.lvl]
  <2>2. m \in Frame /\ m.kind = "rest" /\ m.len = 7 /\ m.lvl = d.lvl
    BY <1>3 DEF Frame, Driver, Kept
  <2> HIDE DEF m
  <2>3. /\ Sending(g, e, m) /\ e.state = "ANTICOLLISION" /\ ~e.user_sem /\ e.lvl = d.lvl
        /\ e.broken
    BY <1>3, <2>1 DEF Resends, m, Kept
  <2>4. Enabled(m) = Enabled(d.chip.frame)
    BY <1>3, <2>1, <2>2, EnabledFor
  <2>5. g.chip.irq = {}
    <3>1. g.chip.irq \cap Enabled(m) = {}
      BY <2>1, <2>3 DEF Sending
    <3> QED
      BY <1>3, <2>1, <2>4, <3>1
  <2>6. e.chip.frame = m
    BY <2>3 DEF Sending
  <2>7. Stored(e)
    BY <2>3 DEF Stored
  <2>8. ~(m.len > ST25R3911B_MAX_FIFO_LEN) /\ m.kind # "data"
    BY <2>2 DEF ST25R3911B_MAX_FIFO_LEN
  <2> QED
    BY <2>2, <2>3, <2>5, <2>7, <2>8, SentClean
<1> QED
  BY <1>1, <1>5, <1>7, <1>8

\* The level of the FIFO: the bytes are there, or the frame was longer than it.
LEMMA FwlClean ==
  ASSUME NEW d \in Driver, NEW st, CleanOK(d, st), Pure(d), ~d.stale, "FWL" \in st
  PROVE  LET e == OnFwl(d, st)
         IN  /\ e \in Driver /\ Pure(e) /\ e.slept = d.slept /\ ~e.stale /\ CleanOK(e, {})
             /\ SameExchange(d.chip, e.chip)
<1> DEFINE g == Fails(d, "none")
           e == on_fifo_water_lvl(g)
<1>1. OnFwl(d, st) = e
  BY DEF OnFwl
<1>2. "none" \in Errors
  BY DEF Errors
<1>3. /\ g \in Driver /\ g.chip = d.chip /\ Kept(d, g) /\ g.state = d.state
      /\ g.user_sem = d.user_sem /\ g.idx = d.idx /\ g.broken = d.broken
      /\ g.misnamed = d.misnamed /\ g.crossed = d.crossed
  BY <1>2, FailsIs
<1> HIDE DEF g
<1>4. /\ Apart(g, e) /\ SameExchange(g.chip, e.chip) /\ e.state = g.state
      /\ e.user_sem = g.user_sem /\ e.idx = g.idx /\ e.broken = g.broken
      /\ e.misnamed = g.misnamed /\ e.stale = g.stale /\ e.lvl = g.lvl /\ e.chip.n <= g.chip.n
      /\ e.crossed => g.crossed \/ (/\ ~g.stale /\ g.tx <= ST25R3911B_MAX_FIFO_LEN
                                    /\ g.chip.n < FIFO_RX_WATER_LVL)
  BY <1>3, LevelIs
<1> HIDE DEF e
<1>5. /\ e \in Driver /\ e.slept = d.slept /\ e.collided = d.collided /\ e.tx = d.tx /\ e.tag = d.tag
      /\ SameExchange(d.chip, e.chip) /\ e.state = d.state /\ e.user_sem = d.user_sem
      /\ e.idx = d.idx /\ e.broken = d.broken /\ e.misnamed = d.misnamed /\ e.stale = d.stale
      /\ e.lvl = d.lvl /\ e.chip.n <= d.chip.n
  BY <1>3, <1>4 DEF Apart, Kept
<1>6. d.tx <= ST25R3911B_MAX_FIFO_LEN => ~(d.chip.n < FIFO_RX_WATER_LVL)
  <2>1. "FWL" \in Raised(d, st) /\ d.chip.n \in Nat
    BY DEF Raised, Driver, Chip
  <2>2. d.tx <= ST25R3911B_MAX_FIFO_LEN => d.chip.n >= FIFO_RX_WATER_LVL
    BY <2>1 DEF CleanOK, LevelOnce
  <2> QED
    BY <2>1, <2>2 DEF FIFO_RX_WATER_LVL
<1>7. ~e.crossed
  BY <1>3, <1>4, <1>6 DEF Pure, Kept
<1>8. Pure(e)
  BY <1>5, <1>7 DEF Pure, Fits
<1>9. Stored(e)
  BY <1>5, StoredSame DEF CleanOK, SameExchange
<1>10. CleanOK(e, {})
  BY <1>5, <1>9, CleanLevel
<1> QED
  BY <1>1, <1>5, <1>8, <1>10

\* What main() finds after irq_process().
Found(e) ==
  /\ Pure(e)
  /\ ~e.stale /\ (e.slept \/ e.err = "none") =>
       CleanOK(e, {}) /\ (e.slept => e.chip.wire = << >> /\ e.chip.irq = {})

\* The whole of irq_process().
LEMMA IrqClean ==
  ASSUME NEW d \in Driver, NEW st, ChipOK(d.chip), Matches(d), Pure(d), ~d.slept,
         ~d.stale => CleanOK(d, st)
  PROVE  Found(irq_process(d, st))
<1> DEFINE a == OnRxs(OnTxe(d, st), st)
           b == OnRxe(a, st)
           c == OnCol(b, st)
           e == OnFwl(c, st)
           z == OnNre(e, st)
<1>1. irq_process(d, st) = z
  BY DEF irq_process
<1>2. CASE d.stale
  <2>1. Stays(d, z)
    BY <1>1, IrqStays
  <2> HIDE DEF z
  <2> QED
    BY <1>1, <1>2, <2>1 DEF Stays, Pure, Fits, Found
<1>3. CASE ~d.stale
  <2>1. /\ a \in Driver /\ a.chip = d.chip
        /\ a.state = (IF "TXE" \in st /\ d.state = "SLEEP" THEN "IDLE" ELSE d.state)
        /\ a.lvl = d.lvl /\ a.idx = d.idx /\ a.tx = d.tx /\ a.user_sem = d.user_sem
        /\ a.tag = d.tag /\ a.broken = d.broken /\ a.misnamed = d.misnamed
        /\ a.crossed = d.crossed /\ a.collided = d.collided /\ a.stale = d.stale
        /\ a.slept = d.slept /\ a.err = d.err
    BY NotedIs
  <2> HIDE DEF a
  <2>2. Pure(a) /\ ~a.stale /\ Matches(a) /\ ~a.slept
    BY <1>3, <2>1, PureKept DEF Matches
  <2>3. Stored(a)
    <3>1. Stored(d)
      BY <1>3 DEF CleanOK
    <3>2. CASE a.state = d.state
      BY <2>1, <3>1, <3>2, StoredSame
    <3>3. CASE a.state # d.state
      BY <2>1, <3>1, <3>3, StoredNone DEF Stored
    <3> QED
      BY <3>2, <3>3
  <2>4. CleanOK(a, st)
    BY <1>3, <2>1, <2>3, CleanKept
  <2>5. InOrder(a, st) /\ Fills(a, st) /\ LevelOnce(a, st)
    BY <2>4 DEF CleanOK
  <2>6. CASE "RXE" \in st
    <3>1. AfterRxe(a, b, st)
      BY <2>1, <2>2, <2>4, <2>6, RxeClean
    <3>2. /\ "NRE" \notin st /\ ("COL" \in st => a.chip.frame.kind \in {"sdd", "rest"} /\ a.collided)
          /\ ("FWL" \in st => a.chip.frame.kind = "data")
      BY <2>1, <2>4, <2>6, RxeFacts
    <3> HIDE DEF b
    <3>3. z = e
      BY <3>2 DEF OnNre
    <3>4. /\ b \in Driver /\ Pure(b) /\ ~b.stale /\ ~b.slept /\ b.collided = a.collided
          /\ CleanOK(b, {}) /\ ("FWL" \in st => b.txrx = "RX_COMPLETE")
          /\ ("COL" \in st /\ b.state = "ANTICOLLISION" =>
                ~b.user_sem /\ b.chip.frame.kind \in {"sdd", "rest"} /\ b.chip.irq = {})
      BY <2>2, <3>1 DEF AfterRxe
    <3>5. CASE "COL" \in st
      <4>1. e = c
        BY <3>2, <3>5 DEF OnFwl
      <4>2. b.collided /\ Stored(b)
        BY <3>2, <3>4, <3>5 DEF CleanOK
      <4>3. b.state = "ANTICOLLISION" =>
              /\ ~b.user_sem /\ b.chip.frame.kind \in {"sdd", "rest"}
              /\ b.chip.irq \subseteq Enabled(b.chip.frame)
        BY <3>4, <3>5
      <4>4. /\ c \in Driver /\ Pure(c) /\ c.slept = b.slept
            /\ ~c.stale /\ c.err = "none" => CleanOK(c, {})
        BY <3>4, <3>5, <4>2, <4>3, ColClean
      <4> HIDE DEF c
      <4> QED
        BY <1>1, <3>3, <3>4, <4>1, <4>4 DEF Found
    <3>6. CASE "COL" \notin st /\ "FWL" \in st
      <4> DEFINE x == Fails(b, "none")
      <4>1. c = b
        BY <3>6 DEF OnCol
      <4>2. e = on_fifo_water_lvl(x)
        BY <3>6, <4>1 DEF OnFwl
      <4>3. "none" \in Errors
        BY DEF Errors
      <4>4. /\ x \in Driver /\ Kept(b, x) /\ x.txrx = b.txrx /\ x.misnamed = b.misnamed
            /\ x.crossed = b.crossed /\ x.idx = b.idx /\ x.broken = b.broken
        BY <3>4, <4>3, FailsIs
      <4> HIDE DEF x
      <4>5. x.txrx \notin {"TX_START", "RX_START"}
        BY <3>4, <3>6, <4>4
      <4>6. /\ Apart(x, e) /\ e.stale = x.stale /\ e.misnamed = x.misnamed
            /\ e.err # "none" /\ e.crossed = x.crossed /\ e.idx = x.idx
            /\ e.broken = x.broken
        BY <4>2, <4>4, <4>5, LevelIs
      <4> HIDE DEF e
      <4>7. Pure(e) /\ ~e.slept
        BY <3>4, <4>4, <4>6 DEF Pure, Fits, Kept, Apart
      <4> QED
        BY <1>1, <3>3, <4>6, <4>7 DEF Found
    <3>7. CASE "COL" \notin st /\ "FWL" \notin st
      <4>1. z = b
        BY <3>3, <3>7 DEF OnCol, OnFwl
      <4> QED
        BY <1>1, <3>4, <4>1 DEF Found
    <3> QED
      BY <3>5, <3>6, <3>7
  <2>7. CASE "RXE" \notin st /\ "COL" \in st
    <3>1. b = a
      BY <2>7 DEF OnRxe
    <3>2. a.chip.frame.kind \in {"sdd", "rest"} /\ a.collided
      BY <2>5, <2>7 DEF Fills, All, Raised
    <3>3. "FWL" \notin st
      BY <2>5, <3>2 DEF LevelOnce, All, Raised
    <3>4. "NRE" \notin st
      BY <2>5, <2>7 DEF InOrder, All, Raised
    <3>5. a.chip.irq \subseteq Enabled(a.chip.frame)
      <4>1. a.chip.irq \subseteq Bits
        BY <2>1 DEF Driver, Chip
      <4>2. a.chip.mask = Bits \ Enabled(a.chip.frame)
        BY <2>1 DEF ChipOK
      <4>3. a.chip.irq \cap a.chip.mask = {}
        BY <2>5 DEF InOrder
      <4> QED
        BY <4>1, <4>2, <4>3
    <3>6. ~a.user_sem
      BY <2>4, <2>7 DEF CleanOK
    <3>7. /\ c \in Driver /\ Pure(c) /\ c.slept = a.slept
          /\ ~c.stale /\ c.err = "none" => CleanOK(c, {})
      BY <2>1, <2>2, <2>3, <2>7, <3>1, <3>2, <3>5, <3>6, ColClean
    <3>8. z = c
      BY <3>3, <3>4 DEF OnFwl, OnNre
    <3> HIDE DEF c, z
    <3> QED
      BY <1>1, <2>2, <3>7, <3>8 DEF Found
  <2>8. CASE "RXE" \notin st /\ "COL" \notin st
    <3>1. c = a
      BY <2>8 DEF OnRxe, OnCol
    <3>2. /\ e \in Driver /\ Pure(e) /\ ~e.slept /\ ~e.stale /\ CleanOK(e, {})
          /\ SameExchange(a.chip, e.chip)
      <4>1. CASE "FWL" \in st
        BY <2>1, <2>2, <2>4, <3>1, <4>1, FwlClean
      <4>2. CASE "FWL" \notin st
        <5>1. e = a
          BY <3>1, <4>2 DEF OnFwl
        <5>2. {} \subseteq st /\ SameExchange(a.chip, a.chip)
          BY DEF SameExchange
        <5>3. CleanOK(a, {})
          BY <2>3, <2>4, <5>2, CleanKept
        <5> QED
          BY <2>1, <2>2, <5>1, <5>2, <5>3
      <4> QED
        BY <4>1, <4>2
    <3> HIDE DEF e
    <3>3. CASE "NRE" \in st /\ e.txrx # "RX_START"
      <4>1. z = timeout_process(e)
        BY <3>3 DEF OnNre
      <4> HIDE DEF z
      <4>2. /\ z.state = "IDLE" /\ z.chip = e.chip /\ z.user_sem = e.user_sem /\ z.tx = e.tx
            /\ z.tag = e.tag /\ z.collided = e.collided /\ z.stale = e.stale
            /\ z.crossed = e.crossed /\ z.misnamed = e.misnamed /\ z.idx = e.idx
            /\ (z.broken <=> e.idx # 0)
        BY <3>2, <4>1, TimeoutIs
      <4>3. a.chip.wire = << >> /\ a.chip.irq = {}
        BY <2>5, <3>3 DEF InOrder, Raised
      <4>4. z.chip.wire = << >> /\ z.chip.irq = {}
        BY <3>2, <4>2, <4>3 DEF SameExchange
      <4>5. Stored(z)
        BY <4>2, StoredNone
      <4>6. CleanOK(z, {})
        BY <3>2, <4>2, <4>5, CleanKept
      <4>7. Pure(z)
        BY <3>2, <4>2, PureKept
      <4> QED
        BY <1>1, <4>4, <4>6, <4>7 DEF Found
    <3>4. CASE ~("NRE" \in st /\ e.txrx # "RX_START")
      <4>1. z = e
        BY <3>4 DEF OnNre
      <4> QED
        BY <1>1, <3>2, <4>1 DEF Found
    <3> QED
      BY <3>3, <3>4
  <2> QED
    BY <2>6, <2>7, <2>8
<1> QED
  BY <1>2, <1>3

\* The interrupts are processed.
LEMMA IrqProcessClean ==
  ASSUME ReaderInv, IrqProcess
  PROVE  CleanInv'
<1> DEFINE d == irq_process(s, main.status)
           pc == IF d.slept THEN "asleep" ELSE IF d.err # "none" THEN "ended" ELSE "wait"
<1>1. /\ main.pc = "process" /\ s' = [d EXCEPT !.slept = FALSE]
      /\ main' = [main EXCEPT !.pc = pc, !.poll = {}, !.status = {}, !.cnt = 0]
  BY DEF IrqProcess
<1>2. s \in Driver /\ main \in MainThread /\ ~s.slept
  BY Typed DEF ReaderInv, GoesOnInv
<1>3. ChipOK(s.chip) /\ Matches(s)
  BY <1>1 DEF ReaderInv, GoesOnInv, LoopOK, LoopPcs
<1>4. Pure(s) /\ (~s.stale => CleanOK(s, main.status))
  BY <1>1, CleanIs DEF ReaderInv, LoopPcs
<1>5. Found(d)
  BY <1>2, <1>3, <1>4, IrqClean
<1>6. d \in Driver
  BY <1>2, IrqStays DEF Stays
<1> HIDE DEF d
<1>7. /\ s'.chip = d.chip /\ s'.state = d.state /\ s'.user_sem = d.user_sem /\ s'.lvl = d.lvl
      /\ s'.idx = d.idx /\ s'.tx = d.tx /\ s'.tag = d.tag /\ s'.broken = d.broken
      /\ s'.crossed = d.crossed /\ s'.misnamed = d.misnamed /\ s'.collided = d.collided
      /\ s'.stale = d.stale
  BY <1>1, <1>6 DEF Driver
<1>8. main'.pc = pc /\ main'.status = {}
  BY <1>1, <1>2 DEF MainThread
<1>9. Pure(s')
  BY <1>5, <1>7, PureKept DEF Found
<1>10. CASE pc = "ended"
  BY <1>8, <1>9, <1>10, OutsideClean DEF LoopPcs
<1>11. CASE pc # "ended"
  <2>1. (d.slept \/ d.err = "none") /\ (pc = "asleep" <=> d.slept)
    BY <1>11
  <2>2. ~d.stale => CleanOK(d, {}) /\ (d.slept => d.chip.wire = << >> /\ d.chip.irq = {})
    BY <1>5, <2>1 DEF Found
  <2>3. ~s'.stale => CleanOK(s', {})
    <3>1. SUFFICES ASSUME CleanOK(d, {}) PROVE CleanOK(s', {})
      BY <1>7, <2>2
    <3>2. Stored(s')
      BY <1>7, <3>1, StoredSame DEF CleanOK
    <3> QED
      BY <1>7, <3>1, <3>2, CleanKept
  <2> QED
    BY <1>7, <1>8, <1>9, <2>1, <2>2, <2>3, LoopClean
<1> QED
  BY <1>10, <1>11

\* Every step.
LEMMA NextClean ==
  ASSUME ReaderInv, [Next]_vars
  PROVE  ReaderInv'
<1>1. GoesOnInv'
  BY NextGoes DEF ReaderInv
<1>2. CleanInv'
  <2>1. CASE Next
    BY <2>1, StartCommandClean, CommandAnsweredClean, CommandTimesOutClean, PollClean,
       ProcessUserClean, ProcessIrqClean, IrqReadClean, PinReadClean, IrqProcessClean,
       BusFailsClean, ChipInterruptClean, timeout_handlerClean, WakeMainClean,
       WakeWorkQueueClean, transfer_handlerClean DEF Next
  <2>2. CASE UNCHANGED vars
    BY <2>2 DEF vars, ReaderInv, CleanInv
  <2> QED
    BY <2>1, <2>2
<1> QED
  BY <1>1, <1>2 DEF ReaderInv

-----------------------------------------------------------------------------
(* The inductive invariant of what is read: as long as no interrupt of an  *)
(* earlier frame is left over, what the chip has raised, what it will      *)
(* raise and what main() has read are of the frame last sent, the FIFO     *)
(* holds its answer, and the part of the identifier stored is the one of   *)
(* the cascade level reached.                                              *)
THEOREM ReaderInductive == Spec => []ReaderInv
<1>1. Init => ReaderInv
  BY InitGoes, InitClean DEF ReaderInv
<1>2. ReaderInv /\ [Next]_vars => ReaderInv'
  BY NextClean
<1> QED
  BY <1>1, <1>2, PTL DEF Spec

(* An identifier that anticollision_completed() is called with has all the *)
(* cascade levels of the tag and no more, and nothing is written behind    *)
(* the end of nfcid1, unless a collision resolution was broken off before  *)
(* (nfcid_idx is not reset then), tags have collided in this one (the rest *)
(* of an answer is taken for a whole one), or an interrupt was left over;  *)
(* for tags of every number of levels and every interleaving of the        *)
(* interrupts with the reads of their status.                              *)
THEOREM IdentifiersWhole == Spec => []IdentifierWhole
<1>1. ReaderInv => IdentifierWhole
  <2>1. SUFFICES ASSUME ReaderInv PROVE IdentifierWhole
    OBVIOUS
  <2>2. s \in Driver /\ ~s.misnamed /\ Fits(s)
    BY <2>1, Typed DEF ReaderInv, GoesOnInv, CleanInv
  <2>3. s.idx \in Nat
    BY <2>2 DEF Driver
  <2> QED
    BY <2>2, <2>3 DEF Fits, IdentifierWhole, Overrun, NFCID1_MAX_LEN
<1> QED
  BY <1>1, ReaderInductive, PTL

(* What the driver reads from the FIFO is the answer to the request it     *)
(* serves, and whole, unless an interrupt was left over by an earlier      *)
(* frame, which only a collision can bring about: on_collision() sends the *)
(* next frame of the resolution while the end of the last one is still to  *)
(* be read.                                                                *)
THEOREM AnswersAreTheRequests == Spec => []AnswersMatch
<1>1. ReaderInv => AnswersMatch
  BY DEF ReaderInv, CleanInv, AnswersMatch
<1> QED
  BY <1>1, ReaderInductive, PTL
=============================================================================
