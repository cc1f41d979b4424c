--------------------------- MODULE EsbFifoProofs ----------------------------
(***************************************************************************)
(* Lemmas about the rings of EsbFifo, for every size and counter width:    *)
(* what an operation does to the type of a ring, to the agreement of its   *)
(* cursors with its counter, and to the queue it holds.                    *)
(***************************************************************************)
EXTENDS EsbFifo, TLAPS

\* An unsigned counter stays within its width.
LEMMA ModRange ==
  ASSUME NEW n \in Int
  PROVE  n % CountMod \in 0 .. CountMod - 1
  BY CountModAssumption

LEMMA AdvanceType ==
  ASSUME NEW size \in Nat \ {0}, NEW i \in 0 .. size - 1
  PROVE  Advance(i, size) \in 0 .. size - 1
  BY DEF Advance

LEMMA CounterType ==
  ASSUME NEW n \in 0 .. CountMod - 1
  PROVE  Incr(n) \in 0 .. CountMod - 1 /\ Decr(n) \in 0 .. CountMod - 1
  <1>1. n + 1 \in Int /\ n - 1 \in Int
    BY CountModAssumption
  <1> QED
    BY <1>1, ModRange DEF Incr, Decr

LEMMA ResetType ==
  ASSUME NEW size \in Nat \ {0}, NEW P, NEW f \in Fifos(size, P)
  PROVE  Reset(f) \in Fifos(size, P)
  <1>1. 0 \in 0 .. size - 1 /\ 0 \in 0 .. CountMod - 1
    BY CountModAssumption
  <1> QED
    BY <1>1 DEF Fifos, Reset

LEMMA PushType ==
  ASSUME NEW size \in Nat \ {0}, NEW P, NEW f \in Fifos(size, P), NEW p \in P
  PROVE  Push(f, size, p) \in Fifos(size, P)
  <1>1. Advance(f.back, size) \in 0 .. size - 1
    BY AdvanceType DEF Fifos
  <1>2. Incr(f.count) \in 0 .. CountMod - 1
    BY CounterType DEF Fifos
  <1> QED
    BY <1>1, <1>2 DEF Fifos, Push

LEMMA DropFrontType ==
  ASSUME NEW size \in Nat \ {0}, NEW P, NEW f \in Fifos(size, P)
  PROVE  DropFront(f, size) \in Fifos(size, P)
  <1>1. Advance(f.front, size) \in 0 .. size - 1
    BY AdvanceType DEF Fifos
  <1>2. Decr(f.count) \in 0 .. CountMod - 1
    BY CounterType DEF Fifos
  <1> QED
    BY <1>1, <1>2 DEF Fifos, DropFront

LEMMA DecrPositive ==
  ASSUME NEW n \in 0 .. CountMod - 1, n # 0
  PROVE  Decr(n) = n - 1
  <1>1. n - 1 \in 0 .. CountMod - 1
    BY CountModAssumption
  <1>2. (n - 1) % CountMod = n - 1
    BY <1>1, CountModAssumption
  <1> QED
    BY <1>2 DEF Decr

LEMMA IncrBelow ==
  ASSUME NEW n \in Nat, n + 1 < CountMod
  PROVE  Incr(n) = n + 1
  <1>1. n + 1 \in 0 .. CountMod - 1
    BY CountModAssumption
  <1> QED
    BY <1>1, CountModAssumption DEF Incr

\* The static slots are an empty ring.
LEMMA NewFifoType ==
  ASSUME NEW size \in Nat \ {0}, NEW P, NEW p \in P
  PROVE  NewFifo(size, p) \in Fifos(size, P) /\ RingOK(NewFifo(size, p), size)
  <1>1. 0 \in 0 .. size - 1 /\ 0 \in 0 .. CountMod - 1 /\ 0 % size = 0
    BY CountModAssumption
  <1> QED
    BY <1>1 DEF NewFifo, Fifos, RingOK

LEMMA FrontType ==
  ASSUME NEW size \in Nat \ {0}, NEW P, NEW f \in Fifos(size, P)
  PROVE  FrontOf(f) \in P
  BY DEF FrontOf, Fifos

\* Remainders of the sums a cursor and a count can form.
LEMMA ModTwice ==
  ASSUME NEW size \in Nat \ {0}, NEW x \in 0 .. 2 * size - 1
  PROVE  x % size = IF x < size THEN x ELSE x - size
  <1>1. CASE x < size
    BY <1>1
  <1>2. CASE x >= size
    <2>1. (x - size) \in 0 .. size - 1 /\ x = size * 1 + (x - size)
      BY <1>2
    <2> QED
      BY <1>2, <2>1
  <1> QED
    BY <1>1, <1>2

LEMMA RingReset ==
  ASSUME NEW size \in Nat \ {0}, NEW P, NEW f \in Fifos(size, P)
  PROVE  RingOK(Reset(f), size)
  <1>1. /\ Reset(f).count = 0 /\ Reset(f).back = 0 /\ Reset(f).front = 0
    BY DEF Reset, Fifos
  <1>2. 0 % size = 0
    OBVIOUS
  <1> QED
    BY <1>1, <1>2 DEF RingOK

LEMMA RingPush ==
  ASSUME NEW size \in Nat \ {0}, size < CountMod, NEW P, NEW f \in Fifos(size, P), NEW p,
         RingOK(f, size), f.count < size
  PROVE  RingOK(Push(f, size, p), size)
  <1> DEFINE g == Push(f, size, p)
  <1>1. g.front = f.front /\ g.back = Advance(f.back, size) /\ g.count = Incr(f.count)
    BY DEF Push, Fifos
  <1>2. f.front \in 0 .. size - 1 /\ f.back \in 0 .. size - 1 /\ f.count \in 0 .. size - 1
    BY CountModAssumption DEF Fifos
  <1>3. Incr(f.count) = f.count + 1
    <2>1. f.count + 1 \in 0 .. CountMod - 1
      BY <1>2, CountModAssumption
    <2> QED
      BY <2>1, CountModAssumption DEF Incr
  <1>4. f.back = IF f.front + f.count < size THEN f.front + f.count
                                            ELSE f.front + f.count - size
    <2> DEFINE y == f.front + f.count
    <2>1. y \in 0 .. 2 * size - 1 /\ f.back = y % size
      BY <1>2 DEF RingOK
    <2> HIDE DEF y
    <2>2. y % size = IF y < size THEN y ELSE y - size
      BY <2>1, ModTwice
    <2> QED
      BY <1>2, <2>1, <2>2 DEF y
  <1>5. (f.front + (f.count + 1)) % size =
          IF f.front + (f.count + 1) < size THEN f.front + (f.count + 1)
                                          ELSE f.front + (f.count + 1) - size
    <2> DEFINE y == f.front + (f.count + 1)
    <2>1. y \in 0 .. 2 * size - 1
      BY <1>2
    <2> HIDE DEF y
    <2>2. y % size = IF y < size THEN y ELSE y - size
      BY <2>1, ModTwice
    <2> QED
      BY <1>2, <2>2 DEF y
  <1>6. Advance(f.back, size) = (f.front + (f.count + 1)) % size
    BY <1>2, <1>4, <1>5 DEF Advance
  <1> QED
    BY <1>1, <1>2, <1>3, <1>6 DEF RingOK

LEMMA RingDrop ==
  ASSUME NEW size \in Nat \ {0}, size < CountMod, NEW P, NEW f \in Fifos(size, P),
         RingOK(f, size), f.count # 0
  PROVE  RingOK(DropFront(f, size), size)
  <1> DEFINE g == DropFront(f, size)
  <1>1. g.front = Advance(f.front, size) /\ g.back = f.back /\ g.count = Decr(f.count)
    BY DEF DropFront, Fifos
  <1>2. /\ f.front \in 0 .. size - 1 /\ f.back \in 0 .. size - 1
        /\ f.count \in 1 .. size /\ f.count \in 0 .. CountMod - 1
    BY CountModAssumption DEF Fifos, RingOK
  <1>3. Decr(f.count) = f.count - 1
    BY <1>2, DecrPositive
  <1>4. f.back = IF f.front + f.count < size THEN f.front + f.count
                                            ELSE f.front + f.count - size
    <2> DEFINE y == f.front + f.count
    <2>1. y \in 0 .. 2 * size - 1 /\ f.back = y % size
      BY <1>2 DEF RingOK
    <2> HIDE DEF y
    <2>2. y % size = IF y < size THEN y ELSE y - size
      BY <2>1, ModTwice
    <2> QED
      BY <1>2, <2>1, <2>2 DEF y
  <1> DEFINE a == Advance(f.front, size)
             x == a + (f.count - 1)
  <1>5. a = (IF f.front + 1 >= size THEN 0 ELSE f.front + 1) /\ a \in 0 .. size - 1
    BY <1>2 DEF Advance
  <1>6. x % size = IF x < size THEN x ELSE x - size
    <2>1. x \in 0 .. 2 * size - 1
      BY <1>2, <1>5
    <2> HIDE DEF x
    <2> QED
      BY <2>1, ModTwice
  <1>x. x = a + (f.count - 1)
    OBVIOUS
  <1> HIDE DEF x
  <1>7. x % size = f.back
    <2>1. CASE f.front + 1 >= size
      <3>1. f.front = size - 1 /\ x = f.count - 1
        BY <1>2, <1>5, <1>x, <2>1
      <3>2. f.back = f.count - 1
        BY <1>2, <1>4, <3>1
      <3> QED
        BY <1>2, <1>6, <3>1, <3>2
    <2>2. CASE ~(f.front + 1 >= size)
      <3>1. x = f.front + f.count
        BY <1>2, <1>5, <1>x, <2>2
      <3> QED
        BY <1>2, <1>4, <1>6, <3>1
    <2> QED
      BY <2>1, <2>2
  <1> QED
    BY <1>1, <1>2, <1>3, <1>7, <1>x DEF RingOK

-----------------------------------------------------------------------------
(***************************************************************************)
(* The queue a ring holds: what is pushed comes last, what is dropped was  *)
(* first, and the slot under the front cursor is the first of the queue.   *)
(***************************************************************************)
LEMMA SlotOf ==
  ASSUME NEW size \in Nat \ {0}, NEW a \in 0 .. size - 1, NEW k \in 0 .. size
  PROVE  /\ (a + k) % size = IF a + k < size THEN a + k ELSE a + k - size
         /\ (a + k) % size \in 0 .. size - 1
  <1> DEFINE y == a + k
  <1>1. y \in 0 .. 2 * size - 1
    OBVIOUS
  <1> HIDE DEF y
  <1>2. y % size = IF y < size THEN y ELSE y - size
    BY <1>1, ModTwice
  <1> QED
    BY <1>1, <1>2 DEF y

LEMMA ContentsFront ==
  ASSUME NEW size \in Nat \ {0}, NEW P, NEW f \in Fifos(size, P), f.count # 0
  PROVE  Contents(f, size)[1] = FrontOf(f)
  <1>1. f.front \in 0 .. size - 1 /\ f.count \in Nat /\ 1 \in 1 .. f.count
    BY CountModAssumption DEF Fifos
  <1>2. (f.front + 1 - 1) % size = f.front
    BY <1>1
  <1> QED
    BY <1>1, <1>2 DEF Contents, FrontOf

LEMMA ContentsType ==
  ASSUME NEW size \in Nat \ {0}, NEW P, NEW f \in Fifos(size, P), RingOK(f, size),
         NEW i \in 1 .. f.count
  PROVE  Contents(f, size)[i] \in P
  <1>1. f.front \in 0 .. size - 1 /\ f.count \in 0 .. size /\ i - 1 \in 0 .. size
    BY CountModAssumption DEF Fifos, RingOK
  <1>2. (f.front + (i - 1)) % size \in 0 .. size - 1
    BY <1>1, SlotOf
  <1>3. f.front + i - 1 = f.front + (i - 1)
    BY <1>1
  <1> QED
    BY <1>2, <1>3 DEF Contents, Fifos

LEMMA ContentsPush ==
  ASSUME NEW size \in Nat \ {0}, size < CountMod, NEW P, NEW f \in Fifos(size, P),
         NEW p \in P, RingOK(f, size), f.count < size
  PROVE  /\ Push(f, size, p).count = f.count + 1
         /\ \A i \in 1 .. f.count : Contents(Push(f, size, p), size)[i] = Contents(f, size)[i]
         /\ Contents(Push(f, size, p), size)[f.count + 1] = p
  <1> DEFINE g == Push(f, size, p)
  <1>1. /\ f.front \in 0 .. size - 1 /\ f.count \in 0 .. size - 1
        /\ f.payload \in [0 .. size - 1 -> P]
    BY CountModAssumption DEF Fifos
  <1>2. /\ g.front = f.front /\ g.count = Incr(f.count)
        /\ g.payload = [f.payload EXCEPT ![f.back] = p]
    BY DEF Push, Fifos
  <1>3. g.count = f.count + 1
    <2>1. f.count \in Nat /\ f.count + 1 < CountMod
      BY <1>1, CountModAssumption
    <2> QED
      BY <1>2, <2>1, IncrBelow
  <1>4. /\ f.back = (f.front + f.count) % size /\ f.back \in 0 .. size - 1
        /\ f.back = IF f.front + f.count < size THEN f.front + f.count
                                                ELSE f.front + f.count - size
    <2>1. f.count \in 0 .. size
      BY <1>1
    <2>2. /\ (f.front + f.count) % size \in 0 .. size - 1
          /\ (f.front + f.count) % size =
               IF f.front + f.count < size THEN f.front + f.count
                                           ELSE f.front + f.count - size
      BY <1>1, <2>1, SlotOf
    <2> QED
      BY <2>2 DEF RingOK
  <1>5. ASSUME NEW i \in 1 .. f.count
        PROVE  Contents(g, size)[i] = Contents(f, size)[i]
    <2>1. i - 1 \in 0 .. size /\ i - 1 < f.count /\ f.front + i - 1 = f.front + (i - 1)
      BY <1>1
    <2>2. /\ (f.front + (i - 1)) % size = IF f.front + (i - 1) < size THEN f.front + (i - 1)
                                         ELSE f.front + (i - 1) - size
          /\ (f.front + (i - 1)) % size \in 0 .. size - 1
      BY <1>1, <2>1, SlotOf
    <2>4. (f.front + (i - 1)) % size # f.back
      <3> DEFINE s == (f.front + (i - 1)) % size
      <3>1. s = IF f.front + (i - 1) < size THEN f.front + (i - 1)
                                           ELSE f.front + (i - 1) - size
        BY <2>2
      <3> HIDE DEF s
      <3>2. s # f.back
        BY <1>1, <1>4, <2>1, <3>1, SMTT(30)
      <3> QED
        BY <3>2 DEF s
    <2>5. g.payload[(f.front + (i - 1)) % size] = f.payload[(f.front + (i - 1)) % size]
      BY <1>1, <1>2, <2>2, <2>4
    <2>6. i \in 1 .. g.count
      BY <1>1, <1>3
    <2> QED
      BY <1>2, <2>1, <2>5, <2>6 DEF Contents
  <1>6. Contents(g, size)[f.count + 1] = p
    <2>1. f.count + 1 \in 1 .. g.count /\ f.front + (f.count + 1) - 1 = f.front + f.count
      BY <1>1, <1>3
    <2>2. g.payload[f.back] = p
      BY <1>1, <1>2, <1>4
    <2> QED
      BY <1>2, <1>4, <2>1, <2>2 DEF Contents
  <1> QED
    BY <1>3, <1>5, <1>6

LEMMA ContentsDrop ==
  ASSUME NEW size \in Nat \ {0}, NEW P, NEW f \in Fifos(size, P), RingOK(f, size),
         f.count # 0
  PROVE  /\ DropFront(f, size).count = f.count - 1
         /\ \A i \in 1 .. f.count - 1 :
              Contents(DropFront(f, size), size)[i] = Contents(f, size)[i + 1]
  <1> DEFINE g == DropFront(f, size)
             a == Advance(f.front, size)
  <1>1. /\ f.front \in 0 .. size - 1 /\ f.count \in 1 .. size /\ f.count \in 0 .. CountMod - 1
    BY CountModAssumption DEF Fifos, RingOK
  <1>2. g.front = a /\ g.payload = f.payload /\ g.count = f.count - 1
    BY <1>1, DecrPositive DEF DropFront, Fifos
  <1>3. a = (IF f.front + 1 >= size THEN 0 ELSE f.front + 1) /\ a \in 0 .. size - 1
    BY <1>1 DEF Advance
  <1> HIDE DEF a
  <1>4. ASSUME NEW i \in 1 .. f.count - 1
        PROVE  Contents(g, size)[i] = Contents(f, size)[i + 1]
    <2>1. /\ i \in 0 .. size /\ i - 1 \in 0 .. size /\ i \in 1 .. g.count /\ i + 1 \in 1 .. f.count
          /\ a + i - 1 = a + (i - 1) /\ f.front + (i + 1) - 1 = f.front + i
      BY <1>1, <1>2, <1>3
    <2>2. (a + (i - 1)) % size = IF a + (i - 1) < size THEN a + (i - 1) ELSE a + (i - 1) - size
      BY <1>3, <2>1, SlotOf
    <2>3. (f.front + i) % size = IF f.front + i < size THEN f.front + i ELSE f.front + i - size
      BY <1>1, <2>1, SlotOf
    <2>4. (a + (i - 1)) % size = (f.front + i) % size
      <3> DEFINE s == (a + (i - 1)) % size
                 t == (f.front + i) % size
      <3>1. /\ s = IF a + (i - 1) < size THEN a + (i - 1) ELSE a + (i - 1) - size
            /\ t = IF f.front + i < size THEN f.front + i ELSE f.front + i - size
        BY <2>2, <2>3
      <3> HIDE DEF s, t
      <3>2. s = t
        BY <1>1, <1>3, <2>1, <3>1
      <3> QED
        BY <3>2 DEF s, t
    <2> QED
      BY <1>2, <2>1, <2>4 DEF Contents
  <1> QED
    BY <1>2, <1>4
=============================================================================
