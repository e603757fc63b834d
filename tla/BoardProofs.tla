---------------------------- MODULE BoardProofs -----------------------------
(***************************************************************************)
(* What the board's main loop drives, proved: the receive ring it drains   *)
(* and the device it polls.                                                *)
(*                                                                         *)
(* The ring, for every number of slots, every width of the counters that   *)
(* the slots divide, and frames of any number of parts: no frame is torn,  *)
(* the two actors never share a slot, and the ring implements the bounded  *)
(* queue of RxQueue.                                                       *)
(*                                                                         *)
(* The device, for every set of voltages, colours, bearings and events,    *)
(* and for every length of a flash, a poll and an update: the strip is     *)
(* never left behind by the state, an alarm comes back after a flash, and  *)
(* the power bookkeeping and the battery gauge are sound.                  *)
(***************************************************************************)
EXTENDS RxRing, Device, WellFoundedInduction, TLAPS

-----------------------------------------------------------------------------
(* Remainders. *)

LEMMA DivMod ==
    ASSUME NEW n \in Nat \ {0}, NEW a \in Int
    PROVE  a % n \in 0 .. n-1 /\ a \div n \in Int /\ a = n * (a \div n) + (a % n)
<1>1. a % n \in 0 .. n-1
  OBVIOUS
<1>2. a \div n \in Int
  OBVIOUS
<1>3. a % n = a - n * (a \div n)
  OBVIOUS
<1>4. n * (a \div n) \in Int
  BY <1>2
<1> QED BY <1>1, <1>2, <1>3, <1>4

LEMMA Mult ==
    ASSUME NEW n \in Nat, NEW k \in Int, k >= 1
    PROVE  n * k >= n
OBVIOUS

\* A multiple of n strictly between -n and n is zero.
LEMMA SmallMultiple ==
    ASSUME NEW n \in Nat \ {0}, NEW q \in Int, n * q < n, n * q > -n
    PROVE  q = 0
<1>1. CASE q >= 1
  BY <1>1, Mult
<1>2. CASE q <= -1
  <2>1. n * (-q) >= n
    BY <1>2, Mult
  <2>2. n * (-q) = -(n * q)
    OBVIOUS
  <2> QED BY <2>1, <2>2
<1> QED BY <1>1, <1>2

\* Numbers a multiple of n apart have the same remainder.
LEMMA SameMod ==
    ASSUME NEW n \in Nat \ {0}, NEW a \in Int, NEW b \in Int, NEW k \in Int, a = b + n * k
    PROVE  a % n = b % n
<1> DEFINE p == a \div n
<1> DEFINE q == b \div n
<1> DEFINE d == p - q - k
<1>1. p \in Int /\ a = n * p + (a % n) /\ a % n \in 0 .. n-1
  BY DivMod
<1>2. q \in Int /\ b = n * q + (b % n) /\ b % n \in 0 .. n-1
  BY DivMod
<1>3. d \in Int /\ n * d = n * p - n * q - n * k
  BY <1>1, <1>2
<1>4. n * p \in Int /\ n * q \in Int /\ n * k \in Int /\ n * d \in Int
  BY <1>1, <1>2, <1>3
<1> HIDE DEF p, q, d
<1>5. n * d = (b % n) - (a % n)
  BY <1>1, <1>2, <1>3, <1>4
<1>6. d = 0
  BY <1>1, <1>2, <1>3, <1>5, SmallMultiple
<1>7. n * d = 0
  BY <1>6
<1> QED BY <1>1, <1>2, <1>5, <1>7

\* Numbers less than n apart have different remainders.
LEMMA OtherMod ==
    ASSUME NEW n \in Nat \ {0}, NEW a \in Int, NEW b \in Int, a < b, b - a < n
    PROVE  a % n # b % n
<1> SUFFICES ASSUME a % n = b % n PROVE FALSE
  OBVIOUS
<1> DEFINE p == a \div n
<1> DEFINE q == b \div n
<1> DEFINE d == q - p
<1>1. p \in Int /\ a = n * p + (a % n) /\ a % n \in 0 .. n-1
  BY DivMod
<1>2. q \in Int /\ b = n * q + (b % n) /\ b % n \in 0 .. n-1
  BY DivMod
<1>3. d \in Int /\ n * d = n * q - n * p
  BY <1>1, <1>2
<1>4. n * p \in Int /\ n * q \in Int /\ n * d \in Int
  BY <1>1, <1>2, <1>3
<1> HIDE DEF p, q, d
<1>5. n * d = b - a
  BY <1>1, <1>2, <1>3, <1>4
<1>6. d = 0
  BY <1>3, <1>5, SmallMultiple
<1>7. n * d = 0
  BY <1>6
<1> QED BY <1>5, <1>7

\* The slot of a counter does not depend on how often it has wrapped.
LEMMA WrapSlot ==
    ASSUME NEW a \in Int
    PROVE  (a % Width) % Slots = a % Slots
<1>1. Slots \in Nat \ {0} /\ Width \in Nat \ {0} /\ Width % Slots = 0
  BY RingAssumption
<1> DEFINE m == Width \div Slots
<1> DEFINE q == a \div Width
<1>2. m \in Int /\ Width = Slots * m
  BY <1>1, DivMod
<1>3. q \in Int /\ a = Width * q + (a % Width) /\ a % Width \in 0 .. Width-1
  BY <1>1, DivMod
<1> HIDE DEF m, q
<1>4. /\ Width * q = Slots * (m * q)
      /\ m * q \in Int /\ Width * q \in Int
  <2>1. (Slots * m) * q = Slots * (m * q)
    BY <1>1, <1>2, <1>3
  <2>2. Width * q = (Slots * m) * q
    BY <1>2
  <2>3. m * q \in Int /\ Width * q \in Int
    BY <1>1, <1>2, <1>3
  <2> QED BY <2>1, <2>2, <2>3
<1>5. a = (a % Width) + Slots * (m * q) /\ a % Width \in Int
  BY <1>1, <1>3, <1>4
<1> DEFINE k == m * q
<1> DEFINE r == a % Width
<1>6. k \in Int /\ r \in Int /\ a = r + Slots * k
  BY <1>4, <1>5
<1> HIDE DEF k, r
<1>7. a % Slots = r % Slots
  BY <1>1, <1>6, SameMod
<1> QED BY <1>7 DEF r

-----------------------------------------------------------------------------
(* The counters. *)

\* The slot of the i-th frame held, counted from 0; that of the next frame.
Slot(i) == (totem_rx_tail + i) % Slots

\* The counters and how far apart they are, and what the slots they name are.
LEMMA Counters ==
    ASSUME totem_rx_head \in 0 .. Width-1, totem_rx_tail \in 0 .. Width-1
    PROVE  /\ Used \in 0 .. Width-1
           /\ Used = 0 <=> totem_rx_head = totem_rx_tail
           /\ Index(totem_rx_tail) = Slot(0)
           /\ Index(totem_rx_head) = Slot(Used)
<1>1. Slots \in Nat \ {0} /\ Width \in Nat \ {0}
  BY RingAssumption
<1>2. /\ totem_rx_head >= totem_rx_tail => Used = totem_rx_head - totem_rx_tail
      /\ totem_rx_head < totem_rx_tail => Used = totem_rx_head - totem_rx_tail + Width
  BY <1>1 DEF Used
<1>3. Used \in 0 .. Width-1 /\ (Used = 0 <=> totem_rx_head = totem_rx_tail)
  BY <1>1, <1>2
<1>4. (totem_rx_tail + Used) % Width = totem_rx_head
  BY <1>1, <1>2
<1>5. totem_rx_tail + Used \in Int
  BY <1>3
<1>6. Index(totem_rx_head) = Slot(Used)
  BY <1>4, <1>5, WrapSlot DEF Index, Slot
<1> QED BY <1>3, <1>6 DEF Index, Slot

\* Slots of frames less than a ring apart differ.
LEMMA SlotsDiffer ==
    ASSUME totem_rx_tail \in 0 .. Width-1, NEW i \in Nat, NEW j \in Nat, i < j, j - i < Slots
    PROVE  Slot(i) # Slot(j)
<1>1. Slots \in Nat \ {0} /\ totem_rx_tail \in Int
  BY RingAssumption
<1> DEFINE a == totem_rx_tail + i
<1> DEFINE b == totem_rx_tail + j
<1>2. a \in Int /\ b \in Int /\ a < b /\ b - a < Slots
  BY <1>1
<1>3. Slot(i) = a % Slots /\ Slot(j) = b % Slots
  BY DEF Slot
<1> HIDE DEF a, b
<1> QED BY <1>1, <1>2, <1>3, OtherMod

LEMMA SlotType ==
    ASSUME totem_rx_tail \in 0 .. Width-1, NEW i \in Nat
    PROVE  Slot(i) \in 0 .. Slots-1
BY RingAssumption DEF Slot

\* Publishing a frame into a ring that has room.
LEMMA HeadMoves ==
    ASSUME totem_rx_head \in 0 .. Width-1, totem_rx_tail \in 0 .. Width-1, Used < Slots,
           totem_rx_head' = Inc(totem_rx_head), totem_rx_tail' = totem_rx_tail
    PROVE  /\ totem_rx_head' \in 0 .. Width-1
           /\ Used' = Used + 1
<1>1. Slots \in Nat \ {0} /\ Width \in Nat \ {0} /\ Width > Slots
  BY RingAssumption
<1>2. totem_rx_head' = IF totem_rx_head = Width-1 THEN 0 ELSE totem_rx_head + 1
  BY <1>1 DEF Inc
<1>3. /\ totem_rx_head >= totem_rx_tail => Used = totem_rx_head - totem_rx_tail
      /\ totem_rx_head < totem_rx_tail => Used = totem_rx_head - totem_rx_tail + Width
  BY <1>1 DEF Used
<1>4. Used' = (totem_rx_head' - totem_rx_tail) % Width
  BY DEF Used
<1>5. CASE totem_rx_head = Width-1
  BY <1>1, <1>2, <1>3, <1>4, <1>5
<1>6. CASE totem_rx_head # Width-1
  BY <1>1, <1>2, <1>3, <1>4, <1>6
<1> QED BY <1>5, <1>6

\* Freeing the oldest slot moves every other one a place forward.
LEMMA TailMoves ==
    ASSUME totem_rx_head \in 0 .. Width-1, totem_rx_tail \in 0 .. Width-1, Used > 0,
           totem_rx_tail' = Inc(totem_rx_tail), totem_rx_head' = totem_rx_head
    PROVE  /\ totem_rx_tail' \in 0 .. Width-1
           /\ Used' = Used - 1
           /\ \A i \in Nat : Slot(i)' = Slot(i + 1)
<1>1. Slots \in Nat \ {0} /\ Width \in Nat \ {0} /\ Width > Slots
  BY RingAssumption
<1>2. totem_rx_tail' = IF totem_rx_tail = Width-1 THEN 0 ELSE totem_rx_tail + 1
  BY <1>1 DEF Inc
<1>3. /\ totem_rx_head >= totem_rx_tail => Used = totem_rx_head - totem_rx_tail
      /\ totem_rx_head < totem_rx_tail => Used = totem_rx_head - totem_rx_tail + Width
  BY <1>1 DEF Used
<1>4. Used' = (totem_rx_head - totem_rx_tail') % Width
  BY DEF Used
<1>5. totem_rx_tail' \in 0 .. Width-1 /\ Used' = Used - 1
  <2>1. CASE totem_rx_tail = Width-1
    BY <1>1, <1>2, <1>3, <1>4, <2>1
  <2>2. CASE totem_rx_tail # Width-1
    BY <1>1, <1>2, <1>3, <1>4, <2>2
  <2> QED BY <2>1, <2>2
<1>6. ASSUME NEW i \in Nat PROVE (totem_rx_tail' + i) % Slots = (totem_rx_tail + (i + 1)) % Slots
  <2>1. CASE totem_rx_tail # Width-1
    <3>1. totem_rx_tail' + i = totem_rx_tail + (i + 1)
      BY <1>1, <1>2, <2>1
    <3> QED BY <3>1
  <2>2. CASE totem_rx_tail = Width-1
    <3>1. totem_rx_tail' + i = i /\ totem_rx_tail + (i + 1) = i + Width
      BY <1>1, <1>2, <2>2
    <3> DEFINE m == Width \div Slots
    <3>2. m \in Int /\ Width = Slots * m
      BY <1>1, DivMod, RingAssumption
    <3> DEFINE a == totem_rx_tail + (i + 1)
    <3>3. a \in Int /\ i \in Int /\ a = i + Slots * m
      BY <1>1, <3>1, <3>2
    <3> HIDE DEF m, a
    <3>4. a % Slots = i % Slots
      BY <1>1, <3>2, <3>3, SameMod
    <3> QED BY <3>1, <3>4 DEF a
  <2> QED BY <2>1, <2>2
<1> QED BY <1>5, <1>6 DEF Slot

-----------------------------------------------------------------------------
(* The inductive invariant. *)

\* The ring never holds more than it has slots, and what it holds is whole.
HeldWhole ==
    /\ Used <= Slots
    /\ \A i \in 0 .. Used-1 : Whole(totem_rx[Slot(i)])

\* A valid frame is being written to the slot at head, which is free; the
\* parts that are done are its own.
Filling ==
    push.pc = "store" =>
        /\ Used < Slots /\ push.frame \in Frames \ Invalid
        /\ \A f \in Fields \ push.todo : totem_rx[Index(totem_rx_head)][f] = push.frame

\* A frame that is being looked at is one that was delivered.
Checking == push.pc = "check" => push.frame \in Frames

\* The slot at tail is held while it is copied out, and what is copied is
\* still what it holds.
Copying ==
    pop.pc = "copy" =>
        /\ Used > 0
        /\ \A f \in Fields \ pop.todo : pop.out[f] = totem_rx[Index(totem_rx_tail)][f]

RingInv == RingTypeOK /\ HeldWhole /\ Filling /\ Checking /\ Copying

LEMMA PartIn == Part \in Fields
BY RingAssumption, Zenon DEF Part

\* The slot at head is none of those that hold a frame, as long as one is
\* free.
LEMMA HeadFree ==
    ASSUME RingTypeOK, Used < Slots, NEW i \in 0 .. Used-1
    PROVE  /\ Index(totem_rx_head) # Slot(i)
           /\ Index(totem_rx_head) \in 0 .. Slots-1 /\ Slot(i) \in 0 .. Slots-1
<1>1. totem_rx_head \in 0 .. Width-1 /\ totem_rx_tail \in 0 .. Width-1
  BY DEF RingTypeOK
<1>2. Used \in Nat /\ Index(totem_rx_head) = Slot(Used)
  BY <1>1, Counters, RingAssumption
<1>3. i \in Nat /\ i < Used /\ Used - i < Slots
  BY <1>2, RingAssumption
<1>4. Slot(i) # Slot(Used)
  BY <1>1, <1>2, <1>3, SlotsDiffer
<1>5. Slot(i) \in 0 .. Slots-1 /\ Slot(Used) \in 0 .. Slots-1
  BY <1>1, <1>2, <1>3, SlotType
<1> QED BY <1>2, <1>4, <1>5

\* The two actors never share a slot.
LEMMA InvDisjoint == RingInv => SlotsDisjoint
<1> SUFFICES ASSUME RingInv, push.pc = "store", pop.pc = "copy"
             PROVE  Index(totem_rx_head) # Index(totem_rx_tail)
  BY DEF SlotsDisjoint
<1>1. Used < Slots /\ Used > 0 /\ RingTypeOK
  BY DEF RingInv, Filling, Copying
<1>2. Used \in Nat /\ Index(totem_rx_tail) = Slot(0)
  BY <1>1, Counters, RingAssumption DEF RingTypeOK
<1>3. 0 \in 0 .. Used-1
  BY <1>1, <1>2
<1> QED BY <1>1, <1>2, <1>3, HeadFree

\* What has been copied out is the oldest frame, whole.
LEMMA InvOut ==
    ASSUME RingInv, pop.pc = "copy", pop.todo = {}
    PROVE  pop.out = totem_rx[Slot(0)] /\ Whole(totem_rx[Slot(0)])
<1>1. RingTypeOK /\ Used > 0 /\ \A f \in Fields : pop.out[f] = totem_rx[Index(totem_rx_tail)][f]
  BY DEF RingInv, Copying
<1>2. Used \in Nat /\ Index(totem_rx_tail) = Slot(0) /\ Slot(0) \in 0 .. Slots-1
  BY <1>1, Counters, SlotType, RingAssumption DEF RingTypeOK
<1>3. pop.out \in [Fields -> Frames \cup {NoFrame}]
  BY <1>1 DEF RingTypeOK
<1>4. totem_rx[Slot(0)] \in [Fields -> Frames \cup {NoFrame}]
  BY <1>1, <1>2 DEF RingTypeOK
<1>5. pop.out = totem_rx[Slot(0)]
  BY <1>1, <1>2, <1>3, <1>4
<1>6. 0 \in 0 .. Used-1
  BY <1>1, <1>2
<1> QED BY <1>5, <1>6 DEF RingInv, HeldWhole

LEMMA InvNoTorn == RingInv => NoTornFrame
BY InvOut DEF NoTornFrame

LEMMA InitInv == RingInit => RingInv
<1> SUFFICES ASSUME RingInit PROVE RingInv
  OBVIOUS
<1>1. totem_rx_head = 0 /\ totem_rx_tail = 0 /\ Width \in Nat /\ Width > 0
  BY RingAssumption DEF RingInit
<1>2. Used = 0
  BY <1>1, Counters
<1>3. RingTypeOK
  BY <1>1 DEF RingInit, RingTypeOK, Empty
<1>4. HeldWhole
  BY <1>2, RingAssumption DEF HeldWhole
<1> QED BY <1>3, <1>4 DEF RingInit, RingInv, Filling, Checking, Copying

\* A step that leaves the counters leaves how many frames there are and where.
LEMMA CountersStay ==
    ASSUME UNCHANGED <<totem_rx_head, totem_rx_tail>>
    PROVE  /\ Used' = Used /\ \A i : Slot(i)' = Slot(i)
           /\ Index(totem_rx_head)' = Index(totem_rx_head)
           /\ Index(totem_rx_tail)' = Index(totem_rx_tail)
BY DEF Used, Slot, Index

\* A step that leaves the slots and the counters leaves what is held.
LEMMA HeldStays ==
    ASSUME HeldWhole, UNCHANGED <<totem_rx, totem_rx_head, totem_rx_tail>>
    PROVE  HeldWhole'
<1>1. Used' = Used /\ \A i : Slot(i)' = Slot(i)
  BY CountersStay
<1> QED BY <1>1 DEF HeldWhole

LEMMA PushCallInv ==
    ASSUME RingInv, NEW f \in Frames, PushCall(f)
    PROVE  RingInv'
<1> USE DEF PushCall
<1>1. RingTypeOK'
  BY DEF RingInv, RingTypeOK
<1>2. HeldWhole'
  BY HeldStays DEF RingInv
<1>3. push'.pc = "check" /\ push'.frame = f
  BY DEF RingInv, RingTypeOK
<1>4. Filling' /\ Checking'
  BY <1>3 DEF Filling, Checking
<1>5. Copying'
  BY CountersStay DEF RingInv, Copying
<1> QED BY <1>1, <1>2, <1>4, <1>5 DEF RingInv

LEMMA PushRefuseInv ==
    ASSUME RingInv, PushRefuse
    PROVE  RingInv'
<1> USE DEF PushRefuse
<1>1. RingTypeOK'
  BY DEF RingInv, RingTypeOK
<1>2. HeldWhole'
  BY HeldStays DEF RingInv
<1>3. push'.pc = "idle"
  BY DEF RingInv, RingTypeOK
<1>4. Filling' /\ Checking'
  BY <1>3 DEF Filling, Checking
<1>5. Copying'
  BY CountersStay DEF RingInv, Copying
<1> QED BY <1>1, <1>2, <1>4, <1>5 DEF RingInv

LEMMA PushCheckInv ==
    ASSUME RingInv, PushCheck
    PROVE  RingInv'
<1> USE DEF PushCheck
<1>1. RingTypeOK'
  BY DEF RingInv, RingTypeOK
<1>2. HeldWhole'
  BY HeldStays DEF RingInv
<1>3. Used' = Used /\ Used \in Nat
  BY CountersStay, Counters, RingAssumption DEF RingInv, RingTypeOK
<1>4. Filling' /\ Checking'
  <2>1. CASE Used >= Slots
    <3>1. push'.pc = "full"
      BY <2>1 DEF RingInv, RingTypeOK
    <3> QED BY <3>1 DEF Filling, Checking
  <2>2. CASE ~(Used >= Slots)
    <3>1. push'.pc = "store" /\ push'.todo = Fields /\ push'.frame = push.frame
      BY <2>2 DEF RingInv, RingTypeOK
    <3>2. push.frame \in Frames \ Invalid
      BY DEF RingInv, Checking
    <3>3. Used' < Slots
      BY <1>3, <2>2, RingAssumption
    <3> QED BY <3>1, <3>2, <3>3 DEF Filling, Checking
  <2> QED BY <2>1, <2>2
<1>5. Copying'
  BY CountersStay DEF RingInv, Copying
<1> QED BY <1>1, <1>2, <1>4, <1>5 DEF RingInv

LEMMA PushDropInv ==
    ASSUME RingInv, PushDrop
    PROVE  RingInv'
<1> USE DEF PushDrop
<1>0. Inc(totem_rx_dropped) \in 0 .. Width-1
  BY RingAssumption DEF Inc, RingInv, RingTypeOK
<1>1. RingTypeOK'
  BY <1>0 DEF RingInv, RingTypeOK
<1>2. HeldWhole'
  BY HeldStays DEF RingInv
<1>3. push'.pc = "idle"
  BY DEF RingInv, RingTypeOK
<1>4. Filling' /\ Checking'
  BY <1>3 DEF Filling, Checking
<1>5. Copying'
  BY CountersStay DEF RingInv, Copying
<1> QED BY <1>1, <1>2, <1>4, <1>5 DEF RingInv

\* Writing a part of the slot at head touches none of the frames held.
LEMMA StoreApart ==
    ASSUME RingInv, NEW f \in Fields, PushStore(f)
    PROVE  /\ Used' = Used /\ \A i : Slot(i)' = Slot(i)
           /\ \A i \in 0 .. Used-1 : totem_rx'[Slot(i)] = totem_rx[Slot(i)]
<1>1. Used' = Used /\ \A i : Slot(i)' = Slot(i)
  BY CountersStay DEF PushStore
<1>2. RingTypeOK /\ Used < Slots
  BY DEF RingInv, Filling, PushStore
<1>3. ASSUME NEW i \in 0 .. Used-1 PROVE totem_rx'[Slot(i)] = totem_rx[Slot(i)]
  <2>1. /\ Index(totem_rx_head) # Slot(i)
        /\ Index(totem_rx_head) \in 0 .. Slots-1 /\ Slot(i) \in 0 .. Slots-1
    BY <1>2, HeadFree
  <2> QED BY <2>1, <1>2 DEF PushStore, RingTypeOK
<1> QED BY <1>1, <1>3

LEMMA PushStoreInv ==
    ASSUME RingInv, NEW f \in Fields, PushStore(f)
    PROVE  RingInv'
<1> USE DEF PushStore
<1>0. totem_rx_head \in 0 .. Width-1 /\ totem_rx_tail \in 0 .. Width-1
  BY DEF RingInv, RingTypeOK
<1>1. /\ Used < Slots /\ push.frame \in Frames \ Invalid
      /\ \A x \in Fields \ push.todo : totem_rx[Index(totem_rx_head)][x] = push.frame
  BY DEF RingInv, Filling
<1>2. Used \in Nat /\ Index(totem_rx_head) = Slot(Used) /\ Slot(Used) \in 0 .. Slots-1
  BY <1>0, Counters, SlotType, RingAssumption
<1>3. RingTypeOK'
  BY <1>1, <1>2 DEF RingInv, RingTypeOK
<1>4. HeldWhole'
  BY StoreApart DEF RingInv, HeldWhole
<1>5. push'.pc = "store" /\ push'.frame = push.frame /\ push'.todo = push.todo \ {f}
  BY DEF RingInv, RingTypeOK
<1>6. /\ totem_rx \in [0 .. Slots-1 -> [Fields -> Frames \cup {NoFrame}]]
      /\ totem_rx' = [totem_rx EXCEPT ![Slot(Used)][f] = push.frame]
  BY <1>2 DEF RingInv, RingTypeOK
<1>7. /\ totem_rx'[Slot(Used)][f] = push.frame
      /\ \A x \in Fields : x # f => totem_rx'[Slot(Used)][x] = totem_rx[Slot(Used)][x]
  BY <1>2, <1>6
<1>8. Used' = Used /\ Index(totem_rx_head)' = Slot(Used)
  BY <1>2, CountersStay
<1>9. Filling'
  BY <1>1, <1>2, <1>5, <1>7, <1>8 DEF Filling
<1>10. Checking'
  BY <1>5 DEF Checking
<1>11. Copying'
  <2> SUFFICES ASSUME pop.pc = "copy" PROVE Copying'
    BY DEF Copying
  <2>1. Used > 0 /\ \A x \in Fields \ pop.todo : pop.out[x] = totem_rx[Index(totem_rx_tail)][x]
    BY DEF RingInv, Copying
  <2>2. Index(totem_rx_tail) = Slot(0) /\ 0 \in 0 .. Used-1
    BY <1>0, <1>2, <2>1, Counters
  <2>3. totem_rx'[Slot(0)] = totem_rx[Slot(0)]
    BY <2>2, StoreApart
  <2>4. Index(totem_rx_tail)' = Index(totem_rx_tail)
    BY CountersStay
  <2> QED BY <1>8, <2>1, <2>2, <2>3, <2>4 DEF Copying
<1> QED BY <1>3, <1>4, <1>9, <1>10, <1>11 DEF RingInv

LEMMA PushPublishInv ==
    ASSUME RingInv, PushPublish
    PROVE  RingInv' /\ Used' = Used + 1 /\ \A i : Slot(i)' = Slot(i)
<1> USE DEF PushPublish
<1>0. totem_rx_head \in 0 .. Width-1 /\ totem_rx_tail \in 0 .. Width-1
  BY DEF RingInv, RingTypeOK
<1>1. /\ Used < Slots /\ push.frame \in Frames \ Invalid
      /\ \A x \in Fields : totem_rx[Index(totem_rx_head)][x] = push.frame
  BY DEF RingInv, Filling
<1>2. Used \in Nat /\ Index(totem_rx_head) = Slot(Used) /\ Slot(Used) \in 0 .. Slots-1
  BY <1>0, Counters, SlotType, RingAssumption
<1>3. totem_rx_head' \in 0 .. Width-1 /\ Used' = Used + 1
  BY <1>0, <1>1, HeadMoves
<1>4. RingTypeOK'
  BY <1>3 DEF RingInv, RingTypeOK
<1>5. \A i : Slot(i)' = Slot(i)
  BY DEF Slot
<1>6. Whole(totem_rx[Slot(Used)])
  <2>1. totem_rx[Slot(Used)] \in [Fields -> Frames \cup {NoFrame}]
    BY <1>2 DEF RingInv, RingTypeOK
  <2>2. totem_rx[Slot(Used)] = [x \in Fields |-> push.frame]
    BY <1>1, <1>2, <2>1
  <2> QED BY <1>1, <2>2 DEF Whole
<1>7. HeldWhole'
  <2>1. Used' <= Slots
    BY <1>1, <1>2, <1>3, RingAssumption
  <2>2. ASSUME NEW i \in 0 .. Used'-1 PROVE Whole(totem_rx'[Slot(i)'])
    <3>1. i \in 0 .. Used-1 \/ i = Used
      BY <1>2, <1>3
    <3> QED BY <3>1, <1>5, <1>6 DEF RingInv, HeldWhole
  <2> QED BY <2>1, <2>2 DEF HeldWhole, Whole
<1>8. push'.pc = "idle"
  BY DEF RingInv, RingTypeOK
<1>9. Filling' /\ Checking'
  BY <1>8 DEF Filling, Checking
<1>10. Copying'
  BY <1>2, <1>3 DEF RingInv, Copying, Index
<1> QED BY <1>3, <1>4, <1>5, <1>7, <1>9, <1>10 DEF RingInv

LEMMA PopCheckInv ==
    ASSUME RingInv, PopCheck
    PROVE  RingInv'
<1> USE DEF PopCheck
<1>1. RingTypeOK'
  BY DEF RingInv, RingTypeOK
<1>2. HeldWhole'
  BY HeldStays DEF RingInv
<1>3. Filling' /\ Checking'
  BY CountersStay DEF RingInv, Filling, Checking
<1>4. Used' > 0
  <2>1. Used \in Nat /\ Used # 0
    BY Counters, RingAssumption DEF RingInv, RingTypeOK
  <2> QED BY <2>1, CountersStay
<1>5. pop'.todo = Fields
  BY DEF RingInv, RingTypeOK
<1>6. Copying'
  BY <1>4, <1>5 DEF Copying
<1> QED BY <1>1, <1>2, <1>3, <1>6 DEF RingInv

LEMMA PopCopyInv ==
    ASSUME RingInv, NEW f \in Fields, PopCopy(f)
    PROVE  RingInv'
<1> USE DEF PopCopy
<1>0. Index(totem_rx_tail) \in 0 .. Slots-1
  BY Counters, SlotType DEF RingInv, RingTypeOK
<1>1. totem_rx[Index(totem_rx_tail)][f] \in Frames \cup {NoFrame}
  BY <1>0 DEF RingInv, RingTypeOK
<1>2. RingTypeOK'
  BY <1>1 DEF RingInv, RingTypeOK
<1>3. HeldWhole'
  BY HeldStays DEF RingInv
<1>4. Filling' /\ Checking'
  BY CountersStay DEF RingInv, Filling, Checking
<1>5. /\ pop'.todo = pop.todo \ {f}
      /\ pop'.out = [pop.out EXCEPT ![f] = totem_rx[Index(totem_rx_tail)][f]]
      /\ pop.out \in [Fields -> Frames \cup {NoFrame}]
  BY DEF RingInv, RingTypeOK
<1>6. /\ pop'.out[f] = totem_rx[Index(totem_rx_tail)][f]
      /\ \A x \in Fields : x # f => pop'.out[x] = pop.out[x]
  BY <1>5
<1>7. Copying'
  BY <1>5, <1>6, CountersStay DEF RingInv, Copying
<1> QED BY <1>2, <1>3, <1>4, <1>7 DEF RingInv

LEMMA PopReleaseInv ==
    ASSUME RingInv, PopRelease
    PROVE  RingInv' /\ Used' = Used - 1 /\ \A i \in Nat : Slot(i)' = Slot(i + 1)
<1> USE DEF PopRelease
<1>0. totem_rx_head \in 0 .. Width-1 /\ totem_rx_tail \in 0 .. Width-1
  BY DEF RingInv, RingTypeOK
<1>1. Used > 0 /\ Used \in Nat
  BY <1>0, Counters, RingAssumption DEF RingInv, Copying
<1>2. /\ totem_rx_tail' \in 0 .. Width-1 /\ Used' = Used - 1
      /\ \A i \in Nat : Slot(i)' = Slot(i + 1)
  BY <1>0, <1>1, TailMoves
<1>3. pop.out[Part] \in Frames \cup {NoFrame}
  BY PartIn DEF RingInv, RingTypeOK
<1>4. RingTypeOK'
  BY <1>2, <1>3 DEF RingInv, RingTypeOK
<1>5. HeldWhole'
  <2>1. Used' <= Slots
    BY <1>1, <1>2, RingAssumption DEF RingInv, HeldWhole
  <2>2. ASSUME NEW i \in 0 .. Used'-1 PROVE Whole(totem_rx'[Slot(i)'])
    <3>1. i \in Nat /\ i + 1 \in 0 .. Used-1
      BY <1>1, <1>2
    <3>2. Slot(i)' = Slot(i + 1)
      BY <3>1, <1>2
    <3> QED BY <3>1, <3>2 DEF RingInv, HeldWhole
  <2> QED BY <2>1, <2>2 DEF HeldWhole, Whole
<1>6. Filling' /\ Checking'
  <2>1. push.pc = "store" => Used' < Slots
    BY <1>1, <1>2, RingAssumption DEF RingInv, Filling
  <2> QED BY <2>1 DEF RingInv, Filling, Checking, Index
<1>7. pop'.pc = "idle"
  BY DEF RingInv, RingTypeOK
<1>8. Copying'
  BY <1>7 DEF Copying
<1> QED BY <1>2, <1>4, <1>5, <1>6, <1>8 DEF RingInv

LEMMA StutterInv ==
    ASSUME RingInv, UNCHANGED ringVars
    PROVE  RingInv'
<1> USE DEF ringVars
<1>1. RingTypeOK'
  BY DEF RingInv, RingTypeOK
<1>2. HeldWhole'
  BY HeldStays DEF RingInv
<1>3. Filling' /\ Checking' /\ Copying'
  BY CountersStay DEF RingInv, Filling, Checking, Copying
<1> QED BY <1>1, <1>2, <1>3 DEF RingInv

\* The invariant behind everything else, from any state it holds in.
THEOREM Invariance == RingSpec => []RingInv
<1>1. RingInv /\ [RingNext]_ringVars => RingInv'
  BY PushCallInv, PushRefuseInv, PushCheckInv, PushDropInv, PushStoreInv, PushPublishInv,
     PopCheckInv, PopCopyInv, PopReleaseInv, StutterInv DEF RingNext, WiFiTask, MainLoop
<1> QED BY <1>1, InitInv, PTL DEF RingSpec

\* No frame is torn, nothing unwritten is handed out and the two actors are
\* never in one slot, whatever the interleaving of their memory accesses and
\* however often the counters have wrapped (totem_rx_push, totem_rx_pop).
THEOREM RingSafe == RingSpec => []Safe
<1>1. RingInv => Safe
  BY InvNoTorn, InvDisjoint DEF RingInv, Safe
<1> QED BY <1>1, Invariance, PTL

-----------------------------------------------------------------------------
(* The ring is a queue. *)

\* The contents of a slot that stand for a frame.
Content(i) == totem_rx[Slot(i)][Part]

\* The frames held are a sequence: the slots from tail on.
HeldSeq ==
    /\ Used \in Nat
    /\ Held \in Seq(Frames \cup {NoFrame}) /\ Len(Held) = Used
    /\ \A i \in 1 .. Used : Held[i] = Content(i - 1)

LEMMA HeldIs == RingTypeOK => HeldSeq
<1> SUFFICES ASSUME RingTypeOK PROVE HeldSeq
  OBVIOUS
<1>1. Used \in Nat /\ totem_rx_tail \in Int
  BY Counters, RingAssumption DEF RingTypeOK
<1>2. ASSUME NEW i \in 1 .. Used
      PROVE  /\ Index((totem_rx_tail + i - 1) % Width) = Slot(i - 1)
             /\ totem_rx[Slot(i - 1)][Part] \in Frames \cup {NoFrame}
  <2>1. i - 1 \in Nat /\ totem_rx_tail + i - 1 \in Int
        /\ totem_rx_tail + i - 1 = totem_rx_tail + (i - 1)
    BY <1>1
  <2>2. Index((totem_rx_tail + i - 1) % Width) = (totem_rx_tail + i - 1) % Slots
    BY <2>1, WrapSlot DEF Index
  <2>3. Slot(i - 1) \in 0 .. Slots-1
    BY <2>1, SlotType DEF RingTypeOK
  <2>4. totem_rx[Slot(i - 1)][Part] \in Frames \cup {NoFrame}
    BY <2>3, PartIn DEF RingTypeOK
  <2> QED BY <2>1, <2>2, <2>4 DEF Slot
<1>3. Held = [i \in 1 .. Used |-> Content(i - 1)]
  BY <1>2 DEF Held, Content
<1>4. \A i \in 1 .. Used : Content(i - 1) \in Frames \cup {NoFrame}
  BY <1>2 DEF Content
<1> HIDE DEF Content
<1>5. Held \in [1 .. Used -> Frames \cup {NoFrame}]
  BY <1>3, <1>4
<1>6. Held \in Seq(Frames \cup {NoFrame}) /\ Len(Held) = Used
  BY <1>1, <1>5
<1> QED BY <1>1, <1>3, <1>6 DEF HeldSeq

LEMMA HeldIsNext == RingTypeOK' => HeldSeq'
BY HeldIs, PTL

\* Sequences that agree are equal.
LEMMA SameSeq ==
    ASSUME NEW T, NEW s \in Seq(T), NEW t \in Seq(T), Len(s) = Len(t),
           \A i \in 1 .. Len(s) : s[i] = t[i]
    PROVE  s = t
OBVIOUS

LEMMA AppendIs ==
    ASSUME NEW T, NEW s \in Seq(T), NEW t \in Seq(T), NEW x \in T, Len(t) = Len(s) + 1,
           t[Len(s) + 1] = x, \A i \in 1 .. Len(s) : t[i] = s[i]
    PROVE  t = Append(s, x)
<1>1. Append(s, x) \in Seq(T) /\ Len(Append(s, x)) = Len(s) + 1
  OBVIOUS
<1>2. \A i \in 1 .. Len(s) + 1 : Append(s, x)[i] = t[i]
  OBVIOUS
<1> QED BY <1>1, <1>2, SameSeq

LEMMA TailIs ==
    ASSUME NEW T, NEW s \in Seq(T), NEW t \in Seq(T), Len(s) > 0, Len(t) = Len(s) - 1,
           \A i \in 1 .. Len(t) : t[i] = s[i + 1]
    PROVE  s # << >> /\ Head(s) = s[1] /\ t = Tail(s)
<1>1. s # << >> /\ Head(s) = s[1]
  OBVIOUS
<1>2. Tail(s) \in Seq(T) /\ Len(Tail(s)) = Len(s) - 1
  BY <1>1
<1>3. \A i \in 1 .. Len(t) : Tail(s)[i] = s[i + 1]
  BY <1>1
<1> QED BY <1>1, <1>2, <1>3, SameSeq

\* Steps that leave every frame held where it is leave the queue.
LEMMA HeldSame ==
    ASSUME RingTypeOK, RingTypeOK', Used' = Used, \A i \in 0 .. Used-1 : Content(i)' = Content(i)
    PROVE  Held' = Held
<1>1. HeldSeq /\ HeldSeq'
  BY HeldIs, HeldIsNext
<1>2. /\ Used \in Nat /\ Held \in Seq(Frames \cup {NoFrame}) /\ Len(Held) = Used
      /\ \A i \in 1 .. Used : Held[i] = Content(i - 1)
  BY <1>1 DEF HeldSeq
<1>3. /\ Held' \in Seq(Frames \cup {NoFrame}) /\ Len(Held') = Used
      /\ \A i \in 1 .. Used : Held'[i] = Content(i - 1)'
  BY <1>1 DEF HeldSeq
<1>4. \A i \in 1 .. Used : i - 1 \in 0 .. Used-1
  BY <1>2
<1>5. \A i \in 1 .. Used : Held'[i] = Held[i]
  BY <1>2, <1>3, <1>4
<1> HIDE DEF Content
<1> QED BY <1>2, <1>3, <1>5, SameSeq

\* The mapping of RxRing's Queue, by name.
OfferOf == IF push.pc \in {"check", "store"} /\ push.frame \notin Invalid
           THEN push.frame ELSE NoFrame
LostOf == IF push.pc = "full" THEN Inc(totem_rx_dropped) ELSE totem_rx_dropped

\* A step that leaves the slots and the counters leaves the queue.
LEMMA HeldUntouched ==
    ASSUME UNCHANGED <<totem_rx, totem_rx_head, totem_rx_tail>>
    PROVE  Held' = Held
BY DEF Held, Used, Index

LEMMA InitQueue == RingInit => Queue!Init
<1> SUFFICES ASSUME RingInit PROVE Queue!Init
  OBVIOUS
<1>1. RingTypeOK
  BY InitInv DEF RingInv
<1>2. Used = 0
  BY <1>1, Counters DEF RingInit, RingTypeOK
<1>3. Held = << >>
  <2>1. Held \in Seq(Frames \cup {NoFrame}) /\ Len(Held) = 0
    BY <1>1, <1>2, HeldIs DEF HeldSeq
  <2> QED BY <2>1
<1> QED BY <1>3 DEF RingInit, Queue!Init

\* One step of the ring is one step of the queue, or none.
LEMMA StepQueue ==
    ASSUME RingInv, RingInv', [RingNext]_ringVars
    PROVE  [Queue!Next]_(Queue!vars)
<1>0. RingTypeOK /\ RingTypeOK'
  BY DEF RingInv
<1> DEFINE Stays == OfferOf' = OfferOf /\ Held' = Held /\ taken' = taken /\ LostOf' = LostOf
<1>s. Stays => UNCHANGED Queue!vars
  BY DEF Queue!vars, OfferOf, LostOf
<1>1. ASSUME NEW f \in Frames, PushCall(f) PROVE [Queue!Next]_(Queue!vars)
  <2>1. /\ push.pc = "idle" /\ push'.pc = "check" /\ push'.frame = f
        /\ Held' = Held /\ UNCHANGED <<taken, totem_rx_dropped>>
    BY <1>1, <1>0, HeldUntouched DEF PushCall, RingTypeOK
  <2>2. LostOf' = LostOf
    BY <2>1 DEF LostOf, Inc
  <2>3. CASE f \in Invalid
    <3>1. OfferOf' = OfferOf
      BY <2>1, <2>3 DEF OfferOf
    <3> QED BY <2>1, <2>2, <3>1, <1>s
  <2>4. CASE f \notin Invalid
    <3>1. OfferOf = NoFrame /\ OfferOf' = f
      BY <2>1, <2>4 DEF OfferOf
    <3>2. Queue!Offer(f)
      BY <2>1, <2>2, <3>1 DEF Queue!Offer, OfferOf, LostOf
    <3> QED BY <3>2, <2>4 DEF Queue!Next
  <2> QED BY <2>3, <2>4
<1>2. CASE PushRefuse
  <2>1. /\ push.pc = "check" /\ push.frame \in Invalid /\ push'.pc = "idle"
        /\ Held' = Held /\ UNCHANGED <<taken, totem_rx_dropped>>
    BY <1>2, <1>0, HeldUntouched DEF PushRefuse, RingTypeOK
  <2>2. LostOf' = LostOf /\ OfferOf' = OfferOf
    BY <2>1 DEF LostOf, OfferOf, Inc
  <2> QED BY <2>1, <2>2, <1>s
<1>3. CASE PushCheck
  <2>1. /\ push.pc = "check" /\ push.frame \notin Invalid
        /\ Held' = Held /\ UNCHANGED <<taken, totem_rx_dropped>>
    BY <1>3, HeldUntouched DEF PushCheck
  <2>2. CASE Used >= Slots
    <3>1. push'.pc = "full"
      BY <1>3, <1>0, <2>2 DEF PushCheck, RingTypeOK
    <3>2. Len(Held) = Slots
      <4>1. Used <= Slots /\ Used \in Nat /\ Len(Held) = Used
        BY <1>0, HeldIs DEF RingInv, HeldWhole, HeldSeq
      <4> QED BY <4>1, <2>2, RingAssumption
    <3>3. OfferOf # NoFrame /\ OfferOf' = NoFrame
      BY <2>1, <3>1, RingAssumption DEF OfferOf, RingInv, Checking
    <3>4. LostOf' = (LostOf + 1) % Width
      BY <2>1, <3>1 DEF LostOf, Inc
    <3>5. Queue!Lose
      BY <2>1, <3>2, <3>3, <3>4 DEF Queue!Lose, OfferOf, LostOf
    <3> QED BY <3>5 DEF Queue!Next
  <2>3. CASE ~(Used >= Slots)
    <3>1. push'.pc = "store" /\ push'.frame = push.frame
      BY <1>3, <1>0, <2>3 DEF PushCheck, RingTypeOK
    <3>2. LostOf' = LostOf /\ OfferOf' = OfferOf
      BY <2>1, <3>1 DEF LostOf, OfferOf, Inc
    <3> QED BY <2>1, <3>2, <1>s
  <2> QED BY <2>2, <2>3
<1>4. CASE PushDrop
  <2>1. /\ push.pc = "full" /\ push'.pc = "idle" /\ totem_rx_dropped' = Inc(totem_rx_dropped)
        /\ Held' = Held /\ taken' = taken
    BY <1>4, <1>0, HeldUntouched DEF PushDrop, RingTypeOK
  <2>2. LostOf' = LostOf /\ OfferOf' = OfferOf
    BY <2>1 DEF LostOf, OfferOf
  <2> QED BY <2>1, <2>2, <1>s
<1>5. ASSUME NEW f \in Fields, PushStore(f) PROVE [Queue!Next]_(Queue!vars)
  <2>1. /\ push.pc = "store" /\ push'.pc = "store" /\ push'.frame = push.frame
        /\ UNCHANGED <<taken, totem_rx_dropped>>
    BY <1>5, <1>0 DEF PushStore, RingTypeOK
  <2>2. LostOf' = LostOf /\ OfferOf' = OfferOf
    BY <2>1 DEF LostOf, OfferOf, Inc
  <2>3. /\ Used' = Used /\ \A i : Slot(i)' = Slot(i)
        /\ \A i \in 0 .. Used-1 : totem_rx'[Slot(i)] = totem_rx[Slot(i)]
    BY <1>5, StoreApart
  <2>4. \A i \in 0 .. Used-1 : Content(i)' = Content(i)
    BY <2>3 DEF Content
  <2>5. Held' = Held
    BY <1>0, <2>3, <2>4, HeldSame
  <2> QED BY <2>1, <2>2, <2>5, <1>s
<1>6. CASE PushPublish
  <2>1. /\ push.pc = "store" /\ push'.pc = "idle"
        /\ UNCHANGED <<totem_rx, taken, totem_rx_dropped>>
    BY <1>6, <1>0 DEF PushPublish, RingTypeOK
  <2>2. /\ Used < Slots /\ push.frame \in Frames \ Invalid
        /\ \A x \in Fields : totem_rx[Index(totem_rx_head)][x] = push.frame
    BY <1>6 DEF PushPublish, RingInv, Filling
  <2>3. Used' = Used + 1 /\ \A i : Slot(i)' = Slot(i)
    BY <1>6, PushPublishInv
  <2>4. HeldSeq /\ HeldSeq'
    BY <1>0, HeldIs, HeldIsNext
  <2>5. Content(Used) = push.frame
    BY <1>0, <2>2, PartIn, Counters DEF Content, RingTypeOK
  <2>6. \A i : Content(i)' = Content(i)
    BY <2>1, <2>3 DEF Content
  <2>7. /\ Held \in Seq(Frames \cup {NoFrame}) /\ Held' \in Seq(Frames \cup {NoFrame})
        /\ Used \in Nat /\ Len(Held) = Used /\ Len(Held') = Used + 1
        /\ \A i \in 1 .. Used : Held[i] = Content(i - 1)
        /\ \A i \in 1 .. Used + 1 : Held'[i] = Content(i - 1)'
    BY <2>3, <2>4 DEF HeldSeq
  <2>8. Held'[Used + 1] = push.frame /\ \A i \in 1 .. Used : Held'[i] = Held[i]
    <3>1. Used + 1 \in 1 .. Used + 1 /\ (Used + 1) - 1 = Used
      BY <2>7
    <3>2. \A i \in 1 .. Used : i \in 1 .. Used + 1
      BY <2>7
    <3> HIDE DEF Content
    <3> QED BY <2>5, <2>6, <2>7, <3>1, <3>2
  <2>9. Held' = Append(Held, push.frame)
    BY <2>2, <2>7, <2>8, AppendIs
  <2>10. OfferOf = push.frame /\ OfferOf # NoFrame /\ OfferOf' = NoFrame /\ LostOf' = LostOf
    BY <2>1, <2>2, RingAssumption DEF OfferOf, LostOf, Inc
  <2>11. Queue!Accept
    BY <2>1, <2>2, <2>7, <2>9, <2>10 DEF Queue!Accept, OfferOf, LostOf
  <2> QED BY <2>11 DEF Queue!Next
<1>7. CASE PopCheck
  <2>1. Held' = Held /\ UNCHANGED <<taken, totem_rx_dropped, push>>
    BY <1>7, HeldUntouched DEF PopCheck
  <2>2. LostOf' = LostOf /\ OfferOf' = OfferOf
    BY <2>1 DEF LostOf, OfferOf, Inc
  <2> QED BY <2>1, <2>2, <1>s
<1>8. ASSUME NEW f \in Fields, PopCopy(f) PROVE [Queue!Next]_(Queue!vars)
  <2>1. Held' = Held /\ UNCHANGED <<taken, totem_rx_dropped, push>>
    BY <1>8, HeldUntouched DEF PopCopy
  <2>2. LostOf' = LostOf /\ OfferOf' = OfferOf
    BY <2>1 DEF LostOf, OfferOf, Inc
  <2> QED BY <2>1, <2>2, <1>s
<1>9. CASE PopRelease
  <2>1. /\ pop.pc = "copy" /\ pop.todo = {} /\ taken' = pop.out[Part]
        /\ UNCHANGED <<totem_rx, totem_rx_dropped, push>>
    BY <1>9 DEF PopRelease
  <2>2. Used' = Used - 1 /\ \A i \in Nat : Slot(i)' = Slot(i + 1)
    BY <1>9, PopReleaseInv
  <2>3. HeldSeq /\ HeldSeq'
    BY <1>0, HeldIs, HeldIsNext
  <2>4. Used > 0
    BY <2>1 DEF RingInv, Copying
  <2>5. taken' = Content(0)
    BY <2>1, InvOut DEF Content
  <2>6. \A i \in Nat : Content(i)' = Content(i + 1)
    BY <2>1, <2>2 DEF Content
  <2>7. /\ Held \in Seq(Frames \cup {NoFrame}) /\ Held' \in Seq(Frames \cup {NoFrame})
        /\ Used \in Nat /\ Len(Held) = Used /\ Len(Held') = Used - 1
        /\ \A i \in 1 .. Used : Held[i] = Content(i - 1)
        /\ \A i \in 1 .. Used - 1 : Held'[i] = Content(i - 1)'
    BY <2>2, <2>3 DEF HeldSeq
  <2>8. Held[1] = Content(0) /\ \A i \in 1 .. Used - 1 : Held'[i] = Held[i + 1]
    <3>1. 1 \in 1 .. Used /\ 1 - 1 = 0
      BY <2>4, <2>7
    <3>2. \A i \in 1 .. Used - 1 :
            i - 1 \in Nat /\ i + 1 \in 1 .. Used /\ (i + 1) - 1 = i /\ (i - 1) + 1 = i
      BY <2>7
    <3> HIDE DEF Content
    <3>3. Held[1] = Content(0)
      BY <2>7, <3>1
    <3>4. ASSUME NEW i \in 1 .. Used - 1 PROVE Held'[i] = Held[i + 1]
      <4>1. Held'[i] = Content(i - 1)' /\ Content(i - 1)' = Content((i - 1) + 1)
        BY <2>6, <2>7, <3>2
      <4>2. Held[i + 1] = Content((i + 1) - 1)
        BY <2>7, <3>2
      <4> QED BY <4>1, <4>2, <3>2
    <3> QED BY <3>3, <3>4
  <2>9. Held # << >> /\ Head(Held) = Held[1] /\ Held' = Tail(Held)
    BY <2>4, <2>7, <2>8, TailIs
  <2>10. LostOf' = LostOf /\ OfferOf' = OfferOf
    BY <2>1 DEF LostOf, OfferOf, Inc
  <2>11. Queue!Take
    BY <2>5, <2>8, <2>9, <2>10 DEF Queue!Take, OfferOf, LostOf
  <2> QED BY <2>11 DEF Queue!Next
<1>10. CASE UNCHANGED ringVars
  <2>1. Held' = Held /\ UNCHANGED <<taken, totem_rx_dropped, push>>
    BY <1>10, HeldUntouched DEF ringVars
  <2>2. LostOf' = LostOf /\ OfferOf' = OfferOf
    BY <2>1 DEF LostOf, OfferOf, Inc
  <2> QED BY <2>1, <2>2, <1>s
<1> QED BY <1>1, <1>2, <1>3, <1>4, <1>5, <1>6, <1>7, <1>8, <1>9, <1>10 DEF RingNext, WiFiTask, MainLoop

\* The lock-free ring implements the bounded queue: frames come out whole, in
\* the order they went in, once each, and one is lost only when the ring is
\* full and is counted (totem_rx_push, totem_rx_pop, totem_rx_dropped).
THEOREM RingIsQueue == RingSpec => IsQueue
<1>1. RingInv /\ RingInv' /\ [RingNext]_ringVars => [Queue!Next]_(Queue!vars)
  BY StepQueue
<1> QED BY <1>1, InitQueue, Invariance, PTL DEF RingSpec, IsQueue, Queue!Spec

-----------------------------------------------------------------------------
(* The device.                                                             *)
(*                                                                         *)
(* The invariant.  Power and strip move together: a device that is off has *)
(* a dark strip, one that is on has booked all but the time since its last *)
(* look.  What keeps a flash from running out unseen is how far back that  *)
(* look may lie: a poll's gap in the loop, an update's length more after   *)
(* one that blocked it, and no more than two of those between two polls.   *)

\* The strip is dark exactly on a device that is off, and shows nothing then.
Looks(s) ==
    /\ s.dark = s.off
    /\ s.dark => s.drawn = Unlit /\ s.anim = "idle"
    /\ s.resting => s.drawn = Picture(s)

\* The mode is the power state, and no time is booked that has not passed.
Powered(s) ==
    /\ (s.mode = "off") = s.off
    /\ s.lead \in -s.since .. 0
    /\ ~s.off => s.lead = -s.since

\* A device whose strip and power state agree.
Good(s) == s \in Devices /\ Looks(s) /\ Powered(s)

\* A picture that runs out, no frame of which was drawn.
Unseen(s) == s.anim \in Timed /\ s.drawn.anim # s.anim

\* It is due and has not begun to run out, or, in the loop, has not played for
\* longer than a poll can be away.
Due(s) == Unseen(s) => s.age >= 0 /\ s.left = FlashLen
DueSoon(s) ==
    Unseen(s) => /\ s.age >= 0
                 /\ s.left + s.since >= FlashLen
                 /\ s.left + MaxGap >= FlashLen

\* Frames since the last look at the clock, at most.
Ahead ==
    (IF (pc = "loop" /\ cmd) \/ (pc # "loop" /\ ret = "cmd") THEN MaxGap + MaxTook
     ELSE MaxGap + 2 * MaxTook) + took

\* Where the loop is, and what it may rely on there.
Place ==
    /\ pc \in {"loop", "ask", "get", "tail"} /\ ret \in {"poll", "cmd"}
    /\ took \in 0 .. MaxTook /\ cmd \in BOOLEAN /\ over \in BOOLEAN /\ kit \in Kits
    /\ pc = "loop" => took = 0 /\ ~Running(dev) /\ DueSoon(dev)
    /\ pc = "ask" => dev.ota = "checking" /\ dev.anim = "wifi" /\ ~dev.off
    /\ pc = "get" => dev.ota = "downloading" /\ dev.anim = "ota" /\ ~dev.off
    /\ pc = "tail" => ~Running(dev) /\ ret = "poll" /\ Due(dev)
    /\ pc # "loop" /\ ret = "cmd" => ~cmd
    /\ dev.since >= took /\ dev.since <= Ahead

\* The inductive invariant of the device.
DeviceInv == Good(dev) /\ Place /\ AlarmBack

-----------------------------------------------------------------------------
(* The strip. *)

\* The fields that are not the strip's.
SameBody(s, t) ==
    /\ t.off = s.off /\ t.mode = s.mode /\ t.maxV = s.maxV /\ t.peakV = s.peakV /\ t.prevV = s.prevV
    /\ t.plug = s.plug /\ t.fix = s.fix /\ t.held = s.held /\ t.shown = s.shown /\ t.lowOwed = s.lowOwed
    /\ t.since = s.since /\ t.lead = s.lead /\ t.sos = s.sos /\ t.muted = s.muted
    /\ t.pairing = s.pairing /\ t.ota = s.ota

\* The device on the wall clock.
SamePower(s, t) == t.off = s.off /\ t.mode = s.mode /\ t.since = s.since /\ t.lead = s.lead

\* The fields of the strip that its effects leave alone.
SameFace(s, t) ==
    t.dark = s.dark /\ t.dimmed = s.dimmed /\ t.color = s.color /\ t.dial = s.dial /\ t.share = s.share

SameStrip(s, t) ==
    /\ SameFace(s, t)
    /\ t.anim = s.anim /\ t.left = s.left /\ t.age = s.age /\ t.resting = s.resting /\ t.drawn = s.drawn

\* A change beside the strip, the power state and the clock.
Beside(s, t) == t \in Devices /\ SameStrip(s, t) /\ SamePower(s, t)

LEMMA BesideIs ==
    ASSUME NEW s, NEW t, Beside(s, t)
    PROVE  /\ Good(s) => Good(t)
           /\ Looks(s) => Looks(t)
           /\ DueSoon(s) => DueSoon(t)
           /\ Due(s) => Due(t)
           /\ Unseen(t) = Unseen(s)
<1>1. Picture(t) = Picture(s)
  BY DEF Picture, Beside, SameStrip, SameFace
<1>2. Unseen(t) = Unseen(s)
  BY DEF Unseen, Beside, SameStrip, SameFace
<1>3. Looks(s) => Looks(t)
  BY <1>1 DEF Looks, Beside, SameStrip, SameFace, SamePower
<1>4. Powered(s) => Powered(t)
  BY DEF Powered, Beside, SamePower
<1>5. (DueSoon(s) => DueSoon(t)) /\ (Due(s) => Due(t))
  BY <1>2 DEF DueSoon, Due, Beside, SameStrip, SamePower
<1> QED BY <1>2, <1>3, <1>4, <1>5 DEF Good, Beside

\* The result of an operation is named, so that a lemma about the operation is
\* used for the states at hand and no others.
Is(t, value) == t = value

\* What a picture that is played changes.
Played(s, a, lag, t) ==
    /\ t \in Devices /\ SameBody(s, t) /\ SameFace(s, t) /\ t.drawn = s.drawn
    /\ s.dark => t = s
    /\ ~s.dark => t.anim = a /\ t.age = lag /\ t.resting = FALSE
    /\ ~s.dark /\ lag = 0 /\ a \notin OpenEnded => t.left = FlashLen

LEMMA PlayIs ==
    ASSUME NEW s \in Devices, NEW a \in Animations, NEW lag \in 0 .. MaxTook, NEW t, Is(t, Play(s, a, lag))
    PROVE  Played(s, a, lag, t)
<1>1. CASE s.dark
  BY <1>1 DEF Is, Play, Played, SameBody, SameFace
<1>2. CASE ~s.dark
  <2> DEFINE l == IF a \in OpenEnded \/ lag > FlashLen THEN 0 ELSE FlashLen - lag
  <2>1. l \in Lefts /\ lag \in Ages /\ (lag = 0 /\ a \notin OpenEnded => l = FlashLen)
    BY TimesAssumption DEF Lefts, Ages
  <2>2. t = [s EXCEPT !.anim = a, !.age = lag, !.resting = FALSE, !.left = l]
    BY <1>2 DEF Is, Play
  <2> HIDE DEF l
  <2>3. [s EXCEPT !.anim = a, !.age = lag, !.resting = FALSE, !.left = l] \in Devices
    BY <2>1 DEF Devices
  <2>4. SameBody(s, t) /\ SameFace(s, t)
    BY <2>2 DEF Devices, SameBody, SameFace
  <2>5. t.drawn = s.drawn /\ t.anim = a /\ t.age = lag /\ t.resting = FALSE /\ t.left = l
    BY <2>2 DEF Devices
  <2> QED BY <1>2, <2>1, <2>2, <2>3, <2>4, <2>5 DEF Played
<1> QED BY <1>1, <1>2

\* It keeps the strip in step with the power state, and is due at once.
LEMMA PlayGood ==
    ASSUME NEW s \in Devices, Looks(s), NEW a \in Animations, NEW lag \in 0 .. MaxTook,
           NEW t, Is(t, Play(s, a, lag))
    PROVE  /\ Looks(t) /\ (Powered(s) => Powered(t))
           /\ lag = 0 => Due(t) /\ DueSoon(t)
           /\ s.dark \/ a \in OpenEnded => ~Unseen(t)
<1>0. Played(s, a, lag, t)
  BY PlayIs
<1>1. t \in Devices /\ SameBody(s, t) /\ SameFace(s, t) /\ t.drawn = s.drawn /\ (s.dark => t = s)
  BY <1>0 DEF Played
<1>2. /\ ~s.dark => t.anim = a /\ t.age = lag /\ t.resting = FALSE
      /\ ~s.dark /\ lag = 0 /\ a \notin OpenEnded => t.left = FlashLen
  BY <1>0 DEF Played
<1>3. Looks(t)
  BY <1>1, <1>2 DEF Looks, SameBody, SameFace
<1>4. Powered(s) => Powered(t)
  BY <1>1 DEF Powered, SameBody
<1>5. s.dark \/ a \in OpenEnded => ~Unseen(t)
  BY <1>1, <1>2 DEF Unseen, OpenEnded, Timed, Looks
<1>6. lag = 0 /\ Unseen(t) => t.age = 0 /\ t.left = FlashLen
  BY <1>1, <1>2, <1>5
<1>7. t.since \in Nat /\ FlashLen \in Nat /\ MaxGap \in Nat
  BY <1>1, TimesAssumption DEF Devices, Spans
<1>8. lag = 0 => Due(t) /\ DueSoon(t)
  BY <1>6, <1>7 DEF Due, DueSoon
<1> QED BY <1>3, <1>4, <1>5, <1>8

\* A frame is drawn when it is due.
LEMMA TickIs ==
    ASSUME NEW s, Good(s), NEW lag \in 0 .. MaxTook, NEW r, Is(r, Tick(s, lag))
    PROVE  /\ Good(r) /\ SameBody(s, r)
           /\ Unseen(r) => r = s /\ s.age < lag
           /\ s.anim \in OpenEnded => r.anim = s.anim
<1> DEFINE t == IF Expired(s, lag) THEN Play(s, "idle", lag) ELSE s
           u == [t EXCEPT !.age = lag - 1, !.drawn = Picture(t), !.resting = (t.anim = "idle")]
           v == [s EXCEPT !.resting = TRUE]
<1>0. s \in Devices /\ Looks(s) /\ Powered(s) /\ s.dark \in BOOLEAN
  BY DEF Good, Devices
<1>1. CASE s.dark
  <2>1. r = v
    BY <1>1 DEF Is, Tick
  <2>2. /\ v \in Devices /\ SameBody(s, v) /\ SameFace(s, v)
        /\ v.anim = s.anim /\ v.drawn = s.drawn
    BY <1>0 DEF Devices, SameBody, SameFace
  <2> HIDE DEF v
  <2>3. Looks(v) /\ Powered(v)
    BY <1>0, <1>1, <2>2 DEF Looks, Powered, SameBody, SameFace, Picture
  <2>4. ~Unseen(v)
    BY <1>0, <1>1, <2>2 DEF Unseen, Looks, Timed
  <2> QED BY <2>1, <2>2, <2>3, <2>4 DEF Good
<1>2. CASE ~s.dark /\ s.age < lag
  <2>1. r = s
    BY <1>2 DEF Is, Tick
  <2> QED BY <1>2, <2>1 DEF SameBody
<1>3. CASE ~s.dark /\ ~(s.age < lag)
  <2>1. r = u
    BY <1>3 DEF Is, Tick
  <2>2. "idle" \in Animations /\ lag - 1 \in Ages
    BY TimesAssumption DEF Animations, OpenEnded, Ages
  <2>3. /\ t \in Devices /\ Looks(t) /\ Powered(t) /\ SameBody(s, t) /\ SameFace(s, t)
        /\ s.anim \in OpenEnded => t.anim = s.anim
    <3>1. CASE Expired(s, lag)
      <4>1. Is(t, Play(s, "idle", lag))
        BY <3>1 DEF Is
      <4>2. s.anim \notin OpenEnded
        BY <3>1 DEF Expired, Timed, OpenEnded
      <4> HIDE DEF t
      <4>3. Played(s, "idle", lag, t)
        BY <1>0, <2>2, <4>1, PlayIs
      <4>4. Looks(t) /\ (Powered(s) => Powered(t))
        BY <1>0, <2>2, <4>1, PlayGood
      <4> QED BY <1>0, <4>2, <4>3, <4>4 DEF Played
    <3>2. CASE ~Expired(s, lag)
      BY <1>0, <3>2 DEF SameBody, SameFace
    <3> QED BY <3>1, <3>2
  <2> HIDE DEF t
  <2>4. Picture(t) \in Pictures /\ (t.anim = "idle") \in BOOLEAN /\ (~t.dark => Picture(t).anim = t.anim)
    BY <2>3, TimesAssumption DEF Picture, Pictures, Devices, Dials, Shares, None
  <2>5. /\ u \in Devices /\ SameBody(t, u) /\ SameFace(t, u)
        /\ u.anim = t.anim /\ u.drawn = Picture(t)
    <3>1. u \in Devices
      BY <2>2, <2>3, <2>4 DEF Devices
    <3>2. SameBody(t, u) /\ SameFace(t, u)
      BY <2>3 DEF Devices, SameBody, SameFace
    <3>3. u.anim = t.anim /\ u.drawn = Picture(t)
      BY <2>3 DEF Devices
    <3> QED BY <3>1, <3>2, <3>3
  <2> HIDE DEF u
  <2>6. Picture(u) = Picture(t) /\ ~u.dark
    BY <1>3, <2>3, <2>5 DEF Picture, SameFace
  <2>7. Looks(u) /\ Powered(u)
    BY <2>3, <2>5, <2>6 DEF Looks, Powered, SameBody, SameFace
  <2>8. ~Unseen(u) /\ SameBody(s, u)
    BY <1>3, <2>3, <2>4, <2>5 DEF Unseen, SameBody, SameFace
  <2> QED BY <2>1, <2>3, <2>5, <2>7, <2>8 DEF Good
<1> QED BY <1>0, <1>1, <1>2, <1>3

\* A setting of the strip: if it changes what is shown, a frame is due.
Refaced(s, t) ==
    /\ t \in Devices /\ SameBody(s, t) /\ t.dark = s.dark
    /\ t.anim = s.anim /\ t.left = s.left /\ t.drawn = s.drawn
    /\ t.age = s.age \/ (s.age < 0 /\ t.age = 0)
    /\ t.resting => s.resting /\ (s.dark \/ SameFace(s, t))

LEMMA RefacedGood ==
    ASSUME NEW s, Good(s), NEW t, Refaced(s, t)
    PROVE  /\ Good(t)
           /\ DueSoon(s) => DueSoon(t)
           /\ Unseen(t) = Unseen(s)
<1>1. s \in Devices /\ Looks(s) /\ Powered(s)
  BY DEF Good
<1>2. Unseen(t) = Unseen(s)
  BY DEF Refaced, Unseen
<1>3. Looks(t)
  <2>1. t.dark = t.off /\ (t.dark => t.drawn = Unlit /\ t.anim = "idle")
    BY <1>1 DEF Refaced, Looks, SameBody
  <2>2. ASSUME t.resting PROVE t.drawn = Picture(t)
    <3>1. s.drawn = Picture(s) /\ (s.dark \/ SameFace(s, t))
      BY <1>1, <2>2 DEF Refaced, Looks
    <3> QED BY <3>1 DEF Refaced, Picture, SameFace
  <2> QED BY <2>1, <2>2 DEF Looks
<1>4. Powered(t)
  BY <1>1 DEF Refaced, Powered, SameBody
<1>5. s.age \in Int
  BY <1>1 DEF Devices, Ages
<1>6. DueSoon(s) => DueSoon(t)
  BY <1>2, <1>5 DEF DueSoon, Refaced, SameBody
<1> QED BY <1>2, <1>3, <1>4, <1>6 DEF Good, Refaced

LEMMA RedrawIs ==
    ASSUME NEW s \in Devices, NEW t, t = s \/ t = Redraw(s)
    PROVE  Refaced(s, t) /\ SameFace(s, t) /\ (t = Redraw(s) /\ ~s.dark => t.resting = FALSE)
<1> DEFINE u == [s EXCEPT !.age = IF s.age < 0 THEN 0 ELSE s.age, !.resting = FALSE]
<1>1. Refaced(s, s) /\ SameFace(s, s)
  BY DEF Refaced, SameBody, SameFace
<1>2. (IF s.age < 0 THEN 0 ELSE s.age) \in Ages
  BY TimesAssumption DEF Devices, Ages
<1>3. u \in Devices /\ SameBody(s, u) /\ SameFace(s, u)
  <2>1. u \in Devices
    <3> DEFINE a == IF s.age < 0 THEN 0 ELSE s.age
    <3>1. a \in Ages /\ u = [s EXCEPT !.age = a, !.resting = FALSE]
      BY <1>2
    <3> HIDE DEF a, u
    <3>2. [s EXCEPT !.age = a, !.resting = FALSE] \in Devices
      BY <3>1 DEF Devices
    <3> QED BY <3>1, <3>2
  <2>2. SameBody(s, u) /\ SameFace(s, u)
    BY DEF Devices, SameBody, SameFace
  <2> QED BY <2>1, <2>2
<1>4. /\ u.anim = s.anim /\ u.left = s.left /\ u.drawn = s.drawn /\ u.resting = FALSE
      /\ u.age = IF s.age < 0 THEN 0 ELSE s.age
  BY DEF Devices
<1>5. Redraw(s) = IF s.dark THEN s ELSE u
  BY DEF Redraw
<1> HIDE DEF u
<1>6. Refaced(s, u)
  BY <1>3, <1>4 DEF Refaced, SameFace
<1> QED BY <1>1, <1>3, <1>4, <1>5, <1>6

\* A field of the face is set on a strip that was woken if that changes it.
LEMMA FaceSet ==
    ASSUME NEW s \in Devices, NEW u, Refaced(s, u), SameFace(s, u),
           NEW t \in Devices, SameBody(u, t), t.dark = u.dark, t.anim = u.anim, t.left = u.left,
           t.drawn = u.drawn, t.age = u.age, t.resting = u.resting,
           SameFace(s, t) \/ s.dark \/ u.resting = FALSE
    PROVE  Refaced(s, t)
<1>1. SameBody(s, t)
  BY DEF Refaced, SameBody
<1> QED BY <1>1 DEF Refaced

LEMMA FaceSets ==
    ASSUME NEW s \in Devices
    PROVE  /\ \A d \in Dials : Refaced(s, SetDial(s, d))
           /\ \A f \in Shares : Refaced(s, SetShare(s, f))
           /\ \A c \in Colors : Refaced(s, SetDefaultColor(s, c))
           /\ \A d \in BOOLEAN : Refaced(s, SetDimmed(s, d))
<1>1. ASSUME NEW d \in Dials PROVE Refaced(s, SetDial(s, d))
  <2> DEFINE u == IF d # s.dial THEN Redraw(s) ELSE s
             t == [u EXCEPT !.dial = d]
  <2>1. /\ Refaced(s, u) /\ SameFace(s, u) /\ u \in Devices
        /\ d # s.dial /\ ~s.dark => u.resting = FALSE
    BY RedrawIs DEF Refaced
  <2>2. SetDial(s, d) = t
    BY DEF SetDial
  <2> HIDE DEF u
  <2>3. t \in Devices /\ SameBody(u, t)
    BY <2>1 DEF Devices, SameBody
  <2>4. /\ t.dark = u.dark /\ t.anim = u.anim /\ t.left = u.left /\ t.drawn = u.drawn
        /\ t.age = u.age /\ t.resting = u.resting
    BY <2>1 DEF Devices
  <2>5. d = s.dial => SameFace(s, t)
    BY <2>1 DEF Devices, SameFace
  <2> HIDE DEF t
  <2> QED BY <2>1, <2>2, <2>3, <2>4, <2>5, FaceSet
<1>2. ASSUME NEW f \in Shares PROVE Refaced(s, SetShare(s, f))
  <2> DEFINE u == IF f # s.share THEN Redraw(s) ELSE s
             t == [u EXCEPT !.share = f]
  <2>1. /\ Refaced(s, u) /\ SameFace(s, u) /\ u \in Devices
        /\ f # s.share /\ ~s.dark => u.resting = FALSE
    BY RedrawIs DEF Refaced
  <2>2. SetShare(s, f) = t
    BY DEF SetShare
  <2> HIDE DEF u
  <2>3. t \in Devices /\ SameBody(u, t)
    BY <2>1 DEF Devices, SameBody
  <2>4. /\ t.dark = u.dark /\ t.anim = u.anim /\ t.left = u.left /\ t.drawn = u.drawn
        /\ t.age = u.age /\ t.resting = u.resting
    BY <2>1 DEF Devices
  <2>5. f = s.share => SameFace(s, t)
    BY <2>1 DEF Devices, SameFace
  <2> HIDE DEF t
  <2> QED BY <2>1, <2>2, <2>3, <2>4, <2>5, FaceSet
<1>3. ASSUME NEW c \in Colors PROVE Refaced(s, SetDefaultColor(s, c))
  <2> DEFINE u == IF c # s.color THEN Redraw(s) ELSE s
             t == [u EXCEPT !.color = c]
  <2>1. /\ Refaced(s, u) /\ SameFace(s, u) /\ u \in Devices
        /\ c # s.color /\ ~s.dark => u.resting = FALSE
    BY RedrawIs DEF Refaced
  <2>2. SetDefaultColor(s, c) = t
    BY DEF SetDefaultColor
  <2> HIDE DEF u
  <2>3. t \in Devices /\ SameBody(u, t)
    BY <2>1 DEF Devices, SameBody
  <2>4. /\ t.dark = u.dark /\ t.anim = u.anim /\ t.left = u.left /\ t.drawn = u.drawn
        /\ t.age = u.age /\ t.resting = u.resting
    BY <2>1 DEF Devices
  <2>5. c = s.color => SameFace(s, t)
    BY <2>1 DEF Devices, SameFace
  <2> HIDE DEF t
  <2> QED BY <2>1, <2>2, <2>3, <2>4, <2>5, FaceSet
<1>4. ASSUME NEW d \in BOOLEAN PROVE Refaced(s, SetDimmed(s, d))
  <2> DEFINE u == Redraw(s)
             t == [u EXCEPT !.dimmed = d]
  <2>1. /\ Refaced(s, u) /\ SameFace(s, u) /\ u \in Devices
        /\ ~s.dark => u.resting = FALSE
    BY RedrawIs DEF Refaced
  <2>2. SetDimmed(s, d) = t
    BY DEF SetDimmed
  <2> HIDE DEF u
  <2>3. t \in Devices /\ SameBody(u, t)
    BY <2>1 DEF Devices, SameBody
  <2>4. /\ t.dark = u.dark /\ t.anim = u.anim /\ t.left = u.left /\ t.drawn = u.drawn
        /\ t.age = u.age /\ t.resting = u.resting
    BY <2>1 DEF Devices
  <2> HIDE DEF t
  <2> QED BY <2>1, <2>2, <2>3, <2>4, FaceSet
<1> QED BY <1>1, <1>2, <1>3, <1>4

-----------------------------------------------------------------------------
(* The operations between two polls. *)

Sane(s) == Good(s) /\ DueSoon(s)

\* An operation keeps the strip and the power state sound, leaves the update
\* alone, and may start a new run.
After(s, t) == Sane(t) /\ t.ota = s.ota /\ t.since \in {s.since, 0}

LEMMA AfterSelf == ASSUME NEW s, Sane(s) PROVE After(s, s)
BY DEF After

LEMMA AfterBoth == ASSUME NEW s, NEW t, NEW u, After(s, t), After(t, u) PROVE After(s, u)
BY DEF After

LEMMA BesideAfter ==
    ASSUME NEW s, Sane(s), NEW t, Beside(s, t), t.ota = s.ota
    PROVE  After(s, t)
BY BesideIs DEF After, Sane, Beside, SamePower

LEMMA RefacedAfter ==
    ASSUME NEW s, Sane(s), NEW t, Refaced(s, t)
    PROVE  After(s, t)
BY RefacedGood DEF After, Sane, Refaced, SameBody

LEMMA PlayAfter ==
    ASSUME NEW s, Sane(s), NEW a \in Animations, NEW t, Is(t, Play(s, a, 0))
    PROVE  After(s, t)
<1>1. 0 \in 0 .. MaxTook /\ s \in Devices /\ Looks(s) /\ Powered(s)
  BY TimesAssumption DEF Sane, Good
<1>2. Played(s, a, 0, t)
  BY <1>1, PlayIs
<1>3. Looks(t) /\ Powered(t) /\ DueSoon(t)
  BY <1>1, PlayGood
<1> QED BY <1>2, <1>3 DEF After, Sane, Good, Played, SameBody

LEMMA TickAfter ==
    ASSUME NEW s, Sane(s), NEW t, Is(t, Tick(s, 0))
    PROVE  After(s, t)
<1>1. 0 \in 0 .. MaxTook /\ Good(s)
  BY TimesAssumption DEF Sane
<1>2. Good(t) /\ SameBody(s, t) /\ (Unseen(t) => t = s)
  BY <1>1, TickIs
<1>3. DueSoon(t)
  BY <1>2 DEF Sane, DueSoon
<1> QED BY <1>2, <1>3 DEF After, Sane, SameBody

LEMMA StopAfter ==
    ASSUME NEW s, Sane(s), NEW a, NEW t, Is(t, Stop(s, a, 0))
    PROVE  After(s, t)
<1>1. "idle" \in Animations
  BY DEF Animations, OpenEnded
<1>2. t = s \/ Is(t, Play(s, "idle", 0))
  BY DEF Is, Stop
<1> QED BY <1>1, <1>2, AfterSelf, PlayAfter

\* stopPairing ends the window and its picture.
Closed(s, t) ==
    /\ t \in Devices /\ Looks(t) /\ SamePower(s, t)
    /\ t.ota = s.ota /\ t.fix = s.fix /\ t.sos = s.sos /\ t.muted = s.muted /\ t.dark = s.dark
    /\ t.pairing = FALSE
    /\ s.anim # "pairing" => t.anim = s.anim
    /\ s.anim = "pairing" /\ s.pairing /\ ~s.dark => t.anim = "idle"
    /\ DueSoon(s) => DueSoon(t)

LEMMA StopPairingIs ==
    ASSUME NEW s \in Devices, Looks(s), NEW t, Is(t, StopPairing(s))
    PROVE  Closed(s, t)
<1> DEFINE u == [s EXCEPT !.pairing = FALSE]
<1>0. s.pairing \in BOOLEAN /\ 0 \in 0 .. MaxTook /\ "idle" \in Animations
  BY TimesAssumption DEF Devices, Animations, OpenEnded
<1>1. CASE ~s.pairing
  <2>1. t = s
    BY <1>1 DEF Is, StopPairing
  <2> QED BY <1>0, <1>1, <2>1 DEF Closed, SamePower
<1>2. CASE s.pairing
  <2>1. u \in Devices /\ SameStrip(s, u) /\ SamePower(s, u)
    BY DEF Devices, SameStrip, SameFace, SamePower
  <2>2. /\ u.ota = s.ota /\ u.fix = s.fix /\ u.sos = s.sos /\ u.muted = s.muted /\ u.dark = s.dark
        /\ u.pairing = FALSE /\ u.anim = s.anim
    BY DEF Devices
  <2>3. t = IF u.anim = "pairing" THEN Play(u, "idle", 0) ELSE u
    BY <1>2 DEF Is, StopPairing, Stop
  <2> HIDE DEF u
  <2>4. Looks(u) /\ (DueSoon(s) => DueSoon(u))
    BY <2>1, BesideIs DEF Beside
  <2>5. CASE u.anim = "pairing"
    <3>1. Is(t, Play(u, "idle", 0))
      BY <2>3, <2>5 DEF Is
    <3>2. Played(u, "idle", 0, t)
      BY <1>0, <2>1, <3>1, PlayIs
    <3>3. Looks(t) /\ DueSoon(t)
      BY <1>0, <2>1, <2>4, <3>1, PlayGood
    <3> QED BY <2>1, <2>2, <2>5, <3>2, <3>3 DEF Closed, Played, SameBody, SameFace, SamePower
  <2>6. CASE u.anim # "pairing"
    BY <2>1, <2>2, <2>3, <2>4, <2>6 DEF Closed
  <2> QED BY <2>5, <2>6
<1> QED BY <1>0, <1>1, <1>2

LEMMA StopPairingAfter ==
    ASSUME NEW s, Sane(s), NEW t, Is(t, StopPairing(s))
    PROVE  After(s, t)
<1>1. s \in Devices /\ Looks(s) /\ Powered(s) /\ DueSoon(s)
  BY DEF Sane, Good
<1>2. Closed(s, t)
  BY <1>1, StopPairingIs
<1>3. Powered(t)
  BY <1>1, <1>2 DEF Closed, SamePower, Powered
<1> QED BY <1>1, <1>2, <1>3 DEF After, Sane, Good, Closed, SamePower

\* A device on which the mode may have been set already goes off.
LEMMA PowerOffIs ==
    ASSUME NEW s \in Devices, Looks(s), s.off = FALSE, s.lead = -s.since, NEW t, Is(t, PowerOff(s))
    PROVE  Sane(t) /\ t.off = TRUE /\ t.ota = s.ota /\ t.since = s.since
<1> DEFINE u == StopPairing(s)
           v == [u EXCEPT !.off = TRUE, !.mode = "off", !.lowOwed = FALSE]
           w == Play(v, "idle", 0)
           z == [w EXCEPT !.dark = TRUE, !.drawn = Unlit, !.resting = TRUE]
<1>0. 0 \in 0 .. MaxTook /\ "idle" \in Animations /\ Unlit \in Pictures
  BY TimesAssumption DEF Animations, OpenEnded, Pictures
<1>1. t = z
  BY DEF Is, PowerOff, Darken
<1>2. Closed(s, u)
  BY StopPairingIs DEF Is
<1> HIDE DEF u
<1>3. /\ v \in Devices /\ v.off = TRUE /\ v.mode = "off"
      /\ v.ota = u.ota /\ v.since = u.since /\ v.lead = u.lead /\ v.dark = u.dark
  <2>1. u \in Devices
    BY <1>2 DEF Closed
  <2>2. v \in Devices
    BY <2>1 DEF Devices
  <2>3. v.off = TRUE /\ v.mode = "off" /\ v.ota = u.ota /\ v.since = u.since /\ v.lead = u.lead /\ v.dark = u.dark
    BY <2>1 DEF Devices
  <2> QED BY <2>2, <2>3
<1>4. v.ota = s.ota /\ v.since = s.since /\ v.lead = s.lead /\ v.dark = FALSE
  BY <1>2, <1>3 DEF Closed, SamePower, Looks
<1> HIDE DEF v
<1>5. Played(v, "idle", 0, w)
  BY <1>0, <1>3, PlayIs DEF Is
<1>6. w \in Devices /\ w.anim = "idle" /\ SameBody(v, w)
  BY <1>4, <1>5 DEF Played
<1> HIDE DEF w
<1>7. /\ z \in Devices /\ SameBody(w, z) /\ z.dark = TRUE /\ z.drawn = Unlit /\ z.anim = w.anim
  BY <1>0, <1>6 DEF Devices, SameBody
<1> HIDE DEF z
<1>8. z.off = TRUE /\ z.mode = "off" /\ z.ota = s.ota /\ z.since = s.since /\ z.lead = s.lead /\ z.anim = "idle"
  BY <1>3, <1>4, <1>6, <1>7 DEF SameBody
<1>9. Looks(z)
  BY <1>7, <1>8 DEF Looks, Picture
<1>10. z.since \in Nat
  BY <1>7, TimesAssumption DEF Devices, Spans
<1>11. Powered(z)
  <2>1. z.lead = -z.since /\ z.lead \in -z.since .. 0
    BY <1>8, <1>10
  <2> QED BY <1>8, <2>1 DEF Powered
<1>12. DueSoon(z)
  BY <1>8 DEF DueSoon, Unseen, Timed
<1> QED BY <1>1, <1>7, <1>8, <1>9, <1>11, <1>12 DEF Sane, Good

LEMMA PowerOffAfter ==
    ASSUME NEW s, Sane(s), NEW t, Is(t, PowerOff(s))
    PROVE  After(s, t)
<1>1. s \in Devices /\ Looks(s) /\ s.off \in BOOLEAN /\ (s.off = FALSE => s.lead = -s.since)
  BY DEF Sane, Good, Devices, Powered
<1>2. CASE s.off = TRUE
  <2>1. t = s
    BY <1>2 DEF Is, PowerOff
  <2> QED BY <2>1, AfterSelf
<1>3. CASE s.off = FALSE
  BY <1>1, <1>3, PowerOffIs DEF After
<1> QED BY <1>1, <1>2, <1>3

LEMMA PowerOnAfter ==
    ASSUME NEW s, Sane(s), NEW t, Is(t, PowerOn(s))
    PROVE  After(s, t)
<1> DEFINE u == [s EXCEPT !.off = FALSE, !.mode = "normal"]
           v == [u EXCEPT !.maxV = 0, !.peakV = 0, !.prevV = 0, !.since = 0, !.lead = 0, !.lost = 0]
           w == [v EXCEPT !.dark = FALSE, !.age = 0, !.resting = FALSE]
<1>0. /\ 0 \in 0 .. MaxTook /\ "boot" \in Animations /\ 0 \in Spans /\ 0 \in Leads /\ 0 \in Losses
      /\ 0 \in Ages /\ s \in Devices /\ s.off \in BOOLEAN
  BY TimesAssumption DEF Animations, Timed, Spans, Leads, Losses, Ages, Sane, Good, Devices
<1>1. CASE s.off = FALSE
  <2>1. t = s
    BY <1>1 DEF Is, PowerOn
  <2> QED BY <2>1, AfterSelf
<1>2. CASE s.off = TRUE
  <2>1. Is(t, Play(w, "boot", 0))
    BY <1>2 DEF Is, PowerOn, Light, StartRun
  <2>2. u \in Devices /\ u.off = FALSE /\ u.mode = "normal" /\ u.ota = s.ota
    BY <1>0 DEF Devices
  <2> HIDE DEF u
  <2>3. /\ v \in Devices /\ v.off = FALSE /\ v.mode = "normal" /\ v.ota = s.ota
        /\ v.since = 0 /\ v.lead = 0
    <3> DEFINE x == [u EXCEPT !.maxV = 0, !.peakV = 0, !.prevV = 0]
    <3>0. 0 \in Int /\ 0 \in Nat
      OBVIOUS
    <3>1. x \in Devices
      BY <2>2, <3>0 DEF Devices
    <3>2. x.off = u.off /\ x.mode = u.mode /\ x.ota = u.ota
      BY <2>2 DEF Devices
    <3>3. v = [x EXCEPT !.since = 0, !.lead = 0, !.lost = 0]
      BY <2>2 DEF Devices
    <3> HIDE DEF x, v
    <3>4. [x EXCEPT !.since = 0, !.lead = 0, !.lost = 0] \in Devices
      BY <1>0, <3>1 DEF Devices
    <3>5. v.off = x.off /\ v.mode = x.mode /\ v.ota = x.ota /\ v.since = 0 /\ v.lead = 0
      BY <3>1, <3>3 DEF Devices
    <3> QED BY <2>2, <3>2, <3>3, <3>4, <3>5
  <2> HIDE DEF v
  <2>4. /\ w \in Devices /\ w.off = FALSE /\ w.mode = "normal" /\ w.ota = s.ota
        /\ w.since = 0 /\ w.lead = 0 /\ w.dark = FALSE /\ w.resting = FALSE
    BY <1>0, <2>3 DEF Devices
  <2> HIDE DEF w
  <2>5. Looks(w) /\ Powered(w)
    <3>0. w.lead \in Int /\ w.since \in Nat /\ w.since + w.lead = 0
      BY <2>4
    <3>1. w.lead = -w.since /\ w.lead \in -w.since .. 0
      BY <3>0
    <3> QED BY <2>4, <3>1 DEF Looks, Powered
  <2>6. Played(w, "boot", 0, t)
    BY <1>0, <2>1, <2>4, PlayIs
  <2>7. Looks(t) /\ Powered(t) /\ DueSoon(t)
    BY <1>0, <2>1, <2>4, <2>5, PlayGood
  <2> QED BY <2>4, <2>6, <2>7 DEF After, Sane, Good, Played, SameBody
<1> QED BY <1>0, <1>1, <1>2

LEMMA ReadingIs ==
    ASSUME NEW b \in Readings
    PROVE  b.volts \in Nat /\ b.charging \in BOOLEAN
<1>1. b \in Reading
  BY DEF Readings, Reading, Flag
<1>2. b.volts \in Volts \cup {0} /\ b.charging \in BOOLEAN
  BY <1>1 DEF Reading
<1>3. Volts \subseteq Nat /\ 0 \in Nat
  BY DataAssumption
<1>4. b.volts \in Nat
  BY <1>2, <1>3
<1> QED BY <1>2, <1>4

\* What a reading teaches about the pack is beside the strip.
LEMMA LearnIs ==
    ASSUME NEW s \in Devices, NEW b \in Readings, NEW t, Is(t, Learn(s, b))
    PROVE  Beside(s, t) /\ t.ota = s.ota
<1> DEFINE peak == IF b.volts > s.peakV /\ PlausibleVolts(b.volts) THEN b.volts ELSE s.peakV
           u == [s EXCEPT !.peakV = peak]
<1>1. peak \in Nat /\ peak - Margin \in Int
  BY ReadingIs DEF Devices, Margin
<1>2. t \in {u, [u EXCEPT !.prevV = peak], [u EXCEPT !.maxV = peak - Margin]}
  BY DEF Is, Learn
<1> HIDE DEF peak
<1>3. Beside(s, u) /\ u.ota = s.ota
  BY <1>1 DEF Beside, Devices, SameStrip, SameFace, SamePower
<1> HIDE DEF u
<1>4. u \in Devices
  BY <1>3 DEF Beside
<1>5. Beside(u, [u EXCEPT !.prevV = peak]) /\ [u EXCEPT !.prevV = peak].ota = u.ota
  BY <1>1, <1>4 DEF Beside, Devices, SameStrip, SameFace, SamePower
<1>6. Beside(u, [u EXCEPT !.maxV = peak - Margin]) /\ [u EXCEPT !.maxV = peak - Margin].ota = u.ota
  BY <1>1, <1>4 DEF Beside, Devices, SameStrip, SameFace, SamePower
<1>7. (Beside(u, t) /\ t.ota = u.ota) \/ t = u
  BY <1>2, <1>5, <1>6
<1> QED BY <1>3, <1>7 DEF Beside, SameStrip, SameFace, SamePower

\* read, and the mode that follows.
LEMMA ReadAfter ==
    ASSUME NEW s, Sane(s), NEW b \in Readings, NEW f \in BOOLEAN, NEW t, Is(t, Read(s, b, f))
    PROVE  After(s, t)
<1> DEFINE l == IF s.off THEN s ELSE Learn(s, b)
           u == [l EXCEPT !.plug = b.charging, !.fix = f]
           pct == Percent(l, b)
           m == IF u.off THEN u.mode ELSE ModeFor(b, pct)
           v == [u EXCEPT !.mode = m, !.lowOwed = (m = "low")]
<1>1. t = IF m = u.mode THEN u ELSE IF m = "off" THEN PowerOff(v) ELSE v
  BY DEF Is, Read, ApplyPowerMode
<1>2. s \in Devices
  BY DEF Sane, Good
<1>3. After(s, l)
  <2>1. CASE s.off
    BY <2>1, AfterSelf
  <2>2. CASE ~s.off
    <3>1. Is(l, Learn(s, b))
      BY <2>2 DEF Is
    <3> QED BY <1>2, <3>1, LearnIs, BesideAfter
  <2> QED BY <2>1, <2>2
<1>4. ModeFor(b, pct) \in {"normal", "off", "low", "eco"}
  BY DEF ModeFor
<1> HIDE DEF l, pct
<1>5. Sane(l) /\ l \in Devices
  BY <1>3 DEF After, Sane, Good
<1>6. Beside(l, u) /\ u.ota = l.ota
  BY <1>5, ReadingIs DEF Beside, Devices, SameStrip, SameFace, SamePower
<1> HIDE DEF u
<1>7. After(s, u)
  BY <1>3, <1>5, <1>6, BesideAfter, AfterBoth
<1>8. Sane(u) /\ u \in Devices /\ Looks(u) /\ Powered(u) /\ u.off \in BOOLEAN
  BY <1>7 DEF After, Sane, Good, Devices
<1>9. CASE m = u.mode
  BY <1>1, <1>7, <1>9
<1>10. CASE m # u.mode
  <2>1. u.off = FALSE /\ m \in {"normal", "off", "low", "eco"} /\ u.lead = -u.since
    BY <1>4, <1>8, <1>10 DEF Powered
  <2> HIDE DEF m
  <2>2. /\ v \in Devices /\ SameStrip(u, v) /\ v.mode = m /\ v.off = u.off
        /\ v.since = u.since /\ v.lead = u.lead /\ v.ota = u.ota
    <3> DEFINE o == (m = "low")
    <3>0. o \in BOOLEAN /\ v = [u EXCEPT !.mode = m, !.lowOwed = o]
      OBVIOUS
    <3>1. v \in Devices
      <4> HIDE DEF o, v
      <4>1. [u EXCEPT !.mode = m, !.lowOwed = o] \in Devices
        BY <1>8, <2>1, <3>0 DEF Devices
      <4> QED BY <3>0, <4>1
    <3>2. SameStrip(u, v) /\ v.mode = m
      BY <1>8 DEF Devices, SameStrip, SameFace
    <3>3. v.off = u.off /\ v.since = u.since /\ v.lead = u.lead /\ v.ota = u.ota
      BY <1>8 DEF Devices
    <3> QED BY <3>1, <3>2, <3>3
  <2> HIDE DEF v
  <2>3. Looks(v)
    <3>1. Picture(v) = Picture(u)
      BY <2>2 DEF Picture, SameStrip, SameFace
    <3> QED BY <1>8, <2>2, <3>1 DEF Looks, SameStrip, SameFace
  <2>4. CASE m = "off"
    <3>1. Is(t, PowerOff(v))
      BY <1>1, <1>10, <2>4 DEF Is
    <3>2. Sane(t) /\ t.ota = v.ota /\ t.since = v.since
      BY <2>1, <2>2, <2>3, <3>1, PowerOffIs
    <3> QED BY <1>7, <2>2, <3>2 DEF After
  <2>5. CASE m # "off"
    <3>1. t = v
      BY <1>1, <1>10, <2>5
    <3>2. Powered(v)
      BY <1>8, <2>1, <2>2, <2>5 DEF Powered
    <3>3. DueSoon(v)
      BY <1>8, <2>2 DEF Sane, DueSoon, Unseen, SameStrip
    <3> QED BY <1>7, <2>2, <2>3, <3>1, <3>2, <3>3 DEF After, Sane, Good
  <2> QED BY <2>4, <2>5
<1> QED BY <1>9, <1>10

\* What a reading that leaves the device on has no part in.
Steady(s, t) ==
    /\ t.off = s.off /\ t.anim = s.anim /\ t.ota = s.ota
    /\ t.sos = s.sos /\ t.muted = s.muted /\ t.pairing = s.pairing

\* PowerOff switches off, whatever the strip shows.
LEMMA PowerOffGoes ==
    ASSUME NEW s, "off" \in DOMAIN s, "dark" \in DOMAIN s, s.off = FALSE, NEW t, Is(t, PowerOff(s))
    PROVE  t.off = TRUE
<1> DEFINE p == [s EXCEPT !.pairing = FALSE]
           u == StopPairing(s)
           v == [u EXCEPT !.off = TRUE, !.mode = "off", !.lowOwed = FALSE]
           w == Play(v, "idle", 0)
<1>1. t = [w EXCEPT !.dark = TRUE, !.drawn = Unlit, !.resting = TRUE]
  BY DEF Is, PowerOff, Darken
<1>2. "off" \in DOMAIN p
  OBVIOUS
<1> HIDE DEF p
<1>3. u = s \/ u = p \/ u = Play(p, "idle", 0)
  BY DEF StopPairing, Stop, p
<1> HIDE DEF u
<1>4. "off" \in DOMAIN u
  BY <1>2, <1>3 DEF Play
<1>5. "off" \in DOMAIN v /\ v.off = TRUE
  BY <1>4
<1> HIDE DEF v
<1>6. "off" \in DOMAIN w /\ w.off = TRUE
  BY <1>5 DEF Play
<1> HIDE DEF w
<1> QED BY <1>1, <1>6

LEMMA ReadSteady ==
    ASSUME NEW s, Sane(s), s.off = FALSE, NEW b \in Readings, NEW f \in BOOLEAN, NEW t, Is(t, Read(s, b, f))
    PROVE  t.off = TRUE \/ Steady(s, t)
<1> DEFINE l == Learn(s, b)
           u == [l EXCEPT !.plug = b.charging, !.fix = f]
           m == IF u.off THEN u.mode ELSE ModeFor(b, Percent(l, b))
           o == (m = "low")
           v == [u EXCEPT !.mode = m, !.lowOwed = o]
           peak == IF b.volts > s.peakV /\ PlausibleVolts(b.volts) THEN b.volts ELSE s.peakV
           q == [s EXCEPT !.peakV = peak]
<1>1. t = IF m = u.mode THEN u ELSE IF m = "off" THEN PowerOff(v) ELSE v
  BY DEF Is, Read, ApplyPowerMode
<1>2. s \in Devices
  BY DEF Sane, Good
<1>3. l \in {q, [q EXCEPT !.prevV = peak], [q EXCEPT !.maxV = peak - Margin]}
  BY DEF Learn
<1>4. l \in Devices
  BY <1>2, LearnIs DEF Is, Beside
<1> HIDE DEF peak
<1>5. DOMAIN q = DOMAIN s /\ Steady(s, q)
  BY <1>2 DEF Devices, Steady
<1> HIDE DEF q
<1>6. Steady(q, [q EXCEPT !.prevV = peak]) /\ Steady(q, [q EXCEPT !.maxV = peak - Margin]) /\ Steady(q, q)
  BY <1>2, <1>5 DEF Devices, Steady
<1>7. Steady(s, l)
  BY <1>3, <1>5, <1>6 DEF Steady
<1> HIDE DEF l
<1>8. Steady(l, u) /\ DOMAIN u = DOMAIN l
  BY <1>4 DEF Devices, Steady
<1> HIDE DEF u, m, o
<1>9. Steady(u, v) /\ DOMAIN v = DOMAIN u
  BY <1>4, <1>8 DEF Devices, Steady
<1>10. Steady(s, u) /\ Steady(s, v) /\ v.off = FALSE
  BY <1>7, <1>8, <1>9 DEF Steady
<1>11. CASE t = PowerOff(v)
  <2>1. "off" \in DOMAIN v /\ "dark" \in DOMAIN v
    BY <1>4, <1>8, <1>9 DEF Devices
  <2> HIDE DEF v
  <2>2. Is(t, PowerOff(v))
    BY <1>11 DEF Is
  <2> QED BY <1>10, <2>1, <2>2, PowerOffGoes
<1> QED BY <1>1, <1>10, <1>11

\* A field beside the strip is set and a picture played, or one stopped.
LEMMA FlagsAfter ==
    ASSUME NEW s, Sane(s), NEW x \in BOOLEAN, NEW y \in BOOLEAN
    PROVE  /\ After(s, [s EXCEPT !.muted = x])
           /\ After(s, [s EXCEPT !.sos = x])
           /\ After(s, [s EXCEPT !.sos = x, !.muted = y])
           /\ After(s, [s EXCEPT !.pairing = x])
<1>1. s \in Devices
  BY DEF Sane, Good
<1>2. Beside(s, [s EXCEPT !.muted = x]) /\ [s EXCEPT !.muted = x].ota = s.ota
  BY <1>1 DEF Beside, Devices, SameStrip, SameFace, SamePower
<1>3. Beside(s, [s EXCEPT !.sos = x]) /\ [s EXCEPT !.sos = x].ota = s.ota
  BY <1>1 DEF Beside, Devices, SameStrip, SameFace, SamePower
<1>4. Beside(s, [s EXCEPT !.sos = x, !.muted = y]) /\ [s EXCEPT !.sos = x, !.muted = y].ota = s.ota
  <2> DEFINE u == [s EXCEPT !.sos = x, !.muted = y]
  <2>1. u \in Devices
    BY <1>1 DEF Devices
  <2>2. SameStrip(s, u) /\ SamePower(s, u) /\ u.ota = s.ota
    BY <1>1 DEF Devices, SameStrip, SameFace, SamePower
  <2> QED BY <2>1, <2>2 DEF Beside
<1>5. Beside(s, [s EXCEPT !.pairing = x]) /\ [s EXCEPT !.pairing = x].ota = s.ota
  BY <1>1 DEF Beside, Devices, SameStrip, SameFace, SamePower
<1> QED BY <1>2, <1>3, <1>4, <1>5, BesideAfter

LEMMA MuteAfter == ASSUME NEW s, Sane(s), NEW t, Is(t, MuteSOS(s)) PROVE After(s, t)
<1> DEFINE u == [s EXCEPT !.muted = TRUE]
           v == [s EXCEPT !.muted = FALSE]
<1>1. After(s, u) /\ After(s, v) /\ "sos" \in Animations
  BY FlagsAfter DEF Animations, OpenEnded
<1>2. Is(t, Stop(u, "sos", 0)) \/ Is(t, Play(v, "sos", 0)) \/ t = v
  BY DEF Is, MuteSOS
<1> HIDE DEF u, v
<1>3. Sane(u) /\ Sane(v)
  BY <1>1 DEF After
<1>4. After(u, t) \/ After(v, t) \/ t = v
  BY <1>1, <1>2, <1>3, StopAfter, PlayAfter
<1> QED BY <1>1, <1>4, AfterBoth

LEMMA SetSOSAfter ==
    ASSUME NEW s, Sane(s), NEW on \in BOOLEAN, NEW t, Is(t, SetSOS(s, on))
    PROVE  After(s, t)
<1> DEFINE u == [s EXCEPT !.sos = FALSE, !.muted = FALSE]
           v == [s EXCEPT !.sos = TRUE]
<1>1. After(s, u) /\ After(s, v) /\ "sos" \in Animations
  BY FlagsAfter DEF Animations, OpenEnded
<1>2. Is(t, Stop(u, "sos", 0)) \/ Is(t, Play(v, "sos", 0)) \/ t = v
  BY DEF Is, SetSOS
<1> HIDE DEF u, v
<1>3. Sane(u) /\ Sane(v)
  BY <1>1 DEF After
<1>4. After(u, t) \/ After(v, t) \/ t = v
  BY <1>1, <1>2, <1>3, StopAfter, PlayAfter
<1> QED BY <1>1, <1>4, AfterBoth

LEMMA StartPairingAfter == ASSUME NEW s, Sane(s), NEW t, Is(t, StartPairing(s)) PROVE After(s, t)
<1> DEFINE u == [s EXCEPT !.pairing = TRUE]
<1>1. After(s, u) /\ "pairing" \in Animations
  BY FlagsAfter DEF Animations, OpenEnded
<1>2. t = s \/ Is(t, Play(u, "pairing", 0))
  BY DEF Is, StartPairing
<1> HIDE DEF u
<1>3. Sane(u)
  BY <1>1 DEF After
<1> QED BY <1>1, <1>2, <1>3, AfterSelf, PlayAfter, AfterBoth

LEMMA ColorAfter ==
    ASSUME NEW s, Sane(s), NEW c \in Colors, NEW t, Is(t, SetColor(s, c))
    PROVE  After(s, t)
<1> DEFINE u == SetDefaultColor(s, c)
<1>1. Refaced(s, u)
  BY FaceSets DEF Sane, Good
<1>2. Is(t, Tick(u, 0))
  BY DEF Is, SetColor
<1> HIDE DEF u
<1>3. After(s, u)
  BY <1>1, RefacedAfter
<1>4. Sane(u)
  BY <1>3 DEF After
<1> QED BY <1>2, <1>3, <1>4, TickAfter, AfterBoth

LEMMA BrightnessAfter == ASSUME NEW s, Sane(s), NEW t, Is(t, ToggleBrightness(s)) PROVE After(s, t)
<1> DEFINE u == SetDimmed(s, ~s.dimmed)
<1>1. Refaced(s, u)
  BY FaceSets DEF Sane, Good, Devices
<1>2. Is(t, Tick(u, 0))
  BY DEF Is, ToggleBrightness
<1> HIDE DEF u
<1>3. After(s, u)
  BY <1>1, RefacedAfter
<1>4. Sane(u)
  BY <1>3 DEF After
<1> QED BY <1>2, <1>3, <1>4, TickAfter, AfterBoth

LEMMA GestureAfter ==
    ASSUME NEW s, Sane(s), NEW g, NEW t, Is(t, Gesture(s, g))
    PROVE  After(s, t)
<1>1. \/ Is(t, PowerOn(s)) \/ t = s \/ Is(t, PowerOff(s)) \/ Is(t, ToggleBrightness(s))
      \/ Is(t, MuteSOS(s)) \/ Is(t, SetSOS(s, TRUE)) \/ Is(t, StartPairing(s))
  BY DEF Is, Gesture
<1> QED BY <1>1, PowerOnAfter, AfterSelf, PowerOffAfter, BrightnessAfter, MuteAfter, SetSOSAfter,
           StartPairingAfter

\* The state of an update is beside the strip, too.
LEMMA OtaBeside ==
    ASSUME NEW s \in Devices, NEW o \in {"idle", "checking", "downloading", "done", "failed"},
           NEW t, Is(t, [s EXCEPT !.ota = o])
    PROVE  Beside(s, t) /\ t.ota = o
BY DEF Is, Beside, Devices, SameStrip, SameFace, SamePower

LEMMA OtaSane ==
    ASSUME NEW s, Good(s), NEW o \in {"idle", "checking", "downloading", "done", "failed"},
           NEW t, Is(t, [s EXCEPT !.ota = o])
    PROVE  /\ Good(t) /\ t.ota = o /\ t.since = s.since /\ t.off = s.off /\ t.dark = s.dark
           /\ DueSoon(s) => DueSoon(t)
<1>1. Beside(s, t) /\ t.ota = o
  BY OtaBeside DEF Good
<1> QED BY <1>1, BesideIs DEF Beside, SamePower, SameStrip, SameFace

\* A picture an update plays.
LEMMA PlayNow ==
    ASSUME NEW s, Good(s), NEW a \in Animations, NEW t, Is(t, Play(s, a, 0))
    PROVE  /\ Good(t) /\ Due(t) /\ DueSoon(t)
           /\ t.ota = s.ota /\ t.since = s.since /\ t.off = s.off
           /\ ~s.off => t.anim = a
<1>1. 0 \in 0 .. MaxTook /\ s \in Devices /\ Looks(s) /\ Powered(s)
  BY TimesAssumption DEF Good
<1>2. Played(s, a, 0, t)
  BY <1>1, PlayIs
<1>3. Looks(t) /\ Powered(t) /\ Due(t) /\ DueSoon(t)
  BY <1>1, PlayGood
<1> QED BY <1>1, <1>2, <1>3 DEF Good, Played, SameBody, Looks

\* An update that begins is under way on a device that is on, or has failed.
Begun(s, t) ==
    /\ Good(t) /\ Due(t) /\ DueSoon(t) /\ t.since \in {s.since, 0}
    /\ t.ota \in {"checking", "failed"}
    /\ t.ota = "checking" => ~t.off /\ t.anim = "wifi"

LEMMA BeginIs ==
    ASSUME NEW s, Sane(s), NEW b \in Readings, NEW f \in BOOLEAN, NEW t, Is(t, Begin(s, b, f))
    PROVE  Begun(s, t)
<1> DEFINE q == [s EXCEPT !.ota = "checking"]
           r == SetShare(q, 0)
           u == IF r.off THEN r ELSE Read(r, b, f)
           v == [u EXCEPT !.ota = "failed"]
<1>0. "otafail" \in Animations /\ "wifi" \in Animations /\ 0 \in Shares
  BY TimesAssumption DEF Animations, Timed, OpenEnded, Shares
<1>1. Is(t, Play(v, "otafail", 0)) \/ (~u.off /\ Is(t, Play(u, "wifi", 0)))
  BY DEF Is, Begin
<1>2. Sane(q) /\ q.ota = "checking" /\ q.since = s.since
  BY OtaSane DEF Sane, Is
<1> HIDE DEF q
<1>3. After(q, r)
  BY <1>0, <1>2, FaceSets, RefacedAfter DEF Sane, Good
<1> HIDE DEF r
<1>4. After(r, u)
  <2>1. CASE r.off
    BY <1>3, <2>1, AfterSelf DEF After
  <2>2. CASE ~r.off
    BY <1>3, <2>2, ReadAfter DEF After, Is
  <2> QED BY <2>1, <2>2
<1> HIDE DEF u
<1>5. After(q, u)
  BY <1>3, <1>4, AfterBoth
<1>6. Good(u) /\ u.ota = "checking" /\ u.since \in {s.since, 0}
  BY <1>2, <1>5 DEF After, Sane
<1>7. Good(v) /\ v.ota = "failed" /\ v.since = u.since
  BY <1>6, OtaSane DEF Is
<1> HIDE DEF v
<1>8. CASE Is(t, Play(v, "otafail", 0))
  BY <1>0, <1>6, <1>7, <1>8, PlayNow DEF Begun
<1>9. CASE ~u.off /\ Is(t, Play(u, "wifi", 0))
  BY <1>0, <1>6, <1>9, PlayNow DEF Begun
<1> QED BY <1>1, <1>8, <1>9

-----------------------------------------------------------------------------
(* The rest of a poll. *)

\* A picture that the coming frame would miss has all of its time left.
Awaits(s, lag) == Unseen(s) /\ s.age < lag => s.age >= 0 /\ s.left = FlashLen

\* A step of the poll before the strip is looked at.
Onward(s, t, lag) ==
    Good(t) /\ Awaits(t, lag) /\ t.ota = s.ota /\ t.since = s.since

LEMMA BesideOnward ==
    ASSUME NEW s, Good(s), NEW lag \in 0 .. MaxTook, Awaits(s, lag), NEW t, Beside(s, t), t.ota = s.ota
    PROVE  Onward(s, t, lag)
<1>1. Good(t) /\ Unseen(t) = Unseen(s)
  BY BesideIs
<1> QED BY <1>1 DEF Onward, Awaits, Beside, SameStrip, SamePower

LEMMA PlayOnward ==
    ASSUME NEW s, Good(s), NEW lag \in 0 .. MaxTook, NEW a \in Animations,
           NEW t, Is(t, Play(s, a, lag))
    PROVE  Onward(s, t, lag)
<1>1. s \in Devices /\ Looks(s) /\ Powered(s) /\ s.dark \in BOOLEAN
  BY DEF Good, Devices
<1>2. Played(s, a, lag, t)
  BY <1>1, PlayIs
<1>3. Looks(t) /\ Powered(t) /\ (s.dark => ~Unseen(t))
  BY <1>1, PlayGood
<1>4. Awaits(t, lag)
  BY <1>1, <1>2, <1>3 DEF Awaits, Played
<1> QED BY <1>2, <1>3, <1>4 DEF Onward, Good, Played, SameBody

LEMMA ChargerOnward ==
    ASSUME NEW s, Good(s), NEW lag \in 0 .. MaxTook, Awaits(s, lag), NEW t, Is(t, ChargerRing(s, lag))
    PROVE  Onward(s, t, lag)
<1> DEFINE h == IF s.held < lag THEN lag ELSE s.held
           u == Charging(s, lag)
           v == [u EXCEPT !.shown = TRUE]
<1>1. t = u \/ Is(t, Play(v, "boot", lag))
  BY DEF Is, ChargerRing
<1>2. s \in Devices /\ h \in Helds /\ None \in Helds /\ "boot" \in Animations
  BY TimesAssumption DEF Good, Devices, Helds, None, Animations, Timed
<1>3. u \in {[s EXCEPT !.held = None, !.shown = FALSE], [s EXCEPT !.shown = TRUE], [s EXCEPT !.held = h]}
  BY DEF Charging
<1> HIDE DEF h, u
<1>4. Beside(s, [s EXCEPT !.held = None, !.shown = FALSE])
      /\ [s EXCEPT !.held = None, !.shown = FALSE].ota = s.ota
  BY <1>2 DEF Beside, Devices, SameStrip, SameFace, SamePower
<1>5. Beside(s, [s EXCEPT !.shown = TRUE]) /\ [s EXCEPT !.shown = TRUE].ota = s.ota
  BY <1>2 DEF Beside, Devices, SameStrip, SameFace, SamePower
<1>6. Beside(s, [s EXCEPT !.held = h]) /\ [s EXCEPT !.held = h].ota = s.ota
  BY <1>2 DEF Beside, Devices, SameStrip, SameFace, SamePower
<1>7. Onward(s, u, lag)
  BY <1>3, <1>4, <1>5, <1>6, BesideOnward
<1>8. Good(u) /\ Awaits(u, lag) /\ u \in Devices
  BY <1>7 DEF Onward, Good
<1>9. Beside(u, v) /\ v.ota = u.ota
  BY <1>8 DEF Beside, Devices, SameStrip, SameFace, SamePower
<1> HIDE DEF v
<1>10. Onward(u, v, lag)
  BY <1>8, <1>9, BesideOnward
<1>11. Is(t, Play(v, "boot", lag)) => Onward(v, t, lag)
  BY <1>2, <1>10, PlayOnward DEF Onward
<1> QED BY <1>1, <1>7, <1>10, <1>11 DEF Onward

LEMMA ReminderOnward ==
    ASSUME NEW s, Good(s), NEW lag \in 0 .. MaxTook, Awaits(s, lag), NEW t, Is(t, Reminder(s, lag))
    PROVE  Onward(s, t, lag)
<1> DEFINE v == [s EXCEPT !.lowOwed = FALSE]
<1>1. t = s \/ Is(t, Play(v, "lowbatt", lag))
  BY DEF Is, Reminder
<1>2. s \in Devices /\ "lowbatt" \in Animations
  BY DEF Good, Animations, Timed
<1>3. Beside(s, v) /\ v.ota = s.ota
  BY <1>2 DEF Beside, Devices, SameStrip, SameFace, SamePower
<1> HIDE DEF v
<1>4. Onward(s, v, lag)
  BY <1>3, BesideOnward
<1>5. Is(t, Play(v, "lowbatt", lag)) => Onward(v, t, lag)
  BY <1>2, <1>4, PlayOnward DEF Onward
<1> QED BY <1>1, <1>4, <1>5 DEF Onward

\* Division by a positive number.
LEMMA DivIs ==
    ASSUME NEW a \in Int, NEW k \in Nat \ {0}
    PROVE  a \div k \in Int /\ k * (a \div k) <= a /\ a < k * (a \div k) + k
OBVIOUS

\* sleep books what has passed up to the time it was handed.
LEMMA SleepIs ==
    ASSUME NEW s, Good(s), NEW lag \in 0 .. MaxTook, Awaits(s, lag), s.since >= lag,
           NEW t, Is(t, Sleep(s, lag))
    PROVE  Good(t) /\ Awaits(t, lag) /\ t.ota = s.ota /\ t.since = lag /\ t.off = s.off
<1> DEFINE l == IF s.off THEN 0 ELSE s.lead + (s.since - lag)
           x == IF s.off THEN 0 ELSE (s.since - lag) - Millis(s.since - lag)
<1>1. /\ s \in Devices /\ Looks(s) /\ Powered(s) /\ s.off \in BOOLEAN
      /\ s.since \in Nat /\ s.lead \in Int /\ lag \in Nat
  BY TimesAssumption DEF Good, Devices, Spans, Leads
<1>2. t = [s EXCEPT !.since = lag, !.lead = l, !.lost = x]
  <2>1. CASE s.off
    BY <2>1 DEF Is, Sleep
  <2>2. CASE ~s.off
    <3>1. (IF s.since < lag THEN 0 ELSE s.since - lag) = s.since - lag
      BY <1>1
    <3> QED BY <2>2, <3>1 DEF Is, Sleep
  <2> QED BY <2>1, <2>2
<1>3. l \in Int /\ l \in -lag .. 0 /\ (~s.off => l = -lag)
  BY <1>1 DEF Powered
<1>4. lag \in Spans /\ l \in Leads
  BY <1>1, <1>3, TimesAssumption DEF Spans, Leads
<1>9. x \in Losses
  <2>1. Milli \in Nat \ {0} /\ s.since - lag \in Int
    BY <1>1, TimesAssumption
  <2> DEFINE n == s.since - lag
             d == n \div Milli
  <2>2. d \in Int /\ Milli * d <= n /\ n < Milli * d + Milli
    BY <2>1, DivIs
  <2>3. Milli * d \in Int /\ Millis(n) = Milli * d
    BY <2>1, <2>2 DEF Millis
  <2> HIDE DEF n, d
  <2>4. n - Millis(n) \in 0 .. Milli - 1 /\ 0 \in 0 .. Milli - 1
    BY <2>1, <2>2, <2>3 DEF n
  <2> QED BY <2>4 DEF Losses, n
<1> HIDE DEF l, x
<1>5. /\ t \in Devices /\ SameStrip(s, t) /\ t.off = s.off /\ t.mode = s.mode /\ t.ota = s.ota
      /\ t.since = lag /\ t.lead = l
  <2>1. [s EXCEPT !.since = lag, !.lead = l, !.lost = x] \in Devices
    BY <1>1, <1>4, <1>9 DEF Devices
  <2>2. SameStrip(s, t)
    BY <1>1, <1>2 DEF Devices, SameStrip, SameFace
  <2>3. t.off = s.off /\ t.mode = s.mode /\ t.ota = s.ota /\ t.since = lag /\ t.lead = l
    BY <1>1, <1>2 DEF Devices
  <2> QED BY <1>2, <2>1, <2>2, <2>3
<1>6. Looks(t)
  <2>1. Picture(t) = Picture(s)
    BY <1>5 DEF Picture, SameStrip, SameFace
  <2> QED BY <1>1, <1>5, <2>1 DEF Looks, SameStrip, SameFace
<1>7. Powered(t)
  BY <1>1, <1>3, <1>5 DEF Powered
<1>8. Awaits(t, lag)
  BY <1>5 DEF Awaits, Unseen, SameStrip
<1> QED BY <1>5, <1>6, <1>7, <1>8 DEF Good

LEMMA WantedIs == ASSUME NEW s PROVE Wanted(s) \in OpenEnded /\ Wanted(s) \in Animations
BY DEF Wanted, OpenEnded, Animations

LEMMA WantedSame == ASSUME NEW s, NEW t, SameBody(s, t) PROVE Wanted(t) = Wanted(s)
BY DEF Wanted, SameBody, Running

\* The strip shows what the state calls for, or a passing flash.
Shows(s) == s.anim \in OpenEnded => s.anim = Wanted(s)

LEMMA RestoreIs ==
    ASSUME NEW s, Good(s), s.off = FALSE, NEW lag \in 0 .. MaxTook, NEW t, Is(t, Restore(s, lag))
    PROVE  /\ Good(t) /\ SameBody(s, t) /\ Shows(t)
           /\ Unseen(t) => t = s
<1> DEFINE w == Wanted(s)
           u == Play(s, w, lag)
<1>1. CASE s.anim \in OpenEnded /\ s.anim # w
  <2>1. Is(t, Tick(u, lag))
    BY <1>1 DEF Is, Restore
  <2>2. w \in OpenEnded /\ w \in Animations
    BY WantedIs
  <2>3. s \in Devices /\ Looks(s) /\ Powered(s) /\ s.dark = FALSE
    BY DEF Good, Looks
  <2>4. Is(u, Play(s, w, lag))
    BY DEF Is
  <2> HIDE DEF u, w
  <2>5. Played(s, w, lag, u)
    BY <2>2, <2>3, <2>4, PlayIs
  <2>6. Looks(u) /\ Powered(u) /\ ~Unseen(u)
    BY <2>2, <2>3, <2>4, PlayGood
  <2>7. Good(u) /\ SameBody(s, u) /\ u.anim = w
    BY <2>3, <2>5, <2>6 DEF Good, Played
  <2>8. Good(t) /\ SameBody(u, t) /\ ~Unseen(t) /\ t.anim = w
    BY <2>1, <2>2, <2>6, <2>7, TickIs
  <2>9. SameBody(s, t)
    BY <2>7, <2>8 DEF SameBody
  <2>10. Wanted(t) = w
    BY <2>9, WantedSame DEF w
  <2> QED BY <2>8, <2>9, <2>10 DEF Shows
<1>2. CASE ~(s.anim \in OpenEnded /\ s.anim # w)
  <2>1. t = s
    BY <1>2 DEF Is, Restore
  <2> QED BY <1>2, <2>1 DEF Shows, SameBody
<1> QED BY <1>1, <1>2

\* What a poll leaves: the strip on the wall clock, and the alarm shown.
Polled(s, t, lag) ==
    /\ Sane(t) /\ t.ota = s.ota /\ t.since = lag
    /\ t.off \/ Shows(t)

LEMMA AfterInputsIs ==
    ASSUME NEW s, Good(s), NEW lag \in 0 .. MaxTook, Awaits(s, lag), s.since >= lag,
           NEW at \in Dials, NEW t, Is(t, AfterInputs(s, lag, at))
    PROVE  Polled(s, t, lag)
<1> DEFINE p == ChargerRing(s, lag)
           q == Reminder(p, lag)
           r == Sleep(q, lag)
           d == IF r.fix THEN at ELSE None
           u == SetDial(r, d)
           v == Tick(u, lag)
<1>1. t = IF r.off THEN r ELSE Restore(v, lag)
  BY DEF Is, AfterInputs, UpdateDial
<1>2. Onward(s, p, lag)
  BY ChargerOnward DEF Is
<1> HIDE DEF p
<1>3. Onward(p, q, lag)
  BY <1>2, ReminderOnward DEF Is, Onward
<1> HIDE DEF q
<1>4. Good(q) /\ Awaits(q, lag) /\ q.ota = s.ota /\ q.since >= lag
  BY <1>2, <1>3 DEF Onward
<1>5. Good(r) /\ Awaits(r, lag) /\ r.ota = s.ota /\ r.since = lag
  BY <1>4, SleepIs DEF Is
<1>6. d \in Dials
  BY DEF Dials
<1> HIDE DEF r, d
<1>7. r \in Devices /\ Looks(r) /\ r.off \in BOOLEAN
  BY <1>5 DEF Good, Devices
<1>8. CASE r.off
  <2>1. ~Unseen(r)
    BY <1>7, <1>8 DEF Looks, Unseen, Timed
  <2> QED BY <1>1, <1>5, <1>8, <2>1 DEF Polled, Sane, DueSoon
<1>9. CASE r.off = FALSE
  <2>1. Refaced(r, u)
    BY <1>6, <1>7, FaceSets
  <2> HIDE DEF u
  <2>2. Good(u) /\ Unseen(u) = Unseen(r) /\ SameBody(r, u)
    BY <1>5, <2>1, RefacedGood DEF Refaced
  <2>3. r.age \in Int /\ lag \in Int /\ FlashLen \in Nat /\ MaxGap \in Nat
    BY <1>7, TimesAssumption DEF Devices, Ages
  <2>4. Awaits(u, lag)
    BY <1>5, <2>1, <2>2, <2>3 DEF Awaits, Refaced
  <2>5. Good(v) /\ SameBody(u, v) /\ (Unseen(v) => v = u /\ u.age < lag)
    BY <2>2, TickIs DEF Is
  <2> HIDE DEF v
  <2>6. v.off = FALSE /\ v.since = lag /\ v.ota = s.ota
    BY <1>5, <1>9, <2>2, <2>5 DEF SameBody
  <2>7. DueSoon(v)
    BY <2>3, <2>4, <2>5, <2>6 DEF DueSoon, Awaits
  <2>8. Is(t, Restore(v, lag))
    BY <1>1, <1>9 DEF Is
  <2>9. Good(t) /\ SameBody(v, t) /\ Shows(t) /\ (Unseen(t) => t = v)
    BY <2>5, <2>6, <2>8, RestoreIs
  <2>10. DueSoon(t)
    BY <2>7, <2>9 DEF DueSoon
  <2> QED BY <2>6, <2>9, <2>10 DEF Polled, Sane, SameBody
<1> QED BY <1>7, <1>8, <1>9

-----------------------------------------------------------------------------
(* The loop. *)

Outcomes == {"idle", "done", "failed"}

\* A device the loop may go on with: nothing is under way, nothing overdue.
Ready(s) == Sane(s) /\ s.ota \in Outcomes

LEMMA RunningIs ==
    ASSUME NEW s \in Devices
    PROVE  ~Running(s) <=> s.ota \in Outcomes
BY DEF Devices, Running, Outcomes

\* How far the last look may lie back in a loop that waits for a command.
Reach(c) == IF c THEN MaxGap + MaxTook ELSE MaxGap + 2 * MaxTook

LEMMA AtLoop ==
    ASSUME DeviceInv, pc = "loop"
    PROVE  Ready(dev) /\ took = 0 /\ dev.since \in Nat /\ dev.since <= Reach(cmd)
<1>1. dev \in Devices /\ Good(dev) /\ ~Running(dev) /\ DueSoon(dev) /\ took = 0
  BY DEF DeviceInv, Place, Good
<1>2. dev.since \in Nat
  BY <1>1, TimesAssumption DEF Devices, Spans
<1>3. dev.since <= Reach(cmd)
  BY <1>1, <1>2, TimesAssumption DEF DeviceInv, Place, Ahead, Reach
<1> QED BY <1>1, <1>2, <1>3, RunningIs DEF Ready, Sane

\* The loop goes on.
LEMMA ToLoop ==
    ASSUME Ready(dev'), pc' = "loop", ret' \in {"poll", "cmd"}, took' = 0, cmd' \in BOOLEAN, over' \in BOOLEAN, kit' \in Kits,
           dev'.since <= Reach(cmd'), AlarmBack'
    PROVE  DeviceInv'
<1>1. dev' \in Devices /\ Good(dev') /\ DueSoon(dev') /\ dev'.ota \in Outcomes
  BY DEF Ready, Sane, Good
<1>2. dev'.since \in Nat /\ MaxTook \in Nat
  BY <1>1, TimesAssumption DEF Devices, Spans
<1>3. ~Running(dev')
  BY <1>1 DEF Running, Outcomes
<1>4. dev'.since <= Ahead' /\ dev'.since >= took' /\ took' \in 0 .. MaxTook
  BY <1>2, TimesAssumption DEF Ahead, Reach
<1>5. Place'
  BY <1>1, <1>3, <1>4 DEF Place
<1> QED BY <1>1, <1>5 DEF DeviceInv

\* An update goes on, or the poll it was tapped in is to be finished.
LEMMA ToUpdate ==
    ASSUME Good(dev'), ret' \in {"poll", "cmd"}, took' \in 0 .. MaxTook, cmd' \in BOOLEAN, over' \in BOOLEAN, kit' \in Kits,
           ret' = "cmd" => ~cmd',
           dev'.since >= took', dev'.since <= Reach(ret' = "cmd") + took',
           \/ pc' = "ask" /\ dev'.ota = "checking" /\ dev'.anim = "wifi" /\ ~dev'.off
           \/ pc' = "get" /\ dev'.ota = "downloading" /\ dev'.anim = "ota" /\ ~dev'.off
           \/ pc' = "tail" /\ dev'.ota \in Outcomes /\ ret' = "poll" /\ Due(dev')
    PROVE  DeviceInv'
<1>1. pc' # "loop" /\ pc' \in {"loop", "ask", "get", "tail"}
  OBVIOUS
<1>2. AlarmBack'
  BY <1>1 DEF AlarmBack
<1>3. dev'.since <= Ahead'
  BY <1>1 DEF Ahead, Reach
<1>4. pc' = "tail" => ~Running(dev')
  BY DEF Running, Outcomes
<1>5. Place'
  BY <1>1, <1>3, <1>4 DEF Place
<1> QED BY <1>2, <1>5 DEF DeviceInv

\* New, before the first reading.
LEMMA FreshSane ==
    ASSUME NEW c \in Colors, NEW s, Is(s, Fresh(c))
    PROVE  Sane(s) /\ s.ota = "idle" /\ s.since = 0
<1>0. /\ 0 \in Nat /\ 0 \in Int /\ None \in Helds /\ 0 \in Spans /\ 0 \in Leads /\ "boot" \in Animations
      /\ 0 \in Losses /\ FlashLen \in Lefts /\ 0 \in Ages /\ None \in Dials /\ 0 \in Shares /\ Unlit \in Pictures
      /\ FlashLen \in Nat /\ MaxGap \in Nat
  BY TimesAssumption
     DEF Helds, Spans, Leads, Losses, Animations, Timed, Lefts, Ages, Dials, Shares, Pictures, None
<1>1. s \in Devices
  BY <1>0 DEF Is, Fresh, Devices
<1>2. /\ s.off = FALSE /\ s.dark = FALSE /\ s.resting = FALSE /\ s.mode = "normal" /\ s.since = 0
      /\ s.lead = 0 /\ s.age = 0 /\ s.left = FlashLen /\ s.ota = "idle"
  BY DEF Is, Fresh
<1>3. Looks(s)
  BY <1>2 DEF Looks
<1>4. Powered(s)
  <2>1. s.lead \in Int /\ s.since \in Nat /\ s.since + s.lead = 0
    BY <1>2
  <2>2. s.lead = -s.since /\ s.lead \in -s.since .. 0
    BY <2>1
  <2> QED BY <1>2, <2>2 DEF Powered
<1>5. DueSoon(s)
  BY <1>0, <1>2 DEF DueSoon
<1> QED BY <1>1, <1>2, <1>3, <1>4, <1>5 DEF Sane, Good

LEMMA DeviceInit == Init => DeviceInv
<1> SUFFICES ASSUME Init PROVE DeviceInv
  OBVIOUS
<1> DEFINE c == CHOOSE x \in Colors : TRUE
           s == Fresh(c)
<1>1. c \in Colors
  BY DataAssumption
<1>2. PICK b \in Readings, f \in BOOLEAN : dev = Read(s, b, f)
  BY DEF Init
<1> HIDE DEF c
<1>3. Sane(s) /\ s.ota = "idle" /\ s.since = 0
  BY <1>1, FreshSane DEF Is
<1> HIDE DEF s
<1>4. After(s, dev)
  BY <1>2, <1>3, ReadAfter DEF Is
<1>5. Good(dev) /\ DueSoon(dev) /\ dev.ota = "idle" /\ dev.since = 0
  BY <1>3, <1>4 DEF After, Sane
<1>6. pc = "loop" /\ ret = "cmd" /\ took = 0 /\ cmd = FALSE /\ over = FALSE /\ kit \in Kits
  BY DEF Init
<1>7. ~Running(dev)
  BY <1>5 DEF Running
<1>8. dev.since <= Ahead /\ dev.since >= took /\ took \in 0 .. MaxTook
  BY <1>5, <1>6, TimesAssumption DEF Ahead
<1>9. Place
  BY <1>5, <1>6, <1>7, <1>8 DEF Place
<1> QED BY <1>5, <1>6, <1>9 DEF DeviceInv, AlarmBack

\* The device a frame later.
Aged(s, t) ==
    /\ t.off = s.off /\ t.mode = s.mode /\ t.ota = s.ota /\ t.sos = s.sos /\ t.muted = s.muted
    /\ t.pairing = s.pairing /\ t.fix = s.fix /\ SameFace(s, t)
    /\ t.anim = s.anim /\ t.resting = s.resting /\ t.drawn = s.drawn
    /\ t.since = s.since + 1 /\ t.lead = s.lead - 1
    /\ s.left = 0 \/ t.left = s.left - 1
    /\ s.left = 0 => t.left = 0
    /\ s.age >= 0 => t.age >= 0

LEMMA AgedGood ==
    ASSUME NEW s, Good(s), s.since + 1 \in Spans, NEW t,
           Is(t, [s EXCEPT !.left = IF @ = 0 THEN 0 ELSE @ - 1,
                           !.age = IF @ = MaxTook THEN @ ELSE @ + 1,
                           !.held = Older(@, Announce + MaxTook + 1),
                           !.since = @ + 1, !.lead = @ - 1])
    PROVE  Good(t) /\ Aged(s, t)
<1> DEFINE l == IF s.left = 0 THEN 0 ELSE s.left - 1
           a == IF s.age = MaxTook THEN s.age ELSE s.age + 1
           h == Older(s.held, Announce + MaxTook + 1)
           n == s.since + 1
           d == s.lead - 1
           u == [s EXCEPT !.left = l, !.age = a, !.held = h]
<1>1. /\ s \in Devices /\ Looks(s) /\ Powered(s) /\ s.left \in Lefts /\ s.age \in Ages /\ s.held \in Helds
      /\ s.since \in Spans /\ s.lead \in Leads
  BY DEF Good, Devices
<1>2. l \in Lefts /\ (s.left = 0 => l = 0) /\ (s.left = 0 \/ l = s.left - 1)
  BY <1>1, TimesAssumption DEF Lefts
<1>3. a \in Ages /\ (s.age >= 0 => a >= 0)
  BY <1>1, TimesAssumption DEF Ages
<1>4. h \in Helds
  BY <1>1, TimesAssumption DEF Helds, Older, None
<1>5. s.since \in Nat /\ s.lead \in Int /\ s.lead \in -s.since .. 0
  BY <1>1, TimesAssumption DEF Spans, Leads, Powered
<1>6. n \in Spans /\ d \in Leads /\ d \in -n .. 0
  BY <1>5, TimesAssumption DEF Spans, Leads
<1>7. t = [u EXCEPT !.since = n, !.lead = d]
  BY <1>1 DEF Is, Devices
<1> HIDE DEF l, a, h
<1>8. /\ u \in Devices /\ SameFace(s, u) /\ SamePower(s, u)
      /\ u.ota = s.ota /\ u.sos = s.sos /\ u.muted = s.muted /\ u.pairing = s.pairing /\ u.fix = s.fix
      /\ u.anim = s.anim /\ u.resting = s.resting /\ u.drawn = s.drawn /\ u.left = l /\ u.age = a
  BY <1>1, <1>2, <1>3, <1>4 DEF Devices, SameFace, SamePower
<1> HIDE DEF u, n, d
<1>9. /\ t \in Devices /\ SameFace(u, t) /\ t.off = u.off /\ t.mode = u.mode
      /\ t.ota = u.ota /\ t.sos = u.sos /\ t.muted = u.muted /\ t.pairing = u.pairing /\ t.fix = u.fix
      /\ t.anim = u.anim /\ t.resting = u.resting /\ t.drawn = u.drawn /\ t.left = u.left /\ t.age = u.age
      /\ t.since = n /\ t.lead = d
  BY <1>6, <1>7, <1>8 DEF Devices, SameFace
<1>10. Aged(s, t)
  BY <1>2, <1>3, <1>8, <1>9 DEF Aged, SameFace, SamePower, n, d
<1>11. Picture(t) = Picture(s)
  BY <1>10 DEF Picture, Aged, SameFace
<1>12. Looks(t)
  BY <1>1, <1>10, <1>11 DEF Looks, Aged, SameFace
<1>13. ~s.off => d = -n
  BY <1>1, <1>5 DEF Powered, n, d
<1>14. Powered(t)
  BY <1>1, <1>6, <1>9, <1>10, <1>13 DEF Powered, Aged
<1> QED BY <1>9, <1>10, <1>12, <1>14 DEF Good

LEMMA AdvanceSound == ASSUME DeviceInv, Advance PROVE DeviceInv'
<1>1. Good(dev) /\ Place /\ dev \in Devices
  BY DEF DeviceInv, Good
<1>2. dev.since \in Nat /\ dev.left \in Nat /\ MaxGap \in Nat /\ MaxTook \in Nat /\ FlashLen \in Nat
  BY <1>1, TimesAssumption DEF Devices, Spans, Lefts
<1>3. Is(dev', [dev EXCEPT !.left = IF @ = 0 THEN 0 ELSE @ - 1,
                           !.age = IF @ = MaxTook THEN @ ELSE @ + 1,
                           !.held = Older(@, Announce + MaxTook + 1),
                           !.since = @ + 1, !.lead = @ - 1])
  BY DEF Advance, Is
<1>4. pc' = pc /\ ret' = ret /\ cmd' = cmd /\ over' = over /\ kit' = kit
  BY DEF Advance
<1>5. pc' \in {"loop", "ask", "get", "tail"} /\ ret' \in {"poll", "cmd"} /\ cmd' \in BOOLEAN /\ over' \in BOOLEAN /\ kit' \in Kits
  BY <1>1, <1>4 DEF Place
<1>6. CASE pc = "loop" /\ dev.since < MaxGap /\ UNCHANGED took
  <2>1. Ready(dev) /\ took = 0
    BY <1>6, AtLoop
  <2>2. dev.since + 1 \in Spans
    BY <1>2, <1>6 DEF Spans
  <2>3. Good(dev') /\ Aged(dev, dev')
    BY <1>1, <1>3, <2>2, AgedGood
  <2>4. Unseen(dev') = Unseen(dev)
    BY <2>3 DEF Unseen, Aged
  <2>5. DueSoon(dev')
    <3>1. ASSUME Unseen(dev') PROVE dev'.age >= 0 /\ dev'.left + dev'.since >= FlashLen /\ dev'.left + MaxGap >= FlashLen
      <4>1. dev.age >= 0 /\ dev.left + dev.since >= FlashLen
        BY <2>1, <2>4, <3>1 DEF Ready, Sane, DueSoon
      <4> QED BY <1>2, <1>6, <2>3, <4>1 DEF Aged
    <3> QED BY <3>1 DEF DueSoon
  <2>6. dev'.ota \in Outcomes /\ dev'.since <= Reach(cmd')
    BY <1>2, <1>6, <2>1, <2>3 DEF Ready, Aged, Reach
  <2>7. AlarmBack'
    <3>1. Wanted(dev') = Wanted(dev) /\ dev'.anim = dev.anim
      BY <2>3 DEF Aged, Wanted, Running
    <3> QED BY <1>4, <3>1 DEF DeviceInv, AlarmBack
  <2> QED BY <1>4, <1>5, <1>6, <2>1, <2>3, <2>5, <2>6, <2>7, ToLoop DEF Ready, Sane
<1>7. CASE pc \in {"ask", "get"} /\ took < MaxTook /\ took' = took + 1
  <2>1. took \in Nat /\ took' \in 0 .. MaxTook
    BY <1>1, <1>2, <1>7 DEF Place
  <2>2. /\ dev.since >= took /\ dev.since <= Reach(ret = "cmd") + took
        /\ ret = "cmd" => ~cmd
    BY <1>1, <1>7 DEF Place, Ahead, Reach
  <2>3. dev.since + 1 \in Spans
    BY <1>2, <1>7, <2>1, <2>2 DEF Spans, Reach
  <2>4. Good(dev') /\ Aged(dev, dev')
    BY <1>1, <1>3, <2>3, AgedGood
  <2>5. dev'.since >= took' /\ dev'.since <= Reach(ret' = "cmd") + took'
    BY <1>2, <1>4, <1>7, <2>1, <2>2, <2>4 DEF Aged, Reach
  <2>6. \/ pc' = "ask" /\ dev'.ota = "checking" /\ dev'.anim = "wifi" /\ ~dev'.off
        \/ pc' = "get" /\ dev'.ota = "downloading" /\ dev'.anim = "ota" /\ ~dev'.off
    BY <1>1, <1>4, <1>7, <2>4 DEF Place, Aged
  <2> QED BY <1>4, <1>5, <2>1, <2>2, <2>4, <2>5, <2>6, ToUpdate
<1> QED BY <1>6, <1>7 DEF Advance

LEMMA PollSound ==
    ASSUME DeviceInv, NEW b \in Readings, NEW f \in BOOLEAN, NEW g, NEW at \in Dials, Poll(b, f, g, at)
    PROVE  DeviceInv'
<1> DEFINE s == Read(dev, b, f)
           t == Gesture(s, g)
<1>0. MaxGap \in Nat /\ MaxTook \in Nat /\ 0 \in 0 .. MaxTook
  BY TimesAssumption
<1>1. pc = "loop" /\ cmd' = TRUE /\ over' = FALSE /\ kit' = kit
  BY DEF Poll
<1>2. Ready(dev) /\ took = 0 /\ dev.since \in Nat /\ dev.since <= Reach(cmd)
  BY <1>1, AtLoop
<1>3. ret \in {"poll", "cmd"} /\ kit' \in Kits
  BY <1>1 DEF DeviceInv, Place
<1>4. After(dev, s)
  BY <1>2, ReadAfter DEF Is, Ready
<1>5. CASE g = "update" /\ ~s.off
  <2>1. /\ Is(dev', Begin(s, b, f)) /\ pc' = IF dev'.ota = "checking" THEN "ask" ELSE "tail"
        /\ ret' = "poll" /\ took' = 0
    BY <1>5 DEF Poll, Is
  <2> HIDE DEF s
  <2>2. Begun(s, dev')
    BY <1>4, <2>1, BeginIs DEF After
  <2>3. dev'.since \in {dev.since, 0}
    BY <1>4, <2>2 DEF After, Begun
  <2>4. dev'.since >= took' /\ dev'.since <= Reach(ret' = "cmd") + took'
    BY <1>0, <1>2, <2>1, <2>3 DEF Reach
  <2>5. \/ pc' = "ask" /\ dev'.ota = "checking" /\ dev'.anim = "wifi" /\ ~dev'.off
        \/ pc' = "tail" /\ dev'.ota \in Outcomes /\ ret' = "poll" /\ Due(dev')
    BY <2>1, <2>2 DEF Begun, Outcomes
  <2> QED BY <1>0, <1>1, <1>3, <2>1, <2>2, <2>4, <2>5, ToUpdate DEF Begun
<1>6. CASE ~(g = "update" /\ ~s.off)
  <2>1. Is(dev', AfterInputs(t, 0, at)) /\ pc' = pc /\ ret' = ret /\ took' = took
    BY <1>6 DEF Poll, Is
  <2> HIDE DEF s
  <2>2. After(s, t)
    BY <1>4, GestureAfter DEF Is, After
  <2> HIDE DEF t
  <2>3. Good(t) /\ DueSoon(t) /\ t.ota = dev.ota
    BY <1>4, <2>2 DEF After, Sane
  <2>4. t.since \in Nat /\ t.age \in Int
    BY <2>3, TimesAssumption DEF Good, Devices, Spans, Ages
  <2>5. Awaits(t, 0) /\ t.since >= 0
    BY <2>3, <2>4 DEF Awaits, DueSoon
  <2>6. Polled(t, dev', 0)
    BY <1>0, <2>1, <2>3, <2>5, AfterInputsIs
  <2>7. AlarmBack'
    BY <2>6 DEF AlarmBack, Polled, Shows, Wanted, Restful
  <2>8. Ready(dev') /\ dev'.since <= Reach(cmd')
    BY <1>0, <1>2, <2>3, <2>6 DEF Ready, Polled, Reach
  <2> QED BY <1>1, <1>2, <1>3, <2>1, <2>7, <2>8, ToLoop
<1> QED BY <1>5, <1>6

LEMMA PollGoesOnSound ==
    ASSUME DeviceInv, NEW at \in Dials, PollGoesOn(at)
    PROVE  DeviceInv'
<1>0. MaxGap \in Nat /\ MaxTook \in Nat
  BY TimesAssumption
<1>1. /\ pc = "tail" /\ Is(dev', AfterInputs(dev, took, at)) /\ pc' = "loop" /\ took' = 0
      /\ ret' = ret /\ cmd' = cmd /\ over' = over /\ kit' = kit
  BY DEF PollGoesOn, Is
<1>2. /\ Good(dev) /\ Due(dev) /\ ~Running(dev) /\ took \in 0 .. MaxTook /\ dev.since >= took
      /\ ret \in {"poll", "cmd"} /\ cmd \in BOOLEAN /\ over \in BOOLEAN /\ kit \in Kits
  BY <1>1 DEF DeviceInv, Place
<1>3. Awaits(dev, took)
  BY <1>2 DEF Awaits, Due
<1>4. Polled(dev, dev', took)
  BY <1>1, <1>2, <1>3, AfterInputsIs
<1>5. AlarmBack'
  BY <1>4 DEF AlarmBack, Polled, Shows, Wanted, Restful
<1>6. dev.ota \in Outcomes
  BY <1>2, RunningIs DEF Good
<1>7. Ready(dev') /\ dev'.since <= Reach(cmd')
  BY <1>0, <1>2, <1>4, <1>6 DEF Ready, Polled, Reach
<1> QED BY <1>1, <1>2, <1>5, <1>7, ToLoop

\* Inside an update.
LEMMA InUpdate ==
    ASSUME DeviceInv, pc \in {"ask", "get"}
    PROVE  /\ Good(dev) /\ dev.off = FALSE /\ took \in 0 .. MaxTook /\ dev.since \in Nat
           /\ dev.since >= took /\ dev.since <= Reach(ret = "cmd") + took
           /\ ret \in {"poll", "cmd"} /\ cmd \in BOOLEAN /\ over \in BOOLEAN /\ kit \in Kits /\ (ret = "cmd" => ~cmd)
<1>1. Good(dev) /\ Place /\ dev \in Devices /\ dev.off \in BOOLEAN
  BY DEF DeviceInv, Good, Devices
<1>2. dev.since \in Nat
  BY <1>1, TimesAssumption DEF Devices, Spans
<1>3. dev.since <= Reach(ret = "cmd") + took
  BY <1>1 DEF Place, Ahead, Reach
<1> QED BY <1>1, <1>2, <1>3 DEF Place

LEMMA EndsSound ==
    ASSUME DeviceInv, pc \in {"ask", "get"}, NEW o \in {"done", "failed"}, NEW a \in Animations,
           UpdateEnds(Play([dev EXCEPT !.ota = o], a, 0))
    PROVE  DeviceInv'
<1> DEFINE s == [dev EXCEPT !.ota = o]
<1>0. MaxGap \in Nat /\ MaxTook \in Nat
  BY TimesAssumption
<1>1. /\ Good(dev) /\ took \in 0 .. MaxTook /\ dev.since \in Nat
      /\ dev.since >= took /\ dev.since <= Reach(ret = "cmd") + took
      /\ ret \in {"poll", "cmd"} /\ cmd \in BOOLEAN /\ over \in BOOLEAN /\ kit \in Kits /\ (ret = "cmd" => ~cmd)
  BY InUpdate
<1>2. /\ Is(dev', Play(s, a, 0)) /\ pc' = (IF ret = "poll" THEN "tail" ELSE "loop")
      /\ took' = (IF ret = "poll" THEN took ELSE 0) /\ ret' = ret /\ cmd' = cmd /\ over' = over /\ kit' = kit
  BY DEF UpdateEnds, Is
<1>3. Good(s) /\ s.ota = o /\ s.since = dev.since
  BY <1>1, OtaSane DEF Is
<1> HIDE DEF s
<1>4. Good(dev') /\ Due(dev') /\ DueSoon(dev') /\ dev'.ota \in Outcomes /\ dev'.since = dev.since
  BY <1>2, <1>3, PlayNow DEF Outcomes
<1>5. CASE ret = "poll"
  <2>1. dev'.since >= took' /\ dev'.since <= Reach(ret' = "cmd") + took' /\ took' \in 0 .. MaxTook
    BY <1>1, <1>2, <1>4, <1>5
  <2>2. pc' = "tail" /\ ret' = "poll"
    BY <1>2, <1>5
  <2> QED BY <1>1, <1>2, <1>4, <2>1, <2>2, ToUpdate
<1>6. CASE ret = "cmd"
  <2>1. dev'.since <= Reach(cmd') /\ cmd' = FALSE /\ took' = 0 /\ pc' = "loop"
    BY <1>0, <1>1, <1>2, <1>4, <1>6 DEF Reach
  <2>2. AlarmBack'
    BY <2>1 DEF AlarmBack
  <2> QED BY <1>1, <1>2, <1>4, <2>1, <2>2, ToLoop DEF Ready, Sane
<1> QED BY <1>1, <1>5, <1>6

LEMMA UpdateSound ==
    ASSUME DeviceInv, UpdateFails \/ UpdateDone \/ UpdateDownloads
    PROVE  DeviceInv'
<1>0. "otafail" \in Animations /\ "idle" \in Animations /\ "ota" \in Animations
  BY DEF Animations, Timed, OpenEnded
<1>1. CASE UpdateFails
  <2>1. pc \in {"ask", "get"} /\ UpdateEnds(Play([dev EXCEPT !.ota = "failed"], "otafail", 0))
    BY <1>1 DEF UpdateFails
  <2> QED BY <1>0, <2>1, EndsSound
<1>2. CASE UpdateDone
  <2>1. pc \in {"ask", "get"} /\ UpdateEnds(Play([dev EXCEPT !.ota = "done"], "idle", 0))
    BY <1>2 DEF UpdateDone
  <2> QED BY <1>0, <2>1, EndsSound
<1>3. CASE UpdateDownloads
  <2> DEFINE s == [dev EXCEPT !.ota = "downloading"]
  <2>1. /\ pc = "ask" /\ pc' = "get" /\ Is(dev', Play(s, "ota", 0))
        /\ ret' = ret /\ took' = took /\ cmd' = cmd /\ over' = over /\ kit' = kit
    BY <1>3 DEF UpdateDownloads, Is
  <2>2. /\ Good(dev) /\ dev.off = FALSE /\ took \in 0 .. MaxTook
        /\ dev.since >= took /\ dev.since <= Reach(ret = "cmd") + took
        /\ ret \in {"poll", "cmd"} /\ cmd \in BOOLEAN /\ over \in BOOLEAN /\ kit \in Kits /\ (ret = "cmd" => ~cmd)
    BY <2>1, InUpdate
  <2>3. Good(s) /\ s.ota = "downloading" /\ s.since = dev.since /\ s.off = FALSE
    BY <2>2, OtaSane DEF Is
  <2> HIDE DEF s
  <2>4. Good(dev') /\ dev'.ota = "downloading" /\ dev'.since = dev.since /\ ~dev'.off /\ dev'.anim = "ota"
    BY <1>0, <2>1, <2>3, PlayNow
  <2> QED BY <2>1, <2>2, <2>4, ToUpdate
<1> QED BY <1>1, <1>2, <1>3

LEMMA ProgressSound ==
    ASSUME DeviceInv, NEW f \in Shares, UpdateProgress(f)
    PROVE  DeviceInv'
<1> DEFINE s == SetShare(dev, f)
<1>0. 0 \in 0 .. MaxTook
  BY TimesAssumption
<1>1. /\ pc = "get" /\ pc' = pc /\ Is(dev', Tick(s, 0))
      /\ ret' = ret /\ took' = took /\ cmd' = cmd /\ over' = over /\ kit' = kit
  BY DEF UpdateProgress, Is
<1>2. /\ Good(dev) /\ dev.off = FALSE /\ took \in 0 .. MaxTook
      /\ dev.since >= took /\ dev.since <= Reach(ret = "cmd") + took
      /\ ret \in {"poll", "cmd"} /\ cmd \in BOOLEAN /\ over \in BOOLEAN /\ kit \in Kits /\ (ret = "cmd" => ~cmd)
  BY <1>1, InUpdate
<1>3. dev.ota = "downloading" /\ dev.anim = "ota"
  BY <1>1 DEF DeviceInv, Place
<1>4. Refaced(dev, s)
  BY <1>2, FaceSets DEF Good
<1> HIDE DEF s
<1>5. Good(s) /\ SameBody(dev, s) /\ s.anim = "ota" /\ "ota" \in OpenEnded
  BY <1>2, <1>3, <1>4, RefacedGood DEF Refaced, OpenEnded
<1>6. Good(dev') /\ SameBody(s, dev') /\ dev'.anim = "ota"
  BY <1>0, <1>1, <1>5, TickIs
<1>7. dev'.ota = "downloading" /\ ~dev'.off /\ dev'.since = dev.since
  BY <1>2, <1>3, <1>5, <1>6 DEF SameBody
<1> QED BY <1>1, <1>2, <1>6, <1>7, ToUpdate

LEMMA CommandIs ==
    ASSUME Sane(dev), NEW s \in Commands
    PROVE  After(dev, s)
<1> DEFINE u == StopPairing(dev)
           v == [u EXCEPT !.maxV = 0, !.peakV = 0, !.prevV = 0]
<1>1. \/ Is(s, PowerOn(dev)) \/ Is(s, PowerOff(dev)) \/ Is(s, StartPairing(dev))
      \/ \E on \in BOOLEAN : Is(s, SetSOS(dev, on))
      \/ \E c \in Colors : Is(s, SetColor(dev, c))
      \/ \E b \in Readings, f \in BOOLEAN : Is(s, Read(v, b, f))
  BY DEF Commands, Is
<1>2. After(dev, u)
  BY StopPairingAfter DEF Is
<1> HIDE DEF u
<1>3. u \in Devices /\ Sane(u) /\ 0 \in Int /\ 0 \in Nat
  BY <1>2 DEF After, Sane, Good
<1>4. Beside(u, v) /\ v.ota = u.ota
  BY <1>3 DEF Beside, Devices, SameStrip, SameFace, SamePower
<1> HIDE DEF v
<1>5. After(dev, v) /\ Sane(v)
  BY <1>2, <1>3, <1>4, BesideAfter, AfterBoth DEF After
<1>6. (\E b \in Readings, f \in BOOLEAN : Is(s, Read(v, b, f))) => After(dev, s)
  BY <1>5, ReadAfter, AfterBoth
<1>8. (\E on \in BOOLEAN : Is(s, SetSOS(dev, on))) => After(dev, s)
  BY SetSOSAfter
<1>9. (\E c \in Colors : Is(s, SetColor(dev, c))) => After(dev, s)
  BY ColorAfter
<1>10. Is(s, PowerOn(dev)) => After(dev, s)
  BY PowerOnAfter
<1>11. Is(s, PowerOff(dev)) => After(dev, s)
  BY PowerOffAfter
<1>12. Is(s, StartPairing(dev)) => After(dev, s)
  BY StartPairingAfter
<1> QED BY <1>1, <1>6, <1>8, <1>9, <1>10, <1>11, <1>12

LEMMA CommandSound ==
    ASSUME DeviceInv, NEW s \in Commands, Command(s)
    PROVE  DeviceInv'
<1>0. MaxGap \in Nat /\ MaxTook \in Nat
  BY TimesAssumption
<1>1. /\ pc = "loop" /\ cmd = TRUE /\ cmd' = FALSE /\ dev' = s
      /\ pc' = pc /\ ret' = ret /\ took' = took /\ over' = over /\ kit' = kit
  BY DEF Command, DeviceInv, Place
<1>2. Ready(dev) /\ took = 0 /\ dev.since \in Nat /\ dev.since <= Reach(cmd)
  BY <1>1, AtLoop
<1>3. After(dev, dev')
  BY <1>1, <1>2, CommandIs DEF Ready
<1>4. Ready(dev') /\ dev'.since <= Reach(cmd')
  BY <1>0, <1>1, <1>2, <1>3 DEF Ready, After, Reach
<1>5. AlarmBack' /\ ret \in {"poll", "cmd"} /\ over \in BOOLEAN /\ kit \in Kits
  BY <1>1 DEF AlarmBack, DeviceInv, Place
<1> QED BY <1>1, <1>2, <1>4, <1>5, ToLoop

LEMMA CommandUpdateSound ==
    ASSUME DeviceInv, NEW b \in Readings, NEW f \in BOOLEAN, CommandUpdate(b, f)
    PROVE  DeviceInv'
<1>0. MaxGap \in Nat /\ MaxTook \in Nat /\ 0 \in 0 .. MaxTook
  BY TimesAssumption
<1>1. /\ pc = "loop" /\ cmd = TRUE /\ cmd' = FALSE /\ Is(dev', Begin(dev, b, f))
      /\ pc' = (IF dev'.ota = "checking" THEN "ask" ELSE "loop")
      /\ ret' = "cmd" /\ took' = 0 /\ over' = over /\ kit' = kit
  BY DEF CommandUpdate, DeviceInv, Place, Is
<1>2. Ready(dev) /\ dev.since \in Nat /\ dev.since <= Reach(cmd) /\ over' \in BOOLEAN /\ kit' \in Kits
  BY <1>1, AtLoop DEF DeviceInv, Place
<1>3. Begun(dev, dev')
  BY <1>1, <1>2, BeginIs DEF Ready
<1>4. /\ Good(dev') /\ DueSoon(dev') /\ dev'.since \in {dev.since, 0} /\ dev'.ota \in {"checking", "failed"}
      /\ dev'.ota = "checking" => ~dev'.off /\ dev'.anim = "wifi"
  BY <1>3 DEF Begun
<1>5. CASE dev'.ota = "checking"
  <2>1. dev'.since >= took' /\ dev'.since <= Reach(ret' = "cmd") + took'
    BY <1>0, <1>1, <1>2, <1>4 DEF Reach
  <2> QED BY <1>0, <1>1, <1>2, <1>4, <1>5, <2>1, ToUpdate
<1>6. CASE dev'.ota = "failed"
  <2>1. dev'.since <= Reach(cmd') /\ pc' = "loop" /\ dev'.ota \in Outcomes
    BY <1>0, <1>1, <1>2, <1>4, <1>6 DEF Reach, Outcomes
  <2>2. AlarmBack'
    BY <1>1 DEF AlarmBack
  <2> QED BY <1>1, <1>2, <1>4, <2>1, <2>2, ToLoop DEF Ready, Sane
<1> QED BY <1>4, <1>5, <1>6

\* The strip shows the alarm, the update or the window that is on, or a flash.
Alerts(s) == s.anim \in OpenEnded /\ Wanted(s) \notin Restful => s.anim = Wanted(s)

\* A reading that leaves the device on does not touch what the strip alerts to.
LEMMA SteadyAlerts ==
    ASSUME NEW s, NEW t, Steady(s, t), Alerts(s)
    PROVE  Alerts(t)
<1>1. Wanted(t) \notin Restful => Wanted(t) = Wanted(s)
  BY DEF Steady, Wanted, Running, Restful
<1> QED BY <1>1 DEF Alerts, Steady

\* The end of a pairing window gives way to what else is on.
LEMMA ClosedAlerts ==
    ASSUME NEW s, s.off = FALSE, NEW t, Closed(s, t), Alerts(s)
    PROVE  Alerts(t)
<1>1. t.off = FALSE /\ (Wanted(t) \notin Restful => Wanted(t) = Wanted(s) /\ Wanted(t) # "pairing")
  BY DEF Closed, SamePower, Wanted, Running, Restful
<1>2. ASSUME t.anim \in OpenEnded, Wanted(t) \notin Restful PROVE t.anim = Wanted(t)
  <2>1. s.anim \in OpenEnded => s.anim = Wanted(s)
    BY <1>1, <1>2 DEF Alerts
  <2>2. s.anim # "pairing"
    BY <1>1, <1>2, <2>1 DEF OpenEnded
  <2> QED BY <1>1, <1>2, <2>1, <2>2 DEF Closed
<1> QED BY <1>2 DEF Alerts

\* What a frame does to a device that is on.
LEMMA FrameIs ==
    ASSUME NEW s, Sane(s), s.off = FALSE, NEW t \in Frame(s)
    PROVE  /\ After(s, t)
           /\ Alerts(s) => Alerts(t) \/ (t.pairing = TRUE /\ s.pairing = FALSE)
<1>1. s \in Devices /\ Looks(s) /\ s.dark = FALSE /\ s.pairing \in BOOLEAN /\ Good(s)
  BY DEF Sane, Good, Looks, Devices
<1>2. \/ t = s
      \/ \E a \in {"bonded", "deleted", "demigod"} : Is(t, Play(s, a, 0))
      \/ Is(t, StopPairing(s))
      \/ Is(t, StartPairing(s))
  BY DEF Frame, Is
<1>3. CASE t = s
  BY <1>3, AfterSelf
<1>4. CASE \E a \in {"bonded", "deleted", "demigod"} : Is(t, Play(s, a, 0))
  <2>1. PICK a \in {"bonded", "deleted", "demigod"} : Is(t, Play(s, a, 0))
    BY <1>4
  <2>2. a \in Animations /\ a \notin OpenEnded
    BY DEF Animations, Timed, OpenEnded
  <2>3. After(s, t) /\ t.anim = a
    BY <1>1, <2>1, <2>2, PlayAfter, PlayNow
  <2> QED BY <2>2, <2>3 DEF Alerts
<1>5. CASE Is(t, StopPairing(s))
  <2>1. After(s, t) /\ Closed(s, t)
    BY <1>1, <1>5, StopPairingAfter, StopPairingIs
  <2> QED BY <2>1, ClosedAlerts
<1>6. CASE Is(t, StartPairing(s))
  <2>1. After(s, t)
    BY <1>6, StartPairingAfter
  <2>2. CASE s.pairing = TRUE
    <3>1. t = s
      BY <1>6, <2>2 DEF Is, StartPairing
    <3> QED BY <2>1, <3>1
  <2>3. CASE s.pairing = FALSE
    <3> DEFINE u == [s EXCEPT !.pairing = TRUE]
    <3>1. Is(t, Play(u, "pairing", 0)) /\ "pairing" \in Animations /\ 0 \in 0 .. MaxTook
      BY <1>6, <2>3, TimesAssumption DEF Is, StartPairing, Animations, OpenEnded
    <3>2. u \in Devices /\ u.pairing = TRUE
      BY <1>1 DEF Devices
    <3> HIDE DEF u
    <3>3. t.pairing = TRUE
      BY <3>1, <3>2, PlayIs DEF Played, SameBody
    <3> QED BY <2>1, <2>3, <3>3
  <2> QED BY <1>1, <2>2, <2>3
<1> QED BY <1>2, <1>3, <1>4, <1>5, <1>6

LEMMA RadioSound ==
    ASSUME DeviceInv, NEW s \in RadioEvents, Radio(s)
    PROVE  DeviceInv'
<1>1. /\ pc = "loop" /\ ~dev.off /\ dev' = s /\ cmd' = cmd
      /\ over' = (over \/ (s.pairing /\ ~dev.pairing))
      /\ pc' = pc /\ ret' = ret /\ took' = took /\ kit' = kit
  BY DEF Radio
<1>2. /\ Ready(dev) /\ took = 0 /\ dev.since \in Nat /\ dev.since <= Reach(cmd)
      /\ ret \in {"poll", "cmd"} /\ cmd \in BOOLEAN /\ kit \in Kits
  BY <1>1, AtLoop DEF DeviceInv, Place
<1>3. Sane(dev) /\ dev \in Devices /\ dev.off = FALSE
  BY <1>1, <1>2 DEF Ready, Sane, Good, Devices
<1>4. Is(s, StopPairing(dev)) \/ \E b \in Readings, f \in BOOLEAN : s \in Receive(b, f)
  BY DEF RadioEvents, Is
<1>5. /\ After(dev, s)
      /\ Alerts(dev) => Alerts(s) \/ (s.pairing = TRUE /\ dev.pairing = FALSE)
  <2>1. CASE \E b \in Readings, f \in BOOLEAN : s \in Receive(b, f)
    <3>1. PICK b \in Readings, f \in BOOLEAN : s \in Receive(b, f)
      BY <2>1
    <3> DEFINE t == Read(dev, b, f)
    <3>2. s \in IF t.off THEN {t} ELSE Frame(t)
      BY <3>1 DEF Receive
    <3>3. After(dev, t) /\ (t.off = TRUE \/ Steady(dev, t))
      BY <1>3, ReadAfter, ReadSteady DEF Is
    <3> HIDE DEF t
    <3>4. CASE t.off = TRUE
      <4>1. s = t
        BY <3>2, <3>4
      <4>2. Alerts(s)
        BY <3>4, <4>1 DEF Alerts, Wanted, Restful
      <4> QED BY <3>3, <4>1, <4>2
    <3>5. CASE Steady(dev, t)
      <4>1. t.off = FALSE /\ t.pairing = dev.pairing /\ Sane(t) /\ s \in Frame(t)
        BY <1>3, <3>2, <3>3, <3>5 DEF Steady, After
      <4>2. /\ After(t, s)
            /\ Alerts(t) => Alerts(s) \/ (s.pairing = TRUE /\ t.pairing = FALSE)
        BY <4>1, FrameIs
      <4>3. Alerts(dev) => Alerts(t)
        BY <3>5, SteadyAlerts
      <4> QED BY <3>3, <4>1, <4>2, <4>3, AfterBoth
    <3> QED BY <3>3, <3>4, <3>5
  <2>2. CASE Is(s, StopPairing(dev))
    <3>1. After(dev, s) /\ Closed(dev, s)
      BY <1>3, <2>2, StopPairingAfter, StopPairingIs DEF Sane, Good
    <3> QED BY <1>3, <3>1, ClosedAlerts
  <2> QED BY <1>4, <2>1, <2>2
<1>6. over' \in BOOLEAN
  BY <1>1
<1>7. AlarmBack'
  <2> SUFFICES ASSUME cmd', ~over' PROVE Alerts(s)
    BY <1>1 DEF AlarmBack, Alerts
  <2>1. cmd /\ ~over /\ ~(s.pairing /\ ~dev.pairing)
    BY <1>1
  <2>2. Alerts(dev)
    BY <1>1, <2>1 DEF DeviceInv, AlarmBack, Alerts
  <2> QED BY <1>5, <2>1, <2>2
<1>8. Ready(dev') /\ dev'.since <= Reach(cmd')
  BY <1>1, <1>2, <1>5, TimesAssumption DEF Ready, After, Reach
<1> QED BY <1>1, <1>2, <1>6, <1>7, <1>8, ToLoop

LEMMA DeviceNext == DeviceInv /\ [Next]_vars => DeviceInv'
<1> SUFFICES ASSUME DeviceInv, [Next]_vars PROVE DeviceInv'
  OBVIOUS
<1>1. CASE Advance
  BY <1>1, AdvanceSound
<1>2. CASE \E b \in Readings, f \in BOOLEAN, g \in Gestures, at \in Bearings \cup {None} :
             Poll(b, f, g, at)
  BY <1>2, PollSound DEF Dials
<1>3. CASE \E at \in Bearings \cup {None} : PollGoesOn(at)
  BY <1>3, PollGoesOnSound DEF Dials
<1>4. CASE UpdateFails \/ UpdateDownloads \/ UpdateDone
  BY <1>4, UpdateSound
<1>5. CASE \E f \in 0 .. MaxShare : UpdateProgress(f)
  BY <1>5, ProgressSound DEF Shares
<1>6. CASE \E s \in Commands : Command(s)
  BY <1>6, CommandSound
<1>7. CASE \E b \in Readings, f \in BOOLEAN : "ota" \in kit /\ CommandUpdate(b, f)
  BY <1>7, CommandUpdateSound
<1>8. CASE \E s \in RadioEvents : Radio(s)
  BY <1>8, RadioSound
<1>9. CASE UNCHANGED vars
  <2>1. dev' = dev /\ pc' = pc /\ ret' = ret /\ took' = took /\ cmd' = cmd /\ over' = over /\ kit' = kit
    BY <1>9 DEF vars
  <2> QED BY <2>1 DEF DeviceInv, Place, Ahead, AlarmBack
<1> QED BY <1>1, <1>2, <1>3, <1>4, <1>5, <1>6, <1>7, <1>8, <1>9 DEF Next

-----------------------------------------------------------------------------
(* The gauge. *)

\* Division keeps the order.
LEMMA DivMono ==
    ASSUME NEW a \in Int, NEW b \in Int, a <= b, NEW k \in Nat \ {0}
    PROVE  a \div k <= b \div k
<1> DEFINE p == a \div k
           q == b \div k
<1>1. p \in Int /\ q \in Int /\ k * p <= a /\ b < k * q + k
  BY DivIs
<1> HIDE DEF p, q
<1>2. SUFFICES ASSUME p >= q + 1 PROVE FALSE
  BY <1>1 DEF p, q
<1>3. k * p >= k * (q + 1) 
  BY <1>1, <1>2
<1>4. k * (q + 1) = k * q + k
  BY <1>1
<1>5. k * p \in Int /\ k * q \in Int
  BY <1>1
<1> QED BY <1>1, <1>3, <1>4, <1>5

\* The table falls from each of its 58 points to the next, in both columns.
LEMMA CurveStep ==
    ASSUME NEW k \in 2 .. 58
    PROVE  /\ BattCurve[k-1][1] > BattCurve[k][1]
           /\ BattCurve[k-1][2] > BattCurve[k][2]
           /\ BattCurve[k][1] \in Nat /\ BattCurve[k][2] \in Nat
           /\ BattCurve[k-1][1] \in Nat /\ BattCurve[k-1][2] \in Nat
BY DEF BattCurve

LEMMA CurveEnds ==
    /\ Len(BattCurve) = 58 /\ BattCurve[1][1] = 4120 /\ BattCurve[1][2] = 605
    /\ BattCurve[58][1] = 3190 /\ BattCurve[58][2] = 0
BY DEF BattCurve

\* So it falls from every point to every later one.
LEMMA CurveFalls ==
    ASSUME NEW a \in 1 .. 58, NEW b \in 1 .. 58, a <= b
    PROVE  BattCurve[b][1] <= BattCurve[a][1] /\ BattCurve[b][2] <= BattCurve[a][2]
<1> DEFINE T == {n \in a .. 58 : ~(BattCurve[n][1] <= BattCurve[a][1] /\ BattCurve[n][2] <= BattCurve[a][2])}
<1>1. BattCurve[a][1] \in Nat /\ BattCurve[a][2] \in Nat
  <2>1. CASE a = 58
    BY <2>1, CurveEnds
  <2>2. CASE a # 58
    BY <2>2, CurveStep
  <2> QED BY <2>1, <2>2
<1>2. SUFFICES ASSUME T # {} PROVE FALSE
  OBVIOUS
<1>3. PICK x \in T : \A y \in T : ~(<<y, x>> \in OpToRel(<, Nat))
  <2>1. T \subseteq Nat /\ T # {}
    BY <1>2
  <2> HIDE DEF T
  <2> QED BY <2>1, WFMin, NatLessThanWellFounded
<1>4. x \in a .. 58 /\ x # a
  BY <1>1
<1>5. x - 1 \in a .. 58 /\ x \in 2 .. 58 /\ <<x - 1, x>> \in OpToRel(<, Nat)
  BY <1>4 DEF OpToRel
<1>6. BattCurve[x-1][1] <= BattCurve[a][1] /\ BattCurve[x-1][2] <= BattCurve[a][2]
  BY <1>3, <1>5
<1>7. /\ BattCurve[x-1][1] > BattCurve[x][1] /\ BattCurve[x-1][2] > BattCurve[x][2]
      /\ BattCurve[x][1] \in Nat /\ BattCurve[x][2] \in Nat
      /\ BattCurve[x-1][1] \in Nat /\ BattCurve[x-1][2] \in Nat
  BY <1>5, CurveStep
<1>8. BattCurve[x][1] <= BattCurve[a][1] /\ BattCurve[x][2] <= BattCurve[a][2]
  BY <1>1, <1>6, <1>7
<1> QED BY <1>3, <1>8

\* The segment of the curve a voltage lies in.
On(c, i) == i \in 2 .. 58 /\ BattCurve[i][1] <= c /\ c < BattCurve[i-1][1]

\* The one BattPctFor chooses.
SegmentOf(c) == CHOOSE k \in 2 .. Len(BattCurve) :
                c >= BattCurve[k][1] /\ \A j \in 2 .. k-1 : c < BattCurve[j][1]

LEMMA IndexIs ==
    ASSUME NEW c \in Flat .. Top - 1
    PROVE  On(c, SegmentOf(c))
<1> DEFINE T == {k \in 2 .. 58 : c >= BattCurve[k][1]}
           Fits(k) == c >= BattCurve[k][1] /\ \A j \in 2 .. k-1 : c < BattCurve[j][1]
           i == SegmentOf(c)
<1>0. c \in Nat /\ c >= 3190 /\ c < 4120
  BY DEF Flat, Top
<1>1. 58 \in T
  BY <1>0, CurveEnds
<1>2. PICK x \in T : \A y \in T : ~(<<y, x>> \in OpToRel(<, Nat))
  <2>1. T \subseteq Nat /\ T # {}
    BY <1>1
  <2> HIDE DEF T
  <2> QED BY <2>1, WFMin, NatLessThanWellFounded
<1>3. x \in 2 .. 58 /\ c >= BattCurve[x][1]
  OBVIOUS
<1>4. ASSUME NEW j \in 2 .. x - 1 PROVE c < BattCurve[j][1]
  <2>1. j \in 2 .. 58 /\ <<j, x>> \in OpToRel(<, Nat)
    BY <1>3 DEF OpToRel
  <2>2. j \notin T
    BY <1>2, <2>1
  <2>3. BattCurve[j][1] \in Nat
    BY <2>1, CurveStep
  <2>4. ~(c >= BattCurve[j][1])
    BY <2>1, <2>2
  <2> QED BY <1>0, <2>3, <2>4
<1>5. Fits(x)
  BY <1>3, <1>4
<1>6. i \in 2 .. 58 /\ Fits(i)
  <2>1. i = CHOOSE k \in 2 .. 58 : Fits(k)
    BY CurveEnds DEF SegmentOf
  <2> HIDE DEF Fits, i
  <2> QED BY <1>3, <1>5, <2>1
<1> HIDE DEF i
<1>7. BattCurve[i][1] \in Nat
  BY <1>6, CurveStep
<1>8. c < BattCurve[i-1][1]
  <2>1. CASE i = 2
    BY <1>0, <2>1, CurveEnds
  <2>2. CASE i # 2
    BY <1>6, <2>2
  <2> QED BY <2>1, <2>2
<1>9. On(c, i)
  BY <1>0, <1>6, <1>7, <1>8 DEF On
<1> QED BY <1>9 DEF i

\* The curve between two of its points.
Raw(c, i) ==
    BattCurve[i][2] + ((c - BattCurve[i][1]) * (BattCurve[i-1][2] - BattCurve[i][2]))
                        \div (BattCurve[i-1][1] - BattCurve[i][1])

LEMMA RawIs ==
    ASSUME NEW c \in Nat, NEW i, On(c, i)
    PROVE  Raw(c, i) \in BattCurve[i][2] .. BattCurve[i-1][2]
<1> DEFINE x == c - BattCurve[i][1]
           h == BattCurve[i-1][2] - BattCurve[i][2]
           k == BattCurve[i-1][1] - BattCurve[i][1]
           q == (x * h) \div k
<1>1. /\ BattCurve[i-1][1] > BattCurve[i][1] /\ BattCurve[i-1][2] > BattCurve[i][2]
      /\ BattCurve[i][1] \in Nat /\ BattCurve[i][2] \in Nat
      /\ BattCurve[i-1][1] \in Nat /\ BattCurve[i-1][2] \in Nat
  BY CurveStep DEF On
<1>2. x \in Nat /\ h \in Nat \ {0} /\ k \in Nat \ {0} /\ x < k
  BY <1>1 DEF On
<1>3. Raw(c, i) = BattCurve[i][2] + q
  BY DEF Raw
<1>4. q \in 0 .. h
  <2> HIDE DEF x, h, k
  <2>1. x * h \in Nat /\ h * k \in Nat
    BY <1>2
  <2>2. x * h <= h * k
    BY <1>2
  <2>3. (h * k) \div k = h /\ 0 \div k = 0
    BY <1>2
  <2>4. 0 \div k <= q /\ q <= (h * k) \div k /\ q \in Int
    BY <1>2, <2>1, <2>2, DivMono, DivIs
  <2> QED BY <1>2, <2>3, <2>4
<1> HIDE DEF q
<1> QED BY <1>1, <1>3, <1>4

LEMMA RawMono ==
    ASSUME NEW c \in Nat, NEW d \in Nat, c <= d, NEW i, On(c, i), NEW j, On(d, j)
    PROVE  Raw(c, i) <= Raw(d, j)
<1>1. i \in 2 .. 58 /\ j \in 2 .. 58
  BY DEF On
<1>2. /\ BattCurve[i-1][1] > BattCurve[i][1] /\ BattCurve[i-1][2] > BattCurve[i][2]
      /\ BattCurve[i][1] \in Nat /\ BattCurve[i][2] \in Nat
      /\ BattCurve[i-1][1] \in Nat /\ BattCurve[i-1][2] \in Nat
      /\ BattCurve[j][1] \in Nat /\ BattCurve[j][2] \in Nat
      /\ BattCurve[j-1][1] \in Nat /\ BattCurve[j-1][2] \in Nat
  BY <1>1, CurveStep
<1>3. CASE i < j
  <2>1. i \in 1 .. 58 /\ j - 1 \in 1 .. 58 /\ i <= j - 1
    BY <1>1, <1>3
  <2>2. BattCurve[j-1][1] <= BattCurve[i][1]
    BY <2>1, CurveFalls
  <2> QED BY <1>2, <2>2 DEF On
<1>4. CASE i = j
  <2> DEFINE x == c - BattCurve[i][1]
             y == d - BattCurve[i][1]
             h == BattCurve[i-1][2] - BattCurve[i][2]
             k == BattCurve[i-1][1] - BattCurve[i][1]
  <2>1. x \in Nat /\ y \in Nat /\ x <= y /\ h \in Nat \ {0} /\ k \in Nat \ {0}
    BY <1>2, <1>4 DEF On
  <2>2. Raw(c, i) = BattCurve[i][2] + (x * h) \div k /\ Raw(d, j) = BattCurve[i][2] + (y * h) \div k
    BY <1>4 DEF Raw
  <2> HIDE DEF x, y, h, k
  <2>3. x * h \in Int /\ y * h \in Int
    BY <2>1
  <2>4. x * h <= y * h
    BY <2>1
  <2>5. (x * h) \div k <= (y * h) \div k /\ (x * h) \div k \in Int /\ (y * h) \div k \in Int
    BY <2>1, <2>3, <2>4, DivMono, DivIs
  <2> QED BY <1>2, <2>2, <2>5
<1>5. CASE j < i
  <2>1. j \in 1 .. 58 /\ i - 1 \in 1 .. 58 /\ j <= i - 1
    BY <1>1, <1>5
  <2>2. BattCurve[i-1][2] <= BattCurve[j][2]
    BY <2>1, CurveFalls
  <2>3. Raw(c, i) \in BattCurve[i][2] .. BattCurve[i-1][2] /\ Raw(d, j) \in BattCurve[j][2] .. BattCurve[j-1][2]
    BY RawIs
  <2> QED BY <1>2, <2>2, <2>3
<1> QED BY <1>1, <1>3, <1>4, <1>5

LEMMA RawRange ==
    ASSUME NEW c \in Nat, NEW i, On(c, i)
    PROVE  Raw(c, i) \in 0 .. 605
<1>1. i \in 2 .. 58 /\ i - 1 \in 1 .. 58 /\ 1 \in 1 .. 58
  BY DEF On
<1>2. BattCurve[i][2] \in Nat /\ BattCurve[i-1][2] \in Nat
  BY <1>1, CurveStep
<1>3. BattCurve[i-1][2] <= BattCurve[1][2]
  <2>1. 1 <= i - 1
    BY <1>1
  <2> QED BY <1>1, <2>1, CurveFalls
<1>4. Raw(c, i) \in BattCurve[i][2] .. BattCurve[i-1][2]
  BY RawIs
<1> QED BY <1>2, <1>3, <1>4, CurveEnds

LEMMA PctMono ==
    ASSUME NEW x \in Nat, NEW y \in Nat, x <= y
    PROVE  BattPctOf(x) <= BattPctOf(y)
<1> DEFINE p == (x * 1000) \div 605
           q == (y * 1000) \div 605
<1>1. p \in Int /\ q \in Int /\ p <= q
  BY DivMono, DivIs
<1>2. BattPctOf(x) = (p + 5) \div 10 /\ BattPctOf(y) = (q + 5) \div 10
  BY DEF BattPctOf, FullScale
<1> HIDE DEF p, q
<1> QED BY <1>1, <1>2, DivMono

LEMMA PctRange ==
    ASSUME NEW x \in 0 .. 605
    PROVE  BattPctOf(x) \in 0 .. 100
<1>1. BattPctOf(0) = 0 /\ BattPctOf(605) = 100
  BY DEF BattPctOf, FullScale
<1>2. BattPctOf(0) <= BattPctOf(x) /\ BattPctOf(x) <= BattPctOf(605)
  BY PctMono
<1>3. BattPctOf(x) \in Int
  BY DEF BattPctOf, FullScale
<1> QED BY <1>1, <1>2, <1>3

LEMMA CurveIs ==
    ASSUME NEW c \in Int, c >= Flat, c < Top
    PROVE  /\ c \in Nat /\ On(c, SegmentOf(c)) /\ Raw(c, SegmentOf(c)) \in 0 .. 605
           /\ BattPctOf(Raw(c, SegmentOf(c))) \in 0 .. 100
<1>1. c \in Flat .. Top - 1 /\ c \in Nat
  BY DEF Flat, Top
<1>2. On(c, SegmentOf(c))
  BY <1>1, IndexIs
<1>3. Raw(c, SegmentOf(c)) \in 0 .. 605
  BY <1>1, <1>2, RawRange
<1> QED BY <1>1, <1>2, <1>3, PctRange

\* A reading scaled to the pack.
LEMMA ScaledMono ==
    ASSUME NEW v \in Nat, NEW w \in Nat, v <= w, NEW top \in Int
    PROVE  /\ Scaled(v, top) \in Int /\ Scaled(w, top) \in Int
           /\ Scaled(v, top) <= Scaled(w, top)
           /\ top > Flat /\ w >= top => Scaled(w, top) >= Top
<1> DEFINE c == IF v < Top THEN v ELSE Top
           d == IF w < Top THEN w ELSE Top
           k == top - Flat
<1>1. c \in Int /\ d \in Int /\ c <= d /\ (w >= top => d >= top \/ d = Top)
  BY DEF Top
<1>2. CASE PlausibleVolts(top) /\ Flat < top /\ top < Top
  <2> DEFINE x == (c - Flat) * (Top - Flat)
             y == (d - Flat) * (Top - Flat)
  <2>1. Scaled(v, top) = Flat + x \div k /\ Scaled(w, top) = Flat + y \div k
    BY <1>2 DEF Scaled
  <2>2. x \in Int /\ y \in Int /\ x <= y /\ k \in Nat \ {0}
    BY <1>1, <1>2 DEF Flat, Top
  <2>3. ASSUME w >= top PROVE 930 <= y \div k
    <3>1. d >= top
      BY <1>1, <1>2, <2>3 DEF Top
    <3>2. 930 * k <= y
      BY <1>1, <3>1 DEF Flat, Top
    <3>3. (930 * k) \div k = 930 /\ 930 * k \in Int
      BY <2>2
    <3> HIDE DEF y, k
    <3> QED BY <2>2, <3>2, <3>3, DivMono
  <2> HIDE DEF x, y, k
  <2>4. x \div k \in Int /\ y \div k \in Int /\ x \div k <= y \div k
    BY <2>2, DivMono, DivIs
  <2> QED BY <2>1, <2>3, <2>4 DEF Flat, Top
<1>3. CASE ~(PlausibleVolts(top) /\ Flat < top /\ top < Top)
  <2>1. Scaled(v, top) = c /\ Scaled(w, top) = d
    BY <1>3 DEF Scaled
  <2>2. top > Flat /\ w >= top => d >= Top
    BY <1>1, <1>3 DEF PlausibleVolts, Flat, Top
  <2> QED BY <1>1, <2>1, <2>2
<1> QED BY <1>2, <1>3

\* The gauge, for every two voltages and every learnt top of the pack.
LEMMA GaugeIs ==
    ASSUME NEW v \in Nat, NEW w \in Nat, v <= w, NEW top \in Int
    PROVE  /\ BattPctFor(v, top) <= BattPctFor(w, top)
           /\ top > Flat /\ w >= top => BattPctFor(w, top) = 100
<1> DEFINE c == Scaled(v, top)
           d == Scaled(w, top)
           i == SegmentOf(c)
           j == SegmentOf(d)
<1>1. c \in Int /\ d \in Int /\ c <= d /\ (top > Flat /\ w >= top => d >= Top)
  BY ScaledMono
<1>2. BattPctFor(v, top) = IF v = 0 \/ c < Flat THEN 0 ELSE IF c >= Top THEN 100 ELSE BattPctOf(Raw(c, i))
  BY DEF BattPctFor, SegmentOf, Raw
<1>3. BattPctFor(w, top) = IF w = 0 \/ d < Flat THEN 0 ELSE IF d >= Top THEN 100 ELSE BattPctOf(Raw(d, j))
  BY DEF BattPctFor, SegmentOf, Raw
<1> HIDE DEF c, d
<1>4. c >= Flat /\ c < Top => c \in Nat /\ On(c, i) /\ Raw(c, i) \in 0 .. 605 /\ BattPctOf(Raw(c, i)) \in 0 .. 100
  BY <1>1, CurveIs
<1>5. d >= Flat /\ d < Top => d \in Nat /\ On(d, j) /\ Raw(d, j) \in 0 .. 605 /\ BattPctOf(Raw(d, j)) \in 0 .. 100
  BY <1>1, CurveIs
<1> HIDE DEF i, j
<1>6. c >= Flat /\ d < Top => BattPctOf(Raw(c, i)) <= BattPctOf(Raw(d, j))
  <2> SUFFICES ASSUME c >= Flat, d < Top PROVE BattPctOf(Raw(c, i)) <= BattPctOf(Raw(d, j))
    OBVIOUS
  <2>1. c >= Flat /\ c < Top /\ d >= Flat /\ d < Top
    BY <1>1 DEF Flat, Top
  <2>2. Raw(c, i) <= Raw(d, j)
    BY <1>1, <1>4, <1>5, <2>1, RawMono
  <2>3. Raw(c, i) \in Nat /\ Raw(d, j) \in Nat
    BY <1>4, <1>5, <2>1
  <2> QED BY <2>2, <2>3, PctMono
<1>7. top > Flat /\ w >= top => BattPctFor(w, top) = 100
  BY <1>1, <1>3 DEF Flat, Top
<1>8. BattPctFor(v, top) <= BattPctFor(w, top)
  BY <1>1, <1>2, <1>3, <1>4, <1>5, <1>6 DEF Flat, Top
<1> QED BY <1>7, <1>8

LEMMA GaugeHolds == ASSUME dev.maxV \in Int PROVE Gauge
<1> DEFINE V == Volts \cup {3190, 3300, 3700, 4119}
           pct == [v \in V |-> BattPctFor(v, dev.maxV)]
<1>1. V \subseteq Nat
  <2>1. Volts \subseteq Nat
    BY DataAssumption
  <2> QED BY <2>1
<1> HIDE DEF V
<1>2. ASSUME NEW v \in V, NEW w \in V, v <= w
      PROVE  /\ pct[v] <= pct[w]
             /\ dev.maxV > Flat /\ w >= dev.maxV => pct[w] = 100
  <2>1. pct[v] = BattPctFor(v, dev.maxV) /\ pct[w] = BattPctFor(w, dev.maxV)
    OBVIOUS
  <2>2. v \in Nat /\ w \in Nat
    BY <1>1
  <2> HIDE DEF pct
  <2> QED BY <1>2, <2>1, <2>2, GaugeIs
<1>3. DOMAIN pct = V
  OBVIOUS
<1> HIDE DEF pct
<1>4. \A v, w \in DOMAIN pct : v <= w =>
          /\ pct[v] <= pct[w]
          /\ dev.maxV > Flat /\ w >= dev.maxV => pct[w] = 100
  BY <1>2, <1>3
<1> QED BY <1>4 DEF Gauge, pct, V

-----------------------------------------------------------------------------
(* The theorems about the device. *)

\* The strip, the power state and the loop's place stay in step, whatever the
\* readings, gestures, commands, radio events and updates, and however long
\* the updates take (Poll, device, Update, RunCommand).
THEOREM DeviceInvariance == Spec => []DeviceInv
BY DeviceInit, DeviceNext, PTL DEF Spec

\* From a poll to the next console line, an alarm, an update or a pairing
\* window that is on is on the strip, or a flash passes over it: no flash that
\* ends, no reading and no frame swallows it.  A pairing window that a frame
\* opens is drawn over an alarm until the next poll, which puts the alarm back
\* (device, Receive, onPeer, stopPairing).
THEOREM AlarmBackHolds == Spec => []AlarmBack
<1>1. DeviceInv => AlarmBack
  BY DEF DeviceInv
<1> QED BY <1>1, DeviceInvariance, PTL

\* A strip at rest shows the colour, the brightness and the dial it was last
\* given, and a timed picture is drawn before it runs out, even when an update
\* held up the loop it was to be drawn in (Refresh, LEDs.Set, UpdateDue).
THEOREM StripTrueHolds == Spec => []StripTrue
<1>1. DeviceInv => StripTrue
  <2> SUFFICES ASSUME DeviceInv PROVE StripTrue
    OBVIOUS
  <2>1. Good(dev) /\ dev \in Devices /\ Looks(dev)
    BY DEF DeviceInv, Good
  <2>2. RestsCurrent
    BY <2>1 DEF RestsCurrent, Looks
  <2>3. ~Unseen(dev) \/ dev.left # 0
    <3>1. MaxGap \in Nat /\ FlashLen \in Nat /\ MaxGap < FlashLen
      BY TimesAssumption
    <3>2. CASE pc = "loop"
      BY <3>1, <3>2 DEF DeviceInv, Place, DueSoon
    <3>3. CASE pc = "tail"
      BY <3>1, <3>3 DEF DeviceInv, Place, Due
    <3>4. CASE pc \in {"ask", "get"}
      BY <3>4 DEF DeviceInv, Place, Unseen, Timed
    <3> QED BY <3>2, <3>3, <3>4 DEF DeviceInv, Place
  <2>4. FlashSeen
    BY <2>3 DEF FlashSeen, Unseen
  <2> QED BY <2>2, <2>4 DEF StripTrue
<1> QED BY <1>1, DeviceInvariance, PTL

\* The power bookkeeping: the spans a run has looked at make up its time without
\* a gap or an overlap, and what is left out of the sleep account is less than a
\* millisecond a look, the rest that sleep cuts off; the mode is off
\* exactly on a device that is off, no update runs there, and the battery
\* gauge grows with the voltage and reads full at the pack's own top, for any
\* voltages and whatever top was learnt (sleep, applyPowerMode, Update,
\* BattPctFor).
THEOREM PowerSoundHolds == Spec => []PowerSound
<1>1. DeviceInv => PowerSound
  <2> SUFFICES ASSUME DeviceInv PROVE PowerSound
    OBVIOUS
  <2>1. Good(dev) /\ Place /\ dev \in Devices /\ Powered(dev) /\ dev.maxV \in Int
    BY DEF DeviceInv, Good, Devices
  <2>2. TypeOK
    BY <2>1 DEF TypeOK, Place
  <2>3. BookedOnce /\ ModeMatches
    <3>1. dev.lost < Milli
      BY <2>1, TimesAssumption DEF Devices, Losses
    <3> QED BY <2>1, <3>1 DEF BookedOnce, ModeMatches, Powered
  <2>4. UpdateAwake
    BY <2>1 DEF UpdateAwake, Place
  <2>5. Gauge
    BY <2>1, GaugeHolds
  <2> QED BY <2>2, <2>3, <2>4, <2>5 DEF PowerSound
<1> QED BY <1>1, DeviceInvariance, PTL
=============================================================================
