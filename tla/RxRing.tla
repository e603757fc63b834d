------------------------------- MODULE RxRing -------------------------------
(***************************************************************************)
(* The ESP-NOW receive ring of cmd/totememu/ring.h.  Two actors share it   *)
(* without a lock: the WiFi task, which runs totem_rx_push from the        *)
(* receive callback, and the main loop, which runs totem_rx_pop.  Each     *)
(* memory access that the other actor can observe is a step of its own.    *)
(* Between two barriers the compiler and the processor may order the       *)
(* stores (or loads) of a slot's fields as they like, so the fields are    *)
(* copied in any order.                                                    *)
(***************************************************************************)
EXTENDS Integers, Sequences

CONSTANTS
    Frames,    \* frames ESP-NOW may deliver
    Invalid,   \* those with a NULL address, no payload or one too long
    Slots,     \* TOTEM_RX_SLOTS (16 on the board)
    Width,     \* the counters are unsigned: they wrap at Width (2^32)
    Fields,    \* parts of a slot that are copied separately
    NoFrame    \* content of a part that was never written

ASSUME RingAssumption ==
    /\ Slots \in Nat \ {0}
    /\ Width \in Nat /\ Width > Slots
    /\ Width % Slots = 0
    /\ NoFrame \notin Frames
    /\ Invalid \subseteq Frames
    /\ Fields # {}

VARIABLES
    totem_rx,           \* the slots: what each field of each slot holds
    totem_rx_head,      \* next slot to write, stored by the WiFi task
    totem_rx_tail,      \* next slot to read, stored by the main loop
    totem_rx_dropped,   \* frames lost to a full ring
    push,               \* the WiFi task inside totem_rx_push
    pop,                \* the main loop inside totem_rx_pop
    taken               \* the frame totem_rx_pop returned last

ringVars == <<totem_rx, totem_rx_head, totem_rx_tail, totem_rx_dropped, push, pop, taken>>

-----------------------------------------------------------------------------
Index(c) == c % Slots

\* Unsigned increment.
Inc(c) == (c + 1) % Width

\* head - tail, in unsigned arithmetic: how many slots hold a frame.
Used == (totem_rx_head - totem_rx_tail) % Width

Empty == [f \in Fields |-> NoFrame]

\* The part that stands for a whole frame.
Part == CHOOSE f \in Fields : TRUE

RingInit ==
    /\ totem_rx = [i \in 0 .. Slots-1 |-> Empty]
    /\ totem_rx_head = 0
    /\ totem_rx_tail = 0
    /\ totem_rx_dropped = 0
    /\ push = [pc |-> "idle", frame |-> NoFrame, todo |-> {}]
    /\ pop = [pc |-> "idle", out |-> Empty, todo |-> {}]
    /\ taken = NoFrame

-----------------------------------------------------------------------------
(* totem_rx_push, in the WiFi task. *)

\* The receive callback runs with a frame.
PushCall(f) ==
    /\ push.pc = "idle"
    /\ push' = [push EXCEPT !.pc = "check", !.frame = f]
    /\ UNCHANGED <<totem_rx, totem_rx_head, totem_rx_tail, totem_rx_dropped, pop, taken>>

\* A NULL pointer or a length outside 1..TOTEM_RX_MAX: return, uncounted.
PushRefuse ==
    /\ push.pc = "check"
    /\ push.frame \in Invalid
    /\ push' = [push EXCEPT !.pc = "idle", !.frame = NoFrame]
    /\ UNCHANGED <<totem_rx, totem_rx_head, totem_rx_tail, totem_rx_dropped, pop, taken>>

\* The one load of the main loop's tail.
PushCheck ==
    /\ push.pc = "check"
    /\ push.frame \notin Invalid
    /\ push' = IF Used >= Slots
               THEN [push EXCEPT !.pc = "full", !.frame = NoFrame]
               ELSE [push EXCEPT !.pc = "store", !.todo = Fields]
    /\ UNCHANGED <<totem_rx, totem_rx_head, totem_rx_tail, totem_rx_dropped, pop, taken>>

\* Mutant: a frame that does not fit is not counted.
PushDrop_Uncounted ==
    /\ push.pc = "full"
    /\ totem_rx_dropped' = totem_rx_dropped
    /\ push' = [push EXCEPT !.pc = "idle"]
    /\ UNCHANGED <<totem_rx, totem_rx_head, totem_rx_tail, pop, taken>>

PushDrop ==
    /\ push.pc = "full"
    /\ totem_rx_dropped' = Inc(totem_rx_dropped)
    /\ push' = [push EXCEPT !.pc = "idle"]
    /\ UNCHANGED <<totem_rx, totem_rx_head, totem_rx_tail, pop, taken>>

\* One of the copies into the slot at head.
PushStore(f) ==
    /\ push.pc = "store"
    /\ f \in push.todo
    /\ totem_rx' = [totem_rx EXCEPT ![Index(totem_rx_head)][f] = push.frame]
    /\ push' = [push EXCEPT !.todo = @ \ {f}]
    /\ UNCHANGED <<totem_rx_head, totem_rx_tail, totem_rx_dropped, pop, taken>>

\* Mutant: no barrier, head may be seen before the slot is filled.
PushPublish_NoBarrier ==
    /\ push.pc = "store"
    /\ totem_rx_head' = Inc(totem_rx_head)
    /\ push' = [push EXCEPT !.pc = "idle", !.frame = NoFrame]
    /\ UNCHANGED <<totem_rx, totem_rx_tail, totem_rx_dropped, pop, taken>>

\* After the barrier, the store that makes the frame visible.
PushPublish ==
    /\ push.pc = "store"
    /\ push.todo = {}
    /\ totem_rx_head' = Inc(totem_rx_head)
    /\ push' = [push EXCEPT !.pc = "idle", !.frame = NoFrame]
    /\ UNCHANGED <<totem_rx, totem_rx_tail, totem_rx_dropped, pop, taken>>

-----------------------------------------------------------------------------
(* totem_rx_pop, in the main loop. *)

\* Mutant: compares the counters by order, so a wrapped head looks empty.
PopCheck_Ordered ==
    /\ pop.pc = "idle"
    /\ totem_rx_tail < totem_rx_head
    /\ pop' = [pop EXCEPT !.pc = "copy", !.todo = Fields]
    /\ UNCHANGED <<totem_rx, totem_rx_head, totem_rx_tail, totem_rx_dropped, push, taken>>

\* Finds a frame.  (On an empty ring the call returns 0 and changes nothing.)
PopCheck ==
    /\ pop.pc = "idle"
    /\ totem_rx_tail # totem_rx_head
    /\ pop' = [pop EXCEPT !.pc = "copy", !.todo = Fields]
    /\ UNCHANGED <<totem_rx, totem_rx_head, totem_rx_tail, totem_rx_dropped, push, taken>>

\* One part of the copy out of the slot at tail.
PopCopy(f) ==
    /\ pop.pc = "copy"
    /\ f \in pop.todo
    /\ pop' = [pop EXCEPT !.todo = @ \ {f},
                          !.out[f] = totem_rx[Index(totem_rx_tail)][f]]
    /\ UNCHANGED <<totem_rx, totem_rx_head, totem_rx_tail, totem_rx_dropped, push, taken>>

\* After the barrier, the store that frees the slot; the frame is returned.
PopRelease ==
    /\ pop.pc = "copy"
    /\ pop.todo = {}
    /\ totem_rx_tail' = Inc(totem_rx_tail)
    /\ pop' = [pop EXCEPT !.pc = "idle"]
    /\ taken' = pop.out[Part]
    /\ UNCHANGED <<totem_rx, totem_rx_head, totem_rx_dropped, push>>

-----------------------------------------------------------------------------
WiFiTask ==
    \/ \E f \in Frames : PushCall(f)
    \/ PushRefuse
    \/ PushCheck
    \/ PushDrop
    \/ \E f \in Fields : PushStore(f)
    \/ PushPublish

MainLoop ==
    \/ PopCheck
    \/ \E f \in Fields : PopCopy(f)
    \/ PopRelease

RingNext == WiFiTask \/ MainLoop

\* The main loop drains the ring every rxPoll for as long as the board runs;
\* nothing obliges a frame to arrive.
Fairness == WF_ringVars(MainLoop)

RingSpec == RingInit /\ [][RingNext]_ringVars

FairSpec == RingSpec /\ Fairness

-----------------------------------------------------------------------------
(* Properties. *)

\* Type correctness of the shared state and of the two actors.
RingTypeOK ==
    /\ totem_rx \in [0 .. Slots-1 -> [Fields -> Frames \cup {NoFrame}]]
    /\ totem_rx_head \in 0 .. Width-1
    /\ totem_rx_tail \in 0 .. Width-1
    /\ totem_rx_dropped \in 0 .. Width-1
    /\ push \in [pc : {"idle", "check", "full", "store"},
                 frame : Frames \cup {NoFrame}, todo : SUBSET Fields]
    /\ pop \in [pc : {"idle", "copy"},
                out : [Fields -> Frames \cup {NoFrame}], todo : SUBSET Fields]
    /\ taken \in Frames \cup {NoFrame}

\* Every part of f is one and the same deliverable frame.
Whole(f) == \E m \in Frames \ Invalid : f = [x \in Fields |-> m]

\* A frame that totem_rx_pop hands to the main loop is whole: it is one frame
\* the WiFi task was given, not parts of two (the tear that the Release
\* comment in ring.h is about), and never a slot that was not written.
NoTornFrame == pop.pc = "copy" /\ pop.todo = {} => Whole(pop.out)

\* The two actors never work on the same slot, full ring and wrapped counters
\* included: the slot being copied out is not the one being filled.
SlotsDisjoint ==
    push.pc = "store" /\ pop.pc = "copy" =>
        Index(totem_rx_head) # Index(totem_rx_tail)

\* Type, wholeness and disjointness: the ring is safe at every access.
Safe == RingTypeOK /\ NoTornFrame /\ SlotsDisjoint

\* The frames the ring holds, oldest first.
Held == [i \in 1 .. Used |->
            totem_rx[Index((totem_rx_tail + i - 1) % Width)][Part]]

\* The ring is the bounded queue RxQueue describes.  A frame is on offer until
\* it is published, refused or found not to fit; a loss counts from the moment
\* the ring was seen full; a frame is taken when its slot is freed.
Queue == INSTANCE RxQueue WITH
    Frames <- Frames \ Invalid,
    offer  <- IF push.pc \in {"check", "store"} /\ push.frame \notin Invalid
              THEN push.frame ELSE NoFrame,
    queue  <- Held,
    taken  <- taken,
    lost   <- IF push.pc = "full" THEN Inc(totem_rx_dropped) ELSE totem_rx_dropped

\* The ring implements the queue: nothing is reordered, duplicated or lost
\* except by a counted drop of a frame that found the ring full.
IsQueue == Queue!Spec

\* Every frame the ring holds is eventually taken out: the tail never rests on
\* a slot that holds one.
Drained ==
    \A c \in 0 .. Width-1 :
        (totem_rx_tail = c /\ Used > 0) ~> (totem_rx_tail # c)

=============================================================================
