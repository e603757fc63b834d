------------------------------ MODULE RxQueue ------------------------------
(***************************************************************************)
(* What the receive ring of cmd/totememu/ring.h promises its two callers:  *)
(* a bounded FIFO of whole frames.  The WiFi task offers a frame, which is *)
(* queued, or counted as lost when (and only when) the queue is full; the  *)
(* main loop takes the frames out whole and in the order they came in.     *)
(***************************************************************************)
EXTENDS Naturals, Sequences

CONSTANTS
    Frames,    \* the frames ESP-NOW may deliver
    Slots,     \* capacity of the queue
    Width,     \* the loss counter wraps at this value
    NoFrame    \* stands for "no frame"

VARIABLES
    offer,     \* the frame the WiFi task is handing over, or NoFrame
    queue,     \* frames accepted and not yet taken
    taken,     \* the frame the main loop took last, or NoFrame
    lost       \* frames lost to a full queue, modulo Width

vars == <<offer, queue, taken, lost>>

Init ==
    /\ offer = NoFrame
    /\ queue = <<>>
    /\ taken = NoFrame
    /\ lost = 0

Offer(f) ==
    /\ offer = NoFrame
    /\ offer' = f
    /\ UNCHANGED <<queue, taken, lost>>

Accept ==
    /\ offer # NoFrame
    /\ Len(queue) < Slots
    /\ queue' = Append(queue, offer)
    /\ offer' = NoFrame
    /\ UNCHANGED <<taken, lost>>

Lose ==
    /\ offer # NoFrame
    /\ Len(queue) = Slots
    /\ lost' = (lost + 1) % Width
    /\ offer' = NoFrame
    /\ UNCHANGED <<queue, taken>>

Take ==
    /\ queue # <<>>
    /\ taken' = Head(queue)
    /\ queue' = Tail(queue)
    /\ UNCHANGED <<offer, lost>>

Next ==
    \/ \E f \in Frames : Offer(f)
    \/ Accept
    \/ Lose
    \/ Take

Spec == Init /\ [][Next]_vars
=============================================================================
