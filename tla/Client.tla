------------------------------- MODULE Client -------------------------------
(***************************************************************************)
(* One BLE session of the client package (client/client.go): goroutines    *)
(* that call Start, Send and Close, the goroutines with which AutoGrant    *)
(* calls Grant, the writer that performs every GATT write from one queue,  *)
(* and the receiver that runs on the transport's goroutine.  A step is one *)
(* critical section of c.mu, c.qmu or batchMu, one channel operation, or   *)
(* one GATT write.                                                         *)
(*                                                                         *)
(* The Totem at the other end is the one of clienttest/totem.go in legacy  *)
(* mode: it repeats a record it was asked for until it is acked.  In half  *)
(* duplex it has the TX window from a Ready or a grant until it hands it   *)
(* back.                                                                   *)
(***************************************************************************)
EXTENDS Naturals, Sequences, FiniteSets

CONSTANTS
    Callers,    \* goroutines that use a session once it is started
    Main,       \* the goroutine that starts and closes it
    Grants,     \* goroutines AutoGrant may have under way at once
    Nobody,
    Kits,       \* the sessions checked: mode, calls, and what may go wrong
    Batches,    \* the frames of a Send
    MaxFails,   \* GATT writes that fail on a link that is up
    MaxAir,     \* notifications on their way
    EventCap    \* room in Events

Procs == Callers \cup {Main} \cup Grants

\* two: every caller calls, not just one; half: Options.HalfDuplex; auto:
\* AutoGrant; send, list, close: the calls;
\* fail: GATT writes fail on a link that is up; drop: the link drops by
\* itself; timeout: the context of a Send may end; patient: GrantDelay
\* outlasts a Send that is about to take its turn; prompt: a session that
\* waits for a record takes it in time.
KitParts == {"two", "half", "auto", "send", "list", "close", "fail", "drop", "timeout", "patient", "prompt"}
Records == {"static", "peers"}
Dos == {"data", "ask", "ack", "runtime", "ready", "grant", "bye"}
Frame(do, rec) == [do |-> do, rec |-> rec]
Frames == [do : Dos, rec : Records \cup {"none"}]
Notices == Records \cup {"live", "handoff"}

ASSUME ClientAssumption ==
    /\ Kits \subseteq SUBSET KitParts
    /\ Callers # {} /\ Main \notin Callers \cup Grants /\ Callers \cap Grants = {} /\ Nobody \notin Procs
    /\ MaxFails \in Nat /\ MaxAir \in Nat \ {0} /\ EventCap \in Nat \ {0}
    /\ \A s \in Batches : s \in Seq(Frames) /\ s # <<>>

\* Start and Grant pass the window on; a batch of commands does not.
ASSUME BatchAssumption ==
    \A s \in Batches : \A i \in 1 .. Len(s) : s[i].do \notin {"ready", "grant"}

VARIABLES
    kit,        \* the session, one of Kits
    up,         \* the link: Done is not closed
    tx,         \* appOwnsTX and txWaiters
    batch,      \* who holds batchMu
    queue,      \* the requests the writer has not taken
    pending,    \* records with an ack marked as waiting in the queue
    wake,       \* the wake channel holds its token
    writer,     \* what the writer does, and the request it took
    call,       \* per goroutine: the call, where it is, frames left to write
    reply,      \* per goroutine: what the result channel of its write holds
    recv,       \* the receiver: what it does, and for which notification
    events,     \* the Events channel
    air,        \* notifications the device sent
    dev,        \* the device: TX window, records asked for, Static Data acked
    fails

conn == <<kit, up, air, dev, fails>>
work == <<queue, pending, wake>>
vars == <<kit, up, tx, batch, queue, pending, wake, writer, call, reply, recv, events, air, dev, fails>>

HalfDuplex == "half" \in kit
AutoGrant == "auto" \in kit

\* Who calls.
Users == IF "two" \in kit THEN Callers ELSE {CHOOSE p \in Callers : TRUE}

Idle == [op |-> "none", at |-> "idle", todo |-> <<>>]

At(p, a) == call' = [call EXCEPT ![p].at = a]

Calls(p, op, at, todo) == call' = [call EXCEPT ![p] = [op |-> op, at |-> at, todo |-> todo]]

\* Close asks for a graceful end if the link is up.
Closing == Calls(Main, "close", IF up THEN "write" ELSE "close", <<Frame("bye", "none")>>)

TypeOK ==
    /\ kit \in Kits /\ up \in BOOLEAN /\ wake \in BOOLEAN
    /\ tx \in [owns : BOOLEAN, waiters : SUBSET Procs]
    /\ batch \in Procs \cup {Nobody}
    /\ queue \in Seq([by : Procs \cup {Nobody}, frame : Frames])
    /\ pending \subseteq Records
    /\ writer.at \in {"wait", "take", "write", "end"}
    /\ \A p \in Procs : reply[p] \in {"none", "ok", "failed"}
    /\ recv.at \in {"idle", "signal", "put", "drop"}
    /\ Len(events) <= EventCap /\ Len(air) <= MaxAir

----------------------------------------------------------------------------
(* The TX window *)

\* takeTX: the window is the app's, and everything that waits for it wakes.
Taken == [owns |-> TRUE, waiters |-> {}]

\* The call returns, and gives batchMu back if it has it.
Return(p) ==
    /\ call' = [call EXCEPT ![p] = Idle]
    /\ batch' = IF batch = p THEN Nobody ELSE batch

\* AwaitTX: the window is the app's, or the call waits for it.
AwaitTX(p) ==
    /\ call[p].at = "await"
    /\ IF tx.owns
       THEN At(p, "lock") /\ UNCHANGED tx
       ELSE At(p, "wait") /\ tx' = [tx EXCEPT !.waiters = @ \cup {p}]
    /\ UNCHANGED <<conn, work, batch, writer, reply, recv, events>>

\* Its channel was closed.
Woken(p) ==
    /\ call[p].at = "wait" /\ p \notin tx.waiters
    /\ At(p, "lock")
    /\ UNCHANGED <<conn, work, tx, batch, writer, reply, recv, events>>

\* The link dropped, or the context ended: dropWaiter.
GivesUp(p) ==
    /\ call[p].at = "wait" /\ (~up \/ "timeout" \in kit)
    /\ tx' = [tx EXCEPT !.waiters = @ \ {p}]
    /\ Return(p)
    /\ UNCHANGED <<conn, work, writer, reply, recv, events>>

\* A Send that is about to take its turn.
Eager(p) ==
    /\ call[p].op = "send"
    /\ call[p].at \in {"await", "lock", "check"} \/ (call[p].at = "wait" /\ p \notin tx.waiters)

\* batchMu.Lock, of Send and of Grant.
Lock(p) ==
    /\ call[p].at = "lock" /\ batch = Nobody
    /\ "patient" \in kit /\ p \in Grants => ~\E q \in Callers : Eager(q)
    /\ batch' = p
    /\ At(p, IF call[p].op = "grant" THEN "give" ELSE "check")
    /\ UNCHANGED <<conn, work, tx, writer, reply, recv, events>>

\* Mutant: Send does not look again once it has the mutex.
Check_Slip(p) ==
    /\ call[p].at = "check"
    /\ At(p, "write")
    /\ UNCHANGED <<conn, work, tx, batch, writer, reply, recv, events>>

\* Send looks again: a Grant may have won the race.
Check(p) ==
    /\ call[p].at = "check"
    /\ IF tx.owns
       THEN At(p, "write") /\ UNCHANGED batch
       ELSE At(p, "await") /\ batch' = Nobody
    /\ UNCHANGED <<conn, work, tx, writer, reply, recv, events>>

\* Grant, and Start before Ready, give the window away before the write.
Give(p) ==
    /\ call[p].at = "give"
    /\ tx' = [tx EXCEPT !.owns = FALSE]
    /\ At(p, "write")
    /\ UNCHANGED <<conn, work, batch, writer, reply, recv, events>>

\* A grant that was not written: the window is the app's again.
TakeBack(p) ==
    /\ call[p].at = "take"
    /\ tx' = Taken
    /\ Return(p)
    /\ UNCHANGED <<conn, work, writer, reply, recv, events>>

----------------------------------------------------------------------------
(* write: a request in the queue, and the wait for its result *)

\* What the caller does with a write that failed.  A session that cannot be
\* started is closed.
Failed(p) ==
    IF call[p].op = "grant" THEN At(p, "take") /\ UNCHANGED batch
    ELSE IF call[p].op = "start" THEN Closing /\ UNCHANGED batch
    ELSE IF call[p].op = "close" THEN At(p, "close") /\ UNCHANGED batch
    ELSE Return(p)

\* ... and with one that was made: the next frame, or the end of the call.
Written(p) ==
    LET rest == Tail(call[p].todo)
    IN  IF rest # <<>>
        THEN /\ call' = [call EXCEPT ![p].todo = rest,
                             ![p].at = IF HalfDuplex /\ call[p].op = "start" THEN "give" ELSE "write"]
             /\ UNCHANGED batch
        ELSE IF call[p].op = "close" THEN At(p, "close") /\ UNCHANGED batch
        ELSE IF call[p].op \in {"send", "list"} /\ ~HalfDuplex
        THEN At(p, "expect") /\ batch' = Nobody
        ELSE IF call[p].op = "start"
        THEN /\ call' = [call EXCEPT ![p] = [op |-> "started", at |-> "idle", todo |-> <<>>]]
             /\ UNCHANGED batch
        ELSE Return(p)

Write(p) ==
    /\ call[p].at = "write"
    /\ IF up THEN At(p, "append") /\ UNCHANGED batch ELSE Failed(p)
    /\ UNCHANGED <<conn, work, tx, writer, reply, recv, events>>

Append1(p) ==
    /\ call[p].at = "append"
    /\ queue' = Append(queue, [by |-> p, frame |-> Head(call[p].todo)])
    /\ At(p, "signal")
    /\ UNCHANGED <<conn, pending, wake, tx, batch, writer, reply, recv, events>>

Signal(p) ==
    /\ call[p].at = "signal"
    /\ wake' = TRUE
    /\ At(p, "reply")
    /\ UNCHANGED <<conn, queue, pending, tx, batch, writer, reply, recv, events>>

\* The result, or Done, whichever the select takes.
Reply(p) ==
    /\ call[p].at = "reply"
    /\ \/ reply[p] = "ok" /\ Written(p)
       \/ (reply[p] = "failed" \/ ~up) /\ Failed(p)
    /\ reply' = [reply EXCEPT ![p] = "none"]
    /\ UNCHANGED <<conn, work, tx, writer, recv, events>>

----------------------------------------------------------------------------
(* The calls *)

Start ==
    /\ call[Main] = Idle
    /\ Calls(Main, "start", "write", <<Frame("runtime", "none"), Frame("ready", "none")>>)
    /\ UNCHANGED <<conn, work, tx, batch, writer, reply, recv, events>>

Started == call[Main].op = "started"

Send(p) ==
    /\ "send" \in kit /\ Started /\ call[p].at = "idle"
    /\ \E s \in Batches : Calls(p, "send", "await", s)
    /\ UNCHANGED <<conn, work, tx, batch, writer, reply, recv, events>>

Ask(k) == Frame("ask", k)

\* peerList: Static Data first, then the list.
List(p) ==
    /\ "list" \in kit /\ Started /\ call[p].at = "idle"
    /\ Calls(p, "list", "await", <<Ask("static")>>)
    /\ UNCHANGED <<conn, work, tx, batch, writer, reply, recv, events>>

Close ==
    /\ "close" \in kit /\ Started
    /\ Closing
    /\ UNCHANGED <<conn, work, tx, batch, writer, reply, recv, events>>

LinkClose ==
    /\ call[Main].at = "close"
    /\ up' = FALSE
    /\ Calls(Main, "closed", "idle", <<>>)
    /\ UNCHANGED <<kit, air, dev, fails, work, tx, batch, writer, reply, recv, events>>

Drop ==
    /\ "drop" \in kit /\ up /\ up' = FALSE
    /\ UNCHANGED <<kit, air, dev, fails, work, tx, batch, writer, call, reply, recv, events>>

Wanted(p) == call[p].todo[1].rec

\* The record the session asked for: the call is done, or asks for the list.
Answer(p) ==
    IF call[p].op = "list" THEN Calls(p, "send", "await", <<Ask("peers")>>) ELSE Calls(p, "none", "idle", <<>>)

\* await: the session takes events until its record comes or the link drops.
Await(p) ==
    /\ call[p].at = "expect"
    /\ \/ /\ events # <<>>
          /\ events' = Tail(events)
          /\ IF Head(events) = Wanted(p) THEN Answer(p) ELSE UNCHANGED call
       \/ ~up /\ Calls(p, "none", "idle", <<>>) /\ UNCHANGED events
    /\ UNCHANGED <<conn, work, tx, batch, writer, reply, recv>>

----------------------------------------------------------------------------
(* The writer *)

\* The writer between two requests.
Resting(a) == [at |-> a, req |-> [by |-> Nobody, frame |-> Frame("bye", "none")]]

WriterWakes ==
    /\ writer.at = "wait" /\ wake
    /\ wake' = FALSE
    /\ writer' = Resting("take")
    /\ UNCHANGED <<conn, queue, pending, tx, batch, call, reply, recv, events>>

\* The link is gone: the queue is dropped with its marks.
WriterEnds ==
    /\ writer.at = "wait" /\ ~up
    /\ queue' = <<>> /\ pending' = {}
    /\ reply' = [p \in Procs |-> IF \E i \in DOMAIN queue : queue[i].by = p THEN "failed" ELSE reply[p]]
    /\ writer' = Resting("end")
    /\ UNCHANGED <<conn, wake, tx, batch, call, recv, events>>

\* Mutant: the newest request goes first.
Takes_Slip ==
    [req |-> queue[Len(queue)], rest |-> SubSeq(queue, 1, Len(queue) - 1)]

\* The request the writer takes, and what it leaves.
Takes == [req |-> Head(queue), rest |-> Tail(queue)]

\* Mutant: the mark of an ack stays.
Unmarked_Slip(r) == pending

\* An ack that leaves the queue takes its mark with it.
Unmarked(r) == IF r.by = Nobody THEN pending \ {r.frame.rec} ELSE pending

WriterTakes ==
    /\ writer.at = "take"
    /\ IF queue = <<>>
       THEN writer' = Resting("wait") /\ UNCHANGED <<queue, pending>>
       ELSE /\ queue' = Takes.rest
            /\ pending' = Unmarked(Takes.req)
            /\ writer' = [at |-> "write", req |-> Takes.req]
    /\ UNCHANGED <<conn, wake, tx, batch, call, reply, recv, events>>

\* The write returns, its result goes to whoever waits for it.
Outcome(o) ==
    /\ writer.at = "write"
    /\ writer' = Resting("take")
    /\ reply' = IF writer.req.by = Nobody THEN reply ELSE [reply EXCEPT ![writer.req.by] = o]
    /\ UNCHANGED <<kit, up, air, work, tx, batch, call, recv, events>>

\* What the device makes of a frame.
Handles(f) ==
    [dev EXCEPT !.tx = @ \/ (HalfDuplex /\ f.do \in {"grant", "ready"}),
                !.on = @ \/ f.do = "ready",
                !.asked = CASE f.do = "ask" -> @ \cup {f.rec}
                            [] f.do = "ack" -> @ \ {f.rec}
                            [] OTHER -> @,
                !.acked = @ \/ f = Frame("ack", "static")]

WriteLands ==
    /\ up /\ dev' = Handles(writer.req.frame)
    /\ Outcome("ok")
    /\ UNCHANGED fails

WriteFails ==
    /\ \/ ~up /\ UNCHANGED fails
       \/ "fail" \in kit /\ fails < MaxFails /\ fails' = fails + 1
    /\ Outcome("failed")
    /\ UNCHANGED dev

----------------------------------------------------------------------------
(* The receiver *)

Listening == [at |-> "idle", for |-> "live"]

\* The goroutine a handoff starts with AutoGrant.
Spawn ==
    IF AutoGrant
    THEN /\ \E g \in Grants : call[g] = Idle
         /\ Calls(CHOOSE g \in Grants : call[g] = Idle, "grant", "lock", <<Frame("grant", "none")>>)
    ELSE UNCHANGED call

\* Records are acked in legacy mode, unless the same ack is in the queue.
Acks(n) == ~HalfDuplex /\ n \in Records /\ n \notin pending

Receive ==
    /\ recv.at = "idle" /\ air # <<>>
    /\ LET n == Head(air) IN
          /\ IF n = "handoff" THEN tx' = Taken /\ Spawn ELSE UNCHANGED <<tx, call>>
          /\ IF Acks(n)
             THEN /\ pending' = pending \cup {n}
                  /\ queue' = Append(queue, [by |-> Nobody, frame |-> Frame("ack", n)])
                  /\ recv' = [at |-> "signal", for |-> n]
             ELSE recv' = [at |-> "put", for |-> n] /\ UNCHANGED <<pending, queue>>
    /\ air' = Tail(air)
    /\ UNCHANGED <<kit, up, dev, fails, wake, batch, writer, reply, events>>

ReceiverSignals ==
    /\ recv.at = "signal"
    /\ wake' = TRUE
    /\ recv' = [recv EXCEPT !.at = "put"]
    /\ UNCHANGED <<conn, queue, pending, tx, batch, writer, call, reply, events>>

\* deliver: into the buffer, or round again once the oldest event is gone.
Deliver ==
    /\ recv.at = "put"
    /\ IF Len(events) < EventCap
       THEN events' = Append(events, recv.for) /\ recv' = Listening
       ELSE UNCHANGED events /\ recv' = [recv EXCEPT !.at = "drop"]
    /\ UNCHANGED <<conn, work, tx, batch, writer, call, reply>>

\* Event n is all there is of the record a session waits for.
Needed(n) ==
    /\ \E p \in Callers : call[p].at \in {"signal", "reply", "expect"} /\ Wanted(p) = n
    /\ recv.for # n /\ ~\E i \in 2..Len(events) : events[i] = n

DropOldest ==
    /\ recv.at = "drop"
    /\ "prompt" \in kit /\ events # <<>> => ~Needed(Head(events))
    /\ events' = IF events = <<>> THEN events ELSE Tail(events)
    /\ recv' = [recv EXCEPT !.at = "put"]
    /\ UNCHANGED <<conn, work, tx, batch, writer, call, reply>>

----------------------------------------------------------------------------
(* The device *)

\* The record a pass of the send loop sends, in its order.
NextRecord ==
    IF "static" \in dev.asked THEN "static"
    ELSE IF "peers" \in dev.asked /\ dev.acked THEN "peers" ELSE "live"

\* A pass of the legacy send loop.
DeviceSends ==
    /\ ~HalfDuplex /\ up /\ dev.on /\ Len(air) < MaxAir
    /\ air' = Append(air, NextRecord)
    /\ UNCHANGED <<kit, up, dev, fails, work, tx, batch, writer, call, reply, recv, events>>

\* The device has sent what it had, and hands the window back.
DeviceHandsOff ==
    /\ HalfDuplex /\ up /\ dev.tx /\ Len(air) < MaxAir
    /\ air' = Append(air, "handoff")
    /\ dev' = [dev EXCEPT !.tx = FALSE]
    /\ UNCHANGED <<kit, up, fails, work, tx, batch, writer, call, reply, recv, events>>

----------------------------------------------------------------------------

Init ==
    /\ kit \in Kits /\ up = TRUE /\ tx = Taken /\ batch = Nobody
    /\ queue = <<>> /\ pending = {} /\ wake = FALSE
    /\ writer = Resting("wait")
    /\ call = [p \in Procs |-> Idle]
    /\ reply = [p \in Procs |-> "none"]
    /\ recv = Listening
    /\ events = <<>> /\ air = <<>> /\ fails = 0
    /\ dev = [tx |-> FALSE, on |-> FALSE, asked |-> {}, acked |-> FALSE]

\* What a goroutine does by itself once it is in a call.
Step(p) ==
    \/ AwaitTX(p) \/ Woken(p) \/ GivesUp(p) \/ Lock(p) \/ Check(p) \/ Give(p) \/ TakeBack(p)
    \/ Write(p) \/ Append1(p) \/ Signal(p) \/ Reply(p) \/ Await(p)

Writer == WriterWakes \/ WriterEnds \/ WriterTakes \/ WriteLands \/ WriteFails
Receiver == Receive \/ ReceiverSignals \/ Deliver \/ DropOldest
Device == DeviceSends \/ DeviceHandsOff

Next ==
    \/ Start \/ Close \/ LinkClose \/ Drop
    \/ \E p \in Users : Send(p) \/ List(p)
    \/ \E p \in Procs : Step(p)
    \/ Writer \/ Receiver \/ Device

Spec == Init /\ [][Next]_vars

\* Every goroutine that can go on does, batchMu is not withheld for ever from a
\* caller that waits for it, a GATT write returns, and the device passes on what
\* it has.  Nobody has to start, close or drop anything.
Fairness ==
    /\ \A p \in Procs : WF_vars(Step(p))
    /\ \A p \in Callers : SF_vars(Lock(p))
    /\ WF_vars(LinkClose) /\ WF_vars(Writer) /\ WF_vars(Receiver) /\ WF_vars(Device)

FairSpec == Spec /\ Fairness

----------------------------------------------------------------------------
(* Properties *)

\* A frame of a Send batch is never written while the device has the TX
\* window (Send: "within one app TX window").
InWindow == writer.at = "write" /\ writer.req.frame.do = "data" /\ up => ~dev.tx

\* A record is marked exactly when one ack for it, not yet taken by the
\* writer, is in the queue: a mark without an ack would keep every later
\* repeat of the record from being acked (writer, legacyAck).
PendingQueued ==
    \A k \in Records :
        Cardinality({i \in DOMAIN queue : queue[i] = [by |-> Nobody, frame |-> Frame("ack", k)]})
            = IF k \in pending THEN 1 ELSE 0

\* The buffers of a session keep their bounds, and its marks stay true to the
\* queue (deliver, writer, legacyAck).
Consistent == TypeOK /\ PendingQueued

\* Every call returns, given a GrantDelay that lets a woken Send have its
\* turn.  A failed grant does not leave the window with nobody, no wakeup is
\* lost, nobody waits for a reply once the link is gone, and a session that
\* asked for a record gets it, although acks of earlier repeats are on their
\* way and an ack cancels the request it follows.
CallsReturn ==
    \A p \in Callers :
        call[p].at # "idle" /\ (HalfDuplex => "patient" \in kit) ~> call[p].at = "idle"

\* The device does not repeat a record for ever (legacyAck).
RepeatsEnd == \A k \in Records : k \in dev.asked ~> (k \notin dev.asked \/ ~up)
=============================================================================
