---------------------------- MODULE ClientProofs ----------------------------
(***************************************************************************)
(* A session, for any number of goroutines that send and of grants under   *)
(* way: no frame of a batch is written while the device has the TX window, *)
(* and the marks of the acks stay true to the queue.                       *)
(***************************************************************************)
EXTENDS Client, FiniteSetTheorems, TLAPS

\* A call whose frame is on its way to the device.
Busy == {"write", "append", "signal", "reply"}

Ops == {"none", "start", "started", "send", "list", "grant", "close", "closed"}
Places == Busy \cup {"idle", "await", "wait", "lock", "check", "give", "take", "close", "expect"}

Queued == [by : Procs \cup {Nobody}, frame : Frames]

Typed ==
    /\ tx \in [owns : BOOLEAN, waiters : SUBSET Procs]
    /\ call \in [Procs -> [op : Ops, at : Places, todo : Seq(Frames)]]
    /\ reply \in [Procs -> {"none", "ok", "failed"}]
    /\ queue \in Seq(Queued) /\ air \in Seq(Notices)
    /\ writer \in [at : {"wait", "take", "write", "end"}, req : Queued]
    /\ "tx" \in DOMAIN dev /\ dev.tx \in BOOLEAN

\* Where each kind of goroutine can be, and which frames it has.
MainShape ==
    LET c == call[Main] IN
    \/ c.op \in {"none", "started", "closed"} /\ c.at = "idle"
    \/ /\ c.op = "start" /\ c.at \in Busy \cup {"give"} /\ c.todo # <<>>
       /\ \/ c.todo = <<Frame("runtime", "none"), Frame("ready", "none")>> /\ c.at # "give"
          \/ c.todo = <<Frame("ready", "none")>>
    \/ c.op = "close" /\ c.at \in Busy \cup {"close"} /\ c.todo = <<Frame("bye", "none")>>

GrantShape(g) ==
    \/ call[g] = Idle
    \/ /\ call[g].op = "grant" /\ call[g].todo = <<Frame("grant", "none")>>
       /\ call[g].at \in Busy \cup {"lock", "give", "take"}

CallerShape(p) ==
    \/ call[p].op = "none" /\ call[p].at = "idle"
    \/ /\ call[p].op \in {"send", "list"} /\ call[p].todo # <<>>
       /\ \A i \in 1 .. Len(call[p].todo) : call[p].todo[i].do \notin {"ready", "grant"}
       /\ call[p].at \in Busy \cup {"await", "wait", "lock", "check"}

Shapes ==
    /\ MainShape
    /\ \A g \in Grants : GrantShape(g)
    /\ \A p \in Callers : CallerShape(p)
    /\ call[Main].op \in {"none", "start"} => \A p \in Callers : call[p].at = "idle"

\* batchMu is held from the check or the gift of the window to the return, and
\* a batch is written in a window of the app.
Mutex ==
    /\ \A p \in Callers : call[p].at \in Busy \cup {"check"} => batch = p
    /\ \A g \in Grants : call[g].at \in Busy \cup {"give", "take"} => batch = g
    /\ \A p \in Callers : call[p].at \in Busy => tx.owns

\* A request in the queue or with the writer is the one its caller waits for,
\* and is there once.
Flying(r) ==
    /\ r.by \in Procs /\ call[r.by].at \in {"signal", "reply"} /\ reply[r.by] = "none"
    /\ r.frame = call[r.by].todo[1]

\* The same of a request after the step.
StillFlying(r) ==
    /\ r.by \in Procs /\ call'[r.by].at \in {"signal", "reply"} /\ reply'[r.by] = "none"
    /\ r.frame = call'[r.by].todo[1]

Flight ==
    /\ \A p \in Procs : reply[p] # "none" => call[p].at \in {"signal", "reply"}
    /\ \A i \in 1 .. Len(queue) : Flying(queue[i])
    /\ \A i, j \in 1 .. Len(queue) : queue[i].by = queue[j].by => i = j
    /\ writer.at = "write" => /\ Flying(writer.req)
                              /\ \A i \in 1 .. Len(queue) : queue[i].by # writer.req.by

\* The right to pass the window on, which only one holds: the start before its
\* Ready has landed, a grant before it has, the device, a handoff on its way.
Readying == call[Main].op = "start" /\ ~(call[Main].todo[1].do = "ready" /\ reply[Main] = "ok")
Granting(g) == call[g].op = "grant" /\ reply[g] # "ok"
Handing == \E i \in 1 .. Len(air) : air[i] = "handoff"

Token ==
    /\ Readying \/ call[Main].op = "none" =>
          ~dev.tx /\ ~Handing /\ \A g \in Grants : ~Granting(g)
    /\ dev.tx => ~Handing /\ ~tx.owns
    /\ Handing => ~tx.owns
    /\ dev.tx \/ Handing => \A g \in Grants : ~Granting(g)
    /\ \A i, j \in 1 .. Len(air) : air[i] = "handoff" /\ air[j] = "handoff" => i = j
    /\ \A g, h \in Grants : Granting(g) /\ Granting(h) => g = h

\* The window is given away before the frame that passes it on is written.
Gave ==
    /\ \A g \in Grants : Granting(g) /\ call[g].at \in Busy \cup {"take"} => ~tx.owns
    /\ Readying /\ call[Main].todo[1].do = "ready" /\ call[Main].at \in Busy => ~tx.owns

HalfInv == Typed /\ Shapes /\ Mutex /\ Flight /\ Token /\ Gave

\* Once the link is gone nothing reaches the device any more, and in legacy
\* mode it never has a window.
WindowInv ==
    IF HalfDuplex THEN up => HalfInv ELSE "tx" \in DOMAIN dev /\ ~dev.tx

-----------------------------------------------------------------------------
LEMMA WhoIsWho ==
    /\ Main \in Procs /\ Callers \subseteq Procs /\ Grants \subseteq Procs /\ Nobody \notin Procs
    /\ \A p \in Procs : p = Main \/ p \in Callers \/ p \in Grants
    /\ Main \notin Callers /\ Main \notin Grants /\ \A p \in Callers : p \notin Grants
BY ClientAssumption DEF Procs

LEMMA FramesAre ==
    /\ \A d \in Dos, r \in Records \cup {"none"} : Frame(d, r) \in Frames /\ Frame(d, r).do = d
    /\ {Frame("runtime", "none"), Frame("ready", "none"), Frame("bye", "none"), Frame("grant", "none")}
          \subseteq Frames
    /\ Frame("runtime", "none").do = "runtime" /\ Frame("ready", "none").do = "ready"
    /\ Frame("bye", "none").do = "bye" /\ Frame("grant", "none").do = "grant"
    /\ Idle \in [op : Ops, at : Places, todo : Seq(Frames)]
<1>1. \A d \in Dos, r \in Records \cup {"none"} : Frame(d, r) \in Frames /\ Frame(d, r).do = d
  BY DEF Frame, Frames
<1>2. {"runtime", "ready", "bye", "grant"} \subseteq Dos /\ "none" \in Records \cup {"none"}
  BY DEF Dos
<1>3. Idle \in [op : Ops, at : Places, todo : Seq(Frames)]
  <2>1. <<>> \in Seq(Frames)
    OBVIOUS
  <2> QED BY <2>1 DEF Idle, Ops, Places
<1> QED BY <1>1, <1>2, <1>3

\* What a step of goroutine p leaves of the calls of the others.
Others(p) == \A q \in Procs : q # p => call'[q] = call[q]

LEMMA AtEffect ==
    ASSUME Typed, NEW p \in Procs, NEW a \in Places, At(p, a)
    PROVE  /\ call' \in [Procs -> [op : Ops, at : Places, todo : Seq(Frames)]]
           /\ Others(p)
           /\ call'[p].at = a /\ call'[p].op = call[p].op /\ call'[p].todo = call[p].todo
BY DEF Typed, At, Others

LEMMA CallsEffect ==
    ASSUME Typed, NEW p \in Procs, NEW o \in Ops, NEW a \in Places, NEW s \in Seq(Frames),
           Calls(p, o, a, s)
    PROVE  /\ call' \in [Procs -> [op : Ops, at : Places, todo : Seq(Frames)]]
           /\ Others(p)
           /\ call'[p].at = a /\ call'[p].op = o /\ call'[p].todo = s
BY DEF Typed, Calls, Others

LEMMA ReturnEffect ==
    ASSUME Typed, NEW p \in Procs, Return(p)
    PROVE  /\ call' \in [Procs -> [op : Ops, at : Places, todo : Seq(Frames)]]
           /\ Others(p) /\ call'[p] = Idle
           /\ \A q \in Procs : q # p /\ batch = q => batch' = q
BY FramesAre, WhoIsWho DEF Typed, Return, Others

\* A call that moves without touching a request.
LEMMA FlightMove ==
    ASSUME Typed, Flight, NEW p \in Procs, Others(p), UNCHANGED <<queue, writer, reply>>,
           call[p].at \notin {"signal", "reply"}
    PROVE  Flight' /\ reply[p] = "none"
<1>1. reply[p] = "none"
  BY DEF Flight
<1>2. \A r \in Queued : Flying(r) => r.by # p /\ Flying(r)'
  BY DEF Flying, Others
<1>3. \A i \in 1 .. Len(queue) : queue[i] \in Queued
  BY DEF Typed
<1>4. writer.req \in Queued
  BY DEF Typed
<1>5. \A q \in Procs : reply'[q] # "none" => call'[q].at \in {"signal", "reply"}
  BY <1>1 DEF Flight, Others
<1> QED BY <1>1, <1>2, <1>3, <1>4, <1>5 DEF Flight

-----------------------------------------------------------------------------
CallType == [Procs -> [op : Ops, at : Places, todo : Seq(Frames)]]

\* What a goroutine leaves alone when its call moves on.
Aside(p) ==
    /\ Others(p) /\ call' \in CallType
    /\ UNCHANGED <<writer, air, dev>>
    /\ reply' \in [Procs -> {"none", "ok", "failed"}] /\ \A q \in Procs : q # p => reply'[q] = reply[q]
    /\ queue' \in Seq(Queued) /\ Flight'
    /\ tx' \in [owns : BOOLEAN, waiters : SUBSET Procs]
    /\ \A q \in Procs : q # p /\ batch = q => batch' = q

\* A caller moves on, the window stays where it is.
LEMMA CallerMove ==
    ASSUME HalfInv, NEW p \in Callers, Aside(p), tx'.owns = tx.owns,
           CallerShape(p)', call[Main].op \notin {"none", "start"},
           call'[p].at \in Busy \cup {"check"} => batch' = p,
           call'[p].at \in Busy => tx.owns
    PROVE  HalfInv'
<1>1. \A q \in Procs : q # p => call'[q] = call[q]
  BY DEF Aside, Others
<1>2. call'[Main] = call[Main] /\ \A g \in Grants : call'[g] = call[g]
  BY <1>1, WhoIsWho
<1>3. \A q \in Callers : q # p => call'[q] = call[q]
  BY <1>1, WhoIsWho
<1>4. Typed'
  BY DEF HalfInv, Typed, Aside, CallType
<1>5. Shapes'
  <2>1. MainShape'
    BY <1>2 DEF HalfInv, Shapes, MainShape
  <2>2. \A g \in Grants : GrantShape(g)'
    BY <1>2 DEF HalfInv, Shapes, GrantShape
  <2>3. \A q \in Callers : CallerShape(q)'
    BY <1>3 DEF HalfInv, Shapes, CallerShape
  <2> QED BY <1>2, <2>1, <2>2, <2>3 DEF Shapes
<1>6. Mutex'
  <2>1. \A q \in Callers : call'[q].at \in Busy \cup {"check"} => batch' = q
    BY <1>3, WhoIsWho DEF HalfInv, Mutex, Aside
  <2>2. \A g \in Grants : call'[g].at \in Busy \cup {"give", "take"} => batch' = g
    BY <1>2, WhoIsWho DEF HalfInv, Mutex, Aside
  <2>3. \A q \in Callers : call'[q].at \in Busy => tx'.owns
    BY <1>3 DEF HalfInv, Mutex
  <2> QED BY <2>1, <2>2, <2>3 DEF Mutex
<1>7. Flight'
  BY DEF Aside
<1>8. Token' /\ Gave'
  <2>1. /\ UNCHANGED <<air, dev>> /\ reply'[Main] = reply[Main]
        /\ \A g \in Grants : reply'[g] = reply[g]
    BY WhoIsWho DEF Aside
  <2>2. Readying' <=> Readying
    BY <1>2, <2>1 DEF Readying
  <2>3. Handing' <=> Handing
    BY <2>1 DEF Handing
  <2>4. \A g \in Grants : Granting(g)' <=> Granting(g)
    BY <1>2, <2>1 DEF Granting
  <2> QED BY <1>2, <2>1, <2>2, <2>3, <2>4 DEF HalfInv, Token, Gave
<1> QED BY <1>4, <1>5, <1>6, <1>7, <1>8 DEF HalfInv

\* A grant moves on, and may give the window away while it has batchMu.
LEMMA GrantMove ==
    ASSUME HalfInv, NEW g \in Grants, Aside(g), Granting(g)' => Granting(g),
           tx'.owns = tx.owns \/ (~tx'.owns /\ batch = g),
           GrantShape(g)', call'[g].at \in Busy \cup {"give", "take"} => batch' = g,
           Granting(g)' /\ call'[g].at \in Busy \cup {"take"} => ~tx'.owns
    PROVE  HalfInv'
<1>1. \A q \in Procs : q # g => call'[q] = call[q]
  BY DEF Aside, Others
<1>2. call'[Main] = call[Main] /\ \A p \in Callers : call'[p] = call[p]
  BY <1>1, WhoIsWho
<1>3. \A h \in Grants : h # g => call'[h] = call[h]
  BY <1>1, WhoIsWho
<1>4. Typed'
  BY DEF HalfInv, Typed, Aside, CallType
<1>5. Shapes'
  <2>1. MainShape'
    BY <1>2 DEF HalfInv, Shapes, MainShape
  <2>2. \A h \in Grants : GrantShape(h)'
    BY <1>3 DEF HalfInv, Shapes, GrantShape
  <2>3. \A q \in Callers : CallerShape(q)'
    BY <1>2 DEF HalfInv, Shapes, CallerShape
  <2> QED BY <1>2, <2>1, <2>2, <2>3 DEF HalfInv, Shapes
<1>6. Mutex'
  <2>1. \A q \in Callers : call'[q].at \in Busy \cup {"check"} => batch' = q
    BY <1>2, WhoIsWho DEF HalfInv, Mutex, Aside
  <2>2. \A h \in Grants : call'[h].at \in Busy \cup {"give", "take"} => batch' = h
    BY <1>3, WhoIsWho DEF HalfInv, Mutex, Aside
  <2>3. \A q \in Callers : call'[q].at \in Busy => tx'.owns
    BY <1>2, WhoIsWho DEF HalfInv, Mutex
  <2> QED BY <2>1, <2>2, <2>3 DEF Mutex
<1>7. Flight'
  BY DEF Aside
<1>8. Token' /\ Gave'
  <2>1. /\ UNCHANGED <<air, dev>> /\ reply'[Main] = reply[Main]
        /\ \A h \in Grants : h # g => reply'[h] = reply[h]
    BY WhoIsWho DEF Aside
  <2>2. Readying' <=> Readying
    BY <1>2, <2>1 DEF Readying
  <2>3. Handing' <=> Handing
    BY <2>1 DEF Handing
  <2>4. \A h \in Grants : Granting(h)' => Granting(h)
    BY <1>3, <2>1 DEF Granting
  <2> QED BY <1>2, <1>3, <2>1, <2>2, <2>3, <2>4 DEF HalfInv, Token, Gave
<1> QED BY <1>4, <1>5, <1>6, <1>7, <1>8 DEF HalfInv

\* The goroutine that starts the session moves on.
LEMMA MainMove ==
    ASSUME HalfInv, Aside(Main), MainShape',
           tx'.owns = tx.owns \/ (~tx'.owns /\ call[Main].op = "start"),
           call'[Main].op \in {"none", "start"} => call[Main].op \in {"none", "start"},
           Readying' => Readying \/ call[Main].op = "none",
           call'[Main].op # "none",
           Readying' /\ call'[Main].todo[1].do = "ready" /\ call'[Main].at \in Busy => ~tx'.owns
    PROVE  HalfInv'
<1>1. \A q \in Procs : q # Main => call'[q] = call[q]
  BY DEF Aside, Others
<1>2. \A p \in Callers \cup Grants : p # Main /\ p \in Procs /\ call'[p] = call[p]
  BY <1>1, WhoIsWho
<1>4. Typed'
  BY DEF HalfInv, Typed, Aside, CallType
<1>5. Shapes'
  <2>1. \A h \in Grants : GrantShape(h)'
    BY <1>2 DEF HalfInv, Shapes, GrantShape
  <2>2. \A q \in Callers : CallerShape(q)'
    BY <1>2 DEF HalfInv, Shapes, CallerShape
  <2> QED BY <1>2, <2>1, <2>2 DEF HalfInv, Shapes
<1>6. Mutex'
  <2>1. \A q \in Callers : call'[q].at \in Busy \cup {"check"} => batch' = q
    BY <1>2, WhoIsWho DEF HalfInv, Mutex, Aside
  <2>2. \A h \in Grants : call'[h].at \in Busy \cup {"give", "take"} => batch' = h
    BY <1>2, WhoIsWho DEF HalfInv, Mutex, Aside
  <2>3. \A q \in Callers : call'[q].at \in Busy => tx'.owns
    BY <1>2, WhoIsWho DEF HalfInv, Mutex, Shapes, Busy
  <2> QED BY <2>1, <2>2, <2>3 DEF Mutex
<1>7. Flight'
  BY DEF Aside
<1>8. Token' /\ Gave'
  <2>1. UNCHANGED <<air, dev>> /\ \A h \in Grants : reply'[h] = reply[h]
    BY <1>2 DEF Aside
  <2>3. Handing' <=> Handing
    BY <2>1 DEF Handing
  <2>4. \A h \in Grants : Granting(h)' <=> Granting(h)
    BY <1>2, <2>1 DEF Granting
  <2> QED BY <1>2, <2>1, <2>3, <2>4 DEF HalfInv, Token, Gave
<1> QED BY <1>4, <1>5, <1>6, <1>7, <1>8 DEF HalfInv

-----------------------------------------------------------------------------
(* The TX window and batchMu *)

\* Which goroutines can be where.
LEMMA PlaceOf ==
    ASSUME HalfInv, NEW p \in Procs
    PROVE  /\ call[p].at \in {"await", "wait", "check"} =>
                 p \in Callers /\ call[Main].op \notin {"none", "start"}
           /\ call[p].at = "take" => p \in Grants
           /\ call[p].at = "lock" => p \in Callers \cup Grants
           /\ p \in Callers /\ call[p].at # "idle" => call[Main].op \notin {"none", "start"}
           /\ call[p].at = "give" => p \in Grants \cup {Main}
           /\ call[p].at # "expect"
           /\ p \in Grants => (call[p].op = "grant" <=> call[p].at # "idle")
           /\ p \in Callers => call[p].op # "grant"
BY WhoIsWho DEF HalfInv, Shapes, MainShape, GrantShape, CallerShape, Busy, Idle

LEMMA AwaitStep ==
    ASSUME HalfInv, NEW p \in Procs, AwaitTX(p) \/ Woken(p)
    PROVE  HalfInv'
<1>1. p \in Callers /\ call[p].at \in {"await", "wait"} /\ call[Main].op \notin {"none", "start"}
  BY PlaceOf DEF AwaitTX, Woken
<1>2. PICK a \in {"lock", "wait"} : At(p, a)
  BY DEF AwaitTX, Woken
<1>3. /\ UNCHANGED <<batch, queue, writer, reply, air, dev>> /\ tx'.owns = tx.owns
      /\ tx' \in [owns : BOOLEAN, waiters : SUBSET Procs]
  <2>1. UNCHANGED <<batch, queue, writer, reply, air, dev>>
    BY DEF AwaitTX, Woken, conn, work
  <2>2. tx' = tx \/ tx' = [tx EXCEPT !.waiters = @ \cup {p}]
    BY DEF AwaitTX, Woken
  <2>3. tx.waiters \in SUBSET Procs /\ tx.waiters \cup {p} \in SUBSET Procs
    BY DEF HalfInv, Typed
  <2> QED BY <2>1, <2>2, <2>3 DEF HalfInv, Typed
<1>4. a \in Places
  BY DEF Places
<1>5. /\ call' \in CallType /\ Others(p)
      /\ call'[p].at = a /\ call'[p].op = call[p].op /\ call'[p].todo = call[p].todo
  BY <1>2, <1>4, AtEffect DEF HalfInv, CallType
<1>6. Aside(p)
  BY <1>1, <1>3, <1>5, FlightMove DEF Aside, HalfInv, Typed
<1>7. CallerShape(p)'
  BY <1>1, <1>5 DEF HalfInv, Shapes, CallerShape, Busy
<1>8. call'[p].at \notin Busy \cup {"check"}
  BY <1>5 DEF Busy
<1> QED BY <1>1, <1>3, <1>6, <1>7, <1>8, CallerMove

LEMMA GivesUpStep ==
    ASSUME HalfInv, NEW p \in Procs, GivesUp(p)
    PROVE  HalfInv'
<1>1. p \in Callers /\ call[p].at = "wait" /\ call[Main].op \notin {"none", "start"}
  BY PlaceOf DEF GivesUp
<1>2. /\ UNCHANGED <<queue, writer, reply, air, dev>> /\ tx'.owns = tx.owns
      /\ tx' \in [owns : BOOLEAN, waiters : SUBSET Procs]
  <2>1. UNCHANGED <<queue, writer, reply, air, dev>> /\ tx' = [tx EXCEPT !.waiters = @ \ {p}]
    BY DEF GivesUp, conn, work
  <2>2. tx.waiters \ {p} \in SUBSET Procs
    BY DEF HalfInv, Typed
  <2> QED BY <2>1, <2>2 DEF HalfInv, Typed
<1>3. /\ call' \in CallType /\ Others(p) /\ call'[p] = Idle
      /\ \A q \in Procs : q # p /\ batch = q => batch' = q
  BY ReturnEffect DEF HalfInv, GivesUp, CallType
<1>4. Aside(p)
  BY <1>1, <1>2, <1>3, FlightMove DEF Aside, HalfInv, Typed
<1>5. CallerShape(p)' /\ call'[p].at \notin Busy \cup {"check"}
  BY <1>3 DEF CallerShape, Busy, Idle
<1> QED BY <1>1, <1>2, <1>4, <1>5, CallerMove

LEMMA LockStep ==
    ASSUME HalfInv, NEW p \in Procs, Lock(p)
    PROVE  HalfInv'
<1>1. /\ call[p].at = "lock" /\ p \in Callers \cup Grants /\ batch = Nobody /\ batch' = p
      /\ UNCHANGED <<queue, writer, reply, air, dev, tx>>
  BY PlaceOf DEF Lock, conn, work
<1>2. CASE p \in Callers
  <2>1. call[p].op # "grant" /\ call[Main].op \notin {"none", "start"}
    BY <1>1, <1>2, PlaceOf
  <2>2. At(p, "check") /\ "check" \in Places
    BY <2>1 DEF Lock, Places
  <2>3. /\ call' \in CallType /\ Others(p)
        /\ call'[p].at = "check" /\ call'[p].op = call[p].op /\ call'[p].todo = call[p].todo
    BY <2>2, AtEffect DEF HalfInv, CallType
  <2>4. Aside(p)
    BY <1>1, <2>3, WhoIsWho, FlightMove DEF Aside, HalfInv, Typed
  <2>5. CallerShape(p)' /\ call'[p].at \notin Busy
    BY <1>1, <1>2, <2>3 DEF HalfInv, Shapes, CallerShape, Busy
  <2> QED BY <1>1, <1>2, <2>1, <2>4, <2>5, CallerMove
<1>3. CASE p \in Grants
  <2>1. call[p].op = "grant"
    BY <1>1, <1>3, PlaceOf
  <2>2. At(p, "give") /\ "give" \in Places
    BY <2>1 DEF Lock, Places
  <2>3. /\ call' \in CallType /\ Others(p)
        /\ call'[p].at = "give" /\ call'[p].op = call[p].op /\ call'[p].todo = call[p].todo
    BY <2>2, AtEffect DEF HalfInv, CallType
  <2>4. Aside(p)
    BY <1>1, <2>3, WhoIsWho, FlightMove DEF Aside, HalfInv, Typed
  <2>5. GrantShape(p)' /\ call'[p].at \notin Busy \cup {"take"}
    BY <1>1, <1>3, <2>1, <2>3 DEF HalfInv, Shapes, GrantShape, Busy, Idle
  <2>6. Granting(p)' <=> Granting(p)
    BY <1>1, <2>3 DEF Granting
  <2> QED BY <1>1, <1>3, <2>4, <2>5, <2>6, GrantMove
<1> QED BY <1>1, <1>2, <1>3

LEMMA CheckStep ==
    ASSUME HalfInv, NEW p \in Procs, Check(p)
    PROVE  HalfInv'
<1>1. /\ call[p].at = "check" /\ p \in Callers /\ call[Main].op \notin {"none", "start"}
      /\ UNCHANGED <<queue, writer, reply, air, dev, tx>> /\ batch = p
  BY PlaceOf DEF Check, conn, work, HalfInv, Mutex
<1>2. PICK a \in {"write", "await"} :
        At(p, a) /\ (a = "write" => tx.owns /\ batch' = batch)
  BY DEF Check
<1>3. a \in Places
  BY DEF Places, Busy
<1>4. /\ call' \in CallType /\ Others(p)
      /\ call'[p].at = a /\ call'[p].op = call[p].op /\ call'[p].todo = call[p].todo
  BY <1>2, <1>3, AtEffect DEF HalfInv, CallType
<1>5. Aside(p)
  BY <1>1, <1>4, FlightMove DEF Aside, HalfInv, Typed
<1>6. CallerShape(p)'
  BY <1>1, <1>2, <1>4 DEF HalfInv, Shapes, CallerShape, Busy
<1>7. call'[p].at \in Busy \cup {"check"} => batch' = p /\ tx.owns
  BY <1>1, <1>2, <1>4 DEF Busy
<1> QED BY <1>1, <1>5, <1>6, <1>7, CallerMove

LEMMA GiveStep ==
    ASSUME HalfInv, NEW p \in Procs, Give(p)
    PROVE  HalfInv'
<1>1. /\ call[p].at = "give" /\ p \in Grants \cup {Main}
      /\ UNCHANGED <<queue, writer, reply, air, dev, batch>>
  BY PlaceOf DEF Give, conn, work
<1>2. ~tx'.owns /\ tx' \in [owns : BOOLEAN, waiters : SUBSET Procs]
  BY DEF Give, HalfInv, Typed
<1>3. At(p, "write") /\ "write" \in Places
  BY DEF Give, Places, Busy
<1>4. /\ call' \in CallType /\ Others(p)
      /\ call'[p].at = "write" /\ call'[p].op = call[p].op /\ call'[p].todo = call[p].todo
  BY <1>3, AtEffect DEF HalfInv, CallType
<1>5. Aside(p)
  BY <1>1, <1>2, <1>4, FlightMove DEF Aside, HalfInv, Typed
<1>6. CASE p \in Grants
  <2>1. batch = p
    BY <1>1, <1>6 DEF HalfInv, Mutex
  <2>2. GrantShape(p)'
    BY <1>1, <1>4, <1>6 DEF HalfInv, Shapes, GrantShape, Busy, Idle
  <2>3. Granting(p)' <=> Granting(p)
    BY <1>1, <1>4 DEF Granting
  <2> QED BY <1>1, <1>2, <1>5, <1>6, <2>1, <2>2, <2>3, GrantMove
<1>7. CASE p = Main
  <2>1. call[Main].op = "start" /\ MainShape'
    BY <1>1, <1>4, <1>7 DEF HalfInv, Shapes, MainShape, Busy
  <2>2. Readying' => Readying
    BY <1>1, <1>4, <1>7 DEF Readying
  <2> QED BY <1>1, <1>2, <1>4, <1>5, <1>7, <2>1, <2>2, MainMove
<1> QED BY <1>1, <1>6, <1>7

LEMMA TakeBackStep ==
    ASSUME HalfInv, NEW g \in Procs, TakeBack(g)
    PROVE  HalfInv'
<1>1. /\ call[g].at = "take" /\ g \in Grants /\ call[g].op = "grant"
      /\ UNCHANGED <<queue, writer, reply, air, dev>>
  BY PlaceOf DEF TakeBack, conn, work
<1>2. tx'.owns /\ tx' \in [owns : BOOLEAN, waiters : SUBSET Procs]
  BY DEF TakeBack, Taken
<1>3. /\ call' \in CallType /\ Others(g) /\ call'[g] = Idle
      /\ \A q \in Procs : q # g /\ batch = q => batch' = q
  BY ReturnEffect DEF HalfInv, TakeBack, CallType
<1>4. Flight' /\ reply[g] = "none"
  BY <1>1, <1>3, FlightMove DEF HalfInv
<1>5. Granting(g) /\ ~Granting(g)'
  BY <1>1, <1>3, <1>4 DEF Granting, Idle
<1>6. call'[Main] = call[Main] /\ \A p \in Callers : call'[p] = call[p]
  BY <1>1, <1>3, WhoIsWho DEF Others
<1>7. \A h \in Grants : h # g => call'[h] = call[h]
  BY <1>3, WhoIsWho DEF Others
<1>8. Typed'
  BY <1>1, <1>2, <1>3 DEF HalfInv, Typed, CallType
<1>9. Shapes'
  <2>1. MainShape'
    BY <1>6 DEF HalfInv, Shapes, MainShape
  <2>2. \A h \in Grants : GrantShape(h)'
    BY <1>3, <1>7 DEF HalfInv, Shapes, GrantShape
  <2>3. \A q \in Callers : CallerShape(q)'
    BY <1>6 DEF HalfInv, Shapes, CallerShape
  <2> QED BY <1>6, <2>1, <2>2, <2>3 DEF HalfInv, Shapes
<1>10. Mutex'
  <2>1. \A q \in Callers : call'[q].at \in Busy \cup {"check"} => batch' = q
    BY <1>1, <1>3, <1>6, WhoIsWho DEF HalfInv, Mutex
  <2>2. \A h \in Grants : call'[h].at \in Busy \cup {"give", "take"} => batch' = h
    BY <1>3, <1>7, WhoIsWho DEF HalfInv, Mutex, Busy, Idle
  <2> QED BY <1>2, <2>1, <2>2 DEF Mutex
<1>11. \A h \in Grants : ~Granting(h)'
  BY <1>1, <1>5, <1>7 DEF HalfInv, Token, Granting
<1>12. ~dev.tx /\ ~Handing /\ ~Readying /\ call[Main].op # "none"
  BY <1>1, <1>5 DEF HalfInv, Token
<1>13. Token' /\ Gave'
  <2>1. ~Readying' /\ ~Handing' /\ ~dev'.tx /\ call'[Main].op # "none"
    BY <1>1, <1>6, <1>12 DEF Readying, Handing
  <2> QED BY <1>1, <1>11, <2>1 DEF HalfInv, Token, Gave
<1> QED BY <1>4, <1>8, <1>9, <1>10, <1>13 DEF HalfInv

-----------------------------------------------------------------------------
(* write *)

\* A step from one place of a write to the next: the goroutine keeps what it
\* has.
LEMMA BusyMove ==
    ASSUME HalfInv, NEW p \in Procs, NEW a \in Busy, Aside(p), call[p].at \in Busy,
           call'[p].at = a, call'[p].op = call[p].op, call'[p].todo = call[p].todo,
           UNCHANGED <<tx, batch, reply>>
    PROVE  HalfInv'
<1>1. CASE p \in Callers
  <2>1. CallerShape(p)' /\ call[Main].op \notin {"none", "start"}
    BY <1>1 DEF HalfInv, Shapes, CallerShape, Busy
  <2>2. batch' = p /\ tx.owns
    BY <1>1 DEF HalfInv, Mutex
  <2> QED BY <1>1, <2>1, <2>2, CallerMove
<1>2. CASE p \in Grants
  <2>1. GrantShape(p)' /\ call[p].op = "grant"
    BY <1>2 DEF HalfInv, Shapes, GrantShape, Busy, Idle
  <2>2. batch' = p
    BY <1>2 DEF HalfInv, Mutex
  <2>3. Granting(p) => ~tx'.owns
    BY <1>2 DEF HalfInv, Gave
  <2>4. Granting(p)' <=> Granting(p)
    BY DEF Granting
  <2> QED BY <1>2, <2>1, <2>2, <2>3, <2>4, GrantMove
<1>3. CASE p = Main
  <2>1. MainShape' /\ call'[Main].op # "none"
    BY <1>3 DEF HalfInv, Shapes, MainShape, Busy
  <2>2. Readying' <=> Readying
    BY <1>3 DEF Readying, Aside
  <2>3. Readying' /\ call'[Main].todo[1].do = "ready" => ~tx'.owns
    BY <1>3, <2>2 DEF HalfInv, Gave
  <2> QED BY <1>3, <2>1, <2>2, <2>3, MainMove
<1> QED BY <1>1, <1>2, <1>3, WhoIsWho

LEMMA BusyTodo ==
    ASSUME HalfInv, NEW p \in Procs, call[p].at \in Busy
    PROVE  call[p].todo # <<>> /\ call[p].todo \in Seq(Frames)
<1>1. call[p].todo \in Seq(Frames)
  BY DEF HalfInv, Typed
<1>2. call[p].todo # <<>>
  BY WhoIsWho DEF HalfInv, Shapes, MainShape, GrantShape, CallerShape, Busy, Idle
<1> QED BY <1>1, <1>2

LEMMA WriteStep ==
    ASSUME HalfInv, up, NEW p \in Procs, Write(p)
    PROVE  HalfInv'
<1>1. /\ call[p].at = "write" /\ At(p, "append")
      /\ UNCHANGED <<queue, writer, reply, air, dev, tx, batch>>
  BY DEF Write, conn, work
<1>2. {"write", "append"} \subseteq Busy /\ "append" \in Places
  BY DEF Places, Busy
<1>3. /\ call' \in CallType /\ Others(p)
      /\ call'[p].at = "append" /\ call'[p].op = call[p].op /\ call'[p].todo = call[p].todo
  BY <1>1, <1>2, AtEffect DEF HalfInv, CallType
<1>4. Aside(p)
  BY <1>1, <1>3, FlightMove DEF Aside, HalfInv, Typed
<1> QED BY <1>1, <1>2, <1>3, <1>4, BusyMove

LEMMA SignalStep ==
    ASSUME HalfInv, NEW p \in Procs, Signal(p)
    PROVE  HalfInv'
<1>1. /\ call[p].at = "signal" /\ At(p, "reply")
      /\ UNCHANGED <<queue, writer, reply, air, dev, tx, batch>>
  BY DEF Signal, conn
<1>2. {"signal", "reply"} \subseteq Busy /\ "reply" \in Places
  BY DEF Places, Busy
<1>3. /\ call' \in CallType /\ Others(p)
      /\ call'[p].at = "reply" /\ call'[p].op = call[p].op /\ call'[p].todo = call[p].todo
  BY <1>1, <1>2, AtEffect DEF HalfInv, CallType
<1>4. \A q \in Procs : /\ call'[q].at \in {"signal", "reply"} <=> call[q].at \in {"signal", "reply"}
                       /\ call'[q].todo = call[q].todo
  BY <1>1, <1>3 DEF Others
<1>5. \A r \in Queued : Flying(r)' <=> Flying(r)
  BY <1>1, <1>4 DEF Flying
<1>6. \A i \in 1 .. Len(queue) : queue[i] \in Queued
  BY DEF HalfInv, Typed
<1>7. writer.req \in Queued
  BY DEF HalfInv, Typed
<1>8. Flight'
  BY <1>1, <1>4, <1>5, <1>6, <1>7 DEF HalfInv, Flight
<1>9. Aside(p)
  BY <1>1, <1>3, <1>8 DEF Aside, HalfInv, Typed
<1> QED BY <1>1, <1>2, <1>3, <1>9, BusyMove

LEMMA AppendStep ==
    ASSUME HalfInv, NEW p \in Procs, Append1(p)
    PROVE  HalfInv'
<1> DEFINE new == [by |-> p, frame |-> Head(call[p].todo)]
<1>1. /\ call[p].at = "append" /\ At(p, "signal") /\ queue' = Append(queue, new)
      /\ UNCHANGED <<writer, reply, air, dev, tx, batch>>
  BY DEF Append1, conn
<1>2. {"append", "signal"} \subseteq Busy /\ "signal" \in Places
  BY DEF Places, Busy
<1>3. /\ call' \in CallType /\ Others(p)
      /\ call'[p].at = "signal" /\ call'[p].op = call[p].op /\ call'[p].todo = call[p].todo
  BY <1>1, <1>2, AtEffect DEF HalfInv, CallType
<1>4. Head(call[p].todo) = call[p].todo[1] /\ Head(call[p].todo) \in Frames
  BY <1>1, <1>2, BusyTodo
<1>5. new \in Queued /\ new.by = p /\ new.frame = call[p].todo[1]
  BY <1>4 DEF Queued
<1>6. reply[p] = "none"
  BY <1>1 DEF HalfInv, Flight
<1>7. StillFlying(new)
  BY <1>1, <1>3, <1>5, <1>6 DEF StillFlying
<1>8. \A r \in Queued : Flying(r) => r.by # p /\ StillFlying(r)
  BY <1>1, <1>3 DEF Flying, StillFlying, Others
<1> HIDE DEF new
<1>9. /\ queue' \in Seq(Queued) /\ Len(queue') = Len(queue) + 1 /\ Len(queue) \in Nat
      /\ queue'[Len(queue) + 1] = new
      /\ \A i \in 1 .. Len(queue) : queue'[i] = queue[i] /\ queue[i] \in Queued
  BY <1>1, <1>5 DEF HalfInv, Typed
<1>10. \A i \in 1 .. Len(queue) : queue[i].by # p /\ StillFlying(queue[i])
  BY <1>8, <1>9 DEF HalfInv, Flight
<1>11. \A i \in 1 .. Len(queue') : i \in 1 .. Len(queue) \/ i = Len(queue) + 1
  BY <1>9
<1>12. Flight'
  <2>1. \A q \in Procs : reply'[q] # "none" => call'[q].at \in {"signal", "reply"}
    BY <1>1, <1>3 DEF HalfInv, Flight, Others
  <2>2. \A i \in 1 .. Len(queue') : StillFlying(queue'[i])
    BY <1>7, <1>9, <1>10, <1>11
  <2>3. \A i, j \in 1 .. Len(queue') : queue'[i].by = queue'[j].by => i = j
    BY <1>5, <1>9, <1>10, <1>11 DEF HalfInv, Flight
  <2>4. writer.at = "write" => /\ StillFlying(writer.req) /\ writer.req.by # p
                               /\ \A i \in 1 .. Len(queue') : queue'[i].by # writer.req.by
    <3>1. writer.req \in Queued
      BY DEF HalfInv, Typed
    <3>2. writer.at = "write" => StillFlying(writer.req) /\ writer.req.by # p
      BY <3>1, <1>8 DEF HalfInv, Flight
    <3>3. writer.at = "write" => \A i \in 1 .. Len(queue) : queue[i].by # writer.req.by
      BY DEF HalfInv, Flight
    <3> QED BY <3>2, <3>3, <1>5, <1>9, <1>11
  <2> QED BY <1>1, <2>1, <2>2, <2>3, <2>4 DEF Flight, Flying, StillFlying
<1>13. Aside(p)
  BY <1>1, <1>3, <1>9, <1>12 DEF Aside, HalfInv, Typed
<1> QED BY <1>1, <1>2, <1>3, <1>13, BusyMove

LEMMA FlightReply ==
    ASSUME HalfInv, NEW p \in Procs, Others(p), UNCHANGED <<queue, writer>>, reply[p] # "none",
           reply' = [reply EXCEPT ![p] = "none"]
    PROVE  Flight'
<1>1. \A r \in Queued : Flying(r) => r.by # p /\ Flying(r)'
  BY DEF Flying, Others, HalfInv, Typed
<1>2. \A i \in 1 .. Len(queue) : queue[i] \in Queued
  BY DEF HalfInv, Typed
<1>3. writer.req \in Queued
  BY DEF HalfInv, Typed
<1>4. \A q \in Procs : reply'[q] # "none" => call'[q].at \in {"signal", "reply"}
  BY DEF HalfInv, Typed, Flight, Others
<1> QED BY <1>1, <1>2, <1>3, <1>4 DEF HalfInv, Flight

\* What a reply leaves alone, whatever the call does with it.
LEMMA ReplyAside ==
    ASSUME HalfInv, up, NEW p \in Procs, Reply(p), Others(p), call' \in CallType,
           \A q \in Procs : q # p /\ batch = q => batch' = q
    PROVE  Aside(p) /\ reply'[p] = "none" /\ tx' = tx
<1>1. /\ UNCHANGED <<queue, writer, air, dev, tx>> /\ reply[p] \in {"ok", "failed"}
      /\ reply' = [reply EXCEPT ![p] = "none"]
  BY DEF Reply, conn, work
<1>2. Flight'
  BY <1>1, FlightReply
<1> QED BY <1>1, <1>2 DEF Aside, HalfInv, Typed

LEMMA CallerReply ==
    ASSUME HalfInv, HalfDuplex, up, NEW p \in Callers, Reply(p)
    PROVE  HalfInv'
<1> DEFINE rest == Tail(call[p].todo)
<1>1. p \in Procs /\ call[p].at = "reply" /\ "reply" \in Busy
  BY WhoIsWho DEF Reply, Busy
<1>2. /\ call[p].op \in {"send", "list"} /\ call[p].todo # <<>>
      /\ \A i \in 1 .. Len(call[p].todo) : call[p].todo[i].do \notin {"ready", "grant"}
      /\ call[Main].op \notin {"none", "start"} /\ batch = p /\ tx.owns
  BY <1>1 DEF HalfInv, Shapes, CallerShape, Mutex
<1>3. CASE rest # <<>> /\ Written(p)
  <2>1. call' = [call EXCEPT ![p].todo = rest, ![p].at = "write"] /\ batch' = batch
    BY <1>2, <1>3 DEF Written
  <2>2. call[p].todo \in Seq(Frames)
    BY <1>1 DEF HalfInv, Typed
  <2>3. rest \in Seq(Frames) /\ \A i \in 1 .. Len(rest) : rest[i].do \notin {"ready", "grant"}
    BY <1>2, <2>2
  <2> HIDE DEF rest
  <2>4. "write" \in Places /\ "write" \in Busy
    BY DEF Places, Busy
  <2>5. /\ Others(p) /\ call' \in CallType
        /\ call'[p].at = "write" /\ call'[p].op = call[p].op /\ call'[p].todo = rest
    BY <1>1, <2>1, <2>3, <2>4 DEF HalfInv, Typed, CallType, Others
  <2>6. Aside(p) /\ tx' = tx
    BY <1>1, <2>1, <2>5, ReplyAside
  <2>7. CallerShape(p)'
    BY <1>2, <1>3, <2>3, <2>4, <2>5 DEF CallerShape
  <2> QED BY <1>2, <2>1, <2>6, <2>7, CallerMove
<1>4. CASE Return(p)
  <2>1. /\ call' \in CallType /\ Others(p) /\ call'[p] = Idle
        /\ \A q \in Procs : q # p /\ batch = q => batch' = q
    BY <1>1, <1>4, ReturnEffect DEF HalfInv, CallType
  <2>2. Aside(p) /\ tx' = tx
    BY <1>1, <2>1, ReplyAside
  <2>3. CallerShape(p)' /\ call'[p].at \notin Busy \cup {"check"}
    BY <2>1 DEF CallerShape, Busy, Idle
  <2> QED BY <1>2, <2>2, <2>3, CallerMove
<1>5. CASE Failed(p)
  BY <1>2, <1>4, <1>5 DEF Failed
<1>6. CASE rest = <<>> /\ Written(p)
  BY <1>2, <1>4, <1>6 DEF Written
<1> QED BY <1>3, <1>5, <1>6 DEF Reply

LEMMA GrantReply ==
    ASSUME HalfInv, HalfDuplex, up, NEW g \in Grants, Reply(g)
    PROVE  HalfInv'
<1>1. g \in Procs /\ call[g].at = "reply" /\ "reply" \in Busy
  BY WhoIsWho DEF Reply, Busy
<1>2. call[g].op = "grant" /\ call[g].todo = <<Frame("grant", "none")>> /\ batch = g
  BY <1>1 DEF HalfInv, Shapes, GrantShape, Mutex, Idle
<1>3. CASE Return(g)
  <2>1. /\ call' \in CallType /\ Others(g) /\ call'[g] = Idle
        /\ \A q \in Procs : q # g /\ batch = q => batch' = q
    BY <1>1, <1>3, ReturnEffect DEF HalfInv, CallType
  <2>2. Aside(g) /\ tx' = tx
    BY <1>1, <2>1, ReplyAside
  <2>3. GrantShape(g)' /\ call'[g].at \notin Busy \cup {"give", "take"} /\ ~Granting(g)'
    BY <2>1 DEF GrantShape, Granting, Busy, Idle
  <2> QED BY <2>2, <2>3, GrantMove
<1>4. CASE reply[g] = "failed" /\ Failed(g)
  <2>1. At(g, "take") /\ batch' = batch /\ "take" \in Places
    BY <1>2, <1>4 DEF Failed, Places
  <2>2. /\ call' \in CallType /\ Others(g)
        /\ call'[g].at = "take" /\ call'[g].op = call[g].op /\ call'[g].todo = call[g].todo
    BY <1>1, <2>1, AtEffect DEF HalfInv, CallType
  <2>3. Aside(g) /\ tx' = tx
    BY <1>1, <2>1, <2>2, ReplyAside
  <2>4. Granting(g) /\ ~tx.owns
    BY <1>1, <1>2, <1>4 DEF HalfInv, Gave, Granting
  <2>5. GrantShape(g)'
    BY <1>2, <2>2 DEF GrantShape
  <2> QED BY <1>2, <2>1, <2>3, <2>4, <2>5, GrantMove
<1>5. CASE Written(g)
  <2>1. Tail(call[g].todo) = <<>>
    BY <1>2
  <2> QED BY <1>2, <1>3, <1>5, <2>1 DEF Written
<1> QED BY <1>4, <1>5 DEF Reply

LEMMA MainReply ==
    ASSUME HalfInv, HalfDuplex, up, Reply(Main)
    PROVE  HalfInv'
<1> DEFINE two == <<Frame("runtime", "none"), Frame("ready", "none")>>
           ready == <<Frame("ready", "none")>>
           bye == <<Frame("bye", "none")>>
<1>1. Main \in Procs /\ call[Main].at = "reply" /\ "reply" \in Busy
  BY WhoIsWho DEF Reply, Busy
<1>2. \/ call[Main].op = "start" /\ call[Main].todo \in {two, ready}
      \/ call[Main].op = "close" /\ call[Main].todo = bye
  BY <1>1 DEF HalfInv, Shapes, MainShape, Busy
<1>3. /\ two \in Seq(Frames) /\ ready \in Seq(Frames) /\ bye \in Seq(Frames)
      /\ Tail(two) = ready /\ Tail(ready) = <<>> /\ Tail(bye) = <<>> /\ ready # <<>>
      /\ two[1].do = "runtime" /\ ready[1].do = "ready" /\ <<>> \in Seq(Frames)
  BY FramesAre
<1> HIDE DEF two, ready, bye
<1>5. CASE call[Main].op = "start" /\ call[Main].todo = two /\ reply[Main] = "ok" /\ Written(Main)
  <2>1. call' = [call EXCEPT ![Main].todo = ready, ![Main].at = "give"] /\ batch' = batch
    BY <1>3, <1>5 DEF Written
  <2>2. "give" \in Places /\ "give" \notin Busy
    BY DEF Places, Busy
  <2>3. /\ Others(Main) /\ call' \in CallType
        /\ call'[Main].at = "give" /\ call'[Main].op = "start" /\ call'[Main].todo = ready
    <3>1. call \in CallType
      BY DEF HalfInv, Typed, CallType
    <3> QED BY <1>1, <1>3, <1>5, <2>1, <2>2, <3>1 DEF CallType, Others
  <2>4. Aside(Main) /\ tx' = tx
    BY <1>1, <2>1, <2>3, ReplyAside
  <2>5. MainShape'
    BY <1>3, <2>3 DEF MainShape, ready
  <2>6. Readying
    BY <1>3, <1>5 DEF Readying
  <2> QED BY <1>5, <2>2, <2>3, <2>4, <2>5, <2>6, MainMove
<1>6. CASE call[Main].op = "start" /\ call[Main].todo = ready /\ reply[Main] = "ok" /\ Written(Main)
  <2>1. Calls(Main, "started", "idle", <<>>) /\ batch' = batch
    BY <1>3, <1>6 DEF Written, Calls
  <2>2. "idle" \in Places /\ "started" \in Ops
    BY DEF Places, Ops
  <2>3. /\ Others(Main) /\ call' \in CallType
        /\ call'[Main].at = "idle" /\ call'[Main].op = "started"
    BY <1>1, <1>3, <2>1, <2>2, CallsEffect DEF HalfInv, CallType
  <2>4. Aside(Main) /\ tx' = tx
    BY <1>1, <2>1, <2>3, ReplyAside
  <2>5. MainShape' /\ ~Readying'
    BY <2>3 DEF MainShape, Readying
  <2> QED BY <2>3, <2>4, <2>5, MainMove
<1>7. CASE call[Main].op = "start" /\ Failed(Main)
  <2>1. Calls(Main, "close", "write", bye) /\ batch' = batch
    BY <1>7 DEF Failed, Closing, bye
  <2>2. "write" \in Places /\ "close" \in Ops
    BY DEF Places, Ops, Busy
  <2>3. /\ Others(Main) /\ call' \in CallType
        /\ call'[Main].at = "write" /\ call'[Main].op = "close" /\ call'[Main].todo = bye
    BY <1>1, <1>3, <2>1, <2>2, CallsEffect DEF HalfInv, CallType
  <2>4. Aside(Main) /\ tx' = tx
    BY <1>1, <2>1, <2>3, ReplyAside
  <2>5. MainShape' /\ ~Readying'
    BY <2>3 DEF MainShape, Readying, bye, Busy
  <2> QED BY <2>3, <2>4, <2>5, MainMove
<1>8. CASE call[Main].op = "close" /\ call[Main].todo = bye /\ (Failed(Main) \/ Written(Main))
  <2>1. At(Main, "close") /\ batch' = batch
    BY <1>3, <1>8 DEF Failed, Written
  <2>2. "close" \in Places
    BY DEF Places
  <2>3. /\ Others(Main) /\ call' \in CallType
        /\ call'[Main].at = "close" /\ call'[Main].op = "close" /\ call'[Main].todo = bye
    BY <1>1, <1>8, <2>1, <2>2, AtEffect DEF HalfInv, CallType
  <2>4. Aside(Main) /\ tx' = tx
    BY <1>1, <2>1, <2>3, ReplyAside
  <2>5. MainShape' /\ ~Readying'
    BY <2>3 DEF MainShape, Readying, bye
  <2> QED BY <2>3, <2>4, <2>5, MainMove
<1> QED BY <1>2, <1>5, <1>6, <1>7, <1>8 DEF Reply

-----------------------------------------------------------------------------
(* The calls *)

LEMMA SendStep ==
    ASSUME HalfInv, NEW p \in Callers, Send(p) \/ List(p)
    PROVE  HalfInv'
<1>1. /\ p \in Procs /\ call[p].at = "idle" /\ call[Main].op = "started"
      /\ UNCHANGED <<queue, writer, reply, air, dev, tx, batch>>
  BY WhoIsWho DEF Send, List, Started, conn, work
<1>2. PICK o \in {"send", "list"}, t \in Seq(Frames) :
        /\ Calls(p, o, "await", t) /\ t # <<>>
        /\ \A i \in 1 .. Len(t) : t[i].do \notin {"ready", "grant"}
  <2>1. CASE Send(p)
    <3>1. PICK b \in Batches : Calls(p, "send", "await", b)
      BY <2>1 DEF Send
    <3>2. b \in Seq(Frames) /\ b # <<>> /\ \A i \in 1 .. Len(b) : b[i].do \notin {"ready", "grant"}
      BY ClientAssumption, BatchAssumption
    <3> QED BY <3>1, <3>2
  <2>2. CASE List(p)
    <3> DEFINE ask == <<Ask("static")>>
    <3>1. Calls(p, "list", "await", ask)
      BY <2>2 DEF List
    <3>2. Ask("static") \in Frames /\ Ask("static").do = "ask"
      BY DEF Ask, Frame, Frames, Dos, Records
    <3>3. ask \in Seq(Frames) /\ ask # <<>> /\ \A i \in 1 .. Len(ask) : ask[i].do \notin {"ready", "grant"}
      BY <3>2
    <3> HIDE DEF ask
    <3> QED BY <3>1, <3>3
  <2> QED BY <2>1, <2>2
<1>3. o \in Ops /\ "await" \in Places
  BY DEF Ops, Places
<1>4. /\ call' \in CallType /\ Others(p)
      /\ call'[p].at = "await" /\ call'[p].op = o /\ call'[p].todo = t
  BY <1>1, <1>2, <1>3, CallsEffect DEF HalfInv, CallType
<1>5. Aside(p)
  BY <1>1, <1>4, FlightMove DEF Aside, HalfInv, Typed
<1>6. CallerShape(p)' /\ call'[p].at \notin Busy \cup {"check"}
  BY <1>2, <1>4 DEF CallerShape, Busy
<1> QED BY <1>1, <1>5, <1>6, CallerMove

LEMMA StartStep ==
    ASSUME HalfInv, up, Start \/ Close
    PROVE  HalfInv'
<1> DEFINE two == <<Frame("runtime", "none"), Frame("ready", "none")>>
           bye == <<Frame("bye", "none")>>
<1>1. /\ Main \in Procs /\ UNCHANGED <<queue, writer, reply, air, dev, tx, batch>>
      /\ \/ call[Main] = Idle /\ Calls(Main, "start", "write", two)
         \/ call[Main].op = "started" /\ Calls(Main, "close", "write", bye)
  BY WhoIsWho DEF Start, Close, Started, Closing, conn, work
<1>2. call[Main].at = "idle" /\ call[Main].op \in {"none", "started"}
  BY <1>1 DEF HalfInv, Shapes, MainShape, Idle
<1>3. two \in Seq(Frames) /\ bye \in Seq(Frames) /\ two[1].do = "runtime" /\ two # <<>>
  BY FramesAre
<1>4. {"start", "close"} \subseteq Ops /\ "write" \in Places /\ "write" \in Busy
  BY DEF Ops, Places, Busy
<1> HIDE DEF two, bye
<1>5. CASE call[Main] = Idle /\ Calls(Main, "start", "write", two)
  <2>1. /\ call' \in CallType /\ Others(Main)
        /\ call'[Main].at = "write" /\ call'[Main].op = "start" /\ call'[Main].todo = two
    BY <1>1, <1>3, <1>4, <1>5, CallsEffect DEF HalfInv, CallType
  <2>2. Aside(Main)
    BY <1>1, <1>2, <2>1, FlightMove DEF Aside, HalfInv, Typed
  <2>3. MainShape' /\ call[Main].op = "none"
    BY <1>3, <1>4, <1>5, <2>1 DEF MainShape, two, Idle
  <2> QED BY <1>1, <1>3, <2>1, <2>2, <2>3, MainMove
<1>6. CASE call[Main].op = "started" /\ Calls(Main, "close", "write", bye)
  <2>1. /\ call' \in CallType /\ Others(Main)
        /\ call'[Main].at = "write" /\ call'[Main].op = "close" /\ call'[Main].todo = bye
    BY <1>1, <1>3, <1>4, <1>6, CallsEffect DEF HalfInv, CallType
  <2>2. Aside(Main)
    BY <1>1, <1>2, <2>1, FlightMove DEF Aside, HalfInv, Typed
  <2>3. MainShape' /\ ~Readying'
    BY <1>4, <2>1 DEF MainShape, Readying, bye
  <2> QED BY <1>1, <2>1, <2>2, <2>3, MainMove
<1> QED BY <1>1, <1>5, <1>6

-----------------------------------------------------------------------------
(* The writer *)

LEMMA TakesStep ==
    ASSUME HalfInv, WriterTakes
    PROVE  HalfInv'
<1>1. UNCHANGED <<call, reply, tx, batch, air, dev>>
  BY DEF WriterTakes, conn
<1>2. Shapes' /\ Mutex' /\ Token' /\ Gave'
  BY <1>1 DEF HalfInv, Shapes, MainShape, GrantShape, CallerShape, Mutex, Token, Gave, Readying,
              Granting, Handing
<1>3. \A r \in Queued : Flying(r)' <=> Flying(r)
  BY <1>1 DEF Flying
<1>4. CASE queue = <<>>
  <2>1. queue' = queue /\ writer' = Resting("wait")
    BY <1>4 DEF WriterTakes
  <2>2. Resting("wait") \in [at : {"wait", "take", "write", "end"}, req : Queued] /\ Resting("wait").at = "wait"
    BY FramesAre DEF Resting, Queued
  <2>3. Typed'
    BY <1>1, <2>1, <2>2 DEF HalfInv, Typed
  <2>4. Flight'
    BY <1>1, <1>4, <2>1, <2>2 DEF HalfInv, Flight
  <2> QED BY <1>2, <2>3, <2>4 DEF HalfInv
<1>5. CASE queue # <<>>
  <2> DEFINE r == Head(queue)
  <2>1. queue' = Tail(queue) /\ writer' = [at |-> "write", req |-> r]
    BY <1>5 DEF WriterTakes, Takes
  <2>2. queue \in Seq(Queued) /\ Len(queue) \in Nat \ {0}
    BY <1>5 DEF HalfInv, Typed
  <2>3. /\ r = queue[1] /\ r \in Queued
        /\ Tail(queue) \in Seq(Queued) /\ Len(Tail(queue)) = Len(queue) - 1
        /\ \A i \in 1 .. Len(Tail(queue)) :
              Tail(queue)[i] = queue[i + 1] /\ i + 1 \in 1 .. Len(queue) /\ queue[i + 1] \in Queued
    BY <2>2, <1>5
  <2> HIDE DEF r
  <2>4. Typed'
    BY <1>1, <2>1, <2>3 DEF HalfInv, Typed
  <2>5. Flying(r)
    BY <2>2, <2>3 DEF HalfInv, Flight
  <2>6. \A i \in 1 .. Len(queue') : Flying(queue'[i]) /\ queue'[i] \in Queued /\ queue'[i].by # r.by
    BY <2>1, <2>2, <2>3 DEF HalfInv, Flight
  <2>7. \A i, j \in 1 .. Len(queue') : queue'[i].by = queue'[j].by => i = j
    BY <2>1, <2>2, <2>3 DEF HalfInv, Flight
  <2>8. \A p \in Procs : reply'[p] # "none" => call'[p].at \in {"signal", "reply"}
    BY <1>1 DEF HalfInv, Flight
  <2>9. writer'.req = r
    BY <2>1
  <2>10. Flight'
    BY <1>1, <1>3, <2>3, <2>5, <2>6, <2>7, <2>8, <2>9 DEF Flight, Flying
  <2> QED BY <1>2, <2>4, <2>10 DEF HalfInv
<1> QED BY <1>4, <1>5

\* Of the frames, a Ready and a grant give the device the window.
LEMMA HandlesTx ==
    ASSUME NEW f, "tx" \in DOMAIN dev, dev.tx \in BOOLEAN
    PROVE  /\ "tx" \in DOMAIN Handles(f)
           /\ Handles(f).tx <=> dev.tx \/ (HalfDuplex /\ f.do \in {"grant", "ready"})
           /\ Handles(f).tx \in BOOLEAN
BY DEF Handles

\* The writer's part of the result of a write.
LEMMA OutcomeFlight ==
    ASSUME HalfInv, NEW o \in {"ok", "failed"}, Outcome(o)
    PROVE  /\ writer.req.by \in Procs /\ Flying(writer.req) /\ Flight'
           /\ reply' = [reply EXCEPT ![writer.req.by] = o]
           /\ UNCHANGED <<call, tx, batch, air, queue>>
           /\ reply' \in [Procs -> {"none", "ok", "failed"}]
           /\ writer' \in [at : {"wait", "take", "write", "end"}, req : Queued]
<1> DEFINE p == writer.req.by
<1>1. writer.at = "write" /\ Flying(writer.req) /\ p \in Procs
  BY DEF Outcome, HalfInv, Flight, Flying
<1>2. p # Nobody
  BY <1>1, WhoIsWho
<1>3. reply' = [reply EXCEPT ![p] = o] /\ writer' = Resting("take") /\ UNCHANGED <<call, tx, batch, air, queue>>
  BY <1>2 DEF Outcome, work
<1>4. /\ Resting("take") \in [at : {"wait", "take", "write", "end"}, req : Queued]
      /\ Resting("take").at = "take"
  BY FramesAre DEF Resting, Queued
<1>5. \A i \in 1 .. Len(queue) : queue[i].by # p /\ Flying(queue[i])
  BY <1>1 DEF HalfInv, Flight
<1> HIDE DEF p
<1>6. \A q \in Procs : q # p => reply'[q] = reply[q]
  BY <1>1, <1>3 DEF HalfInv, Typed
<1>7. \A i \in 1 .. Len(queue) : Flying(queue[i])'
  BY <1>3, <1>5, <1>6 DEF Flying
<1>8. \A q \in Procs : reply'[q] # "none" => call'[q].at \in {"signal", "reply"}
  BY <1>1, <1>3, <1>6 DEF HalfInv, Flight, Flying, p
<1>9. Flight'
  BY <1>3, <1>4, <1>7, <1>8 DEF HalfInv, Flight
<1> QED BY <1>1, <1>3, <1>4, <1>9 DEF p, HalfInv, Typed

LEMMA OutcomeStep ==
    ASSUME HalfInv, HalfDuplex, up, WriteLands \/ WriteFails
    PROVE  HalfInv'
<1>0. PICK p, f : p = writer.req.by /\ f = writer.req.frame
  OBVIOUS
<1>1. PICK o \in {"ok", "failed"} :
        Outcome(o) /\ dev' = IF o = "ok" THEN Handles(f) ELSE dev
  BY <1>0 DEF WriteLands, WriteFails
<1>2. /\ p \in Procs /\ Flying(writer.req) /\ Flight' /\ reply' = [reply EXCEPT ![p] = o]
      /\ UNCHANGED <<call, tx, batch, air, queue>>
      /\ reply' \in [Procs -> {"none", "ok", "failed"}]
      /\ writer' \in [at : {"wait", "take", "write", "end"}, req : Queued]
  BY <1>0, <1>1, OutcomeFlight
<1>3. call[p].at \in {"signal", "reply"} /\ reply[p] = "none" /\ f = call[p].todo[1]
  BY <1>0, <1>2 DEF Flying
<1>4. /\ "tx" \in DOMAIN dev' /\ dev'.tx \in BOOLEAN
      /\ dev'.tx <=> dev.tx \/ (o = "ok" /\ f.do \in {"grant", "ready"})
  BY <1>1, HandlesTx DEF HalfInv, Typed
<1>5. Typed'
  BY <1>2, <1>4 DEF HalfInv, Typed
<1>6. Shapes' /\ Mutex'
  BY <1>2 DEF HalfInv, Shapes, MainShape, GrantShape, CallerShape, Mutex
<1>7. Handing' <=> Handing
  BY <1>2 DEF Handing
<1>8. reply'[p] = o /\ \A q \in Procs : q # p => reply'[q] = reply[q]
  BY <1>2 DEF HalfInv, Typed
<1>9. {"signal", "reply"} \subseteq Busy
  BY DEF Busy
<1>10. Token' /\ Gave'
  <2>1. CASE p \in Callers
    <3>1. f.do \notin {"grant", "ready"}
      BY <1>3, <2>1 DEF HalfInv, Shapes, CallerShape
    <3>2. dev'.tx <=> dev.tx
      BY <1>4, <3>1
    <3>3. \A g \in Grants : Granting(g)' <=> Granting(g)
      BY <1>2, <1>8, <2>1, WhoIsWho DEF Granting
    <3>4. Readying' <=> Readying
      BY <1>2, <1>8, <2>1, WhoIsWho DEF Readying
    <3> QED BY <1>2, <1>7, <3>2, <3>3, <3>4 DEF HalfInv, Token, Gave
  <2>2. CASE p \in Grants
    <3>1. call[p].op = "grant" /\ Granting(p) /\ ~tx.owns /\ f.do = "grant"
      <4>1. call[p].op = "grant" /\ call[p].todo = <<Frame("grant", "none")>>
        BY <1>3, <2>2 DEF HalfInv, Shapes, GrantShape, Idle
      <4>2. f.do = "grant"
        BY <1>3, <4>1, FramesAre
      <4>3. Granting(p)
        BY <1>3, <4>1 DEF Granting
      <4> QED BY <1>3, <1>9, <2>2, <4>1, <4>2, <4>3 DEF HalfInv, Gave
    <3>2. ~Readying /\ call[Main].op # "none" /\ ~dev.tx /\ ~Handing
          /\ \A g \in Grants : Granting(g) => g = p
      BY <2>2, <3>1 DEF HalfInv, Token
    <3>3. ~Readying' /\ call'[Main].op # "none"
      BY <1>2, <1>8, <2>2, <3>2, WhoIsWho DEF Readying
    <3>4. \A g \in Grants : g # p => ~Granting(g)'
      BY <1>2, <1>8, <3>2, WhoIsWho DEF Granting
    <3>5. CASE o = "ok"
      <4>1. dev'.tx /\ ~Granting(p)'
        BY <1>4, <1>8, <3>1, <3>5 DEF Granting
      <4> QED BY <1>2, <1>7, <3>1, <3>2, <3>3, <3>4, <4>1 DEF HalfInv, Token, Gave
    <3>6. CASE o = "failed"
      <4>1. ~dev'.tx
        BY <1>4, <3>2, <3>6
      <4> QED BY <1>2, <1>7, <3>1, <3>2, <3>3, <3>4, <4>1 DEF HalfInv, Token, Gave
    <3> QED BY <3>5, <3>6
  <2>3. CASE p = Main
    <3>1. \A g \in Grants : Granting(g)' <=> Granting(g)
      BY <1>2, <1>8, <2>3, WhoIsWho DEF Granting
    <3>2. CASE o = "ok" /\ call[Main].op = "start" /\ f.do = "ready"
      <4>1. Readying /\ ~tx.owns
        BY <1>3, <1>9, <2>3, <3>2 DEF HalfInv, Gave, Readying
      <4>2. ~Handing /\ \A g \in Grants : ~Granting(g)
        BY <4>1 DEF HalfInv, Token
      <4>3. ~Readying' /\ call'[Main].op # "none"
        BY <1>2, <1>3, <1>8, <2>3, <3>2 DEF Readying
      <4> QED BY <1>2, <1>7, <3>1, <4>1, <4>2, <4>3 DEF HalfInv, Token, Gave
    <3>3. CASE ~(o = "ok" /\ call[Main].op = "start" /\ f.do = "ready")
      <4>1. o = "ok" => f.do \notin {"grant", "ready"}
        <5>1. CASE call[Main].op = "start"
          BY <1>3, <2>3, <3>3, <5>1, FramesAre DEF HalfInv, Shapes, MainShape
        <5>2. CASE call[Main].op # "start"
          BY <1>3, <2>3, <5>2, FramesAre DEF HalfInv, Shapes, MainShape
        <5> QED BY <5>1, <5>2
      <4>2. dev'.tx <=> dev.tx
        BY <1>4, <4>1
      <4>3. Readying' => Readying
        BY <1>2, <1>3, <2>3 DEF Readying
      <4>4. UNCHANGED <<call, tx, air>>
        BY <1>2
      <4>5. Token'
        BY <4>4, <1>7, <3>1, <4>2, <4>3 DEF HalfInv, Token
      <4>6. Gave'
        BY <4>4, <3>1, <4>3 DEF HalfInv, Gave
      <4> QED BY <4>5, <4>6
    <3> QED BY <3>2, <3>3
  <2> QED BY <1>2, <2>1, <2>2, <2>3, WhoIsWho
<1> QED BY <1>2, <1>5, <1>6, <1>10 DEF HalfInv

-----------------------------------------------------------------------------
(* The receiver and the device *)

LEMMA ReceiveStep ==
    ASSUME HalfInv, HalfDuplex, Receive
    PROVE  HalfInv'
<1>1. /\ air # <<>> /\ air' = Tail(air) /\ UNCHANGED <<queue, dev, batch, writer, reply>>
      /\ IF Head(air) = "handoff" THEN tx' = Taken /\ Spawn ELSE UNCHANGED <<tx, call>>
  BY DEF Receive, Acks
<1>2. /\ air \in Seq(Notices) /\ Tail(air) \in Seq(Notices) /\ Head(air) = air[1]
      /\ Len(air) \in Nat \ {0} /\ Len(Tail(air)) = Len(air) - 1
      /\ \A i \in 1 .. Len(Tail(air)) : Tail(air)[i] = air[i + 1] /\ i + 1 \in 1 .. Len(air)
  BY <1>1 DEF HalfInv, Typed
<1>3. Handing' => Handing
  BY <1>1, <1>2 DEF Handing
<1>4. \A i, j \in 1 .. Len(air') : air'[i] = "handoff" /\ air'[j] = "handoff" => i = j
  BY <1>1, <1>2 DEF HalfInv, Token
<1>5. CASE Head(air) # "handoff"
  <2>1. UNCHANGED <<tx, call, reply, dev, batch, queue, writer>>
    BY <1>1, <1>5
  <2>2. Typed'
    BY <1>1, <1>2, <2>1 DEF HalfInv, Typed
  <2>3. Shapes' /\ Mutex'
    BY <2>1 DEF HalfInv, Shapes, MainShape, GrantShape, CallerShape, Mutex
  <2>4. Flight'
    BY <2>1 DEF HalfInv, Flight, Flying
  <2>5. (Readying' <=> Readying) /\ \A g \in Grants : Granting(g)' <=> Granting(g)
    BY <2>1 DEF Readying, Granting
  <2>6. Token' /\ Gave'
    BY <1>3, <1>4, <2>1, <2>5 DEF HalfInv, Token, Gave
  <2> QED BY <2>2, <2>3, <2>4, <2>6 DEF HalfInv
<1>6. CASE Head(air) = "handoff"
  <2>1. Handing /\ ~Handing'
    BY <1>1, <1>2, <1>6 DEF HalfInv, Token, Handing
  <2>2. ~dev.tx /\ ~Readying /\ call[Main].op # "none" /\ \A g \in Grants : ~Granting(g)
    BY <2>1 DEF HalfInv, Token
  <2>3. tx'.owns /\ tx' \in [owns : BOOLEAN, waiters : SUBSET Procs]
    <3>1. tx' = Taken
      BY <1>1, <1>6
    <3> QED BY <3>1 DEF Taken
  <2>4. CASE ~AutoGrant
    <3>1. UNCHANGED call
      BY <1>1, <1>6, <2>4 DEF Spawn
    <3>2. Typed'
      BY <1>1, <1>2, <2>3, <3>1 DEF HalfInv, Typed
    <3>3. Shapes'
      BY <3>1 DEF HalfInv, Shapes, MainShape, GrantShape, CallerShape
    <3>4. Mutex'
      BY <1>1, <2>3, <3>1 DEF HalfInv, Mutex
    <3>5. Flight'
      BY <1>1, <3>1 DEF HalfInv, Flight, Flying
    <3>6. ~Readying' /\ call'[Main].op # "none" /\ \A g \in Grants : ~Granting(g)'
      BY <1>1, <2>2, <3>1 DEF Readying, Granting
    <3>7. Token' /\ Gave'
      BY <1>1, <1>4, <2>1, <2>2, <3>6 DEF HalfInv, Token, Gave
    <3> QED BY <3>2, <3>3, <3>4, <3>5, <3>7 DEF HalfInv
  <2>5. CASE AutoGrant
    <3> DEFINE todo == <<Frame("grant", "none")>>
    <3>1. PICK g \in Grants : call[g] = Idle /\ Calls(g, "grant", "lock", todo)
      <4>1. \E g \in Grants : call[g] = Idle
        BY <1>1, <1>6, <2>5 DEF Spawn
      <4>2. Calls(CHOOSE g \in Grants : call[g] = Idle, "grant", "lock", todo)
        BY <1>1, <1>6, <2>5 DEF Spawn
      <4> QED BY <4>1, <4>2, Zenon
    <3>2. todo \in Seq(Frames) /\ "grant" \in Ops /\ "lock" \in Places
      BY FramesAre DEF Ops, Places
    <3>3. g \in Procs /\ call[g].at = "idle"
      BY <3>1, WhoIsWho DEF Idle
    <3>4. /\ call' \in CallType /\ Others(g)
          /\ call'[g].at = "lock" /\ call'[g].op = "grant" /\ call'[g].todo = todo
      BY <3>1, <3>2, <3>3, CallsEffect DEF HalfInv, CallType
    <3>5. call'[Main] = call[Main] /\ \A p \in Callers : call'[p] = call[p]
      BY <3>4, WhoIsWho DEF Others
    <3>6. \A h \in Grants : h # g => call'[h] = call[h]
      BY <3>4, WhoIsWho DEF Others
    <3>7. Typed'
      BY <1>1, <1>2, <2>3, <3>4 DEF HalfInv, Typed, CallType
    <3>8. Shapes'
      <4>1. MainShape'
        BY <3>5 DEF HalfInv, Shapes, MainShape
      <4>2. \A h \in Grants : GrantShape(h)'
        BY <3>4, <3>6 DEF HalfInv, Shapes, GrantShape
      <4>3. \A q \in Callers : CallerShape(q)'
        BY <3>5 DEF HalfInv, Shapes, CallerShape
      <4> QED BY <3>5, <4>1, <4>2, <4>3 DEF HalfInv, Shapes
    <3>9. Mutex'
      BY <1>1, <2>3, <3>4, <3>5, <3>6 DEF HalfInv, Mutex, Busy
    <3>10. Flight'
      BY <1>1, <3>3, <3>4, FlightMove DEF HalfInv
    <3>11. ~Readying' /\ call'[Main].op # "none" /\ \A h \in Grants : Granting(h)' => h = g
      BY <1>1, <2>2, <3>5, <3>6 DEF Readying, Granting
    <3>12. Token' /\ Gave'
      BY <1>1, <1>4, <2>1, <2>2, <3>4, <3>11 DEF HalfInv, Token, Gave, Busy
    <3> QED BY <3>7, <3>8, <3>9, <3>10, <3>12 DEF HalfInv
  <2> QED BY <2>4, <2>5
<1> QED BY <1>5, <1>6

LEMMA HandsOffStep ==
    ASSUME HalfInv, DeviceHandsOff
    PROVE  HalfInv'
<1>1. /\ dev.tx /\ air' = Append(air, "handoff") /\ dev' = [dev EXCEPT !.tx = FALSE]
      /\ UNCHANGED <<call, reply, tx, batch, queue, writer>>
  BY DEF DeviceHandsOff, work
<1>2. ~Handing /\ ~tx.owns /\ ~Readying /\ call[Main].op # "none" /\ \A g \in Grants : ~Granting(g)
  BY <1>1 DEF HalfInv, Token
<1>3. /\ air' \in Seq(Notices) /\ Len(air') = Len(air) + 1 /\ Len(air) \in Nat
      /\ \A i \in 1 .. Len(air) : air'[i] = air[i] /\ air[i] # "handoff"
  BY <1>1, <1>2 DEF HalfInv, Typed, Notices, Handing
<1>4. \A i, j \in 1 .. Len(air') : air'[i] = "handoff" /\ air'[j] = "handoff" => i = j
  BY <1>3
<1>5. "tx" \in DOMAIN dev' /\ ~dev'.tx /\ dev'.tx \in BOOLEAN
  BY <1>1 DEF HalfInv, Typed
<1>6. Typed'
  BY <1>1, <1>3, <1>5 DEF HalfInv, Typed
<1>7. Shapes' /\ Mutex'
  BY <1>1 DEF HalfInv, Shapes, MainShape, GrantShape, CallerShape, Mutex
<1>8. Flight'
  BY <1>1 DEF HalfInv, Flight, Flying
<1>9. ~Readying' /\ \A g \in Grants : ~Granting(g)'
  BY <1>1, <1>2 DEF Readying, Granting
<1>10. Token' /\ Gave'
  BY <1>1, <1>2, <1>4, <1>5, <1>9 DEF Token, Gave
<1> QED BY <1>6, <1>7, <1>8, <1>10 DEF HalfInv

\* A step that only wakes the writer or delivers an event.
LEMMA Bystander ==
    ASSUME HalfInv, UNCHANGED <<call, reply, tx, batch, queue, air, dev>>,
           writer' = writer \/ writer' = Resting("take")
    PROVE  HalfInv'
<1>1. /\ Resting("take") \in [at : {"wait", "take", "write", "end"}, req : Queued]
      /\ Resting("take").at = "take"
  BY FramesAre DEF Resting, Queued
<1>2. Typed'
  BY <1>1 DEF HalfInv, Typed
<1>3. Shapes' /\ Mutex'
  BY DEF HalfInv, Shapes, MainShape, GrantShape, CallerShape, Mutex
<1>4. Flight'
  BY <1>1 DEF HalfInv, Flight, Flying
<1>5. Token' /\ Gave'
  BY DEF HalfInv, Token, Gave, Readying, Granting, Handing
<1> QED BY <1>2, <1>3, <1>4, <1>5 DEF HalfInv

-----------------------------------------------------------------------------
LEMMA WindowInit == Init => WindowInv
<1> SUFFICES ASSUME Init PROVE WindowInv
  OBVIOUS
<1>1. "tx" \in DOMAIN dev /\ ~dev.tx /\ dev.tx \in BOOLEAN
  BY DEF Init
<1>2. \A p \in Procs : call[p] = Idle /\ reply[p] = "none"
  BY DEF Init
<1>3. \A p \in Procs : call[p].op = "none" /\ call[p].at = "idle"
  BY <1>2 DEF Idle
<1>4. writer.at = "wait" /\ writer \in [at : {"wait", "take", "write", "end"}, req : Queued]
  BY FramesAre DEF Init, Resting, Queued
<1>5. tx = Taken /\ tx \in [owns : BOOLEAN, waiters : SUBSET Procs]
  BY DEF Init, Taken
<1>6. queue = <<>> /\ air = <<>> /\ queue \in Seq(Queued) /\ air \in Seq(Notices)
  BY DEF Init
<1>7. Typed
  BY <1>1, <1>4, <1>5, <1>6, FramesAre DEF Init, Typed
<1>8. Shapes
  BY <1>2, <1>3, WhoIsWho DEF Shapes, MainShape, GrantShape, CallerShape
<1>9. Mutex
  BY <1>3, WhoIsWho DEF Mutex, Busy
<1>10. Flight
  BY <1>2, <1>4, <1>6 DEF Flight
<1>11. Token /\ Gave
  BY <1>1, <1>3, <1>6, WhoIsWho DEF Token, Gave, Readying, Granting, Handing
<1> QED BY <1>1, <1>7, <1>8, <1>9, <1>10, <1>11 DEF WindowInv, HalfInv

\* The link never comes back, and the mode never changes.
LEMMA LinkGoes ==
    ASSUME [Next]_vars
    PROVE  kit' = kit /\ (up' => up)
<1>1. CASE Start \/ Close \/ LinkClose \/ Drop
  BY <1>1 DEF Start, Close, LinkClose, Drop, conn
<1>2. CASE \E p \in Users : Send(p) \/ List(p)
  BY <1>2 DEF Send, List, conn
<1>3. CASE \E p \in Procs : Step(p)
  BY <1>3 DEF Step, AwaitTX, Woken, GivesUp, Lock, Check, Give, TakeBack, Write, Append1, Signal,
              Reply, Await, conn
<1>4. CASE Writer
  BY <1>4 DEF Writer, WriterWakes, WriterEnds, WriterTakes, WriteLands, WriteFails, Outcome, conn
<1>5. CASE Receiver
  BY <1>5 DEF Receiver, Receive, ReceiverSignals, Deliver, DropOldest, conn
<1>6. CASE Device
  BY <1>6 DEF Device, DeviceSends, DeviceHandsOff
<1>7. CASE UNCHANGED vars
  BY <1>7 DEF vars
<1> QED BY <1>1, <1>2, <1>3, <1>4, <1>5, <1>6, <1>7 DEF Next

\* In legacy mode no frame gives the device a window.
LEMMA LegacyStep ==
    ASSUME ~HalfDuplex, "tx" \in DOMAIN dev, ~dev.tx, [Next]_vars
    PROVE  "tx" \in DOMAIN dev' /\ ~dev'.tx
<1>1. CASE dev' = dev
  BY <1>1
<1>2. CASE WriteLands
  BY <1>2 DEF WriteLands, Handles
<1>3. CASE Start \/ Close \/ LinkClose \/ Drop
  BY <1>1, <1>3 DEF Start, Close, LinkClose, Drop, conn
<1>4. CASE \E p \in Users : Send(p) \/ List(p)
  BY <1>1, <1>4 DEF Send, List, conn
<1>5. CASE \E p \in Procs : Step(p)
  BY <1>1, <1>5 DEF Step, AwaitTX, Woken, GivesUp, Lock, Check, Give, TakeBack, Write, Append1,
                    Signal, Reply, Await, conn
<1>6. CASE Writer
  BY <1>1, <1>2, <1>6 DEF Writer, WriterWakes, WriterEnds, WriterTakes, WriteFails, conn
<1>7. CASE Receiver
  BY <1>1, <1>7 DEF Receiver, Receive, ReceiverSignals, Deliver, DropOldest, conn
<1>8. CASE Device
  BY <1>1, <1>8 DEF Device, DeviceSends, DeviceHandsOff
<1>9. CASE UNCHANGED vars
  BY <1>1, <1>9 DEF vars
<1> QED BY <1>3, <1>4, <1>5, <1>6, <1>7, <1>8, <1>9 DEF Next

LEMMA HalfStep ==
    ASSUME HalfInv, HalfDuplex, up, up', [Next]_vars
    PROVE  HalfInv'
<1>1. CASE Start \/ Close \/ LinkClose \/ Drop
  BY <1>1, StartStep DEF LinkClose, Drop
<1>2. ASSUME NEW p \in Users, Send(p) \/ List(p) PROVE HalfInv'
  <2>1. p \in Callers
    BY <1>2, ClientAssumption DEF Users
  <2> QED BY <1>2, <2>1, SendStep
<1>3. ASSUME NEW p \in Procs, Step(p) PROVE HalfInv'
  <2>1. ~Await(p)
    BY PlaceOf DEF Await
  <2>2. ASSUME Reply(p) PROVE HalfInv'
    BY <2>2, CallerReply, GrantReply, MainReply, WhoIsWho
  <2> QED BY <1>3, <2>1, <2>2, AwaitStep, GivesUpStep, LockStep, CheckStep, GiveStep, TakeBackStep,
             WriteStep, AppendStep, SignalStep DEF Step
<1>4. CASE Writer
  <2>1. CASE WriterWakes
    BY <2>1, Bystander DEF WriterWakes, conn
  <2>2. ~WriterEnds
    BY DEF WriterEnds
  <2> QED BY <1>4, <2>1, <2>2, TakesStep, OutcomeStep DEF Writer
<1>5. CASE Receiver
  <2>1. CASE ReceiverSignals \/ Deliver \/ DropOldest
    BY <2>1, Bystander DEF ReceiverSignals, Deliver, DropOldest, conn, work
  <2> QED BY <1>5, <2>1, ReceiveStep DEF Receiver
<1>6. CASE Device
  BY <1>6, HandsOffStep DEF Device, DeviceSends
<1>7. CASE UNCHANGED vars
  BY <1>7, Bystander DEF vars
<1> QED BY <1>1, <1>2, <1>3, <1>4, <1>5, <1>6, <1>7 DEF Next

LEMMA WindowSafe == WindowInv => InWindow
<1> SUFFICES ASSUME WindowInv, writer.at = "write", writer.req.frame.do = "data", up, dev.tx
             PROVE  FALSE
  BY DEF InWindow
<1>1. HalfInv
  BY DEF WindowInv
<1>2. PICK p : p = writer.req.by
  OBVIOUS
<1>3. /\ p \in Procs /\ call[p].at \in {"signal", "reply"} /\ call[p].todo[1].do = "data"
  BY <1>1, <1>2 DEF HalfInv, Flight, Flying
<1>4. p \in Callers
  BY <1>1, <1>3, WhoIsWho, FramesAre DEF HalfInv, Shapes, MainShape, GrantShape, Idle
<1>5. tx.owns
  BY <1>1, <1>3, <1>4 DEF HalfInv, Mutex, Busy
<1> QED BY <1>1, <1>5 DEF HalfInv, Token

\* No frame of a batch is written while the device has the TX window, whatever
\* the order in which Sends, grants, failed writes and handoffs take batchMu,
\* the window and the queue (Send, Grant, Start, onHandoff).
THEOREM InWindowHolds == Spec => []InWindow
<1>1. WindowInv /\ [Next]_vars => WindowInv'
  <2> SUFFICES ASSUME WindowInv, [Next]_vars PROVE WindowInv'
    OBVIOUS
  <2>1. kit' = kit /\ (up' => up)
    BY LinkGoes
  <2>2. HalfDuplex' <=> HalfDuplex
    BY <2>1 DEF HalfDuplex
  <2>3. CASE HalfDuplex
    BY <2>1, <2>2, <2>3, HalfStep DEF WindowInv
  <2>4. CASE ~HalfDuplex
    BY <2>2, <2>4, LegacyStep DEF WindowInv
  <2> QED BY <2>3, <2>4
<1> QED BY <1>1, WindowInit, WindowSafe, PTL DEF Spec

-----------------------------------------------------------------------------
(* The marks of the acks, in either mode and after the link is gone *)

\* A goroutine in a call has a frame to write.
CallsOK(c) == c \in CallType /\ \A p \in Procs : c[p].at # "idle" => c[p].todo # <<>>

AckOf(k) == [by |-> Nobody, frame |-> Frame("ack", k)]

\* The requests that nobody waits for are the acks of the marked records, one
\* for each.
MarksOK(q, marks) ==
    /\ q \in Seq(Queued) /\ marks \subseteq Records
    /\ \A i \in 1 .. Len(q) : q[i].by = Nobody => \E k \in marks : q[i] = AckOf(k)
    /\ \A k \in marks : \E i \in 1 .. Len(q) : q[i] = AckOf(k)
    /\ \A i, j \in 1 .. Len(q) : q[i].by = Nobody /\ q[j] = q[i] => i = j

Buffers ==
    /\ kit \in Kits /\ up \in BOOLEAN /\ wake \in BOOLEAN
    /\ tx \in [owns : BOOLEAN, waiters : SUBSET Procs]
    /\ batch \in Procs \cup {Nobody}
    /\ writer \in [at : {"wait", "take", "write", "end"}, req : Queued]
    /\ reply \in [Procs -> {"none", "ok", "failed"}]
    /\ recv \in [at : {"idle", "signal", "put", "drop"}, for : Notices]
    /\ events \in Seq(Notices) /\ Len(events) <= EventCap
    /\ air \in Seq(Notices) /\ Len(air) <= MaxAir

ConsistentInv == Buffers /\ CallsOK(call) /\ MarksOK(queue, pending)

LEMMA AckIs ==
    /\ \A k \in Records : AckOf(k) \in Queued /\ AckOf(k).by = Nobody /\ AckOf(k).frame.rec = k
    /\ \A k, l \in Records : AckOf(k) = AckOf(l) => k = l
<1>1. \A k \in Records : Frame("ack", k) \in Frames /\ Frame("ack", k).rec = k
  BY DEF Frame, Frames, Dos
<1>2. \A k \in Records : AckOf(k).by = Nobody /\ AckOf(k).frame = Frame("ack", k)
  BY DEF AckOf
<1>3. \A k \in Records : AckOf(k) \in Queued
  BY <1>1 DEF AckOf, Queued
<1> QED BY <1>1, <1>2, <1>3

\* A caller's request joins the queue.
LEMMA MarksAppend ==
    ASSUME NEW q, NEW marks, MarksOK(q, marks), NEW r \in Queued, r.by # Nobody
    PROVE  MarksOK(Append(q, r), marks)
<1> DEFINE s == Append(q, r)
<1>1. /\ q \in Seq(Queued) /\ s \in Seq(Queued) /\ Len(q) \in Nat /\ Len(s) = Len(q) + 1 /\ s[Len(q) + 1] = r
      /\ \A i \in 1 .. Len(q) : s[i] = q[i] /\ i \in 1 .. Len(s)
  BY DEF MarksOK
<1>2. \A i \in 1 .. Len(s) : s[i].by = Nobody => i \in 1 .. Len(q)
  BY <1>1
<1>3. \A k \in marks : AckOf(k).by = Nobody
  BY AckIs DEF MarksOK
<1> HIDE DEF s
<1>4. \A i, j \in 1 .. Len(s) : s[i].by = Nobody /\ s[j] = s[i] => i = j
  BY <1>1, <1>2 DEF MarksOK
<1>5. MarksOK(s, marks)
  BY <1>1, <1>2, <1>4 DEF MarksOK
<1> QED BY <1>5 DEF s

\* The ack of a record that is not marked joins it.
LEMMA MarksAck ==
    ASSUME NEW q, NEW marks, MarksOK(q, marks), NEW n \in Records, n \notin marks
    PROVE  MarksOK(Append(q, AckOf(n)), marks \cup {n})
<1> DEFINE r == AckOf(n)
           s == Append(q, r)
<1>0. r \in Queued /\ r.by = Nobody
  BY AckIs
<1>a. r = AckOf(n)
  OBVIOUS
<1> HIDE DEF r
<1>1. /\ q \in Seq(Queued) /\ s \in Seq(Queued) /\ Len(q) \in Nat /\ Len(s) = Len(q) + 1 /\ s[Len(q) + 1] = r
      /\ \A i \in 1 .. Len(q) : s[i] = q[i] /\ i \in 1 .. Len(s)
      /\ Len(q) + 1 \in 1 .. Len(s)
  BY <1>0 DEF MarksOK
<1>2. \A i \in 1 .. Len(s) : i \in 1 .. Len(q) \/ i = Len(q) + 1
  BY <1>1
<1> HIDE DEF s
<1>3. \A i \in 1 .. Len(q) : q[i] # r
  BY <1>0, <1>a, AckIs DEF MarksOK
<1>4. \A i, j \in 1 .. Len(s) : s[i].by = Nobody /\ s[j] = s[i] => i = j
  <2> SUFFICES ASSUME NEW i \in 1 .. Len(s), NEW j \in 1 .. Len(s), s[i].by = Nobody, s[j] = s[i]
               PROVE  i = j
    OBVIOUS
  <2>1. CASE i \in 1 .. Len(q) /\ j \in 1 .. Len(q)
    BY <1>1, <2>1 DEF MarksOK
  <2>2. CASE i = Len(q) + 1 \/ j = Len(q) + 1
    BY <1>1, <1>2, <1>3, <2>2
  <2> QED BY <1>2, <2>1, <2>2
<1>5. \A i \in 1 .. Len(s) : s[i].by = Nobody => \E k \in marks \cup {n} : s[i] = AckOf(k)
  BY <1>1, <1>2, <1>a DEF MarksOK
<1>6. \A k \in marks \cup {n} : \E i \in 1 .. Len(s) : s[i] = AckOf(k)
  BY <1>1, <1>a DEF MarksOK
<1>7. MarksOK(s, marks \cup {n})
  BY <1>1, <1>4, <1>5, <1>6 DEF MarksOK
<1> QED BY <1>7, <1>a DEF s

\* A request leaves it, with its mark.
LEMMA MarksTail ==
    ASSUME NEW q, NEW marks, MarksOK(q, marks), q # <<>>,
           NEW m, m = IF Head(q).by = Nobody THEN marks \ {Head(q).frame.rec} ELSE marks
    PROVE  MarksOK(Tail(q), m)
<1> DEFINE s == Tail(q)
           r == Head(q)
<1>1. /\ q \in Seq(Queued) /\ s \in Seq(Queued) /\ Len(q) \in Nat \ {0} /\ Len(s) = Len(q) - 1
      /\ r = q[1] /\ 1 \in 1 .. Len(q)
      /\ \A i \in 1 .. Len(s) : s[i] = q[i + 1] /\ i + 1 \in 1 .. Len(q) /\ i + 1 # 1
      /\ \A i \in 1 .. Len(q) : i = 1 \/ (i - 1 \in 1 .. Len(s) /\ s[i - 1] = q[i])
  <2>1. q \in Seq(Queued)
    BY DEF MarksOK
  <2> QED BY <2>1
<1>2. m = IF r.by = Nobody THEN marks \ {r.frame.rec} ELSE marks
  OBVIOUS
<1> HIDE DEF s, r
<1>3. \A i, j \in 1 .. Len(s) : s[i].by = Nobody /\ s[j] = s[i] => i = j
  <2> SUFFICES ASSUME NEW i \in 1 .. Len(s), NEW j \in 1 .. Len(s), s[i].by = Nobody, s[j] = s[i]
               PROVE  i = j
    OBVIOUS
  <2>1. i + 1 = j + 1
    BY <1>1 DEF MarksOK
  <2> QED BY <1>1, <2>1
<1>4. CASE r.by # Nobody
  <2>1. \A k \in marks : r # AckOf(k)
    BY <1>4, AckIs DEF MarksOK
  <2>2. \A k \in marks : \E i \in 1 .. Len(s) : s[i] = AckOf(k)
    <3> SUFFICES ASSUME NEW k \in marks PROVE \E i \in 1 .. Len(s) : s[i] = AckOf(k)
      OBVIOUS
    <3>1. PICK i \in 1 .. Len(q) : q[i] = AckOf(k)
      BY DEF MarksOK
    <3> QED BY <1>1, <2>1, <3>1
  <2>3. \A i \in 1 .. Len(s) : s[i].by = Nobody => \E k \in marks : s[i] = AckOf(k)
    BY <1>1 DEF MarksOK
  <2>4. MarksOK(s, marks)
    BY <1>1, <1>3, <2>2, <2>3 DEF MarksOK
  <2> QED BY <1>2, <1>4, <2>4 DEF s
<1>5. CASE r.by = Nobody
  <2>1. PICK l \in marks : r = AckOf(l)
    BY <1>1, <1>5 DEF MarksOK
  <2>2. marks \subseteq Records /\ r.frame.rec = l
    BY <2>1, AckIs DEF MarksOK
  <2>3. m = marks \ {l}
    BY <1>2, <1>5, <2>2
  <2>4. ASSUME NEW k \in m PROVE \E i \in 1 .. Len(s) : s[i] = AckOf(k)
    <3>1. PICK i \in 1 .. Len(q) : q[i] = AckOf(k)
      BY <2>3 DEF MarksOK
    <3>2. i # 1
      BY <1>1, <2>1, <2>2, <2>3, <3>1, AckIs
    <3> QED BY <1>1, <3>1, <3>2
  <2>5. ASSUME NEW i \in 1 .. Len(s), s[i].by = Nobody PROVE \E k \in m : s[i] = AckOf(k)
    <3>1. PICK k \in marks : s[i] = AckOf(k)
      BY <1>1, <2>5 DEF MarksOK
    <3>2. s[i] # r
      BY <1>1, <1>5 DEF MarksOK
    <3>3. k # l
      BY <2>1, <3>1, <3>2
    <3> QED BY <2>3, <3>1, <3>3
  <2> QED BY <1>1, <1>3, <2>2, <2>3, <2>4, <2>5 DEF MarksOK, s
<1> QED BY <1>4, <1>5

LEMMA MarksCount ==
    ASSUME MarksOK(queue, pending)
    PROVE  PendingQueued
<1> SUFFICES ASSUME NEW k \in Records
             PROVE  Cardinality({i \in DOMAIN queue : queue[i] = [by |-> Nobody, frame |-> Frame("ack", k)]})
                        = IF k \in pending THEN 1 ELSE 0
  BY DEF PendingQueued
<1> DEFINE I == {i \in DOMAIN queue : queue[i] = [by |-> Nobody, frame |-> Frame("ack", k)]}
<1>1. DOMAIN queue = 1 .. Len(queue)
  BY DEF MarksOK
<1>2. I = {i \in 1 .. Len(queue) : queue[i] = AckOf(k)}
  BY <1>1 DEF AckOf
<1>3. AckOf(k).by = Nobody
  BY AckIs
<1> HIDE DEF I
<1>4. CASE k \in pending
  <2>1. PICK i \in 1 .. Len(queue) : queue[i] = AckOf(k)
    BY <1>4 DEF MarksOK
  <2>2. I = {i}
    BY <1>2, <1>3, <2>1 DEF MarksOK
  <2>3. Cardinality(I) = 1
    BY <2>2, FS_Singleton
  <2> QED BY <1>4, <2>3 DEF I
<1>5. CASE k \notin pending
  <2>1. I = {}
    BY <1>2, <1>3, <1>5, AckIs DEF MarksOK
  <2>2. Cardinality(I) = 0
    BY <2>1, FS_EmptySet
  <2> QED BY <1>5, <2>2 DEF I
<1> QED BY <1>4, <1>5

-----------------------------------------------------------------------------
(* The calls *)

LEMMA AtOK ==
    ASSUME CallsOK(call), NEW p \in Procs, NEW a \in Places, call[p].at # "idle", At(p, a)
    PROVE  CallsOK(call')
<1>1. /\ call' \in CallType /\ \A q \in Procs : q # p => call'[q] = call[q]
      /\ call'[p].todo = call[p].todo
  BY DEF CallsOK, CallType, At
<1> QED BY <1>1 DEF CallsOK

LEMMA CallsCalls ==
    ASSUME CallsOK(call), NEW p \in Procs, NEW o \in Ops, NEW a \in Places, NEW s \in Seq(Frames),
           a = "idle" \/ s # <<>>, Calls(p, o, a, s)
    PROVE  CallsOK(call')
<1>1. /\ call' \in CallType /\ \A q \in Procs : q # p => call'[q] = call[q]
      /\ call'[p].todo = s /\ call'[p].at = a
  BY DEF CallsOK, CallType, Calls
<1> QED BY <1>1 DEF CallsOK

LEMMA ReturnOK ==
    ASSUME CallsOK(call), batch \in Procs \cup {Nobody}, NEW p \in Procs, Return(p)
    PROVE  CallsOK(call') /\ batch' \in Procs \cup {Nobody}
<1>1. /\ call' \in CallType /\ \A q \in Procs : q # p => call'[q] = call[q]
      /\ call'[p] = Idle
  BY FramesAre DEF CallsOK, CallType, Return
<1>2. Idle.at = "idle"
  BY DEF Idle
<1> QED BY <1>1, <1>2 DEF CallsOK, Return

LEMMA One ==
    ASSUME NEW f \in Frames
    PROVE  <<f>> \in Seq(Frames) /\ <<f>> # <<>>
OBVIOUS

LEMMA ClosingOK ==
    ASSUME CallsOK(call), Closing
    PROVE  CallsOK(call')
<1>1. {"write", "close"} \subseteq Places /\ "close" \in Ops
  BY DEF Places, Busy, Ops
<1>2. <<Frame("bye", "none")>> \in Seq(Frames) /\ <<Frame("bye", "none")>> # <<>>
  BY FramesAre, One
<1> QED BY <1>1, <1>2, CallsCalls, WhoIsWho DEF Closing

LEMMA FailedOK ==
    ASSUME CallsOK(call), batch \in Procs \cup {Nobody}, NEW p \in Procs, call[p].at # "idle", Failed(p)
    PROVE  CallsOK(call') /\ batch' \in Procs \cup {Nobody}
<1>1. {"take", "close"} \subseteq Places
  BY DEF Places
<1> QED BY <1>1, AtOK, ClosingOK, ReturnOK DEF Failed

LEMMA WrittenOK ==
    ASSUME CallsOK(call), batch \in Procs \cup {Nobody}, NEW p \in Procs, call[p].at # "idle", Written(p)
    PROVE  CallsOK(call') /\ batch' \in Procs \cup {Nobody}
<1> DEFINE rest == Tail(call[p].todo)
<1>1. {"close", "expect", "idle", "give", "write"} \subseteq Places /\ "started" \in Ops /\ <<>> \in Seq(Frames)
  BY DEF Places, Busy, Ops
<1>2. CASE rest # <<>>
  <2> DEFINE a == IF HalfDuplex /\ call[p].op = "start" THEN "give" ELSE "write"
  <2>1. call' = [call EXCEPT ![p].todo = rest, ![p].at = a] /\ UNCHANGED batch
    BY <1>2 DEF Written
  <2>2. call[p] \in [op : Ops, at : Places, todo : Seq(Frames)] /\ call[p].todo # <<>>
    BY DEF CallsOK, CallType
  <2>3. rest \in Seq(Frames) /\ a \in Places
    BY <1>1, <2>2
  <2>4. rest # <<>>
    BY <1>2
  <2> HIDE DEF a, rest
  <2>5. /\ call' \in CallType /\ \A q \in Procs : q # p => call'[q] = call[q]
        /\ call'[p].todo = rest
    BY <2>1, <2>3 DEF CallsOK, CallType
  <2> QED BY <2>1, <2>4, <2>5 DEF CallsOK
<1>3. CASE rest = <<>>
  <2>1. \/ At(p, "close") /\ UNCHANGED batch
        \/ At(p, "expect") /\ batch' = Nobody
        \/ Calls(p, "started", "idle", <<>>) /\ UNCHANGED batch
        \/ Return(p)
    BY <1>3 DEF Written, Calls
  <2> QED BY <1>1, <2>1, AtOK, CallsCalls, ReturnOK
<1> QED BY <1>2, <1>3

\* What the steps of a goroutine other than those of its write do.
LEMMA StepBuffers ==
    ASSUME ConsistentInv, NEW p \in Procs,
           AwaitTX(p) \/ Woken(p) \/ GivesUp(p) \/ Lock(p) \/ Check(p) \/ Give(p) \/ TakeBack(p)
    PROVE  ConsistentInv'
<1>1. UNCHANGED <<kit, up, air, queue, pending, wake, writer, reply, recv, events>>
  BY DEF AwaitTX, Woken, GivesUp, Lock, Check, Give, TakeBack, conn, work
<1>2. tx' \in [owns : BOOLEAN, waiters : SUBSET Procs]
  <2>1. tx \in [owns : BOOLEAN, waiters : SUBSET Procs]
    BY DEF ConsistentInv, Buffers
  <2>2. Taken \in [owns : BOOLEAN, waiters : SUBSET Procs]
    BY DEF Taken
  <2>3. \/ tx' = tx \/ tx' = Taken \/ tx' = [tx EXCEPT !.waiters = tx.waiters \cup {p}]
        \/ tx' = [tx EXCEPT !.waiters = tx.waiters \ {p}] \/ tx' = [tx EXCEPT !.owns = FALSE]
    BY DEF AwaitTX, Woken, GivesUp, Lock, Check, Give, TakeBack
  <2>4. \A w \in SUBSET Procs : [tx EXCEPT !.waiters = w] \in [owns : BOOLEAN, waiters : SUBSET Procs]
    BY <2>1
  <2>5. [tx EXCEPT !.owns = FALSE] \in [owns : BOOLEAN, waiters : SUBSET Procs]
    BY <2>1
  <2>6. tx.waiters \cup {p} \in SUBSET Procs /\ tx.waiters \ {p} \in SUBSET Procs
    BY <2>1
  <2> QED BY <2>1, <2>2, <2>3, <2>4, <2>5, <2>6, Zenon
<1>3. CallsOK(call) /\ batch \in Procs \cup {Nobody}
  BY DEF ConsistentInv, Buffers
<1>4. {"lock", "wait", "give", "check", "write", "await"} \subseteq Places
  BY DEF Places, Busy
<1>5. CallsOK(call') /\ batch' \in Procs \cup {Nobody}
  <2>1. call[p].at # "idle"
    BY DEF AwaitTX, Woken, GivesUp, Lock, Check, Give, TakeBack
  <2>2. \/ \E a \in {"lock", "wait", "give", "check", "write", "await"} : At(p, a) /\ batch' \in {batch, p, Nobody}
        \/ Return(p)
    BY DEF AwaitTX, Woken, GivesUp, Lock, Check, Give, TakeBack
  <2> QED BY <1>3, <1>4, <2>1, <2>2, AtOK, ReturnOK
<1> QED BY <1>1, <1>2, <1>5 DEF ConsistentInv, Buffers

LEMMA TailFits ==
    ASSUME NEW e \in Seq(Notices), NEW c \in Nat, Len(e) <= c, e # <<>>
    PROVE  Tail(e) \in Seq(Notices) /\ Len(Tail(e)) <= c
OBVIOUS

LEMMA AppendFits ==
    ASSUME NEW e \in Seq(Notices), NEW c \in Nat, Len(e) < c, NEW k \in Notices
    PROVE  Append(e, k) \in Seq(Notices) /\ Len(Append(e, k)) <= c
OBVIOUS

LEMMA WriteBuffers ==
    ASSUME ConsistentInv, NEW p \in Procs, Write(p) \/ Append1(p) \/ Signal(p) \/ Reply(p) \/ Await(p)
    PROVE  ConsistentInv'
<1>1. UNCHANGED <<kit, up, air, writer, recv, pending, tx>>
  BY DEF Write, Append1, Signal, Reply, Await, conn, work
<1>2. CallsOK(call) /\ batch \in Procs \cup {Nobody} /\ MarksOK(queue, pending) /\ call[p].at # "idle"
  BY DEF ConsistentInv, Buffers, Write, Append1, Signal, Reply, Await
<1>3. {"append", "signal", "reply", "await", "idle"} \subseteq Places /\ {"send", "none"} \subseteq Ops
  BY DEF Places, Busy, Ops
<1>4. CASE Write(p)
  <2>1. CallsOK(call') /\ batch' \in Procs \cup {Nobody}
    BY <1>2, <1>3, <1>4, AtOK, FailedOK DEF Write
  <2>2. UNCHANGED <<queue, wake, reply, events>>
    BY <1>4 DEF Write, work
  <2> QED BY <1>1, <2>1, <2>2 DEF ConsistentInv, Buffers
<1>5. CASE Append1(p)
  <2> DEFINE r == [by |-> p, frame |-> Head(call[p].todo)]
  <2>1. CallsOK(call')
    BY <1>2, <1>3, <1>5, AtOK DEF Append1
  <2>2. call[p].todo \in Seq(Frames) /\ call[p].todo # <<>>
    BY <1>2 DEF CallsOK, CallType
  <2>3. Head(call[p].todo) \in Frames
    BY <2>2
  <2>4. r \in Queued /\ r.by # Nobody
    BY <2>3, WhoIsWho DEF Queued
  <2>5. queue' = Append(queue, r) /\ UNCHANGED <<wake, reply, events, batch>>
    BY <1>5 DEF Append1
  <2> HIDE DEF r
  <2>6. MarksOK(queue', pending)
    BY <1>2, <2>4, <2>5, MarksAppend
  <2> QED BY <1>1, <2>1, <2>5, <2>6 DEF ConsistentInv, Buffers
<1>6. CASE Signal(p)
  <2>1. CallsOK(call')
    BY <1>2, <1>3, <1>6, AtOK DEF Signal
  <2>2. UNCHANGED <<queue, batch, reply, events>> /\ wake' = TRUE
    BY <1>6 DEF Signal
  <2> QED BY <1>1, <2>1, <2>2 DEF ConsistentInv, Buffers
<1>7. CASE Reply(p)
  <2>1. CallsOK(call') /\ batch' \in Procs \cup {Nobody}
    BY <1>2, <1>7, WrittenOK, FailedOK DEF Reply
  <2>2. UNCHANGED <<queue, wake, events>> /\ reply' = [reply EXCEPT ![p] = "none"]
    BY <1>7 DEF Reply, work
  <2>3. reply' \in [Procs -> {"none", "ok", "failed"}]
    BY <2>2 DEF ConsistentInv, Buffers
  <2> QED BY <1>1, <2>1, <2>2, <2>3 DEF ConsistentInv, Buffers
<1>8. CASE Await(p)
  <2>1. Calls(p, "send", "await", <<Ask("peers")>>) \/ Calls(p, "none", "idle", <<>>) \/ UNCHANGED call
    BY <1>8 DEF Await, Answer
  <2>2. Ask("peers") \in Frames
    BY DEF Ask, Frame, Frames, Dos, Records
  <2>3. CallsOK(call')
    <3>1. <<Ask("peers")>> \in Seq(Frames) /\ <<Ask("peers")>> # <<>> /\ <<>> \in Seq(Frames)
      BY <2>2, One
    <3> QED BY <1>2, <1>3, <2>1, <3>1, CallsCalls
  <2>4. UNCHANGED <<queue, wake, reply, batch>> /\ (events' = events \/ (events # <<>> /\ events' = Tail(events)))
    BY <1>8 DEF Await, work
  <2>5. events' \in Seq(Notices) /\ Len(events') <= EventCap
    <3>1. events \in Seq(Notices) /\ Len(events) <= EventCap /\ EventCap \in Nat
      BY ClientAssumption DEF ConsistentInv, Buffers
    <3> QED BY <2>4, <3>1, TailFits
  <2> QED BY <1>1, <2>3, <2>4, <2>5 DEF ConsistentInv, Buffers
<1> QED BY <1>4, <1>5, <1>6, <1>7, <1>8

LEMMA UserBuffers ==
    ASSUME ConsistentInv,
           \/ Start \/ Close \/ LinkClose \/ Drop
           \/ \E p \in Users : Send(p) \/ List(p)
    PROVE  ConsistentInv'
<1>1. UNCHANGED <<kit, air, writer, recv, queue, pending, wake, tx, batch, reply, events>> /\ up' \in BOOLEAN
  <2>1. up \in BOOLEAN
    BY DEF ConsistentInv, Buffers
  <2> QED BY <2>1 DEF Start, Close, LinkClose, Drop, Send, List, conn, work
<1>2. CallsOK(call) /\ Main \in Procs
  BY WhoIsWho DEF ConsistentInv
<1>3. {"write", "await", "idle"} \subseteq Places /\ {"start", "send", "list", "closed"} \subseteq Ops
  BY DEF Places, Busy, Ops
<1>4. CASE Start
  <2> DEFINE s == <<Frame("runtime", "none"), Frame("ready", "none")>>
  <2>1. s \in Seq(Frames) /\ s # <<>>
    BY FramesAre
  <2>2. Calls(Main, "start", "write", s)
    BY <1>4 DEF Start
  <2> HIDE DEF s
  <2>3. CallsOK(call')
    BY <1>2, <1>3, <2>1, <2>2, CallsCalls
  <2> QED BY <1>1, <2>3 DEF ConsistentInv, Buffers
<1>5. CASE Close
  <2>1. CallsOK(call')
    BY <1>2, <1>5, ClosingOK DEF Close
  <2> QED BY <1>1, <2>1 DEF ConsistentInv, Buffers
<1>6. CASE LinkClose
  <2>1. Calls(Main, "closed", "idle", <<>>) /\ <<>> \in Seq(Frames)
    BY <1>6 DEF LinkClose
  <2>2. CallsOK(call')
    BY <1>2, <1>3, <2>1, CallsCalls
  <2> QED BY <1>1, <2>2 DEF ConsistentInv, Buffers
<1>7. CASE Drop
  <2>1. UNCHANGED call
    BY <1>7 DEF Drop
  <2> QED BY <1>1, <1>2, <2>1 DEF ConsistentInv, Buffers
<1>8. ASSUME NEW p \in Users, Send(p) \/ List(p) PROVE ConsistentInv'
  <2>1. p \in Procs
    BY <1>8, ClientAssumption DEF Users, Procs
  <2>2. CASE Send(p)
    <3>1. PICK s \in Batches : Calls(p, "send", "await", s)
      BY <2>2 DEF Send
    <3>2. s \in Seq(Frames) /\ s # <<>>
      BY ClientAssumption
    <3>3. CallsOK(call')
      BY <1>2, <1>3, <2>1, <3>1, <3>2, CallsCalls
    <3> QED BY <1>1, <3>3 DEF ConsistentInv, Buffers
  <2>3. CASE List(p)
    <3>1. Calls(p, "list", "await", <<Ask("static")>>)
      BY <2>3 DEF List
    <3>2. Ask("static") \in Frames
      BY DEF Ask, Frame, Frames, Dos, Records
    <3>3. <<Ask("static")>> \in Seq(Frames) /\ <<Ask("static")>> # <<>>
      BY <3>2, One
    <3>4. CallsOK(call')
      BY <1>2, <1>3, <2>1, <3>1, <3>3, CallsCalls
    <3> QED BY <1>1, <3>4 DEF ConsistentInv, Buffers
  <2> QED BY <1>8, <2>2, <2>3
<1> QED BY <1>4, <1>5, <1>6, <1>7, <1>8

LEMMA WriterBuffers ==
    ASSUME ConsistentInv, Writer
    PROVE  ConsistentInv'
<1>1. UNCHANGED <<kit, up, air, recv, tx, batch, call, events>>
  BY DEF Writer, WriterWakes, WriterEnds, WriterTakes, WriteLands, WriteFails, Outcome, conn
<1> DEFINE Ws == [at : {"wait", "take", "write", "end"}, req : Queued]
<1>2. \A a \in {"wait", "take", "end"} : Resting(a) \in Ws
  BY FramesAre DEF Resting, Queued
<1>3. /\ MarksOK(queue, pending) /\ reply \in [Procs -> {"none", "ok", "failed"}]
      /\ wake \in BOOLEAN /\ writer \in Ws
  BY DEF ConsistentInv, Buffers
<1> HIDE DEF Ws
<1>4. SUFFICES /\ MarksOK(queue', pending') /\ reply' \in [Procs -> {"none", "ok", "failed"}]
               /\ wake' \in BOOLEAN /\ writer' \in Ws
  BY <1>1, <1>4 DEF ConsistentInv, Buffers, Ws
<1>5. CASE WriterWakes
  BY <1>2, <1>3, <1>5 DEF WriterWakes
<1>6. CASE WriterEnds
  <2>1. queue' = <<>> /\ pending' = {} /\ wake' = wake /\ writer' \in Ws
    BY <1>2, <1>6 DEF WriterEnds
  <2>2. reply' \in [Procs -> {"none", "ok", "failed"}]
    BY <1>3, <1>6 DEF WriterEnds
  <2>3. MarksOK(<<>>, {})
    BY DEF MarksOK
  <2> QED BY <1>3, <2>1, <2>2, <2>3
<1>7. CASE WriterTakes
  <2>1. UNCHANGED <<wake, reply>>
    BY <1>7 DEF WriterTakes
  <2>2. CASE queue = <<>>
    BY <1>2, <1>3, <1>7, <2>1, <2>2 DEF WriterTakes
  <2>3. CASE queue # <<>>
    <3>1. queue' = Tail(queue) /\ writer' = [at |-> "write", req |-> Head(queue)]
      BY <1>7, <2>3 DEF WriterTakes, Takes
    <3>2. pending' = IF Head(queue).by = Nobody THEN pending \ {Head(queue).frame.rec} ELSE pending
      BY <1>7, <2>3 DEF WriterTakes, Takes, Unmarked
    <3>3. MarksOK(queue', pending')
      BY <1>3, <2>3, <3>1, <3>2, MarksTail
    <3>4. Head(queue) \in Queued
      BY <1>3, <2>3 DEF MarksOK
    <3>5. writer' \in Ws
      BY <3>1, <3>4 DEF Ws
    <3> QED BY <1>3, <2>1, <3>3, <3>5
  <2> QED BY <2>2, <2>3
<1>8. CASE WriteLands \/ WriteFails
  <2>1. PICK o \in {"ok", "failed"} : Outcome(o)
    BY <1>8 DEF WriteLands, WriteFails
  <2>2. UNCHANGED <<queue, pending, wake>> /\ writer' = Resting("take")
    BY <2>1 DEF Outcome, work
  <2>3. reply' \in [Procs -> {"none", "ok", "failed"}]
    BY <1>3, <2>1 DEF Outcome
  <2> QED BY <1>2, <1>3, <2>2, <2>3
<1> QED BY <1>5, <1>6, <1>7, <1>8 DEF Writer

LEMMA ReceiveBuffers ==
    ASSUME ConsistentInv, Receive
    PROVE  ConsistentInv'
<1> DEFINE n == Head(air)
<1>1. /\ UNCHANGED <<kit, up, wake, batch, writer, reply, events>>
      /\ air # <<>> /\ air' = Tail(air)
      /\ IF n = "handoff" THEN tx' = Taken /\ Spawn ELSE UNCHANGED <<tx, call>>
      /\ IF Acks(n)
         THEN /\ pending' = pending \cup {n}
              /\ queue' = Append(queue, AckOf(n))
              /\ recv' = [at |-> "signal", for |-> n]
         ELSE recv' = [at |-> "put", for |-> n] /\ UNCHANGED <<pending, queue>>
  BY DEF Receive, AckOf
<1>2. air \in Seq(Notices) /\ Len(air) <= MaxAir /\ MaxAir \in Nat
  BY ClientAssumption DEF ConsistentInv, Buffers
<1>3. n \in Notices /\ air' \in Seq(Notices) /\ Len(air') <= MaxAir
  BY <1>1, <1>2, TailFits
<1> HIDE DEF n
<1>4. recv' \in [at : {"idle", "signal", "put", "drop"}, for : Notices]
  BY <1>1, <1>3
<1>5. MarksOK(queue', pending')
  <2>1. MarksOK(queue, pending)
    BY DEF ConsistentInv
  <2>2. CASE Acks(n)
    <3>1. n \in Records /\ n \notin pending
      BY <2>2 DEF Acks
    <3>2. MarksOK(Append(queue, AckOf(n)), pending \cup {n})
      BY <2>1, <3>1, MarksAck
    <3>3. queue' = Append(queue, AckOf(n)) /\ pending' = pending \cup {n}
      BY <1>1, <2>2
    <3> QED BY <3>2, <3>3
  <2>3. CASE ~Acks(n)
    BY <1>1, <2>1, <2>3
  <2> QED BY <2>2, <2>3
<1>6. tx' \in [owns : BOOLEAN, waiters : SUBSET Procs]
  <2>1. Taken \in [owns : BOOLEAN, waiters : SUBSET Procs]
    BY DEF Taken
  <2> QED BY <1>1, <2>1 DEF ConsistentInv, Buffers
<1>7. CallsOK(call')
  <2>1. CallsOK(call)
    BY DEF ConsistentInv
  <2>2. CASE call' = call
    BY <2>1, <2>2
  <2>3. CASE call' # call
    <3> DEFINE todo == <<Frame("grant", "none")>>
    <3>1. Spawn /\ AutoGrant
      BY <1>1, <2>3 DEF Spawn
    <3>2. PICK g \in Grants : Calls(g, "grant", "lock", todo)
      <4>1. \E g \in Grants : call[g] = Idle
        BY <3>1 DEF Spawn
      <4>2. Calls(CHOOSE g \in Grants : call[g] = Idle, "grant", "lock", todo)
        BY <3>1 DEF Spawn
      <4> QED BY <4>1, <4>2, Zenon
    <3>3. todo \in Seq(Frames) /\ todo # <<>> /\ "grant" \in Ops /\ "lock" \in Places /\ g \in Procs
      BY FramesAre, WhoIsWho DEF Ops, Places
    <3> HIDE DEF todo
    <3> QED BY <2>1, <3>2, <3>3, CallsCalls
  <2> QED BY <2>2, <2>3
<1> QED BY <1>1, <1>3, <1>4, <1>5, <1>6, <1>7 DEF ConsistentInv, Buffers

\* deliver, and the device.
LEMMA DeliverBuffers ==
    ASSUME ConsistentInv, ReceiverSignals \/ Deliver \/ DropOldest \/ Device
    PROVE  ConsistentInv'
<1>1. UNCHANGED <<kit, up, tx, batch, writer, call, reply, queue, pending>>
  BY DEF ReceiverSignals, Deliver, DropOldest, Device, DeviceSends, DeviceHandsOff, conn, work
<1>2. /\ recv \in [at : {"idle", "signal", "put", "drop"}, for : Notices] /\ wake \in BOOLEAN
      /\ events \in Seq(Notices) /\ Len(events) <= EventCap /\ EventCap \in Nat
      /\ air \in Seq(Notices) /\ Len(air) <= MaxAir /\ MaxAir \in Nat
  BY ClientAssumption DEF ConsistentInv, Buffers
<1>3. SUFFICES /\ recv' \in [at : {"idle", "signal", "put", "drop"}, for : Notices] /\ wake' \in BOOLEAN
               /\ events' \in Seq(Notices) /\ Len(events') <= EventCap
               /\ air' \in Seq(Notices) /\ Len(air') <= MaxAir
  BY <1>1, <1>3 DEF ConsistentInv, Buffers
<1>4. CASE ReceiverSignals
  BY <1>2, <1>4 DEF ReceiverSignals, conn
<1>5. CASE Deliver
  <2>1. UNCHANGED <<air, wake>>
    BY <1>5 DEF Deliver, conn, work
  <2>2. \/ Len(events) < EventCap /\ events' = Append(events, recv.for) /\ recv' = Listening
        \/ events' = events /\ recv' = [recv EXCEPT !.at = "drop"]
    BY <1>5 DEF Deliver
  <2>3. recv' \in [at : {"idle", "signal", "put", "drop"}, for : Notices]
    BY <1>2, <2>2 DEF Listening, Notices
  <2>4. recv.for \in Notices
    BY <1>2
  <2>5. events' \in Seq(Notices) /\ Len(events') <= EventCap
    BY <1>2, <2>2, <2>4, AppendFits
  <2> QED BY <1>2, <2>1, <2>3, <2>5
<1>6. CASE DropOldest
  <2>1. UNCHANGED <<air, wake>> /\ recv' = [recv EXCEPT !.at = "put"]
    BY <1>6 DEF DropOldest, conn, work
  <2>2. events' = events \/ (events # <<>> /\ events' = Tail(events))
    BY <1>6 DEF DropOldest
  <2>3. events' \in Seq(Notices) /\ Len(events') <= EventCap
    BY <1>2, <2>2, TailFits
  <2>4. recv' \in [at : {"idle", "signal", "put", "drop"}, for : Notices]
    BY <1>2, <2>1
  <2> QED BY <1>2, <2>1, <2>3, <2>4
<1>7. CASE Device
  <2>1. PICK k \in {"static", "peers", "live", "handoff"} :
              Len(air) < MaxAir /\ air' = Append(air, k) /\ UNCHANGED <<recv, events, wake>>
    BY <1>7 DEF Device, DeviceSends, DeviceHandsOff, NextRecord, work
  <2>2. k \in Notices
    BY <2>1 DEF Notices, Records
  <2>3. air' \in Seq(Notices) /\ Len(air') <= MaxAir
    BY <1>2, <2>1, <2>2, AppendFits
  <2> QED BY <1>2, <2>1, <2>3
<1> QED BY <1>4, <1>5, <1>6, <1>7

LEMMA ConsistentInit == Init => ConsistentInv
<1> SUFFICES ASSUME Init PROVE ConsistentInv
  OBVIOUS
<1>1. MarksOK(queue, pending)
  BY DEF Init, MarksOK
<1>2. CallsOK(call)
  <2>1. \A p \in Procs : Idle.at = "idle"
    BY DEF Idle
  <2> QED BY <2>1, FramesAre DEF Init, CallsOK, CallType
<1>3. writer \in [at : {"wait", "take", "write", "end"}, req : Queued]
  BY FramesAre DEF Init, Resting, Queued
<1>4. tx \in [owns : BOOLEAN, waiters : SUBSET Procs]
  BY DEF Init, Taken
<1>5. recv \in [at : {"idle", "signal", "put", "drop"}, for : Notices]
  BY DEF Init, Listening, Notices
<1>6. /\ events \in Seq(Notices) /\ Len(events) <= EventCap
      /\ air \in Seq(Notices) /\ Len(air) <= MaxAir
  BY ClientAssumption DEF Init
<1>7. kit \in Kits /\ up \in BOOLEAN /\ wake \in BOOLEAN /\ batch \in Procs \cup {Nobody}
  BY DEF Init
<1>8. reply \in [Procs -> {"none", "ok", "failed"}]
  BY DEF Init
<1> QED BY <1>1, <1>2, <1>3, <1>4, <1>5, <1>6, <1>7, <1>8 DEF ConsistentInv, Buffers

LEMMA ConsistentTypes == ConsistentInv => Consistent
<1> SUFFICES ASSUME ConsistentInv PROVE Consistent
  OBVIOUS
<1>1. PendingQueued
  BY MarksCount DEF ConsistentInv
<1>2. TypeOK
  <2>1. queue \in Seq([by : Procs \cup {Nobody}, frame : Frames]) /\ pending \subseteq Records
    BY DEF ConsistentInv, MarksOK, Queued
  <2>2. /\ kit \in Kits /\ up \in BOOLEAN /\ wake \in BOOLEAN
        /\ tx \in [owns : BOOLEAN, waiters : SUBSET Procs]
        /\ batch \in Procs \cup {Nobody}
        /\ writer.at \in {"wait", "take", "write", "end"}
        /\ \A p \in Procs : reply[p] \in {"none", "ok", "failed"}
        /\ recv.at \in {"idle", "signal", "put", "drop"}
        /\ Len(events) <= EventCap /\ Len(air) <= MaxAir
    BY DEF ConsistentInv, Buffers
  <2> QED BY <2>1, <2>2 DEF TypeOK
<1> QED BY <1>1, <1>2 DEF Consistent

\* Whatever writes fail, whenever the link drops and however the receiver and
\* the writer interleave, a record is marked exactly while its one ack waits in
\* the queue, and the buffers keep their bounds (legacyAck, writer, deliver).
THEOREM ConsistentHolds == Spec => []Consistent
<1>1. ConsistentInv /\ [Next]_vars => ConsistentInv'
  <2> SUFFICES ASSUME ConsistentInv, [Next]_vars PROVE ConsistentInv'
    OBVIOUS
  <2>1. CASE UNCHANGED vars
    BY <2>1 DEF ConsistentInv, Buffers, vars
  <2>2. ASSUME NEW p \in Procs, Step(p) PROVE ConsistentInv'
    BY <2>2, StepBuffers, WriteBuffers DEF Step
  <2> QED BY <2>1, <2>2, UserBuffers, WriterBuffers, ReceiveBuffers, DeliverBuffers DEF Next, Receiver
<1> QED BY <1>1, ConsistentInit, ConsistentTypes, PTL DEF Spec
=============================================================================
