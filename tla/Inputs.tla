------------------------------ MODULE Inputs ------------------------------
(***************************************************************************)
(* The input recognisers: presses and releases become taps and holds.  The *)
(* board's one button is SOS, sampled on every pass of the main loop; the  *)
(* console makes the presses of the other inputs, whose edges it dates     *)
(* ahead of the clock.  An update, started by a triple tap of SOS, stops   *)
(* the loop and blocks the inputs.  Times are ages, counted in lockouts;   *)
(* an age below zero lies ahead.                                           *)
(***************************************************************************)
EXTENDS Integers, FiniteSets

CONSTANTS
    Window,      \* multiTapWindow
    HoldTime,    \* holdTime
    LongTime,    \* longHold, of SOS
    BootWait,    \* bootDebounce
    MaxHold,     \* the longest hold the console takes
    Holds,       \* lengths of the console's holds
    MaxUpdate    \* how long an update takes, at most

ASSUME TimesAssumption ==
    /\ {Window, HoldTime, LongTime, BootWait, MaxUpdate} \subseteq Nat \ {0}
    /\ HoldTime < LongTime
    /\ MaxHold \in Nat /\ MaxHold >= LongTime /\ Holds \subseteq 0 .. MaxHold

Inputs == {"power", "sos"}     \* Crystal is a power button that never toggles
Lockout == 1
TapHold == 1                   \* tapHold just clears the lockout
TapStep == 2
MaxTaps == 4
MaxAhead == IF MaxHold > TapHold + 2 * TapStep THEN MaxHold ELSE TapHold + 2 * TapStep
None == -1

VARIABLES
    rec,      \* the recogniser of each input
    off,      \* the device is off
    finger,   \* a finger is on the SOS button
    panel,    \* what the panel last saw of it
    felt,     \* how long the panel has seen it down
    boot,     \* what is left of the wait after a boot
    pc,       \* "loop", "ask", "get", or "hold": a console hold is walked
    was,      \* the blocks an update found
    walk,     \* the console's hold: input, offset reached, end, still its input
    until,    \* what is left of the gesture the console last made on an input
    toggled,  \* how often one hold has switched the power
    fired     \* gestures of the last step

vars == <<rec, off, finger, panel, felt, boot, pc, was, walk, until, toggled, fired>>

-----------------------------------------------------------------------------
(* One recogniser, at an offset t from the clock. *)

Rest == [down |-> FALSE, downAge |-> 0, edge |-> Lockout, held |-> FALSE, long |-> FALSE,
         taps |-> 0, rel |-> Window, block |-> 0]

HoldFor(i) == HoldTime
LongFor(i) == IF i = "sos" THEN LongTime ELSE None

Takes(r, t) == r.block <= t /\ ~r.down /\ r.edge + t >= Lockout

Press(r, t) ==
    IF Takes(r, t)
    THEN [r EXCEPT !.down = TRUE, !.downAge = -t, !.edge = -t, !.held = FALSE, !.long = FALSE]
    ELSE r

\* Mutant: the lockout swallows a release too.
Release_Swallowed(r, t) ==
    LET up == [r EXCEPT !.down = FALSE, !.downAge = 0, !.edge = -t]
    IN  IF ~r.down \/ r.edge + t < Lockout THEN r
        ELSE IF r.held \/ r.long THEN [up EXCEPT !.taps = 0]
        ELSE [up EXCEPT !.taps = IF @ < MaxTaps THEN @ + 1 ELSE @, !.rel = -t]

Release(r, t) ==
    LET up == [r EXCEPT !.down = FALSE, !.downAge = 0, !.edge = -t]
    IN  IF ~r.down THEN r
        ELSE IF r.held \/ r.long THEN [up EXCEPT !.taps = 0]
        ELSE IF r.edge + t < Lockout THEN up
        ELSE [up EXCEPT !.taps = IF @ < MaxTaps THEN @ + 1 ELSE @, !.rel = -t]

HoldDue(i, r, t) == r.down /\ ~r.held /\ r.downAge + t >= HoldFor(i)
LongDue(i, r, t) == r.down /\ LongFor(i) # None /\ ~r.long /\ r.downAge + t >= LongFor(i)
TapsDue(r, t) == ~r.down /\ r.taps > 0 /\ r.rel + t >= Window

Tapped(n) == IF n = 1 THEN "single" ELSE IF n = 2 THEN "double" ELSE "triple"

Gestures(i, r, t) ==
    (IF HoldDue(i, r, t) THEN {"hold"} ELSE {}) \cup (IF LongDue(i, r, t) THEN {"long"} ELSE {})
    \cup (IF TapsDue(r, t) THEN {Tapped(r.taps)} ELSE {})

Polled(i, r, t) ==
    [r EXCEPT !.held = @ \/ HoldDue(i, r, t), !.long = @ \/ LongDue(i, r, t),
              !.taps = IF TapsDue(r, t) THEN 0 ELSE @]

\* Mutant: the window of the taps is offered while the finger is down.
NextPoll_Taps(i, r) ==
    IF r.taps > 0 THEN Window - r.rel
    ELSE IF r.down /\ ~r.held THEN HoldFor(i) - r.downAge
    ELSE IF r.down /\ LongFor(i) # None /\ ~r.long THEN LongFor(i) - r.downAge
    ELSE None

\* next, as an offset.
NextPoll(i, r) ==
    IF r.down THEN IF ~r.held THEN HoldFor(i) - r.downAge
                   ELSE IF LongFor(i) # None /\ ~r.long THEN LongFor(i) - r.downAge
                   ELSE None
    ELSE IF r.taps > 0 THEN Window - r.rel
    ELSE None

Block(r) == [r EXCEPT !.block = MaxUpdate + 1, !.down = FALSE, !.downAge = 0, !.taps = 0]

ClearPending(rs) ==
    [i \in Inputs |-> [rs[i] EXCEPT !.down = FALSE, !.downAge = 0, !.held = FALSE, !.long = FALSE,
                                    !.taps = 0, !.rel = Window]]

NewInputs(t) == [i \in Inputs |-> [Rest EXCEPT !.block = BootWait + t]]

-----------------------------------------------------------------------------
(* What the gestures do to the inputs: the power button's hold, and the    *)
(* update SOS starts.  What they do to the device is Device's.             *)

OnGestures(s, i, gs, at) ==
    LET t == [s EXCEPT !.fired = @ \cup {<<i, g>> : g \in gs}]
    IN  IF i = "power" /\ "hold" \in gs
        THEN IF s.off THEN [t EXCEPT !.rec = NewInputs(at), !.off = FALSE, !.boot = BootWait + at,
                                !.toggled = @ + 1]
             ELSE [t EXCEPT !.rec = ClearPending(@), !.off = TRUE, !.toggled = @ + 1]
        ELSE IF i = "sos" /\ "triple" \in gs /\ ~s.off THEN [t EXCEPT !.pc = "ask"]
        ELSE t

PollInput(s, i, t) ==
    OnGestures([s EXCEPT !.rec[i] = Polled(i, @, t)], i, Gestures(i, s.rec[i], t), t)

State == [rec |-> rec, off |-> off, boot |-> boot, pc |-> pc, toggled |-> toggled, fired |-> {}]

Becomes(s) ==
    /\ rec' = s.rec /\ off' = s.off /\ boot' = s.boot /\ pc' = s.pc
    /\ toggled' = s.toggled /\ fired' = s.fired

-----------------------------------------------------------------------------
RecType == [down : BOOLEAN, downAge : 0 .. LongTime, edge : -MaxAhead .. Lockout, held : BOOLEAN,
            long : BOOLEAN, taps : 0 .. MaxTaps, rel : -MaxAhead .. Window,
            block : 0 .. BootWait + LongTime + MaxUpdate + 1]

TypeOK ==
    /\ rec \in [Inputs -> RecType]
    /\ {off, finger, panel} \subseteq BOOLEAN
    /\ felt \in 0 .. LongTime /\ boot \in 0 .. BootWait + LongTime
    /\ pc \in {"loop", "ask", "get", "hold"}
    /\ was \in [Inputs -> 0 .. BootWait + LongTime]
    /\ walk \in [input : Inputs, end : 0 .. MaxHold, mine : BOOLEAN]
    /\ until \in [Inputs -> 0 .. MaxAhead]
    /\ toggled \in 0 .. 2
    /\ fired \subseteq Inputs \X {"single", "double", "triple", "hold", "long"}

Init ==
    /\ rec = NewInputs(0) /\ off = FALSE /\ boot = BootWait
    /\ finger = FALSE /\ panel = FALSE /\ felt = 0
    /\ pc = "loop" /\ was = [i \in Inputs |-> 0]
    /\ walk = [input |-> "sos", end |-> 0, mine |-> FALSE]
    /\ until = [i \in Inputs |-> 0] /\ toggled = 0 /\ fired = {}

Less(n) == IF n > 0 THEN n - 1 ELSE 0
More(n, top) == IF n < top THEN n + 1 ELSE n

Tick ==
    /\ pc # "hold"
    /\ pc = "get" => \A i \in Inputs : rec[i].block > 1
    /\ rec' = [i \in Inputs |->
                 [rec[i] EXCEPT !.downAge = IF rec[i].down THEN More(@, LongTime) ELSE 0,
                                !.edge = More(@, Lockout), !.rel = More(@, Window),
                                !.block = Less(@)]]
    /\ boot' = Less(boot) /\ was' = [i \in Inputs |-> Less(was[i])]
    /\ felt' = IF panel THEN More(felt, LongTime) ELSE 0
    /\ fired' = {}
    /\ until' = [i \in Inputs |-> Less(until[i])]
    /\ UNCHANGED <<off, finger, panel, pc, walk, toggled>>

\* The finger moves, whatever the loop is doing.
Moves ==
    /\ finger' = ~finger /\ fired' = {}
    /\ UNCHANGED <<rec, off, panel, felt, boot, pc, was, walk, until, toggled>>

\* A pass of the main loop: the panel's edge, then every recogniser.
Pass ==
    /\ pc = "loop"
    /\ panel' = finger
    /\ felt' = IF panel' /\ panel THEN felt ELSE 0
    /\ LET r == IF finger = panel THEN rec["sos"]
                ELSE IF finger THEN Press(rec["sos"], 0) ELSE Release(rec["sos"], 0)
           s == [State EXCEPT !.rec["sos"] = r, !.toggled = 0]
       IN  Becomes(PollInput(PollInput(s, "power", 0), "sos", 0))
    /\ UNCHANGED <<finger, was, walk, until>>

\* A console tap: presses and releases dated ahead, until one is refused.
Tap(i, n) ==
    LET once(r, t) == Release(Press(r, t), t + TapHold)
        two(r) == IF Takes(r, TapStep) THEN once(r, TapStep) ELSE r
        three(r) == IF Takes(r, 2 * TapStep) THEN once(r, 2 * TapStep) ELSE r
        r1 == once(rec[i], 0)
    IN  /\ pc = "loop"
        /\ Takes(rec[i], 0)
        /\ rec' = [rec EXCEPT ![i] = IF n = 1 THEN r1 ELSE IF n = 2 THEN two(r1) ELSE three(two(r1))]
        /\ until' = [until EXCEPT ![i] = (n - 1) * TapStep + TapHold]
        /\ fired' = {}
        /\ UNCHANGED <<off, finger, panel, felt, boot, pc, was, walk, toggled>>

\* A console hold: the press ...
HoldBegins(i, d) ==
    /\ pc = "loop" /\ pc' = "hold"
    /\ Takes(rec[i], 0)
    /\ rec' = [rec EXCEPT ![i] = Press(@, 0)]
    /\ walk' = [input |-> i, end |-> d, mine |-> TRUE]
    /\ until' = [until EXCEPT ![i] = d]
    /\ toggled' = 0 /\ fired' = {}
    /\ UNCHANGED <<off, finger, panel, felt, boot, was>>

HoldAt == NextPoll(walk.input, rec[walk.input])

\* ... each gesture at its time ...
HoldWalks ==
    /\ pc = "hold" /\ walk.mine /\ HoldAt # None /\ HoldAt <= walk.end
    /\ Becomes(PollInput(State, walk.input, HoldAt))
    /\ walk' = [walk EXCEPT !.mine = ~(off /\ ~off')]     \* PowerOn builds new recognisers
    /\ UNCHANGED <<finger, panel, felt, was, until>>

\* ... and the release.
HoldEnds ==
    /\ pc = "hold" /\ pc' = "loop"
    /\ ~(walk.mine /\ HoldAt # None /\ HoldAt <= walk.end)
    /\ rec' = IF walk.mine THEN [rec EXCEPT ![walk.input] = Release(@, walk.end)] ELSE rec
    /\ fired' = {}
    /\ UNCHANGED <<off, finger, panel, felt, boot, was, walk, until, toggled>>

\* The update: it may fail before the download, which blocks the inputs,
\* renews the block as it goes and gives back what it found.
UpdateFails ==
    /\ pc = "ask" /\ pc' = "loop" /\ fired' = {}
    /\ UNCHANGED <<rec, off, finger, panel, felt, boot, was, walk, until, toggled>>

UpdateDownloads ==
    /\ pc = "ask" /\ pc' = "get"
    /\ was' = [i \in Inputs |-> rec[i].block]
    /\ rec' = [i \in Inputs |-> Block(rec[i])]
    /\ fired' = {}
    /\ UNCHANGED <<off, finger, panel, felt, boot, walk, until, toggled>>

\* Mutant: the renewal takes its own block for what it found.
UpdateRenews_Keeps ==
    /\ pc = "get"
    /\ was' = [i \in Inputs |-> rec[i].block]
    /\ rec' = [i \in Inputs |-> Block(rec[i])]
    /\ fired' = {}
    /\ UNCHANGED <<off, finger, panel, felt, boot, pc, walk, until, toggled>>

UpdateRenews ==
    /\ pc = "get"
    /\ rec' = [i \in Inputs |-> Block(rec[i])]
    /\ fired' = {}
    /\ UNCHANGED <<off, finger, panel, felt, boot, pc, was, walk, until, toggled>>

UpdateEnds ==
    /\ pc = "get" /\ pc' = "loop"
    /\ rec' = [i \in Inputs |-> [rec[i] EXCEPT !.block = was[i]]]
    /\ fired' = {}
    /\ UNCHANGED <<off, finger, panel, felt, boot, was, walk, until, toggled>>

Next ==
    \/ Tick \/ Moves \/ Pass
    \/ \E i \in Inputs, n \in 1 .. 3 : Tap(i, n)
    \/ \E i \in Inputs, d \in Holds : HoldBegins(i, d)
    \/ HoldWalks \/ HoldEnds
    \/ UpdateFails \/ UpdateDownloads \/ UpdateRenews \/ UpdateEnds

Spec == Init /\ [][Next]_vars

-----------------------------------------------------------------------------
\* Between commands, an input is down only while a finger has been on it for
\* as long as the recogniser thinks: no bounce, block or power cycle leaves a
\* press behind that ripens into a hold nobody made.
HoldReal ==
    pc # "hold" => /\ ~rec["power"].down
                   /\ rec["sos"].down => panel /\ rec["sos"].downAge <= felt

\* next never names a time at which poll has nothing to report, which a
\* caller that walks time forward would never get past.
NextUseful ==
    \A i \in Inputs : LET t == NextPoll(i, rec[i]) IN t # None => Gestures(i, rec[i], t) # {}

\* Outside a download an input that is up refuses a press for one of three
\* reasons: the wait after a boot, which is all that is left of a download's
\* block; an edge in the last lockout; or a gesture of the console's on that
\* very input, whose edges are dated ahead, and for no longer than it was to
\* last.  A finger is not heard while such a gesture lasts.
DeafAsMeant ==
    pc # "get" => \A i \in Inputs :
        /\ rec[i].block = boot
        /\ ~rec[i].down /\ ~Takes(rec[i], 0) => boot > 0 \/ rec[i].edge >= 0 \/ until[i] > 0

\* One hold switches the power once.
PowerOnce == toggled <= 1

\* A gesture does what was meant: power switches once, and an input is deaf
\* after a boot, after an edge and for a console gesture's own length, and at
\* no other time (Hold, Tap, FetchUpdate).
AsMeant == TypeOK /\ PowerOnce /\ DeafAsMeant
=============================================================================
