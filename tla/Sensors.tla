------------------------------ MODULE Sensors ------------------------------
(***************************************************************************)
(* Where a node's readings come from: a board's own parts, a reading held  *)
(* by hand, or a simulation put in front of either.  Hardware answers or   *)
(* fails as it likes; the operator sets a field, gives it back, starts and *)
(* stops simulations and calibrates the compass at any moment.             *)
(*                                                                         *)
(* A value says where it is from.  "zero" is what a variable holds before  *)
(* any part was read.  When the receiver gives its clock, the clock is     *)
(* right: its time is now.                                                 *)
(***************************************************************************)
EXTENDS Integers, FiniteSets

CONSTANTS
    Sky,        \* places the receiver reports, too far apart to travel
    Hand,       \* places, bearings and charges an operator sets
    Ahead,      \* how far ahead an operator's clocks are
    Kits,       \* sets of fields in play; a behaviour has one
    MaxNow,     \* length of a behaviour
    Minute,     \* the gap after which PlausibleStep judges nothing
    CalFor,     \* magCalFor
    Dwell,      \* orientationDwell, by pose
    Hold        \* orientationHold, by pose

Poses == {"vertical", "horizontal"}
Fields == {"pos", "head", "flat", "batt", "clock"}

ASSUME SensorsAssumption ==
    /\ {MaxNow, Minute, CalFor} \subseteq Nat \ {0} /\ Ahead \subseteq Nat \ {0}
    /\ Kits \subseteq SUBSET Fields
    /\ Dwell \in [Poses -> Nat] /\ Hold \in [Poses \cup {"unknown"} -> Nat]
    /\ Sky \cap Hand = {} /\ {"none", "zero", "turned"} \cap (Sky \cup Hand) = {}

None == "none"              \* no fix, no setting
NoClock == -(3 * MaxNow)    \* no time, no offset
Never == -1

Nothing == [f \in Fields |-> IF f = "clock" THEN NoClock ELSE None]

VARIABLES
    kit, now,
    hw,         \* the board has drivers of its own
    source,     \* what the node reads: "board", "held" or "sim"
    stash,      \* Node.replaced holds the board's source
    held,       \* the reading the console drives
    hand,       \* fields of the board taken over by hand
    fix,        \* the receiver's last fix: place, when it came and its time
    cell,       \* the last battery reading of the power chip
    tracker,    \* OrientationTracker
    cal,        \* the end of a calibration turn, Never without one
    compass,    \* calibrated, haveHeading, heading
    sim,        \* the simulated Totem
    node,       \* the node's reading
    offset,     \* its clock's offset
    said,       \* what the operator asked for of the source being read
    steady,     \* the place the receiver names, since when and until when
    swayed      \* when the pose opposite to each was last seen

board == <<fix, cell, tracker, cal, compass, steady, swayed>>
vars == <<kit, now, hw, source, stash, held, hand, board, sim, node, offset, said>>

Bearings == Hand \cup {"conf", "mag", "zero", "wander", "turned"}
Charges == Hand \cup {"conf", "chip", "zero", "drained"}
Spots == Sky \cup Hand \cup {None, "moved"}
Times == {NoClock} \cup Nat

NoSim == [pos |-> None, head |-> "conf", flat |-> "vertical", batt |-> "conf",
          clock |-> NoClock, start |-> 0, motion |-> "still"]

Reading == [pos : Spots, head : Bearings, flat : Poses, batt : Charges]

TypeOK ==
    /\ kit \in Kits /\ now \in 0 .. MaxNow /\ hw \in BOOLEAN /\ stash \in BOOLEAN
    /\ source \in {"board", "held", "sim"} /\ hand \subseteq Fields
    /\ held \in [pos : Spots, head : Bearings, flat : Poses, batt : Charges,
                 clock : Times, at : 0 .. MaxNow]
    /\ fix \in [place : Sky \cup {None}, at : 0 .. MaxNow, time : 0 .. MaxNow \cup {NoClock}]
    /\ cell \in {"zero", "chip"} /\ cal \in Never .. MaxNow + CalFor
    /\ tracker \in [is : Poses \cup {"unknown"}, since : Never .. MaxNow,
                    wants : Poses \cup {"unknown"}, from : Never .. MaxNow]
    /\ compass \in [calibrated : BOOLEAN, have : BOOLEAN, heading : {"zero", "mag"}]
    /\ sim \in [pos : Spots, head : Bearings, flat : Poses, batt : Charges, clock : Times,
                start : 0 .. MaxNow, motion : {"still", "walk", "drive"}]
    /\ node \in Reading
    /\ offset \in {NoClock, 0} \cup Ahead

Init ==
    /\ kit \in Kits /\ now = 0 /\ hw \in BOOLEAN
    /\ source = IF hw THEN "board" ELSE "held"
    /\ stash = FALSE /\ hand = {}
    /\ held = [pos |-> None, head |-> "conf", flat |-> "vertical", batt |-> "conf",
               clock |-> NoClock, at |-> 0]
    /\ fix = [place |-> None, at |-> 0, time |-> 0] /\ cell = "zero"
    /\ tracker = [is |-> "unknown", since |-> Never, wants |-> "unknown", from |-> Never]
    /\ cal = Never
    /\ compass = [calibrated |-> FALSE, have |-> FALSE, heading |-> "zero"]
    /\ sim = NoSim
    /\ node = [pos |-> None, head |-> "conf", flat |-> "vertical", batt |-> "conf"]
    /\ offset = NoClock /\ said = Nothing
    /\ steady = [place |-> None, since |-> 0, last |-> 0] /\ swayed = [p \in Poses |-> Never]

PassTime ==
    /\ now < MaxNow /\ now' = now + 1
    /\ UNCHANGED <<kit, hw, source, stash, held, hand, board, sim, node, offset, said>>

-----------------------------------------------------------------------------
(* The parts of a board, as boardSensors.Read asks them. *)

\* A failed, implausible or not yet due read leaves the last one.
ReadCell(h, got) == cell' = IF "batt" \notin h /\ got THEN "chip" ELSE cell

Plausible(gap) == gap <= 0 \/ gap > Minute

\* Mutant: a refused fix restarts the gap.
Consume_Restamps(place, time) ==
    /\ fix' = IF fix.place \in {None, place} \/ Plausible(now - fix.at)
              THEN [place |-> place, at |-> now, time |-> time] ELSE [fix EXCEPT !.at = now, !.time = now]
    /\ steady' = [place |-> place, last |-> now,
                  since |-> IF steady.place = place THEN steady.since ELSE now]

\* consume: a place that could not have been reached is no fix, and the time
\* of the last one stands.
Consume(place, time) ==
    /\ fix' = IF fix.place \in {None, place} \/ Plausible(now - fix.at)
              THEN [place |-> place, at |-> now, time |-> time] ELSE fix
    /\ steady' = [place |-> place, last |-> now,
                  since |-> IF steady.place = place THEN steady.since ELSE now]

\* drain: nothing, or the fix the receiver's sentences add up to, which has no
\* time when they carried no usable date.  (It has one in the kits without
\* the clock.)
Drain ==
    \/ UNCHANGED <<fix, steady>>
    \/ "pos" \in kit /\ \E place \in Sky, time \in {now, IF "clock" \in kit THEN NoClock ELSE now} :
          Consume(place, time)

\* Mutant: a new candidate inherits the time of the one before it.
Argued_Inherits(pose) ==
    IF pose = "unknown" THEN tracker
    ELSE [tracker EXCEPT !.wants = pose, !.from = IF @ = Never THEN now ELSE @]

\* OrientationTracker.Update: a reading that is neither pose leaves the
\* candidate as it is, and may be the one that commits it.
Argued(pose) ==
    IF pose \notin {"unknown", tracker.wants}
    THEN [tracker EXCEPT !.wants = pose, !.from = now] ELSE tracker

Commits(t) ==
    /\ t.wants \notin {"unknown", t.is} /\ now - t.from >= Dwell[t.wants]
    /\ t.since = Never \/ now - t.since >= Hold[t.is]

ReadPose(pose) ==
    LET t == Argued(pose)
    IN  /\ tracker' = IF Commits(t) THEN [t EXCEPT !.is = t.wants, !.since = now] ELSE t
        /\ swayed' = [p \in Poses |-> IF pose \notin {"unknown", p} THEN now ELSE swayed[p]]

\* A failed reading leaves the tracker alone.
ReadIMU(h) ==
    \/ UNCHANGED <<tracker, swayed>>
    \/ "flat" \in kit /\ "flat" \notin h /\ \E pose \in Poses \cup {"unknown"} : ReadPose(pose)

\* collectCal at the end of its turn: enough of one or refused.  The part is
\* not read again in the same pass.
EndCal ==
    /\ cal' = Never
    /\ \/ compass' = [compass EXCEPT !.calibrated = TRUE, !.have = FALSE]
       \/ UNCHANGED compass

ReadCompass(h) ==
    IF cal # Never
    THEN IF now < cal THEN UNCHANGED <<cal, compass>> ELSE EndCal
    ELSE /\ UNCHANGED cal
         /\ \/ UNCHANGED compass
            \/ /\ compass.calibrated /\ "head" \notin h
               /\ compass' = [compass EXCEPT !.have = TRUE, !.heading = "mag"]

-----------------------------------------------------------------------------
(* Readings.  The time of a fix is NoClock when it carries no clock. *)

HeldTime(s) == IF s.pos = None \/ s.clock = NoClock THEN NoClock ELSE s.clock + (now - s.at)

SimTime(s) == IF s.pos = None \/ s.clock = NoClock THEN NoClock ELSE s.clock + (now - s.start)

\* Mutant: the receiver's clock goes out even after one was set by hand.
FixTime_Overrules(f, h) == IF f.time = NoClock THEN NoClock ELSE f.time + (now - f.at)

\* The fix as it is reported: its clock, if it has one the node can use, moved
\* on to now.
FixTime(f, h) == IF "clock" \in h \/ f.time = NoClock THEN NoClock ELSE f.time + (now - f.at)

\* What a node with clock o makes of a reading.
NodeReads(r, time, o) ==
    /\ node' = [pos |-> r.pos, head |-> r.head, flat |-> r.flat, batt |-> r.batt]
    /\ offset' = IF time = NoClock THEN o ELSE time - now

StaticRead(s, o) == NodeReads(s, HeldTime(s), o) /\ UNCHANGED board

\* Unknown is vertical to the node.
Carried(pose) == IF pose = "unknown" THEN "vertical" ELSE pose

BoardRead(s, h, o) ==
    LET placed == fix'.place # None /\ "pos" \notin h
        r == [pos |-> IF placed THEN fix'.place ELSE s.pos,
              head |-> IF compass'.calibrated /\ "head" \notin h /\ compass'.have
                       THEN compass'.heading ELSE s.head,
              flat |-> IF "flat" \notin h THEN Carried(tracker'.is) ELSE s.flat,
              batt |-> IF "batt" \notin h /\ cell' # "zero" THEN cell' ELSE s.batt]
    IN  /\ \E got \in BOOLEAN : ("batt" \notin kit => ~got) /\ ReadCell(h, got)
        /\ Drain /\ ReadIMU(h) /\ ReadCompass(h)
        /\ NodeReads(r, IF placed THEN FixTime(fix', h) ELSE HeldTime(s), o)

\* The bearing after a step: a walk wanders, a drive holds its course, and over
\* a pole either turns round (Sim.move).
Course(s) ==
    CASE s.motion = "still" -> {s.head}
      [] s.motion = "walk"  -> {s.head, "wander"}
      [] s.motion = "drive" -> {s.head, "turned"}

\* Sim.Read: a walk and a drive move, the battery drains.
SimRead(s, o) ==
    \E p \in IF s.motion = "still" \/ s.pos = None THEN {s.pos} ELSE {s.pos, "moved"},
       d \in Course(s),
       b \in IF "batt" \in kit THEN {s.batt, "drained"} ELSE {s.batt} :
        LET w == [s EXCEPT !.pos = p, !.head = d, !.batt = b]
        IN  sim' = w /\ NodeReads(w, SimTime(w), o) /\ UNCHANGED board

\* Node.read through a source, with what has just been set on it.
ReadWith(src, s, h, w, o) ==
    /\ source' = src /\ held' = s /\ hand' = h
    /\ \/ src = "held" /\ StaticRead(s, o) /\ sim' = w
       \/ src = "board" /\ BoardRead(s, h, o) /\ sim' = w
       \/ src = "sim" /\ SimRead(w, o)

Read(src, s, h, w) == ReadWith(src, s, h, w, offset)

Poll ==
    /\ Read(source, held, hand, sim)
    /\ UNCHANGED <<kit, now, hw, stash, said>>

-----------------------------------------------------------------------------
(* The operator. *)

\* A setting of the source being read; on a board it latches the field.
Set(f, v) ==
    /\ f \in kit
    /\ IF source = "sim" THEN Read(source, held, hand, [sim EXCEPT ![f] = v])
       ELSE Read(source, [held EXCEPT ![f] = v], IF source = "board" THEN hand \cup {f} ELSE hand, sim)
    /\ said' = [said EXCEPT ![f] = v]
    /\ UNCHANGED <<kit, now, hw, stash>>

SetPosition(v) == Set("pos", v)

SetHeading(v) == Set("head", v)

SetBattery(v) == Set("batt", v)

SetFlat(v) == Set("flat", v)

\* pos off: no fix, or on a board the receiver given back.
ClearPosition ==
    /\ "pos" \in kit
    /\ IF source = "sim" THEN Read(source, held, hand, [sim EXCEPT !.pos = None])
       ELSE Read(source, [held EXCEPT !.pos = None], hand \ {"pos"}, sim)
    /\ said' = [said EXCEPT !.pos = None]
    /\ UNCHANGED <<kit, now, hw, stash>>

\* The node's clock is set whatever the source makes of it; then the source
\* is read, and a fix with a clock of its own wins.
SetClock(o) ==
    LET wall == now + o
    IN  /\ "clock" \in kit
        /\ IF source = "sim"
           THEN ReadWith(source, held, hand, [sim EXCEPT !.clock = wall - (now - sim.start)], o)
           ELSE ReadWith(source, [held EXCEPT !.clock = wall, !.at = now],
                         IF source = "board" THEN hand \cup {"clock"} ELSE hand, sim, o)
        /\ said' = [said EXCEPT !.clock = o]
        /\ UNCHANGED <<kit, now, hw, stash>>

\* Mutant: the stash is set first, and cleared by the change of source.
SetSensors_ClearsLast(src, s, w, put) ==
    /\ Read(src, s, hand, w)
    /\ stash' = FALSE

\* SetSensors settles what StopSim would restore.
SetSensors(src, s, w, put) ==
    /\ Read(src, s, hand, w)
    /\ stash' = put

\* A walk differs from a drive in its bearing only.
Motions == IF "head" \in kit THEN {"still", "walk", "drive"} ELSE {"still", "drive"}

\* A simulation takes over position, pose and charge as they read; one that
\* runs already is steered.
StartSim(m, v) ==
    /\ IF source = "sim"
       THEN /\ Read(source, held, hand, [sim EXCEPT !.motion = m, !.head = v])
            /\ said' = [said EXCEPT !.head = None, !.pos = None] /\ UNCHANGED stash
       ELSE /\ SetSensors("sim", held,
                   [pos |-> node.pos, head |-> v, flat |-> node.flat, batt |-> node.batt,
                    clock |-> NoClock, start |-> now, motion |-> m], source = "board")
            /\ said' = Nothing
    /\ UNCHANGED <<kit, now, hw>>

\* The hardware comes back; without any the last reading is held, its clock
\* left out.
StopSim ==
    /\ source = "sim"
    /\ IF stash THEN SetSensors("board", held, NoSim, FALSE)
       ELSE SetSensors("held", [pos |-> node.pos, head |-> node.head, flat |-> node.flat,
                                batt |-> node.batt, clock |-> NoClock, at |-> now], NoSim, FALSE)
    /\ said' = Nothing
    /\ UNCHANGED <<kit, now, hw>>

\* calibrateMag, refused while a simulation runs.
CalibrateMag ==
    /\ "head" \in kit /\ hw /\ source # "sim"
    /\ cal' = now + CalFor
    /\ UNCHANGED <<kit, now, hw, source, stash, held, hand, fix, cell, tracker, compass, steady,
                   swayed, sim, node, offset, said>>

Next ==
    \/ PassTime \/ Poll \/ ClearPosition \/ StopSim \/ CalibrateMag
    \/ \E v \in Hand : SetPosition(v) \/ SetHeading(v) \/ SetBattery(v)
    \/ \E v \in Poses : SetFlat(v)
    \/ \E o \in Ahead : SetClock(o)
    \/ \E m \in Motions, v \in Hand : StartSim(m, v)

Spec == Init /\ [][Next]_vars

-----------------------------------------------------------------------------
\* A board's own parts are read whenever no simulation runs, and are waiting
\* for its end while one does, however often it was started and steered.
HardwareBack == stash = (hw /\ source = "sim") /\ (source = "board" => hw) /\ (source = "held" => ~hw)

\* What the simulation moves on its own: the bearing of a drive only when it
\* has gone over a pole.
Drifts(f) ==
    /\ source = "sim"
    /\ \/ f = "batt"
       \/ f = "pos" /\ sim.motion # "still"
       \/ f = "head" /\ (sim.motion = "walk" \/ sim.head = "turned")

\* A setting holds until another one, `pos off` or a change of source: no
\* poll, fix, calibration or recovered part takes it back.
CommandHolds ==
    \A f \in Fields : said[f] # Nothing[f] /\ ~Drifts(f) =>
        (IF f = "clock" THEN offset ELSE node[f]) = said[f]

\* No reading is a variable that nothing has filled in yet.
Measured == node.head # "zero" /\ node.batt # "zero"

\* While the receiver's clock is used the node's agrees with it, however old
\* the last fix is and wherever the simulation has been.  A fix without a date
\* has no clock to use.
ClockTrue ==
    source = "board" /\ fix.place # None /\ fix.time # NoClock /\ hand \cap {"pos", "clock"} = {}
        => offset = 0

\* A receiver that has named one place for more than a minute is believed,
\* whatever it said before: a fix too far away is not refused for ever.
Believed == steady.last - steady.since > Minute => fix.place = steady.place

\* A pose is reported only after its dwell time without a sign of the other,
\* whichever reading the time runs out in, and the one before it is kept for its
\* own.
Steadied ==
    [][tracker'.is # tracker.is =>
         /\ swayed[tracker'.is] = Never \/ now - swayed[tracker'.is] >= Dwell[tracker'.is]
         /\ tracker.since = Never \/ now - tracker.since >= Hold[tracker.is]]_vars

\* What the node says of itself is what its parts measured (Node.Poll).
Honest == TypeOK /\ Measured /\ ClockTrue /\ Believed
=============================================================================
