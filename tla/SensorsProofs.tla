--------------------------- MODULE SensorsProofs ---------------------------
(***************************************************************************)
(* What an operator sets stays set, a board's own parts come back, and     *)
(* what a node says of itself is what they measured, for any places,       *)
(* settings, clocks and lengths of time.                                   *)
(***************************************************************************)
EXTENDS Sensors, TLAPS

\* The held reading, and the simulated one.
HeldIs(x) ==
    /\ x = [pos |-> x.pos, head |-> x.head, flat |-> x.flat, batt |-> x.batt, clock |-> x.clock, at |-> x.at]
    /\ x.clock \in Int /\ x.at \in Int

SimIs(x) ==
    /\ x = [pos |-> x.pos, head |-> x.head, flat |-> x.flat, batt |-> x.batt, clock |-> x.clock,
            start |-> x.start, motion |-> x.motion]
    /\ x.clock \in Int /\ x.start \in Int /\ x.motion \in {"still", "walk", "drive"}

Shaped ==
    /\ now \in Nat /\ hw \in BOOLEAN /\ stash \in BOOLEAN
    /\ source \in {"board", "held", "sim"}
    /\ HeldIs(held) /\ SimIs(sim)
    /\ DOMAIN said = Fields

\* With settings sd, a read of source src with held reading s, fields h taken
\* over and simulation w will report what was set, and a clock as set with it.
ReadyPos(sd, src, s, h, w) ==
    sd.pos # None => IF src = "sim" THEN w.motion = "still" => w.pos = sd.pos
                     ELSE s.pos = sd.pos /\ (src = "board" => "pos" \in h)
ReadyHead(sd, src, s, h, w) ==
    sd.head # None => IF src = "sim" THEN w.motion # "walk" /\ w.head # "turned" => w.head = sd.head
                      ELSE s.head = sd.head /\ (src = "board" => "head" \in h)
ReadyFlat(sd, src, s, h, w) ==
    sd.flat # None => IF src = "sim" THEN w.flat = sd.flat
                      ELSE s.flat = sd.flat /\ (src = "board" => "flat" \in h)
ReadyBatt(sd, src, s, h, w) ==
    sd.batt # None /\ src # "sim" => s.batt = sd.batt /\ (src = "board" => "batt" \in h)
ReadyClock(sd, src, s, h, w) ==
    sd.clock # NoClock => IF src = "sim" THEN w.clock - w.start = sd.clock
                          ELSE s.clock - s.at = sd.clock /\ (src = "board" => "clock" \in h)
Ready(sd, src, s, h, w) ==
    /\ ReadyPos(sd, src, s, h, w) /\ ReadyHead(sd, src, s, h, w) /\ ReadyFlat(sd, src, s, h, w)
    /\ ReadyBatt(sd, src, s, h, w) /\ ReadyClock(sd, src, s, h, w)

\* What the node reports is what was set.
Shows(sd, src, w, n, o) ==
    /\ sd.pos # None /\ ~(src = "sim" /\ w.motion # "still") => n.pos = sd.pos
    /\ sd.head # None /\ ~(src = "sim" /\ (w.motion = "walk" \/ w.head = "turned")) => n.head = sd.head
    /\ sd.flat # None => n.flat = sd.flat
    /\ sd.batt # None /\ src # "sim" => n.batt = sd.batt
    /\ sd.clock # NoClock => o = sd.clock

SetInv ==
    /\ Shaped /\ HardwareBack
    /\ Ready(said, source, held, hand, sim)
    /\ Shows(said, source, sim, node, offset)

LEMMA Constants == MaxNow \in Nat /\ NoClock \in Int /\ NoClock < 0
                   /\ \A o \in Ahead : o \in Nat
BY SensorsAssumption DEF NoClock

LEMMA SetInit == Init => SetInv
<1> SUFFICES ASSUME Init PROVE SetInv
  OBVIOUS
<1>1. NoClock \in Int /\ 0 \in Int
  BY Constants
<1>4. HeldIs(held)
  BY <1>1 DEF Init, HeldIs
<1>5. SimIs(sim)
  BY <1>1 DEF Init, NoSim, SimIs
<1>2. DOMAIN said = Fields /\ said.pos = None /\ said.head = None /\ said.flat = None
      /\ said.batt = None /\ said.clock = NoClock
  BY DEF Init, Nothing, Fields
<1>3. Shaped /\ HardwareBack
  BY <1>2, <1>4, <1>5 DEF Init, Shaped, HardwareBack
<1> QED BY <1>2, <1>3 DEF SetInv, Ready, ReadyPos, ReadyHead, ReadyFlat, ReadyBatt, ReadyClock, Shows

\* A node that reads a reading with the time of its fix.
LEMMA NodeReadsIs ==
    ASSUME NEW r, NEW time \in Int, NEW o, NodeReads(r, time, o)
    PROVE  /\ node'.pos = r.pos /\ node'.head = r.head /\ node'.flat = r.flat /\ node'.batt = r.batt
           /\ offset' = IF time = NoClock THEN o ELSE time - now
BY DEF NodeReads

\* The fields of the two records.
LEMMA Records ==
    /\ \A x : HeldIs(x) => x.clock \in Int /\ x.at \in Int
    /\ \A x : SimIs(x) => x.clock \in Int /\ x.start \in Int
BY DEF HeldIs, SimIs

\* A read shows what it was made ready for.
LEMMA ReadShows ==
    ASSUME Shaped, NEW sd, NEW src \in {"board", "held", "sim"}, NEW s, HeldIs(s), NEW h, NEW w, SimIs(w),
           NEW o, Ready(sd, src, s, h, w), sd.clock # NoClock => o = sd.clock,
           ReadWith(src, s, h, w, o)
    PROVE  /\ source' = src /\ held' = s /\ hand' = h /\ SimIs(sim')
           /\ Ready(sd, src, s, h, sim') /\ Shows(sd, src, sim', node', offset')
<1>1. source' = src /\ held' = s /\ hand' = h
  BY DEF ReadWith
<1>2. now \in Int /\ NoClock \in Int
  BY Constants DEF Shaped
<1>4. s.clock \in Int /\ s.at \in Int
  BY Records
<1>5. CASE src = "held"
  <2>1. NodeReads(s, HeldTime(s), o) /\ sim' = w
    BY <1>5 DEF ReadWith, StaticRead
  <2>2. HeldTime(s) \in Int /\ (HeldTime(s) # NoClock => HeldTime(s) - now = s.clock - s.at)
    BY <1>2, <1>4 DEF HeldTime
  <2>3. /\ node'.pos = s.pos /\ node'.head = s.head /\ node'.flat = s.flat /\ node'.batt = s.batt
        /\ offset' = IF HeldTime(s) = NoClock THEN o ELSE HeldTime(s) - now
    BY <2>1, <2>2, NodeReadsIs
  <2> QED BY <1>1, <1>5, <2>1, <2>2, <2>3
          DEF Ready, ReadyPos, ReadyHead, ReadyFlat, ReadyBatt, ReadyClock, Shows
<1>6. CASE src = "board"
  <2> DEFINE placed == fix'.place # None /\ "pos" \notin h
             r == [pos |-> IF placed THEN fix'.place ELSE s.pos,
                   head |-> IF compass'.calibrated /\ "head" \notin h /\ compass'.have
                            THEN compass'.heading ELSE s.head,
                   flat |-> IF "flat" \notin h THEN Carried(tracker'.is) ELSE s.flat,
                   batt |-> IF "batt" \notin h /\ cell' # "zero" THEN cell' ELSE s.batt]
             time == IF placed THEN FixTime(fix', h) ELSE HeldTime(s)
  <2>1. NodeReads(r, time, o) /\ sim' = w
    BY <1>6 DEF ReadWith, BoardRead
  <2>2. /\ node'.pos = r.pos /\ node'.head = r.head /\ node'.flat = r.flat /\ node'.batt = r.batt
        /\ offset' = IF time = NoClock THEN o ELSE time - now
    BY <2>1 DEF NodeReads
  <2>3. /\ "pos" \in h => node'.pos = s.pos
        /\ "head" \in h => node'.head = s.head
        /\ "flat" \in h => node'.flat = s.flat
        /\ "batt" \in h => node'.batt = s.batt
    BY <2>2
  <2>4. "clock" \in h => offset' = o \/ offset' = s.clock - s.at
    BY <1>2, <1>4, <2>2 DEF FixTime, HeldTime
  <2> QED BY <1>1, <1>6, <2>1, <2>3, <2>4
          DEF Ready, ReadyPos, ReadyHead, ReadyFlat, ReadyBatt, ReadyClock, Shows
<1>7. CASE src = "sim"
  <2>0. SimRead(w, o)
    BY <1>7 DEF ReadWith
  <2>1. PICK p \in IF w.motion = "still" \/ w.pos = None THEN {w.pos} ELSE {w.pos, "moved"},
             e \in Course(w),
             b \in IF "batt" \in kit THEN {w.batt, "drained"} ELSE {w.batt} :
           LET x == [w EXCEPT !.pos = p, !.head = e, !.batt = b]
           IN  sim' = x /\ NodeReads(x, SimTime(x), o)
    BY <2>0 DEF SimRead
  <2>2. sim' = [w EXCEPT !.pos = p, !.head = e, !.batt = b]
    BY <2>1
  <2>3. (w.motion = "still" => p = w.pos) /\ (w.motion # "walk" => e \in {w.head, "turned"})
    BY DEF Course, SimIs
  <2>4. /\ SimIs(sim') /\ sim'.pos = p /\ sim'.head = e /\ sim'.batt = b /\ sim'.flat = w.flat
        /\ sim'.clock = w.clock /\ sim'.start = w.start /\ sim'.motion = w.motion
    BY <2>2 DEF SimIs
  <2>5. NodeReads(sim', SimTime(sim'), o)
    BY <2>1
  <2>6. SimTime(sim') \in Int /\ (SimTime(sim') # NoClock => SimTime(sim') - now = w.clock - w.start)
    BY <1>2, <2>4, Records DEF SimTime
  <2>7. /\ node'.pos = p /\ node'.head = e /\ node'.flat = w.flat
        /\ offset' = o \/ offset' = w.clock - w.start
    BY <2>4, <2>5, <2>6 DEF NodeReads
  <2>8. Ready(sd, src, s, h, sim')
    BY <1>7, <2>3, <2>4 DEF Ready, ReadyPos, ReadyHead, ReadyFlat, ReadyBatt, ReadyClock
  <2>9. Shows(sd, src, sim', node', offset')
    BY <1>7, <2>3, <2>4, <2>7 DEF Ready, ReadyPos, ReadyHead, ReadyFlat, ReadyClock, Shows
  <2> QED BY <1>1, <2>4, <2>8, <2>9
<1> QED BY <1>5, <1>6, <1>7

-----------------------------------------------------------------------------
(* The actions. *)

\* A step that reads through source src what it has made ready.
LEMMA ReadKeeps ==
    ASSUME SetInv, NEW src \in {"board", "held", "sim"}, NEW s, HeldIs(s), NEW h, NEW w, SimIs(w), NEW o,
           ReadWith(src, s, h, w, o),
           DOMAIN said' = Fields, Ready(said', src, s, h, w), said'.clock # NoClock => o = said'.clock,
           UNCHANGED <<now, hw>>, stash' \in BOOLEAN,
           stash' = (hw /\ src = "sim"), src = "board" => hw, src = "held" => ~hw
    PROVE  SetInv'
<1>1. Shaped
  BY DEF SetInv
<1>2. /\ source' = src /\ held' = s /\ hand' = h /\ SimIs(sim')
      /\ Ready(said', src, s, h, sim') /\ Shows(said', src, sim', node', offset')
  BY <1>1, ReadShows
<1>3. Shaped'
  BY <1>1, <1>2 DEF Shaped
<1>4. HardwareBack'
  BY <1>2 DEF HardwareBack
<1> QED BY <1>2, <1>3, <1>4 DEF SetInv

LEMMA PollKeeps == ASSUME SetInv, Poll PROVE SetInv'
<1>1. /\ ReadWith(source, held, hand, sim, offset)
      /\ UNCHANGED <<now, hw, stash, said>>
  BY DEF Poll, Read
<1>2. /\ source \in {"board", "held", "sim"} /\ HeldIs(held) /\ SimIs(sim) /\ DOMAIN said = Fields
      /\ stash \in BOOLEAN
  BY DEF SetInv, Shaped
<1>3. Ready(said, source, held, hand, sim) /\ (said.clock # NoClock => offset = said.clock)
  BY DEF SetInv, Shows
<1>4. stash = (hw /\ source = "sim") /\ (source = "board" => hw) /\ (source = "held" => ~hw)
  BY DEF SetInv, HardwareBack
<1>5. said' = said /\ stash' = stash
  BY <1>1
<1>6. DOMAIN said' = Fields /\ Ready(said', source, held, hand, sim)
      /\ (said'.clock # NoClock => offset = said'.clock)
  BY <1>2, <1>3, <1>5
<1> QED BY <1>1, <1>2, <1>4, <1>5, <1>6, ReadKeeps

\* What every one of them starts from.
LEMMA SetFacts ==
    ASSUME SetInv
    PROVE  /\ source \in {"board", "held", "sim"} /\ HeldIs(held) /\ SimIs(sim)
           /\ DOMAIN said = Fields /\ stash \in BOOLEAN /\ now \in Nat
           /\ Ready(said, source, held, hand, sim) /\ (said.clock # NoClock => offset = said.clock)
           /\ stash = (hw /\ source = "sim") /\ (source = "board" => hw) /\ (source = "held" => ~hw)
BY DEF SetInv, Shaped, Shows, HardwareBack

\* Record x is y with field f set to v.
Changed(x, y, f, v) ==
    /\ x.pos = IF f = "pos" THEN v ELSE y.pos
    /\ x.head = IF f = "head" THEN v ELSE y.head
    /\ x.flat = IF f = "flat" THEN v ELSE y.flat
    /\ x.batt = IF f = "batt" THEN v ELSE y.batt
    /\ x.clock = y.clock

LEMMA HeldChanged ==
    ASSUME NEW x, HeldIs(x), NEW f \in {"pos", "head", "flat", "batt"}, NEW v, NEW z, z = [x EXCEPT ![f] = v]
    PROVE  HeldIs(z) /\ Changed(z, x, f, v) /\ z.at = x.at
<1>1. CASE f = "pos"
  <2>1. z = [x EXCEPT !.pos = v]
    BY <1>1
  <2> QED BY <1>1, <2>1 DEF HeldIs, Changed
<1>2. CASE f = "head"
  <2>1. z = [x EXCEPT !.head = v]
    BY <1>2
  <2> QED BY <1>2, <2>1 DEF HeldIs, Changed
<1>3. CASE f = "flat"
  <2>1. z = [x EXCEPT !.flat = v]
    BY <1>3
  <2> QED BY <1>3, <2>1 DEF HeldIs, Changed
<1>4. CASE f = "batt"
  <2>1. z = [x EXCEPT !.batt = v]
    BY <1>4
  <2> QED BY <1>4, <2>1 DEF HeldIs, Changed
<1> QED BY <1>1, <1>2, <1>3, <1>4

LEMMA SimChanged ==
    ASSUME NEW x, SimIs(x), NEW f \in {"pos", "head", "flat", "batt"}, NEW v, NEW z, z = [x EXCEPT ![f] = v]
    PROVE  SimIs(z) /\ Changed(z, x, f, v) /\ z.start = x.start /\ z.motion = x.motion
<1>1. CASE f = "pos"
  <2>1. z = [x EXCEPT !.pos = v]
    BY <1>1
  <2> QED BY <1>1, <2>1 DEF SimIs, Changed
<1>2. CASE f = "head"
  <2>1. z = [x EXCEPT !.head = v]
    BY <1>2
  <2> QED BY <1>2, <2>1 DEF SimIs, Changed
<1>3. CASE f = "flat"
  <2>1. z = [x EXCEPT !.flat = v]
    BY <1>3
  <2> QED BY <1>3, <2>1 DEF SimIs, Changed
<1>4. CASE f = "batt"
  <2>1. z = [x EXCEPT !.batt = v]
    BY <1>4
  <2> QED BY <1>4, <2>1 DEF SimIs, Changed
<1> QED BY <1>1, <1>2, <1>3, <1>4

LEMMA SetKeeps == ASSUME SetInv, NEW f \in {"pos", "head", "flat", "batt"}, NEW v, Set(f, v) PROVE SetInv'
<1> USE SetFacts
<1>1. said' = [said EXCEPT ![f] = v] /\ UNCHANGED <<now, hw, stash>>
  BY DEF Set
<1>2. DOMAIN said' = Fields /\ Changed(said', said, f, v)
  BY <1>1 DEF Fields, Changed
<1>5. said'.clock # NoClock => offset = said'.clock
  BY <1>2 DEF Changed
<1>3. CASE source = "sim"
  <2> DEFINE w == [sim EXCEPT ![f] = v]
  <2>1. ReadWith(source, held, hand, w, offset)
    BY <1>3 DEF Set, Read
  <2>2. SimIs(w) /\ Changed(w, sim, f, v) /\ w.start = sim.start /\ w.motion = sim.motion
    BY SimChanged
  <2> HIDE DEF w
  <2>3. Ready(said', source, held, hand, w)
    BY <1>2, <1>3, <2>2 DEF Ready, ReadyPos, ReadyHead, ReadyFlat, ReadyBatt, ReadyClock, Changed
  <2> QED BY <1>1, <1>2, <1>5, <2>1, <2>2, <2>3, ReadKeeps
<1>4. CASE source # "sim"
  <2> DEFINE s == [held EXCEPT ![f] = v]
             h == IF source = "board" THEN hand \cup {f} ELSE hand
  <2>1. ReadWith(source, s, h, sim, offset)
    BY <1>4 DEF Set, Read
  <2>2. HeldIs(s) /\ Changed(s, held, f, v) /\ s.at = held.at
    BY HeldChanged
  <2> HIDE DEF s
  <2>3. Ready(said', source, s, h, sim)
    BY <1>2, <1>4, <2>2 DEF Ready, ReadyPos, ReadyHead, ReadyFlat, ReadyBatt, ReadyClock, Changed
  <2> HIDE DEF h
  <2> QED BY <1>1, <1>2, <1>5, <2>1, <2>2, <2>3, ReadKeeps
<1> QED BY <1>3, <1>4

LEMMA ClearPositionKeeps == ASSUME SetInv, ClearPosition PROVE SetInv'
<1> USE SetFacts
<1>1. said' = [said EXCEPT !.pos = None] /\ UNCHANGED <<now, hw, stash>>
  BY DEF ClearPosition
<1>2. DOMAIN said' = Fields /\ said'.pos = None /\ said'.head = said.head /\ said'.flat = said.flat
      /\ said'.batt = said.batt /\ said'.clock = said.clock
  BY <1>1 DEF Fields
<1>3. CASE source = "sim"
  <2> DEFINE w == [sim EXCEPT !.pos = None]
  <2>1. ReadWith(source, held, hand, w, offset)
    BY <1>3 DEF ClearPosition, Read
  <2>2. /\ SimIs(w) /\ w.head = sim.head /\ w.flat = sim.flat /\ w.batt = sim.batt
        /\ w.clock = sim.clock /\ w.start = sim.start /\ w.motion = sim.motion
    BY DEF SimIs
  <2> HIDE DEF w
  <2>3. Ready(said', source, held, hand, w)
    BY <1>2, <1>3, <2>2 DEF Ready, ReadyPos, ReadyHead, ReadyFlat, ReadyBatt, ReadyClock
  <2> QED BY <1>1, <1>2, <2>1, <2>2, <2>3, ReadKeeps
<1>4. CASE source # "sim"
  <2> DEFINE s == [held EXCEPT !.pos = None]
             h == hand \ {"pos"}
  <2>1. ReadWith(source, s, h, sim, offset)
    BY <1>4 DEF ClearPosition, Read
  <2>2. /\ HeldIs(s) /\ s.head = held.head /\ s.flat = held.flat /\ s.batt = held.batt
        /\ s.clock = held.clock /\ s.at = held.at
    BY DEF HeldIs
  <2> HIDE DEF s
  <2>3. Ready(said', source, s, h, sim)
    BY <1>2, <1>4, <2>2 DEF Ready, ReadyPos, ReadyHead, ReadyFlat, ReadyBatt, ReadyClock
  <2> HIDE DEF h
  <2> QED BY <1>1, <1>2, <2>1, <2>2, <2>3, ReadKeeps
<1> QED BY <1>3, <1>4

LEMMA SetClockKeeps == ASSUME SetInv, NEW o \in Ahead, SetClock(o) PROVE SetInv'
<1> USE SetFacts
<1>1. said' = [said EXCEPT !.clock = o] /\ UNCHANGED <<now, hw, stash>>
  BY DEF SetClock
<1>2. DOMAIN said' = Fields /\ said'.clock = o /\ said'.pos = said.pos /\ said'.head = said.head
      /\ said'.flat = said.flat /\ said'.batt = said.batt
  BY <1>1 DEF Fields
<1>3. o \in Int /\ now \in Int
  BY Constants
<1>4. CASE source = "sim"
  <2>4. PICK w : w = [sim EXCEPT !.clock = (now + o) - (now - sim.start)]
    OBVIOUS
  <2>1. ReadWith(source, held, hand, w, o)
    BY <1>4, <2>4, Zenon DEF SetClock
  <2>2. SimIs(w) /\ w.pos = sim.pos /\ w.head = sim.head /\ w.flat = sim.flat /\ w.motion = sim.motion
        /\ w.clock - w.start = o
    BY <1>3, <2>4 DEF SimIs
  <2>3. Ready(said', source, held, hand, w)
    BY <1>2, <1>4, <2>2 DEF Ready, ReadyPos, ReadyHead, ReadyFlat, ReadyBatt, ReadyClock
  <2> QED BY <1>1, <1>2, <2>1, <2>2, <2>3, ReadKeeps
<1>5. CASE source # "sim"
  <2>4. PICK s : s = [held EXCEPT !.clock = now + o, !.at = now]
    OBVIOUS
  <2> DEFINE h == IF source = "board" THEN hand \cup {"clock"} ELSE hand
  <2>1. ReadWith(source, s, h, sim, o)
    BY <1>5, <2>4, Zenon DEF SetClock
  <2>2. HeldIs(s) /\ s.pos = held.pos /\ s.head = held.head /\ s.flat = held.flat /\ s.batt = held.batt
        /\ s.clock - s.at = o
    <3>1. PICK c \in Int : c = now + o
      BY <1>3
    <3>2. s = [held EXCEPT !.clock = c, !.at = now]
      BY <2>4, <3>1
    <3>3. HeldIs(s) /\ s.pos = held.pos /\ s.head = held.head /\ s.flat = held.flat /\ s.batt = held.batt
          /\ s.clock = c /\ s.at = now
      BY <1>3, <3>2 DEF HeldIs
    <3> QED BY <1>3, <3>1, <3>3
  <2>3. Ready(said', source, s, h, sim)
    BY <1>2, <1>5, <2>2 DEF Ready, ReadyPos, ReadyHead, ReadyFlat, ReadyBatt, ReadyClock
  <2> HIDE DEF h
  <2> QED BY <1>1, <1>2, <2>1, <2>2, <2>3, ReadKeeps
<1> QED BY <1>4, <1>5

\* Nothing asked for is always shown.
LEMMA NothingAsked ==
    /\ DOMAIN Nothing = Fields /\ Nothing.clock = NoClock
    /\ \A src, s, h, w : Ready(Nothing, src, s, h, w)
<1>1. DOMAIN Nothing = Fields /\ Nothing.pos = None /\ Nothing.head = None /\ Nothing.flat = None
      /\ Nothing.batt = None /\ Nothing.clock = NoClock
  BY DEF Nothing, Fields
<1> QED BY <1>1 DEF Ready, ReadyPos, ReadyHead, ReadyFlat, ReadyBatt, ReadyClock

LEMMA StartSimKeeps == ASSUME SetInv, NEW m \in Motions, NEW v, StartSim(m, v) PROVE SetInv'
<1> USE SetFacts
<1> m \in {"still", "walk", "drive"}
  BY DEF Motions
<1>1. UNCHANGED <<now, hw>>
  BY DEF StartSim
<1>2. CASE source = "sim"
  <2>6. PICK w : w = [sim EXCEPT !.motion = m, !.head = v]
    OBVIOUS
  <2>1. ReadWith(source, held, hand, w, offset)
    BY <1>2, <2>6, Zenon DEF StartSim, Read
  <2>2. said' = [said EXCEPT !.head = None, !.pos = None] /\ stash' = stash
    BY <1>2 DEF StartSim
  <2>3. DOMAIN said' = Fields /\ said'.pos = None /\ said'.head = None /\ said'.flat = said.flat
        /\ said'.batt = said.batt /\ said'.clock = said.clock
    BY <2>2 DEF Fields
  <2>4. SimIs(w) /\ w.flat = sim.flat /\ w.clock = sim.clock /\ w.start = sim.start
    BY <2>6 DEF SimIs
  <2>5. Ready(said', source, held, hand, w)
    BY <1>2, <2>3, <2>4 DEF Ready, ReadyPos, ReadyHead, ReadyFlat, ReadyBatt, ReadyClock
  <2> QED BY <1>1, <2>1, <2>2, <2>3, <2>4, <2>5, ReadKeeps
<1>3. CASE source # "sim"
  <2> DEFINE w == [pos |-> node.pos, head |-> v, flat |-> node.flat, batt |-> node.batt,
                   clock |-> NoClock, start |-> now, motion |-> m]
  <2>1. ReadWith("sim", held, hand, w, offset) /\ stash' = (source = "board") /\ said' = Nothing
    BY <1>3 DEF StartSim, SetSensors, Read
  <2>2. SimIs(w)
    BY Constants DEF SimIs
  <2> HIDE DEF w
  <2>3. stash' \in BOOLEAN /\ stash' = hw
    BY <1>3, <2>1 DEF SetInv, Shaped
  <2>4. DOMAIN said' = Fields /\ said'.clock = NoClock /\ Ready(said', "sim", held, hand, w)
    BY <2>1, NothingAsked
  <2> QED BY <1>1, <2>1, <2>2, <2>3, <2>4, ReadKeeps
<1> QED BY <1>2, <1>3

LEMMA StopSimKeeps == ASSUME SetInv, StopSim PROVE SetInv'
<1> USE SetFacts
<1>1. UNCHANGED <<now, hw>> /\ said' = Nothing /\ source = "sim" /\ stash' = FALSE
  BY DEF StopSim, SetSensors
<1>2. SimIs(NoSim)
  BY Constants DEF NoSim, SimIs
<1>3. \A src, s, h, w : Ready(said', src, s, h, w)
  BY <1>1, NothingAsked
<1>4. DOMAIN said' = Fields /\ said'.clock = NoClock
  BY <1>1, NothingAsked
<1>5. CASE stash
  <2>1. ReadWith("board", held, hand, NoSim, offset)
    BY <1>5 DEF StopSim, SetSensors, Read
  <2>2. Ready(said', "board", held, hand, NoSim) /\ hw
    BY <1>3, <1>5
  <2> QED BY <1>1, <1>2, <1>4, <2>1, <2>2, ReadKeeps
<1>6. CASE ~stash
  <2> DEFINE s == [pos |-> node.pos, head |-> node.head, flat |-> node.flat,
                   batt |-> node.batt, clock |-> NoClock, at |-> now]
  <2>1. ReadWith("held", s, hand, NoSim, offset)
    BY <1>6 DEF StopSim, SetSensors, Read
  <2>2. HeldIs(s)
    BY Constants DEF HeldIs
  <2> HIDE DEF s
  <2>3. Ready(said', "held", s, hand, NoSim) /\ ~hw
    BY <1>1, <1>3, <1>6 DEF SetInv, Shaped
  <2> QED BY <1>1, <1>2, <1>4, <2>1, <2>2, <2>3, ReadKeeps
<1> QED BY <1>5, <1>6

LEMMA SetStep == SetInv /\ [Next]_vars => SetInv'
<1> SUFFICES ASSUME SetInv, [Next]_vars PROVE SetInv'
  OBVIOUS
<1>1. CASE PassTime
  <2>1. now' \in Nat /\ UNCHANGED <<hw, source, stash, held, hand, sim, node, offset, said>>
    BY <1>1 DEF PassTime, SetInv, Shaped
  <2> QED BY <2>1 DEF SetInv, Shaped, HardwareBack
<1>2. CASE Poll
  BY <1>2, PollKeeps
<1>3. CASE ClearPosition
  BY <1>3, ClearPositionKeeps
<1>4. CASE StopSim
  BY <1>4, StopSimKeeps
<1>5. CASE CalibrateMag
  BY <1>5 DEF CalibrateMag, SetInv, Shaped, HardwareBack
<1>6. ASSUME NEW v \in Hand, SetPosition(v) \/ SetHeading(v) \/ SetBattery(v) PROVE SetInv'
  BY <1>6, SetKeeps DEF SetPosition, SetHeading, SetBattery
<1>7. ASSUME NEW v \in Poses, SetFlat(v) PROVE SetInv'
  BY <1>7, SetKeeps DEF SetFlat
<1>8. ASSUME NEW o \in Ahead, SetClock(o) PROVE SetInv'
  BY <1>8, SetClockKeeps
<1>9. ASSUME NEW m \in Motions, NEW v \in Hand, StartSim(m, v) PROVE SetInv'
  BY <1>9, StartSimKeeps
<1>10. CASE UNCHANGED vars
  BY <1>10 DEF vars, SetInv, Shaped, HardwareBack
<1> QED BY <1>1, <1>2, <1>3, <1>4, <1>5, <1>6, <1>7, <1>8, <1>9, <1>10 DEF Next

\* A board's own parts come back after every simulation (Node.StopSim), however
\* often it was started, steered and set.
THEOREM HardwareBackHolds == Spec => []HardwareBack
<1>1. SetInv => HardwareBack
  BY DEF SetInv
<1> QED BY <1>1, SetInit, SetStep, PTL DEF Spec

\* What an operator set on the source being read is what the node reports
\* (Node.SetPosition and its siblings), whatever the parts of the board say.
THEOREM CommandHoldsHolds == Spec => []CommandHolds
<1>1. SetInv => CommandHolds
  <2> SUFFICES ASSUME SetInv, NEW f \in Fields, said[f] # Nothing[f], ~Drifts(f)
               PROVE (IF f = "clock" THEN offset ELSE node[f]) = said[f]
    BY DEF CommandHolds
  <2>1. Nothing["pos"] = None /\ Nothing["head"] = None /\ Nothing["flat"] = None
        /\ Nothing["batt"] = None /\ Nothing["clock"] = NoClock
    BY DEF Nothing, Fields
  <2>2. Shows(said, source, sim, node, offset)
    BY DEF SetInv
  <2> QED BY <2>1, <2>2 DEF Shows, Fields, Drifts
<1> QED BY <1>1, SetInit, SetStep, PTL DEF Spec

-----------------------------------------------------------------------------
(* What the node says of itself is what its parts measured. *)

Headings == Bearings \ {"zero"}
Levels == Charges \ {"zero"}

\* A held and a simulated reading at time n, and what a node makes of them.
HeldOK(s, n) ==
    /\ HeldIs(s) /\ s.pos \in Spots /\ s.head \in Headings /\ s.flat \in Poses /\ s.batt \in Levels
    /\ s.at \in 0 .. n /\ (s.clock = NoClock \/ s.clock - s.at \in Ahead)

SimOK(w, n) ==
    /\ SimIs(w) /\ w.pos \in Spots /\ w.head \in Headings /\ w.flat \in Poses /\ w.batt \in Levels
    /\ w.start \in 0 .. n /\ (w.clock = NoClock \/ w.clock - w.start \in Ahead)
    /\ w.motion \in {"still", "walk", "drive"}

NodeOK(r) == r \in [pos : Spots, head : Headings, flat : Poses, batt : Levels]

OffsetOK(o) == o \in {NoClock, 0} \cup Ahead

\* A place the receiver names that is not believed was first named after the
\* last fix, and last named within a minute of it.
FixOK(f, st, n) ==
    /\ f \in [place : Sky \cup {None}, at : 0 .. n, time : 0 .. n \cup {NoClock}] /\ f.time \in {f.at, NoClock}
    /\ st \in [place : Sky \cup {None}, since : 0 .. n, last : 0 .. n]
    /\ f.place # st.place => f.at <= st.since /\ st.last - f.at <= Minute

\* No sign of another pose since the one the tracker argues for.
Tracks(n) ==
    [is : Poses \cup {"unknown"}, since : Never .. n, wants : Poses \cup {"unknown"}, from : Never .. n]

TrackOK(t, sw, n) ==
    /\ t \in Tracks(n)
    /\ sw \in [Poses -> Never .. n]
    /\ t.wants \in Poses => sw[t.wants] <= t.from

CompassOK(c) ==
    /\ c \in [calibrated : BOOLEAN, have : BOOLEAN, heading : {"zero", "mag"}]
    /\ c.have => c.heading = "mag"

Ambient ==
    /\ kit \in Kits /\ now \in 0 .. MaxNow /\ hw \in BOOLEAN /\ stash \in BOOLEAN
    /\ source \in {"board", "held", "sim"} /\ hand \subseteq Fields

BoardOK ==
    /\ FixOK(fix, steady, now) /\ TrackOK(tracker, swayed, now) /\ CompassOK(compass)
    /\ cell \in {"zero", "chip"} /\ cal \in Never .. MaxNow + CalFor

HonestInv ==
    /\ Ambient /\ HeldOK(held, now) /\ SimOK(sim, now) /\ NodeOK(node) /\ OffsetOK(offset)
    /\ BoardOK /\ ClockTrue

LEMMA Bounds == /\ MaxNow \in Nat /\ Minute \in Nat /\ CalFor \in Nat
                /\ Dwell \in [Poses -> Nat] /\ Hold \in [Poses \cup {"unknown"} -> Nat]
BY SensorsAssumption

LEMMA DrainKeeps ==
    ASSUME now \in Nat, FixOK(fix, steady, now), Drain
    PROVE  FixOK(fix', steady', now)
<1>1. Minute \in Nat
  BY Bounds
<1>2. CASE UNCHANGED <<fix, steady>>
  BY <1>2
<1>3. ASSUME NEW place \in Sky, NEW time \in {now, NoClock}, Consume(place, time) PROVE FixOK(fix', steady', now)
  <2>1. /\ steady'.place = place /\ steady'.last = now
        /\ steady'.since = IF steady.place = place THEN steady.since ELSE now
        /\ steady' \in [place : Sky \cup {None}, since : 0 .. now, last : 0 .. now]
    BY <1>3 DEF Consume, FixOK
  <2>2. CASE fix.place \in {None, place} \/ Plausible(now - fix.at)
    <3>1. fix' = [place |-> place, at |-> now, time |-> time]
      BY <1>3, <2>2 DEF Consume
    <3> QED BY <2>1, <3>1 DEF FixOK
  <2>3. CASE ~(fix.place \in {None, place} \/ Plausible(now - fix.at))
    <3>1. fix' = fix
      BY <1>3, <2>3 DEF Consume
    <3>2. fix.at \in 0 .. now /\ now - fix.at <= Minute
      BY <1>1, <2>3 DEF FixOK, Plausible
    <3>3. fix.at <= steady'.since
      BY <2>1, <2>3, <3>2 DEF FixOK
    <3> QED BY <2>1, <3>1, <3>2, <3>3 DEF FixOK
  <2> QED BY <2>2, <2>3
<1> QED BY <1>2, <1>3 DEF Drain

\* A change of pose that has waited for its own dwell time and the other's.
SteadyStep ==
    tracker'.is # tracker.is =>
        /\ swayed[tracker'.is] = Never \/ now - swayed[tracker'.is] >= Dwell[tracker'.is]
        /\ tracker.since = Never \/ now - tracker.since >= Hold[tracker.is]

\* A tracker that takes up pose p at time m, and one that settles on it.
TakesUp(x, p, m) == [x EXCEPT !.wants = p, !.from = m]
Settles(x, p, m) == [x EXCEPT !.is = p, !.since = m]

LEMMA TrackSet ==
    ASSUME NEW n, NEW x \in Tracks(n), NEW p \in Poses, NEW m \in Never .. n
    PROVE  /\ TakesUp(x, p, m) \in Tracks(n) /\ Settles(x, p, m) \in Tracks(n)
           /\ TakesUp(x, p, m).is = x.is /\ TakesUp(x, p, m).since = x.since
           /\ TakesUp(x, p, m).wants = p /\ TakesUp(x, p, m).from = m
           /\ Settles(x, p, m).is = p /\ Settles(x, p, m).wants = x.wants /\ Settles(x, p, m).from = x.from
<1>2. PICK S : S = Never .. n
  OBVIOUS
<1>3. x \in [is : Poses \cup {"unknown"}, since : S, wants : Poses \cup {"unknown"}, from : S] /\ m \in S
  BY <1>2 DEF Tracks
<1>4. PICK y : y = TakesUp(x, p, m)
  OBVIOUS
<1>5. y \in [is : Poses \cup {"unknown"}, since : S, wants : Poses \cup {"unknown"}, from : S]
      /\ y.is = x.is /\ y.since = x.since /\ y.wants = p /\ y.from = m
  BY <1>3, <1>4 DEF TakesUp
<1>6. PICK z : z = Settles(x, p, m)
  OBVIOUS
<1>7. z \in [is : Poses \cup {"unknown"}, since : S, wants : Poses \cup {"unknown"}, from : S]
      /\ z.is = p /\ z.wants = x.wants /\ z.from = x.from
  BY <1>3, <1>6 DEF Settles
<1> QED BY <1>2, <1>4, <1>5, <1>6, <1>7 DEF Tracks

LEMMA PoseKeeps ==
    ASSUME now \in Nat, TrackOK(tracker, swayed, now), NEW h, ReadIMU(h)
    PROVE  TrackOK(tracker', swayed', now) /\ SteadyStep
<1>1. CASE UNCHANGED <<tracker, swayed>>
  BY <1>1 DEF SteadyStep
<1>2. ASSUME NEW pose \in Poses \cup {"unknown"}, ReadPose(pose)
      PROVE  TrackOK(tracker', swayed', now) /\ SteadyStep
  <2>1. PICK t : t = Argued(pose)
    OBVIOUS
  <2> now \in Never .. now
    BY DEF Never
  <2> /\ tracker \in Tracks(now) /\ swayed \in [Poses -> Never .. now]
      /\ tracker.wants \in Poses => swayed[tracker.wants] <= tracker.from
    BY DEF TrackOK
  <2>2. /\ t \in Tracks(now) /\ t.is = tracker.is /\ t.since = tracker.since
        /\ pose \in Poses => t.wants = pose
        /\ t.wants \in Poses => swayed[t.wants] <= t.from
    <3>1. CASE pose \in Poses /\ pose # tracker.wants
      <4>1. t = TakesUp(tracker, pose, now)
        BY <2>1, <3>1 DEF Argued, TakesUp, Poses
      <4>2. t \in Tracks(now) /\ t.is = tracker.is /\ t.since = tracker.since /\ t.wants = pose /\ t.from = now
        BY <3>1, <4>1, TrackSet
      <4>3. swayed[pose] \in Never .. now
        BY <3>1
      <4> QED BY <4>2, <4>3 DEF Never
    <3>2. CASE pose \in {"unknown", tracker.wants}
      <4>1. t = tracker
        BY <2>1, <3>2 DEF Argued
      <4> QED BY <3>2, <4>1 DEF Poses
    <3> QED BY <3>1, <3>2
  <2>3. /\ tracker' = IF Commits(t) THEN [t EXCEPT !.is = t.wants, !.since = now] ELSE t
        /\ swayed' = [p \in Poses |-> IF pose \notin {"unknown", p} THEN now ELSE swayed[p]]
    BY <1>2, <2>1 DEF ReadPose
  <2>4. swayed' \in [Poses -> Never .. now] /\ (t.wants \in Poses => swayed'[t.wants] = swayed[t.wants])
    BY <2>2, <2>3
  <2>5. CASE Commits(t)
    <3>0. t.wants \in Poses
      BY <2>2, <2>5 DEF Commits, Tracks
    <3>1. tracker' \in Tracks(now) /\ tracker'.is = t.wants /\ tracker'.wants = t.wants /\ tracker'.from = t.from
      <4>1. tracker' = Settles(t, t.wants, now)
        BY <2>3, <2>5 DEF Settles
      <4> QED BY <2>2, <3>0, <4>1, TrackSet
    <3>2. /\ now - t.from >= Dwell[t.wants]
          /\ tracker.since = Never \/ now - tracker.since >= Hold[tracker.is]
      BY <2>2, <2>5 DEF Commits
    <3>3. t.from \in Int /\ swayed[t.wants] \in Int /\ Dwell[t.wants] \in Int
      BY <2>2, <3>0, Bounds DEF Tracks, Never
    <3>4. now - swayed[t.wants] >= Dwell[t.wants]
      BY <2>2, <3>0, <3>2, <3>3
    <3>5. TrackOK(tracker', swayed', now)
      BY <2>2, <2>4, <3>0, <3>1 DEF TrackOK
    <3> QED BY <3>1, <3>2, <3>4, <3>5 DEF SteadyStep
  <2>6. CASE ~Commits(t)
    BY <2>2, <2>3, <2>4, <2>6 DEF TrackOK, SteadyStep
  <2> QED BY <2>5, <2>6
<1> QED BY <1>1, <1>2 DEF ReadIMU

LEMMA CompassKeeps ==
    ASSUME CompassOK(compass), cal \in Never .. MaxNow + CalFor, NEW h, ReadCompass(h)
    PROVE  CompassOK(compass') /\ cal' \in Never .. MaxNow + CalFor
<1>1. Never \in Never .. MaxNow + CalFor
  BY Bounds DEF Never
<1>2. cal' \in Never .. MaxNow + CalFor
  BY <1>1 DEF ReadCompass, EndCal
<1>3. \/ compass' = compass
      \/ compass' = [compass EXCEPT !.calibrated = TRUE, !.have = FALSE]
      \/ compass' = [compass EXCEPT !.have = TRUE, !.heading = "mag"]
  BY DEF ReadCompass, EndCal
<1>4. CASE compass' = [compass EXCEPT !.calibrated = TRUE, !.have = FALSE]
  BY <1>2, <1>4 DEF CompassOK
<1>5. CASE compass' = [compass EXCEPT !.have = TRUE, !.heading = "mag"]
  BY <1>2, <1>5 DEF CompassOK
<1> QED BY <1>2, <1>3, <1>4, <1>5

\* The parts of a board stay as they are, or are read.
LEMMA BoardKeeps ==
    ASSUME now \in Nat, now' = now, BoardOK,
           NEW s, NEW h, NEW o, UNCHANGED board \/ BoardRead(s, h, o)
    PROVE  BoardOK' /\ SteadyStep
<1>1. CASE UNCHANGED board
  BY <1>1 DEF board, BoardOK, SteadyStep
<1>2. CASE BoardRead(s, h, o)
  <2>1. Drain /\ ReadIMU(h) /\ ReadCompass(h) /\ cell' \in {cell, "chip"}
    BY <1>2 DEF BoardRead, ReadCell
  <2>2. FixOK(fix', steady', now)
    BY <2>1, DrainKeeps DEF BoardOK
  <2>3. TrackOK(tracker', swayed', now) /\ SteadyStep
    BY <2>1, PoseKeeps DEF BoardOK
  <2>4. CompassOK(compass') /\ cal' \in Never .. MaxNow + CalFor
    BY <2>1, CompassKeeps DEF BoardOK
  <2> QED BY <2>1, <2>2, <2>3, <2>4 DEF BoardOK
<1> QED BY <1>1, <1>2

\* A node that reads a good reading with a good clock is good.
LEMMA NodeKeeps ==
    ASSUME NEW r, r.pos \in Spots, r.head \in Headings, r.flat \in Poses, r.batt \in Levels,
           NEW time, time = NoClock \/ time - now \in {0} \cup Ahead, NEW o, OffsetOK(o),
           NodeReads(r, time, o)
    PROVE  NodeOK(node') /\ OffsetOK(offset')
BY DEF NodeReads, NodeOK, OffsetOK

\* The clocks of a held and of a simulated reading go with the node's.
LEMMA ClockKeeps ==
    ASSUME now \in 0 .. MaxNow
    PROVE  /\ \A s : HeldOK(s, now) => HeldTime(s) = NoClock \/ HeldTime(s) - now \in {0} \cup Ahead
           /\ \A w : SimOK(w, now) => SimTime(w) = NoClock \/ SimTime(w) - now \in {0} \cup Ahead
<1>1. now \in Int
  BY Bounds
<1>2. ASSUME NEW s, HeldOK(s, now), s.clock # NoClock PROVE (s.clock + (now - s.at)) - now \in Ahead
  <2>1. s.clock \in Int /\ s.at \in Int /\ s.clock - s.at \in Ahead
    BY <1>2 DEF HeldOK, HeldIs
  <2>2. (s.clock + (now - s.at)) - now = s.clock - s.at
    BY <1>1, <2>1
  <2> QED BY <2>1, <2>2
<1>3. ASSUME NEW w, SimOK(w, now), w.clock # NoClock PROVE (w.clock + (now - w.start)) - now \in Ahead
  <2>1. w.clock \in Int /\ w.start \in Int /\ w.clock - w.start \in Ahead
    BY <1>3 DEF SimOK, SimIs
  <2>2. (w.clock + (now - w.start)) - now = w.clock - w.start
    BY <1>1, <2>1
  <2> QED BY <2>1, <2>2
<1> QED BY <1>1, <1>2, <1>3 DEF HeldTime, SimTime

\* What the parts of a board, read or not, may report.
LEMMA BoardReports ==
    ASSUME now \in 0 .. MaxNow, BoardOK', now' = now, NEW s, HeldOK(s, now), NEW h, NEW o, OffsetOK(o),
           BoardRead(s, h, o)
    PROVE  /\ NodeOK(node') /\ OffsetOK(offset')
           /\ fix'.place # None /\ fix'.time # NoClock /\ h \cap {"pos", "clock"} = {} => offset' = 0
<1> DEFINE placed == fix'.place # None /\ "pos" \notin h
           r == [pos |-> IF placed THEN fix'.place ELSE s.pos,
                 head |-> IF compass'.calibrated /\ "head" \notin h /\ compass'.have
                          THEN compass'.heading ELSE s.head,
                 flat |-> IF "flat" \notin h THEN Carried(tracker'.is) ELSE s.flat,
                 batt |-> IF "batt" \notin h /\ cell' # "zero" THEN cell' ELSE s.batt]
           time == IF placed THEN FixTime(fix', h) ELSE HeldTime(s)
<1>1. NodeReads(r, time, o)
  BY DEF BoardRead
<1>2. now \in Int /\ NoClock \in Int /\ NoClock < 0 /\ now >= 0
  BY Constants
<1>3. /\ fix'.place \in Sky \cup {None} /\ fix'.at \in Int /\ fix'.time \in {fix'.at, NoClock}
      /\ tracker'.is \in Poses \cup {"unknown"} /\ cell' \in {"zero", "chip"}
      /\ compass'.have => compass'.heading = "mag"
  BY DEF BoardOK, FixOK, TrackOK, Tracks, CompassOK
<1>4. r.pos \in Spots
  BY <1>3 DEF HeldOK, Spots
<1>5. r.head \in Headings
  BY <1>3 DEF HeldOK, Headings, Bearings
<1>6. r.flat \in Poses
  BY <1>3 DEF HeldOK, Carried, Poses
<1>7. r.batt \in Levels
  BY <1>3 DEF HeldOK, Levels, Charges
<1>8. FixTime(fix', h) = NoClock \/ FixTime(fix', h) - now = 0
  BY <1>2, <1>3 DEF FixTime
<1>9. time = NoClock \/ time - now \in {0} \cup Ahead
  BY <1>8, ClockKeeps
<1>10. ASSUME placed, fix'.time # NoClock, "clock" \notin h PROVE offset' = 0
  <2>1. time = fix'.time + (now - fix'.at)
    BY <1>10 DEF FixTime
  <2>2. time = now
    BY <1>2, <1>3, <1>10, <2>1
  <2> HIDE DEF time
  <2> QED BY <1>1, <1>2, <2>2 DEF NodeReads
<1> HIDE DEF r, time
<1>11. NodeOK(node') /\ OffsetOK(offset')
  BY <1>1, <1>4, <1>5, <1>6, <1>7, <1>9, NodeKeeps
<1> QED BY <1>10, <1>11

\* A read through source src, with everything it reads good.
LEMMA ReadHonest ==
    ASSUME Ambient, BoardOK, NEW src \in {"board", "held", "sim"}, NEW s, HeldOK(s, now),
           NEW h \in SUBSET Fields, NEW w, SimOK(w, now), NEW o, OffsetOK(o),
           ReadWith(src, s, h, w, o), UNCHANGED <<kit, now, hw>>, stash' \in BOOLEAN
    PROVE  HonestInv' /\ SteadyStep
<1>1. source' = src /\ held' = s /\ hand' = h
  BY DEF ReadWith
<1>2. now \in 0 .. MaxNow /\ now \in Nat /\ now' = now
  BY Bounds DEF Ambient
<1>3. Ambient'
  BY <1>1 DEF Ambient
<1>4. UNCHANGED board \/ BoardRead(s, h, o)
  BY DEF ReadWith, StaticRead, SimRead
<1>5. BoardOK' /\ SteadyStep
  BY <1>2, <1>4, BoardKeeps
<1>6. /\ SimOK(sim', now) /\ NodeOK(node') /\ OffsetOK(offset')
      /\ src = "board" /\ fix'.place # None /\ fix'.time # NoClock /\ h \cap {"pos", "clock"} = {} => offset' = 0
  <2>1. CASE src = "held"
    <3>1. NodeReads(s, HeldTime(s), o) /\ sim' = w
      BY <2>1 DEF ReadWith, StaticRead
    <3>2. s.pos \in Spots /\ s.head \in Headings /\ s.flat \in Poses /\ s.batt \in Levels
      BY DEF HeldOK
    <3>3. HeldTime(s) = NoClock \/ HeldTime(s) - now \in {0} \cup Ahead
      BY <1>2, ClockKeeps
    <3>4. NodeOK(node') /\ OffsetOK(offset')
      BY <3>1, <3>2, <3>3, NodeKeeps
    <3> QED BY <2>1, <3>1, <3>4
  <2>2. CASE src = "board"
    <3>1. BoardRead(s, h, o) /\ sim' = w
      BY <2>2 DEF ReadWith
    <3> QED BY <1>2, <1>5, <3>1, BoardReports
  <2>3. CASE src = "sim"
    <3>0. SimRead(w, o)
      BY <2>3 DEF ReadWith
    <3>1. PICK p \in IF w.motion = "still" \/ w.pos = None THEN {w.pos} ELSE {w.pos, "moved"},
               e \in Course(w),
               b \in IF "batt" \in kit THEN {w.batt, "drained"} ELSE {w.batt} :
             LET x == [w EXCEPT !.pos = p, !.head = e, !.batt = b]
             IN  sim' = x /\ NodeReads(x, SimTime(x), o)
      BY <3>0 DEF SimRead
    <3>2. sim' = [w EXCEPT !.pos = p, !.head = e, !.batt = b]
      BY <3>1
    <3>3. SimIs(w)
      BY DEF SimOK
    <3>4. /\ SimIs(sim') /\ sim'.pos = p /\ sim'.head = e /\ sim'.batt = b /\ sim'.flat = w.flat
          /\ sim'.clock = w.clock /\ sim'.start = w.start /\ sim'.motion = w.motion
      BY <3>2, <3>3 DEF SimIs
    <3>5. p \in Spots /\ e \in Headings /\ b \in Levels
      BY DEF SimOK, SimIs, Course, Spots, Headings, Levels, Bearings, Charges
    <3>6. SimOK(sim', now)
      BY <3>4, <3>5 DEF SimOK
    <3>7. SimTime(sim') = NoClock \/ SimTime(sim') - now \in {0} \cup Ahead
      BY <1>2, <3>6, ClockKeeps
    <3>8. NodeReads(sim', SimTime(sim'), o)
      BY <3>1
    <3>9. NodeOK(node') /\ OffsetOK(offset')
      BY <3>4, <3>5, <3>6, <3>7, <3>8, NodeKeeps DEF SimOK
    <3> QED BY <2>3, <3>6, <3>9
  <2> QED BY <2>1, <2>2, <2>3
<1>7. ClockTrue'
  BY <1>1, <1>6 DEF ClockTrue
<1>8. HeldOK(held', now') /\ SimOK(sim', now')
  BY <1>1, <1>2, <1>6
<1> QED BY <1>3, <1>5, <1>6, <1>7, <1>8 DEF HonestInv

LEMMA HonestInit == Init => HonestInv
<1> SUFFICES ASSUME Init PROVE HonestInv
  OBVIOUS
<1>1. 0 \in 0 .. MaxNow /\ NoClock \in Int
  BY Bounds, Constants
<1>2. Ambient
  BY <1>1 DEF Init, Ambient
<1>3. HeldOK(held, now)
  BY <1>1, SensorsAssumption DEF Init, HeldOK, HeldIs, Spots, Headings, Bearings, Levels, Charges, Poses
<1>4. SimOK(sim, now)
  BY <1>1, SensorsAssumption DEF Init, NoSim, SimOK, SimIs, Spots, Headings, Bearings, Levels, Charges, Poses
<1>5. NodeOK(node) /\ OffsetOK(offset)
  BY SensorsAssumption DEF Init, NodeOK, OffsetOK, Spots, Headings, Bearings, Levels, Charges, Poses
<1>6. FixOK(fix, steady, now)
  BY DEF Init, FixOK
<1>7. TrackOK(tracker, swayed, now)
  BY DEF Init, TrackOK, Tracks, Poses, Never
<1>8. CompassOK(compass) /\ cell \in {"zero", "chip"} /\ cal \in Never .. MaxNow + CalFor
  BY Bounds DEF Init, CompassOK, Never
<1>9. ClockTrue
  BY DEF Init, ClockTrue
<1> QED BY <1>2, <1>3, <1>4, <1>5, <1>6, <1>7, <1>8, <1>9 DEF HonestInv, BoardOK

\* What every action starts from.
LEMMA HonestFacts ==
    ASSUME HonestInv
    PROVE  /\ Ambient /\ BoardOK /\ HeldOK(held, now) /\ SimOK(sim, now) /\ OffsetOK(offset) /\ NodeOK(node)
           /\ source \in {"board", "held", "sim"} /\ hand \in SUBSET Fields /\ stash \in BOOLEAN
           /\ now \in 0 .. MaxNow /\ now \in Nat /\ MaxNow \in Nat
BY Bounds DEF HonestInv, Ambient

LEMMA SetHonest ==
    ASSUME HonestInv, NEW f \in {"pos", "head", "flat", "batt"},
           NEW v, v \in (IF f = "flat" THEN Poses ELSE Hand), Set(f, v)
    PROVE  HonestInv' /\ SteadyStep
<1> USE HonestFacts
<1>1. UNCHANGED <<kit, now, hw>> /\ stash' \in BOOLEAN
  BY DEF Set
<1>2. /\ f = "pos" => v \in Spots
      /\ f = "head" => v \in Headings
      /\ f = "batt" => v \in Levels
      /\ f = "flat" => v \in Poses
  BY SensorsAssumption DEF Spots, Headings, Bearings, Levels, Charges
<1>3. CASE source = "sim"
  <2> DEFINE w == [sim EXCEPT ![f] = v]
  <2>1. ReadWith(source, held, hand, w, offset)
    BY <1>3 DEF Set, Read
  <2>2. SimIs(w) /\ Changed(w, sim, f, v) /\ w.start = sim.start /\ w.motion = sim.motion
    BY SimChanged DEF SimOK
  <2> HIDE DEF w
  <2>3. SimOK(w, now)
    BY <1>2, <2>2 DEF SimOK, Changed
  <2> QED BY <1>1, <2>1, <2>3, ReadHonest
<1>4. CASE source # "sim"
  <2> DEFINE s == [held EXCEPT ![f] = v]
             h == IF source = "board" THEN hand \cup {f} ELSE hand
  <2>1. ReadWith(source, s, h, sim, offset)
    BY <1>4 DEF Set, Read
  <2>2. HeldIs(s) /\ Changed(s, held, f, v) /\ s.at = held.at
    BY HeldChanged DEF HeldOK
  <2>3. h \in SUBSET Fields
    BY DEF Fields
  <2> HIDE DEF s, h
  <2>4. HeldOK(s, now)
    BY <1>2, <2>2 DEF HeldOK, Changed
  <2> QED BY <1>1, <2>1, <2>3, <2>4, ReadHonest
<1> QED BY <1>3, <1>4

LEMMA ClearPositionHonest == ASSUME HonestInv, ClearPosition PROVE HonestInv' /\ SteadyStep
<1> USE HonestFacts
<1>1. UNCHANGED <<kit, now, hw>> /\ stash' \in BOOLEAN
  BY DEF ClearPosition
<1>2. None \in Spots
  BY DEF Spots
<1>3. CASE source = "sim"
  <2> DEFINE w == [sim EXCEPT !["pos"] = None]
  <2>1. ReadWith(source, held, hand, w, offset)
    BY <1>3 DEF ClearPosition, Read
  <2>2. SimIs(w) /\ Changed(w, sim, "pos", None) /\ w.start = sim.start /\ w.motion = sim.motion
    BY SimChanged DEF SimOK
  <2> HIDE DEF w
  <2>3. SimOK(w, now)
    BY <1>2, <2>2 DEF SimOK, Changed
  <2> QED BY <1>1, <2>1, <2>3, ReadHonest
<1>4. CASE source # "sim"
  <2> DEFINE s == [held EXCEPT !["pos"] = None]
             h == hand \ {"pos"}
  <2>1. ReadWith(source, s, h, sim, offset)
    BY <1>4 DEF ClearPosition, Read
  <2>2. HeldIs(s) /\ Changed(s, held, "pos", None) /\ s.at = held.at
    BY HeldChanged DEF HeldOK
  <2>3. h \in SUBSET Fields
    OBVIOUS
  <2> HIDE DEF s, h
  <2>4. HeldOK(s, now)
    BY <1>2, <2>2 DEF HeldOK, Changed
  <2> QED BY <1>1, <2>1, <2>3, <2>4, ReadHonest
<1> QED BY <1>3, <1>4

LEMMA SetClockHonest == ASSUME HonestInv, NEW o \in Ahead, SetClock(o) PROVE HonestInv' /\ SteadyStep
<1> USE HonestFacts
<1>1. UNCHANGED <<kit, now, hw>> /\ stash' \in BOOLEAN
  BY DEF SetClock
<1>2. OffsetOK(o) /\ o \in Int /\ now \in Int
  BY Constants DEF OffsetOK
<1>3. CASE source = "sim"
  <2>1. PICK w : w = [sim EXCEPT !.clock = (now + o) - (now - sim.start)]
    OBVIOUS
  <2>2. ReadWith(source, held, hand, w, o)
    BY <1>3, <2>1, Zenon DEF SetClock
  <2>3. SimIs(sim)
    BY DEF SimOK
  <2>4. /\ SimIs(w) /\ w.pos = sim.pos /\ w.head = sim.head /\ w.flat = sim.flat /\ w.motion = sim.motion
        /\ w.batt = sim.batt /\ w.start = sim.start /\ w.clock - w.start = o
    BY <1>2, <2>1, <2>3 DEF SimIs
  <2>5. SimOK(w, now)
    BY <2>4 DEF SimOK
  <2> QED BY <1>1, <1>2, <2>2, <2>5, ReadHonest
<1>4. CASE source # "sim"
  <2>1. PICK s : s = [held EXCEPT !.clock = now + o, !.at = now]
    OBVIOUS
  <2> DEFINE h == IF source = "board" THEN hand \cup {"clock"} ELSE hand
  <2>2. ReadWith(source, s, h, sim, o)
    BY <1>4, <2>1, Zenon DEF SetClock
  <2>3. HeldIs(held)
    BY DEF HeldOK
  <2>4. PICK c \in Int : c = now + o
    BY <1>2
  <2>5. s = [held EXCEPT !.clock = c, !.at = now]
    BY <2>1, <2>4
  <2>6. HeldIs(s) /\ s.pos = held.pos /\ s.head = held.head /\ s.flat = held.flat /\ s.batt = held.batt
        /\ s.clock = c /\ s.at = now
    BY <1>2, <2>3, <2>5 DEF HeldIs
  <2>7. s.clock - s.at = o /\ now \in 0 .. now
    BY <1>2, <2>4, <2>6
  <2>8. HeldOK(s, now)
    BY <2>6, <2>7 DEF HeldOK
  <2>9. h \in SUBSET Fields
    BY DEF Fields
  <2> HIDE DEF h
  <2> QED BY <1>1, <1>2, <2>2, <2>8, <2>9, ReadHonest
<1> QED BY <1>3, <1>4

LEMMA StartSimHonest ==
    ASSUME HonestInv, NEW m \in Motions, NEW v \in Hand, StartSim(m, v) PROVE HonestInv' /\ SteadyStep
<1> USE HonestFacts
<1>1. UNCHANGED <<kit, now, hw>>
  BY DEF StartSim
<1>2. v \in Headings /\ m \in {"still", "walk", "drive"}
  BY SensorsAssumption DEF Headings, Bearings, Motions
<1>3. CASE source = "sim"
  <2>1. PICK w : w = [sim EXCEPT !.motion = m, !.head = v]
    OBVIOUS
  <2>2. ReadWith(source, held, hand, w, offset) /\ stash' \in BOOLEAN
    BY <1>3, <2>1, Zenon DEF StartSim, Read
  <2>3. SimIs(sim)
    BY DEF SimOK
  <2>4. /\ SimIs(w) /\ w.pos = sim.pos /\ w.head = v /\ w.flat = sim.flat /\ w.batt = sim.batt
        /\ w.clock = sim.clock /\ w.start = sim.start /\ w.motion = m
    BY <1>2, <2>1, <2>3 DEF SimIs
  <2>5. SimOK(w, now)
    BY <1>2, <2>4 DEF SimOK
  <2> QED BY <1>1, <2>2, <2>5, ReadHonest
<1>4. CASE source # "sim"
  <2> DEFINE w == [pos |-> node.pos, head |-> v, flat |-> node.flat, batt |-> node.batt,
                   clock |-> NoClock, start |-> now, motion |-> m]
  <2>1. ReadWith("sim", held, hand, w, offset) /\ stash' = (source = "board")
    BY <1>4 DEF StartSim, SetSensors, Read
  <2>2. SimIs(w) /\ now \in 0 .. now
    BY <1>2, Constants DEF SimIs
  <2>3. SimOK(w, now)
    BY <1>2, <2>2 DEF SimOK, NodeOK
  <2>4. stash' \in BOOLEAN
    BY <2>1
  <2> HIDE DEF w
  <2> QED BY <1>1, <2>1, <2>3, <2>4, ReadHonest
<1> QED BY <1>3, <1>4

LEMMA StopSimHonest == ASSUME HonestInv, StopSim PROVE HonestInv' /\ SteadyStep
<1> USE HonestFacts
<1>1. UNCHANGED <<kit, now, hw>> /\ stash' \in BOOLEAN
  BY DEF StopSim, SetSensors
<1>2. 0 \in 0 .. now /\ now \in 0 .. now /\ NoClock \in Int
  BY Constants
<1>3. SimOK(NoSim, now)
  BY <1>2, SensorsAssumption DEF NoSim, SimOK, SimIs, Spots, Headings, Bearings, Levels, Charges, Poses
<1>4. CASE stash
  <2>1. ReadWith("board", held, hand, NoSim, offset)
    BY <1>4 DEF StopSim, SetSensors, Read
  <2> QED BY <1>1, <1>3, <2>1, ReadHonest
<1>5. CASE ~stash
  <2> DEFINE s == [pos |-> node.pos, head |-> node.head, flat |-> node.flat,
                   batt |-> node.batt, clock |-> NoClock, at |-> now]
  <2>1. ReadWith("held", s, hand, NoSim, offset)
    BY <1>5 DEF StopSim, SetSensors, Read
  <2>2. HeldIs(s)
    BY <1>2 DEF HeldIs
  <2>3. HeldOK(s, now)
    BY <1>2, <2>2 DEF HeldOK, NodeOK
  <2> HIDE DEF s
  <2> QED BY <1>1, <1>3, <2>1, <2>3, ReadHonest
<1> QED BY <1>4, <1>5

\* Time passes, and nothing that was dated is later than now.
LEMMA PassTimeHonest == ASSUME HonestInv, PassTime PROVE HonestInv' /\ SteadyStep
<1> USE HonestFacts
<1>1. /\ now' = now + 1 /\ now < MaxNow
      /\ UNCHANGED <<kit, hw, source, stash, held, hand, board, sim, node, offset, said>>
  BY DEF PassTime
<1>2. now' \in 0 .. MaxNow /\ 0 .. now \subseteq 0 .. now' /\ Never .. now \subseteq Never .. now'
  BY <1>1 DEF Never
<1>3. Ambient'
  BY <1>1, <1>2 DEF Ambient
<1>4. HeldOK(held, now') /\ SimOK(sim, now')
  BY <1>2 DEF HeldOK, SimOK
<1>5. FixOK(fix, steady, now')
  <2>1. FixOK(fix, steady, now)
    BY DEF BoardOK
  <2> QED BY <1>2, <2>1 DEF FixOK
<1>6. TrackOK(tracker, swayed, now')
  <2>1. TrackOK(tracker, swayed, now)
    BY DEF BoardOK
  <2>2. tracker \in Tracks(now') /\ swayed \in [Poses -> Never .. now']
    BY <1>2, <2>1 DEF TrackOK, Tracks
  <2> QED BY <2>1, <2>2 DEF TrackOK
<1>7. UNCHANGED <<fix, cell, tracker, cal, compass, steady, swayed>>
  BY <1>1 DEF board
<1>8. BoardOK'
  BY <1>5, <1>6, <1>7 DEF BoardOK
<1>9. ClockTrue' /\ SteadyStep
  BY <1>1, <1>7 DEF HonestInv, ClockTrue, SteadyStep
<1> QED BY <1>1, <1>3, <1>4, <1>8, <1>9 DEF HonestInv

LEMMA HonestStep == HonestInv /\ [Next]_vars => HonestInv' /\ SteadyStep
<1> SUFFICES ASSUME HonestInv, [Next]_vars PROVE HonestInv' /\ SteadyStep
  OBVIOUS
<1>1. CASE PassTime
  BY <1>1, PassTimeHonest
<1>2. CASE Poll
  <2>1. ReadWith(source, held, hand, sim, offset) /\ UNCHANGED <<kit, now, hw>> /\ stash' = stash
    BY <1>2 DEF Poll, Read
  <2> QED BY <2>1, HonestFacts, ReadHonest
<1>3. CASE ClearPosition
  BY <1>3, ClearPositionHonest
<1>4. CASE StopSim
  BY <1>4, StopSimHonest
<1>5. CASE CalibrateMag
  <2>1. cal' \in Never .. MaxNow + CalFor
    BY <1>5, Bounds, HonestFacts DEF CalibrateMag, Never
  <2>2. UNCHANGED <<kit, now, hw, source, stash, held, hand, fix, cell, tracker, compass, steady,
                    swayed, sim, node, offset, said>>
    BY <1>5 DEF CalibrateMag
  <2> QED BY <2>1, <2>2 DEF HonestInv, Ambient, BoardOK, ClockTrue, SteadyStep
<1>6. ASSUME NEW v \in Hand, SetPosition(v) \/ SetHeading(v) \/ SetBattery(v) PROVE HonestInv' /\ SteadyStep
  BY <1>6, SetHonest DEF SetPosition, SetHeading, SetBattery
<1>7. ASSUME NEW v \in Poses, SetFlat(v) PROVE HonestInv' /\ SteadyStep
  BY <1>7, SetHonest DEF SetFlat
<1>8. ASSUME NEW o \in Ahead, SetClock(o) PROVE HonestInv' /\ SteadyStep
  BY <1>8, SetClockHonest
<1>9. ASSUME NEW m \in Motions, NEW v \in Hand, StartSim(m, v) PROVE HonestInv' /\ SteadyStep
  BY <1>9, StartSimHonest
<1>10. CASE UNCHANGED vars
  <2>1. UNCHANGED <<kit, now, hw, source, stash, held, hand, fix, cell, tracker, cal, compass, steady,
                    swayed, sim, node, offset, said>>
    BY <1>10 DEF vars, board
  <2> QED BY <2>1 DEF HonestInv, Ambient, BoardOK, ClockTrue, SteadyStep
<1> QED BY <1>1, <1>2, <1>3, <1>4, <1>5, <1>6, <1>7, <1>8, <1>9, <1>10 DEF Next

LEMMA HonestImplies == HonestInv => Honest
<1> SUFFICES ASSUME HonestInv PROVE Honest
  OBVIOUS
<1> USE HonestFacts
<1>1. 0 .. now \subseteq 0 .. MaxNow /\ Never .. now \subseteq Never .. MaxNow
  BY DEF Never
<1>2. held.clock \in Times /\ sim.clock \in Times
  <2>1. held.clock \in Int /\ held.at \in Nat /\ (held.clock = NoClock \/ held.clock - held.at \in Nat)
    BY Constants DEF HeldOK, HeldIs
  <2>2. sim.clock \in Int /\ sim.start \in Nat /\ (sim.clock = NoClock \/ sim.clock - sim.start \in Nat)
    BY Constants DEF SimOK, SimIs
  <2> QED BY <2>1, <2>2 DEF Times
<1>3. held \in [pos : Spots, head : Bearings, flat : Poses, batt : Charges,
                clock : Times, at : 0 .. MaxNow]
  BY <1>1, <1>2 DEF HeldOK, HeldIs, Headings, Levels
<1>4. sim \in [pos : Spots, head : Bearings, flat : Poses, batt : Charges, clock : Times,
               start : 0 .. MaxNow, motion : {"still", "walk", "drive"}]
  BY <1>1, <1>2 DEF SimOK, SimIs, Headings, Levels
<1>5. fix \in [place : Sky \cup {None}, at : 0 .. MaxNow, time : 0 .. MaxNow \cup {NoClock}]
  BY <1>1 DEF BoardOK, FixOK
<1>6. tracker \in [is : Poses \cup {"unknown"}, since : Never .. MaxNow,
                   wants : Poses \cup {"unknown"}, from : Never .. MaxNow]
  BY <1>1 DEF BoardOK, TrackOK, Tracks
<1>7. node \in Reading /\ Measured
  BY DEF NodeOK, Reading, Measured, Headings, Levels
<1>8. TypeOK
  BY <1>3, <1>4, <1>5, <1>6, <1>7 DEF TypeOK, Ambient, BoardOK, CompassOK, OffsetOK
<1>9. Believed
  <2>1. fix.at \in Int /\ steady.since \in Int /\ steady.last \in Int /\ Minute \in Int
        /\ (fix.place # steady.place => fix.at <= steady.since /\ steady.last - fix.at <= Minute)
    BY Bounds DEF BoardOK, FixOK
  <2> QED BY <2>1 DEF Believed
<1> QED BY <1>7, <1>8, <1>9 DEF Honest, HonestInv

\* What the node says of itself (Node.Poll) was measured, keeps the receiver's
\* clock while it is used, and a place named for more than a minute is believed
\* (gnss.Reader), for any places, clocks and operator.
THEOREM HonestHolds == Spec => []Honest
BY HonestInit, HonestStep, HonestImplies, PTL DEF Spec

\* A pose is reported only after its dwell time without a sign of the other
\* (OrientationTracker.Update), and the one before it is kept for its own.
THEOREM SteadiedHolds == Spec => Steadied
<1>1. HonestInv /\ [Next]_vars => [SteadyStep]_vars
  BY HonestStep
<1> QED BY <1>1, HonestInit, HonestStep, PTL DEF Spec, Steadied, SteadyStep
=============================================================================
