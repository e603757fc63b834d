------------------------------ MODULE Device ------------------------------
(***************************************************************************)
(* What a Totem does that is not radio: the power model, the LED strip,    *)
(* the alarm, the charger's ring, the low-battery reminder and the         *)
(* over-the-air update, as one poll of the driver's loop after another.    *)
(* Time is counted in LED frames and kept relative to the present.  The    *)
(* node's clock stands still while an update blocks the loop, so an        *)
(* operation carries the lag of the time it was handed.                    *)
(***************************************************************************)
EXTENDS Integers, Sequences, FiniteSets

CONSTANTS
    Volts,       \* cell voltages a driver may report, in millivolts
    Colors,      \* crystal colours in use
    Bearings,    \* bearings of the first peer with a position
    FlashLen,    \* frames a timed animation plays
    Debounce,    \* frames the charger has to be in (chargeDebounce)
    Announce,    \* frames after which its ring is no news (chargeAnnounce)
    MaxGap,      \* frames between two polls, at most
    MaxShare,    \* steps of an update's progress ring
    MaxTook,     \* frames an update takes, at most
    Milli,       \* the grain of the sleep account, a millisecond
    Kits         \* sets of events; a behaviour meets those of one of them

ASSUME TimesAssumption ==
    /\ {FlashLen, Debounce, Announce, MaxGap, MaxShare, MaxTook, Milli} \subseteq Nat \ {0}
    /\ Debounce <= Announce
    /\ MaxGap < FlashLen     \* the loop polls every 5 ms, a flash lasts seconds

ASSUME DataAssumption ==
    /\ Volts \subseteq Nat /\ Bearings \subseteq Nat /\ Colors # {}

VARIABLES
    dev,    \* the device, a record
    pc,     \* where the loop is: "loop", "ask", "get", "tail"
    ret,    \* what an update returns to: the poll it was tapped in, or a command
    took,   \* frames the running update has taken
    cmd,    \* a console line may be run before the next poll
    over,   \* a frame has opened a pairing window since the last poll
    kit     \* the events of this behaviour

vars == <<dev, pc, ret, took, cmd, over, kit>>

-----------------------------------------------------------------------------
(* The battery curve, peripherals.get_batt_pct. *)

BattCurve == <<
    <<4120, 605>>, <<4100, 590>>, <<4080, 580>>, <<4070, 570>>, <<4050, 560>>, <<4030, 550>>,
    <<4020, 540>>, <<4010, 530>>, <<4000, 520>>, <<3990, 510>>, <<3980, 500>>, <<3970, 490>>,
    <<3960, 480>>, <<3950, 470>>, <<3940, 455>>, <<3930, 440>>, <<3920, 430>>, <<3910, 420>>,
    <<3900, 410>>, <<3890, 400>>, <<3880, 390>>, <<3870, 380>>, <<3860, 370>>, <<3850, 360>>,
    <<3840, 350>>, <<3830, 340>>, <<3820, 330>>, <<3810, 320>>, <<3800, 305>>, <<3790, 290>>,
    <<3780, 280>>, <<3770, 270>>, <<3760, 260>>, <<3750, 250>>, <<3740, 235>>, <<3730, 220>>,
    <<3720, 210>>, <<3710, 200>>, <<3700, 190>>, <<3680, 180>>, <<3670, 170>>, <<3660, 160>>,
    <<3640, 150>>, <<3630, 140>>, <<3610, 130>>, <<3600, 120>>, <<3590, 110>>, <<3570, 100>>,
    <<3550, 90>>, <<3540, 80>>, <<3530, 70>>, <<3510, 60>>, <<3500, 50>>, <<3470, 40>>,
    <<3430, 30>>, <<3360, 20>>, <<3280, 10>>, <<3190, 0>> >>

FullScale == 605
Top == 4120
Flat == 3190
Margin == 40
Cutoff == 3150
LowVolts == 3450
EcoPct == 40
OTAMinPct == 30
MaxSendable == 65504000

PlausibleVolts(v) == v >= Flat /\ v <= 4600

\* A reading of v scaled to a pack whose own top lies below the table's.
Scaled(v, top) ==
    LET c == IF v < Top THEN v ELSE Top
    IN  IF PlausibleVolts(top) /\ Flat < top /\ top < Top
        THEN Flat + ((c - Flat) * (Top - Flat)) \div (top - Flat)
        ELSE c

BattPctOf(raw) == ((raw * 1000) \div FullScale + 5) \div 10

BattPctFor(v, top) ==
    LET c == Scaled(v, top)
        i == CHOOSE k \in 2 .. Len(BattCurve) :
                c >= BattCurve[k][1] /\ \A j \in 2 .. k-1 : c < BattCurve[j][1]
        hi == BattCurve[i-1]
        lo == BattCurve[i]
    IN  IF v = 0 \/ c < Flat THEN 0
        ELSE IF c >= Top THEN 100
        ELSE BattPctOf(lo[2] + ((c - lo[1]) * (hi[2] - lo[2])) \div (hi[1] - lo[1]))

-----------------------------------------------------------------------------
(* The LED strip. *)

Timed == {"boot", "bonded", "deleted", "demigod", "otafail", "lowbatt"}
OpenEnded == {"idle", "search", "pairing", "sos", "ota", "wifi"}
Restful == {"idle", "search"}

Unlit == [anim |-> "unlit"]

\* What a frame of the strip shows, the moving parts of an effect aside.
Picture(s) ==
    IF s.dark THEN Unlit
    ELSE [anim |-> s.anim, color |-> s.color, dimmed |-> s.dimmed,
          dial |-> IF s.anim = "idle" THEN s.dial ELSE -1,
          share |-> IF s.anim = "ota" THEN s.share ELSE 0]

\* age is how long ago the next frame was due; -1 is not yet.
Redraw(s) == IF s.dark THEN s ELSE [s EXCEPT !.age = IF @ < 0 THEN 0 ELSE @, !.resting = FALSE]

Play(s, a, lag) ==
    IF s.dark THEN s
    ELSE [s EXCEPT !.anim = a, !.age = lag, !.resting = FALSE,
                   !.left = IF a \in OpenEnded \/ lag > FlashLen THEN 0 ELSE FlashLen - lag]

Stop(s, a, lag) == IF s.anim = a THEN Play(s, "idle", lag) ELSE s

Expired(s, lag) == s.anim \in Timed /\ s.left + lag <= 0

Tick(s, lag) ==
    LET t == IF Expired(s, lag) THEN Play(s, "idle", lag) ELSE s
    IN  IF s.dark THEN [s EXCEPT !.resting = TRUE]
        ELSE IF s.age < lag THEN s
        ELSE [t EXCEPT !.age = lag - 1, !.drawn = Picture(t), !.resting = (t.anim = "idle")]

Darken(s) == [Play(s, "idle", 0) EXCEPT !.dark = TRUE, !.drawn = Unlit, !.resting = TRUE]
Light(s) == [s EXCEPT !.dark = FALSE, !.age = 0, !.resting = FALSE]

SetDefaultColor(s, c) == [(IF c # s.color THEN Redraw(s) ELSE s) EXCEPT !.color = c]
SetDial(s, d) == [(IF d # s.dial THEN Redraw(s) ELSE s) EXCEPT !.dial = d]
SetShare(s, f) == [(IF f # s.share THEN Redraw(s) ELSE s) EXCEPT !.share = f]
SetDimmed(s, d) == [Redraw(s) EXCEPT !.dimmed = d]


-----------------------------------------------------------------------------
(* Power: the pack, the mode, the charger and the sleep account. *)

\* A reading: volts, 0 when there is none; a percentage of the driver's own,
\* 0 when it gives none; the charger; the chip's low flag; no cell at all.
Reading == [volts : Volts \cup {0}, pct : {0, 80}, charging : BOOLEAN,
            low : BOOLEAN, none : BOOLEAN]

Learn(s, b) ==
    LET peak == IF b.volts > s.peakV /\ PlausibleVolts(b.volts) THEN b.volts ELSE s.peakV
        t == [s EXCEPT !.peakV = peak]
    IN  IF ~b.charging \/ peak = 0 THEN t
        ELSE IF peak > s.prevV THEN [t EXCEPT !.prevV = peak]
        ELSE IF peak > s.maxV - Margin THEN [t EXCEPT !.maxV = peak - Margin]
        ELSE t

Percent(s, b) ==
    IF ~b.none /\ b.volts > 0 /\ b.pct = 0 THEN BattPctFor(b.volts, s.maxV) ELSE b.pct

\* update: the mode a reading calls for on a device that is on.
ModeFor(b, pct) ==
    IF b.none \/ b.charging THEN "normal"
    ELSE IF b.volts \in 1 .. Cutoff THEN "off"
    ELSE IF b.low \/ b.volts \in 1 .. LowVolts THEN "low"
    ELSE IF pct \in 1 .. EcoPct THEN "eco"
    ELSE "normal"

StopPairing(s) == IF s.pairing THEN Stop([s EXCEPT !.pairing = FALSE], "pairing", 0) ELSE s

PowerOff(s) ==
    IF s.off THEN s
    ELSE Darken([StopPairing(s) EXCEPT !.off = TRUE, !.mode = "off", !.lowOwed = FALSE])

\* Mutant: the new run takes up the last look of the one before.
StartRun_KeepsTick(s) == [s EXCEPT !.maxV = 0, !.peakV = 0, !.prevV = 0, !.lead = 0, !.lost = 0]

\* A new run of the counters; the charger's marks stay.
StartRun(s) == [s EXCEPT !.maxV = 0, !.peakV = 0, !.prevV = 0, !.since = 0, !.lead = 0, !.lost = 0]

PowerOn(s) ==
    IF ~s.off THEN s
    ELSE Play(Light(StartRun([s EXCEPT !.off = FALSE, !.mode = "normal"])), "boot", 0)

ApplyPowerMode(s, b, pct) ==
    LET m == IF s.off THEN s.mode ELSE ModeFor(b, pct)
        t == [s EXCEPT !.mode = m, !.lowOwed = (m = "low")]
    IN  IF m = s.mode THEN s ELSE IF m = "off" THEN PowerOff(t) ELSE t

\* read: a reading, what it teaches about the pack, the mode that follows.
Read(s, b, f) ==
    LET t == IF s.off THEN s ELSE Learn(s, b)
    IN  ApplyPowerMode([t EXCEPT !.plug = b.charging, !.fix = f], b, Percent(t, b))

Running(s) == s.ota \in {"checking", "downloading"}

Wanted(s) ==
    IF s.off THEN "idle"
    ELSE IF s.ota = "checking" THEN "wifi"
    ELSE IF Running(s) THEN "ota"
    ELSE IF s.sos /\ ~s.muted THEN "sos"
    ELSE IF s.pairing THEN "pairing"
    ELSE IF ~s.fix THEN "search"
    ELSE "idle"

\* charging: the debounce; None is a charger that is not in.
None == -1
Charging(s, lag) ==
    IF ~s.plug THEN [s EXCEPT !.held = None, !.shown = FALSE]
    ELSE IF s.off THEN [s EXCEPT !.shown = TRUE]
    ELSE [s EXCEPT !.held = IF @ < lag THEN lag ELSE @]

Settled(s, lag) ==
    s.plug /\ ~s.off /\ ~s.shown /\ s.held - lag >= Debounce /\ s.held - lag <= Announce

RingFree(s) == Wanted(s) \in Restful /\ s.anim = Wanted(s)

\* The charger's ring, once for a connection, over a strip at rest.
ChargerRing(s, lag) ==
    LET t == Charging(s, lag)
    IN  IF Settled(t, lag) /\ RingFree(s) THEN Play([t EXCEPT !.shown = TRUE], "boot", lag) ELSE t

Reminder(s, lag) ==
    IF s.lowOwed /\ RingFree(s) THEN Play([s EXCEPT !.lowOwed = FALSE], "lowbatt", lag) ELSE s

\* elapsed.Milliseconds: the rest of a span is in neither counter.
Millis(span) == Milli * (span \div Milli)

\* sleep: the span since the last look goes to one of the two counters, asleep
\* or awake, but for what it is over whole milliseconds.  lead is how far the
\* spans run ahead of the run's time, lost what the last one fell short.
Sleep(s, lag) ==
    LET span == IF s.since < lag THEN 0 ELSE s.since - lag
    IN  IF s.off THEN [s EXCEPT !.since = lag, !.lead = 0, !.lost = 0]
        ELSE [s EXCEPT !.since = lag, !.lead = @ + span, !.lost = span - Millis(span)]

UpdateDial(s, at) == SetDial(s, IF s.fix THEN at ELSE None)

\* Mutant: the strip goes back to what rests, and not to an alarm.
Restore_Rests(s, lag) ==
    IF s.anim \in Restful /\ s.anim # Wanted(s) /\ Wanted(s) \in Restful
    THEN Tick(Play(s, Wanted(s), lag), lag) ELSE s

\* The strip is given what the device's state calls for.
Restore(s, lag) ==
    IF s.anim \in OpenEnded /\ s.anim # Wanted(s) THEN Tick(Play(s, Wanted(s), lag), lag) ELSE s

\* device, after the inputs.
AfterInputs(s, lag, at) ==
    LET r == Sleep(Reminder(ChargerRing(s, lag), lag), lag)
    IN  IF r.off THEN r ELSE Restore(Tick(UpdateDial(r, at), lag), lag)

-----------------------------------------------------------------------------
(* The gestures and commands that act on the device. *)

ToggleBrightness(s) == Tick(SetDimmed(s, ~s.dimmed), 0)

MuteSOS(s) ==
    IF ~s.muted THEN Stop([s EXCEPT !.muted = TRUE], "sos", 0)
    ELSE IF s.sos THEN Play([s EXCEPT !.muted = FALSE], "sos", 0)
    ELSE [s EXCEPT !.muted = FALSE]

SetSOS(s, on) ==
    IF ~on THEN Stop([s EXCEPT !.sos = FALSE, !.muted = FALSE], "sos", 0)
    ELSE IF s.muted THEN [s EXCEPT !.sos = TRUE]
    ELSE Play([s EXCEPT !.sos = TRUE], "sos", 0)

\* startPairing refuses while off or already pairing; the other refusals are
\* Bonding's.
StartPairing(s) ==
    IF s.off \/ s.pairing THEN s ELSE Play([s EXCEPT !.pairing = TRUE], "pairing", 0)

SetColor(s, c) == Tick(SetDefaultColor(s, c), 0)

\* onGesture: a device that is off answers one gesture.
Gestures ==
    {"none"} \cup (kit \cap {"powerHold", "powerTap", "sosTap", "sosHold", "pairHold", "update"})

Gesture(s, g) ==
    IF s.off THEN IF g = "powerHold" THEN PowerOn(s) ELSE s
    ELSE CASE g = "powerHold" -> PowerOff(s)
           [] g = "powerTap" -> ToggleBrightness(s)
           [] g = "sosTap" -> MuteSOS(s)
           [] g = "sosHold" -> SetSOS(s, TRUE)
           [] g = "pairHold" -> StartPairing(s)
           [] OTHER -> s

\* Update up to its first request: reset, the gates, a fresh reading.
Begin(s, b, f) ==
    LET r == SetShare([s EXCEPT !.ota = "checking"], 0)
        t == IF r.off THEN r ELSE Read(r, b, f)
        failed == Play([t EXCEPT !.ota = "failed"], "otafail", 0)
    IN  IF \/ t.off
           \/ ~b.none /\ ~b.charging /\ (b.low \/ Percent(t, b) < OTAMinPct)
        THEN failed
        ELSE Play(t, "wifi", 0)

-----------------------------------------------------------------------------
(* The loop. *)

\* What the device keeps.
Animations == Timed \cup OpenEnded
Dials == Bearings \cup {None}
Spans == 0 .. MaxGap + 3 * MaxTook
Leads == -(MaxGap + 3 * MaxTook) .. 0
Losses == 0 .. Milli - 1
Helds == None .. Announce + MaxTook + 1
Lefts == 0 .. FlashLen
Ages == -1 .. MaxTook
Shares == 0 .. MaxShare
Pictures ==
    {Unlit} \cup [anim : Animations, color : Colors, dimmed : BOOLEAN, dial : Dials, share : Shares]

Devices ==
    [off : BOOLEAN, mode : {"normal", "eco", "low", "off"},
     maxV : Int, peakV : Nat, prevV : Nat, plug : BOOLEAN, fix : BOOLEAN,
     held : Helds, shown : BOOLEAN, lowOwed : BOOLEAN, since : Spans, lead : Leads, lost : Losses,
     anim : Animations, left : Lefts, age : Ages, resting : BOOLEAN, dark : BOOLEAN,
     dimmed : BOOLEAN, color : Colors, dial : Dials, share : Shares, drawn : Pictures,
     sos : BOOLEAN, muted : BOOLEAN, pairing : BOOLEAN,
     ota : {"idle", "checking", "downloading", "done", "failed"}]

TypeOK ==
    /\ dev \in Devices
    /\ pc \in {"loop", "ask", "get", "tail"}
    /\ ret \in {"poll", "cmd"}
    /\ took \in 0 .. MaxTook
    /\ cmd \in BOOLEAN /\ over \in BOOLEAN
    /\ kit \in Kits

\* New: the strip plays the power-up ring, then the first reading is taken.
Fresh(c) ==
    [off |-> FALSE, mode |-> "normal", maxV |-> 0, peakV |-> 0, prevV |-> 0, plug |-> FALSE,
     fix |-> FALSE, held |-> None, shown |-> FALSE, lowOwed |-> FALSE, since |-> 0, lead |-> 0, lost |-> 0,
     anim |-> "boot", left |-> FlashLen, age |-> 0,
     resting |-> FALSE, dark |-> FALSE, dimmed |-> FALSE, color |-> c, dial |-> None,
     share |-> 0, drawn |-> Unlit, sos |-> FALSE, muted |-> FALSE, pairing |-> FALSE,
     ota |-> "idle"]

\* The readings of the kit, with a cell or without.
Flag(name) == IF name \in kit THEN BOOLEAN ELSE {FALSE}
Readings ==
    [volts : {v \in Volts \cup {0} : ("nocell" \in kit \/ v # 0) /\ ("gauge" \in kit \/ v <= LowVolts)},
     pct : IF "gauge" \in kit THEN {0, 80} ELSE {0}, charging : Flag("plug"), low : Flag("low"), none : {FALSE}]
    \cup IF "nocell" \notin kit THEN {}
         ELSE [volts : {0}, pct : {0}, charging : Flag("plug"), low : {FALSE}, none : {TRUE}]

Init ==
    /\ kit \in Kits
    /\ \E b \in Readings, f \in BOOLEAN : dev = Read(Fresh(CHOOSE c \in Colors : TRUE), b, f)
    /\ pc = "loop" /\ ret = "cmd" /\ took = 0 /\ cmd = FALSE /\ over = FALSE

Older(n, top) == IF n = None \/ n = top THEN n ELSE n + 1

\* A frame's length passes: between two polls, or inside an update.
Advance ==
    /\ \/ pc = "loop" /\ dev.since < MaxGap /\ UNCHANGED took
       \/ pc \in {"ask", "get"} /\ took < MaxTook /\ took' = took + 1
    /\ dev' = [dev EXCEPT !.left = IF @ = 0 THEN 0 ELSE @ - 1,
                          !.age = IF @ = MaxTook THEN @ ELSE @ + 1,
                          !.held = Older(@, Announce + MaxTook + 1),
                          !.since = @ + 1, !.lead = @ - 1]
    /\ UNCHANGED <<pc, ret, cmd, over, kit>>

\* Poll: a reading, the gesture the inputs report, and the rest of device;
\* a triple tap of SOS runs an update in the middle of it.
Poll(b, f, g, at) ==
    /\ pc = "loop"
    /\ f \/ at = None       \* a node with no fix has no bearings
    /\ cmd' = TRUE /\ over' = FALSE /\ UNCHANGED kit
    /\ LET s == Read(dev, b, f)
       IN  IF g = "update" /\ ~s.off
           THEN /\ dev' = Begin(s, b, f)
                /\ pc' = IF dev'.ota = "checking" THEN "ask" ELSE "tail"
                /\ ret' = "poll" /\ took' = 0
           ELSE /\ dev' = AfterInputs(Gesture(s, g), 0, at)
                /\ UNCHANGED <<pc, ret, took>>

\* The poll an update was tapped in goes on, with the time it was handed.
PollGoesOn(at) ==
    /\ pc = "tail"
    /\ dev' = AfterInputs(dev, took, at)
    /\ pc' = "loop" /\ took' = 0
    /\ UNCHANGED <<ret, cmd, over, kit>>

UpdateEnds(s) ==
    /\ dev' = s
    /\ pc' = IF ret = "poll" THEN "tail" ELSE "loop"
    /\ took' = IF ret = "poll" THEN took ELSE 0
    /\ UNCHANGED <<ret, cmd, over, kit>>

\* Mutant: the failure is shown from the time the update was asked for.
UpdateFails_Stale ==
    /\ pc \in {"ask", "get"}
    /\ UpdateEnds(Play([dev EXCEPT !.ota = "failed"], "otafail", took))

\* A request that fails, an answer that does not parse, an empty package.
UpdateFails ==
    /\ pc \in {"ask", "get"}
    /\ UpdateEnds(Play([dev EXCEPT !.ota = "failed"], "otafail", 0))

UpdateDownloads ==
    /\ pc = "ask" /\ pc' = "get"
    /\ dev' = Play([dev EXCEPT !.ota = "downloading"], "ota", 0)
    /\ UNCHANGED <<ret, took, cmd, over, kit>>

UpdateProgress(f) ==
    /\ pc = "get" /\ f >= dev.share
    /\ dev' = Tick(SetShare(dev, f), 0)
    /\ UNCHANGED <<pc, ret, took, cmd, over, kit>>

UpdateDone ==
    /\ pc = "get"
    /\ UpdateEnds(Play([dev EXCEPT !.ota = "done"], "idle", 0))

\* One console line between two polls.
Command(s) ==
    /\ pc = "loop" /\ cmd /\ cmd' = FALSE
    /\ dev' = s
    /\ UNCHANGED <<pc, ret, took, over, kit>>

CommandUpdate(b, f) ==
    /\ pc = "loop" /\ cmd /\ cmd' = FALSE
    /\ dev' = Begin(dev, b, f)
    /\ pc' = IF dev'.ota = "checking" THEN "ask" ELSE "loop"
    /\ ret' = "cmd" /\ took' = 0
    /\ UNCHANGED <<over, kit>>

\* A frame or a job of the radio side, which is deaf on a device that is off.
Radio(s) ==
    /\ pc = "loop" /\ ~dev.off
    /\ dev' = s /\ over' = (over \/ (s.pairing /\ ~dev.pairing))
    /\ UNCHANGED <<pc, ret, took, cmd, kit>>

Commands ==
    (IF "power" \in kit THEN {PowerOn(dev), PowerOff(dev)} ELSE {})
    \cup (IF "sos" \in kit THEN {SetSOS(dev, on) : on \in BOOLEAN} ELSE {})
    \cup (IF "pair" \in kit THEN {StartPairing(dev)} ELSE {})
    \cup (IF "color" \in kit THEN {SetColor(dev, c) : c \in Colors} ELSE {})
    \cup (IF "reset" \in kit
          THEN {Read([StopPairing(dev) EXCEPT !.maxV = 0, !.peakV = 0, !.prevV = 0], b, f) :
                  b \in Readings, f \in BOOLEAN}
          ELSE {})

\* What a frame makes the device do: play a picture, end the pairing window, or,
\* as the ask of a Totem next to it, open one (onPeer with AutoPair).
Frame(s) ==
    {s} \cup {Play(s, a, 0) : a \in kit \cap {"bonded", "deleted", "demigod"}}
        \cup (IF "pair" \in kit THEN {StopPairing(s)} ELSE {})
        \cup (IF "ask" \in kit THEN {StartPairing(s)} ELSE {})

\* Receive reads first, and drops the frame if that was the last of the pack.
Receive(b, f) == LET s == Read(dev, b, f) IN IF s.off THEN {s} ELSE Frame(s)

\* A frame; or the window's own timer.
RadioEvents ==
    IF kit \cap {"bonded", "deleted", "demigod", "pair", "ask"} = {} THEN {}
    ELSE {StopPairing(dev)} \cup UNION {Receive(b, f) : b \in Readings, f \in BOOLEAN}

Next ==
    \/ Advance
    \/ \E b \in Readings, f \in BOOLEAN, g \in Gestures, at \in Bearings \cup {None} :
          Poll(b, f, g, at)
    \/ \E at \in Bearings \cup {None} : PollGoesOn(at)
    \/ UpdateFails
    \/ UpdateDownloads
    \/ \E f \in 0 .. MaxShare : UpdateProgress(f)
    \/ UpdateDone
    \/ \E s \in Commands : Command(s)
    \/ \E b \in Readings, f \in BOOLEAN : "ota" \in kit /\ CommandUpdate(b, f)
    \/ \E s \in RadioEvents : Radio(s)

Spec == Init /\ [][Next]_vars

-----------------------------------------------------------------------------
\* A strip that nobody will be woken for shows what the device's state calls
\* for: the colour, the brightness and the dial it was last given.
RestsCurrent == dev.resting => dev.drawn = Picture(dev)

\* No moment of a run is booked twice, and every one is looked at: what a look
\* leaves out is the rest of its own span over whole milliseconds, whatever
\* power cycles and updates lie between two looks.
BookedOnce == ~dev.off => dev.lead = -dev.since /\ dev.lost < Milli

\* A timed picture does not run out without one frame of it having been
\* drawn, after an update that blocked the loop too.
FlashSeen == dev.anim \in Timed /\ dev.left = 0 => dev.drawn.anim = dev.anim

\* No update runs on a device that is off, though the reading it takes may
\* switch the device off.
UpdateAwake == Running(dev) => ~dev.off

\* The mode peers are told is off exactly on a device that has powered down.
ModeMatches == (dev.mode = "off") = dev.off

\* The gauge grows with the voltage, and reads full at the pack's own top.
Gauge ==
    LET pct == [v \in Volts \cup {3190, 3300, 3700, 4119} |-> BattPctFor(v, dev.maxV)]
    IN  \A v, w \in DOMAIN pct : v <= w =>
            /\ pct[v] <= pct[w]
            /\ dev.maxV > Flat /\ w >= dev.maxV => pct[w] = 100

\* After a poll, and until the next console line, the strip shows the alarm, the
\* update or the pairing window that is on, or a passing flash: no flash that
\* ends and no frame swallows one of them.  A pairing window that a frame opens
\* is drawn over an alarm, until the next poll and no longer.
AlarmBack ==
    pc = "loop" /\ cmd /\ ~over /\ dev.anim \in OpenEnded /\ Wanted(dev) \notin Restful
        => dev.anim = Wanted(dev)

\* The strip is never left behind by the state: at rest it is current, and a
\* flash is seen before it runs out (Refresh, LEDs.Set, UpdateDue).
StripTrue == RestsCurrent /\ FlashSeen

\* The power bookkeeping is sound: no time is booked twice, the mode is the power
\* state, nothing is fetched while off and the gauge is monotonic.
PowerSound == TypeOK /\ BookedOnce /\ UpdateAwake /\ ModeMatches /\ Gauge
=============================================================================
