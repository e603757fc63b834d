---------------------------- MODULE InputsProofs ----------------------------
(***************************************************************************)
(* Nobody is credited with a hold they did not make, next names only times *)
(* at which poll reports, a hold switches the power once, and an input is  *)
(* deaf after a boot, after an edge and for a console gesture's own        *)
(* length: for any length of the windows, the holds, the wait after a boot *)
(* and an update.                                                          *)
(***************************************************************************)
EXTENDS Inputs, TLAPS

Recogniser == [down : BOOLEAN, downAge : Int, edge : Int, held : BOOLEAN, long : BOOLEAN,
               taps : Int, rel : Int, block : Int]

Typed ==
    /\ rec \in [Inputs -> Recogniser]
    /\ off \in BOOLEAN /\ finger \in BOOLEAN /\ panel \in BOOLEAN /\ felt \in Int
    /\ was \in [Inputs -> Int] /\ boot \in Int
    /\ walk \in [input : Inputs, end : Int, mine : BOOLEAN]

\* An input that is down has a finger on it, for as long as it thinks.
Real(i) == rec[i].down => i = "sos" /\ panel /\ rec[i].downAge <= felt

\* While the console holds an input it alone is down without a finger, and
\* what it has of taps was reported or cleared.
RealInv ==
    /\ Typed
    /\ \A i \in Inputs : ~(pc = "hold" /\ walk.mine /\ i = walk.input) => Real(i)
    /\ pc = "hold" /\ walk.mine => rec[walk.input].down \/ rec[walk.input].taps = 0

LEMMA Times ==
    /\ {Window, HoldTime, LongTime, BootWait, MaxUpdate, TapHold, TapStep, Lockout, MaxTaps, None}
          \subseteq Int
    /\ \A d \in Holds : d \in Int
    /\ "sos" \in Inputs /\ "power" \in Inputs /\ \A i \in Inputs : i = "sos" \/ i = "power"
BY TimesAssumption DEF TapHold, TapStep, Lockout, MaxTaps, None, Inputs

-----------------------------------------------------------------------------
(* The recogniser *)

\* A recogniser with some of its fields replaced is one.
LEMMA Edged ==
    ASSUME NEW r \in Recogniser, NEW a \in BOOLEAN, NEW b \in Int, NEW c \in Int
    PROVE  [r EXCEPT !.down = a, !.downAge = b, !.edge = c] \in Recogniser
BY DEF Recogniser

LEMMA Pressed ==
    ASSUME NEW r \in Recogniser, NEW b \in Int
    PROVE  [r EXCEPT !.down = TRUE, !.downAge = b, !.edge = b, !.held = FALSE, !.long = FALSE] \in Recogniser
BY DEF Recogniser

LEMMA Counted ==
    ASSUME NEW r \in Recogniser, NEW f \in Int, NEW g \in Int
    PROVE  [r EXCEPT !.taps = f] \in Recogniser /\ [r EXCEPT !.taps = f, !.rel = g] \in Recogniser
BY DEF Recogniser

LEMMA Reported ==
    ASSUME NEW r \in Recogniser, NEW d \in BOOLEAN, NEW e \in BOOLEAN, NEW f \in Int
    PROVE  [r EXCEPT !.held = d, !.long = e, !.taps = f] \in Recogniser
BY DEF Recogniser

LEMMA PressIs ==
    ASSUME NEW r \in Recogniser, NEW t \in Int
    PROVE  /\ Press(r, t) \in Recogniser
           /\ Takes(r, t) => Press(r, t).down /\ Press(r, t).downAge = -t
           /\ ~Takes(r, t) => Press(r, t) = r
<1>1. CASE Takes(r, t)
  <2>1. Press(r, t) = [r EXCEPT !.down = TRUE, !.downAge = -t, !.edge = -t, !.held = FALSE, !.long = FALSE]
    BY <1>1 DEF Press
  <2>2. -t \in Int
    OBVIOUS
  <2>3. Press(r, t) \in Recogniser
    BY <2>1, <2>2, Pressed
  <2> QED BY <1>1, <2>1, <2>3 DEF Recogniser
<1>2. CASE ~Takes(r, t)
  BY <1>2 DEF Press
<1> QED BY <1>1, <1>2

LEMMA ReleaseIs ==
    ASSUME NEW r \in Recogniser, NEW t \in Int
    PROVE  Release(r, t) \in Recogniser /\ ~Release(r, t).down
<1> DEFINE up == [r EXCEPT !.down = FALSE, !.downAge = 0, !.edge = -t]
           n == IF up.taps < MaxTaps THEN up.taps + 1 ELSE up.taps
<1>1. -t \in Int /\ 0 \in Int
  OBVIOUS
<1>2. up \in Recogniser /\ ~up.down
  <2>1. up \in Recogniser
    BY <1>1, Edged
  <2>2. ~up.down
    BY DEF Recogniser
  <2> QED BY <2>1, <2>2
<1>3. n \in Int
  BY <1>2, Times DEF Recogniser
<1>4. Release(r, t) \in {r, up, [up EXCEPT !.taps = 0], [up EXCEPT !.taps = n, !.rel = -t]}
  BY DEF Release
<1>5. Release(r, t) = r => ~r.down
  BY <1>2 DEF Release, Recogniser
<1> HIDE DEF up, n
<1>6. [up EXCEPT !.taps = 0] \in Recogniser /\ [up EXCEPT !.taps = n, !.rel = -t] \in Recogniser
  BY <1>1, <1>2, <1>3, Counted
<1>7. ~[up EXCEPT !.taps = 0].down /\ ~[up EXCEPT !.taps = n, !.rel = -t].down
  BY <1>2 DEF Recogniser
<1> QED BY <1>2, <1>4, <1>5, <1>6, <1>7

LEMMA PolledIs ==
    ASSUME NEW r \in Recogniser, NEW t \in Int, NEW i \in Inputs
    PROVE  /\ Polled(i, r, t) \in Recogniser
           /\ Polled(i, r, t).down = r.down /\ Polled(i, r, t).downAge = r.downAge
           /\ r.taps = 0 => Polled(i, r, t).taps = 0
<1> DEFINE d == r.held \/ HoldDue(i, r, t)
           e == r.long \/ LongDue(i, r, t)
           f == IF TapsDue(r, t) THEN 0 ELSE r.taps
<1>1. Polled(i, r, t) = [r EXCEPT !.held = d, !.long = e, !.taps = f]
  BY DEF Polled
<1>2. d \in BOOLEAN /\ e \in BOOLEAN
  OBVIOUS
<1>3. f \in Int /\ (r.taps = 0 => f = 0)
  BY DEF Recogniser
<1> HIDE DEF d, e, f
<1>4. Polled(i, r, t) \in Recogniser
  <2>1. [r EXCEPT !.held = d, !.long = e, !.taps = f] \in Recogniser
    BY <1>2, <1>3, Reported, Zenon
  <2> QED BY <1>1, <2>1, Zenon
<1> QED BY <1>1, <1>3, <1>4 DEF Recogniser

LEMMA Cleared ==
    ASSUME NEW r \in Recogniser, NEW z \in Int, NEW w \in Int
    PROVE  [r EXCEPT !.down = FALSE, !.downAge = z, !.held = FALSE, !.long = FALSE,
                     !.taps = z, !.rel = w] \in Recogniser
BY DEF Recogniser

LEMMA Blocked ==
    ASSUME NEW r \in Recogniser, NEW w \in Int
    PROVE  [r EXCEPT !.block = w] \in Recogniser
BY DEF Recogniser

LEMMA RestIs == Rest \in Recogniser /\ ~Rest.down /\ Rest.taps = 0
<1>1. Window \in Int /\ Lockout \in Int
  BY Times
<1>2. Rest \in Recogniser
  BY <1>1 DEF Rest, Recogniser
<1> QED BY <1>2 DEF Rest

\* Power off and on leave no input down and no tap behind.
LEMMA OffClears ==
    ASSUME NEW rs \in [Inputs -> Recogniser]
    PROVE  /\ ClearPending(rs) \in [Inputs -> Recogniser]
           /\ \A i \in Inputs : ~ClearPending(rs)[i].down /\ ClearPending(rs)[i].taps = 0
<1>1. Window \in Int /\ 0 \in Int
  BY Times
<1>2. ClearPending(rs) \in [Inputs -> Recogniser]
  BY <1>1, Cleared DEF ClearPending
<1>3. ASSUME NEW i \in Inputs
      PROVE  ~ClearPending(rs)[i].down /\ ClearPending(rs)[i].taps = 0
  BY <1>3 DEF ClearPending, Recogniser
<1> QED BY <1>2, <1>3

LEMMA OnClears ==
    ASSUME NEW t \in Int
    PROVE  /\ NewInputs(t) \in [Inputs -> Recogniser]
           /\ \A i \in Inputs : ~NewInputs(t)[i].down /\ NewInputs(t)[i].taps = 0
<1>1. BootWait + t \in Int
  BY Times
<1>2. NewInputs(t) \in [Inputs -> Recogniser]
  BY <1>1, RestIs, Blocked DEF NewInputs
<1>3. ASSUME NEW i \in Inputs
      PROVE  ~NewInputs(t)[i].down /\ NewInputs(t)[i].taps = 0
  BY <1>3, RestIs DEF NewInputs, Recogniser
<1> QED BY <1>2, <1>3

\* The part of a device that a poll reads and changes.
Device(a, b, c, d, e, f) == [rec |-> a, off |-> b, boot |-> c, pc |-> d, toggled |-> e, fired |-> f]

\* What a poll of input i leaves: it puts no input down, ages none, and starts
\* an update only with taps.
PollLeaves(a, b, d, i, r) ==
    /\ r = Device(r.rec, r.off, r.boot, r.pc, r.toggled, r.fired)
    /\ r.rec \in [Inputs -> Recogniser] /\ r.off \in BOOLEAN /\ r.boot \in Int
    /\ \A j \in Inputs : r.rec[j].down => a[j].down /\ r.rec[j].downAge = a[j].downAge
    /\ a[i].down \/ a[i].taps = 0 => r.rec[i].down \/ r.rec[i].taps = 0
    /\ b /\ ~r.off => \A j \in Inputs : ~r.rec[j].down
    /\ r.pc = d \/ (r.pc = "ask" /\ ~a[i].down /\ a[i].taps # 0)

LEMMA PollIs ==
    ASSUME NEW a \in [Inputs -> Recogniser], NEW b \in BOOLEAN, NEW c \in Int, NEW d, NEW e, NEW f,
           NEW i \in Inputs, NEW t \in Int
    PROVE  PollLeaves(a, b, d, i, PollInput(Device(a, b, c, d, e, f), i, t))
<1> DEFINE r == PollInput(Device(a, b, c, d, e, f), i, t)
           gs == Gestures(i, a[i], t)
           p == [a EXCEPT ![i] = Polled(i, a[i], t)]
           fs == f \cup {<<i, g>> : g \in gs}
<1> SUFFICES PollLeaves(a, b, d, i, r)
  OBVIOUS
<1>1. p \in [Inputs -> Recogniser]
  BY PolledIs DEF Inputs
<1>2. /\ \A j \in Inputs : p[j].down => a[j].down /\ p[j].downAge = a[j].downAge
      /\ a[i].down \/ a[i].taps = 0 => p[i].down \/ p[i].taps = 0
  BY PolledIs
<1>3. r = OnGestures(Device(p, b, c, d, e, f), i, gs, t)
  BY DEF PollInput, Device
<1>4. "triple" \in gs => ~a[i].down /\ a[i].taps # 0
  BY Times DEF Gestures, TapsDue, Recogniser
<1> HIDE DEF gs, p, r, fs
<1>5. CASE i = "power" /\ "hold" \in gs /\ b
  <2>1. r = Device(NewInputs(t), FALSE, BootWait + t, d, e + 1, fs)
    BY <1>3, <1>5 DEF OnGestures, Device, fs
  <2>2. BootWait + t \in Int
    BY Times
  <2>3. /\ r = Device(r.rec, r.off, r.boot, r.pc, r.toggled, r.fired)
        /\ r.rec = NewInputs(t) /\ r.off = FALSE /\ r.boot = BootWait + t /\ r.pc = d
    BY <2>1 DEF Device
  <2> QED BY <2>2, <2>3, OnClears DEF PollLeaves
<1>6. CASE i = "power" /\ "hold" \in gs /\ ~b
  <2>1. r = Device(ClearPending(p), TRUE, c, d, e + 1, fs)
    BY <1>3, <1>6 DEF OnGestures, Device, fs
  <2>3. /\ r = Device(r.rec, r.off, r.boot, r.pc, r.toggled, r.fired)
        /\ r.rec = ClearPending(p) /\ r.off = TRUE /\ r.boot = c /\ r.pc = d
    BY <2>1 DEF Device
  <2>4. /\ ClearPending(p) \in [Inputs -> Recogniser]
        /\ \A j \in Inputs : ~ClearPending(p)[j].down /\ ClearPending(p)[j].taps = 0
    BY <1>1, OffClears
  <2> QED BY <1>6, <2>3, <2>4 DEF PollLeaves
<1>7. CASE ~(i = "power" /\ "hold" \in gs) /\ i = "sos" /\ "triple" \in gs /\ ~b
  <2>1. r = Device(p, b, c, "ask", e, fs)
    BY <1>3, <1>7 DEF OnGestures, Device, fs
  <2>3. /\ r = Device(r.rec, r.off, r.boot, r.pc, r.toggled, r.fired)
        /\ r.rec = p /\ r.off = b /\ r.boot = c /\ r.pc = "ask"
    BY <2>1 DEF Device
  <2> QED BY <1>1, <1>2, <1>4, <1>7, <2>3 DEF PollLeaves
<1>8. CASE ~(i = "power" /\ "hold" \in gs) /\ ~(i = "sos" /\ "triple" \in gs /\ ~b)
  <2>1. r = Device(p, b, c, d, e, fs)
    BY <1>3, <1>8 DEF OnGestures, Device, fs
  <2>3. /\ r = Device(r.rec, r.off, r.boot, r.pc, r.toggled, r.fired)
        /\ r.rec = p /\ r.off = b /\ r.boot = c /\ r.pc = d
    BY <2>1 DEF Device
  <2> QED BY <1>1, <1>2, <2>3 DEF PollLeaves
<1> QED BY <1>5, <1>6, <1>7, <1>8

-----------------------------------------------------------------------------
(* The steps *)

LEMMA RealInit == Init => RealInv
<1> SUFFICES ASSUME Init PROVE RealInv
  OBVIOUS
<1>1. /\ rec \in [Inputs -> Recogniser] /\ BootWait \in Int /\ 0 \in Int
      /\ \A i \in Inputs : ~rec[i].down
  BY OnClears, Times DEF Init
<1>2. Typed
  BY <1>1, Times DEF Init, Typed
<1> QED BY <1>1, <1>2 DEF Init, RealInv, Real

\* Ages grow alike.
LEMMA MoreGrows ==
    ASSUME NEW a \in Int, NEW b \in Int, a <= b, NEW top \in Int
    PROVE  More(a, top) \in Int /\ More(a, top) <= More(b, top)
BY DEF More

LEMMA LessIs == ASSUME NEW a \in Int PROVE Less(a) \in Int
BY DEF Less

LEMMA Aged ==
    ASSUME NEW r \in Recogniser, NEW a \in Int, NEW b \in Int, NEW c \in Int, NEW d \in Int
    PROVE  [r EXCEPT !.downAge = a, !.edge = b, !.rel = c, !.block = d] \in Recogniser
BY DEF Recogniser

LEMMA TickReal == RealInv /\ Tick => RealInv'
<1> SUFFICES ASSUME RealInv, Tick PROVE RealInv'
  OBVIOUS
<1> DEFINE age(i) == IF rec[i].down THEN More(rec[i].downAge, LongTime) ELSE 0
           old(i) == [rec[i] EXCEPT !.downAge = age(i), !.edge = More(rec[i].edge, Lockout),
                                    !.rel = More(rec[i].rel, Window), !.block = Less(rec[i].block)]
<1>1. rec' = [i \in Inputs |-> old(i)]
  BY DEF Tick
<1>2. LongTime \in Int /\ Lockout \in Int /\ Window \in Int /\ 0 \in Int
  BY Times
<1>3. ASSUME NEW i \in Inputs
      PROVE  /\ old(i) \in Recogniser /\ old(i).down = rec[i].down
             /\ old(i).down => old(i).downAge = More(rec[i].downAge, LongTime)
  <2>1. /\ rec[i] \in Recogniser /\ rec[i].downAge \in Int /\ rec[i].edge \in Int
        /\ rec[i].rel \in Int /\ rec[i].block \in Int
    BY DEF RealInv, Typed, Recogniser
  <2>2. /\ age(i) \in Int /\ More(rec[i].edge, Lockout) \in Int /\ More(rec[i].rel, Window) \in Int
        /\ Less(rec[i].block) \in Int
    BY <1>2, <2>1 DEF More, Less
  <2>3. old(i) \in Recogniser
    BY <2>1, <2>2, Aged
  <2>4. old(i).down = rec[i].down /\ old(i).downAge = age(i)
    BY <2>1 DEF Recogniser
  <2> QED BY <2>3, <2>4
<1>4. Typed'
  <2>1. rec' \in [Inputs -> Recogniser]
    BY <1>1, <1>3
  <2>2. felt' \in Int /\ boot' \in Int
    <3>1. felt \in Int /\ boot \in Int
      BY DEF RealInv, Typed
    <3>2. felt' = (IF panel THEN More(felt, LongTime) ELSE 0) /\ boot' = Less(boot)
      BY DEF Tick
    <3>3. More(felt, LongTime) \in Int /\ Less(boot) \in Int
      BY <1>2, <3>1, MoreGrows, LessIs
    <3> QED BY <1>2, <3>2, <3>3
  <2>3. was' \in [Inputs -> Int]
    BY LessIs DEF Tick, RealInv, Typed
  <2> QED BY <2>1, <2>2, <2>3 DEF Tick, RealInv, Typed
<1>5. ASSUME NEW i \in Inputs PROVE Real(i)'
  <2>1. SUFFICES ASSUME rec'[i].down PROVE i = "sos" /\ panel' /\ rec'[i].downAge <= felt'
    BY DEF Real
  <2>2. rec[i].down /\ rec'[i].downAge = More(rec[i].downAge, LongTime)
    BY <1>1, <1>3, <2>1
  <2>3. i = "sos" /\ panel /\ rec[i].downAge <= felt
    BY <2>2 DEF RealInv, Real, Tick
  <2>4. felt' = More(felt, LongTime) /\ panel'
    BY <2>3 DEF Tick
  <2>5. rec[i].downAge \in Int /\ felt \in Int
    BY DEF RealInv, Typed, Recogniser
  <2>6. More(rec[i].downAge, LongTime) <= More(felt, LongTime)
    BY <1>2, <2>3, <2>5, MoreGrows
  <2> QED BY <2>2, <2>3, <2>4, <2>6
<1>6. pc' # "hold"
  BY DEF Tick
<1> QED BY <1>4, <1>5, <1>6 DEF RealInv

LEMMA MovesReal == RealInv /\ Moves => RealInv'
BY DEF RealInv, Moves, Typed, Real

\* The panel's edge, and then the polls of both inputs.
LEMMA PassReal == RealInv /\ Pass => RealInv'
<1> SUFFICES ASSUME RealInv, Pass PROVE RealInv'
  OBVIOUS
<1> DEFINE r == IF finger = panel THEN rec["sos"]
                ELSE IF finger THEN Press(rec["sos"], 0) ELSE Release(rec["sos"], 0)
           a == [rec EXCEPT !["sos"] = r]
           s == Device(a, off, boot, pc, 0, {})
           t == PollInput(s, "power", 0)
           u == PollInput(t, "sos", 0)
<1>1. /\ "sos" \in Inputs /\ "power" \in Inputs /\ 0 \in Int /\ rec["sos"] \in Recogniser
      /\ Real("sos") /\ Real("power") /\ felt \in Int /\ off \in BOOLEAN /\ boot \in Int
      /\ finger \in BOOLEAN /\ panel \in BOOLEAN /\ rec \in [Inputs -> Recogniser]
  BY Times DEF RealInv, Typed, Pass
<1>2. r \in Recogniser /\ (r.down => panel' /\ r.downAge <= felt')
  <2>1. CASE finger = panel
    BY <1>1, <2>1 DEF Pass, Real
  <2>2. CASE finger # panel /\ finger
    <3>1. ~rec["sos"].down
      BY <1>1, <2>2 DEF Real
    <3>2. r = Press(rec["sos"], 0)
      BY <2>2
    <3>3. r \in Recogniser
      BY <1>1, <3>2, PressIs
    <3>4. r.down => r.downAge = 0
      <4>1. Takes(rec["sos"], 0) => Press(rec["sos"], 0).downAge = -0
        BY <1>1, PressIs
      <4>2. ~Takes(rec["sos"], 0) => ~Press(rec["sos"], 0).down
        BY <1>1, <3>1, PressIs
      <4> QED BY <3>2, <4>1, <4>2
    <3>5. felt' = 0 /\ panel'
      BY <1>1, <2>2 DEF Pass
    <3> QED BY <3>3, <3>4, <3>5
  <2>3. CASE finger # panel /\ ~finger
    BY <1>1, <2>3, ReleaseIs
  <2> QED BY <2>1, <2>2, <2>3
<1>3. Becomes(u)
  <2>1. [State EXCEPT !.rec["sos"] = r, !.toggled = 0] = s
    <3>1. State = Device(rec, off, boot, pc, toggled, {})
      BY DEF State, Device
    <3> HIDE DEF r
    <3>2. [State EXCEPT !.rec["sos"] = r] = Device(a, off, boot, pc, toggled, {})
      BY <1>1, <3>1 DEF Device
    <3> HIDE DEF a
    <3>3. [Device(a, off, boot, pc, toggled, {}) EXCEPT !.toggled = 0] = s
      BY <1>1 DEF Device
    <3> HIDE DEF s
    <3> QED BY <3>2, <3>3, Zenon
  <2> HIDE DEF s
  <2> QED BY <2>1, Zenon DEF Pass
<1> HIDE DEF r
<1>4. a \in [Inputs -> Recogniser] /\ a["sos"] = r /\ a["power"] = rec["power"]
  BY <1>1, <1>2
<1> HIDE DEF a
<1>5. /\ t = Device(t.rec, t.off, t.boot, t.pc, t.toggled, t.fired)
      /\ t.rec \in [Inputs -> Recogniser] /\ t.off \in BOOLEAN /\ t.boot \in Int
      /\ \A j \in Inputs : t.rec[j].down => a[j].down /\ t.rec[j].downAge = a[j].downAge
      /\ t.pc # "hold"
  <2>1. /\ t = Device(t.rec, t.off, t.boot, t.pc, t.toggled, t.fired)
        /\ t.rec \in [Inputs -> Recogniser] /\ t.off \in BOOLEAN /\ t.boot \in Int
        /\ \A j \in Inputs : t.rec[j].down => a[j].down /\ t.rec[j].downAge = a[j].downAge
        /\ t.pc = pc \/ t.pc = "ask"
    <3>1. PollLeaves(a, off, pc, "power", t)
      BY <1>1, <1>4, PollIs
    <3> HIDE DEF t
    <3> QED BY <3>1 DEF PollLeaves
  <2>2. pc # "hold"
    BY DEF Pass
  <2> HIDE DEF t
  <2> QED BY <2>1, <2>2
<1> HIDE DEF s, t
<1>6. /\ u.rec \in [Inputs -> Recogniser] /\ u.off \in BOOLEAN /\ u.boot \in Int
      /\ \A j \in Inputs : u.rec[j].down => t.rec[j].down /\ u.rec[j].downAge = t.rec[j].downAge
      /\ u.pc = t.pc \/ u.pc = "ask"
  <2> DEFINE v == PollInput(Device(t.rec, t.off, t.boot, t.pc, t.toggled, t.fired), "sos", 0)
  <2>1. u = v
    BY <1>5, Zenon
  <2>2. /\ v.rec \in [Inputs -> Recogniser] /\ v.off \in BOOLEAN /\ v.boot \in Int
        /\ \A j \in Inputs : v.rec[j].down => t.rec[j].down /\ v.rec[j].downAge = t.rec[j].downAge
        /\ v.pc = t.pc \/ v.pc = "ask"
    <3>1. PollLeaves(t.rec, t.off, t.pc, "sos", v)
      BY <1>1, <1>5, PollIs
    <3> HIDE DEF v
    <3> QED BY <3>1 DEF PollLeaves
  <2> HIDE DEF u, v
  <2> QED BY <2>1, <2>2, Zenon
<1> HIDE DEF u
<1>7. rec' = u.rec /\ off' = u.off /\ boot' = u.boot /\ pc' = u.pc
  BY <1>3 DEF Becomes
<1>8. Real("sos")' /\ Real("power")'
  BY <1>1, <1>2, <1>4, <1>5, <1>6, <1>7 DEF Real
<1>9. Typed'
  <2>1. felt' \in Int
    BY <1>1 DEF Pass
  <2> QED BY <1>1, <1>6, <1>7, <2>1 DEF Pass, RealInv, Typed
<1>10. pc' # "hold"
  BY <1>5, <1>6, <1>7
<1> QED BY <1>8, <1>9, <1>10, Times DEF RealInv

\* A press that is taken and its release leave the input up.
LEMMA OnceIs ==
    ASSUME NEW r \in Recogniser, NEW t \in Int
    PROVE  Release(Press(r, t), t + TapHold) \in Recogniser /\ ~Release(Press(r, t), t + TapHold).down
<1>1. t + TapHold \in Int
  BY Times
<1> QED BY <1>1, PressIs, ReleaseIs

LEMMA TapReal ==
    ASSUME NEW i \in Inputs, NEW n, RealInv, Tap(i, n)
    PROVE  RealInv'
<1> DEFINE once(r, t) == Release(Press(r, t), t + TapHold)
           two(r) == IF Takes(r, TapStep) THEN once(r, TapStep) ELSE r
           three(r) == IF Takes(r, 2 * TapStep) THEN once(r, 2 * TapStep) ELSE r
           r1 == once(rec[i], 0)
           q == IF n = 1 THEN r1 ELSE IF n = 2 THEN two(r1) ELSE three(two(r1))
<1>1. rec \in [Inputs -> Recogniser] /\ TapStep \in Int /\ 2 * TapStep \in Int /\ 0 \in Int
  BY Times DEF RealInv, Typed
<1>2. r1 \in Recogniser /\ ~r1.down
  BY <1>1, OnceIs
<1>3. ASSUME NEW r \in Recogniser, ~r.down
      PROVE  two(r) \in Recogniser /\ ~two(r).down /\ three(r) \in Recogniser /\ ~three(r).down
  BY <1>1, <1>3, OnceIs
<1>4. rec' = [rec EXCEPT ![i] = q]
  BY DEF Tap
<1>5. q \in Recogniser /\ ~q.down
  <2> HIDE DEF once, two, three, r1
  <2> QED BY <1>2, <1>3
<1> HIDE DEF q
<1>6. rec' \in [Inputs -> Recogniser] /\ ~rec'[i].down /\ \A j \in Inputs : j # i => rec'[j] = rec[j]
  BY <1>1, <1>4, <1>5
<1>7. UNCHANGED <<off, finger, panel, felt, boot, pc, was, walk>> /\ pc = "loop"
  BY DEF Tap
<1> QED BY <1>6, <1>7 DEF RealInv, Typed, Real

LEMMA HoldBeginsReal ==
    ASSUME NEW i \in Inputs, NEW d \in Holds, RealInv, HoldBegins(i, d)
    PROVE  RealInv'
<1>1. rec \in [Inputs -> Recogniser] /\ rec[i] \in Recogniser /\ 0 \in Int /\ d \in Int
  BY Times DEF RealInv, Typed
<1>2. Press(rec[i], 0) \in Recogniser /\ Press(rec[i], 0).down
  BY <1>1, PressIs DEF HoldBegins
<1>3. rec' = [rec EXCEPT ![i] = Press(rec[i], 0)]
  BY DEF HoldBegins
<1>4. rec' \in [Inputs -> Recogniser] /\ rec'[i].down /\ \A j \in Inputs : j # i => rec'[j] = rec[j]
  BY <1>1, <1>2, <1>3
<1>5. /\ UNCHANGED <<off, finger, panel, felt, boot, was>>
      /\ pc = "loop" /\ walk' = [input |-> i, end |-> d, mine |-> TRUE]
  BY DEF HoldBegins
<1>6. walk' \in [input : Inputs, end : Int, mine : BOOLEAN] /\ walk'.input = i /\ walk'.mine
  BY <1>1, <1>5
<1>7. Typed'
  BY <1>4, <1>5, <1>6 DEF RealInv, Typed
<1>8. ASSUME NEW j \in Inputs, j # i PROVE Real(j)'
  BY <1>4, <1>5, <1>8 DEF RealInv, Real
<1>9. pc' = "hold"
  BY DEF HoldBegins
<1> QED BY <1>4, <1>6, <1>7, <1>8, <1>9 DEF RealInv

\* A gesture of the held input: it may switch the power, which clears what is
\* down, and cannot be taps.
LEMMA HoldWalksReal == RealInv /\ HoldWalks => RealInv'
<1> SUFFICES ASSUME RealInv, HoldWalks PROVE RealInv'
  OBVIOUS
<1> DEFINE i == walk.input
           u == PollInput(Device(rec, off, boot, pc, toggled, {}), i, HoldAt)
<1>1. /\ rec \in [Inputs -> Recogniser] /\ off \in BOOLEAN /\ boot \in Int /\ i \in Inputs
      /\ pc = "hold" /\ walk.mine /\ (rec[i].down \/ rec[i].taps = 0)
      /\ walk \in [input : Inputs, end : Int, mine : BOOLEAN]
  BY DEF RealInv, Typed, HoldWalks
<1>2. HoldAt \in Int
  <2>1. /\ HoldTime \in Int /\ LongTime \in Int /\ Window \in Int /\ None \in Int
        /\ rec[i].downAge \in Int /\ rec[i].rel \in Int
    BY <1>1, Times DEF Recogniser
  <2> QED BY <2>1 DEF HoldAt, NextPoll, HoldFor, LongFor
<1>3. Becomes(u)
  <2>1. State = Device(rec, off, boot, pc, toggled, {})
    BY DEF State, Device
  <2> QED BY <2>1, Zenon DEF HoldWalks
<1>4. /\ u.rec \in [Inputs -> Recogniser] /\ u.off \in BOOLEAN /\ u.boot \in Int
      /\ \A j \in Inputs : u.rec[j].down => rec[j].down /\ u.rec[j].downAge = rec[j].downAge
      /\ u.rec[i].down \/ u.rec[i].taps = 0
      /\ off /\ ~u.off => \A j \in Inputs : ~u.rec[j].down
      /\ u.pc = "hold"
  <2>1. /\ u.rec \in [Inputs -> Recogniser] /\ u.off \in BOOLEAN /\ u.boot \in Int
        /\ \A j \in Inputs : u.rec[j].down => rec[j].down /\ u.rec[j].downAge = rec[j].downAge
        /\ rec[i].down \/ rec[i].taps = 0 => u.rec[i].down \/ u.rec[i].taps = 0
        /\ off /\ ~u.off => \A j \in Inputs : ~u.rec[j].down
        /\ u.pc = pc \/ (u.pc = "ask" /\ ~rec[i].down /\ rec[i].taps # 0)
    <3>1. rec \in [Inputs -> Recogniser] /\ off \in BOOLEAN /\ boot \in Int /\ i \in Inputs
      BY <1>1
    <3> HIDE DEF i, HoldAt
    <3>2. PollLeaves(rec, off, pc, i, u)
      BY <1>2, <3>1, PollIs
    <3> HIDE DEF u
    <3> QED BY <3>2 DEF PollLeaves
  <2> HIDE DEF i, u
  <2> QED BY <1>1, <2>1, Zenon
<1> HIDE DEF u
<1>5. rec' = u.rec /\ off' = u.off /\ boot' = u.boot /\ pc' = u.pc
  BY <1>3 DEF Becomes
<1>6. /\ walk' = [walk EXCEPT !.mine = ~(off /\ ~off')]
      /\ UNCHANGED <<finger, panel, felt, was>>
  BY DEF HoldWalks
<1>7. /\ walk' \in [input : Inputs, end : Int, mine : BOOLEAN] /\ walk'.input = i
      /\ ~walk'.mine => off /\ ~off'
  BY <1>1, <1>6
<1>8. Typed'
  BY <1>4, <1>5, <1>6, <1>7 DEF RealInv, Typed
<1>9. ASSUME NEW j \in Inputs, ~(pc' = "hold" /\ walk'.mine /\ j = walk'.input)
      PROVE  Real(j)'
  <2>1. CASE ~walk'.mine
    BY <1>4, <1>5, <1>7, <2>1 DEF Real
  <2>2. CASE j # i
    BY <1>1, <1>4, <1>5, <1>6, <2>2 DEF RealInv, Real
  <2> QED BY <1>4, <1>5, <1>7, <1>9, <2>1, <2>2
<1> QED BY <1>4, <1>5, <1>7, <1>8, <1>9 DEF RealInv

LEMMA HoldEndsReal == RealInv /\ HoldEnds => RealInv'
<1> SUFFICES ASSUME RealInv, HoldEnds PROVE RealInv'
  OBVIOUS
<1> DEFINE i == walk.input
<1>1. /\ rec \in [Inputs -> Recogniser] /\ i \in Inputs /\ walk.end \in Int
      /\ UNCHANGED <<off, finger, panel, felt, boot, was, walk>> /\ pc' # "hold"
  BY DEF RealInv, Typed, HoldEnds
<1>2. CASE walk.mine
  <2>1. rec' = [rec EXCEPT ![i] = Release(rec[i], walk.end)]
    BY <1>2 DEF HoldEnds
  <2>2. Release(rec[i], walk.end) \in Recogniser /\ ~Release(rec[i], walk.end).down
    BY <1>1, ReleaseIs
  <2>3. rec' \in [Inputs -> Recogniser] /\ ~rec'[i].down /\ \A j \in Inputs : j # i => rec'[j] = rec[j]
    BY <1>1, <2>1, <2>2
  <2> QED BY <1>1, <2>3 DEF RealInv, Typed, Real
<1>3. CASE ~walk.mine
  <2>1. rec' = rec
    BY <1>3 DEF HoldEnds
  <2> QED BY <1>1, <1>3, <2>1 DEF RealInv, Typed, Real
<1> QED BY <1>2, <1>3

LEMMA BlockIs ==
    ASSUME NEW r \in Recogniser
    PROVE  Block(r) \in Recogniser /\ ~Block(r).down
<1>1. MaxUpdate + 1 \in Int /\ 0 \in Int
  BY Times
<1>2. ASSUME NEW a \in Int, NEW z \in Int
      PROVE  [r EXCEPT !.block = a, !.down = FALSE, !.downAge = z, !.taps = z] \in Recogniser
  BY DEF Recogniser
<1>3. Block(r) \in Recogniser
  BY <1>1, <1>2 DEF Block
<1>4. ~Block(r).down
  BY DEF Block, Recogniser
<1> QED BY <1>3, <1>4

LEMMA UpdateReal == RealInv /\ (UpdateFails \/ UpdateDownloads \/ UpdateRenews \/ UpdateEnds) => RealInv'
<1> SUFFICES ASSUME RealInv, UpdateFails \/ UpdateDownloads \/ UpdateRenews \/ UpdateEnds PROVE RealInv'
  OBVIOUS
<1>1. /\ rec \in [Inputs -> Recogniser] /\ was \in [Inputs -> Int] /\ pc # "hold"
      /\ UNCHANGED <<off, finger, panel, felt, boot, walk>> /\ pc' # "hold"
      /\ \A i \in Inputs : rec[i].block \in Int
  BY DEF RealInv, Typed, UpdateFails, UpdateDownloads, UpdateRenews, UpdateEnds, Recogniser
<1>2. CASE UpdateFails
  BY <1>1, <1>2 DEF RealInv, Typed, Real, UpdateFails
<1>3. CASE UpdateDownloads \/ UpdateRenews
  <2>1. rec' \in [Inputs -> Recogniser] /\ \A i \in Inputs : ~rec'[i].down
    BY <1>1, <1>3, BlockIs DEF UpdateDownloads, UpdateRenews
  <2>2. was' \in [Inputs -> Int]
    BY <1>1, <1>3 DEF UpdateDownloads, UpdateRenews
  <2> QED BY <1>1, <2>1, <2>2 DEF RealInv, Typed, Real
<1>4. CASE UpdateEnds
  <2>1. rec' = [i \in Inputs |-> [rec[i] EXCEPT !.block = was[i]]] /\ was' = was
    BY <1>4 DEF UpdateEnds
  <2>2. rec' \in [Inputs -> Recogniser]
    BY <1>1, <2>1, Blocked
  <2>3. \A i \in Inputs : rec'[i].down = rec[i].down /\ rec'[i].downAge = rec[i].downAge
    BY <1>1, <2>1 DEF Recogniser
  <2> QED BY <1>1, <2>1, <2>2, <2>3 DEF RealInv, Typed, Real
<1> QED BY <1>2, <1>3, <1>4

LEMMA RealStep == RealInv /\ [Next]_vars => RealInv'
<1> SUFFICES ASSUME RealInv, [Next]_vars PROVE RealInv'
  OBVIOUS
<1>1. CASE UNCHANGED vars
  BY <1>1 DEF RealInv, Typed, Real, vars
<1>2. ASSUME NEW i \in Inputs, NEW n \in 1 .. 3, Tap(i, n) PROVE RealInv'
  BY <1>2, TapReal
<1>3. ASSUME NEW i \in Inputs, NEW d \in Holds, HoldBegins(i, d) PROVE RealInv'
  BY <1>3, HoldBeginsReal
<1> QED
  BY <1>1, <1>2, <1>3, TickReal, MovesReal, PassReal, HoldWalksReal, HoldEndsReal, UpdateReal DEF Next

\* Whatever bounces, blocks, power cycles and console holds there are, an input
\* is down between commands only while a finger has been on the button for as
\* long as the recogniser thinks (press, release, poll, block, clearPending).
THEOREM HoldRealHolds == Spec => []HoldReal
<1>1. RealInv => HoldReal
  BY Times DEF RealInv, Real, HoldReal
<1> QED BY <1>1, RealInit, RealStep, PTL DEF Spec

\* At the time next names there is something to report, so that a caller who
\* walks time forward gets past it (next, poll, Hold).
THEOREM NextUsefulHolds == Spec => []NextUseful
<1>1. RealInv => NextUseful
  <2> SUFFICES ASSUME RealInv, NEW i \in Inputs, NextPoll(i, rec[i]) # None
               PROVE  Gestures(i, rec[i], NextPoll(i, rec[i])) # {}
    BY DEF NextUseful
  <2> DEFINE r == rec[i]
             t == NextPoll(i, r)
  <2>1. r \in Recogniser
    BY DEF RealInv, Typed
  <2> HIDE DEF r
  <2>2. /\ HoldFor(i) \in Int /\ LongFor(i) \in Int /\ Window \in Int
        /\ r.downAge \in Int /\ r.rel \in Int /\ r.taps \in Int
    BY <2>1, Times DEF Recogniser, HoldFor, LongFor
  <2>3. HoldDue(i, r, t) \/ LongDue(i, r, t) \/ TapsDue(r, t)
    <3>1. CASE r.down /\ ~r.held
      BY <2>2, <3>1 DEF NextPoll, HoldDue
    <3>2. CASE r.down /\ r.held
      BY <2>2, <3>2 DEF NextPoll, LongDue, r
    <3>3. CASE ~r.down
      BY <2>2, <3>3 DEF NextPoll, TapsDue, r
    <3> QED BY <3>1, <3>2, <3>3
  <2>4. Gestures(i, r, t) # {}
    <3> HIDE DEF t
    <3> QED BY <2>3 DEF Gestures
  <2> QED BY <2>4 DEF r
<1> QED BY <1>1, RealInit, RealStep, PTL DEF Spec

-----------------------------------------------------------------------------
(* What a gesture is meant to do *)

\* The bounds of a recogniser's ages and counts.
InRange(r) ==
    /\ r.downAge \in 0 .. LongTime
    /\ r.edge \in -MaxAhead .. Lockout
    /\ r.taps \in 0 .. MaxTaps
    /\ r.rel \in -MaxAhead .. Window

Blocks == 0 .. BootWait + LongTime + MaxUpdate + 1
Waits == 0 .. BootWait + LongTime
Reports == Inputs \X {"single", "double", "triple", "hold", "long"}

Ranges ==
    /\ \A i \in Inputs : InRange(rec[i]) /\ rec[i].block \in Blocks
    /\ felt \in 0 .. LongTime /\ boot \in Waits /\ was \in [Inputs -> Waits]
    /\ pc \in {"loop", "ask", "get", "hold"}
    /\ walk.end \in 0 .. MaxHold
    /\ toggled \in 0 .. 1
    /\ fired \subseteq Reports

\* A download found the blocks at the wait after the boot.
Found ==
    /\ pc # "get" => \A i \in Inputs : rec[i].block = boot
    /\ pc = "get" => \A i \in Inputs : was[i] = boot

\* An input the console holds went down just now, and as long as its hold was
\* not reported the power was not switched.
Fresh ==
    pc = "hold" /\ walk.mine /\ rec[walk.input].down =>
        /\ rec[walk.input].downAge = 0
        /\ walk.input = "power" /\ ~rec[walk.input].held => toggled = 0

\* No edge lies further ahead than what is left of the console's gesture.
Ended ==
    /\ until \in [Inputs -> 0 .. MaxAhead]
    /\ \A i \in Inputs : rec[i].edge + until[i] >= 0
    /\ pc = "hold" => until[walk.input] = walk.end

MeantInv == RealInv /\ Ranges /\ Found /\ Fresh /\ Ended

\* A step that dates no edge ahead.
Present == \A i \in Inputs : rec'[i].edge = rec[i].edge \/ rec'[i].edge \in 0 .. Lockout

LEMMA Bounds ==
    /\ Window \in Nat /\ HoldTime \in Nat /\ LongTime \in Nat /\ BootWait \in Nat /\ MaxUpdate \in Nat
    /\ Window > 0 /\ HoldTime > 0 /\ LongTime > HoldTime
    /\ MaxAhead \in Nat /\ MaxHold \in Nat /\ MaxHold >= LongTime /\ MaxAhead >= MaxHold /\ MaxAhead >= 5
    /\ TapHold = 1 /\ TapStep = 2 /\ Lockout = 1 /\ MaxTaps = 4 /\ None = -1
    /\ \A d \in Holds : d \in 0 .. MaxHold
BY TimesAssumption DEF MaxAhead, TapHold, TapStep, Lockout, MaxTaps, None

LEMMA PressRange ==
    ASSUME NEW r \in Recogniser, NEW t \in Int
    PROVE  /\ Press(r, t).taps = r.taps /\ Press(r, t).rel = r.rel /\ Press(r, t).block = r.block
           /\ Press(r, t).edge = r.edge \/ Press(r, t).edge = -t
           /\ Press(r, t).down \/ Press(r, t).downAge = r.downAge
           /\ Press(r, t).downAge = r.downAge \/ Press(r, t).downAge = -t
BY DEF Press, Recogniser

LEMMA ReleaseRange ==
    ASSUME NEW r \in Recogniser, NEW t \in Int, r.taps \in 0 .. MaxTaps
    PROVE  /\ Release(r, t).block = r.block
           /\ Release(r, t).edge = r.edge \/ Release(r, t).edge = -t
           /\ Release(r, t).rel = r.rel \/ Release(r, t).rel = -t
           /\ Release(r, t).taps \in 0 .. MaxTaps
           /\ Release(r, t).downAge = IF r.down THEN 0 ELSE r.downAge
<1> DEFINE up == [r EXCEPT !.down = FALSE, !.downAge = 0, !.edge = -t]
           n == IF up.taps < MaxTaps THEN up.taps + 1 ELSE up.taps
<1>0. -t \in Int /\ 0 \in Int /\ 0 \in 0 .. MaxTaps
  BY Bounds
<1>1. /\ up.block = r.block /\ up.edge = -t /\ up.rel = r.rel /\ up.taps = r.taps /\ up.downAge = 0
  BY DEF Recogniser
<1>2. up \in Recogniser
  BY <1>0, Edged
<1>3. n \in 0 .. MaxTaps
  BY <1>1, Bounds
<1>4. \/ Release(r, t) = r /\ ~r.down
      \/ r.down /\ Release(r, t) \in {up, [up EXCEPT !.taps = 0], [up EXCEPT !.taps = n, !.rel = -t]}
  BY DEF Release
<1> HIDE DEF up, n
<1>5. /\ [up EXCEPT !.taps = 0].block = up.block /\ [up EXCEPT !.taps = 0].edge = up.edge
      /\ [up EXCEPT !.taps = 0].rel = up.rel /\ [up EXCEPT !.taps = 0].taps = 0
      /\ [up EXCEPT !.taps = 0].downAge = up.downAge
  BY <1>2 DEF Recogniser
<1>6. /\ [up EXCEPT !.taps = n, !.rel = -t].block = up.block
      /\ [up EXCEPT !.taps = n, !.rel = -t].edge = up.edge
      /\ [up EXCEPT !.taps = n, !.rel = -t].rel = -t /\ [up EXCEPT !.taps = n, !.rel = -t].taps = n
      /\ [up EXCEPT !.taps = n, !.rel = -t].downAge = up.downAge
  BY <1>2 DEF Recogniser
<1>7. CASE Release(r, t) = r /\ ~r.down
  BY <1>7
<1>8. CASE r.down /\ Release(r, t) = up
  BY <1>1, <1>8
<1>9. CASE r.down /\ Release(r, t) = [up EXCEPT !.taps = 0]
  BY <1>0, <1>1, <1>5, <1>9
<1>10. CASE r.down /\ Release(r, t) = [up EXCEPT !.taps = n, !.rel = -t]
  BY <1>1, <1>3, <1>6, <1>10
<1> QED BY <1>4, <1>7, <1>8, <1>9, <1>10

LEMMA PolledRange ==
    ASSUME NEW r \in Recogniser, NEW t \in Int, NEW i \in Inputs
    PROVE  /\ Polled(i, r, t).edge = r.edge /\ Polled(i, r, t).rel = r.rel
           /\ Polled(i, r, t).block = r.block
           /\ Polled(i, r, t).taps = r.taps \/ Polled(i, r, t).taps = 0
           /\ r.held => Polled(i, r, t).held
BY DEF Polled, Recogniser

LEMMA OffRange ==
    ASSUME NEW rs \in [Inputs -> Recogniser], NEW i \in Inputs
    PROVE  /\ ClearPending(rs)[i].downAge = 0 /\ ClearPending(rs)[i].taps = 0
           /\ ClearPending(rs)[i].edge = rs[i].edge /\ ClearPending(rs)[i].rel = Window
           /\ ClearPending(rs)[i].block = rs[i].block
BY DEF ClearPending, Recogniser

LEMMA OnRange ==
    ASSUME NEW t \in Int, NEW i \in Inputs
    PROVE  /\ NewInputs(t)[i].downAge = 0 /\ NewInputs(t)[i].taps = 0
           /\ NewInputs(t)[i].edge = Lockout /\ NewInputs(t)[i].rel = Window
           /\ NewInputs(t)[i].block = BootWait + t
BY RestIs DEF NewInputs, Recogniser, Rest

\* What a poll means: a boot starts every wait anew, nothing else touches a
\* block, and the power is switched by a hold that was not reported before,
\* of an input that is up after it.
PollMeans(a, b, c, d, e, f, i, t, r) ==
    /\ \A j \in Inputs : InRange(a[j]) => InRange(r.rec[j])
    /\ \A j \in Inputs : r.rec[j].edge \in {a[j].edge, Lockout}
    /\ \/ r.boot = c /\ \A j \in Inputs : r.rec[j].block = a[j].block
       \/ i = "power" /\ r.boot = BootWait + t /\ \A j \in Inputs : r.rec[j].block = BootWait + t
    /\ \/ r.toggled = e
       \/ i = "power" /\ a[i].down /\ ~a[i].held /\ r.toggled = e + 1 /\ \A j \in Inputs : ~r.rec[j].down
    /\ r.rec[i].down /\ ~r.rec[i].held => ~a[i].held
    /\ r.pc = d \/ r.pc = "ask"
    /\ r.fired \subseteq f \cup Reports

LEMMA PollMeant ==
    ASSUME NEW a \in [Inputs -> Recogniser], NEW b \in BOOLEAN, NEW c \in Int, NEW d, NEW e, NEW f,
           NEW i \in Inputs, NEW t \in Int
    PROVE  PollMeans(a, b, c, d, e, f, i, t, PollInput(Device(a, b, c, d, e, f), i, t))
<1> DEFINE r == PollInput(Device(a, b, c, d, e, f), i, t)
           gs == Gestures(i, a[i], t)
           p == [a EXCEPT ![i] = Polled(i, a[i], t)]
           fs == f \cup {<<i, g>> : g \in gs}
<1> SUFFICES PollMeans(a, b, c, d, e, f, i, t, r)
  OBVIOUS
<1>1. p \in [Inputs -> Recogniser]
  BY PolledIs DEF Inputs
<1>2. ASSUME NEW j \in Inputs
      PROVE  /\ InRange(a[j]) => InRange(p[j])
             /\ p[j].block = a[j].block /\ p[j].edge = a[j].edge
  <2>1. CASE j = i
    <3>1. p[j] = Polled(i, a[j], t) /\ a[j] \in Recogniser
      BY <2>1
    <3> HIDE DEF p
    <3>2. LET q == Polled(i, a[j], t)
          IN  /\ q.edge = a[j].edge /\ q.rel = a[j].rel /\ q.block = a[j].block
              /\ q.taps = a[j].taps \/ q.taps = 0
              /\ q.downAge = a[j].downAge
      <4>1. a[j] \in Recogniser
        BY <3>1
      <4> QED BY <4>1, PolledRange, PolledIs
    <3> QED BY <3>1, <3>2, Bounds DEF InRange
  <2>2. CASE j # i
    BY <2>2
  <2> QED BY <2>1, <2>2
<1>3. r = OnGestures(Device(p, b, c, d, e, f), i, gs, t)
  BY DEF PollInput, Device
<1>4. p[i].down /\ ~p[i].held => ~a[i].held
  BY PolledRange
<1>5. "hold" \in gs => a[i].down /\ ~a[i].held
  <2>1. \A n \in Int : Tapped(n) # "hold"
    BY DEF Tapped
  <2>2. a[i].taps \in Int
    BY DEF Recogniser
  <2> QED BY <2>1, <2>2 DEF Gestures, HoldDue
<1>6. fs \subseteq f \cup Reports
  <2>1. \A g \in gs : g \in {"single", "double", "triple", "hold", "long"}
    BY DEF Gestures, Tapped
  <2> QED BY <2>1 DEF Reports
<1> HIDE DEF gs, p, r, fs
<1>7. CASE i = "power" /\ "hold" \in gs /\ b
  <2>1. r = Device(NewInputs(t), FALSE, BootWait + t, d, e + 1, fs)
    BY <1>3, <1>7 DEF OnGestures, Device, fs
  <2>2. /\ r.rec = NewInputs(t) /\ r.boot = BootWait + t /\ r.pc = d /\ r.toggled = e + 1 /\ r.fired = fs
    BY <2>1 DEF Device
  <2>3. \A j \in Inputs : /\ InRange(NewInputs(t)[j]) /\ NewInputs(t)[j].block = BootWait + t
                          /\ NewInputs(t)[j].edge = Lockout
    BY OnRange, Bounds DEF InRange
  <2>4. \A j \in Inputs : ~NewInputs(t)[j].down
    BY OnClears
  <2> QED BY <1>5, <1>6, <1>7, <2>2, <2>3, <2>4 DEF PollMeans
<1>8. CASE i = "power" /\ "hold" \in gs /\ ~b
  <2>1. r = Device(ClearPending(p), TRUE, c, d, e + 1, fs)
    BY <1>3, <1>8 DEF OnGestures, Device, fs
  <2>2. r.rec = ClearPending(p) /\ r.boot = c /\ r.pc = d /\ r.toggled = e + 1 /\ r.fired = fs
    BY <2>1 DEF Device
  <2>3. \A j \in Inputs : /\ InRange(p[j]) => InRange(ClearPending(p)[j])
                          /\ ClearPending(p)[j].block = p[j].block /\ ClearPending(p)[j].edge = p[j].edge
    BY <1>1, OffRange, Bounds DEF InRange
  <2>4. \A j \in Inputs : ~ClearPending(p)[j].down
    BY <1>1, OffClears
  <2> QED BY <1>2, <1>5, <1>6, <1>8, <2>2, <2>3, <2>4 DEF PollMeans
<1>9. CASE ~(i = "power" /\ "hold" \in gs)
  <2>1. r = Device(p, b, c, "ask", e, fs) \/ r = Device(p, b, c, d, e, fs)
    BY <1>3, <1>9 DEF OnGestures, Device, fs
  <2>2. /\ r.rec = p /\ r.boot = c /\ (r.pc = d \/ r.pc = "ask") /\ r.toggled = e /\ r.fired = fs
    BY <2>1 DEF Device
  <2> QED BY <1>2, <1>4, <1>6, <2>2 DEF PollMeans
<1> QED BY <1>7, <1>8, <1>9

\* With its bounds a recogniser is of the type the model gives it.
LEMMA RecTypeIs ==
    ASSUME NEW r \in Recogniser, InRange(r), r.block \in Blocks
    PROVE  r \in RecType
BY DEF Recogniser, InRange, Blocks, RecType

LEMMA MeantIs == MeantInv => AsMeant
<1> SUFFICES ASSUME MeantInv PROVE AsMeant
  OBVIOUS
<1>1. rec \in [Inputs -> RecType]
  BY RecTypeIs DEF MeantInv, RealInv, Typed, Ranges
<1>2. walk \in [input : Inputs, end : 0 .. MaxHold, mine : BOOLEAN]
  BY DEF MeantInv, RealInv, Typed, Ranges
<1>3. {off, finger, panel} \subseteq BOOLEAN
  BY DEF MeantInv, RealInv, Typed
<1>4. TypeOK
  BY <1>1, <1>2, <1>3, Bounds DEF MeantInv, Ranges, Ended, TypeOK, Waits, Reports
<1>5. PowerOnce
  BY DEF PowerOnce, MeantInv, Ranges
<1>6. DeafAsMeant
  <2> SUFFICES ASSUME pc # "get", NEW i \in Inputs
               PROVE  /\ rec[i].block = boot
                      /\ ~rec[i].down /\ ~Takes(rec[i], 0)
                            => boot > 0 \/ rec[i].edge >= 0 \/ until[i] > 0
    BY DEF DeafAsMeant
  <2>1. rec[i].block = boot /\ boot \in Nat
    BY Bounds DEF MeantInv, Ranges, Found, Waits
  <2>2. rec[i].edge + until[i] >= 0 /\ rec[i].edge \in Int /\ until[i] \in Nat
    BY Bounds DEF MeantInv, Ended, Ranges, InRange
  <2> QED BY <2>1, <2>2, Bounds DEF Takes
<1> QED BY <1>4, <1>5, <1>6 DEF AsMeant

LEMMA MeantInit == Init => MeantInv
<1> SUFFICES ASSUME Init PROVE MeantInv
  OBVIOUS
<1>1. ASSUME NEW i \in Inputs
      PROVE  /\ rec[i].downAge = 0 /\ rec[i].taps = 0 /\ rec[i].edge = Lockout /\ rec[i].rel = Window
             /\ rec[i].block = BootWait
  BY OnRange, Bounds DEF Init
<1>2. Ranges
  BY <1>1, Bounds DEF Init, Ranges, InRange, Blocks, Waits
<1>3. Ended
  BY <1>1, Bounds DEF Init, Ended
<1> QED BY <1>1, <1>2, <1>3, RealInit DEF Init, MeantInv, Found, Fresh

LEMMA MoreIn ==
    ASSUME NEW a \in Int, NEW low \in Int, NEW top \in Int, a \in low .. top
    PROVE  More(a, top) \in low .. top
BY DEF More

LEMMA TickMeant == MeantInv /\ Tick => Ranges' /\ Found' /\ Fresh'
<1> SUFFICES ASSUME MeantInv, Tick PROVE Ranges' /\ Found' /\ Fresh'
  OBVIOUS
<1> DEFINE age(i) == IF rec[i].down THEN More(rec[i].downAge, LongTime) ELSE 0
           old(i) == [rec[i] EXCEPT !.downAge = age(i), !.edge = More(rec[i].edge, Lockout),
                                    !.rel = More(rec[i].rel, Window), !.block = Less(rec[i].block)]
<1>1. rec' = [i \in Inputs |-> old(i)]
  BY DEF Tick
<1>2. ASSUME NEW i \in Inputs
      PROVE  /\ rec'[i].downAge = age(i) /\ rec'[i].edge = More(rec[i].edge, Lockout)
             /\ rec'[i].rel = More(rec[i].rel, Window) /\ rec'[i].block = Less(rec[i].block)
             /\ rec'[i].taps = rec[i].taps
  BY <1>1 DEF MeantInv, RealInv, Typed, Recogniser
<1> HIDE DEF age, old
<1>3. ASSUME NEW i \in Inputs
      PROVE  InRange(rec'[i]) /\ rec'[i].block \in Blocks
  <2>1. InRange(rec[i]) /\ rec[i].block \in Blocks
    BY DEF MeantInv, Ranges
  <2>2. age(i) \in 0 .. LongTime
    BY <2>1, Bounds DEF age, InRange, More
  <2>3. More(rec[i].edge, Lockout) \in -MaxAhead .. Lockout
    BY <2>1, Bounds DEF InRange, More
  <2>4. More(rec[i].rel, Window) \in -MaxAhead .. Window
    BY <2>1, Bounds DEF InRange, More
  <2>5. Less(rec[i].block) \in Blocks
    BY <2>1, Bounds DEF Blocks, Less
  <2> QED BY <1>2, <2>1, <2>2, <2>3, <2>4, <2>5 DEF InRange
<1>4. felt' \in 0 .. LongTime
  <2>1. felt \in 0 .. LongTime /\ felt' = IF panel THEN More(felt, LongTime) ELSE 0
    BY DEF MeantInv, Ranges, Tick
  <2> QED BY <2>1, Bounds DEF More
<1>5. boot' = Less(boot) /\ boot' \in Waits /\ was' = [i \in Inputs |-> Less(was[i])] /\ was' \in [Inputs -> Waits]
  <2>1. /\ boot \in Waits /\ was \in [Inputs -> Waits]
        /\ boot' = Less(boot) /\ was' = [i \in Inputs |-> Less(was[i])]
    BY DEF MeantInv, Ranges, Tick
  <2>2. \A w \in Waits : Less(w) \in Waits
    BY Bounds DEF Waits, Less
  <2> QED BY <2>1, <2>2
<1>6. Ranges'
  BY <1>3, <1>4, <1>5 DEF MeantInv, Ranges, Tick
<1>7. Found'
  <2>1. Found /\ pc' = pc
    BY DEF MeantInv, Tick
  <2>2. \A i \in Inputs : rec'[i].block = Less(rec[i].block) /\ was'[i] = Less(was[i])
    BY <1>2, <1>5
  <2> QED BY <1>5, <2>1, <2>2 DEF Found
<1> QED BY <1>6, <1>7 DEF Tick, Fresh

LEMMA MovesMeant == MeantInv /\ Moves => Ranges' /\ Found' /\ Fresh' /\ Present
BY DEF MeantInv, Moves, Ranges, Found, Fresh, Present

LEMMA PassMeant == MeantInv /\ Pass => Ranges' /\ Found' /\ Fresh' /\ Present /\ pc' # "hold"
<1> SUFFICES ASSUME MeantInv, Pass PROVE Ranges' /\ Found' /\ Fresh' /\ Present /\ pc' # "hold"
  OBVIOUS
<1> DEFINE r == IF finger = panel THEN rec["sos"]
                ELSE IF finger THEN Press(rec["sos"], 0) ELSE Release(rec["sos"], 0)
           a == [rec EXCEPT !["sos"] = r]
           s == Device(a, off, boot, pc, 0, {})
           t == PollInput(s, "power", 0)
           u == PollInput(t, "sos", 0)
<1>1. /\ "sos" \in Inputs /\ "power" \in Inputs /\ 0 \in Int /\ rec["sos"] \in Recogniser
      /\ off \in BOOLEAN /\ boot \in Int /\ rec \in [Inputs -> Recogniser]
      /\ \A j \in Inputs : InRange(rec[j])
      /\ pc = "loop"
  BY Times DEF MeantInv, RealInv, Ranges, Typed, Pass
<1>2. r \in Recogniser /\ InRange(r) /\ r.block = rec["sos"].block /\ r.edge \in {rec["sos"].edge, 0}
  <2>0. InRange(rec["sos"])
    BY <1>1
  <2>1. CASE finger = panel
    BY <1>1, <2>0, <2>1
  <2>2. CASE finger # panel /\ finger
    <3>1. r = Press(rec["sos"], 0)
      BY <2>2
    <3> HIDE DEF r
    <3>2. /\ r \in Recogniser
          /\ r.taps = rec["sos"].taps /\ r.rel = rec["sos"].rel /\ r.block = rec["sos"].block
          /\ r.edge = rec["sos"].edge \/ r.edge = 0
          /\ r.downAge = rec["sos"].downAge \/ r.downAge = 0
      BY <1>1, <3>1, PressIs, PressRange
    <3> QED BY <2>0, <3>2, Bounds DEF InRange
  <2>3. CASE finger # panel /\ ~finger
    <3>1. r = Release(rec["sos"], 0)
      BY <2>3
    <3>2. rec["sos"].taps \in 0 .. MaxTaps
      BY <2>0 DEF InRange
    <3> HIDE DEF r
    <3>3. /\ r \in Recogniser
          /\ r.taps \in 0 .. MaxTaps /\ r.block = rec["sos"].block
          /\ r.rel = rec["sos"].rel \/ r.rel = 0
          /\ r.edge = rec["sos"].edge \/ r.edge = 0
          /\ r.downAge = rec["sos"].downAge \/ r.downAge = 0
      <4>1. Release(rec["sos"], 0) \in Recogniser
        BY <1>1, ReleaseIs
      <4>2. LET q == Release(rec["sos"], 0)
            IN  /\ q.block = rec["sos"].block /\ q.taps \in 0 .. MaxTaps
                /\ q.edge = rec["sos"].edge \/ q.edge = -0
                /\ q.rel = rec["sos"].rel \/ q.rel = -0
                /\ q.downAge = IF rec["sos"].down THEN 0 ELSE rec["sos"].downAge
        BY <1>1, <3>2, ReleaseRange
      <4> QED BY <3>1, <4>1, <4>2
    <3> QED BY <2>0, <3>3, Bounds DEF InRange
  <2> QED BY <2>1, <2>2, <2>3
<1>3. Becomes(u)
  <2>1. [State EXCEPT !.rec["sos"] = r, !.toggled = 0] = s
    <3>1. State = Device(rec, off, boot, pc, toggled, {})
      BY DEF State, Device
    <3> HIDE DEF r
    <3>2. [State EXCEPT !.rec["sos"] = r] = Device(a, off, boot, pc, toggled, {})
      BY <1>1, <3>1 DEF Device
    <3> HIDE DEF a
    <3>3. [Device(a, off, boot, pc, toggled, {}) EXCEPT !.toggled = 0] = s
      BY <1>1 DEF Device
    <3> HIDE DEF s
    <3> QED BY <3>2, <3>3, Zenon
  <2> HIDE DEF s
  <2> QED BY <2>1, Zenon DEF Pass
<1> HIDE DEF r
<1>4. /\ a \in [Inputs -> Recogniser]
      /\ \A j \in Inputs : InRange(a[j]) /\ a[j].block = rec[j].block /\ a[j].edge \in {rec[j].edge, 0}
  BY <1>1, <1>2
<1> HIDE DEF a
<1>5. /\ PollLeaves(a, off, pc, "power", t)
      /\ PollMeans(a, off, boot, pc, 0, {}, "power", 0, t)
  BY <1>1, <1>4, PollIs, PollMeant
<1> HIDE DEF s, t
<1>6. /\ t = Device(t.rec, t.off, t.boot, t.pc, t.toggled, t.fired)
      /\ t.rec \in [Inputs -> Recogniser] /\ t.off \in BOOLEAN /\ t.boot \in Int
  BY <1>5 DEF PollLeaves
<1>7. PollMeans(t.rec, t.off, t.boot, t.pc, t.toggled, t.fired, "sos", 0, u)
  <2> DEFINE v == PollInput(Device(t.rec, t.off, t.boot, t.pc, t.toggled, t.fired), "sos", 0)
  <2>1. u = v
    BY <1>6, Zenon
  <2>2. PollMeans(t.rec, t.off, t.boot, t.pc, t.toggled, t.fired, "sos", 0, v)
    BY <1>1, <1>6, PollMeant
  <2> HIDE DEF u, v
  <2> QED BY <2>1, <2>2, Zenon
<1> HIDE DEF u
<1>8. /\ \A j \in Inputs : InRange(t.rec[j]) /\ t.rec[j].edge \in {rec[j].edge, 0, Lockout}
      /\ \/ t.boot = boot /\ \A j \in Inputs : t.rec[j].block = rec[j].block
         \/ t.boot = BootWait + 0 /\ \A j \in Inputs : t.rec[j].block = BootWait + 0
      /\ t.toggled = 0 \/ t.toggled = 0 + 1
      /\ t.pc = "loop" \/ t.pc = "ask"
      /\ t.fired \subseteq {} \cup Reports
  BY <1>1, <1>4, <1>5 DEF PollMeans
<1>9. /\ \A j \in Inputs : InRange(u.rec[j]) /\ u.rec[j].edge \in {rec[j].edge, 0, Lockout}
      /\ u.boot = t.boot /\ \A j \in Inputs : u.rec[j].block = t.rec[j].block
      /\ u.toggled = t.toggled
      /\ u.pc = "loop" \/ u.pc = "ask"
      /\ u.fired \subseteq t.fired \cup Reports
  BY <1>7, <1>8 DEF PollMeans
<1>10. rec' = u.rec /\ boot' = u.boot /\ pc' = u.pc /\ toggled' = u.toggled /\ fired' = u.fired
  BY <1>3 DEF Becomes
<1>11. boot' \in Waits /\ boot' \in Blocks /\ \A j \in Inputs : rec'[j].block = boot'
  <2>1. boot \in Waits /\ \A j \in Inputs : rec[j].block = boot
    BY <1>1 DEF MeantInv, Ranges, Found
  <2>2. BootWait + 0 = BootWait /\ BootWait \in Waits
    BY Bounds DEF Waits
  <2>3. boot' \in Waits /\ \A j \in Inputs : rec'[j].block = boot'
    BY <1>8, <1>9, <1>10, <2>1, <2>2
  <2>4. \A w \in Waits : w \in Blocks
    BY Bounds DEF Waits, Blocks
  <2> QED BY <2>3, <2>4
<1>12. felt' \in 0 .. LongTime
  BY Bounds DEF MeantInv, Ranges, Pass
<1>13. was' = was /\ walk' = walk
  BY DEF Pass
<1>14. Ranges'
  BY <1>8, <1>9, <1>10, <1>11, <1>12, <1>13 DEF MeantInv, Ranges
<1>15. Present
  BY <1>9, <1>10, Bounds DEF Present
<1> QED BY <1>9, <1>10, <1>11, <1>14, <1>15 DEF Found, Fresh

\* A tap dated up to two steps ahead stays within the bounds.
LEMMA OnceRange ==
    ASSUME NEW r \in Recogniser, NEW t \in 0 .. 2 * TapStep, InRange(r)
    PROVE  LET q == Release(Press(r, t), t + TapHold)
           IN  InRange(q) /\ q.block = r.block
<1> DEFINE p == Press(r, t)
           q == Release(p, t + TapHold)
<1>1. t \in Int /\ t + TapHold \in Int /\ -t \in -MaxAhead .. 0 /\ -(t + TapHold) \in -MaxAhead .. 0
  BY Bounds
<1>2. /\ p \in Recogniser /\ p.taps = r.taps /\ p.rel = r.rel /\ p.block = r.block
      /\ p.edge = r.edge \/ p.edge = -t
      /\ p.down \/ p.downAge = r.downAge
  BY <1>1, PressIs, PressRange
<1> HIDE DEF p
<1>3. /\ q.block = p.block /\ q.taps \in 0 .. MaxTaps
      /\ q.edge = p.edge \/ q.edge = -(t + TapHold)
      /\ q.rel = p.rel \/ q.rel = -(t + TapHold)
      /\ q.downAge = IF p.down THEN 0 ELSE p.downAge
  <2>1. p.taps \in 0 .. MaxTaps
    BY <1>2 DEF InRange
  <2> QED BY <1>1, <1>2, <2>1, ReleaseRange
<1> HIDE DEF q
<1>4. InRange(q) /\ q.block = r.block
  BY <1>1, <1>2, <1>3, Bounds DEF InRange
<1> QED BY <1>4 DEF p, q

LEMMA TapMeant ==
    ASSUME NEW i \in Inputs, NEW n, MeantInv, Tap(i, n)
    PROVE  Ranges' /\ Found' /\ Fresh'
<1> DEFINE once(r, t) == Release(Press(r, t), t + TapHold)
           two(r) == IF Takes(r, TapStep) THEN once(r, TapStep) ELSE r
           three(r) == IF Takes(r, 2 * TapStep) THEN once(r, 2 * TapStep) ELSE r
           r1 == once(rec[i], 0)
           q == IF n = 1 THEN r1 ELSE IF n = 2 THEN two(r1) ELSE three(two(r1))
           Good(r) == r \in Recogniser /\ InRange(r) /\ r.block = rec[i].block
<1>1. rec \in [Inputs -> Recogniser] /\ Good(rec[i])
  BY DEF MeantInv, RealInv, Typed, Ranges
<1>2. 0 \in 0 .. 2 * TapStep /\ TapStep \in 0 .. 2 * TapStep /\ 2 * TapStep \in 0 .. 2 * TapStep
  BY Bounds
<1>3. ASSUME NEW r, Good(r), NEW t \in 0 .. 2 * TapStep PROVE Good(once(r, t))
  <2>1. t \in Int
    BY <1>2, Bounds
  <2>2. once(r, t) \in Recogniser
    BY <1>3, <2>1, OnceIs
  <2>3. InRange(once(r, t)) /\ once(r, t).block = r.block
    BY <1>3, OnceRange
  <2> QED BY <1>3, <2>2, <2>3
<1> HIDE DEF once, Good
<1>4. Good(r1) /\ \A r : Good(r) => Good(two(r)) /\ Good(three(r))
  BY <1>1, <1>2, <1>3
<1> HIDE DEF r1, two, three
<1>5. Good(q)
  BY <1>4
<1>6. rec' = [rec EXCEPT ![i] = q]
  BY DEF Tap, once, r1, two, three
<1> HIDE DEF q
<1>7. \A j \in Inputs : InRange(rec'[j]) /\ rec'[j].block = rec[j].block
  BY <1>1, <1>5, <1>6 DEF Good, MeantInv, Ranges
<1>8. UNCHANGED <<felt, boot, pc, was, walk, toggled>> /\ pc = "loop" /\ fired' = {}
  BY DEF Tap
<1> QED BY <1>7, <1>8 DEF MeantInv, Ranges, Found, Fresh

LEMMA HoldBeginsMeant ==
    ASSUME NEW i \in Inputs, NEW d \in Holds, MeantInv, HoldBegins(i, d)
    PROVE  Ranges' /\ Found' /\ Fresh'
<1> DEFINE p == Press(rec[i], 0)
<1>1. rec \in [Inputs -> Recogniser] /\ rec[i] \in Recogniser /\ 0 \in Int /\ d \in 0 .. MaxHold
  BY Bounds DEF MeantInv, RealInv, Typed
<1>2. /\ p.taps = rec[i].taps /\ p.rel = rec[i].rel /\ p.block = rec[i].block
      /\ p.edge = rec[i].edge \/ p.edge = -0
      /\ p.downAge = -0
  BY <1>1, PressIs, PressRange DEF HoldBegins
<1>3. rec' = [rec EXCEPT ![i] = p]
  BY DEF HoldBegins
<1> HIDE DEF p
<1>4. InRange(p)
  BY <1>1, <1>2, Bounds DEF InRange, MeantInv, Ranges
<1>5. \A j \in Inputs : InRange(rec'[j]) /\ rec'[j].block = rec[j].block
  BY <1>1, <1>2, <1>3, <1>4 DEF MeantInv, Ranges
<1>6. /\ UNCHANGED <<felt, boot, was>> /\ pc = "loop" /\ pc' = "hold" /\ fired' = {} /\ toggled' = 0
      /\ walk'.input = i /\ walk'.end = d
  BY DEF HoldBegins
<1>7. Ranges' /\ Found'
  BY <1>1, <1>5, <1>6 DEF MeantInv, Ranges, Found
<1>8. Fresh'
  BY <1>1, <1>2, <1>3, <1>6 DEF Fresh
<1> QED BY <1>7, <1>8

\* The hold of the power button switches the power once: off leaves it up, and
\* on leaves the console without an input.
LEMMA HoldWalksMeant == MeantInv /\ HoldWalks => Ranges' /\ Found' /\ Fresh' /\ Present
<1> SUFFICES ASSUME MeantInv, HoldWalks PROVE Ranges' /\ Found' /\ Fresh' /\ Present
  OBVIOUS
<1> DEFINE i == walk.input
           u == PollInput(Device(rec, off, boot, pc, toggled, {}), i, HoldAt)
<1>1. /\ rec \in [Inputs -> Recogniser] /\ off \in BOOLEAN /\ boot \in Int /\ i \in Inputs
      /\ pc = "hold" /\ walk.mine /\ (rec[i].down \/ rec[i].taps = 0)
      /\ HoldAt # None /\ HoldAt <= walk.end /\ walk.end \in 0 .. MaxHold
      /\ walk \in [input : Inputs, end : Int, mine : BOOLEAN]
  BY DEF MeantInv, RealInv, Typed, Ranges, HoldWalks
<1>2. rec[i].down
  BY <1>1 DEF HoldAt, NextPoll
<1>3. rec[i].downAge = 0 /\ (i = "power" /\ ~rec[i].held => toggled = 0)
  BY <1>1, <1>2 DEF MeantInv, Fresh
<1>4. HoldAt \in 0 .. LongTime
  <2>1. HoldAt = HoldTime - rec[i].downAge \/ HoldAt = LongTime - rec[i].downAge
    BY <1>1, <1>2, Bounds DEF HoldAt, NextPoll, HoldFor, LongFor
  <2> QED BY <1>3, <2>1, Bounds
<1>5. Becomes(u)
  <2>1. State = Device(rec, off, boot, pc, toggled, {})
    BY DEF State, Device
  <2> QED BY <2>1, Zenon DEF HoldWalks
<1>6. /\ PollLeaves(rec, off, pc, i, u)
      /\ PollMeans(rec, off, boot, pc, toggled, {}, i, HoldAt, u)
  <2>1. HoldAt \in Int
    BY <1>4, Bounds
  <2>2. rec \in [Inputs -> Recogniser] /\ off \in BOOLEAN /\ boot \in Int /\ i \in Inputs
    BY <1>1
  <2> HIDE DEF i, HoldAt
  <2> QED BY <2>1, <2>2, PollIs, PollMeant
<1> HIDE DEF u
<1>7. /\ rec' = u.rec /\ off' = u.off /\ boot' = u.boot /\ pc' = u.pc /\ toggled' = u.toggled
      /\ fired' = u.fired
  BY <1>5 DEF Becomes
<1>8. /\ \A j \in Inputs : rec'[j].down => rec[j].down /\ rec'[j].downAge = rec[j].downAge
      /\ pc' = "hold"
  BY <1>1, <1>2, <1>6, <1>7 DEF PollLeaves
<1>9. /\ \A j \in Inputs : InRange(rec'[j]) /\ rec'[j].edge \in {rec[j].edge, Lockout}
      /\ \/ boot' = boot /\ \A j \in Inputs : rec'[j].block = rec[j].block
         \/ boot' = BootWait + HoldAt /\ \A j \in Inputs : rec'[j].block = BootWait + HoldAt
      /\ \/ toggled' = toggled
         \/ i = "power" /\ ~rec[i].held /\ toggled' = toggled + 1 /\ \A j \in Inputs : ~rec'[j].down
      /\ rec'[i].down /\ ~rec'[i].held => ~rec[i].held
      /\ fired' \subseteq Reports
  <2>1. \A j \in Inputs : InRange(rec[j])
    BY DEF MeantInv, Ranges
  <2> QED BY <1>6, <1>7, <2>1 DEF PollMeans
<1> HIDE DEF HoldAt
<1>10. boot' \in Waits /\ boot' \in Blocks /\ \A j \in Inputs : rec'[j].block = boot'
  <2>1. boot \in Waits /\ \A j \in Inputs : rec[j].block = boot
    BY <1>1 DEF MeantInv, Ranges, Found
  <2>2. BootWait + HoldAt \in Waits
    BY <1>4, Bounds DEF Waits
  <2>3. \A w \in Waits : w \in Blocks
    BY Bounds DEF Waits, Blocks
  <2>4. boot' \in Waits /\ \A j \in Inputs : rec'[j].block = boot'
    BY <1>9, <2>1, <2>2
  <2> QED BY <2>3, <2>4
<1>11. toggled' \in 0 .. 1
  <2>1. toggled \in 0 .. 1
    BY DEF MeantInv, Ranges
  <2> QED BY <1>3, <1>9, <2>1
<1>12. walk'.input = i /\ walk'.end = walk.end /\ UNCHANGED <<felt, was>>
  BY <1>1 DEF HoldWalks
<1>13. Ranges'
  BY <1>8, <1>9, <1>10, <1>11, <1>12 DEF MeantInv, Ranges
<1>14. Found'
  BY <1>8, <1>10 DEF Found
<1>15. Fresh'
  BY <1>1, <1>3, <1>8, <1>9, <1>12 DEF Fresh
<1>16. Present
  BY <1>9, Bounds DEF Present
<1> QED BY <1>13, <1>14, <1>15, <1>16

LEMMA HoldEndsMeant == MeantInv /\ HoldEnds => Ranges' /\ Found' /\ Fresh'
<1> SUFFICES ASSUME MeantInv, HoldEnds PROVE Ranges' /\ Found' /\ Fresh'
  OBVIOUS
<1> DEFINE i == walk.input
           q == Release(rec[i], walk.end)
<1>1. /\ rec \in [Inputs -> Recogniser] /\ i \in Inputs /\ walk.end \in 0 .. MaxHold
      /\ UNCHANGED <<felt, boot, was, walk, toggled>> /\ pc = "hold" /\ pc' = "loop" /\ fired' = {}
      /\ \A j \in Inputs : InRange(rec[j])
  BY DEF MeantInv, RealInv, Typed, Ranges, HoldEnds
<1>2. \A j \in Inputs : InRange(rec'[j]) /\ rec'[j].block = rec[j].block
  <2>1. CASE walk.mine
    <3>1. rec' = [rec EXCEPT ![i] = q]
      BY <2>1 DEF HoldEnds
    <3>2. rec[i] \in Recogniser /\ walk.end \in Int /\ rec[i].taps \in 0 .. MaxTaps
      BY <1>1, Bounds DEF InRange
    <3>3. /\ q.block = rec[i].block /\ q.taps \in 0 .. MaxTaps
          /\ q.edge = rec[i].edge \/ q.edge = -walk.end
          /\ q.rel = rec[i].rel \/ q.rel = -walk.end
          /\ q.downAge = IF rec[i].down THEN 0 ELSE rec[i].downAge
      BY <3>2, ReleaseRange
    <3> HIDE DEF q
    <3>4. -walk.end \in -MaxAhead .. 0
      BY <1>1, Bounds
    <3>5. InRange(q)
      <4>1. InRange(rec[i])
        BY <1>1
      <4> QED BY <3>3, <3>4, <4>1, Bounds DEF InRange
    <3> QED BY <1>1, <3>1, <3>3, <3>5
  <2>2. CASE ~walk.mine
    BY <1>1, <2>2 DEF HoldEnds
  <2> QED BY <2>1, <2>2
<1> QED BY <1>1, <1>2 DEF MeantInv, Ranges, Found, Fresh

LEMMA BlockRange ==
    ASSUME NEW r \in Recogniser, InRange(r)
    PROVE  InRange(Block(r)) /\ Block(r).block \in Blocks /\ Block(r).edge = r.edge
<1>1. /\ Block(r).block = MaxUpdate + 1 /\ Block(r).downAge = 0 /\ Block(r).taps = 0
      /\ Block(r).edge = r.edge /\ Block(r).rel = r.rel
  BY DEF Block, Recogniser
<1> QED BY <1>1, Bounds DEF InRange, Blocks

LEMMA UpdateMeant ==
    MeantInv /\ (UpdateFails \/ UpdateDownloads \/ UpdateRenews \/ UpdateEnds)
       => Ranges' /\ Found' /\ Fresh' /\ Present
<1> SUFFICES ASSUME MeantInv, UpdateFails \/ UpdateDownloads \/ UpdateRenews \/ UpdateEnds
             PROVE  Ranges' /\ Found' /\ Fresh' /\ Present
  OBVIOUS
<1>1. /\ rec \in [Inputs -> Recogniser] /\ was \in [Inputs -> Waits] /\ boot \in Waits
      /\ UNCHANGED <<felt, boot, walk, toggled>> /\ fired' = {}
      /\ pc' \in {"loop", "get"}
      /\ \A i \in Inputs : InRange(rec[i]) /\ rec[i].block \in Blocks
  BY DEF MeantInv, RealInv, Typed, Ranges, UpdateFails, UpdateDownloads, UpdateRenews, UpdateEnds
<1>2. Fresh'
  BY <1>1 DEF Fresh
<1>3. CASE UpdateFails
  BY <1>1, <1>2, <1>3 DEF MeantInv, Ranges, Found, Present, UpdateFails
<1>4. CASE UpdateDownloads
  <2>1. rec' = [i \in Inputs |-> Block(rec[i])] /\ was' = [i \in Inputs |-> rec[i].block] /\ pc = "ask" /\ pc' = "get"
    BY <1>4 DEF UpdateDownloads
  <2>2. \A i \in Inputs : rec[i].block = boot
    BY <2>1 DEF MeantInv, Found
  <2>3. \A i \in Inputs : InRange(rec'[i]) /\ rec'[i].block \in Blocks /\ rec'[i].edge = rec[i].edge
    BY <1>1, <2>1, BlockRange
  <2>4. was' \in [Inputs -> Waits] /\ \A i \in Inputs : was'[i] = boot
    BY <1>1, <2>1, <2>2
  <2> QED BY <1>1, <1>2, <2>1, <2>3, <2>4 DEF MeantInv, Ranges, Found, Present
<1>5. CASE UpdateRenews
  <2>1. rec' = [i \in Inputs |-> Block(rec[i])] /\ was' = was /\ pc = "get" /\ pc' = "get"
    BY <1>5 DEF UpdateRenews
  <2>2. \A i \in Inputs : InRange(rec'[i]) /\ rec'[i].block \in Blocks /\ rec'[i].edge = rec[i].edge
    BY <1>1, <2>1, BlockRange
  <2> QED BY <1>1, <1>2, <2>1, <2>2 DEF MeantInv, Ranges, Found, Present
<1>6. CASE UpdateEnds
  <2>1. /\ rec' = [i \in Inputs |-> [rec[i] EXCEPT !.block = was[i]]] /\ was' = was
        /\ pc = "get" /\ pc' = "loop"
    BY <1>6 DEF UpdateEnds
  <2>2. \A i \in Inputs : was[i] = boot
    BY <2>1 DEF MeantInv, Found
  <2>3. ASSUME NEW i \in Inputs
        PROVE  /\ rec'[i].block = boot /\ rec'[i].downAge = rec[i].downAge /\ rec'[i].edge = rec[i].edge
               /\ rec'[i].taps = rec[i].taps /\ rec'[i].rel = rec[i].rel
    BY <1>1, <2>1, <2>2 DEF Recogniser
  <2>4. boot \in Blocks
    BY <1>1, Bounds DEF Waits, Blocks
  <2>5. \A i \in Inputs : InRange(rec'[i]) /\ rec'[i].block \in Blocks
    BY <1>1, <2>3, <2>4 DEF InRange
  <2> QED BY <1>1, <1>2, <2>1, <2>3, <2>5 DEF MeantInv, Ranges, Found, Present
<1> QED BY <1>3, <1>4, <1>5, <1>6

-----------------------------------------------------------------------------
(* How far ahead an edge lies *)

LEMMA EndedStays ==
    ASSUME MeantInv, Present, until' = until, pc' = "hold" => pc = "hold" /\ walk'.input = walk.input /\ walk'.end = walk.end
    PROVE  Ended'
<1>1. ASSUME NEW i \in Inputs PROVE rec'[i].edge + until'[i] >= 0
  <2>1. until[i] \in Nat /\ rec[i].edge + until[i] >= 0
    BY Bounds DEF MeantInv, Ended
  <2> QED BY <2>1, Bounds DEF Present
<1> QED BY <1>1 DEF MeantInv, Ended

LEMMA TickEnded == MeantInv /\ Tick => Ended'
<1> SUFFICES ASSUME MeantInv, Tick PROVE Ended'
  OBVIOUS
<1>1. until' = [i \in Inputs |-> Less(until[i])] /\ pc # "hold" /\ pc' = pc
  BY DEF Tick
<1>2. ASSUME NEW i \in Inputs PROVE until'[i] \in 0 .. MaxAhead /\ rec'[i].edge + until'[i] >= 0
  <2>1. /\ rec[i] \in Recogniser /\ until[i] \in 0 .. MaxAhead /\ rec[i].edge + until[i] >= 0
        /\ rec[i].edge \in Int
    BY DEF MeantInv, RealInv, Typed, Ended, Recogniser
  <2>2. until'[i] = Less(until[i])
    BY <1>1
  <2>3. rec'[i].edge = More(rec[i].edge, Lockout)
    BY <2>1 DEF Tick, Recogniser
  <2> QED BY <2>1, <2>2, <2>3, Bounds DEF Less, More
<1> QED BY <1>1, <1>2 DEF Ended

\* A tap dates its edges ahead by its own length at most.
LEMMA OnceEdge ==
    ASSUME NEW r \in Recogniser, r.taps \in 0 .. MaxTaps, NEW t \in Nat, NEW m \in Nat, t + TapHold <= m, r.edge + m >= 0
    PROVE  LET q == Release(Press(r, t), t + TapHold)
           IN  q \in Recogniser /\ q.taps \in 0 .. MaxTaps /\ q.edge + m >= 0
<1> DEFINE p == Press(r, t)
           q == Release(p, t + TapHold)
<1>1. t \in Int /\ t + TapHold \in Int
  BY Bounds
<1>2. p \in Recogniser /\ p.taps = r.taps /\ (p.edge = r.edge \/ p.edge = -t)
  BY <1>1, PressIs, PressRange
<1> HIDE DEF p
<1>3. q.taps \in 0 .. MaxTaps /\ (q.edge = p.edge \/ q.edge = -(t + TapHold))
  BY <1>1, <1>2, ReleaseRange
<1>4. q \in Recogniser
  BY <1>1, OnceIs DEF p
<1> HIDE DEF q
<1>5. q.edge + m >= 0
  BY <1>1, <1>2, <1>3, Bounds DEF Recogniser
<1> QED BY <1>3, <1>4, <1>5 DEF p, q

LEMMA TapEnded ==
    ASSUME NEW i \in Inputs, NEW n \in 1 .. 3, MeantInv, Tap(i, n)
    PROVE  Ended'
<1> DEFINE once(r, t) == Release(Press(r, t), t + TapHold)
           two(r) == IF Takes(r, TapStep) THEN once(r, TapStep) ELSE r
           three(r) == IF Takes(r, 2 * TapStep) THEN once(r, 2 * TapStep) ELSE r
           r1 == once(rec[i], 0)
           q == IF n = 1 THEN r1 ELSE IF n = 2 THEN two(r1) ELSE three(two(r1))
           m == (n - 1) * TapStep + TapHold
           Good(r, k) == r \in Recogniser /\ r.taps \in 0 .. MaxTaps /\ r.edge + k >= 0
<1>1. /\ rec \in [Inputs -> Recogniser] /\ until \in [Inputs -> 0 .. MaxAhead] /\ pc' = "loop"
      /\ \A j \in Inputs : rec[j].edge + until[j] >= 0
  BY DEF MeantInv, RealInv, Typed, Ended, Tap
<1>2. Good(rec[i], 0)
  <2>1. rec[i] \in Recogniser /\ rec[i].taps \in 0 .. MaxTaps /\ rec[i].edge \in Int
    BY <1>1 DEF MeantInv, Ranges, InRange, Recogniser
  <2>2. rec[i].edge + 0 >= Lockout
    BY DEF Tap, Takes
  <2> QED BY <2>1, <2>2, Bounds
<1>3. ASSUME NEW r, NEW k \in Nat, Good(r, k), NEW t \in {0, TapStep, 2 * TapStep}
      PROVE  Good(once(r, t), IF k > t + TapHold THEN k ELSE t + TapHold)
  <2> DEFINE z == IF k > t + TapHold THEN k ELSE t + TapHold
  <2>1. t \in Nat /\ z \in Nat /\ t + TapHold <= z /\ k <= z
    BY Bounds
  <2>2. r \in Recogniser /\ r.taps \in 0 .. MaxTaps /\ r.edge \in Int /\ r.edge + k >= 0
    BY <1>3 DEF Recogniser
  <2> HIDE DEF z
  <2>3. r.edge + z >= 0
    BY <2>1, <2>2
  <2>4. Good(once(r, t), z)
    BY <2>1, <2>2, <2>3, OnceEdge
  <2> QED BY <2>4 DEF z
<1> HIDE DEF once
<1>4. Good(r1, 1)
  <2>1. Good(once(rec[i], 0), IF 0 > 0 + TapHold THEN 0 ELSE 0 + TapHold)
    BY <1>2, <1>3
  <2> QED BY <2>1, Bounds
<1>5. ASSUME NEW r, Good(r, 1) PROVE Good(two(r), 3)
  <2>1. Good(once(r, TapStep), IF 1 > TapStep + TapHold THEN 1 ELSE TapStep + TapHold)
    BY <1>3, <1>5
  <2>2. Good(once(r, TapStep), 3)
    BY <2>1, Bounds
  <2>3. r \in Recogniser /\ r.edge \in Int /\ r.edge + 1 >= 0 /\ r.taps \in 0 .. MaxTaps
    BY <1>5 DEF Recogniser
  <2>4. Good(r, 3)
    BY <2>3
  <2> QED BY <2>2, <2>4
<1>6. ASSUME NEW r, Good(r, 3) PROVE Good(three(r), 5)
  <2>1. Good(once(r, 2 * TapStep), IF 3 > 2 * TapStep + TapHold THEN 3 ELSE 2 * TapStep + TapHold)
    BY <1>3, <1>6
  <2>2. Good(once(r, 2 * TapStep), 5)
    BY <2>1, Bounds
  <2>3. r \in Recogniser /\ r.edge \in Int /\ r.edge + 3 >= 0 /\ r.taps \in 0 .. MaxTaps
    BY <1>6 DEF Recogniser
  <2>4. Good(r, 5)
    BY <2>3
  <2> QED BY <2>2, <2>4
<1> HIDE DEF r1, two, three
<1>7. m \in 0 .. MaxAhead /\ (n = 1 => m = 1) /\ (n = 2 => m = 3) /\ (n = 3 => m = 5)
  <2>1. n = 1 \/ n = 2 \/ n = 3
    OBVIOUS
  <2> QED BY <2>1, Bounds
<1> HIDE DEF m
<1>8. q.edge + m >= 0
  <2> HIDE DEF q
  <2>1. CASE n = 1
    BY <1>4, <1>7, <2>1 DEF q
  <2>2. CASE n = 2
    <3>1. q = two(r1)
      BY <2>2 DEF q
    <3> QED BY <1>4, <1>5, <1>7, <2>2, <3>1
  <2>3. CASE n = 3
    <3>1. q = three(two(r1))
      BY <2>3 DEF q
    <3> QED BY <1>4, <1>5, <1>6, <1>7, <2>3, <3>1
  <2> QED BY <2>1, <2>2, <2>3
<1>9. rec' = [rec EXCEPT ![i] = q] /\ until' = [until EXCEPT ![i] = m]
  BY DEF Tap, once, r1, two, three, m
<1> HIDE DEF q
<1> QED BY <1>1, <1>7, <1>8, <1>9 DEF Ended

LEMMA HoldBeginsEnded ==
    ASSUME NEW i \in Inputs, NEW d \in Holds, MeantInv, HoldBegins(i, d)
    PROVE  Ended'
<1> DEFINE p == Press(rec[i], 0)
<1>1. /\ rec \in [Inputs -> Recogniser] /\ until \in [Inputs -> 0 .. MaxAhead]
      /\ rec' = [rec EXCEPT ![i] = p] /\ until' = [until EXCEPT ![i] = d]
      /\ walk'.input = i /\ walk'.end = d
      /\ \A j \in Inputs : rec[j].edge + until[j] >= 0
  BY DEF MeantInv, RealInv, Typed, Ended, HoldBegins
<1>2. d \in 0 .. MaxAhead
  BY Bounds
<1>3. p.edge \in Int /\ p.edge >= 0
  <2>1. rec[i] \in Recogniser /\ Takes(rec[i], 0)
    BY <1>1 DEF HoldBegins
  <2>2. p = [rec[i] EXCEPT !.down = TRUE, !.downAge = -0, !.edge = -0, !.held = FALSE, !.long = FALSE]
    BY <2>1 DEF Press
  <2>3. p.edge = -0
    BY <2>1, <2>2 DEF Recogniser
  <2> HIDE DEF p
  <2> QED BY <2>3
<1> HIDE DEF p
<1>4. until' \in [Inputs -> 0 .. MaxAhead] /\ until'[i] = d /\ rec'[i].edge \in Int /\ rec'[i].edge >= 0
  BY <1>1, <1>2, <1>3
<1>5. ASSUME NEW j \in Inputs PROVE rec'[j].edge + until'[j] >= 0
  BY <1>1, <1>2, <1>4
<1> QED BY <1>1, <1>4, <1>5 DEF Ended

LEMMA HoldEndsEnded == MeantInv /\ HoldEnds => Ended'
<1> SUFFICES ASSUME MeantInv, HoldEnds PROVE Ended'
  OBVIOUS
<1> DEFINE i == walk.input
           q == Release(rec[i], walk.end)
<1>1. /\ rec \in [Inputs -> Recogniser] /\ i \in Inputs /\ walk.end \in Nat /\ until[i] = walk.end
      /\ until' = until /\ pc' = "loop" /\ rec[i].taps \in 0 .. MaxTaps
      /\ \A j \in Inputs : rec[j].edge + until[j] >= 0
  BY Bounds DEF MeantInv, RealInv, Typed, Ranges, InRange, Ended, HoldEnds
<1>2. q.edge = rec[i].edge \/ q.edge = -walk.end
  BY <1>1, ReleaseRange
<1>3. rec' = rec \/ rec' = [rec EXCEPT ![i] = q]
  BY DEF HoldEnds
<1> HIDE DEF q, i
<1>4. ASSUME NEW j \in Inputs PROVE rec'[j].edge + until'[j] >= 0
  BY <1>1, <1>2, <1>3
<1> QED BY <1>1, <1>4 DEF MeantInv, Ended

LEMMA EndedStep == MeantInv /\ [Next]_vars => Ended'
<1> SUFFICES ASSUME MeantInv, [Next]_vars PROVE Ended'
  OBVIOUS
<1>1. CASE UNCHANGED vars
  BY <1>1 DEF MeantInv, Ended, vars
<1>2. CASE Moves
  BY <1>2, MovesMeant, EndedStays DEF Moves
<1>3. CASE Pass
  <2>1. Present /\ until' = until /\ pc' # "hold"
    BY <1>3, PassMeant DEF Pass
  <2> QED BY <2>1, EndedStays
<1>4. CASE HoldWalks
  <2>1. Present /\ until' = until /\ pc = "hold"
    BY <1>4, HoldWalksMeant DEF HoldWalks
  <2>2. walk'.input = walk.input /\ walk'.end = walk.end
    BY <1>4 DEF HoldWalks, MeantInv, RealInv, Typed
  <2> QED BY <2>1, <2>2, EndedStays
<1>5. CASE UpdateFails \/ UpdateDownloads \/ UpdateRenews \/ UpdateEnds
  <2>1. Present
    BY <1>5, UpdateMeant
  <2>2. until' = until /\ pc' # "hold"
    BY <1>5 DEF UpdateFails, UpdateDownloads, UpdateRenews, UpdateEnds
  <2> QED BY <2>1, <2>2, EndedStays
<1>6. ASSUME NEW i \in Inputs, NEW n \in 1 .. 3, Tap(i, n) PROVE Ended'
  BY <1>6, TapEnded
<1>7. ASSUME NEW i \in Inputs, NEW d \in Holds, HoldBegins(i, d) PROVE Ended'
  BY <1>7, HoldBeginsEnded
<1> QED
  BY <1>1, <1>2, <1>3, <1>4, <1>5, <1>6, <1>7, TickEnded, HoldEndsEnded DEF Next

LEMMA MeantStep == MeantInv /\ [Next]_vars => MeantInv'
<1> SUFFICES ASSUME MeantInv, [Next]_vars PROVE MeantInv'
  OBVIOUS
<1>0. RealInv'
  BY RealStep DEF MeantInv
<1>4. Ended'
  BY EndedStep
<1> SUFFICES Ranges' /\ Found' /\ Fresh'
  BY <1>0, <1>4 DEF MeantInv
<1>1. CASE UNCHANGED vars
  BY <1>1 DEF MeantInv, Ranges, Found, Fresh, vars
<1>2. ASSUME NEW i \in Inputs, NEW n \in 1 .. 3, Tap(i, n) PROVE Ranges' /\ Found' /\ Fresh'
  BY <1>2, TapMeant
<1>3. ASSUME NEW i \in Inputs, NEW d \in Holds, HoldBegins(i, d) PROVE Ranges' /\ Found' /\ Fresh'
  BY <1>3, HoldBeginsMeant
<1> QED
  BY <1>1, <1>2, <1>3, TickMeant, MovesMeant, PassMeant, HoldWalksMeant, HoldEndsMeant, UpdateMeant DEF Next

\* A hold switches the power once, whether it switches it on or off; and outside
\* a download an input that is up refuses a press only in the wait after a
\* boot, whatever downloads renewed their block in between, in the lockout of
\* its last edge, and while a gesture the console made on that input lasts,
\* whose edges lie ahead (HoldFor, Tap, press, PowerOn, PowerOff, FetchUpdate).
THEOREM AsMeantHolds == Spec => []AsMeant
BY MeantInit, MeantStep, MeantIs, PTL DEF Spec
=============================================================================
