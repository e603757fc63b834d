----------------------------- MODULE MeshProofs -----------------------------
(***************************************************************************)
(* The mesh, for any number of nodes, any clocks and any limits.  However  *)
(* clocks are set, borrowed and corrected and the power goes and comes, a  *)
(* node has one chain of windows and one of mesh ticks, a peer makes it    *)
(* ask once in SendFreq, it passes a frame on once, sends its own twice,   *)
(* and its table of frames seen stays within its limit.                    *)
(***************************************************************************)
EXTENDS Mesh, FiniteSetTheorems, WellFoundedInduction, TLAPS

\* The types the two arguments need.
ChainTypes ==
    /\ off \in [Nodes -> BOOLEAN]
    /\ clock \in [Nodes -> Offsets \cup {None}]
    /\ gnss \in [Nodes -> BOOLEAN]
    /\ win \in [Nodes -> Int] /\ tick \in [Nodes -> Int] /\ burst \in [Nodes -> Nat]

\* A clock of the node's own is a clock.
OwnClock == \A n \in Nodes : gnss[n] => clock[n] # None

ChainInv == ChainTypes /\ OwnClock /\ OneChain

LEMMA NoneNoOffset == None \notin Offsets /\ \A o \in Offsets : o \in Nat
BY BoundsAssumption DEF None

LEMMA ChainInit == Init => ChainInv
<1> SUFFICES ASSUME Init PROVE ChainInv
  OBVIOUS
<1>1. clock \in [Nodes -> Offsets \cup {None}]
  <2>1. CASE "clock" \in kit
    BY <2>1 DEF Init
  <2>2. CASE "clock" \notin kit
    <3>1. clock \in [Nodes -> Offsets]
      BY <2>2, BoundsAssumption DEF Init
    <3> QED BY <3>1
  <2> QED BY <2>1, <2>2
<1>2. \A n \in Nodes : gnss[n] <=> clock[n] # None
  <2>1. CASE "clock" \in kit
    BY <2>1 DEF Init
  <2>2. CASE "clock" \notin kit
    <3>1. clock \in [Nodes -> Offsets] /\ gnss = [n \in Nodes |-> TRUE]
      BY <2>2, BoundsAssumption DEF Init
    <3> QED BY <3>1, NoneNoOffset
  <2> QED BY <2>1, <2>2
<1>3. ChainTypes
  BY <1>1 DEF Init, ChainTypes
<1>4. OneChain
  BY <1>1, <1>2, NoneNoOffset DEF Init, OneChain
<1> QED BY <1>2, <1>3, <1>4 DEF ChainInv, OwnClock

\* A clock that is taken starts the chains of a device that is on, and of no
\* other.
LEMMA TakesClockChain ==
    ASSUME ChainInv, NEW n \in Nodes, NEW o \in Offsets, NEW own \in BOOLEAN,
           TakesClock(n, o, own), UNCHANGED off
    PROVE  ChainInv'
<1>1. ChainTypes'
  BY BoundsAssumption DEF ChainInv, ChainTypes, TakesClock, StartAligned, sched
<1>2. OwnClock'
  BY NoneNoOffset DEF ChainInv, ChainTypes, TakesClock, OwnClock
<1>3. OneChain'
  BY NoneNoOffset DEF ChainInv, ChainTypes, TakesClock, StartAligned, OneChain, sched
<1> QED BY <1>1, <1>2, <1>3 DEF ChainInv

LEMMA ChainStep ==
    ASSUME ChainInv, [Next]_vars
    PROVE  ChainInv'
<1> DEFINE Same == UNCHANGED <<off, clock, gnss, win, tick, burst>>
<1>0. Same => ChainInv'
  BY DEF ChainInv, ChainTypes, OwnClock, OneChain
<1>1. CASE PassTime
  BY <1>0, <1>1 DEF PassTime, clocks, sched
<1>2. ASSUME NEW r \in BOOLEAN, Foreign(r) PROVE ChainInv'
  BY <1>0, <1>2 DEF Foreign, clocks, sched
<1>3. ASSUME NEW f \in air, ForeignAgain(f) PROVE ChainInv'
  BY <1>0, <1>3 DEF ForeignAgain, clocks, sched
<1>4. ASSUME NEW n \in Nodes, NEW o \in Offsets, SetClock(n, o) PROVE ChainInv'
  BY <1>4, TakesClockChain DEF SetClock
<1>5. ASSUME NEW n \in Nodes, NEW o \in Offsets, ReadClock(n, o) PROVE ChainInv'
  <2>1. CASE gnss[n]
    <3>1. clock' = [clock EXCEPT ![n] = o] /\ UNCHANGED <<gnss, off, win, tick, burst>>
      BY <1>5, <2>1 DEF ReadClock, sched
    <3>2. ChainTypes'
      BY <3>1 DEF ChainInv, ChainTypes
    <3>3. \A m \in Nodes : clock'[m] = None <=> clock[m] = None
      BY <3>1, <2>1, NoneNoOffset DEF ChainInv, ChainTypes, OwnClock
    <3>4. OwnClock' /\ OneChain'
      BY <3>1, <3>3 DEF ChainInv, OwnClock, OneChain
    <3> QED BY <3>2, <3>4 DEF ChainInv
  <2>2. CASE ~gnss[n]
    BY <1>5, <2>2, TakesClockChain DEF ReadClock
  <2> QED BY <2>1, <2>2
<1>6. ASSUME NEW n \in Nodes, NEW p \in Nodes, NEW carried \in BOOLEAN, OnStatus(n, p, carried)
      PROVE  ChainInv'
  <2>1. CASE Adopts(n, p)
    <3>1. clock[p] \in Offsets
      BY <2>1 DEF Adopts, ChainInv, ChainTypes, OwnClock
    <3> QED BY <1>6, <2>1, <3>1, TakesClockChain DEF OnStatus
  <2>2. CASE ~Adopts(n, p)
    BY <1>0, <1>6, <2>2 DEF OnStatus, clocks, sched
  <2> QED BY <2>1, <2>2
<1>7. ASSUME NEW n \in Nodes, PowerOff(n) PROVE ChainInv'
  <2>1. ChainTypes'
    BY <1>7 DEF PowerOff, ChainInv, ChainTypes, clocks
  <2>2. OwnClock' /\ OneChain'
    BY <1>7 DEF PowerOff, ChainInv, ChainTypes, OwnClock, OneChain, clocks
  <2> QED BY <2>1, <2>2 DEF ChainInv
<1>8. ASSUME NEW n \in Nodes, PowerOn(n) PROVE ChainInv'
  <2>1. ChainTypes'
    BY <1>8 DEF PowerOn, ChainInv, ChainTypes, clocks
  <2>2. off[n] /\ win[n] = 0 /\ tick[n] = 0 /\ burst[n] = 0
    BY <1>8 DEF PowerOn, ChainInv, OneChain
  <2>3. OwnClock' /\ OneChain'
    BY <1>8, <2>2 DEF PowerOn, ChainInv, ChainTypes, OwnClock, OneChain, clocks
  <2> QED BY <2>1, <2>3 DEF ChainInv
<1>9. ASSUME NEW n \in Nodes, MeshTick(n) PROVE ChainInv'
  BY <1>0, <1>9 DEF MeshTick, clocks, sched
<1>10. ASSUME NEW n \in Nodes, NEW four, NEW pairing, Window(n, four, pairing) PROVE ChainInv'
  <2>1. PICK b \in 0 .. Bursts - 1 :
          burst' = [burst EXCEPT ![n] = IF clock[n] = None THEN b ELSE 0]
    BY <1>10 DEF Window
  <2>2. UNCHANGED <<off, clock, gnss, win, tick>> /\ win[n] > 0
    BY <1>10 DEF Window, clocks
  <2>3. b \in Nat
    BY BoundsAssumption
  <2>4. ChainTypes'
    BY <2>1, <2>2, <2>3 DEF ChainInv, ChainTypes
  <2>5. ~off[n]
    BY <2>2 DEF ChainInv, OneChain
  <2>6. OwnClock' /\ OneChain'
    BY <2>1, <2>2, <2>5 DEF ChainInv, ChainTypes, OwnClock, OneChain
  <2> QED BY <2>4, <2>6 DEF ChainInv
<1>11. ASSUME NEW n \in Nodes, NEW four, NEW pairing, Burst(n, four, pairing) PROVE ChainInv'
  <2>1. /\ burst' = [burst EXCEPT ![n] = burst[n] - 1] /\ burst[n] > 0
        /\ UNCHANGED <<off, clock, gnss, win, tick>>
    BY <1>11 DEF Burst, clocks
  <2>2. ChainTypes'
    BY <2>1 DEF ChainInv, ChainTypes
  <2>3. ~off[n] /\ clock[n] = None
    BY <2>1 DEF ChainInv, OneChain
  <2>4. OwnClock' /\ OneChain'
    BY <2>1, <2>3 DEF ChainInv, ChainTypes, OwnClock, OneChain
  <2> QED BY <2>2, <2>4 DEF ChainInv
<1>12. ASSUME NEW n \in Nodes, NEW f \in air, OnLocateEnds(n, f) PROVE ChainInv'
  BY <1>0, <1>12 DEF OnLocateEnds, clocks, sched
<1>13. ASSUME NEW n \in Nodes, NEW f \in air, NEW far, OnLocatePeer(n, f, far) PROVE ChainInv'
  BY <1>0, <1>13 DEF OnLocatePeer, clocks, sched
<1>14. ASSUME NEW n \in Nodes, NEW f \in air, NEW far, OnLocateStranger(n, f, far) PROVE ChainInv'
  BY <1>0, <1>14 DEF OnLocateStranger, clocks, sched
<1>15. CASE UNCHANGED vars
  BY <1>0, <1>15 DEF vars, clocks, sched
<1> QED BY <1>1, <1>2, <1>3, <1>4, <1>5, <1>6, <1>7, <1>8, <1>9, <1>10, <1>11, <1>12, <1>13,
           <1>14, <1>15 DEF Next

\* One chain of windows and one of ticks, and none on a device that is off,
\* however often a clock is set, adopted or corrected and the power switched
\* (startAligned, PowerOff, PowerOn).
THEOREM OneChainHolds == Spec => []OneChain
<1>1. ChainInv /\ [Next]_vars => ChainInv'
  BY ChainStep
<1>2. ChainInv => OneChain
  BY DEF ChainInv
<1> QED BY <1>1, <1>2, ChainInit, PTL DEF Spec

-----------------------------------------------------------------------------
PeerRecord == [via : BOOLEAN, stale : BOOLEAN, heard : Int, coords : Int,
               first : Int, next : Int, count : Int]

\* After a request that a peer caused, the next one is not due for SendFreq.
Throttled(n, p) ==
    pace[n][p] # None => pace[n][p] <= now /\ pace[n][p] + SendFreq <= peer[n][p].next

PaceInv ==
    /\ now \in Nat
    /\ peer \in [Nodes -> [Nodes -> PeerRecord]]
    /\ pace \in [Nodes -> [Nodes -> Int]]
    /\ \A n, p \in Nodes : Throttled(n, p)

LEMMA Numbers == {SendFreq, Delivery, StaleAfter, StaleHeard, PeerLimit} \subseteq Nat /\ None \in Int
BY BoundsAssumption DEF None

LEMMA PaceInit == Init => PaceInv
BY Numbers DEF Init, PaceInv, PeerRecord, Throttled

\* Ageing a peer's record leaves the time of the next request alone.
LEMMA AgedRecord ==
    ASSUME PaceInv, NEW q \in PeerRecord
    PROVE  Aged(q) \in PeerRecord /\ Aged(q).next = q.next
<1> DEFINE old == q.coords = None \/ now - q.coords > StaleAfter
           since == IF old /\ ~q.stale THEN now ELSE q.first
<1>1. Aged(q) = [q EXCEPT !.stale = old, !.first = since]
  BY DEF Aged
<1>2. old \in BOOLEAN /\ since \in Int
  BY DEF PaceInv, PeerRecord
<1> HIDE DEF old, since
<1> QED BY <1>1, <1>2 DEF PeerRecord

\* A frame from a peer leaves it alone too.
LEMMA HeardPace ==
    ASSUME PaceInv, NEW n \in Nodes, NEW p \in Nodes, NEW mesh \in BOOLEAN, NEW carried \in BOOLEAN,
           HeardFrom(n, p, mesh, carried), UNCHANGED <<now, pace>>
    PROVE  PaceInv'
<1> DEFINE pos == IF carried THEN now ELSE peer[n][p].coords
           new == [peer[n][p] EXCEPT !.via = mesh, !.stale = FALSE, !.heard = now, !.coords = pos]
<1>1. peer' = [peer EXCEPT ![n] = [peer[n] EXCEPT ![p] = new]]
  BY DEF PaceInv, HeardFrom, PeerRecord
<1>2. peer[n][p] \in PeerRecord /\ pos \in Int /\ now \in Int
  BY DEF PaceInv, PeerRecord
<1> HIDE DEF pos
<1>3. new \in PeerRecord /\ new.next = peer[n][p].next
  BY <1>2 DEF PeerRecord
<1> HIDE DEF new
<1>4. peer' \in [Nodes -> [Nodes -> PeerRecord]]
  BY <1>1, <1>3 DEF PaceInv
<1>5. \A m, r \in Nodes : peer'[m][r].next = peer[m][r].next
  BY <1>1, <1>3 DEF PaceInv
<1> QED BY <1>4, <1>5 DEF PaceInv, Throttled

\* A tick that makes p one of the peers asked for finds p due, and puts p off.
LEMMA TickPace ==
    ASSUME PaceInv, NEW n \in Nodes, MeshTick(n)
    PROVE  /\ PaceInv'
           /\ \A m, p \in Nodes : pace'[m][p] # pace[m][p] /\ pace[m][p] # None =>
                 now - pace[m][p] >= SendFreq
<1> DEFINE q == [p \in Nodes |-> IF p = n THEN peer[n][p] ELSE Aged(peer[n][p])]
           quiet == {p \in Nodes \ {n} : QuietOverMesh(q[p])}
           lost == {p \in Nodes \ {n} : Lost(n, p, q[p])}
           wanted == quiet \cup lost
           asks == wanted # {}
           new(p) == IF asks /\ p # n /\ (q[p].stale \/ p \in quiet)
                     THEN [q[p] EXCEPT !.next = now + SendFreq, !.count = @ + 1]
                     ELSE IF p # n /\ Waits(n, p, q[p]) THEN [q[p] EXCEPT !.next = now + Delivery]
                     ELSE q[p]
<1>1. /\ peer' = [peer EXCEPT ![n] = [p \in Nodes |-> new(p)]]
      /\ pace' = [pace EXCEPT ![n] = [p \in Nodes |-> IF p \in wanted THEN now ELSE @[p]]]
      /\ now' = now
  BY DEF MeshTick
<1>2. \A p \in Nodes : q[p] \in PeerRecord /\ q[p].next = peer[n][p].next
  BY AgedRecord DEF PaceInv
<1>3. \A p \in Nodes : p \in wanted => p # n /\ Due(q[p]) /\ (q[p].stale \/ p \in quiet)
  BY DEF QuietOverMesh, Lost
<1>4. \A p \in Nodes : Waits(n, p, q[p]) => Due(q[p])
  BY DEF Waits
<1> HIDE DEF q, quiet, lost
<1>5. \A p \in Nodes : p \in wanted => asks
  OBVIOUS
<1> HIDE DEF wanted, asks
<1>6. ASSUME NEW p \in Nodes
      PROVE  /\ new(p) \in PeerRecord
             /\ p \in wanted => new(p).next = now + SendFreq
             /\ new(p).next = now + SendFreq \/ new(p).next = peer[n][p].next
                \/ (new(p).next = now + Delivery /\ now >= peer[n][p].next)
  <2>1. q[p] \in PeerRecord /\ q[p].next = peer[n][p].next
    BY <1>2
  <2>2. CASE asks /\ p # n /\ (q[p].stale \/ p \in quiet)
    <3>1. new(p) = [q[p] EXCEPT !.next = now + SendFreq, !.count = @ + 1]
      BY <2>2
    <3>2. now + SendFreq \in Int /\ q[p].count + 1 \in Int
      BY <2>1, Numbers DEF PaceInv, PeerRecord
    <3>3. new(p) \in PeerRecord /\ new(p).next = now + SendFreq
      <4> DEFINE t == now + SendFreq
                 c == q[p].count + 1
      <4>1. new(p) = [q[p] EXCEPT !.next = t, !.count = c]
        BY <3>1
      <4>2. t \in Int /\ c \in Int
        BY <3>2
      <4> HIDE DEF t, c, new
      <4>3. new(p) \in PeerRecord /\ new(p).next = t
        BY <4>1, <4>2, <2>1 DEF PeerRecord
      <4> QED BY <4>3 DEF t
    <3> HIDE DEF new
    <3> QED BY <3>3
  <2>3. CASE ~(asks /\ p # n /\ (q[p].stale \/ p \in quiet)) /\ p # n /\ Waits(n, p, q[p])
    <3>1. new(p) = [q[p] EXCEPT !.next = now + Delivery]
      BY <2>3
    <3>2. p \notin wanted
      BY <2>3, <1>3, <1>5
    <3>3. now >= peer[n][p].next
      BY <2>3, <1>4, <2>1 DEF Due
    <3>4. now + Delivery \in Int
      BY Numbers DEF PaceInv
    <3>5. new(p) \in PeerRecord /\ new(p).next = now + Delivery
      <4> DEFINE t == now + Delivery
      <4>1. new(p) = [q[p] EXCEPT !.next = t] /\ t \in Int
        BY <3>1, <3>4
      <4> HIDE DEF t, new
      <4>2. new(p) \in PeerRecord /\ new(p).next = t
        BY <4>1, <2>1 DEF PeerRecord
      <4> QED BY <4>2 DEF t
    <3> HIDE DEF new
    <3> QED BY <3>2, <3>3, <3>5
  <2>4. CASE ~(asks /\ p # n /\ (q[p].stale \/ p \in quiet)) /\ ~(p # n /\ Waits(n, p, q[p]))
    <3>1. new(p) = q[p]
      BY <2>4
    <3>2. p \notin wanted
      BY <2>4, <1>3, <1>5
    <3> QED BY <2>1, <3>1, <3>2
  <2> QED BY <2>2, <2>3, <2>4
<1> HIDE DEF new
<1>7. peer' \in [Nodes -> [Nodes -> PeerRecord]] /\ pace' \in [Nodes -> [Nodes -> Int]]
  BY <1>1, <1>6 DEF PaceInv
<1>8. ASSUME NEW m \in Nodes, NEW p \in Nodes
      PROVE  Throttled(m, p)'
  <2>1. Throttled(m, p) /\ pace[m][p] \in Int /\ now \in Nat /\ peer[m][p].next \in Int
    BY DEF PaceInv, PeerRecord
  <2>2. CASE m # n
    BY <1>1, <2>1, <2>2 DEF PaceInv, Throttled
  <2>3. CASE m = n
    <3>1. peer'[m][p] = new(p) /\ pace'[m][p] = IF p \in wanted THEN now ELSE pace[m][p]
      BY <1>1, <2>3 DEF PaceInv
    <3>2. CASE p \in wanted
      BY <1>1, <1>6, <2>1, <3>1, <3>2, Numbers DEF Throttled
    <3>3. CASE p \notin wanted
      BY <1>1, <1>6, <2>1, <2>3, <3>1, <3>3, Numbers DEF Throttled
    <3> QED BY <3>2, <3>3
  <2> QED BY <2>2, <2>3
<1>9. ASSUME NEW m \in Nodes, NEW p \in Nodes, pace'[m][p] # pace[m][p], pace[m][p] # None
      PROVE  now - pace[m][p] >= SendFreq
  <2>1. m = n /\ p \in wanted
    BY <1>1, <1>9 DEF PaceInv
  <2>2. now >= peer[n][p].next
    BY <2>1, <1>2, <1>3 DEF Due
  <2>3. Throttled(n, p) /\ pace[n][p] \in Int /\ now \in Nat /\ peer[n][p].next \in Int
    BY DEF PaceInv, PeerRecord
  <2> QED BY <1>9, <2>1, <2>2, <2>3, Numbers DEF Throttled
<1> QED BY <1>1, <1>7, <1>8, <1>9 DEF PaceInv

LEMMA PaceStep ==
    ASSUME PaceInv, [Next]_vars
    PROVE  /\ PaceInv'
           /\ \A n, p \in Nodes : pace'[n][p] # pace[n][p] /\ pace[n][p] # None =>
                 now - pace[n][p] >= SendFreq
<1> DEFINE Goal == /\ PaceInv'
                   /\ \A n, p \in Nodes : pace'[n][p] # pace[n][p] /\ pace[n][p] # None =>
                         now - pace[n][p] >= SendFreq
<1> SUFFICES Goal
  OBVIOUS
<1>0. UNCHANGED <<now, peer, pace>> => Goal
  BY DEF PaceInv, Throttled
<1>00. PaceInv' /\ UNCHANGED pace => Goal
  OBVIOUS
<1>1. CASE PassTime
  BY <1>1 DEF PassTime, seeking, PaceInv, Throttled, PeerRecord
<1>2. ASSUME NEW n \in Nodes, NEW p \in Nodes, NEW carried \in BOOLEAN, OnStatus(n, p, carried)
      PROVE  Goal
  BY <1>00, <1>2, HeardPace DEF OnStatus
<1>3. ASSUME NEW n \in Nodes, NEW f \in air, NEW far, OnLocatePeer(n, f, far)
      PROVE  Goal
  BY <1>00, <1>3, HeardPace DEF OnLocatePeer
<1>4. ASSUME NEW n \in Nodes, MeshTick(n) PROVE Goal
  BY <1>4, TickPace
<1> HIDE DEF Goal
<1>5. CASE \/ \E request \in BOOLEAN : Foreign(request)
           \/ \E f \in air : ForeignAgain(f)
  BY <1>0, <1>5 DEF Foreign, ForeignAgain, seeking
<1>6. CASE \E n \in Nodes, o \in Offsets : SetClock(n, o) \/ ReadClock(n, o)
  BY <1>0, <1>6 DEF SetClock, ReadClock, seeking
<1>7. CASE \E n \in Nodes : PowerOff(n) \/ PowerOn(n)
  BY <1>0, <1>7 DEF PowerOff, PowerOn, seeking
<1>8. CASE \E n \in Nodes, four, pairing \in Moments : Window(n, four, pairing) \/ Burst(n, four, pairing)
  BY <1>0, <1>8 DEF Window, Burst, seeking
<1>9. CASE \E n \in Nodes, f \in air :
              OnLocateEnds(n, f) \/ \E far \in BOOLEAN : OnLocateStranger(n, f, far)
  BY <1>0, <1>9 DEF OnLocateEnds, OnLocateStranger, seeking
<1>10. CASE UNCHANGED vars
  BY <1>0, <1>10 DEF vars, seeking
<1> QED BY <1>1, <1>2, <1>3, <1>4, <1>5, <1>6, <1>7, <1>8, <1>9, <1>10 DEF Next

\* A peer, lost or quiet, makes a node ask once in SendFreq (meshTick): a
\* frame heard in between, a power cycle or the wait for a peer of the same
\* group never brings the next request forward.
THEOREM AskPacedHolds == Spec => AskPaced
<1>1. PaceInv /\ [Next]_vars => PaceInv'
  BY PaceStep
<1>2. PaceInv /\ [Next]_vars =>
        [\A n, p \in Nodes : pace'[n][p] # pace[n][p] /\ pace[n][p] # None =>
           now - pace[n][p] >= SendFreq]_vars
  BY PaceStep
<1> QED BY <1>1, <1>2, PaceInit, PTL DEF Spec, AskPaced

-----------------------------------------------------------------------------
(* The table of frames seen *)

LEMMA Constants ==
    /\ MaxUids \in Nat /\ MaxUids > 1 /\ MaxNow \in Nat /\ Lifetime \in Nat /\ Lifetime > 0
    /\ DedupeMin \in Nat /\ DedupeMin > 0 /\ DedupeMax \in Nat /\ RepeatMax \in Nat /\ RepeatMax > 0
    /\ RecentMax \in Nat /\ RecentMax > 0 /\ MaxHops \in Nat /\ MaxHops > 0 /\ Bursts \in Nat /\ Bursts > 0
    /\ AckLimit \in Nat /\ NoAckLimit \in Nat
    /\ RepeatMax <= DedupeMin
    /\ Stranger \notin Nodes /\ None = -1
BY BoundsAssumption, DedupeAssumption DEF None

Table ==
    /\ recent \in [Nodes -> [Uids -> 0 .. MaxNow + DedupeMax]] /\ evicted \in [Nodes -> SUBSET Uids]
    /\ \A n \in Nodes : Cardinality(Known(recent[n])) <= RecentMax

LEMMA UidsFinite == IsFiniteSet(Uids)
BY Constants, FS_Interval DEF Uids

\* A table that is not empty has an entry that lapses first.
LEMMA OldestIs ==
    ASSUME NEW t \in [Uids -> Nat], Known(t) # {}
    PROVE  Oldest(t) \in Known(t) /\ \A v \in Known(t) : t[Oldest(t)] <= t[v]
<1> DEFINE T == {t[u] : u \in Known(t)}
<1>1. T \subseteq Nat /\ T # {}
  BY DEF Known
<1>2. PICK x \in T : \A y \in T : ~(<<y, x>> \in OpToRel(<, Nat))
  BY <1>1, WFMin, NatLessThanWellFounded
<1>3. \A y \in T : x <= y
  <2> SUFFICES ASSUME NEW y \in T PROVE x <= y
    OBVIOUS
  <2>1. x \in Nat /\ y \in Nat
    BY <1>1
  <2>2. ~(y < x)
    BY <1>2, <2>1 DEF OpToRel
  <2> QED BY <2>1, <2>2
<1>4. PICK u \in Known(t) : x = t[u]
  OBVIOUS
<1>5. \A v \in Known(t) : t[u] <= t[v]
  BY <1>3, <1>4
<1> QED BY <1>5 DEF Oldest

\* What AddRecent does to one table: as Remembered says, and the frame that is
\* added stays until the copies of it that the node may hear have expired.
With(t, w, until) ==
    [u \in Uids |-> IF u = w THEN until ELSE IF u \in Evicts(Pruned(t)) THEN 0 ELSE Pruned(t)[u]]

MakesRoom(t, r, w, E) ==
    /\ E \subseteq Uids
    /\ Cardinality(Known(r)) <= RecentMax
    /\ \A u \in Uids : u # w => r[u] = t[u] \/ (r[u] = 0 /\ (t[u] <= now \/ u \in E))
    /\ \A u \in Uids : t[u] > now /\ r[u] = 0 =>
          /\ Cardinality(Known(r)) = RecentMax
          /\ \A v \in Known(r) : r[v] >= t[u] \/ t[v] = 0

LEMMA Added ==
    ASSUME NEW t \in [Uids -> Nat], Cardinality(Known(t)) <= RecentMax, now \in Nat,
           NEW w \in Uids, NEW until \in Nat, until > now, t[w] <= now
    PROVE  MakesRoom(t, With(t, w, until), w, Evicts(Pruned(t)))
<1> DEFINE p == Pruned(t)
           r == With(t, w, until)
<1> SUFFICES /\ Evicts(p) \subseteq Uids
             /\ Cardinality(Known(r)) <= RecentMax
             /\ \A u \in Uids : u # w => r[u] = t[u] \/ (r[u] = 0 /\ (t[u] <= now \/ u \in Evicts(p)))
             /\ \A u \in Uids : t[u] > now /\ r[u] = 0 =>
                   /\ Cardinality(Known(r)) = RecentMax
                   /\ \A v \in Known(r) : r[v] >= t[u] \/ t[v] = 0
  BY DEF MakesRoom
<1>0. /\ p = Pruned(t)
      /\ r = [u \in Uids |-> IF u = w THEN until ELSE IF u \in Evicts(p) THEN 0 ELSE p[u]]
  BY DEF With
<1> HIDE DEF p, r
<1> USE <1>0
<1>1. RecentMax \in Nat /\ RecentMax > 0 /\ IsFiniteSet(Uids)
  BY Constants, UidsFinite
<1>2. Known(t) \subseteq Uids /\ Known(p) \subseteq Uids
  BY DEF Known
<1>3. IsFiniteSet(Known(t)) /\ IsFiniteSet(Known(p))
  BY <1>1, <1>2, FS_Subset
<1>4. Cardinality(Known(t)) \in Nat /\ Cardinality(Known(p)) \in Nat
  BY <1>3, FS_CardinalityType
<1>5. CASE Cardinality(Known(p)) < RecentMax
  <2>1. Evicts(p) = {}
    BY <1>5 DEF Evicts
  <2>2. p \in [Uids -> Nat] /\ \A u \in Uids : p[u] = t[u] \/ (p[u] = 0 /\ t[u] <= now)
    BY DEF Pruned
  <2>3. \A u \in Uids : r[u] = IF u = w THEN until ELSE p[u]
    BY <2>1
  <2>4. Known(r) = Known(p) \cup {w}
    BY <2>3 DEF Known
  <2>5. Cardinality(Known(r)) <= RecentMax
    <3>1. Cardinality(Known(p) \cup {w}) =
             IF w \in Known(p) THEN Cardinality(Known(p)) ELSE Cardinality(Known(p)) + 1
      BY <1>3, FS_AddElement
    <3>2. Cardinality(Known(p)) <= RecentMax /\ Cardinality(Known(p)) + 1 <= RecentMax
      BY <1>1, <1>4, <1>5
    <3>3. Cardinality(Known(p) \cup {w}) <= RecentMax
      BY <3>1, <3>2
    <3> QED BY <2>4, <3>3
  <2>6. \A u \in Uids : ~(t[u] > now /\ r[u] = 0)
    BY <2>2, <2>3
  <2> QED BY <2>1, <2>2, <2>3, <2>5, <2>6
<1>6. CASE ~(Cardinality(Known(p)) < RecentMax)
  <2>1. ~(Cardinality(Known(t)) < RecentMax)
    BY <1>6 DEF Pruned
  <2>2. p = [u \in Uids |-> IF t[u] <= now THEN 0 ELSE t[u]]
    BY <2>1 DEF Pruned
  <2>3. p \in [Uids -> Nat] /\ \A u \in Uids : p[u] = t[u] \/ (p[u] = 0 /\ t[u] <= now)
    BY <2>2
  <2>4. Known(p) \subseteq Known(t)
    BY <2>3 DEF Known
  <2>5. Cardinality(Known(p)) <= Cardinality(Known(t))
    BY <1>3, <2>4, FS_Subset
  <2>6. Cardinality(Known(p)) = RecentMax /\ Cardinality(Known(t)) = RecentMax
    BY <1>1, <1>4, <1>6, <2>1, <2>5
  <2>7. Known(p) = Known(t)
    BY <1>3, <2>4, <2>6, FS_Subset
  <2>8. w \notin Known(p) /\ t[w] = 0
    BY <2>2, <2>7 DEF Known
  <2>9. Known(p) # {}
    BY <1>1, <2>6, FS_EmptySet
  <2> DEFINE x == Oldest(p)
  <2>10. x \in Known(p) /\ \A v \in Known(p) : p[x] <= p[v]
    BY <2>3, <2>9, OldestIs
  <2>11. Evicts(p) = {x}
    BY <1>6 DEF Evicts
  <2> HIDE DEF x
  <2>12. \A u \in Uids : r[u] = IF u = w THEN until ELSE IF u = x THEN 0 ELSE p[u]
    BY <2>11
  <2>13. Known(r) = (Known(p) \ {x}) \cup {w}
    BY <2>8, <2>10, <2>12 DEF Known
  <2>14. Cardinality(Known(r)) = RecentMax
    <3>1. IsFiniteSet(Known(p) \ {x}) /\ Cardinality(Known(p) \ {x}) = RecentMax - 1
      BY <1>3, <2>6, <2>10, FS_RemoveElement
    <3>2. w \notin Known(p) \ {x}
      BY <2>8
    <3>3. Cardinality((Known(p) \ {x}) \cup {w}) = (RecentMax - 1) + 1
      BY <3>1, <3>2, FS_AddElement
    <3> QED BY <1>1, <2>13, <3>3
  <2>15. ASSUME NEW u \in Uids, t[u] > now, r[u] = 0, NEW v \in Known(r)
         PROVE  r[v] >= t[u] \/ t[v] = 0
    <3>1. u # w /\ p[u] = t[u] /\ u = x
      BY <2>3, <2>12, <2>15
    <3>2. CASE v = w
      BY <2>8, <3>2
    <3>3. CASE v # w
      <4>1. v \in Known(p) /\ v # x /\ r[v] = p[v]
        BY <2>12, <2>13, <3>3 DEF Known
      <4>2. p[x] <= p[v] /\ p[v] \in Nat /\ p[x] \in Nat
        BY <1>2, <2>3, <2>10, <4>1
      <4> QED BY <3>1, <4>1, <4>2
    <3> QED BY <3>2, <3>3
  <2>16. Evicts(p) \subseteq Uids
    BY <1>2, <2>10, <2>11
  <2>17. Cardinality(Known(r)) <= RecentMax
    BY <1>1, <2>14
  <2>18. \A u \in Uids : u # w => r[u] = t[u] \/ (r[u] = 0 /\ (t[u] <= now \/ u \in Evicts(p)))
    BY <2>3, <2>11, <2>12
  <2> QED BY <2>14, <2>15, <2>16, <2>17, <2>18
<1> QED BY <1>5, <1>6

\* What Remembered asks of a step.
Keeps ==
    \A n \in Nodes, u \in Uids :
       /\ Cardinality(Known(recent'[n])) <= RecentMax
       /\ recent[n][u] > now /\ recent'[n][u] = 0 =>
             /\ Cardinality(Known(recent'[n])) = RecentMax
             /\ \A v \in Known(recent'[n]) : recent'[n][v] >= recent[n][u] \/ recent[n][v] = 0

\* Every frame lapses soon enough for the table.
Short(f, t) == \A p \in Offsets : f.exp - t - p + DedupeMin <= DedupeMax

LEMMA ClampIs ==
    ASSUME NEW k \in Int, k <= DedupeMax, DedupeMin <= DedupeMax
    PROVE  Clamp(k) \in DedupeMin .. DedupeMax /\ Clamp(k) >= k
BY Constants DEF Clamp

\* What hearing frame f does to the memories of node n and of the others.
LEMMA HearsAdds ==
    ASSUME Table, ChainTypes, now \in 0 .. MaxNow, NEW n \in Nodes, NEW f \in Frame, Short(f, now),
           Hears(n, f)
    PROVE  /\ Table' /\ Keeps
           /\ clock[n] \in Offsets
           /\ \A m \in Nodes : evicted[m] \subseteq evicted'[m]
           /\ \A m \in Nodes, u \in Uids : m # n \/ u # f.uid =>
                 recent'[m][u] = recent[m][u] \/ recent[m][u] <= now \/ u \in evicted'[m]
           /\ recent'[n][f.uid] >= f.exp - clock[n] + DedupeMin
           /\ recent[n][f.uid] <= now
<1> DEFINE t == recent[n]
           w == f.uid
           k == f.exp - Wall(n) + DedupeMin
           until == now + Clamp(k)
           p == Pruned(t)
           r == [u \in Uids |-> IF u = w THEN until ELSE IF u \in Evicts(p) THEN 0 ELSE p[u]]
<1>1. clock[n] \in Offsets /\ clock[n] \in Nat
  BY NoneNoOffset DEF Hears, ChainTypes
<1>2. now \in Nat /\ w \in Uids /\ f.exp \in Int /\ t \in [Uids -> 0 .. MaxNow + DedupeMax]
  BY Constants DEF Table, Frame
<1>3. t \in [Uids -> Nat] /\ Cardinality(Known(t)) <= RecentMax
  BY <1>2, Constants DEF Table
<1>4. k \in Int /\ k <= DedupeMax /\ k = f.exp - now - clock[n] + DedupeMin
  BY <1>1, <1>2, Constants DEF Short, Wall
<1>5. DedupeMin <= DedupeMax
  <2>1. Lifetime + DedupeMin + (clock[n] - clock[n]) <= DedupeMax
    BY <1>1, DedupeAssumption
  <2> QED BY <1>1, <2>1, Constants
<1>6. Clamp(k) \in DedupeMin .. DedupeMax /\ Clamp(k) >= k
  BY <1>4, <1>5, ClampIs
<1>7. t[w] <= now
  BY <1>2, <1>3 DEF Hears, Seen
<1>8. /\ recent' = [recent EXCEPT ![n] = r]
      /\ evicted' = [evicted EXCEPT ![n] = @ \cup Evicts(p)]
  BY DEF Hears, AddRecent
<1> HIDE DEF k
<1>9. until \in Nat /\ until > now /\ until <= MaxNow + DedupeMax /\ until >= f.exp - clock[n] + DedupeMin
  BY <1>1, <1>2, <1>4, <1>6, Constants
<1> HIDE DEF until, r, p, t, w
<1>10. /\ Evicts(p) \subseteq Uids
       /\ Cardinality(Known(r)) <= RecentMax
       /\ \A u \in Uids : u # w => r[u] = t[u] \/ (r[u] = 0 /\ (t[u] <= now \/ u \in Evicts(p)))
       /\ \A u \in Uids : t[u] > now /\ r[u] = 0 =>
             /\ Cardinality(Known(r)) = RecentMax
             /\ \A v \in Known(r) : r[v] >= t[u] \/ t[v] = 0
  <2>1. r = With(t, w, until) /\ p = Pruned(t)
    BY DEF p, r, With
  <2>2. MakesRoom(t, With(t, w, until), w, Evicts(Pruned(t)))
    BY <1>2, <1>3, <1>7, <1>9, Added
  <2>3. MakesRoom(t, r, w, Evicts(p))
    BY <2>1, <2>2
  <2> QED BY <2>3 DEF MakesRoom
<1>11. r \in [Uids -> 0 .. MaxNow + DedupeMax] /\ r[w] = until
  <2>1. r = [u \in Uids |-> r[u]] /\ r[w] = until
    BY <1>2 DEF r
  <2>2. until \in 0 .. MaxNow + DedupeMax /\ 0 \in 0 .. MaxNow + DedupeMax
    BY <1>9, Constants
  <2>3. \A u \in Uids : r[u] \in 0 .. MaxNow + DedupeMax
    BY <1>2, <1>10, <2>1, <2>2
  <2> QED BY <2>1, <2>3
<1>12. /\ \A m \in Nodes : recent'[m] = IF m = n THEN r ELSE recent[m]
       /\ \A m \in Nodes : evicted'[m] = IF m = n THEN evicted[m] \cup Evicts(p) ELSE evicted[m]
       /\ recent[n] = t
  BY <1>8 DEF Table, t
<1>13. Table'
  <2>1. recent' \in [Nodes -> [Uids -> 0 .. MaxNow + DedupeMax]]
    BY <1>8, <1>11 DEF Table
  <2>2. evicted' \in [Nodes -> SUBSET Uids]
    BY <1>8, <1>10 DEF Table
  <2>3. \A m \in Nodes : Cardinality(Known(recent'[m])) <= RecentMax
    BY <1>10, <1>12 DEF Table
  <2>4. \A m \in Nodes : Known(recent'[m]) = {u \in Uids : recent'[m][u] # 0}
    BY DEF Known
  <2> QED BY <2>1, <2>2, <2>3, <2>4 DEF Table, Known
<1>14. Keeps
  <2> SUFFICES ASSUME NEW m \in Nodes, NEW u \in Uids
               PROVE  /\ Cardinality(Known(recent'[m])) <= RecentMax
                      /\ recent[m][u] > now /\ recent'[m][u] = 0 =>
                            /\ Cardinality(Known(recent'[m])) = RecentMax
                            /\ \A v \in Known(recent'[m]) :
                                  recent'[m][v] >= recent[m][u] \/ recent[m][v] = 0
    BY DEF Keeps
  <2>1. CASE m = n
    BY <1>10, <1>12, <2>1
  <2>2. CASE m # n
    <3>1. recent'[m] = recent[m]
      BY <1>12, <2>2
    <3>2. ~(recent[m][u] > now /\ recent'[m][u] = 0)
      BY <1>2, <3>1
    <3> QED BY <3>1, <3>2 DEF Table
  <2> QED BY <2>1, <2>2
<1>15. \A m \in Nodes : evicted[m] \subseteq evicted'[m]
  BY <1>12
<1>16. ASSUME NEW m \in Nodes, NEW u \in Uids, m # n \/ u # f.uid
       PROVE  recent'[m][u] = recent[m][u] \/ recent[m][u] <= now \/ u \in evicted'[m]
  <2>1. CASE m = n
    <3>1. u # w
      BY <1>16, <2>1 DEF w
    <3> QED BY <1>10, <1>12, <2>1, <3>1
  <2>2. CASE m # n
    BY <1>12, <2>2
  <2> QED BY <2>1, <2>2
<1>17. recent'[n][f.uid] >= f.exp - clock[n] + DedupeMin /\ recent[n][f.uid] <= now
  BY <1>7, <1>9, <1>11, <1>12 DEF w
<1> QED BY <1>1, <1>13, <1>14, <1>15, <1>16, <1>17

-----------------------------------------------------------------------------
(* The frames in the air: A are the frames, u the UIDs drawn, t the time,  *)
(* and c says whether clocks are set in this behaviour.                    *)

\* Two copies of a frame expire within the time in which a reply is repeated,
\* give or take what the clock of its author moved.
Close(f, g, c) ==
    g.exp - f.exp < RepeatMax \/ (c /\ \E o, p \in Offsets : g.exp - f.exp < RepeatMax + (o - p))

\* A copy of a stranger's frame expires as one that the stranger sent.
AirOK(A, u, t, c) ==
    /\ A \subseteq Frame
    /\ \A f \in A : f.uid <= u /\ Short(f, t)
    /\ \A f \in A : f.src = Stranger => f.origin = Stranger /\ f.exp <= t + Lifetime
    /\ \A f \in A : f.origin = Stranger =>
          \E g \in A : g.src = Stranger /\ g.uid = f.uid /\ g.exp = f.exp
    /\ \A f, g \in A : f.uid = g.uid => f.origin = g.origin /\ Close(f, g, c)

\* A frame that may join the others.
Joins(g, A, u, t, c) ==
    /\ g \in Frame /\ g.uid <= u /\ Short(g, t)
    /\ g.src = Stranger => g.origin = Stranger /\ g.exp <= t + Lifetime
    /\ g.origin = Stranger =>
          g.src = Stranger \/ \E h \in A : h.src = Stranger /\ h.uid = g.uid /\ h.exp = g.exp
    /\ \A f \in A : f.uid = g.uid => f.origin = g.origin /\ Close(f, g, c) /\ Close(g, f, c)

LEMMA ShortStays ==
    ASSUME NEW f \in Frame, NEW t \in Nat, Short(f, t)
    PROVE  Short(f, t + 1)
<1>1. f.exp \in Int
  BY DEF Frame
<1> QED BY <1>1, Constants, NoneNoOffset DEF Short

\* A frame of a clock that the nodes have, or of the stranger's, is short.
LEMMA ShortIs ==
    ASSUME NEW f \in Frame, NEW t \in Nat, NEW o \in Offsets \cup {0}, f.exp = t + o + Lifetime
    PROVE  Short(f, t)
<1> SUFFICES ASSUME NEW p \in Offsets PROVE f.exp - t - p + DedupeMin <= DedupeMax
  BY DEF Short
<1>1. p \in Nat /\ o \in Nat
  BY NoneNoOffset
<1>2. CASE o \in Offsets
  <2>1. Lifetime + DedupeMin + (o - p) <= DedupeMax
    BY <1>2, DedupeAssumption
  <2> QED BY <1>1, <2>1, Constants
<1>3. CASE o = 0
  <2>1. Lifetime + DedupeMin + (p - p) <= DedupeMax
    BY DedupeAssumption
  <2> QED BY <1>1, <1>3, <2>1, Constants
<1> QED BY <1>2, <1>3

LEMMA AirTime ==
    ASSUME NEW A, NEW u \in Nat, NEW t \in Nat, NEW c, AirOK(A, u, t, c)
    PROVE  AirOK(A, u, t + 1, c)
<1>1. \A f \in A : Short(f, t + 1)
  BY ShortStays DEF AirOK
<1>2. \A f \in A : f.exp \in Int
  BY DEF AirOK, Frame
<1>3. \A f \in A : f.src = Stranger => f.origin = Stranger /\ f.exp <= (t + 1) + Lifetime
  BY <1>2, Constants DEF AirOK
<1> QED BY <1>1, <1>3 DEF AirOK

LEMMA AirDraws ==
    ASSUME NEW A, NEW u \in Nat, NEW t, NEW c, AirOK(A, u, t, c)
    PROVE  AirOK(A, u + 1, t, c)
<1>1. \A f \in A : f.uid \in Nat
  BY Constants DEF AirOK, Frame, Uids
<1>2. \A f \in A : f.uid <= u + 1
  BY <1>1 DEF AirOK
<1> QED BY <1>2 DEF AirOK

LEMMA CloseSelf ==
    ASSUME NEW f \in Frame, NEW g \in Frame, f.exp = g.exp, NEW c
    PROVE  Close(f, g, c)
<1>1. f.exp \in Int
  BY DEF Frame
<1> QED BY <1>1, Constants DEF Close

LEMMA AirJoins ==
    ASSUME NEW A, NEW u, NEW t, NEW c, AirOK(A, u, t, c), NEW g, Joins(g, A, u, t, c)
    PROVE  AirOK(A \cup {g}, u, t, c)
<1> DEFINE B == A \cup {g}
<1>1. B \subseteq Frame
  BY DEF AirOK, Joins
<1>2. \A f \in B : f.uid <= u /\ Short(f, t)
  BY DEF AirOK, Joins
<1>3. \A f \in B : f.src = Stranger => f.origin = Stranger /\ f.exp <= t + Lifetime
  BY DEF AirOK, Joins
<1>4. ASSUME NEW f \in B, f.origin = Stranger
      PROVE  \E h \in B : h.src = Stranger /\ h.uid = f.uid /\ h.exp = f.exp
  <2>1. CASE f \in A
    BY <1>4, <2>1 DEF AirOK
  <2>2. CASE f = g
    BY <1>4, <2>2 DEF Joins
  <2> QED BY <2>1, <2>2
<1>5. ASSUME NEW f \in B, NEW h \in B, f.uid = h.uid
      PROVE  f.origin = h.origin /\ Close(f, h, c)
  <2>1. CASE f \in A /\ h \in A
    BY <1>5, <2>1 DEF AirOK
  <2>2. CASE f = g /\ h \in A
    BY <1>5, <2>2 DEF Joins
  <2>3. CASE f \in A /\ h = g
    BY <1>5, <2>3 DEF Joins
  <2>4. CASE f = g /\ h = g
    BY <2>4, CloseSelf DEF Joins
  <2> QED BY <2>1, <2>2, <2>3, <2>4
<1> HIDE DEF B
<1>6. AirOK(B, u, t, c)
  BY <1>1, <1>2, <1>3, <1>4, <1>5 DEF AirOK
<1> QED BY <1>6 DEF B

\* A frame with a UID that no other has, and a copy of one of the others.
LEMMA FreshJoins ==
    ASSUME NEW A, NEW u, NEW t, NEW c, NEW g \in Frame, g.uid <= u, Short(g, t),
           g.src = g.origin, g.src = Stranger => g.exp <= t + Lifetime,
           \A f \in A : f.uid # g.uid
    PROVE  Joins(g, A, u, t, c)
BY DEF Joins

LEMMA CopyJoins ==
    ASSUME NEW A, NEW u, NEW t, NEW c, AirOK(A, u, t, c), NEW f \in A, NEW g \in Frame,
           g.uid = f.uid, g.exp = f.exp, g.origin = f.origin, g.src \in Nodes
    PROVE  Joins(g, A, u, t, c)
<1>1. Short(g, t)
  BY DEF AirOK, Short
<1>2. g.src # Stranger
  BY Constants
<1>3. \A h \in A : h.uid = g.uid => h.origin = g.origin /\ Close(h, g, c) /\ Close(g, h, c)
  <2> SUFFICES ASSUME NEW h \in A, h.uid = g.uid
               PROVE  h.origin = g.origin /\ Close(h, g, c) /\ Close(g, h, c)
    OBVIOUS
  <2>1. h.origin = f.origin /\ Close(h, f, c) /\ Close(f, h, c)
    BY DEF AirOK
  <2> QED BY <2>1 DEF Close
<1> QED BY <1>1, <1>2, <1>3 DEF AirOK, Joins

LEMMA LocateIs ==
    ASSUME NEW n \in Nodes, NEW u \in Uids, NEW b \in BOOLEAN, now \in Nat, clock[n] \in Offsets
    PROVE  /\ Locate(n, u, b) \in Frame /\ Short(Locate(n, u, b), now)
           /\ Locate(n, u, b).uid = u /\ Locate(n, u, b).origin = n /\ Locate(n, u, b).src = n
           /\ Locate(n, u, b).exp = now + clock[n] + Lifetime
<1>1. clock[n] \in Nat /\ now + clock[n] \in Int /\ now + clock[n] + Lifetime \in Int /\ 0 \in 0 .. MaxHops
  BY NoneNoOffset, Constants
<1>2. Locate(n, u, b) \in Frame
  BY <1>1 DEF Locate, Wall, Frame
<1>3. /\ Locate(n, u, b).uid = u /\ Locate(n, u, b).origin = n /\ Locate(n, u, b).src = n
      /\ Locate(n, u, b).exp = now + clock[n] + Lifetime
  BY DEF Locate, Wall
<1>4. Short(Locate(n, u, b), now)
  BY <1>2, <1>3, ShortIs
<1> QED BY <1>2, <1>3, <1>4

LEMMA RelayedIs ==
    ASSUME NEW n \in Nodes, NEW f \in Frame, CanRelay(n, f)
    PROVE  /\ Relayed(n, f) \in Frame
           /\ Relayed(n, f).uid = f.uid /\ Relayed(n, f).exp = f.exp
           /\ Relayed(n, f).origin = f.origin /\ Relayed(n, f).src = n
<1>1. f.hops \in 0 .. MaxHops /\ f.hops + 1 \in 0 .. MaxHops
  BY Constants DEF CanRelay, Frame
<1>2. ASSUME NEW h \in 0 .. MaxHops
      PROVE  /\ [f EXCEPT !.hops = h, !.src = n] \in Frame
             /\ [f EXCEPT !.hops = h, !.src = n].uid = f.uid /\ [f EXCEPT !.hops = h, !.src = n].exp = f.exp
             /\ [f EXCEPT !.hops = h, !.src = n].origin = f.origin
             /\ [f EXCEPT !.hops = h, !.src = n].src = n
  BY DEF Frame
<1>3. Relayed(n, f) = [f EXCEPT !.hops = f.hops + 1, !.src = n]
  BY DEF Relayed
<1> QED BY <1>1, <1>2, <1>3

-----------------------------------------------------------------------------
(* The mail: the frames in the air A, the queued requests B, the replies R *)
(* and the counts S of what was sent, with the UIDs drawn u, the time t    *)
(* and the clocks K.                                                       *)

ReplyRecord == [uid : 0 .. MaxUids, at : None .. MaxNow, last : None .. MaxNow]

\* A queued request was never sent, and is the only one of its node.
BoxOK(A, B, S, u, t) ==
    /\ B \in [Nodes -> SUBSET Frame]
    /\ \A n \in Nodes : \A f \in B[n] :
          /\ f.uid <= u /\ f.origin = n /\ f.src = n /\ S[f.uid] = 0 /\ Short(f, t)
          /\ \A g \in A : g.uid # f.uid
    /\ \A n \in Nodes : \A f, g \in B[n] : f = g
    /\ \A n, m \in Nodes : \A f \in B[n], g \in B[m] : f.uid = g.uid => n = m

\* A reply to be repeated was sent once, and when it says.
RepliesOK(A, R, S, u, t, K, c) ==
    /\ R \in [Nodes -> ReplyRecord]
    /\ \A n \in Nodes : R[n].at # None =>
          /\ R[n].uid \in 1 .. u /\ R[n].at <= t /\ S[R[n].uid] = 1
          /\ \A m \in Nodes : R[m].at # None /\ R[m].uid = R[n].uid => m = n
          /\ \A f \in A : f.uid = R[n].uid =>
                /\ f.origin = n
                /\ \E o \in Offsets : (o = K[n] \/ c) /\ f.exp = R[n].at + o + Lifetime

SendsOK(S, u) ==
    /\ S \in [Uids -> 0 .. 2]
    /\ \A v \in Uids : v > u => S[v] = 0

MailOK(A, B, R, S, u, t, K, c) ==
    AirOK(A, u, t, c) /\ BoxOK(A, B, S, u, t) /\ RepliesOK(A, R, S, u, t, K, c) /\ SendsOK(S, u)

LEMMA UidsOf ==
    ASSUME NEW A, NEW u \in Nat, NEW t, NEW c, AirOK(A, u, t, c), NEW f \in A
    PROVE  f \in Frame /\ f.uid \in Uids /\ f.uid \in Nat /\ f.uid <= u /\ f.exp \in Int
BY Constants DEF AirOK, Frame, Uids

LEMMA BoxOf ==
    ASSUME NEW A, NEW B, NEW S, NEW u \in Nat, NEW t, BoxOK(A, B, S, u, t), NEW n \in Nodes, NEW f \in B[n]
    PROVE  f \in Frame /\ f.uid \in Uids /\ f.uid \in Nat /\ f.uid <= u /\ f.exp \in Int
<1>1. f \in Frame
  BY DEF BoxOK
<1> QED BY <1>1, Constants DEF BoxOK, Frame, Uids

LEMMA MailTime ==
    ASSUME NEW A, NEW B, NEW R, NEW S, NEW u \in Nat, NEW t \in Nat, NEW K, NEW c,
           MailOK(A, B, R, S, u, t, K, c)
    PROVE  MailOK(A, B, R, S, u, t + 1, K, c)
<1>1. AirOK(A, u, t + 1, c)
  BY AirTime DEF MailOK
<1>2. BoxOK(A, B, S, u, t + 1)
  <2>1. \A n \in Nodes : \A f \in B[n] : Short(f, t + 1)
    BY ShortStays DEF MailOK, BoxOK
  <2> QED BY <2>1 DEF MailOK, BoxOK
<1>3. RepliesOK(A, R, S, u, t + 1, K, c)
  <2>1. \A n \in Nodes : R[n].at # None => R[n].at <= t + 1
    BY Constants DEF MailOK, RepliesOK, ReplyRecord
  <2> QED BY <2>1 DEF MailOK, RepliesOK
<1> QED BY <1>1, <1>2, <1>3 DEF MailOK

\* Clocks move only where clocks are set.
LEMMA MailClocks ==
    ASSUME NEW A, NEW B, NEW R, NEW S, NEW u, NEW t, NEW K, NEW L, NEW c,
           MailOK(A, B, R, S, u, t, K, c), c \/ L = K
    PROVE  MailOK(A, B, R, S, u, t, L, c)
BY DEF MailOK, RepliesOK

\* Requests and replies that are dropped.
LEMMA MailDrops ==
    ASSUME NEW A, NEW B, NEW R, NEW S, NEW u, NEW t, NEW K, NEW c,
           MailOK(A, B, R, S, u, t, K, c),
           NEW C \in [Nodes -> SUBSET Frame], \A n \in Nodes : C[n] = B[n] \/ C[n] = {},
           NEW Q \in [Nodes -> ReplyRecord], \A n \in Nodes : Q[n] = R[n] \/ Q[n].at = None
    PROVE  MailOK(A, C, Q, S, u, t, K, c)
<1>1. BoxOK(A, C, S, u, t)
  <2>1. \A n \in Nodes : C[n] \subseteq B[n]
    OBVIOUS
  <2> QED BY <2>1 DEF MailOK, BoxOK
<1>2. RepliesOK(A, Q, S, u, t, K, c)
  <2>1. \A n \in Nodes : Q[n].at # None => Q[n] = R[n]
    OBVIOUS
  <2> QED BY <2>1 DEF MailOK, RepliesOK
<1> QED BY <1>1, <1>2 DEF MailOK

\* A copy of a frame joins the others.
LEMMA MailCopies ==
    ASSUME NEW A, NEW B, NEW R, NEW S, NEW u, NEW t, NEW K, NEW c,
           MailOK(A, B, R, S, u, t, K, c), NEW f \in A, NEW g \in Frame,
           g.uid = f.uid, g.exp = f.exp, g.origin = f.origin, g.src \in Nodes
    PROVE  MailOK(A \cup {g}, B, R, S, u, t, K, c)
<1>1. AirOK(A \cup {g}, u, t, c)
  BY CopyJoins, AirJoins DEF MailOK
<1>2. BoxOK(A \cup {g}, B, S, u, t)
  BY DEF MailOK, BoxOK
<1>3. RepliesOK(A \cup {g}, R, S, u, t, K, c)
  BY DEF MailOK, RepliesOK
<1> QED BY <1>1, <1>2, <1>3 DEF MailOK

\* A UID is drawn.
LEMMA MailDraws ==
    ASSUME NEW A, NEW B, NEW R, NEW S, NEW u \in Nat, NEW t, NEW K, NEW c,
           MailOK(A, B, R, S, u, t, K, c)
    PROVE  /\ MailOK(A, B, R, S, u + 1, t, K, c)
           /\ \A f \in A : f.uid # u + 1
           /\ \A n \in Nodes : \A f \in B[n] : f.uid # u + 1
           /\ \A n \in Nodes : R[n].at # None => R[n].uid # u + 1
<1>1. AirOK(A, u + 1, t, c)
  BY AirDraws DEF MailOK
<1>2. \A f \in A : f.uid # u + 1
  BY UidsOf DEF MailOK
<1>3. \A n \in Nodes : \A f \in B[n] : f.uid # u + 1 /\ f.uid <= u + 1
  BY BoxOf DEF MailOK
<1>4. BoxOK(A, B, S, u + 1, t)
  BY <1>3 DEF MailOK, BoxOK
<1>5. \A n \in Nodes : R[n].at # None => R[n].uid # u + 1 /\ R[n].uid \in 1 .. (u + 1)
  BY DEF MailOK, RepliesOK
<1>6. RepliesOK(A, R, S, u + 1, t, K, c)
  BY <1>5 DEF MailOK, RepliesOK
<1>7. SendsOK(S, u + 1)
  <2>1. \A v \in Uids : v \in Nat
    BY Constants DEF Uids
  <2> QED BY <2>1 DEF MailOK, SendsOK
<1> QED BY <1>1, <1>2, <1>3, <1>4, <1>5, <1>6, <1>7 DEF MailOK

\* A stranger's new frame.
LEMMA MailForeign ==
    ASSUME NEW A, NEW B, NEW R, NEW S, NEW u \in Nat, NEW t, NEW K, NEW c,
           MailOK(A, B, R, S, u, t, K, c), NEW g \in Frame,
           g.uid = u + 1, Short(g, t), g.src = Stranger, g.origin = Stranger, g.exp <= t + Lifetime
    PROVE  MailOK(A \cup {g}, B, R, S, u + 1, t, K, c)
<1>1. /\ MailOK(A, B, R, S, u + 1, t, K, c)
      /\ \A f \in A : f.uid # g.uid
      /\ \A n \in Nodes : \A f \in B[n] : f.uid # g.uid
      /\ \A n \in Nodes : R[n].at # None => R[n].uid # g.uid
  BY MailDraws
<1>2. g.uid <= u + 1
  OBVIOUS
<1>3. AirOK(A \cup {g}, u + 1, t, c)
  BY <1>1, <1>2, FreshJoins, AirJoins DEF MailOK
<1>4. BoxOK(A \cup {g}, B, S, u + 1, t)
  BY <1>1 DEF MailOK, BoxOK
<1>5. RepliesOK(A \cup {g}, R, S, u + 1, t, K, c)
  BY <1>1 DEF MailOK, RepliesOK
<1> QED BY <1>1, <1>3, <1>4, <1>5 DEF MailOK

\* A node queues a request.
LEMMA MailAsks ==
    ASSUME NEW A, NEW B, NEW R, NEW S, NEW u \in Nat, u + 1 <= MaxUids, NEW t, NEW K, NEW c,
           MailOK(A, B, R, S, u, t, K, c), NEW n \in Nodes, NEW g \in Frame,
           g.uid = u + 1, Short(g, t), g.src = n, g.origin = n,
           NEW C, C = [B EXCEPT ![n] = {g}]
    PROVE  MailOK(A, C, R, S, u + 1, t, K, c)
<1>1. /\ MailOK(A, B, R, S, u + 1, t, K, c)
      /\ \A f \in A : f.uid # g.uid
      /\ \A m \in Nodes : \A f \in B[m] : f.uid # g.uid
  BY MailDraws
<1>2. S[g.uid] = 0
  <2>1. g.uid \in Uids /\ g.uid > u
    BY Constants DEF Uids
  <2> QED BY <2>1 DEF MailOK, SendsOK
<1>3. B \in [Nodes -> SUBSET Frame]
  BY DEF MailOK, BoxOK
<1>4. C \in [Nodes -> SUBSET Frame] /\ \A m \in Nodes : C[m] = IF m = n THEN {g} ELSE B[m]
  BY <1>3
<1>5. g.uid <= u + 1
  OBVIOUS
<1>6. ASSUME NEW m \in Nodes, NEW f \in C[m]
      PROVE  /\ f.uid <= u + 1 /\ f.origin = m /\ f.src = m /\ S[f.uid] = 0 /\ Short(f, t)
             /\ \A h \in A : h.uid # f.uid
  <2>1. CASE m = n
    BY <1>1, <1>2, <1>4, <1>5, <1>6, <2>1
  <2>2. CASE m # n
    <3>1. f \in B[m]
      BY <1>4, <1>6, <2>2
    <3> QED BY <1>1, <3>1 DEF MailOK, BoxOK
  <2> QED BY <2>1, <2>2
<1>7. \A m \in Nodes : \A f, h \in C[m] : f = h
  BY <1>1, <1>4 DEF MailOK, BoxOK
<1>8. \A l, m \in Nodes : \A f \in C[l], h \in C[m] : f.uid = h.uid => l = m
  BY <1>1, <1>4 DEF MailOK, BoxOK
<1>9. BoxOK(A, C, S, u + 1, t)
  BY <1>4, <1>6, <1>7, <1>8 DEF BoxOK
<1> QED BY <1>1, <1>9 DEF MailOK

\* A node answers: it sends a new frame, to be repeated once.
LEMMA MailAnswers ==
    ASSUME NEW A, NEW B, NEW R, NEW S, NEW u \in Nat, u + 1 <= MaxUids, NEW t \in 0 .. MaxNow, NEW K, NEW c,
           MailOK(A, B, R, S, u, t, K, c), NEW n \in Nodes, NEW g \in Frame,
           g.uid = u + 1, Short(g, t), g.src = n, g.origin = n,
           K[n] \in Offsets, g.exp = t + K[n] + Lifetime,
           NEW Q, Q = [R EXCEPT ![n] = [uid |-> u + 1, at |-> t, last |-> t]],
           NEW T, T = [S EXCEPT ![u + 1] = @ + 1]
    PROVE  MailOK(A \cup {g}, B, Q, T, u + 1, t, K, c)
<1> DEFINE w == u + 1
           q == [uid |-> w, at |-> t, last |-> t]
<1>1. /\ MailOK(A, B, R, S, w, t, K, c)
      /\ \A f \in A : f.uid # w
      /\ \A m \in Nodes : \A f \in B[m] : f.uid # w
      /\ \A m \in Nodes : R[m].at # None => R[m].uid # w
  BY MailDraws
<1>2. w \in Nat /\ w \in Uids /\ w \in 0 .. MaxUids /\ w > u /\ w <= w /\ w \in 1 .. w
  BY Constants DEF Uids
<1>3. g.uid = w /\ g.src # Stranger
  BY Constants
<1>4. S[w] = 0 /\ S \in [Uids -> 0 .. 2]
  BY <1>2 DEF MailOK, SendsOK
<1>5. T \in [Uids -> 0 .. 2] /\ T[w] = 1 /\ \A v \in Uids : v # w => T[v] = S[v]
  BY <1>2, <1>4
<1>6. q \in ReplyRecord /\ q.uid = w /\ q.at = t /\ q.at # None
  BY <1>2, Constants DEF ReplyRecord
<1>7. Q = [R EXCEPT ![n] = q]
  OBVIOUS
<1> HIDE DEF w, q
<1>8. Q \in [Nodes -> ReplyRecord] /\ Q[n] = q /\ \A m \in Nodes : m # n => Q[m] = R[m]
  BY <1>6, <1>7 DEF MailOK, RepliesOK
<1>9. AirOK(A \cup {g}, w, t, c)
  BY <1>1, <1>2, <1>3, FreshJoins, AirJoins DEF MailOK
<1>10. BoxOK(A \cup {g}, B, T, w, t)
  <2>1. \A m \in Nodes : \A f \in B[m] : f.uid \in Uids
    BY <1>1, <1>2, BoxOf DEF MailOK
  <2>2. \A m \in Nodes : \A f \in B[m] : T[f.uid] = S[f.uid]
    BY <1>1, <1>5, <2>1
  <2> QED BY <1>1, <1>3, <2>2 DEF MailOK, BoxOK
<1>11. RepliesOK(A \cup {g}, Q, T, w, t, K, c)
  <2>1. t <= t
    BY Constants
  <2>2. ASSUME NEW m \in Nodes, Q[m].at # None
        PROVE  /\ Q[m].uid \in 1 .. w /\ Q[m].at <= t /\ T[Q[m].uid] = 1
               /\ \A l \in Nodes : Q[l].at # None /\ Q[l].uid = Q[m].uid => l = m
               /\ \A f \in A \cup {g} : f.uid = Q[m].uid =>
                     /\ f.origin = m
                     /\ \E o \in Offsets : (o = K[m] \/ c) /\ f.exp = Q[m].at + o + Lifetime
    <3>1. CASE m = n
      <4>1. Q[m] = q
        BY <1>8, <3>1
      <4>2. \A l \in Nodes : Q[l].at # None /\ Q[l].uid = w => l = m
        BY <1>1, <1>8, <3>1
      <4>3. ASSUME NEW f \in A \cup {g}, f.uid = w
            PROVE  f.origin = m /\ \E o \in Offsets : (o = K[m] \/ c) /\ f.exp = t + o + Lifetime
        <5>1. f = g
          BY <1>1, <4>3
        <5> QED BY <3>1, <5>1
      <4> QED BY <1>2, <1>5, <1>6, <2>1, <4>1, <4>2, <4>3
    <3>2. CASE m # n
      <4>1. Q[m] = R[m] /\ R[m].at # None /\ R[m].uid # w
        BY <1>1, <1>8, <2>2, <3>2
      <4>2. R[m].uid \in Uids /\ R[m].uid \in 1 .. w
        BY <1>1, <1>2, <4>1, Constants DEF MailOK, RepliesOK, ReplyRecord, Uids
      <4>3. T[R[m].uid] = S[R[m].uid]
        BY <1>5, <4>1, <4>2
      <4>4. \A l \in Nodes : Q[l].at # None /\ Q[l].uid = R[m].uid => l = m
        <5> SUFFICES ASSUME NEW l \in Nodes, Q[l].at # None, Q[l].uid = R[m].uid PROVE l = m
          OBVIOUS
        <5>1. l # n
          BY <1>6, <1>8, <4>1
        <5> QED BY <1>1, <1>8, <4>1, <5>1 DEF MailOK, RepliesOK
      <4> QED BY <1>1, <1>3, <4>1, <4>2, <4>3, <4>4 DEF MailOK, RepliesOK
    <3> QED BY <3>1, <3>2
  <2> QED BY <1>8, <2>2 DEF RepliesOK
<1>12. SendsOK(T, w)
  <2>1. \A v \in Uids : v > w => v # w
    BY <1>2 DEF Uids
  <2> QED BY <1>1, <1>5, <2>1 DEF MailOK, SendsOK
<1>13. MailOK(A \cup {g}, B, Q, T, w, t, K, c)
  BY <1>9, <1>10, <1>11, <1>12 DEF MailOK
<1> QED BY <1>13 DEF w

\* The queued request is sent.
LEMMA MailSends ==
    ASSUME NEW A, NEW B, NEW R, NEW S, NEW u \in Nat, NEW t, NEW K, NEW c,
           MailOK(A, B, R, S, u, t, K, c), NEW n \in Nodes, NEW f \in B[n],
           NEW C, C = [B EXCEPT ![n] = {}],
           NEW T, T = [v \in Uids |-> IF v = f.uid THEN S[v] + 1 ELSE S[v]]
    PROVE  MailOK(A \cup {f}, C, R, T, u, t, K, c)
<1>0. BoxOK(A, B, S, u, t)
  BY DEF MailOK
<1>1. /\ f \in Frame /\ f.uid \in Uids /\ f.uid \in Nat /\ f.uid <= u
      /\ f.origin = n /\ f.src = n /\ S[f.uid] = 0 /\ Short(f, t) /\ \A g \in A : g.uid # f.uid
  <2>1. f \in Frame /\ f.uid \in Uids /\ f.uid \in Nat /\ f.uid <= u
    BY <1>0, BoxOf
  <2> QED BY <1>0, <2>1 DEF BoxOK
<1>2. S \in [Uids -> 0 .. 2] /\ B \in [Nodes -> SUBSET Frame]
  BY DEF MailOK, SendsOK, BoxOK
<1>3. T \in [Uids -> 0 .. 2] /\ T[f.uid] = 1 /\ \A v \in Uids : v # f.uid => T[v] = S[v]
  BY <1>1, <1>2
<1>4. C \in [Nodes -> SUBSET Frame] /\ \A m \in Nodes : C[m] = IF m = n THEN {} ELSE B[m]
  BY <1>2
<1>5. f.src # Stranger
  BY <1>1, Constants
<1>6. AirOK(A \cup {f}, u, t, c)
  BY <1>1, <1>5, FreshJoins, AirJoins DEF MailOK
<1>7. BoxOK(A \cup {f}, C, T, u, t)
  <2>1. ASSUME NEW m \in Nodes, NEW g \in C[m]
        PROVE  m # n /\ g \in B[m] /\ g.uid # f.uid /\ T[g.uid] = S[g.uid]
    <3>1. m # n /\ g \in B[m]
      BY <1>4, <2>1
    <3>2. g.uid # f.uid /\ g.uid \in Uids
      <4>1. g.uid \in Uids
        BY <1>0, <3>1, BoxOf
      <4> QED BY <1>0, <3>1, <4>1 DEF BoxOK
    <3> QED BY <1>3, <3>1, <3>2
  <2>2. ASSUME NEW m \in Nodes, NEW g \in C[m]
        PROVE  /\ g.uid <= u /\ g.origin = m /\ g.src = m /\ T[g.uid] = 0 /\ Short(g, t)
               /\ \A h \in A \cup {f} : h.uid # g.uid
    BY <2>1 DEF MailOK, BoxOK
  <2>3. /\ \A m \in Nodes : \A g, h \in C[m] : g = h
        /\ \A l, m \in Nodes : \A g \in C[l], h \in C[m] : g.uid = h.uid => l = m
    BY <2>1 DEF MailOK, BoxOK
  <2> QED BY <1>4, <2>2, <2>3 DEF BoxOK
<1>8. RepliesOK(A \cup {f}, R, T, u, t, K, c)
  <2>1. ASSUME NEW m \in Nodes, R[m].at # None
        PROVE  R[m].uid # f.uid /\ T[R[m].uid] = S[R[m].uid]
    <3>1. R[m].uid \in Uids /\ S[R[m].uid] = 1
      BY <2>1, Constants DEF MailOK, RepliesOK, ReplyRecord, Uids
    <3>2. R[m].uid # f.uid
      BY <1>1, <3>1
    <3> QED BY <1>3, <3>1, <3>2
  <2> QED BY <2>1 DEF MailOK, RepliesOK
<1>9. SendsOK(T, u)
  <2>1. \A v \in Uids : v > u => v # f.uid
    BY <1>1 DEF Uids
  <2> QED BY <1>3, <2>1 DEF MailOK, SendsOK
<1> QED BY <1>6, <1>7, <1>8, <1>9 DEF MailOK

\* A reply is repeated, once.
LEMMA MailRepeats ==
    ASSUME NEW A, NEW B, NEW R, NEW S, NEW u \in Nat, NEW t \in Nat, NEW K, NEW c,
           MailOK(A, B, R, S, u, t, K, c), NEW n \in Nodes, R[n].at # None, t - R[n].at < RepeatMax,
           K[n] \in Offsets, NEW g \in Frame, g.uid = R[n].uid, g.origin = n, g.src = n,
           g.exp = t + K[n] + Lifetime, Short(g, t),
           NEW Q \in [Nodes -> ReplyRecord], Q[n].at = None, \A m \in Nodes : m # n => Q[m] = R[m],
           NEW T, T = [v \in Uids |-> IF v = R[n].uid THEN S[v] + 1 ELSE S[v]]
    PROVE  MailOK(A \cup {g}, B, Q, T, u, t, K, c)
<1>1. /\ R[n].uid \in 1 .. u /\ R[n].at <= t /\ S[R[n].uid] = 1 /\ R[n].at \in Int
      /\ \A m \in Nodes : R[m].at # None /\ R[m].uid = R[n].uid => m = n
      /\ \A f \in A : f.uid = R[n].uid =>
            /\ f.origin = n
            /\ \E o \in Offsets : (o = K[n] \/ c) /\ f.exp = R[n].at + o + Lifetime
  BY Constants DEF MailOK, RepliesOK, ReplyRecord
<1>2. R[n].uid \in Uids /\ R[n].uid \in Nat /\ R[n].uid <= u
  BY <1>1, Constants DEF MailOK, RepliesOK, ReplyRecord, Uids
<1>3. S \in [Uids -> 0 .. 2]
  BY DEF MailOK, SendsOK
<1>4. T \in [Uids -> 0 .. 2] /\ \A v \in Uids : v # R[n].uid => T[v] = S[v]
  BY <1>1, <1>2, <1>3
<1>5. Joins(g, A, u, t, c)
  <2>1. g.src # Stranger /\ g.origin # Stranger
    BY Constants
  <2>2. ASSUME NEW f \in A, f.uid = g.uid
        PROVE  f.origin = g.origin /\ Close(f, g, c) /\ Close(g, f, c)
    <3>1. PICK o \in Offsets : (o = K[n] \/ c) /\ f.exp = R[n].at + o + Lifetime
      BY <1>1, <2>2
    <3>2. o \in Nat /\ K[n] \in Nat
      BY NoneNoOffset
    <3>3. g.exp - f.exp < RepeatMax + (K[n] - o) /\ f.exp - g.exp < RepeatMax + (o - K[n])
      BY <1>1, <3>1, <3>2, Constants
    <3>4. o = K[n] => g.exp - f.exp < RepeatMax /\ f.exp - g.exp < RepeatMax
      BY <1>1, <3>1, <3>2, Constants
    <3>5. Close(f, g, c) /\ Close(g, f, c)
      BY <3>1, <3>3, <3>4 DEF Close
    <3> QED BY <1>1, <2>2, <3>5
  <2> QED BY <1>2, <2>1, <2>2 DEF Joins
<1>6. AirOK(A \cup {g}, u, t, c)
  BY <1>5, AirJoins DEF MailOK
<1>7. BoxOK(A \cup {g}, B, T, u, t)
  <2>1. ASSUME NEW m \in Nodes, NEW f \in B[m]
        PROVE  f.uid # g.uid /\ T[f.uid] = S[f.uid]
    <3>1. f.uid \in Uids /\ S[f.uid] = 0
      <4>1. BoxOK(A, B, S, u, t)
        BY DEF MailOK
      <4>2. f.uid \in Uids
        BY <2>1, <4>1, BoxOf
      <4> QED BY <2>1, <4>1, <4>2 DEF BoxOK
    <3>2. f.uid # R[n].uid
      BY <1>1, <3>1
    <3> QED BY <1>4, <3>1, <3>2
  <2> QED BY <2>1 DEF MailOK, BoxOK
<1>8. RepliesOK(A \cup {g}, Q, T, u, t, K, c)
  <2>1. ASSUME NEW m \in Nodes, Q[m].at # None
        PROVE  m # n /\ Q[m] = R[m] /\ R[m].uid # R[n].uid /\ T[R[m].uid] = S[R[m].uid]
    <3>1. m # n /\ Q[m] = R[m]
      BY <2>1
    <3>2. R[m].uid # R[n].uid
      BY <1>1, <2>1, <3>1
    <3>3. R[m].uid \in Uids
      BY <2>1, <3>1, Constants DEF MailOK, RepliesOK, ReplyRecord, Uids
    <3> QED BY <1>4, <3>1, <3>2, <3>3
  <2>2. ASSUME NEW m \in Nodes, Q[m].at # None
        PROVE  /\ Q[m].uid \in 1 .. u /\ Q[m].at <= t /\ T[Q[m].uid] = 1
               /\ \A l \in Nodes : Q[l].at # None /\ Q[l].uid = Q[m].uid => l = m
               /\ \A f \in A \cup {g} : f.uid = Q[m].uid =>
                     /\ f.origin = m
                     /\ \E o \in Offsets : (o = K[m] \/ c) /\ f.exp = Q[m].at + o + Lifetime
    BY <2>1, <2>2 DEF MailOK, RepliesOK
  <2> QED BY <2>2 DEF RepliesOK
<1>9. SendsOK(T, u)
  <2>1. \A v \in Uids : v > u => v # R[n].uid
    BY <1>2 DEF Uids
  <2> QED BY <1>4, <2>1 DEF MailOK, SendsOK
<1> QED BY <1>6, <1>7, <1>8, <1>9 DEF MailOK

\* The stranger repeats a reply of which every copy expires alike.
LEMMA MailForeignAgain ==
    ASSUME NEW A, NEW B, NEW R, NEW S, NEW u \in Nat, NEW t \in Nat, NEW K, NEW c,
           MailOK(A, B, R, S, u, t, K, c), NEW f \in A, f.src = Stranger,
           t - (f.exp - Lifetime) < RepeatMax,
           \A h \in A : h.src = Stranger /\ h.uid = f.uid => h = f,
           NEW g \in Frame, g.uid = f.uid, g.origin = f.origin, g.src = f.src, g.exp = t + Lifetime
    PROVE  MailOK(A \cup {g}, B, R, S, u, t, K, c)
<1>1. /\ f \in Frame /\ f.uid <= u /\ f.exp \in Int
      /\ f.origin = Stranger /\ f.exp <= t + Lifetime
  BY UidsOf DEF MailOK, AirOK
<1>2. Short(g, t)
  <2>1. g.exp = t + 0 + Lifetime
    BY Constants
  <2> QED BY <2>1, ShortIs
<1>3. ASSUME NEW h \in A, h.uid = g.uid
      PROVE  h.origin = g.origin /\ Close(h, g, c) /\ Close(g, h, c)
  <2>1. h.origin = f.origin
    BY <1>3 DEF MailOK, AirOK
  <2>2. PICK k \in A : k.src = Stranger /\ k.uid = h.uid /\ k.exp = h.exp
    BY <1>1, <2>1 DEF MailOK, AirOK
  <2>3. h.exp = f.exp
    BY <1>3, <2>2
  <2>4. g.exp - h.exp < RepeatMax /\ h.exp - g.exp < RepeatMax
    BY <1>1, <2>3, Constants
  <2> QED BY <2>1, <2>4 DEF Close
<1>4. g.exp <= t + Lifetime
  BY Constants
<1>5. Joins(g, A, u, t, c)
  BY <1>1, <1>2, <1>3, <1>4 DEF Joins
<1>6. AirOK(A \cup {g}, u, t, c)
  BY <1>5, AirJoins DEF MailOK
<1>7. BoxOK(A \cup {g}, B, S, u, t)
  BY DEF MailOK, BoxOK
<1>8. RepliesOK(A \cup {g}, R, S, u, t, K, c)
  <2>1. \A m \in Nodes : R[m].at # None => R[m].uid # f.uid
    BY <1>1, Constants DEF MailOK, RepliesOK
  <2> QED BY <2>1 DEF MailOK, RepliesOK
<1> QED BY <1>6, <1>7, <1>8 DEF MailOK

-----------------------------------------------------------------------------
(* The steps *)

Moving == "clock" \in kit

\* Where no clocks are set the nodes have theirs.
Set == "clock" \notin kit => \A n \in Nodes : clock[n] # None

Plain ==
    /\ kit \in Kits /\ now \in 0 .. MaxNow /\ uids \in 0 .. MaxUids
    /\ asked \in [Nodes -> 0 .. MaxUids]
    /\ acks \in [Nodes -> 0 .. AckLimit] /\ noacks \in [Nodes -> 0 .. NoAckLimit]
    /\ burst \in [Nodes -> 0 .. Bursts]

Mail == MailOK(air, outbox, reply, sends, uids, now, clock, Moving)

LEMMA ClocksStep ==
    ASSUME ChainInv, Set, [Next]_vars
    PROVE  kit' = kit /\ (Moving \/ clock' = clock) /\ Set'
<1> DEFINE Goal == kit' = kit /\ (Moving \/ clock' = clock) /\ Set'
<1> SUFFICES Goal
  OBVIOUS
<1>0. UNCHANGED <<kit, clock>> => Goal
  BY DEF Set
<1>00. kit' = kit /\ Moving => Goal
  BY DEF Set, Moving
<1> HIDE DEF Goal
<1>1. CASE \/ PassTime \/ (\E r \in BOOLEAN : Foreign(r)) \/ (\E f \in air : ForeignAgain(f))
           \/ \E n \in Nodes : PowerOff(n) \/ PowerOn(n) \/ MeshTick(n)
  BY <1>0, <1>1 DEF PassTime, Foreign, ForeignAgain, PowerOff, PowerOn, MeshTick, clocks
<1>2. CASE \E n \in Nodes, o \in Offsets : SetClock(n, o) \/ ReadClock(n, o)
  BY <1>00, <1>2 DEF SetClock, ReadClock, Moving
<1>3. ASSUME NEW n \in Nodes, NEW p \in Nodes, NEW carried \in BOOLEAN, OnStatus(n, p, carried)
      PROVE  Goal
  <2>1. kit' = kit
    BY <1>3 DEF OnStatus
  <2>2. CASE Adopts(n, p)
    <3>1. Moving
      BY <2>2 DEF Adopts, Set, Moving
    <3> QED BY <1>00, <2>1, <3>1
  <2>3. CASE ~Adopts(n, p)
    BY <1>0, <1>3, <2>1, <2>3 DEF OnStatus, clocks
  <2> QED BY <2>2, <2>3
<1>4. CASE \E n \in Nodes, four, pairing \in Moments : Window(n, four, pairing) \/ Burst(n, four, pairing)
  BY <1>0, <1>4 DEF Window, Burst, clocks
<1>5. ASSUME NEW n \in Nodes, NEW f \in air, OnLocateEnds(n, f) PROVE Goal
  BY <1>0, <1>5 DEF OnLocateEnds, clocks
<1>6. ASSUME NEW n \in Nodes, NEW f \in air, NEW far, OnLocatePeer(n, f, far) PROVE Goal
  BY <1>0, <1>6 DEF OnLocatePeer, clocks
<1>7. ASSUME NEW n \in Nodes, NEW f \in air, NEW far, OnLocateStranger(n, f, far) PROVE Goal
  BY <1>0, <1>7 DEF OnLocateStranger, clocks
<1>8. CASE UNCHANGED vars
  BY <1>0, <1>8 DEF vars, clocks
<1> QED BY <1>1, <1>2, <1>3, <1>4, <1>5, <1>6, <1>7, <1>8 DEF Next

LEMMA QuotaIs == Quota \in Nat /\ Quota <= MaxUids
BY Constants DEF Quota

LEMMA PlainStep ==
    ASSUME Plain, ChainInv, [Next]_vars, kit' = kit
    PROVE  Plain' /\ uids <= uids' /\ now <= now' /\ uids' \in Nat
<1> DEFINE Goal == Plain' /\ uids <= uids' /\ now <= now' /\ uids' \in Nat
<1> SUFFICES Goal
  OBVIOUS
<1>a. uids \in Nat /\ now \in Nat /\ uids <= uids /\ now <= now
  BY Constants DEF Plain
<1>0. UNCHANGED <<now, uids, asked, acks, noacks, burst>> => Goal
  BY <1>a DEF Plain
<1>b. /\ uids < Quota => uids + 1 \in 0 .. MaxUids /\ uids + 1 \in Nat /\ uids <= uids + 1
      /\ \A n \in Nodes : uids + 1 \in 0 .. MaxUids =>
            [asked EXCEPT ![n] = uids + 1] \in [Nodes -> 0 .. MaxUids]
  BY <1>a, QuotaIs, Constants DEF Plain
<1> HIDE DEF Goal
<1>1. CASE PassTime
  <2>1. now' = now + 1 /\ now < MaxNow /\ UNCHANGED <<uids, asked, acks, noacks, burst>>
    BY <1>1 DEF PassTime, budget, sched
  <2>2. now' \in 0 .. MaxNow /\ now <= now'
    BY <1>a, <2>1, Constants
  <2> QED BY <1>a, <2>1, <2>2 DEF Goal, Plain
<1>2. ASSUME NEW r \in BOOLEAN, Foreign(r) PROVE Goal
  BY <1>2, <1>a, <1>b DEF Goal, Plain, Foreign, budget, sched
<1>3. CASE \E f \in air : ForeignAgain(f)
  BY <1>0, <1>3 DEF ForeignAgain, budget, sched
<1>4. CASE \E n \in Nodes, o \in Offsets : SetClock(n, o) \/ ReadClock(n, o)
  <2> PICK n \in Nodes, o \in Offsets : SetClock(n, o) \/ ReadClock(n, o)
    BY <1>4
  <2>1. UNCHANGED <<now, uids, asked, acks, noacks>>
    BY DEF SetClock, ReadClock, budget
  <2>2. UNCHANGED burst \/ burst' = [burst EXCEPT ![n] = 0]
    BY DEF SetClock, ReadClock, TakesClock, StartAligned, sched
  <2>3. burst' \in [Nodes -> 0 .. Bursts]
    BY <2>2, Constants DEF Plain
  <2> QED BY <1>a, <2>1, <2>3 DEF Goal, Plain
<1>5. ASSUME NEW n \in Nodes, NEW p \in Nodes, NEW carried \in BOOLEAN, OnStatus(n, p, carried)
      PROVE  Goal
  <2>1. UNCHANGED <<now, uids, asked, acks, noacks>>
    BY <1>5 DEF OnStatus, budget
  <2>2. UNCHANGED burst \/ burst' = [burst EXCEPT ![n] = 0]
    BY <1>5 DEF OnStatus, TakesClock, StartAligned, sched
  <2>3. burst' \in [Nodes -> 0 .. Bursts]
    BY <2>2, Constants DEF Plain
  <2> QED BY <1>a, <2>1, <2>3 DEF Goal, Plain
<1>6. ASSUME NEW n \in Nodes, PowerOff(n) \/ PowerOn(n) PROVE Goal
  <2>1. UNCHANGED <<now, uids, acks, noacks>>
    BY <1>6 DEF PowerOff, PowerOn, budget
  <2>2. burst' \in [Nodes -> 0 .. Bursts] /\ asked' \in [Nodes -> 0 .. MaxUids]
    BY <1>6, Constants DEF Plain, PowerOff, PowerOn
  <2> QED BY <1>a, <2>1, <2>2 DEF Goal, Plain
<1>7. ASSUME NEW n \in Nodes, MeshTick(n) PROVE Goal
  <2>1. UNCHANGED <<now, acks, noacks, burst>> /\ uids < Quota
    BY <1>7 DEF MeshTick, budget, sched
  <2>2. uids' = uids \/ uids' = uids + 1
    BY <1>7 DEF MeshTick
  <2>3. asked' = [asked EXCEPT ![n] = asked[n]] \/ asked' = [asked EXCEPT ![n] = uids']
    BY <1>7 DEF MeshTick
  <2>4. uids' \in 0 .. MaxUids /\ uids' \in Nat /\ uids <= uids'
    BY <1>a, <1>b, <2>1, <2>2 DEF Plain
  <2>5. asked' \in [Nodes -> 0 .. MaxUids]
    BY <2>3, <2>4 DEF Plain
  <2> QED BY <1>a, <2>1, <2>4, <2>5 DEF Goal, Plain
<1>8. ASSUME NEW n \in Nodes, NEW four, NEW pairing, Window(n, four, pairing) PROVE Goal
  <2>1. UNCHANGED <<now, uids, asked>>
    BY <1>8 DEF Window
  <2>2. acks' = [acks EXCEPT ![n] = 0] /\ noacks' = [noacks EXCEPT ![n] = 0]
    BY <1>8 DEF Window
  <2>3. PICK b \in 0 .. Bursts - 1 : burst' = [burst EXCEPT ![n] = IF clock[n] = None THEN b ELSE 0]
    BY <1>8 DEF Window
  <2>4. b \in 0 .. Bursts /\ 0 \in 0 .. Bursts /\ 0 \in 0 .. AckLimit /\ 0 \in 0 .. NoAckLimit
    BY Constants
  <2>5. burst' \in [Nodes -> 0 .. Bursts]
    BY <2>3, <2>4 DEF Plain
  <2>6. acks' \in [Nodes -> 0 .. AckLimit] /\ noacks' \in [Nodes -> 0 .. NoAckLimit]
    BY <2>2, <2>4 DEF Plain
  <2> QED BY <1>a, <2>1, <2>5, <2>6 DEF Goal, Plain
<1>9. ASSUME NEW n \in Nodes, NEW four, NEW pairing, Burst(n, four, pairing) PROVE Goal
  <2>1. UNCHANGED <<now, uids, asked, acks, noacks>> /\ burst[n] > 0 /\ burst' = [burst EXCEPT ![n] = burst[n] - 1]
    BY <1>9 DEF Burst, budget
  <2>2. burst[n] - 1 \in 0 .. Bursts
    BY <2>1, Constants DEF Plain
  <2>3. burst' \in [Nodes -> 0 .. Bursts]
    BY <2>1, <2>2 DEF Plain
  <2> QED BY <1>a, <2>1, <2>3 DEF Goal, Plain
<1>10. ASSUME NEW n \in Nodes, NEW f \in air, OnLocateEnds(n, f) PROVE Goal
  <2>1. UNCHANGED <<now, uids, acks, noacks, burst>>
    BY <1>10 DEF OnLocateEnds, budget, sched
  <2>2. 0 \in 0 .. MaxUids
    BY Constants
  <2>3. asked' = asked \/ asked' = [asked EXCEPT ![n] = asked[n]] \/ asked' = [asked EXCEPT ![n] = 0]
    BY <1>10 DEF OnLocateEnds
  <2>4. asked' \in [Nodes -> 0 .. MaxUids]
    BY <2>2, <2>3 DEF Plain
  <2> QED BY <1>a, <2>1, <2>4 DEF Goal, Plain
<1>11. ASSUME NEW n \in Nodes, NEW f \in air, NEW far \in BOOLEAN, OnLocatePeer(n, f, far) PROVE Goal
  <2>1. UNCHANGED <<now, asked, noacks, burst>>
    BY <1>11 DEF OnLocatePeer, sched
  <2>2. uids' = uids \/ (uids' = uids + 1 /\ uids < Quota)
    BY <1>11 DEF OnLocatePeer
  <2>3. acks' = [acks EXCEPT ![n] = acks[n]] \/ (acks' = [acks EXCEPT ![n] = acks[n] + 1] /\ acks[n] < AckLimit)
    BY <1>11 DEF OnLocatePeer
  <2>4. acks[n] < AckLimit => acks[n] + 1 \in 0 .. AckLimit
    BY Constants DEF Plain
  <2>5. acks' \in [Nodes -> 0 .. AckLimit]
    BY <2>3, <2>4 DEF Plain
  <2>6. uids' \in 0 .. MaxUids /\ uids' \in Nat /\ uids <= uids'
    BY <1>a, <1>b, <2>2 DEF Plain
  <2> QED BY <1>a, <2>1, <2>5, <2>6 DEF Goal, Plain
<1>12. ASSUME NEW n \in Nodes, NEW f \in air, NEW far \in BOOLEAN, OnLocateStranger(n, f, far) PROVE Goal
  <2>1. UNCHANGED <<now, asked, uids, burst>>
    BY <1>12 DEF OnLocateStranger, sched
  <2>2. acks' = [acks EXCEPT ![n] = acks[n]] \/ (acks' = [acks EXCEPT ![n] = acks[n] + 1] /\ acks[n] < AckLimit)
    BY <1>12 DEF OnLocateStranger
  <2>3. \/ noacks' = [noacks EXCEPT ![n] = noacks[n]]
        \/ noacks' = [noacks EXCEPT ![n] = noacks[n] + 1] /\ noacks[n] < NoAckLimit
    BY <1>12 DEF OnLocateStranger
  <2>4. /\ acks[n] < AckLimit => acks[n] + 1 \in 0 .. AckLimit
        /\ noacks[n] < NoAckLimit => noacks[n] + 1 \in 0 .. NoAckLimit
    BY Constants DEF Plain
  <2>5. acks' \in [Nodes -> 0 .. AckLimit] /\ noacks' \in [Nodes -> 0 .. NoAckLimit]
    BY <2>2, <2>3, <2>4 DEF Plain
  <2> QED BY <1>a, <2>1, <2>5 DEF Goal, Plain
<1>13. CASE UNCHANGED vars
  BY <1>0, <1>13 DEF vars, budget, sched
<1> QED BY <1>1, <1>2, <1>3, <1>4, <1>5, <1>6, <1>7, <1>8, <1>9, <1>10, <1>11, <1>12, <1>13 DEF Next

\* What a window sends: the queued request, and a reply once more.
LEMMA TransmitsMail ==
    ASSUME Plain, ChainInv, Mail, NEW n \in Nodes, NEW four, NEW pairing, Transmits(n, four, pairing)
    PROVE  MailOK(air', outbox', reply', sends', uids, now, clock, Moving)
<1> DEFINE r == reply[n]
           repeats == r.at # None /\ clock[n] # None /\ four /\ now - r.at < RepeatMax
           again == IF repeats THEN {Locate(n, r.uid, FALSE)} ELSE {}
           spent == (clock[n] # None /\ four) \/ now - r.at >= RepeatMax
           A == air \cup outbox[n]
           S == [v \in Uids |-> IF \E f \in outbox[n] : f.uid = v THEN sends[v] + 1 ELSE sends[v]]
<1>1. CASE pairing
  BY <1>1 DEF Transmits, Mail
<1>2. CASE ~pairing
  <2>1. /\ air' = A \cup again
        /\ outbox' = [outbox EXCEPT ![n] = {}]
        /\ reply' = [reply EXCEPT ![n].at = IF spent THEN None ELSE @]
        /\ sends' = [v \in Uids |-> IF \E f \in outbox[n] \cup again : f.uid = v THEN Once(v) ELSE sends[v]]
    BY <1>2 DEF Transmits, SendOutbox
  <2>2. /\ outbox \in [Nodes -> SUBSET Frame] /\ reply \in [Nodes -> ReplyRecord]
        /\ sends \in [Uids -> 0 .. 2] /\ uids \in Nat /\ now \in Nat
        /\ BoxOK(air, outbox, sends, uids, now)
    BY Constants DEF Mail, MailOK, BoxOK, RepliesOK, SendsOK, Plain
  <2>3. MailOK(A, outbox', reply, S, uids, now, clock, Moving)
    <3>1. CASE outbox[n] = {}
      <4>1. A = air /\ outbox' = outbox /\ S = sends
        BY <2>1, <2>2, <3>1
      <4> QED BY <4>1 DEF Mail
    <3>2. CASE outbox[n] # {}
      <4>1. PICK f \in outbox[n] : TRUE
        BY <3>2
      <4>2. outbox[n] = {f}
        BY <2>2, <4>1 DEF BoxOK
      <4>3. S = [v \in Uids |-> IF v = f.uid THEN sends[v] + 1 ELSE sends[v]]
        BY <4>2
      <4> HIDE DEF S
      <4>4. MailOK(air \cup {f}, outbox', reply, S, uids, now, clock, Moving)
        BY <2>1, <2>2, <4>1, <4>3, MailSends DEF Mail
      <4> QED BY <4>2, <4>4
    <3> QED BY <3>1, <3>2
  <2>4. /\ reply' \in [Nodes -> ReplyRecord]
        /\ \A m \in Nodes : m # n => reply'[m] = reply[m]
        /\ spent => reply'[n].at = None
        /\ ~spent => reply'[n] = reply[n]
    <3>1. reply[n] \in ReplyRecord /\ None \in None .. MaxNow
      BY <2>2, Constants
    <3>2. [reply[n] EXCEPT !.at = None] \in ReplyRecord /\ [reply[n] EXCEPT !.at = None].at = None
      BY <3>1 DEF ReplyRecord
    <3>3. [reply[n] EXCEPT !.at = reply[n].at] = reply[n]
      BY <3>1 DEF ReplyRecord
    <3>4. reply' = [reply EXCEPT ![n] = [reply[n] EXCEPT !.at = IF spent THEN None ELSE reply[n].at]]
      BY <2>1
    <3> HIDE DEF spent
    <3>5. CASE spent
      BY <2>2, <3>2, <3>4, <3>5
    <3>6. CASE ~spent
      BY <2>2, <3>3, <3>4, <3>6
    <3> QED BY <3>5, <3>6
  <2>5. CASE repeats
    <3> DEFINE g == Locate(n, r.uid, FALSE)
               T == [v \in Uids |-> IF v = r.uid THEN S[v] + 1 ELSE S[v]]
    <3>1. r.at # None /\ clock[n] \in Offsets /\ now - r.at < RepeatMax /\ spent
      BY <2>5 DEF ChainInv, ChainTypes
    <3>2. r.uid \in Uids /\ sends[r.uid] = 1
      BY <2>2, <3>1, Constants DEF Mail, MailOK, RepliesOK, ReplyRecord, Uids, Plain
    <3>3. /\ g \in Frame /\ Short(g, now) /\ g.uid = r.uid /\ g.origin = n /\ g.src = n
          /\ g.exp = now + clock[n] + Lifetime
      BY <2>2, <3>1, <3>2, LocateIs
    <3>4. again = {g}
      BY <2>5
    <3> HIDE DEF g, spent, again, repeats
    <3>5. \A f \in outbox[n] : f.uid # r.uid
      BY <2>2, <3>2 DEF BoxOK
    <3>6. sends' = T
      <4>1. ASSUME NEW v \in Uids
            PROVE  (IF \E f \in outbox[n] \cup again : f.uid = v THEN Once(v) ELSE sends[v]) = T[v]
        <5>1. (\E f \in outbox[n] \cup again : f.uid = v) <=> (\E f \in outbox[n] : f.uid = v) \/ v = r.uid
          BY <3>3, <3>4
        <5>2. v = r.uid => S[v] = sends[v]
          BY <3>5
        <5> QED BY <5>1, <5>2 DEF Once
      <4> QED BY <2>1, <4>1
    <3> HIDE DEF S
    <3>7. MailOK(A \cup {g}, outbox', reply', T, uids, now, clock, Moving)
      <4> HIDE DEF A, T
      <4>1. T = [v \in Uids |-> IF v = r.uid THEN S[v] + 1 ELSE S[v]]
        BY DEF T
      <4> QED BY <2>2, <2>3, <2>4, <3>1, <3>3, <4>1, MailRepeats
    <3> QED BY <2>1, <3>4, <3>6, <3>7
  <2>6. CASE ~repeats
    <3>1. again = {}
      BY <2>6
    <3>2. sends' = S
      BY <2>1, <3>1 DEF Once
    <3> HIDE DEF spent, S, A, again
    <3>3. \A m \in Nodes : reply'[m] = reply[m] \/ reply'[m].at = None
      BY <2>4
    <3>4. outbox' \in [Nodes -> SUBSET Frame]
      BY <2>1, <2>2
    <3>5. MailOK(A, outbox', reply', S, uids, now, clock, Moving)
      BY <2>3, <2>4, <3>3, <3>4, MailDrops
    <3> QED BY <2>1, <3>1, <3>2, <3>5
  <2> QED BY <2>5, <2>6
<1> QED BY <1>1, <1>2

\* Dropping a reply that is due, and dropping it with its UID.
LEMMA ReplyDropped ==
    ASSUME NEW R \in [Nodes -> ReplyRecord], NEW n \in Nodes
    PROVE  /\ LET Q == [R EXCEPT ![n].at = None]
              IN  Q \in [Nodes -> ReplyRecord] /\ \A m \in Nodes : Q[m] = R[m] \/ Q[m].at = None
           /\ LET Q == [R EXCEPT ![n].uid = 0, ![n].at = None]
              IN  Q \in [Nodes -> ReplyRecord] /\ \A m \in Nodes : Q[m] = R[m] \/ Q[m].at = None
<1> DEFINE r == [R[n] EXCEPT !.at = None]
           s == [R[n] EXCEPT !.uid = 0, !.at = None]
<1>1. R[n] \in ReplyRecord /\ None \in None .. MaxNow /\ 0 \in 0 .. MaxUids
  BY Constants
<1>2. r \in ReplyRecord /\ r.at = None /\ s \in ReplyRecord /\ s.at = None
  BY <1>1 DEF ReplyRecord
<1>3. [R EXCEPT ![n].at = None] = [R EXCEPT ![n] = r]
  OBVIOUS
<1>4. [R EXCEPT ![n].uid = 0, ![n].at = None] = [R EXCEPT ![n] = s]
  BY <1>1 DEF ReplyRecord
<1> HIDE DEF r, s
<1> QED BY <1>2, <1>3, <1>4

LEMMA HeardMail ==
    ASSUME Plain, ChainInv, Mail, NEW n \in Nodes, NEW f \in air, Hears(n, f)
    PROVE  /\ f \in Frame /\ f.uid \in Uids /\ f.uid <= uids /\ f.exp \in Int /\ Short(f, now)
           /\ clock[n] \in Offsets
           /\ now \in Nat /\ uids \in Nat
<1>1. AirOK(air, uids, now, Moving) /\ now \in Nat /\ uids \in Nat
  BY Constants DEF Plain, Mail, MailOK
<1>2. f \in Frame /\ f.uid \in Uids /\ f.uid <= uids /\ f.exp \in Int
  BY <1>1, UidsOf
<1>3. Short(f, now)
  BY <1>1 DEF AirOK
<1>4. clock[n] \in Offsets
  BY DEF Hears, ChainInv, ChainTypes
<1> QED BY <1>1, <1>2, <1>3, <1>4

\* A node hears a frame and lets it end there.
LEMMA EndsMail ==
    ASSUME Plain, ChainInv, Mail, NEW n \in Nodes, NEW f \in air, OnLocateEnds(n, f)
    PROVE  MailOK(air', outbox', reply', sends', uids', now', clock, Moving)
<1>1. UNCHANGED <<air, outbox, sends, uids, now>>
  BY DEF OnLocateEnds
<1>2. reply \in [Nodes -> ReplyRecord] /\ outbox \in [Nodes -> SUBSET Frame]
  BY DEF Mail, MailOK, RepliesOK, BoxOK
<1>3. reply' = reply \/ reply' = [reply EXCEPT ![n].at = None]
  <2>1. reply' = reply \/ reply' = [reply EXCEPT ![n].at = None] \/ reply' = [reply EXCEPT ![n].at = reply[n].at]
    BY DEF OnLocateEnds
  <2>2. [reply[n] EXCEPT !.at = reply[n].at] = reply[n]
    BY <1>2 DEF ReplyRecord
  <2>3. [reply EXCEPT ![n].at = reply[n].at] = reply
    BY <1>2, <2>2
  <2> QED BY <2>1, <2>3
<1>4. reply' \in [Nodes -> ReplyRecord] /\ \A m \in Nodes : reply'[m] = reply[m] \/ reply'[m].at = None
  <2> DEFINE Q == [reply EXCEPT ![n].at = None]
  <2>1. Q \in [Nodes -> ReplyRecord] /\ \A m \in Nodes : Q[m] = reply[m] \/ Q[m].at = None
    BY <1>2, ReplyDropped
  <2>2. reply' = reply \/ reply' = Q
    BY <1>3
  <2> HIDE DEF Q
  <2> QED BY <1>2, <2>1, <2>2
<1>5. MailOK(air, outbox, reply', sends, uids, now, clock, Moving)
  BY <1>2, <1>4, MailDrops DEF Mail
<1> QED BY <1>1, <1>5

\* A node hears a stranger's frame.
LEMMA StrangerMail ==
    ASSUME Plain, ChainInv, Mail, NEW n \in Nodes, NEW f \in air, NEW far, OnLocateStranger(n, f, far)
    PROVE  MailOK(air', outbox', reply', sends', uids', now', clock, Moving)
<1>1. UNCHANGED <<outbox, sends, uids, now, reply>>
  BY DEF OnLocateStranger
<1>2. Hears(n, f)
  BY DEF OnLocateStranger
<1>3. f \in Frame
  BY <1>2, HeardMail
<1>4. air' = air \/ (air' = air \cup {Relayed(n, f)} /\ CanRelay(n, f))
  BY DEF OnLocateStranger, Relay
<1>5. CASE air' = air
  BY <1>1, <1>5 DEF Mail
<1>6. CASE air' = air \cup {Relayed(n, f)} /\ CanRelay(n, f)
  <2>1. /\ Relayed(n, f) \in Frame
        /\ Relayed(n, f).uid = f.uid /\ Relayed(n, f).exp = f.exp
        /\ Relayed(n, f).origin = f.origin /\ Relayed(n, f).src \in Nodes
    BY <1>3, <1>6, RelayedIs
  <2>2. MailOK(air \cup {Relayed(n, f)}, outbox, reply, sends, uids, now, clock, Moving)
    BY <2>1, MailCopies DEF Mail
  <2> QED BY <1>1, <1>6, <2>2
<1> QED BY <1>4, <1>5, <1>6

\* A node hears a peer's frame: an answer, a copy, both or neither.
LEMMA PeerMail ==
    ASSUME Plain, ChainInv, Mail, NEW n \in Nodes, NEW f \in air, NEW far, OnLocatePeer(n, f, far)
    PROVE  MailOK(air', outbox', reply', sends', uids', now', clock, Moving)
<1> DEFINE r == reply[n]
           p == peer[n][f.origin]
           direct == ~p.via /\ p.heard # None /\ now - p.heard < ReplyHold
           answers == f.req /\ ~direct /\ (r.last = None \/ now - r.last >= ReplyHold) /\ uids < Quota
           carries == f.req /\ acks[n] < AckLimit /\ Relay(n, f, far)
           A == air \cup (IF answers THEN {Locate(n, uids', FALSE)} ELSE {})
           C == IF carries THEN {Relayed(n, f)} ELSE {}
<1>1. /\ UNCHANGED <<outbox, now>> /\ Hears(n, f)
      /\ uids' = IF answers THEN uids + 1 ELSE uids
      /\ reply' = IF answers THEN [reply EXCEPT ![n] = [uid |-> uids', at |-> now, last |-> now]] ELSE reply
      /\ sends' = IF answers THEN [sends EXCEPT ![uids'] = @ + 1] ELSE sends
      /\ air' = A \cup C
  BY DEF OnLocatePeer
<1>2. f \in Frame /\ clock[n] \in Offsets /\ now \in Nat /\ uids \in Nat
  BY <1>1, HeardMail
<1>3. carries => CanRelay(n, f)
  BY DEF Relay
<1>4. answers => uids + 1 <= MaxUids
  BY <1>2, QuotaIs, Constants
<1> HIDE DEF answers, carries
<1>5. MailOK(A, outbox, reply', sends', uids', now, clock, Moving)
  <2>1. CASE answers
    <3> DEFINE g == Locate(n, uids + 1, FALSE)
    <3>1. uids + 1 \in Uids
      BY <1>2, <1>4, <2>1, Constants DEF Uids
    <3>2. /\ g \in Frame /\ Short(g, now) /\ g.uid = uids + 1 /\ g.origin = n /\ g.src = n
          /\ g.exp = now + clock[n] + Lifetime
      BY <1>2, <3>1, LocateIs
    <3>3. A = air \cup {g} /\ uids' = uids + 1
      BY <1>1, <2>1
    <3>4. /\ reply' = [reply EXCEPT ![n] = [uid |-> uids + 1, at |-> now, last |-> now]]
          /\ sends' = [sends EXCEPT ![uids + 1] = @ + 1]
      BY <1>1, <2>1
    <3> HIDE DEF g, A
    <3>5. now \in 0 .. MaxNow
      BY DEF Plain
    <3>6. MailOK(air \cup {g}, outbox, reply', sends', uids + 1, now, clock, Moving)
      BY <1>2, <1>4, <2>1, <3>2, <3>4, <3>5, MailAnswers DEF Mail
    <3> QED BY <3>3, <3>6
  <2>2. CASE ~answers
    <3>1. A = air /\ uids' = uids /\ reply' = reply /\ sends' = sends
      BY <1>1, <2>2
    <3> QED BY <3>1 DEF Mail
  <2> QED BY <2>1, <2>2
<1>6. f \in A
  OBVIOUS
<1> HIDE DEF A
<1>7. CASE carries
  <2>1. /\ Relayed(n, f) \in Frame
        /\ Relayed(n, f).uid = f.uid /\ Relayed(n, f).exp = f.exp
        /\ Relayed(n, f).origin = f.origin /\ Relayed(n, f).src \in Nodes
    BY <1>2, <1>3, <1>7, RelayedIs
  <2>2. MailOK(A \cup {Relayed(n, f)}, outbox, reply', sends', uids', now, clock, Moving)
    BY <1>5, <1>6, <2>1, MailCopies
  <2>3. air' = A \cup {Relayed(n, f)}
    BY <1>1, <1>7
  <2> QED BY <1>1, <2>2, <2>3
<1>8. CASE ~carries
  <2>1. air' = A
    BY <1>1, <1>8
  <2> QED BY <1>1, <1>5, <2>1
<1> QED BY <1>7, <1>8

\* A tick queues a request, or none.
LEMMA TickMail ==
    ASSUME Plain, ChainInv, Mail, NEW n \in Nodes, MeshTick(n)
    PROVE  MailOK(air', outbox', reply', sends', uids', now', clock, Moving)
<1>1. /\ UNCHANGED <<air, reply, sends, now>> /\ outbox[n] = {} /\ uids < Quota /\ tick[n] > 0
      /\ \/ uids' = uids /\ outbox' = [outbox EXCEPT ![n] = {}]
         \/ uids' = uids + 1 /\ outbox' = [outbox EXCEPT ![n] = {Locate(n, uids', TRUE)}]
  BY DEF MeshTick
<1>2. outbox \in [Nodes -> SUBSET Frame] /\ now \in Nat /\ uids \in Nat
  BY Constants DEF Mail, MailOK, BoxOK, Plain
<1>3. CASE uids' = uids /\ outbox' = [outbox EXCEPT ![n] = {}]
  <2>1. outbox' = outbox
    BY <1>1, <1>2, <1>3
  <2> QED BY <1>1, <1>3, <2>1 DEF Mail
<1>4. CASE uids' = uids + 1 /\ outbox' = [outbox EXCEPT ![n] = {Locate(n, uids', TRUE)}]
  <2> DEFINE g == Locate(n, uids + 1, TRUE)
  <2>1. uids + 1 <= MaxUids /\ uids + 1 \in Uids
    BY <1>1, <1>2, QuotaIs, Constants DEF Uids
  <2>2. clock[n] \in Offsets
    BY <1>1, NoneNoOffset DEF ChainInv, ChainTypes, OneChain
  <2>3. /\ g \in Frame /\ Short(g, now) /\ g.uid = uids + 1 /\ g.origin = n /\ g.src = n
    BY <1>2, <2>1, <2>2, LocateIs
  <2>4. outbox' = [outbox EXCEPT ![n] = {g}]
    BY <1>4
  <2> HIDE DEF g
  <2>5. MailOK(air, outbox', reply, sends, uids + 1, now, clock, Moving)
    BY <1>2, <2>1, <2>3, <2>4, MailAsks DEF Mail
  <2> QED BY <1>1, <1>4, <2>5
<1> QED BY <1>1, <1>3, <1>4

LEMMA OffMail ==
    ASSUME Plain, ChainInv, Mail, NEW n \in Nodes, PowerOff(n)
    PROVE  MailOK(air', outbox', reply', sends', uids', now', clock, Moving)
<1>1. UNCHANGED <<air, sends, uids, now>> /\ outbox' = [outbox EXCEPT ![n] = {}]
  BY DEF PowerOff
<1>2. reply \in [Nodes -> ReplyRecord] /\ outbox \in [Nodes -> SUBSET Frame]
  BY DEF Mail, MailOK, RepliesOK, BoxOK
<1> DEFINE Q == [reply EXCEPT ![n].uid = 0, ![n].at = None]
<1>3. Q \in [Nodes -> ReplyRecord] /\ \A m \in Nodes : Q[m] = reply[m] \/ Q[m].at = None
  BY <1>2, ReplyDropped
<1>4. reply' = Q
  BY DEF PowerOff
<1> HIDE DEF Q
<1>5. outbox' \in [Nodes -> SUBSET Frame] /\ \A m \in Nodes : outbox'[m] = outbox[m] \/ outbox'[m] = {}
  BY <1>1, <1>2
<1>6. MailOK(air, outbox', reply', sends, uids, now, clock, Moving)
  BY <1>3, <1>4, <1>5, MailDrops DEF Mail
<1> QED BY <1>1, <1>6

\* A stranger's frame, new or repeated.
LEMMA ForeignMail ==
    ASSUME Plain, ChainInv, Mail, NEW b \in BOOLEAN, Foreign(b)
    PROVE  MailOK(air', outbox', reply', sends', uids', now', clock, Moving)
<1> DEFINE k == IF "crowd" \in kit THEN MaxHops - 1 ELSE 0
           x == now + Lifetime
           w == uids + 1
           g == [uid |-> w, origin |-> Stranger, src |-> Stranger, exp |-> x, req |-> b, hops |-> k]
<1>1. /\ UNCHANGED <<outbox, reply, sends, now>> /\ uids' = w /\ uids < Quota
      /\ air' = air \cup {g}
  BY DEF Foreign
<1>2. now \in Nat /\ uids \in Nat /\ x \in Int /\ x <= now + Lifetime /\ x = now + 0 + Lifetime /\ k \in 0 .. MaxHops
  BY Constants DEF Plain
<1>3. w \in Uids
  BY <1>1, <1>2, QuotaIs, Constants DEF Uids
<1> HIDE DEF k, x, w
<1>4. /\ g \in Frame /\ g.uid = w /\ g.src = Stranger /\ g.origin = Stranger /\ g.exp = x
  BY <1>2, <1>3 DEF Frame
<1> HIDE DEF g
<1>5. Short(g, now)
  BY <1>2, <1>4, ShortIs
<1>6. MailOK(air \cup {g}, outbox, reply, sends, uids + 1, now, clock, Moving)
  BY <1>2, <1>4, <1>5, MailForeign DEF Mail, w
<1> QED BY <1>1, <1>6 DEF w

LEMMA ForeignAgainMail ==
    ASSUME Plain, ChainInv, Mail, NEW f \in air, ForeignAgain(f)
    PROVE  MailOK(air', outbox', reply', sends', uids', now', clock, Moving)
<1> DEFINE x == now + Lifetime
           g == [f EXCEPT !.exp = x]
<1>1. /\ UNCHANGED <<outbox, reply, sends, now, uids>> /\ air' = air \cup {g}
      /\ f.src = Stranger /\ now - (f.exp - Lifetime) < RepeatMax
      /\ \A h \in air : h.src = Stranger /\ h.uid = f.uid => h = f
  BY DEF ForeignAgain
<1>2. now \in Nat /\ uids \in Nat /\ x \in Int
  BY Constants DEF Plain
<1>3. f \in Frame
  BY DEF Mail, MailOK, AirOK
<1>4. x = now + Lifetime
  OBVIOUS
<1> HIDE DEF x
<1>5. g \in Frame /\ g.uid = f.uid /\ g.origin = f.origin /\ g.src = f.src /\ g.exp = x
  BY <1>2, <1>3 DEF Frame
<1> HIDE DEF g
<1>6. MailOK(air \cup {g}, outbox, reply, sends, uids, now, clock, Moving)
  BY <1>1, <1>2, <1>4, <1>5, MailForeignAgain DEF Mail
<1> QED BY <1>1, <1>6

LEMMA MailStep ==
    ASSUME Plain, ChainInv, Set, Mail, [Next]_vars
    PROVE  Mail'
<1> DEFINE Goal == MailOK(air', outbox', reply', sends', uids', now', clock, Moving)
<1>a. kit' = kit /\ (Moving \/ clock' = clock)
  BY ClocksStep
<1>b. Moving' = Moving
  BY <1>a DEF Moving
<1>c. SUFFICES Goal
  <2>1. MailOK(air', outbox', reply', sends', uids', now', clock', Moving)
    BY <1>a, <1>c, MailClocks
  <2> QED BY <1>b, <2>1 DEF Mail
<1>0. UNCHANGED <<air, outbox, reply, sends, uids, now>> => Goal
  BY DEF Mail
<1> HIDE DEF Goal
<1>1. CASE PassTime
  <2>1. UNCHANGED <<air, outbox, reply, sends, uids>> /\ now' = now + 1
    BY <1>1 DEF PassTime
  <2>2. now \in Nat /\ uids \in Nat
    BY Constants DEF Plain
  <2>3. MailOK(air, outbox, reply, sends, uids, now + 1, clock, Moving)
    BY <2>2, MailTime DEF Mail
  <2> QED BY <2>1, <2>3 DEF Goal
<1>2. ASSUME NEW b \in BOOLEAN, Foreign(b) PROVE Goal
  BY <1>2, ForeignMail DEF Goal
<1>3. ASSUME NEW f \in air, ForeignAgain(f) PROVE Goal
  BY <1>3, ForeignAgainMail DEF Goal
<1>4. CASE \E n \in Nodes, o \in Offsets : SetClock(n, o) \/ ReadClock(n, o)
  BY <1>0, <1>4 DEF SetClock, ReadClock
<1>5. CASE \E n, p \in Nodes, carried \in BOOLEAN : OnStatus(n, p, carried)
  BY <1>0, <1>5 DEF OnStatus
<1>6. ASSUME NEW n \in Nodes, PowerOff(n) PROVE Goal
  BY <1>6, OffMail DEF Goal
<1>7. CASE \E n \in Nodes : PowerOn(n)
  BY <1>0, <1>7 DEF PowerOn
<1>8. ASSUME NEW n \in Nodes, MeshTick(n) PROVE Goal
  BY <1>8, TickMail DEF Goal
<1>9. ASSUME NEW n \in Nodes, NEW four, NEW pairing, Window(n, four, pairing) \/ Burst(n, four, pairing)
      PROVE  Goal
  <2>1. Transmits(n, four, pairing) /\ UNCHANGED <<uids, now>>
    BY <1>9 DEF Window, Burst
  <2>2. MailOK(air', outbox', reply', sends', uids, now, clock, Moving)
    BY <2>1, TransmitsMail
  <2> QED BY <2>1, <2>2 DEF Goal
<1>10. ASSUME NEW n \in Nodes, NEW f \in air, OnLocateEnds(n, f) PROVE Goal
  BY <1>10, EndsMail DEF Goal
<1>11. ASSUME NEW n \in Nodes, NEW f \in air, NEW far, OnLocatePeer(n, f, far) PROVE Goal
  BY <1>11, PeerMail DEF Goal
<1>12. ASSUME NEW n \in Nodes, NEW f \in air, NEW far, OnLocateStranger(n, f, far) PROVE Goal
  BY <1>12, StrangerMail DEF Goal
<1>13. CASE UNCHANGED vars
  BY <1>0, <1>13 DEF vars
<1> QED BY <1>1, <1>2, <1>3, <1>4, <1>5, <1>6, <1>7, <1>8, <1>9, <1>10, <1>11, <1>12, <1>13 DEF Next

-----------------------------------------------------------------------------
(* What a node knows of its peers *)

\* A node asked for a peer no more often than frames were started.
Peers ==
    /\ peer \in [Nodes -> [Nodes -> Peer]] /\ pace \in [Nodes -> [Nodes -> None .. MaxNow]]
    /\ \A n, p \in Nodes : peer[n][p].count <= uids

LEMMA AgedPeer ==
    ASSUME Plain, NEW q \in Peer
    PROVE  Aged(q) \in Peer /\ Aged(q).count = q.count
<1> DEFINE old == q.coords = None \/ now - q.coords > StaleAfter
           since == IF old /\ ~q.stale THEN now ELSE q.first
<1>1. Aged(q) = [q EXCEPT !.stale = old, !.first = since]
  BY DEF Aged
<1>2. old \in BOOLEAN /\ since \in 0 .. MaxNow
  BY DEF Plain, Peer
<1> HIDE DEF old, since
<1> QED BY <1>1, <1>2 DEF Peer

LEMMA HeardPeers ==
    ASSUME Plain, Peers, NEW n \in Nodes, NEW p \in Nodes, NEW mesh \in BOOLEAN, NEW carried \in BOOLEAN,
           HeardFrom(n, p, mesh, carried), UNCHANGED pace, uids <= uids', uids' \in Nat
    PROVE  Peers'
<1> DEFINE pos == IF carried THEN now ELSE peer[n][p].coords
           new == [peer[n][p] EXCEPT !.via = mesh, !.stale = FALSE, !.heard = now, !.coords = pos]
<1>1. peer' = [peer EXCEPT ![n] = [peer[n] EXCEPT ![p] = new]]
  <2>1. peer \in [Nodes -> [Nodes -> Peer]] /\ peer[n][p] \in Peer
    BY DEF Peers
  <2> QED BY <2>1, ZenonT(40) DEF HeardFrom, Peer
<1>2. peer[n][p] \in Peer /\ pos \in None .. MaxNow /\ now \in None .. MaxNow
  BY Constants DEF Peers, Plain, Peer
<1> HIDE DEF pos
<1>3. new \in Peer /\ new.count = peer[n][p].count
  BY <1>2 DEF Peer
<1> HIDE DEF new
<1>4. peer' \in [Nodes -> [Nodes -> Peer]]
  BY <1>1, <1>3 DEF Peers
<1>5. \A m, r \in Nodes : peer'[m][r].count = peer[m][r].count /\ peer[m][r].count \in Int
  BY <1>1, <1>3, Constants DEF Peers, Peer
<1>6. uids \in Nat
  BY Constants DEF Plain
<1>7. ASSUME NEW m \in Nodes, NEW r \in Nodes PROVE peer'[m][r].count <= uids'
  <2>1. peer[m][r].count <= uids
    BY DEF Peers
  <2> QED BY <1>5, <1>6, <2>1
<1>8. pace' \in [Nodes -> [Nodes -> None .. MaxNow]]
  BY DEF Peers
<1> QED BY <1>4, <1>7, <1>8 DEF Peers

LEMMA TickPeers ==
    ASSUME Plain, Peers, NEW n \in Nodes, MeshTick(n), uids' \in 0 .. MaxUids
    PROVE  Peers'
<1> DEFINE q == [p \in Nodes |-> IF p = n THEN peer[n][p] ELSE Aged(peer[n][p])]
           quiet == {p \in Nodes \ {n} : QuietOverMesh(q[p])}
           wanted == quiet \cup {p \in Nodes \ {n} : Lost(n, p, q[p])}
           asks == wanted # {}
           new(p) == IF asks /\ p # n /\ (q[p].stale \/ p \in quiet)
                     THEN [q[p] EXCEPT !.next = now + SendFreq, !.count = @ + 1]
                     ELSE IF p # n /\ Waits(n, p, q[p]) THEN [q[p] EXCEPT !.next = now + Delivery]
                     ELSE q[p]
<1>1. /\ peer' = [peer EXCEPT ![n] = [p \in Nodes |-> new(p)]]
      /\ pace' = [pace EXCEPT ![n] = [p \in Nodes |-> IF p \in wanted THEN now ELSE @[p]]]
      /\ uids' = IF asks THEN uids + 1 ELSE uids
  BY DEF MeshTick
<1>2. \A p \in Nodes : q[p] \in Peer /\ q[p].count <= uids
  BY AgedPeer DEF Peers
<1>3. uids \in Nat /\ now \in 0 .. MaxNow /\ now \in None .. MaxNow /\ MaxUids \in Nat
  BY Constants DEF Plain
<1>4. /\ now + SendFreq \in 0 .. MaxNow + SendFreq + Delivery
      /\ now + Delivery \in 0 .. MaxNow + SendFreq + Delivery
  BY <1>3, Numbers, Constants
<1>b. (asks => uids' = uids + 1) /\ (uids' = uids + 1 \/ uids' = uids)
  BY <1>1, Zenon
<1> HIDE DEF q, quiet, wanted, asks, new
<1>a. (asks => uids' = uids + 1) /\ uids <= uids' /\ uids' \in Nat /\ uids' <= MaxUids
  BY <1>b, <1>3
<1> USE DEF new
<1>5. ASSUME NEW p \in Nodes
      PROVE  new(p) \in Peer /\ new(p).count <= uids'
  <2>1. q[p] \in Peer /\ q[p].count <= uids /\ q[p].count \in 0 .. MaxUids
    BY <1>2 DEF Peer
  <2>2. CASE asks /\ p # n /\ (q[p].stale \/ p \in quiet)
    <3> DEFINE t == now + SendFreq
               c == q[p].count + 1
    <3>1. new(p) = [q[p] EXCEPT !.next = t, !.count = c]
      BY <2>2
    <3>2. c \in 0 .. MaxUids /\ c <= uids'
      BY <1>3, <1>a, <2>1, <2>2
    <3>3. t \in 0 .. MaxNow + SendFreq + Delivery
      BY <1>4
    <3> HIDE DEF t, c, new
    <3> QED BY <2>1, <3>1, <3>2, <3>3 DEF Peer
  <2>3. CASE ~(asks /\ p # n /\ (q[p].stale \/ p \in quiet)) /\ p # n /\ Waits(n, p, q[p])
    <3> DEFINE t == now + Delivery
    <3>1. new(p) = [q[p] EXCEPT !.next = t] /\ t \in 0 .. MaxNow + SendFreq + Delivery
      BY <1>4, <2>3
    <3> HIDE DEF t, new
    <3>2. new(p) \in Peer /\ new(p).count = q[p].count
      BY <2>1, <3>1 DEF Peer
    <3> QED BY <1>3, <1>a, <2>1, <3>2
  <2>4. CASE ~(asks /\ p # n /\ (q[p].stale \/ p \in quiet)) /\ ~(p # n /\ Waits(n, p, q[p]))
    <3>1. new(p) = q[p]
      BY <2>4
    <3> HIDE DEF new
    <3> QED BY <1>3, <1>a, <2>1, <3>1
  <2> QED BY <2>2, <2>3, <2>4
<1> HIDE DEF new
<1>6. peer' \in [Nodes -> [Nodes -> Peer]] /\ pace' \in [Nodes -> [Nodes -> None .. MaxNow]]
  BY <1>1, <1>3, <1>5 DEF Peers
<1>7. ASSUME NEW m \in Nodes, NEW p \in Nodes PROVE peer'[m][p].count <= uids'
  <2>1. CASE m = n
    BY <1>1, <1>5, <2>1 DEF Peers
  <2>2. CASE m # n
    <3>1. peer'[m][p] = peer[m][p] /\ peer[m][p].count \in Int /\ peer[m][p].count <= uids
      BY <1>1, <2>2, Constants DEF Peers, Peer
    <3> QED BY <1>1, <1>3, <3>1
  <2> QED BY <2>1, <2>2
<1> QED BY <1>6, <1>7 DEF Peers

LEMMA PeersStep ==
    ASSUME Plain, Peers, ChainInv, [Next]_vars, Plain', uids <= uids', uids' \in Nat
    PROVE  Peers'
<1>0. UNCHANGED <<peer, pace>> => Peers'
  <2>1. \A n, p \in Nodes : peer[n][p].count \in Int
    BY Constants DEF Peers, Peer
  <2>2. uids \in Nat
    BY Constants DEF Plain
  <2> QED BY <2>1, <2>2 DEF Peers
<1>1. CASE PassTime
  BY <1>0, <1>1 DEF PassTime, seeking
<1>2. ASSUME NEW n \in Nodes, NEW p \in Nodes, NEW carried \in BOOLEAN, OnStatus(n, p, carried)
      PROVE  Peers'
  BY <1>2, HeardPeers DEF OnStatus
<1>3. ASSUME NEW n \in Nodes, NEW f \in air, NEW far, OnLocatePeer(n, f, far)
      PROVE  Peers'
  BY <1>3, HeardPeers DEF OnLocatePeer
<1>4. ASSUME NEW n \in Nodes, MeshTick(n) PROVE Peers'
  <2>1. uids' \in 0 .. MaxUids
    BY DEF Plain
  <2> QED BY <1>4, <2>1, TickPeers
<1>5. CASE \/ \E request \in BOOLEAN : Foreign(request)
           \/ \E f \in air : ForeignAgain(f)
  BY <1>0, <1>5 DEF Foreign, ForeignAgain, seeking
<1>6. CASE \E n \in Nodes, o \in Offsets : SetClock(n, o) \/ ReadClock(n, o)
  BY <1>0, <1>6 DEF SetClock, ReadClock, seeking
<1>7. CASE \E n \in Nodes : PowerOff(n) \/ PowerOn(n)
  BY <1>0, <1>7 DEF PowerOff, PowerOn, seeking
<1>8. CASE \E n \in Nodes, four, pairing \in Moments : Window(n, four, pairing) \/ Burst(n, four, pairing)
  BY <1>0, <1>8 DEF Window, Burst, seeking
<1>9. CASE \E n \in Nodes, f \in air :
              OnLocateEnds(n, f) \/ \E far \in BOOLEAN : OnLocateStranger(n, f, far)
  BY <1>0, <1>9 DEF OnLocateEnds, OnLocateStranger, seeking
<1>10. CASE UNCHANGED vars
  BY <1>0, <1>10 DEF vars, seeking
<1> QED BY <1>1, <1>2, <1>3, <1>4, <1>5, <1>6, <1>7, <1>8, <1>9, <1>10 DEF Next

-----------------------------------------------------------------------------
(* What a node relayed it remembers, or the frame has lapsed *)

\* Of a frame with UID u that node n, with clock k and table entry r, has
\* relayed: its UID was pushed out of the table, or some copy h of it is as
\* old as the entry says.
Kept(A, r, e, u, t, k, c) ==
    \/ u \in e
    \/ \E h \in A, o \in Offsets :
          /\ h.uid = u /\ (o = k \/ c)
          /\ r >= h.exp - o + DedupeMin \/ t >= h.exp - o + DedupeMin

Remembers ==
    /\ relays \in [Nodes -> [Uids -> 0 .. 2]]
    /\ \A n \in Nodes, u \in Uids : relays[n][u] > 0 =>
          "foreign" \in kit /\ Kept(air, recent[n][u], evicted[n], u, now, clock[n], Moving)

\* It stays so as frames are sent, time passes, clocks are set and the entry
\* lapses or is pushed out.
LEMMA KeptStays ==
    ASSUME NEW A \in SUBSET Frame, NEW B, A \subseteq B, NEW r \in Nat, NEW s, NEW d, NEW e, d \subseteq e,
           NEW u, NEW t \in Nat, NEW v \in Nat, t <= v, NEW k, NEW l, NEW c, c \/ k = l,
           s = r \/ r <= t \/ u \in e,
           Kept(A, r, d, u, t, k, c)
    PROVE  Kept(B, s, e, u, v, l, c)
<1>1. CASE u \in e
  BY <1>1 DEF Kept
<1>2. CASE u \notin e
  <2>1. PICK h \in A, o \in Offsets :
               /\ h.uid = u /\ (o = k \/ c)
               /\ r >= h.exp - o + DedupeMin \/ t >= h.exp - o + DedupeMin
    BY <1>2 DEF Kept
  <2>2. h.exp - o + DedupeMin \in Int
    BY Constants, NoneNoOffset DEF Frame
  <2>3. s >= h.exp - o + DedupeMin \/ v >= h.exp - o + DedupeMin
    BY <1>2, <2>1, <2>2
  <2> QED BY <2>1, <2>3 DEF Kept
<1> QED BY <1>1, <1>2

\* The frames stay in the air, and only what a node hears changes what it
\* remembers and what it relayed.
LEMMA StepKinds ==
    ASSUME [Next]_vars
    PROVE  /\ air \subseteq air'
           /\ \/ UNCHANGED <<recent, evicted, relays>>
              \/ \E n \in Nodes, f \in air :
                    /\ Hears(n, f) /\ now' = now
                    /\ \/ relays' = relays
                       \/ relays' = [relays EXCEPT ![n][f.uid] = @]
                       \/ /\ "foreign" \in kit /\ CanRelay(n, f)
                          /\ relays' = [relays EXCEPT ![n][f.uid] = IF @ < 2 THEN @ + 1 ELSE @]
<1> DEFINE Carried(n, f) ==
               \/ relays' = relays
               \/ relays' = [relays EXCEPT ![n][f.uid] = @]
               \/ /\ "foreign" \in kit /\ CanRelay(n, f)
                  /\ relays' = [relays EXCEPT ![n][f.uid] = IF @ < 2 THEN @ + 1 ELSE @]
           Goal == /\ air \subseteq air'
                   /\ \/ UNCHANGED <<recent, evicted, relays>>
                      \/ \E n \in Nodes, f \in air : Hears(n, f) /\ now' = now /\ Carried(n, f)
<1> SUFFICES Goal
  OBVIOUS
<1>0. air \subseteq air' /\ UNCHANGED <<recent, evicted, relays>> => Goal
  OBVIOUS
<1>00. ASSUME NEW n \in Nodes, NEW f \in air, air \subseteq air', Hears(n, f), now' = now, Carried(n, f)
       PROVE  Goal
  BY <1>00
<1> HIDE DEF Goal
<1>1. CASE PassTime
  BY <1>0, <1>1 DEF PassTime, memory
<1>2. CASE \/ \E request \in BOOLEAN : Foreign(request)
           \/ \E f \in air : ForeignAgain(f)
  BY <1>0, <1>2 DEF Foreign, ForeignAgain, memory
<1>3. CASE \E n \in Nodes, o \in Offsets : SetClock(n, o) \/ ReadClock(n, o)
  BY <1>0, <1>3 DEF SetClock, ReadClock, memory
<1>4. CASE \E n, p \in Nodes, carried \in BOOLEAN : OnStatus(n, p, carried)
  BY <1>0, <1>4 DEF OnStatus, memory
<1>5. CASE \E n \in Nodes : PowerOff(n) \/ PowerOn(n) \/ MeshTick(n)
  BY <1>0, <1>5 DEF PowerOff, PowerOn, MeshTick, memory
<1>6. ASSUME NEW n \in Nodes, NEW four, NEW pairing, Window(n, four, pairing) \/ Burst(n, four, pairing)
      PROVE  Goal
  <2>1. Transmits(n, four, pairing) /\ UNCHANGED <<recent, evicted, relays>>
    BY <1>6 DEF Window, Burst, memory
  <2>2. air \subseteq air'
    BY <2>1 DEF Transmits, SendOutbox
  <2> QED BY <1>0, <2>1, <2>2
<1>7. ASSUME NEW n \in Nodes, NEW f \in air, OnLocateEnds(n, f) PROVE Goal
  <2>1. Hears(n, f) /\ now' = now /\ air' = air /\ relays' = relays
    BY <1>7 DEF OnLocateEnds
  <2> QED BY <1>00, <2>1
<1>8. ASSUME NEW n \in Nodes, NEW f \in air, NEW far, OnLocatePeer(n, f, far) PROVE Goal
  <2>1. Hears(n, f) /\ now' = now /\ air \subseteq air'
    BY <1>8 DEF OnLocatePeer
  <2>2. Carried(n, f)
    BY <1>8 DEF OnLocatePeer, Relay
  <2> QED BY <1>00, <2>1, <2>2
<1>9. ASSUME NEW n \in Nodes, NEW f \in air, NEW far, OnLocateStranger(n, f, far) PROVE Goal
  <2>1. Hears(n, f) /\ now' = now /\ air \subseteq air'
    BY <1>9 DEF OnLocateStranger
  <2>2. Carried(n, f)
    BY <1>9 DEF OnLocateStranger, Relay
  <2> QED BY <1>00, <2>1, <2>2
<1>10. CASE UNCHANGED vars
  BY <1>0, <1>10 DEF vars, memory
<1> QED BY <1>1, <1>2, <1>3, <1>4, <1>5, <1>6, <1>7, <1>8, <1>9, <1>10 DEF Next

\* A node that relayed a frame, still has the UID in no table of its own and
\* could relay a copy of it now, lost the UID to a full table.
LEMMA NotAgain ==
    ASSUME Plain, ChainInv, Mail, NEW n \in Nodes, NEW f \in air, Hears(n, f), CanRelay(n, f),
           "foreign" \in kit, NEW r \in Nat, r <= now, NEW e,
           Kept(air, r, e, f.uid, now, clock[n], Moving)
    PROVE  f.uid \in e
<1> SUFFICES ASSUME f.uid \notin e PROVE FALSE
  OBVIOUS
<1>1. f \in Frame /\ f.exp \in Int /\ clock[n] \in Offsets /\ clock[n] \in Nat /\ now \in Nat
  BY HeardMail, NoneNoOffset
<1>2. PICK h \in air, o \in Offsets :
             /\ h.uid = f.uid /\ (o = clock[n] \/ Moving)
             /\ r >= h.exp - o + DedupeMin \/ now >= h.exp - o + DedupeMin
  BY DEF Kept
<1>3. AirOK(air, uids, now, Moving) /\ uids \in Nat
  BY Constants DEF Mail, MailOK, Plain
<1>4. h.exp \in Int /\ o \in Nat
  BY <1>3, NoneNoOffset, UidsOf
<1>5. Close(h, f, Moving)
  BY <1>2, <1>3 DEF AirOK
<1>6. now >= h.exp - o + DedupeMin
  BY <1>1, <1>2, <1>4, Constants
<1>7. now + clock[n] <= f.exp
  BY DEF CanRelay, Wall
<1>8. f.exp - h.exp >= DedupeMin + (clock[n] - o)
  BY <1>1, <1>4, <1>6, <1>7, Constants
<1>9. CASE ~Moving
  BY <1>1, <1>2, <1>4, <1>5, <1>8, <1>9, Constants DEF Close
<1>10. CASE Moving
  <2>1. kit \in Kits /\ {"foreign", "clock"} \subseteq kit
    BY <1>10 DEF Plain, Moving
  <2>2. \A a, b \in Offsets : RepeatMax + 2 * (a - b) <= DedupeMin
    BY <2>1, JumpAssumption
  <2>3. RepeatMax + 2 * (o - clock[n]) <= DedupeMin
    BY <1>1, <2>2
  <2>4. CASE f.exp - h.exp < RepeatMax
    BY <1>1, <1>4, <1>8, <2>3, <2>4, Constants
  <2>5. CASE \E a, b \in Offsets : f.exp - h.exp < RepeatMax + (a - b)
    <3>1. PICK a \in Offsets, b \in Offsets : f.exp - h.exp < RepeatMax + (a - b)
      BY <2>5
    <3>2. a \in Nat /\ b \in Nat /\ RepeatMax + 2 * (a - b) <= DedupeMin
      BY <2>2, NoneNoOffset
    <3> QED BY <1>1, <1>4, <1>8, <2>3, <3>1, <3>2, Constants
  <2> QED BY <1>5, <2>4, <2>5 DEF Close
<1> QED BY <1>9, <1>10

LEMMA MemoryStep ==
    ASSUME Plain, ChainInv, Set, Mail, Table, Remembers, RelayOnce, [Next]_vars
    PROVE  Table' /\ Keeps /\ Remembers' /\ RelayOnce'
<1>1. /\ kit' = kit /\ (Moving \/ clock' = clock) /\ now \in Nat /\ now' \in Nat /\ now <= now'
      /\ now \in 0 .. MaxNow /\ ChainTypes
  <2>1. kit' = kit /\ (Moving \/ clock' = clock)
    BY ClocksStep
  <2>2. Plain' /\ now <= now'
    BY <2>1, PlainStep
  <2> QED BY <2>1, <2>2, Constants DEF Plain, ChainInv
<1>2. Moving' = Moving
  BY <1>1 DEF Moving
<1>3. air \in SUBSET Frame /\ air \subseteq air'
  BY StepKinds DEF Mail, MailOK, AirOK
<1>4. \A n \in Nodes, u \in Uids : recent[n][u] \in Nat /\ recent[n][u] \in Int
  BY Constants DEF Table
\* An entry that stays, has lapsed or is pushed out.
<1>5. ASSUME NEW n \in Nodes, NEW u \in Uids, relays[n][u] > 0, evicted[n] \subseteq evicted'[n],
             recent'[n][u] = recent[n][u] \/ recent[n][u] <= now \/ u \in evicted'[n]
      PROVE  "foreign" \in kit' /\ Kept(air', recent'[n][u], evicted'[n], u, now', clock'[n], Moving')
  <2>1. "foreign" \in kit' /\ Kept(air, recent[n][u], evicted[n], u, now, clock[n], Moving)
    BY <1>1, <1>5 DEF Remembers
  <2>2. Moving \/ clock[n] = clock'[n]
    BY <1>1
  <2>3. Kept(air', recent'[n][u], evicted'[n], u, now', clock'[n], Moving)
    BY <1>1, <1>3, <1>4, <1>5, <2>1, <2>2, KeptStays
  <2> QED BY <1>2, <2>1, <2>3
<1>6. CASE UNCHANGED <<recent, evicted, relays>>
  <2>1. Table' /\ Keeps
    <3>1. Table'
      BY <1>6 DEF Table
    <3>2. \A n \in Nodes, u \in Uids :
            ~(recent[n][u] > now /\ recent'[n][u] = 0) /\ Cardinality(Known(recent'[n])) <= RecentMax
      BY <1>1, <1>4, <1>6 DEF Table
    <3> QED BY <3>1, <3>2 DEF Keeps
  <2>2. RelayOnce'
    BY <1>6 DEF RelayOnce
  <2>3. ASSUME NEW n \in Nodes, NEW u \in Uids, relays'[n][u] > 0
        PROVE  "foreign" \in kit' /\ Kept(air', recent'[n][u], evicted'[n], u, now', clock'[n], Moving')
    BY <1>5, <1>6, <2>3
  <2>4. relays' \in [Nodes -> [Uids -> 0 .. 2]]
    BY <1>6 DEF Remembers
  <2> QED BY <2>1, <2>2, <2>3, <2>4 DEF Remembers
<1>7. ASSUME NEW n \in Nodes, NEW f \in air, Hears(n, f), now' = now,
             \/ relays' = relays
             \/ relays' = [relays EXCEPT ![n][f.uid] = @]
             \/ /\ "foreign" \in kit /\ CanRelay(n, f)
                /\ relays' = [relays EXCEPT ![n][f.uid] = IF @ < 2 THEN @ + 1 ELSE @]
      PROVE  Table' /\ Keeps /\ Remembers' /\ RelayOnce'
  <2>1. f \in Frame /\ f.uid \in Uids /\ Short(f, now) /\ f.exp \in Int /\ clock[n] \in Offsets
    BY <1>7, HeardMail
  <2>2. /\ Table' /\ Keeps
        /\ \A m \in Nodes : evicted[m] \subseteq evicted'[m]
        /\ \A m \in Nodes, u \in Uids : m # n \/ u # f.uid =>
              recent'[m][u] = recent[m][u] \/ recent[m][u] <= now \/ u \in evicted'[m]
        /\ recent'[n][f.uid] >= f.exp - clock[n] + DedupeMin
        /\ recent[n][f.uid] <= now
    BY <1>1, <1>7, <2>1, HearsAdds
  <2>3. \A m \in Nodes, u \in Uids : relays[m][u] \in 0 .. 2
    BY DEF Remembers
  <2>4. /\ relays' \in [Nodes -> [Uids -> 0 .. 2]]
        /\ \A m \in Nodes, u \in Uids : m # n \/ u # f.uid => relays'[m][u] = relays[m][u]
        /\ \/ relays'[n][f.uid] = relays[n][f.uid]
           \/ /\ "foreign" \in kit /\ CanRelay(n, f)
              /\ relays'[n][f.uid] = IF relays[n][f.uid] < 2 THEN relays[n][f.uid] + 1 ELSE relays[n][f.uid]
    <3> DEFINE x == relays[n][f.uid]
               y == IF x < 2 THEN x + 1 ELSE x
    <3>1. x \in 0 .. 2 /\ y \in 0 .. 2
      BY <2>1, <2>3
    <3>2. \/ relays' = relays
          \/ relays' = [relays EXCEPT ![n][f.uid] = x]
          \/ "foreign" \in kit /\ CanRelay(n, f) /\ relays' = [relays EXCEPT ![n][f.uid] = y]
      BY <1>7
    <3>3. relays \in [Nodes -> [Uids -> 0 .. 2]]
      BY DEF Remembers
    <3>4. x = relays[n][f.uid]
      OBVIOUS
    <3>5. y = IF relays[n][f.uid] < 2 THEN relays[n][f.uid] + 1 ELSE relays[n][f.uid]
      OBVIOUS
    <3> HIDE DEF x, y
    <3> QED BY <2>1, <3>1, <3>2, <3>3, <3>4, <3>5
  <2>5. recent'[n][f.uid] \in Int /\ recent[n][f.uid] \in Nat
    BY <1>4, <2>1, <2>2, Constants DEF Table
  <2>6. Kept(air', recent'[n][f.uid], evicted'[n], f.uid, now', clock'[n], Moving')
    <3>1. f \in air' /\ (clock[n] = clock'[n] \/ Moving')
      BY <1>1, <1>2, <1>3
    <3> QED BY <2>1, <2>2, <3>1 DEF Kept
  <2>7. ASSUME NEW m \in Nodes, NEW u \in Uids, relays'[m][u] > 0
        PROVE  "foreign" \in kit' /\ Kept(air', recent'[m][u], evicted'[m], u, now', clock'[m], Moving')
    <3>1. CASE m # n \/ u # f.uid
      BY <1>5, <2>2, <2>4, <2>7, <3>1
    <3>2. CASE m = n /\ u = f.uid
      <4>1. "foreign" \in kit'
        BY <1>1, <2>1, <2>3, <2>4, <2>7, <3>2 DEF Remembers
      <4> QED BY <2>6, <3>2, <4>1
    <3> QED BY <3>1, <3>2
  <2>8. ASSUME NEW m \in Nodes, NEW u \in Uids, relays'[m][u] > 1
        PROVE  u \in evicted'[m]
    <3>1. CASE relays[m][u] > 1
      BY <2>2, <3>1 DEF RelayOnce
    <3>2. CASE ~(relays[m][u] > 1)
      <4>1. m = n /\ u = f.uid /\ relays[n][f.uid] > 0 /\ "foreign" \in kit /\ CanRelay(n, f)
        BY <2>1, <2>3, <2>4, <2>8, <3>2
      <4>2. Kept(air, recent[n][f.uid], evicted[n], f.uid, now, clock[n], Moving)
        BY <2>1, <4>1 DEF Remembers
      <4>3. f.uid \in evicted[n]
        BY <1>7, <2>2, <2>5, <4>1, <4>2, NotAgain
      <4> QED BY <2>2, <4>1, <4>3
    <3> QED BY <3>1, <3>2
  <2> QED BY <2>2, <2>4, <2>7, <2>8 DEF Remembers, RelayOnce
<1>8. \/ UNCHANGED <<recent, evicted, relays>>
      \/ \E n \in Nodes, f \in air :
            /\ Hears(n, f) /\ now' = now
            /\ \/ relays' = relays
               \/ relays' = [relays EXCEPT ![n][f.uid] = @]
               \/ /\ "foreign" \in kit /\ CanRelay(n, f)
                  /\ relays' = [relays EXCEPT ![n][f.uid] = IF @ < 2 THEN @ + 1 ELSE @]
  BY StepKinds
<1> QED BY <1>6, <1>7, <1>8

-----------------------------------------------------------------------------
FloodInv == ChainInv /\ Set /\ Plain /\ Peers /\ Table /\ Mail /\ Remembers /\ RelayOnce

LEMMA FloodInit == Init => FloodInv
<1> SUFFICES ASSUME Init PROVE FloodInv
  OBVIOUS
<1>1. ChainInv
  BY ChainInit
<1>2. Set /\ Plain
  <2>1. Set
    BY NoneNoOffset, BoundsAssumption DEF Init, Set
  <2>2. Plain
    BY Constants DEF Init, Plain
  <2> QED BY <2>1, <2>2
<1>3. Peers
  <2> DEFINE q == [via |-> FALSE, stale |-> FALSE, heard |-> None, coords |-> None,
                   first |-> 0, next |-> 0, count |-> 0]
  <2>1. q \in Peer /\ q.count = 0 /\ None \in None .. MaxNow
    BY Constants, Numbers DEF Peer
  <2>2. peer = [n \in Nodes |-> [p \in Nodes |-> q]] /\ pace = [n \in Nodes |-> [p \in Nodes |-> None]] /\ uids = 0
    BY DEF Init
  <2> HIDE DEF q
  <2> QED BY <2>1, <2>2 DEF Peers
<1>4. Table
  <2>1. recent = [n \in Nodes |-> [u \in Uids |-> 0]] /\ evicted = [n \in Nodes |-> {}]
    BY DEF Init
  <2>2. \A n \in Nodes : Known(recent[n]) = {}
    BY <2>1 DEF Known
  <2>3. Cardinality({}) = 0
    BY FS_EmptySet
  <2> QED BY <2>1, <2>2, <2>3, Constants DEF Table
<1>5. Mail
  <2>1. /\ air = {} /\ uids = 0 /\ now = 0 /\ outbox = [n \in Nodes |-> {}] /\ sends = [u \in Uids |-> 0]
        /\ reply = [n \in Nodes |-> [uid |-> 0, at |-> None, last |-> None]]
    BY DEF Init
  <2>2. AirOK(air, uids, now, Moving)
    BY <2>1 DEF AirOK
  <2>3. BoxOK(air, outbox, sends, uids, now)
    BY <2>1 DEF BoxOK
  <2>4. RepliesOK(air, reply, sends, uids, now, clock, Moving)
    <3>1. [uid |-> 0, at |-> None, last |-> None] \in ReplyRecord
      BY Constants DEF ReplyRecord
    <3> QED BY <2>1, <3>1 DEF RepliesOK
  <2>5. SendsOK(sends, uids)
    BY <2>1 DEF SendsOK
  <2> QED BY <2>2, <2>3, <2>4, <2>5 DEF Mail, MailOK
<1>6. Remembers /\ RelayOnce
  BY DEF Init, Remembers, RelayOnce
<1> QED BY <1>1, <1>2, <1>3, <1>4, <1>5, <1>6 DEF FloodInv

LEMMA FloodStep ==
    ASSUME FloodInv, [Next]_vars
    PROVE  FloodInv' /\ Keeps
<1> USE DEF FloodInv
<1>1. kit' = kit /\ Set'
  BY ClocksStep
<1>2. Plain' /\ uids <= uids' /\ uids' \in Nat
  BY <1>1, PlainStep
<1>3. ChainInv'
  BY ChainStep
<1>4. Peers'
  BY <1>2, PeersStep
<1>5. Mail'
  BY MailStep
<1>6. Table' /\ Keeps /\ Remembers' /\ RelayOnce'
  BY MemoryStep
<1> QED BY <1>1, <1>2, <1>3, <1>4, <1>5, <1>6

LEMMA FloodTypes == FloodInv => FloodBound
<1> SUFFICES ASSUME FloodInv PROVE FloodBound
  OBVIOUS
<1> USE DEF FloodInv
<1>1. /\ now \in 0 .. MaxNow /\ uids \in 0 .. MaxUids /\ kit \in Kits
      /\ asked \in [Nodes -> 0 .. MaxUids]
      /\ acks \in [Nodes -> 0 .. AckLimit] /\ noacks \in [Nodes -> 0 .. NoAckLimit]
      /\ burst \in [Nodes -> 0 .. Bursts]
  BY DEF Plain
<1>2. (\A f \in air : f \in Frame) /\ \A n \in Nodes : \A f \in outbox[n] : f \in Frame
  BY DEF Mail, MailOK, AirOK, BoxOK
<1>3. reply \in [Nodes -> [uid : 0 .. MaxUids, at : None .. MaxNow, last : None .. MaxNow]]
  BY DEF Mail, MailOK, RepliesOK, ReplyRecord
<1>4. sends \in [Uids -> 0 .. 3] /\ SentTwice
  BY DEF Mail, MailOK, SendsOK, SentTwice
<1>5. /\ off \in [Nodes -> BOOLEAN] /\ clock \in [Nodes -> Offsets \cup {None}] /\ gnss \in [Nodes -> BOOLEAN]
      /\ win \in [Nodes -> 0 .. 2] /\ tick \in [Nodes -> 0 .. 2]
  BY DEF ChainInv, ChainTypes, OneChain
<1>6. peer \in [Nodes -> [Nodes -> Peer]] /\ pace \in [Nodes -> [Nodes -> None .. MaxNow]]
  BY DEF Peers
<1>7. recent \in [Nodes -> [Uids -> 0 .. MaxNow + DedupeMax]] /\ evicted \in [Nodes -> SUBSET Uids]
  BY DEF Table
<1>8. relays \in [Nodes -> [Uids -> 0 .. 2]]
  BY DEF Remembers
<1>9. TypeOK
  BY <1>1, <1>2, <1>3, <1>4, <1>5, <1>6, <1>7, <1>8 DEF TypeOK
<1> QED BY <1>4, <1>9 DEF FloodBound

\* However late, twice or out of order frames are heard, and whoever repeats
\* them, a node passes a frame on once unless its UID was pushed out of a full
\* table (onLocate, relay), and an author sends a UID twice (sendOutbox).
THEOREM FloodBoundHolds == Spec => []FloodBound
<1>1. FloodInv /\ [Next]_vars => FloodInv'
  BY FloodStep
<1> QED BY <1>1, FloodInit, FloodTypes, PTL DEF Spec

\* The table never grows past RecentMax, and gives up a frame before its time
\* only when it is full of frames to be remembered longer (addRecent).
THEOREM RememberedHolds == Spec => Remembered
<1>1. FloodInv /\ [Next]_vars => FloodInv'
  BY FloodStep
<1>2. FloodInv /\ [Next]_vars =>
        [\A n \in Nodes, u \in Uids :
           /\ Cardinality(Known(recent'[n])) <= RecentMax
           /\ recent[n][u] > now /\ recent'[n][u] = 0 =>
                 /\ Cardinality(Known(recent'[n])) = RecentMax
                 /\ \A v \in Known(recent'[n]) : recent'[n][v] >= recent[n][u] \/ recent[n][v] = 0]_vars
  BY FloodStep DEF Keeps
<1> QED BY <1>1, <1>2, FloodInit, PTL DEF Spec, Remembered
=============================================================================
