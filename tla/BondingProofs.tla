--------------------------- MODULE BondingProofs ---------------------------
(***************************************************************************)
(* The invariants of Bonding, for every number of nodes and Totems, every  *)
(* ownership, bond limit and length of the timers.                         *)
(***************************************************************************)
EXTENDS Bonding, FiniteSetTheorems, TLAPS

\* Some job of the list q is the cancel timer.
HasCancel(q) == \E i \in DOMAIN q : q[i] = Cancel

\* What holds of one node between any two steps.
Sound(n) ==
    /\ tempBond[n] # None => pairing[n] /\ bondMAC[n] = tempBond[n]
    /\ bondMAC[n] # None => pairing[n]
    /\ pairing[n] => HasCancel(jobs[n][left[n]])
    /\ Cardinality(peers[n]) <= MaxBonds + 1
    /\ pairing[n] /\ bondMAC[n] = None => Cardinality(peers[n]) <= MaxBonds
    /\ off[n] => ~pairing[n] /\ jobs[n] = Empty /\ outbox[n] = {}
    /\ peers[n] \subseteq Owned[n] /\ outbox[n] \subseteq Owned[n]

\* The inductive invariant.
IInv == TypeOK /\ \A n \in Nodes : Sound(n)

----------------------------------------------------------------------------
(* Lists of jobs *)

\* Arming a job after others leaves a pending cancel timer pending.
LEMMA CancelAppend ==
    ASSUME NEW q \in Seq(Jobs), NEW j \in Jobs
    PROVE  /\ Append(q, j) \in Seq(Jobs)
           /\ HasCancel(q) => HasCancel(Append(q, j))
           /\ HasCancel(Append(q, Cancel))
  <1>1. Append(q, j) \in Seq(Jobs) /\ Append(q, Cancel) \in Seq(Jobs \cup {Cancel})
    OBVIOUS
  <1>2. ASSUME HasCancel(q) PROVE HasCancel(Append(q, j))
    <2>1. PICK i \in DOMAIN q : q[i] = Cancel
      BY <1>2 DEF HasCancel
    <2>2. i \in DOMAIN Append(q, j) /\ Append(q, j)[i] = q[i]
      OBVIOUS
    <2> QED BY <2>1, <2>2 DEF HasCancel
  <1>3. HasCancel(Append(q, Cancel))
    <2>1. Len(q) + 1 \in DOMAIN Append(q, Cancel) /\ Append(q, Cancel)[Len(q) + 1] = Cancel
      OBVIOUS
    <2> QED BY <2>1 DEF HasCancel
  <1> QED BY <1>1, <1>2, <1>3

\* Running a job that is not the cancel timer leaves that timer pending.
LEMMA CancelTail ==
    ASSUME NEW q \in Seq(Jobs), q # <<>>
    PROVE  /\ Tail(q) \in Seq(Jobs)
           /\ HasCancel(q) /\ Head(q) # Cancel => HasCancel(Tail(q))
  <1>1. Tail(q) \in Seq(Jobs)
    OBVIOUS
  <1>2. ASSUME HasCancel(q), Head(q) # Cancel PROVE HasCancel(Tail(q))
    <2>1. PICK i \in DOMAIN q : q[i] = Cancel
      BY <1>2 DEF HasCancel
    <2>2. i # 1
      BY <1>2, <2>1
    <2>3. i - 1 \in DOMAIN Tail(q) /\ Tail(q)[i - 1] = q[i]
      BY <2>2
    <2> QED BY <2>1, <2>3 DEF HasCancel
  <1> QED BY <1>1, <1>2

\* Jobs becoming due join the ones that are.
LEMMA CancelConcat ==
    ASSUME NEW p \in Seq(Jobs), NEW q \in Seq(Jobs)
    PROVE  /\ p \o q \in Seq(Jobs)
           /\ HasCancel(p) \/ HasCancel(q) => HasCancel(p \o q)
  <1>1. p \o q \in Seq(Jobs)
    OBVIOUS
  <1>2. ASSUME HasCancel(p) PROVE HasCancel(p \o q)
    <2>1. PICK i \in DOMAIN p : p[i] = Cancel
      BY <1>2 DEF HasCancel
    <2>2. i \in DOMAIN (p \o q) /\ (p \o q)[i] = p[i]
      OBVIOUS
    <2> QED BY <2>1, <2>2 DEF HasCancel
  <1>3. ASSUME HasCancel(q) PROVE HasCancel(p \o q)
    <2>1. PICK i \in DOMAIN q : q[i] = Cancel
      BY <1>3 DEF HasCancel
    <2>2. i + Len(p) \in DOMAIN (p \o q) /\ (p \o q)[i + Len(p)] = q[i]
      OBVIOUS
    <2> QED BY <2>1, <2>2 DEF HasCancel
  <1> QED BY <1>1, <1>2, <1>3

\* The jobs the code arms are jobs, and its delays are within the calendar.
LEMMA JobKinds ==
    /\ Loop \in Jobs /\ Cancel \in Jobs /\ Join \in Jobs
    /\ \A m \in MACs : Ack(m) \in Jobs
    /\ Loop # Cancel /\ Join # Cancel /\ \A m \in MACs : Ack(m) # Cancel
    /\ \A gap \in LoopMin..LoopMax : gap \in Ahead \ {0}
    /\ Window \in Ahead \ {0} /\ JoinGap \in Ahead \ {0}
    /\ 0 \in Ahead /\ 1 \in Ahead
  BY ConstantsAssumption DEF Loop, Cancel, Join, Ack, Jobs, Ahead

Calendar == [Ahead -> Seq(Jobs)]

\* A calendar without jobs is a calendar.
LEMMA EmptyCalendar == Empty \in Calendar
  BY DEF Empty, Calendar

\* Arming a job at d.
LEMMA AtArms ==
    ASSUME NEW q \in Calendar, NEW d \in Ahead, NEW j \in Jobs
    PROVE  /\ At(q, d, j) \in Calendar
           /\ \A e \in Ahead : HasCancel(q[e]) => HasCancel(At(q, d, j)[e])
           /\ HasCancel(At(q, d, Cancel)[d])
  <1>1. At(q, d, j) = [e \in Ahead |-> IF e = d THEN Append(q[d], j) ELSE q[e]]
    BY DEF At, Calendar
  <1>2. At(q, d, Cancel)[d] = Append(q[d], Cancel)
    BY DEF At, Calendar
  <1>3. \A e \in Ahead : q[e] \in Seq(Jobs)
    BY DEF Calendar
  <1>4. At(q, d, j) \in Calendar
    BY <1>1, <1>3, CancelAppend DEF Calendar
  <1> QED BY <1>1, <1>2, <1>3, <1>4, CancelAppend

\* Opening a window arms its cancel timer at pairEnd and takes none away.
LEMMA StartedArms ==
    ASSUME NEW q \in Calendar, NEW gap \in LoopMin..LoopMax
    PROVE  Started(q, gap) \in Calendar /\ HasCancel(Started(q, gap)[Window])
  <1>1. At(q, gap, Loop) \in Calendar
    BY JobKinds, AtArms
  <1> QED BY <1>1, JobKinds, AtArms DEF Started

\* A calendar with the burst of acks in it is a calendar.
LEMMA BurstArms ==
    ASSUME NEW q \in Calendar, NEW mac \in MACs
    PROVE  BurstJobs(q, mac) \in Calendar
  <1>1. \A e \in Ahead : q[e] \in Seq(Jobs) /\ Append(q[e], Ack(mac)) \in Seq(Jobs)
    BY JobKinds, CancelAppend DEF Calendar
  <1> QED BY <1>1 DEF BurstJobs, Calendar

\* Taking the first due job off the list.
LEMMA RestKeeps ==
    ASSUME NEW n \in Nodes, jobs[n] \in Calendar, Due(n)
    PROVE  /\ Rest(n) \in Calendar
           /\ Head(jobs[n][0]) \in Jobs
           /\ \A e \in Ahead : HasCancel(jobs[n][e]) /\ (e # 0 \/ Head(jobs[n][0]) # Cancel)
                                  => HasCancel(Rest(n)[e])
  <1>1. \A e \in Ahead : jobs[n][e] \in Seq(Jobs)
    BY DEF Calendar
  <1>2. jobs[n][0] \in Seq(Jobs) /\ jobs[n][0] # <<>>
    BY <1>1, JobKinds DEF Due
  <1>3. Rest(n) = [e \in Ahead |-> IF e = 0 THEN Tail(jobs[n][0]) ELSE jobs[n][e]]
    BY DEF Rest, Calendar
  <1>4. Tail(jobs[n][0]) \in Seq(Jobs)
    BY <1>2, CancelTail
  <1>5. HasCancel(jobs[n][0]) /\ Head(jobs[n][0]) # Cancel => HasCancel(Tail(jobs[n][0]))
    BY <1>2, CancelTail
  <1>6. Rest(n) \in Calendar
    BY <1>1, <1>3, <1>4 DEF Calendar
  <1>7. Head(jobs[n][0]) \in Jobs
    BY <1>2
  <1> QED BY <1>3, <1>5, <1>6, <1>7

----------------------------------------------------------------------------
(* Bond lists *)

\* A bond list is finite, and no part of it is longer.
LEMMA FewerPeers ==
    ASSUME NEW n \in Nodes, NEW S \in SUBSET Owned[n], NEW T \in SUBSET S
    PROVE  /\ IsFiniteSet(S) /\ Cardinality(S) \in Nat
           /\ Cardinality(T) \in Nat /\ Cardinality(T) <= Cardinality(S)
  <1>1. IsFiniteSet(S)
    BY ConstantsAssumption, FS_Subset
  <1>2. IsFiniteSet(T) /\ Cardinality(T) <= Cardinality(S)
    BY <1>1, FS_Subset
  <1> QED BY <1>1, <1>2, FS_CardinalityType

\* A new peer makes it at most one longer.
LEMMA OnePeerMore ==
    ASSUME NEW n \in Nodes, NEW S \in SUBSET Owned[n], NEW m \in MACs
    PROVE  /\ Cardinality(S) \in Nat /\ Cardinality(S \cup {m}) \in Nat
           /\ Cardinality(S \cup {m}) <= Cardinality(S) + 1
  <1>1. IsFiniteSet(S) /\ Cardinality(S) \in Nat
    BY FewerPeers
  <1>2. IsFiniteSet(S \cup {m}) /\ Cardinality(S \cup {m}) =
          IF m \in S THEN Cardinality(S) ELSE Cardinality(S) + 1
    BY <1>1, FS_AddElement
  <1> QED BY <1>1, <1>2, FS_CardinalityType

----------------------------------------------------------------------------
(* Steps of one node *)

\* Nothing of node p that Sound speaks of changes.
Same(p) ==
    /\ off'[p] = off[p] /\ pairing'[p] = pairing[p]
    /\ bondMAC'[p] = bondMAC[p] /\ tempBond'[p] = tempBond[p]
    /\ left'[p] = left[p] /\ jobs'[p] = jobs[p]
    /\ peers'[p] = peers[p] /\ outbox'[p] = outbox[p]

\* A node none of whose state changes stays sound.
LEMMA SameSound ==
    ASSUME NEW p \in Nodes, Sound(p), Same(p)
    PROVE  Sound(p)'
  BY DEF Sound, Same, HasCancel

\* A step that only concerns node n preserves the invariant if it keeps n sound.
LEMMA LocalStep ==
    ASSUME IInv, NEW n \in Nodes, TypeOK', Sound(n)',
           \A p \in Nodes \ {n} : Same(p)
    PROVE  IInv'
  BY SameSound DEF IInv

\* Frames sent are frames.
LEMMA SendType ==
    ASSUME NEW n \in Nodes, NEW S, NEW cmd \in Commands
    PROVE  Send(n, S, cmd) \subseteq Frames
  BY ConstantsAssumption DEF Send, Frames, MACs

\* Frames that go out on the air are frames.
LEMMA AirType ==
    ASSUME NEW n \in Nodes
    PROVE  /\ Ask(n) \subseteq Frames /\ Opening(n) \subseteq Frames
           /\ \A d : Unicast(n, d, "ack") \subseteq Frames
  BY SendType DEF Ask, Opening, Unicast, Commands

\* What the type invariant says of one node.
LEMMA NodeTypes ==
    ASSUME TypeOK, NEW n \in Nodes
    PROVE  /\ off[n] \in BOOLEAN /\ pairing[n] \in BOOLEAN
           /\ bondMAC[n] \in MACs \cup {None} /\ tempBond[n] \in MACs \cup {None}
           /\ left[n] \in Ahead /\ left[n] \in 0..Window
           /\ peers[n] \subseteq MACs /\ recent[n] \in [MACs -> 0..Recent]
           /\ jobs[n] \in Calendar /\ outbox[n] \subseteq MACs
           /\ n \in MACs /\ None \notin MACs
  BY ConstantsAssumption DEF TypeOK, Calendar, Ahead, MACs

\* startPairing: the new window arms its own cancel timer and has no partner.
LEMMA PairSound ==
    ASSUME IInv, NEW n \in Nodes, Pair(n)
    PROVE  IInv'
  <1> USE NodeTypes DEF IInv
  <1>1. PICK gap \in LoopMin..LoopMax : jobs' = [jobs EXCEPT ![n] = Started(jobs[n], gap)]
    BY DEF Pair
  <1>2. Started(jobs[n], gap) \in Calendar /\ HasCancel(Started(jobs[n], gap)[Window])
    BY StartedArms
  <1>3. jobs'[n] = Started(jobs[n], gap) /\ left'[n] = Window /\ bondMAC'[n] = None
        /\ tempBond'[n] = None /\ pairing'[n] = TRUE /\ peers'[n] = peers[n]
        /\ off'[n] = FALSE /\ outbox'[n] = outbox[n]
    BY <1>1 DEF Pair, TypeOK, Awake, table
  <1>4. TypeOK'
    BY <1>1, <1>2, AirType, JobKinds, ConstantsAssumption
    DEF Pair, TypeOK, Calendar, Ahead, table
  <1>5. Sound(n)'
    <2>1. HasCancel(jobs'[n][left'[n]])
      BY <1>2, <1>3
    <2>2. Cardinality(peers[n]) \in Nat /\ Cardinality(peers[n]) < MaxBonds
      BY FewerPeers DEF Pair, Room, Sound
    <2> QED BY <1>3, <2>1, <2>2, ConstantsAssumption DEF Sound, HasCancel
  <1>6. \A p \in Nodes \ {n} : Same(p)
    BY DEF Pair, Same, TypeOK, table
  <1> QED BY <1>4, <1>5, <1>6, LocalStep

----------------------------------------------------------------------------
(* Poll *)

LEMMA DeleteType ==
    ASSUME TypeOK, NEW n \in Nodes, NEW gone, Delete(n, gone)
    PROVE  /\ peers' \in [Nodes -> SUBSET MACs]
           /\ recent' \in [Nodes -> [MACs -> 0..Recent]]
           /\ peers'[n] = peers[n] \ gone
           /\ \A p \in Nodes \ {n} : peers'[p] = peers[p]
  BY ConstantsAssumption DEF Delete, TypeOK

\* stopPairing leaves a node with its window closed, and with no more peers.
LEMMA StopEffect ==
    ASSUME IInv, NEW n \in Nodes, NEW also, StopPairing(n, also)
    PROVE  /\ pairing' \in [Nodes -> BOOLEAN]
           /\ bondMAC' \in [Nodes -> MACs \cup {None}]
           /\ tempBond' \in [Nodes -> MACs \cup {None}]
           /\ left' = left
           /\ peers' \in [Nodes -> SUBSET MACs]
           /\ recent' \in [Nodes -> [MACs -> 0..Recent]]
           /\ pairing'[n] = FALSE /\ bondMAC'[n] = None /\ tempBond'[n] = None
           /\ peers'[n] \subseteq peers[n]
           /\ \A p \in Nodes \ {n} :
                 /\ pairing'[p] = pairing[p] /\ bondMAC'[p] = bondMAC[p]
                 /\ tempBond'[p] = tempBond[p] /\ peers'[p] = peers[p]
  <1>1. CASE pairing[n]
    <2>1. Close(n) /\ Delete(n, Rollback(n) \cup also)
      BY <1>1 DEF StopPairing
    <2>2. /\ peers' \in [Nodes -> SUBSET MACs]
          /\ recent' \in [Nodes -> [MACs -> 0..Recent]]
          /\ peers'[n] \subseteq peers[n]
          /\ \A p \in Nodes \ {n} : peers'[p] = peers[p]
      BY <2>1, DeleteType DEF IInv
    <2> QED BY <2>1, <2>2 DEF Close, IInv, TypeOK
  <1>2. CASE ~pairing[n]
    <2>1. UNCHANGED window /\ Delete(n, also)
      BY <1>2 DEF StopPairing
    <2>2. /\ peers' \in [Nodes -> SUBSET MACs]
          /\ recent' \in [Nodes -> [MACs -> 0..Recent]]
          /\ peers'[n] \subseteq peers[n]
          /\ \A p \in Nodes \ {n} : peers'[p] = peers[p]
      BY <2>1, DeleteType DEF IInv
    <2>3. pairing[n] = FALSE /\ bondMAC[n] = None /\ tempBond[n] = None
      BY <1>2, NodeTypes DEF IInv, Sound
    <2> QED BY <2>1, <2>2, <2>3 DEF window, IInv, TypeOK
  <1> QED BY <1>1, <1>2

\* A due job leaves the rest of its node's jobs as they are.
LEMMA RanEffect ==
    ASSUME TypeOK, NEW n \in Nodes, NEW q \in Calendar, Ran(n, q)
    PROVE  /\ jobs' \in [Nodes -> [Ahead -> Seq(Jobs)]]
           /\ polling' \in Nodes \cup {None}
           /\ off' = off /\ outbox' = outbox /\ group' = group
           /\ jobs'[n] = q /\ \A p \in Nodes \ {n} : jobs'[p] = jobs[p]
  BY DEF Ran, TypeOK, Calendar

\* A node with a job due is not off.
LEMMA DueOn ==
    ASSUME IInv, NEW n \in Nodes, Due(n)
    PROVE  ~off[n]
  BY JobKinds DEF IInv, Sound, Due, Empty

\* A round of pairLoop leaves the window and its timer as they are.
LEMMA RunLoopSound ==
    ASSUME IInv, NEW n \in Nodes, RunLoop(n)
    PROVE  IInv'
  <1> USE NodeTypes DEF IInv
  <1>1. Due(n) /\ Head(jobs[n][0]).kind = "loop" /\ UNCHANGED <<window, table>>
    BY DEF RunLoop
  <1>2. Head(jobs[n][0]) # Cancel /\ ~off[n]
    BY <1>1, DueOn DEF Cancel
  <1>3. CASE pairing[n]
    <2>1. PICK gap \in LoopMin..LoopMax : Ran(n, At(Rest(n), gap, Loop))
      BY <1>3 DEF RunLoop
    <2>2. air' \subseteq Frames
      BY <1>3, AirType DEF RunLoop, TypeOK
    <2>3. At(Rest(n), gap, Loop) \in Calendar
          /\ HasCancel(At(Rest(n), gap, Loop)[left[n]])
      BY <1>1, <1>2, <1>3, RestKeeps, AtArms, JobKinds DEF Sound
    <2>4. TypeOK'
      BY <1>1, <2>1, <2>2, <2>3, RanEffect DEF TypeOK, window, table
    <2>5. Sound(n)'
      BY <1>1, <1>2, <2>1, <2>3, RanEffect DEF Sound, window, table, HasCancel
    <2>6. \A p \in Nodes \ {n} : Same(p)
      BY <1>1, <2>1, <2>3, RanEffect DEF Same, window, table
    <2> QED BY <2>4, <2>5, <2>6, LocalStep
  <1>4. CASE ~pairing[n]
    <2>1. Ran(n, Rest(n)) /\ air' = air
      BY <1>4 DEF RunLoop
    <2>2. Rest(n) \in Calendar
      BY <1>1, RestKeeps
    <2>4. TypeOK'
      BY <1>1, <2>1, <2>2, RanEffect DEF TypeOK, window, table
    <2>5. Sound(n)'
      BY <1>1, <1>2, <1>4, <2>1, <2>2, RanEffect DEF Sound, window, table, HasCancel
    <2>6. \A p \in Nodes \ {n} : Same(p)
      BY <1>1, <2>1, <2>2, RanEffect DEF Same, window, table
    <2> QED BY <2>4, <2>5, <2>6, LocalStep
  <1> QED BY <1>3, <1>4

\* cancelPairing ends a window with its half-made bond, or is a stale timer.
LEMMA RunCancelSound ==
    ASSUME IInv, NEW n \in Nodes, RunCancel(n)
    PROVE  IInv'
  <1> USE NodeTypes DEF IInv
  <1>1. Due(n) /\ Ran(n, Rest(n)) /\ air' = air
    BY DEF RunCancel
  <1>2. Rest(n) \in Calendar /\ ~off[n]
    BY <1>1, RestKeeps, DueOn
  <1>3. jobs'[n] = Rest(n) /\ off'[n] = off[n] /\ outbox'[n] = outbox[n]
    BY <1>1, <1>2, RanEffect
  <1>4. CASE Expired(n)
    <2>1. StopPairing(n, {})
      BY <1>4 DEF RunCancel
    <2>2. TypeOK'
      <3>1. /\ pairing' \in [Nodes -> BOOLEAN] /\ bondMAC' \in [Nodes -> MACs \cup {None}]
            /\ tempBond' \in [Nodes -> MACs \cup {None}] /\ left' = left
            /\ peers' \in [Nodes -> SUBSET MACs] /\ recent' \in [Nodes -> [MACs -> 0..Recent]]
        BY <2>1, StopEffect
      <3>2. /\ jobs' \in [Nodes -> [Ahead -> Seq(Jobs)]] /\ polling' \in Nodes \cup {None}
            /\ off' = off /\ outbox' = outbox /\ group' = group
        BY <1>1, <1>2, RanEffect
      <3> QED BY <1>1, <3>1, <3>2 DEF TypeOK
    <2>3. /\ pairing'[n] = FALSE /\ bondMAC'[n] = None /\ tempBond'[n] = None
          /\ peers'[n] \subseteq peers[n] /\ left' = left
          /\ \A p \in Nodes \ {n} :
                 /\ pairing'[p] = pairing[p] /\ bondMAC'[p] = bondMAC[p]
                 /\ tempBond'[p] = tempBond[p] /\ peers'[p] = peers[p]
      BY <2>1, StopEffect
    <2>4. Cardinality(peers'[n]) <= MaxBonds + 1
      <3>1. peers[n] \subseteq Owned[n] /\ Cardinality(peers[n]) <= MaxBonds + 1
        BY DEF Sound
      <3>2. /\ Cardinality(peers[n]) \in Nat /\ Cardinality(peers'[n]) \in Nat
            /\ Cardinality(peers'[n]) <= Cardinality(peers[n])
        BY <2>3, <3>1, FewerPeers
      <3> QED BY <3>1, <3>2, ConstantsAssumption
    <2>5. Sound(n)'
      BY <1>2, <1>3, <2>3, <2>4 DEF Sound
    <2>6. \A p \in Nodes \ {n} : Same(p)
      BY <1>1, <1>2, <2>3, RanEffect DEF Same
    <2> QED BY <2>2, <2>5, <2>6, LocalStep
  <1>5. CASE ~Expired(n)
    <2>1. UNCHANGED <<window, table>> /\ left[n] # 0
      BY <1>5 DEF RunCancel, Expired
    <2>2. TypeOK'
      BY <1>1, <1>2, <2>1, RanEffect DEF TypeOK, window, table
    <2>3. pairing[n] => HasCancel(Rest(n)[left[n]])
      BY <1>1, <2>1, RestKeeps DEF Sound
    <2>4. Sound(n)'
      BY <1>2, <1>3, <2>1, <2>3 DEF Sound, HasCancel, window, table
    <2>5. \A p \in Nodes \ {n} : Same(p)
      BY <1>1, <1>2, <2>1, RanEffect DEF Same, window, table
    <2> QED BY <2>2, <2>4, <2>5, LocalStep
  <1> QED BY <1>4, <1>5

\* The other jobs change neither the bonds nor the window.
LEMMA RunOtherSound ==
    ASSUME IInv, NEW n \in Nodes, RunAck(n) \/ RunJoin(n)
    PROVE  IInv'
  <1> USE NodeTypes DEF IInv
  <1>1. Due(n) /\ Ran(n, Rest(n)) /\ UNCHANGED <<window, table>>
        /\ Head(jobs[n][0]).kind \in {"ack", "join"}
    BY DEF RunAck, RunJoin
  <1>2. air' \subseteq Frames
    BY AirType DEF RunAck, RunJoin, TypeOK
  <1>3. Rest(n) \in Calendar /\ ~off[n]
    BY <1>1, RestKeeps, DueOn
  <1>4. jobs'[n] = Rest(n) /\ off'[n] = off[n] /\ outbox'[n] = outbox[n]
    BY <1>1, <1>3, RanEffect
  <1>5. Head(jobs[n][0]) # Cancel
    BY <1>1 DEF Cancel
  <1>6. pairing[n] => HasCancel(Rest(n)[left[n]])
    BY <1>1, <1>5, RestKeeps DEF Sound
  <1>7. TypeOK'
    BY <1>1, <1>2, <1>3, RanEffect DEF TypeOK, window, table
  <1>8. Sound(n)'
    BY <1>1, <1>3, <1>4, <1>6 DEF Sound, HasCancel, window, table
  <1>9. \A p \in Nodes \ {n} : Same(p)
    BY <1>1, <1>3, RanEffect DEF Same, window, table
  <1> QED BY <1>7, <1>8, <1>9, LocalStep

\* The calendar of a node one tick on.
LEMMA TickShifts ==
    ASSUME TypeOK, Tick, NEW n \in Nodes
    PROVE  /\ jobs'[n] \in Calendar
           /\ jobs'[n][0] = jobs[n][0] \o jobs[n][1]
           /\ jobs'[n][Window] = <<>>
           /\ \A d \in Ahead \ {0, Window} : d + 1 \in Ahead /\ jobs'[n][d] = jobs[n][d + 1]
  <1> DEFINE q == [d \in Ahead |-> IF d = 0 THEN jobs[n][0] \o jobs[n][1]
                                  ELSE IF d = Window THEN <<>> ELSE jobs[n][d + 1]]
  <1>1. jobs'[n] = q
    BY DEF Tick
  <1>2. \A d \in Ahead \ {0, Window} : d + 1 \in Ahead
    BY ConstantsAssumption DEF Ahead
  <1>3. \A d \in Ahead : jobs[n][d] \in Seq(Jobs)
    BY NodeTypes DEF Calendar
  <1>4. jobs[n][0] \o jobs[n][1] \in Seq(Jobs) /\ <<>> \in Seq(Jobs)
    BY <1>3, JobKinds, CancelConcat
  <1>5. ASSUME NEW d \in Ahead PROVE q[d] \in Seq(Jobs)
    <2>1. CASE d \in {0, Window}
      BY <1>4, <2>1
    <2>2. CASE d \notin {0, Window}
      <3>1. jobs[n][d + 1] \in Seq(Jobs)
        BY <1>2, <1>3, <2>2
      <3> QED BY <2>2, <3>1
    <2> QED BY <2>1, <2>2
  <1>6. q \in Calendar
    BY <1>5 DEF Calendar
  <1>7. q[0] = jobs[n][0] \o jobs[n][1] /\ q[Window] = <<>>
    BY JobKinds
  <1>8. \A d \in Ahead \ {0, Window} : q[d] = jobs[n][d + 1]
    OBVIOUS
  <1> HIDE DEF q
  <1> QED BY <1>1, <1>2, <1>6, <1>7, <1>8

\* Time brings the cancel timer and pairEnd nearer together.
LEMMA TickSound ==
    ASSUME IInv, Tick
    PROVE  IInv'
  <1> USE NodeTypes DEF IInv
  <1>1. \A n \in Nodes : left'[n] \in 0..Window
        /\ left'[n] = IF left[n] = 0 THEN 0 ELSE left[n] - 1
    BY ConstantsAssumption DEF Tick, Down
  <1>2. \A n \in Nodes : jobs'[n] \in Calendar
    BY TickShifts
  <1>3. air' \subseteq Frames
    <2>1. \A m \in Frames : m.ttl > 0 => [m EXCEPT !.ttl = @ - 1] \in Frames
      BY ConstantsAssumption DEF Frames
    <2> QED BY <2>1 DEF Tick, TypeOK
  <1>4. TypeOK'
    <2>1. jobs' = [n \in Nodes |-> jobs'[n]]
      BY DEF Tick
    <2>2. jobs' \in [Nodes -> [Ahead -> Seq(Jobs)]]
      BY <1>2, <2>1 DEF Calendar
    <2>3. left' \in [Nodes -> 0..Window]
      BY <1>1 DEF Tick
    <2>4. recent' \in [Nodes -> [MACs -> 0..Recent]]
      BY ConstantsAssumption DEF Tick, TypeOK, Down
    <2> QED BY <1>3, <2>2, <2>3, <2>4 DEF TypeOK, Tick
  <1>5. ASSUME NEW n \in Nodes PROVE Sound(n)'
    <2>1. \A d \in Ahead : jobs[n][d] \in Seq(Jobs)
      BY DEF Calendar
    <2>2. /\ jobs'[n] \in Calendar
          /\ jobs'[n][0] = jobs[n][0] \o jobs[n][1]
          /\ jobs'[n][Window] = <<>>
          /\ \A d \in Ahead \ {0, Window} : d + 1 \in Ahead /\ jobs'[n][d] = jobs[n][d + 1]
      BY TickShifts
    <2>3. ASSUME pairing[n] PROVE HasCancel(jobs'[n][left'[n]])
      <3>1. HasCancel(jobs[n][left[n]])
        BY <2>3 DEF Sound
      <3>2. CASE left[n] \in {0, 1}
        <4>1. jobs'[n][left'[n]] = jobs[n][0] \o jobs[n][1]
          <5>1. left'[n] = 0
            BY <1>1, <3>2
          <5> QED BY <5>1, <2>2
        <4>2. HasCancel(jobs[n][0]) \/ HasCancel(jobs[n][1])
          BY <3>1, <3>2
        <4>3. HasCancel(jobs[n][0] \o jobs[n][1])
          BY <4>2, <2>1, CancelConcat, JobKinds
        <4> QED BY <4>1, <4>3
      <3>3. CASE left[n] \notin {0, 1}
        <4>1. left'[n] = left[n] - 1 /\ left'[n] \in Ahead \ {0, Window}
              /\ left'[n] + 1 = left[n]
          BY <1>1, <3>3, ConstantsAssumption DEF Ahead
        <4>2. jobs'[n][left'[n]] = jobs[n][left'[n] + 1]
          BY <4>1, <2>2
        <4> QED BY <3>1, <4>1, <4>2
      <3> QED BY <3>2, <3>3
    <2>4. ASSUME off[n] PROVE jobs'[n] = Empty
      <3>1. \A d \in Ahead : jobs[n][d] = <<>>
        BY <2>4 DEF Sound, Empty
      <3>2. <<>> \o <<>> = <<>>
        OBVIOUS
      <3>3. jobs'[n][0] = <<>>
        BY <2>2, <3>1, <3>2, JobKinds
      <3>4. ASSUME NEW d \in Ahead PROVE jobs'[n][d] = <<>>
        <4>1. CASE d \in {0, Window}
          BY <2>2, <3>3, <4>1
        <4>2. CASE d \notin {0, Window}
          <5>1. d + 1 \in Ahead /\ jobs'[n][d] = jobs[n][d + 1]
            BY <2>2, <4>2
          <5> QED BY <3>1, <5>1
        <4> QED BY <4>1, <4>2
      <3> QED BY <2>2, <3>4 DEF Empty, Calendar
    <2>5. HasCancel(jobs[n][left[n]])' <=> HasCancel(jobs'[n][left'[n]])
      BY DEF HasCancel
    <2> QED BY <2>3, <2>4, <2>5 DEF Sound, Tick
  <1> QED BY <1>4, <1>5

----------------------------------------------------------------------------
(* Receive *)

\* The bond list stays within its bound when peers are only taken away.
LEMMA Shrinks ==
    ASSUME IInv, NEW n \in Nodes, NEW S \in SUBSET peers[n]
    PROVE  /\ Cardinality(S) \in Nat /\ Cardinality(peers[n]) \in Nat
           /\ Cardinality(S) <= Cardinality(peers[n])
           /\ Cardinality(S) <= MaxBonds + 1 /\ S \subseteq Owned[n]
  <1>1. peers[n] \subseteq Owned[n] /\ Cardinality(peers[n]) <= MaxBonds + 1
    BY DEF IInv, Sound
  <1>2. /\ Cardinality(peers[n]) \in Nat /\ Cardinality(S) \in Nat
        /\ Cardinality(S) <= Cardinality(peers[n])
    BY <1>1, FewerPeers
  <1> QED BY <1>1, <1>2, ConstantsAssumption

\* The jobs of a window that is open, or that this frame opens.
LEMMA PendingArms ==
    ASSUME IInv, NEW n \in Nodes, NEW gap \in LoopMin..LoopMax
    PROVE  /\ Pending(n, gap) \in Calendar
           /\ HasCancel(Pending(n, gap)[IF pairing[n] THEN left[n] ELSE Window])
  <1>1. CASE pairing[n]
    BY <1>1, NodeTypes DEF Pending, IInv, Sound
  <1>2. CASE ~pairing[n]
    BY <1>2, NodeTypes, StartedArms DEF Pending, IInv
  <1> QED BY <1>1, <1>2

\* A frame off the air, or a stray one, is a frame.
LEMMA FrameTypes ==
    ASSUME TypeOK, NEW m \in air \cup Strays
    PROVE  m \in Frames /\ m.src \in MACs
  BY ConstantsAssumption DEF TypeOK, Strays, Frames, MACs

\* A request of a peer that is bonded: the window, if any, closes on the old bond.
LEMMA OnBondAlreadySound ==
    ASSUME IInv, NEW n \in Nodes, NEW m \in air \cup Strays, OnBondAlready(n, m)
    PROVE  IInv'
  <1> USE NodeTypes DEF IInv
  <1>1. PICK gap \in LoopMin..LoopMax :
          jobs' = [jobs EXCEPT ![n] = BurstJobs(Pending(n, gap), m.src)]
    BY DEF OnBondAlready
  <1>2. BurstJobs(Pending(n, gap), m.src) \in Calendar
    BY PendingArms, BurstArms, FrameTypes
  <1>3. Delete(n, {Half(n)})
    BY DEF OnBondAlready
  <1>4. /\ peers' \in [Nodes -> SUBSET MACs]
        /\ recent' \in [Nodes -> [MACs -> 0..Recent]]
        /\ peers'[n] \subseteq peers[n]
        /\ \A p \in Nodes \ {n} : peers'[p] = peers[p]
    BY <1>3, DeleteType
  <1>5. Cardinality(peers'[n]) <= MaxBonds + 1 /\ peers'[n] \subseteq Owned[n]
    BY <1>4, Shrinks
  <1>6. ~off[n] /\ pairing'[n] = FALSE /\ bondMAC'[n] = None /\ tempBond'[n] = None
        /\ off' = off /\ outbox' = outbox
    BY DEF OnBondAlready, InWindow, Arrives, Awake, TypeOK
  <1>7. TypeOK'
    <2>1. jobs' \in [Nodes -> [Ahead -> Seq(Jobs)]]
      BY <1>1, <1>2 DEF TypeOK, Calendar
    <2>2. air' \subseteq Frames
      BY AirType DEF OnBondAlready, TypeOK
    <2>3. left' \in [Nodes -> 0..Window]
      BY ConstantsAssumption DEF OnBondAlready, TypeOK
    <2>4. /\ pairing' \in [Nodes -> BOOLEAN]
          /\ bondMAC' \in [Nodes -> MACs \cup {None}]
          /\ tempBond' \in [Nodes -> MACs \cup {None}]
      BY DEF OnBondAlready, TypeOK
    <2>5. UNCHANGED <<off, polling, outbox, group>>
      BY DEF OnBondAlready
    <2> QED BY <1>4, <2>1, <2>2, <2>3, <2>4, <2>5 DEF TypeOK
  <1>8. Sound(n)'
    BY <1>5, <1>6 DEF Sound
  <1>9. \A p \in Nodes \ {n} : Same(p)
    BY <1>4 DEF OnBondAlready, Same, TypeOK
  <1> QED BY <1>7, <1>8, <1>9, LocalStep

\* The handshake keeps a provisional bond the partner's, and adds one peer at
\* most to a window, which was opened below the limit.
LEMMA OnBondHandshakeSound ==
    ASSUME IInv, NEW n \in Nodes, NEW m \in air \cup Strays, OnBondHandshake(n, m)
    PROVE  IInv'
  <1> USE NodeTypes DEF IInv
  <1>1. PICK gap \in LoopMin..LoopMax : jobs' = [jobs EXCEPT ![n] = Pending(n, gap)]
    BY DEF OnBondHandshake
  <1>2. /\ Pending(n, gap) \in Calendar
        /\ HasCancel(Pending(n, gap)[IF pairing[n] THEN left[n] ELSE Window])
    BY PendingArms
  <1>3. m.src \in MACs /\ m.src \in Owned[n] /\ ~off[n] /\ (pairing[n] \/ Room(n))
    BY FrameTypes DEF OnBondHandshake, InWindow, Arrives, Awake, AutoStart
  <1>4. /\ jobs'[n] = Pending(n, gap) /\ pairing'[n] = TRUE
        /\ left'[n] = IF pairing[n] THEN left[n] ELSE Window
        /\ bondMAC'[n] = Chosen(n, m)
        /\ peers'[n] = IF Registers(n, m) THEN peers[n] \cup {m.src} ELSE peers[n]
        /\ tempBond'[n] = IF Confirms(n, m) THEN None
                          ELSE IF Registers(n, m) THEN m.src ELSE Half(n)
        /\ off' = off /\ outbox' = outbox
    BY <1>1 DEF OnBondHandshake, TypeOK
  <1>5. TypeOK'
    <2>1. peers' \in [Nodes -> SUBSET MACs]
      BY <1>3 DEF OnBondHandshake, TypeOK
    <2>2. recent' \in [Nodes -> [MACs -> 0..Recent]]
      BY <1>3, ConstantsAssumption DEF OnBondHandshake, TypeOK
    <2>3. bondMAC' \in [Nodes -> MACs \cup {None}] /\ tempBond' \in [Nodes -> MACs \cup {None}]
      BY <1>3 DEF OnBondHandshake, TypeOK, Chosen, Partner, Half
    <2>4. jobs' \in [Nodes -> [Ahead -> Seq(Jobs)]]
      BY <1>1, <1>2 DEF TypeOK, Calendar
    <2>5. air' \subseteq Frames
      BY AirType DEF OnBondHandshake, TypeOK
    <2>6. left' \in [Nodes -> 0..Window] /\ pairing' \in [Nodes -> BOOLEAN]
      BY ConstantsAssumption DEF OnBondHandshake, TypeOK
    <2>7. UNCHANGED <<off, polling, outbox, group>>
      BY DEF OnBondHandshake
    <2> QED BY <2>1, <2>2, <2>3, <2>4, <2>5, <2>6, <2>7 DEF TypeOK
  <1>6. Sound(n)'
    <2>1. HasCancel(jobs'[n][left'[n]])
      BY <1>2, <1>4
    <2>2. bondMAC'[n] # None
      BY <1>3, <1>4 DEF Chosen
    <2>3. tempBond'[n] # None => bondMAC'[n] = tempBond'[n]
      BY <1>4 DEF Chosen, Registers, Partner, Half, Sound
    <2>4. Cardinality(peers'[n]) <= MaxBonds + 1 /\ peers'[n] \subseteq Owned[n]
      <3>1. CASE Registers(n, m)
        <4>1. Cardinality(peers[n]) <= MaxBonds
          <5>1. Cardinality(peers[n]) \in Nat
            BY Shrinks
          <5>2. CASE pairing[n]
            BY <3>1, <5>2 DEF Registers, Partner, Sound
          <5>3. CASE ~pairing[n]
            BY <1>3, <5>1, <5>3, ConstantsAssumption DEF Room
          <5> QED BY <5>2, <5>3
        <4>2. peers'[n] = peers[n] \cup {m.src} /\ peers[n] \subseteq Owned[n]
          BY <1>4, <3>1 DEF Sound
        <4>3. /\ Cardinality(peers[n]) \in Nat /\ Cardinality(peers[n] \cup {m.src}) \in Nat
              /\ Cardinality(peers[n] \cup {m.src}) <= Cardinality(peers[n]) + 1
          BY <1>3, <4>2, OnePeerMore
        <4> QED BY <1>3, <4>1, <4>2, <4>3, ConstantsAssumption
      <3>2. CASE ~Registers(n, m)
        BY <1>4, <3>2 DEF Sound
      <3> QED BY <3>1, <3>2
    <2>5. HasCancel(jobs[n][left[n]])' <=> HasCancel(jobs'[n][left'[n]])
      BY DEF HasCancel
    <2> QED BY <1>3, <1>4, <2>1, <2>2, <2>3, <2>4, <2>5 DEF Sound
  <1>7. \A p \in Nodes \ {n} : Same(p)
    BY DEF OnBondHandshake, Same, TypeOK
  <1> QED BY <1>5, <1>6, <1>7, LocalStep

\* A bond that joins a list below the limit keeps it within the limit.
LEMMA RoomForOne ==
    ASSUME IInv, NEW n \in Nodes, NEW mac \in MACs, mac \in Owned[n],
           mac \in peers[n] \/ Room(n)
    PROVE  /\ peers[n] \cup {mac} \subseteq Owned[n]
           /\ Cardinality(peers[n] \cup {mac}) <= MaxBonds + 1
           /\ pairing[n] /\ bondMAC[n] = None
                 => Cardinality(peers[n] \cup {mac}) <= MaxBonds
  <1>1. peers[n] \subseteq Owned[n] /\ Cardinality(peers[n]) \in Nat
    BY Shrinks DEF IInv, Sound
  <1>2. CASE mac \in peers[n]
    <2>1. peers[n] \cup {mac} = peers[n]
      BY <1>2
    <2> QED BY <1>1, <2>1 DEF IInv, Sound
  <1>3. CASE Room(n)
    <2>1. /\ Cardinality(peers[n] \cup {mac}) \in Nat
          /\ Cardinality(peers[n] \cup {mac}) <= Cardinality(peers[n]) + 1
      BY <1>1, OnePeerMore
    <2> QED BY <1>1, <1>3, <2>1, ConstantsAssumption DEF Room
  <1> QED BY <1>2, <1>3

\* A status frame brings a bond back within the limit, and touches no window.
LEMMA OnStatusSound ==
    ASSUME IInv, NEW n \in Nodes, NEW m \in air \cup Strays, OnStatus(n, m)
    PROVE  IInv'
  <1> USE NodeTypes DEF IInv
  <1>1. m.src \in MACs /\ m.src \in Owned[n] /\ (m.src \in peers[n] \/ Room(n))
    BY FrameTypes DEF OnStatus, Arrives, Restores
  <1>2. /\ peers'[n] = peers[n] \cup {m.src} /\ UNCHANGED <<off, window, jobs, outbox>>
        /\ \A p \in Nodes \ {n} : peers'[p] = peers[p]
    BY DEF OnStatus, TypeOK
  <1>3. /\ peers'[n] \subseteq Owned[n] /\ Cardinality(peers'[n]) <= MaxBonds + 1
        /\ pairing[n] /\ bondMAC[n] = None => Cardinality(peers'[n]) <= MaxBonds
    <2>1. /\ peers[n] \cup {m.src} \subseteq Owned[n]
          /\ Cardinality(peers[n] \cup {m.src}) <= MaxBonds + 1
          /\ pairing[n] /\ bondMAC[n] = None
                => Cardinality(peers[n] \cup {m.src}) <= MaxBonds
      BY <1>1, RoomForOne
    <2> QED BY <1>2, <2>1
  <1>4. TypeOK'
    <2>1. peers' \in [Nodes -> SUBSET MACs]
      BY <1>1 DEF OnStatus, TypeOK
    <2>2. recent' \in [Nodes -> [MACs -> 0..Recent]]
      BY <1>1, ConstantsAssumption DEF OnStatus, TypeOK
    <2>3. air' \subseteq Frames /\ UNCHANGED <<polling, group>>
      BY DEF OnStatus, TypeOK
    <2> QED BY <1>2, <2>1, <2>2, <2>3 DEF TypeOK, window
  <1>5. Sound(n)'
    BY <1>2, <1>3 DEF Sound, window, HasCancel
  <1>6. \A p \in Nodes \ {n} : Same(p)
    BY <1>2 DEF Same, window
  <1> QED BY <1>4, <1>5, <1>6, LocalStep

\* Every frame of the radio keeps the receiver sound.
LEMMA ReceiveSound ==
    ASSUME IInv, NEW n \in Nodes, Receive(n)
    PROVE  IInv'
  BY OnBondAlreadySound, OnBondHandshakeSound, OnStatusSound DEF Receive

\* Steps that leave alone everything Sound speaks of.
LEMMA QuietSound ==
    ASSUME IInv, TypeOK', UNCHANGED <<off, window, peers, jobs, outbox>>
    PROVE  IInv'
  <1>1. \A p \in Nodes : Same(p)
    BY DEF Same, window
  <1> QED BY <1>1, SameSound DEF IInv

\* A frame that is lost changes no node.
LEMMA LoseSound ==
    ASSUME IInv, NEW m \in air, Lose(m)
    PROVE  IInv'
  <1>1. TypeOK' /\ UNCHANGED <<off, window, peers, jobs, outbox>>
    BY DEF Lose, IInv, TypeOK, window, table
  <1> QED BY <1>1, QuietSound

\* A locate frame touches neither bonds nor window.
LEMMA OnLocateSound ==
    ASSUME IInv, NEW n \in Nodes, NEW mac \in MACs, OnLocate(n, mac)
    PROVE  IInv'
  <1>1. TypeOK' /\ UNCHANGED <<off, window, peers, jobs, outbox>>
    BY ConstantsAssumption DEF OnLocate, IInv, TypeOK, window
  <1> QED BY <1>1, QuietSound

----------------------------------------------------------------------------
(* The Smart Group *)

LEMMA GroupAskSound ==
    ASSUME IInv, NEW n \in Nodes, GroupAsk(n)
    PROVE  IInv'
  <1> USE NodeTypes DEF IInv
  <1>1. jobs' = [jobs EXCEPT ![n] = At(jobs[n], JoinGap, Join)] /\ ~off[n]
        /\ UNCHANGED <<off, window, table, polling, outbox, group, air>>
    BY DEF GroupAsk, Hosted, Awake
  <1>2. /\ At(jobs[n], JoinGap, Join) \in Calendar
        /\ pairing[n] => HasCancel(At(jobs[n], JoinGap, Join)[left[n]])
    BY AtArms, JobKinds DEF Sound
  <1>3. jobs'[n] = At(jobs[n], JoinGap, Join)
    BY <1>1 DEF TypeOK
  <1>4. TypeOK'
    BY <1>1, <1>2 DEF TypeOK, window, table, Calendar
  <1>5. Sound(n)'
    BY <1>1, <1>2, <1>3 DEF Sound, HasCancel, window, table
  <1>6. \A p \in Nodes \ {n} : Same(p)
    BY <1>1 DEF Same, window, table, TypeOK
  <1> QED BY <1>4, <1>5, <1>6, LocalStep

\* The end of a Smart Group closes the window and replaces the bonds by owned Totems.
LEMMA GroupFinalizeSound ==
    ASSUME IInv, NEW n \in Nodes, NEW kept \in SUBSET Owned[n], GroupFinalize(n, kept)
    PROVE  IInv'
  <1> USE NodeTypes DEF IInv
  <1>1. /\ peers'[n] = kept /\ Cardinality(kept) <= MaxBonds /\ ~off[n]
        /\ UNCHANGED <<off, jobs, polling, outbox, air>>
        /\ \A p \in Nodes \ {n} : peers'[p] = peers[p]
    BY DEF GroupFinalize, Hosted, Awake, TypeOK
  <1>2. Cardinality(kept) \in Nat
    BY FewerPeers
  <1>3. /\ pairing'[n] = FALSE /\ bondMAC'[n] = None /\ tempBond'[n] = None
        /\ pairing' \in [Nodes -> BOOLEAN]
        /\ bondMAC' \in [Nodes -> MACs \cup {None}]
        /\ tempBond' \in [Nodes -> MACs \cup {None}] /\ left' = left
        /\ \A p \in Nodes \ {n} : /\ pairing'[p] = pairing[p] /\ bondMAC'[p] = bondMAC[p]
                                   /\ tempBond'[p] = tempBond[p]
    <2>1. CASE pairing[n]
      <3>1. Close(n)
        BY <2>1 DEF GroupFinalize, GroupEnds
      <3> QED BY <3>1 DEF Close, TypeOK
    <2>2. CASE ~pairing[n]
      <3>1. UNCHANGED window
        BY <2>2 DEF GroupFinalize, GroupEnds
      <3>2. pairing[n] = FALSE /\ bondMAC[n] = None /\ tempBond[n] = None
        BY <2>2 DEF Sound
      <3> QED BY <3>1, <3>2 DEF window, TypeOK
    <2> QED BY <2>1, <2>2
  <1>4. TypeOK'
    <2>1. kept \subseteq MACs
      BY ConstantsAssumption
    <2>2. peers' \in [Nodes -> SUBSET MACs] /\ group' \in [Nodes -> Groups \cup {None}]
      BY <2>1 DEF GroupFinalize, TypeOK
    <2>3. [m \in MACs |-> 0] \in [MACs -> 0..Recent]
      BY ConstantsAssumption
    <2>4. recent' \in [Nodes -> [MACs -> 0..Recent]]
      BY <2>3 DEF GroupFinalize, TypeOK
    <2> QED BY <1>1, <1>3, <2>2, <2>4 DEF TypeOK
  <1>5. Sound(n)'
    BY <1>1, <1>2, <1>3, ConstantsAssumption DEF Sound
  <1>6. \A p \in Nodes \ {n} : Same(p)
    BY <1>1, <1>3 DEF Same
  <1> QED BY <1>4, <1>5, <1>6, LocalStep

\* Every Smart Group frame keeps its receiver sound.
LEMMA SmartGroupSound ==
    ASSUME IInv, NEW n \in Nodes, SmartGroup(n)
    PROVE  IInv'
  <1>1. CASE GroupLeft(n) \/ \E g \in Groups : GroupJoined(n, g)
    <2>1. TypeOK' /\ UNCHANGED <<off, window, peers, jobs, outbox>>
      BY <1>1 DEF GroupLeft, GroupJoined, IInv, TypeOK, window, table
    <2> QED BY <2>1, QuietSound
  <1>2. CASE GroupAsk(n)
    BY <1>2, GroupAskSound
  <1>3. CASE \E kept \in SUBSET Owned[n] : GroupFinalize(n, kept)
    BY <1>3, GroupFinalizeSound
  <1> QED BY <1>1, <1>2, <1>3 DEF SmartGroup

----------------------------------------------------------------------------
(* The radio window, and what the person holding the device does *)

LEMMA RadioWindowSound ==
    ASSUME IInv, NEW n \in Nodes, RadioWindow(n)
    PROVE  IInv'
  <1> USE NodeTypes DEF IInv
  <1>1. /\ outbox' = [outbox EXCEPT ![n] = {}] /\ ~off[n]
        /\ UNCHANGED <<off, window, table, jobs, polling, group>>
    BY DEF RadioWindow, Awake
  <1>2. air' \subseteq Frames
    <2>1. /\ Send(n, peers[n] \cap Owned[n], "status") \subseteq Frames
          /\ Send(n, outbox[n] \cap Owned[n], "unbond") \subseteq Frames
      BY SendType DEF Commands
    <2> QED BY <2>1 DEF RadioWindow, TypeOK
  <1>3. TypeOK'
    BY <1>1, <1>2 DEF TypeOK, window, table
  <1>4. Sound(n)'
    BY <1>1 DEF Sound, HasCancel, window, table, TypeOK
  <1>5. \A p \in Nodes \ {n} : Same(p)
    BY <1>1 DEF Same, window, table, TypeOK
  <1> QED BY <1>3, <1>4, <1>5, LocalStep

\* Unbond deletes a bond, and the window with it when the bond is its half-made one.
LEMMA UnbondSound ==
    ASSUME IInv, NEW n \in Nodes, NEW mac \in MACs, Unbond(n, mac)
    PROVE  IInv'
  <1> USE NodeTypes DEF IInv
  <1>1. /\ outbox' = [outbox EXCEPT ![n] = @ \cup {mac}] /\ ~off[n] /\ mac \in peers[n]
        /\ Delete(n, {mac}) /\ UNCHANGED <<off, window, jobs, polling, group, air>>
    BY DEF Unbond, Awake
  <1>2. /\ peers' \in [Nodes -> SUBSET MACs]
        /\ recent' \in [Nodes -> [MACs -> 0..Recent]]
        /\ peers'[n] \subseteq peers[n]
        /\ \A p \in Nodes \ {n} : peers'[p] = peers[p]
    BY <1>1, DeleteType
  <1>3. /\ Cardinality(peers'[n]) \in Nat /\ Cardinality(peers[n]) \in Nat
        /\ Cardinality(peers'[n]) <= Cardinality(peers[n])
        /\ Cardinality(peers'[n]) <= MaxBonds + 1 /\ peers'[n] \subseteq Owned[n]
    BY <1>2, Shrinks
  <1>4. pairing[n] /\ bondMAC[n] = None => Cardinality(peers'[n]) <= MaxBonds
    <2>1. pairing[n] /\ bondMAC[n] = None => Cardinality(peers[n]) <= MaxBonds
      BY DEF Sound
    <2> QED BY <1>3, <2>1, ConstantsAssumption
  <1>5. outbox'[n] = outbox[n] \cup {mac} /\ outbox'[n] \subseteq Owned[n]
    BY <1>1 DEF TypeOK, Sound
  <1>6. TypeOK'
    <2>1. outbox' \in [Nodes -> SUBSET MACs]
      BY <1>1 DEF TypeOK
    <2> QED BY <1>1, <1>2, <2>1 DEF TypeOK, window
  <1>7. Sound(n)'
    BY <1>1, <1>3, <1>4, <1>5 DEF Sound, HasCancel, window
  <1>8. \A p \in Nodes \ {n} : Same(p)
    BY <1>1, <1>2 DEF Same, window, TypeOK
  <1> QED BY <1>6, <1>7, <1>8, LocalStep

\* FactoryReset closes the window before it deletes the bonds.
LEMMA FactoryResetSound ==
    ASSUME IInv, NEW n \in Nodes, FactoryReset(n)
    PROVE  IInv'
  <1> USE NodeTypes DEF IInv
  <1>1. StopPairing(n, MACs) /\ UNCHANGED <<off, jobs, polling, outbox, group, air>>
    BY DEF FactoryReset
  <1>2. /\ pairing'[n] = FALSE /\ bondMAC'[n] = None /\ tempBond'[n] = None
        /\ peers'[n] \subseteq peers[n] /\ left' = left
        /\ \A p \in Nodes \ {n} :
               /\ pairing'[p] = pairing[p] /\ bondMAC'[p] = bondMAC[p]
               /\ tempBond'[p] = tempBond[p] /\ peers'[p] = peers[p]
    BY <1>1, StopEffect
  <1>3. Cardinality(peers'[n]) <= MaxBonds + 1 /\ peers'[n] \subseteq Owned[n]
    BY <1>2, Shrinks
  <1>4. TypeOK'
    <2>1. /\ pairing' \in [Nodes -> BOOLEAN]
          /\ bondMAC' \in [Nodes -> MACs \cup {None}]
          /\ tempBond' \in [Nodes -> MACs \cup {None}]
          /\ peers' \in [Nodes -> SUBSET MACs]
          /\ recent' \in [Nodes -> [MACs -> 0..Recent]]
      BY <1>1, StopEffect
    <2> QED BY <1>1, <1>2, <2>1 DEF TypeOK
  <1>5. Sound(n)'
    BY <1>1, <1>2, <1>3 DEF Sound
  <1>6. \A p \in Nodes \ {n} : Same(p)
    BY <1>1, <1>2 DEF Same
  <1> QED BY <1>4, <1>5, <1>6, LocalStep

\* PowerOff closes the window before it drops the jobs.
LEMMA PowerOffSound ==
    ASSUME IInv, NEW n \in Nodes, PowerOff(n)
    PROVE  IInv'
  <1> USE NodeTypes DEF IInv
  <1>1. /\ StopPairing(n, {}) /\ off' = [off EXCEPT ![n] = TRUE]
        /\ jobs' = [jobs EXCEPT ![n] = Empty] /\ outbox' = [outbox EXCEPT ![n] = {}]
        /\ UNCHANGED <<polling, group, air>>
    BY DEF PowerOff, PowerOffStops
  <1>2. /\ pairing'[n] = FALSE /\ bondMAC'[n] = None /\ tempBond'[n] = None
        /\ peers'[n] \subseteq peers[n] /\ left' = left
        /\ \A p \in Nodes \ {n} :
               /\ pairing'[p] = pairing[p] /\ bondMAC'[p] = bondMAC[p]
               /\ tempBond'[p] = tempBond[p] /\ peers'[p] = peers[p]
    BY <1>1, StopEffect
  <1>3. Cardinality(peers'[n]) <= MaxBonds + 1 /\ peers'[n] \subseteq Owned[n]
    BY <1>2, Shrinks
  <1>4. jobs'[n] = Empty /\ outbox'[n] = {}
    BY <1>1 DEF TypeOK
  <1>5. TypeOK'
    <2>1. jobs' \in [Nodes -> [Ahead -> Seq(Jobs)]]
      BY <1>1, EmptyCalendar DEF TypeOK, Calendar
    <2>2. off' \in [Nodes -> BOOLEAN] /\ outbox' \in [Nodes -> SUBSET MACs]
      BY <1>1 DEF TypeOK
    <2> QED BY <1>1, <2>1, <2>2, StopEffect DEF TypeOK
  <1>6. Sound(n)'
    <2>1. Empty' = Empty
      BY DEF Empty, Ahead
    <2> QED BY <1>2, <1>3, <1>4, <2>1 DEF Sound
  <1>7. \A p \in Nodes \ {n} : Same(p)
    BY <1>1, <1>2 DEF Same, TypeOK
  <1> QED BY <1>5, <1>6, <1>7, LocalStep

\* PowerOn finds no window and no jobs.
LEMMA PowerOnSound ==
    ASSUME IInv, NEW n \in Nodes, PowerOn(n)
    PROVE  IInv'
  <1> USE NodeTypes DEF IInv
  <1>1. off' = [off EXCEPT ![n] = FALSE]
        /\ UNCHANGED <<window, table, jobs, polling, outbox, group, air>>
    BY DEF PowerOn
  <1>2. TypeOK'
    BY <1>1 DEF TypeOK, window, table
  <1>3. Sound(n)'
    BY <1>1 DEF Sound, HasCancel, window, table, TypeOK
  <1>4. \A p \in Nodes \ {n} : Same(p)
    BY <1>1 DEF Same, window, table, TypeOK
  <1> QED BY <1>2, <1>3, <1>4, LocalStep

\* AddBond puts an owned Totem back within the limit.
LEMMA AddBondSound ==
    ASSUME IInv, NEW n \in Nodes, NEW mac \in MACs, AddBond(n, mac)
    PROVE  IInv'
  <1> USE NodeTypes DEF IInv
  <1>1. /\ peers' = [peers EXCEPT ![n] = @ \cup {mac}] /\ mac \in Owned[n] /\ Room(n)
        /\ UNCHANGED <<off, window, recent, jobs, polling, outbox, group, air>>
    BY DEF AddBond
  <1>2. peers'[n] = peers[n] \cup {mac}
    BY <1>1 DEF TypeOK
  <1>3. /\ peers[n] \cup {mac} \subseteq Owned[n]
        /\ Cardinality(peers[n] \cup {mac}) <= MaxBonds + 1
        /\ pairing[n] /\ bondMAC[n] = None => Cardinality(peers[n] \cup {mac}) <= MaxBonds
    BY <1>1, RoomForOne
  <1>4. TypeOK'
    BY <1>1 DEF TypeOK, window
  <1>5. Sound(n)'
    BY <1>1, <1>2, <1>3 DEF Sound, HasCancel, window
  <1>6. \A p \in Nodes \ {n} : Same(p)
    BY <1>1 DEF Same, window, TypeOK
  <1> QED BY <1>4, <1>5, <1>6, LocalStep

\* A boot starts from a saved list that fits, without window or jobs.
LEMMA BootSound ==
    ASSUME IInv, NEW n \in Nodes, NEW list \in SUBSET Owned[n], Boot(n, list)
    PROVE  IInv'
  <1> USE NodeTypes DEF IInv
  <1>1. /\ off'[n] = FALSE /\ pairing'[n] = FALSE /\ bondMAC'[n] = None
        /\ tempBond'[n] = None /\ peers'[n] = list /\ outbox'[n] = {}
        /\ Cardinality(list) <= MaxBonds
    BY DEF Boot, TypeOK
  <1>2. Cardinality(list) \in Nat
    BY FewerPeers
  <1>3. TypeOK'
    <2>1. list \subseteq MACs
      BY ConstantsAssumption
    <2>2. [m \in MACs |-> 0] \in [MACs -> 0..Recent]
      BY ConstantsAssumption
    <2>3. jobs' \in [Nodes -> [Ahead -> Seq(Jobs)]]
      BY EmptyCalendar DEF Boot, TypeOK, Calendar
    <2>4. recent' \in [Nodes -> [MACs -> 0..Recent]] /\ peers' \in [Nodes -> SUBSET MACs]
      BY <2>1, <2>2 DEF Boot, TypeOK
    <2>5. left' \in [Nodes -> 0..Window]
      BY ConstantsAssumption DEF Boot, TypeOK
    <2>6. /\ pairing' \in [Nodes -> BOOLEAN] /\ off' \in [Nodes -> BOOLEAN]
          /\ bondMAC' \in [Nodes -> MACs \cup {None}]
          /\ tempBond' \in [Nodes -> MACs \cup {None}]
          /\ outbox' \in [Nodes -> SUBSET MACs] /\ polling' \in Nodes \cup {None}
          /\ group' \in [Nodes -> Groups \cup {None}] /\ air' = air
      BY DEF Boot, TypeOK
    <2> QED BY <2>3, <2>4, <2>5, <2>6 DEF TypeOK
  <1>4. Sound(n)'
    BY <1>1, <1>2, ConstantsAssumption DEF Sound
  <1>5. \A p \in Nodes \ {n} : Same(p)
    BY DEF Boot, Same, TypeOK
  <1> QED BY <1>3, <1>4, <1>5, LocalStep

----------------------------------------------------------------------------
(* The theorems *)

LEMMA InitSound == Init => IInv
  <1> SUFFICES ASSUME Init PROVE IInv
    OBVIOUS
  <1>1. [m \in MACs |-> 0] \in [MACs -> 0..Recent] /\ 0 \in 0..Window
    BY ConstantsAssumption
  <1>2. [n \in Nodes |-> Empty] \in [Nodes -> [Ahead -> Seq(Jobs)]]
    BY EmptyCalendar DEF Calendar
  <1>3. TypeOK
    BY <1>1, <1>2 DEF Init, TypeOK
  <1>4. ASSUME NEW n \in Nodes PROVE Sound(n)
    <2>1. Cardinality(peers[n]) \in Nat /\ peers[n] \subseteq Owned[n]
      BY FewerPeers DEF Init
    <2> QED BY <2>1, ConstantsAssumption DEF Init, Sound
  <1> QED BY <1>3, <1>4 DEF IInv

\* Every step of the protocol keeps the inductive invariant.
LEMMA NextSound ==
    ASSUME IInv, [Next]_vars
    PROVE  IInv'
  <1>1. CASE Tick
    BY <1>1, TickSound
  <1>2. CASE \E m \in air : Lose(m)
    BY <1>2, LoseSound
  <1>3. ASSUME NEW n \in Nodes, RunJob(n) PROVE IInv'
    BY <1>3, RunLoopSound, RunCancelSound, RunOtherSound DEF RunJob
  <1>4. ASSUME NEW n \in Nodes, Use(n) PROVE IInv'
    BY <1>4, PairSound, FactoryResetSound, PowerOffSound, PowerOnSound, UnbondSound,
       AddBondSound, OnLocateSound, BootSound DEF Use
  <1>5. CASE UNCHANGED vars
    <2>1. TypeOK' /\ UNCHANGED <<off, window, peers, jobs, outbox>>
      BY <1>5 DEF vars, window, table, IInv, TypeOK
    <2> QED BY <2>1, QuietSound
  <1> QED BY <1>1, <1>2, <1>3, <1>4, <1>5, ReceiveSound, SmartGroupSound, RadioWindowSound
          DEF Next

\* IInv is an invariant of the protocol, for every value of the constants.
THEOREM Invariance == Spec => []IInv
  BY InitSound, NextSound, PTL DEF Spec

\* Every variable keeps its type.
THEOREM TypeCorrect == Spec => []TypeOK
  <1>1. IInv => TypeOK
    BY DEF IInv
  <1> QED BY <1>1, Invariance, PTL

\* A provisional bond exists only as the partner of an open window, so that
\* stopPairing always finds it.
THEOREM HalfBondSafe == Spec => []HalfBond
  <1>1. IInv => HalfBond
    BY DEF IInv, Sound, HalfBond
  <1> QED BY <1>1, Invariance, PTL

\* An open window always has its own cancel timer pending at pairEnd.
THEOREM EndArmedSafe == Spec => []EndArmed
  <1>1. IInv => EndArmed
    BY DEF IInv, Sound, EndArmed, HasCancel
  <1> QED BY <1>1, Invariance, PTL

\* The bond list (n.order) outgrows maxBonds by one at most, which state.go says
\* it never does: the limit is asked when a window opens and not when it bonds.
THEOREM OneOverSafe == Spec => []OneOver
  <1>1. IInv => OneOver
    BY DEF IInv, Sound, OneOver
  <1> QED BY <1>1, Invariance, PTL

\* A device that is off has nothing left to do.
THEOREM OffQuietSafe == Spec => []OffQuiet
  <1>1. IInv => OffQuiet
    BY DEF IInv, Sound, OffQuiet
  <1> QED BY <1>1, Invariance, PTL

\* Only owned Totems are bonded, and only to them are notices owed.
THEOREM OwnedOnlySafe == Spec => []OwnedOnly
  <1>1. IInv => OwnedOnly
    BY DEF IInv, Sound, OwnedOnly
  <1> QED BY <1>1, Invariance, PTL

\* stopPairing rolls the provisional bond of the window it ends back.
LEMMA StopRollsBack ==
    ASSUME IInv, NEW n \in Nodes, NEW also, StopPairing(n, also), NEW p \in Nodes,
           pairing[p], ~pairing'[p]
    PROVE  tempBond[p] \notin peers'[p]
  <1>1. p = n
    BY StopEffect
  <1>2. Delete(n, Rollback(n) \cup also)
    BY <1>1 DEF StopPairing
  <1>3. peers'[n] = peers[n] \ (Rollback(n) \cup also)
    BY <1>2, DeleteType DEF IInv
  <1> QED BY <1>1, <1>3 DEF Rollback

\* So does a window that ends because the two were bonded already.
LEMMA AlreadyRollsBack ==
    ASSUME IInv, NEW n \in Nodes, NEW m, OnBondAlready(n, m), NEW p \in Nodes,
           pairing[p], ~pairing'[p]
    PROVE  tempBond[p] \notin peers'[p]
  <1>1. p = n
    BY DEF OnBondAlready, IInv, TypeOK
  <1>2. Delete(n, {Half(n)}) /\ Half(n) = tempBond[n]
    BY <1>1 DEF OnBondAlready, Half
  <1>3. peers'[n] = peers[n] \ {Half(n)}
    BY <1>2, DeleteType DEF IInv
  <1> QED BY <1>1, <1>2, <1>3

\* No window ends in the other steps of a node.
LEMMA OthersGoOn ==
    ASSUME IInv, NEW n \in Nodes, NEW p \in Nodes, pairing[p]
    PROVE  /\ Pair(n) \/ PowerOn(n) \/ RunLoop(n) \/ RunAck(n) \/ RunJoin(n) \/ RadioWindow(n) => pairing'[p]
           /\ GroupAsk(n) \/ GroupLeft(n) \/ (\E g \in Groups : GroupJoined(n, g)) => pairing'[p]
           /\ (\E mac \in MACs : Unbond(n, mac) \/ AddBond(n, mac) \/ OnLocate(n, mac)) => pairing'[p]
           /\ \A m : OnBondHandshake(n, m) \/ OnStatus(n, m) => pairing'[p]
  <1> USE DEF IInv, TypeOK, window
  <1>1. Pair(n) \/ PowerOn(n) \/ RunLoop(n) \/ RunAck(n) \/ RunJoin(n) \/ RadioWindow(n) => pairing'[p]
    BY DEF Pair, PowerOn, RunLoop, RunAck, RunJoin, RadioWindow
  <1>2. GroupAsk(n) \/ GroupLeft(n) \/ (\E g \in Groups : GroupJoined(n, g)) => pairing'[p]
    BY DEF GroupAsk, GroupLeft, GroupJoined
  <1>3. (\E mac \in MACs : Unbond(n, mac) \/ AddBond(n, mac) \/ OnLocate(n, mac)) => pairing'[p]
    BY DEF Unbond, AddBond, OnLocate
  <1>4. \A m : OnBondHandshake(n, m) \/ OnStatus(n, m) => pairing'[p]
    BY DEF OnBondHandshake, OnStatus
  <1> QED BY <1>1, <1>2, <1>3, <1>4

\* A window that ends takes its provisional bond along, or a list has it.
LEMMA EndRollsBack ==
    ASSUME IInv, [Next]_vars, NEW p \in Nodes, pairing[p], ~pairing'[p], tempBond[p] \in peers'[p]
    PROVE  Listed(p)
  <1>1. CASE Tick
    BY <1>1 DEF Tick
  <1>2. CASE \E m \in air : Lose(m)
    BY <1>2 DEF Lose, window
  <1>3. CASE UNCHANGED vars
    BY <1>3 DEF vars, window
  <1>4. ASSUME NEW n \in Nodes, RunJob(n) PROVE Listed(p)
    <2>1. RunCancel(n)
      BY <1>4, OthersGoOn DEF RunJob
    <2>2. StopPairing(n, {})
      BY <2>1 DEF RunCancel, window
    <2> QED BY <2>2, StopRollsBack
  <1>5. ASSUME NEW n \in Nodes, Receive(n) PROVE Listed(p)
    <2>1. PICK m : OnBondAlready(n, m) \/ OnBondHandshake(n, m) \/ OnStatus(n, m)
      BY <1>5 DEF Receive
    <2> QED BY <2>1, OthersGoOn, AlreadyRollsBack
  <1>6. ASSUME NEW n \in Nodes, SmartGroup(n) PROVE Listed(p)
    <2>1. PICK kept \in SUBSET Owned[n] : GroupFinalize(n, kept)
      BY <1>6, OthersGoOn DEF SmartGroup
    <2>2. p = n
      BY <2>1 DEF GroupFinalize, GroupEnds, Close, window, IInv, TypeOK
    <2> QED BY <2>1, <2>2 DEF Listed
  <1>7. ASSUME NEW n \in Nodes, Use(n) PROVE Listed(p)
    <2>1. FactoryReset(n) \/ PowerOff(n) \/ \E list \in SUBSET Owned[n] : Boot(n, list)
      BY <1>7, OthersGoOn DEF Use
    <2>2. CASE FactoryReset(n)
      BY <2>2, StopRollsBack DEF FactoryReset
    <2>3. CASE PowerOff(n)
      BY <2>3, StopRollsBack DEF PowerOff, PowerOffStops
    <2>4. ASSUME NEW list \in SUBSET Owned[n], Boot(n, list) PROVE Listed(p)
      <3>1. p = n
        BY <2>4 DEF Boot, IInv, TypeOK
      <3> QED BY <2>4, <3>1 DEF Listed
    <2> QED BY <2>1, <2>2, <2>3, <2>4
  <1>8. ASSUME NEW n \in Nodes, RadioWindow(n) PROVE Listed(p)
    BY <1>8, OthersGoOn
  <1> QED BY <1>1, <1>2, <1>3, <1>4, <1>5, <1>6, <1>7, <1>8 DEF Next

\* A window that ends by its timer, a bond both sides have already, a reset or
\* the power switch leaves no bond that never got its ack (stopPairing).
THEOREM RolledBackHolds == Spec => RolledBack
  <1>1. IInv /\ [Next]_vars =>
          [\A n \in Nodes :
             pairing[n] /\ ~pairing'[n] /\ tempBond[n] \in peers'[n] => Listed(n)]_vars
    BY EndRollsBack
  <1> QED BY <1>1, Invariance, PTL DEF Spec, RolledBack

\* A step that takes at most the provisional bond from the list, and makes no
\* bond provisional, leaves the final ones.
LEMMA StaysFirm ==
    ASSUME NEW p \in Nodes, TypeOK', peers[p] \subseteq peers'[p] \cup {tempBond[p]},
           tempBond'[p] \in {tempBond[p], None}
    PROVE  Firm(p) \subseteq Firm(p)'
  BY ConstantsAssumption DEF Firm, TypeOK

\* stopPairing takes the provisional bond and no other.
LEMMA StopKeepsFirm ==
    ASSUME IInv, TypeOK', NEW n \in Nodes, StopPairing(n, {}), NEW p \in Nodes
    PROVE  Firm(p) \subseteq Firm(p)'
  <1>1. tempBond'[n] = None /\ \A q \in Nodes \ {n} : peers'[q] = peers[q] /\ tempBond'[q] = tempBond[q]
    BY StopEffect
  <1>2. Delete(n, Rollback(n)) \/ Delete(n, {})
    BY DEF StopPairing
  <1>3. peers[n] \subseteq peers'[n] \cup {tempBond[n]}
    BY <1>2, DeleteType DEF IInv, Rollback
  <1> QED BY <1>1, <1>3, StaysFirm

\* A frame takes no final bond, and makes none provisional again: who is to be
\* registered was not in the list.
LEMMA ReceiveKeepsFirm ==
    ASSUME IInv, TypeOK', NEW n \in Nodes, Receive(n), NEW p \in Nodes
    PROVE  Firm(p) \subseteq Firm(p)'
  <1> USE DEF IInv, TypeOK
  <1>1. PICK m : OnBondAlready(n, m) \/ OnBondHandshake(n, m) \/ OnStatus(n, m)
    BY DEF Receive
  <1>2. CASE OnBondAlready(n, m)
    <2>1. Delete(n, {Half(n)}) /\ tempBond' = [tempBond EXCEPT ![n] = None]
      BY <1>2 DEF OnBondAlready
    <2>2. peers'[n] = peers[n] \ {Half(n)} /\ \A q \in Nodes \ {n} : peers'[q] = peers[q]
      BY <2>1, DeleteType
    <2>3. peers[p] \subseteq peers'[p] \cup {tempBond[p]}
      BY <2>2, ConstantsAssumption DEF Half
    <2> QED BY <2>1, <2>3, StaysFirm
  <1>3. CASE OnBondHandshake(n, m)
    <2>1. /\ peers' = [peers EXCEPT ![n] = IF Registers(n, m) THEN @ \cup {m.src} ELSE @]
          /\ tempBond' = [tempBond EXCEPT ![n] = IF Confirms(n, m) THEN None
                             ELSE IF Registers(n, m) THEN m.src ELSE Half(n)]
      BY <1>3 DEF OnBondHandshake
    <2>2. Half(n) = tempBond[n]
      BY DEF Half, Sound
    <2>3. Registers(n, m) => m.src \notin peers[n]
      BY <2>2, ConstantsAssumption DEF Registers, Known, Partner, Half, Sound
    <2>4. CASE p = n
      <3>1. CASE Registers(n, m)
        BY <2>1, <2>3, <2>4, <3>1, ConstantsAssumption DEF Firm
      <3>2. CASE ~Registers(n, m)
        BY <2>1, <2>2, <2>4, <3>2, StaysFirm
      <3> QED BY <3>1, <3>2
    <2>5. CASE p # n
      BY <2>1, <2>5, StaysFirm
    <2> QED BY <2>4, <2>5
  <1>4. CASE OnStatus(n, m)
    BY <1>4, StaysFirm DEF OnStatus, window
  <1> QED BY <1>1, <1>2, <1>3, <1>4

\* A final bond goes only when the person deletes it or a list replaces them all.
LEMMA FirmStays ==
    ASSUME IInv, TypeOK', [Next]_vars, NEW p \in Nodes
    PROVE  Firm(p) \subseteq Firm(p)' \/ Listed(p) \/ LetGo(p)
  <1> USE DEF IInv, TypeOK, window, table
  <1>1. CASE Tick
    BY <1>1, StaysFirm DEF Tick
  <1>2. CASE \E m \in air : Lose(m)
    BY <1>2, StaysFirm DEF Lose
  <1>3. CASE UNCHANGED vars
    BY <1>3, StaysFirm DEF vars
  <1>4. ASSUME NEW n \in Nodes, RunJob(n) PROVE Firm(p) \subseteq Firm(p)'
    <2>1. StopPairing(n, {}) \/ UNCHANGED <<window, table>>
      BY <1>4 DEF RunJob, RunLoop, RunCancel, RunAck, RunJoin
    <2> QED BY <2>1, StopKeepsFirm, StaysFirm
  <1>5. ASSUME NEW n \in Nodes, SmartGroup(n) PROVE Firm(p) \subseteq Firm(p)' \/ Listed(p)
    <2>1. CASE UNCHANGED <<window, table>>
      BY <2>1, StaysFirm
    <2>2. ASSUME NEW kept \in SUBSET Owned[n], GroupFinalize(n, kept)
          PROVE  Firm(p) \subseteq Firm(p)' \/ Listed(p)
      <3>1. CASE p = n
        BY <2>2, <3>1 DEF Listed
      <3>2. CASE p # n
        <4>1. peers'[p] = peers[p] /\ tempBond'[p] = tempBond[p]
          BY <2>2, <3>2 DEF GroupFinalize, GroupEnds, Close
        <4> QED BY <4>1, StaysFirm
      <3> QED BY <3>1, <3>2
    <2> QED BY <1>5, <2>1, <2>2 DEF SmartGroup, GroupJoined, GroupAsk, GroupLeft
  <1>6. ASSUME NEW n \in Nodes, Use(n)
        PROVE  Firm(p) \subseteq Firm(p)' \/ Listed(p) \/ LetGo(p)
    <2>1. CASE Pair(n) \/ PowerOn(n) \/ \E mac \in MACs : AddBond(n, mac) \/ OnLocate(n, mac)
      <3>1. peers[p] \subseteq peers'[p] /\ tempBond'[p] \in {tempBond[p], None}
        <4>1. CASE Pair(n)
          BY <4>1 DEF Pair
        <4>2. CASE PowerOn(n)
          BY <4>2 DEF PowerOn
        <4>3. ASSUME NEW mac \in MACs, AddBond(n, mac) \/ OnLocate(n, mac)
              PROVE  peers[p] \subseteq peers'[p] /\ tempBond'[p] = tempBond[p]
          <5>1. tempBond' = tempBond /\ (peers' = [peers EXCEPT ![n] = @ \cup {mac}] \/ peers' = peers)
            BY <4>3 DEF AddBond, OnLocate
          <5>2. CASE p = n
            BY <5>1, <5>2
          <5>3. CASE p # n
            BY <5>1, <5>3
          <5> QED BY <5>2, <5>3
        <4> QED BY <2>1, <4>1, <4>2, <4>3
      <3> QED BY <3>1, StaysFirm
    <2>2. CASE PowerOff(n)
      BY <2>2, StopKeepsFirm DEF PowerOff, PowerOffStops
    <2>3. CASE FactoryReset(n)
      <3>1. CASE p = n
        BY <2>3, <3>1 DEF LetGo
      <3>2. CASE p # n
        <4>1. peers'[p] = peers[p] /\ tempBond'[p] = tempBond[p]
          BY <2>3, <3>2, StopEffect DEF FactoryReset
        <4> QED BY <4>1, StaysFirm
      <3> QED BY <3>1, <3>2
    <2>4. ASSUME NEW mac \in MACs, Unbond(n, mac) PROVE Firm(p) \subseteq Firm(p)' \/ LetGo(p)
      <3>1. CASE p = n
        BY <2>4, <3>1 DEF LetGo
      <3>2. CASE p # n
        BY <2>4, <3>2, StaysFirm DEF Unbond, Delete
      <3> QED BY <3>1, <3>2
    <2>5. ASSUME NEW list \in SUBSET Owned[n], Boot(n, list) PROVE Firm(p) \subseteq Firm(p)' \/ Listed(p)
      <3>1. CASE p = n
        BY <2>5, <3>1 DEF Listed
      <3>2. CASE p # n
        <4>1. peers'[p] = peers[p] /\ tempBond'[p] = tempBond[p]
          BY <2>5, <3>2 DEF Boot
        <4> QED BY <4>1, StaysFirm
      <3> QED BY <3>1, <3>2
    <2> QED BY <1>6, <2>1, <2>2, <2>3, <2>4, <2>5 DEF Use
  <1>7. ASSUME NEW n \in Nodes, RadioWindow(n) PROVE Firm(p) \subseteq Firm(p)'
    BY <1>7, StaysFirm DEF RadioWindow
  <1> QED BY <1>1, <1>2, <1>3, <1>4, <1>5, <1>6, <1>7, ReceiveKeepsFirm DEF Next

\* An ack, a group and a restart leave nothing provisional.
LEMMA AllFirm ==
    ASSUME IInv, TypeOK', NEW p \in Nodes, Listed(p) \/ Acked(p)
    PROVE  Firm(p)' = peers'[p]
  <1> USE DEF IInv, TypeOK
  <1>1. ASSUME NEW kept \in SUBSET Owned[p], GroupFinalize(p, kept) PROVE tempBond'[p] = None
    BY <1>1 DEF GroupFinalize, GroupEnds, Close, window, Sound
  <1>2. ASSUME NEW list \in SUBSET Owned[p], Boot(p, list) PROVE tempBond'[p] = None
    BY <1>2 DEF Boot
  <1>3. ASSUME Acked(p) PROVE tempBond'[p] = None
    <2>1. PICK m \in air \cup Strays : Confirms(p, m) /\ OnBondHandshake(p, m)
      BY <1>3 DEF Acked
    <2>2. tempBond' = [tempBond EXCEPT ![p] = None]
      BY <2>1 DEF OnBondHandshake
    <2> QED BY <2>2
  <1>4. tempBond'[p] = None
    BY <1>1, <1>2, <1>3 DEF Listed
  <1> QED BY <1>4, ConstantsAssumption DEF Firm

\* A bond made final by an ack, a group or a restart is deleted by the person or
\* replaced by another list, and never taken along by a window that ends
\* (stopPairing after onSmartGroup).
THEOREM FirmKeptHolds == Spec => FirmKept
  <1>1. IInv /\ [Next]_vars =>
          [\A n \in Nodes :
             /\ Firm(n) \subseteq Firm(n)' \/ Listed(n) \/ LetGo(n)
             /\ Listed(n) \/ Acked(n) => Firm(n)' = peers'[n]]_vars
    BY NextSound, FirmStays, AllFirm DEF IInv
  <1> QED BY <1>1, Invariance, PTL DEF Spec, FirmKept
=============================================================================
