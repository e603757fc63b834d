------------------------------ MODULE Bonding ------------------------------
(***************************************************************************)
(* Pairing and bonding of emulator.Node (emulator/node.go): the six-second *)
(* window, the ask/ack handshake with its provisional bond and rollback,   *)
(* the already-bonded answer, the bond a status frame restores, the Smart  *)
(* Group client, power, reset and reboot.                                  *)
(*                                                                         *)
(* Nodes run this code and share one unreliable air; Totems are devices    *)
(* outside the model, and may send a node any frame at any time.  A node   *)
(* is driven by one goroutine, so a handler is one step.  Poll is a step   *)
(* per due job, and nothing else happens until the due jobs are drained:   *)
(* nodes share only the air, so what others do can wait until then.        *)
(*                                                                         *)
(* Time is counted in ticks relative to now.  jobs[n] is a calendar:       *)
(* jobs[n][d] lists, in the order they were armed, the jobs d ticks away;  *)
(* jobs[n][0] the ones that are due, earliest first.  That is the order    *)
(* (at, seq) of cmpJob.                                                    *)
(***************************************************************************)
EXTENDS Integers, Sequences, FiniteSets

CONSTANTS
    Nodes,       \* devices running this code
    Totems,      \* other devices in range
    None,        \* no MAC, no group
    Groups,      \* Smart Group UIDs
    Owned,       \* Config.Owned, per node
    AutoPair,    \* the nodes whose Config.AutoPair is set
    MaxBonds,    \* maxBonds
    Window,      \* pairingWindow, in ticks
    Recent,      \* alreadyBonded, in ticks
    LoopMin, LoopMax,   \* the 50-99 ms between two rounds of pairLoop
    Burst, BurstGap,    \* ackBurstCount, ackBurstGap
    JoinGap,     \* joinGap
    Lag,         \* ticks a frame may wait on the air and in a receive ring
    Ops,         \* what the people holding the devices do in this instance
    MaxJobs      \* bound on a node's pending jobs

MACs == Nodes \cup Totems
Operations == {"pair", "unbond", "reset", "power", "boot", "restore", "locate"}

ASSUME ConstantsAssumption ==
    /\ Nodes \cap Totems = {} /\ None \notin MACs \cup Groups
    /\ Owned \in [Nodes -> SUBSET MACs]
    /\ \A n \in Nodes : IsFiniteSet(Owned[n])
    /\ AutoPair \subseteq Nodes /\ Ops \subseteq Operations
    /\ MaxBonds \in Nat \ {0} /\ MaxJobs \in Nat /\ Recent \in Nat /\ Lag \in Nat
    /\ Window \in Nat \ {0} /\ LoopMin \in Nat \ {0} /\ LoopMax \in Nat
    /\ LoopMin <= LoopMax /\ LoopMax <= Window
    /\ Burst \in Nat \ {0} /\ BurstGap \in Nat \ {0} /\ JoinGap \in 1..Window
    /\ \A i \in 1..(Burst - 1) : i * BurstGap \in 1..Window

VARIABLES
    off,         \* power.off
    pairing,     \* a pairing window is open
    bondMAC,     \* the partner this window settled on
    tempBond,    \* the partner added but not acknowledged yet
    left,        \* ticks to pairEnd, 0 once it has passed
    peers,       \* the bonded peers (n.peers and n.order)
    recent,      \* ticks for which a peer still counts as just heard
    jobs,        \* the calendar of pending jobs
    polling,     \* the node whose Poll is in the middle of its due jobs
    outbox,      \* peers owed an unbond notice at the next radio window
    group,       \* the Smart Group joined (inGroup, smartUID)
    air          \* frames under way to a node

window == <<pairing, bondMAC, tempBond, left>>
table == <<peers, recent>>
vars == <<off, window, table, jobs, polling, outbox, group, air>>

Commands == {"ask", "ack", "status", "unbond"}
Frames == [src : MACs, dst : Nodes, cmd : Commands, ttl : 0..Lag]
Strays == [src : Totems, dst : Nodes, cmd : Commands, ttl : {Lag}]
Jobs == [kind : {"loop", "cancel", "ack", "join"}, to : MACs \cup {None}]
Ahead == 0..Window

TypeOK ==
    /\ off \in [Nodes -> BOOLEAN]
    /\ pairing \in [Nodes -> BOOLEAN]
    /\ bondMAC \in [Nodes -> MACs \cup {None}]
    /\ tempBond \in [Nodes -> MACs \cup {None}]
    /\ left \in [Nodes -> 0..Window]
    /\ peers \in [Nodes -> SUBSET MACs]
    /\ recent \in [Nodes -> [MACs -> 0..Recent]]
    /\ jobs \in [Nodes -> [Ahead -> Seq(Jobs)]]
    /\ polling \in Nodes \cup {None}
    /\ outbox \in [Nodes -> SUBSET MACs]
    /\ group \in [Nodes -> Groups \cup {None}]
    /\ air \subseteq Frames

----------------------------------------------------------------------------
(* Jobs and frames *)

Loop == [kind |-> "loop", to |-> None]
Cancel == [kind |-> "cancel", to |-> None]
Join == [kind |-> "join", to |-> None]
Ack(mac) == [kind |-> "ack", to |-> mac]

Empty == [d \in Ahead |-> <<>>]
At(q, d, j) == [q EXCEPT ![d] = Append(@, j)]

\* A frame goes to the nodes among dsts, and a unicast only to an owned MAC.
Send(n, dsts, cmd) ==
    {[src |-> n, dst |-> d, cmd |-> cmd, ttl |-> Lag] : d \in (dsts \cap Nodes) \ {n}}
Unicast(n, dst, cmd) == Send(n, {dst} \cap Owned[n], cmd)
Ask(n) == Send(n, Nodes, "ask")

\* The rest of the ack burst: Burst - 1 jobs, BurstGap apart.
BurstJobs(q, mac) ==
    [d \in Ahead |-> IF \E i \in 1..(Burst - 1) : d = i * BurstGap
                     THEN Append(q[d], Ack(mac)) ELSE q[d]]

JobCount(q) == Cardinality(UNION {{d} \X DOMAIN q[d] : d \in Ahead})
Bounded(n) == JobCount(jobs'[n]) <= MaxJobs

\* Every node is between two handlers.
Ready == polling = None
Awake(n) == Ready /\ ~off[n]

Room(n) == Cardinality(peers[n]) < MaxBonds

----------------------------------------------------------------------------
(* The window *)

\* Mutant: the cancel timer is armed a tick short of pairEnd.
Started_Slip(q, gap) == At(At(q, gap, Loop), Window - 1, Cancel)

\* startPairing, as far as the window and its timers go: the first round of
\* pairLoop arms the next one before the cancel timer is armed.
Started(q, gap) == At(At(q, gap, Loop), Window, Cancel)

Pair(n) ==
    /\ "pair" \in Ops /\ Awake(n) /\ ~pairing[n] /\ Room(n)
    /\ pairing' = [pairing EXCEPT ![n] = TRUE]
    /\ bondMAC' = [bondMAC EXCEPT ![n] = None]
    /\ tempBond' = [tempBond EXCEPT ![n] = None]
    /\ left' = [left EXCEPT ![n] = Window]
    /\ \E gap \in LoopMin..LoopMax : jobs' = [jobs EXCEPT ![n] = Started(@, gap)]
    /\ Bounded(n)
    /\ air' = air \cup Ask(n)
    /\ UNCHANGED <<off, table, polling, outbox, group>>

\* Mutant: the provisional bond is kept when the window stops.
Rollback_Slip(n) == {}

\* The peer a stopping window deletes: the one that never sent its ack.
Rollback(n) == {tempBond[n]}

\* Peers are deleted with everything known about them.
Delete(n, gone) ==
    /\ peers' = [peers EXCEPT ![n] = @ \ gone]
    /\ recent' = [recent EXCEPT ![n] = [m \in MACs |-> IF m \in gone THEN 0 ELSE @[m]]]

\* Mutant: the window closes without letting go of the provisional bond.
Close_Slip(n) ==
    /\ pairing' = [pairing EXCEPT ![n] = FALSE]
    /\ bondMAC' = [bondMAC EXCEPT ![n] = None]
    /\ UNCHANGED <<tempBond, left>>

Close(n) ==
    /\ pairing' = [pairing EXCEPT ![n] = FALSE]
    /\ bondMAC' = [bondMAC EXCEPT ![n] = None]
    /\ tempBond' = [tempBond EXCEPT ![n] = None]
    /\ UNCHANGED left

\* stopPairing, for a handler that goes on to delete the peers in also.
StopPairing(n, also) ==
    IF pairing[n] THEN Close(n) /\ Delete(n, Rollback(n) \cup also)
                  ELSE UNCHANGED window /\ Delete(n, also)

----------------------------------------------------------------------------
(* Poll: the first due job runs, and Poll goes on while one is due. *)

Due(n) == polling \in {None, n} /\ jobs[n][0] # <<>>
Rest(n) == [jobs[n] EXCEPT ![0] = Tail(@)]

Ran(n, q) ==
    /\ jobs' = [jobs EXCEPT ![n] = q]
    /\ polling' = IF q[0] # <<>> THEN n ELSE None
    /\ UNCHANGED <<off, outbox, group>>

\* pairLoop: another round, or the end of the chain once the window is closed.
RunLoop(n) ==
    /\ Due(n) /\ Head(jobs[n][0]).kind = "loop"
    /\ \/ /\ pairing[n]
          /\ air' = air \cup IF bondMAC[n] # None
                             THEN Unicast(n, bondMAC[n], "ack") ELSE Ask(n)
          /\ \E gap \in LoopMin..LoopMax : Ran(n, At(Rest(n), gap, Loop))
       \/ /\ ~pairing[n]
          /\ Ran(n, Rest(n)) /\ UNCHANGED air
    /\ UNCHANGED <<window, table>>

\* A timer before pairEnd belongs to an earlier window.
Expired(n) == left[n] = 0

RunCancel(n) ==
    /\ Due(n) /\ Head(jobs[n][0]).kind = "cancel"
    /\ IF Expired(n) THEN StopPairing(n, {}) ELSE UNCHANGED <<window, table>>
    /\ Ran(n, Rest(n)) /\ UNCHANGED air

RunAck(n) ==
    /\ Due(n) /\ Head(jobs[n][0]).kind = "ack"
    /\ air' = air \cup Unicast(n, Head(jobs[n][0]).to, "ack")
    /\ Ran(n, Rest(n)) /\ UNCHANGED <<window, table>>

\* The join reply is repeated; only a host, never a node, acts on it.
RunJoin(n) ==
    /\ Due(n) /\ Head(jobs[n][0]).kind = "join"
    /\ Ran(n, Rest(n)) /\ UNCHANGED <<window, table, air>>

RunJob(n) == RunLoop(n) \/ RunCancel(n) \/ RunAck(n) \/ RunJoin(n)

\* A deadline comes a tick nearer; one that has passed stays passed.
Down(t) == IF t = 0 THEN 0 ELSE t - 1

\* Time passes.  What was due and has not run stays ahead of what becomes due,
\* and a frame that nobody took is gone.
Tick ==
    /\ Ready
    /\ jobs' = [n \in Nodes |-> [d \in Ahead |->
                   IF d = 0 THEN jobs[n][0] \o jobs[n][1]
                   ELSE IF d = Window THEN <<>> ELSE jobs[n][d + 1]]]
    /\ left' = [n \in Nodes |-> Down(left[n])]
    /\ recent' = [n \in Nodes |-> [m \in MACs |-> Down(recent[n][m])]]
    /\ air' = {[m EXCEPT !.ttl = @ - 1] : m \in {f \in air : f.ttl > 0}}
    /\ UNCHANGED <<off, pairing, bondMAC, tempBond, peers, polling, outbox, group>>

----------------------------------------------------------------------------
(* Receive *)

\* Mutant: the owned list is not asked.
Arrives_Slip(n, m) == Awake(n) /\ m.dst = n

\* Receive drops what is not for this node or not from an owned Totem.
Arrives(n, m) == Awake(n) /\ m.dst = n /\ m.src \in Owned[n]

\* A bond request next to a node with AutoPair opens its window first.
AutoStart(n, m) ==
    /\ ~pairing[n] /\ n \in AutoPair /\ m.cmd = "ask" /\ Room(n)

\* onBond, near enough, sees these once the window is known to be open.
Partner(n) == IF pairing[n] THEN bondMAC[n] ELSE None
Half(n) == IF pairing[n] THEN tempBond[n] ELSE None
Known(n, m) == m.src \in peers[n] /\ Half(n) # m.src

InWindow(n, m) ==
    /\ Arrives(n, m) /\ m.cmd \in {"ask", "ack"}
    /\ pairing[n] \/ AutoStart(n, m)

\* The jobs and the frames of the automatic start, if there was one.
Pending(n, gap) == IF pairing[n] THEN jobs[n] ELSE Started(jobs[n], gap)
Opening(n) == IF pairing[n] THEN {} ELSE Ask(n)

\* "Both devices already bonded": answer with the burst and stop.
AlreadyBonded(n, m) == Known(n, m) /\ Partner(n) = None /\ recent[n][m.src] > 0

OnBondAlready(n, m) ==
    /\ InWindow(n, m) /\ AlreadyBonded(n, m)
    /\ pairing' = [pairing EXCEPT ![n] = FALSE]
    /\ bondMAC' = [bondMAC EXCEPT ![n] = None]
    /\ tempBond' = [tempBond EXCEPT ![n] = None]
    /\ left' = [left EXCEPT ![n] = IF pairing[n] THEN @ ELSE Window]
    /\ Delete(n, {Half(n)})
    /\ \E gap \in LoopMin..LoopMax :
          jobs' = [jobs EXCEPT ![n] = BurstJobs(Pending(n, gap), m.src)]
    /\ Bounded(n)
    /\ air' = (air \ {m}) \cup Opening(n) \cup Unicast(n, m.src, "ack")
    /\ UNCHANGED <<off, polling, outbox, group>>

\* A sender that is not a peer becomes one, provisionally, if the window has
\* no partner; a known one becomes the partner without being provisional.
Registers(n, m) == Partner(n) = None /\ ~Known(n, m)
Chosen(n, m) == IF Partner(n) = None THEN m.src ELSE Partner(n)

\* Only the chosen partner's ack makes the bond final.
Confirms(n, m) == m.cmd = "ack" /\ Chosen(n, m) = m.src

OnBondHandshake(n, m) ==
    /\ InWindow(n, m) /\ ~AlreadyBonded(n, m)
    /\ pairing' = [pairing EXCEPT ![n] = TRUE]
    /\ bondMAC' = [bondMAC EXCEPT ![n] = Chosen(n, m)]
    /\ tempBond' = [tempBond EXCEPT ![n] =
                       IF Confirms(n, m) THEN None
                       ELSE IF Registers(n, m) THEN m.src ELSE Half(n)]
    /\ left' = [left EXCEPT ![n] = IF pairing[n] THEN @ ELSE Window]
    /\ peers' = [peers EXCEPT ![n] = IF Registers(n, m) THEN @ \cup {m.src} ELSE @]
    /\ recent' = [recent EXCEPT ![n][m.src] = IF m.src \in peers'[n] THEN Recent ELSE @]
    /\ \E gap \in LoopMin..LoopMax : jobs' = [jobs EXCEPT ![n] = Pending(n, gap)]
    /\ Bounded(n)
    /\ air' = (air \ {m}) \cup Opening(n)
    /\ UNCHANGED <<off, polling, outbox, group>>

\* Mutant: only a peer's status counts, nothing is restored.
Restores_Peer(n, m) == m.src \in peers[n]

\* A status unicast to us restores a bond its sender still holds.
Restores(n, m) == m.src \in peers[n] \/ Room(n)

OnStatus(n, m) ==
    /\ Arrives(n, m) /\ m.cmd = "status" /\ Restores(n, m)
    /\ peers' = [peers EXCEPT ![n] = @ \cup {m.src}]
    /\ recent' = [recent EXCEPT ![n][m.src] = Recent]
    /\ air' = air \ {m}
    /\ UNCHANGED <<off, window, jobs, polling, outbox, group>>

\* A frame is lost, or arrives and changes nothing: the node is off, the
\* sender is not owned or too far to bond, the window is closed, the bond
\* list is full, or the frame is an unbond notice, which receivers ignore.
Lose(m) ==
    /\ Ready /\ m \in air /\ air' = air \ {m}
    /\ UNCHANGED <<off, window, table, jobs, polling, outbox, group>>

\* A locate frame of a peer came in over the mesh: the peer was heard.
OnLocate(n, mac) ==
    /\ "locate" \in Ops /\ Awake(n) /\ mac \in peers[n]
    /\ recent' = [recent EXCEPT ![n][mac] = Recent]
    /\ UNCHANGED <<off, window, peers, jobs, polling, outbox, group, air>>

----------------------------------------------------------------------------
(* Smart Group frames, from a host this node owns.  Only Totems host. *)

Hosted(n) == Awake(n) /\ Totems \cap Owned[n] # {}

\* The advertisement lists this node: it has joined.
GroupJoined(n, g) ==
    /\ Hosted(n) /\ group[n] = None /\ pairing[n]
    /\ group' = [group EXCEPT ![n] = g]
    /\ UNCHANGED <<off, window, table, jobs, polling, outbox, air>>

\* It does not: ask to join, twice.
GroupAsk(n) ==
    /\ Hosted(n) /\ group[n] = None /\ pairing[n]
    /\ jobs' = [jobs EXCEPT ![n] = At(@, JoinGap, Join)]
    /\ Bounded(n)
    /\ UNCHANGED <<off, window, table, polling, outbox, group, air>>

\* SmartGroupAbandon, or the group's time is over at a radio window.
GroupLeft(n) ==
    /\ Awake(n) /\ group[n] # None
    /\ group' = [group EXCEPT ![n] = None]
    /\ UNCHANGED <<off, window, table, jobs, polling, outbox, air>>

\* Mutant: the window goes on, and its end deletes what it had half-made.
GroupEnds_Slip(n) == UNCHANGED window

\* The group is the bonding: a window still open ends here.
GroupEnds(n) == IF pairing[n] THEN Close(n) ELSE UNCHANGED window

\* SmartGroupFinalize: every peer is deleted, and the owned members are added
\* in the host's order until the list is full.
GroupFinalize(n, kept) ==
    /\ Hosted(n) /\ group[n] # None
    /\ group' = [group EXCEPT ![n] = None]
    /\ GroupEnds(n)
    /\ kept \subseteq Owned[n] /\ Cardinality(kept) <= MaxBonds
    /\ peers' = [peers EXCEPT ![n] = kept]
    /\ recent' = [recent EXCEPT ![n] = [m \in MACs |-> 0]]
    /\ UNCHANGED <<off, jobs, polling, outbox, air>>

----------------------------------------------------------------------------
(* The radio window, and what the person holding the device does *)

\* sendOutbox: a status to every peer and the notices owed, not while pairing.
RadioWindow(n) ==
    /\ Awake(n) /\ ~pairing[n] /\ peers[n] \cup outbox[n] # {}
    /\ air' = air \cup Send(n, peers[n] \cap Owned[n], "status")
                  \cup Send(n, outbox[n] \cap Owned[n], "unbond")
    /\ outbox' = [outbox EXCEPT ![n] = {}]
    /\ UNCHANGED <<off, window, table, jobs, polling, group>>

Unbond(n, mac) ==
    /\ "unbond" \in Ops /\ Awake(n) /\ mac \in peers[n]
    /\ outbox' = [outbox EXCEPT ![n] = @ \cup {mac}]
    /\ Delete(n, {mac})
    /\ UNCHANGED <<off, window, jobs, polling, group, air>>

\* FactoryReset: the window first, then every bond.
FactoryReset(n) ==
    /\ "reset" \in Ops /\ Ready
    /\ StopPairing(n, MACs)
    /\ UNCHANGED <<off, jobs, polling, outbox, group, air>>

PowerOffStops(n) == StopPairing(n, {})

\* PowerOff: the window, the jobs and the outbox go; the group does not.
PowerOff(n) ==
    /\ "power" \in Ops /\ Awake(n)
    /\ PowerOffStops(n)
    /\ off' = [off EXCEPT ![n] = TRUE]
    /\ jobs' = [jobs EXCEPT ![n] = Empty]
    /\ outbox' = [outbox EXCEPT ![n] = {}]
    /\ UNCHANGED <<polling, group, air>>

PowerOn(n) ==
    /\ "power" \in Ops /\ Ready /\ off[n]
    /\ off' = [off EXCEPT ![n] = FALSE]
    /\ UNCHANGED <<window, table, jobs, polling, outbox, group, air>>

\* AddBond: one bond of a saved record is put back.
AddBond(n, mac) ==
    /\ "restore" \in Ops /\ Ready
    /\ mac \in Owned[n] \ peers[n] /\ Room(n)
    /\ peers' = [peers EXCEPT ![n] = @ \cup {mac}]
    /\ UNCHANGED <<off, window, recent, jobs, polling, outbox, group, air>>

\* The device restarts, from a saved list of bonds read through the limit.
Boot(n, list) ==
    /\ "boot" \in Ops /\ polling \in {None, n}
    /\ list \subseteq Owned[n] /\ Cardinality(list) <= MaxBonds
    /\ off' = [off EXCEPT ![n] = FALSE]
    /\ pairing' = [pairing EXCEPT ![n] = FALSE]
    /\ bondMAC' = [bondMAC EXCEPT ![n] = None]
    /\ tempBond' = [tempBond EXCEPT ![n] = None]
    /\ left' = [left EXCEPT ![n] = 0]
    /\ peers' = [peers EXCEPT ![n] = list]
    /\ recent' = [recent EXCEPT ![n] = [m \in MACs |-> 0]]
    /\ jobs' = [jobs EXCEPT ![n] = Empty]
    /\ polling' = None
    /\ outbox' = [outbox EXCEPT ![n] = {}]
    /\ group' = [group EXCEPT ![n] = None]
    /\ UNCHANGED air

----------------------------------------------------------------------------

\* A node starts with what its flash held.
Init ==
    /\ off = [n \in Nodes |-> FALSE]
    /\ pairing = [n \in Nodes |-> FALSE]
    /\ bondMAC = [n \in Nodes |-> None]
    /\ tempBond = [n \in Nodes |-> None]
    /\ left = [n \in Nodes |-> 0]
    /\ peers \in [Nodes -> SUBSET MACs]
    /\ \A n \in Nodes : peers[n] \subseteq Owned[n] /\ Cardinality(peers[n]) <= MaxBonds
    /\ recent = [n \in Nodes |-> [m \in MACs |-> 0]]
    /\ jobs = [n \in Nodes |-> Empty]
    /\ polling = None
    /\ outbox = [n \in Nodes |-> {}]
    /\ group = [n \in Nodes |-> None]
    /\ air = {}

\* A frame of a node comes off the air; a Totem outside the model may send any.
Receive(n) ==
    \E m \in air \cup Strays : OnBondAlready(n, m) \/ OnBondHandshake(n, m) \/ OnStatus(n, m)

SmartGroup(n) ==
    \/ \E g \in Groups : GroupJoined(n, g)
    \/ GroupAsk(n) \/ GroupLeft(n)
    \/ \E kept \in SUBSET Owned[n] : GroupFinalize(n, kept)

Use(n) ==
    \/ Pair(n) \/ FactoryReset(n) \/ PowerOff(n) \/ PowerOn(n)
    \/ \E mac \in MACs : Unbond(n, mac) \/ AddBond(n, mac) \/ OnLocate(n, mac)
    \/ \E list \in SUBSET Owned[n] : Boot(n, list)

Next ==
    \/ Tick
    \/ \E m \in air : Lose(m)
    \/ \E n \in Nodes : RunJob(n) \/ Receive(n) \/ SmartGroup(n) \/ RadioWindow(n) \/ Use(n)

Spec == Init /\ [][Next]_vars

\* Time passes, and every main loop comes round to a job that is due (a Poll
\* of another node holds it up in the model only, hence strong fairness).
Running == WF_vars(Tick) /\ \A n \in Nodes : SF_vars(RunJob(n))

FairSpec == Spec /\ Running

\* Of the status frames a peer goes on sending, not every one is lost.
Delivers(n, src) == \E m \in air : m.src = src /\ OnStatus(n, m)
RadioSpec ==
    /\ FairSpec
    /\ \A n \in Nodes : SF_vars(RadioWindow(n)) /\ \A p \in Nodes \ {n} : SF_vars(Delivers(n, p))

----------------------------------------------------------------------------
(* Properties *)

\* A provisional bond exists only inside an open window, whose partner it is,
\* and no partner outlives the window (startPairing, stopPairing, onBond): so
\* closing the window always finds what it has to roll back.
HalfBond ==
    \A n \in Nodes :
        /\ tempBond[n] # None => pairing[n] /\ bondMAC[n] = tempBond[n]
        /\ bondMAC[n] # None => pairing[n]

\* While a window is open, a cancel timer is pending exactly at its pairEnd:
\* timers of earlier windows, which cancelPairing ignores, never stand in for
\* it, and neither power nor a reset takes it away and leaves the window open.
EndArmed ==
    \A n \in Nodes : pairing[n] =>
        \E i \in DOMAIN jobs[n][left[n]] : jobs[n][left[n]][i] = Cancel

\* The bond list may hold one more than maxBonds: a window that opened with room
\* for one bond adds it after status frames have restored another (onBond does
\* not look at the limit again), but no window and no frame adds a second one.
OneOver == \A n \in Nodes : Cardinality(peers[n]) <= MaxBonds + 1

\* A device that is off has no window, no job and no notice left to send.
OffQuiet ==
    \A n \in Nodes : off[n] => ~pairing[n] /\ jobs[n] = Empty /\ outbox[n] = {}

\* Only owned Totems are ever bonded, whatever the frames and the group say.
OwnedOnly == \A n \in Nodes : peers[n] \cup outbox[n] \subseteq Owned[n]

\* A bond only one side holds - an ack lost with the window's end, a reboot
\* with an older list - is either given up or restored on the other side by
\* the holder's status frames (onPeer, "restoring bond the peer still holds").
Heals ==
    \A a \in Nodes : \A b \in Nodes \ {a} : b \in peers[a] ~> a \in peers[b] \/ b \notin peers[a]

\* When a window ends, however it ends, a bond that never got its ack is gone
\* (cancelPairing), unless the list of a group or of a saved record has it.
Listed(n) ==
    \/ \E kept \in SUBSET Owned[n] : GroupFinalize(n, kept)
    \/ \E list \in SUBSET Owned[n] : Boot(n, list)
RolledBack ==
    [][\A n \in Nodes :
         pairing[n] /\ ~pairing'[n] /\ tempBond[n] \in peers'[n] => Listed(n)]_vars

\* The bonds that no window will take back.
Firm(n) == peers[n] \ {tempBond[n]}

\* The partner's ack has come.
Acked(n) == \E m \in air \cup Strays : Confirms(n, m) /\ OnBondHandshake(n, m)

\* The person deletes bonds.
LetGo(n) == FactoryReset(n) \/ \E mac \in MACs : Unbond(n, mac)

\* A bond that is final stays so, whatever window opens or ends, until the person
\* deletes it or a list replaces them all; and after an ack, a group or a restart
\* every bond is final: the window that was open then takes none of them along
\* when it ends (stopPairing after onSmartGroup, node.go:1858-1868).
FirmKept ==
    [][\A n \in Nodes :
         /\ Firm(n) \subseteq Firm(n)' \/ Listed(n) \/ LetGo(n)
         /\ Listed(n) \/ Acked(n) => Firm(n)' = peers'[n]]_vars
=============================================================================
