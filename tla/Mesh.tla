------------------------------ MODULE Mesh ------------------------------
(***************************************************************************)
(* Locate frames over the mesh: who asks, who answers, who relays, and     *)
(* what a node remembers so that a flood ends.  With it go the clock a     *)
(* node adopts and the two chains of jobs that send its frames.  A frame   *)
(* stays in the air: it may be heard late, twice, out of order or never (a *)
(* node without a fix does not act on one).  Status frames reach a peer or *)
(* are lost, at any moment.                                                *)
(***************************************************************************)
EXTENDS Integers, FiniteSets

CONSTANTS
    Nodes,        \* Totems bonded to each other
    Kits,         \* sets of things that may happen; a behaviour has one
    Yields,       \* <<n, p>>: n and p share a mesh group and p's MAC is higher
    Stranger,     \* a Totem of somebody else
    Offsets,      \* clock offsets of GNSS and console clocks
    Clocks,       \* the clocks the nodes may start with
    MaxUids,      \* locate frames started, strangers' included
    MaxNow,       \* length of a behaviour
    Lifetime,     \* mesh.LocateLifetimeSec
    DedupeMin,
    DedupeMax,
    RepeatMax,    \* meshRepeatMax
    ReplyHold,    \* meshReplyHold
    SyncDelay,    \* rtcSyncDelay
    RecentMax,
    SendFreq,     \* meshSendFreq
    StaleHeard,   \* meshStaleHeard
    StaleAfter,   \* age at which a peer's position is stale
    Delivery,     \* meshDelivery at the distance of the peers
    PeerLimit,    \* meshPeerLimit
    AckLimit,     \* meshAckLimit
    NoAckLimit,   \* meshNoAckLimit
    MaxHops,
    Bursts,       \* noSatBursts
    RelayUnowned  \* Config.RelayUnowned

ASSUME BoundsAssumption ==
    /\ {MaxUids, MaxNow, Lifetime, DedupeMin, DedupeMax, RepeatMax, RecentMax, MaxHops, Bursts}
          \subseteq Nat \ {0}
    /\ MaxUids > 1     \* a question and its answer
    /\ {ReplyHold, SyncDelay, AckLimit, NoAckLimit, StaleHeard, StaleAfter, PeerLimit} \subseteq Nat
    /\ {SendFreq, Delivery} \subseteq Nat \ {0}
    /\ Yields \subseteq Nodes \X Nodes
    /\ Kits \subseteq SUBSET {"foreign", "crowd", "seek", "status", "clock", "power"}
    /\ RelayUnowned \in BOOLEAN
    /\ Stranger \notin Nodes /\ Offsets \subseteq Nat /\ Clocks \subseteq [Nodes -> Offsets]

\* What keeps a repeated reply from being relayed twice: 15 s against 10 s,
\* and a table that outlives every frame.
ASSUME DedupeAssumption ==
    /\ RepeatMax <= DedupeMin
    /\ \A o, p \in Offsets : Lifetime + DedupeMin + o - p <= DedupeMax

\* Where clocks are set while strangers' frames are about, two clocks differ
\* by at most half of what DedupeMin has to spare: two whole seconds.
ASSUME JumpAssumption ==
    \A k \in Kits, o, p \in Offsets :
        {"foreign", "clock"} \subseteq k => RepeatMax + 2 * (o - p) <= DedupeMin

Uids == 1 .. MaxUids
None == -1

VARIABLES
    kit,
    now,
    air,       \* every frame sent
    uids,      \* UIDs drawn so far
    off,       \* the node is powered down
    clock,     \* its clock's offset, None without one
    gnss,      \* gnssClock: the clock is its own, not borrowed
    win,       \* jobs that run window1
    burst,     \* bursts still to come in a window without a clock
    tick,      \* jobs that run meshTick
    recent,    \* when each UID is forgotten; 0 is not known
    outbox,    \* the request queued for the next window, if any
    reply,     \* replyUID, replyAt and lastReply
    asked,     \* originUID
    peer,      \* what a node knows of each peer
    pace,      \* when a peer last made the node ask
    acks, noacks,
    relays,    \* how often the node relayed each UID: never, once, more
    sends,     \* how often the author of a UID sent it
    evicted    \* UIDs dropped from a full table before their time

sched == <<win, burst, tick>>
clocks == <<clock, gnss>>
seeking == <<peer, pace>>
memory == <<recent, evicted>>
budget == <<acks, noacks>>
vars == <<kit, now, air, uids, off, clocks, sched, memory, outbox, reply, asked, seeking, budget, relays, sends>>

Frame == [uid : Uids, origin : Nodes \cup {Stranger}, src : Nodes \cup {Stranger},
          exp : Int, hops : 0 .. MaxHops, req : BOOLEAN]

\* heard and coords say when, None for never.
Peer == [via : BOOLEAN, stale : BOOLEAN, heard : None .. MaxNow, coords : None .. MaxNow,
         first : 0 .. MaxNow, next : 0 .. MaxNow + SendFreq + Delivery, count : 0 .. MaxUids]

TypeOK ==
    /\ now \in 0 .. MaxNow /\ uids \in 0 .. MaxUids
    /\ \A f \in air : f \in Frame
    /\ kit \in Kits /\ off \in [Nodes -> BOOLEAN]
    /\ clock \in [Nodes -> Offsets \cup {None}] /\ gnss \in [Nodes -> BOOLEAN]
    /\ peer \in [Nodes -> [Nodes -> Peer]] /\ pace \in [Nodes -> [Nodes -> None .. MaxNow]]
    /\ win \in [Nodes -> 0 .. 2] /\ tick \in [Nodes -> 0 .. 2] /\ burst \in [Nodes -> 0 .. Bursts]
    /\ recent \in [Nodes -> [Uids -> 0 .. MaxNow + DedupeMax]]
    /\ \A n \in Nodes : \A f \in outbox[n] : f \in Frame
    /\ reply \in [Nodes -> [uid : 0 .. MaxUids, at : None .. MaxNow, last : None .. MaxNow]]
    /\ asked \in [Nodes -> 0 .. MaxUids]
    /\ acks \in [Nodes -> 0 .. AckLimit] /\ noacks \in [Nodes -> 0 .. NoAckLimit]
    /\ relays \in [Nodes -> [Uids -> 0 .. 2]] /\ sends \in [Uids -> 0 .. 3]
    /\ evicted \in [Nodes -> SUBSET Uids]

\* Without clocks to set, the nodes have theirs from GNSS already.
Init ==
    /\ kit \in Kits
    /\ now = 0 /\ air = {} /\ uids = 0
    /\ off = [n \in Nodes |-> FALSE]
    /\ IF "clock" \in kit THEN clock = [n \in Nodes |-> None] ELSE clock \in Clocks
    /\ gnss = [n \in Nodes |-> "clock" \notin kit]
    /\ win = [n \in Nodes |-> 1] /\ burst = [n \in Nodes |-> 0]
    /\ tick = [n \in Nodes |-> IF "clock" \in kit THEN 0 ELSE 1]
    /\ recent = [n \in Nodes |-> [u \in Uids |-> 0]] /\ evicted = [n \in Nodes |-> {}]
    /\ outbox = [n \in Nodes |-> {}] /\ asked = [n \in Nodes |-> 0]
    /\ peer = [n \in Nodes |-> [p \in Nodes |-> [via |-> FALSE, stale |-> FALSE, heard |-> None,
                                 coords |-> None, first |-> 0, next |-> 0, count |-> 0]]]
    /\ pace = [n \in Nodes |-> [p \in Nodes |-> None]]
    /\ reply = [n \in Nodes |-> [uid |-> 0, at |-> None, last |-> None]]
    /\ acks = [n \in Nodes |-> 0] /\ noacks = [n \in Nodes |-> 0]
    /\ relays = [n \in Nodes |-> [u \in Uids |-> 0]] /\ sends = [u \in Uids |-> 0]

PassTime ==
    /\ now < MaxNow /\ now' = now + 1
    /\ UNCHANGED <<kit, air, uids, off, clocks, sched, memory, outbox, reply, asked, seeking, budget, relays, sends>>

\* Frames started in a behaviour: one to relay back and forth, a question and
\* its answer, or enough to fill the table or to ask again.
Quota == IF kit = {"foreign"} THEN 1 ELSE IF "status" \in kit THEN 2 ELSE MaxUids

Wall(n) == now + clock[n]

Locate(n, u, request) ==
    [uid |-> u, origin |-> n, src |-> n, exp |-> Wall(n) + Lifetime, hops |-> 0, req |-> request]

-----------------------------------------------------------------------------
(* The clock and the chains of jobs. *)

\* Mutant: a device that is off is armed too.
StartAligned_WhenOff(n) ==
    /\ win' = [win EXCEPT ![n] = 1] /\ tick' = [tick EXCEPT ![n] = 1]
    /\ burst' = [burst EXCEPT ![n] = 0]

\* startAligned, on a device that is on: what repeats is armed anew.
StartAligned(n) ==
    IF off[n] THEN UNCHANGED sched
    ELSE /\ win' = [win EXCEPT ![n] = 1] /\ tick' = [tick EXCEPT ![n] = 1]
         /\ burst' = [burst EXCEPT ![n] = 0]

TakesClock(n, o, own) ==
    /\ clock' = [clock EXCEPT ![n] = o] /\ gnss' = [gnss EXCEPT ![n] = own]
    /\ StartAligned(n)

\* read with a fix whose clock is usable: aligned once, kept in step after.
ReadClock(n, o) ==
    /\ "clock" \in kit
    /\ IF gnss[n] THEN clock' = [clock EXCEPT ![n] = o] /\ UNCHANGED <<gnss, sched>>
       ELSE TakesClock(n, o, TRUE)
    /\ UNCHANGED <<kit, now, air, uids, off, memory, outbox, reply, asked, seeking, budget, relays, sends>>

\* The console's clock passes for the receiver's.
SetClock(n, o) ==
    /\ "clock" \in kit
    /\ TakesClock(n, o, TRUE)
    /\ UNCHANGED <<kit, now, air, uids, off, memory, outbox, reply, asked, seeking, budget, relays, sends>>

\* adoptClock: only a clock the peer has from GNSS, and not right after boot.
Adopts(n, p) == clock[n] = None /\ gnss[p] /\ now >= SyncDelay

HeardFrom(n, p, mesh, carried) ==
    peer' = [peer EXCEPT ![n][p].via = mesh, ![n][p].stale = FALSE, ![n][p].heard = now,
                         ![n][p].coords = IF carried THEN now ELSE @]

\* onPeer with a status frame, which may carry a position or not.
OnStatus(n, p, carried) ==
    /\ "status" \in kit
    /\ ~off[n] /\ p # n /\ ~off[p]
    /\ IF Adopts(n, p) THEN TakesClock(n, clock[p], FALSE) ELSE UNCHANGED <<clocks, sched>>
    /\ HeardFrom(n, p, FALSE, carried)
    /\ UNCHANGED <<kit, now, air, uids, off, memory, outbox, reply, asked, pace, budget, relays, sends>>

PowerOff(n) ==
    /\ "power" \in kit /\ ~off[n] /\ off' = [off EXCEPT ![n] = TRUE]
    /\ win' = [win EXCEPT ![n] = 0] /\ tick' = [tick EXCEPT ![n] = 0]
    /\ burst' = [burst EXCEPT ![n] = 0]
    /\ outbox' = [outbox EXCEPT ![n] = {}]
    /\ reply' = [reply EXCEPT ![n].uid = 0, ![n].at = None]
    /\ asked' = [asked EXCEPT ![n] = 0]
    /\ UNCHANGED <<kit, now, air, uids, clocks, memory, seeking, budget, relays, sends>>

PowerOn(n) ==
    /\ off[n] /\ off' = [off EXCEPT ![n] = FALSE]
    /\ win' = [win EXCEPT ![n] = IF @ + burst[n] = 0 THEN 1 ELSE @]
    /\ tick' = [tick EXCEPT ![n] = IF clock[n] # None /\ @ = 0 THEN 1 ELSE @]
    /\ UNCHANGED <<kit, now, air, uids, clocks, burst, memory, outbox, reply, asked, seeking, budget, relays, sends>>

-----------------------------------------------------------------------------
(* What a window sends. *)

Once(u) == sends[u] + 1

\* Which second it is and whether the node is pairing, where it has anything
\* of its own to send.
Moments == IF "seek" \in kit THEN BOOLEAN ELSE {FALSE}

\* sendOutbox: the queued request, then one repeat of the last reply in a
\* window whose second is a multiple of four.  While pairing nothing is sent.
SendOutbox(n, four) ==
    LET r == reply[n]
        repeats == r.at # None /\ clock[n] # None /\ four /\ now - r.at < RepeatMax
        again == IF repeats THEN {Locate(n, r.uid, FALSE)} ELSE {}
        spent == (clock[n] # None /\ four) \/ now - r.at >= RepeatMax
    IN  /\ air' = air \cup outbox[n] \cup again
        /\ outbox' = [outbox EXCEPT ![n] = {}]
        /\ reply' = [reply EXCEPT ![n].at = IF spent THEN None ELSE @]
        /\ sends' = [u \in Uids |-> IF \E f \in outbox[n] \cup again : f.uid = u THEN Once(u) ELSE sends[u]]

Transmits(n, four, pairing) ==
    IF pairing THEN UNCHANGED <<air, outbox, reply, sends>> ELSE SendOutbox(n, four)

\* window1: with a clock the next slot; without one a first burst, and the
\* window after it.  The bursts of a window end before the next one.
Window(n, four, pairing) ==
    /\ win[n] > 0 /\ burst[n] = 0
    /\ acks' = [acks EXCEPT ![n] = 0] /\ noacks' = [noacks EXCEPT ![n] = 0]
    /\ Transmits(n, four, pairing)
    /\ \E b \in 0 .. Bursts - 1 :
          burst' = [burst EXCEPT ![n] = IF clock[n] = None THEN b ELSE 0]
    /\ UNCHANGED <<kit, now, uids, off, clocks, win, tick, memory, asked, seeking, relays>>

Burst(n, four, pairing) ==
    /\ burst[n] > 0 /\ burst' = [burst EXCEPT ![n] = @ - 1]
    /\ Transmits(n, four, pairing)
    /\ UNCHANGED <<kit, now, uids, off, clocks, win, tick, memory, asked, seeking, budget, relays>>

\* updateStale.
Aged(q) ==
    LET old == q.coords = None \/ now - q.coords > StaleAfter
    IN  [q EXCEPT !.stale = old, !.first = IF old /\ ~q.stale THEN now ELSE @]

Due(q) == now >= q.next /\ q.count <= PeerLimit

\* Mutant: the throttle is written but not read on this path.
QuietOverMesh_Eager(q) == q.via /\ now - q.heard >= StaleHeard /\ q.count <= PeerLimit

\* A peer heard over the mesh only, and quiet since.
QuietOverMesh(q) == q.via /\ now - q.heard >= StaleHeard /\ Due(q)

\* A stale peer of the node's own group is left time to ask first.
Waits(n, p, q) == q.stale /\ Due(q) /\ <<n, p>> \in Yields /\ now - q.first < Delivery

Lost(n, p, q) == q.stale /\ Due(q) /\ ~Waits(n, p, q)

\* meshTick in this node's slot, with a fix, and no request queued.
MeshTick(n) ==
    LET q == [p \in Nodes |-> IF p = n THEN peer[n][p] ELSE Aged(peer[n][p])]
        quiet == {p \in Nodes \ {n} : QuietOverMesh(q[p])}
        wanted == quiet \cup {p \in Nodes \ {n} : Lost(n, p, q[p])}
        asks == wanted # {}
    IN  /\ "seek" \in kit /\ tick[n] > 0 /\ outbox[n] = {} /\ uids < Quota
        /\ peer' = [peer EXCEPT ![n] = [p \in Nodes |->
              IF asks /\ p # n /\ (q[p].stale \/ p \in quiet)
              THEN [q[p] EXCEPT !.next = now + SendFreq, !.count = @ + 1]
              ELSE IF p # n /\ Waits(n, p, q[p]) THEN [q[p] EXCEPT !.next = now + Delivery]
              ELSE q[p]]]
        /\ pace' = [pace EXCEPT ![n] = [p \in Nodes |-> IF p \in wanted THEN now ELSE @[p]]]
        /\ uids' = IF asks THEN uids + 1 ELSE uids
        /\ outbox' = [outbox EXCEPT ![n] = IF asks THEN {Locate(n, uids', TRUE)} ELSE {}]
        /\ asked' = [asked EXCEPT ![n] = IF asks THEN uids' ELSE @]
        /\ UNCHANGED <<kit, now, air, off, clocks, sched, memory, reply, budget, relays, sends>>

\* A Totem of somebody else starts a frame; those of a crowd come from far
\* away, on their last hop.
Foreign(request) ==
    /\ "foreign" \in kit /\ uids < Quota
    /\ "crowd" \in kit => request
    /\ uids' = uids + 1
    /\ air' = air \cup {[uid |-> uids', origin |-> Stranger, src |-> Stranger,
                         exp |-> now + Lifetime, req |-> request,
                         hops |-> IF "crowd" \in kit THEN MaxHops - 1 ELSE 0]}
    /\ UNCHANGED <<kit, now, off, clocks, sched, memory, outbox, reply, asked, seeking, budget, relays, sends>>

\* It repeats a reply as our nodes do: the same UID, a fresh expiry.
ForeignAgain(f) ==
    /\ "crowd" \notin kit /\ f.src = Stranger /\ ~f.req /\ now - (f.exp - Lifetime) < RepeatMax
    /\ air' = air \cup {[f EXCEPT !.exp = now + Lifetime]}
    /\ \A g \in air : g.src = Stranger /\ g.uid = f.uid => g = f
    /\ UNCHANGED <<kit, now, uids, off, clocks, sched, memory, outbox, reply, asked, seeking, budget, relays, sends>>

-----------------------------------------------------------------------------
(* onLocate. *)

Seen(n, u) == recent[n][u] > now

\* Mutant: remembered only as long as the frame says it lives.
Clamp_Bare(k) == IF k < DedupeMin THEN 0 ELSE IF k > DedupeMax THEN DedupeMax ELSE k - DedupeMin

Clamp(k) == IF k < DedupeMin THEN DedupeMin ELSE IF k > DedupeMax THEN DedupeMax ELSE k

Known(t) == {u \in Uids : t[u] # 0}

\* A full table loses what has lapsed; still full, the entry that lapses first.
Pruned(t) ==
    IF Cardinality(Known(t)) < RecentMax THEN t
    ELSE [u \in Uids |-> IF t[u] <= now THEN 0 ELSE t[u]]

\* Mutant: the newest entry makes room.
Oldest_Newest(t) == CHOOSE u \in Known(t) : \A v \in Known(t) : t[u] >= t[v]

Oldest(t) == CHOOSE u \in Known(t) : \A v \in Known(t) : t[u] <= t[v]

Evicts(t) == IF Cardinality(Known(t)) < RecentMax THEN {} ELSE {Oldest(t)}

AddRecent(n, f) ==
    LET t == Pruned(recent[n])
    IN  /\ recent' = [recent EXCEPT ![n] =
                        [u \in Uids |-> IF u = f.uid THEN now + Clamp(f.exp - Wall(n) + DedupeMin)
                                        ELSE IF u \in Evicts(t) THEN 0 ELSE t[u]]]
        /\ evicted' = [evicted EXCEPT ![n] = @ \cup Evicts(t)]

CanRelay(n, f) == f.hops + 1 < MaxHops /\ f.exp > 0 /\ Wall(n) <= f.exp

Relayed(n, f) == [f EXCEPT !.hops = @ + 1, !.src = n]

\* relay, unless the last hop is too close: peers that look for each other
\* stand too close together here to carry each other's frames.
Relay(n, f, far) == far /\ "foreign" \in kit /\ CanRelay(n, f)

Hears(n, f) ==
    /\ ~off[n] /\ f \in air /\ f.src # n
    /\ ~Seen(n, f.uid) /\ clock[n] # None
    /\ AddRecent(n, f)

\* Our own frame comes back, or one too weak to act on.
OnLocateEnds(n, f) ==
    /\ Hears(n, f)
    /\ IF f.origin = n
       THEN /\ reply' = [reply EXCEPT ![n].at = IF f.uid = reply[n].uid THEN None ELSE @]
            /\ asked' = [asked EXCEPT ![n] = IF f.uid = @ THEN 0 ELSE @]
       ELSE UNCHANGED <<reply, asked>>
    /\ UNCHANGED <<kit, now, air, uids, off, clocks, sched, outbox, seeking, budget, relays, sends>>

\* A bonded peer's frame: an answer where one is due, then the relay.
OnLocatePeer(n, f, far) ==
    LET r == reply[n]
        p == peer[n][f.origin]
        direct == ~p.via /\ p.heard # None /\ now - p.heard < ReplyHold
        answers == f.req /\ ~direct /\ (r.last = None \/ now - r.last >= ReplyHold) /\ uids < Quota
        carries == f.req /\ acks[n] < AckLimit /\ Relay(n, f, far)
    IN  /\ f.origin \in Nodes \ {n}
        /\ Hears(n, f)
        /\ HeardFrom(n, f.origin, TRUE, TRUE)
        /\ uids' = IF answers THEN uids + 1 ELSE uids
        /\ reply' = IF answers THEN [reply EXCEPT ![n] = [uid |-> uids', at |-> now, last |-> now]]
                    ELSE reply
        /\ sends' = IF answers THEN [sends EXCEPT ![uids'] = @ + 1] ELSE sends
        /\ air' = air \cup (IF answers THEN {Locate(n, uids', FALSE)} ELSE {})
                      \cup (IF carries THEN {Relayed(n, f)} ELSE {})
        /\ acks' = [acks EXCEPT ![n] = IF carries THEN @ + 1 ELSE @]
        /\ relays' = [relays EXCEPT ![n][f.uid] = IF carries /\ @ < 2 THEN @ + 1 ELSE @]
        /\ UNCHANGED <<kit, now, off, clocks, sched, outbox, asked, pace, noacks>>

\* relayStranger: two budgets, the one of requests and the one of replies.
OnLocateStranger(n, f, far) ==
    LET carries == /\ RelayUnowned
                   /\ IF f.req THEN acks[n] < AckLimit ELSE noacks[n] < NoAckLimit
                   /\ Relay(n, f, far)
    IN  /\ f.origin = Stranger
        /\ Hears(n, f)
        /\ air' = air \cup (IF carries THEN {Relayed(n, f)} ELSE {})
        /\ acks' = [acks EXCEPT ![n] = IF carries /\ f.req THEN @ + 1 ELSE @]
        /\ noacks' = [noacks EXCEPT ![n] = IF carries /\ ~f.req THEN @ + 1 ELSE @]
        /\ relays' = [relays EXCEPT ![n][f.uid] = IF carries /\ @ < 2 THEN @ + 1 ELSE @]
        /\ UNCHANGED <<kit, now, uids, off, clocks, sched, outbox, reply, asked, seeking, sends>>

Next ==
    \/ PassTime
    \/ \E request \in BOOLEAN : Foreign(request)
    \/ \E f \in air : ForeignAgain(f)
    \/ \E n \in Nodes :
          \/ \E o \in Offsets : SetClock(n, o)
          \/ \E o \in Offsets : ReadClock(n, o)
          \/ \E p \in Nodes, carried \in BOOLEAN : OnStatus(n, p, carried)
          \/ PowerOff(n) \/ PowerOn(n) \/ MeshTick(n)
          \/ \E four, pairing \in Moments : Window(n, four, pairing) \/ Burst(n, four, pairing)
          \/ \E f \in air :
                \/ OnLocateEnds(n, f)
                \/ \E far \in BOOLEAN : OnLocatePeer(n, f, far)
                \/ \E far \in BOOLEAN : OnLocateStranger(n, f, far)

Spec == Init /\ [][Next]_vars

-----------------------------------------------------------------------------
\* A node relays a frame at most once, however often, late or repeated it
\* comes, unless its UID was pushed out of a full table.
RelayOnce == \A n \in Nodes, u \in Uids : relays[n][u] > 1 => u \in evicted[n]

\* An author sends a UID at most twice: a reply and one repeat of it, never
\* one from before a power cycle.
SentTwice == \A u \in Uids : sends[u] <= 2

\* A node that is on has one chain of windows, and one of mesh ticks once it
\* has a clock; a node that is off has none.
OneChain ==
    \A n \in Nodes :
        /\ win[n] = IF off[n] THEN 0 ELSE 1
        /\ tick[n] = IF off[n] \/ clock[n] = None THEN 0 ELSE 1
        /\ off[n] \/ clock[n] # None => burst[n] = 0

\* One peer makes a node ask the mesh at most once in SendFreq, whether it
\* is stale or was heard over the mesh only and fell silent, and whatever
\* brought it back in between.
AskPaced ==
    [][\A n, p \in Nodes : pace'[n][p] # pace[n][p] /\ pace[n][p] # None =>
         now - pace[n][p] >= SendFreq]_vars

\* The table never grows past its limit, and forgets a frame early only when
\* it is full of frames that will be remembered longer.
Remembered ==
    [][\A n \in Nodes, u \in Uids :
         /\ Cardinality(Known(recent'[n])) <= RecentMax
         /\ recent[n][u] > now /\ recent'[n][u] = 0 =>
               /\ Cardinality(Known(recent'[n])) = RecentMax
               /\ \A v \in Known(recent'[n]) : recent'[n][v] >= recent[n][u] \/ recent[n][v] = 0]_vars

\* A flood stays bounded: every node passes a frame on once, and its author
\* sends it twice (relay, sendOutbox).
FloodBound == TypeOK /\ RelayOnce /\ SentTwice
=============================================================================
