------------------------------ MODULE Ble ------------------------------
(***************************************************************************)
(* The BLE transport of the client: one scan, then one dial after another  *)
(* to the same Totem.  The operating system keeps one connection to a      *)
(* Totem; its calls cannot be cancelled and its callbacks name an address  *)
(* and not a link, so a connect or a disconnect of an earlier dial may     *)
(* arrive while a later one is live.                                       *)
(***************************************************************************)
EXTENDS Naturals, FiniteSets

CONSTANTS
    Platforms,   \* the builds: subset of {"linux", "darwin", "windows"}
    MaxDials,    \* dials made, one after another
    MaxWatched   \* the bound on them where each link has a watcher as well

ASSUME PlatformsAssumption == Platforms \subseteq {"linux", "darwin", "windows"}
ASSUME MaxDialsAssumption == MaxDials \in Nat \ {0} /\ MaxWatched \in Nat \ {0}

Dials == 1 .. MaxDials

VARIABLES
    plat,     \* the build that runs
    os,       \* number of the connection the system holds, 0 for none
    epoch,    \* connections made so far
    cbs,      \* disconnect callbacks not delivered yet
    links,    \* the link registered for the address, 0 for none
    pc,       \* each dial and the link it returns
    conn,     \* the connection its Connect came back with; 0 none yet
    late,     \* the goroutine that waits for the Connect of a cancelled dial
    gone,     \* its Done channel is closed
    closed,   \* the link was given up on purpose
    blind,    \* it was marked though the system could not say whether it is up
    watch,    \* the watcher of the link, on Linux; "off" before and after it
    fails,    \* its failed reads in a row
    cb,       \* the link a callback is about to ask, 0 for none
    scan,     \* "off", "starting", "on", "stopped", "returned"
    stop,     \* the context of the scan is done
    seen,     \* the Totem in this scan: "new", or reported "nameless" or "named"
    found     \* Find has its device

vars == <<plat, os, epoch, cbs, links, pc, conn, late, gone, closed, blind, watch, fails,
          cb, scan, stop, seen, found>>
system == <<os, epoch, cbs>>
scanning == <<scan, stop, seen, found>>
marks == <<gone, closed, blind>>
watcher == <<watch, fails>>
dialling == <<system, links, pc, conn, late, marks, watcher, cb>>

Watched == plat = "linux"
AskConnected == plat # "windows"
Bounded(i) == Watched => i <= MaxWatched

Failed == 3

TypeOK ==
    /\ plat \in Platforms
    /\ os \in 0 .. epoch /\ epoch \in 0 .. MaxDials
    /\ cbs \in 0 .. MaxDials
    /\ links \in {0} \cup Dials
    /\ pc \in [Dials -> {"idle", "connect", "discover", "up", "close", "handle", "drop",
                         "wait", "over"}]
    /\ conn \in [Dials -> 0 .. MaxDials]
    /\ late \in [Dials -> {"none", "wait", "handle", "drop", "end"}]
    /\ gone \in [Dials -> BOOLEAN] /\ closed \in [Dials -> BOOLEAN]
    /\ blind \in [Dials -> BOOLEAN]
    /\ watch \in [Dials -> {"off", "wait", "ask", "handle", "drop", "mark"}]
    /\ fails \in [Dials -> 0 .. Failed]
    /\ cb \in {0} \cup Dials
    /\ scan \in {"off", "starting", "on", "stopped", "returned"}
    /\ stop \in BOOLEAN /\ seen \in {"new", "nameless", "named"} /\ found \in BOOLEAN

Init ==
    /\ plat \in Platforms
    /\ os = 0 /\ epoch = 0 /\ cbs = 0 /\ links = 0 /\ cb = 0
    /\ pc = [i \in Dials |-> "idle"] /\ conn = [i \in Dials |-> 0]
    /\ late = [i \in Dials |-> "none"]
    /\ watch = [i \in Dials |-> "off"] /\ fails = [i \in Dials |-> 0]
    /\ gone = [i \in Dials |-> FALSE] /\ closed = [i \in Dials |-> FALSE]
    /\ blind = [i \in Dials |-> FALSE]
    /\ scan = "off" /\ stop = FALSE /\ seen = "new" /\ found = FALSE

-----------------------------------------------------------------------------
(* Scan and Find. *)

ScanStart ==
    /\ scan = "off" /\ scan' = IF stop THEN "returned" ELSE "starting"
    /\ UNCHANGED <<plat, dialling, stop, seen, found>>

\* The deadline or a Ctrl-C; Find's own cancel is in Advert.
ScanCancel ==
    /\ ~stop /\ stop' = TRUE
    /\ UNCHANGED <<plat, dialling, scan, seen, found>>

\* Mutant: a stop asked for before the scan was registered is lost.
ScanRegister_Forgets ==
    /\ scan = "starting" /\ scan' \in {"on", "returned"} /\ stop' = FALSE
    /\ UNCHANGED <<plat, dialling, seen, found>>

\* adapter.Scan registers the scan, or fails.
ScanRegister ==
    /\ scan = "starting" /\ scan' \in {"on", "returned"}
    /\ UNCHANGED <<plat, dialling, stop, seen, found>>

\* StopScan fails until the scan is registered, and is tried again until then.
ScanStop ==
    /\ stop /\ scan = "on" /\ scan' = "stopped"
    /\ UNCHANGED <<plat, dialling, stop, seen, found>>

ScanReturn ==
    /\ scan = "stopped" /\ scan' = "returned" /\ seen' = "new"
    /\ UNCHANGED <<plat, dialling, stop, found>>

\* first: a device never reported, or reported before its name was known.
First(named) == seen = "new" \/ (seen = "nameless" /\ named)

\* An advertisement of a Totem, with or without its name; CoreBluetooth may
\* still deliver one after the scan has stopped.  The first report that
\* matches ends Find's scan.
Advert(named, matches) ==
    /\ scan \in {"on", "stopped"}
    /\ First(named)
    /\ seen' = IF named THEN "named" ELSE "nameless"
    /\ found' = (found \/ matches) /\ stop' = (stop \/ matches)
    /\ UNCHANGED <<plat, dialling, scan>>

-----------------------------------------------------------------------------
(* The system's side. *)

\* The connection ends: the callback follows, except on BlueZ.
Ends == /\ os' = 0
        /\ cbs' = IF os # 0 /\ ~Watched THEN cbs + 1 ELSE cbs
        /\ UNCHANGED epoch

TotemDrops ==
    /\ os # 0 /\ Ends
    /\ UNCHANGED <<plat, links, pc, conn, late, marks, watcher, cb, scanning>>

\* Connect comes back: it joins the connection there is, or makes one.
Connects(i) ==
    /\ pc[i] = "connect" \/ late[i] = "wait"
    /\ conn[i] = 0
    /\ IF os = 0 THEN os' = epoch + 1 /\ epoch' = epoch + 1 ELSE UNCHANGED <<os, epoch>>
    /\ conn' = [conn EXCEPT ![i] = os']
    /\ UNCHANGED <<plat, cbs, links, pc, late, marks, watcher, cb, scanning>>

\* Disconnect by this process takes whatever connection there is, or fails
\* and leaves it.
Disconnect == Ends \/ UNCHANGED system

\* How a call of Disconnect begins: tinygo's BlueZ backend runs the connect
\* handler before it takes the link down, the others call back afterwards.
Begins == IF Watched THEN "handle" ELSE "drop"

-----------------------------------------------------------------------------
(* dial. *)

\* The next dial comes after the link of the one before is done with.
Dial(i) ==
    /\ scan = "returned" /\ found /\ Bounded(i)
    /\ pc[i] = "idle" /\ \A j \in 1 .. i-1 : pc[j] = "over"
    /\ pc' = [pc EXCEPT ![i] = "connect"]
    /\ UNCHANGED <<plat, system, links, conn, late, marks, watcher, cb, scanning>>

DialFails(i) ==
    /\ pc[i] = "connect" /\ conn[i] = 0
    /\ pc' = [pc EXCEPT ![i] = "over"]
    /\ UNCHANGED <<plat, system, links, conn, late, marks, watcher, cb, scanning>>

\* The context is done first: a goroutine stays behind for the Connect.
DialCanceled(i) ==
    /\ pc[i] = "connect"
    /\ pc' = [pc EXCEPT ![i] = "over"]
    /\ late' = [late EXCEPT ![i] = "wait"]
    /\ UNCHANGED <<plat, system, links, conn, marks, watcher, cb, scanning>>

DialStore(i) ==
    /\ pc[i] = "connect" /\ conn[i] # 0
    /\ links' = i
    /\ pc' = [pc EXCEPT ![i] = "discover"]
    /\ watch' = [watch EXCEPT ![i] = IF Watched THEN "wait" ELSE "off"]
    /\ UNCHANGED <<plat, system, conn, late, marks, fails, cb, scanning>>

\* A link that is down finds no service.
Discover(i) ==
    /\ pc[i] = "discover"
    /\ \/ os # 0 /\ pc' = [pc EXCEPT ![i] = "up"]
       \/ pc' = [pc EXCEPT ![i] = "close"]
    /\ UNCHANGED <<plat, system, links, conn, late, marks, watcher, cb, scanning>>

-----------------------------------------------------------------------------
(* onDisconnect. *)

\* Mutant: the entry of the address goes, whosever it is.
Removed_Any(i) == 0

\* CompareAndDelete: only this link's own entry goes.
Removed(i) == IF links = i THEN 0 ELSE links

Marks(i) == links' = Removed(i) /\ gone' = [gone EXCEPT ![i] = TRUE]

\* Where it is safe the system is asked first; a link it still holds is left
\* alone, and when it cannot say the callback is believed.
Asks(i) ==
    \/ AskConnected /\ os # 0 /\ UNCHANGED <<links, gone, blind>>
    \/ (AskConnected => os = 0) /\ Marks(i) /\ UNCHANGED blind
    \/ AskConnected /\ Marks(i) /\ blind' = [blind EXCEPT ![i] = TRUE]

\* The callback finds the link of the address ...
CallbackLoads ==
    /\ cb = 0 /\ cbs > 0
    /\ cbs' = cbs - 1 /\ cb' = links
    /\ UNCHANGED <<plat, os, epoch, links, pc, conn, late, marks, watcher, scanning>>

\* Mutant: every callback is believed.
CallbackMarks_Believes ==
    /\ cb # 0 /\ cb' = 0
    /\ Marks(cb)
    /\ UNCHANGED <<plat, system, pc, conn, late, closed, blind, watcher, scanning>>

\* ... and asks before it marks it gone.
CallbackMarks ==
    /\ cb # 0 /\ cb' = 0
    /\ Asks(cb)
    /\ UNCHANGED <<plat, system, pc, conn, late, closed, watcher, scanning>>

\* The handler that a Disconnect on BlueZ runs, with the link still up.
Handler == IF links = 0 THEN UNCHANGED <<links, gone, blind>> ELSE Asks(links)

-----------------------------------------------------------------------------
(* dropLateConnect: the look at the table, and the disconnect. *)

LateConnect(i) ==
    /\ late[i] = "wait" /\ conn[i] # 0
    /\ late' = [late EXCEPT ![i] = IF links # 0 THEN "end" ELSE Begins]
    /\ UNCHANGED <<plat, system, links, pc, conn, marks, watcher, cb, scanning>>

LateHandles(i) ==
    /\ late[i] = "handle"
    /\ late' = [late EXCEPT ![i] = "drop"]
    /\ Handler
    /\ UNCHANGED <<plat, system, pc, conn, closed, watcher, cb, scanning>>

LateDrop(i) ==
    /\ late[i] = "drop"
    /\ late' = [late EXCEPT ![i] = "end"]
    /\ Disconnect
    /\ UNCHANGED <<plat, links, pc, conn, marks, watcher, cb, scanning>>

-----------------------------------------------------------------------------
(* watchLink, on Linux, from the moment the link is stored.  What a watcher *)
(* does after its look at gone it does even when the link has been closed   *)
(* by then, and another one dialled.                                        *)

\* Once a second; with a tick at hand the select may overlook gone.
WatchTick(i) ==
    /\ watch[i] = "wait"
    /\ watch' = [watch EXCEPT ![i] = "ask"]
    /\ UNCHANGED <<plat, system, links, pc, conn, late, marks, fails, cb, scanning>>

WatchEnds(i) ==
    /\ watch[i] = "wait" /\ gone[i]
    /\ watch' = [watch EXCEPT ![i] = "off"] /\ fails' = [fails EXCEPT ![i] = 0]
    /\ UNCHANGED <<plat, system, links, pc, conn, late, marks, cb, scanning>>

WatchReads(i) ==
    /\ watch[i] = "ask"
    /\ IF os # 0
       THEN fails' = [fails EXCEPT ![i] = 0] /\ watch' = [watch EXCEPT ![i] = "wait"]
       ELSE UNCHANGED fails /\ watch' = [watch EXCEPT ![i] = "mark"]
    /\ UNCHANGED <<plat, system, links, pc, conn, late, marks, cb, scanning>>

\* Three failed reads in a row are believed, and the link is disconnected.
WatchFails(i) ==
    /\ watch[i] = "ask"
    /\ fails' = [fails EXCEPT ![i] = @ + 1]
    /\ watch' = [watch EXCEPT ![i] = IF fails'[i] < Failed THEN "wait" ELSE Begins]
    /\ closed' = [closed EXCEPT ![i] = @ \/ fails'[i] = Failed]
    /\ UNCHANGED <<plat, system, links, pc, conn, late, gone, blind, cb, scanning>>

WatchHandles(i) ==
    /\ watch[i] = "handle"
    /\ watch' = [watch EXCEPT ![i] = "drop"]
    /\ Handler
    /\ UNCHANGED <<plat, system, pc, conn, late, closed, fails, cb, scanning>>

WatchDrops(i) ==
    /\ watch[i] = "drop"
    /\ watch' = [watch EXCEPT ![i] = "mark"]
    /\ Disconnect
    /\ UNCHANGED <<plat, links, pc, conn, late, marks, fails, cb, scanning>>

WatchMarks(i) ==
    /\ watch[i] = "mark"
    /\ watch' = [watch EXCEPT ![i] = "off"] /\ fails' = [fails EXCEPT ![i] = 0]
    /\ Marks(i)
    /\ UNCHANGED <<plat, system, pc, conn, late, closed, blind, cb, scanning>>

-----------------------------------------------------------------------------
(* Close. *)

\* The client closes its link.
Close(i) ==
    /\ pc[i] = "up"
    /\ pc' = [pc EXCEPT ![i] = "close"]
    /\ UNCHANGED <<plat, system, links, conn, late, marks, watcher, cb, scanning>>

CloseGone(i) ==
    /\ pc[i] = "close" /\ gone[i]
    /\ links' = Removed(i)
    /\ pc' = [pc EXCEPT ![i] = "over"]
    /\ UNCHANGED <<plat, system, conn, late, marks, watcher, cb, scanning>>

CloseBegins(i) ==
    /\ pc[i] = "close" /\ ~gone[i]
    /\ closed' = [closed EXCEPT ![i] = TRUE]
    /\ pc' = [pc EXCEPT ![i] = Begins]
    /\ UNCHANGED <<plat, system, links, conn, late, gone, blind, watcher, cb, scanning>>

CloseHandles(i) ==
    /\ pc[i] = "handle"
    /\ pc' = [pc EXCEPT ![i] = "drop"]
    /\ Handler
    /\ UNCHANGED <<plat, system, conn, late, closed, watcher, cb, scanning>>

CloseDisconnects(i) ==
    /\ pc[i] = "drop"
    /\ pc' = [pc EXCEPT ![i] = "wait"]
    /\ Disconnect
    /\ UNCHANGED <<plat, links, conn, late, marks, watcher, cb, scanning>>

\* The callback came, or it was waited for long enough.
CloseReturns(i) ==
    /\ pc[i] = "wait"
    /\ Marks(i)
    /\ pc' = [pc EXCEPT ![i] = "over"]
    /\ UNCHANGED <<plat, system, conn, late, closed, blind, watcher, cb, scanning>>

Finished ==
    /\ scan = "returned"
    /\ ~found \/ \A i \in Dials : Bounded(i) => pc[i] = "over"
    /\ UNCHANGED vars

Next ==
    \/ ScanStart \/ ScanCancel \/ ScanRegister \/ ScanStop \/ ScanReturn
    \/ \E named, matches \in BOOLEAN : Advert(named, matches)
    \/ TotemDrops \/ CallbackLoads \/ CallbackMarks
    \/ \E i \in Dials :
          \/ Connects(i) \/ Dial(i) \/ DialFails(i) \/ DialCanceled(i) \/ DialStore(i)
          \/ Discover(i) \/ LateConnect(i) \/ LateHandles(i) \/ LateDrop(i)
          \/ WatchTick(i) \/ WatchEnds(i) \/ WatchReads(i) \/ WatchFails(i)
          \/ WatchHandles(i) \/ WatchDrops(i) \/ WatchMarks(i)
          \/ Close(i) \/ CloseGone(i) \/ CloseBegins(i) \/ CloseHandles(i)
          \/ CloseDisconnects(i) \/ CloseReturns(i)
    \/ Finished

\* Goroutines run, the system delivers its callbacks and answers StopScan;
\* nothing says that a Connect ever comes back.
Fairness ==
    /\ WF_vars(ScanStart) /\ WF_vars(ScanRegister) /\ WF_vars(ScanStop) /\ WF_vars(ScanReturn)
    /\ WF_vars(CallbackLoads) /\ WF_vars(CallbackMarks)
    /\ \A i \in Dials :
          /\ WF_vars(DialStore(i)) /\ WF_vars(Discover(i))
          /\ WF_vars(LateConnect(i)) /\ WF_vars(LateHandles(i)) /\ WF_vars(LateDrop(i))
          /\ WF_vars(WatchTick(i)) /\ WF_vars(WatchReads(i) \/ WatchFails(i))
          /\ WF_vars(WatchHandles(i)) /\ WF_vars(WatchDrops(i)) /\ WF_vars(WatchMarks(i))
          /\ WF_vars(CloseGone(i)) /\ WF_vars(CloseBegins(i)) /\ WF_vars(CloseHandles(i))
          /\ WF_vars(CloseDisconnects(i)) /\ WF_vars(CloseReturns(i))

Spec == Init /\ [][Next]_vars /\ Fairness

-----------------------------------------------------------------------------
\* A link is marked gone only when it was given up, its connection ended or
\* the system could not say: a callback that is late for an older connection
\* does not end a newer link that the system reports up (onDisconnect asks).
GoneTrue ==
    AskConnected => \A i \in Dials : gone[i] => closed[i] \/ blind[i] \/ os # conn[i]

\* The table never lists a link that is gone, which would make a late
\* connect leave its connection to nobody.
Listed == links # 0 => ~gone[links]

\* The Done channel of a link closes once its Totem is no longer connected.
DoneCloses == \A i \in Dials : pc[i] = "up" /\ os = 0 ~> gone[i] \/ os # 0

\* A scan whose context is done returns, though StopScan fails while the scan
\* is still being registered.
ScanEnds == stop ~> scan = "returned"

\* What the table and the links say is true of the system's connections.
LinksTrue == TypeOK /\ GoneTrue /\ Listed
=============================================================================
