----------------------------- MODULE BleProofs -----------------------------
(***************************************************************************)
(* The table of links and the Done channels are true of the connections    *)
(* the system holds, on every build and for any number of dials; and       *)
(* somebody is left to close the Done channel of a link whose connection   *)
(* has ended.                                                              *)
(***************************************************************************)
EXTENDS Ble, FiniteSetTheorems, TLAPS

\* The dials whose Connect has come back.
Connected == {i \in Dials : conn[i] # 0}

\* The dial got as far as the table of links.
Stored(i) == pc[i] \notin {"idle", "connect"} /\ conn[i] # 0

Typed ==
    /\ plat \in Platforms
    /\ os \in Nat /\ epoch \in Nat /\ cbs \in Nat
    /\ links \in {0} \cup Dials /\ cb \in {0} \cup Dials
    /\ pc \in [Dials -> {"idle", "connect", "discover", "up", "close", "handle", "drop",
                         "wait", "over"}]
    /\ conn \in [Dials -> Nat]
    /\ late \in [Dials -> {"none", "wait", "handle", "drop", "end"}]
    /\ gone \in [Dials -> BOOLEAN] /\ closed \in [Dials -> BOOLEAN] /\ blind \in [Dials -> BOOLEAN]
    /\ watch \in [Dials -> {"off", "wait", "ask", "handle", "drop", "mark"}]
    /\ fails \in [Dials -> 0 .. Failed]

\* Every connection was some dial's, and calls back once, when it has ended.
Numbered ==
    /\ epoch <= Cardinality(Connected)
    /\ os <= epoch
    /\ cbs + (IF os = 0 THEN 0 ELSE 1) <= epoch
    /\ \A i \in Dials : conn[i] <= epoch

\* The dial has a link that is not done with.
AtWork == {"discover", "up", "close", "handle", "drop", "wait"}

\* Only links that were stored are marked, listed or called back, and one that
\* Close waits for was given up.
Staged ==
    /\ \A i \in Dials : /\ gone[i] => Stored(i)
                        /\ pc[i] \in AtWork => conn[i] # 0
                        /\ pc[i] \in {"handle", "drop", "wait"} => closed[i]
    /\ links # 0 => Stored(links)
    /\ cb # 0 => Stored(cb)

\* A watcher belongs to a link that was stored, and marks it only once the
\* link is given up or its connection has ended.
Watchers ==
    \A i \in Dials : /\ watch[i] # "off" => Watched /\ Stored(i)
                     /\ watch[i] \in {"off", "wait", "ask"} => fails[i] < Failed
                     /\ watch[i] \in {"handle", "drop"} => closed[i]
                     /\ watch[i] = "mark" => closed[i] \/ os # conn[i]

Scanned ==
    /\ scan \in {"off", "starting", "on", "stopped", "returned"} /\ stop \in BOOLEAN
    /\ seen \in {"new", "nameless", "named"} /\ found \in BOOLEAN

LinkInv == Typed /\ Numbered /\ Staged /\ Watchers /\ GoneTrue /\ Listed

LEMMA DialsAre == IsFiniteSet(Dials) /\ Cardinality(Dials) = MaxDials /\ MaxDials \in Nat
                  /\ Dials \subseteq Nat /\ 0 \notin Dials
BY MaxDialsAssumption, FS_Interval DEF Dials

LEMMA LinkInit == Init => LinkInv /\ Scanned
<1> SUFFICES ASSUME Init PROVE LinkInv /\ Scanned
  OBVIOUS
<1>1. Connected = {} /\ Cardinality(Connected) = 0
  BY FS_EmptySet DEF Init, Connected
<1>2. Typed
  BY DEF Init, Typed, Failed
<1>3. Numbered
  BY <1>1 DEF Init, Numbered
<1>4. Staged /\ Watchers /\ GoneTrue /\ Listed
  BY DEF Init, Staged, Watchers, AtWork, GoneTrue, Listed, Failed
<1> QED BY <1>2, <1>3, <1>4 DEF LinkInv, Scanned, Init

-----------------------------------------------------------------------------
(* The scan leaves the links alone. *)

LEMMA ScanStep ==
    ASSUME Scanned, [Next]_vars
    PROVE  Scanned'
<1>1. CASE ScanStart \/ ScanCancel \/ ScanRegister \/ ScanStop \/ ScanReturn
  BY <1>1 DEF Scanned, ScanStart, ScanCancel, ScanRegister, ScanStop, ScanReturn
<1>2. ASSUME NEW named \in BOOLEAN, NEW matches \in BOOLEAN, Advert(named, matches)
      PROVE  Scanned'
  BY <1>2 DEF Scanned, Advert, First
<1>3. ASSUME UNCHANGED scanning PROVE Scanned'
  BY <1>3 DEF Scanned, scanning
<1>4. CASE TotemDrops \/ CallbackLoads \/ CallbackMarks \/ Finished \/ UNCHANGED vars
  <2>1. UNCHANGED scanning
    BY <1>4 DEF TotemDrops, CallbackLoads, CallbackMarks, Finished, vars, scanning
  <2> QED BY <1>3, <2>1
<1>5. ASSUME NEW i \in Dials,
             \/ Connects(i) \/ Dial(i) \/ DialFails(i) \/ DialCanceled(i) \/ DialStore(i)
             \/ Discover(i) \/ LateConnect(i) \/ LateHandles(i) \/ LateDrop(i)
             \/ WatchTick(i) \/ WatchEnds(i) \/ WatchReads(i) \/ WatchFails(i)
             \/ WatchHandles(i) \/ WatchDrops(i) \/ WatchMarks(i)
             \/ Close(i) \/ CloseGone(i) \/ CloseBegins(i) \/ CloseHandles(i)
             \/ CloseDisconnects(i) \/ CloseReturns(i)
      PROVE  Scanned'
  <2>1. UNCHANGED scanning
    BY <1>5 DEF Connects, Dial, DialFails, DialCanceled, DialStore, Discover, LateConnect,
        LateHandles, LateDrop, WatchTick, WatchEnds, WatchReads, WatchFails, WatchHandles, WatchDrops,
        WatchMarks, Close, CloseGone, CloseBegins, CloseHandles, CloseDisconnects, CloseReturns, scanning
  <2> QED BY <1>3, <2>1
<1> QED BY <1>1, <1>2, <1>4, <1>5 DEF Next

LEMMA SameLinks == ASSUME LinkInv, UNCHANGED <<plat, dialling>> PROVE LinkInv'
BY DEF LinkInv, Typed, Numbered, Connected, Staged, Stored, Watchers, Watched, GoneTrue, Listed,
    AskConnected, dialling, system, marks, watcher

-----------------------------------------------------------------------------
(* The system's side *)

\* A connection that ends is nobody's, and is called back at most once.
LEMMA EndsIs ==
    ASSUME LinkInv, Ends, UNCHANGED conn
    PROVE  Numbered' /\ os' \in Nat /\ epoch' \in Nat /\ cbs' \in Nat /\ os' = 0
BY DEF LinkInv, Typed, Numbered, Connected, Ends

LEMMA NumberedKept == ASSUME LinkInv, UNCHANGED <<os, epoch, cbs, conn>> PROVE Numbered'
BY DEF LinkInv, Numbered, Connected

\* No connection but the one there was: what a watcher knows stays true.
LEMMA WatchersKept ==
    ASSUME LinkInv, UNCHANGED <<plat, conn, watch, fails>>, os' \in {0, os},
           \A j \in Dials : (closed[j] => closed'[j]) /\ (Stored(j) => Stored(j)')
    PROVE  Watchers'
<1> SUFFICES ASSUME NEW j \in Dials
             PROVE  /\ watch[j] # "off" => Watched /\ Stored(j)'
                    /\ watch[j] \in {"off", "wait", "ask"} => fails[j] < Failed
                    /\ watch[j] \in {"handle", "drop"} => closed'[j]
                    /\ watch[j] = "mark" => closed'[j] \/ os' # conn[j]
  BY DEF Watchers, Watched
<1>1. /\ watch[j] # "off" => Watched /\ Stored(j)
      /\ watch[j] \in {"off", "wait", "ask"} => fails[j] < Failed
      /\ watch[j] \in {"handle", "drop"} => closed[j]
      /\ watch[j] = "mark" => closed[j] \/ os # conn[j]
  BY DEF LinkInv, Watchers
<1>2. Stored(j) => conn[j] # 0
  BY DEF Stored
<1> QED BY <1>1, <1>2

\* So does what is known of the links that are gone.
LEMMA GoneKept ==
    ASSUME LinkInv, UNCHANGED <<plat, conn, links, gone, blind>>, os' \in {0, os},
           \A j \in Dials : closed[j] => closed'[j]
    PROVE  GoneTrue' /\ Listed'
BY DEF LinkInv, GoneTrue, Listed, AskConnected, Staged, Stored

LEMMA TotemDropsOk == ASSUME LinkInv, TotemDrops PROVE LinkInv'
<1>1. Numbered' /\ os' \in Nat /\ epoch' \in Nat /\ cbs' \in Nat /\ os' = 0
  BY EndsIs DEF TotemDrops
<1>2. UNCHANGED <<plat, links, pc, conn, late, gone, closed, blind, watch, fails, cb>>
  BY DEF TotemDrops, marks, watcher
<1>3. Typed' /\ Staged'
  BY <1>1, <1>2 DEF LinkInv, Typed, Staged, Stored
<1>4. GoneTrue' /\ Listed' /\ Watchers'
  BY <1>1, <1>2, GoneKept, WatchersKept DEF Stored
<1> QED BY <1>1, <1>3, <1>4 DEF LinkInv

\* A new connection has a number no link has, and one more dial is connected.
LEMMA ConnectsOk == ASSUME LinkInv, NEW i \in Dials, Connects(i) PROVE LinkInv'
<1>1. /\ UNCHANGED <<plat, cbs, links, pc, late, gone, closed, blind, watch, fails, cb>>
      /\ conn[i] = 0 /\ conn' = [conn EXCEPT ![i] = os']
      /\ IF os = 0 THEN os' = epoch + 1 /\ epoch' = epoch + 1 ELSE UNCHANGED <<os, epoch>>
  BY DEF Connects, marks, watcher
<1>2. /\ os \in Nat /\ epoch \in Nat /\ cbs \in Nat /\ conn \in [Dials -> Nat] /\ os <= epoch
      /\ \A j \in Dials : conn[j] <= epoch
  BY DEF LinkInv, Typed, Numbered
<1>3. os' \in Nat /\ epoch' \in Nat /\ os' # 0 /\ os' <= epoch' /\ epoch <= epoch'
  BY <1>1, <1>2
<1>4. Typed'
  BY <1>1, <1>2, <1>3 DEF LinkInv, Typed
<1>5. Numbered'
  <2>1. Connected' = Connected \cup {i} /\ i \notin Connected
    BY <1>1, <1>2, <1>3 DEF Connected
  <2>2. IsFiniteSet(Connected)
    BY DialsAre, FS_Subset DEF Connected
  <2>3. Cardinality(Connected') = Cardinality(Connected) + 1 /\ Cardinality(Connected) \in Nat
    BY <2>1, <2>2, FS_AddElement, FS_CardinalityType
  <2>4. epoch' <= Cardinality(Connected')
    BY <1>1, <1>2, <2>3 DEF LinkInv, Numbered
  <2>5. cbs' + (IF os' = 0 THEN 0 ELSE 1) <= epoch'
    BY <1>1, <1>2, <1>3 DEF LinkInv, Numbered
  <2>6. \A j \in Dials : conn'[j] <= epoch'
    BY <1>1, <1>2, <1>3
  <2> QED BY <1>3, <2>4, <2>5, <2>6 DEF Numbered
<1>6. \A j \in Dials : conn[j] # 0 => /\ j # i /\ conn'[j] = conn[j]
                                      /\ os # conn[j] => os' # conn'[j]
  BY <1>1, <1>2
<1>7. Staged'
  BY <1>1, <1>6 DEF LinkInv, Staged, Stored
<1>8. GoneTrue'
  BY <1>1, <1>6 DEF LinkInv, Staged, Stored, GoneTrue, AskConnected
<1>9. Watchers'
  BY <1>1, <1>6 DEF LinkInv, Watchers, Stored, Watched
<1>10. Listed'
  BY <1>1 DEF LinkInv, Listed
<1> QED BY <1>4, <1>5, <1>7, <1>8, <1>9, <1>10 DEF LinkInv

\* Steps of a dial that leave the system, the marks and the callback alone.
LEMMA DialOk ==
    ASSUME LinkInv, NEW i \in Dials,
           Dial(i) \/ DialFails(i) \/ DialCanceled(i) \/ DialStore(i) \/ Discover(i) \/ LateConnect(i)
             \/ Close(i) \/ CloseBegins(i)
    PROVE  LinkInv'
<1>1. /\ UNCHANGED <<plat, os, epoch, cbs, conn, gone, blind, fails, cb>>
      /\ pc' = pc \/ \E a \in {"connect", "discover", "up", "close", "handle", "drop", "over"} :
                         pc' = [pc EXCEPT ![i] = a]
      /\ late' = late \/ \E b \in {"wait", "handle", "drop", "end"} : late' = [late EXCEPT ![i] = b]
      /\ links' = links \/ (links' = i /\ pc[i] = "connect" /\ conn[i] # 0 /\ pc'[i] = "discover")
      /\ closed' = closed \/ (closed' = [closed EXCEPT ![i] = TRUE] /\ pc[i] = "close")
      /\ \/ watch' = watch
         \/ /\ watch' = [watch EXCEPT ![i] = IF Watched THEN "wait" ELSE "off"]
            /\ pc[i] = "connect" /\ conn[i] # 0 /\ pc'[i] = "discover"
  BY DEF LinkInv, Typed, Dial, DialFails, DialCanceled, DialStore, Discover, LateConnect, Close,
      CloseBegins, Begins, system, marks, watcher
<1>2. Typed'
  <2>1. watch' \in [Dials -> {"off", "wait", "ask", "handle", "drop", "mark"}]
    BY <1>1 DEF LinkInv, Typed
  <2>2. pc' \in [Dials -> {"idle", "connect", "discover", "up", "close", "handle", "drop", "wait", "over"}]
    BY <1>1 DEF LinkInv, Typed
  <2>3. late' \in [Dials -> {"none", "wait", "handle", "drop", "end"}]
    BY <1>1 DEF LinkInv, Typed
  <2>4. closed' \in [Dials -> BOOLEAN]
    BY <1>1, Zenon DEF LinkInv, Typed
  <2>5. links' \in {0} \cup Dials
    BY <1>1 DEF LinkInv, Typed
  <2> QED BY <1>1, <2>1, <2>2, <2>3, <2>4, <2>5 DEF LinkInv, Typed
<1>3. \A j \in Dials : closed[j] => closed'[j]
  BY <1>1 DEF LinkInv, Typed
<1>4. Numbered' /\ GoneTrue'
  BY <1>1, <1>3, NumberedKept DEF LinkInv, GoneTrue, AskConnected
<1>5. /\ pc'[i] \in {"idle", "connect"} => pc[i] \in {"idle", "connect"}
      /\ pc'[i] \in AtWork => conn[i] # 0
      /\ pc'[i] \in {"handle", "drop", "wait"} => closed'[i]
      /\ \A j \in Dials : j # i => pc'[j] = pc[j] /\ closed'[j] = closed[j]
  BY DEF LinkInv, Typed, Staged, AtWork, Dial, DialFails, DialCanceled, DialStore, Discover, LateConnect,
      Close, CloseBegins, Begins, marks
<1>6. \A j \in Dials : Stored(j) => Stored(j)'
  BY <1>1, <1>5 DEF Stored
<1>7. Staged'
  BY <1>1, <1>5, <1>6 DEF LinkInv, Staged, Stored, Typed
<1>8. Listed'
  BY <1>1 DEF LinkInv, Listed, Staged, Stored
<1>9. Watchers'
  <2>1. CASE watch' = watch
    BY <1>1, <1>3, <1>6, <2>1, WatchersKept
  <2>2. CASE /\ watch' = [watch EXCEPT ![i] = IF Watched THEN "wait" ELSE "off"]
             /\ pc[i] = "connect" /\ conn[i] # 0 /\ pc'[i] = "discover"
    <3>1. Stored(i)' /\ fails[i] < Failed
      BY <1>1, <2>2 DEF LinkInv, Watchers, Stored
    <3> QED BY <1>1, <1>3, <1>6, <2>2, <3>1 DEF LinkInv, Watchers, Watched, Typed, Stored
  <2> QED BY <1>1, <2>1, <2>2
<1> QED BY <1>2, <1>4, <1>7, <1>8, <1>9 DEF LinkInv

-----------------------------------------------------------------------------
(* The end of a link *)

\* A link that was stored is marked and leaves the table, when it was given
\* up, the system could not say, or its connection has ended.
LEMMA MarkOk ==
    ASSUME LinkInv, NEW i \in Dials, Stored(i), UNCHANGED <<plat, conn, os, closed>>, Marks(i),
           \A j \in Dials : blind[j] => blind'[j],
           AskConnected => closed[i] \/ blind'[i] \/ os # conn[i]
    PROVE  /\ GoneTrue' /\ Listed' /\ links' \in {0, links} /\ gone' \in [Dials -> BOOLEAN]
           /\ \A j \in Dials : (gone'[j] => Stored(j)) /\ (gone[j] => gone'[j])
           /\ gone'[i] /\ \A j \in Dials : j # i => gone'[j] = gone[j] /\ (links = j => links' = j)
<1>0. gone' = [gone EXCEPT ![i] = TRUE] /\ links' = Removed(i)
  BY DEF Marks
<1>1. /\ \A j \in Dials : (gone'[j] => j = i \/ gone[j]) /\ (gone[j] => gone'[j])
      /\ gone' \in [Dials -> BOOLEAN] /\ gone'[i] /\ \A j \in Dials : j # i => gone'[j] = gone[j]
  BY <1>0 DEF LinkInv, Typed
<1>2. GoneTrue'
  <2> SUFFICES ASSUME AskConnected, NEW j \in Dials, gone'[j]
               PROVE closed[j] \/ blind'[j] \/ os # conn[j]
    BY DEF GoneTrue, AskConnected
  <2> QED BY <1>1 DEF LinkInv, GoneTrue
<1>3. links' # i /\ links' \in {0, links} /\ \A j \in Dials : j # i /\ links = j => links' = j
  BY <1>0, DialsAre DEF Removed
<1>4. Listed'
  BY <1>1, <1>3 DEF LinkInv, Listed, Typed
<1>5. \A j \in Dials : gone'[j] => Stored(j)
  BY <1>1 DEF LinkInv, Staged
<1> QED BY <1>1, <1>2, <1>3, <1>4, <1>5

\* onDisconnect with a link it found.
LEMMA AsksOk ==
    ASSUME LinkInv, NEW i \in Dials, Stored(i), UNCHANGED <<plat, conn, os, closed>>, Asks(i)
    PROVE  /\ GoneTrue' /\ Listed' /\ links' \in {0, links}
           /\ gone' \in [Dials -> BOOLEAN] /\ blind' \in [Dials -> BOOLEAN]
           /\ \A j \in Dials : (gone'[j] => Stored(j)) /\ (gone[j] => gone'[j])
           /\ \A j \in Dials : links = j /\ ~gone'[j] => links' = j
           /\ (AskConnected /\ os # 0) \/ gone'[i]
<1>1. CASE AskConnected /\ os # 0 /\ UNCHANGED <<links, gone, blind>>
  BY <1>1 DEF LinkInv, Typed, Staged, GoneTrue, Listed, AskConnected
<1>2. CASE (AskConnected => os = 0) /\ Marks(i) /\ UNCHANGED blind
  <2>1. AskConnected => os # conn[i]
    BY <1>2 DEF Stored
  <2>2. \A j \in Dials : blind[j] => blind'[j]
    BY <1>2
  <2> QED BY <1>2, <2>1, <2>2, MarkOk DEF LinkInv, Typed
<1>3. CASE AskConnected /\ Marks(i) /\ blind' = [blind EXCEPT ![i] = TRUE]
  <2>1. blind'[i] /\ blind' \in [Dials -> BOOLEAN] /\ \A j \in Dials : blind[j] => blind'[j]
    BY <1>3 DEF LinkInv, Typed
  <2> QED BY <1>3, <2>1, MarkOk
<1> QED BY <1>1, <1>2, <1>3 DEF Asks

LEMMA CallbackOk == ASSUME LinkInv, CallbackLoads \/ CallbackMarks PROVE LinkInv'
<1>1. CASE CallbackLoads
  <2>1. /\ UNCHANGED <<plat, os, epoch, links, pc, conn, late, gone, closed, blind, watch, fails>>
        /\ cbs' = cbs - 1 /\ cbs > 0 /\ cb' = links
    BY <1>1 DEF CallbackLoads, marks, watcher
  <2>2. Typed'
    BY <2>1 DEF LinkInv, Typed
  <2>3. Numbered'
    <3>1. cbs \in Nat /\ epoch \in Nat
      BY DEF LinkInv, Typed
    <3> QED BY <2>1, <3>1 DEF LinkInv, Numbered, Connected
  <2>4. Staged' /\ GoneTrue' /\ Listed'
    BY <2>1 DEF LinkInv, Staged, Stored, GoneTrue, Listed, AskConnected
  <2>5. Watchers'
    BY <2>1, WatchersKept DEF Stored
  <2> QED BY <2>2, <2>3, <2>4, <2>5 DEF LinkInv
<1>2. CASE CallbackMarks
  <2>1. /\ UNCHANGED <<plat, os, epoch, cbs, pc, conn, late, closed, watch, fails>>
        /\ cb' = 0 /\ cb \in Dials /\ Asks(cb)
    BY <1>2 DEF CallbackMarks, system, watcher, LinkInv, Typed
  <2>2. Stored(cb)
    BY <2>1, DialsAre DEF LinkInv, Staged
  <2>3. /\ GoneTrue' /\ Listed' /\ links' \in {0, links}
        /\ gone' \in [Dials -> BOOLEAN] /\ blind' \in [Dials -> BOOLEAN]
        /\ \A j \in Dials : gone'[j] => Stored(j)
    BY <2>1, <2>2, AsksOk
  <2>4. Typed'
    BY <2>1, <2>3 DEF LinkInv, Typed
  <2>5. Staged'
    BY <2>1, <2>3 DEF LinkInv, Staged, Stored
  <2>6. Numbered' /\ Watchers'
    BY <2>1, NumberedKept, WatchersKept DEF Stored
  <2> QED BY <2>3, <2>4, <2>5, <2>6 DEF LinkInv
<1> QED BY <1>1, <1>2

\* The handler that BlueZ runs, with whatever link is listed.
LEMMA HandlerOk ==
    ASSUME LinkInv, UNCHANGED <<plat, conn, os, closed>>, Handler
    PROVE  /\ GoneTrue' /\ Listed' /\ links' \in {0, links}
           /\ gone' \in [Dials -> BOOLEAN] /\ blind' \in [Dials -> BOOLEAN]
           /\ \A j \in Dials : (gone'[j] => Stored(j)) /\ (gone[j] => gone'[j])
<1>1. CASE links = 0
  BY <1>1 DEF Handler, LinkInv, Typed, Staged, GoneTrue, Listed, AskConnected
<1>2. CASE links # 0
  <2>1. links \in Dials /\ Stored(links) /\ Asks(links)
    BY <1>2 DEF Handler, LinkInv, Typed, Staged
  <2> QED BY <2>1, AsksOk
<1> QED BY <1>1, <1>2

LEMMA HandleOk ==
    ASSUME LinkInv, NEW i \in Dials, LateHandles(i) \/ WatchHandles(i) \/ CloseHandles(i)
    PROVE  LinkInv'
<1>1. /\ UNCHANGED <<plat, os, epoch, cbs, conn, closed, fails, cb>> /\ Handler
      /\ late' = late \/ late' = [late EXCEPT ![i] = "drop"]
      /\ watch' = watch \/ (watch' = [watch EXCEPT ![i] = "drop"] /\ watch[i] = "handle")
      /\ pc' = pc \/ (pc' = [pc EXCEPT ![i] = "drop"] /\ pc[i] = "handle")
  BY DEF LateHandles, WatchHandles, CloseHandles, system, watcher
<1>2. /\ GoneTrue' /\ Listed' /\ links' \in {0, links}
      /\ gone' \in [Dials -> BOOLEAN] /\ blind' \in [Dials -> BOOLEAN]
      /\ \A j \in Dials : gone'[j] => Stored(j)
  BY <1>1, HandlerOk
<1>3. Typed'
  BY <1>1, <1>2 DEF LinkInv, Typed
<1>4. \A j \in Dials : Stored(j) => Stored(j)'
  BY <1>1 DEF Stored, LinkInv, Typed
<1>5. Staged'
  <2>1. \A j \in Dials : /\ pc'[j] \in AtWork => pc[j] \in AtWork
                         /\ pc'[j] \in {"handle", "drop", "wait"} => pc[j] \in {"handle", "drop", "wait"}
    BY <1>1 DEF LinkInv, Typed, AtWork
  <2>2. links' # 0 => Stored(links)'
    BY <1>2, <1>4 DEF LinkInv, Staged, Typed
  <2>3. cb' # 0 => Stored(cb)'
    BY <1>1, <1>4 DEF LinkInv, Staged, Typed
  <2> QED BY <1>1, <1>2, <1>4, <2>1, <2>2, <2>3 DEF LinkInv, Staged
<1>6. Watchers'
  <2>1. CASE watch' = watch
    BY <1>1, <1>4, <2>1, WatchersKept
  <2>2. CASE watch' = [watch EXCEPT ![i] = "drop"] /\ watch[i] = "handle"
    BY <1>1, <1>4, <2>2 DEF LinkInv, Watchers, Watched, Typed, Stored
  <2> QED BY <1>1, <2>1, <2>2
<1>7. Numbered'
  BY <1>1, NumberedKept
<1> QED BY <1>2, <1>3, <1>5, <1>6, <1>7 DEF LinkInv

\* Disconnect ends the connection there is, or fails.
LEMMA DisconnectIs ==
    ASSUME LinkInv, Disconnect, UNCHANGED conn
    PROVE  Numbered' /\ os' \in Nat /\ epoch' \in Nat /\ cbs' \in Nat /\ os' \in {0, os}
<1>1. CASE Ends
  BY <1>1, EndsIs
<1>2. CASE UNCHANGED system
  BY <1>2, NumberedKept DEF system, LinkInv, Typed
<1> QED BY <1>1, <1>2 DEF Disconnect

LEMMA DropOk ==
    ASSUME LinkInv, NEW i \in Dials, LateDrop(i) \/ WatchDrops(i) \/ CloseDisconnects(i)
    PROVE  LinkInv'
<1>1. /\ UNCHANGED <<plat, links, conn, gone, closed, blind, fails, cb>> /\ Disconnect
      /\ late' = late \/ late' = [late EXCEPT ![i] = "end"]
      /\ watch' = watch \/ (watch' = [watch EXCEPT ![i] = "mark"] /\ watch[i] = "drop")
      /\ pc' = pc \/ (pc' = [pc EXCEPT ![i] = "wait"] /\ pc[i] = "drop")
  BY DEF LateDrop, WatchDrops, CloseDisconnects, marks, watcher
<1>2. Numbered' /\ os' \in Nat /\ epoch' \in Nat /\ cbs' \in Nat /\ os' \in {0, os}
  BY <1>1, DisconnectIs
<1>3. Typed'
  BY <1>1, <1>2 DEF LinkInv, Typed
<1>4. \A j \in Dials : Stored(j) => Stored(j)'
  BY <1>1 DEF Stored, LinkInv, Typed
<1>5. Staged'
  <2>1. \A j \in Dials : /\ pc'[j] \in AtWork => pc[j] \in AtWork
                         /\ pc'[j] \in {"handle", "drop", "wait"} => pc[j] \in {"handle", "drop", "wait"}
    BY <1>1 DEF LinkInv, Typed, AtWork
  <2>2. (links' # 0 => Stored(links)') /\ (cb' # 0 => Stored(cb)')
    BY <1>1, <1>4 DEF LinkInv, Staged, Typed
  <2> QED BY <1>1, <1>4, <2>1, <2>2 DEF LinkInv, Staged
<1>6. Watchers'
  <2>1. CASE watch' = watch
    BY <1>1, <1>2, <1>4, <2>1, WatchersKept
  <2>2. CASE watch' = [watch EXCEPT ![i] = "mark"] /\ watch[i] = "drop"
    BY <1>1, <1>2, <1>4, <2>2 DEF LinkInv, Watchers, Watched, Typed, Stored
  <2> QED BY <1>1, <2>1, <2>2
<1>7. GoneTrue' /\ Listed'
  BY <1>1, <1>2, GoneKept
<1> QED BY <1>2, <1>3, <1>5, <1>6, <1>7 DEF LinkInv

LEMMA WatchOk ==
    ASSUME LinkInv, NEW i \in Dials,
           WatchTick(i) \/ WatchEnds(i) \/ WatchReads(i) \/ WatchFails(i) \/ WatchMarks(i)
    PROVE  LinkInv'
<1>1. CASE WatchTick(i) \/ WatchEnds(i) \/ WatchReads(i) \/ WatchFails(i)
  <2>1. UNCHANGED <<plat, os, epoch, cbs, links, pc, conn, late, gone, blind, cb>>
    BY <1>1 DEF WatchTick, WatchEnds, WatchReads, WatchFails, system, marks
  <2>2. /\ Watched /\ Stored(i) /\ fails[i] \in 0 .. Failed /\ fails[i] < Failed
    BY <1>1 DEF WatchTick, WatchEnds, WatchReads, WatchFails, LinkInv, Watchers, Typed
  <2>3. /\ fails' \in [Dials -> 0 .. Failed]
        /\ closed' \in [Dials -> BOOLEAN] /\ \A j \in Dials : closed[j] => closed'[j]
        /\ watch' \in [Dials -> {"off", "wait", "ask", "handle", "drop", "mark"}]
        /\ \A j \in Dials : j # i => watch'[j] = watch[j] /\ fails'[j] = fails[j]
        /\ watch'[i] \in {"off", "wait", "ask"} => fails'[i] < Failed
        /\ watch'[i] \in {"handle", "drop"} => closed'[i]
        /\ watch'[i] = "mark" => closed'[i] \/ os # conn[i]
    <3>1. /\ fails \in [Dials -> 0 .. Failed] /\ closed \in [Dials -> BOOLEAN]
          /\ watch \in [Dials -> {"off", "wait", "ask", "handle", "drop", "mark"}]
      BY DEF LinkInv, Typed
    <3>2. CASE WatchTick(i)
      BY <2>2, <3>1, <3>2 DEF WatchTick, marks
    <3>3. CASE WatchEnds(i)
      BY <2>2, <3>1, <3>3 DEF WatchEnds, marks, Failed
    <3>4. CASE WatchReads(i)
      BY <2>2, <3>1, <3>4 DEF WatchReads, marks, Failed, Stored
    <3>5. CASE WatchFails(i)
      <4>1. /\ fails' = [fails EXCEPT ![i] = @ + 1]
            /\ watch' = [watch EXCEPT ![i] = IF fails'[i] < Failed THEN "wait" ELSE Begins]
            /\ closed' = [closed EXCEPT ![i] = @ \/ fails'[i] = Failed]
        BY <3>5 DEF WatchFails
      <4>2. fails' \in [Dials -> 0 .. Failed] /\ fails'[i] = fails[i] + 1
            /\ \A j \in Dials : j # i => fails'[j] = fails[j]
        BY <2>2, <3>1, <4>1 DEF Failed
      <4>3. closed' \in [Dials -> BOOLEAN] /\ (\A j \in Dials : closed[j] => closed'[j])
            /\ (fails'[i] = Failed => closed'[i])
        BY <3>1, <4>1
      <4>4. fails'[i] < Failed \/ fails'[i] = Failed
        BY <2>2, <4>2 DEF Failed
      <4> QED BY <3>1, <4>1, <4>2, <4>3, <4>4 DEF Begins
    <3> QED BY <1>1, <3>2, <3>3, <3>4, <3>5
  <2>5. Typed' /\ Staged'
    BY <2>1, <2>3 DEF LinkInv, Typed, Staged, Stored
  <2>6. Watchers'
    BY <2>1, <2>2, <2>3 DEF LinkInv, Watchers, Watched, Stored
  <2>7. Numbered' /\ GoneTrue' /\ Listed'
    BY <2>1, <2>3, NumberedKept, GoneKept
  <2> QED BY <2>5, <2>6, <2>7 DEF LinkInv
<1>2. CASE WatchMarks(i)
  <2>1. /\ UNCHANGED <<plat, os, epoch, cbs, pc, conn, late, closed, blind, cb>> /\ Marks(i)
        /\ watch[i] = "mark" /\ watch' = [watch EXCEPT ![i] = "off"] /\ fails' = [fails EXCEPT ![i] = 0]
    BY <1>2 DEF WatchMarks, system
  <2>2. Stored(i) /\ (closed[i] \/ os # conn[i])
    BY <2>1 DEF LinkInv, Watchers
  <2>3. /\ GoneTrue' /\ Listed' /\ links' \in {0, links} /\ gone' \in [Dials -> BOOLEAN]
        /\ \A j \in Dials : gone'[j] => Stored(j)
    BY <2>1, <2>2, MarkOk
  <2>4. fails' \in [Dials -> 0 .. Failed]
    <3>1. 0 \in 0 .. Failed
      BY DEF Failed
    <3> QED BY <2>1, <3>1 DEF LinkInv, Typed
  <2>8. Typed'
    BY <2>1, <2>3, <2>4 DEF LinkInv, Typed
  <2>5. Staged'
    BY <2>1, <2>3 DEF LinkInv, Staged, Stored
  <2>6. Watchers'
    <3>1. 0 < Failed
      BY DEF Failed
    <3>2. watch'[i] = "off" /\ fails'[i] = 0
          /\ \A j \in Dials : j # i => watch'[j] = watch[j] /\ fails'[j] = fails[j]
      BY <2>1 DEF LinkInv, Typed
    <3> QED BY <2>1, <3>1, <3>2 DEF LinkInv, Watchers, Watched, Stored
  <2>7. Numbered'
    BY <2>1, NumberedKept
  <2> QED BY <2>3, <2>8, <2>5, <2>6, <2>7 DEF LinkInv
<1> QED BY <1>1, <1>2

LEMMA CloseOk == ASSUME LinkInv, NEW i \in Dials, CloseGone(i) \/ CloseReturns(i) PROVE LinkInv'
<1>1. /\ UNCHANGED <<plat, os, epoch, cbs, conn, late, closed, blind, watch, fails, cb>>
      /\ pc[i] \in AtWork /\ pc' = [pc EXCEPT ![i] = "over"]
  BY DEF CloseGone, CloseReturns, system, marks, watcher, AtWork
<1>2. Stored(i) /\ \A j \in Dials : Stored(j) => Stored(j)'
  BY <1>1 DEF LinkInv, Staged, Stored, Typed, AtWork
<1>3. /\ GoneTrue' /\ Listed' /\ links' \in {0, links} /\ gone' \in [Dials -> BOOLEAN]
      /\ \A j \in Dials : gone'[j] => Stored(j)
  <2>1. CASE CloseGone(i)
    <3>1. UNCHANGED gone /\ links' = Removed(i)
      BY <2>1 DEF CloseGone, marks
    <3>2. GoneTrue' /\ Listed'
      BY <1>1, <3>1 DEF LinkInv, GoneTrue, Listed, AskConnected, Removed
    <3> QED BY <3>1, <3>2 DEF LinkInv, Typed, Staged, Removed
  <2>2. CASE CloseReturns(i)
    <3>1. Marks(i) /\ closed[i]
      BY <2>2 DEF CloseReturns, LinkInv, Staged
    <3> QED BY <1>1, <1>2, <3>1, MarkOk
  <2> QED BY <2>1, <2>2
<1>4. Typed'
  BY <1>1, <1>3 DEF LinkInv, Typed
<1>5. Staged'
  <2>1. \A j \in Dials : pc'[j] = pc[j] \/ pc'[j] = "over"
    BY <1>1 DEF LinkInv, Typed
  <2>2. (links' # 0 => Stored(links)') /\ (cb' # 0 => Stored(cb)')
    BY <1>1, <1>2, <1>3 DEF LinkInv, Staged, Typed
  <2> QED BY <1>1, <1>2, <1>3, <2>1, <2>2 DEF LinkInv, Staged, AtWork
<1>6. Numbered' /\ Watchers'
  BY <1>1, <1>2, NumberedKept, WatchersKept
<1> QED BY <1>3, <1>4, <1>5, <1>6 DEF LinkInv

LEMMA LinkStep == ASSUME LinkInv, [Next]_vars PROVE LinkInv'
<1>1. CASE ScanStart \/ ScanCancel \/ ScanRegister \/ ScanStop \/ ScanReturn \/ Finished \/ UNCHANGED vars
  <2>1. UNCHANGED <<plat, dialling>>
    BY <1>1 DEF ScanStart, ScanCancel, ScanRegister, ScanStop, ScanReturn, Finished, vars, dialling,
        system, marks, watcher
  <2> QED BY <2>1, SameLinks
<1>2. ASSUME NEW named \in BOOLEAN, NEW matches \in BOOLEAN, Advert(named, matches)
      PROVE  LinkInv'
  <2>1. UNCHANGED <<plat, dialling>>
    BY <1>2 DEF Advert
  <2> QED BY <2>1, SameLinks
<1>3. CASE TotemDrops
  BY <1>3, TotemDropsOk
<1>4. CASE CallbackLoads \/ CallbackMarks
  BY <1>4, CallbackOk
<1>5. ASSUME NEW i \in Dials,
             \/ Connects(i) \/ Dial(i) \/ DialFails(i) \/ DialCanceled(i) \/ DialStore(i)
             \/ Discover(i) \/ LateConnect(i) \/ LateHandles(i) \/ LateDrop(i)
             \/ WatchTick(i) \/ WatchEnds(i) \/ WatchReads(i) \/ WatchFails(i)
             \/ WatchHandles(i) \/ WatchDrops(i) \/ WatchMarks(i)
             \/ Close(i) \/ CloseGone(i) \/ CloseBegins(i) \/ CloseHandles(i)
             \/ CloseDisconnects(i) \/ CloseReturns(i)
      PROVE  LinkInv'
  BY <1>5, ConnectsOk, DialOk, HandleOk, DropOk, WatchOk, CloseOk
<1> QED BY <1>1, <1>2, <1>3, <1>4, <1>5 DEF Next

LEMMA LinkTypes == ASSUME LinkInv, Scanned PROVE TypeOK
<1>1. Cardinality(Connected) <= MaxDials /\ Cardinality(Connected) \in Nat
  BY DialsAre, FS_Subset, FS_CardinalityType DEF Connected
<1>2. MaxDials \in Nat /\ epoch \in Nat /\ os \in Nat /\ cbs \in Nat /\ conn \in [Dials -> Nat]
  BY DialsAre DEF LinkInv, Typed
<1>3. epoch <= MaxDials /\ os <= epoch /\ cbs <= epoch
  BY <1>1, <1>2 DEF LinkInv, Numbered
<1>4. \A i \in Dials : conn[i] \in 0 .. MaxDials
  BY <1>2, <1>3 DEF LinkInv, Numbered
<1>5. os \in 0 .. epoch /\ epoch \in 0 .. MaxDials /\ cbs \in 0 .. MaxDials
      /\ conn \in [Dials -> 0 .. MaxDials]
  BY <1>2, <1>3, <1>4
<1> QED BY <1>5 DEF TypeOK, LinkInv, Typed, Scanned

\* On every build and for any number of dials, whatever the order in which the
\* system's connects and callbacks arrive: a link is marked gone only when it
\* was given up, its connection has ended or the system could not say, and the
\* table lists no link that is gone (dial, onDisconnect, watchLink,
\* dropLateConnect, Close).
THEOREM LinksTrueHolds == Spec => []LinksTrue
<1>1. Init => LinkInv /\ Scanned
  BY LinkInit
<1>2. LinkInv /\ Scanned /\ [Next]_vars => (LinkInv /\ Scanned)'
  BY LinkStep, ScanStep
<1>3. LinkInv /\ Scanned => LinksTrue
  BY LinkTypes DEF LinksTrue, LinkInv
<1> QED BY <1>1, <1>2, <1>3, PTL DEF Spec

-----------------------------------------------------------------------------
(* The part of DoneCloses that is no liveness: somebody is left to close    *)
(* the channel.                                                             *)

\* A link that is up while the system holds no connection has a callback on
\* its way that will find it, or the watcher.
Owed ==
    \A i \in Dials : pc[i] = "up" /\ os = 0 /\ ~gone[i] =>
        IF Watched THEN watch[i] # "off" ELSE cb = i \/ (cbs > 0 /\ links = i)

\* Dials come one after another.
InOrder == \A i, j \in Dials : j < i /\ pc[i] # "idle" => pc[j] = "over"

\* The entry of a link that is not gone is its own until it is closed.
Entered == \A i \in Dials : pc[i] \in AtWork /\ ~gone[i] /\ ~Watched => links = i

\* A dial that was given up is over; the others run no handler of their own,
\* and a watcher ends with its link.
Ended ==
    \A i \in Dials : /\ late[i] # "none" => pc[i] = "over"
                     /\ ~Watched => pc[i] # "handle" /\ late[i] # "handle"
                     /\ Watched /\ Stored(i) /\ ~gone[i] /\ late[i] = "none" => watch[i] # "off"

OwedInv == InOrder /\ Entered /\ Ended /\ Owed

LEMMA OwedInit == Init => OwedInv
BY DEF Init, OwedInv, InOrder, Entered, AtWork, Ended, Stored, Owed

\* Dial i moves from a to b: one that moves is no longer idle, and none is
\* over before it was.
LEMMA OrderOk ==
    ASSUME Typed, InOrder, NEW i \in Dials, NEW b, pc' = [pc EXCEPT ![i] = b],
           pc[i] # "over",
           pc[i] = "idle" => \A j \in 1 .. i-1 : pc[j] = "over"
    PROVE  InOrder'
<1> SUFFICES ASSUME NEW k \in Dials, NEW j \in Dials, j < k, pc'[k] # "idle" PROVE pc'[j] = "over"
  BY DEF InOrder
<1>1. i \in Nat \ {0} /\ j \in Nat \ {0} /\ k \in Nat \ {0}
  BY DialsAre
<1>2. CASE k = i
  <2>1. j # i /\ pc'[j] = pc[j]
    BY <1>1, <1>2 DEF Typed
  <2>2. pc[i] = "idle" => j \in 1 .. i-1
    BY <1>1, <1>2
  <2> QED BY <1>2, <2>1, <2>2 DEF InOrder
<1>3. CASE k # i
  <2>1. pc[k] # "idle" /\ pc[j] = "over"
    BY <1>3 DEF InOrder, Typed
  <2>2. j # i
    BY <2>1
  <2> QED BY <2>1, <2>2 DEF Typed
<1> QED BY <1>2, <1>3

\* While a dial is under way there is no other.
LEMMA OneDial ==
    ASSUME Typed, InOrder, NEW i \in Dials, NEW j \in Dials, i # j, pc[i] \notin {"idle", "over"}
    PROVE  pc[j] \in {"idle", "over"}
<1>1. i \in Nat /\ j \in Nat
  BY DialsAre
<1>2. CASE j < i
  BY <1>2 DEF InOrder
<1>3. CASE i < j
  BY <1>3 DEF InOrder
<1> QED BY <1>1, <1>2, <1>3

\* The steps of a dial itself.
LEMMA DialOwed ==
    ASSUME LinkInv, OwedInv, LinkInv', NEW i \in Dials,
           Dial(i) \/ DialFails(i) \/ DialCanceled(i) \/ DialStore(i) \/ Discover(i) \/ Close(i)
             \/ CloseBegins(i)
    PROVE  OwedInv'
<1>1. /\ UNCHANGED <<plat, os, epoch, cbs, conn, gone, cb>>
      /\ pc[i] # "over" /\ (pc[i] = "idle" => \A j \in 1 .. i-1 : pc[j] = "over")
      /\ pc[i] # "idle" \/ pc'[i] = "connect"
      /\ pc' = [pc EXCEPT ![i] = pc'[i]]
      /\ late' = late \/ (late' = [late EXCEPT ![i] = "wait"] /\ pc'[i] = "over")
      /\ pc'[i] \in AtWork \ {"discover"} => links' = links /\ pc[i] \in {"discover", "up", "close"}
      /\ links' \in {links, i} /\ (links' # links => pc[i] = "connect")
      /\ pc'[i] = "discover" => links' = i /\ watch' = [watch EXCEPT ![i] = IF Watched THEN "wait" ELSE "off"]
      /\ pc'[i] # "discover" => watch' = watch
      /\ pc'[i] = "up" => os # 0
      /\ pc'[i] = "handle" => Watched
      /\ pc'[i] = "over" => pc[i] = "connect" /\ (conn[i] = 0 \/ late'[i] = "wait")
  BY DEF LinkInv, Typed, Dial, DialFails, DialCanceled, DialStore, Discover, Close, CloseBegins, Begins,
      system, marks, watcher, AtWork
<1>2. Typed
  BY DEF LinkInv
<1>3. InOrder'
  BY <1>1, <1>2, OrderOk DEF OwedInv
<1>4. \A j \in Dials : j # i => pc'[j] = pc[j] /\ watch'[j] = watch[j] /\ late'[j] = late[j]
  BY <1>1, <1>2 DEF Typed
<1>5. Entered'
  <2> SUFFICES ASSUME NEW j \in Dials, pc'[j] \in AtWork, ~gone[j], ~Watched PROVE links' = j
    BY <1>1 DEF Entered, Watched
  <2>1. CASE j = i
    BY <1>1, <2>1 DEF OwedInv, Entered, AtWork
  <2>2. CASE j # i
    <3>1. pc[j] \in AtWork /\ links = j
      BY <1>4, <2>2 DEF OwedInv, Entered
    <3>2. pc[i] \in {"idle", "over"}
      BY <1>2, <2>2, <3>1, OneDial DEF OwedInv, AtWork
    <3> QED BY <1>1, <3>1, <3>2
  <2> QED BY <2>1, <2>2
<1>6. Ended'
  <2> SUFFICES ASSUME NEW j \in Dials
               PROVE  /\ late'[j] # "none" => pc'[j] = "over"
                      /\ ~Watched => pc'[j] # "handle" /\ late'[j] # "handle"
                      /\ Watched /\ Stored(j)' /\ ~gone[j] /\ late'[j] = "none" => watch'[j] # "off"
    BY <1>1 DEF Ended, Watched
  <2>1. /\ late[j] # "none" => pc[j] = "over"
        /\ ~Watched => pc[j] # "handle" /\ late[j] # "handle"
        /\ Watched /\ Stored(j) /\ ~gone[j] /\ late[j] = "none" => watch[j] # "off"
    BY DEF OwedInv, Ended
  <2>2. CASE j # i
    BY <1>1, <1>4, <2>1, <2>2 DEF Stored
  <2>3. CASE j = i
    <3>1. late'[j] # "none" => pc'[j] = "over"
      BY <1>1, <2>1, <2>3
    <3>2. ~Watched => pc'[j] # "handle" /\ late'[j] # "handle"
      BY <1>1, <1>2, <2>1, <2>3 DEF Typed
    <3>3. ASSUME Watched, Stored(j)', ~gone[j], late'[j] = "none" PROVE watch'[j] # "off"
      <4>1. CASE pc'[j] = "discover"
        BY <1>1, <1>2, <2>3, <3>3, <4>1 DEF Typed
      <4>2. CASE pc'[j] \in AtWork \ {"discover"}
        <5>1. Stored(j) /\ late[j] = "none" /\ watch'[j] = watch[j]
          BY <1>1, <1>2, <2>3, <3>3, <4>2 DEF Typed, Stored, AtWork
        <5> QED BY <2>1, <3>3, <5>1
      <4>4. pc'[j] \in AtWork \cup {"idle", "connect", "over"}
        BY DEF LinkInv, Typed, AtWork
      <4>3. pc'[j] # "over"
        BY <1>1, <2>3, <3>3 DEF Stored
      <4> QED BY <3>3, <4>1, <4>2, <4>3, <4>4 DEF Stored, AtWork
    <3> QED BY <3>1, <3>2, <3>3
  <2> QED BY <2>2, <2>3
<1>7. Owed'
  <2> SUFFICES ASSUME NEW j \in Dials, pc'[j] = "up", os = 0, ~gone[j]
               PROVE (IF Watched THEN watch[j] # "off" ELSE cb = j \/ (cbs > 0 /\ links = j))'
    BY <1>1 DEF Owed
  <2>1. j # i /\ pc[j] = "up"
    BY <1>1, <1>4
  <2>2. pc[i] \in {"idle", "over"}
    BY <1>2, <2>1, OneDial DEF OwedInv
  <2>3. links' = links
    BY <1>1, <2>2
  <2>4. IF Watched THEN watch[j] # "off" ELSE cb = j \/ (cbs > 0 /\ links = j)
    BY <2>1 DEF OwedInv, Owed
  <2> QED BY <1>1, <1>4, <2>1, <2>3, <2>4 DEF Watched
<1> QED BY <1>3, <1>5, <1>6, <1>7 DEF OwedInv

LEMMA SameOwed == ASSUME OwedInv, UNCHANGED <<plat, dialling>> PROVE OwedInv'
BY DEF OwedInv, InOrder, Entered, Ended, Stored, Owed, Watched, dialling, system, marks, watcher

\* On Linux the watcher of every link that is up and not gone is at work.
LEMMA WatcherAtWork ==
    ASSUME LinkInv', Ended', Watched', NEW i \in Dials, pc'[i] = "up", ~gone'[i]
    PROVE  watch'[i] # "off"
<1>1. conn'[i] # 0
  BY DEF LinkInv, Staged, AtWork
<1> QED BY <1>1 DEF Ended, Stored

\* Elsewhere a connection that ends calls back, and finds its link entered.
LEMMA EndsOwed ==
    ASSUME LinkInv, OwedInv, Ends, UNCHANGED <<plat, cb>>, ~Watched, UNCHANGED links,
           NEW i \in Dials, pc[i] = "up", ~gone[i]
    PROVE  (cb = i \/ (cbs > 0 /\ links = i))'
<1>1. links = i /\ cbs \in Nat
  BY DEF OwedInv, Entered, AtWork, LinkInv, Typed
<1>2. CASE os = 0
  BY <1>2 DEF OwedInv, Owed, Ends
<1>3. CASE os # 0
  BY <1>1, <1>3 DEF Ends
<1> QED BY <1>2, <1>3

\* A connection ends, or a Disconnect fails, and nothing else moves but the
\* goroutine that did it.
LEMMA DropOwed ==
    ASSUME LinkInv, OwedInv, LinkInv', Ended', Disconnect,
           UNCHANGED <<plat, links, gone, cb>>,
           \A j \in Dials : pc'[j] = "up" => pc[j] = "up"
    PROVE  Owed'
<1> SUFFICES ASSUME NEW j \in Dials, pc'[j] = "up", os' = 0, ~gone'[j]
             PROVE (IF Watched THEN watch[j] # "off" ELSE cb = j \/ (cbs > 0 /\ links = j))'
  BY DEF Owed
<1>1. CASE Watched'
  BY <1>1, WatcherAtWork
<1>2. CASE ~Watched'
  <2>1. ~Watched /\ pc[j] = "up" /\ ~gone[j]
    BY <1>2 DEF Watched
  <2>2. CASE Ends
    BY <1>2, <2>1, <2>2, EndsOwed
  <2>3. CASE UNCHANGED system
    BY <1>2, <2>1, <2>3 DEF system, OwedInv, Owed
  <2> QED BY <2>2, <2>3 DEF Disconnect
<1> QED BY <1>1, <1>2

LEMMA TotemDropsOwed == ASSUME LinkInv, OwedInv, LinkInv', TotemDrops PROVE OwedInv'
<1>1. Ends /\ UNCHANGED <<plat, links, pc, conn, late, gone, watch, cb>>
  BY DEF TotemDrops, marks, watcher
<1>2. InOrder' /\ Entered' /\ Ended'
  BY <1>1 DEF OwedInv, InOrder, Entered, Ended, Stored, Watched
<1>3. Owed'
  BY <1>1, <1>2, DropOwed DEF Disconnect
<1> QED BY <1>2, <1>3 DEF OwedInv

LEMMA LateOwed ==
    ASSUME LinkInv, OwedInv, LinkInv', NEW i \in Dials, Connects(i) \/ LateConnect(i)
    PROVE  OwedInv'
<1>1. /\ UNCHANGED <<plat, cbs, links, pc, gone, watch, cb>>
      /\ \/ late' = late
         \/ late[i] = "wait" /\ \E b \in {"end", Begins} : late' = [late EXCEPT ![i] = b]
      /\ os' = 0 => os = 0
      /\ conn' = conn \/ (conn' = [conn EXCEPT ![i] = os'] /\ (pc[i] = "connect" \/ late[i] = "wait"))
  BY DEF Connects, LateConnect, system, marks, watcher, LinkInv, Typed
<1>2. InOrder' /\ Entered'
  BY <1>1 DEF OwedInv, InOrder, Entered, Watched
<1>3. Ended'
  <2> SUFFICES ASSUME NEW j \in Dials
               PROVE  /\ late'[j] # "none" => pc[j] = "over"
                      /\ ~Watched => pc[j] # "handle" /\ late'[j] # "handle"
                      /\ Watched /\ Stored(j)' /\ ~gone[j] /\ late'[j] = "none" => watch[j] # "off"
    BY <1>1 DEF Ended, Watched
  <2>1. /\ late[j] # "none" => pc[j] = "over"
        /\ ~Watched => pc[j] # "handle" /\ late[j] # "handle"
        /\ Watched /\ Stored(j) /\ ~gone[j] /\ late[j] = "none" => watch[j] # "off"
    BY DEF OwedInv, Ended
  <2>2. late'[j] = late[j] \/ (late[j] = "wait" /\ late'[j] \in {"end", Begins})
    BY <1>1 DEF LinkInv, Typed
  <2>3. Begins # "none" /\ (~Watched => Begins # "handle")
    BY DEF Begins
  <2>4. Stored(j)' /\ late[j] = "none" => Stored(j)
    BY <1>1 DEF Stored, LinkInv, Typed
  <2> QED BY <2>1, <2>2, <2>3, <2>4
<1>4. Owed'
  <2> SUFFICES ASSUME NEW j \in Dials, pc'[j] = "up", os' = 0, ~gone'[j]
               PROVE (IF Watched THEN watch[j] # "off" ELSE cb = j \/ (cbs > 0 /\ links = j))'
    BY DEF Owed
  <2> QED BY <1>1 DEF OwedInv, Owed, Watched
<1> QED BY <1>2, <1>3, <1>4 DEF OwedInv

LEMMA CallbackOwed ==
    ASSUME LinkInv, OwedInv, LinkInv', CallbackLoads \/ CallbackMarks
    PROVE  OwedInv'
<1>1. UNCHANGED <<plat, os, pc, conn, late, watch>>
  BY DEF CallbackLoads, CallbackMarks, system, watcher
<1>2. /\ \A j \in Dials : (gone[j] => gone'[j]) /\ (links = j /\ ~gone'[j] => links' = j)
      /\ CallbackMarks => cb \in Dials /\ ((AskConnected /\ os # 0) \/ gone'[cb])
  <2>1. CASE CallbackLoads
    BY <2>1 DEF CallbackLoads, CallbackMarks, marks
  <2>2. CASE CallbackMarks
    <3>1. cb \in Dials /\ Asks(cb) /\ UNCHANGED <<plat, conn, os, closed>>
      BY <2>2 DEF CallbackMarks, system, LinkInv, Typed
    <3>2. Stored(cb)
      BY <3>1, DialsAre DEF LinkInv, Staged
    <3> QED BY <3>1, <3>2, AsksOk
  <2> QED BY <2>1, <2>2
<1>3. InOrder' /\ Ended'
  BY <1>1, <1>2 DEF OwedInv, InOrder, Ended, Stored, Watched
<1>4. Entered'
  BY <1>1, <1>2 DEF OwedInv, Entered, Watched
<1>5. Owed'
  <2> SUFFICES ASSUME NEW i \in Dials, pc'[i] = "up", os' = 0, ~gone'[i]
               PROVE (IF Watched THEN watch[i] # "off" ELSE cb = i \/ (cbs > 0 /\ links = i))'
    BY DEF Owed
  <2>1. CASE Watched'
    BY <1>3, <2>1, WatcherAtWork
  <2>2. CASE ~Watched'
    <3>1. ~Watched /\ pc[i] = "up" /\ os = 0 /\ ~gone[i]
      BY <1>1, <1>2, <2>2 DEF Watched
    <3>2. links = i /\ (cb = i \/ cbs > 0)
      BY <3>1 DEF OwedInv, Owed, Entered, AtWork
    <3>3. CASE CallbackLoads
      BY <2>2, <3>2, <3>3 DEF CallbackLoads
    <3>4. CASE CallbackMarks
      <4>1. cbs' = cbs /\ cb # i
        BY <1>2, <3>1, <3>4 DEF CallbackMarks, system
      <4> QED BY <1>2, <2>2, <3>2, <4>1
    <3> QED BY <3>3, <3>4
  <2> QED BY <2>1, <2>2
<1> QED BY <1>3, <1>4, <1>5 DEF OwedInv

\* The late goroutine: its handler runs on Linux only.
LEMMA LateDropOwed ==
    ASSUME LinkInv, OwedInv, LinkInv', NEW i \in Dials, LateHandles(i) \/ LateDrop(i)
    PROVE  OwedInv'
<1>1. /\ UNCHANGED <<plat, pc, conn, closed, watch, cb>> /\ late[i] \in {"handle", "drop"}
      /\ \E b \in {"drop", "end"} : late' = [late EXCEPT ![i] = b]
  BY DEF LateHandles, LateDrop, marks, watcher
<1>2. CASE LateHandles(i)
  <2>1. Watched /\ Watched'
    BY <1>1, <1>2 DEF LateHandles, OwedInv, Ended, Watched
  <2>2. \A j \in Dials : gone[j] => gone'[j]
    BY <1>2, HandlerOk DEF LateHandles, system
  <2>3. InOrder' /\ Entered' /\ Ended'
    BY <1>1, <2>1, <2>2 DEF OwedInv, InOrder, Entered, Ended, Stored, LinkInv, Typed
  <2>4. Owed'
    BY <2>1, <2>3, WatcherAtWork DEF Owed
  <2> QED BY <2>3, <2>4 DEF OwedInv
<1>3. CASE LateDrop(i)
  <2>1. UNCHANGED <<links, gone>> /\ Disconnect
    BY <1>3 DEF LateDrop, marks
  <2>2. InOrder' /\ Entered' /\ Ended'
    BY <1>1, <2>1 DEF OwedInv, InOrder, Entered, Ended, Stored, Watched, LinkInv, Typed
  <2>3. Owed'
    BY <1>1, <2>1, <2>2, DropOwed
  <2> QED BY <2>2, <2>3 DEF OwedInv
<1> QED BY <1>2, <1>3

LEMMA WatchOwed ==
    ASSUME LinkInv, OwedInv, LinkInv', NEW i \in Dials,
           WatchTick(i) \/ WatchEnds(i) \/ WatchReads(i) \/ WatchFails(i) \/ WatchHandles(i)
             \/ WatchDrops(i) \/ WatchMarks(i)
    PROVE  OwedInv'
<1>1. UNCHANGED <<plat, pc, conn, late>> /\ watch[i] # "off"
  BY DEF WatchTick, WatchEnds, WatchReads, WatchFails, WatchHandles, WatchDrops, WatchMarks
<1>2. Watched /\ Watched'
  BY <1>1 DEF LinkInv, Watchers, Watched
<1>3. \A j \in Dials : gone[j] => gone'[j]
  <2>1. CASE WatchHandles(i)
    BY <2>1, HandlerOk DEF WatchHandles, system
  <2>2. CASE ~WatchHandles(i)
    BY <2>2 DEF WatchTick, WatchEnds, WatchReads, WatchFails, WatchDrops, WatchMarks, Marks, marks,
        LinkInv, Typed
  <2> QED BY <2>1, <2>2
<1>4. InOrder' /\ Entered'
  BY <1>1, <1>2 DEF OwedInv, InOrder, Entered
<1>5. Ended'
  <2>1. \A j \in Dials : watch'[j] = watch[j] \/ watch'[j] # "off" \/ gone'[j]
    BY DEF WatchTick, WatchEnds, WatchReads, WatchFails, WatchHandles, WatchDrops, WatchMarks, Marks,
        Begins, marks, LinkInv, Typed
  <2> QED BY <1>1, <1>2, <1>3, <2>1 DEF OwedInv, Ended, Stored
<1>6. Owed'
  BY <1>2, <1>5, WatcherAtWork DEF Owed
<1> QED BY <1>4, <1>5, <1>6 DEF OwedInv

\* While a link is being closed no other one is up.
LEMMA CloseOwed ==
    ASSUME LinkInv, OwedInv, LinkInv', NEW i \in Dials,
           CloseGone(i) \/ CloseHandles(i) \/ CloseDisconnects(i) \/ CloseReturns(i)
    PROVE  OwedInv'
<1>1. /\ UNCHANGED <<plat, conn, late, watch>>
      /\ pc[i] \in {"close", "handle", "drop", "wait"}
      /\ pc' = [pc EXCEPT ![i] = pc'[i]] /\ pc'[i] \in {"drop", "wait", "over"}
      /\ pc'[i] = "over" => gone'[i]
  BY DEF CloseGone, CloseHandles, CloseDisconnects, CloseReturns, Marks, LinkInv, Typed, marks, watcher
<1>2. Typed
  BY DEF LinkInv
<1>3. \A j \in Dials : gone[j] => gone'[j]
  <2>1. CASE CloseHandles(i)
    BY <2>1, HandlerOk DEF CloseHandles, system
  <2>2. CASE ~CloseHandles(i)
    BY <1>2, <2>2 DEF CloseGone, CloseDisconnects, CloseReturns, Marks, Typed, marks
  <2> QED BY <2>1, <2>2
<1>4. InOrder'
  BY <1>1, <1>2, OrderOk DEF OwedInv
<1>5. \A j \in Dials : j # i => pc'[j] = pc[j] /\ pc[j] \in {"idle", "over"}
  BY <1>1, <1>2, OneDial DEF Typed, OwedInv
<1>6. pc'[i] # "over" /\ ~Watched => links' = links /\ gone' = gone
  <2>1. ~Watched => pc[i] # "handle"
    BY DEF OwedInv, Ended
  <2> QED BY <1>1, <1>2, <2>1 DEF CloseGone, CloseHandles, CloseDisconnects, CloseReturns, Typed, marks
<1>7. Entered'
  BY <1>1, <1>5, <1>6 DEF OwedInv, Entered, Watched, AtWork
<1>8. Ended'
  <2>1. \A j \in Dials : Stored(j)' /\ ~gone'[j] => Stored(j) /\ ~gone[j]
    BY <1>1, <1>3, <1>5 DEF Stored
  <2>2. late[i] = "none"
    BY <1>1 DEF OwedInv, Ended
  <2> QED BY <1>1, <1>5, <2>1, <2>2 DEF OwedInv, Ended, Watched
<1>9. Owed'
  BY <1>1, <1>5 DEF Owed
<1> QED BY <1>4, <1>7, <1>8, <1>9 DEF OwedInv

LEMMA OwedStep == ASSUME LinkInv, OwedInv, [Next]_vars PROVE OwedInv'
<1>0. LinkInv'
  BY LinkStep
<1>1. CASE ScanStart \/ ScanCancel \/ ScanRegister \/ ScanStop \/ ScanReturn \/ Finished \/ UNCHANGED vars
  <2>1. UNCHANGED <<plat, dialling>>
    BY <1>1 DEF ScanStart, ScanCancel, ScanRegister, ScanStop, ScanReturn, Finished, vars, dialling,
        system, marks, watcher
  <2> QED BY <2>1, SameOwed
<1>2. ASSUME NEW named \in BOOLEAN, NEW matches \in BOOLEAN, Advert(named, matches)
      PROVE  OwedInv'
  <2>1. UNCHANGED <<plat, dialling>>
    BY <1>2 DEF Advert
  <2> QED BY <2>1, SameOwed
<1>3. CASE TotemDrops
  BY <1>0, <1>3, TotemDropsOwed
<1>4. CASE CallbackLoads \/ CallbackMarks
  BY <1>0, <1>4, CallbackOwed
<1>5. ASSUME NEW i \in Dials,
             \/ Connects(i) \/ Dial(i) \/ DialFails(i) \/ DialCanceled(i) \/ DialStore(i)
             \/ Discover(i) \/ LateConnect(i) \/ LateHandles(i) \/ LateDrop(i)
             \/ WatchTick(i) \/ WatchEnds(i) \/ WatchReads(i) \/ WatchFails(i)
             \/ WatchHandles(i) \/ WatchDrops(i) \/ WatchMarks(i)
             \/ Close(i) \/ CloseGone(i) \/ CloseBegins(i) \/ CloseHandles(i)
             \/ CloseDisconnects(i) \/ CloseReturns(i)
      PROVE  OwedInv'
  BY <1>0, <1>5, DialOwed, LateOwed, LateDropOwed, WatchOwed, CloseOwed
<1> QED BY <1>1, <1>2, <1>3, <1>4, <1>5 DEF Next

\* On every build and for any number of dials, a link that is up although the
\* Totem is no longer connected has a callback on its way that will find it
\* in the table, or the watcher (onDisconnect, watchLink): the callbacks of
\* earlier links never use up its own.
THEOREM OwedHolds == Spec => []Owed
<1>1. Init => LinkInv /\ OwedInv
  BY LinkInit, OwedInit
<1>2. LinkInv /\ OwedInv /\ [Next]_vars => (LinkInv /\ OwedInv)'
  BY LinkStep, OwedStep
<1>3. OwedInv => Owed
  BY DEF OwedInv
<1> QED BY <1>1, <1>2, <1>3, PTL DEF Spec
=============================================================================
