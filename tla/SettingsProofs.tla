--------------------------- MODULE SettingsProofs ---------------------------
(***************************************************************************)
(* The settings store, for every set of peers, every kind of preference    *)
(* and every combination of faults: what is on the flash is never lost by  *)
(* anything but a deletion or a bond the image has to refuse, every boot   *)
(* is recorded or tried again, a forget that was written sticks, and until *)
(* a write fails what counts as saved is on the flash.                     *)
(***************************************************************************)
EXTENDS Settings, TLAPS

\* A Store whose record counts no more boots than the bound.
Stores == [open : BOOLEAN, key : Records \cup {None}, state : Records, found : BOOLEAN]

\* Everything has its type.
Typed ==
    /\ flash \in Records \cup {None, Alien}
    /\ store \in Stores
    /\ node \in Chosen

\* The bonds whose loss is accounted for.
Excused == dropped \cup refused

\* A store that may write has the bonds of the flash in the node, but for
\* the ones that were deleted or refused: what lets a save replace the record.
Covered == store.open /\ flash \in Records => flash.set.bonds \subseteq node.bonds \cup Excused

IInv == Typed /\ Covered

-----------------------------------------------------------------------------
(* Writing. *)

\* What Store st saves of settings v, and the Store once that is written.
Rec(st, v) == [set |-> v, boots |-> st.state.boots]
Written(st, b) == [st EXCEPT !.key = b, !.state = b, !.found = TRUE]

\* The ways a write ends: done, or failed with the Store as it was.
LEMMA WritesEnd ==
    ASSUME NEW st, NEW fl, NEW b, NEW o \in Writes(st, fl, b)
    PROVE  \/ o.flash = b /\ o.store = Written(st, b)
           \/ o.flash \in {fl, None, b} /\ o.store = st
BY DEF Writes, Written

\* The ways a save ends: nothing to do or nowhere to write, or a write.
LEMMA SavesEnd ==
    ASSUME NEW st, NEW fl, NEW x, NEW v, NEW o \in Saves(st, fl, x, v)
    PROVE  \/ /\ ~st.open \/ st.key = Rec(st, v)
              /\ o.flash = fl /\ o.store = st
           \/ /\ st.open /\ st.key # Rec(st, v)
              /\ \/ o.flash = Rec(st, v) /\ o.store = Written(st, Rec(st, v))
                 \/ o.flash \in {fl, None, Rec(st, v)} /\ o.store = st
<1>1. CASE ~st.open \/ st.key = Rec(st, v)
  BY <1>1 DEF Saves, Unchanged, Rec
<1>2. CASE st.open /\ st.key # Rec(st, v)
  <2>1. o \in Writes(st, fl, Rec(st, v))
    BY <1>2 DEF Saves, Unchanged, Rec
  <2> QED BY <2>1, <1>2, WritesEnd
<1> QED BY <1>1, <1>2

\* Saving settings v from an open Store leaves a flash the settings cover,
\* whenever they covered it before, and loses no bond they have.
LEMMA SaveCovers ==
    ASSUME NEW st, NEW fl, NEW x, NEW v, NEW d, NEW o \in Saves(st, fl, x, v),
           st.open /\ fl \in Records => fl.set.bonds \subseteq v.bonds \cup d
    PROVE  /\ st.open /\ o.flash \in Records => o.flash.set.bonds \subseteq v.bonds \cup d
           /\ fl \in Records /\ o.flash \in Records => fl.set.bonds \ o.flash.set.bonds \subseteq d
<1>1. o.flash \in {fl, None, Rec(st, v)} /\ (~st.open => o.flash = fl)
  BY SavesEnd
<1>2. Rec(st, v).set = v
  BY DEF Rec
<1>3. None \notin Records
  BY SettingsAssumption
<1> QED BY <1>1, <1>2, <1>3

\* Writing a record keeps the Store a Store, as open as it was.
LEMMA WrittenType ==
    ASSUME NEW st \in Stores, NEW b \in Records
    PROVE  /\ Written(st, b) \in Stores /\ Written(st, b).open = st.open
           /\ Written(st, b).state = b /\ Written(st, b).key = b
BY DEF Stores, Written

LEMMA RecType ==
    ASSUME NEW st \in Stores, NEW v \in Chosen
    PROVE  Rec(st, v) \in Records /\ Rec(st, v).boots = st.state.boots
BY DEF Stores, Rec, Records

\* The Store a save ends with is as open as it was and still counts boots.
LEMMA SaveKeeps ==
    ASSUME NEW st \in Stores, NEW fl \in Records \cup {None, Alien}, NEW x, NEW v \in Chosen,
           NEW o \in Saves(st, fl, x, v)
    PROVE  /\ o.store \in Stores /\ o.flash \in Records \cup {None, Alien}
           /\ o.store.open = st.open /\ o.store.state.boots = st.state.boots
<1>1. o.store \in {st, Written(st, Rec(st, v))} /\ o.flash \in {fl, None, Rec(st, v)}
  BY SavesEnd
<1>2. Rec(st, v) \in Records /\ Rec(st, v).boots = st.state.boots
  BY RecType
<1>3. /\ Written(st, Rec(st, v)) \in Stores /\ Written(st, Rec(st, v)).open = st.open
      /\ Written(st, Rec(st, v)).state = Rec(st, v)
  BY <1>2, WrittenType
<1> QED BY <1>1, <1>2, <1>3

-----------------------------------------------------------------------------
(* Opening. *)

\* A Store that was opened is closed, has found nothing, or holds the record
\* of the flash and counts one boot more.
LEMMA OpensAs ==
    ASSUME NEW st \in Opens, st.state.boots <= MaxBoots,
           flash \in Records \cup {None, Alien}
    PROVE  /\ st \in Stores
           /\ st.found => st.open /\ flash \in Records /\ st.state.set = flash.set
           /\ st.open /\ flash \in Records =>
                /\ st.found /\ st.key = flash
                /\ st.state.boots = flash.boots + 1
<1>1. Closed \in Stores /\ ~Closed.open /\ ~Closed.found
  BY SettingsAssumption DEF Closed, Stores, Zero, Default, Records, Chosen
<1>2. CASE st = Closed
  BY <1>1, <1>2
<1>3. CASE st = Read(flash) /\ flash \in Records
  <2>1. st = [open |-> TRUE, key |-> flash, state |-> [flash EXCEPT !.boots = @ + 1], found |-> TRUE]
    BY <1>3 DEF Read
  <2>2. /\ st.state = [flash EXCEPT !.boots = @ + 1]
        /\ st.open /\ st.found /\ st.key = flash
    BY <2>1
  <2>3. st.state.set = flash.set /\ st.state.boots = flash.boots + 1 /\ flash.boots \in Nat
    BY <2>2, <1>3, SettingsAssumption DEF Records
  <2>4. st.state \in Records
    BY <2>2, <2>3, <1>3, SettingsAssumption DEF Records
  <2> QED BY <2>1, <2>2, <2>3, <2>4, <1>3 DEF Stores
<1>4. CASE st = Read(flash) /\ flash \notin Records
  <2>1. st = [Closed EXCEPT !.open = TRUE]
    BY <1>4 DEF Read
  <2> QED BY <2>1, <1>1, <1>4 DEF Stores
<1> QED BY <1>2, <1>3, <1>4 DEF Opens

\* What a restore leaves is settings, with the bonds there were and those of
\* the record that nothing spoke against.
LEMMA RestoresAs ==
    ASSUME NEW st \in Stores, NEW v \in Chosen, NEW own, NEW w \in Restores(st, v, own)
    PROVE  /\ w \in Chosen
           /\ st.found => st.state.set.bonds \subseteq w.bonds \cup Refused(st, w, own)
<1>1. CASE ~st.found
  BY <1>1 DEF Restores
<1>2. CASE st.found
  <2> DEFINE old == st.state.set
             all == v.bonds \cup (old.bonds \cap own)
  <2>1. PICK x \in SUBSET all :
          /\ x # all => Cardinality(x) >= MaxBonds
          /\ w = [old EXCEPT !.bonds = x]
    BY <1>2 DEF Restores
  <2>2. old \in Chosen /\ all \subseteq Peers
    BY DEF Stores, Records, Chosen
  <2>3. w \in Chosen /\ w.bonds = x
    BY <2>1, <2>2 DEF Chosen
  <2>4. ASSUME NEW t \in old.bonds, t \notin x PROVE t \in Refused(st, w, own)
    <3>1. t \notin own \/ Cardinality(x) >= MaxBonds
      BY <2>1, <2>4
    <3> QED BY <3>1, <2>3, <2>4, <1>2 DEF Refused, Count
  <2> QED BY <2>3, <2>4
<1> QED BY <1>1, <1>2

-----------------------------------------------------------------------------
(* The inductive invariant. *)

LEMMA InitInv == Init => IInv
<1> SUFFICES ASSUME Init PROVE IInv
  OBVIOUS
<1>1. Closed \in Stores /\ ~Closed.open /\ Default \in Chosen
  BY SettingsAssumption DEF Closed, Stores, Zero, Default, Records, Chosen
<1> QED BY <1>1 DEF Init, IInv, Typed, Covered

\* A save of settings that cover the flash, from a Store that is typed.
LEMMA SaveInv ==
    ASSUME NEW st \in Stores, flash \in Records \cup {None, Alien}, node' \in Chosen,
           st.open /\ flash \in Records => flash.set.bonds \subseteq node'.bonds \cup Excused',
           NEW x, NEW o \in Saves(st, flash, x, node'), Ends(o)
    PROVE  /\ IInv'
           /\ flash \in Records /\ flash' \in Records =>
                 flash.set.bonds \ flash'.set.bonds \subseteq Excused'
<1>1. flash' = o.flash /\ store' = o.store
  BY DEF Ends
<1>2. /\ store' \in Stores /\ flash' \in Records \cup {None, Alien}
      /\ store'.open = st.open
  BY <1>1, SaveKeeps
<1>3. /\ st.open /\ flash' \in Records => flash'.set.bonds \subseteq node'.bonds \cup Excused'
      /\ flash \in Records /\ flash' \in Records => flash.set.bonds \ flash'.set.bonds \subseteq Excused'
  BY <1>1, SaveCovers
<1> QED BY <1>2, <1>3 DEF IInv, Typed, Covered

\* A step keeps the invariant, and loses no bond that was not deleted.
LEMMA StepInv ==
    ASSUME IInv, [Next]_vars
    PROVE  /\ IInv'
           /\ flash \in Records /\ flash' \in Records =>
                 flash.set.bonds \ flash'.set.bonds \subseteq Excused'
<1> USE DEF IInv, Typed
<1>0. Closed \in Stores /\ ~Closed.open /\ Default \in Chosen /\ Default.bonds = {}
  BY SettingsAssumption DEF Closed, Stores, Zero, Default, Records, Chosen
<1>1. CASE Boot
  <2>1. PICK st \in Opens : st.state.boots <= MaxBoots /\
          \E own \in Scopes :
            /\ node' \in Restores(st, Default, own)
            /\ refused' = Refused(st, node', own)
            /\ \E o \in Saves(st, flash, FALSE, node') : Ends(o)
    BY <1>1 DEF Boot
  <2>2. /\ st \in Stores
        /\ st.open /\ flash \in Records => st.found /\ st.state.set = flash.set
    BY <2>1, OpensAs
  <2>3. node' \in Chosen /\ (st.found => st.state.set.bonds \subseteq node'.bonds \cup Excused')
    BY <2>1, <2>2, <1>0, RestoresAs DEF Excused
  <2> QED BY <2>1, <2>2, <2>3, SaveInv
<1>2. CASE BootUnread
  BY <1>2, <1>0 DEF BootUnread, Covered
<1>3. CASE Reopen
  <2>1. PICK st \in Opens :
          /\ st.state.boots <= MaxBoots
          /\ IF st.open
             THEN /\ node' \in Restores(st, node, owned)
                  /\ refused' = refused \cup Refused(st, node', owned)
                  /\ \E o \in Saves(st, flash, failed, node') : Ends(o)
             ELSE UNCHANGED <<node, refused, flash, failed>> /\ store' = st
    BY <1>3 DEF Reopen, Adopts
  <2>2. /\ st \in Stores
        /\ st.open /\ flash \in Records => st.found /\ st.state.set = flash.set
    BY <2>1, OpensAs
  <2>3. CASE st.open
    <3>1. node' \in Chosen /\ (st.found => st.state.set.bonds \subseteq node'.bonds \cup Excused')
      BY <2>1, <2>2, <2>3, RestoresAs DEF Excused
    <3> QED BY <2>1, <2>2, <2>3, <3>1, SaveInv
  <2>4. CASE ~st.open
    BY <2>1, <2>2, <2>4 DEF Covered
  <2> QED BY <2>3, <2>4
<1>4. CASE Save
  <2>1. PICK o \in Saves(store, flash, failed, node) : Ends(o) /\ UNCHANGED <<node, dropped, refused>>
    BY <1>4 DEF Save
  <2> QED BY <2>1, SaveInv DEF Covered, Excused
<1>9. CASE Look
  <2>1. PICK o \in Saves(store, flash, failed, node) : Ends(o)
    BY <1>9 DEF Look
  <2>2. UNCHANGED <<node, dropped, refused>>
    BY <1>9 DEF Look
  <2> QED BY <2>1, <2>2, SaveInv DEF Covered, Excused
<1>5. CASE Forget
  <2>1. PICK o \in Writes(store, flash, [set |-> node', boots |-> 0]) :
          \E p \in Saves(o.store, o.flash, o.failed, node') : Ends(p)
    BY <1>5 DEF Forget
  <2>2. PICK p \in Saves(o.store, o.flash, o.failed, node') : Ends(p)
    BY <2>1
  <2>3. /\ node' = Wiped(node)
        /\ Excused' = Excused \cup (node.bonds \ node'.bonds)
        /\ store.open
    BY <1>5 DEF Forget, Changes, Excused
  <2>4. node' \in Chosen /\ node'.bonds = {}
    BY <2>3 DEF Wiped, Chosen
  <2>5. flash \in Records => flash.set.bonds \subseteq node'.bonds \cup Excused'
    BY <2>3, <2>4 DEF Covered
  <2>6. DEFINE b == [set |-> node', boots |-> 0]
  <2>7. b \in Records /\ b.set = node'
    BY <2>4, SettingsAssumption DEF Records
  <2>8. /\ o.flash \in {flash, None, b} /\ o.store \in {store, Written(store, b)}
    BY WritesEnd
  <2>9. Written(store, b) \in Stores /\ Written(store, b).open = store.open
    BY <2>7, WrittenType
  <2>10. o.store \in Stores /\ o.store.open /\ o.flash \in Records \cup {None, Alien}
    BY <2>7, <2>8, <2>9, <2>3
  <2>11. o.flash \in Records => o.flash.set.bonds \subseteq node'.bonds \cup Excused'
    BY <2>5, <2>7, <2>8, SettingsAssumption
  <2>12. /\ p.store \in Stores /\ p.flash \in Records \cup {None, Alien}
         /\ p.store.open
    BY <2>2, <2>4, <2>10, SaveKeeps
  <2>13. p.flash \in Records => p.flash.set.bonds \subseteq node'.bonds \cup Excused'
    BY <2>2, <2>10, <2>11, SaveCovers
  <2>14. flash' = p.flash /\ store' = p.store
    BY <2>2 DEF Ends
  <2> QED BY <2>3, <2>4, <2>5, <2>12, <2>13, <2>14 DEF Covered
<1>6. ASSUME NEW v \in Chosen, Gesture(v)
      PROVE  /\ IInv'
             /\ flash \in Records /\ flash' \in Records =>
                   flash.set.bonds \ flash'.set.bonds \subseteq Excused'
  <2>1. node' = v /\ Excused' = Excused \cup (node.bonds \ v.bonds) /\ UNCHANGED <<flash, store>>
    BY <1>6 DEF Gesture, Changes, Excused
  <2> QED BY <2>1 DEF Covered
<1>7. ASSUME NEW v \in Chosen, Command(v)
      PROVE  /\ IInv'
             /\ flash \in Records /\ flash' \in Records =>
                   flash.set.bonds \ flash'.set.bonds \subseteq Excused'
  <2>1. PICK o \in Saves(store, flash, failed, v) : Ends(o)
    BY <1>7 DEF Command
  <2>2. node' = v /\ Excused' = Excused \cup (node.bonds \ v.bonds)
    BY <1>7 DEF Command, Changes, Excused
  <2>3. store.open /\ flash \in Records => flash.set.bonds \subseteq node'.bonds \cup Excused'
    BY <2>2 DEF Covered
  <2> QED BY <2>1, <2>2, <2>3, SaveInv
<1>8. CASE UNCHANGED vars
  BY <1>8 DEF vars, Covered, Excused
<1> QED BY <1>1, <1>2, <1>3, <1>4, <1>5, <1>6, <1>7, <1>8, <1>9 DEF Next

-----------------------------------------------------------------------------
(* The theorems. *)

THEOREM InvHolds == Spec => []IInv
<1>1. IInv /\ [Next]_vars => IInv'
  BY StepInv
<1> QED BY <1>1, InitInv, PTL DEF Spec

\* Nothing takes a bond from the flash but a deletion, or a restore that had to
\* refuse it: no boot, no sector opened late, no failed write (Open, Restore,
\* Reopen, Save, Forget).
THEOREM NoSilentLossHolds == Spec => NoSilentLoss
<1>1. IInv /\ [Next]_vars =>
        [{flash, flash'} \subseteq Records =>
            (flash.set.bonds \ flash'.set.bonds) \subseteq dropped' \cup refused']_vars
  BY StepInv DEF Excused
<1> QED BY <1>1, InvHolds, PTL DEF Spec, NoSilentLoss

\* A boot that reads a record counts it on the flash, with the settings it
\* came up with, or keeps the old key so that the next save tries again.
THEOREM BootRecordedHolds == Spec => BootRecorded
<1>1. ASSUME IInv, Boot, store'.open, flash \in Records
      PROVE  \/ flash' = [set |-> node', boots |-> flash.boots + 1]
             \/ store'.key = flash
  <2>1. PICK st \in Opens : st.state.boots <= MaxBoots /\
          \E own \in Scopes :
            /\ node' \in Restores(st, Default, own)
            /\ \E o \in Saves(st, flash, FALSE, node') : Ends(o)
    BY <1>1 DEF Boot
  <2> DEFINE x == FALSE
  <2>2. PICK o \in Saves(st, flash, x, node') : Ends(o)
    BY <2>1
  <2> HIDE DEF x
  <2>3. /\ st \in Stores
        /\ st.open => st.key = flash /\ st.state.boots = flash.boots + 1
    BY <2>1, <1>1, OpensAs
  <2>4. Default \in Chosen
    BY SettingsAssumption DEF Default, Chosen
  <2>5. node' \in Chosen
    BY <2>1, <2>3, <2>4, RestoresAs
  <2>6. st.open
    BY <2>2, <2>3, <2>5, <1>1, SaveKeeps DEF Ends
  <2>7. flash' = o.flash /\ store' = o.store
    BY <2>2 DEF Ends
  <2>8. o.flash = Rec(st, node') \/ o.store = st
    BY <2>2, SavesEnd
  <2>9. CASE o.store = st
    BY <2>9, <2>3, <2>6, <2>7
  <2>10. CASE o.flash = Rec(st, node')
    BY <2>10, <2>3, <2>6, <2>7 DEF Rec
  <2> QED BY <2>8, <2>9, <2>10
<1>2. IInv /\ [Next]_vars =>
        [Boot /\ store'.open /\ flash \in Records
            => \/ flash' = [set |-> node', boots |-> flash.boots + 1]
               \/ store'.key = flash]_vars
  BY <1>1
<1> QED BY <1>2, InvHolds, PTL DEF Spec, BootRecorded

\* A forget that was written leaves no bond on the flash, although a save
\* follows it: the Store knows the record that was written, so the save finds
\* nothing new.
THEOREM ForgetSticksHolds == Spec => ForgetSticks
<1>1. ASSUME IInv, Forget, store'.state.boots < store.state.boots
      PROVE  flash' \in Records /\ flash'.set.bonds = {}
  <2> DEFINE b == [set |-> node', boots |-> 0]
  <2>1. PICK o \in Writes(store, flash, b) : \E p \in Saves(o.store, o.flash, o.failed, node') : Ends(p)
    BY <1>1 DEF Forget
  <2>2. PICK p \in Saves(o.store, o.flash, o.failed, node') : Ends(p)
    BY <2>1
  <2>3. node' = Wiped(node) /\ node \in Chosen /\ store \in Stores
        /\ flash \in Records \cup {None, Alien}
    BY <1>1 DEF Forget, Changes, IInv, Typed
  <2>4. node' \in Chosen /\ node'.bonds = {}
    BY <2>3 DEF Wiped, Chosen
  <2>5. b \in Records /\ b.set = node' /\ b.boots = 0
    BY <2>4, SettingsAssumption DEF Records
  <2>6. flash' = p.flash /\ store' = p.store
    BY <2>2 DEF Ends
  <2>7. /\ Written(store, b) \in Stores /\ Written(store, b).key = b
        /\ Written(store, b).state = b
    BY <2>3, <2>5, WrittenType
  <2>8. \/ o.flash = b /\ o.store = Written(store, b)
        \/ o.flash \in {flash, None, b} /\ o.store = store
    BY WritesEnd
  <2>9. CASE o.flash = b /\ o.store = Written(store, b)
    <3>1. Rec(o.store, node') = b
      BY <2>9, <2>7, <2>5 DEF Rec
    <3>2. o.store.key = Rec(o.store, node')
      BY <3>1, <2>9, <2>7
    <3>3. p.flash = o.flash
      BY <3>2, <2>2, SavesEnd
    <3> QED BY <3>3, <2>9, <2>5, <2>4, <2>6
  <2>10. CASE o.flash \in {flash, None, b} /\ o.store = store
    <3>1. o.flash \in Records \cup {None, Alien}
      BY <2>10, <2>3, <2>5
    <3>2. p.store.state.boots = store.state.boots
      BY <3>1, <2>10, <2>2, <2>3, <2>4, SaveKeeps
    <3>3. store.state.boots \in Nat
      BY <2>3, SettingsAssumption DEF Stores, Records
    <3> QED BY <3>2, <3>3, <2>6, <1>1
  <2> QED BY <2>8, <2>9, <2>10
<1>2. IInv /\ [Next]_vars =>
        [Forget /\ store'.state.boots < store.state.boots
            => flash' \in Records /\ flash'.set.bonds = {}]_vars
  BY <1>1
<1> QED BY <1>2, InvHolds, PTL DEF Spec, ForgetSticks

-----------------------------------------------------------------------------
(* What a save leaves: the part of Persisted that is no liveness. *)

\* The key is that of the record on the flash, unless a write failed since.
KeyOf(st, fl, x) == x = FALSE /\ st.open /\ st.key \in Records => fl = st.key

KeyTrue == failed \in BOOLEAN /\ KeyOf(store, flash, failed)

\* After every step that ends in a save, the flash holds what the node runs
\* with, unless the Store has no sector or a write failed that none made good.
Saving == Boot \/ Reopen \/ Look \/ Save \/ Forget \/ \E v \in Chosen : Command(v)
Current == store.open /\ ~failed => flash = Rec(store, node)
SaveLands == [][Saving => Current']_vars

LEMMA SaveKeys ==
    ASSUME NEW st \in Stores, NEW fl, NEW x \in BOOLEAN, NEW v \in Chosen, KeyOf(st, fl, x),
           NEW o \in Saves(st, fl, x, v)
    PROVE  /\ o.failed \in BOOLEAN /\ KeyOf(o.store, o.flash, o.failed)
           /\ o.store.open /\ o.failed = FALSE => o.flash = Rec(o.store, v)
<1>1. Rec(st, v) \in Records
  BY RecType
<1>2. CASE ~st.open \/ st.key = Rec(st, v)
  <2>1. o = [flash |-> fl, store |-> st, failed |-> x]
    BY <1>2 DEF Saves, Unchanged, Rec
  <2>2. o.flash = fl /\ o.store = st /\ o.failed = x
    BY <2>1
  <2> QED BY <1>1, <1>2, <2>2 DEF KeyOf
<1>3. CASE st.open /\ st.key # Rec(st, v)
  <2>1. o \in Writes(st, fl, Rec(st, v))
    BY <1>3 DEF Saves, Unchanged, Rec
  <2>2. \/ o.flash = Rec(st, v) /\ o.store = Written(st, Rec(st, v)) /\ o.failed = FALSE
        \/ o.failed = TRUE
    BY <2>1 DEF Writes, Written
  <2>3. /\ Written(st, Rec(st, v)).key = Rec(st, v) /\ Written(st, Rec(st, v)).state = Rec(st, v)
        /\ Rec(st, v).boots = st.state.boots
    BY <1>1, WrittenType, RecType
  <2>4. Rec(Written(st, Rec(st, v)), v) = Rec(st, v)
    BY <2>3 DEF Rec
  <2> QED BY <2>2, <2>3, <2>4 DEF KeyOf
<1> QED BY <1>2, <1>3

\* A save of settings node' from Store st ends with a key that is true.
LEMMA SaveLeaves ==
    ASSUME NEW st \in Stores, NEW fl, NEW x \in BOOLEAN, node' \in Chosen, KeyOf(st, fl, x),
           NEW o \in Saves(st, fl, x, node'), Ends(o)
    PROVE  KeyTrue' /\ Current'
<1>1. /\ o.failed \in BOOLEAN /\ KeyOf(o.store, o.flash, o.failed)
      /\ o.store.open /\ o.failed = FALSE => o.flash = Rec(o.store, node')
  BY SaveKeys
<1>2. flash' = o.flash /\ store' = o.store /\ failed' = o.failed
  BY DEF Ends
<1>3. Rec(store', node') = Rec(store, node)'
  BY DEF Rec
<1> QED BY <1>1, <1>2, <1>3 DEF KeyTrue, Current

LEMMA KeyStep ==
    ASSUME IInv, KeyTrue, [Next]_vars
    PROVE  KeyTrue' /\ (Saving => Current')
<1> USE DEF IInv, Typed
<1>0. Default \in Chosen /\ ~Closed.open /\ None \notin Records
  BY SettingsAssumption DEF Default, Chosen, Closed
<1>1. ASSUME NEW st \in Opens, st.state.boots <= MaxBoots PROVE st \in Stores /\ \A x : KeyOf(st, flash, x)
  <2>1. st \in Stores /\ (st.open /\ flash \in Records => st.key = flash)
    BY <1>1, OpensAs
  <2>2. flash \notin Records => st.key = None
    BY <1>1 DEF Opens, Read, Closed
  <2> QED BY <1>0, <2>1, <2>2 DEF KeyOf
<1>2. CASE Boot
  <2>1. PICK st \in Opens : st.state.boots <= MaxBoots /\
          \E own \in Scopes :
            /\ node' \in Restores(st, Default, own)
            /\ \E o \in Saves(st, flash, FALSE, node') : Ends(o)
    BY <1>2 DEF Boot
  <2>2. PICK x \in BOOLEAN : x = FALSE
    OBVIOUS
  <2>3. PICK o \in Saves(st, flash, x, node') : Ends(o)
    BY <2>1, <2>2
  <2>4. st \in Stores /\ KeyOf(st, flash, x) /\ node' \in Chosen
    BY <1>0, <1>1, <2>1, RestoresAs
  <2> QED BY <2>3, <2>4, SaveLeaves
<1>3. ASSUME BootUnread PROVE KeyTrue'
  BY <1>0, <1>3 DEF BootUnread, KeyTrue, KeyOf
<1>4. CASE Reopen
  <2>1. PICK st \in Opens :
          /\ st.state.boots <= MaxBoots
          /\ IF st.open
             THEN /\ node' \in Restores(st, node, owned)
                  /\ \E o \in Saves(st, flash, failed, node') : Ends(o)
             ELSE UNCHANGED <<node, flash, failed>> /\ store' = st
    BY <1>4 DEF Reopen, Adopts
  <2>2. CASE st.open
    <3>1. PICK o \in Saves(st, flash, failed, node') : Ends(o)
      BY <2>1, <2>2 DEF Adopts
    <3>2. st \in Stores /\ KeyOf(st, flash, failed) /\ node' \in Chosen
      BY <1>1, <2>1, <2>2, RestoresAs DEF Adopts
    <3> QED BY <3>1, <3>2, SaveLeaves DEF KeyTrue
  <2>3. CASE ~st.open
    BY <2>1, <2>3 DEF Adopts, KeyTrue, KeyOf, Current
  <2> QED BY <2>2, <2>3
<1>5. CASE Look \/ Save
  <2>1. node' = node
    BY <1>5 DEF Look, Save
  <2>2. PICK o \in Saves(store, flash, failed, node') : Ends(o)
    BY <1>5, <2>1 DEF Look, Save
  <2> QED BY <2>1, <2>2, SaveLeaves DEF KeyTrue
<1>6. CASE Forget
  <2> DEFINE b == [set |-> node', boots |-> 0]
  <2>1. PICK o \in Writes(store, flash, b) : \E p \in Saves(o.store, o.flash, o.failed, node') : Ends(p)
    BY <1>6 DEF Forget
  <2>2. PICK p \in Saves(o.store, o.flash, o.failed, node') : Ends(p)
    BY <2>1
  <2>3. node' \in Chosen
    BY <1>6 DEF Forget, Changes, Wiped, Chosen
  <2>4. b \in Records
    BY <2>3, SettingsAssumption DEF Records
  <2> HIDE DEF b
  <2>5. \/ o.flash = b /\ o.store = Written(store, b) /\ o.failed = FALSE
        \/ o.store = store /\ o.failed = TRUE
    BY DEF Writes, Written
  <2>6. Written(store, b) \in Stores /\ Written(store, b).key = b
    BY <2>4, WrittenType
  <2>7. o.store \in Stores /\ o.failed \in BOOLEAN /\ KeyOf(o.store, o.flash, o.failed)
    BY <2>5, <2>6 DEF KeyOf
  <2> QED BY <2>2, <2>3, <2>7, SaveLeaves
<1>7. ASSUME NEW v \in Chosen, Command(v) PROVE KeyTrue' /\ Current'
  <2>1. node' = v
    BY <1>7 DEF Command, Changes
  <2>2. PICK o \in Saves(store, flash, failed, node') : Ends(o)
    BY <1>7, <2>1 DEF Command
  <2> QED BY <2>1, <2>2, SaveLeaves DEF KeyTrue
<1>8. ASSUME UNCHANGED <<flash, store, failed>> PROVE KeyTrue'
  BY <1>8 DEF KeyTrue
<1>9. Saving => KeyTrue' /\ Current'
  BY <1>2, <1>4, <1>5, <1>6, <1>7 DEF Saving
<1>10. ~Saving => KeyTrue'
  <2>1. ~Saving => BootUnread \/ UNCHANGED <<flash, store, failed>>
    BY DEF Next, Saving, Gesture, vars
  <2> QED BY <1>3, <1>8, <2>1
<1> QED BY <1>9, <1>10

\* After a boot that read its sector, a late opening, a look, a command, a
\* forget and the save by the minute, whatever they found to write, the flash
\* holds what the node runs with, as long as no write has failed that none has
\* made good: the key that lets Store.Save do nothing is that of the record
\* which is there.
THEOREM SaveLandsHolds == Spec => SaveLands
<1>1. Init => KeyTrue
  <2>1. Closed.open = FALSE
    BY DEF Closed
  <2>2. Init => failed = FALSE /\ store = Closed
    BY DEF Init
  <2> QED BY <2>1, <2>2 DEF KeyTrue, KeyOf
<1>2. IInv /\ KeyTrue /\ [Next]_vars => KeyTrue' /\ [Saving => Current']_vars
  BY KeyStep
<1> QED BY <1>1, <1>2, InvHolds, PTL DEF Spec, SaveLands
=============================================================================
