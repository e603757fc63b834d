------------------------------ MODULE Settings ------------------------------
(***************************************************************************)
(* settings.Store (cmd/totememu/settings/settings.go) and the main loop    *)
(* over it (cmd/totememu/main.go): when the settings of a node are written *)
(* to flash, and when they are read back.  A save compares the node with   *)
(* the key of the record it last wrote, and writes only what is new.  The  *)
(* loop saves when a pass has changed the NUMBER of bonds, after a command *)
(* and by the minute.  The sector is read at boot or, on a board whose     *)
(* driver is being brought up, by hand later (Reopen).                     *)
(*                                                                         *)
(* The journal under it is the cell of StableStore: a write that fails may *)
(* have left the old record, the new one or nothing.  A power cut in the   *)
(* middle of a write is one that fails, and a boot.                        *)
(***************************************************************************)
EXTENDS Naturals, FiniteSets

CONSTANTS
    Prefs,      \* what a person chooses besides bonds: name, colour, mute
    NoPref,     \* what a board with nothing saved runs with
    Peers,      \* Totems to bond with
    Scopes,     \* the owned lists (Config.Owned) of the images on the board
    MaxBonds,   \* maxBonds
    MaxBoots,   \* bound on the boots counted
    Faults,     \* what may fail: the read of the sector, a write to it
    None,       \* no record
    Alien       \* a record this version cannot decode

Chosen == [pref : Prefs \cup {NoPref}, bonds : SUBSET Peers]
Records == [set : Chosen, boots : 0..MaxBoots]

ASSUME SettingsAssumption ==
    /\ IsFiniteSet(Peers) /\ Scopes \subseteq SUBSET Peers
    /\ MaxBonds \in Nat
    /\ MaxBoots \in Nat /\ NoPref \notin Prefs
    /\ None \notin Records /\ Alien \notin Records /\ None # Alien
    /\ Faults \subseteq {"read", "write"}

VARIABLES
    flash,      \* what the journal would load
    store,      \* the Store: open (j), key, state, found
    node,       \* the settings the device runs with
    counted,    \* the bonds the main loop last counted
    owned,      \* the owned list of the image that runs
    dropped,    \* peers deleted by the person or a command since the boot
    refused,    \* saved peers a restore has turned away since the boot
    failed      \* a write failed since the boot, and none has landed since

vars == <<flash, store, node, counted, owned, dropped, refused, failed>>

Default == [pref |-> NoPref, bonds |-> {}]
Zero == [set |-> Default, boots |-> 0]

\* A Store without a sector.
Closed == [open |-> FALSE, key |-> None, state |-> Zero, found |-> FALSE]

----------------------------------------------------------------------------

\* Mutant: the key is made after the boot has been counted.
Read_Slip(r) ==
    IF r \in Records
    THEN LET b == [r EXCEPT !.boots = @ + 1]
         IN  [open |-> TRUE, key |-> b, state |-> b, found |-> TRUE]
    ELSE [Closed EXCEPT !.open = TRUE]

\* What Open makes of the sector.  The key of a record that is read is the
\* one on the flash, and its state counts this boot.
Read(r) ==
    IF r \in Records
    THEN [open |-> TRUE, key |-> r, state |-> [r EXCEPT !.boots = @ + 1], found |-> TRUE]
    ELSE [Closed EXCEPT !.open = TRUE]

\* The ways to come out of Open: without the sector, or with what it holds.
Opens == {Read(flash)} \cup IF "read" \in Faults THEN {Closed} ELSE {}

Count(v) == Cardinality(v.bonds)

\* Mutant: one peer that is refused ends the restore.
Restores_Slip(st, v, own) ==
    IF ~st.found THEN {v}
    ELSE {[st.state.set EXCEPT !.bonds = b] :
            b \in {x \in SUBSET (st.state.set.bonds \cup v.bonds) :
                     /\ v.bonds \subseteq x
                     /\ x \ v.bonds \subseteq own
                     /\ x # v.bonds => Cardinality(x) <= MaxBonds}}

\* Restore: the record's choices replace the node's, and its bonds join the
\* ones there are, one by one in the record's order, as far as AddBond takes
\* them: the owned ones, until the list is full.
Restores(st, v, own) ==
    IF ~st.found THEN {v}
    ELSE LET all == v.bonds \cup (st.state.set.bonds \cap own)
         IN  {[st.state.set EXCEPT !.bonds = b] :
                b \in {x \in SUBSET all :
                         /\ v.bonds \subseteq x
                         /\ x # all => Cardinality(x) >= MaxBonds
                         /\ x # v.bonds => Cardinality(x) <= MaxBonds}}

\* The saved bonds AddBond had a reason to refuse, where v came of the restore.
Refused(st, v, own) ==
    {t \in st.state.set.bonds \ v.bonds :
        st.found /\ (t \notin own \/ Count(v) >= MaxBonds)}

\* The ways a write of record b may end, from Store st and flash fl.
Writes(st, fl, b) ==
    {[flash |-> b, store |-> [st EXCEPT !.key = b, !.state = b, !.found = TRUE], failed |-> FALSE]}
    \cup IF "write" \in Faults
         THEN {[flash |-> f, store |-> st, failed |-> TRUE] : f \in {fl, None, b}} ELSE {}

\* Nothing a person changed, and the boot is recorded.
Unchanged(st, b) == st.key = b

\* The ways Save may end; x says whether the write before it failed.
Saves(st, fl, x, v) ==
    LET b == [set |-> v, boots |-> st.state.boots]
    IN  IF ~st.open \/ Unchanged(st, b) THEN {[flash |-> fl, store |-> st, failed |-> x]}
        ELSE Writes(st, fl, b)

Ends(o) == flash' = o.flash /\ store' = o.store /\ failed' = o.failed

\* The pass has looked at the number of bonds: a command and the minute come
\* right after that.
Looked == counted = Count(node)

----------------------------------------------------------------------------

\* The boot: Open, Restore and the Save that records it.  The board may have
\* been flashed with another image in between.
Boot ==
    \E st \in Opens : \E own \in Scopes :
        /\ st.state.boots <= MaxBoots
        /\ owned' = own
        /\ node' \in Restores(st, Default, own)
        /\ \E o \in Saves(st, flash, FALSE, node') : Ends(o)
        /\ counted' = Count(node')
        /\ dropped' = {} /\ refused' = Refused(st, node', own)

\* A board that boots without reading its sector.
BootUnread ==
    /\ store' = Closed /\ node' = Default /\ counted' = 0
    /\ owned' \in Scopes
    /\ dropped' = {} /\ refused' = {} /\ failed' = FALSE
    /\ UNCHANGED flash

\* The fields Reopen takes from the Store it opened.
Adopts(st) == st

\* `store open', and the save that follows every command.
Reopen ==
    /\ Looked /\ ~store.open
    /\ \E st \in Opens :
          /\ st.state.boots <= MaxBoots
          /\ IF st.open
             THEN /\ node' \in Restores(Adopts(st), node, owned)
                  /\ refused' = refused \cup Refused(Adopts(st), node', owned)
                  /\ \E o \in Saves(Adopts(st), flash, failed, node') : Ends(o)
             ELSE UNCHANGED <<node, refused, flash, failed>> /\ store' = Adopts(st)
    /\ UNCHANGED <<counted, owned, dropped>>

\* A gesture, a frame or a command changes what the node runs with.  Only
\* owned Totems are bonded with, and a window may end one past the limit.
Changes(v) ==
    /\ v.bonds \subseteq owned /\ Count(v) <= MaxBonds + 1
    /\ node' = v
    /\ dropped' = dropped \cup (node.bonds \ v.bonds)
    /\ UNCHANGED <<owned, refused>>

\* Frames, jobs and gestures, in a pass before it looks.
Gesture(v) == Changes(v) /\ UNCHANGED <<flash, store, counted, failed>>

\* The look at the number of bonds, and the save if it changed.
Look ==
    /\ ~Looked /\ counted' = Count(node)
    /\ \E o \in Saves(store, flash, failed, node) : Ends(o)
    /\ UNCHANGED <<node, owned, dropped, refused>>

\* A command is followed by a save.
Command(v) ==
    /\ Looked /\ Changes(v)
    /\ \E o \in Saves(store, flash, failed, v) : Ends(o)
    /\ UNCHANGED counted

\* Mutant: there is no save by the minute.
Save_Slip == FALSE /\ UNCHANGED vars

\* The save by the minute.
Save ==
    /\ Looked
    /\ \E o \in Saves(store, flash, failed, node) : Ends(o)
    /\ UNCHANGED <<node, counted, owned, dropped, refused>>

\* Mutant: only the flash is wiped.
Wiped_Slip(v) == v

\* What a factory reset leaves the node with.
Wiped(v) == [v EXCEPT !.bonds = {}]

\* `store forget', and the save that follows every command.
Forget ==
    /\ Looked /\ store.open
    /\ Changes(Wiped(node))
    /\ \E o \in Writes(store, flash, [set |-> node', boots |-> 0]) :
          \E p \in Saves(o.store, o.flash, o.failed, node') : Ends(p)
    /\ UNCHANGED counted

Init ==
    /\ flash \in {None, Alien} \cup {r \in Records : r.boots = 0}
    /\ store = Closed /\ node = Default /\ counted = 0
    /\ owned \in Scopes /\ dropped = {} /\ refused = {} /\ failed = FALSE

Next ==
    \/ Boot \/ BootUnread \/ Reopen \/ Look \/ Save \/ Forget
    \/ \E v \in Chosen : Gesture(v) \/ Command(v)

Spec == Init /\ [][Next]_vars

\* A pass comes to its look, and the minute comes round right after one.
FairSpec == Spec /\ SF_vars(Look) /\ SF_vars(Save)

----------------------------------------------------------------------------
(* Properties *)

\* A bond on the flash is only ever replaced by a record without it when the
\* bond was deleted, or when a restore had to turn it away because the image
\* does not own it or the list was full (AddBond): neither a boot, nor a sector
\* opened late, nor a failed write puts the defaults over the settings of a
\* device, and a bond that is refused takes no other with it (Restore, Reopen).
NoSilentLoss ==
    [][{flash, flash'} \subseteq Records =>
           (flash.set.bonds \ flash'.set.bonds) \subseteq dropped' \cup refused']_vars

\* A boot that reads a record puts in its place the settings the device came
\* up with, and one boot more; if that write fails, the key of the old record
\* is kept, so that the next save tries again (Open, Save).
BootRecorded ==
    [][Boot /\ store'.open /\ flash \in Records
          => \/ flash' = [set |-> node', boots |-> flash.boots + 1]
             \/ store'.key = flash]_vars

\* Once a forget has been written, which starts the count of boots again, the
\* save that follows it leaves no bond on the flash for the next boot to bring
\* back (Forget).
ForgetSticks ==
    [][Forget /\ store'.state.boots < store.state.boots
          => flash' \in Records /\ flash'.set.bonds = {}]_vars

\* As long as no write has failed that none has made good, a bond that is
\* there to stay reaches the flash and stays there, and one that is gone for
\* good leaves it, even where the number of bonds never told the loop (main).
Persisted ==
    \A t \in Peers :
        /\ <>[](store.open /\ ~failed /\ t \in node.bonds)
              => <>[](flash \in Records /\ t \in flash.set.bonds)
        /\ <>[](store.open /\ ~failed /\ t \notin node.bonds)
              => <>[](flash \in Records /\ t \notin flash.set.bonds)
=============================================================================
