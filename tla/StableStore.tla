---------------------------- MODULE StableStore ----------------------------
(***************************************************************************)
(* What the settings journal of store/store.go promises: one cell of       *)
(* stable storage.  A save that returns without an error is what every     *)
(* later load finds, across any number of resets; a save that is cut short *)
(* leaves the old state or the new one, or, if it is one that has to clear *)
(* the sector, nothing.  The promise has one hole: an erase that reports   *)
(* an error after it has cleared something leaves the journal unsure of    *)
(* what it has, until it clears the sector or is opened again.             *)
(***************************************************************************)
CONSTANTS
    Payloads,  \* states that can be saved
    None       \* no saved state

VARIABLES
    durable,   \* what opening the sector now would load
    open,      \* whether the journal is open
    known,     \* what the open journal loads
    busy,      \* the state being saved, or None
    clears,    \* whether that save is one that clears the sector
    sure       \* no erase has cleared anything behind the journal's back

vars == <<durable, open, known, busy, clears, sure>>

Init ==
    /\ durable \in Payloads \cup {None}
    /\ open = FALSE
    /\ known = None
    /\ busy = None
    /\ clears = FALSE
    /\ sure = TRUE

Open ==
    /\ ~open
    /\ open' = TRUE
    /\ known' = durable
    /\ UNCHANGED <<durable, busy, clears, sure>>

Begin(p) ==
    /\ open
    /\ busy = None
    /\ busy' = p
    /\ clears' \in BOOLEAN
    /\ UNCHANGED <<durable, open, known, sure>>

Clear ==
    /\ clears
    /\ durable' = None
    /\ sure' = TRUE
    /\ UNCHANGED <<open, known, busy, clears>>

\* The record becomes readable.
Progress ==
    /\ busy # None
    /\ durable' = busy
    /\ UNCHANGED <<open, known, busy, clears, sure>>

Saved ==
    /\ busy # None
    /\ sure => durable = busy
    /\ known' = busy
    /\ busy' = None
    /\ clears' = FALSE
    /\ UNCHANGED <<durable, open, sure>>

\* A save that fails changes what the journal loads only to admit that
\* nothing is stored any more; or it fails in the middle of clearing, and the
\* journal does not find out.
Failed ==
    /\ busy # None
    /\ busy' = None
    /\ clears' = FALSE
    /\ \/ /\ known' \in {known} \cup (IF clears THEN {None} ELSE {})
          /\ UNCHANGED <<durable, sure>>
       \/ /\ clears
          /\ durable' = None
          /\ sure' = FALSE
          /\ UNCHANGED known
    /\ UNCHANGED open

\* A reset.  It may come while the sector is being cleared.
Crash ==
    /\ open' = FALSE
    /\ known' = None
    /\ busy' = None
    /\ clears' = FALSE
    /\ sure' = TRUE
    /\ \/ UNCHANGED durable
       \/ clears /\ durable' = None

Next ==
    \/ Open
    \/ \E p \in Payloads : Begin(p)
    \/ Clear
    \/ Progress
    \/ Saved
    \/ Failed
    \/ Crash

Spec == Init /\ [][Next]_vars
=============================================================================
