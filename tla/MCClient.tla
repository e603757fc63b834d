------------------------------ MODULE MCClient ------------------------------
(* Instances of Client for TLC. *)
EXTENDS Client

\* A batch of two commands.
TwoFrames == {<<Frame("data", "none"), Frame("data", "none")>>}

\* Two Sends that race the grants; one whose grants may fail and that Close may
\* end; and a session that lists the peers in legacy mode.
Sessions ==
    {{"two", "half", "auto", "send", "timeout", "drop"},
     {"half", "auto", "send", "close", "fail", "patient"},
     {"list", "fail", "prompt"}}
=============================================================================
