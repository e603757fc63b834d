------------------------------ MODULE MCMesh ------------------------------
(* Two Totems that trust each other and a stranger.  Each kit is one story: *)
(* strangers' frames, lost peers and power cycles, the schedule.            *)
EXTENDS Mesh, TLC

CONSTANTS a, b

KitsChecked == {{"foreign"}, {"foreign", "crowd"}, {"seek", "status"}, {"seek", "power"},
                {"clock", "status", "power"}}

\* b's clock is one ahead of a's and the stranger's.
OneAhead == {a :> 0 @@ b :> 1}

\* a gives way to b.
OneYields == {<<a, b>>}
=============================================================================
