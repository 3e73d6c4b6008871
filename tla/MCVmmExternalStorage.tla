------------------------- MODULE MCVmmExternalStorage -------------------------
(***************************************************************************)
(* Small instances of VmmExternalStorage for TLC.                          *)
(***************************************************************************)
EXTENDS VmmExternalStorage, TLC

CONSTANTS w1, w2, p1, p2, p3, u1, u2, u3

\* Two workers with the same two parameters.
SameParameters == [w \in Workers |-> {p1, p2}]

\* A worker that lacks a parameter the other one has (a pipeline stage).
SplitParameters == (w1 :> {p1, p2}) @@ (w2 :> {p1})

\* All manifests name the parameters.
FullManifests == [u \in Updates |-> {p1, p2}]

\* Two full manifests, and one with a tensor that no worker can bind.
MixedManifests == (u1 :> {p1, p2}) @@ (u2 :> {p1, p2}) @@ (u3 :> {p1, p3})

\* Only switches: the update an install is asked for is never the active one.
SwitchNext ==
    \/ CallProgress
    \/ \E u \in Updates \ {adapterId} : StartInstall(u)

SwitchSpec == Init /\ [][SwitchNext]_vars
=============================================================================
