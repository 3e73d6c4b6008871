-------------------------- MODULE MCRolloutExecutor ---------------------------
(***************************************************************************)
(* Small instances of RolloutExecutor for TLC.                             *)
(***************************************************************************)
EXTENDS RolloutExecutor, TLC

CONSTANTS pub, r1, r2, e1, e2

\* Every rollout executor in a process of its own.
OwnBridges == (e1 :> r1) @@ (e2 :> r2)
OneOwnBridge == e1 :> r1

\* Trainer and executor in one process, on one bridge object.
SharedBridge == e1 :> pub

\* Update ids are interchangeable, and so are the two rollout processes: an
\* executor together with the bridge it owns.
SwapProcesses == (e1 :> e2) @@ (e2 :> e1) @@ (r1 :> r2) @@ (r2 :> r1)
UpdateSymmetry == Permutations(Updates)
Symmetry == UpdateSymmetry \cup {SwapProcesses}
=============================================================================
