-------------------------- MODULE MCTrainingContract --------------------------
(***************************************************************************)
(* Small instances of TrainingContract for TLC.                            *)
(***************************************************************************)
EXTENDS TrainingContract

\* Nothing, one part at either place, or both on the candidate.
FewLoads ==
    {load \in [reward : {"none", "own", "nested"}, row : {"none", "own", "nested"}] :
        load.reward = "none" \/ load.row = "none" \/ load = [reward |-> "own", row |-> "own"]}

\* Payloads that are followed up: those of more than three different candidates only
\* with empty and short completions and everything on the candidate itself.
Explored ==
    payload # NoPayload =>
        \/ Cardinality(AllCandidates) <= 3
        \/ \A c \in AllCandidates : c.len <= 1 /\ c.nested = None /\ c.nestedRow = None
=============================================================================
