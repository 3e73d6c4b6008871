---------------------------- MODULE MCTrainingLoop ----------------------------
(* An AMD host, whose attention has two backends; each actor may be        *)
(* started again once.                                                     *)
EXTENDS TrainingLoop

mcDevices ==
    {[platform |-> "rocm", sm90LinearLogp |-> FALSE, sm90Logp |-> FALSE, rocmAttn |-> "flash_attn"]}

mcMaxRestarts == [p \in Processes |-> 1]
mcLookups == [p \in Processes |-> IF p = Rollout THEN {"attn"} ELSE {}]
===============================================================================
