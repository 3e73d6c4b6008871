---------------------------- MODULE KernelRegistry ----------------------------
(***************************************************************************)
(* rl_engine/kernels/registry.py: which backend a process runs an operator *)
(* with.  Every process has a registry of its own, with the instances it   *)
(* has made and the backends that failed; those who asked keep what they   *)
(* got (RolloutExecutor.logp_op and attn_op, the trainer's _linear_logp).  *)
(*                                                                         *)
(* A backend's module may be missing, import and fail to instantiate, or   *)
(* raise an error that get_op passes on; the next try may end otherwise.   *)
(* The modules of NotInTree do not exist at this commit and always fail.   *)
(* Operator types with a single candidate (the reference operators) differ *)
(* in nothing but their name and are left out of the table.                *)
(***************************************************************************)
EXTENDS Integers, Sequences, FiniteSets

CONSTANTS
    Processes,
    Devices,    \* what the processes may run on
    NoBackend

Platforms == {"cuda", "rocm", "cpu"}

Device == [platform : Platforms,
           sm90LinearLogp : BOOLEAN,  \* compiled into _C, on compute capability 9
           sm90Logp : BOOLEAN,        \* compiled, capable and opted into
           rocmAttn : {"flash_attn", "native"}]

ASSUME DevicesAssumption == Devices \subseteq Device

Indexed == {"logp_indexed", "logp_online", "logp_online_indexed"}
Deterministic == {"logp_deterministic", "logp_deterministic_indexed"}
OpTypes == {"logp", "attn", "grpo_loss", "linear_logp", "ratio_kl"} \cup Indexed \cup Deterministic

Backends == {"CUDA_FUSED_LOGP_SM90", "CUDA_FUSED_LOGP_GENERIC", "CUDA_DETERMINISTIC_LOGP",
             "FLASHINFER", "TRITON_GENERIC", "PYTORCH_NATIVE", "FLASH_ATTN", "PYTORCH_ATTN",
             "ROCM_AITER", "ROCM_FLASH_ATTN", "TRITON_GRPO_LOSS", "PYTORCH_GRPO_LOSS",
             "CUDA_FUSED_LINEAR_LOGP_SM90", "TRITON_LINEAR_LOGP", "PYTORCH_LINEAR_LOGP",
             "TRITON_RATIO_KL", "PYTORCH_RATIO_KL"}

NotInTree == {"FLASHINFER", "TRITON_GENERIC", "ROCM_AITER"}

ASSUME BackendAssumption == NoBackend \notin Backends

VARIABLES
    device,    \* what the processes run on
    instance,  \* process -> backends in _instance_cache
    broken,    \* process -> _failed_backends
    chosen     \* process -> operator type -> backend its users hold

registryVars == <<device, instance, broken, chosen>>

\* KernelRegistry.__init__; an operator type that a platform does not list gets
\* PYTORCH_NATIVE.
PriorityMap(platform, op) ==
    CASE op = "logp" ->
           IF platform = "cuda"
           THEN <<"CUDA_FUSED_LOGP_GENERIC", "FLASHINFER", "TRITON_GENERIC", "PYTORCH_NATIVE">>
           ELSE IF platform = "rocm" THEN <<"ROCM_AITER", "TRITON_GENERIC", "PYTORCH_NATIVE">>
           ELSE <<"PYTORCH_NATIVE">>
      [] op \in Indexed ->
           IF platform = "cuda" THEN <<"CUDA_FUSED_LOGP_GENERIC", "PYTORCH_NATIVE">>
           ELSE <<"PYTORCH_NATIVE">>
      [] op \in Deterministic ->
           IF platform = "cuda" THEN <<"CUDA_DETERMINISTIC_LOGP", "PYTORCH_NATIVE">>
           ELSE <<"PYTORCH_NATIVE">>
      [] op = "attn" ->
           IF platform = "cuda" THEN <<"FLASH_ATTN", "TRITON_GENERIC", "PYTORCH_ATTN">>
           ELSE IF platform = "rocm" THEN <<"ROCM_FLASH_ATTN", "PYTORCH_ATTN", "TRITON_GENERIC">>
           ELSE <<"PYTORCH_ATTN">>
      [] op = "grpo_loss" ->
           IF platform = "cpu" THEN <<"PYTORCH_GRPO_LOSS">>
           ELSE <<"TRITON_GRPO_LOSS", "PYTORCH_GRPO_LOSS">>
      [] op = "linear_logp" ->
           IF platform = "cpu" THEN <<"PYTORCH_LINEAR_LOGP">>
           ELSE <<"TRITON_LINEAR_LOGP", "PYTORCH_LINEAR_LOGP">>
      [] op = "ratio_kl" ->
           IF platform = "cpu" THEN <<"PYTORCH_RATIO_KL">>
           ELSE <<"TRITON_RATIO_KL", "PYTORCH_RATIO_KL">>

\* _adjust_priority_for_hardware: a compiled sm90 kernel goes to the front.
ForHardware(d, op) ==
    LET list == PriorityMap(d.platform, op) IN
    IF d.platform = "cuda" /\ op = "logp" /\ d.sm90Logp
    THEN <<"CUDA_FUSED_LOGP_SM90">> \o list
    ELSE IF d.platform = "cuda" /\ op = "linear_logp" /\ d.sm90LinearLogp
    THEN <<"CUDA_FUSED_LINEAR_LOGP_SM90">> \o list
    ELSE list

\* _adjust_priority_from_env
Candidates(d, op) ==
    IF d.platform = "rocm" /\ op = "attn" /\ d.rocmAttn = "native"
    THEN <<"PYTORCH_ATTN", "ROCM_FLASH_ATTN", "TRITON_GENERIC">>
    ELSE ForHardware(d, op)

FreshRegistry == [op \in OpTypes |-> NoBackend]

RegistryInit ==
    /\ device \in Devices
    /\ instance = [p \in Processes |-> {}]
    /\ broken = [p \in Processes |-> {}]
    /\ chosen = [p \in Processes |-> FreshRegistry]

Listed(op) == {Candidates(device, op)[i] : i \in DOMAIN Candidates(device, op)}

\* _load_backend and the constructor: how each candidate would end, if tried.
Attempts(op) ==
    {a \in [Listed(op) -> {"works", "fails", "raises"}] :
        \A b \in Listed(op) \cap NotInTree : a[b] = "fails"}

\* Mutant: failed backends are tried again.
StopsAtRetrying(p, b, attempt) == b \in instance[p] \/ attempt[b] # "fails"

\* The walk ends at a cached instance, or at a backend that has not failed and now
\* works or raises; the backends before it failed, now or earlier.
StopsAt(p, b, attempt) ==
    \/ b \in instance[p]
    \/ b \notin broken[p] /\ attempt[b] # "fails"

Stops(p, list, attempt) == {i \in DOMAIN list : StopsAt(p, list[i], attempt)}

First(indices) == CHOOSE i \in indices : \A j \in indices : i <= j

\* get_op: the backends that fail on the way are remembered; an error that is not
\* the backend's absence leaves get_op at once and is not remembered.
Walk(p, list, attempt) ==
    LET none == Stops(p, list, attempt) = {}
        stop == IF none THEN Len(list) + 1 ELSE First(Stops(p, list, attempt))
    IN  [failed |-> {list[i] : i \in 1 .. (stop - 1)},
         found  |-> IF ~ none /\ (list[stop] \in instance[p] \/ attempt[list[stop]] = "works")
                    THEN list[stop] ELSE NoBackend]

\* A caller that got an operator holds it; one that got an exception keeps what it
\* had, which is nothing.
GetOp(p, op, attempt) ==
    LET walk == Walk(p, Candidates(device, op), attempt) IN
    /\ broken' = [broken EXCEPT ![p] = @ \cup walk.failed]
    /\ IF walk.found # NoBackend
       THEN /\ instance' = [instance EXCEPT ![p] = @ \cup {walk.found}]
            /\ chosen' = [chosen EXCEPT ![p][op] = walk.found]
       ELSE UNCHANGED <<instance, chosen>>
    /\ UNCHANGED device

\* A new process.
ResetRegistry(p) ==
    /\ instance' = [instance EXCEPT ![p] = {}]
    /\ broken' = [broken EXCEPT ![p] = {}]
    /\ chosen' = [chosen EXCEPT ![p] = FreshRegistry]
    /\ UNCHANGED device

RegistryNext ==
    \E p \in Processes :
        \/ \E op \in OpTypes : \E attempt \in Attempts(op) : GetOp(p, op, attempt)
        \/ ResetRegistry(p)

RegistrySpec == RegistryInit /\ [][RegistryNext]_registryVars

-----------------------------------------------------------------------------
RegistryTypeOK ==
    /\ device \in Devices
    /\ instance \in [Processes -> SUBSET Backends]
    /\ broken \in [Processes -> SUBSET Backends]
    /\ chosen \in [Processes -> [OpTypes -> Backends \cup {NoBackend}]]

\* A process never runs an operator type with one backend and later with another,
\* whatever lookups of other types that share its backends do in between: the
\* numerics of a training run do not change under it.
OperatorKept ==
    [][\A p \in Processes, op \in OpTypes :
         chosen[p][op] # NoBackend /\ chosen'[p] # FreshRegistry
             => chosen'[p][op] = chosen[p][op]]_registryVars

\* The backend in use is the first of its candidates that has not failed.
BestWorkingChosen ==
    \A p \in Processes, op \in OpTypes :
        chosen[p][op] # NoBackend =>
            \E i \in DOMAIN Candidates(device, op) :
                /\ Candidates(device, op)[i] = chosen[p][op]
                /\ chosen[p][op] \in instance[p] \ broken[p]
                /\ \A j \in 1 .. (i - 1) : Candidates(device, op)[j] \in broken[p]
===============================================================================
