-------------------------- MODULE TrainingLoopProofs --------------------------
(***************************************************************************)
(* Proofs about KernelRegistry, for every device, process and sequence of  *)
(* lookups, and about the TrainingLoop that uses a registry in each of its *)
(* processes.                                                              *)
(***************************************************************************)
EXTENDS TrainingLoop, WellFoundedInduction, TLAPS

-----------------------------------------------------------------------------
(* The registry. *)

\* A set of numbers has a least one.
LEMMA LeastNumber ==
    ASSUME NEW S \in SUBSET Nat, S # {} PROVE \E i \in S : \A j \in S : i <= j
<1>1. \E i \in S : \A j \in S : ~ (<<j, i>> \in OpToRel(<, Nat))
  BY NatLessThanWellFounded, WFMin
<1>2. ASSUME NEW i \in Nat, NEW j \in Nat, j < i PROVE <<j, i>> \in OpToRel(<, Nat)
  BY <1>2, Zenon DEF OpToRel
<1>3. PICK i \in S : \A j \in S : ~ (<<j, i>> \in OpToRel(<, Nat))
  BY <1>1
<1>4. \A j \in S : ~ (j < i)
  BY <1>2, <1>3, Zenon
<1> QED
  BY <1>4

\* The lists of the table, and of the adjustments to it.
Lists ==
    {<<"CUDA_FUSED_LOGP_GENERIC", "FLASHINFER", "TRITON_GENERIC", "PYTORCH_NATIVE">>,
     <<"ROCM_AITER", "TRITON_GENERIC", "PYTORCH_NATIVE">>,
     <<"PYTORCH_NATIVE">>,
     <<"CUDA_FUSED_LOGP_GENERIC", "PYTORCH_NATIVE">>,
     <<"CUDA_DETERMINISTIC_LOGP", "PYTORCH_NATIVE">>,
     <<"FLASH_ATTN", "TRITON_GENERIC", "PYTORCH_ATTN">>,
     <<"ROCM_FLASH_ATTN", "PYTORCH_ATTN", "TRITON_GENERIC">>,
     <<"PYTORCH_ATTN">>,
     <<"PYTORCH_GRPO_LOSS">>,
     <<"TRITON_GRPO_LOSS", "PYTORCH_GRPO_LOSS">>,
     <<"PYTORCH_LINEAR_LOGP">>,
     <<"TRITON_LINEAR_LOGP", "PYTORCH_LINEAR_LOGP">>,
     <<"PYTORCH_RATIO_KL">>,
     <<"TRITON_RATIO_KL", "PYTORCH_RATIO_KL">>,
     <<"CUDA_FUSED_LOGP_SM90">>,
     <<"CUDA_FUSED_LINEAR_LOGP_SM90">>,
     <<"PYTORCH_ATTN", "ROCM_FLASH_ATTN", "TRITON_GENERIC">>}

LEMMA ListsType == Lists \subseteq Seq(Backends)
<1>1. {"CUDA_DETERMINISTIC_LOGP", "CUDA_FUSED_LINEAR_LOGP_SM90", "CUDA_FUSED_LOGP_GENERIC",
       "CUDA_FUSED_LOGP_SM90", "FLASHINFER", "FLASH_ATTN", "PYTORCH_ATTN", "PYTORCH_GRPO_LOSS",
       "PYTORCH_LINEAR_LOGP", "PYTORCH_NATIVE", "PYTORCH_RATIO_KL", "ROCM_AITER",
       "ROCM_FLASH_ATTN", "TRITON_GENERIC", "TRITON_GRPO_LOSS", "TRITON_LINEAR_LOGP",
       "TRITON_RATIO_KL"} \subseteq Backends
  BY DEF Backends
<1> QED
  BY <1>1 DEF Lists

\* Every operator type has a list of backends on every device.
LEMMA CandidatesType ==
    ASSUME NEW d \in Device, NEW op \in OpTypes PROVE Candidates(d, op) \in Seq(Backends)
<1> DEFINE list == PriorityMap(d.platform, op)
<1>1. list \in Lists
  <2>1. CASE op \in Indexed
    <3>1. op # "logp"
      BY <2>1 DEF Indexed
    <3> QED
      BY <2>1, <3>1 DEF PriorityMap, Indexed, Deterministic, Lists
  <2>2. CASE op \in Deterministic
    <3>1. op # "logp" /\ op \notin Indexed
      BY <2>2 DEF Indexed, Deterministic
    <3> QED
      BY <2>2, <3>1 DEF PriorityMap, Indexed, Deterministic, Lists
  <2>3. CASE op = "logp"
    BY <2>3 DEF PriorityMap, Indexed, Deterministic, Lists
  <2>4. CASE op = "attn"
    BY <2>4 DEF PriorityMap, Indexed, Deterministic, Lists
  <2>5. CASE op = "grpo_loss"
    BY <2>5 DEF PriorityMap, Indexed, Deterministic, Lists
  <2>6. CASE op = "linear_logp"
    BY <2>6 DEF PriorityMap, Indexed, Deterministic, Lists
  <2>7. CASE op = "ratio_kl"
    BY <2>7 DEF PriorityMap, Indexed, Deterministic, Lists
  <2> QED
    BY <2>1, <2>2, <2>3, <2>4, <2>5, <2>6, <2>7 DEF OpTypes
<1> HIDE DEF list
<1>2. list \in Seq(Backends) /\ {<<"CUDA_FUSED_LOGP_SM90">>, <<"CUDA_FUSED_LINEAR_LOGP_SM90">>} \subseteq Seq(Backends)
  BY <1>1, ListsType DEF Lists
<1>3. /\ <<"CUDA_FUSED_LOGP_SM90">> \o list \in Seq(Backends)
      /\ <<"CUDA_FUSED_LINEAR_LOGP_SM90">> \o list \in Seq(Backends)
  BY <1>2
<1>4. ForHardware(d, op) \in Seq(Backends)
  BY <1>2, <1>3 DEF ForHardware, list
<1> QED
  BY <1>4, ListsType DEF Candidates, Lists

-----------------------------------------------------------------------------
\* What a lookup leaves behind: no backend both works and has failed, and the one
\* in use is the best of its list.
RegistryInv == RegistryTypeOK /\ (\A p \in Processes : instance[p] \cap broken[p] = {}) /\ BestWorkingChosen

\* A lookup ends at the first backend that works; all before it failed, and none of
\* them was in use.
LEMMA WalkStops ==
    ASSUME RegistryTypeOK, NEW p \in Processes, instance[p] \cap broken[p] = {},
           NEW op \in OpTypes, NEW attempt,
           NEW list, list = Candidates(device, op),
           NEW walk, walk = Walk(p, list, attempt)
    PROVE  /\ list \in Seq(Backends)
           /\ walk.failed \in SUBSET Backends
           /\ walk.found \in Backends \cup {NoBackend}
           /\ walk.failed \cap instance[p] = {}
           /\ walk.found # NoBackend =>
                /\ walk.found \notin broken[p] \cup walk.failed
                /\ \E i \in DOMAIN list :
                     /\ list[i] = walk.found
                     /\ StopsAt(p, list[i], attempt)
                     /\ \A j \in 1 .. (i - 1) : list[j] \in walk.failed
                     /\ \A j \in 1 .. (i - 1) : ~ StopsAt(p, list[j], attempt)
<1> DEFINE stops == Stops(p, list, attempt)
<1>1. list \in Seq(Backends) /\ DOMAIN list = 1 .. Len(list) /\ Len(list) \in Nat
  BY CandidatesType, DevicesAssumption DEF RegistryTypeOK
<1>2. CASE stops = {}
  <2>1. walk.found = NoBackend /\ walk.failed = {list[i] : i \in 1 .. Len(list)}
    BY <1>1, <1>2 DEF Walk
  <2>2. \A i \in 1 .. Len(list) : list[i] \in Backends /\ list[i] \notin instance[p]
    BY <1>1, <1>2 DEF Stops, StopsAt
  <2> QED
    BY <1>1, <2>1, <2>2
<1>3. CASE stops # {}
  <2> DEFINE stop == First(stops)
  <2>1. stops \in SUBSET Nat
    BY <1>1 DEF Stops
  <2>2. stop \in stops /\ \A j \in stops : stop <= j
    <3> HIDE DEF stops
    <3> QED
      BY <1>3, <2>1, LeastNumber DEF First
  <2>3. /\ walk.failed = {list[i] : i \in 1 .. (stop - 1)}
        /\ walk.found = IF list[stop] \in instance[p] \/ attempt[list[stop]] = "works"
                        THEN list[stop] ELSE NoBackend
    BY <1>3 DEF Walk
  <2>4. stop \in 1 .. Len(list) /\ StopsAt(p, list[stop], attempt)
    BY <1>1, <2>2 DEF Stops
  <2>5. \A j \in 1 .. (stop - 1) : j \in 1 .. Len(list) /\ ~ StopsAt(p, list[j], attempt)
    <3> HIDE DEF stop
    <3> TAKE j \in 1 .. (stop - 1)
    <3>1. j \in 1 .. Len(list) /\ ~ (stop <= j)
      BY <1>1, <2>4
    <3> QED
      BY <1>1, <2>2, <3>1 DEF Stops
  <2> HIDE DEF stop, stops
  <2>6. \A j \in 1 .. (stop - 1) : list[j] \in Backends /\ list[j] \notin instance[p]
    BY <1>1, <2>5 DEF StopsAt
  <2>7. list[stop] \in Backends
    BY <1>1, <2>4
  <2>8. walk.failed = {list[i] : i \in 1 .. (stop - 1)}
    BY <2>3
  <2>9. walk.found # NoBackend => walk.found = list[stop]
    BY <2>3
  <2>10. list[stop] \notin broken[p] \cup walk.failed
    BY <2>4, <2>5, <2>8 DEF StopsAt
  <2> QED
    BY <1>1, <2>3, <2>4, <2>5, <2>6, <2>7, <2>8, <2>9, <2>10
<1> QED
  BY <1>2, <1>3

\* A lookup keeps what is in use, and what it adds is the best of its list.
LEMMA GetOpKeeps ==
    ASSUME RegistryInv, NEW p \in Processes, NEW op \in OpTypes, NEW attempt, GetOp(p, op, attempt)
    PROVE  /\ RegistryInv'
           /\ \A q \in Processes, o \in OpTypes :
                chosen[q][o] # NoBackend => chosen'[q][o] = chosen[q][o]
<1> DEFINE list == Candidates(device, op)
           walk == Walk(p, list, attempt)
<1>1. RegistryTypeOK /\ instance[p] \cap broken[p] = {} /\ BestWorkingChosen
  BY DEF RegistryInv
<1>2. list \in Seq(Backends) /\ walk.failed \in SUBSET Backends
      /\ walk.found \in Backends \cup {NoBackend} /\ walk.failed \cap instance[p] = {}
  BY <1>1, WalkStops
<1>3. walk.found # NoBackend =>
        /\ walk.found \notin broken[p] \cup walk.failed
        /\ \E i \in DOMAIN list :
             /\ list[i] = walk.found
             /\ StopsAt(p, list[i], attempt)
             /\ \A j \in 1 .. (i - 1) : list[j] \in walk.failed
             /\ \A j \in 1 .. (i - 1) : ~ StopsAt(p, list[j], attempt)
  BY <1>1, WalkStops
<1>4. /\ broken' = [broken EXCEPT ![p] = @ \cup walk.failed]
      /\ UNCHANGED device
      /\ \/ walk.found # NoBackend
            /\ instance' = [instance EXCEPT ![p] = @ \cup {walk.found}]
            /\ chosen' = [chosen EXCEPT ![p][op] = walk.found]
         \/ walk.found = NoBackend /\ UNCHANGED <<instance, chosen>>
  BY DEF GetOp
<1> HIDE DEF walk
<1>5. RegistryTypeOK'
  <2>1. broken' \in [Processes -> SUBSET Backends]
    BY <1>1, <1>2, <1>4 DEF RegistryTypeOK
  <2>2. instance' \in [Processes -> SUBSET Backends]
    BY <1>1, <1>2, <1>4 DEF RegistryTypeOK
  <2>3. chosen' \in [Processes -> [OpTypes -> Backends \cup {NoBackend}]]
    <3>1. [chosen[p] EXCEPT ![op] = walk.found] \in [OpTypes -> Backends \cup {NoBackend}]
      BY <1>1, <1>2 DEF RegistryTypeOK
    <3> QED
      BY <1>1, <1>4, <3>1 DEF RegistryTypeOK
  <2> QED
    BY <1>1, <1>4, <2>1, <2>2, <2>3 DEF RegistryTypeOK
<1>6. \A q \in Processes : instance'[q] \cap broken'[q] = {}
  BY <1>1, <1>2, <1>3, <1>4 DEF RegistryTypeOK, RegistryInv
<1>7. \A q \in Processes, o \in OpTypes :
        chosen[q][o] # NoBackend => chosen'[q][o] = chosen[q][o]
  <2>1. ASSUME chosen[p][op] # NoBackend, walk.found # NoBackend PROVE walk.found = chosen[p][op]
    <3>1. PICK i \in DOMAIN list : /\ list[i] = chosen[p][op]
                                   /\ list[i] \in instance[p] \ broken[p]
                                   /\ \A j \in 1 .. (i - 1) : list[j] \in broken[p]
      BY <1>1, <2>1 DEF BestWorkingChosen
    <3>2. PICK k \in DOMAIN list : /\ list[k] = walk.found
                                   /\ StopsAt(p, list[k], attempt)
                                   /\ \A j \in 1 .. (k - 1) : ~ StopsAt(p, list[j], attempt)
      BY <1>3, <2>1
    <3>3. ~ (i < k)
      <4>1. StopsAt(p, list[i], attempt)
        BY <3>1 DEF StopsAt
      <4> HIDE DEF list
      <4> QED
        BY <1>2, <3>2, <4>1
    <3>4. ~ (k < i)
      <4>1. list[k] \notin broken[p]
        BY <3>2, <1>1 DEF StopsAt
      <4> HIDE DEF list
      <4> QED
        BY <1>2, <3>1, <4>1
    <3> HIDE DEF list
    <3> QED
      BY <1>2, <3>1, <3>2, <3>3, <3>4
  <2> QED
    BY <1>1, <1>4, <2>1 DEF RegistryTypeOK
<1>8. BestWorkingChosen'
  <2> SUFFICES ASSUME NEW q \in Processes, NEW o \in OpTypes, chosen'[q][o] # NoBackend
               PROVE  \E i \in DOMAIN Candidates(device, o) :
                        /\ Candidates(device, o)[i] = chosen'[q][o]
                        /\ chosen'[q][o] \in instance'[q] \ broken'[q]
                        /\ \A j \in 1 .. (i - 1) : Candidates(device, o)[j] \in broken'[q]
    BY <1>4 DEF BestWorkingChosen
  <2>1. instance[q] \subseteq instance'[q] /\ broken[q] \subseteq broken'[q]
    BY <1>1, <1>4 DEF RegistryTypeOK
  <2>2. CASE chosen[q][o] # NoBackend
    BY <1>1, <1>6, <1>7, <2>1, <2>2 DEF BestWorkingChosen
  <2>3. CASE chosen[q][o] = NoBackend
    <3>1. q = p /\ o = op /\ walk.found # NoBackend
      BY <1>1, <1>4, <2>3 DEF RegistryTypeOK
    <3>2. chosen'[p][op] = walk.found /\ walk.found \in instance'[p]
      BY <1>1, <1>4, <3>1 DEF RegistryTypeOK
    <3>3. walk.failed \subseteq broken'[p]
      BY <1>1, <1>4 DEF RegistryTypeOK
    <3> QED
      BY <1>3, <1>6, <3>1, <3>2, <3>3
  <2> QED
    BY <2>2, <2>3
<1> QED
  BY <1>5, <1>6, <1>7, <1>8 DEF RegistryInv

\* A new process begins with nothing.
LEMMA ResetKeeps ==
    ASSUME RegistryInv, NEW p \in Processes, ResetRegistry(p)
    PROVE  /\ RegistryInv'
           /\ chosen'[p] = FreshRegistry
           /\ \A q \in Processes : q # p => chosen'[q] = chosen[q]
<1>1. RegistryTypeOK /\ BestWorkingChosen
  BY DEF RegistryInv
<1>2. chosen'[p] = FreshRegistry /\ \A q \in Processes : q # p => chosen'[q] = chosen[q]
  BY <1>1 DEF ResetRegistry, RegistryTypeOK
<1>3. FreshRegistry \in [OpTypes -> Backends \cup {NoBackend}]
  BY DEF FreshRegistry
<1>4. RegistryTypeOK'
  BY <1>1, <1>3 DEF ResetRegistry, RegistryTypeOK
<1>5. \A q \in Processes : instance'[q] \cap broken'[q] = {}
  BY <1>1 DEF ResetRegistry, RegistryTypeOK, RegistryInv
<1>6. BestWorkingChosen'
  <2> SUFFICES ASSUME NEW q \in Processes, NEW o \in OpTypes, chosen'[q][o] # NoBackend
               PROVE  \E i \in DOMAIN Candidates(device, o) :
                        /\ Candidates(device, o)[i] = chosen'[q][o]
                        /\ chosen'[q][o] \in instance'[q] \ broken'[q]
                        /\ \A j \in 1 .. (i - 1) : Candidates(device, o)[j] \in broken'[q]
    BY DEF BestWorkingChosen, ResetRegistry
  <2>1. q # p
    BY <1>2 DEF FreshRegistry
  <2>2. instance'[q] = instance[q] /\ broken'[q] = broken[q] /\ chosen'[q] = chosen[q]
    BY <1>1, <1>2, <2>1 DEF ResetRegistry, RegistryTypeOK
  <2> QED
    BY <1>1, <2>2 DEF BestWorkingChosen
<1> QED
  BY <1>2, <1>4, <1>5, <1>6 DEF RegistryInv

LEMMA InitRegistryInv == RegistryInit => RegistryInv
BY DEF RegistryInit, RegistryInv, RegistryTypeOK, BestWorkingChosen, FreshRegistry

\* The registry's invariant, and that every step keeps what a living process uses.
LEMMA RegistryStep ==
    ASSUME RegistryInv, [RegistryNext]_registryVars
    PROVE  /\ RegistryInv'
           /\ \A p \in Processes, op \in OpTypes :
                chosen[p][op] # NoBackend /\ chosen'[p] # FreshRegistry
                    => chosen'[p][op] = chosen[p][op]
<1>1. CASE UNCHANGED registryVars
  BY <1>1 DEF registryVars, RegistryInv, RegistryTypeOK, BestWorkingChosen
<1>2. CASE RegistryNext
  BY <1>2, GetOpKeeps, ResetKeeps DEF RegistryNext
<1> QED
  BY <1>1, <1>2

\* RegistryInv is inductive.
THEOREM RegistryInvariant == RegistrySpec => []RegistryInv
<1>1. RegistryInv /\ [RegistryNext]_registryVars => RegistryInv'
  BY RegistryStep
<1> QED
  BY InitRegistryInv, <1>1, PTL DEF RegistrySpec

\* A process never changes the backend of an operator type (get_op's instance
\* cache and failed backends), whatever else is looked up in it.
THEOREM RegistryKeepsOperators == RegistrySpec => OperatorKept
<1> DEFINE Kept == \A p \in Processes, op \in OpTypes :
                     chosen[p][op] # NoBackend /\ chosen'[p] # FreshRegistry
                         => chosen'[p][op] = chosen[p][op]
<1>1. RegistryInv /\ [RegistryNext]_registryVars => [Kept]_registryVars
  BY RegistryStep
<1> QED
  BY RegistryInvariant, <1>1, PTL DEF RegistrySpec, OperatorKept

-----------------------------------------------------------------------------
(* The loop. *)

\* The manager's list: every actor that is or may be alive is in it, and shutdown
\* has not passed it yet.
ActorsInv ==
    /\ actors \in Seq(Processes)
    /\ life \in [Processes -> {"none", "starting", "alive", "dead"}]
    /\ left \in Nat /\ left <= Len(actors)
    /\ NoActorLost

\* The steps of driver and actors that make, kill or lose no actor.
ActorsRest ==
    \/ \E p \in Processes : Lookup(p)
    \/ Calls \/ Handlers \/ Receive

LEMMA InitActorsInv == Init => ActorsInv
BY DEF Init, ActorsInv, NoActorLost

LEMMA RestKeepsActors == ActorsInv /\ ActorsRest => ActorsInv'
<1> SUFFICES ASSUME ActorsInv, ActorsRest PROVE ActorsInv'
  OBVIOUS
<1>1. UNCHANGED rayVars /\ UNCHANGED driver
  BY DEF ActorsRest, Lookup, Calls, CallRollout, CallTrain, CallPublish, CallUpdate, CallRelease,
         Send, Handlers, PrepareLogp, PrepareAttn, RunRollout, Train, PublishWeights,
         UpdateWeights, ReleaseTrainer, Receive
<1> QED
  BY <1>1 DEF rayVars, ActorsInv, NoActorLost

\* Construction and crashes change what is alive, not the list; what they leave
\* alive was alive or starting before.
LEMMA LifeKeepsActors ==
    ASSUME ActorsInv, NEW p \in Processes, Construct(p) \/ Crash(p) PROVE ActorsInv'
<1>1. UNCHANGED <<actors, left, driver>>
  BY DEF Construct, Crash
<1>2. life[p] \in {"starting", "alive"}
  BY DEF Construct, Crash
<1>3. life' \in [Processes -> {"none", "starting", "alive", "dead"}] /\ \A q \in Processes : q # p => life'[q] = life[q]
  BY DEF Construct, Crash, ActorsInv
<1> QED
  BY <1>1, <1>2, <1>3 DEF ActorsInv, NoActorLost

LEMMA CreateKeepsActors ==
    ASSUME ActorsInv, NEW p \in Processes, CreateWorker(p) PROVE ActorsInv'
<1>1. actors' = Append(actors, p) /\ actors \in Seq(Processes)
  BY DEF CreateWorker, ActorsInv
<1>2. /\ actors' \in Seq(Processes) /\ Len(actors') = Len(actors) + 1
      /\ actors'[Len(actors) + 1] = p
      /\ \A i \in DOMAIN actors : i \in DOMAIN actors' /\ actors'[i] = actors[i]
  BY <1>1
<1>3. driver = "open" /\ driver' = "open" /\ left' = left
      /\ life' = [life EXCEPT ![p] = "starting"]
  BY DEF CreateWorker
<1>4. Len(actors) + 1 \in DOMAIN actors'
  BY <1>1, <1>2
<1> QED
  BY <1>1, <1>2, <1>3, <1>4 DEF ActorsInv, NoActorLost

LEMMA ActorsInTheList ==
    ASSUME ActorsInv, NEW p \in Processes, life[p] \in {"starting", "alive"}
    PROVE  \E i \in DOMAIN actors : actors[i] = p /\ (driver = "closing" => i <= left)
<1>1. NoActorLost
  BY DEF ActorsInv
<1> QED
  BY <1>1 DEF NoActorLost

\* shutdown: the actor it kills is the last one that it has not killed.
LEMMA ShutdownKeepsActors == ActorsInv /\ (Shutdown \/ ReceiveError) => ActorsInv'
<1> SUFFICES ASSUME ActorsInv, Shutdown \/ ReceiveError PROVE ActorsInv'
  OBVIOUS
<1>1. CASE Leave
  BY <1>1 DEF Leave, ActorsInv, NoActorLost
<1>2. CASE KillNext
  <2>1. left \in 1 .. Len(actors) /\ left' = left - 1 /\ actors' = actors /\ driver' = driver
        /\ driver = "closing"
    BY <1>2 DEF KillNext, ActorsInv
  <2>2. life' = [life EXCEPT ![actors[left]] = "dead"] /\ actors[left] \in Processes
    BY <1>2, <2>1 DEF KillNext, ActorsInv
  <2>3. NoActorLost'
    <3> SUFFICES ASSUME NEW q \in Processes, life'[q] \in {"starting", "alive"}
                 PROVE  \E i \in DOMAIN actors : actors[i] = q /\ i <= left - 1
      BY <2>1 DEF NoActorLost
    <3>1. q # actors[left] /\ life[q] \in {"starting", "alive"}
      BY <2>2 DEF ActorsInv
    <3>2. PICK i \in DOMAIN actors : actors[i] = q /\ (driver = "closing" => i <= left)
      BY <3>1, ActorsInTheList
    <3>3. i \in 1 .. Len(actors) /\ i # left
      BY <3>1, <3>2 DEF ActorsInv
    <3> QED
      BY <2>1, <3>2, <3>3
  <2> QED
    BY <2>1, <2>2, <2>3 DEF ActorsInv
<1>3. CASE KillRaises \/ ReceiveError
  BY <1>3 DEF KillRaises, ReceiveError, rayVars, ActorsInv, NoActorLost
<1>4. CASE ClearActors
  <2>1. \A p \in Processes : life[p] \notin {"starting", "alive"}
    <3> SUFFICES ASSUME NEW p \in Processes, life[p] \in {"starting", "alive"} PROVE FALSE
      OBVIOUS
    <3>1. PICK i \in DOMAIN actors : actors[i] = p /\ (driver = "closing" => i <= left)
      BY ActorsInTheList
    <3>2. i \in 1 .. Len(actors)
      BY DEF ActorsInv
    <3> QED
      BY <1>4, <3>1, <3>2 DEF ClearActors
  <2> QED
    BY <1>4, <2>1 DEF ClearActors, ActorsInv, NoActorLost
<1> QED
  BY <1>1, <1>2, <1>3, <1>4 DEF Shutdown

LEMMA ActorsStep == ActorsInv /\ [Next]_vars => ActorsInv'
<1> SUFFICES ASSUME ActorsInv, [Next]_vars PROVE ActorsInv'
  OBVIOUS
<1>1. CASE UNCHANGED vars
  BY <1>1 DEF vars, rayVars, ActorsInv, NoActorLost
<1> QED
  BY <1>1, RestKeepsActors, LifeKeepsActors, CreateKeepsActors, ShutdownKeepsActors
  DEF Next, ActorsRest

\* The driver reaches every actor it made (RayActorManager._actors and the order of
\* shutdown), for any limit on restarts.
THEOREM NoActorEverLost == Spec => []NoActorLost
<1>1. ActorsInv => NoActorLost
  BY DEF ActorsInv
<1> QED
  BY InitActorsInv, ActorsStep, <1>1, PTL DEF Spec

\* A step of the loop is a step of the registry of one process, or of none.
LEMMA LoopUsesRegistry == ActorsInv /\ [Next]_vars => [RegistryNext]_registryVars
<1> SUFFICES ASSUME ActorsInv, [Next]_vars PROVE RegistryNext \/ UNCHANGED registryVars
  OBVIOUS
<1>1. CASE UNCHANGED vars
  BY <1>1 DEF vars
<1>2. ASSUME NEW p \in Processes, CreateWorker(p) \/ Construct(p) \/ Crash(p) \/ Lookup(p)
      PROVE  RegistryNext \/ UNCHANGED registryVars
  <2>1. CASE CreateWorker(p)
    BY <2>1 DEF CreateWorker
  <2>2. CASE Construct(p)
    BY <1>2, <2>2 DEF Construct, RegistryNext, OpTypes
  <2>3. CASE Crash(p)
    BY <1>2, <2>3 DEF Crash, RegistryNext
  <2>4. CASE Lookup(p)
    BY <1>2, <2>4, LookupsAssumption DEF Lookup, RegistryNext
  <2> QED
    BY <1>2, <2>1, <2>2, <2>3, <2>4
<1>3. CASE Calls \/ Receive \/ ReceiveError
  BY <1>3 DEF Calls, CallRollout, CallTrain, CallPublish, CallUpdate, CallRelease, Send, Receive, ReceiveError
<1>4. CASE PrepareLogp
  BY <1>4, ActorsAssumption DEF PrepareLogp, RegistryNext, OpTypes
<1>5. CASE PrepareAttn
  BY <1>5, ActorsAssumption DEF PrepareAttn, RegistryNext, OpTypes
<1>6. CASE RunRollout \/ Train \/ PublishWeights \/ UpdateWeights \/ ReleaseTrainer
  BY <1>6 DEF RunRollout, Train, PublishWeights, UpdateWeights, ReleaseTrainer
<1>7. CASE KillNext
  <2>1. actors[left] \in Processes
    BY <1>7 DEF KillNext, ActorsInv
  <2> QED
    BY <1>7, <2>1 DEF KillNext, RegistryNext
<1>8. CASE Leave \/ KillRaises \/ ClearActors
  BY <1>8 DEF Leave, KillRaises, ClearActors
<1> QED
  BY <1>1, <1>2, <1>3, <1>4, <1>5, <1>6, <1>7, <1>8 DEF Next, Handlers, Shutdown

\* Every process of the loop has a registry as KernelRegistry says.
THEOREM LoopImplementsRegistry == Spec => RegistrySpec
<1>1. ActorsInv /\ [Next]_vars => ActorsInv' /\ [RegistryNext]_registryVars
  <2> SUFFICES ASSUME ActorsInv, [Next]_vars PROVE ActorsInv' /\ [RegistryNext]_registryVars
    OBVIOUS
  <2>1. ActorsInv'
    BY ActorsStep
  <2> QED
    BY <2>1, LoopUsesRegistry
<1>2. Init => RegistryInit
  BY DEF Init
<1> QED
  BY InitActorsInv, <1>1, <1>2, PTL DEF Spec, RegistrySpec

\* No step of a training run changes the operators of a process that lives on.
THEOREM LoopKeepsOperators == Spec => OperatorKept
BY LoopImplementsRegistry, RegistryKeepsOperators, PTL
-----------------------------------------------------------------------------
(* What the loop trains, publishes and installs. *)

Numbers == Int \cup {NoVersion}

ServedBy(op) == IF op \in {"rollout", "update"} THEN Rollout ELSE Trainer
Arguments(op) == IF op = "rollout" THEN {NoVersion}
                 ELSE IF op \in {"train", "publish"} THEN Int ELSE Manifests
Results(op) == IF op \in {"rollout", "train"} THEN Int ELSE Manifests

CallType ==
    call # NoCall =>
        /\ driver = "open"
        /\ call \in RemoteCalls
        /\ call.to = ServedBy(call.op)
        /\ call.arg \in Arguments(call.op)
        /\ call.stage = "answered" => call.result \in Results(call.op)

LoopTypeOK ==
    /\ life \in [Processes -> {"none", "starting", "alive", "dead"}]
    /\ restarts \in [Processes -> Nat]
    /\ weights \in Weights
    /\ latest \in Int /\ bridgeLatest \in Int
    /\ held \in SUBSET Manifests /\ installed \in SUBSET Manifests
    /\ version \in Numbers /\ base \in Numbers /\ announced \in Numbers
    /\ given \in Manifests \cup {NoManifest}
    /\ CallType

\* A call the worker carried out, or may have, and whose answer the driver lacks.
Pending(op) == call # NoCall /\ call.op = op
Answered(op) == Pending(op) /\ call.stage = "answered"
Unheard(op) == Pending(op) /\ call.stage \notin {"sent", "raised"}

\* Nothing has been trained, published or installed.
Untouched ==
    /\ held = {} /\ installed = {}
    /\ latest = -1 /\ bridgeLatest = -1
    /\ announced = NoVersion /\ given = NoManifest
    /\ call # NoCall => call.op = "rollout" \/ (call.op = "train" /\ call.stage # "answered")

\* What the trainer's bridge of this life has published, as far as it is held or
\* was ever installed.
Recorded == held \cup {m \in installed : m.weights.born = weights.born}

\* A life of the trainer numbers its publications upwards.
LivesCount ==
    /\ weights.born <= restarts[Trainer]
    /\ life[Trainer] = "alive" => weights.born = restarts[Trainer]
    /\ life[Trainer] \in {"none", "starting"} => Untouched \/ weights.born < restarts[Trainer]
    /\ \A m \in held : m.weights.born = weights.born
    /\ \A m \in installed : m.weights.born <= weights.born
    /\ \A m \in Recorded : m.version <= bridgeLatest
    /\ \A m, n \in Recorded : m.version = n.version => m = n

\* In its first life the trainer's counter is ahead of its bridge's, and what it has
\* announced and not yet published is between the two.
CountersAgree ==
    restarts[Trainer] = 0 =>
        /\ bridgeLatest <= latest
        /\ Answered("train") => bridgeLatest < call.result /\ call.result <= latest
        /\ driver = "open" /\ announced # NoVersion /\ ~ Unheard("publish") =>
             bridgeLatest < announced /\ announced <= latest
        /\ Pending("publish") => call.arg = announced

\* What was installed from the trainer's first life.
FirstInstalled == {m \in installed : m.weights.born = 0}

\* The driver, the worker or the bridge carries a number beyond n's.
CarriedBeyond(n) ==
    /\ version # NoVersion /\ version >= n.version
    /\ driver = "open" /\ base # NoVersion /\ ~ Unheard("update") => base >= n.version
    /\ Answered("rollout") => call.result >= n.version
    /\ Pending("train") => call.arg >= n.version
    /\ Answered("train") => call.result > n.version
    /\ announced # NoVersion => announced > n.version
    /\ Pending("publish") => call.arg > n.version
    /\ Answered("publish") => call.result.version > n.version
    /\ weights.born = 1 => \A m \in held : m.version > n.version
    /\ weights.born = 0 /\ given # NoManifest => given.version >= n.version

\* As long as the trainer is in its first life, what it announces is beyond what the
\* driver has in hand to install.
AnnouncedBeyondGiven ==
    /\ Answered("publish") => call.result.version <= bridgeLatest
    /\ Pending("update") => call.arg = given /\ given # NoManifest
    /\ given # NoManifest =>
         /\ given.version <= bridgeLatest
         /\ announced # NoVersion => announced > given.version
         /\ Answered("train") => call.result > given.version

NumbersSurvive ==
    restarts[Rollout] = 0 /\ restarts[Trainer] <= 1 =>
        /\ life[Rollout] \in {"none", "starting"} => installed = {}
        /\ \A m, n \in installed : m.version = n.version => m.weights = n.weights
        /\ \A n \in FirstInstalled : CarriedBeyond(n)
        /\ weights.born = 0 => AnnouncedBeyondGiven

VersionsInv == LoopTypeOK /\ LivesCount /\ CountersAgree /\ NumbersSurvive

\* What a worker does to its call, and what Ray makes of it.
LEMMA StageMoves ==
    ASSUME CallType, call # NoCall,
           NEW s \in {"sent", "prepared", "answered", "raised", "lost"}, NEW r \in Payloads,
           s = "answered" => r \in Results(call.op),
           call' = [call EXCEPT !.stage = s, !.result = r], driver' = "open"
    PROVE  /\ CallType' /\ call' # NoCall
           /\ call'.op = call.op /\ call'.arg = call.arg /\ call'.stage = s /\ call'.result = r
<1>1. call \in RemoteCalls /\ call.to = ServedBy(call.op) /\ call.arg \in Arguments(call.op)
  BY DEF CallType
<1>2. /\ call'.op = call.op /\ call'.arg = call.arg /\ call'.stage = s /\ call'.result = r
      /\ call'.to = call.to /\ call' \in RemoteCalls
  BY <1>1 DEF RemoteCalls
<1> QED
  BY <1>1, <1>2, NoCallAssumption DEF CallType

LEMMA StageOnlyMoves ==
    ASSUME CallType, call # NoCall, NEW s \in {"sent", "prepared", "raised", "lost"},
           call' = [call EXCEPT !.stage = s], driver' = "open"
    PROVE  /\ CallType' /\ call' # NoCall
           /\ call'.op = call.op /\ call'.arg = call.arg /\ call'.stage = s
<1>1. call.result \in Payloads /\ call' = [call EXCEPT !.stage = s, !.result = call.result]
  BY DEF CallType, RemoteCalls
<1> QED
  BY <1>1, StageMoves

LEMMA InitVersions == Init => VersionsInv
<1> SUFFICES ASSUME Init PROVE VersionsInv
  OBVIOUS
<1>1. LoopTypeOK
  BY NoVersionAssumption, ActorsAssumption DEF Init, LoopTypeOK, CallType, Weights, Numbers
<1>2. LivesCount
  BY ActorsAssumption DEF Init, LivesCount, Untouched, Recorded
<1>3. CountersAgree /\ NumbersSurvive
  BY DEF Init, CountersAgree, NumbersSurvive, FirstInstalled, AnnouncedBeyondGiven, Answered, Pending
<1> QED
  BY <1>1, <1>2, <1>3 DEF VersionsInv

\* A call that is not answered, or is forgotten: no more is known of it than before.
CallFades ==
    /\ call' # NoCall =>
         /\ call # NoCall /\ call'.op = call.op /\ call'.arg = call.arg
         /\ \/ call'.stage = call.stage /\ call'.result = call.result
            \/ call'.stage \in {"prepared", "raised", "lost"}
    /\ driver' = "open" => driver = "open"
    /\ \A op \in {"publish", "update"} : driver' = "open" /\ ~ Unheard(op)' => ~ Unheard(op)

\* Steps that train, publish and install nothing.
QuietStep ==
    /\ UNCHANGED <<restarts, trainerVars, version, handVars, installed>>
    /\ \A p \in Processes :
         life'[p] \in {life[p], "dead"} \/ (life[p] = "none" /\ life'[p] = "starting")
    /\ CallFades

LEMMA QuietKeeps == ASSUME VersionsInv, LoopTypeOK', QuietStep PROVE VersionsInv'
<1>1. /\ UNCHANGED <<restarts, weights, latest, bridgeLatest, held, version, base, announced, given, installed>>
      /\ LivesCount /\ CountersAgree /\ NumbersSurvive
  BY DEF QuietStep, VersionsInv, trainerVars, handVars
<1>2. /\ \A op \in {"rollout", "train", "publish", "update"} : Pending(op)' => Pending(op) /\ call'.arg = call.arg
      /\ \A op \in {"rollout", "train", "publish", "update"} : Answered(op)' => Answered(op) /\ call'.result = call.result
  BY DEF QuietStep, CallFades, Pending, Answered
<1>3. LivesCount'
  <2>1. Untouched => Untouched'
    BY <1>1 DEF Untouched, QuietStep, CallFades
  <2>2. life'[Trainer] = "alive" => life[Trainer] = "alive"
    BY ActorsAssumption DEF QuietStep
  <2>3. life'[Trainer] \in {"none", "starting"} => life[Trainer] \in {"none", "starting"}
    BY ActorsAssumption DEF QuietStep
  <2>4. Recorded' = Recorded
    BY <1>1 DEF Recorded
  <2> QED
    BY <1>1, <2>1, <2>2, <2>3, <2>4 DEF LivesCount
<1>4. CountersAgree'
  BY <1>1, <1>2 DEF CountersAgree, QuietStep, CallFades
<1>5. NumbersSurvive'
  <2> SUFFICES ASSUME restarts[Rollout] = 0, restarts[Trainer] <= 1
               PROVE  /\ life'[Rollout] \in {"none", "starting"} => installed = {}
                      /\ \A n \in FirstInstalled' : CarriedBeyond(n)'
                      /\ weights.born = 0 => AnnouncedBeyondGiven'
    BY <1>1 DEF NumbersSurvive
  <2>1. life'[Rollout] \in {"none", "starting"} => life[Rollout] \in {"none", "starting"}
    BY ActorsAssumption DEF QuietStep
  <2>2. FirstInstalled' = FirstInstalled
    BY <1>1 DEF FirstInstalled
  <2>3. \A n \in FirstInstalled : CarriedBeyond(n)'
    BY <1>1, <1>2 DEF NumbersSurvive, CarriedBeyond, QuietStep, CallFades
  <2>4. weights.born = 0 => AnnouncedBeyondGiven'
    BY <1>1, <1>2 DEF NumbersSurvive, AnnouncedBeyondGiven
  <2> QED
    BY <1>1, <2>1, <2>2, <2>3, <2>4 DEF NumbersSurvive
<1> QED
  BY <1>3, <1>4, <1>5 DEF VersionsInv

LEMMA QuietType ==
    ASSUME LoopTypeOK, UNCHANGED <<restarts, trainerVars, version, handVars, installed>>,
           life' \in [Processes -> {"none", "starting", "alive", "dead"}], CallType'
    PROVE  LoopTypeOK'
BY DEF LoopTypeOK, trainerVars, handVars

LEMMA RaiseKeeps ==
    ASSUME VersionsInv, call # NoCall, call.stage \in {"sent", "prepared"},
           call.op \in {"publish", "update"} => call.stage = "sent", Raise,
           UNCHANGED <<rayVars, trainerVars, version, driver, handVars, installed>>
    PROVE  VersionsInv'
<1>1. LoopTypeOK /\ CallType /\ driver = "open" /\ driver' = "open"
  BY DEF VersionsInv, LoopTypeOK, CallType
<1>2. CallType' /\ call'.op = call.op /\ call'.arg = call.arg /\ call'.stage = "raised"
  BY <1>1, StageOnlyMoves DEF Raise
<1>3. LoopTypeOK'
  BY <1>1, <1>2, QuietType DEF LoopTypeOK, rayVars
<1>4. CallFades
  BY <1>1, <1>2 DEF CallFades, Unheard, Pending
<1>5. QuietStep
  BY <1>4 DEF QuietStep, rayVars
<1> QED
  BY <1>3, <1>5, QuietKeeps

\* A call that does not change, or that the driver stops waiting for and leaves.
LEMMA SameCallFades ==
    ASSUME \/ call' = call /\ (driver' = driver \/ driver' # "open")
           \/ /\ call' = NoCall
              /\ driver = "open"
              /\ driver' # "open" \/ call.stage = "raised"
    PROVE  CallFades
BY DEF CallFades, Unheard, Pending

LEMMA ManagerKeeps ==
    ASSUME VersionsInv,
           \/ UNCHANGED vars \/ KillNext \/ KillRaises \/ ClearActors \/ ReceiveError
           \/ \E p \in Processes : CreateWorker(p) \/ Lookup(p)
    PROVE  VersionsInv'
<1>1. LoopTypeOK
  BY DEF VersionsInv
<1>2. UNCHANGED <<restarts, trainerVars, version, handVars, installed>>
  BY DEF vars, rayVars, KillNext, KillRaises, ClearActors, ReceiveError, CreateWorker, Lookup
<1>3. /\ life' \in [Processes -> {"none", "starting", "alive", "dead"}]
      /\ \A p \in Processes :
           life'[p] \in {life[p], "dead"} \/ (life[p] = "none" /\ life'[p] = "starting")
  BY <1>1 DEF LoopTypeOK, vars, rayVars, KillNext, KillRaises, ClearActors, ReceiveError, CreateWorker, Lookup
<1>4. CallType' /\ CallFades
  <2>1. CASE UNCHANGED vars \/ \E p \in Processes : CreateWorker(p) \/ Lookup(p)
    <3>1. UNCHANGED <<call, driver>>
      BY <2>1 DEF vars, CreateWorker, Lookup
    <3> QED
      BY <1>1, <3>1, SameCallFades DEF LoopTypeOK, CallType
  <2>2. CASE KillNext \/ KillRaises \/ ClearActors
    <3>1. driver # "open" /\ driver' # "open" /\ call' = call
      BY <2>2 DEF KillNext, KillRaises, ClearActors
    <3> QED
      BY <1>1, <3>1, SameCallFades DEF LoopTypeOK, CallType
  <2>3. CASE ReceiveError
    <3>1. driver = "open" /\ call' = NoCall /\ (driver' # "open" \/ call.stage = "raised")
      BY <2>3 DEF ReceiveError
    <3> QED
      BY <3>1, SameCallFades DEF CallType
  <2> QED
    BY <2>1, <2>2, <2>3
<1>5. LoopTypeOK'
  BY <1>1, <1>2, <1>3, <1>4, QuietType
<1>6. QuietStep
  BY <1>2, <1>3, <1>4 DEF QuietStep
<1> QED
  BY <1>5, <1>6, QuietKeeps

\* An actor that dies.  Started again, the trainer has numbers only in what others
\* carry; its bridge's are those of the life that ended.
LEMMA CrashKeeps == ASSUME VersionsInv, NEW p \in Processes, Crash(p) PROVE VersionsInv'
<1>1. /\ LoopTypeOK /\ LivesCount /\ CountersAgree /\ NumbersSurvive
      /\ UNCHANGED <<trainerVars, version, driver, handVars, installed>>
  BY DEF VersionsInv, Crash
<1>2. /\ CallType' /\ (call' = NoCall => call = NoCall)
      /\ call' # NoCall =>
           /\ call # NoCall /\ call'.op = call.op /\ call'.arg = call.arg
           /\ call' = call \/ call'.stage \in {"sent", "lost"}
           /\ call' = call \/ call'.stage = "lost" \/ restarts[p] < MaxRestarts[p]
  <2>1. CASE call' = call
    BY <1>1, <2>1 DEF LoopTypeOK, CallType
  <2>2. CASE call # NoCall /\ call.to = p /\ call' = [call EXCEPT !.stage = "sent"]
    BY <1>1, <2>2, StageOnlyMoves DEF LoopTypeOK, CallType, Crash
  <2>3. CASE call # NoCall /\ call.to = p /\ call' = [call EXCEPT !.stage = "lost"]
    BY <1>1, <2>3, StageOnlyMoves DEF LoopTypeOK, CallType, Crash
  <2> QED
    BY <2>1, <2>2, <2>3 DEF Crash
<1>3. /\ CallType'
      /\ call' = call \/ (call' # NoCall /\ ServedBy(call.op) = p)
      /\ life' \in [Processes -> {"none", "starting", "alive", "dead"}]
      /\ \A q \in Processes : q # p => life'[q] = life[q]
  BY <1>1, <1>2 DEF LoopTypeOK, CallType, Crash
<1>4. CASE restarts[p] < MaxRestarts[p]
  <2>1. /\ restarts' \in [Processes -> Nat] /\ restarts'[p] = restarts[p] + 1 /\ life'[p] = "starting"
        /\ \A q \in Processes : q # p => restarts'[q] = restarts[q]
    BY <1>1, <1>4 DEF Crash, LoopTypeOK
  <2>2. LoopTypeOK'
    BY <1>1, <1>3, <2>1 DEF LoopTypeOK, trainerVars, handVars
  <2>3. \A op \in {"rollout", "train", "publish", "update"} :
          /\ Pending(op)' => Pending(op) /\ call'.arg = call.arg
          /\ Answered(op)' => Answered(op) /\ call'.result = call.result
          /\ ServedBy(op) # p /\ ~ Unheard(op)' => ~ Unheard(op)
    BY <1>2, <1>3, <2>1 DEF Pending, Answered, Unheard
  <2>4. CASE p = Trainer
    <3>1. LivesCount'
      BY <1>1, <2>1, <2>4, <2>2 DEF LivesCount, Recorded, LoopTypeOK, trainerVars, Weights
    <3>2. CountersAgree'
      BY <1>1, <2>1, <2>4 DEF CountersAgree, LoopTypeOK
    <3>3. NumbersSurvive'
      BY <1>1, <1>3, <2>1, <2>3, <2>4, ActorsAssumption
      DEF NumbersSurvive, FirstInstalled, CarriedBeyond, AnnouncedBeyondGiven, LoopTypeOK,
          trainerVars, handVars, ServedBy
    <3> QED
      BY <2>2, <3>1, <3>2, <3>3 DEF VersionsInv
  <2>5. CASE p = Rollout
    <3>1. LivesCount'
      BY <1>1, <1>2, <1>3, <2>1, <2>5, ActorsAssumption
      DEF LivesCount, Recorded, Untouched, trainerVars, handVars
    <3>2. CountersAgree'
      BY <1>1, <2>1, <2>3, <2>5, ActorsAssumption DEF CountersAgree, trainerVars, handVars, ServedBy
    <3>3. NumbersSurvive'
      BY <1>1, <2>1, <2>5 DEF NumbersSurvive, LoopTypeOK
    <3> QED
      BY <2>2, <3>1, <3>2, <3>3 DEF VersionsInv
  <2> QED
    BY <2>4, <2>5, ActorsAssumption
<1>5. CASE ~ (restarts[p] < MaxRestarts[p])
  <2>1. restarts' = restarts /\ life' = [life EXCEPT ![p] = "dead"]
        /\ (call' # NoCall => call' = call \/ call'.stage = "lost")
    BY <1>1, <1>2, <1>5 DEF Crash, LoopTypeOK
  <2>2. LoopTypeOK'
    BY <1>1, <1>3, <2>1, QuietType
  <2>3. QuietStep
    BY <1>1, <1>2, <2>1 DEF QuietStep, CallFades, Unheard, Pending, LoopTypeOK, handVars, trainerVars
  <2> QED
    BY <2>2, <2>3, QuietKeeps
<1> QED
  BY <1>4, <1>5

-----------------------------------------------------------------------------
(* The driver's calls. *)

\* What the driver may ask for: it hands on what it has in hand.
LEMMA CallsSend ==
    ASSUME LoopTypeOK, Calls
    PROVE  \E op \in {"rollout", "train", "publish", "update", "release"} :
             \E arg \in Arguments(op) :
               /\ Send(ServedBy(op), op, arg)
               /\ op = "train" => arg = base
               /\ op = "publish" => arg = announced
               /\ op = "update" => arg = given /\ given # NoManifest
               /\ op = "release" => held # {}
<1>1. CASE CallRollout
  BY <1>1 DEF CallRollout, Arguments, ServedBy
<1>2. CASE CallTrain
  BY <1>2 DEF CallTrain, Arguments, ServedBy, LoopTypeOK, Numbers
<1>3. CASE CallPublish
  BY <1>3 DEF CallPublish, Arguments, ServedBy, LoopTypeOK, Numbers
<1>4. CASE CallUpdate
  BY <1>4 DEF CallUpdate, Arguments, ServedBy, LoopTypeOK
<1>5. CASE CallRelease
  BY <1>5 DEF CallRelease, Arguments, ServedBy, LoopTypeOK
<1> QED
  BY <1>1, <1>2, <1>3, <1>4, <1>5 DEF Calls

LEMMA CallsKeep == ASSUME VersionsInv, Calls PROVE VersionsInv'
<1>1. LoopTypeOK /\ LivesCount /\ CountersAgree /\ NumbersSurvive
  BY DEF VersionsInv
<1>2. PICK op \in {"rollout", "train", "publish", "update", "release"} :
        \E arg \in Arguments(op) :
          /\ Send(ServedBy(op), op, arg)
          /\ op = "train" => arg = base
          /\ op = "publish" => arg = announced
          /\ op = "update" => arg = given /\ given # NoManifest
          /\ op = "release" => held # {}
  BY <1>1, CallsSend
<1>3. PICK arg \in Arguments(op) :
        /\ Send(ServedBy(op), op, arg)
        /\ op = "train" => arg = base
        /\ op = "publish" => arg = announced
        /\ op = "update" => arg = given /\ given # NoManifest
        /\ op = "release" => held # {}
  BY <1>2
<1>4. /\ driver = "open" /\ driver' = "open" /\ call = NoCall
      /\ UNCHANGED <<life, restarts, weights, latest, bridgeLatest, held, version, base, announced, given, installed>>
      /\ call' = [to |-> ServedBy(op), op |-> op, arg |-> arg, stage |-> "sent", result |-> NoVersion]
  BY <1>3 DEF Send, CanCall, rayVars, trainerVars, handVars
<1>5. call'.op = op /\ call'.arg = arg /\ call'.stage = "sent"
  BY <1>4
<1>6. LoopTypeOK'
  <2>1. arg \in Payloads /\ ServedBy(op) \in Processes
    BY ActorsAssumption DEF Arguments, Payloads, ServedBy
  <2>2. call' \in RemoteCalls /\ call'.to = ServedBy(call'.op)
    BY <1>4, <1>5, <2>1 DEF RemoteCalls, Payloads
  <2>3. CallType'
    BY <1>4, <1>5, <2>2 DEF CallType
  <2> QED
    BY <1>1, <1>4, <2>3 DEF LoopTypeOK
<1>7. LivesCount'
  <2>1. Untouched => Untouched'
    BY <1>3, <1>4, <1>5, NoVersionAssumption DEF Untouched, Arguments, Manifests
  <2>2. Recorded' = Recorded
    BY <1>4 DEF Recorded
  <2> QED
    BY <1>1, <1>4, <2>1, <2>2 DEF LivesCount
<1>8. CountersAgree'
  BY <1>1, <1>3, <1>4, <1>5 DEF CountersAgree, Unheard, Pending, Answered
<1>9. NumbersSurvive'
  <2>1. FirstInstalled' = FirstInstalled
    BY <1>4 DEF FirstInstalled
  <2>2. \A n : CarriedBeyond(n) => CarriedBeyond(n)'
    BY <1>3, <1>4, <1>5, NoVersionAssumption DEF CarriedBeyond, Unheard, Pending, Answered, Arguments
  <2>3. AnnouncedBeyondGiven => AnnouncedBeyondGiven'
    BY <1>3, <1>4, <1>5 DEF AnnouncedBeyondGiven, Pending, Answered
  <2> QED
    BY <1>1, <1>4, <2>1, <2>2, <2>3 DEF NumbersSurvive
<1> QED
  BY <1>6, <1>7, <1>8, <1>9 DEF VersionsInv

\* The driver gives up what it has in hand.
LEMMA LeaveKeeps == ASSUME VersionsInv, Leave PROVE VersionsInv'
<1>1. LoopTypeOK /\ LivesCount /\ CountersAgree /\ NumbersSurvive
  BY DEF VersionsInv
<1>2. /\ call = NoCall /\ call' = NoCall /\ driver' = "closing"
      /\ base' = NoVersion /\ announced' = NoVersion /\ given' = NoManifest
      /\ UNCHANGED <<life, restarts, weights, latest, bridgeLatest, held, version, installed>>
  BY DEF Leave, trainerVars
<1>3. LoopTypeOK'
  BY <1>1, <1>2 DEF LoopTypeOK, CallType, Numbers
<1>4. LivesCount'
  BY <1>1, <1>2 DEF LivesCount, Recorded, Untouched
<1>5. CountersAgree'
  BY <1>1, <1>2 DEF CountersAgree, Answered, Pending
<1>6. NumbersSurvive'
  BY <1>1, <1>2 DEF NumbersSurvive, FirstInstalled, CarriedBeyond, AnnouncedBeyondGiven, Answered, Pending
<1> QED
  BY <1>3, <1>4, <1>5, <1>6 DEF VersionsInv

\* The driver takes what the worker answered.
LEMMA ReceiveKeeps == ASSUME VersionsInv, Receive PROVE VersionsInv'
<1>1. LoopTypeOK /\ LivesCount /\ CountersAgree /\ NumbersSurvive
  BY DEF VersionsInv
<1>2. /\ driver = "open" /\ driver' = "open"
      /\ call # NoCall /\ call.stage = "answered" /\ call' = NoCall
      /\ base' = IF call.op = "rollout" THEN call.result
                 ELSE IF call.op = "update" THEN NoVersion ELSE base
      /\ announced' = IF call.op = "train" THEN call.result
                      ELSE IF call.op = "publish" THEN NoVersion ELSE announced
      /\ given' = IF call.op = "publish" THEN call.result
                  ELSE IF call.op = "update" THEN NoManifest ELSE given
      /\ UNCHANGED <<life, restarts, weights, latest, bridgeLatest, held, version, installed>>
  BY DEF Receive, rayVars, trainerVars
<1>3. call.result \in Results(call.op) /\ call.op \in {"rollout", "train", "publish", "update", "release"}
  BY <1>1, <1>2 DEF LoopTypeOK, CallType, RemoteCalls
<1>4. LoopTypeOK'
  BY <1>1, <1>2, <1>3 DEF LoopTypeOK, CallType, Numbers, Results
<1>5. LivesCount'
  <2>1. Untouched => Untouched'
    BY <1>2 DEF Untouched
  <2>2. Recorded' = Recorded
    BY <1>2 DEF Recorded
  <2> QED
    BY <1>1, <1>2, <2>1, <2>2 DEF LivesCount
<1>6. CountersAgree'
  BY <1>1, <1>2, <1>3 DEF CountersAgree, Unheard, Pending, Answered
<1>7. NumbersSurvive'
  <2>1. FirstInstalled' = FirstInstalled
    BY <1>2 DEF FirstInstalled
  <2>2. ASSUME restarts[Rollout] = 0, restarts[Trainer] <= 1, NEW n \in FirstInstalled
        PROVE  CarriedBeyond(n)'
    <3>1. CarriedBeyond(n) /\ n.version \in Int
      BY <1>1, <2>2 DEF NumbersSurvive, FirstInstalled, LoopTypeOK, Manifests
    <3>2. CASE call.op = "rollout"
      BY <1>2, <1>3, <3>1, <3>2 DEF CarriedBeyond, Unheard, Pending, Answered, Results
    <3>3. CASE call.op = "train"
      BY <1>2, <1>3, <3>1, <3>3 DEF CarriedBeyond, Unheard, Pending, Answered, Results
    <3>4. CASE call.op = "publish"
      BY <1>2, <1>3, <3>1, <3>4 DEF CarriedBeyond, Unheard, Pending, Answered, Results, Manifests
    <3>5. CASE call.op \in {"update", "release"}
      BY <1>2, <1>3, <3>1, <3>5 DEF CarriedBeyond, Unheard, Pending, Answered
    <3> QED
      BY <1>3, <3>2, <3>3, <3>4, <3>5
  <2>3. ASSUME restarts[Rollout] = 0, restarts[Trainer] <= 1, weights.born = 0
        PROVE  AnnouncedBeyondGiven'
    <3>1. AnnouncedBeyondGiven
      BY <1>1, <2>3 DEF NumbersSurvive
    <3> QED
      BY <1>2, <1>3, <3>1 DEF AnnouncedBeyondGiven, Pending, Answered
  <2> QED
    BY <1>1, <1>2, <2>1, <2>2, <2>3 DEF NumbersSurvive
<1> QED
  BY <1>4, <1>5, <1>6, <1>7 DEF VersionsInv

-----------------------------------------------------------------------------
(* What the workers do. *)

\* A worker that runs a call is alive.
LEMMA CalledServes ==
    ASSUME VersionsInv, NEW op \in {"rollout", "train", "publish", "update", "release"}, Running(op)
    PROVE  /\ CallType /\ call # NoCall /\ call.op = op /\ driver = "open"
           /\ call.arg \in Arguments(op) /\ life[ServedBy(op)] = "alive"
           /\ ServedBy(op) = Trainer => weights.born = restarts[Trainer]
BY DEF VersionsInv, LoopTypeOK, CallType, Running, LivesCount

LEMMA RolloutKeeps ==
    ASSUME VersionsInv, PrepareLogp \/ PrepareAttn \/ RunRollout PROVE VersionsInv'
<1>1. LoopTypeOK /\ LivesCount /\ CountersAgree /\ NumbersSurvive
  BY DEF VersionsInv
<1>2. /\ Running("rollout") /\ call.stage \in {"sent", "prepared"} /\ driver' = driver
      /\ UNCHANGED <<rayVars, trainerVars, version, handVars, installed>>
  BY DEF PrepareLogp, PrepareAttn, RunRollout, Called
<1>3. CallType /\ call # NoCall /\ call.op = "rollout" /\ driver = "open"
  BY <1>2, CalledServes
<1>4. CASE Raise
  BY <1>2, <1>3, <1>4, RaiseKeeps
<1>5. CASE call' = [call EXCEPT !.stage = "prepared"]
  <2>1. CallType' /\ call'.op = call.op /\ call'.arg = call.arg /\ call'.stage = "prepared"
    BY <1>2, <1>3, <1>5, StageOnlyMoves
  <2>2. LoopTypeOK'
    BY <1>1, <1>2, <2>1, QuietType DEF LoopTypeOK, rayVars
  <2>3. QuietStep
    BY <1>2, <1>3, <2>1 DEF QuietStep, CallFades, Unheard, Pending, rayVars
  <2> QED
    BY <2>2, <2>3, QuietKeeps
<1>6. CASE Answer(IF version = NoVersion THEN 0 ELSE version)
  <2> DEFINE served == IF version = NoVersion THEN 0 ELSE version
  <2>1. served \in Int
    BY <1>1 DEF LoopTypeOK, Numbers
  <2>2. call' = [call EXCEPT !.stage = "answered", !.result = served]
    BY <1>6 DEF Answer
  <2> HIDE DEF served
  <2>3. CallType' /\ call'.op = call.op /\ call'.arg = call.arg /\ call'.stage = "answered" /\ call'.result = served
    BY <1>2, <1>3, <2>1, <2>2, StageMoves DEF Results, Payloads
  <2>4. LoopTypeOK'
    BY <1>1, <1>2, <2>3, QuietType DEF LoopTypeOK, rayVars
  <2>5. LivesCount'
    BY <1>1, <1>2, <1>3, <2>3 DEF LivesCount, Untouched, Recorded, rayVars, trainerVars, handVars
  <2>6. CountersAgree'
    BY <1>1, <1>2, <1>3, <2>3 DEF CountersAgree, Answered, Pending, Unheard, rayVars, trainerVars, handVars
  <2>7. NumbersSurvive'
    <3>1. \A n : CarriedBeyond(n) => CarriedBeyond(n)'
      BY <1>2, <1>3, <2>3 DEF served, CarriedBeyond, Answered, Pending, Unheard, rayVars, trainerVars, handVars
    <3>2. AnnouncedBeyondGiven => AnnouncedBeyondGiven'
      BY <1>2, <1>3, <2>3 DEF AnnouncedBeyondGiven, Answered, Pending, rayVars, trainerVars, handVars
    <3> QED
      BY <1>1, <1>2, <3>1, <3>2 DEF NumbersSurvive, FirstInstalled, rayVars, trainerVars
  <2> QED
    BY <2>4, <2>5, <2>6, <2>7 DEF VersionsInv
<1> QED
  BY <1>4, <1>5, <1>6 DEF PrepareLogp, PrepareAttn, RunRollout

\* A training step announces a number beyond the rollout's, beyond the worker's last
\* and so, in its first life, beyond the bridge's.
LEMMA TrainKeeps == ASSUME VersionsInv, Train PROVE VersionsInv'
<1>1. LoopTypeOK /\ LivesCount /\ CountersAgree /\ NumbersSurvive
  BY DEF VersionsInv
<1>2. /\ Running("train") /\ call.stage = "sent"
      /\ UNCHANGED <<rayVars, bridgeLatest, held, version, driver, handVars, installed>>
  BY DEF Train, Called
<1>3. /\ CallType /\ call # NoCall /\ call.op = "train" /\ driver = "open"
      /\ call.arg \in Int /\ life[Trainer] = "alive" /\ weights.born = restarts[Trainer]
  BY <1>2, CalledServes DEF Arguments, ServedBy
<1>4. NextVersion(call.arg) \in Int /\ NextVersion(call.arg) > call.arg /\ NextVersion(call.arg) > latest
  BY <1>1, <1>3 DEF LoopTypeOK, NextVersion, Larger
<1>5. /\ weights' \in Weights /\ weights'.born = weights.born
      /\ latest' \in {latest, NextVersion(call.arg)}
      /\ Raise \/ (latest' = NextVersion(call.arg) /\ Answer(latest'))
  BY <1>1 DEF Train, LoopTypeOK, Weights
<1>6. CASE Raise
  <2>1. latest' \in Int /\ latest' >= latest
    BY <1>1, <1>4, <1>5 DEF LoopTypeOK
  <2>2. CallType' /\ call'.op = "train" /\ call'.arg = call.arg /\ call'.stage = "raised"
    BY <1>2, <1>3, <1>6, StageOnlyMoves DEF Raise
  <2>3. UNCHANGED <<life, restarts, bridgeLatest, held, version, driver, base, announced, given, installed>>
    BY <1>2 DEF rayVars, handVars
  <2>4. LoopTypeOK'
    BY <1>1, <1>5, <2>1, <2>2, <2>3 DEF LoopTypeOK
  <2>5. LivesCount'
    BY <1>1, <1>3, <1>5, <2>3 DEF LivesCount, Recorded
  <2>6. CountersAgree'
    <3>1. bridgeLatest \in Int /\ latest \in Int /\ announced \in Numbers
      BY <1>1 DEF LoopTypeOK
    <3> QED
      BY <1>1, <1>3, <2>1, <2>2, <2>3, <3>1, NoVersionAssumption
      DEF CountersAgree, Answered, Pending, Unheard, Numbers
  <2>7. NumbersSurvive'
    <3>1. FirstInstalled' = FirstInstalled
      BY <2>3 DEF FirstInstalled
    <3>2. \A n : CarriedBeyond(n) => CarriedBeyond(n)'
      BY <1>2, <1>3, <1>5, <2>2, <2>3 DEF CarriedBeyond, Answered, Pending, Unheard
    <3>3. AnnouncedBeyondGiven => AnnouncedBeyondGiven'
      BY <1>3, <2>2, <2>3 DEF AnnouncedBeyondGiven, Answered, Pending
    <3> QED
      BY <1>1, <1>5, <2>3, <3>1, <3>2, <3>3 DEF NumbersSurvive
  <2> QED
    BY <2>4, <2>5, <2>6, <2>7 DEF VersionsInv
<1>7. CASE latest' = NextVersion(call.arg) /\ Answer(latest')
  <2>1. latest' \in Int /\ latest' > call.arg /\ latest' > latest
    BY <1>4, <1>7
  <2>2. weights' \in Weights /\ weights'.born = weights.born
    BY <1>5
  <2>3. CallType' /\ call'.op = "train" /\ call'.arg = call.arg /\ call'.stage = "answered" /\ call'.result = latest'
    BY <1>2, <1>3, <1>7, <2>1, StageMoves DEF Results, Payloads, Answer
  <2>4. UNCHANGED <<life, restarts, bridgeLatest, held, version, driver, base, announced, given, installed>>
    BY <1>2 DEF rayVars, handVars
  <2>5. LoopTypeOK'
    BY <1>1, <2>1, <2>2, <2>3, <2>4 DEF LoopTypeOK
  <2>6. LivesCount'
    BY <1>1, <1>3, <2>2, <2>4 DEF LivesCount, Recorded
  <2>7. CountersAgree'
    BY <1>1, <1>3, <2>1, <2>3, <2>4, NoVersionAssumption
    DEF CountersAgree, Answered, Pending, Unheard, LoopTypeOK, Numbers
  <2>8. NumbersSurvive'
    <3>1. FirstInstalled' = FirstInstalled
      BY <2>4 DEF FirstInstalled
    <3>2. ASSUME NEW n \in FirstInstalled, CarriedBeyond(n) PROVE CarriedBeyond(n)'
      <4>1. n.version \in Int
        BY <1>1 DEF LoopTypeOK, FirstInstalled, Manifests
      <4> QED
        BY <1>2, <1>3, <2>1, <2>2, <2>3, <2>4, <3>2, <4>1 DEF CarriedBeyond, Answered, Pending, Unheard
    <3>3. ASSUME weights.born = 0, AnnouncedBeyondGiven PROVE AnnouncedBeyondGiven'
      <4>1. bridgeLatest \in Int /\ latest \in Int /\ bridgeLatest <= latest
        BY <1>1, <1>3, <3>3 DEF LoopTypeOK, CountersAgree
      <4>2. given # NoManifest => given.version \in Int
        BY <1>1 DEF LoopTypeOK, Manifests
      <4> QED
        BY <1>3, <2>1, <2>3, <2>4, <3>3, <4>1, <4>2 DEF AnnouncedBeyondGiven, Answered, Pending
    <3> QED
      BY <1>1, <2>2, <2>4, <3>1, <3>2, <3>3 DEF NumbersSurvive
  <2> QED
    BY <2>5, <2>6, <2>7, <2>8 DEF VersionsInv
<1> QED
  BY <1>5, <1>6, <1>7

LEMMA PublishKeeps == ASSUME VersionsInv, PublishWeights PROVE VersionsInv'
<1>1. LoopTypeOK /\ LivesCount /\ CountersAgree /\ NumbersSurvive
  BY DEF VersionsInv
<1>2. /\ Running("publish") /\ call.stage = "sent"
      /\ UNCHANGED <<rayVars, weights, latest, version, driver, handVars, installed>>
  BY DEF PublishWeights, Called
<1>3. /\ CallType /\ call # NoCall /\ call.op = "publish" /\ driver = "open"
      /\ call.arg \in Int /\ life[Trainer] = "alive" /\ weights.born = restarts[Trainer]
  BY <1>2, CalledServes DEF Arguments, ServedBy
<1>4. CASE Raise /\ UNCHANGED <<held, bridgeLatest>>
  BY <1>2, <1>3, <1>4, RaiseKeeps DEF trainerVars
<1>5. CASE /\ call.arg > bridgeLatest
           /\ LET m == [version |-> call.arg, weights |-> weights] IN
                held' = held \cup {m} /\ Answer(m)
           /\ bridgeLatest' = call.arg
  <2> DEFINE m == [version |-> call.arg, weights |-> weights]
  <2>1. /\ m \in Manifests /\ m.version = call.arg /\ m.weights = weights
        /\ held' = held \cup {m}
        /\ call' = [call EXCEPT !.stage = "answered", !.result = m]
        /\ call.arg > bridgeLatest /\ bridgeLatest' = call.arg /\ bridgeLatest \in Int
    BY <1>1, <1>3, <1>5 DEF Manifests, LoopTypeOK, Answer
  <2> HIDE DEF m
  <2>2. CallType' /\ call'.op = "publish" /\ call'.arg = call.arg /\ call'.stage = "answered" /\ call'.result = m
        /\ call' # NoCall
    BY <1>2, <1>3, <2>1, StageMoves DEF Results, Payloads
  <2>3. UNCHANGED <<life, restarts, weights, latest, version, driver, base, announced, given, installed>>
    BY <1>2 DEF rayVars, handVars
  <2>4. LoopTypeOK'
    BY <1>1, <1>3, <2>1, <2>2, <2>3 DEF LoopTypeOK
  <2>5. LivesCount'
    <3>1. Recorded' = Recorded \cup {m}
      BY <2>1, <2>3 DEF Recorded
    <3>2. \A r \in Recorded : r.version \in Int /\ r.version < m.version
      BY <1>1, <1>3, <2>1 DEF LivesCount, Recorded, LoopTypeOK, Manifests
    <3>3. \A r \in Recorded' : r.version <= bridgeLatest'
      BY <1>3, <2>1, <3>1, <3>2
    <3>4. \A r, s \in Recorded' : r.version = s.version => r = s
      BY <1>1, <3>1, <3>2 DEF LivesCount
    <3> QED
      BY <1>1, <1>3, <2>1, <2>3, <3>3, <3>4 DEF LivesCount
  <2>6. CountersAgree'
    <3>1. restarts[Trainer] = 0 => call.arg = announced /\ announced # NoVersion /\ announced <= latest
      BY <1>1, <1>2, <1>3, NoVersionAssumption DEF CountersAgree, Pending, Unheard
    <3> QED
      BY <1>3, <2>1, <2>2, <2>3, <3>1 DEF CountersAgree, Answered, Pending, Unheard
  <2>7. NumbersSurvive'
    <3>1. FirstInstalled' = FirstInstalled
      BY <2>3 DEF FirstInstalled
    <3>2. ASSUME NEW n \in FirstInstalled, CarriedBeyond(n) PROVE CarriedBeyond(n)'
      <4>1. call.arg > n.version
        BY <1>3, <3>2 DEF CarriedBeyond, Pending
      <4> QED
        BY <1>2, <1>3, <2>1, <2>2, <2>3, <3>2, <4>1 DEF CarriedBeyond, Answered, Pending, Unheard
    <3>3. ASSUME AnnouncedBeyondGiven PROVE AnnouncedBeyondGiven'
      <4>1. given # NoManifest => given.version \in Int
        BY <1>1 DEF LoopTypeOK, Manifests
      <4> QED
        BY <1>3, <2>1, <2>2, <2>3, <3>3, <4>1 DEF AnnouncedBeyondGiven, Answered, Pending
    <3> QED
      BY <1>1, <2>3, <3>1, <3>2, <3>3 DEF NumbersSurvive
  <2> QED
    BY <2>4, <2>5, <2>6, <2>7 DEF VersionsInv
<1> QED
  BY <1>4, <1>5 DEF PublishWeights

\* What is installed is what the driver has in hand, and the bridge still has it.
LEMMA UpdateKeeps == ASSUME VersionsInv, UpdateWeights PROVE VersionsInv'
<1>1. LoopTypeOK /\ LivesCount /\ CountersAgree /\ NumbersSurvive
  BY DEF VersionsInv
<1>2. /\ Running("update") /\ call.stage = "sent"
      /\ UNCHANGED <<rayVars, trainerVars, driver, handVars>>
  BY DEF UpdateWeights, Called
<1>3. /\ CallType /\ call # NoCall /\ call.op = "update" /\ driver = "open"
      /\ call.arg \in Manifests /\ life[Rollout] = "alive"
  BY <1>2, CalledServes DEF Arguments, ServedBy
<1>4. CASE Raise /\ UNCHANGED <<version, installed>>
  BY <1>2, <1>3, <1>4, RaiseKeeps
<1>5. CASE /\ call.arg \in held
           /\ version' = call.arg.version
           /\ installed' = installed \cup {call.arg}
           /\ Answer(call.arg)
  <2> PICK m \in Manifests : m = call.arg
    BY <1>3
  <2>1. /\ m \in held /\ version' = m.version /\ installed' = installed \cup {m}
        /\ call' = [call EXCEPT !.stage = "answered", !.result = m]
        /\ m.version \in Int /\ m.weights.born = weights.born
    BY <1>1, <1>3, <1>5 DEF Answer, Manifests, LivesCount
  <2>2. CallType' /\ call'.op = "update" /\ call'.arg = m /\ call'.stage = "answered" /\ call'.result = m
        /\ call' # NoCall
    BY <1>2, <1>3, <2>1, StageMoves DEF Results, Payloads
  <2>3. UNCHANGED <<life, restarts, weights, latest, bridgeLatest, held, driver, base, announced, given>>
    BY <1>2 DEF rayVars, handVars, trainerVars
  <2>4. LoopTypeOK'
    BY <1>1, <1>3, <2>1, <2>2, <2>3 DEF LoopTypeOK, Numbers
  <2>5. LivesCount'
    <3>1. Recorded' = Recorded
      BY <2>1, <2>3 DEF Recorded
    <3>2. Untouched => FALSE
      BY <2>1 DEF Untouched
    <3>3. weights.born \in Nat
      BY <1>1 DEF LoopTypeOK, Weights
    <3> QED
      BY <1>1, <2>1, <2>3, <3>1, <3>2, <3>3 DEF LivesCount
  <2>6. CountersAgree'
    BY <1>1, <1>3, <2>2, <2>3 DEF CountersAgree, Answered, Pending, Unheard
  <2>7. NumbersSurvive'
    <3> SUFFICES ASSUME restarts[Rollout] = 0, restarts[Trainer] <= 1 PROVE NumbersSurvive'
      BY <2>3 DEF NumbersSurvive
    <3>1. /\ \A n \in FirstInstalled : CarriedBeyond(n)
          /\ \A r, s \in installed : r.version = s.version => r.weights = s.weights
          /\ weights.born = 0 => AnnouncedBeyondGiven
      BY <1>1 DEF NumbersSurvive
    <3>2. weights.born \in {0, 1} /\ \A n \in installed : n.weights.born \in {0, weights.born}
      <4>1. weights.born \in Nat /\ \A n \in installed : n.weights.born \in Nat /\ n.weights.born <= weights.born
        BY <1>1 DEF LoopTypeOK, LivesCount, Weights, Manifests
      <4>2. restarts[Trainer] \in Nat /\ weights.born <= restarts[Trainer]
        BY <1>1, ActorsAssumption DEF LoopTypeOK, LivesCount
      <4> QED
        BY <4>1, <4>2
    <3>3. \A n \in installed : n.version \in Int
      BY <1>1 DEF LoopTypeOK, Manifests
    <3>4. \A n \in installed : n.version = m.version => n.weights = m.weights
      <4> TAKE n \in installed
      <4>1. CASE n.weights.born = weights.born
        BY <1>1, <2>1, <4>1 DEF LivesCount, Recorded
      <4>2. CASE n.weights.born = 0 /\ weights.born = 1
        BY <2>1, <3>1, <3>3, <4>2 DEF FirstInstalled, CarriedBeyond
      <4> QED
        BY <3>2, <4>1, <4>2
    <3>5. \A r, s \in installed' : r.version = s.version => r.weights = s.weights
      BY <2>1, <3>1, <3>4
    <3>6. \A n \in FirstInstalled : m.version >= n.version
      <4> TAKE n \in FirstInstalled
      <4>1. CarriedBeyond(n) /\ n.version \in Int
        BY <3>1, <3>3 DEF FirstInstalled
      <4>2. CASE weights.born = 1
        BY <2>1, <3>3, <4>1, <4>2 DEF CarriedBeyond
      <4>3. CASE weights.born = 0
        <5>1. given = m /\ given # NoManifest
          BY <1>3, <3>1, <4>3 DEF AnnouncedBeyondGiven, Pending
        <5> QED
          BY <4>1, <4>3, <5>1 DEF CarriedBeyond
      <4> QED
        BY <3>2, <4>2, <4>3
    <3>7. ASSUME NEW n \in FirstInstalled PROVE CarriedBeyond(n)'
      <4>1. CarriedBeyond(n) /\ m.version >= n.version
        BY <3>1, <3>6, <3>7
      <4> QED
        BY <1>3, <2>1, <2>2, <2>3, <4>1, NoVersionAssumption DEF CarriedBeyond, Answered, Pending, Unheard
    <3>8. ASSUME weights.born = 0 PROVE CarriedBeyond(m)' /\ AnnouncedBeyondGiven'
      <4>1. AnnouncedBeyondGiven /\ given = m /\ given # NoManifest
        BY <1>3, <3>1, <3>8 DEF AnnouncedBeyondGiven, Pending
      <4>2. CarriedBeyond(m)'
        BY <2>1, <2>2, <2>3, <3>8, <4>1, NoVersionAssumption
        DEF CarriedBeyond, AnnouncedBeyondGiven, Answered, Pending, Unheard
      <4>3. AnnouncedBeyondGiven'
        BY <2>2, <2>3, <4>1 DEF AnnouncedBeyondGiven, Answered, Pending
      <4> QED
        BY <4>2, <4>3
    <3>9. \A n \in FirstInstalled' : n \in FirstInstalled \/ (n = m /\ weights.born = 0)
      BY <2>1 DEF FirstInstalled
    <3> QED
      BY <1>3, <2>3, <3>5, <3>7, <3>8, <3>9, ActorsAssumption DEF NumbersSurvive
  <2> QED
    BY <2>4, <2>5, <2>6, <2>7 DEF VersionsInv
<1> QED
  BY <1>4, <1>5 DEF UpdateWeights

LEMMA ReleaseKeeps == ASSUME VersionsInv, ReleaseTrainer PROVE VersionsInv'
<1>1. LoopTypeOK /\ LivesCount /\ CountersAgree /\ NumbersSurvive
  BY DEF VersionsInv
<1>2. /\ Running("release") /\ call.stage = "sent"
      /\ UNCHANGED <<rayVars, weights, latest, bridgeLatest, version, driver, handVars, installed>>
      /\ held' = held \ {call.arg} /\ call' = [call EXCEPT !.stage = "answered", !.result = call.arg]
  BY DEF ReleaseTrainer, Called, Answer
<1>3. /\ CallType /\ call # NoCall /\ call.op = "release" /\ driver = "open"
      /\ call.arg \in Manifests /\ life[Trainer] = "alive" /\ weights.born = restarts[Trainer]
  BY <1>2, CalledServes DEF Arguments, ServedBy
<1>4. CallType' /\ call'.op = "release" /\ call'.stage = "answered"
  BY <1>2, <1>3, StageMoves DEF Results, Payloads
<1>5. UNCHANGED <<life, restarts, weights, latest, bridgeLatest, version, driver, base, announced, given, installed>>
  BY <1>2 DEF rayVars, handVars
<1>6. LoopTypeOK'
  BY <1>1, <1>2, <1>4, <1>5 DEF LoopTypeOK
<1>7. LivesCount'
  <2>1. Recorded' \subseteq Recorded
    BY <1>2, <1>5 DEF Recorded
  <2> QED
    BY <1>1, <1>2, <1>3, <1>5, <2>1 DEF LivesCount
<1>8. CountersAgree'
  BY <1>1, <1>3, <1>4, <1>5 DEF CountersAgree, Answered, Pending, Unheard
<1>9. NumbersSurvive'
  <2>1. \A n : CarriedBeyond(n) => CarriedBeyond(n)'
    BY <1>2, <1>3, <1>4, <1>5 DEF CarriedBeyond, Answered, Pending, Unheard
  <2>2. AnnouncedBeyondGiven => AnnouncedBeyondGiven'
    BY <1>3, <1>4, <1>5 DEF AnnouncedBeyondGiven, Answered, Pending
  <2> QED
    BY <1>1, <1>5, <2>1, <2>2 DEF NumbersSurvive, FirstInstalled
<1> QED
  BY <1>6, <1>7, <1>8, <1>9 DEF VersionsInv

\* A new life of the trainer has published nothing; what is installed is of earlier
\* lives, or nothing was ever trained.
LEMMA ConstructTrainer == ASSUME VersionsInv, Construct(Trainer) PROVE VersionsInv'
<1>1. LoopTypeOK /\ LivesCount /\ CountersAgree /\ NumbersSurvive
  BY DEF VersionsInv
<1>2. /\ life[Trainer] = "starting"
      /\ weights' = [born |-> restarts[Trainer], steps |-> 0]
      /\ latest' = -1 /\ bridgeLatest' = -1 /\ held' = {}
      /\ UNCHANGED <<restarts, version, driver, base, announced, given, call, installed>>
  BY ActorsAssumption DEF Construct, NewWorker, handVars
<1>3. /\ life' \in [Processes -> {"none", "starting", "alive", "dead"}]
      /\ life'[Rollout] = life[Rollout] /\ life'[Trainer] \in {"alive", "dead"}
  BY <1>1, ActorsAssumption DEF Construct, LoopTypeOK
<1>4. restarts[Trainer] \in Nat /\ weights'.born = restarts[Trainer] /\ weights' \in Weights
  BY <1>1, <1>2, ActorsAssumption DEF LoopTypeOK, Weights
<1>5. Untouched \/ weights.born < restarts[Trainer]
  BY <1>1, <1>2 DEF LivesCount
<1>6. LoopTypeOK'
  BY <1>1, <1>2, <1>3, <1>4 DEF LoopTypeOK, CallType
<1>7. weights.born \in Nat /\ \A m \in installed : m.weights.born \in Nat /\ m.weights.born <= weights.born
  BY <1>1 DEF LoopTypeOK, Weights, Manifests, LivesCount
<1>8. LivesCount'
  <2>1. Recorded' = {}
    BY <1>2, <1>4, <1>5, <1>7 DEF Recorded, Untouched
  <2> QED
    BY <1>2, <1>3, <1>4, <1>5, <1>7, <2>1 DEF LivesCount, Untouched
<1>9. CASE Untouched
  <2>1. CountersAgree'
    BY <1>2, <1>9 DEF CountersAgree, Untouched, Answered, Pending, Unheard
  <2>2. NumbersSurvive'
    BY <1>2, <1>9 DEF NumbersSurvive, FirstInstalled, AnnouncedBeyondGiven, Untouched, Answered, Pending
  <2> QED
    BY <1>6, <1>8, <2>1, <2>2 DEF VersionsInv
<1>10. CASE weights.born < restarts[Trainer]
  <2>1. restarts[Trainer] # 0
    BY <1>4, <1>7, <1>10
  <2>2. CountersAgree'
    BY <1>2, <2>1 DEF CountersAgree
  <2>3. \A n : CarriedBeyond(n) => CarriedBeyond(n)'
    BY <1>2, <1>4, <2>1 DEF CarriedBeyond, Answered, Pending, Unheard
  <2>4. NumbersSurvive'
    BY <1>1, <1>2, <1>3, <1>4, <2>1, <2>3 DEF NumbersSurvive, FirstInstalled
  <2> QED
    BY <1>6, <1>8, <2>2, <2>4 DEF VersionsInv
<1> QED
  BY <1>5, <1>9, <1>10

\* A new life of the rollout worker serves no version; its first finds none installed.
LEMMA ConstructRollout == ASSUME VersionsInv, Construct(Rollout) PROVE VersionsInv'
<1>1. LoopTypeOK /\ LivesCount /\ CountersAgree /\ NumbersSurvive
  BY DEF VersionsInv
<1>2. /\ life[Rollout] = "starting" /\ version' = NoVersion
      /\ UNCHANGED <<restarts, weights, latest, bridgeLatest, held, driver, base, announced, given, call, installed>>
  BY ActorsAssumption DEF Construct, NewWorker, handVars, trainerVars
<1>3. /\ life' \in [Processes -> {"none", "starting", "alive", "dead"}]
      /\ life'[Rollout] = "alive" /\ life'[Trainer] = life[Trainer]
  BY <1>1, ActorsAssumption DEF Construct, LoopTypeOK
<1>4. LoopTypeOK'
  BY <1>1, <1>2, <1>3 DEF LoopTypeOK, CallType, Numbers
<1>5. LivesCount'
  BY <1>1, <1>2, <1>3 DEF LivesCount, Untouched, Recorded
<1>6. CountersAgree'
  BY <1>1, <1>2 DEF CountersAgree, Answered, Pending, Unheard
<1>7. NumbersSurvive'
  <2>1. AnnouncedBeyondGiven => AnnouncedBeyondGiven'
    BY <1>2 DEF AnnouncedBeyondGiven, Answered, Pending
  <2> QED
    BY <1>1, <1>2, <1>3, <2>1 DEF NumbersSurvive, FirstInstalled
<1> QED
  BY <1>4, <1>5, <1>6, <1>7 DEF VersionsInv

\* VersionsInv is inductive.
LEMMA VersionsStep == VersionsInv /\ [Next]_vars => VersionsInv'
<1> SUFFICES ASSUME VersionsInv, [Next]_vars PROVE VersionsInv'
  OBVIOUS
<1>1. CASE UNCHANGED vars \/ KillNext \/ KillRaises \/ ClearActors \/ ReceiveError
  BY <1>1, ManagerKeeps
<1>2. ASSUME NEW p \in Processes, CreateWorker(p) \/ Construct(p) \/ Crash(p) \/ Lookup(p)
      PROVE  VersionsInv'
  <2>1. p = Trainer \/ p = Rollout
    BY ActorsAssumption
  <2> QED
    BY <1>2, <2>1, ManagerKeeps, CrashKeeps, ConstructTrainer, ConstructRollout
<1> QED
  BY <1>1, <1>2, CallsKeep, RolloutKeeps, TrainKeeps, PublishKeeps, UpdateKeeps, ReleaseKeeps,
     ReceiveKeeps, LeaveKeeps
  DEF Next, Handlers, Shutdown

\* A version announced in the trainer's first life is one its bridge still takes
\* (_next_published_weight_version, the bridge's publish): for any number of training
\* steps, of restarts of the rollout worker, and of failed and repeated calls.
THEOREM AnnouncedAlwaysPublishable == Spec => []AnnouncedIsPublishable
<1>1. VersionsInv => AnnouncedIsPublishable
  <2> SUFFICES ASSUME VersionsInv, Called("publish"), restarts[Trainer] = 0
               PROVE  call.arg > bridgeLatest
    BY DEF AnnouncedIsPublishable
  <2>1. call # NoCall /\ call.op = "publish" /\ call.stage = "sent" /\ driver = "open" /\ call.arg \in Int
    BY CalledServes DEF Called, Arguments
  <2>2. CountersAgree /\ bridgeLatest \in Int
    BY DEF VersionsInv, LoopTypeOK
  <2> QED
    BY <2>1, <2>2, NoVersionAssumption DEF CountersAgree, Pending, Unheard
<1> QED
  BY InitVersions, VersionsStep, <1>1, PTL DEF Spec

\* No number is served with two sets of weights (active_weight_version), as long as
\* the trainer was not restarted, or was once and the rollout worker was not.
THEOREM VersionsAlwaysNameWeights == Spec => []VersionsNameWeights
<1>1. VersionsInv => VersionsNameWeights
  <2> SUFFICES ASSUME VersionsInv, NEW m \in installed, NEW n \in installed, m.version = n.version,
                      restarts[Trainer] = 0 \/ (restarts[Rollout] = 0 /\ restarts[Trainer] = 1)
               PROVE  m.weights = n.weights
    BY DEF VersionsNameWeights
  <2>1. LoopTypeOK /\ LivesCount /\ NumbersSurvive
    BY DEF VersionsInv
  <2>2. CASE restarts[Trainer] = 0
    <3>1. \A r \in installed : r.weights.born = weights.born
      BY <2>1, <2>2 DEF LoopTypeOK, LivesCount, Manifests, Weights
    <3> QED
      BY <2>1, <3>1 DEF LivesCount, Recorded
  <2>3. CASE restarts[Rollout] = 0 /\ restarts[Trainer] = 1
    BY <2>1, <2>3 DEF NumbersSurvive
  <2> QED
    BY <2>2, <2>3
<1> QED
  BY InitVersions, VersionsStep, <1>1, PTL DEF Spec
=============================================================================
