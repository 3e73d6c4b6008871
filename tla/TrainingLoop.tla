----------------------------- MODULE TrainingLoop -----------------------------
(***************************************************************************)
(* A driver, the Ray actors of rl_engine/executors/ray_actor_manager.py,   *)
(* the DeepSpeed trainer (deepspeed_trainer.py) in one of them and a       *)
(* rollout worker in the other, each with the kernel registry of its       *)
(* process.                                                                *)
(*                                                                         *)
(* The driver is the code that uses the handles (the repository's tests):  *)
(* it makes one call at a time, ray.get blocks it, and it trains on        *)
(* rollouts made since the last installation only.  An actor that dies is  *)
(* constructed again while it has restarts left, with nothing of its old   *)
(* state; a call on it is then repeated or fails (max_task_retries), also  *)
(* when it had been carried out and only its answer was lost.              *)
(*                                                                         *)
(* The bridge between the two is what WeightBridge and WeightHandoff say   *)
(* of it: versions increase at a publisher, an update is installed whole   *)
(* or not at all.                                                          *)
(***************************************************************************)
EXTENDS KernelRegistry

CONSTANTS
    Trainer, Rollout,
    MaxRestarts,   \* process -> RayActorOptions.max_restarts
    Retries,       \* max_task_retries allows a repetition
    Lookups,       \* operator types other objects of a process ask for
    MaxTrains,     \* bound: restarts of the trainer and optimizer steps since
    NoCall, NoManifest, NoVersion

ASSUME ActorsAssumption == Trainer # Rollout /\ Processes = {Trainer, Rollout}
ASSUME LookupsAssumption == Lookups \in [Processes -> SUBSET OpTypes]
ASSUME NoVersionAssumption == NoVersion \notin Int

Weights == [born : Nat, steps : Nat]
Manifests == [version : Int, weights : Weights]
Payloads == Int \cup {NoVersion} \cup Manifests
RemoteCalls ==
    [to : Processes, op : {"rollout", "train", "publish", "update", "release"}, arg : Payloads,
     stage : {"sent", "prepared", "answered", "raised", "lost"}, result : Payloads]

ASSUME NoCallAssumption == NoCall \notin RemoteCalls

VARIABLES
    actors,        \* RayActorManager._actors
    life,          \* what Ray has of each actor
    restarts,
    left,          \* actors the loop of shutdown has still to kill
    weights,       \* the trainer's parameters: life and steps of its optimizer
    latest,        \* _latest_published_weight_version
    bridgeLatest,  \* the same of the trainer's bridge
    held,          \* manifests the trainer's bridge holds
    version,       \* the rollout worker's active_weight_version
    driver,        \* where the driver is
    base,          \* weight_version of the rollout in hand
    announced,     \* published_weight_version of the training result in hand
    given,         \* manifest in hand
    call,          \* the remote call it waits for
    installed      \* every [version, weights] the rollout worker ever served

rayVars == <<actors, life, restarts, left>>
trainerVars == <<weights, latest, bridgeLatest, held>>
handVars == <<base, announced, given>>
vars == <<registryVars, rayVars, trainerVars, version, driver, handVars, call, installed>>

Larger(a, b) == IF a > b THEN a ELSE b

Init ==
    /\ RegistryInit
    /\ actors = <<>>
    /\ life = [p \in Processes |-> "none"]
    /\ restarts = [p \in Processes |-> 0]
    /\ left = 0
    /\ weights = [born |-> 0, steps |-> 0]
    /\ latest = -1
    /\ bridgeLatest = -1
    /\ held = {}
    /\ version = NoVersion
    /\ driver = "open"
    /\ base = NoVersion
    /\ announced = NoVersion
    /\ given = NoManifest
    /\ call = NoCall
    /\ installed = {}

-----------------------------------------------------------------------------
\* create_worker_actor: the handle enters the list; the constructor runs later.
CreateWorker(p) ==
    /\ driver = "open"
    /\ call = NoCall
    /\ life[p] = "none"
    /\ life' = [life EXCEPT ![p] = "starting"]
    /\ actors' = Append(actors, p)
    /\ UNCHANGED <<registryVars, restarts, left, trainerVars, version, driver, handVars, call, installed>>

\* What a process has when its worker has just been constructed.
NewWorker(p) ==
    IF p = Trainer
    THEN /\ weights' = [born |-> restarts[p], steps |-> 0]
         /\ latest' = -1
         /\ bridgeLatest' = -1
         /\ held' = {}
         /\ UNCHANGED version
    ELSE version' = NoVersion /\ UNCHANGED trainerVars

\* The worker's constructor; the trainer's asks the registry for linear_logp
\* unless it trains on the CPU.  An actor whose constructor raises is dead.
Construct(p) ==
    /\ life[p] = "starting"
    /\ IF p = Trainer /\ device.platform # "cpu"
       THEN \E attempt \in Attempts("linear_logp") :
              /\ GetOp(p, "linear_logp", attempt)
              /\ life' = [life EXCEPT ![p] =
                    IF chosen'[p]["linear_logp"] = NoBackend THEN "dead" ELSE "alive"]
       ELSE life' = [life EXCEPT ![p] = "alive"] /\ UNCHANGED registryVars
    /\ NewWorker(p)
    /\ UNCHANGED <<actors, restarts, left, driver, handVars, call, installed>>

\* Another executor in the process asks the same registry for an operator.
Lookup(p) ==
    /\ life[p] = "alive"
    /\ \E op \in Lookups[p] : \E attempt \in Attempts(op) : GetOp(p, op, attempt)
    /\ UNCHANGED <<rayVars, trainerVars, version, driver, handVars, call, installed>>

\* The process dies.  Its call is sent again, or answered with an error.
Crash(p) ==
    /\ life[p] \in {"starting", "alive"}
    /\ LET again == restarts[p] < MaxRestarts[p] IN
         /\ life' = [life EXCEPT ![p] = IF again THEN "starting" ELSE "dead"]
         /\ restarts' = [restarts EXCEPT ![p] = IF again THEN @ + 1 ELSE @]
         /\ IF call # NoCall /\ call.to = p
            THEN call' = [call EXCEPT !.stage = IF again /\ Retries THEN "sent" ELSE "lost"]
            ELSE UNCHANGED call
    /\ ResetRegistry(p)
    /\ UNCHANGED <<actors, left, trainerVars, version, driver, handVars, installed>>

-----------------------------------------------------------------------------
\* The driver's calls; it makes its actors first.
CanCall == driver = "open" /\ call = NoCall /\ \A p \in Processes : life[p] # "none"

Send(p, op, arg) ==
    /\ CanCall
    /\ call' = [to |-> p, op |-> op, arg |-> arg, stage |-> "sent", result |-> NoVersion]
    /\ UNCHANGED <<registryVars, rayVars, trainerVars, version, driver, handVars, installed>>

CallRollout == Send(Rollout, "rollout", NoVersion)
CallTrain   == base # NoVersion /\ Send(Trainer, "train", base)
CallPublish == announced # NoVersion /\ Send(Trainer, "publish", announced)
CallUpdate  == given # NoManifest /\ Send(Rollout, "update", given)
CallRelease == \E m \in held : m # given /\ base # NoVersion /\ m.version < base /\ Send(Trainer, "release", m)

Running(op) == call # NoCall /\ call.op = op /\ life[call.to] = "alive"
Called(op) == Running(op) /\ call.stage = "sent"

Answer(result) == call' = [call EXCEPT !.stage = "answered", !.result = result]
Raise == call' = [call EXCEPT !.stage = "raised"]

\* execute_rollout's _prepare_kernels: logp first, and attn only together with it.
PrepareLogp ==
    /\ Called("rollout")
    /\ chosen[Rollout]["logp"] = NoBackend
    /\ \E attempt \in Attempts("logp") :
         /\ GetOp(Rollout, "logp", attempt)
         /\ IF chosen'[Rollout]["logp"] = NoBackend THEN Raise
            ELSE call' = [call EXCEPT !.stage = "prepared"]
    /\ UNCHANGED <<rayVars, trainerVars, version, driver, handVars, installed>>

PrepareAttn ==
    /\ Running("rollout")
    /\ call.stage = "prepared"
    /\ \E attempt \in Attempts("attn") :
         /\ GetOp(Rollout, "attn", attempt)
         /\ IF chosen'[Rollout]["attn"] = NoBackend THEN Raise
            ELSE Answer(IF version = NoVersion THEN 0 ELSE version)
    /\ UNCHANGED <<rayVars, trainerVars, version, driver, handVars, installed>>

\* Prepared before: the rollout just runs.
RunRollout ==
    /\ Called("rollout")
    /\ chosen[Rollout]["logp"] # NoBackend
    /\ Answer(IF version = NoVersion THEN 0 ELSE version)
    /\ UNCHANGED <<registryVars, rayVars, trainerVars, version, driver, handVars, installed>>

\* Mutant: the worker counts for itself.
NextVersionOwn(consumed) == latest + 1

\* Mutant: it counts from the rollout alone.
NextVersionConsumed(consumed) == consumed + 1

\* _next_published_weight_version
NextVersion(consumed) == Larger(consumed + 1, latest + 1)

\* train: one optimizer step and then a new version.  It may raise before the step,
\* from the step to the version, and after both (the metrics): the driver gets no
\* version of what has moved.
Train ==
    /\ Called("train")
    /\ weights.born + weights.steps < MaxTrains
    /\ LET stepped == [weights EXCEPT !.steps = @ + 1]
           counted == NextVersion(call.arg)
       IN  \/ weights' = stepped /\ latest' = counted /\ Answer(counted)
           \/ Raise /\ weights' \in {weights, stepped} /\ UNCHANGED latest
           \/ Raise /\ weights' = stepped /\ latest' = counted
    /\ UNCHANGED <<registryVars, rayVars, bridgeLatest, held, version, driver, handVars, installed>>

\* publish_weights on one rank: below ZeRO-3 the parameters, from there on a clone
\* of the gathered state, whose export may raise; then the bridge's publish.
PublishWeights ==
    /\ Called("publish")
    /\ \/ /\ call.arg > bridgeLatest
          /\ LET m == [version |-> call.arg, weights |-> weights] IN
               held' = held \cup {m} /\ Answer(m)
          /\ bridgeLatest' = call.arg
       \/ Raise /\ UNCHANGED <<held, bridgeLatest>>
    /\ UNCHANGED <<registryVars, rayVars, weights, latest, version, driver, handVars, installed>>

\* update_weights of the executor: whole or not at all, and not at all when the
\* publisher no longer has the update.
UpdateWeights ==
    /\ Called("update")
    /\ \/ /\ call.arg \in held
          /\ version' = call.arg.version
          /\ installed' = installed \cup {call.arg}
          /\ Answer(call.arg)
       \/ Raise /\ UNCHANGED <<version, installed>>
    /\ UNCHANGED <<registryVars, rayVars, trainerVars, driver, handVars>>

\* DeepSpeedTrainingWorker.release_weights
ReleaseTrainer ==
    /\ Called("release")
    /\ held' = held \ {call.arg}
    /\ Answer(call.arg)
    /\ UNCHANGED <<registryVars, rayVars, weights, latest, bridgeLatest, version, driver, handVars, installed>>

-----------------------------------------------------------------------------
\* The handle's ray.get returns what the worker returned.
Receive ==
    /\ driver = "open"
    /\ call # NoCall
    /\ call.stage = "answered"
    /\ base' = IF call.op = "rollout" THEN call.result
               ELSE IF call.op = "update" THEN NoVersion ELSE base
    /\ announced' = IF call.op = "train" THEN call.result
                    ELSE IF call.op = "publish" THEN NoVersion ELSE announced
    /\ given' = IF call.op = "publish" THEN call.result
                ELSE IF call.op = "update" THEN NoManifest ELSE given
    /\ call' = NoCall
    /\ UNCHANGED <<registryVars, rayVars, trainerVars, version, driver, installed>>

\* It raises what the worker raised, and the driver may go on; or it raises that
\* the actor died, and the driver leaves the manager's with statement.
ReceiveError ==
    /\ driver = "open"
    /\ call # NoCall
    /\ call.stage \in {"raised", "lost"} \/ life[call.to] = "dead"
    /\ call' = NoCall
    /\ driver' = IF call.stage = "raised" THEN "open" ELSE "leaving"
    /\ UNCHANGED <<registryVars, rayVars, trainerVars, version, handVars, installed>>

\* shutdown: the actors are killed from the last to the first, for good; the list
\* is cleared after the last one, so a kill that raises leaves it whole and shutdown
\* may be called again.
Leave ==
    /\ driver \in {"open", "leaving"}
    /\ call = NoCall
    /\ driver' = "closing"
    /\ left' = Len(actors)
    /\ base' = NoVersion
    /\ announced' = NoVersion
    /\ given' = NoManifest
    /\ UNCHANGED <<registryVars, actors, life, restarts, trainerVars, version, call, installed>>

\* Mutant: without no_restart an actor with restarts left comes back.
KillNextRestarting ==
    /\ driver = "closing"
    /\ left > 0
    /\ LET p == actors[left] IN
         life' = [life EXCEPT ![p] = IF life[p] # "dead" /\ restarts[p] < MaxRestarts[p]
                                     THEN "starting" ELSE "dead"]
    /\ left' = left - 1
    /\ ResetRegistry(actors[left])
    /\ UNCHANGED <<actors, restarts, trainerVars, version, driver, handVars, call, installed>>

KillNext ==
    /\ driver = "closing"
    /\ left > 0
    /\ life' = [life EXCEPT ![actors[left]] = "dead"]
    /\ left' = left - 1
    /\ ResetRegistry(actors[left])
    /\ UNCHANGED <<actors, restarts, trainerVars, version, driver, handVars, call, installed>>

KillRaises ==
    /\ driver = "closing"
    /\ left > 0
    /\ driver' = "leaving"
    /\ UNCHANGED <<registryVars, rayVars, trainerVars, version, handVars, call, installed>>

ClearActors ==
    /\ driver = "closing"
    /\ left = 0
    /\ actors' = <<>>
    /\ driver' = "closed"
    /\ UNCHANGED <<registryVars, life, restarts, left, trainerVars, version, handVars, call, installed>>

-----------------------------------------------------------------------------
Calls == CallRollout \/ CallTrain \/ CallPublish \/ CallUpdate \/ CallRelease

Handlers ==
    \/ PrepareLogp \/ PrepareAttn \/ RunRollout \/ Train \/ PublishWeights
    \/ UpdateWeights \/ ReleaseTrainer

Shutdown == Leave \/ KillNext \/ KillRaises \/ ClearActors

Next ==
    \/ \E p \in Processes : CreateWorker(p) \/ Construct(p) \/ Crash(p) \/ Lookup(p)
    \/ Calls \/ Handlers \/ Receive \/ ReceiveError \/ Shutdown

Spec == Init /\ [][Next]_vars

-----------------------------------------------------------------------------
\* One number is never served with two sets of weights, although the trainer counts
\* from zero again when it is restarted: the rollout it trains on carries the number
\* on.  The number is lost when both processes lost their counters, and when the
\* trainer is restarted twice, as its second life announces again what its first had
\* announced, and a driver that repeats the publication publishes it again.
VersionsNameWeights ==
    restarts[Trainer] = 0 \/ (restarts[Rollout] = 0 /\ restarts[Trainer] = 1) =>
        \A m, n \in installed : m.version = n.version => m.weights = n.weights

\* The version a training result announces is one the trainer's bridge still takes,
\* although the two count apart (_next_published_weight_version, the bridge's
\* publish).  A trainer started again may be asked to publish what its predecessor
\* announced: its bridge is then ahead of its own counter, and may refuse the
\* version it announces next.
AnnouncedIsPublishable ==
    Called("publish") /\ restarts[Trainer] = 0 => call.arg > bridgeLatest

\* The manager can reach every actor it made until it has killed it, whatever kill
\* raised and whoever crashed in between, and afterwards none comes back.
NoActorLost ==
    \A p \in Processes :
        life[p] \in {"starting", "alive"} =>
            \E i \in DOMAIN actors :
                /\ actors[i] = p
                /\ driver = "closing" => i <= left
===============================================================================
