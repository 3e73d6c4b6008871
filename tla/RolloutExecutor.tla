---------------------------- MODULE RolloutExecutor ----------------------------
(***************************************************************************)
(* rl_engine/executors/rollout.py on top of WeightBridge: rollout          *)
(* executors that run update_weights, release_weights and                  *)
(* release_weight_update while the trainer goes on training, publishing    *)
(* and releasing.  update_weights is split where another process or thread *)
(* can run: after the import, after the engine install, after the          *)
(* acknowledgement and after the switch of the active update.              *)
(*                                                                         *)
(* BridgeOf[e] is e's own bridge in a multi-process deployment, and        *)
(* Publisher when trainer and executor share one bridge object.  Adapter   *)
(* names the install adapter in front of a vLLM engine:                    *)
(*   "hooks"       VLLMWeightInstallAdapter: its install and release call  *)
(*                 what the deployment passed, which may raise             *)
(*   "reload"      VLLMInProcessWeightReloadAdapter                        *)
(*   "checkpoint"  VLLMCheckpointWeightReloadAdapter: the engine loads     *)
(*                 whatever a path holds, not the imported tensors         *)
(*   "none"        no adapter                                              *)
(* The engine itself is external, and TearsOnFailure says whether an       *)
(* install that raises may leave it partly loaded.  The bridge's own       *)
(* release is taken not to raise here (it only does when the system        *)
(* refuses to close a segment, which SharedMemoryTransport has).           *)
(***************************************************************************)
EXTENDS WeightBridge

CONSTANTS
    Executors,
    BridgeOf,        \* executor -> the bridge it consumes through
    Adapter,
    TearsOnFailure,
    Dangling,        \* what a read of unmapped storage yields
    NoView,          \* an empty tensor mapping
    Unloaded,        \* the engine's own weights, before any update
    Torn             \* a partly loaded engine

ASSUME BridgeOfAssumption == BridgeOf \in [Executors -> Bridges]
ASSUME AdapterAssumption ==
    /\ Adapter \in {"none", "hooks", "reload", "checkpoint"}
    /\ TearsOnFailure \in BOOLEAN

VARIABLES
    pc,        \* where update_weights is; "idle" between calls
    target,    \* the manifest update_weights was called with
    previous,  \* previous_update_id
    imported,  \* the mapping import_update returned
    shared,    \* shared_weights
    version,   \* active_weight_version
    updateId,  \* active_weight_update_id
    engine,    \* what the engine's parameters hold
    adapterId, \* the adapter's active_update_id
    outcome,   \* how the last update_weights call ended
    stranded   \* the superseded updates whose release raised (history)

execVars == <<pc, target, previous, imported, shared, version, updateId,
              engine, adapterId, outcome, stranded>>
vars == <<bridgeVars, execVars>>

-----------------------------------------------------------------------------
\* The tensors import_update returned for an update: clones of their contents,
\* or aliases of its storage.
View == [update : Updates, content : Contents]

HasAdapter == Adapter # "none"

\* Explicitly mapped storage (shared memory, CUDA VMM) is unmapped by the
\* bridge's release; storage that PyTorch refcounts is not.
Mapped(b, u) == HasRecord(b, u) \/ ~ SnapshotsOnPublish

\* What a reader of the mapping sees now.
Read(e, view) ==
    IF ~ AliasesOnImport THEN view.content
    ELSE IF Mapped(BridgeOf[e], view.update) THEN stored[view.update]
    ELSE Dangling

RolloutInit ==
    /\ Init
    /\ pc = [e \in Executors |-> "idle"]
    /\ target = [e \in Executors |-> NoUpdate]
    /\ previous = [e \in Executors |-> NoUpdate]
    /\ imported = [e \in Executors |-> NoView]
    /\ shared = [e \in Executors |-> NoView]
    /\ version = [e \in Executors |-> NoVersion]
    /\ updateId = [e \in Executors |-> NoUpdate]
    /\ engine = [e \in Executors |-> Unloaded]
    /\ adapterId = [e \in Executors |-> NoUpdate]
    /\ outcome = [e \in Executors |-> "none"]
    /\ stranded = [e \in Executors |-> {}]

Goto(e, place) == pc' = [pc EXCEPT ![e] = place]

\* update_weights returns or raises; its local variables are gone.
EndCall(e, how) ==
    /\ Goto(e, "idle")
    /\ target' = [target EXCEPT ![e] = NoUpdate]
    /\ previous' = [previous EXCEPT ![e] = NoUpdate]
    /\ imported' = [imported EXCEPT ![e] = NoView]
    /\ outcome' = [outcome EXCEPT ![e] = how]

\* update_weights is called with u's manifest and import_update is entered.
BeginUpdate(e, u) ==
    /\ pc[e] = "idle"
    /\ label[u] # NoManifest
    /\ target' = [target EXCEPT ![e] = u]
    /\ previous' = [previous EXCEPT ![e] = updateId[e]]

\* import_update returns.
ImportStep(e, u) ==
    /\ BeginUpdate(e, u)
    /\ ImportUpdate(BridgeOf[e], u)
    /\ imported' = [imported EXCEPT ![e] = [update |-> u, content |-> stored[u]]]
    /\ Goto(e, IF HasAdapter THEN "install" ELSE "ack")
    /\ UNCHANGED <<shared, version, updateId, engine, adapterId, outcome, stranded>>

\* import_update raises: a check fails, opening the storage fails, or a step
\* after a successful attach fails.
ImportRaises(e, u) ==
    /\ BeginUpdate(e, u)
    /\ \/ ~ Importable(BridgeOf[e], u) /\ UNCHANGED bridgeVars
       \/ AttachesForeign /\ ~ HasRecord(BridgeOf[e], u) /\ UNCHANGED bridgeVars
       \/ AttachThenRaise(BridgeOf[e], u)
    /\ Goto(e, "reject")
    /\ UNCHANGED <<imported, shared, version, updateId, engine, adapterId, outcome, stranded>>

\* What the adapter's install loads: the imported tensors, or what it finds at
\* weights_path.
Loadable(e) == IF Adapter = "checkpoint" THEN Contents ELSE {Read(e, imported[e])}

\* The adapter's install loads the engine and returns.
InstallStep(e) ==
    /\ pc[e] = "install"
    /\ \E c \in Loadable(e) : engine' = [engine EXCEPT ![e] = c]
    /\ adapterId' = [adapterId EXCEPT ![e] = target[e]]
    /\ Goto(e, "ack")
    /\ UNCHANGED <<bridgeVars, target, previous, imported, shared, version, updateId, outcome, stranded>>

\* The adapter's active id when its install raises: VLLMWeightInstallAdapter keeps
\* it, the reload adapters forget it once they have begun to load.
AfterFailedInstall(e) ==
    {adapterId} \cup IF Adapter = "hooks" THEN {} ELSE {[adapterId EXCEPT ![e] = NoUpdate]}

\* Mutant: an install that raises is taken for a success.
InstallErrorSwallowed(e) ==
    /\ pc[e] = "install"
    /\ engine' \in {engine} \cup
         IF TearsOnFailure THEN {[engine EXCEPT ![e] = Torn]} ELSE {}
    /\ adapterId' \in AfterFailedInstall(e)
    /\ Goto(e, "ack")
    /\ UNCHANGED <<bridgeVars, target, previous, imported, shared, version, updateId, outcome, stranded>>

\* The adapter's install raises.
InstallRaises(e) ==
    /\ pc[e] = "install"
    /\ engine' \in {engine} \cup
         IF TearsOnFailure THEN {[engine EXCEPT ![e] = Torn]} ELSE {}
    /\ adapterId' \in AfterFailedInstall(e)
    /\ Goto(e, "reject")
    /\ UNCHANGED <<bridgeVars, target, previous, imported, shared, version, updateId, outcome, stranded>>

AcknowledgeStep(e) ==
    /\ pc[e] = "ack"
    /\ \/ Acknowledge(BridgeOf[e], target[e]) /\ Goto(e, "activate")
       \/ /\ ~ Acknowledgeable(BridgeOf[e], target[e])
          /\ Goto(e, "reject")
          /\ UNCHANGED bridgeVars
    /\ UNCHANGED <<target, previous, imported, shared, version, updateId,
                   engine, adapterId, outcome, stranded>>

\* Mutant: a reject that raises is tried again.
RejectStepRetries(e) ==
    /\ pc[e] = "reject"
    /\ Reject(BridgeOf[e], target[e])
    /\ EndCall(e, "raised")
    /\ UNCHANGED <<shared, version, updateId, engine, adapterId, stranded>>

\* The except branch: reject, log if that raises too, and re-raise.
RejectStep(e) ==
    /\ pc[e] = "reject"
    /\ \/ Reject(BridgeOf[e], target[e])
       \/ ~ Rejectable(BridgeOf[e], target[e]) /\ UNCHANGED bridgeVars
    /\ EndCall(e, "raised")
    /\ UNCHANGED <<shared, version, updateId, engine, adapterId, stranded>>

\* Mutant: the superseded update is never released.
ActivateKeepsPrevious(e) ==
    /\ pc[e] = "activate"
    /\ shared' = [shared EXCEPT ![e] = imported[e]]
    /\ version' = [version EXCEPT ![e] = label[target[e]].version]
    /\ updateId' = [updateId EXCEPT ![e] = target[e]]
    /\ EndCall(e, "ok")
    /\ UNCHANGED <<bridgeVars, engine, adapterId, stranded>>

\* Mutant: active_weight_version is not moved with the tensors.
ActivateKeepsVersion(e) ==
    /\ pc[e] = "activate"
    /\ shared' = [shared EXCEPT ![e] = imported[e]]
    /\ updateId' = [updateId EXCEPT ![e] = target[e]]
    /\ IF previous[e] \in {NoUpdate, target[e]}
       THEN EndCall(e, "ok")
       ELSE Goto(e, "release") /\ UNCHANGED <<target, previous, imported, outcome>>
    /\ UNCHANGED <<bridgeVars, version, engine, adapterId, stranded>>

\* The imported mapping becomes shared_weights and its manifest the active one.
Activate(e) ==
    /\ pc[e] = "activate"
    /\ shared' = [shared EXCEPT ![e] = imported[e]]
    /\ version' = [version EXCEPT ![e] = label[target[e]].version]
    /\ updateId' = [updateId EXCEPT ![e] = target[e]]
    /\ IF previous[e] \in {NoUpdate, target[e]}
       THEN EndCall(e, "ok")
       ELSE Goto(e, "release") /\ UNCHANGED <<target, previous, imported, outcome>>
    /\ UNCHANGED <<bridgeVars, engine, adapterId, stranded>>

\* Mutant: the tensors of a released update stay in shared_weights.
ReleaseKeepsShared(e, u) ==
    /\ adapterId' = [adapterId EXCEPT ![e] = IF HasAdapter /\ @ = u THEN NoUpdate ELSE @]
    /\ Release(BridgeOf[e], u)
    /\ updateId' = [updateId EXCEPT ![e] = IF @ = u THEN NoUpdate ELSE @]
    /\ stranded' = [stranded EXCEPT ![e] = @ \ {u}]
    /\ UNCHANGED shared

\* release_weight_update: the adapter's release, the bridge's, and the
\* executor's own references when u is the active update.
ReleaseWeightUpdate(e, u) ==
    /\ adapterId' = [adapterId EXCEPT ![e] = IF HasAdapter /\ @ = u THEN NoUpdate ELSE @]
    /\ Release(BridgeOf[e], u)
    /\ shared' = [shared EXCEPT ![e] = IF updateId[e] = u THEN NoView ELSE @]
    /\ updateId' = [updateId EXCEPT ![e] = IF @ = u THEN NoUpdate ELSE @]
    /\ stranded' = [stranded EXCEPT ![e] = @ \ {u}]

\* The superseded update is released once the new one is active.
ReleasePrevious(e) ==
    /\ pc[e] = "release"
    /\ ReleaseWeightUpdate(e, previous[e])
    /\ EndCall(e, "ok")
    /\ UNCHANGED <<version, engine>>

\* The adapter's release hook raises, outside update_weights' try: the call raises
\* although the new update is active, and the bridge keeps the superseded one.
ReleasePreviousRaises(e) ==
    /\ pc[e] = "release"
    /\ Adapter = "hooks"
    /\ stranded' = [stranded EXCEPT ![e] = @ \cup {previous[e]}]
    /\ EndCall(e, "raised")
    /\ UNCHANGED <<bridgeVars, shared, version, updateId, engine, adapterId>>

\* A call from outside whose adapter hook raises changes nothing and is no action.
\* release_weights, and release_weight_update called from outside.
CallRelease(e, u) ==
    /\ pc[e] = "idle"
    /\ ReleaseWeightUpdate(e, u)
    /\ UNCHANGED <<pc, target, previous, imported, version, engine, outcome>>

\* The trainer trains, publishes, and releases whenever it likes.
Trainer ==
    /\ \/ TrainStep
       \/ \E u \in Updates, v \in Versions : Publish(u, v)
       \/ \E u \in Updates : HasRecord(Publisher, u) /\ Release(Publisher, u)
    /\ UNCHANGED execVars

\* The steps of a running update_weights call.
UpdateProgress(e) ==
    \/ InstallStep(e) \/ InstallRaises(e) \/ AcknowledgeStep(e) \/ RejectStep(e)
    \/ Activate(e) \/ ReleasePrevious(e) \/ ReleasePreviousRaises(e)

RolloutNext ==
    \/ Trainer
    \/ \E e \in Executors :
         \/ UpdateProgress(e)
         \/ \E u \in Updates : ImportStep(e, u) \/ ImportRaises(e, u) \/ CallRelease(e, u)

RolloutSpec == RolloutInit /\ [][RolloutNext]_vars

\* A call that has begun runs to its end: nothing in it waits for anyone.
FairRolloutSpec == RolloutSpec /\ \A e \in Executors : WF_vars(UpdateProgress(e))

-----------------------------------------------------------------------------
(***************************************************************************)
(* Properties.                                                             *)
(***************************************************************************)
RolloutTypeOK ==
    /\ TypeOK
    /\ pc \in [Executors -> {"idle", "install", "ack", "reject", "activate", "release"}]
    /\ target \in [Executors -> Updates \cup {NoUpdate}]
    /\ previous \in [Executors -> Updates \cup {NoUpdate}]
    /\ imported \in [Executors -> View \cup {NoView}]
    /\ shared \in [Executors -> View \cup {NoView}]
    /\ version \in [Executors -> Versions \cup {NoVersion}]
    /\ updateId \in [Executors -> Updates \cup {NoUpdate}]
    /\ engine \in [Executors -> Contents \cup {Unloaded, Torn, Dangling}]
    /\ adapterId \in [Executors -> Updates \cup {NoUpdate}]
    /\ outcome \in [Executors -> {"none", "ok", "raised"}]
    /\ stranded \in [Executors -> SUBSET Updates]

\* Whatever the trainer does meanwhile, the tensors in shared_weights are the
\* mapped, unchanged tensors of the update the executor reports, under the
\* version the executor reports.
ReportedWeightsServed ==
    \A e \in Executors : shared[e] # NoView =>
        /\ shared[e].update = updateId[e]
        /\ version[e] = label[updateId[e]].version
        /\ Read(e, shared[e]) = label[updateId[e]].sum

\* When update_weights has returned normally, the adapter is on the active update
\* and so is an engine that is given the imported tensors, also when an earlier call
\* failed half way.  What an engine loads from a checkpoint path nobody compares
\* with the manifest, so of that one nothing is said.
EngineFollowsSuccess ==
    \A e \in Executors :
        HasAdapter /\ pc[e] = "idle" /\ outcome[e] = "ok" /\ updateId[e] # NoUpdate =>
            /\ Adapter # "checkpoint" => engine[e] = label[updateId[e]].sum
            /\ adapterId[e] = updateId[e]

\* Between calls an executor and its own bridge agree on the active update.
BridgeAgrees ==
    \A e \in Executors : BridgeOf[e] # Publisher /\ pc[e] = "idle" =>
        /\ activeId[BridgeOf[e]] = updateId[e]
        /\ updateId[e] # NoUpdate => activeVersion[BridgeOf[e]] = version[e]

\* Between calls an executor's bridge holds storage for the active update only, apart
\* from updates it rejected and those whose release raised when they were superseded:
\* all others are unmapped.  A bridge shared with the trainer also holds what was
\* published and not imported yet.
OnlyActiveOrRejectedHeld ==
    \A e \in Executors, u \in Updates :
        pc[e] = "idle" /\ HasRecord(BridgeOf[e], u) =>
            \/ u = updateId[e]
            \/ BridgeOf[e] = Publisher /\ rec[BridgeOf[e]][u].state = "published"
            \/ rec[BridgeOf[e]][u].state = "rejected"
            \/ u \in stranded[e]

\* Every update_weights call ends, by returning or by raising.
UpdatesEnd == \A e \in Executors : pc[e] # "idle" ~> pc[e] = "idle"

\* The published versions with their contents, and what each executor serves.
Entry(u) == [version |-> label[u].version, content |-> label[u].sum]
Catalog == {Entry(u) : u \in {w \in Updates : label[w] # NoManifest}}
Served == [e \in Executors |->
             IF shared[e] = NoView THEN NoView
             ELSE [version |-> version[e], content |-> Read(e, shared[e])]]

Handoff == INSTANCE WeightHandoff WITH
    Nothing <- NoView,
    catalog <- Catalog,
    served  <- Served

\* The executors and their bridges implement the hand-off: an executor serves
\* the complete content of one published version at a time and switches in one
\* step, whatever is trained, published, rejected or released around it.
ImplementsHandoff == Handoff!Spec
=============================================================================
