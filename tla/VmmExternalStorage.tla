-------------------------- MODULE VmmExternalStorage --------------------------
(***************************************************************************)
(* VLLMCUDAVMMExternalStorageAdapter (rl_engine/executors/bridge.py): the  *)
(* rollout executor's install adapter that makes every vLLM worker import  *)
(* a cuda-vmm update itself and rebind its parameters to the imported      *)
(* storage, and RolloutExecutor.update_weights as the adapter's caller.    *)
(*                                                                         *)
(* Each worker has its own CUDAVMMTensorBridge per installed update; a     *)
(* mapping made through a bridge that is dropped without release stays for *)
(* the life of the worker.  A worker runs one closure at a time, but       *)
(* apply_model reaches the workers independently, so a failure may hit     *)
(* some workers and not others, and the adapter goes on or raises only     *)
(* when all have answered.                                                 *)
(***************************************************************************)
EXTENDS FiniteSets

CONSTANTS
    Workers,              \* vLLM workers
    Names,                \* parameter and tensor names
    Parameters,           \* worker -> names in its named_parameters()
    Updates,              \* published cuda-vmm updates
    Tensors,              \* update -> names in its manifest
    RequireAll,           \* require_all_parameters
    Original,             \* the storage vLLM loaded the model into
    NoUpdate

ASSUME ParametersAssumption == Parameters \in [Workers -> SUBSET Names]
ASSUME TensorsAssumption == Tensors \in [Updates -> SUBSET Names]
ASSUME NoUpdateAssumption == NoUpdate \notin Updates \cup {Original} /\ Original \notin Updates
ASSUME FlagsAssumption == RequireAll \in BOOLEAN

VARIABLES
    bound,      \* worker -> parameter -> storage it is bound to
    saved,      \* worker -> _kernel_align_cuda_vmm_original_data: name -> storage
    current,    \* worker -> _kernel_align_cuda_vmm_update_id
    stray,      \* worker -> updates mapped through a bridge it no longer holds
    call,       \* what the adapter is running on the workers
    waiting,    \* workers that have not answered
    results,    \* worker -> names it rebound, for those that answered
    failed,     \* some worker's closure raised
    adapterId,  \* the adapter's active_update_id
    reported,   \* the executor's active_weight_update_id
    clean       \* history: no install or release has failed so far

workerVars == <<bound, saved, current, stray>>
callVars == <<call, waiting, results, failed>>
vars == <<workerVars, callVars, adapterId, reported, clean>>

\* The names a worker rebinds: tensors without a parameter are skipped.
Matching(w, u) == Tensors[u] \cap Parameters[w]

NotSaved == NoUpdate

\* original_data.setdefault for the rebound names: what a name was bound to
\* before its first rebind is kept.
SavedWith(w, names) ==
    [p \in Names |-> IF p \in names /\ saved[w][p] = NotSaved THEN bound[w][p] ELSE saved[w][p]]

NothingSaved == [p \in Names |-> NotSaved]

\* Parameter bindings of w with the given names bound as in data.
Rebind(w, names, data) == [p \in Parameters[w] |-> IF p \in names THEN data[p] ELSE bound[w][p]]

SavedNames(w) == {p \in Parameters[w] : saved[w][p] # NotSaved}

\* Storage of updates that w can still read.
Mapped(w) == stray[w] \cup ({current[w]} \ {NoUpdate})

Idle == [op |-> "idle", update |-> NoUpdate, then |-> NoUpdate]

Init ==
    /\ bound = [w \in Workers |-> [p \in Parameters[w] |-> Original]]
    /\ saved = [w \in Workers |-> NothingSaved]
    /\ current = [w \in Workers |-> NoUpdate]
    /\ stray = [w \in Workers |-> {}]
    /\ call = Idle
    /\ waiting = {}
    /\ results = [w \in Workers |-> {}]
    /\ failed = FALSE
    /\ adapterId = NoUpdate
    /\ reported = NoUpdate
    /\ clean = TRUE

\* apply_model(fn): every worker is to run fn.  "then" is the update to
\* install afterwards, when a release makes room for it.
ApplyModel(op, u, then) ==
    /\ call' = [op |-> op, update |-> u, then |-> then]
    /\ waiting' = Workers
    /\ results' = [w \in Workers |-> {}]
    /\ failed' = FALSE

\* The adapter's call returns or raises.
EndCall ==
    /\ call' = Idle
    /\ waiting' = {}
    /\ results' = [w \in Workers |-> {}]
    /\ failed' = FALSE

-----------------------------------------------------------------------------
(***************************************************************************)
(* On a worker.                                                            *)
(***************************************************************************)
\* _install_vllm_cuda_vmm_aliases_on_worker: import through a new bridge,
\* rebind the matching parameters, acknowledge, remember bridge and originals.
\* The attributes of an update that is still current are overwritten.
WorkerInstalls(w) ==
    LET u == call.update
        names == Matching(w, u)
    IN  /\ call.op = "install"
        /\ w \in waiting
        /\ bound' = [bound EXCEPT ![w] = Rebind(w, names, [p \in names |-> u])]
        /\ saved' = [saved EXCEPT ![w] = SavedWith(w, names)]
        /\ current' = [current EXCEPT ![w] = u]
        /\ stray' = [stray EXCEPT ![w] = Mapped(w)]
        /\ results' = [results EXCEPT ![w] = names]
        /\ waiting' = waiting \ {w}
        /\ UNCHANGED <<call, failed, adapterId, reported, clean>>

\* Mutant: the names rebound before the failure are not rolled back.
WorkerInstallRaisesBound(w) ==
    /\ call.op = "install"
    /\ w \in waiting
    /\ \E rebound \in SUBSET Matching(w, call.update) :
         bound' = [bound EXCEPT ![w] = Rebind(w, rebound, [p \in rebound |-> call.update])]
    /\ saved' = [saved EXCEPT ![w] = NothingSaved]
    /\ current' = [current EXCEPT ![w] = NoUpdate]
    /\ stray' = [stray EXCEPT ![w] = Mapped(w)]
    /\ failed' = TRUE
    /\ waiting' = waiting \ {w}
    /\ UNCHANGED <<call, results, adapterId, reported>>
    /\ clean' = FALSE

\* The same, raising.  In the import nothing has been rebound, but a failure
\* after the attach leaves the new mapping behind.  Later (a shape or dtype
\* differs, the acknowledgement fails) the names rebound so far go back to the
\* data saved for them, the attributes are deleted whatever update they
\* belonged to, and the new bridge releases its own mapping.
WorkerInstallRaises(w) ==
    /\ call.op = "install"
    /\ w \in waiting
    /\ \/ /\ stray' \in {stray, [stray EXCEPT ![w] = @ \cup {call.update}]}
          /\ UNCHANGED <<bound, saved, current>>
       \/ \E rebound \in SUBSET Matching(w, call.update) :
            /\ bound' = [bound EXCEPT ![w] = Rebind(w, rebound, SavedWith(w, rebound))]
            /\ saved' = [saved EXCEPT ![w] = NothingSaved]
            /\ current' = [current EXCEPT ![w] = NoUpdate]
            /\ stray' = [stray EXCEPT ![w] = Mapped(w)]
    /\ failed' = TRUE
    /\ waiting' = waiting \ {w}
    /\ UNCHANGED <<call, results, adapterId, reported>>
    /\ clean' = FALSE

\* Mutant: the parameters are not given their own data back.
WorkerReleasesBound(w) ==
    /\ call.op = "release"
    /\ w \in waiting
    /\ IF current[w] = call.update
       THEN /\ saved' = [saved EXCEPT ![w] = NothingSaved]
            /\ current' = [current EXCEPT ![w] = NoUpdate]
       ELSE UNCHANGED <<saved, current>>
    /\ waiting' = waiting \ {w}
    /\ UNCHANGED <<bound, stray, call, results, failed, adapterId, reported, clean>>

\* Mutant: a worker releases whatever update is current on it.
WorkerReleasesAny(w) ==
    /\ call.op = "release"
    /\ w \in waiting
    /\ bound' = [bound EXCEPT ![w] = Rebind(w, SavedNames(w), saved[w])]
    /\ saved' = [saved EXCEPT ![w] = NothingSaved]
    /\ current' = [current EXCEPT ![w] = NoUpdate]
    /\ waiting' = waiting \ {w}
    /\ UNCHANGED <<stray, call, results, failed, adapterId, reported, clean>>

\* release_worker: only the worker's current update is released; every saved
\* name goes back to its saved data before the mapping goes.
WorkerReleases(w) ==
    /\ call.op = "release"
    /\ w \in waiting
    /\ IF current[w] = call.update
       THEN /\ bound' = [bound EXCEPT ![w] = Rebind(w, SavedNames(w), saved[w])]
            /\ saved' = [saved EXCEPT ![w] = NothingSaved]
            /\ current' = [current EXCEPT ![w] = NoUpdate]
       ELSE UNCHANGED <<bound, saved, current>>
    /\ waiting' = waiting \ {w}
    /\ UNCHANGED <<stray, call, results, failed, adapterId, reported, clean>>

\* bridge.release raises in the worker after the parameters are back; the
\* adapter logs it.  The attributes stay.
WorkerReleaseRaises(w) ==
    /\ call.op = "release"
    /\ w \in waiting
    /\ current[w] = call.update
    /\ bound' = [bound EXCEPT ![w] = Rebind(w, SavedNames(w), saved[w])]
    /\ waiting' = waiting \ {w}
    /\ UNCHANGED <<saved, current, stray, call, results, failed, adapterId, reported>>
    /\ clean' = FALSE

-----------------------------------------------------------------------------
(***************************************************************************)
(* The adapter and the executor that calls it.                             *)
(***************************************************************************)
\* update_weights -> install(u): the previous update is released first, then
\* the workers install u.
StartInstall(u) ==
    /\ call = Idle
    /\ IF adapterId \notin {NoUpdate, u}
       THEN ApplyModel("release", adapterId, u)
       ELSE ApplyModel("install", u, NoUpdate)
    /\ UNCHANGED <<workerVars, adapterId, reported, clean>>

\* All workers have released the previous update: on to the install.
PreviousReleased ==
    /\ call.op = "release"
    /\ call.then # NoUpdate
    /\ waiting = {}
    /\ adapterId' = IF adapterId = call.update THEN NoUpdate ELSE adapterId
    /\ ApplyModel("install", call.then, NoUpdate)
    /\ UNCHANGED <<workerVars, reported, clean>>

Missing(u) == Tensors[u] \ UNION {results[w] : w \in Workers}

\* install returns and update_weights activates u.  The executor then releases
\* the update it reported before, which no worker has as its current one.
InstallReturns ==
    /\ call.op = "install"
    /\ waiting = {}
    /\ ~ failed
    /\ ~ (RequireAll /\ Missing(call.update) # {})
    /\ adapterId' = call.update
    /\ IF reported \notin {NoUpdate, call.update}
       THEN ApplyModel("release", reported, NoUpdate)
       ELSE EndCall
    /\ reported' = call.update
    /\ UNCHANGED <<workerVars, clean>>

\* apply_model raises because a worker did: install raises, update_weights
\* rejects u and keeps reporting the previous update.
InstallRaises ==
    /\ call.op = "install"
    /\ waiting = {}
    /\ failed
    /\ EndCall
    /\ UNCHANGED <<workerVars, adapterId, reported, clean>>

\* require_all_parameters finds a tensor that no worker bound: u is released
\* and install raises.
InstallIncomplete ==
    /\ call.op = "install"
    /\ waiting = {}
    /\ ~ failed
    /\ RequireAll
    /\ Missing(call.update) # {}
    /\ ApplyModel("release", call.update, NoUpdate)
    /\ UNCHANGED <<workerVars, adapterId, reported>>
    /\ clean' = FALSE

\* release_weights and release_weight_update on the executor.
StartRelease(u) ==
    /\ call = Idle
    /\ ApplyModel("release", u, NoUpdate)
    /\ reported' = IF reported = u THEN NoUpdate ELSE reported
    /\ UNCHANGED <<workerVars, adapterId, clean>>

ReleaseReturns ==
    /\ call.op = "release"
    /\ call.then = NoUpdate
    /\ waiting = {}
    /\ adapterId' = IF adapterId = call.update THEN NoUpdate ELSE adapterId
    /\ EndCall
    /\ UNCHANGED <<workerVars, reported, clean>>

\* The steps of a call that has begun.
CallProgress ==
    \/ \E w \in Workers : WorkerInstalls(w) \/ WorkerInstallRaises(w)
    \/ \E w \in Workers : WorkerReleases(w) \/ WorkerReleaseRaises(w)
    \/ PreviousReleased \/ InstallReturns \/ InstallRaises \/ InstallIncomplete
    \/ ReleaseReturns

Next ==
    \/ CallProgress
    \/ \E u \in Updates : StartInstall(u) \/ StartRelease(u)

Spec == Init /\ [][Next]_vars

-----------------------------------------------------------------------------
(***************************************************************************)
(* Properties.                                                             *)
(***************************************************************************)
TypeOK ==
    /\ DOMAIN bound = Workers
    /\ \A w \in Workers : bound[w] \in [Parameters[w] -> Updates \cup {Original}]
    /\ saved \in [Workers -> [Names -> Updates \cup {Original, NotSaved}]]
    /\ current \in [Workers -> Updates \cup {NoUpdate}]
    /\ stray \in [Workers -> SUBSET Updates]
    /\ call \in [op : {"idle", "install", "release"},
                 update : Updates \cup {NoUpdate}, then : Updates \cup {NoUpdate}]
    /\ waiting \in SUBSET Workers
    /\ results \in [Workers -> SUBSET Names]
    /\ failed \in BOOLEAN
    /\ adapterId \in Updates \cup {NoUpdate}
    /\ reported \in Updates \cup {NoUpdate}
    /\ clean \in BOOLEAN

\* No parameter is ever left bound to storage that its worker has unmapped, in
\* any interleaving of the workers' installs, failures and releases.
BoundIsMapped ==
    \A w \in Workers : \A p \in Parameters[w] :
        bound[w][p] \in Mapped(w) \cup {Original}

\* While a worker has lost no bridge, vLLM's own storage of every parameter is
\* still there: bound, or saved for the release of the installed update.  A worker
\* that never had an update, released it or rolled it back runs on it alone.
OwnStorageKept ==
    \A w \in Workers : stray[w] = {} =>
        \A p \in Parameters[w] :
            \/ bound[w][p] = Original
            \/ current[w] # NoUpdate /\ saved[w][p] = Original

\* Between calls every worker has bound the tensors of the update that the
\* executor reports.
ReportedIsBound ==
    call = Idle /\ reported # NoUpdate =>
        \A w \in Workers : \A p \in Matching(w, reported) : bound[w][p] = reported

\* Between calls no worker mixes the reported update with other storage.
ReportedIsWhole ==
    call = Idle /\ reported # NoUpdate =>
        \A w \in Workers : \A p, q \in Parameters[w] : bound[w][p] = bound[w][q]

\* Executor, adapter and all workers name the same update between calls, so a
\* later release reaches every worker that has it bound.
AllAgree ==
    call = Idle =>
        adapterId = reported /\ \A w \in Workers : current[w] = reported

\* As long as nothing has failed, also when the active manifest is installed
\* again or released in between, all agree on the reported update, and every
\* worker has it bound and mixes it with nothing, although manifests may name
\* tensors that it lacks.
CleanReportedServed == clean => ReportedIsBound /\ ReportedIsWhole /\ AllAgree
=============================================================================
