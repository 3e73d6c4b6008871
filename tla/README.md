# RL-Kernel: a formal model

RL-Kernel trains a policy and serves rollouts from it. Between the two it moves
weights: a trainer publishes its `state_dict` as a versioned *update*, rollout
processes import it, install it in their engine, acknowledge or reject it and
release the one before. That path (`rl_engine/executors/bridge.py`,
`rollout.py`) is where processes, threads, shared storage and failures meet, and
it is what the modules here model first. Around it are the training loop of Ray
actors that uses it, the registry that decides which operators a process runs,
the tensor-parallel `linear_logp` operator whose ranks must meet in their
collectives, and sequential algorithms on payloads and configuration. What is
left is numerics (other operators, Triton and CUDA kernels) and glue around vLLM.

## Inventory

Paths are relative to `src/`.

| component | state | operations | correct when |
|---|---|---|---|
| weight bridge protocol (`rl_engine/executors/bridge.py`) | `_updates` (records by update id), `active_update_id`, `active_weight_version`, `_latest_published_weight_version` | `publish`, `import_update`, `acknowledge`, `reject`, `release`, `update_status` | the active update is an acknowledged record; versions identify updates; a rejected update never becomes active; what becomes active matches its checksums |
| shared-memory transport (same file) | the POSIX segments a process has open, their names | snapshot, attach, release, the resource tracker of older Pythons | an update is mapped whole or not at all; no segment name outlives a release or a failed publish; consumers do not unlink the publisher's segments |
| CUDA VMM transport: fd broker | a daemon thread, a Unix socket, `stop_event`, the exported descriptor | start, accept loop, `release`, attach | consumers map the published allocation and no other; nothing hangs; nothing is left behind |
| CUDA VMM transport: packing and driver calls | offsets in one allocation | `_pack_*`, `create_allocation`, ctypes calls | tensors do not overlap and end inside the mapping |
| CUDA IPC transport | exported handles of the live parameters | publish, attach | a published update keeps its content |
| vLLM install adapters (copying) | `active_update_id`, the engine's weights | `install` | the engine follows every successful install; the checkpoint reload adapter loads a path and only its id does |
| vLLM CUDA VMM external-storage adapter | per worker: parameter bindings, saved originals, bridge, update id; the adapter's `active_update_id` | `install`, `release`, the closures run on each worker | no parameter is bound to unmapped storage; workers, adapter and executor agree on the update |
| vLLM IPC request builder | a keep-alive list per update id | build, release | handles live as long as a request uses them |
| rollout executor (`rl_engine/executors/rollout.py`) | `shared_weights`, `active_weight_update_id`, `active_weight_version` | `update_weights`, `release_weights`, `release_weight_update` | it serves exactly the version it reports; the old one is served until the new one is ready |
| DeepSpeed trainer (`deepspeed_trainer.py`) | model, optimizer, `_latest_published_weight_version` | `train`, `publish_weights`, `release_weights` | versions grow; only complete states are published |
| Ray actor manager (`ray_actor_manager.py`) | the list of actors, the Ray runtime | create, `health_check`, `shutdown` | every actor created is killed once |
| training contract (`training_contract.py`) | none; payloads are copied | score, extract groups, build a batch | rewards and reference log-probabilities stay with their candidates |
| stateless executor (`stateless_executor.py`) | the wrapped model's configuration, changed around a forward pass | `score` | the configuration comes back as it was |
| paged KV baseline (`paged_kv_baseline.py`) | block tables; the model's configuration | `score` | every token has a slot of its own; the cache is on in this pass and off in the other scorer's |
| kernel registry (`rl_engine/kernels/registry.py`) | instance cache, failed backends | `get_op` | a process runs an operator with the best backend that works, and with the same one ever after |
| linear_logp (`rl_engine/kernels/ops/{pytorch,triton,cuda}/loss/linear_logp.py`) | a cache of vocabulary partitions per rank; loops over chunks and tiles | `apply`, backward | ranks that agree join the same collectives and raise together; every logit counts once |
| shared-prefix sampler (`vllm_sampler.py`) | none | expand prompts, group outputs | outputs stay with their prompts |
| platforms, environment, other operators, kernels, alignment wrappers, test harness, tests, benchmarks, docs | constants, tensors | | numerics, not modelled |

How they interact. The trainer and each rollout process own a bridge object; the
manifest that `publish` returns travels from one to the other by a route outside
the repository (a Ray call in the docs), so it may be used late, twice, or never.
The bridges share storage: copies (local-clone), segments (shared-memory), one
device allocation (cuda-vmm) or the trainer's own parameters (cuda-ipc).
`RolloutExecutor.update_weights` calls its bridge and its adapter in turn, and
with vLLM the adapter runs closures on every worker. Nothing locks: the calls
of one object are made by one thread, calls of different processes interleave
freely, and in the in-process deployment trainer and executor use one bridge
object.

The trainer and a rollout worker are Ray actors: a driver calls one at a time, an
actor that dies is constructed again or not, and its call is repeated or fails.
In each process the operators come from a registry that all objects there share.
On the ranks of a tensor-parallel group `linear_logp` validates, reduces and
gathers with collectives that block until all ranks are in them.

What is hard: interleavings of publish, train and release with a running
`update_weights`; an install that fails half way; a failure on one of several
workers; the broker thread that outlives `release`'s `join(timeout=1)`; file
descriptor numbers and segment names that are reused or disappear;
re-installing and rolling back; a restarted trainer that counts versions from zero
again; ranks that decide differently whether to join a collective. `PROJECT.json` lists these under `hazards`, each
at its line, with the properties that watch it.

## Modules

| module | what it models |
|---|---|
| `WeightBridge` | the five operations of the bridge classes on their records, with the publisher's version counter and the checksum comparison; three Boolean constants pick the transport |
| `RolloutExecutor` | `EXTENDS WeightBridge`: executors that run `update_weights`, split at every point where another process can act, `release_weights`, `release_weight_update`, and a trainer that trains, publishes and releases at will; the copying engine adapters |
| `RolloutExecutorProofs` | theorems about `WeightBridge` and, on top of them, about `RolloutExecutor`: it takes only `WeightBridge` steps, serves what it reports, keeps its engine on it, holds nothing else, and implements `WeightHandoff` |
| `WeightHandoff` | the abstract promise: complete versions are published in order, an executor serves nothing or one of them and switches in one step. `RolloutExecutor` is shown to implement it |
| `SharedMemoryTransport` | below `WeightBridge`: the segments of one update, one tensor at a time |
| `SharedMemoryTransportProofs` | theorems about it |
| `VmmPacking` | below `WeightBridge`: where each tensor goes in a CUDA VMM allocation, and its size |
| `VmmFdBroker` | below `WeightBridge`: the broker thread, `release` and attaching consumers |
| `VmmTransport` | composes the two: a publication from packing to the last attach |
| `VmmTransportProofs` | theorems about packing and broker, and that `VmmTransport` implements both modules |
| `VmmExternalStorage` | the external-storage adapter and its closures on vLLM's workers |
| `VmmExternalStorageProofs` | theorems about it |
| `TrainingContract` | the way of a rollout from the sampler over scorers to a training batch: which candidate's tokens, reward and reference log-probabilities end in which row |
| `TrainingContractProofs` | theorems about it: the separate walks over a payload meet the same candidates in the same order |
| `StatelessExecutor` | one scoring call: the model's configuration saved, changed, changed again for the fallback, and restored, whatever raises |
| `PagedKvBaseline` | `EXTENDS StatelessExecutor`: the paged scorer on the same model, with its block table |
| `StatelessExecutorProofs` | theorems about both scorers |
| `TensorParallelLinearLogp` | the linear_logp operator on the ranks of a group: every dispatch path, validation, collectives, chunks and tiles |
| `TensorParallelLinearLogpProofs` | theorems about it: the ranks keep in step, and what they compute is the reference's |
| `KernelRegistry` | which backend each process of a program runs an operator with |
| `TrainingLoop` | `EXTENDS KernelRegistry`: driver, Ray actors, DeepSpeed trainer and rollout worker |
| `TrainingLoopProofs` | theorems about both |
| `MC*` | instances for TLC; modules without one are instantiated by their `.cfg` alone |

### How state and actions correspond to the code

`WeightBridge`. `rec[b][u]` is `self._updates[u].state` of bridge `b`, with
"absent" for an id the dict lacks (`update_status` answers "released" for it).
`label[u]` is the manifest (version and checksum), `stored[u]` what the storage
behind it holds now, `live` what the trainer's parameters hold; the checksum of a
content is the content (SHA-256 taken as injective). A call that raises before it
changes anything is no action: its condition is the negated guard.
`AttachThenRaise` is the exception: an import that stores the attached record and
then fails its validation. With `SnapshotsOnPublish = FALSE` (cuda-ipc)
`TrainStep` changes published contents too.

`RolloutExecutor`. `pc[e]` is the line `update_weights` has reached: import,
install, acknowledge, activate, release of the previous update, or the `except`
branch. `shared`, `version` and `updateId` are `shared_weights`,
`active_weight_version` and `active_weight_update_id`. What a read of
`shared_weights` yields is computed from the storage (`Read`), so an alias of
storage that was unmapped or overwritten shows. `Adapter` names the copying adapter:
none, `VLLMWeightInstallAdapter` with its two hooks, the in-process reload or the
checkpoint reload. The last one loads whatever `weights_path` holds, so `Loadable` is any
content and nothing is promised of its engine. A release hook may raise outside
the `try` of `update_weights` (`ReleasePreviousRaises`); the call then raises
although the new update is active, and the superseded one stays in the bridge
(history `stranded`). The bridge's own release is taken not to raise here.

`SharedMemoryTransport`. `linked` is the set of names in `/dev/shm`; `pubHeld`
and `conHeld` are the segments that the code still has in hand to close. Loops over
tensors are one action per round, in any order of tensors, with a raise possible
wherever the code can raise: in a copy or an attach, in the descriptors computed
after the snapshot, in a `close()`. The segments that the last two leave behind are
`abandoned`, a history variable.

`VmmFdBroker`. `fd` says what the exported descriptor *number* refers to: the
allocation, nothing, or something else that got the number. `release` goes
through `stop_event.set`, the poke, `join`, `unlink` and `close` one at a time.

`VmmExternalStorage`. `bound`, `saved` and `current` are the parameters' `.data`
and the attributes the closures put on the model; `stray` collects mappings made
through a bridge object that was dropped. `apply_model` is a broadcast: workers
answer in any order. `clean` is a history variable, true until an install or
release fails.

`TrainingContract`. A payload holds the two groupings of candidates the code
knows ("normalized_outputs", "outputs"); a candidate is which prompt and copy it
is, its length, and whose reward and reference row it carries, on itself and nested
in its outputs, so that a reward that reaches the wrong row shows. `Extract` is the three
`extract_*` functions, `Attach` the two attach walks with their running index,
`BatchRow` what `_batch_from_candidate_groups` puts into a row. `Receive` stands for
payloads made elsewhere: one or both groupings, which need not agree, with groups and
candidates that lack anything. `min_completion_len` may be greater than
`completion_len`. Candidates whose class has no `__dict__` are left out.

`StatelessExecutor`. `conf` is what is on the model's configuration objects, by
their position in `_model_config_targets`; a *place* is an attribute of one.
`saved` and `inner` are the snapshots of the two nested contexts. The model may
refuse any one assignment, so configuring can stop half way, and every step of
the call that calls into the model or the adapter may raise. `before` and `torn`
are history: what the call found, and whether configuring raised in the outer
context, which the code does outside its `try`.

The paged scorer shares this state: `PagedKvBaseline` adds `reserve_paged_kv_cache`
row by row (`table`, `cursor`; `BlocksOfFirst` counts the blocks of the first rows)
and its own pass with the cache on; calls of the
two scorers alternate on one model.

`VmmPacking`. `entries` are the byte ranges given out, `mapped` the size of the
allocation. A tensor's range is what the publisher copies to and what every
consumer builds its tensor on. `VmmTransport` lets the broker start only when
`mapped` is set, as `publish` does.

`TensorParallelLinearLogp`. Every rank runs the same program of calls; `next` is
the call it is in and `pc` the line. A rank waits in a collective until all are in
one, so a collective is one joint step (`Joint`). Numbers are abstracted to
provenance: `seen` and `gradH`/`gradW` count how often a logit went into a sum, `pick`
says which row a target logit was read from, `hot` which cells got the one-hot term. So
a chunk that overlaps its neighbour, a tile that overwrites instead of adding, or a
partial sum that is not reduced shows as a count that is not one.

Ranks need not agree. A call has per rank a range, a global size, the `handle` of its
group (`id(tp_group)` with the device) and whether the rank's own argument checks
refuse it (`refused`). `cache` holds the keys of `_TP_VOCAB_PARTITION_CACHE`, of which
the handle is a part. A rank's `build` is its operator (native, Triton, sm90), compiled
kernels, validation flag and how it gathers: with `all_gather_into_tensor`, or with
`all_gather` after the former raised. So one rank may find in its cache what another
has to validate, and may leave a call that another goes on with. Collectives that do not match are taken to wait for ever.

`KernelRegistry`. `instance` and `broken` are `_instance_cache` and
`_failed_backends`, by backend name as in the code; `chosen` is what the objects
that asked keep. Whether a backend loads, fails or raises is decided anew at every
attempt. Modules that do not exist in the tree (`NotInTree`) always fail. Types
with a single candidate of their own are left out of the table.

`TrainingLoop`. `latest` is the trainer's `_latest_published_weight_version`,
`bridgeLatest` the same of its bridge. `weights` names a content by the trainer's
incarnation and its optimizer steps. A remote call is sent, answered, received;
`Crash` may come between any two, and with `Retries` the call is sent again, also
when only the answer was lost. The driver is the code that uses the handles: it
calls one actor at a time, trains on rollouts of the version installed last, and
releases what is older than that. `train` may raise before the optimizer step, after it
and after the counter has moved. The bridge between the two actors is reduced to
what `WeightBridge` and `WeightHandoff` establish of it.

## What the runs check

| run | instance | shows |
|---|---|---|
| `weight_bridge` | two bridges, two updates, three versions, two contents, a snapshotting and aliasing transport with writers through aliases | records, active update and versions are consistent; what is activated matches its checksum; rejection is final |
| `rollout_shm` | two rollout processes without an adapter, two updates, two contents | each serves exactly the version it reports, whatever the trainer does; its bridge agrees and holds nothing but the active update and rejected ones; the whole implements `WeightHandoff` |
| `rollout_shared_bridge` | trainer and executor on one local-clone bridge, `VLLMWeightInstallAdapter` with an engine that a failed install may leave torn and a release hook that may raise | even while the trainer releases the update being installed, engine and adapter are on the active update after every successful call; superseded updates stay only if their release raised; every call ends |
| `training_contract` | two prompts with up to two candidates, sampled or hand-made in one or both groupings, which agree on nothing; lengths 0, 1 and 3, `completion_len` 2, `min_completion_len` 3 | groups stay prompts, rewards and log-probabilities stay with their candidates, a scorer's results are the ones trained on, and log-probabilities cover `completion_len` tokens |
| `scoring` | stateless and paged calls on one model with up to two configuration objects of three kinds, all backends and modes, one assignment that may be refused; batches of two rows with 0, 2 or 3 tokens in blocks of 2 | the configuration comes back, both stateless passes run without cache under the reported backend, every token of a paged call has a slot of its own, every call ends |
| `shared_memory` | two tensors with a segment and an empty one, two consumers, one of them on Python before 3.13 | segments are attached whole and never taken away by another consumer; names stay behind only where a `close()` or the descriptors raise; loops end |
| `vmm_storage` | two workers with different parameters, two full manifests and one that cannot be bound, either worker failing anywhere | no parameter is bound to unmapped storage, vLLM's own storage is never lost; while nothing fails, executor, adapter and workers agree on one whole update through switches to and fro |
| `vmm_transport` | up to three tensors of 0, 100, 256 or 300 bytes, then two consumers that may retry | packed tensors lie apart, aligned and inside the mapping; no wrong descriptor is received unless the join timed out, nobody hangs, nothing is left behind |
| `tp_linear_logp` | two ranks, a vocabulary of up to four rows in valid and refused layouts, layouts that part the ranks, reused group handles, calls refused on one rank or on both, two tokens; every operator and kernel set with and without target validation, equal on both ranks or not, with and without each gradient; programs of up to three calls | ranks that agree meet in the same collectives, compute the reference's log-probabilities and gradients, and finish; ranks that do not agree but refuse calls alike never share a collective between two calls, and raise together |
| `training_loop` | an AMD host, each actor restarted at most once, repeated calls, two optimizer steps or restarts of the trainer | a version names one set of weights, announced versions can be published, no actor escapes shutdown, no process changes the backend of an operator |
| `ipc_served` (violation) | cuda-ipc | the served weights change with the next optimizer step |
| `vmm_failed_install` (violation) | two workers that may fail, asked only for updates other than the active one | after a failed switch the workers do not run on the update the executor goes on reporting |

### Bounds, and why they are enough

* Two updates. Every interaction is between the update being installed and the
  previous one; `update_weights` may install either again, so switches and
  roll-backs repeat without bound although new publications do not.
* Two contents: the properties compare contents for equality only.
* Versions up to 2 where the counter matters: one gap, one successor, and a
  version that is refused.
* Two executors, consumers or workers: the second is the one that interferes;
  executors and consumers have no other contact than through the storage.
* Three tensors in `SharedMemoryTransport`: a failure before, between and after
  segments, and an empty tensor, which takes no part in them.
* `TrainingContract`: two prompts and two copies give a neighbour in the group
  and one outside; a completion may be empty, shorter and longer than a training
  row. Payloads of more than three different candidates are followed up only where
  completions are empty or short and nothing is nested (`Explored`); two of them
  in each grouping are enough for parts of equal shape taken from different
  groupings. `min_completion_len` is beyond `completion_len`, where more tokens are
  active than the log-probabilities are asked to cover; the sharper clause for the
  other case is the theorem's. What is conditioned: `RowsKeepTheirOwn` speaks of payloads
  that have rewards and log-probabilities only where the tokens are
  (`PartsHaveTokens`), since a candidate without tokens can stand in for a neighbour
  unnoticed; what a scorer attaches reaches the batch when candidates without
  tokens bring nothing of their own (`TokenlessBare`) and no nested values, which the
  code prefers by design, shadow it.
* `StatelessExecutor`: two objects, so that a refused assignment leaves one
  written and one not; one refused value is enough, because the first one raises.
* Packing: a size that ends before, at and behind a unit of alignment, and an empty
  tensor; three of them, so that one lies between two. The theorem has no bound.
* Paged KV: rows that are empty, end at a block's end or one token behind it; a
  configured cache that is too small for some batches and larger than others need.
* `TensorParallelLinearLogp`: with two ranks, one may decide differently from the
  other; shards of one and three rows make chunks and tiles that end inside a shard;
  sequences of two layouts make every pair of cached, new and refused. Ranks that
  do not agree are in the run: partitions in which one rank keeps its range and
  another moves (each contiguous and complete, as
  `docs/operators/linear-logp.md:93` asks), a new group under an old handle on one rank
  or on both, calls refused on one rank, different builds. What the properties
  promise depends on it: one collective for all, results and an end only under
  `RanksAgree` (`SameBuild`, `RefusedAlike`, `MovesTogether`), none of which the code
  checks; without it ranks do wait for ever. Under `RefusedAlike` alone: no
  collective shared between two calls, and raising together.
* `VmmExternalStorage`: two manifests that name all parameters, for switches and
  returns, and one that no install can complete; two workers of which one lacks a
  parameter, as pipeline stages do.
* `TrainingLoop`: a restart of either actor and of both; two trainings give two versions with one between them lost. Only
  one device is run, an AMD host with two attention backends, because the
  theorem about the registry covers every device.
* Symmetry is used only where no liveness is checked: update ids are random and
  never ordered; in `RolloutShm.cfg` each executor is exchanged together with
  its bridge, the two rollout processes being alike.
* The bounds in guards are `MaxTrains` (`TrainingLoop`), `MaxTensors`
  (`VmmPacking`), `MaxRows` (`PagedKvBaseline`) and Ray's own `MaxRestarts`; all
  other bounds are the finite sets above, and `Explored`. `SharedMemoryTransport` and
  the publication of a finite set of updates really stop, hence
  `CHECK_DEADLOCK FALSE` in `SharedMemory.cfg`; so does `TrainingContract`, where
  a rollout becomes one batch, `TensorParallelLinearLogp`, where a program ends, and
  `TrainingLoop`, where the driver shuts down or waits for Ray.

### Fairness

Weak fairness is put only on steps of a call or thread that has begun: the next
step of a running `update_weights` (`FairRolloutSpec`), of a running `score`, of a loop over segments, of the broker thread, of a
running `release` and of an attach that has received its descriptor. All of them
run without waiting for another party, or wait with a timeout that the model
keeps (`AcceptTimesOut`, `Join`). In `TensorParallelLinearLogp` each rank goes on by
itself and a collective completes when all ranks are in it, and only then: nothing
rescues ranks that wait in different ones. In
`VmmTransport` the broker's fairness begins when it is started (`Started`).
`TrainingLoop` states none and no liveness: an actor may be dead for good. Nothing forces anyone to train, publish, call
`update_weights`, retry, connect, release or exit, and no step that fails is
assumed to succeed eventually.

### Findings

* **cuda-ipc does not snapshot.** `publish` exports
  `tensor.detach().contiguous()`, which for a contiguous parameter is the
  parameter's own storage; the class docstring says it "creates a complete CUDA
  snapshot" (`bridge.py:2375`). Run `ipc_served`.
* **A failed external-storage install does not keep the previous version.** The
  adapter releases the previous update on all workers before it installs the new
  one, and a failure does not bring it back, while the executor goes on reporting
  it. The run asks only for updates other than the active one. (A failed re-install
  of the active update, which it leaves out, leaves its first parameters on
  the original storage and the others on the update.) The guide says the previous
  active version is kept (`docs/usage/weight-sync-bridge.md:204`). Run
  `vmm_failed_install`.

Seen while modelling and kept in the model, without a run of their own: a superseded
update whose release hook raises stays in the bridge (`stranded`); the checkpoint
reload adapter ignores the tensors it is given; a publish whose descriptors raise
leaves all its segments linked (`bridge.py:1741`); with `min_completion_len` beyond
`completion_len` the log-probabilities of active tokens are padded with zeros
(`training_contract.py:924`); a reward on a candidate without tokens can reach another's
row; a call that one rank alone refuses, or a valid partition in which one rank
keeps its range while another moves, leaves ranks waiting in a collective; and when every
rank's cache answers from a different earlier partition, nobody notices that the
ranges together overlap or leave a hole (`linear_logp.py:165`). A rejected update
stays mapped in the rollout process until someone releases it
(`OnlyActiveOrRejectedHeld` is what holds); when `acknowledge` raises after the
install, the engine keeps the rejected weights; re-installing the active manifest
loses the worker's first bridge and its mapping (`stray`); with the default
`require_all_parameters=False` a worker whose parameters the manifest does not all
name runs on a mix, which the run excludes; `execute_rollout` that raises between
`logp` and `attn` leaves the executor with `logp` alone and never asks for `attn`
again (`rollout.py:130`); a trainer that was restarted may announce a version below
what its new bridge has taken (`AnnouncedIsPublishable` speaks of first lives), and
when both processes have lost their counters a number is used twice. The same happens
when the trainer is restarted twice: its second life announces what its first has
announced, a driver that repeats the publication publishes that, and the life after
it does so again with other weights. `VersionsNameWeights` excludes both; the run
has at most one restart of each actor, so the second showed only in the proof.

## Proofs

The first part of `RolloutExecutorProofs` proves, for every set of bridges, updates, versions and
contents and every transport, that `TypeOK`, `ActiveIsAcknowledged`,
`ImportsMatchState`, `VersionsIdentifyUpdates`, `RejectionIsFinal` and
`ActivationIsSealed` hold of `WeightBridge!Spec`. The assumptions are the named
`ASSUME`s of `WeightBridge`: the publisher is a bridge, versions are integers,
the "none" values are not updates or manifests, the transport flags are Booleans.
No set need be finite.

The invariant. `ActiveIsAcknowledged` says the active update has an acknowledged
record whose manifest carries the reported version. It is not inductive alone:
`acknowledge` copies the version from the manifest, so it needs that every record
belongs to a published update (`RecordsAreLabelled`), and that in turn holds
because a published id is fresh and manifests never change. A new manifest's
version is new because `latest` bounds all earlier ones, which is part of
`VersionsIdentifyUpdates`. `ImportsMatchState` (an imported or acknowledged
record has been imported) joins them in `BridgeInv`. Each action has a lemma that
it keeps `BridgeInv`; `SetRecordEffect` and `RecordTypes` carry the record
updates. `ActivationIsSealed` and `RejectionIsFinal` are action properties that
follow from one step under `BridgeInv`.

Its second part goes on from there.

* `RolloutTypeCorrect`, and `RolloutImplementsBridge`: every step of executors and
  trainer is a `WeightBridge` step or leaves its variables alone, so all theorems
  above hold with executors on top. The invariant is `TypedInv`.
* `ReportedAlwaysServed` (`ReportedWeightsServed`) and `HandoffImplemented`
  (`ImplementsHandoff`), under `SnapshotDeployment`: the transport copies on
  publication, and where imports are aliases, each executor has a bridge of its
  own that is not the trainer's. Without the first the claim is false
  (`ipc_served`), and without the second the trainer can unmap what is served.
  `ServedInv` adds three facts: published storage equals its checksum for good
  (`StorageSealed`); a call that has imported holds that content (`CallSealed`);
  and what is served is a view of the update whose id the executor reports, which
  its bridge still has a record of (`Serving`, `HasRecord`). That record is why a
  release of another update cannot touch it. The refinement maps the handoff's
  catalog to the manifests and their contents; only `Publish` and the final
  assignment of `update_weights` (or a release of what is served) are steps of
  it. It needs `VersionsIdentifyUpdates`, since the catalog is keyed by version.
* `EngineAlwaysFollowsSuccess` (`EngineFollowsSuccess`), under `SnapshotDeployment`.
  `EngineInv` follows one call: from the install on the adapter, and an engine that
  loads the tensors it is given, is on the call's target, the switch makes that the
  reported update, and the release of the
  previous one leaves the engine alone. A torn engine is excluded because the
  install of the next call starts from the import again, whose record is still
  there when its content is read. Of an engine behind the checkpoint adapter nothing
  is said.
* `BridgeAlwaysAgrees` (`BridgeAgrees`), under `PrivateBridges`: no two executors
  share a bridge other than the trainer's.
* `OnlyActiveOrRejectedEverHeld` (`OnlyActiveOrRejectedHeld`), under
  `OneExecutorPerBridge`, for any adapter and with the trainer on the same bridge or
  not. `HoldInv` says which record besides the active update's, the rejected and the
  stranded ones may exist at each line: the target's up to the switch, the previous
  update's after it, and on the trainer's bridge published ones.

`StatelessExecutorProofs` proves `ConfigComesBack` and `PassesSeePolicy`
(`ConfigRestored`, `ForwardSeesPolicy`) for any number of configuration objects
and any values on them. The invariant: inside a call the outer snapshot is of
what the call found, and a place outside it has not changed. The fallback keeps
this because it is only reached from FlashAttention, whose snapshot covers both
attention attributes, and an object whose `use_cache` is missing keeps it
missing; so its context covers no place that the call's does not
(`FallbackIsCovered`). That is also why a fallback that cannot even be configured
is undone by the outer context, while the same failure in the outer context is
not. `ResultsOfTheirForward` (`ResultIsOfItsForward`) rests on `ReportInv`: from
the pass on, outputs and policy are those of the backend that ran, and the policy
changes only while there are no outputs.

The same module proves `TokensAlwaysHaveSlots` (`TokensHaveSlots`) for any batches
and block sizes. `TableInv` says that row r's blocks begin behind those of all
rows before it (`BlocksOfFirst`), so rows are disjoint and end inside what was
reserved, because that sum grows with every row. `ScorersShareTheModel` carries
the stateless theorems over to a model that both scorers use in turn.

`SharedMemoryTransportProofs` proves `AttachedWhole`, `NoNamesLeft` and
`OpenWhilePublished` for any tensors and consumers. The second says that names left by a
failed publish or a finished release are abandoned ones, the third that names
are linked as long as no consumer with a tracker has exited; neither says more. Its invariant says for each
loop that what is held and what is still to do add up to the segments, that
existing names are names of held or abandoned segments, and that a name goes missing under a
published update only when a consumer with a tracker has exited.

`VmmTransportProofs` proves `PackedApart` for all sizes and granularities: ranges
are in order, the last one ends at `offset`, and rounding up never goes below. It
rests on `RoundUp` being the least multiple that is large enough. It proves
`WrongFdNeedsTimeout` and `ReleasedClean` for any
number of consumers. Without a timeout the thread has ended when `release` gets to
`unlink`, an ended thread does not listen, and the number changes its meaning only
when `release` is done; so a thread that still sends then is one that `release`
gave up on. `TransportImplementsBoth` carries all three over to `VmmTransport`.

`VmmExternalStorageProofs` proves `BoundIsMapped` and `OwnStorageKept` for any
workers, parameters and manifests. The point of `WorkerInv` is its third conjunct:
a parameter for which nothing is saved is not bound to the update that release
will unmap; and what is saved is vLLM's own storage or a mapping that is never
undone. `CleanAlwaysAgree` is about runs in which no closure has raised: executor,
adapter and workers agree between calls, and `CleanInv` says which workers are
already on the new update in the middle of a broadcast, the ones that have answered.
`CleanAlwaysServed` (`CleanReportedServed`) adds `WholeManifests`, that a manifest
which can be installed names all parameters of all workers: without it (the default
`require_all_parameters=False`) a worker runs on a mix.

`TensorParallelLinearLogpProofs` is for any ranks, tokens, layouts, chunk and tile
sizes, builds and programs. What ranks must agree on is a condition inside the
statements.

* `FlowInvariant`, under `RanksAgree`. `ToJoin(r)` is the set of collectives rank r
  still joins in its
  call. `FlowInv` says that ranks in one call on the group have the same ones ahead;
  that a rank behind another has none left, nor any in the calls between, while the
  other has not joined any of its own call (`Abreast`); and that what one rank's
  cache knows, every rank's does, and is valid (`CacheInv`). So whoever waits, waits
  for what the others will join. A step of one rank leaves its `ToJoin` alone, or
  ends a call that has none left; a collective removes itself from all.
* `StepInvariant`, under `RefusedAlike` alone: caches and builds may differ. Every path
  of a call on the group merges statistics once, in one collective or another, and
  whatever raises on one rank raises on all at a collective or before the first. So
  merges and raises keep the ranks' calls in step (`StepInv`), although other
  collectives may not.
* `CollectivesAlwaysPair` (`CollectivesPair`) follows from both, `AlwaysRaiseTogether`
  (`RaisesTogether`) from the second.
* `ResultAlwaysReference` (`ResultIsReference`) and `GradAlwaysReference`
  (`GradIsReference`), for ranks that agree. `DataInv` gives every buffer in closed form: statistics of the
  rows up to the cursor, gradients of the block of tokens and rows done
  (`BlockOf`), and, behind a merge or an all-reduce, those of all ranks. A chunk, a
  block of tokens and a tile each join what is before them (`ChunkScans`,
  `TokenHotsJoin`, `TileHotsJoin`). Then a valid partition has every row in exactly
  one shard (`OneShard`), which follows from the chain of starts and ends by a least
  counterexample (`ShardsApart`).

`TrainingLoopProofs` proves `OperatorKept` for any device, processes and lookups,
first of `KernelRegistry` and then of `TrainingLoop`, every step of which is a
step of one registry or of none. `OperatorKept` needs more than the cache: the
backend in use is the first of its list that has not failed, all before it have,
and no cached backend is among the failed ones; so a lookup of another type can
add failures behind it or elsewhere, never in front of it and never itself.
`NoActorEverLost` proves `NoActorLost` for any limit on restarts.
`AnnouncedAlwaysPublishable` (`AnnouncedIsPublishable`) and
`VersionsAlwaysNameWeights` (`VersionsNameWeights`) hold for any number of trainings
and restarts. `VersionsInv` relates the trainer's counter, its bridge's and every
number on its way in a call (`CountersAgree`): the bridge is never ahead of a first
life, and what a pending publication names is above it. Over a restart,
`NumbersSurvive` says that a number the first life had installed is carried on by
the rollout worker, the driver or a call in between, so that the second life goes on
above it.

`TrainingContractProofs` proves all of `TrainingContract`'s properties for any
numbers of prompts and copies, any lengths and groups of any sizes. The code has no
link between a candidate and its row: three extractions, the scorer's rows, the
running index of the attach walk and the batch each count candidates anew, and the
argument is that they count alike.

* A walk. `Kept` and `KeepGroups` say which candidate is the i-th that is left: the
  one at the i-th of the kept indices in `Ascending` order. (They are defined that
  way and not with SelectSeq because the provers can see into it.)
  `KeepGroupsOrigins` says where each kept candidate was: all that carry the part are
  kept, in their order, and kept together exactly when they were together. That
  alone gives `GroupsStayPrompts` (`GroupsArePrompts`). `FlattenWalks` adds that
  flattening meets every place once, in order.
* Attaching. `ResultIsOfCandidate`: when the attach walk has passed r candidates with
  tokens, the scorer's r-th row is the one it stands at. So no reward slips by one.
* Matching. `SameShapeSameCarriers`: where a part is only on candidates with tokens
  (`PartsHaveTokens`), groups of equal shapes mean that nothing was dropped from one
  walk and not from the other. This is why comparing lengths, all that
  `_reward_groups_match` does, is enough (`RowsTrainOnTheirOwn`), also for two walks over
  different groupings (`SameCarriersSameOrigins`), and why it is not
  without `PartsHaveTokens`.
* Scoring. What a scorer attached is on all candidates with tokens of the grouping
  the tokens are taken from; where nothing else carries such a part
  (`TokenlessBare`), it matches and is used (`ScoresReachTheBatch`,
  `ReferencesCoverTheBatch`). Rows that match are as long as the code asks
  (`MatchedRow`): up to `completion_len`, hence all active tokens only when
  `min_completion_len` is not greater.

`ContractInv` is these facts' common ground: every candidate is at the place its id
names and comes only with parts of its own, the scored grouping has every score on
every candidate with tokens, and the batch is `BatchOf` the payload. That the batch
has no more columns than configured needs the longest completion to exist
(`BatchLenInBounds`).

Induction. The library's induction theorems take an operator as parameter and
cannot be used here; where a fact is about sums, chains or prefixes the proof takes a
least counterexample instead (`WellFoundedInduction`, `LeastOf`).

Assumptions: only the named `ASSUME`s of the modules, and where stated
`SnapshotDeployment`, `PrivateBridges`, `OneExecutorPerBridge` and `WholeManifests`.
Each of
the runs that check the properties concerned satisfies them. `RanksAgree`,
`RefusedAlike`, `PartsHaveTokens` and `TokenlessBare` are part of the
properties themselves.

Only model-checked: all liveness (fairness and ENABLED are out of the prover's
reach). Every invariant and every safety property that a passing run checks is also
proved. No module here declares a RECURSIVE operator.

## Not modelled, and why

Tensor values, hashing and dtype handling (data), the CUDA driver and DLPack (C
calls), manifest parsing (calls that raise without effect), logging and metrics,
and the components marked `not_modelled` in `PROJECT.json`. Of the components
marked `partly`: the loss, the ZeRO-3 export on several ranks and the gathering of
its parameters (DeepSpeed trainer); `health_check` and the runtime's initialisation
(Ray); the handles' request builder (CUDA IPC); the second close of a descriptor in
the error branch of an attach (`bridge.py:2362`), whose effect is on whichever
descriptor of the process has that number by then.
Calls of one bridge
object from two threads at once are not modelled: nothing in the repository does
that, and nothing in it would make that safe.

## Plan

Done: the weight path, its composition with the executors and the abstract
hand-off, the transports' life cycles and the packing below them, the training
contract, both scorers, linear_logp across ranks, the registry, and the training
loop over Ray actors. What is left, in this order:

1. The ZeRO-3 export over ranks, where rank 0 publishes what all have gathered.
2. Manifest parsing and the layout a manifest describes, where a raise decides
   whether `AttachThenRaise` or no step at all happens.
