----------------------- MODULE VmmExternalStorageProofs -----------------------
(***************************************************************************)
(* Proofs about VmmExternalStorage, for any workers, parameters, manifests *)
(* and sequence of failures.                                               *)
(***************************************************************************)
EXTENDS VmmExternalStorage, TLAPS

Storage == Updates \cup {Original}

\* One worker: it has saved every parameter that is bound to the update it will
\* unmap, and what it saved outlives that update.
WorkerInv(w) ==
    \A p \in Parameters[w] :
        /\ bound[w][p] \in Mapped(w) \cup {Original}
        /\ saved[w][p] \in stray[w] \cup {NotSaved, Original}
        /\ saved[w][p] = NotSaved => bound[w][p] \in stray[w] \cup {Original}
        /\ stray[w] = {} => \/ bound[w][p] = Original
                            \/ current[w] # NoUpdate /\ saved[w][p] = Original

\* The types of a worker's variables, after a step too.
WorkerTypes ==
    /\ DOMAIN bound = Workers
    /\ \A w \in Workers : bound[w] \in [Parameters[w] -> Storage]
    /\ saved \in [Workers -> [Names -> Storage \cup {NotSaved}]]
    /\ current \in [Workers -> Updates \cup {NoUpdate}]
    /\ stray \in [Workers -> SUBSET Updates]

\* The types of the call in progress.
RunningTypes ==
    /\ call \in [op : {"idle", "install", "release"},
                 update : Updates \cup {NoUpdate}, then : Updates \cup {NoUpdate}]
    /\ call.op # "idle" => call.update \in Updates
    /\ waiting \in SUBSET Workers
    /\ results \in [Workers -> SUBSET Names]
    /\ failed \in BOOLEAN

\* The types of all that is no worker's.
CallTypes ==
    /\ RunningTypes
    /\ adapterId \in Updates \cup {NoUpdate}
    /\ reported \in Updates \cup {NoUpdate}
    /\ clean \in BOOLEAN

StorageInv ==
    /\ WorkerTypes
    /\ CallTypes
    /\ \A w \in Workers : WorkerInv(w)

LEMMA TypesSuffice == StorageInv => TypeOK
BY DEF StorageInv, TypeOK, WorkerTypes, CallTypes, RunningTypes, Storage

\* A parameter is a name.
LEMMA ParameterNames == \A w \in Workers : Parameters[w] \subseteq Names
BY ParametersAssumption

\* The names a worker has rebound are some of its parameters, and get storage that
\* it has mapped.
LEMMA RebindTypes ==
    ASSUME WorkerTypes, NEW w \in Workers, NEW names \in SUBSET Names, NEW data,
           \A p \in names \cap Parameters[w] : data[p] \in Storage
    PROVE  Rebind(w, names, data) \in [Parameters[w] -> Storage]
BY DEF Rebind, WorkerTypes

LEMMA SavedWithTypes ==
    ASSUME WorkerTypes, NEW w \in Workers, NEW names \in SUBSET Parameters[w]
    PROVE  SavedWith(w, names) \in [Names -> Storage \cup {NotSaved}]
BY ParameterNames DEF SavedWith, WorkerTypes

\* A step on one worker.
LEMMA OneWorker ==
    ASSUME WorkerTypes, \A v \in Workers : WorkerInv(v), NEW w \in Workers,
           NEW b \in [Parameters[w] -> Storage], NEW s \in [Names -> Storage \cup {NotSaved}],
           NEW c \in Updates \cup {NoUpdate}, NEW t \in SUBSET Updates,
           bound' = [bound EXCEPT ![w] = b], saved' = [saved EXCEPT ![w] = s],
           current' = [current EXCEPT ![w] = c], stray' = [stray EXCEPT ![w] = t],
           WorkerInv(w)'
    PROVE  WorkerTypes' /\ \A v \in Workers : WorkerInv(v)'
<1>1. WorkerTypes'
  BY DEF WorkerTypes
<1>2. ASSUME NEW v \in Workers, v # w PROVE WorkerInv(v)'
  BY <1>2 DEF WorkerInv, Mapped, WorkerTypes
<1> QED
  BY <1>1, <1>2

\* Every parameter starts on vLLM's own storage.
LEMMA InitStorageInv == Init => StorageInv
<1> SUFFICES ASSUME Init PROVE StorageInv
  OBVIOUS
<1>1. WorkerTypes
  BY DEF Init, WorkerTypes, Storage, NothingSaved, NotSaved
<1>2. CallTypes
  BY DEF Init, CallTypes, RunningTypes, Idle
<1>3. ASSUME NEW w \in Workers PROVE WorkerInv(w)
  BY ParameterNames DEF Init, WorkerInv, Mapped, NothingSaved, NotSaved
<1> QED
  BY <1>1, <1>2, <1>3 DEF StorageInv

\* install on a worker: what it maps new is its current update, and what it had
\* mapped before it will never unmap.
LEMMA InstallKeepsInv ==
    ASSUME StorageInv, NEW w \in Workers, WorkerInstalls(w) PROVE StorageInv'
<1> DEFINE u == call.update
           names == Matching(w, u)
           b == Rebind(w, names, [p \in names |-> u])
           s == SavedWith(w, names)
<1>1. WorkerTypes /\ CallTypes /\ \A v \in Workers : WorkerInv(v)
  BY DEF StorageInv
<1>2. u \in Updates /\ names \subseteq Parameters[w]
  BY <1>1 DEF WorkerInstalls, CallTypes, RunningTypes, Matching
<1>3. names \in SUBSET Names
  BY <1>2, ParameterNames
<1>4. b \in [Parameters[w] -> Storage]
  BY <1>1, <1>2, <1>3, RebindTypes DEF Storage
<1>5. s \in [Names -> Storage \cup {NotSaved}]
  BY <1>1, <1>2, SavedWithTypes
<1>6. Mapped(w) \in SUBSET Updates
  BY <1>1 DEF WorkerTypes, Mapped
<1>7. /\ bound' = [bound EXCEPT ![w] = b] /\ saved' = [saved EXCEPT ![w] = s]
      /\ current' = [current EXCEPT ![w] = u] /\ stray' = [stray EXCEPT ![w] = Mapped(w)]
  BY DEF WorkerInstalls
<1>8. bound'[w] = b /\ saved'[w] = s /\ current'[w] = u /\ stray'[w] = Mapped(w)
  BY <1>1, <1>7 DEF WorkerTypes
<1>9. WorkerInv(w)'
  <2> SUFFICES ASSUME NEW p \in Parameters[w]
               PROVE  /\ b[p] \in Mapped(w) \cup {u, Original}
                      /\ s[p] \in Mapped(w) \cup {NotSaved, Original}
                      /\ s[p] = NotSaved => b[p] \in Mapped(w) \cup {Original}
                      /\ Mapped(w) = {} => b[p] = Original \/ s[p] = Original
    BY <1>2, <1>8, NoUpdateAssumption DEF WorkerInv, Mapped, NotSaved
  <2>1. p \in Names
    BY ParameterNames
  <2>2. b[p] = IF p \in names THEN u ELSE bound[w][p]
    BY DEF Rebind
  <2>3. s[p] = IF p \in names /\ saved[w][p] = NotSaved THEN bound[w][p] ELSE saved[w][p]
    BY <2>1 DEF SavedWith
  <2>4. /\ bound[w][p] \in Mapped(w) \cup {Original}
        /\ saved[w][p] \in stray[w] \cup {NotSaved, Original}
        /\ saved[w][p] = NotSaved => bound[w][p] \in stray[w] \cup {Original}
    BY <1>1 DEF WorkerInv
  <2>5. stray[w] \subseteq Mapped(w) /\ NotSaved \notin Mapped(w) \cup {Original}
    BY <1>6, NoUpdateAssumption DEF Mapped, NotSaved
  <2> HIDE DEF b, s, names, u
  <2> QED
    BY <2>2, <2>3, <2>4, <2>5
<1>10. CallTypes'
  BY <1>1, <1>3 DEF WorkerInstalls, CallTypes, RunningTypes
<1> HIDE DEF b, s, names, u
<1>11. WorkerTypes' /\ \A v \in Workers : WorkerInv(v)'
  BY <1>1, <1>2, <1>4, <1>5, <1>6, <1>7, <1>9, OneWorker
<1> QED
  BY <1>10, <1>11 DEF StorageInv

\* install raising on a worker, in the import or after it has rebound some names.
LEMMA InstallRaisesKeepsInv ==
    ASSUME StorageInv, NEW w \in Workers, WorkerInstallRaises(w) PROVE StorageInv'
<1>1. WorkerTypes /\ CallTypes /\ \A v \in Workers : WorkerInv(v)
  BY DEF StorageInv
<1>2. call.update \in Updates
  BY <1>1 DEF WorkerInstallRaises, CallTypes, RunningTypes
<1>3. CallTypes'
  BY <1>1 DEF WorkerInstallRaises, CallTypes, RunningTypes
<1>4. CASE stray' \in {stray, [stray EXCEPT ![w] = @ \cup {call.update}]} /\ UNCHANGED <<bound, saved, current>>
  <2>1. WorkerTypes'
    BY <1>1, <1>2, <1>4 DEF WorkerTypes
  <2>2. \A v \in Workers : stray[v] \subseteq stray'[v]
    BY <1>1, <1>4 DEF WorkerTypes
  <2>3. \A v \in Workers : WorkerInv(v)'
    BY <1>1, <1>4, <2>2 DEF WorkerInv, Mapped
  <2> QED
    BY <1>3, <2>1, <2>3 DEF StorageInv
<1>5. ASSUME NEW rebound \in SUBSET Matching(w, call.update),
             bound' = [bound EXCEPT ![w] = Rebind(w, rebound, SavedWith(w, rebound))],
             saved' = [saved EXCEPT ![w] = NothingSaved],
             current' = [current EXCEPT ![w] = NoUpdate],
             stray' = [stray EXCEPT ![w] = Mapped(w)]
      PROVE  StorageInv'
  <2> DEFINE s == SavedWith(w, rebound)
             b == Rebind(w, rebound, s)
  <2>1. rebound \in SUBSET Parameters[w] /\ rebound \in SUBSET Names
    BY ParameterNames DEF Matching
  <2>2. NothingSaved \in [Names -> Storage \cup {NotSaved}]
    BY DEF NothingSaved
  <2>3. Mapped(w) \in SUBSET Updates
    BY <1>1 DEF WorkerTypes, Mapped
  <2>4. \A p \in Parameters[w] :
          b[p] = IF p \in rebound
                 THEN IF saved[w][p] = NotSaved THEN bound[w][p] ELSE saved[w][p]
                 ELSE bound[w][p]
    BY <2>1, ParameterNames DEF Rebind, SavedWith
  <2>5. \A p \in Parameters[w] : bound[w][p] \in Storage /\ saved[w][p] \in Storage \cup {NotSaved}
    BY <1>1, ParameterNames DEF WorkerTypes
  <2>6. b \in [Parameters[w] -> Storage]
    BY <2>4, <2>5 DEF Rebind
  <2>7. bound'[w] = b /\ saved'[w] = NothingSaved /\ current'[w] = NoUpdate /\ stray'[w] = Mapped(w)
    BY <1>1, <1>5 DEF WorkerTypes
  <2>8. WorkerInv(w)'
    <3> SUFFICES ASSUME NEW p \in Parameters[w]
                 PROVE  /\ b[p] \in Mapped(w) \cup {Original}
                        /\ NothingSaved[p] = NotSaved
      BY <2>7 DEF WorkerInv, Mapped
    <3>1. bound[w][p] \in Mapped(w) \cup {Original}
      BY <1>1 DEF WorkerInv
    <3>2. saved[w][p] \in stray[w] \cup {NotSaved, Original} /\ stray[w] \subseteq Mapped(w)
      BY <1>1 DEF WorkerInv, Mapped
    <3>3. NothingSaved[p] = NotSaved
      BY ParameterNames DEF NothingSaved
    <3> HIDE DEF b, s
    <3> QED
      BY <2>4, <3>1, <3>2, <3>3
  <2> HIDE DEF b, s
  <2>9. WorkerTypes' /\ \A v \in Workers : WorkerInv(v)'
    <3>1. bound' = [bound EXCEPT ![w] = b]
      BY <1>5 DEF b, s
    <3> QED
      BY <1>1, <1>5, <2>2, <2>3, <2>6, <2>8, <3>1, OneWorker
  <2> QED
    BY <1>3, <2>9 DEF StorageInv
<1> QED
  BY <1>4, <1>5 DEF WorkerInstallRaises

\* release on a worker, whether or not its bridge then raises: what it unmaps is no
\* longer bound by any parameter.
LEMMA ReleaseKeepsInv ==
    ASSUME StorageInv, NEW w \in Workers, WorkerReleases(w) \/ WorkerReleaseRaises(w)
    PROVE  StorageInv'
<1> DEFINE b == Rebind(w, SavedNames(w), saved[w])
<1>1. WorkerTypes /\ CallTypes /\ \A v \in Workers : WorkerInv(v)
  BY DEF StorageInv
<1>2. CallTypes'
  BY <1>1 DEF WorkerReleases, WorkerReleaseRaises, CallTypes, RunningTypes
<1>3. \A p \in Parameters[w] : bound[w][p] \in Storage /\ saved[w][p] \in Storage \cup {NotSaved}
  BY <1>1, ParameterNames DEF WorkerTypes
<1>4. \A p \in Parameters[w] : b[p] = IF saved[w][p] # NotSaved THEN saved[w][p] ELSE bound[w][p]
  BY DEF Rebind, SavedNames
<1>5. b \in [Parameters[w] -> Storage]
  BY <1>3, <1>4 DEF Rebind
<1>6. \A p \in Parameters[w] : /\ b[p] \in stray[w] \cup {Original}
                               /\ stray[w] = {} => b[p] = Original
  BY <1>1, <1>4 DEF WorkerInv
<1>7. CASE UNCHANGED <<bound, saved, current, stray>>
  BY <1>1, <1>2, <1>7 DEF StorageInv, WorkerTypes, WorkerInv, Mapped
<1>8. ASSUME bound' = [bound EXCEPT ![w] = b], UNCHANGED stray,
             \/ /\ saved' = [saved EXCEPT ![w] = NothingSaved]
                /\ current' = [current EXCEPT ![w] = NoUpdate]
             \/ UNCHANGED <<saved, current>>
      PROVE  StorageInv'
  <2> HIDE DEF b
  <2>1. NothingSaved \in [Names -> Storage \cup {NotSaved}]
    BY DEF NothingSaved
  <2>2. WorkerTypes'
    BY <1>1, <1>5, <1>8, <2>1 DEF WorkerTypes
  <2>3. \A p \in Parameters[w] : saved'[w][p] \in {saved[w][p], NotSaved}
    BY <1>1, <1>8, ParameterNames DEF WorkerTypes, NothingSaved
  <2>4. bound'[w] = b
    BY <1>1, <1>8 DEF WorkerTypes
  <2>5. WorkerInv(w)'
    BY <1>1, <1>6, <1>8, <2>3, <2>4 DEF WorkerInv, Mapped
  <2>6. ASSUME NEW v \in Workers, v # w PROVE WorkerInv(v)'
    BY <1>1, <1>8, <2>6 DEF WorkerInv, Mapped, WorkerTypes
  <2> QED
    BY <1>2, <2>2, <2>5, <2>6 DEF StorageInv
<1> QED
  BY <1>7, <1>8 DEF WorkerReleases, WorkerReleaseRaises

\* A call begins on all workers or ends with none.
LEMMA ApplyTypes ==
    ASSUME NEW op \in {"install", "release"}, NEW u \in Updates, NEW then \in Updates \cup {NoUpdate},
           ApplyModel(op, u, then)
    PROVE  RunningTypes'
<1>1. call' = [op |-> op, update |-> u, then |-> then]
  BY DEF ApplyModel
<1>2. call' \in [op : {"idle", "install", "release"},
                 update : Updates \cup {NoUpdate}, then : Updates \cup {NoUpdate}]
  BY <1>1
<1>3. call'.update = u
  BY <1>1
<1>4. waiting' \in SUBSET Workers /\ results' \in [Workers -> SUBSET Names] /\ failed' \in BOOLEAN
  BY DEF ApplyModel
<1> QED
  BY <1>2, <1>3, <1>4 DEF RunningTypes

LEMMA EndTypes == EndCall => RunningTypes'
<1> SUFFICES ASSUME EndCall PROVE RunningTypes'
  OBVIOUS
<1>1. call' = [op |-> "idle", update |-> NoUpdate, then |-> NoUpdate]
  BY DEF EndCall, Idle
<1>2. call' \in [op : {"idle", "install", "release"},
                 update : Updates \cup {NoUpdate}, then : Updates \cup {NoUpdate}]
  BY <1>1
<1>3. call'.op = "idle"
  BY <1>1
<1>4. waiting' \in SUBSET Workers /\ results' \in [Workers -> SUBSET Names] /\ failed' \in BOOLEAN
  BY DEF EndCall
<1> QED
  BY <1>2, <1>3, <1>4 DEF RunningTypes

\* The adapter's own steps touch no worker.
LEMMA AdapterKeepsInv ==
    ASSUME StorageInv,
           \/ PreviousReleased \/ InstallReturns \/ InstallRaises \/ InstallIncomplete
           \/ ReleaseReturns
           \/ \E u \in Updates : StartInstall(u) \/ StartRelease(u)
    PROVE  StorageInv'
<1>1. WorkerTypes /\ CallTypes /\ \A v \in Workers : WorkerInv(v)
  BY DEF StorageInv
<1>2. UNCHANGED workerVars
  BY DEF PreviousReleased, InstallReturns, InstallRaises, InstallIncomplete, ReleaseReturns,
         StartInstall, StartRelease
<1>3. WorkerTypes' /\ \A v \in Workers : WorkerInv(v)'
  BY <1>1, <1>2 DEF workerVars, WorkerTypes, WorkerInv, Mapped
<1>4. CallTypes'
  <2>1. CASE PreviousReleased
    <3>1. call.then \in Updates
      BY <1>1, <2>1 DEF PreviousReleased, CallTypes, RunningTypes
    <3>2. RunningTypes'
      BY <2>1, <3>1, ApplyTypes DEF PreviousReleased
    <3> QED
      BY <1>1, <2>1, <3>2 DEF PreviousReleased, CallTypes
  <2>2. CASE InstallReturns \/ InstallRaises \/ InstallIncomplete
    <3>1. call.update \in Updates
      BY <1>1, <2>2 DEF InstallReturns, InstallRaises, InstallIncomplete, CallTypes, RunningTypes
    <3>2. RunningTypes'
      BY <1>1, <2>2, <3>1, ApplyTypes, EndTypes
      DEF InstallReturns, InstallRaises, InstallIncomplete, CallTypes
    <3> QED
      BY <1>1, <2>2, <3>1, <3>2 DEF InstallReturns, InstallRaises, InstallIncomplete, CallTypes
  <2>3. CASE ReleaseReturns
    BY <1>1, <2>3, EndTypes DEF ReleaseReturns, CallTypes
  <2>4. CASE \E u \in Updates : StartInstall(u)
    BY <1>1, <2>4, ApplyTypes DEF StartInstall, CallTypes
  <2>5. CASE \E u \in Updates : StartRelease(u)
    BY <1>1, <2>5, ApplyTypes DEF StartRelease, CallTypes
  <2> QED
    BY <2>1, <2>2, <2>3, <2>4, <2>5
<1> QED
  BY <1>3, <1>4 DEF StorageInv

\* StorageInv is inductive.
LEMMA StepKeepsInv == StorageInv /\ [Next]_vars => StorageInv'
<1> SUFFICES ASSUME StorageInv, [Next]_vars PROVE StorageInv'
  OBVIOUS
<1>1. CASE UNCHANGED vars
  BY <1>1 DEF StorageInv, WorkerTypes, CallTypes, RunningTypes, WorkerInv, Mapped, vars, workerVars, callVars
<1>2. CASE Next
  BY <1>2, InstallKeepsInv, InstallRaisesKeepsInv, ReleaseKeepsInv, AdapterKeepsInv
  DEF Next, CallProgress
<1> QED
  BY <1>1, <1>2

THEOREM StorageInvariant == Spec => []StorageInv
BY InitStorageInv, StepKeepsInv, PTL DEF Spec

\* No parameter reads storage its worker has unmapped (the order of rebinding and
\* bridge.release in the worker's closures), whatever fails on whichever worker.
THEOREM AlwaysBoundIsMapped == Spec => []BoundIsMapped
<1>1. StorageInv => BoundIsMapped
  BY DEF StorageInv, WorkerInv, BoundIsMapped
<1> QED
  BY StorageInvariant, <1>1, PTL

\* vLLM's own storage is bound or saved until a bridge is lost.
THEOREM AlwaysOwnStorageKept == Spec => []OwnStorageKept
<1>1. StorageInv => OwnStorageKept
  BY DEF StorageInv, WorkerInv, OwnStorageKept
<1> QED
  BY StorageInvariant, <1>1, PTL

-----------------------------------------------------------------------------
(***************************************************************************)
(* While nothing has failed.                                               *)
(***************************************************************************)
\* Every manifest that passes require_all_parameters names all parameters of every
\* worker.  Without it a worker runs on a mix of the update and its own storage.
Complete(u) == RequireAll => Tensors[u] \subseteq UNION {Parameters[w] : w \in Workers}

WholeManifests ==
    \A u \in Updates : Complete(u) => \A w \in Workers : Parameters[w] \subseteq Tensors[u]

\* w runs on u, or on no update.
Follows(w, u) ==
    /\ current[w] = u
    /\ u # NoUpdate => \A p \in Matching(w, u) : bound[w][p] = u

\* An install finds all workers on the adapter's update, which is the one it installs or
\* none, and moves them one by one.
Installing ==
    /\ adapterId \in {NoUpdate, call.update}
    /\ \A w \in Workers :
         IF w \in waiting THEN current[w] = adapterId
         ELSE Follows(w, call.update) /\ results[w] = Matching(w, call.update)

\* A release of what the adapter has installed empties the workers one by one.  It is
\* the executor's own, or makes room for the next install.
Emptying ==
    /\ call.then = NoUpdate => reported = NoUpdate
    /\ \A w \in Workers : current[w] = IF w \in waiting THEN call.update ELSE NoUpdate

\* Executor, adapter and workers are on one update.
Agreed == adapterId = reported /\ \A w \in Workers : Follows(w, reported)

\* Where a call that has met no failure stands; a release of an update that nobody is
\* on changes nothing.
CleanCall ==
    /\ ~ failed
    /\ reported # NoUpdate => Complete(reported)
    /\ call = Idle => Agreed
    /\ call.op = "install" => Installing
    /\ call.op = "release" /\ adapterId = call.update => Emptying
    /\ call.op = "release" /\ adapterId # call.update => call.then = NoUpdate /\ Agreed

CleanInv == StorageInv /\ (clean => CleanCall)

\* What the answers of all workers name is what they have parameters for.
LEMMA AnsweredIsComplete ==
    ASSUME NEW u \in Updates, \A w \in Workers : results[w] = Matching(w, u),
           ~ (RequireAll /\ Missing(u) # {})
    PROVE  Complete(u)
BY DEF Missing, Matching, Complete

\* A new call is on all workers and none has answered.
LEMMA Applied ==
    ASSUME NEW op, NEW u, NEW then, ApplyModel(op, u, then)
    PROVE  /\ call'.op = op /\ call'.update = u /\ call'.then = then
           /\ waiting' = Workers /\ ~ failed'
BY DEF ApplyModel

\* A worker's answer.
LEMMA WorkerKeepsClean ==
    ASSUME CleanInv, clean, NEW w \in Workers, WorkerInstalls(w) \/ WorkerReleases(w)
    PROVE  CleanCall'
<1>1. /\ CleanCall /\ WorkerTypes /\ CallTypes
      /\ UNCHANGED <<call, failed, adapterId, reported>>
      /\ waiting' = waiting \ {w}
  BY DEF CleanInv, StorageInv, WorkerInstalls, WorkerReleases
<1>2. \A v \in Workers \ {w} : bound'[v] = bound[v] /\ current'[v] = current[v]
  BY <1>1 DEF WorkerInstalls, WorkerReleases, WorkerTypes
<1>3. \A v \in Workers \ {w}, u \in Updates \cup {NoUpdate} : Follows(v, u) => Follows(v, u)'
  BY <1>2 DEF Follows
<1>4. CASE WorkerInstalls(w)
  <2>1. Installing /\ call.op = "install" /\ call.update \in Updates
    BY <1>1, <1>4 DEF WorkerInstalls, CleanCall, CallTypes, RunningTypes
  <2>2. call # Idle
    BY <2>1 DEF Idle
  <2>3. bound'[w] = Rebind(w, Matching(w, call.update), [p \in Matching(w, call.update) |-> call.update])
    BY <1>1, <1>4 DEF WorkerInstalls, WorkerTypes
  <2>4. current'[w] = call.update /\ results' = [results EXCEPT ![w] = Matching(w, call.update)]
    BY <1>1, <1>4 DEF WorkerInstalls, WorkerTypes
  <2>5. Follows(w, call.update)'
    BY <1>1, <2>3, <2>4 DEF Follows, Rebind, Matching
  <2>6. Installing'
    BY <1>1, <1>2, <1>3, <2>1, <2>4, <2>5 DEF Installing, CallTypes, RunningTypes
  <2> QED
    BY <1>1, <2>1, <2>2, <2>6 DEF CleanCall, Complete
<1>5. CASE WorkerReleases(w)
  <2>1. call.op = "release" /\ call.update \in Updates /\ w \in waiting
    BY <1>1, <1>5 DEF WorkerReleases, CallTypes, RunningTypes
  <2>2. call # Idle
    BY <2>1 DEF Idle
  <2>3. CASE adapterId = call.update
    <3>1. Emptying
      BY <1>1, <2>1, <2>3 DEF CleanCall
    <3>2. current'[w] = NoUpdate
      BY <1>1, <1>5, <2>1, <3>1 DEF WorkerReleases, Emptying, WorkerTypes
    <3>3. Emptying'
      BY <1>1, <1>2, <3>1, <3>2 DEF Emptying
    <3> QED
      BY <1>1, <2>1, <2>2, <2>3, <3>3 DEF CleanCall, Complete
  <2>4. CASE adapterId # call.update
    <3>1. Agreed /\ call.then = NoUpdate
      BY <1>1, <2>1, <2>4 DEF CleanCall
    <3>2. UNCHANGED <<bound, current>>
      BY <1>5, <2>4, <3>1 DEF WorkerReleases, Agreed, Follows
    <3>3. Agreed'
      BY <1>1, <3>1, <3>2 DEF Agreed, Follows
    <3> QED
      BY <1>1, <2>1, <2>2, <2>4, <3>1, <3>3 DEF CleanCall, Complete
  <2> QED
    BY <2>3, <2>4
<1> QED
  BY <1>4, <1>5

\* The adapter's and the executor's steps between the answers.
LEMMA AdapterKeepsClean ==
    ASSUME CleanInv, clean,
           \/ PreviousReleased \/ InstallReturns \/ ReleaseReturns
           \/ \E u \in Updates : StartInstall(u) \/ StartRelease(u)
    PROVE  CleanCall'
<1>1. CleanCall /\ WorkerTypes /\ CallTypes
  BY DEF CleanInv, StorageInv
<1>2. UNCHANGED <<bound, current>>
  BY DEF PreviousReleased, InstallReturns, ReleaseReturns, StartInstall, StartRelease, workerVars
<1>3. \A w \in Workers, u \in Updates \cup {NoUpdate} : Follows(w, u)' <=> Follows(w, u)
  BY <1>2 DEF Follows
<1>4. CASE PreviousReleased
  <2>1. call.op = "release" /\ call.then # NoUpdate /\ waiting = {} /\ reported' = reported
    BY <1>4 DEF PreviousReleased
  <2>2. Emptying /\ adapterId = call.update
    BY <1>1, <2>1 DEF CleanCall
  <2>3. /\ call'.op = "install" /\ waiting' = Workers /\ ~ failed'
        /\ adapterId' = NoUpdate
    BY <1>4, <2>2, Applied DEF PreviousReleased
  <2>4. Installing' /\ call' # Idle
    BY <1>2, <2>1, <2>2, <2>3 DEF Emptying, Installing, Idle
  <2> QED
    BY <1>1, <2>1, <2>3, <2>4 DEF CleanCall, Complete
<1>5. CASE InstallReturns
  <2> DEFINE u == call.update
  <2>1. /\ u \in Updates /\ waiting = {} /\ ~ (RequireAll /\ Missing(u) # {})
        /\ adapterId' = u /\ reported' = u
    BY <1>1, <1>5 DEF InstallReturns, CallTypes, RunningTypes
  <2>2. Installing
    BY <1>1, <1>5 DEF InstallReturns, CleanCall
  <2>3. Complete(u)
    BY <2>1, <2>2, AnsweredIsComplete DEF Installing
  <2>4. Agreed'
    BY <1>3, <2>1, <2>2 DEF Agreed, Installing
  <2>5. CASE reported \notin {NoUpdate, u}
    <3>1. call'.op = "release" /\ call'.update = reported /\ call'.then = NoUpdate /\ ~ failed'
      BY <1>5, <2>5, Applied DEF InstallReturns
    <3> QED
      BY <2>1, <2>3, <2>4, <2>5, <3>1 DEF CleanCall, Complete
  <2>6. CASE reported \in {NoUpdate, u}
    <3>1. call' = Idle /\ ~ failed'
      BY <1>5, <2>6 DEF InstallReturns, EndCall
    <3>2. call'.op = "idle"
      BY <3>1 DEF Idle
    <3> QED
      BY <2>1, <2>3, <2>4, <3>1, <3>2 DEF CleanCall, Complete
  <2> QED
    BY <2>5, <2>6
<1>6. CASE ReleaseReturns
  <2>1. /\ call.op = "release" /\ call.then = NoUpdate /\ waiting = {} /\ reported' = reported
        /\ call' = Idle /\ ~ failed'
        /\ adapterId' = IF adapterId = call.update THEN NoUpdate ELSE adapterId
    BY <1>6 DEF ReleaseReturns, EndCall
  <2>2. Agreed'
    BY <1>1, <1>2, <2>1 DEF CleanCall, Emptying, Agreed, Follows
  <2>3. call'.op = "idle"
    BY <2>1 DEF Idle
  <2> QED
    BY <1>1, <2>1, <2>2, <2>3 DEF CleanCall, Complete
<1>7. ASSUME NEW u \in Updates, StartInstall(u)
      PROVE  CleanCall'
  <2>1. Agreed /\ adapterId' = adapterId /\ reported' = reported
    BY <1>1, <1>7 DEF StartInstall, CleanCall
  <2>2. CASE adapterId \notin {NoUpdate, u}
    <3>1. /\ call'.op = "release" /\ call'.update = adapterId /\ call'.then = u
          /\ waiting' = Workers /\ ~ failed'
      BY <1>7, <2>2, Applied DEF StartInstall
    <3>2. Emptying' /\ call' # Idle
      BY <1>2, <2>1, <3>1, NoUpdateAssumption DEF Emptying, Agreed, Follows, Idle
    <3> QED
      BY <1>1, <2>1, <3>1, <3>2 DEF CleanCall, Complete
  <2>3. CASE adapterId \in {NoUpdate, u}
    <3>1. call'.op = "install" /\ call'.update = u /\ waiting' = Workers /\ ~ failed'
      BY <1>7, <2>3, Applied DEF StartInstall
    <3>2. Installing' /\ call' # Idle
      BY <1>2, <2>1, <2>3, <3>1 DEF Installing, Agreed, Follows, Idle
    <3> QED
      BY <1>1, <2>1, <3>1, <3>2 DEF CleanCall, Complete
  <2> QED
    BY <2>2, <2>3
<1>8. ASSUME NEW u \in Updates, StartRelease(u)
      PROVE  CleanCall'
  <2>1. Agreed /\ adapterId' = adapterId /\ reported' = IF reported = u THEN NoUpdate ELSE reported
    BY <1>1, <1>8 DEF StartRelease, CleanCall
  <2>2. /\ call'.op = "release" /\ call'.update = u /\ call'.then = NoUpdate
        /\ waiting' = Workers /\ ~ failed'
    BY <1>8, Applied DEF StartRelease
  <2>3. call' # Idle
    BY <2>2 DEF Idle
  <2>4. CASE adapterId = u
    <3>1. Emptying'
      BY <1>2, <2>1, <2>2, <2>4 DEF Emptying, Agreed, Follows
    <3> QED
      BY <2>1, <2>2, <2>3, <2>4, <3>1 DEF CleanCall, Complete, Agreed
  <2>5. CASE adapterId # u
    <3>1. Agreed' /\ reported' = reported
      BY <1>2, <2>1, <2>5 DEF Agreed, Follows
    <3> QED
      BY <1>1, <2>1, <2>2, <2>3, <2>5, <3>1 DEF CleanCall, Complete
  <2> QED
    BY <2>4, <2>5
<1> QED
  BY <1>4, <1>5, <1>6, <1>7, <1>8

\* No step makes clean true again, and those that fail make it false.
LEMMA CleanStep == CleanInv /\ [Next]_vars => CleanInv'
<1> SUFFICES ASSUME CleanInv, [Next]_vars PROVE CleanInv'
  OBVIOUS
<1>1. StorageInv'
  BY StepKeepsInv DEF CleanInv
<1>2. CASE UNCHANGED vars
  BY <1>1, <1>2
  DEF CleanInv, CleanCall, Agreed, Installing, Emptying, Follows, Complete, vars, workerVars, callVars
<1>3. ASSUME \/ InstallRaises \/ InstallIncomplete
             \/ \E w \in Workers : WorkerInstallRaises(w) \/ WorkerReleaseRaises(w)
      PROVE  ~ clean'
  BY <1>3 DEF CleanInv, CleanCall, InstallRaises, InstallIncomplete, WorkerInstallRaises,
              WorkerReleaseRaises
<1>4. ASSUME \/ \E w \in Workers : WorkerInstalls(w) \/ WorkerReleases(w)
             \/ PreviousReleased \/ InstallReturns \/ ReleaseReturns
             \/ \E u \in Updates : StartInstall(u) \/ StartRelease(u)
      PROVE  clean' => CleanCall'
  <2>1. clean' = clean
    BY <1>4 DEF WorkerInstalls, WorkerReleases, PreviousReleased, InstallReturns, ReleaseReturns,
                StartInstall, StartRelease
  <2> QED
    BY <1>4, <2>1, WorkerKeepsClean, AdapterKeepsClean
<1> QED
  BY <1>1, <1>2, <1>3, <1>4 DEF CleanInv, Next, CallProgress

LEMMA AlwaysClean == Spec => []CleanInv
<1>1. Init => CleanInv
  BY InitStorageInv DEF Init, CleanInv, CleanCall, Agreed, Follows, Idle
<1> QED
  BY <1>1, CleanStep, PTL DEF Spec

\* As long as no closure has raised, adapter, executor and all workers are on the
\* update the executor reports, whichever parameters each worker has.
THEOREM CleanAlwaysAgree == Spec => [](clean => ReportedIsBound /\ AllAgree)
<1>1. CleanInv => (clean => ReportedIsBound /\ AllAgree)
  BY DEF CleanInv, CleanCall, Agreed, Follows, ReportedIsBound, AllAgree
<1> QED
  BY AlwaysClean, <1>1, PTL

\* With manifests that name all parameters, no worker then mixes the update with
\* other storage.
THEOREM CleanAlwaysServed ==
    ASSUME WholeManifests
    PROVE  Spec => []CleanReportedServed
<1>1. ASSUME CleanInv, clean PROVE ReportedIsBound /\ AllAgree
  BY <1>1 DEF CleanInv, CleanCall, Agreed, Follows, ReportedIsBound, AllAgree
<1>2. ASSUME CleanInv, clean PROVE ReportedIsWhole
  <2> SUFFICES ASSUME call = Idle, reported # NoUpdate, NEW w \in Workers, NEW p \in Parameters[w]
               PROVE  bound[w][p] = reported
    BY DEF ReportedIsWhole
  <2>1. Complete(reported) /\ Agreed /\ reported \in Updates
    BY <1>2 DEF CleanInv, CleanCall, StorageInv, CallTypes
  <2>2. p \in Matching(w, reported)
    BY <2>1 DEF WholeManifests, Matching
  <2> QED
    BY <2>1, <2>2 DEF Agreed, Follows
<1>3. CleanInv => CleanReportedServed
  BY <1>1, <1>2 DEF CleanReportedServed
<1> QED
  BY AlwaysClean, <1>3, PTL
=============================================================================
