------------------------ MODULE StatelessExecutorProofs ------------------------
(***************************************************************************)
(* Proofs about StatelessExecutor, for every number of configuration       *)
(* objects and whatever is on them, and about PagedKvBaseline, which       *)
(* scores with a cache on the same model.                                  *)
(***************************************************************************)
EXTENDS PagedKvBaseline, WellFoundedInduction, TLAPS

\* Every object says of every attribute what is there.
Shaped(c) == c = [t \in DOMAIN c |-> [a \in Attributes |-> c[t][a]]]

\* The steps of a call at which the fallback's snapshot is held.
InFallback == {"configure_eager", "forward_eager", "restore_eager"}

\* Inside a call: the snapshot is of what the call found, and everything that
\* has changed since is in it.  The fallback changes nothing else, because it
\* only follows a request for FlashAttention, which covers the same places.
CallInv ==
    /\ ~ torn
    /\ config \in Config
    /\ saved = Snapshot(before, config.backend)
    /\ \A t \in DOMAIN conf, a \in Attributes :
         <<t, a>> \notin Covered(before, config.backend) => conf[t][a] = before[t][a]
    /\ pc = "configure" => conf = before
    /\ pc \in InFallback =>
         /\ config.backend = "flash_attention_2"
         /\ DOMAIN inner \subseteq Covered(before, config.backend)
    /\ pc = "configure_eager" =>
         \A t \in DOMAIN conf : conf[t]["use_cache"] \in {"off", Missing}

\* The inductive invariant.
RestoreInv ==
    /\ Shaped(conf)
    /\ Shaped(before)
    /\ DOMAIN conf = DOMAIN before
    /\ pc \in {"idle", "configure"} \cup Inside
    /\ pc # "idle" => CallInv
    /\ ConfigRestored
    /\ ForwardSeesPolicy

-----------------------------------------------------------------------------
(***************************************************************************)
(* What the helpers do.                                                    *)
(***************************************************************************)
\* Configurations that agree at every place are the same.
LEMMA SamePlaces ==
    ASSUME NEW c, NEW d, Shaped(c), Shaped(d), DOMAIN c = DOMAIN d,
           \A t \in DOMAIN c, a \in Attributes : c[t][a] = d[t][a]
    PROVE  c = d
<1>1. [t \in DOMAIN c |-> [a \in Attributes |-> c[t][a]]]
        = [t \in DOMAIN d |-> [a \in Attributes |-> d[t][a]]]
  OBVIOUS
<1> QED
  BY <1>1 DEF Shaped

\* configure_stateless_model changes covered places only, and all of them if
\* nothing is refused.
LEMMA WrittenEffect ==
    ASSUME NEW c, NEW b
    PROVE  /\ Shaped(Written(c, b))
           /\ DOMAIN Written(c, b) = DOMAIN c
           /\ \A t \in DOMAIN c, a \in Attributes :
                /\ <<t, a>> \notin Covered(c, b) => Written(c, b)[t][a] = c[t][a]
                /\ Written(c, b)[t][a] \in {Wanted(b, a), c[t][a]}
                /\ <<t, a>> \in Covered(c, b) /\ Refused(c, b) = {} =>
                     Written(c, b)[t][a] = Wanted(b, a)
<1>1. \A t \in DOMAIN c, a \in Attributes :
        Written(c, b)[t][a] = IF <<t, a>> \in Reached(c, b) THEN Wanted(b, a) ELSE c[t][a]
  BY DEF Written
<1>2. DOMAIN Written(c, b) = DOMAIN c
  BY DEF Written
<1>3. Shaped(Written(c, b))
  BY DEF Written, Shaped
<1>4. Reached(c, b) \subseteq Covered(c, b)
  BY DEF Reached
<1>5. Refused(c, b) = {} => Reached(c, b) = Covered(c, b)
  BY DEF Reached
<1> QED
  BY <1>1, <1>2, <1>3, <1>4, <1>5

\* A snapshot holds the covered places and nothing else.
LEMMA SnapshotEffect ==
    ASSUME NEW c, NEW b
    PROVE  /\ DOMAIN Snapshot(c, b) = Covered(c, b)
           /\ \A t \in DOMAIN c, a \in Attributes :
                <<t, a>> \in Covered(c, b) => Snapshot(c, b)[<<t, a>>] = c[t][a]
<1>1. \A t \in DOMAIN c, a \in Attributes :
        <<t, a>> \in Covered(c, b) => Snapshot(c, b)[<<t, a>>] = c[<<t, a>>[1]][<<t, a>>[2]]
  BY DEF Snapshot
<1> QED
  BY <1>1 DEF Snapshot

\* Restoring changes the places of the snapshot and nothing else.
LEMMA RestoredEffect ==
    ASSUME NEW c, NEW s
    PROVE  /\ Shaped(Restored(c, s))
           /\ DOMAIN Restored(c, s) = DOMAIN c
           /\ \A t \in DOMAIN c, a \in Attributes :
                Restored(c, s)[t][a] = IF <<t, a>> \in DOMAIN s THEN s[<<t, a>>] ELSE c[t][a]
BY DEF Restored, Shaped

\* Which places are covered.
LEMMA CoveredPlaces ==
    ASSUME NEW c, NEW b, NEW t \in DOMAIN c, NEW a \in Attributes
    PROVE  <<t, a>> \in Covered(c, b) <=>
             IF a = "use_cache" THEN c[t]["use_cache"] # Missing ELSE b # "model_default"
BY DEF Covered, Places

\* What the fallback covers is in the snapshot of the call.
LEMMA FallbackIsCovered ==
    ASSUME RestoreInv, CallInv, config.backend = "flash_attention_2"
    PROVE  Covered(conf, "eager") \subseteq Covered(before, config.backend)
<1>1. SUFFICES ASSUME NEW t \in DOMAIN conf, NEW a \in Attributes,
                      <<t, a>> \in Covered(conf, "eager")
               PROVE  <<t, a>> \in Covered(before, config.backend)
  BY DEF Covered, Places
<1>2. t \in DOMAIN before
  BY DEF RestoreInv
<1>3. CASE a = "use_cache"
  <2>1. conf[t]["use_cache"] # Missing
    BY <1>1, <1>3, CoveredPlaces
  <2>2. before[t]["use_cache"] = Missing => <<t, a>> \notin Covered(before, config.backend)
    BY <1>2, <1>3, CoveredPlaces
  <2>3. before[t]["use_cache"] # Missing
    BY <2>1, <2>2, <1>3 DEF CallInv
  <2> QED
    BY <2>3, <1>2, <1>3, CoveredPlaces
<1>4. CASE a # "use_cache"
  BY <1>2, <1>4, CoveredPlaces
<1> QED
  BY <1>3, <1>4

-----------------------------------------------------------------------------
(***************************************************************************)
(* Every step keeps the invariant.                                         *)
(***************************************************************************)
\* The configurations a model may have are functions of place.
LEMMA ConfsAreShaped == \A c \in Confs : Shaped(c)
<1>1. SUFFICES ASSUME NEW n \in 0..MaxTargets, NEW c \in [1..n -> Configurations]
               PROVE  Shaped(c)
  BY DEF Confs
<1>2. DOMAIN c = 1..n /\ \A t \in 1..n : c[t] \in Configurations
  OBVIOUS
<1>3. \A t \in 1..n : c[t] = [a \in Attributes |-> c[t][a]]
  BY <1>2, ConfigurationsAssumption
<1>4. c = [t \in 1..n |-> c[t]]
  OBVIOUS
<1> QED
  BY <1>2, <1>3, <1>4 DEF Shaped

\* Nothing is running and nothing has been changed.
LEMMA InitRestores == Init => RestoreInv
BY ConfsAreShaped DEF Init, RestoreInv, ConfigRestored, ForwardSeesPolicy

\* Starting a call: the snapshot is of what is there.
LEMMA ScoreKeepsInv ==
    ASSUME RestoreInv, NEW c \in Config, Score(c)
    PROVE  RestoreInv'
BY DEF RestoreInv, Score, CallInv, ConfigRestored, ForwardSeesPolicy, InFallback, Inside,
       Snapshot, Covered, Places, Shaped

\* Configuring for the call leaves all places as before or as asked for.
LEMMA ConfigureKeepsInv ==
    ASSUME RestoreInv, Configure
    PROVE  RestoreInv'
<1> DEFINE b == config.backend
<1>1. /\ pc = "configure" /\ CallInv /\ conf = before /\ DOMAIN conf = DOMAIN before
      /\ conf' = Written(before, b)
      /\ config' = config /\ before' = before
  BY DEF RestoreInv, CallInv, Configure
<1>2. /\ Shaped(conf') /\ Shaped(before') /\ DOMAIN conf' = DOMAIN before'
      /\ \A t \in DOMAIN conf', a \in Attributes :
           /\ <<t, a>> \notin Covered(before, b) => conf'[t][a] = before[t][a]
           /\ <<t, a>> \in Covered(before, b) /\ Refused(before, b) = {} =>
                conf'[t][a] = Wanted(b, a)
  BY <1>1, WrittenEffect DEF RestoreInv
<1>3. CASE Refused(conf, b) # {}
  BY <1>1, <1>2, <1>3 DEF Configure, RestoreInv, ConfigRestored, ForwardSeesPolicy
<1>4. CASE Refused(conf, b) = {}
  <2>1. pc' = "forward" /\ torn' = torn /\ saved' = saved
    BY <1>4 DEF Configure
  <2>2. CallInv'
    BY <1>1, <1>2, <2>1 DEF CallInv, InFallback, Snapshot, Covered, Places
  <2>3. ASSUME NEW t \in DOMAIN conf'
        PROVE  /\ conf'[t]["use_cache"] \in {"off", Missing}
               /\ \A a \in Attributes \ {"use_cache"} :
                    conf'[t][a] = IF b = "model_default" THEN before[t][a] ELSE b
    <3>1. t \in DOMAIN before
      BY <1>1, <1>2, <2>3
    <3>2. "use_cache" \in Attributes
      BY DEF Attributes
    <3>3. conf'[t]["use_cache"] \in {"off", Missing}
      <4>1. CASE before[t]["use_cache"] = Missing
        BY <1>2, <3>1, <3>2, <4>1, CoveredPlaces
      <4>2. CASE before[t]["use_cache"] # Missing
        BY <1>1, <1>2, <1>4, <3>1, <3>2, <4>2, CoveredPlaces DEF Wanted
      <4> QED
        BY <4>1, <4>2
    <3>4. ASSUME NEW a \in Attributes \ {"use_cache"}
          PROVE  conf'[t][a] = IF b = "model_default" THEN before[t][a] ELSE b
      <4>1. <<t, a>> \in Covered(before, b) <=> b # "model_default"
        BY <3>1, CoveredPlaces
      <4> QED
        BY <1>1, <1>2, <1>4, <3>1, <4>1 DEF Wanted
    <3> QED
      BY <3>3, <3>4
  <2>4. ForwardSeesPolicy'
    BY <1>1, <2>1, <2>3 DEF ForwardSeesPolicy, RunsUnder
  <2> QED
    BY <1>1, <1>2, <2>1, <2>2, <2>4 DEF RestoreInv, ConfigRestored, Inside
<1> QED
  BY <1>3, <1>4

\* A forward pass changes no configuration.
LEMMA ForwardKeepsInv ==
    ASSUME RestoreInv, ForwardReturns \/ \E f \in BOOLEAN : ForwardRaises(f)
    PROVE  RestoreInv'
<1>1. /\ pc = "forward" /\ pc' \in {"examine", "configure_eager", "restore"}
      /\ UNCHANGED <<conf, config, saved, before, torn>>
      /\ pc' = "configure_eager" =>
           config.backend = "flash_attention_2" /\ inner' = Snapshot(conf, "eager")
  BY DEF ForwardReturns, ForwardRaises
<1>2. CallInv
  BY <1>1 DEF RestoreInv
<1>3. pc' = "configure_eager" => DOMAIN inner' \subseteq Covered(before, config.backend)
  BY <1>1, <1>2, FallbackIsCovered, SnapshotEffect
<1>4. \A t \in DOMAIN conf : conf[t]["use_cache"] \in {"off", Missing}
  BY <1>1 DEF RestoreInv, ForwardSeesPolicy, RunsUnder
<1>5. CallInv'
  BY <1>1, <1>2, <1>3, <1>4 DEF CallInv, InFallback, Snapshot, Covered, Places
<1> QED
  BY <1>1, <1>5 DEF RestoreInv, ConfigRestored, ForwardSeesPolicy, Inside, Shaped

\* Configuring for the fallback, even half way, changes only what the call has
\* saved.
LEMMA ConfigureEagerKeepsInv ==
    ASSUME RestoreInv, ConfigureEager
    PROVE  RestoreInv'
<1>1. /\ pc = "configure_eager" /\ CallInv /\ DOMAIN conf = DOMAIN before
      /\ conf' = Written(conf, "eager")
      /\ pc' \in {"forward_eager", "restore"}
      /\ pc' = "forward_eager" => Refused(conf, "eager") = {} /\ inner' = inner
      /\ UNCHANGED <<config, saved, before, torn>>
      /\ config.backend = "flash_attention_2"
  BY DEF RestoreInv, CallInv, ConfigureEager, InFallback
<1>2. /\ Shaped(conf') /\ DOMAIN conf' = DOMAIN conf
      /\ \A t \in DOMAIN conf, a \in Attributes :
           /\ <<t, a>> \notin Covered(conf, "eager") => conf'[t][a] = conf[t][a]
           /\ <<t, a>> \in Covered(conf, "eager") /\ Refused(conf, "eager") = {} =>
                conf'[t][a] = Wanted("eager", a)
           /\ conf'[t][a] \in {Wanted("eager", a), conf[t][a]}
  BY <1>1, WrittenEffect
<1>3. Covered(conf, "eager") \subseteq Covered(before, config.backend)
  BY <1>1, FallbackIsCovered
<1>4. \A t \in DOMAIN conf', a \in Attributes :
        <<t, a>> \notin Covered(before, config.backend) => conf'[t][a] = before[t][a]
  BY <1>1, <1>2, <1>3 DEF CallInv
<1>5. CallInv'
  BY <1>1, <1>4 DEF CallInv, InFallback, Snapshot, Covered, Places
<1>6. ASSUME pc' = "forward_eager"
      PROVE  RunsUnder("eager")'
  <2>1. ASSUME NEW t \in DOMAIN conf
        PROVE  conf'[t]["use_cache"] \in {"off", Missing}
    BY <1>1, <1>2 DEF Attributes, CallInv, Wanted
  <2>2. ASSUME NEW t \in DOMAIN conf, NEW a \in Attributes \ {"use_cache"}
        PROVE  conf'[t][a] = "eager"
    <3>1. <<t, a>> \in Covered(conf, "eager")
      <4>1. "eager" # "model_default" /\ a \in Attributes /\ a # "use_cache"
        OBVIOUS
      <4> QED
        BY <4>1, CoveredPlaces
    <3> QED
      BY <1>1, <1>2, <1>6, <3>1 DEF Wanted
  <2> QED
    BY <1>2, <2>1, <2>2 DEF RunsUnder
<1> QED
  BY <1>1, <1>2, <1>5, <1>6 DEF RestoreInv, ConfigRestored, ForwardSeesPolicy, Inside, Shaped

\* Leaving the fallback writes places that the call has saved.
LEMMA RestoreEagerKeepsInv ==
    ASSUME RestoreInv, RestoreEager
    PROVE  RestoreInv'
<1>1. /\ pc = "restore_eager" /\ CallInv /\ DOMAIN conf = DOMAIN before
      /\ conf' = Restored(conf, inner)
      /\ pc' \in {"examine", "restore"}
      /\ UNCHANGED <<config, saved, before, torn>>
      /\ DOMAIN inner \subseteq Covered(before, config.backend)
  BY DEF RestoreInv, CallInv, RestoreEager, InFallback
<1>2. /\ Shaped(conf') /\ DOMAIN conf' = DOMAIN conf
      /\ \A t \in DOMAIN conf, a \in Attributes :
           <<t, a>> \notin DOMAIN inner => conf'[t][a] = conf[t][a]
  BY <1>1, RestoredEffect
<1>3. CallInv'
  BY <1>1, <1>2 DEF CallInv, InFallback, Snapshot, Covered, Places
<1> QED
  BY <1>1, <1>2, <1>3 DEF RestoreInv, ConfigRestored, ForwardSeesPolicy, Inside, Shaped

\* The end of the call: what it saved is put back, the rest never changed.
LEMMA RestoreKeepsInv ==
    ASSUME RestoreInv, Restore
    PROVE  RestoreInv'
<1>1. /\ pc = "restore" /\ CallInv /\ DOMAIN conf = DOMAIN before /\ Shaped(before)
      /\ conf' = Restored(conf, saved) /\ pc' = "idle" /\ before' = before
      /\ saved = Snapshot(before, config.backend)
  BY DEF RestoreInv, CallInv, Restore
<1>2. Shaped(conf') /\ DOMAIN conf' = DOMAIN before
  BY <1>1, RestoredEffect
<1>3. ASSUME NEW t \in DOMAIN before, NEW a \in Attributes
      PROVE  conf'[t][a] = before[t][a]
  <2>1. conf'[t][a] = IF <<t, a>> \in Covered(before, config.backend)
                      THEN before[t][a] ELSE conf[t][a]
    BY <1>1, RestoredEffect, SnapshotEffect
  <2> QED
    BY <1>1, <2>1 DEF CallInv
<1>4. conf' = before
  BY <1>1, <1>2, <1>3, SamePlaces
<1> QED
  BY <1>1, <1>2, <1>4 DEF RestoreInv, ConfigRestored, ForwardSeesPolicy, Shaped

\* Every step keeps the invariant.
LEMMA StepKeepsInv == RestoreInv /\ [Next]_vars => RestoreInv'
<1>1. SUFFICES ASSUME RestoreInv, [Next]_vars PROVE RestoreInv'
  OBVIOUS
<1>2. CASE UNCHANGED vars
  BY <1>1, <1>2 DEF vars, RestoreInv, CallInv, ConfigRestored, ForwardSeesPolicy, RunsUnder,
                    Shaped, Snapshot, Covered, Places
<1>3. ASSUME NEW c \in Confs, Reconfigure(c) PROVE RestoreInv'
  BY <1>1, <1>3, ConfsAreShaped
  DEF Reconfigure, RestoreInv, ConfigRestored, ForwardSeesPolicy, Shaped
<1>4. ASSUME NEW c \in Config, Score(c) PROVE RestoreInv'
  BY <1>1, <1>4, ScoreKeepsInv
<1>5. CASE ForwardEager \/ ExamineRaises \/ Examine
  <2>1. /\ pc # "idle" /\ pc' \in {"restore_eager", "restore"}
        /\ pc' = "restore_eager" => pc = "forward_eager" /\ inner' = inner
        /\ UNCHANGED <<conf, config, saved, before, torn>>
    BY <1>5 DEF ForwardEager, ExamineRaises, Examine
  <2>2. CallInv'
    BY <1>1, <2>1 DEF RestoreInv, CallInv, InFallback, Snapshot, Covered, Places
  <2> QED
    BY <1>1, <2>1, <2>2 DEF RestoreInv, ConfigRestored, ForwardSeesPolicy, Inside, Shaped
<1> QED
  BY <1>1, <1>2, <1>3, <1>4, <1>5, ConfigureKeepsInv, ForwardKeepsInv, ConfigureEagerKeepsInv,
     RestoreEagerKeepsInv, RestoreKeepsInv
  DEF Next, Progress

\* Whatever raises in a call, the model's configuration comes back as the call
\* found it, unless the model refused an assignment of the outer context.
THEOREM ConfigComesBack == Spec => []ConfigRestored
<1>1. RestoreInv => ConfigRestored
  BY DEF RestoreInv
<1> QED
  BY <1>1, InitRestores, StepKeepsInv, PTL DEF Spec

\* Every forward pass runs with the cache off on every object and under the
\* backend asked for, or under eager after a failure of FlashAttention.
THEOREM PassesSeePolicy == Spec => []ForwardSeesPolicy
<1>1. RestoreInv => ForwardSeesPolicy
  BY DEF RestoreInv
<1> QED
  BY <1>1, InitRestores, StepKeepsInv, PTL DEF Spec

-----------------------------------------------------------------------------
(***************************************************************************)
(* What a result reports.                                                  *)
(***************************************************************************)
\* The outputs are of a pass with the cache off and under a backend.
RanUnder(backend) ==
    /\ ~ outputs.cacheOn
    /\ backend # "model_default" => outputs.attentions \subseteq {backend}

\* They are of the pass the policy names.
OfPolicy ==
    /\ RanUnder(policy.backend)
    /\ policy.fallback <=> policy.backend # config.backend

\* Until the policy names the pass whose outputs there are, there are none; then
\* it does not change.
ReportInv ==
    /\ pc # "idle" => result = None
    /\ pc \in {"configure", "forward", "configure_eager", "forward_eager"} => outputs = None
    /\ pc \in {"forward"} \cup InFallback =>
         policy = [backend |-> config.backend, fallback |-> FALSE]
    /\ pc = "restore_eager" /\ outputs # None => RanUnder("eager")
    /\ pc = "examine" => OfPolicy
    /\ pc = "restore" /\ outputs # None => OfPolicy /\ (config.rejectKv => ~ outputs.kv)
    /\ ResultIsOfItsForward

\* A pass that sees the policy of its backend gives outputs of that backend.
LEMMA PassRuns ==
    ASSUME NEW b, RunsUnder(b), RunForward PROVE RanUnder(b)'
<1>1. /\ outputs'.attentions = {conf[t]._attn_implementation : t \in DOMAIN conf}
      /\ outputs'.cacheOn = \E t \in DOMAIN conf : conf[t].use_cache = "on"
  BY DEF RunForward
<1>2. ~ (\E t \in DOMAIN conf : conf[t].use_cache = "on")
  BY ConfigurationsAssumption DEF RunsUnder
<1>3. b # "model_default" => \A t \in DOMAIN conf : conf[t]._attn_implementation = b
  BY DEF RunsUnder, Attributes
<1> QED
  BY <1>1, <1>2, <1>3 DEF RanUnder

LEMMA InitReports == Init => ReportInv
BY DEF Init, ReportInv, InFallback, ResultIsOfItsForward

LEMMA ReportStep == RestoreInv /\ ReportInv /\ [Next]_vars => ReportInv'
<1> SUFFICES ASSUME RestoreInv, ReportInv, [Next]_vars PROVE ReportInv'
  OBVIOUS
<1>1. CASE UNCHANGED vars
  BY <1>1 DEF vars, ReportInv, ResultIsOfItsForward, OfPolicy, RanUnder
<1>2. ASSUME \/ \E c \in Confs : Reconfigure(c)
             \/ \E c \in Config : Score(c)
      PROVE  ReportInv'
  BY <1>2 DEF Reconfigure, Score, ReportInv, InFallback, ResultIsOfItsForward
<1>3. CASE Configure
  BY <1>3 DEF Configure, ReportInv, InFallback, ResultIsOfItsForward
<1>4. CASE ForwardReturns
  <2>1. /\ pc = "forward" /\ pc' = "examine" /\ UNCHANGED <<policy, config, result>>
        /\ policy = [backend |-> config.backend, fallback |-> FALSE]
        /\ RunsUnder(config.backend)
    BY <1>4 DEF ForwardReturns, ReportInv, RestoreInv, ForwardSeesPolicy
  <2>2. RanUnder(config.backend)'
    BY <1>4, <2>1, PassRuns DEF ForwardReturns
  <2>3. OfPolicy'
    BY <2>1, <2>2 DEF OfPolicy, RanUnder
  <2> QED
    BY <2>1, <2>3 DEF ReportInv, InFallback, ResultIsOfItsForward
<1>5. CASE \E fallback \in BOOLEAN : ForwardRaises(fallback)
  BY <1>5 DEF ForwardRaises, ReportInv, InFallback, ResultIsOfItsForward
<1>6. CASE ConfigureEager
  BY <1>6 DEF ConfigureEager, ReportInv, InFallback, ResultIsOfItsForward
<1>7. CASE ForwardEager
  <2>1. /\ pc = "forward_eager" /\ pc' = "restore_eager" /\ UNCHANGED <<policy, config, result>>
        /\ RunsUnder("eager")
        /\ RunForward \/ outputs' = None
    BY <1>7 DEF ForwardEager, RestoreInv, ForwardSeesPolicy
  <2>2. outputs' # None => RanUnder("eager")'
    BY <2>1, PassRuns
  <2> QED
    BY <2>1, <2>2 DEF ReportInv, InFallback, ResultIsOfItsForward
<1>8. CASE RestoreEager
  <2>1. /\ pc = "restore_eager" /\ UNCHANGED <<config, outputs, result>>
        /\ config.backend = "flash_attention_2"
    BY <1>8 DEF RestoreEager, RestoreInv, CallInv, InFallback
  <2>2. CASE outputs = None
    BY <1>8, <2>1, <2>2 DEF RestoreEager, ReportInv, InFallback, ResultIsOfItsForward
  <2>3. CASE outputs # None
    <3>1. pc' = "examine" /\ policy' = [backend |-> "eager", fallback |-> TRUE]
      BY <1>8, <2>3 DEF RestoreEager
    <3>2. RanUnder("eager")'
      BY <2>1, <2>3 DEF ReportInv, RanUnder
    <3>3. OfPolicy'
      BY <2>1, <3>1, <3>2 DEF OfPolicy, RanUnder
    <3> QED
      BY <2>1, <3>1, <3>3 DEF ReportInv, InFallback, ResultIsOfItsForward
  <2> QED
    BY <2>2, <2>3
<1>9. CASE ExamineRaises
  BY <1>9 DEF ExamineRaises, ReportInv, InFallback, ResultIsOfItsForward
<1>10. CASE Examine
  <2>1. OfPolicy'
    BY <1>10 DEF Examine, ReportInv, OfPolicy, RanUnder
  <2> QED
    BY <1>10, <2>1 DEF Examine, ReportInv, InFallback, ResultIsOfItsForward
<1>11. CASE Restore
  <2>1. /\ pc = "restore" /\ pc' = "idle"
        /\ UNCHANGED <<config, policy, outputs>>
        /\ outputs = None => result' = None
        /\ outputs # None => result'.policy = policy /\ result'.kv = outputs.kv
    BY <1>11 DEF Restore
  <2>2. outputs # None => OfPolicy /\ (config.rejectKv => ~ outputs.kv)
    BY <2>1 DEF ReportInv
  <2>3. ResultIsOfItsForward'
    BY <2>1, <2>2 DEF ResultIsOfItsForward, OfPolicy, RanUnder
  <2> QED
    BY <2>1, <2>3 DEF ReportInv, InFallback
<1> QED
  BY <1>1, <1>2, <1>3, <1>4, <1>5, <1>6, <1>7, <1>8, <1>9, <1>10, <1>11 DEF Next, Progress

\* What a result says of its pass is how that pass ran: backend, fallback, cache.
THEOREM ResultsOfTheirForward == Spec => []ResultIsOfItsForward
<1>1. ReportInv => ResultIsOfItsForward
  BY DEF ReportInv
<1> QED
  BY <1>1, InitRestores, StepKeepsInv, InitReports, ReportStep, PTL DEF Spec

-----------------------------------------------------------------------------
(***************************************************************************)
(* The paged cache.                                                        *)
(***************************************************************************)
\* A set of numbers has a least one.
LEMMA LeastOf ==
    ASSUME NEW S \in SUBSET Nat, S # {} PROVE \E i \in S : \A j \in S : i <= j
<1>1. \E i \in S : \A j \in S : ~ (<<j, i>> \in OpToRel(<, Nat))
  BY NatLessThanWellFounded, WFMin
<1>2. ASSUME NEW i \in Nat, NEW j \in Nat, j < i PROVE <<j, i>> \in OpToRel(<, Nat)
  BY <1>2, Zenon DEF OpToRel
<1>3. PICK i \in S : \A j \in S : ~ (<<j, i>> \in OpToRel(<, Nat))
  BY <1>1
<1>4. \A j \in S : ~ (j < i)
  BY <1>2, <1>3, Zenon
<1> QED
  BY <1>4

\* Division as blocks_per_sequence and an engine's slots use it.
LEMMA QuotientBounds ==
    ASSUME NEW a \in Int, NEW s \in Nat \ {0}
    PROVE  a \div s \in Int /\ s * (a \div s) <= a /\ a < s * (a \div s) + s
OBVIOUS

LEMMA BlocksAreNumbers ==
    ASSUME NEW length \in Nat, NEW s \in Nat \ {0} PROVE BlocksOf(length, s) \in Nat
BY DEF BlocksOf

LEMMA TokenInItsBlocks ==
    ASSUME NEW length \in Nat, NEW s \in Nat \ {0}, NEW k \in 0 .. length - 1
    PROVE  k \div s \in Nat /\ k \div s < BlocksOf(length, s)
<1> DEFINE q == k \div s
           p == (length + s - 1) \div s
<1>1. q \in Nat /\ p \in Int
  OBVIOUS
<1>2. s * q <= k /\ length + s - 1 < s * p + s
  BY QuotientBounds
<1> HIDE DEF q, p
<1>3. s * q < s * p
  BY <1>1, <1>2
<1>4. q < p
  <2> SUFFICES ASSUME q >= p PROVE FALSE
    BY <1>1
  <2>1. s * q >= s * p
    BY <1>1
  <2> QED
    BY <1>1, <1>3, <2>1
<1> QED
  BY <1>1, <1>4 DEF q, p, BlocksOf

LEMMA SamePosition ==
    ASSUME NEW k \in Nat, NEW l \in Nat, NEW s \in Nat \ {0}, k \div s = l \div s, k % s = l % s
    PROVE  k = l
OBVIOUS

\* The rows of a batch, and the number of blocks of its first rows.
LEMMA BatchType ==
    ASSUME NEW b \in Batch
    PROVE  /\ Len(b.lengths) \in Nat \ {0} /\ DOMAIN b.lengths = 1 .. Len(b.lengths)
           /\ \A row \in DOMAIN b.lengths : b.lengths[row] \in Nat
           /\ b.blockSize \in Nat \ {0}
<1>1. PICK n \in 1 .. MaxRows : b.lengths \in [1 .. n -> Lengths]
  BY DEF Batch
<1>2. n \in Nat \ {0} /\ Len(b.lengths) = n /\ DOMAIN b.lengths = 1 .. n
  BY <1>1, PagedAssumption
<1>3. \A row \in 1 .. n : b.lengths[row] \in Nat
  BY <1>1, PagedAssumption
<1>4. b.blockSize \in Nat \ {0}
  BY PagedAssumption DEF Batch
<1> QED
  BY <1>2, <1>3, <1>4

LEMMA BlocksAddUp ==
    ASSUME NEW b \in Batch
    PROVE  /\ BlocksOfFirst(b)[0] = 0
           /\ \A n \in 0 .. Len(b.lengths) : BlocksOfFirst(b)[n] \in Nat
           /\ \A n \in 1 .. Len(b.lengths) :
                BlocksOfFirst(b)[n] = BlocksOfFirst(b)[n - 1] + BlocksOf(b.lengths[n], b.blockSize)
<1> DEFINE N == Len(b.lengths)
           count(n) == BlocksOf(b.lengths[n], b.blockSize)
           Sums(g, n) == /\ g \in [0 .. n -> Nat]
                         /\ g[0] = 0
                         /\ \A i \in 1 .. n : g[i] = g[i - 1] + count(i)
           short == {n \in 0 .. N : ~ \E g : Sums(g, n)}
<1>1. N \in Nat /\ \A n \in 1 .. N : count(n) \in Nat
  BY BatchType, BlocksAreNumbers
<1> HIDE DEF N, count
<1>2. short = {}
  <2> SUFFICES ASSUME short # {} PROVE FALSE
    OBVIOUS
  <2>1. PICK n \in short : \A m \in short : n <= m
    <3>1. short \in SUBSET Nat
      BY <1>1
    <3> HIDE DEF short
    <3> QED
      BY <3>1, LeastOf
  <2>2. n # 0
    <3>1. Sums([i \in 0 .. 0 |-> 0], 0)
      OBVIOUS
    <3> QED
      BY <3>1, <2>1
  <2>3. n - 1 \in 0 .. N /\ n \in 1 .. N
    BY <1>1, <2>1, <2>2
  <2>4. PICK g : Sums(g, n - 1)
    BY <2>1, <2>3
  <2> DEFINE h == [i \in 0 .. n |-> IF i = n THEN g[n - 1] + count(n) ELSE g[i]]
  <2>5. Sums(h, n)
    BY <1>1, <2>3, <2>4
  <2> QED
    BY <2>1, <2>5
<1>3. PICK g : Sums(g, N)
  <2>1. N \in 0 .. N
    BY <1>1
  <2> HIDE DEF Sums
  <2> QED
    BY <1>2, <2>1
<1> DEFINE step1(f, n) == IF n = 0 THEN 0 ELSE f[n - 1] + count(n)
<1>4. g = [n \in 0 .. N |-> step1(g, n)]
  BY <1>1, <1>3
<1>5. BlocksOfFirst(b) = CHOOSE f : f = [n \in 0 .. N |-> step1(f, n)]
  BY Zenon DEF BlocksOfFirst, N, count
<1>6. BlocksOfFirst(b) = [n \in 0 .. N |-> step1(BlocksOfFirst(b), n)]
  BY <1>4, <1>5, Zenon
<1> DEFINE total == BlocksOfFirst(b)
           untyped == {n \in 0 .. N : total[n] \notin Nat}
<1> HIDE DEF total
<1>7. /\ total[0] = 0
      /\ \A n \in 1 .. N : total[n] = total[n - 1] + count(n)
  BY <1>1, <1>6 DEF total
<1>8. untyped = {}
  <2> SUFFICES ASSUME untyped # {} PROVE FALSE
    OBVIOUS
  <2>1. PICK n \in untyped : \A m \in untyped : n <= m
    <3>1. untyped \in SUBSET Nat
      BY <1>1
    <3> HIDE DEF untyped
    <3> QED
      BY <3>1, LeastOf
  <2>2. n # 0 /\ n \in 1 .. N /\ n - 1 \in 0 .. N
    BY <1>1, <1>7, <2>1
  <2>3. total[n - 1] \in Nat
    BY <1>1, <2>1, <2>2
  <2> QED
    BY <1>1, <1>7, <2>1, <2>2, <2>3
<1> QED
  BY <1>7, <1>8 DEF total, N, count

\* The blocks of more rows are no fewer.
LEMMA BlocksAscend ==
    ASSUME NEW b \in Batch, NEW m \in 0 .. Len(b.lengths), NEW n \in m .. Len(b.lengths)
    PROVE  BlocksOfFirst(b)[m] <= BlocksOfFirst(b)[n]
<1> DEFINE N == Len(b.lengths)
           total == BlocksOfFirst(b)
           falls == {i \in m .. N : total[i] < total[m]}
<1>1. N \in Nat /\ \A i \in 0 .. N : total[i] \in Nat
  BY BatchType, BlocksAddUp
<1>2. \A i \in 1 .. N : total[i - 1] <= total[i]
  <2> TAKE i \in 1 .. N
  <2>1. total[i] = total[i - 1] + BlocksOf(b.lengths[i], b.blockSize)
    BY BlocksAddUp
  <2>2. b.lengths[i] \in Nat /\ b.blockSize \in Nat \ {0} /\ i - 1 \in 0 .. N
    BY <1>1, BatchType
  <2>3. BlocksOf(b.lengths[i], b.blockSize) \in Nat /\ total[i - 1] \in Nat
    BY <1>1, <2>2, BlocksAreNumbers
  <2> HIDE DEF total
  <2> QED
    BY <2>1, <2>3
<1> HIDE DEF N, total
<1>3. falls = {}
  <2> SUFFICES ASSUME falls # {} PROVE FALSE
    OBVIOUS
  <2>1. PICK i \in falls : \A j \in falls : i <= j
    <3>1. falls \in SUBSET Nat
      BY <1>1 DEF N
    <3> HIDE DEF falls
    <3> QED
      BY <3>1, LeastOf
  <2>2. m \in 0 .. N /\ i \in m .. N /\ total[i] < total[m]
    BY <2>1 DEF N
  <2>3. i # m
    BY <1>1, <2>2
  <2>4. i - 1 \in m .. N /\ i \in 1 .. N /\ i - 1 \in 0 .. N
    BY <1>1, <2>2, <2>3
  <2>5. total[i - 1] < total[m]
    BY <1>1, <1>2, <2>2, <2>4
  <2> QED
    BY <1>1, <2>1, <2>4, <2>5
<1>4. n \in m .. N /\ m \in 0 .. N
  BY DEF N
<1> QED
  BY <1>1, <1>3, <1>4 DEF total

\* What a row of the block table holds: the blocks after those of the rows before.
RowOf(b, row) ==
    [k \in 1 .. BlocksOf(b.lengths[row], b.blockSize) |-> BlocksOfFirst(b)[row - 1] + k - 1]

\* The rows written so far, up to the cursor.
TableInv ==
    /\ step \in {"idle", "fill", "forward"}
    /\ step = "idle" => table = <<>> /\ cursor = 0
    /\ step # "idle" =>
         /\ batch \in Batch
         /\ ReservedBlocks(batch) >= RequiredBlocks(batch)
         /\ table \in Seq(Seq(Nat))
         /\ cursor = BlocksOfFirst(batch)[Len(table)]
         /\ \A row \in DOMAIN table : table[row] = RowOf(batch, row)
    /\ step = "fill" => Len(table) < Len(batch.lengths)
    /\ step = "forward" => Len(table) = Len(batch.lengths)

LEMMA ScorePagedFills == ASSUME TableInv, NEW b \in Batch, ScorePaged(b) PROVE TableInv'
<1>1. CASE UNCHANGED <<step, batch>>
  BY <1>1 DEF ScorePaged, TableInv
<1>2. CASE /\ step' = "fill" /\ batch' = b
           /\ ~ (ReservedBlocks(b) < RequiredBlocks(b))
  <2>1. table' = <<>> /\ cursor' = 0
    BY DEF ScorePaged, TableInv
  <2>2. /\ Len(b.lengths) \in Nat \ {0} /\ BlocksOfFirst(b)[0] = 0
        /\ RequiredBlocks(b) \in Nat
    BY BatchType, BlocksAddUp DEF RequiredBlocks
  <2>3. ReservedBlocks(b) \in Nat
    BY <2>2, PagedAssumption DEF ReservedBlocks, Batch
  <2>4. ReservedBlocks(b) >= RequiredBlocks(b)
    BY <1>2, <2>2, <2>3
  <2>5. <<>> \in Seq(Seq(Nat)) /\ Len(<<>>) = 0 /\ DOMAIN <<>> = {}
    OBVIOUS
  <2> QED
    BY <1>2, <2>1, <2>2, <2>4, <2>5 DEF TableInv
<1> QED
  BY <1>1, <1>2 DEF ScorePaged

LEMMA FillRowFills == ASSUME TableInv, FillRow PROVE TableInv'
<1> DEFINE n == Len(table) + 1
           count == BlocksOf(batch.lengths[n], batch.blockSize)
           row == [k \in 1 .. count |-> cursor + k - 1]
           total == BlocksOfFirst(batch)
<1>1. /\ step = "fill" /\ batch \in Batch /\ table \in Seq(Seq(Nat)) /\ cursor = total[Len(table)]
      /\ Len(table) < Len(batch.lengths) /\ batch' = batch
      /\ table' = Append(table, row) /\ cursor' = cursor + count
      /\ step' = IF Len(table') = Len(batch.lengths) THEN "forward" ELSE "fill"
  BY DEF FillRow, TableInv
<1>2. Len(table) \in Nat /\ n \in 1 .. Len(batch.lengths) /\ Len(table) \in 0 .. Len(batch.lengths)
      /\ Len(batch.lengths) \in Nat
  BY <1>1, BatchType
<1>3. total[n] = total[n - 1] + count /\ cursor \in Nat /\ n - 1 = Len(table)
  BY <1>1, <1>2, BlocksAddUp
<1>4. count \in Nat
  BY <1>1, <1>2, BatchType, BlocksAreNumbers
<1>5. row = RowOf(batch, n)
  BY <1>1, <1>3 DEF RowOf
<1>6. row \in Seq(Nat)
  <2> HIDE DEF count
  <2> QED
    BY <1>3, <1>4
<1> HIDE DEF row, total, count
<1>7. /\ table' \in Seq(Seq(Nat)) /\ Len(table') = n /\ DOMAIN table' = 1 .. n
      /\ DOMAIN table = 1 .. Len(table)
      /\ table'[n] = row /\ \A i \in 1 .. Len(table) : table'[i] = table[i]
  BY <1>1, <1>2, <1>6
<1>8. \A i \in 1 .. n : table'[i] = RowOf(batch, i)
  <2>1. \A i \in 1 .. Len(table) : table[i] = RowOf(batch, i)
    BY <1>1, <1>7 DEF TableInv
  <2> TAKE i \in 1 .. n
  <2>2. i = n \/ i \in 1 .. Len(table)
    BY <1>2
  <2> HIDE DEF n
  <2> QED
    BY <1>5, <1>7, <2>1, <2>2
<1>9. cursor' = total[n]
  BY <1>1, <1>3
<1>10. ReservedBlocks(batch) >= RequiredBlocks(batch)
  BY <1>1 DEF TableInv
<1> HIDE DEF n
<1>11. n <= Len(batch.lengths)
  BY <1>2
<1> QED
  BY <1>1, <1>2, <1>7, <1>8, <1>9, <1>10, <1>11 DEF TableInv, total

\* A token's block is one of its row's, and below those of the rows after it.
LEMMA SlotInRow ==
    ASSUME TableInv, step = "forward", NEW row \in DOMAIN batch.lengths,
           NEW k \in 0 .. batch.lengths[row] - 1
    PROVE  /\ k \div batch.blockSize + 1 \in DOMAIN table[row]
           /\ SlotOf(<<row, k>>) =
                <<BlocksOfFirst(batch)[row - 1] + k \div batch.blockSize, k % batch.blockSize>>
           /\ BlocksOfFirst(batch)[row - 1] + k \div batch.blockSize < BlocksOfFirst(batch)[row]
           /\ BlocksOfFirst(batch)[row - 1] \in Nat /\ k \div batch.blockSize \in Nat
<1> DEFINE s == batch.blockSize
           length == batch.lengths[row]
           count == BlocksOf(length, s)
           q == k \div s
<1>1. /\ batch \in Batch /\ table \in Seq(Seq(Nat)) /\ Len(table) = Len(batch.lengths)
      /\ \A r \in DOMAIN table : table[r] = RowOf(batch, r)
  BY DEF TableInv
<1>2. /\ row \in 1 .. Len(batch.lengths) /\ Len(batch.lengths) \in Nat
      /\ length \in Nat /\ s \in Nat \ {0}
  BY <1>1, BatchType
<1>3. table[row] = RowOf(batch, row)
  BY <1>1, <1>2
<1>4. k \in Nat /\ q \in Nat /\ q < count /\ count \in Nat
  <2>1. k \in 0 .. length - 1
    OBVIOUS
  <2>2. count \in Nat
    BY <1>2, BlocksAreNumbers
  <2>3. q \in Nat /\ q < count
    BY <1>2, <2>1, TokenInItsBlocks
  <2>4. k \in Nat
    BY <1>2, <2>1
  <2> QED
    BY <2>2, <2>3, <2>4
<1>5. /\ BlocksOfFirst(batch)[row] = BlocksOfFirst(batch)[row - 1] + count
      /\ BlocksOfFirst(batch)[row - 1] \in Nat
  BY <1>1, <1>2, BlocksAddUp
<1> HIDE DEF q, count
<1>6. q + 1 \in 1 .. count
  BY <1>4
<1>7. table[row][q + 1] = BlocksOfFirst(batch)[row - 1] + q
  <2>1. table[row][q + 1] = BlocksOfFirst(batch)[row - 1] + (q + 1) - 1
    BY <1>3, <1>6 DEF RowOf, count
  <2> QED
    BY <1>4, <1>5, <2>1
<1>8. DOMAIN table[row] = 1 .. count
  BY <1>3 DEF RowOf, count
<1>9. SlotOf(<<row, k>>) = <<table[row][q + 1], k % s>>
  BY DEF SlotOf, q
<1> QED
  BY <1>4, <1>5, <1>6, <1>7, <1>8, <1>9 DEF q

LEMMA TableGivesSlots == TableInv => TokensHaveSlots
<1> SUFFICES ASSUME TableInv, step = "forward"
             PROVE  /\ \A t \in Tokens(batch) :
                         /\ t[2] \div batch.blockSize + 1 \in DOMAIN table[t[1]]
                         /\ SlotOf(t)[1] < ReservedBlocks(batch)
                    /\ \A t, u \in Tokens(batch) : SlotOf(t) = SlotOf(u) => t = u
  BY DEF TokensHaveSlots
<1> DEFINE total == BlocksOfFirst(batch)
           s == batch.blockSize
           N == Len(batch.lengths)
<1>1. /\ batch \in Batch /\ N \in Nat /\ s \in Nat \ {0}
      /\ DOMAIN batch.lengths = 1 .. N /\ \A row \in 1 .. N : batch.lengths[row] \in Nat
      /\ \A n \in 0 .. N : total[n] \in Nat
      /\ ReservedBlocks(batch) >= total[N]
  BY BatchType, BlocksAddUp DEF TableInv, RequiredBlocks
<1>2. ReservedBlocks(batch) \in Nat
  <2>1. batch.blocks \in (Nat \ {0}) \cup {None}
    BY <1>1, PagedAssumption DEF Batch
  <2>2. RequiredBlocks(batch) \in Nat
    BY <1>1 DEF RequiredBlocks
  <2> QED
    BY <2>1, <2>2 DEF ReservedBlocks
<1>3. \A t \in Tokens(batch) : \E row \in 1 .. N : \E k \in 0 .. batch.lengths[row] - 1 : t = <<row, k>>
  BY <1>1 DEF Tokens
<1>4. ASSUME NEW row \in 1 .. N, NEW k \in 0 .. batch.lengths[row] - 1
      PROVE  /\ k \div s + 1 \in DOMAIN table[row]
             /\ SlotOf(<<row, k>>) = <<total[row - 1] + k \div s, k % s>>
             /\ total[row - 1] + k \div s < total[row]
             /\ k \div s \in Nat /\ k \in Nat /\ total[row - 1] \in Nat /\ total[row] \in Nat
  <2>1. row \in DOMAIN batch.lengths /\ row \in 0 .. N /\ k \in Nat
    BY <1>1
  <2>2. total[row] \in Nat
    BY <1>1, <2>1
  <2> QED
    BY <2>1, <2>2, SlotInRow
<1>5. ASSUME NEW row \in 1 .. N, NEW k \in 0 .. batch.lengths[row] - 1
      PROVE  SlotOf(<<row, k>>)[1] < ReservedBlocks(batch)
  <2>1. row \in 0 .. N /\ N \in row .. N
    BY <1>1
  <2>2. total[row] <= total[N] /\ total[N] \in Nat
    BY <1>1, <2>1, BlocksAscend
  <2>3. SlotOf(<<row, k>>)[1] = total[row - 1] + k \div s
    BY <1>4
  <2>4. /\ total[row - 1] + k \div s < total[row]
        /\ total[row - 1] \in Nat /\ k \div s \in Nat /\ total[row] \in Nat
    BY <1>4
  <2>5. ReservedBlocks(batch) >= total[N]
    BY <1>1
  <2> HIDE DEF total, s, N
  <2> QED
    BY <1>2, <2>2, <2>3, <2>4, <2>5
<1>6. ASSUME NEW row \in 1 .. N, NEW k \in 0 .. batch.lengths[row] - 1,
             NEW other \in 1 .. N, NEW l \in 0 .. batch.lengths[other] - 1,
             SlotOf(<<row, k>>) = SlotOf(<<other, l>>)
      PROVE  ~ (row < other)
  <2> SUFFICES ASSUME row < other PROVE FALSE
    OBVIOUS
  <2>1. row \in 0 .. N /\ other - 1 \in row .. N
    BY <1>1
  <2>2. total[row] <= total[other - 1]
    BY <1>1, <2>1, BlocksAscend
  <2>3. total[row - 1] + k \div s = total[other - 1] + l \div s
    BY <1>4, <1>6
  <2>4. /\ total[row - 1] + k \div s < total[row]
        /\ l \div s \in Nat /\ k \div s \in Nat
        /\ total[row - 1] \in Nat /\ total[row] \in Nat /\ total[other - 1] \in Nat
    BY <1>4
  <2> HIDE DEF total, s, N
  <2> QED
    BY <2>2, <2>3, <2>4
<1>7. ASSUME NEW row \in 1 .. N, NEW k \in 0 .. batch.lengths[row] - 1,
             NEW other \in 1 .. N, NEW l \in 0 .. batch.lengths[other] - 1,
             SlotOf(<<row, k>>) = SlotOf(<<other, l>>)
      PROVE  row = other /\ k = l
  <2>1. row = other
    <3>1. ~ (row < other) /\ ~ (other < row)
      BY <1>6, <1>7
    <3> QED
      BY <1>1, <3>1
  <2>2. total[row - 1] + k \div s = total[row - 1] + l \div s /\ k % s = l % s
    BY <1>4, <1>7, <2>1
  <2>3. k \div s \in Nat /\ l \div s \in Nat /\ k \in Nat /\ l \in Nat /\ total[row - 1] \in Nat
    BY <1>4, <2>1
  <2>4. k \div s = l \div s
    <3> HIDE DEF total, s
    <3> QED
      BY <2>2, <2>3
  <2> QED
    BY <1>1, <2>1, <2>2, <2>3, <2>4, SamePosition
<1>8. ASSUME NEW t \in Tokens(batch)
      PROVE  /\ t[2] \div s + 1 \in DOMAIN table[t[1]]
             /\ SlotOf(t)[1] < ReservedBlocks(batch)
  <2>1. PICK row \in 1 .. N : \E k \in 0 .. batch.lengths[row] - 1 : t = <<row, k>>
    BY <1>3
  <2>2. PICK k \in 0 .. batch.lengths[row] - 1 : t = <<row, k>>
    BY <2>1
  <2>3. t[1] = row /\ t[2] = k
    BY <2>2
  <2> QED
    BY <1>4, <1>5, <2>2, <2>3
<1>9. ASSUME NEW t \in Tokens(batch), NEW u \in Tokens(batch), SlotOf(t) = SlotOf(u)
      PROVE  t = u
  <2>1. PICK row \in 1 .. N : \E k \in 0 .. batch.lengths[row] - 1 : t = <<row, k>>
    BY <1>3
  <2>2. PICK k \in 0 .. batch.lengths[row] - 1 : t = <<row, k>>
    BY <2>1
  <2>3. PICK other \in 1 .. N : \E l \in 0 .. batch.lengths[other] - 1 : u = <<other, l>>
    BY <1>3
  <2>4. PICK l \in 0 .. batch.lengths[other] - 1 : u = <<other, l>>
    BY <2>3
  <2> QED
    BY <1>7, <1>9, <2>2, <2>4
<1> QED
  BY <1>8, <1>9

-----------------------------------------------------------------------------
(***************************************************************************)
(* Both scorers on one model.                                              *)
(***************************************************************************)
\* Calls of the one do not disturb what is known of calls of the other.
PagedInv == RestoreInv /\ ReportInv /\ TableInv

LEMMA PagedStep == PagedInv /\ [PagedNext]_<<vars, pagedVars>> => PagedInv'
<1> SUFFICES ASSUME PagedInv, [PagedNext]_<<vars, pagedVars>> PROVE PagedInv'
  OBVIOUS
<1>1. RestoreInv /\ ReportInv /\ TableInv
  BY DEF PagedInv
<1>2. CASE [Next]_vars /\ UNCHANGED <<step, batch, table, cursor>>
  <2>1. RestoreInv' /\ ReportInv'
    BY <1>1, <1>2, StepKeepsInv, ReportStep
  <2>2. TableInv'
    BY <1>1, <1>2 DEF TableInv
  <2> QED
    BY <2>1, <2>2 DEF PagedInv
<1>3. ASSUME NEW b \in Batch, ScorePaged(b) PROVE PagedInv'
  <2>1. /\ pc = "idle" /\ pc' = "idle" /\ result' = None
        /\ UNCHANGED <<conf, before, torn>>
    BY <1>3 DEF ScorePaged
  <2>2. RestoreInv'
    BY <1>1, <2>1 DEF RestoreInv, Shaped, ConfigRestored, ForwardSeesPolicy
  <2>3. ReportInv'
    BY <2>1 DEF ReportInv, InFallback, ResultIsOfItsForward
  <2> QED
    BY <1>1, <1>3, <2>2, <2>3, ScorePagedFills DEF PagedInv
<1>4. CASE FillRow \/ RunPaged
  <2>1. UNCHANGED vars
    BY <1>4 DEF FillRow, RunPaged
  <2>2. RestoreInv' /\ ReportInv'
    BY <1>1, <2>1, StepKeepsInv, ReportStep
  <2>3. TableInv'
    <3>1. RunPaged => TableInv'
      BY DEF RunPaged, TableInv
    <3> QED
      BY <1>1, <1>4, <3>1, FillRowFills
  <2> QED
    BY <2>2, <2>3 DEF PagedInv
<1> QED
  BY <1>2, <1>3, <1>4 DEF PagedNext, PagedProgress, BetweenPaged, pagedVars, Next

LEMMA PagedInvariant == PagedSpec => []PagedInv
<1>1. PagedInit => PagedInv
  BY InitRestores, InitReports DEF PagedInit, PagedInv, TableInv
<1> QED
  BY <1>1, PagedStep, PTL DEF PagedSpec

\* Every token of a batch has a slot of its own in the reserved blocks (block_tables),
\* for any block size, cache and lengths of the rows.
THEOREM TokensAlwaysHaveSlots == PagedSpec => []TokensHaveSlots
<1>1. PagedInv => TokensHaveSlots
  BY TableGivesSlots DEF PagedInv
<1> QED
  BY <1>1, PagedInvariant, PTL

\* What holds of the stateless executor alone holds when the paged baseline scores
\* on the same model between its calls.
THEOREM ScorersShareTheModel ==
    PagedSpec => [](ConfigRestored /\ ForwardSeesPolicy /\ ResultIsOfItsForward)
<1>1. PagedInv => ConfigRestored /\ ForwardSeesPolicy /\ ResultIsOfItsForward
  BY DEF PagedInv, RestoreInv, ReportInv
<1> QED
  BY <1>1, PagedInvariant, PTL
=============================================================================
