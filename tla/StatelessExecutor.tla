--------------------------- MODULE StatelessExecutor ----------------------------
(***************************************************************************)
(* StatelessForwardExecutor.score (rl_engine/executors/                    *)
(* stateless_executor.py): one forward pass of somebody else's model, with *)
(* the model's own configuration objects changed for the time of the pass, *)
(* and a second pass under another attention backend when the first one    *)
(* fails for want of FlashAttention.                                       *)
(*                                                                         *)
(* The model is external: how many configuration objects it has, what is   *)
(* on them, whether they accept every value, whether forward takes the     *)
(* use_cache flag, and whether it returns or raises.  What it returns says *)
(* how it ran.  Tensors are left out.                                      *)
(***************************************************************************)
EXTENDS Naturals, FiniteSets

CONSTANTS
    Configurations,  \* what may be on a configuration object: attribute -> value
    MaxTargets,      \* bound: configuration objects of a model
    Missing,         \* an attribute that is not there
    None

VARIABLES
    model,    \* [refuses, takesFlag]: the wrapped model
    conf,     \* what is on its configuration objects now
    pc,       \* the step score has reached
    config,   \* the StatelessForwardConfig of the call
    saved,    \* the snapshot of the outer context: place -> value
    inner,    \* the snapshot of the fallback's context
    policy,   \* no_cache_policy: the backend, and whether it is a fallback
    outputs,  \* what the forward pass returned, None before or if score raises
    result,   \* what the last call returned, None if it raised
    before,   \* history: conf when the call began
    torn      \* history: configure raised in the outer context of the call

vars == <<model, conf, pc, config, saved, inner, policy, outputs, result, before, torn>>

-----------------------------------------------------------------------------
(***************************************************************************)
(* Configuration objects, by their position in _model_config_targets,      *)
(* which lists no object twice.  A place is an attribute of an object.     *)
(***************************************************************************)
Attributes == {"use_cache", "attn_implementation", "_attn_implementation"}

\* A configuration says of every attribute what is there, or Missing.
ASSUME ConfigurationsAssumption ==
    /\ MaxTargets \in Nat
    /\ Missing # "on"
    /\ \A k \in Configurations : k = [a \in Attributes |-> k[a]]

Backends == {"flash_attention_2", "sdpa", "eager", "model_default"}

Config == [backend : Backends, mode : {"reference", "reward", "both"}, rejectKv : BOOLEAN]

Confs == UNION {[1..n -> Configurations] : n \in 0..MaxTargets}

Places(c) == (DOMAIN c) \X Attributes

\* The places that are changed for a backend.
Covered(c, backend) ==
    {p \in Places(c) : IF p[2] = "use_cache" THEN c[p[1]]["use_cache"] # Missing
                                             ELSE backend # "model_default"}

Wanted(backend, attribute) == IF attribute = "use_cache" THEN "off" ELSE backend

\* The order of the assignments.
Rank(p) == 3 * p[1] + (CASE p[2] = "use_cache" -> 0
                         [] p[2] = "attn_implementation" -> 1
                         [] OTHER -> 2)

\* The assignments the model refuses by raising.
Refused(c, backend) ==
    {p \in Covered(c, backend) : model.refuses = <<p, Wanted(backend, p[2])>>}

\* The places configure_stateless_model gets to.
Reached(c, backend) ==
    {p \in Covered(c, backend) : \A q \in Refused(c, backend) : Rank(p) < Rank(q)}

\* Mutant: only the first object is configured.
WrittenFirstOnly(c, backend) ==
    [t \in DOMAIN c |-> [a \in Attributes |->
       IF t = 1 /\ <<t, a>> \in Reached(c, backend) THEN Wanted(backend, a) ELSE c[t][a]]]

Written(c, backend) ==
    [t \in DOMAIN c |-> [a \in Attributes |->
       IF <<t, a>> \in Reached(c, backend) THEN Wanted(backend, a) ELSE c[t][a]]]

\* Mutant: the attribute of newer models is not saved.
SnapshotPublicOnly(c, backend) ==
    [p \in {q \in Covered(c, backend) : q[2] # "_attn_implementation"} |-> c[p[1]][p[2]]]

\* _model_config_snapshot.
Snapshot(c, backend) == [p \in Covered(c, backend) |-> c[p[1]][p[2]]]

\* _restore_model_config_snapshot.
Restored(c, snapshot) ==
    [t \in DOMAIN c |-> [a \in Attributes |->
       IF <<t, a>> \in DOMAIN snapshot THEN snapshot[<<t, a>>] ELSE c[t][a]]]

NoSnapshot == [p \in {} |-> None]

\* A model refuses nothing, or one value of one attribute.
Refusals ==
    {None} \cup (((1..MaxTargets) \X {"use_cache"}) \X {"off"})
           \cup (((1..MaxTargets) \X (Attributes \ {"use_cache"})) \X (Backends \ {"model_default"}))

Init ==
    /\ model \in [refuses : Refusals, takesFlag : BOOLEAN]
    /\ conf \in Confs
    /\ pc = "idle"
    /\ config = None
    /\ saved = NoSnapshot
    /\ inner = NoSnapshot
    /\ policy = None
    /\ outputs = None
    /\ result = None
    /\ before = conf
    /\ torn = FALSE

-----------------------------------------------------------------------------
(***************************************************************************)
(* score.                                                                  *)
(***************************************************************************)
\* Between calls whoever else uses the model may configure it; of the last call
\* nothing is left then but what its caller keeps.
Reconfigure(c) ==
    /\ pc = "idle"
    /\ DOMAIN c = DOMAIN conf
    /\ conf' = c
    /\ before' = c
    /\ config' = None
    /\ policy' = None
    /\ outputs' = None
    /\ result' = None
    /\ torn' = FALSE
    /\ UNCHANGED <<model, pc, saved, inner>>

\* The inputs are valid; the outer context takes its snapshot.
Score(c) ==
    /\ pc = "idle"
    /\ pc' = "configure"
    /\ config' = c
    /\ saved' = Snapshot(conf, c.backend)
    /\ policy' = None
    /\ outputs' = None
    /\ result' = None
    /\ before' = conf
    /\ torn' = FALSE
    /\ UNCHANGED <<model, conf, inner>>

\* configure_stateless_model, outside the try: nothing is restored if it raises.
Configure ==
    /\ pc = "configure"
    /\ conf' = Written(conf, config.backend)
    /\ IF Refused(conf, config.backend) = {}
       THEN /\ pc' = "forward"
            /\ policy' = [backend |-> config.backend, fallback |-> FALSE]
            /\ UNCHANGED <<saved, torn>>
       ELSE /\ pc' = "idle"
            /\ saved' = NoSnapshot
            /\ torn' = TRUE
            /\ UNCHANGED policy
    /\ UNCHANGED <<model, config, inner, outputs, result, before>>

\* How the model ran, if it returns: with a flag or without, what it was
\* configured to, and whether it returned a cache.  Where forward does not take
\* the flag, _run_no_cache_forward calls it again without.
RunForward ==
    outputs' \in [passed     : {model.takesFlag},
                  attentions : {{conf[t]._attn_implementation : t \in DOMAIN conf}},
                  cacheOn    : {\E t \in DOMAIN conf : conf[t].use_cache = "on"},
                  kv         : BOOLEAN]

ForwardReturns ==
    /\ pc = "forward"
    /\ RunForward
    /\ pc' = "examine"
    /\ UNCHANGED <<model, conf, config, saved, inner, policy, result, before, torn>>

\* _should_fallback_attention_backend looks at the exception only if
\* FlashAttention was asked for.  The fallback's context takes its snapshot of
\* what the outer one has written.
ForwardRaises(fallback) ==
    /\ pc = "forward"
    /\ fallback => config.backend = "flash_attention_2"
    /\ pc' = IF fallback THEN "configure_eager" ELSE "restore"
    /\ inner' = IF fallback THEN Snapshot(conf, "eager") ELSE inner
    /\ UNCHANGED <<model, conf, config, saved, policy, outputs, result, before, torn>>

\* Outside the inner try, inside the outer one.
ConfigureEager ==
    /\ pc = "configure_eager"
    /\ conf' = Written(conf, "eager")
    /\ IF Refused(conf, "eager") = {}
       THEN pc' = "forward_eager" /\ UNCHANGED inner
       ELSE pc' = "restore" /\ inner' = NoSnapshot
    /\ UNCHANGED <<model, config, saved, policy, outputs, result, before, torn>>

\* Mutant: the fallback is tried until it works.
ForwardEagerRetries ==
    /\ pc = "forward_eager"
    /\ RunForward \/ outputs' = None
    /\ pc' = IF outputs' = None THEN "configure_eager" ELSE "restore_eager"
    /\ UNCHANGED <<model, conf, config, saved, inner, policy, result, before, torn>>

ForwardEager ==
    /\ pc = "forward_eager"
    /\ RunForward \/ outputs' = None
    /\ pc' = "restore_eager"
    /\ UNCHANGED <<model, conf, config, saved, inner, policy, result, before, torn>>

\* Mutant: the policy goes on naming the backend that failed.
RestoreEagerKeepsPolicy ==
    /\ pc = "restore_eager"
    /\ conf' = Restored(conf, inner)
    /\ pc' = IF outputs = None THEN "restore" ELSE "examine"
    /\ inner' = NoSnapshot
    /\ UNCHANGED <<model, config, saved, policy, outputs, result, before, torn>>

RestoreEager ==
    /\ pc = "restore_eager"
    /\ conf' = Restored(conf, inner)
    /\ inner' = NoSnapshot
    /\ IF outputs = None
       THEN pc' = "restore" /\ UNCHANGED policy
       ELSE pc' = "examine" /\ policy' = [backend |-> "eager", fallback |-> TRUE]
    /\ UNCHANGED <<model, config, saved, outputs, result, before, torn>>

\* A cache that is not tolerated, outputs without the logits that the mode
\* needs, shapes that do not fit, a reward adapter that raises.
ExamineRaises ==
    /\ pc = "examine"
    /\ outputs' = None
    /\ pc' = "restore"
    /\ UNCHANGED <<model, conf, config, saved, inner, policy, result, before, torn>>

Examine ==
    /\ pc = "examine"
    /\ ~ (config.rejectKv /\ outputs.kv)
    /\ pc' = "restore"
    /\ UNCHANGED <<model, conf, config, saved, inner, policy, outputs, result, before, torn>>

\* The outer finally; then score returns its result or goes on raising.
Restore ==
    /\ pc = "restore"
    /\ conf' = Restored(conf, saved)
    /\ result' = IF outputs = None THEN None
                 ELSE [policy    |-> policy,
                       passed    |-> outputs.passed,
                       kv        |-> outputs.kv,
                       reference |-> config.mode # "reward",
                       reward    |-> config.mode # "reference"]
    /\ pc' = "idle"
    /\ saved' = NoSnapshot
    /\ UNCHANGED <<model, config, inner, policy, outputs, before, torn>>

Progress ==
    \/ Configure \/ ForwardReturns \/ \E fallback \in BOOLEAN : ForwardRaises(fallback)
    \/ ConfigureEager \/ ForwardEager \/ RestoreEager
    \/ ExamineRaises \/ Examine \/ Restore

Next ==
    \/ \E c \in Confs : Reconfigure(c)
    \/ \E c \in Config : Score(c)
    \/ Progress

Spec == Init /\ [][Next]_vars

\* A forward pass returns or raises; every other step is local.
FairSpec == Spec /\ WF_vars(Progress)

-----------------------------------------------------------------------------
(***************************************************************************)
(* Properties.                                                             *)
(***************************************************************************)
Inside == {"forward", "configure_eager", "forward_eager", "restore_eager", "examine", "restore"}

TypeOK ==
    /\ pc \in {"idle", "configure"} \cup Inside
    /\ DOMAIN conf = DOMAIN before
    /\ \A p \in Places(conf) :
         conf[p[1]][p[2]] \in {before[p[1]][p[2]], "off"} \cup Backends
    /\ pc # "idle" => config \in Config
    /\ DOMAIN saved \subseteq (1..MaxTargets) \X Attributes
    /\ DOMAIN inner \subseteq (1..MaxTargets) \X Attributes
    /\ torn \in BOOLEAN

\* A call leaves every configuration object as it found it, attributes that
\* were not there included, whichever forward, fallback or scoring step raised,
\* and also when configuring for the fallback stops half way.  The exception is
\* a model that refuses an assignment of the outer context.
ConfigRestored == pc = "idle" /\ ~ torn => conf = before

RunsUnder(backend) ==
    \A t \in DOMAIN conf :
        /\ conf[t]["use_cache"] \in {"off", Missing}
        /\ \A a \in Attributes \ {"use_cache"} :
             conf[t][a] = IF backend = "model_default" THEN before[t][a] ELSE backend

\* Both passes run with the cache off on every object and under the backend
\* asked for, or under eager after a failure of FlashAttention, whatever was
\* configured before.
ForwardSeesPolicy ==
    /\ pc = "forward" => RunsUnder(config.backend)
    /\ pc = "forward_eager" => config.backend = "flash_attention_2" /\ RunsUnder("eager")

\* What a result reports is how the pass that gave it ran: backend, fallback and
\* cache, although two passes may have run and the second one's configuration
\* is gone.
ResultIsOfItsForward ==
    pc = "idle" /\ result # None =>
        /\ result.policy.fallback <=> result.policy.backend # config.backend
        /\ result.policy.backend # "model_default" =>
             outputs.attentions \subseteq {result.policy.backend}
        /\ ~ outputs.cacheOn
        /\ config.rejectKv => ~ result.kv

\* Every call returns or raises; there is one fallback and no other retry.
ScoreEnds == pc # "idle" ~> pc = "idle"
=============================================================================
