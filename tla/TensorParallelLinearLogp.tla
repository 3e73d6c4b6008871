----------------------- MODULE TensorParallelLinearLogp -----------------------
(***************************************************************************)
(* The linear_logp operator of rl_engine/kernels/ops (pytorch, triton and  *)
(* cuda/loss/linear_logp.py): selected-token log-probabilities from hidden *)
(* states and an LM head, forward and backward, on the ranks of a          *)
(* tensor-parallel group that shard the head along the vocabulary, or on   *)
(* each rank alone.                                                        *)
(*                                                                         *)
(* Every rank makes the same number of calls, each with arguments, a build *)
(* and a cache of its own; nothing in the code makes them agree.  A rank   *)
(* blocks in a collective until the whole group is in it, so a collective  *)
(* is one joint step.  The pc of a rank inside a collective names it;      *)
(* ranks that wait in different ones never proceed (a backend may do worse *)
(* with collectives that do not match).  What the properties need of the   *)
(* ranks is RanksAgree, a condition of theirs and not of the model.  A     *)
(* collective that fails with ranks already in it is not modelled, nor is  *)
(* a group of fewer ranks.                                                 *)
(*                                                                         *)
(* Numbers are abstracted to where they come from: a log-sum-exp or a      *)
(* gradient is the number of times every logit (a token and a global       *)
(* vocabulary row) went into it, a target logit the row it was read from.  *)
(* Row j of rank r's shard is global row start[r] + j of the head.         *)
(***************************************************************************)
EXTENDS Integers, Sequences, FiniteSets, FiniteSetsExt

CONSTANTS
    Ranks,
    Tokens,     \* the rows of hidden, the same on every rank
    Rows,       \* the global vocabulary rows that occur
    Programs,   \* sequences of calls
    Builds,     \* rank -> its operator, extension symbols and environment
    NoSize,     \* global_vocab_size=None
    NoRow,      \* a target logit left at zero
    Nothing     \* no result yet

Call == [group  : BOOLEAN,             \* tp_group is a group of all Ranks
         handle : [Ranks -> Nat],      \* id(tp_group) and the device: an id comes
                                       \* back once its group is gone
         refused : SUBSET Ranks,       \* whose shapes, device or bias do not fit
         start  : [Ranks -> Nat],      \* vocab_start_index
         size   : [Ranks -> Nat],      \* rows of the local weight
         global : [Ranks -> Nat \cup {NoSize}],   \* global_vocab_size
         target : [Tokens -> Int],     \* target_ids
         bf16   : BOOLEAN,             \* _sm90_supported
         bias   : BOOLEAN,
         hgrad  : BOOLEAN,             \* hidden.requires_grad
         wgrad  : BOOLEAN,             \* lm_head_weight.requires_grad
         elems  : Nat \ {0},           \* chunk_elems
         tile   : Nat \ {0}]           \* ..._STREAMING_BWD_VOCAB_TILE

Build == [op : {"sm90", "triton", "native"},
          kernels : SUBSET {"save_probs", "fused_tile", "fused_backward"},
          gathers : {"merge", "merge_list"},   \* all_gather_into_tensor works, or raises at once
          validate : BOOLEAN]          \* _validate_tp_targets_enabled

ASSUME ProgramsAssumption == Programs \subseteq Seq(Call)
ASSUME BuildsAssumption == Builds \subseteq [Ranks -> Build]
ASSUME TokensAssumption == IsFiniteSet(Tokens) /\ Tokens # {} /\ Tokens = 1 .. Cardinality(Tokens)
ASSUME RanksAssumption == IsFiniteSet(Ranks) /\ Ranks # {}
ASSUME RowsAssumption == Rows \subseteq Nat
ASSUME NoneAssumption == NoSize \notin Nat /\ NoRow \notin Int

VARIABLES
    program,  \* the calls every rank makes
    build,    \* what each rank runs
    next,     \* rank -> index of its current or next call
    pc,
    cache,    \* rank -> entries of its _TP_VOCAB_PARTITION_CACHE
    cursor,   \* rank -> v0 or i0 of the loop it is in
    seen,     \* rank -> token -> row -> times folded into local_lse
    pick,     \* rank -> token -> row of local_target_logit
    owners,   \* rank -> token -> owner_count
    merged,   \* rank -> the gathered local statistics of all ranks
    gradH,    \* rank -> token -> row -> times added to grad_hidden[token]
    gradW,    \* rank -> row -> token -> times added to grad_weight[row]
    hot,      \* rank -> cells of dlogits that got the one-hot term
    reduced,  \* rank -> grad_hidden of all ranks, as all-reduced
    outcome   \* rank -> how its calls ended

forwardVars == <<seen, pick, owners, merged>>
backwardVars == <<gradH, gradW, hot, reduced>>
fixed == <<program, build>>
vars == <<fixed, next, pc, cache, cursor, forwardVars, backwardVars, outcome>>

-----------------------------------------------------------------------------
AtMost(a, b) == IF a < b THEN a ELSE b
AtLeast(a, b) == IF a > b THEN a ELSE b

Running(r) == next[r] <= Len(program)
CallOf(r) == program[next[r]]

End(c, r) == c.start[r] + c.size[r]
Owned(c, r) == c.start[r] .. (End(c, r) - 1)

\* should_use_tensor_parallel_linear_logp
UsesGroup(c) == c.group /\ Cardinality(Ranks) > 1

MetadataRefused(c, r) ==
    /\ ~ UsesGroup(c)
    /\ \/ c.size[r] = 0
       \/ c.start[r] # 0
       \/ c.global[r] \notin {NoSize, c.size[r]}

NeedsGrad(c) == c.hgrad \/ c.wgrad

\* FusedLinearLogpSM90Op.apply: the save-probs path of a group needs a frozen
\* hidden; alone it does not.  Inputs the sm90 kernels cannot take fall back to
\* the portable code in a group and to the Triton operator alone.
Path(c, r) ==
    IF build[r].op # "sm90" \/ ~ c.bf16
    THEN IF UsesGroup(c) THEN "portable"
         ELSE IF build[r].op = "native" THEN "autograd" ELSE "triton"
    ELSE IF /\ "save_probs" \in build[r].kernels
            /\ ~ c.bias
            /\ IF UsesGroup(c) THEN c.wgrad /\ ~ c.hgrad ELSE NeedsGrad(c)
         THEN "save_probs"
    ELSE IF /\ {"fused_tile", "fused_backward"} \subseteq build[r].kernels
            /\ ~ c.bias
            /\ NeedsGrad(c)
         THEN "fused_tile"
    ELSE "sm90"

\* The targets' range; the native operator's gather raises for the same targets.
TargetsInRange(c, size) == \A t \in Tokens : c.target[t] \in 0 .. (size - 1)

\* _validate_tp_vocab_partition: the sorted ranges are not empty, the first starts
\* at 0 and every other where the one before it ends.
Contiguous(c) ==
    /\ \A r \in Ranks : c.size[r] > 0
    /\ \E r \in Ranks : c.start[r] = 0
    /\ \A r, s \in Ranks : r # s => c.start[r] # c.start[s]
    /\ \A r \in Ranks : c.start[r] # 0 => \E s \in Ranks : End(c, s) = c.start[r]

Covered(c) == CHOOSE e \in {End(c, r) : r \in Ranks} : \A r \in Ranks : End(c, r) <= e

\* What a rank itself passes of the partition, nothing of the others.
Given(c, r) == <<c.handle[r], c.start[r], c.size[r], c.global[r]>>

\* Mutant: global_vocab_size is not part of the key.
KeyWithoutGlobal(c, r) == <<c.handle[r], c.start[r], c.size[r]>>

\* The cache key.
Key(c, r) == Given(c, r)

Hits(c, r) == {e \in cache[r] : e.key = Key(c, r)}

ValidPartition(c) == Contiguous(c) /\ \A r \in Ranks : c.global[r] \in {NoSize, Covered(c)}

NoCells == [t \in Tokens |-> [w \in Rows |-> 0]]
NoWeightCells == [w \in Rows |-> [t \in Tokens |-> 0]]
Zeros == [t \in Tokens |-> 0]
NoPick == [t \in Tokens |-> NoRow]

-----------------------------------------------------------------------------
Init ==
    /\ program \in Programs
    /\ build \in Builds
    /\ next = [r \in Ranks |-> 1]
    /\ pc = [r \in Ranks |-> "idle"]
    /\ cache = [r \in Ranks |-> {}]
    /\ cursor = [r \in Ranks |-> 0]
    /\ seen = [r \in Ranks |-> NoCells]
    /\ pick = [r \in Ranks |-> NoPick]
    /\ owners = [r \in Ranks |-> Zeros]
    /\ merged = [r \in Ranks |-> Nothing]
    /\ gradH = [r \in Ranks |-> NoCells]
    /\ gradW = [r \in Ranks |-> NoWeightCells]
    /\ hot = [r \in Ranks |-> {}]
    /\ reduced = [r \in Ranks |-> Nothing]
    /\ outcome = [r \in Ranks |-> <<>>]

\* The buffers of a new call are fresh.
ClearBuffers(r) ==
    /\ cursor' = [cursor EXCEPT ![r] = 0]
    /\ seen' = [seen EXCEPT ![r] = NoCells]
    /\ pick' = [pick EXCEPT ![r] = NoPick]
    /\ owners' = [owners EXCEPT ![r] = Zeros]
    /\ merged' = [merged EXCEPT ![r] = Nothing]
    /\ gradH' = [gradH EXCEPT ![r] = NoCells]
    /\ gradW' = [gradW EXCEPT ![r] = NoWeightCells]
    /\ hot' = [hot EXCEPT ![r] = {}]
    /\ reduced' = [reduced EXCEPT ![r] = Nothing]

\* The call of the ranks in S returns or raises.
EndCall(S, how) ==
    /\ pc' = [r \in Ranks |-> IF r \in S THEN "idle" ELSE pc[r]]
    /\ next' = [r \in Ranks |-> IF r \in S THEN next[r] + 1 ELSE next[r]]
    /\ outcome' = [r \in Ranks |-> IF r \in S THEN Append(outcome[r], how) ELSE outcome[r]]

Goto(r, place) ==
    /\ pc' = [pc EXCEPT ![r] = place]
    /\ UNCHANGED <<next, outcome>>

\* Where a forward goes on once the partition is taken as valid.
AfterPartition(r) == IF build[r].validate THEN "targets" ELSE "local"

\* apply: the rank checks its own arguments, the metadata and, outside a group,
\* the targets; in a group the partition is looked up in the rank's own cache.
Enter(r) ==
    /\ pc[r] = "idle"
    /\ Running(r)
    /\ ClearBuffers(r)
    /\ LET c == CallOf(r) IN
         IF \/ r \in c.refused
            \/ MetadataRefused(c, r)
            \/ ~ UsesGroup(c) /\ ~ TargetsInRange(c, c.size[r])
         THEN EndCall({r}, "raised")
         ELSE Goto(r, IF ~ UsesGroup(c) THEN "local"
                      ELSE IF Hits(c, r) # {} THEN AfterPartition(r)
                      ELSE "ranges")
    /\ UNCHANGED <<fixed, cache>>

-----------------------------------------------------------------------------
\* Collectives: every rank is in the same one, and each contributes what it has
\* itself.  A rank blocked in one is not told which call the others are in.
Collectives == {"ranges", "sizes", "targets", "owner", "merge", "merge_list", "reduce32", "reduce16"}

AllIn(place) == \A r \in Ranks : pc[r] = place

\* The ranges as gathered.
GroupCall == [start |-> [r \in Ranks |-> CallOf(r).start[r]],
              size  |-> [r \in Ranks |-> CallOf(r).size[r]]]

\* all_gather of the ranges; every rank checks all of them.
GatherRanges ==
    /\ AllIn("ranges")
    /\ IF Contiguous(GroupCall)
       THEN pc' = [r \in Ranks |-> "sizes"] /\ UNCHANGED <<next, outcome>>
       ELSE EndCall(Ranks, "raised")
    /\ UNCHANGED <<fixed, cache, cursor, forwardVars, backwardVars>>

\* Mutant: it checks its own.
SizesMatchOwn(r) == CallOf(r).global[r] \in {NoSize, Covered(GroupCall)}

\* A rank that passed no global size still checks everybody else's.
SizesMatch(r) == \A s \in Ranks : CallOf(s).global[s] \in {NoSize, Covered(GroupCall)}

\* all_gather of the global sizes; then the partition enters the cache.
GatherSizes ==
    /\ AllIn("sizes")
    /\ LET valid == {r \in Ranks : SizesMatch(r)} IN
         /\ pc' = [r \in Ranks |-> IF r \in valid THEN AfterPartition(r) ELSE "idle"]
         /\ next' = [r \in Ranks |-> IF r \in valid THEN next[r] ELSE next[r] + 1]
         /\ outcome' = [r \in Ranks |->
                IF r \in valid THEN outcome[r] ELSE Append(outcome[r], "raised")]
         /\ cache' = [r \in Ranks |->
                IF r \in valid
                THEN cache[r] \cup {[key |-> Key(CallOf(r), r), covered |-> Covered(GroupCall)]}
                ELSE cache[r]]
    /\ UNCHANGED <<fixed, cursor, forwardVars, backwardVars>>

\* What the partition covered when it was validated.
VocabSize(r) == (CHOOSE e \in Hits(CallOf(r), r) : TRUE).covered

\* _validate_global_targets: three all_reduces in a row, of the flag, the smallest
\* and the largest target; one rank's flag makes all raise.
ReduceTargets ==
    /\ AllIn("targets")
    /\ IF \A r \in Ranks : TargetsInRange(CallOf(r), VocabSize(r))
       THEN pc' = [r \in Ranks |-> "local"] /\ UNCHANGED <<next, outcome>>
       ELSE EndCall(Ranks, "raised")
    /\ UNCHANGED <<fixed, cache, cursor, forwardVars, backwardVars>>

-----------------------------------------------------------------------------
\* Forward.
\* _chunked_local_linear_logp_stats: how many vocabulary rows a chunk has.
VocabChunk(c, r) ==
    AtLeast(1, AtMost(c.size[r], c.elems \div Cardinality(Tokens)))

\* Every other path takes its whole shard in one kernel.
ForwardStep(c, r) == IF Path(c, r) = "portable" THEN VocabChunk(c, r) ELSE c.size[r]

\* Mutant: the chunk's offset within the shard is forgotten.
BaseOfShard(c, r, v0) == c.start[r]

\* Global row of the first row of a chunk or tile.
Base(c, r, v0) == c.start[r] + v0

AfterForward(c) == IF NeedsGrad(c) THEN "backward" ELSE "done"

\* Mutant: a rank that owns no target skips the owner count.
AfterLocalOwners(c, r) ==
    IF ~ UsesGroup(c) THEN AfterForward(c)
    ELSE IF /\ build[r].validate /\ Path(c, r) = "portable"
            /\ \E t \in Tokens : c.target[t] \in Owned(c, r)
         THEN "owner"
    ELSE build[r].gathers

\* owner_count exists, and is reduced, on the portable path only.
AfterLocal(c, r) ==
    IF ~ UsesGroup(c) THEN AfterForward(c)
    ELSE IF build[r].validate /\ Path(c, r) = "portable" THEN "owner"
    ELSE build[r].gathers

\* One chunk: its logits join the running log-sum-exp, and a token whose target
\* lies in the chunk's range takes its logit from column target - base.
LocalChunk(r) ==
    /\ pc[r] = "local"
    /\ LET c  == CallOf(r)
           v0 == cursor[r]
           v1 == AtMost(v0 + ForwardStep(c, r), c.size[r])
           rows == (c.start[r] + v0) .. (c.start[r] + v1 - 1)
           col(t) == c.target[t] - Base(c, r, v0)
           owns(t) == col(t) \in 0 .. (v1 - v0 - 1)
       IN  /\ seen' = [seen EXCEPT ![r] = [t \in Tokens |-> [w \in Rows |->
                          IF w \in rows THEN @[t][w] + 1 ELSE @[t][w]]]]
           /\ pick' = [pick EXCEPT ![r] = [t \in Tokens |->
                          IF owns(t) THEN c.start[r] + v0 + col(t) ELSE @[t]]]
           /\ owners' = [owners EXCEPT ![r] = [t \in Tokens |->
                          IF owns(t) THEN @[t] + 1 ELSE @[t]]]
           /\ cursor' = [cursor EXCEPT ![r] = IF v1 = c.size[r] THEN 0 ELSE v1]
           /\ Goto(r, IF v1 = c.size[r] THEN AfterLocal(c, r) ELSE "local")
    /\ UNCHANGED <<fixed, cache, merged, backwardVars>>

OwnerCount(t) == MapThenSumSet(LAMBDA r : owners[r][t], Ranks)

\* all_reduce of owner_count: exactly one shard has every target, or all raise.
ReduceOwners ==
    /\ AllIn("owner")
    /\ IF \A t \in Tokens : OwnerCount(t) = 1
       THEN pc' = [r \in Ranks |-> build[r].gathers] /\ UNCHANGED <<next, outcome>>
       ELSE EndCall(Ranks, "raised")
    /\ UNCHANGED <<fixed, cache, cursor, forwardVars, backwardVars>>

\* _merge_tp_local_logp: all_gather of local lse and target logit, into one tensor
\* or, where that raises, a list; each rank then takes the log-sum-exp of the ones
\* and the sum of the others.
Merge(place) ==
    /\ AllIn(place)
    /\ LET gathered == [r \in Ranks |-> [seen |-> seen[r], pick |-> pick[r]]]
       IN  merged' = [r \in Ranks |-> gathered]
    /\ pc' = [r \in Ranks |-> AfterForward(CallOf(r))]
    /\ UNCHANGED <<fixed, next, cache, cursor, seen, pick, owners, backwardVars, outcome>>

-----------------------------------------------------------------------------
\* Backward.
\* The fused kernels' grad_hidden is bf16 (by default), the chunked loops' float32.
ReducesHidden(c, r) ==
    IF \/ Path(c, r) \in {"save_probs", "fused_tile"}
       \/ Path(c, r) = "sm90" /\ "fused_backward" \in build[r].kernels
    THEN "reduce16" ELSE "reduce32"

AfterBackward(c, r) == IF UsesGroup(c) /\ c.hgrad THEN ReducesHidden(c, r) ELSE "done"

\* _sm90_linear_logp_backward without its kernel takes the chunked loops.
BackwardKind(c, r) ==
    CASE Path(c, r) \in {"portable", "triton"} -> "tokens"
      [] Path(c, r) = "sm90" -> IF "fused_backward" \in build[r].kernels THEN "whole" ELSE "tokens"
      [] Path(c, r) = "fused_tile" -> "tiles"
      [] OTHER -> "whole"

\* The one-hot term of the target's cell, where the block has it: column
\* target - base of the block that starts at row v0.
OneHots(c, r, toks, v0, v1) ==
    {<<t, c.start[r] + v0 + (c.target[t] - Base(c, r, v0))>> :
        t \in {u \in toks : c.target[u] - Base(c, r, v0) \in 0 .. (v1 - v0 - 1)}}

\* One block of token rows: grad_hidden of these tokens is assigned, grad_weight
\* of the whole shard accumulates.
TokenChunk(c, r) ==
    AtLeast(1, AtMost(Cardinality(Tokens), c.elems \div c.size[r]))

BackwardTokens(r) ==
    /\ pc[r] = "backward"
    /\ LET c  == CallOf(r)
           i0 == cursor[r]
           i1 == AtMost(i0 + TokenChunk(c, r), Cardinality(Tokens))
           toks == (i0 + 1) .. i1
           own  == Owned(c, r)
       IN  /\ BackwardKind(c, r) = "tokens"
           /\ gradH' = [gradH EXCEPT ![r] = [t \in Tokens |->
                  IF c.hgrad /\ t \in toks
                  THEN [w \in Rows |-> IF w \in own THEN 1 ELSE 0] ELSE @[t]]]
           /\ gradW' = [gradW EXCEPT ![r] = [w \in Rows |-> [t \in Tokens |->
                  IF c.wgrad /\ w \in own /\ t \in toks THEN @[w][t] + 1 ELSE @[w][t]]]]
           /\ hot' = [hot EXCEPT ![r] = @ \cup OneHots(c, r, toks, 0, c.size[r])]
           /\ cursor' = [cursor EXCEPT ![r] = i1]
           /\ Goto(r, IF i1 = Cardinality(Tokens) THEN AfterBackward(c, r) ELSE "backward")
    /\ UNCHANGED <<fixed, cache, forwardVars, reduced>>

\* _fused_tile_vocab_tile
VocabTile(c, r) == AtLeast(1, AtMost(c.tile, c.size[r]))

\* Mutant: every tile's mm writes it.
TileStartAlways(old, first) == 0

\* The first tile's mm writes grad_hidden, the others' addmm add to it.
TileStart(old, first) == IF first THEN 0 ELSE old

\* One vocabulary tile: grad_weight of its rows is assigned.
BackwardTile(r) ==
    /\ pc[r] = "backward"
    /\ LET c  == CallOf(r)
           v0 == cursor[r]
           v1 == AtMost(v0 + VocabTile(c, r), c.size[r])
           rows == (c.start[r] + v0) .. (c.start[r] + v1 - 1)
       IN  /\ BackwardKind(c, r) = "tiles"
           /\ gradH' = [gradH EXCEPT ![r] = [t \in Tokens |-> [w \in Rows |->
                  IF ~ c.hgrad THEN 0
                  ELSE TileStart(@[t][w], v0 = 0) + (IF w \in rows THEN 1 ELSE 0)]]]
           /\ gradW' = [gradW EXCEPT ![r] = [w \in Rows |->
                  IF c.wgrad /\ w \in rows THEN [t \in Tokens |-> 1] ELSE @[w]]]
           /\ hot' = [hot EXCEPT ![r] = @ \cup OneHots(c, r, Tokens, v0, v1)]
           /\ cursor' = [cursor EXCEPT ![r] = v1]
           /\ Goto(r, IF v1 = c.size[r] THEN AfterBackward(c, r) ELSE "backward")
    /\ UNCHANGED <<fixed, cache, forwardVars, reduced>>

\* save-probs, the fused sm90 backward and autograd of the native operator: all
\* of dlogits at once, then one matmul for each gradient.
BackwardWhole(r) ==
    /\ pc[r] = "backward"
    /\ LET c == CallOf(r) IN
         /\ BackwardKind(c, r) = "whole"
         /\ gradH' = [gradH EXCEPT ![r] = [t \in Tokens |-> [w \in Rows |->
                IF c.hgrad /\ w \in Owned(c, r) THEN 1 ELSE 0]]]
         /\ gradW' = [gradW EXCEPT ![r] = [w \in Rows |-> [t \in Tokens |->
                IF c.wgrad /\ w \in Owned(c, r) THEN 1 ELSE 0]]]
         /\ hot' = [hot EXCEPT ![r] = OneHots(c, r, Tokens, 0, c.size[r])]
         /\ Goto(r, AfterBackward(c, r))
    /\ UNCHANGED <<fixed, cache, cursor, forwardVars, reduced>>

\* all_reduce of grad_hidden.
ReduceHidden(place) ==
    /\ AllIn(place)
    /\ LET summed == [r \in Ranks |-> [cells |-> gradH[r], hot |-> hot[r]]]
       IN  reduced' = [r \in Ranks |-> summed]
    /\ pc' = [r \in Ranks |-> "done"]
    /\ UNCHANGED <<fixed, next, cache, cursor, forwardVars, gradH, gradW, hot, outcome>>

Return(r) ==
    /\ pc[r] = "done"
    /\ EndCall({r}, "returned")
    /\ UNCHANGED <<fixed, cache, cursor, forwardVars, backwardVars>>

Joint ==
    \/ GatherRanges
    \/ GatherSizes
    \/ ReduceTargets
    \/ ReduceOwners
    \/ \E place \in {"merge", "merge_list"} : Merge(place)
    \/ \E place \in {"reduce32", "reduce16"} : ReduceHidden(place)

Own(r) ==
    \/ Enter(r)
    \/ LocalChunk(r)
    \/ BackwardTokens(r)
    \/ BackwardTile(r)
    \/ BackwardWhole(r)
    \/ Return(r)

Next == Joint \/ \E r \in Ranks : Own(r)

Spec == Init /\ [][Next]_vars

\* A rank's Python and kernels go on, and a collective that every rank has joined
\* completes.
FairSpec == Spec /\ WF_vars(Joint) /\ \A r \in Ranks : WF_vars(Own(r))

-----------------------------------------------------------------------------
\* What the ranks must have in common to stay together: each of these is theirs
\* to bring about, none is checked by the code.
\* The same operator, symbols, environment and torch.
SameBuild == \A r, s \in Ranks : build[r] = build[s]

\* A call is refused for its arguments on all ranks or on none.
RefusedAlike ==
    \A i \in DOMAIN program : UsesGroup(program[i]) => program[i].refused \in {{}, Ranks}

\* No rank passes what it passed for an earlier valid partition while another
\* passes something else: the first finds it in its cache and skips the validation
\* in which the other waits.  Two valid partitions can do this.
MovesTogether ==
    \A i, j \in DOMAIN program :
        /\ i < j
        /\ UsesGroup(program[i]) /\ UsesGroup(program[j])
        /\ ValidPartition(program[i])
        => \A r, s \in Ranks : Given(program[i], r) = Given(program[j], r) =>
                                  Given(program[i], s) = Given(program[j], s)

RanksAgree == SameBuild /\ RefusedAlike /\ MovesTogether

\* Ranks that agree and wait in collectives wait in the same one, of the same call:
\* none is sent into a collective of its own by its cache, shard, path or targets.
\* Ranks whose builds or caches differ may wait for ever, but as long as calls are
\* refused alike the collective they all wait in is of one call: no rank's tensors
\* are taken for those of another call.
CollectivesPair ==
    /\ RanksAgree =>
         \A r, s \in Ranks : pc[r] \in Collectives /\ pc[s] \in Collectives => pc[r] = pc[s]
    /\ RefusedAlike =>
         \A place \in Collectives : AllIn(place) => \A r, s \in Ranks : next[r] = next[s]

\* Where calls are refused alike, a call on the group that raises on one rank has
\* raised on the others or is not begun by them: nobody is in a collective that
\* another has left by an exception, whatever their caches and builds.
RaisesTogether ==
    RefusedAlike =>
        \A r, s \in Ranks : \A i \in DOMAIN outcome[r] :
            UsesGroup(program[i]) /\ outcome[r][i] = "raised" =>
                IF i \in DOMAIN outcome[s] THEN outcome[s][i] = "raised"
                ELSE next[s] = i => pc[s] = "idle"

\* What the rows of a call are: the group's shards together, or the own weight.
Vocabulary(c, r) == 0 .. ((IF UsesGroup(c) THEN Covered(c) ELSE c.size[r]) - 1)

ForwardDone(r) == pc[r] \in {"backward", "reduce32", "reduce16", "done"}

Statistics(r) ==
    IF UsesGroup(CallOf(r)) THEN merged[r]
    ELSE [s \in {r} |-> [seen |-> seen[r], pick |-> pick[r]]]

\* The ranks' counts of one cell add up to one, or to nothing.
OnceAmong(count) == \E s \in DOMAIN count : \A u \in DOMAIN count : count[u] = IF u = s THEN 1 ELSE 0
NeverAmong(count) == \A s \in DOMAIN count : count[s] = 0

\* The log-probability ranks that agree compute is the reference: each row of the
\* whole vocabulary is in the log-sum-exp exactly once, however the shards are
\* cut and chunked, and the target's logit is taken from exactly one shard.
ResultIsReference ==
    RanksAgree => \A r \in Ranks :
        ForwardDone(r) /\ (\A t \in Tokens : CallOf(r).target[t] \in Vocabulary(CallOf(r), r)) =>
            LET c == CallOf(r)
                stats == Statistics(r)
                count(t, w) == [s \in DOMAIN stats |-> stats[s].seen[t][w]]
            IN  \A t \in Tokens :
                  /\ \A w \in Rows :
                       IF w \in Vocabulary(c, r) THEN OnceAmong(count(t, w)) ELSE NeverAmong(count(t, w))
                  /\ \E s \in DOMAIN stats : \A u \in DOMAIN stats :
                       stats[u].pick[t] = IF u = s THEN c.target[t] ELSE NoRow

HiddenGradient(r) ==
    IF UsesGroup(CallOf(r)) THEN reduced[r]
    ELSE [s \in {r} |-> [cells |-> gradH[r], hot |-> hot[r]]]

\* The gradients of ranks that agree are the reference's: grad_hidden has each row of the vocabulary
\* once per token and the one-hot term of the target alone; grad_weight has every
\* token once in each row of the own shard and in no other.
GradIsReference ==
    RanksAgree => \A r \in Ranks :
        /\ pc[r] = "done"
        /\ NeedsGrad(CallOf(r))
        /\ \A t \in Tokens : CallOf(r).target[t] \in Vocabulary(CallOf(r), r)
        => LET c == CallOf(r)
               parts == HiddenGradient(r)
               count(t, w) == [s \in DOMAIN parts |-> parts[s].cells[t][w]]
               targets == {<<t, c.target[t]>> : t \in Tokens}
           IN  /\ c.hgrad =>
                    /\ \A t \in Tokens : \A w \in Rows :
                         IF w \in Vocabulary(c, r) THEN OnceAmong(count(t, w)) ELSE NeverAmong(count(t, w))
                    /\ UNION {parts[s].hot : s \in DOMAIN parts} = targets
               /\ c.wgrad =>
                    /\ \A w \in Rows : \A t \in Tokens :
                         gradW[r][w][t] = IF w \in Owned(c, r) THEN 1 ELSE 0
                    /\ hot[r] = {cell \in targets : cell[2] \in Owned(c, r)}

\* Every one of the ranks that agree gets through its program: none is left alone
\* in a collective.
CallsEnd == \A r \in Ranks : RanksAgree ~> ~ Running(r)
===============================================================================
