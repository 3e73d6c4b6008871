--------------------------- MODULE TrainingContract ----------------------------
(***************************************************************************)
(* The way of a rollout from the sampler to a training batch:              *)
(* VLLMSharedPrefixSampler.generate (rl_engine/executors/vllm_sampler.py), *)
(* StatelessScoringWorker.score and RolloutBatchMixin                      *)
(* (rl_engine/executors/training_contract.py).                             *)
(*                                                                         *)
(* A payload is two groupings of candidates, "normalized_outputs" and the  *)
(* raw "outputs".  Every step walks over them on its own and drops what it *)
(* has no use for, so what is modelled of a candidate is which prompt and  *)
(* copy it is, how many tokens it has, and whose reward and reference      *)
(* log-probabilities it carries.  Groups that are not lists count as lists *)
(* of one.  The engine, the scorer's model and hand-made payloads are      *)
(* external.                                                               *)
(***************************************************************************)
EXTENDS Integers, FiniteSets, SequencesExt

CONSTANTS
    MaxPrompts,        \* bound: prompts of one rollout
    MaxGenerations,    \* bound: candidates per prompt
    MaxCandidates,     \* bound: candidates of a hand-made payload
    Lengths,           \* completion lengths the engine may return, 0 among them
    RowLengths,        \* lengths of log-probability rows in hand-made payloads
    Loads,             \* where candidates of hand-made payloads may have reward and row
    CompletionLen,     \* TorchRLTrainingConfig.completion_len
    MinCompletionLen,  \* TorchRLTrainingConfig.min_completion_len
    ScoredLen,         \* max_completion_len of the scorer's collate_inputs
    None

ASSUME BoundsAssumption == MaxPrompts \in Nat /\ MaxGenerations \in Nat
ASSUME LengthsAssumption == Lengths \subseteq Nat /\ RowLengths \subseteq Nat \ {0}
ASSUME CompletionLenAssumption ==
    CompletionLen \in Nat \ {0} /\ MinCompletionLen \in Nat \ {0} /\ ScoredLen \in Nat \ {0}
ASSUME LoadsAssumption ==
    Loads \subseteq [reward : {"none", "own", "nested"}, row : {"none", "own", "nested"}]

VARIABLES
    payload,  \* RolloutStageResult.payload
    scored,   \* what StatelessScoringWorkers have attached to it
    batch     \* the training batch made of it, None before

vars == <<payload, scored, batch>>

-----------------------------------------------------------------------------
(***************************************************************************)
(* Candidates and groupings.                                               *)
(***************************************************************************)
Id == [prompt : 1..MaxPrompts, copy : 1..MaxGenerations]

Reward == [by : {"payload", "scorer", "proxy"}, of : Id]

\* A row of reference log-probabilities.
LogpRow == [of : Id, n : Nat \ {0}]

ASSUME NoneAssumption == None \notin Reward /\ None \notin LogpRow

\* A reward or a row may sit on the candidate or on a nested output of it, where
\* _candidate_reward and _candidate_reference_logp_values look first.
RewardOf(c) == IF c.nested # None THEN c.nested ELSE c.reward
RowOf(c) == IF c.nestedRow # None THEN c.nestedRow ELSE c.row

\* What the walks look for on a candidate: _candidate_token_ids,
\* _candidate_reward, _candidate_reference_logp_values.
Carries(c, part) ==
    \/ part = "tokens" /\ c.len > 0
    \/ part = "reward" /\ RewardOf(c) # None
    \/ part = "reference" /\ RowOf(c) # None

Positions(sizes) == UNION {{g} \X (1..sizes[g]) : g \in DOMAIN sizes}

\* The places <<group, index>> of a grouping, and those with the part.
Places(groups) == Positions([g \in DOMAIN groups |-> Len(groups[g])])
Carrying(groups, part) == {q \in Places(groups) : Carries(groups[q[1]][q[2]], part)}

CandidatesOf(groups) == {groups[q[1]][q[2]] : q \in Places(groups)}

\* The members of a finite set of numbers, in order.
Ascending(P) ==
    CHOOSE f \in [1..Cardinality(P) -> P] : \A i, j \in 1..Cardinality(P) : i < j => f[i] < f[j]

\* What is left of a sequence when only the indices in P are kept.
Kept(s, P) == [i \in 1..Cardinality(P) |-> s[Ascending(P)[i]]]

KeptIn(group, part) == {i \in DOMAIN group : Carries(group[i], part)}

\* The candidates that carry the part, grouped; groups without any are dropped.
KeepGroups(groups, part) ==
    Kept([g \in DOMAIN groups |-> Kept(groups[g], KeptIn(groups[g], part))],
         {g \in DOMAIN groups : KeptIn(groups[g], part) # {}})

\* The grouping a part is taken from: the raw one when the normalized one has
\* nothing of it.
Source(p, part) == IF KeepGroups(p.normalized, part) # <<>> THEN p.normalized ELSE p.outputs

\* The extract_rollout_*_groups functions.
Extract(p, part) == KeepGroups(Source(p, part), part)

SameShape(a, b) == Len(a) = Len(b) /\ \A g \in DOMAIN a : Len(a[g]) = Len(b[g])

Smaller(m, n) == IF m < n THEN m ELSE n
Larger(m, n) == IF m < n THEN n ELSE m

NoPayload == [normalized |-> <<>>, outputs |-> <<>>]

Init ==
    /\ payload = NoPayload
    /\ scored = {}
    /\ batch = None

-----------------------------------------------------------------------------
(***************************************************************************)
(* The sampler.                                                            *)
(***************************************************************************)
Candidate(id, len) ==
    [id |-> id, len |-> len, reward |-> None, nested |-> None, row |-> None, nestedRow |-> None]

\* _expand_prompts: the k-th request of n copies of every prompt.
Expanded(n, k) == [prompt |-> 1 + (k - 1) \div n, copy |-> 1 + ((k - 1) % n)]

\* Mutant: groups overlap by one output.
GroupOutputsOverlapping(flat, n) ==
    [g \in 1..(Len(flat) \div n) |-> SubSeq(flat, Larger(1, (g - 1) * n), g * n)]

\* _group_outputs: runs of n outputs.
GroupOutputs(flat, n) == [g \in 1..(Len(flat) \div n) |-> SubSeq(flat, (g - 1) * n + 1, g * n)]

\* generate: the engine answers every request, in order, with some completion.
Generate(prompts, n) ==
    /\ payload = NoPayload
    /\ \E len \in [1..(prompts * n) -> Lengths] :
         LET groups == GroupOutputs([k \in 1..(prompts * n) |-> Candidate(Expanded(n, k), len[k])], n)
         IN  payload' = [normalized |-> groups, outputs |-> groups]
    /\ UNCHANGED <<scored, batch>>

\* What a candidate of a hand-made payload may come with.
Forms == [len : Lengths, load : Loads, n : RowLengths]

FormedCandidate(id, form) ==
    LET given == [by |-> "payload", of |-> id]
        logps == [of |-> id, n |-> form.n]
    IN  [id        |-> id,
         len       |-> form.len,
         reward    |-> IF form.load.reward = "own" THEN given ELSE None,
         nested    |-> IF form.load.reward = "nested" THEN given ELSE None,
         row       |-> IF form.load.row = "own" THEN logps ELSE None,
         nestedRow |-> IF form.load.row = "nested" THEN logps ELSE None]

FormedGroups(sizes, form) ==
    [g \in DOMAIN sizes |-> [i \in 1..sizes[g] |->
       FormedCandidate([prompt |-> g, copy |-> i], form[<<g, i>>])]]

\* Sizes of the groups of a grouping, which may be missing.
Sizes == UNION {[1..prompts -> 1..MaxGenerations] : prompts \in 0..MaxPrompts}

\* A payload from elsewhere: one or both of the groupings, which tell of the same
\* prompts and copies but need not agree on how many there are and what they carry.
Receive(normalized, outputs) ==
    /\ payload = NoPayload
    /\ normalized # <<>> \/ outputs # <<>>
    /\ Cardinality(Positions(normalized)) + Cardinality(Positions(outputs)) <= MaxCandidates
    /\ \E form \in [Positions(normalized) -> Forms], other \in [Positions(outputs) -> Forms] :
         payload' = [normalized |-> FormedGroups(normalized, form),
                     outputs    |-> FormedGroups(outputs, other)]
    /\ UNCHANGED <<scored, batch>>

-----------------------------------------------------------------------------
(***************************************************************************)
(* Scoring.                                                                *)
(***************************************************************************)
\* The rows of build_stateless_inputs_from_rollout_payload.
ScoringRows(p) == FlattenSeq(Extract(p, "tokens"))

\* The scorer's results: one reward per row, and the log-probabilities of the
\* tokens of the row that the completion mask covers.
ScoredReward(p, r) == [by |-> "scorer", of |-> ScoringRows(p)[r].id]
ScoredRow(p, r) ==
    [of |-> ScoringRows(p)[r].id, n |-> Smaller(ScoringRows(p)[r].len, ScoredLen)]

\* Which result the i-th candidate of group g gets: one is used up by every
\* candidate with tokens.
ResultIndex(groups, g, i) ==
    Cardinality({q \in Carrying(groups, "tokens") : q[1] < g \/ (q[1] = g /\ q[2] <= i)})

\* The candidate with the r-th result; parts are those the result has.
Scored(c, p, r, parts) ==
    [c EXCEPT !.reward = IF "reward" \in parts THEN ScoredReward(p, r) ELSE @,
              !.row = IF "reference" \in parts THEN ScoredRow(p, r) ELSE @]

\* Mutant: of every group only the first candidate gets its result.
AttachToFirst(groups, p, parts) ==
    [g \in DOMAIN groups |-> [i \in DOMAIN groups[g] |->
       IF i = 1 /\ Carries(groups[g][i], "tokens")
       THEN Scored(groups[g][i], p, ResultIndex(groups, g, i), parts)
       ELSE groups[g][i]]]

\* _attach_*_to_grouped_outputs.
AttachToGroups(groups, p, parts) ==
    [g \in DOMAIN groups |-> [i \in DOMAIN groups[g] |->
       IF Carries(groups[g][i], "tokens")
       THEN Scored(groups[g][i], p, ResultIndex(groups, g, i), parts)
       ELSE groups[g][i]]]

\* The results go to the first grouping with tokens and to no other.
Attach(p, parts) ==
    IF KeepGroups(p.normalized, "tokens") # <<>>
    THEN [p EXCEPT !.normalized = AttachToGroups(@, p, parts)]
    ELSE [p EXCEPT !.outputs = AttachToGroups(@, p, parts)]

\* StatelessScoringWorker.score with an executor in mode "reward", "reference"
\* or "both"; without a candidate to score it raises.
Score(parts) ==
    /\ batch = None
    /\ ScoringRows(payload) # <<>>
    /\ payload' = Attach(payload, parts)
    /\ scored' = scored \cup parts
    /\ UNCHANGED batch

-----------------------------------------------------------------------------
(***************************************************************************)
(* The batch.                                                              *)
(***************************************************************************)
\* _reward_groups_match.
RewardsMatch(p) == SameShape(Extract(p, "tokens"), Extract(p, "reward"))

\* Mutant: the lengths of the rows are not looked at.
ReferencesMatchShape(p) == SameShape(Extract(p, "tokens"), Extract(p, "reference"))

\* _reference_logp_groups_match: a row for every candidate, long enough.
ReferencesMatch(p) ==
    LET candidates == Extract(p, "tokens")
        rows == Extract(p, "reference")
    IN  /\ SameShape(candidates, rows)
        /\ \A g \in DOMAIN candidates : \A i \in DOMAIN candidates[g] :
             RowOf(rows[g][i]).n >= Smaller(candidates[g][i].len, CompletionLen)

\* The number of completion columns.
BatchLen(candidates) ==
    LET longest == Max({c.len : c \in CandidatesOf(candidates)})
    IN  Larger(MinCompletionLen, Smaller(CompletionLen, longest))

\* Mutant: every candidate of a group gets the group's first reward.
BatchRowFirstReward(p, g, i) ==
    LET c == Extract(p, "tokens")[g][i]
    IN  [of        |-> c.id,
         group     |-> g,
         active    |-> Smaller(c.len, BatchLen(Extract(p, "tokens"))),
         reward    |-> IF RewardsMatch(p) THEN RewardOf(Extract(p, "reward")[g][1])
                       ELSE [by |-> "proxy", of |-> c.id],
         reference |-> IF ReferencesMatch(p) THEN RowOf(Extract(p, "reference")[g][i]) ELSE None]

\* One row of _batch_from_candidate_groups.
BatchRow(p, g, i) ==
    LET c == Extract(p, "tokens")[g][i]
    IN  [of        |-> c.id,
         group     |-> g,
         active    |-> Smaller(c.len, BatchLen(Extract(p, "tokens"))),
         reward    |-> IF RewardsMatch(p) THEN RewardOf(Extract(p, "reward")[g][i])
                       ELSE [by |-> "proxy", of |-> c.id],
         reference |-> IF ReferencesMatch(p) THEN RowOf(Extract(p, "reference")[g][i]) ELSE None]

\* _batch_from_rollout_or_synthetic: without a candidate the batch is made up.
BuildBatch ==
    /\ payload # NoPayload
    /\ batch = None
    /\ batch' = LET candidates == Extract(payload, "tokens")
                IN  FlattenSeq([g \in DOMAIN candidates |-> [i \in DOMAIN candidates[g] |->
                                  BatchRow(payload, g, i)]])
    /\ UNCHANGED <<payload, scored>>

Next ==
    \/ \E prompts \in 1..MaxPrompts, n \in 1..MaxGenerations : Generate(prompts, n)
    \/ \E normalized, outputs \in Sizes : Receive(normalized, outputs)
    \/ \E parts \in (SUBSET {"reward", "reference"}) \ {{}} : Score(parts)
    \/ BuildBatch

Spec == Init /\ [][Next]_vars

-----------------------------------------------------------------------------
(***************************************************************************)
(* Properties.                                                             *)
(***************************************************************************)
Rows == ToSet(batch)

AllCandidates == CandidatesOf(payload.normalized) \cup CandidatesOf(payload.outputs)

\* The candidates a batch should be made of: those with tokens of the normalized
\* grouping, or of the raw one if it has none.
WithTokens(groups) == {c \in CandidatesOf(groups) : Carries(c, "tokens")}
Trainable ==
    IF WithTokens(payload.normalized) # {} THEN WithTokens(payload.normalized)
    ELSE WithTokens(payload.outputs)

\* What the walks cannot keep apart: a reward or log-probabilities, in whichever
\* grouping they are found, of a candidate that has no tokens where the tokens are
\* found.  Sampler and scorers never produce it.
PartsHaveTokens ==
    \A part \in {"reward", "reference"} :
        Carrying(Source(payload, part), part) \subseteq Carrying(Source(payload, "tokens"), "tokens")

\* In either grouping a candidate without tokens has neither.
TokenlessBare == \A c \in AllCandidates : ~ Carries(c, "tokens") => ~ Carries(c, "reward") /\ ~ Carries(c, "reference")

TypeOK ==
    /\ scored \subseteq {"reward", "reference"}
    /\ \A c \in AllCandidates :
         /\ c.id \in Id /\ c.len \in Lengths
         /\ c.reward \in Reward \cup {None} /\ c.nested \in Reward \cup {None}
         /\ c.row # None => c.row.of \in Id /\ c.row.n \in Nat \ {0}
         /\ c.nestedRow # None => c.nestedRow.of \in Id /\ c.nestedRow.n \in Nat \ {0}
    /\ batch = None \/ \A row \in Rows :
         /\ row.of \in Id /\ row.group \in 1..MaxPrompts
         /\ row.active \in 1..Larger(MinCompletionLen, CompletionLen) /\ row.reward \in Reward

\* Every candidate with tokens of the grouping in use is trained on once, and the
\* rows that share a group, over which advantages are normalised, are the ones that
\* share a prompt, although groups and candidates were dropped on the way.
GroupsArePrompts ==
    batch # None =>
        /\ \A r, s \in DOMAIN batch : batch[r].of = batch[s].of => r = s
        /\ \A r, s \in Rows : r.group = s.group <=> r.of.prompt = s.of.prompt
        /\ {row.of : row \in Rows} = {c.id : c \in Trainable}

\* A row's reward and its reference log-probabilities are its own candidate's,
\* although three walks dropped different candidates and may have gone over
\* different groupings, of different shapes: as long as nobody without tokens has
\* a reward or log-probabilities, equal shapes after the drops do mean the same
\* candidates.  (Otherwise they do not, and a row may be trained on another's.)
RowsKeepTheirOwn ==
    batch # None /\ PartsHaveTokens =>
        \A row \in Rows :
            /\ row.reward.of = row.of
            /\ row.reference # None => row.reference.of = row.of

\* Rewards that a scorer attached are the ones trained on, not a proxy and not
\* what the payload came with, unless nested rewards shadow them.
ScoredRewardsTrained ==
    batch # None /\ "reward" \in scored /\ TokenlessBare
      /\ (\A c \in AllCandidates : c.nested = None) =>
        \A row \in Rows : row.reward.by = "scorer"

\* Log-probabilities of the payload are used only when they cover every active token
\* of every row up to completion_len.  That is all of them unless min_completion_len
\* is configured greater, which nothing forbids: then the rows behind are zeros.
\* Those of a scorer that clips no shorter than completion_len are always used, unless
\* nested ones shadow them.
ReferencesCoverActive ==
    batch # None =>
        /\ \A row \in Rows : row.reference # None =>
             /\ row.reference.n >= Smaller(row.active, CompletionLen)
             /\ MinCompletionLen <= CompletionLen => row.reference.n >= row.active
        /\ "reference" \in scored /\ TokenlessBare /\ ScoredLen >= CompletionLen
             /\ (\A c \in AllCandidates : c.nestedRow = None) =>
             \A row \in Rows : row.reference # None
=============================================================================
