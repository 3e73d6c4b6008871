-------------------- MODULE TensorParallelLinearLogpProofs ---------------------
(***************************************************************************)
(* Proofs about TensorParallelLinearLogp, for any group, vocabulary,       *)
(* chunk and tile sizes and any program of calls.  Where the ranks agree   *)
(* (RanksAgree) they have the same collectives ahead, and what each of     *)
(* them computes is the reference's result.  Where they only refuse calls  *)
(* alike (RefusedAlike) they may wait for ever, but the merges and the     *)
(* raises keep their calls in step.                                        *)
(***************************************************************************)
EXTENDS TensorParallelLinearLogp, FiniteSetTheorems, WellFoundedInduction, TLAPS

-----------------------------------------------------------------------------
\* The collectives a rank still joins in a call, from one point of it on.
FinalJoin(c, r) == IF c.hgrad THEN {ReducesHidden(c, r)} ELSE {}
FromMerge(c, r) == {build[r].gathers} \cup FinalJoin(c, r)
FromLocal(c, r) ==
    FromMerge(c, r) \cup {x \in {"owner"} : build[r].validate /\ Path(c, r) = "portable"}
FromTargets(c, r) == FromLocal(c, r) \cup {x \in {"targets"} : build[r].validate}
FromSizes(c, r) == FromTargets(c, r) \cup {"sizes"}
FromRanges(c, r) == FromSizes(c, r) \cup {"ranges"}
FromEntry(c, r) == IF Hits(c, r) # {} THEN FromTargets(c, r) ELSE FromRanges(c, r)

\* A call all ranks make together: on the group, and refused for none.
Grouped(c) == UsesGroup(c) /\ c.refused = {}

Merging == {"merge", "merge_list"}

\* Those ahead of a rank in its current or next call.
ToJoin(r) ==
    LET c == CallOf(r) IN
    CASE pc[r] = "idle" -> FromEntry(c, r)
      [] pc[r] = "ranges" -> FromRanges(c, r)
      [] pc[r] = "sizes" -> FromSizes(c, r)
      [] pc[r] = "targets" -> FromTargets(c, r)
      [] pc[r] \in {"local", "owner"} -> FromLocal(c, r)
      [] pc[r] \in Merging -> FromMerge(c, r)
      [] pc[r] \in {"backward", "reduce32", "reduce16"} -> FinalJoin(c, r)
      [] pc[r] = "done" -> {}

InGroup(r) == Running(r) /\ Grouped(CallOf(r))

Places == Collectives \cup {"idle", "local", "backward", "done"}

FlowTypeOK ==
    /\ program \in Programs
    /\ build \in Builds
    /\ next \in [Ranks -> Nat \ {0}]
    /\ \A r \in Ranks : next[r] <= Len(program) + 1
    /\ pc \in [Ranks -> Places]
    /\ outcome \in [Ranks -> Seq({"returned", "raised"})]
    /\ \A r \in Ranks : Len(outcome[r]) = next[r] - 1
    /\ cache = [r \in Ranks |-> cache[r]]

\* A rank is where its call can be; past the validation, its cache knows the
\* partition, and before it, it does not.
PlaceOK(r) ==
    /\ pc[r] # "idle" => Running(r) /\ r \notin CallOf(r).refused
    /\ pc[r] \in Collectives => UsesGroup(CallOf(r)) /\ pc[r] \in ToJoin(r)
    /\ pc[r] \in {"ranges", "sizes"} => Hits(CallOf(r), r) = {}
    /\ pc[r] = "sizes" => Contiguous(CallOf(r))
    /\ pc[r] \notin {"idle", "ranges", "sizes"} /\ UsesGroup(CallOf(r)) => Hits(CallOf(r), r) # {}

Entry(i, r) == [key |-> Key(program[i], r), covered |-> Covered(program[i])]

\* What one rank's cache knows, every rank's does: it is a valid partition of a
\* call no rank is before.
CacheInv ==
    \A r \in Ranks : \A e \in cache[r] :
        \E i \in DOMAIN program :
            /\ UsesGroup(program[i]) /\ ValidPartition(program[i])
            /\ e = Entry(i, r)
            /\ \A s \in Ranks : Entry(i, s) \in cache[s] /\ i <= next[s]

\* Two ranks in one call on the group have the same collectives ahead; a rank
\* behind another has none left in its call, nor any in the calls between, and the
\* other one has not joined any in its own.
Abreast(r, s) ==
    /\ next[r] = next[s] /\ InGroup(r) => ToJoin(r) = ToJoin(s)
    /\ next[r] < next[s] =>
        /\ \A i \in next[r] .. (next[s] - 1) :
              Grouped(program[i]) => i = next[r] /\ ToJoin(r) = {}
        /\ InGroup(s) => ToJoin(s) = FromEntry(CallOf(s), s)

FlowInv ==
    /\ FlowTypeOK
    /\ \A r \in Ranks : PlaceOK(r)
    /\ CacheInv
    /\ \A r, s \in Ranks : Abreast(r, s)

\* Ranks in collectives are in the same one of the same call.
Paired ==
    \A r, s \in Ranks :
        pc[r] \in Collectives /\ pc[s] \in Collectives => pc[r] = pc[s] /\ next[r] = next[s]

-----------------------------------------------------------------------------
LEMMA FlowTypes ==
    ASSUME FlowTypeOK
    PROVE  /\ program \in Seq(Call)
           /\ Len(program) \in Nat /\ DOMAIN program = 1 .. Len(program)
           /\ \A i \in DOMAIN program : program[i] \in Call
           /\ build \in [Ranks -> Build]
           /\ \A r \in Ranks : next[r] \in Nat \ {0}
           /\ \A r \in Ranks : Running(r) => next[r] \in DOMAIN program /\ CallOf(r) \in Call
<1>1. program \in Seq(Call) /\ build \in [Ranks -> Build]
  BY ProgramsAssumption, BuildsAssumption DEF FlowTypeOK
<1>2. \A r \in Ranks : next[r] \in Nat \ {0}
  BY DEF FlowTypeOK
<1> QED
  BY <1>1, <1>2 DEF Running, CallOf

LEMMA Gathers == FlowTypeOK => \A r \in Ranks : build[r].gathers \in Merging
BY FlowTypes DEF Build, Merging

\* Programs and builds stay what they are.
LEMMA AgreeFixed ==
    UNCHANGED fixed => (RanksAgree' <=> RanksAgree) /\ (RefusedAlike' <=> RefusedAlike)
BY DEF fixed, RanksAgree, SameBuild, RefusedAlike, MovesTogether, UsesGroup, Given, ValidPartition, Contiguous, Covered, End

\* On ranks with the same build every call takes the same way.
LEMMA SameWay ==
    ASSUME RanksAgree, FlowTypeOK, NEW r \in Ranks, NEW s \in Ranks, NEW c
    PROVE  /\ build[r] = build[s]
           /\ Path(c, r) = Path(c, s)
           /\ FinalJoin(c, r) = FinalJoin(c, s)
           /\ FromMerge(c, r) = FromMerge(c, s)
           /\ FromLocal(c, r) = FromLocal(c, s)
           /\ FromTargets(c, r) = FromTargets(c, s)
           /\ FromSizes(c, r) = FromSizes(c, s)
           /\ FromRanges(c, r) = FromRanges(c, s)
           /\ AfterPartition(r) = AfterPartition(s)
<1>1. build[r] = build[s]
  BY DEF RanksAgree, SameBuild, FlowTypeOK
<1>2. Path(c, r) = Path(c, s)
  BY <1>1 DEF Path
<1>3. FinalJoin(c, r) = FinalJoin(c, s)
  BY <1>1, <1>2 DEF FinalJoin, ReducesHidden
<1>4. FromLocal(c, r) = FromLocal(c, s) /\ FromMerge(c, r) = FromMerge(c, s)
  BY <1>1, <1>2, <1>3 DEF FromLocal, FromMerge
<1>5. FromTargets(c, r) = FromTargets(c, s)
  BY <1>1, <1>4 DEF FromTargets
<1> QED
  BY <1>1, <1>2, <1>3, <1>4, <1>5 DEF FromSizes, FromRanges, AfterPartition

\* Calls whose ranks pass the same of the partition have the same partition.
LEMMA SamePartition ==
    ASSUME NEW c \in Call, NEW d \in Call, \A r \in Ranks : Given(c, r) = Given(d, r)
    PROVE  /\ c.start = d.start /\ c.size = d.size
           /\ Covered(c) = Covered(d)
           /\ Contiguous(c) <=> Contiguous(d)
           /\ ValidPartition(c) <=> ValidPartition(d)
<1>1. \A r \in Ranks : c.start[r] = d.start[r] /\ c.size[r] = d.size[r] /\ c.global[r] = d.global[r]
  BY DEF Given
<1>2. c.start \in [Ranks -> Nat] /\ d.start \in [Ranks -> Nat] /\ c.size \in [Ranks -> Nat] /\ d.size \in [Ranks -> Nat]
  BY DEF Call
<1>3. c.start = d.start /\ c.size = d.size
  BY <1>1, <1>2
<1>4. Covered(c) = Covered(d)
  BY <1>3 DEF Covered, End
<1>5. Contiguous(c) <=> Contiguous(d)
  BY <1>3 DEF Contiguous, End
<1> QED
  BY <1>1, <1>3, <1>4, <1>5 DEF ValidPartition

\* What one rank finds in its cache is a valid partition, and all find it.
LEMMA KnownToAll ==
    ASSUME RanksAgree
    PROVE  FlowTypeOK /\ CacheInv =>
             \A r, s \in Ranks : \A j \in DOMAIN program :
               UsesGroup(program[j]) /\ next[r] <= j /\ Hits(program[j], r) # {} =>
                 Hits(program[j], s) # {} /\ ValidPartition(program[j])
<1> SUFFICES ASSUME FlowTypeOK, CacheInv, NEW r \in Ranks, NEW s \in Ranks, NEW j \in DOMAIN program,
                    UsesGroup(program[j]), next[r] <= j, Hits(program[j], r) # {}
             PROVE  Hits(program[j], s) # {} /\ ValidPartition(program[j])
  OBVIOUS
<1>1. PICK e \in cache[r] : e.key = Key(program[j], r)
  BY DEF Hits
<1>2. PICK i \in DOMAIN program :
        /\ UsesGroup(program[i]) /\ ValidPartition(program[i])
        /\ e = Entry(i, r)
        /\ \A u \in Ranks : Entry(i, u) \in cache[u] /\ i <= next[u]
  BY <1>1 DEF CacheInv
<1>3. Given(program[i], r) = Given(program[j], r)
  BY <1>1, <1>2 DEF Entry, Key
<1>4. i \in Nat /\ j \in Nat /\ next[r] \in Nat
  BY FlowTypes
<1>5. i <= j
  BY <1>2, <1>4
<1>6. \A u \in Ranks : Given(program[i], u) = Given(program[j], u)
  <2>1. CASE i = j
    BY <2>1
  <2>2. CASE i < j
    <3>1. MovesTogether
      BY DEF RanksAgree, FlowTypeOK
    <3> QED
      BY <1>2, <1>3, <2>2, <3>1 DEF MovesTogether
  <2> QED
    BY <1>4, <1>5, <2>1, <2>2
<1>7. Entry(i, s) \in Hits(program[j], s)
  BY <1>2, <1>6 DEF Hits, Entry, Key
<1>8. program[i] \in Call /\ program[j] \in Call
  BY FlowTypes
<1> QED
  BY <1>2, <1>6, <1>7, <1>8, SamePartition

\* So all have the same collectives ahead when they begin a call.
LEMMA SameEntry ==
    ASSUME RanksAgree
    PROVE  FlowTypeOK /\ CacheInv =>
             \A r, s \in Ranks : \A j \in DOMAIN program :
               UsesGroup(program[j]) /\ next[r] <= j /\ next[s] <= j =>
                 FromEntry(program[j], r) = FromEntry(program[j], s)
<1> SUFFICES ASSUME FlowTypeOK, CacheInv, NEW r \in Ranks, NEW s \in Ranks, NEW j \in DOMAIN program,
                    UsesGroup(program[j]), next[r] <= j, next[s] <= j
             PROVE  FromEntry(program[j], r) = FromEntry(program[j], s)
  OBVIOUS
<1>1. Hits(program[j], r) # {} <=> Hits(program[j], s) # {}
  BY KnownToAll
<1> QED
  BY <1>1, SameWay DEF FromEntry

\* A rank that has entered a call on the group is not refused, so no rank is.
LEMMA EnteredGrouped ==
    ASSUME RefusedAlike, FlowTypeOK, NEW r \in Ranks,
           pc[r] # "idle", UsesGroup(CallOf(r)), PlaceOK(r)
    PROVE  InGroup(r)
<1>1. Running(r) /\ r \notin CallOf(r).refused
  BY DEF PlaceOK
<1>2. next[r] \in DOMAIN program
  BY <1>1, FlowTypes
<1> QED
  BY <1>1, <1>2 DEF RefusedAlike, CallOf, InGroup, Grouped

LEMMA CollectivesGrouped ==
    ASSUME RefusedAlike, FlowInv, NEW r \in Ranks, pc[r] \in Collectives
    PROVE  InGroup(r) /\ pc[r] \in ToJoin(r)
BY EnteredGrouped DEF FlowInv, PlaceOK, Collectives

\* A rank in a collective is in the first it has ahead.
LEMMA FlowPairs == FlowInv /\ RefusedAlike => Paired
<1> SUFFICES ASSUME FlowInv, RefusedAlike, NEW r \in Ranks, NEW s \in Ranks,
                    pc[r] \in Collectives, pc[s] \in Collectives
             PROVE  pc[r] = pc[s] /\ next[r] = next[s]
  BY DEF Paired
<1>1. /\ InGroup(r) /\ pc[r] \in ToJoin(r)
      /\ InGroup(s) /\ pc[s] \in ToJoin(s)
  BY CollectivesGrouped
<1>2. next[r] \in Nat /\ next[s] \in Nat
  BY DEF FlowInv, FlowTypeOK
<1>3. ~ (next[r] < next[s]) /\ ~ (next[s] < next[r])
  BY <1>1, <1>2 DEF FlowInv, Abreast, InGroup, CallOf, Grouped
<1>4. next[r] = next[s]
  BY <1>2, <1>3
<1>5. ToJoin(r) = ToJoin(s)
  BY <1>1, <1>4 DEF FlowInv, Abreast
<1>6. pc[r] = pc[s]
  <2>1. build[r].gathers \in Merging /\ build[s].gathers \in Merging
    BY Gathers DEF FlowInv
  <2> QED
    BY <1>1, <1>5, <2>1 DEF Merging, ToJoin, FromRanges, FromSizes, FromTargets, FromLocal, FromMerge, FinalJoin, ReducesHidden, Collectives, FromEntry
<1> QED
  BY <1>4, <1>6

-----------------------------------------------------------------------------
\* Ranks that are all in one collective are in the same call on the group.
LEMMA AllInStep ==
    ASSUME RanksAgree, FlowInv, NEW place \in Collectives, AllIn(place)
    PROVE  /\ \A r \in Ranks : InGroup(r) /\ pc[r] = place /\ place \in ToJoin(r)
           /\ \A r, s \in Ranks : next[r] = next[s] /\ CallOf(r) = CallOf(s)
<1>1. \A r \in Ranks : pc[r] = place /\ pc[r] \in Collectives
  BY DEF AllIn
<1>2. \A r, s \in Ranks : next[r] = next[s]
  BY <1>1, FlowPairs DEF Paired, RanksAgree
<1>3. \A r \in Ranks : InGroup(r) /\ place \in ToJoin(r)
  BY <1>1, CollectivesGrouped DEF RanksAgree
<1> QED
  BY <1>1, <1>2, <1>3 DEF CallOf

\* What the end of a call of the ranks in S leaves.
LEMMA EndCallTypes ==
    ASSUME FlowTypeOK, NEW S \in SUBSET Ranks, NEW how \in {"returned", "raised"},
           \A r \in S : Running(r),
           EndCall(S, how), UNCHANGED <<fixed, cache>>
    PROVE  /\ FlowTypeOK'
           /\ \A r \in Ranks : DOMAIN outcome[r] = 1 .. (next[r] - 1)
           /\ \A r \in S :
                /\ next'[r] = next[r] + 1 /\ pc'[r] = "idle"
                /\ DOMAIN outcome'[r] = 1 .. next[r]
                /\ outcome'[r][next[r]] = how
                /\ \A i \in 1 .. (next[r] - 1) : outcome'[r][i] = outcome[r][i]
           /\ \A r \in Ranks \ S : next'[r] = next[r] /\ pc'[r] = pc[r] /\ outcome'[r] = outcome[r]
<1>1. /\ next' = [r \in Ranks |-> IF r \in S THEN next[r] + 1 ELSE next[r]]
      /\ pc' = [r \in Ranks |-> IF r \in S THEN "idle" ELSE pc[r]]
      /\ outcome' = [r \in Ranks |-> IF r \in S THEN Append(outcome[r], how) ELSE outcome[r]]
      /\ program' = program /\ build' = build /\ cache' = cache
  BY DEF EndCall, fixed
<1>2. Len(program) \in Nat
  BY FlowTypes
<1>3. \A r \in Ranks : /\ next[r] \in Nat \ {0} /\ next[r] <= Len(program) + 1
                       /\ outcome[r] \in Seq({"returned", "raised"}) /\ Len(outcome[r]) = next[r] - 1
  BY DEF FlowTypeOK
<1>4. \A r \in S : next[r] <= Len(program)
  BY DEF Running
<1>5. \A r \in Ranks : DOMAIN outcome[r] = 1 .. (next[r] - 1)
  BY <1>3
<1>6. ASSUME NEW r \in S
      PROVE  /\ outcome'[r] \in Seq({"returned", "raised"}) /\ Len(outcome'[r]) = next[r]
             /\ DOMAIN outcome'[r] = 1 .. next[r]
             /\ outcome'[r][next[r]] = how
             /\ \A i \in 1 .. (next[r] - 1) : outcome'[r][i] = outcome[r][i]
  <2>1. outcome'[r] = Append(outcome[r], how)
    BY <1>1
  <2> QED
    BY <1>3, <2>1
<1>7. /\ \A r \in S : next'[r] = next[r] + 1 /\ pc'[r] = "idle"
      /\ \A r \in Ranks \ S : next'[r] = next[r] /\ pc'[r] = pc[r] /\ outcome'[r] = outcome[r]
  BY <1>1
<1>8. FlowTypeOK'
  <2>1. \A r \in Ranks : /\ next'[r] \in Nat \ {0} /\ next'[r] <= Len(program) + 1
                         /\ outcome'[r] \in Seq({"returned", "raised"}) /\ Len(outcome'[r]) = next'[r] - 1
    <3> TAKE r \in Ranks
    <3>1. CASE r \in S
      BY <1>2, <1>3, <1>4, <1>6, <1>7, <3>1
    <3>2. CASE r \notin S
      BY <1>3, <1>7, <3>2
    <3> QED
      BY <3>1, <3>2
  <2>2. next' \in [Ranks -> Nat \ {0}] /\ outcome' \in [Ranks -> Seq({"returned", "raised"})]
    BY <1>1, <2>1
  <2>3. pc' \in [Ranks -> Places]
    BY <1>1 DEF FlowTypeOK, Places
  <2> QED
    BY <1>1, <2>1, <2>2, <2>3 DEF FlowTypeOK
<1> QED
  BY <1>5, <1>6, <1>7, <1>8

\* A step within a call of one rank that leaves it the same collectives ahead.
LEMMA MoveKeepsFlow ==
    ASSUME FlowInv, NEW q \in Ranks, NEW place \in Places,
           pc' = [pc EXCEPT ![q] = place],
           UNCHANGED <<fixed, next, cache, outcome>>,
           PlaceOK(q)',
           InGroup(q) => ToJoin(q)' = ToJoin(q)
    PROVE  FlowInv'
<1>1. FlowTypeOK'
  BY DEF FlowInv, FlowTypeOK, fixed
<1>2. \A r \in Ranks : r # q => pc'[r] = pc[r]
  BY DEF FlowInv, FlowTypeOK
<1>3. \A r \in Ranks : InGroup(r)' = InGroup(r) /\ CallOf(r)' = CallOf(r)
  BY DEF InGroup, Running, CallOf, fixed, Grouped
<1>4. \A r \in Ranks : \A c : /\ FromEntry(c, r)' = FromEntry(c, r)
                              /\ FromRanges(c, r)' = FromRanges(c, r)
                              /\ FromSizes(c, r)' = FromSizes(c, r)
                              /\ FromTargets(c, r)' = FromTargets(c, r)
                              /\ FromLocal(c, r)' = FromLocal(c, r)
                              /\ FromMerge(c, r)' = FromMerge(c, r)
                              /\ FinalJoin(c, r)' = FinalJoin(c, r)
                              /\ Hits(c, r)' = Hits(c, r)
  BY DEF FromEntry, FromRanges, FromSizes, FromTargets, FromLocal, FromMerge, FinalJoin, Hits, Path, ReducesHidden, fixed
<1>5. \A r \in Ranks : r # q => ToJoin(r)' = ToJoin(r)
  BY <1>2, <1>3, <1>4 DEF ToJoin, Merging
<1>6. \A r \in Ranks : PlaceOK(r)'
  <2> SUFFICES ASSUME NEW r \in Ranks, r # q PROVE PlaceOK(r)'
    OBVIOUS
  <2>1. PlaceOK(r)
    BY DEF FlowInv
  <2>2. Running(r)' = Running(r)
    BY DEF Running, fixed
  <2> QED
    BY <1>2, <1>3, <1>4, <1>5, <2>1, <2>2 DEF PlaceOK
<1>7. CacheInv'
  BY DEF FlowInv, CacheInv, Entry, fixed
<1>8. \A r, s \in Ranks : Abreast(r, s)'
  <2> SUFFICES ASSUME NEW r \in Ranks, NEW s \in Ranks PROVE Abreast(r, s)'
    OBVIOUS
  <2>1. Abreast(r, s)
    BY DEF FlowInv
  <2>2. InGroup(r) => ToJoin(r)' = ToJoin(r)
    BY <1>5
  <2>3. InGroup(s) => ToJoin(s)' = ToJoin(s)
    BY <1>5
  <2>4. next[r] = next[s] => InGroup(r) = InGroup(s)
    BY DEF InGroup, Running, CallOf, Grouped
  <2>5. next[r] = next[s] /\ InGroup(r) => ToJoin(r)' = ToJoin(s)'
    BY <2>1, <2>2, <2>3, <2>4 DEF Abreast
  <2>6. ASSUME next[r] < next[s], NEW i \in next[r] .. (next[s] - 1), Grouped(program[i])
        PROVE  i = next[r] /\ ToJoin(r)' = {}
    <3>1. i = next[r] /\ ToJoin(r) = {}
      BY <2>1, <2>6 DEF Abreast
    <3>2. next[s] <= Len(program) + 1 /\ next[r] \in Nat /\ next[s] \in Nat /\ Len(program) \in Nat
      BY FlowTypes DEF FlowInv, FlowTypeOK
    <3>3. InGroup(r)
      BY <2>6, <3>1, <3>2 DEF InGroup, Running, CallOf, Grouped
    <3> QED
      BY <2>2, <3>1, <3>3
  <2>7. next[r] < next[s] /\ InGroup(s) => ToJoin(s)' = FromEntry(CallOf(s), s)
    BY <2>1, <2>3 DEF Abreast
  <2>8. /\ next'[r] = next[r] /\ next'[s] = next[s] /\ program' = program
        /\ FromEntry(CallOf(s), s)' = FromEntry(CallOf(s), s)
    BY <1>3, <1>4 DEF fixed
  <2> QED
    BY <1>3, <2>5, <2>6, <2>7, <2>8 DEF Abreast, Grouped, UsesGroup
<1> QED
  BY <1>1, <1>6, <1>7, <1>8 DEF FlowInv

\* A rank that returns, or raises alone in a call of its own.
LEMMA LeaveKeepsFlow ==
    ASSUME RanksAgree, FlowInv, NEW q \in Ranks, NEW how \in {"returned", "raised"},
           Running(q),
           \/ pc[q] = "done"
           \/ pc[q] = "idle" /\ ~ Grouped(CallOf(q)),
           EndCall({q}, how), UNCHANGED <<fixed, cache>>
    PROVE  FlowInv'
<1> DEFINE n == next[q]
<1>1. /\ n \in Nat \ {0} /\ n <= Len(program) /\ Len(program) \in Nat
      /\ \A r \in Ranks : next[r] \in Nat \ {0} /\ next[r] <= Len(program) + 1
  BY FlowTypes DEF FlowInv, FlowTypeOK, Running
<1>2. /\ next' = [r \in Ranks |-> IF r = q THEN n + 1 ELSE next[r]]
      /\ pc' = [r \in Ranks |-> IF r = q THEN "idle" ELSE pc[r]]
      /\ outcome' = [r \in Ranks |-> IF r = q THEN Append(outcome[r], how) ELSE outcome[r]]
      /\ program' = program /\ build' = build /\ cache' = cache
  BY DEF EndCall, fixed
<1>3. /\ next'[q] = n + 1 /\ pc'[q] = "idle"
      /\ \A r \in Ranks : r # q => next'[r] = next[r] /\ pc'[r] = pc[r]
  BY <1>2
<1>6. FlowTypeOK'
  BY EndCallTypes DEF FlowInv
<1>7. \A r \in Ranks : \A c : /\ FromEntry(c, r)' = FromEntry(c, r)
                              /\ FromRanges(c, r)' = FromRanges(c, r)
                              /\ FromSizes(c, r)' = FromSizes(c, r)
                              /\ FromTargets(c, r)' = FromTargets(c, r)
                              /\ FromLocal(c, r)' = FromLocal(c, r)
                              /\ FromMerge(c, r)' = FromMerge(c, r)
                              /\ FinalJoin(c, r)' = FinalJoin(c, r)
                              /\ Hits(c, r)' = Hits(c, r)
  BY <1>2 DEF FromEntry, FromRanges, FromSizes, FromTargets, FromLocal, FromMerge, FinalJoin, Hits, Path, ReducesHidden
<1>8. \A r \in Ranks : r # q => InGroup(r)' = InGroup(r) /\ CallOf(r)' = CallOf(r) /\ ToJoin(r)' = ToJoin(r)
                                /\ Running(r)' = Running(r)
  BY <1>2, <1>3, <1>7 DEF InGroup, Running, CallOf, ToJoin, Merging, Grouped
<1>9. \A r \in Ranks : PlaceOK(r)'
  <2> SUFFICES ASSUME NEW r \in Ranks PROVE PlaceOK(r)'
    OBVIOUS
  <2>1. CASE r = q
    BY <1>3, <2>1 DEF PlaceOK, Collectives
  <2>2. CASE r # q
    <3>1. PlaceOK(r)
      BY DEF FlowInv
    <3> QED
      BY <1>3, <1>7, <1>8, <2>2, <3>1 DEF PlaceOK
  <2> QED
    BY <2>1, <2>2
<1>10. CacheInv'
  <2> SUFFICES ASSUME NEW r \in Ranks, NEW e \in cache[r]
               PROVE  \E i \in DOMAIN program :
                         /\ UsesGroup(program[i]) /\ ValidPartition(program[i])
                         /\ e = Entry(i, r)
                         /\ \A s \in Ranks : Entry(i, s) \in cache[s] /\ i <= next'[s]
    BY <1>2 DEF CacheInv, Entry
  <2>1. PICK i \in DOMAIN program :
             /\ UsesGroup(program[i]) /\ ValidPartition(program[i])
             /\ e = Entry(i, r)
             /\ \A s \in Ranks : Entry(i, s) \in cache[s] /\ i <= next[s]
    BY DEF FlowInv, CacheInv
  <2>2. i \in Nat
    BY FlowTypes DEF FlowInv
  <2>3. \A s \in Ranks : i <= next'[s]
    BY <1>1, <1>3, <2>1, <2>2
  <2> QED
    BY <2>1, <2>3
<1>11. ToJoin(q)' = FromEntry(CallOf(q)', q)
  BY <1>3, <1>7 DEF ToJoin, Merging
<1>12. InGroup(q) => ToJoin(q) = {}
  BY DEF InGroup, ToJoin, Merging, Grouped
<1>13. ASSUME NEW s \in Ranks, s # q, n + 1 = next[s], InGroup(s)
       PROVE  ToJoin(q)' = ToJoin(s)
  <2>1. next[s] \in DOMAIN program /\ UsesGroup(program[next[s]]) /\ program[next[s]] = CallOf(s)
    BY <1>1, <1>13, FlowTypes DEF InGroup, CallOf, FlowInv, Grouped
  <2>2. CallOf(q)' = CallOf(s)
    BY <1>2, <1>3, <1>13 DEF CallOf
  <2>3. ToJoin(s) = FromEntry(CallOf(s), s)
    BY <1>1, <1>13 DEF FlowInv, Abreast
  <2>4. FromEntry(CallOf(s), s) = FromEntry(CallOf(s), q)
    BY <1>1, <1>13, <2>1, SameEntry DEF FlowInv
  <2> QED
    BY <1>11, <2>2, <2>3, <2>4
<1>14. \A r, s \in Ranks : Abreast(r, s)'
  <2> SUFFICES ASSUME NEW r \in Ranks, NEW s \in Ranks PROVE Abreast(r, s)'
    OBVIOUS
  <2>1. CASE r # q /\ s # q
    <3>1. Abreast(r, s)
      BY DEF FlowInv
    <3> QED
      BY <1>2, <1>3, <1>7, <1>8, <2>1, <3>1 DEF Abreast
  <2>2. CASE r = q /\ s = q
    BY <1>1, <1>3, <2>2 DEF Abreast
  <2>3. CASE r = q /\ s # q
    <3>1. Abreast(q, s)
      BY DEF FlowInv
    <3>2. n + 1 = next[s] /\ InGroup(q)' => ToJoin(q)' = ToJoin(s)
      <4>1. n + 1 = next[s] /\ InGroup(q)' => InGroup(s)
        BY <1>2, <1>3 DEF InGroup, Running, CallOf, Grouped
      <4> QED
        BY <1>13, <2>3, <4>1
    <3>3. n + 1 < next[s] => \A i \in (n + 1) .. (next[s] - 1) : ~ Grouped(program[i])
      BY <1>1, <3>1 DEF Abreast
    <3>4. n + 1 < next[s] /\ InGroup(s) => ToJoin(s) = FromEntry(CallOf(s), s)
      BY <1>1, <3>1 DEF Abreast
    <3> QED
      BY <1>2, <1>3, <1>7, <1>8, <2>3, <3>2, <3>3, <3>4 DEF Abreast
  <2>4. CASE r # q /\ s = q
    <3>1. Abreast(r, q)
      BY DEF FlowInv
    <3>2. n + 1 = next[r] /\ InGroup(r) => ToJoin(r) = ToJoin(q)'
      BY <1>13, <2>4
    <3>3. ASSUME next[r] < n + 1, NEW i \in next[r] .. n, Grouped(program[i])
          PROVE  i = next[r] /\ ToJoin(r) = {}
      <4>1. CASE next[r] = n
        <5>1. i = n /\ InGroup(q) /\ InGroup(r)
          BY <1>1, <3>3, <4>1 DEF InGroup, Running, CallOf, Grouped
        <5> QED
          BY <1>12, <3>1, <4>1, <5>1 DEF Abreast
      <4>2. CASE next[r] < n
        <5>1. i # n
          <6> SUFFICES ASSUME i = n PROVE FALSE
            OBVIOUS
          <6>1. InGroup(q)
            BY <3>3 DEF InGroup, CallOf, Grouped
          <6>2. FromEntry(CallOf(q), q) = {}
            BY <1>12, <3>1, <4>2, <6>1 DEF Abreast
          <6> QED
            BY <6>2 DEF FromEntry, FromRanges, FromSizes, FromTargets, FromLocal, FromMerge
        <5>2. i \in next[r] .. (n - 1)
          BY <1>1, <3>3, <5>1
        <5> QED
          BY <3>1, <3>3, <4>2, <5>2 DEF Abreast
      <4> QED
        BY <1>1, <3>3, <4>1, <4>2
    <3>4. next'[s] - 1 = n /\ next'[s] = n + 1
      BY <1>1, <1>3, <2>4
    <3> QED
      BY <1>2, <1>3, <1>7, <1>8, <1>11, <2>4, <3>2, <3>3, <3>4 DEF Abreast
  <2> QED
    BY <2>1, <2>2, <2>3, <2>4
<1> QED
  BY <1>6, <1>9, <1>10, <1>14 DEF FlowInv

-----------------------------------------------------------------------------
\* Ranks that are all at the same point are abreast: this is where a collective
\* leaves them.
Level == \A r, s \in Ranks : next[r] = next[s] /\ pc[r] = pc[s]

LEMMA LevelIsFlow ==
    RanksAgree /\ FlowTypeOK /\ CacheInv /\ (\A r \in Ranks : PlaceOK(r)) /\ Level => FlowInv
<1> SUFFICES ASSUME RanksAgree, FlowTypeOK, CacheInv, \A r \in Ranks : PlaceOK(r), Level
             PROVE  \A r, s \in Ranks : Abreast(r, s)
  BY DEF FlowInv
<1> SUFFICES ASSUME NEW r \in Ranks, NEW s \in Ranks PROVE Abreast(r, s)
  OBVIOUS
<1>1. next[r] = next[s] /\ pc[r] = pc[s] /\ CallOf(r) = CallOf(s) /\ next[r] \in Nat \ {0}
  BY DEF Level, CallOf, FlowTypeOK
<1>2. InGroup(r) => FromEntry(CallOf(r), r) = FromEntry(CallOf(r), s)
  <2> SUFFICES ASSUME InGroup(r) PROVE FromEntry(CallOf(r), r) = FromEntry(CallOf(r), s)
    OBVIOUS
  <2>1. next[r] \in DOMAIN program /\ CallOf(r) = program[next[r]] /\ UsesGroup(program[next[r]])
    BY FlowTypes DEF InGroup, CallOf, Grouped
  <2> QED
    BY <1>1, <2>1, SameEntry
<1>3. InGroup(r) => ToJoin(r) = ToJoin(s)
  BY <1>1, <1>2, SameWay DEF ToJoin, Merging
<1> QED
  BY <1>1, <1>3 DEF Abreast

\* What the cache knows stays valid while calls only go on.
LEMMA CacheKept ==
    ASSUME FlowTypeOK, CacheInv, UNCHANGED <<fixed, cache>>,
           \A s \in Ranks : next'[s] \in Nat /\ next[s] <= next'[s]
    PROVE  CacheInv'
<1> SUFFICES ASSUME NEW r \in Ranks, NEW e \in cache[r]
             PROVE  \E i \in DOMAIN program :
                       /\ UsesGroup(program[i]) /\ ValidPartition(program[i])
                       /\ e = Entry(i, r)
                       /\ \A s \in Ranks : Entry(i, s) \in cache[s] /\ i <= next'[s]
  BY DEF CacheInv, Entry, fixed
<1>1. PICK i \in DOMAIN program :
           /\ UsesGroup(program[i]) /\ ValidPartition(program[i])
           /\ e = Entry(i, r)
           /\ \A s \in Ranks : Entry(i, s) \in cache[s] /\ i <= next[s]
  BY DEF CacheInv
<1>2. i \in Nat /\ \A s \in Ranks : next[s] \in Nat
  BY FlowTypes
<1> QED
  BY <1>1, <1>2

\* A collective after which all ranks go on to the same place.
LEMMA AllGoKeepsFlow ==
    ASSUME RanksAgree, FlowInv, NEW place \in Collectives, AllIn(place), NEW there \in Places,
           pc' = [r \in Ranks |-> there],
           UNCHANGED <<fixed, next, cache, outcome>>,
           \A r \in Ranks : PlaceOK(r)'
    PROVE  FlowInv'
<1>1. FlowTypeOK'
  BY DEF FlowInv, FlowTypeOK, fixed
<1>2. CacheInv'
  BY CacheKept, FlowTypes DEF FlowInv
<1>3. RanksAgree'
  BY AgreeFixed
<1>4. Level'
  BY AllInStep DEF Level
<1>5. RanksAgree' /\ FlowTypeOK' /\ CacheInv' /\ (\A r \in Ranks : PlaceOK(r))' /\ Level' => FlowInv'
  BY LevelIsFlow, PTL
<1> QED
  BY <1>1, <1>2, <1>3, <1>4, <1>5

\* A collective that makes all of them raise.
LEMMA AllRaiseKeepsFlow ==
    ASSUME RanksAgree, FlowInv, NEW place \in Collectives, AllIn(place),
           EndCall(Ranks, "raised"), UNCHANGED <<fixed, cache>>
    PROVE  FlowInv'
<1>1. /\ next' = [r \in Ranks |-> next[r] + 1]
      /\ pc' = [r \in Ranks |-> "idle"]
      /\ outcome' = [r \in Ranks |-> Append(outcome[r], "raised")]
      /\ program' = program /\ build' = build /\ cache' = cache
  BY DEF EndCall, fixed
<1>2. \A r \in Ranks : InGroup(r) /\ next[r] \in Nat \ {0}
  BY AllInStep DEF FlowInv, FlowTypeOK
<1>5. FlowTypeOK'
  BY <1>2, EndCallTypes DEF FlowInv, InGroup
<1>6. CacheInv'
  <2>1. \A r \in Ranks : next'[r] \in Nat /\ next[r] <= next'[r]
    BY <1>1, <1>2
  <2> QED
    BY <2>1, CacheKept DEF FlowInv
<1>7. \A r \in Ranks : PlaceOK(r)'
  BY <1>1 DEF PlaceOK, Collectives
<1>8. RanksAgree'
  BY AgreeFixed
<1>9. Level'
  BY <1>1, AllInStep DEF Level
<1>10. RanksAgree' /\ FlowTypeOK' /\ CacheInv' /\ (\A r \in Ranks : PlaceOK(r))' /\ Level' => FlowInv'
  BY LevelIsFlow, PTL
<1> QED
  BY <1>5, <1>6, <1>7, <1>8, <1>9, <1>10

-----------------------------------------------------------------------------
\* What the ranks gather of the partition is the call they are all in.
LEMMA GroupCallIsTheCall ==
    ASSUME RanksAgree, FlowInv, NEW place \in Collectives, AllIn(place), NEW r \in Ranks
    PROVE  /\ Contiguous(GroupCall) <=> Contiguous(CallOf(r))
           /\ Covered(GroupCall) = Covered(CallOf(r))
           /\ \A s \in Ranks : SizesMatch(s) <=> \A u \in Ranks : CallOf(r).global[u] \in {NoSize, Covered(CallOf(r))}
<1>1. \A s \in Ranks : CallOf(s) = CallOf(r)
  BY AllInStep
<1>2. \A s \in Ranks : GroupCall.start[s] = CallOf(r).start[s] /\ GroupCall.size[s] = CallOf(r).size[s]
  BY <1>1 DEF GroupCall
<1>3. Covered(GroupCall) = Covered(CallOf(r))
  BY <1>2 DEF Covered, End
<1>4. Contiguous(GroupCall) <=> Contiguous(CallOf(r))
  BY <1>2 DEF Contiguous, End
<1> QED
  BY <1>1, <1>3, <1>4 DEF SizesMatch

LEMMA RangesKeepFlow == RanksAgree /\ FlowInv /\ GatherRanges => FlowInv'
<1> SUFFICES ASSUME RanksAgree, FlowInv, GatherRanges PROVE FlowInv'
  OBVIOUS
<1>1. "ranges" \in Collectives /\ AllIn("ranges") /\ UNCHANGED <<fixed, cache>>
  BY DEF GatherRanges, Collectives
<1>2. CASE ~ Contiguous(GroupCall)
  BY <1>1, <1>2, AllRaiseKeepsFlow DEF GatherRanges
<1>3. CASE Contiguous(GroupCall)
  <2>1. pc' = [r \in Ranks |-> "sizes"] /\ UNCHANGED <<fixed, next, cache, outcome>>
    BY <1>1, <1>3 DEF GatherRanges
  <2>2. ASSUME NEW r \in Ranks PROVE PlaceOK(r)'
    <3>1. InGroup(r) /\ pc[r] = "ranges" /\ PlaceOK(r)
      BY <1>1, AllInStep DEF FlowInv
    <3>2. Contiguous(CallOf(r))
      BY <1>1, <1>3, GroupCallIsTheCall
    <3>3. CallOf(r)'.refused = {} /\ Running(r)' /\ UsesGroup(CallOf(r))' /\ CallOf(r)' = CallOf(r) /\ pc'[r] = "sizes"
      BY <2>1, <3>1 DEF InGroup, Running, CallOf, UsesGroup, fixed, Grouped
    <3>4. "sizes" \in ToJoin(r)'
      BY <3>3 DEF ToJoin, FromSizes, Merging
    <3>5. Hits(CallOf(r), r)' = {}
      BY <2>1, <3>1, <3>3 DEF PlaceOK, Hits
    <3> QED
      BY <3>2, <3>3, <3>4, <3>5 DEF PlaceOK, Contiguous, End
  <2> QED
    BY <1>1, <2>1, <2>2, AllGoKeepsFlow DEF Places, Collectives
<1> QED
  BY <1>2, <1>3

\* The sizes are compared by all in the same way; a valid partition enters every
\* cache at once.
LEMMA SizesKeepFlow == RanksAgree /\ FlowInv /\ GatherSizes => FlowInv'
<1> SUFFICES ASSUME RanksAgree, FlowInv, GatherSizes PROVE FlowInv'
  OBVIOUS
<1>1. "sizes" \in Collectives /\ AllIn("sizes") /\ UNCHANGED fixed
  BY DEF GatherSizes, Collectives
<1>2. PICK r0 \in Ranks : TRUE
  BY RanksAssumption
<1>3. PICK c \in Call : c = CallOf(r0)
  BY <1>1, <1>2, AllInStep, FlowTypes DEF InGroup, FlowInv, Grouped
<1>4. PICK n \in Nat \ {0} : n = next[r0]
  BY <1>2 DEF FlowInv, FlowTypeOK
<1>5. \A r \in Ranks : CallOf(r) = c /\ next[r] = n /\ pc[r] = "sizes" /\ InGroup(r)
  BY <1>1, <1>2, <1>3, <1>4, AllInStep
<1>6. n \in DOMAIN program /\ program[n] = c /\ UsesGroup(c)
  BY <1>2, <1>3, <1>4, <1>5, FlowTypes DEF InGroup, FlowInv, CallOf, Grouped
<1>7. Contiguous(c)
  BY <1>2, <1>3, <1>5 DEF FlowInv, PlaceOK
<1>8. \A r \in Ranks : SizesMatch(r) <=> ValidPartition(c)
  BY <1>1, <1>2, <1>3, <1>7, GroupCallIsTheCall DEF ValidPartition
<1>9. CASE ~ ValidPartition(c)
  <2>1. {r \in Ranks : SizesMatch(r)} = {}
    BY <1>8, <1>9
  <2>2. EndCall(Ranks, "raised")
    BY <2>1 DEF GatherSizes, EndCall
  <2>3. cache' = [r \in Ranks |-> cache[r]]
    BY <2>1 DEF GatherSizes
  <2>4. cache' = cache
    BY <2>3 DEF FlowInv, FlowTypeOK
  <2> QED
    BY <1>1, <2>2, <2>4, AllRaiseKeepsFlow
<1>10. CASE ValidPartition(c)
  <2>1. {r \in Ranks : SizesMatch(r)} = Ranks
    BY <1>8, <1>10
  <2>2. /\ pc' = [r \in Ranks |-> AfterPartition(r)]
        /\ next' = [r \in Ranks |-> next[r]]
        /\ outcome' = [r \in Ranks |-> outcome[r]]
        /\ cache' = [r \in Ranks |-> cache[r] \cup {[key |-> Key(CallOf(r), r), covered |-> Covered(GroupCall)]}]
        /\ program' = program /\ build' = build
    BY <2>1 DEF GatherSizes, fixed
  <2>3. next' = next /\ outcome' = outcome
    BY <2>2 DEF FlowInv, FlowTypeOK
  <2>4. \A r \in Ranks : cache'[r] = cache[r] \cup {Entry(n, r)}
    BY <1>1, <1>2, <1>3, <1>5, <1>6, <2>2, GroupCallIsTheCall DEF Entry
  <2>5. \A r \in Ranks : CallOf(r)' = c /\ InGroup(r)' /\ Running(r)' /\ UsesGroup(c)'
    BY <1>5, <1>6, <2>2, <2>3 DEF CallOf, InGroup, Running, UsesGroup, Grouped
  <2>6. \A r \in Ranks : pc'[r] = AfterPartition(r) /\ AfterPartition(r) \in {"targets", "local"}
    BY <2>2 DEF AfterPartition
  <2>7. FlowTypeOK'
    BY <2>2, <2>3, <2>6 DEF FlowInv, FlowTypeOK, Places, Collectives
  <2>8. CacheInv'
    <3>0. program' = program /\ next' = next
      BY <2>2, <2>3
    <3> SUFFICES ASSUME NEW r \in Ranks, NEW e \in cache'[r]
                 PROVE  \E i \in DOMAIN program :
                           /\ UsesGroup(program[i]) /\ ValidPartition(program[i])
                           /\ e = Entry(i, r)
                           /\ \A s \in Ranks : Entry(i, s) \in cache'[s] /\ i <= next[s]
      BY <3>0 DEF CacheInv, Entry
    <3>1. CASE e \in cache[r]
      BY <2>4, <3>1 DEF FlowInv, CacheInv
    <3>2. CASE e = Entry(n, r)
      BY <1>4, <1>5, <1>6, <1>10, <2>4, <3>2
    <3> QED
      BY <2>4, <3>1, <3>2
  <2>9. ASSUME NEW r \in Ranks PROVE PlaceOK(r)'
    <3>1. Entry(n, r) \in Hits(c, r)'
      BY <1>6, <2>4 DEF Hits, Entry
    <3>2. pc'[r] = "targets" => "targets" \in ToJoin(r)'
      BY <2>2, <2>5, <2>6 DEF ToJoin, FromTargets, AfterPartition, Merging
    <3>3. c.refused = {}
      BY <1>3, <1>5 DEF InGroup, Grouped
    <3> QED
      BY <2>5, <2>6, <3>1, <3>2, <3>3 DEF PlaceOK, Collectives
  <2>10. RanksAgree'
    BY <1>1, AgreeFixed
  <2>11. Level'
    BY <1>1, <1>5, <2>3, <2>6, SameWay DEF Level, FlowInv
  <2>12. RanksAgree' /\ FlowTypeOK' /\ CacheInv' /\ (\A r \in Ranks : PlaceOK(r))' /\ Level' => FlowInv'
    BY LevelIsFlow, PTL
  <2> QED
    BY <2>7, <2>8, <2>9, <2>10, <2>11, <2>12
<1> QED
  BY <1>9, <1>10

\* The other collectives: all go on, or all raise.
LEMMA TargetsKeepFlow == RanksAgree /\ FlowInv /\ ReduceTargets => FlowInv'
<1> SUFFICES ASSUME RanksAgree, FlowInv, ReduceTargets PROVE FlowInv'
  OBVIOUS
<1>1. "targets" \in Collectives /\ AllIn("targets") /\ UNCHANGED <<fixed, cache>>
  BY DEF ReduceTargets, Collectives
<1>2. CASE EndCall(Ranks, "raised")
  BY <1>1, <1>2, AllRaiseKeepsFlow
<1>3. CASE pc' = [r \in Ranks |-> "local"] /\ UNCHANGED <<next, outcome>>
  <2>1. ASSUME NEW r \in Ranks PROVE PlaceOK(r)'
    <3>1. InGroup(r) /\ pc[r] = "targets" /\ PlaceOK(r)
      BY <1>1, AllInStep DEF FlowInv
    <3> QED
      BY <1>1, <1>3, <3>1 DEF PlaceOK, Collectives, InGroup, Running, CallOf, UsesGroup, Hits, fixed, Grouped
  <2> QED
    BY <1>1, <1>3, <2>1, AllGoKeepsFlow DEF Places
<1> QED
  BY <1>2, <1>3 DEF ReduceTargets

LEMMA OwnersKeepFlow == RanksAgree /\ FlowInv /\ ReduceOwners => FlowInv'
<1> SUFFICES ASSUME RanksAgree, FlowInv, ReduceOwners PROVE FlowInv'
  OBVIOUS
<1>1. "owner" \in Collectives /\ AllIn("owner") /\ UNCHANGED <<fixed, cache>>
  BY DEF ReduceOwners, Collectives
<1>2. CASE EndCall(Ranks, "raised")
  BY <1>1, <1>2, AllRaiseKeepsFlow
<1>3. CASE pc' = [r \in Ranks |-> build[r].gathers] /\ UNCHANGED <<next, outcome>>
  <2>0. PICK there \in Merging : \A r \in Ranks : build[r].gathers = there
    BY RanksAssumption, Gathers, SameWay DEF FlowInv
  <2>1. ASSUME NEW r \in Ranks PROVE PlaceOK(r)'
    <3>1. InGroup(r) /\ pc[r] = "owner" /\ PlaceOK(r)
      BY <1>1, AllInStep DEF FlowInv
    <3>2. there \in ToJoin(r)'
      BY <1>1, <1>3, <2>0 DEF ToJoin, FromMerge, fixed, Merging
    <3> QED
      BY <1>1, <1>3, <2>0, <3>1, <3>2 DEF PlaceOK, InGroup, Running, CallOf, Grouped, UsesGroup, Hits, fixed, Merging
  <2>2. pc' = [r \in Ranks |-> there]
    BY <1>3, <2>0
  <2> QED
    BY <1>1, <2>1, <2>2, <1>3, AllGoKeepsFlow DEF Places, Collectives, Merging
<1> QED
  BY <1>2, <1>3 DEF ReduceOwners

LEMMA MergeKeepsFlow ==
    RanksAgree /\ FlowInv /\ (\E place \in {"merge", "merge_list"} : Merge(place)) => FlowInv'
<1> SUFFICES ASSUME RanksAgree, FlowInv, NEW place \in {"merge", "merge_list"}, Merge(place)
             PROVE  FlowInv'
  OBVIOUS
<1>1. place \in Collectives /\ AllIn(place) /\ UNCHANGED <<fixed, next, cache, outcome>>
  BY DEF Merge, Collectives
<1>2. PICK r0 \in Ranks : TRUE
  BY RanksAssumption
<1>3. PICK there \in {"backward", "done"} : there = AfterForward(CallOf(r0))
  BY DEF AfterForward
<1>4. pc' = [r \in Ranks |-> there]
  BY <1>1, <1>2, <1>3, AllInStep DEF Merge
<1>5. ASSUME NEW r \in Ranks PROVE PlaceOK(r)'
  <2>1. InGroup(r) /\ pc[r] = place /\ PlaceOK(r)
    BY <1>1, AllInStep DEF FlowInv
  <2> QED
    BY <1>1, <1>3, <1>4, <2>1 DEF PlaceOK, Collectives, InGroup, Running, CallOf, UsesGroup, Hits, fixed, Grouped
<1> QED
  BY <1>1, <1>3, <1>4, <1>5, AllGoKeepsFlow DEF Places

LEMMA ReduceKeepsFlow ==
    RanksAgree /\ FlowInv /\ (\E place \in {"reduce32", "reduce16"} : ReduceHidden(place)) => FlowInv'
<1> SUFFICES ASSUME RanksAgree, FlowInv, NEW place \in {"reduce32", "reduce16"}, ReduceHidden(place)
             PROVE  FlowInv'
  OBVIOUS
<1>1. place \in Collectives /\ AllIn(place) /\ UNCHANGED <<fixed, next, cache, outcome>> /\ pc' = [r \in Ranks |-> "done"]
  BY DEF ReduceHidden, Collectives
<1>2. ASSUME NEW r \in Ranks PROVE PlaceOK(r)'
  <2>1. InGroup(r) /\ pc[r] = place /\ PlaceOK(r)
    BY <1>1, AllInStep DEF FlowInv
  <2> QED
    BY <1>1, <2>1 DEF PlaceOK, Collectives, InGroup, Running, CallOf, UsesGroup, Hits, fixed, Grouped
<1> QED
  BY <1>1, <1>2, AllGoKeepsFlow DEF Places

LEMMA JointKeepsFlow == RanksAgree /\ FlowInv /\ Joint => FlowInv'
BY RangesKeepFlow, SizesKeepFlow, TargetsKeepFlow, OwnersKeepFlow, MergeKeepsFlow, ReduceKeepsFlow DEF Joint

-----------------------------------------------------------------------------
\* A rank's own steps do not change what it has ahead.
LEMMA EnterKeepsFlow == ASSUME RanksAgree, FlowInv, NEW q \in Ranks, Enter(q) PROVE FlowInv'
<1> DEFINE c == CallOf(q)
<1>1. pc[q] = "idle" /\ Running(q) /\ UNCHANGED <<fixed, cache>>
  BY DEF Enter
<1>2. CASE EndCall({q}, "raised") /\ ~ Grouped(c)
  BY <1>1, <1>2, LeaveKeepsFlow
<1>3. CASE Goto(q, IF ~ UsesGroup(c) THEN "local"
                   ELSE IF Hits(c, q) # {} THEN AfterPartition(q) ELSE "ranges") /\ q \notin c.refused
  <2>1. PICK there \in {"local", "targets", "ranges"} :
            there = IF ~ UsesGroup(c) THEN "local"
                    ELSE IF Hits(c, q) # {} THEN AfterPartition(q) ELSE "ranges"
    BY DEF AfterPartition
  <2>2. pc' = [pc EXCEPT ![q] = there] /\ UNCHANGED <<next, outcome>>
    BY <1>3, <2>1 DEF Goto
  <2>3. pc'[q] = there
    BY <2>2 DEF FlowInv, FlowTypeOK
  <2>4. /\ CallOf(q)' = c /\ Running(q)' /\ Hits(c, q)' = Hits(c, q)
        /\ FromRanges(c, q)' = FromRanges(c, q) /\ FromTargets(c, q)' = FromTargets(c, q)
        /\ FromLocal(c, q)' = FromLocal(c, q)
    BY <1>1, <2>2 DEF CallOf, Running, Hits, FromRanges, FromSizes, FromTargets, FromLocal, FromMerge, FinalJoin, Path, ReducesHidden, fixed
  <2>5. UsesGroup(c) => ToJoin(q)' = ToJoin(q)
    <3>1. ToJoin(q) = FromEntry(c, q)
      BY <1>1 DEF ToJoin, Merging
    <3>2. there = "local" /\ UsesGroup(c) => ~ build[q].validate
      BY <2>1 DEF AfterPartition
    <3>3. ~ build[q].validate => FromTargets(c, q) = FromLocal(c, q)
      BY DEF FromTargets
    <3> QED
      BY <2>1, <2>3, <2>4, <3>1, <3>2, <3>3 DEF ToJoin, FromEntry, AfterPartition, Merging
  <2>6. there \in Collectives => UsesGroup(c) /\ there \in ToJoin(q)'
    BY <2>1, <2>3, <2>4 DEF ToJoin, FromRanges, FromTargets, AfterPartition, Collectives, Merging
  <2>7. UsesGroup(c) => IF there = "ranges" THEN Hits(c, q) = {} ELSE Hits(c, q) # {}
    BY <2>1 DEF AfterPartition
  <2>8. PlaceOK(q)'
    BY <1>3, <2>1, <2>3, <2>4, <2>6, <2>7 DEF PlaceOK, UsesGroup, Collectives
  <2>9. InGroup(q) => ToJoin(q)' = ToJoin(q)
    BY <2>5 DEF InGroup, Grouped
  <2> QED
    BY <1>1, <2>2, <2>8, <2>9, MoveKeepsFlow DEF Places, Collectives
<1>4. q \in c.refused => ~ Grouped(c)
  BY DEF Grouped
<1> QED
  BY <1>2, <1>3, <1>4 DEF Enter, MetadataRefused, Grouped

\* From local to owner count or merge.
LEMMA LocalKeepsFlow == ASSUME FlowInv, NEW q \in Ranks, LocalChunk(q) PROVE FlowInv'
<1>1. pc[q] = "local" /\ UNCHANGED <<fixed, cache>>
  BY DEF LocalChunk
<1>2. PICK there \in {"local", AfterLocal(CallOf(q), q)} : Goto(q, there)
  BY DEF LocalChunk
<1>3. there \in {"local", "owner", "backward", "done"} \cup Merging
  BY <1>2, Gathers DEF AfterLocal, AfterForward, FlowInv
<1>4. pc' = [pc EXCEPT ![q] = there] /\ UNCHANGED <<next, outcome>> /\ pc'[q] = there
  BY <1>2 DEF Goto, FlowInv, FlowTypeOK
<1>5. PlaceOK(q) /\ Running(q)
  BY <1>1 DEF FlowInv, PlaceOK
<1>6. /\ CallOf(q)' = CallOf(q) /\ Running(q)' /\ Hits(CallOf(q), q)' = Hits(CallOf(q), q)
      /\ FromMerge(CallOf(q), q)' = FromMerge(CallOf(q), q)
      /\ FromLocal(CallOf(q), q)' = FromLocal(CallOf(q), q)
  BY <1>1, <1>4, <1>5 DEF CallOf, Running, Hits, FromLocal, FromMerge, FinalJoin, Path, ReducesHidden, fixed
<1>7. UsesGroup(CallOf(q)) => there \in {"local", "owner"} \cup Merging
  BY <1>2, Gathers DEF AfterLocal, FlowInv
<1>8. there = "owner" => UsesGroup(CallOf(q)) /\ build[q].validate /\ Path(CallOf(q), q) = "portable"
  BY <1>2, Gathers DEF AfterLocal, AfterForward, FlowInv, Merging
<1>9. UsesGroup(CallOf(q)) /\ there \in Merging => ~ (build[q].validate /\ Path(CallOf(q), q) = "portable")
  BY <1>2 DEF AfterLocal, Merging
<1>10. there \in Merging => UsesGroup(CallOf(q)) /\ there = build[q].gathers
  BY <1>2 DEF AfterLocal, AfterForward, Merging
<1>11. UsesGroup(CallOf(q)) => ToJoin(q)' = ToJoin(q)
  <2>1. ToJoin(q) = FromLocal(CallOf(q), q)
    BY <1>1 DEF ToJoin, Merging
  <2>2. UsesGroup(CallOf(q)) /\ there \in Merging => FromMerge(CallOf(q), q) = FromLocal(CallOf(q), q)
    BY <1>9 DEF FromLocal
  <2> QED
    BY <1>4, <1>6, <1>7, <2>1, <2>2 DEF ToJoin, Merging
<1>12. PlaceOK(q)'
  <2>1. there \in Collectives => UsesGroup(CallOf(q)) /\ there \in ToJoin(q)'
    BY <1>1, <1>3, <1>4, <1>6, <1>8, <1>10 DEF ToJoin, FromLocal, FromMerge, Collectives, Merging, fixed
  <2>2. UsesGroup(CallOf(q)) => Hits(CallOf(q), q) # {}
    BY <1>1, <1>5 DEF PlaceOK, Merging
  <2> QED
    BY <1>1, <1>3, <1>4, <1>5, <1>6, <2>1, <2>2 DEF PlaceOK, UsesGroup, Merging
<1> QED
  BY <1>1, <1>3, <1>4, <1>11, <1>12, MoveKeepsFlow DEF Places, Collectives, InGroup, Grouped, Merging

\* From a backward to the reduction of grad_hidden, where the call has one.
LEMMA BackwardKeepsFlow ==
    ASSUME FlowInv, NEW q \in Ranks, BackwardTokens(q) \/ BackwardTile(q) \/ BackwardWhole(q)
    PROVE  FlowInv'
<1>1. pc[q] = "backward" /\ UNCHANGED <<fixed, cache>>
  BY DEF BackwardTokens, BackwardTile, BackwardWhole
<1>2. PICK there \in {"backward", AfterBackward(CallOf(q), q)} : Goto(q, there)
  BY DEF BackwardTokens, BackwardTile, BackwardWhole
<1>3. there \in {"backward", "reduce32", "reduce16", "done"}
  BY <1>2 DEF AfterBackward, ReducesHidden
<1>4. pc' = [pc EXCEPT ![q] = there] /\ UNCHANGED <<next, outcome>> /\ pc'[q] = there
  BY <1>2 DEF Goto, FlowInv, FlowTypeOK
<1>5. PlaceOK(q) /\ Running(q)
  BY <1>1 DEF FlowInv, PlaceOK
<1>6. /\ CallOf(q)' = CallOf(q) /\ Running(q)' /\ Hits(CallOf(q), q)' = Hits(CallOf(q), q)
      /\ FinalJoin(CallOf(q), q)' = FinalJoin(CallOf(q), q)
  BY <1>1, <1>4, <1>5 DEF CallOf, Running, Hits, FinalJoin, Path, ReducesHidden, fixed
<1>7. UsesGroup(CallOf(q)) /\ there = "done" => FinalJoin(CallOf(q), q) = {}
  BY <1>2 DEF AfterBackward, FinalJoin, ReducesHidden
<1>8. there \in {"reduce32", "reduce16"} =>
        UsesGroup(CallOf(q)) /\ there \in FinalJoin(CallOf(q), q)
  BY <1>2 DEF AfterBackward, FinalJoin
<1>9. UsesGroup(CallOf(q)) => ToJoin(q)' = ToJoin(q)
  BY <1>1, <1>3, <1>4, <1>6, <1>7 DEF ToJoin, Merging
<1>10. PlaceOK(q)'
  <2>1. there \in Collectives => UsesGroup(CallOf(q)) /\ there \in ToJoin(q)'
    BY <1>3, <1>4, <1>6, <1>8 DEF ToJoin, Collectives, Merging
  <2>2. UsesGroup(CallOf(q)) => Hits(CallOf(q), q) # {}
    BY <1>1, <1>5 DEF PlaceOK
  <2> QED
    BY <1>1, <1>3, <1>4, <1>5, <1>6, <2>1, <2>2 DEF PlaceOK, UsesGroup
<1> QED
  BY <1>1, <1>3, <1>4, <1>9, <1>10, MoveKeepsFlow DEF Places, Collectives, InGroup, Grouped

LEMMA ReturnKeepsFlow == ASSUME RanksAgree, FlowInv, NEW q \in Ranks, Return(q) PROVE FlowInv'
<1>1. pc[q] = "done" /\ EndCall({q}, "returned") /\ UNCHANGED <<fixed, cache>>
  BY DEF Return
<1>2. Running(q)
  BY <1>1 DEF FlowInv, PlaceOK
<1> QED
  BY <1>1, <1>2, LeaveKeepsFlow

LEMMA InitFlow == RanksAgree /\ Init => FlowInv
<1> SUFFICES ASSUME RanksAgree, Init PROVE FlowInv
  OBVIOUS
<1>1. \A r \in Ranks : next[r] = 1 /\ pc[r] = "idle" /\ outcome[r] = <<>> /\ cache[r] = {}
  BY DEF Init
<1>2. FlowTypeOK
  <2>1. program \in Seq(Call) /\ Len(program) \in Nat
    BY ProgramsAssumption DEF Init
  <2> QED
    BY <1>1, <2>1 DEF Init, FlowTypeOK, Places
<1>3. CacheInv /\ Level /\ \A r \in Ranks : PlaceOK(r)
  BY <1>1 DEF CacheInv, Level, PlaceOK, Collectives
<1> QED
  BY <1>2, <1>3, LevelIsFlow

LEMMA StepsKeepFixed == [Next]_vars => UNCHANGED fixed
BY DEF Next, Joint, Own, vars, GatherRanges, GatherSizes, ReduceTargets, ReduceOwners, Merge, ReduceHidden,
       Enter, LocalChunk, BackwardTokens, BackwardTile, BackwardWhole, Return

LEMMA FlowStep == RanksAgree /\ FlowInv /\ [Next]_vars => FlowInv'
<1> SUFFICES ASSUME RanksAgree, FlowInv, [Next]_vars PROVE FlowInv'
  OBVIOUS
<1>1. CASE Joint
  BY <1>1, JointKeepsFlow
<1>2. CASE \E r \in Ranks : Own(r)
  BY <1>2, EnterKeepsFlow, LocalKeepsFlow, BackwardKeepsFlow, ReturnKeepsFlow DEF Own
<1>3. CASE UNCHANGED vars
  <2>1. UNCHANGED <<program, build, next, pc, cache, outcome>>
    BY <1>3 DEF vars, fixed
  <2>2. \A r \in Ranks : ToJoin(r)' = ToJoin(r) /\ InGroup(r)' = InGroup(r) /\ PlaceOK(r)' = PlaceOK(r)
    BY <2>1 DEF ToJoin, InGroup, PlaceOK, Running, CallOf, Hits, FromEntry, FromRanges, FromSizes, FromTargets, FromLocal, FromMerge, FinalJoin, Path, ReducesHidden, UsesGroup, Merging, Grouped
  <2>3. \A r, s \in Ranks : Abreast(r, s)' = Abreast(r, s)
    BY <2>1, <2>2 DEF Abreast, FromEntry, FromRanges, FromSizes, FromTargets, FromLocal, FromMerge, FinalJoin, Path, ReducesHidden, Hits, CallOf, UsesGroup
  <2>4. FlowTypeOK'
    BY <2>1 DEF FlowInv, FlowTypeOK
  <2>5. CacheInv'
    BY <2>1 DEF FlowInv, CacheInv, Entry
  <2> QED
    BY <2>2, <2>3, <2>4, <2>5 DEF FlowInv
<1> QED
  BY <1>1, <1>2, <1>3 DEF Next

\* Ranks that agree (one build, calls refused alike, partitions that change
\* together) have the same collectives ahead in a call, and one that is a call behind
\* has none left.
THEOREM FlowInvariant == Spec => [](RanksAgree => FlowInv)
<1>1. Init => (RanksAgree => FlowInv)
  BY InitFlow
<1>2. (RanksAgree => FlowInv) /\ [Next]_vars => (RanksAgree => FlowInv)'
  <2>1. [Next]_vars => UNCHANGED fixed
    BY StepsKeepFixed
  <2> QED
    BY <2>1, AgreeFixed, FlowStep
<1> QED
  BY <1>1, <1>2, PTL DEF Spec

-----------------------------------------------------------------------------
\* Where ranks need not agree, only refuse calls alike: a rank goes through a call
\* on the group past exactly one merge or raises in it with all the others, so the
\* merges and the raises keep the ranks' calls in step even where their caches and
\* builds send them into different collectives.
BeforeMerge == {"idle", "ranges", "sizes", "targets", "local", "owner", "merge", "merge_list"}

PlaceStep(r) ==
    /\ pc[r] # "idle" => Running(r) /\ r \notin CallOf(r).refused
    /\ pc[r] \in Collectives => UsesGroup(CallOf(r))

InStep(r, s) ==
    /\ next[r] = next[s] /\ InGroup(r) => (pc[r] \in BeforeMerge <=> pc[s] \in BeforeMerge)
    /\ next[r] < next[s] =>
        /\ \A i \in next[r] .. (next[s] - 1) :
              Grouped(program[i]) => i = next[r] /\ pc[r] \notin BeforeMerge
        /\ InGroup(s) => pc[s] \in BeforeMerge

\* What raised on one rank in a call they make together has raised on all.
RaisedOnAll ==
    \A r, s \in Ranks : \A i \in DOMAIN outcome[r] :
        Grouped(program[i]) /\ outcome[r][i] = "raised" =>
            i \in DOMAIN outcome[s] /\ outcome[s][i] = "raised"

\* What is refused for a rank's arguments has raised on it.
RefusedRaised ==
    \A r \in Ranks : \A i \in DOMAIN outcome[r] :
        r \in program[i].refused => outcome[r][i] = "raised"

StepInv ==
    /\ FlowTypeOK
    /\ \A r \in Ranks : PlaceStep(r)
    /\ \A r, s \in Ranks : InStep(r, s)
    /\ RaisedOnAll
    /\ RefusedRaised

LEMMA EnteredStep ==
    ASSUME RefusedAlike, FlowTypeOK, NEW r \in Ranks,
           pc[r] # "idle", UsesGroup(CallOf(r)), PlaceStep(r)
    PROVE  InGroup(r)
<1>1. Running(r) /\ r \notin CallOf(r).refused
  BY DEF PlaceStep
<1>2. next[r] \in DOMAIN program
  BY <1>1, FlowTypes
<1> QED
  BY <1>1, <1>2 DEF RefusedAlike, CallOf, InGroup, Grouped

\* Ranks that are all in one collective are in one call.
LEMMA AllInOneCall ==
    ASSUME RefusedAlike, StepInv, NEW place \in Collectives, AllIn(place)
    PROVE  /\ \A r \in Ranks : InGroup(r) /\ pc[r] = place
           /\ \A r, s \in Ranks : next[r] = next[s] /\ CallOf(r) = CallOf(s)
<1>1. \A r \in Ranks : pc[r] = place /\ pc[r] \in Collectives /\ pc[r] # "idle"
  BY DEF AllIn, Collectives
<1>2. \A r \in Ranks : InGroup(r)
  BY <1>1, EnteredStep DEF StepInv, PlaceStep
<1>3. \A r \in Ranks : next[r] \in Nat
  BY DEF StepInv, FlowTypeOK
<1>4. ASSUME NEW r \in Ranks, NEW s \in Ranks, next[r] < next[s] PROVE FALSE
  <2>1. next[r] \in next[r] .. (next[s] - 1) /\ Grouped(program[next[r]])
    BY <1>2, <1>3, <1>4 DEF InGroup, CallOf
  <2> QED
    BY <1>1, <1>2, <1>4, <2>1 DEF StepInv, InStep
<1>5. \A r, s \in Ranks : next[r] = next[s]
  BY <1>3, <1>4
<1> QED
  BY <1>1, <1>2, <1>5 DEF CallOf

\* Steps of which no call ends, of one rank or of all.
LEMMA MoveKeepsStep ==
    ASSUME StepInv, UNCHANGED <<fixed, next, outcome>>, FlowTypeOK',
           \A r \in Ranks : PlaceStep(r)',
           \A r \in Ranks : InGroup(r) => (pc[r] \in BeforeMerge <=> pc'[r] \in BeforeMerge)
    PROVE  StepInv'
<1>1. \A r \in Ranks : InGroup(r)' = InGroup(r)
  BY DEF InGroup, Running, CallOf, fixed, Grouped, UsesGroup
<1>2. RaisedOnAll' /\ RefusedRaised'
  BY DEF StepInv, RaisedOnAll, RefusedRaised, Grouped, UsesGroup, fixed
<1>3. ASSUME NEW r \in Ranks, NEW s \in Ranks PROVE InStep(r, s)'
  <2>1. InStep(r, s) /\ program' = program /\ next' = next
    BY DEF StepInv, fixed
  <2>2. next[r] = next[s] => InGroup(r) = InGroup(s)
    BY DEF InGroup, Running, CallOf
  <2>3. ASSUME next[r] < next[s], NEW i \in next[r] .. (next[s] - 1), Grouped(program[i])
        PROVE  i = next[r] /\ pc'[r] \notin BeforeMerge
    <3>1. i = next[r] /\ pc[r] \notin BeforeMerge
      BY <2>1, <2>3 DEF InStep
    <3>2. next[s] <= Len(program) + 1 /\ next[r] \in Nat /\ next[s] \in Nat /\ Len(program) \in Nat
      BY FlowTypes DEF StepInv, FlowTypeOK
    <3>3. InGroup(r)
      BY <2>3, <3>1, <3>2 DEF InGroup, Running, CallOf
    <3> QED
      BY <3>1, <3>3
  <2> QED
    BY <1>1, <2>1, <2>2, <2>3 DEF InStep, Grouped, UsesGroup
<1> QED
  BY <1>2, <1>3 DEF StepInv

\* A rank that returns, or raises alone in a call of its own.
LEMMA LeaveKeepsStep ==
    ASSUME StepInv, NEW q \in Ranks, NEW how \in {"returned", "raised"}, Running(q),
           \/ pc[q] = "done" /\ how = "returned"
           \/ pc[q] = "idle" /\ how = "raised" /\ ~ Grouped(CallOf(q)),
           EndCall({q}, how), UNCHANGED <<fixed, cache>>
    PROVE  StepInv'
<1> DEFINE n == next[q]
<1>1. /\ FlowTypeOK'
      /\ next'[q] = n + 1 /\ pc'[q] = "idle"
      /\ DOMAIN outcome[q] = 1 .. (n - 1) /\ DOMAIN outcome'[q] = 1 .. n
      /\ outcome'[q][n] = how
      /\ \A i \in 1 .. (n - 1) : outcome'[q][i] = outcome[q][i]
      /\ \A r \in Ranks \ {q} : next'[r] = next[r] /\ pc'[r] = pc[r] /\ outcome'[r] = outcome[r]
  BY EndCallTypes DEF StepInv
<1>2. program' = program /\ n \in Nat \ {0} /\ \A r \in Ranks : next[r] \in Nat \ {0}
  BY DEF StepInv, FlowTypeOK, fixed
<1>3. \A c : Grouped(c)' = Grouped(c)
  BY DEF Grouped, UsesGroup
<1>4. \A r \in Ranks \ {q} : InGroup(r)' = InGroup(r) /\ CallOf(r)' = CallOf(r) /\ Running(r)' = Running(r)
  BY <1>1, <1>2, <1>3 DEF InGroup, Running, CallOf
<1>5. ASSUME NEW r \in Ranks PROVE PlaceStep(r)'
  <2>1. PlaceStep(r)
    BY DEF StepInv
  <2>2. CASE r = q
    BY <1>1, <2>2 DEF PlaceStep, Collectives
  <2>3. CASE r # q
    BY <1>1, <1>4, <2>1, <2>3 DEF PlaceStep, UsesGroup
  <2> QED
    BY <2>2, <2>3
<1>6. InGroup(q) => pc[q] \notin BeforeMerge
  BY DEF InGroup, BeforeMerge
<1>7. ASSUME NEW r \in Ranks, NEW s \in Ranks PROVE InStep(r, s)'
  <2>1. InStep(r, s)
    BY DEF StepInv
  <2>2. CASE r # q /\ s # q
    BY <1>1, <1>2, <1>3, <1>4, <2>1, <2>2 DEF InStep
  <2>3. CASE r = q /\ s = q
    BY <1>1, <1>2, <2>3 DEF InStep
  <2>4. CASE r = q /\ s # q
    <3>1. n + 1 = next[s] /\ InGroup(s) => pc[s] \in BeforeMerge
      BY <1>2, <2>1, <2>4 DEF InStep
    <3>2. n + 1 = next[s] /\ InGroup(q)' => InGroup(s)
      BY <1>1, <1>2, <1>3, <2>4 DEF InGroup, Running, CallOf
    <3>3. n + 1 < next[s] => /\ \A i \in (n + 1) .. (next[s] - 1) : ~ Grouped(program[i])
                             /\ InGroup(s) => pc[s] \in BeforeMerge
      BY <1>2, <2>1, <2>4 DEF InStep
    <3> QED
      BY <1>1, <1>2, <1>3, <1>4, <2>4, <3>1, <3>2, <3>3 DEF InStep, BeforeMerge
  <2>5. CASE r # q /\ s = q
    <3>1. ASSUME next[r] < n + 1, NEW i \in next[r] .. n, Grouped(program[i])
          PROVE  i = next[r] /\ pc[r] \notin BeforeMerge
      <4>1. i = n => InGroup(q)
        BY <3>1 DEF InGroup, CallOf
      <4>2. CASE next[r] = n
        <5>1. i = n /\ InGroup(r)
          BY <1>2, <3>1, <4>1, <4>2 DEF InGroup, Running, CallOf
        <5> QED
          BY <1>6, <2>1, <2>5, <4>1, <4>2, <5>1 DEF InStep
      <4>3. CASE next[r] < n
        <5>1. i # n
          BY <1>6, <2>1, <2>5, <4>1, <4>3 DEF InStep
        <5> QED
          BY <1>2, <2>1, <2>5, <3>1, <4>3, <5>1 DEF InStep
      <4> QED
        BY <1>2, <3>1, <4>2, <4>3
    <3>2. next[r] = n + 1 /\ InGroup(r) => pc[r] \in BeforeMerge
      <4>1. InStep(q, r)
        BY DEF StepInv
      <4> QED
        BY <1>2, <4>1 DEF InStep
    <3>3. next'[s] - 1 = n /\ next'[r] = next[r] /\ pc'[r] = pc[r] /\ pc'[s] \in BeforeMerge
      BY <1>1, <1>2, <2>5 DEF BeforeMerge
    <3> QED
      BY <1>1, <1>2, <1>3, <1>4, <2>5, <3>1, <3>2, <3>3 DEF InStep
  <2> QED
    BY <2>2, <2>3, <2>4, <2>5
<1>8. RaisedOnAll'
  <2> SUFFICES ASSUME NEW r \in Ranks, NEW s \in Ranks, NEW i \in DOMAIN outcome'[r],
                      Grouped(program[i]), outcome'[r][i] = "raised"
               PROVE  i \in DOMAIN outcome'[s] /\ outcome'[s][i] = "raised"
    BY <1>2, <1>3 DEF RaisedOnAll
  <2>1. i \in DOMAIN outcome[r] /\ outcome[r][i] = "raised"
    <3>1. CASE r = q
      <4>1. i # n
        BY <1>1, <3>1 DEF CallOf
      <4>2. i \in 1 .. n
        BY <1>1, <3>1
      <4>3. i \in 1 .. (n - 1)
        BY <1>2, <4>1, <4>2
      <4> QED
        BY <1>1, <3>1, <4>3
    <3>2. CASE r # q
      BY <1>1, <3>2
    <3> QED
      BY <3>1, <3>2
  <2>2. i \in DOMAIN outcome[s] /\ outcome[s][i] = "raised"
    BY <2>1 DEF StepInv, RaisedOnAll
  <2>3. CASE s = q
    <3>1. i \in 1 .. (n - 1)
      BY <1>1, <2>2, <2>3
    <3>2. i \in 1 .. n
      BY <1>2, <3>1
    <3> QED
      BY <1>1, <2>2, <2>3, <3>1, <3>2
  <2>4. CASE s # q
    BY <1>1, <2>2, <2>4
  <2> QED
    BY <2>3, <2>4
<1>9. RefusedRaised'
  <2> SUFFICES ASSUME NEW r \in Ranks, NEW i \in DOMAIN outcome'[r], r \in program[i].refused
               PROVE  outcome'[r][i] = "raised"
    BY <1>2 DEF RefusedRaised
  <2>1. CASE r = q /\ i = n
    <3>1. pc[q] = "done" => q \notin CallOf(q).refused
      BY DEF StepInv, PlaceStep
    <3> QED
      BY <1>1, <2>1, <3>1 DEF CallOf
  <2>2. CASE r = q /\ i # n
    <3>1. i \in 1 .. n
      BY <1>1, <2>2
    <3>2. i \in 1 .. (n - 1)
      BY <1>2, <2>2, <3>1
    <3> QED
      BY <1>1, <2>2, <3>2 DEF StepInv, RefusedRaised
  <2>3. CASE r # q
    BY <1>1, <2>3 DEF StepInv, RefusedRaised
  <2> QED
    BY <2>1, <2>2, <2>3
<1> QED
  BY <1>1, <1>5, <1>7, <1>8, <1>9 DEF StepInv

\* A collective that makes all of them raise.
LEMMA AllRaiseKeepsStep ==
    ASSUME RefusedAlike, StepInv, NEW place \in Collectives, AllIn(place),
           EndCall(Ranks, "raised"), UNCHANGED <<fixed, cache>>
    PROVE  StepInv'
<1>1. /\ FlowTypeOK'
      /\ \A r \in Ranks :
           /\ next'[r] = next[r] + 1 /\ pc'[r] = "idle"
           /\ DOMAIN outcome[r] = 1 .. (next[r] - 1) /\ DOMAIN outcome'[r] = 1 .. next[r]
           /\ outcome'[r][next[r]] = "raised"
           /\ \A i \in 1 .. (next[r] - 1) : outcome'[r][i] = outcome[r][i]
  <2>1. \A r \in Ranks : Running(r)
    BY AllInOneCall DEF InGroup
  <2> QED
    BY <2>1, EndCallTypes DEF StepInv
<1>2. /\ program' = program
      /\ \A r \in Ranks : next[r] \in Nat \ {0} /\ \A s \in Ranks : next[r] = next[s]
  BY AllInOneCall DEF StepInv, FlowTypeOK, fixed
<1>3. ASSUME NEW r \in Ranks, NEW i \in 1 .. (next[r] - 1)
      PROVE  i \in DOMAIN outcome[r] /\ outcome'[r][i] = outcome[r][i]
  <2>1. /\ DOMAIN outcome[r] = 1 .. (next[r] - 1)
        /\ \A k \in 1 .. (next[r] - 1) : outcome'[r][k] = outcome[r][k]
    BY <1>1
  <2> QED
    BY <2>1
<1>4. \A r \in Ranks : PlaceStep(r)'
  BY <1>1 DEF PlaceStep, Collectives
<1>5. \A r, s \in Ranks : InStep(r, s)'
  BY <1>1, <1>2 DEF InStep, BeforeMerge
<1>6. RaisedOnAll'
  <2> SUFFICES ASSUME NEW r \in Ranks, NEW s \in Ranks, NEW i \in DOMAIN outcome'[r],
                      Grouped(program[i]), outcome'[r][i] = "raised"
               PROVE  i \in DOMAIN outcome'[s] /\ outcome'[s][i] = "raised"
    BY <1>2 DEF RaisedOnAll, Grouped, UsesGroup
  <2>1. CASE i = next[r]
    BY <1>1, <1>2, <2>1
  <2>2. CASE i # next[r]
    <3>1. i \in 1 .. next[r]
      BY <1>1
    <3>2. i \in 1 .. (next[r] - 1)
      BY <1>2, <2>2, <3>1
    <3>3. i \in DOMAIN outcome[r] /\ outcome[r][i] = "raised"
      BY <1>3, <3>2
    <3>4. i \in DOMAIN outcome[s] /\ outcome[s][i] = "raised"
      BY <3>3 DEF StepInv, RaisedOnAll
    <3>5. i \in 1 .. next[s] /\ i \in 1 .. (next[s] - 1)
      BY <1>2, <3>1, <3>2
    <3>6. DOMAIN outcome'[s] = 1 .. next[s] /\ outcome'[s][i] = outcome[s][i]
      BY <1>1, <1>3, <3>5
    <3> QED
      BY <3>4, <3>5, <3>6
  <2> QED
    BY <2>1, <2>2
<1>7. RefusedRaised'
  <2> SUFFICES ASSUME NEW r \in Ranks, NEW i \in DOMAIN outcome'[r], r \in program[i].refused
               PROVE  outcome'[r][i] = "raised"
    BY <1>2 DEF RefusedRaised
  <2>1. CASE i = next[r]
    BY <1>1, <2>1
  <2>2. CASE i # next[r]
    <3>1. i \in 1 .. next[r]
      BY <1>1
    <3>2. i \in 1 .. (next[r] - 1)
      BY <1>2, <2>2, <3>1
    <3> QED
      BY <1>3, <3>2 DEF StepInv, RefusedRaised
  <2> QED
    BY <2>1, <2>2
<1> QED
  BY <1>1, <1>4, <1>5, <1>6, <1>7 DEF StepInv

\* A collective after which all go on, to one side of the merge.
LEMMA AllGoKeepsStep ==
    ASSUME RefusedAlike, StepInv, NEW place \in Collectives, AllIn(place),
           UNCHANGED <<fixed, next, outcome>>, cache' = [r \in Ranks |-> cache'[r]],
           pc' \in [Ranks -> Places],
           (\A r \in Ranks : pc'[r] \in BeforeMerge) \/ (\A r \in Ranks : pc'[r] \notin BeforeMerge)
    PROVE  StepInv'
<1>1. FlowTypeOK'
  BY DEF StepInv, FlowTypeOK, fixed
<1>2. \A r, s \in Ranks : next'[r] = next'[s] /\ next'[r] \in Nat
  BY AllInOneCall DEF StepInv, FlowTypeOK
<1>3. \A r \in Ranks : PlaceStep(r)'
  <2> TAKE r \in Ranks
  <2>1. InGroup(r)
    BY AllInOneCall
  <2>2. Running(r)' /\ CallOf(r)' = CallOf(r) /\ UsesGroup(CallOf(r)) /\ CallOf(r).refused = {}
    BY <2>1 DEF InGroup, Running, CallOf, Grouped, fixed
  <2> QED
    BY <2>2 DEF PlaceStep, UsesGroup
<1>4. \A r, s \in Ranks : InStep(r, s)'
  BY <1>2 DEF InStep
<1>5. RaisedOnAll' /\ RefusedRaised'
  BY DEF StepInv, RaisedOnAll, RefusedRaised, Grouped, UsesGroup, fixed
<1> QED
  BY <1>1, <1>3, <1>4, <1>5 DEF StepInv

LEMMA JointKeepsStep == RefusedAlike /\ StepInv /\ Joint => StepInv'
<1> SUFFICES ASSUME RefusedAlike, StepInv, Joint PROVE StepInv'
  OBVIOUS
<1>1. cache = [r \in Ranks |-> cache[r]] /\ \A r \in Ranks : build[r].gathers \in Merging
  BY Gathers DEF StepInv, FlowTypeOK
<1>2. \A r \in Ranks : AfterPartition(r) \in {"targets", "local"}
  BY DEF AfterPartition
<1>3. CASE GatherRanges
  <2>1. "ranges" \in Collectives /\ AllIn("ranges") /\ UNCHANGED <<fixed, cache>>
    BY <1>3 DEF GatherRanges, Collectives
  <2>2. CASE EndCall(Ranks, "raised")
    BY <2>1, <2>2, AllRaiseKeepsStep
  <2>3. CASE pc' = [r \in Ranks |-> "sizes"] /\ UNCHANGED <<next, outcome>>
    BY <1>1, <2>1, <2>3, AllGoKeepsStep DEF Places, Collectives, BeforeMerge
  <2> QED
    BY <1>3, <2>2, <2>3 DEF GatherRanges
<1>4. CASE GatherSizes
  <2>1. "sizes" \in Collectives /\ AllIn("sizes") /\ UNCHANGED fixed
    BY <1>4 DEF GatherSizes, Collectives
  <2>2. CASE {r \in Ranks : SizesMatch(r)} = Ranks
    <3>1. /\ pc' = [r \in Ranks |-> AfterPartition(r)]
          /\ next' = [r \in Ranks |-> next[r]] /\ outcome' = [r \in Ranks |-> outcome[r]]
          /\ cache' = [r \in Ranks |-> cache[r] \cup {[key |-> Key(CallOf(r), r), covered |-> Covered(GroupCall)]}]
      BY <1>4, <2>2 DEF GatherSizes
    <3>2. UNCHANGED <<next, outcome>> /\ cache' = [r \in Ranks |-> cache'[r]]
      BY <3>1 DEF StepInv, FlowTypeOK
    <3>3. pc' \in [Ranks -> Places] /\ \A r \in Ranks : pc'[r] \in BeforeMerge
      BY <1>2, <3>1 DEF Places, Collectives, BeforeMerge
    <3> QED
      BY <2>1, <3>2, <3>3, AllGoKeepsStep
  <2>3. CASE {r \in Ranks : SizesMatch(r)} = {}
    <3>1. EndCall(Ranks, "raised") /\ cache' = [r \in Ranks |-> cache[r]]
      BY <1>4, <2>3 DEF GatherSizes, EndCall
    <3> QED
      BY <1>1, <2>1, <3>1, AllRaiseKeepsStep
  <2> QED
    BY <2>2, <2>3 DEF SizesMatch
<1>5. CASE ReduceTargets
  <2>1. "targets" \in Collectives /\ AllIn("targets") /\ UNCHANGED <<fixed, cache>>
    BY <1>5 DEF ReduceTargets, Collectives
  <2>2. CASE EndCall(Ranks, "raised")
    BY <2>1, <2>2, AllRaiseKeepsStep
  <2>3. CASE pc' = [r \in Ranks |-> "local"] /\ UNCHANGED <<next, outcome>>
    BY <1>1, <2>1, <2>3, AllGoKeepsStep DEF Places, BeforeMerge
  <2> QED
    BY <1>5, <2>2, <2>3 DEF ReduceTargets
<1>6. CASE ReduceOwners
  <2>1. "owner" \in Collectives /\ AllIn("owner") /\ UNCHANGED <<fixed, cache>>
    BY <1>6 DEF ReduceOwners, Collectives
  <2>2. CASE EndCall(Ranks, "raised")
    BY <2>1, <2>2, AllRaiseKeepsStep
  <2>3. CASE pc' = [r \in Ranks |-> build[r].gathers] /\ UNCHANGED <<next, outcome>>
    <3>1. pc' \in [Ranks -> Places] /\ \A r \in Ranks : pc'[r] \in BeforeMerge
      BY <1>1, <2>3 DEF Places, Collectives, Merging, BeforeMerge
    <3> QED
      BY <1>1, <2>1, <2>3, <3>1, AllGoKeepsStep
  <2> QED
    BY <1>6, <2>2, <2>3 DEF ReduceOwners
<1>7. ASSUME NEW place \in {"merge", "merge_list"}, Merge(place) PROVE StepInv'
  <2>1. place \in Collectives /\ AllIn(place) /\ UNCHANGED <<fixed, next, outcome, cache>>
    BY <1>7 DEF Merge, Collectives
  <2>2. pc' = [r \in Ranks |-> AfterForward(CallOf(r))]
    BY <1>7 DEF Merge
  <2>3. pc' \in [Ranks -> Places] /\ \A r \in Ranks : pc'[r] \notin BeforeMerge
    BY <2>2 DEF AfterForward, Places, BeforeMerge
  <2> QED
    BY <1>1, <2>1, <2>3, AllGoKeepsStep
<1>8. ASSUME NEW place \in {"reduce32", "reduce16"}, ReduceHidden(place) PROVE StepInv'
  <2>1. place \in Collectives /\ AllIn(place) /\ UNCHANGED <<fixed, next, outcome, cache>> /\ pc' = [r \in Ranks |-> "done"]
    BY <1>8 DEF ReduceHidden, Collectives
  <2> QED
    BY <1>1, <2>1, AllGoKeepsStep DEF Places, BeforeMerge
<1> QED
  BY <1>3, <1>4, <1>5, <1>6, <1>7, <1>8 DEF Joint

\* One rank goes on within its call.
LEMMA OneMovesStep ==
    ASSUME StepInv, NEW q \in Ranks, NEW there \in Places,
           pc' = [pc EXCEPT ![q] = there], UNCHANGED <<fixed, next, cache, outcome>>,
           Running(q), q \notin CallOf(q).refused,
           there \in Collectives => UsesGroup(CallOf(q)),
           InGroup(q) => (pc[q] \in BeforeMerge <=> there \in BeforeMerge)
    PROVE  StepInv'
<1>1. /\ pc \in [Ranks -> Places] /\ pc'[q] = there
      /\ \A r \in Ranks : r # q => pc'[r] = pc[r]
  BY DEF StepInv, FlowTypeOK
<1>2. FlowTypeOK'
  BY DEF StepInv, FlowTypeOK, fixed
<1>3. \A r \in Ranks : PlaceStep(r)'
  <2> TAKE r \in Ranks
  <2>1. PlaceStep(r) /\ Running(r)' = Running(r) /\ CallOf(r)' = CallOf(r)
    BY DEF StepInv, Running, CallOf, fixed
  <2> QED
    BY <1>1, <2>1 DEF PlaceStep, UsesGroup
<1> QED
  BY <1>1, <1>2, <1>3, MoveKeepsStep

LEMMA OwnKeepsStep == ASSUME RefusedAlike, StepInv, NEW q \in Ranks, Own(q) PROVE StepInv'
<1> DEFINE c == CallOf(q)
<1>1. PlaceStep(q) /\ build[q].gathers \in Merging
  BY Gathers DEF StepInv
<1>2. CASE Enter(q)
  <2>1. pc[q] = "idle" /\ Running(q) /\ UNCHANGED <<fixed, cache>>
    BY <1>2 DEF Enter
  <2>2. CASE EndCall({q}, "raised") /\ ~ Grouped(c)
    BY <2>1, <2>2, LeaveKeepsStep
  <2>3. CASE Goto(q, IF ~ UsesGroup(c) THEN "local"
                     ELSE IF Hits(c, q) # {} THEN AfterPartition(q) ELSE "ranges") /\ q \notin c.refused
    <3>1. PICK there \in {"local", "targets", "ranges"} :
              there = IF ~ UsesGroup(c) THEN "local"
                      ELSE IF Hits(c, q) # {} THEN AfterPartition(q) ELSE "ranges"
      BY DEF AfterPartition
    <3>2. there \in Collectives => UsesGroup(c)
      BY <3>1 DEF Collectives
    <3>3. pc' = [pc EXCEPT ![q] = there] /\ UNCHANGED <<next, outcome>>
      BY <2>3, <3>1 DEF Goto
    <3> QED
      BY <2>1, <2>3, <3>2, <3>3, OneMovesStep DEF Places, Collectives, BeforeMerge
  <2>4. q \in c.refused => ~ Grouped(c)
    BY DEF Grouped
  <2> QED
    BY <1>2, <2>2, <2>3, <2>4 DEF Enter, MetadataRefused, Grouped
<1>3. CASE LocalChunk(q)
  <2>1. pc[q] = "local" /\ UNCHANGED <<fixed, cache>>
    BY <1>3 DEF LocalChunk
  <2>2. PICK there \in {"local", AfterLocal(c, q)} : Goto(q, there)
    BY <1>3 DEF LocalChunk
  <2>3. /\ there \in {"local", "owner", "backward", "done", "merge", "merge_list"}
        /\ UsesGroup(c) => there \in BeforeMerge
        /\ ~ UsesGroup(c) => there \notin Collectives
    BY <1>1, <2>2 DEF AfterLocal, AfterForward, Merging, BeforeMerge, Collectives
  <2>4. pc' = [pc EXCEPT ![q] = there] /\ UNCHANGED <<next, outcome>>
    BY <2>2 DEF Goto
  <2> QED
    BY <1>1, <2>1, <2>3, <2>4, OneMovesStep DEF Places, Collectives, BeforeMerge, InGroup, Grouped, PlaceStep
<1>4. CASE BackwardTokens(q) \/ BackwardTile(q) \/ BackwardWhole(q)
  <2>1. pc[q] = "backward" /\ UNCHANGED <<fixed, cache>>
    BY <1>4 DEF BackwardTokens, BackwardTile, BackwardWhole
  <2>2. PICK there \in {"backward", AfterBackward(c, q)} : Goto(q, there)
    BY <1>4 DEF BackwardTokens, BackwardTile, BackwardWhole
  <2>3. there \in {"backward", "reduce32", "reduce16", "done"} /\ (~ UsesGroup(c) => there \notin Collectives)
    BY <2>2 DEF AfterBackward, ReducesHidden, Collectives
  <2>4. pc' = [pc EXCEPT ![q] = there] /\ UNCHANGED <<next, outcome>>
    BY <2>2 DEF Goto
  <2> QED
    BY <1>1, <2>1, <2>3, <2>4, OneMovesStep DEF Places, Collectives, BeforeMerge, PlaceStep
<1>5. CASE Return(q)
  <2>1. pc[q] = "done" /\ EndCall({q}, "returned") /\ UNCHANGED <<fixed, cache>>
    BY <1>5 DEF Return
  <2> QED
    BY <1>1, <2>1, LeaveKeepsStep DEF PlaceStep
<1> QED
  BY <1>2, <1>3, <1>4, <1>5 DEF Own

\* Where calls are refused alike, the merges and the raises keep the ranks' calls in
\* step, whatever their builds and caches.
THEOREM StepInvariant == Spec => [](RefusedAlike => StepInv)
<1>1. Init => (RefusedAlike => StepInv)
  <2> SUFFICES ASSUME Init PROVE StepInv
    OBVIOUS
  <2>1. \A r \in Ranks : next[r] = 1 /\ pc[r] = "idle" /\ outcome[r] = <<>>
    BY DEF Init
  <2>2. program \in Seq(Call) /\ Len(program) \in Nat
    BY ProgramsAssumption DEF Init
  <2>3. FlowTypeOK
    BY <2>1, <2>2 DEF Init, FlowTypeOK, Places
  <2> QED
    BY <2>1, <2>3 DEF StepInv, PlaceStep, InStep, RaisedOnAll, RefusedRaised, Collectives
<1>2. (RefusedAlike => StepInv) /\ [Next]_vars => (RefusedAlike => StepInv)'
  <2> SUFFICES ASSUME RefusedAlike, StepInv, [Next]_vars PROVE StepInv'
    BY AgreeFixed, StepsKeepFixed
  <2>1. CASE UNCHANGED vars
    <3>1. UNCHANGED <<fixed, next, pc, cache, outcome>>
      BY <2>1 DEF vars
    <3>2. FlowTypeOK' /\ \A r \in Ranks : PlaceStep(r)'
      BY <3>1 DEF StepInv, FlowTypeOK, PlaceStep, Running, CallOf, UsesGroup, fixed
    <3> QED
      BY <3>1, <3>2, MoveKeepsStep
  <2> QED
    BY <2>1, JointKeepsStep, OwnKeepsStep DEF Next
<1> QED
  BY <1>1, <1>2, PTL DEF Spec

\* Ranks that agree wait in the same collective; where calls are refused alike, one
\* all ranks wait in is of one call.
THEOREM CollectivesAlwaysPair == Spec => []CollectivesPair
<1>1. (RanksAgree => FlowInv) /\ (RefusedAlike => StepInv) => CollectivesPair
  <2>1. RanksAgree => RefusedAlike
    BY DEF RanksAgree
  <2>2. RefusedAlike /\ StepInv =>
          \A place \in Collectives : AllIn(place) => \A r, s \in Ranks : next[r] = next[s]
    BY AllInOneCall
  <2> QED
    BY <2>1, <2>2, FlowPairs DEF CollectivesPair, Paired
<1> QED
  BY <1>1, FlowInvariant, StepInvariant, PTL

\* Where calls are refused alike, a call on the group that raises on one rank has
\* raised on the others or is not begun by them.
THEOREM AlwaysRaiseTogether == Spec => []RaisesTogether
<1>1. (RefusedAlike => StepInv) => RaisesTogether
  <2> SUFFICES ASSUME RefusedAlike, StepInv, NEW r \in Ranks, NEW s \in Ranks, NEW i \in DOMAIN outcome[r],
                      UsesGroup(program[i]), outcome[r][i] = "raised"
               PROVE  IF i \in DOMAIN outcome[s] THEN outcome[s][i] = "raised"
                      ELSE next[s] = i => pc[s] = "idle"
    BY DEF RaisesTogether
  <2>1. i \in DOMAIN program
    <3>1. /\ DOMAIN outcome[r] = 1 .. Len(outcome[r]) /\ Len(outcome[r]) = next[r] - 1
          /\ next[r] \in Nat \ {0} /\ next[r] <= Len(program) + 1
      BY DEF StepInv, FlowTypeOK
    <3> QED
      BY <3>1, FlowTypes DEF StepInv
  <2>2. CASE program[i].refused = {}
    BY <2>2 DEF StepInv, RaisedOnAll, Grouped
  <2>3. CASE program[i].refused = Ranks
    BY <2>3 DEF StepInv, RefusedRaised, PlaceStep, CallOf
  <2> QED
    BY <2>1, <2>2, <2>3 DEF RefusedAlike
<1> QED
  BY <1>1, StepInvariant, PTL

-----------------------------------------------------------------------------
\* The least of some numbers, and the largest of finitely many.
LEMMA LeastOf ==
    ASSUME NEW S \in SUBSET Nat, S # {} PROVE \E i \in S : \A j \in S : i <= j
<1>1. PICK i \in S : \A j \in S : ~ (<<j, i>> \in OpToRel(<, Nat))
  BY NatLessThanWellFounded, WFMin
<1>2. ASSUME NEW j \in Nat, j < i PROVE <<j, i>> \in OpToRel(<, Nat)
  BY <1>2, Zenon DEF OpToRel
<1>3. \A j \in S : ~ (j < i)
  BY <1>1, <1>2, Zenon
<1> QED
  BY <1>3

LEMMA LargestOf ==
    ASSUME NEW S, S # {}, IsFiniteSet(S), NEW f \in [S -> Nat]
    PROVE  \E i \in S : \A j \in S : f[j] <= f[i]
<1> DEFINE T == {A \in SUBSET S : A # {} /\ ~ \E i \in A : \A j \in A : f[j] <= f[i]}
<1> SUFFICES ASSUME T # {} PROVE FALSE
  OBVIOUS
<1>1. IsWellFoundedOn(StrictSubsetOrdering(S), SUBSET S)
  BY FS_StrictSubsetOrderingWellFounded, FS_FiniteSubsetsOfFinite
<1>2. PICK A \in T : \A B \in T : ~ (<<B, A>> \in StrictSubsetOrdering(S))
  <2>1. T \subseteq SUBSET S
    OBVIOUS
  <2> HIDE DEF T
  <2> QED
    BY <1>1, <2>1, WFMin
<1>3. PICK a \in A : TRUE
  OBVIOUS
<1>4. A \ {a} \notin T
  BY <1>2, <1>3 DEF StrictSubsetOrdering
<1>5. A \subseteq S /\ \A j \in A : f[j] \in Nat
  OBVIOUS
<1>6. CASE A \ {a} = {}
  BY <1>3, <1>5, <1>6
<1>7. CASE A \ {a} # {}
  <2>1. PICK m \in A \ {a} : \A j \in A \ {a} : f[j] <= f[m]
    BY <1>4, <1>5, <1>7
  <2>2. \A j \in A : f[j] <= f[m] \/ j = a
    BY <2>1
  <2>3. f[m] \in Nat /\ f[a] \in Nat
    BY <1>3, <1>5, <2>1
  <2>4. CASE f[a] <= f[m]
    BY <2>1, <2>2, <2>4
  <2>5. CASE f[m] <= f[a]
    <3>1. \A j \in A : f[j] <= f[a]
      BY <1>5, <2>2, <2>3, <2>5
    <3> QED
      BY <1>3, <3>1
  <2> QED
    BY <2>3, <2>4, <2>5
<1> QED
  BY <1>6, <1>7

-----------------------------------------------------------------------------
LEMMA CallTypes ==
    ASSUME NEW c \in Call, NEW r \in Ranks
    PROVE  c.start[r] \in Nat /\ c.size[r] \in Nat /\ End(c, r) \in Nat /\ End(c, r) = c.start[r] + c.size[r]
<1>1. c.start \in [Ranks -> Nat] /\ c.size \in [Ranks -> Nat]
  BY DEF Call
<1> QED
  BY <1>1 DEF End

\* Covered is the end of the last shard.
LEMMA CoveredIsLast ==
    ASSUME NEW c \in Call
    PROVE  (\E r \in Ranks : Covered(c) = End(c, r)) /\ (\A r \in Ranks : End(c, r) <= Covered(c))
<1> DEFINE ends == [r \in Ranks |-> End(c, r)]
<1>1. ends \in [Ranks -> Nat]
  BY CallTypes
<1>2. \E r \in Ranks : \A s \in Ranks : ends[s] <= ends[r]
  <2> HIDE DEF ends
  <2> QED
    BY <1>1, LargestOf, RanksAssumption
<1>3. \E e \in {End(c, r) : r \in Ranks} : \A r \in Ranks : End(c, r) <= e
  BY <1>2
<1> QED
  BY <1>3 DEF Covered

\* In a contiguous partition a shard ends before the next one starts: the shard
\* before a shard is unique, so nothing can start inside another one.
LEMMA ShardsApart ==
    ASSUME NEW c \in Call, Contiguous(c)
    PROVE  \A r, s \in Ranks : c.start[r] < c.start[s] => End(c, r) <= c.start[s]
<1> DEFINE Bad == {c.start[p[2]] : p \in {p \in Ranks \X Ranks :
                        c.start[p[1]] < c.start[p[2]] /\ ~ (End(c, p[1]) <= c.start[p[2]])}}
<1> SUFFICES ASSUME Bad # {} PROVE FALSE
  <2>1. ASSUME NEW r \in Ranks, NEW s \in Ranks, c.start[r] < c.start[s], ~ (End(c, r) <= c.start[s])
        PROVE  c.start[s] \in Bad
    <3>1. <<r, s>> \in Ranks \X Ranks /\ <<r, s>>[1] = r /\ <<r, s>>[2] = s
      OBVIOUS
    <3> QED
      BY <2>1, <3>1
  <2> QED
    BY <2>1
<1>1. Bad \in SUBSET Nat
  BY CallTypes
<1>2. PICK m \in Bad : \A j \in Bad : m <= j
  <2> HIDE DEF Bad
  <2> QED
    BY <1>1, LeastOf
<1>3. PICK r \in Ranks, s \in Ranks :
        m = c.start[s] /\ c.start[r] < c.start[s] /\ ~ (End(c, r) <= c.start[s])
  <2>1. PICK p \in Ranks \X Ranks : m = c.start[p[2]] /\ c.start[p[1]] < c.start[p[2]] /\ ~ (End(c, p[1]) <= c.start[p[2]])
    OBVIOUS
  <2> QED
    BY <2>1
<1>4. \A u, v \in Ranks : c.start[u] < c.start[v] /\ c.start[v] < m => End(c, u) <= c.start[v]
  <2> SUFFICES ASSUME NEW u \in Ranks, NEW v \in Ranks, c.start[u] < c.start[v], c.start[v] < m,
                      ~ (End(c, u) <= c.start[v])
               PROVE  FALSE
    OBVIOUS
  <2>1. <<u, v>> \in Ranks \X Ranks /\ <<u, v>>[1] = u /\ <<u, v>>[2] = v
    OBVIOUS
  <2>2. c.start[v] \in Bad
    BY <2>1
  <2>3. m \in Nat /\ c.start[v] \in Nat
    <3> HIDE DEF Bad
    <3> QED
      BY <1>1, <2>2
  <2> QED
    BY <1>2, <2>2, <2>3
<1>5. c.start[r] \in Nat /\ c.start[s] \in Nat
  BY CallTypes
<1>6. PICK q \in Ranks : End(c, q) = c.start[s]
  BY <1>3, <1>5 DEF Contiguous
<1>7. c.start[q] \in Nat /\ c.start[q] < c.start[s]
  <2>1. c.size[q] > 0
    BY DEF Contiguous
  <2> QED
    BY <1>6, <2>1, CallTypes
<1>8. r # q /\ c.start[r] # c.start[q]
  BY <1>3, <1>5, <1>6 DEF Contiguous
<1>9. CASE c.start[r] < c.start[q]
  <2>1. End(c, r) <= c.start[q]
    BY <1>3, <1>4, <1>7, <1>9
  <2> QED
    BY <1>3, <1>5, <1>7, <2>1, CallTypes
<1>10. CASE c.start[q] < c.start[r]
  <2>1. End(c, q) <= c.start[r]
    BY <1>3, <1>4, <1>10
  <2> QED
    BY <1>3, <1>5, <1>6, <2>1
<1> QED
  BY <1>5, <1>7, <1>8, <1>9, <1>10

\* Every row of the vocabulary is in exactly one shard, and no other row is in any.
LEMMA OneShard ==
    ASSUME NEW c \in Call, Contiguous(c), NEW w \in Int
    PROVE  IF w \in 0 .. (Covered(c) - 1)
           THEN \E r \in Ranks : \A s \in Ranks : w \in Owned(c, s) <=> s = r
           ELSE \A s \in Ranks : w \notin Owned(c, s)
<1>1. /\ \A s \in Ranks : /\ c.start[s] \in Nat /\ End(c, s) \in Nat /\ End(c, s) <= Covered(c)
                          /\ Owned(c, s) = c.start[s] .. (End(c, s) - 1)
      /\ Covered(c) \in Nat
  BY CallTypes, CoveredIsLast DEF Owned
<1>2. CASE w \notin 0 .. (Covered(c) - 1)
  BY <1>1, <1>2
<1>3. CASE w \in 0 .. (Covered(c) - 1)
  <2> DEFINE After == {e \in {End(c, s) : s \in Ranks} : w < e}
  <2>1. After \in SUBSET Nat /\ After # {}
    <3>1. PICK s \in Ranks : Covered(c) = End(c, s)
      BY CoveredIsLast
    <3>2. End(c, s) \in {End(c, u) : u \in Ranks} /\ w < End(c, s)
      BY <1>1, <1>3, <3>1
    <3>3. \A e \in After : e \in Nat
      BY <1>1
    <3> QED
      BY <3>2, <3>3
  <2>2. PICK e \in After : \A j \in After : e <= j
    <3> HIDE DEF After
    <3> QED
      BY <2>1, LeastOf
  <2>3. PICK r \in Ranks : e = End(c, r) /\ w < End(c, r)
    BY <2>2
  <2>4. c.start[r] <= w
    <3> SUFFICES ASSUME w < c.start[r] PROVE FALSE
      BY <1>1, <1>3
    <3>1. c.start[r] # 0
      BY <1>3
    <3>2. PICK q \in Ranks : End(c, q) = c.start[r]
      BY <3>1 DEF Contiguous
    <3>3. End(c, q) \in After
      BY <3>2
    <3>4. e <= c.start[r]
      BY <2>2, <3>2, <3>3
    <3>5. c.size[r] > 0
      BY DEF Contiguous
    <3> QED
      BY <2>3, <3>4, <3>5, CallTypes
  <2>5. w \in Owned(c, r)
    BY <1>1, <1>3, <2>3, <2>4
  <2>6. ASSUME NEW s \in Ranks, s # r, w \in Owned(c, s) PROVE FALSE
    <3>1. c.start[s] # c.start[r]
      BY <2>6 DEF Contiguous
    <3>2. c.start[s] < c.start[r] => End(c, s) <= c.start[r]
      BY ShardsApart
    <3>3. c.start[r] < c.start[s] => End(c, r) <= c.start[s]
      BY ShardsApart
    <3> QED
      BY <1>1, <1>3, <2>3, <2>4, <2>6, <3>1, <3>2, <3>3
  <2> QED
    BY <1>3, <2>5, <2>6
<1> QED
  BY <1>2, <1>3
-----------------------------------------------------------------------------
\* The statistics of the first n rows of a shard.
SeenUpTo(c, r, n) ==
    [t \in Tokens |-> [w \in Rows |-> IF w \in c.start[r] .. (c.start[r] + n - 1) THEN 1 ELSE 0]]
PickUpTo(c, r, n) ==
    [t \in Tokens |-> IF c.target[t] \in c.start[r] .. (c.start[r] + n - 1) THEN c.target[t] ELSE NoRow]

\* The gradients of a block of dlogits.
HiddenOver(c, toks, rows) ==
    [t \in Tokens |-> [w \in Rows |-> IF c.hgrad /\ t \in toks /\ w \in rows THEN 1 ELSE 0]]
WeightOver(c, toks, rows) ==
    [w \in Rows |-> [t \in Tokens |-> IF c.wgrad /\ t \in toks /\ w \in rows THEN 1 ELSE 0]]
HotOver(c, toks, rows) == {<<t, c.target[t]>> : t \in {u \in toks : c.target[u] \in rows}}

\* Alone, a call that is not refused has rows and starts at 0.
ShapeOK(r) ==
    pc[r] # "idle" /\ ~ UsesGroup(CallOf(r)) => CallOf(r).size[r] > 0 /\ CallOf(r).start[r] = 0

Before == {"ranges", "sizes", "targets", "local"}
Backwards == {"backward", "reduce32", "reduce16", "done"}

\* The forward has scanned the shard up to its cursor; after it, all of it.
Scanned(r) ==
    LET c == CallOf(r)
        n == IF pc[r] \in Before THEN cursor[r] ELSE c.size[r]
    IN  pc[r] # "idle" =>
            /\ seen[r] = SeenUpTo(c, r, n)
            /\ pick[r] = PickUpTo(c, r, n)

CursorOK(r) ==
    /\ cursor[r] \in Nat
    /\ pc[r] \in {"ranges", "sizes", "targets", "owner"} \cup Merging => cursor[r] = 0
    /\ pc[r] = "local" => cursor[r] < CallOf(r).size[r]
    /\ pc[r] = "backward" =>
        CASE BackwardKind(CallOf(r), r) = "tokens" -> cursor[r] < Cardinality(Tokens)
          [] BackwardKind(CallOf(r), r) = "tiles" -> cursor[r] < CallOf(r).size[r]
          [] OTHER -> cursor[r] = 0

\* The block of dlogits the backward is through with.
BlockOf(r) ==
    LET c == CallOf(r)
        scanned == c.start[r] .. (c.start[r] + cursor[r] - 1)
    IN  IF pc[r] # "backward" THEN IF pc[r] \in Backwards THEN <<Tokens, Owned(c, r)>> ELSE <<{}, {}>>
        ELSE IF BackwardKind(c, r) = "tokens" THEN <<1 .. cursor[r], Owned(c, r)>>
        ELSE <<Tokens, scanned>>

Differentiated(r) ==
    LET c == CallOf(r)
        block == BlockOf(r)
    IN  pc[r] # "idle" /\ (pc[r] = "done" => NeedsGrad(c)) =>
            /\ gradH[r] = HiddenOver(c, block[1], block[2])
            /\ gradW[r] = WeightOver(c, block[1], block[2])
            /\ hot[r] = HotOver(c, block[1], block[2])

\* What the collectives have brought together.
Gathered(r) ==
    LET c == CallOf(r) IN
    pc[r] \in Backwards /\ UsesGroup(c) =>
        /\ merged[r] = [s \in Ranks |-> [seen |-> SeenUpTo(c, s, c.size[s]),
                                         pick |-> PickUpTo(c, s, c.size[s])]]
        /\ pc[r] = "done" /\ c.hgrad =>
             reduced[r] = [s \in Ranks |-> [cells |-> HiddenOver(c, Tokens, Owned(c, s)),
                                            hot |-> HotOver(c, Tokens, Owned(c, s))]]

DataOf(r) == ShapeOK(r) /\ Scanned(r) /\ CursorOK(r) /\ Differentiated(r) /\ Gathered(r)

\* Every rank has buffers of its own.
PerRank(f) == f = [r \in Ranks |-> f[r]]
Buffers ==
    /\ PerRank(cursor) /\ PerRank(seen) /\ PerRank(pick) /\ PerRank(owners) /\ PerRank(merged)
    /\ PerRank(gradH) /\ PerRank(gradW) /\ PerRank(hot) /\ PerRank(reduced)

DataInv == Buffers /\ \A r \in Ranks : DataOf(r)

\* A rank no step touches keeps what it has.
LEMMA UntouchedData ==
    ASSUME NEW r \in Ranks, DataOf(r), UNCHANGED fixed,
           next'[r] = next[r], pc'[r] = pc[r], cursor'[r] = cursor[r], seen'[r] = seen[r],
           pick'[r] = pick[r], merged'[r] = merged[r], gradH'[r] = gradH[r], gradW'[r] = gradW[r],
           hot'[r] = hot[r], reduced'[r] = reduced[r]
    PROVE  DataOf(r)'
<1>1. CallOf(r)' = CallOf(r) /\ build'[r] = build[r]
  BY DEF CallOf, fixed
<1>2. BackwardKind(CallOf(r), r)' = BackwardKind(CallOf(r), r)
  BY <1>1 DEF BackwardKind, Path, UsesGroup, NeedsGrad
<1>3. ShapeOK(r)' = ShapeOK(r)
  BY <1>1 DEF ShapeOK, UsesGroup
<1>4. Scanned(r)' = Scanned(r)
  BY <1>1 DEF Scanned, SeenUpTo, PickUpTo
<1>5. CursorOK(r)' = CursorOK(r)
  BY <1>1, <1>2 DEF CursorOK
<1>6. BlockOf(r)' = BlockOf(r)
  BY <1>1, <1>2 DEF BlockOf, Owned, End
<1>7. Differentiated(r)' = Differentiated(r)
  BY <1>1, <1>6 DEF Differentiated, HiddenOver, WeightOver, HotOver, NeedsGrad
<1>8. Gathered(r)' = Gathered(r)
  BY <1>1 DEF Gathered, SeenUpTo, PickUpTo, HiddenOver, HotOver, Owned, End, UsesGroup
<1> QED
  BY <1>3, <1>4, <1>5, <1>7, <1>8 DEF DataOf

\* A step of one rank leaves the others alone.
LEMMA OwnStepOfOne ==
    ASSUME FlowInv, Buffers, NEW q \in Ranks, Own(q)
    PROVE  /\ Buffers' /\ UNCHANGED fixed
           /\ \A r \in Ranks : r # q =>
                /\ next'[r] = next[r] /\ pc'[r] = pc[r] /\ cursor'[r] = cursor[r] /\ seen'[r] = seen[r]
                /\ pick'[r] = pick[r] /\ merged'[r] = merged[r] /\ gradH'[r] = gradH[r]
                /\ gradW'[r] = gradW[r] /\ hot'[r] = hot[r] /\ reduced'[r] = reduced[r]
<1> USE DEF FlowInv, FlowTypeOK, Buffers, PerRank, forwardVars, backwardVars, Goto, EndCall
<1>1. CASE Enter(q)
  BY <1>1 DEF Enter, ClearBuffers
<1>2. CASE LocalChunk(q)
  BY <1>2 DEF LocalChunk
<1>3. CASE BackwardTokens(q)
  BY <1>3 DEF BackwardTokens
<1>4. CASE BackwardTile(q)
  BY <1>4 DEF BackwardTile
<1>5. CASE BackwardWhole(q)
  BY <1>5 DEF BackwardWhole
<1>6. CASE Return(q)
  BY <1>6 DEF Return
<1> QED
  BY <1>1, <1>2, <1>3, <1>4, <1>5, <1>6 DEF Own

\* A call on the group that is past the validation has a valid partition.
LEMMA PastValidation ==
    ASSUME RanksAgree, FlowInv, NEW r \in Ranks, pc[r] \notin {"idle", "ranges", "sizes"}, UsesGroup(CallOf(r))
    PROVE  Contiguous(CallOf(r)) /\ \A s \in Ranks : CallOf(r).size[s] > 0
<1>1. Running(r) /\ Hits(CallOf(r), r) # {}
  BY DEF FlowInv, PlaceOK
<1>2. next[r] \in DOMAIN program /\ CallOf(r) = program[next[r]] /\ next[r] \in Nat
  BY <1>1, FlowTypes DEF FlowInv, CallOf
<1>3. ValidPartition(CallOf(r))
  BY <1>1, <1>2, KnownToAll DEF FlowInv
<1> QED
  BY <1>3 DEF ValidPartition, Contiguous

\* What a running call is made of.
LEMMA RunningCall ==
    ASSUME FlowInv, NEW r \in Ranks, pc[r] # "idle"
    PROVE  /\ Running(r) /\ CallOf(r) \in Call
           /\ CallOf(r).start[r] \in Nat /\ CallOf(r).size[r] \in Nat
           /\ \A t \in Tokens : CallOf(r).target[t] \in Int
           /\ CallOf(r).elems \in Nat \ {0} /\ CallOf(r).tile \in Nat \ {0}
           /\ CallOf(r).hgrad \in BOOLEAN /\ CallOf(r).wgrad \in BOOLEAN
<1>1. Running(r) /\ CallOf(r) \in Call
  BY FlowTypes DEF FlowInv, PlaceOK
<1> QED
  BY <1>1 DEF Call

LEMMA TokenNumbers == Cardinality(Tokens) \in Nat \ {0} /\ Tokens = 1 .. Cardinality(Tokens)
BY TokensAssumption, FS_CardinalityType, FS_EmptySet

-----------------------------------------------------------------------------
\* Nothing has been scanned or differentiated yet.
LEMMA Fresh ==
    ASSUME NEW c \in Call, NEW r \in Ranks, NEW rows
    PROVE  /\ SeenUpTo(c, r, 0) = NoCells /\ PickUpTo(c, r, 0) = NoPick
           /\ HiddenOver(c, {}, rows) = NoCells /\ WeightOver(c, {}, rows) = NoWeightCells
           /\ HotOver(c, {}, rows) = {}
           /\ HiddenOver(c, Tokens, c.start[r] .. (c.start[r] + 0 - 1)) = NoCells
           /\ WeightOver(c, Tokens, c.start[r] .. (c.start[r] + 0 - 1)) = NoWeightCells
           /\ HotOver(c, Tokens, c.start[r] .. (c.start[r] + 0 - 1)) = {}
<1>1. c.start[r] .. (c.start[r] + 0 - 1) = {}
  BY CallTypes
<1> QED
  BY <1>1 DEF SeenUpTo, PickUpTo, HiddenOver, WeightOver, HotOver, NoCells, NoPick, NoWeightCells

\* A call begins with empty buffers.
LEMMA EnterKeepsData ==
    ASSUME RanksAgree, FlowInv, DataInv, NEW q \in Ranks, Enter(q)
    PROVE  DataOf(q)'
<1>1. /\ pc[q] = "idle" /\ Running(q) /\ UNCHANGED <<fixed, cache>> /\ FlowInv'
      /\ cursor'[q] = 0 /\ seen'[q] = NoCells /\ pick'[q] = NoPick
      /\ gradH'[q] = NoCells /\ gradW'[q] = NoWeightCells /\ hot'[q] = {}
  BY EnterKeepsFlow DEF Enter, ClearBuffers, DataInv, Buffers, PerRank
<1>2. CASE EndCall({q}, "raised")
  <2>1. pc'[q] = "idle"
    BY <1>2 DEF EndCall
  <2> QED
    BY <1>1, <2>1 DEF DataOf, ShapeOK, Scanned, CursorOK, Differentiated, Gathered, Before, Backwards
<1>3. CASE /\ ~ MetadataRefused(CallOf(q), q)
           /\ Goto(q, IF ~ UsesGroup(CallOf(q)) THEN "local"
                      ELSE IF Hits(CallOf(q), q) # {} THEN AfterPartition(q) ELSE "ranges")
  <2>1. PICK c \in Call : c = CallOf(q)
    BY <1>1, FlowTypes DEF FlowInv
  <2>2. CallOf(q)' = c /\ pc'[q] \in {"ranges", "targets", "local"}
    BY <1>1, <1>3, <2>1 DEF Goto, CallOf, fixed, AfterPartition, FlowInv, FlowTypeOK
  <2>3. c.size[q] \in Nat /\ c.start[q] \in Nat
    BY CallTypes
  <2>4. ~ UsesGroup(c) => c.size[q] > 0 /\ c.start[q] = 0
    BY <1>3, <2>1, <2>3 DEF MetadataRefused
  <2>5. UsesGroup(c) /\ pc'[q] = "local" => c.size[q] > 0
    <3> SUFFICES ASSUME UsesGroup(c), pc'[q] = "local" PROVE c.size[q] > 0
      OBVIOUS
    <3>1. Hits(c, q) # {}
      BY <1>3, <2>1 DEF Goto, FlowInv, FlowTypeOK
    <3>2. next[q] \in DOMAIN program /\ c = program[next[q]] /\ next[q] \in Nat
      BY <1>1, <2>1, FlowTypes DEF FlowInv, CallOf
    <3>3. ValidPartition(c)
      BY <3>1, <3>2, KnownToAll DEF FlowInv
    <3> QED
      BY <3>3 DEF ValidPartition, Contiguous
  <2>6. Scanned(q)'
    BY <1>1, <2>2, Fresh DEF Scanned, Before
  <2>7. Differentiated(q)'
    <3>1. BlockOf(q)' = <<{}, {}>>
      BY <2>2 DEF BlockOf, Backwards
    <3> QED
      BY <1>1, <2>2, <3>1, Fresh DEF Differentiated
  <2> QED
    BY <1>1, <2>2, <2>4, <2>5, <2>6, <2>7 DEF DataOf, ShapeOK, CursorOK, Gathered, Backwards, UsesGroup
<1> QED
  BY <1>2, <1>3 DEF Enter

\* A step of a loop ends behind where it begins, and inside.
LEMMA StepForward ==
    ASSUME NEW v \in Nat, NEW n \in Nat, v < n, NEW k \in Int
    PROVE  /\ AtMost(v + AtLeast(1, k), n) \in Nat
           /\ v < AtMost(v + AtLeast(1, k), n) /\ AtMost(v + AtLeast(1, k), n) <= n
BY DEF AtMost, AtLeast

\* A chunk adds its rows to the statistics.
LEMMA ChunkScans ==
    ASSUME NEW c \in Call, NEW r \in Ranks, NEW v0 \in Nat, NEW v1 \in Nat, v0 < v1
    PROVE  /\ SeenUpTo(c, r, v1) =
                [t \in Tokens |-> [w \in Rows |->
                    IF w \in (c.start[r] + v0) .. (c.start[r] + v1 - 1)
                    THEN SeenUpTo(c, r, v0)[t][w] + 1 ELSE SeenUpTo(c, r, v0)[t][w]]]
           /\ PickUpTo(c, r, v1) =
                [t \in Tokens |->
                    IF c.target[t] - Base(c, r, v0) \in 0 .. (v1 - v0 - 1)
                    THEN c.start[r] + v0 + (c.target[t] - Base(c, r, v0)) ELSE PickUpTo(c, r, v0)[t]]
<1>1. c.start[r] \in Nat /\ \A w \in Rows : w \in Nat
  BY CallTypes, RowsAssumption
<1>2. ASSUME NEW t \in Tokens, NEW w \in Rows
      PROVE  SeenUpTo(c, r, v1)[t][w] =
                IF w \in (c.start[r] + v0) .. (c.start[r] + v1 - 1)
                THEN SeenUpTo(c, r, v0)[t][w] + 1 ELSE SeenUpTo(c, r, v0)[t][w]
  BY <1>1, <1>2 DEF SeenUpTo
<1>3. ASSUME NEW t \in Tokens
      PROVE  PickUpTo(c, r, v1)[t] =
                IF c.target[t] - Base(c, r, v0) \in 0 .. (v1 - v0 - 1)
                THEN c.start[r] + v0 + (c.target[t] - Base(c, r, v0)) ELSE PickUpTo(c, r, v0)[t]
  <2>1. c.target[t] \in Int
    BY DEF Call
  <2> QED
    BY <1>1, <2>1 DEF PickUpTo, Base
<1> QED
  BY <1>2, <1>3 DEF SeenUpTo, PickUpTo

\* A backward begins with no block done.
LEMMA BackwardBegins ==
    ASSUME NEW r \in Ranks, NEW c \in Call, CallOf(r)' = c, pc'[r] = "backward", cursor'[r] = 0,
           gradH'[r] = NoCells, gradW'[r] = NoWeightCells, hot'[r] = {}
    PROVE  Differentiated(r)'
<1>1. BlockOf(r)' = <<{}, Owned(c, r)>> \/ BlockOf(r)' = <<Tokens, c.start[r] .. (c.start[r] + 0 - 1)>>
  <2>1. 1 .. 0 = {}
    OBVIOUS
  <2> QED
    BY <2>1 DEF BlockOf, Backwards, Owned, End
<1>2. CASE BlockOf(r)' = <<{}, Owned(c, r)>>
  BY <1>2, Fresh DEF Differentiated
<1>3. CASE BlockOf(r)' = <<Tokens, c.start[r] .. (c.start[r] + 0 - 1)>>
  BY <1>3, Fresh DEF Differentiated
<1> QED
  BY <1>1, <1>2, <1>3

LEMMA LocalKeepsData ==
    ASSUME RanksAgree, FlowInv, DataInv, NEW q \in Ranks, LocalChunk(q)
    PROVE  DataOf(q)'
<1>1. pc[q] = "local" /\ UNCHANGED <<fixed, cache, merged, gradH, gradW, hot>> /\ next' = next
  BY DEF LocalChunk, Goto, backwardVars
<1>2. PICK c \in Call : c = CallOf(q)
  BY <1>1, RunningCall
<1>3. DataOf(q) /\ cursor[q] \in Nat /\ cursor[q] < c.size[q] /\ c.start[q] \in Nat /\ c.size[q] \in Nat
  BY <1>1, <1>2, RunningCall DEF DataInv, DataOf, CursorOK
<1>4. PICK v1 : v1 = AtMost(cursor[q] + ForwardStep(c, q), c.size[q])
  OBVIOUS
<1>5. v1 \in Nat /\ cursor[q] < v1 /\ v1 <= c.size[q]
  <2>1. CASE Path(c, q) = "portable"
    <3>1. c.elems \div Cardinality(Tokens) \in Int
      BY TokenNumbers DEF Call
    <3>2. AtMost(c.size[q], c.elems \div Cardinality(Tokens)) \in Int
      BY <1>3, <3>1 DEF AtMost
    <3> QED
      BY <1>3, <1>4, <2>1, <3>2, StepForward DEF ForwardStep, VocabChunk
  <2>2. CASE Path(c, q) # "portable"
    BY <1>3, <1>4, <2>2 DEF ForwardStep, AtMost
  <2> QED
    BY <2>1, <2>2
<1>6. /\ seen'[q] = [t \in Tokens |-> [w \in Rows |->
             IF w \in (c.start[q] + cursor[q]) .. (c.start[q] + v1 - 1)
             THEN seen[q][t][w] + 1 ELSE seen[q][t][w]]]
      /\ pick'[q] = [t \in Tokens |->
             IF c.target[t] - Base(c, q, cursor[q]) \in 0 .. (v1 - cursor[q] - 1)
             THEN c.start[q] + cursor[q] + (c.target[t] - Base(c, q, cursor[q])) ELSE pick[q][t]]
      /\ cursor'[q] = IF v1 = c.size[q] THEN 0 ELSE v1
      /\ pc'[q] = IF v1 = c.size[q] THEN AfterLocal(c, q) ELSE "local"
  BY <1>2, <1>4 DEF LocalChunk, Goto, DataInv, Buffers, PerRank, FlowInv, FlowTypeOK
<1>7. seen[q] = SeenUpTo(c, q, cursor[q]) /\ pick[q] = PickUpTo(c, q, cursor[q])
  BY <1>1, <1>2, <1>3 DEF DataOf, Scanned, Before
<1>8. seen'[q] = SeenUpTo(c, q, v1) /\ pick'[q] = PickUpTo(c, q, v1)
  <2>0. cursor[q] \in Nat /\ v1 \in Nat /\ cursor[q] < v1
    BY <1>3, <1>5
  <2>1. SeenUpTo(c, q, v1) =
           [t \in Tokens |-> [w \in Rows |->
               IF w \in (c.start[q] + cursor[q]) .. (c.start[q] + v1 - 1)
               THEN SeenUpTo(c, q, cursor[q])[t][w] + 1 ELSE SeenUpTo(c, q, cursor[q])[t][w]]]
    BY <2>0, ChunkScans, SMT
  <2>2. PickUpTo(c, q, v1) =
           [t \in Tokens |->
               IF c.target[t] - Base(c, q, cursor[q]) \in 0 .. (v1 - cursor[q] - 1)
               THEN c.start[q] + cursor[q] + (c.target[t] - Base(c, q, cursor[q]))
               ELSE PickUpTo(c, q, cursor[q])[t]]
    BY <2>0, ChunkScans, SMT
  <2>3. seen'[q] = SeenUpTo(c, q, v1)
    BY <1>6, <1>7, <2>1, Zenon
  <2>4. pick'[q] = PickUpTo(c, q, v1)
    BY <1>6, <1>7, <2>2, Zenon
  <2> QED
    BY <2>3, <2>4
<1>9. CallOf(q)' = c /\ build' = build /\ BackwardKind(c, q)' = BackwardKind(c, q)
  BY <1>1, <1>2 DEF CallOf, fixed, BackwardKind, Path
<1>10. gradH'[q] = NoCells /\ gradW'[q] = NoWeightCells /\ hot'[q] = {}
  <2>1. BlockOf(q) = <<{}, {}>>
    BY <1>1 DEF BlockOf, Backwards
  <2> QED
    BY <1>1, <1>2, <1>3, <2>1, Fresh DEF DataOf, Differentiated
<1>11. CASE v1 # c.size[q]
  <2>1. pc'[q] = "local" /\ cursor'[q] = v1
    BY <1>6, <1>11
  <2>2. Differentiated(q)'
    <3>1. BlockOf(q)' = <<{}, {}>>
      BY <2>1 DEF BlockOf, Backwards
    <3> QED
      BY <1>9, <1>10, <3>1, Fresh DEF Differentiated
  <2>3. ShapeOK(q)'
    BY <1>1, <1>2, <1>3, <1>9, <2>1 DEF DataOf, ShapeOK
  <2>4. Scanned(q)'
    BY <1>8, <1>9, <2>1 DEF Scanned, Before
  <2>5. CursorOK(q)'
    BY <1>3, <1>5, <1>9, <1>11, <2>1 DEF CursorOK, Merging
  <2>6. Gathered(q)'
    BY <2>1 DEF Gathered, Backwards
  <2> QED
    BY <2>2, <2>3, <2>4, <2>5, <2>6 DEF DataOf
<1>12. CASE v1 = c.size[q]
  <2>1. pc'[q] = AfterLocal(c, q) /\ cursor'[q] = 0
    BY <1>6, <1>12
  <2>2. /\ pc'[q] \in {"owner", "backward", "done"} \cup Merging
        /\ UsesGroup(c) => pc'[q] \in {"owner"} \cup Merging
        /\ pc'[q] = "done" => ~ NeedsGrad(c)
    BY <2>1, Gathers DEF AfterLocal, AfterForward, FlowInv, Merging
  <2>3. Differentiated(q)'
    <3>1. CASE pc'[q] = "backward"
      BY <1>9, <1>10, <2>1, <3>1, BackwardBegins
    <3>2. CASE pc'[q] \in {"owner"} \cup Merging
      <4>1. BlockOf(q)' = <<{}, {}>>
        BY <3>2 DEF BlockOf, Backwards, Merging
      <4> QED
        BY <1>9, <1>10, <4>1, Fresh DEF Differentiated
    <3>3. CASE pc'[q] = "done"
      BY <1>9, <2>2, <3>3 DEF Differentiated, NeedsGrad
    <3> QED
      BY <2>2, <3>1, <3>2, <3>3
  <2>4. ShapeOK(q)'
    BY <1>1, <1>2, <1>3, <1>9 DEF DataOf, ShapeOK
  <2>5. CursorOK(q)'
    BY <1>3, <1>9, <2>1, <2>2, TokenNumbers DEF CursorOK, Merging
  <2>6. Scanned(q)'
    BY <1>8, <1>9, <1>12, <2>2 DEF Scanned, Before, Merging
  <2>7. Gathered(q)'
    BY <1>9, <2>2 DEF Gathered, Backwards, UsesGroup, Merging
  <2> QED
    BY <2>3, <2>4, <2>5, <2>6, <2>7 DEF DataOf
<1> QED
  BY <1>11, <1>12

-----------------------------------------------------------------------------
\* The one-hot terms of a block are those of its rows.
LEMMA OneHotsOfBlock ==
    ASSUME NEW c \in Call, NEW r \in Ranks, NEW toks \in SUBSET Tokens, NEW v0 \in Nat, NEW v1 \in Nat
    PROVE  OneHots(c, r, toks, v0, v1) = HotOver(c, toks, (c.start[r] + v0) .. (c.start[r] + v1 - 1))
<1>1. c.start[r] \in Nat /\ \A t \in Tokens : c.target[t] \in Int
  BY CallTypes DEF Call
<1>2. \A t \in toks : /\ c.target[t] - Base(c, r, v0) \in 0 .. (v1 - v0 - 1)
                           <=> c.target[t] \in (c.start[r] + v0) .. (c.start[r] + v1 - 1)
                      /\ c.start[r] + v0 + (c.target[t] - Base(c, r, v0)) = c.target[t]
  BY <1>1 DEF Base
<1> QED
  BY <1>2 DEF OneHots, HotOver

LEMMA HotAddsUp ==
    ASSUME NEW c, NEW toks1, NEW toks2, NEW rows1, NEW rows2, NEW toks, NEW rows,
           \A t \in toks : c.target[t] \in rows <=>
                (t \in toks1 /\ c.target[t] \in rows1) \/ (t \in toks2 /\ c.target[t] \in rows2),
           toks1 \subseteq toks, toks2 \subseteq toks
    PROVE  HotOver(c, toks, rows) = HotOver(c, toks1, rows1) \cup HotOver(c, toks2, rows2)
<1>1. \A ts, ws, x : x \in HotOver(c, ts, ws) <=> \E t \in ts : c.target[t] \in ws /\ x = <<t, c.target[t]>>
  BY DEF HotOver
<1>2. \A x : x \in HotOver(c, toks, rows) <=> x \in HotOver(c, toks1, rows1) \/ x \in HotOver(c, toks2, rows2)
  <2>1. ASSUME NEW x, x \in HotOver(c, toks, rows)
        PROVE  x \in HotOver(c, toks1, rows1) \/ x \in HotOver(c, toks2, rows2)
    <3>1. PICK t \in toks : c.target[t] \in rows /\ x = <<t, c.target[t]>>
      BY <2>1 DEF HotOver
    <3>2. (t \in toks1 /\ c.target[t] \in rows1) \/ (t \in toks2 /\ c.target[t] \in rows2)
      BY <3>1
    <3> QED
      BY <3>1, <3>2 DEF HotOver
  <2>2. ASSUME NEW x, x \in HotOver(c, toks1, rows1) \/ x \in HotOver(c, toks2, rows2)
        PROVE  x \in HotOver(c, toks, rows)
    BY <1>1, <2>2
  <2> QED
    BY <2>1, <2>2
<1> QED
  BY <1>2

\* The one-hot terms of a block of token rows join those before it.
LEMMA TokenHotsJoin ==
    ASSUME NEW c \in Call, NEW r \in Ranks, NEW before \in SUBSET Tokens, NEW toks \in SUBSET Tokens
    PROVE  HotOver(c, before \cup toks, Owned(c, r)) =
                HotOver(c, before, Owned(c, r)) \cup OneHots(c, r, toks, 0, c.size[r])
<1>1. OneHots(c, r, toks, 0, c.size[r]) = HotOver(c, toks, Owned(c, r))
  <2>1. (c.start[r] + 0) .. (c.start[r] + c.size[r] - 1) = Owned(c, r)
    BY CallTypes DEF Owned
  <2>2. c.size[r] \in Nat /\ 0 \in Nat
    BY CallTypes
  <2> QED
    BY <2>1, <2>2, OneHotsOfBlock
<1>2. HotOver(c, before \cup toks, Owned(c, r)) = HotOver(c, before, Owned(c, r)) \cup HotOver(c, toks, Owned(c, r))
  BY HotAddsUp
<1> QED
  BY <1>1, <1>2

\* Those of a tile of vocabulary rows join those of the tiles before it.
LEMMA TileHotsJoin ==
    ASSUME NEW c \in Call, NEW r \in Ranks, NEW v0 \in Nat, NEW v1 \in Nat, v0 < v1
    PROVE  HotOver(c, Tokens, c.start[r] .. (c.start[r] + v1 - 1)) =
                HotOver(c, Tokens, c.start[r] .. (c.start[r] + v0 - 1)) \cup OneHots(c, r, Tokens, v0, v1)
<1>1. PICK old, rows, new : /\ old = c.start[r] .. (c.start[r] + v0 - 1)
                            /\ rows = (c.start[r] + v0) .. (c.start[r] + v1 - 1)
                            /\ new = c.start[r] .. (c.start[r] + v1 - 1)
  OBVIOUS
<1>2. OneHots(c, r, Tokens, v0, v1) = HotOver(c, Tokens, rows)
  BY <1>1, OneHotsOfBlock
<1>3. \A t \in Tokens : c.target[t] \in new <=> c.target[t] \in old \/ c.target[t] \in rows
  BY <1>1, CallTypes DEF Call
<1>4. ASSUME NEW first, NEW second, NEW all,
             \A t \in Tokens : c.target[t] \in all <=> c.target[t] \in first \/ c.target[t] \in second
      PROVE  HotOver(c, Tokens, all) = HotOver(c, Tokens, first) \cup HotOver(c, Tokens, second)
  BY <1>4, HotAddsUp
<1>5. HotOver(c, Tokens, new) = HotOver(c, Tokens, old) \cup HotOver(c, Tokens, rows)
  BY <1>3, <1>4, Zenon
<1> QED
  BY <1>1, <1>2, <1>5

\* What a rank's step of the backward finds.
LEMMA InBackward ==
    ASSUME RanksAgree, FlowInv, DataInv, NEW q \in Ranks, pc[q] = "backward", NEW c, c = CallOf(q)
    PROVE  /\ c \in Call /\ c.start[q] \in Nat /\ c.size[q] \in Nat /\ c.size[q] > 0
           /\ cursor[q] \in Nat
           /\ gradH[q] = HiddenOver(c, BlockOf(q)[1], BlockOf(q)[2])
           /\ gradW[q] = WeightOver(c, BlockOf(q)[1], BlockOf(q)[2])
           /\ hot[q] = HotOver(c, BlockOf(q)[1], BlockOf(q)[2])
           /\ BackwardKind(c, q) = "tokens" =>
                cursor[q] < Cardinality(Tokens) /\ BlockOf(q) = <<1 .. cursor[q], Owned(c, q)>>
           /\ BackwardKind(c, q) = "tiles" =>
                /\ cursor[q] < c.size[q]
                /\ BlockOf(q) = <<Tokens, c.start[q] .. (c.start[q] + cursor[q] - 1)>>
<1>1. DataOf(q) /\ c \in Call /\ c.start[q] \in Nat /\ c.size[q] \in Nat
  BY RunningCall DEF DataInv
<1>2. c.size[q] > 0
  BY <1>1, PastValidation DEF DataOf, ShapeOK
<1>3. Differentiated(q) /\ CursorOK(q)
  BY <1>1 DEF DataOf
<1>4. /\ gradH[q] = HiddenOver(c, BlockOf(q)[1], BlockOf(q)[2])
      /\ gradW[q] = WeightOver(c, BlockOf(q)[1], BlockOf(q)[2])
      /\ hot[q] = HotOver(c, BlockOf(q)[1], BlockOf(q)[2])
  BY <1>3 DEF Differentiated
<1>5. /\ BackwardKind(c, q) = "tokens" =>
           cursor[q] < Cardinality(Tokens) /\ BlockOf(q) = <<1 .. cursor[q], Owned(c, q)>>
      /\ BackwardKind(c, q) = "tiles" =>
           /\ cursor[q] < c.size[q]
           /\ BlockOf(q) = <<Tokens, c.start[q] .. (c.start[q] + cursor[q] - 1)>>
  BY <1>3 DEF CursorOK, BlockOf
<1>6. cursor[q] \in Nat
  BY <1>3 DEF CursorOK
<1> QED
  BY <1>1, <1>2, <1>4, <1>5, <1>6

\* The backward has more blocks to do.
LEMMA BackwardGoesOn ==
    ASSUME NEW q \in Ranks, DataOf(q), pc[q] = "backward", UNCHANGED fixed, next'[q] = next[q],
           seen'[q] = seen[q], pick'[q] = pick[q], merged'[q] = merged[q],
           pc'[q] = "backward", CursorOK(q)', Differentiated(q)'
    PROVE  DataOf(q)'
<1>1. CallOf(q)' = CallOf(q)
  BY DEF CallOf, fixed
<1>2. ShapeOK(q)'
  BY <1>1 DEF DataOf, ShapeOK, UsesGroup
<1>3. Scanned(q)'
  BY <1>1 DEF DataOf, Scanned, SeenUpTo, PickUpTo, Before
<1>4. Gathered(q)'
  BY <1>1 DEF DataOf, Gathered, Backwards, SeenUpTo, PickUpTo, UsesGroup
<1> QED
  BY <1>2, <1>3, <1>4 DEF DataOf

\* The backward is through with all of dlogits.
LEMMA BackwardEnds ==
    ASSUME NEW q \in Ranks, DataOf(q), pc[q] = "backward", UNCHANGED fixed, next'[q] = next[q],
           seen'[q] = seen[q], pick'[q] = pick[q], merged'[q] = merged[q], NEW c, c = CallOf(q),
           pc'[q] = AfterBackward(c, q), cursor'[q] \in Nat,
           gradH'[q] = HiddenOver(c, Tokens, Owned(c, q)),
           gradW'[q] = WeightOver(c, Tokens, Owned(c, q)),
           hot'[q] = HotOver(c, Tokens, Owned(c, q))
    PROVE  DataOf(q)'
<1>1. CallOf(q)' = c
  BY DEF CallOf, fixed
<1>2. /\ pc'[q] \in {"reduce32", "reduce16", "done"}
      /\ UsesGroup(c) /\ c.hgrad => pc'[q] # "done"
  BY DEF AfterBackward, ReducesHidden
<1>3. ShapeOK(q)'
  BY <1>1 DEF DataOf, ShapeOK, UsesGroup
<1>4. Scanned(q)'
  <2>1. seen[q] = SeenUpTo(c, q, c.size[q]) /\ pick[q] = PickUpTo(c, q, c.size[q])
    BY DEF DataOf, Scanned, Before
  <2>2. pc'[q] \notin Before
    BY <1>2 DEF Before
  <2> QED
    BY <1>1, <2>1, <2>2 DEF Scanned, SeenUpTo, PickUpTo
<1>5. CursorOK(q)'
  BY <1>2 DEF CursorOK, Merging
<1>6. Differentiated(q)'
  <2>1. BlockOf(q)' = <<Tokens, Owned(c, q)>>
    BY <1>1, <1>2 DEF BlockOf, Backwards, Owned, End
  <2> QED
    BY <1>1, <2>1 DEF Differentiated, HiddenOver, WeightOver, HotOver
<1>7. Gathered(q)'
  BY <1>1, <1>2 DEF DataOf, Gathered, Backwards, SeenUpTo, PickUpTo, UsesGroup
<1> QED
  BY <1>3, <1>4, <1>5, <1>6, <1>7 DEF DataOf

LEMMA TokensKeepData ==
    ASSUME RanksAgree, FlowInv, DataInv, NEW q \in Ranks, BackwardTokens(q)
    PROVE  DataOf(q)'
<1>1. pc[q] = "backward" /\ UNCHANGED <<fixed, cache, seen, pick, merged>> /\ next' = next
  BY DEF BackwardTokens, Goto, forwardVars
<1>2. PICK c \in Call : c = CallOf(q)
  BY <1>1, RunningCall
<1>3. BackwardKind(c, q) = "tokens"
  BY <1>2 DEF BackwardTokens
<1>4. /\ DataOf(q) /\ c.size[q] \in Nat /\ c.size[q] > 0
      /\ cursor[q] \in Nat /\ cursor[q] < Cardinality(Tokens)
      /\ gradH[q] = HiddenOver(c, 1 .. cursor[q], Owned(c, q))
      /\ gradW[q] = WeightOver(c, 1 .. cursor[q], Owned(c, q))
      /\ hot[q] = HotOver(c, 1 .. cursor[q], Owned(c, q))
  BY <1>1, <1>2, <1>3, InBackward DEF DataInv
<1>5. PICK i1 : i1 = AtMost(cursor[q] + TokenChunk(c, q), Cardinality(Tokens))
  OBVIOUS
<1>6. i1 \in Nat /\ cursor[q] < i1 /\ i1 <= Cardinality(Tokens)
  <2>1. c.elems \div c.size[q] \in Int
    BY <1>4 DEF Call
  <2>2. AtMost(Cardinality(Tokens), c.elems \div c.size[q]) \in Int
    BY <2>1, TokenNumbers DEF AtMost
  <2> QED
    BY <1>4, <1>5, <2>2, StepForward, TokenNumbers DEF TokenChunk
<1>7. /\ gradH'[q] = [t \in Tokens |->
             IF c.hgrad /\ t \in (cursor[q] + 1) .. i1
             THEN [w \in Rows |-> IF w \in Owned(c, q) THEN 1 ELSE 0] ELSE gradH[q][t]]
      /\ gradW'[q] = [w \in Rows |-> [t \in Tokens |->
             IF c.wgrad /\ w \in Owned(c, q) /\ t \in (cursor[q] + 1) .. i1
             THEN gradW[q][w][t] + 1 ELSE gradW[q][w][t]]]
      /\ hot'[q] = hot[q] \cup OneHots(c, q, (cursor[q] + 1) .. i1, 0, c.size[q])
      /\ cursor'[q] = i1
      /\ pc'[q] = IF i1 = Cardinality(Tokens) THEN AfterBackward(c, q) ELSE "backward"
  BY <1>2, <1>5 DEF BackwardTokens, Goto, DataInv, Buffers, PerRank, FlowInv, FlowTypeOK
<1>8. /\ gradH'[q] = HiddenOver(c, 1 .. i1, Owned(c, q))
      /\ gradW'[q] = WeightOver(c, 1 .. i1, Owned(c, q))
      /\ hot'[q] = HotOver(c, 1 .. i1, Owned(c, q))
  <2>1. PICK before, toks : before = 1 .. cursor[q] /\ toks = (cursor[q] + 1) .. i1
    OBVIOUS
  <2>2. before \in SUBSET Tokens /\ toks \in SUBSET Tokens /\ before \cap toks = {}
    BY <1>4, <1>6, <2>1, TokenNumbers
  <2>7. 1 .. i1 = before \cup toks
    BY <1>4, <1>6, <2>1
  <2>3. /\ gradH[q] = HiddenOver(c, before, Owned(c, q))
        /\ gradW[q] = WeightOver(c, before, Owned(c, q))
        /\ hot[q] = HotOver(c, before, Owned(c, q))
    BY <1>4, <2>1
  <2>4. gradH'[q] = HiddenOver(c, before \cup toks, Owned(c, q))
    <3>1. gradH'[q] = [t \in Tokens |->
             IF c.hgrad /\ t \in toks
             THEN [w \in Rows |-> IF w \in Owned(c, q) THEN 1 ELSE 0]
             ELSE HiddenOver(c, before, Owned(c, q))[t]]
      BY <1>7, <2>1, <2>3
    <3>2. HiddenOver(c, before \cup toks, Owned(c, q)) = [t \in Tokens |->
             IF c.hgrad /\ t \in toks
             THEN [w \in Rows |-> IF w \in Owned(c, q) THEN 1 ELSE 0]
             ELSE HiddenOver(c, before, Owned(c, q))[t]]
      BY <2>2 DEF HiddenOver
    <3> QED
      BY <3>1, <3>2
  <2>5. gradW'[q] = WeightOver(c, before \cup toks, Owned(c, q))
    <3>1. gradW'[q] = [w \in Rows |-> [t \in Tokens |->
             IF c.wgrad /\ w \in Owned(c, q) /\ t \in toks
             THEN WeightOver(c, before, Owned(c, q))[w][t] + 1
             ELSE WeightOver(c, before, Owned(c, q))[w][t]]]
      BY <1>7, <2>1, <2>3
    <3>2. WeightOver(c, before \cup toks, Owned(c, q)) = [w \in Rows |-> [t \in Tokens |->
             IF c.wgrad /\ w \in Owned(c, q) /\ t \in toks
             THEN WeightOver(c, before, Owned(c, q))[w][t] + 1
             ELSE WeightOver(c, before, Owned(c, q))[w][t]]]
      BY <2>2 DEF WeightOver
    <3> QED
      BY <3>1, <3>2
  <2>6. hot'[q] = HotOver(c, before \cup toks, Owned(c, q))
    <3>1. hot'[q] = HotOver(c, before, Owned(c, q)) \cup OneHots(c, q, toks, 0, c.size[q])
      BY <1>7, <2>1, <2>3
    <3>2. HotOver(c, before \cup toks, Owned(c, q)) =
             HotOver(c, before, Owned(c, q)) \cup OneHots(c, q, toks, 0, c.size[q])
      BY <2>2, TokenHotsJoin
    <3> QED
      BY <3>1, <3>2
  <2> QED
    BY <2>4, <2>5, <2>6, <2>7
<1>9. CallOf(q)' = c /\ BackwardKind(c, q)' = "tokens"
  BY <1>1, <1>2, <1>3 DEF CallOf, fixed, BackwardKind, Path
<1>10. CASE i1 = Cardinality(Tokens)
  BY <1>1, <1>2, <1>4, <1>6, <1>7, <1>8, <1>10, BackwardEnds, TokenNumbers
<1>11. CASE i1 # Cardinality(Tokens)
  <2>1. pc'[q] = "backward" /\ cursor'[q] = i1
    BY <1>7, <1>11
  <2>2. CursorOK(q)'
    BY <1>6, <1>9, <1>11, <2>1, TokenNumbers DEF CursorOK, Merging
  <2>3. Differentiated(q)'
    <3>1. BlockOf(q)' = <<1 .. i1, Owned(c, q)>>
      BY <1>9, <2>1 DEF BlockOf, Owned, End
    <3> QED
      BY <1>8, <1>9, <3>1 DEF Differentiated, HiddenOver, WeightOver, HotOver
  <2> QED
    BY <1>1, <1>4, <2>1, <2>2, <2>3, BackwardGoesOn
<1> QED
  BY <1>10, <1>11

LEMMA TileKeepsData ==
    ASSUME RanksAgree, FlowInv, DataInv, NEW q \in Ranks, BackwardTile(q)
    PROVE  DataOf(q)'
<1>1. pc[q] = "backward" /\ UNCHANGED <<fixed, cache, seen, pick, merged>> /\ next' = next
  BY DEF BackwardTile, Goto, forwardVars
<1>2. PICK c \in Call : c = CallOf(q)
  BY <1>1, RunningCall
<1>3. BackwardKind(c, q) = "tiles"
  BY <1>2 DEF BackwardTile
<1>4. PICK v0, old : v0 = cursor[q] /\ old = c.start[q] .. (c.start[q] + v0 - 1)
  OBVIOUS
<1>5. /\ DataOf(q) /\ c.size[q] \in Nat /\ c.start[q] \in Nat
      /\ v0 \in Nat /\ v0 < c.size[q]
      /\ gradH[q] = HiddenOver(c, Tokens, old)
      /\ gradW[q] = WeightOver(c, Tokens, old)
      /\ hot[q] = HotOver(c, Tokens, old)
  BY <1>1, <1>2, <1>3, <1>4, InBackward DEF DataInv
<1>6. PICK v1 : v1 = AtMost(v0 + VocabTile(c, q), c.size[q])
  OBVIOUS
<1>7. v1 \in Nat /\ v0 < v1 /\ v1 <= c.size[q]
  <2>1. AtMost(c.tile, c.size[q]) \in Int
    BY <1>5 DEF Call, AtMost
  <2> QED
    BY <1>5, <1>6, <2>1, StepForward DEF VocabTile
<1>8. PICK rows, new : /\ rows = (c.start[q] + v0) .. (c.start[q] + v1 - 1)
                       /\ new = c.start[q] .. (c.start[q] + v1 - 1)
  OBVIOUS
<1>9. /\ gradH'[q] = [t \in Tokens |-> [w \in Rows |->
             IF ~ c.hgrad THEN 0
             ELSE TileStart(gradH[q][t][w], v0 = 0) + (IF w \in rows THEN 1 ELSE 0)]]
      /\ gradW'[q] = [w \in Rows |->
             IF c.wgrad /\ w \in rows THEN [t \in Tokens |-> 1] ELSE gradW[q][w]]
      /\ hot'[q] = hot[q] \cup OneHots(c, q, Tokens, v0, v1)
      /\ cursor'[q] = v1
      /\ pc'[q] = IF v1 = c.size[q] THEN AfterBackward(c, q) ELSE "backward"
  BY <1>2, <1>4, <1>6, <1>8 DEF BackwardTile, Goto, DataInv, Buffers, PerRank, FlowInv, FlowTypeOK
<1>10. /\ gradH'[q] = HiddenOver(c, Tokens, new)
       /\ gradW'[q] = WeightOver(c, Tokens, new)
       /\ hot'[q] = HotOver(c, Tokens, new)
  <2>1. \A w \in Rows : /\ w \in new <=> w \in old \/ w \in rows
                        /\ ~ (w \in old /\ w \in rows)
                        /\ v0 = 0 => w \notin old
    <3>1. c.start[q] \in Nat /\ v0 \in Nat /\ v1 \in Nat /\ v0 < v1
      BY <1>5, <1>7
    <3> QED
      BY <1>4, <1>8, <3>1, RowsAssumption, SMTT(30)
  <2>2. gradH'[q] = HiddenOver(c, Tokens, new)
    <3>1. gradH'[q] = [t \in Tokens |-> [w \in Rows |->
             IF ~ c.hgrad THEN 0
             ELSE TileStart(HiddenOver(c, Tokens, old)[t][w], v0 = 0) + (IF w \in rows THEN 1 ELSE 0)]]
      BY <1>5, <1>9
    <3>2. HiddenOver(c, Tokens, new) = [t \in Tokens |-> [w \in Rows |->
             IF ~ c.hgrad THEN 0
             ELSE TileStart(HiddenOver(c, Tokens, old)[t][w], v0 = 0) + (IF w \in rows THEN 1 ELSE 0)]]
      BY <2>1 DEF HiddenOver, TileStart
    <3> QED
      BY <3>1, <3>2
  <2>3. gradW'[q] = WeightOver(c, Tokens, new)
    <3>1. gradW'[q] = [w \in Rows |->
             IF c.wgrad /\ w \in rows THEN [t \in Tokens |-> 1] ELSE WeightOver(c, Tokens, old)[w]]
      BY <1>5, <1>9
    <3>2. WeightOver(c, Tokens, new) = [w \in Rows |->
             IF c.wgrad /\ w \in rows THEN [t \in Tokens |-> 1] ELSE WeightOver(c, Tokens, old)[w]]
      BY <2>1 DEF WeightOver
    <3> QED
      BY <3>1, <3>2
  <2>4. hot'[q] = HotOver(c, Tokens, new)
    <3>1. hot'[q] = HotOver(c, Tokens, old) \cup OneHots(c, q, Tokens, v0, v1)
      BY <1>5, <1>9
    <3>2. HotOver(c, Tokens, new) = HotOver(c, Tokens, old) \cup OneHots(c, q, Tokens, v0, v1)
      <4>1. v0 \in Nat /\ v1 \in Nat /\ v0 < v1
        BY <1>5, <1>7
      <4>2. HotOver(c, Tokens, c.start[q] .. (c.start[q] + v1 - 1)) =
               HotOver(c, Tokens, c.start[q] .. (c.start[q] + v0 - 1)) \cup OneHots(c, q, Tokens, v0, v1)
        BY <4>1, TileHotsJoin
      <4> QED
        BY <1>4, <1>8, <4>2
    <3> QED
      BY <3>1, <3>2
  <2> QED
    BY <2>2, <2>3, <2>4
<1>11. CallOf(q)' = c /\ BackwardKind(c, q)' = "tiles"
  BY <1>1, <1>2, <1>3 DEF CallOf, fixed, BackwardKind, Path
<1>12. CASE v1 = c.size[q]
  <2>1. new = Owned(c, q)
    BY <1>8, <1>12, CallTypes DEF Owned
  <2> QED
    BY <1>1, <1>2, <1>5, <1>7, <1>9, <1>10, <1>12, <2>1, BackwardEnds
<1>13. CASE v1 # c.size[q]
  <2>1. pc'[q] = "backward" /\ cursor'[q] = v1
    BY <1>9, <1>13
  <2>2. CursorOK(q)'
    BY <1>5, <1>7, <1>11, <1>13, <2>1 DEF CursorOK, Merging
  <2>3. Differentiated(q)'
    <3>1. BlockOf(q)' = <<Tokens, new>>
      BY <1>8, <1>11, <2>1 DEF BlockOf
    <3> QED
      BY <1>10, <1>11, <3>1 DEF Differentiated, HiddenOver, WeightOver, HotOver
  <2> QED
    BY <1>1, <1>5, <2>1, <2>2, <2>3, BackwardGoesOn
<1> QED
  BY <1>12, <1>13

LEMMA WholeKeepsData ==
    ASSUME RanksAgree, FlowInv, DataInv, NEW q \in Ranks, BackwardWhole(q)
    PROVE  DataOf(q)'
<1>1. pc[q] = "backward" /\ UNCHANGED <<fixed, cache, cursor, seen, pick, merged>> /\ next' = next
  BY DEF BackwardWhole, Goto, forwardVars
<1>2. PICK c \in Call : c = CallOf(q)
  BY <1>1, RunningCall
<1>3. DataOf(q) /\ cursor[q] \in Nat
  BY <1>1, InBackward DEF DataInv
<1>4. /\ gradH'[q] = [t \in Tokens |-> [w \in Rows |-> IF c.hgrad /\ w \in Owned(c, q) THEN 1 ELSE 0]]
      /\ gradW'[q] = [w \in Rows |-> [t \in Tokens |-> IF c.wgrad /\ w \in Owned(c, q) THEN 1 ELSE 0]]
      /\ hot'[q] = OneHots(c, q, Tokens, 0, c.size[q])
      /\ pc'[q] = AfterBackward(c, q)
  BY <1>2 DEF BackwardWhole, Goto, DataInv, Buffers, PerRank, FlowInv, FlowTypeOK
<1>5. gradH'[q] = HiddenOver(c, Tokens, Owned(c, q))
  BY <1>4 DEF HiddenOver
<1>6. gradW'[q] = WeightOver(c, Tokens, Owned(c, q))
  BY <1>4 DEF WeightOver
<1>7. hot'[q] = HotOver(c, Tokens, Owned(c, q))
  <2>1. {} \in SUBSET Tokens /\ Tokens \in SUBSET Tokens
    OBVIOUS
  <2>2. HotOver(c, {} \cup Tokens, Owned(c, q)) = HotOver(c, {}, Owned(c, q)) \cup OneHots(c, q, Tokens, 0, c.size[q])
    BY <2>1, TokenHotsJoin
  <2>3. {} \cup Tokens = Tokens /\ HotOver(c, {}, Owned(c, q)) = {}
    BY DEF HotOver
  <2> QED
    BY <1>4, <2>2, <2>3
<1> QED
  BY <1>1, <1>2, <1>3, <1>4, <1>5, <1>6, <1>7, BackwardEnds

\* Between calls, nothing is said of the buffers.
LEMMA ReturnKeepsData ==
    ASSUME FlowInv, DataInv, NEW q \in Ranks, Return(q)
    PROVE  DataOf(q)'
<1>1. pc'[q] = "idle" /\ cursor'[q] = cursor[q] /\ cursor[q] \in Nat
  BY DEF Return, EndCall, DataInv, DataOf, CursorOK
<1> QED
  BY <1>1 DEF DataOf, ShapeOK, Scanned, CursorOK, Differentiated, Gathered, Before, Backwards, Merging

-----------------------------------------------------------------------------
\* A collective that brings no numbers together leaves the buffers alone.
LEMMA SyncKeepsData ==
    ASSUME FlowInv, DataInv, NEW r \in Ranks, pc[r] \in {"ranges", "sizes", "targets", "owner"},
           UNCHANGED fixed, cursor'[r] = cursor[r], seen'[r] = seen[r], pick'[r] = pick[r],
           gradH'[r] = gradH[r], gradW'[r] = gradW[r], hot'[r] = hot[r],
           \/ pc'[r] = "idle"
           \/ /\ next'[r] = next[r]
              /\ IF pc[r] = "owner" THEN pc'[r] \in Merging ELSE pc'[r] \in {"sizes", "targets", "local"}
              /\ CallOf(r).size[r] > 0
    PROVE  DataOf(r)'
<1>1. DataOf(r) /\ UsesGroup(CallOf(r)) /\ cursor[r] = 0
  <2>1. UsesGroup(CallOf(r))
    BY DEF FlowInv, PlaceOK, Collectives
  <2>2. DataOf(r)
    BY DEF DataInv
  <2> QED
    BY <2>1, <2>2 DEF DataOf, CursorOK
<1>2. CASE pc'[r] = "idle"
  BY <1>1, <1>2 DEF DataOf, ShapeOK, Scanned, CursorOK, Differentiated, Gathered, Before, Backwards
<1>3. CASE pc'[r] # "idle"
  <2>1. PICK c \in Call : c = CallOf(r)
    BY RunningCall
  <2>2. CallOf(r)' = c /\ UsesGroup(c)' /\ c.size[r] > 0
    BY <1>1, <1>3, <2>1 DEF CallOf, fixed, UsesGroup
  <2>3. /\ pc'[r] \in {"sizes", "targets", "local"} \cup Merging
        /\ pc[r] \in Before <=> pc'[r] \in Before
    BY <1>3 DEF Before, Merging
  <2>4. ShapeOK(r)'
    BY <2>2 DEF ShapeOK
  <2>5. Scanned(r)'
    <3>1. /\ seen[r] = SeenUpTo(c, r, IF pc[r] \in Before THEN cursor[r] ELSE c.size[r])
          /\ pick[r] = PickUpTo(c, r, IF pc[r] \in Before THEN cursor[r] ELSE c.size[r])
      BY <1>1, <2>1 DEF DataOf, Scanned
    <3> QED
      BY <2>2, <2>3, <3>1 DEF Scanned, SeenUpTo, PickUpTo
  <2>6. CursorOK(r)'
    BY <1>1, <2>2, <2>3 DEF CursorOK, Merging
  <2>7. Differentiated(r)'
    <3>1. BlockOf(r) = <<{}, {}>> /\ BlockOf(r)' = <<{}, {}>>
      BY <2>3 DEF BlockOf, Backwards, Merging
    <3>2. gradH[r] = HiddenOver(c, {}, {}) /\ gradW[r] = WeightOver(c, {}, {}) /\ hot[r] = HotOver(c, {}, {})
      BY <1>1, <2>1, <3>1 DEF DataOf, Differentiated
    <3> QED
      BY <2>2, <3>1, <3>2 DEF Differentiated, HiddenOver, WeightOver, HotOver
  <2>8. Gathered(r)'
    BY <2>3 DEF Gathered, Backwards, Merging
  <2> QED
    BY <2>4, <2>5, <2>6, <2>7, <2>8 DEF DataOf
<1> QED
  BY <1>2, <1>3

\* What every rank takes from the merge is all ranks' statistics.
LEMMA MergeKeepsData ==
    ASSUME RanksAgree, FlowInv, DataInv, NEW place \in Merging, Merge(place), NEW r \in Ranks
    PROVE  DataOf(r)'
<1>1. place \in Collectives /\ AllIn(place)
  BY DEF Merge, Collectives, Merging
<1>2. PICK c \in Call : c = CallOf(r)
  BY <1>1, RunningCall DEF AllIn, Merging
<1>3. /\ UsesGroup(c) /\ pc[r] \in Merging /\ c.size[r] > 0
      /\ \A s \in Ranks : pc[s] \in Merging /\ CallOf(s) = c /\ DataOf(s)
  BY <1>1, <1>2, AllInStep, PastValidation DEF InGroup, Grouped, DataInv, Merging
<1>4. /\ UNCHANGED <<fixed, next, cursor, seen, pick, gradH, gradW, hot>>
      /\ merged'[r] = [s \in Ranks |-> [seen |-> seen[s], pick |-> pick[s]]]
      /\ pc'[r] = AfterForward(c)
  BY <1>2 DEF Merge, backwardVars
<1>5. CallOf(r)' = c /\ UsesGroup(c)'
  BY <1>2, <1>3, <1>4 DEF CallOf, fixed, UsesGroup
<1>6. pc'[r] \in {"backward", "done"} /\ (pc'[r] = "done" => ~ NeedsGrad(c))
  BY <1>4 DEF AfterForward
<1>7. \A s \in Ranks : seen[s] = SeenUpTo(c, s, c.size[s]) /\ pick[s] = PickUpTo(c, s, c.size[s])
  BY <1>3 DEF DataOf, Scanned, Before, Merging
<1>8. cursor'[r] = 0 /\ gradH'[r] = NoCells /\ gradW'[r] = NoWeightCells /\ hot'[r] = {}
  <2>1. BlockOf(r) = <<{}, {}>> /\ cursor[r] = 0
    BY <1>3 DEF BlockOf, Backwards, DataOf, CursorOK, Merging
  <2>2. gradH[r] = HiddenOver(c, {}, {}) /\ gradW[r] = WeightOver(c, {}, {}) /\ hot[r] = HotOver(c, {}, {})
    BY <1>2, <1>3, <2>1 DEF DataOf, Differentiated, Merging
  <2> QED
    BY <1>4, <2>1, <2>2, Fresh
<1>9. Differentiated(r)'
  <2>1. CASE pc'[r] = "backward"
    BY <1>5, <1>8, <2>1, BackwardBegins
  <2>2. CASE pc'[r] = "done"
    BY <1>5, <1>6, <2>2 DEF Differentiated, NeedsGrad
  <2> QED
    BY <1>6, <2>1, <2>2
<1>10. ShapeOK(r)'
  BY <1>5 DEF ShapeOK
<1>11. Scanned(r)'
  <2>1. seen'[r] = SeenUpTo(c, r, c.size[r]) /\ pick'[r] = PickUpTo(c, r, c.size[r])
    BY <1>4, <1>7
  <2>2. pc'[r] \notin Before
    BY <1>6 DEF Before
  <2> QED
    BY <1>5, <2>1, <2>2 DEF Scanned, SeenUpTo, PickUpTo
<1>12. CursorOK(r)'
  BY <1>3, <1>5, <1>6, <1>8, TokenNumbers DEF CursorOK
<1>13. Gathered(r)'
  <2>1. merged'[r] = [s \in Ranks |-> [seen |-> SeenUpTo(c, s, c.size[s]), pick |-> PickUpTo(c, s, c.size[s])]]
    BY <1>4, <1>7
  <2>2. ~ (pc'[r] = "done" /\ c.hgrad)
    BY <1>6 DEF NeedsGrad
  <2> QED
    BY <1>5, <2>1, <2>2 DEF Gathered, SeenUpTo, PickUpTo
<1> QED
  BY <1>9, <1>10, <1>11, <1>12, <1>13 DEF DataOf

\* The all_reduce of grad_hidden brings all ranks' parts together.
LEMMA ReduceKeepsData ==
    ASSUME RanksAgree, FlowInv, DataInv, NEW place \in {"reduce32", "reduce16"}, ReduceHidden(place), NEW r \in Ranks
    PROVE  DataOf(r)'
<1>1. place \in Collectives /\ AllIn(place)
  BY DEF ReduceHidden, Collectives
<1>2. PICK c \in Call : c = CallOf(r)
  BY <1>1, RunningCall DEF AllIn
<1>3. /\ UsesGroup(c)
      /\ \A s \in Ranks : pc[s] = place /\ CallOf(s) = c /\ DataOf(s)
  BY <1>1, <1>2, AllInStep DEF InGroup, DataInv, Grouped
<1>4. /\ UNCHANGED <<fixed, next, cursor, seen, pick, merged, gradH, gradW, hot>>
      /\ reduced'[r] = [s \in Ranks |-> [cells |-> gradH[s], hot |-> hot[s]]]
      /\ pc'[r] = "done"
  BY DEF ReduceHidden, forwardVars
<1>5. CallOf(r)' = c /\ UsesGroup(c)'
  BY <1>2, <1>3, <1>4 DEF CallOf, fixed, UsesGroup
<1>6. \A s \in Ranks : /\ gradH[s] = HiddenOver(c, Tokens, Owned(c, s))
                       /\ gradW[s] = WeightOver(c, Tokens, Owned(c, s))
                       /\ hot[s] = HotOver(c, Tokens, Owned(c, s))
  <2> TAKE s \in Ranks
  <2>1. BlockOf(s) = <<Tokens, Owned(c, s)>>
    BY <1>3 DEF BlockOf, Backwards
  <2> QED
    BY <1>3, <2>1 DEF DataOf, Differentiated
<1>7. seen[r] = SeenUpTo(c, r, c.size[r]) /\ pick[r] = PickUpTo(c, r, c.size[r]) /\ cursor[r] \in Nat
  BY <1>3 DEF DataOf, Scanned, Before, CursorOK
<1>8. ShapeOK(r)' /\ CursorOK(r)'
  BY <1>4, <1>5, <1>7 DEF ShapeOK, CursorOK, Merging
<1>9. Scanned(r)'
  BY <1>4, <1>5, <1>7 DEF Scanned, Before, SeenUpTo, PickUpTo
<1>10. Differentiated(r)'
  <2>1. BlockOf(r)' = <<Tokens, Owned(c, r)>>
    BY <1>4, <1>5 DEF BlockOf, Backwards, Owned, End
  <2> QED
    BY <1>4, <1>5, <1>6, <2>1 DEF Differentiated, HiddenOver, WeightOver, HotOver
<1>11. Gathered(r)'
  <2>1. merged[r] = [s \in Ranks |-> [seen |-> SeenUpTo(c, s, c.size[s]), pick |-> PickUpTo(c, s, c.size[s])]]
    BY <1>2, <1>3 DEF DataOf, Gathered, Backwards
  <2>2. reduced'[r] = [s \in Ranks |-> [cells |-> HiddenOver(c, Tokens, Owned(c, s)),
                                       hot |-> HotOver(c, Tokens, Owned(c, s))]]
    BY <1>4, <1>6
  <2> QED
    BY <1>4, <1>5, <2>1, <2>2 DEF Gathered
<1> QED
  BY <1>8, <1>9, <1>10, <1>11 DEF DataOf

LEMMA JointKeepsData ==
    ASSUME RanksAgree, FlowInv, DataInv, Joint
    PROVE  DataInv'
<1>1. Buffers'
  BY DEF Joint, GatherRanges, GatherSizes, ReduceTargets, ReduceOwners, Merge, ReduceHidden, DataInv, Buffers, PerRank, forwardVars, backwardVars
<1>2. ASSUME NEW r \in Ranks PROVE DataOf(r)'
  <2>1. CASE GatherRanges
    <3>1. /\ AllIn("ranges") /\ "ranges" \in Collectives /\ pc[r] = "ranges"
          /\ UNCHANGED <<fixed, cursor, seen, pick, gradH, gradW, hot>>
      BY <2>1 DEF GatherRanges, AllIn, Collectives, forwardVars, backwardVars
    <3>2. CASE Contiguous(GroupCall)
      <4>1. CallOf(r).size[r] > 0
        BY <3>1, <3>2, GroupCallIsTheCall DEF Contiguous
      <4>2. next'[r] = next[r] /\ pc'[r] = "sizes"
        BY <2>1, <3>2 DEF GatherRanges
      <4> QED
        BY <3>1, <4>1, <4>2, SyncKeepsData
    <3>3. CASE ~ Contiguous(GroupCall)
      <4>1. pc'[r] = "idle"
        BY <2>1, <3>3 DEF GatherRanges, EndCall
      <4> QED
        BY <3>1, <4>1, SyncKeepsData
    <3> QED
      BY <3>2, <3>3
  <2>2. CASE GatherSizes
    <3>1. /\ AllIn("sizes") /\ pc[r] = "sizes"
          /\ UNCHANGED <<fixed, cursor, seen, pick, gradH, gradW, hot>>
      BY <2>2 DEF GatherSizes, AllIn, forwardVars, backwardVars
    <3>2. CallOf(r).size[r] > 0
      BY <3>1 DEF FlowInv, PlaceOK, Contiguous
    <3>3. pc'[r] = "idle" \/ (next'[r] = next[r] /\ pc'[r] \in {"targets", "local"})
      BY <2>2 DEF GatherSizes, AfterPartition
    <3> QED
      BY <3>1, <3>2, <3>3, SyncKeepsData
  <2>3. CASE ReduceTargets
    <3>1. /\ pc[r] = "targets"
          /\ UNCHANGED <<fixed, cursor, seen, pick, gradH, gradW, hot>>
      BY <2>3 DEF ReduceTargets, AllIn, forwardVars, backwardVars
    <3>2. CallOf(r).size[r] > 0
      BY <3>1, PastValidation DEF FlowInv, PlaceOK, Collectives
    <3>3. pc'[r] = "idle" \/ (next'[r] = next[r] /\ pc'[r] = "local")
      BY <2>3 DEF ReduceTargets, EndCall
    <3> QED
      BY <3>1, <3>2, <3>3, SyncKeepsData
  <2>4. CASE ReduceOwners
    <3>1. /\ pc[r] = "owner"
          /\ UNCHANGED <<fixed, cursor, seen, pick, gradH, gradW, hot>>
      BY <2>4 DEF ReduceOwners, AllIn, forwardVars, backwardVars
    <3>2. CallOf(r).size[r] > 0
      BY <3>1, PastValidation DEF FlowInv, PlaceOK, Collectives
    <3>3. pc'[r] = "idle" \/ (next'[r] = next[r] /\ pc'[r] \in Merging)
      BY <2>4, Gathers DEF ReduceOwners, EndCall, FlowInv
    <3> QED
      BY <3>1, <3>2, <3>3, SyncKeepsData
  <2>5. ASSUME NEW place \in Merging, Merge(place) PROVE DataOf(r)'
    BY <2>5, MergeKeepsData
  <2>6. ASSUME NEW place \in {"reduce32", "reduce16"}, ReduceHidden(place) PROVE DataOf(r)'
    BY <2>6, ReduceKeepsData
  <2> QED
    BY <2>1, <2>2, <2>3, <2>4, <2>5, <2>6 DEF Joint, Merging
<1> QED
  BY <1>1, <1>2 DEF DataInv

LEMMA OwnKeepsData ==
    ASSUME RanksAgree, FlowInv, DataInv, NEW q \in Ranks, Own(q)
    PROVE  DataInv'
<1>1. DataOf(q)'
  BY EnterKeepsData, LocalKeepsData, TokensKeepData, TileKeepsData, WholeKeepsData, ReturnKeepsData DEF Own
<1>2. ASSUME NEW r \in Ranks, r # q PROVE DataOf(r)'
  BY <1>2, OwnStepOfOne, UntouchedData DEF DataInv
<1>3. Buffers'
  BY OwnStepOfOne DEF DataInv
<1> QED
  BY <1>1, <1>2, <1>3 DEF DataInv

LEMMA InitData == Init => DataInv
<1> SUFFICES ASSUME Init PROVE DataInv
  OBVIOUS
<1>1. Buffers
  BY DEF Init, Buffers, PerRank
<1>2. \A r \in Ranks : pc[r] = "idle" /\ cursor[r] = 0
  BY DEF Init
<1>3. \A r \in Ranks : DataOf(r)
  BY <1>2 DEF DataOf, ShapeOK, Scanned, CursorOK, Differentiated, Gathered, Before, Backwards
<1> QED
  BY <1>1, <1>3 DEF DataInv

LEMMA DataStep == RanksAgree /\ FlowInv /\ DataInv /\ [Next]_vars => DataInv'
<1> SUFFICES ASSUME RanksAgree, FlowInv, DataInv, [Next]_vars PROVE DataInv'
  OBVIOUS
<1>1. CASE Joint
  BY <1>1, JointKeepsData
<1>2. CASE \E r \in Ranks : Own(r)
  BY <1>2, OwnKeepsData
<1>3. CASE UNCHANGED vars
  <2>1. UNCHANGED <<fixed, next, pc, cursor, seen, pick, owners, merged, gradH, gradW, hot, reduced>>
    BY <1>3 DEF vars, forwardVars, backwardVars
  <2>2. \A r \in Ranks : DataOf(r)'
    BY <2>1, UntouchedData DEF DataInv
  <2>3. Buffers'
    BY <2>1 DEF DataInv, Buffers, PerRank
  <2> QED
    BY <2>2, <2>3 DEF DataInv
<1> QED
  BY <1>1, <1>2, <1>3 DEF Next

\* Every rank's buffers hold the rows and tokens its loops have been through, and
\* after a collective those of all ranks.
THEOREM DataInvariant == Spec => [](RanksAgree => FlowInv /\ DataInv)
<1>1. Init => DataInv
  BY InitData
<1>2. (RanksAgree => FlowInv /\ DataInv) /\ [Next]_vars => (RanksAgree => FlowInv /\ DataInv)'
  <2>1. [Next]_vars => (RanksAgree' <=> RanksAgree)
    BY StepsKeepFixed, AgreeFixed
  <2> QED
    BY <2>1, FlowStep, DataStep
<1>3. Init => (RanksAgree => FlowInv /\ DataInv)
  BY <1>1, InitFlow
<1> QED
  BY <1>2, <1>3, PTL DEF Spec

-----------------------------------------------------------------------------
\* The ranks whose shards make up a call's vocabulary, and that they do.
Sharers(r) == IF UsesGroup(CallOf(r)) THEN Ranks ELSE {r}

Cut(c, S, vocabulary) ==
    \A w \in Int : IF w \in vocabulary
                   THEN \E s \in S : \A u \in S : w \in Owned(c, u) <=> u = s
                   ELSE \A u \in S : w \notin Owned(c, u)

LEMMA ShardsCutTheVocabulary ==
    ASSUME RanksAgree, FlowInv, DataInv, NEW r \in Ranks, ForwardDone(r)
    PROVE  Cut(CallOf(r), Sharers(r), Vocabulary(CallOf(r), r))
<1>1. pc[r] \in Backwards
  BY DEF ForwardDone, Backwards
<1>2. PICK c \in Call : c = CallOf(r)
  BY <1>1, RunningCall DEF Backwards
<1>3. CASE UsesGroup(c)
  <2>1. Contiguous(c)
    BY <1>1, <1>2, <1>3, PastValidation DEF Backwards
  <2>2. Sharers(r) = Ranks /\ Vocabulary(c, r) = 0 .. (Covered(c) - 1)
    BY <1>2, <1>3 DEF Sharers, Vocabulary
  <2> QED
    BY <1>2, <2>1, <2>2, OneShard DEF Cut
<1>4. CASE ~ UsesGroup(c)
  <2>1. c.start[r] = 0
    BY <1>1, <1>2, <1>4 DEF DataInv, DataOf, ShapeOK, Backwards
  <2>2. Sharers(r) = {r} /\ Vocabulary(c, r) = Owned(c, r)
    BY <1>2, <1>4, <2>1, CallTypes DEF Sharers, Vocabulary, Owned
  <2> QED
    BY <1>2, <2>2 DEF Cut
<1> QED
  BY <1>3, <1>4

\* One count for every shard: the row's own has it, once.
LEMMA CountsOfShards ==
    ASSUME NEW c, NEW S, NEW vocabulary, Cut(c, S, vocabulary), NEW w \in Int,
           NEW count, count = [s \in S |-> IF w \in Owned(c, s) THEN 1 ELSE 0]
    PROVE  IF w \in vocabulary THEN OnceAmong(count) ELSE NeverAmong(count)
<1>1. CASE w \in vocabulary
  <2>1. PICK s \in S : \A u \in S : w \in Owned(c, u) <=> u = s
    BY <1>1 DEF Cut
  <2> QED
    BY <1>1, <2>1 DEF OnceAmong
<1>2. CASE w \notin vocabulary
  BY <1>2 DEF Cut, NeverAmong
<1> QED
  BY <1>1, <1>2

LEMMA StatisticsOfAll ==
    ASSUME FlowInv, DataInv, NEW r \in Ranks, ForwardDone(r), NEW c, c = CallOf(r)
    PROVE  Statistics(r) = [s \in Sharers(r) |-> [seen |-> SeenUpTo(c, s, c.size[s]),
                                                  pick |-> PickUpTo(c, s, c.size[s])]]
<1>1. pc[r] \in Backwards /\ pc[r] # "idle" /\ pc[r] \notin Before /\ DataOf(r)
  BY DEF ForwardDone, Backwards, Before, DataInv
<1>2. CASE UsesGroup(c)
  BY <1>1, <1>2 DEF Statistics, Sharers, DataOf, Gathered
<1>3. CASE ~ UsesGroup(c)
  <2>1. seen[r] = SeenUpTo(c, r, c.size[r]) /\ pick[r] = PickUpTo(c, r, c.size[r])
    BY <1>1 DEF DataOf, Scanned
  <2> QED
    BY <1>3, <2>1 DEF Statistics, Sharers
<1> QED
  BY <1>2, <1>3

LEMMA ForwardIsReference ==
    ASSUME RanksAgree, FlowInv, DataInv
    PROVE  ResultIsReference
<1> SUFFICES ASSUME NEW r \in Ranks, ForwardDone(r),
                    \A t \in Tokens : CallOf(r).target[t] \in Vocabulary(CallOf(r), r),
                    NEW t \in Tokens
             PROVE  /\ \A w \in Rows :
                         IF w \in Vocabulary(CallOf(r), r)
                         THEN OnceAmong([s \in DOMAIN Statistics(r) |-> Statistics(r)[s].seen[t][w]])
                         ELSE NeverAmong([s \in DOMAIN Statistics(r) |-> Statistics(r)[s].seen[t][w]])
                    /\ \E s \in DOMAIN Statistics(r) : \A u \in DOMAIN Statistics(r) :
                         Statistics(r)[u].pick[t] = IF u = s THEN CallOf(r).target[t] ELSE NoRow
  BY Zenon DEF ResultIsReference
<1>0. PICK c, stats : c = CallOf(r) /\ stats = Statistics(r)
  OBVIOUS
<1>1. c \in Call
  BY <1>0, RunningCall DEF ForwardDone
<1>2. PICK S : S = Sharers(r) /\ S \subseteq Ranks
  BY DEF Sharers
<1>3. Cut(c, S, Vocabulary(c, r))
  BY <1>0, <1>2, ShardsCutTheVocabulary
<1>4. \A s \in Ranks : c.start[s] .. (c.start[s] + c.size[s] - 1) = Owned(c, s)
  BY <1>1, CallTypes DEF Owned
<1>5. DOMAIN stats = S /\ \A s \in S : /\ stats[s].seen = SeenUpTo(c, s, c.size[s])
                                       /\ stats[s].pick = PickUpTo(c, s, c.size[s])
  BY <1>0, <1>2, StatisticsOfAll
<1>6. ASSUME NEW s \in S
      PROVE  /\ \A w \in Rows : stats[s].seen[t][w] = IF w \in Owned(c, s) THEN 1 ELSE 0
             /\ stats[s].pick[t] = IF c.target[t] \in Owned(c, s) THEN c.target[t] ELSE NoRow
  <2>1. /\ \A w \in Rows : SeenUpTo(c, s, c.size[s])[t][w] = IF w \in Owned(c, s) THEN 1 ELSE 0
        /\ PickUpTo(c, s, c.size[s])[t] = IF c.target[t] \in Owned(c, s) THEN c.target[t] ELSE NoRow
    BY <1>2, <1>4 DEF SeenUpTo, PickUpTo
  <2> QED
    BY <1>5, <2>1, Zenon
<1>7. ASSUME NEW w \in Rows
      PROVE  IF w \in Vocabulary(c, r)
             THEN OnceAmong([s \in DOMAIN stats |-> stats[s].seen[t][w]])
             ELSE NeverAmong([s \in DOMAIN stats |-> stats[s].seen[t][w]])
  <2>1. PICK count : count = [s \in DOMAIN stats |-> stats[s].seen[t][w]]
    OBVIOUS
  <2>2. count = [s \in S |-> IF w \in Owned(c, s) THEN 1 ELSE 0]
    <3>1. \A s \in S : stats[s].seen[t][w] = IF w \in Owned(c, s) THEN 1 ELSE 0
      BY <1>6
    <3>2. count = [s \in S |-> stats[s].seen[t][w]]
      BY <1>5, <2>1
    <3> QED
      BY <3>1, <3>2
  <2>3. w \in Int
    BY RowsAssumption
  <2>4. IF w \in Vocabulary(c, r) THEN OnceAmong(count) ELSE NeverAmong(count)
    BY <1>3, <2>2, <2>3, CountsOfShards
  <2> QED
    BY <2>1, <2>4
<1>8. \E s \in S : \A u \in S : stats[u].pick[t] = IF u = s THEN c.target[t] ELSE NoRow
  <2>1. c.target[t] \in Int /\ c.target[t] \in Vocabulary(c, r)
    BY <1>0, <1>1 DEF Call
  <2>2. PICK s \in S : \A u \in S : c.target[t] \in Owned(c, u) <=> u = s
    BY <1>3, <2>1 DEF Cut
  <2> QED
    BY <1>6, <2>2
<1> QED
  BY <1>0, <1>5, <1>7, <1>8

\* However the shards are cut and chunked, every rank's log-probabilities are
\* those of the whole vocabulary (the hazard of a row counted twice or never).
THEOREM ResultAlwaysReference == Spec => []ResultIsReference
<1>1. (RanksAgree => FlowInv /\ DataInv) => ResultIsReference
  BY ForwardIsReference DEF ResultIsReference
<1> QED
  BY DataInvariant, <1>1, PTL

LEMMA GradientsOfAll ==
    ASSUME FlowInv, DataInv, NEW r \in Ranks, pc[r] = "done", NEW c, c = CallOf(r), NeedsGrad(c)
    PROVE  /\ c.hgrad =>
                HiddenGradient(r) = [s \in Sharers(r) |-> [cells |-> HiddenOver(c, Tokens, Owned(c, s)),
                                                           hot |-> HotOver(c, Tokens, Owned(c, s))]]
           /\ gradW[r] = WeightOver(c, Tokens, Owned(c, r))
           /\ hot[r] = HotOver(c, Tokens, Owned(c, r))
<1>1. DataOf(r)
  BY DEF DataInv
<1>2. BlockOf(r) = <<Tokens, Owned(c, r)>>
  BY DEF BlockOf, Backwards
<1>3. /\ gradH[r] = HiddenOver(c, Tokens, Owned(c, r))
      /\ gradW[r] = WeightOver(c, Tokens, Owned(c, r))
      /\ hot[r] = HotOver(c, Tokens, Owned(c, r))
  BY <1>1, <1>2 DEF DataOf, Differentiated
<1>4. CASE UsesGroup(c)
  BY <1>1, <1>3, <1>4 DEF HiddenGradient, Sharers, DataOf, Gathered, Backwards
<1>5. CASE ~ UsesGroup(c)
  BY <1>3, <1>5 DEF HiddenGradient, Sharers
<1> QED
  BY <1>3, <1>4, <1>5

LEMMA BackwardIsReference ==
    ASSUME RanksAgree, FlowInv, DataInv
    PROVE  GradIsReference
<1> SUFFICES ASSUME NEW r \in Ranks, pc[r] = "done", NeedsGrad(CallOf(r)),
                    \A t \in Tokens : CallOf(r).target[t] \in Vocabulary(CallOf(r), r)
             PROVE  /\ CallOf(r).hgrad =>
                         /\ \A t \in Tokens : \A w \in Rows :
                              IF w \in Vocabulary(CallOf(r), r)
                              THEN OnceAmong([s \in DOMAIN HiddenGradient(r) |-> HiddenGradient(r)[s].cells[t][w]])
                              ELSE NeverAmong([s \in DOMAIN HiddenGradient(r) |-> HiddenGradient(r)[s].cells[t][w]])
                         /\ UNION {HiddenGradient(r)[s].hot : s \in DOMAIN HiddenGradient(r)} =
                              {<<t, CallOf(r).target[t]>> : t \in Tokens}
                    /\ CallOf(r).wgrad =>
                         /\ \A w \in Rows : \A t \in Tokens :
                              gradW[r][w][t] = IF w \in Owned(CallOf(r), r) THEN 1 ELSE 0
                         /\ hot[r] = {cell \in {<<t, CallOf(r).target[t]>> : t \in Tokens} :
                                          cell[2] \in Owned(CallOf(r), r)}
  BY Zenon DEF GradIsReference
<1>1. PICK c, parts, S : c = CallOf(r) /\ parts = HiddenGradient(r) /\ S = Sharers(r)
  OBVIOUS
<1>2. c \in Call /\ S \subseteq Ranks /\ \A t \in Tokens : c.target[t] \in Int
  BY <1>1, RunningCall DEF Sharers
<1>3. Cut(c, S, Vocabulary(c, r))
  BY <1>1, ShardsCutTheVocabulary DEF ForwardDone
<1>4. ASSUME c.hgrad
      PROVE  /\ \A t \in Tokens : \A w \in Rows :
                  IF w \in Vocabulary(c, r)
                  THEN OnceAmong([s \in DOMAIN parts |-> parts[s].cells[t][w]])
                  ELSE NeverAmong([s \in DOMAIN parts |-> parts[s].cells[t][w]])
             /\ UNION {parts[s].hot : s \in DOMAIN parts} = {<<t, c.target[t]>> : t \in Tokens}
  <2>1. DOMAIN parts = S /\ \A s \in S : /\ parts[s].cells = HiddenOver(c, Tokens, Owned(c, s))
                                         /\ parts[s].hot = HotOver(c, Tokens, Owned(c, s))
    BY <1>1, <1>4, GradientsOfAll
  <2>2. ASSUME NEW t \in Tokens, NEW w \in Rows
        PROVE  IF w \in Vocabulary(c, r)
               THEN OnceAmong([s \in DOMAIN parts |-> parts[s].cells[t][w]])
               ELSE NeverAmong([s \in DOMAIN parts |-> parts[s].cells[t][w]])
    <3>1. PICK count : count = [s \in DOMAIN parts |-> parts[s].cells[t][w]]
      OBVIOUS
    <3>2. count = [s \in S |-> IF w \in Owned(c, s) THEN 1 ELSE 0]
      <4>1. \A s \in S : parts[s].cells[t][w] = IF w \in Owned(c, s) THEN 1 ELSE 0
        <5> TAKE s \in S
        <5>1. HiddenOver(c, Tokens, Owned(c, s))[t][w] = IF w \in Owned(c, s) THEN 1 ELSE 0
          BY <1>4 DEF HiddenOver
        <5> QED
          BY <2>1, <5>1, Zenon
      <4>2. count = [s \in S |-> parts[s].cells[t][w]]
        BY <2>1, <3>1
      <4> QED
        BY <4>1, <4>2
    <3>3. w \in Int
      BY RowsAssumption
    <3>4. IF w \in Vocabulary(c, r) THEN OnceAmong(count) ELSE NeverAmong(count)
      BY <1>3, <3>2, <3>3, CountsOfShards
    <3> QED
      BY <3>1, <3>4
  <2>3. \A t \in Tokens : \E s \in S : c.target[t] \in Owned(c, s)
    BY <1>1, <1>2, <1>3 DEF Cut
  <2>4. ASSUME NEW x
        PROVE  (\E s \in S : x \in HotOver(c, Tokens, Owned(c, s))) <=> x \in {<<t, c.target[t]>> : t \in Tokens}
    BY <2>3 DEF HotOver
  <2>5. UNION {parts[s].hot : s \in DOMAIN parts} = {<<t, c.target[t]>> : t \in Tokens}
    BY <2>1, <2>4
  <2> QED
    BY <2>2, <2>5
<1>5. ASSUME c.wgrad
      PROVE  /\ \A w \in Rows : \A t \in Tokens : gradW[r][w][t] = IF w \in Owned(c, r) THEN 1 ELSE 0
             /\ hot[r] = {cell \in {<<t, c.target[t]>> : t \in Tokens} : cell[2] \in Owned(c, r)}
  <2>1. gradW[r] = WeightOver(c, Tokens, Owned(c, r)) /\ hot[r] = HotOver(c, Tokens, Owned(c, r))
    BY <1>1, GradientsOfAll
  <2>2. \A w \in Rows : \A t \in Tokens : gradW[r][w][t] = IF w \in Owned(c, r) THEN 1 ELSE 0
    BY <1>5, <2>1 DEF WeightOver
  <2>3. HotOver(c, Tokens, Owned(c, r)) = {cell \in {<<t, c.target[t]>> : t \in Tokens} : cell[2] \in Owned(c, r)}
    BY DEF HotOver
  <2> QED
    BY <2>1, <2>2, <2>3
<1> QED
  BY <1>1, <1>4, <1>5

\* However the backward is cut into blocks and tiles, the gradients are those of
\* the whole vocabulary (the hazard of a cell or a one-hot term added twice).
THEOREM GradAlwaysReference == Spec => []GradIsReference
<1>1. (RanksAgree => FlowInv /\ DataInv) => GradIsReference
  BY BackwardIsReference DEF GradIsReference
<1> QED
  BY DataInvariant, <1>1, PTL
=============================================================================
