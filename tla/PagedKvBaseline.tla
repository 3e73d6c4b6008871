---------------------------- MODULE PagedKvBaseline -----------------------------
(***************************************************************************)
(* PagedKVScoringBaseline.score (rl_engine/executors/                      *)
(* paged_kv_baseline.py), which reserves a paged cache and its block table *)
(* and scores with the cache on, on the model that a stateless executor    *)
(* scores with the cache off (benchmarks compare the two).  One call at a  *)
(* time is made of either.                                                 *)
(***************************************************************************)
EXTENDS StatelessExecutor, Integers, Sequences

CONSTANTS
    Lengths,      \* tokens a row of attention_mask may have, 0 included
    MaxRows,      \* bound: rows of a batch
    BlockSizes,
    CacheBlocks   \* kv_cache_blocks, None where it is not set

ASSUME PagedAssumption ==
    /\ Lengths \subseteq Nat
    /\ MaxRows \in Nat \ {0}
    /\ BlockSizes \subseteq Nat \ {0}
    /\ CacheBlocks \subseteq (Nat \ {0}) \cup {None}

VARIABLES
    step,     \* where score has got to
    batch,    \* its inputs and configuration
    table,    \* block_tables: the rows written so far, without the -1s
    cursor,
    scored    \* what the last call returned, None if it raised

pagedVars == <<step, batch, table, cursor, scored>>

Batch ==
    [lengths : UNION {[1..n -> Lengths] : n \in 1..MaxRows},
     blockSize : BlockSizes, blocks : CacheBlocks]

PagedInit ==
    /\ Init
    /\ step = "idle"
    /\ batch = None
    /\ table = <<>>
    /\ cursor = 0
    /\ scored = None

-----------------------------------------------------------------------------
\* blocks_per_sequence
BlocksOf(length, size) == (length + size - 1) \div size

\* The blocks of the first n rows.
BlocksOfFirst(b) ==
    LET total[n \in 0 .. Len(b.lengths)] ==
          IF n = 0 THEN 0 ELSE total[n - 1] + BlocksOf(b.lengths[n], b.blockSize)
    IN  total

RequiredBlocks(b) == BlocksOfFirst(b)[Len(b.lengths)]

ReservedBlocks(b) == IF b.blocks = None THEN RequiredBlocks(b) ELSE b.blocks

\* The inputs are valid; of a stateless call nothing is left.  A row without tokens
\* and a kv_cache_blocks that is too small are refused.
ScorePaged(b) ==
    /\ pc = "idle"
    /\ step = "idle"
    /\ IF (\E row \in DOMAIN b.lengths : b.lengths[row] = 0) \/ ReservedBlocks(b) < RequiredBlocks(b)
       THEN UNCHANGED <<step, batch>>
       ELSE step' = "fill" /\ batch' = b
    /\ scored' = None
    /\ config' = None
    /\ policy' = None
    /\ outputs' = None
    /\ result' = None
    /\ UNCHANGED <<model, conf, pc, saved, inner, before, torn, table, cursor>>

\* Mutant: every row starts one block after the one before it.
FillRowByOne ==
    /\ step = "fill"
    /\ LET count == BlocksOf(batch.lengths[Len(table) + 1], batch.blockSize) IN
         /\ table' = Append(table, [k \in 1..count |-> cursor + k - 1])
         /\ cursor' = cursor + 1
    /\ step' = IF Len(table') = Len(batch.lengths) THEN "forward" ELSE "fill"
    /\ UNCHANGED <<vars, batch, scored>>

FillRow ==
    /\ step = "fill"
    /\ LET count == BlocksOf(batch.lengths[Len(table) + 1], batch.blockSize) IN
         /\ table' = Append(table, [k \in 1..count |-> cursor + k - 1])
         /\ cursor' = cursor + count
    /\ step' = IF Len(table') = Len(batch.lengths) THEN "forward" ELSE "fill"
    /\ UNCHANGED <<vars, batch, scored>>

\* _run_cache_forward tries use_cache=True even where the signature has no such
\* parameter, and once more without when the error names it.  The pass, the scores
\* or the reward adapter may raise; the reservation goes out of scope.
RunPaged ==
    /\ step = "forward"
    /\ step' = "idle"
    /\ scored' \in {None} \cup [passed : {model.takesFlag}, kv : BOOLEAN]
    /\ batch' = None
    /\ table' = <<>>
    /\ cursor' = 0
    /\ UNCHANGED vars

PagedProgress == FillRow \/ RunPaged

BetweenPaged ==
    /\ step = "idle"
    /\ scored' = None
    /\ UNCHANGED <<step, batch, table, cursor>>

PagedNext ==
    \/ \E b \in Batch : ScorePaged(b)
    \/ PagedProgress
    \/ (\E c \in Confs : Reconfigure(c)) /\ BetweenPaged
    \/ (\E c \in Config : Score(c)) /\ BetweenPaged
    \/ Progress /\ UNCHANGED pagedVars

PagedSpec == PagedInit /\ [][PagedNext]_<<vars, pagedVars>>

\* A forward pass returns or raises; every other step is local.
FairPagedSpec ==
    PagedSpec /\ WF_<<vars, pagedVars>>((Progress /\ UNCHANGED pagedVars) \/ PagedProgress)

-----------------------------------------------------------------------------
Tokens(b) == UNION {{row} \X (0 .. b.lengths[row] - 1) : row \in DOMAIN b.lengths}

\* Where an engine puts the token at a position: a block of its row's table, and a
\* slot in the block.
SlotOf(token) ==
    <<table[token[1]][token[2] \div batch.blockSize + 1], token[2] % batch.blockSize>>

\* Every token has a slot of its own inside the blocks that were reserved, for rows
\* that end within a block, at its end or one token behind it.
TokensHaveSlots ==
    step = "forward" =>
        /\ \A t \in Tokens(batch) :
             /\ t[2] \div batch.blockSize + 1 \in DOMAIN table[t[1]]
             /\ SlotOf(t)[1] < ReservedBlocks(batch)
        /\ \A t, u \in Tokens(batch) : SlotOf(t) = SlotOf(u) => t = u
=============================================================================
