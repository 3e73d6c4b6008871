---------------------- MODULE MCTensorParallelLinearLogp ----------------------
(* Programs of at most three calls on two ranks and a vocabulary of at most four rows,
   of ranks that agree and of ranks that do not. *)
EXTENDS TensorParallelLinearLogp
CONSTANTS r0, r1

Split(first, second) == [s \in {r0, r1} |-> IF s = r0 THEN first ELSE second]
Whole(n) == Split(n, n)

\* A float32 call on the group with both gradients, on the portable path.
Shards(rangeOf0, rangeOf1, global) ==
    [group |-> TRUE, handle |-> Whole(1), refused |-> {},
     start |-> Split(rangeOf0[1], rangeOf1[1]),
     size |-> Split(rangeOf0[2] - rangeOf0[1], rangeOf1[2] - rangeOf1[1]),
     global |-> global, target |-> <<0, 2>>, bf16 |-> FALSE, bias |-> FALSE,
     hgrad |-> TRUE, wgrad |-> TRUE, elems |-> 2, tile |-> 2]

None == Whole(NoSize)

\* Valid layouts: one in which chunks and tiles end inside a shard, one in which
\* rank 0 holds the same rows of a shorter vocabulary, and one in the other order.
Layouts == {Shards(<<0, 1>>, <<1, 4>>, None), Shards(<<0, 2>>, <<2, 4>>, Whole(4)),
            Shards(<<0, 2>>, <<2, 3>>, Whole(3)), Shards(<<3, 4>>, <<0, 3>>, Whole(4))}

\* Refused: an overlap, a hole, an empty shard, and sizes that one rank passes wrong.
BadLayouts == {Shards(<<0, 3>>, <<2, 4>>, None), Shards(<<0, 1>>, <<2, 4>>, Whole(4)),
               Shards(<<0, 4>>, <<4, 4>>, None), Shards(<<0, 2>>, <<2, 4>>, Split(NoSize, 3))}

Dispatches == [bf16 : BOOLEAN, bias : {FALSE}, hgrad : BOOLEAN, wgrad : BOOLEAN]
Dispatch(c, d) == [c EXCEPT !.bf16 = d.bf16, !.bias = d.bias, !.hgrad = d.hgrad, !.wgrad = d.wgrad]

Alone(c) == [c EXCEPT !.group = FALSE, !.start = Whole(0), !.size = Whole(3), !.global = Split(NoSize, 3)]

\* Every path once, on the group and alone.
PathPrograms == {<<Dispatch(c, d)>> : c \in Layouts, d \in Dispatches}
                  \cup {<<Dispatch(Alone(c), d)>> : c \in Layouts, d \in Dispatches}
                  \cup {<<[c EXCEPT !.bf16 = TRUE, !.bias = TRUE, !.tile = 1]>> : c \in Layouts}

\* Calls one after the other: cached and new layouts, refused ones, bad targets
\* and metadata.
OutOfRange(c) == [c EXCEPT !.target = <<4, 0>>]
Sequences == (Layouts \X (Layouts \cup BadLayouts)) \cup {<<c, d>> : c \in BadLayouts, d \in Layouts}
               \cup {<<OutOfRange(c), c>> : c \in Layouts}
               \cup {<<[Alone(c) EXCEPT !.start = Split(0, 1)], Alone(OutOfRange(c)), c>> : c \in Layouts}

\* Valid partitions in which one rank keeps its range and the other moves, the
\* same range in a new group that has the old one's id on one rank or on none, and
\* arguments that do not fit on one rank or on all.
Even == Shards(<<0, 2>>, <<2, 4>>, None)
Parting == {<<Even, Shards(<<0, 2>>, <<2, 3>>, None)>>, <<Even, Shards(<<0, 2>>, <<2, 3>>, None), Even>>,
            <<Even, [Even EXCEPT !.handle = Split(1, 2)]>>, <<Even, [Even EXCEPT !.handle = Whole(2)]>>}
             \cup {<<[Even EXCEPT !.refused = S], Even>> : S \in {{r0}, {r1}, {r0, r1}}}

MCPrograms == PathPrograms \cup Sequences \cup Parting

Operators == {[op |-> "native", kernels |-> {}], [op |-> "triton", kernels |-> {}]}
               \cup [op : {"sm90"}, kernels : {{}, {"save_probs"}, {"fused_backward"}, {"fused_tile", "fused_backward"}}]
Runs(o, v, g) == [op |-> o.op, kernels |-> o.kernels, validate |-> v, gathers |-> g]
Native == [op |-> "native", kernels |-> {}]
Fused == [op |-> "sm90", kernels |-> {"fused_tile", "fused_backward"}]

\* One build on both ranks, and ranks that differ in environment, torch or symbols.
MCBuilds == {Whole(Runs(o, v, "merge")) : o \in Operators, v \in BOOLEAN}
              \cup {Whole(Runs(Native, TRUE, "merge_list")),
                    Split(Runs(Native, TRUE, "merge"), Runs(Native, FALSE, "merge")),
                    Split(Runs(Native, FALSE, "merge"), Runs(Native, FALSE, "merge_list")),
                    Split(Runs(Fused, FALSE, "merge"), Runs(Native, FALSE, "merge"))}
===============================================================================
