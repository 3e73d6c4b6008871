------------------------------ MODULE VmmPacking ------------------------------
(***************************************************************************)
(* How CUDAVMMTensorBridge.publish (rl_engine/executors/bridge.py) lays    *)
(* the tensors of a state dict out in one allocation: each starts at the   *)
(* next multiple of 256 bytes, and the allocation is rounded up to the     *)
(* device's granularity.  The publisher copies every tensor to its range,  *)
(* and consumers build their tensors at the same offsets.                  *)
(***************************************************************************)
EXTENDS Naturals, Sequences

CONSTANTS
    Sizes,          \* sizes in bytes that tensors have
    Granularities,  \* what devices answer
    MaxTensors

ASSUME SizesAssumption == Sizes \subseteq Nat /\ Granularities \subseteq Nat \ {0}
ASSUME MaxTensorsAssumption == MaxTensors \in Nat \ {0}

VARIABLES
    entries,  \* the ranges given out so far
    offset,   \* the end of the last one
    mapped    \* mapped_nbytes; 0 until the allocation exists

packingVars == <<entries, offset, mapped>>

\* _CUDA_VMM_TENSOR_ALIGNMENT
TensorAlignment == 256

\* n rounded up to a multiple of a.
RoundUp(n, a) == ((n + a - 1) \div a) * a

PackingInit ==
    /\ entries = <<>>
    /\ offset = 0
    /\ mapped = 0

\* Mutant: the alignment is rounded down.
PackTensorDown(n) ==
    /\ mapped = 0
    /\ Len(entries) < MaxTensors
    /\ LET start == (offset \div TensorAlignment) * TensorAlignment
       IN  /\ entries' = Append(entries, [start |-> start, end |-> start + n])
           /\ offset' = start + n
    /\ UNCHANGED mapped

PackTensor(n) ==
    /\ mapped = 0
    /\ Len(entries) < MaxTensors
    /\ LET start == RoundUp(offset, TensorAlignment)
       IN  /\ entries' = Append(entries, [start |-> start, end |-> start + n])
           /\ offset' = start + n
    /\ UNCHANGED mapped

\* create_allocation; a state dict without tensors is refused.
CreateAllocation(g) ==
    /\ mapped = 0
    /\ entries # <<>>
    /\ LET rounded == RoundUp(offset, g)
       IN  mapped' = IF rounded > g THEN rounded ELSE g
    /\ UNCHANGED <<entries, offset>>

PackingNext ==
    \/ \E n \in Sizes : PackTensor(n)
    \/ \E g \in Granularities : CreateAllocation(g)

PackingSpec == PackingInit /\ [][PackingNext]_packingVars

-----------------------------------------------------------------------------
\* No two tensors share a byte, each begins where every dtype may, and all lie
\* within what is mapped, so a copy neither damages another tensor nor leaves
\* the allocation, whatever sizes and granularity meet.
PackedApart ==
    /\ \A i, j \in DOMAIN entries : i < j => entries[i].end <= entries[j].start
    /\ \A i \in DOMAIN entries : entries[i].start % TensorAlignment = 0
    /\ mapped # 0 => \A i \in DOMAIN entries : entries[i].end <= mapped
===============================================================================
