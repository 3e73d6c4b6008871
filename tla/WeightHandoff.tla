----------------------------- MODULE WeightHandoff -----------------------------
(***************************************************************************)
(* What the weight synchronisation promises its users, without bridges,    *)
(* records, checksums or storage: a trainer publishes complete model       *)
(* versions in increasing order, and each rollout executor serves nothing  *)
(* or exactly one published version, switching in one step.                *)
(***************************************************************************)
EXTENDS Integers

CONSTANTS Executors, Versions, Contents, Nothing

VARIABLES
    catalog,  \* every version ever published, with its content
    served    \* executor -> the version it serves

Entry == [version : Versions, content : Contents]

Init ==
    /\ catalog = {}
    /\ served = [e \in Executors |-> Nothing]

Publish(entry) ==
    /\ \A m \in catalog : m.version < entry.version
    /\ catalog' = catalog \cup {entry}
    /\ UNCHANGED served

Switch(e, entry) ==
    /\ served' = [served EXCEPT ![e] = entry]
    /\ UNCHANGED catalog

Drop(e) ==
    /\ served' = [served EXCEPT ![e] = Nothing]
    /\ UNCHANGED catalog

Next ==
    \/ \E entry \in Entry : Publish(entry)
    \/ \E e \in Executors : Drop(e) \/ \E entry \in catalog : Switch(e, entry)

Spec == Init /\ [][Next]_<<catalog, served>>
=============================================================================
