------------------------- MODULE SharedMemoryTransport -------------------------
(***************************************************************************)
(* SharedMemoryTensorBridge (rl_engine/executors/bridge.py) below the      *)
(* level of WeightBridge: the POSIX shared-memory segments of one update,  *)
(* created, attached, closed and unlinked one tensor at a time by the      *)
(* publisher and by consumers in other processes.                          *)
(*                                                                         *)
(* A segment is a name (linked or not) and the mappings processes have of  *)
(* it; a mapping outlives the name.  Tensors without elements have no      *)
(* segment.  Before Python 3.13 (the Trackers) attaching registers the     *)
(* name with the consumer's resource tracker, which unlinks it when the    *)
(* consumer exits.                                                         *)
(*                                                                         *)
(* pubHeld and conHeld are the segments code still holds to close them.  A *)
(* close() that raises ends its loop: the segments not yet visited are     *)
(* dropped, and Python's finalizer unmaps them, but it unlinks no name.    *)
(***************************************************************************)
EXTENDS FiniteSets

CONSTANTS
    Tensors,       \* the tensors of the model's state_dict
    EmptyTensors,  \* those with storage_numel = 0
    Consumers,     \* processes that import the update
    Trackers       \* those whose Python has _SHARED_MEMORY_HAS_TRACK = False

ASSUME TensorsAssumption == EmptyTensors \subseteq Tensors /\ IsFiniteSet(Tensors)
ASSUME TrackersAssumption == Trackers \subseteq Consumers

VARIABLES
    pubState,  \* where the publisher's bridge is with the update
    pubTodo,   \* tensors its current loop has still to visit
    pubHeld,   \* segments of the running publish, or _shared_memory_segments
    linked,    \* tensors whose segment name exists
    abandoned, \* those the publisher gave up before unlinking them (history)
    corrupt,   \* tensors whose segment was written to after the snapshot
    conState,  \* consumer -> where its bridge is with the update
    conTodo,   \* consumer -> tensors its attach loop has still to visit
    conHeld,   \* consumer -> segments it has mapped
    tracked    \* consumer -> names its resource tracker will unlink

vars == <<pubState, pubTodo, pubHeld, linked, abandoned, corrupt, conState, conTodo,
          conHeld, tracked>>
pubVars == <<pubState, pubTodo, pubHeld, abandoned>>
conVars == <<conState, conTodo, conHeld, tracked>>

Segments == Tensors \ EmptyTensors

\* publish has returned, so the manifest can be in anyone's hands.
ManifestOut == pubState \in {"published", "releasing", "released"}

Init ==
    /\ pubState = "snapshotting"
    /\ pubTodo = Tensors
    /\ pubHeld = {}
    /\ linked = {}
    /\ abandoned = {}
    /\ corrupt = {}
    /\ conState = [c \in Consumers |-> "idle"]
    /\ conTodo = [c \in Consumers |-> {}]
    /\ conHeld = [c \in Consumers |-> {}]
    /\ tracked = [c \in Consumers |-> {}]

-----------------------------------------------------------------------------
(***************************************************************************)
(* The publisher.                                                          *)
(***************************************************************************)

\* _snapshot_to_shared_memory: one tensor copied into a new segment, or
\* recorded without one.
SnapshotTensor(t) ==
    /\ pubState = "snapshotting"
    /\ t \in pubTodo
    /\ pubTodo' = pubTodo \ {t}
    /\ pubHeld' = pubHeld \cup ({t} \cap Segments)
    /\ linked' = linked \cup ({t} \cap Segments)
    /\ UNCHANGED <<pubState, abandoned, corrupt, conVars>>

\* Creating or filling a segment raises; that segment cleans up after itself
\* and the handler then visits the ones made so far.
SnapshotRaises ==
    /\ pubState = "snapshotting"
    /\ pubTodo # {}
    /\ pubState' = "undoing"
    /\ pubTodo' = pubHeld
    /\ UNCHANGED <<pubHeld, linked, abandoned, corrupt, conVars>>

\* Filling a new segment raises and so does the close() that is to clean it up: its
\* name stays.
SnapshotCloseRaises(t) ==
    /\ pubState = "snapshotting"
    /\ t \in pubTodo \cap Segments
    /\ pubState' = "undoing"
    /\ pubTodo' = pubHeld
    /\ linked' = linked \cup {t}
    /\ abandoned' = abandoned \cup {t}
    /\ UNCHANGED <<pubHeld, corrupt, conVars>>

\* Once the snapshot is made, computing the descriptors raises, outside any handler:
\* publish raises and forgets the segments without unlinking them.
DescribeRaises ==
    /\ pubState = "snapshotting"
    /\ pubTodo = {}
    /\ Tensors # {}
    /\ pubState' = "failed"
    /\ pubHeld' = {}
    /\ abandoned' = abandoned \cup pubHeld
    /\ UNCHANGED <<pubTodo, linked, corrupt, conVars>>

\* publish returns the manifest; without a single tensor it raises instead.
FinishPublish ==
    /\ pubState = "snapshotting"
    /\ pubTodo = {}
    /\ pubState' = IF Tensors = {} THEN "failed" ELSE "published"
    /\ UNCHANGED <<pubTodo, pubHeld, linked, abandoned, corrupt, conVars>>

\* release: the record and the segments are popped, then closed and unlinked
\* one by one.
StartRelease ==
    /\ pubState = "published"
    /\ pubState' = "releasing"
    /\ pubTodo' = pubHeld
    /\ UNCHANGED <<pubHeld, linked, abandoned, corrupt, conVars>>

\* Mutant: segments are closed and never unlinked.
CloseOnly(t) ==
    /\ pubState \in {"undoing", "releasing"}
    /\ t \in pubTodo
    /\ pubTodo' = pubTodo \ {t}
    /\ pubHeld' = pubHeld \ {t}
    /\ UNCHANGED <<pubState, linked, abandoned, corrupt, conVars>>

\* close() and unlink() of one segment, in the release loop or the error
\* handler; a name that is already gone is not an error.
CloseAndUnlink(t) ==
    /\ pubState \in {"undoing", "releasing"}
    /\ t \in pubTodo
    /\ pubTodo' = pubTodo \ {t}
    /\ pubHeld' = pubHeld \ {t}
    /\ linked' = linked \ {t}
    /\ UNCHANGED <<pubState, abandoned, corrupt, conVars>>

\* A close() raises: its own name is still unlinked, and the loop ends there.
CloseRaises(t) ==
    /\ pubState \in {"undoing", "releasing"}
    /\ t \in pubTodo
    /\ pubState' = IF pubState = "undoing" THEN "failed" ELSE "released"
    /\ pubTodo' = {}
    /\ pubHeld' = {}
    /\ linked' = linked \ {t}
    /\ abandoned' = abandoned \cup (pubTodo \ {t})
    /\ UNCHANGED <<corrupt, conVars>>

LoopEnds ==
    /\ pubState \in {"undoing", "releasing"}
    /\ pubTodo = {}
    /\ pubState' = IF pubState = "undoing" THEN "failed" ELSE "released"
    /\ UNCHANGED <<pubTodo, pubHeld, linked, abandoned, corrupt, conVars>>

-----------------------------------------------------------------------------
(***************************************************************************)
(* The consumers.                                                          *)
(***************************************************************************)
\* import_update of a manifest the bridge has no record of.
StartAttach(c) ==
    /\ ManifestOut
    /\ conState[c] = "idle"
    /\ conState' = [conState EXCEPT ![c] = "attaching"]
    /\ conTodo' = [conTodo EXCEPT ![c] = Tensors]
    /\ UNCHANGED <<pubVars, linked, corrupt, conHeld, tracked>>

\* One round of _attach_shared_memory_manifest: open the segment by name and
\* compare the tensor with its descriptor.
AttachTensor(c, t) ==
    /\ conState[c] = "attaching"
    /\ t \in conTodo[c]
    /\ t \in EmptyTensors \/ t \in linked \ corrupt
    /\ conTodo' = [conTodo EXCEPT ![c] = @ \ {t}]
    /\ conHeld' = [conHeld EXCEPT ![c] = @ \cup ({t} \cap Segments)]
    /\ tracked' = [tracked EXCEPT ![c] = IF c \in Trackers THEN @ \cup ({t} \cap Segments) ELSE @]
    /\ UNCHANGED <<pubVars, linked, corrupt, conState>>

\* Mutant: segments opened before the failure stay mapped.
AttachRaisesLeaks(c, t) ==
    /\ conState[c] = "attaching"
    /\ t \in conTodo[c] \cap Segments
    /\ t \notin linked \/ t \in corrupt
    /\ conState' = [conState EXCEPT ![c] = "idle"]
    /\ conTodo' = [conTodo EXCEPT ![c] = {}]
    /\ tracked' = [tracked EXCEPT ![c] = IF c \in Trackers THEN @ \cup ({t} \cap linked) ELSE @]
    /\ UNCHANGED <<pubVars, linked, corrupt, conHeld>>

\* Mutant: a name that does not exist is waited for.
AttachWaits(c, t) ==
    /\ conState[c] = "attaching"
    /\ t \in conTodo[c] \cap corrupt
    /\ conState' = [conState EXCEPT ![c] = "idle"]
    /\ conTodo' = [conTodo EXCEPT ![c] = {}]
    /\ conHeld' = [conHeld EXCEPT ![c] = {}]
    /\ tracked' = [tracked EXCEPT ![c] = IF c \in Trackers THEN @ \cup ({t} \cap linked) ELSE @]
    /\ UNCHANGED <<pubVars, linked, corrupt>>

\* The name is gone or the checksum does not match: every segment opened so
\* far is closed and the import raises.  A segment that was opened to be
\* checked is in the tracker's books all the same.
AttachRaises(c, t) ==
    /\ conState[c] = "attaching"
    /\ t \in conTodo[c] \cap Segments
    /\ t \notin linked \/ t \in corrupt
    /\ conState' = [conState EXCEPT ![c] = "idle"]
    /\ conTodo' = [conTodo EXCEPT ![c] = {}]
    /\ conHeld' = [conHeld EXCEPT ![c] = {}]
    /\ tracked' = [tracked EXCEPT ![c] = IF c \in Trackers THEN @ \cup ({t} \cap linked) ELSE @]
    /\ UNCHANGED <<pubVars, linked, corrupt>>

\* The record is stored: from here on the update can be imported.
FinishAttach(c) ==
    /\ conState[c] = "attaching"
    /\ conTodo[c] = {}
    /\ conState' = [conState EXCEPT ![c] = "attached"]
    /\ UNCHANGED <<pubVars, linked, corrupt, conTodo, conHeld, tracked>>

\* Mutant: a consumer's release unlinks the segments too.
ReleaseConsumerUnlinks(c) ==
    /\ conState[c] = "attached"
    /\ conState' = [conState EXCEPT ![c] = "idle"]
    /\ conHeld' = [conHeld EXCEPT ![c] = {}]
    /\ linked' = linked \ conHeld[c]
    /\ UNCHANGED <<pubVars, corrupt, conTodo, tracked>>

\* release in a process that does not own the segments closes them only, or drops
\* those that come after a close() that raises.
ReleaseConsumer(c) ==
    /\ conState[c] = "attached"
    /\ conState' = [conState EXCEPT ![c] = "idle"]
    /\ conHeld' = [conHeld EXCEPT ![c] = {}]
    /\ UNCHANGED <<pubVars, linked, corrupt, conTodo, tracked>>

\* A holder of an alias writes into the tensor.
WriteTensor(c, t) ==
    /\ conState[c] = "attached"
    /\ t \in Segments
    /\ corrupt' = corrupt \cup {t}
    /\ UNCHANGED <<pubVars, linked, conVars>>

\* The consumer process ends, cleanly or not; its resource tracker, if it was
\* told of any names, unlinks them.
Exit(c) ==
    /\ conState[c] # "exited"
    /\ conState' = [conState EXCEPT ![c] = "exited"]
    /\ conTodo' = [conTodo EXCEPT ![c] = {}]
    /\ conHeld' = [conHeld EXCEPT ![c] = {}]
    /\ linked' = linked \ tracked[c]
    /\ tracked' = [tracked EXCEPT ![c] = {}]
    /\ UNCHANGED <<pubVars, corrupt>>

PublisherNext ==
    \/ \E t \in Tensors :
         SnapshotTensor(t) \/ SnapshotCloseRaises(t) \/ CloseAndUnlink(t) \/ CloseRaises(t)
    \/ SnapshotRaises \/ DescribeRaises \/ FinishPublish \/ StartRelease \/ LoopEnds

\* The steps of an attach loop that has begun.
AttachProgress(c) ==
    \/ \E t \in Tensors : AttachTensor(c, t) \/ AttachRaises(c, t)
    \/ FinishAttach(c)

ConsumerNext(c) ==
    \/ StartAttach(c) \/ AttachProgress(c) \/ ReleaseConsumer(c) \/ Exit(c)
    \/ \E t \in Tensors : WriteTensor(c, t)

Next == PublisherNext \/ \E c \in Consumers : ConsumerNext(c)

Spec == Init /\ [][Next]_vars

\* A loop that has begun goes on: nothing in it waits for another process.
FairSpec ==
    /\ Spec
    /\ WF_vars(LoopEnds \/ \E t \in Tensors : CloseAndUnlink(t))
    /\ \A c \in Consumers : WF_vars(AttachProgress(c))

-----------------------------------------------------------------------------
(***************************************************************************)
(* Properties.                                                             *)
(***************************************************************************)
TypeOK ==
    /\ pubState \in {"snapshotting", "undoing", "failed", "published", "releasing", "released"}
    /\ pubTodo \in SUBSET Tensors
    /\ pubHeld \in SUBSET Segments
    /\ linked \in SUBSET Segments
    /\ abandoned \in SUBSET Segments
    /\ corrupt \in SUBSET Segments
    /\ conState \in [Consumers -> {"idle", "attaching", "attached", "exited"}]
    /\ conTodo \in [Consumers -> SUBSET Tensors]
    /\ conHeld \in [Consumers -> SUBSET Segments]
    /\ tracked \in [Consumers -> SUBSET Segments]

\* An update a consumer has a record of is mapped whole, even when the
\* publisher unlinked its segments in the middle of the attach loop or after
\* it; a consumer whose attach failed holds no segment.
AttachedWhole ==
    \A c \in Consumers :
        /\ conState[c] = "attached" => conHeld[c] = Segments
        /\ conState[c] \in {"idle", "exited"} => conHeld[c] = {}

\* When publish has failed or release has ended, the publisher holds no segment and
\* no name is left in the system, whichever tensor's copy failed and whatever loops
\* were interrupted, except those given up when a close() raised or when the
\* descriptors could not be computed.
NoNamesLeft ==
    pubState \in {"failed", "released"} => linked \subseteq abandoned /\ pubHeld = {}

\* As long as the publisher has not released the update, every segment can be
\* opened: consumers that attach, fail, release or exit do not take it away
\* from the others, unless one whose resource tracker knows it has exited.
OpenWhilePublished ==
    pubState = "published" /\ (\A c \in Trackers : conState[c] # "exited") =>
        linked = Segments

\* Every attach ends with the update mapped or an error, and a release that has
\* begun ends.
LoopsEnd ==
    /\ \A c \in Consumers : conState[c] = "attaching" ~> conState[c] # "attaching"
    /\ pubState = "releasing" ~> pubState = "released"
=============================================================================
