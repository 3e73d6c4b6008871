---------------------- MODULE SharedMemoryTransportProofs ----------------------
(***************************************************************************)
(* Proofs about SharedMemoryTransport, for every set of tensors and of     *)
(* consumers, whichever of them run on a Python with resource trackers.    *)
(***************************************************************************)
EXTENDS SharedMemoryTransport, TLAPS

\* What the publisher's loops have done so far: what it holds is exactly what its
\* loop has or has not visited, and no name exists that it does not hold or has
\* given up, which it does only on the way to failing or when releasing.
PublisherInv ==
    /\ pubState = "snapshotting" => pubHeld = Segments \ pubTodo
    /\ pubState = "published" => pubHeld = Segments
    /\ pubState \in {"undoing", "releasing"} => pubHeld = pubTodo
    /\ pubState \in {"failed", "released"} => pubHeld = {}
    /\ linked \subseteq pubHeld \cup abandoned
    /\ pubState \in {"snapshotting", "published"} => abandoned = {}

\* Names only go missing under a published update at the exit of a tracker.
NamesInv ==
    pubState \in {"snapshotting", "published"} /\ (\A c \in Trackers : conState[c] # "exited") =>
        linked = pubHeld

\* A consumer's loop, and what its tracker may know.
ConsumerInv ==
    \A c \in Consumers :
        /\ conState[c] = "attaching" => conHeld[c] = Segments \ conTodo[c]
        /\ conState[c] = "attached" => conHeld[c] = Segments
        /\ conState[c] \in {"idle", "exited"} => conHeld[c] = {}
        /\ c \notin Trackers => tracked[c] = {}
        /\ ~ ManifestOut => conState[c] \in {"idle", "exited"} /\ tracked[c] = {}

TransportInv == TypeOK /\ PublisherInv /\ NamesInv /\ ConsumerInv

\* The process starts with nothing created and nothing attached.
LEMMA InitInv == Init => TransportInv
BY TrackersAssumption
DEF Init, TransportInv, TypeOK, PublisherInv, NamesInv, ConsumerInv, ManifestOut, Segments

\* The publisher's steps leave consumers alone, and the manifest, once it is out,
\* stays out.
LEMMA PublisherKeepsInv == TransportInv /\ PublisherNext => TransportInv'
<1> SUFFICES ASSUME TransportInv, PublisherNext PROVE TransportInv'
  OBVIOUS
<1> USE DEF TransportInv
<1>1. CASE \E t \in Tensors : SnapshotTensor(t)
  <2> PICK t \in Tensors : SnapshotTensor(t)
    BY <1>1
  <2>1. TypeOK'
    BY DEF SnapshotTensor, TypeOK, conVars
  <2>2. PublisherInv'
    BY DEF SnapshotTensor, TypeOK, PublisherInv, conVars, Segments
  <2>3. NamesInv' /\ ConsumerInv'
    BY DEF SnapshotTensor, NamesInv, ConsumerInv, conVars, ManifestOut
  <2> QED
    BY <2>1, <2>2, <2>3
<1>2. CASE \E t \in Tensors : CloseAndUnlink(t)
  <2> PICK t \in Tensors : CloseAndUnlink(t)
    BY <1>2
  <2>1. TypeOK'
    BY DEF CloseAndUnlink, TypeOK, conVars
  <2>2. PublisherInv'
    BY DEF CloseAndUnlink, TypeOK, PublisherInv, conVars
  <2>3. NamesInv' /\ ConsumerInv'
    BY DEF CloseAndUnlink, NamesInv, ConsumerInv, conVars, ManifestOut
  <2> QED
    BY <2>1, <2>2, <2>3
<1>3. CASE SnapshotRaises
  BY <1>3, TensorsAssumption
  DEF SnapshotRaises, TypeOK, PublisherInv, NamesInv, ConsumerInv, conVars, ManifestOut, Segments
<1>4. CASE FinishPublish
  BY <1>4
  DEF FinishPublish, TypeOK, PublisherInv, NamesInv, ConsumerInv, conVars, ManifestOut, Segments
<1>5. CASE StartRelease
  BY <1>5
  DEF StartRelease, TypeOK, PublisherInv, NamesInv, ConsumerInv, conVars, ManifestOut, Segments
<1>6. CASE LoopEnds
  BY <1>6
  DEF LoopEnds, TypeOK, PublisherInv, NamesInv, ConsumerInv, conVars, ManifestOut
<1>7. CASE \E t \in Tensors : SnapshotCloseRaises(t) \/ CloseRaises(t)
  <2> PICK t \in Tensors : SnapshotCloseRaises(t) \/ CloseRaises(t)
    BY <1>7
  <2>1. TypeOK'
    BY TensorsAssumption
    DEF SnapshotCloseRaises, CloseRaises, TypeOK, PublisherInv, conVars, Segments
  <2>2. PublisherInv'
    BY DEF SnapshotCloseRaises, CloseRaises, TypeOK, PublisherInv, conVars, Segments
  <2>3. NamesInv' /\ ConsumerInv'
    BY DEF SnapshotCloseRaises, CloseRaises, NamesInv, ConsumerInv, conVars, ManifestOut
  <2> QED
    BY <2>1, <2>2, <2>3
<1>8. CASE DescribeRaises
  BY <1>8
  DEF DescribeRaises, TypeOK, PublisherInv, NamesInv, ConsumerInv, conVars, ManifestOut, Segments
<1> QED
  BY <1>1, <1>2, <1>3, <1>4, <1>5, <1>6, <1>7, <1>8 DEF PublisherNext

\* A consumer's steps touch its own loop and tracker; only its exit takes names
\* away, and only those its tracker knows.
LEMMA ConsumerKeepsInv ==
    ASSUME TransportInv, NEW c \in Consumers, ConsumerNext(c)
    PROVE  TransportInv'
<1> USE DEF TransportInv
<1>1. CASE StartAttach(c)
  <2>1. TypeOK'
    BY <1>1 DEF StartAttach, TypeOK, pubVars
  <2>2. PublisherInv' /\ NamesInv'
    BY <1>1, TrackersAssumption DEF StartAttach, TypeOK, PublisherInv, NamesInv, pubVars
  <2>3. ConsumerInv'
    BY <1>1 DEF StartAttach, TypeOK, ConsumerInv, pubVars, ManifestOut, Segments
  <2> QED
    BY <2>1, <2>2, <2>3
<1>2. CASE \E t \in Tensors : AttachTensor(c, t)
  <2> PICK t \in Tensors : AttachTensor(c, t)
    BY <1>2
  <2>1. TypeOK'
    BY DEF AttachTensor, TypeOK, pubVars
  <2>2. PublisherInv' /\ NamesInv'
    BY DEF AttachTensor, PublisherInv, NamesInv, pubVars
  <2>3. conHeld'[c] = Segments \ conTodo'[c]
    BY DEF AttachTensor, TypeOK, ConsumerInv, Segments
  <2>4. ConsumerInv'
    BY <2>3 DEF AttachTensor, TypeOK, ConsumerInv, pubVars, ManifestOut
  <2> QED
    BY <2>1, <2>2, <2>4
<1>3. CASE \E t \in Tensors : AttachRaises(c, t)
  <2> PICK t \in Tensors : AttachRaises(c, t)
    BY <1>3
  <2>1. TypeOK'
    BY DEF AttachRaises, TypeOK, pubVars
  <2>2. PublisherInv' /\ NamesInv'
    BY TrackersAssumption DEF AttachRaises, TypeOK, PublisherInv, NamesInv, pubVars
  <2>3. ConsumerInv'
    BY DEF AttachRaises, TypeOK, ConsumerInv, pubVars, ManifestOut
  <2> QED
    BY <2>1, <2>2, <2>3
<1>4. CASE FinishAttach(c)
  <2>1. TypeOK' /\ PublisherInv'
    BY <1>4 DEF FinishAttach, TypeOK, PublisherInv, pubVars
  <2>2. NamesInv'
    BY <1>4, TrackersAssumption DEF FinishAttach, TypeOK, NamesInv, pubVars
  <2>3. ConsumerInv'
    BY <1>4 DEF FinishAttach, TypeOK, ConsumerInv, pubVars, ManifestOut
  <2> QED
    BY <2>1, <2>2, <2>3
<1>5. CASE ReleaseConsumer(c)
  <2>1. TypeOK' /\ PublisherInv'
    BY <1>5 DEF ReleaseConsumer, TypeOK, PublisherInv, pubVars
  <2>2. NamesInv'
    BY <1>5, TrackersAssumption DEF ReleaseConsumer, TypeOK, NamesInv, pubVars
  <2>3. ConsumerInv'
    BY <1>5 DEF ReleaseConsumer, TypeOK, ConsumerInv, pubVars, ManifestOut
  <2> QED
    BY <2>1, <2>2, <2>3
<1>6. CASE \E t \in Tensors : WriteTensor(c, t)
  BY <1>6
  DEF WriteTensor, TypeOK, PublisherInv, NamesInv, ConsumerInv, pubVars, conVars, ManifestOut
<1>7. CASE Exit(c)
  <2>1. TypeOK'
    BY <1>7 DEF Exit, TypeOK, pubVars
  <2>2. PublisherInv'
    BY <1>7 DEF Exit, PublisherInv, pubVars
  <2>3. NamesInv'
    <3> SUFFICES ASSUME pubState \in {"snapshotting", "published"},
                        \A d \in Trackers : conState'[d] # "exited"
                 PROVE  linked' = pubHeld
      BY <1>7 DEF Exit, NamesInv, pubVars
    <3>1. c \notin Trackers /\ \A d \in Trackers : conState[d] # "exited"
      BY <1>7, TrackersAssumption DEF Exit, TypeOK
    <3>2. tracked[c] = {}
      BY <3>1 DEF ConsumerInv
    <3> QED
      BY <1>7, <3>1, <3>2 DEF Exit, NamesInv
  <2>4. ConsumerInv'
    BY <1>7 DEF Exit, TypeOK, ConsumerInv, pubVars, ManifestOut
  <2> QED
    BY <2>1, <2>2, <2>3, <2>4
<1> QED
  BY <1>1, <1>2, <1>3, <1>4, <1>5, <1>6, <1>7 DEF ConsumerNext, AttachProgress

\* TransportInv is inductive.
THEOREM TransportInvariant == Spec => []TransportInv
<1>1. TransportInv /\ [Next]_vars => TransportInv'
  <2> SUFFICES ASSUME TransportInv, [Next]_vars PROVE TransportInv'
    OBVIOUS
  <2>1. CASE PublisherNext
    BY <2>1, PublisherKeepsInv
  <2>2. CASE \E c \in Consumers : ConsumerNext(c)
    BY <2>2, ConsumerKeepsInv
  <2>3. CASE UNCHANGED vars
    BY <2>3
    DEF TransportInv, TypeOK, PublisherInv, NamesInv, ConsumerInv, vars, ManifestOut
  <2> QED
    BY <2>1, <2>2, <2>3 DEF Next
<1> QED
  BY InitInv, <1>1, PTL DEF Spec

\* What a consumer has a record of is mapped whole, and a failed or ended attach
\* leaves nothing mapped.
THEOREM AlwaysAttachedWhole == Spec => []AttachedWhole
<1>1. TransportInv => AttachedWhole
  BY DEF TransportInv, ConsumerInv, AttachedWhole
<1> QED
  BY TransportInvariant, <1>1, PTL

\* A failed publish and an ended release leave no name behind but those given up when
\* a close() raised or the descriptors could not be computed, and hold no segment.
THEOREM NeverNamesLeft == Spec => []NoNamesLeft
<1>1. TransportInv => NoNamesLeft
  BY DEF TransportInv, PublisherInv, NoNamesLeft
<1> QED
  BY TransportInvariant, <1>1, PTL

\* While the update is published and no process with a resource tracker has exited,
\* every segment's name is linked, whatever consumers attach, fail or release.
THEOREM AlwaysOpenWhilePublished == Spec => []OpenWhilePublished
<1>1. TransportInv => OpenWhilePublished
  BY DEF TransportInv, PublisherInv, NamesInv, OpenWhilePublished
<1> QED
  BY TransportInvariant, <1>1, PTL
===============================================================================
