--------------------------- MODULE VmmTransportProofs ---------------------------
(***************************************************************************)
(* Proofs about the CUDA VMM transport: VmmPacking, for tensors of any     *)
(* sizes, any number of them and any granularity; VmmFdBroker, for any     *)
(* number of consumers; and that VmmTransport puts one before the other    *)
(* without changing either.                                                *)
(***************************************************************************)
EXTENDS VmmTransport, TLAPS

Range == [start : Nat, end : Nat]

\* The next offset is behind every range given out, so that the next range is
\* behind all of them; this is what PackedApart lacks to be inductive.
PackingInv ==
    /\ entries \in Seq(Range)
    /\ offset \in Nat
    /\ mapped \in Nat
    /\ \A i \in DOMAIN entries : entries[i].end <= offset
    /\ mapped # 0 => offset <= mapped
    /\ PackedApart

\* Rounding up to the alignment gives an aligned offset that is no smaller.
LEMMA RoundUpAligns ==
    ASSUME NEW n \in Nat
    PROVE  /\ RoundUp(n, TensorAlignment) \in Nat
           /\ n <= RoundUp(n, TensorAlignment)
           /\ RoundUp(n, TensorAlignment) % TensorAlignment = 0
BY DEF RoundUp, TensorAlignment

\* Rounding up to any positive number is no smaller either.
LEMMA RoundUpCovers ==
    ASSUME NEW n \in Nat, NEW a \in Nat \ {0}
    PROVE  /\ RoundUp(n, a) \in Nat
           /\ n <= RoundUp(n, a)
<1> DEFINE q == (n + a - 1) \div a
<1>1. q \in Nat /\ n + a - 1 < (q + 1) * a
  OBVIOUS
<1>2. (q + 1) * a = q * a + a
  BY <1>1
<1>3. q * a \in Nat
  BY <1>1
<1> QED
  BY <1>1, <1>2, <1>3 DEF RoundUp

\* A new range begins aligned and behind all others.
LEMMA PackTensorKeepsInv ==
    ASSUME PackingInv, NEW n \in Sizes, PackTensor(n)
    PROVE  PackingInv'
<1> DEFINE start == RoundUp(offset, TensorAlignment)
           new == [start |-> start, end |-> start + n]
<1>1. /\ n \in Nat /\ start \in Nat
      /\ offset <= start /\ start % TensorAlignment = 0
  BY SizesAssumption, RoundUpAligns DEF PackingInv
<1>2. new \in Range /\ new.start = start /\ new.end = start + n
  BY <1>1 DEF Range
<1>3. /\ entries' = Append(entries, new)
      /\ offset' = start + n
      /\ mapped' = 0
  BY DEF PackTensor, PackingInv
<1> HIDE DEF start, new
<1>4. /\ entries' \in Seq(Range)
      /\ DOMAIN entries' = 1 .. (Len(entries) + 1)
      /\ Len(entries) \in Nat
      /\ DOMAIN entries = 1 .. Len(entries)
      /\ \A i \in DOMAIN entries : entries'[i] = entries[i]
      /\ entries'[Len(entries) + 1] = new
  BY <1>2, <1>3 DEF PackingInv
<1>5. \A i \in DOMAIN entries : entries[i] \in Range /\ entries[i].end <= offset
  BY DEF PackingInv
<1>6. \A i \in DOMAIN entries' : entries'[i].end <= offset'
  BY <1>1, <1>2, <1>3, <1>4, <1>5 DEF Range, PackingInv
<1>7. \A i, j \in DOMAIN entries' : i < j => entries'[i].end <= entries'[j].start
  <2> SUFFICES ASSUME NEW i \in DOMAIN entries', NEW j \in DOMAIN entries', i < j
               PROVE  entries'[i].end <= entries'[j].start
    OBVIOUS
  <2>1. CASE j \in DOMAIN entries
    BY <1>4, <2>1 DEF PackingInv, PackedApart
  <2>2. CASE j = Len(entries) + 1
    <3>1. i \in DOMAIN entries /\ entries'[i] = entries[i]
      BY <1>4, <2>2
    <3>2. entries[i].end \in Nat /\ entries[i].end <= offset
      BY <1>5, <3>1 DEF Range
    <3>3. entries'[j].start = start
      BY <1>2, <1>4, <2>2
    <3>4. offset \in Nat
      BY DEF PackingInv
    <3> QED
      BY <1>1, <3>1, <3>2, <3>3, <3>4
  <2> QED
    BY <1>4, <2>1, <2>2
<1>8. \A i \in DOMAIN entries' : entries'[i].start % TensorAlignment = 0
  BY <1>1, <1>2, <1>4 DEF PackingInv, PackedApart
<1> QED
  BY <1>1, <1>3, <1>4, <1>6, <1>7, <1>8 DEF PackingInv, PackedApart

\* The mapping reaches at least to the last offset.
LEMMA CreateAllocationKeepsInv ==
    ASSUME PackingInv, NEW g \in Granularities, CreateAllocation(g)
    PROVE  PackingInv'
<1> DEFINE rounded == RoundUp(offset, g)
<1>1. g \in Nat \ {0} /\ rounded \in Nat /\ offset <= rounded
  BY SizesAssumption, RoundUpCovers DEF PackingInv
<1>2. /\ entries' = entries /\ offset' = offset
      /\ mapped' = IF rounded > g THEN rounded ELSE g
  BY DEF CreateAllocation
<1> HIDE DEF rounded
<1>3. mapped' \in Nat /\ offset' <= mapped'
  BY <1>1, <1>2 DEF PackingInv
<1>4. \A i \in DOMAIN entries : entries[i] \in Range /\ entries[i].end <= offset
  BY DEF PackingInv
<1>5. \A i \in DOMAIN entries' : entries'[i].end <= mapped'
  BY <1>2, <1>3, <1>4 DEF PackingInv, Range
<1> QED
  BY <1>2, <1>3, <1>5 DEF PackingInv, PackedApart

\* Tensors of any sizes lie apart, aligned and inside the mapping.
THEOREM AlwaysPackedApart == PackingSpec => []PackedApart
<1>1. PackingInit => PackingInv
  BY DEF PackingInit, PackingInv, PackedApart
<1>2. PackingInv /\ [PackingNext]_packingVars => PackingInv'
  <2> SUFFICES ASSUME PackingInv, [PackingNext]_packingVars PROVE PackingInv'
    OBVIOUS
  <2>1. CASE UNCHANGED packingVars
    BY <2>1 DEF PackingInv, PackedApart, packingVars
  <2> QED
    BY <2>1, PackTensorKeepsInv, CreateAllocationKeepsInv DEF PackingNext
<1>3. PackingInv => PackedApart
  BY DEF PackingInv
<1> QED
  BY <1>1, <1>2, <1>3, PTL DEF PackingSpec

-----------------------------------------------------------------------------
\* release has returned from join, or given up on it.
Joined == release \in {"unlink", "close", "done"}

\* Unless join timed out the thread has ended, and with it the socket; the
\* descriptor's number changes its meaning at the very end.
BrokerInv ==
    /\ TypeOK
    /\ Joined /\ ~ timedOut => broker = "ended"
    /\ timedOut => Joined
    /\ broker = "ended" => ~ listening
    /\ release \in {"close", "done"} /\ ~ timedOut => ~ pathThere
    /\ fd # "published" => release = "done"
    /\ WrongFdNeedsTimeout

LEMMA EmptyBacklog == <<>> \in Seq(Consumers \cup {Poke})
OBVIOUS

\* Before anything has run.
LEMMA InitBrokerInv == Init => BrokerInv
<1> SUFFICES ASSUME Init PROVE BrokerInv
  OBVIOUS
<1>1. TypeOK
  BY ConnectionsAssumption, EmptyBacklog DEF Init, TypeOK
<1> QED
  BY <1>1 DEF Init, BrokerInv, Joined, WrongFdNeedsTimeout

\* The thread: what it sends is another allocation only when release is done, and
\* then it can only be alive because join timed out.
LEMMA BrokerKeepsInv == BrokerInv /\ BrokerNext => BrokerInv'
<1> SUFFICES ASSUME BrokerInv, BrokerNext PROVE BrokerInv'
  OBVIOUS
<1> USE DEF BrokerInv, Joined
<1>1. CASE Bind
  BY <1>1 DEF Bind, TypeOK, WrongFdNeedsTimeout, pubVars
<1>2. CASE CheckStop
  BY <1>2 DEF CheckStop, TypeOK, WrongFdNeedsTimeout, pubVars
<1>3. CASE Accept
  <2>1. Head(backlog) \in Consumers \cup {Poke} /\ Tail(backlog) \in Seq(Consumers \cup {Poke})
    BY <1>3 DEF Accept, TypeOK
  <2> QED
    BY <1>3, <2>1 DEF Accept, TypeOK, WrongFdNeedsTimeout, pubVars
<1>4. CASE AcceptTimesOut
  BY <1>4 DEF AcceptTimesOut, TypeOK, WrongFdNeedsTimeout, pubVars
<1>5. CASE Send
  <2>1. TypeOK'
    BY <1>5 DEF Send, TypeOK, pubVars
  <2>2. fd = "another" => timedOut
    BY <1>5 DEF Send
  <2>3. WrongFdNeedsTimeout'
    BY <1>5, <2>2 DEF Send, TypeOK, WrongFdNeedsTimeout, pubVars
  <2> QED
    BY <1>5, <2>1, <2>3 DEF Send, pubVars
<1>6. CASE CloseServer
  <2>1. con' \in [Consumers -> {"idle", "connected", "received", "attached", "failed"}]
    BY <1>6 DEF CloseServer, TypeOK
  <2>2. backlog' \in Seq(Consumers \cup {Poke})
    BY <1>6, EmptyBacklog DEF CloseServer
  <2>3. TypeOK'
    BY <1>6, <2>1, <2>2 DEF CloseServer, TypeOK, pubVars
  <2> QED
    BY <1>6, <2>3 DEF CloseServer, WrongFdNeedsTimeout, pubVars
<1> QED
  BY <1>1, <1>2, <1>3, <1>4, <1>5, <1>6 DEF BrokerNext

\* The publisher's release, and the reuse of the descriptor's number after it.
LEMMA ReleaseKeepsInv == BrokerInv /\ (SetStop \/ ReleaseNext \/ ReuseNumber) => BrokerInv'
<1> SUFFICES ASSUME BrokerInv, SetStop \/ ReleaseNext \/ ReuseNumber PROVE BrokerInv'
  OBVIOUS
<1> USE DEF BrokerInv, Joined
<1>1. CASE SetStop
  BY <1>1 DEF SetStop, TypeOK, WrongFdNeedsTimeout, brokerVars
<1>2. CASE PokeBroker
  <2>1. backlog' \in Seq(Consumers \cup {Poke})
    BY <1>2 DEF PokeBroker, TypeOK
  <2> QED
    BY <1>2, <2>1 DEF PokeBroker, TypeOK, WrongFdNeedsTimeout, brokerVars
<1>3. CASE Join
  BY <1>3 DEF Join, TypeOK, WrongFdNeedsTimeout, brokerVars
<1>4. CASE UnlinkPath
  BY <1>4 DEF UnlinkPath, TypeOK, WrongFdNeedsTimeout, brokerVars
<1>5. CASE CloseFd
  BY <1>5 DEF CloseFd, TypeOK, WrongFdNeedsTimeout, brokerVars
<1>6. CASE ReuseNumber
  BY <1>6 DEF ReuseNumber, TypeOK, WrongFdNeedsTimeout, brokerVars, pubVars
<1> QED
  BY <1>1, <1>2, <1>3, <1>4, <1>5, <1>6 DEF ReleaseNext

\* Consumers only ever drop what they received.
LEMMA ConsumerKeepsInv ==
    ASSUME BrokerInv, NEW c \in Consumers,
           Connect(c) \/ MapAndCheck(c) \/ Leave(c) \/ Retry(c)
    PROVE  BrokerInv'
<1> USE DEF BrokerInv, Joined
<1>1. CASE Connect(c)
  <2>1. backlog' \in Seq(Consumers \cup {Poke})
    BY <1>1 DEF Connect, TypeOK
  <2> QED
    BY <1>1, <2>1 DEF Connect, TypeOK, WrongFdNeedsTimeout, brokerVars, pubVars
<1>2. CASE MapAndCheck(c)
  BY <1>2 DEF MapAndCheck, TypeOK, WrongFdNeedsTimeout, brokerVars, pubVars
<1>3. CASE Leave(c)
  BY <1>3 DEF Leave, TypeOK, WrongFdNeedsTimeout, brokerVars, pubVars
<1>4. CASE Retry(c)
  BY <1>4 DEF Retry, TypeOK, WrongFdNeedsTimeout, brokerVars, pubVars
<1> QED
  BY <1>1, <1>2, <1>3, <1>4

\* BrokerInv is inductive.
THEOREM BrokerInvariant == Spec => []BrokerInv
<1>1. BrokerInv /\ [Next]_vars => BrokerInv'
  <2> SUFFICES ASSUME BrokerInv, [Next]_vars PROVE BrokerInv'
    OBVIOUS
  <2>1. CASE UNCHANGED vars
    BY <2>1 DEF BrokerInv, Joined, TypeOK, WrongFdNeedsTimeout, vars
  <2> QED
    BY <2>1, BrokerKeepsInv, ReleaseKeepsInv, ConsumerKeepsInv DEF Next
<1> QED
  BY InitBrokerInv, <1>1, PTL DEF Spec

\* A descriptor of another allocation is sent only after release gave up on the
\* thread.
THEOREM WrongFdAlwaysNeedsTimeout == Spec => []WrongFdNeedsTimeout
<1>1. BrokerInv => WrongFdNeedsTimeout
  BY DEF BrokerInv
<1> QED
  BY BrokerInvariant, <1>1, PTL

\* A release that did not give up leaves no file, thread or socket.
THEOREM AlwaysReleasedClean == Spec => []ReleasedClean
<1>1. BrokerInv => ReleasedClean
  BY DEF BrokerInv, Joined, ReleasedClean
<1> QED
  BY BrokerInvariant, <1>1, PTL

\* Packing first and handing over then is a behaviour of both modules, so what is
\* proved about either holds for an update from packing to release.
THEOREM TransportImplementsBoth == TransportSpec => Spec /\ PackingSpec
<1>1. TransportInit => Init /\ PackingInit
  BY DEF TransportInit
<1>2. [TransportNext]_transportVars => [Next]_vars /\ [PackingNext]_packingVars
  BY DEF TransportNext, Publishing, HandingOver, transportVars
<1> QED
  BY <1>1, <1>2, PTL DEF TransportSpec, Spec, PackingSpec
=============================================================================
