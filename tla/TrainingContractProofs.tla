------------------------ MODULE TrainingContractProofs -------------------------
(***************************************************************************)
(* Proofs about TrainingContract, for payloads of any size: the separate   *)
(* walks over the groups meet the same candidates in the same order.       *)
(***************************************************************************)
EXTENDS TrainingContract, FiniteSetTheorems, TLAPS

-----------------------------------------------------------------------------
(***************************************************************************)
(* Orders.                                                                 *)
(***************************************************************************)
\* A set of numbers has a least one.
LEMMA LeastOf ==
    ASSUME NEW S \in SUBSET Nat, S # {} PROVE \E i \in S : \A j \in S : i <= j
<1>1. \E i \in S : \A j \in S : ~ (<<j, i>> \in OpToRel(<, Nat))
  BY NatLessThanWellFounded, WFMin
<1>2. ASSUME NEW i \in Nat, NEW j \in Nat, j < i PROVE <<j, i>> \in OpToRel(<, Nat)
  BY <1>2, Zenon DEF OpToRel
<1>3. PICK i \in S : \A j \in S : ~ (<<j, i>> \in OpToRel(<, Nat))
  BY <1>1
<1>4. \A j \in S : ~ (j < i)
  BY <1>2, <1>3, Zenon
<1> QED
  BY <1>4

\* f lists the members of P in ascending order.
Lists(f, P) ==
    /\ f \in [1 .. Cardinality(P) -> P]
    /\ \A i, j \in 1 .. Cardinality(P) : i < j => f[i] < f[j]

\* The greatest member of a set comes last.
LEMMA ListOneMore ==
    ASSUME NEW m \in Nat, NEW Q \in SUBSET (1 .. m), NEW f, Lists(f, Q)
    PROVE  \E h : Lists(h, Q \cup {m + 1})
<1> DEFINE P == Q \cup {m + 1}
           k == Cardinality(Q)
           h == [i \in 1 .. k + 1 |-> IF i = k + 1 THEN m + 1 ELSE f[i]]
<1>1. IsFiniteSet(Q) /\ k \in Nat
  <2>1. IsFiniteSet(1 .. m)
    BY FS_Interval
  <2> QED
    BY <2>1, FS_Subset, FS_CardinalityType
<1>2. Cardinality(P) = k + 1
  <2>1. m + 1 \notin Q
    OBVIOUS
  <2> QED
    BY <1>1, <2>1, FS_AddElement
<1> HIDE DEF k
<1>3. f \in [1 .. k -> Q] /\ \A i, j \in 1 .. k : i < j => f[i] < f[j]
  BY DEF Lists, k
<1>4. h \in [1 .. k + 1 -> P]
  BY <1>1, <1>3
<1>5. ASSUME NEW i \in 1 .. k + 1, NEW j \in 1 .. k + 1, i < j PROVE h[i] < h[j]
  <2>1. i \in 1 .. k /\ i # k + 1
    BY <1>1, <1>5
  <2>2. h[i] = f[i] /\ f[i] \in 1 .. m
    BY <1>3, <2>1
  <2>3. CASE j = k + 1
    BY <2>2, <2>3
  <2>4. CASE j # k + 1
    BY <1>1, <1>3, <1>5, <2>1, <2>2, <2>4
  <2> QED
    BY <2>3, <2>4
<1>6. Lists(h, P)
  BY <1>2, <1>4, <1>5 DEF Lists
<1> QED
  BY <1>6

\* Every set of numbers up to a bound can be listed.
LEMMA ListExists ==
    ASSUME NEW n \in Nat, NEW P \in SUBSET (1 .. n)
    PROVE  \E f : Lists(f, P)
<1> DEFINE Listed(m) == \A Q \in SUBSET (1 .. m) : \E f : Lists(f, Q)
           unlisted == {m \in 0 .. n : ~ Listed(m)}
<1>1. unlisted = {}
  <2> SUFFICES ASSUME unlisted # {} PROVE FALSE
    OBVIOUS
  <2>1. PICK m \in unlisted : \A k \in unlisted : m <= k
    <3>1. unlisted \in SUBSET Nat
      OBVIOUS
    <3> HIDE DEF unlisted
    <3> QED
      BY <3>1, LeastOf
  <2>2. m # 0
    <3>1. Lists([i \in 1 .. 0 |-> 0], {})
      BY FS_EmptySet DEF Lists
    <3>2. \A Q \in SUBSET (1 .. 0) : Q = {}
      OBVIOUS
    <3>3. Listed(0)
      BY <3>1, <3>2
    <3> QED
      BY <2>1, <3>3
  <2>3. m - 1 \in 0 .. n /\ m \in Nat /\ m \in 1 .. n
    BY <2>1, <2>2
  <2>4. Listed(m - 1)
    <3> HIDE DEF Listed
    <3>1. m - 1 \notin unlisted
      BY <2>1, <2>3
    <3> QED
      BY <2>3, <3>1
  <2>5. Listed(m)
    <3> SUFFICES ASSUME NEW Q \in SUBSET (1 .. m) PROVE \E f : Lists(f, Q)
      OBVIOUS
    <3> HIDE DEF unlisted
    <3>1. CASE m \notin Q
      <4>1. Q \in SUBSET (1 .. m - 1)
        BY <2>3, <3>1
      <4> QED
        BY <2>4, <4>1
    <3>2. CASE m \in Q
      <4> DEFINE R == Q \ {m}
      <4>1. R \in SUBSET (1 .. m - 1) /\ m - 1 \in Nat /\ (m - 1) + 1 = m
        BY <2>3
      <4>2. Q = R \cup {(m - 1) + 1}
        BY <3>2, <4>1
      <4>3. PICK f : Lists(f, R)
        BY <2>4, <4>1
      <4> HIDE DEF R
      <4> QED
        BY <4>1, <4>2, <4>3, ListOneMore
    <3> QED
      BY <3>1, <3>2
  <2> QED
    BY <2>1, <2>5
<1>2. Listed(n)
  BY <1>1
<1> QED
  BY <1>2

\* Ascending lists its set, each member once.
LEMMA AscendingLists ==
    ASSUME NEW n \in Nat, NEW P \in SUBSET (1 .. n)
    PROVE  /\ IsFiniteSet(P) /\ Cardinality(P) \in Nat
           /\ Ascending(P) \in [1 .. Cardinality(P) -> P]
           /\ \A i, j \in 1 .. Cardinality(P) : i < j <=> Ascending(P)[i] < Ascending(P)[j]
           /\ \A i, j \in 1 .. Cardinality(P) : Ascending(P)[i] = Ascending(P)[j] => i = j
           /\ \A x \in P : \E i \in 1 .. Cardinality(P) : Ascending(P)[i] = x
<1> DEFINE k == Cardinality(P)
           a == Ascending(P)
<1>1. IsFiniteSet(P) /\ k \in Nat
  <2>1. IsFiniteSet(1 .. n)
    BY FS_Interval
  <2> QED
    BY <2>1, FS_Subset, FS_CardinalityType
<1>2. a \in [1 .. k -> P] /\ \A i, j \in 1 .. k : i < j => a[i] < a[j]
  <2>1. PICK list : Lists(list, P)
    BY ListExists
  <2>2. \E f \in [1 .. k -> P] : \A i, j \in 1 .. k : i < j => f[i] < f[j]
    BY <2>1 DEF Lists
  <2> QED
    BY <2>2, Zenon DEF Ascending
<1> HIDE DEF a, k
<1>3. \A i, j \in 1 .. k : i < j <=> a[i] < a[j]
  <2> SUFFICES ASSUME NEW i \in 1 .. k, NEW j \in 1 .. k PROVE i < j <=> a[i] < a[j]
    OBVIOUS
  <2>1. a[i] \in 1 .. n /\ a[j] \in 1 .. n
    BY <1>2
  <2>2. i < j \/ i = j \/ j < i
    BY <1>1
  <2> QED
    BY <1>2, <2>1, <2>2
<1>4. \A i, j \in 1 .. k : a[i] = a[j] => i = j
  <2> SUFFICES ASSUME NEW i \in 1 .. k, NEW j \in 1 .. k, a[i] = a[j] PROVE i = j
    OBVIOUS
  <2>1. a[i] \in 1 .. n /\ a[j] \in 1 .. n
    BY <1>2
  <2>2. i < j \/ i = j \/ j < i
    BY <1>1
  <2> QED
    BY <1>2, <2>1, <2>2
<1>5. \A x \in P : \E i \in 1 .. k : a[i] = x
  <2>1. a \in Injection(1 .. k, P)
    BY <1>2, <1>4, Zenon DEF Injection, IsInjective
  <2>2. Cardinality(1 .. k) = k
    BY <1>1, FS_Interval
  <2>3. a \in Surjection(1 .. k, P)
    BY <1>1, <2>1, <2>2, FS_Injection DEF k
  <2> QED
    BY <2>3, Zenon DEF Surjection
<1> QED
  BY <1>1, <1>2, <1>3, <1>4, <1>5 DEF a, k

\* The place a comes before the place b when groups are walked over in order.
Before(a, b) == a[1] < b[1] \/ (a[1] = b[1] /\ a[2] < b[2])

-----------------------------------------------------------------------------
(***************************************************************************)
(* What is kept of a grouping.                                             *)
(***************************************************************************)
\* A place is a group and an index in it.
LEMMA PlaceParts ==
    ASSUME NEW S, NEW groups \in Seq(Seq(S))
    PROVE  /\ \A q \in Places(groups) :
                /\ q[1] \in DOMAIN groups /\ q[2] \in DOMAIN groups[q[1]]
                /\ q = <<q[1], q[2]>>
           /\ \A g \in DOMAIN groups : \A i \in DOMAIN groups[g] : <<g, i>> \in Places(groups)
<1> DEFINE sizes == [g \in DOMAIN groups |-> Len(groups[g])]
<1>1. \A g \in DOMAIN groups : groups[g] \in Seq(S) /\ DOMAIN groups[g] = 1 .. sizes[g]
  OBVIOUS
<1>2. Places(groups) = UNION {{g} \X (1 .. sizes[g]) : g \in DOMAIN groups}
  BY DEF Places, Positions
<1> HIDE DEF sizes
<1>3. ASSUME NEW q \in Places(groups)
      PROVE  q[1] \in DOMAIN groups /\ q[2] \in DOMAIN groups[q[1]] /\ q = <<q[1], q[2]>>
  <2>1. PICK g \in DOMAIN groups : q \in {g} \X (1 .. sizes[g])
    BY <1>2
  <2>2. q[1] = g /\ q[2] \in 1 .. sizes[g] /\ q = <<q[1], q[2]>>
    BY <2>1
  <2> QED
    BY <1>1, <2>2
<1>4. ASSUME NEW g \in DOMAIN groups, NEW i \in DOMAIN groups[g]
      PROVE  <<g, i>> \in Places(groups)
  <2>1. <<g, i>> \in {g} \X (1 .. sizes[g])
    BY <1>1
  <2> QED
    BY <1>2, <2>1
<1> QED
  BY <1>3, <1>4

\* Kept takes what it keeps from the indices it is given, in order.
LEMMA KeptItems ==
    ASSUME NEW S, NEW s \in Seq(S), NEW P \in SUBSET (DOMAIN s)
    PROVE  /\ Kept(s, P) \in Seq(S)
           /\ Len(Kept(s, P)) = Cardinality(P) /\ Cardinality(P) \in Nat
           /\ DOMAIN Kept(s, P) = 1 .. Cardinality(P)
           /\ \A i \in 1 .. Cardinality(P) :
                Ascending(P)[i] \in P /\ Kept(s, P)[i] = s[Ascending(P)[i]]
<1>1. Len(s) \in Nat /\ P \in SUBSET (1 .. Len(s))
  OBVIOUS
<1>2. Cardinality(P) \in Nat /\ Ascending(P) \in [1 .. Cardinality(P) -> P]
  BY <1>1, AscendingLists
<1>3. \A i \in 1 .. Cardinality(P) : s[Ascending(P)[i]] \in S
  BY <1>1, <1>2
<1> QED
  BY <1>2, <1>3 DEF Kept

\* The groups of which something is kept.
GroupsWith(groups, part) == {g \in DOMAIN groups : KeptIn(groups[g], part) # {}}

\* Where in the grouping the kept candidate at q was.
Origin(groups, part, q) ==
    <<Ascending(GroupsWith(groups, part))[q[1]],
      Ascending(KeptIn(groups[Ascending(GroupsWith(groups, part))[q[1]]], part))[q[2]]>>

\* The groups and the indices in them that KeepGroups takes.
LEMMA KeepGroupsItems ==
    ASSUME NEW S, NEW groups \in Seq(Seq(S)), NEW part
    PROVE  LET K == KeepGroups(groups, part)
               W == GroupsWith(groups, part)
           IN  /\ W \in SUBSET (DOMAIN groups) /\ W \in SUBSET (1 .. Len(groups))
               /\ \A g \in DOMAIN groups :
                    KeptIn(groups[g], part) \in SUBSET (1 .. Len(groups[g]))
               /\ K \in Seq(Seq(S))
               /\ Len(K) = Cardinality(W) /\ Cardinality(W) \in Nat /\ DOMAIN K = 1 .. Cardinality(W)
               /\ \A g \in DOMAIN K :
                    LET h == Ascending(W)[g]
                        P == KeptIn(groups[h], part)
                    IN  /\ h \in W /\ Len(groups[h]) \in Nat
                        /\ K[g] = Kept(groups[h], P)
                        /\ Len(K[g]) = Cardinality(P)
                        /\ DOMAIN K[g] = 1 .. Cardinality(P)
                        /\ \A i \in DOMAIN K[g] :
                             Ascending(P)[i] \in P /\ K[g][i] = groups[h][Ascending(P)[i]]
<1> DEFINE K == KeepGroups(groups, part)
           W == GroupsWith(groups, part)
           F == [g \in DOMAIN groups |-> Kept(groups[g], KeptIn(groups[g], part))]
<1>1. \A g \in DOMAIN groups : groups[g] \in Seq(S) /\ Len(groups[g]) \in Nat
  OBVIOUS
<1>2. \A g \in DOMAIN groups : KeptIn(groups[g], part) \in SUBSET (DOMAIN groups[g])
  BY DEF KeptIn
<1>3. \A g \in DOMAIN groups : Kept(groups[g], KeptIn(groups[g], part)) \in Seq(S)
  BY <1>1, <1>2, KeptItems
<1>4. F \in Seq(Seq(S)) /\ DOMAIN F = DOMAIN groups
  <2>1. DOMAIN groups = 1 .. Len(groups) /\ Len(groups) \in Nat
    OBVIOUS
  <2>2. F \in [1 .. Len(groups) -> Seq(S)]
    BY <1>3, <2>1
  <2> QED
    BY <2>1, <2>2
<1>5. W \in SUBSET (DOMAIN groups) /\ K = Kept(F, W)
  BY DEF GroupsWith, KeepGroups
<1>6. W \in SUBSET (1 .. Len(groups))
  BY <1>5
<1>7. \A g \in DOMAIN groups : KeptIn(groups[g], part) \in SUBSET (1 .. Len(groups[g]))
  BY <1>1, <1>2
<1> HIDE DEF K, W, F
<1>8. /\ K \in Seq(Seq(S))
      /\ Len(K) = Cardinality(W) /\ Cardinality(W) \in Nat
      /\ DOMAIN K = 1 .. Cardinality(W)
      /\ \A g \in 1 .. Cardinality(W) : Ascending(W)[g] \in W /\ K[g] = F[Ascending(W)[g]]
  <2>1. W \in SUBSET (DOMAIN F)
    BY <1>4, <1>5
  <2> QED
    BY <1>4, <1>5, <2>1, KeptItems
<1>9. ASSUME NEW g \in DOMAIN K
      PROVE  LET h == Ascending(W)[g]
                 P == KeptIn(groups[h], part)
             IN  /\ h \in W /\ Len(groups[h]) \in Nat
                 /\ K[g] = Kept(groups[h], P)
                 /\ Len(K[g]) = Cardinality(P)
                 /\ DOMAIN K[g] = 1 .. Cardinality(P)
                 /\ \A i \in DOMAIN K[g] :
                      Ascending(P)[i] \in P /\ K[g][i] = groups[h][Ascending(P)[i]]
  <2> DEFINE h == Ascending(W)[g]
             P == KeptIn(groups[h], part)
  <2>1. h \in W /\ h \in DOMAIN groups /\ K[g] = F[h]
    BY <1>5, <1>8
  <2>2. K[g] = Kept(groups[h], P)
    BY <2>1 DEF F
  <2>3. groups[h] \in Seq(S) /\ P \in SUBSET (DOMAIN groups[h]) /\ Len(groups[h]) \in Nat
    BY <1>1, <1>2, <2>1
  <2> HIDE DEF h, P
  <2>4. /\ Len(K[g]) = Cardinality(P)
        /\ DOMAIN K[g] = 1 .. Cardinality(P)
        /\ \A i \in DOMAIN K[g] :
             Ascending(P)[i] \in P /\ K[g][i] = groups[h][Ascending(P)[i]]
    BY <2>2, <2>3, KeptItems
  <2> QED
    BY <2>1, <2>2, <2>3, <2>4 DEF h, P
<1> QED
  BY <1>5, <1>6, <1>7, <1>8, <1>9 DEF K, W

\* What is carried, by group and index.
LEMMA CarryingParts ==
    ASSUME NEW S, NEW groups \in Seq(Seq(S)), NEW part
    PROVE  \A g, i : <<g, i>> \in Carrying(groups, part)
                       <=> g \in GroupsWith(groups, part) /\ i \in KeptIn(groups[g], part)
<1> SUFFICES ASSUME NEW g, NEW i
             PROVE  <<g, i>> \in Carrying(groups, part)
                      <=> g \in GroupsWith(groups, part) /\ i \in KeptIn(groups[g], part)
  OBVIOUS
<1>1. <<g, i>>[1] = g /\ <<g, i>>[2] = i
  OBVIOUS
<1>2. <<g, i>> \in Places(groups) <=> g \in DOMAIN groups /\ i \in DOMAIN groups[g]
  BY <1>1, PlaceParts
<1> QED
  BY <1>1, <1>2 DEF Carrying, GroupsWith, KeptIn

\* KeepGroups keeps the candidates that carry the part, all of them and in their
\* order, and nothing else; and it puts together what was together.
LEMMA KeepGroupsOrigins ==
    ASSUME NEW S, NEW groups \in Seq(Seq(S)), NEW part
    PROVE  LET K == KeepGroups(groups, part)
               from(q) == Origin(groups, part, q)
           IN  /\ K \in Seq(Seq(S))
               /\ \A q \in Places(K) :
                    /\ from(q) \in Carrying(groups, part)
                    /\ K[q[1]][q[2]] = groups[from(q)[1]][from(q)[2]]
               /\ \A a, b \in Places(K) : Before(a, b) => Before(from(a), from(b))
               /\ \A a, b \in Places(K) : a[1] = b[1] <=> from(a)[1] = from(b)[1]
               /\ \A c \in Carrying(groups, part) : \E q \in Places(K) : from(q) = c
<1> DEFINE K == KeepGroups(groups, part)
           W == GroupsWith(groups, part)
           P(h) == KeptIn(groups[h], part)
           from(q) == Origin(groups, part, q)
<1>1. /\ W \in SUBSET (DOMAIN groups) /\ W \in SUBSET (1 .. Len(groups))
      /\ \A g \in DOMAIN groups : P(g) \in SUBSET (1 .. Len(groups[g]))
      /\ K \in Seq(Seq(S)) /\ DOMAIN K = 1 .. Cardinality(W)
      /\ \A g \in DOMAIN K :
           /\ Ascending(W)[g] \in W /\ Len(groups[Ascending(W)[g]]) \in Nat
           /\ DOMAIN K[g] = 1 .. Cardinality(P(Ascending(W)[g]))
           /\ \A i \in DOMAIN K[g] :
                /\ Ascending(P(Ascending(W)[g]))[i] \in P(Ascending(W)[g])
                /\ K[g][i] = groups[Ascending(W)[g]][Ascending(P(Ascending(W)[g]))[i]]
  <2>1. W \in SUBSET (DOMAIN groups) /\ W \in SUBSET (1 .. Len(groups))
    BY KeepGroupsItems
  <2>2. \A g \in DOMAIN groups : P(g) \in SUBSET (1 .. Len(groups[g]))
    BY KeepGroupsItems
  <2>3. K \in Seq(Seq(S)) /\ DOMAIN K = 1 .. Cardinality(W)
    BY KeepGroupsItems
  <2>4. ASSUME NEW g \in DOMAIN K
        PROVE  LET h == Ascending(W)[g]
               IN  /\ h \in W /\ Len(groups[h]) \in Nat
                   /\ DOMAIN K[g] = 1 .. Cardinality(P(h))
                   /\ \A i \in DOMAIN K[g] :
                        Ascending(P(h))[i] \in P(h) /\ K[g][i] = groups[h][Ascending(P(h))[i]]
    BY KeepGroupsItems
  <2> HIDE DEF K, W, P
  <2> QED
    BY <2>1, <2>2, <2>3, <2>4
<1>2. \A q : from(q) = <<Ascending(W)[q[1]], Ascending(P(Ascending(W)[q[1]]))[q[2]]>>
  BY DEF Origin
<1>3. Len(groups) \in Nat
  OBVIOUS
<1>4. \A c : c \in Carrying(groups, part) =>
               c[1] \in W /\ c[2] \in P(c[1]) /\ c = <<c[1], c[2]>>
  <2> SUFFICES ASSUME NEW c \in Carrying(groups, part)
               PROVE  c[1] \in W /\ c[2] \in P(c[1]) /\ c = <<c[1], c[2]>>
    OBVIOUS
  <2>1. c \in Places(groups)
    BY DEF Carrying
  <2>2. c = <<c[1], c[2]>>
    BY <2>1, PlaceParts
  <2> QED
    BY <2>2, CarryingParts
<1>5. \A g, i : g \in W /\ i \in P(g) => <<g, i>> \in Carrying(groups, part)
  BY CarryingParts
<1> HIDE DEF K, W, P, from
<1>6. \A q \in Places(K) : q[1] \in DOMAIN K /\ q[2] \in DOMAIN K[q[1]] /\ q = <<q[1], q[2]>>
  BY <1>1, PlaceParts
<1>7. \A g \in DOMAIN K : \A i \in DOMAIN K[g] : <<g, i>> \in Places(K)
  BY <1>1, PlaceParts
<1>8. ASSUME NEW q \in Places(K)
      PROVE  /\ from(q) \in Carrying(groups, part)
             /\ K[q[1]][q[2]] = groups[from(q)[1]][from(q)[2]]
  <2> DEFINE h == Ascending(W)[q[1]]
             j == Ascending(P(h))[q[2]]
  <2>1. h \in W /\ j \in P(h) /\ K[q[1]][q[2]] = groups[h][j]
    BY <1>1, <1>6
  <2>2. from(q) = <<h, j>>
    BY <1>2
  <2> HIDE DEF h, j
  <2> QED
    BY <1>5, <2>1, <2>2
<1>9. /\ \A x, y \in DOMAIN K : x < y <=> Ascending(W)[x] < Ascending(W)[y]
      /\ \A x, y \in DOMAIN K : Ascending(W)[x] = Ascending(W)[y] => x = y
      /\ \A h \in W : \E x \in DOMAIN K : Ascending(W)[x] = h
  BY <1>1, <1>3, AscendingLists
<1>10. ASSUME NEW g \in DOMAIN K
       PROVE  LET A == Ascending(P(Ascending(W)[g]))
              IN  /\ \A x, y \in DOMAIN K[g] : x < y <=> A[x] < A[y]
                  /\ \A i \in P(Ascending(W)[g]) : \E x \in DOMAIN K[g] : A[x] = i
  <2> DEFINE h == Ascending(W)[g]
  <2>1. h \in DOMAIN groups /\ Len(groups[h]) \in Nat
    BY <1>1
  <2>2. P(h) \in SUBSET (1 .. Len(groups[h])) /\ DOMAIN K[g] = 1 .. Cardinality(P(h))
    BY <1>1, <2>1
  <2> HIDE DEF h
  <2>3. /\ \A x, y \in DOMAIN K[g] : x < y <=> Ascending(P(h))[x] < Ascending(P(h))[y]
        /\ \A i \in P(h) : \E x \in DOMAIN K[g] : Ascending(P(h))[x] = i
    BY <2>1, <2>2, AscendingLists
  <2> QED
    BY <2>3 DEF h
<1>11. ASSUME NEW a \in Places(K), NEW b \in Places(K)
       PROVE  /\ Before(a, b) => Before(from(a), from(b))
              /\ a[1] = b[1] <=> from(a)[1] = from(b)[1]
  <2>1. a[1] \in DOMAIN K /\ a[2] \in DOMAIN K[a[1]] /\ b[1] \in DOMAIN K /\ b[2] \in DOMAIN K[b[1]]
    BY <1>6
  <2>2. /\ from(a)[1] = Ascending(W)[a[1]] /\ from(b)[1] = Ascending(W)[b[1]]
        /\ from(a)[2] = Ascending(P(Ascending(W)[a[1]]))[a[2]]
        /\ from(b)[2] = Ascending(P(Ascending(W)[b[1]]))[b[2]]
    BY <1>2
  <2>3. a[1] = b[1] <=> from(a)[1] = from(b)[1]
    BY <1>9, <2>1, <2>2
  <2>4. CASE a[1] < b[1]
    BY <1>9, <2>1, <2>2, <2>3, <2>4 DEF Before
  <2>5. CASE a[1] = b[1] /\ a[2] < b[2]
    BY <1>10, <2>1, <2>2, <2>3, <2>5 DEF Before
  <2> QED
    BY <2>3, <2>4, <2>5 DEF Before
<1>12. ASSUME NEW c \in Carrying(groups, part)
       PROVE  \E q \in Places(K) : from(q) = c
  <2>1. c[1] \in W /\ c[2] \in P(c[1]) /\ c = <<c[1], c[2]>>
    BY <1>4
  <2>2. PICK g \in DOMAIN K : Ascending(W)[g] = c[1]
    BY <1>9, <2>1
  <2>3. PICK i \in DOMAIN K[g] : Ascending(P(c[1]))[i] = c[2]
    BY <1>10, <2>1, <2>2
  <2>4. <<g, i>> \in Places(K)
    BY <1>7
  <2>5. from(<<g, i>>) = c
    BY <1>2, <2>1, <2>2, <2>3
  <2> QED
    BY <2>4, <2>5
<1> QED
  BY <1>1, <1>8, <1>11, <1>12 DEF K, from

\* Nothing is left exactly when no candidate carries the part.
LEMMA NothingKept ==
    ASSUME NEW S, NEW groups \in Seq(Seq(S)), NEW part
    PROVE  KeepGroups(groups, part) = <<>> <=> Carrying(groups, part) = {}
<1> DEFINE K == KeepGroups(groups, part)
           W == GroupsWith(groups, part)
<1>1. K \in Seq(Seq(S)) /\ Len(K) = Cardinality(W) /\ W \in SUBSET (1 .. Len(groups))
  BY KeepGroupsItems
<1>2. IsFiniteSet(W)
  <2>1. Len(groups) \in Nat
    OBVIOUS
  <2> QED
    BY <1>1, <2>1, AscendingLists
<1>3. K = <<>> <=> Len(K) = 0
  BY <1>1
<1>4. W = {} <=> Cardinality(W) = 0
  BY <1>2, FS_EmptySet
<1>5. ASSUME NEW c \in Carrying(groups, part) PROVE c[1] \in W
  <2>1. c \in Places(groups)
    BY DEF Carrying
  <2>2. c = <<c[1], c[2]>>
    BY <2>1, PlaceParts
  <2> QED
    BY <2>2, CarryingParts
<1>6. ASSUME NEW g \in W PROVE Carrying(groups, part) # {}
  <2>1. PICK i : i \in KeptIn(groups[g], part)
    BY DEF GroupsWith
  <2> QED
    BY <2>1, CarryingParts
<1> QED
  BY <1>1, <1>3, <1>4, <1>5, <1>6

\* Two parts that the same candidates carry are kept alike.
LEMMA SameCarriersSameGroups ==
    ASSUME NEW S, NEW groups \in Seq(Seq(S)), NEW part1, NEW part2,
           Carrying(groups, part1) = Carrying(groups, part2)
    PROVE  KeepGroups(groups, part1) = KeepGroups(groups, part2)
<1>1. ASSUME NEW g \in DOMAIN groups
      PROVE  KeptIn(groups[g], part1) = KeptIn(groups[g], part2)
  <2>1. \A i \in DOMAIN groups[g] : <<g, i>> \in Places(groups)
    BY PlaceParts
  <2>2. \A i : <<g, i>>[1] = g /\ <<g, i>>[2] = i
    OBVIOUS
  <2>3. ASSUME NEW i \in DOMAIN groups[g]
        PROVE  Carries(groups[g][i], part1) <=> Carries(groups[g][i], part2)
    BY <2>1, <2>2 DEF Carrying
  <2> QED
    BY <2>3 DEF KeptIn
<1>2. /\ [g \in DOMAIN groups |-> Kept(groups[g], KeptIn(groups[g], part1))]
         = [g \in DOMAIN groups |-> Kept(groups[g], KeptIn(groups[g], part2))]
      /\ {g \in DOMAIN groups : KeptIn(groups[g], part1) # {}}
         = {g \in DOMAIN groups : KeptIn(groups[g], part2) # {}}
  BY <1>1
<1> QED
  BY <1>2, Zenon DEF KeepGroups

\* When only candidates that carry part1 in one grouping carry part2 in the other,
\* equal shapes mean that both are carried by the same candidates: nothing was dropped
\* from one walk only.
LEMMA SameShapeSameCarriers ==
    ASSUME NEW S, NEW groups \in Seq(Seq(S)), NEW others \in Seq(Seq(S)), NEW part1, NEW part2,
           Carrying(others, part2) \subseteq Carrying(groups, part1),
           SameShape(KeepGroups(groups, part1), KeepGroups(others, part2))
    PROVE  Carrying(others, part2) = Carrying(groups, part1)
<1> DEFINE K1 == KeepGroups(groups, part1)
           K2 == KeepGroups(others, part2)
           W1 == GroupsWith(groups, part1)
           W2 == GroupsWith(others, part2)
           P1(g) == KeptIn(groups[g], part1)
           P2(g) == KeptIn(others[g], part2)
<1>1. Len(groups) \in Nat /\ DOMAIN groups = 1 .. Len(groups)
      /\ \A g \in DOMAIN groups : Len(groups[g]) \in Nat
      /\ Len(others) \in Nat /\ DOMAIN others = 1 .. Len(others)
  OBVIOUS
<1>2. /\ W1 \in SUBSET (1 .. Len(groups)) /\ W2 \in SUBSET (1 .. Len(others))
      /\ Len(K1) = Cardinality(W1) /\ Len(K2) = Cardinality(W2)
      /\ DOMAIN K1 = 1 .. Cardinality(W1) /\ DOMAIN K2 = 1 .. Cardinality(W2)
  BY KeepGroupsItems
<1>3. \A g \in DOMAIN K1 : Len(K1[g]) = Cardinality(P1(Ascending(W1)[g]))
  BY KeepGroupsItems
<1>4. \A g \in DOMAIN K2 : Len(K2[g]) = Cardinality(P2(Ascending(W2)[g]))
  BY KeepGroupsItems
<1>5. \A g \in DOMAIN groups : P1(g) \in SUBSET (1 .. Len(groups[g]))
  BY KeepGroupsItems
<1>6. \A g \in W2 : P2(g) \subseteq P1(g)
  <2> SUFFICES ASSUME NEW g \in W2, NEW i \in P2(g) PROVE i \in P1(g)
    OBVIOUS
  <2>1. <<g, i>> \in Carrying(others, part2)
    BY CarryingParts
  <2>2. <<g, i>> \in Carrying(groups, part1)
    BY <2>1
  <2> QED
    BY <2>2, CarryingParts
<1>7. SameShape(K1, K2)
  OBVIOUS
<1>8. W2 \subseteq W1
  <2> SUFFICES ASSUME NEW g \in W2 PROVE g \in W1
    OBVIOUS
  <2>1. PICK i : i \in P2(g)
    BY DEF GroupsWith
  <2>2. <<g, i>> \in Carrying(groups, part1)
    BY <2>1, CarryingParts
  <2> QED
    BY <2>2, CarryingParts
<1> HIDE DEF K1, K2, W1, W2, P1, P2
<1>9. W1 = W2
  <2>1. IsFiniteSet(W1)
    BY <1>1, <1>2, AscendingLists
  <2>2. Cardinality(W1) = Cardinality(W2)
    BY <1>2, <1>7 DEF SameShape
  <2> QED
    BY <1>8, <2>1, <2>2, FS_Subset
<1>10. ASSUME NEW h \in W1 PROVE P2(h) = P1(h)
  <2>1. PICK g \in DOMAIN K1 : Ascending(W1)[g] = h
    BY <1>1, <1>2, AscendingLists
  <2>2. Cardinality(P1(h)) = Cardinality(P2(h))
    BY <1>2, <1>3, <1>4, <1>7, <1>9, <2>1 DEF SameShape
  <2>3. h \in DOMAIN groups
    BY <1>1, <1>2
  <2>4. IsFiniteSet(P1(h))
    BY <1>1, <1>5, <2>3, AscendingLists
  <2> QED
    BY <1>6, <1>9, <2>2, <2>4, FS_Subset
<1>11. ASSUME NEW c \in Carrying(groups, part1) PROVE c \in Carrying(others, part2)
  <2>1. c \in Places(groups)
    BY DEF Carrying
  <2>2. c = <<c[1], c[2]>>
    BY <2>1, PlaceParts
  <2>3. c[1] \in W1 /\ c[2] \in P1(c[1])
    BY <2>2, CarryingParts DEF W1, P1
  <2>4. c[1] \in W2 /\ c[2] \in P2(c[1])
    BY <1>9, <1>10, <2>3
  <2> QED
    BY <2>2, <2>4, CarryingParts DEF W2, P2
<1> QED
  BY <1>11

-----------------------------------------------------------------------------
(***************************************************************************)
(* Flattening.                                                             *)
(***************************************************************************)
\* f is what a walk over the first n groups of s, in order, meets; at says where.
Walks(f, at, s, n) ==
    /\ at \in [1 .. Len(f) -> {q \in Places(s) : q[1] <= n}]
    /\ \A r \in 1 .. Len(f) : f[r] = s[at[r][1]][at[r][2]]
    /\ \A r, t \in 1 .. Len(f) : r < t => Before(at[r], at[t])
    /\ \A q \in Places(s) : q[1] <= n => \E r \in 1 .. Len(f) : at[r] = q

\* The walk goes on into the next group.
LEMMA WalkOneMore ==
    ASSUME NEW S, NEW s \in Seq(Seq(S)), NEW n \in Nat, n + 1 \in DOMAIN s,
           NEW f \in Seq(S), NEW at, Walks(f, at, s, n)
    PROVE  \E to : Walks(f \o s[n + 1], to, s, n + 1)
<1> DEFINE g == s[n + 1]
           k == Len(f)
           m == Len(g)
           h == f \o g
           to == [r \in 1 .. k + m |-> IF r <= k THEN at[r] ELSE <<n + 1, r - k>>]
<1>1. g \in Seq(S) /\ k \in Nat /\ m \in Nat /\ DOMAIN g = 1 .. m
  OBVIOUS
<1>2. /\ Len(h) = k + m
      /\ \A r \in 1 .. k : h[r] = f[r]
      /\ \A r \in 1 .. k + m : ~ (r <= k) => r - k \in 1 .. m /\ h[r] = g[r - k]
  BY <1>1
<1>3. /\ at \in [1 .. k -> {q \in Places(s) : q[1] <= n}]
      /\ \A r \in 1 .. k : f[r] = s[at[r][1]][at[r][2]]
      /\ \A r, t \in 1 .. k : r < t => Before(at[r], at[t])
      /\ \A q \in Places(s) : q[1] <= n => \E r \in 1 .. k : at[r] = q
  BY DEF Walks
<1>4. \A q \in Places(s) :
        q[1] \in DOMAIN s /\ q[2] \in DOMAIN s[q[1]] /\ q = <<q[1], q[2]>>
  BY PlaceParts
<1>5. \A i \in 1 .. m : <<n + 1, i>> \in Places(s)
  BY <1>1, PlaceParts
<1>6. DOMAIN s \subseteq Nat
  OBVIOUS
<1> HIDE DEF g, k, m, h
<1>7. ASSUME NEW r \in 1 .. k
      PROVE  /\ to[r] = at[r] /\ to[r] \in Places(s)
             /\ to[r][1] \in Nat /\ to[r][1] <= n
  <2>1. r \in 1 .. k + m /\ r <= k
    BY <1>1
  <2>2. to[r] = at[r] /\ at[r] \in Places(s) /\ at[r][1] <= n
    BY <1>3, <2>1
  <2> QED
    BY <1>4, <1>6, <2>2
<1>8. ASSUME NEW r \in 1 .. k + m, ~ (r <= k)
      PROVE  /\ r - k \in 1 .. m /\ to[r] = <<n + 1, r - k>> /\ to[r] \in Places(s)
             /\ to[r][1] = n + 1 /\ to[r][2] = r - k
  <2>1. r - k \in 1 .. m
    BY <1>1, <1>8
  <2> QED
    BY <1>5, <1>8, <2>1
<1>9. to = [r \in 1 .. k + m |-> to[r]]
  OBVIOUS
<1> HIDE DEF to
<1>10. ASSUME NEW r \in 1 .. k + m
      PROVE  /\ to[r] \in Places(s) /\ to[r][1] <= n + 1
             /\ h[r] = s[to[r][1]][to[r][2]]
  <2>1. CASE r <= k
    <3>1. r \in 1 .. k /\ to[r] = at[r] /\ to[r] \in Places(s) /\ to[r][1] <= n /\ to[r][1] \in Nat
      BY <1>1, <1>4, <1>6, <1>7, <2>1
    <3> QED
      BY <1>2, <1>3, <3>1
  <2>2. CASE ~ (r <= k)
    BY <1>2, <1>8, <2>2 DEF g
  <2> QED
    BY <2>1, <2>2
<1>11. ASSUME NEW r \in 1 .. k + m, NEW t \in 1 .. k + m, r < t PROVE Before(to[r], to[t])
  <2>1. CASE t <= k
    <3>1. r \in 1 .. k /\ t \in 1 .. k
      BY <1>1, <1>11, <2>1
    <3> QED
      BY <1>3, <1>7, <1>11, <3>1
  <2>2. CASE ~ (t <= k) /\ r <= k
    <3>1. r \in 1 .. k /\ to[r][1] <= n /\ to[r][1] \in Nat
      BY <1>1, <1>4, <1>6, <1>7, <2>2
    <3> QED
      BY <1>8, <2>2, <3>1 DEF Before
  <2>3. CASE ~ (t <= k) /\ ~ (r <= k)
    <3>1. r - k < t - k
      BY <1>1, <1>11
    <3> QED
      BY <1>8, <2>3, <3>1 DEF Before
  <2> QED
    BY <2>1, <2>2, <2>3
<1>12. ASSUME NEW q \in Places(s), q[1] <= n + 1 PROVE \E r \in 1 .. k + m : to[r] = q
  <2>1. q[1] \in Nat
    BY <1>4, <1>6
  <2>2. CASE q[1] <= n
    <3>1. PICK r \in 1 .. k : at[r] = q
      BY <1>3, <2>2
    <3>2. r \in 1 .. k + m
      BY <1>1
    <3> QED
      BY <1>7, <3>1, <3>2
  <2>3. CASE q[1] = n + 1
    <3>1. q[2] \in 1 .. m /\ q = <<n + 1, q[2]>>
      BY <1>1, <1>4, <2>3 DEF g
    <3>2. /\ k + q[2] \in 1 .. k + m /\ ~ (k + q[2] <= k)
          /\ (k + q[2]) - k = q[2]
      BY <1>1, <3>1
    <3>3. to[k + q[2]] = <<n + 1, q[2]>>
      BY <1>8, <3>2
    <3> QED
      BY <3>1, <3>2, <3>3
  <2> QED
    BY <1>12, <2>1, <2>2, <2>3
<1>13. to \in [1 .. k + m -> {q \in Places(s) : q[1] <= n + 1}]
  BY <1>9, <1>10
<1>14. Walks(h, to, s, n + 1)
  BY <1>2, <1>10, <1>11, <1>12, <1>13 DEF Walks
<1> QED
  BY <1>14 DEF h, g

\* FlattenSeq is the walk over all groups.
LEMMA FlattenWalks ==
    ASSUME NEW S, NEW s \in Seq(Seq(S))
    PROVE  /\ FlattenSeq(s) \in Seq(S)
           /\ \E at : Walks(FlattenSeq(s), at, s, Len(s))
<1> DEFINE N == Len(s)
           F == FlattenSeq(s)
           next(g, i) == IF i = 1 THEN s[i] ELSE g[i - 1] \o s[i]
           Flat(g, n) == \A i \in 1 .. n : g[i] \in Seq(S) /\ g[i] = next(g, i)
           Walked(g, n) == \E at : Walks(g[n], at, s, n)
           short == {n \in 0 .. N : ~ \E g : Flat(g, n)}
<1>1. N \in Nat /\ DOMAIN s = 1 .. N /\ \A i \in 1 .. N : s[i] \in Seq(S)
  OBVIOUS
<1>2. CASE N = 0
  <2>1. s = <<>> /\ F = <<>>
    BY <1>2 DEF FlattenSeq
  <2>2. \A q \in Places(s) : q[1] \in 1 .. N
    BY <1>1, PlaceParts
  <2>3. Places(s) = {}
    BY <1>2, <2>2
  <2>4. Walks(<<>>, <<>>, s, 0)
    BY <2>3 DEF Walks
  <2>5. F \in Seq(S) /\ Walks(F, <<>>, s, N)
    <3>1. <<>> \in Seq(S)
      OBVIOUS
    <3>2. F = <<>> /\ N = 0
      BY <1>2, <2>1
    <3> HIDE DEF F, N
    <3> QED
      BY <2>4, <3>1, <3>2
  <2> QED
    BY <2>5
<1>3. CASE N # 0
  <2> HIDE DEF N
  <2>1. short = {}
    <3> SUFFICES ASSUME short # {} PROVE FALSE
      OBVIOUS
    <3>1. PICK n \in short : \A m \in short : n <= m
      <4>1. short \in SUBSET Nat
        BY <1>1
      <4> HIDE DEF short
      <4> QED
        BY <4>1, LeastOf
    <3>2. n # 0
      <4>1. Flat(<<>>, 0)
        OBVIOUS
      <4> QED
        BY <3>1, <4>1
    <3>3. n - 1 \in 0 .. N /\ n \in 1 .. N /\ n \in Nat
      BY <1>1, <3>1, <3>2
    <3>4. PICK g : Flat(g, n - 1)
      <4> HIDE DEF Flat
      <4>1. n - 1 \notin short
        BY <3>1, <3>3
      <4> QED
        BY <3>3, <4>1
    <3> DEFINE h == [i \in 1 .. n |-> IF i = n THEN next(g, n) ELSE g[i]]
    <3>5. next(g, n) \in Seq(S)
      <4>1. CASE n = 1
        BY <1>1, <3>3, <4>1
      <4>2. CASE n # 1
        <5>1. n - 1 \in 1 .. n - 1 /\ g[n - 1] \in Seq(S)
          BY <3>3, <3>4, <4>2
        <5> QED
          BY <1>1, <3>3, <4>2, <5>1
      <4> QED
        BY <4>1, <4>2
    <3>6. ASSUME NEW i \in 1 .. n PROVE h[i] \in Seq(S) /\ h[i] = next(h, i)
      <4>1. CASE i = n
        <5>1. h[n] = next(g, n)
          BY <3>3
        <5>2. n # 1 => n - 1 \in 1 .. n /\ n - 1 # n /\ h[n - 1] = g[n - 1]
          BY <3>3
        <5> QED
          BY <3>5, <4>1, <5>1, <5>2
      <4>2. CASE i # n
        <5>1. i \in 1 .. n - 1 /\ h[i] = g[i]
          BY <3>3, <4>2
        <5>2. i # 1 => i - 1 \in 1 .. n /\ i - 1 # n /\ h[i - 1] = g[i - 1]
          BY <3>3
        <5> QED
          BY <3>4, <5>1, <5>2
      <4> QED
        BY <4>1, <4>2
    <3>7. Flat(h, n)
      <4> HIDE DEF h, next
      <4> QED
        BY <3>6
    <3> HIDE DEF Flat, h
    <3> QED
      BY <3>1, <3>7
  <2>2. PICK g : Flat(g, N)
    <3> HIDE DEF Flat
    <3>1. N \in 0 .. N
      BY <1>1
    <3>2. N \notin short
      BY <2>1, Zenon
    <3> QED
      BY <3>1, <3>2
  <2> DEFINE e == [i \in 1 .. N |-> g[i]]
             c == CHOOSE f : f = [i \in 1 .. N |-> next(f, i)]
  <2>3. e = [i \in 1 .. N |-> next(e, i)]
    <3>1. \A i \in 1 .. N : i # 1 => i - 1 \in 1 .. N
      BY <1>1
    <3>2. \A i \in 1 .. N : e[i] = next(e, i)
      BY <2>2, <3>1
    <3> HIDE DEF next
    <3> QED
      BY <3>2
  <2>4. c = [i \in 1 .. N |-> next(c, i)]
    <3> HIDE DEF next, e
    <3> QED
      BY <2>3, Zenon
  <2>5. F = c[N]
    BY <1>3, Zenon DEF FlattenSeq, N
  <2> HIDE DEF c, F
  <2>6. \A i \in 1 .. N : c[i] = IF i = 1 THEN s[i] ELSE c[i - 1] \o s[i]
    BY <2>4
  <2> DEFINE stuck == {n \in 1 .. N : ~ (c[n] \in Seq(S) /\ Walked(c, n))}
  <2>7. stuck = {}
    <3> SUFFICES ASSUME stuck # {} PROVE FALSE
      OBVIOUS
    <3>1. PICK n \in stuck : \A m \in stuck : n <= m
      <4>1. stuck \in SUBSET Nat
        BY <1>1
      <4> HIDE DEF stuck
      <4> QED
        BY <4>1, LeastOf
    <3>2. n \in 1 .. N /\ n \in Nat
      BY <1>1, <3>1
    <3>3. c[n] \in Seq(S) /\ Walked(c, n)
      <4>1. CASE n = 1
        <5>1. c[1] = s[1] /\ s[1] \in Seq(S) /\ 0 + 1 \in DOMAIN s /\ <<>> \in Seq(S)
          BY <1>1, <2>6, <3>2, <4>1
        <5>2. Walks(<<>>, <<>>, s, 0)
          <6>1. \A q \in Places(s) : q[1] \in 1 .. N
            BY <1>1, PlaceParts
          <6>2. \A q \in Places(s) : ~ (q[1] <= 0)
            BY <1>1, <6>1
          <6> QED
            BY <6>2 DEF Walks
        <5>3. \E to : Walks(<<>> \o s[0 + 1], to, s, 0 + 1)
          BY <5>1, <5>2, WalkOneMore
        <5>4. <<>> \o s[0 + 1] = c[1]
          BY <5>1
        <5> QED
          BY <4>1, <5>1, <5>3, <5>4
      <4>2. CASE n # 1
        <5>1. n - 1 \in 1 .. N /\ n - 1 \in Nat /\ (n - 1) + 1 = n
          BY <1>1, <3>2, <4>2
        <5>2. n - 1 \notin stuck
          <6> HIDE DEF stuck
          <6> QED
            BY <3>1, <3>2, <5>1
        <5>3. c[n - 1] \in Seq(S) /\ Walked(c, n - 1)
          BY <5>1, <5>2
        <5>4. \E to : Walks(c[n - 1] \o s[(n - 1) + 1], to, s, (n - 1) + 1)
          BY <1>1, <3>2, <5>1, <5>3, WalkOneMore
        <5>5. c[n] = c[n - 1] \o s[n] /\ c[n] \in Seq(S)
          <6>1. c[n] = c[n - 1] \o s[n]
            BY <2>6, <3>2, <4>2
          <6>2. s[n] \in Seq(S)
            BY <1>1, <3>2
          <6> QED
            BY <5>3, <6>1, <6>2
        <5> QED
          BY <5>1, <5>4, <5>5
      <4> QED
        BY <4>1, <4>2
    <3> QED
      BY <3>1, <3>3
  <2>8. N \in 1 .. N
    BY <1>1, <1>3
  <2> QED
    BY <2>5, <2>7, <2>8 DEF N, F
<1> QED
  BY <1>2, <1>3

\* f is what a walk meets that looks only at the candidates with the part.
WalksCarrying(f, to, groups, part) ==
    /\ to \in [1 .. Len(f) -> Carrying(groups, part)]
    /\ \A r \in 1 .. Len(f) : f[r] = groups[to[r][1]][to[r][2]]
    /\ \A r, t \in 1 .. Len(f) : r < t => Before(to[r], to[t])
    /\ \A c \in Carrying(groups, part) : \E r \in 1 .. Len(f) : to[r] = c

\* The flattened candidates with a part are those of the grouping that carry it,
\* in its order.
LEMMA FlattenedKept ==
    ASSUME NEW S, NEW groups \in Seq(Seq(S)), NEW part
    PROVE  /\ FlattenSeq(KeepGroups(groups, part)) \in Seq(S)
           /\ \E to : WalksCarrying(FlattenSeq(KeepGroups(groups, part)), to, groups, part)
<1> DEFINE K == KeepGroups(groups, part)
           F == FlattenSeq(K)
           from(q) == Origin(groups, part, q)
<1>1. K \in Seq(Seq(S))
  BY KeepGroupsOrigins
<1>2. /\ \A q \in Places(K) :
           /\ from(q) \in Carrying(groups, part)
           /\ K[q[1]][q[2]] = groups[from(q)[1]][from(q)[2]]
      /\ \A a, b \in Places(K) : Before(a, b) => Before(from(a), from(b))
      /\ \A c \in Carrying(groups, part) : \E q \in Places(K) : from(q) = c
  BY KeepGroupsOrigins
<1> HIDE DEF K, from
<1>3. F \in Seq(S) /\ \E at : Walks(F, at, K, Len(K))
  BY <1>1, FlattenWalks
<1> HIDE DEF F
<1>4. PICK at : Walks(F, at, K, Len(K))
  BY <1>3
<1>5. \A q \in Places(K) : q[1] <= Len(K)
  <2>1. \A q \in Places(K) : q[1] \in DOMAIN K
    BY <1>1, PlaceParts
  <2> QED
    BY <1>1, <2>1
<1>6. /\ \A r \in 1 .. Len(F) : at[r] \in Places(K) /\ F[r] = K[at[r][1]][at[r][2]]
      /\ \A r, t \in 1 .. Len(F) : r < t => Before(at[r], at[t])
      /\ \A q \in Places(K) : \E r \in 1 .. Len(F) : at[r] = q
  BY <1>4, <1>5 DEF Walks
<1> DEFINE to == [r \in 1 .. Len(F) |-> from(at[r])]
<1>7. to \in [1 .. Len(F) -> Carrying(groups, part)]
  BY <1>2, <1>6
<1>8. \A r \in 1 .. Len(F) : F[r] = groups[to[r][1]][to[r][2]]
  BY <1>2, <1>6
<1>9. \A r, t \in 1 .. Len(F) : r < t => Before(to[r], to[t])
  BY <1>2, <1>6
<1>10. ASSUME NEW c \in Carrying(groups, part) PROVE \E r \in 1 .. Len(F) : to[r] = c
  <2>1. PICK q \in Places(K) : from(q) = c
    BY <1>2
  <2>2. PICK r \in 1 .. Len(F) : at[r] = q
    BY <1>6
  <2> QED
    BY <2>1, <2>2
<1> HIDE DEF to
<1> QED
  BY <1>3, <1>7, <1>8, <1>9, <1>10 DEF F, K, WalksCarrying

\* Places of a grouping are pairs of numbers.
LEMMA CarryingNumbers ==
    ASSUME NEW S, NEW groups \in Seq(Seq(S)), NEW part, NEW c \in Carrying(groups, part)
    PROVE  c[1] \in Nat /\ c[2] \in Nat /\ c = <<c[1], c[2]>>
<1>1. c \in Places(groups)
  BY DEF Carrying
<1>2. c[1] \in DOMAIN groups /\ c[2] \in DOMAIN groups[c[1]] /\ c = <<c[1], c[2]>>
  BY <1>1, PlaceParts
<1>3. groups[c[1]] \in Seq(S)
  BY <1>2
<1> QED
  BY <1>2, <1>3

\* The walk that attaches results meets a candidate when the scorer's rows, which
\* another walk has laid out, are at that very candidate.
LEMMA ResultIsOfCandidate ==
    ASSUME NEW S, NEW groups \in Seq(Seq(S)), NEW c \in Carrying(groups, "tokens")
    PROVE  LET F == FlattenSeq(KeepGroups(groups, "tokens"))
               r == ResultIndex(groups, c[1], c[2])
           IN  r \in 1 .. Len(F) /\ F[r] = groups[c[1]][c[2]]
<1> DEFINE F == FlattenSeq(KeepGroups(groups, "tokens"))
           C == Carrying(groups, "tokens")
           U == {q \in C : q[1] < c[1] \/ (q[1] = c[1] /\ q[2] <= c[2])}
<1>1. F \in Seq(S)
  BY FlattenedKept
<1>2. PICK to : WalksCarrying(F, to, groups, "tokens")
  BY FlattenedKept
<1>3. /\ to \in [1 .. Len(F) -> C]
      /\ \A r \in 1 .. Len(F) : F[r] = groups[to[r][1]][to[r][2]]
      /\ \A r, t \in 1 .. Len(F) : r < t => Before(to[r], to[t])
      /\ \A q \in C : \E r \in 1 .. Len(F) : to[r] = q
  BY <1>2 DEF WalksCarrying
<1>4. \A q \in C : q[1] \in Nat /\ q[2] \in Nat
  BY CarryingNumbers
<1>5. Len(F) \in Nat
  BY <1>1
<1> HIDE DEF F, C
<1>6. PICK r \in 1 .. Len(F) : to[r] = c
  BY <1>3 DEF C
<1> DEFINE b == [t \in 1 .. r |-> to[t]]
<1>7. ASSUME NEW t \in 1 .. r PROVE t \in 1 .. Len(F) /\ to[t] \in U
  <2>1. t \in 1 .. Len(F) /\ (t = r \/ t < r)
    BY <1>5, <1>6
  <2>2. to[t] \in C /\ c \in C
    BY <1>3, <2>1 DEF C
  <2>3. to[t] = c \/ Before(to[t], c)
    BY <1>3, <1>6, <2>1
  <2> QED
    BY <1>4, <2>1, <2>2, <2>3 DEF Before
<1>8. ASSUME NEW q \in U PROVE \E t \in 1 .. r : b[t] = q
  <2>1. PICK t \in 1 .. Len(F) : to[t] = q
    BY <1>3
  <2>2. ~ (r < t)
    <3>1. r < t => Before(c, q)
      BY <1>3, <1>6, <2>1
    <3>2. c \in C /\ q \in C
      BY DEF C
    <3> QED
      BY <1>4, <3>1, <3>2 DEF Before
  <2>3. t \in 1 .. r
    BY <1>5, <2>2
  <2> QED
    BY <2>1, <2>3
<1>9. ASSUME NEW t \in 1 .. r, NEW u \in 1 .. r, b[t] = b[u] PROVE t = u
  <2>1. t \in 1 .. Len(F) /\ u \in 1 .. Len(F) /\ to[t] = to[u] /\ to[t] \in C
    BY <1>3, <1>7, <1>9
  <2>2. ~ Before(to[t], to[t])
    BY <1>4, <2>1 DEF Before
  <2>3. ~ (t < u) /\ ~ (u < t)
    BY <1>3, <2>1, <2>2
  <2> QED
    BY <1>5, <2>1, <2>3
<1>10. b \in [1 .. r -> U]
  BY <1>7
<1> HIDE DEF b, U
<1>11. b \in Bijection(1 .. r, U)
  BY <1>8, <1>9, <1>10, Zenon DEF Bijection, Injection, Surjection, IsInjective
<1>12. Cardinality(U) = r
  <2>1. r \in Nat /\ ExistsBijection(1 .. r, U)
    BY <1>5, <1>11 DEF ExistsBijection
  <2> QED
    BY <2>1, FS_CountingElements
<1>13. ResultIndex(groups, c[1], c[2]) = r
  BY <1>12 DEF ResultIndex, U, C
<1>14. F[r] = groups[c[1]][c[2]]
  BY <1>3, <1>6
<1> QED
  BY <1>13, <1>14 DEF F

-----------------------------------------------------------------------------
(***************************************************************************)
(* The invariant.                                                          *)
(***************************************************************************)
CandidateRecord ==
    [id : Id, len : Lengths, reward : Reward \cup {None}, nested : Reward \cup {None},
     row : LogpRow \cup {None}, nestedRow : LogpRow \cup {None}]

\* What c comes with is its own.
OwnParts(c) ==
    /\ c.reward # None => c.reward.of = c.id
    /\ c.nested # None => c.nested.of = c.id
    /\ c.row # None => c.row.of = c.id
    /\ c.nestedRow # None => c.nestedRow.of = c.id

\* A candidate is at the place its id names, whatever else becomes of it.
Placed(groups) ==
    /\ groups \in Seq(Seq(CandidateRecord))
    /\ \A q \in Places(groups) :
         /\ groups[q[1]][q[2]].id = [prompt |-> q[1], copy |-> q[2]]
         /\ OwnParts(groups[q[1]][q[2]])

\* The grouping whose candidates are scored and trained on.
TokenGroups(p) == Source(p, "tokens")

\* Every candidate with tokens has what was scored.
HasScores(c) ==
    /\ "reward" \in scored => c.reward = [by |-> "scorer", of |-> c.id]
    /\ "reference" \in scored => c.row = [of |-> c.id, n |-> Smaller(c.len, ScoredLen)]

\* What BuildBatch makes of a payload.
BatchOf(p) ==
    FlattenSeq([g \in DOMAIN Extract(p, "tokens") |-> [i \in DOMAIN Extract(p, "tokens")[g] |->
                  BatchRow(p, g, i)]])

PayloadInv ==
    /\ payload = [normalized |-> payload.normalized, outputs |-> payload.outputs]
    /\ Placed(payload.normalized) /\ Placed(payload.outputs)

ScoresInv ==
    /\ scored \subseteq {"reward", "reference"}
    /\ scored # {} => Carrying(TokenGroups(payload), "tokens") # {}
    /\ \A q \in Carrying(TokenGroups(payload), "tokens") :
         HasScores(TokenGroups(payload)[q[1]][q[2]])

BatchInv == batch # None => payload # NoPayload /\ batch = BatchOf(payload)

ContractInv == PayloadInv /\ ScoresInv /\ BatchInv

\* A grouping without groups.
LEMMA NoGroups == Places(<<>>) = {} /\ Placed(<<>>) /\ Carrying(<<>>, "tokens") = {}
<1>1. <<>> \in Seq(Seq(CandidateRecord))
  OBVIOUS
<1>2. \A q \in Places(<<>>) : q[1] \in DOMAIN <<>>
  BY <1>1, PlaceParts
<1>3. Places(<<>>) = {}
  BY <1>2
<1> QED
  BY <1>1, <1>3 DEF Placed, Carrying

\* Nothing is scored before there is a payload.
LEMMA NothingBefore ==
    ASSUME ContractInv, payload = NoPayload
    PROVE  scored = {} /\ batch = None
<1>1. payload.normalized = <<>> /\ payload.outputs = <<>>
  BY DEF NoPayload
<1>2. TokenGroups(payload) = <<>>
  BY <1>1 DEF TokenGroups, Source
<1> QED
  BY <1>2, NoGroups DEF ContractInv, ScoresInv, BatchInv

\* Before anything has run.
LEMMA InitContract == Init => ContractInv
<1> SUFFICES ASSUME Init PROVE ContractInv
  OBVIOUS
<1>1. payload.normalized = <<>> /\ payload.outputs = <<>> /\ payload = NoPayload
  BY DEF Init, NoPayload
<1>2. TokenGroups(payload) = <<>>
  BY <1>1 DEF TokenGroups, Source
<1>3. PayloadInv
  BY <1>1, NoGroups DEF PayloadInv, NoPayload
<1>4. ScoresInv
  BY <1>2, NoGroups DEF ScoresInv, Init
<1> QED
  BY <1>3, <1>4 DEF ContractInv, BatchInv, Init

\* A new payload is in order when its groupings are.
LEMMA NewPayload ==
    ASSUME ContractInv, payload = NoPayload, UNCHANGED <<scored, batch>>,
           NEW n, NEW o, payload' = [normalized |-> n, outputs |-> o],
           Placed(n), Placed(o)
    PROVE  ContractInv'
<1>1. scored' = {} /\ batch' = None
  BY NothingBefore
<1>2. PayloadInv'
  BY DEF PayloadInv
<1>3. ScoresInv'
  BY <1>1 DEF ScoresInv, HasScores
<1> QED
  BY <1>1, <1>2, <1>3 DEF ContractInv, BatchInv

\* Division as _expand_prompts uses it.
LEMMA QuotientOf ==
    ASSUME NEW a \in Nat, NEW n \in Nat \ {0}, NEW j \in 0 .. n - 1
    PROVE  (a * n + j) \div n = a /\ (a * n + j) % n = j
<1> DEFINE x == a * n + j
           q == x \div n
           m == x % n
<1>1. x \in Nat /\ a * n \in Nat /\ x = a * n + j
  OBVIOUS
<1> HIDE DEF x
<1>2. q \in Nat /\ m \in 0 .. n - 1 /\ x = n * q + m
  BY <1>1
<1> HIDE DEF q, m
<1>3. n * q = q * n /\ q * n \in Nat
  BY <1>2
<1>4. ~ (q < a)
  <2>1. ASSUME q < a PROVE FALSE
    <3>1. (q + 1) * n <= a * n
      <4>1. a - (q + 1) \in Nat
        BY <1>2, <2>1
      <4>2. (a - (q + 1)) * n \in Nat
        BY <4>1
      <4>3. (a - (q + 1)) * n = a * n - (q + 1) * n
        BY <1>2
      <4> QED
        BY <1>1, <1>2, <4>2, <4>3
    <3>2. (q + 1) * n = q * n + n
      BY <1>2
    <3> QED
      BY <1>1, <1>2, <1>3, <3>1, <3>2
  <2> QED
    BY <2>1
<1>5. ~ (a < q)
  <2>1. ASSUME a < q PROVE FALSE
    <3>1. (a + 1) * n <= q * n
      <4>1. q - (a + 1) \in Nat
        BY <1>2, <2>1
      <4>2. (q - (a + 1)) * n \in Nat
        BY <4>1
      <4>3. (q - (a + 1)) * n = q * n - (a + 1) * n
        BY <1>2
      <4> QED
        BY <1>2, <1>3, <4>2, <4>3
    <3>2. (a + 1) * n = a * n + n
      OBVIOUS
    <3> QED
      BY <1>1, <1>2, <1>3, <3>1, <3>2
  <2> QED
    BY <2>1
<1>6. q = a
  BY <1>2, <1>4, <1>5
<1>7. m = j
  BY <1>1, <1>2, <1>3, <1>6
<1> QED
  BY <1>6, <1>7 DEF q, m, x

\* Place by place: groups in which every candidate's id names its place, and that
\* carry nothing of another.
LEMMA PlacedWhen ==
    ASSUME NEW groups, NEW size, NEW n \in Nat,
           DOMAIN groups = 1 .. n, groups = [g \in 1 .. n |-> groups[g]],
           \A g \in 1 .. n : size[g] \in Nat /\ groups[g] = [i \in 1 .. size[g] |-> groups[g][i]],
           \A g \in 1 .. n : \A i \in 1 .. size[g] :
             /\ groups[g][i] \in CandidateRecord
             /\ groups[g][i].id = [prompt |-> g, copy |-> i]
             /\ OwnParts(groups[g][i])
    PROVE  Placed(groups)
<1>1. \A g \in 1 .. n : groups[g] \in Seq(CandidateRecord) /\ DOMAIN groups[g] = 1 .. size[g]
  <2> SUFFICES ASSUME NEW g \in 1 .. n
               PROVE  groups[g] \in Seq(CandidateRecord) /\ DOMAIN groups[g] = 1 .. size[g]
    OBVIOUS
  <2> DEFINE row == groups[g]
  <2>1. row = [i \in 1 .. size[g] |-> row[i]] /\ size[g] \in Nat
    OBVIOUS
  <2>2. \A i \in 1 .. size[g] : row[i] \in CandidateRecord
    OBVIOUS
  <2> HIDE DEF row
  <2>3. row \in [1 .. size[g] -> CandidateRecord]
    BY <2>1, <2>2
  <2> QED
    BY <2>1, <2>3 DEF row
<1>2. groups \in Seq(Seq(CandidateRecord))
  <2>1. groups \in [1 .. n -> Seq(CandidateRecord)]
    BY <1>1
  <2> QED
    BY <2>1
<1>3. \A q \in Places(groups) : q[1] \in 1 .. n /\ q[2] \in 1 .. size[q[1]]
  BY <1>1, <1>2, PlaceParts
<1> QED
  BY <1>2, <1>3 DEF Placed

\* What the engine answers is at the place its request names.
LEMMA GenerateKeepsInv ==
    ASSUME ContractInv, NEW prompts \in 1 .. MaxPrompts, NEW n \in 1 .. MaxGenerations,
           Generate(prompts, n)
    PROVE  ContractInv'
<1>1. prompts \in Nat \ {0} /\ n \in Nat \ {0} /\ prompts * n \in Nat
  BY BoundsAssumption
<1>2. PICK len \in [1 .. prompts * n -> Lengths] :
        LET groups == GroupOutputs([k \in 1 .. prompts * n |-> Candidate(Expanded(n, k), len[k])], n)
        IN  payload' = [normalized |-> groups, outputs |-> groups]
  BY DEF Generate
<1> DEFINE flat == [k \in 1 .. prompts * n |-> Candidate(Expanded(n, k), len[k])]
           groups == GroupOutputs(flat, n)
           at(g, i) == (g - 1) * n + i
<1>3. Len(flat) = prompts * n
  BY <1>1
<1>4. Len(flat) \div n = prompts
  <2>1. (prompts * n + 0) \div n = prompts
    BY <1>1, QuotientOf
  <2> QED
    BY <1>1, <1>3, <2>1
<1>5. groups = [g \in 1 .. prompts |-> SubSeq(flat, (g - 1) * n + 1, g * n)]
  BY <1>4 DEF GroupOutputs
<1>6. ASSUME NEW g \in 1 .. prompts
      PROVE  /\ (g - 1) * n \in Nat /\ g * n = (g - 1) * n + n /\ g * n <= prompts * n
             /\ g - 1 \in Nat
  <2>1. g - 1 \in Nat /\ prompts - g \in Nat
    BY <1>1
  <2>2. (g - 1) * n \in Nat /\ (prompts - g) * n \in Nat
    BY <1>1, <2>1
  <2>3. g * n = (g - 1) * n + n /\ (prompts - g) * n = prompts * n - g * n
    BY <1>1
  <2>4. g * n \in Nat
    BY <1>1
  <2> QED
    BY <1>1, <2>1, <2>2, <2>3, <2>4
<1>7. ASSUME NEW g \in 1 .. prompts, NEW i \in 1 .. n
      PROVE  /\ at(g, i) \in 1 .. prompts * n
             /\ Expanded(n, at(g, i)) = [prompt |-> g, copy |-> i]
  <2>1. (g - 1) * n \in Nat /\ (g - 1) * n + n <= prompts * n /\ g - 1 \in Nat
    BY <1>6
  <2>2. i \in Nat /\ i - 1 \in 0 .. n - 1
    BY <1>1
  <2>3. ((g - 1) * n + (i - 1)) \div n = g - 1 /\ ((g - 1) * n + (i - 1)) % n = i - 1
    BY <1>1, <2>1, <2>2, QuotientOf
  <2>4. at(g, i) - 1 = (g - 1) * n + (i - 1)
    BY <2>1, <2>2
  <2> DEFINE k == at(g, i)
  <2>5. (k - 1) \div n = g - 1 /\ (k - 1) % n = i - 1
    BY <2>3, <2>4
  <2>6. k \in 1 .. prompts * n
    BY <1>1, <2>1, <2>2
  <2> HIDE DEF k
  <2>7. Expanded(n, k) = [prompt |-> g, copy |-> i]
    BY <1>1, <2>5 DEF Expanded
  <2> QED
    BY <2>6, <2>7 DEF k
<1> HIDE DEF flat, groups
<1>8. ASSUME NEW g \in 1 .. prompts
      PROVE  /\ groups[g] = [i \in 1 .. n |-> groups[g][i]]
             /\ \A i \in 1 .. n : groups[g][i] = flat[at(g, i)]
  <2>1. groups[g] = SubSeq(flat, (g - 1) * n + 1, g * n)
    BY <1>5
  <2>2. (g - 1) * n \in Nat /\ g * n = (g - 1) * n + n
    BY <1>6
  <2> DEFINE s == (g - 1) * n
  <2> HIDE DEF s
  <2>3. groups[g] = SubSeq(flat, s + 1, s + n) /\ s \in Nat
    BY <2>1, <2>2 DEF s
  <2>4. SubSeq(flat, s + 1, s + n) = [i \in 1 .. n |-> flat[s + i]]
    <3>1. (s + n) - (s + 1) + 1 = n
      BY <1>1, <2>3
    <3>2. SubSeq(flat, s + 1, s + n) = [i \in 1 .. (s + n) - (s + 1) + 1 |-> flat[i + (s + 1) - 1]]
      BY <1>1, <2>3
    <3>3. \A i \in 1 .. n : i + (s + 1) - 1 = s + i
      BY <1>1, <2>3
    <3> QED
      BY <3>1, <3>2, <3>3
  <2> QED
    BY <2>3, <2>4 DEF s
<1>9. ASSUME NEW g \in 1 .. prompts, NEW i \in 1 .. n
      PROVE  \E l \in Lengths : groups[g][i] = Candidate([prompt |-> g, copy |-> i], l)
  <2>1. at(g, i) \in 1 .. prompts * n /\ Expanded(n, at(g, i)) = [prompt |-> g, copy |-> i]
    BY <1>7
  <2> HIDE DEF at
  <2>2. flat[at(g, i)] = Candidate(Expanded(n, at(g, i)), len[at(g, i)])
    BY <2>1 DEF flat
  <2>3. groups[g][i] = flat[at(g, i)]
    BY <1>8
  <2> QED
    BY <2>1, <2>2, <2>3
<1>10. ASSUME NEW g \in 1 .. prompts, NEW i \in 1 .. n
       PROVE  /\ groups[g][i] \in CandidateRecord
              /\ groups[g][i].id = [prompt |-> g, copy |-> i]
              /\ OwnParts(groups[g][i])
  <2>1. PICK l \in Lengths : groups[g][i] = Candidate([prompt |-> g, copy |-> i], l)
    BY <1>9
  <2>2. [prompt |-> g, copy |-> i] \in Id
    BY BoundsAssumption DEF Id
  <2> QED
    BY <2>1, <2>2 DEF Candidate, CandidateRecord, OwnParts
<1>11. DOMAIN groups = 1 .. prompts /\ groups = [g \in 1 .. prompts |-> groups[g]]
  BY <1>5
<1>12. Placed(groups)
  <2> DEFINE size == [g \in 1 .. prompts |-> n]
  <2>1. \A g \in 1 .. prompts : size[g] = n
    OBVIOUS
  <2> HIDE DEF size
  <2>2. /\ \A g \in 1 .. prompts :
             size[g] \in Nat /\ groups[g] = [i \in 1 .. size[g] |-> groups[g][i]]
        /\ \A g \in 1 .. prompts : \A i \in 1 .. size[g] :
             /\ groups[g][i] \in CandidateRecord
             /\ groups[g][i].id = [prompt |-> g, copy |-> i]
             /\ OwnParts(groups[g][i])
    BY <1>1, <1>8, <1>10, <2>1
  <2> QED
    BY <1>1, <1>11, <2>2, PlacedWhen
<1>14. /\ payload' = [normalized |-> groups, outputs |-> groups]
       /\ payload = NoPayload /\ UNCHANGED <<scored, batch>>
  BY <1>2 DEF Generate, groups, flat
<1> QED
  BY <1>12, <1>14, NewPayload

\* A candidate of a hand-made payload comes only with what is its own.
LEMMA FormedIsOwn ==
    ASSUME NEW id \in Id, NEW form \in Forms
    PROVE  /\ FormedCandidate(id, form) \in CandidateRecord
           /\ FormedCandidate(id, form).id = id
           /\ OwnParts(FormedCandidate(id, form))
<1> DEFINE given == [by |-> "payload", of |-> id]
           logps == [of |-> id, n |-> form.n]
           c == FormedCandidate(id, form)
<1>1. given \in Reward /\ given # None /\ given.of = id
  BY NoneAssumption DEF Reward
<1>2. form.len \in Lengths /\ form.n \in Nat \ {0}
  BY LengthsAssumption DEF Forms
<1>3. logps \in LogpRow /\ logps.of = id
  BY <1>2 DEF LogpRow
<1> DEFINE reward == IF form.load.reward = "own" THEN given ELSE None
           nested == IF form.load.reward = "nested" THEN given ELSE None
           row == IF form.load.row = "own" THEN logps ELSE None
           nestedRow == IF form.load.row = "nested" THEN logps ELSE None
<1>4. c = [id |-> id, len |-> form.len, reward |-> reward, nested |-> nested, row |-> row,
           nestedRow |-> nestedRow]
  BY DEF FormedCandidate
<1> HIDE DEF given, logps
<1>5. /\ reward \in Reward \cup {None} /\ (reward # None => reward.of = id)
      /\ nested \in Reward \cup {None} /\ (nested # None => nested.of = id)
      /\ row \in LogpRow \cup {None} /\ (row # None => row.of = id)
      /\ nestedRow \in LogpRow \cup {None} /\ (nestedRow # None => nestedRow.of = id)
  BY <1>1, <1>3
<1> HIDE DEF reward, nested, row, nestedRow, c
<1>6. /\ c.id = id /\ c.reward = reward /\ c.nested = nested /\ c.row = row
      /\ c.nestedRow = nestedRow /\ c \in CandidateRecord
  BY <1>2, <1>4, <1>5 DEF CandidateRecord
<1> QED
  BY <1>5, <1>6 DEF OwnParts, c

\* The candidates of a hand-made grouping are where their ids say.
LEMMA FormedIsPlaced ==
    ASSUME NEW sizes \in Sizes, NEW form \in [Positions(sizes) -> Forms]
    PROVE  Placed(FormedGroups(sizes, form))
<1>1. PICK prompts \in 0 .. MaxPrompts : sizes \in [1 .. prompts -> 1 .. MaxGenerations]
  BY DEF Sizes
<1>2. prompts \in Nat /\ DOMAIN sizes = 1 .. prompts /\ \A g \in 1 .. prompts : sizes[g] \in Nat
  BY <1>1, BoundsAssumption
<1> DEFINE groups == FormedGroups(sizes, form)
<1>3. ASSUME NEW g \in 1 .. prompts, NEW i \in 1 .. sizes[g]
      PROVE  /\ groups[g][i] \in CandidateRecord
             /\ groups[g][i].id = [prompt |-> g, copy |-> i]
             /\ OwnParts(groups[g][i])
  <2>1. [prompt |-> g, copy |-> i] \in Id
    <3>1. g \in 1 .. MaxPrompts /\ i \in 1 .. MaxGenerations
      <4>1. sizes[g] \in 1 .. MaxGenerations
        BY <1>1
      <4> QED
        BY <1>2, <4>1, BoundsAssumption
    <3> QED
      BY <3>1 DEF Id
  <2>2. form[<<g, i>>] \in Forms
    <3>1. <<g, i>> \in {g} \X (1 .. sizes[g])
      OBVIOUS
    <3>2. <<g, i>> \in Positions(sizes)
      BY <1>2, <3>1 DEF Positions
    <3> QED
      BY <3>2
  <2>3. groups[g][i] = FormedCandidate([prompt |-> g, copy |-> i], form[<<g, i>>])
    BY <1>2 DEF FormedGroups
  <2> HIDE DEF groups
  <2> QED
    BY <2>1, <2>2, <2>3, FormedIsOwn
<1>4. /\ DOMAIN groups = 1 .. prompts /\ groups = [g \in 1 .. prompts |-> groups[g]]
      /\ \A g \in 1 .. prompts : groups[g] = [i \in 1 .. sizes[g] |-> groups[g][i]]
  BY <1>2 DEF FormedGroups
<1> HIDE DEF groups
<1>5. /\ \A g \in 1 .. prompts :
           sizes[g] \in Nat /\ groups[g] = [i \in 1 .. sizes[g] |-> groups[g][i]]
      /\ \A g \in 1 .. prompts : \A i \in 1 .. sizes[g] :
           /\ groups[g][i] \in CandidateRecord
           /\ groups[g][i].id = [prompt |-> g, copy |-> i]
           /\ OwnParts(groups[g][i])
  BY <1>2, <1>3, <1>4
<1>6. Placed(groups)
  BY <1>2, <1>4, <1>5, PlacedWhen
<1> QED
  BY <1>6 DEF groups

\* A payload from elsewhere is in order, whichever groupings it has.
LEMMA ReceiveKeepsInv ==
    ASSUME ContractInv, NEW normalized \in Sizes, NEW outputs \in Sizes,
           Receive(normalized, outputs)
    PROVE  ContractInv'
<1>1. PICK form \in [Positions(normalized) -> Forms], other \in [Positions(outputs) -> Forms] :
        payload' = [normalized |-> FormedGroups(normalized, form),
                    outputs    |-> FormedGroups(outputs, other)]
  BY DEF Receive
<1>2. Placed(FormedGroups(normalized, form)) /\ Placed(FormedGroups(outputs, other))
  BY FormedIsPlaced
<1>3. payload = NoPayload /\ UNCHANGED <<scored, batch>>
  BY DEF Receive
<1> QED
  BY <1>1, <1>2, <1>3, NewPayload

\* The rows that are scored are the candidates with tokens of one grouping.
LEMMA RowsOfTokenGroups ==
    ASSUME NEW p PROVE ScoringRows(p) = FlattenSeq(KeepGroups(TokenGroups(p), "tokens"))
BY Zenon DEF ScoringRows, Extract, TokenGroups

\* A result changes reward and row of its candidate.
LEMMA ScoredFields ==
    ASSUME NEW c \in CandidateRecord, NEW p, NEW r, NEW parts, OwnParts(c),
           ScoringRows(p)[r] = c, Carries(c, "tokens")
    PROVE  LET d == Scored(c, p, r, parts)
           IN  /\ d \in CandidateRecord /\ OwnParts(d)
               /\ d.id = c.id /\ d.len = c.len /\ d.nested = c.nested /\ d.nestedRow = c.nestedRow
               /\ d.reward = IF "reward" \in parts THEN [by |-> "scorer", of |-> c.id] ELSE c.reward
               /\ d.row = IF "reference" \in parts
                          THEN [of |-> c.id, n |-> Smaller(c.len, ScoredLen)] ELSE c.row
<1> DEFINE reward == IF "reward" \in parts THEN [by |-> "scorer", of |-> c.id] ELSE c.reward
           row == IF "reference" \in parts
                  THEN [of |-> c.id, n |-> Smaller(c.len, ScoredLen)] ELSE c.row
           d == Scored(c, p, r, parts)
<1>1. c = [id |-> c.id, len |-> c.len, reward |-> c.reward, nested |-> c.nested, row |-> c.row,
           nestedRow |-> c.nestedRow]
      /\ c.nestedRow \in LogpRow \cup {None}
      /\ c.id \in Id /\ c.len \in Lengths /\ c.nested \in Reward \cup {None}
      /\ c.reward \in Reward \cup {None} /\ c.row \in LogpRow \cup {None}
  BY DEF CandidateRecord
<1>2. /\ c.reward # None => c.reward.of = c.id
      /\ c.nested # None => c.nested.of = c.id
      /\ c.row # None => c.row.of = c.id
      /\ c.nestedRow # None => c.nestedRow.of = c.id
  BY DEF OwnParts
<1>3. /\ ScoredReward(p, r) = [by |-> "scorer", of |-> c.id]
      /\ ScoredRow(p, r) = [of |-> c.id, n |-> Smaller(c.len, ScoredLen)]
  BY DEF ScoredReward, ScoredRow
<1>4. [by |-> "scorer", of |-> c.id] \in Reward
  BY <1>1 DEF Reward
<1>5. [of |-> c.id, n |-> Smaller(c.len, ScoredLen)] \in LogpRow
  <2>1. c.len \in Nat \ {0} /\ ScoredLen \in Nat \ {0}
    BY <1>1, LengthsAssumption, CompletionLenAssumption DEF Carries
  <2>2. Smaller(c.len, ScoredLen) \in Nat \ {0}
    BY <2>1 DEF Smaller
  <2> QED
    BY <1>1, <2>2 DEF LogpRow
<1>6. /\ reward \in Reward \cup {None} /\ (reward # None => reward.of = c.id)
      /\ row \in LogpRow \cup {None} /\ (row # None => row.of = c.id)
  BY <1>1, <1>2, <1>4, <1>5
<1>7. d = [c EXCEPT !.reward = reward, !.row = row]
  BY <1>3 DEF Scored
<1> HIDE DEF reward, row, d
<1>8. d = [id |-> c.id, len |-> c.len, reward |-> reward, nested |-> c.nested, row |-> row,
           nestedRow |-> c.nestedRow]
  BY <1>1, <1>7
<1>9. /\ d.id = c.id /\ d.len = c.len /\ d.nested = c.nested /\ d.nestedRow = c.nestedRow
      /\ d.reward = reward /\ d.row = row
  BY <1>8
<1>10. d \in CandidateRecord
  BY <1>1, <1>6, <1>8 DEF CandidateRecord
<1>11. OwnParts(d)
  BY <1>2, <1>6, <1>9 DEF OwnParts
<1> QED
  BY <1>9, <1>10, <1>11 DEF d, reward, row

\* d is what attaching makes of c: with its own result when it has tokens, and
\* otherwise as it was.
Attached(c, d, parts) ==
    /\ OwnParts(d)
    /\ d.id = c.id /\ d.len = c.len /\ d.nested = c.nested
    /\ IF Carries(c, "tokens")
       THEN /\ d.reward = IF "reward" \in parts THEN [by |-> "scorer", of |-> c.id] ELSE c.reward
            /\ d.row = IF "reference" \in parts
                       THEN [of |-> c.id, n |-> Smaller(c.len, ScoredLen)] ELSE c.row
       ELSE d = c

\* Every candidate with tokens gets its own result, the others stay as they are.
LEMMA AttachEffect ==
    ASSUME NEW p, NEW groups, groups = TokenGroups(p), Placed(groups), NEW parts
    PROVE  LET A == AttachToGroups(groups, p, parts)
           IN  /\ A \in Seq(Seq(CandidateRecord))
               /\ Places(A) = Places(groups)
               /\ \A q \in Places(groups) : Attached(groups[q[1]][q[2]], A[q[1]][q[2]], parts)
<1> DEFINE A == AttachToGroups(groups, p, parts)
           new(g, i) == IF Carries(groups[g][i], "tokens")
                        THEN Scored(groups[g][i], p, ResultIndex(groups, g, i), parts)
                        ELSE groups[g][i]
<1>1. groups \in Seq(Seq(CandidateRecord))
  BY DEF Placed
<1>2. \A g \in DOMAIN groups :
        groups[g] \in Seq(CandidateRecord) /\ DOMAIN groups[g] = 1 .. Len(groups[g]) /\ Len(groups[g]) \in Nat
  BY <1>1
<1>3. A = [g \in DOMAIN groups |-> [i \in DOMAIN groups[g] |-> new(g, i)]]
  BY DEF AttachToGroups
<1>4. ASSUME NEW q \in Places(groups)
      PROVE  /\ new(q[1], q[2]) \in CandidateRecord
             /\ Attached(groups[q[1]][q[2]], new(q[1], q[2]), parts)
  <2> DEFINE c == groups[q[1]][q[2]]
             r == ResultIndex(groups, q[1], q[2])
  <2>1. c \in CandidateRecord
    <3>1. q[1] \in DOMAIN groups /\ q[2] \in DOMAIN groups[q[1]]
      BY <1>1, PlaceParts
    <3> QED
      BY <1>2, <3>1
  <2>2. OwnParts(c)
    BY DEF Placed
  <2>3. CASE Carries(c, "tokens")
    <3>1. q \in Carrying(groups, "tokens")
      BY <2>3 DEF Carrying
    <3>2. ScoringRows(p)[r] = c
      BY <1>1, <3>1, ResultIsOfCandidate, RowsOfTokenGroups
    <3>3. new(q[1], q[2]) = Scored(c, p, r, parts)
      BY <2>3
    <3> HIDE DEF c, r, new
    <3> QED
      BY <2>1, <2>2, <2>3, <3>2, <3>3, ScoredFields DEF c, Attached
  <2>4. CASE ~ Carries(c, "tokens")
    <3>1. new(q[1], q[2]) = c
      BY <2>4
    <3> HIDE DEF c, new
    <3> QED
      BY <2>1, <2>2, <2>4, <3>1 DEF c, Attached
  <2> QED
    BY <2>3, <2>4
<1> HIDE DEF new, A
<1>5. ASSUME NEW g \in DOMAIN groups
      PROVE  /\ A[g] = [i \in DOMAIN groups[g] |-> new(g, i)]
             /\ A[g] \in Seq(CandidateRecord)
             /\ DOMAIN A[g] = DOMAIN groups[g] /\ Len(A[g]) = Len(groups[g])
  <2>1. A[g] = [i \in DOMAIN groups[g] |-> new(g, i)]
    BY <1>3
  <2>2. \A i \in DOMAIN groups[g] : new(g, i) \in CandidateRecord
    <3> SUFFICES ASSUME NEW i \in DOMAIN groups[g] PROVE new(g, i) \in CandidateRecord
      OBVIOUS
    <3>1. <<g, i>> \in Places(groups) /\ <<g, i>>[1] = g /\ <<g, i>>[2] = i
      BY <1>1, PlaceParts
    <3>2. new(<<g, i>>[1], <<g, i>>[2]) \in CandidateRecord
      BY <1>4, <3>1
    <3> QED
      BY <3>1, <3>2
  <2>3. A[g] \in [1 .. Len(groups[g]) -> CandidateRecord]
    BY <1>2, <2>1, <2>2
  <2> QED
    BY <1>2, <2>1, <2>3
<1>6. A \in Seq(Seq(CandidateRecord)) /\ DOMAIN A = DOMAIN groups
  <2>1. DOMAIN groups = 1 .. Len(groups) /\ Len(groups) \in Nat
    BY <1>1
  <2>2. A \in [1 .. Len(groups) -> Seq(CandidateRecord)]
    BY <1>3, <1>5, <2>1
  <2> QED
    BY <2>1, <2>2
<1>7. Places(A) = Places(groups)
  <2>1. [g \in DOMAIN A |-> Len(A[g])] = [g \in DOMAIN groups |-> Len(groups[g])]
    BY <1>5, <1>6
  <2> QED
    BY <2>1, Zenon DEF Places
<1>8. ASSUME NEW q \in Places(groups) PROVE A[q[1]][q[2]] = new(q[1], q[2])
  <2>1. q[1] \in DOMAIN groups /\ q[2] \in DOMAIN groups[q[1]]
    BY <1>1, PlaceParts
  <2>2. A[q[1]] = [i \in DOMAIN groups[q[1]] |-> new(q[1], i)]
    BY <1>5, <2>1
  <2> QED
    BY <2>1, <2>2
<1> QED
  BY <1>4, <1>6, <1>7, <1>8 DEF A

\* What attaching leaves alone, and what it brings about.
LEMMA AttachKeepsPlaces ==
    ASSUME NEW p, NEW groups, groups = TokenGroups(p), Placed(groups), NEW parts
    PROVE  LET A == AttachToGroups(groups, p, parts)
           IN  /\ Placed(A)
               /\ Places(A) = Places(groups)
               /\ \A q \in Places(groups) : A[q[1]][q[2]].len = groups[q[1]][q[2]].len
               /\ Carrying(A, "tokens") = Carrying(groups, "tokens")
<1> DEFINE A == AttachToGroups(groups, p, parts)
<1>1. A \in Seq(Seq(CandidateRecord)) /\ Places(A) = Places(groups)
  BY AttachEffect
<1>2. ASSUME NEW q \in Places(groups)
      PROVE  LET c == groups[q[1]][q[2]]
                 d == A[q[1]][q[2]]
             IN  OwnParts(d) /\ d.id = c.id /\ d.len = c.len
  <2>1. Attached(groups[q[1]][q[2]], A[q[1]][q[2]], parts)
    BY AttachEffect
  <2> QED
    BY <2>1 DEF Attached
<1>3. \A q \in Places(groups) : groups[q[1]][q[2]].id = [prompt |-> q[1], copy |-> q[2]]
  BY DEF Placed
<1> HIDE DEF A
<1>4. Placed(A)
  BY <1>1, <1>2, <1>3 DEF Placed
<1>5. ASSUME NEW q \in Places(groups)
      PROVE  Carries(A[q[1]][q[2]], "tokens") <=> Carries(groups[q[1]][q[2]], "tokens")
  BY <1>2 DEF Carries
<1>6. Carrying(A, "tokens") = Carrying(groups, "tokens")
  BY <1>1, <1>5 DEF Carrying
<1> QED
  BY <1>1, <1>2, <1>4, <1>6 DEF A

\* A scorer's results go to the candidates they are of, whatever was scored before.
LEMMA ScoreKeepsInv ==
    ASSUME ContractInv, NEW parts \in SUBSET {"reward", "reference"}, Score(parts)
    PROVE  ContractInv'
<1> DEFINE groups == TokenGroups(payload)
           A == AttachToGroups(groups, payload, parts)
           n == payload.normalized
           o == payload.outputs
<1>1. /\ payload = [normalized |-> n, outputs |-> o]
      /\ Placed(n) /\ Placed(o)
  BY DEF ContractInv, PayloadInv
<1>2. n \in Seq(Seq(CandidateRecord)) /\ o \in Seq(Seq(CandidateRecord))
  BY <1>1 DEF Placed
<1>3. Placed(groups) /\ groups \in Seq(Seq(CandidateRecord))
  BY <1>1, <1>2 DEF TokenGroups, Source
<1>4. Carrying(groups, "tokens") # {}
  <2>1. FlattenSeq(KeepGroups(groups, "tokens")) # <<>>
    BY RowsOfTokenGroups DEF Score
  <2>2. FlattenSeq(<<>>) = <<>>
    BY DEF FlattenSeq
  <2>3. KeepGroups(groups, "tokens") # <<>>
    BY <2>1, <2>2
  <2> HIDE DEF groups
  <2> QED
    BY <1>3, <2>3, NothingKept
<1>5. batch = None /\ batch' = None /\ scored' = scored \cup parts
      /\ payload' = Attach(payload, parts)
  BY DEF Score
<1>6. /\ Placed(A) /\ Places(A) = Places(groups)
      /\ \A q \in Places(groups) : A[q[1]][q[2]].len = groups[q[1]][q[2]].len
      /\ Carrying(A, "tokens") = Carrying(groups, "tokens")
  <2> HIDE DEF n, o
  <2> QED
    BY <1>3, AttachKeepsPlaces
<1>7. A \in Seq(Seq(CandidateRecord))
  BY <1>6 DEF Placed
<1>8. PayloadInv' /\ TokenGroups(payload') = A
  <2>1. CASE KeepGroups(n, "tokens") # <<>>
    <3>1. groups = n
      BY <2>1 DEF TokenGroups, Source
    <3>2. payload' = [normalized |-> A, outputs |-> o]
      BY <1>1, <1>5, <2>1, <3>1 DEF Attach
    <3> HIDE DEF A, n, o, groups
    <3>3. TokenGroups(payload') = A
      <4>1. KeepGroups(A, "tokens") # <<>>
        BY <1>4, <1>6, <1>7, NothingKept
      <4> QED
        BY <3>2, <4>1 DEF TokenGroups, Source
    <3> QED
      BY <1>1, <1>6, <3>2, <3>3 DEF PayloadInv
  <2>2. CASE KeepGroups(n, "tokens") = <<>>
    <3>1. groups = o
      BY <2>2 DEF TokenGroups, Source
    <3>2. payload' = [normalized |-> n, outputs |-> A]
      BY <1>1, <1>5, <2>2, <3>1 DEF Attach
    <3>3. payload.normalized = n /\ payload.outputs = o
      OBVIOUS
    <3> HIDE DEF A, n, o, groups
    <3>4. TokenGroups(payload') = A
      BY <2>2, <3>2 DEF TokenGroups, Source
    <3> QED
      BY <1>1, <1>6, <3>2, <3>4 DEF PayloadInv
  <2> QED
    BY <2>1, <2>2
<1>9. ScoresInv'
  <2>1. scored \subseteq {"reward", "reference"}
        /\ \A q \in Carrying(groups, "tokens") : HasScores(groups[q[1]][q[2]])
    BY DEF ContractInv, ScoresInv
  <2>2. ASSUME NEW q \in Carrying(groups, "tokens")
        PROVE  LET c == groups[q[1]][q[2]]
                   d == A[q[1]][q[2]]
               IN  /\ d.id = c.id /\ d.len = c.len
                   /\ d.reward = IF "reward" \in parts
                                 THEN [by |-> "scorer", of |-> c.id] ELSE c.reward
                   /\ d.row = IF "reference" \in parts
                              THEN [of |-> c.id, n |-> Smaller(c.len, ScoredLen)] ELSE c.row
    <3>1. q \in Places(groups) /\ Carries(groups[q[1]][q[2]], "tokens")
      BY DEF Carrying
    <3>2. Attached(groups[q[1]][q[2]], A[q[1]][q[2]], parts)
      BY <1>3, <3>1, AttachEffect
    <3> HIDE DEF groups, A
    <3> QED
      BY <3>1, <3>2 DEF Attached
  <2> HIDE DEF A, groups, n, o
  <2>3. ASSUME NEW q \in Carrying(A, "tokens")
        PROVE  LET d == A[q[1]][q[2]]
               IN  /\ "reward" \in scored' => d.reward = [by |-> "scorer", of |-> d.id]
                   /\ "reference" \in scored' => d.row = [of |-> d.id, n |-> Smaller(d.len, ScoredLen)]
    <3> DEFINE c == groups[q[1]][q[2]]
               d == A[q[1]][q[2]]
    <3>1. q \in Carrying(groups, "tokens")
      BY <1>6
    <3>2. HasScores(c)
      BY <2>1, <3>1
    <3>3. /\ d.id = c.id /\ d.len = c.len
          /\ d.reward = IF "reward" \in parts
                        THEN [by |-> "scorer", of |-> c.id] ELSE c.reward
          /\ d.row = IF "reference" \in parts
                     THEN [of |-> c.id, n |-> Smaller(c.len, ScoredLen)] ELSE c.row
      BY <2>2, <3>1
    <3> HIDE DEF c, d
    <3>4. /\ "reward" \in scored' => d.reward = [by |-> "scorer", of |-> d.id]
          /\ "reference" \in scored' => d.row = [of |-> d.id, n |-> Smaller(d.len, ScoredLen)]
      BY <1>5, <3>2, <3>3 DEF HasScores
    <3> QED
      BY <3>4 DEF d
  <2>4. scored' \subseteq {"reward", "reference"} /\ Carrying(A, "tokens") # {}
    BY <1>4, <1>5, <1>6, <2>1
  <2>5. TokenGroups(payload') = A
    BY <1>8
  <2> QED
    BY <2>3, <2>4, <2>5 DEF ScoresInv, HasScores
<1> QED
  BY <1>5, <1>8, <1>9 DEF ContractInv, BatchInv

\* The batch is made of the payload that stays.
LEMMA BuildKeepsInv == ContractInv /\ BuildBatch => ContractInv'
<1> SUFFICES ASSUME ContractInv, BuildBatch PROVE ContractInv'
  OBVIOUS
<1>1. payload' = payload /\ scored' = scored /\ payload # NoPayload
  BY DEF BuildBatch
<1>2. batch' = BatchOf(payload)
  BY Zenon DEF BuildBatch, BatchOf
<1>3. PayloadInv' /\ ScoresInv'
  BY <1>1 DEF ContractInv, PayloadInv, ScoresInv, HasScores
<1> QED
  BY <1>1, <1>2, <1>3 DEF ContractInv, BatchInv

\* ContractInv is inductive.
THEOREM ContractInvariant == Spec => []ContractInv
<1>1. ContractInv /\ [Next]_vars => ContractInv'
  <2> SUFFICES ASSUME ContractInv, [Next]_vars PROVE ContractInv'
    OBVIOUS
  <2>1. CASE UNCHANGED vars
    BY <2>1 DEF ContractInv, PayloadInv, ScoresInv, HasScores, BatchInv, vars
  <2> QED
    BY <2>1, GenerateKeepsInv, ReceiveKeepsInv, ScoreKeepsInv, BuildKeepsInv DEF Next
<1> QED
  BY InitContract, <1>1, PTL DEF Spec

-----------------------------------------------------------------------------
(***************************************************************************)
(* The batch.                                                              *)
(***************************************************************************)
\* The r-th row of the batch is of the candidate at at[r] of the kept groups, which
\* was at from(at[r]) of the payload.
RowsAt(at, groups) ==
    LET K == KeepGroups(groups, "tokens")
    IN  /\ at \in [1 .. Len(batch) -> Places(K)]
        /\ \A r \in 1 .. Len(batch) : batch[r] = BatchRow(payload, at[r][1], at[r][2])
        /\ \A r, t \in 1 .. Len(batch) : at[r] = at[t] => r = t
        /\ \A q \in Places(K) : \E r \in 1 .. Len(batch) : at[r] = q

LEMMA BatchIsOfKept ==
    ASSUME ContractInv, batch # None
    PROVE  /\ Len(batch) \in Nat /\ DOMAIN batch = 1 .. Len(batch)
           /\ Placed(TokenGroups(payload))
           /\ \E at : RowsAt(at, TokenGroups(payload))
<1> DEFINE groups == TokenGroups(payload)
           K == KeepGroups(groups, "tokens")
           row(g, i) == BatchRow(payload, g, i)
           S == {row(q[1], q[2]) : q \in Places(K)}
           R == [g \in DOMAIN K |-> [i \in DOMAIN K[g] |-> row(g, i)]]
<1>1. Placed(groups) /\ groups \in Seq(Seq(CandidateRecord))
  BY DEF TokenGroups, Source, ContractInv, PayloadInv, Placed
<1>2. K \in Seq(Seq(CandidateRecord))
  BY <1>1, KeepGroupsOrigins
<1>3. Extract(payload, "tokens") = K
  BY Zenon DEF Extract, TokenGroups
<1>4. batch = FlattenSeq(R)
  BY <1>3, Zenon DEF ContractInv, BatchInv, BatchOf
<1> HIDE DEF groups, K, row
<1>5. ASSUME NEW g \in DOMAIN K
      PROVE  R[g] \in Seq(S) /\ DOMAIN R[g] = DOMAIN K[g] /\ Len(R[g]) = Len(K[g])
             /\ \A i \in DOMAIN K[g] : R[g][i] = row(g, i)
  <2>1. K[g] \in Seq(CandidateRecord) /\ DOMAIN K[g] = 1 .. Len(K[g]) /\ Len(K[g]) \in Nat
    BY <1>2
  <2>2. R[g] = [i \in 1 .. Len(K[g]) |-> row(g, i)]
    BY <2>1
  <2>3. ASSUME NEW i \in 1 .. Len(K[g]) PROVE row(g, i) \in S
    <3>1. <<g, i>> \in Places(K)
      BY <1>2, <2>1, PlaceParts
    <3>2. row(<<g, i>>[1], <<g, i>>[2]) \in S
      BY <3>1
    <3> QED
      BY <3>2
  <2> HIDE DEF R, S
  <2>4. R[g] \in [1 .. Len(K[g]) -> S]
    BY <2>2, <2>3
  <2> QED
    BY <2>1, <2>2, <2>4
<1>6. R \in Seq(Seq(S)) /\ DOMAIN R = DOMAIN K
  <2>1. DOMAIN K = 1 .. Len(K) /\ Len(K) \in Nat
    BY <1>2
  <2>2. R = [g \in 1 .. Len(K) |-> R[g]] /\ DOMAIN R = 1 .. Len(K)
    BY <2>1
  <2> HIDE DEF R, S
  <2>3. R \in [1 .. Len(K) -> Seq(S)]
    BY <1>5, <2>1, <2>2
  <2> QED
    BY <2>1, <2>2, <2>3
<1> HIDE DEF R, S
<1>7. Places(R) = Places(K)
  <2>1. [g \in DOMAIN R |-> Len(R[g])] = [g \in DOMAIN K |-> Len(K[g])]
    BY <1>5, <1>6
  <2> QED
    BY <2>1, Zenon DEF Places
<1>8. batch \in Seq(S) /\ \E at : Walks(batch, at, R, Len(R))
  BY <1>4, <1>6, FlattenWalks
<1>9. PICK at : Walks(batch, at, R, Len(R))
  BY <1>8
<1>10. Len(batch) \in Nat /\ DOMAIN batch = 1 .. Len(batch)
  BY <1>8
<1>11. \A q \in Places(R) : q[1] \in DOMAIN K /\ q[2] \in DOMAIN K[q[1]] /\ q[1] <= Len(R)
       /\ q[1] \in Nat /\ q[2] \in Nat
  <2> SUFFICES ASSUME NEW q \in Places(R)
               PROVE  q[1] \in DOMAIN K /\ q[2] \in DOMAIN K[q[1]] /\ q[1] <= Len(R)
                      /\ q[1] \in Nat /\ q[2] \in Nat
    OBVIOUS
  <2>1. q[1] \in DOMAIN K /\ q[2] \in DOMAIN K[q[1]]
    BY <1>2, <1>7, PlaceParts
  <2>2. DOMAIN R = 1 .. Len(R) /\ Len(R) \in Nat
    BY <1>6
  <2>3. K[q[1]] \in Seq(CandidateRecord)
    BY <1>2, <2>1
  <2> QED
    BY <1>6, <2>1, <2>2, <2>3
<1>12. /\ at \in [1 .. Len(batch) -> Places(K)]
       /\ \A r \in 1 .. Len(batch) : batch[r] = R[at[r][1]][at[r][2]]
       /\ \A r, t \in 1 .. Len(batch) : r < t => Before(at[r], at[t])
       /\ \A q \in Places(K) : \E r \in 1 .. Len(batch) : at[r] = q
  BY <1>7, <1>9, <1>11 DEF Walks
<1>13. ASSUME NEW r \in 1 .. Len(batch) PROVE batch[r] = row(at[r][1], at[r][2])
  <2>1. at[r] \in Places(R)
    BY <1>7, <1>12
  <2> QED
    BY <1>5, <1>11, <1>12, <2>1
<1>14. ASSUME NEW r \in 1 .. Len(batch), NEW t \in 1 .. Len(batch), at[r] = at[t] PROVE r = t
  <2>1. at[r] \in Places(R)
    BY <1>7, <1>12
  <2>2. ~ Before(at[r], at[r])
    BY <1>11, <2>1 DEF Before
  <2> QED
    BY <1>10, <1>12, <1>14, <2>2
<1>15. RowsAt(at, groups)
  BY <1>12, <1>13, <1>14 DEF RowsAt, K, row
<1> QED
  BY <1>1, <1>10, <1>15 DEF groups

\* The same, with from[r] the place in the payload of the candidate of the r-th row.
RowsFrom(at, from, groups) ==
    LET K == KeepGroups(groups, "tokens")
        rows == 1 .. Len(batch)
    IN  /\ at \in [rows -> Places(K)] /\ from \in [rows -> Carrying(groups, "tokens")]
        /\ \A r \in rows : /\ batch[r] = BatchRow(payload, at[r][1], at[r][2])
                           /\ K[at[r][1]][at[r][2]] = groups[from[r][1]][from[r][2]]
        /\ \A r, t \in rows : from[r] = from[t] => r = t
        /\ \A r, t \in rows : at[r][1] = at[t][1] <=> from[r][1] = from[t][1]
        /\ \A c \in Carrying(groups, "tokens") : \E r \in rows : from[r] = c

\* Every candidate with tokens of the grouping has a row of the batch, and one only.
LEMMA BatchIsOfCarriers ==
    ASSUME ContractInv, batch # None
    PROVE  \E at, from : RowsFrom(at, from, TokenGroups(payload))
<1> DEFINE groups == TokenGroups(payload)
           K == KeepGroups(groups, "tokens")
           C == Carrying(groups, "tokens")
           origin(q) == Origin(groups, "tokens", q)
<1>1. groups \in Seq(Seq(CandidateRecord))
  BY BatchIsOfKept DEF Placed
<1>2. PICK at : RowsAt(at, groups)
  BY BatchIsOfKept
<1>3. K \in Seq(Seq(CandidateRecord))
  BY <1>1, KeepGroupsOrigins
<1>4. \A q \in Places(K) : origin(q) \in C /\ K[q[1]][q[2]] = groups[origin(q)[1]][origin(q)[2]]
  BY <1>1, KeepGroupsOrigins
<1>5. \A a, b \in Places(K) : Before(a, b) => Before(origin(a), origin(b))
  BY <1>1, KeepGroupsOrigins
<1>6. \A a, b \in Places(K) : a[1] = b[1] <=> origin(a)[1] = origin(b)[1]
  BY <1>1, KeepGroupsOrigins
<1>7. \A c \in C : \E q \in Places(K) : origin(q) = c
  BY <1>1, KeepGroupsOrigins
<1>8. \A c \in C : c[1] \in Nat /\ c[2] \in Nat
  <2> HIDE DEF groups
  <2> QED
    BY <1>1, CarryingNumbers
<1>9. ASSUME NEW q \in Places(K) PROVE q[1] \in Nat /\ q[2] \in Nat /\ q = <<q[1], q[2]>>
  <2> HIDE DEF K
  <2>1. q[1] \in DOMAIN K /\ q[2] \in DOMAIN K[q[1]] /\ q = <<q[1], q[2]>>
    BY <1>3, PlaceParts
  <2>2. K[q[1]] \in Seq(CandidateRecord)
    BY <1>3, <2>1
  <2> QED
    BY <1>3, <2>1, <2>2
<1>10. /\ at \in [1 .. Len(batch) -> Places(K)]
       /\ \A r \in 1 .. Len(batch) : batch[r] = BatchRow(payload, at[r][1], at[r][2])
       /\ \A r, t \in 1 .. Len(batch) : at[r] = at[t] => r = t
       /\ \A q \in Places(K) : \E r \in 1 .. Len(batch) : at[r] = q
  BY <1>2, Zenon DEF RowsAt
<1> DEFINE from == [r \in 1 .. Len(batch) |-> origin(at[r])]
<1> HIDE DEF groups, K, C, origin
<1>11. from \in [1 .. Len(batch) -> C] /\ \A r \in 1 .. Len(batch) : from[r] = origin(at[r])
  BY <1>4, <1>10
<1> HIDE DEF from
<1>12. ASSUME NEW r \in 1 .. Len(batch), NEW t \in 1 .. Len(batch), from[r] = from[t]
       PROVE  r = t
  <2>1. at[r] \in Places(K) /\ at[t] \in Places(K) /\ origin(at[r]) = origin(at[t])
        /\ origin(at[r]) \in C
    BY <1>10, <1>11, <1>12
  <2>2. ~ Before(origin(at[r]), origin(at[r]))
    BY <1>8, <2>1 DEF Before
  <2>3. ~ Before(at[r], at[t]) /\ ~ Before(at[t], at[r])
    BY <1>5, <2>1, <2>2
  <2>4. at[r] = at[t]
    BY <1>9, <2>1, <2>3 DEF Before
  <2> QED
    BY <1>10, <2>4
<1>13. \A r, t \in 1 .. Len(batch) : at[r][1] = at[t][1] <=> from[r][1] = from[t][1]
  BY <1>6, <1>10, <1>11
<1>14. ASSUME NEW c \in C PROVE \E r \in 1 .. Len(batch) : from[r] = c
  <2>1. PICK q \in Places(K) : origin(q) = c
    BY <1>7
  <2> QED
    BY <1>10, <1>11, <2>1
<1>15. \A r \in 1 .. Len(batch) : K[at[r][1]][at[r][2]] = groups[from[r][1]][from[r][2]]
  BY <1>4, <1>10, <1>11
<1>16. RowsFrom(at, from, groups)
  BY <1>10, <1>11, <1>12, <1>13, <1>14, <1>15, Zenon DEF RowsFrom, K, C
<1> QED
  BY <1>16 DEF groups

\* The r-th row is written for the candidate at from[r], which is kept at at[r].
RowIsOf(r, at, from, groups) ==
    LET c == groups[from[r][1]][from[r][2]]
    IN  /\ from[r] \in Carrying(groups, "tokens") /\ from[r] \in Places(groups)
        /\ c \in CandidateRecord /\ OwnParts(c) /\ Carries(c, "tokens")
        /\ c.id = [prompt |-> from[r][1], copy |-> from[r][2]]
        /\ batch[r].of = c.id /\ batch[r].group = at[r][1]
        /\ batch[r] = BatchRow(payload, at[r][1], at[r][2])
        /\ Extract(payload, "tokens")[at[r][1]][at[r][2]] = c

LEMMA RowParts ==
    ASSUME ContractInv, batch # None,
           NEW at, NEW from, RowsFrom(at, from, TokenGroups(payload)),
           NEW r \in DOMAIN batch
    PROVE  RowIsOf(r, at, from, TokenGroups(payload))
<1> DEFINE groups == TokenGroups(payload)
           K == KeepGroups(groups, "tokens")
           c == groups[from[r][1]][from[r][2]]
<1>1. Placed(groups) /\ r \in 1 .. Len(batch)
  BY BatchIsOfKept
<1>2. Extract(payload, "tokens") = K
  BY Zenon DEF Extract, TokenGroups
<1>3. from[r] \in Carrying(groups, "tokens") /\ batch[r] = BatchRow(payload, at[r][1], at[r][2])
      /\ K[at[r][1]][at[r][2]] = c
  BY <1>1, Zenon DEF RowsFrom
<1> HIDE DEF groups, K
<1>4. from[r] \in Places(groups) /\ Carries(c, "tokens")
  BY <1>3 DEF Carrying
<1>5. c.id = [prompt |-> from[r][1], copy |-> from[r][2]] /\ OwnParts(c)
  BY <1>1, <1>4 DEF Placed
<1>6. c \in CandidateRecord
  <2>1. groups \in Seq(Seq(CandidateRecord))
    BY <1>1 DEF Placed
  <2>2. from[r][1] \in DOMAIN groups /\ from[r][2] \in DOMAIN groups[from[r][1]]
    BY <1>4, <2>1, PlaceParts
  <2>3. groups[from[r][1]] \in Seq(CandidateRecord)
    BY <2>1, <2>2
  <2> QED
    BY <2>2, <2>3
<1>7. batch[r].of = c.id /\ batch[r].group = at[r][1]
  BY <1>2, <1>3 DEF BatchRow
<1> QED
  BY <1>2, <1>3, <1>4, <1>5, <1>6, <1>7, Zenon DEF groups, RowIsOf

\* What a batch should be made of is what is kept for its tokens.
LEMMA TrainableOfTokenGroups ==
    ASSUME PayloadInv
    PROVE  LET groups == TokenGroups(payload)
           IN  Trainable = {groups[q[1]][q[2]] : q \in Carrying(groups, "tokens")}
<1> DEFINE n == payload.normalized
           o == payload.outputs
           carriers(groups) == {groups[q[1]][q[2]] : q \in Carrying(groups, "tokens")}
<1>1. n \in Seq(Seq(CandidateRecord)) /\ o \in Seq(Seq(CandidateRecord))
  BY DEF PayloadInv, Placed
<1>2. ASSUME NEW groups PROVE WithTokens(groups) = carriers(groups)
  BY DEF WithTokens, CandidatesOf, Carrying
<1> HIDE DEF n, o
<1>3. KeepGroups(n, "tokens") = <<>> <=> Carrying(n, "tokens") = {}
  BY <1>1, NothingKept
<1>4. WithTokens(n) = {} <=> KeepGroups(n, "tokens") = <<>>
  BY <1>2, <1>3
<1>5. TokenGroups(payload) = IF KeepGroups(n, "tokens") # <<>> THEN n ELSE o
  BY DEF TokenGroups, Source, n, o
<1>6. Trainable = IF WithTokens(n) # {} THEN WithTokens(n) ELSE WithTokens(o)
  BY DEF Trainable, n, o
<1>7. Trainable = carriers(TokenGroups(payload))
  BY <1>2, <1>4, <1>5, <1>6
<1> QED
  BY <1>7

\* Dropping candidates and whole groups on the way neither loses, doubles nor
\* regroups what is trained on.
LEMMA GroupsArePromptsHolds == ContractInv => GroupsArePrompts
<1> SUFFICES ASSUME ContractInv, batch # None
             PROVE  /\ \A r, s \in DOMAIN batch : batch[r].of = batch[s].of => r = s
                    /\ \A r, s \in Rows : r.group = s.group <=> r.of.prompt = s.of.prompt
                    /\ {row.of : row \in Rows} = {c.id : c \in Trainable}
  BY DEF GroupsArePrompts
<1> DEFINE groups == TokenGroups(payload)
           C == Carrying(groups, "tokens")
<1>1. DOMAIN batch = 1 .. Len(batch) /\ Placed(groups) /\ PayloadInv
  BY BatchIsOfKept DEF ContractInv
<1>2. groups \in Seq(Seq(CandidateRecord))
  BY <1>1 DEF Placed
<1>3. PICK at, from : RowsFrom(at, from, groups)
  BY BatchIsOfCarriers
<1>4. \A r \in DOMAIN batch :
        /\ from[r] \in C /\ from[r] \in Places(groups)
        /\ batch[r].of = groups[from[r][1]][from[r][2]].id
        /\ batch[r].of = [prompt |-> from[r][1], copy |-> from[r][2]]
        /\ batch[r].group = at[r][1]
        /\ Carries(groups[from[r][1]][from[r][2]], "tokens")
  <2>1. \A r \in DOMAIN batch : RowIsOf(r, at, from, groups)
    BY <1>3, RowParts
  <2> HIDE DEF groups
  <2> QED
    BY <2>1 DEF RowIsOf
<1>5. /\ \A r, t \in DOMAIN batch : from[r] = from[t] => r = t
      /\ \A r, t \in DOMAIN batch : at[r][1] = at[t][1] <=> from[r][1] = from[t][1]
      /\ \A q \in C : \E r \in DOMAIN batch : from[r] = q
  BY <1>1, <1>3, Zenon DEF RowsFrom
<1>6. \A q \in C : q = <<q[1], q[2]>>
  <2> HIDE DEF groups
  <2> QED
    BY <1>2, CarryingNumbers
<1>7. Rows = {batch[r] : r \in DOMAIN batch}
  BY DEF Rows, ToSet
<1>8. Trainable = {groups[q[1]][q[2]] : q \in C}
  BY <1>1, TrainableOfTokenGroups
<1> HIDE DEF groups, C
<1>14. ASSUME NEW r \in DOMAIN batch
       PROVE  batch[r].of.prompt = from[r][1] /\ batch[r].of.copy = from[r][2]
  <2> DEFINE id == [prompt |-> from[r][1], copy |-> from[r][2]]
  <2>1. batch[r].of = id
    BY <1>4
  <2>2. id.prompt = from[r][1] /\ id.copy = from[r][2]
    OBVIOUS
  <2> HIDE DEF id
  <2> QED
    BY <2>1, <2>2
<1>9. ASSUME NEW r \in DOMAIN batch, NEW s \in DOMAIN batch, batch[r].of = batch[s].of
      PROVE  r = s
  <2>1. from[r][1] = from[s][1] /\ from[r][2] = from[s][2]
    BY <1>9, <1>14
  <2>2. from[r] = from[s]
    BY <1>4, <1>6, <2>1
  <2> QED
    BY <1>5, <2>2
<1>10. ASSUME NEW r \in Rows, NEW s \in Rows
       PROVE  r.group = s.group <=> r.of.prompt = s.of.prompt
  <2>1. PICK i \in DOMAIN batch, j \in DOMAIN batch : r = batch[i] /\ s = batch[j]
    BY <1>7
  <2>2. r.of.prompt = from[i][1] /\ s.of.prompt = from[j][1]
    BY <1>14, <2>1
  <2>3. r.group = at[i][1] /\ s.group = at[j][1]
    BY <1>4, <2>1, Zenon
  <2> QED
    BY <1>5, <2>2, <2>3
<1>11. ASSUME NEW row \in Rows PROVE \E d \in Trainable : row.of = d.id
  <2>1. PICK r \in DOMAIN batch : row = batch[r]
    BY <1>7
  <2>2. groups[from[r][1]][from[r][2]] \in Trainable
    BY <1>4, <1>8, <2>1
  <2> QED
    BY <1>4, <2>1, <2>2
<1>12. ASSUME NEW d \in Trainable PROVE \E row \in Rows : row.of = d.id
  <2>1. PICK q \in C : groups[q[1]][q[2]] = d
    BY <1>8
  <2>2. PICK r \in DOMAIN batch : from[r] = q
    BY <1>5
  <2> QED
    BY <1>4, <1>7, <2>1, <2>2
<1>13. {row.of : row \in Rows} = {d.id : d \in Trainable}
  BY <1>11, <1>12
<1> QED
  BY <1>9, <1>10, <1>13

\* Every candidate with tokens of the grouping in use is trained on once, and the
\* rows over which advantages are normalised together are those of one prompt (_batch_from_candidate_groups after extract_rollout_candidate_groups).
THEOREM GroupsStayPrompts == Spec => []GroupsArePrompts
BY ContractInvariant, GroupsArePromptsHolds, PTL

-----------------------------------------------------------------------------
(***************************************************************************)
(* Rewards and log-probabilities of the batch.                             *)
(***************************************************************************)
\* The same candidates, in two groupings that may differ in all else: dropping the
\* others puts them at the same places.
LEMMA SameCarriersSameOrigins ==
    ASSUME NEW S, NEW groups \in Seq(Seq(S)), NEW others \in Seq(Seq(S)), NEW part1, NEW part2,
           Carrying(groups, part1) = Carrying(others, part2),
           NEW q \in Places(KeepGroups(groups, part1)),
           SameShape(KeepGroups(groups, part1), KeepGroups(others, part2))
    PROVE  LET K == KeepGroups(groups, part1)
               L == KeepGroups(others, part2)
               from == Origin(groups, part1, q)
           IN  /\ q \in Places(L)
               /\ from \in Carrying(groups, part1) /\ from \in Carrying(others, part2)
               /\ K[q[1]][q[2]] = groups[from[1]][from[2]]
               /\ L[q[1]][q[2]] = others[from[1]][from[2]]
<1> DEFINE K == KeepGroups(groups, part1)
           L == KeepGroups(others, part2)
           W1 == GroupsWith(groups, part1)
           W2 == GroupsWith(others, part2)
<1>1. W1 = W2
  <2>1. \A g : g \in W1 <=> \E i : <<g, i>> \in Carrying(groups, part1)
    BY CarryingParts DEF GroupsWith
  <2>2. \A g : g \in W2 <=> \E i : <<g, i>> \in Carrying(others, part2)
    BY CarryingParts DEF GroupsWith
  <2> QED
    BY <2>1, <2>2
<1>2. ASSUME NEW g \in W1 PROVE KeptIn(groups[g], part1) = KeptIn(others[g], part2)
  <2>1. \A i : i \in KeptIn(groups[g], part1) <=> <<g, i>> \in Carrying(groups, part1)
    BY CarryingParts
  <2>2. \A i : i \in KeptIn(others[g], part2) <=> <<g, i>> \in Carrying(others, part2)
    BY <1>1, CarryingParts
  <2> QED
    BY <2>1, <2>2
<1>3. K \in Seq(Seq(S)) /\ L \in Seq(Seq(S))
  BY KeepGroupsOrigins
<1>4. Origin(groups, part1, q) \in Carrying(groups, part1)
      /\ K[q[1]][q[2]] = groups[Origin(groups, part1, q)[1]][Origin(groups, part1, q)[2]]
  BY KeepGroupsOrigins
<1>5. q \in Places(L)
  <2>1. SameShape(K, L)
    OBVIOUS
  <2>2. q = <<q[1], q[2]>> /\ q[1] \in DOMAIN K /\ q[2] \in DOMAIN K[q[1]]
    BY <1>3, PlaceParts
  <2> HIDE DEF K, L
  <2>3. q[1] \in DOMAIN L /\ Len(L[q[1]]) = Len(K[q[1]])
    BY <1>3, <2>1, <2>2 DEF SameShape
  <2>4. K[q[1]] \in Seq(S) /\ L[q[1]] \in Seq(S)
    BY <1>3, <2>2, <2>3
  <2>5. q[2] \in DOMAIN L[q[1]]
    BY <2>2, <2>3, <2>4
  <2> QED
    BY <1>3, <2>2, <2>3, <2>5, PlaceParts
<1>6. L[q[1]][q[2]] = others[Origin(others, part2, q)[1]][Origin(others, part2, q)[2]]
  BY <1>5, KeepGroupsOrigins
<1>7. Origin(others, part2, q) = Origin(groups, part1, q)
  <2>1. Ascending(W1)[q[1]] \in W1
    <3>1. q[1] \in DOMAIN K
      BY <1>3, PlaceParts
    <3> QED
      BY <3>1, KeepGroupsItems
  <2> DEFINE h == Ascending(W1)[q[1]]
  <2>2. KeptIn(groups[h], part1) = KeptIn(others[h], part2)
    BY <1>2, <2>1
  <2>3. Origin(groups, part1, q) = <<h, Ascending(KeptIn(groups[h], part1))[q[2]]>>
    BY DEF Origin
  <2>4. Origin(others, part2, q) = <<h, Ascending(KeptIn(others[h], part2))[q[2]]>>
    BY <1>1 DEF Origin
  <2> QED
    BY <2>2, <2>3, <2>4
<1> QED
  BY <1>4, <1>5, <1>6, <1>7

\* A part that only candidates with tokens have and that matches the candidates in
\* shape is, at every place, the part of the candidate there.
LEMMA MatchingPartsAreOwn ==
    ASSUME PayloadInv, PartsHaveTokens, NEW part \in {"reward", "reference"},
           SameShape(Extract(payload, "tokens"), Extract(payload, part)),
           NEW q \in Places(Extract(payload, "tokens"))
    PROVE  LET c == Extract(payload, "tokens")[q[1]][q[2]]
               d == Extract(payload, part)[q[1]][q[2]]
           IN  d.id = c.id /\ OwnParts(d) /\ Carries(d, part)
<1> DEFINE groups == Source(payload, "tokens")
           others == Source(payload, part)
           K == KeepGroups(groups, "tokens")
           L == KeepGroups(others, part)
           from == Origin(groups, "tokens", q)
<1>1. Placed(groups) /\ Placed(others)
  BY DEF PayloadInv, Source
<1>2. groups \in Seq(Seq(CandidateRecord)) /\ others \in Seq(Seq(CandidateRecord))
  BY <1>1 DEF Placed
<1>3. Extract(payload, "tokens") = K /\ Extract(payload, part) = L
  BY DEF Extract
<1>4. Carrying(others, part) \subseteq Carrying(groups, "tokens")
  BY DEF PartsHaveTokens
<1> HIDE DEF groups, others
<1>5. Carrying(others, part) = Carrying(groups, "tokens")
  BY <1>2, <1>3, <1>4, SameShapeSameCarriers
<1>6. /\ from \in Carrying(groups, "tokens") /\ from \in Carrying(others, part)
      /\ K[q[1]][q[2]] = groups[from[1]][from[2]]
      /\ L[q[1]][q[2]] = others[from[1]][from[2]]
  BY <1>2, <1>3, <1>5, SameCarriersSameOrigins
<1> HIDE DEF K, L, from
<1>7. from \in Places(groups) /\ from \in Places(others)
      /\ Carries(others[from[1]][from[2]], part)
  BY <1>6 DEF Carrying
<1>8. groups[from[1]][from[2]].id = others[from[1]][from[2]].id
      /\ OwnParts(others[from[1]][from[2]])
  BY <1>1, <1>7 DEF Placed
<1> QED
  BY <1>3, <1>6, <1>7, <1>8

\* A part that every candidate with tokens has is taken from the grouping of the
\* tokens, and from its candidates with tokens.
LEMMA ScoredPartsAreTaken ==
    ASSUME PayloadInv, TokenlessBare, NEW part \in {"reward", "reference"},
           LET groups == TokenGroups(payload)
           IN  /\ Carrying(groups, "tokens") # {}
               /\ Carrying(groups, "tokens") \subseteq Carrying(groups, part)
    PROVE  LET groups == TokenGroups(payload)
           IN  /\ Extract(payload, part) = Extract(payload, "tokens")
               /\ Carrying(groups, part) = Carrying(groups, "tokens")
<1> DEFINE groups == TokenGroups(payload)
           n == payload.normalized
           o == payload.outputs
<1>1. n \in Seq(Seq(CandidateRecord)) /\ o \in Seq(Seq(CandidateRecord))
  BY DEF PayloadInv, Placed
<1>2. ASSUME NEW some \in {n, o}, NEW q \in Carrying(some, part)
      PROVE  q \in Carrying(some, "tokens")
  <2>1. q \in Places(some) /\ Carries(some[q[1]][q[2]], part)
    BY DEF Carrying
  <2>2. some[q[1]][q[2]] \in AllCandidates
    BY <2>1 DEF AllCandidates, CandidatesOf
  <2>3. Carries(some[q[1]][q[2]], "tokens")
    BY <2>1, <2>2 DEF TokenlessBare
  <2> QED
    BY <2>1, <2>3 DEF Carrying
<1>3. groups = IF KeepGroups(n, "tokens") # <<>> THEN n ELSE o
  BY DEF TokenGroups, Source
<1>4. /\ Source(payload, part) = IF KeepGroups(n, part) # <<>> THEN n ELSE o
      /\ Extract(payload, part) = KeepGroups(Source(payload, part), part)
      /\ Extract(payload, "tokens") = KeepGroups(groups, "tokens")
  BY DEF Source, Extract, TokenGroups
<1>5. Carrying(groups, "tokens") # {} /\ Carrying(groups, "tokens") \subseteq Carrying(groups, part)
  OBVIOUS
<1> HIDE DEF n, o, groups
<1>6. groups \in {n, o} /\ groups \in Seq(Seq(CandidateRecord))
  BY <1>1, <1>3
<1>7. Carrying(groups, part) = Carrying(groups, "tokens")
  BY <1>2, <1>5, <1>6
<1>8. Source(payload, part) = groups
  <2>1. CASE KeepGroups(n, "tokens") # <<>>
    <3>1. groups = n /\ Carrying(n, part) # {}
      BY <1>3, <1>5, <2>1
    <3>2. KeepGroups(n, part) # <<>>
      BY <1>1, <3>1, NothingKept
    <3> QED
      BY <1>4, <3>1, <3>2
  <2>2. CASE KeepGroups(n, "tokens") = <<>>
    <3>1. Carrying(n, "tokens") = {}
      BY <1>1, <2>2, NothingKept
    <3>2. Carrying(n, part) = {}
      BY <1>2, <3>1
    <3>3. KeepGroups(n, part) = <<>>
      BY <1>1, <3>2, NothingKept
    <3> QED
      BY <1>3, <1>4, <2>2, <3>3
  <2> QED
    BY <2>1, <2>2
<1>9. KeepGroups(groups, part) = KeepGroups(groups, "tokens")
  BY <1>6, <1>7, SameCarriersSameGroups
<1> QED
  BY <1>4, <1>7, <1>8, <1>9 DEF groups

\* A row of the batch written out.
LEMMA RowFields ==
    ASSUME NEW g, NEW i
    PROVE  LET row == BatchRow(payload, g, i)
           IN  /\ row.reward = IF RewardsMatch(payload)
                               THEN RewardOf(Extract(payload, "reward")[g][i])
                               ELSE [by |-> "proxy", of |-> Extract(payload, "tokens")[g][i].id]
               /\ row.reference = IF ReferencesMatch(payload)
                                  THEN RowOf(Extract(payload, "reference")[g][i]) ELSE None
               /\ row.active = Smaller(Extract(payload, "tokens")[g][i].len,
                                       BatchLen(Extract(payload, "tokens")))
BY DEF BatchRow

\* Rewards and log-probabilities stay with their candidate.
LEMMA RowsKeepTheirOwnHolds == ContractInv => RowsKeepTheirOwn
<1> SUFFICES ASSUME ContractInv, batch # None, PartsHaveTokens, NEW row \in Rows
             PROVE  /\ row.reward.of = row.of
                    /\ row.reference # None => row.reference.of = row.of
  BY DEF RowsKeepTheirOwn
<1> DEFINE groups == TokenGroups(payload)
<1>1. PICK r \in DOMAIN batch : row = batch[r]
  BY DEF Rows, ToSet
<1>2. PICK at, from : RowsFrom(at, from, groups)
  BY BatchIsOfCarriers
<1> DEFINE c == groups[from[r][1]][from[r][2]]
           g == at[r][1]
           i == at[r][2]
<1>3. /\ from[r] \in Carrying(groups, "tokens") /\ from[r] \in Places(groups)
      /\ c \in CandidateRecord /\ OwnParts(c)
      /\ row.of = c.id /\ row = BatchRow(payload, g, i)
      /\ Extract(payload, "tokens")[g][i] = c
  <2>1. RowIsOf(r, at, from, groups)
    BY <1>2, RowParts
  <2> HIDE DEF groups
  <2> QED
    BY <1>1, <2>1 DEF RowIsOf
<1>4. PayloadInv
  BY DEF ContractInv
<1>5. at[r] \in Places(Extract(payload, "tokens"))
  <2>1. r \in 1 .. Len(batch) /\ Extract(payload, "tokens") = KeepGroups(groups, "tokens")
    BY BatchIsOfKept, Zenon DEF Extract, TokenGroups
  <2> HIDE DEF groups
  <2> QED
    BY <1>2, <2>1 DEF RowsFrom
<1> DEFINE of(part) == Extract(payload, part)[g][i]
<1>6. ASSUME NEW part \in {"reward", "reference"},
             SameShape(Extract(payload, "tokens"), Extract(payload, part))
      PROVE  of(part).id = c.id /\ OwnParts(of(part)) /\ Carries(of(part), part)
  <2> HIDE DEF groups, c
  <2>1. LET d == Extract(payload, part)[at[r][1]][at[r][2]]
        IN  /\ d.id = Extract(payload, "tokens")[at[r][1]][at[r][2]].id
            /\ OwnParts(d) /\ Carries(d, part)
    BY <1>4, <1>5, <1>6, MatchingPartsAreOwn
  <2> QED
    BY <1>3, <2>1
<1> HIDE DEF g, i, groups, c
<1>7. row.reward.of = c.id
  <2>1. CASE RewardsMatch(payload)
    <3>1. of("reward").id = c.id /\ OwnParts(of("reward")) /\ Carries(of("reward"), "reward")
      BY <1>6, <2>1 DEF RewardsMatch
    <3>2. row.reward = RewardOf(of("reward"))
      BY <1>3, <2>1, RowFields
    <3> HIDE DEF of
    <3>3. RewardOf(of("reward")) # None
      BY <3>1 DEF Carries
    <3> QED
      BY <3>1, <3>2, <3>3 DEF OwnParts, RewardOf
  <2>2. CASE ~ RewardsMatch(payload)
    <3>1. row.reward = [by |-> "proxy", of |-> c.id]
      BY <1>3, <2>2, RowFields
    <3> QED
      BY <3>1
  <2> QED
    BY <2>1, <2>2
<1>8. ASSUME row.reference # None PROVE row.reference.of = c.id
  <2>1. ReferencesMatch(payload)
    BY <1>3, <1>8, RowFields
  <2>2. of("reference").id = c.id /\ OwnParts(of("reference"))
    BY <1>6, <2>1 DEF ReferencesMatch
  <2>3. row.reference = RowOf(of("reference"))
    BY <1>3, <2>1, RowFields
  <2> HIDE DEF of
  <2> QED
    BY <1>8, <2>2, <2>3 DEF OwnParts, RowOf
<1> QED
  BY <1>3, <1>7, <1>8

\* What a row is trained on is its own candidate's, for payloads with one or two
\* groupings of any shapes, as long as no reward or row that a walk finds is of a
\* candidate without tokens: equal shapes then mean that the walks of
\* extract_rollout_* kept the same candidates (_reward_groups_match,
\* _reference_logp_groups_match).
THEOREM RowsTrainOnTheirOwn == Spec => []RowsKeepTheirOwn
BY ContractInvariant, RowsKeepTheirOwnHolds, PTL

\* A candidate that has been scored.
LEMMA ScoredCandidate ==
    ASSUME ContractInv, NEW q \in Carrying(TokenGroups(payload), "tokens")
    PROVE  LET c == TokenGroups(payload)[q[1]][q[2]]
           IN  /\ c \in CandidateRecord /\ c.len \in Nat
               /\ "reward" \in scored => c.reward = [by |-> "scorer", of |-> c.id] /\ c.reward # None
               /\ "reference" \in scored =>
                    /\ c.row = [of |-> c.id, n |-> Smaller(c.len, ScoredLen)]
                    /\ c.row.n = Smaller(c.len, ScoredLen)
                    /\ Carries(c, "reference") /\ (c.nestedRow = None => RowOf(c) = c.row)
<1> DEFINE groups == TokenGroups(payload)
           c == groups[q[1]][q[2]]
<1>1. groups \in Seq(Seq(CandidateRecord))
  BY DEF TokenGroups, Source, ContractInv, PayloadInv, Placed
<1>2. HasScores(c) /\ q \in Places(groups) /\ Carries(c, "tokens")
  BY DEF ContractInv, ScoresInv, Carrying
<1> HIDE DEF groups
<1>3. c \in CandidateRecord
  <2>1. q[1] \in DOMAIN groups /\ q[2] \in DOMAIN groups[q[1]]
    BY <1>1, <1>2, PlaceParts
  <2>2. groups[q[1]] \in Seq(CandidateRecord)
    BY <1>1, <2>1
  <2> QED
    BY <2>1, <2>2
<1> HIDE DEF c
<1>4. c.id \in Id /\ c.len \in Nat \ {0}
  <2>1. c.id \in Id /\ c.len \in Lengths
    BY <1>3 DEF CandidateRecord
  <2>2. c.len > 0
    BY <1>2 DEF Carries
  <2>3. c.len \in Nat
    BY <2>1, LengthsAssumption
  <2> QED
    BY <2>1, <2>2, <2>3
<1>5. [by |-> "scorer", of |-> c.id] # None
  <2>1. [by |-> "scorer", of |-> c.id] \in Reward
    BY <1>4 DEF Reward
  <2> QED
    BY <2>1, NoneAssumption
<1> DEFINE row == [of |-> c.id, n |-> Smaller(c.len, ScoredLen)]
<1>6. row # None /\ row.n = Smaller(c.len, ScoredLen)
  <2>1. Smaller(c.len, ScoredLen) \in Nat \ {0}
    BY <1>4, CompletionLenAssumption DEF Smaller
  <2>2. row \in LogpRow
    BY <1>4, <2>1 DEF LogpRow
  <2> QED
    BY <2>2, NoneAssumption
<1>7. "reference" \in scored => c.row = row
  BY <1>2 DEF HasScores
<1> HIDE DEF row
<1>8. "reference" \in scored =>
        Carries(c, "reference") /\ c.row.n = Smaller(c.len, ScoredLen)
          /\ (c.nestedRow = None => RowOf(c) = c.row)
  BY <1>6, <1>7 DEF Carries, RowOf
<1>9. "reward" \in scored => c.reward = [by |-> "scorer", of |-> c.id] /\ c.reward # None
  BY <1>2, <1>5 DEF HasScores
<1> QED
  BY <1>3, <1>4, <1>7, <1>8, <1>9 DEF c, groups, row

\* What a scorer has attached matches the candidates and is trained on.
LEMMA ScoredRewardsTrainedHolds == ContractInv => ScoredRewardsTrained
<1> SUFFICES ASSUME ContractInv, batch # None, "reward" \in scored, TokenlessBare,
                    \A c \in AllCandidates : c.nested = None, NEW row \in Rows
             PROVE  row.reward.by = "scorer"
  BY DEF ScoredRewardsTrained
<1> DEFINE groups == TokenGroups(payload)
<1>1. PICK r \in DOMAIN batch : row = batch[r]
  BY DEF Rows, ToSet
<1>2. PICK at, from : RowsFrom(at, from, groups)
  BY BatchIsOfCarriers
<1> DEFINE c == groups[from[r][1]][from[r][2]]
           g == at[r][1]
           i == at[r][2]
<1>3. /\ from[r] \in Carrying(groups, "tokens")
      /\ row = BatchRow(payload, g, i)
      /\ Extract(payload, "tokens")[g][i] = c
  <2>1. RowIsOf(r, at, from, groups)
    BY <1>2, RowParts
  <2> HIDE DEF groups
  <2> QED
    BY <1>1, <2>1 DEF RowIsOf
<1>4. ASSUME NEW q \in Carrying(groups, "tokens")
      PROVE  LET d == groups[q[1]][q[2]]
             IN  RewardOf(d) = [by |-> "scorer", of |-> d.id] /\ q \in Carrying(groups, "reward")
  <2> DEFINE d == groups[q[1]][q[2]]
  <2>1. d.reward = [by |-> "scorer", of |-> d.id] /\ d.reward # None
    BY ScoredCandidate
  <2>2. q \in Places(groups)
    BY DEF Carrying
  <2>3. d \in AllCandidates
    BY <2>2 DEF AllCandidates, CandidatesOf, TokenGroups, Source
  <2> HIDE DEF groups
  <2>4. d.nested = None
    BY <2>3
  <2> QED
    BY <2>1, <2>2, <2>4 DEF RewardOf, Carrying, Carries
<1>5. /\ Extract(payload, "reward") = Extract(payload, "tokens")
  BY <1>3, <1>4, ScoredPartsAreTaken DEF ContractInv
<1> HIDE DEF g, i
<1>6. RewardsMatch(payload)
  BY <1>5 DEF RewardsMatch, SameShape
<1>7. row.reward = [by |-> "scorer", of |-> c.id]
  <2>1. RewardOf(c) = [by |-> "scorer", of |-> c.id]
    BY <1>3, <1>4
  <2> HIDE DEF c
  <2> QED
    BY <1>3, <1>5, <1>6, <2>1, RowFields
<1> HIDE DEF c
<1> QED
  BY <1>7

\* Rewards of a scorer reach the loss (_attach_rewards_to_rollout_payload before
\* _batch_from_candidate_groups), unless nested rewards shadow them.
THEOREM ScoresReachTheBatch == Spec => []ScoredRewardsTrained
BY ContractInvariant, ScoredRewardsTrainedHolds, PTL

\* Numbers have a greatest one among them.
LEMMA GreatestOf ==
    ASSUME NEW N \in Nat \ {0}, NEW f, \A i \in 1 .. N : f[i] \in Nat
    PROVE  \E i \in 1 .. N : \A j \in 1 .. N : f[j] <= f[i]
<1> DEFINE Has(k) == \E i \in 1 .. k : \A j \in 1 .. k : f[j] <= f[i]
           Bad == {k \in 1 .. N : ~ Has(k)}
<1>1. SUFFICES ASSUME ~ Has(N) PROVE FALSE
  OBVIOUS
<1> HIDE DEF Has
<1>2. PICK k \in Bad : \A m \in Bad : k <= m
  <2>1. Bad \in SUBSET Nat /\ N \in Bad
    BY <1>1
  <2> HIDE DEF Bad
  <2> QED
    BY <2>1, LeastOf
<1>3. k \in 1 .. N /\ ~ Has(k)
  OBVIOUS
<1>4. CASE k = 1
  BY <1>3, <1>4 DEF Has
<1>5. CASE k > 1
  <2>1. k - 1 \in 1 .. N /\ ~ (k <= k - 1)
    BY <1>3, <1>5
  <2>2. ~ (k - 1 \in Bad)
    BY <1>2, <2>1
  <2>3. Has(k - 1)
    BY <2>1, <2>2
  <2>4. PICK i \in 1 .. k - 1 : \A j \in 1 .. k - 1 : f[j] <= f[i]
    BY <2>3 DEF Has
  <2>5. i \in 1 .. k /\ k \in 1 .. k /\ f[i] \in Nat /\ f[k] \in Nat
    BY <1>3, <2>4
  <2>6. \E m \in {i, k} : f[i] <= f[m] /\ f[k] <= f[m]
    BY <2>5
  <2>7. PICK m \in {i, k} : f[i] <= f[m] /\ f[k] <= f[m]
    BY <2>6
  <2>8. ASSUME NEW j \in 1 .. k PROVE f[j] <= f[m]
    <3>1. f[j] \in Nat /\ f[m] \in Nat /\ (j = k \/ j \in 1 .. k - 1)
      BY <1>3, <2>5
    <3> QED
      BY <2>4, <2>5, <2>7, <3>1
  <2> QED
    BY <1>3, <2>5, <2>8 DEF Has
<1> QED
  BY <1>3, <1>4, <1>5

\* With a candidate there are as many columns as the configuration allows for.
LEMMA BatchLenInBounds ==
    ASSUME NEW K \in Seq(Seq(CandidateRecord)), Places(K) # {}
    PROVE  /\ BatchLen(K) \in MinCompletionLen .. Larger(MinCompletionLen, CompletionLen)
           /\ MinCompletionLen <= CompletionLen => BatchLen(K) <= CompletionLen
<1> DEFINE F == FlattenSeq(K)
           L == {c.len : c \in CandidatesOf(K)}
<1>1. F \in Seq(CandidateRecord) /\ \E at : Walks(F, at, K, Len(K))
  BY FlattenWalks
<1>2. PICK at : Walks(F, at, K, Len(K))
  BY <1>1
<1> HIDE DEF F
<1>3. \A q \in Places(K) : q[1] <= Len(K)
  <2>1. \A q \in Places(K) : q[1] \in DOMAIN K
    BY PlaceParts
  <2> QED
    BY <2>1
<1>4. /\ \A r \in 1 .. Len(F) : at[r] \in Places(K) /\ F[r] = K[at[r][1]][at[r][2]]
      /\ \A q \in Places(K) : \E r \in 1 .. Len(F) : at[r] = q
  BY <1>2, <1>3 DEF Walks
<1>5. Len(F) \in Nat \ {0}
  BY <1>1, <1>4
<1> DEFINE f == [r \in 1 .. Len(F) |-> F[r].len]
<1>6. ASSUME NEW r \in 1 .. Len(F) PROVE f[r] \in Nat
  <2>1. F[r] \in CandidateRecord
    BY <1>1
  <2>2. F[r].len \in Lengths
    BY <2>1 DEF CandidateRecord
  <2> QED
    BY <2>2, LengthsAssumption
<1>7. ASSUME NEW x PROVE x \in L <=> \E r \in 1 .. Len(F) : f[r] = x
  <2>1. ASSUME x \in L PROVE \E r \in 1 .. Len(F) : f[r] = x
    <3>1. PICK q \in Places(K) : x = K[q[1]][q[2]].len
      BY <2>1 DEF CandidatesOf
    <3>2. PICK r \in 1 .. Len(F) : at[r] = q
      BY <1>4
    <3>3. F[r] = K[q[1]][q[2]]
      BY <1>4, <3>2
    <3> QED
      BY <3>1, <3>3
  <2>2. ASSUME NEW r \in 1 .. Len(F), f[r] = x PROVE x \in L
    <3>1. F[r] \in CandidatesOf(K)
      BY <1>4 DEF CandidatesOf
    <3> QED
      BY <2>2, <3>1
  <2> QED
    BY <2>1, <2>2
<1> HIDE DEF f, L
<1>8. PICK i \in 1 .. Len(F) : \A j \in 1 .. Len(F) : f[j] <= f[i]
  BY <1>5, <1>6, GreatestOf
<1>9. Max(L) \in L
  <2>1. \E x \in L : \A y \in L : x >= y
    BY <1>6, <1>7, <1>8
  <2> QED
    BY <2>1 DEF Max
<1>10. Max(L) \in Nat
  BY <1>6, <1>7, <1>9
<1>11. BatchLen(K) = Larger(MinCompletionLen, Smaller(CompletionLen, Max(L)))
  BY DEF BatchLen, L
<1> QED
  BY <1>10, <1>11, CompletionLenAssumption DEF Larger, Smaller

\* The part of a candidate that matches it in shape is a candidate's part too.
LEMMA MatchedRow ==
    ASSUME PayloadInv, ReferencesMatch(payload),
           NEW g, NEW i, g \in DOMAIN Extract(payload, "tokens"),
           i \in DOMAIN Extract(payload, "tokens")[g]
    PROVE  LET row == RowOf(Extract(payload, "reference")[g][i])
           IN  row \in LogpRow \cup {None}
               /\ row.n >= Smaller(Extract(payload, "tokens")[g][i].len, CompletionLen)
<1> DEFINE T == Extract(payload, "tokens")
           R == Extract(payload, "reference")
<1>1. T \in Seq(Seq(CandidateRecord)) /\ R \in Seq(Seq(CandidateRecord))
  <2>1. payload.normalized \in Seq(Seq(CandidateRecord))
        /\ payload.outputs \in Seq(Seq(CandidateRecord))
    BY DEF PayloadInv, Placed
  <2>2. \A part : KeepGroups(payload.normalized, part) \in Seq(Seq(CandidateRecord))
                  /\ KeepGroups(payload.outputs, part) \in Seq(Seq(CandidateRecord))
    BY <2>1, KeepGroupsOrigins
  <2> QED
    BY <2>2 DEF Extract, Source
<1>2. SameShape(T, R) /\ RowOf(R[g][i]).n >= Smaller(T[g][i].len, CompletionLen)
  BY Zenon DEF ReferencesMatch
<1> HIDE DEF T, R
<1>3. g \in DOMAIN T /\ i \in DOMAIN T[g]
  BY DEF T
<1>4. g \in DOMAIN R /\ Len(R[g]) = Len(T[g])
  BY <1>1, <1>2, <1>3 DEF SameShape
<1>5. T[g] \in Seq(CandidateRecord) /\ R[g] \in Seq(CandidateRecord)
  BY <1>1, <1>3, <1>4
<1>6. i \in DOMAIN R[g]
  BY <1>3, <1>4, <1>5
<1>7. R[g][i] \in CandidateRecord
  BY <1>5, <1>6
<1>8. RowOf(R[g][i]) \in LogpRow \cup {None}
  BY <1>7 DEF CandidateRecord, RowOf
<1> QED
  BY <1>2, <1>8 DEF R, T

\* Log-probabilities that a scorer attached match the candidates when it clips no
\* shorter than the batch.
LEMMA ScoredReferencesMatch ==
    ASSUME ContractInv, "reference" \in scored, TokenlessBare, ScoredLen >= CompletionLen,
           \A c \in AllCandidates : c.nestedRow = None
    PROVE  /\ Extract(payload, "reference") = Extract(payload, "tokens")
           /\ ReferencesMatch(payload)
<1> DEFINE groups == TokenGroups(payload)
           K == KeepGroups(groups, "tokens")
           C == Carrying(groups, "tokens")
<1>1. C # {} /\ PayloadInv
  BY DEF ContractInv, ScoresInv
<1>2. groups \in Seq(Seq(CandidateRecord))
  BY <1>1 DEF TokenGroups, Source, PayloadInv, Placed
<1>3. ASSUME NEW q \in C
      PROVE  LET d == groups[q[1]][q[2]]
             IN  /\ RowOf(d).n = Smaller(d.len, ScoredLen) /\ d.len \in Nat
                 /\ q \in Carrying(groups, "reference")
  <2> DEFINE d == groups[q[1]][q[2]]
  <2>1. d.row.n = Smaller(d.len, ScoredLen) /\ d.len \in Nat /\ Carries(d, "reference")
        /\ (d.nestedRow = None => RowOf(d) = d.row)
    BY ScoredCandidate
  <2>2. q \in Places(groups)
    BY DEF Carrying
  <2>3. d \in AllCandidates
    BY <2>2 DEF AllCandidates, CandidatesOf, TokenGroups, Source
  <2> HIDE DEF groups
  <2> QED
    BY <2>1, <2>2, <2>3 DEF Carrying
<1>4. Extract(payload, "reference") = Extract(payload, "tokens")
  BY <1>1, <1>3, ScoredPartsAreTaken
<1>5. Extract(payload, "tokens") = K
  BY Zenon DEF Extract, TokenGroups
<1>6. K \in Seq(Seq(CandidateRecord))
      /\ \A q \in Places(K) : LET from == Origin(groups, "tokens", q)
                              IN  from \in C /\ K[q[1]][q[2]] = groups[from[1]][from[2]]
  BY <1>2, KeepGroupsOrigins
<1> HIDE DEF groups, K, C
<1>7. ASSUME NEW g \in DOMAIN K, NEW i \in DOMAIN K[g]
      PROVE  RowOf(K[g][i]).n >= Smaller(K[g][i].len, CompletionLen)
  <2> DEFINE q == <<g, i>>
             from == Origin(groups, "tokens", q)
             d == groups[from[1]][from[2]]
  <2>1. q \in Places(K) /\ q[1] = g /\ q[2] = i
    BY <1>6, PlaceParts
  <2>2. from \in C /\ K[q[1]][q[2]] = d
    BY <1>6, <2>1
  <2>3. RowOf(d).n = Smaller(d.len, ScoredLen) /\ d.len \in Nat
    BY <1>3, <2>2
  <2>4. K[g][i] = d
    BY <2>1, <2>2
  <2> HIDE DEF d
  <2>5. Smaller(d.len, ScoredLen) >= Smaller(d.len, CompletionLen)
    BY <2>3, CompletionLenAssumption DEF Smaller
  <2> QED
    BY <2>3, <2>4, <2>5
<1> QED
  BY <1>4, <1>5, <1>7 DEF ReferencesMatch, SameShape

\* Log-probabilities that are used cover every active token.
LEMMA ReferencesCoverActiveHolds == ContractInv => ReferencesCoverActive
<1> SUFFICES ASSUME ContractInv, batch # None, NEW row \in Rows
             PROVE  /\ row.reference # None =>
                         /\ row.reference.n >= Smaller(row.active, CompletionLen)
                         /\ MinCompletionLen <= CompletionLen => row.reference.n >= row.active
                    /\ "reference" \in scored /\ TokenlessBare /\ ScoredLen >= CompletionLen
                         /\ (\A c \in AllCandidates : c.nestedRow = None) =>
                         row.reference # None
  BY DEF ReferencesCoverActive
<1> DEFINE groups == TokenGroups(payload)
           T == Extract(payload, "tokens")
<1>1. PICK r \in DOMAIN batch : row = batch[r]
  BY DEF Rows, ToSet
<1>2. PICK at, from : RowsFrom(at, from, groups)
  BY BatchIsOfCarriers
<1> DEFINE c == groups[from[r][1]][from[r][2]]
           g == at[r][1]
           i == at[r][2]
<1>3. /\ from[r] \in Carrying(groups, "tokens")
      /\ c \in CandidateRecord
      /\ row = BatchRow(payload, g, i)
      /\ T[g][i] = c
  <2>1. RowIsOf(r, at, from, groups)
    BY <1>2, RowParts
  <2> HIDE DEF groups
  <2> QED
    BY <1>1, <2>1 DEF RowIsOf
<1>4. T = KeepGroups(groups, "tokens") /\ groups \in Seq(Seq(CandidateRecord))
  BY BatchIsOfKept, Zenon DEF Extract, TokenGroups, Placed
<1>5. at[r] \in Places(T)
  <2>1. r \in 1 .. Len(batch)
    BY BatchIsOfKept
  <2> HIDE DEF groups
  <2> QED
    BY <1>2, <1>4, <2>1 DEF RowsFrom
<1>6. T \in Seq(Seq(CandidateRecord))
  <2> HIDE DEF groups
  <2> QED
    BY <1>4, KeepGroupsOrigins
<1> HIDE DEF groups, T
<1>7. g \in DOMAIN T /\ i \in DOMAIN T[g]
  BY <1>5, <1>6, PlaceParts
<1>8. /\ BatchLen(T) \in Nat
      /\ MinCompletionLen <= CompletionLen => BatchLen(T) <= CompletionLen
  BY <1>5, <1>6, BatchLenInBounds, CompletionLenAssumption
<1> HIDE DEF g, i, c
<1>9. c.len \in Nat
  <2>1. c.len \in Lengths
    BY <1>3 DEF CandidateRecord
  <2> QED
    BY <2>1, LengthsAssumption
<1>10. row.active = Smaller(c.len, BatchLen(T))
  BY <1>3, RowFields DEF T
<1>11. ASSUME row.reference # None
       PROVE  /\ row.reference.n >= Smaller(row.active, CompletionLen)
              /\ MinCompletionLen <= CompletionLen => row.reference.n >= row.active
  <2>1. ReferencesMatch(payload) /\ row.reference = RowOf(Extract(payload, "reference")[g][i])
    BY <1>3, <1>11, RowFields
  <2>2. row.reference \in LogpRow \cup {None}
        /\ row.reference.n >= Smaller(c.len, CompletionLen)
    BY <1>3, <1>7, <2>1, MatchedRow DEF T, ContractInv
  <2>3. row.reference.n \in Nat
    BY <1>11, <2>2 DEF LogpRow
  <2> DEFINE m == row.reference.n
             active == row.active
             columns == BatchLen(T)
             len == c.len
  <2>4. active = Smaller(len, columns) /\ m >= Smaller(len, CompletionLen)
        /\ m \in Nat /\ len \in Nat /\ columns \in Nat
        /\ (MinCompletionLen <= CompletionLen => columns <= CompletionLen)
    BY <1>8, <1>9, <1>10, <2>2, <2>3
  <2> HIDE DEF m, active, columns, len
  <2>5. m >= Smaller(active, CompletionLen) /\ (MinCompletionLen <= CompletionLen => m >= active)
    BY <2>4, CompletionLenAssumption DEF Smaller
  <2> QED
    BY <2>5 DEF m, active
<1>12. ASSUME "reference" \in scored, TokenlessBare, ScoredLen >= CompletionLen,
              \A d \in AllCandidates : d.nestedRow = None
       PROVE  row.reference # None
  <2>1. Extract(payload, "reference") = T /\ ReferencesMatch(payload)
    BY <1>12, ScoredReferencesMatch DEF T
  <2>2. row.reference = RowOf(c)
    <3>1. row.reference = RowOf(Extract(payload, "reference")[g][i])
      BY <1>3, <2>1, RowFields
    <3> QED
      BY <1>3, <2>1, <3>1
  <2>3. Carries(c, "reference")
    BY <1>3, <1>12, ScoredCandidate DEF groups, c
  <2> QED
    BY <2>2, <2>3 DEF Carries
<1> QED
  BY <1>11, <1>12

\* Reference log-probabilities are used only where they cover what is trained on, up to
\* completion_len (_reference_logp_groups_match), and those of a scorer that clips no
\* shorter than completion_len are used unless nested ones shadow them; for every
\* min_completion_len, one beyond completion_len included.
THEOREM ReferencesCoverTheBatch == Spec => []ReferencesCoverActive
BY ContractInvariant, ReferencesCoverActiveHolds, PTL

-----------------------------------------------------------------------------
(***************************************************************************)
(* Types.                                                                  *)
(***************************************************************************)
\* What is kept for its reward has one.
LEMMA KeptRewards ==
    ASSUME PayloadInv, NEW q \in Places(Extract(payload, "reward"))
    PROVE  RewardOf(Extract(payload, "reward")[q[1]][q[2]]) \in Reward
<1>1. PICK some \in {payload.normalized, payload.outputs} :
        Extract(payload, "reward") = KeepGroups(some, "reward")
  BY DEF Extract, Source
<1>2. some \in Seq(Seq(CandidateRecord))
  BY DEF PayloadInv, Placed
<1> DEFINE K == KeepGroups(some, "reward")
           from == Origin(some, "reward", q)
           c == some[from[1]][from[2]]
<1>3. q \in Places(K)
  BY <1>1
<1>4. from \in Carrying(some, "reward") /\ K[q[1]][q[2]] = c
  BY <1>2, <1>3, KeepGroupsOrigins
<1> HIDE DEF K, from
<1>5. from \in Places(some) /\ Carries(c, "reward")
  BY <1>4 DEF Carrying
<1>6. from[1] \in DOMAIN some /\ from[2] \in DOMAIN some[from[1]]
  BY <1>2, <1>5, PlaceParts
<1>7. some[from[1]] \in Seq(CandidateRecord)
  BY <1>2, <1>6
<1>8. c \in CandidateRecord
  BY <1>6, <1>7
<1> HIDE DEF c
<1>9. c.reward \in Reward \cup {None} /\ c.nested \in Reward \cup {None}
  BY <1>8 DEF CandidateRecord
<1>10. RewardOf(c) # None
  BY <1>5 DEF Carries
<1>11. RewardOf(c) \in Reward
  BY <1>9, <1>10 DEF RewardOf
<1> QED
  BY <1>1, <1>4, <1>11 DEF K

\* There are no more groups than prompts.
LEMMA GroupNumbers ==
    ASSUME NEW groups, Placed(groups)
    PROVE  DOMAIN KeepGroups(groups, "tokens") \subseteq 1 .. MaxPrompts
<1> DEFINE W == GroupsWith(groups, "tokens")
<1>1. groups \in Seq(Seq(CandidateRecord))
  BY DEF Placed
<1>2. DOMAIN KeepGroups(groups, "tokens") = 1 .. Cardinality(W) /\ Cardinality(W) \in Nat
  BY <1>1, KeepGroupsItems
<1>3. ASSUME NEW g \in W PROVE g \in 1 .. MaxPrompts
  <2>1. PICK i : i \in KeptIn(groups[g], "tokens")
    BY DEF GroupsWith
  <2>2. <<g, i>> \in Places(groups) /\ g \in DOMAIN groups /\ i \in DOMAIN groups[g]
    <3>1. g \in DOMAIN groups /\ i \in DOMAIN groups[g]
      BY <2>1 DEF GroupsWith, KeptIn
    <3> QED
      BY <1>1, <3>1, PlaceParts
  <2>3. groups[g][i].id = [prompt |-> g, copy |-> i]
    <3>1. groups[<<g, i>>[1]][<<g, i>>[2]].id = [prompt |-> <<g, i>>[1], copy |-> <<g, i>>[2]]
      BY <2>2 DEF Placed
    <3> QED
      BY <3>1
  <2>4. groups[g][i] \in CandidateRecord
    BY <1>1, <2>2
  <2>5. [prompt |-> g, copy |-> i] \in Id
    BY <2>3, <2>4 DEF CandidateRecord
  <2> QED
    BY <2>5 DEF Id
<1> HIDE DEF W
<1>4. IsFiniteSet(1 .. MaxPrompts) /\ Cardinality(1 .. MaxPrompts) = MaxPrompts
  BY BoundsAssumption, FS_Interval
<1>5. Cardinality(W) <= MaxPrompts
  BY <1>3, <1>4, FS_Subset
<1> QED
  BY <1>2, <1>5, BoundsAssumption

\* A row of the batch is typed.
LEMMA RowTyped ==
    ASSUME ContractInv, batch # None, NEW row \in Rows
    PROVE  /\ row.of \in Id /\ row.group \in 1 .. MaxPrompts
           /\ row.active \in 1 .. Larger(MinCompletionLen, CompletionLen) /\ row.reward \in Reward
<1> DEFINE groups == TokenGroups(payload)
           T == Extract(payload, "tokens")
           R == Extract(payload, "reward")
<1>1. PICK r \in DOMAIN batch : row = batch[r]
  BY DEF Rows, ToSet
<1>2. PICK at, from : RowsFrom(at, from, groups)
  BY BatchIsOfCarriers
<1> DEFINE c == groups[from[r][1]][from[r][2]]
           g == at[r][1]
           i == at[r][2]
<1>3. /\ c \in CandidateRecord /\ Carries(c, "tokens")
      /\ row = BatchRow(payload, g, i)
      /\ row.of = c.id /\ row.group = g
      /\ T[g][i] = c
  <2>1. RowIsOf(r, at, from, groups)
    BY <1>2, RowParts
  <2> HIDE DEF groups
  <2> QED
    BY <1>1, <2>1 DEF RowIsOf
<1>4. T = KeepGroups(groups, "tokens") /\ Placed(groups) /\ groups \in Seq(Seq(CandidateRecord))
  BY BatchIsOfKept, Zenon DEF Extract, TokenGroups, Placed
<1>5. at[r] \in Places(T)
  <2>1. r \in 1 .. Len(batch)
    BY BatchIsOfKept
  <2> HIDE DEF groups
  <2> QED
    BY <1>2, <1>4, <2>1 DEF RowsFrom
<1> HIDE DEF groups
<1>6. T \in Seq(Seq(CandidateRecord)) /\ DOMAIN T \subseteq 1 .. MaxPrompts
  BY <1>4, KeepGroupsOrigins, GroupNumbers
<1>7. R \in Seq(Seq(CandidateRecord))
  <2>1. payload.normalized \in Seq(Seq(CandidateRecord))
        /\ payload.outputs \in Seq(Seq(CandidateRecord))
    BY DEF ContractInv, PayloadInv, Placed
  <2>2. KeepGroups(payload.normalized, "reward") \in Seq(Seq(CandidateRecord))
        /\ KeepGroups(payload.outputs, "reward") \in Seq(Seq(CandidateRecord))
    BY <2>1, KeepGroupsOrigins
  <2> QED
    BY <2>2 DEF Extract, Source
<1> HIDE DEF T, R
<1>8. g \in DOMAIN T /\ i \in DOMAIN T[g]
  BY <1>5, <1>6, PlaceParts
<1>9. BatchLen(T) \in MinCompletionLen .. Larger(MinCompletionLen, CompletionLen)
  BY <1>5, <1>6, BatchLenInBounds
<1> HIDE DEF g, i, c
<1>10. c.len \in Nat /\ c.len > 0 /\ c.id \in Id
  <2>1. c.len \in Lengths /\ c.id \in Id
    BY <1>3 DEF CandidateRecord
  <2>2. c.len > 0
    BY <1>3 DEF Carries
  <2> QED
    BY <2>1, <2>2, LengthsAssumption
<1>11. row.active \in 1 .. Larger(MinCompletionLen, CompletionLen)
  <2>1. row.active = Smaller(c.len, BatchLen(T))
    BY <1>3, RowFields DEF T
  <2>2. BatchLen(T) \in 1 .. Larger(MinCompletionLen, CompletionLen)
        /\ Larger(MinCompletionLen, CompletionLen) \in Nat
    BY <1>9, CompletionLenAssumption DEF Larger
  <2> QED
    BY <1>10, <2>1, <2>2 DEF Smaller
<1>12. CASE RewardsMatch(payload)
  <2>1. SameShape(T, R)
    BY <1>12 DEF RewardsMatch, T, R
  <2>2. g \in DOMAIN R /\ Len(R[g]) = Len(T[g])
    BY <1>6, <1>7, <1>8, <2>1 DEF SameShape
  <2>3. T[g] \in Seq(CandidateRecord) /\ R[g] \in Seq(CandidateRecord)
    BY <1>6, <1>7, <1>8, <2>2
  <2>4. i \in DOMAIN R[g]
    BY <1>8, <2>2, <2>3
  <2>5. <<g, i>> \in Places(R) /\ <<g, i>>[1] = g /\ <<g, i>>[2] = i
    BY <1>7, <2>2, <2>4, PlaceParts
  <2>6. RewardOf(R[<<g, i>>[1]][<<g, i>>[2]]) \in Reward
    BY <2>5, KeptRewards DEF R, ContractInv
  <2>7. row.reward = RewardOf(R[g][i])
    BY <1>3, <1>12, RowFields DEF R
  <2> QED
    BY <1>3, <1>6, <1>8, <1>10, <1>11, <2>5, <2>6, <2>7
<1>13. CASE ~ RewardsMatch(payload)
  <2>1. row.reward = [by |-> "proxy", of |-> c.id]
    BY <1>3, <1>13, RowFields DEF T
  <2>2. row.reward \in Reward
    BY <1>10, <2>1 DEF Reward
  <2> QED
    BY <1>3, <1>6, <1>8, <1>10, <1>11, <2>2
<1> QED
  BY <1>12, <1>13

\* ContractInv is about typed states.
LEMMA ContractTyped == ContractInv => TypeOK
<1> SUFFICES ASSUME ContractInv PROVE TypeOK
  OBVIOUS
<1>1. ASSUME NEW c \in AllCandidates
      PROVE  /\ c.id \in Id /\ c.len \in Lengths
             /\ c.reward \in Reward \cup {None} /\ c.nested \in Reward \cup {None}
             /\ c.row # None => c.row.of \in Id /\ c.row.n \in Nat \ {0}
             /\ c.nestedRow # None => c.nestedRow.of \in Id /\ c.nestedRow.n \in Nat \ {0}
  <2>1. PICK some \in {payload.normalized, payload.outputs} : c \in CandidatesOf(some)
    BY DEF AllCandidates
  <2>2. some \in Seq(Seq(CandidateRecord))
    BY DEF ContractInv, PayloadInv, Placed
  <2>3. PICK q \in Places(some) : c = some[q[1]][q[2]]
    BY <2>1 DEF CandidatesOf
  <2>4. q[1] \in DOMAIN some /\ q[2] \in DOMAIN some[q[1]]
    BY <2>2, <2>3, PlaceParts
  <2>5. some[q[1]] \in Seq(CandidateRecord)
    BY <2>2, <2>4
  <2>6. c \in CandidateRecord
    BY <2>3, <2>4, <2>5
  <2>7. /\ c.id \in Id /\ c.len \in Lengths
        /\ c.reward \in Reward \cup {None} /\ c.nested \in Reward \cup {None}
        /\ c.row \in LogpRow \cup {None} /\ c.nestedRow \in LogpRow \cup {None}
    BY <2>6 DEF CandidateRecord
  <2>8. /\ c.row # None => c.row.of \in Id /\ c.row.n \in Nat \ {0}
        /\ c.nestedRow # None => c.nestedRow.of \in Id /\ c.nestedRow.n \in Nat \ {0}
    BY <2>7 DEF LogpRow
  <2> QED
    BY <2>7, <2>8
<1>2. scored \subseteq {"reward", "reference"}
  BY DEF ContractInv, ScoresInv
<1> QED
  BY <1>1, <1>2, RowTyped DEF TypeOK

\* Payloads, scores and batches keep their types whatever was extracted from where:
\* a batch has no row without a token or a reward (_batch_from_candidate_groups).
THEOREM TypeCorrect == Spec => []TypeOK
BY ContractInvariant, ContractTyped, PTL
=============================================================================
