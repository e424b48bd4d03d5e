------------------------ MODULE ConsumerGroupProofs -------------------------
(***************************************************************************)
(* Theorems about the range assignor, for every number of members and      *)
(* partitions, and about the consumer group, for every set of members and  *)
(* partitions and every bound: the group's leader is one of its members,   *)
(* and no two members are handed the same partition of one generation.     *)
(***************************************************************************)
EXTENDS ConsumerGroup, FiniteSetTheorems, TLAPS

-----------------------------------------------------------------------------
(* Arithmetic.                                                             *)

(* The smaller of two numbers.                                             *)
LEMMA MinOfTwo ==
    ASSUME NEW a \in Int, NEW b \in Int
    PROVE  Min({a, b}) = IF a <= b THEN a ELSE b
<1>1. \E x \in {a, b} : \A y \in {a, b} : x <= y
  OBVIOUS
<1>2. /\ Min({a, b}) \in {a, b}
      /\ \A y \in {a, b} : Min({a, b}) <= y
  BY <1>1 DEF Min
<1> QED
  BY <1>2

(* Quotient and remainder.                                                 *)
LEMMA Division ==
    ASSUME NEW a \in Nat, NEW n \in Nat \ {0}
    PROVE  /\ a \div n \in Nat
           /\ a % n \in 0..(n - 1)
           /\ a = n * (a \div n) + (a % n)
OBVIOUS

(* A product grows with its factor.                                        *)
LEMMA ProductGrows ==
    ASSUME NEW q \in Nat, NEW i \in Nat, NEW j \in Nat, i < j
    PROVE  q * i + q <= q * j
<1> DEFINE d == j - i - 1
<1>1. d \in Nat /\ j = i + 1 + d
  OBVIOUS
<1>2. q * d \in Nat /\ q * i \in Nat
  BY <1>1
<1>3. q * j = q * i + q + q * d
  BY <1>1
<1> QED
  BY <1>2, <1>3

-----------------------------------------------------------------------------
(* The range assignor.                                                     *)

(* A member's block starts at a natural number and is not negative.        *)
LEMMA BlockType ==
    ASSUME NEW n \in Nat \ {0}, NEW i \in 0..(n - 1), NEW N \in Nat
    PROVE  RangeStart(n, i, N) \in Nat /\ RangeLength(n, i, N) \in Nat
<1>1. N \div n \in Nat /\ N % n \in 0..(n - 1)
  BY Division, Zenon
<1>2. Min({i, N % n}) \in Nat
  BY <1>1, MinOfTwo
<1>3. (N \div n) * i \in Nat
  BY <1>1
<1> QED
  BY <1>1, <1>2, <1>3 DEF RangeStart, RangeLength

(* A member's block ends before those of the members after it start.       *)
LEMMA BlocksInOrder ==
    ASSUME NEW n \in Nat \ {0}, NEW N \in Nat,
           NEW i \in 0..(n - 1), NEW j \in 0..(n - 1), i < j
    PROVE  RangeStart(n, i, N) + RangeLength(n, i, N) <= RangeStart(n, j, N)
<1> DEFINE q == N \div n
           r == N % n
<1>1. q \in Nat /\ r \in 0..(n - 1)
  BY Division, Zenon
<1>2. /\ Min({i, r}) = (IF i <= r THEN i ELSE r)
      /\ Min({j, r}) = (IF j <= r THEN j ELSE r)
  BY <1>1, MinOfTwo
<1>3. q * i + q <= q * j /\ q * i \in Nat /\ q * j \in Nat
  BY <1>1, ProductGrows
<1> HIDE DEF q, r
<1>4. q * i + (IF i <= r THEN i ELSE r) + (q + (IF i < r THEN 1 ELSE 0))
        <= q * j + (IF j <= r THEN j ELSE r)
  BY <1>1, <1>3
<1> QED
  BY <1>2, <1>4 DEF RangeStart, RangeLength, q, r

(* So the blocks of two members have no partition in common.               *)
LEMMA BlocksDisjoint ==
    ASSUME NEW n \in Nat \ {0}, NEW N \in Nat,
           NEW i \in 0..(n - 1), NEW j \in 0..(n - 1), i # j
    PROVE  RangeBlock(n, i, N) \cap RangeBlock(n, j, N) = {}
<1>1. /\ RangeStart(n, i, N) \in Nat /\ RangeLength(n, i, N) \in Nat
      /\ RangeStart(n, j, N) \in Nat /\ RangeLength(n, j, N) \in Nat
  BY BlockType
<1>2. \/ RangeStart(n, i, N) + RangeLength(n, i, N) <= RangeStart(n, j, N)
      \/ RangeStart(n, j, N) + RangeLength(n, j, N) <= RangeStart(n, i, N)
  <2>1. CASE i < j
    BY <2>1, BlocksInOrder
  <2>2. CASE j < i
    BY <2>2, BlocksInOrder
  <2> QED
    BY <2>1, <2>2
<1> QED
  BY <1>1, <1>2 DEF RangeBlock

(* No block reaches beyond the last partition.                             *)
LEMMA BlockWithin ==
    ASSUME NEW n \in Nat \ {0}, NEW N \in Nat, NEW i \in 0..(n - 1)
    PROVE  RangeStart(n, i, N) + RangeLength(n, i, N) <= N
<1> DEFINE q == N \div n
           r == N % n
<1>1. q \in Nat /\ r \in 0..(n - 1) /\ N = n * q + r
  BY Division, Zenon
<1>2. Min({i, r}) = (IF i <= r THEN i ELSE r)
  BY <1>1, MinOfTwo
<1>3. q * i + q <= q * n /\ q * i \in Nat /\ q * n \in Nat
  BY <1>1, ProductGrows
<1> HIDE DEF q, r
<1>4. q * n = n * q
  BY <1>1
<1>5. q * i + (IF i <= r THEN i ELSE r) + (q + (IF i < r THEN 1 ELSE 0)) <= q * n + r
  BY <1>1, <1>3
<1>6. q * i + (IF i <= r THEN i ELSE r) + (q + (IF i < r THEN 1 ELSE 0)) <= N
  BY <1>1, <1>4, <1>5
<1> QED
  BY <1>2, <1>6 DEF RangeStart, RangeLength, q, r

(* Every partition is in some member's block: among the longer blocks of   *)
(* the first members, or among those of the others.                        *)
LEMMA BlocksCover ==
    ASSUME NEW n \in Nat \ {0}, NEW N \in Nat, NEW p \in 0..(N - 1)
    PROVE  \E i \in 0..(n - 1) : p \in RangeBlock(n, i, N)
<1> DEFINE q == N \div n
           r == N % n
           InBlock(i) == /\ q * i + (IF i <= r THEN i ELSE r) <= p
                         /\ p < q * i + (IF i <= r THEN i ELSE r)
                                 + (q + (IF i < r THEN 1 ELSE 0))
<1>1. q \in Nat /\ r \in 0..(n - 1) /\ N = n * q + r
  BY Division, Zenon
<1> HIDE DEF q, r
<1>2. r * (q + 1) \in Nat /\ r * q \in Nat /\ r * (q + 1) = r * q + r
  BY <1>1
<1>3. \E i \in 0..(n - 1) : InBlock(i)
  <2>1. CASE p < r * (q + 1)
    <3> DEFINE i == p \div (q + 1)
               s == p % (q + 1)
    <3>1. i \in Nat /\ s \in 0..q /\ p = (q + 1) * i + s
      <4>1. p \in Nat /\ q + 1 \in Nat \ {0} /\ (q + 1) - 1 = q
        BY <1>1
      <4>2. /\ p \div (q + 1) \in Nat
            /\ p % (q + 1) \in 0..((q + 1) - 1)
            /\ p = (q + 1) * (p \div (q + 1)) + (p % (q + 1))
        BY <4>1, Division, Zenon
      <4> QED
        BY <4>1, <4>2
    <3> HIDE DEF i, s
    <3>2. (q + 1) * i = q * i + i /\ q * i \in Nat
      BY <1>1, <3>1
    <3>3. i < r
      <4> SUFFICES ASSUME r <= i
                   PROVE  FALSE
        BY <1>1, <3>1
      <4>1. (q + 1) * r <= (q + 1) * i
        <5>1. CASE r = i
          BY <5>1, <1>1, <3>1
        <5>2. CASE r < i
          <6>1. (q + 1) * r + (q + 1) <= (q + 1) * i
            BY <5>2, <1>1, <3>1, ProductGrows
          <6> QED
            BY <6>1, <1>1, <3>1
        <5> QED
          BY <5>1, <5>2, <1>1, <3>1
      <4>2. (q + 1) * r = r * (q + 1)
        BY <1>1
      <4> QED
        BY <4>1, <4>2, <3>1, <3>2, <1>2, <2>1
    <3>4. i \in 0..(n - 1) /\ InBlock(i)
      BY <1>1, <3>1, <3>2, <3>3
    <3> QED
      BY <3>4
  <2>2. CASE ~(p < r * (q + 1))
    <3>1. q # 0
      BY <1>1, <1>2, <2>2
    <3> DEFINE d == p - r * (q + 1)
               k == d \div q
               s == d % q
               i == r + k
    <3>2. d \in Nat /\ p = r * q + r + d
      BY <1>1, <1>2, <2>2
    <3>3. k \in Nat /\ s \in 0..(q - 1) /\ d = q * k + s
      BY <1>1, <3>1, <3>2, Division, Zenon
    <3> HIDE DEF d, k, s
    <3>4. q * i = r * q + q * k /\ q * k \in Nat
      BY <1>1, <3>3
    <3>5. i < n
      <4> SUFFICES ASSUME n <= i
                   PROVE  FALSE
        BY <1>1, <3>3
      <4>1. q * n <= q * i
        <5>1. CASE n = i
          BY <5>1, <1>1, <3>3
        <5>2. CASE n < i
          <6>1. q * n + q <= q * i
            BY <5>2, <1>1, <3>3, ProductGrows
          <6> QED
            BY <6>1, <1>1, <3>3
        <5> QED
          BY <5>1, <5>2, <1>1, <3>3
      <4>2. q * n = n * q
        BY <1>1
      <4> QED
        BY <4>1, <4>2, <3>2, <3>3, <3>4, <1>1, <1>2
    <3>6. i \in 0..(n - 1) /\ r <= i
      BY <1>1, <3>3, <3>5
    <3>7. InBlock(i)
      BY <1>1, <1>2, <3>2, <3>3, <3>4, <3>6
    <3> QED
      BY <3>6, <3>7
  <2> QED
    BY <2>1, <2>2
<1>4. PICK i \in 0..(n - 1) : InBlock(i)
  BY <1>3
<1>5. Min({i, r}) = (IF i <= r THEN i ELSE r)
  BY <1>1, MinOfTwo
<1>6. RangeStart(n, i, N) <= p /\ p < RangeStart(n, i, N) + RangeLength(n, i, N)
  BY <1>4, <1>5 DEF RangeStart, RangeLength, q, r
<1> QED
  BY <1>6, BlockType DEF RangeBlock

PartOfTopic(n, i, N, t) == {<<t, p>> : p \in RangeBlock(n, i, N)}

(* The size of a member's part of a topic.                                 *)
LEMMA BlockSize ==
    ASSUME NEW n \in Nat \ {0}, NEW i \in 0..(n - 1), NEW N \in Nat, NEW t \in Nat
    PROVE  Cardinality(PartOfTopic(n, i, N, t)) = RangeLength(n, i, N)
<1> DEFINE start == RangeStart(n, i, N)
           length == RangeLength(n, i, N)
           B == RangeBlock(n, i, N)
           T == {<<t, p>> : p \in B}
           f == [p \in B |-> <<t, p>>]
<1>1. start \in Nat /\ length \in Nat
  BY BlockType
<1>2. IsFiniteSet(B) /\ Cardinality(B) = length
  <2>1. B = start..(start + length - 1)
    BY DEF RangeBlock
  <2> HIDE DEF B, start, length
  <2>2. start \in Int /\ start + length - 1 \in Int
    BY <1>1
  <2>3. /\ IsFiniteSet(start..(start + length - 1))
        /\ Cardinality(start..(start + length - 1)) =
              IF start > start + length - 1 THEN 0
              ELSE (start + length - 1) - start + 1
    BY <2>2, FS_Interval
  <2> QED
    BY <1>1, <2>1, <2>3
<1> HIDE DEF B, length
<1>3. f \in Bijection(B, T)
  <2>1. f \in [B -> T]
    OBVIOUS
  <2>2. \A a, b \in B : f[a] = f[b] => a = b
    OBVIOUS
  <2>3. \A u \in T : \E a \in B : f[a] = u
    OBVIOUS
  <2> QED
    BY <2>1, <2>2, <2>3 DEF Bijection, Injection, Surjection, IsInjective
<1>4. Cardinality(T) = Cardinality(B)
  BY <1>2, <1>3, FS_Bijection DEF ExistsBijection
<1> QED
  BY <1>2, <1>4 DEF B, length, PartOfTopic

(* RangeAssignor gives every topic-partition exactly one owner and is      *)
(* balanced within every topic, for every number of members and topics of  *)
(* any size, also with more members than partitions.                       *)
THEOREM RangeAssignIsFair ==
    ASSUME NEW n \in Nat \ {0}, NEW parts \in Seq(Nat)
    PROVE  /\ IsExactCover(RangeAssign(n, parts), parts)
           /\ \A t \in 1..Len(parts) : IsBalanced(OfTopic(RangeAssign(n, parts), t))
<1> DEFINE R == RangeAssign(n, parts)
           Part(i, t) == PartOfTopic(n, i, parts[t], t)
<1>1. /\ DOMAIN R = 0..(n - 1)
      /\ \A i \in 0..(n - 1) : R[i] = UNION {Part(i, t) : t \in 1..Len(parts)}
  BY DEF RangeAssign, PartOfTopic
<1>2. \A t \in 1..Len(parts) : parts[t] \in Nat
  OBVIOUS
<1> HIDE DEF R
<1>3. UNION {R[i] : i \in DOMAIN R} = TopicPartitions(parts)
  <2>1. ASSUME NEW i \in 0..(n - 1), NEW t \in 1..Len(parts),
               NEW p \in RangeBlock(n, i, parts[t])
        PROVE  p \in 0..(parts[t] - 1)
    <3>1. /\ RangeStart(n, i, parts[t]) \in Nat /\ RangeLength(n, i, parts[t]) \in Nat
          /\ RangeStart(n, i, parts[t]) + RangeLength(n, i, parts[t]) <= parts[t]
      BY <1>2, BlockType, BlockWithin, Zenon
    <3> QED
      BY <1>2, <3>1 DEF RangeBlock
  <2>2. ASSUME NEW t \in 1..Len(parts), NEW p \in 0..(parts[t] - 1)
        PROVE  \E i \in 0..(n - 1) : p \in RangeBlock(n, i, parts[t])
    BY <1>2, BlocksCover, Zenon
  <2>3. ASSUME NEW x \in UNION {R[i] : i \in DOMAIN R}
        PROVE  x \in TopicPartitions(parts)
    <3>1. PICK i \in 0..(n - 1), t \in 1..Len(parts) : x \in Part(i, t)
      BY <1>1
    <3>2. PICK p \in RangeBlock(n, i, parts[t]) : x = <<t, p>>
      BY <3>1 DEF PartOfTopic
    <3>3. p \in 0..(parts[t] - 1)
      BY <2>1
    <3>4. x \in {<<t, r>> : r \in 0..(parts[t] - 1)}
      BY <3>2, <3>3
    <3> QED
      BY <3>4, Zenon DEF TopicPartitions
  <2>4. ASSUME NEW x \in TopicPartitions(parts)
        PROVE  x \in UNION {R[i] : i \in DOMAIN R}
    <3>0. PICK t \in 1..Len(parts) : \E p \in 0..(parts[t] - 1) : x = <<t, p>>
      BY DEF TopicPartitions
    <3>1. PICK p \in 0..(parts[t] - 1) : x = <<t, p>>
      BY <3>0
    <3>2. PICK i \in 0..(n - 1) : p \in RangeBlock(n, i, parts[t])
      BY <2>2
    <3>3. x \in R[i]
      BY <1>1, <3>1, <3>2 DEF PartOfTopic
    <3> QED
      BY <1>1, <3>3
  <2> QED
    BY <2>3, <2>4
<1>4. ASSUME NEW i \in 0..(n - 1), NEW j \in 0..(n - 1), i # j
      PROVE  R[i] \cap R[j] = {}
  <2> SUFFICES ASSUME NEW x, x \in R[i], x \in R[j]
               PROVE  FALSE
    OBVIOUS
  <2>1. PICK t \in 1..Len(parts) : \E p \in RangeBlock(n, i, parts[t]) : x = <<t, p>>
    BY <1>1 DEF PartOfTopic
  <2>2. PICK u \in 1..Len(parts) : \E p \in RangeBlock(n, j, parts[u]) : x = <<u, p>>
    BY <1>1 DEF PartOfTopic
  <2>3. t = u /\ x[2] \in RangeBlock(n, i, parts[t]) /\ x[2] \in RangeBlock(n, j, parts[t])
    BY <2>1, <2>2
  <2> QED
    BY <1>2, <1>4, <2>3, BlocksDisjoint, Zenon
<1>5. ASSUME NEW t \in 1..Len(parts)
      PROVE  IsBalanced(OfTopic(R, t))
  <2>1. ASSUME NEW i \in 0..(n - 1)
        PROVE  OfTopic(R, t)[i] = Part(i, t)
    <3>1. OfTopic(R, t)[i] = {tp \in R[i] : tp[1] = t}
      BY <1>1 DEF OfTopic
    <3>2. ASSUME NEW tp \in R[i], tp[1] = t
          PROVE  tp \in Part(i, t)
      <4>1. PICK u \in 1..Len(parts) : tp \in Part(i, u)
        BY <1>1
      <4>2. tp[1] = u
        BY <4>1 DEF PartOfTopic
      <4> QED
        BY <3>2, <4>1, <4>2
    <3>3. ASSUME NEW tp \in Part(i, t)
          PROVE  tp \in R[i] /\ tp[1] = t
      <4>1. tp[1] = t
        BY DEF PartOfTopic
      <4> QED
        BY <1>1, <4>1
    <3> QED
      BY <3>1, <3>2, <3>3
  <2>2. ASSUME NEW i \in 0..(n - 1), NEW j \in 0..(n - 1)
        PROVE  Cardinality(Part(i, t)) <= Cardinality(Part(j, t)) + 1
    <3>1. /\ Cardinality(Part(i, t)) = RangeLength(n, i, parts[t])
          /\ Cardinality(Part(j, t)) = RangeLength(n, j, parts[t])
      <4>1. t \in Nat
        OBVIOUS
      <4> QED
        BY <1>2, <4>1, BlockSize, Zenon
    <3>2. parts[t] \div n \in Nat
      BY <1>2, Division, Zenon
    <3> QED
      BY <3>1, <3>2 DEF RangeLength
  <2>3. DOMAIN OfTopic(R, t) = 0..(n - 1)
    BY <1>1 DEF OfTopic
  <2> QED
    BY <2>1, <2>2, <2>3, Zenon DEF IsBalanced
<1> QED
  BY <1>1, <1>3, <1>4, <1>5, Zenon DEF IsExactCover, R

-----------------------------------------------------------------------------
(* The shares a leader sends.                                              *)

(* The coordinator's partitions are numbered from 0.                       *)
LEMMA PartitionNumbers ==
    /\ Cardinality(Partitions) \in Nat
    /\ Partitions = 0..(Cardinality(Partitions) - 1)
BY GroupAssumption, FS_CardinalityType

(* The number of smaller elements is an index into a finite set of         *)
(* numbers: it tells any two of them apart.                                *)
LEMMA IndexTellsApart ==
    ASSUME NEW list \in SUBSET Nat, IsFiniteSet(list),
           NEW m \in list, NEW x \in list, m < x
    PROVE  /\ Cardinality({y \in list : y < m}) \in 0..(Cardinality(list) - 1)
           /\ Cardinality({y \in list : y < x}) \in 0..(Cardinality(list) - 1)
           /\ Cardinality({y \in list : y < m}) < Cardinality({y \in list : y < x})
<1> DEFINE Below(a) == {y \in list : y < a}
<1>1. Cardinality(list) \in Nat
  BY FS_CardinalityType
<1>2. ASSUME NEW a \in list
      PROVE  /\ IsFiniteSet(Below(a))
             /\ Cardinality(Below(a)) \in Nat
             /\ Cardinality(Below(a)) < Cardinality(list)
  <2>1. Below(a) \in SUBSET list /\ Below(a) # list
    OBVIOUS
  <2>2. /\ IsFiniteSet(Below(a))
        /\ Cardinality(Below(a)) <= Cardinality(list)
        /\ Cardinality(list) # Cardinality(Below(a))
    BY <2>1, FS_Subset
  <2>3. Cardinality(Below(a)) \in Nat
    BY <2>2, FS_CardinalityType
  <2> QED
    BY <1>1, <2>2, <2>3
<1>3. Cardinality(Below(m)) < Cardinality(Below(x))
  <2>0. m \in Nat /\ x \in Nat /\ \A y \in list : y \in Nat
    OBVIOUS
  <2>1. Below(m) \in SUBSET Below(x) /\ m \in Below(x) /\ m \notin Below(m)
    <3>1. ASSUME NEW y \in Below(m)
          PROVE  y \in Below(x)
      BY <2>0
    <3>2. m \in Below(x) /\ m \notin Below(m)
      BY <2>0
    <3> QED
      BY <3>1, <3>2, Zenon
  <2> HIDE DEF Below
  <2>2. /\ Cardinality(Below(m)) <= Cardinality(Below(x))
        /\ Cardinality(Below(x)) # Cardinality(Below(m))
    BY <1>2, <2>1, FS_Subset
  <2> QED
    BY <1>2, <2>2
<1> QED
  BY <1>1, <1>2, <1>3

(* Member lists are finite: members join one by one.                       *)
FiniteAnswers == \A ct \in MemberIDs \X Threads : IsFiniteSet(joinResp[ct].members)

(* The leader sends each member it knows of the block at its index, so no  *)
(* partition goes to two members.                                          *)
LEMMA SharesAreBlocks ==
    ASSUME TypeOK, FiniteAnswers, NEW c \in MemberIDs, NEW t \in Threads
    PROVE  LET list == joinResp[<<c, t>>].members
           IN  /\ DOMAIN Shares(c, t) = list
               /\ list \subseteq MemberIDs
               /\ \A m \in list : Shares(c, t)[m] \subseteq Partitions
               /\ \A m, x \in list :
                     m # x => Shares(c, t)[m] \cap Shares(c, t)[x] = {}
<1> DEFINE list == joinResp[<<c, t>>].members
           n == Cardinality(list)
           N == Cardinality(Partitions)
           Ix(m) == Cardinality({x \in list : x < m})
           S == Shares(c, t)
<1>1. list \subseteq MemberIDs /\ list \subseteq Nat /\ IsFiniteSet(list)
  BY GroupAssumption, Zenon DEF TypeOK, ClientTypeOK, FiniteAnswers, JoinResponses
<1>2. DOMAIN S = list
  BY DEF Shares
<1>3. ASSUME NEW m \in list
      PROVE  n \in Nat \ {0} /\ Ix(m) \in 0..(n - 1)
  <2>1. n \in Nat /\ n # 0
    BY <1>1, FS_CardinalityType, FS_EmptySet
  <2>2. {x \in list : x < m} \in SUBSET list /\ {x \in list : x < m} # list
    BY <1>1
  <2>3. IsFiniteSet({x \in list : x < m}) /\ Ix(m) <= n /\ n # Ix(m)
    BY <1>1, <2>2, FS_Subset
  <2>4. Ix(m) \in Nat
    BY <2>3, FS_CardinalityType
  <2> HIDE DEF n, Ix
  <2> QED
    BY <2>1, <2>3, <2>4
<1>4. ASSUME NEW m \in list
      PROVE  S[m] = RangeBlock(n, Ix(m), N)
  <2>1. S[m] = {tp[2] : tp \in RangeAssign(n, <<N>>)[Ix(m)]}
    BY DEF Shares
  <2>2. Ix(m) \in 0..(n - 1)
    BY <1>3, Zenon
  <2> HIDE DEF n, N, Ix, S
  <2>3. RangeAssign(n, <<N>>)[Ix(m)] =
            UNION {{<<u, p>> : p \in RangeBlock(n, Ix(m), <<N>>[u])} : u \in 1..Len(<<N>>)}
    BY <2>2 DEF RangeAssign
  <2>4. UNION {{<<u, p>> : p \in RangeBlock(n, Ix(m), <<N>>[u])} : u \in 1..Len(<<N>>)}
            = {<<1, p>> : p \in RangeBlock(n, Ix(m), N)}
    OBVIOUS
  <2>5. {tp[2] : tp \in {<<1, p>> : p \in RangeBlock(n, Ix(m), N)}}
            = RangeBlock(n, Ix(m), N)
    <3> DEFINE B == RangeBlock(n, Ix(m), N)
    <3> HIDE DEF B
    <3>1. {tp[2] : tp \in {<<1, p>> : p \in B}} = B
      <4> DEFINE T == {<<1, p>> : p \in B}
      <4>1. ASSUME NEW tp \in T
            PROVE  tp[2] \in B
        OBVIOUS
      <4>2. ASSUME NEW p \in B
            PROVE  \E tp \in T : tp[2] = p
        <5>1. <<1, p>> \in T /\ <<1, p>>[2] = p
          OBVIOUS
        <5> QED
          BY <5>1, Zenon
      <4> HIDE DEF T
      <4>3. {tp[2] : tp \in T} = B
        BY <4>1, <4>2
      <4> QED
        BY <4>3 DEF T
    <3> QED
      BY <3>1 DEF B
  <2> QED
    BY <2>1, <2>3, <2>4, <2>5, Zenon
<1>5. N \in Nat /\ Partitions = 0..(N - 1)
  BY PartitionNumbers
<1> HIDE DEF n, N, S
<1>6. ASSUME NEW m \in list
      PROVE  S[m] \subseteq Partitions
  <2> DEFINE i == Ix(m)
  <2>1. n \in Nat \ {0} /\ i \in 0..(n - 1)
    BY <1>3, Zenon
  <2> HIDE DEF i, Ix
  <2>2. /\ RangeStart(n, i, N) \in Nat /\ RangeLength(n, i, N) \in Nat
        /\ RangeStart(n, i, N) + RangeLength(n, i, N) <= N
    BY <1>5, <2>1, BlockType, BlockWithin, Zenon
  <2>3. RangeBlock(n, i, N) \subseteq 0..(N - 1)
    BY <1>5, <2>2 DEF RangeBlock
  <2> QED
    BY <1>4, <1>5, <2>3 DEF i
<1>7. ASSUME NEW m \in list, NEW x \in list, m # x
      PROVE  S[m] \cap S[x] = {}
  <2>1. Ix(m) # Ix(x)
    <3>1. CASE m < x
      <4> HIDE DEF list
      <4>1. Cardinality({y \in list : y < m}) < Cardinality({y \in list : y < x})
        BY <1>1, <3>1, IndexTellsApart
      <4>2. Ix(m) < Ix(x)
        BY <4>1
      <4> HIDE DEF Ix
      <4> QED
        BY <1>3, <4>2
    <3>2. CASE x < m
      <4> HIDE DEF list
      <4>1. Cardinality({y \in list : y < x}) < Cardinality({y \in list : y < m})
        BY <1>1, <3>2, IndexTellsApart
      <4>2. Ix(x) < Ix(m)
        BY <4>1
      <4> HIDE DEF Ix
      <4> QED
        BY <1>3, <4>2
    <3> QED
      BY <1>1, <1>7, <3>1, <3>2
  <2>2. n \in Nat \ {0} /\ Ix(m) \in 0..(n - 1) /\ Ix(x) \in 0..(n - 1)
    BY <1>3, Zenon
  <2> HIDE DEF Ix
  <2> QED
    BY <1>4, <1>5, <2>1, <2>2, BlocksDisjoint
<1> QED
  BY <1>1, <1>2, <1>6, <1>7 DEF S

-----------------------------------------------------------------------------
(* What the coordinator's operations keep.                                 *)

(* What holds of the coordinator whatever its members do.                  *)
CoordinatorInv == GroupTypeOK /\ IsFiniteSet(members) /\ LeaderIsMember

(* A rebalance is prepared with a member as its leader.                    *)
LEMMA TransitionKeeps ==
    ASSUME CoordinatorInv, transitionToRebalanceLocked(members'),
           members' \subseteq MemberIDs
    PROVE  /\ state' = "PreparingRebalance"
           /\ generationID' \in Nat /\ generationID' = generationID + 1
           /\ leaderID' \in members' /\ leaderID' \in MemberIDs
           /\ assignment' = Unassigned
           /\ assignment' \in [MemberIDs -> SUBSET Partitions]
BY DEF CoordinatorInv, GroupTypeOK, transitionToRebalanceLocked, Unassigned

(* JoinGroup.                                                              *)
LEMMA JoinGroupKeeps ==
    ASSUME CoordinatorInv, NEW c \in MemberIDs, JoinGroup(c)
    PROVE  CoordinatorInv' /\ c \in members'
<1>1. members' = members \cup {c} /\ members' \subseteq MemberIDs
  BY DEF CoordinatorInv, GroupTypeOK, JoinGroup
<1>2. IsFiniteSet(members')
  BY <1>1, FS_AddElement DEF CoordinatorInv
<1>3. syncRespCh' \in [MemberIDs -> SyncAnswers \cup {NoAnswer}]
  BY DEF CoordinatorInv, GroupTypeOK, JoinGroup
<1>4. CASE state \in {"Stable", "Empty"}
  <2>1. transitionToRebalanceLocked(members')
    BY <1>4 DEF JoinGroup
  <2> QED
    BY <1>1, <1>2, <1>3, <2>1, TransitionKeeps DEF CoordinatorInv, GroupTypeOK, LeaderIsMember
<1>5. CASE state \notin {"Stable", "Empty"}
  <2>1. UNCHANGED <<state, generationID, leaderID, assignment>>
    BY <1>5 DEF JoinGroup
  <2> QED
    BY <1>1, <1>2, <1>3, <1>5, <2>1 DEF CoordinatorInv, GroupTypeOK, LeaderIsMember
<1> QED
  BY <1>4, <1>5

(* LeaveGroup and checkSessionTimeouts remove members.                     *)
LEMMA RemoveMembersKeeps ==
    ASSUME CoordinatorInv, NEW gone, RemoveMembers(gone)
    PROVE  CoordinatorInv'
<1>1. members' = members \ gone /\ members' \subseteq MemberIDs
  BY DEF CoordinatorInv, GroupTypeOK, RemoveMembers
<1>2. IsFiniteSet(members')
  BY <1>1, FS_Subset DEF CoordinatorInv
<1>3. syncRespCh' \in [MemberIDs -> SyncAnswers \cup {NoAnswer}]
  BY DEF CoordinatorInv, GroupTypeOK, RemoveMembers
<1>4. CASE members' = {}
  <2>1. /\ state' = "Empty" /\ leaderID' = NoLeader
        /\ assignment' = Unassigned /\ generationID' = generationID
    BY <1>4 DEF RemoveMembers
  <2>2. assignment' \in [MemberIDs -> SUBSET Partitions]
    BY <2>1 DEF Unassigned
  <2> QED
    BY <1>1, <1>2, <1>3, <1>4, <2>1, <2>2 DEF CoordinatorInv, GroupTypeOK, LeaderIsMember
<1>5. CASE members' # {}
  <2>1. transitionToRebalanceLocked(members')
    BY <1>5 DEF RemoveMembers
  <2> QED
    BY <1>1, <1>2, <1>3, <1>5, <2>1, TransitionKeeps
    DEF CoordinatorInv, GroupTypeOK, LeaderIsMember
<1> QED
  BY <1>4, <1>5

(* What SyncGroup assigns, and whom it tells.                              *)
NewAssignment(shares) ==
    [x \in MemberIDs |->
        IF x \in DOMAIN shares \cap members THEN shares[x] ELSE assignment[x]]

(* SyncGroup leaves the coordinator as it is, or assigns the shares to the *)
(* members and puts each one's into its channel if there is room.          *)
LEMMA SyncGroupSteps ==
    ASSUME NEW m, NEW shares, SyncGroup(m, shares)
    PROVE  /\ UNCHANGED <<generationID, leaderID, members>>
           /\ \/ UNCHANGED <<assignment, state, syncRespCh>>
              \/ /\ m = leaderID
                 /\ assignment' = NewAssignment(shares)
                 /\ state' = "Stable"
                 /\ syncRespCh' = [x \in MemberIDs |->
                        IF x \in members /\ syncRespCh[x] = NoAnswer
                        THEN [generation |-> generationID,
                              share |-> NewAssignment(shares)[x]]
                        ELSE syncRespCh[x]]
BY DEF SyncGroup, NewAssignment

(* SyncGroup.                                                              *)
LEMMA SyncGroupKeeps ==
    ASSUME CoordinatorInv, NEW m \in members, NEW shares, SyncGroup(m, shares),
           \A x \in DOMAIN shares : shares[x] \subseteq Partitions
    PROVE  CoordinatorInv'
<1>1. CASE UNCHANGED <<generationID, leaderID, members, assignment, state, syncRespCh>>
  BY <1>1 DEF CoordinatorInv, GroupTypeOK, LeaderIsMember
<1>2. CASE /\ UNCHANGED <<generationID, leaderID, members>>
           /\ assignment' = NewAssignment(shares)
           /\ state' = "Stable"
           /\ syncRespCh' = [x \in MemberIDs |->
                    IF x \in members /\ syncRespCh[x] = NoAnswer
                    THEN [generation |-> generationID,
                          share |-> NewAssignment(shares)[x]]
                    ELSE syncRespCh[x]]
  <2>1. NewAssignment(shares) \in [MemberIDs -> SUBSET Partitions]
    BY DEF CoordinatorInv, GroupTypeOK, NewAssignment
  <2>2. syncRespCh' \in [MemberIDs -> SyncAnswers \cup {NoAnswer}]
    BY <1>2, <2>1 DEF CoordinatorInv, GroupTypeOK, SyncAnswers
  <2> QED
    BY <1>2, <2>1, <2>2 DEF CoordinatorInv, GroupTypeOK, LeaderIsMember
<1> QED
  BY <1>1, <1>2, SyncGroupSteps

-----------------------------------------------------------------------------
(* Types, finite member lists and the leader, with any number of           *)
(* joinAndSync goroutines.                                                 *)

GroupInv == CoordinatorInv /\ ClientTypeOK /\ FiniteAnswers

(* The initial state.                                                      *)
LEMMA GroupInvInit == Init => GroupInv
<1> SUFFICES ASSUME Init
             PROVE  GroupInv
  OBVIOUS
<1>1. CoordinatorInv
  BY FS_EmptySet
  DEF Init, GroupInit, CoordinatorInv, GroupTypeOK, LeaderIsMember, Unassigned
<1>2. NoJoinResp \in JoinResponses /\ IsFiniteSet(NoJoinResp.members)
  BY FS_EmptySet DEF NoJoinResp, JoinResponses
<1>3. ClientTypeOK
  BY <1>2 DEF Init, ClientTypeOK
<1>4. FiniteAnswers
  BY <1>2 DEF Init, FiniteAnswers
<1> QED
  BY <1>1, <1>3, <1>4 DEF GroupInv

(* joinAndSync returns.                                                    *)
LEMMA ReturnKeeps ==
    ASSUME ClientTypeOK, FiniteAnswers, NEW c \in MemberIDs, NEW t \in Threads,
           NEW ok \in BOOLEAN, Return(c, t, ok)
    PROVE  /\ pc' \in [MemberIDs \X Threads -> {"off", "join", "adopt", "sync", "wait"}]
           /\ joinResp' \in [MemberIDs \X Threads -> JoinResponses]
           /\ status' \in [MemberIDs -> {"new", "starting", "running", "failed", "closed"}]
           /\ FiniteAnswers'
<1>1. NoJoinResp \in JoinResponses /\ IsFiniteSet(NoJoinResp.members)
  BY FS_EmptySet DEF NoJoinResp, JoinResponses
<1>2. pc' \in [MemberIDs \X Threads -> {"off", "join", "adopt", "sync", "wait"}]
  BY DEF Return, ClientTypeOK
<1>3. joinResp' \in [MemberIDs \X Threads -> JoinResponses]
  BY <1>1 DEF Return, ClientTypeOK
<1>4. status' \in [MemberIDs -> {"new", "starting", "running", "failed", "closed"}]
  BY DEF Return, ClientTypeOK
<1>5. FiniteAnswers'
  BY <1>1 DEF Return, ClientTypeOK, FiniteAnswers
<1> QED
  BY <1>2, <1>3, <1>4, <1>5

(* The invariant speaks of the variables only.                             *)
LEMMA CoordinatorUnchanged ==
    ASSUME CoordinatorInv, UNCHANGED groupVars
    PROVE  CoordinatorInv'
BY DEF CoordinatorInv, GroupTypeOK, LeaderIsMember, groupVars

(* Join, answered or not.                                                  *)
LEMMA JoinKeeps ==
    ASSUME GroupInv, NEW c \in MemberIDs, NEW t \in Threads, Join(c, t)
    PROVE  GroupInv'
<1>1. CoordinatorInv' /\ JoinGroup(c)
  BY JoinGroupKeeps DEF GroupInv, Join
<1>2. joinedIn' \in [MemberIDs -> Nat]
  BY <1>1 DEF GroupInv, CoordinatorInv, GroupTypeOK, ClientTypeOK, Join
<1>3. UNCHANGED <<generation, assigned, assignedIn, expiries>>
  BY DEF Join
<1>4. CASE /\ pc' = [pc EXCEPT ![<<c, t>>] = "adopt"]
           /\ joinResp' = [joinResp EXCEPT ![<<c, t>>] = JoinResponse(c)]
           /\ UNCHANGED <<status, losses>>
  <2>1. JoinResponse(c) \in JoinResponses /\ IsFiniteSet(JoinResponse(c).members)
    BY <1>1, FS_EmptySet
    DEF JoinResponse, JoinResponses, CoordinatorInv, GroupTypeOK
  <2> DEFINE r == JoinResponse(c)
  <2> HIDE DEF r
  <2>2. joinResp' = [joinResp EXCEPT ![<<c, t>>] = r] /\ r \in JoinResponses
           /\ IsFiniteSet(r.members)
    BY <1>4, <2>1 DEF r
  <2>3. ClientTypeOK'
    BY <1>2, <1>3, <1>4, <2>2 DEF GroupInv, ClientTypeOK
  <2>4. FiniteAnswers'
    BY <2>2 DEF GroupInv, ClientTypeOK, FiniteAnswers
  <2> QED
    BY <1>1, <2>3, <2>4 DEF GroupInv
<1>5. CASE Lost /\ Return(c, t, FALSE)
  <2>1. losses' \in Nat
    BY <1>5 DEF Lost, GroupInv, ClientTypeOK
  <2> QED
    BY <1>1, <1>2, <1>3, <1>5, <2>1, ReturnKeeps, Zenon DEF GroupInv, ClientTypeOK
<1> QED
  BY <1>4, <1>5, Zenon DEF Join

(* SendSync.                                                               *)
LEMMA SendSyncKeeps ==
    ASSUME GroupInv, NEW c \in MemberIDs, NEW t \in Threads, SendSync(c, t)
    PROVE  GroupInv'
<1>1. TypeOK /\ FiniteAnswers
  BY DEF GroupInv, CoordinatorInv, TypeOK
<1>2. \A x \in DOMAIN Shares(c, t) : Shares(c, t)[x] \subseteq Partitions
  BY <1>1, SharesAreBlocks, Zenon
<1>3. c \in members
  BY DEF SendSync, SyncError
<1>4. CoordinatorInv'
  BY <1>2, <1>3, SyncGroupKeeps DEF GroupInv, SendSync
<1>5. ClientTypeOK' /\ FiniteAnswers'
  BY DEF GroupInv, ClientTypeOK, FiniteAnswers, SendSync
<1> QED
  BY <1>4, <1>5 DEF GroupInv

(* The rest of joinAndSync.                                                *)
LEMMA joinAndSyncKeeps ==
    ASSUME GroupInv, NEW c \in MemberIDs, NEW t \in Threads, joinAndSync(c, t)
    PROVE  GroupInv'
<1>1. CASE Adopt(c, t)
  <2>1. CoordinatorInv'
    BY <1>1, CoordinatorUnchanged DEF GroupInv, Adopt
  <2>2. joinResp[<<c, t>>].generation \in Nat
    BY DEF GroupInv, ClientTypeOK, JoinResponses
  <2>3. ClientTypeOK' /\ FiniteAnswers'
    BY <1>1, <2>2 DEF GroupInv, ClientTypeOK, FiniteAnswers, Adopt
  <2> QED
    BY <2>1, <2>3 DEF GroupInv
<1>2. CASE SyncFails(c, t)
  <2>1. CoordinatorInv'
    BY <1>2, CoordinatorUnchanged DEF GroupInv, SyncFails
  <2>2. losses' \in Nat
    BY <1>2 DEF SyncFails, Lost, GroupInv, ClientTypeOK
  <2> QED
    BY <1>2, <2>1, <2>2, ReturnKeeps, Zenon DEF GroupInv, ClientTypeOK, SyncFails
<1>3. CASE Assigned(c, t)
  <2>1. /\ syncRespCh[c] \in SyncAnswers
        /\ syncRespCh[c].share \subseteq Partitions
        /\ syncRespCh[c].generation \in Nat
    BY <1>3 DEF Assigned, GroupInv, CoordinatorInv, GroupTypeOK, SyncAnswers
  <2>2. CoordinatorInv'
    BY <1>3 DEF Assigned, GroupInv, CoordinatorInv, GroupTypeOK, LeaderIsMember
  <2>3. losses' \in Nat
    <3>1. losses' = losses \/ Lost
      BY <1>3, Zenon DEF Assigned
    <3> QED
      BY <3>1 DEF Lost, GroupInv, ClientTypeOK
  <2>4. /\ assigned' \in [MemberIDs -> SUBSET Partitions]
        /\ assignedIn' \in [MemberIDs -> Nat]
    BY <1>3, <2>1, Zenon DEF Assigned, GroupInv, ClientTypeOK
  <2>5. \E ok \in BOOLEAN : Return(c, t, ok)
    BY <1>3, Zenon DEF Assigned
  <2>6. /\ pc' \in [MemberIDs \X Threads -> {"off", "join", "adopt", "sync", "wait"}]
        /\ joinResp' \in [MemberIDs \X Threads -> JoinResponses]
        /\ status' \in [MemberIDs -> {"new", "starting", "running", "failed", "closed"}]
        /\ FiniteAnswers'
    BY <2>5, ReturnKeeps, Zenon DEF GroupInv
  <2>7. UNCHANGED <<generation, joinedIn, expiries>>
    BY <1>3, Zenon DEF Assigned
  <2>8. ClientTypeOK'
    BY <2>3, <2>4, <2>6, <2>7 DEF GroupInv, ClientTypeOK
  <2> QED
    BY <2>2, <2>6, <2>8, Zenon DEF GroupInv
<1>4. CASE SyncTimesOut(c, t)
  <2>1. CoordinatorInv'
    BY <1>4, CoordinatorUnchanged DEF GroupInv, SyncTimesOut
  <2> QED
    BY <1>4, <2>1, ReturnKeeps, Zenon DEF GroupInv, ClientTypeOK, SyncTimesOut
<1> QED
  BY <1>1, <1>2, <1>3, <1>4, JoinKeeps, SendSyncKeeps DEF joinAndSync

(* Every step.                                                             *)
LEMMA GroupInvNext == GroupInv /\ [Next]_vars => GroupInv'
<1> SUFFICES ASSUME GroupInv, [Next]_vars
             PROVE  GroupInv'
  OBVIOUS
<1>1. ASSUME NEW c \in MemberIDs, NewGroupConsumer(c)
      PROVE  GroupInv'
  <2>1. CoordinatorInv'
    BY <1>1, CoordinatorUnchanged DEF GroupInv, NewGroupConsumer
  <2>2. ClientTypeOK' /\ FiniteAnswers'
    BY <1>1 DEF GroupInv, ClientTypeOK, FiniteAnswers, NewGroupConsumer
  <2> QED
    BY <2>1, <2>2 DEF GroupInv
<1>2. ASSUME NEW c \in MemberIDs, HeartbeatFails(c)
      PROVE  GroupInv'
  <2>1. CoordinatorInv'
    BY <1>2, CoordinatorUnchanged DEF GroupInv, HeartbeatFails
  <2>2. ClientTypeOK' /\ FiniteAnswers'
    BY <1>2 DEF GroupInv, ClientTypeOK, FiniteAnswers, HeartbeatFails
  <2> QED
    BY <2>1, <2>2 DEF GroupInv
<1>3. ASSUME NEW c \in MemberIDs, Close(c)
      PROVE  GroupInv'
  <2>1. CoordinatorInv'
    BY <1>3, CoordinatorUnchanged, RemoveMembersKeeps DEF GroupInv, Close, LeaveGroup
  <2>2. ClientTypeOK' /\ FiniteAnswers'
    BY <1>3 DEF GroupInv, ClientTypeOK, FiniteAnswers, Close
  <2> QED
    BY <2>1, <2>2 DEF GroupInv
<1>4. CASE Expire
  <2>1. CoordinatorInv'
    BY <1>4, RemoveMembersKeeps DEF GroupInv, Expire, checkSessionTimeouts
  <2>2. ClientTypeOK' /\ FiniteAnswers'
    BY <1>4 DEF GroupInv, ClientTypeOK, FiniteAnswers, Expire
  <2> QED
    BY <2>1, <2>2 DEF GroupInv
<1>5. CASE UNCHANGED vars
  <2>1. CoordinatorInv'
    BY <1>5, CoordinatorUnchanged DEF GroupInv, vars
  <2>2. ClientTypeOK' /\ FiniteAnswers'
    BY <1>5 DEF GroupInv, ClientTypeOK, FiniteAnswers, vars, clientVars
  <2> QED
    BY <2>1, <2>2 DEF GroupInv
<1> QED
  BY <1>1, <1>2, <1>3, <1>4, <1>5, joinAndSyncKeeps, Zenon DEF Next

(* The invariant holds throughout.                                         *)
LEMMA GroupInvHolds == Spec => []GroupInv
BY GroupInvInit, GroupInvNext, PTL DEF Spec

(* Type correctness of the coordinator and its consumers.                  *)
THEOREM TypeInvariant == Spec => []TypeOK
<1>1. GroupInv => TypeOK
  BY DEF GroupInv, CoordinatorInv, TypeOK
<1> QED
  BY <1>1, GroupInvHolds, PTL

(* A group has a leader that is one of its members exactly while it has    *)
(* members, for any number of members, joinAndSync goroutines, expired     *)
(* sessions and lost answers.                                              *)
THEOREM LeaderIsAlwaysMember == Spec => []LeaderIsMember
<1>1. GroupInv => LeaderIsMember
  BY DEF GroupInv, CoordinatorInv
<1> QED
  BY <1>1, GroupInvHolds, PTL

-----------------------------------------------------------------------------
(* No partition for two members, when a consumer runs one joinAndSync at a *)
(* time.  With two of them the leader may send its shares twice in one     *)
(* generation, from two member lists, and the property fails.              *)

OneThread == \A t, u \in Threads : t = u

(* A leader that is yet to send its shares finds no stable group.          *)
LeaderSyncsOnce ==
    \A c \in MemberIDs, t \in Threads :
        /\ pc[<<c, t>>] \in {"adopt", "sync"}
        /\ joinResp[<<c, t>>].generation = generationID
        /\ c = leaderID
        => state # "Stable"

(* No share is of a later generation than the group's, nor of the group's  *)
(* own while that is being prepared.                                       *)
OfPast(g) ==
    g <= generationID /\ (state = "PreparingRebalance" => g < generationID)

SharesOfPast ==
    \A c \in MemberIDs :
        /\ OfPast(assignedIn[c])
        /\ syncRespCh[c] # NoAnswer => OfPast(syncRespCh[c].generation)

(* Shares of one generation that are still in the channels.                *)
AnswersApart ==
    \A c, d \in MemberIDs :
        c # d /\ syncRespCh[c] # NoAnswer =>
            /\ syncRespCh[c].generation = assignedIn[d]
                  => syncRespCh[c].share \cap assigned[d] = {}
            /\ syncRespCh[d] # NoAnswer
                  /\ syncRespCh[c].generation = syncRespCh[d].generation
                  => syncRespCh[c].share \cap syncRespCh[d].share = {}

HandedOut == SharesOfPast /\ SharesOfAGenerationDisjoint /\ AnswersApart

ShareInv == LeaderSyncsOnce /\ SharesDisjoint /\ HandedOut

(* The initial state.                                                      *)
LEMMA ShareInvInit == Init => ShareInv
<1> SUFFICES ASSUME Init
             PROVE  ShareInv
  OBVIOUS
<1>1. LeaderSyncsOnce
  BY DEF Init, GroupInit, LeaderSyncsOnce
<1>2. SharesDisjoint
  BY DEF Init, GroupInit, SharesDisjoint, Unassigned
<1>3. HandedOut
  BY DEF Init, GroupInit, HandedOut, SharesOfPast, OfPast, SharesOfAGenerationDisjoint,
         AnswersApart
<1> QED
  BY <1>1, <1>2, <1>3 DEF ShareInv

(* The coordinator keeps its assignment, or drops it.                      *)
KeepsOrDrops ==
    \/ UNCHANGED <<state, generationID, assignment>>
    \/ /\ state' = "PreparingRebalance"
       /\ generationID' = generationID + 1
       /\ assignment' = Unassigned
    \/ /\ state' = "Empty"
       /\ generationID' = generationID
       /\ assignment' = Unassigned

ChannelsOnlyEmptied ==
    \A x \in MemberIDs : syncRespCh'[x] = syncRespCh[x] \/ syncRespCh'[x] = NoAnswer

(* The assignment stays one, whether kept or dropped.                      *)
LEMMA SharesDisjointKept ==
    ASSUME SharesDisjoint, KeepsOrDrops
    PROVE  SharesDisjoint'
BY DEF SharesDisjoint, KeepsOrDrops, Unassigned

(* A share of the past stays one.                                          *)
LEMMA OfPastKept ==
    ASSUME GroupInv, KeepsOrDrops, NEW g \in Nat, OfPast(g)
    PROVE  g <= generationID' /\ (state' = "PreparingRebalance" => g < generationID')
<1>1. generationID \in Nat
  BY DEF GroupInv, CoordinatorInv, GroupTypeOK
<1> QED
  BY <1>1 DEF KeepsOrDrops, OfPast

(* A step that hands out no share.                                         *)
LEMMA HandedOutKept ==
    ASSUME GroupInv, HandedOut, KeepsOrDrops, ChannelsOnlyEmptied,
           UNCHANGED <<assigned, assignedIn>>
    PROVE  HandedOut'
<1>1. ASSUME NEW c \in MemberIDs
      PROVE  /\ assignedIn[c] \in Nat
             /\ syncRespCh[c] # NoAnswer => syncRespCh[c].generation \in Nat
  BY DEF GroupInv, CoordinatorInv, GroupTypeOK, ClientTypeOK, SyncAnswers
<1>2. SharesOfPast'
  <2> SUFFICES ASSUME NEW c \in MemberIDs
               PROVE  /\ OfPast(assignedIn[c])'
                      /\ syncRespCh'[c] # NoAnswer => OfPast(syncRespCh[c].generation)'
    BY DEF SharesOfPast
  <2>1. OfPast(assignedIn[c])'
    BY <1>1, OfPastKept DEF HandedOut, SharesOfPast, OfPast
  <2>2. ASSUME syncRespCh'[c] # NoAnswer
        PROVE  OfPast(syncRespCh[c].generation)'
    <3>1. syncRespCh'[c] = syncRespCh[c]
      BY <2>2 DEF ChannelsOnlyEmptied
    <3> QED
      BY <1>1, <2>2, <3>1, OfPastKept DEF HandedOut, SharesOfPast, OfPast
  <2> QED
    BY <2>1, <2>2
<1>3. SharesOfAGenerationDisjoint'
  BY DEF HandedOut, SharesOfAGenerationDisjoint
<1>4. AnswersApart'
  BY DEF HandedOut, AnswersApart, ChannelsOnlyEmptied
<1> QED
  BY <1>2, <1>3, <1>4 DEF HandedOut

(* Joining, leaving and expiring hand out no share.                        *)
LEMMA JoinGroupDrops ==
    ASSUME GroupInv, NEW c \in MemberIDs, JoinGroup(c)
    PROVE  KeepsOrDrops /\ ChannelsOnlyEmptied
<1>1. KeepsOrDrops
  BY DEF JoinGroup, transitionToRebalanceLocked, KeepsOrDrops
<1>2. ChannelsOnlyEmptied
  BY DEF JoinGroup, ChannelsOnlyEmptied, GroupInv, CoordinatorInv, GroupTypeOK
<1> QED
  BY <1>1, <1>2

LEMMA RemoveMembersDrops ==
    ASSUME NEW gone, RemoveMembers(gone)
    PROVE  KeepsOrDrops /\ ChannelsOnlyEmptied /\ state' # "Stable"
BY DEF RemoveMembers, transitionToRebalanceLocked, KeepsOrDrops, ChannelsOnlyEmptied

(* A goroutine that has yet to sync after a step had yet to before it,     *)
(* with the same answer.                                                   *)
NoNewSyncs ==
    \A c \in MemberIDs, t \in Threads :
        pc'[<<c, t>>] \in {"adopt", "sync"} =>
            /\ pc[<<c, t>>] \in {"adopt", "sync"}
            /\ joinResp'[<<c, t>>] = joinResp[<<c, t>>]

(* Such a step leaves the leader with no more to send.                     *)
LEMMA LeaderSyncsOnceKept ==
    ASSUME LeaderSyncsOnce, NoNewSyncs, UNCHANGED <<state, generationID, leaderID>>
    PROVE  LeaderSyncsOnce'
BY DEF LeaderSyncsOnce, NoNewSyncs

LEMMA ReturnStartsNoSync ==
    ASSUME ClientTypeOK, NEW c \in MemberIDs, NEW t \in Threads, NEW ok \in BOOLEAN,
           Return(c, t, ok)
    PROVE  NoNewSyncs
BY DEF Return, ClientTypeOK, NoNewSyncs

(* A goroutine moves on.                                                   *)
LEMMA MoveStartsNoSync ==
    ASSUME ClientTypeOK, NEW c \in MemberIDs, NEW t \in Threads, NEW next,
           pc' = [pc EXCEPT ![<<c, t>>] = next], UNCHANGED joinResp,
           next \in {"adopt", "sync"} => pc[<<c, t>>] \in {"adopt", "sync"}
    PROVE  NoNewSyncs
BY DEF ClientTypeOK, NoNewSyncs

(* The states of a group, and what is typed of a step's variables.         *)
LEMMA GroupStates ==
    ASSUME GroupInv
    PROVE  /\ state \in {"Empty", "PreparingRebalance", "Stable"}
           /\ members # {} => state # "Empty"
           /\ generationID \in Nat
           /\ assignedIn \in [MemberIDs -> Nat]
           /\ \A x \in MemberIDs :
                 syncRespCh[x] # NoAnswer => syncRespCh[x].generation \in Nat
BY DEF GroupInv, CoordinatorInv, GroupTypeOK, LeaderIsMember, ClientTypeOK, SyncAnswers

(* The leader of the generation being prepared assigns and hands out       *)
(* shares; they are the first of this generation.                          *)
LEMMA SendSyncHandsOut ==
    ASSUME OneThread, GroupInv, ShareInv,
           NEW c \in MemberIDs, NEW t \in Threads, SendSync(c, t)
    PROVE  ShareInv'
<1> DEFINE shares == Shares(c, t)
           list == joinResp[<<c, t>>].members
           new == NewAssignment(shares)
<1>1. TypeOK /\ FiniteAnswers
  BY DEF GroupInv, CoordinatorInv, TypeOK
<1>2. /\ DOMAIN shares = list
      /\ \A m, x \in list : m # x => shares[m] \cap shares[x] = {}
  BY <1>1, SharesAreBlocks
<1>3. /\ pc[<<c, t>>] = "sync" /\ pc' = [pc EXCEPT ![<<c, t>>] = "wait"]
      /\ joinResp[<<c, t>>].generation = generationID
      /\ c \in members
      /\ SyncGroup(c, shares)
      /\ UNCHANGED <<joinResp, assigned, assignedIn>>
  <2>1. SyncError(c, joinResp[<<c, t>>].generation) = "None"
    BY Zenon DEF SendSync
  <2>2. joinResp[<<c, t>>].generation = generationID /\ c \in members
    BY <2>1 DEF SyncError
  <2> QED
    BY <2>2, Zenon DEF SendSync
<1>4. /\ UNCHANGED <<generationID, leaderID, members>>
      /\ \/ UNCHANGED <<assignment, state, syncRespCh>>
         \/ /\ c = leaderID
            /\ assignment' = new
            /\ state' = "Stable"
            /\ syncRespCh' = [x \in MemberIDs |->
                    IF x \in members /\ syncRespCh[x] = NoAnswer
                    THEN [generation |-> generationID, share |-> new[x]]
                    ELSE syncRespCh[x]]
  BY <1>3, SyncGroupSteps
<1>5. NoNewSyncs
  BY <1>3, MoveStartsNoSync, Zenon DEF GroupInv
<1>6. CASE UNCHANGED <<assignment, state, syncRespCh>>
  <2>1. KeepsOrDrops /\ ChannelsOnlyEmptied
    BY <1>4, <1>6 DEF KeepsOrDrops, ChannelsOnlyEmptied
  <2>2. LeaderSyncsOnce'
    BY <1>4, <1>5, <1>6, LeaderSyncsOnceKept DEF ShareInv
  <2> QED
    BY <1>3, <2>1, <2>2, SharesDisjointKept, HandedOutKept DEF ShareInv
<1>7. CASE /\ c = leaderID
           /\ assignment' = new
           /\ state' = "Stable"
           /\ syncRespCh' = [x \in MemberIDs |->
                    IF x \in members /\ syncRespCh[x] = NoAnswer
                    THEN [generation |-> generationID, share |-> new[x]]
                    ELSE syncRespCh[x]]
  <2>1. state = "PreparingRebalance"
    <3>1. state # "Stable"
      BY <1>3, <1>7 DEF ShareInv, LeaderSyncsOnce
    <3>2. members # {}
      BY <1>3
    <3> QED
      BY <3>1, <3>2, GroupStates, Zenon
  <2>2. assignment = Unassigned
    BY <2>1 DEF ShareInv, SharesDisjoint
  <2>3. ASSUME NEW m \in MemberIDs, NEW x \in MemberIDs, m # x
        PROVE  new[m] \cap new[x] = {}
    BY <1>2, <2>2, <2>3 DEF NewAssignment, Unassigned
  <2> HIDE DEF new, shares
  <2>4. SharesDisjoint'
    BY <1>7, <2>3 DEF SharesDisjoint
  <2>5. generationID \in Nat /\ assignedIn \in [MemberIDs -> Nat]
    BY GroupStates
  <2>6. ASSUME NEW x \in MemberIDs
        PROVE  /\ assignedIn[x] < generationID
               /\ syncRespCh[x] # NoAnswer =>
                     /\ syncRespCh[x].generation \in Nat
                     /\ syncRespCh[x].generation < generationID
    <3>1. syncRespCh[x] # NoAnswer => syncRespCh[x].generation \in Nat
      BY GroupStates
    <3> QED
      BY <2>1, <3>1 DEF ShareInv, HandedOut, SharesOfPast, OfPast
  <2>7. ASSUME NEW x \in MemberIDs, syncRespCh'[x] # NoAnswer
        PROVE  \/ /\ syncRespCh'[x].generation = generationID
                  /\ syncRespCh'[x].share = new[x]
               \/ syncRespCh[x] # NoAnswer /\ syncRespCh'[x] = syncRespCh[x]
    BY <1>7, <2>7
  <2>8. SharesOfPast'
    <3> SUFFICES ASSUME NEW x \in MemberIDs
                 PROVE  /\ assignedIn'[x] <= generationID'
                        /\ syncRespCh'[x] # NoAnswer
                              => syncRespCh'[x].generation <= generationID'
      BY <1>7 DEF SharesOfPast, OfPast
    <3>1. assignedIn'[x] = assignedIn[x] /\ generationID' = generationID
      BY <1>3, <1>4
    <3> QED
      BY <2>5, <2>6, <2>7, <3>1
  <2>9. SharesOfAGenerationDisjoint'
    BY <1>3 DEF ShareInv, HandedOut, SharesOfAGenerationDisjoint
  <2>10. AnswersApart'
    <3> SUFFICES ASSUME NEW m \in MemberIDs, NEW x \in MemberIDs, m # x,
                        syncRespCh'[m] # NoAnswer
                 PROVE  /\ syncRespCh'[m].generation = assignedIn'[x]
                              => syncRespCh'[m].share \cap assigned'[x] = {}
                        /\ syncRespCh'[x] # NoAnswer
                              /\ syncRespCh'[m].generation = syncRespCh'[x].generation
                              => syncRespCh'[m].share \cap syncRespCh'[x].share = {}
      BY Zenon DEF AnswersApart
    <3>1. syncRespCh'[m].generation = assignedIn'[x]
            => syncRespCh'[m].share \cap assigned'[x] = {}
      BY <1>3, <2>5, <2>6, <2>7 DEF ShareInv, HandedOut, AnswersApart
    <3>2. ASSUME syncRespCh'[x] # NoAnswer,
                 syncRespCh'[m].generation = syncRespCh'[x].generation
          PROVE  syncRespCh'[m].share \cap syncRespCh'[x].share = {}
      <4>1. CASE syncRespCh'[m].share = new[m] /\ syncRespCh'[x].share = new[x]
        BY <2>3, <4>1
      <4>2. CASE /\ syncRespCh[m] # NoAnswer /\ syncRespCh'[m] = syncRespCh[m]
                 /\ syncRespCh[x] # NoAnswer /\ syncRespCh'[x] = syncRespCh[x]
        BY <3>2, <4>2 DEF ShareInv, HandedOut, AnswersApart
      <4>3. CASE \/ /\ syncRespCh'[m].generation = generationID
                    /\ syncRespCh[x] # NoAnswer /\ syncRespCh'[x] = syncRespCh[x]
                 \/ /\ syncRespCh'[x].generation = generationID
                    /\ syncRespCh[m] # NoAnswer /\ syncRespCh'[m] = syncRespCh[m]
        BY <2>5, <2>6, <3>2, <4>3
      <4> QED
        BY <2>7, <3>2, <4>1, <4>2, <4>3
    <3> QED
      BY <3>1, <3>2
  <2>11. LeaderSyncsOnce'
    <3> SUFFICES ASSUME NEW d \in MemberIDs, NEW u \in Threads,
                        pc'[<<d, u>>] \in {"adopt", "sync"}, d = leaderID'
                 PROVE  FALSE
      BY DEF LeaderSyncsOnce
    <3>1. d = c /\ u = t
      BY <1>4, <1>7 DEF OneThread
    <3>2. pc'[<<c, t>>] = "wait"
      BY <1>3 DEF GroupInv, ClientTypeOK
    <3> QED
      BY <3>1, <3>2
  <2> QED
    BY <2>4, <2>8, <2>9, <2>10, <2>11 DEF ShareInv, HandedOut
<1> QED
  BY <1>4, <1>6, <1>7

(* A consumer takes its answer, or loses it.                               *)
LEMMA AssignedKeepsShares ==
    ASSUME GroupInv, ShareInv,
           NEW c \in MemberIDs, NEW t \in Threads, Assigned(c, t)
    PROVE  ShareInv'
<1>1. /\ UNCHANGED <<state, generationID, leaderID, members, assignment>>
      /\ syncRespCh' = [syncRespCh EXCEPT ![c] = NoAnswer]
      /\ syncRespCh[c] # NoAnswer
      /\ \/ /\ assigned' = [assigned EXCEPT ![c] = syncRespCh[c].share]
            /\ assignedIn' = [assignedIn EXCEPT ![c] = syncRespCh[c].generation]
         \/ UNCHANGED <<assigned, assignedIn>>
  BY Zenon DEF Assigned
<1>2. \E ok \in BOOLEAN : Return(c, t, ok)
  BY Zenon DEF Assigned
<1>3. LeaderSyncsOnce'
  BY <1>1, <1>2, ReturnStartsNoSync, LeaderSyncsOnceKept DEF ShareInv, GroupInv
<1>4. KeepsOrDrops /\ ChannelsOnlyEmptied
  BY <1>1 DEF KeepsOrDrops, ChannelsOnlyEmptied, GroupInv, CoordinatorInv, GroupTypeOK
<1>5. SharesDisjoint'
  BY <1>4, SharesDisjointKept DEF ShareInv
<1>6. CASE UNCHANGED <<assigned, assignedIn>>
  BY <1>3, <1>4, <1>5, <1>6, HandedOutKept DEF ShareInv
<1>7. CASE /\ assigned' = [assigned EXCEPT ![c] = syncRespCh[c].share]
           /\ assignedIn' = [assignedIn EXCEPT ![c] = syncRespCh[c].generation]
  <2>1. /\ assigned'[c] = syncRespCh[c].share
        /\ assignedIn'[c] = syncRespCh[c].generation
        /\ syncRespCh'[c] = NoAnswer
        /\ \A x \in MemberIDs : x # c => /\ assigned'[x] = assigned[x]
                                         /\ assignedIn'[x] = assignedIn[x]
                                         /\ syncRespCh'[x] = syncRespCh[x]
    BY <1>1, <1>7 DEF GroupInv, CoordinatorInv, GroupTypeOK, ClientTypeOK
  <2>2. SharesOfPast'
    BY <1>1, <2>1, SMTT(20) DEF ShareInv, HandedOut, SharesOfPast, OfPast
  <2>3. SharesOfAGenerationDisjoint'
    BY <1>1, <2>1, SMTT(20) DEF ShareInv, HandedOut, SharesOfAGenerationDisjoint, AnswersApart
  <2>4. AnswersApart'
    BY <1>1, <2>1 DEF ShareInv, HandedOut, AnswersApart
  <2> QED
    BY <1>3, <1>5, <2>2, <2>3, <2>4, Zenon DEF ShareInv, HandedOut
<1> QED
  BY <1>1, <1>6, <1>7

(* A step of a consumer that leaves the coordinator and the shares alone.  *)
LEMMA ClientStepKeepsShares ==
    ASSUME GroupInv, ShareInv, NoNewSyncs,
           UNCHANGED <<groupVars, assigned, assignedIn>>
    PROVE  ShareInv'
<1>1. KeepsOrDrops /\ ChannelsOnlyEmptied
  BY DEF KeepsOrDrops, ChannelsOnlyEmptied, groupVars
<1>2. LeaderSyncsOnce'
  BY LeaderSyncsOnceKept DEF ShareInv, groupVars
<1> QED
  BY <1>1, <1>2, SharesDisjointKept, HandedOutKept DEF ShareInv

(* Every step.                                                             *)
LEMMA ShareInvNext ==
    ASSUME OneThread, GroupInv, ShareInv, [Next]_vars
    PROVE  ShareInv'
<1>1. ASSUME NEW c \in MemberIDs, NewGroupConsumer(c)
      PROVE  ShareInv'
  <2>1. NoNewSyncs
    <3>1. PICK t \in Threads :
            pc' = [pc EXCEPT ![<<c, t>>] = "join"] /\ UNCHANGED joinResp
      BY <1>1, Zenon DEF NewGroupConsumer
    <3> QED
      BY <3>1, MoveStartsNoSync, Zenon DEF GroupInv
  <2> QED
    BY <1>1, <2>1, ClientStepKeepsShares DEF NewGroupConsumer
<1>2. ASSUME NEW c \in MemberIDs, HeartbeatFails(c)
      PROVE  ShareInv'
  <2>1. NoNewSyncs
    <3>1. PICK t \in Threads :
            pc' = [pc EXCEPT ![<<c, t>>] = "join"] /\ UNCHANGED joinResp
      BY <1>2, Zenon DEF HeartbeatFails
    <3> QED
      BY <3>1, MoveStartsNoSync, Zenon DEF GroupInv
  <2> QED
    BY <1>2, <2>1, ClientStepKeepsShares DEF HeartbeatFails
<1>3. ASSUME NEW c \in MemberIDs, Close(c)
      PROVE  ShareInv'
  <2>1. UNCHANGED <<pc, joinResp, assigned, assignedIn>>
    BY <1>3 DEF Close
  <2>2. CASE UNCHANGED groupVars
    BY <2>1, <2>2, ClientStepKeepsShares DEF NoNewSyncs
  <2>3. CASE RemoveMembers({c})
    <3>1. LeaderSyncsOnce'
      BY <2>3, RemoveMembersDrops DEF LeaderSyncsOnce
    <3> QED
      BY <2>1, <2>3, <3>1, RemoveMembersDrops, SharesDisjointKept, HandedOutKept
      DEF ShareInv
  <2> QED
    BY <1>3, <2>2, <2>3 DEF Close, LeaveGroup
<1>4. CASE Expire
  <2>1. PICK expired : RemoveMembers(expired) /\ UNCHANGED <<assigned, assignedIn>>
    BY <1>4 DEF Expire, checkSessionTimeouts
  <2>2. LeaderSyncsOnce'
    BY <2>1, RemoveMembersDrops DEF LeaderSyncsOnce
  <2> QED
    BY <2>1, <2>2, RemoveMembersDrops, SharesDisjointKept, HandedOutKept DEF ShareInv
<1>5. ASSUME NEW c \in MemberIDs, NEW t \in Threads, Join(c, t)
      PROVE  ShareInv'
  <2>1. JoinGroup(c) /\ UNCHANGED <<assigned, assignedIn>>
    BY <1>5 DEF Join
  <2>2. state' # "Stable"
    BY <2>1 DEF JoinGroup, transitionToRebalanceLocked, GroupInv, CoordinatorInv, GroupTypeOK
  <2>3. LeaderSyncsOnce'
    BY <2>2 DEF LeaderSyncsOnce
  <2> QED
    BY <2>1, <2>3, JoinGroupDrops, SharesDisjointKept, HandedOutKept DEF ShareInv
<1>6. ASSUME NEW c \in MemberIDs, NEW t \in Threads, Adopt(c, t)
      PROVE  ShareInv'
  <2>1. NoNewSyncs
    BY <1>6, MoveStartsNoSync, Zenon DEF Adopt, GroupInv
  <2> QED
    BY <1>6, <2>1, ClientStepKeepsShares DEF Adopt
<1>7. ASSUME NEW c \in MemberIDs, NEW t \in Threads, SyncFails(c, t)
      PROVE  ShareInv'
  BY <1>7, ReturnStartsNoSync, ClientStepKeepsShares, Zenon DEF SyncFails, GroupInv
<1>8. ASSUME NEW c \in MemberIDs, NEW t \in Threads, SyncTimesOut(c, t)
      PROVE  ShareInv'
  BY <1>8, ReturnStartsNoSync, ClientStepKeepsShares, Zenon DEF SyncTimesOut, GroupInv
<1>9. CASE UNCHANGED vars
  BY <1>9, ClientStepKeepsShares DEF vars, clientVars, NoNewSyncs
<1> QED
  BY <1>1, <1>2, <1>3, <1>4, <1>5, <1>6, <1>7, <1>8, <1>9, SendSyncHandsOut,
     AssignedKeepsShares, Zenon DEF Next, joinAndSync

(* The invariant holds throughout.                                         *)
LEMMA ShareInvHolds ==
    ASSUME OneThread
    PROVE  Spec => []ShareInv
<1>1. GroupInv /\ ShareInv /\ [Next]_vars => ShareInv'
  BY ShareInvNext
<1> QED
  BY <1>1, ShareInvInit, GroupInvHolds, PTL DEF Spec

(* No partition is assigned to two members, and nothing is assigned while  *)
(* a rebalance is prepared, for any members and partitions, when no        *)
(* consumer runs two joinAndSync goroutines at once.                       *)
THEOREM SharesAlwaysDisjoint ==
    ASSUME OneThread
    PROVE  Spec => []SharesDisjoint
<1>1. ShareInv => SharesDisjoint
  BY DEF ShareInv
<1> QED
  BY <1>1, ShareInvHolds, PTL

(* Two consumers that took their shares from one generation own no         *)
(* partition in common, under the same condition.                          *)
THEOREM SharesOfAGenerationAlwaysDisjoint ==
    ASSUME OneThread
    PROVE  Spec => []SharesOfAGenerationDisjoint
<1>1. ShareInv => SharesOfAGenerationDisjoint
  BY DEF ShareInv, HandedOut
<1> QED
  BY <1>1, ShareInvHolds, PTL

=============================================================================
