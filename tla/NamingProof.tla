------------------------------- MODULE NamingProof -------------------------------
(***************************************************************************)
(* What the global half of a link run does, for any repositories, trees    *)
(* and claims: the plan of the join loses and repeats no pair and spreads  *)
(* its parts evenly.                                                       *)
(***************************************************************************)
EXTENDS Naming, FiniteSetTheorems, SequenceTheorems, WellFoundedInduction, TLAPS

------------------------------------------------------------------------------
(* Numbers and finite sets                                                 *)

LEMMA LeastNumber ==
    ASSUME NEW T, T \subseteq Nat, T # {}
    PROVE  \E x \in T : \A y \in T : x <= y
<1> DEFINE R == OpToRel(<, Nat)
<1>1. \A m, n \in Nat : m < n => <<m, n>> \in R
      BY DEF OpToRel
<1>2. IsWellFoundedOn(R, Nat)
      BY NatLessThanWellFounded
<1> HIDE DEF R
<1>3. PICK x \in T : \A y \in T : ~(<<y, x>> \in R)
      BY <1>2, WFMin
<1>4. ASSUME NEW y \in T PROVE x <= y
  <2>1. x \in Nat /\ y \in Nat /\ ~(y < x)
        BY <1>1, <1>3
  <2>2. QED BY <2>1
<1>5. QED BY <1>4

\* A set of numbers that has zero, and with each its successor, has all.
LEMMA AllNumbers ==
    ASSUME NEW S, 0 \in S, \A n \in Nat : n \in S => n + 1 \in S
    PROVE  Nat \subseteq S
<1> DEFINE T == Nat \ S
<1>1. SUFFICES ASSUME T # {} PROVE FALSE
      OBVIOUS
<1>2. PICK x \in T : \A y \in T : x <= y
      BY <1>1, LeastNumber
<1>3. x \in Nat /\ x # 0 /\ x - 1 \in Nat /\ x - 1 < x /\ (x - 1) + 1 = x
      OBVIOUS
<1>4. x - 1 \in S
      BY <1>2, <1>3
<1>5. QED BY <1>3, <1>4

LEMMA MinIs ==
    ASSUME NEW T, T \subseteq Nat, T # {}
    PROVE  Min(T) \in T /\ \A y \in T : Min(T) <= y
BY LeastNumber DEF Min

LEMMA MaxIs ==
    ASSUME NEW T, IsFiniteSet(T), T \subseteq Nat, T # {}
    PROVE  Max(T) \in T /\ \A y \in T : y <= Max(T)
<1> DEFINE Bounds == {n \in Nat : \E x \in T : Cardinality({y \in T : y > x}) = n}
<1>1. \A x \in T : IsFiniteSet({y \in T : y > x}) /\ Cardinality({y \in T : y > x}) \in Nat
      BY FS_Subset, FS_CardinalityType
<1>2. PICK n \in Bounds : \A m \in Bounds : n <= m
      BY <1>1, LeastNumber
<1>3. PICK x \in T : Cardinality({y \in T : y > x}) = n
      BY <1>2
<1>4. ASSUME NEW y \in T PROVE y <= x
  <2>1. SUFFICES ASSUME y > x PROVE FALSE
        OBVIOUS
  <2> DEFINE A == {z \in T : z > y}
             B == {z \in T : z > x}
  <2>0. /\ x \in Nat /\ y \in Nat /\ ~(y > y)
        /\ \A z \in T : z > y => z > x
        BY <2>1
  <2>2. A \subseteq B /\ y \in B /\ y \notin A
        BY <2>0, <2>1
  <2>3. Cardinality(A) \in Bounds /\ Cardinality(B) = n /\ IsFiniteSet(B)
        BY <1>1, <1>3
  <2> HIDE DEF A, B, Bounds
  <2>4. Cardinality(A) <= Cardinality(B) /\ Cardinality(A) # Cardinality(B)
        BY <2>2, <2>3, FS_Subset
  <2>5. n <= Cardinality(A) /\ Cardinality(A) \in Nat /\ n \in Nat
        BY <1>2, <2>3 DEF Bounds
  <2>6. QED BY <2>3, <2>4, <2>5
<1>5. QED BY <1>4 DEF Max

\* A part of the numbers from a on that is no longer than n
LEMMA QuotientIs ==
    ASSUME NEW a \in Nat, NEW b \in Nat \ {0}
    PROVE  /\ a \div b \in Nat
           /\ (a \div b) * b <= a /\ a <= (a \div b) * b + b - 1
BY SMTT(30)

LEMMA Times ==
    ASSUME NEW a \in Nat, NEW b \in Nat, NEW k \in Nat, a <= b
    PROVE  a * k \in Nat /\ b * k \in Nat /\ a * k <= b * k
OBVIOUS

------------------------------------------------------------------------------
(* What a worker reads: Load                                               *)

Pairs(shards) == UNION {{s} \X (s.part \cup s.all) : s \in shards}

\* Shards of which each is finite
Finite(shards) == IsFiniteSet(shards) /\ \A s \in shards : IsFiniteSet(s.part \cup s.all)

LEMMA OnePair ==
    ASSUME NEW s, IsFiniteSet(s.part \cup s.all)
    PROVE  /\ IsFiniteSet(Pairs({s})) /\ Weight(s) \in Nat
           /\ Cardinality(Pairs({s})) = Weight(s)
<1>1. Pairs({s}) = {s} \X (s.part \cup s.all)
      BY DEF Pairs
<1>2. IsFiniteSet({s}) /\ Cardinality({s}) = 1
      BY FS_Singleton
<1> DEFINE X == s.part \cup s.all
<1>3. Cardinality(X) \in Nat /\ IsFiniteSet(X) /\ Weight(s) = Cardinality(X)
      BY FS_CardinalityType DEF Weight
<1> HIDE DEF X
<1>4. IsFiniteSet({s} \X X) /\ Cardinality({s} \X X) = Cardinality({s}) * Cardinality(X)
      BY <1>2, <1>3, FS_Product, Zenon
<1>5. Cardinality({s} \X X) = Cardinality(X)
      BY <1>2, <1>3, <1>4
<1>6. QED BY <1>1, <1>3, <1>4, <1>5 DEF X

LEMMA PairsFinite ==
    ASSUME NEW shards, Finite(shards)
    PROVE  IsFiniteSet(Pairs(shards)) /\ Load(shards) \in Nat /\ Load(shards) = Cardinality(Pairs(shards))
<1> DEFINE f == [s \in shards |-> {s} \X (s.part \cup s.all)]
           T == {f[s] : s \in shards}
<1>1. f \in Surjection(shards, T)
      BY DEF Surjection
<1>2. IsFiniteSet(T)
      BY <1>1, FS_Surjection DEF Finite
<1>3. ASSUME NEW x \in T PROVE IsFiniteSet(x)
  <2>1. PICK s \in shards : x = {s} \X (s.part \cup s.all)
        OBVIOUS
  <2>2. IsFiniteSet({s}) /\ IsFiniteSet(s.part \cup s.all)
        BY FS_Singleton DEF Finite
  <2>3. QED BY <2>1, <2>2, FS_Product
<1>4. IsFiniteSet(UNION T) /\ UNION T = Pairs(shards)
      BY <1>2, <1>3, FS_UNION DEF Pairs
<1>5. QED BY <1>4, FS_CardinalityType DEF Load, Pairs

\* Two sets of shards that share none are read one after the other.
LEMMA LoadAdds ==
    ASSUME NEW A, NEW B, Finite(A), Finite(B), A \cap B = {}
    PROVE  Finite(A \cup B) /\ Load(A \cup B) = Load(A) + Load(B)
<1>1. Finite(A \cup B)
      BY FS_Union DEF Finite
<1>2. Pairs(A \cup B) = Pairs(A) \cup Pairs(B) /\ Pairs(A) \cap Pairs(B) = {}
      BY DEF Pairs
<1>3. Cardinality({}) = 0
      BY FS_EmptySet
<1>4. /\ IsFiniteSet(Pairs(A)) /\ Load(A) \in Nat /\ Load(A) = Cardinality(Pairs(A))
      /\ IsFiniteSet(Pairs(B)) /\ Load(B) \in Nat /\ Load(B) = Cardinality(Pairs(B))
      /\ Load(A \cup B) = Cardinality(Pairs(A \cup B))
      BY <1>1, PairsFinite
<1>5. Cardinality(Pairs(A) \cup Pairs(B))
        = Cardinality(Pairs(A)) + Cardinality(Pairs(B)) - Cardinality(Pairs(A) \cap Pairs(B))
      BY <1>4, FS_Union, Zenon
<1>6. Cardinality(Pairs(A) \cap Pairs(B)) = 0 /\ Cardinality(Pairs(A) \cup Pairs(B)) = Load(A \cup B)
      BY <1>2, <1>3, <1>4, Zenon
<1>7. QED BY <1>1, <1>4, <1>5, <1>6

LEMMA LoadGrows ==
    ASSUME NEW A, NEW s, Finite(A), IsFiniteSet(s.part \cup s.all), s \notin A
    PROVE  Finite(A \cup {s}) /\ Load(A \cup {s}) = Load(A) + Weight(s) /\ Weight(s) \in Nat
<1>1. Finite({s})
      BY FS_Singleton DEF Finite
<1>2. Load({s}) = Weight(s) /\ Weight(s) \in Nat
      BY <1>1, OnePair, PairsFinite
<1>3. QED BY <1>1, <1>2, LoadAdds
------------------------------------------------------------------------------
(* The parts of one key                                                    *)

\* Finitely many claims, each with its identity
Distinct(claims) ==
    /\ IsFiniteSet(claims)
    /\ \A c \in claims : c.id \in Nat /\ \A d \in claims : c.id = d.id => c = d

LEMMA RankIs ==
    ASSUME NEW C, Distinct(C), NEW c \in C, NEW d \in C
    PROVE  /\ Rank(C, c) \in Nat /\ Rank(C, d) \in Nat
           /\ Rank(C, c) = Rank(C, d) => c = d
<1> DEFINE Below(x) == {y \in C : y.id < x.id}
<1>1. ASSUME NEW x \in C PROVE IsFiniteSet(Below(x)) /\ Rank(C, x) \in Nat /\ Rank(C, x) = Cardinality(Below(x))
      BY FS_Subset, FS_CardinalityType DEF Distinct, Rank
<1>2. ASSUME NEW x \in C, NEW y \in C, x.id < y.id PROVE Rank(C, x) # Rank(C, y)
  <2>1. x.id \in Nat /\ y.id \in Nat /\ \A z \in C : z.id \in Nat
        BY DEF Distinct
  <2>2. Below(x) \subseteq Below(y)
        BY <1>2, <2>1
  <2>3. x \in Below(y) /\ x \notin Below(x)
        BY <1>2, <2>1
  <2> HIDE DEF Below
  <2>4. Cardinality(Below(y)) # Cardinality(Below(x))
        BY <1>1, <2>2, <2>3, FS_Subset
  <2>5. QED BY <1>1, <2>4
<1>3. c.id \in Nat /\ d.id \in Nat /\ (c.id = d.id => c = d)
      BY DEF Distinct
<1>4. c.id = d.id \/ c.id < d.id \/ d.id < c.id
      BY <1>3
<1>5. QED BY <1>1, <1>2, <1>3, <1>4

\* A part is no larger than its size.
LEMMA PartFits ==
    ASSUME NEW C, Distinct(C), NEW size \in Nat \ {0}, NEW c \in C, NEW P,
           P = {d \in C : Rank(C, d) \div size = Rank(C, c) \div size}
    PROVE  IsFiniteSet(P) /\ Cardinality(P) \in Nat /\ Cardinality(P) <= size
<1> DEFINE q == Rank(C, c) \div size
           low == q * size
           f == [d \in P |-> Rank(C, d)]
<1>1. q \in Nat /\ size \in Nat
      BY RankIs, QuotientIs
<1>2. low \in Int /\ low + size - 1 \in Int
      BY <1>1
<1>3. ASSUME NEW d \in P PROVE Rank(C, d) \in low .. low + size - 1
  <2>1. d \in C /\ Rank(C, d) \in Nat /\ Rank(C, d) \div size = q
        BY RankIs
  <2>2. (Rank(C, d) \div size) * size <= Rank(C, d)
        /\ Rank(C, d) <= (Rank(C, d) \div size) * size + size - 1
        BY <2>1, QuotientIs
  <2> HIDE DEF q
  <2>3. low <= Rank(C, d) /\ Rank(C, d) <= low + size - 1
        BY <2>1, <2>2
  <2> HIDE DEF low
  <2>4. QED BY <1>2, <2>1, <2>3
<1>4. IsFiniteSet(low .. low + size - 1) /\ Cardinality(low .. low + size - 1) = size
  <2> HIDE DEF low
  <2>1. ~(low > low + size - 1) /\ (low + size - 1) - low + 1 = size
        BY <1>1, <1>2
  <2>2. QED BY <1>2, <2>1, FS_Interval
<1>5. \A d, e \in P : Rank(C, d) = Rank(C, e) => d = e
      BY RankIs
<1> HIDE DEF low, q
<1>6. f \in Injection(P, low .. low + size - 1)
      BY <1>3, <1>5 DEF Injection, IsInjective
<1>7. QED BY <1>4, <1>6, FS_Injection, FS_CardinalityType
LEMMA FairIs ==
    ASSUME NEW claims, IsFiniteSet(claims)
    PROVE  Fair(claims) \in Nat \ {0}
<1>1. Cardinality(claims) \in Nat /\ Workers \in Nat \ {0}
      BY FS_CardinalityType, NamingAssumption
<1>2. Cardinality(claims) \div Workers \in Nat
      BY <1>1, QuotientIs
<1>3. QED BY <1>2 DEF Fair

\* A shard of these claims
IsShard(s, group) == s.part # {} /\ s.part \subseteq group /\ s.all \subseteq group

Holding(s, c) == c \in s.part \cup s.all

\* What the shards of a key do with its claims: each pair meets in one of them.
Joins(shards, group) ==
    /\ \A s \in shards : IsShard(s, group)
    /\ \A s, t \in shards : s.part \cap t.part # {} => s = t
    /\ \A c \in group : \E s \in shards : Holding(s, c)
    /\ \A c, d \in group :
          c.direction = "provides" /\ d.direction # "provides" =>
              \E s \in shards : \A t \in shards : Holding(t, c) /\ Holding(t, d) <=> t = s

Small(claims, s) == s.all # {} => Weight(s) <= Max({Fair(claims), Cardinality(s.all) + 1})

LEMMA GroupShards ==
    ASSUME NEW claims, Distinct(claims), NEW group, group \subseteq claims, group # {}
    PROVE  /\ Finite(Shards(claims, group)) /\ Joins(Shards(claims, group), group)
           /\ \A s \in Shards(claims, group) : Small(claims, s)
<1> DEFINE S == Shards(claims, group)
           provides == {c \in group : c.direction = "provides"}
           small == IF Cardinality(provides) <= Cardinality(group \ provides) THEN provides ELSE group \ provides
           large == group \ small
           size == Room(Fair(claims), small)
           whole == [part |-> group, all |-> {}]
           Its(c) == {d \in large : Rank(large, d) \div size = Rank(large, c) \div size}
           Part(c) == [part |-> Its(c), all |-> small]
<1>1. S = {whole} \/ S = {Part(c) : c \in large}
      BY DEF Shards
<1>2. IsFiniteSet(group) /\ IsFiniteSet(provides) /\ IsFiniteSet(group \ provides)
      /\ IsFiniteSet(claims)
  <2>1. IsFiniteSet(claims) /\ group \in SUBSET claims
        BY DEF Distinct
  <2>2. IsFiniteSet(group)
        BY <2>1, FS_Subset
  <2>3. provides \in SUBSET group /\ group \ provides \in SUBSET group
        OBVIOUS
  <2>4. QED BY <2>1, <2>2, <2>3, FS_Subset
<1>3. /\ small \subseteq group /\ large \subseteq group
      /\ small = provides \/ (small = group \ provides /\ large = provides)
      /\ IsFiniteSet(small) /\ IsFiniteSet(large) /\ Cardinality(small) \in Nat
      BY <1>2, FS_CardinalityType
<1>4. large # {}
  <2>1. SUFFICES ASSUME large = {} PROVE FALSE
        OBVIOUS
  <2>2. small = group
        BY <1>3, <2>1
  <2>3. Cardinality(provides) \in Nat /\ Cardinality(group \ provides) \in Nat
        BY <1>2, FS_CardinalityType
  <2>4. CASE Cardinality(provides) <= Cardinality(group \ provides)
    <3>1. small = provides /\ group \ provides = {}
          BY <2>2, <2>4
    <3>2. Cardinality(group \ provides) = 0
          BY <3>1, FS_EmptySet
    <3>3. Cardinality(provides) = 0
          BY <2>3, <2>4, <3>2
    <3>4. provides = {}
          BY <1>2, <3>3, FS_EmptySet
    <3>5. QED BY <2>2, <3>1, <3>4
  <2>5. CASE ~(Cardinality(provides) <= Cardinality(group \ provides))
    <3>1. small = group \ provides
          BY <2>5
    <3>2. provides = {}
          BY <2>2, <3>1
    <3>3. Cardinality(provides) = 0
          BY <3>2, FS_EmptySet
    <3>4. QED BY <2>3, <2>5, <3>3
  <2>6. QED BY <2>4, <2>5
<1>5. Fair(claims) \in Nat \ {0}
      BY <1>2, FairIs
<1>6. size \in Nat \ {0} /\ size + Cardinality(small) \in {Fair(claims), Cardinality(small) + 1}
      BY <1>3, <1>5 DEF Room
<1>7. Distinct(large)
      BY <1>3 DEF Distinct
<1> HIDE DEF size, small, large, provides
<1>8. ASSUME NEW c \in large
      PROVE  /\ IsFiniteSet(Its(c)) /\ Cardinality(Its(c)) \in Nat /\ Cardinality(Its(c)) <= size
             /\ c \in Its(c) /\ Its(c) \subseteq large
             /\ \A d \in large : Its(c) \cap Its(d) # {} => Its(c) = Its(d)
  <2>1. IsFiniteSet(Its(c)) /\ Cardinality(Its(c)) \in Nat /\ Cardinality(Its(c)) <= size
        BY <1>6, <1>7, PartFits
  <2>2. QED BY <2>1
<1> HIDE DEF Its
<1>9. CASE S = {whole}
  <2>1. Finite(S)
    <3>1. IsFiniteSet(S)
          BY <1>9, FS_Singleton
    <3>2. group \cup {} = group /\ \A s \in S : s.part \cup s.all = group \cup {}
          BY <1>9
    <3>3. QED BY <1>2, <3>1, <3>2 DEF Finite
  <2>2. Joins(S, group)
        BY <1>9 DEF Joins, IsShard, Holding
  <2>3. \A s \in S : s.all = {}
        BY <1>9
  <2>4. QED BY <2>1, <2>2, <2>3 DEF Small
<1>10. CASE S = {Part(c) : c \in large}
  <2> DEFINE f == [c \in large |-> Part(c)]
  <2>1. Finite(S)
    <3>1. f \in Surjection(large, S)
          BY <1>10 DEF Surjection
    <3>2. IsFiniteSet(S)
          BY <1>3, <3>1, FS_Surjection
    <3>3. \A c \in large : IsFiniteSet(Its(c) \cup small)
          BY <1>3, <1>8, FS_Union
    <3>4. QED BY <1>10, <3>2, <3>3 DEF Finite
  <2>2. ASSUME NEW s \in S PROVE IsShard(s, group)
        BY <1>3, <1>8, <1>10 DEF IsShard
  <2>3. ASSUME NEW s \in S, NEW t \in S, s.part \cap t.part # {} PROVE s = t
        BY <1>8, <1>10, <2>3
  <2>4. ASSUME NEW c \in group PROVE \E s \in S : Holding(s, c)
    <3>1. CASE c \in large
      <4>1. Part(c) \in S /\ c \in Its(c)
            BY <1>8, <1>10, <3>1
      <4>2. QED BY <4>1 DEF Holding
    <3>2. CASE c \in small
      <4>1. PICK d \in large : TRUE
            BY <1>4
      <4>2. Part(d) \in S
            BY <1>10
      <4>3. QED BY <3>2, <4>2 DEF Holding
    <3>3. QED BY <3>1, <3>2 DEF large
  <2>5. ASSUME NEW c \in small, NEW d \in large
        PROVE  \E s \in S : \A t \in S : Holding(t, c) /\ Holding(t, d) <=> t = s
    <3>1. Part(d) \in S /\ d \notin small
          BY <1>10 DEF large
    <3>2. \A t \in S : Holding(t, d) => t = Part(d)
          BY <1>8, <1>10, <3>1 DEF Holding
    <3>3. Holding(Part(d), c) /\ Holding(Part(d), d)
          BY <1>8 DEF Holding
    <3>4. QED BY <3>1, <3>2, <3>3
  <2>6. ASSUME NEW c \in group, NEW d \in group, c.direction = "provides", d.direction # "provides"
        PROVE  \E s \in S : \A t \in S : Holding(t, c) /\ Holding(t, d) <=> t = s
    <3>1. (c \in small /\ d \in large) \/ (d \in small /\ c \in large)
          BY <1>3, <2>6 DEF provides, large
    <3>2. CASE c \in small /\ d \in large
          BY <2>5, <3>2
    <3>3. CASE d \in small /\ c \in large
      <4>1. PICK s \in S : \A t \in S : Holding(t, d) /\ Holding(t, c) <=> t = s
            BY <2>5, <3>3
      <4>2. QED BY <4>1
    <3>4. QED BY <3>1, <3>2, <3>3
  <2>7. ASSUME NEW s \in S PROVE Small(claims, s)
    <3>1. PICK c \in large : s = Part(c)
          BY <1>10
    <3> DEFINE bounds == {Fair(claims), Cardinality(small) + 1}
    <3>2. IsFiniteSet(bounds) /\ bounds \subseteq Nat /\ bounds # {}
      <4>1. bounds = {Fair(claims)} \cup {Cardinality(small) + 1}
            OBVIOUS
      <4>2. IsFiniteSet(bounds)
        <5>1. IsFiniteSet({Fair(claims)}) /\ IsFiniteSet({Cardinality(small) + 1})
              BY FS_Singleton
        <5>2. IsFiniteSet({Fair(claims)} \cup {Cardinality(small) + 1})
              BY <5>1, FS_Union
        <5> HIDE DEF bounds
        <5>3. QED BY <4>1, <5>2, Zenon
      <4>3. QED BY <1>3, <1>5, <4>2
    <3>3. size + Cardinality(small) \in bounds
          BY <1>6
    <3> HIDE DEF bounds
    <3>4. size + Cardinality(small) <= Max(bounds) /\ Max(bounds) \in Nat
          BY <3>2, <3>3, MaxIs
    <3>5. Its(c) \cap small = {}
          BY <1>8 DEF large
    <3>6. Cardinality(Its(c) \cup small) <= Cardinality(Its(c)) + Cardinality(small)
          /\ Cardinality(Its(c) \cup small) \in Nat
      <4>1. /\ IsFiniteSet(Its(c) \cup small)
            /\ Cardinality(Its(c) \cup small)
                 = Cardinality(Its(c)) + Cardinality(small) - Cardinality(Its(c) \cap small)
            BY <1>3, <1>8, FS_Union, Zenon
      <4>2. Cardinality(Its(c) \cap small) = 0
            BY <3>5, FS_EmptySet
      <4>3. Cardinality(Its(c) \cup small) \in Nat
            BY <4>1, FS_CardinalityType
      <4>4. QED BY <1>3, <1>8, <4>1, <4>2, <4>3
    <3>7. Weight(s) = Cardinality(Its(c) \cup small) /\ s.all = small
          BY <3>1 DEF Weight
    <3>8. Weight(s) <= Max(bounds)
          BY <1>3, <1>6, <1>8, <3>4, <3>6, <3>7
    <3>9. QED BY <3>7, <3>8 DEF Small, bounds
  <2>8. QED BY <2>1, <2>2, <2>3, <2>4, <2>6, <2>7 DEF Joins
<1>11. QED BY <1>1, <1>9, <1>10
Keyed(claims) == {c \in claims : c.matchable}

\* The shards of all keys: nothing of one is a part of another, and a pair of one key
\* meets in no shard of another.
LEMMA AllShardsAre ==
    ASSUME NEW claims, Distinct(claims)
    PROVE  /\ Finite(AllShards(claims)) /\ Distinct(Keyed(claims))
           /\ \A s \in AllShards(claims) : IsShard(s, Keyed(claims)) /\ Small(Keyed(claims), s)
           /\ \A s, t \in AllShards(claims) : s.part \cap t.part # {} => s = t
           /\ \A c \in Keyed(claims) : \E s \in AllShards(claims) : Holding(s, c)
           /\ \A c, d \in Keyed(claims) :
                 c.direction = "provides" /\ d.direction # "provides" /\ JoinKey(c) = JoinKey(d) =>
                     \E s \in AllShards(claims) : \A t \in AllShards(claims) :
                         Holding(t, c) /\ Holding(t, d) <=> t = s
<1> DEFINE keyed == Keyed(claims)
           keys == {JoinKey(c) : c \in keyed}
           Group(k) == {c \in keyed : JoinKey(c) = k}
           Of(k) == Shards(keyed, Group(k))
           S == AllShards(claims)
<1>1. S = UNION {Of(k) : k \in keys}
      BY DEF AllShards, Keyed
<1>2. Distinct(keyed)
  <2>1. keyed \in SUBSET claims
        BY DEF Keyed
  <2>2. QED BY <2>1, FS_Subset DEF Distinct
<1> HIDE DEF S, keyed
<1>3. ASSUME NEW k \in keys
      PROVE  Finite(Of(k)) /\ Joins(Of(k), Group(k)) /\ \A s \in Of(k) : Small(keyed, s)
  <2>1. Group(k) \subseteq keyed /\ Group(k) # {}
        OBVIOUS
  <2> HIDE DEF Group, keys
  <2>2. QED BY <1>2, <2>1, GroupShards
<1>4. Finite(S)
  <2> DEFINE f == [c \in keyed |-> Of(JoinKey(c))]
             T == {Of(k) : k \in keys}
  <2> HIDE DEF Of
  <2>1. f \in Surjection(keyed, T)
        BY DEF Surjection
  <2>2. IsFiniteSet(keyed)
        BY <1>2 DEF Distinct
  <2> HIDE DEF f
  <2>3. IsFiniteSet(T)
        BY <2>1, <2>2, FS_Surjection
  <2>4. \A x \in T : IsFiniteSet(x)
        BY <1>3 DEF Finite
  <2>5. IsFiniteSet(UNION T)
        BY <2>3, <2>4, FS_UNION
  <2>6. \A s \in S : IsFiniteSet(s.part \cup s.all)
        BY <1>1, <1>3 DEF Finite
  <2>7. QED BY <1>1, <2>5, <2>6 DEF Finite
<1> HIDE DEF Of
<1>5. ASSUME NEW k \in keys, NEW s \in Of(k)
      PROVE  /\ IsShard(s, Group(k)) /\ s \in S
             /\ \A c \in keyed : Holding(s, c) => JoinKey(c) = k
  <2>1. IsShard(s, Group(k))
        BY <1>3 DEF Joins
  <2>2. QED BY <1>1, <2>1 DEF IsShard, Holding
<1>6. ASSUME NEW s \in S PROVE IsShard(s, keyed) /\ Small(keyed, s)
  <2>1. PICK k \in keys : s \in Of(k)
        BY <1>1
  <2>2. QED BY <1>3, <1>5, <2>1 DEF IsShard
<1>7. ASSUME NEW s \in S, NEW t \in S, s.part \cap t.part # {} PROVE s = t
  <2>1. PICK k \in keys : s \in Of(k)
        BY <1>1
  <2>2. PICK l \in keys : t \in Of(l)
        BY <1>1
  <2>3. PICK c \in s.part : c \in t.part
        BY <1>7
  <2>4. c \in Group(k) /\ c \in Group(l)
        BY <1>5, <2>1, <2>2, <2>3 DEF IsShard
  <2>5. k = l
        BY <2>4
  <2>6. QED BY <1>3, <1>7, <2>1, <2>2, <2>5 DEF Joins
<1>8. ASSUME NEW c \in keyed PROVE \E s \in S : Holding(s, c)
  <2>1. JoinKey(c) \in keys /\ c \in Group(JoinKey(c))
        OBVIOUS
  <2>2. \E s \in Of(JoinKey(c)) : Holding(s, c)
        BY <1>3, <2>1 DEF Joins
  <2>3. QED BY <1>5, <2>1, <2>2
<1>9. ASSUME NEW c \in keyed, NEW d \in keyed, c.direction = "provides", d.direction # "provides",
             JoinKey(c) = JoinKey(d)
      PROVE  \E s \in S : \A t \in S : Holding(t, c) /\ Holding(t, d) <=> t = s
  <2> DEFINE k == JoinKey(c)
  <2>1. k \in keys /\ c \in Group(k) /\ d \in Group(k)
        BY <1>9
  <2>2. PICK s \in Of(k) : \A t \in Of(k) : Holding(t, c) /\ Holding(t, d) <=> t = s
        BY <1>3, <1>9, <2>1 DEF Joins
  <2>3. ASSUME NEW t \in S, Holding(t, c) PROVE t \in Of(k)
    <3>1. PICK l \in keys : t \in Of(l)
          BY <1>1
    <3>2. QED BY <1>5, <2>3, <3>1
  <2>4. s \in S
        BY <1>5, <2>1
  <2>5. QED BY <2>2, <2>3, <2>4
<1>10. QED BY <1>2, <1>4, <1>6, <1>7, <1>8, <1>9 DEF S, keyed
------------------------------------------------------------------------------
(* The packing: list scheduling                                            *)

LEMMA HeaviestIs ==
    ASSUME NEW C, Distinct(C), NEW left, Finite(left), left # {},
           \A s \in left : s.part # {} /\ s.part \subseteq C
    PROVE  Heaviest(left) \in left
<1> DEFINE First(s) == Min({c.id : c \in s.part})
           weights == {Weight(s) : s \in left}
           f == [s \in left |-> Weight(s)]
<1>1. ASSUME NEW s \in left PROVE Weight(s) \in Nat /\ First(s) \in Nat
  <2>1. {c.id : c \in s.part} \subseteq Nat /\ {c.id : c \in s.part} # {}
        BY DEF Distinct
  <2>2. First(s) \in {c.id : c \in s.part}
        BY <2>1, MinIs
  <2>3. Weight(s) \in Nat
        BY FS_CardinalityType DEF Finite, Weight
  <2>4. QED BY <2>1, <2>2, <2>3
<1>2. weights \subseteq Nat /\ weights # {} /\ IsFiniteSet(weights)
  <2>1. f \in Surjection(left, weights)
        BY DEF Surjection
  <2>2. IsFiniteSet(weights)
        BY <2>1, FS_Surjection DEF Finite
  <2>3. QED BY <1>1, <2>2
<1>3. Max(weights) \in weights /\ \A x \in weights : x <= Max(weights)
      BY <1>2, MaxIs
<1> DEFINE top == {s \in left : Weight(s) = Max(weights)}
           firsts == {First(s) : s \in top}
<1>4. top # {}
      BY <1>3
<1> HIDE DEF First
<1>5. firsts \subseteq Nat /\ firsts # {}
      BY <1>1, <1>4
<1>6. PICK n \in firsts : \A m \in firsts : n <= m
      BY <1>5, LeastNumber
<1>7. PICK s \in top : First(s) = n
      BY <1>6
<1>8. ASSUME NEW t \in left PROVE ~Heavier(t, s)
  <2>1. Weight(t) \in weights /\ Weight(s) = Max(weights) /\ s \in left
        BY <1>7
  <2>2. Weight(t) \in Nat /\ Weight(s) \in Nat /\ Weight(t) <= Weight(s)
        BY <1>1, <1>3, <2>1
  <2>3. Weight(t) = Weight(s) => First(t) \in Nat /\ First(s) \in Nat /\ First(s) <= First(t)
        BY <1>1, <1>6, <1>7, <2>1
  <2>4. QED BY <2>2, <2>3 DEF Heavier, First
<1>9. QED BY <1>7, <1>8 DEF Heaviest

LEMMA LightestIs ==
    ASSUME NEW loads \in [1 .. Workers -> Nat]
    PROVE  /\ Lightest(loads) \in 1 .. Workers
           /\ \A v \in 1 .. Workers : loads[Lightest(loads)] <= loads[v]
<1>1. Workers \in Nat \ {0}
      BY NamingAssumption
<1> DEFINE values == {loads[v] : v \in 1 .. Workers}
<1>2. values \subseteq Nat /\ values # {}
      BY <1>1
<1>3. PICK least \in values : \A x \in values : least <= x
      BY <1>2, LeastNumber
<1> DEFINE its == {v \in 1 .. Workers : loads[v] = least}
<1>4. its \subseteq Nat /\ its # {}
      BY <1>1, <1>3
<1>5. PICK w \in its : \A v \in its : w <= v
      BY <1>4, LeastNumber
<1>6. \A v \in 1 .. Workers : loads[w] < loads[v] \/ (loads[w] = loads[v] /\ w <= v)
  <2>1. TAKE v \in 1 .. Workers
  <2>2. loads[w] = least /\ loads[v] \in Nat /\ least \in Nat /\ least <= loads[v]
        BY <1>2, <1>3
  <2>3. QED BY <1>5, <2>2
<1>7. DOMAIN loads = 1 .. Workers
      OBVIOUS
<1> DEFINE found == Lightest(loads)
<1>8. found \in 1 .. Workers /\ \A v \in 1 .. Workers : loads[found] < loads[v] \/ (loads[found] = loads[v] /\ found <= v)
      BY <1>6, <1>7 DEF Lightest
<1>9. \A v \in 1 .. Workers : loads[found] \in Nat /\ loads[v] \in Nat
      BY <1>8
<1>10. QED BY <1>8, <1>9

\* As many disjoint sets of shards as there are workers are together no lighter than
\* that many times the lightest.
LEMMA Pigeons ==
    ASSUME NEW parts, NEW k \in Nat, NEW m \in Nat,
           \A w \in 1 .. k : Finite(parts[w]) /\ m <= Load(parts[w]),
           \A w, v \in 1 .. k : w # v => parts[w] \cap parts[v] = {}
    PROVE  LET all == UNION {parts[w] : w \in 1 .. k} IN Finite(all) /\ m * k <= Load(all)
<1> DEFINE Upto(n) == UNION {parts[w] : w \in 1 .. n}
           T == {n \in Nat : n <= k => Finite(Upto(n)) /\ m * n <= Load(Upto(n))}
<1>1. 0 \in T
  <2>1. Upto(0) = {}
        OBVIOUS
  <2>2. Finite({})
        BY FS_EmptySet DEF Finite
  <2>3. Load({}) \in Nat
        BY <2>2, PairsFinite
  <2>4. QED BY <2>1, <2>2, <2>3
<1>2. ASSUME NEW n \in Nat, n \in T PROVE n + 1 \in T
  <2> SUFFICES ASSUME n + 1 <= k PROVE Finite(Upto(n + 1)) /\ m * (n + 1) <= Load(Upto(n + 1))
      OBVIOUS
  <2>1. Finite(Upto(n)) /\ m * n <= Load(Upto(n))
        BY <1>2
  <2>2. n + 1 \in 1 .. k /\ 1 .. n \subseteq 1 .. k /\ n + 1 \notin 1 .. n /\ 1 .. n + 1 = 1 .. n \cup {n + 1}
        OBVIOUS
  <2>3. Upto(n + 1) = Upto(n) \cup parts[n + 1]
        BY <2>2
  <2>4. Upto(n) \cap parts[n + 1] = {}
        BY <2>2
  <2> HIDE DEF Upto, T
  <2>5. Finite(parts[n + 1]) /\ m <= Load(parts[n + 1])
        BY <2>2
  <2>6. Finite(Upto(n + 1)) /\ Load(Upto(n + 1)) = Load(Upto(n)) + Load(parts[n + 1])
        BY <2>1, <2>3, <2>4, <2>5, LoadAdds
  <2>7. Load(Upto(n)) \in Nat /\ Load(parts[n + 1]) \in Nat
        BY <2>1, <2>5, PairsFinite
  <2>8. m * (n + 1) = m * n + m /\ m * n \in Nat
        OBVIOUS
  <2>9. QED BY <2>1, <2>5, <2>6, <2>7, <2>8
<1> HIDE DEF T
<1>3. k \in T
      BY <1>1, <1>2, AllNumbers
<1>4. QED BY <1>3 DEF T

\* The packing of these shards so far, when n of them have a worker
Packing(S, most, plan, n) ==
    /\ plan.left \subseteq S /\ Cardinality(plan.left) = Cardinality(S) - n
    /\ plan.partitions \in [1 .. Workers -> SUBSET (S \ plan.left)]
    /\ \A s \in S \ plan.left : \E w \in 1 .. Workers : s \in plan.partitions[w]
    /\ \A w, v \in 1 .. Workers : w # v => plan.partitions[w] \cap plan.partitions[v] = {}
    /\ plan.loads \in [1 .. Workers -> Nat]
    /\ \A w \in 1 .. Workers :
          /\ plan.loads[w] = Load(plan.partitions[w])
          /\ plan.loads[w] * Workers <= Load(S \ plan.left) + Workers * most

LEMMA SomeAreFinite ==
    ASSUME NEW S, Finite(S), NEW T, T \subseteq S
    PROVE  Finite(T)
BY FS_Subset DEF Finite

LEMMA PackKeeps ==
    ASSUME NEW C, Distinct(C), NEW S, Finite(S), \A s \in S : s.part # {} /\ s.part \subseteq C,
           NEW most \in Nat, \A s \in S : Weight(s) <= most,
           NEW plan, NEW n \in Nat, n < Cardinality(S), Packing(S, most, plan, n)
    PROVE  Packing(S, most, Pack(plan), n + 1)
<1> DEFINE left == plan.left
           s == Heaviest(left)
           w == Lightest(plan.loads)
           next == Pack(plan)
           parts == plan.partitions
           m == plan.loads[w]
<1>0. Workers \in Nat \ {0} /\ Cardinality(S) \in Nat /\ IsFiniteSet(S)
      BY NamingAssumption, FS_CardinalityType DEF Finite
<1>1. s \in left
  <2>1. Finite(left) /\ \A t \in left : t.part # {} /\ t.part \subseteq C
        BY SomeAreFinite DEF Packing
  <2>2. left # {}
    <3>1. Cardinality(left) # 0
          BY <1>0 DEF Packing
    <3>2. QED BY <3>1, FS_EmptySet
  <2>3. QED BY <2>1, <2>2, HeaviestIs
<1>2. w \in 1 .. Workers /\ \A v \in 1 .. Workers : m <= plan.loads[v]
      BY LightestIs DEF Packing
<1>3. /\ left \subseteq S /\ parts \in [1 .. Workers -> SUBSET (S \ left)]
      /\ \A t \in S \ left : \E v \in 1 .. Workers : t \in parts[v]
      /\ \A v, u \in 1 .. Workers : v # u => parts[v] \cap parts[u] = {}
      /\ plan.loads \in [1 .. Workers -> Nat]
      /\ \A v \in 1 .. Workers : plan.loads[v] = Load(parts[v])
      /\ \A v \in 1 .. Workers : plan.loads[v] * Workers <= Load(S \ left) + Workers * most
      BY DEF Packing
<1>4. /\ next.left = left \ {s}
      /\ next.partitions = [parts EXCEPT ![w] = @ \cup {s}]
      /\ next.loads = [plan.loads EXCEPT ![w] = @ + Weight(s)]
      BY DEF Pack
<1> HIDE DEF left, s, w, next, parts
<1>5. S \ next.left = (S \ left) \cup {s} /\ s \notin S \ left /\ s \in S
      BY <1>1, <1>3, <1>4
<1>6. Cardinality(next.left) = Cardinality(S) - (n + 1)
  <2>1. IsFiniteSet(left)
        BY <1>0, <1>3, FS_Subset
  <2>2. Cardinality(left \ {s}) = Cardinality(left) - 1
        BY <1>1, <2>1, FS_RemoveElement
  <2>3. Cardinality(left) = Cardinality(S) - n
        BY DEF Packing, left
  <2>4. QED BY <1>0, <1>4, <2>2, <2>3
<1>7. IsFiniteSet(s.part \cup s.all) /\ Weight(s) \in Nat /\ Weight(s) <= most
      BY <1>5, FS_CardinalityType DEF Finite, Weight
<1>8. /\ next.partitions[w] = parts[w] \cup {s}
      /\ \A v \in 1 .. Workers : v # w => next.partitions[v] = parts[v]
      /\ next.partitions \in [1 .. Workers -> SUBSET (S \ next.left)]
      BY <1>2, <1>3, <1>4, <1>5
<1>9. \A t \in S \ next.left : \E v \in 1 .. Workers : t \in next.partitions[v]
      BY <1>2, <1>3, <1>5, <1>8
<1>10. \A v, u \in 1 .. Workers : v # u => next.partitions[v] \cap next.partitions[u] = {}
  <2>1. \A v \in 1 .. Workers : s \notin parts[v]
        BY <1>3, <1>5
  <2>2. QED BY <1>2, <1>3, <1>8, <2>1
<1>11. \A v \in 1 .. Workers : Finite(parts[v])
      BY <1>3, SomeAreFinite
<1>12. Finite(S \ left) /\ Load(S \ left) \in Nat /\ Load(S \ next.left) = Load(S \ left) + Weight(s)
  <2>1. Finite(S \ left)
        BY SomeAreFinite
  <2>2. QED BY <1>5, <1>7, <2>1, LoadGrows, PairsFinite
<1>13. Load(parts[w] \cup {s}) = m + Weight(s) /\ m \in Nat
      BY <1>2, <1>3, <1>5, <1>7, <1>11, LoadGrows
<1>14. /\ next.loads[w] = m + Weight(s)
       /\ \A v \in 1 .. Workers : v # w => next.loads[v] = plan.loads[v]
       /\ next.loads \in [1 .. Workers -> Nat]
  <2>1. m + Weight(s) \in Nat
        BY <1>7, <1>13
  <2>2. next.loads = [plan.loads EXCEPT ![w] = m + Weight(s)]
        BY <1>4
  <2> HIDE DEF m
  <2>3. plan.loads \in [1 .. Workers -> Nat] /\ w \in 1 .. Workers
        BY <1>2, <1>3
  <2>4. next.loads[w] = m + Weight(s) /\ \A v \in 1 .. Workers : v # w => next.loads[v] = plan.loads[v]
        BY <2>2, <2>3
  <2>5. next.loads \in [1 .. Workers -> Nat]
        BY <2>1, <2>2, <2>3
  <2>6. QED BY <2>4, <2>5
<1>15. \A v \in 1 .. Workers : next.loads[v] = Load(next.partitions[v])
      BY <1>3, <1>8, <1>13, <1>14
<1>16. m * Workers <= Load(S \ left)
  <2>1. UNION {parts[v] : v \in 1 .. Workers} = S \ left
        BY <1>3
  <2>2. \A v \in 1 .. Workers : m <= Load(parts[v])
        BY <1>2, <1>3
  <2>3. m \in Nat /\ Workers \in Nat
        BY <1>0, <1>13
  <2>4. \A v, u \in 1 .. Workers : v # u => parts[v] \cap parts[u] = {}
        BY <1>3
  <2> HIDE DEF m
  <2>5. m * Workers <= Load(UNION {parts[v] : v \in 1 .. Workers})
        BY <1>11, <2>2, <2>3, <2>4, Pigeons
  <2>6. QED BY <2>1, <2>5
<1> HIDE DEF m
<1>17. (m + Weight(s)) * Workers <= Load(S \ next.left) + Workers * most
  <2>1. Weight(s) * Workers <= most * Workers /\ Weight(s) * Workers \in Nat /\ most * Workers \in Nat
        BY <1>0, <1>7, Times
  <2>2. (m + Weight(s)) * Workers = m * Workers + Weight(s) * Workers /\ most * Workers = Workers * most
        /\ m * Workers \in Nat
        BY <1>0, <1>7, <1>13
  <2>3. QED BY <1>7, <1>12, <1>16, <2>1, <2>2
<1>18. \A v \in 1 .. Workers : next.loads[v] * Workers <= Load(S \ next.left) + Workers * most
  <2>1. TAKE v \in 1 .. Workers
  <2>2. CASE v = w
        BY <1>14, <1>17, <2>2
  <2>3. CASE v # w
    <3>1. next.loads[v] = plan.loads[v] /\ plan.loads[v] \in Nat
          BY <1>3, <1>14, <2>3
    <3>2. plan.loads[v] * Workers <= Load(S \ left) + Workers * most
          BY <1>3
    <3>3. plan.loads[v] * Workers \in Nat /\ Workers * most \in Nat
          BY <1>0, <3>1
    <3>4. QED BY <1>7, <1>12, <3>1, <3>2, <3>3
  <2>4. QED BY <2>2, <2>3
<1>19. next.left \subseteq S
      BY <1>3, <1>4
<1>20. QED BY <1>6, <1>8, <1>9, <1>10, <1>14, <1>15, <1>18, <1>19 DEF Packing, next

Packed(S, N, h) == h = [n \in 0 .. N |-> IF n = 0 THEN Unpacked(S) ELSE Pack(h[n - 1])]

LEMMA PackingGoesOn ==
    ASSUME NEW S, NEW N \in Nat
    PROVE  \E h : Packed(S, N, h)
<1> DEFINE T == {k \in Nat : \E h : Packed(S, k, h)}
<1>1. 0 \in T
  <2> DEFINE h == [n \in 0 .. 0 |-> Unpacked(S)]
  <2>1. h = [n \in 0 .. 0 |-> IF n = 0 THEN Unpacked(S) ELSE Pack(h[n - 1])]
        OBVIOUS
  <2>2. QED BY <2>1 DEF Packed
<1>2. ASSUME NEW k \in Nat, k \in T PROVE k + 1 \in T
  <2>1. PICK g : Packed(S, k, g)
        BY <1>2
  <2> DEFINE h == [n \in 0 .. k + 1 |-> IF n <= k THEN g[n] ELSE Pack(g[k])]
  <2>2. ASSUME NEW n \in 0 .. k + 1
        PROVE  h[n] = IF n = 0 THEN Unpacked(S) ELSE Pack(h[n - 1])
    <3>1. CASE n = 0
      <4>1. h[n] = g[0] /\ g[0] = Unpacked(S)
            BY <2>1, <3>1 DEF Packed
      <4>2. QED BY <3>1, <4>1
    <3>2. CASE n \in 1 .. k
      <4>1. n \in 0 .. k /\ n - 1 \in 0 .. k + 1 /\ n - 1 <= k /\ n <= k /\ n # 0
            BY <3>2
      <4>2. h[n] = g[n] /\ h[n - 1] = g[n - 1]
            BY <4>1
      <4>3. g[n] = Pack(g[n - 1])
            BY <2>1, <4>1 DEF Packed
      <4>4. QED BY <4>1, <4>2, <4>3
    <3>3. CASE n = k + 1
      <4>1. n - 1 = k /\ k \in 0 .. k + 1 /\ ~(n <= k) /\ n # 0
            BY <3>3
      <4>2. h[k] = g[k] /\ h[n] = Pack(g[k])
            BY <4>1
      <4>3. QED BY <4>1, <4>2
    <3>4. QED BY <3>1, <3>2, <3>3
  <2>3. h = [n \in 0 .. k + 1 |-> IF n = 0 THEN Unpacked(S) ELSE Pack(h[n - 1])]
    <3>1. h = [n \in 0 .. k + 1 |-> h[n]]
          OBVIOUS
    <3> HIDE DEF h
    <3>2. QED BY <2>2, <3>1
  <2> HIDE DEF h
  <2>4. Packed(S, k + 1, h)
        BY <2>3 DEF Packed
  <2>5. QED BY <2>4
<1> HIDE DEF T
<1>3. N \in T
      BY <1>1, <1>2, AllNumbers
<1>4. QED BY <1>3 DEF T

LEMMA PackingEnds ==
    ASSUME NEW C, Distinct(C), NEW S, Finite(S), \A s \in S : s.part # {} /\ s.part \subseteq C,
           NEW most \in Nat, \A s \in S : Weight(s) <= most,
           NEW h, Packed(S, Cardinality(S), h)
    PROVE  Packing(S, most, h[Cardinality(S)], Cardinality(S))
<1> DEFINE N == Cardinality(S)
           T == {n \in Nat : n <= N => Packing(S, most, h[n], n)}
<1>0. N \in Nat /\ IsFiniteSet(S) /\ Workers \in Nat \ {0}
      BY FS_CardinalityType, NamingAssumption DEF Finite
<1>1. 0 \in T
  <2>1. h[0] = Unpacked(S)
        BY <1>0 DEF Packed
  <2>2. S \ S = {} /\ Finite({}) /\ Load({}) = 0
    <3>1. Finite({}) /\ Pairs({}) = {}
          BY FS_EmptySet DEF Finite, Pairs
    <3>2. QED BY <3>1, PairsFinite, FS_EmptySet
  <2>3. 0 * Workers <= 0 + Workers * most
    <3>1. 0 * Workers = 0 /\ Workers * most \in Nat
          BY <1>0
    <3>2. QED BY <3>1
  <2>4. Cardinality(S) = Cardinality(S) - 0
        BY <1>0
  <2>5. Packing(S, most, Unpacked(S), 0)
        BY <2>2, <2>3, <2>4 DEF Packing, Unpacked
  <2>6. QED BY <2>1, <2>5
<1>2. ASSUME NEW n \in Nat, n \in T PROVE n + 1 \in T
  <2> SUFFICES ASSUME n + 1 <= N PROVE Packing(S, most, h[n + 1], n + 1)
      OBVIOUS
  <2>1. n < N /\ n + 1 \in 0 .. N /\ n + 1 # 0 /\ (n + 1) - 1 = n
        BY <1>0
  <2>2. h[n + 1] = Pack(h[n])
        BY <2>1 DEF Packed
  <2>3. Packing(S, most, h[n], n)
        BY <1>0, <1>2, <2>1
  <2> HIDE DEF T
  <2>4. Packing(S, most, Pack(h[n]), n + 1)
        BY <2>1, <2>3, PackKeeps
  <2>5. QED BY <2>2, <2>4
<1> HIDE DEF T
<1>3. N \in T
      BY <1>0, <1>1, <1>2, AllNumbers
<1>4. QED BY <1>0, <1>3 DEF T

\* What a plan is: each shard has one worker, and no worker much more than its share.
Spread(S, most, bins) ==
    /\ bins \in [1 .. Workers -> SUBSET S]
    /\ \A s \in S : \E w \in 1 .. Workers : s \in bins[w]
    /\ \A w, v \in 1 .. Workers : w # v => bins[w] \cap bins[v] = {}
    /\ \A w \in 1 .. Workers : Load(bins[w]) * Workers <= Load(S) + Workers * most

LEMMA PlanSpreads ==
    ASSUME NEW claims, Distinct(claims), NEW most \in Nat, \A s \in AllShards(claims) : Weight(s) <= most
    PROVE  Spread(AllShards(claims), most, Plan(claims))
<1> DEFINE S == AllShards(claims)
           N == Cardinality(S)
           h == CHOOSE g : g = [n \in 0 .. N |-> IF n = 0 THEN Unpacked(S) ELSE Pack(g[n - 1])]
<1>1. Plan(claims) = h[N].partitions
      BY DEF Plan
<1>2. Finite(S) /\ Distinct(Keyed(claims)) /\ \A s \in S : s.part # {} /\ s.part \subseteq Keyed(claims)
      BY AllShardsAre DEF IsShard
<1>3. N \in Nat
      BY <1>2, FS_CardinalityType DEF Finite
<1>4. Packed(S, N, h)
  <2> DEFINE IsIt(g) == g = [n \in 0 .. N |-> IF n = 0 THEN Unpacked(S) ELSE Pack(g[n - 1])]
  <2>1. \E g : IsIt(g)
        BY <1>3, PackingGoesOn DEF Packed
  <2>2. h = CHOOSE g : IsIt(g)
        OBVIOUS
  <2> HIDE DEF IsIt, h
  <2>3. IsIt(h)
        BY <2>1, <2>2
  <2>4. QED BY <2>3 DEF IsIt, Packed
<1> HIDE DEF h
<1>5. \A s \in S : Weight(s) <= most
      OBVIOUS
<1> HIDE DEF S
<1>6. Packing(S, most, h[N], N)
      BY <1>2, <1>4, <1>5, PackingEnds
<1> DEFINE plan == h[N]
<1>7. plan.left = {}
  <2>1. Cardinality(plan.left) = 0 /\ plan.left \subseteq S /\ IsFiniteSet(S)
        BY <1>2, <1>3, <1>6 DEF Packing, Finite
  <2>2. QED BY <2>1, FS_EmptySet, FS_Subset
<1>8. S \ plan.left = S
      BY <1>7
<1> HIDE DEF plan
<1>9. Packing(S, most, plan, N)
      BY <1>6 DEF plan
<1>10. Spread(S, most, plan.partitions)
  <2>1. /\ plan.partitions \in [1 .. Workers -> SUBSET S]
        /\ \A s \in S : \E w \in 1 .. Workers : s \in plan.partitions[w]
        /\ \A w, v \in 1 .. Workers : w # v => plan.partitions[w] \cap plan.partitions[v] = {}
        BY <1>8, <1>9 DEF Packing
  <2>2. \A w \in 1 .. Workers : Load(plan.partitions[w]) * Workers <= Load(S) + Workers * most
        BY <1>8, <1>9 DEF Packing
  <2>3. QED BY <2>1, <2>2 DEF Spread
<1>11. QED BY <1>1, <1>10 DEF S, plan

LEMMA SpreadMeetsOnce ==
    ASSUME Distinct(Range(Claims))
    PROVE  MeetOnce(Plan(Range(Claims)))
<1> DEFINE claims == Range(Claims)
           keyed == Keyed(claims)
           S == AllShards(claims)
           bins == Plan(claims)
           all == UNION Range(bins)
           weights == {Weight(s) : s \in S}
           top == Max({0} \cup weights)
           provides == {c \in keyed : c.direction = "provides"}
           placed == UNION {{w} \X bins[w] : w \in DOMAIN bins}
           Holds(p, c) == c \in p[2].part \cup p[2].all
<1>1. /\ Finite(S) /\ Distinct(keyed)
      /\ \A s \in S : IsShard(s, keyed) /\ Small(keyed, s)
      /\ \A c \in keyed : \E s \in S : Holding(s, c)
      /\ \A c, d \in keyed :
            c.direction = "provides" /\ d.direction # "provides" /\ JoinKey(c) = JoinKey(d) =>
                \E s \in S : \A t \in S : Holding(t, c) /\ Holding(t, d) <=> t = s
      BY AllShardsAre
<1>2. Workers \in Nat \ {0}
      BY NamingAssumption
<1>3. keyed = {c \in claims : c.matchable}
      BY DEF Keyed
<1> HIDE DEF S, keyed
<1>4. top \in Nat /\ \A s \in S : Weight(s) \in Nat /\ Weight(s) <= top
  <2> DEFINE f == [s \in S |-> Weight(s)]
             both == {0} \cup weights
  <2>1. \A s \in S : Weight(s) \in Nat
        BY <1>1, FS_CardinalityType DEF Finite, Weight
  <2>2. f \in Surjection(S, weights)
        BY DEF Surjection
  <2>3. IsFiniteSet(weights) /\ IsFiniteSet({0})
        BY <1>1, <2>2, FS_Surjection, FS_Singleton DEF Finite
  <2>4. IsFiniteSet(both)
    <3> HIDE DEF weights
    <3>1. QED BY <2>3, FS_Union, Zenon
  <2>5. both \subseteq Nat /\ both # {}
        BY <2>1
  <2> HIDE DEF both
  <2>6. Max(both) \in both /\ \A y \in both : y <= Max(both)
        BY <2>4, <2>5, MaxIs
  <2>7. QED BY <2>1, <2>5, <2>6 DEF both
<1>5. Spread(S, top, bins)
  <2> HIDE DEF top
  <2>1. QED BY <1>4, PlanSpreads DEF S
<1> HIDE DEF bins, top
<1>6. DOMAIN bins = 1 .. Workers /\ all = S
      BY <1>5 DEF Spread, Range
<1>7. ASSUME NEW c \in provides, NEW d \in keyed \ provides, JoinKey(c) = JoinKey(d)
      PROVE  Cardinality({p \in {q \in placed : Holds(q, c)} : Holds(p, d)}) = 1
  <2>1. PICK s \in S : \A t \in S : Holding(t, c) /\ Holding(t, d) <=> t = s
        BY <1>1, <1>7
  <2>2. PICK w \in 1 .. Workers : s \in bins[w]
        BY <1>5 DEF Spread
  <2>3. ASSUME NEW p \in placed, Holds(p, c), Holds(p, d) PROVE p = <<w, s>>
    <3>1. PICK v \in 1 .. Workers : p \in {v} \X bins[v]
          BY <1>6
    <3>2. p[1] = v /\ p[2] \in bins[v] /\ p = <<v, p[2]>>
          BY <3>1
    <3>3. p[2] \in S
          BY <1>5, <3>2 DEF Spread
    <3>4. p[2] = s
          BY <2>1, <2>3, <3>3 DEF Holding
    <3>5. v = w
          BY <1>5, <2>2, <3>2, <3>4 DEF Spread
    <3>6. QED BY <3>2, <3>4, <3>5
  <2>4. <<w, s>> \in placed /\ Holds(<<w, s>>, c) /\ Holds(<<w, s>>, d)
    <3>1. Holding(s, c) /\ Holding(s, d)
          BY <2>1
    <3>2. <<w, s>>[2] = s /\ <<w, s>> \in {w} \X bins[w]
          BY <2>2
    <3>3. QED BY <1>6, <3>1, <3>2 DEF Holding
  <2> HIDE DEF placed, Holds
  <2>5. {p \in {q \in placed : Holds(q, c)} : Holds(p, d)} = {<<w, s>>}
        BY <2>3, <2>4
  <2>6. QED BY <2>5, FS_Singleton
<1>8. keyed \subseteq UNION {s.part \cup s.all : s \in S}
      BY <1>1 DEF Holding
<1>9. \A w \in DOMAIN bins : Load(bins[w]) * Workers <= Load(S) + Workers * top
      BY <1>5, <1>6 DEF Spread
<1>10. \A s \in S : s.all # {} => Weight(s) <= Max({Fair(keyed), Cardinality(s.all) + 1})
      BY <1>1 DEF Small
<1> HIDE DEF placed, Holds, all, claims, provides
<1>11. \A c \in provides : \A d \in keyed \ provides :
          JoinKey(c) = JoinKey(d) => Cardinality({p \in {q \in placed : Holds(q, c)} : Holds(p, d)}) = 1
      BY <1>7
<1>12. MeetOnce(bins)
      BY <1>3, <1>6, <1>8, <1>9, <1>10, <1>11 DEF MeetOnce, placed, Holds, all, claims, provides, top
<1>13. QED BY <1>12 DEF bins, claims
------------------------------------------------------------------------------
(* What the store lists                                                    *)

Entries == UNION {{r} \X DOMAIN Trees[r] : r \in DOMAIN Trees}

\* A list of repositories, each with one of its trees, none of them twice
Listing(list) ==
    list \in Seq(Entries) /\ \A i, j \in 1 .. Len(list) : list[i][1] = list[j][1] => i = j

LEMMA LoseOne ==
    ASSUME NEW S, NEW s \in Seq(S), NEW at \in 1 .. Len(s)
    PROVE  /\ RemoveAt(s, at) \in Seq(S) /\ Len(RemoveAt(s, at)) = Len(s) - 1
           /\ \A k \in 1 .. Len(s) - 1 : RemoveAt(s, at)[k] = s[IF k < at THEN k ELSE k + 1]
<1> DEFINE a == SubSeq(s, 1, at - 1)
           b == SubSeq(s, at + 1, Len(s))
<1>1. Len(s) \in Nat /\ at \in Nat /\ 1 <= at /\ at <= Len(s)
      OBVIOUS
<1>2. a \in Seq(S) /\ Len(a) = at - 1 /\ \A i \in 1 .. at - 1 : a[i] = s[i]
  <2>1. \A i \in 1 .. at - 1 : s[i] \in S
        BY <1>1
  <2>2. QED BY <1>1, <2>1, SubSeqProperties
<1>3. b \in Seq(S) /\ Len(b) = Len(s) - at /\ \A i \in 1 .. Len(s) - at : b[i] = s[at + i]
  <2>1. \A i \in at + 1 .. Len(s) : s[i] \in S
        BY <1>1
  <2>2. QED BY <1>1, <2>1, SubSeqProperties
<1> HIDE DEF a, b
<1>4. /\ a \o b \in Seq(S) /\ Len(a \o b) = Len(s) - 1
      /\ \A k \in 1 .. Len(s) - 1 : (a \o b)[k] = IF k <= at - 1 THEN a[k] ELSE b[k - (at - 1)]
  <2>1. /\ a \o b \in Seq(S) /\ Len(a \o b) = Len(a) + Len(b)
        /\ \A k \in 1 .. Len(a) + Len(b) : (a \o b)[k] = IF k <= Len(a) THEN a[k] ELSE b[k - Len(a)]
        BY <1>2, <1>3, ConcatProperties
  <2>2. Len(a) = at - 1 /\ Len(b) = Len(s) - at /\ Len(a) + Len(b) = Len(s) - 1
        BY <1>1, <1>2, <1>3
  <2>3. QED BY <2>1, <2>2
<1>5. ASSUME NEW k \in 1 .. Len(s) - 1 PROVE (a \o b)[k] = s[IF k < at THEN k ELSE k + 1]
  <2>1. CASE k < at
        BY <1>1, <1>2, <1>4, <2>1
  <2>2. CASE ~(k < at)
    <3>1. ~(k <= at - 1) /\ k - (at - 1) \in 1 .. Len(s) - at /\ at + (k - (at - 1)) = k + 1
          BY <1>1, <2>2
    <3>2. (a \o b)[k] = b[k - (at - 1)] /\ b[k - (at - 1)] = s[k + 1]
          BY <1>3, <1>4, <3>1
    <3>3. QED BY <2>2, <3>2
  <2>3. QED BY <2>1, <2>2
<1>6. QED BY <1>4, <1>5 DEF RemoveAt, a, b

LEMMA GainOne ==
    ASSUME NEW S, NEW s \in Seq(S), NEW at \in 1 .. Len(s) + 1, NEW e \in S
    PROVE  /\ InsertAt(s, at, e) \in Seq(S) /\ Len(InsertAt(s, at, e)) = Len(s) + 1
           /\ InsertAt(s, at, e)[at] = e
           /\ \A k \in 1 .. Len(s) + 1 :
                 k # at => InsertAt(s, at, e)[k] = s[IF k < at THEN k ELSE k - 1]
<1> DEFINE a == SubSeq(s, 1, at - 1)
           b == SubSeq(s, at, Len(s))
           c == a \o <<e>>
<1>1. Len(s) \in Nat /\ at \in Nat /\ 1 <= at /\ at <= Len(s) + 1
      OBVIOUS
<1>2. a \in Seq(S) /\ Len(a) = at - 1 /\ \A i \in 1 .. at - 1 : a[i] = s[i]
  <2>1. \A i \in 1 .. at - 1 : s[i] \in S
        BY <1>1
  <2>2. QED BY <1>1, <2>1, SubSeqProperties
<1>3. b \in Seq(S) /\ Len(b) = Len(s) - at + 1 /\ \A i \in 1 .. Len(s) - at + 1 : b[i] = s[at + i - 1]
  <2>1. \A i \in at .. Len(s) : s[i] \in S
        BY <1>1
  <2>2. QED BY <1>1, <2>1, SubSeqProperties
<1> HIDE DEF a, b
<1>4. <<e>> \in Seq(S) /\ Len(<<e>>) = 1 /\ <<e>>[1] = e
      OBVIOUS
<1>5. /\ c \in Seq(S) /\ Len(c) = at /\ c[at] = e
      /\ \A i \in 1 .. at - 1 : c[i] = s[i]
  <2>1. /\ c \in Seq(S) /\ Len(c) = at
        /\ \A i \in 1 .. at : c[i] = IF i <= at - 1 THEN a[i] ELSE <<e>>[i - (at - 1)]
        BY <1>1, <1>2, <1>4, ConcatProperties
  <2>2. c[at] = e
        BY <1>1, <1>4, <2>1
  <2>3. \A i \in 1 .. at - 1 : c[i] = s[i]
        BY <1>1, <1>2, <2>1
  <2>4. QED BY <2>1, <2>2, <2>3
<1> HIDE DEF c
<1>6. /\ c \o b \in Seq(S) /\ Len(c \o b) = Len(s) + 1
      /\ \A k \in 1 .. Len(s) + 1 : (c \o b)[k] = IF k <= at THEN c[k] ELSE b[k - at]
      BY <1>1, <1>3, <1>5, ConcatProperties
<1>7. (c \o b)[at] = e
      BY <1>1, <1>5, <1>6
<1>8. ASSUME NEW k \in 1 .. Len(s) + 1, k # at PROVE (c \o b)[k] = s[IF k < at THEN k ELSE k - 1]
  <2>1. CASE k < at
        BY <1>1, <1>5, <1>6, <2>1
  <2>2. CASE ~(k < at)
    <3>1. ~(k <= at) /\ k - at \in 1 .. Len(s) - at + 1 /\ at + (k - at) - 1 = k - 1
          BY <1>1, <1>8, <2>2
    <3>2. (c \o b)[k] = b[k - at] /\ b[k - at] = s[k - 1]
          BY <1>3, <1>6, <3>1
    <3>3. QED BY <2>2, <3>2
  <2>3. QED BY <2>1, <2>2
<1>9. QED BY <1>6, <1>7, <1>8 DEF InsertAt, a, b, c

\* The others of a repository are listed, and it is not.
LEMMA OthersListed ==
    ASSUME Listing(loaded), NEW repo
    PROVE  Listing(Others(repo)) /\ \A i \in 1 .. Len(Others(repo)) : Others(repo)[i][1] # repo
<1> DEFINE its == {i \in 1 .. Len(loaded) : loaded[i][1] = repo}
           at == SelectInSeq(loaded, LAMBDA e : e[1] = repo)
           rest == RemoveAt(loaded, at)
<1>1. loaded \in Seq(Entries) /\ Len(loaded) \in Nat
      /\ \A i, j \in 1 .. Len(loaded) : loaded[i][1] = loaded[j][1] => i = j
      BY DEF Listing
<1>2. at = IF its # {} THEN Min(its) ELSE 0
      BY DEF SelectInSeq
<1>3. Others(repo) = IF at = 0 THEN loaded ELSE rest
      BY DEF Others
<1> HIDE DEF at
<1>4. CASE its = {}
  <2>1. Others(repo) = loaded
        BY <1>2, <1>3, <1>4
  <2>2. QED BY <1>4, <2>1
<1>5. CASE its # {}
  <2>1. its \subseteq Nat
        BY <1>1
  <2>2. at \in its
        BY <1>2, <1>5, <2>1, MinIs
  <2>3. at \in 1 .. Len(loaded) /\ loaded[at][1] = repo /\ at # 0
        BY <1>1, <2>2
  <2>4. /\ rest \in Seq(Entries) /\ Len(rest) = Len(loaded) - 1
        /\ \A k \in 1 .. Len(loaded) - 1 : rest[k] = loaded[IF k < at THEN k ELSE k + 1]
        BY <1>1, <2>3, LoseOne
  <2> HIDE DEF rest
  <2>5. ASSUME NEW i \in 1 .. Len(rest), NEW j \in 1 .. Len(rest), rest[i][1] = rest[j][1] PROVE i = j
    <3> DEFINE f(k) == IF k < at THEN k ELSE k + 1
    <3>1. f(i) \in 1 .. Len(loaded) /\ f(j) \in 1 .. Len(loaded)
          BY <1>1, <2>3, <2>4
    <3>2. loaded[f(i)][1] = loaded[f(j)][1]
          BY <2>4, <2>5
    <3>3. f(i) = f(j)
          BY <1>1, <3>1, <3>2
    <3>4. QED BY <1>1, <2>3, <2>4, <3>3
  <2>6. ASSUME NEW i \in 1 .. Len(rest) PROVE rest[i][1] # repo
    <3> DEFINE k == IF i < at THEN i ELSE i + 1
    <3>1. k \in 1 .. Len(loaded) /\ k # at /\ rest[i] = loaded[k]
          BY <1>1, <2>3, <2>4
    <3>2. QED BY <1>1, <2>3, <3>1
  <2>7. Others(repo) = rest
        BY <1>3, <2>3
  <2>8. QED BY <2>4, <2>5, <2>6, <2>7 DEF Listing
<1>6. QED BY <1>4, <1>5

Listed == Listing(loaded)

\* Whatever is scanned, dropped and scanned again, the store lists a repository once.
THEOREM AlwaysListed == NamingSpec => []Listed
<1>1. NamingInit => Listed
      BY DEF NamingInit, Listed, Listing
<1>2. Listed /\ [NamingNext]_namingVars => Listed'
  <2> SUFFICES ASSUME Listing(loaded), [NamingNext]_namingVars PROVE Listing(loaded')
      BY DEF Listed
  <2>1. ASSUME NEW repo \in DOMAIN Trees, NEW tree \in DOMAIN Trees[repo], Rescan(repo, tree)
        PROVE  Listing(loaded')
    <3> DEFINE others == Others(repo)
               e == <<repo, tree>>
    <3>1. Listing(others) /\ \A i \in 1 .. Len(others) : others[i][1] # repo
          BY OthersListed
    <3>2. PICK n \in 0 .. Len(others) : loaded' = InsertAt(others, n + 1, e)
          BY <2>1 DEF Rescan
    <3>3. e \in Entries /\ e[1] = repo
          BY DEF Entries
    <3> DEFINE at == n + 1
    <3>4. others \in Seq(Entries) /\ Len(others) \in Nat /\ at \in 1 .. Len(others) + 1
          BY <3>1 DEF Listing
    <3>8. loaded' = InsertAt(others, at, e)
          BY <3>2
    <3> HIDE DEF others, e, at
    <3>5. /\ loaded' \in Seq(Entries) /\ Len(loaded') = Len(others) + 1
          /\ loaded'[at] = e
          /\ \A k \in 1 .. Len(others) + 1 : k # at => loaded'[k] = others[IF k < at THEN k ELSE k - 1]
          BY <3>3, <3>4, <3>8, GainOne
    <3>6. ASSUME NEW i \in 1 .. Len(loaded'), NEW j \in 1 .. Len(loaded'), loaded'[i][1] = loaded'[j][1]
          PROVE  i = j
      <4> DEFINE f(k) == IF k < at THEN k ELSE k - 1
      <4>1. ASSUME NEW k \in 1 .. Len(loaded'), k # at
            PROVE  f(k) \in 1 .. Len(others) /\ loaded'[k] = others[f(k)] /\ loaded'[k][1] # repo
        <5>1. f(k) \in 1 .. Len(others)
              BY <3>4, <3>5, <4>1
        <5>2. QED BY <3>1, <3>5, <4>1, <5>1
      <4>2. CASE i = at \/ j = at
            BY <3>3, <3>5, <3>6, <4>1, <4>2
      <4>3. CASE i # at /\ j # at
        <5>1. f(i) = f(j)
              BY <3>1, <3>6, <4>1, <4>3 DEF Listing
        <5>2. QED BY <3>4, <3>5, <4>3, <5>1
      <4>4. QED BY <4>2, <4>3
    <3>7. QED BY <3>5, <3>6 DEF Listing
  <2>2. ASSUME NEW repo \in DOMAIN Trees, Drop(repo) PROVE Listing(loaded')
    <3>1. loaded' = Others(repo)
          BY <2>2 DEF Drop
    <3>2. QED BY <3>1, OthersListed
  <2>3. CASE UNCHANGED namingVars
        BY <2>3 DEF namingVars
  <2>4. QED BY <2>1, <2>2, <2>3 DEF NamingNext
<1>3. QED BY <1>1, <1>2, PTL DEF NamingSpec

Flattens(seqs, n, f) == f = [i \in 1 .. n |-> IF i = 1 THEN seqs[i] ELSE f[i - 1] \o seqs[i]]

LEMMA FlatteningGoesOn ==
    ASSUME NEW seqs, NEW N \in Nat
    PROVE  \E f : Flattens(seqs, N, f)
<1> DEFINE T == {k \in Nat : \E f : Flattens(seqs, k, f)}
<1>1. 0 \in T
  <2> DEFINE f == [i \in 1 .. 0 |-> seqs[i]]
  <2>1. Flattens(seqs, 0, f)
        BY DEF Flattens
  <2>2. QED BY <2>1
<1>2. ASSUME NEW k \in Nat, k \in T PROVE k + 1 \in T
  <2>1. PICK g : Flattens(seqs, k, g)
        BY <1>2
  <2> DEFINE f == [i \in 1 .. k + 1 |-> IF i <= k THEN g[i] ELSE IF i = 1 THEN seqs[i] ELSE g[k] \o seqs[i]]
  <2>2. ASSUME NEW i \in 1 .. k + 1
        PROVE  f[i] = IF i = 1 THEN seqs[i] ELSE f[i - 1] \o seqs[i]
    <3>1. CASE i \in 1 .. k
      <4>0. f[i] = g[i]
            BY <3>1
      <4>1. g[i] = IF i = 1 THEN seqs[i] ELSE g[i - 1] \o seqs[i]
        <5>1. \A j \in 1 .. k : g[j] = IF j = 1 THEN seqs[j] ELSE g[j - 1] \o seqs[j]
              BY <2>1, Zenon DEF Flattens
        <5>2. QED BY <3>1, <5>1, Zenon
      <4>2. i # 1 => i - 1 \in 1 .. k + 1 /\ i - 1 <= k
            BY <3>1
      <4>3. i # 1 => f[i - 1] = g[i - 1]
            BY <4>2
      <4>4. QED BY <4>0, <4>1, <4>3
    <3>2. CASE i = k + 1 /\ i # 1
      <4>1. i - 1 = k /\ k \in 1 .. k + 1 /\ ~(i <= k)
            BY <3>2
      <4>2. f[k] = g[k]
            BY <4>1
      <4>3. f[i] = IF i <= k THEN g[i] ELSE IF i = 1 THEN seqs[i] ELSE g[k] \o seqs[i]
            BY Zenon
      <4>4. f[i] = g[k] \o seqs[i]
            BY <3>2, <4>1, <4>3, Zenon
      <4>5. QED BY <3>2, <4>1, <4>2, <4>4, Zenon
    <3>3. CASE i = k + 1 /\ i = 1
          BY <3>3
    <3>4. QED BY <3>1, <3>2, <3>3
  <2>3. f = [i \in 1 .. k + 1 |-> f[i]]
        OBVIOUS
  <2> HIDE DEF f
  <2>4. Flattens(seqs, k + 1, f)
        BY <2>2, <2>3 DEF Flattens
  <2>5. QED BY <2>4
<1> HIDE DEF T
<1>3. N \in T
      BY <1>1, <1>2, AllNumbers
<1>4. QED BY <1>3 DEF T

LEMMA FlattenIs ==
    ASSUME NEW S, NEW seqs \in Seq(Seq(S))
    PROVE  /\ FlattenSeq(seqs) \in Seq(S)
           /\ Range(FlattenSeq(seqs)) = UNION {Range(seqs[i]) : i \in 1 .. Len(seqs)}
<1> DEFINE N == Len(seqs)
           f == CHOOSE g : g = [i \in 1 .. N |-> IF i = 1 THEN seqs[i] ELSE g[i - 1] \o seqs[i]]
           IsIt(g) == Flattens(seqs, N, g)
           Upto(k) == UNION {Range(seqs[i]) : i \in 1 .. k}
           T == {k \in Nat : k + 1 <= N => f[k + 1] \in Seq(S) /\ Range(f[k + 1]) = Upto(k + 1)}
<1>1. N \in Nat /\ \A i \in 1 .. N : seqs[i] \in Seq(S)
      OBVIOUS
<1>2. FlattenSeq(seqs) = IF N = 0 THEN seqs ELSE f[N]
      BY DEF FlattenSeq
<1>3. IsIt(f)
  <2>1. \E g : IsIt(g)
        BY <1>1, FlatteningGoesOn
  <2>2. f = CHOOSE g : IsIt(g)
        BY DEF Flattens
  <2> HIDE DEF IsIt, f
  <2>3. QED BY <2>1, <2>2
<1> HIDE DEF f
<1>4. \A i \in 1 .. N : f[i] = IF i = 1 THEN seqs[i] ELSE f[i - 1] \o seqs[i]
      BY <1>3 DEF Flattens
<1>5. CASE N = 0
  <2>1. seqs = <<>> /\ FlattenSeq(seqs) = seqs
        BY <1>2, <1>5
  <2>2. <<>> \in Seq(S) /\ Range(<<>>) = {} /\ 1 .. 0 = {}
        BY DEF Range
  <2>3. UNION {Range(seqs[i]) : i \in 1 .. N} = {}
        BY <1>5
  <2>4. QED BY <2>1, <2>2, <2>3
<1>6. CASE N # 0
  <2>1. 0 \in T
    <3>1. 0 + 1 = 1 /\ 1 \in 1 .. N
          BY <1>1, <1>6
    <3>2. f[1] = seqs[1] /\ seqs[1] \in Seq(S)
          BY <1>1, <1>4, <3>1
    <3>3. Upto(1) = Range(seqs[1])
          OBVIOUS
    <3>4. QED BY <3>1, <3>2, <3>3
  <2>2. ASSUME NEW k \in Nat, k \in T PROVE k + 1 \in T
    <3> SUFFICES ASSUME k + 2 <= N
                 PROVE  f[k + 2] \in Seq(S) /\ Range(f[k + 2]) = Upto(k + 2)
      <4>1. (k + 1) + 1 = k + 2 /\ k + 1 \in Nat
            OBVIOUS
      <4>2. QED BY <4>1
    <3>1. k + 2 \in 1 .. N /\ k + 2 # 1 /\ (k + 2) - 1 = k + 1 /\ k + 1 <= N
          BY <1>1
    <3>2. f[k + 1] \in Seq(S) /\ Range(f[k + 1]) = Upto(k + 1)
          BY <2>2, <3>1
    <3>3. f[k + 2] = f[k + 1] \o seqs[k + 2] /\ seqs[k + 2] \in Seq(S)
          BY <1>1, <1>4, <3>1
    <3>4. 1 .. k + 2 = 1 .. k + 1 \cup {k + 2}
          OBVIOUS
    <3>5. Upto(k + 2) = Upto(k + 1) \cup Range(seqs[k + 2])
          BY <3>4
    <3> HIDE DEF Upto, T
    <3>6. /\ f[k + 1] \o seqs[k + 2] \in Seq(S)
          /\ Range(f[k + 1] \o seqs[k + 2]) = Range(f[k + 1]) \cup Range(seqs[k + 2])
          BY <3>2, <3>3, RangeConcatenation, ConcatProperties
    <3>7. QED BY <3>2, <3>3, <3>5, <3>6, Zenon
  <2> HIDE DEF T
  <2>3. N - 1 \in T
    <3>1. N - 1 \in Nat
          BY <1>1, <1>6
    <3>2. Nat \subseteq T
          BY <2>1, <2>2, AllNumbers
    <3>3. QED BY <3>1, <3>2
  <2>4. (N - 1) + 1 = N
        BY <1>1
  <2>5. f[N] \in Seq(S) /\ Range(f[N]) = Upto(N)
        BY <1>1, <2>3, <2>4 DEF T
  <2>6. QED BY <1>2, <1>6, <2>5
<1>7. QED BY <1>5, <1>6

\* The claims of the store are those of the trees it lists.
LEMMA ClaimsAre ==
    ASSUME Listed
    PROVE  /\ \E S : Claims \in Seq(S)
           /\ Range(Claims) = UNION {Range(Trees[loaded[i][1]][loaded[i][2]]) : i \in 1 .. Len(loaded)}
<1> DEFINE Tree(e) == Trees[e[1]][e[2]]
           S == UNION {Range(Tree(e)) : e \in Entries}
           seqs == [i \in DOMAIN loaded |-> Tree(loaded[i])]
<1>1. loaded \in Seq(Entries)
      BY DEF Listed, Listing
<1>2. ASSUME NEW e \in Entries PROVE Tree(e) \in Seq(S)
  <2>1. e[1] \in DOMAIN Trees /\ e[2] \in DOMAIN Trees[e[1]]
        BY DEF Entries
  <2>2. Tree(e) \in Seq(Range(Tree(e)))
        BY <2>1, NamingAssumption
  <2>3. Range(Tree(e)) \subseteq S
        OBVIOUS
  <2> HIDE DEF Tree, S
  <2>4. QED BY <2>2, <2>3, SeqMonotonic
<1>3. Claims = FlattenSeq(seqs)
      BY DEF Claims
<1> HIDE DEF Tree, S
<1>4. seqs \in Seq(Seq(S)) /\ Len(seqs) = Len(loaded) /\ \A i \in 1 .. Len(loaded) : seqs[i] = Tree(loaded[i])
      BY <1>1, <1>2
<1> HIDE DEF seqs
<1>5. Claims \in Seq(S) /\ Range(Claims) = UNION {Range(seqs[i]) : i \in 1 .. Len(seqs)}
      BY <1>3, <1>4, FlattenIs
<1>6. UNION {Range(seqs[i]) : i \in 1 .. Len(seqs)} = UNION {Range(Tree(loaded[i])) : i \in 1 .. Len(loaded)}
      BY <1>4
<1>7. QED BY <1>5, <1>6 DEF Tree

LEMMA ClaimsDistinct ==
    ASSUME Listed
    PROVE  Distinct(Range(Claims))
<1> DEFINE Tree(i) == Trees[loaded[i][1]][loaded[i][2]]
           n == Len(loaded)
<1>1. /\ \E S : Claims \in Seq(S)
      /\ Range(Claims) = UNION {Range(Tree(i)) : i \in 1 .. n}
      BY ClaimsAre
<1>2. IsFiniteSet(Range(Claims))
  <2>1. PICK S : Claims \in Seq(S)
        BY <1>1
  <2>2. Len(Claims) \in Nat /\ DOMAIN Claims = 1 .. Len(Claims)
        BY <2>1
  <2>3. Claims \in Surjection(1 .. Len(Claims), Range(Claims))
        BY <2>1, <2>2 DEF Surjection, Range
  <2>4. IsFiniteSet(1 .. Len(Claims))
        BY <2>2, FS_Interval
  <2>5. QED BY <2>3, <2>4, FS_Surjection
<1>3. ASSUME NEW i \in 1 .. n
      PROVE  /\ loaded[i][1] \in DOMAIN Trees /\ loaded[i][2] \in DOMAIN Trees[loaded[i][1]]
             /\ \A k \in DOMAIN Tree(i) :
                   /\ Tree(i)[k].id \in Nat /\ Tree(i)[k].id \in Ids(loaded[i][1])
                   /\ \A l \in DOMAIN Tree(i) : Tree(i)[k].id = Tree(i)[l].id => k = l
  <2>1. loaded[i] \in Entries
        BY DEF Listed, Listing
  <2>2. loaded[i][1] \in DOMAIN Trees /\ loaded[i][2] \in DOMAIN Trees[loaded[i][1]]
        BY <2>1 DEF Entries
  <2>3. \A k \in DOMAIN Tree(i) :
           /\ Tree(i)[k].id \in Nat
           /\ \A l \in DOMAIN Tree(i) : Tree(i)[k].id = Tree(i)[l].id => k = l
        BY <2>2, NamingAssumption
  <2>4. \A k \in DOMAIN Tree(i) : Tree(i)[k].id \in Ids(loaded[i][1])
        BY <2>2 DEF Ids, Range
  <2>5. QED BY <2>2, <2>3, <2>4
<1>4. ASSUME NEW c \in Range(Claims), NEW d \in Range(Claims), c.id = d.id
      PROVE  c.id \in Nat /\ c = d
  <2>1. PICK i \in 1 .. n : c \in Range(Tree(i))
        BY <1>1
  <2>2. PICK k \in DOMAIN Tree(i) : c = Tree(i)[k]
        BY <2>1 DEF Range
  <2>3. PICK j \in 1 .. n : d \in Range(Tree(j))
        BY <1>1
  <2>4. PICK l \in DOMAIN Tree(j) : d = Tree(j)[l]
        BY <2>3 DEF Range
  <2> HIDE DEF Tree
  <2>5. c.id \in Nat /\ c.id \in Ids(loaded[i][1]) /\ c.id \in Ids(loaded[j][1])
        BY <1>3, <1>4, <2>2, <2>4
  <2>6. loaded[i][1] = loaded[j][1]
        BY <1>3, <2>5, NamingAssumption
  <2>7. i = j
        BY <2>6 DEF Listed, Listing
  <2>8. QED BY <1>3, <1>4, <2>2, <2>4, <2>5, <2>7
<1>5. QED BY <1>2, <1>4 DEF Distinct

\* partitions.plan, for any claims of any repositories: whatever the sizes of the keys,
\* the number of workers and the cap, every provider and consumer of a key meet in one
\* worker and once, and no worker has more than its share and one shard.
THEOREM PairsAlwaysMeetOnce == NamingSpec => []PairsMeetOnce
<1>1. Listed => PairsMeetOnce
      BY ClaimsDistinct, SpreadMeetsOnce DEF PairsMeetOnce
<1>2. QED BY <1>1, AlwaysListed, PTL
------------------------------------------------------------------------------
(* What an edge touches                                                    *)

LEMMA LeastIs ==
    ASSUME NEW T, T \subseteq Range(Alphabet), T # {}
    PROVE  LeastOf(T) \in T
<1> DEFINE Places(a) == {i \in 1 .. Len(Alphabet) : Alphabet[i] = a}
           Place(a) == SelectInSeq(Alphabet, LAMBDA x : x = a)
           places == {Place(a) : a \in T}
<1>1. Alphabet \in Seq(Range(Alphabet)) /\ Len(Alphabet) \in Nat /\ DOMAIN Alphabet = 1 .. Len(Alphabet)
      BY NamingAssumption
<1>2. ASSUME NEW a \in T PROVE Place(a) \in Nat /\ Alphabet[Place(a)] = a
  <2>1. Places(a) # {} /\ Places(a) \subseteq Nat
        BY <1>1 DEF Range
  <2>2. Place(a) = Min(Places(a))
        BY <2>1 DEF SelectInSeq
  <2> HIDE DEF Place
  <2>3. Place(a) \in Places(a)
        BY <2>1, <2>2, MinIs
  <2>4. QED BY <2>1, <2>3
<1>3. \A a, b : Before(a, b) <=> Place(a) < Place(b)
      BY DEF Before
<1> HIDE DEF Place
<1>4. places \subseteq Nat /\ places # {}
      BY <1>2
<1>5. PICK n \in places : \A m \in places : n <= m
      BY <1>4, LeastNumber
<1>6. PICK a \in T : n = Place(a)
      BY <1>5
<1>7. ASSUME NEW b \in T \ {a} PROVE Before(a, b)
  <2>1. Place(a) <= Place(b) /\ Place(a) # Place(b)
        BY <1>2, <1>5, <1>6
  <2>2. QED BY <1>2, <1>3, <2>1
<1>8. QED BY <1>7 DEF LeastOf

\* The last claim of a key is one of those chosen.
LEMMA LastOnes ==
    ASSUME NEW S, NEW claims \in Seq(S), NEW chosen, chosen \subseteq Range(claims)
    PROVE  LET last == LastBy(claims, chosen, Placed) IN
           \A k \in DOMAIN last : last[k] \in chosen
<1> DEFINE last == LastBy(claims, chosen, Placed)
           Its(k) == {i \in DOMAIN claims : claims[i] \in chosen /\ Placed(claims[i]) = k}
<1>1. DOMAIN last = {Placed(c) : c \in chosen} /\ \A k \in DOMAIN last : last[k] = claims[Max(Its(k))]
      BY DEF LastBy
<1>2. ASSUME NEW k \in DOMAIN last PROVE Max(Its(k)) \in Its(k)
  <2>1. PICK c \in chosen : k = Placed(c)
        BY <1>1
  <2>2. PICK i \in DOMAIN claims : claims[i] = c
        BY DEF Range
  <2>3. i \in Its(k)
        BY <2>1, <2>2
  <2>4. DOMAIN claims = 1 .. Len(claims) /\ Len(claims) \in Nat
        OBVIOUS
  <2>5. Its(k) \subseteq 1 .. Len(claims) /\ IsFiniteSet(1 .. Len(claims)) /\ 1 .. Len(claims) \subseteq Nat
    <3>1. IsFiniteSet(1 .. Len(claims)) /\ 1 .. Len(claims) \subseteq Nat
          BY <2>4, FS_Interval
    <3>2. QED BY <2>4, <3>1
  <2> HIDE DEF Its
  <2>6. IsFiniteSet(Its(k)) /\ Its(k) \subseteq Nat
        BY <2>5, FS_Subset
  <2>7. QED BY <2>3, <2>6, MaxIs
<1>3. QED BY <1>1, <1>2

\* A context in which what is found by name or place is what the claims say
Sound(ctx) ==
    LET r0 == ctx.r0 IN
    /\ \A n \in DOMAIN r0.by : r0.by[n] \in Range(r0.at)
    /\ DOMAIN r0.at \subseteq r0.names
    /\ r0.names = {<<c.scope, Canon(ctx, c.name)>> : c \in NameClaims(ctx)}
    /\ DOMAIN r0.claiming = Range(r0.at)
    /\ \A s \in DOMAIN r0.claiming : r0.claiming[s] \subseteq Range(ctx.claims)
    /\ ctx.k8s.workloads \subseteq Range(ctx.claims)
    /\ \A p \in DOMAIN ctx.k8s.services : ctx.k8s.services[p] \in Range(ctx.claims)

LEMMA BroadcastIsSound ==
    ASSUME Listed
    PROVE  Sound(Broadcast(Claims)) /\ Broadcast(Claims).claims = Claims
<1> DEFINE ctx == Broadcast(Claims)
           index == Index(Claims)
           at == ServiceAt(index)
           by == ServiceBy(at)
           r0 == ctx.r0
<1>1. PICK S : Claims \in Seq(S)
      BY ClaimsAre
<1>2. ASSUME NEW c \in Range(Claims), c.kind = "svcname" PROVE c.scope \in Range(Alphabet)
  <2>1. PICK i \in 1 .. Len(loaded) : c \in Range(Trees[loaded[i][1]][loaded[i][2]])
        BY ClaimsAre
  <2>2. loaded[i][1] \in DOMAIN Trees /\ loaded[i][2] \in DOMAIN Trees[loaded[i][1]]
    <3>1. loaded[i] \in Entries
          BY DEF Listed, Listing
    <3>2. QED BY <3>1 DEF Entries
  <2> DEFINE tree == Trees[loaded[i][1]][loaded[i][2]]
  <2>3. PICK k \in DOMAIN tree : c = tree[k]
        BY <2>1 DEF Range
  <2>4. tree[k].kind = "svcname" => tree[k].scope \in Range(Alphabet)
        BY <2>2, NamingAssumption
  <2>5. QED BY <1>2, <2>3, <2>4
<1>3. /\ ctx.claims = Claims /\ index.claims = Claims
      /\ ctx.canon = index.canon /\ ctx.k8s = K8s(Claims)
      /\ r0 = Alias(index)
      BY DEF Broadcast, Index
<1>4. /\ r0.at = at /\ r0.by = by
      /\ r0.names = {<<c.scope, Canon(index, c.name)>> : c \in NameClaims(index)}
      /\ r0.claiming = [s \in Range(at) |->
             {c \in Providers(index) : at[<<c.scope, Canon(index, c.name)>>] = s}]
      BY <1>3 DEF Alias
<1>5. /\ NameClaims(ctx) = NameClaims(index) /\ Providers(index) \subseteq NameClaims(index)
      /\ NameClaims(index) \subseteq Range(Claims)
      /\ \A c \in NameClaims(index) : c.kind = "svcname"
      BY <1>3 DEF NameClaims, Providers
<1>6. \A n : Canon(ctx, n) = Canon(index, n)
      BY <1>3 DEF Canon
<1>7. DOMAIN at = {<<c.scope, Canon(index, c.name)>> : c \in Providers(index)}
      BY DEF ServiceAt
<1> HIDE DEF ctx, index, at, by
<1>8. ASSUME NEW n \in DOMAIN by PROVE by[n] \in Range(at)
  <2> DEFINE scopes == {p[1] : p \in {q \in DOMAIN at : q[2] = n}}
  <2>1. n \in {p[2] : p \in DOMAIN at} /\ by[n] = at[<<LeastOf(scopes), n>>]
        BY <1>8 DEF ServiceBy, by
  <2>2. scopes # {}
        BY <2>1
  <2>3. scopes \subseteq Range(Alphabet)
    <3>1. ASSUME NEW p \in DOMAIN at PROVE p[1] \in Range(Alphabet)
      <4>1. PICK c \in Providers(index) : p = <<c.scope, Canon(index, c.name)>>
            BY <1>7
      <4>2. c \in Range(Claims) /\ c.kind = "svcname" /\ p[1] = c.scope
            BY <1>5, <4>1
      <4>3. QED BY <1>2, <4>2
    <3>2. QED BY <3>1
  <2>4. LeastOf(scopes) \in scopes
    <3> HIDE DEF scopes
    <3>1. QED BY <2>2, <2>3, LeastIs
  <2>5. PICK p \in DOMAIN at : p[2] = n /\ p[1] = LeastOf(scopes)
        BY <2>4
  <2>6. p = <<p[1], p[2]>>
        BY <1>7
  <2>7. <<LeastOf(scopes), n>> \in DOMAIN at
        BY <2>5, <2>6
  <2>8. QED BY <2>1, <2>7 DEF Range
<1>9. /\ ctx.k8s.workloads \subseteq Range(ctx.claims)
      /\ \A p \in DOMAIN ctx.k8s.services : ctx.k8s.services[p] \in Range(ctx.claims)
  <2> DEFINE chosen == {c \in OfKind(Claims, "svcname", "provides") : FromSource(c, {"k8s_service"})}
  <2>1. ctx.k8s.workloads = Workloads(Claims) /\ ctx.k8s.services = LastBy(Claims, chosen, Placed)
        BY <1>3 DEF K8s, K8sServices
  <2>2. chosen \subseteq Range(Claims) /\ Workloads(Claims) \subseteq Range(Claims)
        BY DEF Workloads, OfKind, Kind
  <2> HIDE DEF chosen
  <2>3. \A p \in DOMAIN ctx.k8s.services : ctx.k8s.services[p] \in chosen
        BY <1>1, <2>1, <2>2, LastOnes
  <2>4. QED BY <1>3, <2>1, <2>2, <2>3
<1>10. /\ DOMAIN r0.at \subseteq r0.names
       /\ r0.names = {<<c.scope, Canon(ctx, c.name)>> : c \in NameClaims(ctx)}
      BY <1>4, <1>5, <1>6, <1>7
<1>11. /\ DOMAIN r0.claiming = Range(r0.at)
       /\ \A s \in DOMAIN r0.claiming : r0.claiming[s] \subseteq Range(ctx.claims)
      BY <1>3, <1>4, <1>5
<1>12. \A n \in DOMAIN r0.by : r0.by[n] \in Range(r0.at)
      BY <1>4, <1>8
<1>13. Sound(ctx)
      BY <1>9, <1>10, <1>11, <1>12 DEF Sound
<1>14. QED BY <1>3, <1>13 DEF ctx

\* An edge between nodes the run writes, or whose target is written with it
Touches(ctx, e) ==
    /\ e.source \in Nodes(ctx)
    /\ e.target \in Nodes(ctx) \/ e.type \in {"BELONGS_TO", "DEPLOYED_AS"}

\* The nodes there are: of claims, repositories, services, names, topics and packages.
LEMMA NodesAre ==
    ASSUME NEW ctx, Sound(ctx)
    PROVE  /\ \A c \in Range(ctx.claims) :
                 /\ ClaimNode(c) \in Nodes(ctx) /\ <<"GraphNode", c.id>> \in Nodes(ctx)
                 /\ RepoNode(c.repo) \in Nodes(ctx)
           /\ \A n \in DOMAIN ctx.r0.by : ctx.r0.by[n] \in Nodes(ctx)
           /\ \A p \in DOMAIN ctx.r0.at : ctx.r0.at[p] \in Nodes(ctx)
           /\ \A s \in DOMAIN ctx.r0.claiming : s \in Nodes(ctx)
           /\ \A p \in ctx.r0.names : ServiceName(p) \in Nodes(ctx)
           /\ \A t \in Topics(ctx) : TopicNode(t) \in Nodes(ctx)
           /\ \A c \in Publishers(ctx) \cup Consumers(ctx) : Library(c) \in Nodes(ctx)
<1>1. \A p \in DOMAIN ctx.r0.at : ctx.r0.at[p] \in Range(ctx.r0.at)
      BY DEF Range
<1>2. QED BY <1>1 DEF Nodes, Sound

LEMMA ChosenAreClaims ==
    ASSUME NEW claims, NEW kind, NEW direction
    PROVE  OfKind(claims, kind, direction) \subseteq Range(claims)
BY DEF OfKind, Kind

LEMMA ReposAre ==
    ASSUME NEW ctx, Sound(ctx), NEW url, NEW r \in RepoForUrl(ctx, url)
    PROVE  RepoNode(r) \in Nodes(ctx)
<1>1. PICK c \in Range(ctx.claims) : r = c.repo
      BY DEF RepoForUrl
<1>2. QED BY <1>1, NodesAre

LEMMA SelectorEdgesTouch ==
    ASSUME NEW ctx, Sound(ctx), NEW e \in SelectorEdges(ctx)
    PROVE  Touches(ctx, e)
<1>1. PICK p \in DOMAIN ctx.k8s.services :
          \E w \in BoundTo(ctx.k8s, p) :
              e = Edge("k8s", "MEMBER_OF", ClaimNode(w), ClaimNode(ctx.k8s.services[p]))
      BY DEF SelectorEdges
<1>2. PICK w \in BoundTo(ctx.k8s, p) :
          e = Edge("k8s", "MEMBER_OF", ClaimNode(w), ClaimNode(ctx.k8s.services[p]))
      BY <1>1
<1>3. w \in Range(ctx.claims) /\ ctx.k8s.services[p] \in Range(ctx.claims)
  <2>1. w \in ctx.k8s.workloads
        BY <1>2 DEF BoundTo, Selected
  <2>2. QED BY <2>1 DEF Sound
<1>4. e.source = ClaimNode(w) /\ e.target = ClaimNode(ctx.k8s.services[p])
      BY <1>2 DEF Edge
<1>5. QED BY <1>3, <1>4, NodesAre DEF Touches

LEMMA AliasEdgesTouch ==
    ASSUME NEW ctx, Sound(ctx), NEW e \in AliasEdges(ctx, ctx.r0)
    PROVE  Touches(ctx, e)
<1> DEFINE r0 == ctx.r0
           Says(c) == Edge("alias", "RESOLVED_TO", ClaimNode(c), ServiceName(<<c.scope, Canon(ctx, c.name)>>))
           Aka(p) == Edge("alias", "HAS_ALIAS", r0.at[p], ServiceName(p))
<1>1. CASE \E c \in NameClaims(ctx) : e = Says(c)
  <2>1. PICK c \in NameClaims(ctx) : e = Says(c)
        BY <1>1
  <2>2. c \in Range(ctx.claims) /\ <<c.scope, Canon(ctx, c.name)>> \in r0.names
        BY DEF Sound, NameClaims
  <2>3. e.source = ClaimNode(c) /\ e.target = ServiceName(<<c.scope, Canon(ctx, c.name)>>)
        BY <2>1 DEF Edge
  <2>4. QED BY <2>2, <2>3, NodesAre DEF Touches
<1>2. CASE \E p \in DOMAIN r0.at : e = Aka(p)
  <2>1. PICK p \in DOMAIN r0.at : e = Aka(p)
        BY <1>2
  <2>2. e.source = r0.at[p] /\ e.target = ServiceName(p) /\ p \in r0.names
        BY <2>1 DEF Edge, Sound
  <2>3. QED BY <2>2, NodesAre DEF Touches
<1>3. ASSUME NEW s \in DOMAIN r0.claiming,
             \/ \E m : e = Edge("alias", "BELONGS_TO", s, <<"Module", m>>)
             \/ \E u : e = Edge("alias", "DEPLOYED_AS", s, u)
             \/ \E r \in BuiltIn(r0.claiming[s]) : e = Edge("alias", "BUILT_FROM", s, RepoNode(r))
      PROVE  Touches(ctx, e)
  <2>1. e.source = s /\ s \in Nodes(ctx)
        BY <1>3, NodesAre DEF Edge
  <2>2. CASE \E r \in BuiltIn(r0.claiming[s]) : e = Edge("alias", "BUILT_FROM", s, RepoNode(r))
    <3>1. PICK r \in BuiltIn(r0.claiming[s]) : e = Edge("alias", "BUILT_FROM", s, RepoNode(r))
          BY <2>2
    <3>2. PICK c \in r0.claiming[s] : r = c.repo
          BY DEF BuiltIn
    <3>3. c \in Range(ctx.claims)
          BY DEF Sound
    <3>4. e.target = RepoNode(c.repo)
          BY <3>1, <3>2 DEF Edge
    <3>5. QED BY <2>1, <3>3, <3>4, NodesAre DEF Touches
  <2>3. CASE ~ \E r \in BuiltIn(r0.claiming[s]) : e = Edge("alias", "BUILT_FROM", s, RepoNode(r))
    <3>1. e.type \in {"BELONGS_TO", "DEPLOYED_AS"}
          BY <1>3, <2>3 DEF Edge
    <3>2. QED BY <2>1, <3>1 DEF Touches
  <2>4. QED BY <2>2, <2>3
<1>4. \/ \E c \in NameClaims(ctx) : e = Says(c)
      \/ \E p \in DOMAIN r0.at : e = Aka(p)
      \/ \E s \in DOMAIN r0.claiming :
            \/ \E m : e = Edge("alias", "BELONGS_TO", s, <<"Module", m>>)
            \/ \E u : e = Edge("alias", "DEPLOYED_AS", s, u)
            \/ \E r \in BuiltIn(r0.claiming[s]) : e = Edge("alias", "BUILT_FROM", s, RepoNode(r))
      BY DEF AliasEdges
<1>5. QED BY <1>1, <1>2, <1>3, <1>4

LEMMA ComposeEdgesTouch ==
    ASSUME NEW ctx, Sound(ctx), NEW e \in ComposeEdges(ctx, ctx.r0)
    PROVE  Touches(ctx, e)
<1>1. ASSUME NEW place, NEW n \in Endpoint(ctx.r0, place) PROVE n \in Nodes(ctx)
  <2>1. CASE place \in DOMAIN ctx.r0.at
        BY <2>1, NodesAre DEF Endpoint
  <2>2. CASE place \notin DOMAIN ctx.r0.at
        BY <2>2, NodesAre DEF Endpoint
  <2>3. QED BY <2>1, <2>2
<1>2. PICK c, pair :
          /\ pair \in Endpoint(ctx.r0, <<c.scope, Canon(ctx, Attr(c, "from", <<>>))>>)
                        \X Endpoint(ctx.r0, <<c.scope, Canon(ctx, c.name)>>)
          /\ e = Edge("compose", "CALLS_SERVICE", pair[1], pair[2])
  <2> DEFINE From(c) == Endpoint(ctx.r0, <<c.scope, Canon(ctx, Attr(c, "from", <<>>))>>)
             To(c) == Endpoint(ctx.r0, <<c.scope, Canon(ctx, c.name)>>)
             Of(c) == {Edge("compose", "CALLS_SERVICE", pair[1], pair[2]) :
                          pair \in {x \in From(c) \X To(c) : x[1] # x[2]}}
  <2>1. PICK c : e \in Of(c)
        BY DEF ComposeEdges
  <2> HIDE DEF From, To
  <2>2. PICK pair \in From(c) \X To(c) : e = Edge("compose", "CALLS_SERVICE", pair[1], pair[2])
        BY <2>1
  <2>3. QED BY <2>2 DEF From, To
<1>3. e.source = pair[1] /\ e.target = pair[2] /\ pair[1] \in Nodes(ctx) /\ pair[2] \in Nodes(ctx)
      BY <1>1, <1>2 DEF Edge
<1>4. QED BY <1>3 DEF Touches

LEMMA LibraryEdgesTouch ==
    ASSUME NEW ctx, Sound(ctx), NEW e \in LibraryEdges(ctx)
    PROVE  Touches(ctx, e)
<1> DEFINE published == {Coordinate(c) : c \in Publishers(ctx)}
           Repos(c) == {p.repo : p \in {q \in Publishers(ctx) : Coordinate(q) = Coordinate(c)}}
           Bound(c) == IF Coordinate(c) \in published THEN {} ELSE BoundRepos(ctx, c)
           Target(c) == IF Cardinality(Repos(c)) = 1 THEN Repos(c) ELSE Bound(c)
           Of(c) == {Edge("library", "RESOLVED_TO", ClaimNode(c), Library(c)),
                     Edge("library", IF c.direction = "provides" THEN "PUBLISHES" ELSE "DEPENDS_ON",
                          RepoNode(c.repo), Library(c))}
           Needs(c, r) == Edge("library", "DEPENDS_ON_REPO", RepoNode(c.repo), RepoNode(r))
<1>1. Publishers(ctx) \subseteq Range(ctx.claims) /\ Consumers(ctx) \subseteq Range(ctx.claims)
      BY ChosenAreClaims DEF Publishers, Consumers
<1>2. ASSUME NEW c \in Publishers(ctx) \cup Consumers(ctx), e \in Of(c) PROVE Touches(ctx, e)
  <2>1. e.source \in {ClaimNode(c), RepoNode(c.repo)} /\ e.target = Library(c)
        BY <1>2 DEF Edge
  <2>2. QED BY <1>1, <2>1, NodesAre DEF Touches
<1>3. ASSUME NEW c, NEW r \in BoundRepos(ctx, c) PROVE RepoNode(r) \in Nodes(ctx)
  <2>1. \E url : r \in RepoForUrl(ctx, url)
        BY DEF BoundRepos
  <2>2. QED BY <2>1, ReposAre
<1>4. ASSUME NEW c, NEW r \in Target(c) PROVE RepoNode(r) \in Nodes(ctx)
  <2>1. r \in Repos(c) \/ r \in BoundRepos(ctx, c)
        OBVIOUS
  <2>2. CASE r \in Repos(c)
        BY <1>1, <2>2, NodesAre
  <2>3. QED BY <1>3, <2>1, <2>2
<1>5. ASSUME NEW c \in Consumers(ctx), NEW r \in Target(c), e = Needs(c, r) PROVE Touches(ctx, e)
  <2>1. e.source = RepoNode(c.repo) /\ e.target = RepoNode(r)
        BY <1>5 DEF Edge
  <2>2. QED BY <1>1, <1>4, <2>1, NodesAre DEF Touches
<1>6. \/ \E c \in Publishers(ctx) \cup Consumers(ctx) : e \in Of(c)
      \/ \E c \in Consumers(ctx) : \E r \in Target(c) : e = Needs(c, r)
      BY DEF LibraryEdges
<1> HIDE DEF Of, Needs, Target
<1>7. QED BY <1>2, <1>5, <1>6

LEMMA GatewayEdgesTouch ==
    ASSUME NEW ctx, Sound(ctx), NEW e \in GatewayEdges(ctx, ctx.r0)
    PROVE  Touches(ctx, e)
<1> DEFINE r0 == ctx.r0
<1>1. ASSUME NEW name, NEW t \in RouteTarget(r0, name) \cup TargetEndpoint(r0, name) PROVE t \in Nodes(ctx)
  <2>1. \/ name \in DOMAIN r0.by /\ t = r0.by[name]
        \/ <<"discovery", name>> \in r0.names /\ t = ServiceName(<<"discovery", name>>)
        BY DEF RouteTarget, TargetEndpoint
  <2>2. QED BY <2>1, NodesAre
<1>2. \E c \in Routes(ctx) :
          \/ \E t \in RouteTarget(r0, Canon(ctx, c.at.target)) :
                e = Edge("gateway", "RESOLVED_TO", ClaimNode(c), t)
          \/ \E n \in DOMAIN r0.by, t \in TargetEndpoint(r0, Canon(ctx, c.at.target)) :
                e = Edge("gateway", "ROUTES_TO", r0.by[n], t)
      BY DEF GatewayEdges
<1>3. Routes(ctx) \subseteq Range(ctx.claims)
      BY ChosenAreClaims DEF Routes
<1>4. \E c \in Range(ctx.claims) : \E name :
          \/ \E t \in RouteTarget(r0, name) : e.source = ClaimNode(c) /\ e.target = t
          \/ \E n \in DOMAIN r0.by, t \in TargetEndpoint(r0, name) : e.source = r0.by[n] /\ e.target = t
      BY <1>2, <1>3 DEF Edge
<1>5. QED BY <1>1, <1>4, NodesAre DEF Touches

LEMMA TopicEdgesTouch ==
    ASSUME NEW ctx, Sound(ctx), NEW e \in TopicEdges(ctx, ctx.r0)
    PROVE  Touches(ctx, e)
<1> DEFINE Fans(d) == Attr(d, "fan_out", FALSE) /\ "to" \in DOMAIN d.at
<1>1. TopicClaims(ctx) \subseteq Range(ctx.claims)
      BY DEF TopicClaims
<1>2. \A c \in TopicClaims(ctx) : \A t \in TopicOf(ctx, c) : TopicNode(t) \in Nodes(ctx)
      BY NodesAre DEF Topics
<1>3. \A c \in TopicClaims(ctx) : Fans(c) =>
          /\ TopicNode(<<c.scope, c.name>>) \in Nodes(ctx)
          /\ TopicNode(<<c.at.to[1], c.at.to[2]>>) \in Nodes(ctx)
  <2>1. TAKE c \in TopicClaims(ctx)
  <2>2. HAVE Fans(c)
  <2>3. <<c.scope, c.name>> \in Topics(ctx) /\ c.at.to \in Topics(ctx)
    <3> DEFINE fans == {d \in TopicClaims(ctx) : Fans(d)}
    <3>1. c \in fans
          BY <2>2
    <3>2. Topics(ctx) = LiteralTopics(ctx) \cup (UNION {TopicOf(ctx, d) : d \in TopicClaims(ctx)})
                        \cup UNION {{<<d.scope, d.name>>, d.at.to} : d \in fans}
          BY DEF Topics
    <3> HIDE DEF fans
    <3>3. QED BY <3>1, <3>2
  <2>4. TopicNode(<<c.at.to[1], c.at.to[2]>>) = TopicNode(c.at.to)
        BY DEF TopicNode
  <2>5. QED BY <2>3, <2>4, NodesAre
<1> DEFINE Type(c) == IF Attr(c, "declares", FALSE) THEN "DECLARES_TOPIC"
                      ELSE IF c.direction = "provides" THEN "PUBLISHES_TO" ELSE "CONSUMES_FROM"
           Site(c) == IF Attr(c, "service", <<>>) # <<>> THEN c.at.service
                      ELSE OwnerOf(ctx.r0.modules, c.repo, c.path)
           Sites(c) == IF ~c.node THEN {}
                       ELSE {<<"GraphNode", c.id>>}
                            \cup {ctx.r0.by[n] : n \in {m \in {Canon(ctx, Site(c))} \cap DOMAIN ctx.r0.by :
                                                          ~Attr(c, "declares", FALSE)}}
           About(c) == {Edge("topic", "RESOLVED_TO", ClaimNode(c), TopicNode(t)) : t \in TopicOf(ctx, c)}
                       \cup {Edge("topic", Type(c), s, TopicNode(t)) : s \in Sites(c), t \in TopicOf(ctx, c)}
           Fan(c) == LET target == TopicNode(<<c.at.to[1], c.at.to[2]>>) IN
                     {Edge("topic", "FANS_OUT_TO", TopicNode(<<c.scope, c.name>>), target),
                      Edge("topic", "RESOLVED_TO", ClaimNode(c), target)}
<1>4. TopicEdges(ctx, ctx.r0) = (UNION {About(c) : c \in TopicClaims(ctx)})
                                \cup UNION {Fan(c) : c \in {d \in TopicClaims(ctx) : Fans(d)}}
      BY DEF TopicEdges
<1>5. ASSUME NEW c \in TopicClaims(ctx), NEW s \in Sites(c) PROVE s \in Nodes(ctx)
  <2>1. s = <<"GraphNode", c.id>> \/ \E n \in DOMAIN ctx.r0.by : s = ctx.r0.by[n]
        OBVIOUS
  <2>2. QED BY <1>1, <2>1, NodesAre
<1> HIDE DEF Type, Site, Sites
<1>6. ASSUME NEW c \in TopicClaims(ctx), e \in About(c) PROVE Touches(ctx, e)
  <2>1. \/ \E t \in TopicOf(ctx, c) : e = Edge("topic", "RESOLVED_TO", ClaimNode(c), TopicNode(t))
        \/ \E s \in Sites(c), t \in TopicOf(ctx, c) : e = Edge("topic", Type(c), s, TopicNode(t))
        BY <1>6
  <2>2. \E t \in TopicOf(ctx, c) :
            e.target = TopicNode(t) /\ (e.source = ClaimNode(c) \/ e.source \in Sites(c))
        BY <2>1 DEF Edge
  <2>3. e.target \in Nodes(ctx)
        BY <1>2, <2>2
  <2>4. ClaimNode(c) \in Nodes(ctx)
        BY <1>1, NodesAre
  <2>5. QED BY <1>5, <2>2, <2>3, <2>4 DEF Touches
<1>7. ASSUME NEW c \in TopicClaims(ctx), Fans(c), e \in Fan(c) PROVE Touches(ctx, e)
  <2>1. /\ e.source \in {TopicNode(<<c.scope, c.name>>), ClaimNode(c)}
        /\ e.target = TopicNode(<<c.at.to[1], c.at.to[2]>>)
        BY <1>7 DEF Edge
  <2>2. ClaimNode(c) \in Nodes(ctx)
        BY <1>1, NodesAre
  <2>3. QED BY <1>3, <1>7, <2>1, <2>2 DEF Touches
<1> HIDE DEF About, Fan, Fans
<1>8. QED BY <1>4, <1>6, <1>7

LEMMA QueuedEdgesTouch ==
    ASSUME NEW ctx, Sound(ctx), NEW calls, NEW e \in PendingEdges(ctx.r0, calls) \cup GitopsEdges(ctx, ctx.r0)
    PROVE  Touches(ctx, e)
<1>1. CASE e \in PendingEdges(ctx.r0, calls)
  <2>1. PICK c : {c.source, c.target} \subseteq DOMAIN ctx.r0.by
                 /\ e = Edge(c.by, c.type, ctx.r0.by[c.source], ctx.r0.by[c.target])
        BY <1>1 DEF PendingEdges
  <2>2. e.source = ctx.r0.by[c.source] /\ e.target = ctx.r0.by[c.target]
        BY <2>1 DEF Edge
  <2>3. QED BY <2>1, <2>2, NodesAre DEF Touches
<1>2. CASE e \in GitopsEdges(ctx, ctx.r0)
  <2>1. PICK g, r : /\ g[1] \in DOMAIN ctx.r0.by /\ r \in RepoForUrl(ctx, g[2])
                    /\ e = Edge("k8s", "BUILT_FROM", ctx.r0.by[g[1]], RepoNode(r))
        BY <1>2 DEF GitopsEdges
  <2>2. e.source = ctx.r0.by[g[1]] /\ e.target = RepoNode(r)
        BY <2>1 DEF Edge
  <2>3. RepoNode(r) \in Nodes(ctx)
        BY <2>1, ReposAre
  <2>4. QED BY <2>1, <2>2, <2>3, NodesAre DEF Touches
<1>3. QED BY <1>1, <1>2

\* For any claims, aliases and names: whatever a name of a claim resolves to, in every
\* resolver of the broadcast pass, is a node that the run writes.
THEOREM EndpointsAlwaysExist == NamingSpec => []EndpointsExist
<1>1. Listed => EndpointsExist
  <2> SUFFICES ASSUME Listed PROVE Dangling(Broadcast(Claims)) = {}
      BY DEF EndpointsExist
  <2> DEFINE ctx == Broadcast(Claims)
  <2>1. Sound(ctx)
        BY BroadcastIsSound
  <2> HIDE DEF ctx
  <2>2. ASSUME NEW e \in Edges(ctx) PROVE Touches(ctx, e)
    <3>1. \/ e \in SelectorEdges(ctx) \/ e \in AliasEdges(ctx, ctx.r0) \/ e \in ComposeEdges(ctx, ctx.r0)
          \/ e \in LibraryEdges(ctx) \/ e \in GatewayEdges(ctx, ctx.r0) \/ e \in TopicEdges(ctx, ctx.r0)
          \/ e \in PendingEdges(ctx.r0, Queued(ctx)) \cup GitopsEdges(ctx, ctx.r0)
          BY DEF Edges
    <3>2. QED BY <2>1, <3>1, SelectorEdgesTouch, AliasEdgesTouch, ComposeEdgesTouch, LibraryEdgesTouch,
                 GatewayEdgesTouch, TopicEdgesTouch, QueuedEdgesTouch
  <2>3. Dangling(ctx) = {}
        BY <2>2 DEF Dangling, Touches
  <2>4. QED BY <2>3 DEF ctx
<1>2. QED BY <1>1, AlwaysListed, PTL
------------------------------------------------------------------------------
(* The chain of gateways                                                   *)

At(service, path, stopped) == [service |-> service, path |-> path, stopped |-> stopped]

\* Where a chain from this service may be: at the service, or where a rule led
Reached(ctx, service, at) ==
    /\ at = At(at.service, at.path, at.stopped)
    /\ at = Refused \/ at.service = service \/ \E n : at.service = Canon(ctx, n)
    /\ at.stopped = "landed" => Matching(ctx, at.service, at.path) = <<>>

LEMMA HopReaches ==
    ASSUME NEW ctx, NEW service, NEW at, NEW seen, Reached(ctx, service, at)
    PROVE  Reached(ctx, service, Hop(ctx, at, seen))
<1> DEFINE finalists == Matching(ctx, at.service, at.path)
           target == Canon(ctx, finalists[1].target)
           Stop(why) == [at EXCEPT !.stopped = why]
           onward == At(target, Applied(finalists[1], at.path), "")
           next == Hop(ctx, at, seen)
<1>1. \/ at.stopped # "" /\ next = at
      \/ at.stopped = "" /\ finalists = <<>> /\ next = Stop("landed")
      \/ at.stopped = "" /\ next \in {Stop("ambiguous"), Stop("deep"), Stop("invalid"), Refused, onward}
      BY DEF Hop, At
<1> HIDE DEF finalists, target, next
<1>2. at = At(at.service, at.path, at.stopped)
      BY DEF Reached
<1>3. \A why : Stop(why) = At(at.service, at.path, why)
      BY <1>2 DEF At
<1>4. \A why : /\ Stop(why).service = at.service /\ Stop(why).path = at.path /\ Stop(why).stopped = why
      BY <1>3 DEF At
<1>5. /\ onward.service = target /\ onward.path = Applied(finalists[1], at.path)
      /\ onward.stopped = "" /\ onward = At(onward.service, onward.path, onward.stopped)
      BY DEF At
<1>6. at.stopped = "" => at # Refused
  <2>1. Refused.stopped = "cycle"
        BY DEF Refused
  <2>2. QED BY <2>1
<1> HIDE DEF Stop, onward
<1>7. CASE next = at
      BY <1>7 DEF next
<1>8. CASE at.stopped = "" /\ finalists = <<>> /\ next = Stop("landed")
      BY <1>3, <1>4, <1>6, <1>8 DEF Reached, finalists, next
<1>9. ASSUME NEW why \in {"ambiguous", "deep", "invalid"}, at.stopped = "", next = Stop(why)
       PROVE  Reached(ctx, service, next)
      BY <1>3, <1>4, <1>6, <1>9 DEF Reached
<1>10. CASE next = Refused
      BY <1>10 DEF Reached, Refused, At, next
<1>11. CASE at.stopped = "" /\ next = onward
      BY <1>5, <1>11 DEF Reached, target, next
<1>12. QED BY <1>1, <1>7, <1>8, <1>9, <1>10, <1>11 DEF next

Chained(ctx, service, path, n, g) ==
    g = [k \in 0 .. n |->
            IF k = 0 THEN [at |-> At(service, path, ""), seen |-> {service}]
            ELSE LET before == g[k - 1]
                     at == Hop(ctx, before.at, before.seen) IN
                 [at |-> at, seen |-> before.seen \cup {at.service}]]

LEMMA ChainGoesOn ==
    ASSUME NEW ctx, NEW service, NEW path, NEW N \in Nat
    PROVE  \E g : Chained(ctx, service, path, N, g)
<1> DEFINE T == {k \in Nat : \E g : Chained(ctx, service, path, k, g)}
           first == [at |-> At(service, path, ""), seen |-> {service}]
           Next1(v) == [at |-> Hop(ctx, v.at, v.seen), seen |-> v.seen \cup {Hop(ctx, v.at, v.seen).service}]
<1>0. \A n, g : Chained(ctx, service, path, n, g) <=>
                g = [k \in 0 .. n |-> IF k = 0 THEN first ELSE Next1(g[k - 1])]
      BY DEF Chained
<1> HIDE DEF first, Next1
<1>1. 0 \in T
  <2> DEFINE h == [k \in 0 .. 0 |-> first]
  <2>1. h = [k \in 0 .. 0 |-> IF k = 0 THEN first ELSE Next1(h[k - 1])]
        OBVIOUS
  <2> HIDE DEF h
  <2>2. QED BY <1>0, <2>1
<1>2. ASSUME NEW k \in Nat, k \in T PROVE k + 1 \in T
  <2>1. PICK g : g = [n \in 0 .. k |-> IF n = 0 THEN first ELSE Next1(g[n - 1])]
        BY <1>0, <1>2
  <2> DEFINE h == [n \in 0 .. k + 1 |-> IF n <= k THEN g[n] ELSE Next1(g[k])]
  <2>2. ASSUME NEW n \in 0 .. k + 1 PROVE h[n] = IF n = 0 THEN first ELSE Next1(h[n - 1])
    <3>1. CASE n = 0
      <4>1. h[n] = g[0] /\ g[0] = first
            BY <2>1, <3>1
      <4>2. QED BY <3>1, <4>1
    <3>2. CASE n \in 1 .. k
      <4>1. n \in 0 .. k /\ n - 1 \in 0 .. k + 1 /\ n - 1 <= k /\ n <= k /\ n # 0
            BY <3>2
      <4>2. h[n] = g[n] /\ h[n - 1] = g[n - 1]
            BY <4>1
      <4>3. g[n] = Next1(g[n - 1])
            BY <2>1, <4>1
      <4>4. QED BY <4>1, <4>2, <4>3
    <3>3. CASE n = k + 1
      <4>1. n - 1 = k /\ k \in 0 .. k + 1 /\ ~(n <= k) /\ n # 0
            BY <3>3
      <4>2. h[k] = g[k] /\ h[n] = Next1(g[k])
            BY <4>1
      <4>3. QED BY <4>1, <4>2
    <3>4. QED BY <3>1, <3>2, <3>3
  <2>3. h = [n \in 0 .. k + 1 |-> h[n]]
        OBVIOUS
  <2> HIDE DEF h
  <2>4. h = [n \in 0 .. k + 1 |-> IF n = 0 THEN first ELSE Next1(h[n - 1])]
        BY <2>2, <2>3
  <2>5. Chained(ctx, service, path, k + 1, h)
        BY <1>0, <2>4, Zenon
  <2>6. QED BY <2>5
<1> HIDE DEF T
<1>3. N \in T
      BY <1>1, <1>2, AllNumbers
<1>4. QED BY <1>3 DEF T

\* What a chain ends at; and one that begins where no table has the path ends there.
LEMMA ChainIs ==
    ASSUME NEW ctx, NEW service, NEW path
    PROVE  /\ Reached(ctx, service, Chain(ctx, service, path))
           /\ Matching(ctx, service, path) = <<>> => Chain(ctx, service, path) = At(service, path, "landed")
<1> DEFINE N == MaxHops + 1
           IsIt(g) == Chained(ctx, service, path, N, g)
           g == CHOOSE f : IsIt(f)
           T == {k \in Nat : k <= N => Reached(ctx, service, g[k].at)}
           L == {k \in Nat : k + 1 <= N => g[k + 1].at = At(service, path, "landed")}
<1>1. N \in Nat /\ N - 1 \in Nat /\ (N - 1) + 1 = N
      BY NamingAssumption
<1>2. Chain(ctx, service, path) = g[N].at
      BY DEF Chain, Chained, At
<1>3. IsIt(g)
  <2>1. \E f : IsIt(f)
        BY <1>1, ChainGoesOn
  <2> HIDE DEF IsIt
  <2>2. QED BY <2>1
<1> HIDE DEF g
<1>4. /\ g[0].at = At(service, path, "")
      /\ \A k \in 0 .. N : k # 0 => g[k].at = Hop(ctx, g[k - 1].at, g[k - 1].seen)
  <2> DEFINE first == [at |-> At(service, path, ""), seen |-> {service}]
             After(v) == [at |-> Hop(ctx, v.at, v.seen), seen |-> v.seen \cup {Hop(ctx, v.at, v.seen).service}]
  <2>1. g = [k \in 0 .. N |-> IF k = 0 THEN first ELSE After(g[k - 1])]
        BY <1>3, Zenon DEF Chained
  <2>2. first.at = At(service, path, "") /\ \A v : After(v).at = Hop(ctx, v.at, v.seen)
        OBVIOUS
  <2> HIDE DEF first, After
  <2>3. \A k \in 0 .. N : g[k] = IF k = 0 THEN first ELSE After(g[k - 1])
        BY <2>1, Zenon
  <2>4. 0 \in 0 .. N
        BY <1>1
  <2>5. QED BY <2>2, <2>3, <2>4
<1>5. Reached(ctx, service, At(service, path, ""))
      BY DEF Reached, At
<1>6. 0 \in T
      BY <1>4, <1>5
<1>7. ASSUME NEW k \in Nat, k \in T PROVE k + 1 \in T
  <2> SUFFICES ASSUME k + 1 <= N PROVE Reached(ctx, service, g[k + 1].at)
      OBVIOUS
  <2>1. k + 1 \in 0 .. N /\ k + 1 # 0 /\ (k + 1) - 1 = k /\ k <= N
        BY <1>1
  <2>2. g[k + 1].at = Hop(ctx, g[k].at, g[k].seen)
        BY <1>4, <2>1
  <2>3. Reached(ctx, service, g[k].at)
        BY <1>7, <2>1
  <2>4. QED BY <2>2, <2>3, HopReaches
<1>8. ASSUME Matching(ctx, service, path) = <<>> PROVE g[N].at = At(service, path, "landed")
  <2>1. \A seen : Hop(ctx, At(service, path, ""), seen) = At(service, path, "landed")
        BY <1>8 DEF Hop, At
  <2>2. \A seen : Hop(ctx, At(service, path, "landed"), seen) = At(service, path, "landed")
        BY DEF Hop, At
  <2>3. 0 \in L
    <3>1. 0 + 1 = 1 /\ 1 \in 0 .. N /\ 1 # 0 /\ 1 - 1 = 0
          BY <1>1
    <3>2. g[1].at = Hop(ctx, g[0].at, g[0].seen)
          BY <1>4, <3>1
    <3>3. QED BY <1>4, <2>1, <3>1, <3>2
  <2>4. ASSUME NEW k \in Nat, k \in L PROVE k + 1 \in L
    <3> SUFFICES ASSUME (k + 1) + 1 <= N PROVE g[(k + 1) + 1].at = At(service, path, "landed")
        OBVIOUS
    <3> DEFINE n == (k + 1) + 1
    <3>1. n \in 0 .. N /\ n # 0 /\ n - 1 = k + 1 /\ k + 1 <= N
          BY <1>1
    <3>2. g[n].at = Hop(ctx, g[k + 1].at, g[k + 1].seen)
          BY <1>4, <3>1
    <3>3. g[k + 1].at = At(service, path, "landed")
          BY <2>4, <3>1
    <3>4. QED BY <2>2, <3>2, <3>3
  <2> HIDE DEF L
  <2>5. N - 1 \in L
        BY <1>1, <2>3, <2>4, AllNumbers
  <2>6. QED BY <1>1, <2>5 DEF L
<1> HIDE DEF T
<1>9. N \in T
      BY <1>1, <1>6, <1>7, AllNumbers
<1>10. Reached(ctx, service, g[N].at)
      BY <1>1, <1>9 DEF T
<1>11. QED BY <1>2, <1>8, <1>10

\* No spelling that a name is known by stands for another that has one of its own.
Settled(ctx) == \A n : Canon(ctx, Canon(ctx, n)) = Canon(ctx, n)

LEMMA LandedIsFinal ==
    ASSUME NEW ctx, NEW service, NEW path, Chain(ctx, service, path).stopped = "landed"
    PROVE  LET c == Chain(ctx, service, path) IN Chain(ctx, c.service, c.path) = c
<1> DEFINE c == Chain(ctx, service, path)
<1>1. c = At(c.service, c.path, "landed") /\ Matching(ctx, c.service, c.path) = <<>>
      BY ChainIs DEF Reached
<1> HIDE DEF c
<1>2. Chain(ctx, c.service, c.path) = At(c.service, c.path, "landed")
      BY <1>1, ChainIs
<1>3. QED BY <1>1, <1>2 DEF c

\* I9, for any tables and call sites: where the spellings of a name are settled, a key is
\* final once a call site has it, however many gateways the call comes through.
THEOREM SettledKeysAreFinal == NamingSpec => [](Settled(Broadcast(Claims)) => KeysAreFinal)
<1>1. Settled(Broadcast(Claims)) => KeysAreFinal
  <2> DEFINE ctx == Broadcast(Claims)
             calls == Calls(ctx)
  <2> SUFFICES ASSUME Settled(ctx), NEW d \in DOMAIN calls, calls[d].stopped = "landed"
               PROVE  Chain(ctx, calls[d].service, calls[d].path) = calls[d]
      BY DEF KeysAreFinal, Unfinished
  <2> HIDE DEF ctx
  <2> DEFINE key == calls[d]
  <2>1. key \in Normalized(ctx, d) /\ key.stopped = "landed"
    <3>1. key = CHOOSE n \in Normalized(ctx, d) : TRUE
          BY DEF Calls
    <3>2. Normalized(ctx, d) # {}
          BY DEF Calls
    <3>3. QED BY <3>1, <3>2
  <2>2. \/ \E n : key = Chain(ctx, Canon(ctx, n), d.name)
        \/ \E c \in FromGateway(ctx, d) : key = [c EXCEPT !.service = Canon(ctx, @)]
        BY <2>1 DEF Normalized
  <2>3. CASE \E n : key = Chain(ctx, Canon(ctx, n), d.name)
        BY <2>1, <2>3, LandedIsFinal
  <2>4. CASE \E c \in FromGateway(ctx, d) : key = [c EXCEPT !.service = Canon(ctx, @)]
    <3>1. PICK c \in FromGateway(ctx, d) : key = [c EXCEPT !.service = Canon(ctx, @)]
          BY <2>4
    <3>2. PICK n, path : c = Chain(ctx, Canon(ctx, n), path)
          BY DEF FromGateway
    <3> HIDE DEF key
    <3>3. Reached(ctx, Canon(ctx, n), c)
          BY <3>2, ChainIs
    <3>4. c = At(c.service, c.path, c.stopped)
          BY <3>3 DEF Reached
    <3>5. key = At(Canon(ctx, c.service), c.path, c.stopped)
          BY <3>1, <3>4 DEF At
    <3>6. c.stopped = "landed"
          BY <2>1, <3>5 DEF At
    <3>7. \E m : c.service = Canon(ctx, m)
          BY <3>3, <3>6 DEF Reached, Refused
    <3>8. Canon(ctx, c.service) = c.service
          BY <3>7 DEF Settled
    <3>9. key = c
          BY <3>4, <3>5, <3>8
    <3>10. Chain(ctx, c.service, c.path) = c
          BY <3>2, <3>6, LandedIsFinal
    <3>11. QED BY <3>9, <3>10 DEF key
  <2>5. QED BY <2>2, <2>3, <2>4
<1>2. QED BY <1>1, PTL
==================================================================================
