----------------------------- MODULE FatProofs -----------------------------
(***************************************************************************)
(* Proofs about the FAT volume of module Fat, for every size of the FAT    *)
(* and of directories, all names, contents and sizes of files.             *)
(*                                                                         *)
(* Overwriting a file is a removal and an allocation at one go, and some   *)
(* calls damage the volume half way.  So what makes a volume sound is      *)
(* stated about any table f and blocks b, and each part of a call is shown *)
(* to keep it.                                                             *)
(***************************************************************************)
EXTENDS Fat, FiniteSetTheorems, WellFoundedInduction, TLAPS

-----------------------------------------------------------------------------
(* Clusters, and the least of a set of numbers                             *)

LEMMA FatBounds ==
    /\ LastCluster \in Nat /\ LastCluster >= 2 /\ SlotCount \in Nat \ {0} /\ Sizes \subseteq Nat
    /\ Cluster \subseteq 1..LastCluster /\ Cluster \subseteq Nat
    /\ 0 \notin Cluster /\ Eoc \notin Cluster /\ Eoc # Free /\ Root \notin Cluster
    /\ Free \notin Cluster
BY FatAssumption DEF Cluster, Eoc, Free, Root

LEMMA ClusterCount ==
    /\ IsFiniteSet(Cluster) /\ Cardinality(Cluster) = LastCluster - 1
    /\ \A S \in SUBSET Cluster : /\ IsFiniteSet(S) /\ Cardinality(S) \in Nat
                                 /\ Cardinality(S) < LastCluster
<1>1. IsFiniteSet(Cluster) /\ Cardinality(Cluster) = LastCluster - 1
  BY FatAssumption, FS_Interval DEF Cluster
<1>2. ASSUME NEW S \in SUBSET Cluster
      PROVE  IsFiniteSet(S) /\ Cardinality(S) \in Nat /\ Cardinality(S) < LastCluster
  <2>1. IsFiniteSet(S) /\ Cardinality(S) <= Cardinality(Cluster)
    BY <1>1, FS_Subset
  <2>2. Cardinality(S) \in Nat
    BY <2>1, FS_CardinalityType
  <2> QED
    BY <1>1, <2>1, <2>2, FatBounds
<1> QED
  BY <1>1, <1>2

(* A set of numbers that is not empty has a least element.                 *)
LEMMA LeastIs ==
    ASSUME NEW S, S \subseteq Nat, S # {}
    PROVE  Least(S) \in S /\ \A y \in S : Least(S) <= y
<1> DEFINE R == OpToRel(<, Nat)
<1>1. PICK m \in S : \A u \in S : ~(<<u, m>> \in R)
  <2>1. IsWellFoundedOn(R, Nat)
    BY NatLessThanWellFounded, Zenon
  <2> HIDE DEF R
  <2> QED
    BY <2>1, WFMin
<1>2. \A u \in S : ~(u < m)
  BY <1>1 DEF OpToRel
<1>3. \A u \in S : m <= u
  BY <1>2
<1> QED
  BY <1>3 DEF Least

-----------------------------------------------------------------------------
(* Chains                                                                  *)

Tables == [Cluster -> Cluster \cup {Free, Eoc}]

(* The n clusters s, linked one behind the other from c on                 *)
IsChain(f, c, n, s) ==
    /\ n \in 0..(LastCluster - 1) /\ s \in [1..n -> Cluster]
    /\ n = 0 => c = 0
    /\ n > 0 => s[1] = c /\ f[s[n]] = Eoc
    /\ \A i \in 1..n : i < n => f[s[i]] = s[i + 1]

(* A file of n clusters from c on                                          *)
Proper(f, c, n) == \E s : IsChain(f, c, n, s)

(* What the loop's variable is in each turn determines it.                 *)
Goes(f, c, T) ==
    T = [n \in 1..LastCluster |-> IF n = 1 THEN c ELSE NextCluster(f, T[n - 1])]

LEMMA TurnsAre ==
    ASSUME NEW f, NEW c, NEW T, Goes(f, c, T)
    PROVE  Turns(f, c) = T
<1>0. T = [n \in 1..LastCluster |-> IF n = 1 THEN c ELSE NextCluster(f, T[n - 1])]
  BY DEF Goes
<1> DEFINE U == Turns(f, c)
<1>1. U = [n \in 1..LastCluster |-> IF n = 1 THEN c ELSE NextCluster(f, U[n - 1])]
  BY <1>0 DEF Turns
<1> HIDE DEF U
<1> DEFINE D == {n \in 1..LastCluster : U[n] # T[n]}
<1>2. ASSUME D # {} PROVE FALSE
  <2>1. D \subseteq Nat /\ LastCluster \in Nat
    BY FatBounds
  <2>2. PICK m : m = Least(D)
    OBVIOUS
  <2>3. m \in D /\ \A y \in D : m <= y
    BY <1>2, <2>1, <2>2, LeastIs
  <2>4. m \in 1..LastCluster /\ m \in Nat /\ U[m] # T[m]
    BY <2>3
  <2>5. m # 1
    BY <1>0, <1>1, <2>4
  <2>6. m - 1 \in 1..LastCluster /\ m - 1 \notin D
    BY <2>1, <2>3, <2>4, <2>5
  <2>7. U[m - 1] = T[m - 1]
    BY <2>6
  <2>8. U[m] = NextCluster(f, U[m - 1])
    BY <1>1, <2>4, <2>5
  <2>9. T[m] = NextCluster(f, T[m - 1])
    BY <1>0, <2>4, <2>5
  <2> QED
    BY <2>4, <2>7, <2>8, <2>9
<1>3. \A n \in 1..LastCluster : U[n] = T[n]
  BY <1>2
<1> QED
  BY <1>0, <1>1, <1>3 DEF U

(* The loop over a chain visits its clusters and nothing else.             *)
LEMMA WalkIs ==
    ASSUME NEW f, NEW c, NEW n, NEW s, IsChain(f, c, n, s)
    PROVE  Walk(f, c) = s /\ Chain(f, c) = {s[i] : i \in 1..n}
<1> DEFINE T == [i \in 1..LastCluster |-> IF i <= n THEN s[i]
                                          ELSE IF n > 0 /\ i = n + 1 THEN Eoc ELSE Free]
<1>1. /\ n \in Nat /\ n < LastCluster /\ s \in [1..n -> Cluster] /\ LastCluster \in Nat
      /\ n = 0 => c = 0
      /\ n > 0 => s[1] = c /\ f[s[n]] = Eoc
      /\ \A i \in 1..n : i < n => f[s[i]] = s[i + 1]
  BY FatBounds DEF IsChain
<1>2. ASSUME NEW i \in 1..LastCluster
      PROVE  T[i] = IF i = 1 THEN c ELSE NextCluster(f, T[i - 1])
  <2>1. CASE i = 1
    <3>1. CASE n > 0
      BY <1>1, <2>1, <3>1
    <3>2. CASE n = 0
      BY <1>1, <2>1, <3>2 DEF Free
    <3> QED
      BY <1>1, <3>1, <3>2
  <2>2. CASE i # 1 /\ i <= n
    <3>1. i - 1 \in 1..n /\ i - 1 < n /\ (i - 1) + 1 = i /\ i - 1 \in 1..LastCluster
      BY <1>1, <2>2
    <3>2. f[s[i - 1]] = s[i]
      BY <1>1, <3>1
    <3>3. s[i - 1] \in Cluster /\ T[i - 1] = s[i - 1] /\ T[i] = s[i]
      BY <1>1, <2>2, <3>1
    <3> QED
      BY <2>2, <3>2, <3>3 DEF NextCluster
  <2>3. CASE i # 1 /\ i = n + 1
    <3>1. n > 0 /\ i - 1 = n /\ n \in 1..n
      BY <1>1, <2>3
    <3>2. s[n] \in Cluster /\ T[i - 1] = s[n] /\ T[i] = Eoc
      BY <1>1, <2>3, <3>1
    <3> QED
      BY <1>1, <2>3, <3>1, <3>2 DEF NextCluster
  <2>4. CASE i # 1 /\ i > n + 1
    <3>1. T[i] = Free /\ T[i - 1] \in {Eoc, Free}
      BY <1>1, <2>4
    <3> QED
      BY <2>4, <3>1, FatBounds DEF NextCluster
  <2> QED
    BY <1>1, <2>1, <2>2, <2>3, <2>4
<1>3. Turns(f, c) = T
  <2>1. PICK U : U = T
    OBVIOUS
  <2>2. U = [i \in 1..LastCluster |-> U[i]]
    BY <2>1
  <2>3. \A i \in 1..LastCluster : U[i] = IF i = 1 THEN c ELSE NextCluster(f, U[i - 1])
    BY <1>2, <2>1
  <2>4. Goes(f, c, U)
    BY <2>2, <2>3 DEF Goes
  <2>5. Turns(f, c) = U
    BY <2>4, TurnsAre
  <2> QED
    BY <2>1, <2>5
<1>4. {i \in 1..LastCluster : T[i] \in Cluster} = 1..n
  BY <1>1, FatBounds
<1>5. Cardinality(1..n) = n
  BY <1>1, FS_Interval
<1>6. Walk(f, c) = [i \in 1..n |-> T[i]]
  <2> HIDE DEF T
  <2> QED
    BY <1>3, <1>4, <1>5 DEF Walk
<1>7. Walk(f, c) = s
  BY <1>1, <1>6
<1> QED
  BY <1>1, <1>7 DEF Chain

LEMMA ProperFacts ==
    ASSUME NEW f, NEW c, NEW n, Proper(f, c, n)
    PROVE  /\ n \in Nat /\ IsChain(f, c, n, Walk(f, c)) /\ Walk(f, c) \in [1..n -> Cluster]
           /\ Chain(f, c) = {Walk(f, c)[i] : i \in 1..n}
           /\ Chain(f, c) \subseteq Cluster
           /\ \A x \in Chain(f, c) : f[x] \in Cluster \cup {Eoc} /\ f[x] # Free
           /\ n > 0 => c \in Chain(f, c)
           /\ n = 0 => c = 0 /\ Chain(f, c) = {}
<1>1. PICK s : IsChain(f, c, n, s)
  BY DEF Proper
<1>2. Walk(f, c) = s /\ Chain(f, c) = {s[i] : i \in 1..n}
  BY <1>1, WalkIs
<1>3. /\ n \in Nat /\ s \in [1..n -> Cluster]
      /\ n = 0 => c = 0
      /\ n > 0 => s[1] = c /\ f[s[n]] = Eoc
      /\ \A i \in 1..n : i < n => f[s[i]] = s[i + 1]
  BY <1>1, FatBounds DEF IsChain
<1>4. ASSUME NEW i \in 1..n
      PROVE  f[s[i]] \in Cluster \cup {Eoc}
  <2>1. CASE i < n
    <3>1. i + 1 \in 1..n
      BY <1>3, <2>1
    <3> QED
      BY <1>3, <2>1, <3>1
  <2>2. CASE i = n
    BY <1>3, <2>2
  <2> QED
    BY <1>3, <2>1, <2>2
<1>5. n > 0 => 1 \in 1..n
  BY <1>3
<1>6. n = 0 => 1..n = {}
  BY <1>3
<1> QED
  BY <1>1, <1>2, <1>3, <1>4, <1>5, <1>6, FatBounds

(* A chain stays as it is while its clusters' entries do.                  *)
LEMMA ChainKept ==
    ASSUME NEW f, NEW g, NEW c, NEW n, Proper(f, c, n),
           \A x \in Chain(f, c) : g[x] = f[x]
    PROVE  Proper(g, c, n) /\ Walk(g, c) = Walk(f, c) /\ Chain(g, c) = Chain(f, c)
<1>1. PICK s : s = Walk(f, c)
  OBVIOUS
<1>2. n \in Nat /\ IsChain(f, c, n, s) /\ Chain(f, c) = {s[i] : i \in 1..n}
  BY <1>1, ProperFacts
<1>3. \A i \in 1..n : g[s[i]] = f[s[i]]
  BY <1>2
<1>4. n > 0 => n \in 1..n
  BY <1>2
<1>5. IsChain(g, c, n, s)
  BY <1>2, <1>3, <1>4 DEF IsChain
<1>6. Walk(g, c) = s /\ Chain(g, c) = {s[i] : i \in 1..n}
  BY <1>5, WalkIs
<1> QED
  BY <1>1, <1>2, <1>5, <1>6 DEF Proper

-----------------------------------------------------------------------------
(* Allocation: the k lowest free clusters, each linked to the next         *)

Below(S, c) == {x \in S : x < c}

LEMMA BelowFinite ==
    ASSUME NEW S \in SUBSET Cluster, NEW c
    PROVE  /\ IsFiniteSet(S) /\ Cardinality(S) \in Nat
           /\ IsFiniteSet(Below(S, c)) /\ Cardinality(Below(S, c)) \in Nat
<1>1. Below(S, c) \in SUBSET Cluster
  BY DEF Below
<1> QED
  BY <1>1, ClusterCount

LEMMA BelowLess ==
    ASSUME NEW S \in SUBSET Cluster, NEW c \in S
    PROVE  /\ Cardinality(Below(S, c)) < Cardinality(S)
           /\ \A d \in S : c < d => Cardinality(Below(S, c)) < Cardinality(Below(S, d))
<1>1. /\ IsFiniteSet(S) /\ Cardinality(S) \in Nat
      /\ IsFiniteSet(Below(S, c)) /\ Cardinality(Below(S, c)) \in Nat
  BY BelowFinite
<1>2. Below(S, c) \subseteq S /\ c \notin Below(S, c)
  BY FatBounds DEF Below
<1>3. Cardinality(Below(S, c)) < Cardinality(S)
  BY <1>1, <1>2, FS_Subset
<1>4. ASSUME NEW d \in S, c < d
      PROVE  Cardinality(Below(S, c)) < Cardinality(Below(S, d))
  <2>1. IsFiniteSet(Below(S, d)) /\ Cardinality(Below(S, d)) \in Nat
    BY BelowFinite
  <2>2. Below(S, c) \subseteq Below(S, d) /\ c \in Below(S, d)
    <3>1. S \subseteq Nat
      BY FatBounds
    <3>2. \A x \in S : x < c => x < d
      BY <1>4, <3>1
    <3> QED
      BY <1>4, <3>2 DEF Below
  <2>3. c \notin Below(S, c)
    BY <1>2
  <2>4. PICK A, B : A = Below(S, c) /\ B = Below(S, d)
    OBVIOUS
  <2>5. IsFiniteSet(B) /\ A \in SUBSET B /\ A # B
    BY <2>1, <2>2, <2>3, <2>4
  <2>6. Cardinality(A) <= Cardinality(B) /\ Cardinality(A) # Cardinality(B)
    BY <2>5, FS_Subset
  <2>7. Cardinality(A) \in Nat /\ Cardinality(B) \in Nat
    BY <1>1, <2>1, <2>4
  <2>8. Cardinality(A) < Cardinality(B)
    BY <2>6, <2>7
  <2> QED
    BY <2>4, <2>8
<1> QED
  BY <1>3, <1>4

(* Every number below the size of the set is somebody's rank.              *)
LEMMA RankTaken ==
    ASSUME NEW S \in SUBSET Cluster, NEW n \in Nat, n < Cardinality(S)
    PROVE  \E c \in S : Cardinality(Below(S, c)) = n
<1> DEFINE N == Cardinality(S)
           T == (0..(N - 1)) \ {n}
           f == [c \in S |-> Cardinality(Below(S, c))]
<1>1. IsFiniteSet(S) /\ N \in Nat
  BY BelowFinite
<1>2. \A c \in S : f[c] \in 0..(N - 1)
  <2> TAKE c \in S
  <2>1. Cardinality(Below(S, c)) \in Nat
    BY BelowFinite
  <2>2. Cardinality(Below(S, c)) < N
    BY BelowLess
  <2> QED
    BY <1>1, <2>1, <2>2
<1>3. IsFiniteSet(0..(N - 1)) /\ Cardinality(0..(N - 1)) = N
  <2>1. 0 \in Int /\ N - 1 \in Int /\ 0 <= N - 1 /\ (N - 1) - 0 + 1 = N
    BY <1>1
  <2>2. IsFiniteSet(0..(N - 1)) /\ Cardinality(0..(N - 1)) = (N - 1) - 0 + 1
    BY <2>1, FS_Interval
  <2> QED
    BY <2>1, <2>2
<1>4. IsFiniteSet(T) /\ Cardinality(T) = N - 1
  <2>1. n \in 0..(N - 1)
    BY <1>1
  <2> QED
    BY <1>1, <1>3, <2>1, FS_RemoveElement, ZenonT(60)
<1>5. ASSUME \A c \in S : f[c] # n PROVE FALSE
  <2>1. f \in [S -> T]
    BY <1>2, <1>5
  <2>2. Cardinality(T) < Cardinality(S)
    BY <1>1, <1>4
  <2> HIDE DEF T, f
  <2>3. PICK x, y \in S : x # y /\ f[x] = f[y]
    BY <1>1, <1>4, <2>1, <2>2, FS_PigeonHole
  <2>4. x \in Nat /\ y \in Nat
    BY FatBounds
  <2>5. Cardinality(Below(S, x)) = Cardinality(Below(S, y))
    BY <2>3 DEF f
  <2>6. Cardinality(Below(S, x)) \in Nat
    BY BelowFinite
  <2>61. Cardinality(Below(S, y)) \in Nat
    BY BelowFinite
  <2>7. x < y => Cardinality(Below(S, x)) < Cardinality(Below(S, y))
    BY BelowLess
  <2>8. y < x => Cardinality(Below(S, y)) < Cardinality(Below(S, x))
    BY BelowLess
  <2> QED
    BY <2>3, <2>4, <2>5, <2>6, <2>61, <2>7, <2>8
<1> QED
  BY <1>5

(* alloc_cluster, k times, finds the clusters it links free and makes one  *)
(* chain of them.                                                          *)
First(f, k) == IF k = 0 THEN 0 ELSE Least(Picked(f, k))

LEMMA PickedFree ==
    ASSUME NEW f, NEW k
    PROVE  /\ Picked(f, k) \subseteq FreeClusters(f)
           /\ FreeClusters(f) \in SUBSET Cluster
           /\ \A c \in Cluster : c \in Picked(f, k) <=>
                c \in FreeClusters(f) /\ Cardinality(Below(FreeClusters(f), c)) < k
  BY DEF Picked, FreeClusters, Below

LEMMA LinkedChain ==
    ASSUME NEW f \in Tables, NEW k \in Nat, k <= Cardinality(FreeClusters(f))
    PROVE  /\ Linked(f, k) \in Tables
           /\ \A c \in Cluster \ Picked(f, k) : Linked(f, k)[c] = f[c]
           /\ Proper(Linked(f, k), First(f, k), k)
           /\ Chain(Linked(f, k), First(f, k)) = Picked(f, k)
<1> DEFINE S == FreeClusters(f)
           P == Picked(f, k)
           g == Linked(f, k)
           rank(c) == Cardinality(Below(S, c))
           s == [n \in 1..k |-> CHOOSE c \in S : rank(c) = n - 1]
<1>1. /\ S \in SUBSET Cluster /\ P \in SUBSET Cluster /\ P \subseteq S /\ S \subseteq Nat
      /\ IsFiniteSet(S) /\ Cardinality(S) \in Nat /\ Cardinality(S) < LastCluster
      /\ \A c \in S : rank(c) \in Nat
  BY PickedFree, ClusterCount, FatBounds, BelowFinite
<1>2. \A c \in S : c \in P <=> rank(c) < k
  BY <1>1, PickedFree
<1>3. \A c, d \in S : c < d <=> rank(c) < rank(d)
  <2> SUFFICES ASSUME NEW c \in S, NEW d \in S PROVE c < d <=> rank(c) < rank(d)
    OBVIOUS
  <2>1. c < d => rank(c) < rank(d)
    BY <1>1, BelowLess
  <2>2. d < c => rank(d) < rank(c)
    BY <1>1, BelowLess
  <2>3. c = d => rank(c) = rank(d)
    OBVIOUS
  <2> HIDE DEF rank, S
  <2> QED
    BY <1>1, <2>1, <2>2, <2>3
<1>4. \A n \in 1..k : s[n] \in P /\ rank(s[n]) = n - 1
  <2> SUFFICES ASSUME NEW n \in 1..k PROVE s[n] \in P /\ rank(s[n]) = n - 1
    OBVIOUS
  <2>1. n - 1 \in Nat /\ n - 1 < Cardinality(S) /\ n - 1 < k
    BY <1>1
  <2>2. \E c \in S : rank(c) = n - 1
    BY <1>1, <2>1, RankTaken
  <2>3. s[n] \in S /\ rank(s[n]) = n - 1
    <3> HIDE DEF rank, S
    <3> QED
      BY <2>2
  <2> HIDE DEF rank, S, P, s
  <2> QED
    BY <1>2, <2>1, <2>3
<1>5. \A c \in P : \E n \in 1..k : s[n] = c
  <2> SUFFICES ASSUME NEW c \in P PROVE \E n \in 1..k : s[n] = c
    OBVIOUS
  <2> HIDE DEF rank, S, P, s
  <2>1. c \in S /\ rank(c) \in Nat /\ rank(c) < k
    BY <1>1, <1>2
  <2>2. PICK n : n = rank(c) + 1
    OBVIOUS
  <2>3. n \in 1..k /\ n - 1 = rank(c)
    BY <2>1, <2>2
  <2>4. PICK d : d = s[n]
    OBVIOUS
  <2>5. d \in S /\ rank(d) = rank(c)
    BY <1>1, <1>4, <2>3, <2>4
  <2>6. ~(d < c) /\ ~(c < d)
    BY <1>3, <2>1, <2>5
  <2>7. s[n] = c
    BY <1>1, <2>1, <2>4, <2>5, <2>6
  <2> QED
    BY <2>3, <2>7
<1>6. \A c \in P : g[c] = IF Rest(f, k, c) # {} THEN Least(Rest(f, k, c)) ELSE Eoc
  BY <1>1 DEF Linked
<1>7. \A c \in Cluster \ P : g[c] = f[c]
  BY DEF Linked
<1>8. \A c \in P : Rest(f, k, c) \subseteq P
  BY DEF Rest
<1>9. g \in Tables
  <2>1. \A c \in P : g[c] \in Cluster \cup {Eoc}
    <3> TAKE c \in P
    <3>1. CASE Rest(f, k, c) # {}
      <4>1. PICK R : R = Rest(f, k, c)
        OBVIOUS
      <4>2. R \subseteq Nat /\ R # {} /\ R \subseteq Cluster
        BY <1>1, <1>8, <3>1, <4>1
      <4>3. Least(R) \in R
        BY <4>2, LeastIs
      <4> QED
        BY <1>6, <3>1, <4>1, <4>2, <4>3
    <3>2. CASE Rest(f, k, c) = {}
      BY <1>6, <3>2
    <3> QED
      BY <3>1, <3>2
  <2>2. g = [c \in Cluster |-> g[c]]
    BY DEF Linked
  <2> HIDE DEF g, P
  <2> QED
    BY <1>7, <2>1, <2>2 DEF Tables
<1> HIDE DEF rank, S, P, g, s
<1>10. ASSUME NEW n \in 1..k, n < k
       PROVE  g[s[n]] = s[n + 1]
  <2>1. PICK m : m = n + 1
    OBVIOUS
  <2>2. m \in 1..k /\ n \in 1..k /\ m - 1 = n /\ n \in Nat
    BY <1>10, <2>1
  <2>3. PICK c, d : c = s[n] /\ d = s[m]
    OBVIOUS
  <2>4. c \in P /\ d \in P /\ rank(c) = n - 1 /\ rank(d) = n
    BY <1>4, <2>2, <2>3
  <2>5. c < d
    BY <1>1, <1>3, <2>2, <2>4
  <2>6. PICK R : R = Rest(f, k, c)
    OBVIOUS
  <2>7. d \in R /\ R \subseteq Nat
    BY <1>1, <1>8, <2>4, <2>5, <2>6 DEF Rest, P
  <2>8. \A x \in R : d <= x
    <3> TAKE x \in R
    <3>1. x \in S /\ c \in S /\ d \in S /\ c < x
      BY <1>1, <1>8, <2>4, <2>6 DEF Rest, P
    <3>2. rank(c) < rank(x) /\ rank(x) \in Nat
      BY <1>1, <1>3, <3>1
    <3>3. ~(rank(x) < rank(d))
      BY <2>2, <2>4, <3>2
    <3>4. ~(x < d)
      BY <1>3, <3>1, <3>3
    <3> QED
      BY <1>1, <3>1, <3>4
  <2>9. Least(R) \in R /\ \A y \in R : Least(R) <= y
    BY <2>7, LeastIs
  <2>10. Least(R) = d
    <3>1. PICK l : l = Least(R)
      OBVIOUS
    <3>2. l \in Nat /\ d \in Nat /\ l <= d /\ d <= l
      BY <2>7, <2>8, <2>9, <3>1
    <3> QED
      BY <3>1, <3>2
  <2>11. g[c] = d
    BY <1>6, <2>4, <2>6, <2>7, <2>10
  <2> QED
    BY <2>1, <2>3, <2>11
<1>11. ASSUME k > 0
       PROVE  g[s[k]] = Eoc
  <2>1. PICK c : c = s[k]
    OBVIOUS
  <2>2. c \in P /\ rank(c) = k - 1
    BY <1>4, <1>11, <2>1
  <2>3. ASSUME NEW x \in Rest(f, k, c) PROVE FALSE
    <3>1. x \in S /\ c \in S /\ c < x /\ x \in P
      BY <1>1, <1>8, <2>2 DEF Rest, P
    <3>2. rank(c) < rank(x) /\ rank(x) \in Nat /\ rank(x) < k
      BY <1>1, <1>2, <1>3, <3>1
    <3> QED
      BY <2>2, <3>2
  <2> QED
    BY <1>6, <2>1, <2>2, <2>3
<1>12. ASSUME k > 0
       PROVE  First(f, k) = s[1]
  <2>1. PICK c : c = s[1]
    OBVIOUS
  <2>2. c \in P /\ rank(c) = 0
    BY <1>4, <1>12, <2>1
  <2>3. P \subseteq Nat /\ P # {}
    BY <1>1, <2>2
  <2>4. Least(P) \in P /\ \A y \in P : Least(P) <= y
    BY <2>3, LeastIs
  <2>5. PICK m : m = Least(P)
    OBVIOUS
  <2>6. m \in S /\ c \in S /\ ~(m < c)
    <3>1. m \in S /\ c \in S /\ rank(m) \in Nat
      BY <1>1, <2>2, <2>4, <2>5
    <3>2. ~(rank(m) < rank(c))
      BY <2>2, <3>1
    <3> QED
      BY <1>3, <3>1, <3>2
  <2>7. m = c
    BY <1>1, <2>2, <2>3, <2>4, <2>5, <2>6
  <2> QED
    BY <1>12, <2>1, <2>5, <2>7 DEF First, P
<1>13. IsChain(g, First(f, k), k, s)
  <2>1. k \in 0..(LastCluster - 1)
    BY <1>1, FatBounds DEF S
  <2>2. s \in [1..k -> Cluster]
    <3>1. s = [n \in 1..k |-> s[n]]
      BY DEF s
    <3> QED
      BY <1>1, <1>4, <3>1
  <2>3. k = 0 => First(f, k) = 0
    BY DEF First
  <2> QED
    BY <1>10, <1>11, <1>12, <2>1, <2>2, <2>3 DEF IsChain
<1>14. Chain(g, First(f, k)) = {s[i] : i \in 1..k}
  BY <1>13, WalkIs
<1>15. {s[i] : i \in 1..k} = P
  BY <1>4, <1>5
<1> QED
  BY <1>7, <1>9, <1>13, <1>14, <1>15 DEF Proper, g, P

(* The loop that frees a chain                                             *)
LEMMA FreedIs ==
    ASSUME NEW f \in Tables, NEW c
    PROVE  /\ Freed(f, c) \in Tables
           /\ \A x \in Cluster : Freed(f, c)[x] = IF x \in Chain(f, c) THEN Free ELSE f[x]
  BY DEF Freed, Tables

-----------------------------------------------------------------------------
(* Directory entries and blocks                                            *)

(* What is stored is cut, and a name that is cut stays as it is.           *)
Short == {nm \in Name : Cut[nm] = nm}

LEMMA CutShort == Short \subseteq Name /\ \A nm \in Name : Cut[nm] \in Short
BY CutAssumption DEF Short

Entry ==
    {End, Deleted}
    \cup {FileEntry(nm, cl, n, v) : nm \in Short, cl \in Cluster \cup {0}, n \in Nat, v \in Val}
    \cup {DirEntry(nm, cl) : nm \in Short, cl \in Cluster}

Block ==
    [is : {"dir"}, ent : [Slots -> Entry], up : Dirs] \cup {Unread} \cup {DataBlock(v) : v \in Val}

Renamed(e, nm) == [e EXCEPT !.name = nm]

LEMMA EntryFacts ==
    ASSUME NEW e \in Entry
    PROVE  /\ e.kind \in {"end", "deleted", "file", "dir"}
           /\ e.cl \in Cluster \cup {0} /\ e.size \in Nat
           /\ Live(e) <=> e.kind = "file" \/ e.kind = "dir"
           /\ Live(e) => e.name \in Short
           /\ e.kind = "dir" => e.cl \in Cluster
           /\ Live(e) => \A nm \in Short :
                /\ Renamed(e, nm) \in Entry /\ Renamed(e, nm).kind = e.kind
                /\ Renamed(e, nm).cl = e.cl /\ Renamed(e, nm).size = e.size
                /\ Renamed(e, nm).name = nm
                /\ e.kind = "file" => Renamed(e, nm).val = e.val
<1>1. CASE e \in {End, Deleted}
  BY <1>1 DEF End, Deleted, Live
<1>2. CASE e \in {FileEntry(nm, cl, n, v) : nm \in Short, cl \in Cluster \cup {0}, n \in Nat, v \in Val}
  <2>1. PICK nm \in Short, cl \in Cluster \cup {0}, n \in Nat, v \in Val : e = FileEntry(nm, cl, n, v)
    BY <1>2
  <2>2. ASSUME NEW new \in Short
        PROVE  /\ Renamed(e, new) \in Entry /\ Renamed(e, new).kind = e.kind
               /\ Renamed(e, new).cl = e.cl /\ Renamed(e, new).size = e.size
               /\ Renamed(e, new).name = new
               /\ e.kind = "file" => Renamed(e, new).val = e.val
    <3>1. Renamed(e, new) = FileEntry(new, cl, n, v)
      BY <2>1 DEF Renamed, FileEntry
    <3>2. FileEntry(new, cl, n, v) \in Entry
      BY DEF Entry
    <3> QED
      BY <2>1, <3>1, <3>2 DEF FileEntry
  <2>3. /\ e.kind = "file" /\ e.cl = cl /\ e.size \in Nat /\ e.name = nm
    BY <2>1 DEF FileEntry
  <2> QED
    BY <2>2, <2>3 DEF Live
<1>3. CASE e \in {DirEntry(nm, cl) : nm \in Short, cl \in Cluster}
  <2>1. PICK nm \in Short, cl \in Cluster : e = DirEntry(nm, cl)
    BY <1>3
  <2>2. ASSUME NEW new \in Short
        PROVE  /\ Renamed(e, new) \in Entry /\ Renamed(e, new).kind = e.kind
               /\ Renamed(e, new).cl = e.cl /\ Renamed(e, new).size = e.size
               /\ Renamed(e, new).name = new
               /\ e.kind = "file" => Renamed(e, new).val = e.val
    <3>1. Renamed(e, new) = DirEntry(new, cl)
      BY <2>1 DEF Renamed, DirEntry
    <3>2. DirEntry(new, cl) \in Entry
      BY DEF Entry
    <3> QED
      BY <2>1, <3>1, <3>2 DEF DirEntry
  <2>3. /\ e.kind = "dir" /\ e.cl = cl /\ e.size \in Nat /\ e.name = nm
    BY <2>1 DEF DirEntry
  <2> QED
    BY <2>2, <2>3 DEF Live
<1> QED
  BY <1>1, <1>2, <1>3 DEF Entry

LEMMA NewEntries ==
    /\ End \in Entry /\ Deleted \in Entry /\ ~Live(End) /\ ~Live(Deleted)
    /\ Deleted.kind = "deleted" /\ End.kind = "end"
    /\ \A nm \in Short, cl \in Cluster \cup {0}, n \in Nat, v \in Val :
         LET e == FileEntry(nm, cl, n, v) IN
         /\ e \in Entry /\ Live(e) /\ e.kind = "file" /\ e.cl = cl /\ e.size = n /\ e.name = nm
         /\ n # 0 => e.val = v
    /\ \A nm \in Short, cl \in Cluster :
         LET e == DirEntry(nm, cl) IN
         e \in Entry /\ Live(e) /\ e.kind = "dir" /\ e.cl = cl /\ e.name = nm
<1>1. /\ End \in Entry /\ Deleted \in Entry /\ ~Live(End) /\ ~Live(Deleted)
      /\ Deleted.kind = "deleted" /\ End.kind = "end"
  BY DEF Entry, End, Deleted, Live
<1>2. ASSUME NEW nm \in Short, NEW cl \in Cluster \cup {0}, NEW n \in Nat, NEW v \in Val
      PROVE  LET e == FileEntry(nm, cl, n, v) IN
             /\ e \in Entry /\ Live(e) /\ e.kind = "file" /\ e.cl = cl /\ e.size = n /\ e.name = nm
             /\ n # 0 => e.val = v
  <2>1. FileEntry(nm, cl, n, v) \in Entry
    BY DEF Entry
  <2> QED
    BY <2>1 DEF FileEntry, Live
<1>3. ASSUME NEW nm \in Short, NEW cl \in Cluster
      PROVE  LET e == DirEntry(nm, cl) IN
             e \in Entry /\ Live(e) /\ e.kind = "dir" /\ e.cl = cl /\ e.name = nm
  <2>1. DirEntry(nm, cl) \in Entry
    BY DEF Entry
  <2> QED
    BY <2>1 DEF DirEntry, Live
<1> QED
  BY <1>1, <1>2, <1>3

(* The block of a directory with entry e in slot i                         *)
Edited(x, i, e) == [x EXCEPT !.ent[i] = e]

LEMMA BlockFacts ==
    ASSUME NEW x \in Block
    PROVE  /\ x.is \in {"dir", "none", "data"}
           /\ x.is = "dir" =>
                /\ x.ent \in [Slots -> Entry] /\ x.up \in Dirs
                /\ \A i \in Slots, e \in Entry :
                     /\ Edited(x, i, e) \in Block
                     /\ Edited(x, i, e).is = "dir" /\ Edited(x, i, e).up = x.up
                     /\ Edited(x, i, e).ent = [x.ent EXCEPT ![i] = e]
<1>1. CASE x \in [is : {"dir"}, ent : [Slots -> Entry], up : Dirs]
  <2>1. x.is = "dir" /\ x.ent \in [Slots -> Entry] /\ x.up \in Dirs
    BY <1>1
  <2>2. ASSUME NEW i \in Slots, NEW e \in Entry
        PROVE  /\ Edited(x, i, e) \in Block
               /\ Edited(x, i, e).is = "dir" /\ Edited(x, i, e).up = x.up
               /\ Edited(x, i, e).ent = [x.ent EXCEPT ![i] = e]
    <3>1. [x.ent EXCEPT ![i] = e] \in [Slots -> Entry]
      BY <2>1
    <3>2. /\ Edited(x, i, e) \in [is : {"dir"}, ent : [Slots -> Entry], up : Dirs]
          /\ Edited(x, i, e).is = "dir" /\ Edited(x, i, e).up = x.up
          /\ Edited(x, i, e).ent = [x.ent EXCEPT ![i] = e]
      BY <1>1, <2>1, <3>1 DEF Edited
    <3> QED
      BY <3>2 DEF Block
  <2> QED
    BY <2>1, <2>2
<1>2. CASE x \in {Unread} \cup {DataBlock(v) : v \in Val}
  BY <1>2 DEF Unread, DataBlock
<1> QED
  BY <1>1, <1>2 DEF Block

LEMMA NewBlocks ==
    /\ Unread \in Block /\ Unread.is = "none"
    /\ \A v \in Val : DataBlock(v) \in Block /\ DataBlock(v).is = "data"
    /\ \A p \in Dirs : /\ DirBlock(p) \in Block /\ DirBlock(p).is = "dir" /\ DirBlock(p).up = p
                       /\ \A i \in Slots : DirBlock(p).ent[i] = End
<1>1. Unread \in Block /\ Unread.is = "none"
  BY DEF Block, Unread
<1>2. \A v \in Val : DataBlock(v) \in Block /\ DataBlock(v).is = "data"
  BY DEF Block, DataBlock
<1>3. ASSUME NEW p \in Dirs
      PROVE  /\ DirBlock(p) \in Block /\ DirBlock(p).is = "dir" /\ DirBlock(p).up = p
             /\ \A i \in Slots : DirBlock(p).ent[i] = End
  <2>1. Empty \in [Slots -> Entry]
    BY NewEntries DEF Empty
  <2>2. DirBlock(p) \in [is : {"dir"}, ent : [Slots -> Entry], up : Dirs]
    BY <2>1 DEF DirBlock
  <2> QED
    BY <2>2 DEF Block, DirBlock, Empty
<1> QED
  BY <1>1, <1>2, <1>3

-----------------------------------------------------------------------------
(* A sound volume                                                          *)

LiveDirsOf(f, b) == {Root} \cup {c \in Cluster : f[c] # Free /\ b[c].is = "dir"}
AtOf(b, p) == b[p[1]].ent[p[2]]
PlacesOf(f, b) == {p \in LiveDirsOf(f, b) \X Slots : Live(b[p[1]].ent[p[2]])}
Owns(f, b, p) == Chain(f, AtOf(b, p).cl)

(* What an entry e in directory d leads to: a chain of its length, with a  *)
(* file's contents, or the block of a directory that knows where it is.    *)
Clusters(e) == IF e.kind = "dir" THEN 1 ELSE e.size

LeadsTo(f, b, d, e) ==
    /\ Proper(f, e.cl, Clusters(e))
    /\ e.kind = "file" => \A c \in Chain(f, e.cl) : b[c] = DataBlock(e.val)
    /\ e.kind = "dir" => b[e.cl].is = "dir" /\ b[e.cl].up = d

(* Nothing is behind the end mark of a directory.                          *)
Packed(ent) == \A i, j \in Slots : i < j /\ ent[i].kind = "end" => ent[j].kind = "end"

(* Entries lead to what they name, and no two to the same cluster.         *)
Sound(f, b) ==
    /\ f \in Tables /\ b \in [Dirs -> Block] /\ b[Root].is = "dir"
    /\ \A p \in PlacesOf(f, b) : LeadsTo(f, b, p[1], AtOf(b, p))
    /\ \A p, q \in PlacesOf(f, b) : p # q => Owns(f, b, p) \cap Owns(f, b, q) = {}
    /\ \A d \in LiveDirsOf(f, b) : Packed(b[d].ent)

Named(f, b) ==
    \A p, q \in PlacesOf(f, b) : p[1] = q[1] /\ AtOf(b, p).name = AtOf(b, q).name => p = q

(* Every cluster that is taken is somebody's.                              *)
Covered(f, b) == \A c \in Cluster : f[c] # Free => \E p \in PlacesOf(f, b) : c \in Owns(f, b, p)

(* Every directory has an entry in the one above it, which is another one. *)
Tree(f, b) ==
    \A c \in LiveDirsOf(f, b) \ {Root} :
       /\ b[c].up \in LiveDirsOf(f, b) /\ b[c].up # c
       /\ \E i \in Slots : b[b[c].up].ent[i].kind = "dir" /\ b[b[c].up].ent[i].cl = c

(* Every file is whole, but for the one a write found no room for.         *)
Readable(f, b, dm) ==
    \A p \in PlacesOf(f, b) : AtOf(b, p).kind = "file" =>
       \/ dm \in NoRoom /\ AtOf(b, p).cl \in Cluster /\ f[AtOf(b, p).cl] = Free
       \/ LeadsTo(f, b, p[1], AtOf(b, p))

LEMMA PlaceFacts ==
    ASSUME NEW f, NEW b, Sound(f, b), NEW p \in PlacesOf(f, b)
    PROVE  /\ p = <<p[1], p[2]>> /\ p[1] \in LiveDirsOf(f, b) /\ p[1] \in Dirs /\ p[2] \in Slots
           /\ AtOf(b, p) \in Entry /\ Live(AtOf(b, p)) /\ b[p[1]].is = "dir"
           /\ Proper(f, AtOf(b, p).cl, Clusters(AtOf(b, p)))
           /\ Owns(f, b, p) \subseteq Cluster /\ \A c \in Owns(f, b, p) : f[c] # Free
           /\ AtOf(b, p).kind = "dir" =>
                /\ AtOf(b, p).cl \in Cluster /\ Owns(f, b, p) = {AtOf(b, p).cl}
                /\ AtOf(b, p).cl \in LiveDirsOf(f, b) /\ b[AtOf(b, p).cl].up = p[1]
           /\ AtOf(b, p).kind = "file" => \A c \in Owns(f, b, p) : b[c] = DataBlock(AtOf(b, p).val)
           /\ AtOf(b, p).kind = "file" => Owns(f, b, p) \cap LiveDirsOf(f, b) = {}
<1> DEFINE e == AtOf(b, p)
           d == p[1]
<1>1. p = <<p[1], p[2]>> /\ d \in LiveDirsOf(f, b) /\ p[2] \in Slots /\ Live(e)
  BY DEF PlacesOf, AtOf
<1>2. d \in Dirs
  BY <1>1 DEF LiveDirsOf, Dirs
<1>3. b[d].is = "dir" /\ b[d] \in Block
  BY <1>1, <1>2 DEF Sound, LiveDirsOf
<1>4. e \in Entry
  BY <1>1, <1>3, BlockFacts DEF AtOf
<1>5. LeadsTo(f, b, d, e)
  BY DEF Sound
<1>6. Proper(f, e.cl, Clusters(e))
  BY <1>5 DEF LeadsTo
<1>7. Owns(f, b, p) \subseteq Cluster /\ \A c \in Owns(f, b, p) : f[c] # Free
  BY <1>6, ProperFacts DEF Owns
<1>8. ASSUME e.kind = "dir"
      PROVE  e.cl \in Cluster /\ Owns(f, b, p) = {e.cl} /\ e.cl \in LiveDirsOf(f, b) /\ b[e.cl].up = d
  <2>1. Clusters(e) = 1
    BY <1>8 DEF Clusters
  <2>2. PICK s : s = Walk(f, e.cl)
    OBVIOUS
  <2>3. IsChain(f, e.cl, 1, s) /\ Chain(f, e.cl) = {s[i] : i \in 1..1}
    BY <1>6, <2>1, <2>2, ProperFacts
  <2>4. s[1] = e.cl
    BY <2>3 DEF IsChain
  <2>5. Owns(f, b, p) = {e.cl}
    BY <2>3, <2>4 DEF Owns
  <2>6. b[e.cl].is = "dir" /\ b[e.cl].up = d
    BY <1>5, <1>8 DEF LeadsTo
  <2> QED
    BY <1>7, <2>5, <2>6 DEF LiveDirsOf
<1>9. ASSUME e.kind = "file"
      PROVE  /\ \A c \in Owns(f, b, p) : b[c] = DataBlock(e.val)
             /\ Owns(f, b, p) \cap LiveDirsOf(f, b) = {}
  <2>1. \A c \in Owns(f, b, p) : b[c] = DataBlock(e.val)
    BY <1>5, <1>9 DEF LeadsTo, Owns
  <2>2. \A c \in Owns(f, b, p) : b[c].is = "data"
    BY <2>1 DEF DataBlock
  <2> QED
    BY <1>7, <2>1, <2>2, FatBounds DEF LiveDirsOf
<1> QED
  BY <1>1, <1>2, <1>3, <1>4, <1>6, <1>7, <1>8, <1>9

(* A place whose clusters are left alone leads where it led.               *)
LEMMA PlaceKept ==
    ASSUME NEW f, NEW b, Sound(f, b), NEW p \in PlacesOf(f, b), NEW g, NEW w,
           AtOf(w, p) = AtOf(b, p),
           \A x \in Owns(f, b, p) : g[x] = f[x] /\ w[x].is = b[x].is /\ w[x].up = b[x].up
                                    /\ (b[x].is # "dir" => w[x] = b[x])
    PROVE  /\ Owns(g, w, p) = Owns(f, b, p)
           /\ LeadsTo(g, w, p[1], AtOf(w, p))
<1> DEFINE e == AtOf(b, p)
           n == Clusters(e)
<1>1. Proper(f, e.cl, n)
  BY PlaceFacts
<1>2. \A x \in Chain(f, e.cl) : g[x] = f[x]
  BY DEF Owns
<1>3. Proper(g, e.cl, n) /\ Chain(g, e.cl) = Chain(f, e.cl)
  BY <1>1, <1>2, ChainKept
<1>4. Owns(g, w, p) = Owns(f, b, p)
  BY <1>3 DEF Owns
<1>5. ASSUME e.kind = "file" PROVE \A c \in Chain(g, e.cl) : w[c] = DataBlock(e.val)
  <2>1. \A c \in Owns(f, b, p) : b[c] = DataBlock(e.val) /\ b[c].is = "data"
    BY <1>5, PlaceFacts DEF DataBlock
  <2> QED
    BY <1>3, <2>1 DEF Owns
<1>6. ASSUME e.kind = "dir" PROVE w[e.cl].is = "dir" /\ w[e.cl].up = p[1]
  <2>1. e.cl \in Owns(f, b, p) /\ b[e.cl].is = "dir" /\ b[e.cl].up = p[1]
    BY <1>6, PlaceFacts, FatBounds DEF LiveDirsOf
  <2> QED
    BY <2>1
<1> QED
  BY <1>3, <1>4, <1>5, <1>6 DEF LeadsTo

(* An entry is marked deleted and its chain freed; what is in a directory  *)
(* that goes with it is no longer reached.                                 *)
LEMMA EraseKeeps ==
    ASSUME NEW f, NEW b, Sound(f, b), NEW p \in PlacesOf(f, b), p[1] \notin Owns(f, b, p),
           NEW g, g = Freed(f, AtOf(b, p).cl), NEW w \in [Dirs -> Block],
           w[p[1]] = Edited(b[p[1]], p[2], Deleted),
           \A x \in Dirs \ {p[1]} : x = Root \/ g[x] # Free => w[x] = b[x]
    PROVE  /\ LiveDirsOf(g, w) = LiveDirsOf(f, b) \ Owns(f, b, p)
           /\ PlacesOf(g, w) = {q \in PlacesOf(f, b) : q # p /\ q[1] \notin Owns(f, b, p)}
           /\ \A q \in PlacesOf(g, w) : AtOf(w, q) = AtOf(b, q) /\ Owns(g, w, q) = Owns(f, b, q)
           /\ Sound(g, w) /\ (Named(f, b) => Named(g, w))
           /\ (AtOf(b, p).kind = "dir" => \A i \in Slots : ~Live(b[AtOf(b, p).cl].ent[i]))
                 => (Covered(f, b) => Covered(g, w)) /\ (Tree(f, b) => Tree(g, w))
<1> DEFINE d == p[1]
           i == p[2]
           O == Owns(f, b, p)
           L == LiveDirsOf(f, b)
           K == {q \in PlacesOf(f, b) : q # p /\ q[1] \notin O}
<1>1. /\ p = <<d, i>> /\ d \in L /\ d \in Dirs /\ i \in Slots /\ O \subseteq Cluster /\ d \notin O
      /\ \A c \in O : f[c] # Free
      /\ AtOf(b, p).kind = "dir" => O = {AtOf(b, p).cl} /\ AtOf(b, p).cl \in Cluster
      /\ AtOf(b, p).kind = "file" => O \cap L = {}
      /\ AtOf(b, p).kind \in {"file", "dir"}
  BY PlaceFacts, EntryFacts
<1>2. f \in Tables /\ b \in [Dirs -> Block] /\ b[Root].is = "dir" /\ b[d].is = "dir"
  BY PlaceFacts DEF Sound
<1>3. g \in Tables /\ \A x \in Cluster : g[x] = IF x \in O THEN Free ELSE f[x]
  BY <1>2, FreedIs DEF Owns
<1>4. /\ w[d].is = "dir" /\ w[d].up = b[d].up
      /\ w[d].ent = [b[d].ent EXCEPT ![i] = Deleted] /\ b[d].ent \in [Slots -> Entry]
  BY <1>1, <1>2, BlockFacts, NewEntries
<1>5. \A x \in Dirs : x # d /\ (x = Root \/ (x \notin O /\ f[x] # Free)) => w[x] = b[x]
  <2>1. \A x \in Dirs : x = Root \/ x \in Cluster
    BY DEF Dirs
  <2> QED
    BY <1>3, <2>1
<1>6. \A x \in L \ O : w[x].is = "dir" /\ w[x].up = b[x].up
                         /\ \A j \in Slots : <<x, j>> # p => w[x].ent[j] = b[x].ent[j]
  <2> SUFFICES ASSUME NEW x \in L \ O
               PROVE  w[x].is = "dir" /\ w[x].up = b[x].up
                      /\ \A j \in Slots : <<x, j>> # p => w[x].ent[j] = b[x].ent[j]
    OBVIOUS
  <2>1. x \in Dirs /\ (x = Root \/ f[x] # Free) /\ b[x].is = "dir"
    BY <1>2 DEF LiveDirsOf, Dirs
  <2>2. CASE x = d
    BY <1>1, <1>4, <2>2
  <2>3. CASE x # d
    BY <1>5, <2>1, <2>3
  <2> QED
    BY <2>2, <2>3
<1>7. LiveDirsOf(g, w) = L \ O
  <2>1. ASSUME NEW x \in LiveDirsOf(g, w) PROVE x \in L \ O
    <3>1. CASE x = Root
      BY <1>1, <3>1, FatBounds DEF LiveDirsOf
    <3>2. CASE x # Root
      <4>1. x \in Cluster /\ g[x] # Free /\ w[x].is = "dir" /\ x \in Dirs
        BY <3>2 DEF LiveDirsOf, Dirs
      <4>2. x \notin O /\ f[x] # Free
        BY <1>3, <4>1
      <4>3. CASE x = d
        BY <1>1, <4>3
      <4>4. CASE x # d
        BY <1>5, <4>1, <4>2, <4>4 DEF LiveDirsOf
      <4> QED
        BY <4>3, <4>4
    <3> QED
      BY <3>1, <3>2
  <2>2. ASSUME NEW x \in L \ O PROVE x \in LiveDirsOf(g, w)
    <3>1. w[x].is = "dir" /\ (x = Root \/ (x \in Cluster /\ f[x] # Free))
      BY <1>6 DEF LiveDirsOf
    <3> QED
      BY <1>3, <3>1 DEF LiveDirsOf
  <2> QED
    BY <2>1, <2>2
<1>8. \A x \in L \ O, j \in Slots : <<x, j>> # p => w[x].ent[j] = b[x].ent[j]
  BY <1>6
<1>9. w[d].ent[i] = Deleted
  BY <1>1, <1>4
<1>10. PlacesOf(g, w) = K /\ \A q \in K : AtOf(w, q) = AtOf(b, q)
  <2>1. ASSUME NEW q \in PlacesOf(g, w) PROVE q \in K
    <3>1. PICK x \in L \ O, j \in Slots : q = <<x, j>>
      BY <1>7 DEF PlacesOf
    <3>2. Live(w[x].ent[j])
      BY <3>1 DEF PlacesOf
    <3>3. q # p
      BY <1>1, <1>9, <3>1, <3>2, NewEntries
    <3>4. Live(b[x].ent[j])
      BY <1>8, <3>1, <3>2, <3>3
    <3> QED
      BY <3>1, <3>3, <3>4 DEF PlacesOf
  <2>2. ASSUME NEW q \in K PROVE q \in PlacesOf(g, w) /\ AtOf(w, q) = AtOf(b, q)
    <3>1. PICK x \in L, j \in Slots : q = <<x, j>>
      BY DEF PlacesOf
    <3>2. Live(b[x].ent[j]) /\ x \notin O /\ q # p
      BY <3>1 DEF PlacesOf
    <3>3. w[x].ent[j] = b[x].ent[j]
      BY <1>8, <3>1, <3>2
    <3> QED
      BY <1>7, <3>1, <3>2, <3>3 DEF PlacesOf, AtOf
  <2> QED
    BY <2>1, <2>2
<1>11. \A q \in K : Owns(g, w, q) = Owns(f, b, q) /\ LeadsTo(g, w, q[1], AtOf(w, q))
  <2> SUFFICES ASSUME NEW q \in K
               PROVE  Owns(g, w, q) = Owns(f, b, q) /\ LeadsTo(g, w, q[1], AtOf(w, q))
    OBVIOUS
  <2>1. q \in PlacesOf(f, b) /\ q # p /\ AtOf(w, q) = AtOf(b, q)
    BY <1>10
  <2>2. Owns(f, b, q) \cap O = {}
    BY <2>1 DEF Sound
  <2>3. ASSUME NEW x \in Owns(f, b, q)
        PROVE  /\ g[x] = f[x] /\ w[x].is = b[x].is /\ w[x].up = b[x].up
               /\ b[x].is # "dir" => w[x] = b[x]
    <3>1. x \in Cluster /\ f[x] # Free /\ x \notin O /\ x \in Dirs
      BY <2>1, <2>2, PlaceFacts DEF Dirs
    <3>2. CASE x = d
      BY <1>2, <1>3, <1>4, <3>1, <3>2
    <3>3. CASE x # d
      BY <1>3, <1>5, <3>1, <3>3
    <3> QED
      BY <3>2, <3>3
  <2> QED
    BY <2>1, <2>3, PlaceKept
<1>12. \A x \in LiveDirsOf(g, w) : Packed(w[x].ent)
  <2> SUFFICES ASSUME NEW x \in L \ O PROVE Packed(w[x].ent)
    BY <1>7
  <2>1. Packed(b[x].ent)
    BY DEF Sound
  <2>2. CASE x # d
    <3>1. \A j \in Slots : w[x].ent[j] = b[x].ent[j]
      BY <1>1, <1>8, <2>2
    <3> QED
      BY <2>1, <3>1 DEF Packed
  <2>3. CASE x = d
    <3>1. \A j \in Slots : w[d].ent[j] = IF j = i THEN Deleted ELSE b[d].ent[j]
      BY <1>1, <1>4
    <3>2. b[d].ent[i].kind # "end"
      BY <1>1 DEF AtOf
    <3>3. Deleted.kind # "end"
      BY NewEntries
    <3> QED
      BY <1>1, <2>1, <2>3, <3>1, <3>2, <3>3 DEF Packed
  <2> QED
    BY <2>2, <2>3
<1>13. Sound(g, w)
  <2>1. w[Root].is = "dir"
    BY <1>6, <1>1, FatBounds DEF LiveDirsOf
  <2>2. \A q \in PlacesOf(g, w) : LeadsTo(g, w, q[1], AtOf(w, q))
    BY <1>10, <1>11
  <2>3. \A q, r \in PlacesOf(g, w) : q # r => Owns(g, w, q) \cap Owns(g, w, r) = {}
    BY <1>10, <1>11 DEF Sound
  <2> QED
    BY <1>3, <1>12, <2>1, <2>2, <2>3 DEF Sound
<1>14. Named(f, b) => Named(g, w)
  BY <1>10 DEF Named
<1>15. ASSUME AtOf(b, p).kind = "dir" => \A j \in Slots : ~Live(b[AtOf(b, p).cl].ent[j])
       PROVE  (Covered(f, b) => Covered(g, w)) /\ (Tree(f, b) => Tree(g, w))
  <2>1. \A q \in PlacesOf(f, b) : q # p => q \in K
    <3> SUFFICES ASSUME NEW q \in PlacesOf(f, b), q[1] \in O PROVE FALSE
      OBVIOUS
    <3>1. q[1] \in L /\ q[2] \in Slots /\ Live(b[q[1]].ent[q[2]])
      BY DEF PlacesOf
    <3> QED
      BY <1>1, <1>15, <3>1
  <2>2. ASSUME Covered(f, b), NEW c \in Cluster, g[c] # Free
        PROVE  \E q \in PlacesOf(g, w) : c \in Owns(g, w, q)
    <3>1. f[c] # Free /\ c \notin O
      BY <1>3, <2>2
    <3>2. PICK q \in PlacesOf(f, b) : c \in Owns(f, b, q)
      BY <2>2, <3>1 DEF Covered
    <3>3. q \in K
      BY <2>1, <3>1, <3>2
    <3> QED
      BY <1>10, <1>11, <3>2, <3>3
  <2>3. ASSUME Tree(f, b), NEW c \in LiveDirsOf(g, w) \ {Root}
        PROVE  /\ w[c].up \in LiveDirsOf(g, w) /\ w[c].up # c
               /\ \E j \in Slots : w[w[c].up].ent[j].kind = "dir" /\ w[w[c].up].ent[j].cl = c
    <3>1. c \in L /\ c \notin O /\ w[c].up = b[c].up
      BY <1>6, <1>7
    <3>2. PICK u : u = b[c].up
      OBVIOUS
    <3>3. u \in L /\ u # c
      BY <2>3, <3>1, <3>2 DEF Tree
    <3>4. PICK j \in Slots : b[u].ent[j].kind = "dir" /\ b[u].ent[j].cl = c
      BY <2>3, <3>1, <3>2 DEF Tree
    <3>5. PICK q : q = <<u, j>>
      BY Zenon
    <3>6. q \in PlacesOf(f, b) /\ AtOf(b, q).kind = "dir" /\ AtOf(b, q).cl = c /\ q[1] = u /\ q[2] = j
      BY <3>3, <3>4, <3>5 DEF PlacesOf, AtOf, Live
    <3>7. c \in Owns(f, b, q)
      BY <3>6, PlaceFacts
    <3>8. q \in K
      BY <2>1, <3>1, <3>6, <3>7
    <3>9. u \notin O
      BY <3>6, <3>8
    <3>10. AtOf(w, q) = AtOf(b, q)
      BY <1>10, <3>8
    <3> QED
      BY <1>7, <3>1, <3>2, <3>3, <3>4, <3>6, <3>9, <3>10, Zenon DEF AtOf
  <2> QED
    BY <2>2, <2>3 DEF Covered, Tree
<1> QED
  BY <1>7, <1>10, <1>11, <1>13, <1>14, <1>15

(* The chain of a directory is one cluster.                                *)
LEMMA ProperOne ==
    ASSUME NEW f, NEW c, Proper(f, c, 1)
    PROVE  c \in Cluster /\ Chain(f, c) = {c} /\ f[c] # Free
<1>1. PICK s : s = Walk(f, c)
  OBVIOUS
<1>2. /\ IsChain(f, c, 1, s) /\ Chain(f, c) = {s[i] : i \in 1..1} /\ Chain(f, c) \subseteq Cluster
      /\ \A x \in Chain(f, c) : f[x] # Free
  BY <1>1, ProperFacts
<1>3. s[1] = c
  BY <1>2 DEF IsChain
<1> QED
  BY <1>2, <1>3

(* A new entry goes to a slot that is not in use, with clusters that were  *)
(* free.                                                                   *)
LEMMA AddKeeps ==
    ASSUME NEW f, NEW b, Sound(f, b),
           NEW d \in LiveDirsOf(f, b), NEW i \in Slots, ~Live(b[d].ent[i]),
           \A j \in Slots : j < i => b[d].ent[j].kind # "end",
           NEW e \in Entry, Live(e), NEW g \in Tables,
           NEW N, N = Chain(g, e.cl), \A x \in N : f[x] = Free,
           \A x \in Cluster \ N : g[x] = f[x],
           NEW w \in [Dirs -> Block], w[d] = Edited(b[d], i, e),
           \A x \in Dirs \ {d} : x = Root \/ (x \notin N /\ g[x] # Free) => w[x] = b[x],
           LeadsTo(g, w, d, e),
           e.kind = "dir" => \A j \in Slots : w[e.cl].ent[j] = End
    PROVE  /\ LiveDirsOf(g, w) = LiveDirsOf(f, b) \cup (IF e.kind = "dir" THEN {e.cl} ELSE {})
           /\ PlacesOf(g, w) = PlacesOf(f, b) \cup {<<d, i>>}
           /\ \A q \in PlacesOf(f, b) : AtOf(w, q) = AtOf(b, q) /\ Owns(g, w, q) = Owns(f, b, q)
           /\ Sound(g, w)
           /\ (\A j \in Slots : Live(b[d].ent[j]) => b[d].ent[j].name # e.name)
                 => (Named(f, b) => Named(g, w))
           /\ Covered(f, b) => Covered(g, w)
           /\ Tree(f, b) => Tree(g, w)
<1> DEFINE p == <<d, i>>
           L == LiveDirsOf(f, b)
           D == IF e.kind = "dir" THEN {e.cl} ELSE {}
           P == PlacesOf(f, b)
<1>1. /\ f \in Tables /\ b \in [Dirs -> Block] /\ b[Root].is = "dir" /\ d \in Dirs /\ Root \in Dirs
      /\ b[d].is = "dir" /\ (d = Root \/ (d \in Cluster /\ f[d] # Free))
  BY DEF Sound, LiveDirsOf, Dirs
<1>2. /\ w[d].is = "dir" /\ w[d].up = b[d].up
      /\ w[d].ent = [b[d].ent EXCEPT ![i] = e] /\ b[d].ent \in [Slots -> Entry]
  BY <1>1, BlockFacts
<1>3. N \subseteq Cluster /\ \A x \in N : g[x] # Free
  BY ProperFacts DEF LeadsTo
<1>4. d \notin N /\ Root \notin N /\ N \cap L = {}
  BY <1>1, <1>3, FatBounds DEF LiveDirsOf
<1>5. D \subseteq N /\ (e.kind = "dir" => N = {e.cl} /\ w[e.cl].is = "dir" /\ w[e.cl].up = d)
  BY ProperOne DEF LeadsTo, Clusters
<1>6. e.kind = "file" => \A x \in N : w[x].is = "data"
  BY DEF LeadsTo, DataBlock
<1>7. e.kind \in {"file", "dir"}
  BY DEF Live
<1>8. \A x \in L : w[x].is = "dir" /\ w[x].up = b[x].up
                     /\ \A j \in Slots : <<x, j>> # p => w[x].ent[j] = b[x].ent[j]
  <2> SUFFICES ASSUME NEW x \in L
               PROVE  w[x].is = "dir" /\ w[x].up = b[x].up
                      /\ \A j \in Slots : <<x, j>> # p => w[x].ent[j] = b[x].ent[j]
    OBVIOUS
  <2>1. x \in Dirs /\ (x = Root \/ (x \in Cluster /\ f[x] # Free)) /\ b[x].is = "dir" /\ x \notin N
    BY <1>1, <1>4 DEF LiveDirsOf, Dirs
  <2>2. CASE x = d
    BY <1>1, <1>2, <2>2
  <2>3. CASE x # d
    BY <2>1, <2>3
  <2> QED
    BY <2>2, <2>3
<1>9. LiveDirsOf(g, w) = L \cup D
  <2>1. ASSUME NEW x \in LiveDirsOf(g, w) PROVE x \in L \cup D
    <3>1. CASE x = Root
      BY <3>1 DEF LiveDirsOf
    <3>2. CASE x # Root
      <4>1. x \in Cluster /\ g[x] # Free /\ w[x].is = "dir" /\ x \in Dirs
        BY <3>2 DEF LiveDirsOf, Dirs
      <4>2. CASE x \in N
        BY <1>5, <1>6, <1>7, <4>1, <4>2
      <4>3. CASE x = d
        BY <4>3
      <4>4. CASE x \notin N /\ x # d
        BY <4>1, <4>4 DEF LiveDirsOf
      <4> QED
        BY <4>2, <4>3, <4>4
    <3> QED
      BY <3>1, <3>2
  <2>2. ASSUME NEW x \in L PROVE x \in LiveDirsOf(g, w)
    <3>1. w[x].is = "dir" /\ x \notin N /\ (x = Root \/ (x \in Cluster /\ f[x] # Free))
      BY <1>4, <1>8 DEF LiveDirsOf
    <3> QED
      BY <3>1 DEF LiveDirsOf
  <2>3. ASSUME NEW x \in D PROVE x \in LiveDirsOf(g, w)
    BY <1>3, <1>5 DEF LiveDirsOf
  <2> QED
    BY <2>1, <2>2, <2>3
<1>10. \A x \in L, j \in Slots : <<x, j>> # p => w[x].ent[j] = b[x].ent[j]
  BY <1>8
<1>11. w[d].ent[i] = e /\ p \notin P
  BY <1>1, <1>2 DEF PlacesOf
<1>12. PlacesOf(g, w) = P \cup {p} /\ (\A q \in P : AtOf(w, q) = AtOf(b, q)) /\ AtOf(w, p) = e
  <2>1. ASSUME NEW q \in PlacesOf(g, w) PROVE q \in P \cup {p}
    <3>1. PICK x \in L \cup D, j \in Slots : q = <<x, j>>
      BY <1>9 DEF PlacesOf
    <3>2. Live(w[x].ent[j])
      BY <3>1 DEF PlacesOf
    <3>3. x \in L
      BY <3>1, <3>2, NewEntries
    <3>4. CASE q # p
      BY <1>10, <3>1, <3>2, <3>3, <3>4 DEF PlacesOf
    <3> QED
      BY <3>4
  <2>2. ASSUME NEW q \in P PROVE q \in PlacesOf(g, w) /\ AtOf(w, q) = AtOf(b, q)
    <3>1. PICK x \in L, j \in Slots : q = <<x, j>>
      BY DEF PlacesOf
    <3>2. Live(b[x].ent[j]) /\ q # p
      BY <1>11, <3>1 DEF PlacesOf
    <3>3. w[x].ent[j] = b[x].ent[j]
      BY <1>10, <3>1, <3>2
    <3> QED
      BY <1>9, <3>1, <3>2, <3>3 DEF PlacesOf, AtOf
  <2>3. p \in PlacesOf(g, w) /\ AtOf(w, p) = e
    BY <1>9, <1>11 DEF PlacesOf, AtOf
  <2> QED
    BY <2>1, <2>2, <2>3
<1>13. \A q \in P : Owns(g, w, q) = Owns(f, b, q) /\ LeadsTo(g, w, q[1], AtOf(w, q))
                    /\ Owns(f, b, q) \cap N = {}
  <2> SUFFICES ASSUME NEW q \in P
               PROVE  Owns(g, w, q) = Owns(f, b, q) /\ LeadsTo(g, w, q[1], AtOf(w, q))
                      /\ Owns(f, b, q) \cap N = {}
    OBVIOUS
  <2>1. AtOf(w, q) = AtOf(b, q)
    BY <1>12
  <2>2. \A x \in Owns(f, b, q) : x \in Cluster /\ f[x] # Free /\ x \notin N
    BY PlaceFacts
  <2>3. ASSUME NEW x \in Owns(f, b, q)
        PROVE  /\ g[x] = f[x] /\ w[x].is = b[x].is /\ w[x].up = b[x].up
               /\ b[x].is # "dir" => w[x] = b[x]
    <3>1. x \in Cluster /\ f[x] # Free /\ x \notin N /\ x \in Dirs
      BY <2>2 DEF Dirs
    <3>2. CASE x = d
      BY <1>1, <1>2, <3>1, <3>2
    <3>3. CASE x # d
      BY <3>1, <3>3
    <3> QED
      BY <3>2, <3>3
  <2>4. Owns(g, w, q) = Owns(f, b, q) /\ LeadsTo(g, w, q[1], AtOf(w, q))
    <3> HIDE DEF P
    <3> QED
      BY <2>1, <2>3, PlaceKept DEF P
  <2> QED
    BY <2>2, <2>4
<1>14. Owns(g, w, p) = N /\ LeadsTo(g, w, p[1], AtOf(w, p))
  BY <1>12 DEF Owns
<1>15. \A x \in L \cup D : Packed(w[x].ent)
  <2>1. ASSUME NEW x \in L PROVE Packed(w[x].ent)
    <3>1. Packed(b[x].ent)
      BY DEF Sound
    <3>2. CASE x # d
      <4>1. \A j \in Slots : w[x].ent[j] = b[x].ent[j]
        BY <1>10, <3>2
      <4> QED
        BY <3>1, <4>1 DEF Packed
    <3>3. CASE x = d
      <4>1. \A j \in Slots : w[d].ent[j] = IF j = i THEN e ELSE b[d].ent[j]
        BY <1>2
      <4>2. e.kind # "end"
        BY <1>7
      <4> QED
        BY <3>1, <3>3, <4>1, <4>2 DEF Packed
    <3> QED
      BY <3>2, <3>3
  <2>2. ASSUME NEW x \in D PROVE Packed(w[x].ent)
    <3>1. \A j \in Slots : w[x].ent[j] = End
      OBVIOUS
    <3> QED
      BY <3>1 DEF Packed
  <2> QED
    BY <2>1, <2>2
<1>16. Sound(g, w)
  <2>1. w[Root].is = "dir"
    BY <1>8 DEF LiveDirsOf
  <2>2. \A q \in PlacesOf(g, w) : LeadsTo(g, w, q[1], AtOf(w, q))
    BY <1>12, <1>13, <1>14
  <2>3. \A q, r \in PlacesOf(g, w) : q # r => Owns(g, w, q) \cap Owns(g, w, r) = {}
    BY <1>12, <1>13, <1>14 DEF Sound
  <2> QED
    BY <1>9, <1>15, <2>1, <2>2, <2>3 DEF Sound
<1>17. ASSUME \A j \in Slots : Live(b[d].ent[j]) => b[d].ent[j].name # e.name, Named(f, b)
       PROVE  Named(g, w)
  <2>1. ASSUME NEW q \in P, q[1] = d, AtOf(b, q).name = e.name PROVE FALSE
    <3>1. q[2] \in Slots /\ Live(b[d].ent[q[2]]) /\ AtOf(b, q) = b[d].ent[q[2]]
      BY <2>1 DEF PlacesOf, AtOf
    <3> QED
      BY <1>17, <2>1, <3>1
  <2> QED
    BY <1>12, <1>17, <2>1 DEF Named
<1>18. ASSUME Covered(f, b) PROVE Covered(g, w)
  <2> SUFFICES ASSUME NEW c \in Cluster, g[c] # Free
               PROVE  \E q \in PlacesOf(g, w) : c \in Owns(g, w, q)
    BY DEF Covered
  <2>1. CASE c \in N
    BY <1>12, <1>14, <2>1
  <2>2. CASE c \notin N
    <3>1. PICK q \in P : c \in Owns(f, b, q)
      BY <1>18, <2>2 DEF Covered
    <3> QED
      BY <1>12, <1>13, <3>1
  <2> QED
    BY <2>1, <2>2
<1>19. ASSUME Tree(f, b) PROVE Tree(g, w)
  <2> SUFFICES ASSUME NEW c \in (L \cup D) \ {Root}
               PROVE  /\ w[c].up \in L \cup D /\ w[c].up # c
                      /\ \E j \in Slots : w[w[c].up].ent[j].kind = "dir" /\ w[w[c].up].ent[j].cl = c
    BY <1>9 DEF Tree
  <2>1. CASE c \in D
    <3>1. w[c].up = d /\ c # d /\ e.kind = "dir" /\ e.cl = c
      BY <1>4, <1>5, <2>1
    <3> QED
      BY <1>11, <3>1
  <2>2. CASE c \in L
    <3>1. PICK u : u = b[c].up
      OBVIOUS
    <3>2. u \in L /\ u # c /\ w[c].up = u
      BY <1>8, <1>19, <2>2, <3>1 DEF Tree
    <3>3. PICK j \in Slots : b[u].ent[j].kind = "dir" /\ b[u].ent[j].cl = c
      BY <1>19, <2>2, <3>1 DEF Tree
    <3>4. <<u, j>> # p
      BY <3>3 DEF Live
    <3>5. w[u].ent[j] = b[u].ent[j]
      BY <1>10, <3>2, <3>4
    <3> QED
      BY <3>2, <3>3, <3>5
  <2> QED
    BY <2>1, <2>2
<1> QED
  BY <1>9, <1>12, <1>13, <1>16, <1>17, <1>18, <1>19

(* No directory is its own parent, so nobody can remove it from within.    *)
LEMMA NotWithin ==
    ASSUME NEW f, NEW b, Sound(f, b), Tree(f, b), NEW p \in PlacesOf(f, b)
    PROVE  p[1] \notin Owns(f, b, p)
<1>1. AtOf(b, p).kind \in {"file", "dir"} /\ p[1] \in LiveDirsOf(f, b)
  BY PlaceFacts DEF Live
<1>2. CASE AtOf(b, p).kind = "file"
  BY <1>1, <1>2, PlaceFacts
<1>3. CASE AtOf(b, p).kind = "dir"
  <2>1. PICK c : c = AtOf(b, p).cl
    OBVIOUS
  <2>2. c \in Cluster /\ Owns(f, b, p) = {c} /\ c \in LiveDirsOf(f, b) /\ b[c].up = p[1]
    BY <1>3, <2>1, PlaceFacts
  <2>3. b[c].up # c
    BY <2>2, FatBounds DEF Tree
  <2> QED
    BY <2>2, <2>3
<1> QED
  BY <1>1, <1>2, <1>3

(* A cluster is taken for a directory that gets no entry.                  *)
LEMMA TakeKeeps ==
    ASSUME NEW f, NEW b, Sound(f, b), NEW c \in Cluster, f[c] = Free, NEW d \in Dirs,
           NEW g \in Tables, \A x \in Cluster \ {c} : g[x] = f[x],
           NEW w \in [Dirs -> Block], w[c] = DirBlock(d), \A x \in Dirs \ {c} : w[x] = b[x]
    PROVE  /\ Sound(g, w) /\ (Named(f, b) => Named(g, w))
           /\ LiveDirsOf(f, b) \subseteq LiveDirsOf(g, w)
<1> DEFINE L == LiveDirsOf(f, b)
           P == PlacesOf(f, b)
<1>1. f \in Tables /\ b \in [Dirs -> Block] /\ b[Root].is = "dir" /\ c \in Dirs /\ c # Root
  BY FatBounds DEF Sound, Dirs
<1>2. w[c].is = "dir" /\ \A j \in Slots : w[c].ent[j] = End
  BY NewBlocks
<1>3. c \notin L /\ L \subseteq Dirs
  BY <1>1 DEF LiveDirsOf, Dirs
<1>4. LiveDirsOf(g, w) \subseteq L \cup {c}
  BY DEF LiveDirsOf, Dirs
<1>5. \A x \in L : w[x] = b[x]
  BY <1>3
<1>6. PlacesOf(g, w) \subseteq P /\ \A q \in P : AtOf(w, q) = AtOf(b, q)
  <2>1. ASSUME NEW q \in PlacesOf(g, w) PROVE q \in P
    <3>0. q \in LiveDirsOf(g, w) \X Slots
      BY <2>1 DEF PlacesOf
    <3>1. PICK x \in L \cup {c}, j \in Slots : q = <<x, j>>
      BY <1>4, <3>0
    <3>2. Live(w[x].ent[j])
      BY <3>1 DEF PlacesOf
    <3>3. x \in L
      BY <1>2, <3>1, <3>2, NewEntries
    <3> QED
      BY <1>5, <3>1, <3>2, <3>3 DEF PlacesOf
  <2>2. ASSUME NEW q \in P PROVE AtOf(w, q) = AtOf(b, q)
    <3>1. q[1] \in L
      BY DEF PlacesOf
    <3> QED
      BY <1>5, <3>1 DEF AtOf
  <2> QED
    BY <2>1, <2>2
<1>7. \A q \in P : Owns(g, w, q) = Owns(f, b, q) /\ LeadsTo(g, w, q[1], AtOf(w, q))
  <2> SUFFICES ASSUME NEW q \in P
               PROVE  Owns(g, w, q) = Owns(f, b, q) /\ LeadsTo(g, w, q[1], AtOf(w, q))
    OBVIOUS
  <2>1. AtOf(w, q) = AtOf(b, q)
    BY <1>6
  <2>2. \A x \in Owns(f, b, q) : x \in Cluster /\ x \in Dirs /\ x # c
    BY PlaceFacts DEF Dirs
  <2>3. \A x \in Owns(f, b, q) : g[x] = f[x] /\ w[x].is = b[x].is /\ w[x].up = b[x].up
                                    /\ (b[x].is # "dir" => w[x] = b[x])
    BY <2>2
  <2> QED
    BY <2>1, <2>3, PlaceKept
<1>8. \A x \in LiveDirsOf(g, w) : Packed(w[x].ent)
  <2>1. Packed(w[c].ent)
    BY <1>2 DEF Packed
  <2>2. \A x \in L : Packed(b[x].ent)
    BY DEF Sound
  <2> QED
    BY <1>4, <1>5, <2>1, <2>2
<1>9. w[Root].is = "dir"
  BY <1>1, <1>5 DEF LiveDirsOf
<1>10. Sound(g, w)
  <2>1. \A q, r \in P : q # r => Owns(g, w, q) \cap Owns(g, w, r) = {}
    BY <1>7 DEF Sound
  <2> QED
    BY <1>6, <1>7, <1>8, <1>9, <2>1 DEF Sound
<1>11. Named(f, b) => Named(g, w)
  BY <1>6 DEF Named
<1>12. L \subseteq LiveDirsOf(g, w)
  BY <1>3, <1>5 DEF LiveDirsOf
<1> QED
  BY <1>10, <1>11, <1>12

(* An entry gets another name.                                             *)
LEMMA RenameKeeps ==
    ASSUME NEW f, NEW b, Sound(f, b), NEW p \in PlacesOf(f, b), NEW nm \in Short,
           NEW w \in [Dirs -> Block],
           w[p[1]] = Edited(b[p[1]], p[2], Renamed(AtOf(b, p), nm)),
           \A x \in Dirs \ {p[1]} : x = Root \/ f[x] # Free => w[x] = b[x]
    PROVE  /\ LiveDirsOf(f, w) = LiveDirsOf(f, b)
           /\ PlacesOf(f, w) = PlacesOf(f, b)
           /\ Sound(f, w)
           /\ (\A j \in Slots \ {p[2]} : Live(b[p[1]].ent[j]) => b[p[1]].ent[j].name # nm)
                 => (Named(f, b) => Named(f, w))
           /\ Covered(f, b) => Covered(f, w)
           /\ Tree(f, b) => Tree(f, w)
<1> DEFINE d == p[1]
           i == p[2]
           e == AtOf(b, p)
           r == Renamed(e, nm)
           L == LiveDirsOf(f, b)
           P == PlacesOf(f, b)
<1>1. /\ p = <<d, i>> /\ d \in L /\ d \in Dirs /\ i \in Slots /\ e = b[d].ent[i]
      /\ e \in Entry /\ Live(e) /\ b[d].is = "dir"
  <2>1. e = b[d].ent[i]
    BY DEF AtOf
  <2> QED
    BY <2>1, PlaceFacts
<1>2. /\ f \in Tables /\ b \in [Dirs -> Block] /\ b[Root].is = "dir" /\ Root \in Dirs
      /\ d = Root \/ (d \in Cluster /\ f[d] # Free)
  BY <1>1 DEF Sound, LiveDirsOf, Dirs
<1>3. /\ r \in Entry /\ r.kind = e.kind /\ r.cl = e.cl /\ r.size = e.size /\ r.name = nm
      /\ Live(r) /\ (e.kind = "file" => r.val = e.val)
  BY <1>1, EntryFacts DEF Live
<1>4. /\ w[d].is = "dir" /\ w[d].up = b[d].up
      /\ w[d].ent = [b[d].ent EXCEPT ![i] = r] /\ b[d].ent \in [Slots -> Entry]
  <2>1. b[d] \in Block
    BY <1>1, <1>2
  <2> HIDE DEF r
  <2> QED
    BY <1>1, <1>3, <2>1, BlockFacts, SMTT(30) DEF r
<1> HIDE DEF r
<1>5. \A x \in Dirs : (x = Root \/ f[x] # Free) =>
        /\ w[x].is = b[x].is /\ w[x].up = b[x].up /\ (b[x].is # "dir" => w[x] = b[x])
        /\ x # d => w[x] = b[x]
  BY <1>1, <1>4
<1>6. \A x \in L : x \in Dirs /\ (x = Root \/ f[x] # Free) /\ b[x].is = "dir"
  BY <1>2 DEF LiveDirsOf, Dirs
<1>7. LiveDirsOf(f, w) = L
  BY <1>5 DEF LiveDirsOf, Dirs
<1>8. w[d].ent[i] = r
  BY <1>1, <1>4
<1>9. \A x \in L, j \in Slots : <<x, j>> # p => w[x].ent[j] = b[x].ent[j]
  <2> SUFFICES ASSUME NEW x \in L, NEW j \in Slots, <<x, j>> # p PROVE w[x].ent[j] = b[x].ent[j]
    OBVIOUS
  <2>1. CASE x = d
    BY <1>1, <1>4, <2>1
  <2>2. CASE x # d
    BY <1>5, <1>6, <2>2
  <2> QED
    BY <2>1, <2>2
<1>10. /\ PlacesOf(f, w) = P /\ AtOf(w, p) = r
       /\ \A q \in P : q # p => AtOf(w, q) = AtOf(b, q)
  <2>1. ASSUME NEW q \in PlacesOf(f, w) PROVE q \in P
    <3>1. PICK x \in L, j \in Slots : q = <<x, j>>
      BY <1>7 DEF PlacesOf
    <3>2. Live(w[x].ent[j])
      BY <3>1 DEF PlacesOf
    <3>3. CASE q = p
      BY <3>3
    <3>4. CASE q # p
      BY <1>9, <3>1, <3>2, <3>4 DEF PlacesOf
    <3> QED
      BY <3>3, <3>4
  <2>2. ASSUME NEW q \in P PROVE q \in PlacesOf(f, w) /\ (q # p => AtOf(w, q) = AtOf(b, q))
    <3>1. PICK x \in L, j \in Slots : q = <<x, j>>
      BY DEF PlacesOf
    <3>2. Live(b[x].ent[j])
      BY <3>1 DEF PlacesOf
    <3>3. CASE q = p
      BY <1>1, <1>3, <1>7, <1>8, <3>1, <3>3 DEF PlacesOf
    <3>4. CASE q # p
      <4>1. w[x].ent[j] = b[x].ent[j]
        BY <1>9, <3>1, <3>4
      <4> QED
        BY <1>7, <3>1, <3>2, <4>1 DEF PlacesOf, AtOf
    <3> QED
      BY <3>3, <3>4
  <2>3. AtOf(w, p) = r
    BY <1>8 DEF AtOf
  <2> QED
    BY <2>1, <2>2, <2>3
<1>11. \A q \in P : /\ AtOf(w, q).kind = AtOf(b, q).kind /\ AtOf(w, q).cl = AtOf(b, q).cl
                    /\ Clusters(AtOf(w, q)) = Clusters(AtOf(b, q))
                    /\ AtOf(b, q).kind = "file" => AtOf(w, q).val = AtOf(b, q).val
  BY <1>3, <1>10 DEF Clusters
<1>12. \A q \in P : Owns(f, w, q) = Owns(f, b, q) /\ LeadsTo(f, w, q[1], AtOf(w, q))
  <2> SUFFICES ASSUME NEW q \in P
               PROVE  Owns(f, w, q) = Owns(f, b, q) /\ LeadsTo(f, w, q[1], AtOf(w, q))
    OBVIOUS
  <2>1. \A x \in Owns(f, b, q) : x \in Cluster /\ f[x] # Free /\ x \in Dirs
    BY PlaceFacts DEF Dirs
  <2>2. \A x \in Owns(f, b, q) : /\ w[x].is = b[x].is /\ w[x].up = b[x].up
                                 /\ b[x].is # "dir" => w[x] = b[x]
    BY <1>5, <2>1
  <2>3. Proper(f, AtOf(w, q).cl, Clusters(AtOf(w, q)))
    BY <1>11, PlaceFacts
  <2>4. Owns(f, w, q) = Owns(f, b, q)
    BY <1>11 DEF Owns
  <2>5. ASSUME AtOf(w, q).kind = "file", NEW c \in Chain(f, AtOf(w, q).cl)
        PROVE  w[c] = DataBlock(AtOf(w, q).val)
    <3>1. c \in Owns(f, b, q) /\ AtOf(b, q).kind = "file" /\ AtOf(w, q).val = AtOf(b, q).val
      BY <1>11, <2>4, <2>5 DEF Owns
    <3>2. b[c] = DataBlock(AtOf(w, q).val) /\ b[c].is = "data"
      BY <3>1, PlaceFacts DEF DataBlock
    <3> QED
      BY <2>2, <3>1, <3>2
  <2>6. ASSUME AtOf(w, q).kind = "dir"
        PROVE  w[AtOf(w, q).cl].is = "dir" /\ w[AtOf(w, q).cl].up = q[1]
    <3>1. PICK c : c = AtOf(b, q).cl
      OBVIOUS
    <3>2. c = AtOf(w, q).cl /\ c \in Owns(f, b, q) /\ c \in L /\ b[c].up = q[1]
      BY <1>11, <2>6, <3>1, PlaceFacts
    <3> QED
      BY <1>6, <2>2, <3>2
  <2> QED
    BY <2>3, <2>4, <2>5, <2>6 DEF LeadsTo
<1>13. \A x \in L : Packed(w[x].ent)
  <2> SUFFICES ASSUME NEW x \in L PROVE Packed(w[x].ent)
    OBVIOUS
  <2>1. Packed(b[x].ent)
    BY DEF Sound
  <2>2. \A j \in Slots : w[x].ent[j].kind = b[x].ent[j].kind
    BY <1>1, <1>3, <1>8, <1>9
  <2> QED
    BY <2>1, <2>2 DEF Packed
<1>14. Sound(f, w)
  <2>1. w[Root].is = "dir"
    BY <1>2, <1>5
  <2>2. \A q, s \in P : q # s => Owns(f, w, q) \cap Owns(f, w, s) = {}
    BY <1>12 DEF Sound
  <2> QED
    BY <1>2, <1>7, <1>10, <1>12, <1>13, <2>1, <2>2 DEF Sound
<1>15. ASSUME \A j \in Slots \ {i} : Live(b[d].ent[j]) => b[d].ent[j].name # nm, Named(f, b)
       PROVE  Named(f, w)
  <2>1. ASSUME NEW q \in P, q[1] = d, q # p PROVE AtOf(b, q).name # nm
    <3>1. q[2] \in Slots /\ Live(b[d].ent[q[2]]) /\ AtOf(b, q) = b[d].ent[q[2]]
      BY <2>1 DEF PlacesOf, AtOf
    <3>2. q = <<q[1], q[2]>>
      BY DEF PlacesOf
    <3>3. q[2] # i
      BY <1>1, <2>1, <3>2
    <3> QED
      BY <1>15, <3>1, <3>3
  <2> QED
    BY <1>3, <1>10, <1>15, <2>1 DEF Named
<1>16. Covered(f, b) => Covered(f, w)
  BY <1>10, <1>12 DEF Covered
<1>17. ASSUME Tree(f, b), NEW c \in L \ {Root}
       PROVE  /\ w[c].up \in L /\ w[c].up # c
              /\ \E j \in Slots : w[w[c].up].ent[j].kind = "dir" /\ w[w[c].up].ent[j].cl = c
  <2>1. PICK u : u = b[c].up
    OBVIOUS
  <2>2. u \in L /\ u # c /\ w[c].up = u
    BY <1>5, <1>6, <1>17, <2>1 DEF Tree
  <2>3. PICK j \in Slots : b[u].ent[j].kind = "dir" /\ b[u].ent[j].cl = c
    BY <1>17, <2>1 DEF Tree
  <2>4. <<u, j>> \in P /\ AtOf(b, <<u, j>>) = b[u].ent[j] /\ AtOf(w, <<u, j>>) = w[u].ent[j]
    BY <2>2, <2>3 DEF PlacesOf, AtOf, Live
  <2> QED
    BY <1>11, <2>2, <2>3, <2>4
<1> QED
  BY <1>7, <1>10, <1>14, <1>15, <1>16, <1>17 DEF Tree

(* The chain behind an entry is freed and the entry stays, as when a write *)
(* finds no room.                                                          *)
LEMMA NoRoomKeeps ==
    ASSUME NEW f, NEW b, Sound(f, b), Tree(f, b), NEW p \in PlacesOf(f, b),
           NEW g, g = Freed(f, AtOf(b, p).cl)
    PROVE  /\ LiveDirsOf(g, b) = LiveDirsOf(f, b) \ Owns(f, b, p)
           /\ Named(f, b) => Named(g, b)
           /\ AtOf(b, p).cl # 0 => Readable(g, b, "overwrite_nospace")
           /\ (AtOf(b, p).kind = "dir" => \A i \in Slots : ~Live(b[AtOf(b, p).cl].ent[i]))
                 => (Covered(f, b) => Covered(g, b)) /\ Tree(g, b)
<1> DEFINE O == Owns(f, b, p)
           L == LiveDirsOf(f, b)
           P == PlacesOf(f, b)
<1>1. f \in Tables /\ AtOf(b, p).kind \in {"file", "dir"} /\ O \subseteq Cluster
  BY PlaceFacts DEF Sound, Live
<1>2. g \in Tables /\ \A x \in Cluster : g[x] = IF x \in O THEN Free ELSE f[x]
  BY <1>1, FreedIs DEF Owns
<1>3. LiveDirsOf(g, b) = L \ O
  BY <1>1, <1>2, FatBounds DEF LiveDirsOf
<1>4. PlacesOf(g, b) = {q \in P : q[1] \notin O}
  <2>1. ASSUME NEW q \in PlacesOf(g, b) PROVE q \in P /\ q[1] \notin O
    <3>1. q \in (L \ O) \X Slots /\ Live(b[q[1]].ent[q[2]])
      BY <1>3 DEF PlacesOf
    <3> QED
      BY <3>1 DEF PlacesOf
  <2>2. ASSUME NEW q \in P, q[1] \notin O PROVE q \in PlacesOf(g, b)
    <3>1. q \in L \X Slots /\ Live(b[q[1]].ent[q[2]])
      BY DEF PlacesOf
    <3>2. q \in (L \ O) \X Slots
      BY <2>2, <3>1
    <3> QED
      BY <1>3, <3>1, <3>2 DEF PlacesOf
  <2> QED
    BY <2>1, <2>2
<1>5. Named(f, b) => Named(g, b)
  BY <1>4 DEF Named
<1>6. ASSUME AtOf(b, p).kind = "dir" => \A i \in Slots : ~Live(b[AtOf(b, p).cl].ent[i])
      PROVE  (Covered(f, b) => Covered(g, b)) /\ Tree(g, b)
  <2>1. \A q \in P : q[1] \notin O
    <3> SUFFICES ASSUME NEW q \in P, q[1] \in O PROVE FALSE
      OBVIOUS
    <3>1. q[1] \in L /\ q[2] \in Slots /\ Live(b[q[1]].ent[q[2]])
      BY DEF PlacesOf
    <3>2. AtOf(b, p).kind = "dir" /\ q[1] = AtOf(b, p).cl
      BY <1>1, <3>1, PlaceFacts
    <3> QED
      BY <1>6, <3>1, <3>2
  <2>2. ASSUME Covered(f, b), NEW c \in Cluster, g[c] # Free
        PROVE  \E q \in PlacesOf(g, b) : c \in Owns(g, b, q)
    <3>1. f[c] # Free /\ c \notin O
      BY <1>2, <2>2
    <3>2. PICK q \in P : c \in Owns(f, b, q)
      BY <2>2, <3>1 DEF Covered
    <3>3. q # p /\ q \in PlacesOf(g, b)
      BY <1>4, <2>1, <3>1, <3>2
    <3>4. Owns(f, b, q) \cap O = {} /\ Owns(f, b, q) \subseteq Cluster
      BY <3>3, PlaceFacts DEF Sound
    <3>5. \A x \in Owns(f, b, q) : g[x] = f[x]
      BY <1>2, <3>4
    <3>6. Owns(g, b, q) = Owns(f, b, q)
      <4>1. \A x \in Owns(f, b, q) : g[x] = f[x] /\ b[x].is = b[x].is /\ b[x].up = b[x].up
                                       /\ (b[x].is # "dir" => b[x] = b[x])
        BY <3>5
      <4> QED
        BY <4>1, PlaceKept
    <3> QED
      BY <3>2, <3>3, <3>6
  <2>3. ASSUME NEW c \in (L \ O) \ {Root}
        PROVE  /\ b[c].up \in L \ O /\ b[c].up # c
               /\ \E j \in Slots : b[b[c].up].ent[j].kind = "dir" /\ b[b[c].up].ent[j].cl = c
    <3>1. PICK u : u = b[c].up
      OBVIOUS
    <3>2. u \in L /\ u # c
      BY <3>1 DEF Tree
    <3>3. PICK j \in Slots : b[u].ent[j].kind = "dir" /\ b[u].ent[j].cl = c
      BY <3>1 DEF Tree
    <3>4. <<u, j>> \in P /\ <<u, j>>[1] = u
      BY <3>2, <3>3 DEF PlacesOf, Live
    <3>5. u \notin O
      BY <2>1, <3>4
    <3> QED
      BY <3>1, <3>2, <3>3, <3>5
  <2> QED
    BY <1>3, <2>2, <2>3 DEF Covered, Tree
<1>7. \A q \in P : q # p => LeadsTo(g, b, q[1], AtOf(b, q))
  <2> SUFFICES ASSUME NEW q \in P, q # p PROVE LeadsTo(g, b, q[1], AtOf(b, q))
    OBVIOUS
  <2>1. Owns(f, b, q) \cap O = {} /\ Owns(f, b, q) \subseteq Cluster
    BY PlaceFacts DEF Sound
  <2>2. \A x \in Owns(f, b, q) : g[x] = f[x] /\ b[x].is = b[x].is /\ b[x].up = b[x].up
                                   /\ (b[x].is # "dir" => b[x] = b[x])
    BY <1>2, <2>1
  <2> QED
    BY <2>2, PlaceKept
<1>8. ASSUME AtOf(b, p).cl # 0 PROVE AtOf(b, p).cl \in Cluster /\ g[AtOf(b, p).cl] = Free
  <2>1. PICK c, n : c = AtOf(b, p).cl /\ n = Clusters(AtOf(b, p))
    OBVIOUS
  <2>2. Proper(f, c, n)
    BY <2>1, PlaceFacts
  <2>3. n \in Nat /\ n # 0
    BY <1>8, <2>1, <2>2, ProperFacts
  <2>4. c \in Chain(f, c) /\ O = Chain(f, c)
    BY <2>1, <2>2, <2>3, ProperFacts DEF Owns
  <2> QED
    BY <1>1, <1>2, <2>1, <2>4
<1>9. AtOf(b, p).cl # 0 => Readable(g, b, "overwrite_nospace")
  BY <1>4, <1>7, <1>8 DEF Readable, NoRoom
<1> QED
  BY <1>3, <1>5, <1>6, <1>9

(* The clusters F of a directory are freed under it, and others taken: no  *)
(* file is touched that can still be reached.                              *)
SparesFiles(f, b, F) ==
    \A q \in PlacesOf(f, b) : AtOf(b, q).kind = "file" => Owns(f, b, q) \cap F = {}

FreedUnder(f, b, F, g, w) ==
    /\ w[Root] = b[Root]
    /\ \A x \in Cluster \ F : f[x] # Free => g[x] = f[x] /\ w[x] = b[x]
    /\ \A x \in Cluster : x \in F \/ f[x] = Free => w[x].is # "dir"

LEMMA DotKeeps ==
    ASSUME NEW f, NEW b, Sound(f, b), NEW F, F \in SUBSET Cluster, SparesFiles(f, b, F),
           NEW g, NEW w, FreedUnder(f, b, F, g, w)
    PROVE  /\ LiveDirsOf(g, w) = LiveDirsOf(f, b) \ F
           /\ Named(f, b) => Named(g, w)
           /\ \A dm : Readable(g, w, dm)
<1> DEFINE L == LiveDirsOf(f, b)
           P == PlacesOf(f, b)
<1>1. LiveDirsOf(g, w) = L \ F
  BY FatBounds DEF LiveDirsOf, Sound, FreedUnder
<1>2. \A x \in L \ F : w[x] = b[x]
  BY FatBounds DEF LiveDirsOf, FreedUnder
<1>3. \A q \in PlacesOf(g, w) : q \in P /\ AtOf(w, q) = AtOf(b, q)
  <2> SUFFICES ASSUME NEW q \in PlacesOf(g, w) PROVE q \in P /\ AtOf(w, q) = AtOf(b, q)
    OBVIOUS
  <2>1. q \in (L \ F) \X Slots /\ Live(w[q[1]].ent[q[2]])
    BY <1>1 DEF PlacesOf
  <2>2. w[q[1]] = b[q[1]]
    BY <1>2, <2>1
  <2> QED
    BY <2>1, <2>2 DEF PlacesOf, AtOf
<1>4. Named(f, b) => Named(g, w)
  BY <1>3 DEF Named
<1>5. \A q \in PlacesOf(g, w) : AtOf(w, q).kind = "file" => LeadsTo(g, w, q[1], AtOf(w, q))
  <2> SUFFICES ASSUME NEW q \in PlacesOf(g, w), AtOf(w, q).kind = "file"
               PROVE  LeadsTo(g, w, q[1], AtOf(w, q))
    OBVIOUS
  <2>1. q \in P /\ AtOf(w, q) = AtOf(b, q)
    BY <1>3
  <2>2. \A x \in Owns(f, b, q) : x \in Cluster /\ f[x] # Free /\ x \notin F
    BY <2>1, PlaceFacts DEF SparesFiles
  <2>3. \A x \in Owns(f, b, q) : g[x] = f[x] /\ w[x].is = b[x].is /\ w[x].up = b[x].up
                                   /\ (b[x].is # "dir" => w[x] = b[x])
    BY <2>2 DEF FreedUnder
  <2> QED
    BY <2>1, <2>3, PlaceKept
<1> QED
  BY <1>1, <1>4, <1>5 DEF Readable

-----------------------------------------------------------------------------
(* Looking up a name                                                       *)

LEMMA SlotsNat == Slots \subseteq Nat
BY FatBounds DEF Slots

(* The scan reaches every entry.                                           *)
LEMMA MatchFacts ==
    ASSUME NEW f, NEW b, Sound(f, b), NEW d \in LiveDirsOf(f, b), NEW nm \in Name,
           NEW ks \in SUBSET {"file", "dir"}
    PROVE  /\ Matches(b[d].ent, nm, ks) =
                {i \in Slots : b[d].ent[i].kind \in ks /\ b[d].ent[i].name = nm}
           /\ \A i \in Matches(b[d].ent, nm, ks) :
                /\ <<d, i>> \in PlacesOf(f, b) /\ AtOf(b, <<d, i>>) = b[d].ent[i]
                /\ b[d].ent[i].name = nm /\ b[d].ent[i].kind \in ks
           /\ Matches(b[d].ent, nm, ks) # {} =>
                /\ Least(Matches(b[d].ent, nm, ks)) \in Matches(b[d].ent, nm, ks)
                /\ Least(Matches(b[d].ent, nm, ks)) \in Slots
<1> DEFINE ent == b[d].ent
           M == Matches(ent, nm, ks)
<1>1. Packed(ent)
  BY DEF Sound
<1>2. \A i \in Slots : ent[i].kind \in ks => i \in Scanned(ent)
  <2> SUFFICES ASSUME NEW i \in Slots, ent[i].kind \in ks, NEW j \in 1..i PROVE ent[j].kind # "end"
    BY DEF Scanned
  <2>1. i \in Nat /\ j \in Slots /\ j <= i
    BY SlotsNat, FatBounds DEF Slots
  <2>2. ent[i].kind # "end"
    OBVIOUS
  <2>3. CASE j < i
    BY <1>1, <2>1, <2>2, <2>3 DEF Packed
  <2>4. CASE j = i
    BY <2>2, <2>4
  <2> QED
    BY <2>1, <2>3, <2>4
<1>3. M = {i \in Slots : ent[i].kind \in ks /\ ent[i].name = nm}
  BY <1>2 DEF Matches, Scanned
<1>4. ASSUME NEW i \in M
      PROVE  /\ <<d, i>> \in PlacesOf(f, b) /\ AtOf(b, <<d, i>>) = ent[i]
             /\ ent[i].name = nm /\ ent[i].kind \in ks
  <2>1. i \in Slots /\ Live(ent[i]) /\ ent[i].name = nm /\ ent[i].kind \in ks
    BY <1>3 DEF Live
  <2> QED
    BY <2>1 DEF PlacesOf, AtOf
<1>5. ASSUME M # {} PROVE Least(M) \in M /\ Least(M) \in Slots
  <2>1. M \subseteq Nat /\ M \subseteq Slots
    BY <1>3, SlotsNat
  <2> HIDE DEF M
  <2> QED
    BY <1>5, <2>1, LeastIs
<1> QED
  BY <1>3, <1>4, <1>5

(* Before the first slot that is not in use there is no end mark.          *)
LEMMA FreeSlot ==
    ASSUME NEW ent, FreeSlots(ent) # {}
    PROVE  /\ Least(FreeSlots(ent)) \in Slots /\ ~Live(ent[Least(FreeSlots(ent))])
           /\ \A j \in Slots : j < Least(FreeSlots(ent)) => ent[j].kind # "end"
<1>1. PICK S : S = FreeSlots(ent)
  OBVIOUS
<1>2. S \subseteq Slots /\ S \subseteq Nat /\ \A i \in Slots : i \in S <=> ~Live(ent[i])
  BY <1>1, SlotsNat DEF FreeSlots
<1>3. Least(S) \in S /\ \A y \in S : Least(S) <= y
  BY <1>1, <1>2, LeastIs
<1>4. ASSUME NEW j \in Slots, j < Least(S) PROVE ent[j].kind # "end"
  <2>1. PICK l : l = Least(S)
    OBVIOUS
  <2>2. l \in Nat /\ j \in Nat /\ j < l /\ \A y \in S : l <= y
    BY <1>2, <1>3, <1>4, <2>1, SlotsNat
  <2>3. j \notin S
    BY <2>2
  <2> QED
    BY <1>2, <2>3 DEF Live
<1> QED
  BY <1>1, <1>2, <1>3, <1>4

(* write_curdir                                                            *)
LEMMA WithEntryBlocks ==
    ASSUME NEW f, NEW d \in Dirs, NEW i \in Slots, NEW e \in Entry,
           blk \in [Dirs -> Block], blk[d].is = "dir"
    PROVE  WithEntry(f, d, i, e) \in [Dirs -> Block]
<1>1. Edited(blk[d], i, e) \in Block
  BY BlockFacts
<1>2. Unread \in Block
  BY NewBlocks
<1> QED
  BY <1>1, <1>2 DEF WithEntry, Edited

-----------------------------------------------------------------------------
(* The inductive invariant.  Damage ends a run, so what a damaged volume   *)
(* still keeps is what the damaging call itself leaves.                    *)

Kept(f, b, d, dm) ==
    /\ dm \notin NoRoom \cup DotCauses => Sound(f, b)
    /\ Readable(f, b, dm)
    /\ dm \notin SameName => Named(f, b)
    /\ d \in LiveDirsOf(f, b) \/ dm = "own_dir"
    /\ dm \notin TakesDir \cup DotCauses \cup {"mkdir_full"} => Covered(f, b) /\ Tree(f, b)

IInv == Kept(fat, blk, cwd, damage)

(* What a call finds                                                       *)
Sane ==
    /\ Sound(fat, blk) /\ Named(fat, blk) /\ Covered(fat, blk) /\ Tree(fat, blk)
    /\ cwd \in LiveDirsOf(fat, blk)

LEMMA IntactSane == IInv /\ Intact => Sane
BY DEF IInv, Kept, Intact, Sane, NoRoom, TakesDir, SameName, DotCauses

LEMMA SoundReadable ==
    ASSUME NEW f, NEW b, Sound(f, b)
    PROVE  \A dm : Readable(f, b, dm)
BY DEF Sound, Readable

(* What a call leaves that keeps the volume sound                          *)
LEMMA SaneKept ==
    ASSUME NEW f, NEW b, NEW d, NEW dm, Sound(f, b), d \in LiveDirsOf(f, b),
           dm \notin SameName => Named(f, b),
           dm \notin TakesDir \cup DotCauses \cup {"mkdir_full"} => Covered(f, b) /\ Tree(f, b)
    PROVE  Kept(f, b, d, dm)
BY SoundReadable DEF Kept

LEMMA SaneFacts ==
    ASSUME Sane
    PROVE  /\ fat \in Tables /\ blk \in [Dirs -> Block] /\ cwd \in Dirs /\ blk[cwd].is = "dir"
           /\ cwd = Root \/ (cwd \in Cluster /\ fat[cwd] # Free)
           /\ Ent \in [Slots -> Entry]
<1>1. fat \in Tables /\ blk \in [Dirs -> Block] /\ blk[Root].is = "dir" /\ cwd \in LiveDirsOf(fat, blk)
  BY DEF Sane, Sound
<1>2. cwd \in Dirs /\ blk[cwd].is = "dir" /\ (cwd = Root \/ (cwd \in Cluster /\ fat[cwd] # Free))
  BY <1>1 DEF LiveDirsOf, Dirs
<1>3. Ent \in [Slots -> Entry]
  BY <1>1, <1>2, BlockFacts DEF Ent
<1> QED
  BY <1>1, <1>2, <1>3

(* Deleting entry i of the current directory                               *)
LEMMA EraseEntry ==
    ASSUME Sane, NEW i \in Slots, <<cwd, i>> \in PlacesOf(fat, blk),
           NEW g, g = Freed(fat, Ent[i].cl), NEW w, w = WithEntry(g, cwd, i, Deleted)
    PROVE  /\ g \in Tables /\ w \in [Dirs -> Block] /\ w[cwd] = Edited(blk[cwd], i, Deleted)
           /\ cwd \in LiveDirsOf(g, w) /\ Sound(g, w) /\ Named(g, w)
           /\ (Ent[i].kind = "dir" => ~HasEntries(Ent[i].cl)) => Covered(g, w) /\ Tree(g, w)
<1> DEFINE p == <<cwd, i>>
<1>1. /\ fat \in Tables /\ blk \in [Dirs -> Block] /\ cwd \in Dirs /\ blk[cwd].is = "dir"
      /\ Sound(fat, blk) /\ Named(fat, blk) /\ Covered(fat, blk) /\ Tree(fat, blk)
      /\ cwd \in LiveDirsOf(fat, blk)
  BY SaneFacts DEF Sane
<1>2. p[1] = cwd /\ p[2] = i /\ AtOf(blk, p) = Ent[i] /\ p \in PlacesOf(fat, blk)
  BY DEF AtOf, Ent
<1>3. p[1] \notin Owns(fat, blk, p)
  BY <1>1, <1>2, NotWithin
<1>4. g \in Tables
  BY <1>1, FreedIs
<1>5. w \in [Dirs -> Block]
  BY <1>1, WithEntryBlocks, NewEntries
<1>6. /\ w[cwd] = Edited(blk[cwd], i, Deleted)
      /\ \A x \in Dirs \ {cwd} : x = Root \/ g[x] # Free => w[x] = blk[x]
  BY <1>1 DEF WithEntry, Edited
<1>7. Ent[i].kind = "dir" /\ ~HasEntries(Ent[i].cl) => \A j \in Slots : ~Live(blk[Ent[i].cl].ent[j])
  BY DEF HasEntries
<1> HIDE DEF p
<1>8. /\ LiveDirsOf(g, w) = LiveDirsOf(fat, blk) \ Owns(fat, blk, p)
      /\ Sound(g, w) /\ (Named(fat, blk) => Named(g, w))
      /\ (AtOf(blk, p).kind = "dir" => \A j \in Slots : ~Live(blk[AtOf(blk, p).cl].ent[j]))
            => (Covered(fat, blk) => Covered(g, w)) /\ (Tree(fat, blk) => Tree(g, w))
  BY <1>1, <1>2, <1>3, <1>5, <1>6, EraseKeeps
<1> QED
  BY <1>1, <1>2, <1>3, <1>4, <1>5, <1>6, <1>7, <1>8

(* Writing a file of k clusters into slot i of directory d                 *)
LEMMA WriteKeeps ==
    ASSUME NEW f, NEW b, Sound(f, b), NEW d \in LiveDirsOf(f, b),
           NEW i \in Slots, ~Live(b[d].ent[i]), \A j \in Slots : j < i => b[d].ent[j].kind # "end",
           NEW nm \in Short, NEW k \in Nat, NEW v \in Val, k <= Cardinality(FreeClusters(f)),
           NEW e, e = FileEntry(nm, First(f, k), k, v),
           NEW w, w \in [Dirs -> Block], w[d] = Edited(b[d], i, e),
           \A x \in Picked(f, k) : w[x] = DataBlock(v),
           \A x \in Dirs \ {d} : x \notin Picked(f, k) /\ (x = Root \/ f[x] # Free) => w[x] = b[x]
    PROVE  /\ d \in LiveDirsOf(Linked(f, k), w) /\ Sound(Linked(f, k), w)
           /\ (\A j \in Slots : Live(b[d].ent[j]) => b[d].ent[j].name # nm)
                 => (Named(f, b) => Named(Linked(f, k), w))
           /\ Covered(f, b) => Covered(Linked(f, k), w)
           /\ Tree(f, b) => Tree(Linked(f, k), w)
<1>1. PICK g, c, N : g = Linked(f, k) /\ c = First(f, k) /\ N = Picked(f, k)
  OBVIOUS
<1>2. /\ g \in Tables /\ (\A x \in Cluster \ N : g[x] = f[x])
      /\ Proper(g, c, k) /\ Chain(g, c) = N
  <2>1. f \in Tables
    BY DEF Sound
  <2> QED
    BY <1>1, <2>1, LinkedChain
<1>3. N \subseteq Cluster /\ \A x \in N : f[x] = Free
  BY <1>1, PickedFree DEF FreeClusters
<1>4. c \in Cluster \cup {0}
  BY <1>2, <1>3, ProperFacts
<1>5. /\ e \in Entry /\ Live(e) /\ e.kind = "file" /\ e.cl = c /\ e.size = k /\ e.name = nm
      /\ k # 0 => e.val = v
  BY <1>1, <1>4, NewEntries
<1>6. LeadsTo(g, w, d, e)
  <2>1. Clusters(e) = k
    BY <1>5 DEF Clusters
  <2>2. \A x \in N : k # 0
    BY <1>2, ProperFacts
  <2>3. \A x \in N : w[x] = DataBlock(e.val)
    BY <1>1, <1>5, <2>2
  <2> QED
    BY <1>2, <1>5, <2>1, <2>3 DEF LeadsTo
<1>7. \A x \in Dirs \ {d} : x = Root \/ (x \notin N /\ g[x] # Free) => w[x] = b[x]
  <2> SUFFICES ASSUME NEW x \in Dirs \ {d}, x = Root \/ (x \notin N /\ g[x] # Free)
               PROVE  w[x] = b[x]
    OBVIOUS
  <2>1. x \notin N
    BY <1>3, FatBounds
  <2>2. x = Root \/ f[x] # Free
    BY <1>2, <2>1 DEF Dirs
  <2> QED
    BY <1>1, <2>1, <2>2
<1>8. N = Chain(g, e.cl) /\ e.kind # "dir" /\ g \in Tables /\ e \in Entry /\ Live(e)
  BY <1>2, <1>5
<1>9. /\ LiveDirsOf(g, w) = LiveDirsOf(f, b) \cup (IF e.kind = "dir" THEN {e.cl} ELSE {})
      /\ Sound(g, w)
      /\ (\A j \in Slots : Live(b[d].ent[j]) => b[d].ent[j].name # e.name)
            => (Named(f, b) => Named(g, w))
      /\ Covered(f, b) => Covered(g, w)
      /\ Tree(f, b) => Tree(g, w)
  <2>1. \A x \in N : f[x] = Free
    BY <1>3
  <2>2. \A x \in Cluster \ N : g[x] = f[x]
    BY <1>2
  <2>3. e.kind = "dir" => \A j \in Slots : w[e.cl].ent[j] = End
    BY <1>8
  <2> QED
    BY <1>6, <1>7, <1>8, <2>1, <2>2, <2>3, AddKeeps
<1> QED
  BY <1>1, <1>5, <1>9

-----------------------------------------------------------------------------
(* One lemma for each call                                                 *)

LEMMA HitFacts ==
    ASSUME Sane, NEW nm \in Name, NEW ks \in SUBSET {"file", "dir"}, NEW M, M = Matches(Ent, nm, ks)
    PROVE  /\ M = {} /\ ks = AnyKind => \A j \in Slots : Live(Ent[j]) => Ent[j].name # nm
           /\ M # {} => /\ Least(M) \in Slots /\ <<cwd, Least(M)>> \in PlacesOf(fat, blk)
                        /\ Ent[Least(M)].kind \in ks /\ Ent[Least(M)].name = nm
                        /\ AtOf(blk, <<cwd, Least(M)>>) = Ent[Least(M)] /\ Ent[Least(M)] \in Entry
                        /\ Live(Ent[Least(M)])
<1>1. Sound(fat, blk) /\ cwd \in LiveDirsOf(fat, blk) /\ Ent \in [Slots -> Entry]
  BY SaneFacts DEF Sane
<1>2. /\ M = {i \in Slots : Ent[i].kind \in ks /\ Ent[i].name = nm}
      /\ \A i \in M : /\ <<cwd, i>> \in PlacesOf(fat, blk) /\ AtOf(blk, <<cwd, i>>) = Ent[i]
                      /\ Ent[i].name = nm /\ Ent[i].kind \in ks
      /\ M # {} => Least(M) \in M /\ Least(M) \in Slots
  BY <1>1, MatchFacts DEF Ent
<1>3. M = {} /\ ks = AnyKind => \A j \in Slots : Live(Ent[j]) => Ent[j].name # nm
  BY <1>2 DEF AnyKind, Live
<1> QED
  BY <1>1, <1>2, <1>3 DEF Live

LEMMA InitKept == Init => IInv
<1> SUFFICES ASSUME Init PROVE IInv
  OBVIOUS
<1>1. PICK f, b : f = fat /\ b = blk
  OBVIOUS
<1>2. /\ f = [c \in Cluster |-> Free] /\ cwd = Root /\ damage = "none"
      /\ b = [d \in Dirs |-> IF d = Root THEN DirBlock(Root) ELSE Unread]
  BY <1>1 DEF Init
<1>3. f \in Tables /\ b \in [Dirs -> Block] /\ b[Root] = DirBlock(Root) /\ Root \in Dirs
  BY <1>2, NewBlocks DEF Tables, Dirs
<1>4. b[Root].is = "dir" /\ \A i \in Slots : b[Root].ent[i] = End
  BY <1>3, NewBlocks
<1>5. LiveDirsOf(f, b) = {Root}
  BY <1>2 DEF LiveDirsOf
<1>6. PlacesOf(f, b) = {}
  BY <1>4, <1>5, NewEntries DEF PlacesOf
<1>7. Packed(b[Root].ent)
  BY <1>4 DEF Packed
<1>8. Sound(f, b)
  BY <1>3, <1>4, <1>5, <1>6, <1>7 DEF Sound
<1>9. Named(f, b) /\ Covered(f, b) /\ Tree(f, b)
  BY <1>2, <1>5, <1>6 DEF Named, Covered, Tree
<1> QED
  <2>1. Kept(f, b, cwd, damage)
    BY <1>2, <1>5, <1>8, <1>9, SaneKept
  <2> QED
    BY <1>1, <2>1 DEF IInv

LEMMA CdKept ==
    ASSUME IInv, NEW nm \in Name, Cd(nm)
    PROVE  IInv'
<1>1. Sane /\ damage = "none"
  BY IntactSane DEF Cd, Intact
<1>2. PICK M : M = Matches(Ent, nm, {"dir"})
  OBVIOUS
<1>3. M # {} /\ cwd' = Ent[Least(M)].cl /\ fat' = fat /\ blk' = blk /\ damage' = damage
  BY <1>2 DEF Cd, volume
<1>4. PICK p : p = <<cwd, Least(M)>>
  OBVIOUS
<1>5. p \in PlacesOf(fat, blk) /\ AtOf(blk, p) = Ent[Least(M)] /\ Ent[Least(M)].kind = "dir"
  BY <1>1, <1>2, <1>3, <1>4, HitFacts
<1>6. cwd' \in LiveDirsOf(fat, blk)
  BY <1>1, <1>3, <1>5, PlaceFacts DEF Sane
<1>7. Kept(fat, blk, cwd', damage)
  BY <1>1, <1>6, SaneKept DEF Sane
<1> QED
  BY <1>3, <1>7 DEF IInv

LEMMA CdUpKept ==
    ASSUME IInv, CdUp
    PROVE  IInv'
<1>1. Sane /\ damage = "none" /\ cwd # Root /\ cwd' = blk[cwd].up /\ fat' = fat /\ blk' = blk
      /\ damage' = damage
  BY IntactSane DEF CdUp, Intact, volume
<1>2. blk[cwd].up \in LiveDirsOf(fat, blk)
  BY <1>1 DEF Sane, Tree
<1>3. Kept(fat, blk, blk[cwd].up, damage)
  BY <1>1, <1>2, SaneKept DEF Sane
<1> QED
  BY <1>1, <1>3 DEF IInv

LEMMA CdRootKept ==
    ASSUME IInv, CdRoot
    PROVE  IInv'
<1>1. Sane /\ damage = "none" /\ cwd' = Root /\ fat' = fat /\ blk' = blk /\ damage' = damage
  BY IntactSane DEF CdRoot, Intact, volume
<1>2. Root \in LiveDirsOf(fat, blk)
  BY DEF LiveDirsOf
<1>3. Kept(fat, blk, Root, damage)
  BY <1>1, <1>2, SaneKept DEF Sane
<1> QED
  BY <1>1, <1>3 DEF IInv

LEMMA RemoveKept ==
    ASSUME IInv, NEW nm \in Name, Remove(nm)
    PROVE  IInv'
<1>1. Sane
  BY IntactSane DEF Remove
<1>2. PICK M : M = Matches(Ent, nm, AnyKind)
  OBVIOUS
<1>3. PICK i : i = Least(M)
  OBVIOUS
<1>4. /\ M # {} /\ fat' = Freed(fat, Ent[i].cl) /\ blk' = WithEntry(fat', cwd, i, Deleted)
      /\ damage' = (IF Orphans(M) THEN "remove_dir" ELSE "none") /\ cwd' = cwd
  BY <1>2, <1>3 DEF Remove
<1>5. i \in Slots /\ <<cwd, i>> \in PlacesOf(fat, blk)
  BY <1>1, <1>2, <1>3, <1>4, HitFacts DEF AnyKind
<1>6. PICK g, w : g = fat' /\ w = blk'
  OBVIOUS
<1>7. g = Freed(fat, Ent[i].cl) /\ w = WithEntry(g, cwd, i, Deleted)
  BY <1>4, <1>6
<1>8. /\ cwd \in LiveDirsOf(g, w) /\ Sound(g, w) /\ Named(g, w)
      /\ (Ent[i].kind = "dir" => ~HasEntries(Ent[i].cl)) => Covered(g, w) /\ Tree(g, w)
  BY <1>1, <1>5, <1>7, EraseEntry
<1>9. ~Orphans(M) => Covered(g, w) /\ Tree(g, w)
  BY <1>3, <1>4, <1>8 DEF Orphans
<1>10. Kept(g, w, cwd, damage')
  BY <1>4, <1>8, <1>9, SaneKept DEF TakesDir
<1> QED
  BY <1>4, <1>6, <1>10 DEF IInv

LEMMA RmdirKept ==
    ASSUME IInv, NEW nm \in Name, Rmdir(nm)
    PROVE  IInv'
<1>1. Sane /\ damage = "none"
  BY IntactSane DEF Rmdir, Intact
<1>2. PICK M : M = Matches(Ent, nm, {"dir"})
  OBVIOUS
<1>3. PICK i : i = Least(M)
  OBVIOUS
<1>4. /\ M # {} /\ fat' = Freed(fat, Ent[i].cl) /\ blk' = WithEntry(fat', cwd, i, Deleted)
      /\ damage' = damage /\ cwd' = cwd /\ EmptyDir(Ent[i].cl)
  BY <1>2, <1>3 DEF Rmdir
<1>5. i \in Slots /\ <<cwd, i>> \in PlacesOf(fat, blk) /\ Ent[i].kind = "dir"
      /\ AtOf(blk, <<cwd, i>>) = Ent[i]
  BY <1>1, <1>2, <1>3, <1>4, HitFacts
<1>6. PICK g, w : g = fat' /\ w = blk'
  OBVIOUS
<1>7. g = Freed(fat, Ent[i].cl) /\ w = WithEntry(g, cwd, i, Deleted)
  BY <1>4, <1>6
<1>8. /\ cwd \in LiveDirsOf(g, w) /\ Sound(g, w) /\ Named(g, w)
      /\ (Ent[i].kind = "dir" => ~HasEntries(Ent[i].cl)) => Covered(g, w) /\ Tree(g, w)
  BY <1>1, <1>5, <1>7, EraseEntry
<1>9. ~HasEntries(Ent[i].cl)
  <2>1. PICK c : c = Ent[i].cl
    OBVIOUS
  <2>2. PICK p : p = <<cwd, i>>
    OBVIOUS
  <2>3. c \in LiveDirsOf(fat, blk)
    BY <1>1, <1>5, <2>1, <2>2, PlaceFacts DEF Sane
  <2>4. Packed(blk[c].ent)
    BY <1>1, <2>3 DEF Sane, Sound
  <2>5. ASSUME NEW j \in Slots, Live(blk[c].ent[j]) PROVE FALSE
    <3>1. j \notin Scanned(blk[c].ent)
      BY <1>4, <2>1, <2>5 DEF EmptyDir
    <3>2. PICK l \in 1..j : blk[c].ent[l].kind = "end"
      BY <3>1 DEF Scanned
    <3>3. j \in Nat /\ l \in Slots /\ l <= j /\ l \in Nat
      BY SlotsNat, FatBounds DEF Slots
    <3>4. l # j
      BY <2>5, <3>2 DEF Live
    <3>5. blk[c].ent[j].kind = "end"
      BY <2>4, <3>2, <3>3, <3>4 DEF Packed
    <3> QED
      BY <2>5, <3>5 DEF Live
  <2> QED
    BY <2>1, <2>5 DEF HasEntries
<1>10. Kept(g, w, cwd, damage')
  BY <1>8, <1>9, SaneKept
<1> QED
  BY <1>4, <1>6, <1>10 DEF IInv

LEMMA RenameKept ==
    ASSUME IInv, NEW old \in Name, NEW new \in Name, Rename(old, new)
    PROVE  IInv'
<1>1. Sane
  BY IntactSane DEF Rename
<1>2. PICK M : M = Matches(Ent, old, AnyKind)
  OBVIOUS
<1>3. PICK i, nm, e : i = Least(M) /\ nm = Cut[new] /\ e = Renamed(Ent[i], nm)
  OBVIOUS
<1>4. /\ M # {} /\ fat' = fat /\ blk' = WithEntry(fat, cwd, i, e) /\ cwd' = cwd
      /\ damage' = (IF Matches(Ent, nm, AnyKind) \ {i} # {} THEN "rename_onto" ELSE "none")
  BY <1>2, <1>3 DEF Rename, Renamed, Taken83
<1>5. PICK p : p = <<cwd, i>>
  OBVIOUS
<1>6. /\ i \in Slots /\ p \in PlacesOf(fat, blk) /\ AtOf(blk, p) = Ent[i] /\ Ent[i] \in Entry
      /\ Live(Ent[i]) /\ p[1] = cwd /\ p[2] = i
  BY <1>1, <1>2, <1>3, <1>4, <1>5, HitFacts DEF AnyKind
<1>7. /\ fat \in Tables /\ blk \in [Dirs -> Block] /\ cwd \in Dirs /\ blk[cwd].is = "dir"
      /\ Sound(fat, blk) /\ Named(fat, blk) /\ Covered(fat, blk) /\ Tree(fat, blk)
      /\ cwd \in LiveDirsOf(fat, blk)
  BY <1>1, SaneFacts DEF Sane
<1>8. e \in Entry /\ nm \in Short /\ nm \in Name
  BY <1>3, <1>6, EntryFacts, CutShort
<1>9. PICK w : w = WithEntry(fat, cwd, i, e)
  OBVIOUS
<1>10. /\ w \in [Dirs -> Block] /\ w[cwd] = Edited(blk[cwd], i, e)
       /\ \A x \in Dirs \ {cwd} : x = Root \/ fat[x] # Free => w[x] = blk[x]
  <2>1. w \in [Dirs -> Block]
    BY <1>6, <1>7, <1>8, <1>9, WithEntryBlocks
  <2>2. /\ w[cwd] = Edited(blk[cwd], i, e)
        /\ \A x \in Dirs \ {cwd} : x = Root \/ fat[x] # Free => w[x] = blk[x]
    BY <1>7, <1>9 DEF WithEntry, Edited
  <2> QED
    BY <2>1, <2>2
<1>11. /\ LiveDirsOf(fat, w) = LiveDirsOf(fat, blk)
       /\ Sound(fat, w)
       /\ (\A j \in Slots \ {i} : Live(blk[cwd].ent[j]) => blk[cwd].ent[j].name # nm)
             => (Named(fat, blk) => Named(fat, w))
       /\ Covered(fat, blk) => Covered(fat, w)
       /\ Tree(fat, blk) => Tree(fat, w)
  <2>1. w[p[1]] = Edited(blk[p[1]], p[2], Renamed(AtOf(blk, p), nm))
    BY <1>3, <1>6, <1>10
  <2>2. \A x \in Dirs \ {p[1]} : x = Root \/ fat[x] # Free => w[x] = blk[x]
    BY <1>6, <1>10
  <2> QED
    BY <1>6, <1>7, <1>8, <1>10, <2>1, <2>2, RenameKeeps
<1>12. Matches(Ent, nm, AnyKind) \ {i} = {} => Named(fat, w)
  <2>1. Matches(Ent, nm, AnyKind) = {j \in Slots : Ent[j].kind \in AnyKind /\ Ent[j].name = nm}
    BY <1>7, <1>8, MatchFacts DEF AnyKind, Ent
  <2>2. Matches(Ent, nm, AnyKind) \ {i} = {} => \A j \in Slots \ {i} : Live(Ent[j]) => Ent[j].name # nm
    BY <2>1 DEF AnyKind, Live
  <2> QED
    BY <1>7, <1>11, <2>2 DEF Ent
<1>13. Kept(fat, w, cwd, damage')
  BY <1>4, <1>7, <1>11, <1>12, SaneKept DEF SameName
<1> QED
  BY <1>4, <1>9, <1>13 DEF IInv

(* alloc_cluster, once                                                     *)
LEMMA OnePicked ==
    ASSUME NEW f \in Tables, FreeClusters(f) # {}
    PROVE  /\ Picked(f, 1) = {Least(FreeClusters(f))} /\ First(f, 1) = Least(FreeClusters(f))
           /\ Least(FreeClusters(f)) \in Cluster /\ f[Least(FreeClusters(f))] = Free
           /\ 1 <= Cardinality(FreeClusters(f))
<1>1. PICK S, c : S = FreeClusters(f) /\ c = First(f, 1)
  OBVIOUS
<1>2. S \in SUBSET Cluster /\ S \subseteq Nat /\ S # {} /\ IsFiniteSet(S) /\ Cardinality(S) \in Nat
  BY <1>1, PickedFree, FatBounds, ClusterCount
<1>3. PICK l : l = Least(S)
  OBVIOUS
<1>4. l \in S /\ l \in Nat /\ \A y \in S : l <= y
  BY <1>2, <1>3, LeastIs
<1>5. Cardinality(S) # 0
  BY <1>2, FS_EmptySet
<1>6. 1 <= Cardinality(S)
  BY <1>2, <1>5
<1>7. Proper(Linked(f, 1), c, 1) /\ Chain(Linked(f, 1), c) = Picked(f, 1)
  BY <1>1, <1>6, LinkedChain
<1>8. Picked(f, 1) = {c}
  BY <1>7, ProperOne
<1>9. Below(S, l) = {}
  <2>1. \A x \in S : ~(x < l)
    BY <1>2, <1>4
  <2> QED
    BY <2>1 DEF Below
<1>10. Cardinality(Below(S, l)) = 0
  BY <1>9, FS_EmptySet
<1>11. l \in Picked(f, 1)
  BY <1>1, <1>2, <1>4, <1>10, PickedFree
<1> QED
  BY <1>1, <1>2, <1>3, <1>4, <1>6, <1>8, <1>11 DEF FreeClusters

LEMMA MkdirKept ==
    ASSUME IInv, NEW nm \in Name, Mkdir(nm)
    PROVE  IInv'
<1>1. Sane
  BY IntactSane DEF Mkdir
<1>2. PICK c, d, g, s : c = Least(FreeClusters(fat)) /\ d = cwd /\ g = Linked(fat, 1) /\ s = Cut[nm]
  OBVIOUS
<1>3. FreeClusters(fat) # {} /\ fat' = g /\ cwd' = d
  BY <1>2 DEF Mkdir
<1>4. /\ fat \in Tables /\ blk \in [Dirs -> Block] /\ d \in Dirs /\ blk[d].is = "dir"
      /\ Sound(fat, blk) /\ Named(fat, blk) /\ Covered(fat, blk) /\ Tree(fat, blk)
      /\ d \in LiveDirsOf(fat, blk) /\ (d = Root \/ (d \in Cluster /\ fat[d] # Free))
      /\ Ent = blk[d].ent
  BY <1>1, <1>2, SaneFacts DEF Sane, Ent
<1>5. /\ Picked(fat, 1) = {c} /\ First(fat, 1) = c /\ c \in Cluster /\ fat[c] = Free
      /\ 1 <= Cardinality(FreeClusters(fat))
  BY <1>2, <1>3, <1>4, OnePicked
<1>6. /\ g \in Tables /\ \A x \in Cluster \ {c} : g[x] = fat[x]
      /\ Proper(g, c, 1) /\ Chain(g, c) = {c}
  BY <1>2, <1>4, <1>5, LinkedChain
<1>7. /\ c \in Dirs /\ c # d /\ c # Root
      /\ DirBlock(d) \in Block /\ DirBlock(d).is = "dir" /\ DirBlock(d).up = d
      /\ \A j \in Slots : DirBlock(d).ent[j] = End
  BY <1>4, <1>5, FatBounds, NewBlocks DEF Dirs
<1>8. CASE /\ FreeSlots(Ent) # {} /\ damage' = IF Matches(Ent, s, AnyKind) # {} THEN "mkdir_cut" ELSE "none"
           /\ blk' = [WithEntry(fat, cwd, Least(FreeSlots(Ent)), DirEntry(s, c)) EXCEPT ![c] = DirBlock(cwd)]
  <2>1. PICK i, e, v : i = Least(FreeSlots(Ent)) /\ e = DirEntry(s, c) /\ v = WithEntry(fat, d, i, e)
    OBVIOUS
  <2>2. PICK w : w = blk'
    OBVIOUS
  <2>3. w = [v EXCEPT ![c] = DirBlock(d)]
    BY <1>2, <1>8, <2>1, <2>2
  <2>4. i \in Slots /\ ~Live(blk[d].ent[i]) /\ \A j \in Slots : j < i => blk[d].ent[j].kind # "end"
    BY <1>4, <1>8, <2>1, FreeSlot
  <2>5. e \in Entry /\ Live(e) /\ e.kind = "dir" /\ e.cl = c /\ e.name = s
    BY <1>2, <1>5, <2>1, NewEntries, CutShort
  <2>6. v \in [Dirs -> Block]
    BY <1>4, <2>1, <2>4, <2>5, WithEntryBlocks
  <2>7. /\ v[d] = Edited(blk[d], i, e)
        /\ \A x \in Dirs \ {d} : x = Root \/ fat[x] # Free => v[x] = blk[x]
    BY <1>4, <2>1 DEF WithEntry, Edited
  <2>8. /\ w \in [Dirs -> Block] /\ w[d] = Edited(blk[d], i, e) /\ w[c] = DirBlock(d)
        /\ \A x \in Dirs \ {c} : w[x] = v[x]
    BY <1>4, <1>7, <2>3, <2>6, <2>7
  <2>9. \A x \in Dirs \ {d} : x = Root \/ (x \notin {c} /\ g[x] # Free) => w[x] = blk[x]
    BY <1>6, <1>7, <2>7, <2>8 DEF Dirs
  <2>10. LeadsTo(g, w, d, e)
    BY <1>6, <1>7, <2>5, <2>8 DEF LeadsTo, Clusters
  <2>11. \A j \in Slots : w[e.cl].ent[j] = End
    BY <1>7, <2>5, <2>8
  <2>12. {c} = Chain(g, e.cl) /\ (\A x \in {c} : fat[x] = Free) /\ \A x \in Cluster \ {c} : g[x] = fat[x]
    BY <1>5, <1>6, <2>5
  <2>13. PICK N : N = {c}
    OBVIOUS
  <2>14. /\ N = Chain(g, e.cl) /\ (\A x \in N : fat[x] = Free) /\ (\A x \in Cluster \ N : g[x] = fat[x])
         /\ \A x \in Dirs \ {d} : x = Root \/ (x \notin N /\ g[x] # Free) => w[x] = blk[x]
    BY <2>9, <2>12, <2>13
  <2>15. /\ LiveDirsOf(g, w) = LiveDirsOf(fat, blk) \cup (IF e.kind = "dir" THEN {e.cl} ELSE {})
         /\ Sound(g, w)
         /\ (\A j \in Slots : Live(blk[d].ent[j]) => blk[d].ent[j].name # e.name)
               => (Named(fat, blk) => Named(g, w))
         /\ Covered(fat, blk) => Covered(g, w)
         /\ Tree(fat, blk) => Tree(g, w)
    BY <1>4, <1>6, <2>4, <2>5, <2>8, <2>10, <2>11, <2>14, AddKeeps
  <2>16. Matches(Ent, s, AnyKind) = {} => \A j \in Slots : Live(Ent[j]) => Ent[j].name # s
    <3>1. s \in Name
      BY <1>2, CutShort
    <3> QED
      BY <1>1, <3>1, HitFacts DEF AnyKind
  <2>17. d \in LiveDirsOf(g, w) /\ (Matches(Ent, s, AnyKind) = {} => Named(g, w))
         /\ Covered(g, w) /\ Tree(g, w)
    BY <1>4, <2>5, <2>15, <2>16
  <2>18. Kept(g, w, d, damage')
    BY <1>8, <2>15, <2>17, SaneKept DEF SameName
  <2> QED
    BY <1>3, <2>2, <2>18 DEF IInv
<1>9. CASE damage' = "mkdir_full" /\ blk' = [blk EXCEPT ![c] = DirBlock(cwd)]
  <2>1. PICK w : w = blk'
    OBVIOUS
  <2>2. w \in [Dirs -> Block] /\ w[c] = DirBlock(d) /\ \A x \in Dirs \ {c} : w[x] = blk[x]
    BY <1>2, <1>4, <1>7, <1>9, <2>1
  <2>3. Sound(g, w) /\ Named(g, w) /\ d \in LiveDirsOf(g, w)
    BY <1>4, <1>5, <1>6, <2>2, TakeKeeps
  <2>4. Kept(g, w, d, damage')
    BY <1>9, <2>3, SaneKept
  <2> QED
    BY <1>3, <2>1, <2>4 DEF IInv
<1> QED
  BY <1>2, <1>8, <1>9 DEF Mkdir, Taken83

(* A write that finds room, over an old file or not                        *)
LEMMA WriteRoomKept ==
    ASSUME IInv, NEW nm \in Name, NEW k \in Sizes, NEW v \in Val, Intact,
           NEW M, M = Matches(Ent, nm, AnyKind), M # {} \/ FreeSlots(Ent) # {},
           NEW f, f = Cleared(nm), Cardinality(FreeClusters(f)) >= k,
           NEW e, e = FileEntry(Cut[nm], First(f, k), k, v),
           NEW w, w = [c \in Dirs |-> IF c \in Picked(f, k) THEN DataBlock(v)
                                      ELSE WithEntry(f, cwd, Reused(Ent, nm), e)[c]]
    PROVE  /\ Sound(Linked(f, k), w) /\ cwd \in LiveDirsOf(Linked(f, k), w)
           /\ M # {} \/ Taken83(nm) = {} => Named(Linked(f, k), w)
           /\ ~Orphans(M) => Covered(Linked(f, k), w) /\ Tree(Linked(f, k), w)
<1>1. Sane /\ k \in Nat
  BY IntactSane, FatBounds
<1>2. PICK d, i, s : d = cwd /\ i = Reused(Ent, nm) /\ s = Cut[nm]
  OBVIOUS
<1>0. s \in Short /\ s \in Name
  BY <1>2, CutShort
<1>3. /\ fat \in Tables /\ blk \in [Dirs -> Block] /\ d \in Dirs /\ blk[d].is = "dir"
      /\ Sound(fat, blk) /\ Named(fat, blk) /\ Covered(fat, blk) /\ Tree(fat, blk)
      /\ d \in LiveDirsOf(fat, blk) /\ (d = Root \/ (d \in Cluster /\ fat[d] # Free))
      /\ Ent = blk[d].ent
  BY <1>1, <1>2, SaneFacts DEF Sane, Ent
(* The volume the new file goes to: the old one, or the old one without    *)
(* the entry that is replaced                                              *)
<1>4. PICK u : u = IF M = {} THEN blk ELSE WithEntry(f, d, i, Deleted)
  OBVIOUS
<1>5. /\ f \in Tables /\ u \in [Dirs -> Block] /\ u[d].is = "dir" /\ i \in Slots
      /\ Sound(f, u) /\ Named(f, u) /\ d \in LiveDirsOf(f, u)
      /\ ~Orphans(M) => Covered(f, u) /\ Tree(f, u)
      /\ ~Live(u[d].ent[i]) /\ \A j \in Slots : j < i => u[d].ent[j].kind # "end"
      /\ M # {} \/ Taken83(nm) = {} => \A j \in Slots : Live(u[d].ent[j]) => u[d].ent[j].name # s
      /\ Edited(u[d], i, e) = Edited(blk[d], i, e)
      /\ \A x \in Dirs \ {d} : x = Root \/ f[x] # Free => u[x] = blk[x]
  <2>1. CASE M = {}
    <3>1. f = fat /\ u = blk /\ i = Least(FreeSlots(Ent)) /\ FreeSlots(Ent) # {}
      BY <1>2, <1>4, <2>1 DEF Cleared, Reused
    <3>2. i \in Slots /\ ~Live(Ent[i]) /\ \A j \in Slots : j < i => Ent[j].kind # "end"
      BY <3>1, FreeSlot
    <3>3. Taken83(nm) = {} => \A j \in Slots : Live(Ent[j]) => Ent[j].name # s
      <4>1. PICK S : S = Matches(Ent, s, AnyKind)
        OBVIOUS
      <4>2. S = {} => \A j \in Slots : Live(Ent[j]) => Ent[j].name # s
        BY <1>0, <1>1, <4>1, HitFacts DEF AnyKind
      <4> QED
        BY <1>2, <4>1, <4>2 DEF Taken83
    <3> QED
      BY <1>3, <2>1, <3>1, <3>2, <3>3
  <2>2. CASE M # {}
    <3>1. i = Least(M) /\ f = Freed(fat, Ent[i].cl) /\ u = WithEntry(f, d, i, Deleted)
      BY <1>2, <1>4, <2>2 DEF Cleared, Reused
    <3>2. /\ i \in Slots /\ <<cwd, i>> \in PlacesOf(fat, blk) /\ Ent[i].name = nm
          /\ AtOf(blk, <<cwd, i>>) = Ent[i] /\ Live(Ent[i])
      BY <1>1, <2>2, <3>1, HitFacts DEF AnyKind
    <3>12. s = nm
      BY <1>1, <1>2, <3>2, SaneFacts, EntryFacts DEF Short
    <3>3. /\ f \in Tables /\ u \in [Dirs -> Block] /\ u[d] = Edited(blk[d], i, Deleted)
          /\ d \in LiveDirsOf(f, u) /\ Sound(f, u) /\ Named(f, u)
          /\ (Ent[i].kind = "dir" => ~HasEntries(Ent[i].cl)) => Covered(f, u) /\ Tree(f, u)
      BY <1>1, <1>2, <3>1, <3>2, EraseEntry
    <3>4. ~Orphans(M) => Covered(f, u) /\ Tree(f, u)
      BY <2>2, <3>1, <3>3 DEF Orphans
    <3>5. /\ u[d].is = "dir" /\ u[d].ent = [blk[d].ent EXCEPT ![i] = Deleted]
          /\ blk[d].ent \in [Slots -> Entry]
      BY <1>3, <3>2, <3>3, BlockFacts, NewEntries
    <3>6. u[d].ent[i] = Deleted /\ \A j \in Slots \ {i} : u[d].ent[j] = Ent[j]
      BY <1>3, <3>2, <3>5
    <3>7. ~Live(u[d].ent[i])
      BY <3>6, NewEntries
    <3>8. ASSUME NEW j \in Slots, j < i PROVE u[d].ent[j].kind # "end"
      <4>1. Packed(Ent) /\ Ent[i].kind # "end" /\ j # i
        BY <1>3, <3>2, <3>8, SlotsNat DEF Sound, Live
      <4>2. Ent[j].kind # "end"
        BY <3>2, <3>8, <4>1 DEF Packed
      <4> QED
        BY <3>6, <4>1, <4>2
    <3>9. ASSUME NEW j \in Slots, Live(u[d].ent[j]) PROVE u[d].ent[j].name # s
      <4>1. j # i /\ u[d].ent[j] = Ent[j] /\ Live(Ent[j])
        BY <3>6, <3>7, <3>9
      <4>2. PICK p, q : p = <<d, i>> /\ q = <<d, j>>
        OBVIOUS
      <4>3. q \in PlacesOf(fat, blk) /\ AtOf(blk, q) = Ent[j]
        BY <1>3, <4>1, <4>2 DEF PlacesOf, AtOf
      <4>4. p \in PlacesOf(fat, blk) /\ AtOf(blk, p) = Ent[i] /\ p # q /\ p[1] = q[1]
        BY <1>2, <3>2, <4>1, <4>2
      <4>5. AtOf(blk, q).name # AtOf(blk, p).name
        BY <1>3, <4>3, <4>4 DEF Named
      <4> QED
        BY <3>2, <3>12, <4>1, <4>3, <4>4, <4>5
    <3>10. Edited(u[d], i, e) = Edited(blk[d], i, e)
      <4>1. blk[d] \in [is : {"dir"}, ent : [Slots -> Entry], up : Dirs]
        BY <1>3 DEF Block, Unread, DataBlock
      <4> QED
        BY <3>2, <3>3, <4>1, ZenonT(60) DEF Edited
    <3>11. \A x \in Dirs \ {d} : x = Root \/ f[x] # Free => u[x] = blk[x]
      BY <3>1 DEF WithEntry
    <3> QED
      BY <3>2, <3>3, <3>4, <3>5, <3>7, <3>8, <3>9, <3>10, <3>11
  <2> QED
    BY <2>1, <2>2
<1>6. Picked(f, k) \subseteq Cluster /\ \A x \in Picked(f, k) : f[x] = Free
  BY PickedFree DEF FreeClusters
<1>7. d \notin Picked(f, k)
  BY <1>5, <1>6, FatBounds DEF LiveDirsOf
<1>8. /\ w[d] = Edited(u[d], i, e)
      /\ \A x \in Picked(f, k) : w[x] = DataBlock(v)
      /\ \A x \in Dirs \ {d} : x \notin Picked(f, k) /\ (x = Root \/ f[x] # Free) => w[x] = u[x]
  <2>1. w[d] = Edited(blk[d], i, e)
    BY <1>2, <1>3, <1>7 DEF WithEntry, Edited
  <2>2. \A x \in Picked(f, k) : w[x] = DataBlock(v)
    BY <1>6 DEF Dirs
  <2>3. \A x \in Dirs \ {d} : x \notin Picked(f, k) /\ (x = Root \/ f[x] # Free) => w[x] = blk[x]
    BY <1>2 DEF WithEntry
  <2> QED
    BY <1>5, <2>1, <2>2, <2>3
<1>9. w \in [Dirs -> Block]
  <2>1. PICK c, n : c = First(f, k) /\ n = Picked(f, k)
    OBVIOUS
  <2>2. Proper(Linked(f, k), c, k) /\ Chain(Linked(f, k), c) = n
    BY <1>1, <1>5, <2>1, LinkedChain
  <2>3. c \in Cluster \cup {0}
    BY <1>6, <2>1, <2>2, ProperFacts
  <2>4. e \in Entry
    BY <1>0, <1>1, <1>2, <2>1, <2>3, NewEntries
  <2>5. WithEntry(f, cwd, i, e) \in [Dirs -> Block]
    BY <1>2, <1>3, <1>5, <2>4, WithEntryBlocks
  <2>6. DataBlock(v) \in Block
    BY NewBlocks
  <2> QED
    BY <1>2, <2>5, <2>6
<1>10. PICK g : g = Linked(f, k)
  OBVIOUS
<1>11. /\ d \in LiveDirsOf(g, w) /\ Sound(g, w)
       /\ (\A j \in Slots : Live(u[d].ent[j]) => u[d].ent[j].name # s)
             => (Named(f, u) => Named(g, w))
       /\ Covered(f, u) => Covered(g, w)
       /\ Tree(f, u) => Tree(g, w)
  <2>1. k <= Cardinality(FreeClusters(f))
    <3>1. FreeClusters(f) \in SUBSET Cluster
      BY DEF FreeClusters
    <3>2. Cardinality(FreeClusters(f)) \in Nat
      BY <3>1, ClusterCount
    <3> QED
      BY <1>1, <3>2
  <2>2. e = FileEntry(s, First(f, k), k, v)
    BY <1>2
  <2> QED
    BY <1>0, <1>1, <1>5, <1>8, <1>9, <1>10, <2>1, <2>2, WriteKeeps
<1> QED
  BY <1>2, <1>5, <1>10, <1>11

LEMMA WriteKept ==
    ASSUME IInv, NEW nm \in Name, NEW k \in Sizes, NEW v \in Val, Write(nm, k, v)
    PROVE  IInv'
<1>1. Intact /\ Sane /\ cwd' = cwd
  BY IntactSane DEF Write
<1>2. PICK M, f : M = Matches(Ent, nm, AnyKind) /\ f = Cleared(nm)
  OBVIOUS
<1>3. M # {} \/ FreeSlots(Ent) # {}
  BY <1>2 DEF Write
<1>4. CASE /\ Cardinality(FreeClusters(f)) >= k
           /\ fat' = Linked(f, k)
           /\ blk' = [c \in Dirs |-> IF c \in Picked(f, k) THEN DataBlock(v)
                        ELSE WithEntry(f, cwd, Reused(Ent, nm), FileEntry(Cut[nm], First(f, k), k, v))[c]]
           /\ damage' = CASE Orphans(M) -> "overwrite_dir"
                          [] M = {} /\ Taken83(nm) # {} -> "write_cut"
                          [] OTHER -> "none"
  <2>1. PICK e, w : e = FileEntry(Cut[nm], First(f, k), k, v) /\ w = blk'
    OBVIOUS
  <2>2. w = [c \in Dirs |-> IF c \in Picked(f, k) THEN DataBlock(v)
                            ELSE WithEntry(f, cwd, Reused(Ent, nm), e)[c]]
    BY <1>4, <2>1
  <2>3. PICK g : g = Linked(f, k)
    OBVIOUS
  <2>4. /\ Sound(g, w) /\ cwd \in LiveDirsOf(g, w)
        /\ M # {} \/ Taken83(nm) = {} => Named(g, w)
        /\ ~Orphans(M) => Covered(g, w) /\ Tree(g, w)
    BY <1>1, <1>2, <1>3, <1>4, <2>1, <2>2, <2>3, WriteRoomKept
  <2>5. /\ Orphans(M) => damage' = "overwrite_dir" /\ M # {}
        /\ ~Orphans(M) /\ M = {} /\ Taken83(nm) # {} => damage' = "write_cut"
    BY <1>4 DEF Orphans
  <2>6. /\ damage' \notin SameName => Named(g, w)
        /\ damage' \notin TakesDir \cup DotCauses \cup {"mkdir_full"} => Covered(g, w) /\ Tree(g, w)
    BY <2>4, <2>5 DEF SameName, TakesDir
  <2>7. Kept(g, w, cwd, damage')
    BY <2>4, <2>6, SaneKept
  <2> QED
    BY <1>1, <1>4, <2>1, <2>3, <2>7 DEF IInv
<1>5. CASE /\ fat' = f /\ blk' = blk
           /\ damage' = IF Orphans(M) THEN "overwrite_dir_nospace"
                        ELSE IF M # {} /\ Ent[Least(M)].cl # 0 THEN "overwrite_nospace" ELSE "none"
  <2>1. CASE M = {}
    <3>1. f = fat /\ damage' = "none"
      BY <1>2, <1>5, <2>1 DEF Cleared, Orphans
    <3>2. Kept(fat, blk, cwd, damage')
      BY <1>1, <3>1, SaneKept DEF Sane
    <3> QED
      BY <1>1, <1>5, <3>1, <3>2 DEF IInv
  <2>2. CASE M # {}
    <3>1. PICK i, p : i = Least(M) /\ p = <<cwd, i>>
      OBVIOUS
    <3>2. f = Freed(fat, Ent[i].cl)
      BY <1>2, <2>2, <3>1 DEF Cleared
    <3>3. /\ p \in PlacesOf(fat, blk) /\ p[1] = cwd
          /\ AtOf(blk, p) = Ent[i] /\ Live(Ent[i]) /\ Ent[i] \in Entry
      BY <1>1, <1>2, <2>2, <3>1, HitFacts DEF AnyKind
    <3>4. /\ Sound(fat, blk) /\ Named(fat, blk) /\ Covered(fat, blk) /\ Tree(fat, blk)
          /\ cwd \in LiveDirsOf(fat, blk) /\ fat \in Tables
      BY <1>1, SaneFacts DEF Sane
    <3>5. /\ LiveDirsOf(f, blk) = LiveDirsOf(fat, blk) \ Owns(fat, blk, p)
          /\ Named(fat, blk) => Named(f, blk)
          /\ AtOf(blk, p).cl # 0 => Readable(f, blk, "overwrite_nospace")
          /\ (AtOf(blk, p).kind = "dir" => \A j \in Slots : ~Live(blk[AtOf(blk, p).cl].ent[j]))
                => (Covered(fat, blk) => Covered(f, blk)) /\ Tree(f, blk)
      <4>1. f = Freed(fat, AtOf(blk, p).cl)
        BY <3>2, <3>3
      <4> QED
        BY <3>3, <3>4, <4>1, NoRoomKeeps
    <3>6. p[1] \notin Owns(fat, blk, p)
      BY <3>3, <3>4, NotWithin
    <3>7. cwd \in LiveDirsOf(f, blk)
      BY <3>3, <3>4, <3>5, <3>6
    <3>8. ~Orphans(M) => Covered(f, blk) /\ Tree(f, blk)
      <4>1. ~Orphans(M) => (Ent[i].kind = "dir" => \A j \in Slots : ~Live(blk[Ent[i].cl].ent[j]))
        BY <2>2, <3>1 DEF Orphans, HasEntries
      <4> QED
        BY <3>3, <3>4, <3>5, <4>1
    <3>9. Ent[i].cl = 0 => f = fat
      <4>1. ASSUME Ent[i].cl = 0 PROVE f = fat
        <5>1. Ent[i].kind # "dir"
          BY <3>3, <4>1, EntryFacts, FatBounds
        <5>2. Proper(fat, 0, Clusters(Ent[i]))
          BY <3>3, <3>4, <4>1, PlaceFacts
        <5>3. 0 \notin Chain(fat, 0)
          BY <5>2, ProperFacts, FatBounds
        <5>4. Clusters(Ent[i]) = 0
          BY <5>2, <5>3, ProperFacts
        <5>5. Chain(fat, 0) = {}
          BY <5>2, <5>4, ProperFacts
        <5> QED
          BY <3>2, <3>4, <4>1, <5>5 DEF Freed, Tables
      <4> QED
        BY <4>1
    <3>13. Orphans(M) => Ent[i].cl # 0
      BY <2>2, <3>1, <3>3, EntryFacts, FatBounds DEF Orphans
    <3>14. \A dm \in NoRoom : Ent[i].cl # 0 => Readable(f, blk, dm)
      BY <3>3, <3>5 DEF Readable, NoRoom
    <3>10. CASE Orphans(M)
      <4>1. damage' = "overwrite_dir_nospace" /\ Readable(f, blk, damage')
        BY <1>5, <3>10, <3>13, <3>14 DEF NoRoom
      <4>2. Kept(f, blk, cwd, damage')
        BY <3>4, <3>5, <3>7, <4>1 DEF Kept, NoRoom, TakesDir
      <4> QED
        BY <1>1, <1>5, <4>2 DEF IInv
    <3>11. CASE ~Orphans(M) /\ Ent[i].cl # 0
      <4>1. damage' = "overwrite_nospace"
        BY <1>5, <2>2, <3>1, <3>11
      <4>3. Readable(f, blk, damage')
        BY <3>11, <3>14, <4>1 DEF NoRoom
      <4>2. Kept(f, blk, cwd, damage')
        BY <3>4, <3>5, <3>7, <3>8, <3>11, <4>1, <4>3 DEF Kept, NoRoom
      <4> QED
        BY <1>1, <1>5, <4>2 DEF IInv
    <3>12. CASE ~Orphans(M) /\ Ent[i].cl = 0
      <4>1. damage' = "none" /\ f = fat
        BY <1>5, <3>1, <3>9, <3>12
      <4>2. Kept(fat, blk, cwd, damage')
        BY <1>1, <4>1, SaneKept DEF Sane
      <4> QED
        BY <1>1, <1>5, <4>1, <4>2 DEF IInv
    <3> QED
      BY <3>10, <3>11, <3>12
  <2> QED
    BY <2>1, <2>2
<1> QED
  BY <1>2, <1>4, <1>5 DEF Write, First

(* The empty chain: the root directory has no cluster to free.             *)
LEMMA NoChain ==
    ASSUME NEW f \in Tables
    PROVE  Freed(f, Root) = f
<1>1. IsChain(f, 0, 0, <<>>)
  BY FatBounds DEF IsChain
<1>2. Chain(f, 0) = {}
  BY <1>1, ProperFacts DEF Proper
<1> QED
  BY <1>2 DEF Freed, Root, Tables

(* The directory "." or ".." leads to, and what is freed with it           *)
DirClusters(c) == IF c = Root THEN {} ELSE {c}

LEMMA OwnFacts ==
    ASSUME Sane, cwd # Root, NEW dot \in Dots, NEW c, c = Own(dot)
    PROVE  /\ c \in LiveDirsOf(fat, blk)
           /\ DirClusters(c) \in SUBSET Cluster /\ Freed(fat, c) \in Tables
           /\ SparesFiles(fat, blk, DirClusters(c))
           /\ \A x \in Cluster : Freed(fat, c)[x] = IF x \in DirClusters(c) THEN Free ELSE fat[x]
<1>1. /\ Sound(fat, blk) /\ Tree(fat, blk) /\ cwd \in LiveDirsOf(fat, blk) /\ fat \in Tables
  BY SaneFacts DEF Sane
<1>2. c \in LiveDirsOf(fat, blk)
  BY <1>1 DEF Own, Tree, Dots
<1>3. Freed(fat, c) \in Tables
  BY <1>1, FreedIs
<1>4. CASE c = Root
  <2>1. DirClusters(c) = {} /\ Freed(fat, c) = fat
    BY <1>1, <1>4, NoChain DEF DirClusters
  <2>2. SparesFiles(fat, blk, DirClusters(c))
    BY <2>1 DEF SparesFiles
  <2> QED
    BY <1>2, <1>3, <2>1, <2>2
<1>5. CASE c # Root
  <2>1. PICK u : u = blk[c].up
    OBVIOUS
  <2>2. PICK i \in Slots : blk[u].ent[i].kind = "dir" /\ blk[u].ent[i].cl = c
    BY <1>1, <1>2, <1>5, <2>1 DEF Tree
  <2>3. u \in LiveDirsOf(fat, blk)
    BY <1>1, <1>2, <1>5, <2>1 DEF Tree
  <2>4. PICK p : p = <<u, i>>
    OBVIOUS
  <2>5. p \in PlacesOf(fat, blk) /\ AtOf(blk, p).kind = "dir" /\ AtOf(blk, p).cl = c
    BY <2>2, <2>3, <2>4 DEF PlacesOf, AtOf, Live
  <2>6. Owns(fat, blk, p) = {c} /\ c \in Cluster /\ Chain(fat, c) = {c}
    BY <1>1, <2>5, PlaceFacts DEF Owns
  <2>7. SparesFiles(fat, blk, {c})
    BY <1>1, <2>5, <2>6 DEF Sound, SparesFiles
  <2>8. \A x \in Cluster : Freed(fat, c)[x] = IF x \in {c} THEN Free ELSE fat[x]
    BY <1>1, <2>6, FreedIs
  <2>9. DirClusters(c) = {c}
    BY <1>5 DEF DirClusters
  <2> QED
    BY <1>2, <1>3, <2>6, <2>7, <2>8, <2>9
<1> QED
  BY <1>4, <1>5

(* A directory's cluster freed under it                                    *)
LEMMA DotLeaves ==
    ASSUME Sane, cwd # Root, NEW dot \in Dots, NEW c, c = Own(dot), NEW g, NEW w,
           w[Root] = blk[Root],
           \A x \in Cluster : Freed(fat, c)[x] # Free => g[x] = Freed(fat, c)[x] /\ w[x] = blk[x],
           \A x \in Cluster : Freed(fat, c)[x] = Free => w[x].is # "dir"
    PROVE  Kept(g, w, cwd, DotDamage(c))
<1>1. /\ Sound(fat, blk) /\ Named(fat, blk) /\ cwd \in LiveDirsOf(fat, blk)
  BY DEF Sane
<1>8. PICK F : F = DirClusters(c)
  OBVIOUS
<1>2. /\ F \in SUBSET Cluster /\ SparesFiles(fat, blk, F)
      /\ \A x \in Cluster : Freed(fat, c)[x] = IF x \in F THEN Free ELSE fat[x]
  BY <1>8, OwnFacts
<1>3. \A x \in Cluster \ F : fat[x] # Free => g[x] = fat[x] /\ w[x] = blk[x]
  BY <1>2
<1>4. \A x \in Cluster : x \in F \/ fat[x] = Free => w[x].is # "dir"
  BY <1>2
<1>5. /\ LiveDirsOf(g, w) = LiveDirsOf(fat, blk) \ F
      /\ Named(fat, blk) => Named(g, w)
      /\ \A dm : Readable(g, w, dm)
  <2>1. FreedUnder(fat, blk, F, g, w)
    BY <1>3, <1>4 DEF FreedUnder
  <2> QED
    BY <1>1, <1>2, <2>1, DotKeeps
<1>6. DotDamage(c) \in DotCauses /\ (c = cwd => DotDamage(c) = "own_dir")
  BY DEF DotDamage, DotCauses
<1>7. cwd \in LiveDirsOf(g, w) \/ DotDamage(c) = "own_dir"
  BY <1>1, <1>5, <1>6, <1>8 DEF DirClusters
<1> QED
  BY <1>1, <1>5, <1>6, <1>7 DEF Kept

LEMMA FreesDirKept ==
    ASSUME Sane, cwd # Root, NEW dot \in Dots, FreesDir(Own(dot))
    PROVE  IInv'
<1>1. PICK c, f, w : c = Own(dot) /\ f = Freed(fat, c) /\ w = blk'
  OBVIOUS
<1>2. /\ fat' = f /\ cwd' = cwd /\ damage' = DotDamage(c)
      /\ w = [x \in Dirs |-> IF x # Root /\ f[x] = Free THEN Unread ELSE blk[x]]
  BY <1>1 DEF FreesDir
<1>3. w[Root] = blk[Root] /\ \A x \in Cluster : w[x] = IF f[x] = Free THEN Unread ELSE blk[x]
  BY <1>2, FatBounds DEF Dirs
<1>4. \A x \in Cluster : f[x] = Free => w[x].is # "dir"
  BY <1>3, NewBlocks
<1>5. Kept(f, w, cwd, DotDamage(c))
  BY <1>1, <1>3, <1>4, DotLeaves
<1> QED
  BY <1>1, <1>2, <1>5 DEF IInv

LEMMA WriteDotKept ==
    ASSUME IInv, NEW dot \in Dots, NEW k \in Sizes, NEW v \in Val, WriteDot(dot, k, v)
    PROVE  IInv'
<1>1. Sane /\ cwd # Root
  BY IntactSane DEF WriteDot
<1>2. PICK c, f, w : c = Own(dot) /\ f = Freed(fat, c) /\ w = blk'
  OBVIOUS
<1>3. CASE /\ Cardinality(FreeClusters(f)) >= k
           /\ fat' = Linked(f, k) /\ cwd' = cwd /\ damage' = DotDamage(c)
           /\ w = [x \in Dirs |-> IF x \in Picked(f, k) THEN DataBlock(v)
                                  ELSE IF x # Root /\ f[x] = Free THEN Unread ELSE blk[x]]
  <2>1. PICK g : g = Linked(f, k)
    OBVIOUS
  <2>2. f \in Tables
    BY <1>1, <1>2, OwnFacts
  <2>3. Picked(f, k) \subseteq Cluster /\ \A x \in Picked(f, k) : f[x] = Free
    BY PickedFree DEF FreeClusters
  <2>4. w[Root] = blk[Root]
    BY <1>3, <2>3, FatBounds DEF Dirs
  <2>5. \A x \in Cluster : f[x] # Free => g[x] = f[x] /\ w[x] = blk[x]
    BY <1>3, <2>1, <2>3, FatBounds DEF Linked, Dirs
  <2>6. \A x \in Cluster : f[x] = Free => w[x].is # "dir"
    <3>1. \A x \in Cluster : f[x] = Free => w[x] \in {Unread, DataBlock(v)}
      BY <1>3, FatBounds DEF Dirs
    <3> QED
      BY <3>1, NewBlocks
  <2>7. Kept(g, w, cwd, DotDamage(c))
    BY <1>1, <1>2, <2>4, <2>5, <2>6, DotLeaves
  <2> QED
    BY <1>2, <1>3, <2>1, <2>7 DEF IInv
<1>4. CASE FreesDir(Own(dot))
  BY <1>1, <1>4, FreesDirKept
<1> QED
  BY <1>2, <1>3, <1>4 DEF WriteDot

LEMMA RenameDotKept ==
    ASSUME IInv, RenameDot
    PROVE  IInv'
<1>1. Sane /\ fat' = fat /\ blk' = blk /\ cwd' = cwd /\ damage' = "dot_name"
  BY IntactSane DEF RenameDot
<1>2. Kept(fat, blk, cwd, "dot_name")
  BY <1>1, SaneKept DEF Sane, SameName
<1> QED
  BY <1>1, <1>2 DEF IInv

-----------------------------------------------------------------------------
(* What the invariant says of the properties                               *)

LEMMA NextKept == IInv /\ [Next]_vars => IInv'
<1> SUFFICES ASSUME IInv, [Next]_vars PROVE IInv'
  OBVIOUS
<1>1. CASE CdUp
  BY <1>1, CdUpKept
<1>2. CASE CdRoot
  BY <1>2, CdRootKept
<1>3. ASSUME NEW nm \in Name, Cd(nm) PROVE IInv'
  BY <1>3, CdKept
<1>4. ASSUME NEW nm \in Name, Remove(nm) PROVE IInv'
  BY <1>4, RemoveKept
<1>5. ASSUME NEW nm \in Name, Mkdir(nm) PROVE IInv'
  BY <1>5, MkdirKept
<1>6. ASSUME NEW nm \in Name, Rmdir(nm) PROVE IInv'
  BY <1>6, RmdirKept
<1>7. ASSUME NEW nm \in Name, NEW k \in Sizes, NEW v \in Val, Write(nm, k, v) PROVE IInv'
  BY <1>7, WriteKept
<1>8. ASSUME NEW old \in Name, NEW new \in Name, Rename(old, new) PROVE IInv'
  BY <1>8, RenameKept
<1>10. ASSUME NEW dot \in Dots, RemoveDot(dot) PROVE IInv'
  BY <1>10, FreesDirKept, IntactSane DEF RemoveDot
<1>11. ASSUME NEW dot \in Dots, RmdirDot(dot) PROVE IInv'
  BY <1>11, FreesDirKept, IntactSane DEF RmdirDot
<1>12. ASSUME NEW dot \in Dots, NEW k \in Sizes, NEW v \in Val, WriteDot(dot, k, v) PROVE IInv'
  BY <1>12, WriteDotKept
<1>13. CASE RenameDot
  BY <1>13, RenameDotKept
<1>14. CASE Operation
  BY <1>1, <1>2, <1>3, <1>4, <1>5, <1>6, <1>7, <1>8, <1>14 DEF Operation
<1>15. CASE DotCall
  BY <1>10, <1>11, <1>12, <1>13, <1>15 DEF DotCall
<1>9. CASE UNCHANGED vars
  BY <1>9 DEF vars, IInv
<1> QED
  BY <1>9, <1>14, <1>15 DEF Next

LEMMA Always == Spec => []IInv
<1>1. Init => IInv
  BY InitKept
<1>2. IInv /\ [Next]_vars => IInv'
  BY NextKept
<1> QED
  BY <1>1, <1>2, PTL DEF Spec

LEMMA SamePlaces ==
    /\ LiveDirs = LiveDirsOf(fat, blk) /\ Places = PlacesOf(fat, blk)
    /\ \A p : At(p) = AtOf(blk, p)
  BY DEF LiveDirs, LiveDirsOf, Places, PlacesOf, At, AtOf

(* What open copies out of a file that is whole                            *)
LEMMA ReadBack ==
    ASSUME NEW p, NEW d, LeadsTo(fat, blk, d, AtOf(blk, p)), AtOf(blk, p).kind = "file"
    PROVE  Opened(AtOf(blk, p)) = [n \in 1..AtOf(blk, p).size |-> DataBlock(AtOf(blk, p).val)]
<1>1. PICK e, n, s : e = AtOf(blk, p) /\ n = e.size /\ s = Walk(fat, e.cl)
  OBVIOUS
<1>2. Proper(fat, e.cl, n) /\ \A c \in Chain(fat, e.cl) : blk[c] = DataBlock(e.val)
  BY <1>1 DEF LeadsTo, Clusters
<1>3. s \in [1..n -> Cluster] /\ Chain(fat, e.cl) = {s[i] : i \in 1..n}
  BY <1>1, <1>2, ProperFacts
<1>4. \A i \in 1..n : blk[s[i]] = DataBlock(e.val)
  BY <1>2, <1>3
<1>5. Opened(e) = [i \in DOMAIN s |-> blk[s[i]]]
  BY <1>1 DEF Opened
<1>6. DOMAIN s = 1..n
  BY <1>3
<1>7. Opened(e) = [i \in 1..n |-> DataBlock(e.val)]
  BY <1>4, <1>5, <1>6
<1> QED
  BY <1>1, <1>7

(* Space is never lost by cd, write to a file, rename, rmdir, or remove of *)
(* a file: a cluster that no entry leads to comes from a mkdir in a full   *)
(* directory, which takes its cluster before it looks for a slot, from     *)
(* removing or overwriting a directory with its files still in it, or from *)
(* a call on "." or "..".                                                  *)
THEOREM LeaksHaveCause == Spec => []LeakCause
<1>1. IInv => LeakCause
  <2> SUFFICES ASSUME IInv, damage \notin TakesDir \cup DotCauses \cup {"mkdir_full"} PROVE Leaked = {}
    BY DEF LeakCause
  <2>1. Covered(fat, blk)
    BY DEF IInv, Kept
  <2>2. \A c \in Cluster : fat[c] # Free => \E p \in Places : c \in Chain(fat, At(p).cl)
    BY <2>1, SamePlaces DEF Covered, Owns
  <2> QED
    BY <2>2 DEF Leaked
<1> QED
  BY <1>1, Always, PTL

(* Whatever is written, removed, created and renamed in between, "." and   *)
(* ".." included, the chain of a file has as many clusters as were written *)
(* and each holds what was written: alloc_cluster never hands out a        *)
(* cluster that a file's entry leads to.  A write that finds no room       *)
(* empties the file it was to replace and no other.                        *)
THEOREM FilesAlwaysReadBack == Spec => []FilesReadBack
<1>1. IInv => FilesReadBack
  <2> SUFFICES ASSUME IInv, NEW p \in Places, At(p).kind = "file", ~Emptied(p)
               PROVE  Opened(At(p)) = [n \in 1..At(p).size |-> DataBlock(At(p).val)]
    BY DEF FilesReadBack
  <2>1. Readable(fat, blk, damage)
    BY DEF IInv, Kept
  <2>2. p \in PlacesOf(fat, blk) /\ AtOf(blk, p) = At(p)
    BY SamePlaces
  <2>3. LeadsTo(fat, blk, p[1], AtOf(blk, p))
    BY <2>1, <2>2 DEF Readable, Emptied
  <2> QED
    BY <2>2, <2>3, ReadBack
<1> QED
  BY <1>1, Always, PTL

(* The scan that ends at the end mark misses no entry, so write and mkdir  *)
(* find a name that is stored as it is given; a directory has a name twice *)
(* only after a rename, which does not look, or after a write or mkdir of  *)
(* a name whose 8.3 cut, which is what is stored, was there already.       *)
THEOREM NamesStayUnique == Spec => []NamesUnique
<1>1. IInv => NamesUnique
  BY SamePlaces DEF IInv, Kept, Named, NamesUnique
<1> QED
  BY <1>1, Always, PTL

(* The kernel's one current directory dies by rmdir, remove or write of    *)
(* "." and by nothing else, and cd .. leads from a directory to the one    *)
(* that has its entry, until a directory was removed or overwritten with   *)
(* others in it, left without an entry, or called "." or "..".             *)
THEOREM TreeAlwaysLinked == Spec => []TreeLinked
<1>1. IInv => TreeLinked
  <2> SUFFICES ASSUME IInv
               PROVE  /\ cwd \in LiveDirs \/ damage = "own_dir"
                      /\ damage \notin TakesDir \cup DotCauses \cup {"mkdir_full"} =>
                         \A c \in LiveDirs \ {Root} :
                            /\ \E i \in Slots : LET e == blk[blk[c].up].ent[i] IN e.kind = "dir" /\ e.cl = c
                            /\ blk[c].up \in LiveDirs
    BY DEF TreeLinked
  <2>1. /\ cwd \in LiveDirsOf(fat, blk) \/ damage = "own_dir"
        /\ damage \notin TakesDir \cup DotCauses \cup {"mkdir_full"} => Tree(fat, blk)
    BY DEF IInv, Kept
  <2> QED
    BY <2>1, SamePlaces DEF Tree
<1> QED
  BY <1>1, Always, PTL

=============================================================================
