--------------------------- MODULE KeyboardProofs ---------------------------
(***************************************************************************)
(* Proofs about Keyboard: with interrupts masked in SYS_READ, the mouse    *)
(* driver stays in step with the mouse, and the drivers implement          *)
(* KeyQueue, for any size of ring, event ring and controller.              *)
(***************************************************************************)
EXTENDS Keyboard, SequenceTheorems, FiniteSetTheorems, TLAPS

-----------------------------------------------------------------------------
(* Finite sets of places and their elements by rank.                       *)

LEMMA UpToFinite ==
    ASSUME NEW m \in Nat, NEW S \in SUBSET (1..m)
    PROVE  /\ IsFiniteSet(S) /\ Cardinality(S) \in Nat
           /\ \A i \in S : /\ i \in Nat /\ IsFiniteSet(UpTo(S, i)) /\ Cardinality(UpTo(S, i)) \in Nat
                           /\ Cardinality(UpTo(S, i)) \in 1..Cardinality(S)
<1>1. IsFiniteSet(1..m)
  BY FS_Interval
<1>2. IsFiniteSet(S) /\ Cardinality(S) \in Nat
  BY <1>1, FS_Subset, FS_CardinalityType
<1>3. ASSUME NEW i \in S
      PROVE  /\ i \in Nat /\ IsFiniteSet(UpTo(S, i)) /\ Cardinality(UpTo(S, i)) \in Nat
             /\ Cardinality(UpTo(S, i)) \in 1..Cardinality(S)
  <2>1. UpTo(S, i) \subseteq S
    BY DEF UpTo
  <2>2. /\ IsFiniteSet(UpTo(S, i)) /\ Cardinality(UpTo(S, i)) \in Nat
        /\ Cardinality(UpTo(S, i)) <= Cardinality(S)
    BY <1>2, <2>1, FS_Subset, FS_CardinalityType
  <2>3. i \in UpTo(S, i)
    BY DEF UpTo
  <2>4. Cardinality(UpTo(S, i)) # 0
    BY <2>2, <2>3, FS_EmptySet
  <2> QED
    BY <1>2, <2>2, <2>4
<1> QED
  BY <1>2, <1>3

LEMMA RankUnique ==
    ASSUME NEW m \in Nat, NEW S \in SUBSET (1..m), NEW i \in S, NEW k \in S, i < k
    PROVE  Cardinality(UpTo(S, i)) < Cardinality(UpTo(S, k))
<1>1. /\ IsFiniteSet(UpTo(S, i)) /\ IsFiniteSet(UpTo(S, k))
      /\ Cardinality(UpTo(S, i)) \in Nat /\ Cardinality(UpTo(S, k)) \in Nat
  BY UpToFinite
<1>2. UpTo(S, i) \subseteq UpTo(S, k) /\ k \in UpTo(S, k) /\ k \notin UpTo(S, i)
  BY DEF UpTo
<1> QED
  BY <1>1, <1>2, FS_Subset

LEMMA RankExists ==
    ASSUME NEW m \in Nat, NEW S \in SUBSET (1..m), NEW n \in 1..Cardinality(S)
    PROVE  \E i \in S : Cardinality(UpTo(S, i)) = n
<1> DEFINE C == Cardinality(S)
           T == (1..C) \ {n}
           f == [i \in S |-> Cardinality(UpTo(S, i))]
<1>1. IsFiniteSet(S) /\ C \in Nat /\ \A i \in S : f[i] \in 1..C
  BY UpToFinite
<1>2. IsFiniteSet(1..C) /\ Cardinality(1..C) = C
  BY <1>1, FS_Interval
<1>3. IsFiniteSet(T) /\ Cardinality(T) = C - 1
  BY <1>2, FS_RemoveElement
<1>4. ASSUME \A i \in S : f[i] # n PROVE FALSE
  <2>1. f \in [S -> T]
    BY <1>1, <1>4
  <2>2. Cardinality(T) < Cardinality(S)
    BY <1>1, <1>3
  <2> HIDE DEF T, f
  <2>3. PICK x, y \in S : x # y /\ f[x] = f[y]
    BY <1>1, <1>3, <2>1, <2>2, FS_PigeonHole
  <2>4. x \in Nat /\ y \in Nat
    OBVIOUS
  <2>5. Cardinality(UpTo(S, x)) = Cardinality(UpTo(S, y))
    BY <2>3 DEF f
  <2>6. Cardinality(UpTo(S, x)) \in Nat /\ Cardinality(UpTo(S, y)) \in Nat
    BY UpToFinite
  <2>7. x < y => Cardinality(UpTo(S, x)) < Cardinality(UpTo(S, y))
    BY RankUnique
  <2>8. y < x => Cardinality(UpTo(S, y)) < Cardinality(UpTo(S, x))
    BY RankUnique
  <2> QED
    BY <2>3, <2>4, <2>5, <2>6, <2>7, <2>8
<1> QED
  BY <1>4

LEMMA NthIs ==
    ASSUME NEW m \in Nat, NEW S \in SUBSET (1..m), NEW i \in S, NEW n,
           Cardinality(UpTo(S, i)) = n
    PROVE  Nth(S, n) = i
<1>1. PICK k : k = Nth(S, n)
  OBVIOUS
<1>2. k \in S /\ Cardinality(UpTo(S, k)) = n
  BY <1>1 DEF Nth
<1>3. i \in Nat /\ k \in Nat /\ Cardinality(UpTo(S, k)) \in Nat
  BY <1>2, UpToFinite
<1>4. i < k => Cardinality(UpTo(S, i)) < Cardinality(UpTo(S, k))
  BY <1>2, RankUnique
<1>5. k < i => Cardinality(UpTo(S, k)) < Cardinality(UpTo(S, i))
  BY <1>2, RankUnique
<1> QED
  BY <1>1, <1>2, <1>3, <1>4, <1>5

(* Counting does not mind a shift.                                         *)
Shift(S) == {i + 1 : i \in S}

LEMMA ShiftCount ==
    ASSUME NEW m \in Nat, NEW S \in SUBSET (1..m)
    PROVE  IsFiniteSet(Shift(S)) /\ Cardinality(Shift(S)) = Cardinality(S)
<1> DEFINE f == [i \in S |-> i + 1]
<1>1. IsFiniteSet(S)
  BY UpToFinite
<1>2. f \in Bijection(S, Shift(S))
  BY DEF Bijection, Injection, Surjection, Shift, IsInjective
<1> HIDE DEF f
<1>3. ExistsBijection(S, Shift(S))
  BY <1>2 DEF ExistsBijection
<1> QED
  BY <1>1, <1>3, FS_Bijection

-----------------------------------------------------------------------------
(* Bytes: how a byte behind or in front of the others changes what they    *)
(* hold for each driver.                                                   *)

LEMMA ByteType ==
    /\ \A b \in Byte : b.aux \in BOOLEAN /\ (~b.aux => b.val \in Code) /\ (b.aux => b.val \in BOOLEAN)
    /\ \A c \in Code : [aux |-> FALSE, val |-> c] \in Byte
    /\ \A v \in BOOLEAN : [aux |-> TRUE, val |-> v] \in Byte
  BY DEF Byte

LEMMA SeqFacts ==
    ASSUME NEW q \in Seq(Byte), NEW b \in Byte
    PROVE  /\ Len(q) \in Nat /\ DOMAIN q = 1..Len(q) /\ \A i \in 1..Len(q) : q[i] \in Byte
           /\ Append(q, b) \in Seq(Byte) /\ Len(Append(q, b)) = Len(q) + 1
           /\ Append(q, b)[Len(q) + 1] = b /\ \A i \in 1..Len(q) : Append(q, b)[i] = q[i]
           /\ <<b>> \o q \in Seq(Byte) /\ Len(<<b>> \o q) = Len(q) + 1
           /\ (<<b>> \o q)[1] = b /\ \A i \in 1..Len(q) : (<<b>> \o q)[i + 1] = q[i]
<1>1. <<b>> \in Seq(Byte) /\ Len(<<b>>) = 1 /\ <<b>>[1] = b
  OBVIOUS
<1> QED
  BY <1>1

LEMMA PlacesFinite ==
    ASSUME NEW q \in Seq(Byte)
    PROVE  /\ KeyPlaces(q) \in SUBSET (1..Len(q)) /\ MousePlaces(q) \in SUBSET (1..Len(q))
           /\ Len(q) \in Nat /\ Cardinality(KeyPlaces(q)) \in Nat /\ Cardinality(MousePlaces(q)) \in Nat
<1>1. /\ KeyPlaces(q) \in SUBSET (1..Len(q)) /\ MousePlaces(q) \in SUBSET (1..Len(q)) /\ Len(q) \in Nat
  BY DEF KeyPlaces, MousePlaces
<1> QED
  BY <1>1, UpToFinite

LEMMA PlacesAppend ==
    ASSUME NEW q \in Seq(Byte), NEW b \in Byte
    PROVE  /\ KeyPlaces(Append(q, b)) = KeyPlaces(q) \cup (IF b.aux THEN {} ELSE {Len(q) + 1})
           /\ MousePlaces(Append(q, b)) = MousePlaces(q) \cup (IF b.aux THEN {Len(q) + 1} ELSE {})
<1>1. PICK r \in Seq(Byte) : r = Append(q, b)
  BY SeqFacts
<1>2. /\ Len(q) \in Nat /\ DOMAIN q = 1..Len(q) /\ DOMAIN r = 1..(Len(q) + 1)
      /\ r[Len(q) + 1] = b /\ \A i \in 1..Len(q) : r[i] = q[i]
  BY <1>1, SeqFacts
<1>3. KeyPlaces(r) = KeyPlaces(q) \cup (IF b.aux THEN {} ELSE {Len(q) + 1})
  BY <1>2 DEF KeyPlaces
<1>4. MousePlaces(r) = MousePlaces(q) \cup (IF b.aux THEN {Len(q) + 1} ELSE {})
  BY <1>2 DEF MousePlaces
<1> QED
  BY <1>1, <1>3, <1>4

LEMMA PlacesCons ==
    ASSUME NEW q \in Seq(Byte), NEW b \in Byte
    PROVE  /\ KeyPlaces(<<b>> \o q) = Shift(KeyPlaces(q)) \cup (IF b.aux THEN {} ELSE {1})
           /\ MousePlaces(<<b>> \o q) = Shift(MousePlaces(q)) \cup (IF b.aux THEN {1} ELSE {})
<1>1. PICK r \in Seq(Byte) : r = <<b>> \o q
  BY SeqFacts
<1>2. /\ Len(q) \in Nat /\ DOMAIN q = 1..Len(q) /\ DOMAIN r = 1..(Len(q) + 1)
      /\ r[1] = b /\ \A i \in 1..Len(q) : r[i + 1] = q[i]
  BY <1>1, SeqFacts
<1>3. \A i \in 2..(Len(q) + 1) : i - 1 \in 1..Len(q) /\ r[i] = q[i - 1] /\ i = (i - 1) + 1
  <2> TAKE i \in 2..(Len(q) + 1)
  <2>1. PICK j \in 1..Len(q) : i = j + 1
    <3> WITNESS i - 1 \in 1..Len(q)
    <3> QED
      BY <1>2
  <2> QED
    BY <1>2, <2>1
<1>4. \A i \in 1..(Len(q) + 1) : i = 1 \/ i \in 2..(Len(q) + 1)
  BY <1>2
<1>5. KeyPlaces(r) = Shift(KeyPlaces(q)) \cup (IF b.aux THEN {} ELSE {1})
  <2>1. ASSUME NEW i \in KeyPlaces(r) PROVE i \in Shift(KeyPlaces(q)) \cup (IF b.aux THEN {} ELSE {1})
    BY <1>2, <1>3, <1>4, SMTT(30) DEF KeyPlaces, Shift
  <2>2. ASSUME NEW i \in KeyPlaces(q) PROVE i + 1 \in KeyPlaces(r)
    BY <1>2 DEF KeyPlaces
  <2>3. ~b.aux => 1 \in KeyPlaces(r)
    BY <1>2 DEF KeyPlaces
  <2> QED
    BY <2>1, <2>2, <2>3 DEF Shift
<1>6. MousePlaces(r) = Shift(MousePlaces(q)) \cup (IF b.aux THEN {1} ELSE {})
  <2>1. ASSUME NEW i \in MousePlaces(r) PROVE i \in Shift(MousePlaces(q)) \cup (IF b.aux THEN {1} ELSE {})
    <3>1. i \in 1..(Len(q) + 1) /\ r[i].aux
      BY <1>2 DEF MousePlaces
    <3>2. CASE i = 1
      BY <1>2, <3>1, <3>2
    <3>3. CASE i \in 2..(Len(q) + 1)
      <4>1. i - 1 \in MousePlaces(q) /\ i = (i - 1) + 1
        BY <1>2, <1>3, <3>1, <3>3 DEF MousePlaces
      <4> QED
        BY <4>1 DEF Shift
    <3> QED
      BY <1>4, <3>1, <3>2, <3>3
  <2>2. ASSUME NEW i \in MousePlaces(q) PROVE i + 1 \in MousePlaces(r)
    BY <1>2 DEF MousePlaces
  <2>3. b.aux => 1 \in MousePlaces(r)
    BY <1>2 DEF MousePlaces
  <2> QED
    BY <2>1, <2>2, <2>3 DEF Shift
<1> QED
  BY <1>1, <1>5, <1>6

LEMMA MouseCount ==
    ASSUME NEW q \in Seq(Byte), NEW b \in Byte
    PROVE  LET n == Cardinality(MousePlaces(q)) + (IF b.aux THEN 1 ELSE 0) IN
           Cardinality(MousePlaces(Append(q, b))) = n /\ Cardinality(MousePlaces(<<b>> \o q)) = n
<1> DEFINE S == MousePlaces(q)
<1>1. S \in SUBSET (1..Len(q)) /\ Len(q) \in Nat /\ Cardinality(S) \in Nat
  BY PlacesFinite
<1> HIDE DEF S
<1>2. IsFiniteSet(S) /\ IsFiniteSet(Shift(S)) /\ Cardinality(Shift(S)) = Cardinality(S)
  BY <1>1, UpToFinite, ShiftCount
<1>3. Len(q) + 1 \notin S /\ 1 \notin Shift(S)
  BY <1>1 DEF Shift
<1>4. /\ Cardinality(S \cup {Len(q) + 1}) = Cardinality(S) + 1
      /\ Cardinality(Shift(S) \cup {1}) = Cardinality(S) + 1
  BY <1>2, <1>3, FS_AddElement
<1>5. S \cup {} = S /\ Shift(S) \cup {} = Shift(S)
  OBVIOUS
<1>6. CASE b.aux
  <2>1. MousePlaces(Append(q, b)) = S \cup {Len(q) + 1} /\ MousePlaces(<<b>> \o q) = Shift(S) \cup {1}
    BY <1>6, PlacesAppend, PlacesCons DEF S
  <2> QED
    BY <1>4, <1>6, <2>1 DEF S
<1>7. CASE ~b.aux
  <2>1. MousePlaces(Append(q, b)) = S /\ MousePlaces(<<b>> \o q) = Shift(S)
    BY <1>5, <1>7, PlacesAppend, PlacesCons DEF S
  <2> QED
    BY <1>1, <1>2, <1>7, <2>1 DEF S
<1> QED
  BY <1>6, <1>7

LEMMA KeysType ==
    ASSUME NEW q \in Seq(Byte)
    PROVE  /\ KeysOf(q) \in Seq(Code) /\ Len(KeysOf(q)) = Cardinality(KeyPlaces(q))
           /\ \A n \in 1..Cardinality(KeyPlaces(q)) :
                 \E i \in KeyPlaces(q) : /\ Cardinality(UpTo(KeyPlaces(q), i)) = n
                                         /\ Nth(KeyPlaces(q), n) = i /\ KeysOf(q)[n] = q[i].val
<1> DEFINE S == KeyPlaces(q)
<1>1. S \in SUBSET (1..Len(q)) /\ Len(q) \in Nat /\ Cardinality(S) \in Nat
  BY PlacesFinite
<1>2. KeysOf(q) = [n \in 1..Cardinality(S) |-> q[Nth(S, n)].val]
  BY DEF KeysOf
<1>3. \A i \in S : i \in 1..Len(q) /\ ~q[i].aux
  BY DEF KeyPlaces
<1> HIDE DEF S
<1>4. ASSUME NEW n \in 1..Cardinality(S)
      PROVE  \E i \in S : Cardinality(UpTo(S, i)) = n /\ Nth(S, n) = i /\ KeysOf(q)[n] = q[i].val
  <2>1. PICK i \in S : Cardinality(UpTo(S, i)) = n
    BY <1>1, RankExists
  <2>2. Nth(S, n) = i
    BY <1>1, <2>1, NthIs
  <2> QED
    BY <1>2, <2>1, <2>2
<1>5. \A n \in 1..Cardinality(S) : KeysOf(q)[n] \in Code
  <2> TAKE n \in 1..Cardinality(S)
  <2>1. PICK i \in S : KeysOf(q)[n] = q[i].val
    BY <1>4
  <2>2. q[i] \in Byte /\ ~q[i].aux
    BY <1>3
  <2> QED
    BY <2>1, <2>2, ByteType
<1>6. KeysOf(q) \in [1..Cardinality(S) -> Code]
  BY <1>2, <1>5
<1>7. KeysOf(q) \in Seq(Code) /\ Len(KeysOf(q)) = Cardinality(S)
  BY <1>1, <1>6
<1> QED
  BY <1>4, <1>7 DEF S

LEMMA KeysAppend ==
    ASSUME NEW q \in Seq(Byte), NEW b \in Byte
    PROVE  KeysOf(Append(q, b)) = IF b.aux THEN KeysOf(q) ELSE Append(KeysOf(q), b.val)
<1> DEFINE S == KeyPlaces(q)
           C == Cardinality(S)
<1>1. PICK r \in Seq(Byte) : r = Append(q, b)
  BY SeqFacts
<1>2. /\ Len(q) \in Nat /\ Len(r) = Len(q) + 1 /\ DOMAIN q = 1..Len(q)
      /\ r[Len(q) + 1] = b /\ \A i \in 1..Len(q) : r[i] = q[i]
  BY <1>1, SeqFacts
<1> DEFINE T == KeyPlaces(r)
           D == Cardinality(T)
<1>3. S \in SUBSET (1..Len(q)) /\ T \in SUBSET (1..Len(r)) /\ Len(r) \in Nat /\ C \in Nat /\ D \in Nat
  BY PlacesFinite
<1>4. T = S \cup (IF b.aux THEN {} ELSE {Len(q) + 1})
  BY <1>1, PlacesAppend
<1>5. /\ KeysOf(q) \in Seq(Code) /\ Len(KeysOf(q)) = C
      /\ \A n \in 1..C : \E i \in S : Cardinality(UpTo(S, i)) = n /\ KeysOf(q)[n] = q[i].val
  BY KeysType
<1>6. /\ KeysOf(r) \in Seq(Code) /\ Len(KeysOf(r)) = D
      /\ \A n \in 1..D : KeysOf(r)[n] = r[Nth(T, n)].val
  BY <1>3, KeysType DEF KeysOf
<1> HIDE DEF S, T
<1>7. \A n \in 1..C : KeysOf(r)[n] = KeysOf(q)[n] /\ C <= D
  <2>1. IsFiniteSet(S) /\ IsFiniteSet(T) /\ S \subseteq T
    BY <1>2, <1>3, <1>4, UpToFinite
  <2>2. C <= D
    BY <2>1, FS_Subset
  <2> TAKE n \in 1..C
  <2>3. PICK i \in S : Cardinality(UpTo(S, i)) = n /\ KeysOf(q)[n] = q[i].val
    BY <1>5
  <2>4. UpTo(T, i) = UpTo(S, i)
    BY <1>2, <1>3, <1>4 DEF UpTo
  <2>5. i \in T /\ Nth(T, n) = i
    BY <1>3, <2>1, <2>3, <2>4, NthIs
  <2>6. n \in 1..D /\ r[i] = q[i]
    BY <1>2, <1>3, <2>2
  <2> QED
    BY <1>6, <2>2, <2>3, <2>5, <2>6
<1>8. CASE b.aux
  <2>1. T = S
    BY <1>4, <1>8
  <2>2. D = C /\ Len(KeysOf(r)) = Len(KeysOf(q)) /\ \A n \in 1..Len(KeysOf(r)) : KeysOf(r)[n] = KeysOf(q)[n]
    BY <1>5, <1>6, <1>7, <2>1
  <2>3. KeysOf(r) = KeysOf(q)
    BY <1>5, <1>6, <2>2, SeqEqual
  <2> QED
    BY <1>1, <1>8, <2>3
<1>9. CASE ~b.aux
  <2>1. T = S \cup {Len(q) + 1} /\ Len(q) + 1 \notin S /\ IsFiniteSet(S)
    <3>1. T = S \cup {Len(q) + 1} /\ Len(q) + 1 \notin S
      BY <1>2, <1>3, <1>4, <1>9
    <3>2. IsFiniteSet(S)
      BY <1>2, <1>3, UpToFinite
    <3> QED
      BY <3>1, <3>2
  <2>2. D = C + 1
    <3>1. Cardinality(S \cup {Len(q) + 1}) = Cardinality(S) + 1
      BY <2>1, FS_AddElement
    <3> QED
      BY <2>1, <3>1
  <2>3. UpTo(T, Len(q) + 1) = T
    BY <1>2, <1>3 DEF UpTo
  <2>4. Nth(T, C + 1) = Len(q) + 1
    <3>1. PICK i : i = Len(q) + 1
      OBVIOUS
    <3>2. i \in T /\ Cardinality(UpTo(T, i)) = C + 1
      BY <2>1, <2>2, <2>3, <3>1
    <3>3. PICK n : n = C + 1
      OBVIOUS
    <3>4. Nth(T, n) = i
      BY <1>3, <3>2, <3>3, NthIs
    <3> QED
      BY <3>1, <3>3, <3>4
  <2>5. C + 1 \in 1..D
    BY <1>3, <2>2
  <2>6. KeysOf(r)[C + 1] = b.val
    BY <1>2, <1>6, <2>4, <2>5
  <2>7. PICK k \in Seq(Code) : k = KeysOf(q)
    BY <1>5
  <2>8. b.val \in Code
    BY <1>9, ByteType
  <2>9. /\ Append(k, b.val) \in Seq(Code) /\ Len(Append(k, b.val)) = C + 1
        /\ Append(k, b.val)[C + 1] = b.val /\ \A n \in 1..C : Append(k, b.val)[n] = k[n]
    BY <1>5, <2>7, <2>8
  <2>10. \A n \in 1..(C + 1) : n \in 1..C \/ n = C + 1
    BY <1>3
  <2>11. \A n \in 1..(C + 1) : KeysOf(r)[n] = Append(k, b.val)[n]
    BY <1>7, <2>6, <2>7, <2>9, <2>10
  <2>12. KeysOf(r) = Append(k, b.val)
    BY <1>6, <2>2, <2>9, <2>11, SeqEqual
  <2> QED
    BY <1>1, <1>9, <2>7, <2>12
<1> QED
  BY <1>8, <1>9, ByteType

LEMMA ShiftRank ==
    ASSUME NEW m \in Nat, NEW S \in SUBSET (1..m), NEW i \in S
    PROVE  /\ i + 1 \in Shift(S) /\ i + 1 # 1 /\ 1 \notin Shift(S)
           /\ Shift(S) \in SUBSET (1..(m + 1)) /\ Shift(S) \cup {1} \in SUBSET (1..(m + 1))
           /\ Cardinality(UpTo(Shift(S), i + 1)) = Cardinality(UpTo(S, i))
           /\ Cardinality(UpTo(Shift(S) \cup {1}, i + 1)) = Cardinality(UpTo(S, i)) + 1
<1>1. UpTo(Shift(S), i + 1) = Shift(UpTo(S, i))
  <2>1. ASSUME NEW k \in UpTo(Shift(S), i + 1) PROVE k \in Shift(UpTo(S, i))
    <3>1. PICK j \in S : k = j + 1 /\ j + 1 \in 1..(i + 1)
      BY DEF UpTo, Shift
    <3>2. j \in 1..i
      BY <3>1
    <3> QED
      BY <3>1, <3>2 DEF UpTo, Shift
  <2>2. ASSUME NEW j \in UpTo(S, i) PROVE j + 1 \in UpTo(Shift(S), i + 1)
    <3>1. j \in S /\ j \in 1..i /\ j + 1 \in 1..(i + 1)
      BY DEF UpTo
    <3> QED
      BY <3>1 DEF UpTo, Shift
  <2> QED
    BY <2>1, <2>2 DEF Shift
<1>2. UpTo(S, i) \in SUBSET (1..m)
  BY DEF UpTo
<1>3. /\ IsFiniteSet(Shift(UpTo(S, i)))
      /\ Cardinality(Shift(UpTo(S, i))) = Cardinality(UpTo(S, i))
  BY <1>2, ShiftCount
<1>4. UpTo(Shift(S) \cup {1}, i + 1) = Shift(UpTo(S, i)) \cup {1}
  <2>1. 1 \in 1..(i + 1)
    OBVIOUS
  <2> QED
    BY <1>1, <2>1 DEF UpTo
<1>5. 1 \notin Shift(UpTo(S, i))
  BY <1>2 DEF Shift
<1>6. Cardinality(Shift(UpTo(S, i)) \cup {1}) = Cardinality(UpTo(S, i)) + 1
  BY <1>3, <1>5, FS_AddElement
<1>7. /\ i + 1 \in Shift(S) /\ i + 1 # 1 /\ 1 \notin Shift(S)
      /\ Shift(S) \in SUBSET (1..(m + 1)) /\ Shift(S) \cup {1} \in SUBSET (1..(m + 1))
  BY DEF Shift
<1> QED
  BY <1>1, <1>3, <1>4, <1>6, <1>7

LEMMA ShiftRankAt ==
    ASSUME NEW m \in Nat, NEW S \in SUBSET (1..m), NEW i \in S, NEW k, k = i + 1
    PROVE  /\ k \in Shift(S)
           /\ Cardinality(UpTo(Shift(S), k)) = Cardinality(UpTo(S, i))
           /\ Cardinality(UpTo(Shift(S) \cup {1}, k)) = Cardinality(UpTo(S, i)) + 1
<1>1. /\ i + 1 \in Shift(S)
      /\ Cardinality(UpTo(Shift(S), i + 1)) = Cardinality(UpTo(S, i))
      /\ Cardinality(UpTo(Shift(S) \cup {1}, i + 1)) = Cardinality(UpTo(S, i)) + 1
  BY ShiftRank
<1> QED
  BY <1>1

LEMMA KeysCons ==
    ASSUME NEW q \in Seq(Byte), NEW b \in Byte
    PROVE  KeysOf(<<b>> \o q) = IF b.aux THEN KeysOf(q) ELSE <<b.val>> \o KeysOf(q)
<1> DEFINE S == KeyPlaces(q)
           C == Cardinality(S)
           d == IF b.aux THEN 0 ELSE 1
<1>1. PICK r \in Seq(Byte) : r = <<b>> \o q
  BY SeqFacts
<1>2. /\ Len(q) \in Nat /\ Len(r) = Len(q) + 1 /\ DOMAIN q = 1..Len(q)
      /\ r[1] = b /\ \A i \in 1..Len(q) : r[i + 1] = q[i]
  BY <1>1, SeqFacts
<1> DEFINE T == KeyPlaces(r)
           D == Cardinality(T)
<1>3. S \in SUBSET (1..Len(q)) /\ T \in SUBSET (1..Len(r)) /\ Len(r) \in Nat /\ C \in Nat /\ D \in Nat
  BY PlacesFinite
<1>4. T = Shift(S) \cup (IF b.aux THEN {} ELSE {1})
  BY <1>1, PlacesCons
<1>5. /\ KeysOf(q) \in Seq(Code) /\ Len(KeysOf(q)) = C
      /\ \A n \in 1..C : \E i \in S : Cardinality(UpTo(S, i)) = n /\ KeysOf(q)[n] = q[i].val
  BY KeysType
<1>6. /\ KeysOf(r) \in Seq(Code) /\ Len(KeysOf(r)) = D
      /\ \A n \in 1..D : KeysOf(r)[n] = r[Nth(T, n)].val
  BY <1>3, KeysType DEF KeysOf
<1> HIDE DEF S, T
<1>60. d \in {0, 1} /\ (b.aux => d = 0 /\ T = Shift(S)) /\ (~b.aux => d = 1 /\ T = Shift(S) \cup {1})
  BY <1>4, ByteType
<1>61. D = C + d
  <2>1. IsFiniteSet(Shift(S)) /\ Cardinality(Shift(S)) = C
    BY <1>2, <1>3, ShiftCount
  <2>2. 1 \notin Shift(S)
    BY <1>3 DEF Shift
  <2>3. Cardinality(Shift(S) \cup {1}) = C + 1
    BY <2>1, <2>2, FS_AddElement
  <2>4. CASE b.aux
    BY <1>3, <1>60, <2>1, <2>4
  <2>5. CASE ~b.aux
    BY <1>60, <2>3, <2>5
  <2> QED
    BY <2>4, <2>5
<1> HIDE DEF d
<1>7. ASSUME NEW n \in 1..C PROVE KeysOf(r)[n + d] = KeysOf(q)[n]
  <2>1. PICK i \in S : Cardinality(UpTo(S, i)) = n /\ KeysOf(q)[n] = q[i].val
    BY <1>5
  <2>2. /\ i + 1 \in Shift(S)
        /\ Cardinality(UpTo(Shift(S), i + 1)) = n
        /\ Cardinality(UpTo(Shift(S) \cup {1}, i + 1)) = n + 1
    <3>1. PICK k : k = i + 1
      OBVIOUS
    <3>2. /\ k \in Shift(S)
          /\ Cardinality(UpTo(Shift(S), k)) = Cardinality(UpTo(S, i))
          /\ Cardinality(UpTo(Shift(S) \cup {1}, k)) = Cardinality(UpTo(S, i)) + 1
      BY <1>2, <1>3, <3>1, ShiftRankAt, ZenonT(30)
    <3> QED
      BY <2>1, <3>1, <3>2
  <2>3. PICK k : k = i + 1
    OBVIOUS
  <2>4. PICK x : x = n + d
    OBVIOUS
  <2>5. k \in T /\ Cardinality(UpTo(T, k)) = x
    <3>1. CASE b.aux
      BY <1>60, <2>2, <2>3, <2>4, <3>1
    <3>2. CASE ~b.aux
      BY <1>60, <2>2, <2>3, <2>4, <3>2
    <3> QED
      BY <3>1, <3>2
  <2>6. Nth(T, x) = k
    BY <1>3, <2>5, NthIs
  <2>7. x \in 1..D
    BY <1>3, <1>60, <1>61, <2>4
  <2>8. KeysOf(r)[x] = r[k].val
    BY <1>6, <2>6, <2>7
  <2> QED
    BY <1>2, <1>3, <2>1, <2>3, <2>4, <2>8
<1>8. CASE b.aux
  <2>1. D = C /\ Len(KeysOf(r)) = Len(KeysOf(q))
    BY <1>3, <1>5, <1>6, <1>60, <1>61, <1>8
  <2>2. \A n \in 1..C : KeysOf(r)[n] = KeysOf(q)[n]
    <3> TAKE n \in 1..C
    <3>1. n + d = n
      BY <1>60, <1>8
    <3> QED
      BY <1>7, <3>1
  <2>3. KeysOf(r) = KeysOf(q)
    BY <1>5, <1>6, <2>1, <2>2, SeqEqual
  <2> QED
    BY <1>1, <1>8, <2>3
<1>9. CASE ~b.aux
  <2>1. T = Shift(S) \cup {1} /\ d = 1 /\ D = C + 1
    BY <1>60, <1>61, <1>9
  <2>2. KeysOf(r)[1] = b.val
    <3>1. UpTo(T, 1) = {1}
      BY <1>3, <2>1 DEF UpTo
    <3>2. Cardinality({1}) = 1
      BY FS_Singleton
    <3>3. PICK x : x = 1
      OBVIOUS
    <3>4. x \in T /\ Cardinality(UpTo(T, x)) = x
      BY <2>1, <3>1, <3>2, <3>3
    <3>5. Nth(T, x) = x
      BY <1>3, <3>4, NthIs
    <3>6. x \in 1..D
      BY <1>3, <2>1, <3>3
    <3> QED
      BY <1>2, <1>6, <3>3, <3>5, <3>6
  <2>3. PICK k \in Seq(Code) : k = KeysOf(q)
    BY <1>5
  <2>4. b.val \in Code
    BY <1>9, ByteType
  <2>5. PICK t \in Seq(Code) : t = <<b.val>> \o k
    <3>1. <<b.val>> \in Seq(Code)
      BY <2>4
    <3>2. <<b.val>> \o k \in Seq(Code)
      BY <3>1
    <3> QED
      BY <3>2
  <2>6. Len(t) = C + 1 /\ t[1] = b.val /\ \A n \in 1..C : t[n + 1] = k[n]
    BY <1>5, <2>3, <2>4, <2>5
  <2>7. ASSUME NEW n \in 1..(C + 1) PROVE KeysOf(r)[n] = t[n]
    <3>1. CASE n = 1
      BY <2>2, <2>6, <3>1
    <3>2. CASE n # 1
      <4>0. n - 1 \in 1..C /\ n = (n - 1) + 1
        BY <1>3, <3>2
      <4>1. PICK j \in 1..C : n = j + 1
        BY <4>0
      <4>2. KeysOf(r)[j + 1] = k[j]
        BY <1>7, <2>1, <2>3
      <4> QED
        BY <2>6, <4>1, <4>2
    <3> QED
      BY <3>1, <3>2
  <2>8. KeysOf(r) = t
    BY <1>6, <2>1, <2>6, <2>7, SeqEqual
  <2> QED
    BY <1>1, <1>9, <2>3, <2>5, <2>8
<1> QED
  BY <1>8, <1>9, ByteType

-----------------------------------------------------------------------------
(* The ring of scan codes.                                                 *)

RingOf(buf, h, t) ==
    [i \in 1..((h - t) % RingSize) |-> buf[(t + i - 1) % RingSize]]

Stored == Code \cup {"none"}

LEMMA RingConstants == RingSize \in Nat /\ RingSize > 1 /\ Typed \in SUBSET Code
  BY KeyboardAssumption DEF Code

LEMMA Wrap ==
    ASSUME NEW a \in Int, -RingSize <= a, a < RingSize + RingSize
    PROVE  a % RingSize = IF a < 0 THEN a + RingSize ELSE IF a < RingSize THEN a ELSE a - RingSize
<1>1. RingSize \in Nat /\ RingSize > 1
  BY RingConstants
<1>2. CASE a < 0
  <2>1. a % RingSize = a + RingSize
    BY <1>1, <1>2
  <2> QED
    BY <1>2, <2>1
<1>3. CASE 0 <= a /\ a < RingSize
  <2>1. a % RingSize = a
    BY <1>1, <1>3
  <2> QED
    BY <1>3, <2>1
<1>4. CASE RingSize <= a
  <2>1. a % RingSize = a - RingSize
    BY <1>1, <1>4
  <2> QED
    BY <1>1, <1>4, <2>1
<1> QED
  BY <1>1, <1>2, <1>3, <1>4

LEMMA RingWaits ==
    ASSUME NEW h \in Index, NEW t \in Index
    PROVE  /\ h \in Int /\ t \in Int /\ 0 <= h /\ h < RingSize /\ 0 <= t /\ t < RingSize
           /\ (h - t) % RingSize = IF t <= h THEN h - t ELSE h - t + RingSize
           /\ (h - t) % RingSize \in 0..(RingSize - 1)
           /\ Inc(h) \in Index
           /\ Inc(h) = IF h + 1 = RingSize THEN 0 ELSE h + 1
           /\ (h - t) % RingSize = 0 <=> h = t
           /\ (h - t) % RingSize = RingSize - 1 <=> Inc(h) = t
<1>1. RingSize \in Nat /\ RingSize > 1
  BY RingConstants
<1>2. h \in Int /\ t \in Int /\ 0 <= h /\ h < RingSize /\ 0 <= t /\ t < RingSize
  BY <1>1 DEF Index
<1>3. PICK a \in Int : a = h - t
  BY <1>2
<1>4. a % RingSize = IF a < 0 THEN a + RingSize ELSE IF a < RingSize THEN a ELSE a - RingSize
  BY <1>1, <1>2, <1>3, Wrap
<1>5. (h - t) % RingSize = IF t <= h THEN h - t ELSE h - t + RingSize
  BY <1>1, <1>2, <1>3, <1>4
<1>6. PICK b \in Int : b = h + 1
  BY <1>2
<1>7. b % RingSize = IF b < 0 THEN b + RingSize ELSE IF b < RingSize THEN b ELSE b - RingSize
  BY <1>1, <1>2, <1>6, Wrap
<1>8. Inc(h) = IF h + 1 = RingSize THEN 0 ELSE h + 1
  BY <1>1, <1>2, <1>6, <1>7 DEF Inc
<1>9. PICK w : w = (h - t) % RingSize
  OBVIOUS
<1>10. w = IF t <= h THEN h - t ELSE h - t + RingSize
  BY <1>5, <1>9
<1>11. /\ w \in 0..(RingSize - 1) /\ (w = 0 <=> h = t) /\ (w = RingSize - 1 <=> Inc(h) = t)
  BY <1>1, <1>2, <1>8, <1>10
<1>12. Inc(h) \in Index
  BY <1>1, <1>2, <1>8 DEF Index
<1> QED
  BY <1>2, <1>5, <1>8, <1>9, <1>11, <1>12

LEMMA RingPlace ==
    ASSUME NEW t \in Index, NEW i \in 1..RingSize
    PROVE  /\ (t + i - 1) % RingSize \in Index
           /\ (t + i - 1) % RingSize = IF t + i - 1 < RingSize THEN t + i - 1 ELSE t + i - 1 - RingSize
<1>1. RingSize \in Nat /\ RingSize > 1
  BY RingConstants
<1>2. t \in Int /\ 0 <= t /\ t < RingSize
  BY <1>1 DEF Index
<1>3. PICK a \in Int : a = t + i - 1
  BY <1>2
<1>4. a % RingSize = IF a < 0 THEN a + RingSize ELSE IF a < RingSize THEN a ELSE a - RingSize
  BY <1>1, <1>2, <1>3, Wrap
<1>5. PICK w : w = a % RingSize
  OBVIOUS
<1>6. w = (IF t + i - 1 < RingSize THEN t + i - 1 ELSE t + i - 1 - RingSize) /\ w \in Index
  BY <1>1, <1>2, <1>3, <1>4, <1>5 DEF Index
<1> QED
  BY <1>3, <1>5, <1>6

LEMMA RingType ==
    ASSUME NEW buf \in [Index -> Stored], NEW h \in Index, NEW t \in Index
    PROVE  /\ RingOf(buf, h, t) \in Seq(Stored) /\ Len(RingOf(buf, h, t)) = (h - t) % RingSize
           /\ (h - t) % RingSize \in Nat /\ (h - t) % RingSize < RingSize
           /\ \A i \in 1..((h - t) % RingSize) :
                 /\ i \in 1..RingSize /\ RingOf(buf, h, t)[i] = buf[(t + i - 1) % RingSize]
<1> DEFINE w == (h - t) % RingSize
<1>1. RingSize \in Nat /\ RingSize > 1
  BY RingConstants
<1>2. w \in 0..(RingSize - 1)
  BY RingWaits
<1> HIDE DEF w
<1>3. \A i \in 1..w : i \in 1..RingSize
  BY <1>1, <1>2
<1>4. RingOf(buf, h, t) = [i \in 1..w |-> buf[(t + i - 1) % RingSize]]
  BY DEF RingOf, w
<1>5. \A i \in 1..w : buf[(t + i - 1) % RingSize] \in Stored
  BY <1>3, RingPlace
<1>6. RingOf(buf, h, t) \in [1..w -> Stored]
  BY <1>4, <1>5
<1>7. RingOf(buf, h, t) \in Seq(Stored) /\ Len(RingOf(buf, h, t)) = w
  BY <1>1, <1>2, <1>6
<1>8. w \in Nat /\ w < RingSize
  BY <1>1, <1>2
<1>9. \A i \in 1..w : RingOf(buf, h, t)[i] = buf[(t + i - 1) % RingSize]
  BY <1>4
<1> QED
  BY <1>3, <1>7, <1>8, <1>9 DEF w

LEMMA RingPut ==
    ASSUME NEW buf \in [Index -> Stored], NEW h \in Index, NEW t \in Index, NEW c \in Code, Inc(h) # t
    PROVE  RingOf([buf EXCEPT ![h] = c], Inc(h), t) = Append(RingOf(buf, h, t), c)
<1>1. RingSize \in Nat /\ RingSize > 1
  BY RingConstants
<1>2. PICK w : w = (h - t) % RingSize
  OBVIOUS
<1>3. PICK h2 : h2 = Inc(h)
  OBVIOUS
<1>4. PICK buf2 : buf2 = [buf EXCEPT ![h] = c]
  OBVIOUS
<1>5. /\ h \in Int /\ t \in Int /\ 0 <= h /\ h < RingSize /\ 0 <= t /\ t < RingSize
      /\ w = (IF t <= h THEN h - t ELSE h - t + RingSize) /\ w \in 0..(RingSize - 1)
      /\ h2 \in Index /\ h2 = (IF h + 1 = RingSize THEN 0 ELSE h + 1)
      /\ w # RingSize - 1
  BY <1>2, <1>3, RingWaits
<1>6. (h2 - t) % RingSize = IF t <= h2 THEN h2 - t ELSE h2 - t + RingSize
  BY <1>5, RingWaits
<1>7. PICK w2 : w2 = (h2 - t) % RingSize
  OBVIOUS
<1>8. w2 = w + 1 /\ w \in Nat
  BY <1>1, <1>3, <1>5, <1>6, <1>7
<1>9. c \in Stored /\ buf2 \in [Index -> Stored] /\ buf2[h] = c /\ \A x \in Index : x # h => buf2[x] = buf[x]
  BY <1>4 DEF Stored
<1>10. PICK r \in Seq(Stored) : r = RingOf(buf, h, t)
  BY RingType
<1>11. Len(r) = w /\ \A i \in 1..w : i \in 1..RingSize /\ r[i] = buf[(t + i - 1) % RingSize]
  BY <1>2, <1>10, RingType
<1>12. PICK s \in Seq(Stored) : s = RingOf(buf2, h2, t)
  BY <1>5, <1>9, RingType
<1>13. Len(s) = w2 /\ \A i \in 1..w2 : i \in 1..RingSize /\ s[i] = buf2[(t + i - 1) % RingSize]
  <2>1. h2 \in Index /\ buf2 \in [Index -> Stored]
    BY <1>5, <1>9
  <2>2. /\ Len(RingOf(buf2, h2, t)) = (h2 - t) % RingSize
        /\ \A i \in 1..((h2 - t) % RingSize) :
              i \in 1..RingSize /\ RingOf(buf2, h2, t)[i] = buf2[(t + i - 1) % RingSize]
    BY <2>1, RingType
  <2> QED
    BY <1>7, <1>12, <2>2
<1>14. PICK a \in Seq(Stored) : a = Append(r, c)
  <2>1. Append(r, c) \in Seq(Stored)
    BY <1>9
  <2> QED
    BY <2>1
<1>15. Len(a) = w + 1 /\ a[w + 1] = c /\ \A i \in 1..w : a[i] = r[i]
  <2>1. PICK e \in Stored : e = c
    BY <1>9
  <2>2. a = Append(r, e)
    BY <1>14, <2>1
  <2>3. Len(a) = w + 1 /\ a[w + 1] = e /\ \A i \in 1..w : a[i] = r[i]
    BY <1>11, <2>2
  <2> QED
    BY <2>1, <2>3
<1>16. ASSUME NEW i \in 1..w2 PROVE s[i] = a[i]
  <2>1. PICK x : x = (t + i - 1) % RingSize
    OBVIOUS
  <2>2. /\ i \in 1..RingSize /\ x \in Index
        /\ x = IF t + i - 1 < RingSize THEN t + i - 1 ELSE t + i - 1 - RingSize
    BY <1>13, <2>1, RingPlace
  <2>3. CASE i = w + 1
    <3>1. x = h
      BY <1>1, <1>5, <2>2, <2>3
    <3> QED
      BY <1>9, <1>13, <1>15, <2>1, <2>3, <3>1
  <2>4. CASE i # w + 1
    <3>1. i \in 1..w /\ x # h
      BY <1>1, <1>5, <1>8, <2>2, <2>4
    <3> QED
      BY <1>9, <1>11, <1>13, <1>15, <2>1, <2>2, <3>1
  <2> QED
    BY <2>3, <2>4
<1>17. s = a
  BY <1>8, <1>13, <1>15, <1>16, SeqEqual
<1> QED
  BY <1>3, <1>4, <1>10, <1>12, <1>14, <1>17

LEMMA RingGet ==
    ASSUME NEW buf \in [Index -> Stored], NEW h \in Index, NEW t \in Index, h # t
    PROVE  RingOf(buf, h, t) = <<buf[t]>> \o RingOf(buf, h, Inc(t))
<1>1. RingSize \in Nat /\ RingSize > 1
  BY RingConstants
<1>2. PICK w : w = (h - t) % RingSize
  OBVIOUS
<1>3. PICK t2 : t2 = Inc(t)
  OBVIOUS
<1>4. /\ h \in Int /\ t \in Int /\ 0 <= h /\ h < RingSize /\ 0 <= t /\ t < RingSize
      /\ w = (IF t <= h THEN h - t ELSE h - t + RingSize) /\ w \in 0..(RingSize - 1)
  BY <1>2, RingWaits
<1>5. t2 \in Index /\ t2 = (IF t + 1 = RingSize THEN 0 ELSE t + 1)
  BY <1>3, RingWaits
<1>6. (h - t2) % RingSize = IF t2 <= h THEN h - t2 ELSE h - t2 + RingSize
  BY <1>5, RingWaits
<1>7. PICK w2 : w2 = (h - t2) % RingSize
  OBVIOUS
<1>8. w = w2 + 1 /\ w2 \in Nat
  BY <1>1, <1>4, <1>5, <1>6, <1>7
<1>9. PICK r \in Seq(Stored) : r = RingOf(buf, h, t)
  BY RingType
<1>10. Len(r) = w /\ \A i \in 1..w : i \in 1..RingSize /\ r[i] = buf[(t + i - 1) % RingSize]
  BY <1>2, <1>9, RingType
<1>11. PICK s \in Seq(Stored) : s = RingOf(buf, h, t2)
  BY <1>5, RingType
<1>12. Len(s) = w2 /\ \A i \in 1..w2 : i \in 1..RingSize /\ s[i] = buf[(t2 + i - 1) % RingSize]
  BY <1>5, <1>7, <1>11, RingType, ZenonT(60)
<1>13. buf[t] \in Stored
  OBVIOUS
<1>14. PICK f \in Seq(Stored) : f = <<buf[t]>>
  <2>1. <<buf[t]>> \in Seq(Stored)
    BY <1>13
  <2> QED
    BY <2>1
<1>15. PICK a \in Seq(Stored) : a = f \o s
  <2>1. f \o s \in Seq(Stored)
    OBVIOUS
  <2> QED
    BY <2>1
<1>16. Len(a) = w2 + 1 /\ a[1] = buf[t] /\ \A i \in 1..w2 : a[i + 1] = s[i]
  BY <1>12, <1>14, <1>15
<1>17. ASSUME NEW i \in 1..w PROVE r[i] = a[i]
  <2>1. PICK x : x = (t + i - 1) % RingSize
    OBVIOUS
  <2>2. /\ i \in 1..RingSize /\ x \in Index
        /\ x = IF t + i - 1 < RingSize THEN t + i - 1 ELSE t + i - 1 - RingSize
    BY <1>10, <2>1, RingPlace
  <2>3. CASE i = 1
    <3>1. x = t
      BY <1>1, <1>4, <2>2, <2>3
    <3> QED
      BY <1>10, <1>16, <2>1, <2>3, <3>1
  <2>4. CASE i # 1
    <3>1. i - 1 \in 1..w2 /\ i = (i - 1) + 1
      BY <1>4, <1>8, <2>4
    <3>2. PICK j \in 1..w2 : i = j + 1
      BY <3>1
    <3>3. PICK y : y = (t2 + j - 1) % RingSize
      OBVIOUS
    <3>4. j \in 1..RingSize /\ y = IF t2 + j - 1 < RingSize THEN t2 + j - 1 ELSE t2 + j - 1 - RingSize
      BY <1>5, <1>12, <3>3, RingPlace
    <3>5. x = y
      BY <1>1, <1>4, <1>5, <2>2, <3>2, <3>4
    <3>6. s[j] = buf[y] /\ a[j + 1] = s[j] /\ r[i] = buf[x]
      BY <1>10, <1>12, <1>16, <2>1, <3>3
    <3> QED
      BY <3>2, <3>5, <3>6
  <2> QED
    BY <2>3, <2>4
<1>18. r = a
  BY <1>8, <1>10, <1>16, <1>17, SeqEqual
<1> QED
  BY <1>3, <1>9, <1>11, <1>14, <1>15, <1>18

-----------------------------------------------------------------------------
(* The inductive invariant.  While the timer interrupt runs the reader is  *)
(* not in SYS_READ (Alone); so the status read before a byte is still that *)
(* byte's (Front), what the reader holds is the kind of byte it takes it   *)
(* for (Hand), and kb_head_ and kb_tail_ are still what it loaded          *)
(* (Loaded).                                                               *)

Pcs == {"off", "top", "drain", "data", "feed", "put", "store", "check", "get"}

KeyType ==
    /\ fifo \in Seq(Byte) /\ phase \in 0..2 /\ cycle \in 0..2
    /\ kb_buf \in [Index -> Stored] /\ kb_head \in Index /\ kb_tail \in Index
    /\ pc \in Pcs

Alone == pit # "none" => pc = "off"

Front == pc = "data" => fifo # <<>> /\ st = Head(fifo)

Hand == /\ pc \in {"put", "store"} => dat \in Byte /\ ~dat.aux
        /\ pc = "feed" => dat \in Byte /\ dat.aux

Loaded == /\ pc = "store" => reg = kb_head /\ Inc(kb_head) # kb_tail
          /\ pc = "get" => reg = kb_tail /\ kb_head # kb_tail

InputInv == KeyType /\ Alone /\ Front /\ Hand /\ Loaded

-----------------------------------------------------------------------------
(* Every step is one of six kinds, seen from the bytes that wait in the    *)
(* reader's hand and in the controller, and from the ring.                 *)

Waiting == InHand \o fifo

Quiet == Waiting' = Waiting /\ UNCHANGED <<ringVars, cycle, phase, got>>

Arrives ==
    \E b \in Byte : /\ Waiting' = Append(Waiting, b)
                    /\ IF b.aux THEN (phase = 0 => b.val) /\ phase' = (phase + 1) % 3
                       ELSE phase' = phase
                    /\ UNCHANGED <<ringVars, cycle, got>>

MouseTaken ==
    \E b \in Byte : /\ b.aux /\ Waiting = <<b>> \o Waiting'
                    /\ cycle' = IF cycle = 0 /\ ~b.val THEN cycle ELSE (cycle + 1) % 3
                    /\ UNCHANGED <<ringVars, phase, got>>

KeyStored ==
    \E b \in Byte : /\ ~b.aux /\ Waiting = <<b>> \o Waiting'
                    /\ Inc(kb_head) # kb_tail
                    /\ kb_buf' = [kb_buf EXCEPT ![kb_head] = b.val]
                    /\ kb_head' = Inc(kb_head)
                    /\ UNCHANGED <<kb_tail, cycle, phase, got>>

KeyDropped ==
    \E b \in Byte : /\ ~b.aux /\ Waiting = <<b>> \o Waiting'
                    /\ Inc(kb_head) = kb_tail
                    /\ UNCHANGED <<ringVars, cycle, phase, got>>

KeyTaken ==
    /\ kb_head # kb_tail
    /\ got' = kb_buf[kb_tail] /\ kb_tail' = Inc(kb_tail)
    /\ Waiting' = Waiting
    /\ UNCHANGED <<kb_buf, kb_head, cycle, phase>>

Kinds == Quiet \/ Arrives \/ MouseTaken \/ KeyStored \/ KeyDropped \/ KeyTaken

LEMMA FrontBack ==
    ASSUME NEW f \in Seq(Byte), f # <<>>
    PROVE  Head(f) \in Byte /\ Tail(f) \in Seq(Byte) /\ f = <<Head(f)>> \o Tail(f)
<1>1. Head(f) \in Byte /\ Tail(f) \in Seq(Byte) /\ Len(f) \in Nat /\ Len(f) > 0
  OBVIOUS
<1>2. PICK h \in Byte : h = Head(f) /\ h = f[1]
  BY <1>1
<1>3. PICK q \in Seq(Byte) : q = Tail(f) /\ Len(q) = Len(f) - 1 /\ \A i \in 1..Len(q) : q[i] = f[i + 1]
  <2>1. Len(Tail(f)) = Len(f) - 1 /\ \A i \in 1..Len(Tail(f)) : Tail(f)[i] = f[i + 1]
    BY <1>1
  <2> QED
    BY <1>1, <2>1
<1>4. PICK r \in Seq(Byte) : r = <<h>> \o q
  BY SeqFacts
<1>5. Len(r) = Len(q) + 1 /\ r[1] = h /\ \A i \in 1..Len(q) : r[i + 1] = q[i]
  BY <1>4, SeqFacts
<1>6. ASSUME NEW i \in 1..Len(f) PROVE f[i] = r[i]
  <2>1. CASE i = 1
    BY <1>2, <1>5, <2>1
  <2>2. CASE i # 1
    <3>1. i - 1 \in 1..Len(q) /\ i = (i - 1) + 1
      BY <1>1, <1>3, <2>2
    <3>2. PICK j \in 1..Len(q) : i = j + 1
      BY <3>1
    <3> QED
      BY <1>3, <1>5, <3>2
  <2> QED
    BY <2>1, <2>2
<1>7. f = r
  BY <1>1, <1>3, <1>5, <1>6, SeqEqual
<1> QED
  BY <1>1, <1>2, <1>3, <1>4, <1>7

LEMMA EmptyHand == ASSUME NEW f \in Seq(Byte) PROVE <<>> \o f = f
  OBVIOUS

LEMMA AppendHand ==
    ASSUME NEW f \in Seq(Byte), NEW b \in Byte, NEW d \in Byte
    PROVE  /\ <<d>> \o Append(f, b) = Append(<<d>> \o f, b)
           /\ <<>> \o Append(f, b) = Append(<<>> \o f, b)
<1>1. Append(f, b) \in Seq(Byte) /\ Append(f, b) = f \o <<b>>
  OBVIOUS
<1>2. <<d>> \in Seq(Byte) /\ <<b>> \in Seq(Byte) /\ <<>> \in Seq(Byte)
  OBVIOUS
<1>3. PICK x \in Seq(Byte), y \in Seq(Byte), z \in Seq(Byte) : x = <<d>> /\ y = <<b>> /\ z = <<>>
  BY <1>2
<1>4. x \o (f \o y) = (x \o f) \o y /\ z \o (f \o y) = (z \o f) \o y
  OBVIOUS
<1>5. Append(x \o f, b) = (x \o f) \o y /\ Append(z \o f, b) = (z \o f) \o y
  <2>1. x \o f \in Seq(Byte) /\ z \o f \in Seq(Byte)
    OBVIOUS
  <2> QED
    BY <1>3, <2>1, AppendIsConcat
<1> QED
  BY <1>1, <1>3, <1>4, <1>5

LEMMA ByteArrives ==
    ASSUME InputInv, phase' \in 0..2, NEW b \in Byte, fifo' = Append(fifo, b),
           UNCHANGED <<ringVars, cycle, readerVars, pit, got>>
    PROVE  InputInv' /\ Waiting' = Append(Waiting, b)
<1>1. /\ fifo \in Seq(Byte) /\ fifo' \in Seq(Byte) /\ kb_buf' = kb_buf /\ kb_head' = kb_head /\ kb_tail' = kb_tail
      /\ pc' = pc /\ st' = st /\ dat' = dat /\ reg' = reg /\ pit' = pit /\ cycle' = cycle
  BY SeqFacts DEF InputInv, KeyType, ringVars, readerVars
<1>2. KeyType' /\ Alone'
  BY <1>1 DEF InputInv, KeyType, Alone
<1>3. Front'
  <2>1. fifo # <<>> => Append(fifo, b) # <<>> /\ Head(Append(fifo, b)) = Head(fifo)
    BY <1>1, HeadTailAppend, AppendProperties
  <2> QED
    BY <1>1, <2>1 DEF InputInv, Front
<1>4. Hand'
  BY <1>1 DEF InputInv, Hand
<1>5. Loaded'
  BY <1>1 DEF InputInv, Loaded, Inc
<1>6. Waiting' = Append(Waiting, b)
  <2>1. CASE pc \in {"put", "store", "feed"}
    <3>1. dat \in Byte
      BY <2>1 DEF InputInv, Hand
    <3>2. Waiting = <<dat>> \o fifo /\ Waiting' = <<dat>> \o Append(fifo, b)
      BY <1>1, <2>1 DEF Waiting, InHand
    <3> QED
      BY <1>1, <3>1, <3>2, AppendHand
  <2>2. CASE pc \notin {"put", "store", "feed"}
    <3>1. Waiting = <<>> \o fifo /\ Waiting' = <<>> \o Append(fifo, b)
      BY <1>1, <2>2 DEF Waiting, InHand
    <3> QED
      BY <1>1, <3>1, AppendHand
  <2> QED
    BY <2>1, <2>2
<1> QED
  BY <1>2, <1>3, <1>4, <1>5, <1>6 DEF InputInv

LEMMA KeyByteKind ==
    ASSUME InputInv, KeyByte
    PROVE  InputInv' /\ Arrives
<1>1. PICK c \in Typed : fifo' = Append(fifo, [aux |-> FALSE, val |-> c])
  BY DEF KeyByte
<1>2. PICK b \in Byte : b = [aux |-> FALSE, val |-> c] /\ ~b.aux
  BY <1>1, RingConstants, ByteType
<1>3. phase' = phase /\ phase \in 0..2 /\ UNCHANGED <<ringVars, cycle, readerVars, pit, got>>
  BY DEF KeyByte, InputInv, KeyType
<1>4. InputInv' /\ Waiting' = Append(Waiting, b)
  BY <1>1, <1>2, <1>3, ByteArrives
<1>5. UNCHANGED <<ringVars, cycle, got>>
  BY <1>3
<1> QED
  BY <1>2, <1>3, <1>4, <1>5 DEF Arrives

LEMMA MouseByteKind ==
    ASSUME InputInv, MouseByte
    PROVE  InputInv' /\ Arrives
<1>1. PICK v \in BOOLEAN : (phase = 0 => v) /\ fifo' = Append(fifo, [aux |-> TRUE, val |-> v])
  BY DEF MouseByte
<1>2. [aux |-> TRUE, val |-> v] \in Byte
  BY ByteType
<1>3. PICK b \in Byte : b = [aux |-> TRUE, val |-> v]
  BY <1>2
<1>4. b.aux /\ (phase = 0 => b.val)
  BY <1>1, <1>3
<1>5. phase' = (phase + 1) % 3 /\ phase \in 0..2 /\ UNCHANGED <<ringVars, cycle, readerVars, pit, got>>
  BY DEF MouseByte, InputInv, KeyType
<1>6. phase' \in 0..2
  BY <1>5
<1>7. InputInv' /\ Waiting' = Append(Waiting, b)
  BY <1>1, <1>3, <1>5, <1>6, ByteArrives
<1>8. UNCHANGED <<ringVars, cycle, got>>
  BY <1>5
<1> QED
  BY <1>4, <1>5, <1>7, <1>8 DEF Arrives

(* The reader's steps that take nothing: the place moves on, and nothing   *)
(* but its registers changes.                                              *)
LEMMA MovesOn ==
    ASSUME InputInv, pit = "none" \/ pc' = "off", pit' = pit \/ pc' = "off", pc' \in Pcs,
           UNCHANGED <<hwVars, ringVars, cycle, got>>,
           pc \notin {"put", "store", "feed"}, pc' \notin {"put", "store", "feed"},
           Front', Loaded'
    PROVE  InputInv' /\ Quiet
<1>1. /\ fifo' = fifo /\ fifo \in Seq(Byte) /\ phase' = phase /\ cycle' = cycle
      /\ kb_buf' = kb_buf /\ kb_head' = kb_head /\ kb_tail' = kb_tail
  BY DEF InputInv, KeyType, ringVars, hwVars
<1>2. KeyType'
  BY <1>1 DEF InputInv, KeyType
<1>3. Alone'
  BY DEF InputInv, Alone
<1>4. Hand'
  BY DEF Hand
<1>5. Waiting' = Waiting
  BY <1>1 DEF Waiting, InHand
<1>6. UNCHANGED <<ringVars, cycle, phase, got>>
  BY <1>1 DEF ringVars
<1> QED
  BY <1>2, <1>3, <1>4, <1>5, <1>6 DEF InputInv, Quiet

LEMMA QuietKinds ==
    ASSUME InputInv, ~KernelShell,
           ReadLine \/ Serial \/ Status \/ Check \/ Tick \/ PitDrained \/ PopEvent
    PROVE  InputInv' /\ Quiet
<1>1. CASE ReadLine
  <2>1. /\ pit = "none" /\ pit' = pit /\ pc = "off" /\ pc' = "top"
        /\ UNCHANGED <<hwVars, ringVars, cycle, got>>
    BY <1>1 DEF ReadLine, Runs
  <2> QED
    BY <2>1, MovesOn DEF Front, Loaded, Pcs
<1>2. CASE Serial
  <2>1. /\ pit = "none" /\ pit' = pit /\ pc = "top" /\ pc' \in {"off", "top"}
        /\ UNCHANGED <<hwVars, ringVars, cycle, got>>
    BY <1>2 DEF Serial, Runs
  <2> QED
    BY <2>1, MovesOn DEF Front, Loaded, Pcs
<1>3. CASE Status
  <2>1. /\ pit = "none" /\ pit' = pit /\ pc \in {"top", "drain"}
        /\ IF fifo = <<>> THEN pc' = "check" ELSE pc' = "data" /\ st' = Head(fifo)
        /\ UNCHANGED <<hwVars, ringVars, cycle, got>>
    BY <1>3 DEF Status, Runs
  <2>2. fifo' = fifo
    BY <2>1 DEF hwVars
  <2>3. Front' /\ Loaded' /\ pc' \in {"check", "data"}
    BY <2>1, <2>2 DEF Front, Loaded
  <2> QED
    BY <2>1, <2>3, MovesOn DEF Pcs
<1>4. CASE Check
  <2>1. /\ pit = "none" /\ pit' = pit /\ pc = "check"
        /\ IF kb_head # kb_tail THEN pc' = "get" /\ reg' = kb_tail ELSE pc' = "top"
        /\ UNCHANGED <<hwVars, ringVars, cycle, got>>
    BY <1>4 DEF Check, Runs
  <2>2. kb_head' = kb_head /\ kb_tail' = kb_tail
    BY <2>1 DEF ringVars
  <2>3. Front' /\ Loaded' /\ pc' \in {"get", "top"}
    BY <2>1, <2>2 DEF Front, Loaded
  <2> QED
    BY <2>1, <2>3, MovesOn DEF Pcs
<1>5. CASE Tick
  <2>1. /\ pit = "none" /\ ~Masked
        /\ UNCHANGED <<hwVars, ringVars, cycle, readerVars, got>>
    BY <1>5 DEF Tick
  <2>2. pc = "off" /\ pc' = "off"
    BY <2>1 DEF Masked, readerVars
  <2> QED
    BY <2>1, <2>2, MovesOn DEF Front, Loaded, Pcs
<1>6. CASE PitDrained
  <2>1. pit = "drain" /\ UNCHANGED <<hwVars, ringVars, cycle, readerVars, got>>
    BY <1>6 DEF PitDrained
  <2>2. pc = "off" /\ pc' = "off"
    BY <2>1 DEF InputInv, Alone, readerVars
  <2> QED
    BY <2>1, <2>2, MovesOn DEF Front, Loaded, Pcs
<1>7. CASE PopEvent
  <2>1. pit = "none" /\ pc = "off" /\ UNCHANGED <<hwVars, ringVars, cycle, readerVars, got>>
    BY <1>7 DEF PopEvent, Runs
  <2>2. pc' = "off"
    BY <2>1 DEF readerVars
  <2> QED
    BY <2>1, <2>2, MovesOn DEF Front, Loaded, Pcs
<1> QED
  BY <1>1, <1>2, <1>3, <1>4, <1>5, <1>6, <1>7

LEMMA DataKind ==
    ASSUME InputInv, Data
    PROVE  InputInv' /\ Quiet
<1>1. /\ fifo \in Seq(Byte) /\ fifo # <<>> /\ st = Head(fifo) /\ pit = "none"
      /\ pc = "data" /\ kb_buf' = kb_buf /\ kb_head' = kb_head /\ kb_tail' = kb_tail
      /\ phase' = phase /\ cycle' = cycle /\ got' = got /\ pit' = pit
  BY DEF InputInv, KeyType, Front, Data, Runs, ringVars
<1>2. /\ dat' = Head(fifo) /\ fifo' = Tail(fifo)
      /\ pc' = IF Head(fifo).aux THEN "feed" ELSE "put"
  BY <1>1 DEF Data
<1>3. /\ Head(fifo) \in Byte /\ Tail(fifo) \in Seq(Byte) /\ fifo = <<Head(fifo)>> \o Tail(fifo)
  BY <1>1, FrontBack
<1>4. PICK b \in Byte : b = Head(fifo) /\ b.aux \in BOOLEAN
  BY <1>3, ByteType
<1>5. pc' \in {"feed", "put"} /\ (pc' = "feed" => b.aux) /\ (pc' = "put" => ~b.aux)
  BY <1>2, <1>4
<1>6. KeyType'
  BY <1>1, <1>2, <1>3, <1>5 DEF InputInv, KeyType, Pcs
<1>7. Alone' /\ Front' /\ Loaded'
  BY <1>1, <1>5 DEF Alone, Front, Loaded
<1>8. Hand'
  BY <1>2, <1>4, <1>5 DEF Hand
<1>9. Waiting' = Waiting
  <2>1. Waiting' = <<Head(fifo)>> \o Tail(fifo)
    BY <1>2, <1>5 DEF Waiting, InHand
  <2>2. Waiting = <<>> \o fifo
    BY <1>1 DEF Waiting, InHand
  <2> QED
    BY <1>1, <1>3, <2>1, <2>2, EmptyHand
<1> QED
  BY <1>1, <1>6, <1>7, <1>8, <1>9 DEF InputInv, Quiet, ringVars

(* The byte in the reader's hand is used up.                               *)
LEMMA HandUsed ==
    ASSUME InputInv, pc \in {"put", "store", "feed"}, pc' \notin {"put", "store", "feed"}, fifo' = fifo
    PROVE  dat \in Byte /\ Waiting = <<dat>> \o Waiting'
<1>1. dat \in Byte /\ fifo \in Seq(Byte)
  BY DEF InputInv, KeyType, Hand
<1>2. Waiting = <<dat>> \o fifo
  BY DEF Waiting, InHand
<1>3. Waiting' = <<>> \o fifo
  BY DEF Waiting, InHand
<1> QED
  BY <1>1, <1>2, <1>3, EmptyHand

LEMMA Fed ==
    ASSUME NEW v \in BOOLEAN, FeedMouse(v), cycle \in 0..2
    PROVE  cycle' = (IF cycle = 0 /\ ~v THEN cycle ELSE (cycle + 1) % 3) /\ cycle' \in 0..2
<1>1. CASE cycle = 0 /\ ~v
  BY <1>1 DEF FeedMouse
<1>2. CASE ~(cycle = 0 /\ ~v)
  BY <1>2 DEF FeedMouse
<1> QED
  BY <1>1, <1>2

LEMMA FeedKind ==
    ASSUME InputInv, Feed
    PROVE  InputInv' /\ MouseTaken
<1>1. /\ fifo' = fifo /\ pit = "none" /\ cycle \in 0..2
      /\ pc = "feed" /\ kb_buf' = kb_buf /\ kb_head' = kb_head /\ kb_tail' = kb_tail
      /\ phase' = phase /\ got' = got /\ pit' = pit /\ pc' = "drain" /\ dat \in Byte /\ dat.aux
  BY DEF InputInv, KeyType, Hand, Feed, Runs, ringVars, hwVars
<1>2. FeedMouse(dat.val) /\ dat.val \in BOOLEAN
  BY <1>1, ByteType DEF Feed
<1>3. cycle' = (IF cycle = 0 /\ ~dat.val THEN cycle ELSE (cycle + 1) % 3) /\ cycle' \in 0..2
  BY <1>1, <1>2, Fed
<1>4. Waiting = <<dat>> \o Waiting'
  BY <1>1, HandUsed
<1>5. InputInv'
  BY <1>1, <1>3 DEF InputInv, KeyType, Alone, Front, Hand, Loaded, Pcs
<1>6. UNCHANGED <<ringVars, phase, got>>
  BY <1>1 DEF ringVars
<1> QED
  BY <1>1, <1>3, <1>4, <1>5, <1>6 DEF MouseTaken

LEMMA PutLoadKind ==
    ASSUME InputInv, PutLoad
    PROVE  InputInv' /\ (Quiet \/ KeyDropped)
<1>1. /\ fifo' = fifo /\ pit = "none" /\ cycle' = cycle
      /\ pc = "put" /\ kb_buf' = kb_buf /\ kb_head' = kb_head /\ kb_tail' = kb_tail
      /\ phase' = phase /\ got' = got /\ pit' = pit /\ dat \in Byte /\ ~dat.aux
  BY DEF InputInv, Hand, PutLoad, Runs, ringVars, hwVars
<1>2. CASE Inc(kb_head) # kb_tail
  <2>1. pc' = "store" /\ reg' = kb_head /\ dat' = dat
    BY <1>2 DEF PutLoad
  <2>2. Inc(kb_head)' = Inc(kb_head)
    BY <1>1 DEF Inc
  <2>3. InputInv'
    BY <1>1, <1>2, <2>1, <2>2 DEF InputInv, KeyType, Alone, Front, Hand, Loaded, Pcs
  <2>4. Waiting' = Waiting
    BY <1>1, <2>1 DEF Waiting, InHand
  <2> QED
    BY <1>1, <2>3, <2>4 DEF Quiet, ringVars
<1>3. CASE Inc(kb_head) = kb_tail
  <2>1. pc' = "drain"
    BY <1>3 DEF PutLoad
  <2>2. InputInv'
    BY <1>1, <2>1 DEF InputInv, KeyType, Alone, Front, Hand, Loaded, Pcs
  <2>3. Waiting = <<dat>> \o Waiting'
    BY <1>1, <2>1, HandUsed
  <2> QED
    BY <1>1, <1>3, <2>2, <2>3 DEF KeyDropped, ringVars
<1> QED
  BY <1>2, <1>3

LEMMA PutStoreKind ==
    ASSUME InputInv, PutStore
    PROVE  InputInv' /\ KeyStored
<1>1. /\ fifo' = fifo /\ pit = "none" /\ cycle' = cycle /\ pc = "store" /\ pc' = "drain"
      /\ kb_tail' = kb_tail /\ phase' = phase /\ got' = got /\ pit' = pit
      /\ dat \in Byte /\ ~dat.aux /\ reg = kb_head /\ Inc(kb_head) # kb_tail
  BY DEF InputInv, Hand, Loaded, PutStore, Runs, hwVars
<1>2. kb_buf' = [kb_buf EXCEPT ![kb_head] = dat.val] /\ kb_head' = Inc(kb_head)
  BY <1>1 DEF PutStore
<1>3. dat.val \in Stored
  BY <1>1, ByteType DEF Stored
<1>4. /\ kb_buf \in [Index -> Stored] /\ kb_head \in Index /\ Inc(kb_head) \in Index
  BY RingWaits DEF InputInv, KeyType
<1>5. kb_buf' \in [Index -> Stored] /\ kb_head' \in Index
  BY <1>2, <1>3, <1>4
<1>6. InputInv'
  BY <1>1, <1>5 DEF InputInv, KeyType, Alone, Front, Hand, Loaded, Pcs
<1>7. Waiting = <<dat>> \o Waiting'
  BY <1>1, HandUsed
<1> QED
  BY <1>1, <1>2, <1>6, <1>7 DEF KeyStored

LEMMA GetKind ==
    ASSUME InputInv, Get
    PROVE  InputInv' /\ KeyTaken
<1>1. /\ fifo' = fifo /\ pit = "none" /\ cycle' = cycle /\ pc = "get" /\ pc' \in {"off", "top"}
      /\ kb_buf' = kb_buf /\ kb_head' = kb_head /\ phase' = phase /\ pit' = pit
      /\ reg = kb_tail /\ kb_head # kb_tail /\ kb_tail' = Inc(kb_tail) /\ got' = kb_buf[kb_tail]
  BY DEF InputInv, Loaded, Get, Runs, hwVars
<1>2. kb_tail' \in Index
  BY <1>1, RingWaits DEF InputInv, KeyType
<1>3. InputInv'
  BY <1>1, <1>2 DEF InputInv, KeyType, Alone, Front, Hand, Loaded, Pcs
<1>4. Waiting' = Waiting
  BY <1>1 DEF Waiting, InHand
<1> QED
  BY <1>1, <1>3, <1>4 DEF KeyTaken

LEMMA PitByteKind ==
    ASSUME InputInv, PitByte
    PROVE  InputInv' /\ (MouseTaken \/ KeyStored \/ KeyDropped)
<1>1. /\ pit = "drain" /\ pit' = pit /\ pc = "off" /\ pc' = "off" /\ fifo \in Seq(Byte) /\ fifo # <<>>
      /\ fifo' = Tail(fifo) /\ phase' = phase /\ kb_tail' = kb_tail /\ got' = got /\ cycle \in 0..2
  BY DEF InputInv, KeyType, Alone, PitByte, readerVars
<1>2. PICK b \in Byte : b = Head(fifo)
  BY <1>1, FrontBack
<1>3. fifo' \in Seq(Byte) /\ Waiting = <<b>> \o Waiting'
  <2>1. Tail(fifo) \in Seq(Byte) /\ fifo = <<b>> \o Tail(fifo)
    BY <1>1, <1>2, FrontBack
  <2>2. Waiting = <<>> \o fifo /\ Waiting' = <<>> \o Tail(fifo)
    BY <1>1 DEF Waiting, InHand
  <2> QED
    BY <1>1, <2>1, <2>2, EmptyHand
<1>4. CASE b.aux
  <2>1. FeedMouse(b.val) /\ kb_buf' = kb_buf /\ kb_head' = kb_head /\ b.val \in BOOLEAN
    BY <1>2, <1>4, ByteType DEF PitByte
  <2>2. cycle' = (IF cycle = 0 /\ ~b.val THEN cycle ELSE (cycle + 1) % 3) /\ cycle' \in 0..2
    BY <1>1, <2>1, Fed
  <2>3. InputInv'
    BY <1>1, <1>3, <2>1, <2>2 DEF InputInv, KeyType, Alone, Front, Hand, Loaded, Pcs
  <2>4. UNCHANGED <<ringVars, phase, got>>
    BY <1>1, <2>1 DEF ringVars
  <2> QED
    BY <1>3, <1>4, <2>2, <2>3, <2>4 DEF MouseTaken
<1>5. CASE ~b.aux
  <2>1. Put(b.val) /\ cycle' = cycle /\ b.val \in Stored
    BY <1>2, <1>5, ByteType DEF PitByte, Stored
  <2>2. /\ kb_buf \in [Index -> Stored] /\ kb_head \in Index /\ Inc(kb_head) \in Index
    BY RingWaits DEF InputInv, KeyType
  <2>3. CASE Inc(kb_head) # kb_tail
    <3>1. kb_buf' = [kb_buf EXCEPT ![kb_head] = b.val] /\ kb_head' = Inc(kb_head)
      BY <2>1, <2>3 DEF Put
    <3>2. kb_buf' \in [Index -> Stored] /\ kb_head' \in Index
      BY <2>1, <2>2, <3>1
    <3>3. InputInv'
      BY <1>1, <1>3, <2>1, <3>2 DEF InputInv, KeyType, Alone, Front, Hand, Loaded, Pcs
    <3> QED
      BY <1>1, <1>3, <1>5, <2>1, <2>3, <3>1, <3>3 DEF KeyStored
  <2>4. CASE Inc(kb_head) = kb_tail
    <3>1. kb_buf' = kb_buf /\ kb_head' = kb_head
      BY <2>1, <2>4 DEF Put
    <3>2. InputInv'
      BY <1>1, <1>3, <2>1, <3>1 DEF InputInv, KeyType, Alone, Front, Hand, Loaded, Pcs
    <3>3. UNCHANGED <<ringVars, cycle, phase, got>>
      BY <1>1, <2>1, <3>1 DEF ringVars
    <3> QED
      BY <1>3, <1>5, <2>4, <3>2, <3>3 DEF KeyDropped
  <2> QED
    BY <2>3, <2>4
<1> QED
  BY <1>4, <1>5

LEMMA PitCtrlCKind ==
    ASSUME InputInv, PitCtrlC
    PROVE  InputInv' /\ (KeyTaken \/ Quiet)
<1>1. /\ pit = "ctrl_c" /\ pc = "off" /\ pc' = "off" /\ fifo' = fifo
      /\ phase' = phase /\ cycle' = cycle /\ kb_buf' = kb_buf /\ kb_head' = kb_head
  BY DEF InputInv, Alone, PitCtrlC, readerVars, hwVars
<1>2. Waiting' = Waiting
  BY <1>1 DEF Waiting, InHand
<1>3. CASE kb_head # kb_tail /\ Eaten(kb_buf[kb_tail])
  <2>1. kb_tail' = Inc(kb_tail) /\ got' = kb_buf[kb_tail]
    BY <1>3 DEF PitCtrlC
  <2>2. kb_tail' \in Index
    BY <2>1, RingWaits DEF InputInv, KeyType
  <2>3. InputInv'
    BY <1>1, <2>2 DEF InputInv, KeyType, Alone, Front, Hand, Loaded, Pcs
  <2> QED
    BY <1>1, <1>2, <1>3, <2>1, <2>3 DEF KeyTaken
<1>4. CASE ~(kb_head # kb_tail /\ Eaten(kb_buf[kb_tail]))
  <2>1. kb_tail' = kb_tail /\ got' = got
    BY <1>4 DEF PitCtrlC
  <2>2. InputInv'
    BY <1>1, <2>1 DEF InputInv, KeyType, Alone, Front, Hand, Loaded, Pcs
  <2> QED
    BY <1>1, <1>2, <2>1, <2>2 DEF Quiet, ringVars
<1> QED
  BY <1>3, <1>4

LEMMA EveryStep ==
    ASSUME InputInv, ~KernelShell, Next
    PROVE  InputInv' /\ Kinds
  BY KeyByteKind, MouseByteKind, QuietKinds, DataKind, FeedKind, PutLoadKind, PutStoreKind, GetKind,
     PitByteKind, PitCtrlCKind DEF Next, Reader, Pit, Kinds

-----------------------------------------------------------------------------
(* Packets.  That the driver is in step is not inductive: a byte it drops  *)
(* would put it out of step, so the first byte of every packet on its way  *)
(* must have bit 3 set (Marked).                                           *)

InStep(w, c, p) == (c + Cardinality(MousePlaces(w))) % 3 = p

Marked(w, c) ==
    \A i \in MousePlaces(w) :
        (c + Cardinality(UpTo(MousePlaces(w), i)) - 1) % 3 = 0 => w[i].val

LEMMA ModThree ==
    ASSUME NEW n \in Nat, NEW c \in 0..2
    PROVE  /\ ((c + 1) % 3) \in 0..2 /\ (c + n) % 3 \in 0..2
           /\ (((c + 1) % 3) + n) % 3 = (c + n + 1) % 3
           /\ (((c + n) % 3) + 1) % 3 = (c + n + 1) % 3
           /\ c % 3 = c
  OBVIOUS

LEMMA PacketArrives ==
    ASSUME NEW w \in Seq(Byte), NEW c \in 0..2, NEW p \in 0..2, NEW b \in Byte,
           InStep(w, c, p), Marked(w, c), b.aux => (p = 0 => b.val)
    PROVE  /\ InStep(Append(w, b), c, IF b.aux THEN (p + 1) % 3 ELSE p)
           /\ Marked(Append(w, b), c)
<1> DEFINE S == MousePlaces(w)
<1>1. S \in SUBSET (1..Len(w)) /\ Len(w) \in Nat /\ Cardinality(S) \in Nat
  BY PlacesFinite
<1>2. PICK r \in Seq(Byte) : r = Append(w, b)
  BY SeqFacts
<1>3. r[Len(w) + 1] = b /\ \A i \in 1..Len(w) : r[i] = w[i]
  BY <1>2, SeqFacts
<1> DEFINE T == MousePlaces(r)
<1>4. T = S \cup (IF b.aux THEN {Len(w) + 1} ELSE {})
  BY <1>2, PlacesAppend
<1>5. Cardinality(T) = Cardinality(S) + (IF b.aux THEN 1 ELSE 0)
  BY <1>2, MouseCount
<1>6. (c + Cardinality(S)) % 3 = p /\ \A i \in S : (c + Cardinality(UpTo(S, i)) - 1) % 3 = 0 => w[i].val
  BY DEF InStep, Marked
<1> HIDE DEF S, T
<1>7. InStep(r, c, IF b.aux THEN (p + 1) % 3 ELSE p)
  <2>1. CASE b.aux
    <3>1. Cardinality(T) = Cardinality(S) + 1
      BY <1>5, <2>1
    <3>2. PICK n \in Nat : n = Cardinality(S)
      BY <1>1
    <3>3. (c + (n + 1)) % 3 = (p + 1) % 3
      <4>1. (c + n) % 3 = p
        BY <1>6, <3>2
      <4>2. (c + (n + 1)) % 3 = (((c + n) % 3) + 1) % 3
        OBVIOUS
      <4> QED
        BY <4>1, <4>2
    <3>4. (c + Cardinality(T)) % 3 = (p + 1) % 3
      BY <3>1, <3>2, <3>3
    <3> QED
      BY <2>1, <3>4 DEF InStep, T
  <2>2. CASE ~b.aux
    <3>1. Cardinality(T) = Cardinality(S)
      BY <1>1, <1>5, <2>2
    <3> QED
      BY <1>6, <2>2, <3>1 DEF InStep, T
  <2> QED
    BY <2>1, <2>2
<1>8. ASSUME NEW i \in T, (c + Cardinality(UpTo(T, i)) - 1) % 3 = 0 PROVE r[i].val
  <2>1. CASE i \in S
    <3>1. UpTo(T, i) = UpTo(S, i)
      BY <1>1, <1>4, <2>1 DEF UpTo
    <3>2. (c + Cardinality(UpTo(S, i)) - 1) % 3 = 0
      BY <1>8, <3>1
    <3>3. w[i].val /\ r[i] = w[i]
      BY <1>1, <1>3, <1>6, <2>1, <3>2
    <3> QED
      BY <3>3
  <2>2. CASE i \notin S
    <3>1. b.aux /\ i = Len(w) + 1
      BY <1>4, <2>2
    <3>2. UpTo(T, i) = T
      <4>1. \A j \in S : j \in 1..i
        BY <1>1, <3>1
      <4>2. i \in 1..i
        BY <1>1, <3>1
      <4>3. T = S \cup {i}
        BY <1>4, <3>1
      <4> QED
        BY <4>1, <4>2, <4>3 DEF UpTo
    <3>3. Cardinality(UpTo(T, i)) = Cardinality(S) + 1
      BY <1>5, <3>1, <3>2
    <3>4. (c + Cardinality(UpTo(T, i)) - 1) % 3 = (c + Cardinality(S)) % 3
      <4>1. PICK n \in Nat : n = Cardinality(S)
        BY <1>1
      <4>2. c + (n + 1) - 1 = c + n
        OBVIOUS
      <4> QED
        BY <3>3, <4>1, <4>2
    <3>5. p = 0
      BY <1>6, <1>8, <3>4
    <3>6. b.val
      BY <3>1, <3>5
    <3>7. r[i] = b
      BY <1>3, <3>1
    <3> QED
      BY <3>6, <3>7
  <2> QED
    BY <2>1, <2>2
<1>9. Marked(r, c)
  BY <1>8 DEF Marked, T
<1> QED
  BY <1>2, <1>7, <1>9

LEMMA PacketTaken ==
    ASSUME NEW w \in Seq(Byte), NEW v \in Seq(Byte), NEW c \in 0..2, NEW p \in 0..2, NEW b \in Byte,
           w = <<b>> \o v, InStep(w, c, p), Marked(w, c)
    PROVE  /\ b.aux => /\ ~(c = 0 /\ ~b.val)
                       /\ InStep(v, (c + 1) % 3, p) /\ Marked(v, (c + 1) % 3)
           /\ ~b.aux => InStep(v, c, p) /\ Marked(v, c)
<1> DEFINE S == MousePlaces(v)
           T == MousePlaces(w)
<1>1. S \in SUBSET (1..Len(v)) /\ Len(v) \in Nat /\ Cardinality(S) \in Nat
  BY PlacesFinite
<1>2. T \in SUBSET (1..Len(w)) /\ Len(w) \in Nat
  BY PlacesFinite
<1>3. w[1] = b /\ \A i \in 1..Len(v) : w[i + 1] = v[i]
  BY SeqFacts
<1>4. T = Shift(S) \cup (IF b.aux THEN {1} ELSE {})
  BY PlacesCons
<1>5. Cardinality(T) = Cardinality(S) + (IF b.aux THEN 1 ELSE 0)
  BY MouseCount
<1>6. (c + Cardinality(T)) % 3 = p /\ \A i \in T : (c + Cardinality(UpTo(T, i)) - 1) % 3 = 0 => w[i].val
  BY DEF InStep, Marked
<1> HIDE DEF S, T
<1>7. \A i \in S : Cardinality(UpTo(S, i)) \in Nat
  BY <1>1, UpToFinite
<1>8. ASSUME NEW i \in S
      PROVE  /\ i + 1 \in T /\ w[i + 1] = v[i]
             /\ Cardinality(UpTo(T, i + 1)) = Cardinality(UpTo(S, i)) + (IF b.aux THEN 1 ELSE 0)
  <2>1. PICK k : k = i + 1
    OBVIOUS
  <2>2. /\ k \in Shift(S)
        /\ Cardinality(UpTo(Shift(S), k)) = Cardinality(UpTo(S, i))
        /\ Cardinality(UpTo(Shift(S) \cup {1}, k)) = Cardinality(UpTo(S, i)) + 1
    BY <1>1, <2>1, ShiftRankAt
  <2>3. CASE b.aux
    <3>1. T = Shift(S) \cup {1}
      BY <1>4, <2>3
    <3> QED
      BY <1>1, <1>3, <2>1, <2>2, <2>3, <3>1
  <2>4. CASE ~b.aux
    <3>1. T = Shift(S)
      BY <1>4, <2>4
    <3> QED
      BY <1>1, <1>3, <1>7, <2>1, <2>2, <2>4, <3>1
  <2> QED
    BY <2>3, <2>4
<1>9. CASE b.aux
  <2>1. ~(c = 0 /\ ~b.val)
    <3>1. 1 \in T /\ UpTo(T, 1) = {1}
      BY <1>2, <1>4, <1>9 DEF UpTo
    <3>2. Cardinality(UpTo(T, 1)) = 1
      BY <3>1, FS_Singleton
    <3>3. c = 0 => (c + Cardinality(UpTo(T, 1)) - 1) % 3 = 0
      BY <3>2
    <3> QED
      BY <1>3, <1>6, <3>1, <3>3
  <2>2. InStep(v, (c + 1) % 3, p)
    <3>1. Cardinality(T) = Cardinality(S) + 1
      BY <1>5, <1>9
    <3>2. (((c + 1) % 3) + Cardinality(S)) % 3 = (c + Cardinality(T)) % 3
      BY <1>1, <3>1
    <3> QED
      BY <1>6, <3>2 DEF InStep, S
  <2>3. ASSUME NEW i \in S, (((c + 1) % 3) + Cardinality(UpTo(S, i)) - 1) % 3 = 0 PROVE v[i].val
    <3>1. PICK n \in Nat : n = Cardinality(UpTo(S, i))
      BY <1>7
    <3>2. Cardinality(UpTo(T, i + 1)) = n + 1
      BY <1>8, <1>9, <3>1
    <3>3. (c + Cardinality(UpTo(T, i + 1)) - 1) % 3 = 0
      BY <2>3, <3>1, <3>2, SMTT(30)
    <3> QED
      BY <1>6, <1>8, <3>3
  <2>4. Marked(v, (c + 1) % 3)
    BY <2>3 DEF Marked, S
  <2> QED
    BY <1>9, <2>1, <2>2, <2>4
<1>10. CASE ~b.aux
  <2>1. InStep(v, c, p)
    <3>1. Cardinality(T) = Cardinality(S)
      BY <1>1, <1>5, <1>10
    <3> QED
      BY <1>6, <3>1 DEF InStep, S
  <2>2. ASSUME NEW i \in S, (c + Cardinality(UpTo(S, i)) - 1) % 3 = 0 PROVE v[i].val
    <3>1. Cardinality(UpTo(T, i + 1)) = Cardinality(UpTo(S, i))
      BY <1>7, <1>8, <1>10
    <3> QED
      BY <1>6, <1>8, <2>2, <3>1
  <2>3. Marked(v, c)
    BY <2>2 DEF Marked, S
  <2> QED
    BY <1>10, <2>1, <2>3
<1> QED
  BY <1>9, <1>10

LEMMA HeldType ==
    ASSUME NEW p, NEW d, NEW f \in Seq(Byte), p \in {"put", "store", "feed"} => d \in Byte
    PROVE  (IF p \in {"put", "store", "feed"} THEN <<d>> ELSE <<>>) \o f \in Seq(Byte)
<1>1. CASE p \in {"put", "store", "feed"}
  <2>1. <<d>> \o f \in Seq(Byte)
    BY <1>1, SeqFacts
  <2> QED
    BY <1>1, <2>1
<1>2. CASE p \notin {"put", "store", "feed"}
  BY <1>2, EmptyHand
<1> QED
  BY <1>1, <1>2

LEMMA WaitingType ==
    /\ InputInv => Waiting \in Seq(Byte)
    /\ InputInv' => Waiting' \in Seq(Byte)
<1>1. InputInv => Waiting \in Seq(Byte)
  <2> HAVE InputInv
  <2>1. fifo \in Seq(Byte) /\ (pc \in {"put", "store", "feed"} => dat \in Byte)
    BY DEF InputInv, KeyType, Hand
  <2> QED
    BY <2>1, HeldType DEF Waiting, InHand
<1>2. InputInv' => Waiting' \in Seq(Byte)
  <2> HAVE InputInv'
  <2>1. fifo' \in Seq(Byte) /\ (pc' \in {"put", "store", "feed"} => dat' \in Byte)
    BY DEF InputInv, KeyType, Hand
  <2> QED
    BY <2>1, HeldType DEF Waiting, InHand
<1> QED
  BY <1>1, <1>2

PacketInv == InputInv /\ InStep(Waiting, cycle, phase) /\ Marked(Waiting, cycle)

LEMMA InputInit == Init => PacketInv
<1> HAVE Init
<1>1. RingSize \in Nat /\ RingSize > 1
  BY RingConstants
<1>2. fifo = <<>> /\ fifo \in Seq(Byte) /\ 0 \in Index /\ kb_buf \in [Index -> Stored]
  BY <1>1 DEF Init, Index, Stored
<1>3. InputInv
  BY <1>2 DEF Init, InputInv, KeyType, Alone, Front, Hand, Loaded, Pcs
<1>4. Waiting = <<>>
  BY DEF Init, Waiting, InHand
<1>5. MousePlaces(<<>>) = {}
  BY DEF MousePlaces
<1>6. Cardinality({}) = 0
  BY FS_EmptySet
<1>7. InStep(<<>>, 0, 0) /\ Marked(<<>>, 0)
  <2>1. PICK e : e = <<>>
    OBVIOUS
  <2>2. MousePlaces(e) = {} /\ Cardinality(MousePlaces(e)) = 0
    BY <1>5, <1>6, <2>1
  <2>3. InStep(e, 0, 0)
    BY <2>2 DEF InStep
  <2>4. Marked(e, 0)
    BY <2>2 DEF Marked
  <2> QED
    BY <2>1, <2>3, <2>4
<1> QED
  BY <1>3, <1>4, <1>7 DEF Init, PacketInv

LEMMA PacketStep ==
    ASSUME PacketInv, InputInv', Kinds
    PROVE  PacketInv'
<1>1. /\ Waiting \in Seq(Byte) /\ Waiting' \in Seq(Byte)
      /\ InStep(Waiting, cycle, phase) /\ Marked(Waiting, cycle)
  BY WaitingType DEF PacketInv
<1>2. cycle \in 0..2 /\ phase \in 0..2
  BY DEF PacketInv, InputInv, KeyType
<1>3. CASE Waiting' = Waiting /\ cycle' = cycle /\ phase' = phase
  BY <1>1, <1>3 DEF PacketInv, InStep, Marked
<1>4. CASE Arrives
  <2>1. PICK b \in Byte : /\ Waiting' = Append(Waiting, b) /\ cycle' = cycle
                          /\ IF b.aux THEN (phase = 0 => b.val) /\ phase' = (phase + 1) % 3
                             ELSE phase' = phase
    BY <1>4 DEF Arrives
  <2>2. b.aux \in BOOLEAN /\ (b.aux => (phase = 0 => b.val))
    BY <2>1, ByteType
  <2>3. /\ InStep(Append(Waiting, b), cycle, IF b.aux THEN (phase + 1) % 3 ELSE phase)
        /\ Marked(Append(Waiting, b), cycle)
    BY <1>1, <1>2, <2>2, PacketArrives
  <2>4. phase' = IF b.aux THEN (phase + 1) % 3 ELSE phase
    BY <2>1
  <2> QED
    BY <2>1, <2>3, <2>4 DEF PacketInv, InStep, Marked
<1>5. CASE MouseTaken
  <2>1. PICK b \in Byte : /\ b.aux /\ Waiting = <<b>> \o Waiting' /\ phase' = phase
                          /\ cycle' = IF cycle = 0 /\ ~b.val THEN cycle ELSE (cycle + 1) % 3
    BY <1>5 DEF MouseTaken
  <2>2. /\ ~(cycle = 0 /\ ~b.val)
        /\ InStep(Waiting', (cycle + 1) % 3, phase) /\ Marked(Waiting', (cycle + 1) % 3)
    BY <1>1, <1>2, <2>1, PacketTaken
  <2>3. cycle' = (cycle + 1) % 3
    BY <2>1, <2>2
  <2> QED
    BY <2>1, <2>2, <2>3 DEF PacketInv, InStep, Marked
<1>6. CASE KeyStored \/ KeyDropped
  <2>1. PICK b \in Byte : ~b.aux /\ Waiting = <<b>> \o Waiting' /\ phase' = phase /\ cycle' = cycle
    BY <1>6 DEF KeyStored, KeyDropped
  <2>2. InStep(Waiting', cycle, phase) /\ Marked(Waiting', cycle)
    BY <1>1, <1>2, <2>1, PacketTaken
  <2> QED
    BY <2>1, <2>2 DEF PacketInv, InStep, Marked
<1> QED
  BY <1>3, <1>4, <1>5, <1>6 DEF Kinds, Quiet, KeyTaken

LEMMA PacketNext == PacketInv /\ ~KernelShell /\ [Next]_vars => PacketInv'
<1> HAVE PacketInv /\ ~KernelShell /\ [Next]_vars
<1>1. CASE Next
  <2>1. InputInv' /\ Kinds
    BY <1>1, EveryStep DEF PacketInv
  <2> QED
    BY <2>1, PacketStep
<1>2. CASE UNCHANGED vars
  BY <1>2 DEF vars, hwVars, ringVars, readerVars, PacketInv, InputInv, KeyType, Alone, Front, Hand, Loaded,
     InStep, Marked, Waiting, InHand, Inc
<1> QED
  BY <1>1, <1>2

(* With interrupts masked in SYS_READ the mouse driver stays in step with  *)
(* the mouse, whoever drains the controller, for any controller and rings: *)
(* drain, feed_byte and the timer interrupt together.                      *)
THEOREM MouseStaysInStep == ASSUME ~KernelShell PROVE Spec => []PacketsAligned
<1>1. Init => PacketInv
  BY InputInit
<1>2. PacketInv /\ [Next]_vars => PacketInv'
  BY PacketNext
<1>3. PacketInv => PacketsAligned
  BY DEF PacketInv, InStep, PacketsAligned, Waiting
<1> QED
  BY <1>1, <1>2, <1>3, PTL DEF Spec

-----------------------------------------------------------------------------
(* The refinement of KeyQueue: the waiting keys are those of the ring,     *)
(* then those of the bytes on their way.                                   *)

LEMMA QueueAppend ==
    ASSUME NEW S, NEW r \in Seq(S), NEW k \in Seq(S), NEW c \in S
    PROVE  r \o Append(k, c) = Append(r \o k, c) /\ Append(r, c) \o k = r \o (<<c>> \o k)
<1>1. PICK e \in Seq(S) : e = <<c>>
  <2>1. <<c>> \in Seq(S)
    OBVIOUS
  <2> QED
    BY <2>1
<1>2. r \o k \in Seq(S)
  OBVIOUS
<1>3. Append(k, c) = k \o e /\ Append(r, c) = r \o e /\ Append(r \o k, c) = (r \o k) \o e
  BY <1>1, <1>2, AppendIsConcat
<1>4. r \o (k \o e) = (r \o k) \o e
  BY ConcatAssociative
<1>5. (r \o e) \o k = r \o (e \o k)
  BY ConcatAssociative
<1> QED
  BY <1>1, <1>3, <1>4, <1>5

LEMMA QueueTake ==
    ASSUME NEW S, NEW r \in Seq(S), NEW k \in Seq(S), NEW c \in S, NEW x, x = (<<c>> \o r) \o k
    PROVE  x # <<>> /\ Head(x) = c /\ Tail(x) = r \o k
<1>1. PICK e \in Seq(S) : e = <<c>>
  <2>1. <<c>> \in Seq(S)
    OBVIOUS
  <2> QED
    BY <2>1
<1>2. PICK y \in Seq(S) : y = r \o k
  <2>1. r \o k \in Seq(S)
    OBVIOUS
  <2> QED
    BY <2>1
<1>3. x = <<c>> \o y
  <2>1. (e \o r) \o k = e \o (r \o k)
    BY ConcatAssociative, SMTT(30)
  <2> QED
    BY <1>1, <1>2, <2>1
<1>4. x \in Seq(S) /\ Len(x) = Len(y) + 1 /\ x[1] = c /\ \A i \in 1..Len(y) : x[i + 1] = y[i]
  BY <1>1, <1>3
<1>5. /\ x # <<>> /\ Head(x) = c /\ Tail(x) \in Seq(S) /\ Len(Tail(x)) = Len(y)
      /\ \A i \in 1..Len(y) : Tail(x)[i] = x[i + 1]
  <2>1. Len(y) \in Nat
    OBVIOUS
  <2>2. x # <<>>
    BY <1>4, <2>1
  <2>3. Head(x) = x[1] /\ Tail(x) \in Seq(S) /\ Len(Tail(x)) = Len(x) - 1
    BY <1>4, <2>2
  <2>4. \A i \in 1..(Len(x) - 1) : Tail(x)[i] = x[i + 1]
    BY <1>4, <2>2
  <2>5. Len(x) - 1 = Len(y)
    BY <1>4, <2>1
  <2> QED
    BY <1>4, <2>2, <2>3, <2>4, <2>5
<1>6. Tail(x) = y
  BY <1>4, <1>5, SeqEqual
<1> QED
  BY <1>2, <1>5, <1>6

Dropped(x, n) == [i \in 1..(Len(x) - 1) |-> IF i <= n THEN x[i] ELSE x[i + 1]]

LEMMA QueueDrop ==
    ASSUME NEW S, NEW r \in Seq(S), NEW k \in Seq(S), NEW c \in S, NEW x, x = r \o (<<c>> \o k)
    PROVE  Len(x) > Len(r) /\ r \o k = Dropped(x, Len(r))
<1>1. PICK t \in Seq(S) : t = <<c>> \o k
  <2>1. <<c>> \o k \in Seq(S)
    OBVIOUS
  <2> QED
    BY <2>1
<1>2. Len(t) = Len(k) + 1 /\ \A i \in 1..Len(k) : t[i + 1] = k[i]
  BY <1>1
<1>3. /\ x \in Seq(S) /\ Len(x) = Len(r) + Len(t) /\ Len(r) \in Nat /\ Len(k) \in Nat
      /\ \A i \in 1..Len(x) : x[i] = IF i <= Len(r) THEN r[i] ELSE t[i - Len(r)]
  BY <1>1, ConcatProperties
<1>4. PICK y \in Seq(S) : y = r \o k
  <2>1. r \o k \in Seq(S)
    OBVIOUS
  <2> QED
    BY <2>1
<1>5. /\ Len(y) = Len(r) + Len(k)
      /\ \A i \in 1..Len(y) : y[i] = IF i <= Len(r) THEN r[i] ELSE k[i - Len(r)]
  BY <1>4, ConcatProperties
<1>6. ASSUME NEW i \in 1..(Len(x) - 1)
      PROVE  y[i] = IF i <= Len(r) THEN x[i] ELSE x[i + 1]
  <2>0. i \in 1..Len(y) /\ i \in 1..Len(x) /\ i + 1 \in 1..Len(x)
    BY <1>2, <1>3, <1>5
  <2>1. CASE i <= Len(r)
    BY <1>3, <1>5, <2>0, <2>1
  <2>2. CASE ~(i <= Len(r))
    <3>1. i - Len(r) \in 1..Len(k) /\ (i + 1) - Len(r) = (i - Len(r)) + 1 /\ ~(i + 1 <= Len(r))
      BY <1>2, <1>3, <2>2
    <3>2. x[i + 1] = t[(i + 1) - Len(r)] /\ y[i] = k[i - Len(r)]
      BY <1>3, <1>5, <2>0, <2>2, <3>1
    <3>3. PICK j \in 1..Len(k) : j = i - Len(r)
      BY <3>1
    <3>4. t[j + 1] = k[j]
      BY <1>2
    <3> QED
      BY <2>2, <3>1, <3>2, <3>3, <3>4
  <2> QED
    BY <2>1, <2>2
<1>7. Len(x) > Len(r) /\ 1..Len(y) = 1..(Len(x) - 1) /\ DOMAIN y = 1..Len(y)
  BY <1>2, <1>3, <1>5
<1>8. y = Dropped(x, Len(r))
  BY <1>6, <1>7 DEF Dropped
<1> QED
  BY <1>4, <1>7, <1>8

Keys == Ring \o KeysOf(InHand \o fifo)

(* Of a state and of its successor: the ring and the keys on their way.    *)
LEMMA KeysParts ==
    ASSUME InputInv, InputInv'
    PROVE  /\ Ring = RingOf(kb_buf, kb_head, kb_tail) /\ Ring \in Seq(Stored)
           /\ Ring' = RingOf(kb_buf', kb_head', kb_tail') /\ Ring' \in Seq(Stored)
           /\ Waiting \in Seq(Byte) /\ Waiting' \in Seq(Byte)
           /\ KeysOf(Waiting) \in Seq(Stored) /\ KeysOf(Waiting') \in Seq(Stored)
           /\ Keys = Ring \o KeysOf(Waiting) /\ Keys' = Ring' \o KeysOf(Waiting')
<1>1. Ring = RingOf(kb_buf, kb_head, kb_tail) /\ Ring' = RingOf(kb_buf', kb_head', kb_tail')
  BY DEF Ring, RingOf
<1>2. /\ kb_buf \in [Index -> Stored] /\ kb_head \in Index /\ kb_tail \in Index
      /\ kb_buf' \in [Index -> Stored] /\ kb_head' \in Index /\ kb_tail' \in Index
  BY DEF InputInv, KeyType
<1>3. Ring \in Seq(Stored)
  BY <1>1, <1>2, RingType
<1>4. Ring' \in Seq(Stored)
  BY <1>1, <1>2, RingType
<1>5. Waiting \in Seq(Byte) /\ Waiting' \in Seq(Byte)
  BY WaitingType
<1>6. KeysOf(Waiting) \in Seq(Code) /\ KeysOf(Waiting') \in Seq(Code)
  BY <1>5, KeysType
<1>7. \A s \in Seq(Code) : s \in Seq(Stored)
  BY DEF Stored
<1>8. Keys = Ring \o KeysOf(Waiting)
  BY DEF Keys, Waiting
<1>9. Keys' = Ring' \o KeysOf(Waiting')
  BY DEF Keys, Waiting
<1> QED
  BY <1>1, <1>3, <1>4, <1>5, <1>6, <1>7, <1>8, <1>9

LEMMA KeysStep ==
    ASSUME InputInv, InputInv', Kinds
    PROVE  \/ Keys' = Keys /\ got' = got
           \/ \E c \in Code : Keys' = Append(Keys, c) /\ got' = got
           \/ Keys # <<>> /\ got' = Head(Keys) /\ Keys' = Tail(Keys)
           \/ /\ Len(Keys) > RingSize - 1 /\ got' = got
              /\ Keys' = [i \in 1..(Len(Keys) - 1) |->
                             IF i <= RingSize - 1 THEN Keys[i] ELSE Keys[i + 1]]
<1>1. /\ Ring = RingOf(kb_buf, kb_head, kb_tail) /\ Ring \in Seq(Stored)
      /\ Ring' = RingOf(kb_buf', kb_head', kb_tail') /\ Ring' \in Seq(Stored)
      /\ Waiting \in Seq(Byte) /\ Waiting' \in Seq(Byte)
      /\ KeysOf(Waiting) \in Seq(Stored) /\ KeysOf(Waiting') \in Seq(Stored)
      /\ Keys = Ring \o KeysOf(Waiting) /\ Keys' = Ring' \o KeysOf(Waiting')
  BY KeysParts
<1>2. /\ kb_buf \in [Index -> Stored] /\ kb_head \in Index /\ kb_tail \in Index
  BY DEF InputInv, KeyType
<1>3. (kb_buf' = kb_buf /\ kb_head' = kb_head /\ kb_tail' = kb_tail) => Ring' = Ring
  BY <1>1
<1>4. CASE Quiet
  BY <1>1, <1>3, <1>4 DEF Quiet, ringVars
<1>5. CASE Arrives
  <2>1. PICK b \in Byte : Waiting' = Append(Waiting, b) /\ UNCHANGED <<ringVars, got>>
    BY <1>5 DEF Arrives
  <2>2. Ring' = Ring /\ got' = got
    BY <1>3, <2>1 DEF ringVars
  <2>3. KeysOf(Waiting') = IF b.aux THEN KeysOf(Waiting) ELSE Append(KeysOf(Waiting), b.val)
    BY <1>1, <2>1, KeysAppend
  <2>4. CASE b.aux
    BY <1>1, <2>2, <2>3, <2>4
  <2>5. CASE ~b.aux
    <3>1. PICK c \in Code : c = b.val
      BY <2>5, ByteType
    <3>2. c \in Stored
      BY DEF Stored
    <3>3. Ring \o Append(KeysOf(Waiting), c) = Append(Ring \o KeysOf(Waiting), c)
      BY <1>1, <3>2, QueueAppend, SMTT(30)
    <3>4. Keys' = Append(Keys, c)
      BY <1>1, <2>2, <2>3, <2>5, <3>1, <3>3
    <3> QED
      BY <2>2, <3>4
  <2> QED
    BY <2>4, <2>5
<1>6. CASE MouseTaken
  <2>1. PICK b \in Byte : b.aux /\ Waiting = <<b>> \o Waiting' /\ UNCHANGED <<ringVars, got>>
    BY <1>6 DEF MouseTaken
  <2>2. Ring' = Ring /\ got' = got
    BY <1>3, <2>1 DEF ringVars
  <2>3. KeysOf(<<b>> \o Waiting') = KeysOf(Waiting')
    BY <1>1, <2>1, KeysCons
  <2> QED
    BY <1>1, <2>1, <2>2, <2>3
<1>7. CASE KeyStored
  <2>1. PICK b \in Byte : /\ ~b.aux /\ Waiting = <<b>> \o Waiting' /\ Inc(kb_head) # kb_tail
                          /\ kb_buf' = [kb_buf EXCEPT ![kb_head] = b.val] /\ kb_head' = Inc(kb_head)
                          /\ kb_tail' = kb_tail /\ got' = got
    BY <1>7 DEF KeyStored
  <2>2. PICK c \in Code : c = b.val
    BY <2>1, ByteType
  <2>3. c \in Stored
    BY DEF Stored
  <2>4. Ring' = Append(Ring, c)
    BY <1>1, <1>2, <2>1, <2>2, RingPut
  <2>5. KeysOf(<<b>> \o Waiting') = <<c>> \o KeysOf(Waiting')
    BY <1>1, <2>1, <2>2, KeysCons
  <2>6. Append(Ring, c) \o KeysOf(Waiting') = Ring \o (<<c>> \o KeysOf(Waiting'))
    BY <1>1, <2>3, QueueAppend, SMTT(30)
  <2>7. Keys' = Keys
    BY <1>1, <2>1, <2>4, <2>5, <2>6
  <2> QED
    BY <2>1, <2>7
<1>8. CASE KeyDropped
  <2>1. PICK b \in Byte : /\ ~b.aux /\ Waiting = <<b>> \o Waiting' /\ Inc(kb_head) = kb_tail
                          /\ UNCHANGED <<ringVars, got>>
    BY <1>8 DEF KeyDropped
  <2>2. PICK c \in Code : c = b.val
    BY <2>1, ByteType
  <2>3. c \in Stored
    BY DEF Stored
  <2>4. Ring' = Ring /\ got' = got
    BY <1>3, <2>1 DEF ringVars
  <2>5. Len(Ring) = RingSize - 1
    <3>1. Len(Ring) = (kb_head - kb_tail) % RingSize
      BY <1>1, <1>2, RingType
    <3>2. (kb_head - kb_tail) % RingSize = RingSize - 1
      BY <1>2, <2>1, RingWaits
    <3> QED
      BY <3>1, <3>2
  <2>6. KeysOf(<<b>> \o Waiting') = <<c>> \o KeysOf(Waiting')
    BY <1>1, <2>1, <2>2, KeysCons
  <2>7. Keys = Ring \o (<<c>> \o KeysOf(Waiting'))
    BY <1>1, <2>1, <2>6
  <2>8. Len(Keys) > Len(Ring) /\ Ring \o KeysOf(Waiting') = Dropped(Keys, Len(Ring))
    <3>0. PICK x : x = Keys
      OBVIOUS
    <3>1. PICK r \in Seq(Stored), k \in Seq(Stored) : r = Ring /\ k = KeysOf(Waiting')
      BY <1>1
    <3>2. x = r \o (<<c>> \o k)
      BY <2>7, <3>0, <3>1
    <3>3. Len(x) > Len(r) /\ r \o k = Dropped(x, Len(r))
      BY <2>3, <3>2, QueueDrop
    <3> QED
      BY <3>0, <3>1, <3>3
  <2> QED
    BY <1>1, <2>4, <2>5, <2>8 DEF Dropped
<1>9. CASE KeyTaken
  <2>1. /\ kb_head # kb_tail /\ got' = kb_buf[kb_tail] /\ kb_tail' = Inc(kb_tail)
        /\ Waiting' = Waiting /\ kb_buf' = kb_buf /\ kb_head' = kb_head
    BY <1>9 DEF KeyTaken
  <2>2. PICK c \in Stored : c = kb_buf[kb_tail]
    BY <1>2
  <2>3. Ring = <<c>> \o Ring'
    BY <1>1, <1>2, <2>1, <2>2, RingGet
  <2>4. Keys = (<<c>> \o Ring') \o KeysOf(Waiting')
    BY <1>1, <2>1, <2>3
  <2>5. Keys # <<>> /\ Head(Keys) = c /\ Tail(Keys) = Ring' \o KeysOf(Waiting')
    <3>0. PICK x : x = Keys
      OBVIOUS
    <3>1. PICK r \in Seq(Stored), k \in Seq(Stored) : r = Ring' /\ k = KeysOf(Waiting')
      BY <1>1
    <3>2. x = (<<c>> \o r) \o k
      BY <2>4, <3>0, <3>1
    <3>3. x # <<>> /\ Head(x) = c /\ Tail(x) = r \o k
      BY <3>2, QueueTake
    <3> QED
      BY <3>0, <3>1, <3>3
  <2> QED
    BY <1>1, <2>1, <2>2, <2>5
<1> QED
  BY <1>4, <1>5, <1>6, <1>7, <1>8, <1>9 DEF Kinds

LEMMA QueueInit == Init => Keys = <<>> /\ got = "none"
<1> HAVE Init
<1>1. RingSize \in Nat /\ RingSize > 1
  BY RingConstants
<1>2. fifo = <<>> /\ kb_head = 0 /\ kb_tail = 0 /\ 0 \in Index /\ InHand = <<>> /\ got = "none"
  BY <1>1 DEF Init, Index, InHand
<1>3. (0 - 0) % RingSize = 0
  BY <1>2, RingWaits
<1>4. Ring = <<>>
  BY <1>2, <1>3 DEF Ring
<1>5. InHand \o fifo = <<>>
  BY <1>2
<1>6. KeyPlaces(<<>>) = {} /\ Cardinality({}) = 0
  BY FS_EmptySet DEF KeyPlaces
<1>7. KeysOf(<<>>) = <<>>
  <2>1. PICK e : e = <<>>
    OBVIOUS
  <2>2. KeysOf(e) = [n \in 1..0 |-> e[Nth(KeyPlaces(e), n)].val]
    BY <1>6, <2>1 DEF KeysOf
  <2>3. KeysOf(e) = <<>>
    BY <2>2
  <2> QED
    BY <2>1, <2>3
<1> QED
  BY <1>2, <1>4, <1>5, <1>7 DEF Keys

LEMMA QueueStep == PacketInv /\ PacketInv' /\ ~KernelShell /\ [Next]_vars => [Queue!Next]_<<Keys, got>>
<1> HAVE PacketInv /\ PacketInv' /\ ~KernelShell /\ [Next]_vars
<1>1. CASE Next
  <2>1. InputInv /\ InputInv' /\ Kinds
    BY <1>1, EveryStep DEF PacketInv
  <2>2. \/ Keys' = Keys /\ got' = got
        \/ \E c \in Code : Keys' = Append(Keys, c) /\ got' = got
        \/ Keys # <<>> /\ got' = Head(Keys) /\ Keys' = Tail(Keys)
        \/ /\ Len(Keys) > RingSize - 1 /\ got' = got
           /\ Keys' = [i \in 1..(Len(Keys) - 1) |->
                          IF i <= RingSize - 1 THEN Keys[i] ELSE Keys[i + 1]]
    BY <2>1, KeysStep
  <2> QED
    BY <2>2 DEF Queue!Next, Queue!Type, Queue!Take, Queue!Drop, Keys
<1>2. CASE UNCHANGED vars
  BY <1>2 DEF vars, hwVars, ringVars, readerVars, Keys, Ring, InHand
<1> QED
  BY <1>1, <1>2

(* With interrupts masked in SYS_READ the drivers implement KeyQueue: scan *)
(* codes come out in the order typed, each once, and only the newest is    *)
(* lost, to a full ring; polled by getchar, drained by the timer interrupt *)
(* and eaten by ctrl_c in any order, for any ring and controller.          *)
THEOREM KeysComeInOrder == ASSUME ~KernelShell PROVE Spec => KeysInOrder
<1>1. Init => PacketInv
  BY InputInit
<1>2. PacketInv /\ [Next]_vars => PacketInv'
  BY PacketNext
<1>3. Init => Queue!Init
  BY QueueInit DEF Queue!Init, Keys
<1>4. PacketInv /\ PacketInv' /\ [Next]_vars => [Queue!Next]_<<Ring \o KeysOf(InHand \o fifo), got>>
  BY QueueStep DEF Keys
<1> QED
  BY <1>1, <1>2, <1>3, <1>4, PTL DEF Spec, KeysInOrder, Queue!Spec

=============================================================================
