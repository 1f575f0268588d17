--------------------------- MODULE DataPathProofs ---------------------------
(***************************************************************************)
(* Proofs about ChunkPipeline and MerkleTree: chunks, the erasure code and *)
(* reading; then the layers of a tree, its proofs and their verification.  *)
(*                                                                         *)
(* No induction principle with an operator parameter is used: each         *)
(* induction takes the least element of a set of counterexamples           *)
(* (LeastNumber), and a recursive function is unfolded after it is shown   *)
(* that a function satisfying its equation exists.                         *)
(***************************************************************************)
EXTENDS MerkleTree, ChunkPipeline, FunctionTheorems, FiniteSetTheorems,
        SequenceTheorems, WellFoundedInduction, TLAPS

-----------------------------------------------------------------------------
(* Least and greatest elements *)

\* The least-number principle for sets, from which every induction below is
\* made: there is no least counterexample.
LEMMA LeastNumber ==
    ASSUME NEW T \in SUBSET Nat, T # {}
    PROVE  \E x \in T : \A y \in T : x <= y
<1> DEFINE R == {ss \in Nat \X Nat : ss[1] < ss[2]}
<1>1. IsWellFoundedOn(R, Nat)
  BY NatLessThanWellFounded DEF OpToRel
<1> HIDE DEF R
<1>2. PICK x \in T : \A y \in T : ~ (<<y, x>> \in R)
  BY <1>1, WFMin
<1>3. \A y \in T : ~ (y < x)
  BY <1>2 DEF R
<1> QED BY <1>3

LEMMA MinMember ==
    ASSUME NEW S \in SUBSET Nat, S # {}
    PROVE  Min(S) \in S
<1>1. PICK x \in S : \A y \in S : x <= y
  BY LeastNumber
<1> QED BY <1>1 DEF Min

LEMMA MaxMember ==
    ASSUME NEW n \in Nat, NEW S \in SUBSET (0..n), S # {}
    PROVE  Max(S) \in S
<1> DEFINE T == {t \in 0..n : n - t \in S}
<1>1. T \subseteq Nat /\ T # {}
  <2>1. PICK x \in S : TRUE
    OBVIOUS
  <2>2. n - x \in T
    BY <2>1
  <2>3. T \subseteq Nat
    OBVIOUS
  <2> HIDE DEF T
  <2> QED BY <2>2, <2>3
<1> HIDE DEF T
<1>2. PICK t \in T : \A u \in T : t <= u
  BY <1>1, LeastNumber
<1>3. t \in 0..n /\ n - t \in S
  BY <1>2 DEF T
<1>4. ASSUME NEW y \in S PROVE n - t >= y
  <2>1. n - y \in T
    BY DEF T
  <2>2. t <= n - y
    BY <2>1, <1>2
  <2> QED BY <2>2, <1>3
<1> QED BY <1>3, <1>4 DEF Max

LEMMA ThreeElements ==
    ASSUME NEW a, NEW b, NEW c, a # b, a # c, b # c
    PROVE  Cardinality({a, b, c}) = 3
<1> DEFINE A == {a}
           B == A \cup {b}
           C == B \cup {c}
<1>1. IsFiniteSet(A) /\ Cardinality(A) = 1
  BY FS_Singleton
<1>2. b \notin A /\ c \notin B /\ {a, b, c} = C
  OBVIOUS
<1>3. IsFiniteSet(B) /\ Cardinality(B) = Cardinality(A) + 1
  <2> HIDE DEF A
  <2> QED BY <1>1, <1>2, FS_AddElement
<1>4. Cardinality(C) = Cardinality(B) + 1
  <2> HIDE DEF A, B
  <2> QED BY <1>2, <1>3, FS_AddElement
<1> HIDE DEF A, B, C
<1> QED BY <1>1, <1>2, <1>3, <1>4

\* The three smallest elements of a set.
LEMMA ThreeSmallest ==
    ASSUME NEW S \in SUBSET Nat, IsFiniteSet(S), Cardinality(S) >= 3
    PROVE  \E a, b, c \in S : /\ a < b /\ b < c
                              /\ \A x \in S \ {a, b, c} : x > c
<1>n. Cardinality(S) \in Nat
  BY FS_CardinalityType
<1>1. S # {}
  BY <1>n, FS_EmptySet
<1>2. PICK a \in S : \A x \in S : a <= x
  BY <1>1, LeastNumber
<1> DEFINE A == S \ {a}
<1>3. IsFiniteSet(A) /\ Cardinality(A) = Cardinality(S) - 1
  BY FS_RemoveElement
<1>4. A # {}
  <2> HIDE DEF A
  <2> QED BY <1>n, <1>3, FS_EmptySet
<1>5. PICK b \in A : \A x \in A : b <= x
  <2>1. A \in SUBSET Nat
    OBVIOUS
  <2> HIDE DEF A
  <2> QED BY <2>1, <1>4, LeastNumber
<1> DEFINE B == A \ {b}
<1>6. IsFiniteSet(B) /\ Cardinality(B) = Cardinality(A) - 1
  <2> HIDE DEF A
  <2> QED BY <1>3, FS_RemoveElement
<1>7. B # {}
  <2> HIDE DEF A, B
  <2> QED BY <1>n, <1>3, <1>6, FS_EmptySet
<1>8. PICK c \in B : \A x \in B : c <= x
  <2>1. B \in SUBSET Nat
    OBVIOUS
  <2> HIDE DEF A, B
  <2> QED BY <2>1, <1>7, LeastNumber
<1> QED BY <1>2, <1>5, <1>8

-----------------------------------------------------------------------------
(* Reed-Solomon *)

Symbols == [0..2 -> 0..4]

LEMMA SymbolTyped ==
    ASSUME NEW d \in Symbols, NEW j \in 0..4
    PROVE  Symbol(d, j) \in 0..4 /\ (j < 3 => Symbol(d, j) = d[j])
<1>1. d[0] \in 0..4 /\ d[1] \in 0..4 /\ d[2] \in 0..4
  BY DEF Symbols
<1>2. CASE j \in 0..2
  BY <1>2 DEF Symbol, Symbols
<1>3. CASE j = 3
  BY <1>1, <1>3 DEF Symbol
<1>4. CASE j = 4
  BY <1>1, <1>4 DEF Symbol
<1> QED BY <1>2, <1>3, <1>4

\* Two equations modulo 5 in which one unknown is left.
LEMMA NoRemainder ==
    ASSUME NEW x \in -4..4, NEW f \in {1, 2, 3, 8}, NEW q \in Int, f * x = 5 * q
    PROVE  x = 0
<1>1. CASE f = 1
  BY <1>1
<1>2. CASE f = 2
  BY <1>2
<1>3. CASE f = 3
  BY <1>3
<1>4. CASE f = 8
  BY <1>4
<1> QED BY <1>1, <1>2, <1>3, <1>4

LEMMA Division5 ==
    ASSUME NEW a \in Nat
    PROVE  a \div 5 \in Int /\ a = 5 * (a \div 5) + (a % 5)
<1>1. a \div 5 \in Int
  OBVIOUS
<1>2. a = 5 * (a \div 5) + (a % 5)
  OBVIOUS
<1> QED BY <1>1, <1>2

LEMMA Mod5 ==
    ASSUME NEW a \in Nat, NEW b \in Nat, a % 5 = b % 5
    PROVE  \E q \in Int : a - b = 5 * q
<1>1. a = 5 * (a \div 5) + (a % 5) /\ b = 5 * (b \div 5) + (b % 5)
  BY Division5
<1>2. a \div 5 \in Int /\ b \div 5 \in Int
  BY Division5
<1> WITNESS a \div 5 - b \div 5 \in Int
<1> QED BY <1>1, <1>2

\* Any three symbols of a codeword determine it.
LEMMA SymbolsDetermined ==
    ASSUME NEW d \in Symbols, NEW e \in Symbols,
           NEW a \in 0..4, NEW b \in 0..4, NEW c \in 0..4, a < b, b < c,
           \A j \in {a, b, c} : Symbol(d, j) = Symbol(e, j)
    PROVE  d = e
<1>1. PICK p0 \in 0..4, p1 \in 0..4, p2 \in 0..4 : d[0] = p0 /\ d[1] = p1 /\ d[2] = p2
  BY DEF Symbols
<1>2. PICK r0 \in 0..4, r1 \in 0..4, r2 \in 0..4 : e[0] = r0 /\ e[1] = r1 /\ e[2] = r2
  BY DEF Symbols
<1> DEFINE x0 == p0 - r0
           x1 == p1 - r1
           x2 == p2 - r2
<1>x. x0 \in -4..4 /\ x1 \in -4..4 /\ x2 \in -4..4
  OBVIOUS
<1>0. (0 \in {a, b, c} => x0 = 0) /\ (1 \in {a, b, c} => x1 = 0) /\ (2 \in {a, b, c} => x2 = 0)
  <2>1. \A j \in {a, b, c} : j < 3 => d[j] = e[j]
    BY SymbolTyped
  <2> QED BY <2>1, <1>1, <1>2
<1>3. ASSUME 3 \in {a, b, c} PROVE \E q \in Int : x0 + 2 * x1 + 3 * x2 = 5 * q
  <2> DEFINE u == p0 + 2 * p1 + 3 * p2
             v == r0 + 2 * r1 + 3 * r2
  <2>1. u \in Nat /\ v \in Nat
    OBVIOUS
  <2>2. u % 5 = v % 5
    <3>1. Symbol(d, 3) = Symbol(e, 3)
      BY <1>3
    <3>2. Symbol(d, 3) = u % 5 /\ Symbol(e, 3) = v % 5
      BY <1>1, <1>2 DEF Symbol
    <3> QED BY <3>1, <3>2
  <2>3. u - v = x0 + 2 * x1 + 3 * x2
    OBVIOUS
  <2> HIDE DEF u, v
  <2>4. \E q \in Int : u - v = 5 * q
    BY <2>1, <2>2, Mod5
  <2> QED BY <2>3, <2>4
<1>4. ASSUME 4 \in {a, b, c} PROVE \E q \in Int : 3 * x0 + 2 * x1 + x2 = 5 * q
  <2> DEFINE u == 3 * p0 + 2 * p1 + p2
             v == 3 * r0 + 2 * r1 + r2
  <2>1. u \in Nat /\ v \in Nat
    OBVIOUS
  <2>2. u % 5 = v % 5
    <3>1. Symbol(d, 4) = Symbol(e, 4)
      BY <1>4
    <3>2. Symbol(d, 4) = u % 5 /\ Symbol(e, 4) = v % 5
      BY <1>1, <1>2 DEF Symbol
    <3> QED BY <3>1, <3>2
  <2>3. u - v = 3 * x0 + 2 * x1 + x2
    OBVIOUS
  <2> HIDE DEF u, v
  <2>4. \E q \in Int : u - v = 5 * q
    BY <2>1, <2>2, Mod5
  <2> QED BY <2>3, <2>4
<1>e. x0 = 0 /\ x1 = 0 /\ x2 = 0 => d = e
  <2> SUFFICES ASSUME x0 = 0, x1 = 0, x2 = 0 PROVE d = e
    OBVIOUS
  <2>1. d[0] = e[0] /\ d[1] = e[1] /\ d[2] = e[2]
    BY <1>1, <1>2
  <2>2. \A j \in 0..2 : d[j] = e[j]
    BY <2>1
  <2> QED BY <2>2 DEF Symbols
<1> HIDE DEF x0, x1, x2
<1>5. CASE c < 3
  <2>1. a = 0 /\ b = 1 /\ c = 2
    BY <1>5
  <2> QED BY <2>1, <1>0, <1>e
<1>6. CASE c = 3
  <2>1. PICK q \in Int : x0 + 2 * x1 + 3 * x2 = 5 * q
    BY <1>3, <1>6
  <2>2. CASE a = 0 /\ b = 1
    <3>1. 3 * x2 = 5 * q
      BY <2>1, <2>2, <1>0, <1>x
    <3> QED BY <3>1, <2>2, <1>0, <1>x, <1>e, NoRemainder
  <2>3. CASE a = 0 /\ b = 2
    <3>1. 2 * x1 = 5 * q
      BY <2>1, <2>3, <1>0, <1>x
    <3> QED BY <3>1, <2>3, <1>0, <1>x, <1>e, NoRemainder
  <2>4. CASE a = 1 /\ b = 2
    <3>1. 1 * x0 = 5 * q
      BY <2>1, <2>4, <1>0, <1>x
    <3> QED BY <3>1, <2>4, <1>0, <1>x, <1>e, NoRemainder
  <2> QED BY <1>6, <2>2, <2>3, <2>4
<1>7. CASE c = 4 /\ b < 3
  <2>1. PICK q \in Int : 3 * x0 + 2 * x1 + x2 = 5 * q
    BY <1>4, <1>7
  <2>2. CASE a = 0 /\ b = 1
    <3>1. 1 * x2 = 5 * q
      BY <2>1, <2>2, <1>0, <1>x
    <3> QED BY <3>1, <2>2, <1>0, <1>x, <1>e, NoRemainder
  <2>3. CASE a = 0 /\ b = 2
    <3>1. 2 * x1 = 5 * q
      BY <2>1, <2>3, <1>0, <1>x
    <3> QED BY <3>1, <2>3, <1>0, <1>x, <1>e, NoRemainder
  <2>4. CASE a = 1 /\ b = 2
    <3>1. 3 * x0 = 5 * q
      BY <2>1, <2>4, <1>0, <1>x
    <3> QED BY <3>1, <2>4, <1>0, <1>x, <1>e, NoRemainder
  <2> QED BY <1>7, <2>2, <2>3, <2>4
<1>8. CASE c = 4 /\ b = 3
  <2>1. PICK q \in Int : x0 + 2 * x1 + 3 * x2 = 5 * q
    BY <1>3, <1>8
  <2>2. PICK r \in Int : 3 * x0 + 2 * x1 + x2 = 5 * r
    BY <1>4, <1>8
  <2>3. CASE a = 0
    <3>1. x0 = 0
      BY <2>3, <1>0
    <3>2. 2 * x2 = 5 * (q - r)
      BY <2>1, <2>2, <3>1, <1>x
    <3>3. x2 = 0
      BY <3>2, <1>x, NoRemainder
    <3>4. 2 * x1 = 5 * r
      BY <2>2, <3>1, <3>3, <1>x
    <3>5. x1 = 0
      BY <3>4, <1>x, NoRemainder
    <3> QED BY <3>1, <3>3, <3>5, <1>e
  <2>4. CASE a = 1
    <3>1. x1 = 0
      BY <2>4, <1>0
    <3>2. 8 * x2 = 5 * (3 * q - r)
      BY <2>1, <2>2, <3>1, <1>x
    <3>3. x2 = 0
      BY <3>2, <1>x, NoRemainder
    <3>4. 1 * x0 = 5 * q
      BY <2>1, <3>1, <3>3, <1>x
    <3>5. x0 = 0
      BY <3>4, <1>x, NoRemainder
    <3> QED BY <3>1, <3>3, <3>5, <1>e
  <2>5. CASE a = 2
    <3>1. x2 = 0
      BY <2>5, <1>0
    <3>2. 2 * x0 = 5 * (r - q)
      BY <2>1, <2>2, <3>1, <1>x
    <3>3. x0 = 0
      BY <3>2, <1>x, NoRemainder
    <3>4. 2 * x1 = 5 * r
      BY <2>2, <3>1, <3>3, <1>x
    <3>5. x1 = 0
      BY <3>4, <1>x, NoRemainder
    <3> QED BY <3>1, <3>3, <3>5, <1>e
  <2> QED BY <1>8, <2>3, <2>4, <2>5
<1> QED BY <1>5, <1>6, <1>7, <1>8

\* So the library finds the data again from the symbols of three shards.
LEMMA SolveExact ==
    ASSUME NEW d \in Symbols, NEW at,
           NEW a \in DOMAIN at, NEW b \in DOMAIN at, NEW c \in DOMAIN at, a < b, b < c,
           DOMAIN at \subseteq 0..4, \A j \in DOMAIN at : at[j] = Symbol(d, j)
    PROVE  Solve(at) = d
<1>1. \A j \in DOMAIN at : Symbol(d, j) = at[j]
  OBVIOUS
<1>2. ASSUME NEW e \in Symbols, \A j \in DOMAIN at : Symbol(e, j) = at[j] PROVE e = d
  BY <1>2, SymbolsDetermined
<1> QED BY <1>1, <1>2 DEF Solve, Symbols

-----------------------------------------------------------------------------
(* encode *)

ShardSize(data) == (Len(data) + 2) \div 3
Padded(data) == data \o Zeros(3 * ShardSize(data) - Len(data))
Column(data, k) == [i \in 0..2 |-> Padded(data)[i * ShardSize(data) + k]]

LEMMA ThirdsCover ==
    ASSUME NEW n \in Nat
    PROVE  LET m == (n + 2) \div 3
           IN  m \in Nat /\ 3 * m >= n /\ 3 * m - n \in Nat /\ (n > 0 => m > 0)
OBVIOUS

LEMMA PaddedProperties ==
    ASSUME NEW data \in Seq(0..4)
    PROVE  /\ Len(data) \in Nat /\ ShardSize(data) \in Nat
           /\ Len(data) > 0 => ShardSize(data) > 0
           /\ Len(data) <= 3 * ShardSize(data)
           /\ Padded(data) \in Seq(0..4)
           /\ Len(Padded(data)) = 3 * ShardSize(data)
           /\ \A i \in 1..Len(data) : Padded(data)[i] = data[i]
<1> DEFINE z == 3 * ShardSize(data) - Len(data)
<1>1. Len(data) \in Nat
  BY LenProperties
<1>2. /\ ShardSize(data) \in Nat /\ Len(data) <= 3 * ShardSize(data) /\ z \in Nat
      /\ Len(data) > 0 => ShardSize(data) > 0
  BY <1>1, ThirdsCover DEF ShardSize
<1>3. Len(data) + z = 3 * ShardSize(data)
  BY <1>1, <1>2
<1>p. Padded(data) = data \o Zeros(z)
  BY DEF Padded
<1> HIDE DEF z
<1>4. Zeros(z) \in [1..z -> 0..4]
  BY DEF Zeros
<1>5. Zeros(z) \in Seq(0..4) /\ Len(Zeros(z)) = z
  BY <1>2, <1>4
<1>6. /\ Padded(data) \in Seq(0..4)
      /\ Len(Padded(data)) = Len(data) + z
      /\ \A i \in 1..Len(data) : Padded(data)[i] = data[i]
  <2>1. /\ data \o Zeros(z) \in Seq(0..4)
        /\ Len(data \o Zeros(z)) = Len(data) + Len(Zeros(z))
        /\ \A i \in 1..Len(data \o Zeros(z)) :
             (data \o Zeros(z))[i] = IF i <= Len(data) THEN data[i]
                                     ELSE Zeros(z)[i - Len(data)]
    BY <1>5, ConcatProperties
  <2>2. \A i \in 1..Len(data) : i \in 1..Len(data \o Zeros(z)) /\ i <= Len(data)
    BY <2>1, <1>1, <1>2, <1>5
  <2> QED BY <2>1, <2>2, <1>5, <1>p
<1> QED BY <1>1, <1>2, <1>3, <1>6

LEMMA ColumnTyped ==
    ASSUME NEW data \in Seq(0..4), NEW k \in 1..ShardSize(data)
    PROVE  Column(data, k) \in Symbols
<1> DEFINE m == ShardSize(data)
<1>1. m \in Nat /\ Padded(data) \in Seq(0..4) /\ Len(Padded(data)) = 3 * m
  BY PaddedProperties
<1> HIDE DEF m
<1>k. k \in 1..m
  BY DEF m
<1>2. ASSUME NEW i \in 0..2 PROVE Padded(data)[i * m + k] \in 0..4
  <2>1. i * m + k \in 1..(3 * m)
    <3>1. CASE i = 0
      BY <3>1, <1>1, <1>k
    <3>2. CASE i = 1
      BY <3>2, <1>1, <1>k
    <3>3. CASE i = 2
      BY <3>3, <1>1, <1>k
    <3> QED BY <3>1, <3>2, <3>3
  <2> QED BY <2>1, <1>1, ElementOfSeq
<1> QED BY <1>2 DEF Column, Symbols, m

\* A shard is a row of symbols; the first three are the data.
LEMMA EncodeProperties ==
    ASSUME NEW data \in Seq(0..4), NEW j \in 0..4
    PROVE  /\ encode(data)[j] = [k \in 1..ShardSize(data) |-> Symbol(Column(data, k), j)]
           /\ encode(data)[j] \in Seq(0..4)
           /\ Len(encode(data)[j]) = ShardSize(data)
           /\ j < 3 => \A k \in 1..ShardSize(data) :
                         encode(data)[j][k] = Padded(data)[j * ShardSize(data) + k]
<1> DEFINE m == ShardSize(data)
           e == encode(data)[j]
<1>1. e = [k \in 1..m |-> Symbol(Column(data, k), j)]
  BY DEF encode, ShardSize, Padded, Column
<1>2. \A k \in 1..m : Symbol(Column(data, k), j) \in 0..4
  BY ColumnTyped, SymbolTyped
<1>3. m \in Nat
  BY PaddedProperties
<1>5. ASSUME j < 3, NEW k \in 1..m PROVE e[k] = Padded(data)[j * m + k]
  <2>1. e[k] = Symbol(Column(data, k), j)
    BY <1>1
  <2>2. Symbol(Column(data, k), j) = Column(data, k)[j]
    BY <1>5, ColumnTyped, SymbolTyped
  <2>3. j \in 0..2
    BY <1>5
  <2>4. Column(data, k)[j] = Padded(data)[j * m + k]
    BY <2>3 DEF Column
  <2> QED BY <2>1, <2>2, <2>4
<1> HIDE DEF m, e
<1>4. e \in Seq(0..4) /\ Len(e) = m
  <2>1. e \in [1..m -> 0..4]
    BY <1>1, <1>2
  <2> QED BY <2>1, <1>3
<1> QED BY <1>1, <1>4, <1>5 DEF m, e

\* Three rows that make up a sequence, one behind the other.
InRows(S, P, m, a, b, c) ==
    /\ m \in Nat /\ P \in Seq(S) /\ Len(P) = 3 * m
    /\ a \in Seq(S) /\ b \in Seq(S) /\ c \in Seq(S)
    /\ Len(a) = m /\ Len(b) = m /\ Len(c) = m
    /\ \A k \in 1..m : a[k] = P[k] /\ b[k] = P[m + k] /\ c[k] = P[2 * m + k]

LEMMA ThreeRows ==
    ASSUME NEW S, NEW P, NEW m, NEW a, NEW b, NEW c, InRows(S, P, m, a, b, c)
    PROVE  a \o b \o c = P
<1>0. /\ m \in Nat /\ P \in Seq(S) /\ Len(P) = 3 * m
      /\ a \in Seq(S) /\ b \in Seq(S) /\ c \in Seq(S)
      /\ Len(a) = m /\ Len(b) = m /\ Len(c) = m
      /\ \A k \in 1..m : a[k] = P[k] /\ b[k] = P[m + k] /\ c[k] = P[2 * m + k]
  BY DEF InRows
<1> DEFINE two == a \o b
           whole == two \o c
<1>1. /\ two \in Seq(S) /\ Len(two) = Len(a) + Len(b)
      /\ \A i \in 1..(Len(a) + Len(b)) :
           two[i] = IF i <= Len(a) THEN a[i] ELSE b[i - Len(a)]
  BY <1>0, ConcatProperties
<1>2. Len(two) = 2 * m
  BY <1>0, <1>1
<1> HIDE DEF two
<1>3. ASSUME NEW i \in 1..(2 * m) PROVE two[i] = P[i]
  <2>0. i \in 1..(Len(a) + Len(b))
    BY <1>0
  <2>1. CASE i <= m
    <3>1. i \in 1..m
      BY <1>0, <2>1
    <3>2. two[i] = a[i]
      BY <1>0, <2>0, <2>1, <1>1
    <3> QED BY <3>1, <3>2, <1>0
  <2>2. CASE i > m
    <3>1. i - m \in 1..m /\ m + (i - m) = i
      BY <1>0, <2>2
    <3>2. two[i] = b[i - m]
      BY <1>0, <2>0, <2>2, <1>1
    <3> QED BY <3>1, <3>2, <1>0
  <2> QED BY <1>0, <2>1, <2>2
<1>4. /\ whole \in Seq(S) /\ Len(whole) = Len(two) + Len(c)
      /\ \A i \in 1..(Len(two) + Len(c)) :
           whole[i] = IF i <= Len(two) THEN two[i] ELSE c[i - Len(two)]
  <2>1. two \in Seq(S) /\ c \in Seq(S)
    BY <1>0, <1>1
  <2> QED BY ONLY <2>1, ConcatProperties
<1>5. Len(whole) = 3 * m
  BY <1>0, <1>2, <1>4
<1> HIDE DEF whole
<1>6. ASSUME NEW i \in 1..(3 * m) PROVE whole[i] = P[i]
  <2>0. i \in 1..(Len(two) + Len(c))
    BY <1>0, <1>2
  <2>1. CASE i <= 2 * m
    <3>1. i \in 1..(2 * m)
      BY <1>0, <2>1
    <3>2. whole[i] = two[i]
      BY <1>0, <2>0, <2>1, <1>2, <1>4
    <3> QED BY <1>0, <3>1, <3>2, <1>3
  <2>2. CASE i > 2 * m
    <3>1. i - 2 * m \in 1..m /\ 2 * m + (i - 2 * m) = i
      BY <1>0, <2>2
    <3>2. whole[i] = c[i - 2 * m]
      BY <1>0, <2>0, <2>2, <1>2, <1>4
    <3> QED BY <3>1, <3>2, <1>0
  <2> QED BY <1>0, <2>1, <2>2
<1>7. whole = P
  BY <1>0, <1>4, <1>5, <1>6, SeqEqual
<1> QED BY <1>7 DEF whole, two

\* The three data shards, one behind the other, are the data and some zeros.
LEMMA DataShards ==
    ASSUME NEW data \in Seq(0..4)
    PROVE  encode(data)[0] \o encode(data)[1] \o encode(data)[2] = Padded(data)
<1> DEFINE m == ShardSize(data)
           P == Padded(data)
<1>3. m \in Nat /\ P \in Seq(0..4) /\ Len(P) = 3 * m
  BY PaddedProperties
<1>1. ASSUME NEW j \in 0..2
      PROVE  /\ encode(data)[j] \in Seq(0..4) /\ Len(encode(data)[j]) = m
             /\ \A k \in 1..m : encode(data)[j][k] = P[j * m + k]
  <2>1. j \in 0..4 /\ j < 3
    OBVIOUS
  <2> QED BY <2>1, EncodeProperties
<1> HIDE DEF m, P
<1> DEFINE a == encode(data)[0]
           b == encode(data)[1]
           c == encode(data)[2]
<1>a. a \in Seq(0..4) /\ Len(a) = m /\ \A k \in 1..m : a[k] = P[k]
  <2>1. \A k \in 1..m : 0 * m + k = k
    BY <1>3
  <2> QED BY <2>1, <1>1
<1>b. b \in Seq(0..4) /\ Len(b) = m /\ \A k \in 1..m : b[k] = P[m + k]
  <2>1. \A k \in 1..m : 1 * m + k = m + k
    BY <1>3
  <2>2. /\ b \in Seq(0..4) /\ Len(b) = m
        /\ \A k \in 1..m : b[k] = P[1 * m + k]
    BY <1>1
  <2> HIDE DEF b
  <2> QED BY <2>1, <2>2
<1>c. c \in Seq(0..4) /\ Len(c) = m /\ \A k \in 1..m : c[k] = P[2 * m + k]
  BY <1>1
<1> HIDE DEF a, b, c
<1>4. a \o b \o c = P
  <2>1. InRows(0..4, P, m, a, b, c)
    BY <1>3, <1>a, <1>b, <1>c DEF InRows
  <2> QED BY <2>1, ThreeRows
<1> QED BY <1>4 DEF a, b, c, P

\* Cut to the length of the data they are the data.
LEMMA PaddedPrefix ==
    ASSUME NEW data \in Seq(0..4)
    PROVE  SubSeq(Padded(data), 1, Len(data)) = data
<1>1. /\ Len(data) \in Nat
      /\ \A i \in 1..Len(data) : Padded(data)[i] = data[i]
  BY PaddedProperties
<1>2. \A i \in 1..Len(data) : Padded(data)[i] \in 0..4
  BY <1>1, ElementOfSeq
<1> DEFINE s == SubSeq(Padded(data), 1, Len(data))
<1>3. /\ s \in Seq(0..4)
      /\ Len(s) = IF 1 <= Len(data) THEN Len(data) - 1 + 1 ELSE 0
      /\ \A i \in 1..(Len(data) - 1 + 1) : s[i] = Padded(data)[1 + i - 1]
  BY <1>1, <1>2, SubSeqProperties
<1> HIDE DEF s
<1>4. Len(s) = Len(data)
  BY <1>1, <1>3
<1>5. \A i \in 1..Len(s) : s[i] = data[i]
  BY <1>1, <1>3, <1>4
<1>6. s = data
  BY <1>3, <1>4, <1>5, SeqEqual
<1> QED BY <1>6 DEF s

-----------------------------------------------------------------------------
(* reconstruct *)

\* Shards of one encoding, any of them any number of times.
ShardsOf(data, pairs) ==
    /\ data \in Seq(0..4)
    /\ pairs \in Seq((0..4) \X Seq(0..4))
    /\ \A k \in 1..Len(pairs) : pairs[k][2] = encode(data)[pairs[k][1]]

LEMMA RangeMember ==
    ASSUME NEW S, NEW s \in Seq(S)
    PROVE  \A x : x \in Range(s) <=> \E k \in 1..Len(s) : s[k] = x
<1>1. DOMAIN s = 1..Len(s)
  BY LenProperties
<1> QED BY <1>1 DEF Range

\* The slots that are filled hold the shards that belong there.
LEMMA SlotsFilled ==
    ASSUME NEW data, NEW pairs, ShardsOf(data, pairs)
    PROVE  /\ DOMAIN Slots(pairs) = {p[1] : p \in Range(pairs)}
           /\ DOMAIN Slots(pairs) \subseteq 0..4
           /\ \A j \in DOMAIN Slots(pairs) : Slots(pairs)[j] = encode(data)[j]
<1> DEFINE D == {p[1] : p \in Range(pairs)}
<1>0. /\ pairs \in Seq((0..4) \X Seq(0..4)) /\ Len(pairs) \in Nat
      /\ DOMAIN pairs = 1..Len(pairs)
  BY LenProperties DEF ShardsOf
<1>1. DOMAIN Slots(pairs) = D
  BY DEF Slots
<1>2. \A k \in 1..Len(pairs) : pairs[k] \in (0..4) \X Seq(0..4)
  BY <1>0, ElementOfSeq
<1>3. D \subseteq 0..4
  BY <1>0, <1>2, RangeMember
<1>4. ASSUME NEW j \in D PROVE Slots(pairs)[j] = encode(data)[j]
  <2> DEFINE K == {k \in DOMAIN pairs : pairs[k][1] = j}
  <2>1. PICK p \in Range(pairs) : p[1] = j
    OBVIOUS
  <2>2. PICK k \in 1..Len(pairs) : pairs[k] = p
    BY <1>0, RangeMember
  <2>3. K # {}
    BY <2>1, <2>2, <1>0
  <2>4. K \subseteq 0..Len(pairs)
    BY <1>0
  <2>5. Max(K) \in K
    <3> HIDE DEF K
    <3> QED BY <2>3, <2>4, <1>0, MaxMember
  <2>6. Slots(pairs)[j] = pairs[Max(K)][2]
    BY DEF Slots
  <2>7. Max(K) \in 1..Len(pairs) /\ pairs[Max(K)][1] = j
    BY <2>5, <1>0
  <2> HIDE DEF K
  <2> QED BY <2>6, <2>7 DEF ShardsOf
<1> QED BY <1>1, <1>3, <1>4

\* Slots of three or more shards of an encoding give its data back.
LEMMA SlotsDecoded ==
    ASSUME NEW data \in Seq(0..4), Len(data) > 0, NEW slots, DOMAIN slots \subseteq 0..4,
           Cardinality(DOMAIN slots) >= 3,
           \A j \in DOMAIN slots : slots[j] = encode(data)[j]
    PROVE  rs_reconstruct(slots) = Padded(data)
<1> DEFINE D == DOMAIN slots
           m == ShardSize(data)
           low == Min(D)
           First(s) == \A i \in s, j \in D \ s : i < j
           first == CHOOSE s \in kSubset(3, D) : First(s)
           part(i) == IF i \in D THEN slots[i]
                      ELSE [k \in 1..Len(slots[low]) |-> Solve([j \in first |-> slots[j][k]])[i]]
<1>f. IsFiniteSet(D) /\ Cardinality(D) \in Nat
  <2>0. 0 \in Int /\ 4 \in Int
    OBVIOUS
  <2>1. IsFiniteSet(0..4)
    BY ONLY <2>0, FS_Interval
  <2>2. IsFiniteSet(D)
    BY <2>1, FS_Subset
  <2> QED BY <2>2, FS_CardinalityType
<1>d. D \in SUBSET Nat /\ D # {}
  <2>1. D # {}
    BY <1>f, FS_EmptySet
  <2> QED BY <2>1
<1>m. m \in Nat /\ m > 0
  BY PaddedProperties
<1>l. \A j \in D : Len(slots[j]) = m
  BY EncodeProperties
<1>1. low \in D /\ Len(slots[low]) = m
  BY <1>d, <1>l, MinMember
<1>2. first \in kSubset(3, D)
  <2>0. Cardinality(D) >= 3
    OBVIOUS
  <2>e. \E a, b, c \in D : a < b /\ b < c /\ \A x \in D \ {a, b, c} : x > c
    <3> HIDE DEF D
    <3> QED BY ONLY <2>0, <1>d, <1>f, ThreeSmallest
  <2>1. PICK a, b, c \in D : a < b /\ b < c /\ \A x \in D \ {a, b, c} : x > c
    BY <2>e
  <2>n. a \in Nat /\ b \in Nat /\ c \in Nat
    BY <1>d
  <2>u. a # b /\ a # c /\ b # c
    BY ONLY <2>n, <2>1
  <2>2. First({a, b, c})
    BY <2>1, <1>d
  <2>3. Cardinality({a, b, c}) = 3
    BY ONLY <2>u, ThreeElements
  <2>4. {a, b, c} \in kSubset(3, D)
    BY <2>3 DEF kSubset
  <2> HIDE DEF First, D
  <2> QED BY <2>2, <2>4
<1>3. first \subseteq D /\ Cardinality(first) = 3
  <2> HIDE DEF first
  <2> QED BY <1>2 DEF kSubset
<1>4. PICK a \in first, b \in first, c \in first : a < b /\ b < c
  <2>1. IsFiniteSet(first) /\ first \in SUBSET Nat
    <3> HIDE DEF first, D
    <3> QED BY <1>3, <1>d, <1>f, FS_Subset
  <2> HIDE DEF first
  <2>2. Cardinality(first) >= 3
    BY <1>3
  <2> QED BY <2>1, <2>2, ThreeSmallest
<1> HIDE DEF first, low
<1>5. ASSUME NEW k \in 1..m PROVE Solve([j \in first |-> slots[j][k]]) = Column(data, k)
  <2> DEFINE at == [j \in first |-> slots[j][k]]
  <2>1. Column(data, k) \in Symbols
    BY ColumnTyped
  <2>2. DOMAIN at = first /\ DOMAIN at \subseteq 0..4
    BY <1>3
  <2>3. ASSUME NEW j \in DOMAIN at PROVE at[j] = Symbol(Column(data, k), j)
    <3>1. j \in D /\ j \in 0..4 /\ at[j] = slots[j][k]
      BY <1>3
    <3>2. slots[j] = [i \in 1..m |-> Symbol(Column(data, i), j)]
      BY <3>1, EncodeProperties
    <3> QED BY <3>1, <3>2
  <2>4. a \in DOMAIN at /\ b \in DOMAIN at /\ c \in DOMAIN at
    BY <2>2
  <2> HIDE DEF at
  <2>5. Solve(at) = Column(data, k)
    BY <2>1, <2>2, <2>3, <2>4, <1>4, SolveExact
  <2> QED BY <2>5 DEF at
<1>6. ASSUME NEW i \in 0..2 PROVE part(i) = encode(data)[i]
  <2>1. CASE i \in D
    BY <2>1
  <2>2. CASE i \notin D
    <3>1. part(i) = [k \in 1..m |-> Column(data, k)[i]]
      BY <2>2, <1>1, <1>5
    <3>2. ASSUME NEW k \in 1..m PROVE Symbol(Column(data, k), i) = Column(data, k)[i]
      <4>1. i \in 0..4 /\ i < 3
        OBVIOUS
      <4> QED BY <4>1, ColumnTyped, SymbolTyped
    <3>3. encode(data)[i] = [k \in 1..m |-> Symbol(Column(data, k), i)]
      <4>1. i \in 0..4
        OBVIOUS
      <4> QED BY <4>1, EncodeProperties
    <3> HIDE DEF part
    <3> QED BY <3>1, <3>2, <3>3
  <2> QED BY <2>1, <2>2
<1>7. rs_reconstruct(slots) = part(0) \o part(1) \o part(2)
  <2>1. ~(Cardinality(D) < 3)
    BY <1>f
  <2>2. ~(Len(slots[low]) = 0 \/ \E j \in D : Len(slots[j]) # Len(slots[low]))
    BY <1>1, <1>l, <1>m
  <2> QED BY <2>1, <2>2 DEF rs_reconstruct, first, low
<1>8. part(0) = encode(data)[0] /\ part(1) = encode(data)[1] /\ part(2) = encode(data)[2]
  BY <1>6
<1> HIDE DEF part
<1> QED BY <1>7, <1>8, DataShards

-----------------------------------------------------------------------------
(* The pipeline's state *)

LEMMA MultipleMonotone ==
    ASSUME NEW a \in Nat, NEW b \in Nat, NEW c \in Nat, a <= b
    PROVE  a * c <= b * c
<1>1. (b - a) * c >= 0
  OBVIOUS
<1>2. b * c = a * c + (b - a) * c
  OBVIOUS
<1> QED BY <1>1, <1>2

LEMMA Division ==
    ASSUME NEW a \in Nat, NEW c \in Nat, c > 0
    PROVE  /\ a \div c \in Nat
           /\ (a \div c) * c <= a
           /\ a < (a \div c) * c + c
OBVIOUS

\* Chunk i of n bytes begins within them; the last one reaches the end.
LEMMA ChunkBounds ==
    ASSUME NEW n \in Nat
    PROVE  /\ chunk_count(n) \in Nat
           /\ \A i \in 1..chunk_count(n) : (i - 1) * CHUNK_SIZE + 1 <= n
           /\ chunk_count(n) * CHUNK_SIZE >= n
           /\ (n > 0) => chunk_count(n) > 0
<1> DEFINE c == CHUNK_SIZE
           a == n + c - 1
           q == chunk_count(n)
<1>0. c \in Nat /\ c > 0
  BY PipelineAssumption
<1>1. a \in Nat /\ q = a \div c
  BY <1>0 DEF chunk_count
<1> HIDE DEF c, a, q
<1>2. q \in Nat /\ q * c <= a /\ a < q * c + c
  BY <1>0, <1>1, Division
<1>a. a = n + c - 1
  BY DEF a
<1>p. q * c \in Nat
  BY <1>0, <1>2
<1>3. ASSUME NEW i \in 1..q PROVE (i - 1) * c + 1 <= n
  <2>1. i \in Nat /\ i <= q /\ i * c \in Nat
    BY <1>0, <1>2
  <2>2. i * c <= q * c
    BY <2>1, <1>0, <1>2, MultipleMonotone
  <2>3. (i - 1) * c = i * c - c
    BY <2>1, <1>0
  <2> QED BY <2>1, <2>2, <2>3, <1>0, <1>2, <1>a, <1>p
<1>4. q * c >= n
  BY <1>0, <1>2, <1>a, <1>p
<1>5. n > 0 => q > 0
  <2>1. q = 0 => q * c = 0
    BY <1>0
  <2> QED BY <2>1, <1>0, <1>2, <1>4
<1> QED BY <1>2, <1>3, <1>4, <1>5 DEF q, c

\* Where chunk i ends.
End(data, i) == Min({i * CHUNK_SIZE, Len(data)})

LEMMA EndValue ==
    ASSUME NEW data \in Seq(Byte), NEW i \in Nat
    PROVE  /\ End(data, i) \in Nat /\ End(data, i) <= Len(data)
           /\ End(data, i) = IF i * CHUNK_SIZE <= Len(data) THEN i * CHUNK_SIZE ELSE Len(data)
<1> DEFINE x == i * CHUNK_SIZE
           y == Len(data)
           T == {x, y}
<1>0. x \in Nat /\ y \in Nat
  BY PipelineAssumption, LenProperties
<1>1. End(data, i) = Min(T)
  BY DEF End
<1> HIDE DEF x, y
<1>2. Min(T) \in T /\ \A z \in T : Min(T) <= z
  <2>1. \E m \in T : \A z \in T : m <= z
    <3>1. CASE x <= y
      BY <3>1, <1>0
    <3>2. CASE y <= x
      BY <3>2, <1>0
    <3> QED BY <3>1, <3>2, <1>0
  <2> QED BY <2>1 DEF Min
<1>3. End(data, i) = IF x <= y THEN x ELSE y
  BY <1>0, <1>1, <1>2
<1> QED BY <1>0, <1>3 DEF x, y

LEMMA ChunkTyped ==
    ASSUME NEW data \in Seq(Byte)
    PROVE  /\ chunk_count(Len(data)) \in Nat
           /\ DOMAIN chunk_data(data) = 1..chunk_count(Len(data))
           /\ \A i \in 1..chunk_count(Len(data)) :
                /\ chunk_data(data)[i] \in Seq(Byte)
                /\ Len(chunk_data(data)[i]) = End(data, i) - (i - 1) * CHUNK_SIZE
                /\ Len(chunk_data(data)[i]) \in 1..CHUNK_SIZE
                /\ \A k \in 1..Len(chunk_data(data)[i]) :
                     chunk_data(data)[i][k] = data[(i - 1) * CHUNK_SIZE + k]
<1> DEFINE n == Len(data)
           q == chunk_count(n)
           c == CHUNK_SIZE
<1>0. c \in Nat /\ c > 0
  BY PipelineAssumption
<1>1. n \in Nat /\ DOMAIN data = 1..n
  BY LenProperties
<1>2. q \in Nat /\ \A i \in 1..q : (i - 1) * c + 1 <= n
  BY <1>1, ChunkBounds
<1>3. DOMAIN chunk_data(data) = 1..q
  BY DEF chunk_data
<1>4. ASSUME NEW i \in 1..q
      PROVE  /\ chunk_data(data)[i] \in Seq(Byte)
             /\ Len(chunk_data(data)[i]) = End(data, i) - (i - 1) * c
             /\ Len(chunk_data(data)[i]) \in 1..c
             /\ \A k \in 1..Len(chunk_data(data)[i]) :
                     chunk_data(data)[i][k] = data[(i - 1) * c + k]
  <2> DEFINE b == (i - 1) * c
             e == End(data, i)
             s == SubSeq(data, b + 1, e)
  <2>1. chunk_data(data)[i] = s
    BY DEF chunk_data, End
  <2>2. b \in Nat /\ b + 1 <= n /\ i * c = b + c
    BY <1>0, <1>2
  <2>3. e \in Nat /\ e <= n /\ e = IF i * c <= n THEN i * c ELSE n
    <3>1. i \in Nat
      BY <1>2
    <3> QED BY ONLY <3>1, data \in Seq(Byte), EndValue
  <2> HIDE DEF b, e, n, q, c
  <2>4. \A j \in (b + 1)..e : data[j] \in Byte
    <3>1. \A j \in (b + 1)..e : j \in 1..n
      BY <2>2, <2>3, <1>1
    <3> QED BY <3>1, ElementOfSeq DEF n
  <2>5. /\ s \in Seq(Byte)
        /\ Len(s) = IF b + 1 <= e THEN e - (b + 1) + 1 ELSE 0
        /\ \A k \in 1..(e - (b + 1) + 1) : s[k] = data[(b + 1) + k - 1]
    <3>1. b + 1 \in Int /\ e \in Int
      BY <2>2, <2>3
    <3> QED BY ONLY <3>1, <2>4, SubSeqProperties
  <2>6. b + 1 <= e /\ e - b \in 1..c /\ e - (b + 1) + 1 = e - b
    BY <1>0, <1>1, <2>2, <2>3
  <2>7. Len(s) = e - b
    BY <2>5, <2>6
  <2>8. \A k \in 1..(e - b) : s[k] = data[b + k]
    <3>1. \A k \in 1..(e - b) : (b + 1) + k - 1 = b + k
      BY <2>2, <2>3
    <3> QED BY <3>1, <2>5, <2>6
  <2> HIDE DEF s
  <2>9. /\ s \in Seq(Byte) /\ Len(s) = e - b /\ Len(s) \in 1..c
        /\ \A k \in 1..Len(s) : s[k] = data[b + k]
    BY <2>5, <2>6, <2>7, <2>8
  <2> QED BY <2>1, <2>9 DEF b, e, c
<1> QED BY <1>2, <1>3, <1>4 DEF n, q, c

Pair == (0..4) \X Seq(0..4)

\* What the variables hold: bytes, ciphertexts that are never empty, and shards
\* under indices the code knows.
PipeInv ==
    /\ file \in Seq(Byte)
    /\ sealed \in Seq(Seq(Byte))
    /\ \A v \in 1..Len(sealed) : Len(sealed[v]) > 0
    /\ shard_data \in Seq(Pair)

LEMMA BytesAreSymbols ==
    ASSUME NEW s \in Seq(Byte)
    PROVE  s \in Seq(0..4)
<1>1. Byte \subseteq 0..4
  BY PipelineAssumption
<1>2. Len(s) \in Nat /\ s \in [1..Len(s) -> Byte]
  BY LenProperties
<1>3. s \in [1..Len(s) -> 0..4]
  BY <1>1, <1>2
<1> QED BY <1>2, <1>3

LEMMA PipeInductive == PipeInit /\ [][PipeNext]_pipeVars => []PipeInv
<1>1. PipeInit => PipeInv
  BY DEF PipeInit, PipeInv
<1>2. PipeInv /\ [PipeNext]_pipeVars => PipeInv'
  <2> SUFFICES ASSUME PipeInv, [PipeNext]_pipeVars PROVE PipeInv'
    OBVIOUS
  <2>0. /\ file \in Seq(Byte) /\ sealed \in Seq(Seq(Byte)) /\ shard_data \in Seq(Pair)
        /\ \A v \in 1..Len(sealed) : Len(sealed[v]) > 0
        /\ Len(sealed) \in Nat /\ DOMAIN sealed = 1..Len(sealed)
    BY LenProperties DEF PipeInv
  <2>1. ASSUME NEW data \in Files(MaxFile), cmd_upload(data) PROVE PipeInv'
    <3>1. PICK k \in 0..MaxFile : data \in [1..k -> Byte]
      BY DEF Files
    <3>2. data \in Seq(Byte)
      <4>1. k \in Nat
        BY PipelineAssumption
      <4> QED BY <3>1, <4>1
    <3> QED BY <2>0, <2>1, <3>2 DEF PipeInv, cmd_upload
  <2>2. CASE encrypt
    <3>1. PICK i \in DOMAIN chunk_data(file) :
            \E ciphertext \in [1..(Len(chunk_data(file)[i]) + TAG_LEN) -> Byte] :
              sealed' = Append(sealed, ciphertext)
      BY <2>2 DEF encrypt
    <3>2. PICK ciphertext \in [1..(Len(chunk_data(file)[i]) + TAG_LEN) -> Byte] :
            sealed' = Append(sealed, ciphertext)
      BY <3>1
    <3>3. Len(chunk_data(file)[i]) \in Nat /\ TAG_LEN \in Nat /\ TAG_LEN > 0
      <4>1. i \in 1..chunk_count(Len(file))
        BY <2>0, ChunkTyped
      <4>2. chunk_data(file)[i] \in Seq(Byte)
        BY <4>1, <2>0, ChunkTyped
      <4> QED BY <4>2, LenProperties, PipelineAssumption
    <3> DEFINE n == Len(chunk_data(file)[i]) + TAG_LEN
    <3>4. n \in Nat /\ n > 0 /\ ciphertext \in [1..n -> Byte]
      BY <3>3
    <3> HIDE DEF n
    <3>5. ciphertext \in Seq(Byte) /\ Len(ciphertext) > 0
      BY <3>4
    <3>6. /\ sealed' \in Seq(Seq(Byte)) /\ Len(sealed') = Len(sealed) + 1
          /\ \A v \in 1..Len(sealed) : sealed'[v] = sealed[v]
          /\ sealed'[Len(sealed) + 1] = ciphertext
      BY <2>0, <3>2, <3>5, AppendProperties
    <3>7. ASSUME NEW v \in 1..Len(sealed') PROVE Len(sealed'[v]) > 0
      <4>1. v \in 1..Len(sealed) \/ v = Len(sealed) + 1
        BY <2>0, <3>6
      <4> QED BY <4>1, <2>0, <3>5, <3>6
    <3>8. file' = <<>> /\ shard_data' = shard_data
      BY <2>2 DEF encrypt
    <3>9. file' \in Seq(Byte)
      BY <3>8
    <3> QED BY <2>0, <3>6, <3>7, <3>8, <3>9 DEF PipeInv
  <2>3. ASSUME NEW j \in 0..4, NEW v \in DOMAIN sealed, hand_over(j, v) PROVE PipeInv'
    <3>1. sealed[v] \in Seq(0..4)
      BY <2>0, ElementOfSeq, BytesAreSymbols
    <3>2. <<j, encode(sealed[v])[j]>> \in Pair
      BY <3>1, EncodeProperties DEF Pair
    <3>3. shard_data' \in Seq(Pair)
      BY <2>0, <2>3, <3>2, AppendProperties DEF hand_over
    <3> QED BY <2>0, <2>3, <3>3 DEF hand_over, PipeInv
  <2>4. CASE UNCHANGED pipeVars
    BY <2>4 DEF pipeVars, PipeInv
  <2> QED BY <2>1, <2>2, <2>3, <2>4 DEF PipeNext
<1> QED BY <1>1, <1>2, PTL

-----------------------------------------------------------------------------
(* Reading *)

\* There are at least as many shards as indices.
LEMMA EnoughPairs ==
    ASSUME NEW pairs \in Seq(Pair)
    PROVE  Cardinality({p[1] : p \in Range(pairs)}) <= Len(pairs)
<1> DEFINE n == Len(pairs)
           T == {p[1] : p \in Range(pairs)}
           f == [k \in 1..n |-> pairs[k][1]]
<1>1. n \in Nat
  BY LenProperties
<1>2. \A x : x \in Range(pairs) <=> \E k \in 1..n : pairs[k] = x
  BY RangeMember
<1>3. f \in [1..n -> T]
  BY <1>2
<1>4. \A t \in T : \E k \in 1..n : f[k] = t
  BY <1>2
<1>6. IsFiniteSet(1..n) /\ Cardinality(1..n) = n
  <2>1. 1 \in Int /\ n \in Int
    BY <1>1
  <2>2. /\ IsFiniteSet(1..n)
        /\ Cardinality(1..n) = IF 1 > n THEN 0 ELSE n - 1 + 1
    <3> HIDE DEF n
    <3> QED BY ONLY <2>1, FS_Interval
  <2> HIDE DEF n
  <2> QED BY <1>1, <2>2
<1> HIDE DEF f, T, n
<1>5. f \in Surjection(1..n, T)
  BY <1>3, <1>4 DEF Surjection
<1>7. Cardinality(T) <= Cardinality(1..n)
  BY <1>5, <1>6, FS_Surjection
<1> QED BY <1>6, <1>7 DEF T, n

\* Shards of one encoding with three indices or more give it back.
LEMMA ReconstructExact ==
    ASSUME NEW data, NEW pairs, ShardsOf(data, pairs), Len(data) > 0,
           Cardinality({p[1] : p \in Range(pairs)}) >= 3
    PROVE  reconstruct(pairs) = Padded(data)
<1>0. data \in Seq(0..4) /\ pairs \in Seq(Pair) /\ Len(pairs) \in Nat
  BY LenProperties DEF ShardsOf, Pair
<1> DEFINE T == {p[1] : p \in Range(pairs)}
<1>1. /\ DOMAIN Slots(pairs) = T /\ DOMAIN Slots(pairs) \subseteq 0..4
      /\ \A j \in DOMAIN Slots(pairs) : Slots(pairs)[j] = encode(data)[j]
  BY SlotsFilled
<1>2. ~ \E p \in Range(pairs) : p[1] > 4
  <2>1. \A p \in Range(pairs) : p[1] \in T
    OBVIOUS
  <2>2. T \subseteq 0..4
    BY <1>1
  <2> HIDE DEF T
  <2>3. \A p \in Range(pairs) : p[1] \in 0..4
    BY <2>1, <2>2
  <2> QED BY <2>3
<1>3. Len(pairs) >= 3
  <2>1. Cardinality(T) <= Len(pairs)
    BY <1>0, EnoughPairs
  <2>2. Cardinality(T) \in Nat
    <3>1. 0 \in Int /\ 4 \in Int
      OBVIOUS
    <3>2. IsFiniteSet(0..4)
      BY ONLY <3>1, FS_Interval
    <3> HIDE DEF T
    <3>3. IsFiniteSet(T)
      BY <1>1, <3>2, FS_Subset
    <3> QED BY <3>3, FS_CardinalityType
  <2>3. Cardinality(T) >= 3
    OBVIOUS
  <2> HIDE DEF T
  <2> QED BY <2>1, <2>2, <2>3, <1>0
<1>4. Cardinality(DOMAIN Slots(pairs)) >= 3
  BY <1>1
<1>5. rs_reconstruct(Slots(pairs)) = Padded(data)
  BY ONLY <1>0, <1>1, <1>4, Len(data) > 0, SlotsDecoded
<1>6. ~ (Len(pairs) < 3)
  BY <1>0, <1>3
<1> QED BY <1>2, <1>5, <1>6 DEF reconstruct

LEMMA ReadCorrect == PipeInv => ReadsOneVersion
<1> SUFFICES ASSUME PipeInv, NEW v \in DOMAIN sealed
             PROVE  /\ AllOf(v) /\ Cardinality(Indices) >= 3 => Read(v) = <<v>>
                    /\ Cardinality(Indices) < 3 => Read(v) = Error
                    /\ Read(v) \in {<<v>>, Error}
  BY DEF ReadsOneVersion
<1>0. /\ v \in 1..Len(sealed) /\ sealed[v] \in Seq(0..4) /\ Len(sealed[v]) > 0
      /\ shard_data \in Seq(Pair) /\ Len(sealed[v]) \in Nat
  <2>1. v \in 1..Len(sealed) /\ sealed[v] \in Seq(Byte)
    BY LenProperties, ElementOfSeq DEF PipeInv
  <2> QED BY <2>1, BytesAreSymbols, LenProperties DEF PipeInv
<1> DEFINE data == sealed[v]
           got == reconstruct(shard_data)
<1>1. ASSUME AllOf(v), Cardinality(Indices) >= 3 PROVE Read(v) = <<v>>
  <2>1. ShardsOf(data, shard_data)
    <3>1. ASSUME NEW k \in 1..Len(shard_data)
          PROVE  shard_data[k][2] = encode(data)[shard_data[k][1]]
      <4>1. shard_data[k] \in Range(shard_data)
        BY <1>0, RangeMember
      <4> QED BY <4>1, <1>1 DEF AllOf
    <3> QED BY <1>0, <3>1 DEF ShardsOf, Pair
  <2>2. got = Padded(data)
    BY <2>1, <1>0, <1>1, ReconstructExact DEF Indices
  <2>3. /\ Padded(data) \in Seq(0..4) /\ ShardSize(data) \in Nat /\ ShardSize(data) > 0
        /\ Len(Padded(data)) = 3 * ShardSize(data) /\ Len(data) <= 3 * ShardSize(data)
    BY <1>0, PaddedProperties
  <2> HIDE DEF data, got
  <2>4. Padded(data) # Error
    <3>1. Padded(data)[1] \in 0..4
      <4>1. 1 \in 1..Len(Padded(data))
        BY <2>3
      <4> QED BY ONLY <4>1, <2>3, ElementOfSeq
    <3>2. Error[1] = -1
      BY DEF Error
    <3> QED BY <3>1, <3>2
  <2>5. ~ (Len(got) < Len(data))
    BY <2>2, <2>3, <1>0 DEF data
  <2>6. SubSeq(got, 1, Len(data)) = data
    BY <2>2, <1>0, PaddedPrefix DEF data
  <2>7. Read(v) = decrypt(v, SubSeq(got, 1, Len(data)))
    BY <2>2, <2>4, <2>5 DEF Read, data, got
  <2> QED BY <2>6, <2>7 DEF decrypt, data
<1>2. ASSUME Cardinality(Indices) < 3 PROVE Read(v) = Error
  <2>1. got = Error
    <3>1. DOMAIN Slots(shard_data) = Indices
      BY DEF Slots, Indices
    <3>2. rs_reconstruct(Slots(shard_data)) = Error
      BY <3>1, <1>2 DEF rs_reconstruct
    <3> QED BY <3>2 DEF reconstruct
  <2> QED BY <2>1 DEF Read
<1>3. Read(v) \in {<<v>>, Error}
  BY DEF Read, decrypt
<1> QED BY <1>1, <1>2, <1>3

\* Any three different shards of a version bring it back, fewer or a mixture of
\* versions are an error: erasure.rs's reconstruct behind encryption.rs's
\* decrypt, for every file, every loss and every repetition of shards.
THEOREM ReadsCorrect == PipeSpec => []ReadsOneVersion
BY PipeInductive, ReadCorrect, PTL DEF PipeSpec

-----------------------------------------------------------------------------
(* Chunks *)

\* FlattenSeq's inner function.
Flatten(seqs) ==
    CHOOSE f : f = [i \in 1..Len(seqs) |-> IF i = 1 THEN seqs[i] ELSE f[i - 1] \o seqs[i]]

FlattenStep(seqs, g) ==
    /\ Len(seqs) \in Nat
    /\ g = [i \in 1..Len(seqs) |-> IF i = 1 THEN seqs[i] ELSE g[i - 1] \o seqs[i]]

\* A function that satisfies its recursion is that function.
LEMMA FlattenUnique ==
    ASSUME NEW seqs, NEW g, FlattenStep(seqs, g)
    PROVE  \A i \in 1..Len(seqs) : Flatten(seqs)[i] = g[i]
<1> DEFINE n == Len(seqs)
           h == Flatten(seqs)
           T == {i \in 1..n : h[i] # g[i]}
<1>1. h = [i \in 1..n |-> IF i = 1 THEN seqs[i] ELSE h[i - 1] \o seqs[i]]
  BY DEF Flatten, FlattenStep
<1>2. SUFFICES T = {}
  OBVIOUS
<1>3. SUFFICES ASSUME T # {} PROVE FALSE
  OBVIOUS
<1>n. n \in Nat
  BY DEF FlattenStep
<1> HIDE DEF h, n
<1>4. PICK x \in T : \A y \in T : x <= y
  <2>1. T \in SUBSET Nat
    BY ONLY <1>n
  <2> HIDE DEF T
  <2> QED BY <2>1, <1>3, LeastNumber
<1>g. g = [i \in 1..n |-> IF i = 1 THEN seqs[i] ELSE g[i - 1] \o seqs[i]]
  BY DEF n, FlattenStep
<1>5. x \in 1..n /\ h[x] # g[x]
  OBVIOUS
<1>6. h[x] = IF x = 1 THEN seqs[x] ELSE h[x - 1] \o seqs[x]
  BY ONLY <1>1, <1>5
<1>7. g[x] = IF x = 1 THEN seqs[x] ELSE g[x - 1] \o seqs[x]
  BY ONLY <1>g, <1>5
<1>8. CASE x = 1
  BY <1>8, <1>5, <1>6, <1>7
<1>9. CASE x # 1
  <2>1. x - 1 \in 1..n /\ ~ (x <= x - 1)
    BY <1>n, <1>5, <1>9
  <2>2. h[x - 1] = g[x - 1]
    BY <2>1, <1>4
  <2> QED BY ONLY <2>2, <1>9, <1>5, <1>6, <1>7
<1> QED BY <1>8, <1>9

\* The first i chunks are the data up to where chunk i ends.
LEMMA PrefixGrows ==
    ASSUME NEW data \in Seq(Byte), NEW i \in 1..chunk_count(Len(data))
    PROVE  SubSeq(data, 1, End(data, i)) =
             IF i = 1 THEN chunk_data(data)[i]
             ELSE SubSeq(data, 1, End(data, i - 1)) \o chunk_data(data)[i]
<1> DEFINE n == Len(data)
           q == chunk_count(n)
           c == CHUNK_SIZE
           b == (i - 1) * c
           e == End(data, i)
           s == chunk_data(data)[i]
           t == SubSeq(data, 1, e)
           r == SubSeq(data, 1, b)
<1>0. c \in Nat /\ c > 0 /\ n \in Nat /\ q \in Nat
  BY PipelineAssumption, LenProperties, ChunkTyped
<1>1. /\ s \in Seq(Byte) /\ Len(s) = e - b /\ Len(s) \in 1..c
      /\ \A k \in 1..Len(s) : s[k] = data[b + k]
  BY ChunkTyped
<1>i. i \in Nat /\ i > 0
  BY <1>0
<1>2. e \in Nat /\ e <= n
  BY <1>i, EndValue
<1>3. b \in Nat /\ b + 1 <= n
  <2>1. i - 1 \in Nat
    BY <1>i
  <2>2. b \in Nat
    BY <2>1, <1>0
  <2>3. \A j \in 1..chunk_count(n) : (j - 1) * CHUNK_SIZE + 1 <= n
    BY <1>0, ChunkBounds
  <2>4. b + 1 <= n
    BY <2>3
  <2> QED BY <2>2, <2>4
<1>b. i = 1 => b = 0
  BY <1>0
<1>4. i # 1 => End(data, i - 1) = b
  <2>1. i - 1 \in Nat
    BY <1>i
  <2>2. End(data, i - 1) = IF b <= n THEN b ELSE n
    BY ONLY <2>1, data \in Seq(Byte), EndValue
  <2> HIDE DEF b, n
  <2> QED BY <2>2, <1>3, <1>0
<1> HIDE DEF n, q, c, b, e
<1>5. \A k \in 1..n : data[k] \in Byte
  BY ElementOfSeq DEF n
<1>6. /\ t \in Seq(Byte) /\ Len(t) = IF 1 <= e THEN e - 1 + 1 ELSE 0
      /\ \A k \in 1..(e - 1 + 1) : t[k] = data[1 + k - 1]
  <2>1. 1 \in Int /\ e \in Int /\ \A k \in 1..e : data[k] \in Byte
    BY <1>0, <1>2, <1>5
  <2> QED BY ONLY <2>1, SubSeqProperties
<1>7. /\ r \in Seq(Byte) /\ Len(r) = IF 1 <= b THEN b - 1 + 1 ELSE 0
      /\ \A k \in 1..(b - 1 + 1) : r[k] = data[1 + k - 1]
  <2>1. 1 \in Int /\ b \in Int /\ \A k \in 1..b : data[k] \in Byte
    BY <1>0, <1>3, <1>5
  <2> QED BY ONLY <2>1, SubSeqProperties
<1> HIDE DEF s, t, r
<1>8. Len(t) = e /\ \A k \in 1..e : t[k] = data[k]
  BY <1>2, <1>6
<1>9. Len(r) = b /\ \A k \in 1..b : r[k] = data[k]
  BY <1>3, <1>7
<1>10. t = r \o s
  <2> DEFINE w == r \o s
  <2>1. /\ w \in Seq(Byte) /\ Len(w) = Len(r) + Len(s)
        /\ \A k \in 1..(Len(r) + Len(s)) : w[k] = IF k <= Len(r) THEN r[k] ELSE s[k - Len(r)]
    <3>1. r \in Seq(Byte) /\ s \in Seq(Byte)
      BY <1>1, <1>7
    <3> QED BY ONLY <3>1, ConcatProperties
  <2>2. Len(r) + Len(s) = e /\ Len(r) = b
    BY <1>1, <1>2, <1>3, <1>9
  <2> HIDE DEF w
  <2>3. ASSUME NEW k \in 1..e PROVE w[k] = t[k]
    <3>1. CASE k <= b
      <4>1. k \in 1..b
        BY <3>1, <1>3
      <4> QED BY <4>1, <3>1, <2>1, <2>2, <1>8, <1>9
    <3>2. CASE k > b
      <4>1. k - b \in 1..Len(s) /\ b + (k - b) = k
        BY <3>2, <1>1, <1>2, <1>3
      <4>2. w[k] = s[k - b]
        BY <3>2, <1>2, <1>3, <2>1, <2>2
      <4>3. s[k - b] = data[k]
        BY <4>1, <1>1
      <4> QED BY <4>2, <4>3, <1>8
    <3> QED BY <3>1, <3>2, <1>2, <1>3
  <2>4. w = t
    <3>1. w \in Seq(Byte) /\ t \in Seq(Byte) /\ Len(w) = Len(t) /\ \A k \in 1..Len(w) : w[k] = t[k]
      BY <2>1, <2>2, <2>3, <1>6, <1>8
    <3> QED BY ONLY <3>1, SeqEqual
  <2> QED BY <2>4 DEF w
<1>11. CASE i = 1
  <2>1. Len(s) = e /\ \A k \in 1..Len(s) : s[k] = t[k]
    BY <1>11, <1>b, <1>1, <1>2, <1>8
  <2>2. s = t
    <3>1. s \in Seq(Byte) /\ t \in Seq(Byte) /\ Len(s) = Len(t) /\ \A k \in 1..Len(s) : s[k] = t[k]
      BY <2>1, <1>1, <1>6, <1>8
    <3> QED BY ONLY <3>1, SeqEqual
  <2> QED BY <2>2, <1>11 DEF s, t, e
<1>12. CASE i # 1
  BY <1>12, <1>4, <1>10 DEF r, s, t, e
<1> QED BY <1>11, <1>12

\* The chunks, one behind the other, are the data.
LEMMA AssembleExact ==
    ASSUME NEW data \in Seq(Byte)
    PROVE  assemble_chunks(chunk_data(data)) = data
<1> DEFINE n == Len(data)
           q == chunk_count(n)
           s == chunk_data(data)
           g == [i \in 1..q |-> SubSeq(data, 1, End(data, i))]
<1>0. n \in Nat /\ q \in Nat /\ Len(s) = q
  <2>1. n \in Nat /\ q \in Nat /\ DOMAIN s = 1..q
    BY LenProperties, ChunkTyped
  <2>2. s \in Seq(Seq(Byte))
    <3>1. \A i \in 1..q : s[i] \in Seq(Byte)
      BY ChunkTyped
    <3>2. s = [i \in 1..q |-> s[i]]
      BY DEF chunk_data
    <3> HIDE DEF s, q, n
    <3>3. s \in [1..q -> Seq(Byte)]
      BY <3>1, <3>2
    <3> QED BY <3>3, <2>1
  <2> HIDE DEF s, q, n
  <2>3. DOMAIN s = 1..Len(s) /\ Len(s) \in Nat
    BY <2>2, LenProperties
  <2> QED BY <2>1, <2>3
<1>1. CASE q = 0
  <2>1. n = 0
    <3>1. n > 0 => q > 0
      BY <1>0, ChunkBounds
    <3> HIDE DEF n, q
    <3> QED BY <3>1, <1>0, <1>1
  <2>2. data = <<>>
    BY <2>1, EmptySeq
  <2>3. s = <<>>
    <3>1. s = [i \in 1..q |-> s[i]]
      BY DEF chunk_data
    <3> HIDE DEF s, q
    <3>2. s = [i \in 1..0 |-> s[i]]
      BY <3>1, <1>1
    <3> QED BY <3>2
  <2>4. FlattenSeq(s) = s
    <3> HIDE DEF s, q
    <3> QED BY <1>0, <1>1 DEF FlattenSeq
  <2> QED BY <2>2, <2>3, <2>4 DEF assemble_chunks
<1>2. CASE q > 0
  <2>1. ASSUME NEW i \in 1..q PROVE g[i] = IF i = 1 THEN s[i] ELSE g[i - 1] \o s[i]
    <3>1. SubSeq(data, 1, End(data, i)) =
            IF i = 1 THEN s[i] ELSE SubSeq(data, 1, End(data, i - 1)) \o s[i]
      BY PrefixGrows
    <3>2. i # 1 => i - 1 \in 1..q
      <4> HIDE DEF q
      <4> QED BY <1>0
    <3> QED BY <3>1, <3>2
  <2>2. g = [i \in 1..q |-> IF i = 1 THEN s[i] ELSE g[i - 1] \o s[i]]
    <3>1. g = [i \in 1..q |-> g[i]]
      OBVIOUS
    <3> HIDE DEF g, s, q
    <3> QED BY <2>1, <3>1
  <2>3. \A i \in 1..q : Flatten(s)[i] = g[i]
    <3> HIDE DEF g, s, q
    <3>1. FlattenStep(s, g)
      BY <2>2, <1>0 DEF FlattenStep
    <3> QED BY ONLY <1>0, <3>1, FlattenUnique
  <2>4. FlattenSeq(s) = Flatten(s)[q]
    <3>1. FlattenSeq(s) = IF Len(s) = 0 THEN s ELSE Flatten(s)[Len(s)]
      BY DEF FlattenSeq, Flatten
    <3> HIDE DEF s, q
    <3> QED BY <3>1, <1>0, <1>2
  <2>5. q \in 1..q
    <3> HIDE DEF q
    <3> QED BY <1>0, <1>2
  <2>6. FlattenSeq(s) = SubSeq(data, 1, End(data, q))
    <3>1. g[q] = SubSeq(data, 1, End(data, q))
      <4> HIDE DEF q
      <4> QED BY <2>5
    <3> HIDE DEF g, s, q
    <3> QED BY <2>3, <2>4, <2>5, <3>1
  <2>7. End(data, q) = n
    <3>1. q * CHUNK_SIZE >= n
      BY <1>0, ChunkBounds
    <3>2. End(data, q) = IF q * CHUNK_SIZE <= n THEN q * CHUNK_SIZE ELSE n
      BY <1>0, EndValue
    <3>3. q * CHUNK_SIZE \in Nat
      <4> HIDE DEF q
      <4> QED BY <1>0, PipelineAssumption
    <3> HIDE DEF q, n
    <3> QED BY <3>1, <3>2, <3>3, <1>0
  <2>8. SubSeq(data, 1, n) = data
    BY SubSeqFull
  <2> HIDE DEF s, q, n
  <2> QED BY <2>6, <2>7, <2>8 DEF assemble_chunks, s
<1> HIDE DEF q
<1> QED BY <1>0, <1>1, <1>2

LEMMA ReassembleCorrect == PipeInv => ChunksReassemble
<1> SUFFICES ASSUME PipeInv PROVE ChunksReassemble
  OBVIOUS
<1> DEFINE chunks == chunk_data(file)
           ids == generate_chunk_ids(chunks)
           store == [id \in Range(ids) |-> CHOOSE c \in Range(chunks) : ChunkId(c) = id]
           again == [i \in DOMAIN ids |-> store[ids[i]]]
           q == chunk_count(Len(file))
<1>0. file \in Seq(Byte)
  BY DEF PipeInv
<1>1. /\ q \in Nat /\ DOMAIN chunks = 1..q
      /\ \A i \in 1..q : chunks[i] \in Seq(Byte) /\ Len(chunks[i]) \in 1..CHUNK_SIZE
  BY <1>0, ChunkTyped
<1>2. chunks = [i \in 1..q |-> chunks[i]]
  BY DEF chunk_data
<1>9. assemble_chunks(chunks) = file
  BY <1>0, AssembleExact
<1> HIDE DEF chunks, q
<1>3. DOMAIN ids = 1..q /\ \A i \in 1..q : ids[i] = ChunkId(chunks[i])
  BY <1>1 DEF generate_chunk_ids
<1>4. ASSUME NEW i \in 1..q PROVE store[ids[i]] = chunks[i]
  <2>1. ids[i] \in Range(ids) /\ chunks[i] \in Range(chunks)
    BY <1>1, <1>3 DEF Range
  <2>2. store[ids[i]] = CHOOSE c \in Range(chunks) : ChunkId(c) = ids[i]
    <3> HIDE DEF ids
    <3> QED BY <2>1
  <2>3. \A c, d : ChunkId(c) = ChunkId(d) => c = d
    BY DEF ChunkId
  <2>4. ids[i] = ChunkId(chunks[i])
    BY <1>3
  <2> HIDE DEF ids, store
  <2> QED BY <2>1, <2>2, <2>3, <2>4
<1>5. again = chunks
  <2> HIDE DEF ids, store
  <2> QED BY <1>2, <1>3, <1>4
<1>6. Len(chunks) = q
  <2>1. chunks \in [1..q -> Seq(Byte)]
    BY <1>1, <1>2
  <2> QED BY <2>1, <1>1
<1>7. \A c \in Range(chunks) : Len(c) \in 1..CHUNK_SIZE
  BY <1>1 DEF Range
<1>8. assemble_chunks(again) = file
  <2> HIDE DEF again
  <2> QED BY <1>5, <1>9
<1> QED BY <1>6, <1>7, <1>8 DEF ChunksReassemble, chunks, q

\* chunk_data and assemble_chunks (chunking.rs) are inverse, through the ids of
\* the chunks too, for every length of a file and every size of a chunk.
THEOREM ReassembleExact == PipeSpec => []ChunksReassemble
BY PipeInductive, ReassembleCorrect, PTL DEF PipeSpec

-----------------------------------------------------------------------------
(* Powers of two and the widths of the layers *)

LEMMA Pow2Step == Pow2 = [h \in Nat |-> IF h = 0 THEN 1 ELSE 2 * Pow2[h - 1]]
<1> DEFINE Is(f, n) == f = [h \in 0..n |-> IF h = 0 THEN 1 ELSE 2 * f[h - 1]]
           F(n) == CHOOSE f : Is(f, n)
           T == {n \in Nat : ~ \E f : Is(f, n)}
<1>1. T = {}
  <2> SUFFICES ASSUME T # {} PROVE FALSE
    OBVIOUS
  <2>1. PICK x \in T : \A y \in T : x <= y
    <3>1. T \in SUBSET Nat
      OBVIOUS
    <3> HIDE DEF T
    <3> QED BY <3>1, LeastNumber
  <2>2. x \in Nat /\ ~ \E f : Is(f, x)
    BY <2>1
  <2>3. CASE x = 0
    <3> DEFINE g == [h \in 0..0 |-> 1]
    <3>1. Is(g, 0)
      OBVIOUS
    <3> HIDE DEF Is
    <3> QED BY <3>1, <2>2, <2>3
  <2>4. CASE x > 0
    <3>1. x - 1 \in Nat /\ ~ (x <= x - 1)
      BY <2>2, <2>4
    <3>2. x - 1 \notin T
      <4> HIDE DEF T
      <4> QED BY <3>1, <2>1
    <3>3. PICK f : Is(f, x - 1)
      BY <3>1, <3>2
    <3> DEFINE g == [h \in 0..x |-> IF h = x THEN 2 * f[x - 1] ELSE f[h]]
    <3>4. ASSUME NEW h \in 0..x PROVE g[h] = IF h = 0 THEN 1 ELSE 2 * g[h - 1]
      <4>1. CASE h = x
        <5>1. x - 1 \in 0..x /\ x - 1 # x
          BY <2>2, <2>4
        <5> QED BY <4>1, <5>1, <2>2, <2>4
      <4>2. CASE h # x
        <5>1. h \in 0..(x - 1) /\ (h # 0 => h - 1 \in 0..x /\ h - 1 # x)
          BY <4>2, <2>2
        <5>2. f[h] = IF h = 0 THEN 1 ELSE 2 * f[h - 1]
          BY <3>3, <5>1
        <5> QED BY <4>2, <5>1, <5>2
      <4> QED BY <4>1, <4>2
    <3>5. Is(g, x)
      <4>1. g = [h \in 0..x |-> g[h]]
        OBVIOUS
      <4> HIDE DEF g
      <4> QED BY <3>4, <4>1
    <3> HIDE DEF Is, g
    <3> QED BY <3>5, <2>2
  <2> QED BY <2>2, <2>3, <2>4
<1>2. ASSUME NEW n \in Nat PROVE Is(F(n), n)
  <2>1. \E f : Is(f, n)
    BY <1>1
  <2> HIDE DEF Is
  <2> QED BY <2>1
<1>3. ASSUME NEW n \in Nat, NEW h \in 0..n
      PROVE  F(n)[h] = IF h = 0 THEN 1 ELSE 2 * F(n)[h - 1]
  <2>1. Is(F(n), n)
    BY <1>2
  <2> DEFINE f == F(n)
  <2>2. f = [i \in 0..n |-> IF i = 0 THEN 1 ELSE 2 * f[i - 1]]
    BY <2>1
  <2> HIDE DEF f
  <2>3. f[h] = IF h = 0 THEN 1 ELSE 2 * f[h - 1]
    BY ONLY <2>2, h \in 0..n
  <2> QED BY <2>3 DEF f
<1> HIDE DEF F, T
<1>4. ASSUME NEW n \in Nat PROVE F(n + 1)[n] = F(n)[n]
  <2> DEFINE U == {k \in 0..n : F(n + 1)[k] # F(n)[k]}
  <2>1. U = {}
    <3> SUFFICES ASSUME U # {} PROVE FALSE
      OBVIOUS
    <3>1. PICK x \in U : \A y \in U : x <= y
      <4>1. U \in SUBSET Nat
        OBVIOUS
      <4> HIDE DEF U
      <4> QED BY <4>1, LeastNumber
    <3>2. x \in 0..n /\ x \in 0..(n + 1) /\ n + 1 \in Nat
      BY <3>1
    <3>3. F(n)[x] = IF x = 0 THEN 1 ELSE 2 * F(n)[x - 1]
      BY <3>2, <1>3
    <3>4. F(n + 1)[x] = IF x = 0 THEN 1 ELSE 2 * F(n + 1)[x - 1]
      BY <3>2, <1>3
    <3>5. x # 0 => F(n + 1)[x - 1] = F(n)[x - 1]
      <4>1. x # 0 => x - 1 \in 0..n /\ ~ (x <= x - 1)
        BY <3>2
      <4> QED BY <4>1, <3>1
    <3>6. F(n + 1)[x] # F(n)[x]
      BY <3>1
    <3> QED BY ONLY <3>3, <3>4, <3>5, <3>6
  <2>2. n \in 0..n
    OBVIOUS
  <2> QED BY <2>1, <2>2
<1> DEFINE P == [h \in Nat |-> F(h)[h]]
<1>5. ASSUME NEW h \in Nat PROVE P[h] = IF h = 0 THEN 1 ELSE 2 * P[h - 1]
  <2>1. F(h)[h] = IF h = 0 THEN 1 ELSE 2 * F(h)[h - 1]
    BY <1>3
  <2>2. CASE h = 0
    BY <2>1, <2>2
  <2>3. CASE h # 0
    <3>1. h - 1 \in Nat /\ (h - 1) + 1 = h
      BY <2>3
    <3>2. F((h - 1) + 1)[h - 1] = F(h - 1)[h - 1]
      BY <3>1, <1>4
    <3>3. P[h - 1] = F(h - 1)[h - 1] /\ P[h] = F(h)[h]
      BY <3>1
    <3> QED BY <2>1, <2>3, <3>1, <3>2, <3>3
  <2> QED BY <2>2, <2>3
<1>6. P = [h \in Nat |-> IF h = 0 THEN 1 ELSE 2 * P[h - 1]]
  <2>1. P = [h \in Nat |-> P[h]]
    OBVIOUS
  <2> HIDE DEF P
  <2> QED BY <1>5, <2>1
<1> HIDE DEF P
<1> QED BY <1>6 DEF Pow2

LEMMA Pow2Values ==
    /\ Pow2[0] = 1
    /\ \A h \in Nat : Pow2[h + 1] = 2 * Pow2[h]
    /\ \A h \in Nat : Pow2[h] \in Nat /\ Pow2[h] > 0
<1>1. \A h \in Nat : Pow2[h] = IF h = 0 THEN 1 ELSE 2 * Pow2[h - 1]
  BY ONLY Pow2Step
<1>2. Pow2[0] = 1
  BY <1>1
<1>3. ASSUME NEW h \in Nat PROVE Pow2[h + 1] = 2 * Pow2[h]
  <2>1. h + 1 \in Nat /\ h + 1 # 0 /\ (h + 1) - 1 = h
    OBVIOUS
  <2> QED BY <2>1, <1>1
<1> DEFINE T == {h \in Nat : ~ (Pow2[h] \in Nat /\ Pow2[h] > 0)}
<1>4. T = {}
  <2> SUFFICES ASSUME T # {} PROVE FALSE
    OBVIOUS
  <2>1. PICK x \in T : \A y \in T : x <= y
    <3>1. T \in SUBSET Nat
      OBVIOUS
    <3> HIDE DEF T
    <3> QED BY <3>1, LeastNumber
  <2>2. x \in Nat /\ x # 0
    BY <2>1, <1>2
  <2>3. x - 1 \in Nat /\ ~ (x <= x - 1)
    BY <2>2
  <2>4. Pow2[x - 1] \in Nat /\ Pow2[x - 1] > 0
    BY <2>1, <2>3
  <2>5. Pow2[x] = 2 * Pow2[x - 1]
    BY <2>2, <1>1
  <2> QED BY <2>1, <2>4, <2>5
<1> QED BY <1>2, <1>3, <1>4

LEMMA DivisionUnique ==
    ASSUME NEW a \in Nat, NEW c \in Nat, c > 0, NEW x \in Nat, x * c <= a, a < x * c + c
    PROVE  a \div c = x
<1> DEFINE y == a \div c
<1>1. y \in Nat /\ y * c <= a /\ a < y * c + c
  BY Division
<1> HIDE DEF y
<1>2. ~ (y < x)
  <2> SUFFICES ASSUME y + 1 <= x PROVE FALSE
    BY <1>1
  <2>1. (y + 1) * c <= x * c
    BY <1>1, MultipleMonotone
  <2>2. (y + 1) * c = y * c + c
    BY <1>1
  <2> QED BY <2>1, <2>2, <1>1
<1>3. ~ (x < y)
  <2> SUFFICES ASSUME x + 1 <= y PROVE FALSE
    BY <1>1
  <2>1. (x + 1) * c <= y * c
    BY <1>1, MultipleMonotone
  <2>2. (x + 1) * c = x * c + c
    BY <1>1
  <2> QED BY <2>1, <2>2, <1>1
<1> QED BY <1>1, <1>2, <1>3 DEF y

\* A layer has half as many hashes as the one below, rounded up.
LEMMA WidthStep ==
    ASSUME NEW n \in Nat, NEW h \in Nat
    PROVE  /\ Width(n, h) \in Nat
           /\ Width(n, 0) = n
           /\ Width(n, h + 1) = (Width(n, h) + 1) \div 2
<1> DEFINE p == Pow2[h]
           w == Width(n, h)
<1>1. p \in Nat /\ p > 0 /\ Pow2[h + 1] = 2 * p /\ Pow2[0] = 1
  BY Pow2Values
<1>2. w = (n + p - 1) \div p
  BY DEF Width
<1>3. Width(n, h + 1) = (n + 2 * p - 1) \div (2 * p)
  BY <1>1 DEF Width
<1>4. Width(n, 0) = n
  <2>1. Width(n, 0) = (n + 1 - 1) \div 1
    BY <1>1 DEF Width
  <2> QED BY <2>1
<1> HIDE DEF p, w
<1>5. n + p - 1 \in Nat /\ n + 2 * p - 1 \in Nat /\ 2 * p \in Nat /\ 2 * p > 0
  BY <1>1
<1>6. w \in Nat /\ w * p <= n + p - 1 /\ n + p - 1 < w * p + p
  BY <1>1, <1>2, <1>5, Division
<1> DEFINE v == (w + 1) \div 2
<1>7. v \in Nat /\ w <= 2 * v /\ 2 * v <= w + 1
  BY <1>6
<1> HIDE DEF v
<1>8. v * (2 * p) = (2 * v) * p /\ (w + 1) * p = w * p + p /\ w * p \in Nat /\ (2 * v) * p \in Nat
  BY <1>1, <1>6, <1>7
<1>9. w * p <= (2 * v) * p /\ (2 * v) * p <= (w + 1) * p
  <2>1. 2 * v \in Nat /\ w + 1 \in Nat
    BY <1>6, <1>7
  <2> QED BY <2>1, <1>1, <1>6, <1>7, MultipleMonotone
<1>10. v * (2 * p) <= n + 2 * p - 1 /\ n + 2 * p - 1 < v * (2 * p) + 2 * p
  BY <1>1, <1>6, <1>8, <1>9
<1>11. (n + 2 * p - 1) \div (2 * p) = v
  BY <1>5, <1>7, <1>10, DivisionUnique
<1> QED BY <1>3, <1>4, <1>6, <1>11 DEF v, w

LEMMA WidthShrinks ==
    ASSUME NEW n \in Nat, n > 0, NEW h \in Nat
    PROVE  Width(n, h) > 0 /\ (Width(n, h) = 1 \/ Width(n, h) + h <= n)
<1> DEFINE Good(k) == Width(n, k) > 0 /\ (Width(n, k) = 1 \/ Width(n, k) + k <= n)
           T == {k \in Nat : ~ Good(k)}
<1>1. T = {}
  <2> SUFFICES ASSUME T # {} PROVE FALSE
    OBVIOUS
  <2>1. PICK x \in T : \A y \in T : x <= y
    <3>1. T \in SUBSET Nat
      OBVIOUS
    <3> HIDE DEF T
    <3> QED BY <3>1, LeastNumber
  <2>2. x \in Nat /\ ~ Good(x)
    BY <2>1
  <2>3. Good(0)
    <3>1. Width(n, 0) = n
      BY WidthStep
    <3> QED BY <3>1
  <2>4. CASE x # 0
    <3>1. x - 1 \in Nat /\ ~ (x <= x - 1) /\ (x - 1) + 1 = x
      BY <2>2, <2>4
    <3>2. x - 1 \notin T
      <4> HIDE DEF T
      <4> QED BY <3>1, <2>1
    <3>3. Good(x - 1)
      <4> HIDE DEF Good
      <4> QED BY <3>1, <3>2
    <3> DEFINE w == Width(n, x - 1)
               v == Width(n, x)
    <3>4. w \in Nat /\ v = (w + 1) \div 2
      BY <3>1, WidthStep
    <3>5. w > 0 /\ (w = 1 \/ w + (x - 1) <= n)
      BY <3>3
    <3> HIDE DEF w, v
    <3>6. v > 0 /\ (v = 1 \/ v + x <= n)
      BY <3>4, <3>5, <2>2
    <3> QED BY <3>6, <2>2 DEF v
  <2> HIDE DEF Good
  <2> QED BY <2>2, <2>3, <2>4
<1> QED BY <1>1

\* The height of the tree over n leaves.
AtTop(n, h) == Width(n, h) = 1 /\ \A g \in 0..(h - 1) : Width(n, g) > 1

LEMMA HeightExists ==
    ASSUME NEW n \in Nat, n > 0
    PROVE  \E h \in 0..n : AtTop(n, h)
<1> DEFINE T == {h \in Nat : Width(n, h) = 1}
<1>1. n \in T
  <2>1. Width(n, n) \in Nat /\ Width(n, n) > 0 /\ (Width(n, n) = 1 \/ Width(n, n) + n <= n)
    BY WidthStep, WidthShrinks
  <2>2. Width(n, n) = 1
    BY <2>1
  <2> QED BY <2>2
<1>2. PICK x \in T : \A y \in T : x <= y
  <2>1. T \in SUBSET Nat /\ T # {}
    BY <1>1
  <2> HIDE DEF T
  <2> QED BY <2>1, LeastNumber
<1>3. x \in 0..n /\ Width(n, x) = 1
  BY <1>1, <1>2
<1>4. ASSUME NEW g \in 0..(x - 1) PROVE Width(n, g) > 1
  <2>1. g \in Nat /\ ~ (x <= g)
    BY <1>3
  <2>2. Width(n, g) # 1
    BY <2>1, <1>2
  <2>3. Width(n, g) \in Nat /\ Width(n, g) > 0
    BY <2>1, WidthStep, WidthShrinks
  <2> QED BY <2>2, <2>3
<1> QED BY <1>3, <1>4 DEF AtTop

LEMMA HeightUnique ==
    ASSUME NEW n \in Nat, NEW g \in Nat, NEW h \in Nat, AtTop(n, g), AtTop(n, h)
    PROVE  g = h
<1>1. ~ (g < h)
  <2> SUFFICES ASSUME g < h PROVE FALSE
    OBVIOUS
  <2>1. g \in 0..(h - 1)
    OBVIOUS
  <2> QED BY <2>1 DEF AtTop
<1>2. ~ (h < g)
  <2> SUFFICES ASSUME h < g PROVE FALSE
    OBVIOUS
  <2>1. h \in 0..(g - 1)
    OBVIOUS
  <2> QED BY <2>1 DEF AtTop
<1> QED BY <1>1, <1>2

-----------------------------------------------------------------------------
(* The layers *)

\* f is a sequence of n things of any kind.
Tuple(f, n) == n \in Nat /\ f = [i \in 1..n |-> f[i]]

LEMMA TupleLen ==
    ASSUME NEW f, NEW n, Tuple(f, n)
    PROVE  Len(f) = n /\ DOMAIN f = 1..n /\ f \in Seq({f[i] : i \in 1..n})
<1> DEFINE S == {f[i] : i \in 1..n}
<1>1. n \in Nat /\ f = [i \in 1..n |-> f[i]]
  BY DEF Tuple
<1>2. \A i \in 1..n : f[i] \in S
  OBVIOUS
<1> HIDE DEF S
<1>3. f \in [1..n -> S]
  BY <1>1, <1>2
<1>4. f \in Seq(S)
  BY <1>1, <1>3
<1>5. DOMAIN f = 1..n
  BY <1>3
<1>6. Len(f) \in Nat /\ DOMAIN f = 1..Len(f)
  BY <1>4, LenProperties
<1>7. Len(f) = n
  BY <1>1, <1>5, <1>6
<1> QED BY <1>4, <1>5, <1>7 DEF S

LEMMA SeqTuple ==
    ASSUME NEW S, NEW s \in Seq(S)
    PROVE  Tuple(s, Len(s))
BY LenProperties DEF Tuple

\* The i-th hash of the layer above.
Above(s, i) == HashPair(s[2 * i - 1], IF 2 * i <= Len(s) THEN s[2 * i] ELSE s[2 * i - 1])

LEMMA NextLayerTuple ==
    ASSUME NEW s, NEW n, Tuple(s, n)
    PROVE  LET m == (n + 1) \div 2
           IN  /\ Tuple(NextLayer(s), m)
               /\ \A i \in 1..m : NextLayer(s)[i] = Above(s, i)
<1>1. n \in Nat /\ Len(s) = n
  BY TupleLen DEF Tuple
<1> DEFINE m == (n + 1) \div 2
           t == NextLayer(s)
<1>2. m \in Nat
  BY <1>1
<1>3. t = [i \in 1..m |-> Above(s, i)]
  BY <1>1 DEF NextLayer, Above
<1> HIDE DEF m, t
<1>4. \A i \in 1..m : t[i] = Above(s, i)
  BY <1>3
<1>5. t = [i \in 1..m |-> t[i]]
  BY <1>3, <1>4
<1> QED BY <1>2, <1>4, <1>5 DEF Tuple, m, t

\* The rounds of the loop of from_hashes.
Rounds(s, f, n) == f = [k \in 0..n |-> IF k = 0 THEN s ELSE NextLayer(f[k - 1])]
Layer(s) == CHOOSE f : Rounds(s, f, Len(s))

LEMMA RoundsExist ==
    ASSUME NEW s, NEW n \in Nat
    PROVE  \E f : Rounds(s, f, n)
<1> DEFINE T == {k \in Nat : ~ \E f : Rounds(s, f, k)}
<1>1. T = {}
  <2> SUFFICES ASSUME T # {} PROVE FALSE
    OBVIOUS
  <2>1. PICK x \in T : \A y \in T : x <= y
    <3>1. T \in SUBSET Nat
      OBVIOUS
    <3> HIDE DEF T
    <3> QED BY <3>1, LeastNumber
  <2>2. x \in Nat /\ ~ \E f : Rounds(s, f, x)
    BY <2>1
  <2>3. CASE x = 0
    <3> DEFINE g == [k \in 0..0 |-> s]
    <3>1. Rounds(s, g, 0)
      BY DEF Rounds
    <3> HIDE DEF g
    <3> QED BY <3>1, <2>2, <2>3
  <2>4. CASE x > 0
    <3>1. x - 1 \in Nat /\ ~ (x <= x - 1)
      BY <2>2, <2>4
    <3>2. x - 1 \notin T
      <4> HIDE DEF T
      <4> QED BY <3>1, <2>1
    <3>3. PICK f : Rounds(s, f, x - 1)
      BY <3>1, <3>2
    <3> DEFINE g == [k \in 0..x |-> IF k = x THEN NextLayer(f[x - 1]) ELSE f[k]]
    <3>4. ASSUME NEW k \in 0..x PROVE g[k] = IF k = 0 THEN s ELSE NextLayer(g[k - 1])
      <4>1. CASE k = x
        <5>1. x - 1 \in 0..x /\ x - 1 # x
          BY <2>2, <2>4
        <5> QED BY <4>1, <5>1, <2>2, <2>4
      <4>2. CASE k # x
        <5>1. k \in 0..(x - 1) /\ (k # 0 => k - 1 \in 0..x /\ k - 1 # x)
          BY <4>2, <2>2
        <5>2. f[k] = IF k = 0 THEN s ELSE NextLayer(f[k - 1])
          BY <3>3, <5>1 DEF Rounds
        <5> QED BY <4>2, <5>1, <5>2
      <4> QED BY <4>1, <4>2
    <3>5. Rounds(s, g, x)
      <4>1. g = [k \in 0..x |-> g[k]]
        OBVIOUS
      <4> HIDE DEF g
      <4> QED BY <3>4, <4>1 DEF Rounds
    <3> HIDE DEF g
    <3> QED BY <3>5, <2>2
  <2> QED BY <2>2, <2>3, <2>4
<1> QED BY <1>1

\* Layer k of a tree is what its width says, made from layer k - 1.
LEMMA LayerProperties ==
    ASSUME NEW s, NEW n, Tuple(s, n)
    PROVE  /\ Layer(s)[0] = s
           /\ \A k \in 0..n : Tuple(Layer(s)[k], Width(n, k))
           /\ \A k \in 0..n : k # 0 => Layer(s)[k] = NextLayer(Layer(s)[k - 1])
<1>0. n \in Nat /\ Len(s) = n
  BY TupleLen DEF Tuple
<1> DEFINE L == Layer(s)
<1>1. Rounds(s, L, n)
  BY <1>0, RoundsExist DEF Layer
<1> HIDE DEF L
<1>2. L = [k \in 0..n |-> IF k = 0 THEN s ELSE NextLayer(L[k - 1])]
  BY <1>1 DEF Rounds
<1>3. \A k \in 0..n : L[k] = IF k = 0 THEN s ELSE NextLayer(L[k - 1])
  BY ONLY <1>2
<1>4. L[0] = s
  BY <1>0, <1>3
<1> DEFINE T == {k \in 0..n : ~ Tuple(L[k], Width(n, k))}
<1>5. T = {}
  <2> SUFFICES ASSUME T # {} PROVE FALSE
    OBVIOUS
  <2>1. PICK x \in T : \A y \in T : x <= y
    <3>1. T \in SUBSET Nat
      BY <1>0
    <3> HIDE DEF T
    <3> QED BY <3>1, LeastNumber
  <2>2. x \in 0..n /\ x \in Nat /\ ~ Tuple(L[x], Width(n, x))
    BY <2>1, <1>0
  <2>3. x # 0
    <3>1. Width(n, 0) = n
      BY <1>0, WidthStep
    <3> QED BY <3>1, <2>2, <1>4
  <2>4. x - 1 \in 0..n /\ x - 1 \in Nat /\ ~ (x <= x - 1) /\ (x - 1) + 1 = x
    BY <2>2, <2>3, <1>0
  <2>5. x - 1 \notin T
    <3> HIDE DEF T
    <3> QED BY <2>4, <2>1
  <2>6. Tuple(L[x - 1], Width(n, x - 1))
    BY <2>4, <2>5
  <2>7. Tuple(NextLayer(L[x - 1]), (Width(n, x - 1) + 1) \div 2)
    BY <2>6, NextLayerTuple
  <2>8. Width(n, x) = (Width(n, x - 1) + 1) \div 2
    <3>1. Width(n, (x - 1) + 1) = (Width(n, x - 1) + 1) \div 2
      BY <1>0, <2>4, WidthStep
    <3> QED BY <3>1, <2>4
  <2>9. L[x] = NextLayer(L[x - 1])
    BY <2>2, <2>3, <1>3
  <2> QED BY <2>2, <2>7, <2>8, <2>9
<1>6. \A k \in 0..n : k # 0 => L[k] = NextLayer(L[k - 1])
  BY <1>3
<1> QED BY <1>4, <1>5, <1>6 DEF L

Height(s) == CHOOSE h \in 0..Len(s) : AtTop(Len(s), h)

LEMMA HeightProperties ==
    ASSUME NEW s, NEW n, Tuple(s, n), n > 0
    PROVE  Height(s) \in 0..n /\ AtTop(n, Height(s)) /\ Height(s) \in Nat
<1>0. n \in Nat /\ Len(s) = n
  BY TupleLen DEF Tuple
<1>1. \E h \in 0..n : AtTop(n, h)
  BY <1>0, HeightExists
<1>2. Height(s) \in 0..n /\ AtTop(n, Height(s))
  BY <1>0, <1>1 DEF Height
<1> QED BY <1>0, <1>2

\* Layers holds the layers up to the one of length one.
LEMMA LayersValue ==
    ASSUME NEW s, NEW n, Tuple(s, n), n > 0
    PROVE  /\ Layers(s) = [k \in 1..(Height(s) + 1) |-> Layer(s)[k - 1]]
           /\ Tuple(Layers(s), Height(s) + 1)
           /\ Len(Layers(s)) = Height(s) + 1
           /\ Root(s) = Layer(s)[Height(s)][1]
<1>0. n \in Nat /\ Len(s) = n /\ s # <<>>
  <2>1. n \in Nat /\ Len(s) = n
    BY TupleLen DEF Tuple
  <2>2. s # <<>>
    BY <2>1, EmptySeq
  <2> QED BY <2>1, <2>2
<1> DEFINE L == Layer(s)
           Top(k) == Len(L[k]) = 1 /\ \A j \in 0..(k - 1) : Len(L[j]) > 1
           H == CHOOSE k \in 0..Len(s) : Top(k)
           h == Height(s)
<1>1. Layers(s) = [k \in 1..(H + 1) |-> L[k - 1]]
  BY <1>0 DEF Layers, Layer, Rounds
<1>t. \A k \in 0..n : Tuple(L[k], Width(n, k))
  BY LayerProperties
<1> HIDE DEF L
<1>2. \A k \in 0..n : Len(L[k]) = Width(n, k)
  BY <1>t, TupleLen
<1>3. \A k \in 0..n : Top(k) <=> AtTop(n, k)
  <2> TAKE k \in 0..n
  <2>1. \A j \in 0..(k - 1) : j \in 0..n
    BY <1>0
  <2> QED BY <2>1, <1>2 DEF AtTop
<1>4. h \in 0..n /\ AtTop(n, h) /\ h \in Nat
  BY HeightProperties
<1>5. H \in 0..n /\ AtTop(n, H)
  <2>1. \E k \in 0..n : Top(k)
    BY <1>3, <1>4
  <2> HIDE DEF Top
  <2> QED BY <2>1, <1>0, <1>3
<1> HIDE DEF H, h
<1>6. H = h
  BY <1>0, <1>4, <1>5, HeightUnique
<1>7. Layers(s) = [k \in 1..(h + 1) |-> L[k - 1]]
  BY <1>1, <1>6
<1>8. Tuple(Layers(s), h + 1)
  <2>1. h + 1 \in Nat
    BY <1>4
  <2> QED BY <2>1, <1>7 DEF Tuple
<1>9. Len(Layers(s)) = h + 1
  BY <1>8, TupleLen
<1>10. Root(s) = L[h][1]
  <2>1. Last(Layers(s)) = Layers(s)[h + 1]
    BY <1>9 DEF Last
  <2>2. h + 1 \in 1..(h + 1) /\ (h + 1) - 1 = h
    BY <1>4
  <2>3. Layers(s)[h + 1] = L[h]
    BY <1>7, <2>2
  <2> QED BY <2>1, <2>3, <1>0 DEF Root
<1> QED BY <1>7, <1>8, <1>9, <1>10 DEF L, h

-----------------------------------------------------------------------------
(* The reference *)

Places(s) == UNION {{h} \X (0..(Width(Len(s), h) - 1)) : h \in 0..Height(s)}

NodeStep(s, f) ==
    f = [p \in Places(s) |->
          IF p[1] = 0 THEN s[p[2] + 1]
          ELSE HashPair(f[<<p[1] - 1, 2 * p[2]>>],
                        f[<<p[1] - 1, IF 2 * p[2] + 1 < Width(Len(s), p[1] - 1)
                                      THEN 2 * p[2] + 1 ELSE 2 * p[2]>>])]

LEMMA PlacesMember ==
    ASSUME NEW s, NEW h, NEW i
    PROVE  <<h, i>> \in Places(s) <=> h \in 0..Height(s) /\ i \in 0..(Width(Len(s), h) - 1)
BY DEF Places

LEMMA PlacesPairs ==
    ASSUME NEW s, NEW p \in Places(s)
    PROVE  p = <<p[1], p[2]>>
BY DEF Places

\* The nodes below node i of height h.
LEMMA HalfBounds ==
    ASSUME NEW w \in Nat, NEW i \in 0..((w + 1) \div 2 - 1)
    PROVE  /\ 2 * i \in 0..(w - 1) /\ i + 1 \in 1..((w + 1) \div 2)
           /\ 2 * i + 1 < w => 2 * i + 1 \in 0..(w - 1)
           /\ 2 * (i + 1) - 1 = 2 * i + 1 /\ 2 * (i + 1) = 2 * i + 2
           /\ 2 * i + 1 < w <=> 2 * i + 2 <= w
OBVIOUS

\* The layers satisfy the equations of the reference.
LEMMA LayersAreNodes ==
    ASSUME NEW s, NEW n, Tuple(s, n), n > 0
    PROVE  NodeStep(s, [p \in Places(s) |-> Layer(s)[p[1]][p[2] + 1]])
<1> DEFINE L == Layer(s)
           g == [p \in Places(s) |-> L[p[1]][p[2] + 1]]
           W(h) == Width(n, h)
<1>0. n \in Nat /\ Len(s) = n
  BY TupleLen DEF Tuple
<1>h. Height(s) \in 0..n /\ Height(s) \in Nat
  BY HeightProperties
<1>1. \A h \in 0..Height(s) : \A i \in 0..(W(h) - 1) :
        <<h, i>> \in Places(s) /\ g[<<h, i>>] = L[h][i + 1]
  BY <1>0, PlacesMember
<1>2. L[0] = s /\ \A h \in 0..n : Tuple(L[h], W(h)) /\ (h # 0 => L[h] = NextLayer(L[h - 1]))
  BY LayerProperties
<1> HIDE DEF L
<1>g. g = [p \in Places(s) |-> g[p]]
  OBVIOUS
<1>3. ASSUME NEW p \in Places(s)
      PROVE  g[p] = IF p[1] = 0 THEN s[p[2] + 1]
                    ELSE HashPair(g[<<p[1] - 1, 2 * p[2]>>],
                                  g[<<p[1] - 1, IF 2 * p[2] + 1 < W(p[1] - 1)
                                                THEN 2 * p[2] + 1 ELSE 2 * p[2]>>])
  <2> DEFINE h == p[1]
             i == p[2]
  <2>1. h \in 0..Height(s) /\ i \in 0..(W(h) - 1) /\ g[p] = L[h][i + 1]
    <3>1. <<p[1], p[2]>> \in Places(s)
      BY PlacesPairs
    <3> QED BY <3>1, <1>0, PlacesMember
  <2> HIDE DEF h, i, g, W
  <2>2. CASE h = 0
    BY <2>1, <2>2, <1>2 DEF h, i
  <2>3. CASE h # 0
    <3>1. h - 1 \in 0..Height(s) /\ h - 1 \in Nat /\ h \in 0..n /\ h - 1 \in 0..n /\ (h - 1) + 1 = h
      BY <2>1, <2>3, <1>0, <1>h
    <3> DEFINE w == W(h - 1)
               m == (w + 1) \div 2
    <3>2. w \in Nat /\ W(h) = m
      BY <3>1, <1>0, WidthStep DEF W
    <3>3. Tuple(L[h - 1], w) /\ L[h] = NextLayer(L[h - 1])
      BY <3>1, <2>3, <1>2
    <3> HIDE DEF w
    <3>4. i \in 0..((w + 1) \div 2 - 1)
      BY <2>1, <3>2
    <3>5. /\ 2 * i \in 0..(w - 1) /\ i + 1 \in 1..((w + 1) \div 2)
          /\ 2 * i + 1 < w => 2 * i + 1 \in 0..(w - 1)
          /\ 2 * (i + 1) - 1 = 2 * i + 1 /\ 2 * (i + 1) = 2 * i + 2
          /\ 2 * i + 1 < w <=> 2 * i + 2 <= w
      BY <3>2, <3>4, HalfBounds
    <3>6. L[h][i + 1] = Above(L[h - 1], i + 1)
      BY <3>3, <3>5, NextLayerTuple
    <3>7. Len(L[h - 1]) = w
      BY <3>3, TupleLen
    <3>8. L[h][i + 1] = HashPair(L[h - 1][2 * i + 1],
                                 IF 2 * i + 1 < w THEN L[h - 1][2 * i + 2] ELSE L[h - 1][2 * i + 1])
      BY <3>5, <3>6, <3>7 DEF Above
    <3>9. g[<<h - 1, 2 * i>>] = L[h - 1][2 * i + 1]
      BY <3>1, <3>5, <1>1 DEF w
    <3>10. 2 * i + 1 < w => g[<<h - 1, 2 * i + 1>>] = L[h - 1][2 * i + 2]
      <4> SUFFICES ASSUME 2 * i + 1 < w PROVE g[<<h - 1, 2 * i + 1>>] = L[h - 1][2 * i + 2]
        OBVIOUS
      <4>1. 2 * i + 1 \in 0..(w - 1) /\ (2 * i + 1) + 1 = 2 * i + 2
        BY <3>5, <3>4, <3>2
      <4>2. g[<<h - 1, 2 * i + 1>>] = L[h - 1][(2 * i + 1) + 1]
        BY <4>1, <3>1, <1>1 DEF w
      <4> QED BY <4>1, <4>2
    <3>11. g[p] = HashPair(g[<<h - 1, 2 * i>>],
                           g[<<h - 1, IF 2 * i + 1 < w THEN 2 * i + 1 ELSE 2 * i>>])
      <4>1. CASE 2 * i + 1 < w
        BY <4>1, <2>1, <3>8, <3>9, <3>10
      <4>2. CASE ~ (2 * i + 1 < w)
        BY <4>2, <2>1, <3>8, <3>9
      <4> QED BY <4>1, <4>2
    <3> QED BY <2>3, <3>11 DEF h, i, w
  <2> QED BY <2>2, <2>3
<1> HIDE DEF g
<1>4. g = [p \in Places(s) |->
            IF p[1] = 0 THEN s[p[2] + 1]
            ELSE HashPair(g[<<p[1] - 1, 2 * p[2]>>],
                          g[<<p[1] - 1, IF 2 * p[2] + 1 < W(p[1] - 1)
                                        THEN 2 * p[2] + 1 ELSE 2 * p[2]>>])]
  BY <1>3, <1>g
<1>5. NodeStep(s, g)
  BY <1>0, <1>4 DEF NodeStep
<1> QED BY <1>5 DEF g, L

\* They are the only solution, by the least height at which another one would
\* differ.
LEMMA NodesUnique ==
    ASSUME NEW s, NEW n, Tuple(s, n), n > 0, NEW f, NEW g, NodeStep(s, f), NodeStep(s, g)
    PROVE  f[<<Height(s), 0>>] = g[<<Height(s), 0>>]
<1>0. n \in Nat /\ Len(s) = n
  BY TupleLen DEF Tuple
<1>h. Height(s) \in 0..n /\ Height(s) \in Nat /\ Width(n, Height(s)) = 1
  BY HeightProperties DEF AtTop
<1> DEFINE H == Height(s)
           W(h) == Width(n, h)
           T == {h \in 0..H : \E i \in 0..(W(h) - 1) : f[<<h, i>>] # g[<<h, i>>]}
<1>1. ASSUME NEW x, NodeStep(s, x), NEW h \in 0..H, NEW i \in 0..(W(h) - 1)
      PROVE  x[<<h, i>>] = IF h = 0 THEN s[i + 1]
                           ELSE HashPair(x[<<h - 1, 2 * i>>],
                                         x[<<h - 1, IF 2 * i + 1 < W(h - 1)
                                                    THEN 2 * i + 1 ELSE 2 * i>>])
  <2>1. <<h, i>> \in Places(s)
    BY <1>0, PlacesMember
  <2>2. <<h, i>>[1] = h /\ <<h, i>>[2] = i
    OBVIOUS
  <2> QED BY <2>1, <2>2, <1>1, <1>0 DEF NodeStep
<1> HIDE DEF W
<1>2. T = {}
  <2> SUFFICES ASSUME T # {} PROVE FALSE
    OBVIOUS
  <2>1. PICK h \in T : \A y \in T : h <= y
    <3>1. T \in SUBSET Nat
      BY <1>h
    <3> HIDE DEF T
    <3> QED BY <3>1, LeastNumber
  <2>2. h \in 0..H /\ h \in Nat
    BY <2>1, <1>h
  <2>3. PICK i \in 0..(W(h) - 1) : f[<<h, i>>] # g[<<h, i>>]
    BY <2>1
  <2>f. f[<<h, i>>] = IF h = 0 THEN s[i + 1]
                      ELSE HashPair(f[<<h - 1, 2 * i>>],
                                    f[<<h - 1, IF 2 * i + 1 < W(h - 1)
                                               THEN 2 * i + 1 ELSE 2 * i>>])
    BY <1>1, <2>2
  <2>g. g[<<h, i>>] = IF h = 0 THEN s[i + 1]
                      ELSE HashPair(g[<<h - 1, 2 * i>>],
                                    g[<<h - 1, IF 2 * i + 1 < W(h - 1)
                                               THEN 2 * i + 1 ELSE 2 * i>>])
    BY <1>1, <2>2
  <2>4. h # 0
    BY <2>3, <2>f, <2>g
  <2>5. h - 1 \in 0..H /\ h - 1 \in Nat /\ ~ (h <= h - 1) /\ (h - 1) + 1 = h
    BY <2>2, <2>4, <1>h
  <2>6. h - 1 \notin T
    <3> HIDE DEF T
    <3> QED BY <2>5, <2>1
  <2>7. \A j \in 0..(W(h - 1) - 1) : f[<<h - 1, j>>] = g[<<h - 1, j>>]
    BY <2>5, <2>6
  <2> DEFINE w == W(h - 1)
  <2>8. w \in Nat /\ W(h) = (w + 1) \div 2
    BY <2>5, <1>0, WidthStep DEF W
  <2> HIDE DEF w
  <2>9. 2 * i \in 0..(w - 1) /\ (2 * i + 1 < w => 2 * i + 1 \in 0..(w - 1))
    BY <2>3, <2>8, HalfBounds
  <2>10. f[<<h - 1, 2 * i>>] = g[<<h - 1, 2 * i>>]
    BY <2>7, <2>9 DEF w
  <2>11. 2 * i + 1 < w => f[<<h - 1, 2 * i + 1>>] = g[<<h - 1, 2 * i + 1>>]
    BY <2>7, <2>9 DEF w
  <2>12. CASE 2 * i + 1 < w
    BY <2>12, <2>3, <2>4, <2>f, <2>g, <2>10, <2>11 DEF w
  <2>13. CASE ~ (2 * i + 1 < w)
    BY <2>13, <2>3, <2>4, <2>f, <2>g, <2>10 DEF w
  <2> QED BY <2>12, <2>13
<1>3. H \in 0..H /\ 0 \in 0..(W(H) - 1)
  BY <1>h DEF W
<1> QED BY <1>2, <1>3

LEMMA RootReference ==
    ASSUME NEW s, NEW n, Tuple(s, n)
    PROVE  Root(s) = Reference(s)
<1>0. n \in Nat /\ Len(s) = n
  BY TupleLen DEF Tuple
<1>1. CASE s = <<>>
  BY <1>1 DEF Root, Reference
<1>2. CASE s # <<>>
  <2>1. n > 0
    <3>1. n # 0
      <4> SUFFICES ASSUME n = 0 PROVE FALSE
        OBVIOUS
      <4>1. s = [i \in 1..0 |-> s[i]]
        BY DEF Tuple
      <4> QED BY <4>1, <1>2
    <3> QED BY <3>1, <1>0
  <2> DEFINE N == CHOOSE f : NodeStep(s, f)
             g == [p \in Places(s) |-> Layer(s)[p[1]][p[2] + 1]]
             H == Height(s)
  <2>2. Reference(s) = N[<<H, 0>>]
    BY <1>2 DEF Reference, Height, AtTop, NodeStep, Places
  <2>3. NodeStep(s, g)
    BY <2>1, LayersAreNodes
  <2>4. g[<<H, 0>>] = Layer(s)[H][1]
    <3>1. H \in 0..H /\ Width(n, H) = 1
      BY <2>1, HeightProperties DEF AtTop
    <3>2. 0 \in 0..(Width(n, H) - 1)
      BY <3>1
    <3>3. <<H, 0>> \in Places(s)
      BY <3>1, <3>2, <1>0, PlacesMember
    <3>4. g[<<H, 0>>] = Layer(s)[<<H, 0>>[1]][<<H, 0>>[2] + 1]
      <4> HIDE DEF H
      <4> QED BY <3>3
    <3> QED BY <3>4
  <2> HIDE DEF g
  <2>5. NodeStep(s, N)
    BY <2>3
  <2> HIDE DEF N
  <2>6. N[<<H, 0>>] = g[<<H, 0>>]
    BY <2>1, <2>3, <2>5, NodesUnique
  <2>7. Root(s) = Layer(s)[H][1]
    BY <2>1, LayersValue
  <2> QED BY <2>2, <2>4, <2>6, <2>7
<1> QED BY <1>1, <1>2

-----------------------------------------------------------------------------
(* Proofs and their verification *)

\* The rounds of the loop of verify_proof.
Climb(p, f, n) == f = [k \in 0..n |-> IF k = 0 THEN p.leaf_hash ELSE Up(f[k - 1], p.siblings[k])]

LEMMA ClimbExists ==
    ASSUME NEW p, NEW n \in Nat
    PROVE  \E f : Climb(p, f, n)
<1> DEFINE T == {k \in Nat : ~ \E f : Climb(p, f, k)}
<1>1. T = {}
  <2> SUFFICES ASSUME T # {} PROVE FALSE
    OBVIOUS
  <2>1. PICK x \in T : \A y \in T : x <= y
    <3>1. T \in SUBSET Nat
      OBVIOUS
    <3> HIDE DEF T
    <3> QED BY <3>1, LeastNumber
  <2>2. x \in Nat /\ ~ \E f : Climb(p, f, x)
    BY <2>1
  <2>3. CASE x = 0
    <3> DEFINE g == [k \in 0..0 |-> p.leaf_hash]
    <3>1. Climb(p, g, 0)
      BY DEF Climb
    <3> HIDE DEF g
    <3> QED BY <3>1, <2>2, <2>3
  <2>4. CASE x > 0
    <3>1. x - 1 \in Nat /\ ~ (x <= x - 1)
      BY <2>2, <2>4
    <3>2. x - 1 \notin T
      <4> HIDE DEF T
      <4> QED BY <3>1, <2>1
    <3>3. PICK f : Climb(p, f, x - 1)
      BY <3>1, <3>2
    <3> DEFINE g == [k \in 0..x |-> IF k = x THEN Up(f[x - 1], p.siblings[x]) ELSE f[k]]
    <3>4. ASSUME NEW k \in 0..x
          PROVE  g[k] = IF k = 0 THEN p.leaf_hash ELSE Up(g[k - 1], p.siblings[k])
      <4>1. CASE k = x
        <5>1. x - 1 \in 0..x /\ x - 1 # x
          BY <2>2, <2>4
        <5> QED BY <4>1, <5>1, <2>2, <2>4
      <4>2. CASE k # x
        <5>1. k \in 0..(x - 1) /\ (k # 0 => k - 1 \in 0..x /\ k - 1 # x)
          BY <4>2, <2>2
        <5>2. f[k] = IF k = 0 THEN p.leaf_hash ELSE Up(f[k - 1], p.siblings[k])
          BY <3>3, <5>1 DEF Climb
        <5> QED BY <4>2, <5>1, <5>2
      <4> QED BY <4>1, <4>2
    <3>5. Climb(p, g, x)
      <4>1. g = [k \in 0..x |-> g[k]]
        OBVIOUS
      <4> HIDE DEF g
      <4> QED BY <3>4, <4>1 DEF Climb
    <3> HIDE DEF g
    <3> QED BY <3>5, <2>2
  <2> QED BY <2>2, <2>3, <2>4
<1> QED BY <1>1

LEMMA ClimbProperties ==
    ASSUME NEW p, NEW m, Tuple(p.siblings, m)
    PROVE  /\ Len(p.siblings) = m
           /\ climb(p)[0] = p.leaf_hash
           /\ \A k \in 1..m : climb(p)[k] = Up(climb(p)[k - 1], p.siblings[k])
           /\ verify_proof(p) <=> climb(p)[m] = p.root
<1>0. m \in Nat /\ Len(p.siblings) = m
  BY TupleLen DEF Tuple
<1> DEFINE f == climb(p)
<1>1. Climb(p, f, m)
  <2>1. f = CHOOSE g : Climb(p, g, m)
    BY <1>0 DEF climb, Climb
  <2> QED BY <1>0, <2>1, ClimbExists
<1>2. verify_proof(p) <=> f[m] = p.root
  BY <1>0 DEF verify_proof
<1> HIDE DEF f
<1>3. \A k \in 0..m : f[k] = IF k = 0 THEN p.leaf_hash ELSE Up(f[k - 1], p.siblings[k])
  BY ONLY <1>1 DEF Climb
<1>4. f[0] = p.leaf_hash
  BY <1>0, <1>3
<1>5. \A k \in 1..m : f[k] = Up(f[k - 1], p.siblings[k])
  BY <1>0, <1>3
<1> QED BY <1>0, <1>2, <1>4, <1>5 DEF f

\* The loop of proof() halves the index from layer to layer.
Halve(index, f, n) == f = [k \in 1..n |-> IF k = 1 THEN index ELSE f[k - 1] \div 2]

LEMMA HalveExists ==
    ASSUME NEW index, NEW n \in Nat
    PROVE  \E f : Halve(index, f, n)
<1> DEFINE T == {k \in Nat : ~ \E f : Halve(index, f, k)}
<1>1. T = {}
  <2> SUFFICES ASSUME T # {} PROVE FALSE
    OBVIOUS
  <2>1. PICK x \in T : \A y \in T : x <= y
    <3>1. T \in SUBSET Nat
      OBVIOUS
    <3> HIDE DEF T
    <3> QED BY <3>1, LeastNumber
  <2>2. x \in Nat /\ ~ \E f : Halve(index, f, x)
    BY <2>1
  <2>3. CASE x = 0
    <3> DEFINE g == [k \in 1..0 |-> index]
    <3>1. Halve(index, g, 0)
      BY DEF Halve
    <3> HIDE DEF g
    <3> QED BY <3>1, <2>2, <2>3
  <2>4. CASE x > 0
    <3>1. x - 1 \in Nat /\ ~ (x <= x - 1)
      BY <2>2, <2>4
    <3>2. x - 1 \notin T
      <4> HIDE DEF T
      <4> QED BY <3>1, <2>1
    <3>3. PICK f : Halve(index, f, x - 1)
      BY <3>1, <3>2
    <3> DEFINE g == [k \in 1..x |-> IF k = 1 THEN index
                                    ELSE IF k = x THEN f[x - 1] \div 2 ELSE f[k]]
    <3>4. ASSUME NEW k \in 1..x PROVE g[k] = IF k = 1 THEN index ELSE g[k - 1] \div 2
      <4>0. \A j \in 1..(x - 1) : g[j] = f[j]
        <5> TAKE j \in 1..(x - 1)
        <5>1. j \in 1..x /\ j # x
          BY <2>2
        <5>2. f[j] = IF j = 1 THEN index ELSE f[j - 1] \div 2
          BY <3>3 DEF Halve
        <5> QED BY <5>1, <5>2
      <4>1. CASE k = 1
        BY <4>1
      <4>2. CASE k # 1 /\ k = x
        <5>1. x - 1 \in 1..(x - 1)
          BY <4>2, <2>2
        <5>2. g[k] = f[x - 1] \div 2
          BY <4>2
        <5>3. g[x - 1] = f[x - 1]
          BY <5>1, <4>0
        <5> QED BY <4>2, <5>2, <5>3
      <4>3. CASE k # 1 /\ k # x
        <5>1. k \in 1..(x - 1) /\ k - 1 \in 1..(x - 1)
          BY <4>3, <2>2
        <5>2. f[k] = f[k - 1] \div 2
          BY <3>3, <5>1, <4>3 DEF Halve
        <5>3. g[k] = f[k] /\ g[k - 1] = f[k - 1]
          BY <5>1, <4>0
        <5> HIDE DEF g
        <5> QED BY <4>3, <5>2, <5>3
      <4> QED BY <4>1, <4>2, <4>3
    <3>5. Halve(index, g, x)
      <4>1. g = [k \in 1..x |-> g[k]]
        OBVIOUS
      <4> HIDE DEF g
      <4> QED BY <3>4, <4>1 DEF Halve
    <3> HIDE DEF g
    <3> QED BY <3>5, <2>2
  <2> QED BY <2>2, <2>3, <2>4
<1> QED BY <1>1

Idx(s, index) == CHOOSE f : Halve(index, f, Len(Layers(s)))

\* Every index stays within its layer.
LEMMA IdxProperties ==
    ASSUME NEW s, NEW n, Tuple(s, n), NEW index \in 0..(n - 1)
    PROVE  /\ Idx(s, index)[1] = index
           /\ \A k \in 1..(Height(s) + 1) : Idx(s, index)[k] \in 0..(Width(n, k - 1) - 1)
           /\ \A k \in 1..Height(s) : Idx(s, index)[k + 1] = Idx(s, index)[k] \div 2
<1>0. n \in Nat /\ n > 0
  BY DEF Tuple
<1> DEFINE f == Idx(s, index)
           H == Height(s)
           W(h) == Width(n, h)
<1>1. Len(Layers(s)) = H + 1 /\ H \in Nat
  BY <1>0, LayersValue, HeightProperties
<1>2. Halve(index, f, H + 1)
  <2>1. H + 1 \in Nat
    BY <1>1
  <2> HIDE DEF H
  <2> QED BY <2>1, <1>1, HalveExists DEF Idx
<1> HIDE DEF f, H, W
<1>3. \A k \in 1..(H + 1) : f[k] = IF k = 1 THEN index ELSE f[k - 1] \div 2
  BY ONLY <1>2 DEF Halve
<1>4. f[1] = index
  BY <1>1, <1>3
<1>5. ASSUME NEW k \in 1..H PROVE f[k + 1] = f[k] \div 2
  <2>1. k + 1 \in 1..(H + 1) /\ k + 1 # 1 /\ (k + 1) - 1 = k
    BY <1>1
  <2> QED BY <2>1, <1>3
<1> DEFINE T == {k \in 1..(H + 1) : f[k] \notin 0..(W(k - 1) - 1)}
<1>6. T = {}
  <2> SUFFICES ASSUME T # {} PROVE FALSE
    OBVIOUS
  <2>1. PICK x \in T : \A y \in T : x <= y
    <3>1. T \in SUBSET Nat
      BY <1>1
    <3> HIDE DEF T
    <3> QED BY <3>1, LeastNumber
  <2>2. x \in 1..(H + 1) /\ x \in Nat /\ f[x] \notin 0..(W(x - 1) - 1)
    BY <2>1, <1>1
  <2>3. x # 1
    <3>1. W(0) = n
      BY <1>0, WidthStep DEF W
    <3>2. f[1] \in 0..(W(1 - 1) - 1)
      BY <3>1, <1>4
    <3> QED BY <3>2, <2>2
  <2>4. /\ x - 1 \in 1..(H + 1) /\ x - 1 \in 1..H /\ ~ (x <= x - 1) /\ (x - 1) + 1 = x
        /\ x - 2 \in Nat /\ (x - 2) + 1 = x - 1 /\ (x - 1) - 1 = x - 2
    BY <2>2, <2>3, <1>1
  <2>5. x - 1 \notin T
    <3> HIDE DEF T
    <3> QED BY <2>4, <2>1
  <2>6. f[x - 1] \in 0..(W(x - 2) - 1)
    BY <2>4, <2>5
  <2>7. f[x] = f[x - 1] \div 2
    BY <2>4, <1>5
  <2> DEFINE w == W(x - 2)
             a == f[x - 1]
  <2>8. w \in Nat /\ W(x - 1) = (w + 1) \div 2
    <3>1. W((x - 2) + 1) = (W(x - 2) + 1) \div 2 /\ W(x - 2) \in Nat
      BY <2>4, <1>0, WidthStep DEF W
    <3> QED BY <3>1, <2>4
  <2>9. a \in 0..(w - 1)
    BY <2>6
  <2> HIDE DEF w, a
  <2>10. a \div 2 \in 0..((w + 1) \div 2 - 1)
    BY <2>8, <2>9
  <2> QED BY <2>2, <2>7, <2>8, <2>10 DEF a
<1>7. \A k \in 1..(H + 1) : f[k] \in 0..(W(k - 1) - 1)
  BY <1>6
<1> QED BY <1>4, <1>5, <1>7 DEF f, H, W

\* A node of a path leads from a hash to the one above it.
LEMMA NodeLeadsUp ==
    ASSUME NEW layer, NEW w, Tuple(layer, w), NEW i \in 0..(w - 1)
    PROVE  Up(layer[i + 1], ProofNode(layer, i)) = NextLayer(layer)[(i \div 2) + 1]
<1>0. w \in Nat /\ Len(layer) = w
  BY TupleLen DEF Tuple
<1> DEFINE j == (i \div 2) + 1
           node == ProofNode(layer, i)
<1>1. j \in 1..((w + 1) \div 2)
  BY <1>0
<1>2. NextLayer(layer)[j] =
        HashPair(layer[2 * j - 1], IF 2 * j <= w THEN layer[2 * j] ELSE layer[2 * j - 1])
  <2> HIDE DEF j
  <2> QED BY <1>0, <1>1, NextLayerTuple DEF Above
<1>3. CASE i % 2 = 0
  <2>1. 2 * j - 1 = i + 1 /\ 2 * j = i + 2 /\ (i + 1 < w <=> i + 2 <= w) /\ (i + 1) + 1 = i + 2
    BY <1>0, <1>3
  <2>2. node.is_right = TRUE
    BY <1>3 DEF ProofNode
  <2>3. node.hash = IF i + 1 < w THEN layer[i + 2] ELSE layer[i + 1]
    BY <1>0, <1>3, <2>1 DEF ProofNode
  <2> HIDE DEF j, node
  <2>4. Up(layer[i + 1], node) = HashPair(layer[i + 1], node.hash)
    BY <2>2 DEF Up
  <2>5. Up(layer[i + 1], node) = NextLayer(layer)[j]
    BY <2>1, <2>3, <2>4, <1>2
  <2> QED BY <2>5 DEF j, node
<1>4. CASE i % 2 # 0
  <2>1. /\ 2 * j - 1 = i /\ 2 * j = i + 1 /\ i + 1 <= w /\ i - 1 < w /\ (i - 1) + 1 = i
    BY <1>0, <1>4
  <2>2. node.is_right = FALSE
    BY <1>4 DEF ProofNode
  <2>3. node.hash = layer[i]
    BY <1>0, <1>4, <2>1 DEF ProofNode
  <2> HIDE DEF j, node
  <2>4. Up(layer[i + 1], node) = HashPair(node.hash, layer[i + 1])
    BY <2>2 DEF Up
  <2>5. Up(layer[i + 1], node) = NextLayer(layer)[j]
    BY <2>1, <2>3, <2>4, <1>2
  <2> QED BY <2>5 DEF j, node
<1> QED BY <1>3, <1>4

\* The record that proof() makes.
LEMMA ProofValue ==
    ASSUME NEW s, NEW n, Tuple(s, n), NEW index \in 0..(n - 1)
    PROVE  /\ Proof(s, index) = [leaf_index |-> index, leaf_hash |-> s[index + 1],
                                 siblings |-> Proof(s, index).siblings, root |-> Root(s)]
           /\ Tuple(Proof(s, index).siblings, Height(s) + 1)
           /\ \A k \in 1..(Height(s) + 1) : Proof(s, index).siblings[k] =
                ProofNode(Layer(s)[k - 1], Idx(s, index)[k])
<1>0. n \in Nat /\ n > 0 /\ Len(s) = n
  BY TupleLen DEF Tuple
<1> DEFINE H == Height(s)
           nodes == [k \in 1..Len(Layers(s)) |-> ProofNode(Layers(s)[k], Idx(s, index)[k])]
<1>1. /\ Len(Layers(s)) = H + 1 /\ H \in Nat
      /\ Layers(s) = [k \in 1..(H + 1) |-> Layer(s)[k - 1]]
  BY <1>0, LayersValue, HeightProperties
<1>2. ~ (index >= Len(s))
  BY <1>0
<1>3. Proof(s, index) = [leaf_index |-> index, leaf_hash |-> s[index + 1],
                         siblings |-> nodes, root |-> Root(s)]
  BY <1>2 DEF Proof, Idx, Halve
<1>4. Proof(s, index).siblings = nodes
  BY <1>3
<1> HIDE DEF H
<1>5. nodes = [k \in 1..(H + 1) |-> ProofNode(Layer(s)[k - 1], Idx(s, index)[k])]
  BY <1>1
<1> HIDE DEF nodes
<1>6. /\ Tuple(nodes, H + 1)
      /\ \A k \in 1..(H + 1) : nodes[k] = ProofNode(Layer(s)[k - 1], Idx(s, index)[k])
  <2>1. H + 1 \in Nat
    BY <1>1
  <2> QED BY <2>1, <1>5 DEF Tuple
<1> QED BY <1>3, <1>4, <1>6 DEF H

LEMMA FrontTuple ==
    ASSUME NEW s, NEW n, Tuple(s, n), n > 0
    PROVE  Tuple(Front(s), n - 1) /\ \A k \in 1..(n - 1) : Front(s)[k] = s[k]
<1> DEFINE S == {s[i] : i \in 1..n}
           t == SubSeq(s, 1, n - 1)
<1>0. n \in Nat /\ Len(s) = n /\ n - 1 \in Nat
  BY TupleLen DEF Tuple
<1>1. Front(s) = t
  BY <1>0 DEF Front
<1>2. \A i \in 1..(n - 1) : s[i] \in S
  BY <1>0
<1> HIDE DEF S
<1>3. /\ t \in Seq(S)
      /\ Len(t) = IF 1 <= n - 1 THEN (n - 1) - 1 + 1 ELSE 0
      /\ \A i \in 1..((n - 1) - 1 + 1) : t[i] = s[1 + i - 1]
  <2>1. 1 \in Int /\ n - 1 \in Int
    BY <1>0
  <2> QED BY ONLY <2>1, <1>2, SubSeqProperties
<1> HIDE DEF t
<1>4. Len(t) = n - 1 /\ \A i \in 1..(n - 1) : t[i] = s[i]
  BY <1>0, <1>3
<1>5. Tuple(t, n - 1)
  BY <1>3, <1>4, SeqTuple
<1> QED BY <1>1, <1>4, <1>5

LEMMA PartTuple ==
    ASSUME NEW s, NEW n, Tuple(s, n), NEW a \in Int, NEW b \in Int, 1 <= a, b <= n
    PROVE  SubSeq(s, a, b) \in Seq({s[i] : i \in 1..n})
<1> DEFINE S == {s[i] : i \in 1..n}
<1>0. n \in Nat
  BY DEF Tuple
<1>1. \A i \in a..b : s[i] \in S
  BY <1>0
<1> HIDE DEF S
<1>2. SubSeq(s, a, b) \in Seq(S)
  BY ONLY <1>1, a \in Int, b \in Int, SubSeqProperties
<1> QED BY <1>2 DEF S

LEMMA RemoveAtTuple ==
    ASSUME NEW s, NEW n, Tuple(s, n), NEW k \in 1..n
    PROVE  Tuple(RemoveAt(s, k), Len(RemoveAt(s, k)))
<1> DEFINE S == {s[i] : i \in 1..n}
<1>0. n \in Nat /\ Len(s) = n
  BY TupleLen DEF Tuple
<1>1. SubSeq(s, 1, k - 1) \in Seq(S)
  BY <1>0, PartTuple
<1>2. SubSeq(s, k + 1, n) \in Seq(S)
  BY <1>0, PartTuple
<1> HIDE DEF S
<1>3. RemoveAt(s, k) \in Seq(S)
  BY <1>0, <1>1, <1>2, ConcatProperties DEF RemoveAt
<1> QED BY <1>3, SeqTuple

LEMMA InsertAtTuple ==
    ASSUME NEW s, NEW n, Tuple(s, n), NEW k \in 1..(n + 1), NEW e
    PROVE  Tuple(InsertAt(s, k, e), Len(InsertAt(s, k, e)))
<1> DEFINE S == {s[i] : i \in 1..n}
           R == S \cup {e}
<1>0. n \in Nat /\ Len(s) = n
  BY TupleLen DEF Tuple
<1>1. SubSeq(s, 1, k - 1) \in Seq(S)
  BY <1>0, PartTuple
<1>2. SubSeq(s, k, n) \in Seq(S)
  BY <1>0, PartTuple
<1> HIDE DEF S
<1>3. SubSeq(s, 1, k - 1) \in Seq(R) /\ SubSeq(s, k, n) \in Seq(R) /\ <<e>> \in Seq(R)
  BY <1>1, <1>2
<1> HIDE DEF R
<1>4. SubSeq(s, 1, k - 1) \o <<e>> \in Seq(R)
  BY <1>3, ConcatProperties
<1>5. InsertAt(s, k, e) \in Seq(R)
  BY <1>0, <1>3, <1>4, ConcatProperties DEF InsertAt
<1> QED BY <1>5, SeqTuple

\* The first siblings that proof() makes for a leaf lead to the root, whatever
\* follows them.
LEMMA SiblingsLeadToRoot ==
    ASSUME NEW s, NEW n, Tuple(s, n), NEW index \in 0..(n - 1),
           NEW q, NEW m, Tuple(q.siblings, m), m >= Height(s),
           q.leaf_hash = s[index + 1],
           \A k \in 1..Height(s) :
               q.siblings[k] = ProofNode(Layer(s)[k - 1], Idx(s, index)[k])
    PROVE  climb(q)[Height(s)] = Root(s)
<1>0. n \in Nat /\ n > 0 /\ m \in Nat
  BY DEF Tuple
<1> DEFINE H == Height(s)
           L == Layer(s)
           idx == Idx(s, index)
           f == climb(q)
<1>2. /\ H \in 0..n /\ H \in Nat /\ Width(n, H) = 1
  BY <1>0, HeightProperties DEF AtTop
<1>3. /\ idx[1] = index
      /\ \A k \in 1..(H + 1) : idx[k] \in 0..(Width(n, k - 1) - 1)
      /\ \A k \in 1..H : idx[k + 1] = idx[k] \div 2
  BY IdxProperties
<1>4. /\ L[0] = s /\ \A k \in 0..n : Tuple(L[k], Width(n, k))
      /\ \A k \in 0..n : k # 0 => L[k] = NextLayer(L[k - 1])
  BY LayerProperties
<1>5. Root(s) = L[H][1]
  BY <1>0, LayersValue
<1>8. m >= H /\ q.leaf_hash = s[index + 1]
      /\ \A k \in 1..H : q.siblings[k] = ProofNode(L[k - 1], idx[k])
  OBVIOUS
<1> HIDE DEF H, L, idx
<1>9. /\ f[0] = s[index + 1]
      /\ \A k \in 1..H : f[k] = Up(f[k - 1], ProofNode(L[k - 1], idx[k]))
  <2>1. /\ f[0] = q.leaf_hash
        /\ \A k \in 1..m : f[k] = Up(f[k - 1], q.siblings[k])
    BY ClimbProperties
  <2>2. \A k \in 1..H : k \in 1..m
    BY <1>0, <1>2, <1>8
  <2> HIDE DEF f
  <2> QED BY <2>1, <2>2, <1>8
<1> HIDE DEF f
<1> DEFINE T == {k \in 0..H : f[k] # L[k][idx[k + 1] + 1]}
<1>10. T = {}
  <2> SUFFICES ASSUME T # {} PROVE FALSE
    OBVIOUS
  <2>1. PICK x \in T : \A y \in T : x <= y
    <3>1. T \in SUBSET Nat
      BY <1>2
    <3> HIDE DEF T
    <3> QED BY <3>1, LeastNumber
  <2>2. x \in 0..H /\ x \in Nat /\ f[x] # L[x][idx[x + 1] + 1]
    BY <2>1, <1>2
  <2>3. x # 0
    <3>0. idx[1] = index /\ L[0] = s /\ f[0] = s[index + 1]
      BY <1>3, <1>4, <1>9
    <3>1. x = 0 => x + 1 = 1
      OBVIOUS
    <3>2. x = 0 => L[x][idx[x + 1] + 1] = f[x]
      BY <3>0, <3>1
    <3> QED BY <3>2, <2>2
  <2>4. /\ x \in 1..H /\ x - 1 \in 0..H /\ x - 1 \in 0..n /\ x \in 0..n /\ x \in 1..(H + 1)
        /\ ~ (x <= x - 1) /\ (x - 1) + 1 = x
    BY <2>2, <2>3, <1>0, <1>2
  <2>5. x - 1 \notin T
    <3> HIDE DEF T
    <3> QED BY <2>4, <2>1
  <2>6. f[x - 1] = L[x - 1][idx[x] + 1]
    BY <2>4, <2>5
  <2>7. idx[x] \in 0..(Width(n, x - 1) - 1) /\ Tuple(L[x - 1], Width(n, x - 1))
    BY <2>4, <1>3, <1>4
  <2>8. Up(L[x - 1][idx[x] + 1], ProofNode(L[x - 1], idx[x]))
          = NextLayer(L[x - 1])[(idx[x] \div 2) + 1]
    BY <2>7, NodeLeadsUp
  <2>9. f[x] = Up(f[x - 1], ProofNode(L[x - 1], idx[x]))
    BY <2>4, <1>9
  <2>10. L[x] = NextLayer(L[x - 1]) /\ idx[x + 1] = idx[x] \div 2
    BY <2>3, <2>4, <1>3, <1>4
  <2> QED BY ONLY <2>2, <2>6, <2>8, <2>9, <2>10
<1>11. f[H] = Root(s)
  <2>1. H \in 0..H /\ H + 1 \in 1..(H + 1) /\ (H + 1) - 1 = H
    BY <1>2
  <2>2. f[H] = L[H][idx[H + 1] + 1]
    BY <1>10, <2>1
  <2>3. idx[H + 1] \in 0..(Width(n, H) - 1)
    BY <2>1, <1>3
  <2>4. idx[H + 1] = 0
    BY <2>3, <1>2
  <2> QED BY <2>2, <2>4, <1>5
<1> QED BY <1>11 DEF f, H

\* The path of a leaf up to the layer below the root leads to the root.
LEMMA PathLeadsToRoot ==
    ASSUME NEW s, NEW n, Tuple(s, n), NEW index \in 0..(n - 1)
    PROVE  LET p == Proof(s, index)
           IN  p # NoProof /\ verify_proof([p EXCEPT !.siblings = Front(@)])
<1>0. n \in Nat /\ n > 0
  BY DEF Tuple
<1> DEFINE p == Proof(s, index)
           q == [p EXCEPT !.siblings = Front(@)]
           H == Height(s)
           L == Layer(s)
           idx == Idx(s, index)
<1>1. /\ p = [leaf_index |-> index, leaf_hash |-> s[index + 1],
              siblings |-> p.siblings, root |-> Root(s)]
      /\ Tuple(p.siblings, H + 1)
      /\ \A k \in 1..(H + 1) : p.siblings[k] = ProofNode(L[k - 1], idx[k])
  BY ProofValue
<1>2. H \in Nat
  BY <1>0, HeightProperties
<1> HIDE DEF p, H, L, idx
<1>6. p # NoProof
  <2>1. DOMAIN p = {"leaf_index", "leaf_hash", "siblings", "root"}
    BY <1>1
  <2>2. DOMAIN NoProof = {"none"}
    BY DEF NoProof
  <2> QED BY <2>1, <2>2
<1>7. q.leaf_hash = s[index + 1] /\ q.root = Root(s) /\ q.siblings = Front(p.siblings)
  BY <1>1
<1>8. Tuple(q.siblings, H) /\ \A k \in 1..H : q.siblings[k] = ProofNode(L[k - 1], idx[k])
  <2> DEFINE m == H + 1
  <2>1. Tuple(p.siblings, m) /\ m > 0 /\ m - 1 = H /\ \A k \in 1..H : k \in 1..m
    BY <1>1, <1>2
  <2> HIDE DEF m
  <2>2. /\ Tuple(Front(p.siblings), m - 1)
        /\ \A k \in 1..(m - 1) : Front(p.siblings)[k] = p.siblings[k]
    BY <2>1, FrontTuple
  <2> QED BY <2>1, <2>2, <1>1, <1>7 DEF m
<1> HIDE DEF q
<1>9. verify_proof(q) <=> climb(q)[H] = Root(s)
  BY <1>7, <1>8, ClimbProperties
<1>10. H >= H
  BY <1>2
<1>11. climb(q)[H] = Root(s)
  BY <1>7, <1>8, <1>10, SiblingsLeadToRoot DEF H, L, idx
<1> QED BY <1>6, <1>9, <1>11 DEF p, q

-----------------------------------------------------------------------------
(* Hashes of a tree *)

\* s holds n hashes of chunks.
LeavesOf(s, n) == Tuple(s, n) /\ n > 0 /\ \A i \in 1..n : \E c \in Chunk : s[i] = Hash(c)

LEMMA NodeMember ==
    ASSUME NEW s, NEW n, LeavesOf(s, n), NEW x
    PROVE  x \in Nodes(s) <=> \E k \in 0..Height(s) : \E i \in 1..Width(n, k) : x = Layer(s)[k][i]
<1>0. Tuple(s, n) /\ n > 0
  BY DEF LeavesOf
<1> DEFINE H == Height(s)
           L == Layer(s)
<1>1. H \in 0..n /\ H \in Nat /\ n \in Nat
  BY <1>0, HeightProperties DEF Tuple
<1>2. Layers(s) = [k \in 1..(H + 1) |-> L[k - 1]]
  BY <1>0, LayersValue
<1>3. \A k \in 0..n : Tuple(L[k], Width(n, k))
  BY <1>0, LayerProperties
<1> HIDE DEF H, L
<1>4. DOMAIN Layers(s) = 1..(H + 1) /\ \A k \in 1..(H + 1) : Layers(s)[k] = L[k - 1]
  BY <1>2
<1>5. \A k \in 0..H : x \in Range(L[k]) <=> \E i \in 1..Width(n, k) : x = L[k][i]
  <2> TAKE k \in 0..H
  <2>1. k \in 0..n
    BY <1>1
  <2>2. DOMAIN L[k] = 1..Width(n, k)
    BY <2>1, <1>3, TupleLen
  <2> QED BY <2>2 DEF Range
<1>6. x \in Nodes(s) <=> \E k \in 1..(H + 1) : x \in Range(L[k - 1])
  BY <1>4 DEF Nodes
<1>7. (\E k \in 1..(H + 1) : x \in Range(L[k - 1])) <=> \E k \in 0..H : x \in Range(L[k])
  <2>1. ASSUME NEW k \in 1..(H + 1), x \in Range(L[k - 1]) PROVE \E j \in 0..H : x \in Range(L[j])
    <3>1. k - 1 \in 0..H
      BY <1>1
    <3> QED BY <3>1, <2>1
  <2>2. ASSUME NEW k \in 0..H, x \in Range(L[k]) PROVE \E j \in 1..(H + 1) : x \in Range(L[j - 1])
    <3>1. k + 1 \in 1..(H + 1) /\ (k + 1) - 1 = k
      BY <1>1
    <3> QED BY <3>1, <2>2
  <2> QED BY <2>1, <2>2
<1>8. x \in Nodes(s) <=> \E k \in 0..H : \E i \in 1..Width(n, k) : x = L[k][i]
  BY <1>5, <1>6, <1>7
<1> QED BY <1>8 DEF H, L

LEMMA PairsDiffer ==
    ASSUME NEW a, NEW b, NEW c, NEW d, HashPair(a, b) = HashPair(c, d)
    PROVE  a = c /\ b = d
BY DEF Hash, HashPair

\* What a hash of the tree was made from is in the tree, unless the hash is a leaf.
LEMMA BelowIsInTree ==
    ASSUME NEW s, NEW n, LeavesOf(s, n), NEW a, NEW b, HashPair(a, b) \in Nodes(s),
           HashPair(a, b) \notin Range(s)
    PROVE  a \in Nodes(s) /\ b \in Nodes(s)
<1>0. Tuple(s, n) /\ n > 0 /\ n \in Nat
  BY DEF LeavesOf, Tuple
<1> DEFINE H == Height(s)
           L == Layer(s)
           x == HashPair(a, b)
<1>1. H \in 0..n /\ H \in Nat
  BY <1>0, HeightProperties
<1>2. /\ L[0] = s /\ \A k \in 0..n : Tuple(L[k], Width(n, k))
      /\ \A k \in 0..n : k # 0 => L[k] = NextLayer(L[k - 1])
  BY <1>0, LayerProperties
<1>m. \A y : y \in Nodes(s) <=> \E k \in 0..H : \E i \in 1..Width(n, k) : y = L[k][i]
  BY NodeMember
<1> HIDE DEF H, L
<1>3. PICK k \in 0..H : \E i \in 1..Width(n, k) : x = L[k][i]
  BY <1>m
<1>4. PICK i \in 1..Width(n, k) : x = L[k][i]
  BY <1>3
<1>5. k # 0
  <2> SUFFICES ASSUME k = 0 PROVE FALSE
    OBVIOUS
  <2>1. Width(n, 0) = n
    BY <1>0, WidthStep
  <2>2. i \in 1..n /\ x = s[i]
    BY <2>1, <1>2, <1>4
  <2>3. DOMAIN s = 1..n
    BY <1>0, TupleLen
  <2> QED BY <2>2, <2>3 DEF Range
<1>6. k \in 0..n /\ k - 1 \in 0..n /\ k - 1 \in 0..H /\ k - 1 \in Nat /\ (k - 1) + 1 = k
  BY <1>0, <1>1, <1>5
<1> DEFINE w == Width(n, k - 1)
           low == L[k - 1]
<1>7. w \in Nat /\ Width(n, k) = (w + 1) \div 2
  <2>1. Width(n, (k - 1) + 1) = (w + 1) \div 2 /\ w \in Nat
    BY <1>0, <1>6, WidthStep
  <2> QED BY <2>1, <1>6
<1>8. Tuple(low, w) /\ L[k] = NextLayer(low)
  BY <1>2, <1>5, <1>6
<1>9. \A j \in 1..w : low[j] \in Nodes(s)
  BY <1>m, <1>6
<1> HIDE DEF w, low
<1>10. i \in 1..((w + 1) \div 2)
  BY <1>4, <1>7
<1>11. 2 * i - 1 \in 1..w /\ (2 * i <= w => 2 * i \in 1..w)
  BY <1>7, <1>10
<1>12. x = HashPair(low[2 * i - 1], IF 2 * i <= w THEN low[2 * i] ELSE low[2 * i - 1])
  <2>1. L[k][i] = Above(low, i)
    BY <1>8, <1>10, NextLayerTuple
  <2>2. Len(low) = w
    BY <1>8, TupleLen
  <2> HIDE DEF x
  <2> QED BY <1>4, <2>1, <2>2 DEF Above
<1>13. a = low[2 * i - 1] /\ b = IF 2 * i <= w THEN low[2 * i] ELSE low[2 * i - 1]
  BY <1>12, PairsDiffer
<1> QED BY <1>9, <1>11, <1>13

\* Whatever climbs to the root of a tree started from a hash of the tree, or
\* passed through a leaf.
LEMMA ClimbIsInTree ==
    ASSUME NEW s, NEW n, LeavesOf(s, n), NEW p, NEW m, Tuple(p.siblings, m),
           p.root = Root(s), verify_proof(p), \A k \in 1..m : climb(p)[k] \notin Range(s)
    PROVE  p.leaf_hash \in Nodes(s)
<1>0. Tuple(s, n) /\ n > 0 /\ m \in Nat
  BY DEF LeavesOf, Tuple
<1> DEFINE f == climb(p)
<1>1. /\ f[0] = p.leaf_hash /\ f[m] = Root(s)
      /\ \A k \in 1..m : f[k] = Up(f[k - 1], p.siblings[k])
      /\ \A k \in 1..m : f[k] \notin Range(s)
  BY ClimbProperties
<1>2. Root(s) \in Nodes(s)
  <2>1. Height(s) \in 0..Height(s) /\ Width(n, Height(s)) = 1
    BY <1>0, HeightProperties DEF AtTop
  <2>2. 1 \in 1..Width(n, Height(s))
    BY <2>1
  <2>3. Root(s) = Layer(s)[Height(s)][1]
    BY <1>0, LayersValue
  <2> QED BY <2>1, <2>2, <2>3, NodeMember
<1> HIDE DEF f
<1> DEFINE T == {d \in 0..m : f[m - d] \notin Nodes(s)}
<1>3. T = {}
  <2> SUFFICES ASSUME T # {} PROVE FALSE
    OBVIOUS
  <2>1. PICK x \in T : \A y \in T : x <= y
    <3>1. T \in SUBSET Nat
      BY <1>0
    <3> HIDE DEF T
    <3> QED BY <3>1, LeastNumber
  <2>2. x \in 0..m /\ f[m - x] \notin Nodes(s)
    BY <2>1
  <2>3. x # 0
    <3>1. m - 0 = m
      BY <1>0
    <3> QED BY <3>1, <2>2, <1>1, <1>2
  <2> DEFINE k == m - x + 1
  <2>4. /\ x - 1 \in 0..m /\ ~ (x <= x - 1) /\ k \in 1..m /\ k - 1 = m - x /\ m - (x - 1) = k
    BY <2>2, <2>3, <1>0
  <2> HIDE DEF k
  <2>5. x - 1 \notin T
    <3> HIDE DEF T
    <3> QED BY <2>4, <2>1
  <2>6. f[k] \in Nodes(s)
    BY <2>4, <2>5
  <2>7. f[k] = Up(f[m - x], p.siblings[k])
    BY <2>4, <1>1
  <2>8. \/ f[k] = HashPair(f[m - x], p.siblings[k].hash)
        \/ f[k] = HashPair(p.siblings[k].hash, f[m - x])
    BY <2>7 DEF Up
  <2>9. f[m - x] \in Nodes(s)
    BY <2>4, <2>6, <2>8, <1>1, BelowIsInTree
  <2> QED BY <2>2, <2>9
<1>4. m \in 0..m /\ m - m = 0
  BY <1>0
<1> QED BY <1>1, <1>3, <1>4

\* The root of a tree is not the hash of itself twice: that would make every first
\* hash of a layer equal to it, the first leaf too, and no chunk is its own hash twice.
LEMMA RootIsNoPair ==
    ASSUME NEW s, NEW n, LeavesOf(s, n)
    PROVE  HashPair(Root(s), Root(s)) # Root(s)
<1>0. Tuple(s, n) /\ n > 0 /\ n \in Nat
  BY DEF LeavesOf, Tuple
<1> DEFINE H == Height(s)
           L == Layer(s)
           r == Root(s)
           T == {k \in 0..H : L[k][1] = r}
<1> SUFFICES ASSUME HashPair(r, r) = r PROVE FALSE
  OBVIOUS
<1>1. H \in 0..n /\ H \in Nat /\ r = L[H][1]
  BY <1>0, HeightProperties, LayersValue
<1>2. /\ L[0] = s /\ \A k \in 0..n : Tuple(L[k], Width(n, k))
      /\ \A k \in 0..n : k # 0 => L[k] = NextLayer(L[k - 1])
  BY <1>0, LayerProperties
<1>3. \A k \in 0..n : Width(n, k) \in Nat /\ Width(n, k) > 0
  <2>1. ASSUME NEW k \in 0..n PROVE Width(n, k) \in Nat /\ Width(n, k) > 0
    <3>1. k \in Nat
      BY <1>0
    <3> QED BY ONLY <1>0, <3>1, WidthStep, WidthShrinks
  <2> QED BY <2>1
<1> HIDE DEF H, L, r
<1>4. PICK x \in T : \A y \in T : x <= y
  <2>1. T \in SUBSET Nat /\ H \in T
    BY <1>1
  <2> HIDE DEF T
  <2> QED BY <2>1, LeastNumber
<1>5. x \in 0..H /\ x \in Nat /\ L[x][1] = r
  BY <1>1, <1>4
<1>6. x # 0
  <2> SUFFICES ASSUME x = 0 PROVE FALSE
    OBVIOUS
  <2>1. PICK c \in Chunk : s[1] = Hash(c)
    BY <1>0 DEF LeavesOf
  <2>2. r = Hash(c) /\ Hash(c) = Hash(<<r, r>>)
    BY <2>1, <1>2, <1>5 DEF HashPair
  <2>3. c = <<Hash(c), Hash(c)>>
    BY <2>2 DEF Hash
  <2> QED BY <2>3, NoFixedPoint
<1>7. x - 1 \in 0..H /\ x - 1 \in 0..n /\ x \in 0..n /\ ~ (x <= x - 1)
  BY ONLY <1>0, <1>1, <1>5, <1>6
<1>8. L[x][1] = Above(L[x - 1], 1)
  <2> DEFINE w == Width(n, x - 1)
  <2>1. Tuple(L[x - 1], w) /\ w \in Nat /\ w > 0 /\ L[x] = NextLayer(L[x - 1])
    BY <1>2, <1>3, <1>6, <1>7
  <2> HIDE DEF w
  <2>2. 1 \in 1..((w + 1) \div 2)
    BY <2>1
  <2> QED BY <2>1, <2>2, NextLayerTuple
<1>9. PICK b : L[x][1] = HashPair(L[x - 1][1], b)
  <2>1. 2 * 1 - 1 = 1
    OBVIOUS
  <2> QED BY <1>8, <2>1 DEF Above
<1>10. L[x - 1][1] = r
  BY <1>5, <1>9, PairsDiffer
<1> QED
  <2>1. x - 1 \in T
    BY <1>7, <1>10
  <2> HIDE DEF T
  <2> QED BY <2>1, <1>4, <1>7

\* A whole proof leads past the root: its last sibling is the root itself.
LEMMA WholeProofFails ==
    ASSUME NEW s, NEW n, LeavesOf(s, n), NEW index \in 0..(n - 1)
    PROVE  ~ verify_proof(Proof(s, index))
<1>0. Tuple(s, n) /\ n > 0 /\ n \in Nat
  BY DEF LeavesOf, Tuple
<1> DEFINE p == Proof(s, index)
           H == Height(s)
           L == Layer(s)
           idx == Idx(s, index)
           f == climb(p)
           r == Root(s)
<1>1. /\ p.leaf_hash = s[index + 1] /\ p.root = r
      /\ Tuple(p.siblings, H + 1)
      /\ \A k \in 1..(H + 1) : p.siblings[k] = ProofNode(L[k - 1], idx[k])
  BY <1>0, ProofValue
<1>2. H \in 0..n /\ H \in Nat /\ Width(n, H) = 1
  BY <1>0, HeightProperties DEF AtTop
<1>3. \A k \in 1..(H + 1) : idx[k] \in 0..(Width(n, k - 1) - 1)
  BY <1>0, IdxProperties
<1>4. Tuple(L[H], 1) /\ r = L[H][1]
  BY <1>0, <1>2, LayerProperties, LayersValue
<1>5. f[H] = r
  <2> HIDE DEF p
  <2>1. H + 1 >= Height(s) /\ \A k \in 1..H : k \in 1..(H + 1)
    BY <1>2
  <2>2. \A k \in 1..Height(s) : p.siblings[k] = ProofNode(Layer(s)[k - 1], Idx(s, index)[k])
    BY <1>1, <2>1
  <2> QED BY <1>0, <1>1, <2>1, <2>2, SiblingsLeadToRoot
<1>6. /\ f[H + 1] = Up(f[H], p.siblings[H + 1])
      /\ verify_proof(p) <=> f[H + 1] = r
  <2> HIDE DEF p, H
  <2>1. H + 1 \in 1..(H + 1) /\ (H + 1) - 1 = H
    BY <1>2
  <2> QED BY <1>1, <2>1, ClimbProperties
<1> HIDE DEF p, H, L, idx, f, r
<1>7. p.siblings[H + 1] = ProofNode(L[H], 0)
  <2>1. H + 1 \in 1..(H + 1) /\ (H + 1) - 1 = H
    BY <1>2
  <2>2. idx[H + 1] \in 0..(Width(n, H) - 1)
    BY <1>3, <2>1
  <2>3. idx[H + 1] = 0
    BY <1>2, <2>2
  <2> QED BY <1>1, <2>1, <2>3
<1>8. ProofNode(L[H], 0).hash = r /\ ProofNode(L[H], 0).is_right = TRUE
  <2>1. Len(L[H]) = 1
    BY <1>4, TupleLen
  <2>2. 0 % 2 = 0 /\ 0 + 1 = 1 /\ ~ (1 < 1)
    OBVIOUS
  <2>3. ProofNode(L[H], 0) = [hash |-> L[H][1], is_right |-> TRUE]
    BY <2>1, <2>2 DEF ProofNode
  <2> QED BY <2>3, <1>4
<1>9. f[H + 1] = HashPair(r, r)
  BY <1>5, <1>6, <1>7, <1>8 DEF Up
<1> QED BY <1>6, <1>9, RootIsNoPair DEF p, r

-----------------------------------------------------------------------------
(* The state of a tree and its proofs *)

\* A tree of chunk hashes; a challenge asks for different leaves of it; a proof
\* has a path, whatever was damaged.
TreeInv ==
    /\ leaves \in Seq({Hash(c) : c \in Chunk})
    /\ leaf_indices \in Seq(Nat) /\ IsInjective(leaf_indices)
    /\ leaves # <<>> => \A i \in Range(leaf_indices) : i \in 0..(Len(leaves) - 1)
    /\ proof # NoProof =>
         /\ leaves # <<>>
         /\ \E index, hash, siblings, root, m :
              /\ Tuple(siblings, m)
              /\ proof = [leaf_index |-> index, leaf_hash |-> hash, siblings |-> siblings,
                          root |-> root]

LEMMA LeavesTuple ==
    ASSUME NEW s \in Seq({Hash(c) : c \in Chunk})
    PROVE  /\ Tuple(s, Len(s)) /\ Len(s) \in Nat
           /\ s # <<>> => LeavesOf(s, Len(s))
<1>1. Tuple(s, Len(s)) /\ Len(s) \in Nat
  BY SeqTuple, LenProperties
<1>2. \A i \in 1..Len(s) : \E c \in Chunk : s[i] = Hash(c)
  BY ElementOfSeq
<1>3. s # <<>> => Len(s) > 0
  BY <1>1, EmptySeq
<1> QED BY <1>1, <1>2, <1>3 DEF LeavesOf

LEMMA EmptyInjective == <<>> \in Seq(Nat) /\ IsInjective(<<>>) /\ Range(<<>>) = {}
BY DEF IsInjective, Range

LEMMA TreeInductive == TreeInit /\ [][TreeNext]_treeVars => []TreeInv
<1>1. TreeInit => TreeInv
  BY EmptyInjective DEF TreeInit, TreeInv
<1>2. TreeInv /\ [TreeNext]_treeVars => TreeInv'
  <2> SUFFICES ASSUME TreeInv, [TreeNext]_treeVars PROVE TreeInv'
    OBVIOUS
  <2> DEFINE Leaf == {Hash(c) : c \in Chunk}
  <2>0. /\ leaves \in Seq(Leaf) /\ leaf_indices \in Seq(Nat) /\ IsInjective(leaf_indices)
        /\ leaves # <<>> => \A i \in Range(leaf_indices) : i \in 0..(Len(leaves) - 1)
        /\ Len(leaves) \in Nat
    BY LeavesTuple DEF TreeInv
  <2>1. ASSUME NEW c \in Chunk, from_chunks(c) PROVE TreeInv'
    <3>1. leaves' \in Seq(Leaf)
      <4>1. Hash(c) \in Leaf
        OBVIOUS
      <4> HIDE DEF Leaf
      <4> QED BY <4>1, <2>0, <2>1, AppendProperties DEF from_chunks
    <3>2. leaf_indices' = <<>> /\ proof' = NoProof
      BY <2>1 DEF from_chunks, Discard
    <3>3. leaf_indices' \in Seq(Nat) /\ IsInjective(leaf_indices') /\ Range(leaf_indices') = {}
      BY <3>2, EmptyInjective
    <3> QED BY <3>1, <3>2, <3>3 DEF TreeInv
  <2>2. ASSUME NEW n \in 1..MaxChallenges, generate_challenge(n) PROVE TreeInv'
    <3>1. leaves' = leaves /\ proof' = NoProof
      BY <2>2 DEF generate_challenge, Discard
    <3>2. CASE leaves = <<>>
      <4>1. leaf_indices' = <<0>>
        BY <2>2, <3>2 DEF generate_challenge
      <4>2. <<0>> \in Seq(Nat) /\ IsInjective(<<0>>)
        BY DEF IsInjective
      <4> QED BY <2>0, <3>1, <3>2, <4>1, <4>2 DEF TreeInv
    <3>3. CASE leaves # <<>>
      <4> DEFINE k == IF n < Len(leaves) THEN n ELSE Len(leaves)
                 top == Len(leaves) - 1
      <4>1. leaf_indices' \in [1..k -> 0..top] /\ IsInjective(leaf_indices')
        BY <2>2, <3>3 DEF generate_challenge
      <4>2. k \in Nat /\ 0..top \subseteq Nat
        BY <2>0, BoundsAssumption
      <4> HIDE DEF k, top
      <4>3. leaf_indices' \in Seq(Nat)
        <5>1. leaf_indices' \in [1..k -> Nat]
          BY <4>1, <4>2
        <5> QED BY <5>1, <4>2
      <4>4. \A i \in Range(leaf_indices') : i \in 0..top
        BY <4>1 DEF Range
      <4> QED BY <2>0, <3>1, <4>1, <4>3, <4>4 DEF TreeInv, top
    <3> QED BY <3>2, <3>3
  <2>3. ASSUME NEW index \in 0..MaxLeaves, prove(index) PROVE TreeInv'
    <3>1. /\ leaves' = leaves /\ leaf_indices' = <<>> /\ proof' = Proof(leaves, index)
          /\ index \in Range(leaf_indices)
      BY <2>3 DEF prove
    <3>2. leaf_indices' \in Seq(Nat) /\ IsInjective(leaf_indices') /\ Range(leaf_indices') = {}
      BY <3>1, EmptyInjective
    <3>3. ASSUME proof' # NoProof
          PROVE  /\ leaves # <<>>
                 /\ \E i, hash, siblings, root, m :
                      /\ Tuple(siblings, m)
                      /\ proof' = [leaf_index |-> i, leaf_hash |-> hash, siblings |-> siblings,
                                   root |-> root]
      <4>1. ~ (index >= Len(leaves))
        BY <3>1, <3>3 DEF Proof
      <4>2. index \in Nat
        BY BoundsAssumption
      <4>3. index \in 0..(Len(leaves) - 1)
        BY <4>1, <4>2, <2>0
      <4>4. leaves # <<>>
        BY <4>3
      <4>5. Tuple(leaves, Len(leaves))
        BY <2>0, LeavesTuple
      <4>6. /\ proof' = [leaf_index |-> index, leaf_hash |-> leaves[index + 1],
                         siblings |-> Proof(leaves, index).siblings, root |-> Root(leaves)]
            /\ Tuple(Proof(leaves, index).siblings, Height(leaves) + 1)
        BY <3>1, <4>3, <4>5, ProofValue
      <4> QED BY <4>4, <4>6
    <3> QED BY <2>0, <3>1, <3>2, <3>3 DEF TreeInv
  <2>4. CASE Damage
    <3>1. leaves' = leaves /\ leaf_indices' = leaf_indices /\ proof # NoProof
      BY <2>4 DEF Damage
    <3>2. PICK index, hash, siblings, root, m :
            /\ Tuple(siblings, m)
            /\ proof = [leaf_index |-> index, leaf_hash |-> hash, siblings |-> siblings,
                        root |-> root]
      BY <3>1 DEF TreeInv
    <3>l. leaves # <<>>
      BY <3>1 DEF TreeInv
    <3> DEFINE P(i, h, t, r) == [leaf_index |-> i, leaf_hash |-> h, siblings |-> t, root |-> r]
    <3>3. SUFFICES \E i, h, t, r, n : Tuple(t, n) /\ proof' = P(i, h, t, r)
      BY <2>0, <3>1, <3>l DEF TreeInv
    <3>s. proof.siblings = siblings /\ DOMAIN siblings = 1..m /\ m \in Nat /\ Len(siblings) = m
      BY <3>2, TupleLen DEF Tuple
    <3>4. ASSUME NEW c \in Chunk, proof' = [proof EXCEPT !.leaf_hash = Hash(c)]
          PROVE  proof' = P(index, Hash(c), siblings, root)
      BY <3>2, <3>4
    <3>5. ASSUME NEW c \in Chunk, proof' = [proof EXCEPT !.root = Hash(c)]
          PROVE  proof' = P(index, hash, siblings, Hash(c))
      BY <3>2, <3>5
    <3>6. ASSUME NEW c \in Chunk, NEW k \in DOMAIN proof.siblings,
                 proof' = [proof EXCEPT !.siblings[k].hash = Hash(c)]
          PROVE  \E t : Tuple(t, m) /\ proof' = P(index, hash, t, root)
      <4> DEFINE t == [siblings EXCEPT ![k].hash = Hash(c)]
      <4>1. proof' = P(index, hash, t, root)
        BY <3>2, <3>6
      <4>2. Tuple(t, m)
        BY <3>s DEF Tuple
      <4> QED BY <4>1, <4>2
    <3>7. ASSUME NEW k \in DOMAIN proof.siblings,
                 proof' = [proof EXCEPT !.siblings[k].is_right = ~ @]
          PROVE  \E t : Tuple(t, m) /\ proof' = P(index, hash, t, root)
      <4> DEFINE t == [siblings EXCEPT ![k].is_right = ~ @]
      <4>1. proof' = P(index, hash, t, root)
        BY <3>2, <3>7
      <4>2. Tuple(t, m)
        BY <3>s DEF Tuple
      <4> QED BY <4>1, <4>2
    <3>8. ASSUME NEW k \in DOMAIN proof.siblings,
                 proof' = [proof EXCEPT !.siblings = RemoveAt(@, k)]
          PROVE  \E t, n : Tuple(t, n) /\ proof' = P(index, hash, t, root)
      <4>1. k \in 1..m
        BY <3>s
      <4>2. Tuple(RemoveAt(siblings, k), Len(RemoveAt(siblings, k)))
        BY <3>2, <4>1, RemoveAtTuple
      <4>3. proof' = P(index, hash, RemoveAt(siblings, k), root)
        BY <3>2, <3>8
      <4> QED BY <4>2, <4>3
    <3>9. ASSUME NEW node, NEW k \in 1..(Len(proof.siblings) + 1),
                 proof' = [proof EXCEPT !.siblings = InsertAt(@, k, node)]
          PROVE  \E t, n : Tuple(t, n) /\ proof' = P(index, hash, t, root)
      <4>1. k \in 1..(m + 1)
        BY <3>s
      <4>2. Tuple(InsertAt(siblings, k, node), Len(InsertAt(siblings, k, node)))
        BY <3>2, <4>1, InsertAtTuple
      <4>3. proof' = P(index, hash, InsertAt(siblings, k, node), root)
        BY <3>2, <3>9
      <4> QED BY <4>2, <4>3
    <3> HIDE DEF P
    <3>10. CASE \E c \in Chunk : \/ proof' = [proof EXCEPT !.leaf_hash = Hash(c)]
                                 \/ proof' = [proof EXCEPT !.root = Hash(c)]
      BY <3>2, <3>4, <3>5, <3>10
    <3>11. CASE \E k \in DOMAIN proof.siblings :
                  \/ \E c \in Chunk : proof' = [proof EXCEPT !.siblings[k].hash = Hash(c)]
                  \/ proof' = [proof EXCEPT !.siblings[k].is_right = ~ @]
                  \/ proof' = [proof EXCEPT !.siblings = RemoveAt(@, k)]
      BY <3>6, <3>7, <3>8, <3>11
    <3>12. CASE \E c \in Chunk, right \in BOOLEAN, k \in 1..(Len(proof.siblings) + 1) :
                  proof' = [proof EXCEPT !.siblings =
                              InsertAt(@, k, [hash |-> Hash(c), is_right |-> right])]
      BY <3>9, <3>12
    <3> QED BY <2>4, <3>10, <3>11, <3>12 DEF Damage
  <2>5. CASE UNCHANGED treeVars
    BY <2>5 DEF treeVars, TreeInv
  <2> QED BY <2>1, <2>2, <2>3, <2>4, <2>5 DEF TreeNext
<1> QED BY <1>1, <1>2, PTL

\* from_hashes, for every number of leaves: the loop over odd and even layers
\* ends in the root of the tree defined top down.
THEOREM RootCorrect == TreeSpec => []RootIsReference
<1>1. TreeInv => RootIsReference
  BY LeavesTuple, RootReference DEF TreeInv, RootIsReference
<1> QED BY <1>1, TreeInductive, PTL DEF TreeSpec

\* verify_proof: whatever was changed, added or left out on the way, a proof that
\* is accepted and names the root of a tree is about a hash of that tree or leads
\* through a leaf whose chunk is two hashes, in trees and paths of any size.
THEOREM VerifiedCorrect == TreeSpec => []VerifiedIsInTree
<1>1. TreeInv => VerifiedIsInTree
  <2> SUFFICES ASSUME TreeInv, proof # NoProof, proof.root = Root(leaves), verify_proof(proof),
                      \A k \in 1..Len(proof.siblings) : climb(proof)[k] \notin Range(leaves)
               PROVE  proof.leaf_hash \in Nodes(leaves)
    BY DEF VerifiedIsInTree
  <2>1. PICK index, hash, siblings, root, m :
          /\ Tuple(siblings, m)
          /\ proof = [leaf_index |-> index, leaf_hash |-> hash, siblings |-> siblings,
                      root |-> root]
    BY DEF TreeInv
  <2>2. Tuple(proof.siblings, m)
    BY <2>1
  <2>3. \A k \in 1..m : climb(proof)[k] \notin Range(leaves)
    BY <2>2, ClimbProperties
  <2>4. LeavesOf(leaves, Len(leaves))
    BY LeavesTuple DEF TreeInv
  <2>5. proof.root = Root(leaves) /\ verify_proof(proof)
    OBVIOUS
  <2> QED BY ONLY <2>2, <2>3, <2>4, <2>5, ClimbIsInTree
<1> QED BY <1>1, TreeInductive, PTL DEF TreeSpec

\* generate_challenge, proof and verify_proof: every leaf asked for exists, is
\* asked for once, and its path below the root leads to the root.
THEOREM PathsCorrect == TreeSpec => []PathBelowRootVerifies
<1>1. TreeInv => PathBelowRootVerifies
  <2> SUFFICES ASSUME TreeInv, leaves # <<>>, NEW i \in Range(leaf_indices)
               PROVE  LET p == Proof(leaves, i)
                      IN p # NoProof /\ verify_proof([p EXCEPT !.siblings = Front(@)])
    BY DEF TreeInv, PathBelowRootVerifies
  <2>1. i \in 0..(Len(leaves) - 1) /\ Tuple(leaves, Len(leaves))
    BY LeavesTuple DEF TreeInv
  <2> QED BY ONLY <2>1, PathLeadsToRoot
<1> QED BY <1>1, TreeInductive, PTL DEF TreeSpec

\* The opposite of what the tests in merkle.rs assert.
NoProofVerifies == truth # NoProof => ~ verify_proof(truth)

\* proof() and verify_proof(), for every tree and every leaf: no proof that the
\* tree makes verifies, because of the sibling made for the layer of the root.
THEOREM WholeProofsFail == TreeSpec => []NoProofVerifies
<1> DEFINE Made == truth # NoProof =>
             \E i \in 0..(Len(leaves) - 1) : truth = Proof(leaves, i)
<1>1. TreeInit => Made
  BY DEF TreeInit
<1>2. TreeInv /\ Made /\ [TreeNext]_treeVars => Made'
  <2> SUFFICES ASSUME TreeInv, Made, [TreeNext]_treeVars PROVE Made'
    OBVIOUS
  <2>1. ASSUME NEW c \in Chunk, from_chunks(c) PROVE Made'
    BY <2>1 DEF from_chunks, Discard
  <2>2. ASSUME NEW n \in 1..MaxChallenges, generate_challenge(n) PROVE Made'
    BY <2>2 DEF generate_challenge, Discard
  <2>3. ASSUME NEW index \in 0..MaxLeaves, prove(index) PROVE Made'
    <3>1. leaves' = leaves /\ truth' = Proof(leaves, index) /\ index \in Nat
      BY <2>3 DEF prove
    <3>2. CASE index >= Len(leaves)
      BY <3>1, <3>2 DEF Proof
    <3>3. CASE ~ (index >= Len(leaves))
      <4>1. Len(leaves) \in Nat
        BY LenProperties DEF TreeInv
      <4>2. index \in 0..(Len(leaves) - 1)
        BY <3>1, <3>3, <4>1
      <4> QED BY <3>1, <4>2
    <3> QED BY <3>2, <3>3
  <2>4. CASE Damage
    BY <2>4 DEF Damage
  <2>5. CASE UNCHANGED treeVars
    BY <2>5 DEF treeVars
  <2> QED BY <2>1, <2>2, <2>3, <2>4, <2>5 DEF TreeNext
<1>3. TreeInv /\ Made => NoProofVerifies
  <2> SUFFICES ASSUME TreeInv, Made, truth # NoProof PROVE ~ verify_proof(truth)
    BY DEF NoProofVerifies
  <2>1. PICK i \in 0..(Len(leaves) - 1) : truth = Proof(leaves, i)
    OBVIOUS
  <2>2. leaves \in Seq({Hash(c) : c \in Chunk}) /\ Len(leaves) \in Nat
    BY LenProperties DEF TreeInv
  <2>3. leaves # <<>>
    BY <2>1, <2>2
  <2>4. LeavesOf(leaves, Len(leaves))
    BY <2>2, <2>3, LeavesTuple
  <2> QED BY ONLY <2>1, <2>4, WholeProofFails
<1> QED BY <1>1, <1>2, <1>3, TreeInductive, PTL DEF TreeSpec
=============================================================================
