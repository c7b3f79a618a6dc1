----------------------- MODULE BuddyAllocator_proofs -----------------------
(***************************************************************************)
(* Proofs about the pool.  A block is a unit of a page where it starts and *)
(* a level; the invariant is that the free and the held blocks of a page   *)
(* tile it (each of its units is in exactly one of them) and that no two   *)
(* free ones are partners.  Both operations exchange one block for the     *)
(* chain of blocks it is split into on the way down to a level, or that    *)
(* are merged on the way up from one, and these cover the same units.      *)
(*                                                                         *)
(* That 2^(n + 1) is twice 2^n, which no prover knows, is counted: there   *)
(* are 2^n subsets of 1..n.                                                *)
(***************************************************************************)
EXTENDS BuddyAllocator, FiniteSetTheorems, SequenceTheorems, WellFoundedInduction, TLAPS

(* Powers of two, quotients and multiples.                                  *)

LEMMA PowerZero == 2^0 = 1
  OBVIOUS

LEMMA PowerIsSize ==
  ASSUME NEW n \in Nat
  PROVE  /\ IsFiniteSet(SUBSET (1..n)) /\ Cardinality(SUBSET (1..n)) = 2^n
         /\ 2^n \in Nat
<1>1. IsFiniteSet(1..n) /\ Cardinality(1..n) = n
  BY FS_Interval
<1>2. IsFiniteSet(SUBSET (1..n)) /\ Cardinality(SUBSET (1..n)) = 2^n
  BY <1>1, FS_SUBSET
<1> QED BY <1>2, FS_CardinalityType

LEMMA DisjointSizes ==
  ASSUME NEW S, IsFiniteSet(S), NEW T, IsFiniteSet(T), S \cap T = {}
  PROVE  Cardinality(S \cup T) = Cardinality(S) + Cardinality(T)
<1>1. Cardinality(S \cap T) = 0
  BY FS_EmptySet
<1>2. Cardinality(S \cup T) = Cardinality(S) + Cardinality(T) - Cardinality(S \cap T)
  BY FS_Union
<1>3. Cardinality(S) \in Nat /\ Cardinality(T) \in Nat
  BY FS_CardinalityType
<1> QED BY <1>1, <1>2, <1>3

LEMMA PowerNext ==
  ASSUME NEW n \in Nat
  PROVE  2^(n + 1) = 2 * 2^n
<1> DEFINE A == SUBSET (1..n)
           C == {B \cup {n + 1} : B \in A}
           f == [B \in A |-> B \cup {n + 1}]
<1>1. IsFiniteSet(A) /\ Cardinality(A) = 2^n /\ 2^n \in Nat
  BY PowerIsSize
<1>2. ExistsBijection(A, C)
  <2>1. f \in [A -> C]
    OBVIOUS
  <2>2. \A B \in A : n + 1 \notin B
    OBVIOUS
  <2>3. ASSUME NEW B \in A, NEW D \in A, f[B] = f[D]
        PROVE  B = D
    <3>1. B \cup {n + 1} = D \cup {n + 1}
      BY <2>3
    <3> QED BY <2>2, <3>1
  <2>4. f \in Injection(A, C)
    BY <2>1, <2>3 DEF Injection, IsInjective
  <2>5. f \in Surjection(A, C)
    BY <2>1 DEF Surjection
  <2> QED BY <2>4, <2>5 DEF Bijection, ExistsBijection
<1>3. IsFiniteSet(C) /\ Cardinality(C) = 2^n
  BY <1>1, <1>2, FS_Bijection
<1>4. SUBSET (1..(n + 1)) = A \cup C
  <2>1. 1..(n + 1) = (1..n) \cup {n + 1}
    OBVIOUS
  <2>2. ASSUME NEW B \in SUBSET (1..(n + 1)), n + 1 \in B
        PROVE  B \in C
    <3>1. B \ {n + 1} \in A /\ B = (B \ {n + 1}) \cup {n + 1}
      BY <2>1, <2>2
    <3> QED BY <3>1
  <2>3. ASSUME NEW B \in SUBSET (1..(n + 1)), n + 1 \notin B
        PROVE  B \in A
    BY <2>1, <2>3
  <2>4. A \cup C \subseteq SUBSET (1..(n + 1))
    BY <2>1
  <2> QED BY <2>2, <2>3, <2>4
<1>5. A \cap C = {}
  OBVIOUS
<1>6. 2^(n + 1) = Cardinality(A \cup C)
  <2>1. n + 1 \in Nat
    OBVIOUS
  <2> QED BY <1>4, <2>1, PowerIsSize
<1>7. Cardinality(A \cup C) = Cardinality(A) + Cardinality(C)
  <2> HIDE DEF A, C
  <2> QED BY <1>1, <1>3, <1>5, DisjointSizes
<1> QED BY <1>1, <1>3, <1>6, <1>7

LEMMA PowerPositive ==
  ASSUME NEW n \in Nat
  PROVE  2^n \in Nat \ {0}
<1>1. {} \in SUBSET (1..n)
  OBVIOUS
<1> QED BY <1>1, PowerIsSize, FS_EmptySet

LessThan == {ss \in Nat \X Nat : ss[1] < ss[2]}

LEMMA Smallest ==
  ASSUME NEW T \in SUBSET Nat, T # {}
  PROVE  \E x \in T : \A y \in T : x <= y
<1>1. IsWellFoundedOn(LessThan, Nat)
  BY NatLessThanWellFounded DEF OpToRel, LessThan
<1>2. PICK x \in T : \A y \in T : ~ (<<y, x>> \in LessThan)
  BY <1>1, WFMin, Zenon
<1>3. \A y \in T : ~ (y < x)
  BY <1>2 DEF LessThan
<1> QED BY <1>3

(* A larger power is a multiple of a smaller one. *)
LEMMA PowerMultiple ==
  ASSUME NEW l \in Nat, NEW m \in Nat, l <= m
  PROVE  \E c \in Nat \ {0} : 2^m = c * 2^l
<1> DEFINE T == {n \in Nat : l <= n /\ ~ \E c \in Nat \ {0} : 2^n = c * 2^l}
<1>1. CASE T = {}
  BY <1>1
<1>2. CASE T # {}
  <2>1. PICK n \in T : \A k \in T : n <= k
    BY <1>2, Smallest
  <2>2. n # l
    <3>1. 2^l = 1 * 2^l
      BY PowerPositive
    <3> QED BY <2>1, <3>1
  <2>3. n - 1 \in Nat /\ l <= n - 1 /\ n - 1 \notin T
    BY <2>1, <2>2
  <2>4. PICK c \in Nat \ {0} : 2^(n - 1) = c * 2^l
    BY <2>3
  <2>5. 2^n = 2 * 2^(n - 1)
    <3>1. (n - 1) + 1 = n
      BY <2>1
    <3> QED BY <2>3, <3>1, PowerNext
  <2>6. 2^l \in Nat \ {0}
    BY PowerPositive
  <2>7. 2 * (c * 2^l) = (2 * c) * 2^l /\ 2 * c \in Nat \ {0}
    BY <2>4, <2>6
  <2> QED BY <2>1, <2>4, <2>5, <2>7
<1> QED BY <1>1, <1>2

LEMMA BlockOf ==
  ASSUME NEW P \in Nat \ {0}, NEW a \in Nat
  PROVE  /\ a \div P \in Nat
         /\ P * (a \div P) <= a
         /\ a < P * (a \div P) + P
  BY Z3

LEMMA DivUnique ==
  ASSUME NEW P \in Nat \ {0}, NEW a \in Nat, NEW q \in Nat, q * P <= a, a < q * P + P
  PROVE  a \div P = q
  BY Z3

LEMMA TimesOrder ==
  ASSUME NEW P \in Nat \ {0}, NEW a \in Int, NEW b \in Int
  PROVE  /\ a * P < b * P => a < b
         /\ a <= b => a * P <= b * P
         /\ a * P \in Int
         /\ (a + 1) * P = a * P + P
         /\ (a + b) * P = a * P + b * P
  BY Z3

LEMMA PowerOrder ==
  ASSUME NEW l \in Nat, NEW m \in Nat, l <= m
  PROVE  2^l <= 2^m
<1>1. PICK c \in Nat \ {0} : 2^m = c * 2^l
  BY PowerMultiple
<1>2. 2^l \in Nat \ {0}
  BY PowerPositive
<1>3. 1 * 2^l <= c * 2^l
  BY <1>2, TimesOrder
<1> QED BY <1>1, <1>2, <1>3

-----------------------------------------------------------------------------
(* Blocks of a page: x is the unit where one starts, and its level.         *)

Covers(x, u) == x[1] <= u /\ u < x[1] + 2^(x[2])

IsBlock(x) ==
  /\ x \in Nat \X Levels
  /\ Merged(x[1], x[2]) = x[1]
  /\ x[1] + 2^(x[2]) <= Units

LEMMA LevelFacts ==
  /\ nlevel \in Nat \ {0} /\ Levels \subseteq Nat /\ nlevel - 1 \in Levels /\ nlevel - 1 \in Nat
  /\ Units \in Nat \ {0} /\ Units = 2^(nlevel - 1)
  /\ align \in Nat \ {0}
  /\ \A l \in Levels : l <= nlevel - 1
<1>1. nlevel \in Nat \ {0} /\ align \in Nat \ {0}
  BY BuddyAllocatorAssumption
<1>2. nlevel - 1 \in Nat
  BY <1>1
<1> QED BY <1>1, <1>2, PowerPositive DEF Levels, Units

(* The block of a level in which a unit lies. *)
LEMMA MergedCovers ==
  ASSUME NEW u \in Nat, NEW l \in Nat
  PROVE  /\ Merged(u, l) \in Nat
         /\ Merged(u, l) <= u /\ u < Merged(u, l) + 2^l
         /\ Merged(Merged(u, l), l) = Merged(u, l)
<1> DEFINE P == 2^l
           q == u \div P
<1>1. P \in Nat \ {0}
  BY PowerPositive
<1>2. q \in Nat /\ P * q <= u /\ u < P * q + P
  BY <1>1, BlockOf
<1>3. q * P = P * q /\ q * P \in Nat
  BY <1>1, <1>2
<1>4. (q * P) \div P = q
  BY <1>1, <1>2, <1>3, DivUnique
<1> QED BY <1>1, <1>2, <1>3, <1>4 DEF Merged

LEMMA MergedUnique ==
  ASSUME NEW u \in Nat, NEW l \in Nat, NEW i \in Nat, Merged(i, l) = i, i <= u, u < i + 2^l
  PROVE  Merged(u, l) = i
<1> DEFINE P == 2^l
           q == i \div P
<1>1. P \in Nat \ {0}
  BY PowerPositive
<1>2. q \in Nat /\ q * P = i
  BY <1>1, BlockOf DEF Merged
<1>3. u \div P = q
  <2>1. q * P <= u /\ u < q * P + P
    BY <1>2
  <2> HIDE DEF P, q
  <2> QED BY <1>1, <1>2, <2>1, DivUnique
<1> QED BY <1>2, <1>3 DEF Merged

(* A block lies in the block of each higher level in which its first unit   *)
(* lies.                                                                    *)
LEMMA MergedUp ==
  ASSUME NEW u \in Nat, NEW l \in Nat, NEW m \in Nat, l <= m
  PROVE  /\ Merged(u, m) <= Merged(u, l)
         /\ Merged(u, l) + 2^l <= Merged(u, m) + 2^m
         /\ Merged(Merged(u, l), m) = Merged(u, m)
<1> DEFINE P == 2^l
           r == u \div P
           q == u \div 2^m
<1>1. P \in Nat \ {0} /\ 2^m \in Nat \ {0}
  BY PowerPositive
<1>2. PICK c \in Nat \ {0} : 2^m = c * P
  BY PowerMultiple
<1>3. /\ r \in Nat /\ q \in Nat /\ r * P \in Nat /\ r * P <= u /\ u < r * P + P
      /\ q * 2^m \in Nat /\ q * 2^m <= u /\ u < q * 2^m + 2^m
  <2>1. r \in Nat /\ P * r <= u /\ u < P * r + P
    BY <1>1, BlockOf
  <2>2. q \in Nat /\ 2^m * q <= u /\ u < 2^m * q + 2^m
    BY <1>1, BlockOf
  <2>3. P * r = r * P /\ 2^m * q = q * 2^m /\ r * P \in Nat /\ q * 2^m \in Nat
    BY <1>1, <2>1, <2>2
  <2> QED BY <2>1, <2>2, <2>3
<1>4. q * 2^m = (q * c) * P /\ q * c \in Nat /\ q * 2^m + 2^m = (q * c + c) * P
  <2> HIDE DEF q, P
  <2>1. q * (c * P) = (q * c) * P /\ q * c \in Nat
    BY <1>1, <1>2, <1>3, Z3
  <2>2. (q * c + c) * P = (q * c) * P + c * P
    BY <1>1, <1>2, <2>1, TimesOrder
  <2> QED BY <1>2, <2>1, <2>2
<1>5. q * c < r + 1 /\ r < q * c + c
  <2> HIDE DEF q, r, P
  <2>1. (q * c) * P < (r + 1) * P
    BY <1>1, <1>3, <1>4, TimesOrder
  <2>2. r * P < (q * c + c) * P
    BY <1>1, <1>3, <1>4
  <2>3. q * c \in Int /\ r + 1 \in Int /\ q * c + c \in Int /\ r \in Int
    BY <1>2, <1>3, <1>4
  <2> QED BY <1>1, <2>1, <2>2, <2>3, TimesOrder
<1>6. (q * c) * P <= r * P /\ (r + 1) * P <= (q * c + c) * P /\ (r + 1) * P = r * P + P
  <2> HIDE DEF q, r, P
  <2>1. q * c <= r /\ r + 1 <= q * c + c
    BY <1>2, <1>3, <1>4, <1>5
  <2>2. q * c \in Int /\ r + 1 \in Int /\ q * c + c \in Int /\ r \in Int
    BY <1>2, <1>3, <1>4
  <2> QED BY <1>1, <2>1, <2>2, TimesOrder
<1>7. q * 2^m <= r * P /\ r * P + P <= q * 2^m + 2^m
  BY <1>4, <1>6
<1>8. (r * P) \div 2^m = q
  <2> HIDE DEF q, r, P
  <2>1. r * P < q * 2^m + 2^m
    BY <1>1, <1>3, <1>7
  <2> QED BY <1>1, <1>3, <1>7, <2>1, DivUnique
<1> QED BY <1>7, <1>8 DEF Merged

(* The two halves of a block. *)
LEMMA PartnerOf ==
  ASSUME NEW l \in Nat, NEW i \in Nat, Merged(i, l) = i
  PROVE  /\ get_partner(i, l) \in Nat
         /\ get_partner(i, l) # i
         /\ Merged(get_partner(i, l), l) = get_partner(i, l)
         /\ get_partner(get_partner(i, l), l) = i
         /\ Merged(get_partner(i, l), l + 1) = Merged(i, l + 1)
         /\ \/ i = Merged(i, l + 1) /\ get_partner(i, l) = Merged(i, l + 1) + 2^l
            \/ i = Merged(i, l + 1) + 2^l /\ get_partner(i, l) = Merged(i, l + 1)
         /\ 2^(l + 1) = 2^l + 2^l
<1> DEFINE P == 2^l
           q == i \div P
           k == q \div 2
<1>1. P \in Nat \ {0} /\ 2^(l + 1) = P + P /\ P + P \in Nat \ {0}
  <2>1. P \in Nat \ {0} /\ 2^(l + 1) = 2 * P
    BY PowerPositive, PowerNext
  <2> QED BY <2>1
<1>2. q \in Nat /\ q * P = i
  BY <1>1, BlockOf DEF Merged
<1>3. k \in Nat /\ (q = 2 * k \/ q = 2 * k + 1) /\ (q % 2 = 0 <=> q = 2 * k)
  <2> HIDE DEF q
  <2> QED BY <1>2
<1> DEFINE a == k * (P + P)
<1>4. a \in Nat /\ (2 * k) * P = a /\ (2 * k + 1) * P = a + P
  <2> HIDE DEF P, k
  <2>1. a \in Nat /\ (2 * k) * P = a
    BY <1>1, <1>3, Z3
  <2>2. 2 * k \in Int
    BY <1>3
  <2> QED BY <1>1, <2>1, <2>2, TimesOrder
<1> HIDE DEF P, q, k
<1>5. a \div P = 2 * k /\ (a + P) \div P = 2 * k + 1
  <2>1. a \div P = 2 * k
    <3>1. (2 * k) * P <= a /\ a < (2 * k) * P + P /\ 2 * k \in Nat
      BY <1>1, <1>3, <1>4
    <3> HIDE DEF a
    <3> QED BY <1>1, <1>4, <3>1, DivUnique
  <2>2. (a + P) \div P = 2 * k + 1
    <3>1. /\ (2 * k + 1) * P <= a + P /\ a + P < (2 * k + 1) * P + P
          /\ 2 * k + 1 \in Nat /\ a + P \in Nat
      BY <1>1, <1>3, <1>4
    <3> HIDE DEF a
    <3> QED BY <1>1, <3>1, DivUnique
  <2> QED BY <2>1, <2>2
<1>6. a \div (P + P) = k /\ (a + P) \div (P + P) = k
  <2>1. k * (P + P) <= a /\ a < k * (P + P) + (P + P) /\ a + P < k * (P + P) + (P + P)
        /\ k * (P + P) <= a + P /\ a + P \in Nat
    BY <1>1, <1>4
  <2>2. P + P \in Nat \ {0} /\ k \in Nat /\ a \in Nat
    BY <1>1, <1>3, <1>4
  <2> DEFINE R == P + P
             b == a + P
  <2>3. R \in Nat \ {0} /\ b \in Nat /\ k * R <= a /\ a < k * R + R /\ k * R <= b /\ b < k * R + R
    BY <2>1, <2>2
  <2> HIDE DEF a, R, b
  <2>4. a \div R = k /\ b \div R = k
    BY <2>2, <2>3, DivUnique
  <2> QED BY <2>4 DEF R, b
<1>7. /\ Merged(a, l + 1) = a /\ Merged(a + P, l + 1) = a
      /\ Merged(a, l) = a /\ Merged(a + P, l) = a + P
  <2> HIDE DEF a
  <2>1. 2^l = P
    BY DEF P
  <2>2. Merged(a, l) = (a \div P) * P /\ Merged(a + P, l) = ((a + P) \div P) * P
    BY <2>1 DEF Merged
  <2>3. Merged(a, l + 1) = (a \div (P + P)) * (P + P) /\ Merged(a + P, l + 1) = ((a + P) \div (P + P)) * (P + P)
    BY <1>1 DEF Merged
  <2> QED BY <1>4, <1>5, <1>6, <2>2, <2>3 DEF a
<1>8. get_partner(a, l) = a + P /\ get_partner(a + P, l) = a
  <2> HIDE DEF a
  <2>1. 2^l = P
    BY DEF P
  <2>2. (2 * k) % 2 = 0 /\ (2 * k + 1) % 2 = 1
    BY <1>3
  <2> QED BY <1>1, <1>4, <1>5, <2>1, <2>2 DEF get_partner
<1>9. CASE i = a
  BY <1>1, <1>4, <1>7, <1>8, <1>9 DEF P
<1>10. CASE i = a + P
  <2> HIDE DEF a
  <2> QED BY <1>1, <1>4, <1>7, <1>8, <1>10 DEF P
<1> QED BY <1>2, <1>3, <1>4, <1>9, <1>10

(* A block that ends in the page is in a block of each higher level that    *)
(* does.                                                                    *)
LEMMA MergedInPage ==
  ASSUME NEW u \in 0..(Units - 1), NEW l \in Levels
  PROVE  IsBlock(<<Merged(u, l), l>>)
<1>1. u \in Nat /\ l \in Nat /\ l <= nlevel - 1 /\ nlevel - 1 \in Nat /\ Units = 2^(nlevel - 1)
      /\ Units \in Nat
  BY LevelFacts
<1>2. Merged(u, l) + 2^l <= Merged(u, nlevel - 1) + Units
  BY <1>1, MergedUp
<1>3. Merged(u, nlevel - 1) = 0
  <2>1. Merged(0, nlevel - 1) = 0
    <3>1. Merged(0, nlevel - 1) \in Nat /\ Merged(0, nlevel - 1) <= 0
      BY <1>1, MergedCovers
    <3> QED BY <3>1
  <2>2. 0 <= u /\ u < 0 + 2^(nlevel - 1) /\ 0 \in Nat
    BY <1>1
  <2> QED BY <1>1, <2>1, <2>2, MergedUnique
<1>4. Merged(u, l) \in Nat /\ Merged(Merged(u, l), l) = Merged(u, l)
  BY <1>1, MergedCovers
<1>5. Merged(u, l) + 2^l <= Units
  BY <1>1, <1>2, <1>3
<1> QED BY <1>4, <1>5 DEF IsBlock

LEMMA BlockFacts ==
  ASSUME NEW x, IsBlock(x)
  PROVE  /\ x = <<x[1], x[2]>> /\ x[1] \in Nat /\ x[2] \in Levels /\ x[2] \in Nat
         /\ Merged(x[1], x[2]) = x[1]
         /\ 2^(x[2]) \in Nat \ {0}
         /\ x[1] \in 0..(Units - 1)
         /\ Covers(x, x[1])
         /\ \A u \in Nat : Covers(x, u) <=> Merged(u, x[2]) = x[1]
         /\ \A u \in Nat : Covers(x, u) => u \in 0..(Units - 1)
<1>1. /\ x = <<x[1], x[2]>> /\ x[1] \in Nat /\ x[2] \in Levels /\ x[2] \in Nat
      /\ Merged(x[1], x[2]) = x[1] /\ x[1] + 2^(x[2]) <= Units
  <2>1. x \in Nat \X Levels /\ Merged(x[1], x[2]) = x[1] /\ x[1] + 2^(x[2]) <= Units
    BY DEF IsBlock
  <2>2. x = <<x[1], x[2]>> /\ x[1] \in Nat /\ x[2] \in Levels
    BY <2>1
  <2> QED BY <2>1, <2>2, LevelFacts
<1>2. 2^(x[2]) \in Nat \ {0} /\ Units \in Nat
  BY <1>1, PowerPositive, LevelFacts
<1>3. x[1] \in 0..(Units - 1) /\ Covers(x, x[1])
  BY <1>1, <1>2 DEF Covers
<1>4. ASSUME NEW u \in Nat, Covers(x, u)
      PROVE  Merged(u, x[2]) = x[1] /\ u \in 0..(Units - 1)
  <2>1. x[1] <= u /\ u < x[1] + 2^(x[2])
    BY <1>4 DEF Covers
  <2>2. u \in 0..(Units - 1)
    BY <1>1, <1>2, <2>1
  <2> QED BY <1>1, <2>1, <2>2, MergedUnique
<1>5. ASSUME NEW u \in Nat, Merged(u, x[2]) = x[1]
      PROVE  Covers(x, u)
  BY <1>1, <1>5, MergedCovers DEF Covers
<1> QED BY <1>1, <1>2, <1>3, <1>4, <1>5

(* The blocks that a block at level top is split into when one of level lv  *)
(* is taken from it, and that are merged when that one is given back.       *)
Chain(idx, lv, top) ==
  {<<idx, lv>>} \cup {<<get_partner(Merged(idx, l), l), l>> : l \in lv..(top - 1)}

LEMMA LinkFacts ==
  ASSUME NEW idx \in 0..(Units - 1), NEW top \in Levels, NEW l \in Nat, l < top
  PROVE  LET i == Merged(idx, l)
             j == get_partner(i, l)
             m == Merged(idx, l + 1)
         IN /\ IsBlock(<<i, l>>) /\ IsBlock(<<j, l>>) /\ IsBlock(<<m, l + 1>>)
            /\ l \in Levels /\ l + 1 \in Levels
            /\ \A u \in Nat : Covers(<<m, l + 1>>, u) <=> (Covers(<<i, l>>, u) \/ Covers(<<j, l>>, u))
            /\ \A u \in Nat : ~ (Covers(<<i, l>>, u) /\ Covers(<<j, l>>, u))
<1> DEFINE i == Merged(idx, l)
           j == get_partner(i, l)
           m == Merged(idx, l + 1)
           P == 2^l
<1>1. l \in Levels /\ l + 1 \in Levels /\ l + 1 \in Nat /\ idx \in Nat
  BY LevelFacts DEF Levels
<1>2. IsBlock(<<i, l>>) /\ IsBlock(<<m, l + 1>>)
  BY <1>1, MergedInPage
<1>3. i \in Nat /\ Merged(i, l) = i
  BY <1>1, MergedCovers
<1>4. m \in Nat /\ Merged(i, l + 1) = m
  <2>1. l <= l + 1
    OBVIOUS
  <2>2. m \in Nat
    BY <1>1, MergedCovers
  <2> QED BY <1>1, <2>1, <2>2, MergedUp
<1>5. /\ j \in Nat /\ Merged(j, l) = j
      /\ (i = m /\ j = m + P) \/ (i = m + P /\ j = m)
      /\ 2^(l + 1) = P + P
  <2> HIDE DEF i, m
  <2> QED BY <1>3, <1>4, PartnerOf
<1>6. P \in Nat \ {0} /\ m + (P + P) <= Units /\ Units \in Nat
  <2>1. m + 2^(l + 1) <= Units
    BY <1>2 DEF IsBlock
  <2> QED BY <1>5, <2>1, PowerPositive, LevelFacts
<1> HIDE DEF i, j, m, P
<1>7. IsBlock(<<j, l>>)
  <2>1. j + P <= Units
    BY <1>4, <1>5, <1>6
  <2> QED BY <1>1, <1>5, <2>1 DEF IsBlock, P
<1>8. ASSUME NEW u \in Nat
      PROVE  /\ Covers(<<m, l + 1>>, u) <=> (Covers(<<i, l>>, u) \/ Covers(<<j, l>>, u))
             /\ ~ (Covers(<<i, l>>, u) /\ Covers(<<j, l>>, u))
  <2>1. /\ Covers(<<m, l + 1>>, u) <=> m <= u /\ u < m + (P + P)
        /\ Covers(<<i, l>>, u) <=> i <= u /\ u < i + P
        /\ Covers(<<j, l>>, u) <=> j <= u /\ u < j + P
    BY <1>5 DEF Covers, P
  <2> QED BY <1>4, <1>5, <1>6, <2>1
<1> QED BY <1>1, <1>2, <1>7, <1>8 DEF i, j, m

LEMMA ChainCovers ==
  ASSUME NEW idx \in Nat, NEW lv \in Levels, IsBlock(<<idx, lv>>), NEW top \in Levels, lv <= top
  PROVE  /\ \A x \in Chain(idx, lv, top) : IsBlock(x)
         /\ \A u \in Nat : Covers(<<Merged(idx, top), top>>, u)
                             <=> \E x \in Chain(idx, lv, top) : Covers(x, u)
         /\ \A x, y \in Chain(idx, lv, top) : \A u \in Nat : Covers(x, u) /\ Covers(y, u) => x = y
<1>1. /\ idx \in 0..(Units - 1) /\ lv \in Nat /\ top \in Nat /\ Merged(idx, lv) = idx
      /\ \A n \in lv..top : n \in Levels /\ n \in Nat
  BY BlockFacts, LevelFacts DEF Levels
<1> DEFINE link(l) == <<get_partner(Merged(idx, l), l), l>>
           whole(n) == <<Merged(idx, n), n>>
<1>2. ASSUME NEW l \in lv..(top - 1)
      PROVE  /\ IsBlock(link(l)) /\ IsBlock(whole(l)) /\ IsBlock(whole(l + 1))
             /\ \A u \in Nat : Covers(whole(l + 1), u) <=> (Covers(whole(l), u) \/ Covers(link(l), u))
             /\ \A u \in Nat : ~ (Covers(whole(l), u) /\ Covers(link(l), u))
  <2>1. l \in Nat /\ l < top
    BY <1>1
  <2> QED BY <1>1, <2>1, LinkFacts
<1>3. whole(lv) = <<idx, lv>>
  BY <1>1
<1>4. ASSUME NEW k \in lv..top, NEW n \in lv..top, k <= n, NEW u \in Nat, Covers(whole(k), u)
      PROVE  Covers(whole(n), u)
  <2>1. IsBlock(whole(k)) /\ IsBlock(whole(n))
    BY <1>1, MergedInPage
  <2>2. Merged(u, k) = Merged(idx, k)
    BY <1>4, <2>1, BlockFacts
  <2>3. Merged(Merged(u, k), n) = Merged(u, n) /\ Merged(Merged(idx, k), n) = Merged(idx, n)
    BY <1>1, <1>4, MergedUp
  <2> QED BY <2>1, <2>2, <2>3, BlockFacts
<1> HIDE DEF link, whole
<1>5. Chain(idx, lv, top) = {whole(lv)} \cup {link(l) : l \in lv..(top - 1)}
  BY <1>3 DEF Chain, link
<1>6. \A x \in Chain(idx, lv, top) : IsBlock(x)
  <2>1. IsBlock(whole(lv))
    BY <1>3
  <2> QED BY <1>2, <1>5, <2>1
<1>7. ASSUME NEW u \in Nat, NEW x \in Chain(idx, lv, top), Covers(x, u)
      PROVE  Covers(whole(top), u)
  <2>1. CASE x = whole(lv)
    BY <1>1, <1>4, <1>7, <2>1
  <2>2. CASE \E l \in lv..(top - 1) : x = link(l)
    <3>1. PICK l \in lv..(top - 1) : x = link(l)
      BY <2>2
    <3>2. Covers(whole(l + 1), u) /\ l + 1 \in lv..top /\ l + 1 <= top /\ top \in lv..top
      BY <1>1, <1>2, <1>7, <3>1
    <3> QED BY <1>4, <3>2
  <2> QED BY <1>5, <2>1, <2>2
<1>8. ASSUME NEW u \in Nat, Covers(whole(top), u)
      PROVE  \E x \in Chain(idx, lv, top) : Covers(x, u)
  <2> DEFINE T == {n \in lv..top : Covers(whole(n), u)}
  <2>1. T \in SUBSET Nat /\ top \in T
    BY <1>1, <1>8
  <2>2. PICK n \in T : \A k \in T : n <= k
    BY <2>1, Smallest
  <2>3. CASE n = lv
    BY <1>5, <2>2, <2>3
  <2>4. CASE n # lv
    <3>1. n - 1 \in lv..(top - 1) /\ n - 1 \notin T /\ n - 1 \in lv..top /\ (n - 1) + 1 = n
      BY <1>1, <2>2, <2>4
    <3>2. ~ Covers(whole(n - 1), u)
      BY <3>1
    <3>3. Covers(whole((n - 1) + 1), u)
      BY <2>2, <3>1
    <3>4. Covers(link(n - 1), u)
      BY <1>2, <3>1, <3>2, <3>3
    <3> QED BY <1>5, <3>1, <3>4
  <2> QED BY <2>3, <2>4
<1>9. ASSUME NEW u \in Nat, NEW k \in lv..(top - 1), NEW n \in lv..(top - 1), k < n,
             Covers(link(k), u), Covers(link(n), u)
      PROVE  FALSE
  <2>1. Covers(whole(k + 1), u)
    BY <1>2, <1>9
  <2>2. k + 1 \in lv..top /\ n \in lv..top /\ k + 1 <= n
    BY <1>1, <1>9
  <2>3. Covers(whole(n), u)
    BY <1>4, <2>1, <2>2
  <2> QED BY <1>2, <1>9, <2>3
<1>10. ASSUME NEW u \in Nat, NEW n \in lv..(top - 1), Covers(whole(lv), u), Covers(link(n), u)
       PROVE  FALSE
  <2>1. lv \in lv..top /\ n \in lv..top /\ lv <= n
    BY <1>1
  <2>2. Covers(whole(n), u)
    BY <1>4, <1>10, <2>1
  <2> QED BY <1>2, <1>10, <2>2
<1>11. ASSUME NEW x \in Chain(idx, lv, top), NEW y \in Chain(idx, lv, top), NEW u \in Nat,
              Covers(x, u), Covers(y, u)
       PROVE  x = y
  <2>1. CASE x = whole(lv) /\ y = whole(lv)
    BY <2>1
  <2>2. CASE x = whole(lv) /\ \E n \in lv..(top - 1) : y = link(n)
    BY <1>10, <1>11, <2>2
  <2>3. CASE y = whole(lv) /\ \E n \in lv..(top - 1) : x = link(n)
    BY <1>10, <1>11, <2>3
  <2>4. CASE \E k, n \in lv..(top - 1) : x = link(k) /\ y = link(n)
    <3>1. PICK k \in lv..(top - 1), n \in lv..(top - 1) : x = link(k) /\ y = link(n)
      BY <2>4
    <3>2. ~ (k < n) /\ ~ (n < k)
      BY <1>9, <1>11, <3>1
    <3>3. k = n
      BY <1>1, <3>2
    <3> QED BY <3>1, <3>3
  <2> QED BY <1>5, <2>1, <2>2, <2>3, <2>4
<1>12. whole(top) = <<Merged(idx, top), top>>
  BY DEF whole
<1> QED BY <1>6, <1>7, <1>8, <1>11, <1>12

(* A page is tiled by its blocks: each unit is in one of them. *)
Tiling(T) ==
  /\ \A x \in T : IsBlock(x)
  /\ \A x, y \in T : \A u \in Nat : Covers(x, u) /\ Covers(y, u) => x = y
  /\ \A u \in 0..(Units - 1) : \E x \in T : Covers(x, u)

LEMMA Retiled ==
  ASSUME NEW T, Tiling(T), NEW S, S \subseteq T, NEW R, \A x \in R : IsBlock(x),
         \A x, y \in R : \A u \in Nat : Covers(x, u) /\ Covers(y, u) => x = y,
         \A u \in Nat : (\E x \in S : Covers(x, u)) <=> (\E x \in R : Covers(x, u))
  PROVE  Tiling((T \ S) \cup R) /\ R \cap (T \ S) = {}
<1> DEFINE N == (T \ S) \cup R
<1>1. \A x \in N : IsBlock(x)
  BY DEF Tiling
<1>2. ASSUME NEW x \in T \ S, NEW y \in R, NEW u \in Nat, Covers(x, u), Covers(y, u)
      PROVE  FALSE
  <2>1. PICK z \in S : Covers(z, u)
    BY <1>2
  <2>2. x = z
    BY <1>2, <2>1 DEF Tiling
  <2> QED BY <1>2, <2>1, <2>2
<1>3. \A x, y \in N : \A u \in Nat : Covers(x, u) /\ Covers(y, u) => x = y
  BY <1>2 DEF Tiling
<1>4. ASSUME NEW u \in 0..(Units - 1)
      PROVE  \E x \in N : Covers(x, u)
  <2>1. u \in Nat
    OBVIOUS
  <2>2. PICK x \in T : Covers(x, u)
    BY DEF Tiling
  <2>3. CASE x \in S
    BY <2>1, <2>2, <2>3
  <2>4. CASE x \notin S
    BY <2>2, <2>4
  <2> QED BY <2>3, <2>4
<1>5. R \cap (T \ S) = {}
  <2> SUFFICES ASSUME NEW x \in R, x \in T \ S
               PROVE  FALSE
    OBVIOUS
  <2>1. x[1] \in Nat /\ Covers(x, x[1])
    BY BlockFacts
  <2> QED BY <1>2, <2>1
<1> QED BY <1>1, <1>3, <1>4, <1>5 DEF Tiling

-----------------------------------------------------------------------------
(* Free lists.                                                              *)

NoRepeat(s) == \A m, n \in DOMAIN s : s[m] = s[n] => m = n

LEMMA ListHead ==
  ASSUME NEW s \in Seq(Nat), s # <<>>, NoRepeat(s)
  PROVE  /\ Head(s) \in Range(s) /\ Head(s) \in Nat
         /\ Tail(s) \in Seq(Nat) /\ NoRepeat(Tail(s))
         /\ Range(Tail(s)) = Range(s) \ {Head(s)}
<1>1. /\ Len(s) \in Nat /\ Len(s) # 0 /\ DOMAIN s = 1..Len(s) /\ Head(s) = s[1]
      /\ \A n \in 1..Len(s) : s[n] \in Nat
  BY EmptySeq, LenProperties
<1>2. /\ Tail(s) \in Seq(Nat) /\ DOMAIN Tail(s) = 1..(Len(s) - 1)
      /\ \A n \in 1..(Len(s) - 1) : Tail(s)[n] = s[n + 1]
  BY <1>1, HeadTailProperties, LenProperties
<1>3. 1 \in DOMAIN s
  BY <1>1
<1>4. NoRepeat(Tail(s))
  <2> SUFFICES ASSUME NEW m \in 1..(Len(s) - 1), NEW n \in 1..(Len(s) - 1), s[m + 1] = s[n + 1]
               PROVE  m = n
    BY <1>2 DEF NoRepeat
  <2>1. m + 1 \in DOMAIN s /\ n + 1 \in DOMAIN s
    BY <1>1
  <2>2. m + 1 = n + 1
    BY <2>1 DEF NoRepeat
  <2> QED BY <1>1, <2>2
<1>5. ASSUME NEW v \in Range(Tail(s))
      PROVE  v \in Range(s) /\ v # Head(s)
  <2>1. PICK n \in 1..(Len(s) - 1) : v = s[n + 1]
    BY <1>2 DEF Range
  <2>2. n + 1 \in DOMAIN s /\ n + 1 # 1
    BY <1>1
  <2> QED BY <1>1, <1>3, <2>1, <2>2 DEF Range, NoRepeat
<1>6. ASSUME NEW v \in Range(s), v # Head(s)
      PROVE  v \in Range(Tail(s))
  <2>1. PICK n \in DOMAIN s : v = s[n]
    BY DEF Range
  <2>2. n - 1 \in 1..(Len(s) - 1) /\ (n - 1) + 1 = n
    BY <1>1, <1>6, <2>1
  <2>3. v = Tail(s)[n - 1]
    BY <1>2, <2>1, <2>2
  <2> QED BY <1>2, <2>2, <2>3 DEF Range
<1> QED BY <1>1, <1>2, <1>3, <1>4, <1>5, <1>6 DEF Range

LEMMA ListPut ==
  ASSUME NEW s \in Seq(Nat), NEW v \in Nat, v \notin Range(s), NoRepeat(s)
  PROVE  /\ <<v>> \o s \in Seq(Nat) /\ NoRepeat(<<v>> \o s)
         /\ Range(<<v>> \o s) = Range(s) \cup {v}
<1> DEFINE r == <<v>> \o s
<1>1. Len(s) \in Nat /\ DOMAIN s = 1..Len(s) /\ <<v>> \in Seq(Nat) /\ Len(<<v>>) = 1
  BY LenProperties
<1>2. /\ r \in Seq(Nat) /\ DOMAIN r = 1..(Len(s) + 1) /\ r[1] = v
      /\ \A n \in 2..(Len(s) + 1) : r[n] = s[n - 1]
  <2>1. r \in Seq(Nat) /\ Len(r) = 1 + Len(s)
    BY <1>1, ConcatProperties
  <2>2. DOMAIN r = 1..(Len(s) + 1)
    BY <1>1, <2>1, LenProperties
  <2>3. \A n \in 1..(Len(s) + 1) : r[n] = IF n <= 1 THEN <<v>>[n] ELSE s[n - 1]
    BY <1>1, ConcatProperties
  <2>4. r[1] = v
    BY <1>1, <2>3
  <2>5. \A n \in 2..(Len(s) + 1) : r[n] = s[n - 1]
    BY <1>1, <2>3
  <2> QED BY <2>1, <2>2, <2>4, <2>5
<1> HIDE DEF r
<1>3. \A n \in DOMAIN r : n = 1 \/ (n \in 2..(Len(s) + 1) /\ n - 1 \in DOMAIN s /\ n \in Int)
  BY <1>1, <1>2
<1>4. \A n \in DOMAIN s : n + 1 \in 2..(Len(s) + 1) /\ n + 1 \in DOMAIN r /\ r[n + 1] = s[n]
  <2> SUFFICES ASSUME NEW n \in DOMAIN s
               PROVE  n + 1 \in 2..(Len(s) + 1) /\ n + 1 \in DOMAIN r /\ r[n + 1] = s[n]
    OBVIOUS
  <2>1. n \in 1..Len(s)
    BY <1>1
  <2>2. n + 1 \in 2..(Len(s) + 1) /\ n + 1 \in 1..(Len(s) + 1) /\ (n + 1) - 1 = n
    BY <1>1, <2>1
  <2>3. r[n + 1] = s[(n + 1) - 1]
    BY <1>2, <2>2
  <2> QED BY <1>2, <2>2, <2>3
<1>5. NoRepeat(r)
  <2> SUFFICES ASSUME NEW m \in DOMAIN r, NEW n \in DOMAIN r, r[m] = r[n]
               PROVE  m = n
    BY DEF NoRepeat
  <2>1. CASE m = 1 /\ n = 1
    BY <2>1
  <2>2. CASE m = 1 /\ n # 1
    BY <1>2, <1>3, <2>2 DEF Range
  <2>3. CASE m # 1 /\ n = 1
    BY <1>2, <1>3, <2>3 DEF Range
  <2>4. CASE m # 1 /\ n # 1
    <3>1. m - 1 \in DOMAIN s /\ n - 1 \in DOMAIN s /\ s[m - 1] = s[n - 1] /\ m \in Int /\ n \in Int
      BY <1>2, <1>3, <2>4
    <3>2. m - 1 = n - 1
      BY <3>1 DEF NoRepeat
    <3> QED BY <3>1, <3>2
  <2> QED BY <2>1, <2>2, <2>3, <2>4
<1>6. Range(r) = Range(s) \cup {v}
  <2>1. ASSUME NEW w \in Range(r)
        PROVE  w \in Range(s) \cup {v}
    <3>1. PICK n \in DOMAIN r : w = r[n]
      BY DEF Range
    <3>2. CASE n = 1
      BY <1>2, <3>1, <3>2
    <3>3. CASE n # 1
      <4>1. n \in 2..(Len(s) + 1) /\ n - 1 \in DOMAIN s
        BY <1>3, <3>1, <3>3
      <4> QED BY <1>2, <3>1, <4>1 DEF Range
    <3> QED BY <3>2, <3>3
  <2>2. v \in Range(r)
    BY <1>1, <1>2 DEF Range
  <2>3. Range(s) \subseteq Range(r)
    BY <1>4 DEF Range
  <2> QED BY <2>1, <2>2, <2>3
<1> QED BY <1>2, <1>5, <1>6 DEF r

LEMMA ListRemove ==
  ASSUME NEW s \in Seq(Nat), NEW v \in Range(s), NoRepeat(s)
  PROVE  /\ remove_from_free_list(s, v) \in Seq(Nat) /\ NoRepeat(remove_from_free_list(s, v))
         /\ Range(remove_from_free_list(s, v)) = Range(s) \ {v}
<1> DEFINE at == CHOOSE n \in DOMAIN s : s[n] = v
           r == remove_from_free_list(s, v)
<1>1. Len(s) \in Nat /\ DOMAIN s = 1..Len(s) /\ at \in DOMAIN s /\ s[at] = v
  BY LenProperties DEF Range
<1> DEFINE from(n) == IF n < at THEN n ELSE n + 1
<1>2. /\ r \in Seq(Nat) /\ DOMAIN r = 1..(Len(s) - 1)
      /\ \A n \in 1..(Len(s) - 1) : from(n) \in DOMAIN s /\ from(n) # at /\ r[n] = s[from(n)]
  <2>1. r = [n \in 1..(Len(s) - 1) |-> s[from(n)]]
    BY DEF remove_from_free_list
  <2> HIDE DEF at, r
  <2>2. \A n \in 1..(Len(s) - 1) : from(n) \in DOMAIN s /\ from(n) # at
    BY <1>1
  <2> HIDE DEF from
  <2>3. \A n \in 1..(Len(s) - 1) : s[from(n)] \in Nat
    BY <1>1, <2>2, ElementOfSeq
  <2>4. Len(s) - 1 \in Nat
    <3> HIDE DEF at
    <3> QED BY <1>1
  <2>5. r \in Seq(Nat)
    <3> DEFINE L == Len(s) - 1
    <3> HIDE DEF L
    <3>1. L \in Nat /\ \A n \in 1..L : s[from(n)] \in Nat
      BY <2>3, <2>4 DEF L
    <3>2. [n \in 1..L |-> s[from(n)]] \in Seq(Nat)
      BY <3>1, IsASeq
    <3> QED BY <2>1, <3>2 DEF L
  <2> QED BY <2>1, <2>2, <2>5
<1>3. \A m, n \in 1..(Len(s) - 1) : from(m) = from(n) => m = n
  <2> HIDE DEF at, r
  <2> QED BY <1>1
<1>4. ASSUME NEW k \in DOMAIN s, k # at
      PROVE  \E n \in 1..(Len(s) - 1) : from(n) = k
  <2> HIDE DEF at
  <2>1. CASE k < at
    <3>1. k \in 1..(Len(s) - 1) /\ from(k) = k
      BY <1>1, <2>1
    <3> QED BY <3>1
  <2>2. CASE k > at
    <3>1. k - 1 \in 1..(Len(s) - 1) /\ from(k - 1) = k
      BY <1>1, <2>2
    <3> QED BY <3>1
  <2> QED BY <1>1, <1>4, <2>1, <2>2
<1> HIDE DEF at, r, from
<1>5. NoRepeat(r)
  BY <1>2, <1>3 DEF NoRepeat
<1>6. Range(r) = Range(s) \ {v}
  <2>1. ASSUME NEW w \in Range(r)
        PROVE  w \in Range(s) /\ w # v
    BY <1>1, <1>2, <1>3, SMTT(20) DEF Range, NoRepeat
  <2>2. ASSUME NEW w \in Range(s), w # v
        PROVE  w \in Range(r)
    <3>1. PICK k \in DOMAIN s : w = s[k]
      BY DEF Range
    <3>2. PICK n \in 1..(Len(s) - 1) : from(n) = k
      BY <1>1, <1>4, <2>2, <3>1
    <3> QED BY <1>2, <1>3, <3>1, <3>2 DEF Range
  <2> QED BY <2>1, <2>2
<1> QED BY <1>2, <1>5, <1>6 DEF r

-----------------------------------------------------------------------------
(* The inductive invariant.                                                 *)

Free(p) == {x \in Nat \X Levels : x[1] \in Range(p.free[x[2]])}

Place(p, a) == <<(a.ptr - p.base) \div p.min, sz_to_level(p, a.sz)>>
On(p, L) == {a \in L : Inside(a, p)}
Held(p, L) == {Place(p, a) : a \in On(p, L)}

Pages == [min : Nat \ {0}, size : Nat, base : Nat, free : [Levels -> Seq(Nat)]]
PageOK(p) ==
  /\ p \in Pages
  /\ p.size = p.min * Units
  /\ p.min % align = 0
  /\ \A l \in Levels : NoRepeat(p.free[l])

(* What is held on a page and what is free tile it, a holder starts where   *)
(* its block does, no two holders share one, and of two partners that are   *)
(* not the whole page at most one is free.                                  *)
PageInv(p, L) ==
  /\ PageOK(p)
  /\ \A a \in On(p, L) : a.ptr = p.base + Place(p, a)[1] * p.min /\ a.sz <= 2^(Place(p, a)[2]) * p.min
  /\ \A a, b \in On(p, L) : Place(p, a) = Place(p, b) => a = b
  /\ Tiling(Free(p) \cup Held(p, L))
  /\ Free(p) \cap Held(p, L) = {}
  /\ \A x \in Free(p) : x[2] < nlevel - 1 => <<get_partner(x[1], x[2]), x[2]>> \notin Free(p)

Live == [ptr : Nat, sz : Nat \ {0}]

Pool(ps, L) ==
  /\ ps \in Seq(Pages)
  /\ \A m, n \in DOMAIN ps : m # n => Apart(ps[m], ps[n])
  /\ L \in SUBSET Live
  /\ \A a \in L : \E n \in DOMAIN ps : Inside(a, ps[n])
  /\ \A n \in DOMAIN ps : PageInv(ps[n], L)

PoolInv == max_sz \in Nat \ {0} /\ Pool(pages, live)

(* What the code takes for granted of where its pages lie: a page that ends *)
(* above another starts is no more units of that one away than an int can   *)
(* count; and as a page sees it, the byte below it is so high a unit        *)
(* (Below), cut to an int, that counting down from there over a page below  *)
(* does not come to the units of the page itself.                           *)
Below(p) == ((AddrMod - 1) \div p.min) % IntMod

PagesNear ==
  \A n, m \in DOMAIN pages :
    LET p == pages[n]
        q == pages[m]
    IN /\ q.base + q.size <= AddrMod
       /\ q.base + q.size - p.base <= IntMod * p.min
       /\ p.base > q.base => Below(p) >= Units + (p.base - q.base) \div p.min + 1

-----------------------------------------------------------------------------
(* Levels and lists of a page.                                              *)

LEMMA MinOf ==
  ASSUME NEW T \in SUBSET Nat, T # {}
  PROVE  Min(T) \in T /\ Min(T) \in Nat /\ \A y \in T : Min(T) <= y
<1>1. \E x \in T : \A y \in T : x <= y
  BY Smallest
<1> QED BY <1>1 DEF Min

LEMMA MaxOf ==
  ASSUME NEW B \in Nat, NEW T \in SUBSET (0..B), T # {}
  PROVE  Max(T) \in T /\ Max(T) \in Nat /\ \A y \in T : y <= Max(T)
<1> DEFINE R == {n \in Nat : n <= B /\ B - n \in T}
<1>1. PICK t \in T : TRUE
  OBVIOUS
<1>2. B - t \in R
  BY <1>1
<1>3. PICK n \in R : \A y \in R : n <= y
  BY <1>2, Smallest
<1>4. \A y \in T : B - y \in R
  OBVIOUS
<1>5. B - n \in T /\ \A y \in T : y <= B - n
  BY <1>3, <1>4
<1>6. \E x \in T : \A y \in T : x >= y
  BY <1>5
<1>7. Max(T) \in T /\ \A y \in T : Max(T) >= y
  BY <1>6, Zenon DEF Max
<1>8. \A y \in T : y \in Nat
  OBVIOUS
<1> QED BY <1>7, <1>8

(* A size fits in a block of its level. *)
LEMMA LevelOf ==
  ASSUME NEW p, p.min \in Nat \ {0}, p.size = p.min * Units, NEW sz \in Nat, sz <= p.size
  PROVE  /\ sz_to_level(p, sz) \in 0..nlevel
         /\ sz <= 2^(sz_to_level(p, sz)) * p.min
<1> DEFINE m == p.min
           k == sz \div m
           T == {l \in 0..nlevel : k \div 2^l = 0}
           lv == sz_to_level(p, sz)
<1>1. m \in Nat \ {0} /\ Units \in Nat \ {0} /\ nlevel \in Nat \ {0} /\ p.size = Units * m
  BY LevelFacts
<1>2. Units < 2^nlevel /\ 2^nlevel \in Nat \ {0}
  <2>1. nlevel - 1 \in Nat /\ (nlevel - 1) + 1 = nlevel
    BY <1>1
  <2>2. 2^nlevel = 2 * 2^(nlevel - 1)
    BY <2>1, PowerNext
  <2>3. 2^nlevel \in Nat \ {0}
    BY <1>1, PowerPositive
  <2> QED BY <1>1, <2>2, <2>3, LevelFacts
<1> HIDE DEF m
<1>3. k \in Nat /\ k * m <= sz /\ sz < k * m + m
  BY <1>1, BlockOf
<1> HIDE DEF k
<1>4. k < 2^nlevel
  <2>1. k * m <= Units * m
    BY <1>1, <1>3 DEF m
  <2>2. k <= Units
    <3>1. CASE k <= Units
      BY <3>1
    <3>2. CASE Units + 1 <= k
      <4>1. (Units + 1) * m <= k * m /\ (Units + 1) * m = Units * m + m /\ Units * m \in Int /\ k * m \in Int
        BY <1>1, <1>3, <3>2, TimesOrder
      <4> QED BY <1>1, <2>1, <4>1
    <3> QED BY <1>1, <1>3, <3>1, <3>2
  <2> QED BY <1>1, <1>2, <1>3, <2>2
<1>5. k \div 2^nlevel = 0
  <2> DEFINE P == 2^nlevel
  <2>1. P \in Nat \ {0} /\ 0 * P <= k /\ k < 0 * P + P
    BY <1>2, <1>3, <1>4
  <2> HIDE DEF P
  <2>2. k \div P = 0
    BY <1>3, <2>1, DivUnique
  <2> QED BY <2>2 DEF P
<1>6. nlevel \in T /\ T \subseteq Nat
  BY <1>1, <1>5
<1>7. lv = Min(T)
  BY DEF sz_to_level, k, m
<1>8. lv \in T
  <2> HIDE DEF T, lv
  <2> QED BY <1>6, <1>7, MinOf
<1> HIDE DEF lv
<1>9. k < 2^lv /\ 2^lv \in Nat \ {0}
  <2> DEFINE P == 2^lv
  <2>1. lv \in Nat /\ k \div P = 0
    BY <1>1, <1>8
  <2>2. P \in Nat \ {0}
    BY <2>1, PowerPositive
  <2> HIDE DEF P
  <2>3. k < P
    BY <1>3, <2>1, <2>2, BlockOf
  <2> QED BY <2>2, <2>3 DEF P
<1>10. sz <= 2^lv * m
  <2> DEFINE P == 2^lv
  <2>1. P \in Nat \ {0} /\ k + 1 <= P
    BY <1>3, <1>9
  <2> HIDE DEF P
  <2>2. (k + 1) * m <= P * m /\ (k + 1) * m = k * m + m /\ k * m \in Int /\ P * m \in Int
    BY <1>1, <1>3, <2>1, TimesOrder
  <2>3. sz <= P * m
    <3> DEFINE A == k * m
               B == P * m
    <3>1. A + m <= B /\ A \in Int /\ B \in Int /\ sz < A + m
      BY <1>3, <2>2
    <3> HIDE DEF A, B
    <3>2. sz <= B
      BY <1>1, <3>1
    <3> QED BY <3>2 DEF B
  <2> QED BY <2>3 DEF P
<1> QED BY <1>8, <1>10 DEF lv, m

Links(b, lv, top) == {<<get_partner(Merged(b, l), l), l>> : l \in lv..(top - 1)}

(* A block starts a block of each lower level. *)
LEMMA MergedSame ==
  ASSUME NEW b \in Nat, NEW top \in Nat, Merged(b, top) = b, NEW l \in Nat, l <= top
  PROVE  Merged(b, l) = b
<1>1. Merged(b, top) <= Merged(b, l)
  BY MergedUp
<1>2. Merged(b, l) \in Nat /\ Merged(b, l) <= b
  BY MergedCovers
<1> QED BY <1>1, <1>2

LEMMA FreeOf ==
  ASSUME NEW p, NEW l \in Levels
  PROVE  \A i \in Nat : <<i, l>> \in Free(p) <=> i \in Range(p.free[l])
BY DEF Free

-----------------------------------------------------------------------------
(* Page::get_next_ptr and Page::mark_free on the free blocks of a page.     *)

FreeIsTiles(p) == \A x \in Free(p) : IsBlock(x)

WithLists(p, f) == [p EXCEPT !.free = f]

LEMMA NewLists ==
  ASSUME NEW p \in Pages, NEW f \in [Levels -> Seq(Nat)]
  PROVE  LET q == WithLists(p, f)
         IN q \in Pages /\ q.min = p.min /\ q.base = p.base /\ q.size = p.size /\ q.free = f
BY DEF Pages, WithLists

(* Taking a block of level lv: the block at the head of the lowest list     *)
(* that has one goes, and the right halves of its splits are free.          *)
LEMMA SplitPage ==
  ASSUME NEW p, PageOK(p), FreeIsTiles(p), NEW lv \in Levels, Sources(p, lv) # {},
         NEW top, top = Min(Sources(p, lv)), NEW b, b = NextBlock(p, lv),
         NEW q, q = get_next_ptr(p, lv)
  PROVE  /\ top \in Levels /\ lv <= top /\ b \in Nat
         /\ <<b, top>> \in Free(p) /\ IsBlock(<<b, top>>)
         /\ PageOK(q) /\ q.min = p.min /\ q.base = p.base /\ q.size = p.size
         /\ Free(q) = (Free(p) \ {<<b, top>>}) \cup Links(b, lv, top)
         /\ \A x \in Free(p) : x[2] \notin lv..(top - 1)
<1>1. /\ p \in Pages /\ Levels \subseteq Nat /\ nlevel - 1 \in Nat
      /\ \A l \in Levels : p.free[l] \in Seq(Nat) /\ NoRepeat(p.free[l])
  BY LevelFacts DEF PageOK, Pages
<1>2. Sources(p, lv) \subseteq Nat /\ Sources(p, lv) \subseteq Levels
  BY <1>1 DEF Sources, Levels
<1>3. /\ top \in Sources(p, lv) /\ top \in Levels /\ lv <= top /\ p.free[top] # <<>>
      /\ \A l \in Sources(p, lv) : top <= l
  <2>1. top \in Sources(p, lv) /\ \A l \in Sources(p, lv) : top <= l
    BY <1>2, MinOf
  <2>2. top \in lv..(nlevel - 1) /\ p.free[top] # <<>>
    BY <2>1 DEF Sources
  <2>3. lv \in Nat
    BY <1>1
  <2> QED BY <1>1, <1>2, <2>1, <2>2, <2>3
<1>4. \A l \in lv..(top - 1) : l \in Levels /\ l \in Nat /\ l < top /\ p.free[l] = <<>>
  <2> SUFFICES ASSUME NEW l \in lv..(top - 1)
               PROVE  l \in Levels /\ l \in Nat /\ l < top /\ p.free[l] = <<>>
    OBVIOUS
  <2>1. l \in Levels /\ l \in Nat /\ l < top /\ l \in lv..(nlevel - 1)
    BY <1>1, <1>3 DEF Levels
  <2>2. l \notin Sources(p, lv)
    BY <1>1, <1>3, <2>1
  <2> QED BY <2>1, <2>2 DEF Sources
<1>5. b = Head(p.free[top])
  BY DEF NextBlock
<1>6. /\ b \in Range(p.free[top]) /\ b \in Nat
      /\ Tail(p.free[top]) \in Seq(Nat) /\ NoRepeat(Tail(p.free[top]))
      /\ Range(Tail(p.free[top])) = Range(p.free[top]) \ {b}
  BY <1>1, <1>3, <1>5, ListHead
<1>7. <<b, top>> \in Free(p) /\ IsBlock(<<b, top>>)
  BY <1>3, <1>6 DEF Free, FreeIsTiles
<1>8. \A l \in lv..(top - 1) : Merged(b, l) = b /\ get_partner(b, l) \in Nat
  <2>1. Merged(b, top) = b
    BY <1>7 DEF IsBlock
  <2> SUFFICES ASSUME NEW l \in lv..(top - 1)
               PROVE  Merged(b, l) = b /\ get_partner(b, l) \in Nat
    OBVIOUS
  <2>2. l \in Nat /\ top \in Nat /\ l <= top
    <3>1. top \in Nat
      BY <1>1, <1>3
    <3>2. l \in Nat /\ l < top
      BY <1>4
    <3> QED BY <3>1, <3>2
  <2>3. Merged(b, l) = b
    BY <1>6, <2>1, <2>2, MergedSame
  <2> QED BY <1>6, <2>2, <2>3, PartnerOf
<1> DEFINE F(l) == IF l = top THEN Tail(p.free[l])
                   ELSE IF l \in lv..(top - 1) THEN <<get_partner(b, l)>>
                   ELSE p.free[l]
<1>9. q = [p EXCEPT !.free = [l \in Levels |-> F(l)]]
  BY DEF get_next_ptr
<1>10. \A l \in Levels : F(l) \in Seq(Nat) /\ NoRepeat(F(l))
  <2> SUFFICES ASSUME NEW l \in Levels
               PROVE  F(l) \in Seq(Nat) /\ NoRepeat(F(l))
    OBVIOUS
  <2>1. CASE l = top
    BY <1>6, <2>1
  <2>2. CASE l \in lv..(top - 1)
    <3>1. l # top /\ get_partner(b, l) \in Nat
      BY <1>3, <1>4, <1>8, <2>2
    <3>2. F(l) = <<get_partner(b, l)>>
      BY <2>2, <3>1
    <3> DEFINE k == get_partner(b, l)
    <3> HIDE DEF k
    <3>3. k \in Nat => (<<k>> \in Seq(Nat) /\ NoRepeat(<<k>>))
      BY DEF NoRepeat
    <3> QED BY <3>1, <3>2, <3>3 DEF k
  <2>3. CASE l # top /\ l \notin lv..(top - 1)
    BY <1>1, <2>3
  <2> QED BY <2>1, <2>2, <2>3
<1> HIDE DEF F
<1>11. q \in Pages /\ q.min = p.min /\ q.base = p.base /\ q.size = p.size /\ \A l \in Levels : q.free[l] = F(l)
  <2> DEFINE f == [l \in Levels |-> F(l)]
  <2>1. f \in [Levels -> Seq(Nat)] /\ \A l \in Levels : f[l] = F(l)
    BY <1>10
  <2>2. q = WithLists(p, f)
    BY <1>9 DEF WithLists
  <2> HIDE DEF f
  <2>3. q \in Pages /\ q.min = p.min /\ q.base = p.base /\ q.size = p.size /\ q.free = f
    <3>1. p \in Pages /\ f \in [Levels -> Seq(Nat)]
      BY <1>1, <2>1
    <3> QED BY <2>2, <3>1, NewLists
  <2> QED BY <2>1, <2>3
<1>12. PageOK(q)
  BY <1>10, <1>11 DEF PageOK
<1>13. ASSUME NEW i \in Nat, NEW l \in Levels
       PROVE  <<i, l>> \in Free(q) <=> \/ <<i, l>> \in Free(p) /\ <<i, l>> # <<b, top>>
                                       \/ <<i, l>> \in Links(b, lv, top)
  <2>1. <<i, l>> \in Free(q) <=> i \in Range(F(l))
    BY <1>11, FreeOf
  <2>2. <<i, l>> \in Free(p) <=> i \in Range(p.free[l])
    BY FreeOf
  <2>3. <<i, l>> \in Links(b, lv, top) <=> l \in lv..(top - 1) /\ i = get_partner(b, l)
    BY <1>8 DEF Links
  <2>4. CASE l = top
    <3>1. Range(F(l)) = Range(p.free[l]) \ {b}
      BY <1>6, <2>4 DEF F
    <3>2. l \notin lv..(top - 1)
      BY <1>4, <2>4
    <3> QED BY <2>1, <2>2, <2>3, <2>4, <3>1, <3>2
  <2>5. CASE l \in lv..(top - 1)
    <3>1. l # top /\ p.free[l] = <<>>
      BY <1>4, <2>5
    <3>2. Range(F(l)) = {get_partner(b, l)} /\ Range(p.free[l]) = {}
      BY <2>5, <3>1 DEF F, Range
    <3> QED BY <2>1, <2>2, <2>3, <2>5, <3>1, <3>2
  <2>6. CASE l # top /\ l \notin lv..(top - 1)
    <3>1. F(l) = p.free[l]
      BY <2>6 DEF F
    <3> QED BY <2>1, <2>2, <2>3, <2>6, <3>1
  <2> QED BY <2>4, <2>5, <2>6
<1>14. Links(b, lv, top) \subseteq Nat \X Levels
  BY <1>4, <1>8 DEF Links
<1>15. Free(q) = (Free(p) \ {<<b, top>>}) \cup Links(b, lv, top)
  <2>1. Free(q) \subseteq Nat \X Levels /\ Free(p) \subseteq Nat \X Levels
    BY DEF Free
  <2>2. \A x \in Nat \X Levels : x = <<x[1], x[2]>> /\ x[1] \in Nat /\ x[2] \in Levels
    OBVIOUS
  <2>3. \A x \in Nat \X Levels : x \in Free(q) <=> (x \in Free(p) /\ x # <<b, top>>) \/ x \in Links(b, lv, top)
    BY <1>13, <2>2
  <2> QED BY <1>14, <2>1, <2>3
<1>16. \A x \in Free(p) : x[2] \notin lv..(top - 1)
  BY <1>4 DEF Free, Range
<1> QED BY <1>3, <1>6, <1>7, <1>11, <1>12, <1>15, <1>16

(* Giving a block back: its partners below level top leave their lists, and *)
(* the block they make together is free.                                    *)
LEMMA MergePage ==
  ASSUME NEW p, PageOK(p), NEW idx \in Nat, NEW lv \in Levels, NEW top \in Levels, lv <= top,
         \A l \in lv..(top - 1) : PartnerFree(p, idx, l),
         <<Merged(idx, top), top>> \notin Free(p),
         NEW q, q = Put(p, idx, lv, top)
  PROVE  /\ PageOK(q) /\ q.min = p.min /\ q.base = p.base /\ q.size = p.size
         /\ Links(idx, lv, top) \subseteq Free(p)
         /\ Free(q) = (Free(p) \ Links(idx, lv, top)) \cup {<<Merged(idx, top), top>>}
<1>1. /\ p \in Pages /\ Levels \subseteq Nat
      /\ \A l \in Levels : p.free[l] \in Seq(Nat) /\ NoRepeat(p.free[l])
  BY LevelFacts DEF PageOK, Pages
<1>2. \A l \in lv..(top - 1) : l \in Levels /\ l \in Nat /\ l # top
  BY <1>1, LevelFacts DEF Levels
<1> DEFINE m == Merged(idx, top)
           j(l) == get_partner(Merged(idx, l), l)
<1>3. m \in Nat /\ m \notin Range(p.free[top])
  BY <1>1, MergedCovers, FreeOf
<1>4. \A l \in lv..(top - 1) : j(l) \in Nat /\ j(l) \in Range(p.free[l])
  <2> SUFFICES ASSUME NEW l \in lv..(top - 1)
               PROVE  j(l) \in Nat /\ j(l) \in Range(p.free[l])
    OBVIOUS
  <2>1. Merged(idx, l) \in Nat /\ Merged(Merged(idx, l), l) = Merged(idx, l)
    BY <1>2, MergedCovers
  <2> QED BY <1>2, <2>1, PartnerOf DEF PartnerFree
<1> DEFINE F(l) == IF l \in lv..(top - 1) THEN remove_from_free_list(p.free[l], j(l))
                   ELSE IF l = top THEN <<m>> \o p.free[l]
                   ELSE p.free[l]
<1>5. q = [p EXCEPT !.free = [l \in Levels |-> F(l)]]
  BY DEF Put
<1> HIDE DEF m, j
<1>6. \A l \in lv..(top - 1) : /\ F(l) \in Seq(Nat) /\ NoRepeat(F(l))
                               /\ Range(F(l)) = Range(p.free[l]) \ {j(l)}
  <2> SUFFICES ASSUME NEW l \in lv..(top - 1)
               PROVE  /\ F(l) \in Seq(Nat) /\ NoRepeat(F(l))
                      /\ Range(F(l)) = Range(p.free[l]) \ {j(l)}
    OBVIOUS
  <2>1. F(l) = remove_from_free_list(p.free[l], j(l))
    OBVIOUS
  <2>2. p.free[l] \in Seq(Nat) /\ NoRepeat(p.free[l]) /\ j(l) \in Range(p.free[l])
    BY <1>1, <1>2, <1>4
  <2> HIDE DEF F
  <2> QED BY <2>1, <2>2, ListRemove
<1>7. F(top) \in Seq(Nat) /\ NoRepeat(F(top)) /\ Range(F(top)) = Range(p.free[top]) \cup {m}
  <2>1. F(top) = <<m>> \o p.free[top]
    BY <1>2
  <2> HIDE DEF F
  <2> QED BY <1>1, <1>3, <2>1, ListPut
<1>8. \A l \in Levels : l # top /\ l \notin lv..(top - 1) => F(l) = p.free[l]
  OBVIOUS
<1> HIDE DEF F
<1>9. \A l \in Levels : F(l) \in Seq(Nat) /\ NoRepeat(F(l))
  BY <1>1, <1>6, <1>7, <1>8
<1>10. q \in Pages /\ q.min = p.min /\ q.base = p.base /\ q.size = p.size /\ \A l \in Levels : q.free[l] = F(l)
  <2> DEFINE f == [l \in Levels |-> F(l)]
  <2>1. f \in [Levels -> Seq(Nat)] /\ \A l \in Levels : f[l] = F(l)
    BY <1>9
  <2>2. q = WithLists(p, f)
    BY <1>5 DEF WithLists
  <2> HIDE DEF f
  <2>3. q \in Pages /\ q.min = p.min /\ q.base = p.base /\ q.size = p.size /\ q.free = f
    <3>1. p \in Pages /\ f \in [Levels -> Seq(Nat)]
      BY <1>1, <2>1
    <3> QED BY <2>2, <3>1, NewLists
  <2> QED BY <2>1, <2>3
<1>11. PageOK(q)
  BY <1>9, <1>10 DEF PageOK
<1>12. \A i, l : <<i, l>> \in Links(idx, lv, top) <=> l \in lv..(top - 1) /\ i = j(l)
  BY DEF Links, j
<1>13. ASSUME NEW i \in Nat, NEW l \in Levels
       PROVE  <<i, l>> \in Free(q) <=> \/ <<i, l>> \in Free(p) /\ <<i, l>> \notin Links(idx, lv, top)
                                       \/ <<i, l>> = <<m, top>>
  <2>1. <<i, l>> \in Free(q) <=> i \in Range(F(l))
    BY <1>10, FreeOf
  <2>2. <<i, l>> \in Free(p) <=> i \in Range(p.free[l])
    BY FreeOf
  <2>3. CASE l = top
    <3>1. l \notin lv..(top - 1)
      BY <1>2, <2>3
    <3> QED BY <1>7, <1>12, <2>1, <2>2, <2>3, <3>1
  <2>4. CASE l \in lv..(top - 1)
    BY <1>2, <1>6, <1>12, <2>1, <2>2, <2>4
  <2>5. CASE l # top /\ l \notin lv..(top - 1)
    BY <1>8, <1>12, <2>1, <2>2, <2>5
  <2> QED BY <2>3, <2>4, <2>5
<1>14. Links(idx, lv, top) \subseteq Nat \X Levels /\ Links(idx, lv, top) \subseteq Free(p)
  <2> SUFFICES ASSUME NEW l \in lv..(top - 1)
               PROVE  <<j(l), l>> \in Nat \X Levels /\ <<j(l), l>> \in Free(p)
    BY DEF Links, j
  <2> QED BY <1>2, <1>4, FreeOf
<1>15. Free(q) = (Free(p) \ Links(idx, lv, top)) \cup {<<m, top>>}
  <2>1. Free(q) \subseteq Nat \X Levels /\ Free(p) \subseteq Nat \X Levels /\ <<m, top>> \in Nat \X Levels
    BY <1>3 DEF Free
  <2>2. \A x \in Nat \X Levels : x = <<x[1], x[2]>> /\ x[1] \in Nat /\ x[2] \in Levels
    OBVIOUS
  <2>3. \A x \in Nat \X Levels : x \in Free(q) <=> (x \in Free(p) /\ x \notin Links(idx, lv, top)) \/ x = <<m, top>>
    BY <1>13, <2>2
  <2> QED BY <2>1, <2>3
<1> QED BY <1>10, <1>11, <1>14, <1>15 DEF m

-----------------------------------------------------------------------------
(* The invariant of a page.                                                 *)

LEMMA HeldOn ==
  ASSUME NEW p, NEW L, PageInv(p, L), NEW a \in On(p, L)
  PROVE  /\ Place(p, a) \in Held(p, L) /\ IsBlock(Place(p, a))
         /\ Place(p, a) = <<(a.ptr - p.base) \div p.min, sz_to_level(p, a.sz)>>
         /\ a.ptr = p.base + Place(p, a)[1] * p.min
         /\ a.sz <= 2^(Place(p, a)[2]) * p.min
BY DEF Held, PageInv, Tiling, Place

(* Where a page is matters to what is on it, not what is free in it. *)
LEMMA SamePlaces ==
  ASSUME NEW p, NEW q, q.min = p.min, q.base = p.base, q.size = p.size
  PROVE  /\ \A a : Place(q, a) = Place(p, a)
         /\ \A a : Inside(a, q) <=> Inside(a, p)
         /\ \A L : On(q, L) = On(p, L) /\ Held(q, L) = Held(p, L)
<1>1. \A a : Place(q, a) = Place(p, a)
  BY DEF Place, sz_to_level
<1>2. \A a : Inside(a, q) <=> Inside(a, p)
  BY DEF Inside
<1>3. \A L : On(q, L) = On(p, L)
  BY <1>2 DEF On
<1> QED BY <1>1, <1>2, <1>3 DEF Held

(* What is not on a page can come and go. *)
LEMMA OthersPage ==
  ASSUME NEW p, NEW L, NEW M, PageInv(p, L), On(p, M) = On(p, L)
  PROVE  PageInv(p, M)
<1>1. Held(p, M) = Held(p, L)
  BY DEF Held
<1> QED BY <1>1 DEF PageInv

LEMMA ChainIsLinks ==
  ASSUME NEW b, NEW lv, NEW top
  PROVE  Chain(b, lv, top) = {<<b, lv>>} \cup Links(b, lv, top)
BY DEF Chain, Links

LEMMA UnitTimes ==
  ASSUME NEW m \in Nat \ {0}, NEW i \in Nat, NEW s \in Nat, NEW B \in Nat
  PROVE  /\ ((B + i * m) - B) \div m = i
         /\ i * m \in Nat
         /\ i + s <= Units => i * m + s * m <= m * Units
<1>1. i * m \in Nat
  BY Z3
<1>2. (i * m) \div m = i
  <2> DEFINE c == i * m
  <2>1. c \in Nat /\ i * m <= c /\ c < i * m + m
    BY <1>1
  <2> HIDE DEF c
  <2>2. c \div m = i
    BY <2>1, DivUnique
  <2> QED BY <2>2 DEF c
<1>3. (B + i * m) - B = i * m
  BY <1>1
<1>4. ASSUME i + s <= Units
      PROVE  i * m + s * m <= m * Units
  <2>1. (i + s) * m <= Units * m /\ (i + s) * m = i * m + s * m
    BY <1>4, LevelFacts, TimesOrder
  <2>2. Units * m = m * Units
    BY LevelFacts
  <2> QED BY <2>1, <2>2
<1> QED BY <1>1, <1>2, <1>3, <1>4

LEMMA AllocateBlock ==
  ASSUME NEW p, NEW L \in SUBSET Live, PageInv(p, L), NEW sz \in Nat \ {0}, CanAllocate(p, sz),
         NEW lv, lv = sz_to_level(p, sz),
         NEW a, a = [ptr |-> addr_to_ptr(p, NextBlock(p, lv)), sz |-> sz],
         NEW q, q = get_next_ptr(p, lv)
  PROVE  /\ PageInv(q, L \cup {a})
         /\ a \in Live /\ Inside(a, p)
         /\ q \in Pages /\ q.min = p.min /\ q.base = p.base /\ q.size = p.size
<1> DEFINE top == Min(Sources(p, lv))
           b == NextBlock(p, lv)
           F == Free(p)
           H == Held(p, L)
           T == F \cup H
           B == <<b, top>>
           C == Chain(b, lv, top)
           K == Links(b, lv, top)
           D == <<b, lv>>
           M == L \cup {a}
<1>1. /\ p \in Pages /\ p.min \in Nat \ {0} /\ p.base \in Nat /\ p.size = p.min * Units /\ PageOK(p)
      /\ Tiling(T) /\ F \cap H = {} /\ FreeIsTiles(p)
  BY DEF PageInv, PageOK, Pages, FreeIsTiles, Tiling
<1>2. /\ lv \in Levels /\ Sources(p, lv) # {} /\ sz <= p.size /\ sz <= 2^lv * p.min
  <2>1. sz <= p.size /\ Sources(p, lv) # {}
    BY DEF CanAllocate
  <2>2. lv \in 0..nlevel /\ sz <= 2^lv * p.min
    BY <1>1, <2>1, LevelOf
  <2>3. \E l : l \in lv..(nlevel - 1)
    BY <2>1 DEF Sources
  <2>4. lv \in Levels
    BY <2>2, <2>3, LevelFacts DEF Levels
  <2> QED BY <2>1, <2>2, <2>4
<1> HIDE DEF F, H, T, B, C, K, D, M, top, b
<1>3. /\ top \in Levels /\ lv <= top /\ b \in Nat
      /\ B \in F /\ IsBlock(B)
      /\ PageOK(q) /\ q.min = p.min /\ q.base = p.base /\ q.size = p.size
      /\ Free(q) = (F \ {B}) \cup K
      /\ \A x \in F : x[2] \notin lv..(top - 1)
  BY <1>1, <1>2, SplitPage DEF F, B, K, top, b
<1>4. /\ lv \in Nat /\ top \in Nat /\ \A l \in lv..(top - 1) : l \in Nat /\ l <= top
  BY <1>2, <1>3, LevelFacts
<1>5. Merged(b, top) = b
  BY <1>3 DEF IsBlock, B
<1>6. Merged(b, lv) = b /\ \A l \in lv..(top - 1) : Merged(b, l) = b
  BY <1>3, <1>4, <1>5, MergedSame
<1>7. b \in 0..(Units - 1)
  BY <1>3, BlockFacts DEF B
<1>8. IsBlock(D)
  BY <1>2, <1>6, <1>7, MergedInPage DEF D
<1>9. /\ \A x \in C : IsBlock(x)
      /\ \A u \in Nat : Covers(B, u) <=> \E x \in C : Covers(x, u)
      /\ \A x, y \in C : \A u \in Nat : Covers(x, u) /\ Covers(y, u) => x = y
  <2>1. IsBlock(<<b, lv>>)
    BY <1>8 DEF D
  <2> QED BY <1>2, <1>3, <1>5, <2>1, ChainCovers DEF B, C
<1>10. Tiling((T \ {B}) \cup C) /\ C \cap (T \ {B}) = {}
  <2>1. {B} \subseteq T
    BY <1>3 DEF T
  <2>2. \A u \in Nat : (\E x \in {B} : Covers(x, u)) <=> (\E x \in C : Covers(x, u))
    BY <1>9
  <2> DEFINE S == {B}
  <2>3. Tiling(T) /\ S \subseteq T /\ \A u \in Nat : (\E x \in S : Covers(x, u)) <=> (\E x \in C : Covers(x, u))
    BY <1>1, <2>1, <2>2
  <2> HIDE DEF S
  <2>4. Tiling((T \ S) \cup C) /\ C \cap (T \ S) = {}
    BY <1>9, <2>3, Retiled
  <2> QED BY <2>4 DEF S
<1>11. C = {D} \cup K /\ B \notin H
  BY <1>1, <1>3, ChainIsLinks DEF C, D, K
<1>12. \A x \in K : x[2] \in lv..(top - 1) /\ x[1] = get_partner(b, x[2]) /\ x = <<x[1], x[2]>>
  BY <1>6 DEF K, Links
<1>13. D \notin K
  <2> SUFFICES ASSUME D \in K
               PROVE  FALSE
    OBVIOUS
  <2>1. b = get_partner(b, lv)
    BY <1>12 DEF D
  <2> QED BY <1>3, <1>4, <1>6, <2>1, PartnerOf
<1>14. D \notin H /\ K \cap H = {} /\ D \notin F \ {B}
  BY <1>10, <1>11 DEF T
<1>15. /\ a.ptr = p.base + b * p.min /\ a.sz = sz /\ a \in Live
       /\ Place(p, a) = D /\ Inside(a, p)
  <2>1. a = [ptr |-> p.base + b * p.min, sz |-> sz]
    BY DEF addr_to_ptr, b
  <2>2. ((p.base + b * p.min) - p.base) \div p.min = b /\ b * p.min \in Nat
    BY <1>1, <1>3, UnitTimes
  <2>3. p.base + b * p.min \in Nat
    BY <1>1, <2>2
  <2>4. a \in Live
    BY <2>1, <2>3 DEF Live
  <2>5. Place(p, a) = D
    BY <2>1, <2>2 DEF Place, D
  <2>6. Inside(a, p)
    <3> DEFINE P == 2^lv
               m == p.min
    <3>1. P \in Nat \ {0} /\ b + P <= Units /\ sz <= P * m
      BY <1>2, <1>4, <1>8, PowerPositive DEF IsBlock, D
    <3> HIDE DEF P, m
    <3>2. b * m + P * m <= m * Units /\ b * m \in Nat /\ P * m \in Nat
      BY <1>1, <1>3, <3>1, UnitTimes DEF m
    <3>3. m * Units = p.size /\ p.size \in Nat
      BY <1>1 DEF m, Pages
    <3>4. p.base <= p.base + b * m /\ p.base + b * m + sz <= p.base + p.size
      BY <1>1, <3>1, <3>2, <3>3
    <3> QED BY <2>1, <3>4 DEF Inside, m
  <2> QED BY <2>1, <2>4, <2>5, <2>6
<1>16. /\ \A c : Place(q, c) = Place(p, c)
       /\ On(q, M) = On(p, L) \cup {a}
       /\ Held(q, M) = H \cup {D}
  <2>1. /\ \A c : Place(q, c) = Place(p, c)
        /\ On(q, M) = On(p, M) /\ Held(q, M) = Held(p, M)
    BY <1>3, SamePlaces
  <2>2. On(p, M) = On(p, L) \cup {a}
    BY <1>15 DEF On, M
  <2>3. Held(p, M) = H \cup {D}
    BY <1>15, <2>2 DEF Held, H
  <2> QED BY <2>1, <2>2, <2>3
<1>17. \A c \in On(q, M) : c.ptr = q.base + Place(q, c)[1] * q.min /\ c.sz <= 2^(Place(q, c)[2]) * q.min
  <2> SUFFICES ASSUME NEW c \in On(q, M)
               PROVE  c.ptr = p.base + Place(p, c)[1] * p.min /\ c.sz <= 2^(Place(p, c)[2]) * p.min
    BY <1>3, <1>16
  <2>1. CASE c = a
    BY <1>2, <1>15, <2>1 DEF D
  <2>2. CASE c \in On(p, L)
    BY <2>2, HeldOn
  <2> QED BY <1>16, <2>1, <2>2
<1>18. \A c, d \in On(q, M) : Place(q, c) = Place(q, d) => c = d
  <2>1. \A c \in On(p, L) : Place(p, c) \in H
    BY HeldOn DEF H
  <2>2. \A c, d \in On(p, L) : Place(p, c) = Place(p, d) => c = d
    BY DEF PageInv
  <2> QED BY <1>14, <1>15, <1>16, <2>1, <2>2
<1>19. Tiling(Free(q) \cup Held(q, M)) /\ Free(q) \cap Held(q, M) = {}
  <2>1. Free(q) \cup Held(q, M) = (T \ {B}) \cup C
    BY <1>3, <1>11, <1>16 DEF T
  <2>2. Free(q) \cap Held(q, M) = {}
    BY <1>1, <1>3, <1>13, <1>14, <1>16
  <2> QED BY <1>10, <2>1, <2>2
<1>20. ASSUME NEW x \in Free(q), x[2] < nlevel - 1
       PROVE  <<get_partner(x[1], x[2]), x[2]>> \notin Free(q)
  <2> DEFINE y == <<get_partner(x[1], x[2]), x[2]>>
  <2> SUFFICES ASSUME y \in Free(q)
               PROVE  FALSE
    OBVIOUS
  <2>1. CASE x \in F \ {B} /\ y \in F \ {B}
    <3>1. \A z \in F : z[2] < nlevel - 1 => <<get_partner(z[1], z[2]), z[2]>> \notin F
      BY DEF PageInv, F
    <3> QED BY <1>20, <2>1, <3>1
  <2>2. CASE x \in K \/ y \in K
    <3>1. x[2] \in lv..(top - 1) /\ y[2] = x[2] /\ y[1] = get_partner(x[1], x[2])
      BY <1>12, <2>2
    <3>2. x \in K /\ y \in K
      BY <1>3, <3>1
    <3>3. x[1] = get_partner(b, x[2]) /\ get_partner(x[1], x[2]) = get_partner(b, x[2])
      BY <1>12, <3>1, <3>2
    <3>4. Merged(b, x[2]) = b /\ x[2] \in Nat
      BY <1>4, <1>6, <3>1
    <3>5. get_partner(get_partner(b, x[2]), x[2]) = b /\ get_partner(b, x[2]) # b
      BY <1>3, <3>4, PartnerOf
    <3> QED BY <3>3, <3>5
  <2> QED BY <1>3, <2>1, <2>2
<1>21. PageInv(q, M)
  BY <1>3, <1>17, <1>18, <1>19, <1>20 DEF PageInv
<1>22. q \in Pages
  BY <1>3 DEF PageOK
<1> QED BY <1>3, <1>15, <1>21, <1>22 DEF M

LEMMA ReleaseBlock ==
  ASSUME NEW p, NEW L \in SUBSET Live, PageInv(p, L), NEW a \in On(p, L),
         NEW idx, idx = Place(p, a)[1], NEW lv, lv = Place(p, a)[2],
         NEW q, q = mark_free(p, idx, lv)
  PROVE  /\ PageInv(q, L \ {a})
         /\ q \in Pages /\ q.min = p.min /\ q.base = p.base /\ q.size = p.size
<1> DEFINE S == {t \in lv..(nlevel - 1) : \A l \in lv..(t - 1) : PartnerFree(p, idx, l)}
           top == Max(S)
           F == Free(p)
           H == Held(p, L)
           T == F \cup H
           B == <<Merged(idx, top), top>>
           C == Chain(idx, lv, top)
           K == Links(idx, lv, top)
           D == <<idx, lv>>
           M == L \ {a}
<1>1. /\ PageOK(p) /\ Tiling(T) /\ F \cap H = {} /\ \A x \in T : IsBlock(x)
  BY DEF PageInv, Tiling
<1>2. D = Place(p, a) /\ D \in H /\ IsBlock(D)
  BY HeldOn
<1>3. idx \in Nat /\ lv \in Levels /\ lv \in Nat /\ Merged(idx, lv) = idx /\ idx \in 0..(Units - 1) /\ Covers(D, idx)
  BY <1>2, BlockFacts
<1>4. /\ top \in Levels /\ top \in Nat /\ lv <= top
      /\ \A l \in lv..(top - 1) : PartnerFree(p, idx, l)
      /\ top < nlevel - 1 => ~ PartnerFree(p, idx, top)
  <2>1. nlevel - 1 \in Nat /\ lv <= nlevel - 1
    BY <1>3, LevelFacts
  <2>2. lv \in S /\ S \in SUBSET (0..(nlevel - 1))
    BY <1>3, <2>1
  <2>3. top \in S /\ \A t \in S : t <= top
    <3> HIDE DEF S
    <3> QED BY <2>1, <2>2, MaxOf
  <2>4. top \in lv..(nlevel - 1) /\ \A l \in lv..(top - 1) : PartnerFree(p, idx, l)
    <3> HIDE DEF top
    <3> QED BY <2>3
  <2> HIDE DEF top
  <2>5. top \in Levels /\ top \in Nat /\ lv <= top
    BY <1>3, <2>1, <2>4 DEF Levels
  <2>6. ASSUME top < nlevel - 1, PartnerFree(p, idx, top)
        PROVE  FALSE
    <3>1. top + 1 \in lv..(nlevel - 1)
      BY <1>3, <2>1, <2>5, <2>6
    <3>2. \A l \in lv..((top + 1) - 1) : l \in lv..(top - 1) \/ l = top
      BY <1>3, <2>5
    <3>3. top + 1 \in S
      BY <2>4, <2>6, <3>1, <3>2
    <3>4. top + 1 <= top
      BY <2>3, <3>3
    <3> QED BY <2>5, <3>4
  <2> QED BY <2>4, <2>5, <2>6
<1>5. q = Put(p, idx, lv, top)
  BY DEF mark_free
<1> HIDE DEF S, top, F, H, T, B, C, K, D, M
<1>6. /\ IsBlock(B) /\ Covers(B, idx)
  <2>1. IsBlock(B)
    BY <1>3, <1>4, MergedInPage DEF B
  <2>2. Merged(idx, top) \in Nat /\ Merged(idx, top) <= idx /\ idx < Merged(idx, top) + 2^top
    BY <1>3, <1>4, MergedCovers
  <2> QED BY <2>1, <2>2 DEF Covers, B
<1>7. B \notin F
  <2> SUFFICES ASSUME B \in F
               PROVE  FALSE
    OBVIOUS
  <2>1. B = D
    BY <1>1, <1>2, <1>3, <1>6 DEF Tiling, T
  <2> QED BY <1>1, <1>2, <2>1
<1>8. /\ PageOK(q) /\ q.min = p.min /\ q.base = p.base /\ q.size = p.size
      /\ K \subseteq F
      /\ Free(q) = (F \ K) \cup {B}
  <2>1. <<Merged(idx, top), top>> \notin Free(p)
    BY <1>7 DEF B, F
  <2> QED BY <1>1, <1>3, <1>4, <1>5, <2>1, MergePage DEF F, K, B
<1>9. C = {D} \cup K /\ C \subseteq T
  BY <1>2, <1>8, ChainIsLinks DEF C, D, K, T
<1>10. \A u \in Nat : Covers(B, u) <=> \E x \in C : Covers(x, u)
  <2>1. IsBlock(<<idx, lv>>)
    BY <1>2 DEF D
  <2> QED BY <1>3, <1>4, <2>1, ChainCovers DEF B, C
<1>11. Tiling((T \ C) \cup {B}) /\ B \notin T \ C
  <2> DEFINE R == {B}
  <2>1. /\ \A x \in R : IsBlock(x)
        /\ \A x, y \in R : \A u \in Nat : Covers(x, u) /\ Covers(y, u) => x = y
        /\ \A u \in Nat : (\E x \in C : Covers(x, u)) <=> (\E x \in R : Covers(x, u))
    BY <1>6, <1>10
  <2> HIDE DEF R
  <2>2. Tiling((T \ C) \cup R) /\ R \cap (T \ C) = {}
    BY <1>1, <1>9, <2>1, Retiled
  <2> QED BY <2>2 DEF R
<1>12. /\ \A c : Place(q, c) = Place(p, c)
       /\ On(q, M) = On(p, L) \ {a}
       /\ Held(q, M) = H \ {D}
  <2>1. /\ \A c : Place(q, c) = Place(p, c)
        /\ On(q, M) = On(p, M) /\ Held(q, M) = Held(p, M)
    BY <1>8, SamePlaces
  <2>2. On(p, M) = On(p, L) \ {a}
    BY DEF On, M
  <2>3. \A c, d \in On(p, L) : Place(p, c) = Place(p, d) => c = d
    BY DEF PageInv
  <2>4. Held(p, M) = H \ {D}
    BY <1>2, <2>2, <2>3 DEF Held, H
  <2> QED BY <2>1, <2>2, <2>4
<1>13. /\ \A c \in On(q, M) : c.ptr = q.base + Place(q, c)[1] * q.min /\ c.sz <= 2^(Place(q, c)[2]) * q.min
       /\ \A c, d \in On(q, M) : Place(q, c) = Place(q, d) => c = d
  <2>1. \A c \in On(p, L) : c.ptr = p.base + Place(p, c)[1] * p.min /\ c.sz <= 2^(Place(p, c)[2]) * p.min
    BY HeldOn
  <2>2. \A c, d \in On(p, L) : Place(p, c) = Place(p, d) => c = d
    BY DEF PageInv
  <2>3. \A c \in On(q, M) : c \in On(p, L)
    BY <1>12
  <2> QED BY <1>8, <1>12, <2>1, <2>2, <2>3
<1>14. Tiling(Free(q) \cup Held(q, M)) /\ Free(q) \cap Held(q, M) = {}
  <2>1. D \notin F /\ K \cap H = {}
    BY <1>1, <1>2, <1>8
  <2>2. Free(q) \cup Held(q, M) = (T \ C) \cup {B}
    BY <1>8, <1>9, <1>12, <2>1 DEF T
  <2>3. B \notin H \ {D}
    BY <1>9, <1>11, <2>1 DEF T
  <2>4. Free(q) \cap Held(q, M) = {}
    BY <1>1, <1>8, <1>12, <2>3
  <2> QED BY <1>11, <2>2, <2>4
<1>15. ASSUME NEW x \in Free(q), x[2] < nlevel - 1
       PROVE  <<get_partner(x[1], x[2]), x[2]>> \notin Free(q)
  <2> DEFINE y == <<get_partner(x[1], x[2]), x[2]>>
             m == Merged(idx, top)
  <2> SUFFICES ASSUME y \in Free(q)
               PROVE  FALSE
    OBVIOUS
  <2>1. m \in Nat /\ Merged(m, top) = m
    BY <1>3, <1>4, MergedCovers
  <2>2. get_partner(m, top) # m /\ get_partner(m, top) \in Nat /\ get_partner(get_partner(m, top), top) = m
    BY <1>4, <2>1, PartnerOf
  <2>3. top < nlevel - 1 => <<get_partner(m, top), top>> \notin F
    <3>1. top < nlevel - 1 => get_partner(m, top) \notin Range(p.free[top])
      BY <1>4 DEF PartnerFree
    <3> QED BY <1>4, <2>2, <3>1, FreeOf DEF F
  <2>4. CASE x \in F \ K /\ y \in F \ K
    <3>1. \A z \in F : z[2] < nlevel - 1 => <<get_partner(z[1], z[2]), z[2]>> \notin F
      BY DEF PageInv, F
    <3> QED BY <1>15, <2>4, <3>1
  <2>5. CASE x = B
    <3>1. x[1] = m /\ x[2] = top
      BY <2>5 DEF B
    <3>2. y = <<get_partner(m, top), top>> /\ y # B
      BY <2>2, <3>1 DEF B
    <3> QED BY <1>8, <1>15, <2>3, <3>1, <3>2
  <2>6. CASE y = B /\ x \in F \ K
    <3>1. x[2] = top /\ get_partner(x[1], top) = m
      BY <2>6 DEF B
    <3>2. IsBlock(x)
      BY <1>1, <2>6 DEF T
    <3>3. x[1] \in Nat /\ Merged(x[1], top) = x[1] /\ x = <<x[1], x[2]>>
      BY <3>1, <3>2, BlockFacts
    <3>4. x[1] = get_partner(m, top)
      BY <1>4, <3>1, <3>3, PartnerOf
    <3> QED BY <1>15, <2>3, <2>6, <3>1, <3>3, <3>4
  <2> QED BY <1>8, <2>4, <2>5, <2>6
<1>16. PageInv(q, M)
  BY <1>8, <1>13, <1>14, <1>15 DEF PageInv
<1>17. q \in Pages
  BY <1>8 DEF PageOK
<1> QED BY <1>8, <1>16, <1>17 DEF M

LEMMA MinSize ==
  ASSUME NEW size \in Nat \ {0}
  PROVE  min_size(size) \in Nat \ {0} /\ min_size(size) % align = 0
<1> DEFINE k == (size + Units - 1) \div Units
<1>1. Units \in Nat \ {0} /\ align \in Nat \ {0}
  BY LevelFacts
<1>2. size + Units - 1 \in Nat /\ 1 * Units <= size + Units - 1
  BY <1>1
<1>3. k \in Nat \ {0}
  <2> DEFINE U == Units
             c == size + Units - 1
  <2>1. U \in Nat \ {0} /\ c \in Nat /\ U <= c
    BY <1>1, <1>2
  <2> HIDE DEF U, c
  <2>2. c \div U \in Nat \ {0}
    BY <2>1, Z3
  <2> QED BY <2>2 DEF U, c
<1> HIDE DEF k
<1> DEFINE g == (k + align - 1) \div align
<1>4. g \in Nat \ {0}
  <2> DEFINE A == align
             c == k + align - 1
  <2>1. A \in Nat \ {0} /\ c \in Nat /\ A <= c
    BY <1>1, <1>3
  <2> HIDE DEF A, c
  <2>2. c \div A \in Nat \ {0}
    BY <2>1, Z3
  <2> QED BY <2>2 DEF A, c
<1> HIDE DEF g
<1>5. align * g \in Nat \ {0} /\ (align * g) % align = 0
  BY <1>1, <1>4, Z3
<1> QED BY <1>5 DEF min_size, RoundUp, k, g

LEMMA FreshPage ==
  ASSUME NEW size \in Nat \ {0}, NEW b \in Nat, NEW L, On(NewPage(size, b), L) = {}
  PROVE  PageInv(NewPage(size, b), L) /\ NewPage(size, b) \in Pages
<1> DEFINE p == NewPage(size, b)
           x == <<0, nlevel - 1>>
<1>1. min_size(size) \in Nat \ {0} /\ min_size(size) % align = 0 /\ min_size(size) * Units \in Nat
  <2>1. min_size(size) \in Nat \ {0} /\ min_size(size) % align = 0
    BY MinSize
  <2>2. \A c \in Nat : c * Units \in Nat
    BY LevelFacts
  <2> QED BY <2>1, <2>2
<1>2. /\ p.min = min_size(size) /\ p.size = min_size(size) * Units /\ p.base = b
      /\ p.free = [l \in Levels |-> IF l = nlevel - 1 THEN <<0>> ELSE <<>>]
      /\ p = [min |-> p.min, size |-> p.size, base |-> p.base, free |-> p.free]
  BY DEF NewPage
<1>3. p.free \in [Levels -> Seq(Nat)] /\ \A l \in Levels : NoRepeat(p.free[l])
  BY <1>2 DEF NoRepeat
<1>4. PageOK(p)
  <2>1. p \in Pages
    BY <1>1, <1>2, <1>3 DEF Pages
  <2> QED BY <1>1, <1>2, <1>3, <2>1 DEF PageOK
<1> HIDE DEF p
<1>5. nlevel - 1 \in Levels /\ 0 \in Nat
  BY LevelFacts
<1>6. Free(p) = {x}
  <2>1. \A l \in Levels : Range(p.free[l]) = IF l = nlevel - 1 THEN {0} ELSE {}
    BY <1>2 DEF Range
  <2> QED BY <1>5, <2>1 DEF Free
<1>7. Held(p, L) = {}
  BY DEF Held, p
<1>8. Tiling({x})
  <2>1. 0 \in 0..(Units - 1)
    BY LevelFacts
  <2>2. Units = 2^(nlevel - 1) /\ nlevel - 1 \in Nat
    BY LevelFacts
  <2>3. Merged(0, nlevel - 1) = 0
    <3>1. Merged(0, nlevel - 1) \in Nat /\ Merged(0, nlevel - 1) <= 0
      BY <2>2, MergedCovers
    <3> QED BY <3>1
  <2>4. IsBlock(x)
    BY <1>5, <2>1, <2>3, MergedInPage
  <2>5. \A u \in 0..(Units - 1) : Covers(x, u)
    <3> DEFINE P == 2^(nlevel - 1)
    <3> HIDE DEF P
    <3>1. \A u \in 0..(Units - 1) : 0 <= u /\ u < 0 + P
      BY <2>2, LevelFacts DEF P
    <3> QED BY <3>1 DEF Covers, P
  <2> QED BY <2>4, <2>5 DEF Tiling
<1>9. Free(p) \cup Held(p, L) = {x}
  BY <1>6, <1>7
<1>10. \A z \in Free(p) : z[2] < nlevel - 1 => FALSE
  BY <1>6, LevelFacts
<1>11. On(p, L) = {}
  BY DEF p
<1>12. PageInv(p, L)
  BY <1>4, <1>7, <1>8, <1>9, <1>10, <1>11 DEF PageInv
<1> QED BY <1>4, <1>12 DEF p, PageOK

-----------------------------------------------------------------------------
(* The invariant of the table.                                              *)

(* A holder is on one page only. *)
LEMMA InsideOne ==
  ASSUME NEW p \in Pages, NEW q \in Pages, Apart(p, q), NEW a \in Live, Inside(a, p)
  PROVE  ~ Inside(a, q)
<1>1. /\ p.base \in Nat /\ p.size \in Nat /\ q.base \in Nat /\ q.size \in Nat
      /\ a.ptr \in Nat /\ a.sz \in Nat \ {0} /\ align \in Nat \ {0}
  BY LevelFacts DEF Pages, Live
<1>2. /\ p.base <= a.ptr /\ a.ptr + a.sz <= p.base + p.size
      /\ p.base + p.size + align <= q.base \/ q.base + q.size + align <= p.base
  BY DEF Inside, Apart
<1>3. ~ (q.base <= a.ptr /\ a.ptr + a.sz <= q.base + q.size)
  BY <1>1, <1>2
<1> QED BY <1>3 DEF Inside

(* A step changes one page, and what is held on it. *)
LEMMA ReplacePage ==
  ASSUME NEW ps, NEW L, Pool(ps, L), NEW n \in DOMAIN ps, NEW M \in SUBSET Live,
         NEW q \in Pages, q.min = ps[n].min, q.base = ps[n].base, q.size = ps[n].size,
         PageInv(q, M),
         \A a \in M : a \notin L => Inside(a, ps[n]),
         \A a \in L : a \notin M => Inside(a, ps[n])
  PROVE  Pool([ps EXCEPT ![n] = q], M)
<1> DEFINE qs == [ps EXCEPT ![n] = q]
<1>1. /\ ps \in Seq(Pages) /\ L \in SUBSET Live /\ \A m \in DOMAIN ps : ps[m] \in Pages
      /\ \A m, k \in DOMAIN ps : m # k => Apart(ps[m], ps[k])
      /\ \A m \in DOMAIN ps : PageInv(ps[m], L)
  BY ElementOfSeq, LenProperties DEF Pool
<1>2. qs \in Seq(Pages) /\ DOMAIN qs = DOMAIN ps
  <2>1. Len(ps) \in Nat /\ DOMAIN ps = 1..Len(ps)
    BY <1>1, LenProperties
  <2>2. qs = [k \in 1..Len(ps) |-> IF k = n THEN q ELSE ps[k]]
    BY <2>1
  <2>3. \A k \in 1..Len(ps) : (IF k = n THEN q ELSE ps[k]) \in Pages
    BY <1>1, <2>1
  <2>4. [k \in 1..Len(ps) |-> IF k = n THEN q ELSE ps[k]] \in Seq(Pages)
    BY <2>1, <2>3, IsASeq
  <2> QED BY <2>1, <2>2, <2>4
<1>3. qs[n] = q /\ \A m \in DOMAIN ps : m # n => qs[m] = ps[m]
  OBVIOUS
<1>4. \A m \in DOMAIN ps : qs[m].base = ps[m].base /\ qs[m].size = ps[m].size
  BY <1>3
<1> HIDE DEF qs
<1>5. \A m, k \in DOMAIN qs : m # k => Apart(qs[m], qs[k])
  BY <1>1, <1>2, <1>4 DEF Apart
<1>6. \A a \in M : \E m \in DOMAIN qs : Inside(a, qs[m])
  <2> SUFFICES ASSUME NEW a \in M
               PROVE  \E m \in DOMAIN ps : Inside(a, ps[m])
    BY <1>2, <1>4 DEF Inside
  <2>1. CASE a \in L
    BY <2>1 DEF Pool
  <2>2. CASE a \notin L
    BY <2>2
  <2> QED BY <2>1, <2>2
<1>7. ASSUME NEW m \in DOMAIN qs
      PROVE  PageInv(qs[m], M)
  <2>1. CASE m = n
    BY <1>3, <2>1
  <2>2. CASE m # n
    <3>1. Apart(ps[n], ps[m]) /\ ps[n] \in Pages /\ ps[m] \in Pages
      BY <1>1, <1>2, <2>2
    <3>2. \A a \in Live : Inside(a, ps[n]) => ~ Inside(a, ps[m])
      BY <3>1, InsideOne
    <3>3. On(ps[m], M) = On(ps[m], L)
      BY <1>1, <3>2 DEF On
    <3>4. PageInv(ps[m], M)
      BY <1>1, <1>2, <3>3, OthersPage
    <3> QED BY <1>2, <1>3, <2>2, <3>4
  <2> QED BY <2>1, <2>2
<1> QED BY <1>2, <1>5, <1>6, <1>7 DEF Pool, qs

LEMMA PoolFresh ==
  ASSUME NEW size \in Nat \ {0}, NEW b \in Nat
  PROVE  Pool(<<NewPage(size, b)>>, {})
<1> DEFINE p == NewPage(size, b)
<1>1. On(p, {}) = {}
  BY DEF On
<1>2. PageInv(p, {}) /\ p \in Pages
  BY <1>1, FreshPage
<1> HIDE DEF p
<1>3. <<p>> \in Seq(Pages) /\ DOMAIN <<p>> = {1} /\ <<p>>[1] = p
  BY <1>2
<1>4. Pool(<<p>>, {})
  BY <1>2, <1>3 DEF Pool
<1> QED BY <1>4 DEF p

LEMMA PoolGrows ==
  ASSUME NEW ps, NEW L, Pool(ps, L), NEW size \in Nat \ {0}, NEW b \in Nat,
         \A n \in DOMAIN ps : Apart(NewPage(size, b), ps[n])
  PROVE  Pool(Append(ps, NewPage(size, b)), L)
<1> DEFINE p == NewPage(size, b)
           qs == Append(ps, p)
           k == Len(ps) + 1
<1>1. /\ ps \in Seq(Pages) /\ L \in SUBSET Live /\ Len(ps) \in Nat /\ DOMAIN ps = 1..Len(ps)
      /\ \A m \in DOMAIN ps : ps[m] \in Pages
      /\ \A a \in L : \E n \in DOMAIN ps : Inside(a, ps[n])
  BY ElementOfSeq, LenProperties DEF Pool
<1>2. p \in Pages
  <2>1. On(p, {}) = {}
    BY DEF On
  <2> QED BY <2>1, FreshPage
<1>3. On(p, L) = {}
  <2> SUFFICES ASSUME NEW a \in L, Inside(a, p)
               PROVE  FALSE
    BY DEF On
  <2>1. PICK n \in DOMAIN ps : Inside(a, ps[n])
    BY <1>1
  <2>2. Apart(p, ps[n]) /\ ps[n] \in Pages
    BY <1>1
  <2> HIDE DEF p
  <2> QED BY <1>1, <1>2, <2>1, <2>2, InsideOne
<1>4. PageInv(p, L)
  BY <1>3, FreshPage
<1>5. \A n \in DOMAIN ps : Apart(p, ps[n])
  OBVIOUS
<1> HIDE DEF p
<1>6. /\ qs \in Seq(Pages) /\ DOMAIN qs = 1..k /\ qs[k] = p /\ k \in DOMAIN qs
      /\ \A n \in 1..Len(ps) : qs[n] = ps[n] /\ n \in DOMAIN qs
      /\ \A n \in DOMAIN qs : n # k => n \in DOMAIN ps
  <2>1. qs \in Seq(Pages) /\ Len(qs) = k /\ qs[k] = p /\ \A n \in 1..Len(ps) : qs[n] = ps[n]
    BY <1>1, <1>2, AppendProperties
  <2>2. DOMAIN qs = 1..k
    BY <2>1, LenProperties
  <2> HIDE DEF qs
  <2> QED BY <1>1, <2>1, <2>2
<1> HIDE DEF qs, k
<1>7. \A m, n \in DOMAIN qs : m # n => Apart(qs[m], qs[n])
  <2>1. \A m, n \in DOMAIN ps : m # n => Apart(ps[m], ps[n])
    BY DEF Pool
  <2>2. \A n \in DOMAIN ps : Apart(ps[n], p)
    BY <1>5 DEF Apart
  <2> QED BY <1>1, <1>5, <1>6, <2>1, <2>2
<1>8. \A a \in L : \E n \in DOMAIN qs : Inside(a, qs[n])
  BY <1>1, <1>6
<1>9. \A n \in DOMAIN qs : PageInv(qs[n], L)
  <2>1. \A n \in DOMAIN ps : PageInv(ps[n], L)
    BY DEF Pool
  <2> QED BY <1>1, <1>4, <1>6, <2>1
<1> QED BY <1>1, <1>6, <1>7, <1>8, <1>9 DEF Pool, qs, p

LEMMA PoolServe ==
  ASSUME NEW ps, Pool(ps, live), NEW n \in DOMAIN ps, NEW sz \in Nat \ {0}, Serve(ps, n, sz)
  PROVE  Pool(pages', live')
<1>1. CASE ~ CanAllocate(ps[n], sz)
  BY <1>1 DEF Serve
<1>2. CASE CanAllocate(ps[n], sz)
  <2> DEFINE p == ps[n]
             lv == sz_to_level(p, sz)
             a == [ptr |-> addr_to_ptr(p, NextBlock(p, lv)), sz |-> sz]
             q == get_next_ptr(p, lv)
  <2>1. PageInv(p, live) /\ live \in SUBSET Live /\ CanAllocate(p, sz)
    BY <1>2 DEF Pool
  <2>2. pages' = [ps EXCEPT ![n] = q] /\ live' = live \cup {a}
    BY <1>2 DEF Serve
  <2> HIDE DEF p, lv, a, q
  <2>3. /\ PageInv(q, live \cup {a}) /\ a \in Live /\ Inside(a, p)
        /\ q \in Pages /\ q.min = p.min /\ q.base = p.base /\ q.size = p.size
    BY <2>1, AllocateBlock DEF lv, a, q
  <2>4. live \cup {a} \in SUBSET Live
    BY <2>1, <2>3
  <2>5. Pool([ps EXCEPT ![n] = q], live \cup {a})
    BY <2>3, <2>4, ReplacePage DEF p
  <2> QED BY <2>2, <2>5
<1> QED BY <1>1, <1>2

LEMMA OwnerOf ==
  ASSUME NEW ps, NEW L, Pool(ps, L), NEW n \in DOMAIN ps, NEW a \in L, Inside(a, ps[n]),
         ps[n].size <= AddrMod
  PROVE  /\ ptr_to_addr(ps[n], a.ptr) = Place(ps[n], a)[1]
         /\ is_owner(ps[n], a.ptr)
         /\ a.ptr \in ps[n].base..(ps[n].base + ps[n].size - 1)
<1> DEFINE p == ps[n]
           i == Place(p, a)[1]
           m == p.min
<1>1. PageInv(p, L) /\ a \in On(p, L) /\ a \in Live
  BY DEF Pool, On
<1>2. p \in Pages /\ m \in Nat \ {0} /\ p.base \in Nat /\ p.size \in Nat /\ p.size = m * Units
  BY <1>1 DEF PageInv, PageOK, Pages
<1>3. IsBlock(Place(p, a)) /\ a.ptr = p.base + i * m /\ i = (a.ptr - p.base) \div m
  BY <1>1, HeldOn
<1>4. i \in Nat /\ i \in 0..(Units - 1) /\ Units \in Nat
  BY <1>3, BlockFacts, LevelFacts
<1>5. a.ptr \in Nat /\ a.sz \in Nat \ {0} /\ p.base <= a.ptr /\ a.ptr + a.sz <= p.base + p.size
  BY <1>1 DEF Live, Inside
<1>6. AddrMod \in Nat \ {0} /\ IntMod \in Nat \ {0} /\ Units <= IntMod \div 2 /\ p.size <= AddrMod
  BY BuddyAllocatorAssumption, LevelFacts
<1>7. (a.ptr - p.base) % AddrMod = a.ptr - p.base
  <2> DEFINE d == a.ptr - p.base
  <2>1. d \in Nat /\ d < AddrMod
    BY <1>2, <1>5, <1>6
  <2> HIDE DEF d
  <2>2. d % AddrMod = d
    BY <1>6, <2>1, Z3
  <2> QED BY <2>2 DEF d
<1>8. ptr_to_addr(p, a.ptr) = ToInt(i)
  BY <1>3, <1>7 DEF ptr_to_addr
<1> HIDE DEF i
<1>9. ToInt(i) = i
  <2>1. i < IntMod \div 2 /\ i < IntMod
    BY <1>4, <1>6, Z3
  <2>2. i % IntMod = i
    BY <1>4, <1>6, <2>1, Z3
  <2> QED BY <2>1, <2>2 DEF ToInt
<1>10. a.ptr \in p.base..(p.base + p.size - 1)
  <2>1. \A b, s, x, z \in Nat : z # 0 /\ b <= x /\ x + z <= b + s => x \in b..(b + s - 1)
    OBVIOUS
  <2> QED BY <1>2, <1>5, <2>1
<1> QED BY <1>4, <1>8, <1>9, <1>10 DEF i, is_owner

(* Above a page, the distance counts units from its end up.                 *)
LEMMA UnitAbove ==
  ASSUME NEW m \in Nat \ {0}, NEW U \in Nat, NEW I \in Nat \ {0}, NEW d \in Nat,
         m * U <= d, d < I * m
  PROVE  (d \div m) % I \in U..(I - 1)
<1> DEFINE u == d \div m
<1>1. u \in Nat /\ m * u <= d /\ d < m * u + m
  BY BlockOf
<1> HIDE DEF u
<1>2. U * m = m * U /\ u * m = m * u /\ m * u \in Nat /\ (u + 1) * m = u * m + m
  BY <1>1, TimesOrder
<1>3. U * m < (u + 1) * m /\ u * m < I * m
  BY <1>1, <1>2
<1>4. U < u + 1 /\ u < I
  BY <1>1, <1>3, TimesOrder
<1>5. u % I = u
  BY <1>1, <1>4, Z3
<1> QED BY <1>1, <1>4, <1>5 DEF u

(* Below a page, the distance has wrapped, and units count down from that   *)
(* of the byte below it.                                                    *)
LEMMA UnitBelow ==
  ASSUME NEW A \in Nat \ {0}, NEW I \in Nat \ {0}, NEW U \in Nat, NEW m \in Nat \ {0},
         NEW k \in Nat \ {0}, NEW far \in Nat, k <= far, k <= A,
         ((A - 1) \div m) % I >= U + far \div m + 1
  PROVE  ((A - k) \div m) % I \in U..(I - 1)
<1> DEFINE h == (A - 1) \div m
           u == (A - k) \div m
           f == far \div m
           c == h \div I
           w == h % I
<1>1. /\ h \in Nat /\ m * h <= A - 1 /\ A - 1 < m * h + m
      /\ u \in Nat /\ m * u <= A - k /\ A - k < m * u + m
      /\ f \in Nat /\ m * f <= far /\ far < m * f + m
  BY BlockOf
<1>2. w >= U + f + 1
  OBVIOUS
<1> HIDE DEF h, u, f
<1>3. c \in Nat /\ w \in 0..(I - 1) /\ h = I * c + w
  BY <1>1, Z3
<1> HIDE DEF c, w
<1>4. u <= h
  <2>1. m * u \in Nat /\ m * h \in Nat /\ u * m = m * u /\ (h + 1) * m = m * h + m
    BY <1>1, TimesOrder
  <2>2. u * m < (h + 1) * m
    BY <1>1, <2>1
  <2> QED BY <1>1, <2>2, TimesOrder
<1>5. h < u + f + 2
  <2>1. /\ m * u \in Nat /\ m * f \in Nat /\ m * h \in Nat /\ h * m = m * h
        /\ (u + f + 2) * m = m * u + m * f + m + m
    BY <1>1, TimesOrder, Z3
  <2>2. h * m < (u + f + 2) * m
    BY <1>1, <2>1
  <2> QED BY <1>1, <2>2, TimesOrder
<1> DEFINE v == u - I * c
<1>6. v \in U..(I - 1)
  <2>1. I * c \in Nat
    BY <1>3
  <2> QED BY <1>1, <1>2, <1>3, <1>4, <1>5, <2>1
<1>7. u % I = v
  <2>1. u = I * c + v /\ v \in 0..(I - 1)
    BY <1>1, <1>3, <1>6
  <2> HIDE DEF v
  <2> QED BY <1>1, <1>3, <2>1, Z3
<1> QED BY <1>6, <1>7 DEF u

(* No pointer of another page is taken for one of this.                     *)
LEMMA NotOwner ==
  ASSUME PagesNear, Pool(pages, live), NEW n \in DOMAIN pages, NEW m \in DOMAIN pages,
         m # n, NEW x \in pages[n].base..(pages[n].base + pages[n].size - 1)
  PROVE  ~ is_owner(pages[m], x)
<1> DEFINE p == pages[m]
           q == pages[n]
           d == (x - p.base) % AddrMod
           u == (d \div p.min) % IntMod
<1>1. /\ p.min \in Nat \ {0} /\ p.base \in Nat /\ p.size = p.min * Units
      /\ q.base \in Nat /\ q.size \in Nat /\ x \in q.base..(q.base + q.size - 1)
  BY DEF Pool, PageInv, PageOK, Pages
<1>2. p.base + p.size + align <= q.base \/ q.base + q.size + align <= p.base
  BY DEF Pool, Apart
<1>3. /\ q.base + q.size <= AddrMod /\ p.base + p.size <= AddrMod
      /\ q.base + q.size - p.base <= IntMod * p.min
      /\ p.base > q.base => Below(p) >= Units + (p.base - q.base) \div p.min + 1
  BY DEF PagesNear
<1>4. /\ AddrMod \in Nat \ {0} /\ IntMod \in Nat \ {0} /\ Units \in Nat \ {0} /\ align \in Nat
      /\ Units <= IntMod \div 2
  BY BuddyAllocatorAssumption, LevelFacts
<1>5. p.size \in Nat \ {0} /\ IntMod * p.min \in Nat
  BY <1>1, <1>4, Z3
<1> HIDE DEF p, q
<1>6. u \in Units..(IntMod - 1)
  <2>1. CASE p.base + p.size + align <= q.base
    <3> DEFINE e == x - p.base
    <3>1. e \in Nat /\ p.size <= e /\ e < IntMod * p.min /\ e < AddrMod
      BY <1>1, <1>3, <1>4, <1>5, <2>1
    <3> HIDE DEF e
    <3>2. e % AddrMod = e
      BY <1>4, <3>1, Z3
    <3>3. (e \div p.min) % IntMod \in Units..(IntMod - 1)
      BY <1>1, <1>4, <3>1, UnitAbove
    <3> QED BY <3>2, <3>3 DEF e
  <2>2. CASE q.base + q.size + align <= p.base
    <3> DEFINE k == p.base - x
               far == p.base - q.base
    <3>1. k \in Nat \ {0} /\ far \in Nat /\ k <= far /\ k <= AddrMod /\ p.base > q.base
      BY <1>1, <1>3, <1>4, <1>5, <2>2
    <3>2. x - p.base = - k
      BY <1>1
    <3>3. Below(p) >= Units + far \div p.min + 1
      BY <1>3, <3>1
    <3> HIDE DEF k, far
    <3>4. k < AddrMod
      BY <1>1, <1>3, <1>4, <1>5, <3>1, <2>2 DEF k
    <3>5. (- k) % AddrMod = AddrMod - k
      BY <1>4, <3>1, <3>4, Z3
    <3>6. ((AddrMod - k) \div p.min) % IntMod \in Units..(IntMod - 1)
      BY <1>1, <1>4, <3>1, <3>3, UnitBelow DEF Below
    <3> QED BY <3>2, <3>5, <3>6
  <2> QED BY <1>2, <2>1, <2>2
<1>7. ptr_to_addr(p, x) = ToInt(d \div p.min)
  BY DEF ptr_to_addr
<1> HIDE DEF d
<1>8. ToInt(d \div p.min) = IF u < IntMod \div 2 THEN u ELSE u - IntMod
  BY DEF ToInt
<1> HIDE DEF u
<1>9. ptr_to_addr(p, x) \notin 0..(Units - 1)
  BY <1>4, <1>6, <1>7, <1>8, Z3
<1> QED BY <1>9 DEF is_owner, p

(* The page a pointer is found to belong to is the one it was taken from. *)
LEMMA OneOwner ==
  ASSUME PagesNear, Pool(pages, live), NEW a \in live
  PROVE  \E n \in DOMAIN pages :
           /\ Inside(a, pages[n])
           /\ {m \in DOMAIN pages : is_owner(pages[m], a.ptr)} = {n}
           /\ Min({m \in DOMAIN pages : is_owner(pages[m], a.ptr)}) = n
           /\ ptr_to_addr(pages[n], a.ptr) = Place(pages[n], a)[1]
<1>1. PICK n \in DOMAIN pages : Inside(a, pages[n])
  BY DEF Pool
<1>2. /\ pages[n].size <= AddrMod
      /\ \A x \in pages[n].base..(pages[n].base + pages[n].size - 1) :
           \A m \in DOMAIN pages : is_owner(pages[m], x) => m = n
  <2>1. pages[n].base \in Nat /\ pages[n].size \in Nat /\ AddrMod \in Nat
    BY BuddyAllocatorAssumption DEF Pool, PageInv, PageOK, Pages
  <2>2. pages[n].base + pages[n].size <= AddrMod
    BY DEF PagesNear
  <2>3. pages[n].size <= AddrMod
    BY <2>1, <2>2
  <2> QED BY <2>3, NotOwner
<1>3. /\ ptr_to_addr(pages[n], a.ptr) = Place(pages[n], a)[1]
      /\ is_owner(pages[n], a.ptr)
      /\ a.ptr \in pages[n].base..(pages[n].base + pages[n].size - 1)
  BY <1>1, <1>2, OwnerOf
<1>4. {m \in DOMAIN pages : is_owner(pages[m], a.ptr)} = {n}
  BY <1>2, <1>3
<1>5. n \in Nat
  BY LenProperties DEF Pool
<1>6. Min({n}) = n
  BY <1>5, MinOf
<1> QED BY <1>1, <1>3, <1>4, <1>6

LEMMA PoolReturns ==
  ASSUME PagesNear, PoolInv, NEW a \in live, Deallocate(a)
  PROVE  PoolInv'
<1>1. Pool(pages, live) /\ max_sz \in Nat \ {0}
  BY DEF PoolInv
<1>2. PICK n \in DOMAIN pages :
        /\ Inside(a, pages[n])
        /\ {m \in DOMAIN pages : is_owner(pages[m], a.ptr)} = {n}
        /\ Min({m \in DOMAIN pages : is_owner(pages[m], a.ptr)}) = n
        /\ ptr_to_addr(pages[n], a.ptr) = Place(pages[n], a)[1]
  BY <1>1, OneOwner
<1> DEFINE p == pages[n]
           q == mark_free(p, Place(p, a)[1], Place(p, a)[2])
<1>3. Place(p, a)[2] = sz_to_level(p, a.sz)
  BY DEF Place
<1>4. live' = live \ {a} /\ pages' = [pages EXCEPT ![n] = q] /\ max_sz' = max_sz
  BY <1>2, <1>3, Zenon DEF Deallocate
<1>5. PageInv(p, live) /\ live \in SUBSET Live /\ a \in On(p, live)
  BY <1>1, <1>2 DEF Pool, On
<1> HIDE DEF p, q
<1>6. PageInv(q, live \ {a}) /\ q \in Pages /\ q.min = p.min /\ q.base = p.base /\ q.size = p.size
  BY <1>5, ReleaseBlock DEF q
<1>7. live \ {a} \in SUBSET Live
  BY <1>5
<1>8. Pool([pages EXCEPT ![n] = q], live \ {a})
  BY <1>1, <1>2, <1>6, <1>7, ReplacePage DEF p
<1> QED BY <1>1, <1>4, <1>8 DEF PoolInv

LEMMA TriedSizes ==
  ASSUME max_sz \in Nat \ {0}, NEW sz \in Nat \ {0}
  PROVE  /\ DOMAIN Tried(sz) = 1..3
         /\ \A k \in DOMAIN Tried(sz) : Tried(sz)[k] \in Nat \ {0} /\ MaxSzAfter(sz, k) \in Nat \ {0}
<1>1. \A m \in Nat \ {0} : Max({m, sz}) \in Nat \ {0}
  <2> SUFFICES ASSUME NEW m \in Nat \ {0}
               PROVE  Max({m, sz}) \in Nat \ {0}
    OBVIOUS
  <2>1. {m, sz} \in SUBSET (0..(m + sz))
    OBVIOUS
  <2>2. Max({m, sz}) \in {m, sz}
    <3> DEFINE S == {m, sz}
               B == m + sz
    <3>1. S \in SUBSET (0..B) /\ S # {} /\ B \in Nat
      BY <2>1
    <3> HIDE DEF S, B
    <3>2. Max(S) \in S
      BY <3>1, MaxOf
    <3> QED BY <3>2 DEF S
  <2> QED BY <2>2
<1>2. Max({2 * max_sz, sz}) \in Nat \ {0} /\ Max({max_sz, sz}) \in Nat \ {0}
  BY <1>1
<1> QED BY <1>2 DEF Tried, MaxSzAfter

LEMMA PoolInit == Init => PoolInv
<1> SUFFICES ASSUME Init
             PROVE  PoolInv
  OBVIOUS
<1>1. InitialSize \in Nat \ {0} /\ Bases \subseteq Nat
  BY BuddyAllocatorAssumption
<1>2. PICK b \in Bases : pages = <<NewPage(InitialSize, b)>>
  BY DEF Init
<1>3. Pool(<<NewPage(InitialSize, b)>>, {})
  BY <1>1, PoolFresh
<1> QED BY <1>1, <1>2, <1>3 DEF Init, PoolInv

LEMMA PoolNext == PoolInv /\ PagesNear /\ [Next]_vars => PoolInv'
<1> SUFFICES ASSUME PoolInv, PagesNear, [Next]_vars
             PROVE  PoolInv'
  OBVIOUS
<1>1. /\ Pool(pages, live) /\ max_sz \in Nat \ {0} /\ pages \in Seq(Pages)
      /\ Sizes \subseteq Nat \ {0} /\ Bases \subseteq Nat
  BY BuddyAllocatorAssumption DEF PoolInv, Pool
<1>2. DOMAIN pages = 1..Len(pages) /\ Len(pages) \in Nat
  BY <1>1, LenProperties
<1>3. ASSUME NEW sz \in Sizes, AllocateOnPage(sz)
      PROVE  PoolInv'
  <2>1. Able(sz) # {} /\ Able(sz) \in SUBSET Nat
    BY <1>2, <1>3 DEF AllocateOnPage, Able
  <2>2. Min(Able(sz)) \in Able(sz)
    BY <2>1, MinOf
  <2>3. Min(Able(sz)) \in DOMAIN pages
    BY <2>2 DEF Able
  <2>4. Serve(pages, Min(Able(sz)), sz) /\ max_sz' = max_sz
    BY <1>3 DEF AllocateOnPage
  <2>5. Pool(pages', live')
    BY <1>1, <2>3, <2>4, PoolServe
  <2> QED BY <1>1, <2>4, <2>5 DEF PoolInv
<1>4. ASSUME NEW sz \in Sizes, AllocateOnNewPage(sz)
      PROVE  PoolInv'
  <2>1. PICK k \in DOMAIN Tried(sz), b \in Bases :
          /\ Fits(NewPage(Tried(sz)[k], b))
          /\ Serve(Append(pages, NewPage(Tried(sz)[k], b)), Len(pages) + 1, sz)
          /\ max_sz' = MaxSzAfter(sz, k)
    BY <1>4 DEF AllocateOnNewPage
  <2>2. Tried(sz)[k] \in Nat \ {0} /\ MaxSzAfter(sz, k) \in Nat \ {0}
    BY <1>1, TriedSizes
  <2> DEFINE p == NewPage(Tried(sz)[k], b)
             ps == Append(pages, p)
  <2>3. Pool(ps, live)
    BY <1>1, <2>1, <2>2, PoolGrows DEF Fits
  <2>4. Len(pages) + 1 \in DOMAIN ps
    BY <1>1, <1>2
  <2> HIDE DEF ps, p
  <2>5. Serve(ps, Len(pages) + 1, sz)
    BY <2>1 DEF ps, p
  <2>6. Pool(pages', live')
    BY <1>1, <2>3, <2>4, <2>5, PoolServe
  <2> QED BY <2>1, <2>2, <2>6 DEF PoolInv
<1>5. ASSUME NEW sz \in Sizes, AllocateThrows(sz)
      PROVE  PoolInv'
  <2>1. MaxSzAfter(sz, 3) \in Nat \ {0}
    BY <1>1, TriedSizes
  <2> QED BY <1>1, <1>5, <2>1 DEF AllocateThrows, PoolInv
<1>6. ASSUME NEW a \in live, Deallocate(a)
      PROVE  PoolInv'
  BY <1>6, PoolReturns
<1>7. CASE UNCHANGED vars
  BY <1>7 DEF vars, PoolInv, Pool
<1> QED BY <1>3, <1>4, <1>5, <1>6, <1>7 DEF Next

-----------------------------------------------------------------------------
(* What the pool promises.                                                  *)

LEMMA BlocksApart ==
  ASSUME NEW T, Tiling(T), NEW x \in T, NEW y \in T, x # y
  PROVE  x[1] + 2^(x[2]) <= y[1] \/ y[1] + 2^(y[2]) <= x[1]
<1>1. /\ x[1] \in Nat /\ 2^(x[2]) \in Nat \ {0} /\ y[1] \in Nat /\ 2^(y[2]) \in Nat \ {0}
      /\ Covers(x, x[1]) /\ Covers(y, y[1])
  BY BlockFacts DEF Tiling
<1>2. ~ Covers(y, x[1]) /\ ~ Covers(x, y[1])
  BY <1>1 DEF Tiling
<1> DEFINE P == 2^(x[2])
           Q == 2^(y[2])
<1>3. ~ (y[1] <= x[1] /\ x[1] < y[1] + Q) /\ ~ (x[1] <= y[1] /\ y[1] < x[1] + P)
  BY <1>2 DEF Covers
<1>4. P \in Nat \ {0} /\ Q \in Nat \ {0}
  BY <1>1
<1> HIDE DEF P, Q
<1>5. x[1] + P <= y[1] \/ y[1] + Q <= x[1]
  BY <1>1, <1>3, <1>4
<1> QED BY <1>5 DEF P, Q

LEMMA MultipleAligned ==
  ASSUME NEW g \in Nat \ {0}, NEW m \in Nat, m % g = 0, NEW i \in Nat
  PROVE  (i * m) % g = 0
<1> DEFINE k == m \div g
<1>1. k \in Nat /\ m = g * k
  BY Z3
<1> HIDE DEF k
<1> DEFINE c == i * k
<1>2. c \in Nat
  BY <1>1, Z3
<1>3. i * m = g * c
  BY <1>1, Z3
<1> HIDE DEF c
<1>4. (g * c) % g = 0
  BY <1>2, Z3
<1> QED BY <1>3, <1>4

LEMMA ApartHolds ==
  ASSUME PoolInv
  PROVE  HoldersApart
<1>1. /\ live \in SUBSET Live
      /\ \A n \in DOMAIN pages : pages[n] \in Pages /\ PageInv(pages[n], live)
      /\ \A m, n \in DOMAIN pages : m # n => Apart(pages[m], pages[n])
      /\ \A a \in live : \E n \in DOMAIN pages : Inside(a, pages[n])
  BY ElementOfSeq, LenProperties DEF PoolInv, Pool
<1>2. ASSUME NEW a \in live, NEW b \in live, a # b
      PROVE  a.ptr + a.sz <= b.ptr \/ b.ptr + b.sz <= a.ptr
  <2>1. PICK n \in DOMAIN pages : Inside(a, pages[n])
    BY <1>1
  <2>2. PICK k \in DOMAIN pages : Inside(b, pages[k])
    BY <1>1
  <2>3. a.ptr \in Nat /\ a.sz \in Nat /\ b.ptr \in Nat /\ b.sz \in Nat
    BY <1>1 DEF Live
  <2>4. CASE n # k
    <3> DEFINE p == pages[n]
               q == pages[k]
    <3>1. p.base \in Nat /\ p.size \in Nat /\ q.base \in Nat /\ q.size \in Nat /\ align \in Nat
      BY <1>1, LevelFacts DEF Pages
    <3>2. Apart(p, q) /\ Inside(a, p) /\ Inside(b, q)
      BY <1>1, <2>1, <2>2, <2>4
    <3> HIDE DEF p, q
    <3>3. /\ p.base + p.size + align <= q.base \/ q.base + q.size + align <= p.base
          /\ p.base <= a.ptr /\ a.ptr + a.sz <= p.base + p.size
          /\ q.base <= b.ptr /\ b.ptr + b.sz <= q.base + q.size
      BY <3>2 DEF Apart, Inside
    <3> QED BY <2>3, <3>1, <3>3
  <2>5. CASE n = k
    <3> DEFINE p == pages[n]
               m == p.min
               x == Place(p, a)
               y == Place(p, b)
               T == Free(p) \cup Held(p, live)
    <3>1. PageInv(p, live) /\ a \in On(p, live) /\ b \in On(p, live)
      BY <1>1, <2>1, <2>2, <2>5 DEF On
    <3>2. /\ x \in T /\ y \in T /\ Tiling(T) /\ x # y /\ m \in Nat \ {0} /\ p.base \in Nat
          /\ a.ptr = p.base + x[1] * m /\ a.sz <= 2^(x[2]) * m
          /\ b.ptr = p.base + y[1] * m /\ b.sz <= 2^(y[2]) * m
          /\ IsBlock(x) /\ IsBlock(y)
      <4>1. x # y
        BY <1>2, <3>1 DEF PageInv
      <4>2. m \in Nat \ {0} /\ p.base \in Nat /\ Tiling(T)
        BY <3>1 DEF PageInv, PageOK, Pages
      <4> QED BY <3>1, <4>1, <4>2, HeldOn
    <3> HIDE DEF p, m, x, y, T
    <3>3. x[1] \in Nat /\ y[1] \in Nat /\ 2^(x[2]) \in Nat /\ 2^(y[2]) \in Nat
      BY <3>2, BlockFacts
    <3>4. x[1] + 2^(x[2]) <= y[1] \/ y[1] + 2^(y[2]) <= x[1]
      BY <3>2, BlocksApart
    <3>5. ASSUME NEW i \in Nat, NEW j \in Nat, NEW s \in Nat, NEW u \in Nat, i + s <= j, u <= s * m
          PROVE  (p.base + i * m) + u <= p.base + j * m
      <4>1. (i + s) * m <= j * m /\ (i + s) * m = i * m + s * m /\ i * m \in Int /\ j * m \in Int /\ s * m \in Int
        BY <3>2, <3>5, TimesOrder
      <4> DEFINE A == i * m
                 B == j * m
                 C == s * m
      <4>2. A + C <= B /\ A \in Int /\ B \in Int /\ C \in Int /\ u <= C
        BY <3>5, <4>1
      <4> HIDE DEF A, B, C
      <4>3. (p.base + A) + u <= p.base + B
        BY <3>2, <4>2
      <4> QED BY <4>3 DEF A, B
    <3>6. CASE x[1] + 2^(x[2]) <= y[1]
      <4>1. (p.base + x[1] * m) + a.sz <= p.base + y[1] * m
        BY <2>3, <3>2, <3>3, <3>5, <3>6
      <4> QED BY <3>2, <4>1
    <3>7. CASE y[1] + 2^(y[2]) <= x[1]
      <4>1. (p.base + y[1] * m) + b.sz <= p.base + x[1] * m
        BY <2>3, <3>2, <3>3, <3>5, <3>7
      <4> QED BY <3>2, <4>1
    <3> QED BY <3>4, <3>6, <3>7
  <2> QED BY <2>4, <2>5
<1>3. ASSUME NEW a \in live
      PROVE  \E n \in DOMAIN pages : Inside(a, pages[n]) /\ (a.ptr - pages[n].base) % align = 0
  <2>1. PICK n \in DOMAIN pages : Inside(a, pages[n])
    BY <1>1
  <2> DEFINE p == pages[n]
             i == Place(p, a)[1]
  <2>2. PageInv(p, live) /\ a \in On(p, live)
    BY <1>1, <2>1 DEF On
  <2>3. p.min \in Nat /\ p.min % align = 0 /\ p.min # 0 /\ p.base \in Nat
    BY <2>2 DEF PageInv, PageOK, Pages
  <2>4. a.ptr = p.base + i * p.min /\ i \in Nat
    BY <2>2, HeldOn, BlockFacts
  <2> HIDE DEF i, p
  <2>5. a.ptr - p.base = i * p.min
    <3>1. i * p.min \in Nat
      BY <2>3, <2>4, UnitTimes
    <3> QED BY <2>3, <2>4, <3>1
  <2>6. (i * p.min) % align = 0
    BY <2>3, <2>4, LevelFacts, MultipleAligned
  <2>7. (a.ptr - p.base) % align = 0
    BY <2>5, <2>6
  <2> QED BY <2>1, <2>7 DEF p
<1> QED BY <1>2, <1>3 DEF HoldersApart

(* The units of a block, as the properties name them. *)
Interval(x) == [first |-> x[1], last |-> x[1] + 2^(x[2]) - 1]

LEMMA UnitsOf ==
  ASSUME PoolInv, NEW n \in DOMAIN pages
  PROVE  /\ FreeUnits(n) = {Interval(x) : x \in Free(pages[n])}
         /\ HeldUnits(n) = {Interval(x) : x \in Held(pages[n], live)}
<1> DEFINE p == pages[n]
<1>1. \A x \in Free(p) : IsBlock(x)
  BY DEF PoolInv, Pool, PageInv, Tiling
<1>2. Free(p) = {y \in (0..(Units - 1)) \X Levels : y[1] \in Range(p.free[y[2]])}
  <2>1. \A x \in Free(p) : x[1] \in 0..(Units - 1) /\ x[2] \in Levels /\ x = <<x[1], x[2]>>
    BY <1>1, BlockFacts
  <2>2. \A x \in Free(p) : x \in (0..(Units - 1)) \X Levels
    BY <2>1
  <2>3. 0..(Units - 1) \subseteq Nat
    BY LevelFacts
  <2> QED BY <2>2, <2>3 DEF Free
<1>3. FreeUnits(n) = {Interval(x) : x \in Free(p)}
  BY <1>2 DEF FreeUnits, Interval
<1>4. HeldUnits(n) = {Interval(Place(p, a)) : a \in On(p, live)}
  BY DEF HeldUnits, On, Place, Interval
<1>5. {Interval(Place(p, a)) : a \in On(p, live)} = {Interval(x) : x \in Held(p, live)}
  BY DEF Held
<1> QED BY <1>3, <1>4, <1>5

LEMMA FilledHolds ==
  ASSUME PoolInv
  PROVE  PagesFilled
<1> SUFFICES ASSUME NEW n \in DOMAIN pages
             PROVE  LET blocks == FreeUnits(n) \cup HeldUnits(n)
                    IN /\ \A x, y \in blocks : x # y => x.last < y.first \/ y.last < x.first
                       /\ UNION {x.first..x.last : x \in blocks} = 0..(Units - 1)
  BY DEF PagesFilled
<1> DEFINE T == Free(pages[n]) \cup Held(pages[n], live)
           blocks == FreeUnits(n) \cup HeldUnits(n)
<1>1. Tiling(T)
  BY DEF PoolInv, Pool, PageInv
<1>2. blocks = {Interval(x) : x \in T}
  BY UnitsOf
<1> HIDE DEF T, blocks
<1>3. \A x \in T : x[1] \in Nat /\ 2^(x[2]) \in Nat \ {0}
  BY <1>1, BlockFacts DEF Tiling
<1>4. \A x \in T : Interval(x).first = x[1] /\ Interval(x).last = x[1] + 2^(x[2]) - 1
  BY DEF Interval
<1>5. ASSUME NEW v \in blocks, NEW w \in blocks, v # w
      PROVE  v.last < w.first \/ w.last < v.first
  <2>1. PICK x \in T : v = Interval(x)
    BY <1>2
  <2>2. PICK y \in T : w = Interval(y)
    BY <1>2
  <2>3. x[1] + 2^(x[2]) <= y[1] \/ y[1] + 2^(y[2]) <= x[1]
    BY <1>1, <1>5, <2>1, <2>2, BlocksApart
  <2> DEFINE P == 2^(x[2])
             Q == 2^(y[2])
  <2>4. /\ P \in Nat \ {0} /\ Q \in Nat \ {0} /\ x[1] \in Nat /\ y[1] \in Nat
        /\ v.first = x[1] /\ v.last = x[1] + P - 1 /\ w.first = y[1] /\ w.last = y[1] + Q - 1
        /\ (x[1] + P <= y[1] \/ y[1] + Q <= x[1])
    BY <1>3, <1>4, <2>1, <2>2, <2>3
  <2> HIDE DEF P, Q
  <2> QED BY <2>4
<1>6. \A x \in T : \A u \in Int : u \in Interval(x).first..Interval(x).last <=> Covers(x, u)
  <2> SUFFICES ASSUME NEW x \in T, NEW u \in Int
               PROVE  u \in Interval(x).first..Interval(x).last <=> Covers(x, u)
    OBVIOUS
  <2> DEFINE P == 2^(x[2])
  <2>1. /\ P \in Nat \ {0} /\ x[1] \in Nat
        /\ Interval(x).first = x[1] /\ Interval(x).last = x[1] + P - 1
        /\ Covers(x, u) <=> x[1] <= u /\ u < x[1] + P
    BY <1>3, <1>4 DEF Covers
  <2> HIDE DEF P
  <2> QED BY <2>1
<1>7. ASSUME NEW u
      PROVE  (\E x \in T : u \in Interval(x).first..Interval(x).last) <=> u \in 0..(Units - 1)
  <2>1. ASSUME NEW x \in T, u \in Interval(x).first..Interval(x).last
        PROVE  u \in 0..(Units - 1)
    <3>1. u \in Nat
      <4>1. x[1] \in Nat
        BY <1>3
      <4>2. u \in Int /\ x[1] <= u
        BY <1>3, <1>4, <2>1
      <4> QED BY <4>1, <4>2
    <3>2. Covers(x, u) /\ IsBlock(x)
      BY <1>1, <1>6, <2>1, <3>1 DEF Tiling
    <3> QED BY <3>1, <3>2, BlockFacts
  <2>2. ASSUME u \in 0..(Units - 1)
        PROVE  \E x \in T : u \in Interval(x).first..Interval(x).last
    <3>1. PICK x \in T : Covers(x, u)
      BY <1>1, <2>2 DEF Tiling
    <3> QED BY <1>6, <2>2, <3>1
  <2> QED BY <2>1, <2>2
<1>8. UNION {v.first..v.last : v \in blocks} = 0..(Units - 1)
  <2>1. \A u : u \in UNION {v.first..v.last : v \in blocks} <=> \E x \in T : u \in Interval(x).first..Interval(x).last
    BY <1>2
  <2> QED BY <1>7, <2>1
<1> QED BY <1>5, <1>8 DEF blocks

(* The lowest of the free blocks of a page of which nothing is held has no  *)
(* free partner, and so it is the whole page.                               *)
LEMMA WholePageFree ==
  ASSUME NEW p, NEW L, PageInv(p, L), Held(p, L) = {}
  PROVE  \E x \in Free(p) : x[2] = nlevel - 1
<1> DEFINE F == Free(p)
           S == {l \in Levels : \E x \in F : x[2] = l}
<1>1. /\ Tiling(F) /\ \A x \in F : IsBlock(x)
      /\ \A x \in F : x[2] < nlevel - 1 => <<get_partner(x[1], x[2]), x[2]>> \notin F
  <2>1. Free(p) \cup Held(p, L) = F
    OBVIOUS
  <2> QED BY <2>1 DEF PageInv, Tiling
<1> HIDE DEF F
<1>2. PICK z \in F : Covers(z, 0)
  <2>1. 0 \in 0..(Units - 1)
    BY LevelFacts
  <2> QED BY <1>1, <2>1 DEF Tiling
<1>3. z[2] \in S /\ S \in SUBSET Nat
  BY <1>1, <1>2, BlockFacts, LevelFacts
<1>4. PICK l \in S : \A m \in S : l <= m
  BY <1>3, Smallest
<1>5. PICK x \in F : x[2] = l
  BY <1>4
<1>6. l \in Levels /\ l \in Nat /\ l <= nlevel - 1 /\ nlevel - 1 \in Nat
  BY <1>4, LevelFacts
<1>7. x[1] \in Nat /\ Merged(x[1], l) = x[1] /\ x[1] \in 0..(Units - 1) /\ Covers(x, x[1]) /\ x = <<x[1], l>>
  BY <1>1, <1>5, BlockFacts
<1>8. CASE l < nlevel - 1
  <2> DEFINE j == get_partner(x[1], l)
             i == x[1]
  <2>1. j \in Nat /\ j # i /\ Merged(j, l) = j /\ Merged(j, l + 1) = Merged(i, l + 1)
    BY <1>6, <1>7, PartnerOf
  <2>2. l \in Nat /\ l < nlevel - 1 /\ nlevel - 1 \in Levels
    BY <1>6, <1>8, LevelFacts
  <2>3. j \in 0..(Units - 1)
    <3>1. IsBlock(<<get_partner(Merged(i, l), l), l>>)
      BY <1>7, <2>2, LinkFacts
    <3>2. IsBlock(<<j, l>>)
      BY <1>7, <3>1
    <3>3. <<j, l>>[1] \in 0..(Units - 1)
      BY <3>2, BlockFacts
    <3> QED BY <3>3
  <2>4. PICK y \in F : Covers(y, j)
    BY <1>1, <2>3 DEF Tiling
  <2> DEFINE m == y[2]
  <2>5. m \in S /\ m \in Nat /\ l <= m /\ IsBlock(y) /\ y[1] \in Nat /\ y = <<y[1], m>>
    BY <1>1, <1>3, <1>4, <2>4, BlockFacts
  <2>6. Merged(j, m) = y[1]
    BY <2>1, <2>4, <2>5, BlockFacts
  <2> HIDE DEF j, i, m
  <2>7. CASE m = l
    <3>1. y[1] = j
      BY <2>1, <2>6, <2>7
    <3>2. y = <<j, l>>
      BY <2>5, <2>7, <3>1
    <3>3. <<j, l>> \notin F
      BY <1>1, <1>5, <2>2 DEF j
    <3> QED BY <2>4, <3>2, <3>3
  <2>8. CASE l + 1 <= m
    <3>1. l + 1 \in Nat /\ i \in Nat
      BY <1>6, <1>7 DEF i
    <3>2. Merged(Merged(j, l + 1), m) = Merged(j, m) /\ Merged(Merged(i, l + 1), m) = Merged(i, m)
      BY <2>1, <2>5, <2>8, <3>1, MergedUp
    <3>3. Merged(i, m) = y[1]
      BY <2>1, <2>6, <3>2
    <3>4. Covers(y, i)
      BY <2>5, <3>1, <3>3, BlockFacts DEF m
    <3>5. y = x
      BY <1>1, <1>5, <1>7, <2>4, <3>1, <3>4 DEF Tiling, i
    <3>6. m = l
      BY <1>5, <3>5 DEF m
    <3> QED BY <1>6, <2>8, <3>6
  <2> QED BY <1>6, <2>5, <2>7, <2>8
<1>9. CASE l = nlevel - 1
  BY <1>5, <1>9 DEF F
<1> QED BY <1>6, <1>8, <1>9

LEMMA CleanupHolds ==
  ASSUME PoolInv
  PROVE  CleanupSucceeds
<1> SUFFICES ASSUME NEW n \in DOMAIN pages, HeldUnits(n) = {}
             PROVE  pages[n].free[nlevel - 1] # <<>>
  BY DEF CleanupSucceeds
<1>1. PageInv(pages[n], live)
  BY DEF PoolInv, Pool
<1>2. Held(pages[n], live) = {}
  BY UnitsOf
<1>3. PICK x \in Free(pages[n]) : x[2] = nlevel - 1
  BY <1>1, <1>2, WholePageFree
<1>4. x[1] \in Range(pages[n].free[nlevel - 1])
  BY <1>3 DEF Free
<1> QED BY <1>4 DEF Range

LEMMA OwnerHolds ==
  ASSUME PoolInv, PagesNear
  PROVE  OwnerFound
<1> SUFFICES ASSUME NEW a \in live
             PROVE  /\ {n \in DOMAIN pages : is_owner(pages[n], a.ptr)} # {}
                    /\ Inside(a, pages[Min({n \in DOMAIN pages : is_owner(pages[n], a.ptr)})])
  BY DEF OwnerFound
<1>1. PICK n \in DOMAIN pages :
        /\ Inside(a, pages[n])
        /\ {m \in DOMAIN pages : is_owner(pages[m], a.ptr)} = {n}
        /\ Min({m \in DOMAIN pages : is_owner(pages[m], a.ptr)}) = n
  BY OneOwner DEF PoolInv
<1> QED BY <1>1

-----------------------------------------------------------------------------
(* The blocks that are free and held tile each page, whatever was split,    *)
(* merged and given back in whatever order, as long as the pages lie near   *)
(* enough to each other for the distances between them.                     *)
THEOREM PoolTiled == Spec /\ []PagesNear => []PoolInv
<1>1. Init => PoolInv
  BY PoolInit
<1>2. PoolInv /\ PagesNear /\ [Next]_vars => PoolInv'
  BY PoolNext
<1> QED BY <1>1, <1>2, PTL DEF Spec

(* No two holders share a byte, and each has all it asked for, aligned.     *)
THEOREM PoolHoldersApart == Spec /\ []PagesNear => []HoldersApart
BY PoolTiled, ApartHolds, PTL

(* No unit of a page is lost, and none is both free and held.               *)
THEOREM PoolPagesFilled == Spec /\ []PagesNear => []PagesFilled
BY PoolTiled, FilledHolds, PTL

(* A page of which nothing is held any more has merged back into one block. *)
THEOREM PoolCleanupSucceeds == Spec /\ []PagesNear => []CleanupSucceeds
BY PoolTiled, CleanupHolds, PTL

(* A pointer is given back to the page it was taken from: whether the page  *)
(* it is compared with lies above it, so that the distance wraps, or below, *)
(* and is cut to an int.                                                    *)
THEOREM PoolOwnerFound == Spec /\ []PagesNear => []OwnerFound
BY PoolTiled, OwnerHolds, PTL
=============================================================================
