--------------------------- MODULE Analyse_proofs ---------------------------
(***************************************************************************)
(* What holds of the analysis and of the solve for every tree, machine and *)
(* method of choosing the subtrees: first the folds and searches they are  *)
(* made of, then the tree, the parts, prune_tree with its sort, the        *)
(* subtrees that come out, and the order in which they are solved.         *)
(***************************************************************************)
EXTENDS Solve, FiniteSetTheorems, SequenceTheorems, WellFoundedInduction, TLAPS

-----------------------------------------------------------------------------
(* Least elements, and numbers in order.                                    *)

LessThan == {ss \in Nat \X Nat : ss[1] < ss[2]}

LEMMA LessWellFounded == IsWellFoundedOn(LessThan, Nat)
<1>1. LessThan = OpToRel(<, Nat)
  BY DEF LessThan, OpToRel
<1> QED
  BY <1>1, NatLessThanWellFounded

LEMMA Smallest ==
  ASSUME NEW T \in SUBSET Nat, T # {}
  PROVE  \E x \in T : \A y \in T : x <= y
<1>1. PICK x \in T : \A y \in T : ~ (<<y, x>> \in LessThan)
  BY LessWellFounded, WFMin, Zenon
<1>2. \A y \in T : ~ (y < x)
  BY <1>1 DEF LessThan
<1> QED BY <1>2

LEMMA MinIs ==
  ASSUME NEW T \in SUBSET Nat, T # {}
  PROVE  Min(T) \in T /\ \A y \in T : Min(T) <= y
<1>1. \E x \in T : \A y \in T : x =< y
  BY Smallest
<1> QED BY <1>1 DEF Min

(* A function on 1..n is a sequence.                                        *)
LEMMA IsSeq ==
  ASSUME NEW S, NEW n \in Nat, NEW f \in [1..n -> S]
  PROVE  f \in Seq(S)
<1>1. f \in UNION {[1..m -> S] : m \in Nat}
  OBVIOUS
<1> QED BY <1>1, SeqDef, Zenon


(* s has the numbers of S in increasing order.                              *)
Enumerates(s, S) ==
  /\ s \in Seq(S)
  /\ \A k, l \in 1..Len(s) : k < l => s[k] < s[l]
  /\ \A x \in S : \E k \in 1..Len(s) : s[k] = x

LEMMA InOrderIs ==
  ASSUME NEW S \in SUBSET Nat, IsFiniteSet(S)
  PROVE  Enumerates(InOrder(S), S) /\ Len(InOrder(S)) = Cardinality(S)
<1> DEFINE upTo(x) == {y \in S : y <= x}
           N == Cardinality(S)
           rank == [x \in S |-> Cardinality(upTo(x))]
           s == InOrder(S)
<1>1. N \in Nat
  BY FS_CardinalityType
<1>2. \A x \in S : IsFiniteSet(upTo(x)) /\ rank[x] \in 1..N
  <2> TAKE x \in S
  <2>1. upTo(x) \in SUBSET S
    OBVIOUS
  <2>2. IsFiniteSet(upTo(x)) /\ Cardinality(upTo(x)) <= N
    BY <2>1, FS_Subset
  <2>3. Cardinality(upTo(x)) \in Nat /\ Cardinality(upTo(x)) # 0
    <3>1. x \in upTo(x)
      OBVIOUS
    <3> QED BY <2>2, <3>1, FS_CardinalityType, FS_EmptySet
  <2> QED BY <1>1, <2>2, <2>3
<1>3. ASSUME NEW x \in S, NEW y \in S, x < y
      PROVE  rank[x] < rank[y]
  <2>1. upTo(x) \in SUBSET upTo(y) /\ y \in upTo(y) /\ y \notin upTo(x)
    <3>1. x \in Nat /\ y \in Nat /\ ~ (y <= x)
      BY <1>3
    <3>2. \A z \in S : z <= x => z <= y
      BY <1>3, <3>1
    <3>3. y <= y
      BY <3>1
    <3>4. y \in upTo(y) /\ y \notin upTo(x)
      BY <3>1, <3>3
    <3>5. upTo(x) \subseteq upTo(y)
      BY <3>2
    <3> QED BY <3>4, <3>5
  <2>2. Cardinality(upTo(x)) <= Cardinality(upTo(y)) /\ Cardinality(upTo(x)) # Cardinality(upTo(y))
    BY <1>2, <2>1, FS_Subset
  <2>3. rank[x] \in Nat /\ rank[y] \in Nat /\ rank[x] = Cardinality(upTo(x)) /\ rank[y] = Cardinality(upTo(y))
    BY <1>2
  <2> HIDE DEF rank, upTo
  <2> QED BY <2>2, <2>3
<1>4. rank \in Injection(S, 1..N)
  <2>1. rank \in [S -> 1..N]
    BY <1>2
  <2>2. ASSUME NEW x \in S, NEW y \in S, rank[x] = rank[y]
        PROVE  x = y
    <3>1. x < y \/ y < x \/ x = y
      OBVIOUS
    <3>2. rank[x] \in Nat /\ rank[y] \in Nat
      BY <1>2
    <3> HIDE DEF rank
    <3> QED BY <1>3, <2>2, <3>1, <3>2
  <2> HIDE DEF rank
  <2> QED BY <2>1, <2>2 DEF Injection, IsInjective
<1>5. rank \in Surjection(S, 1..N)
  <2>1. IsFiniteSet(1..N) /\ Cardinality(1..N) = N
    BY <1>1, FS_Interval
  <2> QED BY <1>4, <2>1, FS_Injection
<1>6. \A k \in 1..N : \E x \in S : rank[x] = k
  BY <1>5 DEF Surjection
<1>7. \A k \in 1..N : s[k] \in S /\ rank[s[k]] = k
  <2> TAKE k \in 1..N
  <2>1. \E x \in S : Cardinality(upTo(x)) = k
    BY <1>6
  <2>2. s[k] = CHOOSE x \in S : Cardinality(upTo(x)) = k
    BY DEF InOrder
  <2>3. s[k] \in S /\ Cardinality(upTo(s[k])) = k
    BY <2>1, <2>2
  <2> QED BY <2>3
<1>8. DOMAIN s = 1..N /\ s = [k \in 1..N |-> s[k]]
  BY DEF InOrder
<1> HIDE DEF s, rank, N
<1>9. s \in [1..N -> S]
  BY <1>7, <1>8
<1>10. s \in Seq(S) /\ Len(s) = N
  <2>1. s \in Seq(S)
    BY <1>1, <1>9, SeqDef
  <2> QED BY <1>1, <1>8, <2>1, LenProperties
<1>11. ASSUME NEW k \in 1..N, NEW l \in 1..N, k < l
       PROVE  s[k] < s[l]
  <2>1. s[k] \in Nat /\ s[l] \in Nat /\ rank[s[k]] = k /\ rank[s[l]] = l /\ s[k] \in S /\ s[l] \in S
    BY <1>7
  <2>2. s[l] < s[k] \/ s[k] = s[l] \/ s[k] < s[l]
    BY <2>1
  <2>3. ~ (s[l] < s[k])
    BY <1>1, <1>3, <1>11, <2>1
  <2>4. s[k] # s[l]
    BY <1>1, <1>11, <2>1
  <2> QED BY <2>2, <2>3, <2>4
<1>12. ASSUME NEW x \in S
       PROVE  \E k \in 1..N : s[k] = x
  <2>1. rank[x] \in 1..N
    BY <1>2
  <2>2. s[rank[x]] \in S /\ rank[s[rank[x]]] = rank[x]
    BY <1>7, <2>1
  <2>3. s[rank[x]] = x
    BY <1>4, <2>2 DEF Injection, IsInjective
  <2> QED BY <2>1, <2>3
<1> QED
  BY <1>10, <1>11, <1>12 DEF Enumerates, s, N

-----------------------------------------------------------------------------
(* Folds. What holds of the accumulator after k elements is a set S[k]; the *)
(* step of the k-th element is the function F[k].                           *)

Steps(n, S, F) == \A k \in 1..n : F[k] \in [S[k - 1] -> S[k]]

Iterates(g, n, S, base, F) ==
  /\ g = [k \in 0..n |-> g[k]]
  /\ g[0] = base
  /\ \A k \in 0..n : g[k] \in S[k]
  /\ \A k \in 1..n : g[k] = F[k][g[k - 1]]

LEMMA IterateExists ==
  ASSUME NEW n \in Nat, NEW S, NEW base \in S[0], NEW F, Steps(n, S, F)
  PROVE  \E g : Iterates(g, n, S, base, F)
<1> DEFINE Bad == {m \in 0..n : ~ \E g : Iterates(g, m, S, base, F)}
<1>1. Bad = {}
  <2> SUFFICES ASSUME Bad # {} PROVE FALSE
    OBVIOUS
  <2>1. Bad \in SUBSET Nat
    OBVIOUS
  <2>2. PICK m \in Bad : \A y \in Bad : m <= y
    BY <2>1, Smallest
  <2>3. m # 0
    <3>1. Iterates([k \in 0..0 |-> base], 0, S, base, F)
      BY DEF Iterates
    <3> QED BY <3>1
  <2>4. m \in 0..n
    OBVIOUS
  <2>5. m - 1 \in 0..n /\ m \in 1..n /\ ~ (m <= m - 1)
    BY <2>3, <2>4
  <2>6. m - 1 \notin Bad
    BY <2>2, <2>5
  <2>7. PICK g : Iterates(g, m - 1, S, base, F)
    BY <2>5, <2>6
  <2> DEFINE e == [k \in 0..m |-> IF k = m THEN F[m][g[m - 1]] ELSE g[k]]
  <2>8. F[m][g[m - 1]] \in S[m]
    <3>1. g[m - 1] \in S[m - 1]
      BY <2>5, <2>7 DEF Iterates
    <3>2. F[m] \in [S[m - 1] -> S[m]]
      BY <2>5 DEF Steps
    <3> QED BY <3>1, <3>2
  <2>9. \A k \in 0..m : e[k] \in S[k]
    <3> TAKE k \in 0..m
    <3>1. CASE k = m
      BY <2>8, <3>1
    <3>2. CASE k # m
      <4>1. k \in 0..(m - 1) /\ e[k] = g[k]
        BY <2>5, <3>2
      <4> QED BY <2>7, <4>1 DEF Iterates
    <3> QED BY <3>1, <3>2
  <2>10. ASSUME NEW k \in 1..m
         PROVE  e[k] = F[k][e[k - 1]]
    <3>1. k - 1 \in 0..m /\ k - 1 # m /\ k \in 0..m /\ e[k - 1] = g[k - 1]
      BY <2>5
    <3>2. CASE k = m
      BY <3>1, <3>2
    <3>3. CASE k # m
      <4>1. k \in 1..(m - 1) /\ e[k] = g[k]
        BY <2>5, <3>1, <3>3
      <4> QED BY <2>7, <3>1, <4>1 DEF Iterates
    <3> QED BY <3>2, <3>3
  <2>11. e[0] = base /\ e = [k \in 0..m |-> e[k]]
    <3>1. 0 \in 0..m /\ 0 # m
      BY <2>5
    <3> QED BY <2>7, <3>1 DEF Iterates
  <2> HIDE DEF e
  <2>12. Iterates(e, m, S, base, F)
    BY <2>9, <2>10, <2>11 DEF Iterates
  <2> QED BY <2>12
<1>2. n \notin Bad
  BY <1>1
<1> QED BY <1>2

LEMMA SameIterates ==
  ASSUME NEW n \in Nat, NEW g, NEW h, g[0] = h[0],
         \A k \in 1..n : g[k - 1] = h[k - 1] => g[k] = h[k]
  PROVE  \A k \in 0..n : g[k] = h[k]
<1> DEFINE Bad == {m \in 0..n : g[m] # h[m]}
<1>1. Bad = {}
  <2> SUFFICES ASSUME Bad # {} PROVE FALSE
    OBVIOUS
  <2>1. Bad \in SUBSET Nat
    OBVIOUS
  <2>2. PICK m \in Bad : \A y \in Bad : m <= y
    BY <2>1, Smallest
  <2>3. m \in 1..n /\ m - 1 \in 0..n /\ ~ (m <= m - 1)
    <3>1. m \in 0..n /\ m # 0
      OBVIOUS
    <3> QED BY <3>1
  <2>4. g[m - 1] = h[m - 1]
    BY <2>2, <2>3
  <2> QED BY <2>3, <2>4
<1> QED BY <1>1

(* Recursion from a number to some that are smaller: values in V, the value *)
(* of j computed by F[j] from those of the numbers in C[j].                 *)
Rules(N, C, V, F) ==
  \A j \in 1..N : C[j] \in SUBSET (1..(j - 1)) /\ F[j] \in [[C[j] -> V] -> V]

Course(m, g, C, V, F) ==
  /\ g \in [1..m -> V]
  /\ \A j \in 1..m : g[j] = F[j][[c \in C[j] |-> g[c]]]

LEMMA CourseExists ==
  ASSUME NEW N \in Nat, NEW C, NEW V, NEW F, Rules(N, C, V, F)
  PROVE  \E g : Course(N, g, C, V, F)
<1> DEFINE Bad == {m \in 0..N : ~ \E g : Course(m, g, C, V, F)}
<1> USE DEF Course, Rules
<1>1. Bad = {}
  <2> SUFFICES ASSUME Bad # {} PROVE FALSE
    OBVIOUS
  <2>1. Bad \in SUBSET Nat
    OBVIOUS
  <2>2. PICK m \in Bad : \A y \in Bad : m <= y
    BY <2>1, Smallest
  <2>3. m # 0
    <3>1. Course(0, [k \in 1..0 |-> 0], C, V, F)
      OBVIOUS
    <3> QED BY <3>1
  <2>4. m \in 0..N
    OBVIOUS
  <2>5. m - 1 \in 0..N /\ m \in 1..N /\ ~ (m <= m - 1)
    BY <2>3, <2>4
  <2>6. m - 1 \notin Bad
    BY <2>2, <2>5
  <2>7. PICK g : Course(m - 1, g, C, V, F)
    BY <2>5, <2>6
  <2> DEFINE new == F[m][[c \in C[m] |-> g[c]]]
             e == [k \in 1..m |-> IF k = m THEN new ELSE g[k]]
  <2>8. new \in V
    <3>1. C[m] \in SUBSET (1..(m - 1)) /\ F[m] \in [[C[m] -> V] -> V]
      BY <2>5
    <3>2. [c \in C[m] |-> g[c]] \in [C[m] -> V]
      BY <2>7, <3>1
    <3> QED BY <3>1, <3>2
  <2>9. \A k \in 1..(m - 1) : k \in 1..m /\ k # m /\ e[k] = g[k]
    BY <2>5
  <2>10. ASSUME NEW j \in 1..m
         PROVE  e[j] = F[j][[c \in C[j] |-> e[c]]] /\ e[j] \in V
    <3>1. j \in 1..N /\ C[j] \in SUBSET (1..(j - 1))
      <4>1. j \in 1..N
        BY <2>5
      <4> QED BY <4>1
    <3>2. C[j] \subseteq 1..(m - 1)
      <4>1. \A k \in 1..(j - 1) : k \in 1..(m - 1)
        BY <2>5
      <4> QED BY <3>1, <4>1
    <3>3. [c \in C[j] |-> e[c]] = [c \in C[j] |-> g[c]]
      BY <2>9, <3>2
    <3>4. CASE j = m
      <4>1. e[m] = new
        BY <2>5
      <4> QED BY <2>8, <3>3, <3>4, <4>1
    <3>5. CASE j # m
      <4>1. j \in 1..(m - 1)
        BY <2>5, <3>5
      <4>2. e[j] = g[j] /\ g[j] \in V /\ g[j] = F[j][[c \in C[j] |-> g[c]]]
        BY <2>7, <2>9, <4>1
      <4> QED BY <3>3, <4>2
    <3> QED BY <3>4, <3>5
  <2>11. e = [k \in 1..m |-> e[k]]
    OBVIOUS
  <2> HIDE DEF e
  <2>12. Course(m, e, C, V, F)
    BY <2>10, <2>11
  <2> QED BY <2>12
<1>2. \E g : Course(N, g, C, V, F)
  <2>1. N \in 0..N /\ N \notin Bad
    BY <1>1
  <2> QED BY <2>1
<1> QED BY <1>2

-----------------------------------------------------------------------------
(* The tree: children in order, and the nodes below a node.                 *)

LEMMA ChildrenIs ==
  ASSUME NEW in, ValidInput(in), NEW j \in 1..(in.n + 1)
  PROVE  /\ Enumerates(ChildrenOf(in)[j], {i \in 1..in.n : in.parent[i] = j})
         /\ ToSet(ChildrenOf(in)[j]) = {i \in 1..in.n : in.parent[i] = j}
         /\ {i \in 1..in.n : in.parent[i] = j} \in SUBSET (1..(j - 1))
<1> DEFINE S == {i \in 1..in.n : in.parent[i] = j}
           s == ChildrenOf(in)[j]
<1>1. in.n \in Nat \ {0} /\ \A i \in 1..in.n : in.parent[i] > i /\ in.parent[i] \in 2..(in.n + 1)
  BY DEF ValidInput
<1>2. S \in SUBSET Nat /\ IsFiniteSet(S)
  <2>1. IsFiniteSet(1..in.n)
    BY <1>1, FS_Interval
  <2>2. S \in SUBSET (1..in.n)
    OBVIOUS
  <2>3. \A i \in 1..in.n : i \in Nat
    BY <1>1
  <2> HIDE DEF S
  <2> QED BY <2>1, <2>2, <2>3, FS_Subset
<1>3. s = InOrder(S)
  BY DEF ChildrenOf
<1>4. Enumerates(s, S)
  BY <1>2, <1>3, InOrderIs
<1> HIDE DEF s
<1>5. ToSet(s) = S
  <2>1. s \in Seq(S) /\ Len(s) \in Nat /\ DOMAIN s = 1..Len(s)
    BY <1>4, LenProperties DEF Enumerates
  <2>2. \A k \in 1..Len(s) : s[k] \in S
    BY <2>1, ElementOfSeq
  <2> QED BY <1>4, <2>1, <2>2 DEF ToSet, Enumerates
<1>6. S \subseteq 1..(j - 1)
  <2>1. ASSUME NEW i \in S
        PROVE  i \in 1..(j - 1)
    <3>1. i \in 1..in.n /\ j > i
      BY <1>1
    <3> QED BY <1>1, <3>1
  <2> QED BY <2>1
<1> QED BY <1>4, <1>5, <1>6 DEF s

(* d gives the least of the nodes below each node.                          *)
LeastBelow(d, in) ==
  d = [j \in 1..(in.n + 1) |-> Min({j} \cup {d[c] : c \in {i \in 1..in.n : in.parent[i] = j}})]

LEMMA LeastDescIs ==
  ASSUME NEW in, ValidInput(in)
  PROVE  LeastBelow(LeastDescOf(in, ChildrenOf(in)), in)
<1> DEFINE N == in.n + 1
           C == [j \in 1..N |-> {i \in 1..in.n : in.parent[i] = j}]
           T(j, f) == {j} \cup {f[c] : c \in C[j]}
           F == [j \in 1..N |-> [f \in [C[j] -> Nat] |-> Min(T(j, f))]]
           child == ChildrenOf(in)
           D(d) == [j \in 1..N |-> Min({j} \cup {d[c] : c \in ToSet(child[j])})]
           d == CHOOSE d : d = D(d)
<1>1. N \in Nat
  BY DEF ValidInput
<1>2. \A j \in 1..N : C[j] \in SUBSET (1..(j - 1)) /\ ToSet(child[j]) = C[j]
  <2> TAKE j \in 1..N
  <2>1. C[j] = {i \in 1..in.n : in.parent[i] = j}
    OBVIOUS
  <2>2. j \in 1..(in.n + 1)
    OBVIOUS
  <2>3. /\ ToSet(ChildrenOf(in)[j]) = {i \in 1..in.n : in.parent[i] = j}
        /\ {i \in 1..in.n : in.parent[i] = j} \in SUBSET (1..(j - 1))
    BY <2>2, ChildrenIs
  <2> HIDE DEF C
  <2> QED BY <2>1, <2>3
<1>3. \A j \in 1..N : F[j] \in [[C[j] -> Nat] -> Nat]
  <2> TAKE j \in 1..N
  <2>1. ASSUME NEW f \in [C[j] -> Nat]
        PROVE  Min(T(j, f)) \in Nat
    <3>1. T(j, f) \in SUBSET Nat /\ T(j, f) # {}
      BY <1>1
    <3> HIDE DEF T
    <3> QED BY <3>1, MinIs
  <2> HIDE DEF T
  <2> QED BY <2>1
<1>4. PICK g \in [1..N -> Nat] : \A j \in 1..N : g[j] = F[j][[c \in C[j] |-> g[c]]]
  <2>1. Rules(N, C, Nat, F)
    BY <1>2, <1>3 DEF Rules
  <2> HIDE DEF C, F, N, D, d, T, child
  <2>2. \E g : Course(N, g, C, Nat, F)
    BY <1>1, <2>1, CourseExists
  <2> QED BY <2>2 DEF Course
<1>5. g = D(g)
  <2>1. ASSUME NEW j \in 1..N
        PROVE  g[j] = D(g)[j]
    <3> DEFINE f == [c \in C[j] |-> g[c]]
    <3>1. C[j] \subseteq 1..N
      <4>1. \A k \in 1..(j - 1) : k \in 1..N
        BY <1>1
      <4> QED BY <1>2, <4>1
    <3>2. f \in [C[j] -> Nat]
      <4>1. \A c \in C[j] : g[c] \in Nat
        BY <3>1
      <4> HIDE DEF C
      <4> QED BY <4>1
    <3>3. g[j] = Min(T(j, f))
      BY <1>4, <3>2
    <3>4. T(j, f) = {j} \cup {g[c] : c \in ToSet(child[j])}
      BY <1>2
    <3> HIDE DEF T, f
    <3> QED BY <3>3, <3>4
  <2> HIDE DEF N
  <2> QED BY <2>1
<1>6. d = D(d)
  BY <1>5
<1>7. LeastDescOf(in, child) = d
  BY DEF LeastDescOf
<1> HIDE DEF d
<1>8. D(d) = [j \in 1..(in.n + 1) |->
                Min({j} \cup {d[c] : c \in {i \in 1..in.n : in.parent[i] = j}})]
  BY <1>2
<1>9. LeastBelow(d, in)
  <2> HIDE DEF D
  <2> QED BY <1>6, <1>8 DEF LeastBelow
<1> HIDE DEF D
<1> QED BY <1>7, <1>9

(* What is known of the postorder and of the first descendants d: what is   *)
(* below a node is an interval that no parent of a node in it leaves.       *)
Interval(p, d, j) ==
  /\ d[j] \in 1..j
  /\ \A k \in d[j]..(j - 1) : p[k] <= j
  /\ d[j] = 1 \/ p[d[j] - 1] > j

PostOrder(n, p) ==
  /\ n \in Nat \ {0}
  /\ p \in [1..n -> 2..(n + 1)]
  /\ \A i \in 1..n : p[i] > i /\ \A j \in i..(p[i] - 1) : p[j] <= p[i]

(* One node, given what holds of its children.                              *)
LEMMA IntervalOf ==
  ASSUME NEW n, NEW p, PostOrder(n, p), NEW d, NEW j \in 1..(n + 1),
         \A c \in 1..(j - 1) : Interval(p, d, c),
         d[j] = Min({j} \cup {d[c] : c \in {i \in 1..n : p[i] = j}})
  PROVE  Interval(p, d, j)
<1> DEFINE C == {i \in 1..n : p[i] = j}
           T == {j} \cup {d[c] : c \in C}
<1>1. n \in Nat \ {0} /\ j \in Nat /\ \A i \in 1..n : i \in Nat /\ p[i] \in Nat /\ p[i] > i
  BY DEF PostOrder
<1>2. \A c \in C : c \in 1..(j - 1) /\ Interval(p, d, c) /\ c \in 1..n /\ p[c] = j
  <2> TAKE c \in C
  <2>1. c \in 1..n /\ p[c] = j /\ p[c] > c
    BY <1>1
  <2>2. c \in 1..(j - 1)
    BY <1>1, <2>1
  <2> QED BY <2>1, <2>2
<1>3. \A c \in C : d[c] \in 1..c /\ d[c] \in Nat
  BY <1>1, <1>2 DEF Interval
<1>4. T \in SUBSET Nat /\ T # {}
  BY <1>1, <1>3
<1> HIDE DEF T
<1>5. d[j] \in T /\ \A x \in T : d[j] <= x
  <2>1. d[j] = Min(T)
    BY DEF T
  <2>2. Min(T) \in T /\ \A x \in T : Min(T) <= x
    BY <1>4, MinIs
  <2> QED BY <2>1, <2>2
<1>6. CASE C = {}
  <2>1. d[j] = j
    BY <1>5, <1>6 DEF T
  <2>2. j = 1 \/ p[j - 1] > j
    <3>1. CASE j # 1
      <4>1. j - 1 \in 1..n /\ p[j - 1] > j - 1 /\ p[j - 1] # j
        BY <1>1, <1>6, <3>1
      <4> QED BY <1>1, <4>1
    <3> QED BY <3>1
  <2>3. j \in 1..j /\ \A k \in j..(j - 1) : FALSE
    BY <1>1
  <2> QED BY <2>1, <2>2, <2>3 DEF Interval
<1>7. CASE C # {}
  <2>1. PICK c \in C : \A y \in C : c <= y
    <3>1. C \in SUBSET Nat
      BY <1>1
    <3> HIDE DEF C
    <3> QED BY <1>7, <3>1, Smallest
  <2>2. c \in 1..(j - 1) /\ c \in 1..n /\ p[c] = j /\ d[c] \in 1..c /\ Interval(p, d, c)
    BY <1>2, <1>3
  <2>3. ASSUME NEW y \in C
        PROVE  d[c] <= d[y]
    <3>1. c <= y /\ y \in 1..(j - 1) /\ d[y] \in 1..y /\ Interval(p, d, y)
      BY <1>2, <1>3, <2>1
    <3>2. CASE c = y
      BY <1>1, <2>2, <3>2
    <3>3. CASE c # y
      <4>1. c \in Nat /\ y \in Nat /\ d[y] \in Nat /\ d[c] \in Nat /\ c < y /\ d[c] <= c
        BY <1>1, <2>2, <3>1, <3>3
      <4>2. ~ (d[y] <= c)
        <5>1. SUFFICES ASSUME d[y] <= c PROVE FALSE
          OBVIOUS
        <5>2. c \in d[y]..(y - 1)
          BY <4>1, <5>1
        <5>3. p[c] <= y
          BY <3>1, <5>2 DEF Interval
        <5> QED BY <1>1, <2>2, <3>1, <5>3
      <4> QED BY <4>1, <4>2
    <3> QED BY <3>2, <3>3
  <2>4. d[j] = d[c]
    <3>1. d[c] \in T /\ d[j] <= d[c]
      BY <1>5 DEF T
    <3>2. d[c] <= j
      BY <1>1, <2>2
    <3>3. d[c] <= d[j]
      BY <1>5, <2>3, <3>2 DEF T
    <3>4. d[c] \in Nat /\ d[j] \in Nat
      BY <1>3, <1>4, <1>5
    <3> QED BY <3>1, <3>3, <3>4
  <2>5. \A k \in d[c]..(j - 1) : p[k] <= j
    <3> TAKE k \in d[c]..(j - 1)
    <3>1. k \in 1..n /\ k \in Nat /\ p[k] \in Nat
      BY <1>1, <2>2
    <3>2. CASE k < c
      <4>1. k \in d[c]..(c - 1)
        BY <2>2, <3>1, <3>2
      <4>2. p[k] <= c
        BY <2>2, <4>1 DEF Interval
      <4> QED BY <1>1, <2>2, <3>1, <4>2
    <3>3. CASE ~ (k < c)
      <4>1. k \in c..(p[c] - 1)
        BY <1>1, <2>2, <3>1, <3>3
      <4>2. p[k] <= p[c]
        BY <2>2, <4>1 DEF PostOrder
      <4> QED BY <2>2, <4>2
    <3> QED BY <3>2, <3>3
  <2>6. d[c] = 1 \/ p[d[c] - 1] > j
    <3> SUFFICES ASSUME d[c] # 1 PROVE p[d[c] - 1] > j
      OBVIOUS
    <3> DEFINE k == d[c] - 1
    <3>1. k \in 1..n /\ k \in Nat /\ p[k] \in Nat /\ p[k] > c /\ k < c
      BY <1>1, <2>2 DEF Interval
    <3>2. p[k] # j
      <4>1. k \notin C
        BY <1>1, <2>1, <2>2, <3>1
      <4> QED BY <3>1, <4>1
    <3>3. ~ (p[k] < j)
      <4>1. SUFFICES ASSUME p[k] < j PROVE FALSE
        OBVIOUS
      <4>2. c \in k..(p[k] - 1)
        BY <2>2, <3>1
      <4>3. p[c] <= p[k]
        BY <3>1, <4>2 DEF PostOrder
      <4> QED BY <1>1, <2>2, <3>1, <4>1, <4>3
    <3> HIDE DEF k
    <3>4. p[k] > j
      BY <1>1, <3>1, <3>2, <3>3
    <3> QED BY <3>4 DEF k
  <2>7. d[c] \in 1..j
    BY <1>1, <2>2
  <2> QED BY <2>4, <2>5, <2>6, <2>7 DEF Interval
<1> QED BY <1>6, <1>7

LEMMA IntervalsIs ==
  ASSUME NEW in, ValidInput(in)
  PROVE  LET d == LeastDescOf(in, ChildrenOf(in)) IN
         \A j \in 1..(in.n + 1) : Interval(in.parent, d, j)
<1> DEFINE d == LeastDescOf(in, ChildrenOf(in))
           Bad == {j \in 1..(in.n + 1) : ~ Interval(in.parent, d, j)}
<1>1. PostOrder(in.n, in.parent)
  BY DEF ValidInput, PostOrder
<1>2. LeastBelow(d, in)
  BY LeastDescIs
<1>3. in.n \in Nat
  BY <1>1 DEF PostOrder
<1> HIDE DEF d
<1>4. Bad = {}
  <2> SUFFICES ASSUME Bad # {} PROVE FALSE
    OBVIOUS
  <2>1. Bad \in SUBSET Nat
    BY <1>3
  <2>2. PICK j \in Bad : \A y \in Bad : j <= y
    BY <2>1, Smallest
  <2>3. \A c \in 1..(j - 1) : Interval(in.parent, d, c)
    <3> TAKE c \in 1..(j - 1)
    <3>1. c \in 1..(in.n + 1) /\ ~ (j <= c)
      BY <1>3
    <3> QED BY <2>2, <3>1
  <2>4. j \in 1..(in.n + 1) /\ d[j] = Min({j} \cup {d[c] : c \in {i \in 1..in.n : in.parent[i] = j}})
    BY <1>2 DEF LeastBelow
  <2> HIDE DEF Bad
  <2>5. Interval(in.parent, d, j)
    BY <1>1, <2>3, <2>4, IntervalOf
  <2> QED BY <2>5 DEF Bad
<1> QED BY <1>4 DEF d

(* What the analysis knows of its tree. It never changes.                   *)
TreeShape ==
  /\ PostOrder(tree.n, tree.parent)
  /\ \A j \in 1..VRoot : Interval(tree.parent, tree.least_desc, j)
  /\ \A j \in 1..VRoot : Enumerates(tree.child[j], {i \in Node : parent(i) = j})
  /\ tree.gpus \in Seq(Nat) /\ tree.gpus # <<>>
  /\ tree.nth \in Nat \ {0} /\ tree.coeff \in Nat \ {0} /\ tree.omp \in BOOLEAN

LEMMA TreeShapeInit == TreeInit => TreeShape
<1> SUFFICES ASSUME TreeInit PROVE TreeShape
  OBVIOUS
<1>1. PICK in \in Inputs :
         LET child == ChildrenOf(in) IN
         tree = [n |-> in.n, parent |-> in.parent, child |-> child,
                 weight |-> WeightOf(in, child), least_desc |-> LeastDescOf(in, child),
                 nth |-> in.nth, gpus |-> in.gpus, coeff |-> in.coeff,
                 min_gpu_work |-> in.min_gpu_work, max_inbalance |-> in.max_inbalance,
                 omp |-> in.omp]
  BY DEF TreeInit
<1>2. ValidInput(in)
  BY InputsAssumption
<1>3. /\ tree.n = in.n /\ tree.parent = in.parent /\ tree.child = ChildrenOf(in)
      /\ tree.least_desc = LeastDescOf(in, ChildrenOf(in)) /\ tree.gpus = in.gpus
      /\ tree.nth = in.nth /\ tree.coeff = in.coeff /\ tree.omp = in.omp
  BY <1>1
<1>4. PostOrder(tree.n, tree.parent)
  BY <1>2, <1>3 DEF ValidInput, PostOrder
<1>5. \A j \in 1..VRoot : Interval(tree.parent, tree.least_desc, j)
  BY <1>2, <1>3, IntervalsIs DEF VRoot
<1>6. \A j \in 1..VRoot : Enumerates(tree.child[j], {i \in Node : parent(i) = j})
  <2> TAKE j \in 1..VRoot
  <2>1. j \in 1..(in.n + 1)
    BY <1>3 DEF VRoot
  <2>2. Enumerates(ChildrenOf(in)[j], {i \in 1..in.n : in.parent[i] = j})
    BY <1>2, <2>1, ChildrenIs
  <2>3. {i \in Node : parent(i) = j} = {i \in 1..in.n : in.parent[i] = j}
    BY <1>3 DEF Node, parent
  <2> QED BY <1>3, <2>2, <2>3
<1>7. /\ tree.gpus \in Seq(Nat) /\ tree.gpus # <<>>
      /\ tree.nth \in Nat \ {0} /\ tree.coeff \in Nat \ {0} /\ tree.omp \in BOOLEAN
  BY <1>2, <1>3 DEF ValidInput
<1> QED BY <1>4, <1>5, <1>6, <1>7 DEF TreeShape

LEMMA NodeFacts ==
  ASSUME TreeShape
  PROVE  /\ tree.n \in Nat \ {0} /\ VRoot = tree.n + 1 /\ VRoot \in Nat
         /\ \A i \in Node : i \in 1..VRoot /\ parent(i) \in 1..VRoot /\ parent(i) > i
         /\ \A i \in 1..VRoot : i \in Nat /\ (i # VRoot => i \in Node)
         /\ \A i, j \in Node : i <= j /\ j < parent(i) => parent(j) <= parent(i)
<1>1. tree.n \in Nat \ {0} /\ VRoot = tree.n + 1 /\ VRoot \in Nat /\ Node = 1..tree.n
  BY DEF TreeShape, PostOrder, VRoot, Node
<1>2. \A i \in Node : parent(i) \in 2..VRoot /\ parent(i) > i
  BY <1>1 DEF TreeShape, PostOrder, parent
<1>3. \A i \in Node : i \in 1..VRoot /\ parent(i) \in 1..VRoot /\ parent(i) > i
  BY <1>1, <1>2
<1>4. \A i \in 1..VRoot : i \in Nat /\ (i # VRoot => i \in Node)
  BY <1>1
<1>5. ASSUME NEW i \in Node, NEW j \in Node, i <= j, j < parent(i)
      PROVE  parent(j) <= parent(i)
  <2>1. j \in i..(parent(i) - 1)
    BY <1>1, <1>3, <1>5
  <2> QED BY <1>1, <2>1 DEF TreeShape, PostOrder, parent
<1> QED BY <1>1, <1>3, <1>4, <1>5

LEMMA BelowIs ==
  ASSUME TreeShape, NEW j \in 1..VRoot
  PROVE  /\ tree.least_desc[j] \in 1..j /\ tree.least_desc[j] \in Nat
         /\ j \in Below(j)
         /\ \A i \in Below(j) : i \in 1..VRoot /\ i <= j
         /\ \A i \in Below(j) : i # j => i \in Node /\ i < j /\ parent(i) <= j /\ parent(i) \in Below(j)
         /\ \A i \in 1..VRoot : i \in Below(j) <=> tree.least_desc[j] <= i /\ i <= j
         /\ tree.least_desc[j] # 1 =>
              tree.least_desc[j] - 1 \in Node /\ parent(tree.least_desc[j] - 1) > j
<1> DEFINE d == tree.least_desc[j]
<1>1. d \in 1..j /\ (\A k \in d..(j - 1) : parent(k) <= j) /\ (d = 1 \/ parent(d - 1) > j)
  BY DEF TreeShape, Interval, parent
<1>2. tree.n \in Nat \ {0} /\ VRoot = tree.n + 1 /\ VRoot \in Nat /\ Node = 1..tree.n
  BY NodeFacts DEF Node
<1>3. Below(j) = d..j
  BY DEF Below
<1> HIDE DEF d
<1>4. \A i \in Below(j) : i \in 1..VRoot /\ i <= j
  BY <1>1, <1>2, <1>3
<1>5. ASSUME NEW i \in Below(j), i # j
      PROVE  i \in Node /\ i < j /\ parent(i) <= j /\ parent(i) \in Below(j)
  <2>1. i \in Node /\ i \in d..(j - 1) /\ i < j
    BY <1>1, <1>2, <1>3, <1>5
  <2>2. parent(i) <= j /\ parent(i) > i /\ parent(i) \in Nat
    BY <1>1, <2>1, NodeFacts
  <2> QED BY <1>1, <1>3, <2>1, <2>2
<1>6. d # 1 => d - 1 \in Node /\ parent(d - 1) > j
  BY <1>1, <1>2
<1>7. \A i \in 1..VRoot : i \in Below(j) <=> d <= i /\ i <= j
  BY <1>1, <1>2, <1>3
<1>8. d \in Nat /\ j \in Below(j)
  BY <1>1, <1>2, <1>3
<1> QED BY <1>1, <1>4, <1>5, <1>6, <1>7, <1>8 DEF d

LEMMA BelowNested ==
  ASSUME TreeShape, NEW j \in 1..VRoot, NEW i \in Below(j)
  PROVE  Below(i) \subseteq Below(j) /\ tree.least_desc[j] <= tree.least_desc[i]
<1> DEFINE di == tree.least_desc[i]
           dj == tree.least_desc[j]
<1>1. i \in 1..VRoot /\ i \in Nat /\ j \in Nat /\ i <= j /\ dj <= i /\ VRoot \in Nat
  BY BelowIs, NodeFacts
<1>2. di \in Nat /\ dj \in Nat /\ di <= i /\ dj >= 1 /\ di >= 1
  BY <1>1, BelowIs
<1>3. ~ (di < dj)
  <2>1. SUFFICES ASSUME di < dj PROVE FALSE
    OBVIOUS
  <2> DEFINE k == dj - 1
  <2>2. dj # 1
    BY <1>2, <2>1
  <2>3. k \in Node /\ parent(k) > j /\ k \in Nat
    BY <2>2, BelowIs, NodeFacts
  <2>4. di <= k /\ k < i
    BY <1>1, <1>2, <2>1
  <2>5. k \in Below(i) /\ k # i
    BY <1>1, <2>3, <2>4, BelowIs, NodeFacts
  <2>6. parent(k) <= i
    BY <1>1, <2>5, BelowIs
  <2> QED BY <1>1, <2>3, <2>6, NodeFacts
<1>4. ASSUME NEW k \in Below(i)
      PROVE  k \in Below(j)
  <2>1. k \in 1..VRoot /\ k \in Nat /\ k <= i /\ di <= k
    BY <1>1, BelowIs, NodeFacts
  <2>2. dj <= k /\ k <= j
    BY <1>1, <1>2, <1>3, <2>1
  <2> QED BY <2>1, <2>2, BelowIs
<1> QED BY <1>2, <1>3, <1>4

LEMMA BelowApart ==
  ASSUME TreeShape, NEW i \in 1..VRoot, NEW j \in 1..VRoot, i \notin Below(j), j \notin Below(i)
  PROVE  Below(i) \cap Below(j) = {}
<1>1. /\ i \in Nat /\ j \in Nat
      /\ tree.least_desc[i] \in Nat /\ tree.least_desc[j] \in Nat
      /\ tree.least_desc[i] <= i /\ tree.least_desc[j] <= j
  BY BelowIs, NodeFacts
<1>2. i < tree.least_desc[j] \/ j < tree.least_desc[i]
  BY <1>1, BelowIs
<1> SUFFICES ASSUME NEW k \in Below(i), k \in Below(j) PROVE FALSE
  OBVIOUS
<1>3. k \in Nat /\ k <= i /\ k <= j /\ tree.least_desc[i] <= k /\ tree.least_desc[j] <= k
  BY BelowIs, NodeFacts
<1> QED BY <1>1, <1>2, <1>3

LEMMA BelowRoot ==
  ASSUME TreeShape
  PROVE  tree.least_desc[VRoot] = 1 /\ VRoot \in 1..VRoot /\ \A i \in 1..VRoot : i \in Below(VRoot)
<1>1. VRoot \in 1..VRoot /\ VRoot \in Nat
  BY NodeFacts
<1>2. tree.least_desc[VRoot] = 1
  <2> SUFFICES ASSUME tree.least_desc[VRoot] # 1 PROVE FALSE
    OBVIOUS
  <2>1. tree.least_desc[VRoot] - 1 \in Node /\ parent(tree.least_desc[VRoot] - 1) > VRoot
    BY <1>1, BelowIs
  <2> QED BY <1>1, <2>1, NodeFacts
<1>3. \A i \in 1..VRoot : i \in Below(VRoot)
  BY <1>1, <1>2, BelowIs
<1> QED BY <1>1, <1>2, <1>3

LEMMA ChildBelow ==
  ASSUME TreeShape, NEW c \in Node
  PROVE  c \in Below(parent(c)) /\ parent(c) \in 1..VRoot
<1> DEFINE j == parent(c)
           d == tree.least_desc[j]
<1>1. c \in 1..VRoot /\ j \in 1..VRoot /\ c \in Nat /\ j \in Nat /\ c < j
  BY NodeFacts
<1>2. d \in Nat /\ d <= j /\ d >= 1
  BY <1>1, BelowIs
<1>3. ~ (c < d)
  <2>1. SUFFICES ASSUME c < d PROVE FALSE
    OBVIOUS
  <2>2. d # 1
    BY <1>1, <1>2, <2>1
  <2>3. d - 1 \in Node /\ parent(d - 1) > j
    BY <1>1, <2>2, BelowIs
  <2>4. c <= d - 1 /\ d - 1 < j
    BY <1>1, <1>2, <2>1
  <2>5. parent(d - 1) <= j
    BY <2>3, <2>4, NodeFacts
  <2>6. parent(d - 1) \in Nat
    BY <2>3, NodeFacts
  <2> QED BY <1>1, <2>3, <2>5, <2>6
<1> QED BY <1>1, <1>2, <1>3, BelowIs

(* The children of a node, each with what is below it, lie side by side,    *)
(* and the node comes after the last of them.                               *)
LEMMA ChildrenTile ==
  ASSUME TreeShape, NEW j \in 1..VRoot
  PROVE  LET s == tree.child[j] IN
         /\ s \in Seq(Node)
         /\ \A k \in 1..Len(s) : s[k] \in Node /\ parent(s[k]) = j /\ s[k] < j
         /\ \A c \in Node : parent(c) = j => \E k \in 1..Len(s) : s[k] = c
         /\ \A k, l \in 1..Len(s) : k < l => s[k] < s[l]
         /\ s = <<>> => tree.least_desc[j] = j
         /\ s # <<>> => tree.least_desc[s[1]] = tree.least_desc[j] /\ s[Len(s)] = j - 1
         /\ \A k \in 2..Len(s) : tree.least_desc[s[k]] = s[k - 1] + 1
<1> DEFINE s == tree.child[j]
           S == {i \in Node : parent(i) = j}
           d == tree.least_desc
<1>1. /\ s \in Seq(S) /\ \A x \in S : \E k \in 1..Len(s) : s[k] = x
      /\ \A k, l \in 1..Len(s) : k < l => s[k] < s[l]
  BY DEF TreeShape, Enumerates
<1> HIDE DEF s
<1>2. Len(s) \in Nat /\ \A k \in 1..Len(s) : s[k] \in S
  BY <1>1, LenProperties, ElementOfSeq
<1>3. \A i \in Node : i \in Nat /\ parent(i) \in Nat /\ i < parent(i) /\ i \in 1..VRoot
  BY NodeFacts
<1>4. \A k \in 1..Len(s) : s[k] \in Node /\ parent(s[k]) = j /\ s[k] < j /\ s[k] \in Nat
  BY <1>2, <1>3
<1>5. s \in Seq(Node)
  BY <1>1, SeqMonotonic
<1>6. \A c \in Node : parent(c) = j => \E k \in 1..Len(s) : s[k] = c
  BY <1>1
<1>7. j \in Nat /\ d[j] \in 1..j /\ d[j] \in Nat
  BY BelowIs, NodeFacts
(* A node before j with its parent at most j, and not a child, has its      *)
(* parent before the next child.                                            *)
<1>8. ASSUME NEW m \in Node, NEW c \in Node, parent(c) = j, m < c, parent(m) <= j, parent(m) # j
      PROVE  parent(m) <= c
  <2>1. SUFFICES ASSUME c < parent(m) PROVE FALSE
    BY <1>3
  <2>2. parent(c) <= parent(m)
    BY <1>3, <1>8, <2>1, NodeFacts
  <2> QED BY <1>3, <1>7, <1>8, <2>2
<1>9. s = <<>> => d[j] = j
  <2> SUFFICES ASSUME s = <<>>, d[j] # j PROVE FALSE
    OBVIOUS
  <2>1. j - 1 \in Nat /\ j - 1 # j /\ j - 1 >= d[j] /\ j - 1 \in 1..VRoot
    BY <1>7, NodeFacts
  <2>2. j - 1 \in Below(j)
    BY <1>7, <2>1, BelowIs
  <2>3. j - 1 \in Node /\ parent(j - 1) <= j
    BY <2>1, <2>2, BelowIs
  <2>4. parent(j - 1) = j
    BY <1>3, <1>7, <2>3
  <2>5. Len(s) = 0
    BY EmptySeq
  <2> QED BY <1>6, <2>3, <2>4, <2>5
<1>10. ASSUME s # <<>>
       PROVE  1 \in 1..Len(s) /\ Len(s) \in 1..Len(s)
  <2>1. Len(s) # 0
    BY <1>1, <1>10, EmptySeq
  <2> QED BY <1>2, <2>1
<1>11. ASSUME s # <<>>
       PROVE  s[Len(s)] = j - 1
  <2> DEFINE c == s[Len(s)]
  <2>1. c \in Node /\ parent(c) = j /\ c < j /\ c \in Nat
    BY <1>4, <1>10, <1>11
  <2> HIDE DEF c
  <2>2. j - 1 \in Node /\ c <= j - 1 /\ j - 1 < parent(c) /\ j - 1 \in Nat
    BY <1>3, <1>7, <2>1, NodeFacts DEF Node
  <2>3. parent(j - 1) <= j
    BY <2>1, <2>2, NodeFacts
  <2>4. parent(j - 1) = j
    BY <1>3, <1>7, <2>2, <2>3
  <2>5. PICK k \in 1..Len(s) : s[k] = j - 1
    BY <1>6, <2>2, <2>4
  <2>6. k = Len(s) \/ k < Len(s)
    BY <1>2, <2>5
  <2>7. k < Len(s) => s[k] < c
    BY <1>1, <1>10, <1>11 DEF c
  <2>8. ~ (k < Len(s))
    BY <2>1, <2>2, <2>5, <2>7
  <2> QED BY <2>5, <2>6, <2>8
<1>12. ASSUME s # <<>>
       PROVE  d[s[1]] = d[j]
  <2> DEFINE c == s[1]
  <2>1. c \in Node /\ parent(c) = j /\ c < j /\ c \in Nat /\ c \in 1..VRoot
    BY <1>3, <1>4, <1>10, <1>12
  <2>2. \A m \in Node : parent(m) = j => c <= m
    <3> TAKE m \in Node
    <3> HAVE parent(m) = j
    <3>1. PICK k \in 1..Len(s) : s[k] = m
      BY <1>6
    <3>2. k = 1 \/ 1 < k
      BY <1>2
    <3>3. 1 < k => c < m
      BY <1>1, <1>10, <1>12, <3>1
    <3> QED BY <1>3, <2>1, <3>1, <3>2, <3>3
  <2> HIDE DEF c
  <2>3. d[c] \in Nat /\ d[c] <= c /\ d[c] >= 1
    BY <2>1, BelowIs
  <2>4. d[j] <= d[c]
    BY <2>1, ChildBelow, BelowNested
  <2>5. ~ (d[j] < d[c])
    <3>1. SUFFICES ASSUME d[j] < d[c] PROVE FALSE
      OBVIOUS
    <3> DEFINE m == d[c] - 1
    <3>2. d[c] # 1
      BY <1>7, <3>1
    <3>3. m \in Node /\ parent(m) > c /\ m < c /\ m \in Nat
      BY <2>1, <2>3, <3>2, BelowIs, NodeFacts
    <3>4. d[j] <= m /\ m <= j /\ m # j
      BY <1>7, <2>1, <2>3, <3>1
    <3> HIDE DEF m
    <3>5. m \in Below(j)
      BY <3>3, <3>4, <1>3, BelowIs
    <3>6. parent(m) <= j
      BY <3>4, <3>5, BelowIs
    <3>7. parent(m) # j
      BY <2>1, <2>2, <3>3
    <3>8. parent(m) <= c
      BY <1>8, <2>1, <3>3, <3>6, <3>7
    <3> QED BY <1>3, <2>1, <3>3, <3>8
  <2>6. d[c] = d[j]
    BY <1>7, <2>3, <2>4, <2>5
  <2> QED BY <2>6 DEF c
<1>13. ASSUME NEW k \in 2..Len(s)
       PROVE  d[s[k]] = s[k - 1] + 1
  <2> DEFINE c == s[k]
             b == s[k - 1]
  <2>1. k \in 1..Len(s) /\ k - 1 \in 1..Len(s) /\ k - 1 < k
    BY <1>2
  <2>2. /\ c \in Node /\ parent(c) = j /\ c < j /\ c \in Nat /\ c \in 1..VRoot
        /\ b \in Node /\ parent(b) = j /\ b < j /\ b \in Nat /\ b \in 1..VRoot
        /\ b < c
    BY <1>1, <1>3, <1>4, <2>1
  <2>3. \A m \in Node : parent(m) = j => m <= b \/ c <= m
    <3> TAKE m \in Node
    <3> HAVE parent(m) = j
    <3>1. PICK l \in 1..Len(s) : s[l] = m
      BY <1>6
    <3>2. l < k - 1 \/ l = k - 1 \/ l = k \/ k < l
      BY <1>2
    <3>3. l < k - 1 => m < b
      BY <1>1, <2>1, <3>1
    <3>4. k < l => c < m
      BY <1>1, <2>1, <3>1
    <3> QED BY <1>3, <2>2, <3>1, <3>2, <3>3, <3>4
  <2> HIDE DEF c, b
  <2>4. d[c] \in Nat /\ d[c] <= c /\ d[c] >= 1
    BY <2>2, BelowIs
  <2>5. ~ (d[c] <= b)
    <3>1. SUFFICES ASSUME d[c] <= b PROVE FALSE
      OBVIOUS
    <3>2. b \in Below(c) /\ b # c
      BY <2>2, <2>4, <3>1, BelowIs
    <3>3. parent(b) <= c
      BY <2>2, <3>2, BelowIs
    <3> QED BY <1>7, <2>2, <3>3
  <2>6. ~ (b + 1 < d[c])
    <3>1. SUFFICES ASSUME b + 1 < d[c] PROVE FALSE
      OBVIOUS
    <3> DEFINE m == d[c] - 1
    <3>2. d[c] # 1
      BY <2>2, <3>1
    <3>3. m \in Node /\ parent(m) > c /\ m < c /\ m \in Nat
      BY <2>2, <2>4, <3>2, BelowIs, NodeFacts
    <3>4. b < m
      BY <2>2, <2>4, <3>1
    <3> HIDE DEF m
    <3>5. b <= m /\ m < parent(b)
      BY <1>7, <2>2, <3>3, <3>4
    <3>6. parent(m) <= parent(b)
      BY <2>2, <3>3, <3>5, NodeFacts
    <3>7. parent(m) # j
      BY <2>2, <2>3, <3>3, <3>4
    <3>8. parent(m) <= c
      BY <1>8, <2>2, <3>3, <3>6, <3>7
    <3> QED BY <1>3, <2>2, <3>3, <3>8
  <2>7. d[c] = b + 1
    BY <2>2, <2>4, <2>5, <2>6
  <2> QED BY <2>7 DEF c, b
<1> QED BY <1>1, <1>4, <1>5, <1>6, <1>9, <1>11, <1>12, <1>13 DEF s

-----------------------------------------------------------------------------
(* Parts: ranges of nodes, one after the other from a to b.                 *)

Part == [sa : Node, en : Node, is_child : BOOLEAN, loc : Int]

Chain(s, a, b) ==
  /\ s \in Seq(Part)
  /\ s = <<>> => a = b + 1
  /\ s # <<>> => s[1].sa = a /\ s[Len(s)].en = b
  /\ \A p \in 1..Len(s) : s[p].sa <= s[p].en
  /\ \A p \in 2..Len(s) : s[p].sa = s[p - 1].en + 1

(* A part that can be a subtree is all that is below its last node.         *)
Rooted(s) == \A p \in 1..Len(s) : s[p].is_child => s[p].sa = tree.least_desc[s[p].en]

LEMMA PartFacts ==
  ASSUME TreeShape, NEW q \in Part
  PROVE  /\ q.sa \in Node /\ q.en \in Node /\ q.sa \in Nat /\ q.en \in Nat
         /\ q.is_child \in BOOLEAN /\ q.loc \in Int
<1>1. q.sa \in Node /\ q.en \in Node /\ q.is_child \in BOOLEAN /\ q.loc \in Int
  BY DEF Part
<1> QED BY <1>1, NodeFacts

LEMMA ChainFacts ==
  ASSUME TreeShape, NEW s, NEW a, NEW b, Chain(s, a, b)
  PROVE  /\ Len(s) \in Nat /\ DOMAIN s = 1..Len(s)
         /\ \A p \in 1..Len(s) : s[p] \in Part
         /\ s # <<>> <=> Len(s) > 0
<1>1. s \in Seq(Part)
  BY DEF Chain
<1>2. Len(s) \in Nat /\ DOMAIN s = 1..Len(s)
  BY <1>1, LenProperties
<1>3. \A p \in 1..Len(s) : s[p] \in Part
  BY <1>1, ElementOfSeq
<1>4. s # <<>> <=> Len(s) > 0
  BY <1>1, <1>2, EmptySeq
<1> QED BY <1>2, <1>3, <1>4

LEMMA ChainConcat ==
  ASSUME TreeShape, NEW s, NEW u, NEW a \in Int, NEW b \in Int, NEW c \in Int,
         Chain(s, a, b), Chain(u, b + 1, c)
  PROVE  Chain(s \o u, a, c)
<1> DEFINE v == s \o u
<1>1. s \in Seq(Part) /\ u \in Seq(Part)
  BY DEF Chain
<1>2. /\ Len(s) \in Nat /\ Len(u) \in Nat /\ (s # <<>> <=> Len(s) > 0) /\ (u # <<>> <=> Len(u) > 0)
      /\ \A p \in 1..Len(s) : s[p] \in Part
      /\ \A p \in 1..Len(u) : u[p] \in Part
  BY ChainFacts
<1>3. /\ v \in Seq(Part) /\ Len(v) = Len(s) + Len(u)
      /\ \A p \in 1..(Len(s) + Len(u)) : v[p] = IF p <= Len(s) THEN s[p] ELSE u[p - Len(s)]
  BY <1>1, ConcatProperties
<1>4. CASE u = <<>>
  <2>1. v = s
    BY <1>1, <1>4, ConcatEmptySeq
  <2>2. c = b
    BY <1>4 DEF Chain
  <2> QED BY <2>1, <2>2
<1>5. CASE s = <<>>
  <2>1. v = u
    BY <1>1, <1>5, ConcatEmptySeq
  <2>2. a = b + 1
    BY <1>5 DEF Chain
  <2> QED BY <2>1, <2>2
<1>6. CASE s # <<>> /\ u # <<>>
  <2> HIDE DEF v
  <2>1. Len(s) > 0 /\ Len(u) > 0 /\ Len(v) > 0 /\ v # <<>>
    <3>1. Len(s) > 0 /\ Len(u) > 0 /\ Len(v) > 0
      BY <1>2, <1>3, <1>6
    <3> QED BY <3>1, EmptySeq
  <2>2. v[1] = s[1] /\ v[Len(v)] = u[Len(u)]
    <3>1. 1 \in 1..(Len(s) + Len(u)) /\ 1 <= Len(s) /\ Len(v) \in 1..(Len(s) + Len(u)) /\ ~ (Len(v) <= Len(s))
          /\ Len(v) - Len(s) = Len(u)
      BY <1>2, <1>3, <2>1
    <3> QED BY <1>3, <3>1
  <2>3. v[1].sa = a /\ v[Len(v)].en = c
    BY <1>6, <2>2 DEF Chain
  <2>4. ASSUME NEW p \in 1..Len(v)
        PROVE  v[p].sa <= v[p].en
    <3>1. CASE p <= Len(s)
      <4>1. p \in 1..Len(s) /\ v[p] = s[p]
        BY <1>2, <1>3, <3>1
      <4> QED BY <4>1 DEF Chain
    <3>2. CASE ~ (p <= Len(s))
      <4>1. p - Len(s) \in 1..Len(u) /\ v[p] = u[p - Len(s)]
        BY <1>2, <1>3, <3>2
      <4> QED BY <4>1 DEF Chain
    <3> QED BY <3>1, <3>2
  <2>5. ASSUME NEW p \in 2..Len(v)
        PROVE  v[p].sa = v[p - 1].en + 1
    <3>1. CASE p <= Len(s)
      <4>1. p \in 2..Len(s) /\ v[p] = s[p] /\ v[p - 1] = s[p - 1]
        BY <1>2, <1>3, <3>1
      <4> QED BY <4>1 DEF Chain
    <3>2. CASE p = Len(s) + 1
      <4>1. v[p] = u[1] /\ v[p - 1] = s[Len(s)]
        BY <1>2, <1>3, <2>1, <3>2
      <4>2. u[1].sa = b + 1 /\ s[Len(s)].en = b
        BY <1>6 DEF Chain
      <4> QED BY <4>1, <4>2
    <3>3. CASE p > Len(s) + 1
      <4> DEFINE r == p - Len(s)
      <4>1. r \in 2..Len(u) /\ v[p] = u[r] /\ v[p - 1] = u[r - 1]
        <5>1. /\ r \in 2..Len(u) /\ p \in 1..(Len(s) + Len(u)) /\ p - 1 \in 1..(Len(s) + Len(u))
              /\ ~ (p <= Len(s)) /\ ~ (p - 1 <= Len(s)) /\ p - 1 - Len(s) = r - 1
          BY <1>2, <1>3, <3>3
        <5> HIDE DEF r
        <5>2. v[p - 1] = u[r - 1]
          BY <1>3, <5>1
        <5>3. v[p] = u[p - Len(s)]
          BY <1>3, <5>1
        <5> QED BY <5>1, <5>2, <5>3 DEF r
      <4> HIDE DEF r
      <4>2. u[r].sa = u[r - 1].en + 1
        BY <4>1 DEF Chain
      <4> QED BY <4>1, <4>2
    <3> QED BY <1>2, <1>3, <3>1, <3>2, <3>3
  <2>6. Chain(v, a, c)
    BY <1>3, <2>1, <2>3, <2>4, <2>5 DEF Chain
  <2> QED BY <2>6 DEF v
<1> QED BY <1>4, <1>5, <1>6

LEMMA RootedConcat ==
  ASSUME TreeShape, NEW s \in Seq(Part), NEW u \in Seq(Part), Rooted(s), Rooted(u)
  PROVE  Rooted(s \o u)
<1> DEFINE v == s \o u
<1>1. Len(s) \in Nat /\ Len(u) \in Nat
  BY LenProperties
<1>2. /\ Len(v) = Len(s) + Len(u)
      /\ \A p \in 1..(Len(s) + Len(u)) : v[p] = IF p <= Len(s) THEN s[p] ELSE u[p - Len(s)]
  BY ConcatProperties
<1> HIDE DEF v
<1>3. ASSUME NEW p \in 1..Len(v)
      PROVE  v[p].is_child => v[p].sa = tree.least_desc[v[p].en]
  <2>1. CASE p <= Len(s)
    <3>1. p \in 1..Len(s) /\ v[p] = s[p]
      BY <1>1, <1>2, <2>1
    <3> QED BY <3>1 DEF Rooted
  <2>2. CASE ~ (p <= Len(s))
    <3>1. p - Len(s) \in 1..Len(u) /\ v[p] = u[p - Len(s)]
      BY <1>1, <1>2, <2>2
    <3> QED BY <3>1 DEF Rooted
  <2> QED BY <2>1, <2>2
<1>4. Rooted(v)
  BY <1>3 DEF Rooted
<1> QED BY <1>4 DEF v

(* What lies before and behind a part.                                      *)
LEMMA ChainCut ==
  ASSUME TreeShape, NEW s, NEW a \in Int, NEW b \in Int, Chain(s, a, b), NEW t \in 1..Len(s)
  PROVE  /\ Chain(SubSeq(s, 1, t - 1), a, s[t].sa - 1)
         /\ Chain(SubSeq(s, t + 1, Len(s)), s[t].en + 1, b)
         /\ Rooted(s) => Rooted(SubSeq(s, 1, t - 1)) /\ Rooted(SubSeq(s, t + 1, Len(s)))
<1> DEFINE L == Len(s)
           u == SubSeq(s, 1, t - 1)
           v == SubSeq(s, t + 1, L)
<1>1. s \in Seq(Part) /\ L \in Nat /\ t \in Nat /\ t >= 1 /\ t <= L /\ s # <<>>
      /\ \A p \in 1..L : s[p] \in Part
  BY ChainFacts DEF Chain
<1>2. /\ u \in Seq(Part) /\ Len(u) = t - 1 /\ \A p \in 1..(t - 1) : u[p] = s[p]
  <2>1. \A p \in 1..(t - 1) : s[p] \in Part
    BY <1>1
  <2>2. /\ u \in Seq(Part) /\ Len(u) = IF 1 <= t - 1 THEN t - 1 - 1 + 1 ELSE 0
        /\ \A p \in 1..(t - 1 - 1 + 1) : u[p] = s[1 + p - 1]
    BY <1>1, <2>1, SubSeqProperties
  <2> HIDE DEF u
  <2> QED BY <1>1, <2>2
<1>3. /\ v \in Seq(Part) /\ Len(v) = L - t /\ \A p \in 1..(L - t) : v[p] = s[t + p]
  <2>1. \A p \in (t + 1)..L : s[p] \in Part
    BY <1>1
  <2>2. /\ v \in Seq(Part) /\ Len(v) = IF t + 1 <= L THEN L - (t + 1) + 1 ELSE 0
        /\ \A p \in 1..(L - (t + 1) + 1) : v[p] = s[t + 1 + p - 1]
    BY <1>1, <2>1, SubSeqProperties
  <2> HIDE DEF v, L
  <2> QED BY <1>1, <2>2
<1> HIDE DEF u, v
<1>4. /\ \A p \in 1..L : s[p].sa <= s[p].en /\ s[p].sa \in Nat /\ s[p].en \in Nat
      /\ \A p \in 2..L : s[p].sa = s[p - 1].en + 1
      /\ s[1].sa = a /\ s[L].en = b
  BY <1>1, PartFacts DEF Chain
<1> HIDE DEF L
<1>5. Chain(u, a, s[t].sa - 1)
  <2>1. CASE t = 1
    <3>1. u = <<>> /\ Len(u) = 0
      BY <1>2, <2>1, EmptySeq
    <3>2. a = s[t].sa - 1 + 1
      BY <1>4, <2>1
    <3>3. \A p \in 1..Len(u) : FALSE
      BY <3>1
    <3>4. \A p \in 2..Len(u) : FALSE
      BY <3>1
    <3> QED BY <1>2, <3>1, <3>2, <3>3, <3>4 DEF Chain
  <2>2. CASE t # 1
    <3>1. Len(u) = t - 1 /\ t - 1 >= 1 /\ u # <<>>
      BY <1>1, <1>2, <2>2, EmptySeq
    <3>2. u[1] = s[1] /\ u[Len(u)] = s[t - 1] /\ t \in 2..L
      BY <1>1, <1>2, <2>2, <3>1
    <3>3. u[1].sa = a /\ u[Len(u)].en = s[t].sa - 1
      <4>1. s[t].sa = s[t - 1].en + 1 /\ s[t - 1].en \in Nat
        BY <1>1, <1>4, <3>2
      <4> QED BY <1>4, <3>2, <4>1
    <3>4. ASSUME NEW p \in 1..Len(u)
          PROVE  u[p].sa <= u[p].en
      <4>1. p \in 1..(t - 1) /\ p \in 1..L
        BY <1>1, <3>1
      <4>2. u[p] = s[p]
        BY <1>2, <4>1
      <4> QED BY <1>4, <4>1, <4>2
    <3>5. ASSUME NEW p \in 2..Len(u)
          PROVE  u[p].sa = u[p - 1].en + 1
      <4>1. p \in 1..(t - 1) /\ p - 1 \in 1..(t - 1) /\ p \in 2..L
        BY <1>1, <3>1
      <4> QED BY <1>2, <1>4, <4>1
    <3> QED BY <1>2, <3>1, <3>3, <3>4, <3>5 DEF Chain
  <2> QED BY <2>1, <2>2
<1>6. Chain(v, s[t].en + 1, b)
  <2>1. CASE t = L
    <3>1. Len(v) = 0
      BY <1>1, <1>3, <2>1
    <3>2. v = <<>>
      BY <1>3, <3>1, EmptySeq
    <3>3. s[t].en + 1 = b + 1
      BY <1>4, <2>1
    <3>4. \A p \in 1..Len(v) : FALSE
      BY <3>1
    <3>5. \A p \in 2..Len(v) : FALSE
      BY <3>1
    <3> QED BY <1>3, <3>2, <3>3, <3>4, <3>5 DEF Chain
  <2>2. CASE t # L
    <3>1. Len(v) = L - t /\ L - t >= 1
      BY <1>1, <1>3, <2>2
    <3>2. v # <<>>
      BY <3>1, EmptySeq
    <3>3. v[1] = s[t + 1] /\ v[Len(v)] = s[L] /\ t + 1 \in 2..L
      <4>1. 1 \in 1..(L - t) /\ L - t \in 1..(L - t) /\ t + (L - t) = L /\ t + 1 \in 2..L
        BY <1>1, <2>2
      <4>2. v[L - t] = s[t + (L - t)]
        BY <1>3, <4>1
      <4> QED BY <1>3, <4>1, <4>2
    <3>4. v[1].sa = s[t].en + 1 /\ v[Len(v)].en = b
      <4>1. t + 1 - 1 = t
        BY <1>1
      <4>2. s[t + 1].sa = s[t + 1 - 1].en + 1
        BY <1>4, <3>3
      <4> QED BY <1>4, <3>3, <4>1, <4>2
    <3>5. ASSUME NEW p \in 1..Len(v)
          PROVE  v[p].sa <= v[p].en
      <4>1. p \in 1..(L - t) /\ t + p \in 1..L
        BY <1>1, <3>1
      <4> QED BY <1>3, <1>4, <4>1
    <3>6. ASSUME NEW p \in 2..Len(v)
          PROVE  v[p].sa = v[p - 1].en + 1
      <4>1. p \in 1..(L - t) /\ p - 1 \in 1..(L - t) /\ t + p \in 2..L /\ t + (p - 1) = t + p - 1
        BY <1>1, <3>1
      <4>2. v[p] = s[t + p] /\ v[p - 1] = s[t + (p - 1)]
        BY <1>3, <4>1
      <4> DEFINE r == t + p
      <4>3. r \in 2..L /\ v[p] = s[r] /\ v[p - 1] = s[r - 1]
        BY <4>1, <4>2
      <4> HIDE DEF r
      <4>4. s[r].sa = s[r - 1].en + 1
        BY <1>4, <4>3
      <4> QED BY <4>3, <4>4
    <3> QED BY <1>3, <3>2, <3>4, <3>5, <3>6 DEF Chain
  <2> QED BY <2>1, <2>2
<1>7. ASSUME Rooted(s)
      PROVE  Rooted(u) /\ Rooted(v)
  <2>1. \A p \in 1..L : s[p].is_child => s[p].sa = tree.least_desc[s[p].en]
    BY <1>7 DEF Rooted, L
  <2>2. \A p \in 1..Len(u) : p \in 1..L /\ u[p] = s[p]
    BY <1>1, <1>2
  <2>3. \A p \in 1..Len(v) : t + p \in 1..L /\ v[p] = s[t + p]
    BY <1>1, <1>3
  <2>4. Rooted(u)
    BY <2>1, <2>2 DEF Rooted
  <2>5. Rooted(v)
    BY <2>1, <2>3 DEF Rooted
  <2> QED BY <2>4, <2>5
<1> QED BY <1>5, <1>6, <1>7 DEF u, v, L

(* The subtrees of the children of a node.                                  *)
ChildParts(j) ==
  [k \in 1..Len(tree.child[j]) |->
     NewPart(tree.least_desc[tree.child[j][k]], tree.child[j][k], TRUE)]

LEMMA NewPartIs ==
  ASSUME NEW a \in Node, NEW b \in Node, NEW c \in BOOLEAN
  PROVE  /\ NewPart(a, b, c) \in Part
         /\ NewPart(a, b, c).sa = a /\ NewPart(a, b, c).en = b
         /\ NewPart(a, b, c).is_child = c /\ NewPart(a, b, c).loc = -1
<1>1. -1 \in Int
  OBVIOUS
<1> QED BY <1>1 DEF NewPart, Part

LEMMA ChildPartsTile ==
  ASSUME TreeShape, NEW j \in 1..VRoot, tree.child[j] # <<>>
  PROVE  /\ Chain(ChildParts(j), tree.least_desc[j], j - 1)
         /\ Rooted(ChildParts(j))
         /\ Len(ChildParts(j)) = Len(tree.child[j]) /\ Len(ChildParts(j)) > 0
         /\ \A k \in 1..Len(ChildParts(j)) : ChildParts(j)[k].is_child /\ ChildParts(j)[k].loc = -1
<1> DEFINE s == tree.child[j]
           d == tree.least_desc
           A == ChildParts(j)
<1>1. /\ s \in Seq(Node)
      /\ \A k \in 1..Len(s) : s[k] \in Node /\ parent(s[k]) = j /\ s[k] < j
      /\ d[s[1]] = d[j] /\ s[Len(s)] = j - 1
      /\ \A k \in 2..Len(s) : d[s[k]] = s[k - 1] + 1
  BY ChildrenTile
<1>2. Len(s) \in Nat /\ Len(s) > 0 /\ 1 \in 1..Len(s) /\ Len(s) \in 1..Len(s)
  <2>1. Len(s) \in Nat
    BY <1>1, LenProperties
  <2>2. Len(s) # 0
    BY <1>1, EmptySeq
  <2> HIDE DEF s
  <2> QED BY <2>1, <2>2
<1>3. \A k \in 1..Len(s) : s[k] \in 1..VRoot /\ d[s[k]] \in Node /\ d[s[k]] <= s[k]
  <2> TAKE k \in 1..Len(s)
  <2>1. s[k] \in 1..VRoot /\ s[k] \in Node
    BY <1>1, NodeFacts
  <2>2. d[s[k]] \in 1..s[k] /\ s[k] \in Nat /\ s[k] <= tree.n /\ tree.n \in Nat
    BY <2>1, BelowIs, NodeFacts DEF Node
  <2>3. d[s[k]] \in Node
    BY <2>2 DEF Node
  <2> QED BY <2>1, <2>2, <2>3
<1> HIDE DEF s
<1>4. \A k \in 1..Len(s) :
        /\ A[k] = NewPart(d[s[k]], s[k], TRUE)
        /\ A[k] \in Part /\ A[k].sa = d[s[k]] /\ A[k].en = s[k] /\ A[k].is_child /\ A[k].loc = -1
  <2> TAKE k \in 1..Len(s)
  <2>1. A[k] = NewPart(d[s[k]], s[k], TRUE)
    BY DEF ChildParts, s
  <2> DEFINE lo == d[s[k]]
             hi == s[k]
  <2>2. lo \in Node /\ hi \in Node /\ TRUE \in BOOLEAN
    BY <1>1, <1>3
  <2> HIDE DEF A, lo, hi
  <2>3. /\ NewPart(lo, hi, TRUE) \in Part
        /\ NewPart(lo, hi, TRUE).sa = lo /\ NewPart(lo, hi, TRUE).en = hi
        /\ NewPart(lo, hi, TRUE).is_child = TRUE /\ NewPart(lo, hi, TRUE).loc = -1
    BY <2>2, NewPartIs
  <2>4. A[k] = NewPart(lo, hi, TRUE)
    BY <2>1 DEF lo, hi
  <2>5. A[k] \in Part /\ A[k].sa = lo /\ A[k].en = hi /\ A[k].is_child /\ A[k].loc = -1
    BY <2>3, <2>4
  <2> QED BY <2>1, <2>5 DEF lo, hi
<1>5. A \in Seq(Part) /\ Len(A) = Len(s)
  <2>1. A = [k \in 1..Len(s) |-> A[k]]
    BY DEF ChildParts, s
  <2> HIDE DEF A
  <2>2. A \in [1..Len(s) -> Part] /\ DOMAIN A = 1..Len(s)
    BY <1>4, <2>1
  <2>3. A \in Seq(Part)
    BY <1>2, <2>2, SeqDef
  <2>4. Len(A) \in Nat /\ DOMAIN A = 1..Len(A)
    BY <2>3, LenProperties
  <2> QED BY <1>2, <2>2, <2>3, <2>4
<1> HIDE DEF A
<1>6. A # <<>>
  BY <1>2, <1>5, EmptySeq
<1>7. A[1].sa = d[j] /\ A[Len(A)].en = j - 1
  BY <1>1, <1>2, <1>4, <1>5
<1>8. \A p \in 1..Len(A) : A[p].sa <= A[p].en
  BY <1>3, <1>4, <1>5
<1>9. ASSUME NEW p \in 2..Len(A)
      PROVE  A[p].sa = A[p - 1].en + 1
  <2>1. p \in 1..Len(s) /\ p - 1 \in 1..Len(s) /\ p \in 2..Len(s)
    BY <1>2, <1>5
  <2> QED BY <1>1, <1>4, <2>1
<1>10. Chain(A, d[j], j - 1)
  BY <1>5, <1>6, <1>7, <1>8, <1>9 DEF Chain
<1>11. Rooted(A)
  BY <1>4, <1>5 DEF Rooted
<1> QED BY <1>2, <1>4, <1>5, <1>10, <1>11 DEF A, s

(* The parts without a subtree: nothing is left of the virtual root.        *)
LEMMA FirstPartsTile ==
  ASSUME TreeShape
  PROVE  /\ Chain(FirstParts, 1, tree.n) /\ Rooted(FirstParts)
         /\ Len(FirstParts) > 0 /\ FirstParts[1].is_child
         /\ \A k \in 1..Len(FirstParts) : FirstParts[k].loc = -1
<1> DEFINE s == tree.child[VRoot]
<1>1. /\ VRoot \in 1..VRoot /\ tree.least_desc[VRoot] = 1 /\ VRoot # 1
      /\ VRoot - 1 = tree.n /\ tree.n \in Nat
  BY BelowRoot, NodeFacts
<1>2. s # <<>>
  BY <1>1, ChildrenTile
<1>3. s \in Seq(Node)
  BY <1>1, ChildrenTile
<1>4. DOMAIN s = 1..Len(s)
  BY <1>3, LenProperties
<1>5. FirstParts = ChildParts(VRoot)
  BY <1>4 DEF FirstParts, ChildParts
<1>6. /\ Chain(ChildParts(VRoot), 1, tree.n) /\ Rooted(ChildParts(VRoot))
      /\ Len(ChildParts(VRoot)) > 0
      /\ \A k \in 1..Len(ChildParts(VRoot)) : ChildParts(VRoot)[k].is_child /\ ChildParts(VRoot)[k].loc = -1
  BY <1>1, <1>2, ChildPartsTile
<1>7. 1 \in 1..Len(ChildParts(VRoot))
  BY <1>6, ChainFacts
<1> QED BY <1>5, <1>6, <1>7

LEMMA SplitPartTile ==
  ASSUME TreeShape, NEW part \in Part, part.is_child, part.sa = tree.least_desc[part.en],
         tree.child[part.en] # <<>>
  PROVE  LET new == SplitPart(part, tree.child[part.en]) IN
         /\ Chain(new, part.sa, part.en) /\ Rooted(new)
         /\ Len(new) > 0 /\ new[1].is_child
         /\ \A k \in 1..Len(new) : new[k].loc = -1
<1> DEFINE s == tree.child[part.en]
           d == tree.least_desc
           more == [k \in DOMAIN s |-> s[k] + 1]
           starts == <<part.sa>> \o more
           A == ChildParts(part.en)
           B == <<NewPart(part.en, part.en, FALSE)>>
           new == SplitPart(part, s)
<1>1. part.en \in Node /\ part.en \in 1..VRoot /\ part.sa \in Node /\ part.en \in Nat /\ part.sa \in Nat
  BY PartFacts, NodeFacts
<1>2. /\ s \in Seq(Node)
      /\ \A k \in 1..Len(s) : s[k] \in Node
      /\ d[s[1]] = d[part.en] /\ s[Len(s)] = part.en - 1
      /\ \A k \in 2..Len(s) : d[s[k]] = s[k - 1] + 1
  BY <1>1, ChildrenTile
<1>3. /\ Chain(A, part.sa, part.en - 1) /\ Rooted(A) /\ Len(A) = Len(s) /\ Len(A) > 0
      /\ \A k \in 1..Len(A) : A[k].is_child /\ A[k].loc = -1
  BY <1>1, ChildPartsTile
<1>4. Len(s) \in Nat /\ DOMAIN s = 1..Len(s) /\ 1 \in 1..Len(s) /\ Len(s) \in 1..Len(s)
  <2>1. Len(s) \in Nat /\ DOMAIN s = 1..Len(s)
    BY <1>2, LenProperties
  <2> HIDE DEF s, A
  <2> QED BY <1>3, <2>1
<1> HIDE DEF s
<1>5. \A k \in 1..Len(s) : s[k] \in Nat
  BY <1>2, NodeFacts
<1>6. more \in Seq(Nat) /\ Len(more) = Len(s) /\ \A k \in 1..Len(s) : more[k] = s[k] + 1
  <2>1. more \in [1..Len(s) -> Nat] /\ DOMAIN more = 1..Len(s)
    BY <1>4, <1>5
  <2>2. more \in Seq(Nat)
    BY <1>4, <2>1, SeqDef
  <2>3. Len(more) \in Nat /\ DOMAIN more = 1..Len(more)
    BY <2>2, LenProperties
  <2>4. \A k \in 1..Len(s) : more[k] = s[k] + 1
    BY <1>4
  <2> HIDE DEF more
  <2> QED BY <1>4, <2>1, <2>2, <2>3, <2>4
<1> HIDE DEF more
<1>7. /\ starts \in Seq(Nat) /\ Len(starts) = 1 + Len(s) /\ starts[1] = part.sa
      /\ \A k \in 2..(1 + Len(s)) : starts[k] = s[k - 1] + 1
  <2>1. <<part.sa>> \in Seq(Nat) /\ Len(<<part.sa>>) = 1 /\ <<part.sa>>[1] = part.sa
    BY <1>1
  <2> DEFINE one == <<part.sa>>
  <2> HIDE DEF one
  <2>2. /\ starts \in Seq(Nat) /\ Len(starts) = 1 + Len(s)
        /\ \A k \in 1..(1 + Len(s)) : starts[k] = IF k <= 1 THEN one[k] ELSE more[k - 1]
    BY <1>6, <2>1, ConcatProperties DEF one
  <2> HIDE DEF starts
  <2>3. starts[1] = part.sa
    BY <1>4, <2>1, <2>2 DEF one
  <2>4. ASSUME NEW k \in 2..(1 + Len(s))
        PROVE  starts[k] = s[k - 1] + 1
    <3>1. k \in 1..(1 + Len(s)) /\ ~ (k <= 1) /\ k - 1 \in 1..Len(s)
      BY <1>4
    <3> QED BY <1>6, <2>2, <3>1
  <2> QED BY <2>2, <2>3, <2>4
<1> HIDE DEF starts
<1>8. \A k \in 1..Len(s) : starts[k] = d[s[k]]
  <2> TAKE k \in 1..Len(s)
  <2>1. CASE k = 1
    BY <1>2, <1>7, <2>1
  <2>2. CASE k # 1
    <3>1. k \in 2..Len(s) /\ k \in 2..(1 + Len(s))
      BY <1>4, <2>2
    <3> QED BY <1>2, <1>7, <3>1
  <2> QED BY <2>1, <2>2
<1>9. Last(starts) = part.en
  <2>1. 1 + Len(s) \in 2..(1 + Len(s)) /\ 1 + Len(s) - 1 = Len(s)
    BY <1>4
  <2>2. starts[1 + Len(s)] = s[1 + Len(s) - 1] + 1
    BY <1>7, <2>1
  <2>3. starts[1 + Len(s)] = s[Len(s)] + 1
    BY <2>1, <2>2
  <2> QED BY <1>1, <1>2, <1>7, <2>3 DEF Last
<1>10. A = [k \in DOMAIN s |-> NewPart(starts[k], s[k], TRUE)]
  BY <1>4, <1>8 DEF ChildParts, s
<1> HIDE DEF A
<1>11. new = A \o B
  BY <1>9, <1>10 DEF SplitPart, starts, more
<1> DEFINE b == NewPart(part.en, part.en, FALSE)
<1>12. b \in Part /\ b.sa = part.en /\ b.en = part.en /\ b.is_child = FALSE /\ b.loc = -1
  <2>1. part.en \in Node /\ FALSE \in BOOLEAN
    BY <1>1
  <2> QED BY <2>1, NewPartIs
<1> HIDE DEF b
<1>13. B \in Seq(Part) /\ Len(B) = 1 /\ B[1] = b /\ B # <<>>
  <2>1. B = <<b>>
    BY DEF b
  <2> HIDE DEF B
  <2>2. <<b>> \in Seq(Part) /\ Len(<<b>>) = 1 /\ <<b>>[1] = b
    BY <1>12
  <2>3. <<b>> # <<>>
    BY <2>2, EmptySeq
  <2> QED BY <2>1, <2>2, <2>3
<1> HIDE DEF B, new
<1>14. Chain(B, part.en, part.en)
  <2>1. \A p \in 1..Len(B) : p = 1
    BY <1>13
  <2>2. \A p \in 2..Len(B) : FALSE
    BY <1>13
  <2> QED BY <1>1, <1>12, <1>13, <2>1, <2>2 DEF Chain
<1>15. Rooted(B)
  <2>1. \A p \in 1..Len(B) : p = 1
    BY <1>13
  <2> QED BY <1>12, <1>13, <2>1 DEF Rooted
<1>16. Chain(new, part.sa, part.en)
  <2>1. part.en - 1 + 1 = part.en /\ part.en - 1 \in Int
    BY <1>1
  <2> QED BY <1>1, <1>3, <1>11, <1>14, <2>1, ChainConcat
<1>17. A \in Seq(Part)
  BY <1>3 DEF Chain
<1>18. Rooted(new)
  BY <1>3, <1>11, <1>13, <1>15, <1>17, RootedConcat
<1>19. /\ Len(new) = Len(A) + 1
       /\ \A k \in 1..(Len(A) + 1) : new[k] = IF k <= Len(A) THEN A[k] ELSE B[k - Len(A)]
  <2>1. /\ Len(A \o B) = Len(A) + Len(B)
        /\ \A k \in 1..(Len(A) + Len(B)) :
             (A \o B)[k] = IF k <= Len(A) THEN A[k] ELSE B[k - Len(A)]
    BY <1>13, <1>17, ConcatProperties
  <2> QED BY <1>11, <1>13, <2>1
<1>20. Len(A) \in Nat
  BY <1>17, LenProperties
<1>21. new[1] = A[1] /\ 1 \in 1..Len(A) /\ Len(new) > 0
  BY <1>3, <1>19, <1>20
<1>22. \A k \in 1..Len(new) : new[k].loc = -1
  <2> TAKE k \in 1..Len(new)
  <2>1. CASE k <= Len(A)
    <3>1. k \in 1..Len(A) /\ new[k] = A[k]
      BY <1>19, <1>20, <2>1
    <3> QED BY <1>3, <3>1
  <2>2. CASE ~ (k <= Len(A))
    <3>1. k - Len(A) = 1 /\ new[k] = B[k - Len(A)]
      BY <1>19, <1>20, <2>2
    <3> QED BY <1>12, <1>13, <3>1
  <2> QED BY <2>1, <2>2
<1> QED BY <1>3, <1>16, <1>18, <1>21, <1>22 DEF new, s

-----------------------------------------------------------------------------
(* create_size_order lists every part once.                                 *)

Orders(k) == {o \in [1..k -> 1..k] : \A x \in 1..k : \E i \in 1..k : o[i] = x}

LEMMA OrderFacts ==
  ASSUME NEW k \in Nat, NEW o \in Orders(k)
  PROVE  /\ o \in Seq(1..k) /\ Len(o) = k
         /\ \A i \in 1..k : o[i] \in 1..k
         /\ \A x \in 1..k : \E i \in 1..k : o[i] = x
<1>1. o \in [1..k -> 1..k] /\ \A x \in 1..k : \E i \in 1..k : o[i] = x
  BY DEF Orders
<1>2. o \in Seq(1..k)
  BY <1>1, IsSeq
<1>3. Len(o) \in Nat /\ DOMAIN o = 1..Len(o) /\ DOMAIN o = 1..k
  BY <1>1, <1>2, LenProperties
<1>4. Len(o) = k
  <2> DEFINE L == Len(o)
  <2>1. L \in Nat /\ k \in Nat /\ \A x : x \in 1..L <=> x \in 1..k
    BY <1>3
  <2> HIDE DEF L
  <2>2. (L \in 1..L \/ L = 0) /\ (k \in 1..k \/ k = 0)
    BY <2>1
  <2>3. (L \in 1..k \/ L = 0) /\ (k \in 1..L \/ k = 0)
    BY <2>1, <2>2
  <2>4. L = k
    BY <2>1, <2>3
  <2> QED BY <2>4 DEF L
<1> QED BY <1>1, <1>2, <1>4

LEMMA InsertedOrder ==
  ASSUME NEW k \in Nat, NEW o \in Orders(k), NEW t \in 1..(k + 1)
  PROVE  InsertAt(o, t, k + 1) \in Orders(k + 1)
<1> DEFINE K == k + 1
           one == <<K>>
           u == SubSeq(o, 1, t - 1)
           v == SubSeq(o, t, Len(o))
           w == u \o one
           r == w \o v
<1>1. /\ o \in Seq(1..k) /\ Len(o) = k
      /\ \A i \in 1..k : o[i] \in 1..k
      /\ \A x \in 1..k : \E i \in 1..k : o[i] = x
  BY OrderFacts
<1>2. t \in Nat /\ 1 <= t /\ t <= k + 1 /\ k \in Nat /\ K \in Nat
  OBVIOUS
<1>3. one \in Seq(Nat) /\ Len(one) = 1 /\ one[1] = K
  BY <1>2
<1>4. /\ u \in Seq(Nat) /\ Len(u) = t - 1 /\ \A i \in 1..(t - 1) : u[i] = o[i]
  <2>1. \A i \in 1..(t - 1) : o[i] \in Nat
    <3> TAKE i \in 1..(t - 1)
    <3>1. i \in 1..k
      BY <1>2
    <3>2. o[i] \in 1..k
      BY <1>1, <3>1
    <3> QED BY <1>2, <3>2
  <2>2. /\ u \in Seq(Nat) /\ Len(u) = IF 1 <= t - 1 THEN t - 1 - 1 + 1 ELSE 0
        /\ \A i \in 1..(t - 1 - 1 + 1) : u[i] = o[1 + i - 1]
    BY <1>1, <1>2, <2>1, SubSeqProperties
  <2> HIDE DEF u
  <2>3. Len(u) = t - 1
    BY <1>2, <2>2
  <2>4. ASSUME NEW i \in 1..(t - 1)
        PROVE  u[i] = o[i]
    <3>1. i \in 1..(t - 1 - 1 + 1) /\ 1 + i - 1 = i
      BY <1>2
    <3> QED BY <2>2, <3>1
  <2> QED BY <2>2, <2>3, <2>4
<1>5. /\ v \in Seq(Nat) /\ Len(v) = K - t /\ \A i \in 1..(K - t) : v[i] = o[t + i - 1]
  <2>1. \A i \in t..k : o[i] \in Nat
    <3> TAKE i \in t..k
    <3>1. i \in 1..k
      BY <1>2
    <3>2. o[i] \in 1..k
      BY <1>1, <3>1
    <3> QED BY <1>2, <3>2
  <2>2. v = SubSeq(o, t, k)
    BY <1>1
  <2>3. /\ v \in Seq(Nat) /\ Len(v) = IF t <= k THEN k - t + 1 ELSE 0
        /\ \A i \in 1..(k - t + 1) : v[i] = o[t + i - 1]
    BY <1>2, <2>1, <2>2, SubSeqProperties
  <2> HIDE DEF v
  <2> QED BY <1>2, <2>3
<1> HIDE DEF one, u, v, K
<1>6. /\ w \in Seq(Nat) /\ Len(w) = t
      /\ \A i \in 1..(t - 1) : w[i] = o[i]
      /\ w[t] = K
  <2>1. /\ w \in Seq(Nat) /\ Len(w) = Len(u) + Len(one)
        /\ \A i \in 1..(Len(u) + Len(one)) : w[i] = IF i <= Len(u) THEN u[i] ELSE one[i - Len(u)]
    BY <1>3, <1>4, ConcatProperties
  <2>2. Len(u) + Len(one) = t /\ Len(u) = t - 1 /\ t - (t - 1) = 1 /\ ~ (t <= t - 1) /\ t \in 1..t
    BY <1>2, <1>3, <1>4
  <2>3. w \in Seq(Nat) /\ Len(w) = t
    BY <2>1, <2>2
  <2>4. w[t] = one[t - Len(u)]
    BY <2>1, <2>2
  <2>5. w[t] = K
    BY <1>3, <2>2, <2>4
  <2>6. ASSUME NEW i \in 1..(t - 1)
        PROVE  w[i] = o[i]
    <3>1. i \in 1..(Len(u) + Len(one)) /\ i <= Len(u)
      BY <1>2, <2>2
    <3> QED BY <1>4, <2>1, <3>1
  <2> QED BY <2>3, <2>5, <2>6
<1> HIDE DEF w
<1>7. /\ r \in Seq(Nat) /\ Len(r) = K
      /\ \A i \in 1..K : r[i] = IF i <= t THEN w[i] ELSE v[i - t]
  <2>1. /\ r \in Seq(Nat) /\ Len(r) = Len(w) + Len(v)
        /\ \A i \in 1..(Len(w) + Len(v)) : r[i] = IF i <= Len(w) THEN w[i] ELSE v[i - Len(w)]
    BY <1>5, <1>6, ConcatProperties
  <2> HIDE DEF r
  <2>2. Len(w) + Len(v) = K /\ Len(w) = t
    <3>1. t + (K - t) = K
      BY <1>2
    <3> QED BY <1>5, <1>6, <3>1
  <2> QED BY <2>1, <2>2
<1>8. r = InsertAt(o, t, k + 1)
  BY DEF InsertAt, u, v, w, one, K
<1> HIDE DEF r
<1> USE DEF K
<1>9. /\ \A i \in 1..(t - 1) : r[i] = o[i]
      /\ r[t] = K
      /\ \A i \in (t + 1)..K : r[i] = o[i - 1]
  <2>1. ASSUME NEW i \in (t + 1)..K
        PROVE  r[i] = o[i - 1]
    <3>1. i \in 1..K /\ ~ (i <= t) /\ i - t \in 1..(K - t) /\ t + (i - t) - 1 = i - 1
      BY <1>2
    <3>2. r[i] = v[i - t] /\ v[i - t] = o[t + (i - t) - 1]
      BY <1>5, <1>7, <3>1
    <3> QED BY <3>1, <3>2
  <2>2. \A i \in 1..(t - 1) : r[i] = o[i]
    BY <1>2, <1>6, <1>7
  <2>3. r[t] = K
    BY <1>2, <1>6, <1>7
  <2> QED BY <2>1, <2>2, <2>3
<1>10. ASSUME NEW i \in 1..K
       PROVE  r[i] \in 1..K
  <2>1. CASE i < t
    <3>1. i \in 1..(t - 1) /\ i \in 1..k
      BY <1>2, <2>1
    <3>2. r[i] = o[i] /\ o[i] \in 1..k
      BY <1>1, <1>9, <3>1
    <3> QED BY <1>2, <3>2
  <2>2. CASE i = t
    BY <1>2, <1>9, <2>2
  <2>3. CASE i > t
    <3>1. i \in (t + 1)..K /\ i - 1 \in 1..k
      BY <1>2, <2>3
    <3>2. r[i] = o[i - 1] /\ o[i - 1] \in 1..k
      BY <1>1, <1>9, <3>1
    <3> QED BY <1>2, <3>2
  <2> QED BY <1>2, <2>1, <2>2, <2>3
<1>11. ASSUME NEW x \in 1..K
       PROVE  \E i \in 1..K : r[i] = x
  <2>1. CASE x = K
    BY <1>2, <1>9, <2>1
  <2>2. CASE x # K
    <3>1. x \in 1..k
      BY <1>2, <2>2
    <3>2. PICK i \in 1..k : o[i] = x
      BY <1>1, <3>1
    <3>3. CASE i < t
      <4>1. i \in 1..(t - 1) /\ i \in 1..K
        BY <1>2, <3>3
      <4> QED BY <1>9, <3>2, <4>1
    <3>4. CASE ~ (i < t)
      <4>1. i + 1 \in (t + 1)..K /\ i + 1 \in 1..K /\ i + 1 - 1 = i
        BY <1>2, <3>4
      <4> QED BY <1>9, <3>2, <4>1
    <3> QED BY <3>3, <3>4
  <2> QED BY <2>1, <2>2
<1>12. r \in [1..K -> 1..K]
  <2>1. DOMAIN r = 1..K /\ r = [i \in 1..K |-> r[i]]
    BY <1>7
  <2> QED BY <1>10, <2>1
<1>13. r \in Orders(K)
  BY <1>11, <1>12 DEF Orders
<1> QED BY <1>8, <1>13

LEMMA EmptyOrder == <<>> \in Orders(0)
  BY DEF Orders

(* A recursion over the elements of a sequence that starts with base and    *)
(* computes F[k] for the k-th: the values it goes through.                  *)
LEMMA FoldSteps ==
  ASSUME NEW n \in Nat, NEW S, NEW base \in S[0], NEW F, Steps(n, S, F),
         NEW h, h[0] = base, \A k \in 1..n : h[k - 1] \in S[k - 1] => h[k] = F[k][h[k - 1]]
  PROVE  /\ \A k \in 0..n : h[k] \in S[k]
         /\ \A k \in 1..n : h[k] = F[k][h[k - 1]]
<1>1. PICK g : Iterates(g, n, S, base, F)
  BY IterateExists
<1>2. /\ g[0] = base /\ \A k \in 0..n : g[k] \in S[k]
      /\ \A k \in 1..n : g[k] = F[k][g[k - 1]]
  BY <1>1 DEF Iterates
<1>3. \A k \in 1..n : k - 1 \in 0..n
  OBVIOUS
<1>4. \A k \in 1..n : g[k - 1] = h[k - 1] => g[k] = h[k]
  BY <1>2, <1>3
<1>5. \A k \in 0..n : g[k] = h[k]
  <2>1. g[0] = h[0]
    BY <1>2
  <2> QED BY <1>4, <2>1, SameIterates
<1> QED BY <1>2, <1>3, <1>5

(* flops is left as it is: any comparison gives an order.                   *)
LEMMA SizeOrderIs ==
  ASSUME NEW ps, NEW n \in Nat, DOMAIN ps = 1..n
  PROVE  create_size_order(ps) \in Orders(n)
<1> DEFINE seq == [i \in DOMAIN ps |-> i]
           lighter(i) == {j \in 1..(i - 1) : flops(ps[i]) > flops(ps[j])}
           Op(order, i) == InsertAt(order, Min(lighter(i) \cup {i}), i)
           G(f) == [k \in 0..Len(seq) |->
                      IF k = 0 THEN <<>>
                      ELSE CHOOSE r \in {Op(acc, seq[k]) : acc \in {f[k - 1]}} : TRUE]
           h == CHOOSE f : f = G(f)
           S == [k \in 0..n |-> Orders(k)]
           F == [k \in 1..n |-> [acc \in S[k - 1] |-> Op(acc, k)]]
<1>1. create_size_order(ps) = h[Len(seq)]
  BY DEF create_size_order, Fold
<1>2. Len(seq) = n /\ \A k \in 1..n : seq[k] = k
  <2>1. seq = [i \in 1..n |-> i]
    OBVIOUS
  <2>2. seq \in [1..n -> Nat] /\ DOMAIN seq = 1..n
    BY <2>1
  <2>3. seq \in Seq(Nat)
    BY <2>2, SeqDef
  <2>4. Len(seq) \in Nat /\ DOMAIN seq = 1..Len(seq)
    BY <2>3, LenProperties
  <2>5. \A k \in 1..n : seq[k] = k
    BY <2>1
  <2> HIDE DEF seq
  <2> QED BY <2>2, <2>4, <2>5
<1>3. ASSUME NEW k \in 1..n, NEW acc \in S[k - 1]
      PROVE  Op(acc, k) \in S[k]
  <2>1. acc \in Orders(k - 1) /\ k - 1 \in Nat /\ S[k] = Orders(k) /\ k - 1 + 1 = k
    OBVIOUS
  <2> DEFINE t == Min(lighter(k) \cup {k})
  <2>2. lighter(k) \cup {k} \in SUBSET Nat /\ lighter(k) \cup {k} # {}
    OBVIOUS
  <2>3. lighter(k) \cup {k} \subseteq 1..k
    OBVIOUS
  <2> HIDE DEF lighter
  <2>4. t \in lighter(k) \cup {k}
    BY <2>2, MinIs
  <2>5. t \in 1..(k - 1 + 1)
    BY <2>1, <2>3, <2>4
  <2> HIDE DEF t
  <2>6. InsertAt(acc, t, k - 1 + 1) \in Orders(k - 1 + 1)
    BY <2>1, <2>5, InsertedOrder
  <2> QED BY <2>1, <2>6 DEF t
<1>4. Steps(n, S, F)
  <2>1. \A k \in 1..n : F[k] \in [S[k - 1] -> S[k]]
    <3> HIDE DEF Op, S
    <3> QED BY <1>3
  <2> QED BY <2>1 DEF Steps
<1>5. <<>> \in S[0]
  BY EmptyOrder
<1> HIDE DEF S
<1>6. \A k \in 1..n : \A acc \in S[k - 1] : F[k][acc] = Op(acc, k)
  OBVIOUS
<1> HIDE DEF F, Op
<1>7. PICK g : Iterates(g, n, S, <<>>, F)
  BY <1>4, <1>5, IterateExists
<1>8. g = G(g)
  <2>1. /\ g = [k \in 0..n |-> g[k]] /\ g[0] = <<>>
        /\ \A k \in 1..n : g[k] = F[k][g[k - 1]] /\ g[k - 1] \in S[k - 1]
    <3>1. \A k \in 1..n : k - 1 \in 0..n
      OBVIOUS
    <3> QED BY <1>7, <3>1 DEF Iterates
  <2>2. \A k \in 1..n : g[k] = Op(g[k - 1], seq[k])
    BY <1>2, <1>6, <2>1
  <2> HIDE DEF seq
  <2>3. \A k \in 0..n : g[k] = IF k = 0 THEN <<>>
                              ELSE CHOOSE r \in {Op(acc, seq[k]) : acc \in {g[k - 1]}} : TRUE
    <3> TAKE k \in 0..n
    <3>1. CASE k = 0
      BY <2>1, <3>1
    <3>2. CASE k # 0
      <4>1. g[k] = Op(g[k - 1], seq[k])
        BY <2>2, <3>2
      <4>2. {Op(acc, seq[k]) : acc \in {g[k - 1]}} = {g[k]}
        BY <4>1
      <4> QED BY <3>2, <4>2
    <3> QED BY <3>1, <3>2
  <2> QED BY <1>2, <2>1, <2>3
<1>9. h = G(h)
  BY <1>8
<1> HIDE DEF h
<1>10. h[0] = <<>> /\ \A k \in 1..n : h[k] = Op(h[k - 1], k)
  <2>1. 0 \in 0..Len(seq) /\ h[0] = <<>>
    BY <1>2, <1>9
  <2>2. ASSUME NEW k \in 1..n
        PROVE  h[k] = Op(h[k - 1], k)
    <3>1. k \in 0..Len(seq) /\ k # 0 /\ seq[k] = k
      BY <1>2
    <3> HIDE DEF seq
    <3>2. h[k] = CHOOSE r \in {Op(acc, seq[k]) : acc \in {h[k - 1]}} : TRUE
      BY <1>9, <3>1
    <3>3. {Op(acc, seq[k]) : acc \in {h[k - 1]}} = {Op(h[k - 1], k)}
      BY <3>1
    <3> QED BY <3>2, <3>3
  <2> QED BY <2>1, <2>2
<1>11. \A k \in 1..n : h[k - 1] \in S[k - 1] => h[k] = F[k][h[k - 1]]
  BY <1>6, <1>10
<1>12. \A k \in 0..n : h[k] \in S[k]
  BY <1>4, <1>5, <1>10, <1>11, FoldSteps
<1>13. h[n] \in Orders(n)
  BY <1>12 DEF S
<1> QED BY <1>1, <1>2, <1>13

-----------------------------------------------------------------------------
(* split_tree: the parts go on covering the postorder, and the first of     *)
(* them is a subtree.                                                       *)

Covers(s) ==
  /\ Chain(s, 1, tree.n) /\ Rooted(s)
  /\ Len(s) > 0 /\ s[1].is_child
  /\ \A p \in 1..Len(s) : s[p].loc = -1

LEMMA ToSplitIs ==
  ASSUME TreeShape, Covers(parts), size_order \in Orders(Len(parts))
  PROVE  ToSplit \in 1..Len(parts) /\ parts[ToSplit].is_child
<1> DEFINE n == Len(parts)
           T == {i \in PartSet : parts[size_order[i]].is_child}
<1>1. n \in Nat /\ DOMAIN parts = 1..n /\ n > 0 /\ parts[1].is_child
  BY ChainFacts DEF Covers
<1> HIDE DEF n
<1>2. /\ \A i \in 1..n : size_order[i] \in 1..n
      /\ \A x \in 1..n : \E i \in 1..n : size_order[i] = x
  BY <1>1, OrderFacts DEF n
<1>3. T \in SUBSET Nat /\ T # {}
  <2>1. 1 \in 1..n
    BY <1>1
  <2>2. PICK i \in 1..n : size_order[i] = 1
    BY <1>2, <2>1
  <2>3. i \in T
    BY <1>1, <2>2 DEF PartSet
  <2>4. T \subseteq 1..n
    BY <1>1 DEF PartSet
  <2> HIDE DEF T
  <2> QED BY <1>1, <2>3, <2>4
<1>4. Min(T) \in T
  <2> HIDE DEF T
  <2> QED BY <1>3, MinIs
<1>5. ToSplit = size_order[Min(T)]
  BY DEF ToSplit
<1>6. Min(T) \in 1..n /\ parts[size_order[Min(T)]].is_child
  BY <1>1, <1>4 DEF PartSet
<1> HIDE DEF T
<1> QED BY <1>2, <1>5, <1>6 DEF n

LEMMA SplitCovers ==
  ASSUME TreeShape, Covers(parts), size_order \in Orders(Len(parts))
  PROVE  Covers(split_tree)
<1> DEFINE t == ToSplit
           part == parts[t]
           children == tree.child[part.en]
           n == Len(parts)
           u == SubSeq(parts, 1, t - 1)
           new == SplitPart(part, children)
           v == SubSeq(parts, t + 1, n)
           w == u \o new
           r == w \o v
<1>1. t \in 1..n /\ part.is_child
  BY ToSplitIs
<1>2. Chain(parts, 1, tree.n) /\ Rooted(parts) /\ n > 0 /\ parts[1].is_child
      /\ \A p \in 1..n : parts[p].loc = -1
  BY DEF Covers
<1>3. CASE split_tree = parts
  BY <1>3
<1>4. CASE split_tree # parts
  <2>1. split_tree = r /\ children # <<>>
    BY <1>4 DEF split_tree
  <2> HIDE DEF t
  <2>2. n \in Nat /\ part \in Part /\ \A p \in 1..n : parts[p] \in Part
    BY <1>1, <1>2, ChainFacts
  <2>3. part.sa = tree.least_desc[part.en]
    BY <1>1, <1>2 DEF Rooted
  <2>4. 1 \in Int /\ tree.n \in Int /\ part.sa \in Int /\ part.en \in Int
    BY <2>2, PartFacts, NodeFacts
  <2>5. /\ Chain(u, 1, part.sa - 1)
        /\ Chain(v, part.en + 1, tree.n)
        /\ Rooted(u) /\ Rooted(v)
    BY <1>1, <1>2, <2>4, ChainCut
  <2> HIDE DEF part
  <2>6. /\ Chain(new, part.sa, part.en) /\ Rooted(new)
        /\ Len(new) > 0 /\ new[1].is_child
        /\ \A k \in 1..Len(new) : new[k].loc = -1
    BY <1>1, <2>1, <2>2, <2>3, SplitPartTile
  <2> HIDE DEF new, children
  <2>7. u \in Seq(Part) /\ new \in Seq(Part) /\ v \in Seq(Part)
    BY <2>5, <2>6 DEF Chain
  <2>8. /\ Len(u) = t - 1 /\ \A p \in 1..(t - 1) : u[p] = parts[p]
        /\ Len(v) = n - t /\ \A p \in 1..(n - t) : v[p] = parts[t + p]
    <3>1. /\ \A p \in 1..(t - 1) : parts[p] \in Part
          /\ \A p \in (t + 1)..n : parts[p] \in Part
          /\ t - 1 \in Int /\ t + 1 \in Int /\ t \in Int
      BY <1>1, <2>2
    <3>2. /\ Len(u) = IF 1 <= t - 1 THEN t - 1 - 1 + 1 ELSE 0
          /\ \A p \in 1..(t - 1 - 1 + 1) : u[p] = parts[1 + p - 1]
      BY <2>2, <3>1, SubSeqProperties
    <3>3. /\ Len(v) = IF t + 1 <= n THEN n - (t + 1) + 1 ELSE 0
          /\ \A p \in 1..(n - (t + 1) + 1) : v[p] = parts[t + 1 + p - 1]
      BY <2>2, <3>1, SubSeqProperties
    <3> HIDE DEF u, v, n
    <3> QED BY <1>1, <2>2, <3>2, <3>3
  <2> HIDE DEF u, v
  <2>9. Chain(w, 1, part.en) /\ Rooted(w) /\ w \in Seq(Part)
    <3>1. part.sa - 1 + 1 = part.sa /\ part.sa - 1 \in Int
      BY <2>4
    <3>2. Chain(w, 1, part.en)
      <4> DEFINE b == part.sa - 1
      <4>1. b \in Int /\ Chain(u, 1, b) /\ Chain(new, b + 1, part.en)
        BY <2>5, <2>6, <3>1
      <4> HIDE DEF b
      <4> QED BY <2>4, <4>1, ChainConcat
    <3>3. Rooted(w)
      BY <2>5, <2>6, <2>7, RootedConcat
    <3> QED BY <3>2, <3>3 DEF Chain
  <2>10. /\ Len(w) = Len(u) + Len(new)
         /\ \A p \in 1..(Len(u) + Len(new)) : w[p] = IF p <= Len(u) THEN u[p] ELSE new[p - Len(u)]
    BY <2>7, ConcatProperties
  <2> HIDE DEF w
  <2>11. Chain(r, 1, tree.n) /\ Rooted(r)
    <3>1. Chain(r, 1, tree.n)
      BY <2>4, <2>5, <2>9, ChainConcat
    <3>2. Rooted(r)
      BY <2>5, <2>7, <2>9, RootedConcat
    <3> QED BY <3>1, <3>2
  <2>12. /\ Len(r) = Len(w) + Len(v)
         /\ \A p \in 1..(Len(w) + Len(v)) : r[p] = IF p <= Len(w) THEN w[p] ELSE v[p - Len(w)]
    BY <2>7, <2>9, ConcatProperties
  <2> HIDE DEF r
  <2>13. Len(new) \in Nat
    BY <2>7, LenProperties
  <2>14. Len(w) \in Nat /\ Len(w) > 0 /\ Len(u) \in Nat /\ Len(v) \in Nat /\ t \in Nat
    BY <1>1, <2>2, <2>6, <2>8, <2>10, <2>13
  <2>15. r[1] = w[1] /\ Len(r) > 0
    <3>1. 1 \in 1..(Len(w) + Len(v)) /\ 1 <= Len(w)
      BY <2>14
    <3> QED BY <2>12, <2>14, <3>1
  <2>16. w[1].is_child
    <3>1. CASE t = 1
      <4>1. 1 \in 1..(Len(u) + Len(new)) /\ ~ (1 <= Len(u)) /\ 1 - Len(u) = 1
        BY <2>8, <2>6, <2>13, <3>1
      <4>2. w[1] = new[1]
        BY <2>10, <4>1
      <4> QED BY <2>6, <4>2
    <3>2. CASE t # 1
      <4>1. 1 \in 1..(Len(u) + Len(new)) /\ 1 <= Len(u) /\ 1 \in 1..(t - 1)
        BY <2>8, <2>13, <2>14, <3>2
      <4>2. w[1] = u[1] /\ u[1] = parts[1]
        BY <2>8, <2>10, <4>1
      <4> QED BY <1>2, <4>2
    <3> QED BY <3>1, <3>2
  <2>17. \A p \in 1..Len(w) : w[p].loc = -1
    <3> TAKE p \in 1..Len(w)
    <3>1. CASE p <= Len(u)
      <4>1. p \in 1..(Len(u) + Len(new)) /\ p \in 1..(t - 1) /\ p \in 1..n
        BY <1>1, <2>2, <2>8, <2>10, <2>13, <2>14, <3>1
      <4>2. w[p] = parts[p]
        BY <2>8, <2>10, <3>1, <4>1
      <4> QED BY <1>2, <4>1, <4>2
    <3>2. CASE ~ (p <= Len(u))
      <4>1. p \in 1..(Len(u) + Len(new)) /\ p - Len(u) \in 1..Len(new)
        BY <2>10, <2>13, <2>14, <3>2
      <4>2. w[p] = new[p - Len(u)]
        BY <2>10, <3>2, <4>1
      <4> QED BY <2>6, <4>1, <4>2
    <3> QED BY <3>1, <3>2
  <2>18. \A p \in 1..Len(r) : r[p].loc = -1
    <3> TAKE p \in 1..Len(r)
    <3>1. CASE p <= Len(w)
      <4>1. p \in 1..(Len(w) + Len(v)) /\ p \in 1..Len(w)
        BY <2>12, <2>14, <3>1
      <4>2. r[p] = w[p]
        BY <2>12, <3>1, <4>1
      <4> QED BY <2>17, <4>1, <4>2
    <3>2. CASE ~ (p <= Len(w))
      <4>1. /\ p \in 1..(Len(w) + Len(v)) /\ p - Len(w) \in 1..(n - t)
            /\ t + (p - Len(w)) \in 1..n
        BY <1>1, <2>2, <2>8, <2>12, <2>14, <3>2
      <4>2. r[p] = v[p - Len(w)] /\ v[p - Len(w)] = parts[t + (p - Len(w))]
        BY <2>8, <2>12, <3>2, <4>1
      <4> DEFINE x == t + (p - Len(w))
      <4>3. x \in 1..n /\ r[p] = parts[x]
        BY <4>1, <4>2
      <4> HIDE DEF x
      <4> QED BY <1>2, <4>3
    <3> QED BY <3>1, <3>2
  <2>19. Covers(r)
    BY <2>11, <2>15, <2>16, <2>18 DEF Covers
  <2> QED BY <2>1, <2>19
<1> QED BY <1>3, <1>4

-----------------------------------------------------------------------------
(* A part at the end of others, or taken into the last of them.             *)

LEMMA AppendTile ==
  ASSUME TreeShape, NEW s, NEW a \in Int, NEW q \in Part, Chain(s, a, q.sa - 1), q.sa <= q.en
  PROVE  /\ Chain(Append(s, q), a, q.en)
         /\ Len(Append(s, q)) = Len(s) + 1
         /\ \A p \in 1..Len(s) : Append(s, q)[p] = s[p]
         /\ Append(s, q)[Len(s) + 1] = q
<1> DEFINE r == Append(s, q)
           L == Len(s)
           b == q.sa - 1
<1>1. s \in Seq(Part) /\ L \in Nat /\ \A p \in 1..L : s[p] \in Part
  BY ChainFacts DEF Chain
<1>2. r \in Seq(Part) /\ Len(r) = L + 1 /\ (\A p \in 1..L : r[p] = s[p]) /\ r[L + 1] = q
  BY <1>1, AppendProperties
<1>3. q.sa \in Nat /\ q.en \in Nat /\ b \in Int /\ b + 1 = q.sa
  BY PartFacts
<1>4. Chain(s, a, b)
  OBVIOUS
<1> HIDE DEF r, L, b
<1>5. r # <<>> /\ Len(r) > 0
  BY <1>1, <1>2, EmptySeq
<1>6. r[1].sa = a
  <2>1. CASE L = 0
    <3>1. s = <<>>
      BY <1>1, <2>1, EmptySeq DEF L
    <3>2. a = b + 1
      BY <1>4, <3>1 DEF Chain
    <3> QED BY <1>2, <1>3, <2>1, <3>2
  <2>2. CASE L # 0
    <3>1. s # <<>> /\ 1 \in 1..L
      BY <1>1, <2>2, EmptySeq DEF L
    <3> QED BY <1>2, <1>4, <3>1 DEF Chain
  <2> QED BY <2>1, <2>2
<1>7. \A p \in 1..Len(r) : r[p].sa <= r[p].en
  <2> TAKE p \in 1..Len(r)
  <2>1. p \in 1..L \/ p = L + 1
    BY <1>1, <1>2
  <2> QED BY <1>2, <1>4, <2>1 DEF Chain, L
<1>8. ASSUME NEW p \in 2..Len(r)
      PROVE  r[p].sa = r[p - 1].en + 1
  <2>1. CASE p = L + 1
    <3>1. L \in 1..L /\ p - 1 = L /\ L # 0
      BY <1>1, <2>1
    <3>2. s # <<>>
      BY <1>1, <3>1, EmptySeq DEF L
    <3>3. s[L].en = b
      BY <1>4, <3>2 DEF Chain, L
    <3>4. r[p] = q /\ r[p - 1] = s[L]
      BY <1>2, <2>1, <3>1
    <3> QED BY <1>3, <3>3, <3>4
  <2>2. CASE p # L + 1
    <3>1. p \in 2..L /\ p \in 1..L /\ p - 1 \in 1..L
      BY <1>1, <1>2, <2>2
    <3>2. s[p].sa = s[p - 1].en + 1
      BY <1>4, <3>1 DEF Chain, L
    <3> QED BY <1>2, <3>1, <3>2
  <2> QED BY <2>1, <2>2
<1>9. Chain(r, a, q.en)
  BY <1>2, <1>5, <1>6, <1>7, <1>8 DEF Chain
<1> QED BY <1>2, <1>9 DEF r, L

(* r is s, the last part of it ending with q.                               *)
Extends(r, s, q) ==
  /\ Len(r) = Len(s)
  /\ \A p \in 1..(Len(s) - 1) : r[p] = s[p]
  /\ r[Len(s)].sa = s[Len(s)].sa /\ r[Len(s)].en = q.en
  /\ r[Len(s)].is_child = s[Len(s)].is_child /\ r[Len(s)].loc = s[Len(s)].loc

LEMMA ExtendTile ==
  ASSUME TreeShape, NEW s, NEW a \in Int, NEW q \in Part, Chain(s, a, q.sa - 1), q.sa <= q.en,
         Len(s) > 0
  PROVE  Chain(Extend(s, q), a, q.en) /\ Extends(Extend(s, q), s, q)
<1> DEFINE r == Extend(s, q)
           L == Len(s)
           last == s[L]
           z == [last EXCEPT !.en = q.en]
<1>1. s \in Seq(Part) /\ L \in Nat /\ (\A p \in 1..L : s[p] \in Part) /\ s # <<>> /\ DOMAIN s = 1..L
  BY ChainFacts DEF Chain
<1>2. q.sa \in Nat /\ q.en \in Nat /\ q.en \in Node
  BY PartFacts
<1>3. L \in 1..L /\ last \in Part
  BY <1>1
<1>4. z \in Part /\ z.sa = last.sa /\ z.en = q.en /\ z.is_child = last.is_child /\ z.loc = last.loc
  <2> HIDE DEF last
  <2> QED BY <1>2, <1>3 DEF Part
<1>5. r = [p \in 1..L |-> IF p = L THEN z ELSE s[p]]
  <2>1. s = [p \in 1..L |-> s[p]]
    BY <1>1
  <2>2. r = [s EXCEPT ![L] = z]
    BY DEF Extend
  <2> HIDE DEF r, z, L
  <2> QED BY <1>1, <2>1, <2>2
<1> HIDE DEF z
<1>6. r \in Seq(Part) /\ Len(r) = L
  <2>1. r \in [1..L -> Part] /\ DOMAIN r = 1..L
    <3> HIDE DEF r, L
    <3> QED BY <1>1, <1>4, <1>5
  <2> HIDE DEF r, L
  <2>2. r \in Seq(Part)
    BY <1>1, <2>1, SeqDef
  <2>3. Len(r) = L
    BY <1>1, <2>1, <2>2
  <2> QED BY <2>2, <2>3
<1> HIDE DEF r, L
<1>7. r[L] = z /\ \A p \in 1..(L - 1) : r[p] = s[p]
  BY <1>1, <1>3, <1>5
<1>8. \A p \in 1..L : r[p].sa = s[p].sa /\ s[p].sa \in Nat /\ s[p].en \in Nat
  <2> TAKE p \in 1..L
  <2>1. p = L \/ p \in 1..(L - 1)
    BY <1>1
  <2>2. r[p].sa = s[p].sa
    BY <1>4, <1>7, <2>1
  <2> QED BY <1>1, <2>2, PartFacts
<1>9. r # <<>> /\ 1 \in 1..L /\ r[1].sa = a /\ r[Len(r)].en = q.en
  <2>1. r # <<>> /\ 1 \in 1..L
    BY <1>1, <1>3, <1>6, EmptySeq
  <2>2. s[1].sa = a
    BY <1>1 DEF Chain
  <2>3. r[Len(r)].en = q.en
    BY <1>4, <1>6, <1>7
  <2> QED BY <1>8, <2>1, <2>2, <2>3
<1>10. \A p \in 1..Len(r) : r[p].sa <= r[p].en
  <2> TAKE p \in 1..Len(r)
  <2>1. CASE p = L
    <3>1. s[L].sa <= s[L].en /\ s[L].en = q.sa - 1
      BY <1>1, <1>3 DEF Chain, L
    <3>2. r[p].sa = s[L].sa /\ r[p].en = q.en
      BY <1>3, <1>4, <1>7, <1>8, <2>1
    <3>3. s[L].sa \in Nat /\ s[L].en \in Nat
      BY <1>3, <1>8
    <3> QED BY <1>2, <3>1, <3>2, <3>3
  <2>2. CASE p # L
    <3>1. p \in 1..(L - 1) /\ p \in 1..L
      BY <1>1, <1>6, <2>2
    <3>2. s[p].sa <= s[p].en
      BY <3>1 DEF Chain, L
    <3> QED BY <1>7, <3>1, <3>2
  <2> QED BY <2>1, <2>2
<1>11. ASSUME NEW p \in 2..Len(r)
       PROVE  r[p].sa = r[p - 1].en + 1
  <2>1. p \in 2..L /\ p \in 1..L /\ p - 1 \in 1..(L - 1)
    BY <1>1, <1>6
  <2>2. s[p].sa = s[p - 1].en + 1
    BY <2>1 DEF Chain, L
  <2> QED BY <1>7, <1>8, <2>1, <2>2
<1>12. Chain(r, a, q.en)
  BY <1>6, <1>9, <1>10, <1>11 DEF Chain
<1>13. /\ r[L].sa = last.sa /\ r[L].en = q.en
       /\ r[L].is_child = last.is_child /\ r[L].loc = last.loc
  BY <1>4, <1>7
<1>14. Extends(r, s, q)
  BY <1>6, <1>7, <1>13 DEF Extends, L
<1> QED BY <1>12, <1>14 DEF r

-----------------------------------------------------------------------------
(* Consolidate: what is above the subtrees is taken together.               *)

CoversTo(s, e) ==
  /\ Chain(s, 1, e) /\ Rooted(s)
  /\ Len(s) > 0 /\ s[1].is_child
  /\ \A p \in 1..Len(s) : s[p].loc = -1

LEMMA OnePart ==
  ASSUME TreeShape, NEW q \in Part, q.sa <= q.en
  PROVE  Chain(<<q>>, q.sa, q.en) /\ Len(<<q>>) = 1 /\ <<q>>[1] = q
<1> DEFINE s == <<q>>
<1>1. s \in Seq(Part) /\ Len(s) = 1 /\ s[1] = q /\ s # <<>>
  OBVIOUS
<1> HIDE DEF s
<1>2. \A p \in 1..Len(s) : p = 1
  BY <1>1
<1>3. \A p \in 2..Len(s) : FALSE
  BY <1>1
<1>4. Chain(s, q.sa, q.en)
  BY <1>1, <1>2, <1>3 DEF Chain
<1> QED BY <1>1, <1>4 DEF s

(* One turn of the loop.                                                    *)
TakeIn(ps, part) ==
  IF part.is_child \/ Last(ps).is_child THEN Append(ps, part) ELSE Extend(ps, part)

LEMMA TakeInCovers ==
  ASSUME TreeShape, NEW s, NEW q \in Part, CoversTo(s, q.sa - 1), q.sa <= q.en, q.loc = -1,
         q.is_child => q.sa = tree.least_desc[q.en]
  PROVE  CoversTo(TakeIn(s, q), q.en)
<1> DEFINE L == Len(s)
           r == TakeIn(s, q)
<1>1. /\ Chain(s, 1, q.sa - 1) /\ Rooted(s) /\ L > 0 /\ s[1].is_child
      /\ \A p \in 1..L : s[p].loc = -1
  BY DEF CoversTo
<1>2. L \in Nat /\ L \in 1..L /\ 1 \in 1..L /\ 1 \in Int
  BY <1>1, ChainFacts
<1>3. CASE q.is_child \/ Last(s).is_child
  <2>1. r = Append(s, q)
    BY <1>3 DEF TakeIn
  <2>2. /\ Chain(r, 1, q.en) /\ Len(r) = L + 1
        /\ \A p \in 1..L : r[p] = s[p]
        /\ r[L + 1] = q
    BY <1>1, <1>2, <2>1, AppendTile
  <2> HIDE DEF r, L
  <2>3. Len(r) > 0 /\ r[1].is_child
    BY <1>1, <1>2, <2>2
  <2>4. \A p \in 1..Len(r) : p \in 1..L \/ p = L + 1
    BY <1>2, <2>2
  <2>5. \A p \in 1..Len(r) : r[p].loc = -1
    BY <1>1, <2>2, <2>4
  <2>6. Rooted(r)
    <3>1. \A p \in 1..L : s[p].is_child => s[p].sa = tree.least_desc[s[p].en]
      BY <1>1 DEF Rooted, L
    <3> QED BY <2>2, <2>4, <3>1 DEF Rooted
  <2> QED BY <2>2, <2>3, <2>5, <2>6 DEF CoversTo, r
<1>4. CASE ~ (q.is_child \/ Last(s).is_child)
  <2>1. r = Extend(s, q)
    BY <1>4 DEF TakeIn
  <2>2. s[L].is_child = FALSE \/ ~ s[L].is_child
    BY <1>4 DEF Last
  <2>3. /\ Chain(r, 1, q.en) /\ Len(r) = L
        /\ \A p \in 1..(L - 1) : r[p] = s[p]
        /\ r[L].sa = s[L].sa /\ r[L].en = q.en
        /\ r[L].is_child = s[L].is_child /\ r[L].loc = s[L].loc
    <3>1. 1 \in Int /\ Chain(s, 1, q.sa - 1) /\ Len(s) > 0
      BY <1>1
    <3> HIDE DEF L, r
    <3>2. Chain(Extend(s, q), 1, q.en) /\ Extends(Extend(s, q), s, q)
      BY <3>1, ExtendTile
    <3>3. Chain(r, 1, q.en) /\ Extends(r, s, q)
      BY <2>1, <3>2 DEF r
    <3> QED BY <3>3 DEF Extends, L
  <2> HIDE DEF r, L
  <2>4. \A p \in 1..Len(r) : p \in 1..(L - 1) \/ p = L
    BY <1>2, <2>3
  <2>5. \A p \in 1..(L - 1) : p \in 1..L
    BY <1>2
  <2>6. L # 1
    BY <1>1, <2>2
  <2>7. 1 \in 1..(L - 1) /\ Len(r) > 0
    BY <1>2, <2>3, <2>6
  <2>8. r[1].is_child
    BY <1>1, <2>3, <2>7
  <2>9. \A p \in 1..Len(r) : r[p].loc = -1
    BY <1>1, <1>2, <2>3, <2>4, <2>5
  <2>10. Rooted(r)
    <3>1. \A p \in 1..L : s[p].is_child => s[p].sa = tree.least_desc[s[p].en]
      BY <1>1 DEF Rooted, L
    <3> QED BY <2>2, <2>3, <2>4, <2>5, <3>1 DEF Rooted
  <2> QED BY <2>3, <2>7, <2>8, <2>9, <2>10 DEF CoversTo, r
<1> QED BY <1>3, <1>4

LEMMA ConsolidatedCovers ==
  ASSUME TreeShape, Covers(parts)
  PROVE  Covers(Consolidated)
<1> DEFINE n == Len(parts) - 1
           seq == Tail(parts)
           base == <<Head(parts)>>
           Op(ps, part) == IF part.is_child \/ Last(ps).is_child THEN Append(ps, part) ELSE Extend(ps, part)
           G(f) == [k \in 0..Len(seq) |->
                      IF k = 0 THEN base
                      ELSE CHOOSE r \in {Op(acc, seq[k]) : acc \in {f[k - 1]}} : TRUE]
           h == CHOOSE f : f = G(f)
           S == [k \in 0..n |-> {s \in Seq(Part) : CoversTo(s, parts[k + 1].en)}]
           F == [k \in 1..n |-> [acc \in S[k - 1] |-> Op(acc, parts[k + 1])]]
<1>1. Consolidated = h[Len(seq)]
  BY DEF Consolidated, Fold
<1>2. /\ Chain(parts, 1, tree.n) /\ Rooted(parts) /\ Len(parts) > 0 /\ parts[1].is_child
      /\ \A p \in 1..Len(parts) : parts[p].loc = -1
  BY DEF Covers
<1>3. /\ n \in Nat /\ parts \in Seq(Part) /\ parts # <<>>
      /\ \A p \in 1..(n + 1) : parts[p] \in Part
      /\ n + 1 = Len(parts)
  <2>1. Len(parts) \in Nat
    BY <1>2, ChainFacts
  <2>2. n + 1 = Len(parts) /\ n \in Nat
    BY <1>2, <2>1
  <2> HIDE DEF n
  <2> QED BY <1>2, <2>2, ChainFacts DEF Chain
<1>4. Len(seq) = n /\ \A k \in 1..n : seq[k] = parts[k + 1]
  BY <1>3, HeadTailProperties
<1>5. base = <<parts[1]>>
  OBVIOUS
<1> HIDE DEF n, seq, base
<1>6. base \in S[0]
  <2>1. parts[1] \in Part /\ parts[1].sa = 1 /\ parts[1].sa <= parts[1].en /\ 1 \in 1..Len(parts)
        /\ parts[1].loc = -1 /\ (parts[1].is_child => parts[1].sa = tree.least_desc[parts[1].en])
    <3>1. 1 \in 1..Len(parts)
      BY <1>3
    <3> QED BY <1>2, <1>3, <3>1 DEF Chain, Rooted
  <2>2. Chain(base, 1, parts[1].en) /\ Len(base) = 1 /\ base[1] = parts[1]
    BY <1>5, <2>1, OnePart
  <2>3. \A p \in 1..Len(base) : p = 1
    BY <2>2
  <2>4. CoversTo(base, parts[1].en)
    BY <1>2, <2>1, <2>2, <2>3 DEF CoversTo, Rooted
  <2>5. base \in Seq(Part) /\ 0 \in 0..n /\ 0 + 1 = 1
    BY <1>3, <2>2 DEF Chain
  <2> QED BY <2>4, <2>5
<1>7. ASSUME NEW k \in 1..n, NEW acc \in S[k - 1]
      PROVE  Op(acc, parts[k + 1]) \in S[k]
  <2>1. k - 1 + 1 = k /\ k - 1 \in 0..n /\ k \in 0..n /\ k + 1 \in 2..Len(parts) /\ k + 1 \in 1..Len(parts)
        /\ k + 1 - 1 = k /\ k \in 1..Len(parts)
    BY <1>3
  <2>2. CoversTo(acc, parts[k].en)
    BY <2>1
  <2> DEFINE q == parts[k + 1]
  <2>3. q \in Part /\ q.sa = parts[k].en + 1 /\ q.sa <= q.en /\ q.loc = -1
        /\ (q.is_child => q.sa = tree.least_desc[q.en])
    <3>1. q \in Part /\ q.sa <= q.en /\ q.loc = -1 /\ (q.is_child => q.sa = tree.least_desc[q.en])
      BY <1>2, <1>3, <2>1 DEF Chain, Rooted
    <3>2. parts[k + 1].sa = parts[k + 1 - 1].en + 1
      BY <1>2, <2>1 DEF Chain
    <3> QED BY <2>1, <3>1, <3>2
  <2>4. parts[k].en \in Nat
    BY <1>3, <2>1, PartFacts
  <2> HIDE DEF q
  <2>5. q.sa - 1 = parts[k].en
    BY <2>3, <2>4
  <2>6. CoversTo(TakeIn(acc, q), q.en)
    BY <2>2, <2>3, <2>5, TakeInCovers
  <2>7. TakeIn(acc, q) = Op(acc, q)
    BY DEF TakeIn
  <2>8. Op(acc, q) \in Seq(Part)
    BY <2>6, <2>7 DEF CoversTo, Chain
  <2> HIDE DEF Op
  <2> QED BY <2>1, <2>6, <2>7, <2>8 DEF q
<1>8. Steps(n, S, F)
  <2>1. \A k \in 1..n : F[k] \in [S[k - 1] -> S[k]]
    <3> HIDE DEF Op, S
    <3> QED BY <1>7
  <2> QED BY <2>1 DEF Steps
<1> HIDE DEF S
<1>9. \A k \in 1..n : \A acc \in S[k - 1] : F[k][acc] = Op(acc, parts[k + 1])
  OBVIOUS
<1> HIDE DEF F, Op
<1>10. PICK g : Iterates(g, n, S, base, F)
  BY <1>3, <1>6, <1>8, IterateExists
<1>11. g = G(g)
  <2>1. /\ g = [k \in 0..n |-> g[k]] /\ g[0] = base
        /\ \A k \in 1..n : g[k] = F[k][g[k - 1]] /\ g[k - 1] \in S[k - 1]
    <3>1. \A k \in 1..n : k - 1 \in 0..n
      BY <1>3
    <3> QED BY <1>10, <3>1 DEF Iterates
  <2>2. \A k \in 1..n : g[k] = Op(g[k - 1], seq[k])
    BY <1>4, <1>9, <2>1
  <2>3. \A k \in 0..n : g[k] = IF k = 0 THEN base
                              ELSE CHOOSE r \in {Op(acc, seq[k]) : acc \in {g[k - 1]}} : TRUE
    <3> TAKE k \in 0..n
    <3>1. CASE k = 0
      BY <2>1, <3>1
    <3>2. CASE k # 0
      <4>1. g[k] = Op(g[k - 1], seq[k])
        BY <1>3, <2>2, <3>2
      <4>2. {Op(acc, seq[k]) : acc \in {g[k - 1]}} = {g[k]}
        BY <4>1
      <4> QED BY <3>2, <4>2
    <3> QED BY <3>1, <3>2
  <2> QED BY <1>4, <2>1, <2>3
<1>12. h = G(h)
  BY <1>11
<1> HIDE DEF h
<1>13. h[0] = base /\ \A k \in 1..n : h[k] = Op(h[k - 1], parts[k + 1])
  <2>1. 0 \in 0..Len(seq) /\ h[0] = base
    BY <1>3, <1>4, <1>12
  <2>2. ASSUME NEW k \in 1..n
        PROVE  h[k] = Op(h[k - 1], parts[k + 1])
    <3>1. k \in 0..Len(seq) /\ k # 0 /\ seq[k] = parts[k + 1]
      BY <1>3, <1>4
    <3>2. h[k] = CHOOSE r \in {Op(acc, seq[k]) : acc \in {h[k - 1]}} : TRUE
      BY <1>12, <3>1
    <3>3. {Op(acc, seq[k]) : acc \in {h[k - 1]}} = {Op(h[k - 1], parts[k + 1])}
      BY <3>1
    <3> QED BY <3>2, <3>3
  <2> QED BY <2>1, <2>2
<1>14. \A k \in 1..n : h[k - 1] \in S[k - 1] => h[k] = F[k][h[k - 1]]
  BY <1>9, <1>13
<1>15. \A k \in 0..n : h[k] \in S[k]
  <2>1. h[0] = base /\ n \in Nat
    BY <1>3, <1>13
  <2> QED BY <1>6, <1>8, <1>14, <2>1, FoldSteps
<1>16. n \in 0..n /\ h[n] \in S[n]
  BY <1>3, <1>15
<1>17. CoversTo(h[n], parts[n + 1].en)
  BY <1>16 DEF S
<1>18. parts[n + 1].en = tree.n
  BY <1>2, <1>3 DEF Chain
<1>19. Covers(h[n])
  BY <1>17, <1>18 DEF CoversTo, Covers
<1> QED BY <1>1, <1>4, <1>19

-----------------------------------------------------------------------------
(* exec_alloc: only subtrees are given to a worker.                         *)

LEMMA ModIs ==
  ASSUME NEW W \in Nat \ {0}, NEW a \in 0..(W - 1)
  PROVE  a % W = a /\ (a + W) % W = a
<1>1. a % W = a
  BY Z3
<1>2. (a + W) % W = a
  BY Z3
<1> QED BY <1>1, <1>2

LEMMA ModRange ==
  ASSUME NEW W \in Nat \ {0}, NEW a \in Int
  PROVE  a % W \in 0..(W - 1)
BY Z3

LEMMA WorkersIs ==
  ASSUME TreeShape
  PROVE  /\ workers \in Seq(Nat) /\ Len(workers) \in Nat \ {0}
         /\ \A w \in 1..Len(workers) : workers[w] \in Nat
         /\ \E w \in 1..Len(workers) : workers[w] <= regions
<1> DEFINE R == regions
           seq == Cores
           n == Len(seq)
           base == <<>>
           Op(s, i) == s \o GpusOf(i)
           G(f) == [k \in 0..Len(seq) |->
                      IF k = 0 THEN base
                      ELSE CHOOSE r \in {Op(acc, seq[k]) : acc \in {f[k - 1]}} : TRUE]
           h == CHOOSE f : f = G(f)
           S == [k \in 0..n |-> Seq(Nat)]
           F == [k \in 1..n |-> [acc \in S[k - 1] |-> Op(acc, seq[k])]]
<1>1. tree.gpus \in Seq(Nat) /\ tree.gpus # <<>>
  BY DEF TreeShape
<1>2. R \in Nat /\ R > 0 /\ \A i \in 1..R : tree.gpus[i] \in Nat
  <2>1. Len(tree.gpus) \in Nat /\ Len(tree.gpus) # 0
    BY <1>1, LenProperties, EmptySeq
  <2>2. \A i \in 1..Len(tree.gpus) : tree.gpus[i] \in Nat
    BY <1>1, ElementOfSeq
  <2> QED BY <2>1, <2>2 DEF regions
<1> HIDE DEF R
<1>3. Cores \in Seq(Nat) /\ Len(Cores) = R /\ \A k \in 1..R : Cores[k] = k
  <2>1. Cores = [i \in 1..R |-> i]
    BY DEF Cores, R
  <2>2. Cores \in [1..R -> Nat] /\ DOMAIN Cores = 1..R
    BY <2>1
  <2>3. Cores \in Seq(Nat)
    BY <1>2, <2>2, SeqDef
  <2>4. Len(Cores) = R
    BY <1>2, <2>2, <2>3
  <2> QED BY <2>1, <2>3, <2>4
<1>4. Gpus = h[n]
  BY DEF Gpus, Fold, Cores
<1>5. n \in Nat /\ Len(seq) = n /\ n = R /\ \A k \in 1..n : seq[k] \in 1..R
  BY <1>2, <1>3
<1> HIDE DEF seq, n
<1>6. ASSUME NEW i \in 1..R
      PROVE  GpusOf(i) \in Seq(Nat)
  <2> DEFINE m == tree.gpus[i]
  <2>1. m \in Nat /\ i \in Nat
    BY <1>2
  <2>2. \A p \in 1..m : p * regions + i \in Nat
    BY <1>2, <2>1 DEF R
  <2>3. GpusOf(i) \in [1..m -> Nat]
    BY <2>2 DEF GpusOf
  <2> HIDE DEF m
  <2> QED BY <2>1, <2>3, SeqDef
<1>7. base \in S[0]
  BY <1>5
<1>8. ASSUME NEW k \in 1..n, NEW acc \in S[k - 1]
      PROVE  Op(acc, seq[k]) \in S[k]
  <2>1. k - 1 \in 0..n /\ k \in 0..n
    BY <1>5
  <2>2. acc \in Seq(Nat) /\ GpusOf(seq[k]) \in Seq(Nat)
    BY <1>5, <1>6, <2>1
  <2>3. Op(acc, seq[k]) \in Seq(Nat)
    BY <2>2, ConcatProperties
  <2> HIDE DEF Op
  <2> QED BY <2>1, <2>3
<1>9. Steps(n, S, F)
  <2>1. \A k \in 1..n : F[k] \in [S[k - 1] -> S[k]]
    <3> HIDE DEF Op, S
    <3> QED BY <1>8
  <2> QED BY <2>1 DEF Steps
<1> HIDE DEF S
<1>10. \A k \in 1..n : \A acc \in S[k - 1] : F[k][acc] = Op(acc, seq[k])
  OBVIOUS
<1> HIDE DEF F, Op
<1>11. PICK g : Iterates(g, n, S, base, F)
  BY <1>5, <1>7, <1>9, IterateExists
<1>12. g = G(g)
  <2>1. /\ g = [k \in 0..n |-> g[k]] /\ g[0] = base
        /\ \A k \in 1..n : g[k] = F[k][g[k - 1]] /\ g[k - 1] \in S[k - 1]
    <3>1. \A k \in 1..n : k - 1 \in 0..n
      BY <1>5
    <3> QED BY <1>11, <3>1 DEF Iterates
  <2>2. \A k \in 1..n : g[k] = Op(g[k - 1], seq[k])
    BY <1>10, <2>1
  <2>3. ASSUME NEW k \in 0..n, k # 0
        PROVE  g[k] = CHOOSE r \in {Op(acc, seq[k]) : acc \in {g[k - 1]}} : TRUE
    <3>1. g[k] = Op(g[k - 1], seq[k])
      BY <1>5, <2>2, <2>3
    <3>2. {Op(acc, seq[k]) : acc \in {g[k - 1]}} = {g[k]}
      BY <3>1
    <3> QED BY <3>2
  <2> QED BY <1>5, <2>1, <2>3
<1>13. h = G(h)
  BY <1>12
<1> HIDE DEF h
<1>14. h[0] = base /\ \A k \in 1..n : h[k] = Op(h[k - 1], seq[k])
  <2>1. 0 \in 0..Len(seq) /\ h[0] = base
    BY <1>5, <1>13
  <2>2. ASSUME NEW k \in 1..n
        PROVE  h[k] = Op(h[k - 1], seq[k])
    <3>1. k \in 0..Len(seq) /\ k # 0
      BY <1>5
    <3>2. h[k] = CHOOSE r \in {Op(acc, seq[k]) : acc \in {h[k - 1]}} : TRUE
      BY <1>13, <3>1
    <3>3. {Op(acc, seq[k]) : acc \in {h[k - 1]}} = {Op(h[k - 1], seq[k])}
      OBVIOUS
    <3> QED BY <3>2, <3>3
  <2> QED BY <2>1, <2>2
<1>15. \A k \in 0..n : h[k] \in S[k]
  <2>1. h[0] = base /\ n \in Nat
    BY <1>5, <1>14
  <2>2. \A k \in 1..n : h[k - 1] \in S[k - 1] => h[k] = F[k][h[k - 1]]
    BY <1>10, <1>14
  <2> QED BY <1>7, <1>9, <2>1, <2>2, FoldSteps
<1>17. Gpus \in Seq(Nat)
  <2>1. n \in 0..n /\ h[n] \in S[n]
    BY <1>5, <1>15
  <2> QED BY <1>4, <2>1 DEF S
<1>18. Len(Gpus) \in Nat /\ Len(Cores) \in Nat /\ Len(Cores) > 0 /\ 1 \in 1..Len(Cores) /\ Cores[1] <= R
  BY <1>2, <1>3, <1>17, LenProperties
<1>19. CASE workers = Gpus \o Cores
  <2>1. /\ workers \in Seq(Nat) /\ Len(workers) = Len(Gpus) + Len(Cores)
        /\ \A p \in 1..(Len(Gpus) + Len(Cores)) :
             workers[p] = IF p <= Len(Gpus) THEN Gpus[p] ELSE Cores[p - Len(Gpus)]
    BY <1>3, <1>17, <1>19, ConcatProperties
  <2> DEFINE w == Len(Gpus) + 1
  <2>2. w \in 1..(Len(Gpus) + Len(Cores)) /\ ~ (w <= Len(Gpus)) /\ w - Len(Gpus) = 1
    BY <1>18
  <2>3. workers[w] = Cores[w - Len(Gpus)]
    BY <2>1, <2>2
  <2>4. workers[w] <= R /\ w \in 1..Len(workers)
    BY <1>18, <2>1, <2>2, <2>3
  <2>5. Len(workers) \in Nat \ {0}
    BY <1>18, <2>1
  <2> HIDE DEF w
  <2> QED BY <2>1, <2>4, <2>5, ElementOfSeq DEF R
<1>20. CASE workers = Cores \o Gpus
  <2>1. /\ workers \in Seq(Nat) /\ Len(workers) = Len(Cores) + Len(Gpus)
        /\ \A p \in 1..(Len(Cores) + Len(Gpus)) :
             workers[p] = IF p <= Len(Cores) THEN Cores[p] ELSE Gpus[p - Len(Cores)]
    BY <1>3, <1>17, <1>20, ConcatProperties
  <2>2. 1 \in 1..(Len(Cores) + Len(Gpus)) /\ 1 <= Len(Cores)
    BY <1>18
  <2>3. workers[1] = Cores[1]
    BY <2>1, <2>2
  <2>4. workers[1] <= R /\ 1 \in 1..Len(workers)
    BY <1>18, <2>1, <2>2, <2>3
  <2>5. Len(workers) \in Nat \ {0}
    BY <1>18, <2>1
  <2> QED BY <2>1, <2>4, <2>5, ElementOfSeq DEF R
<1> QED BY <1>19, <1>20 DEF workers

LEMMA NextCoreIs ==
  ASSUME TreeShape, NEW next \in 1..Len(workers)
  PROVE  NextCore(next) \in 1..Len(workers) /\ workers[NextCore(next)] <= regions
<1> DEFINE W == Len(workers)
           at(k) == ((next + k - 1) % W) + 1
           T == {k \in 0..(W - 1) : workers[at(k)] <= regions}
<1>1. W \in Nat \ {0}
  BY WorkersIs
<1>2. PICK w \in 1..W : workers[w] <= regions
  BY WorkersIs
<1>3. NextCore(next) = at(Min(T))
  BY DEF NextCore
<1> HIDE DEF W
<1>4. next \in 1..W /\ next \in Nat
  BY DEF W
<1> DEFINE k == IF w >= next THEN w - next ELSE w - next + W
<1>5. k \in 0..(W - 1) /\ w - 1 \in 0..(W - 1) /\ (next + k - 1 = w - 1 \/ next + k - 1 = w - 1 + W)
  BY <1>1, <1>4
<1>6. (next + k - 1) % W = w - 1
  <2> DEFINE a == w - 1
             x == next + k - 1
  <2>1. a \in 0..(W - 1) /\ (x = a \/ x = a + W)
    BY <1>5
  <2> HIDE DEF a, x
  <2>2. x % W = a
    BY <1>1, <2>1, ModIs
  <2> QED BY <2>2 DEF a, x
<1>7. at(k) = w
  BY <1>1, <1>6
<1>8. k \in T
  <2> HIDE DEF k, at
  <2> QED BY <1>2, <1>5, <1>7
<1>9. T \in SUBSET Nat
  <2>1. 0..(W - 1) \subseteq Nat
    BY <1>1
  <2>2. T \subseteq 0..(W - 1)
    OBVIOUS
  <2> HIDE DEF T
  <2> QED BY <2>1, <2>2
<1>10. Min(T) \in T
  <2> HIDE DEF T, k
  <2> QED BY <1>8, <1>9, MinIs
<1> DEFINE m == Min(T)
<1>11. m \in 0..(W - 1) /\ workers[at(m)] <= regions
  <2> HIDE DEF at
  <2> QED BY <1>10
<1> HIDE DEF m, T
<1>12. at(m) \in 1..W
  <2>1. next + m - 1 \in Int
    BY <1>1, <1>4, <1>11
  <2>2. (next + m - 1) % W \in 0..(W - 1)
    BY <1>1, <2>1, ModRange
  <2> QED BY <1>1, <2>2
<1> QED BY <1>3, <1>11, <1>12 DEF m, W

LEMMA AllocIs ==
  ASSUME TreeShape, NEW ps, NEW n \in Nat, DOMAIN ps = 1..n, NEW order \in Orders(n)
  PROVE  /\ exec_alloc(ps, order) \in [1..n -> Int]
         /\ \A p \in 1..n : exec_alloc(ps, order)[p] # -1 => ps[p].is_child
<1> DEFINE seq == order
           W == Len(workers)
           base == [next |-> 1, loc |-> [p \in DOMAIN ps |-> -1]]
           Op(st, p) == AllocPart(ps, st, p)
           G(f) == [k \in 0..Len(seq) |->
                      IF k = 0 THEN base
                      ELSE CHOOSE r \in {Op(acc, seq[k]) : acc \in {f[k - 1]}} : TRUE]
           h == CHOOSE f : f = G(f)
           St == {st \in [next : 1..W, loc : [1..n -> Int]] :
                    \A p \in 1..n : st.loc[p] # -1 => ps[p].is_child}
           S == [k \in 0..n |-> St]
           F == [k \in 1..n |-> [acc \in S[k - 1] |-> Op(acc, order[k])]]
<1>1. exec_alloc(ps, order) = h[Len(seq)].loc
  BY DEF exec_alloc, Fold
<1>2. Len(seq) = n /\ \A k \in 1..n : seq[k] \in 1..n
  BY OrderFacts
<1>3. W \in Nat /\ W > 0 /\ \A w \in 1..W : workers[w] \in Int
  BY WorkersIs
<1>4. base \in St
  <2>1. -1 \in Int /\ 1 \in 1..W
    BY <1>3
  <2>2. base = [next |-> 1, loc |-> [p \in 1..n |-> -1]]
    OBVIOUS
  <2> HIDE DEF base, W
  <2> QED BY <2>1, <2>2
<1>5. ASSUME NEW acc \in St, NEW p \in 1..n
      PROVE  Op(acc, p) \in St
  <2>1. CASE ~ ps[p].is_child
    <3>1. Op(acc, p) = acc
      BY <2>1 DEF AllocPart
    <3> HIDE DEF Op, St
    <3> QED BY <3>1
  <2>2. CASE ps[p].is_child
    <3> DEFINE w == IF flops(ps[p]) < tree.min_gpu_work THEN NextCore(acc.next) ELSE acc.next
               l == workers[w]
               nx == (w % W) + 1
    <3>1. acc.next \in 1..W /\ acc.loc \in [1..n -> Int]
          /\ \A q \in 1..n : acc.loc[q] # -1 => ps[q].is_child
      OBVIOUS
    <3>2. Op(acc, p) = [next |-> nx, loc |-> [acc.loc EXCEPT ![p] = l]]
      BY <2>2 DEF AllocPart
    <3>3. w \in 1..W
      <4>1. NextCore(acc.next) \in 1..W
        BY <3>1, NextCoreIs
      <4> QED BY <3>1, <4>1
    <3> HIDE DEF w, Op, W
    <3>4. l \in Int
      BY <1>3, <3>3
    <3>5. nx \in 1..W
      <4>1. w % W \in 0..(W - 1)
        <5>1. W \in Nat \ {0} /\ w \in Int
          BY <1>3, <3>3
        <5> QED BY <5>1, ModRange
      <4> QED BY <1>3, <4>1
    <3> HIDE DEF nx, l
    <3> DEFINE z == [acc.loc EXCEPT ![p] = l]
    <3>6. z \in [1..n -> Int] /\ \A q \in 1..n : z[q] # -1 => ps[q].is_child
      BY <2>2, <3>1, <3>4
    <3> HIDE DEF z
    <3>7. Op(acc, p) = [next |-> nx, loc |-> z]
      BY <3>2 DEF z
    <3> QED BY <3>5, <3>6, <3>7
  <2> QED BY <2>1, <2>2
<1> HIDE DEF St, Op, base
<1>6. Steps(n, S, F)
  <2>1. \A k \in 1..n : F[k] \in [S[k - 1] -> S[k]]
    <3> TAKE k \in 1..n
    <3>1. S[k - 1] = St /\ S[k] = St /\ order[k] \in 1..n
      BY <1>2
    <3> QED BY <1>5, <3>1
  <2> QED BY <2>1 DEF Steps
<1>7. base \in S[0]
  BY <1>4
<1> HIDE DEF S
<1>8. \A k \in 1..n : \A acc \in S[k - 1] : F[k][acc] = Op(acc, seq[k])
  OBVIOUS
<1> HIDE DEF F
<1>9. PICK g : Iterates(g, n, S, base, F)
  BY <1>6, <1>7, IterateExists
<1>10. g = G(g)
  <2>1. /\ g = [k \in 0..n |-> g[k]] /\ g[0] = base
        /\ \A k \in 1..n : g[k] = F[k][g[k - 1]] /\ g[k - 1] \in S[k - 1]
    <3>1. \A k \in 1..n : k - 1 \in 0..n
      OBVIOUS
    <3> QED BY <1>9, <3>1 DEF Iterates
  <2>2. \A k \in 1..n : g[k] = Op(g[k - 1], seq[k])
    BY <1>8, <2>1
  <2> HIDE DEF seq
  <2>3. \A k \in 0..n : g[k] = IF k = 0 THEN base
                              ELSE CHOOSE r \in {Op(acc, seq[k]) : acc \in {g[k - 1]}} : TRUE
    <3> TAKE k \in 0..n
    <3>1. CASE k = 0
      BY <2>1, <3>1
    <3>2. CASE k # 0
      <4>1. g[k] = Op(g[k - 1], seq[k])
        BY <2>2, <3>2
      <4>2. {Op(acc, seq[k]) : acc \in {g[k - 1]}} = {g[k]}
        BY <4>1
      <4> QED BY <3>2, <4>2
    <3> QED BY <3>1, <3>2
  <2> QED BY <1>2, <2>1, <2>3
<1>11. h = G(h)
  BY <1>10
<1> HIDE DEF h
<1>12. h[0] = base
  BY <1>2, <1>11
<1>13. \A k \in 1..n : h[k - 1] \in S[k - 1] => h[k] = F[k][h[k - 1]]
  <2> TAKE k \in 1..n
  <2>1. k \in 0..Len(seq) /\ k # 0
    BY <1>2
  <2> HIDE DEF seq
  <2>2. h[k] = CHOOSE r \in {Op(acc, seq[k]) : acc \in {h[k - 1]}} : TRUE
    BY <1>11, <2>1
  <2>3. {Op(acc, seq[k]) : acc \in {h[k - 1]}} = {Op(h[k - 1], seq[k])}
    OBVIOUS
  <2> QED BY <1>8, <2>2, <2>3
<1>14. \A k \in 0..n : h[k] \in S[k]
  BY <1>6, <1>7, <1>12, <1>13, FoldSteps
<1>15. h[n] \in St
  <2>1. n \in 0..n
    OBVIOUS
  <2> QED BY <1>14, <2>1 DEF S
<1> QED BY <1>1, <1>2, <1>15 DEF St

(* After Consolidate: the chosen workers are in the parts.                  *)
Placed(s) ==
  /\ Chain(s, 1, tree.n) /\ Rooted(s)
  /\ Len(s) > 0
  /\ \A p \in 1..Len(s) : s[p].loc # -1 => s[p].is_child

LEMMA PlacedIs ==
  ASSUME TreeShape, NEW ps, Covers(ps), NEW order \in Orders(Len(ps))
  PROVE  Placed([p \in DOMAIN ps |-> [ps[p] EXCEPT !.loc = exec_alloc(ps, order)[p]]])
<1> DEFINE L == Len(ps)
           e == exec_alloc(ps, order)
           s == [p \in DOMAIN ps |-> [ps[p] EXCEPT !.loc = e[p]]]
<1>1. Chain(ps, 1, tree.n) /\ Rooted(ps) /\ L > 0
  BY DEF Covers
<1>2. L \in Nat /\ DOMAIN ps = 1..L /\ (\A p \in 1..L : ps[p] \in Part) /\ ps # <<>>
  BY <1>1, ChainFacts
<1>3. e \in [1..L -> Int] /\ \A p \in 1..L : e[p] # -1 => ps[p].is_child
  BY <1>2, AllocIs
<1> HIDE DEF e, L
<1>4. \A p \in 1..L :
        /\ s[p] \in Part /\ s[p].sa = ps[p].sa /\ s[p].en = ps[p].en
        /\ s[p].is_child = ps[p].is_child /\ s[p].loc = e[p]
  <2> TAKE p \in 1..L
  <2> DEFINE q == ps[p]
             x == e[p]
  <2>1. q \in Part /\ x \in Int
    BY <1>2, <1>3
  <2>2. s[p] = [q EXCEPT !.loc = x]
    BY <1>2
  <2> HIDE DEF q, x, s
  <2>3. s[p] \in Part /\ s[p].sa = q.sa /\ s[p].en = q.en /\ s[p].is_child = q.is_child /\ s[p].loc = x
    BY <2>1, <2>2 DEF Part
  <2> QED BY <2>3 DEF q, x
<1>5. DOMAIN s = 1..L /\ s = [p \in 1..L |-> s[p]]
  BY <1>2
<1> HIDE DEF s
<1>6. s \in Seq(Part) /\ Len(s) = L
  <2>1. s \in [1..L -> Part]
    BY <1>4, <1>5
  <2>2. s \in Seq(Part)
    BY <1>2, <2>1, SeqDef
  <2> QED BY <1>2, <1>5, <2>2
<1>7. s # <<>> /\ Len(s) > 0 /\ 1 \in 1..L /\ L \in 1..L
  <2>1. Len(s) > 0 /\ 1 \in 1..L /\ L \in 1..L
    BY <1>1, <1>2, <1>6
  <2> QED BY <1>6, <2>1, EmptySeq
<1>8. s[1].sa = 1 /\ s[Len(s)].en = tree.n
  BY <1>1, <1>2, <1>4, <1>6, <1>7 DEF Chain, L
<1>9. \A p \in 1..Len(s) : s[p].sa <= s[p].en
  BY <1>1, <1>4, <1>6 DEF Chain, L
<1>10. ASSUME NEW p \in 2..Len(s)
       PROVE  s[p].sa = s[p - 1].en + 1
  <2>1. p \in 1..L /\ p - 1 \in 1..L /\ p \in 2..L
    BY <1>2, <1>6
  <2>2. ps[p].sa = ps[p - 1].en + 1
    BY <1>1, <2>1 DEF Chain, L
  <2> QED BY <1>4, <2>1, <2>2
<1>11. Chain(s, 1, tree.n)
  BY <1>6, <1>7, <1>8, <1>9, <1>10 DEF Chain
<1>12. Rooted(s)
  <2>1. \A p \in 1..L : ps[p].is_child => ps[p].sa = tree.least_desc[ps[p].en]
    BY <1>1 DEF Rooted, L
  <2> QED BY <1>4, <1>6, <2>1 DEF Rooted
<1>13. Placed(s)
  BY <1>3, <1>4, <1>6, <1>7, <1>11, <1>12 DEF Placed
<1> QED BY <1>13 DEF s, e

-----------------------------------------------------------------------------
(* Merge: a part with a worker keeps what is below its nodes, and all its   *)
(* nodes but the last have their parents in it.                             *)

Apart(q) ==
  \A i \in q.sa..q.en :
    /\ q.sa <= tree.least_desc[i]
    /\ i # q.en => parent(i) <= q.en \/ parent(i) = VRoot

LEMMA RootedApart ==
  ASSUME TreeShape, NEW q \in Part, q.sa = tree.least_desc[q.en]
  PROVE  Apart(q)
<1>1. q.en \in Node /\ q.en \in 1..VRoot
  BY PartFacts, NodeFacts
<1>2. ASSUME NEW i \in q.sa..q.en
      PROVE  /\ q.sa <= tree.least_desc[i]
             /\ i # q.en => parent(i) <= q.en \/ parent(i) = VRoot
  <2>1. i \in Below(q.en)
    BY <1>2 DEF Below
  <2>2. q.sa <= tree.least_desc[i]
    BY <1>1, <2>1, BelowNested
  <2>3. i # q.en => parent(i) <= q.en
    BY <1>1, <2>1, BelowIs
  <2> QED BY <2>2, <2>3
<1> QED BY <1>2 DEF Apart

LEMMA JoinApart ==
  ASSUME TreeShape, NEW l \in Part, NEW q \in Part, NEW z, l.sa <= l.en, q.sa <= q.en,
         q.sa = l.en + 1, Apart(l), q.sa = tree.least_desc[q.en],
         ~ (HasParent(l) /\ HasParent(q)), z.sa = l.sa, z.en = q.en
  PROVE  Apart(z)
<1>1. /\ l.sa \in Nat /\ l.en \in Nat /\ q.sa \in Nat /\ q.en \in Nat
      /\ l.en \in Node /\ q.en \in Node /\ 1 <= l.sa /\ 1 <= l.en /\ l.en <= tree.n
  <2>1. /\ l.sa \in Nat /\ l.en \in Nat /\ q.sa \in Nat /\ q.en \in Nat
        /\ l.sa \in Node /\ l.en \in Node /\ q.en \in Node
    BY PartFacts
  <2> QED BY <2>1 DEF Node
<1>2. /\ tree.n \in Nat /\ VRoot = tree.n + 1
      /\ \A i \in Node : i \in 1..VRoot /\ parent(i) \in 1..VRoot
      /\ \A i, j \in Node : i <= j /\ j < parent(i) => parent(j) <= parent(i)
  BY NodeFacts
<1>3. Apart(q)
  BY RootedApart
<1>4. parent(l.en) = VRoot
  <2>1. parent(l.en) \in 1..VRoot /\ parent(q.en) \in 1..VRoot
    BY <1>1, <1>2
  <2>2. CASE ~ HasParent(l)
    BY <1>2, <2>1, <2>2 DEF HasParent
  <2>3. CASE ~ HasParent(q)
    <3>1. parent(q.en) = VRoot
      BY <1>2, <2>1, <2>3 DEF HasParent
    <3>2. parent(l.en) > q.en
      <4>1. Interval(tree.parent, tree.least_desc, q.en)
        BY <1>1, <1>2 DEF TreeShape
      <4>2. tree.least_desc[q.en] # 1 /\ tree.least_desc[q.en] - 1 = l.en
        BY <1>1
      <4> QED BY <4>1, <4>2 DEF Interval, parent
    <3>3. parent(q.en) <= parent(l.en)
      BY <1>1, <1>2, <2>1, <3>2
    <3> QED BY <1>2, <2>1, <3>1, <3>3
  <2> QED BY <2>2, <2>3
<1>5. ASSUME NEW i \in z.sa..z.en
      PROVE  /\ z.sa <= tree.least_desc[i]
             /\ i # z.en => parent(i) <= z.en \/ parent(i) = VRoot
  <2>1. i \in l.sa..l.en \/ i \in q.sa..q.en
    BY <1>1
  <2>2. CASE i \in l.sa..l.en
    <3>1. z.sa <= tree.least_desc[i]
      BY <2>2 DEF Apart
    <3>2. CASE i = l.en
      BY <1>4, <3>1, <3>2
    <3>3. CASE i # l.en
      <4>1. parent(i) <= l.en \/ parent(i) = VRoot
        BY <2>2, <3>3 DEF Apart
      <4>2. i \in Node
        BY <1>1, <1>2, <2>2 DEF Node
      <4>3. parent(i) \in 1..VRoot
        BY <1>2, <4>2
      <4>4. parent(i) <= z.en \/ parent(i) = VRoot
        BY <1>1, <1>2, <4>1, <4>3
      <4> QED BY <3>1, <4>4
    <3> QED BY <3>2, <3>3
  <2>3. CASE i \in q.sa..q.en
    <3>1. q.sa <= tree.least_desc[i] /\ (i # q.en => parent(i) <= q.en \/ parent(i) = VRoot)
      BY <1>3, <2>3 DEF Apart
    <3>2. i \in 1..VRoot
      BY <1>1, <1>2, <2>3 DEF Node
    <3>3. tree.least_desc[i] \in Nat
      BY <3>2, BelowIs
    <3>4. z.sa <= tree.least_desc[i]
      BY <1>1, <3>1, <3>3
    <3> QED BY <3>1, <3>4
  <2> QED BY <2>1, <2>2, <2>3
<1> QED BY <1>5 DEF Apart

MergedTo(s, e) ==
  /\ Chain(s, 1, e) /\ Len(s) > 0
  /\ \A p \in 1..Len(s) : s[p].loc # -1 => Apart(s[p])

Merging == {m \in [ps : Seq(Part), has_parent : BOOLEAN] :
              /\ Len(m.ps) > 0
              /\ HasParent(Last(m.ps)) => m.has_parent}

LEMMA MergePartIs ==
  ASSUME TreeShape, NEW m \in Merging, NEW q \in Part, MergedTo(m.ps, q.sa - 1), q.sa <= q.en,
         q.loc # -1 => q.sa = tree.least_desc[q.en]
  PROVE  MergePart(m, q) \in Merging /\ MergedTo(MergePart(m, q).ps, q.en)
<1> DEFINE s == m.ps
           L == Len(s)
           l == s[L]
           r == MergePart(m, q)
           a == Append(s, q)
           x == Extend(s, q)
<1>1. /\ s \in Seq(Part) /\ m.has_parent \in BOOLEAN
      /\ L > 0 /\ (HasParent(l) => m.has_parent)
  BY DEF Merging, Last
<1>2. Chain(s, 1, q.sa - 1) /\ \A p \in 1..L : s[p].loc # -1 => Apart(s[p])
  BY DEF MergedTo
<1>3. L \in Nat /\ L \in 1..L /\ l \in Part /\ s # <<>>
  BY <1>1, <1>2, ChainFacts
<1>4. l.sa <= l.en /\ l.en = q.sa - 1
  BY <1>2, <1>3 DEF Chain
<1>5. q.sa \in Nat /\ q.en \in Nat /\ l.sa \in Nat /\ l.en \in Nat
  BY <1>3, PartFacts
<1>6. HasParent(q) \in BOOLEAN
  BY DEF HasParent
<1>7. CASE q.loc # l.loc \/ (m.has_parent /\ HasParent(q))
  <2>1. r = [ps |-> a, has_parent |-> HasParent(q)]
    BY <1>7 DEF MergePart, Last
  <2>2. 1 \in Int /\ Chain(s, 1, q.sa - 1) /\ q \in Part /\ q.sa <= q.en
    BY <1>2
  <2>3. /\ Chain(a, 1, q.en) /\ Len(a) = L + 1
        /\ \A p \in 1..L : a[p] = s[p]
        /\ a[L + 1] = q
    BY <2>2, AppendTile
  <2> HIDE DEF a, L, r
  <2>4. \A p \in 1..Len(a) : p \in 1..L \/ p = L + 1
    BY <1>3, <2>3
  <2>5. \A p \in 1..Len(a) : a[p].loc # -1 => Apart(a[p])
    BY <1>2, <2>3, <2>4, RootedApart
  <2>6. Len(a) > 0 /\ Last(a) = q /\ a \in Seq(Part)
    BY <1>3, <2>3 DEF Last, Chain
  <2>7. MergedTo(a, q.en)
    BY <2>3, <2>5, <2>6 DEF MergedTo
  <2>8. r \in Merging
    BY <1>6, <2>1, <2>6 DEF Merging
  <2> QED BY <2>1, <2>7, <2>8 DEF r
<1>8. CASE ~ (q.loc # l.loc \/ (m.has_parent /\ HasParent(q)))
  <2>1. r = [ps |-> x, has_parent |-> m.has_parent \/ HasParent(q)]
    BY <1>8 DEF MergePart, Last
  <2>2. 1 \in Int /\ Chain(s, 1, q.sa - 1) /\ q \in Part /\ q.sa <= q.en /\ Len(s) > 0
    BY <1>1, <1>2
  <2>3. Chain(x, 1, q.en) /\ Extends(x, s, q)
    BY <2>2, ExtendTile
  <2> HIDE DEF x, r
  <2>4. /\ Len(x) = L /\ \A p \in 1..(L - 1) : x[p] = s[p]
        /\ x[L].sa = l.sa /\ x[L].en = q.en /\ x[L].loc = l.loc
    BY <2>3 DEF Extends
  <2> HIDE DEF L
  <2>5. \A p \in 1..Len(x) : p = L \/ (p \in 1..(L - 1) /\ p \in 1..L)
    BY <1>3, <2>4
  <2>6. x[L].loc # -1 => Apart(x[L])
    <3> HAVE x[L].loc # -1
    <3>1. l.loc # -1 /\ q.loc # -1
      BY <1>8, <2>4
    <3>2. Apart(l) /\ q.sa = tree.least_desc[q.en]
      BY <1>2, <1>3, <3>1
    <3>3. ~ (HasParent(l) /\ HasParent(q))
      BY <1>1, <1>8
    <3>4. q.sa = l.en + 1
      BY <1>4, <1>5
    <3> DEFINE z == x[L]
    <3>5. z.sa = l.sa /\ z.en = q.en
      BY <2>4
    <3> HIDE DEF z, l
    <3>6. Apart(z)
      BY <1>3, <1>4, <3>2, <3>3, <3>4, <3>5, JoinApart
    <3> QED BY <3>6 DEF z
  <2>7. \A p \in 1..Len(x) : x[p].loc # -1 => Apart(x[p])
    BY <1>2, <2>4, <2>5, <2>6
  <2>8. Len(x) > 0 /\ x \in Seq(Part) /\ Last(x).en = q.en
    BY <1>1, <1>3, <2>3, <2>4 DEF Last, Chain, L
  <2>9. MergedTo(x, q.en)
    BY <2>3, <2>7, <2>8 DEF MergedTo
  <2>10. HasParent(Last(x)) <=> HasParent(q)
    BY <2>8 DEF HasParent
  <2>11. r.ps = x /\ r.has_parent = (m.has_parent \/ HasParent(q)) /\ r.has_parent \in BOOLEAN
         /\ r \in [ps : Seq(Part), has_parent : BOOLEAN]
    <3> DEFINE hp == m.has_parent \/ HasParent(q)
    <3>1. hp \in BOOLEAN
      OBVIOUS
    <3> HIDE DEF hp
    <3>2. r = [ps |-> x, has_parent |-> hp]
      BY <2>1 DEF hp
    <3>3. r.ps = x /\ r.has_parent = hp /\ r \in [ps : Seq(Part), has_parent : BOOLEAN]
      BY <2>8, <3>1, <3>2
    <3> QED BY <3>1, <3>3 DEF hp
  <2>12. HasParent(Last(r.ps)) => r.has_parent
    <3>1. r.ps = x /\ (HasParent(q) => r.has_parent)
      BY <2>11
    <3> QED BY <2>10, <3>1
  <2>13. r \in Merging
    BY <2>8, <2>11, <2>12 DEF Merging
  <2> QED BY <2>9, <2>11, <2>13 DEF r
<1> QED BY <1>7, <1>8

LEMMA MergeIs ==
  ASSUME TreeShape, Placed(parts),
         NEW end, end = Fold(MergePart, [ps |-> <<Head(parts)>>, has_parent |-> HasParent(Head(parts))],
                             Tail(parts)).ps
  PROVE  MergedTo(end, tree.n)
<1> DEFINE n == Len(parts) - 1
           seq == Tail(parts)
           base == [ps |-> <<Head(parts)>>, has_parent |-> HasParent(Head(parts))]
           Op(m, part) == MergePart(m, part)
           G(f) == [k \in 0..Len(seq) |->
                      IF k = 0 THEN base
                      ELSE CHOOSE r \in {Op(acc, seq[k]) : acc \in {f[k - 1]}} : TRUE]
           h == CHOOSE f : f = G(f)
           S == [k \in 0..n |-> {m \in Merging : MergedTo(m.ps, parts[k + 1].en)}]
           F == [k \in 1..n |-> [acc \in S[k - 1] |-> Op(acc, parts[k + 1])]]
<1>1. end = h[Len(seq)].ps
  BY DEF Fold
<1>2. /\ Chain(parts, 1, tree.n) /\ Rooted(parts) /\ Len(parts) > 0
      /\ \A p \in 1..Len(parts) : parts[p].loc # -1 => parts[p].is_child
  BY DEF Placed
<1>3. /\ n \in Nat /\ parts \in Seq(Part) /\ parts # <<>>
      /\ \A p \in 1..(n + 1) : parts[p] \in Part
      /\ n + 1 = Len(parts)
  <2>1. Len(parts) \in Nat
    BY <1>2, ChainFacts
  <2>2. n + 1 = Len(parts) /\ n \in Nat
    BY <1>2, <2>1
  <2> HIDE DEF n
  <2> QED BY <1>2, <2>2, ChainFacts DEF Chain
<1>4. Len(seq) = n /\ \A k \in 1..n : seq[k] = parts[k + 1]
  BY <1>3, HeadTailProperties
<1>5. base = [ps |-> <<parts[1]>>, has_parent |-> HasParent(parts[1])]
  OBVIOUS
<1> HIDE DEF n, seq, base
<1>6. base \in S[0]
  <2> DEFINE q == parts[1]
             one == <<q>>
             hp == HasParent(q)
  <2>1. q \in Part /\ q.sa = 1 /\ q.sa <= q.en /\ 1 \in 1..Len(parts)
        /\ (q.loc # -1 => q.sa = tree.least_desc[q.en])
    <3>1. 1 \in 1..Len(parts)
      BY <1>3
    <3> QED BY <1>2, <1>3, <3>1 DEF Chain, Rooted
  <2> HIDE DEF q
  <2>2. Chain(one, 1, q.en) /\ Len(one) = 1 /\ one[1] = q
    BY <2>1, OnePart
  <2>3. base.ps = one /\ base.has_parent = hp /\ hp \in BOOLEAN /\ base = [ps |-> one, has_parent |-> hp]
    BY <1>5 DEF q, HasParent
  <2> HIDE DEF one
  <2>4. \A p \in 1..Len(one) : p = 1
    BY <2>2
  <2>5. MergedTo(one, q.en)
    BY <2>1, <2>2, <2>4, RootedApart DEF MergedTo
  <2>6. one \in Seq(Part) /\ 0 \in 0..n /\ 0 + 1 = 1 /\ Last(one) = q
    BY <1>3, <2>2 DEF Chain, Last
  <2>7. base \in Merging
    <3>1. HasParent(Last(base.ps)) => base.has_parent
      BY <2>3, <2>6
    <3>2. base \in [ps : Seq(Part), has_parent : BOOLEAN]
      <4> HIDE DEF hp
      <4> QED BY <2>3, <2>6
    <3>3. Len(base.ps) > 0
      BY <2>2, <2>3
    <3> QED BY <3>1, <3>2, <3>3 DEF Merging
  <2>8. MergedTo(base.ps, parts[0 + 1].en)
    BY <2>3, <2>5, <2>6 DEF q
  <2> QED BY <2>6, <2>7, <2>8
<1>7. ASSUME NEW k \in 1..n, NEW acc \in S[k - 1]
      PROVE  Op(acc, parts[k + 1]) \in S[k]
  <2>1. k - 1 + 1 = k /\ k - 1 \in 0..n /\ k \in 0..n /\ k + 1 \in 2..Len(parts) /\ k + 1 \in 1..Len(parts)
        /\ k + 1 - 1 = k /\ k \in 1..Len(parts)
    BY <1>3
  <2>2. acc \in Merging /\ MergedTo(acc.ps, parts[k].en)
    BY <2>1
  <2> DEFINE q == parts[k + 1]
  <2>3. q \in Part /\ q.sa = parts[k].en + 1 /\ q.sa <= q.en
        /\ (q.loc # -1 => q.sa = tree.least_desc[q.en])
    <3>1. q \in Part /\ q.sa <= q.en /\ (q.loc # -1 => q.sa = tree.least_desc[q.en])
      BY <1>2, <1>3, <2>1 DEF Chain, Rooted
    <3>2. parts[k + 1].sa = parts[k + 1 - 1].en + 1
      BY <1>2, <2>1 DEF Chain
    <3> QED BY <2>1, <3>1, <3>2
  <2>4. parts[k].en \in Nat
    BY <1>3, <2>1, PartFacts
  <2> HIDE DEF q
  <2>5. q.sa - 1 = parts[k].en
    BY <2>3, <2>4
  <2>6. Op(acc, q) \in Merging /\ MergedTo(Op(acc, q).ps, q.en)
    BY <2>2, <2>3, <2>5, MergePartIs
  <2> HIDE DEF Op
  <2> QED BY <2>1, <2>6 DEF q
<1>8. Steps(n, S, F)
  <2>1. \A k \in 1..n : F[k] \in [S[k - 1] -> S[k]]
    <3> HIDE DEF Op, S
    <3> QED BY <1>7
  <2> QED BY <2>1 DEF Steps
<1> HIDE DEF S
<1>9. \A k \in 1..n : \A acc \in S[k - 1] : F[k][acc] = Op(acc, parts[k + 1])
  OBVIOUS
<1> HIDE DEF F, Op
<1>10. PICK g : Iterates(g, n, S, base, F)
  BY <1>3, <1>6, <1>8, IterateExists
<1>11. g = G(g)
  <2>1. /\ g = [k \in 0..n |-> g[k]] /\ g[0] = base
        /\ \A k \in 1..n : g[k] = F[k][g[k - 1]] /\ g[k - 1] \in S[k - 1]
    <3>1. \A k \in 1..n : k - 1 \in 0..n
      BY <1>3
    <3> QED BY <1>10, <3>1 DEF Iterates
  <2>2. \A k \in 1..n : g[k] = Op(g[k - 1], seq[k])
    BY <1>4, <1>9, <2>1
  <2>3. \A k \in 0..n : g[k] = IF k = 0 THEN base
                              ELSE CHOOSE r \in {Op(acc, seq[k]) : acc \in {g[k - 1]}} : TRUE
    <3> TAKE k \in 0..n
    <3>1. CASE k = 0
      BY <2>1, <3>1
    <3>2. CASE k # 0
      <4>1. g[k] = Op(g[k - 1], seq[k])
        BY <1>3, <2>2, <3>2
      <4>2. {Op(acc, seq[k]) : acc \in {g[k - 1]}} = {g[k]}
        BY <4>1
      <4> QED BY <3>2, <4>2
    <3> QED BY <3>1, <3>2
  <2> QED BY <1>4, <2>1, <2>3
<1>12. h = G(h)
  BY <1>11
<1> HIDE DEF h
<1>13. h[0] = base /\ \A k \in 1..n : h[k] = Op(h[k - 1], parts[k + 1])
  <2>1. 0 \in 0..Len(seq) /\ h[0] = base
    BY <1>3, <1>4, <1>12
  <2>2. ASSUME NEW k \in 1..n
        PROVE  h[k] = Op(h[k - 1], parts[k + 1])
    <3>1. k \in 0..Len(seq) /\ k # 0 /\ seq[k] = parts[k + 1]
      BY <1>3, <1>4
    <3>2. h[k] = CHOOSE r \in {Op(acc, seq[k]) : acc \in {h[k - 1]}} : TRUE
      BY <1>12, <3>1
    <3>3. {Op(acc, seq[k]) : acc \in {h[k - 1]}} = {Op(h[k - 1], parts[k + 1])}
      BY <3>1
    <3> QED BY <3>2, <3>3
  <2> QED BY <2>1, <2>2
<1>14. \A k \in 1..n : h[k - 1] \in S[k - 1] => h[k] = F[k][h[k - 1]]
  BY <1>9, <1>13
<1>15. \A k \in 0..n : h[k] \in S[k]
  <2>1. h[0] = base /\ n \in Nat
    BY <1>3, <1>13
  <2> QED BY <1>6, <1>8, <1>14, <2>1, FoldSteps
<1>16. n \in 0..n /\ h[n] \in S[n]
  BY <1>3, <1>15
<1>17. MergedTo(h[n].ps, parts[n + 1].en)
  BY <1>16 DEF S
<1>18. parts[n + 1].en = tree.n
  BY <1>2, <1>3 DEF Chain
<1> QED BY <1>1, <1>4, <1>17, <1>18

-----------------------------------------------------------------------------
(* What the analysis hands over: the ranges of the subtrees, and the marks. *)

RangesOK ==
  \A s \in DOMAIN subtrees :
    /\ subtrees[s].sa \in Node /\ subtrees[s].en \in Node
    /\ subtrees[s].sa <= subtrees[s].en
    /\ Apart(subtrees[s])

MarksOK ==
  /\ small \in [Node -> Int]
  /\ \A s \in DOMAIN subtrees : \A i \in InSubtree(s) :
       small[i] = IF i = subtrees[s].en THEN 1 ELSE -subtrees[s].en
  /\ \A i \in Node : (\A s \in DOMAIN subtrees : i \notin InSubtree(s)) => small[i] = 0

RangesApart ==
  \A s, t \in DOMAIN subtrees : s # t => InSubtree(s) \cap InSubtree(t) = {}

LEMMA ChainOrder ==
  ASSUME TreeShape, NEW s, NEW a, NEW b, Chain(s, a, b), NEW p \in 1..Len(s)
  PROVE  \A q \in 1..Len(s) : p < q => s[p].en < s[q].sa
<1> DEFINE L == Len(s)
           Bad == {q \in 1..L : p < q /\ ~ (s[p].en < s[q].sa)}
<1>1. L \in Nat /\ \A k \in 1..L : s[k] \in Part
  BY ChainFacts
<1>2. \A k \in 1..L : s[k].sa \in Nat /\ s[k].en \in Nat /\ s[k].sa <= s[k].en
  BY <1>1, PartFacts DEF Chain
<1>3. Bad = {}
  <2> SUFFICES ASSUME Bad # {} PROVE FALSE
    OBVIOUS
  <2>1. Bad \in SUBSET Nat
    BY <1>1
  <2>2. PICK q \in Bad : \A y \in Bad : q <= y
    BY <2>1, Smallest
  <2>3. q \in 1..L /\ p < q /\ ~ (s[p].en < s[q].sa) /\ p \in 1..L
    BY <2>2
  <2>4. q \in 2..L /\ q - 1 \in 1..L /\ ~ (q <= q - 1) /\ (p < q - 1 \/ p = q - 1)
    BY <1>1, <2>3
  <2>5. s[q].sa = s[q - 1].en + 1
    BY <2>4 DEF Chain, L
  <2>6. CASE p = q - 1
    <3>1. s[q].sa = s[p].en + 1
      BY <2>5, <2>6
    <3> QED BY <1>2, <2>3, <3>1
  <2>7. CASE p < q - 1
    <3>1. s[p].en < s[q - 1].sa
      BY <2>2, <2>4, <2>7
    <3> DEFINE r == q - 1
    <3>2. r \in 1..L /\ s[p].en < s[r].sa /\ s[q].sa = s[r].en + 1
      BY <2>4, <2>5, <3>1
    <3> HIDE DEF r
    <3> QED BY <1>2, <2>3, <3>2
  <2> QED BY <2>4, <2>6, <2>7
<1> QED BY <1>3 DEF L

LEMMA FlagIs ==
  ASSUME TreeShape, NEW m \in [Node -> Int], NEW a \in Node, NEW b \in Node
  PROVE  /\ Flag(m, a, b) \in [Node -> Int]
         /\ \A i \in a..b : Flag(m, a, b)[i] = IF i = b THEN 1 ELSE -b
         /\ \A i \in Node : i \notin a..b => Flag(m, a, b)[i] = m[i] \/ i = b
<1>1. a \in Nat /\ b \in Nat /\ tree.n \in Nat
  BY NodeFacts
<1>2. DOMAIN m = Node
  OBVIOUS
<1>3. \A i \in a..b : i \in Node
  BY <1>1 DEF Node
<1>4. -b \in Int /\ 1 \in Int
  BY <1>1
<1>5. Flag(m, a, b) = [i \in Node |-> IF i \in a..(b - 1) THEN -b ELSE IF i = b THEN 1 ELSE m[i]]
  BY <1>2 DEF Flag
<1>6. \A i \in a..b : i # b => i \in a..(b - 1)
  BY <1>1
<1>7. \A i \in a..(b - 1) : i \in a..b /\ i # b
  BY <1>1
<1> DEFINE f == Flag(m, a, b)
<1> HIDE DEF f
<1>8. f = [i \in Node |-> IF i \in a..(b - 1) THEN -b ELSE IF i = b THEN 1 ELSE m[i]]
  BY <1>5 DEF f
<1>9. f \in [Node -> Int]
  BY <1>4, <1>8
<1>10. \A i \in a..b : f[i] = IF i = b THEN 1 ELSE -b
  BY <1>3, <1>6, <1>7, <1>8
<1>11. \A i \in Node : i \notin a..b => f[i] = m[i] \/ i = b
  BY <1>7, <1>8
<1> QED BY <1>9, <1>10, <1>11 DEF f

(* Marks set one after the other on ranges that are apart.                  *)
MarkedTo(m, c, k) ==
  /\ m \in [Node -> Int]
  /\ \A l \in 1..k : \A i \in c[l].sa..c[l].en : m[i] = IF i = c[l].en THEN 1 ELSE -c[l].en
  /\ \A i \in Node : (\A l \in 1..k : i \notin c[l].sa..c[l].en) => m[i] = 0

Flagged(c) == Fold(LAMBDA marks, part : Flag(marks, part.sa, part.en), small, c)

LEMMA FlagsIs ==
  ASSUME TreeShape, NEW c \in Seq(Part), small = [i \in Node |-> 0],
         \A l \in 1..Len(c) : c[l].sa <= c[l].en,
         \A k, l \in 1..Len(c) : k < l => c[k].en < c[l].sa
  PROVE  MarkedTo(Flagged(c), c, Len(c))
<1> DEFINE n == Len(c)
           Op(m, part) == Flag(m, part.sa, part.en)
           G(f) == [k \in 0..Len(c) |->
                      IF k = 0 THEN small
                      ELSE CHOOSE r \in {Op(acc, c[k]) : acc \in {f[k - 1]}} : TRUE]
           h == CHOOSE f : f = G(f)
           S == [k \in 0..n |-> {m \in [Node -> Int] : MarkedTo(m, c, k)}]
           F == [k \in 1..n |-> [acc \in S[k - 1] |-> Op(acc, c[k])]]
<1>1. Flagged(c) = h[n]
  BY DEF Flagged, Fold
<1>2. n \in Nat /\ \A k \in 1..n : c[k] \in Part
  BY LenProperties, ElementOfSeq
<1>3. /\ \A l \in 1..n : c[l].sa <= c[l].en
      /\ \A k, l \in 1..n : k < l => c[k].en < c[l].sa
  OBVIOUS
<1> HIDE DEF n
<1>4. \A l \in 1..n : c[l].sa \in Node /\ c[l].en \in Node /\ c[l].sa \in Nat /\ c[l].en \in Nat
  BY <1>2, PartFacts
<1>5. small \in S[0]
  <2>1. small \in [Node -> Int]
    OBVIOUS
  <2>2. \A l \in 1..0 : FALSE
    OBVIOUS
  <2>3. MarkedTo(small, c, 0)
    BY <2>1, <2>2 DEF MarkedTo
  <2>4. 0 \in 0..n
    BY <1>2
  <2> QED BY <2>1, <2>3, <2>4
<1>6. ASSUME NEW k \in 1..n, NEW m \in S[k - 1]
      PROVE  Op(m, c[k]) \in S[k]
  <2>1. k - 1 \in 0..n /\ k \in 0..n
    BY <1>2
  <2>2. m \in [Node -> Int] /\ MarkedTo(m, c, k - 1)
    BY <2>1
  <2> DEFINE a == c[k].sa
             b == c[k].en
             r == Flag(m, a, b)
  <2>3. a \in Node /\ b \in Node /\ a \in Nat /\ b \in Nat /\ a <= b
    BY <1>3, <1>4
  <2>4. /\ r \in [Node -> Int]
        /\ \A i \in a..b : r[i] = IF i = b THEN 1 ELSE -b
        /\ \A i \in Node : i \notin a..b => r[i] = m[i]
    <3> HIDE DEF a, b
    <3>1. /\ r \in [Node -> Int]
          /\ \A i \in a..b : r[i] = IF i = b THEN 1 ELSE -b
          /\ \A i \in Node : i \notin a..b => r[i] = m[i] \/ i = b
      BY <2>2, <2>3, FlagIs
    <3>2. b \in a..b
      BY <2>3
    <3> HIDE DEF r
    <3> QED BY <3>1, <3>2
  <2> HIDE DEF r
  <2>5. ASSUME NEW l \in 1..k, NEW i \in c[l].sa..c[l].en
        PROVE  r[i] = IF i = c[l].en THEN 1 ELSE -c[l].en
    <3>1. CASE l = k
      BY <2>4, <3>1
    <3>2. CASE l # k
      <4>1. l \in 1..(k - 1) /\ l \in 1..n /\ l < k
        BY <1>2, <3>2
      <4>2. c[l].en < a
        BY <1>3, <4>1
      <4>3. i \notin a..b /\ i \in Node
        <5>1. c[l].sa \in Node /\ c[l].en \in Node /\ c[l].sa \in Nat /\ c[l].en \in Nat /\ tree.n \in Nat
          BY <1>4, <4>1, NodeFacts
        <5> HIDE DEF a, b
        <5>2. i \in Nat /\ c[l].sa <= i /\ i <= c[l].en
          BY <5>1
        <5>3. i < a
          BY <2>3, <4>2, <5>1, <5>2
        <5>4. i \in Nat /\ c[l].sa <= i /\ i <= c[l].en /\ i < a
          BY <5>2, <5>3
        <5>5. i \notin a..b
          BY <2>3, <5>4
        <5>6. 1 <= c[l].sa /\ c[l].en <= tree.n
          BY <5>1 DEF Node
        <5> QED BY <5>1, <5>4, <5>5, <5>6 DEF Node
      <4>4. m[i] = IF i = c[l].en THEN 1 ELSE -c[l].en
        BY <2>2, <4>1 DEF MarkedTo
      <4> QED BY <2>4, <4>3, <4>4
    <3> QED BY <3>1, <3>2
  <2>6. ASSUME NEW i \in Node, \A l \in 1..k : i \notin c[l].sa..c[l].en
        PROVE  r[i] = 0
    <3>1. \A l \in 1..(k - 1) : l \in 1..k
      BY <1>2
    <3>2. m[i] = 0
      BY <2>2, <2>6, <3>1 DEF MarkedTo
    <3>3. k \in 1..k
      BY <1>2
    <3>4. i \notin a..b
      BY <2>6, <3>3
    <3> QED BY <2>4, <3>2, <3>4
  <2>7. MarkedTo(r, c, k)
    BY <2>4, <2>5, <2>6 DEF MarkedTo
  <2> QED BY <2>1, <2>4, <2>7 DEF r
<1>7. Steps(n, S, F)
  <2>1. \A k \in 1..n : F[k] \in [S[k - 1] -> S[k]]
    <3> HIDE DEF Op, S
    <3> QED BY <1>6
  <2> QED BY <2>1 DEF Steps
<1> HIDE DEF S
<1>8. \A k \in 1..n : \A acc \in S[k - 1] : F[k][acc] = Op(acc, c[k])
  OBVIOUS
<1> HIDE DEF F, Op
<1>9. PICK g : Iterates(g, n, S, small, F)
  BY <1>2, <1>5, <1>7, IterateExists
<1>10. g = G(g)
  <2>1. /\ g = [k \in 0..n |-> g[k]] /\ g[0] = small
        /\ \A k \in 1..n : g[k] = F[k][g[k - 1]] /\ g[k - 1] \in S[k - 1]
    <3>1. \A k \in 1..n : k - 1 \in 0..n
      BY <1>2
    <3> QED BY <1>9, <3>1 DEF Iterates
  <2>2. \A k \in 1..n : g[k] = Op(g[k - 1], c[k])
    BY <1>8, <2>1
  <2>3. \A k \in 0..n : g[k] = IF k = 0 THEN small
                              ELSE CHOOSE r \in {Op(acc, c[k]) : acc \in {g[k - 1]}} : TRUE
    <3> TAKE k \in 0..n
    <3>1. CASE k = 0
      BY <2>1, <3>1
    <3>2. CASE k # 0
      <4>1. g[k] = Op(g[k - 1], c[k])
        BY <1>2, <2>2, <3>2
      <4>2. {Op(acc, c[k]) : acc \in {g[k - 1]}} = {g[k]}
        BY <4>1
      <4> QED BY <3>2, <4>2
    <3> QED BY <3>1, <3>2
  <2> QED BY <2>1, <2>3 DEF n
<1>11. h = G(h)
  BY <1>10
<1> HIDE DEF h
<1>12. h[0] = small
  <2>1. 0 \in 0..Len(c)
    BY <1>2 DEF n
  <2> QED BY <1>11, <2>1
<1>13. \A k \in 1..n : h[k - 1] \in S[k - 1] => h[k] = F[k][h[k - 1]]
  <2> TAKE k \in 1..n
  <2>1. k \in 0..Len(c) /\ k # 0
    BY <1>2 DEF n
  <2>2. h[k] = CHOOSE r \in {Op(acc, c[k]) : acc \in {h[k - 1]}} : TRUE
    BY <1>11, <2>1
  <2>3. {Op(acc, c[k]) : acc \in {h[k - 1]}} = {Op(h[k - 1], c[k])}
    OBVIOUS
  <2> QED BY <1>8, <2>2, <2>3
<1>14. \A k \in 0..n : h[k] \in S[k]
  BY <1>2, <1>5, <1>7, <1>12, <1>13, FoldSteps
<1>15. n \in 0..n /\ h[n] \in S[n]
  BY <1>2, <1>14
<1>16. MarkedTo(h[n], c, n)
  BY <1>15 DEF S
<1> QED BY <1>1, <1>16 DEF n

LEMMA CollectIs ==
  ASSUME TreeShape, MergedTo(parts, tree.n), small = [i \in Node |-> 0], Collect
  PROVE  RangesOK' /\ MarksOK' /\ RangesApart'
<1> DEFINE L == Len(parts)
           P == {p \in PartSet : parts[p].loc # -1}
           given == InOrder(P)
           c == [s \in DOMAIN given |-> parts[given[s]]]
           n == Len(given)
<1>1. Chain(parts, 1, tree.n) /\ \A p \in 1..L : parts[p].loc # -1 => Apart(parts[p])
  BY DEF MergedTo
<1>2. L \in Nat /\ DOMAIN parts = 1..L /\ \A p \in 1..L : parts[p] \in Part
  BY <1>1, ChainFacts
<1>3. P \in SUBSET Nat /\ IsFiniteSet(P) /\ P \subseteq 1..L
  <2>1. P \subseteq 1..L
    BY <1>2 DEF PartSet
  <2>2. IsFiniteSet(1..L) /\ 1..L \subseteq Nat
    BY <1>2, FS_Interval
  <2> HIDE DEF P
  <2> QED BY <2>1, <2>2, FS_Subset
<1>4. Enumerates(given, P)
  BY <1>3, InOrderIs
<1> HIDE DEF given
<1>5. /\ given \in Seq(P) /\ n \in Nat /\ DOMAIN given = 1..n
      /\ \A s \in 1..n : given[s] \in P
      /\ \A k, l \in 1..n : k < l => given[k] < given[l]
  <2>1. given \in Seq(P) /\ \A k, l \in 1..n : k < l => given[k] < given[l]
    BY <1>4 DEF Enumerates
  <2> HIDE DEF P
  <2>2. n \in Nat /\ DOMAIN given = 1..n
    BY <2>1, LenProperties
  <2>3. \A s \in 1..n : given[s] \in P
    BY <2>1, ElementOfSeq
  <2> QED BY <2>1, <2>2, <2>3
<1>6. \A s \in 1..n : given[s] \in 1..L /\ parts[given[s]].loc # -1
  BY <1>3, <1>5
<1>7. \A s \in 1..n :
        /\ c[s] = parts[given[s]] /\ c[s] \in Part /\ c[s].sa <= c[s].en /\ Apart(c[s])
        /\ c[s].sa \in Node /\ c[s].en \in Node
  <2> TAKE s \in 1..n
  <2>1. c[s] = parts[given[s]]
    BY <1>5
  <2> DEFINE p == given[s]
  <2>2. p \in 1..L /\ parts[p].loc # -1 /\ c[s] = parts[p]
    BY <1>6, <2>1
  <2> HIDE DEF p, c
  <2>3. c[s] \in Part /\ c[s].sa <= c[s].en /\ Apart(c[s])
    BY <1>1, <1>2, <2>2 DEF Chain
  <2>4. c[s].sa \in Node /\ c[s].en \in Node
    BY <2>3, PartFacts
  <2> QED BY <2>1, <2>3, <2>4
<1>8. DOMAIN c = 1..n /\ c = [s \in 1..n |-> c[s]]
  BY <1>5
<1>9. c \in Seq(Part) /\ Len(c) = n
  <2> HIDE DEF c, n
  <2>1. c \in [1..n -> Part]
    BY <1>7, <1>8
  <2>2. c \in Seq(Part)
    BY <1>5, <2>1, SeqDef
  <2> QED BY <1>5, <1>8, <2>2
<1>10. \A k, l \in 1..n : k < l => c[k].en < c[l].sa
  <2> TAKE k, l \in 1..n
  <2> HAVE k < l
  <2> DEFINE p == given[k]
             q == given[l]
  <2>1. p \in 1..L /\ q \in 1..L /\ p < q /\ c[k] = parts[p] /\ c[l] = parts[q]
    BY <1>5, <1>6, <1>7
  <2> HIDE DEF p, q, c
  <2>2. parts[p].en < parts[q].sa
    BY <1>1, <2>1, ChainOrder
  <2> QED BY <2>1, <2>2
<1>11. MarkedTo(Flagged(c), c, n)
  <2> HIDE DEF c, n
  <2>1. \A l \in 1..Len(c) : c[l].sa <= c[l].en
    BY <1>7, <1>9
  <2>2. \A k, l \in 1..Len(c) : k < l => c[k].en < c[l].sa
    BY <1>9, <1>10
  <2>3. MarkedTo(Flagged(c), c, Len(c))
    BY <1>9, <2>1, <2>2, FlagsIs
  <2> QED BY <1>9, <2>3
<1>12. /\ small' = Flagged(c)
       /\ subtrees' = [s \in DOMAIN c |->
                         [sa |-> c[s].sa, en |-> c[s].en, dest |-> contrib_dest[s], loc |-> c[s].loc]]
       /\ tree' = tree
  BY DEF Collect, Flagged, given
<1> HIDE DEF c, n
<1>13. /\ DOMAIN subtrees' = 1..n
       /\ \A s \in 1..n : subtrees'[s].sa = c[s].sa /\ subtrees'[s].en = c[s].en
  <2> DEFINE x(s) == [sa |-> c[s].sa, en |-> c[s].en, dest |-> contrib_dest[s], loc |-> c[s].loc]
  <2>1. subtrees' = [s \in 1..n |-> x(s)]
    BY <1>8, <1>12
  <2>2. \A s : x(s).sa = c[s].sa /\ x(s).en = c[s].en
    OBVIOUS
  <2> HIDE DEF x
  <2> QED BY <2>1, <2>2
<1>14. Node' = Node /\ VRoot' = VRoot /\ \A i : parent(i)' = parent(i)
  BY <1>12 DEF Node, VRoot, parent
<1>15. RangesOK'
  <2>1. ASSUME NEW s \in 1..n
        PROVE  /\ subtrees'[s].sa \in Node /\ subtrees'[s].en \in Node
               /\ subtrees'[s].sa <= subtrees'[s].en
               /\ \A i \in subtrees'[s].sa..subtrees'[s].en :
                    /\ subtrees'[s].sa <= tree.least_desc[i]
                    /\ i # subtrees'[s].en => parent(i) <= subtrees'[s].en \/ parent(i) = VRoot
    <3>1. /\ c[s].sa \in Node /\ c[s].en \in Node /\ c[s].sa <= c[s].en
          /\ \A i \in c[s].sa..c[s].en :
               /\ c[s].sa <= tree.least_desc[i]
               /\ i # c[s].en => parent(i) <= c[s].en \/ parent(i) = VRoot
      BY <1>7 DEF Apart
    <3> QED BY <1>13, <3>1
  <2> QED BY <1>12, <1>13, <1>14, <2>1 DEF RangesOK, Apart
<1>16. MarksOK'
  <2>1. small' \in [Node -> Int]
    BY <1>11, <1>12 DEF MarkedTo
  <2>2. ASSUME NEW s \in 1..n, NEW i \in subtrees'[s].sa..subtrees'[s].en
        PROVE  small'[i] = IF i = subtrees'[s].en THEN 1 ELSE -subtrees'[s].en
    <3>1. i \in c[s].sa..c[s].en /\ subtrees'[s].en = c[s].en
      BY <1>13
    <3> QED BY <1>11, <1>12, <3>1 DEF MarkedTo
  <2>3. ASSUME NEW i \in Node, \A s \in 1..n : i \notin subtrees'[s].sa..subtrees'[s].en
        PROVE  small'[i] = 0
    <3>1. \A s \in 1..n : i \notin c[s].sa..c[s].en
      BY <1>13, <2>3
    <3> QED BY <1>11, <1>12, <3>1 DEF MarkedTo
  <2> QED BY <1>13, <1>14, <2>1, <2>2, <2>3 DEF MarksOK, InSubtree
<1>17. RangesApart'
  <2>1. ASSUME NEW s \in 1..n, NEW t \in 1..n, s # t
        PROVE  (c[s].sa..c[s].en) \cap (c[t].sa..c[t].en) = {}
    <3>1. s < t \/ t < s
      BY <1>5, <2>1
    <3>2. c[s].en < c[t].sa \/ c[t].en < c[s].sa
      BY <1>10, <3>1
    <3>3. c[s].sa \in Nat /\ c[s].en \in Nat /\ c[t].sa \in Nat /\ c[t].en \in Nat
      BY <1>7, PartFacts
    <3> QED BY <3>2, <3>3
  <2> QED BY <1>13, <2>1 DEF RangesApart, InSubtree
<1> QED BY <1>15, <1>16, <1>17

-----------------------------------------------------------------------------
(* Sums over finite sets, as MapThenSumSet computes them.                   *)

Pick(s) == CHOOSE x \in s : TRUE

Sums(h, f, T) ==
  h = [s \in SUBSET T |-> IF s = {} THEN 0 ELSE f[Pick(s)] + h[s \ {Pick(s)}]]

TheSum(f, T) == (CHOOSE h : Sums(h, f, T))[T]

LEMMA PickFacts ==
  ASSUME NEW T, IsFiniteSet(T), NEW s \in SUBSET T, s # {}
  PROVE  /\ Pick(s) \in s /\ Pick(s) \in T
         /\ s \ {Pick(s)} \in SUBSET T
         /\ IsFiniteSet(s) /\ Cardinality(s) \in Nat \ {0}
         /\ Cardinality(s \ {Pick(s)}) = Cardinality(s) - 1
<1>1. Pick(s) \in s
  BY DEF Pick
<1>2. IsFiniteSet(s)
  BY FS_Subset
<1>3. Cardinality(s) \in Nat /\ Cardinality(s) # 0
  BY <1>2, FS_CardinalityType, FS_EmptySet
<1>4. Cardinality(s \ {Pick(s)}) = Cardinality(s) - 1
  BY <1>1, <1>2, FS_RemoveElement
<1> QED BY <1>1, <1>2, <1>3, <1>4

(* The same on the sets of at most m elements.                              *)
SmallSets(T, m) == {s \in SUBSET T : Cardinality(s) <= m}

SumsTo(m, h, f, T) ==
  /\ h \in [SmallSets(T, m) -> Nat]
  /\ \A s \in SmallSets(T, m) : h[s] = IF s = {} THEN 0 ELSE f[Pick(s)] + h[s \ {Pick(s)}]

LEMMA SumExists ==
  ASSUME NEW T, IsFiniteSet(T), NEW f \in [T -> Nat]
  PROVE  \E h \in [SUBSET T -> Nat] : Sums(h, f, T)
<1> DEFINE N == Cardinality(T)
           U(m) == SmallSets(T, m)
           Bad == {m \in 0..N : ~ \E h : SumsTo(m, h, f, T)}
<1>1. N \in Nat
  BY FS_CardinalityType
<1>2. \A s \in SUBSET T : Cardinality(s) \in Nat /\ Cardinality(s) <= N
  BY FS_Subset, FS_CardinalityType
<1>3. Bad = {}
  <2> SUFFICES ASSUME Bad # {} PROVE FALSE
    OBVIOUS
  <2>1. Bad \in SUBSET Nat
    OBVIOUS
  <2>2. PICK m \in Bad : \A y \in Bad : m <= y
    BY <2>1, Smallest
  <2>3. m # 0
    <3>1. \A s \in U(0) : s = {}
      <4> TAKE s \in U(0)
      <4>1. s \in SUBSET T /\ Cardinality(s) <= 0
        BY DEF SmallSets
      <4>2. IsFiniteSet(s) /\ Cardinality(s) = 0
        BY <1>2, <4>1, FS_Subset
      <4> QED BY <4>2, FS_EmptySet
    <3>2. SumsTo(0, [s \in U(0) |-> 0], f, T)
      <4> HIDE DEF U
      <4>1. \A s \in U(0) : [x \in U(0) |-> 0][s] = 0
        OBVIOUS
      <4>2. [x \in U(0) |-> 0] \in [U(0) -> Nat]
        OBVIOUS
      <4> QED BY <3>1, <4>1, <4>2 DEF SumsTo, U
    <3> QED BY <3>2
  <2>4. m \in 1..N /\ m - 1 \in 0..N /\ ~ (m <= m - 1)
    <3>1. m \in 0..N
      OBVIOUS
    <3> HIDE DEF N
    <3> QED BY <1>1, <2>3, <3>1
  <2>5. m - 1 \notin Bad
    BY <2>2, <2>4
  <2>6. PICK g : SumsTo(m - 1, g, f, T)
    BY <2>4, <2>5
  <2> DEFINE x(s) == IF s = {} THEN 0 ELSE f[Pick(s)] + g[s \ {Pick(s)}]
             h == [s \in U(m) |-> x(s)]
  <2>7. ASSUME NEW s \in U(m), s # {}
        PROVE  s \ {Pick(s)} \in U(m - 1) /\ s \ {Pick(s)} \in U(m) /\ Pick(s) \in T
    <3>1. s \in SUBSET T /\ Cardinality(s) <= m
      BY DEF SmallSets
    <3>2. Pick(s) \in T /\ s \ {Pick(s)} \in SUBSET T /\ Cardinality(s) \in Nat
          /\ Cardinality(s \ {Pick(s)}) = Cardinality(s) - 1
      BY <2>7, <3>1, PickFacts
    <3>3. Cardinality(s \ {Pick(s)}) <= m - 1 /\ Cardinality(s \ {Pick(s)}) <= m
      BY <2>4, <3>1, <3>2
    <3> QED BY <3>2, <3>3 DEF SmallSets
  <2>8. \A s \in U(m - 1) : g[s] \in Nat /\ g[s] = x(s) /\ s \in U(m)
    <3> TAKE s \in U(m - 1)
    <3>1. s \in SUBSET T /\ Cardinality(s) <= m - 1 /\ Cardinality(s) \in Nat
      BY <1>2 DEF SmallSets
    <3>2. Cardinality(s) <= m
      BY <2>4, <3>1
    <3> QED BY <2>6, <3>1, <3>2 DEF SmallSets, SumsTo
  <2> HIDE DEF U
  <2>9. \A s \in U(m) : x(s) \in Nat
    <3> TAKE s \in U(m)
    <3>1. CASE s = {}
      BY <3>1
    <3>2. CASE s # {}
      <4>1. s \ {Pick(s)} \in U(m - 1) /\ Pick(s) \in T
        BY <2>7, <3>2
      <4>2. g[s \ {Pick(s)}] \in Nat /\ f[Pick(s)] \in Nat
        BY <2>8, <4>1
      <4> QED BY <3>2, <4>2
    <3> QED BY <3>1, <3>2
  <2>10. h \in [U(m) -> Nat]
    <3> HIDE DEF x
    <3> QED BY <2>9
  <2>11. ASSUME NEW s \in U(m)
         PROVE  h[s] = IF s = {} THEN 0 ELSE f[Pick(s)] + h[s \ {Pick(s)}]
    <3>1. CASE s = {}
      BY <3>1
    <3>2. CASE s # {}
      <4> DEFINE r == s \ {Pick(s)}
      <4>1. r \in U(m - 1) /\ r \in U(m)
        BY <2>7, <3>2
      <4>2. h[r] = g[r]
        BY <2>8, <4>1
      <4> QED BY <3>2, <4>2
    <3> QED BY <3>1, <3>2
  <2> HIDE DEF h
  <2>12. SumsTo(m, h, f, T)
    BY <2>10, <2>11 DEF SumsTo, U
  <2> QED BY <2>12
<1>4. PICK h : SumsTo(N, h, f, T)
  <2>1. N \in 0..N /\ N \notin Bad
    BY <1>1, <1>3
  <2> QED BY <2>1
<1>5. U(N) = SUBSET T
  BY <1>2 DEF SmallSets
<1>6. h \in [SUBSET T -> Nat] /\ \A s \in SUBSET T : h[s] = IF s = {} THEN 0 ELSE f[Pick(s)] + h[s \ {Pick(s)}]
  BY <1>4, <1>5 DEF SumsTo
<1>7. Sums(h, f, T)
  BY <1>6 DEF Sums
<1> QED BY <1>6, <1>7

LEMMA SumFacts ==
  ASSUME NEW T, IsFiniteSet(T), NEW f \in [T -> Nat], NEW h, Sums(h, f, T),
         NEW g \in [SUBSET T -> Nat], Sums(g, f, T)
  PROVE  \A s \in SUBSET T : h[s] = g[s] /\ \A x \in s : f[x] <= g[s]
<1> DEFINE Good(s) == h[s] = g[s] /\ \A x \in s : f[x] <= g[s]
           Bad == {m \in Nat : \E s \in SUBSET T : Cardinality(s) = m /\ ~ Good(s)}
<1>1. \A s \in SUBSET T : /\ h[s] = IF s = {} THEN 0 ELSE f[Pick(s)] + h[s \ {Pick(s)}]
                          /\ g[s] = IF s = {} THEN 0 ELSE f[Pick(s)] + g[s \ {Pick(s)}]
  <2>1. h = [s \in SUBSET T |-> IF s = {} THEN 0 ELSE f[Pick(s)] + h[s \ {Pick(s)}]]
    BY DEF Sums
  <2>2. g = [s \in SUBSET T |-> IF s = {} THEN 0 ELSE f[Pick(s)] + g[s \ {Pick(s)}]]
    BY DEF Sums
  <2> QED BY <2>1, <2>2
<1>2. Bad = {}
  <2> SUFFICES ASSUME Bad # {} PROVE FALSE
    OBVIOUS
  <2>1. Bad \in SUBSET Nat
    OBVIOUS
  <2>2. PICK m \in Bad : \A y \in Bad : m <= y
    BY <2>1, Smallest
  <2>3. PICK s \in SUBSET T : Cardinality(s) = m /\ ~ Good(s)
    BY <2>2
  <2>4. CASE s = {}
    BY <1>1, <2>3, <2>4
  <2>5. CASE s # {}
    <3> DEFINE r == s \ {Pick(s)}
               p == Pick(s)
    <3>1. p \in s /\ p \in T /\ r \in SUBSET T /\ Cardinality(r) = m - 1 /\ m \in Nat \ {0}
      BY <2>3, <2>5, PickFacts
    <3>2. Good(r)
      <4>1. m - 1 \in Nat /\ ~ (m <= m - 1)
        BY <3>1
      <4>2. m - 1 \notin Bad
        BY <2>2, <4>1
      <4> HIDE DEF r, Good
      <4> QED BY <3>1, <4>1, <4>2
    <3>3. h[s] = f[p] + h[r] /\ g[s] = f[p] + g[r]
      BY <1>1, <2>5
    <3>4. f[p] \in Nat /\ g[r] \in Nat
      BY <3>1
    <3>5. \A x \in s : x = p \/ x \in r
      OBVIOUS
    <3>6. \A x \in s : f[x] \in Nat
      OBVIOUS
    <3> HIDE DEF r, p
    <3>7. \A x \in s : f[x] <= g[s]
      BY <3>2, <3>3, <3>4, <3>5, <3>6
    <3>8. h[s] = g[s]
      BY <3>2, <3>3
    <3> QED BY <2>3, <3>7, <3>8
  <2> QED BY <2>4, <2>5
<1>3. \A s \in SUBSET T : Cardinality(s) \in Nat
  BY FS_Subset, FS_CardinalityType
<1> HIDE DEF Good
<1>4. \A s \in SUBSET T : Good(s)
  BY <1>2, <1>3
<1> QED BY <1>4 DEF Good

LEMMA SumIs ==
  ASSUME NEW T, IsFiniteSet(T), NEW f \in [T -> Nat]
  PROVE  /\ TheSum(f, T) \in Nat /\ \A x \in T : f[x] <= TheSum(f, T)
         /\ \A h : Sums(h, f, T) => h[T] = TheSum(f, T)
<1>1. PICK g \in [SUBSET T -> Nat] : Sums(g, f, T)
  BY SumExists
<1> DEFINE c == CHOOSE h : Sums(h, f, T)
<1>2. Sums(c, f, T)
  BY <1>1
<1>3. TheSum(f, T) = c[T]
  BY DEF TheSum
<1> HIDE DEF c
<1>4. T \in SUBSET T
  OBVIOUS
<1>5. c[T] = g[T] /\ \A x \in T : f[x] <= g[T]
  BY <1>1, <1>2, <1>4, SumFacts
<1>6. ASSUME NEW h, Sums(h, f, T)
      PROVE  h[T] = g[T]
  BY <1>1, <1>4, <1>6, SumFacts
<1>7. g[T] \in Nat
  BY <1>1, <1>4
<1> QED BY <1>3, <1>5, <1>6, <1>7

SumOf(w, T) == MapThenSumSet(LAMBDA c : w[c], T)

LEMMA SumOfFunction ==
  ASSUME NEW T, IsFiniteSet(T), NEW f \in [T -> Nat], NEW w, \A x \in T : w[x] = f[x]
  PROVE  SumOf(w, T) = TheSum(f, T)
<1> DEFINE G(i) == [s \in SUBSET T |->
                      IF s = {} THEN 0 ELSE w[Pick(s)] + i[s \ {Pick(s)}]]
           h == CHOOSE i : i = G(i)
<1>1. SumOf(w, T) = h[T]
  BY DEF SumOf, MapThenSumSet, MapThenFoldSet, Pick
<1>2. PICK g \in [SUBSET T -> Nat] : Sums(g, f, T)
  BY SumExists
<1>3. ASSUME NEW i
      PROVE  G(i) = [s \in SUBSET T |-> IF s = {} THEN 0 ELSE f[Pick(s)] + i[s \ {Pick(s)}]]
  <2>1. \A s \in SUBSET T : s # {} => w[Pick(s)] = f[Pick(s)]
    BY PickFacts
  <2> QED BY <2>1
<1>4. g = G(g)
  BY <1>2, <1>3 DEF Sums
<1>5. h = G(h)
  BY <1>4
<1> HIDE DEF h
<1>6. Sums(h, f, T)
  BY <1>3, <1>5 DEF Sums
<1> QED BY <1>1, <1>6, SumIs

LEMMA SumOfSquares ==
  ASSUME NEW T \in SUBSET Int, IsFiniteSet(T)
  PROVE  MapThenSumSet(LAMBDA jj : jj * jj, T) \in Nat
<1> DEFINE f == [x \in T |-> x * x]
           G(i) == [s \in SUBSET T |->
                      IF s = {} THEN 0 ELSE Pick(s) * Pick(s) + i[s \ {Pick(s)}]]
           h == CHOOSE i : i = G(i)
<1>1. MapThenSumSet(LAMBDA jj : jj * jj, T) = h[T]
  BY DEF MapThenSumSet, MapThenFoldSet, Pick
<1>2. f \in [T -> Nat]
  <2>1. \A x \in Int : x * x \in Nat
    <3> TAKE x \in Int
    <3>1. x * x \in Int /\ x * x >= 0
      BY Z3
    <3> QED BY <3>1
  <2> QED BY <2>1
<1>3. PICK g \in [SUBSET T -> Nat] : Sums(g, f, T)
  <2> HIDE DEF f
  <2> QED BY <1>2, SumExists
<1>4. ASSUME NEW i
      PROVE  G(i) = [s \in SUBSET T |-> IF s = {} THEN 0 ELSE f[Pick(s)] + i[s \ {Pick(s)}]]
  <2>1. \A s \in SUBSET T : s # {} => f[Pick(s)] = Pick(s) * Pick(s)
    <3>1. \A s \in SUBSET T : s # {} => Pick(s) \in T
      BY PickFacts
    <3> QED BY <3>1
  <2> HIDE DEF f
  <2> QED BY <2>1
<1> HIDE DEF f
<1>5. g = G(g)
  BY <1>3, <1>4 DEF Sums
<1>6. h = G(h)
  BY <1>5
<1> HIDE DEF h
<1>7. Sums(h, f, T)
  BY <1>4, <1>6 DEF Sums
<1> QED BY <1>1, <1>2, <1>7, SumIs

-----------------------------------------------------------------------------
(* The work below a node is no less than what is below a child.             *)

WeightsOK ==
  /\ tree.weight \in [1..VRoot -> Nat]
  /\ \A c \in Node : tree.weight[c] <= tree.weight[parent(c)]

WorkAt(in, j) == IF j > in.n THEN 0 ELSE compute_flops(in, j)

LEMMA WorkAtIs ==
  ASSUME NEW in, ValidInput(in), NEW j \in 1..(in.n + 1)
  PROVE  WorkAt(in, j) \in Nat
<1>1. CASE j > in.n
  BY <1>1 DEF WorkAt
<1>2. CASE ~ (j > in.n)
  <2>1. j \in 1..in.n
    BY <1>2 DEF ValidInput
  <2> DEFINE m == in.nrow[j]
             n == in.ncol[j]
             T == (m - n + 1)..m
  <2>5. in.ncol \in [1..in.n -> Nat \ {0}] /\ in.nrow \in [1..in.n -> Nat \ {0}]
    BY DEF ValidInput
  <2>6. \A S, f : f \in [S -> Nat \ {0}] => \A x \in S : f[x] \in Int
    OBVIOUS
  <2>2. m \in Int /\ n \in Int
    BY <2>1, <2>5, <2>6
  <2>3. T \in SUBSET Int /\ IsFiniteSet(T)
    BY <2>2, FS_Interval
  <2>4. WorkAt(in, j) = MapThenSumSet(LAMBDA jj : jj * jj, T)
    BY <1>2 DEF WorkAt, compute_flops
  <2> HIDE DEF T
  <2> QED BY <2>3, <2>4, SumOfSquares
<1> QED BY <1>1, <1>2

(* w gives each node its own work and that of its children.                 *)
WorkBelow(w, in) ==
  /\ w \in [1..(in.n + 1) -> Nat]
  /\ \A c \in 1..in.n : w[c] <= w[in.parent[c]]

LEMMA WeightIs ==
  ASSUME NEW in, ValidInput(in)
  PROVE  WorkBelow(WeightOf(in, ChildrenOf(in)), in)
<1> DEFINE N == in.n + 1
           C == [j \in 1..N |-> {i \in 1..in.n : in.parent[i] = j}]
           F == [j \in 1..N |-> [f \in [C[j] -> Nat] |-> WorkAt(in, j) + TheSum(f, C[j])]]
           child == ChildrenOf(in)
           D(d) == [j \in 1..N |->
                      (IF j > in.n THEN 0 ELSE compute_flops(in, j))
                        + MapThenSumSet(LAMBDA c : d[c], ToSet(child[j]))]
           d == CHOOSE d : d = D(d)
<1>1. N \in Nat /\ in.n \in Nat
  BY DEF ValidInput
<1>2. \A j \in 1..N : C[j] \in SUBSET (1..(j - 1)) /\ ToSet(child[j]) = C[j] /\ IsFiniteSet(C[j])
                      /\ C[j] = {i \in 1..in.n : in.parent[i] = j}
  <2> TAKE j \in 1..N
  <2>1. C[j] = {i \in 1..in.n : in.parent[i] = j}
    OBVIOUS
  <2>2. j \in 1..(in.n + 1)
    OBVIOUS
  <2>3. /\ ToSet(ChildrenOf(in)[j]) = {i \in 1..in.n : in.parent[i] = j}
        /\ {i \in 1..in.n : in.parent[i] = j} \in SUBSET (1..(j - 1))
    BY <2>2, ChildrenIs
  <2> HIDE DEF C
  <2>4. IsFiniteSet(1..in.n)
    BY <1>1, FS_Interval
  <2>5. IsFiniteSet(C[j])
    BY <2>1, <2>4, FS_Subset
  <2> QED BY <2>1, <2>3, <2>5
<1>3. \A j \in 1..N : WorkAt(in, j) \in Nat
  BY WorkAtIs
<1>4. \A j \in 1..N : F[j] \in [[C[j] -> Nat] -> Nat]
  <2> TAKE j \in 1..N
  <2> DEFINE T == C[j]
             v == WorkAt(in, j)
  <2>1. IsFiniteSet(T) /\ v \in Nat
    BY <1>2, <1>3
  <2>2. F[j] = [f \in [T -> Nat] |-> v + TheSum(f, T)]
    OBVIOUS
  <2> HIDE DEF T, v, F, C
  <2>3. ASSUME NEW f \in [T -> Nat]
        PROVE  v + TheSum(f, T) \in Nat
    BY <2>1, SumIs
  <2> QED BY <2>2, <2>3 DEF T
<1>5. \A j \in 1..N : \A f \in [C[j] -> Nat] : F[j][f] = WorkAt(in, j) + TheSum(f, C[j])
  OBVIOUS
<1>6. PICK g \in [1..N -> Nat] : \A j \in 1..N : g[j] = F[j][[c \in C[j] |-> g[c]]]
  <2> HIDE DEF C, F, N, D, d, child
  <2>1. Rules(N, C, Nat, F)
    BY <1>2, <1>4 DEF Rules
  <2>2. \E g : Course(N, g, C, Nat, F)
    BY <1>1, <2>1, CourseExists
  <2> QED BY <2>2 DEF Course
<1> HIDE DEF C, F
<1>7. \A j \in 1..N : C[j] \subseteq 1..N
  <2> TAKE j \in 1..N
  <2>1. \A k \in 1..(j - 1) : k \in 1..N
    BY <1>1
  <2> QED BY <1>2, <2>1
<1>8. g = D(g)
  <2>1. ASSUME NEW j \in 1..N
        PROVE  g[j] = D(g)[j]
    <3> DEFINE f == [c \in C[j] |-> g[c]]
               T == C[j]
    <3>1. f \in [T -> Nat] /\ IsFiniteSet(T) /\ \A x \in T : g[x] = f[x]
      BY <1>2, <1>7
    <3>2. g[j] = WorkAt(in, j) + TheSum(f, T)
      BY <1>5, <1>6, <3>1
    <3> HIDE DEF f, T
    <3>3. SumOf(g, T) = TheSum(f, T)
      BY <3>1, SumOfFunction
    <3>4. T = ToSet(child[j])
      BY <1>2 DEF T
    <3> HIDE DEF child
    <3>5. SumOf(g, ToSet(child[j])) = TheSum(f, T)
      BY <3>3, <3>4
    <3>6. D(g)[j] = WorkAt(in, j) + SumOf(g, ToSet(child[j]))
      BY DEF WorkAt, SumOf
    <3> QED BY <3>2, <3>5, <3>6
  <2>2. g = [j \in 1..N |-> g[j]] /\ D(g) = [j \in 1..N |-> D(g)[j]]
    OBVIOUS
  <2> HIDE DEF N, D
  <2> QED BY <2>1, <2>2
<1>9. d = D(d)
  BY <1>8
<1>10. WeightOf(in, child) = d
  BY DEF WeightOf
<1> HIDE DEF d
<1> DEFINE Good(j) == d[j] \in Nat /\ \A c \in C[j] : d[c] <= d[j]
           Bad == {j \in 1..N : ~ Good(j)}
<1>11. ASSUME NEW j \in 1..N, \A c \in C[j] : d[c] \in Nat
       PROVE  Good(j)
  <2> DEFINE T == C[j]
             f == [c \in T |-> d[c]]
  <2>1. f \in [T -> Nat] /\ IsFiniteSet(T) /\ \A x \in T : d[x] = f[x]
    BY <1>2, <1>11
  <2>2. T = ToSet(child[j])
    BY <1>2
  <2>3. d[j] = D(d)[j]
    BY <1>9
  <2> HIDE DEF T, f, child
  <2>4. SumOf(d, T) = TheSum(f, T)
    BY <2>1, SumOfFunction
  <2>5. d[j] = WorkAt(in, j) + SumOf(d, ToSet(child[j]))
    BY <2>3 DEF WorkAt, SumOf
  <2>6. d[j] = WorkAt(in, j) + TheSum(f, T)
    BY <2>2, <2>4, <2>5
  <2>7. TheSum(f, T) \in Nat /\ (\A x \in T : f[x] <= TheSum(f, T)) /\ WorkAt(in, j) \in Nat
    BY <1>3, <2>1, SumIs
  <2>8. \A x \in T : d[x] \in Nat /\ d[x] <= TheSum(f, T)
    BY <1>11, <2>1, <2>7 DEF T
  <2>9. \A x \in T : d[x] <= d[j]
    BY <2>6, <2>7, <2>8
  <2> QED BY <2>6, <2>7, <2>9 DEF T
<1>12. Bad = {}
  <2> SUFFICES ASSUME Bad # {} PROVE FALSE
    OBVIOUS
  <2>1. Bad \in SUBSET Nat
    BY <1>1
  <2>2. PICK j \in Bad : \A y \in Bad : j <= y
    BY <2>1, Smallest
  <2>3. j \in 1..N /\ ~ Good(j)
    BY <2>2
  <2>4. ASSUME NEW c \in C[j]
        PROVE  d[c] \in Nat
    <3>1. c \in 1..N /\ c \in 1..(j - 1)
      BY <1>2, <1>7, <2>3
    <3>2. ~ (j <= c)
      BY <1>1, <2>3, <3>1
    <3>3. c \notin Bad
      BY <2>2, <3>2
    <3> QED BY <3>1, <3>3
  <2> QED BY <1>11, <2>3, <2>4
<1>13. \A j \in 1..N : Good(j)
  BY <1>12
<1>14. \A j \in 1..N : d[j] \in Nat
  BY <1>13
<1>15. ASSUME NEW c \in 1..in.n
       PROVE  d[c] <= d[in.parent[c]]
  <2> DEFINE j == in.parent[c]
  <2>3. in.parent \in [1..in.n -> 2..(in.n + 1)]
    BY DEF ValidInput
  <2>1. j \in 1..N
    BY <1>1, <2>3
  <2>2. c \in C[j]
    BY <1>2, <2>1
  <2> HIDE DEF j
  <2> QED BY <1>13, <2>1, <2>2 DEF j
<1>16. d = [j \in 1..N |-> d[j]]
  <2>1. D(d) = [j \in 1..N |-> D(d)[j]]
    OBVIOUS
  <2> HIDE DEF D
  <2> QED BY <1>9, <2>1
<1>17. d \in [1..N -> Nat]
  BY <1>14, <1>16
<1>18. WorkBelow(d, in)
  BY <1>15, <1>17 DEF WorkBelow
<1> QED BY <1>10, <1>18

LEMMA WeightsInit == TreeInit => WeightsOK
<1> SUFFICES ASSUME TreeInit PROVE WeightsOK
  OBVIOUS
<1>1. PICK in \in Inputs :
         LET child == ChildrenOf(in) IN
         tree = [n |-> in.n, parent |-> in.parent, child |-> child,
                 weight |-> WeightOf(in, child), least_desc |-> LeastDescOf(in, child),
                 nth |-> in.nth, gpus |-> in.gpus, coeff |-> in.coeff,
                 min_gpu_work |-> in.min_gpu_work, max_inbalance |-> in.max_inbalance,
                 omp |-> in.omp]
  BY DEF TreeInit
<1>2. ValidInput(in)
  BY InputsAssumption
<1>3. tree.n = in.n /\ tree.parent = in.parent /\ tree.weight = WeightOf(in, ChildrenOf(in))
  BY <1>1
<1>4. WorkBelow(WeightOf(in, ChildrenOf(in)), in)
  BY <1>2, WeightIs
<1>5. WorkBelow(tree.weight, in)
  BY <1>3, <1>4
<1> QED BY <1>3, <1>5 DEF WorkBelow, WeightsOK, VRoot, Node, parent

-----------------------------------------------------------------------------
(* find_subtree_partition and analyse_core, step by step.                   *)

OmpInv ==
  tree.omp =>
    /\ pc \in {"split", "consolidate", "merge", "collect", "done"}
    /\ pc # "done" => small = [i \in Node |-> 0]
    /\ pc \in {"split", "consolidate"} => Covers(parts) /\ size_order \in Orders(Len(parts))
    /\ pc = "merge" => Placed(parts)
    /\ pc \in {"collect", "done"} => MergedTo(parts, tree.n)
    /\ pc = "done" => RangesOK /\ MarksOK /\ RangesApart

(* The parts are not looked at in a build without OpenMP.                   *)
PruneParts ==
  ~ tree.omp => pc \in {"godown", "findn", "rest", "done"} /\ Covers(parts)

LEMMA OmpInit == Init => TreeShape /\ OmpInv /\ PruneParts
<1> SUFFICES ASSUME Init PROVE TreeShape /\ OmpInv /\ PruneParts
  OBVIOUS
<1>1. TreeShape /\ small = [i \in Node |-> 0]
  BY TreeShapeInit DEF Init, TreeInit, Node
<1>2. parts = FirstParts /\ size_order = create_size_order(FirstParts)
  BY DEF Init, PartInit
<1>3. pc = IF tree.omp THEN "split" ELSE "godown"
  BY DEF Init
<1>4. Covers(parts)
  BY <1>1, <1>2, FirstPartsTile DEF Covers
<1>5. Len(parts) \in Nat /\ DOMAIN parts = 1..Len(parts)
  BY <1>1, <1>4, ChainFacts DEF Covers
<1>6. size_order \in Orders(Len(parts))
  BY <1>2, <1>5, SizeOrderIs
<1> QED BY <1>1, <1>3, <1>4, <1>6 DEF OmpInv, PruneParts

(* The tree and what is said of it do not change.                           *)
LEMMA ShapeSame ==
  ASSUME TreeShape, UNCHANGED tree
  PROVE  TreeShape'
BY DEF TreeShape, VRoot, Node, parent

LEMMA OmpStep ==
  ASSUME TreeShape, OmpInv, PruneParts, Next
  PROVE  TreeShape' /\ OmpInv' /\ PruneParts'
<1>1. CASE PruneNext /\ UNCHANGED partVars
  <2>1. /\ pc \in {"godown", "findn", "rest"} /\ UNCHANGED tree
        /\ pc' \in {"godown", "findn", "rest", "done"}
    BY <1>1 DEF PruneNext, MapLayer, Bottom, Restart, Descend, RecordRest, treeVars
  <2>2. ~ tree.omp /\ ~ tree'.omp
    BY <2>1 DEF OmpInv
  <2>3. Covers(parts)'
    <3>1. parts' = parts
      BY <1>1 DEF partVars
    <3>2. Covers(parts)
      BY <2>2 DEF PruneParts
    <3> QED BY <2>1, <3>1, <3>2 DEF Covers, Chain, Rooted, Part, Node
  <2> QED BY <2>1, <2>2, <2>3, ShapeSame DEF OmpInv, PruneParts
<1>2. CASE PartNext /\ UNCHANGED layerVars
  <2>1. /\ pc \in {"split", "consolidate", "merge", "collect"} /\ UNCHANGED tree
    BY <1>2 DEF PartNext, Accept, Split, Consolidate, Merge, Collect, treeVars
  <2>2. tree.omp /\ tree'.omp
    BY <2>1 DEF PruneParts, TreeShape
  <2>3. TreeShape' /\ PruneParts' /\ small = [i \in Node |-> 0]
    BY <2>1, <2>2, ShapeSame DEF PruneParts, OmpInv
  <2>4. CASE Accept
    <3>1. UNCHANGED <<tree, small, subtrees, parts, size_order>> /\ pc = "split" /\ pc' = "consolidate"
      BY <2>4 DEF Accept, treeVars, partVars
    <3>2. Covers(parts) /\ size_order \in Orders(Len(parts))
      BY <2>2, <3>1 DEF OmpInv
    <3>3. Covers(parts)'
      BY <3>1, <3>2 DEF Covers, Chain, Rooted, Part, Node
    <3>4. (size_order \in Orders(Len(parts)))' /\ (small = [i \in Node |-> 0])'
      BY <2>3, <3>1, <3>2 DEF Node
    <3> QED BY <2>3, <3>1, <3>3, <3>4 DEF OmpInv
  <2>5. CASE Split
    <3>1. /\ UNCHANGED <<tree, small, subtrees>> /\ pc = "split" /\ pc' \in {"split", "consolidate"}
          /\ parts' = split_tree /\ size_order' = create_size_order(split_tree)
      BY <2>5 DEF Split, treeVars
    <3>2. Covers(split_tree)
      BY <2>2, <3>1, SplitCovers DEF OmpInv
    <3>3. Len(split_tree) \in Nat /\ DOMAIN split_tree = 1..Len(split_tree)
      BY <3>2, ChainFacts DEF Covers
    <3>4. create_size_order(split_tree) \in Orders(Len(split_tree))
      BY <3>3, SizeOrderIs
    <3> DEFINE ps == split_tree
               so == create_size_order(split_tree)
    <3>5. Covers(ps) /\ so \in Orders(Len(ps)) /\ parts' = ps /\ size_order' = so
      BY <3>1, <3>2, <3>4
    <3> HIDE DEF ps, so
    <3>6. Covers(parts)'
      BY <3>1, <3>5 DEF Covers, Chain, Rooted, Part, Node
    <3>7. (size_order \in Orders(Len(parts)))' /\ (small = [i \in Node |-> 0])'
      BY <2>3, <3>1, <3>5 DEF Node, Orders
    <3> QED BY <2>3, <3>1, <3>6, <3>7 DEF OmpInv
  <2>6. CASE Consolidate
    <3> DEFINE ps == Consolidated
               order == create_size_order(ps)
               new == [p \in DOMAIN ps |-> [ps[p] EXCEPT !.loc = exec_alloc(ps, order)[p]]]
    <3>1. /\ UNCHANGED <<tree, small, subtrees>> /\ pc = "consolidate" /\ pc' = "merge"
          /\ parts' = new
      BY <2>6 DEF Consolidate, treeVars
    <3>2. Covers(ps)
      BY <2>2, <3>1, ConsolidatedCovers DEF OmpInv
    <3>3. Len(ps) \in Nat /\ DOMAIN ps = 1..Len(ps)
      BY <3>2, ChainFacts DEF Covers
    <3>4. order \in Orders(Len(ps))
      BY <3>3, SizeOrderIs
    <3>5. Placed(new)
      <4> HIDE DEF ps, order
      <4> QED BY <3>2, <3>4, PlacedIs
    <3> HIDE DEF new
    <3>6. Placed(parts)'
      BY <3>1, <3>5 DEF Placed, Chain, Rooted, Part, Node
    <3>7. (small = [i \in Node |-> 0])'
      BY <2>3, <3>1 DEF Node
    <3> QED BY <2>3, <3>1, <3>6, <3>7 DEF OmpInv
  <2>7. CASE Merge
    <3> DEFINE end == Fold(MergePart, [ps |-> <<Head(parts)>>, has_parent |-> HasParent(Head(parts))],
                           Tail(parts)).ps
    <3>1. /\ UNCHANGED <<tree, small, subtrees>> /\ pc = "merge" /\ pc' = "collect"
          /\ parts' = end
      BY <2>7 DEF Merge, treeVars
    <3>2. MergedTo(end, tree.n)
      <4>1. Placed(parts)
        BY <2>2, <3>1 DEF OmpInv
      <4> QED BY <4>1, MergeIs
    <3> HIDE DEF end
    <3>3. MergedTo(parts, tree.n)'
      BY <3>1, <3>2 DEF MergedTo, Chain, Apart, Part, Node, parent, VRoot
    <3>4. (small = [i \in Node |-> 0])'
      BY <2>3, <3>1 DEF Node
    <3> QED BY <2>3, <3>1, <3>3, <3>4 DEF OmpInv
  <2>8. CASE Collect
    <3>1. pc = "collect" /\ pc' = "done" /\ UNCHANGED <<tree, parts>>
      BY <2>8 DEF Collect, partVars
    <3>2. MergedTo(parts, tree.n)
      BY <2>2, <3>1 DEF OmpInv
    <3>3. RangesOK' /\ MarksOK' /\ RangesApart'
      BY <2>3, <2>8, <3>2, CollectIs
    <3>4. MergedTo(parts, tree.n)'
      BY <3>1, <3>2 DEF MergedTo, Chain, Apart, Part, Node, parent, VRoot
    <3> QED BY <2>3, <3>1, <3>3, <3>4 DEF OmpInv
  <2> QED BY <1>2, <2>4, <2>5, <2>6, <2>7, <2>8 DEF PartNext
<1> QED BY <1>1, <1>2 DEF Next

LEMMA OmpStutter ==
  ASSUME UNCHANGED vars
  PROVE  /\ TreeShape => TreeShape'
         /\ OmpInv => OmpInv'
         /\ PruneParts => PruneParts'
<1>1. /\ tree' = tree /\ pc' = pc /\ small' = small /\ subtrees' = subtrees
      /\ parts' = parts /\ size_order' = size_order
  BY DEF vars
<1>4. (Covers(parts) => Covers(parts)') /\ (Placed(parts) => Placed(parts)')
  BY <1>1 DEF Covers, Placed, Chain, Rooted, Part, Node
<1>5. \A q : Apart(q) => Apart(q)'
  BY <1>1 DEF Apart, parent, VRoot
<1>6. MergedTo(parts, tree.n) => MergedTo(parts, tree.n)'
  <2>1. \A p : Apart(parts[p]) => Apart(parts[p])'
    BY <1>1, <1>5
  <2>2. Chain(parts, 1, tree.n) => Chain(parts, 1, tree.n)'
    BY <1>1 DEF Chain, Part, Node
  <2> QED BY <1>1, <2>1, <2>2 DEF MergedTo
<1>7. RangesOK => RangesOK'
  <2>1. \A s : Apart(subtrees[s]) => Apart(subtrees[s])'
    BY <1>1, <1>5
  <2> QED BY <1>1, <2>1 DEF RangesOK, Node
<1>8. (MarksOK => MarksOK') /\ (RangesApart => RangesApart')
  BY <1>1 DEF MarksOK, RangesApart, Node, InSubtree
<1>9. size_order \in Orders(Len(parts)) => (size_order \in Orders(Len(parts)))'
  BY <1>1 DEF Orders
<1>10. small = [i \in Node |-> 0] => (small = [i \in Node |-> 0])'
  BY <1>1 DEF Node
<1>2. OmpInv => OmpInv'
  BY <1>1, <1>4, <1>6, <1>7, <1>8, <1>9, <1>10 DEF OmpInv
<1>3. PruneParts => PruneParts'
  BY <1>1, <1>4 DEF PruneParts
<1> QED BY <1>1, <1>2, <1>3, ShapeSame

LEMMA OmpAlways == SolveSpec => [](TreeShape /\ OmpInv /\ PruneParts)
<1>1. SolveInit => TreeShape /\ OmpInv /\ PruneParts
  BY OmpInit DEF SolveInit
<1>2. TreeShape /\ OmpInv /\ PruneParts /\ [SolveNext]_allVars => (TreeShape /\ OmpInv /\ PruneParts)'
  <2> SUFFICES ASSUME TreeShape, OmpInv, PruneParts, [SolveNext]_allVars
               PROVE  (TreeShape /\ OmpInv /\ PruneParts)'
    OBVIOUS
  <2>1. CASE Next
    BY <2>1, OmpStep
  <2>2. CASE UNCHANGED vars
    BY <2>2, OmpStutter
  <2> QED BY <2>1, <2>2 DEF SolveNext, SolveFwd, SolveDiagBwd, allVars
<1> QED BY <1>1, <1>2, PTL DEF SolveSpec

(* The parts follow one another over all the nodes from the first split to  *)
(* the end, and until they are merged a part that can be a subtree is all   *)
(* that is below its last node.                                             *)
THEOREM PartsCoverPostorder == SolveSpec => []PartsWhole
<1>1. TreeShape /\ OmpInv /\ PruneParts => PartsWhole
  <2> SUFFICES ASSUME TreeShape, OmpInv, PruneParts PROVE PartsWhole
    OBVIOUS
  <2>1. Chain(parts, 1, tree.n) /\ Len(parts) > 0
    BY DEF OmpInv, PruneParts, Covers, Placed, MergedTo, TreeShape
  <2>2. pc \in {"split", "consolidate", "merge"} => Rooted(parts)
    BY DEF OmpInv, PruneParts, Covers, Placed, TreeShape
  <2>3. Len(parts) \in Nat /\ DOMAIN parts = 1..Len(parts) /\ parts # <<>>
    BY <2>1, ChainFacts
  <2>4. Last(parts) = parts[Len(parts)]
    BY DEF Last
  <2> QED BY <2>1, <2>2, <2>3, <2>4 DEF PartsWhole, Chain, Rooted, PartSet, Below
<1> QED BY <1>1, OmpAlways, PTL

-----------------------------------------------------------------------------
(* prune_tree: the nodes L of the layer and the roots R of the subtrees.    *)

AntiChain(S) == \A i, j \in S : i # j => i \notin Below(j)

(* No node of the layer is in a subtree, and what is recorded below a node  *)
(* of the layer is a child of it.                                           *)
Beside(L, R) ==
  \A l \in L : \A c \in R : l \notin Below(c) /\ (c \in Below(l) => parent(c) = l)

(* Every node is in a subtree, or above, in or below the layer.             *)
Cut(L, R) ==
  \A i \in Node : \/ \E c \in R : i \in Below(c)
                  \/ \E l \in L : i \in Below(l) \/ l \in Below(i)

Marked(m, R) ==
  /\ m \in [Node -> Int]
  /\ \A c \in R : \A i \in Below(c) : m[i] = IF i = c THEN 1 ELSE -c
  /\ \A i \in Node : (\A c \in R : i \notin Below(c)) => m[i] = 0

(* The nodes above and beside a child.                                      *)
LEMMA ParentAbove ==
  ASSUME TreeShape, NEW c \in Node
  PROVE  /\ parent(c) \notin Below(c)
         /\ \A j \in 1..VRoot : c \in Below(j) /\ c # j => parent(c) \in Below(j)
         /\ Below(c) \subseteq Below(parent(c))
         /\ c \in 1..VRoot /\ parent(c) \in 1..VRoot
<1>1. c \in 1..VRoot /\ parent(c) \in 1..VRoot /\ parent(c) > c /\ c \in Nat
  BY NodeFacts
<1>2. \A i \in Below(c) : i <= c
  BY <1>1, BelowIs
<1>3. parent(c) \in Nat
  BY <1>1, NodeFacts
<1>4. parent(c) \notin Below(c)
  BY <1>1, <1>2, <1>3
<1>5. \A j \in 1..VRoot : c \in Below(j) /\ c # j => parent(c) \in Below(j)
  BY BelowIs
<1>6. c \in Below(parent(c))
  BY ChildBelow
<1>7. Below(c) \subseteq Below(parent(c))
  BY <1>1, <1>6, BelowNested
<1> QED BY <1>1, <1>4, <1>5, <1>7

LEMMA SiblingsApart ==
  ASSUME TreeShape, NEW c \in Node, NEW e \in Node, parent(c) = parent(e), c # e
  PROVE  c \notin Below(e) /\ e \notin Below(c)
<1>1. /\ parent(c) \notin Below(e) /\ parent(e) \notin Below(c)
      /\ c \in Below(e) => parent(c) \in Below(e)
      /\ e \in Below(c) => parent(e) \in Below(c)
  BY ParentAbove
<1> QED BY <1>1

(* A child of a node of the layer, and another node of the layer.           *)
LEMMA ChildApart ==
  ASSUME TreeShape, NEW c \in Node, NEW l \in 1..VRoot,
         parent(c) \notin Below(l), l \notin Below(parent(c))
  PROVE  c \notin Below(l) /\ l \notin Below(c)
<1>1. parent(c) \in 1..VRoot /\ Below(c) \subseteq Below(parent(c)) /\ c \in 1..VRoot
  BY ParentAbove
<1>2. l \notin Below(c)
  BY <1>1
<1>3. c \in Below(c)
  BY <1>1, BelowIs
<1>4. Below(parent(c)) \cap Below(l) = {}
  BY <1>1, BelowApart
<1> QED BY <1>1, <1>2, <1>3, <1>4

(* The child a node is below.                                               *)
LEMMA ChildAbove ==
  ASSUME TreeShape, NEW n \in 1..VRoot, NEW i \in Below(n), i # n
  PROVE  \E c \in Node : parent(c) = n /\ i \in Below(c)
<1> DEFINE T == {c \in Node : c \in Below(n) /\ c # n /\ i \in Below(c)}
           D == {n - c : c \in T}
<1>1. n \in Nat /\ i \in Node /\ i \in 1..VRoot
  BY BelowIs, NodeFacts
<1>2. i \in T
  BY <1>1, BelowIs
<1>3. \A c \in T : c \in Nat /\ c < n /\ c \in Node /\ c \in 1..VRoot
  BY BelowIs, NodeFacts
<1>4. D \in SUBSET Nat /\ D # {}
  BY <1>1, <1>2, <1>3
<1> HIDE DEF T
<1>5. PICK d \in D : \A e \in D : d <= e
  <2> HIDE DEF D
  <2> QED BY <1>4, Smallest
<1>6. PICK c \in T : d = n - c
  BY <1>5
<1>7. \A e \in T : e <= c
  <2> TAKE e \in T
  <2>1. n - e \in D
    OBVIOUS
  <2>2. n - c <= n - e
    BY <1>5, <1>6, <2>1
  <2> QED BY <1>1, <1>3, <2>2
<1>8. c \in Node /\ c \in Below(n) /\ c # n /\ i \in Below(c)
  BY <1>6 DEF T
<1>9. parent(c) \in Below(n) /\ i \in Below(parent(c))
  BY <1>8, ParentAbove
<1>10. parent(c) > c /\ parent(c) \in Nat /\ c \in Nat /\ parent(c) \in 1..VRoot
  BY <1>8, NodeFacts
<1>11. parent(c) \notin T
  BY <1>7, <1>10
<1>12. parent(c) = n
  <2>1. parent(c) # n => parent(c) \in Node
    BY <1>9, BelowIs
  <2> QED BY <1>9, <1>11, <2>1 DEF T
<1> QED BY <1>8, <1>12

(* Children X of the node n of the layer become subtrees.                   *)
Records(L, R, n, X) ==
  /\ L \in SUBSET (1..VRoot) /\ R \in SUBSET Node
  /\ AntiChain(L) /\ AntiChain(R) /\ Beside(L, R)
  /\ n \in L /\ X \in SUBSET {c \in Node : parent(c) = n}

LEMMA RecordKeeps ==
  ASSUME TreeShape, NEW L, NEW R, NEW n, NEW X, Records(L, R, n, X)
  PROVE  AntiChain(R \cup X) /\ Beside(L, R \cup X) /\ R \cup X \in SUBSET Node
<1> USE DEF Records
<1>1. ASSUME NEW c \in X
      PROVE  /\ c \in Node /\ parent(c) = n /\ n \notin Below(c)
             /\ \A l \in L : l \notin Below(c) /\ (c \in Below(l) => parent(c) = l)
  <2>1. c \in Node /\ parent(c) = n /\ n \notin Below(c)
    BY ParentAbove
  <2>2. ASSUME NEW l \in L, l # n
        PROVE  c \notin Below(l) /\ l \notin Below(c)
    <3>1. n \notin Below(l) /\ l \notin Below(n)
      BY <2>2 DEF AntiChain
    <3> QED BY <2>1, <3>1, ChildApart
  <2> QED BY <2>1, <2>2
<1>2. ASSUME NEW c \in X, NEW e \in R, c # e
      PROVE  c \notin Below(e) /\ e \notin Below(c)
  <2>1. c \in Node /\ parent(c) = n /\ e \in Node /\ n \in 1..VRoot
    BY <1>1
  <2>2. n \notin Below(e) /\ (e \in Below(n) => parent(e) = n)
    BY DEF Beside
  <2>3. c \notin Below(e)
    BY <1>2, <2>1, <2>2, ParentAbove, NodeFacts
  <2>4. ASSUME e \in Below(c) PROVE FALSE
    <3>1. e \in Below(n)
      BY <2>1, <2>4, ParentAbove
    <3>2. parent(e) = n
      BY <2>2, <3>1
    <3> QED BY <1>2, <2>1, <2>4, <3>2, SiblingsApart
  <2> QED BY <2>3, <2>4
<1>3. ASSUME NEW c \in X, NEW e \in X, c # e
      PROVE  c \notin Below(e)
  BY <1>1, <1>3, SiblingsApart
<1>4. AntiChain(R \cup X)
  BY <1>2, <1>3 DEF AntiChain
<1>5. Beside(L, R \cup X)
  BY <1>1 DEF Beside
<1>6. R \cup X \in SUBSET Node
  BY <1>1
<1> QED BY <1>4, <1>5, <1>6

(* The other children B take its place in the layer.                        *)
Descends(L, R, n, X, B, K, Q) ==
  /\ L \in SUBSET (1..VRoot) /\ R \in SUBSET Node /\ X \in SUBSET Node /\ B \in SUBSET Node
  /\ AntiChain(L) /\ AntiChain(R) /\ Beside(L, R) /\ Cut(L, R)
  /\ n \in L /\ \A c \in Node : parent(c) = n <=> c \in X \cup B
  /\ B # {} /\ B \cap (R \cup X) = {}
  /\ K = (L \ {n}) \cup B /\ Q = R \cup X

LEMMA DescendKeeps ==
  ASSUME TreeShape, NEW L, NEW R, NEW n, NEW X, NEW B, NEW K, NEW Q, Descends(L, R, n, X, B, K, Q)
  PROVE  K \in SUBSET (1..VRoot) /\ AntiChain(K) /\ Beside(K, Q) /\ Cut(K, Q)
<1> USE DEF Descends, Records
<1>1. /\ \A b \in B : b \in Node /\ b \in 1..VRoot /\ parent(b) = n /\ n \notin Below(b)
      /\ X \in SUBSET {c \in Node : parent(c) = n}
      /\ n \in 1..VRoot
  BY ParentAbove
<1>2. ASSUME NEW b \in B, NEW l \in L, l # n
      PROVE  b \notin Below(l) /\ l \notin Below(b)
  <2>1. n \notin Below(l) /\ l \notin Below(n)
    BY <1>2 DEF AntiChain
  <2> QED BY <1>1, <2>1, ChildApart
<1>3. K \in SUBSET (1..VRoot)
  BY <1>1
<1>4. AntiChain(K)
  <2>1. ASSUME NEW b \in B, NEW e \in B, b # e PROVE b \notin Below(e)
    BY <1>1, <2>1, SiblingsApart
  <2> QED BY <1>2, <2>1 DEF AntiChain
<1>5. Beside(L, R \cup X)
  <2>1. Records(L, R, n, X)
    BY <1>1
  <2> HIDE DEF Descends, Records
  <2> QED BY <2>1, RecordKeeps
<1>6. ASSUME NEW b \in B, NEW e \in R \cup X
      PROVE  b \notin Below(e) /\ e \notin Below(b)
  <2>1. b # e /\ e \in Node /\ b \in Node /\ parent(b) = n
    BY <1>1
  <2>2. n \notin Below(e) /\ (e \in Below(n) => parent(e) = n)
    BY <1>5 DEF Beside
  <2>3. b \notin Below(e)
    BY <2>1, <2>2, ParentAbove, NodeFacts
  <2>4. ASSUME e \in Below(b) PROVE FALSE
    <3>1. e \in Below(n)
      BY <2>1, <2>4, ParentAbove
    <3> QED BY <2>1, <2>2, <2>4, <3>1, SiblingsApart
  <2> QED BY <2>3, <2>4
<1>7. Beside(K, R \cup X)
  BY <1>5, <1>6 DEF Beside
<1>8. Cut(K, R \cup X)
  <2> SUFFICES ASSUME NEW i \in Node, \A c \in R \cup X : i \notin Below(c)
               PROVE  \E l \in K : i \in Below(l) \/ l \in Below(i)
    BY DEF Cut
  <2>1. PICK l \in L : i \in Below(l) \/ l \in Below(i)
    BY DEF Cut
  <2>2. CASE l # n
    BY <2>1, <2>2
  <2>3. PICK b \in B : TRUE
    OBVIOUS
  <2>4. b \in Below(n)
    BY <1>1, ChildBelow
  <2>5. CASE l = n /\ n \in Below(i)
    <3>1. i \in 1..VRoot
      BY NodeFacts
    <3>2. b \in Below(i)
      BY <2>4, <2>5, <3>1, BelowNested
    <3> QED BY <3>2
  <2>6. CASE l = n /\ i \in Below(n) /\ i # n
    <3>1. PICK c \in Node : parent(c) = n /\ i \in Below(c)
      BY <1>1, <2>6, ChildAbove
    <3>2. c \in B
      BY <3>1
    <3> QED BY <3>1, <3>2
  <2>7. CASE l = n /\ i = n
    BY <2>4, <2>7
  <2> QED BY <2>1, <2>2, <2>5, <2>6, <2>7
<1> QED BY <1>3, <1>4, <1>7, <1>8

(* The marks of one more subtree.                                           *)
LEMMA FlagMarks ==
  ASSUME TreeShape, NEW R \in SUBSET Node, NEW c \in Node, AntiChain(R \cup {c}),
         NEW m, Marked(m, R)
  PROVE  Marked(Flag(m, tree.least_desc[c], c), R \cup {c})
<1> DEFINE a == tree.least_desc[c]
           f == Flag(m, a, c)
<1>1. a \in Node /\ m \in [Node -> Int] /\ c \in 1..VRoot /\ a \in 1..c
  <2>1. c \in 1..VRoot
    BY NodeFacts
  <2>2. a \in 1..c
    BY <2>1, BelowIs
  <2>3. a \in Node
    BY <2>2, NodeFacts DEF Node
  <2> QED BY <2>1, <2>2, <2>3 DEF Marked
<1>2. Below(c) = a..c /\ c \in Below(c)
  BY <1>1, BelowIs DEF Below
<1> HIDE DEF a
<1>3. /\ f \in [Node -> Int]
      /\ \A i \in a..c : f[i] = IF i = c THEN 1 ELSE -c
      /\ \A i \in Node : i \notin a..c => f[i] = m[i] \/ i = c
  BY <1>1, FlagIs
<1> HIDE DEF f
<1>4. \A i \in Below(c) : f[i] = IF i = c THEN 1 ELSE -c
  BY <1>2, <1>3
<1>5. \A i \in Node : i \notin Below(c) => f[i] = m[i]
  BY <1>2, <1>3
<1>6. ASSUME NEW e \in R, e # c, NEW i \in Below(e)
      PROVE  f[i] = IF i = e THEN 1 ELSE -e
  <2>1. e \notin Below(c) /\ c \notin Below(e)
    BY <1>6 DEF AntiChain
  <2>2. e \in Node /\ e \in 1..VRoot
    BY NodeFacts
  <2>3. i \notin Below(c)
    BY <1>1, <2>1, <2>2, BelowApart
  <2>4. i \in Node
    BY <2>2, BelowIs
  <2>5. f[i] = m[i]
    BY <1>5, <2>3, <2>4
  <2> QED BY <2>5 DEF Marked
<1>7. ASSUME NEW i \in Node, \A e \in R \cup {c} : i \notin Below(e)
      PROVE  f[i] = 0
  BY <1>5, <1>7 DEF Marked
<1>8. \A e \in R \cup {c} : \A i \in Below(e) : f[i] = IF i = e THEN 1 ELSE -e
  BY <1>4, <1>6
<1>9. Marked(f, R \cup {c})
  BY <1>3, <1>7, <1>8 DEF Marked
<1> QED BY <1>9 DEF f, a

-----------------------------------------------------------------------------
(* The heapsort of the layer. Sorting moves the elements and nothing else.  *)

Perms(N) == {q \in [1..N -> 1..N] : /\ \A x, y \in 1..N : x # y => q[x] # q[y]
                                    /\ \A y \in 1..N : \E x \in 1..N : q[x] = y}

(* b has the elements of a, those outside lo..hi where they were.           *)
Shuffles(b, a, N, lo, hi) ==
  \E q \in Perms(N) : /\ \A x \in 1..N : x \notin lo..hi => q[x] = x
                      /\ \A x \in 1..N : b[x] = a[q[x]]

Arrays(N) == [1..N -> 1..VRoot]

LEMMA SameShuffles ==
  ASSUME NEW N \in Nat, NEW a, NEW lo, NEW hi
  PROVE  Shuffles(a, a, N, lo, hi)
<1> DEFINE q == [x \in 1..N |-> x]
<1>1. q \in Perms(N) /\ \A x \in 1..N : q[x] = x
  BY DEF Perms
<1> HIDE DEF q
<1> QED BY <1>1 DEF Shuffles

LEMMA ShufflesTwice ==
  ASSUME NEW N \in Nat, NEW a, NEW b, NEW c, NEW lo \in Int, NEW hi \in Int,
         NEW l \in Int, NEW h \in Int,
         Shuffles(c, b, N, l, h), Shuffles(b, a, N, lo, hi), lo <= l, h <= hi
  PROVE  Shuffles(c, a, N, lo, hi)
<1>1. PICK q \in Perms(N) : /\ \A x \in 1..N : x \notin l..h => q[x] = x
                            /\ \A x \in 1..N : c[x] = b[q[x]]
  BY DEF Shuffles
<1>2. PICK r \in Perms(N) : /\ \A x \in 1..N : x \notin lo..hi => r[x] = x
                            /\ \A x \in 1..N : b[x] = a[r[x]]
  BY DEF Shuffles
<1> DEFINE s == [x \in 1..N |-> r[q[x]]]
<1>3. \A x \in 1..N : q[x] \in 1..N /\ r[x] \in 1..N
  BY DEF Perms
<1>4. s \in Perms(N)
  <2>1. s \in [1..N -> 1..N]
    BY <1>3
  <2>2. \A x, y \in 1..N : x # y => s[x] # s[y]
    BY <1>3 DEF Perms
  <2>3. \A y \in 1..N : \E x \in 1..N : s[x] = y
    <3> TAKE y \in 1..N
    <3>1. PICK z \in 1..N : r[z] = y
      BY DEF Perms
    <3>2. PICK x \in 1..N : q[x] = z
      BY DEF Perms
    <3> QED BY <3>1, <3>2
  <2> HIDE DEF s
  <2> QED BY <2>1, <2>2, <2>3 DEF Perms
<1>5. \A x \in 1..N : x \notin lo..hi => s[x] = x
  <2> TAKE x \in 1..N
  <2>1. x \notin lo..hi => x \notin l..h
    OBVIOUS
  <2> QED BY <1>1, <1>2, <2>1
<1>6. \A x \in 1..N : c[x] = a[s[x]]
  BY <1>1, <1>2, <1>3
<1> HIDE DEF s
<1> QED BY <1>4, <1>5, <1>6 DEF Shuffles

Swap(N, i, j) == [x \in 1..N |-> IF x = i THEN j ELSE IF x = j THEN i ELSE x]

LEMMA SwapIs ==
  ASSUME NEW N \in Nat, NEW i \in 1..N, NEW j \in 1..N
  PROVE  /\ Swap(N, i, j) \in Perms(N)
         /\ \A x \in 1..N : Swap(N, i, j)[x] = IF x = i THEN j ELSE IF x = j THEN i ELSE x
<1> DEFINE q == Swap(N, i, j)
<1>1. \A x \in 1..N : q[x] = IF x = i THEN j ELSE IF x = j THEN i ELSE x
  BY DEF Swap
<1>2. q \in [1..N -> 1..N]
  BY DEF Swap
<1> HIDE DEF q
<1>3. \A x, y \in 1..N : x # y => q[x] # q[y]
  BY <1>1
<1>4. \A y \in 1..N : \E x \in 1..N : q[x] = y
  <2> TAKE y \in 1..N
  <2>1. q[i] = j /\ q[j] = i /\ (y # i /\ y # j => q[y] = y)
    BY <1>1
  <2> QED BY <2>1
<1> QED BY <1>1, <1>2, <1>3, <1>4 DEF Perms, q

LEMMA SwapAtShuffles ==
  ASSUME NEW N \in Nat, NEW a \in Arrays(N), NEW i \in 1..N, NEW j \in i..N
  PROVE  /\ SwapAt(a, i, j) \in Arrays(N) /\ Shuffles(SwapAt(a, i, j), a, N, i, j)
         /\ SwapAt(a, i, j)[i] = a[j] /\ SwapAt(a, i, j)[j] = a[i]
         /\ \A x \in 1..N : x # i /\ x # j => SwapAt(a, i, j)[x] = a[x]
<1> DEFINE b == SwapAt(a, i, j)
<1>1. j \in 1..N
  OBVIOUS
<1>2. b \in Arrays(N)
  BY <1>1 DEF SwapAt, Arrays
<1>3. \A x \in 1..N : b[x] = IF x = j THEN a[i] ELSE IF x = i THEN a[j] ELSE a[x]
  BY <1>1 DEF SwapAt, Arrays
<1> HIDE DEF b
<1>4. /\ Swap(N, i, j) \in Perms(N)
      /\ \A x \in 1..N : Swap(N, i, j)[x] = IF x = i THEN j ELSE IF x = j THEN i ELSE x
  BY <1>1, SwapIs
<1>5. \A x \in 1..N : x \notin i..j => Swap(N, i, j)[x] = x
  BY <1>1, <1>4
<1>6. \A x \in 1..N : b[x] = a[Swap(N, i, j)[x]]
  BY <1>1, <1>3, <1>4
<1>7. Shuffles(b, a, N, i, j)
  BY <1>4, <1>5, <1>6 DEF Shuffles
<1> QED BY <1>1, <1>2, <1>3, <1>7 DEF b

(* An element at t moves up to i, and what goes down enters at t instead.   *)
LEMMA ShuffleDown ==
  ASSUME NEW N \in Nat, NEW a \in Arrays(N), NEW e \in 1..VRoot, NEW last \in 1..N,
         NEW i \in 1..last, NEW t \in 1..last, i < t,
         NEW q \in Arrays(N), Shuffles(q, [a EXCEPT ![t] = e], N, t, last)
  PROVE  Shuffles([q EXCEPT ![i] = a[t]], [a EXCEPT ![i] = e], N, i, last)
<1> DEFINE u == [a EXCEPT ![t] = e]
           b == [a EXCEPT ![i] = e]
           p == [q EXCEPT ![i] = a[t]]
<1>1. i \in 1..N /\ t \in 1..N
  OBVIOUS
<1>2. /\ \A x \in 1..N : u[x] = IF x = t THEN e ELSE a[x]
      /\ \A x \in 1..N : b[x] = IF x = i THEN e ELSE a[x]
      /\ \A x \in 1..N : p[x] = IF x = i THEN a[t] ELSE q[x]
  BY DEF Arrays
<1>3. PICK r \in Perms(N) : /\ \A x \in 1..N : x \notin t..last => r[x] = x
                            /\ \A x \in 1..N : q[x] = u[r[x]]
  BY DEF Shuffles
<1> HIDE DEF u, b, p
<1> DEFINE s == [x \in 1..N |-> Swap(N, i, t)[r[x]]]
<1>4. /\ Swap(N, i, t) \in Perms(N)
      /\ \A x \in 1..N : Swap(N, i, t)[x] = IF x = i THEN t ELSE IF x = t THEN i ELSE x
  BY <1>1, SwapIs
<1>5. /\ r \in [1..N -> 1..N]
      /\ \A x, y \in 1..N : x # y => r[x] # r[y]
      /\ \A y \in 1..N : \E x \in 1..N : r[x] = y
  BY DEF Perms
<1>6. \A x \in 1..N : s[x] = IF r[x] = i THEN t ELSE IF r[x] = t THEN i ELSE r[x]
  BY <1>4, <1>5
<1>7. s \in Perms(N)
  <2>1. s \in [1..N -> 1..N]
    BY <1>4, <1>5 DEF Perms
  <2>2. ASSUME NEW x \in 1..N, NEW y \in 1..N, x # y
        PROVE  s[x] # s[y]
    <3>1. r[x] \in 1..N /\ r[y] \in 1..N /\ r[x] # r[y]
      BY <1>5, <2>2
    <3> QED BY <1>6, <3>1
  <2>3. \A y \in 1..N : \E x \in 1..N : s[x] = y
    <3> TAKE y \in 1..N
    <3>1. PICK z \in 1..N : Swap(N, i, t)[z] = y
      BY <1>4 DEF Perms
    <3>2. PICK x \in 1..N : r[x] = z
      BY <1>5
    <3> QED BY <3>1, <3>2
  <2> HIDE DEF s
  <2> QED BY <2>1, <2>2, <2>3 DEF Perms
<1> HIDE DEF s
<1>8. r[i] = i
  BY <1>1, <1>3
<1>9. ASSUME NEW x \in 1..N, x \notin i..last
      PROVE  s[x] = x
  <2>1. x \notin t..last /\ x # i /\ x # t
    BY <1>9
  <2> QED BY <1>3, <1>6, <2>1
<1>10. ASSUME NEW x \in 1..N
       PROVE  p[x] = b[s[x]]
  <2>1. CASE x = i
    <3>1. s[x] = t
      BY <1>6, <1>8, <2>1
    <3> QED BY <1>1, <1>2, <2>1, <3>1
  <2>2. CASE x # i
    <3>1. r[x] # i /\ r[x] \in 1..N
      BY <1>1, <1>5, <1>8, <2>2
    <3>2. p[x] = u[r[x]]
      BY <1>2, <1>3, <2>2
    <3>3. CASE r[x] = t
      BY <1>1, <1>2, <1>6, <3>1, <3>2, <3>3
    <3>4. CASE r[x] # t
      BY <1>2, <1>6, <3>1, <3>2, <3>4
    <3> QED BY <3>3, <3>4
  <2> QED BY <2>1, <2>2
<1>11. Shuffles(p, b, N, i, last)
  BY <1>7, <1>9, <1>10 DEF Shuffles
<1> QED BY <1>11 DEF p, b

-----------------------------------------------------------------------------
(* pushdown: the elements are moved, and the heap grows by its root.        *)

HeapedFrom(a, lo, hi) ==
  \A x, y \in lo..hi : y = 2 * x \/ y = 2 * x + 1 => key(a, y) <= key(a, x)

(* The larger of the children of i.                                         *)
Test(a, i, last) ==
  IF 2 * i < last /\ key(a, 2 * i + 1) > key(a, 2 * i) THEN 2 * i + 1 ELSE 2 * i

LEMMA KeyIs ==
  ASSUME WeightsOK, NEW N \in Nat, NEW a \in Arrays(N), NEW x \in 1..N
  PROVE  key(a, x) \in Int
<1>1. a[x] \in 1..VRoot
  BY DEF Arrays
<1>2. tree.weight[a[x]] \in Nat
  BY <1>1 DEF WeightsOK
<1> QED BY <1>2 DEF key

LEMMA TestIs ==
  ASSUME WeightsOK, NEW N \in Nat, NEW a \in Arrays(N), NEW last \in 1..N, NEW i \in 1..last,
         2 * i <= last
  PROVE  LET t == Test(a, i, last) IN
         /\ t \in 1..last /\ t > i /\ (t = 2 * i \/ t = 2 * i + 1)
         /\ \A y \in 1..last : y = 2 * i \/ y = 2 * i + 1 => key(a, y) <= key(a, t)
<1> DEFINE t == Test(a, i, last)
<1>1. \A x \in 1..N : key(a, x) \in Int
  BY KeyIs
<1>2. 2 * i \in 1..last /\ last \in Nat /\ i \in Nat /\ i > 0
  OBVIOUS
<1>3. t = 2 * i \/ (t = 2 * i + 1 /\ 2 * i < last)
  BY DEF Test
<1>4. t \in 1..last /\ t > i
  BY <1>2, <1>3
<1>5. ASSUME NEW y \in 1..last, y = 2 * i \/ y = 2 * i + 1
      PROVE  key(a, y) <= key(a, t)
  <2>1. y \in 1..N /\ t \in 1..N /\ 2 * i \in 1..N
    BY <1>2, <1>4
  <2>2. y = 2 * i + 1 => 2 * i < last
    BY <1>2
  <2>3. CASE t = 2 * i + 1
    BY <1>1, <1>5, <2>1, <2>2, <2>3 DEF Test
  <2>4. CASE t = 2 * i
    <3>1. 2 * i + 1 # 2 * i
      BY <1>2
    <3>2. y = 2 * i + 1 => ~ (key(a, y) > key(a, 2 * i))
      BY <2>2, <2>4, <3>1 DEF Test
    <3> QED BY <1>1, <1>5, <2>1, <2>4, <3>2
  <2> QED BY <1>3, <2>3, <2>4
<1> QED BY <1>3, <1>4, <1>5

(* The recursion of pushdown, and that there is a function it defines.      *)
Stops(a, root, last, i) == 2 * i > last \/ key(a, Test(a, i, last)) <= key(a, root)

Pushing(g, a, root, last) ==
  g = [i \in root..last |->
         IF Stops(a, root, last, i) THEN [a EXCEPT ![i] = a[root]]
         ELSE [g[Test(a, i, last)] EXCEPT ![i] = a[Test(a, i, last)]]]

LEMMA PushingExists ==
  ASSUME WeightsOK, NEW N \in Nat, NEW a \in Arrays(N), NEW last \in 1..N, NEW root \in 1..last
  PROVE  \E g : Pushing(g, a, root, last)
<1> DEFINE M == last - root + 1
           C == [j \in 1..M |-> IF Stops(a, root, last, last + 1 - j) THEN {}
                                ELSE {last + 1 - Test(a, last + 1 - j, last)}]
           V == Arrays(N)
           F == [j \in 1..M |-> [f \in [C[j] -> V] |->
                   IF Stops(a, root, last, last + 1 - j) THEN [a EXCEPT ![last + 1 - j] = a[root]]
                   ELSE [f[last + 1 - Test(a, last + 1 - j, last)]
                           EXCEPT ![last + 1 - j] = a[Test(a, last + 1 - j, last)]]]]
<1>1. M \in Nat /\ last \in Nat /\ root \in Nat /\ root > 0 /\ root <= last
  OBVIOUS
<1>2. \A j \in 1..M : last + 1 - j \in root..last /\ last + 1 - j \in 1..last /\ last + 1 - j \in 1..N
  BY <1>1
<1>3. \A i \in root..last : last + 1 - i \in 1..M /\ last + 1 - (last + 1 - i) = i
  BY <1>1
<1> HIDE DEF M
<1>4. ASSUME NEW j \in 1..M, ~ Stops(a, root, last, last + 1 - j)
      PROVE  /\ Test(a, last + 1 - j, last) \in 1..last
             /\ last + 1 - Test(a, last + 1 - j, last) \in 1..(j - 1)
  <2> DEFINE i == last + 1 - j
             t == Test(a, i, last)
  <2>1. i \in 1..last /\ i = last + 1 - j /\ j \in Int /\ j <= M /\ last \in Int
    BY <1>1, <1>2
  <2>2. 2 * i <= last
    BY <1>4, <2>1 DEF Stops
  <2> HIDE DEF i
  <2>3. t \in 1..last /\ t > i
    BY <2>1, <2>2, TestIs
  <2> HIDE DEF t
  <2>4. last + 1 - t \in 1..(j - 1)
    BY <2>1, <2>3
  <2> QED BY <2>3, <2>4 DEF t, i
<1>5. \A j \in 1..M : C[j] \in SUBSET (1..(j - 1))
  BY <1>4
<1>6. \A j \in 1..M : F[j] \in [[C[j] -> V] -> V]
  <2> TAKE j \in 1..M
  <2> DEFINE i == last + 1 - j
             t == Test(a, i, last)
             s == Stops(a, root, last, i)
  <2>1. i \in 1..N /\ a[root] \in 1..VRoot
    <3>1. root \in 1..N
      BY <1>1
    <3> HIDE DEF F, C
    <3> QED BY <1>2, <3>1 DEF Arrays
  <2>2. ASSUME NEW f \in [C[j] -> V]
        PROVE  (IF s THEN [a EXCEPT ![i] = a[root]] ELSE [f[last + 1 - t] EXCEPT ![i] = a[t]]) \in V
    <3>1. CASE s
      <4> HIDE DEF i, t
      <4> QED BY <2>1, <3>1 DEF Arrays
    <3>2. CASE ~ s
      <4>1. t \in 1..N /\ C[j] = {last + 1 - t}
        BY <1>4, <3>2
      <4>2. f[last + 1 - t] \in V /\ a[t] \in 1..VRoot
        BY <2>2, <4>1 DEF Arrays
      <4> DEFINE q == f[last + 1 - t]
                 e == a[t]
      <4>3. q \in V /\ e \in 1..VRoot
        BY <4>2
      <4> HIDE DEF q, e, t, i
      <4>4. [q EXCEPT ![i] = e] \in V
        BY <2>1, <4>3 DEF Arrays
      <4> QED BY <3>2, <4>4 DEF q, e
    <3> QED BY <3>1, <3>2
  <2>3. F[j] = [f \in [C[j] -> V] |-> IF s THEN [a EXCEPT ![i] = a[root]]
                                      ELSE [f[last + 1 - t] EXCEPT ![i] = a[t]]]
    OBVIOUS
  <2> HIDE DEF F, C, V, i, t, s
  <2> QED BY <2>2, <2>3
<1>7. PICK h \in [1..M -> V] : \A j \in 1..M : h[j] = F[j][[c \in C[j] |-> h[c]]]
  <2> HIDE DEF C, F, V
  <2>1. Rules(M, C, V, F)
    BY <1>5, <1>6 DEF Rules
  <2>2. \E h : Course(M, h, C, V, F)
    BY <1>1, <2>1, CourseExists
  <2> QED BY <2>2 DEF Course
<1>8. \A j \in 1..M : [c \in C[j] |-> h[c]] \in [C[j] -> V]
  <2> TAKE j \in 1..M
  <2>1. \A c \in C[j] : c \in 1..M
    BY <1>1, <1>5
  <2> HIDE DEF C, V
  <2> QED BY <1>7, <2>1
<1> DEFINE g == [i \in root..last |-> h[last + 1 - i]]
<1>9. ASSUME NEW i \in root..last
      PROVE  g[i] = IF Stops(a, root, last, i) THEN [a EXCEPT ![i] = a[root]]
                    ELSE [g[Test(a, i, last)] EXCEPT ![i] = a[Test(a, i, last)]]
  <2> DEFINE j == last + 1 - i
             f == [c \in C[j] |-> h[c]]
             t == Test(a, i, last)
  <2>1. j \in 1..M /\ last + 1 - j = i
    BY <1>3
  <2>2. g[i] = F[j][f] /\ f \in [C[j] -> V]
    BY <1>7, <1>8, <2>1
  <2> HIDE DEF f
  <2>3. F[j][f] = IF Stops(a, root, last, last + 1 - j) THEN [a EXCEPT ![last + 1 - j] = a[root]]
                  ELSE [f[last + 1 - Test(a, last + 1 - j, last)]
                          EXCEPT ![last + 1 - j] = a[Test(a, last + 1 - j, last)]]
    BY <2>1, <2>2
  <2>4. CASE Stops(a, root, last, i)
    BY <2>1, <2>2, <2>3, <2>4
  <2>5. CASE ~ Stops(a, root, last, i)
    <3>1. i \in 1..last /\ 2 * i <= last
      BY <1>1, <2>5 DEF Stops
    <3>2. t \in 1..last /\ t > i
      BY <3>1, TestIs
    <3>3. t \in root..last
      BY <1>1, <3>2
    <3>4. g[t] = h[last + 1 - t]
      BY <3>3
    <3>5. f[last + 1 - t] = h[last + 1 - t]
      BY <2>1, <2>5 DEF f
    <3> HIDE DEF g, F, C, V, M
    <3> QED BY <2>1, <2>2, <2>3, <2>5, <3>4, <3>5
  <2> QED BY <2>4, <2>5
<1>10. g = [i \in root..last |-> g[i]]
  OBVIOUS
<1> HIDE DEF g, F, C, V, M
<1> DEFINE W(i) == IF Stops(a, root, last, i) THEN [a EXCEPT ![i] = a[root]]
                   ELSE [g[Test(a, i, last)] EXCEPT ![i] = a[Test(a, i, last)]]
<1>11. \A i \in root..last : g[i] = W(i)
  BY <1>9
<1>12. g = [i \in root..last |-> W(i)]
  <2> HIDE DEF W
  <2> QED BY <1>10, <1>11
<1>13. Pushing(g, a, root, last)
  BY <1>12 DEF Pushing
<1> QED BY <1>13

LEMMA PushDownPushes ==
  ASSUME WeightsOK, NEW N \in Nat, NEW a \in Arrays(N), NEW last \in 1..N, NEW root \in 1..last
  PROVE  \E g : Pushing(g, a, root, last) /\ PushDown(root, last, a) = g[root]
<1> DEFINE g == CHOOSE g : Pushing(g, a, root, last)
<1>1. Pushing(g, a, root, last)
  BY PushingExists
<1>2. PushDown(root, last, a) = g[root]
  BY DEF PushDown, Pushing, Stops, Test
<1> HIDE DEF g
<1> QED BY <1>1, <1>2

(* What the element of the root has become, filled in at place i.           *)
Pushed(p, a, root, last, i, N) ==
  /\ p \in Arrays(N)
  /\ Shuffles(p, [a EXCEPT ![i] = a[root]], N, i, last)
  /\ \A x \in 1..N : x # i /\ (x < 2 * i \/ x > last) => p[x] = a[x]
  /\ HeapedFrom(a, root + 1, last) =>
       /\ HeapedFrom(p, i, last)
       /\ i > root /\ key(a, root) <= key(a, i) => key(p, i) <= key(a, i)

LEMMA KeySame ==
  ASSUME NEW a, NEW b, NEW x, NEW y, a[x] = b[y]
  PROVE  key(a, x) = key(b, y)
BY DEF key

LEMMA PushStops ==
  ASSUME WeightsOK, NEW N \in Nat, NEW a \in Arrays(N), NEW last \in 1..N, NEW root \in 1..last,
         NEW i \in root..last, Stops(a, root, last, i)
  PROVE  Pushed([a EXCEPT ![i] = a[root]], a, root, last, i, N)
<1> DEFINE p == [a EXCEPT ![i] = a[root]]
<1>1. i \in 1..last /\ i \in 1..N /\ root \in 1..N /\ last \in Nat /\ root \in Nat
  OBVIOUS
<1>2. p \in Arrays(N) /\ \A x \in 1..N : p[x] = IF x = i THEN a[root] ELSE a[x]
  BY <1>1 DEF Arrays
<1>3. Shuffles(p, p, N, i, last)
  BY SameShuffles
<1> HIDE DEF p
<1>4. key(p, i) = key(a, root) /\ \A x \in 1..N : x # i => key(p, x) = key(a, x)
  BY <1>1, <1>2, KeySame
<1>5. \A x \in 1..N : key(a, x) \in Int
  BY KeyIs
<1>6. ASSUME HeapedFrom(a, root + 1, last)
      PROVE  HeapedFrom(p, i, last)
  <2> SUFFICES ASSUME NEW x \in i..last, NEW y \in i..last, y = 2 * x \/ y = 2 * x + 1
               PROVE  key(p, y) <= key(p, x)
    BY DEF HeapedFrom
  <2>1. x \in 1..N /\ y \in 1..N /\ y > x /\ y # i /\ 2 * x <= last
    BY <1>1
  <2>2. CASE x = i
    <3> DEFINE t == Test(a, i, last)
    <3>1. t \in 1..last /\ key(a, y) <= key(a, t)
      BY <1>1, <2>1, <2>2, TestIs
    <3>2. key(a, t) <= key(a, root)
      BY <2>1, <2>2 DEF Stops
    <3>3. t \in 1..N
      BY <3>1
    <3> HIDE DEF t
    <3> QED BY <1>1, <1>4, <1>5, <2>1, <2>2, <3>1, <3>2, <3>3
  <2>3. CASE x # i
    <3>1. x \in (root + 1)..last /\ y \in (root + 1)..last
      BY <1>1, <2>1, <2>3
    <3>2. key(a, y) <= key(a, x)
      BY <1>6, <3>1 DEF HeapedFrom
    <3> QED BY <1>4, <2>1, <2>3, <3>2
  <2> QED BY <2>2, <2>3
<1>7. Pushed(p, a, root, last, i, N)
  BY <1>2, <1>3, <1>4, <1>6 DEF Pushed, p
<1> QED BY <1>7 DEF p

LEMMA PushMoves ==
  ASSUME WeightsOK, NEW N \in Nat, NEW a \in Arrays(N), NEW last \in 1..N, NEW root \in 1..last,
         NEW i \in root..last, ~ Stops(a, root, last, i),
         NEW q, Pushed(q, a, root, last, Test(a, i, last), N)
  PROVE  Pushed([q EXCEPT ![i] = a[Test(a, i, last)]], a, root, last, i, N)
<1> DEFINE t == Test(a, i, last)
           p == [q EXCEPT ![i] = a[t]]
<1>1. i \in 1..last /\ i \in 1..N /\ root \in 1..N /\ last \in Nat /\ root \in Nat /\ root <= i
  OBVIOUS
<1>2. 2 * i <= last /\ ~ (key(a, t) <= key(a, root))
  BY <1>1 DEF Stops
<1>3. /\ t \in 1..last /\ t > i /\ (t = 2 * i \/ t = 2 * i + 1)
      /\ \A y \in 1..last : y = 2 * i \/ y = 2 * i + 1 => key(a, y) <= key(a, t)
  BY <1>1, <1>2, TestIs
<1>4. Pushed(q, a, root, last, t, N)
  OBVIOUS
<1> HIDE DEF t
<1>5. t \in 1..N /\ a[t] \in 1..VRoot /\ a[root] \in 1..VRoot
  BY <1>1, <1>3 DEF Arrays
<1>6. q \in Arrays(N)
  BY <1>4 DEF Pushed
<1>7. p \in Arrays(N) /\ \A x \in 1..N : p[x] = IF x = i THEN a[t] ELSE q[x]
  BY <1>1, <1>5, <1>6 DEF Arrays
<1>8. Shuffles(p, [a EXCEPT ![i] = a[root]], N, i, last)
  <2>1. Shuffles(q, [a EXCEPT ![t] = a[root]], N, t, last)
    BY <1>4 DEF Pushed
  <2> DEFINE e == a[root]
  <2>2. e \in 1..VRoot /\ Shuffles(q, [a EXCEPT ![t] = e], N, t, last)
    BY <1>5, <2>1
  <2> HIDE DEF e
  <2>3. Shuffles([q EXCEPT ![i] = a[t]], [a EXCEPT ![i] = e], N, i, last)
    BY <1>1, <1>3, <1>6, <2>2, ShuffleDown
  <2> QED BY <2>3 DEF e
<1> HIDE DEF p
<1>9. \A x \in 1..N : x # t /\ (x < 2 * t \/ x > last) => q[x] = a[x]
  BY <1>4 DEF Pushed
<1>10. ASSUME NEW x \in 1..N, x # i, x < 2 * i \/ x > last
       PROVE  p[x] = a[x]
  <2>1. x # t /\ (x < 2 * t \/ x > last)
    BY <1>1, <1>3, <1>10
  <2> QED BY <1>7, <1>9, <1>10, <2>1
<1>11. \A x \in 1..N : key(a, x) \in Int /\ key(q, x) \in Int /\ key(p, x) \in Int
  BY <1>6, <1>7, KeyIs
<1>12. key(p, i) = key(a, t) /\ \A x \in 1..N : x # i => key(p, x) = key(q, x)
  BY <1>1, <1>5, <1>7, KeySame
<1>13. \A x \in 1..N : x # t /\ (x < 2 * t \/ x > last) => key(q, x) = key(a, x)
  BY <1>9, KeySame
<1>14. ASSUME HeapedFrom(a, root + 1, last)
       PROVE  /\ HeapedFrom(p, i, last)
              /\ i > root /\ key(a, root) <= key(a, i) => key(p, i) <= key(a, i)
  <2>1. HeapedFrom(q, t, last) /\ (t > root /\ key(a, root) <= key(a, t) => key(q, t) <= key(a, t))
    BY <1>4, <1>14 DEF Pushed
  <2>2. key(q, t) <= key(a, t)
    BY <1>1, <1>2, <1>3, <1>5, <1>11, <2>1
  <2>3. ASSUME NEW x \in i..last, NEW y \in i..last, y = 2 * x \/ y = 2 * x + 1
        PROVE  key(p, y) <= key(p, x)
    <3>1. x \in 1..N /\ y \in 1..N /\ y > x /\ y # i /\ x \in 1..last /\ y \in 1..last
      BY <1>1, <2>3
    <3>2. CASE x = i
      <4>1. CASE y = t
        BY <1>12, <2>2, <3>1, <3>2, <4>1
      <4>2. CASE y # t
        <5>1. y < 2 * t
          BY <1>1, <1>3, <2>3, <3>2
        <5>2. key(p, y) = key(a, y) /\ key(a, y) <= key(a, t)
          BY <1>3, <1>12, <1>13, <2>3, <3>1, <3>2, <4>2, <5>1
        <5> QED BY <1>12, <3>2, <5>2
      <4> QED BY <4>1, <4>2
    <3>3. CASE x >= t
      <4>1. x \in t..last /\ y \in t..last /\ x # i
        BY <1>1, <1>3, <3>1, <3>3
      <4>2. key(q, y) <= key(q, x)
        BY <2>1, <2>3, <4>1 DEF HeapedFrom
      <4> QED BY <1>12, <3>1, <4>1, <4>2
    <3>4. CASE x # i /\ ~ (x >= t)
      <4>1. x # t /\ x < 2 * t /\ y # t /\ y < 2 * t
        BY <1>1, <1>3, <2>3, <3>1, <3>4
      <4>2. x \in (root + 1)..last /\ y \in (root + 1)..last
        BY <1>1, <3>1, <3>4, <2>3
      <4>3. key(a, y) <= key(a, x)
        BY <1>14, <2>3, <4>2 DEF HeapedFrom
      <4>4. key(p, x) = key(a, x) /\ key(p, y) = key(a, y)
        BY <1>12, <1>13, <3>1, <3>4, <4>1
      <4> QED BY <4>3, <4>4
    <3> QED BY <3>2, <3>3, <3>4
  <2>4. HeapedFrom(p, i, last)
    BY <2>3 DEF HeapedFrom
  <2>5. ASSUME i > root
        PROVE  key(p, i) <= key(a, i)
    <3>1. i \in (root + 1)..last /\ t \in (root + 1)..last
      BY <1>1, <1>3, <2>5
    <3>2. key(a, t) <= key(a, i)
      BY <1>3, <1>14, <3>1 DEF HeapedFrom
    <3> QED BY <1>12, <3>2
  <2> QED BY <2>4, <2>5
<1>15. Pushed(p, a, root, last, i, N)
  BY <1>7, <1>8, <1>10, <1>14 DEF Pushed
<1> QED BY <1>15 DEF p, t

LEMMA PushDownIs ==
  ASSUME WeightsOK, NEW N \in Nat, NEW a \in Arrays(N), NEW last \in 1..N, NEW root \in 1..last
  PROVE  LET p == PushDown(root, last, a) IN
         /\ p \in Arrays(N) /\ Shuffles(p, a, N, root, last)
         /\ HeapedFrom(a, root + 1, last) => HeapedFrom(p, root, last)
<1>1. PICK g : Pushing(g, a, root, last) /\ PushDown(root, last, a) = g[root]
  BY PushDownPushes
<1>2. \A i \in root..last :
         g[i] = IF Stops(a, root, last, i) THEN [a EXCEPT ![i] = a[root]]
                ELSE [g[Test(a, i, last)] EXCEPT ![i] = a[Test(a, i, last)]]
  BY <1>1 DEF Pushing
<1> DEFINE Bad == {i \in root..last : ~ Pushed(g[i], a, root, last, i, N)}
           D == {last - i : i \in Bad}
<1>3. last \in Nat /\ root \in Nat /\ root > 0 /\ root <= last
  OBVIOUS
<1>4. Bad = {}
  <2> SUFFICES ASSUME Bad # {} PROVE FALSE
    OBVIOUS
  <2>1. D \in SUBSET Nat /\ D # {}
    BY <1>3
  <2>2. PICK d \in D : \A e \in D : d <= e
    <3> HIDE DEF D
    <3> QED BY <2>1, Smallest
  <2>3. PICK i \in Bad : d = last - i
    BY <2>2
  <2>4. i \in root..last /\ ~ Pushed(g[i], a, root, last, i, N)
    OBVIOUS
  <2>5. ASSUME NEW t \in root..last, t > i
        PROVE  Pushed(g[t], a, root, last, t, N)
    <3>1. CASE t \in Bad
      <4>1. last - t \in D
        BY <3>1
      <4>2. last - i <= last - t
        BY <2>2, <2>3, <4>1
      <4> QED BY <1>3, <2>4, <2>5, <4>2
    <3>2. CASE t \notin Bad
      BY <3>2
    <3> QED BY <3>1, <3>2
  <2> HIDE DEF Bad, D
  <2>6. CASE Stops(a, root, last, i)
    <3>1. g[i] = [a EXCEPT ![i] = a[root]]
      BY <1>2, <2>4, <2>6
    <3> QED BY <2>4, <2>6, <3>1, PushStops
  <2>7. CASE ~ Stops(a, root, last, i)
    <3> DEFINE t == Test(a, i, last)
    <3>1. i \in 1..last /\ 2 * i <= last
      BY <1>3, <2>4, <2>7 DEF Stops
    <3>2. t \in 1..last /\ t > i
      BY <3>1, TestIs
    <3>3. t \in root..last
      BY <1>3, <2>4, <3>2
    <3>4. Pushed(g[t], a, root, last, t, N)
      BY <2>5, <3>2, <3>3
    <3>5. g[i] = [g[t] EXCEPT ![i] = a[t]]
      BY <1>2, <2>4, <2>7
    <3>6. Pushed([g[t] EXCEPT ![i] = a[t]], a, root, last, i, N)
      BY <2>4, <2>7, <3>4, PushMoves
    <3> QED BY <2>4, <3>5, <3>6
  <2> QED BY <2>6, <2>7
<1>5. root \in root..last
  BY <1>3
<1>6. Pushed(g[root], a, root, last, root, N)
  BY <1>4, <1>5
<1>7. [a EXCEPT ![root] = a[root]] = a
  BY <1>3 DEF Arrays
<1> HIDE DEF Bad, D
<1> QED BY <1>1, <1>6, <1>7 DEF Pushed

-----------------------------------------------------------------------------
(* The whole heapsort.                                                      *)

LEMMA HalfIs ==
  ASSUME NEW N \in Nat
  PROVE  N \div 2 \in Nat /\ 2 * (N \div 2) <= N /\ N <= 2 * (N \div 2) + 1
BY Z3

LEMMA SameEnd ==
  ASSUME NEW x \in Nat, NEW y \in Nat, 1..x = 1..y
  PROVE  x = y
<1>1. x # 0 => x \in 1..x
  OBVIOUS
<1>2. y # 0 => y \in 1..y
  OBVIOUS
<1>3. x <= y /\ y <= x
  BY <1>1, <1>2
<1> QED BY <1>3

LEMMA ArrayIs ==
  ASSUME NEW N \in Nat, NEW a \in Arrays(N)
  PROVE  a \in Seq(1..VRoot) /\ Len(a) = N
<1>1. a \in [1..N -> 1..VRoot]
  BY DEF Arrays
<1>2. a \in Seq(1..VRoot)
  BY <1>1, SeqDef
<1>3. Len(a) \in Nat /\ DOMAIN a = 1..Len(a) /\ DOMAIN a = 1..N
  BY <1>1, <1>2, LenProperties
<1>4. 1..Len(a) = 1..N
  BY <1>3
<1> QED BY <1>2, <1>3, <1>4, SameEnd

(* The sequence of the numbers up to n.                                     *)
LEMMA CountIs ==
  ASSUME NEW n \in Nat, NEW s, s = [k \in 1..n |-> k]
  PROVE  Len(s) = n /\ \A k \in 1..n : s[k] = k
<1>1. s \in [1..n -> Nat] /\ \A k \in 1..n : s[k] = k
  OBVIOUS
<1>2. s \in Seq(Nat)
  BY <1>1, SeqDef
<1>3. Len(s) \in Nat /\ DOMAIN s = 1..Len(s) /\ DOMAIN s = 1..n
  BY <1>1, <1>2, LenProperties
<1> QED BY <1>1, <1>3

LEMMA HeapIs ==
  ASSUME WeightsOK, NEW N \in Nat \ {0}, NEW array \in Arrays(N)
  PROVE  /\ Heap(array) \in Arrays(N) /\ Shuffles(Heap(array), array, N, 1, N)
         /\ HeapedFrom(Heap(array), 1, N)
<1> DEFINE seq == [k \in 1..(Len(array) \div 2) |-> k]
           n == Len(seq)
           m == N \div 2
           base == array
           Op(a, k) == PushDown(Len(array) \div 2 + 1 - k, Len(array), a)
           G(f) == [k \in 0..Len(seq) |->
                      IF k = 0 THEN base
                      ELSE CHOOSE r \in {Op(acc, seq[k]) : acc \in {f[k - 1]}} : TRUE]
           h == CHOOSE f : f = G(f)
           S == [k \in 0..n |-> {b \in Arrays(N) : /\ Shuffles(b, array, N, 1, N)
                                                   /\ HeapedFrom(b, m + 1 - k, N)}]
           F == [k \in 1..n |-> [acc \in S[k - 1] |-> Op(acc, seq[k])]]
<1>1. Heap(array) = h[n]
  BY DEF Heap, Fold
<1>2. Len(array) = N
  BY ArrayIs
<1>3. m \in Nat /\ 2 * m <= N /\ N <= 2 * m + 1
  BY HalfIs
<1>4. n = m /\ Len(seq) = n /\ n \in Nat /\ \A k \in 1..n : seq[k] = k
  <2>1. seq = [k \in 1..m |-> k]
    BY <1>2
  <2> HIDE DEF m, seq
  <2> QED BY <1>3, <2>1, CountIs
<1>5. \A a, k : Op(a, k) = PushDown(m + 1 - k, N, a)
  BY <1>2
<1> HIDE DEF seq, n, m
<1>6. base \in S[0]
  <2>1. HeapedFrom(base, m + 1 - 0, N)
    <3>1. \A x, y \in (m + 1)..N : y # 2 * x /\ y # 2 * x + 1
      BY <1>3
    <3>2. m + 1 - 0 = m + 1
      BY <1>3
    <3> QED BY <3>1, <3>2 DEF HeapedFrom
  <2>2. Shuffles(base, array, N, 1, N)
    BY SameShuffles
  <2> QED BY <1>4, <2>1, <2>2
<1>7. ASSUME NEW k \in 1..n, NEW acc \in S[k - 1]
      PROVE  Op(acc, seq[k]) \in S[k]
  <2> DEFINE root == m + 1 - k
             p == PushDown(root, N, acc)
  <2>1. root \in 1..N /\ N \in 1..N /\ root + 1 = m + 1 - (k - 1) /\ k - 1 \in 0..n /\ k \in 0..n
        /\ 1 <= root /\ root \in Int
    BY <1>3, <1>4
  <2>2. acc \in Arrays(N) /\ Shuffles(acc, array, N, 1, N) /\ HeapedFrom(acc, root + 1, N)
    BY <2>1
  <2>3. Op(acc, seq[k]) = p
    BY <1>4, <1>5
  <2> HIDE DEF root, Op
  <2>4. p \in Arrays(N) /\ Shuffles(p, acc, N, root, N) /\ HeapedFrom(p, root, N)
    BY <2>1, <2>2, PushDownIs
  <2> HIDE DEF p
  <2>5. Shuffles(p, array, N, 1, N)
    BY <2>1, <2>2, <2>4, ShufflesTwice
  <2>6. p \in S[k]
    BY <2>1, <2>4, <2>5 DEF root
  <2> QED BY <2>3, <2>6
<1>8. Steps(n, S, F)
  <2>1. \A k \in 1..n : F[k] \in [S[k - 1] -> S[k]]
    <3> HIDE DEF Op, S
    <3> QED BY <1>7
  <2> QED BY <2>1 DEF Steps
<1> HIDE DEF S
<1>9. \A k \in 1..n : \A acc \in S[k - 1] : F[k][acc] = Op(acc, seq[k])
  OBVIOUS
<1> HIDE DEF F, Op
<1>10. PICK g : Iterates(g, n, S, base, F)
  BY <1>4, <1>6, <1>8, IterateExists
<1>11. g = G(g)
  <2>1. /\ g = [k \in 0..n |-> g[k]] /\ g[0] = base
        /\ \A k \in 1..n : g[k] = F[k][g[k - 1]] /\ g[k - 1] \in S[k - 1]
    <3>1. \A k \in 1..n : k - 1 \in 0..n
      BY <1>4
    <3> QED BY <1>10, <3>1 DEF Iterates
  <2>2. \A k \in 1..n : g[k] = Op(g[k - 1], seq[k])
    BY <1>9, <2>1
  <2>3. ASSUME NEW k \in 0..n, k # 0
        PROVE  g[k] = CHOOSE r \in {Op(acc, seq[k]) : acc \in {g[k - 1]}} : TRUE
    <3>1. g[k] = Op(g[k - 1], seq[k])
      BY <1>4, <2>2, <2>3
    <3>2. {Op(acc, seq[k]) : acc \in {g[k - 1]}} = {g[k]}
      BY <3>1
    <3> QED BY <3>2
  <2> QED BY <1>4, <2>1, <2>3
<1>12. h = G(h)
  BY <1>11
<1> HIDE DEF h
<1>13. h[0] = base /\ \A k \in 1..n : h[k] = Op(h[k - 1], seq[k])
  <2>1. 0 \in 0..Len(seq) /\ h[0] = base
    BY <1>4, <1>12
  <2>2. ASSUME NEW k \in 1..n
        PROVE  h[k] = Op(h[k - 1], seq[k])
    <3>1. k \in 0..Len(seq) /\ k # 0
      BY <1>4
    <3>2. h[k] = CHOOSE r \in {Op(acc, seq[k]) : acc \in {h[k - 1]}} : TRUE
      BY <1>12, <3>1
    <3>3. {Op(acc, seq[k]) : acc \in {h[k - 1]}} = {Op(h[k - 1], seq[k])}
      OBVIOUS
    <3> QED BY <3>2, <3>3
  <2> QED BY <2>1, <2>2
<1>14. \A k \in 0..n : h[k] \in S[k]
  <2>1. h[0] = base /\ n \in Nat
    BY <1>4, <1>13
  <2>2. \A k \in 1..n : h[k - 1] \in S[k - 1] => h[k] = F[k][h[k - 1]]
    BY <1>9, <1>13
  <2> QED BY <1>6, <1>8, <2>1, <2>2, FoldSteps
<1>15. h[n] \in S[n]
  BY <1>4, <1>14
<1>16. m + 1 - n = 1
  BY <1>3, <1>4
<1> QED BY <1>1, <1>4, <1>15, <1>16 DEF S

LEMMA RootLargest ==
  ASSUME WeightsOK, NEW N \in Nat, NEW a \in Arrays(N), NEW last \in 1..N, HeapedFrom(a, 1, last),
         NEW x \in 1..last
  PROVE  key(a, x) <= key(a, 1)
<1> DEFINE Bad == {y \in 1..last : ~ (key(a, y) <= key(a, 1))}
<1>1. \A y \in 1..N : key(a, y) \in Int
  BY KeyIs
<1>2. Bad = {}
  <2> SUFFICES ASSUME Bad # {} PROVE FALSE
    OBVIOUS
  <2>1. Bad \in SUBSET Nat
    OBVIOUS
  <2>2. PICK y \in Bad : \A z \in Bad : y <= z
    <3> HIDE DEF Bad
    <3> QED BY <2>1, Smallest
  <2>3. y \in 1..last /\ ~ (key(a, y) <= key(a, 1))
    OBVIOUS
  <2>4. 1 \in 1..N /\ y # 1
    BY <1>1, <2>3
  <2> DEFINE z == y \div 2
  <2>5. z \in Nat /\ 2 * z <= y /\ y <= 2 * z + 1
    BY <2>3, HalfIs
  <2> HIDE DEF z
  <2>6. z \in 1..last /\ z < y /\ (y = 2 * z \/ y = 2 * z + 1)
    BY <2>3, <2>4, <2>5
  <2>7. key(a, y) <= key(a, z)
    BY <2>3, <2>6 DEF HeapedFrom
  <2>8. key(a, z) <= key(a, 1)
    BY <2>2, <2>6
  <2>9. y \in 1..N /\ z \in 1..N
    BY <2>3, <2>6
  <2> QED BY <1>1, <2>3, <2>4, <2>7, <2>8, <2>9
<1> QED BY <1>2

(* The places behind i are filled for good.                                 *)
SortedFrom(a, i, N) == \A x \in (i + 1)..N : \A y \in 1..x : key(a, y) <= key(a, x)

LEMMA SortStep ==
  ASSUME WeightsOK, NEW N \in Nat, NEW a \in Arrays(N), NEW i \in 2..N,
         HeapedFrom(a, 1, i), SortedFrom(a, i, N)
  PROVE  LET p == PushDown(1, i - 1, SwapAt(a, 1, i)) IN
         /\ p \in Arrays(N) /\ Shuffles(p, a, N, 1, N)
         /\ HeapedFrom(p, 1, i - 1) /\ SortedFrom(p, i - 1, N)
<1> DEFINE j == i - 1
           b == SwapAt(a, 1, i)
           p == PushDown(1, j, b)
<1>1. /\ 1 \in 1..N /\ i \in 1..N /\ j \in 1..N /\ 1 \in 1..j /\ j + 1 = i /\ j < i /\ j <= N
      /\ i \in Nat /\ j \in Nat /\ 1 < i
  OBVIOUS
<1> HIDE DEF j
<1>2. /\ b \in Arrays(N) /\ Shuffles(b, a, N, 1, i)
      /\ b[1] = a[i] /\ b[i] = a[1]
      /\ \A x \in 1..N : x # 1 /\ x # i => b[x] = a[x]
  BY <1>1, SwapAtShuffles
<1> HIDE DEF b
<1>3. HeapedFrom(b, 1 + 1, j)
  <2> SUFFICES ASSUME NEW x \in 2..j, NEW y \in 2..j, y = 2 * x \/ y = 2 * x + 1
               PROVE  key(b, y) <= key(b, x)
    BY DEF HeapedFrom
  <2>1. x \in 1..i /\ y \in 1..i /\ x # 1 /\ x # i /\ y # 1 /\ y # i /\ x \in 1..N /\ y \in 1..N
    BY <1>1
  <2>2. key(b, x) = key(a, x) /\ key(b, y) = key(a, y)
    BY <1>2, <2>1, KeySame
  <2> QED BY <2>1, <2>2 DEF HeapedFrom
<1>4. p \in Arrays(N) /\ Shuffles(p, b, N, 1, j) /\ HeapedFrom(p, 1, j)
  BY <1>1, <1>2, <1>3, PushDownIs
<1> HIDE DEF p
<1>5. Shuffles(p, b, N, 1, i) /\ Shuffles(p, b, N, 1, N) /\ Shuffles(b, a, N, 1, N)
  BY <1>1, <1>2, <1>4, SameShuffles, ShufflesTwice
<1>6. Shuffles(p, a, N, 1, i) /\ Shuffles(p, a, N, 1, N)
  BY <1>1, <1>2, <1>5, ShufflesTwice
<1>7. PICK q \in Perms(N) : /\ \A x \in 1..N : x \notin 1..i => q[x] = x
                            /\ \A x \in 1..N : p[x] = a[q[x]]
  BY <1>6 DEF Shuffles
<1>8. /\ \A x \in 1..N : q[x] \in 1..N
      /\ \A x, y \in 1..N : x # y => q[x] # q[y]
  BY DEF Perms
<1>9. \A x \in 1..N : key(p, x) = key(a, q[x])
  BY <1>7, KeySame
<1>10. p[i] = b[i]
  <2>1. PICK r \in Perms(N) : /\ \A x \in 1..N : x \notin 1..j => r[x] = x
                              /\ \A x \in 1..N : p[x] = b[r[x]]
    BY <1>4 DEF Shuffles
  <2>2. i \notin 1..j
    BY <1>1
  <2> QED BY <1>1, <2>1, <2>2
<1>11. key(p, i) = key(a, 1)
  BY <1>2, <1>10, KeySame
<1>12. \A x \in 1..i : key(a, x) <= key(a, 1)
  BY <1>1, RootLargest
<1>13. ASSUME NEW x \in 1..N, x <= i
       PROVE  q[x] \in 1..i
  <2>1. CASE q[x] <= i
    BY <1>1, <1>8, <2>1
  <2>2. CASE ~ (q[x] <= i)
    <3>1. q[q[x]] = q[x] /\ q[x] # x
      BY <1>1, <1>7, <1>8, <1>13, <2>2
    <3> QED BY <1>8, <3>1
  <2> QED BY <2>1, <2>2
<1>14. ASSUME NEW x \in (j + 1)..N, NEW y \in 1..x
       PROVE  key(p, y) <= key(p, x)
  <2>1. x \in 1..N /\ y \in 1..N /\ x \in Nat /\ y \in Nat /\ x >= i
    BY <1>1
  <2>2. CASE x = i
    <3>1. q[y] \in 1..i
      BY <1>13, <2>1, <2>2
    <3> QED BY <1>9, <1>11, <1>12, <2>1, <2>2, <3>1
  <2>3. CASE x # i
    <3>1. x \in (i + 1)..N /\ x \notin 1..i /\ q[x] = x
      BY <1>1, <1>7, <2>1, <2>3
    <3>2. q[y] \in 1..x
      <4>1. CASE y <= i
        <5>1. q[y] \in 1..i
          BY <1>13, <2>1, <4>1
        <5> QED BY <1>1, <2>1, <5>1
      <4>2. CASE ~ (y <= i)
        <5>1. y \notin 1..i
          BY <4>2
        <5>2. q[y] = y
          BY <1>7, <2>1, <5>1
        <5> QED BY <5>2
      <4> QED BY <4>1, <4>2
    <3>3. key(a, q[y]) <= key(a, x)
      BY <3>1, <3>2 DEF SortedFrom
    <3> QED BY <1>9, <2>1, <3>1, <3>3
  <2> QED BY <2>2, <2>3
<1>15. SortedFrom(p, j, N)
  BY <1>14 DEF SortedFrom
<1> QED BY <1>4, <1>6, <1>15 DEF p, j, b

LEMMA SortIs ==
  ASSUME WeightsOK, NEW N \in Nat \ {0}, NEW array \in Arrays(N)
  PROVE  /\ sort(array) \in Arrays(N) /\ Shuffles(sort(array), array, N, 1, N)
         /\ SortedFrom(sort(array), 1, N)
<1> DEFINE seq == [k \in 1..(Len(array) - 1) |-> k]
           n == Len(seq)
           base == Heap(array)
           Op(a, k) == LET i == Len(array) + 1 - k IN PushDown(1, i - 1, SwapAt(a, 1, i))
           G(f) == [k \in 0..Len(seq) |->
                      IF k = 0 THEN base
                      ELSE CHOOSE r \in {Op(acc, seq[k]) : acc \in {f[k - 1]}} : TRUE]
           h == CHOOSE f : f = G(f)
           S == [k \in 0..n |-> {b \in Arrays(N) : /\ Shuffles(b, array, N, 1, N)
                                                   /\ HeapedFrom(b, 1, N - k)
                                                   /\ SortedFrom(b, N - k, N)}]
           F == [k \in 1..n |-> [acc \in S[k - 1] |-> Op(acc, seq[k])]]
<1>1. sort(array) = h[n]
  BY DEF sort, Fold
<1>2. Len(array) = N
  BY ArrayIs
<1>4. n = N - 1 /\ Len(seq) = n /\ n \in Nat /\ \A k \in 1..n : seq[k] = k
  <2> DEFINE m == N - 1
  <2>1. seq = [k \in 1..m |-> k] /\ m \in Nat
    BY <1>2
  <2> HIDE DEF m, seq
  <2>2. n = m /\ \A k \in 1..n : seq[k] = k
    BY <2>1, CountIs
  <2> QED BY <2>1, <2>2 DEF m
<1> HIDE DEF seq, n
<1>6. base \in S[0]
  <2>1. base \in Arrays(N) /\ Shuffles(base, array, N, 1, N) /\ HeapedFrom(base, 1, N)
    BY HeapIs
  <2>2. N - 0 = N /\ SortedFrom(base, N, N) /\ 0 \in 0..n
    <3>1. (N + 1)..N = {}
      OBVIOUS
    <3> HIDE DEF base
    <3> QED BY <1>4, <3>1 DEF SortedFrom
  <2> HIDE DEF base
  <2> QED BY <2>1, <2>2
<1> HIDE DEF base
<1>7. ASSUME NEW k \in 1..n, NEW acc \in S[k - 1]
      PROVE  Op(acc, seq[k]) \in S[k]
  <2> DEFINE i == Len(array) + 1 - k
             p == PushDown(1, i - 1, SwapAt(acc, 1, i))
  <2>1. i \in 2..N /\ N - (k - 1) = i /\ k - 1 \in 0..n /\ k \in 0..n /\ i - 1 = N - k
    BY <1>2, <1>4
  <2>2. /\ acc \in Arrays(N) /\ Shuffles(acc, array, N, 1, N) /\ HeapedFrom(acc, 1, i)
        /\ SortedFrom(acc, i, N)
    BY <2>1
  <2>3. Op(acc, seq[k]) = p
    <3>1. seq[k] = k
      BY <1>4
    <3>2. Op(acc, k) = p
      OBVIOUS
    <3> QED BY <3>1, <3>2
  <2> HIDE DEF i, Op
  <2>4. /\ p \in Arrays(N) /\ Shuffles(p, acc, N, 1, N)
        /\ HeapedFrom(p, 1, i - 1) /\ SortedFrom(p, i - 1, N)
    BY <2>1, <2>2, SortStep
  <2> HIDE DEF p
  <2>5. Shuffles(p, array, N, 1, N)
    BY <2>2, <2>4, ShufflesTwice
  <2>6. p \in S[k]
    BY <2>1, <2>4, <2>5
  <2> QED BY <2>3, <2>6
<1>8. Steps(n, S, F)
  <2>1. \A k \in 1..n : F[k] \in [S[k - 1] -> S[k]]
    <3> HIDE DEF Op, S
    <3> QED BY <1>7
  <2> QED BY <2>1 DEF Steps
<1> HIDE DEF S
<1>9. \A k \in 1..n : \A acc \in S[k - 1] : F[k][acc] = Op(acc, seq[k])
  OBVIOUS
<1> HIDE DEF F, Op
<1>10. PICK g : Iterates(g, n, S, base, F)
  BY <1>4, <1>6, <1>8, IterateExists
<1>11. g = G(g)
  <2>1. /\ g = [k \in 0..n |-> g[k]] /\ g[0] = base
        /\ \A k \in 1..n : g[k] = F[k][g[k - 1]] /\ g[k - 1] \in S[k - 1]
    <3>1. \A k \in 1..n : k - 1 \in 0..n
      BY <1>4
    <3> QED BY <1>10, <3>1 DEF Iterates
  <2>2. \A k \in 1..n : g[k] = Op(g[k - 1], seq[k])
    BY <1>9, <2>1
  <2>3. ASSUME NEW k \in 0..n, k # 0
        PROVE  g[k] = CHOOSE r \in {Op(acc, seq[k]) : acc \in {g[k - 1]}} : TRUE
    <3>1. g[k] = Op(g[k - 1], seq[k])
      BY <1>4, <2>2, <2>3
    <3>2. {Op(acc, seq[k]) : acc \in {g[k - 1]}} = {g[k]}
      BY <3>1
    <3> QED BY <3>2
  <2> QED BY <1>4, <2>1, <2>3
<1>12. h = G(h)
  BY <1>11
<1> HIDE DEF h
<1>13. h[0] = base /\ \A k \in 1..n : h[k] = Op(h[k - 1], seq[k])
  <2>1. 0 \in 0..Len(seq) /\ h[0] = base
    BY <1>4, <1>12
  <2>2. ASSUME NEW k \in 1..n
        PROVE  h[k] = Op(h[k - 1], seq[k])
    <3>1. k \in 0..Len(seq) /\ k # 0
      BY <1>4
    <3>2. h[k] = CHOOSE r \in {Op(acc, seq[k]) : acc \in {h[k - 1]}} : TRUE
      BY <1>12, <3>1
    <3>3. {Op(acc, seq[k]) : acc \in {h[k - 1]}} = {Op(h[k - 1], seq[k])}
      OBVIOUS
    <3> QED BY <3>2, <3>3
  <2> QED BY <2>1, <2>2
<1>14. \A k \in 0..n : h[k] \in S[k]
  <2>1. h[0] = base /\ n \in Nat
    BY <1>4, <1>13
  <2>2. \A k \in 1..n : h[k - 1] \in S[k - 1] => h[k] = F[k][h[k - 1]]
    BY <1>9, <1>13
  <2> QED BY <1>6, <1>8, <2>1, <2>2, FoldSteps
<1>15. h[n] \in S[n]
  BY <1>4, <1>14
<1>16. N - n = 1 /\ n \in 0..n
  BY <1>4
<1> QED BY <1>1, <1>15, <1>16 DEF S

-----------------------------------------------------------------------------
(* The layer after it has been sorted, and the load of the workers.         *)

NodesOf(s)    == {s[k] : k \in 1..Len(s)}
NoTwice(s)    == \A k, l \in 1..Len(s) : k # l => s[k] # s[l]
Decreasing(s) == \A k, l \in 1..Len(s) : k <= l => tree.weight[s[l]] <= tree.weight[s[k]]

LEMMA SortLayer ==
  ASSUME WeightsOK, NEW s \in Seq(1..VRoot), Len(s) > 0
  PROVE  /\ sort(s) \in Seq(1..VRoot) /\ Len(sort(s)) = Len(s)
         /\ NodesOf(sort(s)) = NodesOf(s)
         /\ NoTwice(s) => NoTwice(sort(s))
         /\ Decreasing(sort(s))
         /\ Shuffles(sort(s), s, Len(s), 1, Len(s))
<1> DEFINE N == Len(s)
           t == sort(s)
<1>1. N \in Nat \ {0} /\ s \in Arrays(N)
  <2>1. N \in Nat /\ s \in [1..N -> 1..VRoot]
    BY LenProperties
  <2> QED BY <2>1 DEF Arrays
<1>2. N = Len(s)
  OBVIOUS
<1> HIDE DEF N
<1>3. t \in Arrays(N) /\ Shuffles(t, s, N, 1, N) /\ SortedFrom(t, 1, N)
  BY <1>1, SortIs
<1> HIDE DEF t
<1>4. t \in Seq(1..VRoot) /\ Len(t) = N
  BY <1>1, <1>3, ArrayIs
<1>5. PICK q \in Perms(N) : \A x \in 1..N : t[x] = s[q[x]]
  BY <1>3 DEF Shuffles
<1>6. /\ \A x \in 1..N : q[x] \in 1..N
      /\ \A x, y \in 1..N : x # y => q[x] # q[y]
      /\ \A y \in 1..N : \E x \in 1..N : q[x] = y
  BY DEF Perms
<1>7. NodesOf(t) = NodesOf(s)
  <2>1. NodesOf(t) = {t[k] : k \in 1..N} /\ NodesOf(s) = {s[k] : k \in 1..N}
    BY <1>2, <1>4 DEF NodesOf
  <2>2. ASSUME NEW k \in 1..N PROVE \E l \in 1..N : s[k] = t[l]
    BY <1>5, <1>6
  <2>3. ASSUME NEW k \in 1..N PROVE \E l \in 1..N : t[k] = s[l]
    BY <1>5, <1>6
  <2> QED BY <2>1, <2>2, <2>3
<1>8. NoTwice(s) => NoTwice(t)
  <2> SUFFICES ASSUME NoTwice(s), NEW k \in 1..N, NEW l \in 1..N, k # l
               PROVE  t[k] # t[l]
    BY <1>4 DEF NoTwice
  <2>1. q[k] \in 1..N /\ q[l] \in 1..N /\ q[k] # q[l]
    BY <1>6
  <2>2. s[q[k]] # s[q[l]]
    BY <1>2, <2>1 DEF NoTwice
  <2> QED BY <1>5, <2>2
<1>9. \A x \in 1..N : key(t, x) = - tree.weight[t[x]] /\ tree.weight[t[x]] \in Nat
  <2>1. \A x \in 1..N : t[x] \in 1..VRoot
    BY <1>3 DEF Arrays
  <2> QED BY <2>1 DEF key, WeightsOK
<1>10. Decreasing(t)
  <2> SUFFICES ASSUME NEW k \in 1..N, NEW l \in 1..N, k <= l
               PROVE  tree.weight[t[l]] <= tree.weight[t[k]]
    BY <1>4 DEF Decreasing
  <2>1. CASE k = l
    BY <1>9, <2>1
  <2>2. CASE k # l
    <3>1. l \in (1 + 1)..N /\ k \in 1..l
      BY <1>1, <2>2
    <3>2. key(t, k) <= key(t, l)
      BY <1>3, <3>1 DEF SortedFrom
    <3> QED BY <1>9, <3>2
  <2> QED BY <2>1, <2>2
<1> QED BY <1>2, <1>3, <1>4, <1>7, <1>8, <1>10 DEF t

LEMMA LeastLoadedIs ==
  ASSUME NEW m \in Nat \ {0}, NEW w \in [1..m -> Nat]
  PROVE  LeastLoaded(w) \in 1..m /\ \A q \in 1..m : w[LeastLoaded(w)] <= w[q]
<1> DEFINE loads == {w[p] : p \in 1..m}
<1>1. loads \in SUBSET Nat /\ loads # {}
  <2>1. 1 \in 1..m
    OBVIOUS
  <2>2. w[1] \in loads
    BY <2>1
  <2> QED BY <2>2
<1>2. PICK v \in loads : \A u \in loads : v <= u
  <2> HIDE DEF loads
  <2> QED BY <1>1, Smallest
<1> DEFINE least == {p \in 1..m : w[p] = v}
<1>3. least \in SUBSET Nat /\ least # {}
  BY <1>2
<1>4. PICK p \in least : \A q \in least : p <= q
  <2> HIDE DEF least
  <2> QED BY <1>3, Smallest
<1>5. p \in 1..m /\ \A q \in 1..m : w[p] < w[q] \/ (w[p] = w[q] /\ p <= q)
  <2>1. p \in 1..m /\ w[p] = v
    BY <1>4
  <2>2. ASSUME NEW q \in 1..m
        PROVE  w[p] < w[q] \/ (w[p] = w[q] /\ p <= q)
    <3>1. w[q] \in loads /\ w[p] \in Nat /\ w[q] \in Nat
      BY <2>1
    <3>2. v <= w[q]
      BY <1>2, <3>1
    <3>3. w[q] = v => p <= q
      BY <1>4
    <3> QED BY <2>1, <3>1, <3>2, <3>3
  <2> QED BY <2>1, <2>2
<1>6. DOMAIN w = 1..m
  OBVIOUS
<1> DEFINE l == LeastLoaded(w)
<1>7. l \in 1..m /\ \A q \in 1..m : w[l] < w[q] \/ (w[l] = w[q] /\ l <= q)
  BY <1>5, <1>6 DEF LeastLoaded
<1> HIDE DEF l
<1>8. \A q \in 1..m : w[l] <= w[q]
  <2> TAKE q \in 1..m
  <2>1. w[l] \in Nat /\ w[q] \in Nat
    BY <1>7
  <2> QED BY <1>7, <2>1
<1> QED BY <1>7, <1>8 DEF l

LEMMA DivLess ==
  ASSUME NEW a \in Nat, NEW b \in Nat \ {0}
  PROVE  a \div b \in Nat /\ a \div b <= a
BY Z3

LEMMA CostIs ==
  ASSUME TreeShape, WeightsOK, NEW p, NEW i \in 1..VRoot
  PROVE  Cost(p, i) \in Nat /\ Cost(p, i) <= tree.weight[i]
<1> DEFINE w == tree.weight[i]
           c == tree.coeff
<1>1. w \in Nat /\ c \in Nat \ {0}
  BY DEF WeightsOK, TreeShape
<1>2. Cost(p, i) = IF p > tree.nth THEN w \div c ELSE w
  BY DEF Cost
<1> HIDE DEF w, c
<1>3. w \div c \in Nat /\ w \div c <= w
  BY <1>1, DivLess
<1> QED BY <1>1, <1>2, <1>3 DEF w

(* The loads differ by W at most.                                           *)
Loads(W) == {m \in [proc_w : [1..nregion -> Nat], loc : [1..VRoot -> Int]] :
               \A p, q \in 1..nregion : m.proc_w[p] <= m.proc_w[q] + W}

LEMMA RegionsIs ==
  ASSUME TreeShape
  PROVE  nregion \in Nat \ {0}
<1>1. tree.gpus \in Seq(Nat) /\ tree.gpus # <<>> /\ tree.nth \in Nat \ {0}
  BY DEF TreeShape
<1>2. Len(tree.gpus) \in Nat /\ Len(tree.gpus) # 0 /\ \A k \in 1..Len(tree.gpus) : tree.gpus[k] \in Nat
  BY <1>1, LenProperties, EmptySeq
<1>3. tree.gpus[1] \in Nat
  BY <1>2
<1> DEFINE x == tree.nth
           y == tree.gpus[1]
<1>4. x \in Nat \ {0} /\ y \in Nat /\ nregion = x + y
  BY <1>1, <1>3 DEF nregion
<1> HIDE DEF x, y
<1> QED BY <1>4

LEMMA MapNodeIs ==
  ASSUME TreeShape, WeightsOK, NEW W \in Nat, NEW m \in Loads(W), NEW i \in 1..VRoot,
         tree.weight[i] <= W
  PROVE  MapNode(m, i) \in Loads(W)
<1> DEFINE w == m.proc_w
           l == m.loc
           p == LeastLoaded(w)
           c == Cost(p, i)
           N == nregion
           v == [w EXCEPT ![p] = @ + c]
           k == [l EXCEPT ![i] = p]
<1>1. /\ w \in [1..N -> Nat] /\ l \in [1..VRoot -> Int]
      /\ \A x, y \in 1..N : w[x] <= w[y] + W
  BY DEF Loads
<1>2. MapNode(m, i) = [proc_w |-> v, loc |-> k]
  BY DEF MapNode
<1>3. N \in Nat \ {0}
  BY RegionsIs
<1> HIDE DEF w, l, N
<1>4. p \in 1..N /\ \A q \in 1..N : w[p] <= w[q]
  BY <1>1, <1>3, LeastLoadedIs
<1> HIDE DEF p
<1>5. c \in Nat /\ c <= W
  <2>1. c \in Nat /\ c <= tree.weight[i] /\ tree.weight[i] \in Nat
    BY CostIs DEF WeightsOK
  <2> HIDE DEF c
  <2> QED BY <2>1
<1> HIDE DEF c
<1>6. v \in [1..N -> Nat] /\ \A x \in 1..N : v[x] = IF x = p THEN w[x] + c ELSE w[x]
  BY <1>1, <1>4, <1>5
<1>7. k \in [1..VRoot -> Int]
  BY <1>1, <1>4
<1> HIDE DEF v, k
<1>8. ASSUME NEW x \in 1..N, NEW y \in 1..N
      PROVE  v[x] <= v[y] + W
  <2>1. w[x] \in Nat /\ w[y] \in Nat /\ w[x] <= w[y] + W /\ w[p] \in Nat /\ w[p] <= w[y]
    BY <1>1, <1>4
  <2> QED BY <1>5, <1>6, <2>1
<1>9. [proc_w |-> v, loc |-> k] \in Loads(W)
  BY <1>6, <1>7, <1>8 DEF Loads, N
<1> QED BY <1>2, <1>9

LEMMA MappedIs ==
  ASSUME TreeShape, WeightsOK, loc \in [1..VRoot -> Int], NEW layer \in Seq(1..VRoot),
         NEW W \in Nat, \A k \in 1..Len(layer) : tree.weight[layer[k]] <= W
  PROVE  Mapped(layer) \in Loads(W)
<1> DEFINE seq == layer
           n == Len(seq)
           base == [proc_w |-> [p \in 1..nregion |-> 0], loc |-> loc]
           Op(m, i) == MapNode(m, i)
           G(f) == [k \in 0..Len(seq) |->
                      IF k = 0 THEN base
                      ELSE CHOOSE r \in {Op(acc, seq[k]) : acc \in {f[k - 1]}} : TRUE]
           h == CHOOSE f : f = G(f)
           S == [k \in 0..n |-> Loads(W)]
           F == [k \in 1..n |-> [acc \in S[k - 1] |-> Op(acc, seq[k])]]
<1>1. Mapped(layer) = h[n]
  BY DEF Mapped, Fold
<1>2. Len(seq) = n /\ n \in Nat /\ \A k \in 1..n : seq[k] \in 1..VRoot /\ tree.weight[seq[k]] <= W
  BY LenProperties
<1> HIDE DEF seq, n
<1>3. base \in Loads(W)
  <2> DEFINE w == [p \in 1..nregion |-> 0]
  <2>1. w \in [1..nregion -> Nat] /\ \A p \in 1..nregion : w[p] = 0
    OBVIOUS
  <2>2. base.proc_w = w /\ base \in [proc_w : [1..nregion -> Nat], loc : [1..VRoot -> Int]]
    BY <2>1
  <2> HIDE DEF w, base
  <2>3. \A p, q \in 1..nregion : base.proc_w[p] <= base.proc_w[q] + W
    BY <2>1, <2>2
  <2> QED BY <2>2, <2>3 DEF Loads
<1> HIDE DEF base
<1>4. base \in S[0]
  BY <1>2, <1>3
<1>5. ASSUME NEW k \in 1..n, NEW acc \in S[k - 1]
      PROVE  Op(acc, seq[k]) \in S[k]
  <2>1. acc \in Loads(W) /\ S[k] = Loads(W)
    BY <1>2
  <2> HIDE DEF S
  <2>2. Op(acc, seq[k]) \in Loads(W)
    BY <1>2, <2>1, MapNodeIs
  <2> QED BY <2>1, <2>2
<1>6. Steps(n, S, F)
  <2>1. \A k \in 1..n : F[k] \in [S[k - 1] -> S[k]]
    <3> HIDE DEF Op, S
    <3> QED BY <1>5
  <2> QED BY <2>1 DEF Steps
<1> HIDE DEF S
<1>7. \A k \in 1..n : \A acc \in S[k - 1] : F[k][acc] = Op(acc, seq[k])
  OBVIOUS
<1> HIDE DEF F, Op
<1>8. PICK g : Iterates(g, n, S, base, F)
  BY <1>2, <1>4, <1>6, IterateExists
<1>9. g = G(g)
  <2>1. /\ g = [k \in 0..n |-> g[k]] /\ g[0] = base
        /\ \A k \in 1..n : g[k] = F[k][g[k - 1]] /\ g[k - 1] \in S[k - 1]
    <3>1. \A k \in 1..n : k - 1 \in 0..n
      BY <1>2
    <3> QED BY <1>8, <3>1 DEF Iterates
  <2>2. \A k \in 1..n : g[k] = Op(g[k - 1], seq[k])
    BY <1>7, <2>1
  <2>3. ASSUME NEW k \in 0..n, k # 0
        PROVE  g[k] = CHOOSE r \in {Op(acc, seq[k]) : acc \in {g[k - 1]}} : TRUE
    <3>1. g[k] = Op(g[k - 1], seq[k])
      BY <1>2, <2>2, <2>3
    <3>2. {Op(acc, seq[k]) : acc \in {g[k - 1]}} = {g[k]}
      BY <3>1
    <3> QED BY <3>2
  <2> QED BY <1>2, <2>1, <2>3
<1>10. h = G(h)
  BY <1>9
<1> HIDE DEF h
<1>11. h[0] = base /\ \A k \in 1..n : h[k] = Op(h[k - 1], seq[k])
  <2>1. 0 \in 0..Len(seq) /\ h[0] = base
    BY <1>2, <1>10
  <2>2. ASSUME NEW k \in 1..n
        PROVE  h[k] = Op(h[k - 1], seq[k])
    <3>1. k \in 0..Len(seq) /\ k # 0
      BY <1>2
    <3>2. h[k] = CHOOSE r \in {Op(acc, seq[k]) : acc \in {h[k - 1]}} : TRUE
      BY <1>10, <3>1
    <3>3. {Op(acc, seq[k]) : acc \in {h[k - 1]}} = {Op(h[k - 1], seq[k])}
      OBVIOUS
    <3> QED BY <3>2, <3>3
  <2> QED BY <2>1, <2>2
<1>12. \A k \in 0..n : h[k] \in S[k]
  <2>1. h[0] = base /\ n \in Nat
    BY <1>2, <1>11
  <2>2. \A k \in 1..n : h[k - 1] \in S[k - 1] => h[k] = F[k][h[k - 1]]
    BY <1>7, <1>11
  <2> QED BY <1>4, <1>6, <2>1, <2>2, FoldSteps
<1>13. n \in 0..n /\ h[n] \in S[n]
  BY <1>2, <1>12
<1> QED BY <1>1, <1>13 DEF S

-----------------------------------------------------------------------------
(* What has been recorded: the list q of subtrees and their roots.          *)

Recs == {r \in [sa : Node, en : Node, dest : Int, loc : Int] : r.sa = tree.least_desc[r.en]}
RootsOf(q) == {q[s].en : s \in 1..Len(q)}
Once(q)    == \A s, t \in 1..Len(q) : s # t => q[s].en # q[t].en

LEMMA RecordedIs ==
  ASSUME TreeShape, NEW c \in Node, NEW n \in 1..VRoot, NEW p \in Int
  PROVE  Recorded(c, n, p) \in Recs /\ Recorded(c, n, p).en = c
<1>1. c \in 1..VRoot /\ n \in Int
  BY NodeFacts
<1>2. tree.least_desc[c] \in Node
  <2>1. tree.least_desc[c] \in 1..c
    BY <1>1, BelowIs
  <2> QED BY <2>1, NodeFacts DEF Node
<1> DEFINE d == IF n = VRoot THEN 0 ELSE n
           a == tree.least_desc[c]
           r == [sa |-> a, en |-> c, dest |-> d, loc |-> p]
<1>3. d \in Int /\ a \in Node
  BY <1>1, <1>2
<1>4. Recorded(c, n, p) = r
  BY DEF Recorded
<1>5. r.sa = tree.least_desc[r.en] /\ r.en = c
  OBVIOUS
<1> HIDE DEF d, a
<1>6. r \in [sa : Node, en : Node, dest : Int, loc : Int]
  BY <1>3
<1> QED BY <1>4, <1>5, <1>6 DEF Recs

LEMMA ConcatRecs ==
  ASSUME TreeShape, NEW q \in Seq(Recs), NEW cs \in Seq(Node), NEW n \in 1..VRoot, NEW p \in Int
  PROVE  LET r == q \o [k \in DOMAIN cs |-> Recorded(cs[k], n, p)] IN
         /\ r \in Seq(Recs) /\ RootsOf(r) = RootsOf(q) \cup NodesOf(cs)
         /\ Once(q) /\ NoTwice(cs) /\ RootsOf(q) \cap NodesOf(cs) = {} => Once(r)
<1> DEFINE u == [k \in DOMAIN cs |-> Recorded(cs[k], n, p)]
           r == q \o u
           M == Len(q)
           K == Len(cs)
<1>1. M \in Nat /\ K \in Nat /\ DOMAIN cs = 1..K /\ \A k \in 1..K : cs[k] \in Node
  BY LenProperties
<1>2. /\ u \in [1..K -> Recs] /\ \A k \in 1..K : u[k].en = cs[k]
  <2>1. \A k \in 1..K : Recorded(cs[k], n, p) \in Recs /\ Recorded(cs[k], n, p).en = cs[k]
    BY <1>1, RecordedIs
  <2>2. u = [k \in 1..K |-> Recorded(cs[k], n, p)]
    BY <1>1
  <2> HIDE DEF u, K
  <2> QED BY <2>1, <2>2
<1> HIDE DEF u
<1>3. u \in Seq(Recs)
  BY <1>1, <1>2, SeqDef
<1>4. Len(u) = K
  <2>1. Len(u) \in Nat /\ DOMAIN u = 1..Len(u) /\ DOMAIN u = 1..K
    BY <1>2, <1>3, LenProperties
  <2>2. 1..Len(u) = 1..K
    BY <2>1
  <2> HIDE DEF K
  <2> QED BY <1>1, <2>1, <2>2, SameEnd
<1>5. /\ r \in Seq(Recs) /\ Len(r) = Len(q) + Len(u)
      /\ \A i \in 1..(Len(q) + Len(u)) : r[i] = IF i <= Len(q) THEN q[i] ELSE u[i - Len(q)]
  BY <1>3, ConcatProperties
<1> HIDE DEF r
<1>6. Len(r) = M + K /\ \A i \in 1..(M + K) : r[i] = IF i <= M THEN q[i] ELSE u[i - M]
  BY <1>4, <1>5
<1>7. M = Len(q) /\ K = Len(cs)
  OBVIOUS
<1> HIDE DEF M, K
<1>8. \A i \in 1..M : i \in 1..(M + K) /\ r[i].en = q[i].en
  BY <1>1, <1>6
<1>9. \A k \in 1..K : M + k \in 1..(M + K) /\ r[M + k].en = cs[k]
  <2> TAKE k \in 1..K
  <2>1. M + k \in 1..(M + K) /\ ~ (M + k <= M) /\ (M + k) - M = k
    BY <1>1
  <2>2. r[M + k] = u[k]
    BY <1>6, <2>1
  <2> QED BY <1>2, <2>1, <2>2
<1>10. ASSUME NEW i \in 1..(M + K)
       PROVE  \/ i \in 1..M /\ r[i].en = q[i].en
              \/ i - M \in 1..K /\ r[i].en = cs[i - M]
  <2>1. CASE i <= M
    <3>1. i \in 1..M
      BY <1>1, <2>1
    <3> QED BY <1>8, <3>1
  <2>2. CASE ~ (i <= M)
    <3>1. i - M \in 1..K /\ M + (i - M) = i
      BY <1>1, <2>2
    <3>2. r[M + (i - M)].en = cs[i - M]
      BY <1>9, <3>1
    <3> QED BY <3>1, <3>2
  <2> QED BY <2>1, <2>2
<1>11. RootsOf(r) = RootsOf(q) \cup NodesOf(cs)
  <2>1. RootsOf(r) = {r[s].en : s \in 1..(M + K)}
    BY <1>6 DEF RootsOf
  <2>2. RootsOf(q) = {q[s].en : s \in 1..M} /\ NodesOf(cs) = {cs[k] : k \in 1..K}
    BY <1>7 DEF RootsOf, NodesOf
  <2>3. RootsOf(r) \subseteq RootsOf(q) \cup NodesOf(cs)
    BY <1>10, <2>1, <2>2
  <2>4. RootsOf(q) \subseteq RootsOf(r)
    BY <1>8, <2>1, <2>2
  <2>5. NodesOf(cs) \subseteq RootsOf(r)
    BY <1>9, <2>1, <2>2
  <2> QED BY <2>3, <2>4, <2>5
<1>12. ASSUME Once(q), NoTwice(cs), RootsOf(q) \cap NodesOf(cs) = {}
       PROVE  Once(r)
  <2> SUFFICES ASSUME NEW i \in 1..(M + K), NEW j \in 1..(M + K), i # j
               PROVE  r[i].en # r[j].en
    BY <1>6 DEF Once
  <2>1. \A x, y \in 1..M : x # y => q[x].en # q[y].en
    BY <1>7, <1>12 DEF Once
  <2>2. \A x, y \in 1..K : x # y => cs[x] # cs[y]
    BY <1>7, <1>12 DEF NoTwice
  <2>3. \A x \in 1..M, y \in 1..K : q[x].en # cs[y]
    <3> TAKE x \in 1..M, y \in 1..K
    <3>1. q[x].en \in RootsOf(q) /\ cs[y] \in NodesOf(cs)
      BY <1>7 DEF RootsOf, NodesOf
    <3> QED BY <1>12, <3>1
  <2>4. i - M # j - M
    BY <1>1
  <2> QED BY <1>10, <2>1, <2>2, <2>3, <2>4
<1> QED BY <1>5, <1>11, <1>12 DEF r, u

(* The marks of several siblings, one after the other.                      *)
LEMMA FlagAll ==
  ASSUME TreeShape, NEW R \in SUBSET Node, NEW cs \in Seq(Node), AntiChain(R \cup NodesOf(cs)),
         NEW m, Marked(m, R)
  PROVE  Marked(Fold(LAMBDA marks, c : Flag(marks, tree.least_desc[c], c), m, cs), R \cup NodesOf(cs))
<1> DEFINE seq == cs
           n == Len(seq)
           base == m
           To(k) == R \cup {seq[j] : j \in 1..k}
           Op(marks, c) == Flag(marks, tree.least_desc[c], c)
           G(f) == [k \in 0..Len(seq) |->
                      IF k = 0 THEN base
                      ELSE CHOOSE r \in {Op(acc, seq[k]) : acc \in {f[k - 1]}} : TRUE]
           h == CHOOSE f : f = G(f)
           S == [k \in 0..n |-> {f \in [Node -> Int] : Marked(f, To(k))}]
           F == [k \in 1..n |-> [acc \in S[k - 1] |-> Op(acc, seq[k])]]
<1> DEFINE folded == Fold(LAMBDA marks, c : Flag(marks, tree.least_desc[c], c), m, cs)
<1>1. folded = h[n]
  BY DEF Fold
<1> HIDE DEF folded
<1>2. Len(seq) = n /\ n \in Nat /\ \A k \in 1..n : seq[k] \in Node
  BY LenProperties
<1>3. NodesOf(cs) = {seq[j] : j \in 1..n}
  BY DEF NodesOf
<1> HIDE DEF seq, n
<1>4. base \in S[0]
  <2>1. To(0) = R /\ 0 \in 0..n
    BY <1>2
  <2> HIDE DEF To
  <2> QED BY <2>1 DEF Marked
<1>5. ASSUME NEW k \in 1..n, NEW acc \in S[k - 1]
      PROVE  Op(acc, seq[k]) \in S[k]
  <2> DEFINE Q == To(k - 1)
             c == seq[k]
  <2>1. k - 1 \in 0..n /\ k \in 0..n /\ c \in Node
    BY <1>2
  <2>2. Marked(acc, Q)
    BY <2>1
  <2>3. Q \in SUBSET Node /\ Q \cup {c} \subseteq R \cup NodesOf(cs)
    BY <1>2, <1>3
  <2>4. Q \cup {c} = To(k)
    BY <1>2
  <2> HIDE DEF Q, To, c
  <2>5. AntiChain(Q \cup {c})
    BY <2>3 DEF AntiChain
  <2> DEFINE f == Flag(acc, tree.least_desc[c], c)
  <2>6. Marked(f, Q \cup {c})
    BY <2>1, <2>2, <2>3, <2>5, FlagMarks
  <2>7. Op(acc, seq[k]) = f
    BY DEF c
  <2> HIDE DEF f, Op
  <2>8. f \in [Node -> Int] /\ Marked(f, To(k))
    BY <2>4, <2>6 DEF Marked
  <2> QED BY <2>1, <2>7, <2>8
<1>6. Steps(n, S, F)
  <2>1. \A k \in 1..n : F[k] \in [S[k - 1] -> S[k]]
    <3> HIDE DEF Op, S
    <3> QED BY <1>5
  <2> QED BY <2>1 DEF Steps
<1> HIDE DEF S
<1>7. \A k \in 1..n : \A acc \in S[k - 1] : F[k][acc] = Op(acc, seq[k])
  OBVIOUS
<1> HIDE DEF F, Op
<1>8. PICK g : Iterates(g, n, S, base, F)
  BY <1>2, <1>4, <1>6, IterateExists
<1>9. g = G(g)
  <2>1. /\ g = [k \in 0..n |-> g[k]] /\ g[0] = base
        /\ \A k \in 1..n : g[k] = F[k][g[k - 1]] /\ g[k - 1] \in S[k - 1]
    <3>1. \A k \in 1..n : k - 1 \in 0..n
      BY <1>2
    <3> QED BY <1>8, <3>1 DEF Iterates
  <2>2. \A k \in 1..n : g[k] = Op(g[k - 1], seq[k])
    BY <1>7, <2>1
  <2>3. ASSUME NEW k \in 0..n, k # 0
        PROVE  g[k] = CHOOSE r \in {Op(acc, seq[k]) : acc \in {g[k - 1]}} : TRUE
    <3>1. g[k] = Op(g[k - 1], seq[k])
      BY <1>2, <2>2, <2>3
    <3>2. {Op(acc, seq[k]) : acc \in {g[k - 1]}} = {g[k]}
      BY <3>1
    <3> QED BY <3>2
  <2> QED BY <1>2, <2>1, <2>3
<1>10. h = G(h)
  BY <1>9
<1> HIDE DEF h
<1>11. h[0] = base /\ \A k \in 1..n : h[k] = Op(h[k - 1], seq[k])
  <2>1. 0 \in 0..Len(seq) /\ h[0] = base
    BY <1>2, <1>10
  <2>2. ASSUME NEW k \in 1..n
        PROVE  h[k] = Op(h[k - 1], seq[k])
    <3>1. k \in 0..Len(seq) /\ k # 0
      BY <1>2
    <3>2. h[k] = CHOOSE r \in {Op(acc, seq[k]) : acc \in {h[k - 1]}} : TRUE
      BY <1>10, <3>1
    <3>3. {Op(acc, seq[k]) : acc \in {h[k - 1]}} = {Op(h[k - 1], seq[k])}
      OBVIOUS
    <3> QED BY <3>2, <3>3
  <2> QED BY <2>1, <2>2
<1>12. \A k \in 0..n : h[k] \in S[k]
  <2>1. h[0] = base /\ n \in Nat
    BY <1>2, <1>11
  <2>2. \A k \in 1..n : h[k - 1] \in S[k - 1] => h[k] = F[k][h[k - 1]]
    BY <1>7, <1>11
  <2> QED BY <1>4, <1>6, <2>1, <2>2, FoldSteps
<1>13. n \in 0..n /\ h[n] \in S[n]
  BY <1>2, <1>12
<1>14. Marked(h[n], To(n))
  BY <1>13 DEF S
<1> QED BY <1>1, <1>3, <1>14 DEF folded

-----------------------------------------------------------------------------
(* What prune_tree has chosen when the layer is L; with d also that no root *)
(* is recorded twice.                                                       *)

StateOK(m, q, L) ==
  /\ q \in Seq(Recs)
  /\ Marked(m, RootsOf(q)) /\ AntiChain(RootsOf(q))
  /\ Beside(L, RootsOf(q)) /\ Cut(L, RootsOf(q))

States(L, d) ==
  {st \in [small : [Node -> Int], subtrees : Seq(Recs)] :
     StateOK(st.small, st.subtrees, L) /\ (d => Once(st.subtrees))}

LEMMA RootsAreNodes ==
  ASSUME NEW q \in Seq(Recs)
  PROVE  RootsOf(q) \in SUBSET Node
<1>1. \A s \in 1..Len(q) : q[s] \in Recs
  BY LenProperties
<1>2. \A s \in 1..Len(q) : q[s].en \in Node
  BY <1>1 DEF Recs
<1> QED BY <1>2 DEF RootsOf

LEMMA AppendRec ==
  ASSUME NEW q \in Seq(Recs), NEW r \in Recs
  PROVE  /\ Append(q, r) \in Seq(Recs) /\ RootsOf(Append(q, r)) = RootsOf(q) \cup {r.en}
         /\ Once(q) /\ r.en \notin RootsOf(q) => Once(Append(q, r))
<1> DEFINE u == Append(q, r)
           M == Len(q)
<1>1. /\ u \in Seq(Recs) /\ Len(u) = Len(q) + 1 /\ u[Len(q) + 1] = r
      /\ \A i \in 1..Len(q) : u[i] = q[i]
  BY AppendProperties
<1>2. M \in Nat /\ M = Len(q)
  BY LenProperties
<1> HIDE DEF u, M
<1>3. /\ Len(u) = M + 1 /\ u[M + 1].en = r.en
      /\ \A i \in 1..M : u[i].en = q[i].en
  BY <1>1, <1>2
<1>4. \A i \in 1..(M + 1) : i \in 1..M \/ i = M + 1
  BY <1>2
<1>5. M + 1 \in 1..(M + 1) /\ \A i \in 1..M : i \in 1..(M + 1)
  BY <1>2
<1>6. RootsOf(u) = {u[i].en : i \in 1..(M + 1)} /\ RootsOf(q) = {q[i].en : i \in 1..M}
  BY <1>2, <1>3 DEF RootsOf
<1>7. RootsOf(u) = RootsOf(q) \cup {r.en}
  <2>1. RootsOf(u) \subseteq RootsOf(q) \cup {r.en}
    BY <1>3, <1>4, <1>6
  <2>2. RootsOf(q) \subseteq RootsOf(u) /\ r.en \in RootsOf(u)
    BY <1>3, <1>5, <1>6
  <2> QED BY <2>1, <2>2
<1>8. ASSUME Once(q), r.en \notin RootsOf(q)
      PROVE  Once(u)
  <2>1. \A i, j \in 1..M : i # j => q[i].en # q[j].en
    BY <1>2, <1>8 DEF Once
  <2>2. \A i \in 1..M : q[i].en # r.en
    BY <1>6, <1>8
  <2> SUFFICES ASSUME NEW i \in 1..(M + 1), NEW j \in 1..(M + 1), i # j
               PROVE  u[i].en # u[j].en
    BY <1>3 DEF Once
  <2> QED BY <1>3, <1>4, <2>1, <2>2
<1> QED BY <1>1, <1>7, <1>8 DEF u

RecordOne(s, c, n) ==
  IF s.small[c] # 0 THEN s
  ELSE [small    |-> Flag(s.small, tree.least_desc[c], c),
        subtrees |-> Append(s.subtrees, Recorded(c, n, loc[n]))]

LEMMA RecordOneIs ==
  ASSUME TreeShape, loc \in [1..VRoot -> Int], NEW L \in SUBSET (1..VRoot), AntiChain(L),
         NEW n \in L, NEW c \in Node, parent(c) = n, NEW d, NEW st \in States(L, d)
  PROVE  RecordOne(st, c, n) \in States(L, d)
<1> DEFINE m == st.small
           q == st.subtrees
           R == RootsOf(q)
           r == Recorded(c, n, loc[n])
           f == Flag(m, tree.least_desc[c], c)
           u == Append(q, r)
<1>1. /\ m \in [Node -> Int] /\ q \in Seq(Recs)
      /\ Marked(m, R) /\ AntiChain(R) /\ Beside(L, R) /\ Cut(L, R) /\ (d => Once(q))
  BY DEF States, StateOK
<1>2. CASE m[c] # 0
  BY <1>2 DEF RecordOne
<1>3. CASE m[c] = 0
  <2>1. RecordOne(st, c, n) = [small |-> f, subtrees |-> u]
    BY <1>3 DEF RecordOne
  <2>2. R \in SUBSET Node
    BY <1>1, RootsAreNodes
  <2>3. r \in Recs /\ r.en = c
    <3>1. loc[n] \in Int
      OBVIOUS
    <3> QED BY <3>1, RecordedIs
  <2>4. c \notin R
    <3>1. c \in 1..VRoot
      BY NodeFacts
    <3>2. c \in Below(c)
      BY <3>1, BelowIs
    <3> HIDE DEF R, m
    <3> QED BY <1>1, <1>3, <3>2 DEF Marked
  <2>5. u \in Seq(Recs) /\ RootsOf(u) = R \cup {c} /\ (d => Once(u))
    <3> HIDE DEF r
    <3> QED BY <1>1, <2>3, <2>4, AppendRec
  <2> HIDE DEF u
  <2>6. AntiChain(R \cup {c}) /\ Beside(L, R \cup {c})
    <3> DEFINE X == {c}
    <3>1. X \in SUBSET {e \in Node : parent(e) = n}
      OBVIOUS
    <3>3. R \in SUBSET Node /\ AntiChain(R) /\ Beside(L, R)
      BY <1>1, <2>2
    <3> HIDE DEF R, X
    <3>4. Records(L, R, n, X)
      BY <3>1, <3>3 DEF Records
    <3>2. AntiChain(R \cup X) /\ Beside(L, R \cup X)
      BY <3>4, RecordKeeps
    <3> QED BY <3>2 DEF X
  <2> HIDE DEF R
  <2>7. Marked(f, R \cup {c})
    BY <1>1, <2>2, <2>6, FlagMarks
  <2>8. Cut(L, R \cup {c})
    BY <1>1 DEF Cut
  <2> HIDE DEF f
  <2>9. f \in [Node -> Int] /\ StateOK(f, u, L)
    BY <2>5, <2>6, <2>7, <2>8 DEF StateOK, Marked
  <2> QED BY <2>1, <2>5, <2>9 DEF States
<1> QED BY <1>2, <1>3

LEMMA RecordBelowIs ==
  ASSUME TreeShape, loc \in [1..VRoot -> Int], NEW L \in SUBSET (1..VRoot), AntiChain(L),
         NEW i \in L, NEW d, NEW st \in States(L, d)
  PROVE  RecordBelow(st, i) \in States(L, d)
<1> DEFINE seq == tree.child[i]
           n == Len(seq)
           base == st
           Op(s, c) == RecordOne(s, c, i)
           G(f) == [k \in 0..Len(seq) |->
                      IF k = 0 THEN base
                      ELSE CHOOSE r \in {Op(acc, seq[k]) : acc \in {f[k - 1]}} : TRUE]
           h == CHOOSE f : f = G(f)
           S == [k \in 0..n |-> States(L, d)]
           F == [k \in 1..n |-> [acc \in S[k - 1] |-> Op(acc, seq[k])]]
<1>1. RecordBelow(st, i) = h[n]
  BY DEF RecordBelow, Fold, RecordOne
<1>2. Len(seq) = n /\ n \in Nat /\ \A k \in 1..n : seq[k] \in Node /\ parent(seq[k]) = i
  <2>1. i \in 1..VRoot
    OBVIOUS
  <2>2. seq \in Seq(Node) /\ \A k \in 1..Len(seq) : seq[k] \in Node /\ parent(seq[k]) = i
    BY <2>1, ChildrenTile
  <2> HIDE DEF seq
  <2> QED BY <2>2, LenProperties
<1> HIDE DEF seq, n
<1>4. base \in S[0]
  BY <1>2
<1>5. ASSUME NEW k \in 1..n, NEW acc \in S[k - 1]
      PROVE  Op(acc, seq[k]) \in S[k]
  <2>1. acc \in States(L, d) /\ S[k] = States(L, d)
    BY <1>2
  <2> HIDE DEF S
  <2>2. Op(acc, seq[k]) \in States(L, d)
    BY <1>2, <2>1, RecordOneIs
  <2> QED BY <2>1, <2>2
<1>6. Steps(n, S, F)
  <2>1. \A k \in 1..n : F[k] \in [S[k - 1] -> S[k]]
    <3> HIDE DEF Op, S
    <3> QED BY <1>5
  <2> QED BY <2>1 DEF Steps
<1> HIDE DEF S
<1>7. \A k \in 1..n : \A acc \in S[k - 1] : F[k][acc] = Op(acc, seq[k])
  OBVIOUS
<1> HIDE DEF F, Op
<1>8. PICK g : Iterates(g, n, S, base, F)
  BY <1>2, <1>4, <1>6, IterateExists
<1>9. g = G(g)
  <2>1. /\ g = [k \in 0..n |-> g[k]] /\ g[0] = base
        /\ \A k \in 1..n : g[k] = F[k][g[k - 1]] /\ g[k - 1] \in S[k - 1]
    <3>1. \A k \in 1..n : k - 1 \in 0..n
      BY <1>2
    <3> QED BY <1>8, <3>1 DEF Iterates
  <2>2. \A k \in 1..n : g[k] = Op(g[k - 1], seq[k])
    BY <1>7, <2>1
  <2>3. ASSUME NEW k \in 0..n, k # 0
        PROVE  g[k] = CHOOSE r \in {Op(acc, seq[k]) : acc \in {g[k - 1]}} : TRUE
    <3>1. g[k] = Op(g[k - 1], seq[k])
      BY <1>2, <2>2, <2>3
    <3>2. {Op(acc, seq[k]) : acc \in {g[k - 1]}} = {g[k]}
      BY <3>1
    <3> QED BY <3>2
  <2> QED BY <1>2, <2>1, <2>3
<1>10. h = G(h)
  BY <1>9
<1> HIDE DEF h
<1>11. h[0] = base /\ \A k \in 1..n : h[k] = Op(h[k - 1], seq[k])
  <2>1. 0 \in 0..Len(seq) /\ h[0] = base
    BY <1>2, <1>10
  <2>2. ASSUME NEW k \in 1..n
        PROVE  h[k] = Op(h[k - 1], seq[k])
    <3>1. k \in 0..Len(seq) /\ k # 0
      BY <1>2
    <3>2. h[k] = CHOOSE r \in {Op(acc, seq[k]) : acc \in {h[k - 1]}} : TRUE
      BY <1>10, <3>1
    <3>3. {Op(acc, seq[k]) : acc \in {h[k - 1]}} = {Op(h[k - 1], seq[k])}
      OBVIOUS
    <3> QED BY <3>2, <3>3
  <2> QED BY <2>1, <2>2
<1>12. \A k \in 0..n : h[k] \in S[k]
  <2>1. h[0] = base /\ n \in Nat
    BY <1>2, <1>11
  <2>2. \A k \in 1..n : h[k - 1] \in S[k - 1] => h[k] = F[k][h[k - 1]]
    BY <1>7, <1>11
  <2> QED BY <1>4, <1>6, <2>1, <2>2, FoldSteps
<1>13. n \in 0..n /\ h[n] \in S[n]
  BY <1>2, <1>12
<1> QED BY <1>1, <1>13 DEF S

LEMMA RestIs ==
  ASSUME TreeShape, loc \in [1..VRoot -> Int], lzero \in Seq(1..VRoot), AntiChain(NodesOf(lzero)),
         NEW d, NEW st \in States(NodesOf(lzero), d)
  PROVE  Fold(RecordBelow, st, lzero) \in States(NodesOf(lzero), d)
<1> DEFINE seq == lzero
           n == Len(seq)
           base == st
           L == NodesOf(lzero)
           Op(s, i) == RecordBelow(s, i)
           G(f) == [k \in 0..Len(seq) |->
                      IF k = 0 THEN base
                      ELSE CHOOSE r \in {Op(acc, seq[k]) : acc \in {f[k - 1]}} : TRUE]
           h == CHOOSE f : f = G(f)
           S == [k \in 0..n |-> States(L, d)]
           F == [k \in 1..n |-> [acc \in S[k - 1] |-> Op(acc, seq[k])]]
<1>1. Fold(RecordBelow, st, lzero) = h[n]
  BY DEF Fold
<1>2. /\ Len(seq) = n /\ n \in Nat /\ L \in SUBSET (1..VRoot)
      /\ \A k \in 1..n : seq[k] \in L
  <2>1. Len(lzero) \in Nat /\ \A k \in 1..Len(lzero) : lzero[k] \in 1..VRoot
    BY LenProperties
  <2> QED BY <2>1 DEF NodesOf
<1> HIDE DEF seq, n, L
<1>3. AntiChain(L) /\ st \in States(L, d)
  BY DEF L
<1>4. base \in S[0]
  BY <1>2, <1>3
<1>5. ASSUME NEW k \in 1..n, NEW acc \in S[k - 1]
      PROVE  Op(acc, seq[k]) \in S[k]
  <2>1. acc \in States(L, d) /\ S[k] = States(L, d)
    BY <1>2
  <2> HIDE DEF S
  <2>2. Op(acc, seq[k]) \in States(L, d)
    BY <1>2, <1>3, <2>1, RecordBelowIs
  <2> QED BY <2>1, <2>2
<1>6. Steps(n, S, F)
  <2>1. \A k \in 1..n : F[k] \in [S[k - 1] -> S[k]]
    <3> HIDE DEF Op, S
    <3> QED BY <1>5
  <2> QED BY <2>1 DEF Steps
<1> HIDE DEF S
<1>7. \A k \in 1..n : \A acc \in S[k - 1] : F[k][acc] = Op(acc, seq[k])
  OBVIOUS
<1> HIDE DEF F, Op
<1>8. PICK g : Iterates(g, n, S, base, F)
  BY <1>2, <1>4, <1>6, IterateExists
<1>9. g = G(g)
  <2>1. /\ g = [k \in 0..n |-> g[k]] /\ g[0] = base
        /\ \A k \in 1..n : g[k] = F[k][g[k - 1]] /\ g[k - 1] \in S[k - 1]
    <3>1. \A k \in 1..n : k - 1 \in 0..n
      BY <1>2
    <3> QED BY <1>8, <3>1 DEF Iterates
  <2>2. \A k \in 1..n : g[k] = Op(g[k - 1], seq[k])
    BY <1>7, <2>1
  <2>3. ASSUME NEW k \in 0..n, k # 0
        PROVE  g[k] = CHOOSE r \in {Op(acc, seq[k]) : acc \in {g[k - 1]}} : TRUE
    <3>1. g[k] = Op(g[k - 1], seq[k])
      BY <1>2, <2>2, <2>3
    <3>2. {Op(acc, seq[k]) : acc \in {g[k - 1]}} = {g[k]}
      BY <3>1
    <3> QED BY <3>2
  <2> QED BY <1>2, <2>1, <2>3
<1>10. h = G(h)
  BY <1>9
<1> HIDE DEF h
<1>11. h[0] = base /\ \A k \in 1..n : h[k] = Op(h[k - 1], seq[k])
  <2>1. 0 \in 0..Len(seq) /\ h[0] = base
    BY <1>2, <1>10
  <2>2. ASSUME NEW k \in 1..n
        PROVE  h[k] = Op(h[k - 1], seq[k])
    <3>1. k \in 0..Len(seq) /\ k # 0
      BY <1>2
    <3>2. h[k] = CHOOSE r \in {Op(acc, seq[k]) : acc \in {h[k - 1]}} : TRUE
      BY <1>10, <3>1
    <3>3. {Op(acc, seq[k]) : acc \in {h[k - 1]}} = {Op(h[k - 1], seq[k])}
      OBVIOUS
    <3> QED BY <3>2, <3>3
  <2> QED BY <2>1, <2>2
<1>12. \A k \in 0..n : h[k] \in S[k]
  <2>1. h[0] = base /\ n \in Nat
    BY <1>2, <1>11
  <2>2. \A k \in 1..n : h[k - 1] \in S[k - 1] => h[k] = F[k][h[k - 1]]
    BY <1>7, <1>11
  <2> QED BY <1>4, <1>6, <2>1, <2>2, FoldSteps
<1>13. n \in 0..n /\ h[n] \in S[n]
  BY <1>2, <1>12
<1> QED BY <1>1, <1>13 DEF S, L

-----------------------------------------------------------------------------
(* The layer s, of which the first k nodes cannot be replaced.              *)

LayerAt(s, k, w) ==
  /\ s \in Seq(1..VRoot) /\ Len(s) > 0 /\ NoTwice(s) /\ k \in 0..Len(s)
  /\ w \in [1..VRoot -> Int]
  /\ AntiChain(NodesOf(s))

(* They are heavier than the others, and only below them is what has been   *)
(* recorded.                                                                *)
LeavesFirst(s, k) ==
  \A x \in 1..k : \A y \in (k + 1)..Len(s) : tree.weight[s[y]] < tree.weight[s[x]]

LeavesDone(s, k, R) ==
  \A c \in R : \A x \in 1..Len(s) : parent(c) = s[x] => x <= k

LEMMA OneNode ==
  ASSUME NEW v
  PROVE  <<v>> \in Seq({v}) /\ Len(<<v>>) = 1 /\ <<v>>[1] = v /\ NodesOf(<<v>>) = {v} /\ NoTwice(<<v>>)
<1>1. <<v>> \in Seq({v}) /\ Len(<<v>>) = 1 /\ <<v>>[1] = v
  OBVIOUS
<1>2. \A k \in 1..1 : k = 1
  OBVIOUS
<1> DEFINE s == <<v>>
<1>3. Len(s) = 1 /\ s[1] = v
  BY <1>1
<1> HIDE DEF s
<1>4. NodesOf(s) = {v} /\ NoTwice(s)
  BY <1>2, <1>3 DEF NodesOf, NoTwice
<1> QED BY <1>1, <1>4 DEF s

LEMMA FreshLayer ==
  ASSUME TreeShape
  PROVE  /\ LayerAt(<<VRoot>>, 0, [i \in 1..VRoot |-> nregion + 1])
         /\ StateOK([i \in Node |-> 0], <<>>, NodesOf(<<VRoot>>))
         /\ RootsOf(<<>>) = {} /\ Once(<<>>)
         /\ LeavesFirst(<<VRoot>>, 0) /\ LeavesDone(<<VRoot>>, 0, {})
<1> DEFINE s == <<VRoot>>
           w == [i \in 1..VRoot |-> nregion + 1]
           m == [i \in Node |-> 0]
           q == <<>>
<1>1. VRoot \in 1..VRoot /\ \A i \in 1..VRoot : i \in Below(VRoot)
  BY BelowRoot
<1>2. s \in Seq({VRoot}) /\ Len(s) = 1 /\ NodesOf(s) = {VRoot} /\ NoTwice(s)
  BY OneNode
<1>3. s \in Seq(1..VRoot)
  <2> HIDE DEF s
  <2>1. s \in [1..1 -> 1..VRoot]
    <3>1. s \in [1..Len(s) -> {VRoot}]
      BY <1>2, LenProperties
    <3> QED BY <1>1, <1>2, <3>1
  <2> QED BY <2>1, SeqDef
<1>4. w \in [1..VRoot -> Int]
  <2>1. nregion \in Nat
    BY RegionsIs
  <2> QED BY <2>1
<1> HIDE DEF s, w
<1>5. LayerAt(s, 0, w)
  BY <1>2, <1>3, <1>4 DEF LayerAt, AntiChain
<1>6. q \in Seq(Recs) /\ Len(q) = 0
  OBVIOUS
<1> HIDE DEF q
<1>7. RootsOf(q) = {} /\ Once(q)
  <2>1. 1..0 = {}
    OBVIOUS
  <2> QED BY <1>6, <2>1 DEF RootsOf, Once
<1>8. Marked(m, {})
  <2>1. m \in [Node -> Int] /\ \A i \in Node : m[i] = 0
    OBVIOUS
  <2> HIDE DEF m
  <2> QED BY <2>1 DEF Marked
<1> HIDE DEF m
<1>9. Cut(NodesOf(s), {})
  <2>1. \A i \in Node : i \in 1..VRoot
    BY NodeFacts
  <2> QED BY <1>1, <1>2, <2>1 DEF Cut
<1>10. StateOK(m, q, NodesOf(s))
  BY <1>6, <1>7, <1>8, <1>9 DEF StateOK, AntiChain, Beside
<1>11. LeavesFirst(s, 0) /\ LeavesDone(s, 0, {})
  <2>1. 1..0 = {}
    OBVIOUS
  <2> QED BY <2>1 DEF LeavesFirst, LeavesDone
<1> QED BY <1>5, <1>7, <1>10, <1>11 DEF s, w, m, q

(* A permutation that keeps the first k numbers together keeps the others.  *)
LEMMA PrefixKept ==
  ASSUME NEW N \in Nat, NEW k \in 0..N, NEW q \in Perms(N), \A x \in 1..k : q[x] <= k
  PROVE  \A y \in 1..N : q[y] <= k => y <= k
<1>1. /\ \A x \in 1..N : q[x] \in 1..N
      /\ \A x, y \in 1..N : x # y => q[x] # q[y]
  BY DEF Perms
<1> DEFINE T == 1..k
           f == [x \in T |-> q[x]]
<1>2. \A x \in T : x \in 1..N /\ q[x] \in T
  BY <1>1
<1>3. IsFiniteSet(T)
  BY FS_Interval
<1>4. f \in [T -> T] /\ \A x \in T : f[x] = q[x]
  BY <1>2
<1> HIDE DEF f, T
<1>5. f \in Injection(T, T)
  BY <1>1, <1>2, <1>4 DEF Injection, IsInjective
<1>6. f \in Surjection(T, T)
  BY <1>3, <1>5, FS_Injection
<1>7. \A z \in T : \E x \in T : f[x] = z
  BY <1>6 DEF Surjection
<1> USE DEF T
<1>8. ASSUME NEW y \in 1..N, q[y] <= k
      PROVE  y <= k
  <2>1. q[y] \in T
    BY <1>1, <1>8
  <2>2. PICK x \in T : q[x] = q[y]
    BY <1>4, <1>7, <2>1
  <2>3. x = y
    BY <1>1, <1>2, <2>2
  <2> QED BY <2>3
<1> QED BY <1>8

LEMMA PrefixFilled ==
  ASSUME NEW N \in Nat, NEW k \in 0..N, NEW q \in Perms(N), \A y \in 1..N : q[y] <= k => y <= k
  PROVE  \A x \in 1..k : q[x] <= k
<1>1. /\ \A x \in 1..N : q[x] \in 1..N
      /\ \A x, y \in 1..N : x # y => q[x] # q[y]
      /\ \A y \in 1..N : \E x \in 1..N : q[x] = y
  BY DEF Perms
<1> DEFINE r == [y \in 1..N |-> CHOOSE x \in 1..N : q[x] = y]
<1>2. \A y \in 1..N : r[y] \in 1..N /\ q[r[y]] = y
  BY <1>1
<1>3. r \in [1..N -> 1..N]
  BY <1>2
<1> HIDE DEF r
<1>4. \A x \in 1..N : r[q[x]] = x
  BY <1>1, <1>2
<1>5. r \in Perms(N)
  BY <1>1, <1>2, <1>3, <1>4 DEF Perms
<1>6. \A y \in 1..k : r[y] <= k
  <2> TAKE y \in 1..k
  <2>1. y \in 1..N /\ y <= k
    OBVIOUS
  <2>2. r[y] \in 1..N /\ q[r[y]] <= k
    BY <1>2, <2>1
  <2> QED BY <2>2
<1>7. \A y \in 1..N : r[y] <= k => y <= k
  BY <1>5, <1>6, PrefixKept
<1> TAKE x \in 1..k
<1>8. x \in 1..N /\ x <= k
  OBVIOUS
<1>9. q[x] \in 1..N /\ r[q[x]] <= k
  BY <1>1, <1>4, <1>8
<1> QED BY <1>7, <1>9

LEMMA SortLeaves ==
  ASSUME WeightsOK, NEW s \in Seq(1..VRoot), Len(s) > 0, NEW k \in 0..Len(s), LeavesFirst(s, k)
  PROVE  /\ LeavesFirst(sort(s), k)
         /\ \A R : LeavesDone(s, k, R) => LeavesDone(sort(s), k, R)
<1> DEFINE t == sort(s)
           N == Len(s)
<1>1. N \in Nat /\ N = Len(s) /\ k \in 0..N
  BY LenProperties
<1>2. /\ Len(t) = N /\ Decreasing(t) /\ Shuffles(t, s, N, 1, N) /\ t \in Seq(1..VRoot)
  BY SortLayer
<1> HIDE DEF t, N
<1>3. PICK q \in Perms(N) : \A x \in 1..N : t[x] = s[q[x]]
  BY <1>2 DEF Shuffles
<1>4. \A x \in 1..N : q[x] \in 1..N
  BY DEF Perms
<1>5. \A x \in 1..N : tree.weight[t[x]] \in Nat /\ tree.weight[s[x]] \in Nat
  <2>1. \A x \in 1..N : t[x] \in 1..VRoot /\ s[x] \in 1..VRoot
    BY <1>1, <1>2, LenProperties
  <2> QED BY <2>1 DEF WeightsOK
<1>6. \A x \in 1..k : q[x] <= k
  <2> SUFFICES ASSUME NEW x \in 1..k, ~ (q[x] <= k) PROVE FALSE
    OBVIOUS
  <2>1. x \in 1..N /\ q[x] \in (k + 1)..N
    BY <1>1, <1>4
  <2>2. ASSUME NEW y \in 1..N, q[y] <= k, ~ (y <= k)
        PROVE  FALSE
    <3>1. q[y] \in 1..k
      BY <1>1, <1>4, <2>2
    <3>2. tree.weight[s[q[x]]] < tree.weight[s[q[y]]]
      BY <1>1, <2>1, <3>1 DEF LeavesFirst
    <3>3. x <= y
      BY <1>1, <2>2
    <3>4. tree.weight[t[y]] <= tree.weight[t[x]]
      BY <1>2, <2>1, <3>3 DEF Decreasing
    <3>5. t[x] = s[q[x]] /\ t[y] = s[q[y]]
      BY <1>3, <2>1
    <3> QED BY <1>5, <2>1, <3>2, <3>4, <3>5
  <2>3. \A y \in 1..N : q[y] <= k => y <= k
    BY <2>2
  <2> QED BY <1>1, <2>3, PrefixFilled
<1>7. \A y \in 1..N : q[y] <= k => y <= k
  BY <1>1, <1>6, PrefixKept
<1>8. LeavesFirst(t, k)
  <2> SUFFICES ASSUME NEW x \in 1..k, NEW y \in (k + 1)..N
               PROVE  tree.weight[t[y]] < tree.weight[t[x]]
    BY <1>2 DEF LeavesFirst
  <2>1. x \in 1..N /\ y \in 1..N /\ ~ (y <= k)
    BY <1>1
  <2>2. q[x] \in 1..k /\ q[y] \in (k + 1)..N
    BY <1>1, <1>4, <1>6, <1>7, <2>1
  <2>3. tree.weight[s[q[y]]] < tree.weight[s[q[x]]]
    BY <1>1, <2>2 DEF LeavesFirst
  <2> QED BY <1>3, <2>1, <2>3
<1>9. ASSUME NEW R, LeavesDone(s, k, R)
      PROVE  LeavesDone(t, k, R)
  <2> SUFFICES ASSUME NEW c \in R, NEW x \in 1..N, parent(c) = t[x]
               PROVE  x <= k
    BY <1>2 DEF LeavesDone
  <2>1. parent(c) = s[q[x]] /\ q[x] \in 1..N
    BY <1>3, <1>4
  <2>2. q[x] <= k
    BY <1>1, <1>9, <2>1 DEF LeavesDone
  <2> QED BY <1>7, <2>2
<1> QED BY <1>8, <1>9 DEF t

-----------------------------------------------------------------------------
(* The children of a node of the layer, and the layer they replace it in.   *)

LEMMA ChildSet ==
  ASSUME TreeShape, NEW n \in 1..VRoot
  PROVE  ToSet(tree.child[n]) = {c \in Node : parent(c) = n}
<1> DEFINE s == tree.child[n]
<1>1. /\ s \in Seq(Node)
      /\ \A k \in 1..Len(s) : s[k] \in Node /\ parent(s[k]) = n
      /\ \A c \in Node : parent(c) = n => \E k \in 1..Len(s) : s[k] = c
  BY ChildrenTile
<1> HIDE DEF s
<1>2. DOMAIN s = 1..Len(s)
  BY <1>1, LenProperties
<1>3. ToSet(s) = {s[k] : k \in 1..Len(s)}
  BY <1>2 DEF ToSet
<1>4. ToSet(s) = {c \in Node : parent(c) = n}
  BY <1>1, <1>3
<1> QED BY <1>4 DEF s

LEMMA InOrderNodes ==
  ASSUME TreeShape, NEW B \in SUBSET Node
  PROVE  /\ InOrder(B) \in Seq(Node) /\ NodesOf(InOrder(B)) = B /\ NoTwice(InOrder(B))
         /\ InOrder(B) = <<>> <=> B = {}
<1> DEFINE s == InOrder(B)
<1>1. B \in SUBSET Nat /\ IsFiniteSet(B)
  <2>1. tree.n \in Nat
    BY NodeFacts
  <2>2. IsFiniteSet(Node)
    BY <2>1, FS_Interval DEF Node
  <2>3. IsFiniteSet(B)
    BY <2>2, FS_Subset
  <2> QED BY <2>3 DEF Node
<1>2. Enumerates(s, B)
  BY <1>1, InOrderIs
<1> HIDE DEF s
<1>3. /\ s \in Seq(B) /\ \A x \in B : \E k \in 1..Len(s) : s[k] = x
      /\ \A k, l \in 1..Len(s) : k < l => s[k] < s[l]
  BY <1>2 DEF Enumerates
<1>4. Len(s) \in Nat /\ s \in [1..Len(s) -> B] /\ \A k \in 1..Len(s) : s[k] \in B
  BY <1>3, LenProperties
<1>5. s \in Seq(Node)
  <2>1. s \in [1..Len(s) -> Node]
    BY <1>4
  <2> QED BY <1>4, <2>1, SeqDef
<1>6. NodesOf(s) = B
  BY <1>3, <1>4 DEF NodesOf
<1>7. NoTwice(s)
  <2> SUFFICES ASSUME NEW k \in 1..Len(s), NEW l \in 1..Len(s), k # l PROVE s[k] # s[l]
    BY DEF NoTwice
  <2>1. k < l \/ l < k
    BY <1>4
  <2>2. s[k] < s[l] \/ s[l] < s[k]
    BY <1>3, <2>1
  <2>3. s[k] \in Nat /\ s[l] \in Nat
    BY <1>1, <1>4
  <2> QED BY <2>2, <2>3
<1>8. s = <<>> <=> Len(s) = 0
  BY <1>3, EmptySeq
<1>9. Len(s) = 0 <=> B = {}
  <2>1. Len(s) = 0 => 1..Len(s) = {}
    BY <1>4
  <2>2. Len(s) # 0 => 1 \in 1..Len(s)
    BY <1>4
  <2> QED BY <1>3, <1>4, <2>1, <2>2
<1>10. s = <<>> <=> B = {}
  BY <1>8, <1>9
<1> QED BY <1>5, <1>6, <1>7, <1>10 DEF s

(* In the sequence s the element after the first l leaves; b joins at the   *)
(* end, and its last element takes the place left free.                     *)
Replaced(s, b, l) == Front([s \o b EXCEPT ![l + 1] = Last(s \o b)])

LEMMA ReplacedIs ==
  ASSUME NEW S, NEW s \in Seq(S), NEW b \in Seq(S), Len(b) > 0, NEW l \in 0..(Len(s) - 1)
  PROVE  /\ Replaced(s, b, l) \in Seq(S)
         /\ Len(Replaced(s, b, l)) = (Len(s) + Len(b)) - 1
         /\ \A x \in 1..((Len(s) + Len(b)) - 1) :
              Replaced(s, b, l)[x] = IF x = l + 1 THEN b[Len(b)]
                                     ELSE IF x <= Len(s) THEN s[x] ELSE b[x - Len(s)]
<1> DEFINE N == Len(s)
           K == Len(b)
           u == s \o b
           v == [u EXCEPT ![l + 1] = Last(u)]
           t == SubSeq(v, 1, Len(v) - 1)
<1>1. N \in Nat /\ K \in Nat /\ K > 0 /\ l \in 0..(N - 1)
  BY LenProperties
<1>2. /\ u \in Seq(S) /\ Len(u) = N + K
      /\ \A i \in 1..(N + K) : u[i] = IF i <= N THEN s[i] ELSE b[i - N]
  BY ConcatProperties
<1>3. Replaced(s, b, l) = t
  BY DEF Replaced, Front
<1>10. \A i \in 1..K : b[i] \in S
  BY LenProperties
<1> HIDE DEF N, K, u
<1>4. Last(u) = b[K] /\ b[K] \in S
  <2>1. N + K \in 1..(N + K) /\ ~ (N + K <= N) /\ (N + K) - N = K /\ K \in 1..K
    BY <1>1
  <2>2. u[N + K] = b[K]
    BY <1>2, <2>1
  <2> QED BY <1>2, <1>10, <2>1, <2>2 DEF Last
<1>5. l + 1 \in 1..(N + K)
  BY <1>1
<1>6. /\ v \in Seq(S) /\ Len(v) = N + K
      /\ \A i \in 1..(N + K) : v[i] = IF i = l + 1 THEN b[K] ELSE u[i]
  <2> DEFINE r == l + 1
             e == Last(u)
  <2>1. r \in 1..Len(u) /\ e \in S
    BY <1>2, <1>4, <1>5
  <2> HIDE DEF r, e
  <2>2. /\ [u EXCEPT ![r] = e] \in Seq(S) /\ Len([u EXCEPT ![r] = e]) = Len(u)
        /\ \A j \in 1..Len(u) : [u EXCEPT ![r] = e][j] = IF j = r THEN e ELSE u[j]
    BY <1>2, <2>1, ExceptSeq
  <2>3. v = [u EXCEPT ![r] = e]
    BY DEF r, e
  <2> HIDE DEF v
  <2>4. v \in Seq(S) /\ Len(v) = N + K /\ \A j \in 1..(N + K) : v[j] = IF j = r THEN e ELSE u[j]
    BY <1>2, <2>2, <2>3
  <2> QED BY <1>4, <2>4 DEF r, e
<1> HIDE DEF v
<1>7. /\ t \in Seq(S) /\ Len(t) = (N + K) - 1
      /\ \A i \in 1..((N + K) - 1) : t[i] = v[i]
  <2> DEFINE m == Len(v) - 1
  <2>1. m \in Int /\ m = (N + K) - 1 /\ 1 <= m /\ \A i \in 1..m : v[i] \in S
    <3>1. \A i \in 1..Len(v) : v[i] \in S
      BY <1>6, LenProperties
    <3> QED BY <1>1, <1>6, <3>1
  <2>2. t = SubSeq(v, 1, m)
    OBVIOUS
  <2> HIDE DEF m, t
  <2>3. /\ t \in Seq(S) /\ Len(t) = (IF 1 <= m THEN m - 1 + 1 ELSE 0)
        /\ \A i \in 1..(m - 1 + 1) : t[i] = v[1 + i - 1]
    BY <2>1, <2>2, SubSeqProperties
  <2>4. m - 1 + 1 = m /\ \A i \in 1..m : 1 + i - 1 = i
    BY <2>1
  <2>5. Len(t) = m /\ \A i \in 1..m : t[i] = v[i]
    BY <2>1, <2>3, <2>4
  <2> QED BY <2>1, <2>3, <2>5
<1> HIDE DEF t
<1>8. ASSUME NEW x \in 1..((N + K) - 1)
      PROVE  t[x] = IF x = l + 1 THEN b[K] ELSE IF x <= N THEN s[x] ELSE b[x - N]
  <2>1. x \in 1..(N + K)
    BY <1>1
  <2> QED BY <1>2, <1>6, <1>7, <2>1
<1> QED BY <1>3, <1>7, <1>8 DEF N, K

LEMMA ReplacedNodes ==
  ASSUME NEW S, NEW s \in Seq(S), NEW b \in Seq(S), Len(b) > 0, NEW l \in 0..(Len(s) - 1),
         NoTwice(s), NoTwice(b), NodesOf(s) \cap NodesOf(b) = {}
  PROVE  /\ NodesOf(Replaced(s, b, l)) = (NodesOf(s) \ {s[l + 1]}) \cup NodesOf(b)
         /\ NoTwice(Replaced(s, b, l))
         /\ \A x \in 1..Len(Replaced(s, b, l)) :
              \/ Replaced(s, b, l)[x] \in NodesOf(b) /\ x \notin 1..l
              \/ x \in 1..Len(s) /\ x # l + 1 /\ Replaced(s, b, l)[x] = s[x]
<1> DEFINE N == Len(s)
           K == Len(b)
           t == Replaced(s, b, l)
           M == (Len(s) + Len(b)) - 1
<1>1. N \in Nat /\ K \in Nat /\ K > 0 /\ l \in 0..(N - 1) /\ M = (N + K) - 1
  BY LenProperties
<1>2. /\ Len(t) = M
      /\ \A x \in 1..M : t[x] = IF x = l + 1 THEN b[K] ELSE IF x <= N THEN s[x] ELSE b[x - N]
  BY ReplacedIs
<1>3. NodesOf(s) = {s[x] : x \in 1..N} /\ NodesOf(b) = {b[x] : x \in 1..K}
  BY DEF NodesOf
<1>4. /\ \A x, y \in 1..N : x # y => s[x] # s[y]
      /\ \A x, y \in 1..K : x # y => b[x] # b[y]
  BY DEF NoTwice
<1>5. \A x \in 1..N, y \in 1..K : s[x] # b[y]
  BY <1>3
<1> HIDE DEF N, K, t, M
<1>6. \A x \in 1..M :
        \/ x = l + 1 /\ K \in 1..K /\ t[x] = b[K]
        \/ x # l + 1 /\ x \in 1..N /\ t[x] = s[x]
        \/ x # l + 1 /\ x - N \in 1..(K - 1) /\ x - N \in 1..K /\ x \notin 1..N /\ t[x] = b[x - N]
  <2> TAKE x \in 1..M
  <2>1. K \in 1..K
    BY <1>1
  <2>2. CASE x = l + 1
    BY <1>2, <2>1, <2>2
  <2>3. CASE x # l + 1 /\ x <= N
    BY <1>1, <1>2, <2>3
  <2>4. CASE x # l + 1 /\ ~ (x <= N)
    BY <1>1, <1>2, <2>4
  <2> QED BY <2>2, <2>3, <2>4
<1>7. NodesOf(t) = {t[x] : x \in 1..M}
  BY <1>2 DEF NodesOf
<1>8. l + 1 \in 1..N /\ l + 1 \in 1..M
  BY <1>1
<1>9. \A x \in 1..N : x # l + 1 => x \in 1..M /\ t[x] = s[x]
  BY <1>1, <1>2
<1>10. \A y \in 1..K : \E x \in 1..M : t[x] = b[y]
  <2> TAKE y \in 1..K
  <2>1. CASE y = K
    BY <1>2, <1>8, <2>1
  <2>2. CASE y # K
    <3>1. N + y \in 1..M /\ N + y # l + 1 /\ ~ (N + y <= N) /\ (N + y) - N = y
      BY <1>1, <2>2
    <3>2. t[N + y] = b[y]
      BY <1>2, <3>1
    <3> QED BY <3>1, <3>2
  <2> QED BY <2>1, <2>2
<1>11. NodesOf(t) = (NodesOf(s) \ {s[l + 1]}) \cup NodesOf(b)
  <2>1. NodesOf(t) \subseteq (NodesOf(s) \ {s[l + 1]}) \cup NodesOf(b)
    <3> SUFFICES ASSUME NEW e \in NodesOf(t)
                 PROVE  e \in (NodesOf(s) \ {s[l + 1]}) \cup NodesOf(b)
      OBVIOUS
    <3>1. PICK x \in 1..M : e = t[x]
      BY <1>7
    <3> QED BY <1>3, <1>4, <1>6, <1>8, <3>1
  <2>2. NodesOf(b) \subseteq NodesOf(t)
    BY <1>3, <1>7, <1>10
  <2>3. NodesOf(s) \ {s[l + 1]} \subseteq NodesOf(t)
    BY <1>3, <1>7, <1>9
  <2> QED BY <2>1, <2>2, <2>3
<1>12. NoTwice(t)
  <2> SUFFICES ASSUME NEW x \in 1..M, NEW y \in 1..M, x # y PROVE t[x] # t[y]
    BY <1>2 DEF NoTwice
  <2>1. x = l + 1 => y # l + 1
    OBVIOUS
  <2>2. \A z \in 1..M : z \in Int
    OBVIOUS
  <2>3. x - N # y - N /\ (x - N # K \/ x - N \notin 1..(K - 1))
    BY <1>1
  <2>4. y - N # K \/ y - N \notin 1..(K - 1)
    BY <1>1
  <2> QED BY <1>4, <1>5, <1>6, <2>1, <2>3, <2>4
<1>13. ASSUME NEW x \in 1..M
       PROVE  \/ t[x] \in NodesOf(b) /\ x \notin 1..l
              \/ x \in 1..N /\ x # l + 1 /\ t[x] = s[x]
  <2>1. x = l + 1 => x \notin 1..l
    BY <1>1
  <2>2. x \notin 1..N => x \notin 1..l
    BY <1>1
  <2> QED BY <1>3, <1>6, <2>1, <2>2
<1> QED BY <1>2, <1>11, <1>12, <1>13 DEF t, N, M

-----------------------------------------------------------------------------
(* One node of the layer is pushed down.                                    *)

FlaggedAll(m, cs) == Fold(LAMBDA marks, c : Flag(marks, tree.least_desc[c], c), m, cs)
RecordedAll(q, cs, n, p) == q \o [k \in DOMAIN cs |-> Recorded(cs[k], n, p)]

LEMMA LayerNodes ==
  ASSUME NEW s, NEW k, NEW w, LayerAt(s, k, w)
  PROVE  /\ Len(s) \in Nat \ {0} /\ k \in 0..Len(s) /\ NodesOf(s) \in SUBSET (1..VRoot)
         /\ \A x \in 1..Len(s) : s[x] \in 1..VRoot /\ s[x] \in NodesOf(s)
         /\ \A x, y \in 1..Len(s) : x # y => s[x] # s[y] /\ s[x] \notin Below(s[y])
<1>1. s \in Seq(1..VRoot) /\ Len(s) > 0 /\ NoTwice(s) /\ AntiChain(NodesOf(s)) /\ k \in 0..Len(s)
  BY DEF LayerAt
<1>2. Len(s) \in Nat \ {0} /\ \A x \in 1..Len(s) : s[x] \in 1..VRoot
  <2>1. Len(s) \in Nat /\ s \in [1..Len(s) -> 1..VRoot]
    BY <1>1, LenProperties
  <2> QED BY <1>1, <2>1
<1>3. \A x \in 1..Len(s) : s[x] \in NodesOf(s)
  BY DEF NodesOf
<1>4. NodesOf(s) \in SUBSET (1..VRoot)
  BY <1>2 DEF NodesOf
<1>5. \A x, y \in 1..Len(s) : x # y => s[x] # s[y]
  BY <1>1 DEF NoTwice
<1>6. \A x, y \in 1..Len(s) : x # y => s[x] \notin Below(s[y])
  BY <1>1, <1>3, <1>5 DEF AntiChain
<1> QED BY <1>1, <1>2, <1>3, <1>4, <1>5, <1>6

LEMMA RecordAllIs ==
  ASSUME TreeShape, NEW L \in SUBSET (1..VRoot), AntiChain(L), NEW m, NEW q, StateOK(m, q, L),
         NEW n \in L, NEW X \in SUBSET {c \in Node : parent(c) = n}, NEW p \in Int
  PROVE  /\ StateOK(FlaggedAll(m, InOrder(X)), RecordedAll(q, InOrder(X), n, p), L)
         /\ RootsOf(RecordedAll(q, InOrder(X), n, p)) = RootsOf(q) \cup X
         /\ Once(q) /\ RootsOf(q) \cap X = {} => Once(RecordedAll(q, InOrder(X), n, p))
<1> DEFINE cs == InOrder(X)
           u == RecordedAll(q, cs, n, p)
           f == FlaggedAll(m, cs)
           R == RootsOf(q)
<1>1. cs \in Seq(Node) /\ NodesOf(cs) = X /\ NoTwice(cs)
  BY InOrderNodes
<1>2. q \in Seq(Recs) /\ Marked(m, R) /\ AntiChain(R) /\ Beside(L, R) /\ Cut(L, R)
  BY DEF StateOK
<1>3. R \in SUBSET Node
  BY <1>2, RootsAreNodes
<1> HIDE DEF cs
<1>4. n \in 1..VRoot
  OBVIOUS
<1>5. /\ u \in Seq(Recs) /\ RootsOf(u) = R \cup NodesOf(cs)
      /\ Once(q) /\ NoTwice(cs) /\ R \cap NodesOf(cs) = {} => Once(u)
  <2> DEFINE r == q \o [k \in DOMAIN cs |-> Recorded(cs[k], n, p)]
  <2>1. /\ r \in Seq(Recs) /\ RootsOf(r) = RootsOf(q) \cup NodesOf(cs)
        /\ Once(q) /\ NoTwice(cs) /\ RootsOf(q) \cap NodesOf(cs) = {} => Once(r)
    BY <1>1, <1>2, <1>4, ConcatRecs
  <2>2. u = r
    BY DEF RecordedAll
  <2> HIDE DEF r, u
  <2> QED BY <2>1, <2>2
<1> HIDE DEF u, R
<1>6. AntiChain(R \cup X) /\ Beside(L, R \cup X)
  <2>1. Records(L, R, n, X)
    BY <1>2, <1>3 DEF Records
  <2> QED BY <2>1, RecordKeeps
<1>7. Marked(f, R \cup X)
  <2>1. AntiChain(R \cup NodesOf(cs))
    BY <1>1, <1>6
  <2>2. Marked(Fold(LAMBDA marks, c : Flag(marks, tree.least_desc[c], c), m, cs), R \cup NodesOf(cs))
    BY <1>1, <1>2, <1>3, <2>1, FlagAll
  <2>3. Marked(f, R \cup NodesOf(cs))
    BY <2>2 DEF FlaggedAll
  <2> QED BY <1>1, <2>3
<1> HIDE DEF f
<1>8. Cut(L, R \cup X)
  BY <1>2 DEF Cut
<1>9. StateOK(f, u, L)
  BY <1>1, <1>5, <1>6, <1>7, <1>8 DEF StateOK
<1> QED BY <1>1, <1>5, <1>9 DEF cs, u, f, R

(* Its children are not recorded yet.                                       *)
LEMMA NewRoots ==
  ASSUME NEW s, NEW k, NEW w, LayerAt(s, k, w), k # Len(s), NEW R, LeavesDone(s, k, R),
         NEW X \in SUBSET {c \in Node : parent(c) = s[k + 1]}
  PROVE  R \cap X = {}
<1>1. k + 1 \in 1..Len(s) /\ ~ (k + 1 <= k)
  BY LayerNodes
<1>2. ASSUME NEW c \in R \cap X PROVE FALSE
  <2>1. parent(c) = s[k + 1] /\ c \in R
    OBVIOUS
  <2> QED BY <1>1, <2>1 DEF LeavesDone
<1> QED BY <1>2

(* A node without a big child stays, and is counted.                        *)
LEMMA LeafCounted ==
  ASSUME TreeShape, WeightsOK, NEW s, NEW k, NEW w, LayerAt(s, k, w), k # Len(s),
         Decreasing(s), ~ Tied, LeavesFirst(s, k), NEW R, LeavesDone(s, k, R),
         NEW X \in SUBSET {c \in Node : parent(c) = s[k + 1]}
  PROVE  LeavesFirst(s, k + 1) /\ LeavesDone(s, k + 1, R \cup X)
<1> DEFINE N == Len(s)
           j == k + 1
<1>1. /\ N \in Nat /\ k \in 0..N /\ k # N
      /\ \A x \in 1..N : s[x] \in 1..VRoot
      /\ \A x, y \in 1..N : x # y => s[x] # s[y] /\ s[x] \notin Below(s[y])
  BY LayerNodes
<1>2. N = Len(s)
  OBVIOUS
<1> HIDE DEF N
<1>3. j \in 1..N /\ j \in Nat
  BY <1>1
<1>4. ASSUME NEW x \in 1..j, NEW y \in (j + 1)..N
      PROVE  tree.weight[s[y]] < tree.weight[s[x]]
  <2>1. x \in 1..N /\ y \in 1..N /\ x # y /\ y \in j..N /\ x <= y /\ y \in (k + 1)..N
    BY <1>1, <1>3
  <2>2. CASE x \in 1..k
    BY <1>2, <2>1, <2>2 DEF LeavesFirst
  <2>3. CASE x \notin 1..k
    <3>1. x = j
      BY <1>1, <2>3
    <3>2. tree.weight[s[y]] <= tree.weight[s[x]]
      BY <1>2, <2>1 DEF Decreasing
    <3>3. s[x] \in 1..VRoot /\ s[y] \in 1..VRoot /\ s[x] \notin Below(s[y]) /\ s[y] \notin Below(s[x])
      BY <1>1, <2>1
    <3>4. s[x] \in Node /\ s[y] \in Node
      BY <3>3, NodeFacts, BelowRoot
    <3>5. tree.weight[s[y]] # tree.weight[s[x]]
      BY <3>3, <3>4 DEF Tied
    <3>6. tree.weight[s[y]] \in Nat /\ tree.weight[s[x]] \in Nat
      BY <3>3 DEF WeightsOK
    <3> QED BY <3>2, <3>5, <3>6
  <2> QED BY <2>2, <2>3
<1>5. LeavesFirst(s, j)
  BY <1>2, <1>4 DEF LeavesFirst
<1>6. ASSUME NEW c \in R \cup X, NEW x \in 1..N, parent(c) = s[x]
      PROVE  x <= j
  <2>1. CASE c \in R
    <3>1. x <= k
      BY <1>2, <1>6, <2>1 DEF LeavesDone
    <3> QED BY <1>1, <3>1
  <2>2. CASE c \in X
    <3>1. parent(c) = s[j]
      BY <2>2
    <3>2. x = j
      BY <1>1, <1>3, <1>6, <3>1
    <3> QED BY <1>3, <3>2
  <2> QED BY <2>1, <2>2
<1>7. LeavesDone(s, j, R \cup X)
  BY <1>2, <1>6 DEF LeavesDone
<1> QED BY <1>5, <1>7

(* A node with big children B leaves the layer to them.                     *)
LEMMA LayerReplaced ==
  ASSUME TreeShape, NEW s, NEW k, NEW w, LayerAt(s, k, w), k # Len(s),
         NEW B \in SUBSET {c \in Node : parent(c) = s[k + 1]}, B # {}
  PROVE  LET t == Replaced(s, InOrder(B), k) IN
         /\ t \in Seq(1..VRoot) /\ Len(t) > 0 /\ NoTwice(t) /\ k \in 0..Len(t)
         /\ NodesOf(t) = (NodesOf(s) \ {s[k + 1]}) \cup B
         /\ \A x \in 1..Len(t) : \/ t[x] \in B /\ x \notin 1..k
                                 \/ x \in 1..Len(s) /\ x # k + 1 /\ t[x] = s[x]
<1> DEFINE bs == InOrder(B)
           t == Replaced(s, bs, k)
<1>1. s \in Seq(1..VRoot) /\ NoTwice(s)
  BY DEF LayerAt
<1>2. /\ Len(s) \in Nat \ {0} /\ k \in 0..Len(s) /\ k + 1 \in 1..Len(s) /\ k \in 0..(Len(s) - 1)
      /\ s[k + 1] \in 1..VRoot
      /\ \A x, y \in 1..Len(s) : x # y => s[x] \notin Below(s[y])
  BY LayerNodes
<1>3. bs \in Seq(Node) /\ NodesOf(bs) = B /\ NoTwice(bs) /\ bs # <<>>
  BY InOrderNodes
<1> HIDE DEF bs
<1>4. bs \in Seq(1..VRoot) /\ Len(bs) \in Nat \ {0}
  <2>1. Len(bs) \in Nat /\ \A x \in 1..Len(bs) : bs[x] \in 1..VRoot
    BY <1>3, LenProperties, NodeFacts
  <2>2. bs \in [1..Len(bs) -> 1..VRoot]
    BY <1>3, <2>1, LenProperties
  <2>3. Len(bs) # 0
    BY <1>3, EmptySeq
  <2>4. bs \in Seq(1..VRoot)
    BY <2>1, <2>2, IsSeq
  <2> QED BY <2>1, <2>3, <2>4
<1>5. NodesOf(s) \cap NodesOf(bs) = {}
  <2> SUFFICES ASSUME NEW x \in 1..Len(s), s[x] \in B PROVE FALSE
    BY <1>3 DEF NodesOf
  <2>1. s[x] \in Node /\ parent(s[x]) = s[k + 1]
    OBVIOUS
  <2>2. s[x] \in Below(s[k + 1]) /\ s[x] # s[k + 1]
    <3>1. s[x] \in Below(parent(s[x])) /\ parent(s[x]) > s[x] /\ s[x] \in Nat
      BY <2>1, ChildBelow, NodeFacts
    <3> QED BY <2>1, <3>1
  <2>3. x = k + 1
    BY <1>2, <2>2
  <2> QED BY <2>2, <2>3
<1> DEFINE M == (Len(s) + Len(bs)) - 1
<1>6. t \in Seq(1..VRoot) /\ Len(t) = M
  BY <1>1, <1>2, <1>4, ReplacedIs
<1>7. /\ NodesOf(t) = (NodesOf(s) \ {s[k + 1]}) \cup NodesOf(bs) /\ NoTwice(t)
      /\ \A x \in 1..Len(t) : \/ t[x] \in NodesOf(bs) /\ x \notin 1..k
                              \/ x \in 1..Len(s) /\ x # k + 1 /\ t[x] = s[x]
  BY <1>1, <1>2, <1>3, <1>4, <1>5, ReplacedNodes
<1> HIDE DEF t
<1>8. Len(t) > 0 /\ k \in 0..Len(t)
  BY <1>2, <1>4, <1>6
<1> QED BY <1>3, <1>6, <1>7, <1>8 DEF t, bs

LEMMA BigReplaces ==
  ASSUME TreeShape, WeightsOK, NEW s, NEW k, NEW w, LayerAt(s, k, w), k # Len(s),
         NEW m, NEW q, StateOK(m, q, NodesOf(s)),
         NEW X \in SUBSET Node, NEW B \in SUBSET Node, B # {},
         X \cup B = {c \in Node : parent(c) = s[k + 1]}, X \cap B = {}, B \cap RootsOf(q) = {},
         NEW f, NEW u, StateOK(f, u, NodesOf(s)), RootsOf(u) = RootsOf(q) \cup X
  PROVE  /\ LayerAt(Replaced(s, InOrder(B), k), k, w)
         /\ StateOK(f, u, NodesOf(Replaced(s, InOrder(B), k)))
         /\ LeavesFirst(s, k) => LeavesFirst(Replaced(s, InOrder(B), k), k)
         /\ LeavesDone(s, k, RootsOf(q)) => LeavesDone(Replaced(s, InOrder(B), k), k, RootsOf(u))
<1> DEFINE t == Replaced(s, InOrder(B), k)
           n == s[k + 1]
           L == NodesOf(s)
           R == RootsOf(q)
           K == (L \ {n}) \cup B
           Q == R \cup X
<1>1. /\ t \in Seq(1..VRoot) /\ Len(t) > 0 /\ NoTwice(t) /\ k \in 0..Len(t)
      /\ NodesOf(t) = K
      /\ \A x \in 1..Len(t) : \/ t[x] \in B /\ x \notin 1..k
                              \/ x \in 1..Len(s) /\ x # k + 1 /\ t[x] = s[x]
  BY LayerReplaced
<1> HIDE DEF t
<1>2. /\ Len(s) \in Nat /\ k \in 0..Len(s) /\ L \in SUBSET (1..VRoot) /\ k + 1 \in 1..Len(s)
      /\ \A x \in 1..Len(s) : s[x] \in 1..VRoot /\ s[x] \in L
      /\ \A x, y \in 1..Len(s) : x # y => s[x] # s[y] /\ s[x] \notin Below(s[y])
  BY LayerNodes
<1>3. AntiChain(L) /\ w \in [1..VRoot -> Int]
  BY DEF LayerAt
<1>4. /\ q \in Seq(Recs) /\ Marked(m, R) /\ AntiChain(R) /\ Beside(L, R) /\ Cut(L, R)
      /\ u \in Seq(Recs) /\ Marked(f, R \cup X) /\ AntiChain(R \cup X)
  BY DEF StateOK
<1>5. R \in SUBSET Node /\ n \in L /\ n \in 1..VRoot
  BY <1>2, <1>4, RootsAreNodes
<1>6. B \cap (R \cup X) = {} /\ X \cup B = {c \in Node : parent(c) = n}
  OBVIOUS
<1> HIDE DEF L, R, n
<1>7. K \in SUBSET (1..VRoot) /\ AntiChain(K) /\ Beside(K, R \cup X) /\ Cut(K, R \cup X)
  <2>1. Descends(L, R, n, X, B, K, Q)
    BY <1>2, <1>3, <1>4, <1>5, <1>6 DEF Descends
  <2> HIDE DEF K, Q
  <2>2. K \in SUBSET (1..VRoot) /\ AntiChain(K) /\ Beside(K, Q) /\ Cut(K, Q)
    BY <2>1, DescendKeeps
  <2> QED BY <2>2 DEF Q
<1> HIDE DEF K
<1>8. LayerAt(t, k, w)
  BY <1>1, <1>3, <1>7 DEF LayerAt
<1>9. RootsOf(u) = R \cup X
  BY DEF R
<1>10. StateOK(f, u, NodesOf(t))
  BY <1>1, <1>4, <1>7, <1>9 DEF StateOK
<1>11. ASSUME NEW b \in B
       PROVE  /\ b \in Node /\ parent(b) = n /\ b \in Below(n) /\ b # n
              /\ tree.weight[b] \in Nat /\ tree.weight[n] \in Nat /\ tree.weight[b] <= tree.weight[n]
              /\ b \in 1..VRoot
  <2>1. b \in Node /\ parent(b) = n
    BY <1>6
  <2>2. b \in Below(n) /\ b # n /\ b \in 1..VRoot
    BY <2>1, ChildBelow, ParentAbove
  <2> QED BY <1>5, <2>1, <2>2 DEF WeightsOK
<1>12. ASSUME LeavesFirst(s, k)
       PROVE  LeavesFirst(t, k)
  <2> SUFFICES ASSUME NEW x \in 1..k, NEW y \in (k + 1)..Len(t)
               PROVE  tree.weight[t[y]] < tree.weight[t[x]]
    BY DEF LeavesFirst
  <2>1. Len(t) \in Nat
    BY <1>1, LenProperties
  <2>2. x \in 1..Len(t) /\ y \in 1..Len(t)
    BY <1>1, <1>2, <2>1
  <2>3. t[x] = s[x] /\ x \in 1..Len(s) /\ tree.weight[t[x]] \in Nat
    BY <1>1, <1>2, <2>2 DEF WeightsOK
  <2>4. CASE t[y] \in B
    <3>1. k + 1 \in (k + 1)..Len(s)
      BY <1>2
    <3>2. tree.weight[s[k + 1]] < tree.weight[s[x]]
      BY <1>12, <3>1 DEF LeavesFirst
    <3>3. tree.weight[t[y]] \in Nat /\ tree.weight[n] \in Nat /\ tree.weight[t[y]] <= tree.weight[n]
      BY <1>11, <2>4
    <3> QED BY <2>3, <3>2, <3>3 DEF n
  <2>5. CASE y \in 1..Len(s) /\ t[y] = s[y]
    <3>1. y \in (k + 1)..Len(s)
      BY <1>2, <2>5
    <3> QED BY <1>12, <2>3, <2>5, <3>1 DEF LeavesFirst
  <2> QED BY <1>1, <2>2, <2>4, <2>5
<1>13. ASSUME LeavesDone(s, k, R)
       PROVE  LeavesDone(t, k, R \cup X)
  <2> SUFFICES ASSUME NEW c \in R \cup X, NEW x \in 1..Len(t), parent(c) = t[x]
               PROVE  x <= k
    BY DEF LeavesDone
  <2>1. c \in Node
    BY <1>5
  <2>2. CASE t[x] \in B
    <3> DEFINE b == t[x]
    <3>1. b \in Node /\ parent(b) = n /\ b \in Below(n) /\ b # n /\ b \in 1..VRoot /\ n \notin Below(b)
      BY <1>11, <2>2, ParentAbove
    <3>2. c \in Below(b) /\ parent(c) = b
      BY <2>1, ChildBelow
    <3> HIDE DEF b
    <3>3. c \in Below(n)
      BY <1>5, <3>1, <3>2, BelowNested
    <3>4. c \notin R
      BY <1>4, <1>5, <3>1, <3>2, <3>3 DEF Beside
    <3>5. c \in X
      BY <3>4
    <3>6. parent(c) = n
      BY <1>6, <3>5
    <3> QED BY <3>1, <3>2, <3>6
  <2>3. CASE x \in 1..Len(s) /\ x # k + 1 /\ t[x] = s[x]
    <3>1. CASE c \in R
      BY <1>13, <2>3, <3>1 DEF LeavesDone
    <3>2. CASE c \in X
      <4>1. parent(c) = s[k + 1]
        BY <1>6, <3>2 DEF n
      <4> QED BY <1>2, <2>3, <4>1
    <3> QED BY <3>1, <3>2
  <2> QED BY <1>1, <2>2, <2>3
<1> QED BY <1>8, <1>9, <1>10, <1>12, <1>13 DEF t, R

-----------------------------------------------------------------------------
(* prune_tree, step by step.                                                *)

PruneInv ==
  ~ tree.omp =>
    /\ LayerAt(lzero, leaves, loc)
    /\ StateOK(small, subtrees, NodesOf(lzero))
    /\ pc # "done" => \A c \in RootsOf(subtrees) : ~ Big(c)
    /\ pc = "findn" => Decreasing(lzero)

(* No root is recorded twice, as long as equal weights do not change the    *)
(* order of the layer.                                                      *)
OnceInv ==
  ~ tree.omp /\ ~ Tied =>
    /\ Once(subtrees)
    /\ pc \in {"godown", "findn"} =>
         /\ LeavesFirst(lzero, leaves)
         /\ LeavesDone(lzero, leaves, RootsOf(subtrees))

LEMMA WeightsSame ==
  ASSUME UNCHANGED tree
  PROVE  (WeightsOK => WeightsOK') /\ (Tied => Tied')
<1>1. WeightsOK => WeightsOK'
  BY DEF WeightsOK, Node, VRoot, parent
<1>2. Tied => Tied'
  BY DEF Tied, Node, Below
<1> QED BY <1>1, <1>2

(* What holds of the values a step gives the variables holds after it.      *)
LEMMA LayerNext ==
  ASSUME UNCHANGED tree, NEW s, lzero' = s, NEW k, leaves' = k, NEW w, loc' = w
  PROVE  /\ LayerAt(s, k, w) => LayerAt(lzero, leaves, loc)'
         /\ Decreasing(s) => Decreasing(lzero)'
         /\ LeavesFirst(s, k) => LeavesFirst(lzero, leaves)'
<1>1. LayerAt(s, k, w) => LayerAt(lzero, leaves, loc)'
  BY DEF LayerAt, NoTwice, AntiChain, NodesOf, Below, VRoot
<1>2. Decreasing(s) => Decreasing(lzero)'
  BY DEF Decreasing
<1>3. LeavesFirst(s, k) => LeavesFirst(lzero, leaves)'
  BY DEF LeavesFirst
<1> QED BY <1>1, <1>2, <1>3

LEMMA RecordsNext ==
  ASSUME UNCHANGED tree, NEW s, lzero' = s, NEW k, leaves' = k,
         NEW m, small' = m, NEW q, subtrees' = q
  PROVE  /\ StateOK(m, q, NodesOf(s)) => StateOK(small, subtrees, NodesOf(lzero))'
         /\ LeavesDone(s, k, RootsOf(q)) => LeavesDone(lzero, leaves, RootsOf(subtrees))'
         /\ Once(q) => Once(subtrees)'
<1>1. q \in Seq(Recs) => (subtrees \in Seq(Recs))'
  BY DEF Recs, Node
<1>2. Marked(m, RootsOf(q)) => Marked(small, RootsOf(subtrees))'
  BY DEF Marked, RootsOf, Node, Below
<1>3. AntiChain(RootsOf(q)) => AntiChain(RootsOf(subtrees))'
  BY DEF AntiChain, RootsOf, Below
<1>4. Beside(NodesOf(s), RootsOf(q)) => Beside(NodesOf(lzero), RootsOf(subtrees))'
  BY DEF Beside, NodesOf, RootsOf, Below, parent
<1>5. Cut(NodesOf(s), RootsOf(q)) => Cut(NodesOf(lzero), RootsOf(subtrees))'
  BY DEF Cut, NodesOf, RootsOf, Below, Node
<1>6. StateOK(m, q, NodesOf(s)) => StateOK(small, subtrees, NodesOf(lzero))'
  BY <1>1, <1>2, <1>3, <1>4, <1>5 DEF StateOK
<1>7. LeavesDone(s, k, RootsOf(q)) => LeavesDone(lzero, leaves, RootsOf(subtrees))'
  BY DEF LeavesDone, RootsOf, parent
<1>8. Once(q) => Once(subtrees)'
  BY DEF Once
<1> QED BY <1>6, <1>7, <1>8

LEMMA LightNext ==
  ASSUME UNCHANGED <<tree, halvings>>, NEW q, subtrees' = q, \A c \in RootsOf(q) : ~ Big(c)
  PROVE  (\A c \in RootsOf(subtrees) : ~ Big(c))'
BY DEF RootsOf, Big, totflops, VRoot

LEMMA PruneInit == Init => WeightsOK /\ PruneInv /\ OnceInv
<1> SUFFICES ASSUME Init PROVE WeightsOK /\ PruneInv /\ OnceInv
  OBVIOUS
<1>1. TreeShape /\ WeightsOK
  BY TreeShapeInit, WeightsInit DEF Init
<1>2. /\ lzero = <<VRoot>> /\ leaves = 0 /\ loc = [i \in 1..VRoot |-> nregion + 1]
      /\ small = [i \in Node |-> 0] /\ subtrees = <<>>
      /\ pc = IF tree.omp THEN "split" ELSE "godown"
  BY DEF Init, TreeInit, LayerInit, Node
<1>3. /\ LayerAt(lzero, leaves, loc) /\ StateOK(small, subtrees, NodesOf(lzero))
      /\ RootsOf(subtrees) = {} /\ Once(subtrees)
      /\ LeavesFirst(lzero, leaves) /\ LeavesDone(lzero, leaves, {})
  BY <1>1, <1>2, FreshLayer
<1>4. pc # "findn"
  BY <1>2
<1> QED BY <1>1, <1>3, <1>4 DEF PruneInv, OnceInv

LEMMA MapLayerKeeps ==
  ASSUME TreeShape, WeightsOK, ~ tree.omp, PruneInv, OnceInv, MapLayer
  PROVE  PruneInv' /\ OnceInv'
<1> DEFINE s == sort(lzero)
           k == leaves
           w == Mapped(s).loc
           m == small
           q == subtrees
           W == tree.weight[s[1]]
<1>1. /\ LayerAt(lzero, k, loc) /\ StateOK(m, q, NodesOf(lzero))
      /\ \A c \in RootsOf(q) : ~ Big(c)
  BY DEF PruneInv, MapLayer
<1>2. /\ lzero' = s /\ leaves' = k /\ loc' = w /\ small' = m /\ subtrees' = q
      /\ UNCHANGED <<tree, halvings>> /\ pc = "godown" /\ pc' \in {"rest", "findn"}
  BY DEF MapLayer, treeVars
<1>3. lzero \in Seq(1..VRoot) /\ Len(lzero) > 0 /\ NoTwice(lzero) /\ AntiChain(NodesOf(lzero))
      /\ leaves \in 0..Len(lzero) /\ loc \in [1..VRoot -> Int]
  BY <1>1 DEF LayerAt
<1>4. /\ s \in Seq(1..VRoot) /\ Len(s) = Len(lzero) /\ NodesOf(s) = NodesOf(lzero)
      /\ NoTwice(s) /\ Decreasing(s)
  BY <1>3, SortLayer
<1> HIDE DEF s
<1>5. w \in [1..VRoot -> Int]
  <2>0. Len(s) \in Nat /\ s \in [1..Len(s) -> 1..VRoot] /\ Len(s) > 0
    BY <1>3, <1>4, LenProperties
  <2>1. Len(s) \in Nat /\ 1 \in 1..Len(s) /\ \A x \in 1..Len(s) : s[x] \in 1..VRoot
    BY <2>0
  <2>2. W \in Nat
    BY <2>1 DEF WeightsOK
  <2>3. \A x \in 1..Len(s) : tree.weight[s[x]] <= W
    BY <1>4, <2>1 DEF Decreasing
  <2> HIDE DEF W
  <2>4. Mapped(s) \in Loads(W)
    BY <1>3, <1>4, <2>2, <2>3, MappedIs
  <2> QED BY <2>4 DEF Loads
<1> HIDE DEF w
<1>6. LayerAt(s, k, w)
  BY <1>3, <1>4, <1>5 DEF LayerAt
<1>7. StateOK(m, q, NodesOf(s))
  BY <1>1, <1>4
<1>8. PruneInv'
  BY <1>1, <1>2, <1>4, <1>6, <1>7, LayerNext, RecordsNext, LightNext DEF PruneInv
<1>9. ASSUME ~ Tied PROVE OnceInv'
  <2>1. /\ Once(q) /\ LeavesFirst(lzero, k) /\ LeavesDone(lzero, k, RootsOf(q))
    BY <1>2, <1>9 DEF OnceInv
  <2>2. LeavesFirst(s, k) /\ LeavesDone(s, k, RootsOf(q))
    BY <1>3, <2>1, SortLeaves DEF s
  <2> QED BY <1>2, <2>1, <2>2, LayerNext, RecordsNext DEF OnceInv
<1>10. ASSUME Tied PROVE OnceInv'
  <2>1. Tied'
    BY <1>2, <1>10, WeightsSame
  <2> QED BY <2>1 DEF OnceInv
<1> QED BY <1>8, <1>9, <1>10

LEMMA TiedKeeps ==
  ASSUME Tied, UNCHANGED tree
  PROVE  OnceInv'
<1>1. Tied'
  BY WeightsSame
<1> QED BY <1>1 DEF OnceInv

LEMMA BottomKeeps ==
  ASSUME ~ tree.omp, PruneInv, OnceInv, Bottom
  PROVE  PruneInv' /\ OnceInv'
<1>1. /\ lzero' = lzero /\ leaves' = leaves /\ loc' = loc /\ small' = small /\ subtrees' = subtrees
      /\ UNCHANGED <<tree, halvings>> /\ pc = "findn" /\ pc' = "rest"
  BY DEF Bottom, treeVars, layerVars
<1>2. PruneInv'
  BY <1>1, LayerNext, RecordsNext, LightNext DEF PruneInv
<1>3. ~ Tied => OnceInv'
  BY <1>1, RecordsNext DEF OnceInv
<1> QED BY <1>1, <1>2, <1>3, TiedKeeps

LEMMA RestartKeeps ==
  ASSUME TreeShape, ~ tree.omp, PruneInv, OnceInv, Restart
  PROVE  PruneInv' /\ OnceInv'
<1> DEFINE s == <<VRoot>>
           w == [i \in 1..VRoot |-> nregion + 1]
           m == [i \in Node |-> 0]
           q == <<>>
<1>1. /\ lzero' = s /\ leaves' = 0 /\ loc' = w /\ small' = m /\ subtrees' = q
      /\ UNCHANGED tree /\ pc' = "godown"
  BY DEF Restart
<1>2. /\ LayerAt(s, 0, w) /\ StateOK(m, q, NodesOf(s))
      /\ RootsOf(q) = {} /\ Once(q) /\ LeavesFirst(s, 0) /\ LeavesDone(s, 0, {})
  BY FreshLayer
<1> HIDE DEF s, w, m, q
<1>3. (\A c \in RootsOf(subtrees) : ~ Big(c))'
  <2>1. RootsOf(subtrees)' = {}
    BY <1>1, <1>2 DEF RootsOf
  <2> QED BY <2>1
<1>4. PruneInv'
  BY <1>1, <1>2, <1>3, LayerNext, RecordsNext DEF PruneInv
<1>5. OnceInv'
  <2>1. LeavesDone(s, 0, RootsOf(q))
    BY <1>2
  <2> QED BY <1>1, <1>2, <2>1, LayerNext, RecordsNext DEF OnceInv
<1> QED BY <1>4, <1>5

LEMMA DescendStep ==
  ASSUME TreeShape, WeightsOK, ~ tree.omp, PruneInv, OnceInv, Descend
  PROVE  PruneInv' /\ OnceInv'
<1> DEFINE k == leaves
           n == lzero[k + 1]
           B == {c \in ToSet(tree.child[n]) : Big(c)}
           X == {c \in ToSet(tree.child[n]) : ~ Big(c)}
           L == NodesOf(lzero)
           f == FlaggedAll(small, InOrder(X))
           u == RecordedAll(subtrees, InOrder(X), n, 1)
           t == Replaced(lzero, InOrder(B), k)
           R == RootsOf(subtrees)
<1>1. /\ pc = "findn" /\ k # Len(lzero) /\ small' = f /\ subtrees' = u
      /\ UNCHANGED <<tree, loc, halvings>>
      /\ InOrder(B) = <<>> => leaves' = k + 1 /\ pc' = pc /\ lzero' = lzero
      /\ InOrder(B) # <<>> => lzero' = t /\ pc' = "godown" /\ leaves' = k
  BY DEF Descend, AllLeaves, RecordAll, FlaggedAll, RecordedAll, Replaced
<1>2. /\ LayerAt(lzero, k, loc) /\ StateOK(small, subtrees, L)
      /\ (\A c \in R : ~ Big(c)) /\ Decreasing(lzero)
  BY <1>1 DEF PruneInv
<1>3. /\ Len(lzero) \in Nat \ {0} /\ k \in 0..Len(lzero) /\ L \in SUBSET (1..VRoot) /\ AntiChain(L)
      /\ k + 1 \in 1..Len(lzero) /\ n \in L /\ n \in 1..VRoot
  <2>1. /\ Len(lzero) \in Nat \ {0} /\ k \in 0..Len(lzero) /\ L \in SUBSET (1..VRoot)
        /\ \A x \in 1..Len(lzero) : lzero[x] \in 1..VRoot /\ lzero[x] \in L
    BY <1>2, LayerNodes
  <2>2. AntiChain(L)
    BY <1>2 DEF LayerAt
  <2>3. k + 1 \in 1..Len(lzero)
    BY <1>1, <2>1
  <2> QED BY <2>1, <2>2, <2>3
<1>4. /\ X \in SUBSET {c \in Node : parent(c) = n} /\ B \in SUBSET {c \in Node : parent(c) = n}
      /\ X \cup B = {c \in Node : parent(c) = n} /\ X \cap B = {}
      /\ X \in SUBSET Node /\ B \in SUBSET Node
      /\ (\A c \in X : ~ Big(c)) /\ \A c \in B : Big(c)
  <2>1. ToSet(tree.child[n]) = {c \in Node : parent(c) = n}
    BY <1>3, ChildSet
  <2> QED BY <2>1
<1>5. n = lzero[k + 1]
  OBVIOUS
<1> HIDE DEF X, B, n
<1>6. /\ StateOK(f, u, L) /\ RootsOf(u) = R \cup X
      /\ Once(subtrees) /\ R \cap X = {} => Once(u)
  BY <1>2, <1>3, <1>4, RecordAllIs
<1>7. \A c \in RootsOf(u) : ~ Big(c)
  BY <1>2, <1>4, <1>6
<1>8. B \cap R = {}
  BY <1>2, <1>4
<1>9. /\ k = leaves
      /\ X \cup B = {c \in Node : parent(c) = lzero[k + 1]}
      /\ X \in SUBSET {c \in Node : parent(c) = lzero[k + 1]}
  BY <1>4, <1>5
<1> HIDE DEF f, u, k
<1>10. CASE InOrder(B) = <<>>
  <2>1. LayerAt(lzero, k + 1, loc)
    BY <1>2, <1>3 DEF LayerAt
  <2>2. lzero' = lzero /\ leaves' = k + 1 /\ loc' = loc /\ pc' = "findn" /\ small' = f /\ subtrees' = u
    BY <1>1, <1>10
  <2>3. PruneInv'
    BY <1>1, <1>2, <1>6, <1>7, <2>1, <2>2, LayerNext, RecordsNext, LightNext DEF PruneInv, L
  <2>4. ASSUME ~ Tied PROVE OnceInv'
    <3>1. Once(subtrees) /\ LeavesFirst(lzero, k) /\ LeavesDone(lzero, k, R)
      BY <1>1, <2>4 DEF OnceInv, k
    <3>2. R \cap X = {}
      BY <1>1, <1>2, <1>9, <3>1, NewRoots
    <3>3. LeavesFirst(lzero, k + 1) /\ LeavesDone(lzero, k + 1, R \cup X)
      BY <1>1, <1>2, <1>9, <2>4, <3>1, LeafCounted
    <3>4. Once(u) /\ LeavesDone(lzero, k + 1, RootsOf(u))
      BY <1>6, <3>1, <3>2, <3>3
    <3> QED BY <1>1, <2>2, <3>3, <3>4, LayerNext, RecordsNext DEF OnceInv
  <2> QED BY <1>1, <2>3, <2>4, TiedKeeps
<1>11. CASE InOrder(B) # <<>>
  <2>0. B # {}
    BY <1>4, <1>11, InOrderNodes
  <2>1. /\ LayerAt(t, k, loc) /\ StateOK(f, u, NodesOf(t))
        /\ LeavesFirst(lzero, k) => LeavesFirst(t, k)
        /\ LeavesDone(lzero, k, R) => LeavesDone(t, k, RootsOf(u))
    BY <1>1, <1>2, <1>4, <1>6, <1>8, <1>9, <2>0, BigReplaces DEF L, R
  <2>2. lzero' = t /\ leaves' = k /\ loc' = loc /\ pc' = "godown" /\ small' = f /\ subtrees' = u
    BY <1>1, <1>11
  <2> HIDE DEF t
  <2>3. PruneInv'
    BY <1>1, <1>7, <2>1, <2>2, LayerNext, RecordsNext, LightNext DEF PruneInv
  <2>4. ASSUME ~ Tied PROVE OnceInv'
    <3>1. Once(subtrees) /\ LeavesFirst(lzero, k) /\ LeavesDone(lzero, k, R)
      BY <1>1, <2>4 DEF OnceInv, k
    <3>2. R \cap X = {}
      BY <1>1, <1>2, <1>9, <3>1, NewRoots
    <3>3. Once(u)
      BY <1>6, <3>1, <3>2
    <3> QED BY <1>1, <2>1, <2>2, <3>1, <3>3, LayerNext, RecordsNext DEF OnceInv
  <2> QED BY <1>1, <2>3, <2>4, TiedKeeps
<1> QED BY <1>10, <1>11

LEMMA RecordRestKeeps ==
  ASSUME TreeShape, ~ tree.omp, PruneInv, OnceInv, RecordRest
  PROVE  PruneInv' /\ OnceInv'
<1> DEFINE d == ~ Tied
           L == NodesOf(lzero)
           st == [small |-> small, subtrees |-> subtrees]
           end == Fold(RecordBelow, st, lzero)
           f == end.small
           u == end.subtrees
<1>1. /\ lzero' = lzero /\ leaves' = leaves /\ loc' = loc /\ small' = f /\ subtrees' = u
      /\ UNCHANGED <<tree, halvings>> /\ pc = "rest" /\ pc' = "done"
  BY DEF RecordRest, layerVars
<1>2. LayerAt(lzero, leaves, loc) /\ StateOK(small, subtrees, L)
  BY <1>1 DEF PruneInv
<1>3. lzero \in Seq(1..VRoot) /\ AntiChain(L) /\ loc \in [1..VRoot -> Int]
  BY <1>2 DEF LayerAt
<1>4. d => Once(subtrees)
  BY DEF OnceInv
<1>5. small \in [Node -> Int] /\ subtrees \in Seq(Recs)
  BY <1>2 DEF StateOK, Marked
<1> HIDE DEF d, L
<1>6. st \in States(L, d)
  BY <1>2, <1>4, <1>5 DEF States
<1> HIDE DEF st
<1>7. end \in States(L, d)
  BY <1>3, <1>6, RestIs DEF L
<1> HIDE DEF end
<1>8. StateOK(f, u, NodesOf(lzero)) /\ (d => Once(u))
  BY <1>7 DEF States, L
<1> HIDE DEF f, u
<1>9. PruneInv'
  BY <1>1, <1>2, <1>8, LayerNext, RecordsNext DEF PruneInv
<1>10. ~ Tied => OnceInv'
  BY <1>1, <1>8, RecordsNext DEF OnceInv, d
<1> QED BY <1>1, <1>9, <1>10, TiedKeeps

LEMMA PruneStutter ==
  ASSUME UNCHANGED vars
  PROVE  /\ WeightsOK => WeightsOK'
         /\ PruneInv => PruneInv'
         /\ OnceInv => OnceInv'
<1>1. /\ lzero' = lzero /\ leaves' = leaves /\ loc' = loc /\ small' = small /\ subtrees' = subtrees
      /\ UNCHANGED <<tree, halvings>> /\ pc' = pc
  BY DEF vars
<1>2. PruneInv => PruneInv'
  BY <1>1, LayerNext, RecordsNext, LightNext DEF PruneInv
<1>3. ~ Tied /\ OnceInv => OnceInv'
  BY <1>1, LayerNext, RecordsNext DEF OnceInv
<1> QED BY <1>1, <1>2, <1>3, TiedKeeps, WeightsSame

LEMMA PruneStep ==
  ASSUME TreeShape, OmpInv, PruneParts, WeightsOK, PruneInv, OnceInv, Next
  PROVE  WeightsOK' /\ PruneInv' /\ OnceInv'
<1>1. UNCHANGED tree
  BY DEF Next, PruneNext, MapLayer, Bottom, Restart, Descend, RecordRest,
         PartNext, Accept, Split, Consolidate, Merge, Collect, treeVars
<1>2. CASE tree.omp
  BY <1>1, <1>2, WeightsSame DEF PruneInv, OnceInv
<1>3. CASE ~ tree.omp
  <2>1. pc \in {"godown", "findn", "rest", "done"}
    BY <1>3 DEF PruneParts
  <2>2. PruneNext
    BY <2>1 DEF Next, PartNext, Accept, Split, Consolidate, Merge, Collect
  <2> QED BY <1>1, <1>3, <2>2, MapLayerKeeps, BottomKeeps, RestartKeeps, DescendStep,
             RecordRestKeeps, WeightsSame DEF PruneNext
<1> QED BY <1>2, <1>3

LEMMA PruneAlways == SolveSpec => [](TreeShape /\ OmpInv /\ WeightsOK /\ PruneInv /\ OnceInv)
<1> DEFINE Inv == TreeShape /\ OmpInv /\ PruneParts /\ WeightsOK /\ PruneInv /\ OnceInv
<1>1. SolveInit => Inv
  BY OmpInit, PruneInit DEF SolveInit
<1>2. Inv /\ [SolveNext]_allVars => Inv'
  <2> SUFFICES ASSUME Inv, [SolveNext]_allVars PROVE Inv'
    OBVIOUS
  <2>1. CASE Next
    BY <2>1, OmpStep, PruneStep
  <2>2. CASE UNCHANGED vars
    BY <2>2, OmpStutter, PruneStutter
  <2> QED BY <2>1, <2>2 DEF SolveNext, SolveFwd, SolveDiagBwd, allVars
<1> QED BY <1>1, <1>2, PTL DEF SolveSpec

-----------------------------------------------------------------------------
(* What the factorization is given.                                         *)

(* Both ways of choosing the subtrees end with ranges of nodes that are     *)
(* closed below, and with the marks that name them; the ranges are apart as *)
(* long as the layer keeps its order.                                       *)
LEMMA Chosen ==
  ASSUME TreeShape, OmpInv, PruneInv, OnceInv, Done
  PROVE  RangesOK /\ MarksOK /\ (tree.omp \/ ~ Tied => RangesApart)
<1>1. CASE tree.omp
  BY <1>1 DEF OmpInv, Done
<1>2. CASE ~ tree.omp
  <2> DEFINE q == subtrees
             R == RootsOf(q)
             M == Len(q)
  <2>1. q \in Seq(Recs) /\ Marked(small, R) /\ AntiChain(R)
    BY <1>2 DEF PruneInv, StateOK
  <2>2. DOMAIN q = 1..M /\ q \in [1..M -> Recs]
    BY <2>1, LenProperties
  <2>3. \A s \in DOMAIN q : q[s] \in Recs /\ q[s].en \in R
    BY <2>2 DEF RootsOf
  <2>4. ASSUME NEW s \in DOMAIN q
        PROVE  /\ q[s].en \in Node /\ q[s].en \in 1..VRoot /\ q[s].sa \in Node
               /\ q[s].sa = tree.least_desc[q[s].en] /\ InSubtree(s) = Below(q[s].en)
    <3>1. q[s].en \in Node /\ q[s].sa \in Node /\ q[s].sa = tree.least_desc[q[s].en]
      BY <2>3 DEF Recs
    <3> QED BY <3>1, NodeFacts DEF InSubtree, Below
  <2>5. RangesOK
    <3> SUFFICES ASSUME NEW s \in DOMAIN q
                 PROVE  q[s].sa \in Node /\ q[s].en \in Node /\ q[s].sa <= q[s].en /\ Apart(q[s])
      BY DEF RangesOK
    <3> DEFINE e == q[s].en
               a == q[s].sa
    <3>1. e \in Node /\ e \in 1..VRoot /\ a \in Node /\ a = tree.least_desc[e]
      BY <2>4
    <3>2. a <= e
      BY <3>1, BelowIs
    <3>3. ASSUME NEW i \in a..e
          PROVE  a <= tree.least_desc[i] /\ (i # e => parent(i) <= e \/ parent(i) = VRoot)
      <4>1. i \in Below(e)
        BY <3>1 DEF Below
      <4>2. tree.least_desc[e] <= tree.least_desc[i]
        BY <3>1, <4>1, BelowNested
      <4>3. i # e => parent(i) <= e
        BY <3>1, <4>1, BelowIs
      <4> QED BY <3>1, <4>2, <4>3
    <3> QED BY <3>1, <3>2, <3>3 DEF Apart
  <2>6. MarksOK
    <3>1. \A s \in DOMAIN q : \A i \in InSubtree(s) : small[i] = IF i = q[s].en THEN 1 ELSE -q[s].en
      BY <2>1, <2>3, <2>4 DEF Marked
    <3>2. ASSUME NEW i \in Node, \A s \in DOMAIN q : i \notin InSubtree(s)
          PROVE  small[i] = 0
      <4>1. \A c \in R : i \notin Below(c)
        <5> SUFFICES ASSUME NEW c \in R PROVE i \notin Below(c)
          OBVIOUS
        <5>1. PICK s \in 1..M : c = q[s].en
          BY DEF RootsOf
        <5> QED BY <2>2, <2>4, <3>2, <5>1
      <4> QED BY <2>1, <4>1 DEF Marked
    <3> QED BY <2>1, <3>1, <3>2 DEF MarksOK, Marked
  <2>7. ASSUME ~ Tied PROVE RangesApart
    <3> SUFFICES ASSUME NEW s \in DOMAIN q, NEW t \in DOMAIN q, s # t
                 PROVE  InSubtree(s) \cap InSubtree(t) = {}
      BY DEF RangesApart
    <3>1. q[s].en # q[t].en
      BY <1>2, <2>2, <2>7 DEF OnceInv, Once
    <3>2. q[s].en \notin Below(q[t].en) /\ q[t].en \notin Below(q[s].en)
      BY <2>1, <2>3, <3>1 DEF AntiChain
    <3> QED BY <2>4, <3>2, BelowApart
  <2> QED BY <1>2, <2>5, <2>6, <2>7
<1> QED BY <1>1, <1>2

(* A node of a subtree, and what is below it.                               *)
LEMMA SubtreeFacts ==
  ASSUME TreeShape, RangesOK, NEW s \in DOMAIN subtrees, NEW i \in InSubtree(s)
  PROVE  /\ i \in Node /\ i \in 1..VRoot /\ Below(i) \subseteq InSubtree(s)
         /\ parent(i) \in InSubtree(s) \cup {VRoot} \/ i = subtrees[s].en
         /\ subtrees[s].en \in Node /\ subtrees[s].en \in Nat \ {0}
<1> DEFINE e == subtrees[s].en
           a == subtrees[s].sa
<1>1. a \in Node /\ e \in Node /\ Apart(subtrees[s]) /\ InSubtree(s) = a..e
  BY DEF RangesOK, InSubtree
<1>2. /\ a <= tree.least_desc[i] /\ (i # e => parent(i) <= e \/ parent(i) = VRoot)
      /\ i \in a..e
  BY <1>1 DEF Apart
<1> HIDE DEF a, e
<1>3. a \in Nat /\ e \in Nat \ {0} /\ tree.n \in Nat /\ i \in Nat /\ i \in Node
  <2>1. a \in 1..tree.n /\ e \in 1..tree.n /\ tree.n \in Nat
    BY <1>1, NodeFacts DEF Node
  <2> QED BY <1>2, <2>1 DEF Node
<1>4. i \in 1..VRoot /\ parent(i) > i /\ parent(i) \in Nat
  BY <1>3, NodeFacts
<1>5. tree.least_desc[i] \in Nat
  BY <1>4, BelowIs
<1>6. Below(i) \subseteq a..e
  <2>1. \A x \in tree.least_desc[i]..i : x \in a..e
    BY <1>2, <1>3, <1>5
  <2> QED BY <2>1 DEF Below
<1>7. parent(i) <= e => parent(i) \in a..e
  BY <1>2, <1>3, <1>4
<1> QED BY <1>1, <1>2, <1>3, <1>4, <1>6, <1>7 DEF e

(* The layer of prune_tree never has a node above another, and every node   *)
(* that is in no subtree is above, in or below it: what is still to be cut  *)
(* off is there.                                                            *)
THEOREM LayerCutsTree == SolveSpec => []LayerIsCut
<1>1. TreeShape /\ PruneInv => LayerIsCut
  <2> SUFFICES ASSUME TreeShape, PruneInv, ~ tree.omp
               PROVE  /\ \A k, l \in DOMAIN lzero : k # l => lzero[k] \notin Below(lzero[l])
                      /\ \A i \in Node :
                           small[i] = 0 => \E k \in DOMAIN lzero : i \in Below(lzero[k]) \/ lzero[k] \in Below(i)
    BY DEF LayerIsCut
  <2> DEFINE R == RootsOf(subtrees)
  <2>1. /\ LayerAt(lzero, leaves, loc) /\ subtrees \in Seq(Recs)
        /\ Marked(small, R) /\ Cut(NodesOf(lzero), R)
    BY DEF PruneInv, StateOK
  <2>2. DOMAIN lzero = 1..Len(lzero)
    BY <2>1, LenProperties DEF LayerAt
  <2>3. \A k, l \in 1..Len(lzero) : k # l => lzero[k] \notin Below(lzero[l])
    BY <2>1, LayerNodes
  <2>4. ASSUME NEW i \in Node, small[i] = 0
        PROVE  \E k \in 1..Len(lzero) : i \in Below(lzero[k]) \/ lzero[k] \in Below(i)
    <3>1. ASSUME NEW c \in R PROVE i \notin Below(c)
      <4>1. c \in Nat \ {0}
        <5>1. c \in Node /\ tree.n \in Nat
          BY <2>1, RootsAreNodes, NodeFacts
        <5> QED BY <5>1 DEF Node
      <4>2. i \in Below(c) => small[i] = IF i = c THEN 1 ELSE -c
        BY <2>1 DEF Marked
      <4> QED BY <2>4, <4>1, <4>2
    <3>2. PICK l \in NodesOf(lzero) : i \in Below(l) \/ l \in Below(i)
      BY <2>1, <3>1 DEF Cut
    <3> QED BY <3>2 DEF NodesOf
  <2> QED BY <2>2, <2>3, <2>4
<1> QED BY <1>1, PruneAlways, PTL

(* What is below a node of a subtree is in the same subtree, and its marks  *)
(* name the root: the subtrees can be factorized before everything else.    *)
THEOREM SubtreesAreClosed == SolveSpec => []SubtreesClosed
<1>1. TreeShape /\ OmpInv /\ PruneInv /\ OnceInv => SubtreesClosed
  <2> SUFFICES ASSUME TreeShape, OmpInv, PruneInv, OnceInv, Done,
                      NEW s \in DOMAIN subtrees, NEW i \in InSubtree(s)
               PROVE  /\ Below(i) \subseteq InSubtree(s)
                      /\ small[i] = IF i = subtrees[s].en THEN 1 ELSE -subtrees[s].en
    BY DEF SubtreesClosed
  <2>1. RangesOK /\ MarksOK
    BY Chosen
  <2>2. Below(i) \subseteq InSubtree(s)
    BY <2>1, SubtreeFacts
  <2> QED BY <2>1, <2>2 DEF MarksOK
<1> QED BY <1>1, PruneAlways, PTL

(* A subtree hands one contribution block over: all its nodes but the last  *)
(* have their parents in it, or none.                                       *)
THEOREM OneContributionEach == SolveSpec => []OneContribution
<1>1. TreeShape /\ OmpInv /\ PruneInv /\ OnceInv => OneContribution
  <2> SUFFICES ASSUME TreeShape, OmpInv, PruneInv, OnceInv, Done,
                      NEW s \in DOMAIN subtrees, NEW i \in InSubtree(s)
               PROVE  parent(i) \in InSubtree(s) \cup {VRoot} \/ i = subtrees[s].en
    BY DEF OneContribution
  <2>1. RangesOK
    BY Chosen
  <2> QED BY <2>1, SubtreeFacts
<1> QED BY <1>1, PruneAlways, PTL

(* The layer is sorted when it is pushed down, and the mapping leaves no    *)
(* two workers further apart than the heaviest node of the layer.           *)
THEOREM WorkIsSpread == SolveSpec => []WorkSpread
<1>1. TreeShape /\ OmpInv /\ WeightsOK /\ PruneInv => WorkSpread
  <2> SUFFICES ASSUME TreeShape, OmpInv, WeightsOK, PruneInv, pc = "findn"
               PROVE  /\ \A k \in 2..Len(lzero) : tree.weight[lzero[k]] <= tree.weight[lzero[k - 1]]
                      /\ \A p, q \in DOMAIN Mapped(lzero).proc_w :
                           Mapped(lzero).proc_w[p] <= Mapped(lzero).proc_w[q] + tree.weight[lzero[1]]
    BY DEF WorkSpread
  <2> DEFINE W == tree.weight[lzero[1]]
             m == Mapped(lzero)
  <2>1. ~ tree.omp
    BY DEF OmpInv
  <2>2. LayerAt(lzero, leaves, loc) /\ Decreasing(lzero)
    BY <2>1 DEF PruneInv
  <2>3. lzero \in Seq(1..VRoot) /\ Len(lzero) > 0 /\ loc \in [1..VRoot -> Int]
    BY <2>2 DEF LayerAt
  <2>4. Len(lzero) \in Nat /\ lzero \in [1..Len(lzero) -> 1..VRoot]
    BY <2>3, LenProperties
  <2>5. 1 \in 1..Len(lzero) /\ \A k \in 1..Len(lzero) : lzero[k] \in 1..VRoot
    BY <2>3, <2>4
  <2>6. W \in Nat /\ \A k \in 1..Len(lzero) : tree.weight[lzero[k]] <= W
    <3>1. W \in Nat
      BY <2>5 DEF WeightsOK
    <3>2. \A k \in 1..Len(lzero) : 1 <= k
      OBVIOUS
    <3> QED BY <2>2, <2>5, <3>1, <3>2 DEF Decreasing
  <2>7. \A k \in 2..Len(lzero) : tree.weight[lzero[k]] <= tree.weight[lzero[k - 1]]
    <3> TAKE k \in 2..Len(lzero)
    <3>1. k - 1 \in 1..Len(lzero) /\ k \in 1..Len(lzero) /\ k - 1 <= k
      BY <2>4
    <3> QED BY <2>2, <3>1 DEF Decreasing
  <2>8. m \in Loads(W)
    <3> HIDE DEF W, m
    <3>1. Mapped(lzero) \in Loads(W)
      BY <2>3, <2>6, MappedIs
    <3> QED BY <3>1 DEF m
  <2> HIDE DEF m, W
  <2>9. DOMAIN m.proc_w = 1..nregion /\ \A p, q \in 1..nregion : m.proc_w[p] <= m.proc_w[q] + W
    BY <2>8 DEF Loads
  <2>10. \A p, q \in DOMAIN m.proc_w : m.proc_w[p] <= m.proc_w[q] + W
    BY <2>9
  <2> QED BY <2>7, <2>10 DEF m, W
<1> QED BY <1>1, PruneAlways, PTL

LEMMA OncePerFront ==
  ASSUME TreeShape, RangesOK, MarksOK, RangesApart
  PROVE  FrontsOnce
<1> SUFFICES ASSUME NEW i \in Node
             PROVE  Cardinality(Holding(i)) = IF small[i] = 0 THEN 0 ELSE 1
  BY DEF FrontsOnce
<1>1. CASE Holding(i) = {}
  <2>1. small[i] = 0
    BY <1>1 DEF MarksOK, Holding
  <2> QED BY <1>1, <2>1, FS_EmptySet
<1>2. CASE Holding(i) # {}
  <2>1. PICK s \in DOMAIN subtrees : i \in InSubtree(s)
    BY <1>2 DEF Holding
  <2>2. Holding(i) = {s}
    BY <2>1 DEF Holding, RangesApart
  <2>3. small[i] = IF i = subtrees[s].en THEN 1 ELSE -subtrees[s].en
    BY <2>1 DEF MarksOK
  <2>4. subtrees[s].en \in Nat \ {0}
    BY <2>1, SubtreeFacts
  <2>5. small[i] # 0
    BY <2>3, <2>4
  <2> QED BY <2>2, <2>5, FS_Singleton
<1> QED BY <1>1, <1>2

(* No front is left out or factorized twice: a front that is not marked is  *)
(* in no subtree of the list, a marked one is in exactly one.               *)
THEOREM FrontsTakenOnce == SolveSpec => []EachFrontOnce
<1>1. TreeShape /\ OmpInv /\ PruneInv /\ OnceInv => EachFrontOnce
  <2> SUFFICES ASSUME TreeShape, OmpInv, PruneInv, OnceInv, Done, tree.omp \/ ~ Tied
               PROVE  FrontsOnce
    BY DEF EachFrontOnce
  <2> QED BY Chosen, OncePerFront
<1> QED BY <1>1, PruneAlways, PTL

-----------------------------------------------------------------------------
(* The solve phase: the order of its solves, and what has been solved.      *)

(* The solves O take every front once, and no front before a child.         *)
Covering(O) ==
  /\ Len(O) \in Nat
  /\ \A i \in Node : \E x \in 1..Len(O) : i \in O[x]
  /\ \A i \in Node : \A x, y \in 1..Len(O) : i \in O[x] /\ i \in O[y] => x = y
  /\ \A c \in Node : parent(c) # VRoot =>
       \A x, y \in 1..Len(O) : c \in O[x] /\ parent(c) \in O[y] => x <= y

Listed == \E S \in Nat : DOMAIN subtrees = 1..S

LEMMA TopFrontsIs ==
  ASSUME TreeShape
  PROVE  /\ Len(TopFronts) \in Nat /\ DOMAIN TopFronts = 1..Len(TopFronts)
         /\ \A k \in 1..Len(TopFronts) : TopFronts[k] \in Node /\ small[TopFronts[k]] = 0
         /\ \A k, l \in 1..Len(TopFronts) : k < l => TopFronts[k] < TopFronts[l]
         /\ \A i \in Node : small[i] = 0 => \E k \in 1..Len(TopFronts) : TopFronts[k] = i
<1> DEFINE B == {i \in Node : small[i] = 0}
           t == InOrder(B)
<1>1. B \in SUBSET Nat /\ IsFiniteSet(B)
  <2>1. tree.n \in Nat
    BY NodeFacts
  <2>2. IsFiniteSet(Node) /\ B \subseteq Node /\ Node \subseteq Nat
    BY <2>1, FS_Interval DEF Node
  <2> QED BY <2>2, FS_Subset
<1>2. t = TopFronts
  BY DEF TopFronts
<1>3. \A i \in B : i \in Node /\ small[i] = 0
  OBVIOUS
<1>4. \A i \in Node : small[i] = 0 => i \in B
  OBVIOUS
<1> HIDE DEF B
<1>5. Enumerates(t, B)
  BY <1>1, InOrderIs
<1> HIDE DEF t
<1>6. /\ t \in Seq(B) /\ \A x \in B : \E k \in 1..Len(t) : t[k] = x
      /\ \A k, l \in 1..Len(t) : k < l => t[k] < t[l]
  BY <1>5 DEF Enumerates
<1>7. Len(t) \in Nat /\ DOMAIN t = 1..Len(t) /\ t \in [1..Len(t) -> B]
  BY <1>6, LenProperties
<1>8. \A k \in 1..Len(t) : t[k] \in Node /\ small[t[k]] = 0
  BY <1>3, <1>7
<1> QED BY <1>2, <1>4, <1>6, <1>7, <1>8

(* The subtrees come first, in their order, then the fronts above them.     *)
LEMMA SolveOrderIs ==
  ASSUME TreeShape, RangesOK, NEW S \in Nat, DOMAIN subtrees = 1..S
  PROVE  /\ Len(SolveOrder) = S + Len(TopFronts)
         /\ \A x \in 1..S : SolveOrder[x] = InSubtree(x)
         /\ \A k \in 1..Len(TopFronts) : SolveOrder[S + k] = {TopFronts[k]}
<1> DEFINE T == Len(TopFronts)
           u == [s \in DOMAIN subtrees |-> InSubtree(s)]
           v == [k \in DOMAIN TopFronts |-> {TopFronts[k]}]
           V == SUBSET Node
<1>1. T \in Nat /\ DOMAIN TopFronts = 1..T /\ \A k \in 1..T : TopFronts[k] \in Node
  BY TopFrontsIs
<1>2. \A s \in 1..S : InSubtree(s) \in V
  BY SubtreeFacts
<1> HIDE DEF T, V
<1>3. u \in [1..S -> V] /\ \A s \in 1..S : u[s] = InSubtree(s)
  BY <1>2
<1>4. v \in [1..T -> V] /\ \A k \in 1..T : v[k] = {TopFronts[k]}
  BY <1>1 DEF V
<1>5. SolveOrder = u \o v
  BY DEF SolveOrder
<1> HIDE DEF u, v
<1>6. u \in Seq(V) /\ v \in Seq(V)
  BY <1>1, <1>3, <1>4, SeqDef
<1>7. Len(u) = S /\ Len(v) = T
  <2>1. DOMAIN u = 1..S /\ DOMAIN v = 1..T
    BY <1>3, <1>4
  <2>2. /\ Len(u) \in Nat /\ DOMAIN u = 1..Len(u)
        /\ Len(v) \in Nat /\ DOMAIN v = 1..Len(v)
    BY <1>6, LenProperties
  <2> QED BY <1>1, <2>1, <2>2, SameEnd
<1> DEFINE o == u \o v
<1>8. /\ Len(o) = Len(u) + Len(v)
      /\ \A i \in 1..(Len(u) + Len(v)) : o[i] = IF i <= Len(u) THEN u[i] ELSE v[i - Len(u)]
  BY <1>6, ConcatProperties
<1> HIDE DEF o
<1>9. Len(o) = S + T /\ \A i \in 1..(S + T) : o[i] = IF i <= S THEN u[i] ELSE v[i - S]
  BY <1>7, <1>8
<1>10. \A x \in 1..S : o[x] = InSubtree(x)
  BY <1>1, <1>3, <1>9
<1>11. \A k \in 1..T : o[S + k] = {TopFronts[k]}
  <2> TAKE k \in 1..T
  <2>1. S + k \in 1..(S + T) /\ ~ (S + k <= S) /\ (S + k) - S = k
    BY <1>1
  <2> QED BY <1>4, <1>9, <2>1
<1> QED BY <1>5, <1>9, <1>10, <1>11 DEF o, T

LEMMA OrderCovers ==
  ASSUME TreeShape, RangesOK, MarksOK, RangesApart, Listed
  PROVE  Covering(SolveOrder)
<1> DEFINE O == SolveOrder
           T == Len(TopFronts)
<1>1. PICK S \in Nat : DOMAIN subtrees = 1..S
  BY DEF Listed
<1>2. /\ Len(O) = S + T
      /\ \A x \in 1..S : O[x] = InSubtree(x)
      /\ \A k \in 1..T : O[S + k] = {TopFronts[k]}
  BY <1>1, SolveOrderIs
<1>3. /\ T \in Nat
      /\ \A k \in 1..T : TopFronts[k] \in Node /\ small[TopFronts[k]] = 0
      /\ \A k, l \in 1..T : k < l => TopFronts[k] < TopFronts[l]
      /\ \A i \in Node : small[i] = 0 => \E k \in 1..T : TopFronts[k] = i
  BY TopFrontsIs
<1> HIDE DEF O, T
<1>4. Len(O) \in Nat
  BY <1>2, <1>3
<1>5. \A x \in 1..S : \A i \in InSubtree(x) : small[i] # 0 /\ i \in Node
  <2> SUFFICES ASSUME NEW x \in 1..S, NEW i \in InSubtree(x)
               PROVE  small[i] # 0 /\ i \in Node
    OBVIOUS
  <2>1. subtrees[x].en \in Nat \ {0} /\ i \in Node
    BY <1>1, SubtreeFacts
  <2>2. small[i] = IF i = subtrees[x].en THEN 1 ELSE -subtrees[x].en
    BY <1>1 DEF MarksOK
  <2> QED BY <2>1, <2>2
<1>6. ASSUME NEW i \in Node, NEW x \in 1..Len(O), i \in O[x]
      PROVE  \/ x \in 1..S /\ i \in InSubtree(x) /\ small[i] # 0
             \/ x - S \in 1..T /\ S + (x - S) = x /\ x \notin 1..S /\ i = TopFronts[x - S] /\ small[i] = 0
  <2>1. CASE x <= S
    <3>1. x \in 1..S
      BY <2>1
    <3> QED BY <1>2, <1>5, <1>6, <3>1
  <2>2. CASE ~ (x <= S)
    <3>1. x - S \in 1..T /\ S + (x - S) = x /\ x \notin 1..S
      BY <1>2, <1>3, <2>2
    <3>2. O[S + (x - S)] = {TopFronts[x - S]}
      BY <1>2, <3>1
    <3> QED BY <1>3, <1>6, <3>1, <3>2
  <2> QED BY <2>1, <2>2
<1>7. ASSUME NEW i \in Node
      PROVE  \E x \in 1..Len(O) : i \in O[x]
  <2>1. CASE small[i] = 0
    <3>1. PICK k \in 1..T : TopFronts[k] = i
      BY <1>3, <2>1
    <3>2. S + k \in 1..Len(O)
      BY <1>2, <1>3
    <3> QED BY <1>2, <3>1, <3>2
  <2>2. CASE small[i] # 0
    <3>1. PICK s \in 1..S : i \in InSubtree(s)
      BY <1>1, <2>2 DEF MarksOK
    <3>2. s \in 1..Len(O)
      BY <1>2, <1>3
    <3> QED BY <1>2, <3>1, <3>2
  <2> QED BY <2>1, <2>2
<1>8. \A k, l \in 1..T : TopFronts[k] = TopFronts[l] => k = l
  <2> SUFFICES ASSUME NEW k \in 1..T, NEW l \in 1..T, TopFronts[k] = TopFronts[l], k # l
               PROVE  FALSE
    OBVIOUS
  <2>1. k < l \/ l < k
    BY <1>3
  <2>2. TopFronts[k] \in Nat
    BY <1>3 DEF Node
  <2> QED BY <1>3, <2>1, <2>2
<1>9. ASSUME NEW i \in Node, NEW x \in 1..Len(O), NEW y \in 1..Len(O), i \in O[x], i \in O[y]
      PROVE  x = y
  <2>1. CASE small[i] # 0
    <3>1. /\ x \in 1..S /\ i \in InSubtree(x)
          /\ y \in 1..S /\ i \in InSubtree(y)
      BY <1>6, <1>9, <2>1
    <3> QED BY <1>1, <3>1 DEF RangesApart
  <2>2. CASE small[i] = 0
    <3>1. /\ x - S \in 1..T /\ S + (x - S) = x /\ i = TopFronts[x - S]
          /\ y - S \in 1..T /\ S + (y - S) = y /\ i = TopFronts[y - S]
      BY <1>6, <1>9, <2>2
    <3>2. x - S = y - S
      BY <1>8, <3>1
    <3> QED BY <3>1, <3>2
  <2> QED BY <2>1, <2>2
<1>10. ASSUME NEW c \in Node, parent(c) # VRoot, NEW x \in 1..Len(O), NEW y \in 1..Len(O),
              c \in O[x], parent(c) \in O[y]
       PROVE  x <= y
  <2>1. parent(c) \in Node /\ c \in Nat /\ parent(c) \in Nat /\ c < parent(c)
    BY <1>10, NodeFacts
  <2>2. x \in Int /\ y \in Int /\ S \in Int
    BY <1>4
  <2>3. CASE y \in 1..S /\ parent(c) \in InSubtree(y)
    <3>1. Below(parent(c)) \subseteq InSubtree(y)
      BY <1>1, <2>3, SubtreeFacts
    <3>2. c \in InSubtree(y)
      BY <3>1, ChildBelow
    <3>3. c \in O[y]
      BY <1>2, <2>3, <3>2
    <3>4. x = y
      BY <1>9, <1>10, <3>3
    <3> QED BY <2>2, <3>4
  <2>4. CASE y - S \in 1..T /\ y \notin 1..S /\ parent(c) = TopFronts[y - S]
    <3>1. CASE x \in 1..S
      BY <2>2, <2>4, <3>1
    <3>2. CASE x \notin 1..S
      <4>1. x - S \in 1..T /\ c = TopFronts[x - S]
        BY <1>6, <1>10, <3>2
      <4> DEFINE k == x - S
                 l == y - S
      <4>2. k \in 1..T /\ l \in 1..T /\ k \in Int /\ l \in Int
        BY <2>2, <2>4, <4>1
      <4>3. c = TopFronts[k] /\ parent(c) = TopFronts[l]
        BY <2>4, <4>1
      <4> HIDE DEF k, l
      <4>4. ~ (l < k)
        <5>1. l < k => parent(c) < c
          BY <1>3, <4>2, <4>3
        <5> QED BY <2>1, <5>1
      <4>5. k <= l
        BY <4>2, <4>4
      <4> QED BY <2>2, <4>5 DEF k, l
    <3> QED BY <3>1, <3>2
  <2> QED BY <1>6, <1>10, <2>1, <2>3, <2>4
<1> QED BY <1>4, <1>7, <1>9, <1>10 DEF Covering, O

(* The fronts of the solves I have been solved, and no other.               *)
Counted(f, O, I) ==
  /\ f \in [Node -> Nat]
  /\ \A i \in Node : f[i] = IF \E x \in I : i \in O[x] THEN 1 ELSE 0

Stage(ps, t, f, b, O) ==
  \/ ps = "fwd" /\ t \in 0..Len(O) /\ Counted(f, O, 1..t) /\ Counted(b, O, {})
  \/ /\ ps = "bwd" /\ t \in 0..Len(O) /\ t # Len(O)
     /\ Counted(f, O, 1..Len(O)) /\ Counted(b, O, (Len(O) - t + 1)..Len(O))
  \/ ps = "end" /\ Counted(f, O, 1..Len(O)) /\ Counted(b, O, 1..Len(O))

OrderInv == Done /\ (tree.omp \/ ~ Tied) => Covering(SolveOrder)

SolveInv ==
  /\ ~ Done => pass = "fwd" /\ turn = 0 /\ Counted(fwd, <<>>, {}) /\ Counted(bwd, <<>>, {})
  /\ Done /\ (tree.omp \/ ~ Tied) => Stage(pass, turn, fwd, bwd, SolveOrder)

LEMMA CountOneMore ==
  ASSUME NEW O, Covering(O), NEW f, NEW I \in SUBSET (1..Len(O)), NEW x \in 1..Len(O), x \notin I,
         Counted(f, O, I)
  PROVE  Counted(OnceMore(f, O[x]), O, I \cup {x})
<1> DEFINE g == OnceMore(f, O[x])
<1>1. f \in [Node -> Nat] /\ \A i \in Node : f[i] = IF \E y \in I : i \in O[y] THEN 1 ELSE 0
  BY DEF Counted
<1>2. \A i \in Node : g[i] = f[i] + IF i \in O[x] THEN 1 ELSE 0
  BY DEF OnceMore
<1>3. g \in [Node -> Nat]
  BY <1>1 DEF OnceMore
<1> HIDE DEF g
<1>4. ASSUME NEW i \in Node
      PROVE  g[i] = IF \E y \in I \cup {x} : i \in O[y] THEN 1 ELSE 0
  <2>1. \A y \in I : i \in O[y] => i \notin O[x]
    BY DEF Covering
  <2>2. f[i] \in Nat
    BY <1>1
  <2>3. CASE i \in O[x]
    <3>1. f[i] = 0 /\ \E y \in I \cup {x} : i \in O[y]
      BY <1>1, <2>1, <2>3
    <3> QED BY <1>2, <2>3, <3>1
  <2>4. CASE i \notin O[x]
    <3>1. (\E y \in I \cup {x} : i \in O[y]) <=> \E y \in I : i \in O[y]
      BY <2>4
    <3>2. g[i] = f[i]
      BY <1>2, <2>2, <2>4
    <3> QED BY <1>1, <3>1, <3>2
  <2> QED BY <2>3, <2>4
<1> QED BY <1>3, <1>4 DEF Counted, g

LEMMA ForwardStage ==
  ASSUME NEW O, Covering(O), NEW t \in Nat, t < Len(O), NEW f, NEW b,
         Stage("fwd", t, f, b, O)
  PROVE  /\ t + 1 # Len(O) => Stage("fwd", t + 1, OnceMore(f, O[t + 1]), b, O)
         /\ t + 1 = Len(O) => Stage("bwd", 0, OnceMore(f, O[t + 1]), b, O)
<1> DEFINE N == Len(O)
           g == OnceMore(f, O[t + 1])
           x == t + 1
<1>1. N \in Nat /\ x \in 1..N /\ x \notin 1..t /\ (1..t) \cup {x} = 1..x /\ 1..t \in SUBSET (1..N)
      /\ x \in 0..N
  BY DEF Covering
<1>2. Counted(f, O, 1..t) /\ Counted(b, O, {})
  BY DEF Stage
<1>3. g = OnceMore(f, O[x])
  OBVIOUS
<1>6. x = t + 1 /\ N = Len(O)
  OBVIOUS
<1> HIDE DEF x, N
<1>4. Counted(g, O, 1..x)
  <2>1. Counted(OnceMore(f, O[x]), O, (1..t) \cup {x})
    BY <1>1, <1>2, <1>6, CountOneMore
  <2> QED BY <1>1, <1>3, <2>1
<1> HIDE DEF g
<1>5. (N - 0 + 1)..N = {}
  BY <1>1
<1>7. x # N => Stage("fwd", x, g, b, O)
  BY <1>1, <1>2, <1>4, <1>6 DEF Stage
<1>8. x = N => Stage("bwd", 0, g, b, O)
  <2>1. 0 \in 0..N /\ 0 # N
    BY <1>1
  <2> QED BY <1>2, <1>4, <1>5, <1>6, <2>1 DEF Stage
<1> QED BY <1>6, <1>7, <1>8 DEF g

LEMMA BackwardStage ==
  ASSUME NEW O, Covering(O), NEW t, NEW f, NEW b, Stage("bwd", t, f, b, O)
  PROVE  /\ t + 1 # Len(O) => Stage("bwd", t + 1, f, OnceMore(b, O[Len(O) - t]), O)
         /\ t + 1 = Len(O) => Stage("end", 0, f, OnceMore(b, O[Len(O) - t]), O)
<1> DEFINE N == Len(O)
           x == N - t
           g == OnceMore(b, O[x])
           I == (N - t + 1)..N
<1>1. N \in Nat /\ t \in 0..N /\ t # N /\ Counted(f, O, 1..N) /\ Counted(b, O, I)
  BY DEF Covering, Stage
<1>2. x \in 1..N /\ x \notin I /\ I \cup {x} = x..N /\ I \in SUBSET (1..N)
  BY <1>1
<1>3. x = N - (t + 1) + 1 /\ t + 1 \in 0..N
  BY <1>1
<1> HIDE DEF I, x
<1>4. Counted(g, O, x..N)
  <2>1. Counted(OnceMore(b, O[x]), O, I \cup {x})
    BY <1>1, <1>2, CountOneMore
  <2> QED BY <1>2, <2>1
<1> HIDE DEF g
<1>5. t + 1 # N => Stage("bwd", t + 1, f, g, O)
  BY <1>1, <1>3, <1>4 DEF Stage
<1>6. t + 1 = N => Stage("end", 0, f, g, O)
  <2>1. t + 1 = N => x = 1
    BY <1>1, <1>3
  <2> QED BY <1>1, <1>4, <2>1 DEF Stage
<1> QED BY <1>5, <1>6 DEF g, x

LEMMA FirstStage ==
  ASSUME NEW O, Covering(O), NEW f, NEW b, Counted(f, <<>>, {}), Counted(b, <<>>, {})
  PROVE  Stage("fwd", 0, f, b, O)
<1>1. 0 \in 0..Len(O) /\ 1..0 = {}
  BY DEF Covering
<1>2. Counted(f, O, {}) /\ Counted(b, O, {})
  BY DEF Counted
<1> QED BY <1>1, <1>2 DEF Stage

(* What a stage has solved is as SolvedInOrder asks.                        *)
LEMMA StageInOrder ==
  ASSUME TreeShape, NEW O, Covering(O), NEW t, NEW ps, NEW f, NEW b, Stage(ps, t, f, b, O),
         NEW i \in Node
  PROVE  /\ f[i] <= 1 /\ b[i] <= 1
         /\ f[i] = 1 => \A c \in ToSet(tree.child[i]) : f[c] = 1
         /\ b[i] = 1 => /\ \A j \in Node : f[j] = 1
                        /\ parent(i) = VRoot \/ b[parent(i)] = 1
<1> DEFINE N == Len(O)
<1>1. N \in Nat /\ (\A j \in Node : \E x \in 1..N : j \in O[x])
  BY DEF Covering
<1>2. \A c \in Node : parent(c) # VRoot =>
        \A x, y \in 1..N : c \in O[x] /\ parent(c) \in O[y] => x <= y
  BY DEF Covering
<1>3. /\ i \in 1..VRoot /\ i # VRoot
      /\ \A c \in ToSet(tree.child[i]) : c \in Node /\ parent(c) = i
      /\ parent(i) = VRoot \/ parent(i) \in Node
  <2>1. i \in 1..VRoot /\ (parent(i) = VRoot \/ parent(i) \in Node) /\ i # VRoot
    <3>1. i \in 1..tree.n /\ VRoot = tree.n + 1 /\ tree.n \in Nat
      BY NodeFacts DEF Node
    <3> QED BY <3>1, NodeFacts
  <2>2. ToSet(tree.child[i]) = {c \in Node : parent(c) = i}
    BY <2>1, ChildSet
  <2> QED BY <2>1, <2>2
<1> HIDE DEF N
<1>4. ASSUME NEW g, NEW e \in 0..N, Counted(g, O, 1..e), g[i] = 1, NEW c \in Node, parent(c) = i
      PROVE  g[c] = 1
  <2>1. PICK y \in 1..e : i \in O[y]
    BY <1>4 DEF Counted
  <2>2. PICK x \in 1..N : c \in O[x]
    BY <1>1
  <2>3. y \in 1..N /\ x <= y
    BY <1>1, <1>2, <1>3, <1>4, <2>1, <2>2
  <2>4. x \in 1..e
    BY <1>1, <2>3
  <2> QED BY <1>4, <2>2, <2>4 DEF Counted
<1>5. ASSUME NEW g, NEW a \in 1..(N + 1), Counted(g, O, a..N), g[i] = 1, parent(i) # VRoot
      PROVE  g[parent(i)] = 1
  <2>1. PICK x \in a..N : i \in O[x]
    BY <1>5 DEF Counted
  <2>2. parent(i) \in Node
    BY <1>3, <1>5
  <2>3. PICK y \in 1..N : parent(i) \in O[y]
    BY <1>1, <2>2
  <2>4. x \in 1..N /\ x <= y
    BY <1>1, <1>2, <1>5, <2>1, <2>3
  <2>5. y \in a..N
    BY <1>1, <2>4
  <2> QED BY <1>5, <2>2, <2>3, <2>5 DEF Counted
<1>6. ASSUME NEW g, Counted(g, O, 1..N), NEW j \in Node
      PROVE  g[j] = 1
  BY <1>1, <1>6 DEF Counted
<1>7. ASSUME NEW g, NEW I, Counted(g, O, I)
      PROVE  g[i] <= 1 /\ (I = {} => g[i] # 1)
  BY <1>7 DEF Counted
<1>8. CASE ps = "fwd"
  <2>1. t \in 0..N /\ Counted(f, O, 1..t) /\ Counted(b, O, {})
    BY <1>8 DEF Stage, N
  <2>2. f[i] <= 1 /\ b[i] <= 1 /\ b[i] # 1
    BY <1>7, <2>1
  <2>3. f[i] = 1 => \A c \in ToSet(tree.child[i]) : f[c] = 1
    BY <1>3, <1>4, <2>1
  <2> QED BY <2>2, <2>3
<1>9. CASE ps # "fwd"
  <2>1. Counted(f, O, 1..N) /\ \E a \in 1..(N + 1) : Counted(b, O, a..N)
    <3>1. CASE ps = "bwd"
      <4>1. t \in 0..N /\ t # N /\ Counted(f, O, 1..N) /\ Counted(b, O, (N - t + 1)..N)
        BY <3>1 DEF Stage, N
      <4>2. N - t + 1 \in 1..(N + 1)
        BY <1>1, <4>1
      <4> QED BY <4>1, <4>2
    <3>2. CASE ps = "end"
      <4>1. 1 \in 1..(N + 1)
        BY <1>1
      <4> QED BY <3>2, <4>1 DEF Stage, N
    <3> QED BY <1>9, <3>1, <3>2 DEF Stage
  <2>2. PICK a \in 1..(N + 1) : Counted(b, O, a..N)
    BY <2>1
  <2>3. f[i] <= 1 /\ b[i] <= 1
    BY <1>7, <2>1, <2>2
  <2>4. \A j \in Node : f[j] = 1
    BY <1>6, <2>1
  <2>5. b[i] = 1 => parent(i) = VRoot \/ b[parent(i)] = 1
    BY <1>5, <2>2
  <2> QED BY <1>3, <2>3, <2>4, <2>5
<1> QED BY <1>8, <1>9

ListInv == tree.omp => Listed

LEMMA CollectLists ==
  ASSUME TreeShape, OmpInv, tree.omp, Collect
  PROVE  \E S \in Nat : DOMAIN subtrees' = 1..S
<1> DEFINE P == {p \in PartSet : parts[p].loc # -1}
           given == InOrder(P)
           chosen == [s \in DOMAIN given |-> parts[given[s]]]
<1>1. DOMAIN subtrees' = DOMAIN given
  <2>1. subtrees' = [s \in DOMAIN chosen |->
                       [sa |-> chosen[s].sa, en |-> chosen[s].en,
                        dest |-> contrib_dest[s], loc |-> chosen[s].loc]]
    BY DEF Collect
  <2>2. DOMAIN chosen = DOMAIN given
    OBVIOUS
  <2> HIDE DEF chosen, given
  <2> QED BY <2>1, <2>2
<1>2. P \in SUBSET Nat /\ IsFiniteSet(P)
  <2>1. pc = "collect"
    BY DEF Collect
  <2>2. MergedTo(parts, tree.n)
    BY <2>1 DEF OmpInv
  <2>3. DOMAIN parts = 1..Len(parts) /\ Len(parts) \in Nat
    BY <2>2, ChainFacts DEF MergedTo
  <2>4. P \subseteq 1..Len(parts) /\ 1..Len(parts) \subseteq Nat /\ IsFiniteSet(1..Len(parts))
    BY <2>3, FS_Interval DEF PartSet
  <2> QED BY <2>4, FS_Subset
<1> HIDE DEF P
<1>3. Enumerates(given, P)
  BY <1>2, InOrderIs
<1> HIDE DEF given
<1>4. Len(given) \in Nat /\ DOMAIN given = 1..Len(given)
  BY <1>3, LenProperties DEF Enumerates
<1> QED BY <1>1, <1>4

LEMMA ListStep ==
  ASSUME TreeShape, OmpInv, ListInv, Next
  PROVE  ListInv'
<1>1. UNCHANGED tree
  BY DEF Next, PruneNext, MapLayer, Bottom, Restart, Descend, RecordRest,
         PartNext, Accept, Split, Consolidate, Merge, Collect, treeVars
<1>2. CASE ~ tree.omp
  BY <1>1, <1>2 DEF ListInv
<1>3. CASE tree.omp
  <2>1. PartNext
    BY <1>3 DEF Next, OmpInv, PruneNext, MapLayer, Bottom, Restart, Descend, RecordRest
  <2>2. CASE Collect
    BY <1>3, <2>2, CollectLists DEF ListInv, Listed
  <2>3. CASE UNCHANGED subtrees
    BY <1>3, <2>3 DEF ListInv, Listed
  <2>4. Collect \/ UNCHANGED subtrees
    BY <2>1 DEF PartNext, Accept, Split, Consolidate, Merge, treeVars
  <2> QED BY <2>2, <2>3, <2>4
<1> QED BY <1>2, <1>3

LEMMA OrderAlways == SolveSpec => [](TreeShape /\ OrderInv)
<1>1. SolveInit => ListInv
  <2> SUFFICES ASSUME SolveInit PROVE Listed
    BY DEF ListInv
  <2>1. subtrees = <<>>
    BY DEF SolveInit, Init, TreeInit
  <2>2. DOMAIN subtrees = 1..0
    BY <2>1
  <2> QED BY <2>2 DEF Listed
<1>2. TreeShape /\ OmpInv /\ ListInv /\ [SolveNext]_allVars => ListInv'
  <2> SUFFICES ASSUME TreeShape, OmpInv, ListInv, [SolveNext]_allVars PROVE ListInv'
    OBVIOUS
  <2>1. CASE Next
    BY <2>1, ListStep
  <2>2. CASE UNCHANGED vars
    BY <2>2 DEF ListInv, Listed, vars
  <2> QED BY <2>1, <2>2 DEF SolveNext, SolveFwd, SolveDiagBwd, allVars
<1>3. TreeShape /\ OmpInv /\ PruneInv /\ OnceInv /\ ListInv => OrderInv
  <2> SUFFICES ASSUME TreeShape, OmpInv, PruneInv, OnceInv, ListInv, Done, tree.omp \/ ~ Tied
               PROVE  Covering(SolveOrder)
    BY DEF OrderInv
  <2>1. Listed
    <3>1. CASE tree.omp
      BY <3>1 DEF ListInv
    <3>2. CASE ~ tree.omp
      <4>1. subtrees \in Seq(Recs)
        BY <3>2 DEF PruneInv, StateOK
      <4> QED BY <4>1, LenProperties DEF Listed
    <3> QED BY <3>1, <3>2
  <2> QED BY <2>1, Chosen, OrderCovers
<1> QED BY <1>1, <1>2, <1>3, PruneAlways, PTL DEF SolveSpec

(* What holds of the values a step gives the counters holds after it.       *)
LEMMA CountedNext ==
  ASSUME UNCHANGED tree, NEW f, fwd' = f, NEW b, bwd' = b, NEW t, turn' = t, NEW p, pass' = p,
         NEW O, SolveOrder' = O
  PROVE  /\ Stage(p, t, f, b, O) => Stage(pass, turn, fwd, bwd, SolveOrder)'
         /\ Counted(f, <<>>, {}) => Counted(fwd, <<>>, {})'
         /\ Counted(b, <<>>, {}) => Counted(bwd, <<>>, {})'
<1>1. Stage(p, t, f, b, O) => Stage(pass, turn, fwd, bwd, SolveOrder)'
  BY DEF Stage, Counted, Node
<1>2. Counted(f, <<>>, {}) => Counted(fwd, <<>>, {})'
  BY DEF Counted, Node
<1>3. Counted(b, <<>>, {}) => Counted(bwd, <<>>, {})'
  BY DEF Counted, Node
<1> QED BY <1>1, <1>2, <1>3

LEMMA OrderSame ==
  ASSUME UNCHANGED vars
  PROVE  SolveOrder' = SolveOrder /\ Done' = Done /\ UNCHANGED tree /\ (Tied => Tied')
<1>1. tree' = tree /\ pc' = pc /\ small' = small /\ subtrees' = subtrees
  BY DEF vars
<1>2. SolveOrder' = SolveOrder
  BY <1>1 DEF SolveOrder, TopFronts, InSubtree, Node
<1>3. Done' = Done
  BY <1>1 DEF Done
<1> QED BY <1>1, <1>2, <1>3, WeightsSame

LEMMA SolveStutter ==
  ASSUME SolveInv, UNCHANGED allVars
  PROVE  SolveInv'
<1>1. /\ UNCHANGED vars /\ fwd' = fwd /\ bwd' = bwd /\ turn' = turn /\ pass' = pass
  BY DEF allVars, solveVars
<1>2. SolveOrder' = SolveOrder /\ Done' = Done /\ UNCHANGED tree /\ (Tied => Tied')
  BY <1>1, OrderSame
<1> QED BY <1>1, <1>2, CountedNext DEF SolveInv

LEMMA SolveStep ==
  ASSUME TreeShape, OrderInv, OrderInv', SolveInv, SolveNext
  PROVE  SolveInv'
<1>1. CASE ~ Done /\ Next /\ UNCHANGED solveVars
  <2> DEFINE O == SolveOrder'
  <2>1. /\ fwd' = fwd /\ bwd' = bwd /\ turn' = turn /\ pass' = pass /\ pass = "fwd" /\ turn = 0
        /\ Counted(fwd, <<>>, {}) /\ Counted(bwd, <<>>, {})
    BY <1>1 DEF SolveInv, solveVars
  <2>2. UNCHANGED tree
    BY <1>1 DEF Next, PruneNext, MapLayer, Bottom, Restart, Descend, RecordRest,
                PartNext, Accept, Split, Consolidate, Merge, Collect, treeVars
  <2>3. SolveOrder' = O
    OBVIOUS
  <2>4. Covering(SolveOrder)' => Covering(O)
    BY <2>2 DEF Covering, Node, VRoot, parent
  <2> HIDE DEF O
  <2>5. Counted(fwd, <<>>, {})' /\ Counted(bwd, <<>>, {})'
    BY <2>1, <2>2, <2>3, CountedNext
  <2>6. ASSUME (Done /\ (tree.omp \/ ~ Tied))'
        PROVE  Stage(pass, turn, fwd, bwd, SolveOrder)'
    <3>1. Covering(O)
      BY <2>4, <2>6 DEF OrderInv
    <3>2. Stage("fwd", 0, fwd, bwd, O)
      BY <2>1, <3>1, FirstStage
    <3> QED BY <2>1, <2>2, <2>3, <3>2, CountedNext
  <2>7. pass' = "fwd" /\ turn' = 0
    BY <2>1
  <2> QED BY <2>5, <2>6, <2>7 DEF SolveInv
<1>2. CASE SolveFwd
  <2> DEFINE O == SolveOrder
  <2>1. /\ UNCHANGED vars /\ Done /\ pass = "fwd" /\ turn < Len(O)
        /\ fwd' = OnceMore(fwd, O[turn + 1]) /\ bwd' = bwd
        /\ turn + 1 = Len(O) => pass' = "bwd" /\ turn' = 0
        /\ turn + 1 # Len(O) => pass' = "fwd" /\ turn' = turn + 1
    BY <1>2 DEF SolveFwd
  <2>2. SolveOrder' = O /\ Done' /\ UNCHANGED tree /\ (Tied => Tied')
    BY <2>1, OrderSame
  <2>3. ASSUME tree.omp \/ ~ Tied
        PROVE  Stage(pass, turn, fwd, bwd, SolveOrder)'
    <3>1. Covering(O) /\ Stage("fwd", turn, fwd, bwd, O)
      BY <2>1, <2>3 DEF OrderInv, SolveInv
    <3> HIDE DEF O
    <3>2. turn \in Nat
      BY <3>1 DEF Stage
    <3>3. /\ turn + 1 # Len(O) => Stage("fwd", turn + 1, OnceMore(fwd, O[turn + 1]), bwd, O)
          /\ turn + 1 = Len(O) => Stage("bwd", 0, OnceMore(fwd, O[turn + 1]), bwd, O)
      BY <2>1, <3>1, <3>2, ForwardStage
    <3> QED BY <2>1, <2>2, <3>3, CountedNext
  <2> QED BY <2>2, <2>3 DEF SolveInv
<1>3. CASE SolveDiagBwd
  <2> DEFINE O == SolveOrder
  <2>1. /\ UNCHANGED vars /\ Done /\ pass = "bwd"
        /\ bwd' = OnceMore(bwd, O[Len(O) - turn]) /\ fwd' = fwd
        /\ turn + 1 = Len(O) => pass' = "end" /\ turn' = 0
        /\ turn + 1 # Len(O) => pass' = "bwd" /\ turn' = turn + 1
    BY <1>3 DEF SolveDiagBwd
  <2>2. SolveOrder' = O /\ Done' /\ UNCHANGED tree /\ (Tied => Tied')
    BY <2>1, OrderSame
  <2>3. ASSUME tree.omp \/ ~ Tied
        PROVE  Stage(pass, turn, fwd, bwd, SolveOrder)'
    <3>1. Covering(O) /\ Stage("bwd", turn, fwd, bwd, O)
      BY <2>1, <2>3 DEF OrderInv, SolveInv
    <3> HIDE DEF O
    <3>3. /\ turn + 1 # Len(O) => Stage("bwd", turn + 1, fwd, OnceMore(bwd, O[Len(O) - turn]), O)
          /\ turn + 1 = Len(O) => Stage("end", 0, fwd, OnceMore(bwd, O[Len(O) - turn]), O)
      BY <3>1, BackwardStage
    <3> QED BY <2>1, <2>2, <3>3, CountedNext
  <2> QED BY <2>2, <2>3 DEF SolveInv
<1>4. CASE UNCHANGED allVars
  BY <1>4, SolveStutter
<1> QED BY <1>1, <1>2, <1>3, <1>4 DEF SolveNext

LEMMA SolveAlways == SolveSpec => [](TreeShape /\ OrderInv /\ SolveInv)
<1>1. SolveInit => SolveInv
  <2> SUFFICES ASSUME SolveInit PROVE SolveInv
    OBVIOUS
  <2>1. /\ pass = "fwd" /\ turn = 0 /\ fwd = [i \in Node |-> 0] /\ bwd = [i \in Node |-> 0]
        /\ pc \in {"split", "godown"}
    BY DEF SolveInit, Init
  <2>2. Counted(fwd, <<>>, {}) /\ Counted(bwd, <<>>, {})
    BY <2>1 DEF Counted
  <2> QED BY <2>1, <2>2 DEF SolveInv, Done
<1>2. TreeShape /\ OrderInv /\ OrderInv' /\ SolveInv /\ [SolveNext]_allVars => SolveInv'
  BY SolveStep, SolveStutter
<1> QED BY <1>1, <1>2, OrderAlways, PTL DEF SolveSpec

(* Each front is solved forward once, after the fronts below it, and        *)
(* backward once, after the whole forward pass and after its parent: the    *)
(* list of subtrees and the loops over the tree together take every front,  *)
(* in an order that respects the tree. With find_subtree_partition on every *)
(* tree, with prune_tree when no two nodes on different branches weigh the  *)
(* same (Tied).                                                             *)
THEOREM FrontsSolvedInOrder == SolveSpec => []SolvedInOrder
<1>1. TreeShape /\ OrderInv /\ SolveInv => SolvedInOrder
  <2> SUFFICES ASSUME TreeShape, OrderInv, SolveInv, tree.omp \/ ~ Tied, NEW i \in Node
               PROVE  /\ fwd[i] <= 1 /\ bwd[i] <= 1
                      /\ fwd[i] = 1 => \A c \in ToSet(tree.child[i]) : fwd[c] = 1
                      /\ bwd[i] = 1 => /\ \A j \in Node : fwd[j] = 1
                                       /\ parent(i) = VRoot \/ bwd[parent(i)] = 1
    BY DEF SolvedInOrder
  <2>1. CASE Done
    BY <2>1, StageInOrder DEF OrderInv, SolveInv
  <2>2. CASE ~ Done
    <3>1. Counted(fwd, <<>>, {}) /\ Counted(bwd, <<>>, {})
      BY <2>2 DEF SolveInv
    <3>2. fwd[i] = 0 /\ bwd[i] = 0
      BY <3>1 DEF Counted
    <3> QED BY <3>2
  <2> QED BY <2>1, <2>2
<1> QED BY <1>1, SolveAlways, PTL
=============================================================================
