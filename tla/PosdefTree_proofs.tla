-------------------------- MODULE PosdefTree_proofs --------------------------
(***************************************************************************)
(* No two tasks of the Cholesky factorization touch one block or tile at   *)
(* once, and what a task reads is whole, for every tree, every size of     *)
(* front and block, and any number of workers.  The argument:              *)
(*                                                                         *)
(*  - the loops that collect the handles of an assembly name a destination *)
(*    only once per block column, and that is enough, because row lists    *)
(*    increase (HandlesCoverWrites);                                       *)
(*  - so every kernel writes only what its task declares, except fini_node *)
(*    and the factorization of a subtree (WritesDeclared, ReadsDeclared),  *)
(*    and the exclusion of the task flow applies;                          *)
(*  - fini_node frees tiles it does not declare: a task that adds to such  *)
(*    a tile precedes the task that assembles the tile into the parent,    *)
(*    and that one precedes fini_node (Reader);                            *)
(*  - so memory holds the results of the tasks that have written it        *)
(*    (ResultsKept), and a tile does from its first update on, which       *)
(*    overwrites it and precedes all else that adds to it (TilesKept);     *)
(*  - a task that conflicts with another one and has the smaller key is    *)
(*    done before the other starts (DoneBefore): comparing keys, everything*)
(*    that belongs in a block or tile is in it when it is used.            *)
(***************************************************************************)
EXTENDS PosdefTree, TaskFlow_proofs, WellFoundedInduction

-----------------------------------------------------------------------------
(* Arithmetic of blocks.                                                    *)

LessThan == {ss \in Nat \X Nat : ss[1] < ss[2]}

LEMMA LessWellFounded == IsWellFoundedOn(LessThan, Nat)
  BY NatLessThanWellFounded DEF OpToRel, LessThan

LEMMA Smallest ==
  ASSUME NEW T \in SUBSET Nat, T # {}
  PROVE  \E x \in T : \A y \in T : x <= y
<1>1. PICK x \in T : \A y \in T : ~ (<<y, x>> \in LessThan)
  BY LessWellFounded, WFMin, Zenon
<1>2. \A y \in T : ~ (y < x)
  BY <1>1 DEF LessThan
<1> QED BY <1>2

(* The quotient is the block in which a row lies. *)
LEMMA BlockOf ==
  ASSUME NEW B \in Nat \ {0}, NEW a \in Nat
  PROVE  /\ a \div B \in Nat
         /\ B * (a \div B) <= a
         /\ a < B * (a \div B) + B
  BY Z3

LEMMA DivMonotone ==
  ASSUME NEW B \in Nat \ {0}, NEW a \in Nat, NEW b \in Nat, a <= b
  PROVE  a \div B <= b \div B
  BY Z3

LEMMA DivMultiple ==
  ASSUME NEW B \in Nat \ {0}, NEW q \in Nat
  PROVE  (q * B) \div B = q
  BY Z3

-----------------------------------------------------------------------------
(* The tasks, by kernel. *)

AssemblesSubtree == {"assemble_subtree", "assemble_contrib_subtree"}
AssemblesTile == {"assemble_block", "assemble_contrib_block"}

LEMMA AssembleShape ==
  ASSUME NEW f \in Tiled, NEW t \in AssembleTasks(f)
  PROVE  \/ /\ t.op = "assemble_subtree" /\ t.f = f /\ t.i = 0 /\ t.j = 0
            /\ t.k \in Subtree /\ Parent[t.k] = f
         \/ /\ t.op = "assemble_block" /\ t.f = f
            /\ t.k \in Tiled /\ Parent[t.k] = f /\ <<t.i, t.j>> \in TileIndex(t.k)
<1>1. ASSUME NEW c \in Children(f) \cap Subtree, t \in assemble_subtree_task(f, c)
      PROVE  /\ t.op = "assemble_subtree" /\ t.f = f /\ t.i = 0 /\ t.j = 0
             /\ t.k \in Subtree /\ Parent[t.k] = f
  BY <1>1 DEF assemble_subtree_task, task, Children
<1>2. ASSUME NEW c \in Children(f) \ Subtree, t \in assemble_block_task(f, c)
      PROVE  /\ t.op = "assemble_block" /\ t.f = f
             /\ t.k \in Tiled /\ Parent[t.k] = f /\ <<t.i, t.j>> \in TileIndex(t.k)
  BY <1>2 DEF assemble_block_task, task, Children, Tiled, TileIndex, LowerPairs
<1> QED BY <1>1, <1>2 DEF AssembleTasks

LEMMA AssembleContribShape ==
  ASSUME NEW f \in Tiled, NEW t \in AssembleContribTasks(f)
  PROVE  \/ /\ t.op = "assemble_contrib_subtree" /\ t.f = f /\ t.i = 0 /\ t.j = 0
            /\ t.k \in Subtree /\ Parent[t.k] = f
         \/ /\ t.op = "assemble_contrib_block" /\ t.f = f
            /\ t.k \in Tiled /\ Parent[t.k] = f /\ <<t.i, t.j>> \in TileIndex(t.k)
<1>1. ASSUME NEW c \in Children(f) \cap Subtree, t \in assemble_contrib_subtree_task(f, c)
      PROVE  /\ t.op = "assemble_contrib_subtree" /\ t.f = f /\ t.i = 0 /\ t.j = 0
             /\ t.k \in Subtree /\ Parent[t.k] = f
  BY <1>1 DEF assemble_contrib_subtree_task, task, Children
<1>2. ASSUME NEW c \in Children(f) \ Subtree, t \in assemble_contrib_block_task(f, c)
      PROVE  /\ t.op = "assemble_contrib_block" /\ t.f = f
             /\ t.k \in Tiled /\ Parent[t.k] = f /\ <<t.i, t.j>> \in TileIndex(t.k)
  BY <1>2 DEF assemble_contrib_block_task, task, Children, Tiled, TileIndex, LowerPairs
<1> QED BY <1>1, <1>2 DEF AssembleContribTasks

LEMMA FactorShape ==
  ASSUME NEW f \in Tiled, NEW t \in factor_front_posdef(f)
  PROVE  t.op \in Factors /\ t.f = f
BY DEF factor_front_posdef, Factors, task

LEMMA Shape ==
  ASSUME NEW t \in PTask
  PROVE  \/ t.op = "factor_subtree" /\ t.f \in Subtree /\ t = task("factor_subtree", t.f, 0, 0, 0)
         \/ t.op = "init_node" /\ t.f \in Tiled
         \/ t.op \in Factors /\ t.f \in Tiled
         \/ /\ t.op \in AssemblesSubtree /\ t.f \in Tiled
            /\ t.k \in Subtree /\ Parent[t.k] = t.f
         \/ /\ t.op \in AssemblesTile /\ t.f \in Tiled
            /\ t.k \in Tiled /\ Parent[t.k] = t.f /\ <<t.i, t.j>> \in TileIndex(t.k)
         \/ /\ t.op = "fini_node" /\ t.k \in Tiled /\ t = task("fini_node", Parent[t.k], t.k, 0, 0)
<1>1. ASSUME NEW f \in Subtree, t = task("factor_subtree", f, 0, 0, 0)
      PROVE  t.op = "factor_subtree" /\ t.f \in Subtree /\ t = task("factor_subtree", t.f, 0, 0, 0)
  BY <1>1 DEF task
<1>2. ASSUME NEW f \in Tiled, t = task("init_node", f, 0, 0, 0)
      PROVE  t.op = "init_node" /\ t.f \in Tiled
  BY <1>2 DEF task
<1>3. ASSUME NEW f, t \in FiniTasks(f)
      PROVE  t.op = "fini_node" /\ t.k \in Tiled /\ t = task("fini_node", Parent[t.k], t.k, 0, 0)
  BY <1>3 DEF FiniTasks, task, Tiled, Children
<1>4. \/ \E f \in Subtree : t = task("factor_subtree", f, 0, 0, 0)
      \/ \E f \in Tiled : \/ t = task("init_node", f, 0, 0, 0)
                           \/ t \in AssembleTasks(f)
                           \/ t \in factor_front_posdef(f)
                           \/ t \in AssembleContribTasks(f)
                           \/ t \in FiniTasks(f)
      \/ t \in FiniTasks(NFront + 1)
  BY DEF PTask
<1>5. ASSUME NEW f \in Tiled, t \in AssembleTasks(f) \/ t \in AssembleContribTasks(f)
      PROVE  \/ /\ t.op \in AssemblesSubtree /\ t.f \in Tiled
                /\ t.k \in Subtree /\ Parent[t.k] = t.f
             \/ /\ t.op \in AssemblesTile /\ t.f \in Tiled
                /\ t.k \in Tiled /\ Parent[t.k] = t.f /\ <<t.i, t.j>> \in TileIndex(t.k)
  BY <1>5, AssembleShape, AssembleContribShape DEF AssemblesSubtree, AssemblesTile
<1> QED BY <1>1, <1>2, <1>3, <1>4, <1>5, FactorShape

-----------------------------------------------------------------------------
(* Where the coefficients of a contribution go. *)

LEMMA Sizes ==
  ASSUME NEW f \in Front
  PROVE  /\ NRow[f] \in Nat \ {0} /\ NCol[f] \in Nat \ {0} /\ NCol[f] <= NRow[f]
         /\ BlockSize \in Nat \ {0}
         /\ Row(f) \subseteq Nat
         /\ rsa(f) \in Nat
         /\ (NRow[f] - 1) \div BlockSize \in Nat
         /\ (NCol[f] - 1) \div BlockSize \in Nat
<1>1. /\ NRow[f] \in Nat \ {0} /\ NCol[f] \in Nat \ {0} /\ NCol[f] <= NRow[f]
      /\ BlockSize \in Nat \ {0}
  BY TreeAssumption
<1>2. NRow[f] - 1 \in Nat /\ NCol[f] - 1 \in Nat
  BY <1>1
<1> QED BY <1>1, <1>2, BlockOf DEF Row, rsa

(* A child of a front factorized by block: its rows have places in the      *)
(* parent, in the same order.                                               *)
LEMMA RowMap ==
  ASSUME NEW c \in Front, Parent[c] \in Tiled
  PROVE  /\ Parent[c] \in Front
         /\ \A i \in Row(c) : Map[c][i] \in Nat /\ Map[c][i] <= NRow[Parent[c]] - 1
         /\ \A i, j \in Row(c) : i <= j => Map[c][i] <= Map[c][j]
<1>1. Parent[c] \in Front /\ Parent[c] # NFront + 1
  BY TreeAssumption DEF Tiled, Front
<1>2. Map[c] \in [Row(c) -> 0..(NRow[Parent[c]] - 1)]
  BY <1>1, TreeAssumption
<1>3. \A i, j \in Row(c) : i < j => Map[c][i] < Map[c][j]
  BY TreeAssumption
<1>4. NRow[Parent[c]] \in Nat \ {0} /\ Row(c) \subseteq Nat
  BY <1>1, Sizes
<1>5. \A i \in Row(c) : Map[c][i] \in 0..(NRow[Parent[c]] - 1)
  BY <1>2
<1>6. \A i \in Row(c) : Map[c][i] \in Nat /\ Map[c][i] <= NRow[Parent[c]] - 1
  BY <1>4, <1>5
<1>7. ASSUME NEW i \in Row(c), NEW j \in Row(c), i <= j
      PROVE  Map[c][i] <= Map[c][j]
  <2>1. CASE i = j
    BY <2>1, <1>6
  <2>2. CASE i < j
    BY <2>2, <1>3, <1>6
  <2> QED BY <1>4, <1>7, <2>1, <2>2
<1> QED BY <1>1, <1>6, <1>7

LEMMA Coefs ==
  ASSUME NEW A, NEW D, NEW p
  PROVE  p \in LowerPairs(A, D) <=> p = <<p[1], p[2]>> /\ p[1] \in A /\ p[2] \in D /\ p[2] <= p[1]
BY DEF LowerPairs

(* The first column of its block column stands for every coefficient.       *)
LEMMA FirstStandsForAll ==
  ASSUME NEW c \in Front, NEW T \in SUBSET AllCoefs(c),
         \A p, q \in T : q[2] <= p[2] => <<p[1], q[2]>> \in T,
         NEW p \in T
  PROVE  \E q \in FirstColumns(c, T) : Dest(c, q) = Dest(c, p)
<1> DEFINE Same == {r \in T : Dest(c, r)[2] = Dest(c, p)[2]}
           X == {r[2] : r \in Same}
<1>1. X \in SUBSET Nat /\ X # {}
  BY Sizes, Coefs DEF AllCoefs
<1>2. PICK x \in X : \A y \in X : x <= y
  BY <1>1, Smallest
<1>3. PICK r \in Same : r[2] = x
  OBVIOUS
<1> DEFINE q == <<p[1], x>>
<1>4. p[2] \in X /\ x <= p[2]
  BY <1>2
<1>5. q \in T
  BY <1>3, <1>4
<1>6. Dest(c, q)[2] = Dest(c, r)[2] /\ Dest(c, q)[1] = Dest(c, p)[1]
  BY <1>3 DEF Dest
<1>7. Dest(c, q) = Dest(c, p)
  BY <1>3, <1>6 DEF Dest
<1>8. ASSUME NEW s \in T, s[2] < q[2], Dest(c, s)[2] = Dest(c, q)[2]
      PROVE  FALSE
  <2>1. s \in Same /\ s[2] \in X
    BY <1>7, <1>8
  <2> QED BY <1>1, <1>2, <1>8, <2>1, SMTT(20)
<1>9. q \in FirstColumns(c, T)
  BY <1>5, <1>8 DEF FirstColumns
<1> QED BY <1>7, <1>9

LEMMA ClosedParts ==
  ASSUME NEW c \in Front, NEW A \in SUBSET Row(c), NEW D \in SUBSET Row(c),
         NEW T, T = FullySummed(c, LowerPairs(A, D)) \/ T = NotFullySummed(c, LowerPairs(A, D))
  PROVE  /\ T \in SUBSET AllCoefs(c)
         /\ \A p, q \in T : q[2] <= p[2] => <<p[1], q[2]>> \in T
<1>1. T \subseteq LowerPairs(A, D)
  BY DEF FullySummed, NotFullySummed
<1>2. LowerPairs(A, D) \subseteq AllCoefs(c)
  BY DEF LowerPairs, AllCoefs
<1>3. ASSUME NEW p \in T, NEW q \in T, q[2] <= p[2]
      PROVE  <<p[1], q[2]>> \in T
  <2>1. /\ p[1] \in A /\ p[2] \in D /\ p[2] <= p[1] /\ q[2] \in D
        /\ p[1] \in Nat /\ p[2] \in Nat /\ q[2] \in Nat
    BY <1>1, Coefs, Sizes
  <2>2. <<p[1], q[2]>> \in LowerPairs(A, D)
    BY <1>3, <2>1, Coefs
  <2> QED BY <2>2 DEF FullySummed, NotFullySummed
<1> QED BY <1>1, <1>2, <1>3

(* The handles collected by the loops are the blocks the kernel writes.     *)
LEMMA HandlesCoverWrites ==
  ASSUME NEW c \in Front, NEW A \in SUBSET Row(c), NEW D \in SUBSET Row(c)
  PROVE  /\ assemble_block(c, LowerPairs(A, D)) = DestBlocks(c, LowerPairs(A, D))
         /\ assemble_contrib_block(c, LowerPairs(A, D)) = DestTiles(c, LowerPairs(A, D))
<1> DEFINE FS == FullySummed(c, LowerPairs(A, D))
           NFS == NotFullySummed(c, LowerPairs(A, D))
<1>1. \A p \in FS : \E q \in FirstColumns(c, FS) : Dest(c, q) = Dest(c, p)
  BY ClosedParts, FirstStandsForAll
<1>2. \A p \in NFS : \E q \in FirstColumns(c, NFS) : Dest(c, q) = Dest(c, p)
  BY ClosedParts, FirstStandsForAll
<1>3. FirstColumns(c, FS) \subseteq FS /\ FirstColumns(c, NFS) \subseteq NFS
  BY DEF FirstColumns
<1>4. assemble_block(c, LowerPairs(A, D)) = DestBlocks(c, LowerPairs(A, D))
  BY <1>1, <1>3 DEF assemble_block, DestBlocks
<1>5. assemble_contrib_block(c, LowerPairs(A, D)) = DestTiles(c, LowerPairs(A, D))
  BY <1>2, <1>3 DEF assemble_contrib_block, DestTiles
<1> QED BY <1>4, <1>5

(* Destinations are blocks and tiles of the parent. *)
LEMMA BlocksOfParent ==
  ASSUME NEW c \in Front, Parent[c] \in Tiled, NEW S \in SUBSET AllCoefs(c)
  PROVE  assemble_block(c, S) \subseteq Blocks(Parent[c])
<1> DEFINE f == Parent[c]
<1> SUFFICES ASSUME NEW p \in FullySummed(c, S)
             PROVE  block(f, Dest(c, p)[1], Dest(c, p)[2]) \in Blocks(f)
  BY DEF assemble_block
<1> DEFINE a == Map[c][p[1]]
           b == Map[c][p[2]]
<1>1. p[1] \in Row(c) /\ p[2] \in Row(c) /\ p[2] <= p[1] /\ b < NCol[f]
  BY Coefs DEF FullySummed, AllCoefs
<1>2. a \in Nat /\ b \in Nat /\ b <= a /\ a <= NRow[f] - 1
  BY <1>1, RowMap
<1>3. /\ NRow[f] - 1 \in Nat /\ NCol[f] - 1 \in Nat /\ b <= NCol[f] - 1
      /\ BlockSize \in Nat \ {0}
  BY <1>1, <1>2, RowMap, Sizes
<1>4. /\ a \div BlockSize \in Nat /\ b \div BlockSize \in Nat
      /\ b \div BlockSize <= a \div BlockSize
      /\ a \div BlockSize <= (NRow[f] - 1) \div BlockSize
      /\ b \div BlockSize <= (NCol[f] - 1) \div BlockSize
  BY <1>2, <1>3, BlockOf, DivMonotone
<1>5. a \div BlockSize \in 0..(nr(f) - 1) /\ b \div BlockSize \in 0..(nc(f) - 1)
  BY <1>4, RowMap, Sizes DEF nr, nc
<1>6. <<a \div BlockSize, b \div BlockSize>> \in BlockIndex(f)
  BY <1>4, <1>5, Coefs DEF BlockIndex
<1> QED BY <1>6 DEF Blocks, Dest

LEMMA TilesOfParent ==
  ASSUME NEW c \in Front, Parent[c] \in Tiled, NEW S \in SUBSET AllCoefs(c)
  PROVE  assemble_contrib_block(c, S) \subseteq Tiles(Parent[c])
<1> DEFINE f == Parent[c]
<1> SUFFICES ASSUME NEW p \in NotFullySummed(c, S)
             PROVE  contrib_block(f, Dest(c, p)[1], Dest(c, p)[2]) \in Tiles(f)
  BY DEF assemble_contrib_block
<1> DEFINE a == Map[c][p[1]]
           b == Map[c][p[2]]
<1>1. p[1] \in Row(c) /\ p[2] \in Row(c) /\ p[2] <= p[1] /\ b >= NCol[f]
  BY Coefs DEF NotFullySummed, AllCoefs
<1>2. a \in Nat /\ b \in Nat /\ b <= a /\ a <= NRow[f] - 1
  BY <1>1, RowMap
<1>3. /\ NRow[f] - 1 \in Nat /\ NCol[f] \in Nat /\ ldcontrib(f) > 0
      /\ BlockSize \in Nat \ {0}
  BY <1>1, <1>2, RowMap, Sizes DEF ldcontrib
<1>4. /\ a \div BlockSize \in Nat /\ b \div BlockSize \in Nat
      /\ b \div BlockSize <= a \div BlockSize
      /\ a \div BlockSize <= (NRow[f] - 1) \div BlockSize
      /\ NCol[f] \div BlockSize <= b \div BlockSize
  BY <1>1, <1>2, <1>3, BlockOf, DivMonotone
<1>5. a \div BlockSize \in rsa(f)..(nr(f) - 1) /\ b \div BlockSize \in rsa(f)..(nr(f) - 1)
  BY <1>4, RowMap, Sizes DEF nr, rsa
<1>6. <<a \div BlockSize, b \div BlockSize>> \in TileIndex(f)
  BY <1>3, <1>4, <1>5, Coefs DEF TileIndex
<1> QED BY <1>6 DEF Tiles, Dest

(* Every tile of a front holds a coefficient. *)
LEMMA TileHoldsRows ==
  ASSUME NEW c \in Front, ldcontrib(c) > 0, NEW ii \in rsa(c)..(nr(c) - 1)
  PROVE  RowsOf(c, ii) # {}
<1>1. /\ NRow[c] \in Nat \ {0} /\ NCol[c] \in Nat \ {0} /\ BlockSize \in Nat \ {0}
      /\ ii \in Nat /\ rsa(c) \in Nat /\ (NRow[c] - 1) \div BlockSize \in Nat
      /\ rsa(c) <= ii /\ ii <= (NRow[c] - 1) \div BlockSize
      /\ NRow[c] - NCol[c] > 0
  BY Sizes DEF nr, ldcontrib
<1>2. CASE ii = rsa(c)
  <2>1. 0 \in Row(c)
    BY <1>1 DEF Row
  <2>2. (NCol[c] + 0) \div BlockSize = ii
    BY <1>1, <1>2 DEF rsa
  <2> QED BY <2>1, <2>2 DEF RowsOf
<1>3. CASE ii > rsa(c)
  <2> DEFINE i == ii * BlockSize - NCol[c]
  <2>1. ii * BlockSize \in Nat /\ ii * BlockSize >= (rsa(c) + 1) * BlockSize
    BY <1>1, <1>3, Z3
  <2>2. NCol[c] < BlockSize * rsa(c) + BlockSize
    BY <1>1, BlockOf DEF rsa
  <2>3. ii * BlockSize <= BlockSize * ((NRow[c] - 1) \div BlockSize)
    BY <1>1, Z3
  <2>4. BlockSize * ((NRow[c] - 1) \div BlockSize) <= NRow[c] - 1
    BY <1>1, BlockOf
  <2>5. (rsa(c) + 1) * BlockSize = BlockSize * rsa(c) + BlockSize
    BY <1>1, Z3
  <2>6. i \in Row(c)
    BY <1>1, <2>1, <2>2, <2>3, <2>4, <2>5, Z3 DEF Row
  <2>7. NCol[c] + i = ii * BlockSize
    BY <1>1, <2>1
  <2>8. (NCol[c] + i) \div BlockSize = ii
    BY <1>1, <2>7, DivMultiple
  <2> QED BY <2>6, <2>8 DEF RowsOf
<1> QED BY <1>1, <1>2, <1>3

LEMMA TileHoldsCoefs ==
  ASSUME NEW c \in Front, NEW ii, NEW jj, <<ii, jj>> \in TileIndex(c)
  PROVE  TileCoefs(c, ii, jj) # {}
<1>1. /\ ldcontrib(c) > 0 /\ jj <= ii
      /\ ii \in rsa(c)..(nr(c) - 1) /\ jj \in rsa(c)..(nr(c) - 1)
  BY DEF TileIndex, LowerPairs
<1>2. PICK i \in RowsOf(c, ii) : TRUE
  BY <1>1, TileHoldsRows
<1>3. PICK j \in RowsOf(c, jj) : TRUE
  BY <1>1, TileHoldsRows
<1>4. /\ i \in Nat /\ j \in Nat /\ NCol[c] \in Nat /\ BlockSize \in Nat \ {0}
      /\ (NCol[c] + i) \div BlockSize = ii /\ (NCol[c] + j) \div BlockSize = jj
  BY <1>2, <1>3, Sizes DEF RowsOf
<1>5. CASE j <= i
  <2>1. <<i, j>> \in TileCoefs(c, ii, jj)
    BY <1>2, <1>3, <1>5, Coefs DEF TileCoefs
  <2> QED BY <2>1
<1>6. CASE i <= j
  <2>1. ii <= jj
    BY <1>4, <1>6, DivMonotone, SMTT(20)
  <2>2. ii = jj
    BY <1>1, <2>1, Sizes
  <2>3. <<i, i>> \in TileCoefs(c, ii, jj)
    BY <1>2, <1>4, <2>2, Coefs DEF TileCoefs
  <2> QED BY <2>3
<1> QED BY <1>4, <1>5, <1>6

-----------------------------------------------------------------------------
(* What a task touches, and what it declares.                               *)

LEMMA PartsOfContribution ==
  ASSUME NEW c \in Front, NEW ii, NEW jj
  PROVE  /\ AllCoefs(c) \in SUBSET AllCoefs(c)
         /\ TileCoefs(c, ii, jj) \in SUBSET AllCoefs(c)
         /\ assemble_block(c, AllCoefs(c)) = DestBlocks(c, AllCoefs(c))
         /\ assemble_contrib_block(c, AllCoefs(c)) = DestTiles(c, AllCoefs(c))
         /\ assemble_block(c, TileCoefs(c, ii, jj)) = DestBlocks(c, TileCoefs(c, ii, jj))
         /\ assemble_contrib_block(c, TileCoefs(c, ii, jj)) = DestTiles(c, TileCoefs(c, ii, jj))
<1>1. RowsOf(c, ii) \in SUBSET Row(c) /\ RowsOf(c, jj) \in SUBSET Row(c)
  BY DEF RowsOf
<1>2. TileCoefs(c, ii, jj) \in SUBSET AllCoefs(c)
  BY <1>1 DEF TileCoefs, AllCoefs, LowerPairs
<1> QED BY <1>1, <1>2, HandlesCoverWrites DEF TileCoefs, AllCoefs

LEMMA ModeCases ==
  ASSUME NEW used, NEW h
  PROVE  /\ h \in used.RW => Mode(used, h) = "RW"
         /\ h \in used.C => Mode(used, h) \in {"RW", "C"}
         /\ h \in used.R => Mode(used, h) # "none"
<1>1. CASE h \in used.RW
  BY <1>1 DEF Mode
<1>2. CASE h \notin used.RW /\ h \in used.C
  BY <1>2 DEF Mode
<1>3. CASE h \notin used.RW /\ h \notin used.C /\ h \in used.R
  <2>1. h \in used.R \ (used.RW \cup used.C)
    BY <1>3
  <2> QED BY <1>3, <2>1 DEF Mode
<1> QED BY <1>1, <1>2, <1>3

(* The mode of a handle in a task. *)
LEMMA ModeOf ==
  ASSUME NEW t \in PTask, NEW h \in PHandle
  PROVE  /\ t \in Task /\ h \in Handle
         /\ h \in Inserted(t).RW \cup Inserted(t).C => Access[t][h] \in {"RW", "C"}
         /\ h \in Inserted(t).RW => Access[t][h] = "RW"
         /\ h \in Inserted(t).R => Access[t][h] # "none"
<1>1. Access[t][h] = Mode(Inserted(t), h)
  BY ProgramAssumption DEF PAccess
<1>2. t \in Task /\ h \in Handle
  BY ProgramAssumption
<1>3. /\ h \in Inserted(t).RW => Mode(Inserted(t), h) = "RW"
      /\ h \in Inserted(t).C => Mode(Inserted(t), h) \in {"RW", "C"}
      /\ h \in Inserted(t).R => Mode(Inserted(t), h) # "none"
  BY ModeCases
<1> QED BY <1>1, <1>2, <1>3

(* The node handle every user of a front holds. *)
LEMMA NodeHandles ==
  ASSUME NEW t \in PTask
  PROVE  /\ t.op = "factor_subtree" => hdl(t.f) \in Inserted(t).RW
         /\ t.op = "fini_node" => hdl(t.k) \in Inserted(t).RW
         /\ t.op \in Factors => hdl(t.f) \in Inserted(t).R
         /\ t.op \in AssemblesSubtree \cup AssemblesTile => hdl(t.k) \in Inserted(t).R
         /\ t.op \in AssemblesTile => contrib_block(t.k, t.i, t.j) \in Inserted(t).R
<1>1. CASE t.op = "factor_subtree"
  BY <1>1 DEF Inserted, insert_factor_subtree, Uses, Factors, AssemblesSubtree, AssemblesTile
<1>2. CASE t.op = "fini_node"
  BY <1>2 DEF Inserted, insert_fini_node, Uses, Factors, AssemblesSubtree, AssemblesTile
<1>3. CASE t.op \in Factors
  BY <1>3 DEF Inserted, insert_factor_block, insert_solve_block, insert_update_block,
              insert_update_contrib, Uses, Factors, AssemblesSubtree, AssemblesTile
<1>4. CASE t.op \in AssemblesSubtree
  BY <1>4 DEF Inserted, insert_subtree_assemble, insert_subtree_assemble_contrib, Uses,
              Factors, AssemblesSubtree, AssemblesTile
<1>5. CASE t.op \in AssemblesTile
  BY <1>5 DEF Inserted, insert_assemble_block, insert_assemble_contrib_block, Uses,
              Factors, AssemblesSubtree, AssemblesTile
<1> QED BY <1>1, <1>2, <1>3, <1>4, <1>5

(* The tasks of a front name handles of that front. *)
LEMMA FactorHandles ==
  ASSUME NEW t \in PTask, t.op \in Factors, NEW x \in Inserted(t).RW \cup Inserted(t).R
  PROVE  x[2] = t.f /\ x[1] # "subtree"
<1>1. CASE t.op = "factor_block"
  <2>1. x \in {block(t.f, t.k, t.k), contrib_block(t.f, t.k, t.k), hdl(t.f)}
    BY <1>1 DEF Inserted, insert_factor_block, factor_block_task, Uses
  <2> QED BY <2>1 DEF block, contrib_block, hdl
<1>2. CASE t.op = "solve_block"
  <2>1. x \in {block(t.f, t.i, t.k), contrib_block(t.f, t.i, t.k), block(t.f, t.k, t.k), hdl(t.f)}
    BY <1>2 DEF Inserted, insert_solve_block, solve_block_task, Uses
  <2> QED BY <2>1 DEF block, contrib_block, hdl
<1>3. CASE t.op = "update_block"
  <2>1. x \in {block(t.f, t.i, t.j), contrib_block(t.f, t.i, t.k), block(t.f, t.i, t.k),
                block(t.f, t.j, t.k), hdl(t.f)}
    BY <1>3 DEF Inserted, insert_update_block, update_block_task, Uses
  <2> QED BY <2>1 DEF block, contrib_block, hdl
<1>4. CASE t.op = "update_contrib"
  <2>1. x \in {contrib_block(t.f, t.i, t.j), block(t.f, t.i, t.k), block(t.f, t.j, t.k), hdl(t.f)}
    BY <1>4 DEF Inserted, insert_update_contrib, Uses
  <2> QED BY <2>1 DEF block, contrib_block, hdl
<1> QED BY <1>1, <1>2, <1>3, <1>4 DEF Factors

LEMMA NodeHandleExists ==
  ASSUME NEW f \in Front
  PROVE  hdl(f) \in PHandle
BY DEF PHandle

LEMMA MemoryParts ==
  ASSUME NEW f \in Tiled
  PROVE  Blocks(f) \subseteq PHandle /\ Tiles(f) \subseteq PHandle
BY DEF PHandle

(* All kernels but two write only what their task declares. *)
LEMMA WritesDeclared ==
  ASSUME NEW t \in PTask, t.op \notin {"factor_subtree", "fini_node"},
         NEW x \in Writes[t]
  PROVE  x \in PHandle /\ x \in Inserted(t).RW \cup Inserted(t).C
<1>1. CASE t.op = "init_node"
  <2>1. x \in Blocks(t.f)
    BY <1>1 DEF Writes, Factors
  <2>2. x \in Inserted(t).RW
    BY <1>1, <2>1 DEF Inserted, insert_init_node, Uses
  <2> QED BY <1>1, <2>1, <2>2, Shape, MemoryParts DEF Factors, AssemblesSubtree, AssemblesTile
<1>2. CASE t.op \in Factors
  <2>1. x \in Inserted(t).RW /\ x \in Memory
    BY <1>2 DEF Writes, Factors
  <2>2. x[1] # "subtree"
    BY <1>2, <2>1, FactorHandles
  <2> QED BY <2>1, <2>2 DEF Memory, PHandle, child_contrib
<1>3. CASE t.op \in AssemblesSubtree
  <2>1. t.f \in Tiled /\ t.k \in Front /\ Parent[t.k] = t.f
    BY <1>3, Shape, TreeAssumption DEF Factors, AssemblesSubtree, AssemblesTile
  <2>2. CASE t.op = "assemble_subtree"
    <3>1. x \in assemble_block(t.k, AllCoefs(t.k))
      BY <2>2 DEF Writes, Factors, assemble_subtree
    <3>2. x \in Inserted(t).RW
      BY <2>1, <2>2, <3>1, PartsOfContribution DEF Inserted, insert_subtree_assemble, Uses
    <3> QED BY <2>1, <3>1, <3>2, BlocksOfParent, MemoryParts
  <2>3. CASE t.op = "assemble_contrib_subtree"
    <3>1. x \in assemble_contrib_block(t.k, AllCoefs(t.k))
      BY <2>3 DEF Writes, Factors, assemble_contrib_subtree
    <3>2. x \in Inserted(t).C
      BY <2>1, <2>3, <3>1, PartsOfContribution DEF Inserted, insert_subtree_assemble_contrib, Uses
    <3> QED BY <2>1, <3>1, <3>2, TilesOfParent, MemoryParts
  <2> QED BY <1>3, <2>2, <2>3 DEF AssemblesSubtree
<1>4. CASE t.op \in AssemblesTile
  <2>1. t.f \in Tiled /\ t.k \in Front /\ Parent[t.k] = t.f
    BY <1>4, Shape, TreeAssumption DEF Factors, AssemblesSubtree, AssemblesTile, Tiled
  <2> DEFINE S == TileCoefs(t.k, t.i, t.j)
  <2>2. CASE t.op = "assemble_block"
    <3>1. x \in assemble_block(t.k, S)
      BY <2>2 DEF Writes, Factors
    <3>2. x \in Inserted(t).RW
      BY <2>1, <2>2, <3>1, PartsOfContribution DEF Inserted, insert_assemble_block, Uses
    <3> QED BY <2>1, <3>1, <3>2, BlocksOfParent, PartsOfContribution, MemoryParts
  <2>3. CASE t.op = "assemble_contrib_block"
    <3>1. x \in assemble_contrib_block(t.k, S)
      BY <2>3 DEF Writes, Factors
    <3>2. x \in Inserted(t).RW
      BY <2>1, <2>3, <3>1, PartsOfContribution DEF Inserted, insert_assemble_contrib_block, Uses
    <3> QED BY <2>1, <3>1, <3>2, TilesOfParent, PartsOfContribution, MemoryParts
  <2> QED BY <1>4, <2>2, <2>3 DEF AssemblesTile
<1> QED BY <1>1, <1>2, <1>3, <1>4, Shape

(* All kernels but the assembly of a subtree read only what is declared.    *)
LEMMA ReadsDeclared ==
  ASSUME NEW t \in PTask, t.op \notin AssemblesSubtree, NEW x \in Reads[t]
  PROVE  x \in PHandle /\ x \in Inserted(t).R
<1>1. CASE t.op \in Factors
  <2>1. x \in Inserted(t).R /\ x \in Memory
    BY <1>1 DEF Reads, Factors
  <2>2. x[1] # "subtree"
    BY <1>1, <2>1, FactorHandles
  <2> QED BY <2>1, <2>2 DEF Memory, PHandle, child_contrib
<1>2. CASE t.op \in AssemblesTile
  <2>1. x = contrib_block(t.k, t.i, t.j)
    BY <1>2 DEF Reads, Factors, AssemblesTile
  <2>2. t.k \in Tiled /\ <<t.i, t.j>> \in TileIndex(t.k)
    BY <1>2, Shape DEF Factors, AssemblesSubtree, AssemblesTile
  <2>3. x \in Tiles(t.k)
    BY <2>1, <2>2 DEF Tiles
  <2> QED BY <1>2, <2>1, <2>2, <2>3, NodeHandles, MemoryParts
<1>3. CASE t.op \in {"factor_subtree", "init_node", "fini_node"}
  BY <1>3 DEF Reads, Factors
<1> QED BY <1>1, <1>2, <1>3, Shape

-----------------------------------------------------------------------------
(* Exclusion.                                                               *)

(* Two tasks at work do not share a handle that one of them writes. *)
LEMMA SharedHandle ==
  ASSUME FlowInv, NEW t \in PTask, NEW u \in PTask, t # u,
         status[t] = "running", status[u] = "running",
         NEW h \in PHandle, h \in Inserted(t).RW \cup Inserted(t).C,
         h \in Inserted(u).RW \cup Inserted(u).C \cup Inserted(u).R
  PROVE  FALSE
<1>1. t \in Task /\ u \in Task /\ h \in Handle
  BY ModeOf
<1>2. Access[t][h] \in {"RW", "C"} /\ Access[u][h] # "none"
  BY ModeOf
<1> QED BY <1>1, <1>2, ExclusionFollows DEF HandleExclusion

(* A task of a front comes before the assembly of a tile into its parent,   *)
(* and that one before the front is freed.                                  *)
LEMMA KeyOrder ==
  ASSUME NEW u \in PTask, NEW m \in PTask, NEW t \in PTask,
         u.op \in {"assemble_contrib_subtree", "assemble_contrib_block"},
         m.op \in AssemblesTile, t.op = "fini_node",
         m.k = u.f, t.k = u.f, m.f = Parent[u.f], t.f = Parent[u.f],
         u.f \in Front
  PROVE  <<u, m>> \in Before /\ <<m, t>> \in Before
<1>1. u.f < Parent[u.f] /\ u.f \in Nat /\ Parent[u.f] \in Nat
  BY TreeAssumption DEF Front
<1>2. Key(u)[1] = u.f /\ Key(m)[1] = Parent[u.f]
  BY DEF Key, AssemblesTile
<1>3. LexBefore(Key(u), Key(m))
  <2>1. \A n \in 1..(1 - 1) : Key(u)[n] = Key(m)[n]
    OBVIOUS
  <2> QED BY <1>1, <1>2, <2>1 DEF LexBefore
<1>4. Key(t) = <<Parent[u.f], 4, -u.f, 1, t.j, t.i>>
  BY DEF Key, Stage, Loop, Substage
<1>5. CASE m.op = "assemble_block"
  <2>1. Key(m) = <<Parent[u.f], 2, -u.f, 0, m.j, m.i>>
    BY <1>5 DEF Key, Stage, Loop, Substage
  <2>2. Key(m)[2] < Key(t)[2] /\ \A n \in 1..(2 - 1) : Key(m)[n] = Key(t)[n]
    BY <1>4, <2>1
  <2> QED BY <1>3, <2>2, ProgramAssumption DEF LexBefore, PBefore
<1>6. CASE m.op = "assemble_contrib_block"
  <2>1. Key(m) = <<Parent[u.f], 4, -u.f, 0, m.j, m.i>>
    BY <1>6 DEF Key, Stage, Loop, Substage
  <2>2. Key(m)[4] < Key(t)[4] /\ \A n \in 1..(4 - 1) : Key(m)[n] = Key(t)[n]
    BY <1>4, <2>1
  <2> QED BY <1>3, <2>2, ProgramAssumption DEF LexBefore, PBefore
<1> QED BY <1>5, <1>6 DEF AssemblesTile

(* Every tile of a child is read by an assembly into its parent. *)
LEMMA Reader ==
  ASSUME NEW c \in Tiled, Parent[c] \in Tiled, NEW ii, NEW jj, <<ii, jj>> \in TileIndex(c)
  PROVE  \E m \in PTask : /\ m.op \in AssemblesTile /\ m.f = Parent[c]
                         /\ m.k = c /\ m.i = ii /\ m.j = jj
<1> DEFINE S == TileCoefs(c, ii, jj)
           f == Parent[c]
<1>1. c \in Front /\ c \in Children(f) \ Subtree
  BY DEF Tiled, Children
<1>2. PICK p \in S : TRUE
  BY <1>1, TileHoldsCoefs
<1>3. p[2] \in Row(c)
  BY DEF TileCoefs, LowerPairs, RowsOf
<1>4. Map[c][p[2]] \in Nat /\ NCol[f] \in Nat
  BY <1>1, <1>3, RowMap, Sizes
<1>5. p \in FullySummed(c, S) \/ p \in NotFullySummed(c, S)
  BY <1>4 DEF FullySummed, NotFullySummed
<1>6. DestBlocks(c, S) # {} \/ DestTiles(c, S) # {}
  BY <1>1, <1>5, PartsOfContribution DEF assemble_block, assemble_contrib_block
<1>7. \E q \in TileIndex(c) : q[1] = ii /\ q[2] = jj
  OBVIOUS
<1>8. CASE DestBlocks(c, S) # {}
  <2> DEFINE m == task("assemble_block", f, c, ii, jj)
  <2>1. m \in assemble_block_task(f, c)
    BY <1>7, <1>8 DEF assemble_block_task, task
  <2>2. m \in PTask
    BY <1>1, <2>1 DEF PTask, AssembleTasks
  <2> QED BY <2>2 DEF task, AssemblesTile
<1>9. CASE DestTiles(c, S) # {}
  <2> DEFINE m == task("assemble_contrib_block", f, c, ii, jj)
  <2>1. m \in assemble_contrib_block_task(f, c)
    BY <1>7, <1>9 DEF assemble_contrib_block_task, task
  <2>2. m \in PTask
    BY <1>1, <2>1 DEF PTask, AssembleContribTasks
  <2> QED BY <2>2 DEF task, AssemblesTile
<1> QED BY <1>6, <1>8, <1>9

(* A front is freed after the last use of its tiles. *)
LEMMA FreedLast ==
  ASSUME FlowInv, NEW t \in PTask, NEW u \in PTask, t # u,
         status[t] = "running", status[u] = "running", t.op = "fini_node",
         NEW x \in Tiles(t.k), x \in Writes[u] \cup Reads[u]
  PROVE  FALSE
<1> DEFINE c == t.k
<1>1. /\ c \in Tiled /\ c \in Front /\ t = task("fini_node", Parent[c], c, 0, 0)
      /\ hdl(c) \in PHandle /\ hdl(c) \in Inserted(t).RW
  BY Shape, NodeHandleExists, NodeHandles DEF Factors, AssemblesSubtree, AssemblesTile, Tiled
<1>2. PICK q \in TileIndex(c) : x = contrib_block(c, q[1], q[2])
  BY DEF Tiles
<1>3. x[1] = "tile" /\ x[2] = c /\ q = <<q[1], q[2]>> /\ <<q[1], q[2]>> \in TileIndex(c)
  BY <1>2, Coefs DEF contrib_block, TileIndex
<1>4. x \in PHandle
  BY <1>1, MemoryParts
<1>5. CASE u.op = "factor_subtree"
  BY <1>3, <1>5 DEF Writes, Reads, Factors, child_contrib
<1>6. CASE u.op = "init_node"
  BY <1>3, <1>6 DEF Writes, Reads, Factors, Blocks, block
<1>7. CASE u.op = "fini_node"
  <2>1. x \in Tiles(u.k)
    BY <1>7 DEF Writes, Reads, Factors
  <2>2. u.k = c
    BY <1>3, <2>1 DEF Tiles, contrib_block
  <2>3. u = t
    BY <1>1, <1>7, <2>2, Shape DEF Factors, AssemblesSubtree, AssemblesTile
  <2> QED BY <2>3
<1>8. CASE u.op \in Factors
  <2>1. x \in Inserted(u).RW \cup Inserted(u).R
    BY <1>8 DEF Writes, Reads, Factors
  <2>2. u.f = c
    BY <1>3, <1>8, <2>1, FactorHandles
  <2>3. hdl(c) \in Inserted(u).R
    BY <1>8, <2>2, NodeHandles
  <2> QED BY <1>1, <2>3, SharedHandle
<1>9. CASE u.op \in AssemblesSubtree \cup AssemblesTile /\ x \in Reads[u]
  <2>1. u.op \in AssemblesTile /\ x = contrib_block(u.k, u.i, u.j)
    BY <1>3, <1>9 DEF Reads, Factors, AssemblesSubtree, AssemblesTile, child_contrib
  <2>2. u.k = c
    BY <1>3, <2>1 DEF contrib_block
  <2> QED BY <1>1, <2>1, <2>2, NodeHandles, SharedHandle
<1>10. CASE u.op \in {"assemble_subtree", "assemble_block"} /\ x \in Writes[u]
  BY <1>3, <1>10 DEF Writes, Factors, assemble_subtree, assemble_block, block
<1>11. CASE u.op \in {"assemble_contrib_subtree", "assemble_contrib_block"} /\ x \in Writes[u]
  <2>1. u.f \in Tiled /\ Parent[u.k] = u.f
    BY <1>11, Shape DEF Factors, AssemblesSubtree, AssemblesTile
  <2>2. u.f = c
    BY <1>3, <1>11, <2>1 DEF Writes, Factors, assemble_contrib_subtree, assemble_contrib_block,
                             contrib_block
  <2>3. x \in Inserted(u).RW \cup Inserted(u).C
    BY <1>11, WritesDeclared
  <2>4. Parent[c] \in Tiled
    <3>1. ldcontrib(c) > 0
      BY <1>3 DEF TileIndex
    <3>2. Parent[c] # NFront + 1
      BY <1>1, <3>1, TreeAssumption, Sizes DEF ldcontrib
    <3> QED BY <1>1, <3>2, TreeAssumption DEF Tiled, Front
  <2>5. PICK m \in PTask : /\ m.op \in AssemblesTile /\ m.f = Parent[c]
                           /\ m.k = c /\ m.i = q[1] /\ m.j = q[2]
    BY <1>1, <1>3, <2>4, Reader
  <2>6. <<u, m>> \in Before /\ <<m, t>> \in Before
    <3>1. t.f = Parent[c]
      BY <1>1 DEF task
    <3> QED BY <1>1, <1>11, <2>2, <2>5, <3>1, KeyOrder
  <2>7. x \in Inserted(m).R /\ hdl(c) \in Inserted(m).R
    BY <1>2, <2>5, NodeHandles
  <2>8. /\ x \in Handle /\ hdl(c) \in Handle /\ u \in Task /\ m \in Task /\ t \in Task
        /\ Access[u][x] \in {"RW", "C"} /\ Access[m][hdl(c)] # "none"
        /\ Access[t][hdl(c)] = "RW"
    BY <1>1, <1>4, <2>3, <2>7, ModeOf
  <2>9. Access[m][x] = "R" \/ Access[m][x] = "RW"
    <3>1. x \notin Inserted(m).C
      BY <2>5 DEF AssemblesTile, Inserted, insert_assemble_block, insert_assemble_contrib_block, Uses
    <3> QED BY <1>4, <2>7, <3>1, ModeCases, ProgramAssumption DEF PAccess, Mode
  <2>10. Conflict(u, m) /\ Conflict(m, t)
    BY <2>8, <2>9 DEF Conflict, Clash
  <2>11. status[m] = "done"
    BY <2>6, <2>8, <2>10, PrecedePairs DEF FlowInv, ProgramOrder
  <2>12. status[u] = "done"
    BY <2>6, <2>8, <2>10, <2>11, PrecedePairs DEF FlowInv, ProgramOrder
  <2> QED BY <2>12
<1> QED BY <1>5, <1>6, <1>7, <1>8, <1>9, <1>10, <1>11, Shape DEF AssemblesSubtree, AssemblesTile

(* The result of a subtree is read after it is there. *)
LEMMA SubtreeFirst ==
  ASSUME FlowInv, NEW t \in PTask, NEW u \in PTask, t # u,
         status[t] = "running", status[u] = "running", t.op = "factor_subtree",
         child_contrib(t.f) \in Writes[u] \cup Reads[u]
  PROVE  FALSE
<1> DEFINE x == child_contrib(t.f)
<1>1. /\ x[1] = "subtree" /\ x[2] = t.f /\ t.f \in Front
      /\ t = task("factor_subtree", t.f, 0, 0, 0)
  BY Shape, TreeAssumption DEF Factors, AssemblesSubtree, AssemblesTile, child_contrib
<1>2. hdl(t.f) \in PHandle /\ hdl(t.f) \in Inserted(t).RW
  BY <1>1, NodeHandleExists, NodeHandles
<1>3. x \notin PHandle
  BY <1>1 DEF PHandle, Blocks, Tiles, block, contrib_block, hdl, contrib_hdl
<1>4. CASE u.op = "factor_subtree"
  <2>1. x = child_contrib(u.f)
    BY <1>4 DEF Writes, Reads, Factors
  <2>2. u.f = t.f
    BY <1>1, <2>1 DEF child_contrib
  <2> QED BY <1>1, <1>4, <2>2, Shape DEF Factors, AssemblesSubtree, AssemblesTile
<1>5. CASE u.op = "fini_node"
  BY <1>1, <1>5 DEF Writes, Reads, Factors, Tiles, contrib_block
<1>6. CASE u.op \in AssemblesSubtree /\ x \in Reads[u]
  <2>1. x = child_contrib(u.k)
    BY <1>6 DEF Reads, AssemblesSubtree, Factors
  <2>2. u.k = t.f
    BY <1>1, <2>1 DEF child_contrib
  <2> QED BY <1>2, <1>6, <2>2, NodeHandles, SharedHandle
<1>7. CASE u.op \notin {"factor_subtree", "fini_node"} /\ x \in Writes[u]
  BY <1>3, <1>7, WritesDeclared
<1>8. CASE u.op \notin AssemblesSubtree /\ x \in Reads[u]
  BY <1>3, <1>8, ReadsDeclared
<1> QED BY <1>4, <1>5, <1>6, <1>7, <1>8

LEMMA RaceFree == FlowInv => NoDataRace
<1> SUFFICES ASSUME FlowInv, NEW t \in PTask, NEW u \in PTask, t # u,
                    status[t] = "running", status[u] = "running",
                    NEW x \in Writes[t], x \in Writes[u] \cup Reads[u]
             PROVE  FALSE
  BY DEF NoDataRace
<1>1. CASE t.op = "fini_node"
  BY <1>1, FreedLast DEF Writes, Factors
<1>2. CASE t.op = "factor_subtree"
  BY <1>2, SubtreeFirst DEF Writes, Factors
<1>3. CASE t.op \notin {"factor_subtree", "fini_node"}
  <2>1. x \in PHandle /\ x \in Inserted(t).RW \cup Inserted(t).C
    BY <1>3, WritesDeclared
  <2>2. CASE u.op = "fini_node"
    BY <2>2, FreedLast DEF Writes, Reads, Factors
  <2>3. CASE u.op = "factor_subtree"
    BY <2>3, SubtreeFirst DEF Writes, Reads, Factors
  <2>4. CASE u.op \notin {"factor_subtree", "fini_node"} /\ x \in Writes[u]
    BY <2>1, <2>4, WritesDeclared, SharedHandle
  <2>5. CASE u.op \notin AssemblesSubtree /\ x \in Reads[u]
    BY <2>1, <2>5, ReadsDeclared, SharedHandle
  <2>6. CASE u.op \in AssemblesSubtree /\ x \in Reads[u]
    <3>1. x = child_contrib(u.k)
      BY <2>6 DEF Reads, AssemblesSubtree, Factors
    <3> QED BY <2>1, <3>1 DEF PHandle, Blocks, Tiles, block, contrib_block, hdl, contrib_hdl,
                              child_contrib
  <2> QED BY <2>2, <2>3, <2>4, <2>5, <2>6
<1> QED BY <1>1, <1>2, <1>3

-----------------------------------------------------------------------------
(* Theorems. *)

(* A step of the factorization is a step of its task flow. *)
LEMMA StepIsFlowStep == [Next]_vars => [TaskNext]_status
<1>1. Task = PTask
  BY ProgramAssumption
<1> QED BY <1>1 DEF Next, Work, Done, StartTask, FinishTask, TaskNext, TaskWork, vars

LEMMA PosdefFlow == Spec => []FlowInv
<1>1. Spec => FlowSafety
  BY StepIsFlowStep, PTL DEF Spec, Init, FlowSafety
<1> QED BY <1>1, FlowInvariant, PTL

(* The tasks of the factorization keep the program order of their handles.  *)
THEOREM PosdefProgramOrder == Spec => []ProgramOrder
  BY PosdefFlow, PTL DEF FlowInv

(* No handle is held by two running tasks unless both read it.              *)
THEOREM PosdefHandleExclusion == Spec => []HandleExclusion
  BY PosdefFlow, ExclusionFollows, PTL

(* No block, tile or subtree result is touched by two tasks at once, unless *)
(* both read it: the insert_ functions of StarPU/kernels.hxx against the kernels.        *)
THEOREM PosdefNoDataRace == Spec => []NoDataRace
  BY PosdefFlow, RaceFree, PTL

-----------------------------------------------------------------------------
(* What memory holds.  A block holds what its finished writers put there.   *)
(* A tile does from its first update on, which overwrites it: that update   *)
(* conflicts with every other writer of the tile and precedes it.           *)

DoneWriters(x) == {t \in PTask : status[t] = "done" /\ x \in Writes[t]}

ResultsKept == \A x \in Memory : x[1] # "tile" => val[x] = DoneWriters(x)

Freed(f) == \E t \in PTask : t.op = "fini_node" /\ t.k = f /\ status[t] = "done"

TilesKept ==
  \A x \in Memory :
    /\ x[1] = "tile"
    /\ ~ Freed(x[2])
    /\ \E t \in DoneWriters(x) : Overwrites(t, x)
    => val[x] = DoneWriters(x)

(* A block column that goes on into the contribution is the only one of its *)
(* front.  In a front with other columns before it the updates name a tile  *)
(* left of the contribution, and no update overwrites the tiles below it.   *)
NarrowAlone == \A f \in Tiled : \A k \in 0..(nc(f) - 1) : narrow(f, k) => k = 0

(* The step that ends a task. *)
LEMMA EndStep ==
  ASSUME NEW t \in PTask, FlowInv, FinishTask(t)
  PROVE  /\ status \in [PTask -> {"waiting", "running", "done"}]
         /\ status' = [status EXCEPT ![t] = "done"] /\ status[t] = "running"
         /\ \A u \in PTask : u # t => status'[u] = status[u]
         /\ status'[t] = "done"
         /\ \A x \in Memory : val'[x] = IF x \in Writes[t] THEN Result(t, x) ELSE val[x]
         /\ \A x : DoneWriters(x)' = IF x \in Writes[t] THEN DoneWriters(x) \cup {t}
                                                        ELSE DoneWriters(x)
<1>1. /\ status \in [PTask -> {"waiting", "running", "done"}]
      /\ status' = [status EXCEPT ![t] = "done"] /\ status[t] = "running"
  BY ProgramAssumption DEF FlowInv, TaskTypeOK, FinishTask, Finish
<1>2. (\A u \in PTask : u # t => status'[u] = status[u]) /\ status'[t] = "done"
  BY <1>1
<1>3. \A x \in Memory : val'[x] = IF x \in Writes[t] THEN Result(t, x) ELSE val[x]
  BY DEF FinishTask
<1>4. \A x : DoneWriters(x)' = IF x \in Writes[t] THEN DoneWriters(x) \cup {t} ELSE DoneWriters(x)
  <2> SUFFICES ASSUME NEW x, NEW u \in PTask
               PROVE  (status'[u] = "done" /\ x \in Writes[u])
                        <=> ((status[u] = "done" /\ x \in Writes[u]) \/ (u = t /\ x \in Writes[t]))
    BY Zenon DEF DoneWriters, Writes
  <2> QED BY <1>2
<1> QED BY <1>1, <1>2, <1>3, <1>4

LEMMA StartStep ==
  ASSUME NEW t \in PTask, FlowInv, StartTask(t)
  PROVE  /\ val' = val
         /\ \A u \in PTask : status'[u] = "done" <=> status[u] = "done"
         /\ \A x : DoneWriters(x)' = DoneWriters(x)
         /\ \A f : Freed(f)' <=> Freed(f)
<1>1. /\ status \in [PTask -> {"waiting", "running", "done"}]
      /\ status' = [status EXCEPT ![t] = "running"] /\ status[t] = "waiting" /\ val' = val
  BY ProgramAssumption DEF FlowInv, TaskTypeOK, StartTask, Start, StartAfter
<1>2. \A u \in PTask : status'[u] = "done" <=> status[u] = "done"
  BY <1>1
<1> QED BY <1>1, <1>2 DEF DoneWriters, Freed, Writes

(* Only the factorization of a front overwrites, and only its tiles.        *)
LEMMA ResultOf ==
  ASSUME NEW t \in PTask, NEW x
  PROVE  /\ t.op = "fini_node" => (x \in Writes[t] => x[1] = "tile" /\ x[2] = t.k)
         /\ Overwrites(t, x) => t.op \in Factors /\ t.op # "fini_node" /\ t.k = 0
                                /\ x[1] = "tile" /\ x[2] = t.f
         /\ t.op # "fini_node" /\ ~ Overwrites(t, x) => Result(t, x) = val[x] \cup {t}
<1>1. t.op = "fini_node" => (x \in Writes[t] => x[1] = "tile" /\ x[2] = t.k)
  BY DEF Writes, Factors, Tiles, contrib_block
<1>2. Overwrites(t, x) => t.op \in Factors /\ t.op # "fini_node" /\ t.k = 0
                          /\ x[1] = "tile" /\ x[2] = t.f
  BY DEF Overwrites, Factors, Tiles, contrib_block
<1> QED BY <1>1, <1>2 DEF Result

LEMMA ResultsKeptInductive ==
  ASSUME FlowInv, ResultsKept, [Next]_vars
  PROVE  ResultsKept'
<1>1. ASSUME NEW t \in PTask, StartTask(t)
      PROVE  ResultsKept'
  BY <1>1, StartStep DEF ResultsKept, Memory
<1>2. ASSUME NEW t \in PTask, FinishTask(t)
      PROVE  ResultsKept'
  <2> SUFFICES ASSUME NEW x \in Memory, x[1] # "tile"
               PROVE  val'[x] = DoneWriters(x)'
    BY DEF ResultsKept, Memory
  <2>1. val[x] = DoneWriters(x)
    BY DEF ResultsKept
  <2>2. CASE x \in Writes[t]
    <3>1. Result(t, x) = val[x] \cup {t}
      BY <2>2, ResultOf
    <3> QED BY <1>2, <2>1, <2>2, <3>1, EndStep
  <2>3. CASE x \notin Writes[t]
    BY <1>2, <2>1, <2>3, EndStep
  <2> QED BY <2>2, <2>3
<1>3. CASE UNCHANGED vars
  BY <1>3 DEF vars, ResultsKept, DoneWriters, Memory, Writes
<1> QED BY <1>1, <1>2, <1>3 DEF Next, Work, Done, Terminated, vars

-----------------------------------------------------------------------------
(* The order of the tasks of a front.                                       *)

(* The blocks of a task of the factorization. *)
LEMMA FactorIndices ==
  ASSUME NEW t \in PTask, t.op \in Factors
  PROVE  /\ t.f \in Tiled /\ t.f \in Front /\ nr(t.f) \in Nat /\ nc(t.f) \in Nat
         /\ t.k \in 0..(nc(t.f) - 1)
         /\ t.op = "factor_block" => t = task("factor_block", t.f, t.k, t.k, t.k)
         /\ t.op = "solve_block" => /\ t = task("solve_block", t.f, t.k, t.i, t.k)
                                    /\ t.i \in (t.k + 1)..(nr(t.f) - 1)
         /\ t.op = "update_block" => /\ t = task("update_block", t.f, t.k, t.i, t.j)
                                     /\ t.i \in (t.k + 1)..(nr(t.f) - 1)
                                     /\ t.j \in (t.k + 1)..(nc(t.f) - 1)
                                     /\ t.j <= t.i
         /\ t.op = "update_contrib" => /\ t = task("update_contrib", t.f, t.k, t.i, t.j)
                                       /\ t.i \in nc(t.f)..(nr(t.f) - 1)
                                       /\ t.j \in nc(t.f)..(nr(t.f) - 1)
                                       /\ t.j <= t.i /\ ldcontrib(t.f) > 0
<1>1. t.f \in Tiled /\ t.f \in Front
  BY Shape DEF Factors, AssemblesSubtree, AssemblesTile, Tiled
<1>2. nr(t.f) \in Nat /\ nc(t.f) \in Nat
  BY <1>1, Sizes DEF nr, nc
<1>3. PICK f \in Tiled : t \in factor_front_posdef(f)
  <2>1. ASSUME NEW f, t \in FiniTasks(f) PROVE FALSE
    BY <2>1 DEF FiniTasks, task, Factors
  <2>2. ASSUME NEW f \in Tiled, t \in AssembleTasks(f) \/ t \in AssembleContribTasks(f) PROVE FALSE
    BY <2>2, AssembleShape, AssembleContribShape DEF Factors
  <2>3. ASSUME NEW f \in Tiled, t = task("init_node", f, 0, 0, 0) PROVE FALSE
    BY <2>3 DEF task, Factors
  <2>4. ASSUME NEW f \in Subtree, t = task("factor_subtree", f, 0, 0, 0) PROVE FALSE
    BY <2>4 DEF task, Factors
  <2> QED BY <2>1, <2>2, <2>3, <2>4 DEF PTask
<1>4. PICK k \in 0..(nc(f) - 1) :
        \/ t = task("factor_block", f, k, k, k)
        \/ \E i \in (k + 1)..(nr(f) - 1) : t = task("solve_block", f, k, i, k)
        \/ \E p \in LowerPairs((k + 1)..(nr(f) - 1), (k + 1)..(nc(f) - 1)) :
             t = task("update_block", f, k, p[1], p[2])
        \/ \E p \in LowerPairs(nc(f)..(nr(f) - 1), nc(f)..(nr(f) - 1)) :
             ldcontrib(f) > 0 /\ t = task("update_contrib", f, k, p[1], p[2])
  BY <1>3 DEF factor_front_posdef
<1>5. t.f = f /\ t.k = k
  BY <1>4 DEF task
<1>6. CASE t = task("factor_block", f, k, k, k)
  BY <1>1, <1>2, <1>5, <1>6 DEF task
<1>7. CASE \E i \in (k + 1)..(nr(f) - 1) : t = task("solve_block", f, k, i, k)
  BY <1>1, <1>2, <1>5, <1>7 DEF task
<1>8. CASE \E p \in LowerPairs((k + 1)..(nr(f) - 1), (k + 1)..(nc(f) - 1)) :
             t = task("update_block", f, k, p[1], p[2])
  BY <1>1, <1>2, <1>5, <1>8, Coefs DEF task
<1>9. CASE \E p \in LowerPairs(nc(f)..(nr(f) - 1), nc(f)..(nr(f) - 1)) :
             ldcontrib(f) > 0 /\ t = task("update_contrib", f, k, p[1], p[2])
  BY <1>1, <1>2, <1>5, <1>9, Coefs DEF task
<1> QED BY <1>4, <1>6, <1>7, <1>8, <1>9

(* A task that comes first and conflicts is done before the other starts.   *)
LEMMA DoneBefore ==
  ASSUME FlowInv, NEW u \in PTask, NEW t \in PTask, NEW h \in PHandle,
         LexBefore(Key(u), Key(t)), status[t] # "waiting",
         \/ h \in Inserted(u).RW /\ h \in Inserted(t).RW \cup Inserted(t).C \cup Inserted(t).R
         \/ h \in Inserted(t).RW /\ h \in Inserted(u).RW \cup Inserted(u).C \cup Inserted(u).R
         \/ h \in Inserted(u).C /\ h \in Inserted(t).R /\ h \notin Inserted(t).C
  PROVE  status[u] = "done"
<1>1. t \in Task /\ u \in Task /\ h \in Handle /\ <<u, t>> \in Before
  BY ProgramAssumption DEF PBefore
<1>2. /\ Access[u][h] = Mode(Inserted(u), h) /\ Access[t][h] = Mode(Inserted(t), h)
  BY ProgramAssumption DEF PAccess
<1>3. Clash(Access[u][h], Access[t][h])
  <2>1. CASE h \in Inserted(u).RW /\ h \in Inserted(t).RW \cup Inserted(t).C \cup Inserted(t).R
    BY <1>2, <2>1, ModeCases DEF Clash
  <2>2. CASE h \in Inserted(t).RW /\ h \in Inserted(u).RW \cup Inserted(u).C \cup Inserted(u).R
    BY <1>2, <2>2, ModeCases DEF Clash
  <2>3. CASE h \in Inserted(u).C /\ h \in Inserted(t).R /\ h \notin Inserted(t).C
    <3>1. Mode(Inserted(t), h) # "C" /\ Mode(Inserted(t), h) # "none"
      BY <2>3, ModeCases DEF Mode
    <3> QED BY <1>2, <2>3, <3>1, ModeCases DEF Clash
  <2> QED BY <2>1, <2>2, <2>3
<1> QED BY <1>1, <1>3, PrecedePairs DEF Conflict, FlowInv, ProgramOrder

(* Where two keys first differ. *)
LEMMA KeyDiffers ==
  ASSUME NEW t, NEW u
  PROVE  /\ Key(u)[1] < Key(t)[1] => LexBefore(Key(u), Key(t))
         /\ Key(u)[1] = Key(t)[1] /\ Key(u)[2] < Key(t)[2] => LexBefore(Key(u), Key(t))
         /\ Key(u)[1] = Key(t)[1] /\ Key(u)[2] = Key(t)[2] /\ Key(u)[3] < Key(t)[3]
              => LexBefore(Key(u), Key(t))
         /\ Key(u)[1] = Key(t)[1] /\ Key(u)[2] = Key(t)[2] /\ Key(u)[3] = Key(t)[3]
              /\ Key(u)[4] < Key(t)[4] => LexBefore(Key(u), Key(t))
<1> DEFINE a == Key(u)
           b == Key(t)
<1> HIDE DEF a, b
<1>1. a[1] < b[1] => LexBefore(a, b)
  BY DEF LexBefore
<1>2. a[1] = b[1] /\ a[2] < b[2] => LexBefore(a, b)
  <2>1. \A m \in 1..(2 - 1) : m = 1
    OBVIOUS
  <2> QED BY <2>1 DEF LexBefore
<1>3. a[1] = b[1] /\ a[2] = b[2] /\ a[3] < b[3] => LexBefore(a, b)
  <2>1. \A m \in 1..(3 - 1) : m = 1 \/ m = 2
    OBVIOUS
  <2> QED BY <2>1 DEF LexBefore
<1>4. a[1] = b[1] /\ a[2] = b[2] /\ a[3] = b[3] /\ a[4] < b[4] => LexBefore(a, b)
  <2>1. \A m \in 1..(4 - 1) : m = 1 \/ m = 2 \/ m = 3
    OBVIOUS
  <2> QED BY <2>1 DEF LexBefore
<1> QED BY <1>1, <1>2, <1>3, <1>4 DEF a, b

LEMMA KeyParts ==
  ASSUME NEW t \in PTask, t.op # "factor_subtree"
  PROVE  /\ Key(t)[1] = t.f /\ Key(t)[2] = Stage(t) /\ Key(t)[3] = Loop(t) /\ Key(t)[4] = Substage(t)
         /\ t.op = "init_node" => Stage(t) = 1
         /\ t.op \in {"assemble_subtree", "assemble_block"} => Stage(t) = 2
         /\ t.op \in Factors => Stage(t) = 3 /\ Loop(t) = t.k
         /\ t.op \in {"assemble_contrib_subtree", "assemble_contrib_block"} => Stage(t) = 4
         /\ t.op = "fini_node" => Stage(t) = 4 /\ Loop(t) = -t.k /\ Substage(t) = 1
         /\ t.op = "assemble_block" => Loop(t) = -t.k /\ Substage(t) = 0
         /\ t.op = "assemble_contrib_block" => Loop(t) = -t.k /\ Substage(t) = 0
<1>1. Key(t)[1] = t.f /\ Key(t)[2] = Stage(t) /\ Key(t)[3] = Loop(t) /\ Key(t)[4] = Substage(t)
  BY DEF Key
<1>2. t.op = "init_node" => Stage(t) = 1
  BY DEF Stage
<1>3. t.op \in {"assemble_subtree", "assemble_block"} => Stage(t) = 2
  BY DEF Stage
<1>4. t.op \in Factors => Stage(t) = 3 /\ Loop(t) = t.k
  BY DEF Stage, Loop, Factors
<1>5. t.op \in {"assemble_contrib_subtree", "assemble_contrib_block"} => Stage(t) = 4
  BY DEF Stage
<1>6. t.op = "fini_node" => Stage(t) = 4 /\ Loop(t) = -t.k /\ Substage(t) = 1
  BY DEF Stage, Loop, Substage
<1>7. t.op = "assemble_block" => Loop(t) = -t.k /\ Substage(t) = 0
  BY DEF Stage, Loop, Substage
<1>8. t.op = "assemble_contrib_block" => Loop(t) = -t.k /\ Substage(t) = 0
  BY DEF Stage, Loop, Substage
<1> QED BY <1>1, <1>2, <1>3, <1>4, <1>5, <1>6, <1>7, <1>8

-----------------------------------------------------------------------------
(* A block is eliminated when everything has been added to it.              *)

(* The block of an elimination is in memory, and the task writes it. *)
LEMMA EliminatedBlock ==
  ASSUME NEW t \in Eliminations
  PROVE  /\ t \in PTask /\ t.op \in Factors /\ t.f \in Tiled
         /\ t.k \in Nat /\ t.k <= t.i
         /\ <<t.i, t.k>> \in BlockIndex(t.f)
         /\ block(t.f, t.i, t.k) \in Blocks(t.f)
         /\ block(t.f, t.i, t.k) \in PHandle
         /\ block(t.f, t.i, t.k) \in Memory
         /\ block(t.f, t.i, t.k) \in Inserted(t).RW
         /\ block(t.f, t.i, t.k) \in Writes[t]
<1> DEFINE b == block(t.f, t.i, t.k)
<1>1. t \in PTask /\ t.op \in Factors /\ t.op \in {"factor_block", "solve_block"}
  BY DEF Eliminations, Factors
<1>2. t.f \in Tiled /\ t.f \in Front /\ nr(t.f) \in Nat /\ nc(t.f) \in Nat /\ t.k \in 0..(nc(t.f) - 1)
  BY <1>1, FactorIndices
<1>3. nc(t.f) <= nr(t.f)
  <2>1. /\ NCol[t.f] - 1 \in Nat /\ NRow[t.f] - 1 \in Nat /\ NCol[t.f] - 1 <= NRow[t.f] - 1
        /\ BlockSize \in Nat \ {0}
        /\ (NRow[t.f] - 1) \div BlockSize \in Nat /\ (NCol[t.f] - 1) \div BlockSize \in Nat
    BY <1>2, Sizes
  <2>2. (NCol[t.f] - 1) \div BlockSize <= (NRow[t.f] - 1) \div BlockSize
    BY <2>1, DivMonotone
  <2> QED BY <2>1, <2>2 DEF nc, nr
<1>4. t.op = "factor_block" => t.i = t.k
  BY <1>1, FactorIndices DEF task
<1>5. t.op = "solve_block" => t.i \in (t.k + 1)..(nr(t.f) - 1)
  BY <1>1, FactorIndices
<1>6. t.i \in 0..(nr(t.f) - 1) /\ t.k <= t.i
  BY <1>1, <1>2, <1>3, <1>4, <1>5
<1>7. <<t.i, t.k>> \in BlockIndex(t.f)
  BY <1>2, <1>6, Coefs DEF BlockIndex
<1>8. b \in Blocks(t.f)
  BY <1>7 DEF Blocks
<1>9. b \in Memory /\ b \in PHandle
  BY <1>2, <1>8 DEF Memory, PHandle
<1>10. b \in Inserted(t).RW
  BY <1>1, <1>4 DEF Inserted, insert_factor_block, insert_solve_block, Uses
<1>11. b \in Writes[t]
  BY <1>1, <1>9, <1>10 DEF Writes
<1> QED BY <1>1, <1>2, <1>6, <1>7, <1>8, <1>9, <1>10, <1>11

(* Whatever writes the block before it is eliminated is part of its sum,    *)
(* and is submitted before the elimination.                                 *)
LEMMA BlockWriters ==
  ASSUME NEW t \in Eliminations, NEW u \in PTask, u # t, block(t.f, t.i, t.k) \in Writes[u]
  PROVE  /\ u \in Summed[t]
         /\ LexBefore(Key(u), Key(t))
         /\ block(t.f, t.i, t.k) \in Inserted(u).RW
<1> DEFINE b == block(t.f, t.i, t.k)
<1>1. b[1] = "block" /\ b[2] = t.f /\ b[3] = t.i /\ b[4] = t.k
  BY DEF block
<1>2. /\ t \in PTask /\ t.op \in Factors /\ Key(t)[1] = t.f /\ Key(t)[2] = 3 /\ Key(t)[3] = t.k
      /\ t.op \in {"factor_block", "solve_block"} /\ t.k \in Nat
  BY EliminatedBlock, KeyParts DEF Eliminations, Factors
<1>3. CASE u.op = "factor_subtree"
  BY <1>1, <1>3 DEF Writes, Factors, child_contrib
<1>4. CASE u.op = "fini_node"
  BY <1>1, <1>4, ResultOf
<1>5. CASE u.op = "init_node"
  <2>1. b \in Blocks(u.f)
    BY <1>5 DEF Writes, Factors
  <2>2. u.f = t.f
    BY <1>1, <2>1 DEF Blocks, block
  <2>3. b \in Inserted(u).RW
    BY <1>5, <2>1 DEF Inserted, insert_init_node, Uses
  <2>4. Key(u)[1] = t.f /\ Key(u)[2] = 1
    BY <1>5, <2>2, KeyParts
  <2> QED BY <1>2, <1>5, <2>2, <2>3, <2>4, KeyDiffers DEF Summed
<1>6. CASE u.op \in {"assemble_subtree", "assemble_block"}
  <2>1. u.f \in Tiled /\ u.k \in Front /\ Parent[u.k] = u.f
    BY <1>6, Shape, TreeAssumption DEF Factors, AssemblesSubtree, AssemblesTile, Tiled
  <2>2. b \in assemble_block(u.k, AllCoefs(u.k)) \/ b \in assemble_block(u.k, TileCoefs(u.k, u.i, u.j))
    BY <1>6 DEF Writes, Factors, assemble_subtree
  <2>3. b \in Blocks(u.f)
    BY <2>1, <2>2, PartsOfContribution, BlocksOfParent
  <2>4. u.f = t.f
    BY <1>1, <2>3 DEF Blocks, block
  <2>5. b \in Inserted(u).RW
    <3>1. u.op \notin {"factor_subtree", "fini_node"}
      BY <1>6
    <3>2. Inserted(u).C = {}
      BY <1>6 DEF Inserted, insert_subtree_assemble, insert_assemble_block, Uses
    <3> QED BY <3>1, <3>2, WritesDeclared
  <2>6. Key(u)[1] = t.f /\ Key(u)[2] = 2
    BY <1>6, <2>4, KeyParts
  <2> QED BY <1>2, <1>6, <2>4, <2>5, <2>6, KeyDiffers DEF Summed
<1>7. CASE u.op \in {"assemble_contrib_subtree", "assemble_contrib_block"}
  BY <1>1, <1>7 DEF Writes, Factors, assemble_contrib_subtree, assemble_contrib_block, contrib_block
<1>8. CASE u.op \in Factors
  <2>1. b \in Inserted(u).RW
    BY <1>8 DEF Writes, Factors
  <2>2. u.op = "factor_block" => b = block(u.f, u.k, u.k)
    BY <1>1, <2>1 DEF Inserted, insert_factor_block, factor_block_task, Uses, contrib_block
  <2>3. u.op = "solve_block" => b = block(u.f, u.i, u.k)
    BY <1>1, <2>1 DEF Inserted, insert_solve_block, solve_block_task, Uses, contrib_block
  <2>4. u.op = "update_block" => b = block(u.f, u.i, u.j)
    BY <1>1, <2>1 DEF Inserted, insert_update_block, update_block_task, Uses, contrib_block
  <2>5. u.op # "update_contrib"
    BY <1>1, <2>1 DEF Inserted, insert_update_contrib, Uses, contrib_block
  <2>6. u.op \in {"factor_block", "solve_block"} => FALSE
    <3>1. t.op = "factor_block" => t = task("factor_block", t.f, t.k, t.k, t.k) /\ t.i = t.k
      BY <1>2, FactorIndices DEF task
    <3>2. t.op = "solve_block" => t = task("solve_block", t.f, t.k, t.i, t.k) /\ t.i # t.k
      BY <1>2, FactorIndices
    <3>3. u.op = "factor_block" => /\ u = task("factor_block", u.f, u.k, u.k, u.k)
                                   /\ u.f = t.f /\ u.k = t.k /\ u.k = t.i
      BY <1>1, <1>8, <2>2, FactorIndices DEF block
    <3>4. u.op = "solve_block" => /\ u = task("solve_block", u.f, u.k, u.i, u.k)
                                  /\ u.f = t.f /\ u.k = t.k /\ u.i = t.i /\ u.i # u.k
      BY <1>1, <1>8, <2>3, FactorIndices DEF block
    <3> QED BY <1>2, <3>1, <3>2, <3>3, <3>4
  <2>7. u.op = "update_block" /\ u.f = t.f /\ u.i = t.i /\ u.j = t.k
    BY <1>1, <1>8, <2>4, <2>5, <2>6 DEF Factors, block
  <2>8. u.k < t.k
    BY <1>8, <2>7, FactorIndices
  <2>9. Key(u)[1] = t.f /\ Key(u)[2] = 3 /\ Key(u)[3] = u.k
    BY <1>8, <2>7, KeyParts DEF Factors
  <2> QED BY <1>2, <2>1, <2>7, <2>8, <2>9, KeyDiffers DEF Summed
<1> QED BY <1>3, <1>4, <1>5, <1>6, <1>7, <1>8, Shape DEF AssemblesSubtree, AssemblesTile

(* And every part of the sum writes the block. *)
LEMMA SumWritten ==
  ASSUME NEW t \in Eliminations, NEW u \in Summed[t]
  PROVE  u \in PTask /\ u # t /\ block(t.f, t.i, t.k) \in Writes[u]
<1> DEFINE b == block(t.f, t.i, t.k)
<1>1. /\ u \in PTask /\ u.f = t.f
      /\ \/ u.op = "init_node"
         \/ u.op = "update_block" /\ u.i = t.i /\ u.j = t.k
         \/ u.op \in {"assemble_subtree", "assemble_block"} /\ b \in Writes[u]
  BY DEF Summed
<1>2. u # t
  BY <1>1 DEF Eliminations
<1>3. CASE u.op = "init_node"
  BY <1>1, <1>2, <1>3, EliminatedBlock DEF Writes, Factors
<1>4. CASE u.op = "update_block" /\ u.i = t.i /\ u.j = t.k
  <2>1. b \in Inserted(u).RW
    BY <1>1, <1>4 DEF Inserted, insert_update_block, Uses
  <2> QED BY <1>1, <1>2, <1>4, <2>1, EliminatedBlock DEF Writes, Factors
<1> QED BY <1>1, <1>2, <1>3, <1>4

LEMMA SummedFollows == FlowInv /\ ResultsKept => EliminatedWhenSummed
<1> SUFFICES ASSUME FlowInv, ResultsKept, NEW t \in Eliminations,
                    status[t] \in {"running", "done"}
             PROVE  val[block(t.f, t.i, t.k)] =
                      IF status[t] = "done" THEN Summed[t] \cup {t} ELSE Summed[t]
  BY DEF EliminatedWhenSummed
<1> DEFINE b == block(t.f, t.i, t.k)
<1>1. /\ b \in Memory /\ b \in PHandle /\ b \in Writes[t] /\ b \in Inserted(t).RW
      /\ t \in PTask /\ b[1] # "tile"
  BY EliminatedBlock DEF block
<1>2. val[b] = DoneWriters(b)
  BY <1>1 DEF ResultsKept
<1>3. ASSUME NEW u \in PTask, u # t, b \in Writes[u]
      PROVE  u \in Summed[t] /\ status[u] = "done"
  BY <1>1, <1>3, BlockWriters, DoneBefore
<1>4. ASSUME NEW u \in Summed[t]
      PROVE  u \in DoneWriters(b) /\ u # t
  BY <1>3, SumWritten DEF DoneWriters
<1>5. \A u \in DoneWriters(b) : u \in PTask /\ b \in Writes[u] /\ status[u] = "done"
  BY DEF DoneWriters
<1>6. CASE status[t] = "done"
  <2>1. t \in DoneWriters(b)
    BY <1>1, <1>6 DEF DoneWriters
  <2> QED BY <1>2, <1>3, <1>4, <1>5, <1>6, <2>1
<1>7. CASE status[t] = "running"
  <2>1. DoneWriters(b) = Summed[t]
    BY <1>3, <1>4, <1>5, <1>7
  <2> QED BY <1>2, <1>7, <2>1
<1> QED BY <1>6, <1>7

-----------------------------------------------------------------------------
(* A tile is formed by the updates of its front, the first of which         *)
(* overwrites it, and by what the children add.                             *)

(* The tasks of a front that write a tile. *)
LEMMA TileFactors ==
  ASSUME NarrowAlone, NEW t \in PTask, t.op \in Factors, NEW x \in Writes[t], x[1] = "tile"
  PROVE  /\ x \in Memory /\ x \in Inserted(t).RW
         /\ \/ /\ t = task("factor_block", t.f, 0, 0, 0) /\ x = contrib_block(t.f, 0, 0)
               /\ narrow(t.f, 0) /\ nc(t.f) = 1
            \/ /\ t = task("solve_block", t.f, 0, t.i, 0) /\ x = contrib_block(t.f, t.i, 0)
               /\ narrow(t.f, 0) /\ nc(t.f) = 1 /\ t.i >= 1
            \/ /\ t = task("update_contrib", t.f, t.k, t.i, t.j) /\ x = contrib_block(t.f, t.i, t.j)
               /\ t.i >= nc(t.f) /\ t.j >= nc(t.f)
<1>1. x \in Inserted(t).RW /\ x \in Memory
  BY DEF Writes, Factors
<1>2. /\ t.f \in Tiled /\ nc(t.f) \in Nat /\ t.k \in 0..(nc(t.f) - 1)
      /\ nr(t.f) \in Nat
  BY FactorIndices
<1>3. narrow(t.f, t.k) => t.k = 0 /\ nc(t.f) = 1
  <2> SUFFICES ASSUME narrow(t.f, t.k)
               PROVE  t.k = 0 /\ nc(t.f) = 1
    OBVIOUS
  <2>1. t.k = 0
    BY <1>2 DEF NarrowAlone
  <2>2. NCol[t.f] \in Nat \ {0} /\ BlockSize \in Nat \ {0} /\ t.f \in Front
    BY <1>2, Sizes DEF Tiled
  <2>3. NCol[t.f] - 1 < BlockSize /\ NCol[t.f] - 1 \in Nat
    BY <2>1, <2>2 DEF narrow
  <2>4. (NCol[t.f] - 1) \div BlockSize = 0
    BY <2>2, <2>3, SMTT(20)
  <2> QED BY <2>1, <2>4 DEF nc
<1>4. CASE t.op = "factor_block"
  <2>1. x \in {block(t.f, t.k, t.k)} \cup factor_block_task(t)
    BY <1>1, <1>4 DEF Inserted, insert_factor_block, Uses
  <2>2. narrow(t.f, t.k) /\ x = contrib_block(t.f, t.k, t.k)
    BY <2>1 DEF factor_block_task, block
  <2> QED BY <1>1, <1>3, <1>4, <2>2, FactorIndices
<1>5. CASE t.op = "solve_block"
  <2>1. x \in {block(t.f, t.i, t.k)} \cup solve_block_task(t)
    BY <1>1, <1>5 DEF Inserted, insert_solve_block, Uses
  <2>2. narrow(t.f, t.k) /\ x = contrib_block(t.f, t.i, t.k)
    BY <2>1 DEF solve_block_task, block
  <2>3. t = task("solve_block", t.f, t.k, t.i, t.k) /\ t.i >= t.k + 1
    BY <1>2, <1>5, FactorIndices
  <2> QED BY <1>1, <1>3, <2>2, <2>3
<1>6. CASE t.op = "update_block"
  <2>1. x \in {block(t.f, t.i, t.j)} \cup update_block_task(t)
    BY <1>1, <1>6 DEF Inserted, insert_update_block, Uses
  <2>2. narrow(t.f, t.j)
    BY <2>1 DEF update_block_task, block
  <2>3. t.j \in (t.k + 1)..(nc(t.f) - 1)
    BY <1>6, FactorIndices
  <2> QED BY <1>2, <2>2, <2>3 DEF NarrowAlone
<1>7. CASE t.op = "update_contrib"
  <2>1. x = contrib_block(t.f, t.i, t.j)
    BY <1>1, <1>7 DEF Inserted, insert_update_contrib, Uses
  <2>2. /\ t = task("update_contrib", t.f, t.k, t.i, t.j)
        /\ t.i \in nc(t.f)..(nr(t.f) - 1) /\ t.j \in nc(t.f)..(nr(t.f) - 1)
    BY <1>7, FactorIndices
  <2> QED BY <1>1, <1>2, <2>1, <2>2
<1> QED BY <1>4, <1>5, <1>6, <1>7 DEF Factors

(* The assemblies that write a tile. *)
LEMMA TileAssemblies ==
  ASSUME NEW t \in PTask, t.op \in {"assemble_contrib_subtree", "assemble_contrib_block"},
         NEW x \in Writes[t]
  PROVE  /\ t.f \in Tiled /\ x \in Tiles(t.f) /\ x[1] = "tile" /\ x[2] = t.f
         /\ x \in Inserted(t).RW \cup Inserted(t).C
<1>1. t.f \in Tiled /\ t.k \in Front /\ Parent[t.k] = t.f
  BY Shape, TreeAssumption DEF Factors, AssemblesSubtree, AssemblesTile, Tiled
<1>2. \/ x \in assemble_contrib_block(t.k, AllCoefs(t.k))
      \/ x \in assemble_contrib_block(t.k, TileCoefs(t.k, t.i, t.j))
  BY DEF Writes, Factors, assemble_contrib_subtree
<1>3. x \in Tiles(t.f)
  BY <1>1, <1>2, PartsOfContribution, TilesOfParent
<1>4. x \in Inserted(t).RW \cup Inserted(t).C
  BY WritesDeclared
<1> QED BY <1>1, <1>3, <1>4 DEF Tiles, contrib_block

(* Everything that writes a tile but the end of its front. *)
LEMMA TileWriters ==
  ASSUME NEW t \in PTask, NEW x \in Writes[t], x[1] = "tile"
  PROVE  \/ t.op \in Factors
         \/ t.op \in {"assemble_contrib_subtree", "assemble_contrib_block"}
         \/ t.op = "fini_node" /\ t.k = x[2]
<1>1. t.op # "factor_subtree"
  BY DEF Writes, Factors, child_contrib
<1>2. t.op # "init_node"
  BY DEF Writes, Factors, Blocks, block
<1>3. t.op \notin {"assemble_subtree", "assemble_block"}
  BY DEF Writes, Factors, assemble_subtree, assemble_block, block
<1>4. t.op = "fini_node" => t.k = x[2]
  BY ResultOf
<1> QED BY <1>1, <1>2, <1>3, <1>4, Shape DEF AssemblesSubtree, AssemblesTile

LEMMA TileOwner ==
  ASSUME NarrowAlone, NEW t \in PTask, NEW x \in Writes[t], x[1] = "tile", t.op # "fini_node"
  PROVE  x[2] = t.f /\ x \in Inserted(t).RW \cup Inserted(t).C
<1>1. CASE t.op \in Factors
  <2>1. x \in Inserted(t).RW
    BY <1>1, TileFactors
  <2> QED BY <1>1, <2>1, FactorHandles
<1>2. CASE t.op \in {"assemble_contrib_subtree", "assemble_contrib_block"}
  BY <1>2, TileAssemblies
<1> QED BY <1>1, <1>2, TileWriters

(* One update overwrites a tile, and it precedes all that adds to it. *)
LEMMA OverwriterFirst ==
  ASSUME NarrowAlone, FlowInv,
         NEW t \in PTask, NEW u \in PTask, u # t, NEW x \in Writes[t], x \in Writes[u],
         Overwrites(t, x), u.op # "fini_node"
  PROVE  status[u] # "waiting" => status[t] = "done"
<1>1. t.op \in Factors /\ t.k = 0 /\ x[1] = "tile" /\ x[2] = t.f
  BY ResultOf
<1>2. x \in Inserted(t).RW /\ x \in Memory
  BY <1>1, TileFactors
<1>3. x \in PHandle
  BY <1>1, <1>2 DEF Memory, PHandle, child_contrib
<1>4. u.f = t.f /\ x \in Inserted(u).RW \cup Inserted(u).C
  BY <1>1, TileOwner
<1>5. Key(t)[1] = t.f /\ Key(t)[2] = 3 /\ Key(t)[3] = 0
  BY <1>1, KeyParts DEF Factors
<1>6. LexBefore(Key(t), Key(u))
  <2>1. CASE u.op \in {"assemble_contrib_subtree", "assemble_contrib_block"}
    <3>1. Key(u)[1] = t.f /\ Key(u)[2] = 4
      BY <1>4, <2>1, KeyParts
    <3> QED BY <1>5, <3>1, KeyDiffers
  <2>2. CASE u.op \in Factors
    <3>1. Key(u)[1] = t.f /\ Key(u)[2] = 3 /\ Key(u)[3] = u.k /\ u.k \in Nat
      BY <1>4, <2>2, KeyParts, FactorIndices DEF Factors
    <3>2. CASE u.k = 0
      <4>1. t.f \in Tiled /\ nc(t.f) \in Nat /\ 0 <= nc(t.f) - 1
        BY <1>1, FactorIndices
      <4>2. \/ /\ t = task("factor_block", t.f, 0, 0, 0) /\ x = contrib_block(t.f, 0, 0)
               /\ nc(t.f) = 1
            \/ /\ t = task("solve_block", t.f, 0, t.i, 0) /\ x = contrib_block(t.f, t.i, 0)
               /\ nc(t.f) = 1 /\ t.i >= 1
            \/ /\ t = task("update_contrib", t.f, 0, t.i, t.j) /\ x = contrib_block(t.f, t.i, t.j)
               /\ t.i >= nc(t.f) /\ t.j >= nc(t.f)
        BY <1>1, TileFactors
      <4>3. \/ /\ u = task("factor_block", t.f, 0, 0, 0) /\ x = contrib_block(t.f, 0, 0)
               /\ nc(t.f) = 1
            \/ /\ u = task("solve_block", t.f, 0, u.i, 0) /\ x = contrib_block(t.f, u.i, 0)
               /\ nc(t.f) = 1 /\ u.i >= 1
            \/ /\ u = task("update_contrib", t.f, 0, u.i, u.j) /\ x = contrib_block(t.f, u.i, u.j)
               /\ u.i >= nc(t.f) /\ u.j >= nc(t.f)
        BY <1>1, <1>4, <2>2, <3>2, TileFactors
      <4>4. \A a, b, c, d : contrib_block(t.f, a, b) = contrib_block(t.f, c, d) => a = c /\ b = d
        BY DEF contrib_block
      <4>5. u = t
        BY <4>1, <4>2, <4>3, <4>4, SMTT(20)
      <4> QED BY <4>5
    <3>3. CASE u.k > 0
      BY <1>5, <3>1, <3>3, KeyDiffers
    <3> QED BY <3>1, <3>2, <3>3
  <2> QED BY <1>1, <2>1, <2>2, TileWriters
<1> QED BY <1>2, <1>3, <1>4, <1>6, DoneBefore

LEMMA TilesKeptInductive ==
  ASSUME NarrowAlone, FlowInv, TilesKept, [Next]_vars
  PROVE  TilesKept'
<1>1. ASSUME NEW t \in PTask, StartTask(t)
      PROVE  TilesKept'
  BY <1>1, StartStep DEF TilesKept, Memory, Overwrites
<1>2. ASSUME NEW t \in PTask, FinishTask(t)
      PROVE  TilesKept'
  <2> SUFFICES ASSUME NEW x \in Memory, x[1] = "tile", ~ Freed(x[2])',
                      NEW o \in DoneWriters(x)', Overwrites(o, x)
               PROVE  val'[x] = DoneWriters(x)'
    BY DEF TilesKept, Memory, Overwrites
  <2>1. ~ Freed(x[2])
    BY <1>2, EndStep DEF Freed
  <2>2. o \in PTask /\ x \in Writes[o] /\ o \in DoneWriters(x) \cup {t}
    BY <1>2, EndStep DEF DoneWriters, Writes
  <2>3. CASE x \notin Writes[t]
    <3>1. o \in DoneWriters(x)
      BY <2>2, <2>3
    <3>2. val[x] = DoneWriters(x)
      BY <2>1, <3>1 DEF TilesKept
    <3> QED BY <1>2, <2>3, <3>2, EndStep
  <2>4. CASE x \in Writes[t]
    <3>1. t.op # "fini_node"
      BY <1>2, <2>4, EndStep, ResultOf DEF Freed
    <3>2. CASE Overwrites(t, x)
      <4>1. ASSUME NEW u \in DoneWriters(x)
            PROVE  FALSE
        <5>1. u \in PTask /\ x \in Writes[u] /\ status[u] = "done"
          BY DEF DoneWriters
        <5>2. status[t] = "running"
          BY <1>2, EndStep
        <5>3. u # t
          BY <5>1, <5>2
        <5>4. u.op # "fini_node"
          BY <2>1, <5>1, ResultOf DEF Freed
        <5> QED BY <2>4, <3>2, <5>1, <5>2, <5>3, <5>4, OverwriterFirst
      <4>2. DoneWriters(x) = {}
        BY <4>1
      <4>3. Result(t, x) = {t}
        BY <3>1, <3>2 DEF Result
      <4> QED BY <1>2, <2>4, <4>2, <4>3, EndStep
    <3>3. CASE ~ Overwrites(t, x)
      <4>1. o \in DoneWriters(x)
        BY <2>2, <3>3
      <4>2. val[x] = DoneWriters(x)
        BY <2>1, <4>1 DEF TilesKept
      <4>3. Result(t, x) = val[x] \cup {t}
        BY <3>1, <3>3, ResultOf
      <4> QED BY <1>2, <2>4, <4>2, <4>3, EndStep
    <3> QED BY <3>2, <3>3
  <2> QED BY <2>3, <2>4
<1>3. CASE UNCHANGED vars
  BY <1>3 DEF vars, TilesKept, DoneWriters, Freed, Memory, Writes, Overwrites
<1> QED BY <1>1, <1>2, <1>3 DEF Next, Work, Done, Terminated, vars

(* Every tile has an update that overwrites it. *)
LEMMA OverwriterExists ==
  ASSUME NarrowAlone, NEW c \in Tiled, NEW ii, NEW jj, <<ii, jj>> \in TileIndex(c)
  PROVE  /\ contrib_block(c, ii, jj) \in Tiles(c)
         /\ \E o \in PTask : /\ o.op \in Factors /\ o.f = c
                             /\ contrib_block(c, ii, jj) \in Writes[o]
                             /\ Overwrites(o, contrib_block(c, ii, jj))
<1> DEFINE x == contrib_block(c, ii, jj)
<1>1. /\ ldcontrib(c) > 0 /\ jj <= ii
      /\ ii \in rsa(c)..(nr(c) - 1) /\ jj \in rsa(c)..(nr(c) - 1)
  BY DEF TileIndex, LowerPairs
<1>2. /\ c \in Front /\ NRow[c] \in Nat \ {0} /\ NCol[c] \in Nat \ {0} /\ BlockSize \in Nat \ {0}
      /\ rsa(c) \in Nat /\ nr(c) \in Nat /\ nc(c) \in Nat /\ 0 \in 0..(nc(c) - 1)
      /\ (NCol[c] - 1) \div BlockSize \in Nat
  BY Sizes DEF nr, nc, Tiled
<1> DEFINE first == {task("factor_block", c, 0, 0, 0)}
                      \cup {task("solve_block", c, 0, i, 0) : i \in (0 + 1)..(nr(c) - 1)}
                      \cup {task("update_contrib", c, 0, p[1], p[2]) :
                             p \in {q \in LowerPairs(nc(c)..(nr(c) - 1), nc(c)..(nr(c) - 1)) :
                                      ldcontrib(c) > 0}}
<1>3. first \subseteq factor_front_posdef(c)
  <2>1. 0 \in 0..(nc(c) - 1)
    BY <1>2
  <2> QED BY <2>1, SMTT(20) DEF factor_front_posdef
<1>4. x \in Tiles(c) /\ x \in Memory
  <2>1. x \in Tiles(c)
    BY DEF Tiles
  <2> QED BY <2>1 DEF Memory
<1>5. ASSUME NEW o \in factor_front_posdef(c), o.k = 0, x \in Inserted(o).RW
      PROVE  /\ o \in PTask /\ o.op \in Factors /\ o.f = c /\ x \in Writes[o] /\ Overwrites(o, x)
  <2>1. o \in PTask
    BY DEF PTask
  <2>2. o.op \in Factors /\ o.f = c
    BY FactorShape
  <2>3. x \in Writes[o]
    BY <1>4, <1>5, <2>1, <2>2 DEF Writes, Factors
  <2> QED BY <1>4, <1>5, <2>1, <2>2, <2>3 DEF Overwrites
<1>6. CASE NCol[c] < BlockSize
  <2>1. narrow(c, 0)
    BY <1>1, <1>2, <1>6 DEF narrow
  <2>2. nc(c) = 1
    <3>1. NCol[c] - 1 \in Nat /\ NCol[c] - 1 < BlockSize
      BY <1>2, <1>6
    <3>2. (NCol[c] - 1) \div BlockSize = 0
      BY <1>2, <3>1, SMTT(20)
    <3> QED BY <3>2 DEF nc
  <2>3. CASE ii = 0
    <3> DEFINE o == task("factor_block", c, 0, 0, 0)
    <3>1. jj = 0
      BY <1>1, <1>2, <2>3
    <3>2. o \in factor_front_posdef(c)
      BY <1>3
    <3>3. o.op = "factor_block" /\ o.f = c /\ o.k = 0
      BY DEF task
    <3>4. x \in Inserted(o).RW
      BY <2>1, <2>3, <3>1, <3>3 DEF Inserted, insert_factor_block, factor_block_task, Uses
    <3> QED BY <1>4, <1>5, <3>2, <3>3, <3>4
  <2>4. CASE ii # 0 /\ jj = 0
    <3> DEFINE o == task("solve_block", c, 0, ii, 0)
    <3>1. ii \in (0 + 1)..(nr(c) - 1)
      BY <1>1, <1>2, <2>4
    <3>2. o \in factor_front_posdef(c)
      BY <1>3, <3>1
    <3>3. o.op = "solve_block" /\ o.f = c /\ o.k = 0 /\ o.i = ii
      BY DEF task
    <3>4. x \in Inserted(o).RW
      BY <2>1, <2>4, <3>3 DEF Inserted, insert_solve_block, solve_block_task, Uses
    <3> QED BY <1>4, <1>5, <3>2, <3>3, <3>4
  <2>5. CASE jj # 0
    <3> DEFINE o == task("update_contrib", c, 0, ii, jj)
    <3>1. ii \in nc(c)..(nr(c) - 1) /\ jj \in nc(c)..(nr(c) - 1)
      BY <1>1, <1>2, <2>2, <2>5
    <3>2. <<ii, jj>> \in {p \in LowerPairs(nc(c)..(nr(c) - 1), nc(c)..(nr(c) - 1)) : ldcontrib(c) > 0}
      BY <1>1, <3>1, Coefs
    <3>3. o \in factor_front_posdef(c)
      BY <1>3, <3>2
    <3>4. o.op = "update_contrib" /\ o.f = c /\ o.k = 0 /\ o.i = ii /\ o.j = jj
      BY DEF task
    <3>5. x \in Inserted(o).RW
      BY <3>4 DEF Inserted, insert_update_contrib, Uses
    <3> QED BY <1>4, <1>5, <3>3, <3>4, <3>5
  <2> QED BY <2>3, <2>4, <2>5
<1>7. CASE NCol[c] >= BlockSize
  <2> DEFINE q == (NCol[c] - 1) \div BlockSize
             o == task("update_contrib", c, 0, ii, jj)
  <2>1. /\ q \in Nat /\ nc(c) = q + 1 /\ BlockSize * q <= NCol[c] - 1
        /\ NCol[c] - 1 < BlockSize * q + BlockSize
    <3>1. NCol[c] - 1 \in Nat
      BY <1>2
    <3> QED BY <1>2, <3>1, BlockOf DEF nc
  <2>2. q * BlockSize \in Nat /\ q * BlockSize = BlockSize * q /\ (q + 1) * BlockSize = q * BlockSize + BlockSize
    BY <1>2, <2>1, Z3
  <2>3. NCol[c] >= q * BlockSize + BlockSize
    <3>1. q \in 0..(nc(c) - 1)
      BY <2>1
    <3>2. CASE narrow(c, q)
      <4>1. q = 0
        BY <3>1, <3>2 DEF NarrowAlone
      <4>2. NCol[c] < BlockSize
        BY <1>2, <3>2, <4>1 DEF narrow
      <4> QED BY <1>2, <1>7, <4>2
    <3>3. CASE ~ narrow(c, q)
      <4>1. ~ (NCol[c] - q * BlockSize < BlockSize)
        BY <1>1, <3>3 DEF narrow
      <4> QED BY <1>2, <2>2, <4>1
    <3> QED BY <3>2, <3>3
  <2>4. NCol[c] = (q + 1) * BlockSize
    BY <1>2, <2>1, <2>2, <2>3
  <2>5. rsa(c) = nc(c)
    BY <1>2, <2>1, <2>4, DivMultiple DEF rsa
  <2>6. <<ii, jj>> \in {p \in LowerPairs(nc(c)..(nr(c) - 1), nc(c)..(nr(c) - 1)) : ldcontrib(c) > 0}
    BY <1>1, <2>5, Coefs
  <2>7. o \in factor_front_posdef(c)
    BY <1>3, <2>6
  <2>8. o.op = "update_contrib" /\ o.f = c /\ o.k = 0 /\ o.i = ii /\ o.j = jj
    BY DEF task
  <2>9. x \in Inserted(o).RW
    BY <2>8 DEF Inserted, insert_update_contrib, Uses
  <2> QED BY <1>4, <1>5, <2>7, <2>8, <2>9
<1> QED BY <1>2, <1>6, <1>7

(* What forms a tile is what writes it, but for the end of its front. *)
LEMMA FormedIsWritten ==
  ASSUME NarrowAlone, NEW c \in Tiled, NEW x \in Tiles(c), NEW u \in PTask
  PROVE  u \in Formed[x] <=> x \in Writes[u] /\ u.op # "fini_node"
<1>1. x \in Memory /\ x[1] = "tile" /\ x[2] = c /\ x = contrib_block(c, x[3], x[4])
  BY DEF Memory, Tiles, contrib_block
<1>2. u \in Formed[x] <=>
        /\ u.f = c
        /\ \/ u.op = "update_contrib" /\ u.i = x[3] /\ u.j = x[4]
           \/ u.op = "factor_block" /\ narrow(u.f, u.k) /\ u.k = x[3] /\ u.k = x[4]
           \/ u.op = "solve_block" /\ narrow(u.f, u.k) /\ u.i = x[3] /\ u.k = x[4]
           \/ /\ u.op \in {"assemble_contrib_subtree", "assemble_contrib_block"}
              /\ x \in Writes[u]
  BY <1>1 DEF Formed
<1>3. ASSUME u \in Formed[x]
      PROVE  x \in Writes[u] /\ u.op # "fini_node"
  <2>1. CASE u.op = "update_contrib" /\ u.f = c /\ u.i = x[3] /\ u.j = x[4]
    <3>1. x \in Inserted(u).RW
      BY <1>1, <2>1 DEF Inserted, insert_update_contrib, Uses
    <3> QED BY <1>1, <2>1, <3>1 DEF Writes, Factors
  <2>2. CASE u.op = "factor_block" /\ u.f = c /\ narrow(u.f, u.k) /\ u.k = x[3] /\ u.k = x[4]
    <3>1. x \in Inserted(u).RW
      BY <1>1, <2>2 DEF Inserted, insert_factor_block, factor_block_task, Uses
    <3> QED BY <1>1, <2>2, <3>1 DEF Writes, Factors
  <2>3. CASE u.op = "solve_block" /\ u.f = c /\ narrow(u.f, u.k) /\ u.i = x[3] /\ u.k = x[4]
    <3>1. x \in Inserted(u).RW
      BY <1>1, <2>3 DEF Inserted, insert_solve_block, solve_block_task, Uses
    <3> QED BY <1>1, <2>3, <3>1 DEF Writes, Factors
  <2> QED BY <1>2, <1>3, <2>1, <2>2, <2>3
<1>4. ASSUME x \in Writes[u], u.op # "fini_node"
      PROVE  u \in Formed[x]
  <2>1. u.f = c
    BY <1>1, <1>4, TileOwner
  <2>2. CASE u.op \in {"assemble_contrib_subtree", "assemble_contrib_block"}
    BY <1>2, <1>4, <2>1, <2>2
  <2>3. CASE u.op \in Factors
    <3>1. \/ /\ u = task("factor_block", u.f, 0, 0, 0) /\ x = contrib_block(u.f, 0, 0)
             /\ narrow(u.f, 0)
          \/ /\ u = task("solve_block", u.f, 0, u.i, 0) /\ x = contrib_block(u.f, u.i, 0)
             /\ narrow(u.f, 0)
          \/ u = task("update_contrib", u.f, u.k, u.i, u.j) /\ x = contrib_block(u.f, u.i, u.j)
      BY <1>1, <1>4, <2>3, TileFactors
    <3> QED BY <1>2, <2>1, <3>1 DEF task, contrib_block
  <2> QED BY <1>1, <1>4, <2>2, <2>3, TileWriters
<1> QED BY <1>3, <1>4

(* When a tile is read it is whole. *)
LEMMA TileRead ==
  ASSUME NarrowAlone, FlowInv, TilesKept, NEW t \in PTask, t.op \in AssemblesTile,
         status[t] = "running"
  PROVE  val[contrib_block(t.k, t.i, t.j)] = Formed[contrib_block(t.k, t.i, t.j)]
<1> DEFINE c == t.k
           x == contrib_block(c, t.i, t.j)
<1>1. /\ c \in Tiled /\ c \in Front /\ Parent[c] = t.f /\ <<t.i, t.j>> \in TileIndex(c)
      /\ t.f \in Tiled
  BY Shape DEF Factors, AssemblesSubtree, AssemblesTile, Tiled
<1>2. /\ x \in Tiles(c) /\ x \in Memory /\ x \in PHandle /\ x[1] = "tile" /\ x[2] = c
  BY <1>1, OverwriterExists DEF Memory, PHandle, contrib_block
<1>3. x \in Inserted(t).R /\ x \notin Inserted(t).C
  BY NodeHandles DEF AssemblesTile, Inserted, insert_assemble_block, insert_assemble_contrib_block, Uses
<1>4. c < t.f /\ Key(t)[1] = t.f
  BY <1>1, KeyParts, TreeAssumption DEF AssemblesTile
<1>5. ASSUME NEW u \in PTask, x \in Writes[u], u.op # "fini_node"
      PROVE  status[u] = "done"
  <2>1. u.f = c /\ x \in Inserted(u).RW \cup Inserted(u).C
    BY <1>2, <1>5, TileOwner
  <2>2. u.op # "factor_subtree"
    BY <1>2, <1>5, TileWriters DEF Factors
  <2>3. Key(u)[1] = c
    BY <2>1, <2>2, KeyParts
  <2>4. LexBefore(Key(u), Key(t))
    BY <1>4, <2>3, KeyDiffers
  <2> QED BY <1>2, <1>3, <2>1, <2>4, DoneBefore
<1>6. ~ Freed(c)
  <2> SUFFICES ASSUME NEW u \in PTask, u.op = "fini_node", u.k = c, status[u] = "done"
               PROVE  FALSE
    BY DEF Freed
  <2>1. u.f = t.f
    <3>1. u = task("fini_node", Parent[u.k], u.k, 0, 0)
      BY Shape DEF Factors, AssemblesSubtree, AssemblesTile
    <3> QED BY <1>1, <3>1 DEF task
  <2>2. Key(u)[1] = t.f /\ Key(u)[2] = 4 /\ Key(u)[3] = -c /\ Key(u)[4] = 1
    BY <2>1, KeyParts
  <2>3. LexBefore(Key(t), Key(u))
    <3>1. CASE t.op = "assemble_block"
      BY <1>4, <2>2, <3>1, KeyParts, KeyDiffers
    <3>2. CASE t.op = "assemble_contrib_block"
      BY <1>4, <2>2, <3>2, KeyParts, KeyDiffers
    <3> QED BY <3>1, <3>2 DEF AssemblesTile
  <2>4. hdl(c) \in PHandle /\ hdl(c) \in Inserted(u).RW /\ hdl(c) \in Inserted(t).R
    BY <1>1, NodeHandles, NodeHandleExists
  <2>5. status[t] = "done"
    BY <2>3, <2>4, DoneBefore
  <2> QED BY <2>5
<1>7. PICK o \in PTask : o.op \in Factors /\ x \in Writes[o] /\ Overwrites(o, x)
  BY <1>1, OverwriterExists
<1>8. o \in DoneWriters(x)
  BY <1>5, <1>7 DEF DoneWriters, Factors
<1>9. val[x] = DoneWriters(x)
  BY <1>2, <1>6, <1>7, <1>8 DEF TilesKept
<1>10. ASSUME NEW u \in PTask
       PROVE  u \in DoneWriters(x) <=> u \in Formed[x]
  <2>1. u \in Formed[x] <=> x \in Writes[u] /\ u.op # "fini_node"
    BY <1>1, <1>2, FormedIsWritten
  <2>2. u \in DoneWriters(x) => u.op # "fini_node"
    BY <1>2, <1>6, ResultOf DEF DoneWriters, Freed
  <2> QED BY <1>5, <2>1, <2>2 DEF DoneWriters
<1>11. DoneWriters(x) \subseteq PTask /\ Formed[x] \subseteq PTask
  BY <1>2 DEF DoneWriters, Formed
<1>12. DoneWriters(x) = Formed[x]
  BY <1>10, <1>11
<1> QED BY <1>9, <1>12

(* When the result of a subtree is read it is there. *)
LEMMA SubtreeRead ==
  ASSUME FlowInv, ResultsKept, NEW t \in PTask, t.op \in AssemblesSubtree, status[t] = "running"
  PROVE  val[child_contrib(t.k)] = {task("factor_subtree", t.k, 0, 0, 0)}
<1> DEFINE c == t.k
           x == child_contrib(c)
           o == task("factor_subtree", c, 0, 0, 0)
<1>1. c \in Subtree /\ c \in Front /\ t.f \in Tiled /\ t.f \in Front
  BY Shape, TreeAssumption DEF Factors, AssemblesSubtree, AssemblesTile, Tiled
<1>2. x \in Memory /\ x[1] = "subtree"
  BY <1>1 DEF Memory, child_contrib
<1>3. o \in PTask /\ o.op = "factor_subtree" /\ o.f = c
  BY <1>1 DEF PTask, task
<1>4. status[o] = "done"
  <2>1. Key(o)[1] = 0 /\ Key(t)[1] = t.f
    BY <1>3, KeyParts DEF Key, AssemblesSubtree
  <2>2. 0 < t.f
    BY <1>1, TreeAssumption DEF Front
  <2>3. hdl(c) \in PHandle /\ hdl(c) \in Inserted(o).RW /\ hdl(c) \in Inserted(t).R
    BY <1>1, <1>3, NodeHandles, NodeHandleExists
  <2> QED BY <1>3, <2>1, <2>2, <2>3, KeyDiffers, DoneBefore
<1>5. ASSUME NEW u \in PTask, x \in Writes[u]
      PROVE  u = o
  <2>1. x \notin PHandle
    BY <1>2 DEF PHandle, Blocks, Tiles, block, contrib_block, hdl, contrib_hdl
  <2>2. u.op = "factor_subtree"
    BY <1>2, <1>5, <2>1, ResultOf, WritesDeclared
  <2>3. x = child_contrib(u.f)
    BY <1>5, <2>2 DEF Writes, Factors
  <2>4. u.f = c
    BY <2>3 DEF child_contrib
  <2>5. u = task("factor_subtree", u.f, 0, 0, 0)
    BY <2>2, Shape DEF Factors, AssemblesSubtree, AssemblesTile
  <2> QED BY <2>4, <2>5
<1>6. x \in Writes[o]
  BY <1>3 DEF Writes, Factors
<1>7. DoneWriters(x) = {o}
  BY <1>3, <1>4, <1>5, <1>6 DEF DoneWriters
<1> QED BY <1>2, <1>7 DEF ResultsKept

LEMMA FormedFollows ==
  NarrowAlone /\ FlowInv /\ ResultsKept /\ TilesKept => ContribFormed
BY TileRead, SubtreeRead DEF ContribFormed, AssemblesTile, AssemblesSubtree

LEMMA MemoryStarts ==
  ASSUME Init
  PROVE  ResultsKept /\ TilesKept
<1>1. \A x : DoneWriters(x) = {}
  BY ProgramAssumption DEF Init, TaskInit, DoneWriters
<1> QED BY <1>1 DEF Init, ResultsKept, TilesKept

LEMMA PosdefResultsKept == Spec => []ResultsKept
<1>1. Init => ResultsKept
  BY MemoryStarts
<1>2. FlowInv /\ ResultsKept /\ [Next]_vars => ResultsKept'
  BY ResultsKeptInductive
<1> QED BY <1>1, <1>2, PosdefFlow, PTL DEF Spec

(* A block is eliminated when it holds the entries of A, all the updates    *)
(* from the left and every coefficient of the children that falls there,    *)
(* and nothing is added to it afterwards: for every tree, every block size, *)
(* any number of workers.                                                   *)
THEOREM PosdefEliminatedWhenSummed == Spec => []EliminatedWhenSummed
  BY PosdefResultsKept, PosdefFlow, SummedFollows, PTL

(* A contribution is assembled into the parent only when it is whole, and   *)
(* what its memory held before has been overwritten, in every front whose   *)
(* last block column ends with its columns or is the only one.  The other   *)
(* fronts are those whose updates name a tile out of bounds.                *)
THEOREM PosdefContribFormed ==
  ASSUME NarrowAlone
  PROVE  Spec => []ContribFormed
<1>1. Spec => []TilesKept
  <2>1. Init => TilesKept
    BY MemoryStarts
  <2>2. FlowInv /\ TilesKept /\ [Next]_vars => TilesKept'
    BY TilesKeptInductive
  <2> QED BY <2>1, <2>2, PosdefFlow, PTL DEF Spec
<1>2. FlowInv /\ ResultsKept /\ TilesKept => ContribFormed
  BY FormedFollows
<1> QED BY PosdefResultsKept, <1>1, <1>2, PosdefFlow, PTL
=============================================================================
