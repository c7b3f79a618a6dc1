----------------------------- MODULE PosdefTree -----------------------------
(***************************************************************************)
(* The multifrontal Cholesky factorization (NumericTreePosdef::factor_mf,  *)
(* and the same code in NumericTree::factor_mf_posdef) as a program of     *)
(* tasks.  There are no delayed pivots, so every size is known and the     *)
(* main thread submits all the tasks in one pass over the tree:            *)
(*                                                                         *)
(*   - each subtree is one task;                                           *)
(*   - a front is initialized with the entries of A, receives from its     *)
(*     children what falls in its fully summed columns, is factorized by   *)
(*     block, receives what falls in its contribution block, and its       *)
(*     children are freed.                                                 *)
(*                                                                         *)
(* The modes a task declares (insert_...) and the memory its kernel uses *)
(* (Reads, Writes) are stated apart: assembly kernels reach the blocks of  *)
(* a front through its pointers, whatever handles the task was given.      *)
(*                                                                         *)
(* A front in Subtree stands for a whole subtree.  Front NFront + 1 is the *)
(* virtual root: it has no matrix.  Rows, columns and blocks count from 0. *)
(***************************************************************************)
EXTENDS TaskFlow

CONSTANTS
  NFront,      \* number of fronts, in postorder
  Parent,      \* Parent[f]: the front that receives the contribution of f
  Subtree,     \* fronts that are roots of subtrees
  NRow,        \* NRow[f]: rows of front f
  NCol,        \* NCol[f]: fully summed columns of front f
  Map,         \* Map[f][i]: row of Parent[f] for row i of the contribution of f
  BlockSize    \* options.nb

VARIABLE val   \* val[x]: the tasks whose results memory x holds

vars == <<status, val>>

Front == 1..NFront
Row(c) == 0..(NRow[c] - NCol[c] - 1)     \* rows of the contribution of c

(***************************************************************************)
(* What the analysis hands over: a postordered tree, roots without         *)
(* contribution, and row lists in increasing order, so that the rows of a  *)
(* contribution keep their order in the parent.                            *)
(***************************************************************************)
ASSUME TreeAssumption ==
  /\ NFront \in Nat \ {0}
  /\ BlockSize \in Nat \ {0}
  /\ Parent \in [Front -> 1..(NFront + 1)]
  /\ NRow \in [Front -> Nat \ {0}]
  /\ NCol \in [Front -> Nat \ {0}]
  /\ \A f \in Front :
       /\ f < Parent[f]
       /\ NCol[f] <= NRow[f]
       /\ Parent[f] = NFront + 1 => NRow[f] = NCol[f]
       /\ Parent[f] # NFront + 1 => Map[f] \in [Row(f) -> 0..(NRow[Parent[f]] - 1)]
       /\ \A i, j \in Row(f) : i < j => Map[f][i] < Map[f][j]
  /\ Subtree \subseteq Front
  /\ \A f \in Front : Parent[f] \notin Subtree

-----------------------------------------------------------------------------
(* Blocks of fully summed columns, tiles of contribution blocks.           *)

ldcontrib(f) == NRow[f] - NCol[f]
nr(f) == (NRow[f] - 1) \div BlockSize + 1
nc(f) == (NCol[f] - 1) \div BlockSize + 1
rsa(f) == NCol[f] \div BlockSize

(* The last block column has fewer than BlockSize columns, and the rows of  *)
(* its diagonal block go on into the contribution.                          *)
narrow(f, k) == NCol[f] - k * BlockSize < BlockSize /\ ldcontrib(f) > 0

block(f, i, j) == <<"block", f, i, j>>
contrib_block(f, i, j) == <<"tile", f, i, j>>
hdl(f) == <<"node", f, 0, 0>>
contrib_hdl(f) == <<"contrib", f, 0, 0>>

LowerPairs(rows, cols) == {p \in rows \X cols : p[2] <= p[1]}

BlockIndex(f) == LowerPairs(0..(nr(f) - 1), 0..(nc(f) - 1))
TileIndex(f) ==
  IF ldcontrib(f) > 0 THEN LowerPairs(rsa(f)..(nr(f) - 1), rsa(f)..(nr(f) - 1)) ELSE {}

Blocks(f) == {block(f, p[1], p[2]) : p \in BlockIndex(f)}
Tiles(f) == {contrib_block(f, p[1], p[2]) : p \in TileIndex(f)}

Tiled == Front \ Subtree     \* the fronts factorized by block

PHandle ==
  (UNION {Blocks(f) \cup Tiles(f) : f \in Tiled}) \cup {hdl(f) : f \in Front}
    \cup {contrib_hdl(f) : f \in Front}

(* Where values live: the blocks, the tiles, and what a subtree returns.    *)
child_contrib(f) == <<"subtree", f, 0, 0>>
Memory ==
  (UNION {Blocks(f) \cup Tiles(f) : f \in Tiled}) \cup {child_contrib(f) : f \in Subtree}

-----------------------------------------------------------------------------
(* Coefficients of a contribution block and where they go in the parent.   *)

(* The rows of the contribution of c that lie in block row ii of c. *)
RowsOf(c, ii) == {i \in Row(c) : (NCol[c] + i) \div BlockSize = ii}

(* The lower triangle of tile (ii, jj) of c, and of a whole contribution.   *)
TileCoefs(c, ii, jj) == LowerPairs(RowsOf(c, ii), RowsOf(c, jj))
AllCoefs(c) == LowerPairs(Row(c), Row(c))

FullySummed(c, S) == {p \in S : Map[c][p[2]] < NCol[Parent[c]]}
NotFullySummed(c, S) == {p \in S : Map[c][p[2]] >= NCol[Parent[c]]}

(* The block of the parent in which a coefficient falls. *)
Dest(c, p) == <<Map[c][p[1]] \div BlockSize, Map[c][p[2]] \div BlockSize>>

(* The loops that collect the handles of an assembly: the first column that *)
(* falls in a block column stands for all of them.                          *)
FirstColumns(c, S) ==
  {p \in S : \A q \in S : q[2] < p[2] => Dest(c, q)[2] # Dest(c, p)[2]}

DestBlocks(c, S) ==
  {block(Parent[c], Dest(c, p)[1], Dest(c, p)[2]) : p \in FirstColumns(c, FullySummed(c, S))}
DestTiles(c, S) ==
  {contrib_block(Parent[c], Dest(c, p)[1], Dest(c, p)[2]) :
     p \in FirstColumns(c, NotFullySummed(c, S))}

(* What the kernels write: every coefficient in turn. *)
assemble_block(c, S) ==
  {block(Parent[c], Dest(c, p)[1], Dest(c, p)[2]) : p \in FullySummed(c, S)}
assemble_contrib_block(c, S) ==
  {contrib_block(Parent[c], Dest(c, p)[1], Dest(c, p)[2]) : p \in NotFullySummed(c, S)}

assemble_subtree(c) == assemble_block(c, AllCoefs(c))
assemble_contrib_subtree(c) == assemble_contrib_block(c, AllCoefs(c))

-----------------------------------------------------------------------------
(* The tasks.  In an assembly or a finalization, k is the child; i and j    *)
(* are the row and the column of a block.                                   *)

task(op, f, k, i, j) == [op |-> op, f |-> f, k |-> k, i |-> i, j |-> j]

Children(f) == {c \in Front : Parent[c] = f}

assemble_subtree_task(f, c) ==
  {t \in {task("assemble_subtree", f, c, 0, 0)} : DestBlocks(c, AllCoefs(c)) # {}}

assemble_block_task(f, c) ==
  {t \in {task("assemble_block", f, c, p[1], p[2]) : p \in TileIndex(c)} :
     DestBlocks(c, TileCoefs(c, t.i, t.j)) # {}}

assemble_contrib_subtree_task(f, c) ==
  {t \in {task("assemble_contrib_subtree", f, c, 0, 0)} : DestTiles(c, AllCoefs(c)) # {}}

assemble_contrib_block_task(f, c) ==
  {t \in {task("assemble_contrib_block", f, c, p[1], p[2]) : p \in TileIndex(c)} :
     DestTiles(c, TileCoefs(c, t.i, t.j)) # {}}

AssembleTasks(f) ==
  (UNION {assemble_subtree_task(f, c) : c \in Children(f) \cap Subtree})
    \cup (UNION {assemble_block_task(f, c) : c \in Children(f) \ Subtree})

AssembleContribTasks(f) ==
  (UNION {assemble_contrib_subtree_task(f, c) : c \in Children(f) \cap Subtree})
    \cup (UNION {assemble_contrib_block_task(f, c) : c \in Children(f) \ Subtree})

FiniTasks(f) == {task("fini_node", f, c, 0, 0) : c \in Children(f) \ Subtree}

factor_front_posdef(f) ==
  LET column == 0..(nc(f) - 1)
      row(k) == (k + 1)..(nr(f) - 1)
      contrib == nc(f)..(nr(f) - 1)
      tile == {p \in LowerPairs(contrib, contrib) : ldcontrib(f) > 0}
  IN UNION {
       {task("factor_block", f, k, k, k)}
         \cup {task("solve_block", f, k, i, k) : i \in row(k)}
         \cup {task("update_block", f, k, p[1], p[2]) :
                p \in LowerPairs(row(k), (k + 1)..(nc(f) - 1))}
         \cup {task("update_contrib", f, k, p[1], p[2]) : p \in tile}
       : k \in column}

PTask ==
  {task("factor_subtree", f, 0, 0, 0) : f \in Subtree}
    \cup (UNION {{task("init_node", f, 0, 0, 0)} \cup AssembleTasks(f) \cup factor_front_posdef(f)
                   \cup AssembleContribTasks(f) \cup FiniTasks(f) : f \in Tiled})
    \cup FiniTasks(NFront + 1)

(* The order of submission: the loops of factor_mf, from the outermost.     *)
(* The children of a front are visited newest first.                        *)
Stage(t) ==
  CASE t.op = "init_node" -> 1
    [] t.op \in {"assemble_subtree", "assemble_block"} -> 2
    [] t.op \in {"factor_block", "solve_block", "update_block", "update_contrib"} -> 3
    [] t.op \in {"assemble_contrib_subtree", "assemble_contrib_block", "fini_node"} -> 4
    [] OTHER -> 0

Loop(t) == IF Stage(t) = 3 THEN t.k ELSE -t.k

Substage(t) ==
  CASE t.op \in {"solve_block", "fini_node"} -> 1
    [] t.op = "update_block" -> 2
    [] t.op = "update_contrib" -> 3
    [] OTHER -> 0

Key(t) ==
  IF t.op = "factor_subtree"
  THEN <<0, t.f, 0, 0, 0, 0>>
  ELSE <<t.f, Stage(t), Loop(t), Substage(t), t.j, t.i>>

(* Lexicographic order of two keys. *)
LexBefore(a, b) ==
  \E n \in 1..6 : a[n] < b[n] /\ \A m \in 1..(n - 1) : a[m] = b[m]

PBefore == {p \in PTask \X PTask : LexBefore(Key(p[1]), Key(p[2]))}

-----------------------------------------------------------------------------
(* The handles each task is inserted with, by mode. *)

Uses(rw, r, c) == [RW |-> rw, R |-> r, C |-> c]

insert_factor_subtree(t) == Uses({hdl(t.f)}, {}, {})

insert_init_node(t) == Uses(Blocks(t.f) \cup {hdl(t.f)}, {}, {})

insert_subtree_assemble_NoDest(t) == Uses({}, {hdl(t.k)}, {})  \* fault

insert_subtree_assemble(t) == Uses(DestBlocks(t.k, AllCoefs(t.k)), {hdl(t.k)}, {})

insert_assemble_block(t) ==
  Uses(DestBlocks(t.k, TileCoefs(t.k, t.i, t.j)), {contrib_block(t.k, t.i, t.j), hdl(t.k)}, {})

(* The tile named beside a block of a narrow column.  The last one is what  *)
(* the code writes for the update of block (i, j).                          *)
factor_block_task(t) == IF narrow(t.f, t.k) THEN {contrib_block(t.f, t.k, t.k)} ELSE {}
solve_block_task(t) == IF narrow(t.f, t.k) THEN {contrib_block(t.f, t.i, t.k)} ELSE {}
update_block_task(t) == IF narrow(t.f, t.j) THEN {contrib_block(t.f, t.i, t.k)} ELSE {}

insert_factor_block(t) ==
  Uses({block(t.f, t.k, t.k)} \cup factor_block_task(t), {hdl(t.f)}, {})

insert_solve_block(t) ==
  Uses({block(t.f, t.i, t.k)} \cup solve_block_task(t),
       {block(t.f, t.k, t.k), hdl(t.f)}, {})

insert_update_block(t) ==
  Uses({block(t.f, t.i, t.j)} \cup update_block_task(t),
       {block(t.f, t.i, t.k), block(t.f, t.j, t.k), hdl(t.f)}, {})

insert_update_contrib(t) ==
  Uses({contrib_block(t.f, t.i, t.j)},
       {block(t.f, t.i, t.k), block(t.f, t.j, t.k), hdl(t.f)}, {})

insert_subtree_assemble_contrib(t) ==
  Uses({}, {hdl(t.k), contrib_hdl(t.f)}, DestTiles(t.k, AllCoefs(t.k)))

insert_assemble_contrib_NoChild(t) ==                          \* fault
  Uses(DestTiles(t.k, TileCoefs(t.k, t.i, t.j)),
       {contrib_block(t.k, t.i, t.j), contrib_hdl(t.f)}, {})

insert_assemble_contrib_block(t) ==
  Uses(DestTiles(t.k, TileCoefs(t.k, t.i, t.j)),
       {contrib_block(t.k, t.i, t.j), hdl(t.k), contrib_hdl(t.f)}, {})

fini_node_task(t) == Blocks(t.k)

insert_fini_node(t) == Uses(fini_node_task(t) \cup {hdl(t.k)}, {}, {})

Inserted(t) ==
  CASE t.op = "factor_subtree" -> insert_factor_subtree(t)
    [] t.op = "init_node" -> insert_init_node(t)
    [] t.op = "assemble_subtree" -> insert_subtree_assemble(t)
    [] t.op = "assemble_block" -> insert_assemble_block(t)
    [] t.op = "factor_block" -> insert_factor_block(t)
    [] t.op = "solve_block" -> insert_solve_block(t)
    [] t.op = "update_block" -> insert_update_block(t)
    [] t.op = "update_contrib" -> insert_update_contrib(t)
    [] t.op = "assemble_contrib_subtree" -> insert_subtree_assemble_contrib(t)
    [] t.op = "assemble_contrib_block" -> insert_assemble_contrib_block(t)
    [] t.op = "fini_node" -> insert_fini_node(t)

Mode(used, h) ==
  CASE h \in used.RW -> "RW"
    [] h \in used.C \ used.RW -> "C"
    [] h \in used.R \ (used.RW \cup used.C) -> "R"
    [] OTHER -> "none"

PAccess == [t \in PTask |-> LET used == Inserted(t) IN [h \in PHandle |-> Mode(used, h)]]

(***************************************************************************)
(* The task flow runs this program.                                        *)
(***************************************************************************)
ASSUME ProgramAssumption ==
  Task = PTask /\ Handle = PHandle /\ Access = PAccess /\ Before = PBefore

-----------------------------------------------------------------------------
(* The memory each kernel writes and reads.  The kernels of a factorization *)
(* get their pointers from the handles of their task.                       *)

Factors == {"factor_block", "solve_block", "update_block", "update_contrib"}

Writes == [t \in PTask |->
  CASE t.op = "factor_subtree" -> {child_contrib(t.f)}
    [] t.op = "init_node" -> Blocks(t.f)
    [] t.op = "assemble_subtree" -> assemble_subtree(t.k)
    [] t.op = "assemble_block" -> assemble_block(t.k, TileCoefs(t.k, t.i, t.j))
    [] t.op \in Factors -> Inserted(t).RW \cap Memory
    [] t.op = "assemble_contrib_subtree" -> assemble_contrib_subtree(t.k)
    [] t.op = "assemble_contrib_block" -> assemble_contrib_block(t.k, TileCoefs(t.k, t.i, t.j))
    [] t.op = "fini_node" -> Tiles(t.k)]

Reads == [t \in PTask |->
  CASE t.op \in {"assemble_subtree", "assemble_contrib_subtree"} -> {child_contrib(t.k)}
    [] t.op \in {"assemble_block", "assemble_contrib_block"} -> {contrib_block(t.k, t.i, t.j)}
    [] t.op \in Factors -> Inserted(t).R \cap Memory
    [] OTHER -> {}]

(* What is in memory that was never written (contribution tiles are         *)
(* explicitly not zeroed), or has been freed.                               *)
Garbage == task("garbage", 0, 0, 0, 0)

OverwritesNever(t, x) == FALSE                                 \* fault

(* The first update of a contribution tile multiplies it by 0.              *)
Overwrites(t, x) == t.op \in Factors /\ t.k = 0 /\ x \in Tiles(t.f)

(* The contents of x once t has run. *)
Result(t, x) ==
  IF t.op = "fini_node" THEN {Garbage}
  ELSE IF Overwrites(t, x) THEN {t}
  ELSE val[x] \cup {t}

Init ==
  /\ TaskInit
  /\ val = [x \in Memory |-> IF x[1] = "tile" THEN {Garbage} ELSE {}]

StartTask(t) == Start(t) /\ UNCHANGED val

FinishTask(t) ==
  /\ Finish(t)
  /\ LET written == Writes[t]
     IN val' = [x \in Memory |-> IF x \in written THEN Result(t, x) ELSE val[x]]

(* starpu_task_wait_for_all returns. *)
Done == Terminated /\ UNCHANGED val

Work == \E t \in PTask : StartTask(t) \/ FinishTask(t)

Next == Work \/ Done

(* Workers poll for ready tasks: as long as one can start or end, some will. *)
Spec == Init /\ [][Next]_vars /\ WF_vars(Work)

-----------------------------------------------------------------------------
TypeOK ==
  /\ TaskTypeOK
  /\ val \in [Memory -> SUBSET (PTask \cup {Garbage})]

(* Two tasks at work never touch one block, tile or subtree result unless   *)
(* both read it, or their order is free and the runtime keeps them apart:   *)
(* the declared handles cover every write of the assembly kernels, and a    *)
(* front is freed after the last use of its tiles, although fini_node       *)
(* declares none of them.                                                   *)
NoDataRace ==
  \A t, u \in PTask :
    /\ t # u
    /\ status[t] = "running" /\ status[u] = "running"
    => Writes[t] \cap (Writes[u] \cup Reads[u]) = {}

Eliminations == {t \in PTask : t.op \in {"factor_block", "solve_block"}}

(* The tasks whose results a block holds when its columns are eliminated:   *)
(* the entries of A, all the updates from the left, and every coefficient   *)
(* of the children that falls there.                                        *)
Summed == [t \in Eliminations |->
  {u \in PTask :
     /\ u.f = t.f
     /\ \/ u.op = "init_node"
        \/ u.op = "update_block" /\ u.i = t.i /\ u.j = t.k
        \/ /\ u.op \in {"assemble_subtree", "assemble_block"}
           /\ block(t.f, t.i, t.k) \in Writes[u]}]

(* A block is eliminated when everything has been added to it, and nothing  *)
(* is added to it afterwards.                                               *)
EliminatedWhenSummed ==
  \A t \in Eliminations :
    /\ status[t] = "running" => val[block(t.f, t.i, t.k)] = Summed[t]
    /\ status[t] = "done" => val[block(t.f, t.i, t.k)] = Summed[t] \cup {t}

(* The parts of a contribution tile: the update of every eliminated column, *)
(* by whichever task forms it, and what the children put there.             *)
Formed == [x \in {y \in Memory : y[1] = "tile"} |->
  {t \in PTask :
     /\ t.f = x[2]
     /\ \/ t.op = "update_contrib" /\ t.i = x[3] /\ t.j = x[4]
        \/ t.op = "factor_block" /\ narrow(t.f, t.k) /\ t.k = x[3] /\ t.k = x[4]
        \/ t.op = "solve_block" /\ narrow(t.f, t.k) /\ t.i = x[3] /\ t.k = x[4]
        \/ /\ t.op \in {"assemble_contrib_subtree", "assemble_contrib_block"}
           /\ x \in Writes[t]}]

(* A contribution is assembled into the parent only when it is whole, and   *)
(* what its memory held before has been overwritten: tiles are not zeroed,  *)
(* the first update multiplies them by 0, and the children of the front     *)
(* add to them after it.                                                    *)
ContribFormed ==
  \A t \in PTask :
    status[t] = "running" =>
      /\ t.op \in {"assemble_block", "assemble_contrib_block"} =>
           val[contrib_block(t.k, t.i, t.j)] = Formed[contrib_block(t.k, t.i, t.j)]
      /\ t.op \in {"assemble_subtree", "assemble_contrib_subtree"} =>
           val[child_contrib(t.k)] = {task("factor_subtree", t.k, 0, 0, 0)}

(* NumericFrontBase::contrib_block asserts (i >= sa) && (j >= sa): no task  *)
(* is given a tile left of the contribution.                                *)
ContribBlocksInBounds ==
  \A t \in PTask :
    status[t] = "running" =>
      \A x \in Inserted(t).RW \cup Inserted(t).R :
        x[1] = "tile" => x[3] >= rsa(x[2]) /\ x[4] >= rsa(x[2])
=============================================================================
