----------------------------- MODULE AptpFront -----------------------------
(***************************************************************************)
(* The factorization of one frontal matrix with a posteriori threshold     *)
(* pivoting: the tasks that factor_front_indef submits on a front of M     *)
(* rows, N of them fully summed, cut in blocks of BlockSize.               *)
(*                                                                         *)
(* A block column is factorized optimistically: its diagonal block is      *)
(* eliminated, the other blocks of its row and column apply the pivots and *)
(* report how many pass the threshold, the column keeps the least number,  *)
(* and what failed is restored from a backup taken before the attempt.     *)
(*                                                                         *)
(* A block is represented by what its uneliminated part contains (the rows *)
(* and columns no pivot was kept in): which block columns' updates, which  *)
(* pivot orders, and whether a failed attempt is still to be undone.  The  *)
(* values of the entries are left out.                                     *)
(*                                                                         *)
(* A definition marked "fault" is the next one of its name with a mistake  *)
(* in it: it is used by nothing here, and shows what a property catches.   *)
(***************************************************************************)
EXTENDS Integers, FiniteSets

CONSTANTS
  M, N,          \* rows and fully summed columns of the front
  BlockSize,     \* options.nb
  FailedTpp,     \* options.failed_pivot_method is tpp
  UseGpu,        \* SPLDLT_USE_GPU: the restores are tasks of their own
  Workers        \* StarPU CPU workers

ASSUME AptpFrontAssumption ==
  /\ M \in Nat \ {0} /\ N \in Nat \ {0} /\ N <= M
  /\ BlockSize \in Nat \ {0}
  /\ FailedTpp \in BOOLEAN /\ UseGpu \in BOOLEAN
  /\ Workers \in Nat \ {0}

VARIABLES
  status,        \* the life of each task, see TaskFlow
  npass,         \* Column::npass_
  nelim,         \* Column::nelim, Unset until the column is factorized
  first_elim,    \* Column::first_elim
  dpos,          \* Column::d, as the first pivot it holds in the front's D
  pairs,         \* the 2x2 pivots in D: offsets in Column::d of their first half
  next_elim,     \* NumericFront::nelim_, the counter every column shares
  blk,           \* the content of the uneliminated part of each block
  bak,           \* the content the backup of each block holds
  tile,          \* the updates each tile of the contribution block contains
  nelim_first_pass, ndelay_out

columnVars == <<npass, nelim, first_elim, dpos, pairs, next_elim>>
blockVars  == <<blk, bak>>
frontVars  == <<nelim_first_pass, ndelay_out>>
vars == <<status, columnVars, blockVars, tile, frontVars>>

-----------------------------------------------------------------------------
(* The blocks of the front.                                                 *)

calc_nblk(n) == (n - 1) \div BlockSize + 1
calc_blkn_NoTail(k, n) == n - k * BlockSize                    \* fault
calc_blkn(k, n) == IF n - k * BlockSize < BlockSize THEN n - k * BlockSize
                                                   ELSE BlockSize
nblk == calc_nblk(N)
mblk == calc_nblk(M)
rsa  == N \div BlockSize      \* first block row of the contribution block

Col  == 0..(nblk - 1)
Row  == 0..(mblk - 1)
ncol(k) == calc_blkn(k, N)
nrow(i) == calc_blkn(i, M)

Block == {b \in Row \X Col : b[2] <= b[1]}
Tile  == IF M > N THEN {b \in (rsa..(mblk - 1)) \X (rsa..(mblk - 1)) : b[2] <= b[1]}
                  ELSE {}

Unset == -1

(* What a tile may hold, beside the updates of the block columns: what its  *)
(* memory held before the front, and the update of the second pass.         *)
Stale == -1
SecondPass == nblk

(***************************************************************************)
(* The tasks, in the order of submission: for each block column k the      *)
(* factorization of its diagonal block, the applications of the pivots to  *)
(* the row and to the column, adjust, with a GPU the restores of the       *)
(* column, the updates to the left, the updates to the right (without a    *)
(* GPU, of block column k itself too, which restores it), and the updates  *)
(* of the contribution block; then the permutation of the failed columns   *)
(* and the second pass.                                                    *)
(***************************************************************************)
Phase == [factor |-> 0, applyT |-> 1, applyN |-> 2, adjust |-> 3, restore |-> 4,
          updateT |-> 5, updateN |-> 6, contrib |-> 7, permute |-> 8, failed |-> 9]

factor(k)        == <<"factor", k, k, k>>
applyT(k, j)     == <<"applyT", k, k, j>>
applyN(k, i)     == <<"applyN", k, i, k>>
adjust(k)        == <<"adjust", k, k, k>>
restore(k, i)    == <<"restore", k, i, k>>
updateT(k, i, j) == <<"updateT", k, i, j>>
updateN(k, i, j) == <<"updateN", k, i, j>>
contrib(k, i, j) == <<"contrib", k, i, j>>
permute          == <<"permute", nblk, 0, 0>>
failed           == <<"failed", nblk, 0, 0>>

FrontTask ==
  UNION {
    {factor(k) : k \in Col},
    {applyT(b[1], b[2]) : b \in {c \in Col \X Col : c[2] < c[1]}},
    {applyN(b[2], b[1]) : b \in {c \in Block : c[2] < c[1]}},
    {adjust(k) : k \in Col},
    {restore(b[2], b[1]) : b \in {c \in Block : UseGpu}},
    {updateT(c[1], c[2][1], c[2][2]) : c \in {d \in Col \X Block : d[2][2] < d[1]}},
    {updateN(c[1], c[2][1], c[2][2]) : 
        c \in {d \in Col \X Block : IF UseGpu THEN d[1] < d[2][2] ELSE d[1] <= d[2][2]}},
    {contrib(c[1], c[2][1], c[2][2]) : c \in Col \X Tile},
    {permute, failed} }

SubmittedBefore(u, t) ==
  \/ u[2] < t[2]
  \/ u[2] = t[2] /\ Phase[u[1]] < Phase[t[1]]
  \/ u[2] = t[2] /\ Phase[u[1]] = Phase[t[1]] /\ u[4] < t[4]
  \/ u[2] = t[2] /\ Phase[u[1]] = Phase[t[1]] /\ u[4] = t[4] /\ u[3] < t[3]

(***************************************************************************)
(* The data handles, and the modes in which each task inserts them.        *)
(***************************************************************************)
A(i, j)  == <<"a", i, j>>           \* Block::get_hdl
Hcol(k)  == <<"col", k, 0>>         \* Column::get_hdl
Hd(k)    == <<"d", k, 0>>           \* Column::get_d_hdl
U(i, j)  == <<"upd", i, j>>         \* Tile::hdl
Hcontrib == <<"contrib", 0, 0>>     \* NumericFront::contrib_hdl

FrontHandle ==
  UNION {{A(b[1], b[2]) : b \in Block}, {Hcol(k) : k \in Col}, {Hd(k) : k \in Col},
         {U(b[1], b[2]) : b \in Tile}, {Hcontrib}}

(* The block L_ik an update to the left reads, stored across the diagonal.  *)
isrc(k, i) == IF k <= i THEN A(i, k) ELSE A(k, i)

insert_factor_block_app(k) ==
  [r |-> {}, rw |-> {A(k, k), Hd(k), Hcol(k)}, c |-> {}]

insert_applyT_block_app(k, j) ==
  [r |-> {A(k, k), Hcol(k)}, rw |-> {A(k, j)}, c |-> {}]

insert_applyN_block_app(k, i) ==
  [r |-> {A(k, k), Hcol(k)}, rw |-> {A(i, k)}, c |-> {}]

insert_adjust_NoColumn(k) == [r |-> {}, rw |-> {}, c |-> {}]   \* fault

insert_adjust(k) == [r |-> {}, rw |-> {Hcol(k)}, c |-> {}]

insert_restore_NoColumn(k, i) ==                               \* fault
  [r |-> {A(k, k)}, rw |-> {A(i, k)}, c |-> {}]

insert_restore_failed_block_app(k, i) ==
  [r |-> {A(k, k), Hcol(k)}, rw |-> {A(i, k)}, c |-> {}]

insert_updateT_block_app(k, i, j) ==
  [r |-> {isrc(k, i), A(k, j), Hcol(k)}, rw |-> {A(i, j)}, c |-> {}]

insert_updateN_NoColumn(k, i, j) ==                            \* fault
  [r |-> {A(i, k), A(j, k), Hd(k)}, rw |-> {}, c |-> {A(i, j)}]

insert_updateN_NoSecondBlock(k, i, j) ==                       \* fault
  [r |-> {A(i, k), Hd(k), Hcol(k)}, rw |-> {}, c |-> {A(i, j)}]

insert_updateN_block_app(k, i, j) ==
  [r |-> {A(i, k), A(j, k), Hd(k), Hcol(k)}, rw |-> {}, c |-> {A(i, j)}]

insert_update_contrib_block_app(k, i, j) ==
  [r |-> {A(i, k), A(j, k), Hd(k), Hcol(nblk - 1), Hcontrib}, rw |-> {}, c |-> {U(i, j)}]

insert_permute_failed == [r |-> {}, rw |-> {Hcol(k) : k \in Col}, c |-> {}]

insert_factor_front_indef_failed ==
  [r |-> {U(b[1], b[2]) : b \in Tile}, rw |-> {Hcol(nblk - 1), Hcontrib}, c |-> {}]

Inserted(t) ==
  CASE t[1] = "factor"  -> insert_factor_block_app(t[2])
    [] t[1] = "applyT"  -> insert_applyT_block_app(t[2], t[4])
    [] t[1] = "applyN"  -> insert_applyN_block_app(t[2], t[3])
    [] t[1] = "adjust"  -> insert_adjust(t[2])
    [] t[1] = "restore" -> insert_restore_failed_block_app(t[2], t[3])
    [] t[1] = "updateT" -> insert_updateT_block_app(t[2], t[3], t[4])
    [] t[1] = "updateN" -> insert_updateN_block_app(t[2], t[3], t[4])
    [] t[1] = "contrib" -> insert_update_contrib_block_app(t[2], t[3], t[4])
    [] t[1] = "permute" -> insert_permute_failed
    [] t[1] = "failed"  -> insert_factor_front_indef_failed

(* A handle named twice by a task is held in the stronger of its modes.     *)
FrontAccess ==
  [t \in FrontTask |-> [h \in FrontHandle |->
     CASE h \in Inserted(t).rw -> "RW"
       [] h \in Inserted(t).c \ Inserted(t).rw -> "C"
       [] h \in Inserted(t).r \ (Inserted(t).rw \cup Inserted(t).c) -> "R"
       [] OTHER -> "none"]]

FrontBefore == {p \in FrontTask \X FrontTask : SubmittedBefore(p[1], p[2])}

Flow == INSTANCE TaskFlow WITH
  Task <- FrontTask, Handle <- FrontHandle, Access <- FrontAccess, Before <- FrontBefore

(* The dependencies and exclusions StarPU derives for the front.            *)
FrontPred == Flow!Pred
FrontExcl == Flow!Excl

-----------------------------------------------------------------------------
(* The content of blocks.                                                   *)

Content == [upd : SUBSET Col,      \* the block columns whose update it contains
            perm : SUBSET Col,     \* the pivot orders its rows and columns are in
            tried : BOOLEAN]       \* it holds pivots that may have to be undone

NoBackup == [upd |-> {}, perm |-> {}, tried |-> TRUE]   \* memory with no copy in it

Permuted(c, k)  == [c EXCEPT !.perm = @ \cup {k}]
Attempted(c)    == [c EXCEPT !.tried = TRUE]
Updated(c, k)   == IF nelim[k] = 0 THEN c ELSE [c EXCEPT !.upd = @ \cup {k}]

restore_if_required_NoRow(k, i, j) ==                          \* fault
  CASE i = k /\ j = k /\ nelim[k] < ncol(k) -> Permuted(bak[<<i, j>>], k)
    [] i # k /\ j = k /\ nelim[k] < ncol(k) -> bak[<<i, j>>]
    [] OTHER -> blk[<<i, j>>]

restore_if_required_NoColumn(k, i, j) ==                       \* fault
  CASE i = k /\ j = k /\ nelim[k] < ncol(k) -> Permuted(bak[<<i, j>>], k)
    [] i = k /\ j # k /\ nelim[k] < nrow(k) -> bak[<<i, j>>]
    [] OTHER -> blk[<<i, j>>]

restore_if_required_NoSymPerm(k, i, j) ==                      \* fault
  IF k \in {i, j} /\ nelim[k] < ncol(k) THEN bak[<<i, j>>] ELSE blk[<<i, j>>]

restore_if_required_OldOrder(k, i, j) ==                       \* fault
  CASE i = k /\ nelim[k] < nrow(k) -> [bak[<<i, j>>] EXCEPT !.perm = @ \ {k}]
    [] i # k /\ j = k /\ nelim[k] < ncol(k) -> bak[<<i, j>>]
    [] OTHER -> blk[<<i, j>>]

(* Block::restore_if_required, in the block row and the block column k that *)
(* has just been eliminated.  The backup of the diagonal block is taken     *)
(* before its pivots are ordered and is put back in their order.            *)
restore_if_required(k, i, j) ==
  CASE i = k /\ j = k /\ nelim[k] < ncol(k) -> Permuted(bak[<<i, j>>], k)
    [] i = k /\ j # k /\ nelim[k] < nrow(k) -> bak[<<i, j>>]
    [] i # k /\ j = k /\ nelim[k] < ncol(k) -> bak[<<i, j>>]
    [] OTHER -> blk[<<i, j>>]

Init ==
  /\ Flow!TaskInit
  /\ npass = [k \in Col |-> 0]
  /\ nelim = [k \in Col |-> Unset]
  /\ first_elim = [k \in Col |-> FALSE]
  /\ dpos = [k \in Col |-> Unset]
  /\ pairs = [k \in Col |-> {}]
  /\ next_elim = 0
  /\ blk = [b \in Block |-> [upd |-> {}, perm |-> {}, tried |-> FALSE]]
  /\ bak = [b \in Block |-> NoBackup]
  /\ tile = [b \in Tile |-> {Stale}]
  /\ nelim_first_pass = 0
  /\ ndelay_out = 0

StartTask(t) ==
  /\ Flow!StartAfter(t, FrontPred[t], FrontExcl[t])
  /\ UNCHANGED <<columnVars, blockVars, tile, frontVars>>

(* The pivots a block can be eliminated with: e of them, some in pairs.     *)
PivotPairs(e) == {p \in SUBSET (0..(e - 2)) : \A x \in p : x + 1 \notin p}

(* Backup, then elimination of the diagonal block: any number of pivots.    *)
(* A SingularError leaves none.                                             *)
FactorBlockApp(k) ==
  /\ Flow!Finish(factor(k))
  /\ \E e \in 0..ncol(k) : \E p \in PivotPairs(e) :
       /\ npass' = [npass EXCEPT ![k] = e]
       /\ nelim' = [nelim EXCEPT ![k] = e]
       /\ pairs' = [pairs EXCEPT ![k] = p]
  /\ dpos' = [dpos EXCEPT ![k] = next_elim]
  /\ bak' = [bak EXCEPT ![<<k, k>>] = blk[<<k, k>>]]
  /\ blk' = [blk EXCEPT ![<<k, k>>] = Attempted(Permuted(@, k))]
  /\ UNCHANGED <<first_elim, next_elim, tile, frontVars>>

(* Column::update_passed, under the column's lock. *)
update_passed(k, passed) ==
  npass' = [npass EXCEPT ![k] = IF passed < @ THEN passed ELSE @]

(* Backup in pivot order, then the pivots applied to the block (i, j), of   *)
(* which `passed' satisfy the threshold.                                    *)
ApplyPivot(k, i, j, passed) ==
  /\ bak' = [bak EXCEPT ![<<i, j>>] = Permuted(blk[<<i, j>>], k)]
  /\ blk' = [blk EXCEPT ![<<i, j>>] = Attempted(Permuted(@, k))]
  /\ update_passed(k, passed)
  /\ UNCHANGED <<nelim, first_elim, dpos, pairs, next_elim, tile, frontVars>>

(* A block with all its columns eliminated has no entry left to fail.       *)
ApplyTBlockApp(k, j) ==
  /\ Flow!Finish(applyT(k, j))
  /\ \E passed \in 0..nelim[k] :
       /\ passed < nelim[k] => nelim[j] < ncol(j)
       /\ ApplyPivot(k, k, j, passed)

ApplyNBlockApp_StuckOnNone(k, i) ==                            \* fault
  /\ Flow!Finish(applyN(k, i))
  /\ nelim[k] > 0
  /\ \E passed \in 0..nelim[k] : ApplyPivot(k, i, k, passed)

ApplyNBlockApp(k, i) ==
  /\ Flow!Finish(applyN(k, i))
  /\ \E passed \in 0..nelim[k] : ApplyPivot(k, i, k, passed)

Adjusted_SplitsPairs(k) == npass[k]                             \* fault

(* Column::adjust: the last pivot kept is not the first half of a pair.     *)
Adjusted(k) ==
  IF npass[k] > 0 /\ npass[k] - 1 \in pairs[k] THEN npass[k] - 1 ELSE npass[k]

Adjust_CountsFirst(k) ==                                       \* fault
  /\ Flow!Finish(adjust(k))
  /\ npass' = [npass EXCEPT ![k] = Adjusted(k)]
  /\ first_elim' = [first_elim EXCEPT ![k] = next_elim = 0 /\ Adjusted(k) > 0]
  /\ next_elim' = next_elim + npass[k]
  /\ nelim' = [nelim EXCEPT ![k] = Adjusted(k)]
  /\ UNCHANGED <<dpos, pairs, blockVars, tile, frontVars>>

Adjust(k) ==
  /\ Flow!Finish(adjust(k))
  /\ npass' = [npass EXCEPT ![k] = Adjusted(k)]
  /\ first_elim' = [first_elim EXCEPT ![k] = next_elim = 0 /\ Adjusted(k) > 0]
  /\ next_elim' = next_elim + Adjusted(k)
  /\ nelim' = [nelim EXCEPT ![k] = Adjusted(k)]
  /\ UNCHANGED <<dpos, pairs, blockVars, tile, frontVars>>

UpdateBlock(k, i, j) ==
  /\ blk' = [blk EXCEPT ![<<i, j>>] = Updated(restore_if_required(k, i, j), k)]
  /\ UNCHANGED <<columnVars, bak, tile, frontVars>>

RestoreFailedBlockApp(k, i) == Flow!Finish(restore(k, i)) /\ UpdateBlock(k, i, k)

UpdateTBlockApp(k, i, j) == Flow!Finish(updateT(k, i, j)) /\ UpdateBlock(k, i, j)
UpdateNBlockApp(k, i, j) == Flow!Finish(updateN(k, i, j)) /\ UpdateBlock(k, i, j)

update_contrib_block_NoBeta(held, from, zero_upd) == held \cup {from}   \* fault

(* update_contrib_block: the update replaces what the tile holds if         *)
(* zero_upd, and is added to it otherwise.                                  *)
update_contrib_block(held, from, zero_upd) ==
  IF zero_upd THEN {from} ELSE held \cup {from}

UpdateContribBlockApp(k, i, j) ==
  /\ Flow!Finish(contrib(k, i, j))
  /\ tile' = IF nelim[k] <= 0 THEN tile
             ELSE [tile EXCEPT ![<<i, j>>] = update_contrib_block(@, k, first_elim[k])]
  /\ UNCHANGED <<columnVars, blockVars, frontVars>>

(* The backups are released before the failed columns are moved behind the  *)
(* eliminated ones.                                                         *)
PermuteFailed ==
  /\ Flow!Finish(permute)
  /\ bak' = IF next_elim < N THEN [b \in Block |-> NoBackup] ELSE bak
  /\ UNCHANGED <<columnVars, blk, tile, frontVars>>

(* zero_contrib_blocks: its loop runs over 0..ncontrib-1 but contrib_block  *)
(* counts tiles from rsa: it reaches the tiles only when rsa is 0.          *)
zero_contrib_blocks(tl) ==
  [b \in Tile |-> IF b \in {c \in (0..(mblk - rsa - 1)) \X (0..(mblk - rsa - 1)) : c[2] <= c[1]}
                  THEN {} ELSE tl[b]]

(* factor_front_indef_failed: the second pass.                              *)
FactorFrontIndefFailed ==
  /\ Flow!Finish(failed)
  /\ nelim_first_pass' = next_elim
  /\ \E added \in 0..(N - next_elim) :
       /\ added > 0 => M = N \/ FailedTpp
       /\ next_elim' = next_elim + added
       /\ tile' =
            IF next_elim' = 0 THEN zero_contrib_blocks(tile)
            ELSE IF added = 0 THEN tile
            ELSE [b \in Tile |-> update_contrib_block(tile[b], SecondPass, next_elim = 0)]
  /\ ndelay_out' = N - next_elim'
  /\ UNCHANGED <<npass, nelim, first_elim, dpos, pairs, blockVars>>

Terminated == Flow!AllDone /\ UNCHANGED vars

FinishTask ==
  \/ \E k \in Col : FactorBlockApp(k)
  \/ \E k \in Col, j \in Col : j < k /\ ApplyTBlockApp(k, j)
  \/ \E k \in Col, i \in Row : k < i /\ ApplyNBlockApp(k, i)
  \/ \E k \in Col : Adjust(k)
  \/ \E k \in Col, i \in Row : UseGpu /\ k <= i /\ RestoreFailedBlockApp(k, i)
  \/ \E k \in Col, b \in Block : b[2] < k /\ UpdateTBlockApp(k, b[1], b[2])
  \/ \E k \in Col, b \in Block : updateN(k, b[1], b[2]) \in FrontTask /\ UpdateNBlockApp(k, b[1], b[2])
  \/ \E k \in Col, b \in Tile : UpdateContribBlockApp(k, b[1], b[2])
  \/ PermuteFailed
  \/ FactorFrontIndefFailed

Next == (\E t \in FrontTask : StartTask(t)) \/ FinishTask \/ Terminated

Fairness == WF_vars(\E t \in FrontTask : StartTask(t)) /\ WF_vars(FinishTask)

Spec == Init /\ [][Next]_vars /\ Fairness
-----------------------------------------------------------------------------
(***************************************************************************)
(* The memory each task reads and writes, handle or no handle; a task that *)
(* returns early, or has nothing to restore, touches less.  npass_ counts  *)
(* as read by the tasks that update it under its lock.  The pivots of all  *)
(* block columns are in one array D, which is taken place by place: where  *)
(* a column has its own follows from the counter next_elim.                *)
(***************************************************************************)
Bak(i, j) == <<"bak", i, j>>
Cnelim(k) == <<"nelim", k, 0>>
Cnpass(k) == <<"npass", k, 0>>
Cfirst(k) == <<"first_elim", k, 0>>
Cd(k)     == <<"d_ptr", k, 0>>      \* Column::d, the pointer
Lperm(k)  == <<"lperm", k, 0>>
Cperm(k)  == <<"perm", k, 0>>       \* the entries of block column k in the front's perm
Dplace(p) == <<"place", p, 0>>      \* D of the p-th pivot of the front
Counter   == <<"next_elim", 0, 0>>

(* The counts that bound the uneliminated part of block (i, j) at column k. *)
Bounds(k, i, j) == {Cnelim(x) : x \in {y \in {i, j, k} : y <= k}}

(* The first n pivots of block column k, reached through its pointer.       *)
Pivots(k, n) == {Cd(k)} \cup {Dplace(dpos[k] + x) : x \in 0..(n - 1)}

reads(t) ==
  LET k == t[2]  i == t[3]  j == t[4]
  IN CASE t[1] = "factor"  -> {Counter}
       [] t[1] = "applyT"  -> {A(k, k), Lperm(k), Cnelim(k), Cnelim(j), Cnpass(k)} \cup Pivots(k, nelim[k])
       [] t[1] = "applyN"  -> {A(k, k), Lperm(k), Cnelim(k), Cnpass(k)} \cup Pivots(k, nelim[k])
       [] t[1] = "adjust"  -> Pivots(k, npass[k])
       [] t[1] = "restore" -> {A(k, k), Bak(i, j), Lperm(k)} \cup Bounds(k, i, j) \cup Pivots(k, nelim[k])
       [] t[1] = "updateT" -> {isrc(k, i), A(k, j), Bak(i, j)} \cup Bounds(k, i, j) \cup Pivots(k, nelim[k])
       [] t[1] = "updateN" -> {A(i, k), A(j, k), Bak(i, j), Lperm(k)} \cup Bounds(k, i, j) \cup Pivots(k, nelim[k])
       [] t[1] = "contrib" -> {A(i, k), A(j, k), Cnelim(k), Cfirst(k)} \cup Pivots(k, nelim[k])
       [] t[1] = "permute" -> {Counter} \cup {Cnelim(x) : x \in Col}
       [] t[1] = "failed"  -> {A(b[1], b[2]) : b \in Block}

writes(t) ==
  LET k == t[2]  i == t[3]  j == t[4]
  IN CASE t[1] = "factor"  -> {A(k, k), Bak(k, k), Lperm(k), Cperm(k), Cnelim(k), Cnpass(k), Cd(k)}
                                \cup {Dplace(next_elim + x) : x \in 0..(ncol(k) - 1)}
       [] t[1] \in {"applyT", "applyN"} -> {A(i, j), Bak(i, j)}
       [] t[1] = "adjust"  -> {Cnelim(k), Cnpass(k), Cfirst(k), Counter}
       [] t[1] \in {"restore", "updateT", "updateN"} -> {A(i, j)}
       [] t[1] = "contrib" -> {U(i, j)}
       [] t[1] = "permute" -> {A(b[1], b[2]) : b \in Block} \cup {Bak(b[1], b[2]) : b \in Block}
                                \cup {Cperm(x) : x \in Col}
       [] t[1] = "failed"  -> {Counter} \cup {A(b[1], b[2]) : b \in Block}
                                \cup {U(b[1], b[2]) : b \in Tile} \cup {Cperm(x) : x \in Col}
                                \cup {Dplace(p) : p \in next_elim..(N - 1)}

running == {t \in FrontTask : status[t] = "running"}

-----------------------------------------------------------------------------
(* Types, and the shape of the counters.                                    *)
TypeOK ==
  /\ status \in [FrontTask -> {"waiting", "running", "done"}]
  /\ npass \in [Col -> 0..BlockSize]
  /\ nelim \in [Col -> Unset..BlockSize]
  /\ first_elim \in [Col -> BOOLEAN]
  /\ dpos \in [Col -> Int]
  /\ pairs \in [Col -> SUBSET (0..BlockSize)]
  /\ next_elim \in Int
  /\ blk \in [Block -> Content]
  /\ bak \in [Block -> Content]
  /\ tile \in [Tile -> SUBSET (Col \cup {Stale, SecondPass})]
  /\ nelim_first_pass \in Int
  /\ ndelay_out \in Int

(* The declared handles order every access to what has no handle at all, or *)
(* is used without it: the shared counter next_elim, the counts of other    *)
(* block columns, their pointers to D, the permutations and the backups;    *)
(* and the pivots, which apply, adjust, restore and updateT tasks read      *)
(* without d_hdl while a later block column writes the places behind them.  *)
(* No two tasks at work touch the same memory unless both read it.          *)
NoDataRace ==
  \A t, u \in running :
    t # u => writes(t) \cap (reads(u) \cup writes(u)) = {}

(* An apply of block column k reads the count its factorization has set;    *)
(* any other reader of a count reads it adjusted.                           *)
CountsReadInTime ==
  \A t \in running : \A x \in Col :
    Cnelim(x) \in reads(t) =>
      IF t[1] \in {"applyT", "applyN"} /\ t[2] = x
      THEN status[factor(x)] = "done" /\ status[adjust(x)] = "waiting"
      ELSE status[adjust(x)] = "done"

Eliminated(k) == {x \in 0..(k - 1) : nelim[x] > 0}

(* What rows and columns of block (i, j) are left before block column k.    *)
LeftOver(k, i, j) ==
  /\ i < k => nelim[i] < nrow(i)
  /\ j < k => nelim[j] < ncol(j)

InOrder(k, i, j) == [upd |-> Eliminated(k), perm |-> {i, j} \cap (0..(k - 1)), tried |-> FALSE]

(* Pivots are tried only on a block in which every failed attempt has been  *)
(* undone and every earlier update is present exactly once: no restore has  *)
(* brought back a copy older than an update.                                *)
AttemptsSeeAllUpdates ==
  \A t \in running :
    t[1] \in {"factor", "applyT", "applyN"} /\ LeftOver(t[2], t[3], t[4]) =>
      blk[<<t[3], t[4]>>] = InOrder(t[2], t[3], t[4])

(* An update multiplies rows that are in the same pivot order as the rows   *)
(* of the block it changes.                                                 *)
UpdatesAlignRows ==
  \A t \in running :
    LET k == t[2]  i == t[3]  j == t[4]
        same(x, b, c) == x \in blk[b].perm <=> x \in blk[c].perm
    IN t[1] \in {"updateT", "updateN"} /\ i # k /\ j # k =>
         /\ same(i, IF k <= i THEN <<i, k>> ELSE <<k, i>>, <<i, j>>)
         /\ same(j, IF k <= j THEN <<j, k>> ELSE <<k, j>>, <<i, j>>)

(* Once the failed columns are moved, every block with something left in it *)
(* has exactly the updates of the columns with eliminations, in the final   *)
(* pivot order, with nothing tried left in it.                              *)
FailedColumnsUpToDate ==
  status[permute] # "waiting" =>
    \A b \in Block : LeftOver(nblk, b[1], b[2]) => blk[b] = InOrder(nblk, b[1], b[2])

(* The pivots of the block columns follow one another in D without a gap,   *)
(* although the counter that places them has no handle.                     *)
PivotsContiguous ==
  /\ \A k \in Col :
       status[factor(k)] = "done" =>
         dpos[k] = IF k = 0 THEN 0 ELSE dpos[k - 1] + nelim[k - 1]
  /\ status[adjust(nblk - 1)] = "done" /\ status[failed] # "done" =>
       next_elim = dpos[nblk - 1] + nelim[nblk - 1]

(* The pivots a column keeps end with a 1x1 pivot or with the second half   *)
(* of a 2x2 one, whatever blocks failed and in whatever order they report.  *)
NoPairSplit ==
  \A k \in Col : status[adjust(k)] = "done" => nelim[k] - 1 \notin pairs[k]

(* A tile ends with the updates of all the columns eliminated, in either    *)
(* pass, and of nothing else.                                               *)
ContribFormed ==
  status[failed] = "done" /\ next_elim > 0 =>
    \A b \in Tile :
      tile[b] = Eliminated(nblk) \cup (IF next_elim > nelim_first_pass THEN {SecondPass} ELSE {})

(* A front with no elimination passes a zero contribution block on.         *)
ContribZeroed ==
  status[failed] = "done" /\ next_elim = 0 => \A b \in Tile : tile[b] = {}

(* A count, once adjusted, never changes: the readers that hold no handle   *)
(* on it see one value.                                                     *)
CountsSettle ==
  [][\A k \in Col : status[adjust(k)] = "done" =>
       nelim'[k] = nelim[k] /\ first_elim'[k] = first_elim[k]]_vars

(* The front is factorized: no schedule of the tasks is stuck.              *)
FrontFactored == <>(\A t \in FrontTask : status[t] = "done")
=============================================================================
