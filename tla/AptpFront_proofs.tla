-------------------------- MODULE AptpFront_proofs --------------------------
(***************************************************************************)
(* What holds of the factorization of a front of any size, cut in blocks   *)
(* of any size, on any number of workers, in either build.                 *)
(***************************************************************************)
EXTENDS AptpFront, TLAPS

Life == {"waiting", "running", "done"}

(* A task that has started has all the tasks it depends on behind it.       *)
FrontOrder ==
  \A t \in FrontTask : status[t] # "waiting" => \A u \in FrontPred[t] : status[u] = "done"

FlowOK == status \in [FrontTask -> Life] /\ FrontOrder

-----------------------------------------------------------------------------
(* The tasks of a block column are tasks of the front.                      *)
LEMMA ColumnTasks ==
  ASSUME NEW k \in Col
  PROVE  factor(k) \in FrontTask /\ adjust(k) \in FrontTask
  BY DEF FrontTask

(* The adjustment of a block column depends on its factorization, through   *)
(* the handle of the column.                                                *)
LEMMA AdjustAfterFactor ==
  ASSUME NEW k \in Col
  PROVE  factor(k) \in FrontPred[adjust(k)]
<1>1. factor(k) \in FrontTask /\ adjust(k) \in FrontTask
  BY ColumnTasks
<1>2. Hcol(k) \in FrontHandle
  BY DEF FrontHandle
<1>3. Hcol(k) \in Inserted(factor(k)).rw
  BY DEF Inserted, factor, insert_factor_block_app
<1>4. Hcol(k) \in Inserted(adjust(k)).rw
  BY DEF Inserted, adjust, insert_adjust
<1>5. /\ FrontAccess[factor(k)][Hcol(k)] = "RW"
      /\ FrontAccess[adjust(k)][Hcol(k)] = "RW"
  BY <1>1, <1>2, <1>3, <1>4 DEF FrontAccess
<1>6. Flow!Conflict(factor(k), adjust(k))
  BY <1>2, <1>5 DEF Flow!Conflict, Flow!Clash
<1>7. <<factor(k), adjust(k)>> \in FrontBefore
  BY <1>1 DEF FrontBefore, SubmittedBefore, factor, adjust, Phase
<1> QED BY <1>1, <1>6, <1>7 DEF FrontPred, Flow!Pred, Flow!MustPrecede

-----------------------------------------------------------------------------
(* Every step of the front starts a task, ends a task, or leaves the tasks  *)
(* as they are.                                                             *)
LEMMA StepOfOneTask ==
  ASSUME [Next]_vars
  PROVE  \/ \E t \in FrontTask : Flow!StartAfter(t, FrontPred[t], FrontExcl[t])
         \/ \E t : Flow!Finish(t)
         \/ status' = status
  BY DEF Next, StartTask, FinishTask, FactorBlockApp, ApplyTBlockApp, ApplyNBlockApp, Adjust,
         RestoreFailedBlockApp, UpdateTBlockApp, UpdateNBlockApp, UpdateContribBlockApp,
         PermuteFailed, FactorFrontIndefFailed, Terminated, vars

LEMMA FlowPreserved ==
  ASSUME FlowOK, [Next]_vars
  PROVE  FlowOK'
<1>1. ASSUME NEW t \in FrontTask, Flow!StartAfter(t, FrontPred[t], FrontExcl[t])
      PROVE  FlowOK'
  BY <1>1 DEF FlowOK, FrontOrder, Life, Flow!StartAfter, FrontPred, Flow!Pred
<1>2. ASSUME NEW t, Flow!Finish(t)
      PROVE  FlowOK'
  BY <1>2 DEF FlowOK, FrontOrder, Life, Flow!Finish, FrontPred, Flow!Pred
<1>3. CASE status' = status
  BY <1>3 DEF FlowOK, FrontOrder, FrontPred, Flow!Pred
<1> QED BY <1>1, <1>2, <1>3, StepOfOneTask

THEOREM FrontFlow == Spec => []FlowOK
<1>1. Init => FlowOK
  BY DEF Init, Flow!TaskInit, FlowOK, FrontOrder, Life
<1> QED BY <1>1, FlowPreserved, PTL DEF Spec

-----------------------------------------------------------------------------
(* A count that has been adjusted is written by no task any more: only the  *)
(* factorization and the adjustment of the column write it, and both are    *)
(* behind.                                                                  *)
LEMMA SettledStays ==
  ASSUME FlowOK, [Next]_vars,
         nelim \in [Col -> Int], first_elim \in [Col -> BOOLEAN],
         NEW k \in Col, status[adjust(k)] = "done"
  PROVE  nelim'[k] = nelim[k] /\ first_elim'[k] = first_elim[k]
<1>1. status[factor(k)] = "done"
  BY ColumnTasks, AdjustAfterFactor DEF FlowOK, FrontOrder
<1>2. ASSUME NEW x \in Col, FactorBlockApp(x)
      PROVE  nelim'[k] = nelim[k] /\ first_elim'[k] = first_elim[k]
  BY <1>1, <1>2 DEF FactorBlockApp, Flow!Finish
<1>3. ASSUME NEW x \in Col, Adjust(x)
      PROVE  nelim'[k] = nelim[k] /\ first_elim'[k] = first_elim[k]
  BY <1>3 DEF Adjust, Flow!Finish
<1>4. ASSUME ~ (\E x \in Col : FactorBlockApp(x)), ~ (\E x \in Col : Adjust(x))
      PROVE  nelim' = nelim /\ first_elim' = first_elim
  BY <1>4 DEF Next, StartTask, FinishTask, ApplyTBlockApp, ApplyNBlockApp, ApplyPivot, UpdateBlock,
              RestoreFailedBlockApp, UpdateTBlockApp, UpdateNBlockApp, UpdateContribBlockApp,
              PermuteFailed, FactorFrontIndefFailed, Terminated, vars, columnVars
<1> QED BY <1>2, <1>3, <1>4

-----------------------------------------------------------------------------
(* Types.                                                                   *)

LEMMA BlockSizes ==
  ASSUME NEW k \in Int, NEW n \in Nat
  PROVE  calc_blkn(k, n) \in Int /\ calc_blkn(k, n) <= BlockSize
  BY AptpFrontAssumption DEF calc_blkn

LEMMA ColumnNumbers ==
  /\ nblk \in Int
  /\ Col \subseteq Int
  /\ \A k \in Col : ncol(k) \in Int /\ ncol(k) <= BlockSize
<1>1. nblk \in Int
  BY AptpFrontAssumption DEF nblk, calc_nblk
<1>2. Col \subseteq Int
  BY <1>1 DEF Col
<1> QED BY <1>1, <1>2, BlockSizes, AptpFrontAssumption DEF ncol

(* What a task does to the content of a block keeps it a content.           *)
LEMMA ContentClosed ==
  ASSUME NEW c \in Content, NEW k \in Col
  PROVE  /\ Permuted(c, k) \in Content
         /\ Attempted(c) \in Content
         /\ Updated(c, k) \in Content
  BY DEF Content, Permuted, Attempted, Updated

LEMMA RestoredContent ==
  ASSUME TypeOK, NEW k \in Col, NEW i, NEW j, <<i, j>> \in Block
  PROVE  restore_if_required(k, i, j) \in Content
<1>1. blk[<<i, j>>] \in Content /\ bak[<<i, j>>] \in Content
  BY DEF TypeOK
<1>2. Permuted(bak[<<i, j>>], k) \in Content
  BY <1>1, ContentClosed
<1>3. CASE i = k /\ j = k /\ nelim[k] < ncol(k)
  BY <1>2, <1>3 DEF restore_if_required
<1>4. CASE i = k /\ j # k /\ nelim[k] < nrow(k)
  BY <1>1, <1>4 DEF restore_if_required
<1>5. CASE i # k /\ j = k /\ nelim[k] < ncol(k)
  BY <1>1, <1>5 DEF restore_if_required
<1>6. CASE ~ (i = k /\ j = k /\ nelim[k] < ncol(k)) /\ ~ (i = k /\ j # k /\ nelim[k] < nrow(k))
           /\ ~ (i # k /\ j = k /\ nelim[k] < ncol(k))
  BY <1>1, <1>6 DEF restore_if_required
<1> QED BY <1>3, <1>4, <1>5, <1>6

(* A function keeps its range when a value of the range is put in it.       *)
LEMMA PutInRange ==
  ASSUME NEW S, NEW T, NEW f \in [S -> T], NEW x, NEW v, x \in S => v \in T
  PROVE  [f EXCEPT ![x] = v] \in [S -> T]
  OBVIOUS

(* The counters of a column.                                                *)
CountsOK ==
  /\ npass \in [Col -> 0..BlockSize]
  /\ nelim \in [Col -> Unset..BlockSize]
  /\ first_elim \in [Col -> BOOLEAN]
  /\ dpos \in [Col -> Int]
  /\ pairs \in [Col -> SUBSET (0..BlockSize)]
  /\ next_elim \in Int

LEMMA FactorCounts ==
  ASSUME CountsOK, NEW k \in Col, FactorBlockApp(k)
  PROVE  CountsOK'
<1>a. PICK e \in 0..ncol(k) : \E p \in PivotPairs(e) :
         /\ npass' = [npass EXCEPT ![k] = e]
         /\ nelim' = [nelim EXCEPT ![k] = e]
         /\ pairs' = [pairs EXCEPT ![k] = p]
  BY DEF FactorBlockApp
<1>b. PICK p \in PivotPairs(e) :
         /\ npass' = [npass EXCEPT ![k] = e]
         /\ nelim' = [nelim EXCEPT ![k] = e]
         /\ pairs' = [pairs EXCEPT ![k] = p]
  BY <1>a
<1>1. e \in 0..BlockSize
  BY ColumnNumbers, AptpFrontAssumption
<1>2. p \subseteq 0..BlockSize
  BY <1>1, AptpFrontAssumption DEF PivotPairs
<1>3. e \in Unset..BlockSize
  BY <1>1 DEF Unset
<1>4. /\ dpos' = [dpos EXCEPT ![k] = next_elim]
      /\ first_elim' = first_elim /\ next_elim' = next_elim
  BY DEF FactorBlockApp
<1> QED BY <1>b, <1>1, <1>2, <1>3, <1>4 DEF CountsOK

LEMMA ApplyCounts ==
  ASSUME CountsOK, NEW k \in Col, NEW i, NEW j,
         NEW passed \in 0..nelim[k], ApplyPivot(k, i, j, passed)
  PROVE  CountsOK'
<1>1. passed \in 0..BlockSize
  BY AptpFrontAssumption DEF CountsOK, Unset
<1>2. npass'  = [npass EXCEPT ![k] = IF passed < @ THEN passed ELSE @]
  BY DEF ApplyPivot, update_passed
<1>3. npass' \in [Col -> 0..BlockSize]
  BY <1>1, <1>2 DEF CountsOK
<1> QED BY <1>3 DEF CountsOK, ApplyPivot

LEMMA AdjustCounts ==
  ASSUME CountsOK, NEW k \in Col, Adjust(k)
  PROVE  CountsOK'
<1>1. Adjusted(k) \in 0..BlockSize
  BY AptpFrontAssumption DEF CountsOK, Adjusted
<1>2. Adjusted(k) \in Unset..BlockSize
  BY <1>1 DEF Unset
<1> QED BY <1>1, <1>2 DEF CountsOK, Adjust

(* Every step keeps the type of the counters.                               *)
LEMMA CountsPreserved ==
  ASSUME CountsOK, [Next]_vars
  PROVE  CountsOK'
<1>1. ASSUME NEW k \in Col, FactorBlockApp(k)
      PROVE  CountsOK'
  BY <1>1, FactorCounts
<1>2. ASSUME NEW k \in Col, NEW j \in Col, ApplyTBlockApp(k, j)
      PROVE  CountsOK'
  BY <1>2, ApplyCounts DEF ApplyTBlockApp
<1>3. ASSUME NEW k \in Col, NEW i \in Row, ApplyNBlockApp(k, i)
      PROVE  CountsOK'
  BY <1>3, ApplyCounts DEF ApplyNBlockApp
<1>4. ASSUME NEW k \in Col, Adjust(k)
      PROVE  CountsOK'
  BY <1>4, AdjustCounts
<1>5. CASE FactorFrontIndefFailed
  BY <1>5, AptpFrontAssumption DEF FactorFrontIndefFailed, CountsOK
<1>6. ASSUME ~ FactorFrontIndefFailed,
             ~ \E k \in Col : FactorBlockApp(k),
             ~ \E k \in Col, j \in Col : ApplyTBlockApp(k, j),
             ~ \E k \in Col, i \in Row : ApplyNBlockApp(k, i),
             ~ \E k \in Col : Adjust(k)
      PROVE  UNCHANGED columnVars
  BY <1>6 DEF Next, StartTask, FinishTask, UpdateBlock, RestoreFailedBlockApp, UpdateTBlockApp,
              UpdateNBlockApp, UpdateContribBlockApp, PermuteFailed, Terminated, vars
<1>7. CASE UNCHANGED columnVars
  BY <1>7 DEF columnVars, CountsOK
<1> QED BY <1>1, <1>2, <1>3, <1>4, <1>5, <1>6, <1>7

(* The contents of blocks and tiles, and the counts of the front.           *)
BlocksOK == blk \in [Block -> Content] /\ bak \in [Block -> Content]

ContribOK ==
  /\ tile \in [Tile -> SUBSET (Col \cup {Stale, SecondPass})]
  /\ nelim_first_pass \in Int
  /\ ndelay_out \in Int

LEMMA TypeParts == TypeOK <=> status \in [FrontTask -> Life] /\ CountsOK /\ BlocksOK /\ ContribOK
  BY DEF TypeOK, CountsOK, BlocksOK, ContribOK, Life

(* A block after an attempt on it, and its backup.                          *)
LEMMA ApplyBlocks ==
  ASSUME BlocksOK, NEW k \in Col, NEW i, NEW j, NEW passed, ApplyPivot(k, i, j, passed)
  PROVE  BlocksOK'
<1>1. ASSUME <<i, j>> \in Block
      PROVE  /\ Permuted(blk[<<i, j>>], k) \in Content
             /\ Attempted(Permuted(blk[<<i, j>>], k)) \in Content
  BY <1>1, ContentClosed DEF BlocksOK
<1>2. bak' \in [Block -> Content]
  BY <1>1, PutInRange DEF BlocksOK, ApplyPivot
<1>3. blk' \in [Block -> Content]
  BY <1>1 DEF BlocksOK, ApplyPivot
<1> QED BY <1>2, <1>3 DEF BlocksOK

LEMMA FactorBlocks ==
  ASSUME BlocksOK, NEW k \in Col, FactorBlockApp(k)
  PROVE  BlocksOK'
<1>1. ASSUME <<k, k>> \in Block
      PROVE  Attempted(Permuted(blk[<<k, k>>], k)) \in Content
  BY <1>1, ContentClosed DEF BlocksOK
<1>2. bak' \in [Block -> Content]
  BY PutInRange DEF BlocksOK, FactorBlockApp
<1>3. blk' \in [Block -> Content]
  BY <1>1 DEF BlocksOK, FactorBlockApp
<1> QED BY <1>2, <1>3 DEF BlocksOK

LEMMA UpdateBlocks ==
  ASSUME TypeOK, NEW k \in Col, NEW i, NEW j, UpdateBlock(k, i, j)
  PROVE  BlocksOK'
<1>1. ASSUME <<i, j>> \in Block
      PROVE  Updated(restore_if_required(k, i, j), k) \in Content
  BY <1>1, RestoredContent, ContentClosed
<1>2. blk' \in [Block -> Content]
  BY <1>1 DEF UpdateBlock, TypeOK
<1> QED BY <1>2 DEF UpdateBlock, BlocksOK, TypeOK

LEMMA BlocksPreserved ==
  ASSUME TypeOK, [Next]_vars
  PROVE  BlocksOK'
<1> BlocksOK
  BY TypeParts
<1>1. ASSUME NEW k \in Col, FactorBlockApp(k)
      PROVE  BlocksOK'
  BY <1>1, FactorBlocks
<1>2. ASSUME NEW k \in Col, NEW j \in Col, ApplyTBlockApp(k, j)
      PROVE  BlocksOK'
  BY <1>2, ApplyBlocks DEF ApplyTBlockApp
<1>3. ASSUME NEW k \in Col, NEW i \in Row, ApplyNBlockApp(k, i)
      PROVE  BlocksOK'
  BY <1>3, ApplyBlocks DEF ApplyNBlockApp
<1>4. ASSUME NEW k \in Col, NEW i, NEW j, UpdateBlock(k, i, j)
      PROVE  BlocksOK'
  BY <1>4, UpdateBlocks
<1>5. CASE PermuteFailed
  BY <1>5 DEF PermuteFailed, BlocksOK, NoBackup, Content
<1>6. ASSUME ~ PermuteFailed,
             ~ \E k \in Col : FactorBlockApp(k),
             ~ \E k \in Col, j \in Col : ApplyTBlockApp(k, j),
             ~ \E k \in Col, i \in Row : ApplyNBlockApp(k, i),
             ~ \E k \in Col : \E i, j : UpdateBlock(k, i, j)
      PROVE  UNCHANGED blockVars
  <2>1. ~ \E k \in Col, i \in Row : RestoreFailedBlockApp(k, i)
    BY <1>6 DEF RestoreFailedBlockApp
  <2>2. ~ \E k \in Col, b \in Block : UpdateTBlockApp(k, b[1], b[2]) \/ UpdateNBlockApp(k, b[1], b[2])
    BY <1>6 DEF UpdateTBlockApp, UpdateNBlockApp
  <2> QED BY <1>6, <2>1, <2>2
          DEF Next, StartTask, FinishTask, Adjust, UpdateContribBlockApp, FactorFrontIndefFailed,
              Terminated, vars
<1>7. CASE UNCHANGED blockVars
  BY <1>7 DEF blockVars, BlocksOK
<1> QED BY <1>1, <1>2, <1>3, <1>4, <1>5, <1>6, <1>7

LEMMA ContribPreserved ==
  ASSUME TypeOK, [Next]_vars
  PROVE  ContribOK'
<1> ContribOK /\ CountsOK
  BY TypeParts
<1>1. ASSUME NEW k \in Col, NEW b \in Tile, UpdateContribBlockApp(k, b[1], b[2])
      PROVE  ContribOK'
  <2>1. \A t \in SUBSET (Col \cup {Stale, SecondPass}) :
          update_contrib_block(t, k, first_elim[k]) \in SUBSET (Col \cup {Stale, SecondPass})
    BY DEF update_contrib_block
  <2>2. tile' \in [Tile -> SUBSET (Col \cup {Stale, SecondPass})]
    BY <1>1, <2>1 DEF UpdateContribBlockApp, ContribOK
  <2> QED BY <1>1, <2>2 DEF UpdateContribBlockApp, ContribOK, frontVars
<1>2. CASE FactorFrontIndefFailed
  <2>1. zero_contrib_blocks(tile) \in [Tile -> SUBSET (Col \cup {Stale, SecondPass})]
    BY DEF zero_contrib_blocks, ContribOK
  <2>2. \A z \in BOOLEAN :
          [b \in Tile |-> update_contrib_block(tile[b], SecondPass, z)]
            \in [Tile -> SUBSET (Col \cup {Stale, SecondPass})]
    BY DEF update_contrib_block, ContribOK
  <2>3. tile' \in [Tile -> SUBSET (Col \cup {Stale, SecondPass})]
    BY <1>2, <2>1, <2>2 DEF FactorFrontIndefFailed, ContribOK
  <2>4. nelim_first_pass' \in Int /\ ndelay_out' \in Int
    BY <1>2, AptpFrontAssumption DEF FactorFrontIndefFailed, CountsOK
  <2> QED BY <2>3, <2>4 DEF ContribOK
<1>3. ASSUME ~ FactorFrontIndefFailed,
             ~ \E k \in Col, b \in Tile : UpdateContribBlockApp(k, b[1], b[2])
      PROVE  UNCHANGED <<tile, frontVars>>
  BY <1>3 DEF Next, StartTask, FinishTask, FactorBlockApp, ApplyTBlockApp, ApplyNBlockApp, ApplyPivot,
              Adjust, UpdateBlock, RestoreFailedBlockApp, UpdateTBlockApp, UpdateNBlockApp,
              PermuteFailed, Terminated, vars
<1>4. CASE UNCHANGED <<tile, frontVars>>
  BY <1>4 DEF frontVars, ContribOK
<1> QED BY <1>1, <1>2, <1>3, <1>4

(* Every variable keeps its type, for every size of front and of block: a   *)
(* column never counts more pivots than a block has.                        *)
THEOREM FrontTypes == Spec => []TypeOK
<1>1. Init => TypeOK /\ FlowOK
  <2> SUFFICES ASSUME Init PROVE TypeOK /\ FlowOK
    OBVIOUS
  <2>1. status \in [FrontTask -> Life] /\ FlowOK
    BY DEF Init, Flow!TaskInit, FlowOK, FrontOrder, Life
  <2>2. CountsOK
    BY AptpFrontAssumption DEF Init, CountsOK, Unset
  <2>3. BlocksOK
    BY DEF Init, BlocksOK, NoBackup, Content
  <2>4. ContribOK
    BY DEF Init, ContribOK
  <2> QED BY <2>1, <2>2, <2>3, <2>4, TypeParts
<1>2. TypeOK /\ FlowOK /\ [Next]_vars => TypeOK' /\ FlowOK'
  <2> SUFFICES ASSUME TypeOK, FlowOK, [Next]_vars PROVE TypeOK' /\ FlowOK'
    OBVIOUS
  <2>1. FlowOK' /\ CountsOK' /\ BlocksOK' /\ ContribOK'
    BY FlowPreserved, CountsPreserved, BlocksPreserved, ContribPreserved, TypeParts
  <2>2. status' \in [FrontTask -> Life]
    BY <2>1 DEF FlowOK
  <2> QED BY <2>1, <2>2 DEF TypeOK, CountsOK, BlocksOK, ContribOK, Life
<1> QED BY <1>1, <1>2, PTL DEF Spec

(* Column::adjust writes the counts of a block column once and for all: the *)
(* tasks of other columns, which read them with no handle, see one value.   *)
THEOREM FrontCountsSettle == Spec => CountsSettle
<1>1. TypeOK /\ FlowOK /\ [Next]_vars =>
        [\A k \in Col : status[adjust(k)] = "done" =>
           nelim'[k] = nelim[k] /\ first_elim'[k] = first_elim[k]]_vars
  BY SettledStays DEF TypeOK
<1> QED BY <1>1, FrontTypes, FrontFlow, PTL DEF Spec, CountsSettle

-----------------------------------------------------------------------------
(* No pivot is the second half of one pair and the first half of another.   *)
PairsApart == \A k \in Col : \A x \in pairs[k] : x + 1 \notin pairs[k]

PairsInv == PairsApart /\ NoPairSplit

(* The adjusted count of a column leaves both halves of each pair on one    *)
(* side.                                                                    *)
LEMMA AdjustedWhole ==
  ASSUME CountsOK, PairsApart, NEW k \in Col
  PROVE  Adjusted(k) - 1 \notin pairs[k]
<1>1. npass[k] \in 0..BlockSize /\ pairs[k] \subseteq 0..BlockSize
  BY DEF CountsOK
<1>2. CASE npass[k] > 0 /\ npass[k] - 1 \in pairs[k]
  <2>1. Adjusted(k) = npass[k] - 1
    BY <1>2 DEF Adjusted
  <2>2. ASSUME npass[k] - 2 \in pairs[k]
        PROVE  FALSE
    <3>1. (npass[k] - 2) + 1 \notin pairs[k]
      BY <2>2 DEF PairsApart
    <3>2. (npass[k] - 2) + 1 = npass[k] - 1
      BY <1>1, AptpFrontAssumption
    <3> QED BY <1>2, <3>1, <3>2
  <2>3. Adjusted(k) - 1 = npass[k] - 2
    BY <1>1, <2>1, AptpFrontAssumption
  <2> QED BY <2>2, <2>3
<1>3. CASE npass[k] > 0 /\ npass[k] - 1 \notin pairs[k]
  BY <1>3 DEF Adjusted
<1>4. CASE npass[k] = 0
  <2>1. Adjusted(k) = 0
    BY <1>4 DEF Adjusted
  <2>2. -1 \notin pairs[k]
    BY <1>1, AptpFrontAssumption
  <2> QED BY <2>1, <2>2
<1> QED BY <1>1, <1>2, <1>3, <1>4, AptpFrontAssumption

LEMMA PairsPreserved ==
  ASSUME TypeOK, FlowOK, PairsInv, [Next]_vars
  PROVE  PairsInv'
<1> CountsOK
  BY TypeParts
<1>1. ASSUME NEW x \in Col, FactorBlockApp(x)
      PROVE  PairsInv'
  <2>1. status[factor(x)] = "running" /\ status' = [status EXCEPT ![factor(x)] = "done"]
    BY <1>1 DEF FactorBlockApp, Flow!Finish
  <2>2. status[adjust(x)] # "done"
    BY <2>1, ColumnTasks, AdjustAfterFactor DEF FlowOK, FrontOrder
  <2>3. \A k \in Col : adjust(k) # factor(x)
    BY DEF adjust, factor
  <2>4. \A k \in Col : status'[adjust(k)] = status[adjust(k)]
    BY <2>1, <2>3, ColumnTasks DEF FlowOK
  <2>5. PICK e \in 0..ncol(x) : \E p \in PivotPairs(e) :
           /\ nelim' = [nelim EXCEPT ![x] = e]
           /\ pairs' = [pairs EXCEPT ![x] = p]
    BY <1>1 DEF FactorBlockApp
  <2>6. PICK p \in PivotPairs(e) :
           /\ nelim' = [nelim EXCEPT ![x] = e]
           /\ pairs' = [pairs EXCEPT ![x] = p]
    BY <2>5
  <2>7. \A y \in p : y + 1 \notin p
    BY DEF PivotPairs
  <2>8. PairsApart'
    BY <2>6, <2>7 DEF PairsInv, PairsApart, CountsOK
  <2>9. NoPairSplit'
    BY <2>2, <2>4, <2>6 DEF PairsInv, NoPairSplit, CountsOK
  <2> QED BY <2>8, <2>9 DEF PairsInv
<1>2. ASSUME NEW x \in Col, Adjust(x)
      PROVE  PairsInv'
  <2>1. pairs' = pairs /\ nelim' = [nelim EXCEPT ![x] = Adjusted(x)]
    BY <1>2 DEF Adjust
  <2>2. Adjusted(x) - 1 \notin pairs[x]
    BY AdjustedWhole DEF PairsInv
  <2>3. \A k \in Col : k # x => status'[adjust(k)] = status[adjust(k)]
    BY <1>2, ColumnTasks DEF Adjust, Flow!Finish, FlowOK, adjust
  <2>4. NoPairSplit'
    BY <2>1, <2>2, <2>3 DEF PairsInv, NoPairSplit, CountsOK
  <2> QED BY <2>1, <2>4 DEF PairsInv, PairsApart
<1>3. ASSUME ~ (\E x \in Col : FactorBlockApp(x)), ~ (\E x \in Col : Adjust(x))
      PROVE  PairsInv'
  <2>1. pairs' = pairs /\ nelim' = nelim
    BY <1>3 DEF Next, StartTask, FinishTask, ApplyTBlockApp, ApplyNBlockApp, ApplyPivot, UpdateBlock,
                RestoreFailedBlockApp, UpdateTBlockApp, UpdateNBlockApp, UpdateContribBlockApp,
                PermuteFailed, FactorFrontIndefFailed, Terminated, vars, columnVars
  <2>2. \A k \in Col : status'[adjust(k)] = "done" => status[adjust(k)] = "done"
    <3>1. ASSUME NEW t \in FrontTask, Flow!StartAfter(t, FrontPred[t], FrontExcl[t])
          PROVE  \A k \in Col : status'[adjust(k)] = "done" => status[adjust(k)] = "done"
      BY <3>1, ColumnTasks DEF Flow!StartAfter, FlowOK
    <3>2. ASSUME NEW t, Flow!Finish(t), \A k \in Col : t # adjust(k)
          PROVE  \A k \in Col : status'[adjust(k)] = "done" => status[adjust(k)] = "done"
      BY <3>2, ColumnTasks DEF Flow!Finish, FlowOK
    <3>3. \/ \E t \in FrontTask : Flow!StartAfter(t, FrontPred[t], FrontExcl[t])
          \/ \E t : Flow!Finish(t) /\ \A k \in Col : t # adjust(k)
          \/ status' = status
      <4>1. \A x, y, z, k :
              adjust(k) \notin {applyT(x, y), applyN(x, y), restore(x, y), updateT(x, y, z),
                                updateN(x, y, z), contrib(x, y, z), permute, failed}
        BY DEF applyT, applyN, adjust, restore, updateT, updateN, contrib, permute, failed
      <4>2. ASSUME NEW t, Flow!Finish(t), \A k \in Col : t # adjust(k)
            PROVE  \E u : Flow!Finish(u) /\ \A k \in Col : u # adjust(k)
        BY <4>2
      <4>3. CASE \E k \in Col, j \in Col : j < k /\ ApplyTBlockApp(k, j)
        BY <4>1, <4>2, <4>3 DEF ApplyTBlockApp
      <4>4. CASE \E k \in Col, i \in Row : k < i /\ ApplyNBlockApp(k, i)
        BY <4>1, <4>2, <4>4 DEF ApplyNBlockApp
      <4>5. CASE \E k \in Col, i \in Row : UseGpu /\ k <= i /\ RestoreFailedBlockApp(k, i)
        BY <4>1, <4>2, <4>5 DEF RestoreFailedBlockApp
      <4>6. CASE \E k \in Col, b \in Block : b[2] < k /\ UpdateTBlockApp(k, b[1], b[2])
        BY <4>1, <4>2, <4>6 DEF UpdateTBlockApp
      <4>7. CASE \E k \in Col, b \in Block : updateN(k, b[1], b[2]) \in FrontTask
                                             /\ UpdateNBlockApp(k, b[1], b[2])
        BY <4>1, <4>2, <4>7 DEF UpdateNBlockApp
      <4>8. CASE \E k \in Col, b \in Tile : UpdateContribBlockApp(k, b[1], b[2])
        BY <4>1, <4>2, <4>8 DEF UpdateContribBlockApp
      <4>9. CASE PermuteFailed \/ FactorFrontIndefFailed
        BY <4>1, <4>2, <4>9 DEF PermuteFailed, FactorFrontIndefFailed
      <4> QED BY <1>3, <4>3, <4>4, <4>5, <4>6, <4>7, <4>8, <4>9
              DEF Next, StartTask, FinishTask, Terminated, vars
    <3> QED BY <3>1, <3>2, <3>3
  <2> QED BY <2>1, <2>2 DEF PairsInv, PairsApart, NoPairSplit
<1> QED BY <1>1, <1>2, <1>3

(* No 2x2 pivot is split between the pivots a block column keeps and those  *)
(* it gives back, whatever blocks fail (Column::adjust).                    *)
THEOREM FrontNoPairSplit == Spec => []NoPairSplit
<1>1. Init => PairsInv
  BY ColumnTasks DEF Init, Flow!TaskInit, PairsInv, PairsApart, NoPairSplit
<1>2. TypeOK /\ FlowOK /\ PairsInv /\ [Next]_vars => PairsInv'
  BY PairsPreserved
<1>3. PairsInv => NoPairSplit
  BY DEF PairsInv
<1> QED BY <1>1, <1>2, <1>3, FrontTypes, FrontFlow, PTL DEF Spec

-----------------------------------------------------------------------------
(***************************************************************************)
(* What the handles of a front's tasks order, on a front of any size, cut  *)
(* in blocks of any size, on any number of workers, in either build: the   *)
(* accesses that no handle stands for.                                     *)
(***************************************************************************)
-----------------------------------------------------------------------------
(* Blocks.                                                                  *)

(* A larger number has no smaller quotient.                                 *)
LEMMA DivMonotone ==
  ASSUME NEW a \in Nat, NEW b \in Nat, NEW d \in Nat \ {0}, a <= b
  PROVE  a \div d <= b \div d
<1> DEFINE p == a \div d
           q == b \div d
<1>1. p \in Int /\ q \in Int /\ d * p <= a /\ b < d * q + d
  OBVIOUS
<1>2. ASSUME p > q
      PROVE  FALSE
  <2> HIDE DEF p, q
  <2>1. PICK r \in Nat : p = q + 1 + r
    <3>1. p - q - 1 \in Nat /\ p = q + 1 + (p - q - 1)
      BY <1>1, <1>2
    <3> QED BY <3>1
  <2>2. d * p = d * q + d + d * r
    BY <1>1, <2>1
  <2>3. d * r \in Nat
    BY <2>1
  <2>4. d * q \in Int /\ d * p \in Int
    BY <1>1
  <2> QED BY <1>1, <2>2, <2>3, <2>4
<1> QED BY <1>1, <1>2

(* A front has no more block columns than block rows, and the contribution  *)
(* starts in a row no block column is below.                                *)
LEMMA Shape ==
  /\ nblk \in Int /\ mblk \in Int /\ rsa \in Int
  /\ 0 < nblk /\ nblk <= mblk /\ nblk - 1 <= rsa
<1>1. (N - 1) \div BlockSize <= (M - 1) \div BlockSize
  BY DivMonotone, AptpFrontAssumption
<1>2. (N - 1) \div BlockSize <= N \div BlockSize
  BY DivMonotone, AptpFrontAssumption
<1>3. 0 \div BlockSize <= (N - 1) \div BlockSize /\ 0 \div BlockSize = 0
  BY DivMonotone, AptpFrontAssumption
<1>4. (N - 1) \div BlockSize \in Int /\ (M - 1) \div BlockSize \in Int /\ N \div BlockSize \in Int
  BY AptpFrontAssumption
<1> QED BY <1>1, <1>2, <1>3, <1>4 DEF nblk, mblk, rsa, calc_nblk

LEMMA Indices ==
  /\ Col \subseteq Row /\ Row \subseteq Int
  /\ \A k \in Col : <<k, k>> \in Block
  /\ \A k \in Col, i \in Row : k <= i => <<i, k>> \in Block
  /\ \A b \in Tile : b[1] \in Row /\ b[2] \in Row /\ \A k \in Col : k <= b[1] /\ k <= b[2]
<1>1. Col \subseteq Row /\ Row \subseteq Int
  BY Shape DEF Col, Row
<1>2. \A k \in Col, i \in Row : k <= i => <<i, k>> \in Block
  BY DEF Block
<1>3. \A k \in Col : k <= k
  BY <1>1
<1>4. ASSUME NEW b \in Tile, NEW k \in Col
      PROVE  b[1] \in Row /\ b[2] \in Row /\ k <= b[1] /\ k <= b[2]
  BY <1>4, Shape DEF Tile, Row, Col
<1>5. ASSUME NEW b \in Tile
      PROVE  b[1] \in Row /\ b[2] \in Row
  BY <1>5, Shape DEF Tile, Row
<1> QED BY <1>1, <1>2, <1>3, <1>4, <1>5

-----------------------------------------------------------------------------
(* Dependencies from handles.                                               *)

Named(t) == Inserted(t).rw \cup Inserted(t).c \cup Inserted(t).r

LEMMA Held ==
  ASSUME NEW t \in FrontTask, NEW h \in FrontHandle
  PROVE  /\ h \in Inserted(t).rw => FrontAccess[t][h] = "RW"
         /\ h \in Inserted(t).c => FrontAccess[t][h] \in {"C", "RW"}
         /\ h \in Named(t) => FrontAccess[t][h] \in {"C", "RW", "R"}
         /\ h \in Inserted(t).r /\ h \notin Inserted(t).c => FrontAccess[t][h] \in {"R", "RW"}
  BY DEF FrontAccess, Named

(* Of two tasks that name a handle, the later one waits for the earlier one *)
(* if either changes what it stands for, unless both commute.               *)
LEMMA Depends ==
  ASSUME NEW u \in FrontTask, NEW t \in FrontTask, SubmittedBefore(u, t),
         NEW h \in FrontHandle,
         \/ h \in Inserted(u).rw /\ h \in Named(t)
         \/ h \in Named(u) /\ h \in Inserted(t).rw
         \/ h \in Inserted(u).c /\ h \in Inserted(t).r /\ h \notin Inserted(t).c
         \/ h \in Inserted(u).rw \cup Inserted(u).c /\ h \in Inserted(t).r /\ h \notin Inserted(t).c
  PROVE  u \in FrontPred[t]
<1>1. Flow!Clash(FrontAccess[u][h], FrontAccess[t][h])
  BY Held DEF Flow!Clash
<1>2. <<u, t>> \in FrontBefore
  BY DEF FrontBefore
<1> QED BY <1>1, <1>2 DEF FrontPred, Flow!Pred, Flow!MustPrecede, Flow!Conflict

(* What has started has what it waits for behind it.                        *)
LEMMA Behind ==
  ASSUME FlowOK, NEW t \in FrontTask, NEW u \in FrontPred[t], status[t] # "waiting"
  PROVE  status[u] = "done"
  BY DEF FlowOK, FrontOrder

(* The handles of blocks, columns and tiles.                                *)
LEMMA Handles ==
  /\ \A b \in Block : A(b[1], b[2]) \in FrontHandle
  /\ \A k \in Col : Hcol(k) \in FrontHandle
  /\ \A b \in Tile : U(b[1], b[2]) \in FrontHandle
  BY DEF FrontHandle

LEMMA BlockHandle ==
  ASSUME NEW k \in Col, NEW i \in Row, k <= i
  PROVE  A(i, k) \in FrontHandle
<1>1. <<i, k>> \in Block
  BY Indices
<1>2. <<i, k>>[1] = i /\ <<i, k>>[2] = k
  OBVIOUS
<1> QED BY <1>1, <1>2, Handles

-----------------------------------------------------------------------------
(* The kinds of tasks, with the indices they take.                          *)

LEMMA Kinds ==
  ASSUME NEW t \in FrontTask
  PROVE  \/ \E k \in Col : t = factor(k)
         \/ \E k \in Col, j \in Col : j < k /\ t = applyT(k, j)
         \/ \E k \in Col, i \in Row : k < i /\ t = applyN(k, i)
         \/ \E k \in Col : t = adjust(k)
         \/ \E k \in Col, i \in Row : UseGpu /\ k <= i /\ t = restore(k, i)
         \/ \E k \in Col, i \in Row, j \in Col : j < k /\ j <= i /\ t = updateT(k, i, j)
         \/ \E k \in Col, i \in Row, j \in Col : k <= j /\ j <= i /\ t = updateN(k, i, j)
         \/ \E k \in Col, b \in Tile : t = contrib(k, b[1], b[2])
         \/ t \in {permute, failed}
<1>1. CASE t \in {factor(k) : k \in Col}
  BY <1>1
<1>2. CASE t \in {applyT(b[1], b[2]) : b \in {c \in Col \X Col : c[2] < c[1]}}
  BY <1>2
<1>3. CASE t \in {applyN(b[2], b[1]) : b \in {c \in Block : c[2] < c[1]}}
  BY <1>3 DEF Block
<1>4. CASE t \in {adjust(k) : k \in Col}
  BY <1>4
<1>5. CASE t \in {restore(b[2], b[1]) : b \in {c \in Block : UseGpu}}
  BY <1>5 DEF Block
<1>6. CASE t \in {updateT(c[1], c[2][1], c[2][2]) : c \in {d \in Col \X Block : d[2][2] < d[1]}}
  BY <1>6 DEF Block
<1>7. CASE t \in {updateN(c[1], c[2][1], c[2][2]) :
                   c \in {d \in Col \X Block : IF UseGpu THEN d[1] < d[2][2] ELSE d[1] <= d[2][2]}}
  <2>1. PICK c \in Col \X Block : /\ IF UseGpu THEN c[1] < c[2][2] ELSE c[1] <= c[2][2]
                                  /\ t = updateN(c[1], c[2][1], c[2][2])
    BY <1>7
  <2>2. c[1] \in Col /\ c[2][1] \in Row /\ c[2][2] \in Col /\ c[2][2] <= c[2][1]
    BY DEF Block
  <2>3. c[1] \in Int /\ c[2][2] \in Int
    BY <2>2, Indices
  <2>4. c[1] <= c[2][2]
    <3>1. CASE UseGpu
      BY <2>1, <2>3, <3>1
    <3>2. CASE ~ UseGpu
      BY <2>1, <3>2
    <3> QED BY <3>1, <3>2
  <2> QED BY <2>1, <2>2, <2>4
<1>8. CASE t \in {contrib(c[1], c[2][1], c[2][2]) : c \in Col \X Tile}
  BY <1>8
<1>9. CASE t \in {permute, failed}
  BY <1>9
<1> QED BY <1>1, <1>2, <1>3, <1>4, <1>5, <1>6, <1>7, <1>8, <1>9 DEF FrontTask

LEMMA InsertedBy ==
  /\ \A k : Inserted(factor(k)) = insert_factor_block_app(k)
  /\ \A k, j : Inserted(applyT(k, j)) = insert_applyT_block_app(k, j)
  /\ \A k, i : Inserted(applyN(k, i)) = insert_applyN_block_app(k, i)
  /\ \A k : Inserted(adjust(k)) = insert_adjust(k)
  /\ \A k, i : Inserted(restore(k, i)) = insert_restore_failed_block_app(k, i)
  /\ \A k, i, j : Inserted(updateT(k, i, j)) = insert_updateT_block_app(k, i, j)
  /\ \A k, i, j : Inserted(updateN(k, i, j)) = insert_updateN_block_app(k, i, j)
  /\ \A k, i, j : Inserted(contrib(k, i, j)) = insert_update_contrib_block_app(k, i, j)
<1> USE DEF Inserted
<1>1. \A k : Inserted(factor(k)) = insert_factor_block_app(k)
  BY DEF factor
<1>2. \A k, j : Inserted(applyT(k, j)) = insert_applyT_block_app(k, j)
  BY DEF applyT
<1>3. \A k, i : Inserted(applyN(k, i)) = insert_applyN_block_app(k, i)
  BY DEF applyN
<1>4. \A k : Inserted(adjust(k)) = insert_adjust(k)
  BY DEF adjust
<1>5. \A k, i : Inserted(restore(k, i)) = insert_restore_failed_block_app(k, i)
  BY DEF restore
<1>6. \A k, i, j : Inserted(updateT(k, i, j)) = insert_updateT_block_app(k, i, j)
  BY DEF updateT
<1>7. \A k, i, j : Inserted(updateN(k, i, j)) = insert_updateN_block_app(k, i, j)
  BY DEF updateN
<1>8. \A k, i, j : Inserted(contrib(k, i, j)) = insert_update_contrib_block_app(k, i, j)
  BY DEF contrib
<1> QED BY <1>1, <1>2, <1>3, <1>4, <1>5, <1>6, <1>7, <1>8

(* The task that gives block (i, k) back what block column k did not keep.  *)
Restorer(k, i) == IF UseGpu THEN restore(k, i) ELSE updateN(k, i, k)

LEMMA RestorerTask ==
  ASSUME NEW k \in Col, NEW i \in Row, k <= i
  PROVE  /\ Restorer(k, i) \in FrontTask
         /\ A(i, k) \in Inserted(Restorer(k, i)).rw \cup Inserted(Restorer(k, i)).c
         /\ Hcol(k) \in Named(Restorer(k, i))
<1>0. <<i, k>> \in Block
  BY Indices
<1>1. CASE UseGpu
  <2>1. restore(k, i) \in FrontTask
    <3>1. <<i, k>> \in {c \in Block : UseGpu} /\ restore(k, i) = restore(<<i, k>>[2], <<i, k>>[1])
      BY <1>0, <1>1
    <3> QED BY <3>1 DEF FrontTask
  <2> QED BY <1>1, <2>1 DEF Restorer, restore, Inserted, insert_restore_failed_block_app, Named
<1>2. CASE ~ UseGpu
  <2>1. updateN(k, i, k) \in FrontTask
    <3>1. <<k, <<i, k>>>> \in {d \in Col \X Block : IF UseGpu THEN d[1] < d[2][2] ELSE d[1] <= d[2][2]}
      BY <1>0, <1>2, Indices
    <3> QED BY <3>1 DEF FrontTask
  <2> QED BY <1>2, <2>1 DEF Restorer, updateN, Inserted, insert_updateN_block_app, Named
<1> QED BY <1>1, <1>2

(* The count of block column k is adjusted before anything that holds the   *)
(* handle of the column and was submitted after.                            *)
LEMMA AfterAdjust ==
  ASSUME NEW k \in Col, NEW t \in FrontTask, SubmittedBefore(adjust(k), t), Hcol(k) \in Named(t)
  PROVE  adjust(k) \in FrontPred[t]
<1>1. Hcol(k) \in Inserted(adjust(k)).rw
  BY DEF adjust, Inserted, insert_adjust
<1> QED BY <1>1, Depends, ColumnTasks, Handles

(* Whoever reads a block of column k, or changes it, after the restore has  *)
(* the count of column k adjusted.                                          *)
LEMMA AfterRestore ==
  ASSUME FlowOK, NEW k \in Col, NEW i \in Row, k <= i,
         NEW t \in FrontTask, status[t] # "waiting", SubmittedBefore(Restorer(k, i), t),
         \/ A(i, k) \in Inserted(t).rw
         \/ A(i, k) \in Inserted(t).r /\ A(i, k) \notin Inserted(t).c
  PROVE  status[adjust(k)] = "done"
<1> DEFINE s == Restorer(k, i)
<1>1. s \in FrontTask /\ A(i, k) \in Inserted(s).rw \cup Inserted(s).c /\ Hcol(k) \in Named(s)
  BY RestorerTask
<1>2. s \in FrontPred[t]
  BY <1>1, Depends, BlockHandle DEF Named
<1>3. status[s] = "done"
  BY <1>2, Behind
<1>4. SubmittedBefore(adjust(k), s)
  BY Indices DEF SubmittedBefore, adjust, Restorer, restore, updateN, Phase
<1>5. adjust(k) \in FrontPred[s]
  BY <1>1, <1>4, AfterAdjust
<1> QED BY <1>1, <1>3, <1>5, Behind

-----------------------------------------------------------------------------
(* A reader of a count finds it written.                                    *)

(* The tasks that apply the pivots of block column k run between its        *)
(* factorization and its adjustment.                                        *)
LEMMA ApplyInTime ==
  ASSUME FlowOK, NEW k \in Col, NEW t \in FrontTask, t[1] \in {"applyT", "applyN"}, t[2] = k,
         status[t] = "running"
  PROVE  status[factor(k)] = "done" /\ status[adjust(k)] = "waiting"
<1>1. /\ Hcol(k) \in Inserted(t).r /\ Hcol(k) \in Named(t)
      /\ SubmittedBefore(factor(k), t) /\ SubmittedBefore(t, adjust(k))
  <2>1. CASE t[1] = "applyT"
    BY <2>1, Indices DEF Named, Inserted, insert_applyT_block_app, SubmittedBefore, factor, adjust, Phase
  <2>2. CASE t[1] = "applyN"
    BY <2>2, Indices DEF Named, Inserted, insert_applyN_block_app, SubmittedBefore, factor, adjust, Phase
  <2> QED BY <2>1, <2>2
<1>2. Hcol(k) \in Inserted(factor(k)).rw /\ Hcol(k) \in Inserted(adjust(k)).rw
  BY DEF factor, adjust, Inserted, insert_factor_block_app, insert_adjust
<1>3. factor(k) \in FrontPred[t] /\ t \in FrontPred[adjust(k)]
  BY <1>1, <1>2, Depends, ColumnTasks, Handles
<1>4. status[factor(k)] = "done"
  BY <1>3, Behind
<1>5. status[adjust(k)] = "waiting"
  BY <1>3, ColumnTasks DEF FlowOK, FrontOrder
<1> QED BY <1>4, <1>5

(* The pivots of a column, and the pointer to them, are no other memory.    *)
LEMMA PivotKinds ==
  ASSUME NEW k, NEW n, NEW x \in Pivots(k, n)
  PROVE  x[1] \in {"d_ptr", "place"}
  BY DEF Pivots, Cd, Dplace

(* Every other reader of the count of a block column comes after its        *)
(* adjustment.                                                              *)
LEMMA ReadersAfterAdjust ==
  ASSUME FlowOK, NEW t \in FrontTask, status[t] = "running", NEW x \in Col,
         Cnelim(x) \in reads(t), ~ (t[1] \in {"applyT", "applyN"} /\ t[2] = x)
  PROVE  status[adjust(x)] = "done"
<1>0. \A k, n : Cnelim(x) \notin Pivots(k, n)
  BY PivotKinds DEF Cnelim
<1> USE DEF Cnelim
<1>1. ASSUME NEW k \in Col, t = factor(k)
      PROVE  FALSE
  BY <1>1 DEF factor, reads, Counter
<1>2. ASSUME NEW k \in Col, NEW j \in Col, j < k, t = applyT(k, j)
      PROVE  status[adjust(x)] = "done"
  <2>1. x = j
    BY <1>0, <1>2 DEF applyT, reads, A, Lperm, Cnpass
  <2>2. A(k, j) \in Inserted(t).rw /\ SubmittedBefore(Restorer(j, k), t)
    BY <1>2, Indices DEF applyT, Inserted, insert_applyT_block_app, SubmittedBefore, Restorer, restore, updateN
  <2> QED BY <1>2, <2>1, <2>2, AfterRestore, Indices
<1>3. ASSUME NEW k \in Col, NEW i \in Row, t = applyN(k, i)
      PROVE  FALSE
  BY <1>0, <1>3 DEF applyN, reads, A, Lperm, Cnpass
<1>4. ASSUME NEW k \in Col, t = adjust(k)
      PROVE  FALSE
  BY <1>0, <1>4 DEF adjust, reads
<1>5. ASSUME NEW k \in Col, NEW i \in Row, UseGpu, k <= i, t = restore(k, i)
      PROVE  status[adjust(x)] = "done"
  <2>1. x = k
    BY <1>0, <1>5, Indices DEF restore, reads, A, Bak, Lperm, Bounds
  <2>2. Hcol(k) \in Named(t) /\ SubmittedBefore(adjust(k), t)
    BY <1>5, Indices DEF restore, Named, Inserted, insert_restore_failed_block_app, SubmittedBefore, adjust, Phase
  <2> QED BY <2>1, <2>2, AfterAdjust, Behind
<1>6. ASSUME NEW k \in Col, NEW i \in Row, NEW j \in Col, j < k, j <= i, t = updateT(k, i, j)
      PROVE  status[adjust(x)] = "done"
  <2>1. x \in {i, j, k} /\ x <= k
    BY <1>0, <1>6 DEF updateT, reads, A, Bak, Bounds, isrc
  <2>2. Hcol(k) \in Named(t) /\ SubmittedBefore(adjust(k), t)
    BY <1>6, Indices DEF updateT, Named, Inserted, insert_updateT_block_app, SubmittedBefore, adjust, Phase
  <2>3. CASE x = k
    BY <2>2, <2>3, AfterAdjust, Behind
  <2>4. CASE x < k
    <3>1. A(k, x) \in Inserted(t).r /\ A(k, x) \notin Inserted(t).c
      BY <1>6, <2>1, <2>4, Indices DEF updateT, Inserted, insert_updateT_block_app, isrc
    <3>2. SubmittedBefore(Restorer(x, k), t)
      BY <1>6, <2>4 DEF updateT, SubmittedBefore, Restorer, restore, updateN
    <3>3. k \in Row /\ x <= k /\ status[t] # "waiting"
      BY <2>4, Indices
    <3> QED BY <3>1, <3>2, <3>3, AfterRestore
  <2>5. x = k \/ x < k
    <3>1. x \in Int /\ k \in Int
      BY Indices
    <3> QED BY <2>1, <3>1
  <2> QED BY <2>3, <2>4, <2>5
<1>7. ASSUME NEW k \in Col, NEW i \in Row, NEW j \in Col, k <= j, j <= i, t = updateN(k, i, j)
      PROVE  status[adjust(x)] = "done"
  <2>1. x = k
    BY <1>0, <1>7, Indices DEF updateN, reads, A, Bak, Lperm, Bounds
  <2>2. Hcol(k) \in Named(t) /\ SubmittedBefore(adjust(k), t)
    BY <1>7, Indices DEF updateN, Named, Inserted, insert_updateN_block_app, SubmittedBefore, adjust, Phase
  <2> QED BY <2>1, <2>2, AfterAdjust, Behind
<1>8. ASSUME NEW k \in Col, NEW b \in Tile, t = contrib(k, b[1], b[2])
      PROVE  status[adjust(x)] = "done"
  <2>1. x = k
    BY <1>0, <1>8 DEF contrib, reads, A, Cfirst
  <2>2. b[1] \in Row /\ k <= b[1]
    BY Indices
  <2>3. A(b[1], k) \in Inserted(t).r /\ A(b[1], k) \notin Inserted(t).c
    BY <1>8 DEF contrib, Inserted, insert_update_contrib_block_app, A, U
  <2>4. SubmittedBefore(Restorer(k, b[1]), t)
    BY <1>8 DEF contrib, SubmittedBefore, Restorer, restore, updateN, Phase
  <2> QED BY <2>1, <2>2, <2>3, <2>4, AfterRestore
<1>9. CASE t = permute
  <2>1. Hcol(x) \in Named(t) /\ SubmittedBefore(adjust(x), t)
    BY <1>9, Shape DEF permute, Named, Inserted, insert_permute_failed, SubmittedBefore, adjust, Col
  <2> QED BY <2>1, AfterAdjust, Behind
<1>10. CASE t = failed
  BY <1>10 DEF failed, reads, A
<1> QED BY <1>1, <1>2, <1>3, <1>4, <1>5, <1>6, <1>7, <1>8, <1>9, <1>10, Kinds

(* Every reader of a count waits for the task that writes it last, although *)
(* tasks of other block columns do not hold the handle of the column        *)
(* (Column::nelim, read by Block::restore_if_required and others).          *)
THEOREM FrontCountsReadInTime == Spec => []CountsReadInTime
<1>1. FlowOK => CountsReadInTime
  <2> SUFFICES ASSUME FlowOK, NEW t \in running, NEW x \in Col, Cnelim(x) \in reads(t)
               PROVE  IF t[1] \in {"applyT", "applyN"} /\ t[2] = x
                      THEN status[factor(x)] = "done" /\ status[adjust(x)] = "waiting"
                      ELSE status[adjust(x)] = "done"
    BY DEF CountsReadInTime
  <2>1. t \in FrontTask /\ status[t] = "running"
    BY DEF running
  <2>2. CASE t[1] \in {"applyT", "applyN"} /\ t[2] = x
    BY <2>1, <2>2, ApplyInTime
  <2>3. CASE ~ (t[1] \in {"applyT", "applyN"} /\ t[2] = x)
    BY <2>1, <2>3, ReadersAfterAdjust
  <2> QED BY <2>2, <2>3
<1> QED BY <1>1, FrontFlow, PTL

-----------------------------------------------------------------------------
(* Two tasks at work.                                                       *)

(* Tasks that exclude each other do not run together.                       *)
FrontApart ==
  \A t, u \in FrontTask :
    status[t] = "running" /\ status[u] = "running" => u \notin FrontExcl[t]

LEMMA ExclSymmetric ==
  ASSUME NEW t \in FrontTask, NEW u \in FrontTask, u \in FrontExcl[t]
  PROVE  t \in FrontExcl[u]
  BY DEF FrontExcl, Flow!Excl, Flow!Commuting

LEMMA ApartPreserved ==
  ASSUME FlowOK, FrontApart, [Next]_vars
  PROVE  FrontApart'
<1>1. ASSUME NEW t \in FrontTask, Flow!StartAfter(t, FrontPred[t], FrontExcl[t])
      PROVE  FrontApart'
  <2>1. status' = [status EXCEPT ![t] = "running"]
    BY <1>1 DEF Flow!StartAfter
  <2>2. \A u \in FrontExcl[t] : status[u] # "running"
    BY <1>1 DEF Flow!StartAfter
  <2>3. t \notin FrontExcl[t]
    BY DEF FrontExcl, Flow!Excl
  <2>4. \A u \in FrontTask : t \in FrontExcl[u] => u \in FrontExcl[t]
    BY ExclSymmetric
  <2>5. ASSUME NEW v \in FrontTask, NEW w \in FrontTask, status'[v] = "running",
               status'[w] = "running", w \in FrontExcl[v]
        PROVE  FALSE
    BY <2>1, <2>2, <2>3, <2>4, <2>5 DEF FlowOK, FrontApart
  <2>6. FrontExcl' = FrontExcl
    BY DEF FrontExcl, Flow!Excl, Flow!Commuting
  <2> QED BY <2>5, <2>6 DEF FrontApart
<1>2. ASSUME NEW t, Flow!Finish(t)
      PROVE  FrontApart'
  BY <1>2 DEF FlowOK, FrontApart, Flow!Finish, FrontExcl, Flow!Excl, Flow!Commuting
<1>3. CASE status' = status
  BY <1>3 DEF FrontApart, FrontExcl, Flow!Excl, Flow!Commuting
<1> QED BY <1>1, <1>2, <1>3, StepOfOneTask

LEMMA FrontExclusion == Spec => []FrontApart
<1>1. Init => FrontApart
  BY DEF Init, Flow!TaskInit, FrontApart
<1>2. FlowOK /\ FrontApart /\ [Next]_vars => FrontApart'
  BY ApartPreserved
<1> QED BY <1>1, <1>2, FrontFlow, PTL DEF Spec

(* Any two tasks are submitted one after the other.                         *)
LEMMA SubmissionTotal ==
  ASSUME NEW t \in FrontTask, NEW u \in FrontTask, t # u
  PROVE  SubmittedBefore(t, u) \/ SubmittedBefore(u, t)
<1> DEFINE Shaped(v) == /\ v = <<v[1], v[2], v[3], v[4]>>
                        /\ v[1] \in DOMAIN Phase
                        /\ v[2] \in Int /\ v[3] \in Int /\ v[4] \in Int
<1>1. ASSUME NEW v \in FrontTask
      PROVE  Shaped(v)
  BY <1>1, Kinds, Indices, Shape
     DEF factor, applyT, applyN, adjust, restore, updateT, updateN, contrib, permute, failed, Phase
<1>2. Shaped(t) /\ Shaped(u)
  BY <1>1
<1>3. \/ t[1] # u[1] \/ t[2] # u[2] \/ t[3] # u[3] \/ t[4] # u[4]
  BY <1>2
<1>4. \A a, b \in DOMAIN Phase : /\ Phase[a] \in Int /\ Phase[b] \in Int
                                 /\ a # b => Phase[a] # Phase[b]
  BY DEF Phase
<1> QED BY <1>2, <1>3, <1>4 DEF SubmittedBefore

(* A task that changes what a handle stands for runs alone among those that *)
(* name the handle.                                                         *)
LEMMA Alone ==
  ASSUME FlowOK, FrontApart, NEW t \in FrontTask, NEW u \in FrontTask, t # u,
         status[t] = "running", status[u] = "running",
         NEW h \in FrontHandle, h \in Inserted(t).rw \cup Inserted(t).c, h \in Named(u)
  PROVE  FALSE
<1>1. FrontAccess[t][h] \in {"RW", "C"} /\ FrontAccess[u][h] \in {"RW", "C", "R"}
  BY Held
<1>2. CASE FrontAccess[t][h] = "C" /\ FrontAccess[u][h] = "C"
  <2>1. u \in FrontExcl[t]
    BY <1>2 DEF FrontExcl, Flow!Excl, Flow!Commuting
  <2> QED BY <2>1 DEF FrontApart
<1>3. CASE ~ (FrontAccess[t][h] = "C" /\ FrontAccess[u][h] = "C")
  <2>1. Flow!Clash(FrontAccess[t][h], FrontAccess[u][h]) /\ Flow!Clash(FrontAccess[u][h], FrontAccess[t][h])
    BY <1>1, <1>3 DEF Flow!Clash
  <2>2. CASE SubmittedBefore(t, u)
    <3>1. <<t, u>> \in FrontBefore /\ Flow!Conflict(t, u)
      BY <2>1, <2>2 DEF FrontBefore, Flow!Conflict
    <3>2. t \in FrontPred[u]
      BY <3>1 DEF FrontPred, Flow!Pred, Flow!MustPrecede
    <3> QED BY <3>2, Behind
  <2>3. CASE SubmittedBefore(u, t)
    <3>1. <<u, t>> \in FrontBefore /\ Flow!Conflict(u, t)
      BY <2>1, <2>3 DEF FrontBefore, Flow!Conflict
    <3>2. u \in FrontPred[t]
      BY <3>1 DEF FrontPred, Flow!Pred, Flow!MustPrecede
    <3> QED BY <3>2, Behind
  <2> QED BY <2>2, <2>3, SubmissionTotal
<1> QED BY <1>2, <1>3

(* The two last tasks come after all others.                                *)
Lasts == {permute, failed}

LEMMA LastsExist == permute \in FrontTask /\ failed \in FrontTask
  BY DEF FrontTask

LEMMA AllBeforePermute ==
  ASSUME NEW t \in FrontTask, t \notin Lasts
  PROVE  t \in FrontPred[permute]
<1>1. \E x \in Col : Hcol(x) \in Named(t)
  <2>1. nblk - 1 \in Col
    BY Shape DEF Col
  <2>2. ASSUME NEW k \in Col, NEW b \in Tile, t = contrib(k, b[1], b[2])
        PROVE  Hcol(nblk - 1) \in Named(t)
    BY <2>2 DEF contrib, Named, Inserted, insert_update_contrib_block_app
  <2>3. ASSUME NEW k \in Col, t = factor(k) \/ t = adjust(k)
        PROVE  Hcol(k) \in Named(t)
    BY <2>3, InsertedBy DEF Named, insert_factor_block_app, insert_adjust
  <2>4. ASSUME NEW k \in Col, NEW j, t = applyT(k, j) \/ t = applyN(k, j) \/ t = restore(k, j)
        PROVE  Hcol(k) \in Named(t)
    BY <2>4, InsertedBy DEF Named, insert_applyT_block_app, insert_applyN_block_app,
                            insert_restore_failed_block_app
  <2>5. ASSUME NEW k \in Col, NEW i, NEW j, t = updateT(k, i, j) \/ t = updateN(k, i, j)
        PROVE  Hcol(k) \in Named(t)
    BY <2>5, InsertedBy DEF Named, insert_updateT_block_app, insert_updateN_block_app
  <2> QED BY <2>1, <2>2, <2>3, <2>4, <2>5, Kinds DEF Lasts
<1>2. PICK x \in Col : Hcol(x) \in Named(t)
  BY <1>1
<1>3. Hcol(x) \in Inserted(permute).rw
  BY DEF permute, Inserted, insert_permute_failed
<1>4. SubmittedBefore(t, permute)
  <2>1. t[2] < nblk
    BY Kinds, Shape DEF Lasts, Col, factor, applyT, applyN, adjust, restore, updateT, updateN, contrib
  <2> QED BY <2>1 DEF SubmittedBefore, permute
<1> QED BY <1>2, <1>3, <1>4, Depends, LastsExist, Handles

LEMMA PermuteBeforeFailed == permute \in FrontPred[failed]
<1>1. nblk - 1 \in Col
  BY Shape DEF Col
<1>2. Hcol(nblk - 1) \in Inserted(permute).rw /\ Hcol(nblk - 1) \in Named(failed)
  BY <1>1 DEF permute, failed, Named, Inserted, insert_permute_failed, insert_factor_front_indef_failed
<1>3. SubmittedBefore(permute, failed)
  BY Shape DEF SubmittedBefore, permute, failed, Phase
<1> QED BY <1>1, <1>2, <1>3, Depends, LastsExist, Handles

LEMMA LastsAlone ==
  ASSUME FlowOK, NEW t \in FrontTask, NEW u \in FrontTask, t # u, t \in Lasts,
         status[t] = "running", status[u] = "running"
  PROVE  FALSE
<1>1. status[failed] # "waiting" => status[permute] = "done"
  BY PermuteBeforeFailed, LastsExist, Behind
<1>2. \A v \in FrontTask : v \notin Lasts /\ status[permute] # "waiting" => status[v] = "done"
  BY AllBeforePermute, LastsExist, Behind
<1>3. CASE u \in Lasts
  BY <1>1, <1>3 DEF Lasts
<1>4. CASE u \notin Lasts
  BY <1>1, <1>2, <1>4 DEF Lasts
<1> QED BY <1>3, <1>4

(* A block column is factorized after the adjustment of those before it,    *)
(* through the update of its diagonal block.                                *)
LEMMA ColumnOrder ==
  ASSUME FlowOK, NEW k \in Col, NEW x \in Col, k < x, status[factor(x)] # "waiting"
  PROVE  status[adjust(k)] = "done"
<1> DEFINE s == updateN(k, x, x)
<1>1. s \in FrontTask
  <2>1. <<x, x>> \in Block /\ k <= x
    BY Indices
  <2>2. <<k, <<x, x>>>> \in {d \in Col \X Block : IF UseGpu THEN d[1] < d[2][2] ELSE d[1] <= d[2][2]}
    BY <2>1
  <2> QED BY <2>2 DEF FrontTask
<1>2. /\ A(x, x) \in Inserted(s).c /\ A(x, x) \in Inserted(factor(x)).rw
      /\ A(x, x) \in Named(s) /\ Hcol(k) \in Named(s)
  BY DEF updateN, factor, Named, Inserted, insert_updateN_block_app, insert_factor_block_app
<1>3. A(x, x) \in FrontHandle
  BY BlockHandle, Indices
<1>4. SubmittedBefore(s, factor(x)) /\ SubmittedBefore(adjust(k), s)
  BY Indices DEF SubmittedBefore, updateN, factor, adjust, Phase
<1>5. s \in FrontPred[factor(x)]
  BY <1>1, <1>2, <1>3, <1>4, Depends, ColumnTasks
<1>6. status[s] = "done"
  BY <1>5, Behind, ColumnTasks
<1>7. adjust(k) \in FrontPred[s]
  BY <1>1, <1>2, <1>4, AfterAdjust
<1> QED BY <1>1, <1>6, <1>7, Behind

(* The handle under which a task other than the last two has what it reads  *)
(* or writes, apart from the counts, the pivots and the way to them.        *)
Guard(x) ==
  CASE x[1] = "bak" -> A(x[2], x[3])
    [] x[1] \in {"lperm", "npass"} -> Hcol(x[2])
    [] x[1] \notin {"bak", "lperm", "npass"} -> x

Count(x) == x[1] \in {"nelim", "next_elim"}

Unguarded(x) == Count(x) \/ x[1] \in {"first_elim", "d_ptr", "place", "perm"}

LEMMA WritesGuarded ==
  ASSUME NEW t \in FrontTask, t \notin Lasts, NEW x \in writes(t), ~ Unguarded(x)
  PROVE  Guard(x) \in FrontHandle /\ Guard(x) \in Inserted(t).rw \cup Inserted(t).c
<1> DEFINE Guarded == Guard(x) \in FrontHandle /\ Guard(x) \in Inserted(t).rw \cup Inserted(t).c
<1>1. ASSUME NEW k \in Col, t = factor(k)
      PROVE  Guarded
  <2>1. Guard(x) \in {A(k, k), Hcol(k)}
    BY <1>1 DEF factor, writes, Unguarded, Count, Guard, A, Hcol, Bak, Lperm, Cperm, Cnelim, Cnpass, Cd, Dplace
  <2>2. A(k, k) \in FrontHandle /\ Hcol(k) \in FrontHandle
    BY Indices, BlockHandle, Handles
  <2> QED BY <1>1, <2>1, <2>2, InsertedBy DEF insert_factor_block_app
<1>2. ASSUME NEW k \in Col, NEW j \in Col, j < k, t = applyT(k, j)
      PROVE  Guarded
  <2>1. Guard(x) = A(k, j)
    BY <1>2 DEF applyT, writes, Guard, A, Bak
  <2>2. A(k, j) \in FrontHandle
    BY <1>2, Indices, BlockHandle
  <2> QED BY <1>2, <2>1, <2>2, InsertedBy DEF insert_applyT_block_app
<1>3. ASSUME NEW k \in Col, NEW i \in Row, k < i, t = applyN(k, i)
      PROVE  Guarded
  <2>1. Guard(x) = A(i, k)
    BY <1>3 DEF applyN, writes, Guard, A, Bak
  <2>2. A(i, k) \in FrontHandle
    BY <1>3, Indices, BlockHandle
  <2> QED BY <1>3, <2>1, <2>2, InsertedBy DEF insert_applyN_block_app
<1>4. ASSUME NEW k \in Col, t = adjust(k)
      PROVE  Guarded
  <2>1. Guard(x) = Hcol(k)
    BY <1>4 DEF adjust, writes, Unguarded, Count, Guard, Cnelim, Cnpass, Cfirst, Counter
  <2> QED BY <1>4, <2>1, Handles, InsertedBy DEF insert_adjust
<1>5. ASSUME NEW k \in Col, NEW i \in Row, k <= i, t = restore(k, i)
      PROVE  Guarded
  <2>1. Guard(x) = A(i, k)
    BY <1>5 DEF restore, writes, Guard, A
  <2> QED BY <1>5, <2>1, BlockHandle, InsertedBy DEF insert_restore_failed_block_app
<1>6. ASSUME NEW k \in Col, NEW i \in Row, NEW j \in Col, j <= i, t = updateT(k, i, j)
      PROVE  Guarded
  <2>1. Guard(x) = A(i, j)
    BY <1>6 DEF updateT, writes, Guard, A
  <2> QED BY <1>6, <2>1, BlockHandle, InsertedBy DEF insert_updateT_block_app
<1>7. ASSUME NEW k \in Col, NEW i \in Row, NEW j \in Col, j <= i, t = updateN(k, i, j)
      PROVE  Guarded
  <2>1. Guard(x) = A(i, j)
    BY <1>7 DEF updateN, writes, Guard, A
  <2> QED BY <1>7, <2>1, BlockHandle, InsertedBy DEF insert_updateN_block_app
<1>8. ASSUME NEW k \in Col, NEW b \in Tile, t = contrib(k, b[1], b[2])
      PROVE  Guarded
  <2>1. Guard(x) = U(b[1], b[2])
    BY <1>8 DEF contrib, writes, Guard, U
  <2> QED BY <1>8, <2>1, Handles, InsertedBy DEF insert_update_contrib_block_app
<1> QED BY <1>1, <1>2, <1>3, <1>4, <1>5, <1>6, <1>7, <1>8, Kinds DEF Lasts

LEMMA ReadsGuarded ==
  ASSUME NEW t \in FrontTask, t \notin Lasts, NEW x \in reads(t), ~ Unguarded(x)
  PROVE  Guard(x) \in Named(t)
<1>1. ASSUME NEW k \in Col, t = factor(k)
      PROVE  FALSE
  BY <1>1 DEF factor, reads, Unguarded, Count, Counter
<1>2. ASSUME NEW k \in Col, NEW j \in Col, t = applyT(k, j)
      PROVE  Guard(x) \in Named(t)
  <2>0. x \notin Pivots(k, nelim[k])
    BY PivotKinds DEF Unguarded
  <2>1. Guard(x) \in {A(k, k), Hcol(k)}
    BY <1>2, <2>0 DEF applyT, reads, Unguarded, Count, Guard, A, Hcol, Lperm, Cnelim, Cnpass
  <2> QED BY <1>2, <2>1, InsertedBy DEF Named, insert_applyT_block_app
<1>3. ASSUME NEW k \in Col, NEW i \in Row, t = applyN(k, i)
      PROVE  Guard(x) \in Named(t)
  <2>0. x \notin Pivots(k, nelim[k])
    BY PivotKinds DEF Unguarded
  <2>1. Guard(x) \in {A(k, k), Hcol(k)}
    BY <1>3, <2>0 DEF applyN, reads, Unguarded, Count, Guard, A, Hcol, Lperm, Cnelim, Cnpass
  <2> QED BY <1>3, <2>1, InsertedBy DEF Named, insert_applyN_block_app
<1>4. ASSUME NEW k \in Col, t = adjust(k)
      PROVE  FALSE
  BY <1>4, PivotKinds DEF adjust, reads, Unguarded
<1>5. ASSUME NEW k \in Col, NEW i \in Row, t = restore(k, i)
      PROVE  Guard(x) \in Named(t)
  <2>0. x \notin Pivots(k, nelim[k])
    BY PivotKinds DEF Unguarded
  <2>1. Guard(x) \in {A(k, k), A(i, k), Hcol(k)}
    BY <1>5, <2>0 DEF restore, reads, Bounds, Unguarded, Count, Guard, A, Hcol, Bak, Lperm, Cnelim
  <2> QED BY <1>5, <2>1, InsertedBy DEF Named, insert_restore_failed_block_app
<1>6. ASSUME NEW k \in Col, NEW i \in Row, NEW j \in Col, t = updateT(k, i, j)
      PROVE  Guard(x) \in Named(t)
  <2>0. x \notin Pivots(k, nelim[k])
    BY PivotKinds DEF Unguarded
  <2>1. Guard(x) \in {isrc(k, i), A(k, j), A(i, j)}
    BY <1>6, <2>0 DEF updateT, reads, Bounds, Unguarded, Count, Guard, A, Bak, Cnelim, isrc
  <2> QED BY <1>6, <2>1, InsertedBy DEF Named, insert_updateT_block_app
<1>7. ASSUME NEW k \in Col, NEW i \in Row, NEW j \in Col, t = updateN(k, i, j)
      PROVE  Guard(x) \in Named(t)
  <2>0. x \notin Pivots(k, nelim[k])
    BY PivotKinds DEF Unguarded
  <2>1. Guard(x) \in {A(i, k), A(j, k), A(i, j), Hcol(k)}
    BY <1>7, <2>0 DEF updateN, reads, Bounds, Unguarded, Count, Guard, A, Hcol, Bak, Lperm, Cnelim
  <2> QED BY <1>7, <2>1, InsertedBy DEF Named, insert_updateN_block_app
<1>8. ASSUME NEW k \in Col, NEW b \in Tile, t = contrib(k, b[1], b[2])
      PROVE  Guard(x) \in Named(t)
  <2>0. x \notin Pivots(k, nelim[k])
    BY PivotKinds DEF Unguarded
  <2>1. Guard(x) \in {A(b[1], k), A(b[2], k)}
    BY <1>8, <2>0 DEF contrib, reads, Unguarded, Count, Guard, A, Cnelim, Cfirst
  <2> QED BY <1>8, <2>1, InsertedBy DEF Named, insert_update_contrib_block_app
<1> QED BY <1>1, <1>2, <1>3, <1>4, <1>5, <1>6, <1>7, <1>8, Kinds DEF Lasts

(* What the factorization and the adjustment of block column k write beside *)
(* what handles guard.                                                      *)
FactorWrites(k) ==
  {Cnelim(k), Cd(k), Cperm(k)} \cup {Dplace(next_elim + x) : x \in 0..(ncol(k) - 1)}

AdjustWrites(k) == {Cnelim(k), Cfirst(k), Counter}

LEMMA CountWriters ==
  ASSUME NEW t \in FrontTask, t \notin Lasts, NEW x \in writes(t), Unguarded(x)
  PROVE  \E k \in Col : \/ t = factor(k) /\ x \in FactorWrites(k)
                        \/ t = adjust(k) /\ x \in AdjustWrites(k)
<1> USE DEF Unguarded, Count
<1>1. ASSUME NEW k \in Col, t = factor(k)
      PROVE  x \in FactorWrites(k)
  BY <1>1 DEF factor, writes, FactorWrites, A, Bak, Lperm, Cnpass
<1>2. ASSUME NEW k \in Col, t = adjust(k)
      PROVE  x \in AdjustWrites(k)
  BY <1>2 DEF adjust, writes, AdjustWrites, Cnpass
<1>3. ASSUME NEW k \in Col, NEW j, t = applyT(k, j)
      PROVE  FALSE
  BY <1>3 DEF applyT, writes, A, Bak
<1>4. ASSUME NEW k \in Col, NEW i, t = applyN(k, i)
      PROVE  FALSE
  BY <1>4 DEF applyN, writes, A, Bak
<1>5. ASSUME NEW k \in Col, NEW i, t = restore(k, i)
      PROVE  FALSE
  BY <1>5 DEF restore, writes, A
<1>6. ASSUME NEW k \in Col, NEW i, NEW j, t = updateT(k, i, j)
      PROVE  FALSE
  BY <1>6 DEF updateT, writes, A
<1>7. ASSUME NEW k \in Col, NEW i, NEW j, t = updateN(k, i, j)
      PROVE  FALSE
  BY <1>7 DEF updateN, writes, A
<1>8. ASSUME NEW k \in Col, NEW b \in Tile, t = contrib(k, b[1], b[2])
      PROVE  FALSE
  BY <1>8 DEF contrib, writes, U
<1> QED BY <1>1, <1>2, <1>3, <1>4, <1>5, <1>6, <1>7, <1>8, Kinds DEF Lasts

LEMMA CounterReaders ==
  ASSUME NEW t \in FrontTask, t \notin Lasts, Counter \in reads(t)
  PROVE  \E k \in Col : t = factor(k)
<1>0. \A k, n : Counter \notin Pivots(k, n)
  BY PivotKinds DEF Counter
<1> USE DEF Counter
<1>2. ASSUME NEW k \in Col, t = adjust(k)
      PROVE  FALSE
  BY <1>0, <1>2 DEF adjust, reads
<1>3. ASSUME NEW k \in Col, NEW j, t = applyT(k, j)
      PROVE  FALSE
  BY <1>0, <1>3 DEF applyT, reads, A, Lperm, Cnelim, Cnpass
<1>4. ASSUME NEW k \in Col, NEW i, t = applyN(k, i)
      PROVE  FALSE
  BY <1>0, <1>4 DEF applyN, reads, A, Lperm, Cnelim, Cnpass
<1>5. ASSUME NEW k \in Col, NEW i, t = restore(k, i)
      PROVE  FALSE
  BY <1>0, <1>5 DEF restore, reads, A, Bak, Lperm, Bounds, Cnelim
<1>6. ASSUME NEW k \in Col, NEW i, NEW j, t = updateT(k, i, j)
      PROVE  FALSE
  BY <1>0, <1>6 DEF updateT, reads, A, Bak, Bounds, Cnelim, isrc
<1>7. ASSUME NEW k \in Col, NEW i, NEW j, t = updateN(k, i, j)
      PROVE  FALSE
  BY <1>0, <1>7 DEF updateN, reads, A, Bak, Lperm, Bounds, Cnelim
<1>8. ASSUME NEW k \in Col, NEW b \in Tile, t = contrib(k, b[1], b[2])
      PROVE  FALSE
  BY <1>0, <1>8 DEF contrib, reads, A, Cnelim, Cfirst
<1> QED BY <1>2, <1>3, <1>4, <1>5, <1>6, <1>7, <1>8, Kinds DEF Lasts

(* Who reads the pivots of a block column, and what it keeps of them.       *)
LEMMA PivotReaders ==
  ASSUME NEW t \in FrontTask, t \notin Lasts, NEW x \in reads(t), Unguarded(x), ~ Count(x)
  PROVE  /\ t[2] \in Col
         /\ \/ t = adjust(t[2])
            \/ /\ Cnelim(t[2]) \in reads(t)
               /\ x \in Pivots(t[2], nelim[t[2]]) \/ x = Cfirst(t[2])
<1> DEFINE Reads(k) == Cnelim(k) \in reads(t) /\ (x \in Pivots(k, nelim[k]) \/ x = Cfirst(k))
<1> USE DEF Unguarded, Count
<1>1. ASSUME NEW k \in Col, t = factor(k)
      PROVE  FALSE
  BY <1>1 DEF factor, reads, Counter
<1>2. ASSUME NEW k \in Col, t = adjust(k)
      PROVE  t[2] = k
  BY <1>2 DEF adjust
<1>3. ASSUME NEW k \in Col, NEW j, t = applyT(k, j)
      PROVE  t[2] = k /\ Reads(k)
  BY <1>3 DEF applyT, reads, A, Lperm, Cnelim, Cnpass
<1>4. ASSUME NEW k \in Col, NEW i, t = applyN(k, i)
      PROVE  t[2] = k /\ Reads(k)
  BY <1>4 DEF applyN, reads, A, Lperm, Cnelim, Cnpass
<1>5. ASSUME NEW k \in Col, NEW i, t = restore(k, i)
      PROVE  t[2] = k /\ Reads(k)
  BY <1>5, Indices DEF restore, reads, A, Bak, Lperm, Bounds, Cnelim
<1>6. ASSUME NEW k \in Col, NEW i, NEW j, t = updateT(k, i, j)
      PROVE  t[2] = k /\ Reads(k)
  BY <1>6, Indices DEF updateT, reads, A, Bak, Bounds, Cnelim, isrc
<1>7. ASSUME NEW k \in Col, NEW i, NEW j, t = updateN(k, i, j)
      PROVE  t[2] = k /\ Reads(k)
  BY <1>7, Indices DEF updateN, reads, A, Bak, Lperm, Bounds, Cnelim
<1>8. ASSUME NEW k \in Col, NEW b \in Tile, t = contrib(k, b[1], b[2])
      PROVE  t[2] = k /\ Reads(k)
  BY <1>8 DEF contrib, reads, A, Cnelim
<1> HIDE DEF Reads
<1>9. t[2] \in Col /\ (t = adjust(t[2]) \/ Reads(t[2]))
  BY <1>1, <1>2, <1>3, <1>4, <1>5, <1>6, <1>7, <1>8, Kinds DEF Lasts
<1> QED BY <1>9 DEF Reads

-----------------------------------------------------------------------------
(* The places of the pivots.                                                *)

(* The place of a block column follows from the counter, between its        *)
(* factorization and the adjustment of the next column.                     *)
PlacesInv ==
  /\ (\A k \in Col : status[adjust(k)] # "done") /\ status[failed] # "done" => next_elim = 0
  /\ \A k \in Col : status[factor(k)] = "done" /\ status[adjust(k)] # "done" => next_elim = dpos[k]
  /\ \A k \in Col :
       /\ status[adjust(k)] = "done" /\ status[failed] # "done"
       /\ \A x \in Col : k < x => status[adjust(x)] # "done"
       => next_elim = dpos[k] + nelim[k]
  /\ PivotsContiguous

(* While a block column is between its factorization and its adjustment,    *)
(* those before it are adjusted, those after it have not begun, and the     *)
(* second pass has not either.                                              *)
LEMMA Frontier ==
  ASSUME FlowOK, NEW x \in Col, status[factor(x)] # "waiting", status[adjust(x)] # "done"
  PROVE  /\ \A y \in Col : y < x => status[adjust(y)] = "done" /\ status[factor(y)] = "done"
         /\ \A y \in Col : x < y => status[factor(y)] # "done" /\ status[adjust(y)] # "done"
         /\ status[failed] = "waiting"
<1>1. ASSUME NEW y \in Col
      PROVE  status[adjust(y)] = "done" => status[factor(y)] = "done"
  BY ColumnTasks, AdjustAfterFactor, Behind
<1>2. \A y \in Col : y < x => status[adjust(y)] = "done"
  BY ColumnOrder
<1>3. \A y \in Col : x < y => status[factor(y)] = "waiting"
  BY ColumnOrder
<1>4. status[failed] = "waiting"
  <2>1. adjust(x) \notin Lasts
    BY DEF Lasts, adjust, permute, failed
  <2>2. adjust(x) \in FrontPred[permute]
    BY <2>1, ColumnTasks, AllBeforePermute
  <2>3. status[permute] = "waiting"
    BY <2>2, LastsExist, Behind
  <2> QED BY <2>3, LastsExist, PermuteBeforeFailed, Behind
<1> QED BY <1>1, <1>2, <1>3, <1>4

LEMMA OtherSteps ==
  ASSUME FlowOK, [Next]_vars, ~ (\E x \in Col : FactorBlockApp(x)), ~ (\E x \in Col : Adjust(x)),
         ~ FactorFrontIndefFailed
  PROVE  /\ UNCHANGED <<dpos, nelim, next_elim>>
         /\ \A k \in Col : /\ status'[factor(k)] = "done" <=> status[factor(k)] = "done"
                           /\ status'[adjust(k)] = "done" <=> status[adjust(k)] = "done"
         /\ status'[failed] = "done" <=> status[failed] = "done"
<1> DEFINE Counting == {factor(k) : k \in Col} \cup {adjust(k) : k \in Col} \cup {failed}
           Same == \A t \in Counting : status'[t] = "done" <=> status[t] = "done"
<1>1. UNCHANGED <<dpos, nelim, next_elim>>
  BY DEF Next, StartTask, FinishTask, ApplyTBlockApp, ApplyNBlockApp, ApplyPivot, UpdateBlock,
         RestoreFailedBlockApp, UpdateTBlockApp, UpdateNBlockApp, UpdateContribBlockApp,
         PermuteFailed, Terminated, vars, columnVars
<1>2. Counting \subseteq FrontTask
  BY ColumnTasks, LastsExist
<1>3. ASSUME NEW t \in FrontTask, Flow!StartAfter(t, FrontPred[t], FrontExcl[t])
      PROVE  Same
  BY <1>2, <1>3 DEF Flow!StartAfter, FlowOK
<1>4. ASSUME NEW t, Flow!Finish(t), t \notin Counting
      PROVE  Same
  <2> HIDE DEF Counting
  <2> QED BY <1>2, <1>4 DEF Flow!Finish, FlowOK
<1>5. \/ \E t \in FrontTask : Flow!StartAfter(t, FrontPred[t], FrontExcl[t])
      \/ \E t : Flow!Finish(t) /\ t \notin Counting
      \/ status' = status
  <2>1. \A x, y, z :
          {applyT(x, y), applyN(x, y), restore(x, y), updateT(x, y, z), updateN(x, y, z),
           contrib(x, y, z), permute} \cap Counting = {}
    BY DEF factor, applyT, applyN, adjust, restore, updateT, updateN, contrib, permute, failed
  <2>2. ASSUME NEW t, Flow!Finish(t), t \notin Counting
        PROVE  \E u : Flow!Finish(u) /\ u \notin Counting
    BY <2>2
  <2> HIDE DEF Counting
  <2>3. CASE \E k \in Col, j \in Col : j < k /\ ApplyTBlockApp(k, j)
    BY <2>1, <2>2, <2>3 DEF ApplyTBlockApp
  <2>4. CASE \E k \in Col, i \in Row : k < i /\ ApplyNBlockApp(k, i)
    BY <2>1, <2>2, <2>4 DEF ApplyNBlockApp
  <2>5. CASE \E k \in Col, i \in Row : UseGpu /\ k <= i /\ RestoreFailedBlockApp(k, i)
    BY <2>1, <2>2, <2>5 DEF RestoreFailedBlockApp
  <2>6. CASE \E k \in Col, b \in Block : b[2] < k /\ UpdateTBlockApp(k, b[1], b[2])
    BY <2>1, <2>2, <2>6 DEF UpdateTBlockApp
  <2>7. CASE \E k \in Col, b \in Block : updateN(k, b[1], b[2]) \in FrontTask
                                         /\ UpdateNBlockApp(k, b[1], b[2])
    BY <2>1, <2>2, <2>7 DEF UpdateNBlockApp
  <2>8. CASE \E k \in Col, b \in Tile : UpdateContribBlockApp(k, b[1], b[2])
    BY <2>1, <2>2, <2>8 DEF UpdateContribBlockApp
  <2>9. CASE PermuteFailed
    BY <2>1, <2>2, <2>9 DEF PermuteFailed
  <2> QED BY <2>3, <2>4, <2>5, <2>6, <2>7, <2>8, <2>9
          DEF Next, StartTask, FinishTask, Terminated, vars
<1>6. Same
  <2> HIDE DEF Counting
  <2> QED BY <1>3, <1>4, <1>5
<1> QED BY <1>1, <1>6

LEMMA FactorPlaces ==
  ASSUME TypeOK, FlowOK, PlacesInv, NEW x \in Col, FactorBlockApp(x)
  PROVE  PlacesInv'
<1>1. status[factor(x)] = "running" /\ status' = [status EXCEPT ![factor(x)] = "done"]
  BY DEF FactorBlockApp, Flow!Finish
<1>2. status[adjust(x)] # "done"
  BY <1>1, ColumnTasks, AdjustAfterFactor, Behind
<1>3. /\ \A y \in Col : y < x => status[adjust(y)] = "done" /\ status[factor(y)] = "done"
      /\ \A y \in Col : x < y => status[factor(y)] # "done" /\ status[adjust(y)] # "done"
      /\ status[failed] = "waiting"
  BY <1>1, <1>2, Frontier
<1>4. /\ dpos' = [dpos EXCEPT ![x] = next_elim]
      /\ next_elim' = next_elim
      /\ \A k \in Col : k # x => nelim'[k] = nelim[k] /\ dpos'[k] = dpos[k]
      /\ dpos'[x] = next_elim
  BY DEF FactorBlockApp, TypeOK
<1>5. /\ \A k \in Col : status'[adjust(k)] = status[adjust(k)]
      /\ \A k \in Col : k # x => status'[factor(k)] = status[factor(k)]
      /\ status'[failed] = status[failed]
  <2>1. /\ \A k \in Col : adjust(k) # factor(x)
        /\ \A k \in Col : k # x => factor(k) # factor(x)
        /\ failed # factor(x)
    BY DEF adjust, factor, failed
  <2> QED BY <1>1, <2>1, ColumnTasks, LastsExist DEF FlowOK
<1>6. x \in Int /\ Col \subseteq Int /\ (\A k \in Col : k >= 0)
  BY ColumnNumbers DEF Col
<1>7. ((\A k \in Col : status[adjust(k)] # "done") /\ status[failed] # "done" => next_elim = 0)'
  BY <1>4, <1>5 DEF PlacesInv
<1>8. (\A k \in Col : status[factor(k)] = "done" /\ status[adjust(k)] # "done" => next_elim = dpos[k])'
  BY <1>3, <1>4, <1>5, <1>6
<1>9. (\A k \in Col :
        /\ status[adjust(k)] = "done" /\ status[failed] # "done"
        /\ \A y \in Col : k < y => status[adjust(y)] # "done"
        => next_elim = dpos[k] + nelim[k])'
  BY <1>2, <1>4, <1>5 DEF PlacesInv
<1>10. dpos'[x] = IF x = 0 THEN 0 ELSE dpos'[x - 1] + nelim'[x - 1]
  <2>1. CASE x = 0
    <3>1. \A k \in Col : status[adjust(k)] # "done"
      BY <1>2, <1>3, <1>6, <2>1
    <3> QED BY <1>3, <1>4, <2>1, <3>1 DEF PlacesInv
  <2>2. CASE x # 0
    <3>1. x - 1 \in Col /\ x - 1 # x /\ x - 1 < x
      BY <1>6, <2>2, ColumnNumbers DEF Col
    <3>2. \A y \in Col : x - 1 < y => status[adjust(y)] # "done"
      BY <1>2, <1>3, <1>6
    <3>3. next_elim = dpos[x - 1] + nelim[x - 1]
      BY <1>3, <3>1, <3>2 DEF PlacesInv
    <3> QED BY <1>4, <2>2, <3>1, <3>3
  <2> QED BY <2>1, <2>2
<1>11. \A k \in Col : status'[factor(k)] = "done" =>
         dpos'[k] = IF k = 0 THEN 0 ELSE dpos'[k - 1] + nelim'[k - 1]
  <2> SUFFICES ASSUME NEW k \in Col, k # x, status'[factor(k)] = "done"
               PROVE  dpos'[k] = IF k = 0 THEN 0 ELSE dpos'[k - 1] + nelim'[k - 1]
    BY <1>10
  <2>1. k < x
    BY <1>3, <1>5, <1>6
  <2>2. k # 0 => k - 1 \in Col /\ k - 1 # x
    BY <1>6, <2>1, ColumnNumbers DEF Col
  <2> QED BY <1>4, <1>5, <2>2 DEF PlacesInv, PivotsContiguous
<1>12. status'[adjust(nblk - 1)] # "done"
  <2>1. nblk - 1 \in Col /\ (x = nblk - 1 \/ x < nblk - 1)
    BY Shape, <1>6 DEF Col
  <2> QED BY <1>2, <1>3, <1>5, <2>1
<1> QED BY <1>7, <1>8, <1>9, <1>11, <1>12 DEF PlacesInv, PivotsContiguous

LEMMA AdjustPlaces ==
  ASSUME TypeOK, FlowOK, PlacesInv, NEW x \in Col, Adjust(x)
  PROVE  PlacesInv'
<1>1. status[adjust(x)] = "running" /\ status' = [status EXCEPT ![adjust(x)] = "done"]
  BY DEF Adjust, Flow!Finish
<1>2. status[factor(x)] = "done"
  BY <1>1, ColumnTasks, AdjustAfterFactor, Behind
<1>3. /\ \A y \in Col : y < x => status[adjust(y)] = "done" /\ status[factor(y)] = "done"
      /\ \A y \in Col : x < y => status[factor(y)] # "done" /\ status[adjust(y)] # "done"
      /\ status[failed] = "waiting"
  BY <1>1, <1>2, Frontier
<1>4. /\ next_elim' = next_elim + Adjusted(x)
      /\ dpos' = dpos
      /\ \A k \in Col : k # x => nelim'[k] = nelim[k]
      /\ nelim'[x] = Adjusted(x)
  BY DEF Adjust, TypeOK
<1>5. next_elim = dpos[x]
  BY <1>1, <1>2 DEF PlacesInv
<1>6. /\ \A k \in Col : status'[factor(k)] = status[factor(k)]
      /\ \A k \in Col : k # x => status'[adjust(k)] = status[adjust(k)]
      /\ status'[adjust(x)] = "done"
  <2>1. /\ \A k \in Col : factor(k) # adjust(x)
        /\ \A k \in Col : k # x => adjust(k) # adjust(x)
    BY DEF adjust, factor
  <2> QED BY <1>1, <2>1, ColumnTasks DEF FlowOK
<1>7. x \in Int /\ Col \subseteq Int
  BY ColumnNumbers
<1>8. (\A k \in Col : status[factor(k)] = "done" /\ status[adjust(k)] # "done" => next_elim = dpos[k])'
  <2>1. \A k \in Col : k < x \/ k = x \/ x < k
    BY <1>7
  <2>2. \A k \in Col : status'[factor(k)] = "done" => status'[adjust(k)] = "done"
    BY <1>3, <1>6, <2>1
  <2> QED BY <2>2
<1>9. (\A k \in Col :
        /\ status[adjust(k)] = "done" /\ status[failed] # "done"
        /\ \A y \in Col : k < y => status[adjust(y)] # "done"
        => next_elim = dpos[k] + nelim[k])'
  <2> SUFFICES ASSUME NEW k \in Col, status'[adjust(k)] = "done",
                      \A y \in Col : k < y => status'[adjust(y)] # "done"
               PROVE  next_elim' = dpos'[k] + nelim'[k]
    OBVIOUS
  <2>1. k = x
    BY <1>3, <1>6, <1>7
  <2> QED BY <1>4, <1>5, <2>1
<1>10. \A k \in Col : status'[factor(k)] = "done" =>
         dpos'[k] = IF k = 0 THEN 0 ELSE dpos'[k - 1] + nelim'[k - 1]
  <2> SUFFICES ASSUME NEW k \in Col, status'[factor(k)] = "done"
               PROVE  dpos'[k] = IF k = 0 THEN 0 ELSE dpos'[k - 1] + nelim'[k - 1]
    OBVIOUS
  <2>1. k <= x
    BY <1>3, <1>6, <1>7
  <2>2. k # 0 => k - 1 \in Col /\ k - 1 # x
    BY <1>7, <2>1, ColumnNumbers DEF Col
  <2> QED BY <1>4, <1>6, <2>2 DEF PlacesInv, PivotsContiguous
<1>11. status'[adjust(nblk - 1)] = "done" => next_elim' = dpos'[nblk - 1] + nelim'[nblk - 1]
  <2>1. nblk - 1 \in Col /\ (x = nblk - 1 \/ x < nblk - 1)
    BY Shape, <1>7 DEF Col
  <2>2. CASE x = nblk - 1
    BY <1>4, <1>5, <2>2
  <2>3. CASE x < nblk - 1
    <3>1. status'[adjust(nblk - 1)] # "done"
      BY <1>3, <1>6, <1>7, <2>1, <2>3
    <3> QED BY <3>1
  <2> QED BY <2>1, <2>2, <2>3
<1> QED BY <1>6, <1>8, <1>9, <1>10, <1>11 DEF PlacesInv, PivotsContiguous

LEMMA PlacesPreserved ==
  ASSUME TypeOK, FlowOK, PlacesInv, [Next]_vars
  PROVE  PlacesInv'
<1>1. ASSUME NEW x \in Col, FactorBlockApp(x)
      PROVE  PlacesInv'
  BY <1>1, FactorPlaces
<1>2. ASSUME NEW x \in Col, Adjust(x)
      PROVE  PlacesInv'
  BY <1>2, AdjustPlaces
<1>3. CASE FactorFrontIndefFailed
  <2>1. status[failed] = "running" /\ status' = [status EXCEPT ![failed] = "done"]
    BY <1>3 DEF FactorFrontIndefFailed, Flow!Finish
  <2>2. ASSUME NEW k \in Col
        PROVE  status[factor(k)] = "done" => status[adjust(k)] = "done"
    BY <2>1, Frontier
  <2>3. status'[failed] = "done"
    BY <2>1, LastsExist DEF FlowOK
  <2>4. \A k \in Col : /\ status'[factor(k)] = status[factor(k)]
                       /\ status'[adjust(k)] = status[adjust(k)]
    <3>1. \A k \in Col : factor(k) # failed /\ adjust(k) # failed
      BY DEF factor, adjust, failed
    <3> QED BY <2>1, <3>1, ColumnTasks DEF FlowOK
  <2>5. dpos' = dpos /\ nelim' = nelim
    BY <1>3 DEF FactorFrontIndefFailed
  <2> QED BY <2>2, <2>3, <2>4, <2>5 DEF PlacesInv, PivotsContiguous
<1>4. ASSUME ~ (\E x \in Col : FactorBlockApp(x)), ~ (\E x \in Col : Adjust(x)), ~ FactorFrontIndefFailed
      PROVE  PlacesInv'
  <2>1. nblk - 1 \in Col
    BY Shape DEF Col
  <2> QED BY <1>4, <2>1, OtherSteps DEF PlacesInv, PivotsContiguous
<1> QED BY <1>1, <1>2, <1>3, <1>4

LEMMA Places == Spec => []PlacesInv
<1>1. Init => PlacesInv
  <2>1. nblk - 1 \in Col
    BY Shape DEF Col
  <2> QED BY <2>1, ColumnTasks, LastsExist DEF Init, Flow!TaskInit, PlacesInv, PivotsContiguous
<1>2. TypeOK /\ FlowOK /\ PlacesInv /\ [Next]_vars => PlacesInv'
  BY PlacesPreserved
<1> QED BY <1>1, <1>2, FrontTypes, FrontFlow, PTL DEF Spec

(* The pivots of successive block columns lie one behind the other in D,    *)
(* although the counter that places them (NumericFront::nelim_, advanced by *)
(* Column::adjust) has no handle.                                           *)
THEOREM FrontPivotsContiguous == Spec => []PivotsContiguous
<1>1. PlacesInv => PivotsContiguous
  BY DEF PlacesInv
<1> QED BY <1>1, Places, PTL

-----------------------------------------------------------------------------
(* Data races: what the handles guard, the counts, and the pivots, whose    *)
(* places are kept apart by the counter.                                    *)

(* The pivots a block column keeps lie before the counter, which the next   *)
(* block column takes its places from.                                      *)
Placed == \A k \in Col : status[adjust(k)] = "done" => dpos[k] + nelim[k] <= next_elim

LEMMA PlacedPreserved ==
  ASSUME TypeOK, FlowOK, PlacesInv, Placed, [Next]_vars
  PROVE  Placed'
<1>0. /\ next_elim \in Int
      /\ \A k \in Col : dpos[k] \in Int /\ nelim[k] \in Int
  BY AptpFrontAssumption DEF TypeOK, Unset
<1>1. ASSUME NEW x \in Col, FactorBlockApp(x)
      PROVE  Placed'
  <2>1. status[factor(x)] = "running" /\ status' = [status EXCEPT ![factor(x)] = "done"]
    BY <1>1 DEF FactorBlockApp, Flow!Finish
  <2>2. status[adjust(x)] # "done"
    BY <2>1, ColumnTasks, AdjustAfterFactor, Behind
  <2>3. \A k \in Col : status'[adjust(k)] = status[adjust(k)]
    <3>1. \A k \in Col : adjust(k) # factor(x)
      BY DEF adjust, factor
    <3> QED BY <2>1, <3>1, ColumnTasks DEF FlowOK
  <2>4. /\ next_elim' = next_elim
        /\ \A k \in Col : k # x => nelim'[k] = nelim[k] /\ dpos'[k] = dpos[k]
    BY <1>1 DEF FactorBlockApp, TypeOK
  <2> QED BY <2>2, <2>3, <2>4 DEF Placed
<1>2. ASSUME NEW x \in Col, Adjust(x)
      PROVE  Placed'
  <2>1. status[adjust(x)] = "running" /\ status' = [status EXCEPT ![adjust(x)] = "done"]
    BY <1>2 DEF Adjust, Flow!Finish
  <2>2. status[factor(x)] = "done"
    BY <2>1, ColumnTasks, AdjustAfterFactor, Behind
  <2>3. next_elim = dpos[x]
    BY <2>1, <2>2 DEF PlacesInv
  <2>4. Adjusted(x) \in Nat
    BY AptpFrontAssumption DEF TypeOK, Adjusted
  <2>5. /\ next_elim' = next_elim + Adjusted(x) /\ dpos' = dpos
        /\ nelim'[x] = Adjusted(x)
        /\ \A k \in Col : k # x => nelim'[k] = nelim[k]
    BY <1>2 DEF Adjust, TypeOK
  <2>6. \A k \in Col : k # x => status'[adjust(k)] = status[adjust(k)]
    <3>1. \A k \in Col : k # x => adjust(k) # adjust(x)
      BY DEF adjust
    <3> QED BY <2>1, <3>1, ColumnTasks DEF FlowOK
  <2> SUFFICES ASSUME NEW k \in Col, status'[adjust(k)] = "done"
               PROVE  dpos'[k] + nelim'[k] <= next_elim'
    BY DEF Placed
  <2>7. CASE k = x
    BY <1>0, <2>3, <2>4, <2>5, <2>7
  <2>8. CASE k # x
    <3>1. dpos[k] + nelim[k] <= next_elim
      BY <2>6, <2>8 DEF Placed
    <3> QED BY <1>0, <2>4, <2>5, <2>8, <3>1
  <2> QED BY <2>7, <2>8
<1>3. CASE FactorFrontIndefFailed
  <2>1. next_elim' \in Int /\ next_elim <= next_elim' /\ dpos' = dpos /\ nelim' = nelim
    BY <1>0, <1>3, AptpFrontAssumption DEF FactorFrontIndefFailed
  <2>2. \A k \in Col : status'[adjust(k)] = status[adjust(k)]
    <3>1. \A k \in Col : adjust(k) # failed
      BY DEF adjust, failed
    <3>2. status' = [status EXCEPT ![failed] = "done"]
      BY <1>3 DEF FactorFrontIndefFailed, Flow!Finish
    <3> QED BY <3>1, <3>2, ColumnTasks DEF FlowOK
  <2> SUFFICES ASSUME NEW k \in Col, status'[adjust(k)] = "done"
               PROVE  dpos'[k] + nelim'[k] <= next_elim'
    BY DEF Placed
  <2>3. dpos[k] + nelim[k] <= next_elim
    BY <2>2 DEF Placed
  <2> QED BY <1>0, <2>1, <2>3
<1>4. ASSUME ~ (\E x \in Col : FactorBlockApp(x)), ~ (\E x \in Col : Adjust(x)), ~ FactorFrontIndefFailed
      PROVE  Placed'
  BY <1>4, OtherSteps DEF Placed
<1> QED BY <1>1, <1>2, <1>3, <1>4

LEMMA PivotsPlaced == Spec => []Placed
<1>1. Init => Placed
  BY ColumnTasks DEF Init, Flow!TaskInit, Placed
<1>2. TypeOK /\ FlowOK /\ PlacesInv /\ Placed /\ [Next]_vars => Placed'
  BY PlacedPreserved
<1> QED BY <1>1, <1>2, FrontTypes, FrontFlow, Places, PTL DEF Spec

(* The tasks that write a count or a pivot run alone among those that use   *)
(* it.                                                                      *)
LEMMA CountsAlone ==
  ASSUME TypeOK, FlowOK, FrontApart, Placed,
         NEW t \in FrontTask, NEW u \in FrontTask, t # u,
         t \notin Lasts, u \notin Lasts, status[t] = "running", status[u] = "running",
         NEW x \in writes(t), Unguarded(x), x \in reads(u) \cup writes(u)
  PROVE  FALSE
<1>1. PICK k \in Col : \/ t = factor(k) /\ x \in FactorWrites(k)
                       \/ t = adjust(k) /\ x \in AdjustWrites(k)
  BY CountWriters
<1>2. status[factor(k)] # "waiting" /\ (status[adjust(k)] # "waiting" => status[factor(k)] = "done")
  BY <1>1, ColumnTasks, AdjustAfterFactor, Behind
<1>3. status[adjust(k)] # "done"
  BY <1>1, <1>2
<1>4. \A y \in Col : status[factor(y)] # "waiting" /\ k < y => FALSE
  BY <1>3, ColumnOrder
<1>5. ASSUME NEW y \in Col, y # k, status[factor(y)] # "waiting"
      PROVE  status[adjust(y)] = "done" /\ status[factor(y)] = "done"
  <2>1. y < k
    BY <1>4, <1>5, Indices
  <2>2. status[adjust(y)] = "done"
    BY <1>2, <2>1, ColumnOrder
  <2> QED BY <2>2, ColumnTasks, AdjustAfterFactor, Behind
<1>6. ASSUME NEW y \in Col, u \in {factor(y), adjust(y)}
      PROVE  FALSE
  <2>1. status[factor(y)] # "waiting"
    BY <1>6, ColumnTasks, AdjustAfterFactor, Behind
  <2>2. y = k
    BY <1>5, <1>6, <2>1
  <2> QED BY <1>1, <1>2, <1>6, <2>2
<1>7. ASSUME NEW y \in Col, u[1] \in {"applyT", "applyN"}, u[2] = y
      PROVE  FALSE
  <2>1. status[factor(y)] = "done" /\ status[adjust(y)] = "waiting"
    BY <1>7, ApplyInTime
  <2>2. y = k
    BY <1>5, <2>1
  <2> QED BY <1>1, <2>1, <2>2
<1>8. CASE x \in writes(u)
  BY <1>6, <1>8, CountWriters
<1>9. CASE x \in reads(u) /\ Count(x)
  <2>1. x = Counter \/ x = Cnelim(k)
    BY <1>1, <1>9 DEF FactorWrites, AdjustWrites, Count, Cd, Cperm, Dplace, Cfirst
  <2>2. CASE x = Counter
    BY <1>6, <1>9, <2>2, CounterReaders
  <2>3. CASE x = Cnelim(k)
    <3>1. ~ (u[1] \in {"applyT", "applyN"} /\ u[2] = k)
      BY <1>7
    <3> QED BY <1>3, <1>9, <2>3, <3>1, ReadersAfterAdjust
  <2> QED BY <2>1, <2>2, <2>3
<1>10. CASE x \in reads(u) /\ ~ Count(x)
  <2> DEFINE y == u[2]
  <2>1. y \in Col /\ Cnelim(y) \in reads(u) /\ (x \in Pivots(y, nelim[y]) \/ x = Cfirst(y))
    BY <1>6, <1>10, PivotReaders
  <2>2. status[adjust(y)] = "done"
    <3>1. ~ (u[1] \in {"applyT", "applyN"} /\ u[2] = y)
      BY <1>7, <2>1
    <3> QED BY <2>1, <3>1, ReadersAfterAdjust
  <2>3. y # k
    BY <1>3, <2>2
  <2> HIDE DEF y
  <2>4. \/ x = Cfirst(k) \/ x = Cd(k) \/ x = Cperm(k)
        \/ \E z \in 0..(ncol(k) - 1) : x = Dplace(next_elim + z)
    BY <1>1, <1>10 DEF FactorWrites, AdjustWrites, Count, Cnelim, Counter
  <2>5. \/ x = Cfirst(y) \/ x = Cd(y)
        \/ \E z \in 0..(nelim[y] - 1) : x = Dplace(dpos[y] + z)
    BY <2>1 DEF Pivots
  <2>6. \E z \in 0..(ncol(k) - 1), w \in 0..(nelim[y] - 1) : next_elim + z = dpos[y] + w
    BY <2>3, <2>4, <2>5 DEF Cfirst, Cd, Cperm, Dplace
  <2>7. /\ next_elim \in Int /\ dpos[y] \in Int /\ nelim[y] \in Int /\ ncol(k) \in Int
        /\ dpos[y] + nelim[y] <= next_elim
    BY <2>1, <2>2, ColumnNumbers, AptpFrontAssumption DEF TypeOK, Placed, Unset
  <2> QED BY <2>6, <2>7
<1> QED BY <1>8, <1>9, <1>10

LEMMA FrontRaceFree == TypeOK /\ FlowOK /\ FrontApart /\ Placed => NoDataRace
<1> SUFFICES ASSUME TypeOK, FlowOK, FrontApart, Placed, NEW t \in running, NEW u \in running, t # u,
                    NEW x \in writes(t), x \in reads(u) \cup writes(u)
             PROVE  FALSE
  BY DEF NoDataRace
<1>1. /\ t \in FrontTask /\ status[t] = "running"
      /\ u \in FrontTask /\ status[u] = "running"
  BY DEF running
<1>2. CASE t \in Lasts \/ u \in Lasts
  BY <1>1, <1>2, LastsAlone
<1>3. CASE t \notin Lasts /\ u \notin Lasts /\ Unguarded(x)
  BY <1>1, <1>3, CountsAlone
<1>4. CASE t \notin Lasts /\ u \notin Lasts /\ ~ Unguarded(x)
  <2>1. Guard(x) \in FrontHandle /\ Guard(x) \in Inserted(t).rw \cup Inserted(t).c
    BY <1>1, <1>4, WritesGuarded
  <2>2. Guard(x) \in Named(u)
    BY <1>1, <1>4, WritesGuarded, ReadsGuarded DEF Named
  <2> QED BY <1>1, <2>1, <2>2, Alone
<1> QED BY <1>2, <1>3, <1>4

(* No two tasks at work touch the same memory unless both read it: the      *)
(* modes given to starpu_insert_task are enough also for the counter of the *)
(* front, the counts of other columns, the permutations, the backups, the   *)
(* blocks the last two tasks change under column handles, and the pivots,   *)
(* which are read without Column::get_d_hdl: a block column writes only     *)
(* places behind those any earlier one has kept.                            *)
THEOREM FrontNoDataRace == Spec => []NoDataRace
  BY FrontTypes, FrontFlow, FrontExclusion, PivotsPlaced, FrontRaceFree, PTL

-----------------------------------------------------------------------------
(***************************************************************************)
(* What the tiles and the blocks of a front contain: first the tiles of    *)
(* the contribution block, then the blocks and their backups.              *)
(***************************************************************************)

-----------------------------------------------------------------------------
(***************************************************************************)
(* The tiles of the contribution block, in the build without GPUs: only    *)
(* the first update of a tile overwrites what its memory held, and the     *)
(* tasks that update it commute. The tasks of later block columns come     *)
(* later all the same, through the blocks they restore:                    *)
(*                                                                         *)
(*   contrib(k, i, j)  reads block (i, k), which                           *)
(*   updateT(x, i, k)  changes, for x > k; it reads block (i, x), which    *)
(*   updateN(x, i, x)  restores, before                                    *)
(*   contrib(x, i, j)  reads it.                                           *)
(*                                                                         *)
(* With GPUs block (i, x) is restored by a task that is submitted before   *)
(* updateT(x, i, k), and the chain is broken.                              *)
(***************************************************************************)

Contrib(k, b) == contrib(k, b[1], b[2])

LEMMA ContribTask ==
  ASSUME NEW k \in Col, NEW b \in Tile
  PROVE  Contrib(k, b) \in FrontTask
<1>1. <<k, b>> \in Col \X Tile
  OBVIOUS
<1>2. Contrib(k, b) = contrib(<<k, b>>[1], <<k, b>>[2][1], <<k, b>>[2][2])
  BY DEF Contrib
<1> QED BY <1>1, <1>2 DEF FrontTask

LEMMA TileShape ==
  ASSUME NEW b \in Tile, NEW c \in Tile
  PROVE  /\ b[1] = c[1] /\ b[2] = c[2] => b = c
         /\ \A k, x : Contrib(k, b) = Contrib(x, c) => k = x /\ b = c
<1>1. b = <<b[1], b[2]>> /\ c = <<c[1], c[2]>>
  BY DEF Tile
<1> QED BY <1>1 DEF Contrib, contrib

LEMMA ContribAfterAdjust ==
  ASSUME FlowOK, NEW k \in Col, NEW b \in Tile, status[Contrib(k, b)] # "waiting"
  PROVE  status[adjust(k)] = "done"
<1> DEFINE t == Contrib(k, b)
<1>1. b[1] \in Row /\ k <= b[1]
  BY Indices
<1>2. A(b[1], k) \in Inserted(t).r /\ A(b[1], k) \notin Inserted(t).c
  BY InsertedBy DEF Contrib, insert_update_contrib_block_app, A, U
<1>3. SubmittedBefore(Restorer(k, b[1]), t)
  BY DEF Contrib, contrib, SubmittedBefore, Restorer, restore, updateN, Phase
<1> QED BY <1>1, <1>2, <1>3, AfterRestore, ContribTask

(* Without GPUs the updates of a tile end in the order of the columns.      *)
LEMMA ContribInOrder ==
  ASSUME ~ UseGpu, FlowOK, NEW k \in Col, NEW x \in Col, k < x, NEW b \in Tile,
         status[Contrib(x, b)] # "waiting"
  PROVE  status[Contrib(k, b)] = "done"
<1> DEFINE i == b[1]
           n == updateN(x, i, x)
           s == updateT(x, i, k)
<1>1. i \in Row /\ k <= i /\ x <= i
  BY Indices
<1>2. n \in FrontTask
  BY <1>1, RestorerTask DEF Restorer
<1>3. s \in FrontTask
  <2>1. <<i, k>> \in Block
    BY <1>1, Indices
  <2>2. <<x, <<i, k>>>> \in {d \in Col \X Block : d[2][2] < d[1]}
    BY <2>1
  <2> QED BY <2>2 DEF FrontTask
<1>4. /\ A(i, x) \in FrontHandle /\ A(i, k) \in FrontHandle
  BY <1>1, BlockHandle
<1>5. n \in FrontPred[Contrib(x, b)]
  <2>1. A(i, x) \in Inserted(n).c
    BY InsertedBy DEF insert_updateN_block_app
  <2>2. A(i, x) \in Inserted(Contrib(x, b)).r /\ A(i, x) \notin Inserted(Contrib(x, b)).c
    BY InsertedBy DEF Contrib, insert_update_contrib_block_app, A, U
  <2>3. SubmittedBefore(n, Contrib(x, b))
    BY DEF Contrib, contrib, SubmittedBefore, updateN, Phase
  <2> QED BY <1>2, <1>4, <2>1, <2>2, <2>3, Depends, ContribTask
<1>6. s \in FrontPred[n]
  <2>1. A(i, x) \in Inserted(s).r /\ A(i, x) \notin Inserted(s).c /\ A(i, x) \in Named(s)
    BY <1>1, InsertedBy DEF insert_updateT_block_app, isrc, Named
  <2>2. A(i, x) \in Inserted(n).c
    BY InsertedBy DEF insert_updateN_block_app
  <2>3. SubmittedBefore(s, n)
    BY DEF SubmittedBefore, updateN, updateT, Phase
  <2>4. FrontAccess[s][A(i, x)] \in {"R", "RW"} /\ FrontAccess[n][A(i, x)] \in {"C", "RW"}
    BY <1>2, <1>3, <1>4, <2>1, <2>2, Held
  <2>5. Flow!Conflict(s, n)
    BY <1>4, <2>4 DEF Flow!Conflict, Flow!Clash
  <2>6. <<s, n>> \in FrontBefore
    BY <1>2, <1>3, <2>3 DEF FrontBefore
  <2> QED BY <1>3, <1>2, <2>4, <2>5, <2>6, <1>4
          DEF FrontPred, Flow!Pred, Flow!MustPrecede, Flow!Conflict, Flow!Clash
<1>7. Contrib(k, b) \in FrontPred[s]
  <2>1. A(i, k) \in Inserted(s).rw
    BY InsertedBy DEF insert_updateT_block_app
  <2>2. A(i, k) \in Named(Contrib(k, b))
    BY InsertedBy DEF Contrib, Named, insert_update_contrib_block_app
  <2>3. SubmittedBefore(Contrib(k, b), s)
    BY DEF Contrib, contrib, SubmittedBefore, updateT
  <2> QED BY <1>3, <1>4, <2>1, <2>2, <2>3, Depends, ContribTask
<1>8. status[n] = "done"
  BY <1>5, Behind, ContribTask
<1>9. status[s] = "done"
  BY <1>2, <1>6, <1>8, Behind
<1> QED BY <1>3, <1>7, <1>9, Behind

(* All contributions are in before the second pass.                         *)
LEMMA ContribBeforeFailed ==
  ASSUME FlowOK, NEW k \in Col, NEW b \in Tile, status[failed] # "waiting"
  PROVE  status[Contrib(k, b)] = "done"
<1>1. Contrib(k, b) \notin Lasts
  BY DEF Contrib, contrib, Lasts, permute, failed
<1>2. status[permute] = "done"
  BY PermuteBeforeFailed, LastsExist, Behind
<1> QED BY <1>1, <1>2, AllBeforePermute, ContribTask, LastsExist, Behind

LEMMA AdjustBeforeFailed ==
  ASSUME FlowOK, NEW k \in Col, status[failed] # "waiting"
  PROVE  status[adjust(k)] = "done"
<1>1. adjust(k) \notin Lasts
  BY DEF adjust, Lasts, permute, failed
<1>2. status[permute] = "done"
  BY PermuteBeforeFailed, LastsExist, Behind
<1> QED BY <1>1, <1>2, AllBeforePermute, ColumnTasks, LastsExist, Behind

-----------------------------------------------------------------------------
(* What the counts and the tiles hold.                                      *)

(* The counter of the front is zero as long as no adjusted column kept any. *)
CounterInv ==
  /\ \A x \in Col : status[adjust(x)] = "done" => nelim[x] \in Nat
  /\ status[failed] # "done" =>
       /\ next_elim \in Nat
       /\ next_elim = 0 <=> \A x \in Col : status[adjust(x)] = "done" => nelim[x] = 0

(* The first column with eliminations, and no other, is marked.             *)
FirstInv ==
  \A k \in Col : status[adjust(k)] = "done" =>
    (first_elim[k] <=> nelim[k] > 0 /\ \A x \in Col : x < k => nelim[x] = 0)

(* The columns whose update is in tile b.                                   *)
Added(b) == {k \in Col : status[Contrib(k, b)] = "done" /\ nelim[k] > 0}

TileInv ==
  status[failed] # "done" =>
    \A b \in Tile : tile[b] = IF Added(b) = {} THEN {Stale} ELSE Added(b)

ContribInv == CounterInv /\ FirstInv /\ TileInv /\ ContribFormed

LEMMA FactorContrib ==
  ASSUME TypeOK, FlowOK, ContribInv, NEW x \in Col, FactorBlockApp(x)
  PROVE  ContribInv'
<1>1. status[factor(x)] = "running" /\ status' = [status EXCEPT ![factor(x)] = "done"]
  BY DEF FactorBlockApp, Flow!Finish
<1>2. status[adjust(x)] # "done"
  BY <1>1, ColumnTasks, AdjustAfterFactor, Behind
<1>3. /\ \A y \in Col : x < y => status[adjust(y)] # "done"
      /\ status[failed] = "waiting"
  BY <1>1, <1>2, Frontier
<1>4. /\ next_elim' = next_elim /\ first_elim' = first_elim /\ tile' = tile
      /\ \A k \in Col : k # x => nelim'[k] = nelim[k]
  BY DEF FactorBlockApp, TypeOK
<1>5. /\ \A k \in Col : status'[adjust(k)] = status[adjust(k)]
      /\ \A k \in Col, b \in Tile : status'[Contrib(k, b)] = status[Contrib(k, b)]
      /\ status'[failed] = status[failed]
  <2>1. /\ \A k \in Col : adjust(k) # factor(x)
        /\ \A k \in Col, b \in Tile : Contrib(k, b) # factor(x)
        /\ failed # factor(x)
    BY DEF adjust, factor, failed, Contrib, contrib
  <2> QED BY <1>1, <2>1, ColumnTasks, LastsExist, ContribTask DEF FlowOK
<1>6. CounterInv'
  BY <1>2, <1>4, <1>5 DEF ContribInv, CounterInv
<1>7. FirstInv'
  <2> SUFFICES ASSUME NEW k \in Col, status[adjust(k)] = "done"
               PROVE  first_elim[k] <=> nelim'[k] > 0 /\ \A y \in Col : y < k => nelim'[y] = 0
    BY <1>4, <1>5 DEF FirstInv
  <2>1. k # x /\ ~ (x < k)
    BY <1>2, <1>3
  <2> QED BY <1>4, <2>1 DEF ContribInv, FirstInv
<1>8. \A b \in Tile : Added(b)' = Added(b)
  <2>1. \A b \in Tile : status[Contrib(x, b)] # "done"
    BY <1>2, ContribAfterAdjust
  <2> QED BY <1>4, <1>5, <2>1 DEF Added
<1> QED BY <1>3, <1>4, <1>5, <1>6, <1>7, <1>8 DEF ContribInv, TileInv, ContribFormed

LEMMA AdjustContrib ==
  ASSUME TypeOK, FlowOK, ContribInv, NEW x \in Col, Adjust(x)
  PROVE  ContribInv'
<1>1. status[adjust(x)] = "running" /\ status' = [status EXCEPT ![adjust(x)] = "done"]
  BY DEF Adjust, Flow!Finish
<1>2. status[factor(x)] = "done"
  BY <1>1, ColumnTasks, AdjustAfterFactor, Behind
<1>3. /\ \A y \in Col : y < x => status[adjust(y)] = "done"
      /\ \A y \in Col : x < y => status[adjust(y)] # "done"
      /\ status[failed] = "waiting"
  BY <1>1, <1>2, Frontier
<1>4. /\ next_elim' = next_elim + Adjusted(x) /\ tile' = tile
      /\ \A k \in Col : k # x => nelim'[k] = nelim[k] /\ first_elim'[k] = first_elim[k]
      /\ nelim'[x] = Adjusted(x)
      /\ first_elim'[x] = (next_elim = 0 /\ Adjusted(x) > 0)
  BY DEF Adjust, TypeOK
<1>5. /\ \A k \in Col : k # x => status'[adjust(k)] = status[adjust(k)]
      /\ status'[adjust(x)] = "done"
      /\ \A k \in Col, b \in Tile : status'[Contrib(k, b)] = status[Contrib(k, b)]
      /\ status'[failed] = status[failed]
  <2>1. /\ \A k \in Col : k # x => adjust(k) # adjust(x)
        /\ \A k \in Col, b \in Tile : Contrib(k, b) # adjust(x)
        /\ failed # adjust(x)
    BY DEF adjust, failed, Contrib, contrib
  <2> QED BY <1>1, <2>1, ColumnTasks, LastsExist, ContribTask DEF FlowOK
<1>6. Adjusted(x) \in Nat
  BY AptpFrontAssumption DEF Adjusted, TypeOK
<1>7. next_elim \in Nat /\ (next_elim = 0 <=> \A y \in Col : y < x => nelim[y] = 0)
  <2>1. \A y \in Col : status[adjust(y)] = "done" <=> y < x
    BY <1>1, <1>3, ColumnNumbers
  <2> QED BY <1>3, <2>1 DEF ContribInv, CounterInv
<1>8. CounterInv'
  <2>1. \A y \in Col : status'[adjust(y)] = "done" => nelim'[y] \in Nat
    BY <1>4, <1>5, <1>6 DEF ContribInv, CounterInv
  <2>2. \A y \in Col : status'[adjust(y)] = "done" <=> y < x \/ y = x
    BY <1>3, <1>5, ColumnNumbers
  <2>3. next_elim' \in Nat /\ (next_elim' = 0 <=> next_elim = 0 /\ Adjusted(x) = 0)
    BY <1>4, <1>6, <1>7
  <2>4. x \in Int /\ Col \subseteq Int
    BY ColumnNumbers
  <2>5. next_elim' = 0 <=> \A y \in Col : status'[adjust(y)] = "done" => nelim'[y] = 0
    BY <1>4, <1>7, <2>2, <2>3, <2>4
  <2> QED BY <2>1, <2>3, <2>5 DEF CounterInv
<1>9. FirstInv'
  <2> SUFFICES ASSUME NEW k \in Col, status'[adjust(k)] = "done"
               PROVE  first_elim'[k] <=> nelim'[k] > 0 /\ \A y \in Col : y < k => nelim'[y] = 0
    BY DEF FirstInv
  <2>1. CASE k = x
    <3>1. \A y \in Col : y < x => y # x /\ nelim'[y] = nelim[y]
      BY <1>4, ColumnNumbers
    <3>2. (\A y \in Col : y < x => nelim'[y] = 0) <=> next_elim = 0
      BY <1>7, <3>1
    <3>3. first_elim'[x] <=> nelim'[x] > 0 /\ next_elim = 0
      BY <1>4
    <3> QED BY <2>1, <3>2, <3>3
  <2>2. CASE k # x
    <3>1. k < x /\ \A y \in Col : y < k => y # x
      BY <1>3, <1>5, <2>2, ColumnNumbers
    <3> QED BY <1>3, <1>4, <2>2, <3>1 DEF ContribInv, FirstInv
  <2> QED BY <2>1, <2>2
<1>10. \A b \in Tile : Added(b)' = Added(b)
  <2>1. \A b \in Tile : status[Contrib(x, b)] # "done"
    BY <1>1, ContribAfterAdjust
  <2> QED BY <1>4, <1>5, <2>1 DEF Added
<1> QED BY <1>3, <1>4, <1>5, <1>8, <1>9, <1>10 DEF ContribInv, TileInv, ContribFormed

LEMMA TileContrib ==
  ASSUME ~ UseGpu, TypeOK, FlowOK, ContribInv, NEW k \in Col, NEW b \in Tile,
         UpdateContribBlockApp(k, b[1], b[2])
  PROVE  ContribInv'
<1>1. status[Contrib(k, b)] = "running" /\ status' = [status EXCEPT ![Contrib(k, b)] = "done"]
  BY DEF UpdateContribBlockApp, Flow!Finish, Contrib
<1>2. UNCHANGED <<nelim, first_elim, next_elim, nelim_first_pass>>
  BY DEF UpdateContribBlockApp, columnVars, frontVars
<1>3. /\ \A x \in Col : x < k => status[Contrib(x, b)] = "done"
      /\ \A x \in Col : k < x => status[Contrib(x, b)] # "done"
  <2>1. ASSUME NEW x \in Col, x < k
        PROVE  status[Contrib(x, b)] = "done"
    BY <1>1, <2>1, ContribInOrder
  <2>2. ASSUME NEW x \in Col, k < x, status[Contrib(x, b)] = "done"
        PROVE  FALSE
    BY <1>1, <2>2, ContribInOrder
  <2> QED BY <2>1, <2>2
<1>4. status[adjust(k)] = "done" /\ \A x \in Col : x < k => status[adjust(x)] = "done"
  BY <1>1, <1>3, ContribAfterAdjust
<1>5. status[failed] = "waiting"
  BY <1>1, ContribBeforeFailed, LastsExist DEF FlowOK
<1>6. /\ \A x \in Col : status'[adjust(x)] = status[adjust(x)]
      /\ status'[failed] = status[failed]
      /\ \A x \in Col, c \in Tile : x # k \/ c # b => status'[Contrib(x, c)] = status[Contrib(x, c)]
      /\ status'[Contrib(k, b)] = "done"
  <2>1. /\ \A x \in Col : adjust(x) # Contrib(k, b)
        /\ failed # Contrib(k, b)
    BY DEF adjust, failed, Contrib, contrib
  <2>2. \A x \in Col, c \in Tile : x # k \/ c # b => Contrib(x, c) # Contrib(k, b)
    BY TileShape
  <2> QED BY <1>1, <2>1, <2>2, ColumnTasks, LastsExist, ContribTask DEF FlowOK
<1>7. nelim[k] \in Nat /\ \A x \in Col : x < k => nelim[x] \in Nat
  BY <1>4 DEF ContribInv, CounterInv
<1>8. Added(b)' = IF nelim[k] > 0 THEN Added(b) \cup {k} ELSE Added(b)
  BY <1>1, <1>2, <1>6 DEF Added
<1>9. \A c \in Tile : c # b => Added(c)' = Added(c)
  BY <1>2, <1>6 DEF Added
<1>10. nelim[k] > 0 => (first_elim[k] <=> Added(b) = {})
  <2>1. first_elim[k] <=> nelim[k] > 0 /\ \A x \in Col : x < k => nelim[x] = 0
    BY <1>4 DEF ContribInv, FirstInv
  <2>2. \A x \in Added(b) : x \in Col /\ x < k /\ nelim[x] > 0
    BY <1>1, <1>3, ColumnNumbers DEF Added
  <2>3. \A x \in Col : x < k /\ nelim[x] # 0 => x \in Added(b)
    BY <1>3, <1>7 DEF Added
  <2> QED BY <2>1, <2>2, <2>3
<1>11. b = <<b[1], b[2]>>
  BY DEF Tile
<1>12. /\ \A c \in Tile : c # b => tile'[c] = tile[c]
       /\ tile'[b] = IF nelim[k] <= 0 THEN tile[b] ELSE update_contrib_block(tile[b], k, first_elim[k])
  BY <1>11 DEF UpdateContribBlockApp, TypeOK
<1>13. \A c \in Tile : tile[c] = IF Added(c) = {} THEN {Stale} ELSE Added(c)
  BY <1>5 DEF ContribInv, TileInv
<1>14. tile'[b] = IF Added(b)' = {} THEN {Stale} ELSE Added(b)'
  <2>1. CASE nelim[k] > 0
    <3>1. tile'[b] = IF Added(b) = {} THEN {k} ELSE tile[b] \cup {k}
      BY <1>7, <1>10, <1>12, <2>1 DEF update_contrib_block
    <3> QED BY <1>8, <1>13, <2>1, <3>1
  <2>2. CASE ~ (nelim[k] > 0)
    <3>1. nelim[k] <= 0
      BY <1>7, <2>2
    <3>2. tile'[b] = tile[b] /\ Added(b)' = Added(b)
      BY <1>8, <1>12, <2>2, <3>1
    <3>3. tile[b] = IF Added(b) = {} THEN {Stale} ELSE Added(b)
      BY <1>13
    <3> QED BY <3>2, <3>3
  <2> QED BY <2>1, <2>2
<1>15. TileInv'
  BY <1>9, <1>12, <1>13, <1>14 DEF TileInv
<1>16. CounterInv' /\ FirstInv'
  BY <1>2, <1>6 DEF ContribInv, CounterInv, FirstInv
<1> QED BY <1>5, <1>6, <1>15, <1>16 DEF ContribInv, ContribFormed

LEMMA FailedContrib ==
  ASSUME TypeOK, FlowOK, ContribInv, FactorFrontIndefFailed
  PROVE  ContribInv'
<1>1. status[failed] = "running" /\ status' = [status EXCEPT ![failed] = "done"]
  BY DEF FactorFrontIndefFailed, Flow!Finish
<1>2. nelim' = nelim /\ first_elim' = first_elim /\ nelim_first_pass' = next_elim
  BY DEF FactorFrontIndefFailed
<1>3. PICK added \in 0..(N - next_elim) :
        /\ next_elim' = next_elim + added
        /\ tile' = IF next_elim' = 0 THEN zero_contrib_blocks(tile)
                   ELSE IF added = 0 THEN tile
                   ELSE [b \in Tile |-> update_contrib_block(tile[b], SecondPass, next_elim = 0)]
  BY DEF FactorFrontIndefFailed
<1>4. /\ \A x \in Col : status'[adjust(x)] = status[adjust(x)]
      /\ status'[failed] = "done"
  <2>1. \A x \in Col : adjust(x) # failed
    BY DEF adjust, failed
  <2> QED BY <1>1, <2>1, ColumnTasks, LastsExist DEF FlowOK
<1>5. \A x \in Col : status[adjust(x)] = "done" /\ nelim[x] \in Nat
  BY <1>1, AdjustBeforeFailed DEF ContribInv, CounterInv
<1>6. next_elim \in Nat /\ (next_elim = 0 <=> \A x \in Col : nelim[x] = 0)
  BY <1>1, <1>5 DEF ContribInv, CounterInv
<1>7. \A b \in Tile : Added(b) = Eliminated(nblk)
  BY <1>1, ContribBeforeFailed DEF Added, Eliminated, Col
<1>8. Eliminated(nblk) = {} <=> next_elim = 0
  <2>1. \A x \in Col : nelim[x] > 0 <=> nelim[x] # 0
    BY <1>5
  <2>2. Eliminated(nblk) = {x \in Col : nelim[x] > 0}
    BY DEF Eliminated, Col
  <2> QED BY <1>6, <2>1, <2>2
<1>9. \A b \in Tile : tile[b] = IF next_elim = 0 THEN {Stale} ELSE Eliminated(nblk)
  BY <1>1, <1>7, <1>8 DEF ContribInv, TileInv
<1>10. Eliminated(nblk)' = Eliminated(nblk)
  BY <1>2 DEF Eliminated
<1>11. ContribFormed'
  <2> SUFFICES ASSUME next_elim' > 0, NEW b \in Tile
               PROVE  tile'[b] = Eliminated(nblk)
                        \cup (IF next_elim' > nelim_first_pass' THEN {SecondPass} ELSE {})
    BY <1>10 DEF ContribFormed
  <2>1. added \in Int /\ 0 <= added
    BY AptpFrontAssumption, <1>6
  <2>2. CASE added = 0
    BY <1>2, <1>3, <1>6, <1>9, <2>2
  <2>3. CASE added > 0
    <3>1. tile'[b] = update_contrib_block(tile[b], SecondPass, next_elim = 0)
      BY <1>3, <1>6, <2>3
    <3>2. next_elim' > nelim_first_pass'
      BY <1>2, <1>3, <1>6, <2>1, <2>3
    <3>3. CASE next_elim = 0
      BY <1>8, <3>1, <3>2, <3>3 DEF update_contrib_block
    <3>4. CASE next_elim # 0
      BY <1>9, <3>1, <3>2, <3>4 DEF update_contrib_block
    <3> QED BY <3>3, <3>4
  <2> QED BY <2>1, <2>2, <2>3
<1>12. CounterInv' /\ FirstInv'
  BY <1>2, <1>4 DEF ContribInv, CounterInv, FirstInv
<1> QED BY <1>4, <1>11, <1>12 DEF ContribInv, TileInv

LEMMA OtherContribSteps ==
  ASSUME FlowOK, [Next]_vars,
         ~ (\E x \in Col : FactorBlockApp(x)), ~ (\E x \in Col : Adjust(x)),
         ~ (\E k \in Col, b \in Tile : UpdateContribBlockApp(k, b[1], b[2])),
         ~ FactorFrontIndefFailed
  PROVE  /\ UNCHANGED <<nelim, first_elim, next_elim, tile, nelim_first_pass>>
         /\ \A k \in Col : status'[adjust(k)] = "done" <=> status[adjust(k)] = "done"
         /\ \A k \in Col, b \in Tile :
              status'[Contrib(k, b)] = "done" <=> status[Contrib(k, b)] = "done"
         /\ status'[failed] = "done" <=> status[failed] = "done"
<1> DEFINE Forming == {t \in FrontTask : t[1] \in {"adjust", "contrib", "failed"}}
           Same == \A t \in Forming : status'[t] = "done" <=> status[t] = "done"
<1>1. UNCHANGED <<nelim, first_elim, next_elim, tile, nelim_first_pass>>
  BY DEF Next, StartTask, FinishTask, ApplyTBlockApp, ApplyNBlockApp, ApplyPivot, UpdateBlock,
         RestoreFailedBlockApp, UpdateTBlockApp, UpdateNBlockApp,
         PermuteFailed, Terminated, vars, columnVars, frontVars
<1>2. /\ \A k \in Col : adjust(k) \in Forming
      /\ \A k \in Col, b \in Tile : Contrib(k, b) \in Forming
      /\ failed \in Forming
  BY ColumnTasks, ContribTask, LastsExist DEF adjust, Contrib, contrib, failed
<1>3. ASSUME NEW t \in FrontTask, Flow!StartAfter(t, FrontPred[t], FrontExcl[t])
      PROVE  Same
  BY <1>3 DEF Flow!StartAfter, FlowOK
<1>4. ASSUME NEW t, Flow!Finish(t), t \notin Forming
      PROVE  Same
  BY <1>4 DEF Flow!Finish, FlowOK
<1>5. \/ \E t \in FrontTask : Flow!StartAfter(t, FrontPred[t], FrontExcl[t])
      \/ \E t : Flow!Finish(t) /\ t \notin Forming
      \/ status' = status
  <2>1. /\ \A x, y : applyT(x, y) \notin Forming /\ applyN(x, y) \notin Forming /\ restore(x, y) \notin Forming
        /\ \A x, y, z : updateT(x, y, z) \notin Forming /\ updateN(x, y, z) \notin Forming
        /\ permute \notin Forming
    BY DEF applyT, applyN, restore, updateT, updateN, permute
  <2> HIDE DEF Forming
  <2>3. CASE \E k \in Col, j \in Col : j < k /\ ApplyTBlockApp(k, j)
    BY <2>1, <2>3 DEF ApplyTBlockApp
  <2>4. CASE \E k \in Col, i \in Row : k < i /\ ApplyNBlockApp(k, i)
    BY <2>1, <2>4 DEF ApplyNBlockApp
  <2>5. CASE \E k \in Col, i \in Row : UseGpu /\ k <= i /\ RestoreFailedBlockApp(k, i)
    BY <2>1, <2>5 DEF RestoreFailedBlockApp
  <2>6. CASE \E k \in Col, b \in Block : b[2] < k /\ UpdateTBlockApp(k, b[1], b[2])
    BY <2>1, <2>6 DEF UpdateTBlockApp
  <2>7. CASE \E k \in Col, b \in Block : updateN(k, b[1], b[2]) \in FrontTask
                                         /\ UpdateNBlockApp(k, b[1], b[2])
    BY <2>1, <2>7 DEF UpdateNBlockApp
  <2>8. CASE PermuteFailed
    BY <2>1, <2>8 DEF PermuteFailed
  <2> QED BY <2>3, <2>4, <2>5, <2>6, <2>7, <2>8
          DEF Next, StartTask, FinishTask, Terminated, vars
<1>6. Same
  <2> HIDE DEF Forming
  <2>1. CASE status' = status
    BY <2>1
  <2> QED BY <1>3, <1>4, <1>5, <2>1
<1> HIDE DEF Forming
<1> QED BY <1>1, <1>2, <1>6

LEMMA ContribPreservedBySteps ==
  ASSUME ~ UseGpu, TypeOK, FlowOK, ContribInv, [Next]_vars
  PROVE  ContribInv'
<1>1. ASSUME NEW x \in Col, FactorBlockApp(x)
      PROVE  ContribInv'
  BY <1>1, FactorContrib
<1>2. ASSUME NEW x \in Col, Adjust(x)
      PROVE  ContribInv'
  BY <1>2, AdjustContrib
<1>3. ASSUME NEW k \in Col, NEW b \in Tile, UpdateContribBlockApp(k, b[1], b[2])
      PROVE  ContribInv'
  BY <1>3, TileContrib
<1>4. CASE FactorFrontIndefFailed
  BY <1>4, FailedContrib
<1>5. ASSUME ~ (\E x \in Col : FactorBlockApp(x)), ~ (\E x \in Col : Adjust(x)),
             ~ (\E k \in Col, b \in Tile : UpdateContribBlockApp(k, b[1], b[2])),
             ~ FactorFrontIndefFailed
      PROVE  ContribInv'
  <2>1. /\ UNCHANGED <<nelim, first_elim, next_elim, tile, nelim_first_pass>>
        /\ \A k \in Col : status'[adjust(k)] = "done" <=> status[adjust(k)] = "done"
        /\ \A k \in Col, b \in Tile :
             status'[Contrib(k, b)] = "done" <=> status[Contrib(k, b)] = "done"
        /\ status'[failed] = "done" <=> status[failed] = "done"
    BY <1>5, OtherContribSteps
  <2>2. \A b \in Tile : Added(b)' = Added(b)
    BY <2>1 DEF Added
  <2>3. Eliminated(nblk)' = Eliminated(nblk)
    BY <2>1 DEF Eliminated
  <2>4. CounterInv' /\ FirstInv'
    BY <2>1 DEF ContribInv, CounterInv, FirstInv
  <2>5. TileInv'
    BY <2>1, <2>2 DEF ContribInv, TileInv
  <2>6. ContribFormed'
    BY <2>1, <2>3 DEF ContribInv, ContribFormed
  <2> QED BY <2>4, <2>5, <2>6 DEF ContribInv
<1> QED BY <1>1, <1>2, <1>3, <1>4, <1>5

(* Without GPUs each tile of a front's contribution block, once the second  *)
(* pass is over, holds the update of every block column that kept a pivot,  *)
(* in either pass, and nothing of what its memory held before: the update   *)
(* that overwrites (update_contrib_block with zero_upd, which               *)
(* Column::first_elim selects) is the first, although nothing but the       *)
(* chain of blocks orders the commuting tasks of a tile.                    *)
THEOREM FrontContribFormed == ASSUME ~ UseGpu PROVE Spec => []ContribFormed
<1>1. Init => ContribInv
  <2> SUFFICES ASSUME Init
               PROVE  ContribInv
    OBVIOUS
  <2>1. /\ \A k \in Col : status[adjust(k)] = "waiting"
        /\ \A k \in Col, b \in Tile : status[Contrib(k, b)] = "waiting"
        /\ status[failed] = "waiting"
    BY ColumnTasks, ContribTask, LastsExist DEF Init, Flow!TaskInit
  <2>2. \A b \in Tile : Added(b) = {} /\ tile[b] = {Stale}
    BY <2>1 DEF Added, Init
  <2>3. next_elim = 0
    BY DEF Init
  <2> QED BY <2>1, <2>2, <2>3 DEF ContribInv, CounterInv, FirstInv, TileInv, ContribFormed
<1>2. TypeOK /\ FlowOK /\ ContribInv /\ [Next]_vars => ContribInv'
  BY ContribPreservedBySteps
<1>3. ContribInv => ContribFormed
  BY DEF ContribInv
<1> QED BY <1>1, <1>2, <1>3, FrontTypes, FrontFlow, PTL DEF Spec

-----------------------------------------------------------------------------
(***************************************************************************)
(* The roll-back of failed pivots.  Of the tasks that change a block, one  *)
(* in each block column updates it.  Of the columns its rows and columns   *)
(* belong to (one or two), a task tries pivots on it before, and the       *)
(* update gives back what the column did not keep.  So the content of a    *)
(* block, and of its backup, follow from which of these tasks have ended   *)
(* and from the counts of the columns.                                     *)
(***************************************************************************)

(* The block columns in which pivots are tried on block b.                  *)
Tries(b) == {x \in Col : x = b[1] \/ x = b[2]}

Attempt(x, b) ==
  IF x # b[2] THEN applyT(x, b[2])
  ELSE IF b[1] = b[2] THEN factor(x) ELSE applyN(x, b[1])

Update(x, b) ==
  IF x < b[2] THEN updateN(x, b[1], b[2])
  ELSE IF x = b[2] THEN Restorer(x, b[1]) ELSE updateT(x, b[1], b[2])

Ended(t) == status[t] = "done"

-----------------------------------------------------------------------------
(* The tasks of a block, and their order.                                   *)

LEMMA BlockParts ==
  ASSUME NEW b \in Block
  PROVE  /\ b = <<b[1], b[2]>> /\ b[1] \in Row /\ b[2] \in Col /\ b[2] <= b[1]
         /\ b[1] \in Int /\ b[2] \in Int
         /\ A(b[1], b[2]) \in FrontHandle
<1>1. b = <<b[1], b[2]>> /\ b[1] \in Row /\ b[2] \in Col /\ b[2] <= b[1]
  BY DEF Block
<1> QED BY <1>1, Indices, Handles

LEMMA AttemptTask ==
  ASSUME NEW b \in Block, NEW x \in Tries(b)
  PROVE  /\ Attempt(x, b) \in FrontTask
         /\ A(b[1], b[2]) \in Inserted(Attempt(x, b)).rw
<1>1. x \in Col /\ x \in Int /\ (x = b[1] \/ x = b[2])
  BY Indices DEF Tries
<1>2. CASE x # b[2]
  <2>1. x = b[1] /\ b[2] < x /\ Attempt(x, b) = applyT(x, b[2])
    BY <1>1, <1>2, BlockParts DEF Attempt
  <2>2. <<x, b[2]>> \in {c \in Col \X Col : c[2] < c[1]}
    BY <1>1, <2>1, BlockParts
  <2>3. applyT(x, b[2]) \in FrontTask
    BY <2>2 DEF FrontTask
  <2> QED BY <2>1, <2>3, InsertedBy DEF insert_applyT_block_app
<1>3. CASE x = b[2] /\ b[1] = b[2]
  <2>1. Attempt(x, b) = factor(x)
    BY <1>3 DEF Attempt
  <2> QED BY <1>1, <1>3, <2>1, ColumnTasks, InsertedBy DEF insert_factor_block_app
<1>4. CASE x = b[2] /\ b[1] # b[2]
  <2>1. Attempt(x, b) = applyN(x, b[1]) /\ b[2] < b[1]
    BY <1>4, BlockParts DEF Attempt
  <2>2. b \in {c \in Block : c[2] < c[1]} /\ applyN(x, b[1]) = applyN(b[2], b[1])
    BY <1>4, <2>1
  <2>3. applyN(x, b[1]) \in FrontTask
    BY <2>2 DEF FrontTask
  <2> QED BY <1>4, <2>1, <2>3, InsertedBy DEF insert_applyN_block_app
<1> QED BY <1>2, <1>3, <1>4

LEMMA UpdateTask ==
  ASSUME NEW b \in Block, NEW x \in Col
  PROVE  /\ Update(x, b) \in FrontTask
         /\ A(b[1], b[2]) \in Inserted(Update(x, b)).rw \cup Inserted(Update(x, b)).c
         /\ b[2] < x => A(b[1], b[2]) \in Inserted(Update(x, b)).rw
         /\ Hcol(x) \in Named(Update(x, b))
<1>1. x \in Int /\ b[2] \in Int
  BY Indices, BlockParts
<1>2. CASE x < b[2]
  <2>1. Update(x, b) = updateN(x, b[1], b[2])
    BY <1>2 DEF Update
  <2>2. <<x, b>> \in {d \in Col \X Block : IF UseGpu THEN d[1] < d[2][2] ELSE d[1] <= d[2][2]}
    BY <1>1, <1>2
  <2>3. updateN(x, b[1], b[2]) \in FrontTask
    BY <2>2 DEF FrontTask
  <2> QED BY <1>1, <1>2, <2>1, <2>3, InsertedBy DEF insert_updateN_block_app, Named
<1>3. CASE x = b[2]
  <2>1. Update(x, b) = Restorer(x, b[1])
    BY <1>1, <1>3 DEF Update
  <2> QED BY <1>1, <1>3, <2>1, RestorerTask, BlockParts
<1>4. CASE b[2] < x
  <2>1. Update(x, b) = updateT(x, b[1], b[2])
    BY <1>1, <1>4 DEF Update
  <2>2. <<x, b>> \in {d \in Col \X Block : d[2][2] < d[1]}
    BY <1>4
  <2>3. updateT(x, b[1], b[2]) \in FrontTask
    BY <2>2 DEF FrontTask
  <2> QED BY <2>1, <2>3, InsertedBy DEF insert_updateT_block_app, Named
<1> QED BY <1>1, <1>2, <1>3, <1>4

(* The names of these tasks say what they are.                              *)
LEMMA TaskNames ==
  ASSUME NEW b \in Block, NEW x \in Col
  PROVE  /\ x \in Tries(b) =>
              /\ Attempt(x, b)[1] \in {"factor", "applyT", "applyN"}
              /\ Attempt(x, b)[2] = x /\ Attempt(x, b)[3] = b[1] /\ Attempt(x, b)[4] = b[2]
         /\ Update(x, b)[1] \in {"restore", "updateT", "updateN"}
         /\ Update(x, b)[2] = x /\ Update(x, b)[3] = b[1] /\ Update(x, b)[4] = b[2]
  BY DEF Tries, Attempt, Update, Restorer, factor, applyT, applyN, restore, updateT, updateN

LEMMA OwnTasks ==
  ASSUME NEW b \in Block, NEW c \in Block, NEW x \in Col, NEW y \in Col
  PROVE  /\ Update(x, b) = Update(y, c) => x = y /\ b = c
         /\ x \in Tries(b) => Attempt(x, b) # Update(y, c)
         /\ x \in Tries(b) /\ y \in Tries(c) /\ Attempt(x, b) = Attempt(y, c) => x = y /\ b = c
  BY TaskNames, BlockParts

(* Pivots are tried on a block after the updates of all columns before, and *)
(* before the updates of its own column and of all after.                   *)
LEMMA BlockOrder ==
  ASSUME NEW b \in Block, NEW x \in Tries(b), NEW y \in Col
  PROVE  /\ y < x => Update(y, b) \in FrontPred[Attempt(x, b)]
         /\ x <= y => Attempt(x, b) \in FrontPred[Update(y, b)]
         /\ y < x /\ y \in Tries(b) => Attempt(y, b) \in FrontPred[Attempt(x, b)]
         /\ x < y => Update(x, b) \in FrontPred[Update(y, b)]
<1> DEFINE h == A(b[1], b[2])
<1>1. h \in FrontHandle /\ x \in Col /\ x \in Int /\ y \in Int
  BY BlockParts, Indices DEF Tries
<1>2. /\ Attempt(x, b) \in FrontTask /\ h \in Inserted(Attempt(x, b)).rw /\ h \in Named(Attempt(x, b))
      /\ Update(y, b) \in FrontTask /\ h \in Named(Update(y, b))
      /\ Update(x, b) \in FrontTask /\ h \in Named(Update(x, b))
  BY <1>1, AttemptTask, UpdateTask DEF Named
<1>3. ASSUME y < x
      PROVE  SubmittedBefore(Update(y, b), Attempt(x, b))
  BY <1>1, <1>3, TaskNames DEF SubmittedBefore
<1>4. ASSUME x <= y
      PROVE  SubmittedBefore(Attempt(x, b), Update(y, b))
  BY <1>1, <1>4, TaskNames DEF SubmittedBefore, Phase
<1>5. ASSUME y < x, y \in Tries(b)
      PROVE  Attempt(y, b) \in FrontPred[Attempt(x, b)]
  <2>1. SubmittedBefore(Attempt(y, b), Attempt(x, b))
    BY <1>1, <1>5, TaskNames DEF SubmittedBefore
  <2>2. Attempt(y, b) \in FrontTask /\ h \in Named(Attempt(y, b))
    BY <1>5, AttemptTask DEF Named
  <2> QED BY <1>1, <1>2, <2>1, <2>2, Depends
<1>6. ASSUME x < y
      PROVE  Update(x, b) \in FrontPred[Update(y, b)]
  <2>1. SubmittedBefore(Update(x, b), Update(y, b))
    BY <1>1, <1>6, TaskNames DEF SubmittedBefore
  <2>2. b[2] <= x
    BY <1>1, BlockParts DEF Tries
  <2>3. h \in Inserted(Update(y, b)).rw
    BY <1>1, <1>6, <2>2, UpdateTask, BlockParts
  <2> QED BY <1>1, <1>2, <2>1, <2>3, Depends
<1>7. y < x => Update(y, b) \in FrontPred[Attempt(x, b)]
  BY <1>1, <1>2, <1>3, Depends
<1>8. x <= y => Attempt(x, b) \in FrontPred[Update(y, b)]
  BY <1>1, <1>2, <1>4, Depends
<1> QED BY <1>5, <1>6, <1>7, <1>8

LEMMA UpdateAfterAdjust ==
  ASSUME FlowOK, NEW b \in Block, NEW x \in Col, status[Update(x, b)] # "waiting"
  PROVE  status[adjust(x)] = "done"
<1>1. SubmittedBefore(adjust(x), Update(x, b))
  BY Indices, TaskNames DEF SubmittedBefore, adjust, Phase
<1> QED BY <1>1, UpdateTask, AfterAdjust, Behind

(* The same as facts about states: what is behind an attempt, and what it   *)
(* is behind.                                                               *)
LEMMA AttemptBehind ==
  ASSUME FlowOK, NEW b \in Block, NEW x \in Tries(b), status[Attempt(x, b)] # "waiting"
  PROVE  /\ \A y \in Col : y < x => Ended(Update(y, b))
         /\ \A y \in Tries(b) : y < x => Ended(Attempt(y, b))
<1>1. \A y \in Tries(b) : y \in Col
  BY DEF Tries
<1> QED BY <1>1, BlockOrder, AttemptTask, Behind DEF Ended

LEMMA AttemptAhead ==
  ASSUME FlowOK, NEW b \in Block, NEW x \in Tries(b), ~ Ended(Attempt(x, b))
  PROVE  /\ \A y \in Col : x <= y => status[Update(y, b)] = "waiting"
         /\ \A y \in Tries(b) : x < y => status[Attempt(y, b)] = "waiting"
<1>1. ASSUME NEW y \in Col, x <= y, status[Update(y, b)] # "waiting"
      PROVE  FALSE
  BY <1>1, BlockOrder, UpdateTask, Behind DEF Ended
<1>2. ASSUME NEW y \in Tries(b), x < y, status[Attempt(y, b)] # "waiting"
      PROVE  FALSE
  BY <1>2, BlockOrder, AttemptTask, Behind DEF Ended, Tries
<1> QED BY <1>1, <1>2

-----------------------------------------------------------------------------
(* The content of a block and of its backup.                                *)

Upd(b)  == {x \in Col : Ended(Update(x, b)) /\ nelim[x] > 0}
Perm(b) == {x \in Tries(b) : Ended(Attempt(x, b))}

(* The column kept everything, and nothing of the block is left over.       *)
Gone(x, b) == IF x = b[2] THEN ~ (nelim[x] < ncol(x)) ELSE ~ (nelim[x] < nrow(x))

Tried(b) == \E x \in Tries(b) : Ended(Attempt(x, b)) /\ (~ Ended(Update(x, b)) \/ Gone(x, b))

GoneBefore(x, b) == \E y \in Tries(b) : y < x /\ Gone(y, b)

CountsAreNat == \A x \in Col : status[adjust(x)] = "done" => nelim[x] \in Nat

BlockIs(b) ==
  /\ blk[b].upd = Upd(b)
  /\ blk[b].perm = Perm(b)
  /\ blk[b].tried <=> Tried(b)

(* From an attempt to the update of its column the backup holds the block   *)
(* as it was, but for the order of its pivots.                              *)
BackupIs(b) ==
  \A x \in Tries(b) :
    Ended(Attempt(x, b)) /\ ~ Ended(Update(x, b)) =>
      /\ bak[b].upd = Upd(b)
      /\ bak[b].perm = IF b[1] = b[2] THEN {} ELSE Perm(b)
      /\ bak[b].tried <=> GoneBefore(x, b)

RollbackInv == CountsAreNat /\ \A b \in Block : BlockIs(b) /\ BackupIs(b)

(* The steps of a block.                                                    *)
AttemptStep(x, b) ==
  /\ status[Attempt(x, b)] = "running"
  /\ status' = [status EXCEPT ![Attempt(x, b)] = "done"]
  /\ blk' = [blk EXCEPT ![b] = Attempted(Permuted(@, x))]
  /\ bak' = [bak EXCEPT ![b] = IF b[1] = b[2] THEN blk[b] ELSE Permuted(blk[b], x)]

UpdateStep(x, b) ==
  /\ status[Update(x, b)] = "running"
  /\ status' = [status EXCEPT ![Update(x, b)] = "done"]
  /\ blk' = [blk EXCEPT ![b] = Updated(restore_if_required(x, b[1], b[2]), x)]
  /\ UNCHANGED <<nelim, bak>>

(* The tasks of block b have not moved.                                     *)
Still(b) ==
  /\ \A x \in Col : Ended(Update(x, b))' <=> Ended(Update(x, b))
  /\ \A x \in Tries(b) : Ended(Attempt(x, b))' <=> Ended(Attempt(x, b))

Settled == \A x \in Col : status[adjust(x)] = "done" => nelim'[x] = nelim[x]

LEMMA SettledUpd ==
  ASSUME FlowOK, Settled, NEW b \in Block, \A x \in Col : Ended(Update(x, b))' <=> Ended(Update(x, b))
  PROVE  /\ Upd(b)' = Upd(b)
         /\ \A x \in Col : Ended(Update(x, b)) => (Gone(x, b)' <=> Gone(x, b))
<1>1. ASSUME NEW x \in Col, Ended(Update(x, b))
      PROVE  nelim'[x] = nelim[x]
  BY <1>1, UpdateAfterAdjust DEF Settled, Ended
<1>2. Upd(b)' = Upd(b)
  BY <1>1 DEF Upd
<1>3. \A x \in Col : Ended(Update(x, b)) => (Gone(x, b)' <=> Gone(x, b))
  BY <1>1 DEF Gone
<1> QED BY <1>2, <1>3

LEMMA SettledGone ==
  ASSUME FlowOK, Settled, NEW b \in Block, NEW x \in Tries(b), status[Attempt(x, b)] # "waiting"
  PROVE  GoneBefore(x, b)' <=> GoneBefore(x, b)
<1>1. ASSUME NEW y \in Tries(b), y < x
      PROVE  Gone(y, b)' <=> Gone(y, b)
  <2>1. y \in Col /\ Ended(Update(y, b))
    BY <1>1, AttemptBehind DEF Tries
  <2>2. nelim'[y] = nelim[y]
    BY <2>1, UpdateAfterAdjust DEF Settled, Ended
  <2> QED BY <2>2 DEF Gone
<1> QED BY <1>1 DEF GoneBefore

LEMMA StillBlock ==
  ASSUME FlowOK, Settled, NEW b \in Block, Still(b), blk'[b] = blk[b], BlockIs(b)
  PROVE  BlockIs(b)'
<1>1. /\ Upd(b)' = Upd(b)
      /\ \A x \in Col : Ended(Update(x, b)) => (Gone(x, b)' <=> Gone(x, b))
  BY SettledUpd DEF Still
<1>2. Perm(b)' = Perm(b)
  BY DEF Perm, Still
<1>3. Tried(b)' <=> Tried(b)
  <2>1. Tries(b) \subseteq Col
    BY DEF Tries
  <2> QED BY <1>1, <2>1 DEF Tried, Still
<1> QED BY <1>1, <1>2, <1>3 DEF BlockIs

LEMMA StillBackup ==
  ASSUME FlowOK, Settled, NEW b \in Block, Still(b), bak'[b] = bak[b], BackupIs(b)
  PROVE  BackupIs(b)'
<1> SUFFICES ASSUME NEW x \in Tries(b), Ended(Attempt(x, b))', ~ Ended(Update(x, b))'
             PROVE  /\ bak'[b].upd = Upd(b)'
                    /\ bak'[b].perm = IF b[1] = b[2] THEN {} ELSE Perm(b)'
                    /\ bak'[b].tried <=> GoneBefore(x, b)'
  BY DEF BackupIs
<1>1. x \in Col /\ Ended(Attempt(x, b)) /\ ~ Ended(Update(x, b))
  BY DEF Still, Tries
<1>2. Upd(b)' = Upd(b)
  BY SettledUpd DEF Still
<1>3. Perm(b)' = Perm(b)
  BY DEF Perm, Still
<1>4. GoneBefore(x, b)' <=> GoneBefore(x, b)
  BY <1>1, SettledGone DEF Ended
<1> QED BY <1>1, <1>2, <1>3, <1>4 DEF BackupIs

LEMMA StepsApart ==
  ASSUME FlowOK, NEW c \in Block
  PROVE  /\ \A b \in Block : \A x \in Tries(b) : b # c /\ AttemptStep(x, b) => Still(c)
         /\ \A b \in Block : \A x \in Col : b # c /\ UpdateStep(x, b) => Still(c)
<1>1. /\ \A y \in Col : Update(y, c) \in FrontTask
      /\ \A y \in Tries(c) : Attempt(y, c) \in FrontTask
      /\ Tries(c) \subseteq Col /\ \A b : Tries(b) \subseteq Col
  BY AttemptTask, UpdateTask DEF Tries
<1>2. ASSUME NEW b \in Block, NEW x \in Tries(b), b # c, AttemptStep(x, b)
      PROVE  Still(c)
  <2>1. \A y \in Col : Update(y, c) # Attempt(x, b)
    BY <1>1, OwnTasks
  <2>2. \A y \in Tries(c) : Attempt(y, c) # Attempt(x, b)
    BY <1>1, <1>2, OwnTasks
  <2> QED BY <1>1, <1>2, <2>1, <2>2 DEF AttemptStep, FlowOK, Still, Ended
<1>3. ASSUME NEW b \in Block, NEW x \in Col, b # c, UpdateStep(x, b)
      PROVE  Still(c)
  <2>1. \A y \in Col : Update(y, c) # Update(x, b)
    BY <1>3, OwnTasks
  <2>2. \A y \in Tries(c) : Attempt(y, c) # Update(x, b)
    BY <1>1, OwnTasks
  <2> QED BY <1>1, <1>3, <2>1, <2>2 DEF UpdateStep, FlowOK, Still, Ended
<1> QED BY <1>2, <1>3

(* What an attempt does to the tasks of its block.                          *)
LEMMA AttemptMoves ==
  ASSUME FlowOK, NEW b \in Block, NEW x \in Tries(b), AttemptStep(x, b)
  PROVE  /\ \A y \in Col : Ended(Update(y, b))' <=> Ended(Update(y, b))
         /\ \A y \in Tries(b) : y # x => (Ended(Attempt(y, b))' <=> Ended(Attempt(y, b)))
         /\ Ended(Attempt(x, b))' /\ ~ Ended(Attempt(x, b))
<1>1. Tries(b) \subseteq Col
  BY DEF Tries
<1>2. \A y \in Col : Update(y, b) # Attempt(x, b)
  BY <1>1, OwnTasks
<1>3. \A y \in Tries(b) : y # x => Attempt(y, b) # Attempt(x, b)
  BY <1>1, OwnTasks
<1> QED BY <1>1, <1>2, <1>3, AttemptTask, UpdateTask DEF AttemptStep, FlowOK, Ended

LEMMA UpdateMoves ==
  ASSUME FlowOK, NEW b \in Block, NEW x \in Col, UpdateStep(x, b)
  PROVE  /\ \A y \in Col : y # x => (Ended(Update(y, b))' <=> Ended(Update(y, b)))
         /\ \A y \in Tries(b) : Ended(Attempt(y, b))' <=> Ended(Attempt(y, b))
         /\ Ended(Update(x, b))' /\ ~ Ended(Update(x, b))
<1>1. Tries(b) \subseteq Col
  BY DEF Tries
<1>2. \A y \in Col : y # x => Update(y, b) # Update(x, b)
  BY OwnTasks
<1>3. \A y \in Tries(b) : Attempt(y, b) # Update(x, b)
  BY <1>1, OwnTasks
<1> QED BY <1>1, <1>2, <1>3, AttemptTask, UpdateTask DEF UpdateStep, FlowOK, Ended

(* An attempt leaves the updates alone, and its backup holds the block.     *)
LEMMA AttemptRollback ==
  ASSUME TypeOK, FlowOK, Settled, NEW b \in Block, NEW x \in Tries(b), AttemptStep(x, b),
         BlockIs(b), BackupIs(b)
  PROVE  BlockIs(b)' /\ BackupIs(b)'
<1>1. /\ x \in Col /\ x \in Int /\ Tries(b) \subseteq Col
      /\ \A y \in Tries(b) : y \in Int
  BY Indices DEF Tries
<1>2. /\ \A y \in Col : Ended(Update(y, b))' <=> Ended(Update(y, b))
      /\ \A y \in Tries(b) : y # x => (Ended(Attempt(y, b))' <=> Ended(Attempt(y, b)))
      /\ Ended(Attempt(x, b))' /\ ~ Ended(Attempt(x, b))
  BY AttemptMoves
<1>3. /\ \A y \in Col : y < x => Ended(Update(y, b))
      /\ \A y \in Tries(b) : y < x => Ended(Attempt(y, b))
  BY AttemptBehind DEF AttemptStep
<1>4. /\ \A y \in Col : x <= y => ~ Ended(Update(y, b))
      /\ \A y \in Tries(b) : x < y => ~ Ended(Attempt(y, b))
  BY <1>2, AttemptAhead DEF Ended
<1>5. blk[b] \in Content
  BY DEF TypeOK
<1>6. /\ blk'[b] = Attempted(Permuted(blk[b], x))
      /\ bak'[b] = IF b[1] = b[2] THEN blk[b] ELSE Permuted(blk[b], x)
  BY DEF AttemptStep, TypeOK
<1>7. /\ blk'[b].upd = blk[b].upd /\ blk'[b].perm = blk[b].perm \cup {x} /\ blk'[b].tried = TRUE
      /\ bak'[b].upd = blk[b].upd /\ bak'[b].tried = blk[b].tried
      /\ bak'[b].perm = IF b[1] = b[2] THEN blk[b].perm ELSE blk[b].perm \cup {x}
  <2>1. /\ Permuted(blk[b], x).upd = blk[b].upd
        /\ Permuted(blk[b], x).perm = blk[b].perm \cup {x}
        /\ Permuted(blk[b], x).tried = blk[b].tried
        /\ Permuted(blk[b], x) \in Content
    BY <1>1, <1>5 DEF Permuted, Content
  <2>2. /\ Attempted(Permuted(blk[b], x)).upd = Permuted(blk[b], x).upd
        /\ Attempted(Permuted(blk[b], x)).perm = Permuted(blk[b], x).perm
        /\ Attempted(Permuted(blk[b], x)).tried = TRUE
    BY <2>1 DEF Attempted, Content
  <2>3. CASE b[1] = b[2]
    BY <1>6, <2>1, <2>2, <2>3
  <2>4. CASE b[1] # b[2]
    BY <1>6, <2>1, <2>2, <2>4
  <2> QED BY <2>3, <2>4
<1>8. Upd(b)' = Upd(b)
  BY <1>2, SettledUpd
<1>9. Perm(b)' = Perm(b) \cup {x}
  BY <1>2 DEF Perm
<1>10. Tried(b)'
  BY <1>1, <1>2, <1>4 DEF Tried
<1>11. Tried(b) <=> GoneBefore(x, b)
  <2>1. ASSUME NEW y \in Tries(b), Ended(Attempt(y, b)), ~ Ended(Update(y, b)) \/ Gone(y, b)
        PROVE  y < x /\ Gone(y, b)
    BY <1>1, <1>2, <1>3, <1>4, <2>1
  <2>2. ASSUME NEW y \in Tries(b), y < x, Gone(y, b)
        PROVE  Ended(Attempt(y, b))
    BY <1>3, <2>2
  <2> QED BY <2>1, <2>2 DEF Tried, GoneBefore
<1>12. GoneBefore(x, b)' <=> GoneBefore(x, b)
  BY SettledGone DEF AttemptStep
<1>13. b[1] = b[2] => Perm(b) = {}
  BY <1>2 DEF Perm, Tries
<1>14. BlockIs(b)'
  BY <1>7, <1>8, <1>9, <1>10 DEF BlockIs
<1>15. BackupIs(b)'
  <2> SUFFICES ASSUME NEW y \in Tries(b), Ended(Attempt(y, b))', ~ Ended(Update(y, b))'
               PROVE  /\ bak'[b].upd = Upd(b)'
                      /\ bak'[b].perm = IF b[1] = b[2] THEN {} ELSE Perm(b)'
                      /\ bak'[b].tried <=> GoneBefore(y, b)'
    BY DEF BackupIs
  <2>1. y = x
    BY <1>1, <1>2, <1>3, <1>4
  <2> QED BY <1>7, <1>8, <1>9, <1>11, <1>12, <1>13, <2>1 DEF BlockIs
<1> QED BY <1>14, <1>15

(* An update of block column x gives back what an attempt of it left over.  *)
LEMMA UpdateRollback ==
  ASSUME TypeOK, FlowOK, CountsAreNat, NEW b \in Block, NEW x \in Col, UpdateStep(x, b),
         BlockIs(b), BackupIs(b)
  PROVE  BlockIs(b)' /\ BackupIs(b)'
<1> DEFINE given == restore_if_required(x, b[1], b[2])
<1>1. /\ x \in Int /\ Tries(b) \subseteq Col
      /\ \A y \in Tries(b) : y \in Int
  BY Indices DEF Tries
<1>2. /\ \A y \in Col : y # x => (Ended(Update(y, b))' <=> Ended(Update(y, b)))
      /\ \A y \in Tries(b) : Ended(Attempt(y, b))' <=> Ended(Attempt(y, b))
      /\ Ended(Update(x, b))' /\ ~ Ended(Update(x, b))
  BY UpdateMoves
<1>3. nelim' = nelim /\ bak' = bak /\ status[Update(x, b)] = "running"
  BY DEF UpdateStep
<1>4. nelim[x] \in Nat
  BY <1>3, UpdateAfterAdjust DEF CountsAreNat
<1>5. ASSUME NEW y \in Tries(b), y < x
      PROVE  Ended(Update(y, b))
  BY <1>1, <1>3, <1>5, BlockOrder, UpdateTask, Behind DEF Ended
<1>6. ASSUME NEW y \in Tries(b), x < y
      PROVE  ~ Ended(Attempt(y, b))
  <2>1. Ended(Attempt(y, b)) => status[Attempt(y, b)] # "waiting"
    BY DEF Ended
  <2> QED BY <1>2, <1>6, <2>1, AttemptBehind
<1>7. x \in Tries(b) => Ended(Attempt(x, b))
  BY <1>1, <1>3, BlockOrder, UpdateTask, Behind DEF Ended
<1>8. Perm(b)' = Perm(b)
  BY <1>2 DEF Perm
<1>9. Upd(b)' = IF nelim[x] = 0 THEN Upd(b) ELSE Upd(b) \cup {x}
  BY <1>2, <1>3, <1>4 DEF Upd
<1>10. \A y \in Tries(b) : Gone(y, b)' <=> Gone(y, b)
  BY <1>3 DEF Gone
<1>11. /\ given.upd = Upd(b) /\ given.perm = Perm(b)
       /\ given.tried <=> Tried(b)'
  <2>0. b = <<b[1], b[2]>>
    BY BlockParts
  <2>1. CASE x \notin Tries(b)
    <3>1. given = blk[b]
      BY <2>0, <2>1 DEF restore_if_required, Tries
    <3>2. Tried(b)' <=> Tried(b)
      BY <1>1, <1>2, <1>10, <2>1 DEF Tried
    <3> QED BY <3>1, <3>2 DEF BlockIs
  <2>2. CASE x \in Tries(b)
    <3>1. Tried(b)' <=> Gone(x, b) \/ GoneBefore(x, b)
      <4>1. ASSUME NEW y \in Tries(b), Ended(Attempt(y, b))'
            PROVE  Ended(Update(y, b))' /\ (y = x \/ y < x)
        BY <1>1, <1>2, <1>5, <1>6, <4>1
      <4>2. ASSUME NEW y \in Tries(b), y < x
            PROVE  Ended(Attempt(y, b))'
        <5>1. Attempt(y, b) \in FrontPred[Update(y, b)]
          BY <1>1, BlockOrder
        <5>2. Ended(Attempt(y, b))
          BY <1>1, <1>5, <4>2, <5>1, UpdateTask, Behind DEF Ended
        <5> QED BY <1>2, <5>2
      <4>3. Ended(Attempt(x, b))'
        BY <1>2, <1>7, <2>2
      <4> QED BY <1>10, <2>2, <4>1, <4>2, <4>3 DEF Tried, GoneBefore
    <3>2. CASE Gone(x, b)
      <4>1. given = blk[b]
        BY <2>0, <3>2 DEF restore_if_required, Gone
      <4>2. Tried(b)
        BY <1>2, <1>7, <2>2 DEF Tried
      <4> QED BY <3>1, <3>2, <4>1, <4>2 DEF BlockIs
    <3>3. CASE ~ Gone(x, b)
      <4>1. /\ bak[b].upd = Upd(b)
            /\ bak[b].perm = IF b[1] = b[2] THEN {} ELSE Perm(b)
            /\ bak[b].tried <=> GoneBefore(x, b)
            /\ bak[b] \in Content
        BY <1>2, <1>7, <2>2 DEF BackupIs, TypeOK
      <4>2. CASE b[1] = b[2]
        <5>1. x = b[1] /\ x = b[2]
          BY <2>2, <4>2 DEF Tries
        <5>2. given = Permuted(bak[b], x)
          BY <2>0, <3>3, <5>1 DEF restore_if_required, Gone
        <5>3. given.upd = Upd(b) /\ given.perm = {x} /\ (given.tried <=> GoneBefore(x, b))
          BY <4>1, <4>2, <5>2 DEF Permuted, Content
        <5>4. Perm(b) = {x}
          BY <1>7, <2>2, <5>1 DEF Perm, Tries
        <5> QED BY <3>1, <3>3, <5>3, <5>4
      <4>3. CASE b[1] # b[2]
        <5>1. given = bak[b]
          <6>1. CASE x = b[2]
            BY <2>0, <3>3, <4>3, <6>1 DEF restore_if_required, Gone
          <6>2. CASE x # b[2]
            <7>1. x = b[1]
              BY <2>2, <6>2 DEF Tries
            <7> QED BY <2>0, <3>3, <4>3, <6>2, <7>1 DEF restore_if_required, Gone
          <6> QED BY <6>1, <6>2
        <5> QED BY <3>1, <3>3, <4>1, <4>3, <5>1
      <4> QED BY <4>2, <4>3
    <3> QED BY <3>2, <3>3
  <2> QED BY <2>1, <2>2
<1>12. given \in Content
  BY BlockParts, RestoredContent
<1>13. blk'[b] = Updated(given, x)
  BY DEF UpdateStep, TypeOK
<1>14. BlockIs(b)'
  <2> HIDE DEF given
  <2>1. CASE nelim[x] = 0
    BY <1>8, <1>9, <1>11, <1>13, <2>1 DEF BlockIs, Updated
  <2>2. CASE nelim[x] # 0
    <3>1. /\ Updated(given, x).upd = given.upd \cup {x}
          /\ Updated(given, x).perm = given.perm
          /\ Updated(given, x).tried = given.tried
      BY <1>12, <2>2 DEF Updated, Content
    <3> QED BY <1>8, <1>9, <1>11, <1>13, <2>2, <3>1 DEF BlockIs
  <2> QED BY <2>1, <2>2
<1>15. BackupIs(b)'
  <2> SUFFICES ASSUME NEW y \in Tries(b), Ended(Attempt(y, b))', ~ Ended(Update(y, b))'
               PROVE  FALSE
    BY DEF BackupIs
  <2> QED BY <1>1, <1>2, <1>5, <1>6
<1> QED BY <1>14, <1>15

-----------------------------------------------------------------------------
(* The steps of the front, as steps of blocks.                              *)

(* The names of the tasks that do not change a block.                       *)
Aside == {"adjust", "contrib", "permute", "failed"}

LEMMA QuietStep ==
  ASSUME FlowOK, NEW b \in Block,
         \/ status' = status
         \/ \E t \in FrontTask : Flow!StartAfter(t, FrontPred[t], FrontExcl[t])
         \/ \E t : t[1] \in Aside /\ Flow!Finish(t)
  PROVE  Still(b)
<1>1. /\ \A y \in Col : Update(y, b) \in FrontTask /\ Update(y, b)[1] \notin Aside
      /\ \A y \in Tries(b) : Attempt(y, b) \in FrontTask /\ Attempt(y, b)[1] \notin Aside
  BY AttemptTask, UpdateTask, TaskNames DEF Aside, Tries
<1>2. CASE status' = status
  BY <1>2 DEF Still, Ended
<1>3. ASSUME NEW t \in FrontTask, Flow!StartAfter(t, FrontPred[t], FrontExcl[t])
      PROVE  Still(b)
  BY <1>1, <1>3 DEF Flow!StartAfter, FlowOK, Still, Ended
<1>4. ASSUME NEW t, t[1] \in Aside, Flow!Finish(t)
      PROVE  Still(b)
  BY <1>1, <1>4 DEF Flow!Finish, FlowOK, Still, Ended
<1> QED BY <1>2, <1>3, <1>4

LEMMA FactorIsAttempt ==
  ASSUME NEW k \in Col, FactorBlockApp(k)
  PROVE  <<k, k>> \in Block /\ k \in Tries(<<k, k>>) /\ AttemptStep(k, <<k, k>>)
<1>1. Attempt(k, <<k, k>>) = factor(k)
  BY DEF Attempt
<1> QED BY <1>1, Indices DEF FactorBlockApp, Flow!Finish, AttemptStep, Tries

LEMMA ApplyTIsAttempt ==
  ASSUME NEW k \in Col, NEW j \in Col, j < k, ApplyTBlockApp(k, j)
  PROVE  <<k, j>> \in Block /\ k \in Tries(<<k, j>>) /\ AttemptStep(k, <<k, j>>)
<1>1. k # j /\ <<k, j>> \in Block
  BY Indices
<1>2. Attempt(k, <<k, j>>) = applyT(k, j)
  BY <1>1 DEF Attempt
<1> QED BY <1>1, <1>2 DEF ApplyTBlockApp, ApplyPivot, Flow!Finish, AttemptStep, Tries

LEMMA ApplyNIsAttempt ==
  ASSUME NEW k \in Col, NEW i \in Row, k < i, ApplyNBlockApp(k, i)
  PROVE  <<i, k>> \in Block /\ k \in Tries(<<i, k>>) /\ AttemptStep(k, <<i, k>>)
<1>1. k # i /\ <<i, k>> \in Block
  BY Indices
<1>2. Attempt(k, <<i, k>>) = applyN(k, i)
  BY <1>1 DEF Attempt
<1> QED BY <1>1, <1>2 DEF ApplyNBlockApp, ApplyPivot, Flow!Finish, AttemptStep, Tries

LEMMA RestoreIsUpdate ==
  ASSUME NEW k \in Col, NEW i \in Row, UseGpu, k <= i, RestoreFailedBlockApp(k, i)
  PROVE  <<i, k>> \in Block /\ UpdateStep(k, <<i, k>>)
<1>1. <<i, k>> \in Block /\ ~ (k < k)
  BY Indices
<1>2. Update(k, <<i, k>>) = restore(k, i)
  BY <1>1 DEF Update, Restorer
<1> QED BY <1>1, <1>2 DEF RestoreFailedBlockApp, UpdateBlock, columnVars, Flow!Finish, UpdateStep

LEMMA UpdateTIsUpdate ==
  ASSUME NEW k \in Col, NEW b \in Block, b[2] < k, UpdateTBlockApp(k, b[1], b[2])
  PROVE  UpdateStep(k, b)
<1>1. b = <<b[1], b[2]>> /\ ~ (k < b[2]) /\ k # b[2]
  BY BlockParts, Indices
<1>2. Update(k, b) = updateT(k, b[1], b[2])
  BY <1>1 DEF Update
<1> QED BY <1>1, <1>2 DEF UpdateTBlockApp, UpdateBlock, columnVars, Flow!Finish, UpdateStep

(* A GPU build has no update of the block column that is eliminated.        *)
LEMMA UpdateNIsTask ==
  ASSUME NEW k \in Col, NEW b \in Block, updateN(k, b[1], b[2]) \in FrontTask
  PROVE  k < b[2] \/ (k = b[2] /\ ~ UseGpu)
<1>1. k \in Int /\ b[2] \in Int
  BY Indices, BlockParts
<1>2. updateN(k, b[1], b[2]) \in
        {updateN(c[1], c[2][1], c[2][2]) :
           c \in {d \in Col \X Block : IF UseGpu THEN d[1] < d[2][2] ELSE d[1] <= d[2][2]}}
  BY DEF FrontTask, factor, applyT, applyN, adjust, restore, updateT, updateN, contrib, permute, failed
<1>3. PICK c \in Col \X Block : /\ IF UseGpu THEN c[1] < c[2][2] ELSE c[1] <= c[2][2]
                                /\ updateN(k, b[1], b[2]) = updateN(c[1], c[2][1], c[2][2])
  BY <1>2
<1>4. k = c[1] /\ b[2] = c[2][2]
  BY <1>3 DEF updateN
<1>5. CASE UseGpu
  BY <1>3, <1>4, <1>5
<1>6. CASE ~ UseGpu
  BY <1>1, <1>3, <1>4, <1>6
<1> QED BY <1>5, <1>6

LEMMA UpdateNIsUpdate ==
  ASSUME NEW k \in Col, NEW b \in Block, updateN(k, b[1], b[2]) \in FrontTask,
         UpdateNBlockApp(k, b[1], b[2])
  PROVE  UpdateStep(k, b)
<1>1. b = <<b[1], b[2]>> /\ k \in Int /\ b[2] \in Int
  BY BlockParts, Indices
<1>2. Update(k, b) = updateN(k, b[1], b[2])
  BY <1>1, UpdateNIsTask DEF Update, Restorer
<1> QED BY <1>1, <1>2 DEF UpdateNBlockApp, UpdateBlock, columnVars, Flow!Finish, UpdateStep

LEMMA StepKinds ==
  ASSUME FlowOK, [Next]_vars
  PROVE  \/ \E b \in Block : \E x \in Tries(b) : AttemptStep(x, b)
         \/ \E b \in Block : \E x \in Col : UpdateStep(x, b)
         \/ (\A b \in Block : Still(b)) /\ blk' = blk /\ (bak' = bak \/ PermuteFailed)
<1> DEFINE Attempts == \E b \in Block : \E x \in Tries(b) : AttemptStep(x, b)
           Updates  == \E b \in Block : \E x \in Col : UpdateStep(x, b)
           Quiet == \/ status' = status
                    \/ \E t \in FrontTask : Flow!StartAfter(t, FrontPred[t], FrontExcl[t])
                    \/ \E t : t[1] \in Aside /\ Flow!Finish(t)
<1>1. ASSUME Quiet, blk' = blk, bak' = bak \/ PermuteFailed
      PROVE  (\A b \in Block : Still(b)) /\ blk' = blk /\ (bak' = bak \/ PermuteFailed)
  BY <1>1, QuietStep
<1>2. ASSUME NEW k \in Col, FactorBlockApp(k)
      PROVE  Attempts
  BY <1>2, FactorIsAttempt
<1>3. ASSUME NEW k \in Col, NEW j \in Col, j < k, ApplyTBlockApp(k, j)
      PROVE  Attempts
  BY <1>3, ApplyTIsAttempt
<1>4. ASSUME NEW k \in Col, NEW i \in Row, k < i, ApplyNBlockApp(k, i)
      PROVE  Attempts
  BY <1>4, ApplyNIsAttempt
<1>5. ASSUME NEW k \in Col, NEW i \in Row, UseGpu, k <= i, RestoreFailedBlockApp(k, i)
      PROVE  Updates
  BY <1>5, RestoreIsUpdate
<1>6. ASSUME NEW k \in Col, NEW b \in Block, b[2] < k, UpdateTBlockApp(k, b[1], b[2])
      PROVE  Updates
  BY <1>6, UpdateTIsUpdate
<1>7. ASSUME NEW k \in Col, NEW b \in Block, updateN(k, b[1], b[2]) \in FrontTask,
             UpdateNBlockApp(k, b[1], b[2])
      PROVE  Updates
  BY <1>7, UpdateNIsUpdate
<1>8. ASSUME NEW k \in Col, Adjust(k)
      PROVE  Quiet /\ blk' = blk /\ bak' = bak
  BY <1>8 DEF Adjust, adjust, Aside, blockVars
<1>9. ASSUME NEW k \in Col, NEW b \in Tile, UpdateContribBlockApp(k, b[1], b[2])
      PROVE  Quiet /\ blk' = blk /\ bak' = bak
  BY <1>9 DEF UpdateContribBlockApp, contrib, Aside, blockVars
<1>10. PermuteFailed => Quiet /\ blk' = blk
  BY DEF PermuteFailed, permute, Aside
<1>11. FactorFrontIndefFailed => Quiet /\ blk' = blk /\ bak' = bak
  BY DEF FactorFrontIndefFailed, failed, Aside, blockVars
<1>12. ASSUME NEW t \in FrontTask, StartTask(t)
       PROVE  Quiet /\ blk' = blk /\ bak' = bak
  BY <1>12 DEF StartTask, blockVars
<1>13. Terminated \/ UNCHANGED vars => Quiet /\ blk' = blk /\ bak' = bak
  BY DEF Terminated, vars, blockVars
<1> HIDE DEF Attempts, Updates, Quiet
<1>14. Attempts \/ Updates \/ (Quiet /\ blk' = blk /\ (bak' = bak \/ PermuteFailed))
  BY <1>2, <1>3, <1>4, <1>5, <1>6, <1>7, <1>8, <1>9, <1>10, <1>11, <1>12, <1>13 DEF Next, FinishTask
<1> QED BY <1>1, <1>14 DEF Attempts, Updates

-----------------------------------------------------------------------------
(* The content of the blocks follows the tasks.                             *)

LEMMA CountsNatPreserved ==
  ASSUME TypeOK, FlowOK, CountsAreNat, Settled, [Next]_vars
  PROVE  CountsAreNat'
<1> SUFFICES ASSUME NEW x \in Col, status'[adjust(x)] = "done", status[adjust(x)] # "done"
             PROVE  nelim'[x] \in Nat
  BY DEF CountsAreNat, Settled
<1>1. CASE Adjust(x)
  <2>1. nelim'[x] = Adjusted(x)
    BY <1>1 DEF Adjust, TypeOK
  <2>2. npass[x] \in Nat
    BY AptpFrontAssumption DEF TypeOK
  <2> QED BY <2>1, <2>2 DEF Adjusted
<1>2. ASSUME NEW t, Flow!Finish(t), t # adjust(x)
      PROVE  FALSE
  BY <1>2, ColumnTasks DEF Flow!Finish, FlowOK
<1>3. CASE \E y \in Col : FactorBlockApp(y)
  <2>1. \A y : factor(y) # adjust(x)
    BY DEF factor, adjust
  <2> QED BY <1>2, <1>3, <2>1 DEF FactorBlockApp
<1>4. ASSUME NEW y \in Col, Adjust(y)
      PROVE  y = x
  <2>1. adjust(y) = adjust(x)
    BY <1>2, <1>4 DEF Adjust
  <2> QED BY <2>1 DEF adjust
<1>5. CASE FactorFrontIndefFailed
  <2>1. failed # adjust(x)
    BY DEF failed, adjust
  <2> QED BY <1>2, <1>5, <2>1 DEF FactorFrontIndefFailed
<1> QED BY <1>1, <1>3, <1>4, <1>5, OtherSteps

(* When the backups are released no update is left that could need one.     *)
LEMMA PermuteRollback ==
  ASSUME FlowOK, PermuteFailed, NEW b \in Block, Still(b)
  PROVE  BackupIs(b)'
<1>1. status[permute] = "running"
  BY DEF PermuteFailed, Flow!Finish
<1>2. ASSUME NEW x \in Tries(b)
      PROVE  Ended(Update(x, b))
  <2>1. x \in Col
    BY DEF Tries
  <2>2. Update(x, b) \in FrontTask /\ Update(x, b) \notin Lasts
    BY <2>1, UpdateTask, TaskNames DEF Lasts, permute, failed
  <2> QED BY <1>1, <2>2, AllBeforePermute, LastsExist, Behind DEF Ended
<1> QED BY <1>2 DEF BackupIs, Still, Tries

LEMMA RollbackPreserved ==
  ASSUME TypeOK, FlowOK, RollbackInv, [Next]_vars
  PROVE  RollbackInv'
<1>1. Settled
  <2>1. nelim \in [Col -> Int] /\ first_elim \in [Col -> BOOLEAN]
    BY AptpFrontAssumption DEF TypeOK, Unset
  <2> QED BY <2>1, SettledStays DEF Settled
<1>2. CountsAreNat'
  BY <1>1, CountsNatPreserved DEF RollbackInv
<1>3. ASSUME NEW c \in Block
      PROVE  BlockIs(c)' /\ BackupIs(c)'
  <2>0. BlockIs(c) /\ BackupIs(c) /\ CountsAreNat
    BY DEF RollbackInv
  <2>1. ASSUME NEW b \in Block, NEW x \in Tries(b), AttemptStep(x, b)
        PROVE  BlockIs(c)' /\ BackupIs(c)'
    <3>1. CASE b = c
      BY <1>1, <2>0, <2>1, <3>1, AttemptRollback
    <3>2. CASE b # c
      <4>1. Still(c)
        BY <2>1, <3>2, StepsApart
      <4>2. blk'[c] = blk[c] /\ bak'[c] = bak[c]
        BY <2>1, <3>2 DEF AttemptStep, TypeOK
      <4> QED BY <1>1, <2>0, <4>1, <4>2, StillBlock, StillBackup
    <3> QED BY <3>1, <3>2
  <2>2. ASSUME NEW b \in Block, NEW x \in Col, UpdateStep(x, b)
        PROVE  BlockIs(c)' /\ BackupIs(c)'
    <3>1. CASE b = c
      BY <2>0, <2>2, <3>1, UpdateRollback
    <3>2. CASE b # c
      <4>1. Still(c)
        BY <2>2, <3>2, StepsApart
      <4>2. blk'[c] = blk[c] /\ bak'[c] = bak[c]
        BY <2>2, <3>2 DEF UpdateStep, TypeOK
      <4> QED BY <1>1, <2>0, <4>1, <4>2, StillBlock, StillBackup
    <3> QED BY <3>1, <3>2
  <2>3. CASE (\A b \in Block : Still(b)) /\ blk' = blk /\ (bak' = bak \/ PermuteFailed)
    BY <1>1, <2>0, <2>3, StillBlock, StillBackup, PermuteRollback
  <2> QED BY <2>1, <2>2, <2>3, StepKinds
<1> QED BY <1>2, <1>3 DEF RollbackInv

LEMMA RollbackInit == Init => RollbackInv
<1> SUFFICES ASSUME Init
             PROVE  RollbackInv
  OBVIOUS
<1>1. \A t \in FrontTask : status[t] = "waiting"
  BY DEF Init, Flow!TaskInit
<1>2. CountsAreNat
  BY <1>1, ColumnTasks DEF CountsAreNat
<1>3. ASSUME NEW b \in Block
      PROVE  BlockIs(b) /\ BackupIs(b)
  <2>1. /\ \A x \in Col : ~ Ended(Update(x, b))
        /\ \A x \in Tries(b) : ~ Ended(Attempt(x, b))
    BY <1>1, UpdateTask, AttemptTask DEF Ended
  <2>2. blk[b] = [upd |-> {}, perm |-> {}, tried |-> FALSE]
    BY DEF Init
  <2> QED BY <2>1, <2>2 DEF BlockIs, BackupIs, Upd, Perm, Tried
<1> QED BY <1>2, <1>3 DEF RollbackInv

LEMMA Rollback == Spec => []RollbackInv
<1>1. Init => RollbackInv
  BY RollbackInit
<1>2. TypeOK /\ FlowOK /\ RollbackInv /\ [Next]_vars => RollbackInv'
  BY RollbackPreserved
<1> QED BY <1>1, <1>2, FrontTypes, FrontFlow, PTL DEF Spec

-----------------------------------------------------------------------------
(* What a block holds when the columns before k, and they alone, have       *)
(* updated it.                                                              *)
LEMMA ContentBefore ==
  ASSUME TypeOK, RollbackInv, NEW b \in Block, NEW k \in 0..nblk,
         \A y \in Col : Ended(Update(y, b)) <=> y < k,
         \A y \in Tries(b) : Ended(Attempt(y, b)) <=> y < k,
         LeftOver(k, b[1], b[2])
  PROVE  blk[b] = InOrder(k, b[1], b[2])
<1>1. BlockIs(b) /\ blk[b] \in Content
  BY DEF RollbackInv, TypeOK
<1>2. /\ k \in Int /\ b[1] \in Int /\ b[2] \in Int
      /\ \A y : y \in 0..(k - 1) <=> y \in Col /\ y < k
  BY Shape, BlockParts DEF Col
<1>3. Upd(b) = Eliminated(k)
  BY <1>2 DEF Upd, Eliminated
<1>4. Perm(b) = {b[1], b[2]} \cap (0..(k - 1))
  BY <1>2 DEF Perm, Tries
<1>5. ~ Tried(b)
  <2> SUFFICES ASSUME NEW y \in Tries(b), y < k, ~ Ended(Update(y, b)) \/ Gone(y, b)
               PROVE  FALSE
    BY DEF Tried
  <2>1. y \in Col /\ (y = b[1] \/ y = b[2])
    BY DEF Tries
  <2>2. Gone(y, b)
    BY <2>1
  <2> QED BY <2>1, <2>2 DEF Gone, LeftOver
<1>6. blk[b] = [upd |-> Upd(b), perm |-> Perm(b), tried |-> FALSE]
  <2>1. blk[b] = [upd |-> blk[b].upd, perm |-> blk[b].perm, tried |-> blk[b].tried]
    BY <1>1 DEF Content
  <2>2. blk[b].tried = FALSE
    BY <1>1, <1>5 DEF Content, BlockIs
  <2> QED BY <1>1, <2>1, <2>2 DEF BlockIs
<1> QED BY <1>3, <1>4, <1>6 DEF InOrder

(* Any task that tries pivots is the attempt of a block column on a block.  *)
LEMMA AttemptsAre ==
  ASSUME NEW t \in FrontTask, t[1] \in {"factor", "applyT", "applyN"}
  PROVE  \E b \in Block : \E x \in Tries(b) :
           t = Attempt(x, b) /\ t[2] = x /\ t[3] = b[1] /\ t[4] = b[2]
<1>1. ASSUME NEW k \in Col, t = factor(k)
      PROVE  /\ <<k, k>> \in Block /\ k \in Tries(<<k, k>>) /\ t = Attempt(k, <<k, k>>)
             /\ t[2] = k /\ t[3] = k /\ t[4] = k
  BY <1>1, Indices DEF Attempt, Tries, factor
<1>2. ASSUME NEW k \in Col, NEW j \in Col, j < k, t = applyT(k, j)
      PROVE  /\ <<k, j>> \in Block /\ k \in Tries(<<k, j>>) /\ t = Attempt(k, <<k, j>>)
             /\ t[2] = k /\ t[3] = k /\ t[4] = j
  BY <1>2, Indices DEF Attempt, Tries, applyT
<1>3. ASSUME NEW k \in Col, NEW i \in Row, k < i, t = applyN(k, i)
      PROVE  /\ <<i, k>> \in Block /\ k \in Tries(<<i, k>>) /\ t = Attempt(k, <<i, k>>)
             /\ t[2] = k /\ t[3] = i /\ t[4] = k
  BY <1>3, Indices DEF Attempt, Tries, applyN
<1>4. \/ \E k \in Col : t = factor(k)
      \/ \E k \in Col, j \in Col : j < k /\ t = applyT(k, j)
      \/ \E k \in Col, i \in Row : k < i /\ t = applyN(k, i)
  BY Kinds DEF adjust, restore, updateT, updateN, contrib, permute, failed
<1>5. \A b : <<b[1], b[2]>>[1] = b[1] /\ <<b[1], b[2]>>[2] = b[2]
  OBVIOUS
<1> QED BY <1>1, <1>2, <1>3, <1>4

(* Pivots are tried only on a block in which every failed attempt has been  *)
(* undone and every earlier update is present (Block::restore_if_required   *)
(* never brings back a copy older than an update).                          *)
THEOREM FrontAttemptsSeeAllUpdates == Spec => []AttemptsSeeAllUpdates
<1>1. TypeOK /\ FlowOK /\ RollbackInv => AttemptsSeeAllUpdates
  <2> SUFFICES ASSUME TypeOK, FlowOK, RollbackInv, NEW t \in running,
                      t[1] \in {"factor", "applyT", "applyN"}, LeftOver(t[2], t[3], t[4])
               PROVE  blk[<<t[3], t[4]>>] = InOrder(t[2], t[3], t[4])
    BY DEF AttemptsSeeAllUpdates
  <2>1. t \in FrontTask /\ status[t] = "running"
    BY DEF running
  <2>2. PICK b \in Block : \E x \in Tries(b) :
          t = Attempt(x, b) /\ t[2] = x /\ t[3] = b[1] /\ t[4] = b[2]
    BY <2>1, AttemptsAre
  <2>3. PICK x \in Tries(b) : t = Attempt(x, b) /\ t[2] = x /\ t[3] = b[1] /\ t[4] = b[2]
    BY <2>2
  <2>4. /\ x \in Col /\ x \in 0..nblk
        /\ \A y \in Col : y < x \/ x <= y
        /\ \A y \in Tries(b) : y < x \/ y = x \/ x < y
        /\ \A y \in Col : y < x => ~ (x <= y)
        /\ \A y \in Tries(b) : y < x => ~ (x <= y)
    BY Shape DEF Tries, Col
  <2>5. \A y \in Col : Ended(Update(y, b)) <=> y < x
    BY <2>1, <2>3, <2>4, AttemptBehind, AttemptAhead DEF Ended
  <2>6. \A y \in Tries(b) : Ended(Attempt(y, b)) <=> y < x
    BY <2>1, <2>3, <2>4, AttemptBehind, AttemptAhead DEF Ended
  <2>7. b = <<t[3], t[4]>>
    BY <2>3, BlockParts
  <2> QED BY <2>3, <2>4, <2>5, <2>6, <2>7, ContentBefore
<1> QED BY <1>1, FrontTypes, FrontFlow, Rollback, PTL

(* Around an update: of a block it names, the pivots of an earlier block    *)
(* column have been tried, those of a later one have not.                   *)
LEMMA AttemptsAround ==
  ASSUME TypeOK, FlowOK, RollbackInv, NEW t \in FrontTask, status[t] = "running", t[2] \in Col,
         NEW c \in Block, A(c[1], c[2]) \in Named(t), NEW x, x # t[2], x = c[1] \/ x = c[2]
  PROVE  x \in blk[c].perm <=> x \in Col /\ x < t[2]
<1>1. blk[c].perm = Perm(c)
  BY DEF RollbackInv, BlockIs
<1>2. CASE x \in Col
  <2>0. x \in Int /\ t[2] \in Int
    BY <1>2, Indices
  <2>1. x \in Tries(c)
    BY <1>2 DEF Tries
  <2>2. /\ Attempt(x, c) \in FrontTask /\ A(c[1], c[2]) \in Inserted(Attempt(x, c)).rw
        /\ A(c[1], c[2]) \in FrontHandle /\ Attempt(x, c)[2] = x
    BY <1>2, <2>1, AttemptTask, BlockParts, TaskNames
  <2>3. CASE x < t[2]
    <3>1. SubmittedBefore(Attempt(x, c), t)
      BY <2>2, <2>3 DEF SubmittedBefore
    <3>2. Attempt(x, c) \in FrontPred[t]
      BY <2>2, <3>1, Depends
    <3>3. Ended(Attempt(x, c))
      BY <3>2, Behind DEF Ended
    <3> QED BY <1>1, <1>2, <2>1, <2>3, <3>3 DEF Perm
  <2>4. CASE t[2] < x
    <3>1. SubmittedBefore(t, Attempt(x, c))
      BY <2>2, <2>4 DEF SubmittedBefore
    <3>2. t \in FrontPred[Attempt(x, c)]
      BY <2>2, <3>1, Depends
    <3>3. ~ Ended(Attempt(x, c))
      BY <2>2, <3>2, Behind DEF Ended
    <3>4. ~ (x < t[2])
      BY <2>0, <2>4
    <3> QED BY <1>1, <3>3, <3>4 DEF Perm
  <2> QED BY <2>0, <2>3, <2>4
<1>3. CASE x \notin Col
  BY <1>1, <1>3 DEF Perm, Tries
<1> QED BY <1>2, <1>3

(* An update multiplies rows in the same pivot order as the rows of the     *)
(* block it changes (update_n, update_t on blocks permuted by apply_rperm   *)
(* and apply_cperm).                                                        *)
THEOREM FrontUpdatesAlignRows == Spec => []UpdatesAlignRows
<1>1. ASSUME TypeOK, FlowOK, RollbackInv, NEW t \in FrontTask, status[t] = "running",
             t[1] \in {"updateT", "updateN"}
      PROVE  LET k == t[2]  i == t[3]  j == t[4]
                 c(x) == IF k <= x THEN <<x, k>> ELSE <<k, x>>
             IN /\ k \in Col /\ <<i, j>> \in Block
                /\ A(i, j) \in Named(t)
                /\ c(i) \in Block /\ A(c(i)[1], c(i)[2]) \in Named(t)
                /\ c(j) \in Block /\ A(c(j)[1], c(j)[2]) \in Named(t)
  <2>1. CASE \E k \in Col, i \in Row, j \in Col : j < k /\ j <= i /\ t = updateT(k, i, j)
    <3>1. PICK k \in Col, i \in Row, j \in Col : j < k /\ j <= i /\ t = updateT(k, i, j)
      BY <2>1
    <3>0. k \in Int /\ j \in Int /\ k \in Row /\ j <= k
      BY <3>1, Indices
    <3>2. /\ t[2] = k /\ t[3] = i /\ t[4] = j /\ ~ (k <= j)
          /\ <<i, j>> \in Block /\ <<k, j>> \in Block
          /\ {isrc(k, i), A(k, j), A(i, j)} \subseteq Named(t)
      <4>1. t[2] = k /\ t[3] = i /\ t[4] = j
        BY <3>1 DEF updateT
      <4>2. {isrc(k, i), A(k, j), A(i, j)} \subseteq Named(t)
        BY <3>1, InsertedBy DEF Named, insert_updateT_block_app
      <4> QED BY <3>0, <3>1, <4>1, <4>2, Indices
    <3>3. CASE k <= i
      BY <3>1, <3>2, <3>3, Indices DEF isrc
    <3>4. CASE ~ (k <= i)
      <4>1. i \in Col /\ i <= k
        BY <3>1, <3>4, Shape DEF Col, Row
      <4>2. <<k, i>> \in Block
        BY <3>1, <4>1, Indices
      <4> QED BY <3>1, <3>2, <3>4, <4>2 DEF isrc
    <3> QED BY <3>3, <3>4
  <2>2. CASE \E k \in Col, i \in Row, j \in Col : k <= j /\ j <= i /\ t = updateN(k, i, j)
    <3>1. PICK k \in Col, i \in Row, j \in Col : k <= j /\ j <= i /\ t = updateN(k, i, j)
      BY <2>2
    <3>0. i \in Int /\ j \in Int /\ k \in Int /\ j \in Row /\ k <= i
      <4>1. i \in Int /\ j \in Int /\ k \in Int /\ j \in Row
        BY Indices
      <4> QED BY <3>1, <4>1
    <3>2. /\ t[2] = k /\ t[3] = i /\ t[4] = j /\ k <= i
          /\ <<i, j>> \in Block /\ <<i, k>> \in Block /\ <<j, k>> \in Block
          /\ {A(i, k), A(j, k), A(i, j)} \subseteq Named(t)
      <4>1. t[2] = k /\ t[3] = i /\ t[4] = j
        BY <3>1 DEF updateN
      <4>2. {A(i, k), A(j, k), A(i, j)} \subseteq Named(t)
        BY <3>1, InsertedBy DEF Named, insert_updateN_block_app
      <4> QED BY <3>0, <3>1, <4>1, <4>2, Indices
    <3> QED BY <3>1, <3>2
  <2> QED BY <1>1, <2>1, <2>2, Kinds DEF factor, applyT, applyN, adjust, restore, contrib, permute, failed
<1>2. TypeOK /\ FlowOK /\ RollbackInv => UpdatesAlignRows
  <2> SUFFICES ASSUME TypeOK, FlowOK, RollbackInv, NEW t \in running,
                      t[1] \in {"updateT", "updateN"}, t[3] # t[2], t[4] # t[2],
                      NEW x \in {t[3], t[4]}
               PROVE  x \in blk[IF t[2] <= x THEN <<x, t[2]>> ELSE <<t[2], x>>].perm
                        <=> x \in blk[<<t[3], t[4]>>].perm
    BY DEF UpdatesAlignRows
  <2>1. t \in FrontTask /\ status[t] = "running"
    BY DEF running
  <2> DEFINE c == IF t[2] <= x THEN <<x, t[2]>> ELSE <<t[2], x>>
             b == <<t[3], t[4]>>
  <2>2. /\ t[2] \in Col /\ b \in Block /\ A(b[1], b[2]) \in Named(t)
        /\ c \in Block /\ A(c[1], c[2]) \in Named(t)
    BY <1>1, <2>1
  <2>3. (x = c[1] \/ x = c[2]) /\ (x = b[1] \/ x = b[2]) /\ x # t[2]
    OBVIOUS
  <2> HIDE DEF c, b
  <2>4. /\ x \in blk[c].perm <=> x \in Col /\ x < t[2]
        /\ x \in blk[b].perm <=> x \in Col /\ x < t[2]
    BY <2>1, <2>2, <2>3, AttemptsAround
  <2> QED BY <2>4 DEF c, b
<1> QED BY <1>2, FrontTypes, FrontFlow, Rollback, PTL

(* Once the failed columns are moved behind the eliminated ones, each block *)
(* with something left in it has exactly the updates of the columns with    *)
(* eliminations (permute_failed, then the second pass).                     *)
THEOREM FrontFailedColumnsUpToDate == Spec => []FailedColumnsUpToDate
<1>1. TypeOK /\ FlowOK /\ RollbackInv => FailedColumnsUpToDate
  <2> SUFFICES ASSUME TypeOK, FlowOK, RollbackInv, status[permute] # "waiting",
                      NEW b \in Block, LeftOver(nblk, b[1], b[2])
               PROVE  blk[b] = InOrder(nblk, b[1], b[2])
    BY DEF FailedColumnsUpToDate
  <2>1. /\ nblk \in 0..nblk /\ Tries(b) \subseteq Col
        /\ \A y \in Col : y < nblk
    BY Shape DEF Tries, Col
  <2>2. ASSUME NEW u \in FrontTask, u[1] \notin {"permute", "failed"}
        PROVE  Ended(u)
    BY <2>2, AllBeforePermute, LastsExist, Behind DEF Ended, Lasts, permute, failed
  <2>3. \A y \in Col : Ended(Update(y, b))
    BY <2>2, UpdateTask, TaskNames
  <2>4. \A y \in Tries(b) : Ended(Attempt(y, b))
    BY <2>1, <2>2, AttemptTask, TaskNames
  <2> QED BY <2>1, <2>3, <2>4, ContentBefore
<1> QED BY <1>1, FrontTypes, FrontFlow, Rollback, PTL
=============================================================================
