# TLA+ models of SyLVER

SyLVER factorizes sparse symmetric matrices by the multifrontal method. Its
parallel code submits tasks to the StarPU runtime, and says of each task which
data handles it reads, writes or updates in any order; StarPU runs tasks that do
not conflict on the workers it has. The program is right when these declarations
are enough: for all the data a task really touches, for counters and counts no
handle stands for, and for fronts whose size is known only once their children
are factorized; and when the analysis, before any of it, has cut the assembly
tree into subtrees and fronts so that each front is factorized and solved once.
This directory models that code and checks and proves what it guarantees.

## 1. Inventory

Paths are relative to `src/src/`.

| Component | State | Operations | Here |
|---|---|---|---|
| Traversal of the assembly tree, indefinite (`NumericTree.hxx`, `assemble.hxx`, `tasks/`, `StarPU/assemble.hxx`, `StarPU/kernels.hxx`) | fronts, `ndelay_in/out`, `nelim`, blocks, contribution blocks, handles, tags | activate, assemble, factorize, assemble contributions, `nelim_sync`, free the children, factorize a subtree at once | `FrontalTree`, abstractly `EliminationTree` |
| Indefinite factorization of a front, APTP (`factor_indef.hxx`, `factor_failed.hxx`, `kernels/ldlt_app.hxx`, `StarPU/kernels_indef.hxx`) | `Column` counts, `next_elim`, D, backups, blocks, tiles | factor, apply, adjust, restore, update, form contribution, permute, second pass | `AptpFront` |
| Task flow (StarPU, external) | life of tasks, dependencies | insert, start, finish | `TaskFlow` |
| Positive definite factorization (`NumericTreePosdef.hxx`, `factor.hxx`, `kernels/factor.hxx`, `tasks/tasks.hxx`) | blocks, tiles | Cholesky tasks, assemblies, release | `PosdefTree` |
| Assembly kernels (`kernels/assemble.hxx`, `tasks/indef.hxx`, `tasks/assemble_block.hxx`) | row lists, index maps | maps, additions, choice of the destination blocks | `AssemblyBlocks`, `FrontalTree`, `PosdefTree` |
| Analysis (`spldlt_analyse_mod.F90`, `spldlt_utils_mod.F90`) | layer, parts, marks, list of subtrees | `prune_tree`, `find_subtree_partition`, `split_tree`, `calc_exec_alloc`, heapsort | `AnalysedTree`, `PruneTree`, `SubtreePartition`, `Analyse` |
| Drivers (`spldlt_factorize_mod.F90`, ...) | `akeep`, `fkeep`, flags | solve over subtrees and fronts | `Solve` |
| Symbolic tree (`SymbolicTree.hxx`) | child lists, marks of subtrees | built once | `AssemblyTree`, `AnalysedTree` |
| Pool allocator (`BuddyAllocator.hxx`) | pages with free lists, `max_sz_` | allocate, deallocate | `BuddyAllocator` |
| Cholesky on a GPU (`kernels/gpu/chol.cu`, `factor.hxx`, `convert.cu`) | device buffers, shared memory, the stream | convert, update from the left, factorize a block column, update inside | `LltKernel`, `GpuCholesky` |
| Fronts, tiles, handles; codelets; options | | | as far as the models above use them |
| Factor allocator, unsymmetric LU, topology, other CUDA kernels, inform | | | not modelled, see 7 |

How they interact. The analysis leaves two things: marks on the fronts and a list
of subtrees. The main thread submits the subtrees of the list as one task each and
the tasks of the unmarked fronts in postorder. Workers run them; in the indefinite
case the tasks `assemble`, `factor_front_indef`, `assemble_contrib` and
`fini_cnodes` submit others while they run, in the positive definite case the main
thread submits everything. Fronts meet through contribution blocks, the number of
delayed columns and the symbolic handles; the tasks of one front through block
handles, the column handle, and the shared counter `next_elim`. All of them
allocate from the allocators, each under one lock. The solve takes the subtrees
from the list and the other fronts from the marks.

What is hard: interleavings of tasks on several workers, and of the threads of a
GPU kernel between two barriers; data with no handle, or
declared under another; dependencies that exist only once a task has run; memory
that is reused without being cleared; roll-back of failed pivots after updates
from elsewhere; circular waits among handles, tags and submissions; two loops, one
that declares blocks and one that writes them; lists that are sorted, compacted or
split while places in them are remembered. Nothing is persistent and nothing is
sent or retried, so there are no crashes, timeouts or lost messages to model.
`PROJECT.json` lists these hazards with their lines.

What makes each component correct: the traversal must assemble each child once,
completely, before it is needed and free it after; a front must eliminate with
up-to-date entries and leave failed columns as if never attempted; a task must
declare all it touches; the flow must drain; the analysis must place each front
once, in subtrees that need nothing from outside; allocators must never hand out
the same byte twice or lose one; a GPU must leave the whole factor in the matrix,
whichever buffers it went through.

## 2. The modules

`TaskFlow` - a set of tasks, the handles each accesses with `R`, `RW` or `C`
(`STARPU_RW | STARPU_COMMUTE`) and the order of submission. A task starts when
all earlier tasks with a conflicting access have ended, when no task that
commutes with it runs, and when a worker is free. `PosdefTree` extends it,
`AptpFront` takes its `Start` and `Finish` from an instance of it.

`AptpFront` - one front of `M` rows, `N` of them fully summed, in blocks of
`BlockSize`; one action per kernel. Each task is inserted with the modes of the
code's `insert_*` functions. A block is what its uneliminated part contains: the
block columns whose updates it has, the pivot orders applied to it, and whether a
failed attempt is to be undone; its backup holds the same. The numerical outcome
of a threshold test is any number of passed columns, and any legal pairing into
2x2 pivots. `UseGpu` is the build with `SPLDLT_USE_GPU`, where the restores of a
column are tasks of their own. A tile of the contribution block is the set of
updates in it, and `Stale` for what its memory held before. `reads` and `writes`
are the memory each kernel touches, stated apart from the handles: blocks, tiles and
backups, what a `Column` holds (`nelim`, `npass_`, `first_elim`, the pointer `d`, its
local permutation), the front's permutation, the counter, and D place by place, as the
columns reach it through their pointers.

`AssemblyTree` - the tree the traversals go through, its virtual root, and the
roots of subtrees. `AssemblyBlocks` extends it with where the rows of a child go
in the blocks of the parent, delayed columns counted: `...Declared` are the blocks
whose handles the loops of `tasks/indef.hxx` and `tasks/assemble_block.hxx`
collect, `...Written` those the kernels of `kernels/assemble.hxx` add to.

`FrontalTree` - `factor_mf_indef`, over `AssemblyBlocks`. What a submitting task does
is a set of steps (`Code`), which the order of the code (`Place`, `Earlier`) makes a
sequence; `sent` holds those already done. It keeps its handles while it submits. The
order in which the main thread submits is `MainPlace`, within `EarlierInMain`. A
task that is submitted waits for the conflicting tasks submitted before it and not
yet ended; `nelim_sync` also for the tag that `factor_front_indef_failed` notifies.
The blocks of a front's fully summed columns share one handle here and so do its
tiles, and the first pass is one task, or two with its contribution: what happens
between the tasks of one front is the subject of `AptpFront`, and which blocks an
assembly names that of `DestinationsDeclared`. `zero_contrib_blocks` clears
the tiles only when the columns of the front do not fill a block (finding 2).

`EliminationTree` - what the traversal promises, without tasks: fronts are
activated when their children are factorized, absorb them, are factorized, pass
on the rest and are freed. `FrontalTree` implements it
(`ImplementsEliminationTree`): a child counts as absorbed when its assembly tasks
have ended, and a front's phase follows from its last task that ended.

`PosdefTree` - `factor_mf_posdef`. Every size is known, so the tasks of the whole
tree, block by block, are one program for `TaskFlow`: `PTask` with the order of
the loops (`Key`) and the modes each is inserted with (`Inserted`). `Writes` and
`Reads` are the kernels' own: assemblies reach the blocks of the parent by
pointers, `fini_node` frees tiles none of its handles stand for. The contents of
a block are the tasks whose results it holds.

`AnalysedTree` - the tree as the analysis sees it: work, work below, first
descendant, and its outcome, the marks `small` and the list `subtrees`.
`PruneTree` adds `prune_tree` (a layer pushed down, sorted by the code's own
heapsort, mapped greedily, restarted with half the threshold), and
`SubtreePartition` adds `find_subtree_partition` (parts split, consolidated,
merged and collected); `Analyse` composes them as `analyse_core` does, by the
build. `Solve` runs the loops of the solve over what comes out.

`BuddyAllocator` - `Table` with its `Page`s, called under the lock. Splitting and
merging are written in closed form: a block is split down from the lowest list
that has one, and merged up to the highest level below which all its partners are
free. Pointers are compared as the code does, by a distance that wraps and is
cut to an `int`.

`LltKernel` - the kernel that factorizes a block column on a GPU, thread by thread.
Between two `__syncthreads` a thread is one step; the threads of a block run in any
order, none further than the barrier the others have reached, and thread blocks
do not wait for each other. A number is the entry of the matrix it belongs to and how
many columns have been subtracted from it; a sum of anything else is `Junk`.
`GpuCholesky` extends it with the operations the host enqueues on the stream, for
`factor_ll` and the three variants that keep the matrix in half precision, which
differ in the buffers and in the order of the operations (`Variant`).

The `MC...` modules give trees, row maps and inputs. Definitions marked `fault`
are a definition with a plausible mistake. The models do not use them; each shows
that a property tells the right code from a wrong one.

## 3. The runs

| Run | Instance | Shows |
|---|---|---|
| `front_cpu` | 6 rows, 5 columns, blocks of 2, three workers | all properties of a front |
| `front_gpu` | the same, GPU build, two workers | no stale backup with separate restores |
| `front_gpu_contrib` | 4 rows, 3 columns, blocks of 1, GPU build | *violated*: `ContribFormed` |
| `front_zero` | 2 rows, 1 column, blocks of 1 | *violated*: `ContribZeroed` |
| `tree` | a leaf and a subtree under a front under a root, at most one delayed column from these two, two from the inner front, two workers | no race, sizes, places, blocks named, complete contributions, registered handles, refinement, termination |
| `tree_tpp` | the same tree, `pivot_method` tpp | *violated*: `ColumnsAssembledFirst` |
| `posdef` | a front and two subtrees under a front of two block columns under a root, three workers | no race, complete blocks, whole contributions |
| `posdef_narrow` | a front with a full and a narrow block column | *violated*: `ContribBlocksInBounds` |
| `analyse` | every postordered forest of up to four fronts of three sizes, both methods, several machines | subtrees closed and apart, every front once, solve in order, termination |
| `analyse_tied` | three trees of equal work | *violated*: `MarkedOnce` |
| `buddy` | two pages of eight units, four allocations, four sizes | no overlap, no loss, whole pages, right owner |
| `gpu_chol` | four rows in two thread blocks of 2x2 threads; outer columns of one block column, in every variant, or of two; every pivot positive, or one not | no race between threads, the complete factor |

Bounds, and why they are enough.

- Front: three block columns are the least with an update from the left and one
  from the right around a middle column. Five columns in blocks of two make the last
  one narrower than a block (the boundary of every loop), and six rows make its block
  row the last as well: it holds the row of the fifth column and the only row below,
  so that the one tile begins inside a block. A width of two gives 2x2 pivots, split or
  not. Every combination of passed counts is explored. What is
  proved of the front (6) holds beyond these bounds.
- Tree: a front that has a leaf and a subtree as children and a parent in its turn
  is the least in which all kinds of tasks exist; delays of 0 and 1 decide whether
  the task that brings delayed columns exists, and two children that both delay
  test where they are put. The row maps of the children cross block boundaries,
  and one delayed column more or less moves rows from a block to the next.
  `MaxDelay` bounds what is left by the second pass, for each front: two columns from
  the inner front are the least with which it may eliminate nothing although its
  columns fill a block, so that its tiles are not cleared and `stale` is handed on. All tasks of the main thread
  count as submitted at the start: a main thread that lags behind only delays
  tasks, which removes behaviours and adds none.
- Positive definite tree: each child of the inner front has coefficients for its
  fully summed columns, for its contribution, or both, in several blocks; one
  front has a diagonal block that goes on into its contribution.
- Analysis: four fronts give every shape in which a part is split twice, parts
  are merged, and the layer is replaced node by node; the widths 1, 5 and 12 put
  a child below or above the threshold and the balance off or on. All machines
  are run to three fronts, two of them to four. `MaxHalvings` is where the code's
  threshold falls below its own limit; `Limit` stands for `max(2, log2(k)^2)` of `k`
  workers, given for up to four, of any number in the proofs. The trees of `analyse_tied` need ten
  fronts and are a run of their own.
- Allocator: `nlevel` is 4 instead of 16, and addresses and ints wrap at 4096 and
  256 instead of 2^64 and 2^32. Sizes take blocks of every level and more than the
  first page. The second page comes above or below the first, as near as the
  underlying allocator allows. All the pages of the run are near enough (`PagesNear`,
  see 6); with some that are not, `is_owner` could take a pointer for its own.
- GPU: two thread blocks share the pivot block and nothing else, two block columns
  are the least with an update inside an outer column, two outer columns with one
  from the left, and the last may be narrower. A pivot that is not positive is in the
  first or in the second block column. The matrix is smaller than one launch of a
  conversion (`SuperNB`), see 7.
- Workers: two or three, since what is asked is about pairs of tasks.

## 4. Properties

- *Memory without handles*: `NoDataRace` (`AptpFront`, `FrontalTree`,
  `PosdefTree`) takes for each task the data it really reads and writes; in a front
  also the pivots in D, which apply, adjust, restore and `updateT` tasks read without
  `d_hdl` while later columns write theirs behind them.
  `CountsReadInTime`, `CountsSettle`: the count of a column is read after `adjust`
  and never changes again. `PivotsContiguous`: the pivots of successive columns lie
  one after the other in D. `DestinationsDeclared`: an assembly writes no block but
  those whose handles its task was given, wherever delayed columns moved its rows.
- *Roll-back*: `AttemptsSeeAllUpdates`, `UpdatesAlignRows`,
  `FailedColumnsUpToDate`: an attempt sees all updates of the columns before it,
  with rows in the same pivot order, and a column that failed is left with all
  updates and no trace of the attempt. `NoPairSplit`: no 2x2 pivot is split.
- *Contributions*: `ContribFormed`, `ContribZeroed` for one front,
  `ContribFormed` and `EliminatedWhenSummed` for the Cholesky tree,
  `ContribComplete` for the indefinite one: a contribution is assembled only when
  it contains the front's and those of its children, and nothing from before; if
  nothing was eliminated it must be clear, except in the case of finding 2, where it is
  exactly what the memory held.
- *Tree*: `FrontSizedForDelays`, `DelaysPlacedApart`, `ColumnsAssembledFirst`,
  `HandlesRegistered`, `ImplementsEliminationTree`.
- *Analysis and solve*: `EachFrontOnce` (a front is left to the tree or in one
  subtree), `SubtreesClosed`, `OneContribution` (a subtree hands over one
  contribution, also when several trees were merged), `LayerIsCut`, `WorkSpread`,
  `PartsWhole`, `SolvedInOrder`.
- *Progress*: `FrontFactored`, `TreeFactored`, `AllSolved`.
- *Allocator*: `HoldersApart`, `PagesFilled`, `CleanupSucceeds`, `OwnerFound`.
- *GPU*: `NoDataRace` (between two barriers no thread writes what another one of any
  thread block reads or writes), `FactorComplete` (up to the first pivot that is not
  positive, every entry has the updates of exactly the columns before its own).

Fairness. StarPU's workers poll for ready tasks until none is left, and kernels
terminate. `AptpFront` assumes weak fairness of starting some task and of ending
a running one; `PosdefTree` of starting or ending one; `FrontalTree` weak fairness
of `Next`, since each step moves one task forward and each has finitely many steps
to make; `Solve` weak fairness of its only thread. No fairness is assumed between
tasks. Safety needs none.

Why updates of a tile come in order on the CPU. Commuting accesses run in any
order, and only the first update of a tile may overwrite. Take a later column
`k'` and tile `(i,j)`. Its contribution reads block `(i,k')`, so it waits for
`updateN(k',i,k')`, which without GPUs restores that block. This waits for
`updateT(k',i,k)`, which reads the same block and writes block `(i,k)`, and that
waits for the contribution of `k`, which reads `(i,k)`. `front_cpu` checks
`ContribFormed` and `FrontContribFormed` proves it. In the GPU build the restore is
a task of its own, inserted before `updateT`, and the chain is broken.

## 5. Findings

1. `front_gpu_contrib`: in the GPU build the first update of a tile, which
   overwrites it, can come after another one (`STARPU_COMMUTE`): that one is lost.
2. `front_zero`: `zero_contrib_blocks` counts tiles from 0, `contrib_block` from
   the first block row of the contribution: with at least one full block column
   the tiles of a front without eliminations are not zeroed.
3. `tree_tpp`: with `pivot_method` tpp the factorization task of a front does not
   conflict with the tasks that assemble its children.
4. `posdef_narrow`: the update of a block of a narrow last column names the tile
   `contrib_block(i, k)` instead of `contrib_block(i, j)`: outside the array.
5. `analyse_tied`: the heapsort of `prune_tree` does not keep the order of equal
   weights, although the first `leaves` nodes of the layer are remembered as done:
   with equal work the children of a node can be recorded as subtrees twice.

A question in the code answered: `StarPU/assemble.hxx:46` asks whether
`fini_cnodes` should take the children's handles in mode `STARPU_RW`. It should
not. It is inserted before the tasks that `assemble` submits later to read those
handles; with `STARPU_RW` these would wait for it, the factorization of the front
for them, `nelim_sync` for the factorization (by its tag), and `fini_cnodes` for
`nelim_sync`. With that change `TreeFactored` fails.

## 6. Proofs

Checked by TLAPS for all values of the constants that satisfy the module's
assumption (sizes, trees, numbers of workers, both builds unless said).

- `TaskFlow_proofs`: `FlowProgramOrder`, `FlowExclusion`. The invariant `FlowInv`
  says that a started task has all it depends on behind it, and that no two
  running tasks exclude each other; exclusion of conflicting tasks follows from
  the order, since of two conflicting tasks one was submitted first.
- `AptpFront_proofs`: `FrontFlow` carries the invariant of the flow over to the
  front's tasks (`FlowOK`). `FrontTypes` proves `TypeOK` by parts (counts, blocks,
  tiles): a count is typed after `adjust` only because the flow puts the column's
  factorization before it, so `TypeOK` is inductive only together with `FlowOK`.
  `FrontCountsSettle`: once `adjust(k)` has ended no enabled action writes
  `nelim[k]`; it is the only action that does and `FlowOK` says that it runs once.
  `FrontNoPairSplit`: the invariant adds `PairsApart` (no column is the second half
  of one pair and the first of another), without which giving up one column could
  split the pair before it.
  What the handles order beyond what they name: `FrontCountsReadInTime`: a reader of the count of another column either holds
  its handle or reads a block the column has restored, and the restore comes after
  `adjust`. `FrontNoDataRace`: memory with a handle is guarded by it (`Guard`) and
  the flow keeps its users apart (`FrontApart`); what has none is written only by
  the factorization and the adjustment of a column, and these follow one another
  over the whole front (`ColumnOrder`), since a diagonal block is factorized only
  after the updates of all columns before it; the last two tasks come after all
  others. D has no guard either: a column reads its pivots where its factorization has
  found the counter (`PlacesInv`), and columns that are attempted later write behind
  the places of those it has kept (`Placed`); before that, `adjust` comes first
  (`PivotReaders`). `FrontPivotsContiguous` from the same order (`Frontier`): between the
  factorization of a column and its adjustment nobody else moves the counter
  (`PlacesInv`).
  What tiles and blocks contain: `FrontContribFormed`, for the build without GPUs. The chain
  of section 4 is lemma `ContribInOrder`: commuting updates of a tile run in the
  order of the columns. The invariant says when the counter is zero
  (`CounterInv`), that exactly the first column with eliminations is marked
  `first_elim` (`FirstInv`) and that a tile holds the updates of the columns that
  have reached it, or what its memory held when there is none (`TileInv`).
  `FrontAttemptsSeeAllUpdates`, `FrontUpdatesAlignRows`,
  `FrontFailedColumnsUpToDate`, in either build. The tasks that change a block are
  named from it: `Attempt(x, b)` tries the pivots of column `x` on block `b`,
  `Update(x, b)` gives back what failed and updates, whichever task that is in the
  build. `BlockOrder` finds their order in the handles. The invariant
  `RollbackInv` gives the content of every block and of its backup from which of
  these tasks have ended and from the counts of the columns. It needs the backup
  as well, between an attempt and the update of the same column: without it nothing
  would be known of the block a restore leaves. The three theorems read off it.
- `PosdefTree_proofs`: `PosdefProgramOrder`, `PosdefHandleExclusion` and
  `PosdefNoDataRace`, for every tree, row map and block size. That the blocks an
  assembly names cover those it writes follows from the order of the rows
  (`DestBlocks` keeps the first column of each block column, and every row of a
  later one is a row of the first); that tiles are freed after their last use from
  the node handle of the child. `PosdefEliminatedWhenSummed`, `PosdefContribFormed`:
  what is read is whole. A block holds the results of the tasks that wrote it
  (`ResultsKept`), a tile from its first update on, which overwrites it
  (`TilesKept`); the task that reads conflicts with each of those that write and
  comes after it (`DoneBefore`). The second theorem assumes `NarrowAlone`: a block
  column that goes on into the contribution has none before it, or finding 4 applies.
- `BuddyAllocator_proofs`: `PoolTiled`: the free and the held blocks of a page tile it
  and no two free ones are partners (`PoolInv`), since a block is exchanged for the
  chain of blocks it is split into on the way down, or for those it is merged with on
  the way up. `PoolHoldersApart`, `PoolPagesFilled`, `PoolCleanupSucceeds` and
  `PoolOwnerFound` follow, in every state and for every number of levels and pages.
  They assume `PagesNear`, a bound on where pages lie that says nothing of `is_owner`:
  the end of a page above is at most 2^32 units of the page below away, and for a page
  below, the wrapped distance, cut to 32 bits, does not come down to the units of the
  page above (`Below`). With the code's 2^64, 2^32 and 2^15 units, pages that lie within
  a span of almost 64 GiB satisfy it; beyond that a pointer may be claimed by a
  page it is not from, which is not excluded by the code. That under `PagesNear` no
  distance, wrapped or not, is taken for a unit of the page is lemma `NotOwner`, which
  also uses that pages lie apart. Powers of two are counted as subsets.
- `GpuCholesky_proofs`: for every size of the matrix, of its blocks and of the thread
  blocks, and every variant. `GpuNoDataRace`, `GpuLeftTogether`: the threads of a block
  leave the kernel in the same phase, though each decides by itself, and no two touch
  one entry between barriers (`KernelInv`: each reads the same pivot). Therefore
  `GpuFactorComplete`: `ThreadsInv` gives the entries in shared memory as a function of
  the phases of the thread that owns them and of the thread that looks, `MemoryInv`
  those in the buffers between the operations of the stream, both for the columns
  before the first pivot that is not positive (`Sound`).
- `FrontalTree_proofs`: the tree with its tasks. `FlowInv` is the invariant of a
  flow whose tasks are submitted while it runs: everything `Ahead` of a started task
  is past (`Order`), where `Ahead` are the tasks it conflicts with that the code
  submits before it, also those a task before it will yet submit, and the tag of
  `nelim_sync`. From it come the orders across fronts, each a lemma: children are
  assembled before the first pass (`AssembledBeforePass`), the passes follow one
  another (`FirstBeforeSecond`), a contribution is complete before it is used
  (`CompleteBeforeUse`), the parent is factorized before the child's contribution is
  passed on (`FactorizedBeforePassed`), and a front is freed last
  (`UsedBeforeFreed`). With them the data invariants are inductive (`DataInv`, with
  the flow `IInv`; `Contributed`, `Placed`, `Registered`), and the theorems on sizes,
  places, contributions and handles follow. `TreeTasksImplementEliminationTree` is
  the refinement: initial states map to initial states, and every end of a task to a
  step of `EliminationTree` or to none (`TreeStep`, one lemma per action). That the
  sums of delayed columns exist is proved there by well-founded induction on sets
  (`SumExists`). `ColumnsAssembledFirst` and the refinement assume
  `PivotMethod = "app_block"`: for `tpp` the first is false (finding 3). So does
  `TreeNoDataRace`: `Turns` lists, from the same orders, who may touch the data of a
  front while another task does, and `Exclusive` keeps apart the subtrees that add to
  one tile in any order. `TreeDestinationsDeclared` is arithmetic of blocks: a block
  column that the loop over a tile skips has only rows of one before it, and the
  delayed columns, which `DelaysPlacedApart` keeps inside the front, lie between the
  first and the last block the loop visits.
- `EliminationTree_proofs`: `TreeLosesNothing`, `TreeHandsOver`. The invariant adds
  `AbsorbedComplete`: whatever was absorbed had all its own children passed on, a
  fact that must be kept from the absorption to the factorization.

- `Analyse_proofs`: the analysis and the solve, for every postordered forest, every
  machine and both ways of choosing the subtrees. The folds, heaps and sums of these
  modules are recursive functions: that they are defined for every argument follows
  from `IterateExists` and `CourseExists`, and what a loop does from an invariant of its
  turns (`Iterates`). `TreeShape` is what the analysis knows of its tree: a node and
  all that is below it are an interval that ends with the node.
  - `PartsCoverPostorder`, by `OmpInv`: parts follow one another without gaps
    (`Chain`), a part that may become a subtree is `Rooted`, and `size_order` names
    every part. Splitting, consolidating and merging replace parts by parts with the
    same ends; after the merge `MergedTo` says what is left of the places of the parts.
  - `LayerCutsTree`, by `PruneInv`: the nodes of the layer are an antichain, the roots
    of the subtrees lie beside it or are children of it (`Beside`), and with what is
    above and below the layer they are all nodes (`Cut`). Marks are given by the roots
    (`Marked`). Replacing a node by its children keeps all of it (`DescendKeeps`).
  - `WorkIsSpread`: the code's heapsort is a permutation of the layer (`Shuffles`),
    each pushdown restores the heap (`HeapedFrom`), and the places behind it are
    sorted (`SortedFrom`). The greedy mapping adds each node to the least loaded
    worker, so no turn takes two workers further apart.
  - `SubtreesAreClosed`, `OneContributionEach`, `FrontsTakenOnce`: what either method
    leaves (`RangesOK`, `MarksOK`, `RangesApart`). That `prune_tree` records no root
    twice needs `OnceInv`: the first `leaves` nodes of the layer are heavier than all
    others, so the sort leaves them in front, and only their children were recorded.
    With equal weights that fails (finding 5): so with `prune_tree` `FrontsTakenOnce`
    and `FrontsSolvedInOrder` speak only of trees that are not `Tied`.
  - `FrontsSolvedInOrder`, by `SolveInv`: the order of the solves takes each front once
    and none before a child (`Covering`), and what has been solved is a prefix of it
    forward and a suffix backward (`Stage`).

With these every safety property that a passing run checks is a theorem, and so are
the two action properties and the refinement; `ContribFormed` of `AptpFront` in the
build without GPUs, where alone it holds.

Only model-checked: liveness (`FrontFactored`, `TreeFactored`, `AllSolved`), since
fairness and ENABLED are outside the prover. That the analysis ends is part of it.
What the violated runs show is a counterexample each, and needs no proof.

## 7. Not modelled

- Unsymmetric LU: no program of it can be built from these sources.
  `factor_unsym.hxx` includes `tasks/tasks_unsym.hxx`, which is not there, and
  `NumericTreeUnsym::factor_mf` throws `"not Implemented"`.
- `AppendAlloc`: a pointer that only moves forward under one lock; nothing is
  freed before the end.
- Floating-point values and the accuracy of pivots; `init_node` (values of A, part
  of activation); the CUDA kernels of the other factorizations, topology, statistics, priorities, which only order
  ready tasks.
- Drivers apart from the solve: error flags, scaling and the partial solves are
  sequential; ordering, symbolic factorization and the subtrees themselves are
  SPRAL's. What a subtree leaves behind when it fails cannot be seen here, nor
  what `options%prune_tree` false leads to beyond a tree without subtrees.
- On the GPU: `factor_rl`, which nothing calls; the conversion of a matrix with a
  multiple of `super_NB` rows or columns, where `m % super_NB` leaves the last launch
  nothing to do (excluded by `SizesAssumption`).
- `pivot_method` `app_aggressive` (no code treats it on this path);
  `factor_front_indef_nocontrib`, `PoolBackup` and the OpenMP, synchronous and
  debugging variants, which the StarPU build does not call; clusters of workers
  for subtrees; singular fronts with `action` false beyond the columns they leave.

## 8. Plan

In this order, the most important behaviour first; done: 1-11.

1. `TaskFlow`, with its theorems: everything else rests on it.
2. `AptpFront`: the hardest component; composes `TaskFlow`.
3. `FrontalTree`: composes fronts; `EliminationTree` is its abstract specification.
4. Theorems: flow, types, counts and pairs of the front, the abstract tree.
5. `BuddyAllocator`.
6. `AssemblyBlocks`: the blocks assemblies declare against those they write.
7. `PosdefTree`, with its theorems; the analysis and the solve.
8. Theorems: races, counts, places of the pivots, roll-back and contributions of
   a front.
9. Theorems: sizes, places, blocks, contributions, handles and races of
   `FrontalTree`, and its refinement of `EliminationTree`.
10. `LltKernel`, `GpuCholesky`; theorems: contents of the blocks of `PosdefTree`, the
   allocator, races and factor of `GpuCholesky`.
11. `Analyse_proofs`: theorems of the analysis and the solve.
12. To come: the front with its blocks inside the tree instead of one handle for
   all of them, as a refinement; `create_size_order` with respect to the sizes.
