------------------------------ MODULE LltKernel ------------------------------
(***************************************************************************)
(* The kernel dev_llt_bcol (kernels/gpu/chol.cu): the Cholesky             *)
(* factorization of a block column of m rows and n <= TILE_SIZE columns.   *)
(* Each thread block copies the diagonal tile and its own TILE_SIZE rows   *)
(* into shared memory, factorizes both there, and stores its rows back.    *)
(* Its threads run free between two __syncthreads: a phase is what a       *)
(* thread does from one to the next.                                       *)
(*                                                                         *)
(* What an entry of the matrix contains is the number of columns whose     *)
(* update has been subtracted from it, its own column (the division by the *)
(* pivot) coming last. The code works on the columns in order, and an      *)
(* operation on anything but the entries it is meant for leaves Junk.      *)
(***************************************************************************)
EXTENDS Integers

CONSTANT TileSize   \* TILE_SIZE, BLOCK_SIZE

\* With a single thread per block `idx < ld_swork` would not reach both tiles.
ASSUME TileSizeAssumption == TileSize \in Nat /\ TileSize >= 2

VARIABLES
    mem,         \* mem[b][<<r, c>>]: entry of device buffer b
    info,        \* *d_info
    indefinite,  \* the columns whose pivot turns out not to be positive
    launch,      \* arguments of the kernel that runs
    done,        \* done[b][t]: phases thread t of block b has behind it
    swork,       \* swork[b]: shared memory of block b
    d11          \* d11[b][t]: the pivot thread t has read

kernelVars == <<done, swork, d11>>

Thread == (0..(TileSize - 1)) \X (0..(TileSize - 1))     \* <<tx, ty>>
Shared == (0..(2 * TileSize - 1)) \X (0..(TileSize - 1))
Idx(t) == t[1] + t[2] * TileSize

\* grid((m + threads.x - 1) / threads.x)
Block == 0..((launch.m + TileSize - 1) \div TileSize - 1)

-----------------------------------------------------------------------------
\* Contents of an entry

Entry(i, j, s) == [row |-> i, col |-> j, upto |-> s]
Junk == Entry(-1, -1, -1)
Factored(e, i, j) == e = Entry(i, j, j + 1)

\* x - sum over q < w of u[q] * v[q], where u and v are parts of the rows of x
Subtracted(x, u, v, w) ==
    IF \A q \in 0..(w - 1) : /\ Factored(u[q], x.row, x.upto + q)
                             /\ Factored(v[q], x.col, x.upto + q)
    THEN Entry(x.row, x.col, x.upto + w)
    ELSE Junk

\* x / sqrt(p)
Divided(x, p) == IF p = Entry(x.col, x.col, x.col) /\ x.upto = x.col
                 THEN Entry(x.row, x.col, x.col + 1)
                 ELSE Junk

-----------------------------------------------------------------------------
\* Phases: 0 loads; 3k + 1, 3k + 2 and 3k + 3 are the test of pivot k, its
\* application and the update; the last one stores.

LastPhase == 3 * launch.n + 1
Left(q) == LastPhase + 2 + q     \* returned in phase q, at a pivot that is not positive
HasLeft(b, t) == done[b][t] > LastPhase + 1
Ended(b, t) == done[b][t] > LastPhase

\* __syncthreads: nobody starts a phase before all have ended the one before.
\* A thread that has left does not come to the next barrier.
Behind(b, t) == IF HasLeft(b, t) THEN done[b][t] - Left(0) ELSE done[b][t]
Synced(b, t) == \A u \in Thread : Behind(b, u) >= done[b][t]
Ready(b, t) == ~Ended(b, t) /\ Synced(b, t)

InPhase(b, t, q) == Ready(b, t) /\ done[b][t] = q
Advance(b, t) == done' = [done EXCEPT ![b][t] = @ + 1]

\* fault: the diagonal tile is loaded from the matrix, which block 0 overwrites
DiagPlaceInMatrix(t) == <<launch.buf, <<launch.row + t[1], launch.col + t[2]>>>>

\* where dev_block_load takes the diagonal tile from, and a row of the block
DiagPlace(t) == <<"d_d", <<t[1], t[2]>>>>
RowPlace(b, t) == <<launch.buf, <<launch.row + t[1] + TileSize * b, launch.col + t[2]>>>>
InRows(b, t) == t[1] + TileSize * b < launch.m /\ t[2] < launch.n
InDiag(t) == t[1] < launch.n /\ t[2] < launch.n
Below(t) == <<t[1] + TileSize, t[2]>>
First(b, t) == b = 0 /\ t = <<0, 0>>

At(place) == mem[place[1]][place[2]]

dev_block_load(b, t) ==
    /\ InPhase(b, t, 0)
    /\ swork' = [swork EXCEPT ![b][t] = IF InDiag(t) THEN At(DiagPlace(t)) ELSE Junk,
                              ![b][Below(t)] = IF InRows(b, t) THEN At(RowPlace(b, t)) ELSE Junk]
    /\ Advance(b, t)
    /\ UNCHANGED <<mem, info, d11>>

Positive(k) == launch.first + k \notin indefinite

TestPivot(b, t) ==
    \E k \in 0..(launch.n - 1) :
        /\ InPhase(b, t, 3 * k + 1)
        /\ IF Positive(k)
           THEN /\ d11' = [d11 EXCEPT ![b][t] = swork[b][<<k, k>>]]
                /\ Advance(b, t)
                /\ UNCHANGED info
           ELSE /\ done' = [done EXCEPT ![b][t] = Left(3 * k + 1)]
                /\ info' = IF First(b, t) THEN k ELSE info
                /\ UNCHANGED d11
        /\ UNCHANGED <<mem, swork>>

ApplyPivot(b, t) ==
    \E k \in 0..(launch.n - 1) :
        /\ InPhase(b, t, 3 * k + 2)
        /\ swork' = IF Idx(t) < 2 * TileSize
                    THEN [swork EXCEPT ![b][<<Idx(t), k>>] = Divided(@, d11[b][t])]
                    ELSE swork
        /\ Advance(b, t)
        /\ UNCHANGED <<mem, info, d11>>

\* the update of entry <<r, c>> of the shared memory of block b by column k
Updated(b, r, c, k) ==
    Subtracted(swork[b][<<r, c>>], [q \in {0} |-> swork[b][<<r, k>>]],
               [q \in {0} |-> swork[b][<<c, k>>]], 1)

UpdateTrailing(b, t) ==
    \E k \in 0..(launch.n - 1) :
        /\ InPhase(b, t, 3 * k + 3)
        /\ swork' = [swork EXCEPT
               ![b][t] = IF t[2] > k /\ t[1] > k THEN Updated(b, t[1], t[2], k) ELSE @,
               ![b][Below(t)] = IF t[2] > k THEN Updated(b, t[1] + TileSize, t[2], k) ELSE @]
        /\ Advance(b, t)
        /\ UNCHANGED <<mem, info, d11>>

dev_block_store(b, t) ==
    /\ InPhase(b, t, LastPhase)
    /\ info' = IF First(b, t) THEN launch.n ELSE info
    /\ mem' = IF InRows(b, t)
              THEN [mem EXCEPT ![launch.buf][RowPlace(b, t)[2]] = swork[b][Below(t)]]
              ELSE mem
    /\ Advance(b, t)
    /\ UNCHANGED <<swork, d11>>

dev_llt_block(b, t) ==
    \/ dev_block_load(b, t)
    \/ TestPivot(b, t)
    \/ ApplyPivot(b, t)
    \/ UpdateTrailing(b, t)
    \/ dev_block_store(b, t)

\* the kernel has ended
Over == \A b \in Block, t \in Thread : Ended(b, t)

-----------------------------------------------------------------------------
\* The memory the next phase of a thread touches

InShared(b, S) == {<<"shared", b, p>> : p \in S}
InDevice(P) == {<<"device", p[1], p[2]>> : p \in P}
Info == <<"device", "d_info", <<0, 0>>>>

\* entries of A_kk and A_ik a thread right of column k updates
Trailing(t, k) == {Below(t)} \cup (IF t[1] > k THEN {t} ELSE {})

Reads(b, t) ==
    LET q == done[b][t]  k == (q - 1) \div 3 IN
    IF q = 0 THEN InDevice((IF InDiag(t) THEN {DiagPlace(t)} ELSE {})
                             \cup (IF InRows(b, t) THEN {RowPlace(b, t)} ELSE {}))
    ELSE IF q = LastPhase THEN InShared(b, {Below(t)})
    ELSE IF q % 3 = 1 THEN InShared(b, {<<k, k>>})
    ELSE IF q % 3 = 2 THEN InShared(b, IF Idx(t) < 2 * TileSize THEN {<<Idx(t), k>>} ELSE {})
    ELSE InShared(b, IF t[2] > k
                     THEN Trailing(t, k) \cup {<<p[1], k>> : p \in Trailing(t, k)} \cup {<<t[2], k>>}
                     ELSE {})

Writes(b, t) ==
    LET q == done[b][t]  k == (q - 1) \div 3 IN
    IF q = 0 THEN InShared(b, {t, Below(t)})
    ELSE IF q = LastPhase THEN InDevice(IF InRows(b, t) THEN {RowPlace(b, t)} ELSE {})
                                 \cup (IF First(b, t) THEN {Info} ELSE {})
    ELSE IF q % 3 = 1 THEN (IF First(b, t) /\ ~Positive(k) THEN {Info} ELSE {})
    ELSE IF q % 3 = 2 THEN InShared(b, IF Idx(t) < 2 * TileSize THEN {<<Idx(t), k>>} ELSE {})
    ELSE InShared(b, IF t[2] > k THEN Trailing(t, k) ELSE {})
=============================================================================
