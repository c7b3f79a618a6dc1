----------------------------- MODULE GpuCholesky -----------------------------
(***************************************************************************)
(* The Cholesky factorization on a GPU: factor_ll (kernels/gpu/factor.hxx) *)
(* and the variants that keep the matrix in half precision (chol.cu). The  *)
(* host enqueues copies, conversions, products and kernels on one stream,  *)
(* which runs them in that order, and waits for it at the end. Outer block *)
(* columns of OUTER_BLOCK_SIZE are updated from the left; inside one, the  *)
(* columns right of a block column of BLOCK_SIZE are updated after it.     *)
(***************************************************************************)
EXTENDS LltKernel, Sequences

CONSTANTS
    Jobs,       \* the calls: [method, m, n, nb], nb being OUTER_BLOCK_SIZE
    Failing,    \* sets of columns whose pivots may turn out not to be positive
    SuperNB     \* super_NB, what one launch of a conversion can cover: 65535 * 64

VARIABLES
    job,
    kk, step,   \* outer block column, and operation of it the stream runs
    k, stage    \* block column inside it, and what is done of it

vars == <<mem, info, indefinite, launch, done, swork, d11, job, kk, step, k, stage>>
position == <<kk, step, k, stage>>

m == job.m
n == job.n
ib == TileSize
nb == job.nb

\* Where the matrix is updated from the left, where its panels are factorized,
\* and what is done with each outer block column.
factor_ll == [whole |-> "d_a", panel |-> "d_a", steps |-> <<"update", "factor">>]
factor_ll_hp == [whole |-> "d_a_hp", panel |-> "d_a_tmp",
                 steps |-> <<"update", "take", "factor", "give">>]
factor_ll_hp_u32 == [whole |-> "d_a_hp", panel |-> "d_a_tmp",
                     steps |-> <<"take", "update", "factor", "give">>]
factor_ll_hp_c16 == [whole |-> "d_a_hp", panel |-> "d_a_hp", steps |-> <<"update", "factor">>]

Variant == [ll |-> factor_ll, hp |-> factor_ll_hp, u32 |-> factor_ll_hp_u32,
            c16 |-> factor_ll_hp_c16]
Method == DOMAIN Variant

ASSUME JobsAssumption ==
    Jobs \subseteq {j \in [method : Method, m : Nat \ {0}, n : Nat \ {0}, nb : Nat \ {0}] :
                      j.n <= j.m}
\* With m a multiple of super_NB, `m % super_NB` rows are converted by the last launch: none.
ASSUME SizesAssumption == SuperNB \in Nat /\ \A j \in Jobs : j.m < SuperNB
ASSUME FailingAssumption == Failing \subseteq SUBSET Nat

whole == Variant[job.method].whole
panel == Variant[job.method].panel
steps == Variant[job.method].steps
InHalf == whole # "d_a"

\* sizes of the loops
nc == (n - 1) \div nb + 1
ofs == kk * nb
in == IF n - ofs < nb THEN n - ofs ELSE nb
inc == (in - 1) \div ib + 1
updm == m - ofs
iofs == k * ib
cblkm == m - ofs - iofs
cblkn == IF in - iofs < ib THEN in - iofs ELSE ib
iofst == (k + 1) * ib
tblkm == updm - iofst
tblkn == in - iofst

\* fault: an offset as if every panel had a buffer of its own
originOfBuffer == IF panel = "d_a" THEN ofs ELSE 0

\* row and column of the panel's first entry in the buffer it is in
origin == IF panel = "d_a_tmp" THEN 0 ELSE ofs
\* the buffer and the place a product from the left goes to
UpdateTo == IF job.method = "u32" THEN "d_a_tmp" ELSE whole
updateOrigin == IF job.method = "u32" THEN 0 ELSE ofs

Part(h, w) == (0..(h - 1)) \X (0..(w - 1))

\* the entries convert() reaches of a part: launches of super_NB rows and columns
LaunchSize(i, len) == IF i \div SuperNB = (len + SuperNB - 1) \div SuperNB - 1
                      THEN len % SuperNB ELSE SuperNB
Converted(h, w) == {p \in Part(h, w) : /\ p[1] % SuperNB < LaunchSize(p[1], h)
                                        /\ p[2] % SuperNB < LaunchSize(p[2], w)}

\* memory with the values `new` put at place (r, c) of buffer buf
Put(buf, r, c, new) ==
    [mem EXCEPT ![buf] = [p \in DOMAIN @ |->
        LET q == <<p[1] - r, p[2] - c>> IN IF q \in DOMAIN new THEN new[q] ELSE @[p]]]

Buffer == {"d_a", "d_a_hp", "d_a_tmp", "d_d"}
\* what is allocated of each: d_a_hp for all but factor_ll, d_a_tmp for a panel apart
Extent(j, b) ==
    CASE b = "d_a" -> Part(j.m, j.n)
      [] b = "d_a_hp" -> IF Variant[j.method].whole = b THEN Part(j.m, j.n) ELSE {}
      [] b = "d_a_tmp" -> IF Variant[j.method].panel = b THEN Part(j.m, j.nb) ELSE {}
      [] b = "d_d" -> Part(ib, ib)

Init ==
    /\ job \in Jobs
    /\ indefinite \in Failing
    /\ mem = [b \in Buffer |-> [p \in Extent(job, b) |->
                 IF b = "d_a" THEN Entry(p[1], p[2], 0) ELSE Junk]]
    /\ info = 0
    /\ kk = 0 /\ step = 0 /\ k = 0 /\ stage = "copy"
    /\ launch = [m |-> 0, n |-> 0, buf |-> panel, row |-> 0, col |-> 0, first |-> 0]
    /\ done = <<>> /\ swork = <<>> /\ d11 = <<>>

-----------------------------------------------------------------------------
\* The operations on the stream

Does(op) == kk < nc /\ step \in 1..Len(steps) /\ steps[step] = op

NextStep == /\ IF step < Len(steps)
               THEN step' = step + 1 /\ kk' = kk
               ELSE step' = 1 /\ kk' = kk + 1
            /\ k' = 0
            /\ stage' = "copy"

Idle == UNCHANGED <<info, indefinite, launch, done, swork, d11, job>>

\* the copy of the matrix in half precision, if the variant has one
ConvertMatrix ==
    /\ step = 0
    /\ mem' = IF InHalf THEN Put("d_a_hp", 0, 0, [p \in Converted(m, n) |-> mem["d_a"][p]]) ELSE mem
    /\ step' = 1
    /\ UNCHANGED <<kk, k, stage>>
    /\ Idle

UpdateOuter ==
    /\ Does("update")
    /\ mem' = IF ofs > 0
              THEN Put(UpdateTo, updateOrigin, updateOrigin,
                       [p \in Part(updm, in) |->
                          Subtracted(mem[UpdateTo][<<updateOrigin + p[1], updateOrigin + p[2]>>],
                                     [q \in 0..(ofs - 1) |-> mem[whole][<<ofs + p[1], q>>]],
                                     [q \in 0..(ofs - 1) |-> mem[whole][<<ofs + p[2], q>>]], ofs)])
              ELSE mem
    /\ NextStep
    /\ Idle

TakePanel ==
    /\ Does("take")
    /\ mem' = Put("d_a_tmp", 0, 0,
                [p \in Converted(updm, in) |-> mem["d_a_hp"][<<ofs + p[1], ofs + p[2]>>]])
    /\ NextStep
    /\ Idle

GivePanel ==
    /\ Does("give")
    /\ mem' = Put("d_a_hp", ofs, ofs, [p \in Converted(updm, in) |-> mem["d_a_tmp"][p]])
    /\ NextStep
    /\ Idle

CopyDiagonal ==
    /\ Does("factor") /\ stage = "copy"
    /\ mem' = Put("d_d", 0, 0, [p \in Part(cblkn, cblkn) |->
                  mem[panel][<<origin + iofs + p[1], origin + iofs + p[2]>>]])
    /\ stage' = "launch"
    /\ UNCHANGED <<kk, step, k>>
    /\ Idle

factor_bcol ==
    /\ Does("factor") /\ stage = "launch"
    /\ launch' = [m |-> cblkm, n |-> cblkn, buf |-> panel,
                  row |-> origin + iofs, col |-> origin + iofs, first |-> ofs + iofs]
    /\ done' = [b \in Block' |-> [t \in Thread |-> 0]]
    /\ swork' = [b \in Block' |-> [p \in Shared |-> Junk]]
    /\ d11' = [b \in Block' |-> [t \in Thread |-> Junk]]
    /\ stage' = "run"
    /\ UNCHANGED <<mem, info, indefinite, job, kk, step, k>>

dev_llt_bcol ==
    /\ Does("factor") /\ stage = "run"
    /\ \E b \in Block, t \in Thread : dev_llt_block(b, t)
    /\ UNCHANGED <<indefinite, launch, job, position>>

\* the product that follows the kernel, if columns are left in the outer block
UpdateInner ==
    /\ Does("factor") /\ stage = "run"
    /\ Over
    /\ mem' = IF tblkn > 0
              THEN LET o == origin + iofst IN
                   Put(panel, o, o,
                       [p \in Part(tblkm, tblkn) |->
                          Subtracted(mem[panel][<<o + p[1], o + p[2]>>],
                                     [q \in 0..(ib - 1) |-> mem[panel][<<o + p[1], origin + iofs + q>>]],
                                     [q \in 0..(ib - 1) |-> mem[panel][<<o + p[2], origin + iofs + q>>]], ib)])
              ELSE mem
    /\ IF k + 1 < inc
       THEN k' = k + 1 /\ stage' = "copy" /\ UNCHANGED <<kk, step>>
       ELSE NextStep
    /\ Idle

\* the matrix is converted back, the host synchronizes and frees its buffers
ConvertBack ==
    /\ kk = nc /\ stage # "returned"
    /\ mem' = IF InHalf THEN Put("d_a", 0, 0, [p \in Converted(m, n) |-> mem["d_a_hp"][p]]) ELSE mem
    /\ stage' = "returned"
    /\ UNCHANGED <<kk, step, k>>
    /\ Idle

Return == stage = "returned" /\ UNCHANGED vars

Next ==
    \/ ConvertMatrix
    \/ UpdateOuter
    \/ TakePanel
    \/ GivePanel
    \/ CopyDiagonal
    \/ factor_bcol
    \/ dev_llt_bcol
    \/ UpdateInner
    \/ ConvertBack
    \/ Return

Spec == Init /\ [][Next]_vars

-----------------------------------------------------------------------------
\* Properties

Running == Does("factor") /\ stage = "run"

\* Between two __syncthreads no thread touches what another one writes, in its
\* own block or in another: block 0 overwrites the diagonal tile while other
\* blocks load it, but they load the copy of it (chol.cu:52).
NoDataRace ==
    Running => \A b \in Block, t \in Thread : Ready(b, t) =>
        \A c \in Block, u \in Thread : (Ready(c, u) /\ <<b, t>> # <<c, u>>)
            => Writes(b, t) \cap (Reads(c, u) \cup Writes(c, u)) = {}

\* When a thread has left at a pivot (chol.cu:135), those of its block that
\* have not are at the same test: none waits for it at a __syncthreads.
LeftTogether ==
    Running => \A b \in Block : \A t, u \in Thread :
        HasLeft(b, t) /\ ~HasLeft(b, u) => done[b][u] = Behind(b, t)

\* Column of the first pivot that is not positive, and where its block column begins.
FirstFailing == CHOOSE c \in indefinite : \A e \in indefinite : c <= e
Sound == IF indefinite \cap 0..(n - 1) = {} THEN n
         ELSE (FirstFailing \div nb) * nb + (((FirstFailing % nb) \div ib) * ib)

\* When the call returns, the block columns before the first pivot that is not
\* positive hold the factor: every entry has all updates, each once, and is
\* divided by its pivot, whichever buffers the variant works in.
FactorComplete ==
    stage = "returned" => \A i \in 0..(m - 1), j \in 0..(Sound - 1) :
        j <= i => Factored(mem["d_a"][<<i, j>>], i, j)
=============================================================================
