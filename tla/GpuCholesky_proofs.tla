------------------------- MODULE GpuCholesky_proofs -------------------------
(***************************************************************************)
(* Proofs about the Cholesky factorization on a GPU, for every size of the *)
(* matrix, of its blocks and of the thread blocks.                         *)
(***************************************************************************)
EXTENDS GpuCholesky, WellFoundedInduction, TLAPS

LEMMA BlockOf ==
  ASSUME NEW P \in Nat \ {0}, NEW a \in Nat
  PROVE  /\ a \div P \in Nat
         /\ P * (a \div P) <= a
         /\ a < P * (a \div P) + P
  BY Z3

LEMMA TimesOrder ==
  ASSUME NEW P \in Nat \ {0}, NEW a \in Int, NEW b \in Int
  PROVE  /\ a <= b => a * P <= b * P
         /\ a < b => a * P + P <= b * P
         /\ a * P \in Int
         /\ (a + 1) * P = a * P + P
  BY Z3

(* c chunks of B do not reach past N when there are more of them. *)
LEMMA Chunks ==
  ASSUME NEW N \in Nat \ {0}, NEW B \in Nat \ {0}, NEW c \in Nat, c < (N - 1) \div B + 1
  PROVE  c * B \in Nat /\ c * B < N
<1> DEFINE q == (N - 1) \div B
<1>1. q \in Nat /\ B * q <= N - 1
  BY BlockOf
<1>2. c <= q
  BY <1>1
<1> HIDE DEF q
<1>3. c * B <= q * B /\ q * B = B * q /\ c * B \in Nat
  <2>1. c * B \in Nat
    BY Z3
  <2> QED BY <1>1, <1>2, <2>1, TimesOrder
<1> QED BY <1>1, <1>3

-----------------------------------------------------------------------------
(* The loops: an outer block column, and a block column inside it, begin    *)
(* before the end.                                                          *)

LEMMA Variants ==
  ASSUME NEW v \in Method
  PROVE  /\ Variant[v].whole \in {"d_a", "d_a_hp"}
         /\ Variant[v].panel \in {"d_a", "d_a_hp", "d_a_tmp"}
         /\ Len(Variant[v].steps) \in 2..4
<1>1. Method = {"ll", "hp", "u32", "c16"}
  BY DEF Method, Variant
<1>2. /\ Variant["ll"] = factor_ll /\ Variant["hp"] = factor_ll_hp
      /\ Variant["u32"] = factor_ll_hp_u32 /\ Variant["c16"] = factor_ll_hp_c16
  BY DEF Variant
<1>3. CASE v = "ll"
  BY <1>2, <1>3 DEF factor_ll
<1>4. CASE v = "hp"
  BY <1>2, <1>4 DEF factor_ll_hp
<1>5. CASE v = "u32"
  BY <1>2, <1>5 DEF factor_ll_hp_u32
<1>6. CASE v = "c16"
  BY <1>2, <1>6 DEF factor_ll_hp_c16
<1> QED BY <1>1, <1>3, <1>4, <1>5, <1>6

PositionInv ==
  /\ job \in Jobs
  /\ kk \in Nat /\ kk <= nc /\ step \in 0..Len(steps)
  /\ k \in Nat /\ (kk < nc => k < inc)
  /\ step = 0 => kk = 0 /\ stage = "copy"

LEMMA JobFacts ==
  ASSUME job \in Jobs
  PROVE  /\ m \in Nat \ {0} /\ n \in Nat \ {0} /\ nb \in Nat \ {0} /\ n <= m
         /\ ib \in Nat \ {0} /\ ib >= 2
         /\ whole \in {"d_a", "d_a_hp"} /\ panel \in {"d_a", "d_a_hp", "d_a_tmp"}
         /\ Len(steps) \in 2..4
<1>1. /\ job.method \in Method /\ job.m \in Nat \ {0} /\ job.n \in Nat \ {0} /\ job.nb \in Nat \ {0}
      /\ job.n <= job.m
  BY JobsAssumption
<1>2. /\ Variant[job.method].whole \in {"d_a", "d_a_hp"}
      /\ Variant[job.method].panel \in {"d_a", "d_a_hp", "d_a_tmp"}
      /\ Len(Variant[job.method].steps) \in 2..4
  BY <1>1, Variants
<1> QED BY <1>1, <1>2, TileSizeAssumption DEF m, n, nb, ib, whole, panel, steps

LEMMA OuterLoop ==
  ASSUME job \in Jobs, kk \in Nat
  PROVE  /\ nc \in Nat \ {0} /\ ofs \in Nat
         /\ kk < nc => /\ ofs < n /\ in \in 1..nb /\ in <= n - ofs
                       /\ inc \in Nat \ {0} /\ updm \in Nat /\ updm >= in
<1>1. n \in Nat \ {0} /\ nb \in Nat \ {0} /\ ib \in Nat \ {0} /\ m \in Nat /\ n <= m
  BY JobFacts
<1> DEFINE c == (n - 1) \div nb
<1>2. c \in Nat /\ nb * c <= n - 1
  BY <1>1, BlockOf
<1>3. nc = c + 1
  BY DEF nc
<1> HIDE DEF c
<1>4. ofs = kk * nb /\ kk * nb \in Nat
  BY <1>1, Z3 DEF ofs
<1>5. ASSUME kk < nc
      PROVE  ofs < n
  BY <1>1, <1>4, <1>5, Chunks DEF nc
<1>6. ASSUME kk < nc
      PROVE  /\ in \in 1..nb /\ in <= n - ofs
             /\ inc \in Nat \ {0} /\ updm \in Nat /\ updm >= in
  <2>1. ofs < n /\ ofs \in Nat
    BY <1>4, <1>5, <1>6
  <2>2. in \in 1..nb /\ in <= n - ofs
    BY <1>1, <2>1 DEF in
  <2>3. (in - 1) \div ib \in Nat
    BY <1>1, <2>2, BlockOf
  <2>4. updm \in Nat /\ updm >= in
    BY <1>1, <2>1, <2>2 DEF updm
  <2> QED BY <2>2, <2>3, <2>4 DEF inc
<1> QED BY <1>2, <1>3, <1>4, <1>5, <1>6

LEMMA InnerLoop ==
  ASSUME PositionInv, kk < nc
  PROVE  /\ iofs \in Nat /\ iofs < in
         /\ cblkn \in 1..ib /\ cblkn <= in - iofs
         /\ cblkm \in Nat \ {0} /\ cblkm >= cblkn
<1>1. job \in Jobs /\ kk \in Nat /\ k \in Nat /\ k < inc
  BY DEF PositionInv
<1>2. /\ ib \in Nat \ {0} /\ ofs \in Nat /\ ofs < n /\ in \in 1..nb /\ in <= n - ofs /\ nb \in Nat
      /\ n \in Nat /\ m \in Nat /\ n <= m
  BY <1>1, JobFacts, OuterLoop
<1>4. iofs = k * ib /\ k * ib \in Nat
  BY <1>1, <1>2, Z3 DEF iofs
<1>5. iofs < in
  <2>1. in \in Nat \ {0}
    BY <1>2
  <2> QED BY <1>1, <1>2, <1>4, <2>1, Chunks DEF inc
<1>6. cblkn \in 1..ib /\ cblkn <= in - iofs
  BY <1>2, <1>4, <1>5 DEF cblkn
<1>7. cblkm \in Nat \ {0} /\ cblkm >= cblkn
  BY <1>2, <1>4, <1>5, <1>6 DEF cblkm
<1> QED BY <1>4, <1>5, <1>6, <1>7

LEMMA NextPosition ==
  ASSUME PositionInv, kk < nc, job' = job, NextStep
  PROVE  PositionInv'
<1>1. /\ job \in Jobs /\ kk \in Nat /\ step \in 0..Len(steps) /\ Len(steps) \in 2..4 /\ nc \in Nat \ {0}
  BY JobFacts, OuterLoop DEF PositionInv
<1>2. nc' = nc /\ steps' = steps
  BY DEF nc, n, nb, steps
<1>3. kk' \in Nat /\ kk' <= nc /\ step' \in 0..Len(steps) /\ step' # 0 /\ k' = 0
  <2>1. CASE step < Len(steps)
    BY <1>1, <2>1 DEF NextStep
  <2>2. CASE ~ (step < Len(steps))
    <3>1. step' = 1 /\ kk' = kk + 1 /\ k' = 0
      BY <2>2 DEF NextStep
    <3>2. kk + 1 <= nc
      BY <1>1
    <3> QED BY <1>1, <3>1, <3>2
  <2> QED BY <2>1, <2>2
<1>4. kk' < nc' => 0 < inc'
  <2> SUFFICES ASSUME kk' < nc
               PROVE  0 < inc'
    BY <1>2
  <2>1. n \in Nat \ {0} /\ nb \in Nat \ {0} /\ ib \in Nat \ {0}
    BY <1>1, JobFacts
  <2>2. n' = n /\ nb' = nb
    BY DEF n, nb
  <2>3. kk' * nb \in Nat /\ kk' * nb < n
    BY <1>3, <2>1, Chunks DEF nc
  <2>4. ofs' = kk' * nb
    BY <2>2 DEF ofs
  <2>5. in' \in Nat \ {0}
    BY <2>1, <2>2, <2>3, <2>4 DEF in
  <2>6. (in' - 1) \div ib \in Nat
    <3>1. \A i \in Nat \ {0} : i - 1 \in Nat /\ (i - 1) \div ib \in Nat
      <4> SUFFICES ASSUME NEW i \in Nat \ {0}
                   PROVE  i - 1 \in Nat /\ (i - 1) \div ib \in Nat
        OBVIOUS
      <4>1. i - 1 \in Nat
        OBVIOUS
      <4> QED BY <2>1, <4>1, BlockOf
    <3> QED BY <2>5, <3>1, Zenon
  <2>7. inc' = (in' - 1) \div ib + 1
    BY DEF inc, ib
  <2> QED BY <2>6, <2>7
<1> QED BY <1>1, <1>2, <1>3, <1>4 DEF PositionInv

LEMMA PositionInit == Init => PositionInv
<1> SUFFICES ASSUME Init
             PROVE  PositionInv
  OBVIOUS
<1>1. job \in Jobs /\ kk = 0 /\ step = 0 /\ k = 0 /\ stage = "copy"
  BY DEF Init
<1>2. nc \in Nat \ {0} /\ Len(steps) \in 2..4 /\ inc \in Nat \ {0}
  <2>1. nc \in Nat \ {0} /\ (kk < nc => inc \in Nat \ {0})
    BY <1>1, OuterLoop
  <2> QED BY <1>1, <2>1, JobFacts
<1> QED BY <1>1, <1>2 DEF PositionInv

LEMMA PositionNext == PositionInv /\ [Next]_vars => PositionInv'
<1> SUFFICES ASSUME PositionInv, [Next]_vars
             PROVE  PositionInv'
  OBVIOUS
<1>1. nc \in Nat \ {0} /\ Len(steps) \in 2..4
  BY JobFacts, OuterLoop DEF PositionInv
<1>2. ASSUME job' = job, kk' = kk
      PROVE  nc' = nc /\ steps' = steps /\ inc' = inc
  BY <1>2 DEF nc, n, nb, steps, inc, in, ofs
<1>3. ASSUME job' = job, UNCHANGED position
      PROVE  PositionInv'
  BY <1>2, <1>3 DEF PositionInv, position
<1>4. CASE ConvertMatrix
  <2>1. job' = job /\ kk' = kk /\ step' = 1 /\ k' = k
    BY <1>4 DEF ConvertMatrix, Idle
  <2> QED BY <1>1, <1>2, <2>1 DEF PositionInv
<1>5. CASE UpdateOuter \/ TakePanel \/ GivePanel
  <2>1. job' = job /\ kk < nc /\ NextStep
    BY <1>5 DEF UpdateOuter, TakePanel, GivePanel, Idle, Does
  <2> QED BY <2>1, NextPosition
<1>6. CASE CopyDiagonal \/ factor_bcol
  <2>1. job' = job /\ kk' = kk /\ step' = step /\ k' = k /\ step # 0
    BY <1>6 DEF CopyDiagonal, factor_bcol, Idle, Does
  <2> QED BY <1>2, <2>1 DEF PositionInv
<1>7. CASE dev_llt_bcol
  BY <1>3, <1>7 DEF dev_llt_bcol
<1>8. CASE UpdateInner
  <2>1. job' = job /\ kk < nc /\ step # 0
    BY <1>8 DEF UpdateInner, Idle, Does
  <2>2. CASE k + 1 < inc
    <3>1. k' = k + 1 /\ kk' = kk /\ step' = step
      BY <1>8, <2>2 DEF UpdateInner
    <3> QED BY <1>2, <2>1, <2>2, <3>1 DEF PositionInv
  <2>3. CASE ~ (k + 1 < inc)
    BY <1>8, <2>1, <2>3, NextPosition DEF UpdateInner
  <2> QED BY <2>2, <2>3
<1>9. CASE ConvertBack
  <2>1. job' = job /\ kk' = kk /\ step' = step /\ k' = k /\ kk = nc
    BY <1>9 DEF ConvertBack, Idle
  <2>2. step # 0
    BY <1>1, <2>1 DEF PositionInv
  <2> QED BY <1>2, <2>1, <2>2 DEF PositionInv
<1>10. CASE Return \/ UNCHANGED vars
  <2>1. job' = job /\ UNCHANGED position /\ stage' = stage
    BY <1>10 DEF Return, vars, position
  <2> QED BY <1>3, <2>1
<1> QED BY <1>4, <1>5, <1>6, <1>7, <1>8, <1>9, <1>10 DEF Next

-----------------------------------------------------------------------------
(* The kernel. A thread leaves at the first pivot of the block column that  *)
(* is not positive, when the others of its block have come to its test; and *)
(* none goes past that test.                                                *)

KernelInv ==
  Running =>
    /\ launch.n \in 1..TileSize /\ launch.m \in Nat \ {0}
    /\ launch.buf \in {"d_a", "d_a_hp", "d_a_tmp"}
    /\ launch.row \in Nat /\ launch.col \in Nat
    /\ done \in [Block -> [Thread -> Nat]]
    /\ \A b \in Block, t \in Thread :
         HasLeft(b, t) =>
           \E q \in 0..(launch.n - 1) :
             /\ ~ Positive(q) /\ done[b][t] = Left(3 * q + 1)
             /\ \A u \in Thread : Behind(b, u) >= 3 * q + 1
    /\ \A b \in Block, t \in Thread :
         ~ HasLeft(b, t) =>
           \A q \in 0..(launch.n - 1) : ~ Positive(q) => done[b][t] <= 3 * q + 1

(* The launch of the kernel. *)
LEMMA KernelStart ==
  ASSUME PositionInv, factor_bcol
  PROVE  KernelInv'
<1>1. /\ kk < nc /\ launch'.m = cblkm /\ launch'.n = cblkn /\ launch'.buf = panel
      /\ launch'.row = origin + iofs /\ launch'.col = origin + iofs
      /\ done' = [b \in Block' |-> [t \in Thread |-> 0]]
  BY DEF factor_bcol, Does
<1>2. cblkn \in 1..ib /\ cblkm \in Nat \ {0} /\ panel \in {"d_a", "d_a_hp", "d_a_tmp"} /\ ib = TileSize
  BY <1>1, InnerLoop, JobFacts DEF PositionInv, ib
<1>8. origin \in Nat /\ iofs \in Nat
  BY <1>1, InnerLoop, OuterLoop DEF PositionInv, origin
<1>3. launch'.n \in 1..TileSize /\ launch'.n \in Nat
  BY <1>1, <1>2, TileSizeAssumption
<1>4. done' \in [Block' -> [Thread -> Nat]]
  BY <1>1
<1>5. \A b \in Block', t \in Thread : done'[b][t] = 0
  BY <1>1
<1>6. LastPhase' = 3 * launch'.n + 1
  BY DEF LastPhase
<1>7. \A b \in Block', t \in Thread : ~ HasLeft(b, t)'
  BY <1>3, <1>5, <1>6 DEF HasLeft
<1> QED BY <1>1, <1>2, <1>3, <1>4, <1>5, <1>7, <1>8 DEF KernelInv

(* A thread goes on to the next phase, or leaves. *)
PhaseStep(b, t) ==
  \E q \in 0..LastPhase :
    /\ InPhase(b, t, q)
    /\ \/ /\ Advance(b, t)
          /\ \A i \in 0..(launch.n - 1) : q = 3 * i + 1 => Positive(i)
       \/ \E i \in 0..(launch.n - 1) : /\ q = 3 * i + 1 /\ ~ Positive(i)
                                       /\ done' = [done EXCEPT ![b][t] = Left(q)]

LEMMA PhasesOf ==
  ASSUME launch.n \in Nat, NEW b, NEW t, dev_llt_block(b, t)
  PROVE  PhaseStep(b, t)
<1>1. LastPhase = 3 * launch.n + 1
  BY DEF LastPhase
<1>2. CASE dev_block_load(b, t)
  <2>1. 0 \in 0..LastPhase /\ InPhase(b, t, 0) /\ Advance(b, t)
    BY <1>1, <1>2 DEF dev_block_load
  <2>2. \A i \in 0..(launch.n - 1) : 0 # 3 * i + 1
    OBVIOUS
  <2> QED BY <2>1, <2>2 DEF PhaseStep
<1>3. CASE TestPivot(b, t)
  <2>1. PICK i \in 0..(launch.n - 1) :
          /\ InPhase(b, t, 3 * i + 1)
          /\ IF Positive(i) THEN Advance(b, t)
                            ELSE done' = [done EXCEPT ![b][t] = Left(3 * i + 1)]
    BY <1>3 DEF TestPivot
  <2>2. 3 * i + 1 \in 0..LastPhase /\ \A j \in 0..(launch.n - 1) : 3 * i + 1 = 3 * j + 1 => j = i
    BY <1>1
  <2> QED BY <2>1, <2>2 DEF PhaseStep
<1>4. CASE ApplyPivot(b, t)
  <2>1. PICK i \in 0..(launch.n - 1) : InPhase(b, t, 3 * i + 2) /\ Advance(b, t)
    BY <1>4 DEF ApplyPivot
  <2>2. 3 * i + 2 \in 0..LastPhase /\ \A j \in 0..(launch.n - 1) : 3 * i + 2 # 3 * j + 1
    BY <1>1
  <2> QED BY <2>1, <2>2 DEF PhaseStep
<1>5. CASE UpdateTrailing(b, t)
  <2>1. PICK i \in 0..(launch.n - 1) : InPhase(b, t, 3 * i + 3) /\ Advance(b, t)
    BY <1>5 DEF UpdateTrailing
  <2>2. 3 * i + 3 \in 0..LastPhase /\ \A j \in 0..(launch.n - 1) : 3 * i + 3 # 3 * j + 1
    BY <1>1
  <2> QED BY <2>1, <2>2 DEF PhaseStep
<1>6. CASE dev_block_store(b, t)
  <2>1. InPhase(b, t, LastPhase) /\ Advance(b, t)
    BY <1>6 DEF dev_block_store
  <2>2. LastPhase \in 0..LastPhase /\ \A j \in 0..(launch.n - 1) : LastPhase # 3 * j + 1
    BY <1>1
  <2> QED BY <2>1, <2>2 DEF PhaseStep
<1> QED BY <1>2, <1>3, <1>4, <1>5, <1>6 DEF dev_llt_block

(* A step of a thread. *)
LEMMA KernelStep ==
  ASSUME Running, KernelInv, dev_llt_bcol
  PROVE  KernelInv'
<1> DEFINE N == launch.n
           L == LastPhase
<1>1. /\ N \in Nat /\ N \in 1..TileSize /\ done \in [Block -> [Thread -> Nat]] /\ L = 3 * N + 1 /\ L \in Nat
      /\ launch.m \in Nat \ {0} /\ launch.buf \in {"d_a", "d_a_hp", "d_a_tmp"}
      /\ launch.row \in Nat /\ launch.col \in Nat
  BY TileSizeAssumption DEF KernelInv, LastPhase
<1>2. PICK b \in Block, t \in Thread : PhaseStep(b, t)
  BY <1>1, PhasesOf DEF dev_llt_bcol
<1>3. launch' = launch /\ indefinite' = indefinite /\ job' = job /\ Block' = Block /\ LastPhase' = L
  BY DEF dev_llt_bcol, Block, LastPhase
<1>4. PICK q \in 0..L :
        /\ InPhase(b, t, q)
        /\ \/ /\ Advance(b, t)
              /\ \A i \in 0..(N - 1) : q = 3 * i + 1 => Positive(i)
           \/ \E i \in 0..(N - 1) : /\ q = 3 * i + 1 /\ ~ Positive(i)
                                    /\ done' = [done EXCEPT ![b][t] = Left(q)]
  BY <1>2 DEF PhaseStep
<1>5. done[b][t] = q /\ q \in Nat /\ q <= L /\ ~ HasLeft(b, t) /\ \A u \in Thread : Behind(b, u) >= q
  BY <1>1, <1>4 DEF InPhase, Ready, Ended, HasLeft, Synced
<1>6. \A i : Left(i) = L + 2 + i /\ Left(i)' = L + 2 + i /\ Positive(i)' = Positive(i)
  BY <1>3 DEF Left, Positive
<1>7. PICK w \in Nat : /\ done' = [done EXCEPT ![b][t] = w]
                       /\ \/ /\ w = q + 1
                             /\ \A i \in 0..(N - 1) : q = 3 * i + 1 => Positive(i)
                          \/ \E i \in 0..(N - 1) : q = 3 * i + 1 /\ ~ Positive(i) /\ w = L + 2 + q
  <2>1. CASE Advance(b, t) /\ \A i \in 0..(N - 1) : q = 3 * i + 1 => Positive(i)
    <3>1. done' = [done EXCEPT ![b][t] = q + 1] /\ q + 1 \in Nat
      BY <1>5, <2>1 DEF Advance
    <3> QED BY <2>1, <3>1
  <2>2. CASE \E i \in 0..(N - 1) : /\ q = 3 * i + 1 /\ ~ Positive(i)
                                   /\ done' = [done EXCEPT ![b][t] = Left(q)]
    <3>1. L + 2 + q \in Nat
      BY <1>1, <1>5
    <3> QED BY <1>6, <2>2, <3>1
  <2> QED BY <1>4, <2>1, <2>2
<1>8. /\ done' \in [Block -> [Thread -> Nat]] /\ done'[b][t] = w
      /\ \A c \in Block, u \in Thread : <<c, u>> # <<b, t>> => done'[c][u] = done[c][u]
  BY <1>1, <1>7
<1>9. /\ \A c \in Block, u \in Thread : HasLeft(c, u) <=> done[c][u] > L + 1
      /\ \A c \in Block, u \in Thread : HasLeft(c, u)' <=> done'[c][u] > L + 1
      /\ \A c \in Block, u \in Thread : Behind(c, u) = IF HasLeft(c, u) THEN done[c][u] - (L + 2) ELSE done[c][u]
      /\ \A c \in Block, u \in Thread : Behind(c, u)' = IF HasLeft(c, u)' THEN done'[c][u] - (L + 2) ELSE done'[c][u]
  BY <1>1, <1>3, <1>6 DEF HasLeft, Behind
<1>10. /\ w = q + 1 => ~ HasLeft(b, t)' /\ Behind(b, t)' = q + 1
       /\ w = L + 2 + q => HasLeft(b, t)' /\ Behind(b, t)' = q
       /\ Behind(b, t) = q /\ Behind(b, t)' >= q
  BY <1>1, <1>5, <1>7, <1>8, <1>9
<1>11. \A c \in Block, u \in Thread : <<c, u>> # <<b, t>> =>
          (HasLeft(c, u)' <=> HasLeft(c, u)) /\ Behind(c, u)' = Behind(c, u)
  BY <1>8, <1>9
<1>12. \A c \in Block, u \in Thread : Behind(c, u) \in Int /\ Behind(c, u)' \in Int /\ Behind(c, u)' >= Behind(c, u)
  <2> SUFFICES ASSUME NEW c \in Block, NEW u \in Thread
               PROVE  Behind(c, u) \in Int /\ Behind(c, u)' \in Int /\ Behind(c, u)' >= Behind(c, u)
    OBVIOUS
  <2>1. done[c][u] \in Nat /\ done'[c][u] \in Nat
    BY <1>1, <1>8
  <2>2. Behind(c, u) \in Int /\ Behind(c, u)' \in Int
    BY <1>1, <1>9, <2>1
  <2>3. CASE <<c, u>> = <<b, t>>
    <3>1. c = b /\ u = t
      BY <2>3
    <3> QED BY <1>10, <2>2, <3>1
  <2>4. CASE <<c, u>> # <<b, t>>
    BY <1>11, <2>2, <2>4
  <2> QED BY <2>2, <2>3, <2>4
<1>13. ASSUME NEW c \in Block, NEW u \in Thread, HasLeft(c, u)'
       PROVE  \E i \in 0..(N - 1) : /\ ~ Positive(i) /\ done'[c][u] = L + 2 + (3 * i + 1)
                                    /\ \A v \in Thread : Behind(c, v)' >= 3 * i + 1
  <2>1. CASE <<c, u>> = <<b, t>>
    <3>1. w # q + 1
      BY <1>10, <1>13, <2>1
    <3>2. PICK i \in 0..(N - 1) : q = 3 * i + 1 /\ ~ Positive(i) /\ w = L + 2 + q
      BY <1>7, <3>1
    <3>3. \A v \in Thread : Behind(b, v)' >= 3 * i + 1
      BY <1>5, <1>12, <3>2
    <3> QED BY <1>8, <2>1, <3>2, <3>3
  <2>2. CASE <<c, u>> # <<b, t>>
    <3>1. HasLeft(c, u)
      BY <1>11, <1>13, <2>2
    <3>2. PICK i \in 0..(N - 1) : /\ ~ Positive(i) /\ done[c][u] = Left(3 * i + 1)
                                  /\ \A v \in Thread : Behind(c, v) >= 3 * i + 1
      BY <3>1 DEF KernelInv
    <3>3. \A v \in Thread : Behind(c, v)' >= 3 * i + 1
      BY <1>12, <3>2
    <3> QED BY <1>6, <1>8, <2>2, <3>2, <3>3
  <2> QED BY <2>1, <2>2
<1>14. ASSUME NEW c \in Block, NEW u \in Thread, ~ HasLeft(c, u)',
              NEW i \in 0..(N - 1), ~ Positive(i)
       PROVE  done'[c][u] <= 3 * i + 1
  <2>1. CASE <<c, u>> = <<b, t>>
    <3>1. w # L + 2 + q
      BY <1>10, <1>14, <2>1
    <3>2. w = q + 1 /\ q # 3 * i + 1
      BY <1>7, <1>14, <3>1
    <3>3. q <= 3 * i + 1
      BY <1>5, <1>14 DEF KernelInv
    <3>4. done'[c][u] = q + 1
      BY <1>8, <2>1, <3>2
    <3> QED BY <1>5, <3>2, <3>3, <3>4
  <2>2. CASE <<c, u>> # <<b, t>>
    BY <1>8, <1>11, <1>14, <2>2 DEF KernelInv
  <2> QED BY <2>1, <2>2
<1> QED BY <1>1, <1>3, <1>6, <1>8, <1>13, <1>14 DEF KernelInv

LEMMA KernelNext == PositionInv /\ KernelInv /\ [Next]_vars => KernelInv'
<1> SUFFICES ASSUME PositionInv, KernelInv, [Next]_vars
             PROVE  KernelInv'
  OBVIOUS
<1>1. CASE factor_bcol
  BY <1>1, KernelStart
<1>2. CASE dev_llt_bcol
  BY <1>2, KernelStep DEF dev_llt_bcol, Running
<1>3. ASSUME stage' # "run"
      PROVE  KernelInv'
  BY <1>3 DEF KernelInv, Running
<1>4. CASE ConvertMatrix
  <2>1. stage' = "copy"
    BY <1>4 DEF ConvertMatrix, PositionInv
  <2> QED BY <1>3, <2>1
<1>5. CASE UpdateOuter \/ TakePanel \/ GivePanel \/ CopyDiagonal \/ UpdateInner \/ ConvertBack
  <2>1. stage' # "run"
    BY <1>5 DEF UpdateOuter, TakePanel, GivePanel, CopyDiagonal, UpdateInner, ConvertBack, NextStep
  <2> QED BY <1>3, <2>1
<1>6. CASE Return \/ UNCHANGED vars
  <2>1. UNCHANGED vars
    BY <1>6 DEF Return
  <2>2. Running' = Running /\ Block' = Block /\ LastPhase' = LastPhase /\ UNCHANGED <<done, launch, indefinite>>
    BY <2>1 DEF vars, Running, Does, nc, n, nb, steps, Block, LastPhase
  <2> QED BY <2>2 DEF KernelInv, HasLeft, Behind, Left, Positive, LastPhase
<1> QED BY <1>1, <1>2, <1>4, <1>5, <1>6 DEF Next

LEMMA KernelAlways == Spec => [](PositionInv /\ KernelInv)
<1>1. Init => PositionInv /\ KernelInv
  <2>1. Init => KernelInv
    BY DEF Init, KernelInv, Running
  <2> QED BY <2>1, PositionInit
<1>2. (PositionInv /\ KernelInv) /\ [Next]_vars => (PositionInv /\ KernelInv)'
  BY PositionNext, KernelNext
<1> QED BY <1>1, <1>2, PTL DEF Spec

-----------------------------------------------------------------------------
(* The columns before the first pivot that is not positive, as far as whole *)
(* block columns go.                                                        *)

LessThan == {ss \in Nat \X Nat : ss[1] < ss[2]}

LEMMA Smallest ==
  ASSUME NEW T \in SUBSET Nat, T # {}
  PROVE  \E x \in T : \A y \in T : x <= y
<1>1. IsWellFoundedOn(LessThan, Nat)
  BY NatLessThanWellFounded DEF OpToRel, LessThan
<1>2. PICK x \in T : \A y \in T : ~ (<<y, x>> \in LessThan)
  BY <1>1, WFMin, Zenon
<1>3. \A y \in T : ~ (y < x)
  BY <1>2 DEF LessThan
<1> QED BY <1>3

LEMMA RemainderOf ==
  ASSUME NEW P \in Nat \ {0}, NEW a \in Nat
  PROVE  /\ a % P \in Nat /\ a % P < P
         /\ a = P * (a \div P) + (a % P)
  BY Z3

LEMMA TimesSwap ==
  ASSUME NEW a \in Int, NEW b \in Int
  PROVE  a * b = b * a
  BY Z3

(* Where a block column begins, and what it is with respect to the block    *)
(* column in which column c lies.                                           *)
LEMMA BlockColumnOf ==
  ASSUME NEW P \in Nat \ {0}, NEW B \in Nat \ {0}, NEW c \in Nat,
         NEW a \in Nat, NEW e \in Nat, e * B < P,
         a * P + e * B < (c \div P) * P + ((c % P) \div B) * B
  PROVE  \/ a * P + P <= (c \div P) * P + ((c % P) \div B) * B
         \/ a * P + e * B + B <= (c \div P) * P + ((c % P) \div B) * B
<1> DEFINE Q == c \div P
           r == c % P
           R == r \div B
           QP == Q * P
           RB == R * B
           aP == a * P
           eB == e * B
<1>1. Q \in Nat
  BY BlockOf
<1>2. r \in Nat /\ r < P
  BY RemainderOf
<1>3. R \in Nat /\ B * R <= r
  <2> HIDE DEF r
  <2> QED BY <1>2, BlockOf
<1> HIDE DEF Q, r, R
<1>4. /\ QP \in Int /\ RB \in Int /\ aP \in Int /\ eB \in Int
      /\ a < Q => aP + P <= QP
      /\ Q < a => QP + P <= aP
      /\ e < R => eB + B <= RB
      /\ R <= e => RB <= eB
      /\ RB <= r /\ 0 <= RB /\ 0 <= eB
  <2>1. /\ QP \in Int /\ aP \in Int
        /\ a < Q => aP + P <= QP
        /\ Q < a => QP + P <= aP
    BY <1>1, TimesOrder
  <2>2. /\ RB \in Int /\ eB \in Int
        /\ e < R => eB + B <= RB
        /\ R <= e => RB <= eB
    BY <1>3, TimesOrder
  <2>3. RB <= r
    <3>1. R * B = B * R
      BY <1>3, TimesSwap
    <3> QED BY <1>3, <3>1
  <2>4. 0 <= RB /\ 0 <= eB
    <3>1. 0 * B = 0 /\ 0 * B <= R * B /\ 0 * B <= e * B
      BY <1>3, TimesOrder
    <3> QED BY <3>1
  <2> QED BY <2>1, <2>2, <2>3, <2>4
<1>5. aP + eB < QP + RB
  BY DEF Q, r, R
<1>6. CASE a < Q
  <2> HIDE DEF QP, RB, aP, eB
  <2>1. aP + P <= QP + RB
    BY <1>4, <1>6
  <2> QED BY <2>1 DEF QP, RB, aP, Q, r, R
<1>7. CASE Q < a
  <2> HIDE DEF QP, RB, aP, eB
  <2> QED BY <1>1, <1>2, <1>4, <1>5, <1>7
<1>8. CASE a = Q
  <2>1. aP = QP
    BY <1>8
  <2> HIDE DEF QP, RB, aP, eB
  <2>2. e < R
    BY <1>1, <1>3, <1>4, <1>5, <2>1
  <2>3. aP + eB + B <= QP + RB
    BY <1>4, <2>1, <2>2
  <2> QED BY <2>3 DEF QP, RB, aP, eB, Q, r, R
<1> QED BY <1>1, <1>6, <1>7, <1>8

LEMMA FirstFailingIs ==
  ASSUME indefinite \in SUBSET Nat, indefinite # {}
  PROVE  FirstFailing \in indefinite /\ \A c \in indefinite : FirstFailing <= c
<1>1. \E x \in indefinite : \A y \in indefinite : x <= y
  BY Smallest
<1> QED BY <1>1 DEF FirstFailing

LEMMA SoundColumns ==
  ASSUME job \in Jobs, indefinite \in SUBSET Nat
  PROVE  Sound \in Nat /\ Sound <= n /\ \A c \in Nat : c < Sound => c \notin indefinite
<1>1. n \in Nat \ {0} /\ nb \in Nat \ {0} /\ ib \in Nat \ {0}
  BY JobFacts
<1>2. CASE indefinite \cap 0..(n - 1) = {}
  <2>1. Sound = n
    BY <1>2 DEF Sound
  <2> QED BY <1>1, <1>2, <2>1
<1>3. CASE indefinite \cap 0..(n - 1) # {}
  <2> DEFINE F == FirstFailing
             Q == F \div nb
             r == F % nb
             R == r \div ib
  <2>1. F \in Nat /\ F < n /\ \A c \in indefinite : F <= c
    <3>1. FirstFailing \in indefinite /\ \A c \in indefinite : FirstFailing <= c
      BY <1>3, FirstFailingIs
    <3> QED BY <1>1, <1>3, <3>1
  <2> HIDE DEF F
  <2>2. Q \in Nat /\ r \in Nat /\ F = nb * Q + r
    BY <1>1, <2>1, BlockOf, RemainderOf
  <2> HIDE DEF Q, r
  <2>3. R \in Nat /\ ib * R <= r
    BY <1>1, <2>2, BlockOf
  <2> HIDE DEF R
  <2>4. Sound = Q * nb + R * ib
    BY <1>3 DEF Sound, Q, r, R, F
  <2>5. Q * nb = nb * Q /\ R * ib = ib * R
    BY <1>1, <2>2, <2>3, TimesSwap
  <2>6. Q * nb \in Nat /\ R * ib \in Nat
    BY <1>1, <2>2, <2>3, Z3
  <2>7. Sound \in Nat /\ Sound <= F
    <3> DEFINE A == Q * nb
               B == R * ib
    <3>1. A \in Nat /\ B \in Nat /\ Sound = A + B /\ F = A + r /\ B <= r
      BY <2>2, <2>3, <2>4, <2>5, <2>6
    <3> HIDE DEF A, B
    <3> QED BY <2>2, <3>1
  <2> QED BY <1>1, <2>1, <2>7
<1> QED BY <1>2, <1>3

first == ofs + iofs

(* A block column that begins before the first failing one ends before it.  *)
LEMMA SoundBlock ==
  ASSUME PositionInv, kk < nc, indefinite \in SUBSET Nat, first < Sound
  PROVE  first + cblkn <= Sound
<1>1. /\ job \in Jobs /\ kk \in Nat /\ k \in Nat /\ k < inc
  BY DEF PositionInv
<1>2. /\ n \in Nat \ {0} /\ nb \in Nat \ {0} /\ ib \in Nat \ {0}
      /\ ofs \in Nat /\ ofs < n /\ in \in 1..nb /\ in <= n - ofs
      /\ iofs \in Nat /\ iofs < in /\ cblkn \in 1..ib /\ cblkn <= in - iofs
  BY <1>1, JobFacts, OuterLoop, InnerLoop
<1>3. Sound \in Nat
  BY <1>1, SoundColumns
<1>4. CASE indefinite \cap 0..(n - 1) = {}
  <2>1. Sound = n
    BY <1>4 DEF Sound
  <2> QED BY <1>2, <2>1 DEF first
<1>5. CASE indefinite \cap 0..(n - 1) # {}
  <2> DEFINE F == FirstFailing
  <2>1. F \in Nat
    BY <1>5, FirstFailingIs
  <2>2. Sound = (F \div nb) * nb + ((F % nb) \div ib) * ib
    BY <1>5 DEF Sound
  <2> HIDE DEF F
  <2>3. ofs = kk * nb /\ iofs = k * ib
    BY DEF ofs, iofs
  <2>4. k * ib < nb /\ kk * nb + k * ib < (F \div nb) * nb + ((F % nb) \div ib) * ib
    <3>1. iofs < nb /\ ofs + iofs < Sound
      BY <1>2 DEF first
    <3> QED BY <2>2, <2>3, <3>1
  <2>5. \/ kk * nb + nb <= (F \div nb) * nb + ((F % nb) \div ib) * ib
        \/ kk * nb + k * ib + ib <= (F \div nb) * nb + ((F % nb) \div ib) * ib
    BY <1>1, <1>2, <2>1, <2>4, BlockColumnOf
  <2>6. ofs + nb <= Sound \/ ofs + iofs + ib <= Sound
    BY <2>2, <2>3, <2>5
  <2> QED BY <1>2, <1>3, <2>6 DEF first
<1> QED BY <1>4, <1>5

-----------------------------------------------------------------------------
(* Memory.                                                                  *)

LEMMA LaunchCovers ==
  ASSUME NEW len \in Nat, len < SuperNB, NEW i \in Nat, i < len
  PROVE  i % SuperNB < LaunchSize(i, len)
<1>1. SuperNB \in Nat \ {0}
  BY SizesAssumption
<1> DEFINE q == i \div SuperNB
           r == (len + SuperNB - 1) \div SuperNB
<1>2. i % SuperNB = i /\ len % SuperNB = len
  <2>1. \A a \in Nat : a < SuperNB => a % SuperNB = a
    BY <1>1, Z3
  <2>2. i < SuperNB
    BY <1>1
  <2> QED BY <2>1, <2>2, Zenon
<1>3. q = 0
  BY <1>1, Z3
<1>4. r = 1
  <2> DEFINE a == len + SuperNB - 1
  <2>1. a \in Nat /\ SuperNB <= a /\ a < SuperNB + SuperNB
    BY <1>1
  <2> HIDE DEF a
  <2>2. a \div SuperNB = 1
    BY <1>1, <2>1, Z3
  <2> QED BY <2>2 DEF a
<1>5. LaunchSize(i, len) = len
  BY <1>2, <1>3, <1>4 DEF LaunchSize
<1> QED BY <1>2, <1>5

(* No part of the matrix is left out by a conversion. *)
LEMMA ConvertsAll ==
  ASSUME NEW h \in Nat, NEW w \in Nat, h < SuperNB, w < SuperNB
  PROVE  Converted(h, w) = Part(h, w)
<1>1. ASSUME NEW p \in Part(h, w)
      PROVE  /\ p[1] % SuperNB < LaunchSize(p[1], h)
             /\ p[2] % SuperNB < LaunchSize(p[2], w)
  <2>1. p[1] \in Nat /\ p[1] < h /\ p[2] \in Nat /\ p[2] < w
    BY DEF Part
  <2> QED BY <2>1, LaunchCovers
<1> QED BY <1>1 DEF Converted

LEMMA InPart ==
  ASSUME NEW h \in Int, NEW w \in Int, NEW i \in Int, NEW j \in Int
  PROVE  <<i, j>> \in Part(h, w) <=> 0 <= i /\ i < h /\ 0 <= j /\ j < w
BY DEF Part

MemoryDomains ==
  DOMAIN mem = Buffer /\ \A b \in Buffer : DOMAIN mem[b] = Extent(job, b)

LEMMA PutAt ==
  ASSUME MemoryDomains, NEW buf \in Buffer, NEW r \in Int, NEW c \in Int, NEW new,
         mem' = Put(buf, r, c, new), job' = job
  PROVE  /\ MemoryDomains'
         /\ \A b \in Buffer : b # buf => mem'[b] = mem[b]
         /\ \A p \in Extent(job, buf) :
              /\ <<p[1] - r, p[2] - c>> \in DOMAIN new => mem'[buf][p] = new[<<p[1] - r, p[2] - c>>]
              /\ <<p[1] - r, p[2] - c>> \notin DOMAIN new => mem'[buf][p] = mem[buf][p]
<1> DEFINE G == [p \in DOMAIN mem[buf] |->
                   LET q == <<p[1] - r, p[2] - c>> IN IF q \in DOMAIN new THEN new[q] ELSE mem[buf][p]]
<1>1. mem' = [mem EXCEPT ![buf] = G]
  BY DEF Put
<1>2. \A p \in Extent(job, buf) :
        /\ <<p[1] - r, p[2] - c>> \in DOMAIN new => G[p] = new[<<p[1] - r, p[2] - c>>]
        /\ <<p[1] - r, p[2] - c>> \notin DOMAIN new => G[p] = mem[buf][p]
  BY DEF MemoryDomains
<1>3. DOMAIN G = Extent(job, buf)
  BY DEF MemoryDomains
<1> HIDE DEF G
<1>4. mem'[buf] = G /\ DOMAIN mem' = Buffer /\ \A b \in Buffer : b # buf => mem'[b] = mem[b]
  BY <1>1 DEF MemoryDomains
<1>5. Extent(job, buf)' = Extent(job, buf) /\ \A b \in Buffer : DOMAIN mem'[b] = Extent(job', b)
  BY <1>3, <1>4 DEF MemoryDomains
<1>6. MemoryDomains'
  BY <1>4, <1>5 DEF MemoryDomains, Buffer
<1> QED BY <1>2, <1>4, <1>6

(* Columns lo to hi of the matrix, on and below the diagonal and as far as  *)
(* they are sound, of a buffer where entry <<0, 0>> is <<sh, sh>> of the    *)
(* matrix: they hold the factor, or have the updates of s columns.          *)
Finished(M, h, S, sh, lo, hi) ==
  \A i, j \in Nat : lo <= j /\ j < hi /\ j < S /\ j <= i /\ i < h =>
    M[<<i - sh, j - sh>>] = Entry(i, j, j + 1)
Updates(M, h, S, sh, lo, hi, s) ==
  \A i, j \in Nat : lo <= j /\ j < hi /\ j < S /\ j <= i /\ i < h =>
    M[<<i - sh, j - sh>>] = Entry(i, j, s)

LEMMA EntryParts ==
  \A i, j, s : Entry(i, j, s).row = i /\ Entry(i, j, s).col = j /\ Entry(i, j, s).upto = s
BY DEF Entry

(* A product subtracts the columns it is to subtract from the entries it is *)
(* meant for.                                                               *)
FactorRow(u, i, s, w) == \A q \in 0..(w - 1) : u[q] = Entry(i, s + q, s + q + 1)

LEMMA SubtractedIs ==
  ASSUME NEW i \in Nat, NEW j \in Nat, NEW s \in Nat, NEW w \in Nat, NEW u, NEW v,
         FactorRow(u, i, s, w), FactorRow(v, j, s, w)
  PROVE  Subtracted(Entry(i, j, s), u, v, w) = Entry(i, j, s + w)
<1> DEFINE x == Entry(i, j, s)
<1>1. x.row = i /\ x.col = j /\ x.upto = s
  BY EntryParts
<1>2. \A q \in 0..(w - 1) : Factored(u[q], x.row, x.upto + q) /\ Factored(v[q], x.col, x.upto + q)
  <2> HIDE DEF x
  <2> QED BY <1>1 DEF Factored, FactorRow
<1> HIDE DEF x
<1>3. Subtracted(x, u, v, w) = Entry(i, j, s + w)
  BY <1>1, <1>2 DEF Subtracted
<1> QED BY <1>3 DEF x

LEMMA DividedIs ==
  ASSUME NEW i \in Nat, NEW j \in Nat
  PROVE  Divided(Entry(i, j, j), Entry(j, j, j)) = Entry(i, j, j + 1)
BY EntryParts DEF Divided


LEMMA LeftHolds ==
  ASSUME KernelInv
  PROVE  LeftTogether
<1> SUFFICES ASSUME Running, NEW b \in Block, NEW t \in Thread, NEW u \in Thread,
                    HasLeft(b, t), ~ HasLeft(b, u)
             PROVE  done[b][u] = Behind(b, t)
  BY DEF LeftTogether
<1>1. launch.n \in Nat /\ done[b][u] \in Nat /\ done[b][t] \in Nat
  BY TileSizeAssumption DEF KernelInv
<1>2. PICK q \in 0..(launch.n - 1) :
        /\ ~ Positive(q) /\ done[b][t] = Left(3 * q + 1)
        /\ \A v \in Thread : Behind(b, v) >= 3 * q + 1
  BY DEF KernelInv
<1>3. done[b][u] <= 3 * q + 1
  BY <1>2 DEF KernelInv
<1>4. Behind(b, u) = done[b][u] /\ Behind(b, u) >= 3 * q + 1
  BY <1>2 DEF Behind
<1>5. Behind(b, t) = 3 * q + 1
  <2>1. Behind(b, t) = Left(3 * q + 1) - Left(0)
    BY <1>2 DEF Behind
  <2> QED BY <1>1, <2>1 DEF Left, LastPhase
<1> QED BY <1>1, <1>3, <1>4, <1>5

-----------------------------------------------------------------------------
(* What the threads touch.                                                  *)

LEMMA ThreadFacts ==
  /\ TileSize \in Nat \ {0}
  /\ \A t \in Thread : /\ t = <<t[1], t[2]>> /\ t[1] \in Nat /\ t[1] < TileSize
                       /\ t[2] \in Nat /\ t[2] < TileSize
BY TileSizeAssumption DEF Thread

(* Threads have different indices, and different rows. *)
LEMMA IndexUnique ==
  ASSUME NEW t \in Thread, NEW u \in Thread, Idx(t) = Idx(u)
  PROVE  t = u
<1>1. /\ TileSize \in Nat \ {0} /\ t[1] \in Nat /\ t[1] < TileSize /\ t[2] \in Nat
      /\ u[1] \in Nat /\ u[1] < TileSize /\ u[2] \in Nat /\ t = <<t[1], t[2]>> /\ u = <<u[1], u[2]>>
  BY ThreadFacts
<1>2. t[1] + t[2] * TileSize = u[1] + u[2] * TileSize
  BY DEF Idx
<1>3. \A a, c, x, y \in Nat : a < TileSize /\ x < TileSize /\ a + c * TileSize = x + y * TileSize => c = y
  <2> SUFFICES ASSUME NEW a \in Nat, NEW c \in Nat, NEW x \in Nat, NEW y \in Nat,
                      a < TileSize, x < TileSize, a + c * TileSize = x + y * TileSize
               PROVE  c = y
    OBVIOUS
  <2>1. c * TileSize \in Int /\ y * TileSize \in Int
    BY <1>1, TimesOrder
  <2>2. ~ (c < y)
    <3> SUFFICES ASSUME c < y
                 PROVE  FALSE
      OBVIOUS
    <3>1. c * TileSize + TileSize <= y * TileSize
      BY <1>1, TimesOrder
    <3> DEFINE C == c * TileSize
               Y == y * TileSize
    <3>2. C \in Int /\ Y \in Int /\ C + TileSize <= Y /\ a + C = x + Y
      BY <2>1, <3>1
    <3> HIDE DEF C, Y
    <3> QED BY <1>1, <3>2
  <2>3. ~ (y < c)
    <3> SUFFICES ASSUME y < c
                 PROVE  FALSE
      OBVIOUS
    <3>1. y * TileSize + TileSize <= c * TileSize
      BY <1>1, TimesOrder
    <3> DEFINE C == c * TileSize
               Y == y * TileSize
    <3>2. C \in Int /\ Y \in Int /\ Y + TileSize <= C /\ a + C = x + Y
      BY <2>1, <3>1
    <3> HIDE DEF C, Y
    <3> QED BY <1>1, <3>2
  <2> QED BY <2>2, <2>3
<1>4. t[2] = u[2]
  BY <1>1, <1>2, <1>3
<1>5. t[1] = u[1]
  <2>1. t[2] * TileSize \in Int
    BY <1>1, TimesOrder
  <2> QED BY <1>1, <1>2, <1>4, <2>1
<1> QED BY <1>1, <1>4, <1>5

LEMMA RowsUnique ==
  ASSUME NEW b \in Nat, NEW c \in Nat, NEW t \in Thread, NEW u \in Thread,
         launch.row \in Int, launch.col \in Int, RowPlace(b, t)[2] = RowPlace(c, u)[2]
  PROVE  b = c /\ t = u
<1>1. /\ TileSize \in Nat \ {0} /\ t[1] \in Nat /\ t[1] < TileSize /\ t[2] \in Nat
      /\ u[1] \in Nat /\ u[1] < TileSize /\ u[2] \in Nat /\ t = <<t[1], t[2]>> /\ u = <<u[1], u[2]>>
  BY ThreadFacts
<1>2. /\ TileSize * b \in Int /\ TileSize * c \in Int /\ TileSize * b = b * TileSize /\ TileSize * c = c * TileSize
  BY <1>1, Z3
<1>3. /\ launch.row + t[1] + TileSize * b = launch.row + u[1] + TileSize * c
      /\ launch.col + t[2] = launch.col + u[2]
  BY DEF RowPlace
<1> DEFINE B == TileSize * b
           C == TileSize * c
<1>4. B \in Int /\ C \in Int /\ t[1] + B = u[1] + C /\ t[2] = u[2]
  BY <1>1, <1>2, <1>3
<1>5. /\ b < c => B + TileSize <= C
      /\ c < b => C + TileSize <= B
  BY <1>1, <1>2, TimesOrder
<1> HIDE DEF B, C
<1>6. b = c
  BY <1>1, <1>4, <1>5
<1>7. B = C
  BY <1>6 DEF B, C
<1> QED BY <1>1, <1>4, <1>6, <1>7
-----------------------------------------------------------------------------
(* The kernel on a block column without failing pivots: what its threads    *)
(* have in shared memory.                                                   *)

(* The matrix's row of row r of the shared memory of a block, the thread    *)
(* that loads and updates an entry of it, and the entries that matter.      *)
RowOf(b, r) == launch.first + (IF r < TileSize THEN r ELSE r - TileSize + TileSize * b)
Owner(r, c) == <<IF r < TileSize THEN r ELSE r - TileSize, c>>
Meant(b, r, c) == /\ c < launch.n
                  /\ r < TileSize => r < launch.n
                  /\ r >= TileSize => r - TileSize + TileSize * b < launch.m
                  /\ launch.first + c <= RowOf(b, r)

(* Entry e of column F + c when its owner has D phases behind it and the    *)
(* thread that divides it U: it has the updates of as many columns as the   *)
(* owner has gone through, c at most, and then its own.                     *)
Holds(e, F, row, c, D, U) ==
  /\ \A q \in 0..c : 3 * q + 1 <= D /\ (D <= 3 * q + 3 \/ q = c) /\ U <= 3 * c + 2
                       => e = Entry(row, F + c, F + q)
  /\ U > 3 * c + 2 => e = Entry(row, F + c, F + c + 1)

SharedRows == 0..(2 * TileSize - 1)
SharedColumns == 0..(TileSize - 1)

(* The entry of the matrix that a thread loads and stores. *)
MatrixRow(b, t) == launch.first + t[1] + TileSize * b
MatrixColumn(t) == launch.first + t[2]

InStep ==
  /\ \A b \in Block, t \in Thread : done[b][t] <= LastPhase + 1
  /\ \A b \in Block : \A t, u \in Thread : done[b][t] <= done[b][u] + 1
RowsHold ==
  \A b \in Block, t \in Thread : InRows(b, t) /\ MatrixColumn(t) <= MatrixRow(b, t) =>
    mem[launch.buf][RowPlace(b, t)[2]] =
      Entry(MatrixRow(b, t), MatrixColumn(t),
            IF done[b][t] = LastPhase + 1 THEN MatrixColumn(t) + 1 ELSE launch.first)
PivotsHold ==
  \A b \in Block, t \in Thread : \A q \in 0..(launch.n - 1) :
    done[b][t] = 3 * q + 2 =>
      d11[b][t] = Entry(launch.first + q, launch.first + q, launch.first + q)
SharedHolds ==
  \A b \in Block, r \in SharedRows, c \in SharedColumns, u \in Thread :
    Meant(b, r, c) /\ Idx(u) = r =>
      Holds(swork[b][<<r, c>>], launch.first, RowOf(b, r), c, done[b][Owner(r, c)], done[b][u])

ThreadsInv ==
  /\ DOMAIN swork = Block /\ \A b \in Block : DOMAIN swork[b] = Shared
  /\ DOMAIN d11 = Block /\ \A b \in Block : DOMAIN d11[b] = Thread
  /\ InStep /\ RowsHold /\ PivotsHold /\ SharedHolds

(* What the host has made sure of before it launches the kernel. *)
KernelData ==
  /\ launch.first \in Nat
  /\ \A q \in 0..(launch.n - 1) : Positive(q)
  /\ \A c, r \in 0..(launch.n - 1) : c <= r =>
       mem["d_d"][<<r, c>>] = Entry(launch.first + r, launch.first + c, launch.first)
  /\ launch.buf \in DOMAIN mem
  /\ \A b \in Block, t \in Thread : InRows(b, t) => RowPlace(b, t)[2] \in DOMAIN mem[launch.buf]

LEMMA HoldsStill ==
  ASSUME NEW e, NEW F, NEW row, NEW c \in Nat, NEW D \in Nat, NEW U \in Nat, NEW D2 \in Nat, NEW U2 \in Nat,
         Holds(e, F, row, c, D, U),
         D2 = D \/ (D2 = D + 1 /\ \E k0 \in Nat : D = 3 * k0 + 1 \/ D = 3 * k0 + 2 \/ (D = 3 * k0 + 3 /\ k0 >= c)),
         U2 = U \/ (U2 = U + 1 /\ U # 3 * c + 2)
  PROVE  Holds(e, F, row, c, D2, U2)
<1>1. ASSUME NEW q \in 0..c, 3 * q + 1 <= D2, D2 <= 3 * q + 3 \/ q = c, U2 <= 3 * c + 2
      PROVE  e = Entry(row, F + c, F + q)
  <2>1. U <= 3 * c + 2
    BY <1>1
  <2>2. 3 * q + 1 <= D /\ (D <= 3 * q + 3 \/ q = c)
    BY <1>1
  <2> QED BY <2>1, <2>2 DEF Holds
<1>2. ASSUME U2 > 3 * c + 2
      PROVE  e = Entry(row, F + c, F + c + 1)
  <2>1. U > 3 * c + 2
    BY <1>2
  <2> QED BY <2>1 DEF Holds
<1> QED BY <1>1, <1>2 DEF Holds

LEMMA ThreadOfIndex ==
  ASSUME NEW r \in SharedRows
  PROVE  \E u \in Thread : Idx(u) = r
<1>1. TileSize \in Nat /\ TileSize >= 2
  BY TileSizeAssumption
<1>2. CASE r < TileSize
  <2>1. <<r, 0>> \in Thread /\ Idx(<<r, 0>>) = r
    BY <1>1, <1>2 DEF Thread, Idx, SharedRows
  <2> QED BY <2>1
<1>3. CASE r >= TileSize
  <2>1. <<r - TileSize, 1>> \in Thread /\ Idx(<<r - TileSize, 1>>) = r
    BY <1>1, <1>3 DEF Thread, Idx, SharedRows
  <2> QED BY <2>1
<1> QED BY <1>1, <1>2, <1>3 DEF SharedRows

LEMMA OwnerIs ==
  ASSUME NEW r \in SharedRows, NEW c \in SharedColumns
  PROVE  /\ Owner(r, c) \in Thread /\ <<r, c>> \in Shared /\ r \in Nat /\ c \in Nat
         /\ \A t \in Thread : <<r, c>> = t <=> t = Owner(r, c) /\ r < TileSize
         /\ \A t \in Thread : <<r, c>> = Below(t) <=> t = Owner(r, c) /\ r >= TileSize
<1>1. TileSize \in Nat /\ TileSize >= 2 /\ r \in Nat /\ r < 2 * TileSize /\ c \in Nat /\ c < TileSize
  BY TileSizeAssumption DEF SharedRows, SharedColumns
<1>2. Owner(r, c) \in Thread /\ <<r, c>> \in Shared
  BY <1>1 DEF Owner, Thread, Shared
<1>3. ASSUME NEW t \in Thread
      PROVE  <<r, c>> = t <=> t = Owner(r, c) /\ r < TileSize
  <2>1. t = <<t[1], t[2]>> /\ t[1] \in Nat /\ t[1] < TileSize /\ t[2] \in Nat
    BY ThreadFacts
  <2> QED BY <1>1, <2>1 DEF Owner
<1>4. ASSUME NEW t \in Thread
      PROVE  <<r, c>> = Below(t) <=> t = Owner(r, c) /\ r >= TileSize
  <2>1. t = <<t[1], t[2]>> /\ t[1] \in Nat /\ t[1] < TileSize /\ t[2] \in Nat
    BY ThreadFacts
  <2>2. <<r, c>> = Below(t) <=> r = t[1] + TileSize /\ c = t[2]
    BY DEF Below
  <2>3. CASE r < TileSize
    BY <1>1, <2>1, <2>2, <2>3
  <2>4. CASE r >= TileSize
    <3>1. Owner(r, c) = <<r - TileSize, c>>
      BY <1>1, <2>4 DEF Owner
    <3>2. t = <<r - TileSize, c>> <=> t[1] = r - TileSize /\ t[2] = c
      BY <2>1
    <3> QED BY <1>1, <2>1, <2>2, <2>4, <3>1, <3>2
  <2> QED BY <1>1, <2>3, <2>4
<1> QED BY <1>1, <1>2, <1>3, <1>4

(* Nobody leaves, so that the threads of a block are one phase apart. *)
LEMMA StepTogether ==
  ASSUME KernelInv, Running, InStep, NEW b \in Block, NEW t \in Thread, NEW q \in 0..LastPhase,
         InPhase(b, t, q), Advance(b, t), launch' = launch
  PROVE  /\ InStep' /\ Block' = Block /\ LastPhase' = LastPhase /\ q \in Nat
         /\ done[b][t] = q /\ done'[b][t] = q + 1
         /\ \A c \in Block, u \in Thread : /\ done[c][u] \in Nat /\ done'[c][u] \in Nat
                                           /\ <<c, u>> # <<b, t>> => done'[c][u] = done[c][u]
         /\ \A u \in Thread : done[b][u] \in {q, q + 1}
<1>1. done \in [Block -> [Thread -> Nat]] /\ launch.n \in Nat /\ LastPhase = 3 * launch.n + 1
  BY TileSizeAssumption DEF KernelInv, LastPhase
<1>2. done[b][t] = q /\ Block' = Block /\ LastPhase' = LastPhase /\ q \in Nat
  BY DEF InPhase, Block, LastPhase
<1>3. done' = [done EXCEPT ![b][t] = q + 1]
  BY <1>2 DEF Advance
<1>4. /\ done'[b][t] = q + 1
      /\ \A c \in Block, u \in Thread : /\ done[c][u] \in Nat /\ done'[c][u] \in Nat
                                        /\ <<c, u>> # <<b, t>> => done'[c][u] = done[c][u]
  BY <1>1, <1>2, <1>3
<1>5. \A u \in Thread : done[b][u] >= q
  <2> SUFFICES ASSUME NEW u \in Thread
               PROVE  done[b][u] >= q
    OBVIOUS
  <2>1. ~ HasLeft(b, u)
    BY <1>1 DEF HasLeft, InStep
  <2> QED BY <1>2, <2>1 DEF InPhase, Ready, Synced, Behind
<1>6. \A u \in Thread : done[b][u] \in {q, q + 1}
  <2> SUFFICES ASSUME NEW u \in Thread
               PROVE  done[b][u] \in {q, q + 1}
    OBVIOUS
  <2>1. done[b][u] <= done[b][t] + 1
    BY DEF InStep
  <2> QED BY <1>2, <1>4, <1>5, <2>1
<1>7. \A c \in Block, u \in Thread : done'[c][u] <= LastPhase + 1
  <2> SUFFICES ASSUME NEW c \in Block, NEW u \in Thread
               PROVE  done'[c][u] <= LastPhase + 1
    OBVIOUS
  <2>1. CASE <<c, u>> = <<b, t>>
    <3>1. c = b /\ u = t
      BY <2>1
    <3> QED BY <1>1, <1>2, <1>4, <3>1
  <2>2. CASE <<c, u>> # <<b, t>>
    BY <1>4, <2>2 DEF InStep
  <2> QED BY <2>1, <2>2
<1>8. \A c \in Block : \A u, v \in Thread : done'[c][u] <= done'[c][v] + 1
  <2> SUFFICES ASSUME NEW c \in Block, NEW u \in Thread, NEW v \in Thread
               PROVE  done'[c][u] <= done'[c][v] + 1
    OBVIOUS
  <2>1. done[c][u] <= done[c][v] + 1
    BY DEF InStep
  <2>2. CASE c = b
    BY <1>2, <1>4, <1>6, <2>2
  <2>3. CASE c # b
    BY <1>4, <2>1, <2>3
  <2> QED BY <2>2, <2>3
<1> QED BY <1>2, <1>4, <1>6, <1>7, <1>8 DEF InStep

(* A write to the two entries of shared memory of a thread. *)
OwnChange(f, b, t, v1, v2) == [f EXCEPT ![b][t] = v1, ![b][Below(t)] = v2]

LEMMA OwnEntries ==
  ASSUME DOMAIN swork = Block, \A c \in Block : DOMAIN swork[c] = Shared,
         NEW b \in Block, NEW t \in Thread, NEW v1, NEW v2,
         swork' = OwnChange(swork, b, t, v1, v2)
  PROVE  /\ DOMAIN swork' = Block /\ \A c \in Block : DOMAIN swork'[c] = Shared
         /\ swork'[b][t] = v1 /\ swork'[b][Below(t)] = v2
         /\ \A c \in Block, p \in Shared : c # b \/ (p # t /\ p # Below(t)) => swork'[c][p] = swork[c][p]
<1>1. t \in Shared /\ Below(t) \in Shared /\ t # Below(t)
  <2>1. t = <<t[1], t[2]>> /\ t[1] \in Nat /\ t[1] < TileSize /\ t[2] \in Nat /\ t[2] < TileSize /\ TileSize \in Nat \ {0}
    BY ThreadFacts
  <2> QED BY <2>1 DEF Below, Shared
<1> DEFINE row == [[swork[b] EXCEPT ![t] = v1] EXCEPT ![Below(t)] = v2]
<1>2. swork' = [swork EXCEPT ![b] = row]
  BY DEF OwnChange
<1>3. /\ DOMAIN row = Shared /\ row[t] = v1 /\ row[Below(t)] = v2
      /\ \A p \in Shared : p # t /\ p # Below(t) => row[p] = swork[b][p]
  BY <1>1
<1> HIDE DEF row
<1> QED BY <1>2, <1>3

-----------------------------------------------------------------------------
(* The steps of the kernel keep ThreadsInv: load, test of a pivot, its      *)
(* application, the update of the columns right of it, and store.           *)

LEMMA LaunchSame ==
  ASSUME launch' = launch
  PROVE  /\ \A b, r : RowOf(b, r)' = RowOf(b, r)
         /\ \A b, r, c : Meant(b, r, c)' <=> Meant(b, r, c)
         /\ \A b, t : MatrixRow(b, t)' = MatrixRow(b, t) /\ RowPlace(b, t)' = RowPlace(b, t)
         /\ \A b, t : InRows(b, t)' <=> InRows(b, t)
         /\ \A t : MatrixColumn(t)' = MatrixColumn(t)
BY DEF RowOf, Meant, MatrixRow, RowPlace, InRows, MatrixColumn

(* Unless a thread stores, the rows in the matrix stay as they are. *)
LEMMA RowsStill ==
  ASSUME KernelInv, Running, InStep, NEW b \in Block, NEW t \in Thread, NEW q \in 0..LastPhase,
         InPhase(b, t, q), Advance(b, t), launch' = launch,
         RowsHold, q # LastPhase, mem' = mem
  PROVE  RowsHold'
<1>1. /\ Block' = Block /\ LastPhase' = LastPhase /\ q \in Nat /\ LastPhase \in Nat
      /\ done[b][t] = q /\ done'[b][t] = q + 1
      /\ \A c \in Block, u \in Thread : <<c, u>> # <<b, t>> => done'[c][u] = done[c][u]
  BY StepTogether, TileSizeAssumption DEF LastPhase, KernelInv
<1>2. \A c \in Block, u \in Thread : done'[c][u] = LastPhase + 1 <=> done[c][u] = LastPhase + 1
  <2> SUFFICES ASSUME NEW c \in Block, NEW u \in Thread
               PROVE  done'[c][u] = LastPhase + 1 <=> done[c][u] = LastPhase + 1
    OBVIOUS
  <2>1. CASE <<c, u>> = <<b, t>>
    <3>1. c = b /\ u = t
      BY <2>1
    <3> QED BY <1>1, <3>1
  <2> QED BY <1>1, <2>1
<1> QED BY <1>1, <1>2, LaunchSame DEF RowsHold

(* Unless a thread has tested a pivot, the pivots are what they were. *)
LEMMA PivotsStill ==
  ASSUME KernelInv, Running, InStep, NEW b \in Block, NEW t \in Thread, NEW q \in 0..LastPhase,
         InPhase(b, t, q), Advance(b, t), launch' = launch,
         PivotsHold, \A i \in 0..(launch.n - 1) : q # 3 * i + 1, d11' = d11
  PROVE  PivotsHold'
<1>1. /\ Block' = Block /\ q \in Nat /\ launch.n \in Nat
      /\ done[b][t] = q /\ done'[b][t] = q + 1
      /\ \A c \in Block, u \in Thread : <<c, u>> # <<b, t>> => done'[c][u] = done[c][u]
  BY StepTogether, TileSizeAssumption DEF KernelInv
<1> SUFFICES ASSUME NEW c \in Block, NEW u \in Thread, NEW i \in 0..(launch.n - 1), done'[c][u] = 3 * i + 2
             PROVE  d11[c][u] = Entry(launch.first + i, launch.first + i, launch.first + i)
  BY <1>1 DEF PivotsHold
<1>2. <<c, u>> # <<b, t>>
  BY <1>1
<1> QED BY <1>1, <1>2 DEF PivotsHold

EntryHolds(b, r, c, u) ==
  Holds(swork[b][<<r, c>>], launch.first, RowOf(b, r), c, done[b][Owner(r, c)], done[b][u])

(* An entry of shared memory that is not written. *)
LEMMA EntryStill ==
  ASSUME KernelInv, Running, InStep, NEW b \in Block, NEW t \in Thread, NEW q \in 0..LastPhase,
         InPhase(b, t, q), Advance(b, t), launch' = launch,
         NEW d \in Block, NEW r \in SharedRows, NEW c \in SharedColumns, NEW u \in Thread,
         EntryHolds(d, r, c, u), swork'[d][<<r, c>>] = swork[d][<<r, c>>],
         d = b /\ t = Owner(r, c) =>
           \E k0 \in Nat : q = 3 * k0 + 1 \/ q = 3 * k0 + 2 \/ (q = 3 * k0 + 3 /\ k0 >= c),
         d = b /\ u = t => q # 3 * c + 2
  PROVE  EntryHolds(d, r, c, u)'
<1> DEFINE o == Owner(r, c)
           D == done[d][o]
           U == done[d][u]
           D2 == done'[d][o]
           U2 == done'[d][u]
           e == swork[d][<<r, c>>]
<1>1. o \in Thread /\ c \in Nat
  BY OwnerIs
<1>2. /\ q \in Nat /\ done[b][t] = q /\ done'[b][t] = q + 1
      /\ \A x \in Block, y \in Thread : /\ done[x][y] \in Nat /\ done'[x][y] \in Nat
                                        /\ <<x, y>> # <<b, t>> => done'[x][y] = done[x][y]
  BY StepTogether
<1>3. D \in Nat /\ U \in Nat /\ D2 \in Nat /\ U2 \in Nat
  BY <1>1, <1>2
<1>4. /\ <<d, o>> = <<b, t>> => D = q /\ D2 = q + 1
      /\ <<d, o>> # <<b, t>> => D2 = D
      /\ <<d, u>> = <<b, t>> => U = q /\ U2 = q + 1
      /\ <<d, u>> # <<b, t>> => U2 = U
  BY <1>1, <1>2
<1>5. Holds(e, launch.first, RowOf(d, r), c, D, U)
  BY DEF EntryHolds
<1> HIDE DEF o, D, U, D2, U2, e
<1>6. D2 = D \/ (D2 = D + 1 /\ \E k0 \in Nat : D = 3 * k0 + 1 \/ D = 3 * k0 + 2 \/ (D = 3 * k0 + 3 /\ k0 >= c))
  <2>1. CASE <<d, o>> = <<b, t>>
    BY <1>4, <2>1 DEF o
  <2> QED BY <1>4, <2>1
<1>7. U2 = U \/ (U2 = U + 1 /\ U # 3 * c + 2)
  <2>1. CASE <<d, u>> = <<b, t>>
    <3>1. d = b /\ u = t
      BY <2>1
    <3> QED BY <1>4, <3>1
  <2> QED BY <1>4, <2>1
<1>8. Holds(e, launch.first, RowOf(d, r), c, D2, U2)
  BY <1>1, <1>3, <1>5, <1>6, <1>7, HoldsStill
<1>9. launch'.first = launch.first /\ RowOf(d, r)' = RowOf(d, r) /\ swork'[d][<<r, c>>] = e
  BY LaunchSame DEF e
<1> QED BY <1>8, <1>9 DEF EntryHolds, D2, U2, o

LEMMA SharedHoldsIs ==
  SharedHolds <=> \A b \in Block, r \in SharedRows, c \in SharedColumns, u \in Thread :
                    Meant(b, r, c) /\ Idx(u) = r => EntryHolds(b, r, c, u)
BY DEF SharedHolds, EntryHolds

LEMMA SharedHoldsNext ==
  ASSUME launch' = launch,
         \A d \in Block, r \in SharedRows, c \in SharedColumns, u \in Thread :
           Meant(d, r, c) /\ Idx(u) = r => EntryHolds(d, r, c, u)'
  PROVE  SharedHolds'
<1>1. SharedHolds' <=> \A d \in Block', r \in SharedRows, c \in SharedColumns, u \in Thread :
                         Meant(d, r, c)' /\ Idx(u) = r => EntryHolds(d, r, c, u)'
  BY DEF SharedHolds, EntryHolds
<1>2. Block' = Block
  BY DEF Block
<1> QED BY <1>1, <1>2, LaunchSame

LEMMA LoadStep ==
  ASSUME KernelInv, Running, KernelData, ThreadsInv, NEW b \in Block, NEW t \in Thread,
         dev_block_load(b, t), launch' = launch
  PROVE  ThreadsInv'
<1>1. /\ InPhase(b, t, 0) /\ Advance(b, t) /\ mem' = mem /\ d11' = d11 /\ 0 \in 0..LastPhase /\ 0 # LastPhase
      /\ launch.n \in Nat
  BY TileSizeAssumption DEF dev_block_load, KernelInv, LastPhase
<1>2. /\ InStep' /\ Block' = Block /\ done[b][t] = 0 /\ done'[b][t] = 1
      /\ \A c \in Block, u \in Thread : /\ done[c][u] \in Nat /\ done'[c][u] \in Nat
                                        /\ <<c, u>> # <<b, t>> => done'[c][u] = done[c][u]
      /\ \A u \in Thread : done[b][u] \in {0, 1}
  BY <1>1, StepTogether DEF ThreadsInv
<1>3. RowsHold'
  BY <1>1, RowsStill DEF ThreadsInv
<1>4. PivotsHold'
  <2>1. \A i \in 0..(launch.n - 1) : 0 # 3 * i + 1
    OBVIOUS
  <2> QED BY <1>1, <2>1, PivotsStill DEF ThreadsInv
<1> DEFINE v1 == IF InDiag(t) THEN At(DiagPlace(t)) ELSE Junk
           v2 == IF InRows(b, t) THEN At(RowPlace(b, t)) ELSE Junk
<1>5. /\ DOMAIN swork' = Block /\ \A c \in Block : DOMAIN swork'[c] = Shared
      /\ swork'[b][t] = v1 /\ swork'[b][Below(t)] = v2
      /\ \A c \in Block, p \in Shared : c # b \/ (p # t /\ p # Below(t)) => swork'[c][p] = swork[c][p]
  <2>1. swork' = OwnChange(swork, b, t, v1, v2)
    BY DEF dev_block_load, OwnChange
  <2>2. DOMAIN swork = Block /\ \A c \in Block : DOMAIN swork[c] = Shared
    BY DEF ThreadsInv
  <2> HIDE DEF v1, v2
  <2> QED BY <2>1, <2>2, OwnEntries
<1> HIDE DEF v1, v2
<1>6. ASSUME NEW d \in Block, NEW r \in SharedRows, NEW c \in SharedColumns, NEW u \in Thread,
             Meant(d, r, c), Idx(u) = r
      PROVE  EntryHolds(d, r, c, u)'
  <2>1. /\ Owner(r, c) \in Thread /\ <<r, c>> \in Shared /\ r \in Nat /\ c \in Nat
        /\ <<r, c>> = t <=> t = Owner(r, c) /\ r < TileSize
        /\ <<r, c>> = Below(t) <=> t = Owner(r, c) /\ r >= TileSize
    BY OwnerIs
  <2>2. EntryHolds(d, r, c, u)
    BY <1>6, SharedHoldsIs DEF ThreadsInv
  <2>3. CASE d # b \/ t # Owner(r, c)
    <3>1. swork'[d][<<r, c>>] = swork[d][<<r, c>>]
      BY <1>5, <2>1, <2>3
    <3>2. 0 # 3 * c + 2
      BY <2>1
    <3> QED BY <1>1, <2>2, <2>3, <3>1, <3>2, EntryStill DEF ThreadsInv
  <2>4. CASE d = b /\ t = Owner(r, c)
    <3> DEFINE e == Entry(RowOf(b, r), launch.first + c, launch.first)
    <3>1. swork'[b][<<r, c>>] = e
      <4>1. CASE r < TileSize
        <5>1. t = <<r, c>> /\ r < launch.n /\ c < launch.n /\ c <= r /\ RowOf(b, r) = launch.first + r
          BY <1>1, <1>6, <2>1, <2>4, <4>1, TileSizeAssumption DEF Meant, RowOf, KernelData
        <5>2. v1 = mem["d_d"][<<r, c>>]
          BY <5>1 DEF v1, InDiag, At, DiagPlace
        <5>3. mem["d_d"][<<r, c>>] = Entry(launch.first + r, launch.first + c, launch.first)
          BY <1>1, <2>1, <5>1 DEF KernelData
        <5> QED BY <1>5, <5>1, <5>2, <5>3
      <4>2. CASE r >= TileSize
        <5>1. <<r, c>> = Below(t) /\ t[1] = r - TileSize /\ t[2] = c
          BY <2>1, <2>4, <4>2, TileSizeAssumption DEF Owner
        <5>2. RowOf(b, r) = MatrixRow(b, t) /\ MatrixColumn(t) = launch.first + c
          <6>1. r - TileSize + TileSize * b \in Int /\ TileSize * b \in Int
            BY <2>1, TileSizeAssumption, Z3 DEF Block
          <6>2. RowOf(b, r) = launch.first + (r - TileSize + TileSize * b)
            BY <2>1, <4>2, TileSizeAssumption DEF RowOf
          <6> DEFINE B == TileSize * b
          <6>3. RowOf(b, r) = launch.first + (r - TileSize + B) /\ MatrixRow(b, t) = launch.first + t[1] + B /\ B \in Int
            BY <6>1, <6>2 DEF MatrixRow
          <6> HIDE DEF B
          <6> QED BY <2>1, <5>1, <6>3, TileSizeAssumption DEF MatrixColumn, KernelData
        <5>3. InRows(b, t) /\ MatrixColumn(t) <= MatrixRow(b, t)
          BY <1>6, <2>4, <4>2, <5>1, <5>2 DEF Meant, InRows
        <5>4. v2 = mem[launch.buf][RowPlace(b, t)[2]]
          BY <5>3 DEF v2, At, RowPlace
        <5>5. done[b][t] # LastPhase + 1
          BY <1>1, <1>2 DEF LastPhase
        <5>6. mem[launch.buf][RowPlace(b, t)[2]] = Entry(MatrixRow(b, t), MatrixColumn(t), launch.first)
          BY <5>3, <5>5 DEF ThreadsInv, RowsHold
        <5> QED BY <1>5, <5>1, <5>2, <5>4, <5>6
      <4> QED BY <2>1, <4>1, <4>2, TileSizeAssumption
    <3>2. done'[b][u] \in Nat /\ done'[b][u] <= 1 /\ done'[b][Owner(r, c)] = 1
      <4>1. CASE u = t
        BY <1>2, <2>4, <4>1
      <4>2. CASE u # t
        <5>1. done'[b][u] = done[b][u]
          BY <1>2, <4>2
        <5>2. done[b][u] <= done[b][t] + 1 /\ done[b][u] \in Nat
          BY <1>2 DEF ThreadsInv, InStep
        <5> QED BY <1>2, <2>4, <5>1, <5>2
      <4> QED BY <4>1, <4>2
    <3> HIDE DEF e
    <3>3. Holds(e, launch.first, RowOf(b, r), c, 1, done'[b][u])
      <4>1. ASSUME NEW i \in 0..c, 3 * i + 1 <= 1
            PROVE  e = Entry(RowOf(b, r), launch.first + c, launch.first + i)
        <5>1. i = 0 /\ launch.first + 0 = launch.first
          BY <4>1 DEF KernelData
        <5> QED BY <5>1 DEF e
      <4>2. ~ (done'[b][u] > 3 * c + 2)
        BY <2>1, <3>2
      <4> QED BY <4>1, <4>2 DEF Holds
    <3>4. launch'.first = launch.first /\ RowOf(b, r)' = RowOf(b, r)
      BY LaunchSame
    <3> QED BY <2>4, <3>1, <3>2, <3>3, <3>4 DEF EntryHolds
  <2> QED BY <2>3, <2>4
<1>7. SharedHolds'
  BY <1>6, SharedHoldsNext
<1>8. DOMAIN d11' = Block' /\ \A c \in Block' : DOMAIN d11'[c] = Thread
  BY <1>1, <1>2 DEF ThreadsInv
<1> QED BY <1>2, <1>3, <1>4, <1>5, <1>7, <1>8 DEF ThreadsInv

LEMMA TestStep ==
  ASSUME KernelInv, Running, KernelData, ThreadsInv, NEW b \in Block, NEW t \in Thread,
         TestPivot(b, t), launch' = launch
  PROVE  ThreadsInv'
<1>1. PICK i \in 0..(launch.n - 1) :
        /\ InPhase(b, t, 3 * i + 1)
        /\ d11' = [d11 EXCEPT ![b][t] = swork[b][<<i, i>>]]
        /\ Advance(b, t) /\ mem' = mem /\ swork' = swork
  BY DEF TestPivot, KernelData
<1> DEFINE q == 3 * i + 1
<1>2. q \in 0..LastPhase /\ q # LastPhase /\ launch.n \in Nat /\ launch.n <= TileSize /\ i \in Nat /\ i < launch.n
  BY <1>1, TileSizeAssumption DEF KernelInv, LastPhase
<1>3. InPhase(b, t, q)
  BY <1>1
<1>4. q = 3 * i + 1
  OBVIOUS
<1> HIDE DEF q
<1>5. /\ InStep' /\ Block' = Block /\ q \in Nat /\ done[b][t] = q /\ done'[b][t] = q + 1
      /\ \A c \in Block, u \in Thread : /\ done[c][u] \in Nat /\ done'[c][u] \in Nat
                                        /\ <<c, u>> # <<b, t>> => done'[c][u] = done[c][u]
      /\ \A u \in Thread : done[b][u] \in {q, q + 1}
  BY <1>1, <1>2, <1>3, StepTogether DEF ThreadsInv
<1>6. RowsHold'
  BY <1>1, <1>2, <1>3, RowsStill DEF ThreadsInv
<1>7. SharedHolds'
  <2> SUFFICES ASSUME NEW d \in Block, NEW r \in SharedRows, NEW c \in SharedColumns, NEW u \in Thread,
                      Meant(d, r, c), Idx(u) = r
               PROVE  EntryHolds(d, r, c, u)'
    BY SharedHoldsNext
  <2>1. c \in Nat
    BY OwnerIs
  <2>2. EntryHolds(d, r, c, u)
    BY SharedHoldsIs DEF ThreadsInv
  <2>3. q # 3 * c + 2
    BY <1>2, <1>4, <2>1
  <2>4. \E k0 \in Nat : q = 3 * k0 + 1 \/ q = 3 * k0 + 2 \/ (q = 3 * k0 + 3 /\ k0 >= c)
    BY <1>2, <1>4
  <2>5. swork'[d][<<r, c>>] = swork[d][<<r, c>>]
    BY <1>1
  <2> QED BY <1>1, <1>2, <1>3, <2>2, <2>3, <2>4, <2>5, EntryStill DEF ThreadsInv
<1>8. /\ DOMAIN d11' = Block /\ \A c \in Block : DOMAIN d11'[c] = Thread
      /\ d11'[b][t] = swork[b][<<i, i>>]
      /\ \A c \in Block, u \in Thread : <<c, u>> # <<b, t>> => d11'[c][u] = d11[c][u]
  BY <1>1 DEF ThreadsInv
<1>9. swork[b][<<i, i>>] = Entry(launch.first + i, launch.first + i, launch.first + i)
  <2>1. i \in SharedRows /\ i \in SharedColumns /\ i < TileSize
    BY <1>2, TileSizeAssumption DEF SharedRows, SharedColumns
  <2>2. PICK u \in Thread : Idx(u) = i
    BY <2>1, ThreadOfIndex
  <2>3. RowOf(b, i) = launch.first + i /\ launch.first + i \in Nat
    BY <1>2, <2>1 DEF RowOf, KernelData
  <2>4. Meant(b, i, i)
    BY <1>2, <2>1, <2>3, TileSizeAssumption DEF Meant
  <2>5. Holds(swork[b][<<i, i>>], launch.first, RowOf(b, i), i, done[b][Owner(i, i)], done[b][u])
    BY <2>1, <2>2, <2>4 DEF ThreadsInv, SharedHolds
  <2>6. done[b][Owner(i, i)] \in {q, q + 1} /\ done[b][u] \in {q, q + 1}
    BY <1>5, <2>1, OwnerIs
  <2>7. 3 * i + 1 <= done[b][Owner(i, i)] /\ done[b][u] <= 3 * i + 2
    BY <1>2, <1>4, <2>6
  <2> QED BY <1>2, <2>3, <2>5, <2>7 DEF Holds
<1>10. PivotsHold'
  <2> SUFFICES ASSUME NEW c \in Block, NEW u \in Thread, NEW j \in 0..(launch.n - 1), done'[c][u] = 3 * j + 2
               PROVE  d11'[c][u] = Entry(launch.first + j, launch.first + j, launch.first + j)
    BY <1>5 DEF PivotsHold
  <2>1. CASE <<c, u>> = <<b, t>>
    <3>1. c = b /\ u = t
      BY <2>1
    <3>2. j = i
      BY <1>2, <1>4, <1>5, <3>1
    <3> QED BY <1>8, <1>9, <3>1, <3>2
  <2>2. CASE <<c, u>> # <<b, t>>
    BY <1>5, <1>8, <2>2 DEF ThreadsInv, PivotsHold
  <2> QED BY <2>1, <2>2
<1>11. DOMAIN swork' = Block' /\ \A c \in Block' : DOMAIN swork'[c] = Shared
  BY <1>1, <1>5 DEF ThreadsInv
<1> QED BY <1>5, <1>6, <1>7, <1>8, <1>10, <1>11 DEF ThreadsInv

LEMMA ApplyStep ==
  ASSUME KernelInv, Running, KernelData, ThreadsInv, NEW b \in Block, NEW t \in Thread,
         ApplyPivot(b, t), launch' = launch
  PROVE  ThreadsInv'
<1>1. PICK i \in 0..(launch.n - 1) :
        /\ InPhase(b, t, 3 * i + 2)
        /\ swork' = IF Idx(t) < 2 * TileSize
                    THEN [swork EXCEPT ![b][<<Idx(t), i>>] = Divided(@, d11[b][t])]
                    ELSE swork
        /\ Advance(b, t) /\ mem' = mem /\ d11' = d11
  BY DEF ApplyPivot
<1> DEFINE q == 3 * i + 2
<1>2. q \in 0..LastPhase /\ q # LastPhase /\ launch.n \in Nat /\ launch.n <= TileSize /\ i \in Nat /\ i < launch.n
  BY <1>1, TileSizeAssumption DEF KernelInv, LastPhase
<1>3. InPhase(b, t, q)
  BY <1>1
<1>4. q = 3 * i + 2
  OBVIOUS
<1> HIDE DEF q
<1>5. /\ InStep' /\ Block' = Block /\ q \in Nat /\ done[b][t] = q /\ done'[b][t] = q + 1
      /\ \A c \in Block, u \in Thread : /\ done[c][u] \in Nat /\ done'[c][u] \in Nat
                                        /\ <<c, u>> # <<b, t>> => done'[c][u] = done[c][u]
      /\ \A u \in Thread : done[b][u] \in {q, q + 1}
  BY <1>1, <1>2, <1>3, StepTogether DEF ThreadsInv
<1>6. RowsHold'
  BY <1>1, <1>2, <1>3, RowsStill DEF ThreadsInv
<1>7. PivotsHold'
  <2>1. \A j \in 0..(launch.n - 1) : q # 3 * j + 1
    BY <1>2, <1>4
  <2> QED BY <1>1, <1>2, <1>3, <2>1, PivotsStill DEF ThreadsInv
<1>8. Idx(t) \in Nat
  <2>1. TileSize \in Nat \ {0} /\ t[1] \in Nat /\ t[2] \in Nat
    BY ThreadFacts
  <2>2. t[2] * TileSize \in Nat
    BY <2>1, Z3
  <2> QED BY <2>1, <2>2 DEF Idx
<1>9. /\ DOMAIN swork' = Block /\ \A c \in Block : DOMAIN swork'[c] = Shared
      /\ Idx(t) < 2 * TileSize => swork'[b][<<Idx(t), i>>] = Divided(swork[b][<<Idx(t), i>>], d11[b][t])
      /\ \A c \in Block, p \in Shared :
           c # b \/ p # <<Idx(t), i>> \/ ~ (Idx(t) < 2 * TileSize) => swork'[c][p] = swork[c][p]
  <2>1. DOMAIN swork = Block /\ \A c \in Block : DOMAIN swork[c] = Shared
    BY DEF ThreadsInv
  <2>2. CASE Idx(t) < 2 * TileSize
    <3>1. <<Idx(t), i>> \in Shared
      BY <1>2, <1>8, <2>2, TileSizeAssumption DEF Shared
    <3> DEFINE P == <<Idx(t), i>>
               v == Divided(swork[b][P], d11[b][t])
    <3>2. swork' = [swork EXCEPT ![b][P] = v]
      BY <1>1, <2>2
    <3> HIDE DEF v
    <3> QED BY <2>1, <2>2, <3>1, <3>2 DEF v
  <2>3. CASE ~ (Idx(t) < 2 * TileSize)
    BY <1>1, <2>1, <2>3
  <2> QED BY <2>2, <2>3
<1>10. SharedHolds'
  <2> SUFFICES ASSUME NEW d \in Block, NEW r \in SharedRows, NEW c \in SharedColumns, NEW u \in Thread,
                      Meant(d, r, c), Idx(u) = r
               PROVE  EntryHolds(d, r, c, u)'
    BY SharedHoldsNext
  <2>1. Owner(r, c) \in Thread /\ <<r, c>> \in Shared /\ c \in Nat /\ r \in Nat /\ r < 2 * TileSize
    BY OwnerIs, TileSizeAssumption DEF SharedRows
  <2>2. EntryHolds(d, r, c, u)
    BY SharedHoldsIs DEF ThreadsInv
  <2>3. CASE ~ (d = b /\ u = t /\ c = i)
    <3>1. swork'[d][<<r, c>>] = swork[d][<<r, c>>]
      <4>1. d # b \/ <<r, c>> # <<Idx(t), i>> \/ ~ (Idx(t) < 2 * TileSize)
        <5> SUFFICES ASSUME d = b, <<r, c>> = <<Idx(t), i>>
                     PROVE  FALSE
          OBVIOUS
        <5>1. Idx(t) = r /\ c = i
          OBVIOUS
        <5>2. u = t
          BY <5>1, IndexUnique
        <5> QED BY <2>3, <5>1, <5>2
      <4> QED BY <1>9, <2>1, <4>1
    <3>2. d = b /\ u = t => q # 3 * c + 2
      BY <1>2, <1>4, <2>1, <2>3
    <3>3. \E k0 \in Nat : q = 3 * k0 + 1 \/ q = 3 * k0 + 2 \/ (q = 3 * k0 + 3 /\ k0 >= c)
      BY <1>2, <1>4
    <3> QED BY <1>1, <1>2, <1>3, <2>2, <3>1, <3>2, <3>3, EntryStill DEF ThreadsInv
  <2>4. CASE d = b /\ u = t /\ c = i
    <3> DEFINE F == launch.first
               R == RowOf(b, r)
    <3>1. F \in Nat /\ R \in Int /\ F + c <= R
      <4>1. TileSize * b \in Int /\ TileSize \in Nat
        BY TileSizeAssumption, Z3 DEF Block
      <4>2. R \in Int
        BY <2>1, <4>1 DEF RowOf, KernelData
      <4> QED BY <2>4, <4>2 DEF Meant, KernelData
    <3>2. R \in Nat /\ F + c \in Nat
      BY <2>1, <3>1
    <3>3. swork[b][<<r, c>>] = Entry(R, F + c, F + c)
      <4>1. Holds(swork[b][<<r, c>>], F, R, c, done[b][Owner(r, c)], done[b][u])
        BY <2>2, <2>4 DEF EntryHolds
      <4>2. done[b][Owner(r, c)] \in {q, q + 1} /\ done[b][u] = q
        BY <1>5, <2>1, <2>4
      <4>3. 3 * c + 1 <= done[b][Owner(r, c)] /\ done[b][u] <= 3 * c + 2
        BY <1>2, <1>4, <2>4, <4>2
      <4> QED BY <2>1, <4>1, <4>3 DEF Holds
    <3>4. d11[b][t] = Entry(F + c, F + c, F + c)
      BY <1>2, <1>4, <1>5, <2>4 DEF ThreadsInv, PivotsHold
    <3>5. Idx(t) = r /\ Idx(t) < 2 * TileSize
      BY <2>1, <2>4
    <3>6. swork'[b][<<r, c>>] = Entry(R, F + c, F + c + 1)
      <4>1. swork'[b][<<r, c>>] = Divided(swork[b][<<r, c>>], d11[b][t])
        BY <1>9, <2>4, <3>5
      <4> HIDE DEF F, R
      <4> QED BY <3>2, <3>3, <3>4, <4>1, DividedIs
    <3>7. done'[b][u] > 3 * c + 2
      BY <1>2, <1>4, <1>5, <2>4
    <3>8. Holds(swork'[b][<<r, c>>], F, R, c, done'[b][Owner(r, c)], done'[b][u])
      <4>1. done'[b][u] \in Nat /\ c \in Nat
        BY <1>5, <2>1
      <4>2. ~ (done'[b][u] <= 3 * c + 2)
        BY <3>7, <4>1
      <4> QED BY <3>6, <4>2 DEF Holds
    <3>9. launch'.first = F /\ RowOf(b, r)' = R
      BY LaunchSame
    <3> QED BY <2>4, <3>8, <3>9 DEF EntryHolds
  <2> QED BY <2>3, <2>4
<1>11. DOMAIN d11' = Block' /\ \A c \in Block' : DOMAIN d11'[c] = Thread
  BY <1>1, <1>5 DEF ThreadsInv
<1> QED BY <1>5, <1>6, <1>7, <1>9, <1>10, <1>11 DEF ThreadsInv

(* An entry that has been divided. *)
LEMMA DividedEntry ==
  ASSUME SharedHolds, NEW b \in Block, NEW r \in SharedRows, NEW c \in SharedColumns, Meant(b, r, c),
         \A u \in Thread : done[b][u] \in Nat /\ done[b][u] > 3 * c + 2
  PROVE  swork[b][<<r, c>>] = Entry(RowOf(b, r), launch.first + c, launch.first + c + 1)
<1>1. PICK u \in Thread : Idx(u) = r
  BY ThreadOfIndex
<1>2. Holds(swork[b][<<r, c>>], launch.first, RowOf(b, r), c, done[b][Owner(r, c)], done[b][u])
  BY <1>1 DEF SharedHolds
<1> QED BY <1>1, <1>2 DEF Holds

LEMMA UpdateStep ==
  ASSUME KernelInv, Running, KernelData, ThreadsInv, NEW b \in Block, NEW t \in Thread,
         UpdateTrailing(b, t), launch' = launch
  PROVE  ThreadsInv'
<1>1. PICK i \in 0..(launch.n - 1) :
        /\ InPhase(b, t, 3 * i + 3)
        /\ swork' = [swork EXCEPT
               ![b][t] = IF t[2] > i /\ t[1] > i THEN Updated(b, t[1], t[2], i) ELSE @,
               ![b][Below(t)] = IF t[2] > i THEN Updated(b, t[1] + TileSize, t[2], i) ELSE @]
        /\ Advance(b, t) /\ mem' = mem /\ d11' = d11
  BY DEF UpdateTrailing
<1> DEFINE q == 3 * i + 3
<1>2. q \in 0..LastPhase /\ q # LastPhase /\ launch.n \in Nat /\ launch.n <= TileSize /\ i \in Nat /\ i < launch.n
  BY <1>1, TileSizeAssumption DEF KernelInv, LastPhase
<1>3. InPhase(b, t, q)
  BY <1>1
<1>4. q = 3 * i + 3
  OBVIOUS
<1> HIDE DEF q
<1>5. /\ InStep' /\ Block' = Block /\ q \in Nat /\ done[b][t] = q /\ done'[b][t] = q + 1
      /\ \A c \in Block, u \in Thread : /\ done[c][u] \in Nat /\ done'[c][u] \in Nat
                                        /\ <<c, u>> # <<b, t>> => done'[c][u] = done[c][u]
      /\ \A u \in Thread : done[b][u] \in {q, q + 1}
  BY <1>1, <1>2, <1>3, StepTogether DEF ThreadsInv
<1>6. RowsHold'
  BY <1>1, <1>2, <1>3, RowsStill DEF ThreadsInv
<1>7. PivotsHold'
  <2>1. \A j \in 0..(launch.n - 1) : q # 3 * j + 1
    BY <1>2, <1>4
  <2> QED BY <1>1, <1>2, <1>3, <2>1, PivotsStill DEF ThreadsInv
<1> DEFINE v1 == IF t[2] > i /\ t[1] > i THEN Updated(b, t[1], t[2], i) ELSE swork[b][t]
           v2 == IF t[2] > i THEN Updated(b, t[1] + TileSize, t[2], i) ELSE swork[b][Below(t)]
<1>8. t = <<t[1], t[2]>> /\ t[1] \in Nat /\ t[1] < TileSize /\ t[2] \in Nat /\ TileSize \in Nat /\ t # Below(t)
  <2>1. t = <<t[1], t[2]>> /\ t[1] \in Nat /\ t[1] < TileSize /\ t[2] \in Nat /\ TileSize \in Nat
    BY ThreadFacts
  <2> QED BY <2>1 DEF Below
<1>9. /\ DOMAIN swork' = Block /\ \A c \in Block : DOMAIN swork'[c] = Shared
      /\ swork'[b][t] = v1 /\ swork'[b][Below(t)] = v2
      /\ \A c \in Block, p \in Shared : c # b \/ (p # t /\ p # Below(t)) => swork'[c][p] = swork[c][p]
  <2>1. DOMAIN swork = Block /\ \A c \in Block : DOMAIN swork[c] = Shared
    BY DEF ThreadsInv
  <2>2. swork' = OwnChange(swork, b, t, v1, v2)
    <3> DEFINE w1 == IF t[2] > i /\ t[1] > i THEN Updated(b, t[1], t[2], i) ELSE swork[b][t]
               mid == [swork EXCEPT ![b][t] = w1]
    <3>1. mid[b][Below(t)] = swork[b][Below(t)]
      BY <1>8, <2>1
    <3> QED BY <1>1, <3>1 DEF OwnChange
  <2> HIDE DEF v1, v2
  <2> QED BY <2>1, <2>2, OwnEntries
<1>10. SharedHolds'
  <2> SUFFICES ASSUME NEW d \in Block, NEW r \in SharedRows, NEW c \in SharedColumns, NEW u \in Thread,
                      Meant(d, r, c), Idx(u) = r
               PROVE  EntryHolds(d, r, c, u)'
    BY SharedHoldsNext
  <2>1. /\ Owner(r, c) \in Thread /\ <<r, c>> \in Shared /\ c \in Nat /\ r \in Nat /\ r < 2 * TileSize
        /\ <<r, c>> = t <=> t = Owner(r, c) /\ r < TileSize
        /\ <<r, c>> = Below(t) <=> t = Owner(r, c) /\ r >= TileSize
    BY OwnerIs, TileSizeAssumption DEF SharedRows
  <2>2. EntryHolds(d, r, c, u)
    BY SharedHoldsIs DEF ThreadsInv
  <2>3. q # 3 * c + 2
    BY <1>2, <1>4, <2>1
  <2>4. CASE d # b \/ t # Owner(r, c)
    <3>1. swork'[d][<<r, c>>] = swork[d][<<r, c>>]
      BY <1>9, <2>1, <2>4
    <3> QED BY <1>1, <1>2, <1>3, <2>2, <2>3, <2>4, <3>1, EntryStill DEF ThreadsInv
  <2>5. CASE d = b /\ t = Owner(r, c) /\ c <= i
    <3>1. t[2] = c
      BY <2>5 DEF Owner
    <3>2. swork'[b][<<r, c>>] = swork[b][<<r, c>>]
      <4>1. ~ (t[2] > i)
        BY <1>2, <2>1, <2>5, <3>1
      <4>2. v1 = swork[b][t] /\ v2 = swork[b][Below(t)]
        BY <4>1
      <4> HIDE DEF v1, v2
      <4>3. <<r, c>> = t \/ <<r, c>> = Below(t)
        BY <1>8, <2>1, <2>5
      <4> QED BY <1>9, <4>2, <4>3
    <3>3. \E k0 \in Nat : q = 3 * k0 + 1 \/ q = 3 * k0 + 2 \/ (q = 3 * k0 + 3 /\ k0 >= c)
      BY <1>2, <1>4, <2>1, <2>5
    <3> QED BY <1>1, <1>2, <1>3, <2>2, <2>3, <2>5, <3>2, <3>3, EntryStill DEF ThreadsInv
  <2>6. CASE d = b /\ t = Owner(r, c) /\ c > i
    <3> DEFINE F == launch.first
               R == RowOf(b, r)
    <3>1. F \in Nat /\ R \in Nat /\ F + c <= R /\ F + c \in Nat /\ F + i \in Nat /\ F + i <= R
      <4>1. TileSize * b \in Int /\ TileSize \in Nat
        BY TileSizeAssumption, Z3 DEF Block
      <4>2. R \in Int
        BY <2>1, <4>1 DEF RowOf, KernelData
      <4>3. F \in Nat /\ F + c <= R
        BY <2>6 DEF Meant, KernelData
      <4> HIDE DEF F, R
      <4> QED BY <1>2, <2>1, <2>6, <4>2, <4>3
    <3>2. i \in SharedColumns /\ c \in SharedRows /\ c < launch.n /\ c < TileSize /\ RowOf(b, c) = F + c
      <4>1. c < launch.n
        BY <2>6 DEF Meant
      <4>2. c < TileSize
        BY <1>2, <1>8, <2>1, <4>1
      <4> QED BY <1>2, <1>8, <2>1, <4>1, <4>2 DEF SharedColumns, SharedRows, RowOf
    <3>3. Meant(b, r, i) /\ Meant(b, c, i)
      <4>1. Meant(b, r, i)
        BY <1>2, <2>6, <3>1 DEF Meant
      <4>2. Meant(b, c, i)
        BY <1>2, <1>8, <2>1, <2>6, <3>1, <3>2 DEF Meant
      <4> QED BY <4>1, <4>2
    <3>4. \A v \in Thread : done[b][v] \in Nat /\ done[b][v] > 3 * i + 2
      BY <1>2, <1>4, <1>5
    <3>5. /\ swork[b][<<r, i>>] = Entry(R, F + i, F + i + 1)
          /\ swork[b][<<c, i>>] = Entry(F + c, F + i, F + i + 1)
      BY <3>2, <3>3, <3>4, DividedEntry DEF ThreadsInv
    <3>6. done[b][u] <= 3 * c + 1 /\ done'[b][u] <= 3 * c + 1 /\ done'[b][u] \in Nat
      <4>1. done[b][u] \in {q, q + 1} /\ done'[b][u] \in {q, q + 1}
        BY <1>5
      <4>2. q + 1 <= 3 * c + 1
        BY <1>2, <1>4, <2>1, <2>6
      <4> QED BY <1>5, <2>1, <4>1, <4>2
    <3>7. swork[b][<<r, c>>] = Entry(R, F + c, F + i)
      <4>1. Holds(swork[b][<<r, c>>], F, R, c, q, done[b][u])
        BY <1>5, <2>2, <2>6 DEF EntryHolds
      <4>2. i \in 0..c /\ 3 * i + 1 <= q /\ q <= 3 * i + 3 /\ done[b][u] <= 3 * c + 2
        BY <1>2, <1>4, <1>5, <2>1, <2>6, <3>6
      <4> QED BY <4>1, <4>2 DEF Holds
    <3>8. swork'[b][<<r, c>>] = Updated(b, r, c, i)
      <4>1. CASE r < TileSize
        <5>1. t = <<r, c>> /\ t[1] = r /\ t[2] = c /\ r > i
          BY <1>8, <2>1, <2>6, <3>1, <4>1 DEF Meant, RowOf
        <5>2. v1 = Updated(b, r, c, i)
          BY <2>6, <5>1
        <5> HIDE DEF v1, v2
        <5> QED BY <1>9, <5>1, <5>2
      <4>2. CASE r >= TileSize
        <5>1. <<r, c>> = Below(t) /\ t[1] = r - TileSize /\ t[2] = c
          BY <1>8, <2>1, <2>6, <4>2 DEF Owner
        <5>2. t[1] + TileSize = r
          BY <1>8, <2>1, <5>1
        <5>3. v2 = Updated(b, r, c, i)
          BY <2>6, <5>1, <5>2
        <5> HIDE DEF v1, v2
        <5> QED BY <1>9, <5>1, <5>3
      <4> QED BY <1>8, <2>1, <4>1, <4>2
    <3>9. Updated(b, r, c, i) = Entry(R, F + c, F + i + 1)
      <4> DEFINE A == [z \in {0} |-> swork[b][<<r, i>>]]
                 B == [z \in {0} |-> swork[b][<<c, i>>]]
      <4>1. Updated(b, r, c, i) = Subtracted(Entry(R, F + c, F + i), A, B, 1)
        BY <3>7 DEF Updated
      <4>2. \A z \in 0..(1 - 1) : A[z] = Entry(R, F + i + z, F + i + z + 1) /\ B[z] = Entry(F + c, F + i + z, F + i + z + 1)
        <5> SUFFICES ASSUME NEW z \in 0..(1 - 1)
                     PROVE  A[z] = Entry(R, F + i + z, F + i + z + 1) /\ B[z] = Entry(F + c, F + i + z, F + i + z + 1)
          OBVIOUS
        <5>1. z = 0 /\ F + i + z = F + i /\ F + i + z + 1 = F + i + 1
          BY <3>1
        <5> QED BY <3>5, <5>1
      <4> DEFINE s == F + i
                 j == F + c
      <4>3. s \in Nat /\ j \in Nat /\ R \in Nat
        BY <3>1
      <4>4. Updated(b, r, c, i) = Subtracted(Entry(R, j, s), A, B, 1)
        BY <4>1
      <4>5. \A z \in 0..(1 - 1) : A[z] = Entry(R, s + z, s + z + 1) /\ B[z] = Entry(j, s + z, s + z + 1)
        BY <4>2
      <4> HIDE DEF A, B, s, j, R
      <4>6. Subtracted(Entry(R, j, s), A, B, 1) = Entry(R, j, s + 1)
        <5>1. FactorRow(A, R, s, 1) /\ FactorRow(B, j, s, 1)
          BY <4>5 DEF FactorRow
        <5> QED BY <4>3, <5>1, SubtractedIs
      <4> QED BY <4>4, <4>6 DEF s, j
    <3>10. Holds(swork'[b][<<r, c>>], F, R, c, q + 1, done'[b][u])
      <4> DEFINE e == swork'[b][<<r, c>>]
      <4>1. e = Entry(R, F + c, F + i + 1)
        BY <3>8, <3>9
      <4> HIDE DEF e, F, R
      <4>2. ASSUME NEW z \in 0..c, 3 * z + 1 <= q + 1, q + 1 <= 3 * z + 3 \/ z = c
            PROVE  e = Entry(R, F + c, F + z)
        <5>1. z = i + 1
          BY <1>2, <1>4, <2>1, <2>6, <4>2
        <5>2. F + z = F + i + 1
          BY <1>2, <3>1, <5>1
        <5> QED BY <4>1, <5>2
      <4>3. ~ (done'[b][u] > 3 * c + 2)
        BY <2>1, <3>6
      <4> QED BY <4>2, <4>3 DEF Holds, e
    <3>11. launch'.first = F /\ RowOf(b, r)' = R /\ done'[b][Owner(r, c)] = q + 1
      BY <1>5, <2>6, LaunchSame
    <3> QED BY <2>6, <3>10, <3>11 DEF EntryHolds
  <2> QED BY <1>2, <2>1, <2>4, <2>5, <2>6
<1>11. DOMAIN d11' = Block' /\ \A c \in Block' : DOMAIN d11'[c] = Thread
  BY <1>1, <1>5 DEF ThreadsInv
<1> QED BY <1>5, <1>6, <1>7, <1>9, <1>10, <1>11 DEF ThreadsInv

LEMMA StoreStep ==
  ASSUME KernelInv, Running, KernelData, ThreadsInv, NEW b \in Block, NEW t \in Thread,
         dev_block_store(b, t), launch' = launch
  PROVE  ThreadsInv'
<1>1. /\ InPhase(b, t, LastPhase) /\ Advance(b, t) /\ swork' = swork /\ d11' = d11
      /\ launch.n \in Nat /\ LastPhase \in 0..LastPhase /\ LastPhase = 3 * launch.n + 1
      /\ launch.row \in Int /\ launch.col \in Int
  BY TileSizeAssumption DEF dev_block_store, KernelInv, LastPhase
<1>2. /\ InStep' /\ Block' = Block /\ LastPhase' = LastPhase
      /\ done[b][t] = LastPhase /\ done'[b][t] = LastPhase + 1
      /\ \A c \in Block, u \in Thread : /\ done[c][u] \in Nat /\ done'[c][u] \in Nat
                                        /\ <<c, u>> # <<b, t>> => done'[c][u] = done[c][u]
      /\ \A u \in Thread : done[b][u] \in {LastPhase, LastPhase + 1}
  BY <1>1, StepTogether DEF ThreadsInv
<1>3. PivotsHold'
  <2>1. \A i \in 0..(launch.n - 1) : LastPhase # 3 * i + 1
    BY <1>1
  <2> QED BY <1>1, <2>1, PivotsStill DEF ThreadsInv
<1>4. SharedHolds'
  <2> SUFFICES ASSUME NEW d \in Block, NEW r \in SharedRows, NEW c \in SharedColumns, NEW u \in Thread,
                      Meant(d, r, c), Idx(u) = r
               PROVE  EntryHolds(d, r, c, u)'
    BY SharedHoldsNext
  <2>1. c \in Nat
    BY OwnerIs
  <2>2. EntryHolds(d, r, c, u)
    BY SharedHoldsIs DEF ThreadsInv
  <2>3. LastPhase # 3 * c + 2
    BY <1>1, <2>1
  <2>4. \E k0 \in Nat : LastPhase = 3 * k0 + 1 \/ LastPhase = 3 * k0 + 2 \/ (LastPhase = 3 * k0 + 3 /\ k0 >= c)
    BY <1>1
  <2>5. swork'[d][<<r, c>>] = swork[d][<<r, c>>]
    BY <1>1
  <2> QED BY <1>1, <2>2, <2>3, <2>4, <2>5, EntryStill DEF ThreadsInv
<1>5. ASSUME InRows(b, t), MatrixColumn(t) <= MatrixRow(b, t)
      PROVE  swork[b][Below(t)] = Entry(MatrixRow(b, t), MatrixColumn(t), MatrixColumn(t) + 1)
  <2> DEFINE r == t[1] + TileSize
             c == t[2]
  <2>1. t = <<t[1], t[2]>> /\ t[1] \in Nat /\ t[1] < TileSize /\ t[2] \in Nat /\ t[2] < TileSize /\ TileSize \in Nat
    BY ThreadFacts
  <2>2. r \in SharedRows /\ c \in SharedColumns /\ <<r, c>> = Below(t) /\ r >= TileSize /\ r - TileSize = t[1] /\ ~ (r < TileSize)
    BY <2>1 DEF SharedRows, SharedColumns, Below
  <2>3. TileSize * b \in Int
    BY <2>1, Z3 DEF Block
  <2>4. RowOf(b, r) = MatrixRow(b, t) /\ launch.first + c = MatrixColumn(t)
    <3> DEFINE B == TileSize * b
    <3>1. RowOf(b, r) = launch.first + (t[1] + B) /\ MatrixRow(b, t) = launch.first + t[1] + B /\ B \in Int
      BY <2>2, <2>3 DEF RowOf, MatrixRow
    <3> HIDE DEF B, r
    <3> QED BY <2>1, <3>1 DEF KernelData, MatrixColumn
  <2>5. Meant(b, r, c)
    BY <1>5, <2>2, <2>4 DEF Meant, InRows
  <2>6. \A u \in Thread : done[b][u] \in Nat /\ done[b][u] > 3 * c + 2
    <3>1. c < launch.n
      BY <1>5 DEF InRows
    <3> QED BY <1>1, <1>2, <2>1, <3>1
  <2> HIDE DEF r, c
  <2>7. swork[b][<<r, c>>] = Entry(RowOf(b, r), launch.first + c, launch.first + c + 1)
    BY <2>2, <2>5, <2>6, DividedEntry DEF ThreadsInv
  <2> QED BY <2>2, <2>4, <2>7
<1>6. /\ InRows(b, t) => mem'[launch.buf][RowPlace(b, t)[2]] = swork[b][Below(t)]
      /\ \A d \in Block, u \in Thread : <<d, u>> # <<b, t>> =>
           mem'[launch.buf][RowPlace(d, u)[2]] = mem[launch.buf][RowPlace(d, u)[2]]
  <2>1. CASE InRows(b, t)
    <3> DEFINE P == RowPlace(b, t)[2]
               B == launch.buf
               v == swork[b][Below(t)]
    <3>1. P \in DOMAIN mem[B] /\ B \in DOMAIN mem
      BY <2>1 DEF KernelData
    <3>2. mem' = [mem EXCEPT ![B][P] = v]
      BY <2>1 DEF dev_block_store
    <3>3. ASSUME NEW d \in Block, NEW u \in Thread, <<d, u>> # <<b, t>>
          PROVE  RowPlace(d, u)[2] # P
      <4>1. d \in Nat /\ b \in Nat
        BY DEF Block
      <4> QED BY <1>1, <3>3, <4>1, RowsUnique
    <3> HIDE DEF P, B, v
    <3>4. mem'[B][P] = v /\ \A p : p # P => mem'[B][p] = mem[B][p]
      BY <3>1, <3>2
    <3>5. \A d \in Block, u \in Thread : <<d, u>> # <<b, t>> => mem'[B][RowPlace(d, u)[2]] = mem[B][RowPlace(d, u)[2]]
      BY <3>3, <3>4
    <3> QED BY <3>4, <3>5 DEF P, B, v
  <2>2. CASE ~ InRows(b, t)
    BY <2>2 DEF dev_block_store
  <2> QED BY <2>1, <2>2
<1>7. RowsHold'
  <2> SUFFICES ASSUME NEW d \in Block, NEW u \in Thread, InRows(d, u), MatrixColumn(u) <= MatrixRow(d, u)
               PROVE  mem'[launch.buf][RowPlace(d, u)[2]] =
                        Entry(MatrixRow(d, u), MatrixColumn(u),
                              IF done'[d][u] = LastPhase + 1 THEN MatrixColumn(u) + 1 ELSE launch.first)
    BY <1>2, LaunchSame DEF RowsHold
  <2>1. CASE <<d, u>> = <<b, t>>
    <3>1. d = b /\ u = t
      BY <2>1
    <3> QED BY <1>2, <1>5, <1>6, <3>1
  <2>2. CASE <<d, u>> # <<b, t>>
    BY <1>2, <1>6, <2>2 DEF ThreadsInv, RowsHold
  <2> QED BY <2>1, <2>2
<1>8. /\ DOMAIN swork' = Block' /\ \A c \in Block' : DOMAIN swork'[c] = Shared
      /\ DOMAIN d11' = Block' /\ \A c \in Block' : DOMAIN d11'[c] = Thread
  BY <1>1, <1>2 DEF ThreadsInv
<1> QED BY <1>2, <1>3, <1>4, <1>7, <1>8 DEF ThreadsInv

LEMMA ThreadsStep ==
  ASSUME KernelInv, Running, KernelData, ThreadsInv, dev_llt_bcol
  PROVE  ThreadsInv'
<1>1. PICK b \in Block, t \in Thread : dev_llt_block(b, t)
  BY DEF dev_llt_bcol
<1>2. launch' = launch
  BY DEF dev_llt_bcol
<1> QED BY <1>1, <1>2, LoadStep, TestStep, ApplyStep, UpdateStep, StoreStep DEF dev_llt_block

(* A step of the kernel changes memory only where it stores. *)
LEMMA KernelMemory ==
  ASSUME dev_llt_bcol
  PROVE  \/ mem' = mem
         \/ \E b \in Block, t \in Thread :
              /\ InRows(b, t)
              /\ \E v : mem' = [mem EXCEPT ![launch.buf][RowPlace(b, t)[2]] = v]
<1>1. PICK b \in Block, t \in Thread : dev_llt_block(b, t)
  BY DEF dev_llt_bcol
<1>2. CASE dev_block_store(b, t)
  <2>1. CASE InRows(b, t)
    <3>1. mem' = [mem EXCEPT ![launch.buf][RowPlace(b, t)[2]] = swork[b][Below(t)]]
      BY <1>2, <2>1 DEF dev_block_store
    <3> QED BY <2>1, <3>1
  <2> QED BY <1>2, <2>1 DEF dev_block_store
<1>3. CASE ~ dev_block_store(b, t)
  BY <1>1, <1>3 DEF dev_llt_block, dev_block_load, TestPivot, ApplyPivot, UpdateTrailing
<1> QED BY <1>2, <1>3

(* When the kernel has ended the rows of the block column hold the factor.  *)
LEMMA KernelResult ==
  ASSUME KernelInv, Running, KernelData, ThreadsInv, Over,
         NEW i \in Nat, NEW j \in Nat, i < launch.m, j < launch.n, j <= i
  PROVE  mem[launch.buf][<<launch.row + i, launch.col + j>>] =
           Entry(launch.first + i, launch.first + j, launch.first + j + 1)
<1> DEFINE b == i \div TileSize
           r == i % TileSize
           t == <<r, j>>
<1>1. /\ TileSize \in Nat \ {0} /\ launch.n \in Nat /\ launch.n <= TileSize /\ launch.m \in Nat
      /\ launch.row \in Nat /\ launch.col \in Nat /\ launch.first \in Nat
  BY TileSizeAssumption DEF KernelInv, KernelData
<1>2. b \in Nat /\ r \in Nat /\ r < TileSize /\ i = TileSize * b + r
  BY <1>1, BlockOf, RemainderOf
<1> HIDE DEF b, r
<1> DEFINE B == TileSize * b
<1>3. B \in Int /\ i = B + r
  <2>1. TileSize * b \in Int
    BY <1>1, <1>2, Z3
  <2> QED BY <1>2, <2>1
<1>4. b \in Block
  <2> DEFINE a == launch.m + TileSize - 1
             Q == a \div TileSize
  <2>1. a \in Nat
    BY <1>1
  <2>2. Q \in Nat /\ TileSize * Q <= a /\ a < TileSize * Q + TileSize
    <3> HIDE DEF a
    <3> QED BY <1>1, <2>1, BlockOf
  <2>3. b < Q
    <3> SUFFICES ASSUME Q <= b
                 PROVE  FALSE
      <4> HIDE DEF Q
      <4> QED BY <1>2, <2>2
    <3> HIDE DEF Q
    <3>1. Q * TileSize <= b * TileSize /\ Q * TileSize = TileSize * Q /\ b * TileSize = TileSize * b /\ Q * TileSize \in Int
      BY <1>1, <1>2, <2>2, TimesOrder, TimesSwap
    <3> DEFINE C == TileSize * Q
    <3>2. C <= B /\ launch.m + TileSize - 1 < C + TileSize /\ C \in Int
      BY <2>2, <3>1
    <3> HIDE DEF B, C
    <3> QED BY <1>1, <1>2, <1>3, <3>2
  <2>4. Block = 0..(Q - 1)
    BY DEF Block
  <2> HIDE DEF Q
  <2> QED BY <1>2, <2>2, <2>3, <2>4
<1>5. t \in Thread /\ t[1] = r /\ t[2] = j
  BY <1>1, <1>2 DEF Thread
<1>6. InRows(b, t)
  <2>1. t[1] + TileSize * b = i
    <3>1. t[1] + B = i
      BY <1>2, <1>3, <1>5
    <3> QED BY <3>1
  <2> QED BY <1>5, <2>1 DEF InRows
<1>7. /\ RowPlace(b, t)[2] = <<launch.row + i, launch.col + j>>
      /\ MatrixRow(b, t) = launch.first + i /\ MatrixColumn(t) = launch.first + j
  <2>1. launch.row + r + B = launch.row + i /\ launch.first + r + B = launch.first + i
    <3> HIDE DEF B
    <3> QED BY <1>1, <1>2, <1>3
  <2> QED BY <1>5, <2>1 DEF RowPlace, MatrixRow, MatrixColumn
<1>8. done[b][t] = LastPhase + 1
  <2>1. done[b][t] \in Nat /\ done[b][t] <= LastPhase + 1 /\ done[b][t] > LastPhase /\ LastPhase \in Nat
    BY <1>1, <1>4, <1>5 DEF ThreadsInv, InStep, Over, Ended, KernelInv, LastPhase
  <2> QED BY <2>1
<1>9. MatrixColumn(t) <= MatrixRow(b, t)
  BY <1>1, <1>7
<1> QED BY <1>4, <1>5, <1>6, <1>7, <1>8, <1>9 DEF ThreadsInv, RowsHold

-----------------------------------------------------------------------------
(* What the buffers hold between the operations on the stream.              *)

shift == IF panel = "d_a_tmp" THEN ofs ELSE 0

Launched == [m |-> cblkm, n |-> cblkn, buf |-> panel,
             row |-> origin + iofs, col |-> origin + iofs, first |-> first]

(* While an outer block column is factorized: its columns before the block  *)
(* column at hand are finished, the others have the updates of all columns  *)
(* before it.                                                               *)
FactorInv ==
  /\ Finished(mem[panel], m, Sound, shift, ofs, first)
  /\ Updates(mem[panel], m, Sound, shift, first + cblkn, ofs + in, first)
  /\ stage \in {"copy", "launch"} =>
       Updates(mem[panel], m, Sound, shift, first, first + cblkn, first)
  /\ stage = "launch" /\ first < Sound =>
       \A c, r \in 0..(cblkn - 1) : c <= r => mem["d_d"][<<r, c>>] = Entry(first + r, first + c, first)
  /\ stage = "run" =>
       /\ launch = Launched
       /\ first < Sound => KernelData /\ ThreadsInv

MemoryInv ==
  /\ indefinite \in SUBSET Nat
  /\ MemoryDomains
  /\ stage \in {"copy", "launch", "run", "returned"}
  /\ stage = "returned" => kk = nc
  /\ stage \in {"launch", "run"} => Does("factor")
  /\ step = 0 => Updates(mem["d_a"], m, Sound, 0, 0, n, 0)
  /\ step # 0 /\ stage # "returned" =>
       /\ Finished(mem[whole], m, Sound, 0, 0, ofs)
       /\ Updates(mem[whole], m, Sound, 0, ofs + nb, n, 0)
       /\ Does("update") => Updates(mem[UpdateTo], m, Sound, ofs - updateOrigin, ofs, ofs + in, 0)
       /\ Does("take") => Updates(mem[whole], m, Sound, 0, ofs, ofs + in,
                                  IF job.method = "u32" THEN 0 ELSE ofs)
       /\ Does("factor") => FactorInv
       /\ Does("give") => Finished(mem[panel], m, Sound, shift, ofs, ofs + in)
  /\ stage = "returned" => Finished(mem["d_a"], m, Sound, 0, 0, n)

(* The variants: which buffers they have, and what follows what. *)
LEMMA VariantFacts ==
  ASSUME job \in Jobs
  PROVE  /\ job.method = "ll" => whole = "d_a" /\ panel = "d_a" /\ steps = <<"update", "factor">>
         /\ job.method = "hp" => whole = "d_a_hp" /\ panel = "d_a_tmp" /\ steps = <<"update", "take", "factor", "give">>
         /\ job.method = "u32" => whole = "d_a_hp" /\ panel = "d_a_tmp" /\ steps = <<"take", "update", "factor", "give">>
         /\ job.method = "c16" => whole = "d_a_hp" /\ panel = "d_a_hp" /\ steps = <<"update", "factor">>
         /\ job.method \in {"ll", "hp", "u32", "c16"}
<1>1. job.method \in {"ll", "hp", "u32", "c16"}
  BY JobsAssumption DEF Method, Variant
<1>2. /\ Variant["ll"] = factor_ll /\ Variant["hp"] = factor_ll_hp
      /\ Variant["u32"] = factor_ll_hp_u32 /\ Variant["c16"] = factor_ll_hp_c16
  BY DEF Variant
<1>3. job.method = "ll" => whole = "d_a" /\ panel = "d_a" /\ steps = <<"update", "factor">>
  BY <1>2 DEF whole, panel, steps, factor_ll
<1>4. job.method = "hp" => whole = "d_a_hp" /\ panel = "d_a_tmp" /\ steps = <<"update", "take", "factor", "give">>
  BY <1>2 DEF whole, panel, steps, factor_ll_hp
<1>5. job.method = "u32" => whole = "d_a_hp" /\ panel = "d_a_tmp" /\ steps = <<"take", "update", "factor", "give">>
  BY <1>2 DEF whole, panel, steps, factor_ll_hp_u32
<1>6. job.method = "c16" => whole = "d_a_hp" /\ panel = "d_a_hp" /\ steps = <<"update", "factor">>
  BY <1>2 DEF whole, panel, steps, factor_ll_hp_c16
<1> QED BY <1>1, <1>3, <1>4, <1>5, <1>6

LEMMA Buffers ==
  ASSUME job \in Jobs, kk \in Nat
  PROVE  /\ whole \in {"d_a", "d_a_hp"} /\ panel \in {whole, "d_a_tmp"} /\ UpdateTo \in {whole, "d_a_tmp"}
         /\ Extent(job, whole) = Part(m, n)
         /\ panel = "d_a_tmp" => Extent(job, panel) = Part(m, nb)
         /\ UpdateTo = "d_a_tmp" <=> job.method = "u32"
         /\ UpdateTo = "d_a_tmp" => panel = "d_a_tmp"
         /\ Extent(job, "d_a") = Part(m, n) /\ Extent(job, "d_d") = Part(ib, ib)
         /\ ofs \in Nat /\ shift = IF panel = "d_a_tmp" THEN ofs ELSE 0
         /\ origin = ofs - shift /\ origin \in Nat
         /\ updateOrigin = IF job.method = "u32" THEN 0 ELSE ofs
<1>1. /\ whole \in {"d_a", "d_a_hp"} /\ panel \in {whole, "d_a_tmp"}
      /\ job.method = "u32" => panel = "d_a_tmp" /\ whole = "d_a_hp"
  BY VariantFacts
<1>2. ofs \in Nat
  BY OuterLoop
<1>3. UpdateTo = IF job.method = "u32" THEN "d_a_tmp" ELSE whole
  BY DEF UpdateTo
<1>4. Extent(job, whole) = Part(m, n)
  <2>1. Variant[job.method].whole = whole
    BY DEF whole
  <2> QED BY <1>1, <2>1 DEF Extent, m, n
<1>5. panel = "d_a_tmp" => Extent(job, panel) = Part(m, nb)
  <2>1. Variant[job.method].panel = panel
    BY DEF panel
  <2> QED BY <2>1 DEF Extent, m, nb
<1>6. Extent(job, "d_a") = Part(m, n) /\ Extent(job, "d_d") = Part(ib, ib)
  BY DEF Extent, m, n
<1>7. origin = ofs - shift /\ origin \in Nat
  BY <1>2 DEF origin, shift
<1> QED BY <1>1, <1>2, <1>3, <1>4, <1>5, <1>6, <1>7 DEF shift, updateOrigin

LEMMA StepsFollow ==
  ASSUME job \in Jobs, step \in 1..Len(steps)
  PROVE  /\ steps[1] = IF job.method = "u32" THEN "take" ELSE "update"
         /\ steps[step] = "update" => /\ step < Len(steps)
                                      /\ steps[step + 1] = IF job.method = "hp" THEN "take" ELSE "factor"
         /\ steps[step] = "take" => /\ step < Len(steps) /\ panel = "d_a_tmp"
                                    /\ job.method = "hp" \/ job.method = "u32"
                                    /\ steps[step + 1] = IF job.method = "hp" THEN "factor" ELSE "update"
         /\ steps[step] = "factor" => IF panel = "d_a_tmp" THEN step < Len(steps) /\ steps[step + 1] = "give"
                                                           ELSE step = Len(steps)
         /\ steps[step] = "give" => step = Len(steps) /\ panel = "d_a_tmp"
<1>1. CASE job.method = "ll" \/ job.method = "c16"
  <2>1. steps = <<"update", "factor">> /\ panel # "d_a_tmp" /\ job.method # "u32" /\ job.method # "hp"
    BY <1>1, VariantFacts
  <2>2. Len(steps) = 2 /\ steps[1] = "update" /\ steps[2] = "factor"
    BY <2>1
  <2>3. step = 1 \/ step = 2
    BY <2>2
  <2> QED BY <2>1, <2>2, <2>3
<1>2. CASE job.method = "hp"
  <2>1. steps = <<"update", "take", "factor", "give">> /\ panel = "d_a_tmp" /\ job.method # "u32"
    BY <1>2, VariantFacts
  <2>2. Len(steps) = 4 /\ steps[1] = "update" /\ steps[2] = "take" /\ steps[3] = "factor" /\ steps[4] = "give"
    BY <2>1
  <2>3. step = 1 \/ step = 2 \/ step = 3 \/ step = 4
    BY <2>2
  <2> QED BY <1>2, <2>1, <2>2, <2>3
<1>3. CASE job.method = "u32"
  <2>1. steps = <<"take", "update", "factor", "give">> /\ panel = "d_a_tmp" /\ job.method # "hp"
    BY <1>3, VariantFacts
  <2>2. Len(steps) = 4 /\ steps[1] = "take" /\ steps[2] = "update" /\ steps[3] = "factor" /\ steps[4] = "give"
    BY <2>1
  <2>3. step = 1 \/ step = 2 \/ step = 3 \/ step = 4
    BY <2>2
  <2> QED BY <1>3, <2>1, <2>2, <2>3
<1> QED BY <1>1, <1>2, <1>3, VariantFacts

LEMMA SameJob ==
  ASSUME job' = job, indefinite' = indefinite
  PROVE  /\ m' = m /\ n' = n /\ nb' = nb /\ nc' = nc /\ Sound' = Sound /\ ib' = ib
         /\ whole' = whole /\ panel' = panel /\ steps' = steps /\ UpdateTo' = UpdateTo
<1>1. m' = m /\ n' = n /\ nb' = nb /\ ib' = ib
  BY DEF m, n, nb, ib
<1>2. nc' = nc /\ whole' = whole /\ panel' = panel /\ steps' = steps
  BY <1>1 DEF nc, whole, panel, steps
<1>3. Sound' = Sound
  BY <1>1 DEF Sound, FirstFailing
<1>4. UpdateTo' = UpdateTo
  BY <1>2 DEF UpdateTo
<1> QED BY <1>1, <1>2, <1>3, <1>4

LEMMA SameColumn ==
  ASSUME job' = job, indefinite' = indefinite, kk' = kk
  PROVE  /\ ofs' = ofs /\ in' = in /\ inc' = inc /\ shift' = shift /\ origin' = origin /\ updateOrigin' = updateOrigin
         /\ k' = k => iofs' = iofs /\ first' = first /\ cblkn' = cblkn /\ cblkm' = cblkm /\ Launched' = Launched
<1>1. ofs' = ofs
  BY SameJob DEF ofs
<1>2. in' = in
  BY <1>1, SameJob DEF in
<1>3. inc' = inc /\ shift' = shift /\ origin' = origin /\ updateOrigin' = updateOrigin
  BY <1>1, <1>2, SameJob DEF inc, shift, origin, updateOrigin
<1>4. k' = k => iofs' = iofs
  BY SameJob DEF iofs
<1>5. k' = k => first' = first /\ cblkn' = cblkn /\ cblkm' = cblkm
  BY <1>1, <1>2, <1>4, SameJob DEF first, cblkn, cblkm
<1> QED BY <1>1, <1>2, <1>3, <1>4, <1>5, SameJob DEF Launched

LEMMA SameFinished ==
  ASSUME NEW M, NEW M2, NEW h, NEW S, NEW sh, NEW lo, NEW hi, NEW lo2, NEW hi2,
         Finished(M, h, S, sh, lo, hi),
         \A j \in Nat : lo2 <= j /\ j < hi2 /\ j < S => lo <= j /\ j < hi,
         \A i, j \in Nat : lo2 <= j /\ j < hi2 /\ j <= i /\ i < h => M2[<<i - sh, j - sh>>] = M[<<i - sh, j - sh>>]
  PROVE  Finished(M2, h, S, sh, lo2, hi2)
BY DEF Finished

LEMMA SameUpdates ==
  ASSUME NEW M, NEW M2, NEW h, NEW S, NEW sh, NEW lo, NEW hi, NEW lo2, NEW hi2, NEW s,
         Updates(M, h, S, sh, lo, hi, s),
         \A j \in Nat : lo2 <= j /\ j < hi2 /\ j < S => lo <= j /\ j < hi,
         \A i, j \in Nat : lo2 <= j /\ j < hi2 /\ j <= i /\ i < h => M2[<<i - sh, j - sh>>] = M[<<i - sh, j - sh>>]
  PROVE  Updates(M2, h, S, sh, lo2, hi2, s)
BY DEF Updates

(* An operation is followed by another one on the same outer block column.  *)
LEMMA StayColumn ==
  ASSUME PositionInv, kk < nc, step # 0, step < Len(steps), NextStep, job' = job, indefinite' = indefinite,
         indefinite \in SUBSET Nat, MemoryDomains',
         Finished(mem'[whole], m, Sound, 0, 0, ofs),
         Updates(mem'[whole], m, Sound, 0, ofs + nb, n, 0),
         steps[step + 1] = "update" => Updates(mem'[UpdateTo], m, Sound, ofs - updateOrigin, ofs, ofs + in, 0),
         steps[step + 1] = "take" => Updates(mem'[whole], m, Sound, 0, ofs, ofs + in,
                                             IF job.method = "u32" THEN 0 ELSE ofs),
         steps[step + 1] = "factor" => Updates(mem'[panel], m, Sound, shift, ofs, ofs + in, ofs),
         steps[step + 1] = "give" => Finished(mem'[panel], m, Sound, shift, ofs, ofs + in)
  PROVE  MemoryInv'
<1>1. /\ step' = step + 1 /\ kk' = kk /\ k' = 0 /\ stage' = "copy" /\ step' # 0
  BY DEF NextStep, PositionInv
<1>2. /\ m' = m /\ n' = n /\ nb' = nb /\ nc' = nc /\ Sound' = Sound
      /\ whole' = whole /\ panel' = panel /\ steps' = steps /\ UpdateTo' = UpdateTo
      /\ ofs' = ofs /\ in' = in /\ shift' = shift /\ updateOrigin' = updateOrigin
  BY <1>1, SameJob, SameColumn
<1>3. job \in Jobs /\ ofs \in Nat /\ in \in Nat /\ ib \in Nat \ {0} /\ Sound \in Nat
  BY OuterLoop, JobFacts, SoundColumns DEF PositionInv
<1>4. \A op : Does(op)' => steps[step + 1] = op
  BY <1>1, <1>2 DEF Does
<1>5. ASSUME Does("factor")'
      PROVE  FactorInv'
  <2>1. Updates(mem'[panel], m, Sound, shift, ofs, ofs + in, ofs)
    BY <1>4, <1>5
  <2>2. iofs' = 0
    <3>1. iofs' = 0 * ib
      BY <1>1 DEF iofs, ib
    <3> QED BY <1>3, <3>1, Z3
  <2>3. first' = ofs
    BY <1>2, <1>3, <2>2 DEF first
  <2>4. cblkn' \in Nat /\ cblkn' <= in
    <3>1. cblkn' = IF in < ib THEN in ELSE ib
      <4>1. cblkn' = IF in - 0 < ib THEN in - 0 ELSE ib
        BY <1>2, <2>2 DEF cblkn, ib
      <4> QED BY <1>3, <4>1
    <3> QED BY <1>3, <3>1
  <2>5. Finished(mem'[panel], m, Sound, shift, ofs, ofs)
    BY <1>3 DEF Finished
  <2>6. Updates(mem'[panel], m, Sound, shift, ofs + cblkn', ofs + in, ofs)
    <3> DEFINE c == cblkn'
    <3>1. c \in Nat /\ c <= in
      BY <2>4
    <3> HIDE DEF c
    <3>2. \A j \in Nat : ofs + c <= j => ofs <= j
      BY <1>3, <3>1
    <3> QED BY <2>1, <3>2, SameUpdates DEF c
  <2>7. Updates(mem'[panel], m, Sound, shift, ofs, ofs + cblkn', ofs)
    <3> DEFINE c == cblkn'
    <3>1. c \in Nat /\ c <= in
      BY <2>4
    <3> HIDE DEF c
    <3>2. \A j \in Nat : j < ofs + c => j < ofs + in
      BY <1>3, <3>1
    <3> QED BY <2>1, <3>2, SameUpdates DEF c
  <2> QED BY <1>1, <1>2, <2>3, <2>5, <2>6, <2>7 DEF FactorInv
<1>6. Does("update")' => Updates(mem[UpdateTo], m, Sound, ofs - updateOrigin, ofs, ofs + in, 0)'
  BY <1>2, <1>4
<1>7. Does("take")' => Updates(mem[whole], m, Sound, 0, ofs, ofs + in, IF job.method = "u32" THEN 0 ELSE ofs)'
  BY <1>2, <1>4
<1>8. Does("give")' => Finished(mem[panel], m, Sound, shift, ofs, ofs + in)'
  BY <1>2, <1>4
<1>9. Finished(mem[whole], m, Sound, 0, 0, ofs)' /\ Updates(mem[whole], m, Sound, 0, ofs + nb, n, 0)'
  BY <1>2
<1> QED BY <1>1, <1>5, <1>6, <1>7, <1>8, <1>9 DEF MemoryInv

(* An outer block column is finished. *)
LEMMA NextColumn ==
  ASSUME PositionInv, kk < nc, step = Len(steps), NextStep, job' = job, indefinite' = indefinite,
         indefinite \in SUBSET Nat, MemoryDomains',
         Finished(mem'[whole], m, Sound, 0, 0, ofs + in),
         Updates(mem'[whole], m, Sound, 0, ofs + nb, n, 0)
  PROVE  MemoryInv'
<1>1. step' = 1 /\ kk' = kk + 1 /\ k' = 0 /\ stage' = "copy" /\ kk' \in Nat /\ job \in Jobs /\ kk \in Nat
  BY JobFacts DEF NextStep, PositionInv
<1>2. /\ m' = m /\ n' = n /\ nb' = nb /\ nc' = nc /\ Sound' = Sound
      /\ whole' = whole /\ panel' = panel /\ steps' = steps /\ UpdateTo' = UpdateTo
  BY SameJob
<1>3. /\ ofs \in Nat /\ in \in Nat /\ in = (IF n - ofs < nb THEN n - ofs ELSE nb)
      /\ n \in Nat \ {0} /\ nb \in Nat \ {0} /\ Sound \in Nat /\ Sound <= n /\ ofs < n
  BY <1>1, OuterLoop, JobFacts, SoundColumns DEF in
<1>4. ofs' = ofs + nb
  <2>1. ofs' = (kk + 1) * nb /\ ofs = kk * nb
    BY <1>1, <1>2 DEF ofs
  <2> QED BY <1>1, <1>3, <2>1, TimesOrder
<1>5. Finished(mem[whole], m, Sound, 0, 0, ofs)'
  <2>1. \A j \in Nat : j < ofs + nb /\ j < Sound => j < ofs + in
    BY <1>3
  <2>2. Finished(mem'[whole], m, Sound, 0, 0, ofs + nb)
    BY <2>1, SameFinished
  <2> QED BY <1>2, <1>4, <2>2
<1>6. Updates(mem[whole], m, Sound, 0, ofs + nb, n, 0)'
  <2>1. \A j \in Nat : ofs + nb + nb <= j => ofs + nb <= j
    BY <1>3
  <2>2. Updates(mem'[whole], m, Sound, 0, ofs + nb + nb, n, 0)
    BY <2>1, SameUpdates
  <2> QED BY <1>2, <1>4, <2>2
<1>7. Updates(mem'[whole], m, Sound, 0, ofs', ofs' + in', 0)
  <2> DEFINE e == ofs' + in'
  <2>1. \A j \in Nat : ofs + nb <= j /\ j < e /\ j < Sound => j < n
    BY <1>3
  <2> HIDE DEF e
  <2>2. Updates(mem'[whole], m, Sound, 0, ofs + nb, e, 0)
    BY <2>1, SameUpdates
  <2> QED BY <1>4, <2>2 DEF e
<1>8. \A op : Does(op)' => op = IF job.method = "u32" THEN "take" ELSE "update"
  <2>1. steps[1] = IF job.method = "u32" THEN "take" ELSE "update"
    <3>1. steps = <<"take", "update", "factor", "give">> => steps[1] = "take"
      OBVIOUS
    <3>2. steps = <<"update", "factor">> \/ steps = <<"update", "take", "factor", "give">> => steps[1] = "update"
      OBVIOUS
    <3> QED BY <1>1, <3>1, <3>2, VariantFacts
  <2> QED BY <1>1, <1>2, <2>1 DEF Does
<1>9. Does("update")' => Updates(mem[UpdateTo], m, Sound, ofs - updateOrigin, ofs, ofs + in, 0)'
  <2> SUFFICES ASSUME Does("update")'
               PROVE  Updates(mem[UpdateTo], m, Sound, ofs - updateOrigin, ofs, ofs + in, 0)'
    OBVIOUS
  <2>1. job.method # "u32"
    BY <1>8
  <2>2. UpdateTo = whole /\ updateOrigin' = ofs' /\ ofs' - ofs' = 0
    BY <1>3, <1>4, <2>1 DEF UpdateTo, updateOrigin
  <2> QED BY <1>2, <1>7, <2>2
<1>10. Does("take")' => Updates(mem[whole], m, Sound, 0, ofs, ofs + in, IF job.method = "u32" THEN 0 ELSE ofs)'
  <2> SUFFICES ASSUME Does("take")'
               PROVE  Updates(mem[whole], m, Sound, 0, ofs, ofs + in, IF job.method = "u32" THEN 0 ELSE ofs)'
    OBVIOUS
  <2>1. job.method = "u32" /\ job'.method = "u32"
    BY <1>8
  <2> QED BY <1>2, <1>7, <2>1
<1>11. ~ Does("factor")' /\ ~ Does("give")'
  BY <1>8
<1> QED BY <1>1, <1>5, <1>6, <1>9, <1>10, <1>11 DEF MemoryInv

-----------------------------------------------------------------------------
(* The operations on the stream.                                            *)

LEMMA MemoryStart == Init => MemoryInv
<1> SUFFICES ASSUME Init
             PROVE  MemoryInv
  OBVIOUS
<1>1. job \in Jobs /\ indefinite \in SUBSET Nat /\ step = 0 /\ stage = "copy" /\ kk = 0
  BY FailingAssumption DEF Init
<1>2. m \in Nat \ {0} /\ n \in Nat \ {0}
  BY <1>1, JobFacts
<1>3. Extent(job, "d_a") = Part(m, n)
  BY <1>1, Buffers
<1>4. MemoryDomains /\ \A p \in Part(m, n) : mem["d_a"][p] = Entry(p[1], p[2], 0)
  BY <1>3 DEF Init, MemoryDomains, Buffer
<1>5. Updates(mem["d_a"], m, Sound, 0, 0, n, 0)
  <2> SUFFICES ASSUME NEW i \in Nat, NEW j \in Nat, j < n, i < m
               PROVE  mem["d_a"][<<i - 0, j - 0>>] = Entry(i, j, 0)
    BY DEF Updates
  <2>1. <<i, j>> \in Part(m, n) /\ i - 0 = i /\ j - 0 = j
    BY <1>2, InPart
  <2> QED BY <1>4, <2>1
<1>6. \A op : ~ Does(op)
  BY <1>1 DEF Does
<1> QED BY <1>1, <1>4, <1>5, <1>6 DEF MemoryInv

(* The whole matrix is converted. *)
LEMMA Conversion ==
  ASSUME job \in Jobs
  PROVE  /\ Converted(m, n) = Part(m, n)
         /\ kk \in Nat /\ kk < nc => Converted(updm, in) = Part(updm, in)
<1>1. m \in Nat /\ n \in Nat /\ n <= m /\ m < SuperNB /\ SuperNB \in Nat
  BY JobFacts, SizesAssumption DEF m
<1>2. ASSUME kk \in Nat, kk < nc
      PROVE  updm \in Nat /\ in \in Nat /\ updm < SuperNB /\ in < SuperNB
  <2>1. ofs \in Nat /\ updm \in Nat /\ in \in Nat /\ updm >= in /\ updm = m - ofs
    BY <1>2, OuterLoop, JobFacts DEF updm
  <2> QED BY <1>1, <2>1
<1>3. Converted(m, n) = Part(m, n)
  BY <1>1, ConvertsAll
<1>4. ASSUME kk \in Nat, kk < nc
      PROVE  Converted(updm, in) = Part(updm, in)
  <2> DEFINE h == updm
             w == in
  <2>1. h \in Nat /\ w \in Nat /\ h < SuperNB /\ w < SuperNB
    BY <1>2, <1>4
  <2> HIDE DEF h, w
  <2>2. Converted(h, w) = Part(h, w)
    BY <2>1, ConvertsAll
  <2> QED BY <2>2 DEF h, w
<1> QED BY <1>3, <1>4

LEMMA ConvertMatrixStep ==
  ASSUME PositionInv, MemoryInv, ConvertMatrix
  PROVE  MemoryInv'
<1>1. /\ step = 0 /\ step' = 1 /\ kk = 0 /\ kk' = kk /\ k' = k /\ stage' = stage /\ stage = "copy"
      /\ job' = job /\ indefinite' = indefinite /\ job \in Jobs /\ kk \in Nat
      /\ indefinite \in SUBSET Nat /\ MemoryDomains
  BY DEF ConvertMatrix, Idle, PositionInv, MemoryInv
<1>2. /\ m \in Nat \ {0} /\ n \in Nat \ {0} /\ nb \in Nat \ {0} /\ Sound \in Nat /\ Sound <= n /\ nc \in Nat \ {0}
      /\ Len(steps) \in 2..4
  BY <1>1, JobFacts, SoundColumns, OuterLoop
<1>3. Updates(mem["d_a"], m, Sound, 0, 0, n, 0)
  BY <1>1 DEF MemoryInv
<1>4. whole \in Buffer /\ whole \in {"d_a", "d_a_hp"} /\ Extent(job, whole) = Part(m, n) /\ Extent(job, "d_a") = Part(m, n)
  BY <1>1, Buffers DEF Buffer
<1>5. MemoryDomains' /\ Updates(mem'[whole], m, Sound, 0, 0, n, 0)
  <2>1. CASE whole = "d_a"
    <3>1. mem' = mem
      BY <2>1 DEF ConvertMatrix, InHalf
    <3>2. MemoryDomains'
      BY <1>1, <3>1 DEF MemoryDomains, Extent
    <3> QED BY <1>3, <2>1, <3>1, <3>2
  <2>2. CASE whole # "d_a"
    <3> DEFINE new == [p \in Converted(m, n) |-> mem["d_a"][p]]
    <3>1. mem' = Put("d_a_hp", 0, 0, new) /\ "d_a_hp" \in Buffer /\ whole = "d_a_hp"
      BY <1>4, <2>2 DEF ConvertMatrix, InHalf, Buffer
    <3>2. DOMAIN new = Part(m, n) /\ \A p \in Part(m, n) : new[p] = mem["d_a"][p]
      BY <1>1, Conversion
    <3> HIDE DEF new
    <3>3. /\ MemoryDomains'
          /\ \A p \in Part(m, n) : <<p[1] - 0, p[2] - 0>> \in DOMAIN new => mem'["d_a_hp"][p] = new[<<p[1] - 0, p[2] - 0>>]
      BY <1>1, <1>4, <3>1, PutAt
    <3>4. Updates(mem'["d_a_hp"], m, Sound, 0, 0, n, 0)
      <4> SUFFICES ASSUME NEW i \in Nat, NEW j \in Nat, j < n, j < Sound, j <= i, i < m
                   PROVE  mem'["d_a_hp"][<<i - 0, j - 0>>] = Entry(i, j, 0)
        BY DEF Updates
      <4>1. <<i, j>> \in Part(m, n) /\ i - 0 = i /\ j - 0 = j
        BY <1>2, InPart
      <4>2. mem["d_a"][<<i - 0, j - 0>>] = Entry(i, j, 0)
        BY <1>3 DEF Updates
      <4> QED BY <3>2, <3>3, <4>1, <4>2
    <3> QED BY <3>1, <3>3, <3>4
  <2> QED BY <2>1, <2>2
<1>6. /\ m' = m /\ n' = n /\ nb' = nb /\ nc' = nc /\ Sound' = Sound
      /\ whole' = whole /\ panel' = panel /\ steps' = steps /\ UpdateTo' = UpdateTo
      /\ ofs' = ofs /\ in' = in /\ shift' = shift /\ updateOrigin' = updateOrigin
  BY <1>1, SameJob, SameColumn
<1>7. ofs = 0
  <2>1. ofs = 0 * nb
    BY <1>1 DEF ofs
  <2> QED BY <1>2, <2>1, Z3
<1>8. Finished(mem'[whole], m, Sound, 0, 0, ofs)
  BY <1>7 DEF Finished
<1>9. Updates(mem'[whole], m, Sound, 0, ofs + nb, n, 0)
  BY <1>2, <1>5, <1>7 DEF Updates
<1>10. Updates(mem'[whole], m, Sound, 0, ofs, ofs + in, 0)
  <2>1. in \in Nat /\ in <= n
    BY <1>1, <1>2, <1>7, OuterLoop
  <2> QED BY <1>2, <1>5, <1>7, <2>1 DEF Updates
<1>11. \A op : Does(op)' => op = IF job.method = "u32" THEN "take" ELSE "update"
  <2>1. steps[1] = IF job.method = "u32" THEN "take" ELSE "update"
    <3>1. steps = <<"take", "update", "factor", "give">> => steps[1] = "take"
      OBVIOUS
    <3>2. steps = <<"update", "factor">> \/ steps = <<"update", "take", "factor", "give">> => steps[1] = "update"
      OBVIOUS
    <3> QED BY <1>1, <3>1, <3>2, VariantFacts
  <2> QED BY <1>1, <1>6, <2>1 DEF Does
<1>12. Does("update")' => Updates(mem[UpdateTo], m, Sound, ofs - updateOrigin, ofs, ofs + in, 0)'
  <2> SUFFICES ASSUME Does("update")'
               PROVE  Updates(mem[UpdateTo], m, Sound, ofs - updateOrigin, ofs, ofs + in, 0)'
    OBVIOUS
  <2>1. job.method # "u32"
    BY <1>11
  <2>2. UpdateTo = whole /\ updateOrigin = ofs /\ ofs - ofs = 0
    BY <1>7, <2>1 DEF UpdateTo, updateOrigin
  <2> QED BY <1>6, <1>10, <2>2
<1>13. Does("take")' => Updates(mem[whole], m, Sound, 0, ofs, ofs + in, IF job.method = "u32" THEN 0 ELSE ofs)'
  <2> SUFFICES ASSUME Does("take")'
               PROVE  Updates(mem[whole], m, Sound, 0, ofs, ofs + in, IF job.method = "u32" THEN 0 ELSE ofs)'
    OBVIOUS
  <2>1. job.method = "u32" /\ job'.method = "u32"
    BY <1>1, <1>11
  <2> QED BY <1>6, <1>10, <2>1
<1>14. ~ Does("factor")' /\ ~ Does("give")'
  BY <1>11
<1>15. Finished(mem[whole], m, Sound, 0, 0, ofs)' /\ Updates(mem[whole], m, Sound, 0, ofs + nb, n, 0)'
  BY <1>6, <1>8, <1>9
<1> QED BY <1>1, <1>5, <1>12, <1>13, <1>14, <1>15 DEF MemoryInv

ShiftOf(buf) == IF buf = "d_a_tmp" THEN ofs ELSE 0

(* An entry of the matrix has a place in the buffers it may be in. *)
LEMMA PlaceIn ==
  ASSUME job \in Jobs, kk \in Nat, NEW buf \in {whole, "d_a_tmp"}, NEW i \in Nat, NEW j \in Nat,
         i < m, j < n,
         buf = "d_a_tmp" => panel = "d_a_tmp" /\ ofs <= i /\ ofs <= j /\ j < ofs + nb
  PROVE  <<i - ShiftOf(buf), j - ShiftOf(buf)>> \in Extent(job, buf)
<1>1. /\ m \in Nat /\ n \in Nat /\ nb \in Nat /\ ofs \in Nat /\ whole # "d_a_tmp"
      /\ Extent(job, whole) = Part(m, n)
      /\ panel = "d_a_tmp" => Extent(job, panel) = Part(m, nb)
  BY JobFacts, OuterLoop, Buffers
<1>2. CASE buf = whole
  <2>1. i - 0 = i /\ j - 0 = j /\ <<i, j>> \in Part(m, n)
    BY <1>1, InPart
  <2> QED BY <1>1, <1>2, <2>1 DEF ShiftOf
<1>3. CASE buf = "d_a_tmp"
  <2>1. <<i - ofs, j - ofs>> \in Part(m, nb)
    BY <1>1, <1>3, InPart
  <2> QED BY <1>1, <1>3, <2>1 DEF ShiftOf
<1> QED BY <1>2, <1>3

(* A part of a buffer is replaced: rows and columns o to o + h and o + w of *)
(* the matrix.                                                              *)
LEMMA PutColumns ==
  ASSUME job \in Jobs, kk \in Nat, MemoryDomains, job' = job, NEW buf \in {whole, "d_a_tmp"},
         NEW o \in Nat, NEW h \in Int, NEW w \in Int, NEW r \in Int, r = o - ShiftOf(buf),
         NEW new, DOMAIN new = Part(h, w), mem' = Put(buf, r, r, new),
         buf = "d_a_tmp" => panel = "d_a_tmp"
  PROVE  /\ MemoryDomains'
         /\ \A b \in Buffer : b # buf => mem'[b] = mem[b]
         /\ \A i, j \in Nat :
              /\ j <= i /\ i < m /\ j < n
              /\ buf = "d_a_tmp" => ofs <= j /\ j < ofs + nb
              => LET sh == ShiftOf(buf) IN
                 /\ o <= i /\ i < o + h /\ o <= j /\ j < o + w =>
                      mem'[buf][<<i - sh, j - sh>>] = new[<<i - o, j - o>>]
                 /\ ~ (o <= j /\ j < o + w) =>
                      mem'[buf][<<i - sh, j - sh>>] = mem[buf][<<i - sh, j - sh>>]
<1> DEFINE sh == ShiftOf(buf)
<1>1. /\ buf \in Buffer /\ sh \in Nat
  <2>1. ofs \in Nat /\ whole \in {"d_a", "d_a_hp"}
    BY Buffers
  <2> QED BY <2>1 DEF Buffer, ShiftOf
<1>2. /\ MemoryDomains'
      /\ \A b \in Buffer : b # buf => mem'[b] = mem[b]
      /\ \A p \in Extent(job, buf) :
           /\ <<p[1] - r, p[2] - r>> \in DOMAIN new => mem'[buf][p] = new[<<p[1] - r, p[2] - r>>]
           /\ <<p[1] - r, p[2] - r>> \notin DOMAIN new => mem'[buf][p] = mem[buf][p]
  BY <1>1, PutAt
<1>3. ASSUME NEW i \in Nat, NEW j \in Nat, j <= i, i < m, j < n,
             buf = "d_a_tmp" => ofs <= j /\ j < ofs + nb
      PROVE  /\ o <= i /\ i < o + h /\ o <= j /\ j < o + w =>
                  mem'[buf][<<i - sh, j - sh>>] = new[<<i - o, j - o>>]
             /\ ~ (o <= j /\ j < o + w) =>
                  mem'[buf][<<i - sh, j - sh>>] = mem[buf][<<i - sh, j - sh>>]
  <2> DEFINE p == <<i - sh, j - sh>>
  <2>1. p \in Extent(job, buf)
    <3>1. ofs \in Nat /\ (buf = "d_a_tmp" => ofs <= i)
      BY <1>3, OuterLoop
    <3> QED BY <1>3, <3>1, PlaceIn
  <2>2. r = o - sh
    OBVIOUS
  <2> HIDE DEF sh
  <2>3. p[1] - r = i - o /\ p[2] - r = j - o
    BY <1>1, <2>2
  <2> HIDE DEF p
  <2>4. /\ <<i - o, j - o>> \in DOMAIN new => mem'[buf][p] = new[<<i - o, j - o>>]
        /\ <<i - o, j - o>> \notin DOMAIN new => mem'[buf][p] = mem[buf][p]
    BY <1>2, <2>1, <2>3
  <2>5. <<i - o, j - o>> \in Part(h, w) <=> 0 <= i - o /\ i - o < h /\ 0 <= j - o /\ j - o < w
    <3> DEFINE a == i - o
               c == j - o
    <3>1. a \in Int /\ c \in Int
      OBVIOUS
    <3> HIDE DEF a, c
    <3>2. <<a, c>> \in Part(h, w) <=> 0 <= a /\ a < h /\ 0 <= c /\ c < w
      BY <3>1, InPart
    <3> QED BY <3>2 DEF a, c
  <2>6. o <= i /\ i < o + h /\ o <= j /\ j < o + w => <<i - o, j - o>> \in DOMAIN new
    BY <2>5
  <2>7. ~ (o <= j /\ j < o + w) => <<i - o, j - o>> \notin DOMAIN new
    BY <2>5
  <2> QED BY <2>4, <2>6, <2>7 DEF p
<1> QED BY <1>2, <1>3

LEMMA UpdateOuterStep ==
  ASSUME PositionInv, MemoryInv, UpdateOuter
  PROVE  MemoryInv'
<1>1. /\ Does("update") /\ NextStep /\ job' = job /\ indefinite' = indefinite /\ step # 0 /\ kk < nc
      /\ job \in Jobs /\ kk \in Nat /\ step \in 1..Len(steps) /\ steps[step] = "update"
      /\ indefinite \in SUBSET Nat /\ MemoryDomains /\ stage # "returned"
  BY JobFacts DEF UpdateOuter, Idle, PositionInv, MemoryInv, Does
<1>2. /\ m \in Nat \ {0} /\ n \in Nat \ {0} /\ nb \in Nat \ {0} /\ n <= m /\ Sound \in Nat /\ Sound <= n
      /\ ofs \in Nat /\ ofs < n /\ in \in Nat /\ in <= nb /\ in <= n - ofs /\ updm = m - ofs /\ updm \in Nat
  BY <1>1, JobFacts, SoundColumns, OuterLoop DEF updm
<1> DEFINE U == UpdateTo
           o == updateOrigin
<1>3. /\ U \in {whole, "d_a_tmp"} /\ o \in Nat /\ o = ofs - ShiftOf(U)
      /\ U = "d_a_tmp" => panel = "d_a_tmp"
      /\ U = "d_a_tmp" <=> job.method = "u32"
      /\ whole \in Buffer /\ whole # "d_a_tmp"
  <2>1. /\ U \in {whole, "d_a_tmp"} /\ whole \in {"d_a", "d_a_hp"} /\ (U = "d_a_tmp" => panel = "d_a_tmp")
        /\ U = "d_a_tmp" <=> job.method = "u32"
    BY <1>1, Buffers
  <2>2. o \in Nat /\ o = ofs - ShiftOf(U)
    BY <1>2, <2>1 DEF updateOrigin, ShiftOf
  <2> QED BY <2>1, <2>2 DEF Buffer
<1>4. ofs - o = ShiftOf(U) /\ ShiftOf(U) \in Nat
  BY <1>2, <1>3 DEF ShiftOf
<1>5. /\ Finished(mem[whole], m, Sound, 0, 0, ofs)
      /\ Updates(mem[whole], m, Sound, 0, ofs + nb, n, 0)
      /\ Updates(mem[U], m, Sound, ShiftOf(U), ofs, ofs + in, 0)
  BY <1>1, <1>4 DEF MemoryInv
<1>6. /\ MemoryDomains'
      /\ Finished(mem'[whole], m, Sound, 0, 0, ofs)
      /\ Updates(mem'[whole], m, Sound, 0, ofs + nb, n, 0)
      /\ Updates(mem'[U], m, Sound, ShiftOf(U), ofs, ofs + in, ofs)
  <2>1. CASE ofs = 0
    <3>1. mem' = mem
      BY <2>1 DEF UpdateOuter
    <3>2. MemoryDomains'
      BY <1>1, <3>1 DEF MemoryDomains, Extent
    <3> QED BY <1>5, <2>1, <3>1, <3>2
  <2>2. CASE ofs # 0
    <3> DEFINE u(p) == [q \in 0..(ofs - 1) |-> mem[whole][<<ofs + p[1], q>>]]
               v(p) == [q \in 0..(ofs - 1) |-> mem[whole][<<ofs + p[2], q>>]]
               new == [p \in Part(updm, in) |->
                         Subtracted(mem[U][<<o + p[1], o + p[2]>>], u(p), v(p), ofs)]
    <3>1. mem' = Put(U, o, o, new)
      BY <1>2, <2>2 DEF UpdateOuter
    <3>2. DOMAIN new = Part(updm, in)
      OBVIOUS
    <3>3. ASSUME NEW i \in Nat, NEW j \in Nat, ofs <= j, j < ofs + in, j < Sound, j <= i, i < m
          PROVE  new[<<i - ofs, j - ofs>>] = Entry(i, j, ofs)
      <4> DEFINE p == <<i - ofs, j - ofs>>
      <4>1. p \in Part(updm, in) /\ o + p[1] = i - ShiftOf(U) /\ o + p[2] = j - ShiftOf(U)
            /\ ofs + p[1] = i /\ ofs + p[2] = j
        <5>1. p \in Part(updm, in)
          BY <1>2, <3>3, InPart
        <5>2. o + p[1] = i - ShiftOf(U) /\ o + p[2] = j - ShiftOf(U) /\ ofs + p[1] = i /\ ofs + p[2] = j
          <6> HIDE DEF o, U
          <6> QED BY <1>2, <1>3, <1>4
        <5> QED BY <5>1, <5>2
      <4>2. new[p] = Subtracted(mem[U][<<i - ShiftOf(U), j - ShiftOf(U)>>], u(p), v(p), ofs)
        BY <4>1
      <4>3. mem[U][<<i - ShiftOf(U), j - ShiftOf(U)>>] = Entry(i, j, 0)
        BY <1>5, <3>3 DEF Updates
      <4>4. \A q \in 0..(ofs - 1) : u(p)[q] = Entry(i, 0 + q, 0 + q + 1) /\ v(p)[q] = Entry(j, 0 + q, 0 + q + 1)
        <5> SUFFICES ASSUME NEW q \in 0..(ofs - 1)
                     PROVE  u(p)[q] = Entry(i, 0 + q, 0 + q + 1) /\ v(p)[q] = Entry(j, 0 + q, 0 + q + 1)
          OBVIOUS
        <5>1. q \in Nat /\ q < ofs /\ 0 + q = q /\ i - 0 = i /\ j - 0 = j /\ q - 0 = q /\ j < m
          BY <1>2, <3>3
        <5>2. mem[whole][<<i - 0, q - 0>>] = Entry(i, q, q + 1) /\ mem[whole][<<j - 0, q - 0>>] = Entry(j, q, q + 1)
          BY <1>2, <1>5, <3>3, <5>1 DEF Finished
        <5>3. u(p)[q] = mem[whole][<<i, q>>] /\ v(p)[q] = mem[whole][<<j, q>>]
          BY <4>1
        <5> QED BY <5>1, <5>2, <5>3
      <4> DEFINE a == u(p)
                 b == v(p)
      <4>5. \A q \in 0..(ofs - 1) : a[q] = Entry(i, 0 + q, 0 + q + 1) /\ b[q] = Entry(j, 0 + q, 0 + q + 1)
        BY <4>4
      <4>6. new[p] = Subtracted(Entry(i, j, 0), a, b, ofs)
        BY <4>2, <4>3
      <4> DEFINE s == 0
      <4>7. s \in Nat /\ s + ofs = ofs
        BY <1>2
      <4>8. /\ new[p] = Subtracted(Entry(i, j, s), a, b, ofs)
            /\ \A q \in 0..(ofs - 1) : a[q] = Entry(i, s + q, s + q + 1) /\ b[q] = Entry(j, s + q, s + q + 1)
        BY <4>5, <4>6
      <4> HIDE DEF a, b, new, p, s
      <4>9. Subtracted(Entry(i, j, s), a, b, ofs) = Entry(i, j, s + ofs)
        <5>1. FactorRow(a, i, s, ofs) /\ FactorRow(b, j, s, ofs)
          BY <4>8 DEF FactorRow
        <5> QED BY <1>2, <4>7, <5>1, SubtractedIs
      <4> QED BY <4>7, <4>8, <4>9 DEF p
    <3> HIDE DEF new, U, o
    <3>4. /\ MemoryDomains'
          /\ \A b \in Buffer : b # U => mem'[b] = mem[b]
          /\ \A i, j \in Nat :
              /\ j <= i /\ i < m /\ j < n
              /\ U = "d_a_tmp" => ofs <= j /\ j < ofs + nb
              => LET sh == ShiftOf(U) IN
                 /\ ofs <= i /\ i < ofs + updm /\ ofs <= j /\ j < ofs + in =>
                      mem'[U][<<i - sh, j - sh>>] = new[<<i - ofs, j - ofs>>]
                 /\ ~ (ofs <= j /\ j < ofs + in) =>
                      mem'[U][<<i - sh, j - sh>>] = mem[U][<<i - sh, j - sh>>]
      BY <1>1, <1>2, <1>3, <3>1, <3>2, PutColumns
    <3>5. Updates(mem'[U], m, Sound, ShiftOf(U), ofs, ofs + in, ofs)
      <4> SUFFICES ASSUME NEW i \in Nat, NEW j \in Nat, ofs <= j, j < ofs + in, j < Sound, j <= i, i < m
                   PROVE  mem'[U][<<i - ShiftOf(U), j - ShiftOf(U)>>] = Entry(i, j, ofs)
        BY DEF Updates
      <4>1. j < n /\ j < ofs + nb /\ ofs <= i /\ i < ofs + updm
        BY <1>2
      <4>2. mem'[U][<<i - ShiftOf(U), j - ShiftOf(U)>>] = new[<<i - ofs, j - ofs>>]
        BY <3>4, <4>1
      <4> QED BY <3>3, <4>2
    <3>6. \A i, j \in Nat : j <= i /\ i < m /\ j < n /\ ~ (ofs <= j /\ j < ofs + in) =>
             mem'[whole][<<i - 0, j - 0>>] = mem[whole][<<i - 0, j - 0>>]
      <4>1. CASE U = whole
        <5>1. ShiftOf(U) = 0 /\ U # "d_a_tmp"
          BY <1>3, <4>1 DEF ShiftOf
        <5> QED BY <3>4, <4>1, <5>1
      <4>2. CASE U # whole
        BY <1>3, <3>4, <4>2
      <4> QED BY <4>1, <4>2
    <3>7. Finished(mem'[whole], m, Sound, 0, 0, ofs)
      <4>1. \A i, j \in Nat : j < ofs /\ j <= i /\ i < m => mem'[whole][<<i - 0, j - 0>>] = mem[whole][<<i - 0, j - 0>>]
        BY <1>2, <3>6
      <4> QED BY <1>5, <4>1, SameFinished
    <3>8. Updates(mem'[whole], m, Sound, 0, ofs + nb, n, 0)
      <4>1. \A i, j \in Nat : ofs + nb <= j /\ j < n /\ j <= i /\ i < m =>
              mem'[whole][<<i - 0, j - 0>>] = mem[whole][<<i - 0, j - 0>>]
        BY <1>2, <3>6
      <4> QED BY <1>5, <4>1, SameUpdates
    <3> QED BY <3>4, <3>5, <3>7, <3>8
  <2> QED BY <2>1, <2>2
<1>7. step < Len(steps) /\ steps[step + 1] = IF job.method = "hp" THEN "take" ELSE "factor"
  BY <1>1, StepsFollow
<1>8. steps[step + 1] = "take" => Updates(mem'[whole], m, Sound, 0, ofs, ofs + in, IF job.method = "u32" THEN 0 ELSE ofs)
  <2> SUFFICES ASSUME job.method = "hp"
               PROVE  Updates(mem'[whole], m, Sound, 0, ofs, ofs + in, ofs)
    BY <1>7
  <2>1. U = whole /\ ShiftOf(U) = 0
    BY <1>3 DEF ShiftOf
  <2> QED BY <1>6, <2>1
<1>9. steps[step + 1] = "factor" => Updates(mem'[panel], m, Sound, shift, ofs, ofs + in, ofs)
  <2> SUFFICES ASSUME job.method # "hp"
               PROVE  Updates(mem'[panel], m, Sound, shift, ofs, ofs + in, ofs)
    BY <1>7
  <2>1. U = panel
    BY <1>1, <1>3, VariantFacts
  <2>2. shift = ShiftOf(panel)
    BY DEF shift, ShiftOf
  <2> QED BY <1>6, <2>1, <2>2
<1> QED BY <1>1, <1>6, <1>7, <1>8, <1>9, StayColumn

(* A panel of its own is filled, and written back. *)
LEMMA TakePanelStep ==
  ASSUME PositionInv, MemoryInv, TakePanel
  PROVE  MemoryInv'
<1>1. /\ Does("take") /\ NextStep /\ job' = job /\ indefinite' = indefinite /\ step # 0 /\ kk < nc
      /\ job \in Jobs /\ kk \in Nat /\ step \in 1..Len(steps) /\ steps[step] = "take"
      /\ indefinite \in SUBSET Nat /\ MemoryDomains /\ stage # "returned"
  BY JobFacts DEF TakePanel, Idle, PositionInv, MemoryInv, Does
<1>2. /\ m \in Nat \ {0} /\ n \in Nat \ {0} /\ nb \in Nat \ {0} /\ n <= m /\ Sound \in Nat /\ Sound <= n
      /\ ofs \in Nat /\ ofs < n /\ in \in Nat /\ in <= nb /\ in <= n - ofs /\ updm = m - ofs /\ updm \in Nat
  BY <1>1, JobFacts, SoundColumns, OuterLoop DEF updm
<1>3. /\ step < Len(steps) /\ panel = "d_a_tmp" /\ whole = "d_a_hp"
      /\ job.method = "hp" \/ job.method = "u32"
      /\ steps[step + 1] = IF job.method = "hp" THEN "factor" ELSE "update"
  BY <1>1, StepsFollow, VariantFacts
<1> DEFINE lv == IF job.method = "u32" THEN 0 ELSE ofs
<1>4. /\ Finished(mem[whole], m, Sound, 0, 0, ofs)
      /\ Updates(mem[whole], m, Sound, 0, ofs + nb, n, 0)
      /\ Updates(mem[whole], m, Sound, 0, ofs, ofs + in, lv)
  BY <1>1 DEF MemoryInv
<1> DEFINE new == [p \in Converted(updm, in) |-> mem["d_a_hp"][<<ofs + p[1], ofs + p[2]>>]]
<1>5. mem' = Put("d_a_tmp", 0, 0, new)
  BY DEF TakePanel
<1>6. /\ DOMAIN new = Part(updm, in)
      /\ \A p \in Part(updm, in) : new[p] = mem[whole][<<ofs + p[1], ofs + p[2]>>]
  <2>1. Converted(updm, in) = Part(updm, in)
    BY <1>1, Conversion
  <2> QED BY <1>3, <2>1
<1> HIDE DEF new, lv
<1>7. ShiftOf("d_a_tmp") = ofs /\ 0 = ofs - ofs
  BY <1>2 DEF ShiftOf
<1>8. /\ MemoryDomains'
      /\ \A b \in Buffer : b # "d_a_tmp" => mem'[b] = mem[b]
      /\ \A i, j \in Nat :
          /\ j <= i /\ i < m /\ j < n
          /\ "d_a_tmp" = "d_a_tmp" => ofs <= j /\ j < ofs + nb
          => LET sh == ShiftOf("d_a_tmp") IN
             /\ ofs <= i /\ i < ofs + updm /\ ofs <= j /\ j < ofs + in =>
                  mem'["d_a_tmp"][<<i - sh, j - sh>>] = new[<<i - ofs, j - ofs>>]
             /\ ~ (ofs <= j /\ j < ofs + in) =>
                  mem'["d_a_tmp"][<<i - sh, j - sh>>] = mem["d_a_tmp"][<<i - sh, j - sh>>]
  <2> DEFINE r == 0
             buf == "d_a_tmp"
  <2>1. r = ofs - ShiftOf(buf) /\ r \in Int /\ mem' = Put(buf, r, r, new) /\ buf \in {whole, "d_a_tmp"}
        /\ (buf = "d_a_tmp" => panel = "d_a_tmp")
    BY <1>3, <1>5, <1>7
  <2> HIDE DEF r, buf
  <2>2. /\ MemoryDomains'
        /\ \A b \in Buffer : b # buf => mem'[b] = mem[b]
        /\ \A i, j \in Nat :
            /\ j <= i /\ i < m /\ j < n
            /\ buf = "d_a_tmp" => ofs <= j /\ j < ofs + nb
            => LET sh == ShiftOf(buf) IN
               /\ ofs <= i /\ i < ofs + updm /\ ofs <= j /\ j < ofs + in =>
                    mem'[buf][<<i - sh, j - sh>>] = new[<<i - ofs, j - ofs>>]
               /\ ~ (ofs <= j /\ j < ofs + in) =>
                    mem'[buf][<<i - sh, j - sh>>] = mem[buf][<<i - sh, j - sh>>]
    BY <1>1, <1>2, <1>6, <2>1, PutColumns
  <2> QED BY <2>2 DEF buf
<1>9. mem'[whole] = mem[whole]
  BY <1>3, <1>8 DEF Buffer
<1>10. Updates(mem'["d_a_tmp"], m, Sound, ofs, ofs, ofs + in, lv)
  <2> SUFFICES ASSUME NEW i \in Nat, NEW j \in Nat, ofs <= j, j < ofs + in, j < Sound, j <= i, i < m
               PROVE  mem'["d_a_tmp"][<<i - ofs, j - ofs>>] = Entry(i, j, lv)
    BY DEF Updates
  <2>1. j < n /\ j < ofs + nb /\ ofs <= i /\ i < ofs + updm
    BY <1>2
  <2>2. mem'["d_a_tmp"][<<i - ofs, j - ofs>>] = new[<<i - ofs, j - ofs>>]
    BY <1>7, <1>8, <2>1
  <2> DEFINE p == <<i - ofs, j - ofs>>
  <2>3. p \in Part(updm, in) /\ ofs + p[1] = i - 0 /\ ofs + p[2] = j - 0
    <3>1. p \in Part(updm, in)
      BY <1>2, InPart
    <3> QED BY <1>2, <3>1
  <2>4. new[p] = mem[whole][<<i - 0, j - 0>>]
    BY <1>6, <2>3
  <2>5. mem[whole][<<i - 0, j - 0>>] = Entry(i, j, lv)
    BY <1>4 DEF Updates
  <2> QED BY <2>2, <2>4, <2>5
<1>11. steps[step + 1] = "factor" => Updates(mem'[panel], m, Sound, shift, ofs, ofs + in, ofs)
  <2> SUFFICES ASSUME job.method = "hp"
               PROVE  Updates(mem'[panel], m, Sound, shift, ofs, ofs + in, ofs)
    BY <1>3
  <2>1. lv = ofs /\ shift = ofs
    BY <1>3 DEF lv, shift
  <2> QED BY <1>3, <1>10, <2>1
<1>12. steps[step + 1] = "update" => Updates(mem'[UpdateTo], m, Sound, ofs - updateOrigin, ofs, ofs + in, 0)
  <2> SUFFICES ASSUME job.method = "u32"
               PROVE  Updates(mem'[UpdateTo], m, Sound, ofs - updateOrigin, ofs, ofs + in, 0)
    BY <1>3
  <2>1. lv = 0 /\ UpdateTo = "d_a_tmp" /\ updateOrigin = 0 /\ ofs - 0 = ofs
    BY <1>2 DEF lv, UpdateTo, updateOrigin
  <2> QED BY <1>10, <2>1
<1> QED BY <1>1, <1>3, <1>4, <1>8, <1>9, <1>11, <1>12, StayColumn

LEMMA GivePanelStep ==
  ASSUME PositionInv, MemoryInv, GivePanel
  PROVE  MemoryInv'
<1>1. /\ Does("give") /\ NextStep /\ job' = job /\ indefinite' = indefinite /\ step # 0 /\ kk < nc
      /\ job \in Jobs /\ kk \in Nat /\ step \in 1..Len(steps) /\ steps[step] = "give"
      /\ indefinite \in SUBSET Nat /\ MemoryDomains /\ stage # "returned"
  BY JobFacts DEF GivePanel, Idle, PositionInv, MemoryInv, Does
<1>2. /\ m \in Nat \ {0} /\ n \in Nat \ {0} /\ nb \in Nat \ {0} /\ n <= m /\ Sound \in Nat /\ Sound <= n
      /\ ofs \in Nat /\ ofs < n /\ in \in Nat /\ in <= nb /\ in <= n - ofs /\ updm = m - ofs /\ updm \in Nat
  BY <1>1, JobFacts, SoundColumns, OuterLoop DEF updm
<1>3. step = Len(steps) /\ panel = "d_a_tmp" /\ whole = "d_a_hp"
  BY <1>1, StepsFollow, VariantFacts
<1>4. /\ Finished(mem[whole], m, Sound, 0, 0, ofs)
      /\ Updates(mem[whole], m, Sound, 0, ofs + nb, n, 0)
      /\ Finished(mem["d_a_tmp"], m, Sound, ofs, ofs, ofs + in)
  BY <1>1, <1>3 DEF MemoryInv, shift
<1> DEFINE new == [p \in Converted(updm, in) |-> mem["d_a_tmp"][p]]
<1>5. mem' = Put(whole, ofs, ofs, new)
  BY <1>3 DEF GivePanel
<1>6. /\ DOMAIN new = Part(updm, in)
      /\ \A p \in Part(updm, in) : new[p] = mem["d_a_tmp"][p]
  <2>1. Converted(updm, in) = Part(updm, in)
    BY <1>1, Conversion
  <2> QED BY <2>1
<1> HIDE DEF new
<1>7. /\ MemoryDomains'
      /\ \A i, j \in Nat : j <= i /\ i < m /\ j < n =>
           /\ ofs <= i /\ i < ofs + updm /\ ofs <= j /\ j < ofs + in =>
                mem'[whole][<<i - 0, j - 0>>] = new[<<i - ofs, j - ofs>>]
           /\ ~ (ofs <= j /\ j < ofs + in) =>
                mem'[whole][<<i - 0, j - 0>>] = mem[whole][<<i - 0, j - 0>>]
  <2>1. ShiftOf(whole) = 0 /\ ofs = ofs - ShiftOf(whole) /\ whole # "d_a_tmp"
    BY <1>2, <1>3 DEF ShiftOf
  <2> QED BY <1>1, <1>2, <1>5, <1>6, <2>1, PutColumns
<1>8. Finished(mem'[whole], m, Sound, 0, 0, ofs + in)
  <2> SUFFICES ASSUME NEW i \in Nat, NEW j \in Nat, j < ofs + in, j < Sound, j <= i, i < m
               PROVE  mem'[whole][<<i - 0, j - 0>>] = Entry(i, j, j + 1)
    BY DEF Finished
  <2>1. CASE j < ofs
    <3>1. j < n /\ ~ (ofs <= j /\ j < ofs + in)
      BY <1>2, <2>1
    <3>2. mem'[whole][<<i - 0, j - 0>>] = mem[whole][<<i - 0, j - 0>>]
      BY <1>7, <3>1
    <3> QED BY <1>4, <2>1, <3>2 DEF Finished
  <2>2. CASE ofs <= j
    <3> DEFINE p == <<i - ofs, j - ofs>>
    <3>1. ofs <= i /\ i < ofs + updm /\ j < n /\ p \in Part(updm, in)
      BY <1>2, <2>2, InPart
    <3>2. mem'[whole][<<i - 0, j - 0>>] = mem["d_a_tmp"][p]
      BY <1>6, <1>7, <2>2, <3>1
    <3>3. mem["d_a_tmp"][p] = Entry(i, j, j + 1)
      BY <1>4, <2>2 DEF Finished
    <3> QED BY <3>2, <3>3
  <2> QED BY <1>2, <2>1, <2>2
<1>9. Updates(mem'[whole], m, Sound, 0, ofs + nb, n, 0)
  <2>1. \A i, j \in Nat : ofs + nb <= j /\ j < n /\ j <= i /\ i < m =>
          mem'[whole][<<i - 0, j - 0>>] = mem[whole][<<i - 0, j - 0>>]
    <3> SUFFICES ASSUME NEW i \in Nat, NEW j \in Nat, ofs + nb <= j, j < n, j <= i, i < m
                 PROVE  mem'[whole][<<i - 0, j - 0>>] = mem[whole][<<i - 0, j - 0>>]
      OBVIOUS
    <3>1. ~ (ofs <= j /\ j < ofs + in)
      BY <1>2
    <3> QED BY <1>7, <3>1
  <2> QED BY <1>4, <2>1, SameUpdates
<1> QED BY <1>1, <1>3, <1>7, <1>8, <1>9, NextColumn


(* The memory of a block that a thread touches in phase q, and what it      *)
(* writes of it.                                                            *)
SharedUse(t, q) ==
  LET i == (q - 1) \div 3 IN
  IF q = 0 THEN {t, Below(t)}
  ELSE IF q = LastPhase THEN {Below(t)}
  ELSE IF q % 3 = 1 THEN {<<i, i>>}
  ELSE IF q % 3 = 2 THEN IF Idx(t) < 2 * TileSize THEN {<<Idx(t), i>>} ELSE {}
  ELSE IF t[2] > i THEN Trailing(t, i) \cup {<<p[1], i>> : p \in Trailing(t, i)} \cup {<<t[2], i>>} ELSE {}

SharedChange(t, q) ==
  LET i == (q - 1) \div 3 IN
  IF q = 0 THEN {t, Below(t)}
  ELSE IF q = LastPhase \/ q % 3 = 1 THEN {}
  ELSE IF q % 3 = 2 THEN IF Idx(t) < 2 * TileSize THEN {<<Idx(t), i>>} ELSE {}
  ELSE IF t[2] > i THEN Trailing(t, i) ELSE {}

RowAt(b, t) == <<"device", launch.buf, RowPlace(b, t)[2]>>

LEMMA WritesOf ==
  ASSUME NEW b, NEW t, NEW x \in Writes(b, t)
  PROVE  \/ \E p \in SharedChange(t, done[b][t]) : x = <<"shared", b, p>>
         \/ x = RowAt(b, t)
         \/ x = Info /\ First(b, t)
<1> DEFINE q == done[b][t]
           i == (q - 1) \div 3
<1>1. CASE q = 0
  BY <1>1 DEF Writes, SharedChange, InShared
<1>2. CASE q # 0 /\ q = LastPhase
  BY <1>2 DEF Writes, InDevice, RowAt, RowPlace
<1>3. CASE q # 0 /\ q # LastPhase /\ q % 3 = 1
  BY <1>3 DEF Writes
<1>4. CASE q # 0 /\ q # LastPhase /\ q % 3 # 1 /\ q % 3 = 2
  <2>1. Writes(b, t) = InShared(b, IF Idx(t) < 2 * TileSize THEN {<<Idx(t), i>>} ELSE {})
    BY <1>4 DEF Writes
  <2>2. SharedChange(t, q) = IF Idx(t) < 2 * TileSize THEN {<<Idx(t), i>>} ELSE {}
    BY <1>4 DEF SharedChange
  <2> QED BY <2>1, <2>2 DEF InShared
<1>5. CASE q # 0 /\ q # LastPhase /\ q % 3 # 1 /\ q % 3 # 2
  <2>1. Writes(b, t) = InShared(b, IF t[2] > i THEN Trailing(t, i) ELSE {})
    BY <1>5 DEF Writes
  <2>2. SharedChange(t, q) = IF t[2] > i THEN Trailing(t, i) ELSE {}
    BY <1>5 DEF SharedChange
  <2> QED BY <2>1, <2>2 DEF InShared
<1> QED BY <1>1, <1>2, <1>3, <1>4, <1>5

LEMMA ReadsOf ==
  ASSUME NEW b, NEW t, NEW x \in Reads(b, t)
  PROVE  \/ \E p \in SharedUse(t, done[b][t]) : x = <<"shared", b, p>>
         \/ x = RowAt(b, t)
         \/ \E p : x = <<"device", "d_d", p>>
<1> DEFINE q == done[b][t]
           i == (q - 1) \div 3
<1>1. CASE q = 0
  <2>1. PICK y \in (IF InDiag(t) THEN {DiagPlace(t)} ELSE {}) \cup (IF InRows(b, t) THEN {RowPlace(b, t)} ELSE {}) :
          x = <<"device", y[1], y[2]>>
    BY <1>1 DEF Reads, InDevice
  <2> QED BY <2>1 DEF RowAt, RowPlace, DiagPlace
<1>2. CASE q # 0 /\ q = LastPhase
  BY <1>2 DEF Reads, InShared, SharedUse
<1>3. CASE q # 0 /\ q # LastPhase /\ q % 3 = 1
  BY <1>3 DEF Reads, InShared, SharedUse
<1>4. CASE q # 0 /\ q # LastPhase /\ q % 3 # 1 /\ q % 3 = 2
  <2>1. Reads(b, t) = InShared(b, IF Idx(t) < 2 * TileSize THEN {<<Idx(t), i>>} ELSE {})
    BY <1>4 DEF Reads
  <2>2. SharedUse(t, q) = IF Idx(t) < 2 * TileSize THEN {<<Idx(t), i>>} ELSE {}
    BY <1>4 DEF SharedUse
  <2> QED BY <2>1, <2>2 DEF InShared
<1>5. CASE q # 0 /\ q # LastPhase /\ q % 3 # 1 /\ q % 3 # 2
  <2> DEFINE S == IF t[2] > i
                  THEN Trailing(t, i) \cup {<<p[1], i>> : p \in Trailing(t, i)} \cup {<<t[2], i>>}
                  ELSE {}
  <2>1. Reads(b, t) = InShared(b, S)
    BY <1>5 DEF Reads
  <2>2. SharedUse(t, q) = S
    BY <1>5 DEF SharedUse
  <2> HIDE DEF S
  <2> QED BY <2>1, <2>2 DEF InShared
<1> QED BY <1>1, <1>2, <1>3, <1>4, <1>5

(* In the same phase no thread changes what another one uses. *)
LEMMA PhaseApart ==
  ASSUME NEW t \in Thread, NEW u \in Thread, NEW q \in Nat,
         NEW p \in SharedChange(t, q), p \in SharedUse(u, q) \cup SharedChange(u, q)
  PROVE  t = u
<1> DEFINE i == (q - 1) \div 3
<1>1. /\ TileSize \in Nat \ {0} /\ t[1] \in Nat /\ t[1] < TileSize /\ t[2] \in Nat
      /\ u[1] \in Nat /\ u[1] < TileSize /\ u[2] \in Nat /\ t = <<t[1], t[2]>> /\ u = <<u[1], u[2]>>
  BY ThreadFacts
<1>2. Below(t) = <<t[1] + TileSize, t[2]>> /\ Below(u) = <<u[1] + TileSize, u[2]>>
  BY DEF Below
<1>3. t # Below(u) /\ Below(t) # u /\ (Below(t) = Below(u) => t = u)
  <2>1. t[1] # u[1] + TileSize /\ t[1] + TileSize # u[1] /\ (t[1] + TileSize = u[1] + TileSize => t[1] = u[1])
    BY <1>1
  <2> QED BY <1>1, <1>2, <2>1
<1>4. CASE q = 0
  BY <1>3, <1>4 DEF SharedChange, SharedUse
<1>5. CASE q # 0 /\ (q = LastPhase \/ q % 3 = 1)
  BY <1>5 DEF SharedChange
<1>6. CASE q # 0 /\ q # LastPhase /\ q % 3 # 1 /\ q % 3 = 2
  <2>1. p = <<Idx(t), i>> /\ p = <<Idx(u), i>>
    BY <1>6 DEF SharedChange, SharedUse
  <2> QED BY <2>1, IndexUnique
<1>7. CASE q # 0 /\ q # LastPhase /\ q % 3 # 1 /\ q % 3 # 2
  <2> DEFINE Of(v) == Trailing(v, i) \cup {<<r[1], i>> : r \in Trailing(v, i)} \cup {<<v[2], i>>}
  <2>1. t[2] > i /\ p \in Trailing(t, i)
    BY <1>7 DEF SharedChange
  <2>2. SharedUse(u, q) \subseteq Of(u)
    BY <1>7 DEF SharedUse
  <2>3. SharedChange(u, q) \subseteq Trailing(u, i)
    BY <1>7 DEF SharedChange
  <2>4. p \in {t, Below(t)}
    BY <2>1 DEF Trailing
  <2>5. p[2] # i
    <3>1. p[2] = t[2]
      BY <1>1, <1>2, <2>4
    <3>2. i \in Int
      <4>1. q - 1 \in Nat /\ 3 \in Nat \ {0}
        BY <1>7
      <4> QED BY <4>1, BlockOf
    <3> HIDE DEF i
    <3> QED BY <1>1, <2>1, <3>1, <3>2
  <2>6. p \in Trailing(u, i)
    BY <2>2, <2>3, <2>5
  <2>7. p \in {u, Below(u)}
    BY <2>6 DEF Trailing
  <2> QED BY <1>3, <2>4, <2>7
<1> QED BY <1>4, <1>5, <1>6, <1>7

LEMMA RaceFree ==
  ASSUME KernelInv
  PROVE  NoDataRace
<1> SUFFICES ASSUME Running, NEW b \in Block, NEW t \in Thread, Ready(b, t),
                    NEW c \in Block, NEW u \in Thread, Ready(c, u), <<b, t>> # <<c, u>>,
                    NEW x \in Writes(b, t), x \in Reads(c, u) \cup Writes(c, u)
             PROVE  FALSE
  BY DEF NoDataRace
<1>1. /\ launch.buf \in {"d_a", "d_a_hp", "d_a_tmp"} /\ launch.row \in Int /\ launch.col \in Int
      /\ done[b][t] \in Nat /\ done[c][u] \in Nat /\ b \in Nat /\ c \in Nat /\ LastPhase \in Int
  <2>1. /\ launch.buf \in {"d_a", "d_a_hp", "d_a_tmp"} /\ launch.row \in Nat /\ launch.col \in Nat
        /\ launch.n \in 1..TileSize /\ done \in [Block -> [Thread -> Nat]]
    BY DEF KernelInv
  <2>2. b \in Nat /\ c \in Nat
    BY DEF Block
  <2>3. LastPhase \in Int
    BY <2>1, TileSizeAssumption DEF LastPhase
  <2> QED BY <2>1, <2>2, <2>3
<1>2. CASE \E p \in SharedChange(t, done[b][t]) : x = <<"shared", b, p>>
  <2>1. PICK p \in SharedChange(t, done[b][t]) : x = <<"shared", b, p>>
    BY <1>2
  <2>2. c = b /\ p \in SharedUse(u, done[c][u]) \cup SharedChange(u, done[c][u])
    <3>1. CASE x \in Reads(c, u)
      BY <2>1, <3>1, ReadsOf DEF RowAt
    <3>2. CASE x \in Writes(c, u)
      BY <2>1, <3>2, WritesOf DEF RowAt, Info
    <3> QED BY <3>1, <3>2
  <2>3. done[b][t] = done[b][u]
    <3>1. Behind(b, u) >= done[b][t] /\ Behind(b, t) >= done[b][u]
      BY <2>2 DEF Ready, Synced
    <3>2. Behind(b, u) = done[b][u] /\ Behind(b, t) = done[b][t]
      BY <1>1, <2>2 DEF Behind, HasLeft, Ready, Ended
    <3> QED BY <1>1, <2>2, <3>1, <3>2
  <2>4. t = u
    BY <1>1, <2>1, <2>2, <2>3, PhaseApart
  <2> QED BY <2>2, <2>4
<1>3. CASE x = RowAt(b, t)
  <2>1. x = RowAt(c, u)
    <3>1. CASE x \in Reads(c, u)
      BY <1>1, <1>3, <3>1, ReadsOf DEF RowAt
    <3>2. CASE x \in Writes(c, u)
      BY <1>1, <1>3, <3>2, WritesOf DEF RowAt, Info
    <3> QED BY <3>1, <3>2
  <2>2. RowPlace(b, t)[2] = RowPlace(c, u)[2]
    BY <1>3, <2>1 DEF RowAt
  <2> QED BY <1>1, <2>2, RowsUnique
<1>4. CASE x = Info /\ First(b, t)
  <2>1. First(c, u)
    <3>1. CASE x \in Reads(c, u)
      BY <1>1, <1>4, <3>1, ReadsOf DEF RowAt, Info
    <3>2. CASE x \in Writes(c, u)
      BY <1>1, <1>4, <3>2, WritesOf DEF RowAt, Info
    <3> QED BY <3>1, <3>2
  <2> QED BY <1>4, <2>1 DEF First
<1> QED BY <1>2, <1>3, <1>4, WritesOf

-----------------------------------------------------------------------------
(* The phases of the kernel keep its threads apart: where one writes while  *)
(* it may run, no other that may run at the same time reads or writes.      *)
THEOREM GpuNoDataRace == Spec => []NoDataRace
<1>1. PositionInv /\ KernelInv => NoDataRace
  BY RaceFree
<1> QED BY <1>1, KernelAlways, PTL

(* A pivot that is not positive does not leave a thread waiting at a        *)
(* barrier for others that have returned.                                   *)
THEOREM GpuLeftTogether == Spec => []LeftTogether
<1>1. PositionInv /\ KernelInv => LeftTogether
  BY LeftHolds
<1> QED BY <1>1, KernelAlways, PTL

(* While an outer block column is factorized. *)
LEMMA FactorFacts ==
  ASSUME PositionInv, MemoryInv, Does("factor"), stage # "returned"
  PROVE  /\ job \in Jobs /\ kk \in Nat /\ kk < nc /\ step \in 1..Len(steps) /\ step # 0 /\ steps[step] = "factor"
         /\ k \in Nat /\ k < inc
         /\ indefinite \in SUBSET Nat /\ MemoryDomains
         /\ m \in Nat \ {0} /\ n \in Nat \ {0} /\ nb \in Nat \ {0} /\ ib \in Nat \ {0} /\ n <= m
         /\ Sound \in Nat /\ Sound <= n
         /\ ofs \in Nat /\ ofs < n /\ in \in Nat /\ in <= nb /\ in <= n - ofs /\ updm = m - ofs
         /\ iofs \in Nat /\ iofs < in /\ first = ofs + iofs /\ first \in Nat
         /\ cblkn \in 1..ib /\ first + cblkn <= ofs + in /\ cblkm = m - first /\ cblkm >= cblkn
         /\ panel \in {whole, "d_a_tmp"} /\ panel \in Buffer /\ whole \in Buffer
         /\ panel # "d_d" /\ whole # "d_d" /\ whole # "d_a_tmp"
         /\ shift \in Nat /\ shift = ShiftOf(panel) /\ origin + iofs = first - shift /\ origin \in Nat
         /\ Finished(mem[whole], m, Sound, 0, 0, ofs)
         /\ Updates(mem[whole], m, Sound, 0, ofs + nb, n, 0)
         /\ FactorInv
<1>1. /\ job \in Jobs /\ kk \in Nat /\ kk < nc /\ step \in 1..Len(steps) /\ step # 0 /\ steps[step] = "factor"
      /\ k \in Nat /\ k < inc /\ indefinite \in SUBSET Nat /\ MemoryDomains
  BY JobFacts DEF PositionInv, MemoryInv, Does
<1>2. /\ m \in Nat \ {0} /\ n \in Nat \ {0} /\ nb \in Nat \ {0} /\ ib \in Nat \ {0} /\ n <= m
      /\ Sound \in Nat /\ Sound <= n
      /\ ofs \in Nat /\ ofs < n /\ in \in Nat /\ in <= nb /\ in <= n - ofs /\ updm = m - ofs
      /\ iofs \in Nat /\ iofs < in /\ cblkn \in 1..ib /\ cblkn <= in - iofs /\ cblkm >= cblkn
  <2>1. /\ m \in Nat \ {0} /\ n \in Nat \ {0} /\ nb \in Nat \ {0} /\ ib \in Nat \ {0} /\ n <= m
        /\ Sound \in Nat /\ Sound <= n
    BY <1>1, JobFacts, SoundColumns
  <2>2. ofs \in Nat /\ ofs < n /\ in \in 1..nb /\ in <= n - ofs /\ updm = m - ofs
    BY <1>1, OuterLoop DEF updm
  <2>3. iofs \in Nat /\ iofs < in /\ cblkn \in 1..ib /\ cblkn <= in - iofs /\ cblkm >= cblkn
    BY <1>1, InnerLoop
  <2>4. in \in Nat /\ in <= nb
    BY <2>1, <2>2
  <2> QED BY <2>1, <2>2, <2>3, <2>4
<1>3. first = ofs + iofs /\ first \in Nat /\ first + cblkn <= ofs + in /\ cblkm = m - first
  BY <1>2 DEF first, cblkm
<1>4. /\ panel \in {whole, "d_a_tmp"} /\ whole \in {"d_a", "d_a_hp"} /\ shift = ShiftOf(panel)
      /\ origin = ofs - shift /\ origin \in Nat
  BY <1>1, Buffers DEF ShiftOf
<1>5. shift \in Nat /\ origin + iofs = first - shift
  BY <1>2, <1>3, <1>4 DEF ShiftOf
<1>6. panel \in Buffer /\ whole \in Buffer
  BY <1>4 DEF Buffer
<1>7. /\ Finished(mem[whole], m, Sound, 0, 0, ofs)
      /\ Updates(mem[whole], m, Sound, 0, ofs + nb, n, 0)
      /\ FactorInv
  BY <1>1 DEF MemoryInv
<1> QED BY <1>1, <1>2, <1>3, <1>4, <1>5, <1>6, <1>7

(* A step that stays at a block column. *)
LEMMA FactorStays ==
  ASSUME PositionInv, MemoryInv, Does("factor"), stage # "returned",
         job' = job, indefinite' = indefinite, kk' = kk, step' = step, stage' \in {"copy", "launch", "run"},
         MemoryDomains',
         Finished(mem'[whole], m, Sound, 0, 0, ofs),
         Updates(mem'[whole], m, Sound, 0, ofs + nb, n, 0),
         FactorInv'
  PROVE  MemoryInv'
<1>1. /\ kk < nc /\ step \in 1..Len(steps) /\ step # 0 /\ steps[step] = "factor" /\ indefinite \in SUBSET Nat
  BY FactorFacts
<1>2. /\ m' = m /\ n' = n /\ nb' = nb /\ nc' = nc /\ Sound' = Sound /\ whole' = whole /\ steps' = steps /\ ofs' = ofs
  BY SameJob, SameColumn
<1>3. Does("factor")' /\ ~ Does("update")' /\ ~ Does("take")' /\ ~ Does("give")'
  BY <1>1, <1>2 DEF Does
<1>4. Finished(mem[whole], m, Sound, 0, 0, ofs)' /\ Updates(mem[whole], m, Sound, 0, ofs + nb, n, 0)'
  BY <1>2
<1> QED BY <1>1, <1>3, <1>4 DEF MemoryInv

(* The rows and columns of the block column at hand, in its buffer. *)
LEMMA BlockPlace ==
  ASSUME PositionInv, MemoryInv, Does("factor"), stage # "returned",
         NEW r \in Nat, NEW c \in Nat, r < cblkm, c < cblkn
  PROVE  /\ <<origin + iofs + r, origin + iofs + c>> = <<(first + r) - shift, (first + c) - shift>>
         /\ <<origin + iofs + r, origin + iofs + c>> \in Extent(job, panel)
         /\ first + r \in Nat /\ first + c \in Nat /\ first + r < m /\ first + c < ofs + in
<1>1. /\ job \in Jobs /\ kk \in Nat /\ m \in Nat /\ n \in Nat /\ nb \in Nat /\ ofs \in Nat /\ in \in Nat
      /\ in <= nb /\ in <= n - ofs /\ first \in Nat /\ ofs <= first /\ cblkn \in Nat
      /\ first + cblkn <= ofs + in /\ cblkm = m - first /\ panel \in {whole, "d_a_tmp"} /\ whole # "d_a_tmp"
      /\ shift \in Nat /\ shift = ShiftOf(panel) /\ origin + iofs = first - shift
  <2>1. cblkn \in 1..ib /\ ib \in Nat /\ iofs \in Nat /\ ofs \in Nat /\ first = ofs + iofs
    BY FactorFacts
  <2>2. cblkn \in Nat /\ ofs <= first
    BY <2>1
  <2> QED BY <2>2, FactorFacts
<1> DEFINE i == first + r
           j == first + c
<1>2. i \in Nat /\ j \in Nat /\ i < m /\ j < ofs + in /\ j < n /\ j < ofs + nb /\ ofs <= i /\ ofs <= j
  BY <1>1
<1>3. origin + iofs + r = i - shift /\ origin + iofs + c = j - shift
  BY <1>1
<1> HIDE DEF i, j
<1>4. <<i - ShiftOf(panel), j - ShiftOf(panel)>> \in Extent(job, panel)
  BY <1>1, <1>2, PlaceIn
<1>5. <<origin + iofs + r, origin + iofs + c>> = <<i - shift, j - shift>>
  BY <1>3
<1> QED BY <1>1, <1>2, <1>4, <1>5 DEF i, j

LEMMA CopyDiagonalStep ==
  ASSUME PositionInv, MemoryInv, CopyDiagonal
  PROVE  MemoryInv'
<1>1. /\ Does("factor") /\ stage = "copy" /\ stage' = "launch" /\ stage # "returned"
      /\ job' = job /\ indefinite' = indefinite /\ kk' = kk /\ step' = step /\ k' = k
  BY DEF CopyDiagonal, Idle
<1>2. /\ job \in Jobs /\ kk \in Nat /\ MemoryDomains /\ m \in Nat /\ ib \in Nat /\ Sound \in Nat /\ indefinite \in SUBSET Nat
      /\ kk < nc /\ first \in Nat /\ cblkn \in 1..ib /\ cblkm \in Int /\ cblkm >= cblkn /\ panel \in Buffer /\ whole \in Buffer
      /\ panel # "d_d" /\ whole # "d_d"
      /\ Finished(mem[whole], m, Sound, 0, 0, ofs)
      /\ Updates(mem[whole], m, Sound, 0, ofs + nb, n, 0)
      /\ FactorInv
  <2>1. cblkm = m - first /\ m \in Nat /\ first \in Nat
    BY <1>1, FactorFacts
  <2>2. cblkm \in Int
    BY <2>1
  <2> QED BY <1>1, <2>2, FactorFacts
<1> DEFINE new == [p \in Part(cblkn, cblkn) |-> mem[panel][<<origin + iofs + p[1], origin + iofs + p[2]>>]]
           z == 0
           buf == "d_d"
<1>3. mem' = Put(buf, z, z, new) /\ z \in Int /\ DOMAIN new = Part(cblkn, cblkn) /\ buf \in Buffer
  BY DEF CopyDiagonal, Buffer
<1>4. \A p \in Part(cblkn, cblkn) : new[p] = mem[panel][<<origin + iofs + p[1], origin + iofs + p[2]>>]
  OBVIOUS
<1> HIDE DEF new, z, buf
<1>10. /\ MemoryDomains'
       /\ \A b \in Buffer : b # buf => mem'[b] = mem[b]
       /\ \A p \in Extent(job, buf) :
            <<p[1] - z, p[2] - z>> \in DOMAIN new => mem'[buf][p] = new[<<p[1] - z, p[2] - z>>]
  <2>1. MemoryDomains /\ job' = job
    BY <1>1, <1>2
  <2> QED BY <1>3, <2>1, PutAt
<1>5. /\ MemoryDomains'
      /\ \A b \in Buffer : b # "d_d" => mem'[b] = mem[b]
      /\ \A p \in Extent(job, "d_d") :
           <<p[1] - z, p[2] - z>> \in DOMAIN new => mem'["d_d"][p] = new[<<p[1] - z, p[2] - z>>]
  BY <1>10 DEF buf
<1>6. mem'[panel] = mem[panel] /\ mem'[whole] = mem[whole]
  BY <1>2, <1>5
<1>7. Updates(mem[panel], m, Sound, shift, first, first + cblkn, first)
  BY <1>1, <1>2 DEF FactorInv
<1>8. ASSUME first < Sound, NEW c \in 0..(cblkn - 1), NEW r \in 0..(cblkn - 1), c <= r
      PROVE  mem'["d_d"][<<r, c>>] = Entry(first + r, first + c, first)
  <2> DEFINE p == <<r, c>>
             i == first + r
             j == first + c
  <2>1. p \in Part(cblkn, cblkn) /\ p \in Extent(job, "d_d") /\ p[1] - z = r /\ p[2] - z = c
    <3>1. Extent(job, "d_d") = Part(ib, ib)
      BY <1>2, Buffers
    <3>2. p \in Part(cblkn, cblkn) /\ p \in Part(ib, ib)
      BY <1>2, InPart
    <3> QED BY <1>2, <3>1, <3>2 DEF z
  <2>2. mem'["d_d"][p] = mem[panel][<<origin + iofs + r, origin + iofs + c>>]
    BY <1>3, <1>4, <1>5, <2>1
  <2>3. <<origin + iofs + r, origin + iofs + c>> = <<i - shift, j - shift>> /\ i \in Nat /\ j \in Nat /\ i < m
    <3>1. r \in Nat /\ c \in Nat /\ r < cblkm /\ c < cblkn
      BY <1>2
    <3> QED BY <1>1, <3>1, BlockPlace
  <2>4. first <= j /\ j < first + cblkn /\ j < Sound /\ j <= i
    <3>1. first + cblkn <= Sound
      BY <1>2, <1>8, SoundBlock
    <3> QED BY <1>2, <1>8, <3>1
  <2>5. mem[panel][<<i - shift, j - shift>>] = Entry(i, j, first)
    <3> HIDE DEF i, j
    <3> QED BY <1>7, <2>3, <2>4 DEF Updates
  <2> QED BY <2>2, <2>3, <2>5
<1>9. FactorInv'
  <2>1. /\ m' = m /\ Sound' = Sound /\ panel' = panel /\ shift' = shift /\ first' = first /\ cblkn' = cblkn
        /\ ofs' = ofs /\ in' = in
    BY <1>1, SameJob, SameColumn
  <2>2. /\ Finished(mem[panel], m, Sound, shift, ofs, first)
        /\ Updates(mem[panel], m, Sound, shift, first + cblkn, ofs + in, first)
    BY <1>2 DEF FactorInv
  <2>3. first' < Sound' => \A c, r \in 0..(cblkn' - 1) : c <= r => mem'["d_d"][<<r, c>>] = Entry(first' + r, first' + c, first')
    BY <1>8, <2>1
  <2>4. /\ Finished(mem'[panel'], m', Sound', shift', ofs', first')
        /\ Updates(mem'[panel'], m', Sound', shift', first' + cblkn', ofs' + in', first')
        /\ Updates(mem'[panel'], m', Sound', shift', first', first' + cblkn', first')
    BY <1>6, <1>7, <2>1, <2>2
  <2> QED BY <1>1, <2>3, <2>4 DEF FactorInv
<1> QED BY <1>1, <1>2, <1>5, <1>6, <1>9, FactorStays

LEMMA LaunchStep ==
  ASSUME PositionInv, MemoryInv, factor_bcol
  PROVE  MemoryInv'
<1>1. /\ Does("factor") /\ stage = "launch" /\ stage' = "run" /\ stage # "returned" /\ mem' = mem
      /\ job' = job /\ indefinite' = indefinite /\ kk' = kk /\ step' = step /\ k' = k
  BY DEF factor_bcol
<1>2. /\ job \in Jobs /\ MemoryDomains /\ m \in Nat /\ ib \in Nat /\ Sound \in Nat /\ indefinite \in SUBSET Nat
      /\ kk < nc /\ first \in Nat /\ cblkn \in 1..ib /\ panel \in Buffer
      /\ Finished(mem[whole], m, Sound, 0, 0, ofs)
      /\ Updates(mem[whole], m, Sound, 0, ofs + nb, n, 0)
      /\ FactorInv
  BY <1>1, FactorFacts
<1>3. /\ m' = m /\ Sound' = Sound /\ panel' = panel /\ shift' = shift /\ first' = first /\ cblkn' = cblkn
      /\ ofs' = ofs /\ in' = in /\ Launched' = Launched
  BY <1>1, SameJob, SameColumn
<1>4. /\ Finished(mem[panel], m, Sound, shift, ofs, first)
      /\ Updates(mem[panel], m, Sound, shift, first + cblkn, ofs + in, first)
      /\ Updates(mem[panel], m, Sound, shift, first, first + cblkn, first)
      /\ first < Sound => \A c, r \in 0..(cblkn - 1) : c <= r => mem["d_d"][<<r, c>>] = Entry(first + r, first + c, first)
  BY <1>1, <1>2 DEF FactorInv
<1>5. /\ launch'.m = cblkm /\ launch'.n = cblkn /\ launch'.buf = panel /\ launch' = Launched
      /\ launch'.row = origin + iofs /\ launch'.col = origin + iofs /\ launch'.first = first
  BY DEF factor_bcol, Launched, first
<1>6. /\ \A b \in Block', t \in Thread : done'[b][t] = 0
      /\ DOMAIN swork' = Block' /\ \A b \in Block' : DOMAIN swork'[b] = Shared
      /\ DOMAIN d11' = Block' /\ \A b \in Block' : DOMAIN d11'[b] = Thread
  BY DEF factor_bcol
<1>7. LastPhase' = 3 * cblkn + 1 /\ LastPhase' \in Nat
  BY <1>2, <1>5 DEF LastPhase
<1>8. MemoryDomains'
  BY <1>1, <1>2 DEF MemoryDomains, Extent
<1>9. ASSUME first < Sound
      PROVE  KernelData' /\ ThreadsInv'
  <2>1. ASSUME NEW b \in Block', NEW t \in Thread, InRows(b, t)'
        PROVE  LET r == t[1] + TileSize * b IN
               /\ r \in Nat /\ r < cblkm /\ t[2] \in Nat /\ t[2] < cblkn
               /\ RowPlace(b, t)'[2] = <<origin + iofs + r, origin + iofs + t[2]>>
               /\ MatrixRow(b, t)' = first + r /\ MatrixColumn(t)' = first + t[2]
    <3> DEFINE B == TileSize * b
    <3>1. B \in Nat
      <4>1. b \in Nat
        BY DEF Block
      <4>2. TileSize \in Nat
        BY TileSizeAssumption
      <4> QED BY <4>1, <4>2, Z3
    <3>2. t[1] \in Nat /\ t[2] \in Nat
      BY ThreadFacts
    <3>3. t[1] + B < cblkm /\ t[2] < cblkn
      BY <1>5, <2>1 DEF InRows
    <3>4. /\ RowPlace(b, t)'[2] = <<origin + iofs + t[1] + B, origin + iofs + t[2]>>
          /\ MatrixRow(b, t)' = first + t[1] + B /\ MatrixColumn(t)' = first + t[2]
      BY <1>5 DEF RowPlace, MatrixRow, MatrixColumn
    <3>5. origin + iofs \in Int /\ first \in Nat
      <4>1. origin \in Nat /\ iofs \in Nat /\ first \in Nat
        BY <1>1, FactorFacts
      <4> QED BY <4>1
    <3> HIDE DEF B
    <3>6. origin + iofs + t[1] + B = origin + iofs + (t[1] + B) /\ first + t[1] + B = first + (t[1] + B) /\ t[1] + B \in Nat
      BY <3>1, <3>2, <3>5
    <3> QED BY <3>2, <3>3, <3>4, <3>6 DEF B
  <2>2. /\ \A q \in 0..(launch'.n - 1) : Positive(q)'
        /\ \A c, r \in 0..(launch'.n - 1) : c <= r =>
             mem'["d_d"][<<r, c>>] = Entry(launch'.first + r, launch'.first + c, launch'.first)
    <3>1. \A q \in 0..(cblkn - 1) : Positive(q)'
      <4> SUFFICES ASSUME NEW q \in 0..(cblkn - 1)
                   PROVE  Positive(q)'
        OBVIOUS
      <4>1. first + cblkn <= Sound
        BY <1>2, <1>9, SoundBlock
      <4>2. first + q \in Nat /\ first + q < Sound
        BY <1>2, <4>1
      <4>3. first + q \notin indefinite
        BY <1>2, <4>2, SoundColumns
      <4> QED BY <1>1, <1>5, <4>3 DEF Positive
    <3> QED BY <1>1, <1>4, <1>5, <1>9, <3>1
  <2>3. \A b \in Block', t \in Thread : InRows(b, t)' => RowPlace(b, t)'[2] \in DOMAIN mem'[launch'.buf]
    <3> SUFFICES ASSUME NEW b \in Block', NEW t \in Thread, InRows(b, t)'
                 PROVE  RowPlace(b, t)'[2] \in DOMAIN mem'[launch'.buf]
      OBVIOUS
    <3> DEFINE r == t[1] + TileSize * b
    <3>1. /\ r \in Nat /\ r < cblkm /\ t[2] \in Nat /\ t[2] < cblkn
          /\ RowPlace(b, t)'[2] = <<origin + iofs + r, origin + iofs + t[2]>>
      BY <2>1
    <3> HIDE DEF r
    <3>2. RowPlace(b, t)'[2] \in Extent(job, panel)
      BY <1>1, <3>1, BlockPlace
    <3> QED BY <1>1, <1>2, <1>5, <3>2 DEF MemoryDomains
  <2>4. KernelData'
    <3>1. launch'.first \in Nat /\ launch'.buf \in DOMAIN mem'
      BY <1>1, <1>2, <1>5 DEF MemoryDomains
    <3> QED BY <2>2, <2>3, <3>1 DEF KernelData
  <2>5. RowsHold'
    <3> SUFFICES ASSUME NEW b \in Block', NEW t \in Thread, InRows(b, t)', MatrixColumn(t)' <= MatrixRow(b, t)'
                 PROVE  mem'[launch'.buf][RowPlace(b, t)'[2]] =
                          Entry(MatrixRow(b, t)', MatrixColumn(t)',
                                IF done'[b][t] = LastPhase' + 1 THEN MatrixColumn(t)' + 1 ELSE launch'.first)
      BY DEF RowsHold
    <3> DEFINE r == t[1] + TileSize * b
    <3>1. /\ r \in Nat /\ r < cblkm /\ t[2] \in Nat /\ t[2] < cblkn
          /\ RowPlace(b, t)'[2] = <<origin + iofs + r, origin + iofs + t[2]>>
          /\ MatrixRow(b, t)' = first + r /\ MatrixColumn(t)' = first + t[2]
      BY <2>1
    <3> HIDE DEF r
    <3> DEFINE i == first + r
               j == first + t[2]
    <3>2. /\ <<origin + iofs + r, origin + iofs + t[2]>> = <<i - shift, j - shift>>
          /\ i \in Nat /\ j \in Nat /\ i < m
      BY <1>1, <3>1, BlockPlace
    <3>3. first <= j /\ j < first + cblkn /\ j < Sound
      <4>1. first + cblkn <= Sound
        BY <1>2, <1>9, SoundBlock
      <4> QED BY <1>2, <3>1, <4>1
    <3>4. j <= i
      BY <3>1
    <3> HIDE DEF i, j
    <3>5. mem[panel][<<i - shift, j - shift>>] = Entry(i, j, first)
      BY <1>4, <3>2, <3>3, <3>4 DEF Updates
    <3>6. done'[b][t] # LastPhase' + 1
      BY <1>6, <1>7
    <3>7. MatrixRow(b, t)' = i /\ MatrixColumn(t)' = j
      BY <3>1 DEF i, j
    <3> QED BY <1>1, <1>5, <3>1, <3>2, <3>5, <3>6, <3>7
  <2>6. InStep'
    BY <1>6, <1>7 DEF InStep
  <2>7. PivotsHold'
    <3>1. \A q \in 0..(launch'.n - 1) : 3 * q + 2 # 0
      BY <1>2, <1>5
    <3> QED BY <1>6, <3>1 DEF PivotsHold
  <2>8. SharedHolds'
    <3>1. \A e, F, row : \A c \in SharedColumns : Holds(e, F, row, c, 0, 0)
      BY TileSizeAssumption DEF Holds, SharedColumns
    <3> SUFFICES ASSUME NEW b \in Block', NEW r \in SharedRows, NEW c \in SharedColumns, NEW u \in Thread
                 PROVE  Holds(swork'[b][<<r, c>>], launch'.first, RowOf(b, r)', c, done'[b][Owner(r, c)], done'[b][u])
      BY DEF SharedHolds
    <3>2. done'[b][u] = 0 /\ done'[b][Owner(r, c)] = 0
      BY <1>6, OwnerIs
    <3> QED BY <3>1, <3>2
  <2> QED BY <1>6, <2>4, <2>5, <2>6, <2>7, <2>8 DEF ThreadsInv
<1>10. FactorInv'
  <2>1. /\ Finished(mem'[panel'], m', Sound', shift', ofs', first')
        /\ Updates(mem'[panel'], m', Sound', shift', first' + cblkn', ofs' + in', first')
    BY <1>1, <1>3, <1>4
  <2>2. launch' = Launched' /\ (first' < Sound' => KernelData' /\ ThreadsInv')
    BY <1>3, <1>5, <1>9
  <2> QED BY <1>1, <2>1, <2>2 DEF FactorInv
<1> QED BY <1>1, <1>2, <1>8, <1>10, FactorStays

(* The kernel writes to its block column only. *)
LEMMA KernelFrame ==
  ASSUME PositionInv, MemoryInv, dev_llt_bcol
  PROVE  /\ MemoryDomains'
         /\ \A b \in Buffer : b # panel => mem'[b] = mem[b]
         /\ \A i, j \in Nat :
              /\ j <= i /\ i < m /\ j < n
              /\ panel = "d_a_tmp" => ofs <= j /\ j < ofs + nb
              /\ ~ (first <= j /\ j < first + cblkn)
              => mem'[panel][<<i - shift, j - shift>>] = mem[panel][<<i - shift, j - shift>>]
<1>1. /\ Does("factor") /\ stage = "run" /\ stage # "returned" /\ job' = job
  BY DEF dev_llt_bcol
<1>2. /\ job \in Jobs /\ kk \in Nat /\ MemoryDomains /\ ofs \in Nat /\ first \in Nat /\ cblkn \in 1..ib
      /\ panel \in {whole, "d_a_tmp"} /\ panel \in Buffer /\ shift \in Nat /\ shift = ShiftOf(panel)
      /\ origin + iofs = first - shift /\ launch = Launched
  BY <1>1, FactorFacts DEF FactorInv
<1>3. CASE mem' = mem
  <2>1. MemoryDomains'
    BY <1>1, <1>2, <1>3 DEF MemoryDomains, Extent
  <2> QED BY <1>3, <2>1
<1>4. ASSUME NEW b \in Block, NEW t \in Thread, InRows(b, t), NEW v,
             mem' = [mem EXCEPT ![launch.buf][RowPlace(b, t)[2]] = v]
      PROVE  /\ MemoryDomains'
             /\ \A c \in Buffer : c # panel => mem'[c] = mem[c]
             /\ \A i, j \in Nat :
                  /\ j <= i /\ i < m /\ j < n
                  /\ panel = "d_a_tmp" => ofs <= j /\ j < ofs + nb
                  /\ ~ (first <= j /\ j < first + cblkn)
                  => mem'[panel][<<i - shift, j - shift>>] = mem[panel][<<i - shift, j - shift>>]
  <2> DEFINE place == RowPlace(b, t)[2]
  <2>1. launch.buf = panel /\ place[2] = first - shift + t[2] /\ t[2] \in Nat /\ t[2] < cblkn
    <3>1. launch.col = origin + iofs /\ launch.n = cblkn /\ launch.buf = panel
      BY <1>2 DEF Launched
    <3>2. place[2] = launch.col + t[2] /\ t[2] < launch.n
      BY <1>4 DEF RowPlace, InRows
    <3> QED BY <1>2, <3>1, <3>2, ThreadFacts
  <2> HIDE DEF place
  <2>2. mem' = [mem EXCEPT ![panel] = [mem[panel] EXCEPT ![place] = v]]
    BY <1>4, <2>1 DEF place
  <2>3. /\ DOMAIN mem' = Buffer /\ DOMAIN mem'[panel] = DOMAIN mem[panel]
        /\ \A c \in Buffer : c # panel => mem'[c] = mem[c]
        /\ \A p \in Extent(job, panel) : p # place => mem'[panel][p] = mem[panel][p]
    BY <1>2, <2>2 DEF MemoryDomains
  <2>4. MemoryDomains'
    <3>1. \A c \in Buffer : DOMAIN mem'[c] = Extent(job', c)
      BY <1>1, <1>2, <2>3 DEF MemoryDomains
    <3> QED BY <2>3, <3>1 DEF MemoryDomains, Buffer
  <2>5. ASSUME NEW i \in Nat, NEW j \in Nat, j <= i, i < m, j < n,
               panel = "d_a_tmp" => ofs <= j /\ j < ofs + nb,
               ~ (first <= j /\ j < first + cblkn)
        PROVE  mem'[panel][<<i - shift, j - shift>>] = mem[panel][<<i - shift, j - shift>>]
    <3> DEFINE p == <<i - shift, j - shift>>
    <3>1. p \in Extent(job, panel)
      <4>1. panel = "d_a_tmp" => ofs <= i
        BY <1>2, <2>5
      <4>2. <<i - ShiftOf(panel), j - ShiftOf(panel)>> \in Extent(job, panel)
        BY <1>2, <2>5, <4>1, PlaceIn
      <4> QED BY <1>2, <4>2
    <3>2. p[2] = j - shift
      OBVIOUS
    <3> HIDE DEF p
    <3>3. p # place
      BY <1>2, <2>1, <2>5, <3>2
    <3> QED BY <2>3, <3>1, <3>3 DEF p
  <2> QED BY <2>3, <2>4, <2>5
<1> QED BY <1>3, <1>4, KernelMemory

LEMMA KernelMemoryStep ==
  ASSUME PositionInv, KernelInv, MemoryInv, dev_llt_bcol
  PROVE  MemoryInv'
<1>1. /\ Does("factor") /\ stage = "run" /\ stage' = stage /\ stage # "returned"
      /\ job' = job /\ indefinite' = indefinite /\ kk' = kk /\ step' = step /\ k' = k /\ launch' = launch
  BY DEF dev_llt_bcol, position
<1>2. /\ MemoryDomains /\ m \in Nat /\ n \in Nat /\ n <= m /\ nb \in Nat /\ ofs \in Nat /\ in \in Nat /\ in <= nb
      /\ in <= n - ofs /\ first \in Nat /\ ofs <= first /\ cblkn \in Nat /\ first + cblkn <= ofs + in
      /\ panel \in {whole, "d_a_tmp"} /\ whole \in Buffer /\ whole # "d_a_tmp" /\ panel # "d_d"
      /\ shift = ShiftOf(panel) /\ panel \in Buffer
      /\ Finished(mem[whole], m, Sound, 0, 0, ofs)
      /\ Updates(mem[whole], m, Sound, 0, ofs + nb, n, 0)
      /\ FactorInv
  <2>1. cblkn \in 1..ib /\ ib \in Nat /\ iofs \in Nat /\ ofs \in Nat /\ first = ofs + iofs
    BY <1>1, FactorFacts
  <2>2. cblkn \in Nat /\ ofs <= first
    BY <2>1
  <2> QED BY <1>1, <2>2, FactorFacts
<1>3. /\ MemoryDomains'
      /\ \A b \in Buffer : b # panel => mem'[b] = mem[b]
      /\ \A i, j \in Nat :
           /\ j <= i /\ i < m /\ j < n
           /\ panel = "d_a_tmp" => ofs <= j /\ j < ofs + nb
           /\ ~ (first <= j /\ j < first + cblkn)
           => mem'[panel][<<i - shift, j - shift>>] = mem[panel][<<i - shift, j - shift>>]
  BY KernelFrame
<1>4. /\ Finished(mem[panel], m, Sound, shift, ofs, first)
      /\ Updates(mem[panel], m, Sound, shift, first + cblkn, ofs + in, first)
      /\ launch = Launched
      /\ first < Sound => KernelData /\ ThreadsInv
  BY <1>1, <1>2 DEF FactorInv
<1>5. /\ m' = m /\ Sound' = Sound /\ panel' = panel /\ shift' = shift /\ first' = first /\ cblkn' = cblkn
      /\ ofs' = ofs /\ in' = in /\ Launched' = Launched
  BY <1>1, SameJob, SameColumn
<1>6. Finished(mem'[panel], m, Sound, shift, ofs, first)
  <2>1. ASSUME NEW i \in Nat, NEW j \in Nat, ofs <= j, j < first, j <= i, i < m
        PROVE  mem'[panel][<<i - shift, j - shift>>] = mem[panel][<<i - shift, j - shift>>]
    <3>1. j < n /\ j < ofs + nb /\ ~ (first <= j /\ j < first + cblkn)
      BY <1>2, <2>1
    <3> QED BY <1>3, <2>1, <3>1
  <2> QED BY <1>4, <2>1, SameFinished
<1>7. Updates(mem'[panel], m, Sound, shift, first + cblkn, ofs + in, first)
  <2>1. ASSUME NEW i \in Nat, NEW j \in Nat, first + cblkn <= j, j < ofs + in, j <= i, i < m
        PROVE  mem'[panel][<<i - shift, j - shift>>] = mem[panel][<<i - shift, j - shift>>]
    <3>1. j < n /\ j < ofs + nb /\ ofs <= j /\ ~ (first <= j /\ j < first + cblkn)
      BY <1>2, <2>1
    <3> QED BY <1>3, <2>1, <3>1
  <2> QED BY <1>4, <2>1, SameUpdates
<1>8. ASSUME NEW i \in Nat, NEW j \in Nat, j <= i, i < m, j < n, j < ofs \/ ofs + nb <= j
      PROVE  mem'[whole][<<i - 0, j - 0>>] = mem[whole][<<i - 0, j - 0>>]
  <2>1. CASE panel = whole
    <3>1. shift = 0 /\ panel # "d_a_tmp"
      BY <1>2, <2>1 DEF ShiftOf
    <3>2. ~ (first <= j /\ j < first + cblkn)
      BY <1>2, <1>8
    <3> QED BY <1>3, <1>8, <2>1, <3>1, <3>2
  <2>2. CASE panel # whole
    BY <1>2, <1>3, <2>2
  <2> QED BY <2>1, <2>2
<1>9. Finished(mem'[whole], m, Sound, 0, 0, ofs)
  <2>1. ASSUME NEW i \in Nat, NEW j \in Nat, j < ofs, j <= i, i < m
        PROVE  mem'[whole][<<i - 0, j - 0>>] = mem[whole][<<i - 0, j - 0>>]
    <3>1. j < n
      BY <1>2, <2>1
    <3> QED BY <1>8, <2>1, <3>1
  <2>2. Finished(mem[whole], m, Sound, 0, 0, ofs)
    BY <1>2
  <2> QED BY <2>1, <2>2, SameFinished
<1>10. Updates(mem'[whole], m, Sound, 0, ofs + nb, n, 0)
  <2>1. ASSUME NEW i \in Nat, NEW j \in Nat, ofs + nb <= j, j < n, j <= i, i < m
        PROVE  mem'[whole][<<i - 0, j - 0>>] = mem[whole][<<i - 0, j - 0>>]
    BY <1>8, <2>1
  <2> QED BY <1>2, <2>1, SameUpdates
<1>11. ASSUME first < Sound
       PROVE  KernelData' /\ ThreadsInv'
  <2>1. KernelData /\ ThreadsInv /\ Running
    BY <1>1, <1>4, <1>11 DEF Running
  <2>2. ThreadsInv'
    BY <2>1, ThreadsStep
  <2>3. mem'["d_d"] = mem["d_d"] /\ DOMAIN mem' = DOMAIN mem /\ DOMAIN mem'[launch.buf] = DOMAIN mem[launch.buf]
    <3>1. launch.buf = panel
      BY <1>4 DEF Launched
    <3>2. Extent(job, panel)' = Extent(job, panel)
      BY <1>1, <1>5 DEF Extent
    <3>3. \A b \in Buffer : DOMAIN mem'[b] = Extent(job', b)
      BY <1>3 DEF MemoryDomains, Buffer
    <3> QED BY <1>1, <1>2, <1>3, <3>1, <3>2, <3>3 DEF MemoryDomains, Buffer
  <2>4. KernelData'
    <3>1. Block' = Block /\ \A q : Positive(q)' <=> Positive(q)
      BY <1>1 DEF Block, Positive
    <3>2. \A b, t : (InRows(b, t)' <=> InRows(b, t)) /\ RowPlace(b, t)' = RowPlace(b, t)
      BY <1>1 DEF InRows, RowPlace
    <3> QED BY <1>1, <2>1, <2>3, <3>1, <3>2 DEF KernelData
  <2> QED BY <2>2, <2>4
<1>12. FactorInv'
  <2>1. /\ Finished(mem'[panel'], m', Sound', shift', ofs', first')
        /\ Updates(mem'[panel'], m', Sound', shift', first' + cblkn', ofs' + in', first')
    BY <1>5, <1>6, <1>7
  <2>2. launch' = Launched' /\ (first' < Sound' => KernelData' /\ ThreadsInv')
    BY <1>1, <1>4, <1>5, <1>11
  <2> QED BY <1>1, <2>1, <2>2 DEF FactorInv
<1> QED BY <1>1, <1>3, <1>9, <1>10, <1>12, FactorStays

(* When the kernel has ended, its columns are finished too. *)
LEMMA BlockFinished ==
  ASSUME PositionInv, KernelInv, MemoryInv, Does("factor"), stage = "run", Over
  PROVE  Finished(mem[panel], m, Sound, shift, ofs, first + cblkn)
<1>1. /\ m \in Nat /\ ofs \in Nat /\ first \in Nat /\ cblkn \in 1..ib /\ cblkm = m - first /\ shift \in Nat
      /\ Sound \in Nat
      /\ FactorInv
  BY FactorFacts
<1>2. /\ Finished(mem[panel], m, Sound, shift, ofs, first)
      /\ launch = Launched
      /\ first < Sound => KernelData /\ ThreadsInv
  BY <1>1 DEF FactorInv
<1>3. launch.m = cblkm /\ launch.n = cblkn /\ launch.buf = panel /\ launch.row = origin + iofs
      /\ launch.col = origin + iofs /\ launch.first = first
  BY <1>2 DEF Launched
<1> SUFFICES ASSUME NEW i \in Nat, NEW j \in Nat, ofs <= j, j < first + cblkn, j < Sound, j <= i, i < m
             PROVE  mem[panel][<<i - shift, j - shift>>] = Entry(i, j, j + 1)
  BY DEF Finished
<1>4. CASE j < first
  BY <1>2, <1>4 DEF Finished
<1>5. CASE first <= j
  <2> DEFINE r == i - first
             c == j - first
  <2>1. /\ r \in Nat /\ c \in Nat /\ r < cblkm /\ c < cblkn /\ c <= r /\ first < Sound
        /\ first + r = i /\ first + c = j
    BY <1>1, <1>5
  <2> HIDE DEF r, c
  <2>2. mem[panel][<<origin + iofs + r, origin + iofs + c>>] = Entry(first + r, first + c, first + c + 1)
    <3>1. KernelData /\ ThreadsInv /\ Running
      BY <1>2, <2>1 DEF Running
    <3>2. mem[launch.buf][<<launch.row + r, launch.col + c>>] = Entry(launch.first + r, launch.first + c, launch.first + c + 1)
      BY <1>3, <2>1, <3>1, KernelResult
    <3> QED BY <1>3, <3>2
  <2>3. <<origin + iofs + r, origin + iofs + c>> = <<(first + r) - shift, (first + c) - shift>>
    BY <2>1, BlockPlace
  <2> QED BY <2>1, <2>2, <2>3
<1> QED BY <1>1, <1>4, <1>5

(* A product follows exactly when a block column follows. *)
LEMMA ColumnsLeft ==
  ASSUME PositionInv, kk < nc
  PROVE  /\ iofst = iofs + ib /\ tblkn = in - iofs - ib /\ tblkm = updm - iofs - ib
         /\ k + 1 < inc <=> tblkn > 0
         /\ tblkn > 0 => cblkn = ib
         /\ ~ (tblkn > 0) => cblkn = in - iofs
<1>1. /\ job \in Jobs /\ kk \in Nat /\ k \in Nat /\ ib \in Nat \ {0} /\ in \in Nat \ {0} /\ iofs \in Nat
      /\ updm \in Nat
  <2>1. job \in Jobs /\ kk \in Nat /\ k \in Nat
    BY DEF PositionInv
  <2>2. in \in 1..nb /\ nb \in Nat /\ updm \in Nat /\ ib \in Nat \ {0}
    BY <2>1, OuterLoop, JobFacts
  <2> QED BY <2>1, <2>2, InnerLoop
<1>2. iofst = iofs + ib
  BY <1>1, TimesOrder DEF iofst, iofs
<1>3. tblkn = in - iofs - ib /\ tblkm = updm - iofs - ib
  BY <1>1, <1>2 DEF tblkn, tblkm
<1>4. k + 1 < inc => tblkn > 0
  <2> SUFFICES ASSUME k + 1 < inc
               PROVE  tblkn > 0
    OBVIOUS
  <2> DEFINE c == k + 1
  <2>1. c \in Nat /\ c < (in - 1) \div ib + 1
    BY <1>1 DEF inc
  <2> HIDE DEF c
  <2>2. c * ib < in
    BY <1>1, <2>1, Chunks
  <2>3. iofst < in
    BY <2>2 DEF c, iofst
  <2> QED BY <1>1, <1>2, <1>3, <2>3
<1>5. tblkn > 0 => k + 1 < inc
  <2> SUFFICES ASSUME tblkn > 0, inc <= k + 1
               PROVE  FALSE
    <3>1. inc \in Nat
      BY <1>1, OuterLoop DEF PositionInv
    <3> QED BY <1>1, <3>1
  <2> DEFINE a == in - 1
             q == a \div ib
  <2>1. a \in Nat
    BY <1>1
  <2>2. q \in Nat /\ a < ib * q + ib
    <3> HIDE DEF a
    <3> QED BY <1>1, <2>1, BlockOf
  <2>3. inc = q + 1
    BY DEF inc
  <2> HIDE DEF q
  <2>4. q <= k
    BY <1>1, <2>2, <2>3
  <2>5. q * ib <= k * ib /\ q * ib = ib * q /\ q * ib \in Int
    BY <1>1, <2>2, <2>4, TimesOrder, TimesSwap
  <2> DEFINE x == q * ib
  <2>6. x <= iofs /\ a < x + ib /\ x \in Int
    BY <2>2, <2>5 DEF iofs
  <2> HIDE DEF x
  <2> QED BY <1>1, <1>3, <2>6
<1>6. /\ tblkn > 0 => cblkn = ib
      /\ ~ (tblkn > 0) => cblkn = in - iofs
  BY <1>1, <1>3 DEF cblkn
<1> QED BY <1>2, <1>3, <1>4, <1>5, <1>6

(* The product after the kernel. *)
LEMMA InnerProduct ==
  ASSUME PositionInv, KernelInv, MemoryInv, UpdateInner, tblkn > 0
  PROVE  /\ MemoryDomains'
         /\ \A b \in Buffer : b # panel => mem'[b] = mem[b]
         /\ \A i, j \in Nat :
              /\ j <= i /\ i < m /\ j < n
              /\ panel = "d_a_tmp" => ofs <= j /\ j < ofs + nb
              /\ ~ (first + ib <= j /\ j < ofs + in)
              => mem'[panel][<<i - shift, j - shift>>] = mem[panel][<<i - shift, j - shift>>]
         /\ Updates(mem'[panel], m, Sound, shift, first + ib, ofs + in, first + ib)
<1>1. Does("factor") /\ stage = "run" /\ stage # "returned" /\ Over /\ job' = job
  BY DEF UpdateInner, Idle
<1>2. /\ job \in Jobs /\ kk \in Nat /\ kk < nc /\ MemoryDomains /\ m \in Nat /\ n \in Nat /\ nb \in Nat
      /\ ib \in Nat \ {0} /\ ofs \in Nat /\ in \in Nat /\ in <= nb /\ in <= n - ofs /\ updm = m - ofs
      /\ iofs \in Nat /\ first = ofs + iofs /\ first \in Nat /\ origin \in Nat /\ n <= m
      /\ panel \in {whole, "d_a_tmp"} /\ whole # "d_a_tmp" /\ shift \in Nat /\ shift = ShiftOf(panel)
      /\ origin + iofs = first - shift /\ Sound \in Nat
      /\ FactorInv
  BY <1>1, FactorFacts
<1>3. /\ iofst = iofs + ib /\ tblkn = in - iofs - ib /\ tblkm = updm - iofs - ib /\ cblkn = ib
  BY <1>2, ColumnsLeft
<1> DEFINE O == first + ib
           o == origin + iofst
<1>4. /\ O \in Nat /\ O + tblkn = ofs + in /\ O + tblkm = m /\ o = O - shift /\ o \in Int
      /\ tblkn \in Int /\ tblkm \in Int /\ ofs <= first /\ first < O
  BY <1>2, <1>3
<1>5. /\ Finished(mem[panel], m, Sound, shift, ofs, O)
      /\ Updates(mem[panel], m, Sound, shift, O, ofs + in, first)
  BY <1>1, <1>2, <1>3, BlockFinished DEF FactorInv
<1> DEFINE u(p) == [q \in 0..(ib - 1) |-> mem[panel][<<o + p[1], origin + iofs + q>>]]
           v(p) == [q \in 0..(ib - 1) |-> mem[panel][<<o + p[2], origin + iofs + q>>]]
           new == [p \in Part(tblkm, tblkn) |->
                     Subtracted(mem[panel][<<o + p[1], o + p[2]>>], u(p), v(p), ib)]
<1>6. mem' = Put(panel, o, o, new) /\ DOMAIN new = Part(tblkm, tblkn)
  BY DEF UpdateInner
<1>7. ASSUME NEW i \in Nat, NEW j \in Nat, O <= j, j < ofs + in, j < Sound, j <= i, i < m
      PROVE  new[<<i - O, j - O>>] = Entry(i, j, O)
  <2> DEFINE p == <<i - O, j - O>>
  <2>1. p \in Part(tblkm, tblkn) /\ o + p[1] = i - shift /\ o + p[2] = j - shift
    <3> HIDE DEF O, o
    <3>1. 0 <= i - O /\ i - O < tblkm /\ 0 <= j - O /\ j - O < tblkn /\ i - O \in Int /\ j - O \in Int
      BY <1>2, <1>4, <1>7
    <3>2. <<i - O, j - O>> \in Part(tblkm, tblkn)
      BY <1>4, <3>1, InPart
    <3>3. o + (i - O) = i - shift /\ o + (j - O) = j - shift
      BY <1>2, <1>4
    <3> QED BY <3>2, <3>3
  <2>2. new[p] = Subtracted(mem[panel][<<i - shift, j - shift>>], u(p), v(p), ib)
    BY <2>1
  <2>3. mem[panel][<<i - shift, j - shift>>] = Entry(i, j, first)
    BY <1>5, <1>7 DEF Updates
  <2>4. \A q \in 0..(ib - 1) : /\ u(p)[q] = Entry(i, first + q, first + q + 1)
                               /\ v(p)[q] = Entry(j, first + q, first + q + 1)
    <3> SUFFICES ASSUME NEW q \in 0..(ib - 1)
                 PROVE  /\ u(p)[q] = Entry(i, first + q, first + q + 1)
                        /\ v(p)[q] = Entry(j, first + q, first + q + 1)
      OBVIOUS
    <3> DEFINE c == first + q
    <3>1. u(p)[q] = mem[panel][<<i - shift, origin + iofs + q>>] /\ v(p)[q] = mem[panel][<<j - shift, origin + iofs + q>>]
      BY <2>1
    <3>2. origin + iofs + q = c - shift
      BY <1>2
    <3>3. c \in Nat /\ ofs <= c /\ c < O /\ c < Sound /\ c <= i /\ c <= j /\ j < m
      BY <1>2, <1>4, <1>7
    <3> HIDE DEF c, O
    <3>4. mem[panel][<<i - shift, c - shift>>] = Entry(i, c, c + 1) /\ mem[panel][<<j - shift, c - shift>>] = Entry(j, c, c + 1)
      BY <1>5, <1>7, <3>3 DEF Finished
    <3>5. u(p)[q] = Entry(i, c, c + 1) /\ v(p)[q] = Entry(j, c, c + 1)
      BY <3>1, <3>2, <3>4
    <3> QED BY <3>5 DEF c
  <2> DEFINE a == u(p)
             b == v(p)
  <2>5. \A q \in 0..(ib - 1) : a[q] = Entry(i, first + q, first + q + 1) /\ b[q] = Entry(j, first + q, first + q + 1)
    BY <2>4
  <2>6. new[p] = Subtracted(Entry(i, j, first), a, b, ib)
    BY <2>2, <2>3
  <2> HIDE DEF a, b, new, p, u, v
  <2> DEFINE s == first
             w == ib
  <2>7. /\ s \in Nat /\ w \in Nat
        /\ \A q \in 0..(w - 1) : a[q] = Entry(i, s + q, s + q + 1) /\ b[q] = Entry(j, s + q, s + q + 1)
    BY <1>2, <2>5
  <2> HIDE DEF s, w
  <2>8. Subtracted(Entry(i, j, s), a, b, w) = Entry(i, j, s + w)
    <3>1. FactorRow(a, i, s, w) /\ FactorRow(b, j, s, w)
      BY <2>7 DEF FactorRow
    <3> QED BY <2>7, <3>1, SubtractedIs
  <2> QED BY <2>6, <2>8 DEF p, s, w, O
<1> HIDE DEF new, O, o
<1> DEFINE buf == panel
<1>11. /\ buf \in {whole, "d_a_tmp"} /\ o = O - ShiftOf(buf) /\ mem' = Put(buf, o, o, new)
       /\ buf = "d_a_tmp" => panel = "d_a_tmp"
  BY <1>2, <1>4, <1>6
<1> HIDE DEF buf
<1>12. /\ MemoryDomains'
       /\ \A b \in Buffer : b # buf => mem'[b] = mem[b]
       /\ \A i, j \in Nat :
           /\ j <= i /\ i < m /\ j < n
           /\ buf = "d_a_tmp" => ofs <= j /\ j < ofs + nb
           => LET sh == ShiftOf(buf) IN
              /\ O <= i /\ i < O + tblkm /\ O <= j /\ j < O + tblkn =>
                   mem'[buf][<<i - sh, j - sh>>] = new[<<i - O, j - O>>]
              /\ ~ (O <= j /\ j < O + tblkn) =>
                   mem'[buf][<<i - sh, j - sh>>] = mem[buf][<<i - sh, j - sh>>]
  BY <1>1, <1>2, <1>4, <1>6, <1>11, PutColumns
<1>8. /\ MemoryDomains'
      /\ \A b \in Buffer : b # panel => mem'[b] = mem[b]
      /\ \A i, j \in Nat :
          /\ j <= i /\ i < m /\ j < n
          /\ panel = "d_a_tmp" => ofs <= j /\ j < ofs + nb
          => LET sh == ShiftOf(panel) IN
             /\ O <= i /\ i < O + tblkm /\ O <= j /\ j < O + tblkn =>
                  mem'[panel][<<i - sh, j - sh>>] = new[<<i - O, j - O>>]
             /\ ~ (O <= j /\ j < O + tblkn) =>
                  mem'[panel][<<i - sh, j - sh>>] = mem[panel][<<i - sh, j - sh>>]
  BY <1>12 DEF buf
<1>9. Updates(mem'[panel], m, Sound, shift, O, ofs + in, O)
  <2> SUFFICES ASSUME NEW i \in Nat, NEW j \in Nat, O <= j, j < ofs + in, j < Sound, j <= i, i < m
               PROVE  mem'[panel][<<i - shift, j - shift>>] = Entry(i, j, O)
    BY DEF Updates
  <2>1. j < n /\ ofs <= j /\ j < ofs + nb /\ O <= i /\ i < O + tblkm /\ j < O + tblkn
    BY <1>2, <1>4
  <2>2. mem'[panel][<<i - shift, j - shift>>] = new[<<i - O, j - O>>]
    BY <1>2, <1>8, <2>1
  <2> QED BY <1>7, <2>2
<1>10. \A i, j \in Nat :
              /\ j <= i /\ i < m /\ j < n
              /\ panel = "d_a_tmp" => ofs <= j /\ j < ofs + nb
              /\ ~ (O <= j /\ j < ofs + in)
              => mem'[panel][<<i - shift, j - shift>>] = mem[panel][<<i - shift, j - shift>>]
  <2> SUFFICES ASSUME NEW i \in Nat, NEW j \in Nat, j <= i, i < m, j < n,
                      panel = "d_a_tmp" => ofs <= j /\ j < ofs + nb,
                      ~ (O <= j /\ j < ofs + in)
               PROVE  mem'[panel][<<i - shift, j - shift>>] = mem[panel][<<i - shift, j - shift>>]
    OBVIOUS
  <2>1. ~ (O <= j /\ j < O + tblkn)
    BY <1>4
  <2>2. shift = ShiftOf(panel)
    BY <1>2
  <2> QED BY <1>8, <2>1, <2>2
<1> QED BY <1>8, <1>9, <1>10 DEF O

LEMMA UpdateInnerStep ==
  ASSUME PositionInv, KernelInv, MemoryInv, UpdateInner
  PROVE  MemoryInv'
<1>1. /\ Does("factor") /\ stage = "run" /\ stage # "returned" /\ Over
      /\ job' = job /\ indefinite' = indefinite
      /\ tblkn > 0 => /\ k' = k + 1 /\ stage' = "copy" /\ kk' = kk /\ step' = step
      /\ ~ (tblkn > 0) => mem' = mem /\ NextStep
  <2>1. Does("factor") /\ stage = "run" /\ Over
    BY DEF UpdateInner
  <2>2. k + 1 < inc <=> tblkn > 0
    BY <2>1, ColumnsLeft DEF Does
  <2> QED BY <2>1, <2>2 DEF UpdateInner, Idle
<1>2. /\ job \in Jobs /\ kk \in Nat /\ kk < nc /\ step \in 1..Len(steps) /\ step # 0 /\ steps[step] = "factor"
      /\ indefinite \in SUBSET Nat /\ MemoryDomains /\ m \in Nat /\ n \in Nat /\ nb \in Nat /\ n <= m
      /\ ib \in Nat \ {0} /\ ofs \in Nat /\ in \in Nat /\ in <= nb /\ in <= n - ofs
      /\ iofs \in Nat /\ first = ofs + iofs /\ first \in Nat /\ k \in Nat
      /\ panel \in {whole, "d_a_tmp"} /\ whole \in Buffer /\ whole # "d_a_tmp" /\ shift = ShiftOf(panel)
      /\ Finished(mem[whole], m, Sound, 0, 0, ofs)
      /\ Updates(mem[whole], m, Sound, 0, ofs + nb, n, 0)
      /\ FactorInv
  BY <1>1, FactorFacts
<1>3. Finished(mem[panel], m, Sound, shift, ofs, first + cblkn)
  BY <1>1, BlockFinished
<1>4. CASE tblkn > 0
  <2> DEFINE O == first + ib
  <2>1. /\ iofst = iofs + ib /\ cblkn = ib /\ tblkn = in - iofs - ib
    BY <1>2, <1>4, ColumnsLeft
  <2>2. O \in Nat /\ O = ofs + iofst /\ O < ofs + in /\ ofs <= O /\ iofst \in Nat
    BY <1>2, <1>4, <2>1
  <2>3. /\ MemoryDomains'
        /\ \A b \in Buffer : b # panel => mem'[b] = mem[b]
        /\ \A i, j \in Nat :
             /\ j <= i /\ i < m /\ j < n
             /\ panel = "d_a_tmp" => ofs <= j /\ j < ofs + nb
             /\ ~ (O <= j /\ j < ofs + in)
             => mem'[panel][<<i - shift, j - shift>>] = mem[panel][<<i - shift, j - shift>>]
        /\ Updates(mem'[panel], m, Sound, shift, O, ofs + in, O)
    BY <1>4, InnerProduct
  <2>4. Finished(mem[panel], m, Sound, shift, ofs, O)
    BY <1>3, <2>1
  <2> HIDE DEF O
  <2>5. Finished(mem'[panel], m, Sound, shift, ofs, O)
    <3>1. ASSUME NEW i \in Nat, NEW j \in Nat, ofs <= j, j < O, j <= i, i < m
          PROVE  mem'[panel][<<i - shift, j - shift>>] = mem[panel][<<i - shift, j - shift>>]
      <4>1. j < n /\ j < ofs + nb /\ ~ (O <= j /\ j < ofs + in)
        BY <1>2, <2>2, <3>1
      <4> QED BY <2>3, <3>1, <4>1
    <3> QED BY <2>4, <3>1, SameFinished
  <2>6. ASSUME NEW i \in Nat, NEW j \in Nat, j <= i, i < m, j < n, j < ofs \/ ofs + nb <= j
        PROVE  mem'[whole][<<i - 0, j - 0>>] = mem[whole][<<i - 0, j - 0>>]
    <3>1. CASE panel = whole
      <4>1. shift = 0 /\ panel # "d_a_tmp"
        BY <1>2, <3>1 DEF ShiftOf
      <4>2. ~ (O <= j /\ j < ofs + in)
        BY <1>2, <2>2, <2>6
      <4> QED BY <2>3, <2>6, <3>1, <4>1, <4>2
    <3>2. CASE panel # whole
      BY <1>2, <2>3, <3>2
    <3> QED BY <3>1, <3>2
  <2>7. Finished(mem'[whole], m, Sound, 0, 0, ofs)
    <3>1. ASSUME NEW i \in Nat, NEW j \in Nat, j < ofs, j <= i, i < m
          PROVE  mem'[whole][<<i - 0, j - 0>>] = mem[whole][<<i - 0, j - 0>>]
      <4>1. j < n
        BY <1>2, <3>1
      <4> QED BY <2>6, <3>1, <4>1
    <3>2. Finished(mem[whole], m, Sound, 0, 0, ofs)
      BY <1>2
    <3> QED BY <3>1, <3>2, SameFinished
  <2>8. Updates(mem'[whole], m, Sound, 0, ofs + nb, n, 0)
    <3>1. ASSUME NEW i \in Nat, NEW j \in Nat, ofs + nb <= j, j < n, j <= i, i < m
          PROVE  mem'[whole][<<i - 0, j - 0>>] = mem[whole][<<i - 0, j - 0>>]
      BY <2>6, <3>1
    <3>2. Updates(mem[whole], m, Sound, 0, ofs + nb, n, 0)
      BY <1>2
    <3> QED BY <3>1, <3>2, SameUpdates
  <2>9. /\ m' = m /\ Sound' = Sound /\ panel' = panel /\ shift' = shift /\ ofs' = ofs /\ in' = in /\ ib' = ib
    BY <1>1, <1>4, SameJob, SameColumn
  <2>10. first' = O
    <3>1. iofs' = iofst
      BY <1>1, <1>4, <2>9 DEF iofs, iofst
    <3> QED BY <2>2, <2>9, <3>1 DEF first
  <2>11. cblkn' \in Nat /\ O + cblkn' <= ofs + in
    <3>1. iofs' = iofst
      BY <1>1, <1>4, <2>9 DEF iofs, iofst
    <3>2. cblkn' = IF in - iofst < ib THEN in - iofst ELSE ib
      BY <2>9, <3>1 DEF cblkn
    <3> QED BY <1>2, <2>2, <3>2
  <2>12. FactorInv'
    <3> DEFINE w == cblkn'
    <3>1. w \in Nat /\ O + w <= ofs + in
      BY <2>11
    <3> HIDE DEF w
    <3>2. Updates(mem'[panel], m, Sound, shift, O + w, ofs + in, O)
      <4>1. \A j \in Nat : O + w <= j => O <= j
        BY <2>2, <3>1
      <4> QED BY <2>3, <4>1, SameUpdates
    <3>3. Updates(mem'[panel], m, Sound, shift, O, O + w, O)
      <4>1. \A j \in Nat : j < O + w => j < ofs + in
        BY <1>2, <2>2, <3>1
      <4> QED BY <2>3, <4>1, SameUpdates
    <3>4. /\ Finished(mem'[panel'], m', Sound', shift', ofs', first')
          /\ Updates(mem'[panel'], m', Sound', shift', first' + cblkn', ofs' + in', first')
          /\ Updates(mem'[panel'], m', Sound', shift', first', first' + cblkn', first')
      BY <2>5, <2>9, <2>10, <3>2, <3>3 DEF w
    <3> QED BY <1>1, <1>4, <3>4 DEF FactorInv
  <2> QED BY <1>1, <1>4, <2>3, <2>7, <2>8, <2>12, FactorStays
<1>5. CASE ~ (tblkn > 0)
  <2>1. mem' = mem /\ NextStep /\ MemoryDomains'
    BY <1>1, <1>2, <1>5 DEF MemoryDomains, Extent
  <2>2. Finished(mem[panel], m, Sound, shift, ofs, ofs + in)
    <3>1. cblkn = in - iofs
      BY <1>2, <1>5, ColumnsLeft
    <3>2. first + cblkn = ofs + in
      BY <1>2, <3>1
    <3> QED BY <1>3, <3>2
  <2>3. CASE panel = "d_a_tmp"
    <3>1. step < Len(steps) /\ steps[step + 1] = "give"
      BY <1>2, <2>3, StepsFollow
    <3> QED BY <1>1, <1>2, <2>1, <2>2, <3>1, StayColumn
  <2>4. CASE panel # "d_a_tmp"
    <3>1. step = Len(steps) /\ panel = whole /\ shift = 0
      BY <1>2, <2>4, StepsFollow DEF ShiftOf
    <3>2. Finished(mem[whole], m, Sound, 0, 0, ofs + in)
      <4> SUFFICES ASSUME NEW i \in Nat, NEW j \in Nat, j < ofs + in, j < Sound, j <= i, i < m
                   PROVE  mem[whole][<<i - 0, j - 0>>] = Entry(i, j, j + 1)
        BY DEF Finished
      <4>1. CASE j < ofs
        BY <1>2, <4>1 DEF Finished
      <4>2. CASE ofs <= j
        BY <2>2, <3>1, <4>2 DEF Finished
      <4> QED BY <1>2, <4>1, <4>2
    <3> QED BY <1>1, <1>2, <2>1, <3>1, <3>2, NextColumn
  <2> QED BY <2>3, <2>4
<1> QED BY <1>4, <1>5

LEMMA ConvertBackStep ==
  ASSUME PositionInv, MemoryInv, ConvertBack
  PROVE  MemoryInv'
<1>1. /\ kk = nc /\ kk' = kk /\ step' = step /\ k' = k /\ stage # "returned" /\ stage' = "returned"
      /\ job' = job /\ indefinite' = indefinite /\ job \in Jobs /\ kk \in Nat
      /\ indefinite \in SUBSET Nat /\ MemoryDomains
  BY DEF ConvertBack, Idle, PositionInv, MemoryInv
<1>2. /\ m \in Nat \ {0} /\ n \in Nat \ {0} /\ nb \in Nat \ {0} /\ n <= m /\ Sound \in Nat /\ Sound <= n
      /\ nc \in Nat \ {0} /\ ofs \in Nat
  BY <1>1, JobFacts, SoundColumns, OuterLoop
<1>3. step # 0
  BY <1>1, <1>2 DEF PositionInv
<1>4. n <= ofs
  <2> DEFINE a == n - 1
             q == a \div nb
  <2>1. a \in Nat
    BY <1>2
  <2>2. q \in Nat /\ a < nb * q + nb
    <3> HIDE DEF a
    <3> QED BY <1>2, <2>1, BlockOf
  <2>3. ofs = (q + 1) * nb
    BY <1>1 DEF ofs, nc
  <2> HIDE DEF q
  <2>4. (q + 1) * nb = q * nb + nb /\ q * nb = nb * q /\ q * nb \in Int
    BY <1>2, <2>2, TimesOrder, TimesSwap
  <2> DEFINE x == q * nb
  <2>5. ofs = x + nb /\ a < x + nb /\ x \in Int
    BY <2>2, <2>3, <2>4
  <2> HIDE DEF x
  <2> QED BY <1>2, <2>5
<1>5. Finished(mem[whole], m, Sound, 0, 0, n)
  <2>1. Finished(mem[whole], m, Sound, 0, 0, ofs)
    BY <1>1, <1>3 DEF MemoryInv
  <2>2. \A j \in Nat : j < n => j < ofs
    BY <1>2, <1>4
  <2> QED BY <2>1, <2>2, SameFinished
<1>6. whole \in {"d_a", "d_a_hp"} /\ Extent(job, "d_a") = Part(m, n) /\ Extent(job, whole) = Part(m, n)
  BY <1>1, Buffers
<1>7. MemoryDomains' /\ Finished(mem'["d_a"], m, Sound, 0, 0, n)
  <2>1. CASE whole = "d_a"
    <3>1. mem' = mem
      BY <2>1 DEF ConvertBack, InHalf
    <3>2. MemoryDomains'
      BY <1>1, <3>1 DEF MemoryDomains, Extent
    <3> QED BY <1>5, <2>1, <3>1, <3>2
  <2>2. CASE whole # "d_a"
    <3> DEFINE new == [p \in Converted(m, n) |-> mem["d_a_hp"][p]]
               z == 0
               buf == "d_a"
    <3>1. mem' = Put(buf, z, z, new) /\ buf \in Buffer /\ whole = "d_a_hp" /\ z \in Int
      BY <1>6, <2>2 DEF ConvertBack, InHalf, Buffer
    <3>2. DOMAIN new = Part(m, n) /\ \A p \in Part(m, n) : new[p] = mem["d_a_hp"][p]
      BY <1>1, Conversion
    <3>3. Extent(job, buf) = Part(m, n)
      BY <1>6
    <3> HIDE DEF new, z, buf
    <3>4. /\ MemoryDomains'
          /\ \A p \in Part(m, n) : <<p[1] - z, p[2] - z>> \in DOMAIN new => mem'[buf][p] = new[<<p[1] - z, p[2] - z>>]
      BY <1>1, <3>1, <3>3, PutAt
    <3>5. Finished(mem'[buf], m, Sound, 0, 0, n)
      <4> SUFFICES ASSUME NEW i \in Nat, NEW j \in Nat, j < n, j < Sound, j <= i, i < m
                   PROVE  mem'[buf][<<i - 0, j - 0>>] = Entry(i, j, j + 1)
        BY DEF Finished
      <4> DEFINE p == <<i, j>>
      <4>1. p \in Part(m, n) /\ <<p[1] - z, p[2] - z>> = p /\ p = <<i - 0, j - 0>>
        BY <1>2, InPart DEF z
      <4> HIDE DEF p
      <4>2. mem'[buf][p] = mem["d_a_hp"][p]
        BY <3>2, <3>4, <4>1
      <4>3. mem["d_a_hp"][<<i - 0, j - 0>>] = Entry(i, j, j + 1)
        BY <1>5, <3>1 DEF Finished
      <4> QED BY <4>1, <4>2, <4>3
    <3> QED BY <3>4, <3>5 DEF buf
  <2> QED BY <2>1, <2>2
<1>8. m' = m /\ n' = n /\ nc' = nc /\ Sound' = Sound
  BY <1>1, SameJob
<1> QED BY <1>1, <1>3, <1>7, <1>8 DEF MemoryInv

LEMMA MemoryNext == PositionInv /\ KernelInv /\ MemoryInv /\ [Next]_vars => MemoryInv'
<1> SUFFICES ASSUME PositionInv, KernelInv, MemoryInv, [Next]_vars
             PROVE  MemoryInv'
  OBVIOUS
<1>1. CASE ConvertMatrix
  BY <1>1, ConvertMatrixStep
<1>2. CASE UpdateOuter
  BY <1>2, UpdateOuterStep
<1>3. CASE TakePanel
  BY <1>3, TakePanelStep
<1>4. CASE GivePanel
  BY <1>4, GivePanelStep
<1>5. CASE CopyDiagonal
  BY <1>5, CopyDiagonalStep
<1>6. CASE factor_bcol
  BY <1>6, LaunchStep
<1>7. CASE dev_llt_bcol
  BY <1>7, KernelMemoryStep
<1>8. CASE UpdateInner
  BY <1>8, UpdateInnerStep
<1>9. CASE ConvertBack
  BY <1>9, ConvertBackStep
<1>10. CASE Return \/ UNCHANGED vars
  <2>1. UNCHANGED vars
    BY <1>10 DEF Return
  <2>2. /\ job' = job /\ indefinite' = indefinite /\ kk' = kk /\ step' = step /\ k' = k /\ stage' = stage
        /\ mem' = mem /\ launch' = launch /\ done' = done /\ swork' = swork /\ d11' = d11
    BY <2>1 DEF vars
  <2>3. /\ m' = m /\ n' = n /\ nb' = nb /\ nc' = nc /\ Sound' = Sound
        /\ whole' = whole /\ panel' = panel /\ steps' = steps /\ UpdateTo' = UpdateTo
        /\ ofs' = ofs /\ in' = in /\ shift' = shift /\ updateOrigin' = updateOrigin
        /\ first' = first /\ cblkn' = cblkn /\ Launched' = Launched
    BY <2>2, SameJob, SameColumn
  <2>4. \A op : Does(op)' <=> Does(op)
    BY <2>2, <2>3 DEF Does
  <2>5. MemoryDomains' <=> MemoryDomains
    BY <2>2 DEF MemoryDomains, Extent
  <2>6. (KernelData' <=> KernelData) /\ (ThreadsInv' <=> ThreadsInv)
    <3>1. Block' = Block /\ LastPhase' = LastPhase
      BY <2>2 DEF Block, LastPhase
    <3>2. KernelData' <=> KernelData
      BY <2>2, <3>1 DEF KernelData, Positive, InRows, RowPlace
    <3>3. (InStep' <=> InStep) /\ (PivotsHold' <=> PivotsHold)
      BY <2>2, <3>1 DEF InStep, PivotsHold
    <3>4. RowsHold' <=> RowsHold
      BY <2>2, <3>1 DEF RowsHold, InRows, RowPlace, MatrixRow, MatrixColumn
    <3>5. SharedHolds' <=> SharedHolds
      BY <2>2, <3>1 DEF SharedHolds, Meant, RowOf
    <3> QED BY <2>2, <3>1, <3>2, <3>3, <3>4, <3>5 DEF ThreadsInv
  <2>7. FactorInv' <=> FactorInv
    BY <2>2, <2>3, <2>6 DEF FactorInv
  <2> QED BY <2>2, <2>3, <2>4, <2>5, <2>7 DEF MemoryInv
<1> QED BY <1>1, <1>2, <1>3, <1>4, <1>5, <1>6, <1>7, <1>8, <1>9, <1>10 DEF Next

(* When the call returns, the block columns before the first pivot that is  *)
(* not positive hold the factor: every entry has all its updates, each      *)
(* once, and is divided by its pivot, in every variant of factor_ll.        *)
THEOREM GpuFactorComplete == Spec => []FactorComplete
<1>1. Init => MemoryInv
  BY MemoryStart
<1>2. (PositionInv /\ KernelInv) /\ MemoryInv /\ [Next]_vars => MemoryInv'
  BY MemoryNext
<1>3. PositionInv /\ MemoryInv => FactorComplete
  <2> SUFFICES ASSUME PositionInv, MemoryInv, stage = "returned",
                      NEW i \in 0..(m - 1), NEW j \in 0..(Sound - 1), j <= i
               PROVE  Factored(mem["d_a"][<<i, j>>], i, j)
    BY DEF FactorComplete
  <2>1. /\ m \in Nat /\ n \in Nat /\ Sound \in Nat /\ Sound <= n
        /\ Finished(mem["d_a"], m, Sound, 0, 0, n)
    BY JobFacts, SoundColumns DEF PositionInv, MemoryInv
  <2>2. i \in Nat /\ j \in Nat /\ j < n /\ j < Sound /\ i < m /\ i - 0 = i /\ j - 0 = j
    BY <2>1
  <2>3. mem["d_a"][<<i - 0, j - 0>>] = Entry(i, j, j + 1)
    BY <2>1, <2>2 DEF Finished
  <2> QED BY <2>2, <2>3 DEF Factored
<1> QED BY <1>1, <1>2, <1>3, KernelAlways, PTL DEF Spec
=============================================================================
