----------------------------- MODULE MCAnalyse -----------------------------
EXTENDS Solve

(* Postordered forests of n fronts.                                         *)
Postordered(n) ==
  {p \in [1..n -> 2..(n + 1)] :
     \A i \in 1..n : p[i] > i /\ \A j \in i..(p[i] - 1) : p[j] <= p[i]}

(* A front of a tree has one more row than columns, a root none.            *)
Rows(p, ncol) == [i \in DOMAIN p |-> IF p[i] > Cardinality(DOMAIN p) THEN ncol[i] ELSE ncol[i] + 1]

(* log2(3)^2 is about 2.51, so three workers stop between 7 and 8 nodes.    *)
TwiceLimit(k) == CASE k = 1 -> 4 [] k = 2 -> 8 [] k = 3 -> 15 [] k = 4 -> 32

Widths == {1, 5, 12}

Machines ==
  {[nth |-> 1, gpus |-> <<0>>,    omp |-> FALSE], [nth |-> 2, gpus |-> <<0>>, omp |-> FALSE],
   [nth |-> 1, gpus |-> <<1>>,    omp |-> FALSE], [nth |-> 4, gpus |-> <<0>>, omp |-> FALSE],
   [nth |-> 2, gpus |-> <<1>>,    omp |-> FALSE],
   [nth |-> 2, gpus |-> <<0, 0>>, omp |-> TRUE],  [nth |-> 2, gpus |-> <<2, 0>>, omp |-> TRUE],
   [nth |-> 1, gpus |-> <<1>>,    omp |-> TRUE]}

Input(p, ncol, m) ==
  [n |-> Cardinality(DOMAIN p), parent |-> p, ncol |-> ncol, nrow |-> Rows(p, ncol),
   nth |-> m.nth, gpus |-> m.gpus, omp |-> m.omp,
   coeff |-> 2, min_gpu_work |-> 100, max_inbalance |-> 120]

Forests(n, machines) ==
  {Input(p, ncol, m) : p \in Postordered(n), ncol \in [1..n -> Widths], m \in machines}

(* All machines up to three fronts, two workers of either build with four.  *)
AllInputs ==
  UNION {Forests(n, Machines) : n \in 1..3} \cup
    Forests(4, {m \in Machines : m.nth = 2 /\ m.gpus[1] = 0})

(* Three trees with the same work. The children of the first and the third  *)
(* are light, those of the second are not, but for one.                     *)
TiedInputs ==
  {[n |-> 10, parent |-> <<2, 11, 8, 8, 8, 8, 8, 11, 10, 11>>,
    ncol |-> <<1, 40, 1, 1, 1, 1, 1, 39, 1, 40>>,
    nrow |-> <<2, 40, 20, 20, 20, 20, 2, 39, 2, 40>>,
    nth |-> nth, gpus |-> <<0>>, omp |-> FALSE,
    coeff |-> 2, min_gpu_work |-> 100, max_inbalance |-> 120] : nth \in {2, 4}}
=============================================================================
