---------------------------- MODULE AnalysedTree ----------------------------
(***************************************************************************)
(* The assembly tree as the analysis sees it when it chooses the subtrees  *)
(* that are factorized at once: the work of each supernode, the work below *)
(* it, its children and its first descendant, all filled by one pass over  *)
(* the nodes in postorder, and the outcome of the choice: the marks        *)
(* small(:) and the list of subtrees.                                      *)
(***************************************************************************)
EXTENDS Integers, Sequences, FiniteSets, SequencesExt, FiniteSetsExt

CONSTANTS
  Inputs         \* trees and machines the analysis is given

VARIABLES
  tree,          \* the tree, its work and the machine; never changes
  pc,            \* where analyse_core is
  small,         \* small(i): 0 above the subtrees, 1 on a root of one,
                 \* minus the root elsewhere
  subtrees       \* the subtrees recorded so far, in order

treeVars == <<tree, small, subtrees>>

(* A postordered forest, the size of each front, and the workers: the       *)
(* gpus of each NUMA region and the number of CPU workers of the first.     *)
ValidInput(in) ==
  /\ in.n \in Nat \ {0}
  /\ in.parent \in [1..in.n -> 2..(in.n + 1)]
  /\ in.ncol \in [1..in.n -> Nat \ {0}] /\ in.nrow \in [1..in.n -> Nat \ {0}]
  /\ \A i \in 1..in.n :
       /\ in.parent[i] > i
       /\ \A j \in i..(in.parent[i] - 1) : in.parent[j] <= in.parent[i]
       /\ in.ncol[i] <= in.nrow[i]
  /\ in.nth \in Nat \ {0} /\ in.coeff \in Nat \ {0} /\ in.omp \in BOOLEAN
  /\ in.gpus \in Seq(Nat) /\ in.gpus # <<>>

ASSUME InputsAssumption == \A in \in Inputs : ValidInput(in)

Node  == 1..tree.n
VRoot == tree.n + 1

parent(i) == tree.parent[i]

(* A fold whose accumulator op is given as a value, the element of {go[k]}. *)
Fold(op(_, _), base, seq) ==
  LET go[k \in 0..Len(seq)] ==
        IF k = 0 THEN base
        ELSE CHOOSE r \in {op(acc, seq[k]) : acc \in {go[k - 1]}} : TRUE
  IN  go[Len(seq)]

(* The numbers of a finite set, in increasing order.                        *)
InOrder(S) ==
  [k \in 1..Cardinality(S) |-> CHOOSE x \in S : Cardinality({y \in S : y <= x}) = k]

(* The work of eliminating the ncol columns of a front of nrow rows.        *)
compute_flops(in, node) ==
  LET m == in.nrow[node]
      n == in.ncol[node] IN
  MapThenSumSet(LAMBDA jj : jj * jj, (m - n + 1)..m)

(* children, weight and least_desc of every node and of the virtual root.   *)
ChildrenOf(in) ==
  [j \in 1..(in.n + 1) |-> InOrder({i \in 1..in.n : in.parent[i] = j})]

WeightOf(in, child) ==
  LET w[j \in 1..(in.n + 1)] ==
        (IF j > in.n THEN 0 ELSE compute_flops(in, j))
          + MapThenSumSet(LAMBDA c : w[c], ToSet(child[j]))
  IN  w

LeastDescOf(in, child) ==
  LET d[j \in 1..(in.n + 1)] == Min({j} \cup {d[c] : c \in ToSet(child[j])})
  IN  d

TreeInit ==
  /\ \E in \in Inputs :
       LET child == ChildrenOf(in) IN
       tree = [n |-> in.n, parent |-> in.parent, child |-> child,
               weight |-> WeightOf(in, child), least_desc |-> LeastDescOf(in, child),
               nth |-> in.nth, gpus |-> in.gpus, coeff |-> in.coeff,
               min_gpu_work |-> in.min_gpu_work, max_inbalance |-> in.max_inbalance,
               omp |-> in.omp]
  /\ small = [i \in 1..tree.n |-> 0]
  /\ subtrees = <<>>

(* The nodes that are below node r, r included.                             *)
Below(r) == tree.least_desc[r]..r

(* Fault: the marks name the first node of the subtree.                     *)
FlagFirst(marks, first, last) ==
  [i \in DOMAIN marks |-> IF i \in first..(last - 1) THEN -first
                          ELSE IF i = last THEN 1 ELSE marks[i]]

(* The marks of the nodes first..last, a subtree rooted at last.            *)
Flag(marks, first, last) ==
  [i \in DOMAIN marks |-> IF i \in first..(last - 1) THEN -last
                          ELSE IF i = last THEN 1 ELSE marks[i]]

-----------------------------------------------------------------------------
(* Two nodes, neither below the other, with the same work below them.       *)
Tied == \E i, j \in Node : /\ i \notin Below(j) /\ j \notin Below(i)
                           /\ tree.weight[i] = tree.weight[j]

InSubtree(s) == subtrees[s].sa..subtrees[s].en
Holding(i)   == {s \in DOMAIN subtrees : i \in InSubtree(s)}
=============================================================================
