---------------------------- MODULE AssemblyTree ----------------------------
(***************************************************************************)
(* The elimination tree that the factorization goes through                *)
(* (SymbolicTree): the fronts in postorder, the virtual root that closes   *)
(* them, and the roots of the subtrees that one task factorizes.           *)
(***************************************************************************)
EXTENDS Integers, FiniteSets

CONSTANTS
  NFront,        \* fronts 1..NFront in postorder, the roots of subtrees among them
  Parent,        \* Parent[f]: the parent of f, NFront + 1 for a root
  Subtree,       \* the roots of subtrees that are factorized by one task
  NCol,          \* NCol[f]: columns of f, the delayed ones not included
  MaxDelay       \* MaxDelay[f]: bound on the columns front or subtree f delays

Front == 1..NFront
Root  == NFront + 1     \* the virtual root, fronts_[nnodes]

(* Parents come later in the postorder, and a subtree has no child among    *)
(* the fronts.                                                              *)
ASSUME AssemblyTreeAssumption ==
  /\ NFront \in Nat \ {0} /\ MaxDelay \in [Front -> Nat]
  /\ Parent \in [Front -> 2..Root]
  /\ \A f \in Front : Parent[f] > f
  /\ Subtree \subseteq Front
  /\ \A f \in Front : Parent[f] \notin Subtree
  /\ NCol \in [Front -> Nat \ {0}]

ChildrenOf == [f \in 1..Root |-> {c \in Front : Parent[c] = f}]
Children(f) == ChildrenOf[f]

(* What the children of f delay to it, if each front f delays d[f] columns:  *)
(* the sums over the children up to n, and over all of them.                *)
SumUpTo(d) ==
  LET sum[n \in 0..NFront] == IF n = 0 THEN 0 ELSE sum[n - 1] + d[n] IN sum
ByChildren(d, f) == [c \in Front |-> IF Parent[c] = f THEN d[c] ELSE 0]
DelayedTo(d, f) == SumUpTo(ByChildren(d, f))[NFront]

HasContrib(f) == Parent[f] # Root      \* nrow > ncol
=============================================================================
