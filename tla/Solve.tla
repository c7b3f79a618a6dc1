------------------------------- MODULE Solve -------------------------------
(***************************************************************************)
(* The solve phase over the fronts the analysis has placed: the subtrees   *)
(* of the list in order, then the fronts above them in postorder, each     *)
(* with its own forward substitution; then all of it backwards, with the   *)
(* diagonal and the backward substitution. The loops over the tree skip    *)
(* the fronts whose exec_loc is set, the loops over the list do not look.  *)
(***************************************************************************)
EXTENDS Analyse

VARIABLES
  pass,          \* "fwd", "bwd" or "end"
  turn,          \* how many of the solves of the pass are done
  fwd, bwd       \* how often each front has been solved, each way

solveVars == <<pass, turn, fwd, bwd>>
allVars   == <<vars, solveVars>>

SolveInit ==
  /\ Init
  /\ pass = "fwd" /\ turn = 0
  /\ fwd = [i \in Node |-> 0]
  /\ bwd = [i \in Node |-> 0]

(* The fronts the loops over the tree do not skip.                          *)
TopFronts == InOrder({i \in Node : small[i] = 0})

(* The solves of the forward pass, each the set of its fronts.              *)
(* Fault: the fronts above the subtrees first.                              *)
SolveOrderTopFirst == [k \in DOMAIN TopFronts |-> {TopFronts[k]}]
                        \o [s \in DOMAIN subtrees |-> InSubtree(s)]

SolveOrder == [s \in DOMAIN subtrees |-> InSubtree(s)]
                \o [k \in DOMAIN TopFronts |-> {TopFronts[k]}]

OnceMore(count, fronts) == [i \in Node |-> count[i] + IF i \in fronts THEN 1 ELSE 0]

(* The next solve of the pass; after the last of the forward pass the       *)
(* backward pass begins.                                                    *)
SolveFwd ==
  /\ Done /\ pass = "fwd"
  /\ turn < Len(SolveOrder)
  /\ fwd' = OnceMore(fwd, SolveOrder[turn + 1])
  /\ IF turn + 1 = Len(SolveOrder) THEN pass' = "bwd" /\ turn' = 0
                                   ELSE turn' = turn + 1 /\ UNCHANGED pass
  /\ UNCHANGED <<vars, bwd>>

SolveDiagBwd ==
  /\ Done /\ pass = "bwd"
  /\ bwd' = OnceMore(bwd, SolveOrder[Len(SolveOrder) - turn])
  /\ IF turn + 1 = Len(SolveOrder) THEN pass' = "end" /\ turn' = 0
                                   ELSE turn' = turn + 1 /\ UNCHANGED pass
  /\ UNCHANGED <<vars, fwd>>

Solved == pass = "end"

SolveNext == \/ ~Done /\ Next /\ UNCHANGED solveVars
             \/ SolveFwd
             \/ SolveDiagBwd
             \/ Solved /\ UNCHANGED allVars

SolveSpec == SolveInit /\ [][SolveNext]_allVars /\ WF_allVars(SolveNext)

-----------------------------------------------------------------------------
(* A front is solved forward once, after all the fronts that update it; and *)
(* backward once, after the forward pass and after its parent, whose        *)
(* unknowns it needs. As with EachFrontOnce, with prune_tree only when no   *)
(* work is tied.                                                            *)
SolvedInOrder ==
  tree.omp \/ ~Tied =>
    \A i \in Node :
      /\ fwd[i] <= 1 /\ bwd[i] <= 1
      /\ fwd[i] = 1 => \A c \in ToSet(tree.child[i]) : fwd[c] = 1
      /\ bwd[i] = 1 => /\ \A j \in Node : fwd[j] = 1
                       /\ parent(i) = VRoot \/ bwd[parent(i)] = 1

(* The analysis comes to an end, the restarts of prune_tree included, and   *)
(* every front is then solved.                                              *)
AllSolved == <>(Solved /\ \A i \in Node : fwd[i] >= 1 /\ bwd[i] >= 1)
=============================================================================
