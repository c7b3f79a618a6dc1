--------------------------- MODULE TaskFlow_proofs ---------------------------
(***************************************************************************)
(* What the task flow guarantees to every program of tasks: program order  *)
(* on conflicting accesses, and exclusion on a handle.                     *)
(***************************************************************************)
EXTENDS TaskFlow, TLAPS

(* The safety part of the flow: the programs built on it have their own     *)
(* fairness.                                                                *)
FlowSafety == TaskInit /\ [][TaskNext]_status

(* Tasks that exclude each other do not run together. *)
NoCommutingPair ==
  \A t, u \in Task : status[t] = "running" /\ status[u] = "running" => u \notin Excl[t]

FlowInv == TaskTypeOK /\ ProgramOrder /\ NoCommutingPair

(* The pairs the runtime keeps in order are pairs of tasks. *)
LEMMA PrecedePairs ==
  /\ \A t, u \in Task : <<u, t>> \in MustPrecede <=> <<u, t>> \in Before /\ Conflict(u, t)
  /\ \A p \in MustPrecede : p[1] \in Task /\ p[2] \in Task /\ p = <<p[1], p[2]>>
<1>1. \A p \in Before : p[1] \in Task /\ p[2] \in Task /\ p = <<p[1], p[2]>>
  BY TaskFlowAssumption
<1> QED BY <1>1 DEF MustPrecede

(* Exclusion is symmetric. *)
LEMMA ExclSymmetric ==
  \A t, u \in Task : u \in Excl[t] <=> t \in Excl[u]
  BY DEF Excl, Commuting

(* A task starts only when its dependencies are done and the tasks it       *)
(* excludes are idle.                                                       *)
LEMMA StartPreserves ==
  ASSUME NEW t \in Task, FlowInv, Start(t)
  PROVE  FlowInv'
<1>1. /\ status \in [Task -> {"waiting", "running", "done"}]
      /\ status' = [status EXCEPT ![t] = "running"]
      /\ status[t] = "waiting"
  BY DEF FlowInv, TaskTypeOK, Start, StartAfter
<1>2. TaskTypeOK'
  BY <1>1 DEF TaskTypeOK
<1>3. ProgramOrder'
  <2> SUFFICES ASSUME NEW x \in Task, NEW y \in Task,
                      <<y, x>> \in MustPrecede, status'[x] # "waiting"
               PROVE  status'[y] = "done"
    BY PrecedePairs DEF ProgramOrder, MustPrecede, Conflict, Clash
  <2>1. CASE x = t
    <3>1. y \in Pred[t]
      BY <2>1 DEF Pred
    <3>2. status[y] = "done"
      BY <3>1 DEF Start, StartAfter
    <3> QED BY <1>1, <3>2
  <2>2. CASE x # t
    <3>1. status[x] # "waiting"
      BY <2>2, <1>1
    <3>2. status[y] = "done"
      BY <3>1 DEF FlowInv, ProgramOrder
    <3> QED BY <1>1, <3>2
  <2> QED BY <2>1, <2>2
<1>4. NoCommutingPair'
  <2> SUFFICES ASSUME NEW x \in Task, NEW y \in Task,
                      status'[x] = "running", status'[y] = "running", y \in Excl[x]
               PROVE  FALSE
    BY DEF NoCommutingPair, Excl, Commuting
  <2>1. x # y
    BY DEF Excl
  <2>2. \A z \in Excl[t] : status[z] # "running"
    BY DEF Start, StartAfter
  <2>3. CASE x = t
    BY <2>1, <2>2, <2>3, <1>1
  <2>4. CASE y = t
    BY <2>1, <2>2, <2>4, <1>1, ExclSymmetric
  <2>5. CASE x # t /\ y # t
    BY <2>5, <1>1 DEF FlowInv, NoCommutingPair
  <2> QED BY <2>3, <2>4, <2>5
<1> QED BY <1>2, <1>3, <1>4 DEF FlowInv

LEMMA FinishPreserves ==
  ASSUME NEW t \in Task, FlowInv, Finish(t)
  PROVE  FlowInv'
<1>1. /\ status \in [Task -> {"waiting", "running", "done"}]
      /\ status' = [status EXCEPT ![t] = "done"]
      /\ status[t] = "running"
  BY DEF FlowInv, TaskTypeOK, Finish
<1>2. TaskTypeOK'
  BY <1>1 DEF TaskTypeOK
<1>3. ProgramOrder'
  <2> SUFFICES ASSUME NEW x \in Task, NEW y \in Task,
                      <<y, x>> \in MustPrecede, status'[x] # "waiting"
               PROVE  status'[y] = "done"
    BY PrecedePairs DEF ProgramOrder, MustPrecede, Conflict, Clash
  <2>1. status[x] # "waiting"
    BY <1>1
  <2>2. status[y] = "done"
    BY <2>1 DEF FlowInv, ProgramOrder
  <2> QED BY <1>1, <2>2
<1>4. NoCommutingPair'
  BY <1>1 DEF FlowInv, NoCommutingPair, Excl, Commuting
<1> QED BY <1>2, <1>3, <1>4 DEF FlowInv

LEMMA FlowInductive ==
  ASSUME FlowInv, [TaskNext]_status
  PROVE  FlowInv'
<1>1. CASE \E t \in Task : Start(t)
  BY <1>1, StartPreserves
<1>2. CASE \E t \in Task : Finish(t)
  BY <1>2, FinishPreserves
<1>3. CASE UNCHANGED status
  BY <1>3 DEF FlowInv, TaskTypeOK, ProgramOrder, NoCommutingPair, MustPrecede, Conflict, Excl, Commuting
<1> QED BY <1>1, <1>2, <1>3 DEF TaskNext, TaskWork, Terminated

(* The invariant of the flow holds in every program of tasks.               *)
THEOREM FlowInvariant == FlowSafety => []FlowInv
<1>1. TaskInit => FlowInv
  BY PrecedePairs DEF TaskInit, FlowInv, TaskTypeOK, ProgramOrder, NoCommutingPair, Excl, Commuting
<1> QED BY <1>1, FlowInductive, PTL DEF FlowSafety

(* Two running tasks that share a handle both read it: one of two tasks in  *)
(* conflict precedes the other in the submission order and is done first.   *)
LEMMA ExclusionFollows == FlowInv => HandleExclusion
<1> SUFFICES ASSUME FlowInv,
                    NEW t \in Task, NEW u \in Task, t # u,
                    status[t] = "running", status[u] = "running",
                    NEW h \in Handle, Access[t][h] # "none", Access[u][h] # "none"
             PROVE  Access[t][h] = "R" /\ Access[u][h] = "R"
  BY DEF HandleExclusion
<1>1. ~ Conflict(u, t) \/ ~ Conflict(t, u)
  BY TaskFlowAssumption, PrecedePairs DEF FlowInv, ProgramOrder
<1>2. ~ Clash(Access[u][h], Access[t][h])
  BY <1>1 DEF Conflict, Clash
<1>3. ~ (Access[u][h] = "C" /\ Access[t][h] = "C")
  BY DEF FlowInv, NoCommutingPair, Excl, Commuting
<1> QED BY <1>2, <1>3 DEF Clash

(* Task type, for every program of tasks.                                   *)
THEOREM FlowTypes == TaskSpec => []TaskTypeOK
  BY FlowInvariant, PTL DEF TaskSpec, FlowSafety, FlowInv

(* A task that has started follows every earlier task it conflicts with     *)
(* (starpu_task_insert and its access modes).                               *)
THEOREM FlowProgramOrder == TaskSpec => []ProgramOrder
  BY FlowInvariant, PTL DEF TaskSpec, FlowSafety, FlowInv

(* No handle is shared by two running tasks unless both only read it.       *)
THEOREM FlowExclusion == TaskSpec => []HandleExclusion
  BY FlowInvariant, ExclusionFollows, PTL DEF TaskSpec, FlowSafety
=============================================================================
