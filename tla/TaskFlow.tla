------------------------------ MODULE TaskFlow ------------------------------
(***************************************************************************)
(* The sequential task flow of StarPU, as SyLVER uses it (external code:   *)
(* modelled from the task insertions and the access modes written there).  *)
(*                                                                         *)
(* The main thread submits tasks in program order and gives, for every     *)
(* data handle a task names, an access mode: STARPU_R, STARPU_RW or        *)
(* STARPU_RW | STARPU_COMMUTE.  The runtime derives the dependencies: a    *)
(* task starts once every earlier task that accesses one of its handles in *)
(* a conflicting mode is done.  Two commuting accesses of one handle may   *)
(* run in either order, but never at once.                                 *)
(*                                                                         *)
(* All the tasks are submitted from the start.  A main thread that lags    *)
(* behind its workers only removes behaviours.                             *)
(***************************************************************************)
EXTENDS Integers, FiniteSets

CONSTANTS
  Task,      \* the tasks of the program
  Handle,    \* the registered data handles
  Access,    \* Access[t][h]: the mode in which task t accesses handle h
  Before,    \* <<u, t>> \in Before: u is submitted before t
  Workers    \* how many tasks run at once

VARIABLE status    \* status[t]: where task t is in its life

Modes == {"none", "R", "RW", "C"}

(***************************************************************************)
(* Handles have one of the modes, and the submission order is total.       *)
(***************************************************************************)
ASSUME TaskFlowAssumption ==
  /\ Access \in [Task -> [Handle -> Modes]]
  /\ Before \subseteq Task \X Task
  /\ \A t, u \in Task : t # u => (<<t, u>> \in Before \/ <<u, t>> \in Before)
  /\ Workers \in Nat \ {0}

(* Two accesses of one handle that the runtime must keep in program order. *)
Clash(a, b) ==
  /\ a # "none" /\ b # "none"
  /\ ~ (a = "R" /\ b = "R")
  /\ ~ (a = "C" /\ b = "C")

Conflict(u, t) == \E h \in Handle : Clash(Access[u][h], Access[t][h])

(* Two tasks that may run in either order but not at once. *)
Commuting(u, t) ==
  \E h \in Handle : Access[u][h] = "C" /\ Access[t][h] = "C"

(* The pairs of tasks that the runtime must run in the order of submission. *)
MustPrecede == {<<p[1], p[2]>> : p \in {q \in Before : Conflict(q[1], q[2])}}

(* The implicit dependencies of each task. *)
Pred == [t \in Task |-> {u \in Task : <<u, t>> \in MustPrecede}]

(* The tasks each task excludes while it runs. *)
Excl == [t \in Task |-> {u \in Task : u # t /\ Commuting(u, t)}]

Running == {t \in Task : status[t] = "running"}
AllDone == \A t \in Task : status[t] = "done"

TaskInit == status = [t \in Task |-> "waiting"]

(* A worker takes task t: its dependencies are done and no commuting task   *)
(* holds one of its handles.                                                *)
StartAfter(t, pred, excl) ==
  /\ status[t] = "waiting"
  /\ Cardinality(Running) < Workers
  /\ \A u \in pred : status[u] = "done"
  /\ \A u \in excl : status[u] # "running"
  /\ status' = [status EXCEPT ![t] = "running"]

Start(t) == StartAfter(t, Pred[t], Excl[t])

(* Task t ends and releases its handles. *)
Finish(t) ==
  /\ status[t] = "running"
  /\ status' = [status EXCEPT ![t] = "done"]

Terminated == AllDone /\ UNCHANGED status

TaskWork == \E t \in Task : Start(t) \/ Finish(t)

TaskNext == TaskWork \/ Terminated

(* Workers poll for ready tasks: as long as one can start or end, some will. *)
TaskSpec == TaskInit /\ [][TaskNext]_status /\ WF_status(TaskWork)

-----------------------------------------------------------------------------
TaskTypeOK == status \in [Task -> {"waiting", "running", "done"}]

(* A task that has started has all its dependencies done: the execution     *)
(* respects the program order on every pair of conflicting accesses.        *)
ProgramOrder ==
  \A p \in MustPrecede : status[p[2]] # "waiting" => status[p[1]] = "done"

(* Two tasks at work never hold one handle, unless both only read it.       *)
HandleExclusion ==
  \A t, u \in Task :
    /\ t # u
    /\ status[t] = "running" /\ status[u] = "running"
    => \A h \in Handle :
         /\ Access[t][h] # "none" /\ Access[u][h] # "none"
         => Access[t][h] = "R" /\ Access[u][h] = "R"
=============================================================================
