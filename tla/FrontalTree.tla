---------------------------- MODULE FrontalTree ----------------------------
(***************************************************************************)
(* The multifrontal factorization of an elimination tree:                  *)
(* NumericTree::factor_mf_indef and the tasks it submits.                  *)
(*                                                                         *)
(* The main thread submits a few tasks per front, in postorder.  Workers   *)
(* run them, and these tasks submit others in their turn: those that       *)
(* assemble the children, factorize the front and free the children.  The  *)
(* size of a front, and the handles of its blocks, are only known once its *)
(* children have been factorized, since a column that finds no pivot is    *)
(* delayed to the parent.                                                  *)
(*                                                                         *)
(* The blocks of the fully summed columns of a front share one handle      *)
(* here, and so do the tiles of its contribution block; the tasks of the   *)
(* first pass, modelled in AptpFront, are one.  A front is represented by  *)
(* what has been added to it.                                              *)
(*                                                                         *)
(* A definition marked "fault" is the next one of its name with a mistake  *)
(* in it: it is used by nothing here, and shows what a property catches.   *)
(***************************************************************************)
EXTENDS AssemblyBlocks

CONSTANTS
  PivotMethod,   \* options.pivot_method
  FailedTpp,     \* options.failed_pivot_method is tpp
  Workers        \* StarPU CPU workers

ASSUME FrontalTreeAssumption ==
  /\ PivotMethod \in {"app_aggressive", "app_block", "tpp"}
  /\ FailedTpp \in BOOLEAN
  /\ Workers \in Nat \ {0}

VARIABLES
  status,        \* the life of each task
  deps,          \* the unfinished tasks each submitted task waits for
  sent,          \* the steps of its code each submitting task has done
  registered,    \* the handles StarPU knows
  ndelay_in, ndelay_out, nelim,
  delay_col,     \* where the delayed columns of a front start in its parent:
                 \* the argument delay_col of its task
  lcol,          \* what was assembled into the fully summed columns of a front
  contrib        \* what the contribution block of a front contains

flowVars  == <<status, deps, sent, registered>>
frontVars == <<ndelay_in, ndelay_out, nelim, delay_col, lcol, contrib>>
vars == <<flowVars, frontVars>>

-----------------------------------------------------------------------------
ncol(f) == NCol[f] + ndelay_in[f]
rsa(f)  == ncol(f) \div BlockSize     \* first block row of the contribution block

-----------------------------------------------------------------------------
(* The tasks.  A task that brings something from a child to its parent is   *)
(* named after the child.                                                   *)

(* A table that TLC computes once.                                          *)
Table(f) == CHOOSE m \in {f} : m = m

OuterKinds == {"activate_init_node", "assemble", "factor_front_indef",
               "assemble_contrib", "nelim_sync"}
FactorKinds == {"factor_front_indef_app", "update_contrib_block_app",
                "factor_front_indef_failed"}
ChildKinds == {"assemble_delays", "assemble_block", "assemble_contrib_block"}

Task ==
  ((OuterKinds \cup FactorKinds \cup {"fini_node"}) \X (Front \ Subtree))
    \cup (ChildKinds \X Front)
    \cup ({"factor_subtree"} \X Subtree)
    \cup ({"fini_cnodes"} \X ((Front \ Subtree) \cup {Root}))

MainTasks ==
  {t \in Task : t[1] \in OuterKinds \cup {"factor_subtree", "fini_cnodes"}}

(* The main thread submits the subtrees first, then front by front.         *)
MainPlace_ContribFirst ==                                      \* fault
  [factor_subtree |-> 0, activate_init_node |-> 1, assemble |-> 2,
   assemble_contrib |-> 3, factor_front_indef |-> 4, nelim_sync |-> 5,
   fini_cnodes |-> 6]
MainPlace ==
  [factor_subtree |-> 0, activate_init_node |-> 1, assemble |-> 2,
   factor_front_indef |-> 3, assemble_contrib |-> 4, nelim_sync |-> 5,
   fini_cnodes |-> 6]

EarlierInMain(t) ==
  {u \in MainTasks :
     IF t[1] = "factor_subtree" THEN u[1] = "factor_subtree" /\ u[2] < t[2]
     ELSE \/ u[1] = "factor_subtree"
          \/ u[2] < t[2]
          \/ u[2] = t[2] /\ MainPlace[u[1]] < MainPlace[t[1]]}

(* What the code of each submitting task does: it submits tasks, resets     *)
(* nelim, or gives up the handle of a child.                                *)
assemble(f) == {"assemble_delays", "assemble_block"} \X Children(f)

factor_front_indef(f) ==
  {<<"nelim", f>>, <<"factor_front_indef_failed", f>>}
    \cup (IF PivotMethod = "app_block" THEN {<<"factor_front_indef_app", f>>} ELSE {})
    \cup (IF PivotMethod = "app_block" /\ HasContrib(f)
          THEN {<<"update_contrib_block_app", f>>} ELSE {})

assemble_contrib(f) ==
  IF f # Root /\ HasContrib(f) THEN {"assemble_contrib_block"} \X Children(f) ELSE {}

fini_cnodes(f) ==
  ({"fini_node"} \X (Children(f) \ Subtree))
    \cup ({"unregister_submit_symb"} \X Children(f))

(* In the order of the code, and child by child where it loops over them.   *)
(* Each new child is linked first, so the last comes first.                 *)
Place_UnregisterFirst ==                                       \* fault
  [assemble_delays |-> 0, assemble_block |-> 1,
   nelim |-> 0, factor_front_indef_app |-> 1, update_contrib_block_app |-> 2,
   factor_front_indef_failed |-> 3, assemble_contrib_block |-> 0,
   unregister_submit_symb |-> 0, fini_node |-> 1]
Place ==
  [assemble_delays |-> 0, assemble_block |-> 1,
   nelim |-> 0, factor_front_indef_app |-> 1, update_contrib_block_app |-> 2,
   factor_front_indef_failed |-> 3, assemble_contrib_block |-> 0,
   fini_node |-> 0, unregister_submit_symb |-> 1]

Earlier(o, op) ==
  \/ o[2] > op[2]
  \/ o[2] = op[2] /\ Place[o[1]] < Place[op[1]]

Submitters == {"assemble", "factor_front_indef", "assemble_contrib", "fini_cnodes"}

Submitter == {t \in Task : t[1] \in Submitters}

Calls(s) ==
  CASE s[1] = "assemble" -> assemble(s[2])
    [] s[1] = "factor_front_indef" -> factor_front_indef(s[2])
    [] s[1] = "assemble_contrib" -> assemble_contrib(s[2])
    [] s[1] = "fini_cnodes" -> fini_cnodes(s[2])

Code == Table([s \in Submitter |-> Calls(s)])

-----------------------------------------------------------------------------
(* The data handles, and the modes in which each task is inserted.          *)

H(f)        == <<"hdl", f>>            \* SymbolicFront::hdl
Hcontrib(f) == <<"contrib_hdl", f>>    \* NumericFront::contrib_hdl
Hblk(f)     == <<"blk", f>>            \* the blocks of the fully summed columns
Hcol(f)     == <<"col", f>>            \* the last column
Htile(f)    == <<"tile", f>>           \* the tiles of the contribution block

activate_hdls(f) == {Hblk(f), Hcol(f), Htile(f)}

Handle == UNION {{H(f), Hcontrib(f)} \cup activate_hdls(f) : f \in 1..Root}

ReadsChildren_None(f) == [r |-> {}, rw |-> {H(f)}, c |-> {}]     \* fault
ReadsChildren(f) == [r |-> {H(c) : c \in Children(f)}, rw |-> {H(f)}, c |-> {}]

insert_fini_cnodes_RW(f) ==                                    \* fault
  [r |-> {H(f)}, rw |-> {H(c) : c \in Children(f)}, c |-> {}]
insert_fini_cnodes(f) ==
  [r |-> {H(f)} \cup {H(c) : c \in Children(f)}, rw |-> {}, c |-> {}]

insert_factor_front_indef_failed(f) ==
  [r |-> IF HasContrib(f) THEN {Htile(f)} ELSE {},
   rw |-> {Hcol(f), Hcontrib(f)}, c |-> {}]

insert_assemble_delays_NoDest(c) ==                            \* fault
  [r |-> {IF c \in Subtree THEN H(c) ELSE Hblk(c)}, rw |-> {}, c |-> {}]
insert_assemble_delays(c) ==
  [r |-> IF c \in Subtree THEN {H(c)} ELSE {Hblk(c)}, rw |-> {Hblk(Parent[c])}, c |-> {}]

insert_assemble_block(c) ==
  [r |-> {H(c)} \cup (IF c \in Subtree THEN {} ELSE {Htile(c)}),
   rw |-> {Hblk(Parent[c])}, c |-> {}]

insert_assemble_contrib_block_NoCnode(c) ==                    \* fault
  LET p == Parent[c]
  IN IF c \in Subtree
     THEN [r |-> {H(c), Hcontrib(p)}, rw |-> {}, c |-> {Htile(p)}]
     ELSE [r |-> {Htile(c), Hcontrib(p)}, rw |-> {Htile(p)}, c |-> {}]
insert_assemble_contrib_block(c) ==
  LET p == Parent[c]
  IN IF c \in Subtree
     THEN [r |-> {H(c), Hcontrib(p)}, rw |-> {}, c |-> {Htile(p)}]
     ELSE [r |-> {Htile(c), H(c), Hcontrib(p)}, rw |-> {Htile(p)}, c |-> {}]

TaskAccess(t) ==
  LET f == t[2]
  IN CASE t[1] \in {"factor_subtree", "factor_front_indef", "nelim_sync"} ->
            [r |-> {}, rw |-> {H(f)}, c |-> {}]
       [] t[1] \in {"activate_init_node", "assemble", "assemble_contrib"} ->
            ReadsChildren(f)
       [] t[1] = "fini_cnodes" -> insert_fini_cnodes(f)
       [] t[1] = "factor_front_indef_app" ->
            [r |-> {}, rw |-> {Hblk(f), Hcol(f)}, c |-> {}]
       [] t[1] = "update_contrib_block_app" ->
            [r |-> {Hblk(f), Hcol(f), Hcontrib(f)}, rw |-> {}, c |-> {Htile(f)}]
       [] t[1] = "factor_front_indef_failed" -> insert_factor_front_indef_failed(f)
       [] t[1] = "assemble_delays" -> insert_assemble_delays(f)
       [] t[1] = "assemble_block" -> insert_assemble_block(f)
       [] t[1] = "assemble_contrib_block" -> insert_assemble_contrib_block(f)
       [] t[1] = "fini_node" -> [r |-> {}, rw |-> {Hblk(f), H(f)}, c |-> {}]

Access == Table([t \in Task |-> TaskAccess(t)])
Handles == Table([t \in Task |-> Access[t].r \cup Access[t].rw \cup Access[t].c])

Clash(u, t) ==
  \/ Access[u].rw \cap Handles[t] # {}
  \/ Handles[u] \cap Access[t].rw # {}
  \/ Access[u].c \cap Access[t].r # {}
  \/ Access[u].r \cap Access[t].c # {}

Conflicts  == Table([t \in Task |-> {u \in Task \ {t} : Clash(u, t)}])
Exclusions == Table([t \in Task |-> {u \in Task \ {t} : Access[u].c \cap Access[t].c # {}}])

(* Beside its handles, nelim_sync waits for a tag, which the second pass    *)
(* notifies.                                                                *)
nelim_sync_deps_None(t) == {}                                  \* fault
nelim_sync_deps(t) ==
  IF t[1] = "nelim_sync" THEN {<<"factor_front_indef_failed", t[2]>>} ELSE {}

-----------------------------------------------------------------------------
(* The runtime (external): tasks are submitted, wait for the unfinished     *)
(* tasks submitted before them, are taken by a worker, and end.             *)

Running == {t \in Task : status[t] = "running"}
InFlight == {t \in Task : status[t] \in {"submitted", "running"}}

SubmitTask(t) ==
  /\ status' = [status EXCEPT ![t] = "submitted"]
  /\ deps' = [deps EXCEPT ![t] = Conflicts[t] \cap InFlight]

Start(t) ==
  /\ status[t] = "submitted"
  /\ deps[t] = {}
  /\ Cardinality(Running) < Workers
  /\ \A u \in Exclusions[t] : status[u] # "running"
  /\ status' = [status EXCEPT ![t] = "running"]
  /\ UNCHANGED <<deps, sent, registered, frontVars>>

Finish(t) ==
  /\ t \in Task
  /\ status[t] = "running"
  /\ status' = [status EXCEPT ![t] = "done"]
  /\ deps' = [u \in Task |-> deps[u] \ {t}]
  /\ UNCHANGED sent

-----------------------------------------------------------------------------
(* The submitting code, one step of a program at a time.                    *)

Ended(s) == sent[s] = Code[s]

(* A child without delayed columns has no task to bring them.  The columns  *)
(* of each child are put after those of the child before it.                *)
delay_col_of_AllFirst(c) == NCol[Parent[c]]                    \* fault
delay_col_of(c) ==
  LET before == {d \in Children(Parent[c]) : d > c}
  IN IF before = {} THEN NCol[Parent[c]]
     ELSE LET d == CHOOSE e \in before : \A x \in before : e <= x
          IN delay_col[d] + ndelay_out[d]

Submit(s, op) ==
  /\ status[s] = "running"
  /\ op \in Code[s] \ sent[s]
  /\ \A o \in Code[s] : Earlier(o, op) => o \in sent[s]
  /\ sent' = [sent EXCEPT ![s] = @ \cup {op}]
  /\ LET c == op[2]
     IN CASE op[1] = "nelim" ->
               /\ nelim' = [nelim EXCEPT ![c] = 0]
               /\ UNCHANGED <<status, deps, registered, delay_col>>
          [] op[1] = "unregister_submit_symb" ->
               /\ registered' = registered \ {H(c)}
               /\ UNCHANGED <<status, deps, nelim, delay_col>>
          [] op[1] = "assemble_delays" ->
               /\ delay_col' = [delay_col EXCEPT ![c] = delay_col_of(c)]
               /\ IF ndelay_out[c] > 0 THEN SubmitTask(op)
                                       ELSE UNCHANGED <<status, deps>>
               /\ UNCHANGED <<registered, nelim>>
          [] OTHER ->
               /\ SubmitTask(op)
               /\ UNCHANGED <<registered, nelim, delay_col>>
  /\ UNCHANGED <<ndelay_in, ndelay_out, lcol, contrib>>

(* A submitting task ends when its code does, nelim_sync does nothing.      *)
EndSubmitter(s) ==
  /\ s \in Submitter => Ended(s)
  /\ Finish(s)
  /\ UNCHANGED <<registered, frontVars>>

-----------------------------------------------------------------------------
(* The tasks that compute.                                                  *)

factor_subtree(f) ==
  /\ Finish(<<"factor_subtree", f>>)
  /\ \E n \in 0..MaxDelay[f] : ndelay_out' = [ndelay_out EXCEPT ![f] = n]
  /\ contrib' = [contrib EXCEPT ![f] = {<<"first", f>>}]
  /\ UNCHANGED <<registered, ndelay_in, nelim, delay_col, lcol>>

(* The front gets its size, its memory and the handles of its blocks.  The  *)
(* memory of the contribution block is not cleared.                         *)
activate_init_node(f) ==
  /\ Finish(<<"activate_init_node", f>>)
  /\ ndelay_in' = [ndelay_in EXCEPT ![f] = DelayedTo(ndelay_out, f)]
  /\ ndelay_out' = [ndelay_out EXCEPT ![f] = 0]
  /\ registered' = registered \cup activate_hdls(f)
  /\ lcol' = [lcol EXCEPT ![f] = {}]
  /\ contrib' = [contrib EXCEPT ![f] = {<<"stale", f>>}]
  /\ UNCHANGED <<nelim, delay_col>>

(* What the passes may eliminate.  The second tries the columns left by the *)
(* first where it is allowed to; at a root it eliminates all of them,       *)
(* unless the front is singular and options.action is false.                *)
RetriesFailed(f) == ~ HasContrib(f) \/ PivotMethod = "tpp" \/ FailedTpp
FirstPass(f) == {n \in 0..ncol(f) : RetriesFailed(f) \/ ncol(f) - n <= MaxDelay[f]}
SecondPass_FromZero(f, rest) ==                                \* fault
  IF ~ HasContrib(f) THEN {0, ncol(f)}
  ELSE IF RetriesFailed(f) THEN {n \in 0..ncol(f) : ncol(f) - n <= MaxDelay[f]}
  ELSE {0}
SecondPass(f, rest) ==
  IF ~ HasContrib(f) THEN {0, rest}
  ELSE IF RetriesFailed(f) THEN {n \in 0..rest : rest - n <= MaxDelay[f]}
  ELSE {0}

(* The first pass eliminates some columns, and its first contribution       *)
(* overwrites the tiles.                                                    *)
factor_front_indef_app(f) ==
  /\ Finish(<<"factor_front_indef_app", f>>)
  /\ \E n \in FirstPass(f) : nelim' = [nelim EXCEPT ![f] = @ + n]
  /\ UNCHANGED <<registered, ndelay_in, ndelay_out, delay_col, lcol, contrib>>

update_contrib_block_app(f) ==
  /\ Finish(<<"update_contrib_block_app", f>>)
  /\ contrib' = IF nelim[f] > 0 THEN [contrib EXCEPT ![f] = {<<"first", f>>}]
                                ELSE contrib
  /\ UNCHANGED <<registered, ndelay_in, ndelay_out, nelim, delay_col, lcol>>

(* A front that eliminates nothing clears its tiles.  The code counts them   *)
(* from 0 and finds them from rsa on: unless rsa is 0 some of them, or all,  *)
(* keep what the memory held.                                               *)
zero_contrib_blocks(f) ==
  IF rsa(f) = 0 THEN [contrib EXCEPT ![f] = {<<"zero", f>>}] ELSE contrib

factor_front_indef_failed(f) ==
  /\ Finish(<<"factor_front_indef_failed", f>>)
  /\ \E n \in SecondPass(f, ncol(f) - nelim[f]) :
       /\ nelim' = [nelim EXCEPT ![f] = @ + n]
       /\ contrib' =
            IF ~ HasContrib(f) THEN contrib
            ELSE IF nelim'[f] = 0 THEN zero_contrib_blocks(f)
            ELSE IF n = 0 THEN contrib
            ELSE [contrib EXCEPT ![f] = {<<"second", f>>}
                                          \cup (IF nelim[f] = 0 THEN {} ELSE @)]
  /\ ndelay_out' = [ndelay_out EXCEPT ![f] = ncol(f) - nelim'[f]]
  /\ UNCHANGED <<registered, ndelay_in, delay_col, lcol>>

assemble_delays(c) ==
  /\ Finish(<<"assemble_delays", c>>)
  /\ lcol' = [lcol EXCEPT ![Parent[c]] = @ \cup {<<"delays", c>>}]
  /\ UNCHANGED <<registered, ndelay_in, ndelay_out, nelim, delay_col, contrib>>

assemble_block(c) ==
  /\ Finish(<<"assemble_block", c>>)
  /\ lcol' = [lcol EXCEPT ![Parent[c]] = @ \cup {<<"block", c>>}]
  /\ UNCHANGED <<registered, ndelay_in, ndelay_out, nelim, delay_col, contrib>>

assemble_contrib_block(c) ==
  /\ Finish(<<"assemble_contrib_block", c>>)
  /\ contrib' = [contrib EXCEPT ![Parent[c]] = @ \cup {<<"child", c>>}]
  /\ UNCHANGED <<registered, ndelay_in, ndelay_out, nelim, delay_col, lcol>>

fini_node(f) ==
  /\ Finish(<<"fini_node", f>>)
  /\ registered' = registered \ activate_hdls(f)
  /\ contrib' = [contrib EXCEPT ![f] = {}]
  /\ UNCHANGED <<ndelay_in, ndelay_out, nelim, delay_col, lcol>>

-----------------------------------------------------------------------------
(* The main thread has submitted all it has to: one that lags behind its    *)
(* workers only removes behaviours.                                         *)
Init ==
  /\ status = [t \in Task |-> IF t \in MainTasks THEN "submitted" ELSE "unsubmitted"]
  /\ deps = [t \in Task |->
               IF t \in MainTasks
               THEN (Conflicts[t] \cap EarlierInMain(t)) \cup nelim_sync_deps(t)
               ELSE {}]
  /\ sent = [s \in Submitter |-> {}]
  /\ registered = {H(f) : f \in 1..Root} \cup {Hcontrib(f) : f \in 1..Root}
  /\ ndelay_in = [f \in Front |-> 0]
  /\ ndelay_out = [f \in Front |-> 0]
  /\ nelim = [f \in Front |-> 0]
  /\ delay_col = [f \in Front |-> 0]
  /\ lcol = [f \in Front |-> {}]
  /\ contrib = [f \in Front |-> {}]

Done == InFlight = {}
Terminated == Done /\ UNCHANGED vars

Next ==
  \/ \E s \in Submitter : \E op \in Code[s] : Submit(s, op)
  \/ \E t \in Task : Start(t)
  \/ \E s \in Task : /\ s[1] \in Submitters \cup {"nelim_sync"}
                     /\ EndSubmitter(s)
  \/ \E f \in Front :
       \/ factor_subtree(f)            \/ activate_init_node(f)
       \/ factor_front_indef_app(f)    \/ update_contrib_block_app(f)
       \/ factor_front_indef_failed(f) \/ assemble_delays(f)
       \/ assemble_block(f)            \/ assemble_contrib_block(f)
       \/ fini_node(f)
  \/ Terminated

(* Workers poll until the flow is empty, and every task ends.  Every step   *)
(* advances a task, and these have finitely many to take, so fairness of    *)
(* the whole is enough.                                                     *)
Spec == Init /\ [][Next]_vars /\ WF_vars(Next)

-----------------------------------------------------------------------------
(* Properties.                                                              *)

Statuses == {"unsubmitted", "submitted", "running", "done"}

TypeOK ==
  /\ status \in [Task -> Statuses]
  /\ DOMAIN deps = Task /\ \A t \in Task : deps[t] \subseteq Task
  /\ \A s \in Submitter : sent[s] \subseteq Code[s]
  /\ registered \subseteq Handle
  /\ ndelay_in \in [Front -> Nat] /\ ndelay_out \in [Front -> Nat]
  /\ nelim \in [Front -> Nat] /\ delay_col \in [Front -> Nat]
  /\ \A f \in Front : nelim[f] <= ncol(f)

(* The memory each task accesses, whatever handles it holds.  What assemble *)
(* and factor_front_indef do to the data of a front precedes the submission *)
(* of the tasks that use it.                                                *)
Reads ==
  Table([t \in Task |->
    LET f == t[2]
    IN CASE t[1] = "activate_init_node" -> {<<"ndelay_out", c>> : c \in Children(f)}
         [] t[1] = "assemble" ->
              {<<"size", f>>} \cup UNION {{<<"ndelay_out", c>>, <<"nelim", c>>, <<"size", c>>}
                                             : c \in Children(f)}
         [] t[1] \in {"factor_front_indef", "factor_front_indef_app"} -> {<<"size", f>>}
         [] t[1] = "update_contrib_block_app" -> {<<"lcol", f>>}
         [] t[1] = "assemble_contrib" -> {<<"size", c>> : c \in Children(f) \cup {f}}
         [] t[1] = "assemble_delays" ->
              {<<"lcol", f>>, <<"nelim", f>>, <<"ndelay_out", f>>}
         [] t[1] \in {"assemble_block", "assemble_contrib_block"} -> {<<"contrib", f>>}
         [] OTHER -> {}])

Writes ==
  Table([t \in Task |->
    LET f == t[2]
    IN CASE t[1] = "factor_subtree" -> {<<"contrib", f>>, <<"ndelay_out", f>>, <<"lcol", f>>}
         [] t[1] = "activate_init_node" ->
              {<<"size", f>>, <<"lcol", f>>, <<"contrib", f>>, <<"ndelay_out", f>>}
         [] t[1] = "factor_front_indef_app" -> {<<"lcol", f>>, <<"nelim", f>>}
         [] t[1] = "update_contrib_block_app" -> {<<"contrib", f>>}
         [] t[1] = "factor_front_indef_failed" ->
              {<<"lcol", f>>, <<"nelim", f>>, <<"ndelay_out", f>>, <<"contrib", f>>}
         [] t[1] \in {"assemble_delays", "assemble_block"} -> {<<"lcol", Parent[f]>>}
         [] t[1] = "assemble_contrib_block" -> {<<"contrib", Parent[f]>>}
         [] t[1] = "fini_node" -> {<<"contrib", f>>, <<"size", f>>}
         [] OTHER -> {}])

(* No two running tasks access the same memory, one of them writing it,     *)
(* although several declare a handle other than the data they use           *)
(* (assemble_block, fini_node), or none at all (assemble).                  *)
NoDataRace ==
  \A t, u \in Running :
    t # u => Writes[t] \cap (Reads[u] \cup Writes[u]) = {}

(* A front is allocated for exactly the columns its children delay: no      *)
(* child revises ndelay_out once activate_front has counted it.             *)
FrontSizedForDelays ==
  \A f \in Front \ Subtree :
    status[<<"activate_init_node", f>>] = "done"
    => ndelay_in[f] = DelayedTo(ndelay_out, f)

(* The delayed columns of the children get places of their own, behind the  *)
(* columns of the front and within it.                                      *)
DelaysPlacedApart ==
  \A c \in Front :
    status[<<"assemble_delays", c>>] # "unsubmitted"
    => /\ delay_col[c] >= NCol[Parent[c]]
       /\ delay_col[c] + ndelay_out[c] <= ncol(Parent[c])
       /\ \A d \in Children(Parent[c]) \ {c} :
            status[<<"assemble_delays", d>>] # "unsubmitted"
            => (delay_col[c] + ndelay_out[c] <= delay_col[d]
                  \/ delay_col[d] + ndelay_out[d] <= delay_col[c])

(* An assembly writes no block of the parent but those whose handles its    *)
(* task was given, wherever the delayed columns of the child and of the     *)
(* parent have moved its rows.                                              *)
DestinationsDeclared ==
  \A c \in {d \in Front : HasContrib(d)} :
    LET din   == ndelay_in[Parent[c]]
        first == IF c \in Subtree THEN 0 ELSE ncol(c)
    IN /\ status[<<"assemble_delays", c>>] = "running" =>
            DelaysWritten(c, din, delay_col[c], ndelay_out[c])
              \subseteq DelaysDeclared(c, din, delay_col[c], ndelay_out[c])
       /\ status[<<"assemble_block", c>>] = "running" =>
            \A t \in Tiles(c, first) :
              LET cols == SummedColumns(c, din, first, t[2])
              IN TileWritten(c, din, first, t, cols)
                   \subseteq TileDeclared(c, din, first, t, cols)
       /\ status[<<"assemble_contrib_block", c>>] = "running" =>
            \A t \in Tiles(c, first) :
              LET cols == ContribColumns(c, din, first, t[2])
              IN TileWritten(c, din, first, t, cols)
                   \subseteq TileDeclared(c, din, first, t, cols)

(* Columns are eliminated, in either pass, only once all the children have  *)
(* been assembled into them.                                                *)
ColumnsAssembledFirst ==
  \A f \in Front \ Subtree :
    \A kind \in {"factor_front_indef_app", "factor_front_indef_failed"} :
      status[<<kind, f>>] \in {"running", "done"}
      => \A c \in Children(f) :
           /\ <<"block", c>> \in lcol[f]
           /\ ndelay_out[c] > 0 => <<"delays", c>> \in lcol[f]

(* A contribution block is assembled into the parent only when it holds the *)
(* front's own contribution and those of its children, and not after it was *)
(* freed.  It holds what its memory held before, or zeros, only if nothing  *)
(* was eliminated in the front: the former if a block of its rows is full   *)
(* of columns, for then zero_contrib_blocks misses tiles, else the latter.  *)
PassesStale(c) == c \notin Subtree /\ nelim[c] = 0 /\ rsa(c) # 0

ContribComplete ==
  \A c \in Front :
    (\E kind \in {"assemble_block", "assemble_contrib_block"} :
       status[<<kind, c>>] = "running")
    => /\ {<<"child", d>> : d \in Children(c)} \subseteq contrib[c]
       /\ <<"stale", c>> \in contrib[c] <=> PassesStale(c)
       /\ <<"zero", c>> \in contrib[c] <=>
            c \notin Subtree /\ nelim[c] = 0 /\ rsa(c) = 0

(* A task is never submitted with a handle that is not yet registered, or   *)
(* already given up.                                                        *)
HandlesRegistered ==
  [][\A t \in Task :
       status[t] = "unsubmitted" /\ status'[t] = "submitted"
       => Handles[t] \subseteq registered]_vars

(* The whole tree gets factorized, and the memory of every contribution     *)
(* block is freed.                                                          *)
TreeFactored ==
  <>(/\ Done
     /\ \A f \in Front \ Subtree :
          status[<<"factor_front_indef_failed", f>>] = "done" /\ contrib[f] = {})

(* The tasks implement the factorization of the elimination tree.           *)
IsDone(t) == t \in Task /\ status[t] = "done"
phase ==
  [f \in Front |->
     IF IsDone(<<"fini_node", f>>) THEN "released"
     ELSE IF IsDone(<<"factor_subtree", f>>)
               \/ IsDone(<<"factor_front_indef_failed", f>>) THEN "factored"
     ELSE IF IsDone(<<"activate_init_node", f>>) THEN "active"
     ELSE "none"]

EliminationTree ==
  INSTANCE EliminationTree WITH
    ndelay   <- [f \in Front |-> IF phase[f] \in {"factored", "released"}
                                 THEN ndelay_out[f] ELSE 0],
    absorbed <- {c \in Front : /\ IsDone(<<"assemble_block", c>>)
                               /\ ndelay_out[c] > 0 => IsDone(<<"assemble_delays", c>>)},
    passed   <- {c \in Front : IsDone(<<"assemble_contrib_block", c>>)}

ImplementsEliminationTree == EliminationTree!Spec

(* What the elimination tree promises, of the tasks: no contribution block  *)
(* is freed while part of it is not yet in the parent (fini_cnodes).        *)
HandedOver == EliminationTree!HandedOver
=============================================================================
