------------------------- MODULE FrontalTree_proofs -------------------------
(***************************************************************************)
(* What holds of the factorization of every tree, with any number of       *)
(* workers.  The argument:                                                 *)
(*                                                                         *)
(*  - two tasks of which one is submitted before the other and whose       *)
(*    handles conflict run in that order, and a task that submits others   *)
(*    runs before them (FlowInv, of which Order is the heart: once a task  *)
(*    has started, all that is Ahead of it is past);                       *)
(*  - so a front is activated after its children are done, they are        *)
(*    assembled before the first pass, this one precedes the second, both  *)
(*    precede the assembly of the front into its parent, and that one the  *)
(*    release of the front (AssembledBeforePass to UsedBeforeFreed).  What *)
(*    the handles do not order, the tag of nelim_sync does (SyncedDone);   *)
(*  - with this order the data of the fronts are what they should be:      *)
(*    sizes, what is assembled, what is eliminated (DataInv, and IInv with *)
(*    the flow), what the contributions contain (Contributed), where the   *)
(*    delayed columns go (Placed), which handles exist (Registered);       *)
(*  - the same order says who may touch the data of a front while another  *)
(*    does (Turns), commuting tasks apart (Exclusive);                     *)
(*  - a loop over the columns of a tile, or of a delayed block, names      *)
(*    every block that the kernel writes, because a block column it skips  *)
(*    has the rows of one before it (TilesDeclared, DelaysCovered);        *)
(*  - and every end of a task is a step of the elimination tree, or none   *)
(*    (TreeStep).                                                          *)
(*                                                                         *)
(* Where PivotMethod is not app_block no handle keeps the second pass      *)
(* behind the assembly of the children, and what depends on it is false.   *)
(***************************************************************************)
EXTENDS FrontalTree, TLAPS, WellFoundedInduction

-----------------------------------------------------------------------------
(* The tasks and their handles.                                             *)

LEMMA TableIs ==
  ASSUME NEW f
  PROVE  Table(f) = f
BY DEF Table

LEMMA TreeFacts ==
  /\ NFront \in Nat \ {0} /\ Root = NFront + 1 /\ Root \notin Front
  /\ \A f \in Front : f \in Nat /\ Parent[f] \in Nat /\ Parent[f] > f /\ Parent[f] \in 1..Root
  /\ \A f \in Front : Parent[f] \notin Subtree
  /\ \A f \in Front : HasContrib(f) => Parent[f] \in Front \ Subtree
  /\ \A f \in Front : Parent[f] \in (Front \ Subtree) \cup {Root}
  /\ \A f \in 1..Root : Children(f) = {c \in Front : Parent[c] = f}
  /\ Subtree \subseteq Front
<1>1. NFront \in Nat \ {0} /\ Root = NFront + 1 /\ Root \notin Front
  BY AssemblyTreeAssumption DEF Front, Root
<1>2. \A f \in Front : f \in Nat /\ Parent[f] \in Nat /\ Parent[f] > f /\ Parent[f] \in 1..Root
  <2> TAKE f \in Front
  <2>1. f \in Nat /\ Parent[f] \in 2..Root /\ Parent[f] > f
    BY <1>1, AssemblyTreeAssumption DEF Front
  <2> QED
    BY <1>1, <2>1
<1>3. Subtree \subseteq Front /\ \A f \in Front : Parent[f] \notin Subtree
  BY AssemblyTreeAssumption
<1>4. \A f \in Front : Parent[f] \in (Front \ Subtree) \cup {Root}
  <2> TAKE f \in Front
  <2>1. Parent[f] \in Front \/ Parent[f] = Root
    BY <1>1, <1>2 DEF Front
  <2> QED
    BY <1>3, <2>1
<1>5. \A f \in Front : HasContrib(f) => Parent[f] \in Front \ Subtree
  BY <1>4 DEF HasContrib
<1>6. \A f \in 1..Root : Children(f) = {c \in Front : Parent[c] = f}
  BY DEF Children, ChildrenOf
<1> QED
  BY <1>1, <1>2, <1>3, <1>4, <1>5, <1>6

Inner == Task \ MainTasks

InnerKinds == FactorKinds \cup ChildKinds \cup {"fini_node"}

LEMMA TaskShape ==
  ASSUME NEW t \in Task
  PROVE  /\ t = <<t[1], t[2]>>
         /\ t[2] \in 1..Root
         /\ t[1] # "fini_cnodes" => t[2] \in Front
         /\ t[1] \in OuterKinds \cup {"factor_subtree", "fini_cnodes"} \cup InnerKinds
         /\ t \in Inner <=> t[1] \in InnerKinds
         /\ t[1] \in OuterKinds \cup FactorKinds \cup {"fini_node"} => t[2] \in Front \ Subtree
         /\ t[1] = "factor_subtree" => t[2] \in Subtree
         /\ t[1] = "fini_cnodes" => t[2] \in (Front \ Subtree) \cup {Root}
<1> USE DEF Inner, MainTasks, InnerKinds, OuterKinds, FactorKinds, ChildKinds
<1>0. Front \subseteq 1..Root /\ Root \in 1..Root /\ Subtree \subseteq Front
  BY TreeFacts DEF Front
<1>1. CASE t \in (OuterKinds \cup FactorKinds \cup {"fini_node"}) \X (Front \ Subtree)
  <2>1. t = <<t[1], t[2]>> /\ t[1] \in (OuterKinds \cup FactorKinds \cup {"fini_node"}) /\ t[2] \in (Front \ Subtree)
    BY <1>1
  <2>2. t \in Inner <=> t[1] \in InnerKinds
    BY <2>1
  <2> QED
    BY <1>0, <2>1, <2>2
<1>2. CASE t \in ChildKinds \X Front
  <2>1. t = <<t[1], t[2]>> /\ t[1] \in ChildKinds /\ t[2] \in Front
    BY <1>2
  <2>2. t \in Inner <=> t[1] \in InnerKinds
    BY <2>1
  <2> QED
    BY <1>0, <2>1, <2>2
<1>3. CASE t \in {"factor_subtree"} \X Subtree
  <2>1. t = <<t[1], t[2]>> /\ t[1] \in {"factor_subtree"} /\ t[2] \in Subtree
    BY <1>3
  <2>2. t \in Inner <=> t[1] \in InnerKinds
    BY <2>1
  <2> QED
    BY <1>0, <2>1, <2>2
<1>4. CASE t \in {"fini_cnodes"} \X ((Front \ Subtree) \cup {Root})
  <2>1. t = <<t[1], t[2]>> /\ t[1] \in {"fini_cnodes"} /\ t[2] \in ((Front \ Subtree) \cup {Root})
    BY <1>4
  <2>2. t \in Inner <=> t[1] \in InnerKinds
    BY <2>1
  <2> QED
    BY <1>0, <2>1, <2>2
<1> QED
  BY <1>1, <1>2, <1>3, <1>4 DEF Task

LEMMA TaskOf ==
  ASSUME NEW k, NEW f
  PROVE  /\ k \in OuterKinds \cup FactorKinds \cup {"fini_node"} /\ f \in Front \ Subtree
              => <<k, f>> \in Task
         /\ k \in ChildKinds /\ f \in Front => <<k, f>> \in Task
         /\ f \in Subtree => <<"factor_subtree", f>> \in Task
         /\ f \in (Front \ Subtree) \cup {Root} => <<"fini_cnodes", f>> \in Task
BY DEF Task

LEMMA AccessOf ==
  ASSUME NEW t \in Task
  PROVE  /\ Access[t] = TaskAccess(t)
         /\ Handles[t] = TaskAccess(t).r \cup TaskAccess(t).rw \cup TaskAccess(t).c
BY TableIs DEF Access, Handles

LEMMA ConflictIf ==
  ASSUME NEW t \in Task, NEW u \in Task, u # t, NEW h,
         \/ h \in Access[u].rw /\ h \in Handles[t]
         \/ h \in Handles[u] /\ h \in Access[t].rw
         \/ h \in Access[u].c /\ h \in Access[t].r
         \/ h \in Access[u].r /\ h \in Access[t].c
  PROVE  u \in Conflicts[t]
<1>1. Clash(u, t)
  BY DEF Clash
<1> QED
  BY <1>1, TableIs DEF Conflicts

LEMMA ConflictTask ==
  ASSUME NEW t \in Task, NEW u \in Conflicts[t]
  PROVE  u \in Task /\ u # t
BY TableIs DEF Conflicts

(* What TaskAccess says of each kind of task.                               *)
LEMMA AccessByKind ==
  ASSUME NEW f
  PROVE  /\ TaskAccess(<<"factor_subtree", f>>) = [r |-> {}, rw |-> {H(f)}, c |-> {}]
         /\ TaskAccess(<<"factor_front_indef", f>>) = [r |-> {}, rw |-> {H(f)}, c |-> {}]
         /\ TaskAccess(<<"nelim_sync", f>>) = [r |-> {}, rw |-> {H(f)}, c |-> {}]
         /\ TaskAccess(<<"activate_init_node", f>>) = ReadsChildren(f)
         /\ TaskAccess(<<"assemble", f>>) = ReadsChildren(f)
         /\ TaskAccess(<<"assemble_contrib", f>>) = ReadsChildren(f)
         /\ TaskAccess(<<"fini_cnodes", f>>) = insert_fini_cnodes(f)
         /\ TaskAccess(<<"factor_front_indef_app", f>>)
              = [r |-> {}, rw |-> {Hblk(f), Hcol(f)}, c |-> {}]
         /\ TaskAccess(<<"update_contrib_block_app", f>>)
              = [r |-> {Hblk(f), Hcol(f), Hcontrib(f)}, rw |-> {}, c |-> {Htile(f)}]
         /\ TaskAccess(<<"factor_front_indef_failed", f>>) = insert_factor_front_indef_failed(f)
         /\ TaskAccess(<<"assemble_delays", f>>) = insert_assemble_delays(f)
         /\ TaskAccess(<<"assemble_block", f>>) = insert_assemble_block(f)
         /\ TaskAccess(<<"assemble_contrib_block", f>>) = insert_assemble_contrib_block(f)
         /\ TaskAccess(<<"fini_node", f>>) = [r |-> {}, rw |-> {Hblk(f), H(f)}, c |-> {}]
BY DEF TaskAccess

(* The modes in which the tasks of a front p, and those that bring something *)
(* from a child c, hold the handles that order them.                        *)
LEMMA OuterAccess ==
  ASSUME NEW p \in Front \ Subtree, NEW k \in OuterKinds
  PROVE  H(p) \in Access[<<k, p>>].rw
<1>1. <<k, p>> \in Task
  BY TaskOf
<1>2. Access[<<k, p>>] = TaskAccess(<<k, p>>)
  BY <1>1, AccessOf
<1>3. TaskAccess(<<k, p>>) \in {[r |-> {}, rw |-> {H(p)}, c |-> {}], ReadsChildren(p)}
  <2>1. CASE k \in {"activate_init_node", "assemble", "assemble_contrib"}
    BY <2>1, AccessByKind
  <2>2. CASE k \in {"factor_front_indef", "nelim_sync"}
    BY <2>2, AccessByKind
  <2> QED
    BY <2>1, <2>2 DEF OuterKinds
<1> QED
  BY <1>2, <1>3 DEF ReadsChildren

LEMMA ReaderAccess ==
  ASSUME NEW p \in Front \ Subtree, NEW c \in Children(p),
         NEW k \in {"activate_init_node", "assemble", "assemble_contrib"}
  PROVE  H(c) \in Handles[<<k, p>>]
<1>1. <<k, p>> \in Task
  BY TaskOf DEF OuterKinds
<1>2. Handles[<<k, p>>] = TaskAccess(<<k, p>>).r \cup TaskAccess(<<k, p>>).rw \cup TaskAccess(<<k, p>>).c
  BY <1>1, AccessOf
<1>3. TaskAccess(<<k, p>>) = ReadsChildren(p)
  BY AccessByKind
<1> QED
  BY <1>2, <1>3 DEF ReadsChildren

LEMMA FiniAccess ==
  ASSUME NEW p \in (Front \ Subtree) \cup {Root}
  PROVE  /\ H(p) \in Handles[<<"fini_cnodes", p>>]
         /\ \A c \in Children(p) : H(c) \in Handles[<<"fini_cnodes", p>>]
<1> DEFINE t == <<"fini_cnodes", p>>
<1>1. t \in Task
  BY TaskOf
<1>2. Handles[t] = TaskAccess(t).r \cup TaskAccess(t).rw \cup TaskAccess(t).c
  BY <1>1, AccessOf
<1>3. TaskAccess(t) = insert_fini_cnodes(p)
  BY AccessByKind
<1> QED
  BY <1>2, <1>3 DEF insert_fini_cnodes

LEMMA SubtreeAccess ==
  ASSUME NEW p \in Subtree
  PROVE  H(p) \in Access[<<"factor_subtree", p>>].rw
<1>1. <<"factor_subtree", p>> \in Task
  BY TaskOf
<1>2. Access[<<"factor_subtree", p>>] = TaskAccess(<<"factor_subtree", p>>)
  BY <1>1, AccessOf
<1>3. TaskAccess(<<"factor_subtree", p>>) = [r |-> {}, rw |-> {H(p)}, c |-> {}]
  BY AccessByKind
<1> QED
  BY <1>2, <1>3

LEMMA FactorAccess ==
  ASSUME NEW f \in Front \ Subtree
  PROVE  /\ Access[<<"factor_front_indef_app", f>>].rw = {Hblk(f), Hcol(f)}
         /\ Hcontrib(f) \in Handles[<<"update_contrib_block_app", f>>]
         /\ Access[<<"factor_front_indef_failed", f>>].rw = {Hcol(f), Hcontrib(f)}
         /\ Access[<<"fini_node", f>>].rw = {Hblk(f), H(f)}
<1>1. \A k \in FactorKinds \cup {"fini_node"} : <<k, f>> \in Task
  BY TaskOf
<1>2. /\ <<"factor_front_indef_app", f>> \in Task /\ <<"update_contrib_block_app", f>> \in Task
      /\ <<"factor_front_indef_failed", f>> \in Task /\ <<"fini_node", f>> \in Task
  BY <1>1 DEF FactorKinds
<1>3. Access[<<"factor_front_indef_app", f>>].rw = {Hblk(f), Hcol(f)}
  <2>1. Access[<<"factor_front_indef_app", f>>] = [r |-> {}, rw |-> {Hblk(f), Hcol(f)}, c |-> {}]
    BY <1>2, AccessOf, AccessByKind
  <2> QED BY <2>1
<1>4. Access[<<"fini_node", f>>].rw = {Hblk(f), H(f)}
  <2>1. Access[<<"fini_node", f>>] = [r |-> {}, rw |-> {Hblk(f), H(f)}, c |-> {}]
    BY <1>2, AccessOf, AccessByKind
  <2> QED BY <2>1
<1>5. Hcontrib(f) \in Handles[<<"update_contrib_block_app", f>>]
  <2> DEFINE t == <<"update_contrib_block_app", f>>
  <2>1. TaskAccess(t) = [r |-> {Hblk(f), Hcol(f), Hcontrib(f)}, rw |-> {}, c |-> {Htile(f)}]
    BY AccessByKind
  <2>2. Handles[t] = TaskAccess(t).r \cup TaskAccess(t).rw \cup TaskAccess(t).c
    BY <1>2, AccessOf
  <2> QED BY <2>1, <2>2
<1>6. Access[<<"factor_front_indef_failed", f>>].rw = {Hcol(f), Hcontrib(f)}
  <2>1. Access[<<"factor_front_indef_failed", f>>] = insert_factor_front_indef_failed(f)
    BY <1>2, AccessOf, AccessByKind
  <2> QED BY <2>1 DEF insert_factor_front_indef_failed
<1> QED
  BY <1>3, <1>4, <1>5, <1>6

LEMMA ChildAccess ==
  ASSUME NEW c \in Front
  PROVE  /\ Hblk(Parent[c]) \in Access[<<"assemble_delays", c>>].rw
         /\ c \notin Subtree => Hblk(c) \in Handles[<<"assemble_delays", c>>]
         /\ Hblk(Parent[c]) \in Access[<<"assemble_block", c>>].rw
         /\ H(c) \in Handles[<<"assemble_block", c>>]
         /\ c \notin Subtree => Htile(c) \in Access[<<"assemble_block", c>>].r
         /\ Htile(Parent[c]) \in Access[<<"assemble_contrib_block", c>>].rw
                                   \cup Access[<<"assemble_contrib_block", c>>].c
         /\ {H(c), Hcontrib(Parent[c])} \subseteq Handles[<<"assemble_contrib_block", c>>]
         /\ c \notin Subtree => Htile(c) \in Access[<<"assemble_contrib_block", c>>].r
<1>1. /\ <<"assemble_delays", c>> \in Task /\ <<"assemble_block", c>> \in Task
      /\ <<"assemble_contrib_block", c>> \in Task
  BY TaskOf DEF ChildKinds
<1>2. /\ Access[<<"assemble_delays", c>>] = insert_assemble_delays(c)
      /\ Handles[<<"assemble_delays", c>>] = insert_assemble_delays(c).r
           \cup insert_assemble_delays(c).rw \cup insert_assemble_delays(c).c
  BY <1>1, AccessOf, AccessByKind
<1>3. /\ Access[<<"assemble_block", c>>] = insert_assemble_block(c)
      /\ Handles[<<"assemble_block", c>>] = insert_assemble_block(c).r
           \cup insert_assemble_block(c).rw \cup insert_assemble_block(c).c
  BY <1>1, AccessOf, AccessByKind
<1>4. /\ Access[<<"assemble_contrib_block", c>>] = insert_assemble_contrib_block(c)
      /\ Handles[<<"assemble_contrib_block", c>>] = insert_assemble_contrib_block(c).r
           \cup insert_assemble_contrib_block(c).rw \cup insert_assemble_contrib_block(c).c
  BY <1>1, AccessOf, AccessByKind
<1>5. /\ Hblk(Parent[c]) \in Access[<<"assemble_delays", c>>].rw
      /\ c \notin Subtree => Hblk(c) \in Handles[<<"assemble_delays", c>>]
  BY <1>2 DEF insert_assemble_delays
<1>6. /\ Hblk(Parent[c]) \in Access[<<"assemble_block", c>>].rw
      /\ H(c) \in Handles[<<"assemble_block", c>>]
      /\ c \notin Subtree => Htile(c) \in Access[<<"assemble_block", c>>].r
  BY <1>3 DEF insert_assemble_block
<1>7. /\ Htile(Parent[c]) \in Access[<<"assemble_contrib_block", c>>].rw
                                \cup Access[<<"assemble_contrib_block", c>>].c
      /\ {H(c), Hcontrib(Parent[c])} \subseteq Handles[<<"assemble_contrib_block", c>>]
      /\ c \notin Subtree => Htile(c) \in Access[<<"assemble_contrib_block", c>>].r
  BY <1>4 DEF insert_assemble_contrib_block
<1> QED
  BY <1>5, <1>6, <1>7

-----------------------------------------------------------------------------
(* What comes before what.                                                  *)

InitDeps(t) == (Conflicts[t] \cap EarlierInMain(t)) \cup nelim_sync_deps(t)

LEMMA MainOf ==
  ASSUME NEW t \in Task
  PROVE  /\ t \in MainTasks <=> t[1] \in OuterKinds \cup {"factor_subtree", "fini_cnodes"}
         /\ t \in Inner <=> t \notin MainTasks
BY DEF MainTasks, Inner

LEMMA SameFront ==
  ASSUME NEW p \in Front \ Subtree, NEW k \in OuterKinds, NEW l \in OuterKinds \cup {"fini_cnodes"},
         MainPlace[k] < MainPlace[l]
  PROVE  <<k, p>> \in InitDeps(<<l, p>>)
<1>1. <<k, p>> \in Task /\ <<l, p>> \in Task
  BY TaskOf
<1>2. k # l
  BY DEF MainPlace, OuterKinds
<1>3. H(p) \in Access[<<k, p>>].rw
  BY OuterAccess
<1>4. H(p) \in Handles[<<l, p>>]
  <2>1. CASE l \in OuterKinds
    BY <2>1, <1>1, OuterAccess, AccessOf
  <2>2. CASE l = "fini_cnodes"
    BY <2>2, FiniAccess
  <2> QED
    BY <2>1, <2>2
<1>5. <<k, p>> \in Conflicts[<<l, p>>]
  <2>1. <<k, p>> # <<l, p>>
    BY <1>2
  <2> QED
    BY <1>1, <2>1, <1>3, <1>4, ConflictIf
<1>6. <<k, p>> \in EarlierInMain(<<l, p>>)
  BY <1>1, MainOf DEF EarlierInMain, OuterKinds
<1> QED
  BY <1>5, <1>6 DEF InitDeps

(* The tasks of a child come before the tasks of its parent that read its   *)
(* handle.                                                                  *)
ReaderKinds == {"activate_init_node", "assemble", "assemble_contrib", "fini_cnodes"}

LEMMA ReaderFacts ==
  ASSUME NEW p \in (Front \ Subtree) \cup {Root}, NEW c \in Children(p), NEW l \in ReaderKinds,
         l # "fini_cnodes" => p # Root
  PROVE  /\ <<l, p>> \in Task /\ H(c) \in Handles[<<l, p>>]
         /\ c \in Front /\ c < p /\ p # c /\ Parent[c] = p
<1>1. <<l, p>> \in Task
  BY TaskOf DEF ReaderKinds, OuterKinds
<1>2. H(c) \in Handles[<<l, p>>]
  BY FiniAccess, ReaderAccess DEF ReaderKinds
<1>3. p \in 1..Root
  BY TreeFacts DEF Front
<1>4. c \in Front /\ Parent[c] = p
  BY <1>3, TreeFacts
<1>5. c \in Nat /\ Parent[c] \in Nat /\ Parent[c] > c
  BY <1>4, TreeFacts
<1> QED
  BY <1>1, <1>2, <1>4, <1>5

LEMMA ChildFirst ==
  ASSUME NEW p \in (Front \ Subtree) \cup {Root}, NEW c \in Children(p) \ Subtree,
         NEW k \in OuterKinds, NEW l \in ReaderKinds,
         l # "fini_cnodes" => p # Root
  PROVE  <<k, c>> \in InitDeps(<<l, p>>)
<1>1. /\ <<l, p>> \in Task /\ H(c) \in Handles[<<l, p>>]
      /\ c \in Front \ Subtree /\ c < p /\ c # p
  BY ReaderFacts
<1>2. <<k, c>> \in Task /\ H(c) \in Access[<<k, c>>].rw
  BY <1>1, TaskOf, OuterAccess
<1>3. <<k, c>> \in Conflicts[<<l, p>>]
  <2>1. <<k, c>> # <<l, p>>
    BY <1>1
  <2> QED
    BY <1>1, <1>2, <2>1, ConflictIf
<1>4. <<k, c>> \in EarlierInMain(<<l, p>>)
  BY <1>1, <1>2, MainOf DEF EarlierInMain, ReaderKinds
<1> QED
  BY <1>3, <1>4 DEF InitDeps

LEMMA SubtreeFirst ==
  ASSUME NEW p \in (Front \ Subtree) \cup {Root}, NEW c \in Children(p) \cap Subtree,
         NEW l \in ReaderKinds,
         l # "fini_cnodes" => p # Root
  PROVE  <<"factor_subtree", c>> \in InitDeps(<<l, p>>)
<1>1. /\ <<l, p>> \in Task /\ H(c) \in Handles[<<l, p>>]
      /\ c \in Front /\ c < p /\ c # p
  BY ReaderFacts
<1>2. <<"factor_subtree", c>> \in Task /\ H(c) \in Access[<<"factor_subtree", c>>].rw
  BY TaskOf, SubtreeAccess
<1>3. <<"factor_subtree", c>> \in Conflicts[<<l, p>>]
  <2>1. <<"factor_subtree", c>> # <<l, p>>
    BY <1>1
  <2> QED
    BY <1>1, <1>2, <2>1, ConflictIf
<1>4. <<"factor_subtree", c>> \in EarlierInMain(<<l, p>>)
  BY <1>1, <1>2, MainOf DEF EarlierInMain, ReaderKinds
<1> QED
  BY <1>3, <1>4 DEF InitDeps

(* The task that submits each task that the main thread does not.           *)
SubmitterOf(t) ==
  IF t[1] \in {"assemble_delays", "assemble_block"} THEN <<"assemble", Parent[t[2]]>>
  ELSE IF t[1] = "assemble_contrib_block" THEN <<"assemble_contrib", Parent[t[2]]>>
  ELSE IF t[1] = "fini_node" THEN <<"fini_cnodes", Parent[t[2]]>>
  ELSE <<"factor_front_indef", t[2]>>

LEMMA CodeIs ==
  ASSUME NEW s \in Submitter
  PROVE  /\ s[1] = "assemble" => Code[s] = assemble(s[2])
         /\ s[1] = "factor_front_indef" => Code[s] = factor_front_indef(s[2])
         /\ s[1] = "assemble_contrib" => Code[s] = assemble_contrib(s[2])
         /\ s[1] = "fini_cnodes" => Code[s] = fini_cnodes(s[2])
         /\ s[1] \in Submitters
         /\ s \in Task /\ s \in MainTasks /\ s = <<s[1], s[2]>>
<1>1. /\ s \in Task /\ s = <<s[1], s[2]>> /\ s[1] \in Submitters
  BY TaskShape DEF Submitter
<1>2. s \in MainTasks
  BY <1>1, MainOf DEF Submitters, OuterKinds
<1>3. Code[s] = Calls(s)
  BY TableIs DEF Code
<1> QED
  BY <1>1, <1>2, <1>3 DEF Calls

OtherOps == {"nelim", "unregister_submit_symb"}

LEMMA CodeOps ==
  ASSUME NEW s \in Submitter, NEW op \in Code[s]
  PROVE  /\ op = <<op[1], op[2]>> /\ op[2] \in Front
         /\ op[1] \notin OtherOps => op \in Inner /\ s = SubmitterOf(op)
         /\ op[1] \in OtherOps => op \notin Task
<1>0. s \in Task /\ s = <<s[1], s[2]>> /\ s[1] \in Submitters
  BY CodeIs
<1>1. CASE s[1] = "assemble"
  <2>1. s[2] \in Front \ Subtree /\ op \in {"assemble_delays", "assemble_block"} \X Children(s[2])
    BY <1>1, <1>0, CodeIs, TaskShape DEF assemble, OuterKinds
  <2>2. op = <<op[1], op[2]>> /\ op[1] \in {"assemble_delays", "assemble_block"} /\ op[2] \in Children(s[2])
    BY <2>1
  <2>3. op[2] \in Front /\ Parent[op[2]] = s[2]
    BY <2>1, <2>2, TreeFacts DEF Front
  <2>4. op \in Inner
    BY <2>2, <2>3, TaskOf, MainOf DEF ChildKinds, OuterKinds
  <2> QED
    BY <1>0, <1>1, <2>2, <2>3, <2>4 DEF SubmitterOf, OtherOps
<1>2. CASE s[1] = "factor_front_indef"
  <2>1. s[2] \in Front \ Subtree /\ op \in factor_front_indef(s[2])
    BY <1>2, <1>0, CodeIs, TaskShape DEF OuterKinds
  <2>2. op = <<op[1], op[2]>> /\ op[1] \in FactorKinds \cup {"nelim"} /\ op[2] = s[2]
    BY <2>1 DEF factor_front_indef, FactorKinds
  <2>3. op[1] # "nelim" => op \in Inner
    BY <2>1, <2>2, TaskOf, MainOf DEF FactorKinds, OuterKinds
  <2>4. op[1] = "nelim" => op \notin Task
    BY TaskShape DEF OuterKinds, InnerKinds, ChildKinds, FactorKinds
  <2>5. op[1] # "nelim" => SubmitterOf(op) = s
    BY <1>0, <1>2, <2>2 DEF SubmitterOf, FactorKinds
  <2> QED
    BY <2>1, <2>2, <2>3, <2>4, <2>5 DEF OtherOps, FactorKinds
<1>3. CASE s[1] = "assemble_contrib"
  <2>1. s[2] \in Front \ Subtree /\ op \in {"assemble_contrib_block"} \X Children(s[2])
    BY <1>3, <1>0, CodeIs, TaskShape DEF assemble_contrib, OuterKinds
  <2>2. op = <<op[1], op[2]>> /\ op[1] = "assemble_contrib_block" /\ op[2] \in Children(s[2])
    BY <2>1
  <2>3. op[2] \in Front /\ Parent[op[2]] = s[2]
    BY <2>1, <2>2, TreeFacts DEF Front
  <2>4. op \in Inner
    BY <2>2, <2>3, TaskOf, MainOf DEF ChildKinds, OuterKinds
  <2> QED
    BY <1>0, <1>3, <2>2, <2>3, <2>4 DEF SubmitterOf, OtherOps
<1>4. CASE s[1] = "fini_cnodes"
  <2>1. s[2] \in (Front \ Subtree) \cup {Root} /\ op \in fini_cnodes(s[2])
    BY <1>4, <1>0, CodeIs, TaskShape
  <2>2. /\ op = <<op[1], op[2]>> /\ op[2] \in Children(s[2])
        /\ \/ op[1] = "fini_node" /\ op[2] \notin Subtree
           \/ op[1] = "unregister_submit_symb"
    BY <2>1 DEF fini_cnodes
  <2>3. op[2] \in Front /\ Parent[op[2]] = s[2]
    BY <2>1, <2>2, TreeFacts DEF Front
  <2>4. op[1] = "fini_node" => op \in Inner
    BY <2>2, <2>3, TaskOf, MainOf DEF OuterKinds
  <2>5. op[1] = "unregister_submit_symb" => op \notin Task
    BY TaskShape DEF OuterKinds, InnerKinds, ChildKinds, FactorKinds
  <2> QED
    BY <1>0, <1>4, <2>2, <2>3, <2>4, <2>5 DEF SubmitterOf, OtherOps
<1> QED
  BY <1>0, <1>1, <1>2, <1>3, <1>4 DEF Submitters

-----------------------------------------------------------------------------
(* The runtime: a task starts once those before it are past.                *)

Started(t) == status[t] \in {"running", "done"}

(* A child without delayed columns has no task to bring them.               *)
Skipped(u) ==
  /\ u[1] = "assemble_delays" /\ status[u] = "unsubmitted"
  /\ SubmitterOf(u) \in Submitter /\ u \in sent[SubmitterOf(u)]

Past(u) == status[u] = "done" \/ Skipped(u)

Submits(s, u) == s \in Submitter /\ u \in Code[s] /\ u \in Inner

Ahead(u, t) ==
  \/ t \in MainTasks /\ u \in InitDeps(t) /\ u[1] # "assemble_delays"
  \/ /\ u \in Conflicts[t]
     /\ \E s, r \in Submitter :
          /\ Submits(s, t) /\ Submits(r, u)
          /\ \/ r = s /\ Earlier(u, t)
             \/ r \in InitDeps(s)

FlowTypeOK ==
  /\ status \in [Task -> Statuses]
  /\ DOMAIN deps = Task /\ DOMAIN sent = Submitter
  /\ \A s \in Submitter : sent[s] \subseteq Code[s]

MainSubmitted == \A t \in MainTasks : status[t] # "unsubmitted"

SentByStarted ==
  \A s \in Submitter :
    /\ sent[s] # {} => Started(s)
    /\ status[s] = "done" => sent[s] = Code[s]

SubmittedSent ==
  \A t \in Inner :
    status[t] # "unsubmitted" => SubmitterOf(t) \in Submitter /\ t \in sent[SubmitterOf(t)]

SentSubmitted ==
  \A s \in Submitter : \A t \in sent[s] :
    t \in Inner /\ t[1] # "assemble_delays" => status[t] # "unsubmitted"

Order ==
  \A t, u \in Task :
    Ahead(u, t) /\ status[t] # "unsubmitted"
    => Past(u) \/ (status[t] = "submitted" /\ u \in deps[t])

FlowInv ==
  FlowTypeOK /\ MainSubmitted /\ SentByStarted /\ SubmittedSent /\ SentSubmitted /\ Order

(* The three ways in which a step changes the flow.                         *)
StartFlow(t) ==
  /\ status[t] = "submitted" /\ deps[t] = {}
  /\ status' = [status EXCEPT ![t] = "running"]
  /\ UNCHANGED <<deps, sent>>

FinishFlow(t) ==
  /\ t \in Submitter => Ended(t)
  /\ Finish(t)

SubmitFlow(s, op) ==
  /\ status[s] = "running"
  /\ op \in Code[s] \ sent[s]
  /\ \A o \in Code[s] : Earlier(o, op) => o \in sent[s]
  /\ sent' = [sent EXCEPT ![s] = @ \cup {op}]
  /\ \/ op[1] \notin OtherOps /\ SubmitTask(op)
     \/ op[1] \in OtherOps \cup {"assemble_delays"} /\ UNCHANGED <<status, deps>>

LEMMA SubmitIsFlow ==
  ASSUME NEW s \in Submitter, NEW op \in Code[s], Submit(s, op)
  PROVE  SubmitFlow(s, op)
BY DEF Submit, SubmitFlow, OtherOps

ComputeKinds == {"factor_subtree", "activate_init_node"} \cup InnerKinds

LEMMA NotSubmitter ==
  ASSUME NEW k \in ComputeKinds \cup {"nelim_sync"}, NEW f
  PROVE  <<k, f>> \notin Submitter
BY DEF Submitter, Submitters, ComputeKinds, InnerKinds, FactorKinds, ChildKinds

Compute(f) ==
  \/ factor_subtree(f)            \/ activate_init_node(f)
  \/ factor_front_indef_app(f)    \/ update_contrib_block_app(f)
  \/ factor_front_indef_failed(f) \/ assemble_delays(f)
  \/ assemble_block(f)            \/ assemble_contrib_block(f)
  \/ fini_node(f)

LEMMA ComputeFinishes ==
  ASSUME NEW f \in Front, Compute(f)
  PROVE  \E k \in ComputeKinds : Finish(<<k, f>>)
<1> USE DEF ComputeKinds, InnerKinds, FactorKinds, ChildKinds
<1>1. CASE factor_subtree(f)
  BY <1>1 DEF factor_subtree
<1>2. CASE activate_init_node(f)
  BY <1>2 DEF activate_init_node
<1>3. CASE factor_front_indef_app(f)
  BY <1>3 DEF factor_front_indef_app
<1>4. CASE update_contrib_block_app(f)
  BY <1>4 DEF update_contrib_block_app
<1>5. CASE factor_front_indef_failed(f)
  BY <1>5 DEF factor_front_indef_failed
<1>6. CASE assemble_delays(f)
  BY <1>6 DEF assemble_delays
<1>7. CASE assemble_block(f)
  BY <1>7 DEF assemble_block
<1>8. CASE assemble_contrib_block(f)
  BY <1>8 DEF assemble_contrib_block
<1>9. CASE fini_node(f)
  BY <1>9 DEF fini_node
<1> QED
  BY <1>1, <1>2, <1>3, <1>4, <1>5, <1>6, <1>7, <1>8, <1>9 DEF Compute

LEMMA NextFlow ==
  ASSUME [Next]_vars
  PROVE  \/ \E t \in Task : Start(t) /\ StartFlow(t)
         \/ \E t \in Task : FinishFlow(t)
         \/ \E s \in Submitter : \E op \in Code[s] : SubmitFlow(s, op)
         \/ UNCHANGED <<status, deps, sent>>
<1>1. ASSUME NEW s \in Submitter, NEW op \in Code[s], Submit(s, op) PROVE SubmitFlow(s, op)
  BY <1>1, SubmitIsFlow
<1>2. ASSUME NEW t \in Task, Start(t) PROVE Start(t) /\ StartFlow(t)
  BY <1>2 DEF Start, StartFlow
<1>3. ASSUME NEW t \in Task, EndSubmitter(t) PROVE FinishFlow(t)
  BY <1>3 DEF EndSubmitter, FinishFlow
<1>4. ASSUME NEW f \in Front, Compute(f) PROVE \E t \in Task : FinishFlow(t)
  <2>1. PICK k \in ComputeKinds : Finish(<<k, f>>)
    BY <1>4, ComputeFinishes
  <2>2. <<k, f>> \in Task
    BY <2>1 DEF Finish
  <2>3. <<k, f>> \notin Submitter
    BY NotSubmitter
  <2> QED
    BY <2>1, <2>2, <2>3 DEF FinishFlow
<1>5. CASE UNCHANGED vars
  BY <1>5 DEF vars, flowVars
<1>6. CASE Next
  BY <1>6, <1>1, <1>2, <1>3, <1>4, <1>5 DEF Next, Compute, Terminated
<1> QED
  BY <1>5, <1>6

LEMMA FlowInit == Init => FlowInv
<1> SUFFICES ASSUME Init PROVE FlowInv
  OBVIOUS
<1> USE DEF Init
<1>1. FlowTypeOK
  BY DEF FlowTypeOK, Statuses
<1>2. MainSubmitted
  BY DEF MainSubmitted, MainTasks
<1>3. SentByStarted
  BY CodeIs DEF SentByStarted, Started
<1>4. SubmittedSent /\ SentSubmitted
  BY DEF SubmittedSent, SentSubmitted, Inner
<1>5. Order
  <2> SUFFICES ASSUME NEW t \in Task, NEW u \in Task, Ahead(u, t), status[t] # "unsubmitted"
               PROVE  status[t] = "submitted" /\ u \in deps[t]
    BY DEF Order
  <2>1. t \in MainTasks /\ status[t] = "submitted"
    OBVIOUS
  <2>2. u \in InitDeps(t)
    BY <2>1 DEF Ahead, Submits, Inner
  <2> QED
    BY <2>1, <2>2 DEF InitDeps
<1> QED
  BY <1>1, <1>2, <1>3, <1>4, <1>5 DEF FlowInv

LEMMA FlowStart ==
  ASSUME FlowInv, NEW v \in Task, StartFlow(v)
  PROVE  FlowInv'
<1> USE DEF FlowInv, FlowTypeOK, StartFlow
<1>1. \A t \in Task : status'[t] = IF t = v THEN "running" ELSE status[t]
  OBVIOUS
<1>2. FlowTypeOK'
  BY DEF Statuses
<1>3. MainSubmitted'
  BY <1>1 DEF MainSubmitted, MainTasks
<1>4. SentByStarted'
  BY <1>1, CodeIs DEF SentByStarted, Started
<1>5. SubmittedSent' /\ SentSubmitted'
  BY <1>1 DEF SubmittedSent, SentSubmitted, Inner
<1>6. Order'
  <2> SUFFICES ASSUME NEW t \in Task, NEW u \in Task, Ahead(u, t), status'[t] # "unsubmitted"
               PROVE  Past(u)' \/ (status'[t] = "submitted" /\ u \in deps'[t])
    BY DEF Order, Ahead, Submits
  <2>1. Past(u) \/ (status[t] = "submitted" /\ u \in deps[t])
    BY <1>1 DEF Order
  <2>2. Past(u) => Past(u)'
    BY <1>1 DEF Past, Skipped
  <2> QED
    BY <1>1, <2>1, <2>2
<1> QED
  BY <1>2, <1>3, <1>4, <1>5, <1>6

LEMMA FlowFinish ==
  ASSUME FlowInv, NEW v \in Task, FinishFlow(v)
  PROVE  FlowInv'
<1> USE DEF FlowInv, FlowTypeOK, FinishFlow, Finish
<1>1. \A t \in Task : status'[t] = IF t = v THEN "done" ELSE status[t]
  OBVIOUS
<1>2. FlowTypeOK'
  BY DEF Statuses
<1>3. MainSubmitted'
  BY <1>1 DEF MainSubmitted, MainTasks
<1>4. SentByStarted'
  BY <1>1, CodeIs DEF SentByStarted, Started, Ended
<1>5. SubmittedSent' /\ SentSubmitted'
  BY <1>1 DEF SubmittedSent, SentSubmitted, Inner
<1>6. Order'
  <2> SUFFICES ASSUME NEW t \in Task, NEW u \in Task, Ahead(u, t), status'[t] # "unsubmitted"
               PROVE  Past(u)' \/ (status'[t] = "submitted" /\ u \in deps'[t])
    BY DEF Order, Ahead, Submits
  <2>1. Past(u) \/ (status[t] = "submitted" /\ u \in deps[t])
    BY <1>1 DEF Order
  <2>2. Past(u) => Past(u)'
    BY <1>1 DEF Past, Skipped
  <2>3. status[t] = "submitted" /\ u \in deps[t] => u = v \/ (status'[t] = "submitted" /\ u \in deps'[t])
    BY <1>1
  <2>4. u = v => Past(u)'
    BY <1>1 DEF Past
  <2> QED
    BY <2>1, <2>2, <2>3, <2>4
<1> QED
  BY <1>2, <1>3, <1>4, <1>5, <1>6

LEMMA FlowSubmit ==
  ASSUME FlowInv, NEW s \in Submitter, NEW op \in Code[s], SubmitFlow(s, op)
  PROVE  FlowInv'
<1> USE DEF FlowInv, FlowTypeOK, SubmitFlow
<1>0. /\ s \in Task /\ s \in MainTasks
      /\ op[1] \notin OtherOps => op \in Inner /\ s = SubmitterOf(op)
      /\ op[1] \in OtherOps => op \notin Task
  BY CodeIs, CodeOps
<1>1. \A r \in Submitter : sent'[r] = IF r = s THEN sent[s] \cup {op} ELSE sent[r]
  OBVIOUS
<1>2. \A t \in Task : \/ status'[t] = status[t] /\ deps'[t] = deps[t]
                      \/ /\ t = op /\ op[1] \notin OtherOps
                         /\ status'[t] = "submitted" /\ deps'[t] = Conflicts[t] \cap InFlight
  BY DEF SubmitTask
<1>3. op[1] \notin OtherOps => op \in Task /\ op \notin MainTasks /\ status[op] = "unsubmitted"
  BY <1>0 DEF Inner, SubmittedSent
<1>4. FlowTypeOK'
  BY <1>0, <1>1, <1>2 DEF Statuses, SubmitTask
<1>5. MainSubmitted'
  BY <1>2, <1>3 DEF MainSubmitted, MainTasks
<1>6. SentByStarted'
  <2> SUFFICES ASSUME NEW r \in Submitter
               PROVE  /\ sent'[r] # {} => Started(r)'
                      /\ status'[r] = "done" => sent'[r] = Code[r]
    BY DEF SentByStarted
  <2>1. r \in Task /\ r \in MainTasks
    BY CodeIs
  <2>2. status'[r] = status[r]
    BY <1>2, <1>3, <2>1
  <2> QED
    BY <1>1, <2>2 DEF SentByStarted, Started
<1>7. SubmittedSent'
  <2> SUFFICES ASSUME NEW t \in Inner, status'[t] # "unsubmitted"
               PROVE  SubmitterOf(t) \in Submitter /\ t \in sent'[SubmitterOf(t)]
    BY DEF SubmittedSent
  <2>1. CASE t = op /\ op[1] \notin OtherOps
    BY <2>1, <1>0, <1>1
  <2>2. CASE status'[t] = status[t]
    BY <2>2, <1>1 DEF SubmittedSent
  <2> QED
    BY <2>1, <2>2, <1>2 DEF Inner
<1>8. SentSubmitted'
  <2> SUFFICES ASSUME NEW r \in Submitter, NEW t \in sent'[r], t \in Inner, t[1] # "assemble_delays"
               PROVE  status'[t] # "unsubmitted"
    BY DEF SentSubmitted
  <2>1. CASE t \in sent[r]
    BY <2>1, <1>2 DEF SentSubmitted, Inner
  <2>2. CASE r = s /\ t = op
    <3>1. op[1] \notin OtherOps
      BY <2>2, <1>0 DEF Inner
    <3>2. SubmitTask(op)
      BY <3>1, <2>2
    <3> QED
      BY <3>1, <3>2, <1>3, <2>2 DEF SubmitTask
  <2> QED
    BY <2>1, <2>2, <1>1
<1>9. Order'
  <2> SUFFICES ASSUME NEW t \in Task, NEW u \in Task, Ahead(u, t), status'[t] # "unsubmitted"
               PROVE  Past(u)' \/ (status'[t] = "submitted" /\ u \in deps'[t])
    BY DEF Order, Ahead, Submits
  <2>1. Past(u) => Past(u)'
    <3>1. CASE status[u] = "done"
      BY <3>1, <1>2, <1>3 DEF Past
    <3>2. CASE Skipped(u)
      <4>1. ~ (u = op /\ op[1] \notin OtherOps)
        BY <3>2, <1>0 DEF Skipped
      <4> QED
        BY <3>2, <4>1, <1>1, <1>2 DEF Past, Skipped
    <3> QED
      BY <3>1, <3>2 DEF Past
  <2>2. CASE status'[t] = status[t] /\ deps'[t] = deps[t]
    BY <2>1, <2>2 DEF Order
  <2>3. CASE /\ t = op /\ op[1] \notin OtherOps
             /\ status'[t] = "submitted" /\ deps'[t] = Conflicts[t] \cap InFlight
    <3>1. t \in Inner /\ s = SubmitterOf(t)
      BY <2>3, <1>0
    <3>2. PICK q, r \in Submitter :
            /\ Submits(q, t) /\ Submits(r, u)
            /\ \/ r = q /\ Earlier(u, t)
               \/ r \in InitDeps(q)
      BY <3>1 DEF Ahead, Inner
    <3>2a. u \in Conflicts[t]
      BY <3>1 DEF Ahead, Inner
    <3>3. q = s /\ r = SubmitterOf(u) /\ u \in Inner /\ u[1] \notin OtherOps
      BY <3>1, <3>2, CodeOps DEF Submits, Inner
    <3>4. u \in sent[r]
      <4>1. CASE r = s /\ Earlier(u, t)
        BY <4>1, <2>3, <3>2 DEF Submits
      <4>2. CASE r \in InitDeps(s)
        <5>1. r \in Task /\ r \in MainTasks /\ r[1] \in Submitters /\ s \in MainTasks
          BY CodeIs
        <5>2. r[1] # "assemble_delays"
          BY <5>1 DEF Submitters
        <5>3. Ahead(r, s)
          BY <4>2, <5>1, <5>2 DEF Ahead
        <5>4. Past(r)
          BY <5>1, <5>3, <1>0 DEF Order
        <5>5. status[r] = "done"
          BY <5>2, <5>4 DEF Past, Skipped
        <5> QED
          BY <5>5, <3>2 DEF SentByStarted, Submits
      <4> QED
        BY <3>2, <3>3, <4>1, <4>2
    <3>5. CASE status[u] = "unsubmitted"
      <4>1. u[1] = "assemble_delays"
        BY <3>3, <3>4, <3>5 DEF SentSubmitted
      <4>2. Skipped(u)
        BY <3>2, <3>3, <3>4, <3>5, <4>1 DEF Skipped
      <4> QED
        BY <4>2, <2>1 DEF Past
    <3>6. CASE status[u] = "done"
      BY <3>6, <2>1 DEF Past
    <3>7. CASE status[u] \in {"submitted", "running"}
      BY <3>7, <2>3, <3>2a DEF InFlight
    <3> QED
      BY <3>5, <3>6, <3>7 DEF Statuses
  <2> QED
    BY <2>2, <2>3, <1>2
<1> QED
  BY <1>4, <1>5, <1>6, <1>7, <1>8, <1>9

LEMMA FlowStep == FlowInv /\ [Next]_vars => FlowInv'
<1> SUFFICES ASSUME FlowInv, [Next]_vars PROVE FlowInv'
  OBVIOUS
<1>1. CASE UNCHANGED <<status, deps, sent>>
  BY <1>1 DEF FlowInv, FlowTypeOK, MainSubmitted, SentByStarted, SubmittedSent, SentSubmitted,
              Order, Ahead, Past, Skipped, Started, Submits
<1> QED
  BY <1>1, NextFlow, FlowStart, FlowFinish, FlowSubmit

-----------------------------------------------------------------------------
(* What has happened once a task has started.                               *)

DoneTask(k, f) == status[<<k, f>>] = "done"
StartedTask(k, f) == Started(<<k, f>>)

LEMMA PastIfStarted ==
  ASSUME FlowInv, NEW t \in Task, NEW u \in Task, Ahead(u, t), Started(t)
  PROVE  /\ Past(u)
         /\ u[1] # "assemble_delays" => status[u] = "done"
BY DEF FlowInv, Order, Started, Past, Skipped

LEMMA DepDone ==
  ASSUME FlowInv, NEW t \in Task, t \in MainTasks, Started(t),
         NEW u \in InitDeps(t), u[1] # "assemble_delays", u \in Task
  PROVE  status[u] = "done"
BY PastIfStarted DEF Ahead

LEMMA EarlierDone ==
  ASSUME FlowInv, NEW p \in Front \ Subtree, NEW k \in OuterKinds,
         NEW l \in OuterKinds \cup {"fini_cnodes"}, MainPlace[k] < MainPlace[l],
         StartedTask(l, p)
  PROVE  DoneTask(k, p)
<1>1. <<k, p>> \in InitDeps(<<l, p>>)
  BY SameFront
<1>2. <<k, p>> \in Task /\ <<l, p>> \in Task
  BY TaskOf
<1>3. <<l, p>> \in MainTasks
  BY <1>2, MainOf
<1>4. k # "assemble_delays"
  BY DEF OuterKinds
<1> QED
  BY <1>1, <1>2, <1>3, <1>4, DepDone DEF DoneTask, StartedTask

(* The tag that the second pass notifies.                                   *)
LEMMA SyncedDone ==
  ASSUME FlowInv, NEW p \in Front \ Subtree, StartedTask("nelim_sync", p)
  PROVE  DoneTask("factor_front_indef_failed", p)
<1>1. <<"factor_front_indef_failed", p>> \in InitDeps(<<"nelim_sync", p>>)
  BY DEF InitDeps, nelim_sync_deps
<1>2. <<"factor_front_indef_failed", p>> \in Task /\ <<"nelim_sync", p>> \in Task
  BY TaskOf DEF OuterKinds, FactorKinds
<1>3. <<"nelim_sync", p>> \in MainTasks
  BY <1>2, MainOf DEF OuterKinds
<1> QED
  BY <1>1, <1>2, <1>3, DepDone DEF DoneTask, StartedTask

FrontDone(c) ==
  IF c \in Subtree THEN DoneTask("factor_subtree", c)
  ELSE /\ \A k \in OuterKinds : DoneTask(k, c)
       /\ DoneTask("factor_front_indef_failed", c)

LEMMA ChildrenDone ==
  ASSUME FlowInv, NEW p \in (Front \ Subtree) \cup {Root}, NEW l \in ReaderKinds,
         l # "fini_cnodes" => p # Root,
         StartedTask(l, p), NEW c \in Children(p)
  PROVE  FrontDone(c)
<1>1. /\ <<l, p>> \in Task /\ c \in Front
  BY ReaderFacts
<1>2. <<l, p>> \in MainTasks
  BY <1>1, MainOf DEF ReaderKinds, OuterKinds
<1>3. CASE c \in Subtree
  <2>1. <<"factor_subtree", c>> \in InitDeps(<<l, p>>)
    BY <1>3, SubtreeFirst
  <2>2. <<"factor_subtree", c>> \in Task
    BY <1>3, TaskOf
  <2> QED
    BY <1>1, <1>2, <1>3, <2>1, <2>2, DepDone DEF FrontDone, DoneTask, StartedTask
<1>4. CASE c \notin Subtree
  <2>1. ASSUME NEW k \in OuterKinds PROVE DoneTask(k, c)
    <3>1. <<k, c>> \in InitDeps(<<l, p>>)
      BY <1>4, ChildFirst
    <3>2. <<k, c>> \in Task
      BY <1>1, <1>4, TaskOf
    <3>3. k # "assemble_delays"
      BY DEF OuterKinds
    <3> QED
      BY <1>1, <1>2, <3>1, <3>2, <3>3, DepDone DEF DoneTask, StartedTask
  <2>2. DoneTask("nelim_sync", c)
    BY <2>1 DEF OuterKinds
  <2>3. DoneTask("factor_front_indef_failed", c)
    BY <1>1, <1>4, <2>2, SyncedDone DEF StartedTask, DoneTask, Started
  <2> QED
    BY <1>4, <2>1, <2>3 DEF FrontDone
<1> QED
  BY <1>3, <1>4

(* A task that is not submitted by the main thread was by a task of its     *)
(* front, or of the parent.                                                 *)
LEMMA SubmitterStarted ==
  ASSUME FlowInv, NEW t \in Inner, status[t] # "unsubmitted"
  PROVE  /\ SubmitterOf(t) \in Submitter /\ t \in Code[SubmitterOf(t)]
         /\ Started(SubmitterOf(t))
BY DEF FlowInv, FlowTypeOK, SubmittedSent, SentByStarted

LEMMA InnerOf ==
  ASSUME NEW k, NEW f
  PROVE  /\ k \in FactorKinds \cup {"fini_node"} /\ f \in Front \ Subtree => <<k, f>> \in Inner
         /\ k \in ChildKinds /\ f \in Front => <<k, f>> \in Inner
<1>1. ASSUME <<k, f>> \in Task, k \in InnerKinds PROVE <<k, f>> \in Inner
  <2>1. k \notin OuterKinds \cup {"factor_subtree", "fini_cnodes"}
    BY <1>1 DEF InnerKinds, OuterKinds, FactorKinds, ChildKinds
  <2> QED
    BY <1>1, <2>1, MainOf
<1> QED
  BY <1>1, TaskOf DEF InnerKinds

LEMMA FactorOf ==
  ASSUME NEW f \in Front \ Subtree
  PROVE  /\ <<"factor_front_indef", f>> \in Submitter
         /\ Code[<<"factor_front_indef", f>>] = factor_front_indef(f)
         /\ \A k \in FactorKinds : /\ <<k, f>> \in Inner
                                   /\ SubmitterOf(<<k, f>>) = <<"factor_front_indef", f>>
<1>1. <<"factor_front_indef", f>> \in Submitter
  BY TaskOf DEF Submitter, Submitters, OuterKinds
<1>2. Code[<<"factor_front_indef", f>>] = factor_front_indef(f)
  BY <1>1, CodeIs
<1>3. ASSUME NEW k \in FactorKinds
      PROVE  <<k, f>> \in Inner /\ SubmitterOf(<<k, f>>) = <<"factor_front_indef", f>>
  <2>1. <<k, f>> \in Inner
    BY InnerOf
  <2>2. SubmitterOf(<<k, f>>) = <<"factor_front_indef", f>>
    BY DEF FactorKinds, SubmitterOf
  <2> QED BY <2>1, <2>2
<1> QED
  BY <1>1, <1>2, <1>3

LEMMA AssembleOf ==
  ASSUME NEW c \in Front
  PROVE  /\ \A k \in {"assemble_delays", "assemble_block"} :
              <<k, c>> \in Inner /\ SubmitterOf(<<k, c>>) = <<"assemble", Parent[c]>>
         /\ <<"assemble_contrib_block", c>> \in Inner
         /\ SubmitterOf(<<"assemble_contrib_block", c>>) = <<"assemble_contrib", Parent[c]>>
         /\ c \notin Subtree =>
              /\ <<"fini_node", c>> \in Inner
              /\ SubmitterOf(<<"fini_node", c>>) = <<"fini_cnodes", Parent[c]>>
<1>1. ASSUME NEW k \in {"assemble_delays", "assemble_block"}
      PROVE  <<k, c>> \in Inner /\ SubmitterOf(<<k, c>>) = <<"assemble", Parent[c]>>
  <2>1. <<k, c>> \in Inner
    BY InnerOf DEF ChildKinds
  <2>2. SubmitterOf(<<k, c>>) = <<"assemble", Parent[c]>>
    BY DEF SubmitterOf
  <2> QED BY <2>1, <2>2
<1>2. /\ <<"assemble_contrib_block", c>> \in Inner
      /\ SubmitterOf(<<"assemble_contrib_block", c>>) = <<"assemble_contrib", Parent[c]>>
  <2>1. <<"assemble_contrib_block", c>> \in Inner
    BY InnerOf DEF ChildKinds
  <2>2. SubmitterOf(<<"assemble_contrib_block", c>>) = <<"assemble_contrib", Parent[c]>>
    BY DEF SubmitterOf
  <2> QED BY <2>1, <2>2
<1>3. ASSUME c \notin Subtree
      PROVE  /\ <<"fini_node", c>> \in Inner
             /\ SubmitterOf(<<"fini_node", c>>) = <<"fini_cnodes", Parent[c]>>
  <2>1. <<"fini_node", c>> \in Inner
    BY <1>3, InnerOf
  <2>2. SubmitterOf(<<"fini_node", c>>) = <<"fini_cnodes", Parent[c]>>
    BY DEF SubmitterOf
  <2> QED BY <2>1, <2>2
<1> QED
  BY <1>1, <1>2, <1>3

LEMMA ParentSubmitters ==
  ASSUME NEW c \in Front
  PROVE  /\ HasContrib(c) <=> Parent[c] \in Front \ Subtree
         /\ HasContrib(c) <=> <<"assemble", Parent[c]>> \in Submitter
         /\ HasContrib(c) =>
              /\ Code[<<"assemble", Parent[c]>>] = assemble(Parent[c])
              /\ <<"assemble_contrib", Parent[c]>> \in Submitter
              /\ Code[<<"assemble_contrib", Parent[c]>>] = assemble_contrib(Parent[c])
         /\ <<"fini_cnodes", Parent[c]>> \in Submitter
         /\ Code[<<"fini_cnodes", Parent[c]>>] = fini_cnodes(Parent[c])
         /\ c \in Children(Parent[c])
<1>1. HasContrib(c) <=> Parent[c] \in Front \ Subtree
  BY TreeFacts DEF HasContrib
<1>2. <<"assemble", Parent[c]>> \in Submitter <=> <<"assemble", Parent[c]>> \in Task
  BY DEF Submitter, Submitters
<1>3. Parent[c] \in Front \ Subtree =>
        <<"assemble", Parent[c]>> \in Task /\ <<"assemble_contrib", Parent[c]>> \in Task
  BY TaskOf DEF OuterKinds
<1>4. <<"assemble", Parent[c]>> \in Task => Parent[c] \in Front \ Subtree
  BY TaskShape DEF OuterKinds
<1>5. <<"fini_cnodes", Parent[c]>> \in Submitter
  BY TaskOf, TreeFacts DEF Submitter, Submitters
<1>6. Code[<<"fini_cnodes", Parent[c]>>] = fini_cnodes(Parent[c])
  BY <1>5, CodeIs
<1>7. ASSUME HasContrib(c)
      PROVE  /\ <<"assemble", Parent[c]>> \in Submitter
             /\ Code[<<"assemble", Parent[c]>>] = assemble(Parent[c])
             /\ <<"assemble_contrib", Parent[c]>> \in Submitter
             /\ Code[<<"assemble_contrib", Parent[c]>>] = assemble_contrib(Parent[c])
  <2>1. <<"assemble", Parent[c]>> \in Submitter /\ <<"assemble_contrib", Parent[c]>> \in Submitter
    BY <1>7, <1>1, <1>3 DEF Submitter, Submitters
  <2> QED
    BY <2>1, CodeIs
<1>8. c \in Children(Parent[c])
  BY TreeFacts
<1> QED
  BY <1>1, <1>2, <1>3, <1>4, <1>5, <1>6, <1>7, <1>8

LEMMA MainOrder ==
  /\ MainPlace["activate_init_node"] < MainPlace["assemble"]
  /\ MainPlace["activate_init_node"] < MainPlace["factor_front_indef"]
  /\ MainPlace["activate_init_node"] < MainPlace["nelim_sync"]
  /\ MainPlace["activate_init_node"] < MainPlace["fini_cnodes"]
  /\ MainPlace["assemble"] < MainPlace["factor_front_indef"]
  /\ MainPlace["assemble"] < MainPlace["fini_cnodes"]
  /\ MainPlace["factor_front_indef"] < MainPlace["assemble_contrib"]
  /\ MainPlace["assemble_contrib"] < MainPlace["fini_cnodes"]
  /\ MainPlace["nelim_sync"] < MainPlace["fini_cnodes"]
  /\ {"activate_init_node", "assemble", "factor_front_indef", "assemble_contrib", "nelim_sync"}
       \subseteq OuterKinds
BY DEF MainPlace, OuterKinds

LEMMA ChildOf ==
  ASSUME NEW f \in 1..Root, NEW c \in Children(f)
  PROVE  /\ c \in Front /\ Parent[c] = f /\ c < f
         /\ f \in Front => HasContrib(c) /\ f \notin Subtree
<1>1. c \in Front /\ Parent[c] = f
  BY TreeFacts
<1>2. c \in Nat /\ Parent[c] \in Nat /\ Parent[c] > c /\ Parent[c] \notin Subtree
  BY <1>1, TreeFacts
<1>3. f \in Front => HasContrib(c)
  BY <1>1, TreeFacts DEF HasContrib
<1> QED
  BY <1>1, <1>2, <1>3

LEMMA InnerPast ==
  ASSUME FlowInv, NEW t \in Inner, NEW u \in Inner, Started(t),
         u \in Conflicts[t], SubmitterOf(u) \in Submitter, u \in Code[SubmitterOf(u)],
         \/ SubmitterOf(u) = SubmitterOf(t) /\ Earlier(u, t)
         \/ SubmitterOf(u) \in InitDeps(SubmitterOf(t))
  PROVE  /\ Past(u)
         /\ u[1] # "assemble_delays" => status[u] = "done"
<1>1. SubmitterOf(t) \in Submitter /\ t \in Code[SubmitterOf(t)]
  BY SubmitterStarted DEF Started
<1>2. Ahead(u, t)
  BY <1>1 DEF Ahead, Submits
<1> QED
  BY <1>2, PastIfStarted DEF Inner

(* The children are assembled before the first pass.                        *)
LEMMA AssembledBeforePass ==
  ASSUME FlowInv, NEW f \in Front \ Subtree, StartedTask("factor_front_indef_app", f),
         NEW c \in Children(f)
  PROVE  DoneTask("assemble_block", c) /\ Past(<<"assemble_delays", c>>)
<1> DEFINE t == <<"factor_front_indef_app", f>>
<1>1. t \in Inner /\ SubmitterOf(t) = <<"factor_front_indef", f>>
  BY FactorOf DEF FactorKinds
<1>2. c \in Front /\ Parent[c] = f /\ HasContrib(c)
  BY TreeFacts, ChildOf DEF Front
<1>3. <<"assemble", f>> \in InitDeps(<<"factor_front_indef", f>>)
  BY SameFront, MainOrder
<1>4. <<"assemble", f>> \in Submitter /\ Code[<<"assemble", f>>] = assemble(f)
  BY <1>2, ParentSubmitters
<1>5. t \in Task /\ Access[t].rw = {Hblk(f), Hcol(f)}
  BY <1>1, FactorAccess DEF Inner
<1>6. ASSUME NEW k \in {"assemble_delays", "assemble_block"}
      PROVE  /\ Past(<<k, c>>)
             /\ k # "assemble_delays" => status[<<k, c>>] = "done"
  <2> DEFINE u == <<k, c>>
  <2>1. u \in Inner /\ SubmitterOf(u) = <<"assemble", f>> /\ u \in assemble(f)
    BY <1>2, AssembleOf DEF assemble
  <2>2. u \in Task /\ Hblk(f) \in Access[u].rw
    BY <1>2, <2>1, ChildAccess DEF Inner
  <2>3. u # t
    OBVIOUS
  <2>4. Hblk(f) \in Handles[t]
    BY <1>5, AccessOf
  <2>5. u \in Conflicts[t]
    BY <2>2, <2>3, <2>4, <1>5, ConflictIf
  <2>6. Started(t)
    BY DEF StartedTask
  <2>7. SubmitterOf(u) \in Submitter /\ u \in Code[SubmitterOf(u)]
        /\ SubmitterOf(u) \in InitDeps(SubmitterOf(t))
    BY <2>1, <1>1, <1>3, <1>4
  <2>8. /\ Past(u)
        /\ u[1] # "assemble_delays" => status[u] = "done"
    BY <1>1, <2>1, <2>5, <2>6, <2>7, InnerPast
  <2> QED
    BY <2>8
<1> QED
  BY <1>6 DEF DoneTask

(* The first pass and its contribution come before the second pass.         *)
LEMMA FirstBeforeSecond ==
  ASSUME FlowInv, NEW f \in Front \ Subtree, StartedTask("factor_front_indef_failed", f),
         PivotMethod = "app_block"
  PROVE  /\ DoneTask("factor_front_indef_app", f)
         /\ HasContrib(f) => DoneTask("update_contrib_block_app", f)
<1> DEFINE t == <<"factor_front_indef_failed", f>>
           s == <<"factor_front_indef", f>>
<1>1. t \in Inner /\ SubmitterOf(t) = s /\ s \in Submitter /\ Code[s] = factor_front_indef(f)
  BY FactorOf DEF FactorKinds
<1>2. t \in Task /\ Access[t].rw = {Hcol(f), Hcontrib(f)}
  BY <1>1, FactorAccess DEF Inner
<1>3. DoneTask("factor_front_indef_app", f)
  <2> DEFINE u == <<"factor_front_indef_app", f>>
  <2>1. u \in Inner /\ SubmitterOf(u) = s
    BY FactorOf DEF FactorKinds
  <2>2. u \in Code[s]
    BY <1>1 DEF factor_front_indef
  <2>3. u \in Task /\ Access[u].rw = {Hblk(f), Hcol(f)}
    BY <2>1, FactorAccess DEF Inner
  <2>4. Hcol(f) \in Handles[u] /\ u # t
    BY <2>3, AccessOf
  <2>5. u \in Conflicts[t]
    BY <1>2, <2>3, <2>4, ConflictIf
  <2>6. Earlier(u, t)
    BY DEF Earlier, Place
  <2>7. u[1] # "assemble_delays"
    OBVIOUS
  <2> QED
    BY <1>1, <2>1, <2>2, <2>5, <2>6, <2>7, InnerPast DEF DoneTask, StartedTask
<1>4. ASSUME HasContrib(f) PROVE DoneTask("update_contrib_block_app", f)
  <2> DEFINE u == <<"update_contrib_block_app", f>>
  <2>1. u \in Inner /\ SubmitterOf(u) = s
    BY FactorOf DEF FactorKinds
  <2>2. u \in Code[s]
    BY <1>1, <1>4 DEF factor_front_indef
  <2>3. u \in Task /\ Hcontrib(f) \in Handles[u] /\ u # t
    BY <2>1, FactorAccess DEF Inner
  <2>5. u \in Conflicts[t]
    BY <1>2, <2>3, ConflictIf
  <2>6. Earlier(u, t)
    BY DEF Earlier, Place
  <2>7. u[1] # "assemble_delays"
    OBVIOUS
  <2> QED
    BY <1>1, <2>1, <2>2, <2>5, <2>6, <2>7, InnerPast DEF DoneTask, StartedTask
<1> QED
  BY <1>3, <1>4

(* The contribution of a front is complete before it is assembled.          *)
LEMMA CompleteBeforeUse ==
  ASSUME FlowInv, NEW c \in Front,
         NEW k \in {"assemble_block", "assemble_contrib_block"},
         StartedTask(k, c), NEW d \in Children(c)
  PROVE  DoneTask("assemble_contrib_block", d) /\ HasContrib(c)
<1> DEFINE t == <<k, c>>
           l == IF k = "assemble_block" THEN "assemble" ELSE "assemble_contrib"
           u == <<"assemble_contrib_block", d>>
<1>1. t \in Inner /\ SubmitterOf(t) = <<l, Parent[c]>>
  BY AssembleOf
<1>2. SubmitterOf(t) \in Submitter
  BY <1>1, SubmitterStarted DEF StartedTask, Started
<1>3. HasContrib(c) /\ Parent[c] \in Front \ Subtree /\ c \in Children(Parent[c])
  <2>1. <<l, Parent[c]>> \in Task /\ l \in OuterKinds /\ l # "fini_cnodes"
    BY <1>1, <1>2 DEF Submitter, OuterKinds
  <2>2. Parent[c] \in Front \ Subtree
    BY <2>1, TaskShape
  <2> QED
    BY <2>2, ParentSubmitters
<1>4. d \in Front /\ Parent[d] = c /\ c \in Front \ Subtree
  <2>1. c \in 1..Root
    BY TreeFacts DEF Front
  <2>2. d \in Front /\ Parent[d] = c
    BY <2>1, TreeFacts
  <2>3. Parent[d] \notin Subtree
    BY <2>2, TreeFacts
  <2> QED
    BY <2>2, <2>3
<1>5. u \in Inner /\ SubmitterOf(u) = <<"assemble_contrib", c>>
  BY <1>4, AssembleOf
<1>6. <<"assemble_contrib", c>> \in Submitter /\ Code[<<"assemble_contrib", c>>] = assemble_contrib(c)
  BY <1>4, ParentSubmitters
<1>7. u \in assemble_contrib(c)
  BY <1>3, <1>4, TreeFacts DEF assemble_contrib
<1>8. <<"assemble_contrib", c>> \in InitDeps(<<l, Parent[c]>>)
  BY <1>3, <1>4, TreeFacts, ChildFirst DEF OuterKinds, ReaderKinds
<1>9. t \in Task /\ Htile(c) \in Access[t].r /\ Htile(c) \in Handles[t]
  <2>1. t \in Task
    BY <1>1 DEF Inner
  <2>2. Htile(c) \in Access[t].r
    BY <1>4, ChildAccess
  <2> QED
    BY <2>1, <2>2, AccessOf
<1>10. u \in Task /\ Htile(c) \in Access[u].rw \cup Access[u].c /\ u # t
  <2>1. d # c
    BY <1>4, TreeFacts
  <2> QED
    BY <1>5, <1>4, <2>1, ChildAccess DEF Inner
<1>11. u \in Conflicts[t]
  BY <1>9, <1>10, ConflictIf
<1>12. u[1] # "assemble_delays"
  OBVIOUS
<1>13. status[u] = "done"
  <2>1. SubmitterOf(u) \in Submitter /\ u \in Code[SubmitterOf(u)]
        /\ SubmitterOf(u) \in InitDeps(SubmitterOf(t))
    BY <1>1, <1>5, <1>6, <1>7, <1>8
  <2>2. Started(t)
    BY DEF StartedTask
  <2> QED
    BY <1>1, <1>5, <1>11, <1>12, <2>1, <2>2, InnerPast
<1> QED
  BY <1>3, <1>13 DEF DoneTask

(* A front passes its contribution on once its parent is factorized.        *)
LEMMA FactorizedBeforePassed ==
  ASSUME FlowInv, NEW c \in Front, StartedTask("assemble_contrib_block", c)
  PROVE  /\ DoneTask("factor_front_indef_failed", Parent[c])
         /\ HasContrib(c) /\ HasContrib(Parent[c])
         /\ StartedTask("assemble_contrib", Parent[c])
<1> DEFINE t == <<"assemble_contrib_block", c>>
           p == Parent[c]
           u == <<"factor_front_indef_failed", p>>
<1>1. t \in Inner /\ SubmitterOf(t) = <<"assemble_contrib", p>>
  BY AssembleOf
<1>2. /\ SubmitterOf(t) \in Submitter /\ t \in Code[SubmitterOf(t)]
      /\ Started(SubmitterOf(t))
  BY <1>1, SubmitterStarted DEF StartedTask, Started
<1>3. p \in Front \ Subtree
  BY <1>1, <1>2, TaskShape DEF Submitter, OuterKinds
<1>4. HasContrib(c)
  BY <1>3, TreeFacts DEF HasContrib
<1>5. t \in assemble_contrib(p)
  BY <1>1, <1>2, <1>4, ParentSubmitters
<1>6. HasContrib(p)
  BY <1>5 DEF assemble_contrib
<1>7. u \in Inner /\ SubmitterOf(u) = <<"factor_front_indef", p>>
      /\ <<"factor_front_indef", p>> \in Submitter
      /\ Code[<<"factor_front_indef", p>>] = factor_front_indef(p)
  BY <1>3, FactorOf DEF FactorKinds
<1>8. u \in factor_front_indef(p)
  BY DEF factor_front_indef
<1>9. <<"factor_front_indef", p>> \in InitDeps(<<"assemble_contrib", p>>)
  BY <1>3, SameFront, MainOrder
<1>10. t \in Task /\ Hcontrib(p) \in Handles[t]
  BY <1>1, ChildAccess DEF Inner
<1>11. u \in Task /\ Hcontrib(p) \in Access[u].rw /\ u # t
  BY <1>3, <1>7, FactorAccess DEF Inner
<1>12. u \in Conflicts[t]
  BY <1>10, <1>11, ConflictIf
<1>13. u[1] # "assemble_delays"
  OBVIOUS
<1>14. status[u] = "done"
  BY <1>1, <1>7, <1>8, <1>9, <1>12, <1>13, InnerPast DEF StartedTask
<1> QED
  BY <1>1, <1>2, <1>4, <1>6, <1>14 DEF DoneTask, StartedTask

(* A front is freed once all of it is in its parent.                        *)
LEMMA UsedBeforeFreed ==
  ASSUME FlowInv, NEW c \in Front \ Subtree, StartedTask("fini_node", c)
  PROVE  /\ StartedTask("fini_cnodes", Parent[c])
         /\ HasContrib(c) =>
              /\ DoneTask("assemble_block", c) /\ Past(<<"assemble_delays", c>>)
              /\ HasContrib(Parent[c]) => DoneTask("assemble_contrib_block", c)
<1> DEFINE t == <<"fini_node", c>>
           p == Parent[c]
<1>1. t \in Inner /\ SubmitterOf(t) = <<"fini_cnodes", p>>
  BY AssembleOf
<1>2. Started(<<"fini_cnodes", p>>)
  BY <1>1, SubmitterStarted DEF StartedTask, Started
<1>3. t \in Task /\ Access[t].rw = {Hblk(c), H(c)}
  BY <1>1, FactorAccess DEF Inner
<1>4. ASSUME HasContrib(c)
      PROVE  /\ DoneTask("assemble_block", c) /\ Past(<<"assemble_delays", c>>)
             /\ HasContrib(p) => DoneTask("assemble_contrib_block", c)
  <2>1. p \in Front \ Subtree /\ c \in Children(p)
    BY <1>4, ParentSubmitters
  <2>2. /\ <<"assemble", p>> \in InitDeps(<<"fini_cnodes", p>>)
        /\ <<"assemble_contrib", p>> \in InitDeps(<<"fini_cnodes", p>>)
    BY <2>1, SameFront, MainOrder
  <2>3. /\ <<"assemble", p>> \in Submitter /\ Code[<<"assemble", p>>] = assemble(p)
        /\ <<"assemble_contrib", p>> \in Submitter
        /\ Code[<<"assemble_contrib", p>>] = assemble_contrib(p)
    BY <1>4, ParentSubmitters
  <2>4. ASSUME NEW k \in ChildKinds, k = "assemble_contrib_block" => HasContrib(p)
        PROVE  /\ Past(<<k, c>>)
               /\ k # "assemble_delays" => status[<<k, c>>] = "done"
    <3> DEFINE u == <<k, c>>
    <3>1. u \in Inner
      BY InnerOf
    <3>2. SubmitterOf(u) = IF k = "assemble_contrib_block" THEN <<"assemble_contrib", p>>
                                                          ELSE <<"assemble", p>>
      BY DEF SubmitterOf, ChildKinds
    <3>3. u \in Code[SubmitterOf(u)]
      <4>1. CASE k = "assemble_contrib_block"
        BY <2>1, <2>3, <2>4, <3>2, <4>1, TreeFacts DEF assemble_contrib
      <4>2. CASE k # "assemble_contrib_block"
        BY <2>1, <2>3, <3>2, <4>2 DEF assemble, ChildKinds
      <4> QED
        BY <4>1, <4>2
    <3>4. SubmitterOf(u) \in Submitter /\ SubmitterOf(u) \in InitDeps(SubmitterOf(t))
      BY <1>1, <2>2, <2>3, <3>2
    <3>5. \E h \in {Hblk(c), H(c)} : h \in Handles[u]
      BY ChildAccess DEF ChildKinds
    <3>6. u \in Task /\ u # t
      BY <3>1 DEF Inner, ChildKinds
    <3>7. u \in Conflicts[t]
      BY <1>3, <3>5, <3>6, ConflictIf
    <3>8. /\ Past(u)
          /\ u[1] # "assemble_delays" => status[u] = "done"
      BY <1>1, <3>1, <3>3, <3>4, <3>7, InnerPast DEF StartedTask
    <3> QED
      BY <3>8
  <2> QED
    BY <2>4 DEF ChildKinds, DoneTask
<1> QED
  BY <1>2, <1>4 DEF StartedTask

-----------------------------------------------------------------------------
(* What a step changes in the fronts.                                       *)

RunningTask(k, f) == <<k, f>> \in Task /\ status[<<k, f>>] = "running"

DataDomains ==
  /\ DOMAIN ndelay_in = Front /\ DOMAIN ndelay_out = Front
  /\ DOMAIN nelim = Front /\ DOMAIN delay_col = Front
  /\ DOMAIN lcol = Front /\ DOMAIN contrib = Front

FrameOf(c) ==
  /\ \/ ndelay_out'[c] = ndelay_out[c]
     \/ RunningTask("factor_subtree", c) \/ RunningTask("activate_init_node", c)
     \/ RunningTask("factor_front_indef_failed", c)
  /\ ndelay_in'[c] = ndelay_in[c] \/ RunningTask("activate_init_node", c)
  /\ \/ nelim'[c] = nelim[c]
     \/ nelim'[c] = 0 /\ Submit(<<"factor_front_indef", c>>, <<"nelim", c>>)
     \/ factor_front_indef_app(c) \/ factor_front_indef_failed(c)
  /\ \/ delay_col'[c] = delay_col[c]
     \/ Submit(<<"assemble", Parent[c]>>, <<"assemble_delays", c>>)
  /\ lcol[c] \subseteq lcol'[c] \/ RunningTask("activate_init_node", c)
  /\ \/ contrib'[c] = contrib[c]
     \/ factor_subtree(c) \/ activate_init_node(c) \/ update_contrib_block_app(c)
     \/ factor_front_indef_failed(c) \/ fini_node(c)
     \/ \E d \in Front : Parent[d] = c /\ assemble_contrib_block(d)

LEMMA FrameKept ==
  ASSUME frontVars' = frontVars, NEW c
  PROVE  FrameOf(c)
BY DEF frontVars, FrameOf

LEMMA FrameCompute ==
  ASSUME DataDomains, NEW f \in Front, Compute(f), NEW c \in Front
  PROVE  FrameOf(c)
<1> USE DEF FrameOf, DataDomains, RunningTask, Finish
<1>1. CASE factor_subtree(f)
  BY <1>1 DEF factor_subtree
<1>2. CASE activate_init_node(f)
  BY <1>2 DEF activate_init_node
<1>3. CASE factor_front_indef_app(f)
  BY <1>3 DEF factor_front_indef_app
<1>4. CASE update_contrib_block_app(f)
  BY <1>4 DEF update_contrib_block_app
<1>5. CASE factor_front_indef_failed(f)
  BY <1>5 DEF factor_front_indef_failed, zero_contrib_blocks
<1>6. CASE assemble_delays(f)
  BY <1>6 DEF assemble_delays
<1>7. CASE assemble_block(f)
  BY <1>7 DEF assemble_block
<1>8. CASE assemble_contrib_block(f)
  BY <1>8 DEF assemble_contrib_block
<1>9. CASE fini_node(f)
  BY <1>9 DEF fini_node
<1> QED
  BY <1>1, <1>2, <1>3, <1>4, <1>5, <1>6, <1>7, <1>8, <1>9 DEF Compute

LEMMA FrameSubmit ==
  ASSUME DataDomains, NEW s \in Submitter, NEW op \in Code[s], Submit(s, op), NEW c \in Front
  PROVE  FrameOf(c)
<1>1. /\ op = <<op[1], op[2]>> /\ op[2] \in Front
      /\ op[1] = "assemble_delays" => s = <<"assemble", Parent[op[2]]>>
      /\ op[1] = "nelim" => s = <<"factor_front_indef", op[2]>>
  <2>1. op[1] = "assemble_delays" => s = <<"assemble", Parent[op[2]]>>
    BY CodeOps DEF SubmitterOf, OtherOps
  <2>2. op[1] = "nelim" => s = <<"factor_front_indef", op[2]>>
    <3>1. CASE s[1] = "assemble"
      BY <3>1, CodeIs DEF assemble
    <3>2. CASE s[1] = "factor_front_indef"
      BY <3>2, CodeIs DEF factor_front_indef
    <3>3. CASE s[1] = "assemble_contrib"
      <4>1. op \in {"assemble_contrib_block"} \X Children(s[2])
        BY <3>3, CodeIs DEF assemble_contrib
      <4> QED
        BY <4>1
    <3>4. CASE s[1] = "fini_cnodes"
      BY <3>4, CodeIs DEF fini_cnodes
    <3> QED
      BY <3>1, <3>2, <3>3, <3>4, CodeIs DEF Submitters
  <2> QED
    BY <2>1, <2>2, CodeOps
<1>2. status[s] = "running" /\ s \in Task /\ UNCHANGED <<ndelay_in, ndelay_out, lcol, contrib>>
  BY CodeIs DEF Submit
<1>3. nelim' = IF op[1] = "nelim" THEN [nelim EXCEPT ![op[2]] = 0] ELSE nelim
  BY DEF Submit
<1>4. delay_col' = IF op[1] = "assemble_delays"
                   THEN [delay_col EXCEPT ![op[2]] = delay_col_of(op[2])] ELSE delay_col
  BY DEF Submit
<1>5. \/ nelim'[c] = nelim[c]
      \/ nelim'[c] = 0 /\ Submit(<<"factor_front_indef", c>>, <<"nelim", c>>)
  BY <1>1, <1>3 DEF DataDomains
<1>6. \/ delay_col'[c] = delay_col[c]
      \/ Submit(<<"assemble", Parent[c]>>, <<"assemble_delays", c>>)
  BY <1>1, <1>4 DEF DataDomains
<1> QED
  BY <1>2, <1>5, <1>6 DEF FrameOf

LEMMA Frame ==
  ASSUME DataDomains, [Next]_vars, NEW c \in Front
  PROVE  FrameOf(c)
<1>1. ASSUME NEW s \in Submitter, NEW op \in Code[s], Submit(s, op) PROVE FrameOf(c)
  BY <1>1, FrameSubmit
<1>2. ASSUME NEW t \in Task, Start(t) PROVE FrameOf(c)
  BY <1>2, FrameKept DEF Start, frontVars
<1>3. ASSUME NEW t \in Task, EndSubmitter(t) PROVE FrameOf(c)
  BY <1>3, FrameKept DEF EndSubmitter, frontVars
<1>4. ASSUME NEW f \in Front, Compute(f) PROVE FrameOf(c)
  BY <1>4, FrameCompute
<1>5. CASE UNCHANGED vars
  BY <1>5, FrameKept DEF vars, frontVars
<1>6. CASE Next
  BY <1>6, <1>1, <1>2, <1>3, <1>4, <1>5 DEF Next, Compute, Terminated
<1> QED
  BY <1>5, <1>6

(* A computing task that ends does what its kernel does.                    *)
ComputeOf(k, f) ==
  /\ k = "factor_subtree" => factor_subtree(f)
  /\ k = "activate_init_node" => activate_init_node(f)
  /\ k = "factor_front_indef_app" => factor_front_indef_app(f)
  /\ k = "update_contrib_block_app" => update_contrib_block_app(f)
  /\ k = "factor_front_indef_failed" => factor_front_indef_failed(f)
  /\ k = "assemble_delays" => assemble_delays(f)
  /\ k = "assemble_block" => assemble_block(f)
  /\ k = "assemble_contrib_block" => assemble_contrib_block(f)
  /\ k = "fini_node" => fini_node(f)

LEMMA FinishOne ==
  ASSUME NEW t, NEW u \in Task, FlowTypeOK, Finish(t), status[u] # "done", status'[u] = "done"
  PROVE  u = t
BY DEF Finish, FlowTypeOK

LEMMA Finishes ==
  ASSUME FlowTypeOK, [Next]_vars, NEW k \in ComputeKinds, NEW f, <<k, f>> \in Task,
         ~ DoneTask(k, f), DoneTask(k, f)'
  PROVE  ComputeOf(k, f)
<1> DEFINE t == <<k, f>>
<1>0. status[t] # "done" /\ status'[t] = "done"
  BY DEF DoneTask
<1>1. ASSUME NEW s \in Submitter, NEW op \in Code[s], Submit(s, op) PROVE FALSE
  <2>1. status' = status \/ status' = [status EXCEPT ![op] = "submitted"]
    BY <1>1 DEF Submit, SubmitTask
  <2> QED
    BY <2>1, <1>0 DEF FlowTypeOK
<1>2. ASSUME NEW u \in Task, Start(u) PROVE FALSE
  BY <1>2, <1>0 DEF Start, FlowTypeOK
<1>3. ASSUME NEW s \in Task, s[1] \in Submitters \cup {"nelim_sync"}, EndSubmitter(s) PROVE FALSE
  <2>1. t = s
    BY <1>3, <1>0, FinishOne DEF EndSubmitter
  <2> QED
    BY <1>3, <2>1 DEF ComputeKinds, InnerKinds, FactorKinds, ChildKinds, Submitters
<1>4. ASSUME NEW g \in Front, Compute(g) PROVE ComputeOf(k, f)
  <2> USE DEF ComputeOf
  <2>0. ASSUME NEW l, Finish(<<l, g>>) PROVE k = l /\ f = g
    <3>1. <<k, f>> = <<l, g>>
      BY <2>0, <1>0, FinishOne
    <3> QED
      BY <3>1
  <2>1. CASE factor_subtree(g)
    <3>1. k = "factor_subtree" /\ f = g
      BY <2>0, <2>1 DEF factor_subtree
    <3> QED
      BY <3>1, <2>1
  <2>2. CASE activate_init_node(g)
    <3>1. k = "activate_init_node" /\ f = g
      BY <2>0, <2>2 DEF activate_init_node
    <3> QED
      BY <3>1, <2>2
  <2>3. CASE factor_front_indef_app(g)
    <3>1. k = "factor_front_indef_app" /\ f = g
      BY <2>0, <2>3 DEF factor_front_indef_app
    <3> QED
      BY <3>1, <2>3
  <2>4. CASE update_contrib_block_app(g)
    <3>1. k = "update_contrib_block_app" /\ f = g
      BY <2>0, <2>4 DEF update_contrib_block_app
    <3> QED
      BY <3>1, <2>4
  <2>5. CASE factor_front_indef_failed(g)
    <3>1. k = "factor_front_indef_failed" /\ f = g
      BY <2>0, <2>5 DEF factor_front_indef_failed
    <3> QED
      BY <3>1, <2>5
  <2>6. CASE assemble_delays(g)
    <3>1. k = "assemble_delays" /\ f = g
      BY <2>0, <2>6 DEF assemble_delays
    <3> QED
      BY <3>1, <2>6
  <2>7. CASE assemble_block(g)
    <3>1. k = "assemble_block" /\ f = g
      BY <2>0, <2>7 DEF assemble_block
    <3> QED
      BY <3>1, <2>7
  <2>8. CASE assemble_contrib_block(g)
    <3>1. k = "assemble_contrib_block" /\ f = g
      BY <2>0, <2>8 DEF assemble_contrib_block
    <3> QED
      BY <3>1, <2>8
  <2>9. CASE fini_node(g)
    <3>1. k = "fini_node" /\ f = g
      BY <2>0, <2>9 DEF fini_node
    <3> QED
      BY <3>1, <2>9
  <2> QED
    BY <1>4, <2>1, <2>2, <2>3, <2>4, <2>5, <2>6, <2>7, <2>8, <2>9 DEF Compute
<1>5. CASE UNCHANGED vars
  BY <1>5, <1>0 DEF vars, flowVars
<1>6. CASE Next
  BY <1>6, <1>1, <1>2, <1>3, <1>4, <1>5 DEF Next, Compute, Terminated
<1> QED
  BY <1>5, <1>6

(* What is newly sent is sent by the step.                                  *)
LEMMA Sends ==
  ASSUME FlowTypeOK, [Next]_vars, NEW s \in Submitter, NEW op \in sent'[s] \ sent[s]
  PROVE  Submit(s, op) /\ op \in Code[s]
<1>1. ASSUME NEW r \in Submitter, NEW o \in Code[r], Submit(r, o) PROVE r = s /\ o = op
  BY <1>1 DEF Submit, FlowTypeOK
<1>2. ASSUME NEW t \in Task, Start(t) PROVE FALSE
  BY <1>2 DEF Start
<1>3. ASSUME NEW t, Finish(t) PROVE FALSE
  BY <1>3 DEF Finish
<1>4. ASSUME NEW f \in Front, Compute(f) PROVE FALSE
  BY <1>3, <1>4, ComputeFinishes
<1>5. CASE UNCHANGED vars
  BY <1>5 DEF vars, flowVars
<1>6. CASE Next
  <2>1. CASE \E r \in Submitter : \E o \in Code[r] : Submit(r, o)
    <3>1. PICK r \in Submitter : \E o \in Code[r] : Submit(r, o)
      BY <2>1
    <3>2. PICK o \in Code[r] : Submit(r, o)
      BY <3>1
    <3> QED
      BY <3>2, <1>1
  <2>2. CASE \E t \in Task : Start(t)
    BY <2>2, <1>2
  <2>3. CASE \E t \in Task : EndSubmitter(t)
    BY <2>3, <1>3 DEF EndSubmitter
  <2>4. CASE \E f \in Front : Compute(f)
    BY <2>4, <1>4
  <2> QED
    BY <1>5, <1>6, <2>1, <2>2, <2>3, <2>4 DEF Next, Compute, Terminated
<1> QED
  BY <1>5, <1>6

-----------------------------------------------------------------------------
(* Sums of delayed columns.                                                 *)

LessThan == {ss \in Nat \X Nat : ss[1] < ss[2]}

LEMMA LessWellFounded == IsWellFoundedOn(LessThan, Nat)
  BY NatLessThanWellFounded DEF OpToRel, LessThan

LEMMA Smallest ==
  ASSUME NEW T \in SUBSET Nat, T # {}
  PROVE  \E x \in T : \A y \in T : x <= y
<1>1. PICK x \in T : \A y \in T : ~ (<<y, x>> \in LessThan)
  BY LessWellFounded, WFMin, Zenon
<1>2. \A y \in T : ~ (y < x)
  BY <1>1 DEF LessThan
<1> QED BY <1>2

(* The sums exist: a shortest list of terms without them has a last term,   *)
(* and the sums of the terms before it.                                     *)
LEMMA SumExists ==
  ASSUME NEW d \in [Front -> Nat]
  PROVE  \E g \in [0..NFront -> Nat] :
           g[0] = 0 /\ \A n \in Front : g[n] = g[n - 1] + d[n]
<1> DEFINE Summed(m, g) == g \in [0..m -> Nat] /\ g[0] = 0 /\ \A n \in 1..m : g[n] = g[n - 1] + d[n]
           Bad == {m \in 0..NFront : ~ \E g : Summed(m, g)}
<1>0. NFront \in Nat /\ Front = 1..NFront
  BY TreeFacts DEF Front
<1>1. Bad = {}
  <2> SUFFICES ASSUME Bad # {} PROVE FALSE
    OBVIOUS
  <2>1. Bad \in SUBSET Nat
    BY <1>0
  <2>2. PICK x \in Bad : \A y \in Bad : x <= y
    BY <2>1, Smallest
  <2>3. x # 0
    <3>1. Summed(0, [n \in 0..0 |-> 0])
      OBVIOUS
    <3> QED
      BY <3>1
  <2>4. x \in 0..NFront
    OBVIOUS
  <2>5. x - 1 \in 0..NFront /\ x \in 1..NFront /\ ~ (x <= x - 1)
    BY <1>0, <2>3, <2>4
  <2>6. x - 1 \notin Bad
    BY <2>2, <2>5
  <2>7. PICK g : Summed(x - 1, g)
    BY <2>5, <2>6
  <2> DEFINE e == [n \in 0..x |-> IF n = x THEN g[x - 1] + d[x] ELSE g[n]]
  <2>8. \A n \in 0..x : e[n] \in Nat
    BY <1>0, <2>5, <2>7
  <2>9. ASSUME NEW n \in 1..x PROVE e[n] = e[n - 1] + d[n]
    <3>1. n \in Nat /\ n - 1 \in 0..(x - 1) /\ n - 1 # x /\ n \in 0..x /\ n - 1 \in 0..x
      BY <2>5
    <3>2. e[n - 1] = g[n - 1]
      BY <3>1
    <3>3. CASE n = x
      BY <3>1, <3>2, <3>3
    <3>4. CASE n # x
      <4>1. n \in 1..(x - 1) /\ e[n] = g[n]
        BY <2>5, <3>1, <3>4
      <4> QED
        BY <4>1, <3>2, <2>7
    <3> QED
      BY <3>3, <3>4
  <2>10. e \in [0..x -> Nat] /\ e[0] = 0
    <3>1. e \in [0..x -> Nat]
      BY <2>8
    <3>2. 0 \in 0..x /\ e[0] = g[0]
      BY <2>5
    <3> QED
      BY <3>1, <3>2, <2>7
  <2>11. Summed(x, e)
    BY <2>9, <2>10
  <2> QED
    BY <2>11
<1>2. \E g : Summed(NFront, g)
  <2> HIDE DEF Summed, Bad
  <2>1. NFront \in 0..NFront
    BY <1>0
  <2>2. NFront \notin Bad
    BY <1>1
  <2> QED
    BY <2>1, <2>2 DEF Bad
<1> QED
  BY <1>0, <1>2

LEMMA SumIs ==
  ASSUME NEW d \in [Front -> Nat]
  PROVE  /\ DOMAIN SumUpTo(d) = 0..NFront
         /\ SumUpTo(d) = [n \in 0..NFront |-> SumUpTo(d)[n]]
         /\ SumUpTo(d)[0] = 0
         /\ \A n \in Front : SumUpTo(d)[n] = SumUpTo(d)[n - 1] + d[n]
<1> DEFINE F(g) == [n \in 0..NFront |-> IF n = 0 THEN 0 ELSE g[n - 1] + d[n]]
<1>0. NFront \in Nat /\ Front = 1..NFront
  BY TreeFacts DEF Front
<1>1. \E g : g = F(g)
  <2>1. PICK g \in [0..NFront -> Nat] : g[0] = 0 /\ \A n \in Front : g[n] = g[n - 1] + d[n]
    BY SumExists
  <2>2. g = F(g)
    BY <1>0, <2>1
  <2> QED
    BY <2>2
<1>2. SumUpTo(d) = CHOOSE g : g = F(g)
  BY DEF SumUpTo
<1>3. SumUpTo(d) = F(SumUpTo(d))
  BY <1>1, <1>2
<1> QED
  BY <1>0, <1>3

LEMMA SumNat ==
  ASSUME NEW d \in [Front -> Nat]
  PROVE  SumUpTo(d) \in [0..NFront -> Nat]
<1> DEFINE S == SumUpTo(d)
           Bad == {n \in 0..NFront : S[n] \notin Nat}
<1>0. NFront \in Nat /\ Front = 1..NFront
  BY TreeFacts DEF Front
<1>1. DOMAIN S = 0..NFront /\ S[0] = 0 /\ \A n \in Front : S[n] = S[n - 1] + d[n]
  BY SumIs
<1>1a. S = [n \in 0..NFront |-> S[n]]
  BY SumIs
<1> HIDE DEF S
<1>2. Bad = {}
  <2> SUFFICES ASSUME Bad # {} PROVE FALSE
    OBVIOUS
  <2>1. Bad \in SUBSET Nat
    BY <1>0
  <2>2. PICK x \in Bad : \A y \in Bad : x <= y
    BY <2>1, Smallest
  <2>3. x \in Front /\ x - 1 \in 0..NFront /\ x - 1 \notin Bad
    BY <1>0, <1>1, <2>2
  <2>4. S[x] = S[x - 1] + d[x] /\ S[x - 1] \in Nat /\ d[x] \in Nat
    BY <1>1, <2>3
  <2> QED
    BY <2>2, <2>4
<1> QED
  BY <1>1a, <1>2 DEF S

LEMMA DelayedToIs ==
  ASSUME NEW d \in [Front -> Nat], NEW f
  PROVE  /\ ByChildren(d, f) \in [Front -> Nat]
         /\ DelayedTo(d, f) \in Nat
<1>1. ByChildren(d, f) \in [Front -> Nat]
  BY DEF ByChildren
<1> QED
  BY <1>1, SumNat, TreeFacts DEF DelayedTo

(* Only the children count.                                                 *)
LEMMA DelayedToOf ==
  ASSUME NEW f, NEW d, NEW e, \A c \in Front : Parent[c] = f => d[c] = e[c]
  PROVE  ByChildren(d, f) = ByChildren(e, f) /\ DelayedTo(d, f) = DelayedTo(e, f)
<1>1. ByChildren(d, f) = ByChildren(e, f)
  BY DEF ByChildren
<1> QED
  BY <1>1 DEF DelayedTo

-----------------------------------------------------------------------------
(* The sizes of the fronts, and what has been assembled into them.          *)

DataTypeOK ==
  /\ ndelay_in \in [Front -> Nat] /\ ndelay_out \in [Front -> Nat]
  /\ nelim \in [Front -> Nat] /\ delay_col \in [Front -> Nat]
  /\ DOMAIN lcol = Front /\ DOMAIN contrib = Front

Eliminated ==
  \A f \in Front :
    /\ nelim[f] <= ncol(f)
    /\ f \notin Subtree => (\/ DoneTask("factor_front_indef_app", f)
                            \/ DoneTask("factor_front_indef_failed", f)
                            \/ nelim[f] = 0)

Sized ==
  \A f \in Front \ Subtree :
    DoneTask("activate_init_node", f) => ndelay_in[f] = DelayedTo(ndelay_out, f)

Sent(k, l, c) == <<l, Parent[c]>> \in Submitter /\ <<k, c>> \in sent[<<l, Parent[c]>>]

DelaysSent ==
  \A c \in Front :
    Sent("assemble_delays", "assemble", c)
    => (status[<<"assemble_delays", c>>] = "unsubmitted" <=> ndelay_out[c] = 0)

Assembled ==
  \A c \in Front :
    /\ DoneTask("assemble_block", c) => <<"block", c>> \in lcol[Parent[c]]
    /\ DoneTask("assemble_delays", c) => <<"delays", c>> \in lcol[Parent[c]]

DataInv == DataTypeOK /\ Eliminated /\ Sized /\ DelaysSent /\ Assembled

IInv == FlowInv /\ DataInv

LEMMA IsDomains == DataTypeOK => DataDomains
BY DEF DataTypeOK, DataDomains

(* A front that is done keeps what it delays.                               *)
LEMMA DelaysKept ==
  ASSUME FlowInv, DataTypeOK, [Next]_vars, NEW c \in Front, FrontDone(c)
  PROVE  ndelay_out'[c] = ndelay_out[c]
<1>1. FrameOf(c)
  BY Frame, IsDomains
<1>2. c \in Subtree => <<"activate_init_node", c>> \notin Task /\ <<"factor_front_indef_failed", c>> \notin Task
  BY TaskShape DEF OuterKinds, FactorKinds
<1>3. c \notin Subtree => <<"factor_subtree", c>> \notin Task
  BY TaskShape
<1> QED
  BY <1>1, <1>2, <1>3 DEF FrameOf, RunningTask, FrontDone, DoneTask, OuterKinds

LEMMA ActivatedBefore ==
  ASSUME FlowInv, NEW f \in Front \ Subtree, NEW l \in {"assemble", "factor_front_indef", "fini_cnodes"},
         StartedTask(l, f)
  PROVE  DoneTask("activate_init_node", f)
BY EarlierDone, MainOrder

(* What is assembled into a front is after its activation.                  *)
LEMMA ActivatedBeforeChild ==
  ASSUME FlowInv, NEW c \in Front, NEW k \in {"assemble_delays", "assemble_block"},
         status[<<k, c>>] # "unsubmitted"
  PROVE  /\ HasContrib(c) /\ Parent[c] \in Front \ Subtree
         /\ StartedTask("assemble", Parent[c])
         /\ DoneTask("activate_init_node", Parent[c])
         /\ Sent(k, "assemble", c)
<1>1. <<k, c>> \in Inner /\ SubmitterOf(<<k, c>>) = <<"assemble", Parent[c]>>
  BY AssembleOf
<1>2. SubmitterOf(<<k, c>>) \in Submitter /\ Started(SubmitterOf(<<k, c>>))
      /\ <<k, c>> \in sent[SubmitterOf(<<k, c>>)]
  BY <1>1, SubmitterStarted DEF FlowInv, SubmittedSent
<1>3. HasContrib(c) /\ Parent[c] \in Front \ Subtree
  BY <1>1, <1>2, ParentSubmitters
<1> QED
  BY <1>1, <1>2, <1>3, ActivatedBefore DEF StartedTask, Sent

LEMMA SizedStep ==
  ASSUME FlowInv, DataTypeOK, Sized, [Next]_vars
  PROVE  Sized'
<1> SUFFICES ASSUME NEW f \in Front \ Subtree, DoneTask("activate_init_node", f)'
             PROVE  ndelay_in'[f] = DelayedTo(ndelay_out', f)
  BY DEF Sized
<1>1. <<"activate_init_node", f>> \in Task
  BY TaskOf DEF OuterKinds
<1>2. \A c \in Front : Parent[c] = f => c # f
  BY TreeFacts
<1>3. CASE DoneTask("activate_init_node", f)
  <2>1. ASSUME NEW c \in Front, Parent[c] = f PROVE ndelay_out'[c] = ndelay_out[c]
    <3>1. c \in Children(f)
      BY <2>1, ParentSubmitters
    <3>2. FrontDone(c)
      BY <1>3, <3>1, ChildrenDone, TreeFacts DEF ReaderKinds, StartedTask, Started, DoneTask
    <3> QED
      BY <3>2, DelaysKept
  <2>2. ndelay_in'[f] = ndelay_in[f]
    BY <1>3, Frame, IsDomains DEF FrameOf, RunningTask, DoneTask
  <2> QED
    BY <1>3, <2>1, <2>2, DelayedToOf DEF Sized
<1>4. CASE ~ DoneTask("activate_init_node", f)
  <2>1. activate_init_node(f)
    BY <1>1, <1>4, Finishes DEF ComputeOf, ComputeKinds, FlowInv
  <2>2. /\ ndelay_in'[f] = DelayedTo(ndelay_out, f)
        /\ \A c \in Front : c # f => ndelay_out'[c] = ndelay_out[c]
    BY <2>1 DEF activate_init_node, DataTypeOK
  <2> QED
    BY <1>2, <2>2, DelayedToOf
<1> QED
  BY <1>3, <1>4

LEMMA AssembledStep ==
  ASSUME FlowInv, DataTypeOK, Assembled, [Next]_vars
  PROVE  Assembled'
<1> SUFFICES ASSUME NEW c \in Front, NEW k \in {"assemble_delays", "assemble_block"},
                    NEW m, m = (IF k = "assemble_block" THEN "block" ELSE "delays"),
                    DoneTask(k, c)'
             PROVE  <<m, c>> \in lcol'[Parent[c]]
  BY DEF Assembled
<1>1. <<k, c>> \in Task
  BY TaskOf DEF ChildKinds
<1>2. CASE DoneTask(k, c)
  <2>1. /\ Parent[c] \in Front \ Subtree
        /\ DoneTask("activate_init_node", Parent[c])
    BY <1>2, ActivatedBeforeChild DEF DoneTask
  <2>2. lcol[Parent[c]] \subseteq lcol'[Parent[c]]
    BY <2>1, Frame, IsDomains DEF FrameOf, RunningTask, DoneTask
  <2> QED
    BY <1>2, <2>2 DEF Assembled
<1>3. CASE ~ DoneTask(k, c)
  <2>1. ComputeOf(k, c)
    BY <1>1, <1>3, Finishes DEF ComputeKinds, InnerKinds, ChildKinds, FlowInv
  <2>2. status[<<k, c>>] = "running"
    BY <2>1 DEF ComputeOf, assemble_delays, assemble_block, Finish
  <2>3. Parent[c] \in Front
    BY <2>2, ActivatedBeforeChild
  <2> QED
    BY <2>1, <2>3 DEF ComputeOf, assemble_delays, assemble_block, DataTypeOK
<1> QED
  BY <1>2, <1>3

LEMMA DelaysSentStep ==
  ASSUME FlowInv, DataTypeOK, DelaysSent, [Next]_vars
  PROVE  DelaysSent'
<1> SUFFICES ASSUME NEW c \in Front, Sent("assemble_delays", "assemble", c)'
             PROVE  status'[<<"assemble_delays", c>>] = "unsubmitted" <=> ndelay_out'[c] = 0
  BY DEF DelaysSent
<1> DEFINE op == <<"assemble_delays", c>>
           s == <<"assemble", Parent[c]>>
<1>1. s \in Submitter /\ op \in sent'[s]
  BY DEF Sent
<1>2. op \in Task /\ s \in Task /\ HasContrib(c) /\ Parent[c] \in Front \ Subtree /\ c \in Children(Parent[c])
  BY <1>1, TaskOf, ParentSubmitters, CodeIs DEF ChildKinds
<1>3. Started(s) => FrontDone(c)
  BY <1>2, ChildrenDone, TreeFacts DEF ReaderKinds, StartedTask
<1>4. CASE op \in sent[s]
  <2>1. Started(s)
    BY <1>1, <1>4 DEF FlowInv, SentByStarted
  <2>2. ndelay_out'[c] = ndelay_out[c]
    BY <1>3, <2>1, DelaysKept
  <2>3. status[op] = "unsubmitted" <=> status'[op] = "unsubmitted"
    <3>1. ASSUME NEW t \in Task, StartFlow(t)
          PROVE status[op] = "unsubmitted" <=> status'[op] = "unsubmitted"
      BY <1>2, <3>1 DEF StartFlow, FlowInv, FlowTypeOK
    <3>2. ASSUME NEW t \in Task, FinishFlow(t)
          PROVE status[op] = "unsubmitted" <=> status'[op] = "unsubmitted"
      BY <1>2, <3>2 DEF FinishFlow, Finish, FlowInv, FlowTypeOK
    <3>3. ASSUME NEW r \in Submitter, NEW o \in Code[r], SubmitFlow(r, o)
          PROVE status[op] = "unsubmitted" <=> status'[op] = "unsubmitted"
      <4>1. o # op
        <5> SUFFICES ASSUME o = op PROVE FALSE
          OBVIOUS
        <5>1. r = SubmitterOf(op)
          BY <3>3, CodeOps DEF OtherOps
        <5>2. r = s
          BY <5>1, AssembleOf
        <5> QED
          BY <5>2, <1>4, <3>3 DEF SubmitFlow
      <4> QED
        BY <1>2, <4>1, <3>3 DEF SubmitFlow, SubmitTask, FlowInv, FlowTypeOK
    <3> QED
      BY <3>1, <3>2, <3>3, NextFlow
  <2> QED
    BY <1>1, <1>4, <2>2, <2>3 DEF DelaysSent, Sent
<1>5. CASE op \notin sent[s]
  <2>1. Submit(s, op) /\ op \in Code[s]
    BY <1>1, <1>5, Sends DEF FlowInv
  <2>2. status[op] = "unsubmitted"
    BY <1>2, <1>5, AssembleOf DEF FlowInv, SubmittedSent
  <2>3. /\ ndelay_out' = ndelay_out
        /\ IF ndelay_out[c] > 0 THEN SubmitTask(op) ELSE UNCHANGED <<status, deps>>
    BY <2>1 DEF Submit
  <2>4. ndelay_out[c] \in Nat
    BY DEF DataTypeOK
  <2>5. CASE ndelay_out[c] > 0
    BY <1>2, <2>3, <2>4, <2>5 DEF SubmitTask, FlowInv, FlowTypeOK
  <2>6. CASE ~ (ndelay_out[c] > 0)
    BY <2>2, <2>3, <2>4, <2>6
  <2> QED
    BY <2>5, <2>6
<1> QED
  BY <1>4, <1>5

-----------------------------------------------------------------------------
(* The columns eliminated are columns of the front.                         *)

LEMMA FactorSubmitted ==
  ASSUME FlowInv, NEW f \in Front \ Subtree, NEW k \in FactorKinds,
         status[<<k, f>>] # "unsubmitted"
  PROVE  /\ StartedTask("factor_front_indef", f)
         /\ DoneTask("activate_init_node", f)
         /\ <<k, f>> \in factor_front_indef(f)
<1>1. <<k, f>> \in Inner /\ SubmitterOf(<<k, f>>) = <<"factor_front_indef", f>>
      /\ Code[<<"factor_front_indef", f>>] = factor_front_indef(f)
  BY FactorOf
<1>2. StartedTask("factor_front_indef", f) /\ <<k, f>> \in factor_front_indef(f)
  BY <1>1, SubmitterStarted DEF StartedTask
<1> QED
  BY <1>2, ActivatedBefore

(* Nothing is eliminated before the passes.                                 *)
LEMMA NoneBeforePasses ==
  ASSUME FlowInv, Eliminated, NEW f \in Front \ Subtree,
         \/ RunningTask("activate_init_node", f)
         \/ RunningTask("factor_front_indef_app", f)
  PROVE  nelim[f] = 0
<1>1. CASE RunningTask("activate_init_node", f)
  <2>1. ~ DoneTask("activate_init_node", f)
    BY <1>1 DEF RunningTask, DoneTask
  <2>2. ASSUME NEW k \in FactorKinds PROVE ~ DoneTask(k, f)
    BY <2>1, FactorSubmitted DEF DoneTask
  <2> QED
    BY <2>2 DEF Eliminated, FactorKinds
<1>2. CASE RunningTask("factor_front_indef_app", f)
  <2>1. <<"factor_front_indef_app", f>> \in factor_front_indef(f)
    BY <1>2, FactorSubmitted DEF RunningTask, FactorKinds
  <2>2. PivotMethod = "app_block"
    BY <2>1 DEF factor_front_indef
  <2>3. ~ DoneTask("factor_front_indef_app", f)
    BY <1>2 DEF RunningTask, DoneTask
  <2>4. ~ DoneTask("factor_front_indef_failed", f)
    BY <2>2, <2>3, FirstBeforeSecond DEF StartedTask, Started, DoneTask
  <2> QED
    BY <2>3, <2>4 DEF Eliminated
<1> QED
  BY <1>1, <1>2

LEMMA NcolNat ==
  ASSUME DataTypeOK, NEW f \in Front
  PROVE  ncol(f) \in Nat /\ NCol[f] \in Nat \ {0} /\ ndelay_in[f] \in Nat
<1>1. NCol[f] \in Nat \ {0}
  BY AssemblyTreeAssumption
<1> QED
  BY <1>1 DEF DataTypeOK, ncol

LEMMA AppStep ==
  ASSUME FlowInv, DataTypeOK, Eliminated, NEW f \in Front, factor_front_indef_app(f)
  PROVE  /\ f \in Front \ Subtree
         /\ \E n \in 0..ncol(f) : nelim' = [nelim EXCEPT ![f] = n]
<1>1. f \in Front \ Subtree /\ RunningTask("factor_front_indef_app", f)
  BY TaskShape DEF factor_front_indef_app, Finish, RunningTask, FactorKinds
<1>2. nelim[f] = 0
  BY <1>1, NoneBeforePasses
<1>3. PICK n \in FirstPass(f) : nelim' = [nelim EXCEPT ![f] = nelim[f] + n]
  BY DEF factor_front_indef_app
<1>4. n \in 0..ncol(f) /\ nelim[f] + n = n
  BY <1>2, <1>3, NcolNat DEF FirstPass
<1> QED
  BY <1>1, <1>3, <1>4

LEMMA FailedStep ==
  ASSUME FlowInv, DataTypeOK, Eliminated, NEW f \in Front, factor_front_indef_failed(f)
  PROVE  /\ f \in Front \ Subtree
         /\ \E m \in 0..ncol(f) :
              /\ nelim' = [nelim EXCEPT ![f] = m]
              /\ ndelay_out' = [ndelay_out EXCEPT ![f] = ncol(f) - m]
              /\ ncol(f) - m \in 0..ncol(f)
<1>1. f \in Front \ Subtree
  BY TaskShape DEF factor_front_indef_failed, Finish, RunningTask, FactorKinds
<1>2. PICK n \in SecondPass(f, ncol(f) - nelim[f]) : nelim' = [nelim EXCEPT ![f] = nelim[f] + n]
  BY DEF factor_front_indef_failed
<1>3. ncol(f) \in Nat /\ nelim[f] \in Nat /\ nelim[f] <= ncol(f)
  BY NcolNat DEF DataTypeOK, Eliminated
<1>4. n \in 0..(ncol(f) - nelim[f])
  <2> DEFINE rest == ncol(f) - nelim[f]
  <2>1. rest \in Nat
    BY <1>3
  <2>2. n \in {0, rest} \/ n \in 0..rest \/ n = 0
    BY <1>2 DEF SecondPass
  <2> QED
    BY <2>1, <2>2
<1>5. nelim[f] + n \in 0..ncol(f) /\ ncol(f) - (nelim[f] + n) \in 0..ncol(f)
  BY <1>3, <1>4
<1>6. nelim'[f] = nelim[f] + n
  BY <1>2 DEF DataTypeOK
<1>7. ndelay_out' = [ndelay_out EXCEPT ![f] = ncol(f) - (nelim[f] + n)]
  BY <1>6 DEF factor_front_indef_failed
<1> QED
  BY <1>1, <1>2, <1>5, <1>7

LEMMA DelayColNat ==
  ASSUME DataTypeOK, NEW c \in Front, Parent[c] \in Front
  PROVE  delay_col_of(c) \in Nat
<1> DEFINE before == {d \in Children(Parent[c]) : d > c}
<1>1. NCol[Parent[c]] \in Nat
  BY AssemblyTreeAssumption
<1>2. CASE before = {}
  BY <1>1, <1>2 DEF delay_col_of
<1>3. CASE before # {}
  <2>1. before \subseteq Front /\ Front \subseteq Nat
    BY TreeFacts DEF Front
  <2>2. \E x \in before : \A y \in before : x <= y
    BY <1>3, <2>1, Smallest
  <2>3. PICK d \in before : delay_col_of(c) = delay_col[d] + ndelay_out[d]
    BY <1>3, <2>2 DEF delay_col_of
  <2>4. d \in Front
    BY <2>1
  <2> QED
    BY <2>3, <2>4 DEF DataTypeOK
<1> QED
  BY <1>2, <1>3

LEMMA TypeStep ==
  ASSUME FlowInv, DataTypeOK, Eliminated, [Next]_vars
  PROVE  DataTypeOK'
<1> USE DEF DataTypeOK
<1>1. ASSUME NEW s \in Submitter, NEW op \in Code[s], Submit(s, op) PROVE DataTypeOK'
  <2>1. UNCHANGED <<ndelay_in, ndelay_out, lcol, contrib>>
    BY <1>1 DEF Submit
  <2>2. nelim' \in [Front -> Nat]
    BY <1>1 DEF Submit
  <2>3. op[1] = "assemble_delays" => Parent[op[2]] \in Front /\ op[2] \in Front
    <3> SUFFICES ASSUME op[1] = "assemble_delays" PROVE Parent[op[2]] \in Front /\ op[2] \in Front
      OBVIOUS
    <3>1. op[2] \in Front /\ s = SubmitterOf(op)
      BY CodeOps DEF OtherOps
    <3>2. s = <<"assemble", Parent[op[2]]>>
      BY <3>1 DEF SubmitterOf
    <3> QED
      BY <3>1, <3>2, ParentSubmitters
  <2>4. delay_col' \in [Front -> Nat]
    <3>1. CASE op[1] = "assemble_delays"
      <4>1. delay_col' = [delay_col EXCEPT ![op[2]] = delay_col_of(op[2])]
        BY <1>1, <3>1 DEF Submit
      <4>2. delay_col_of(op[2]) \in Nat
        BY <2>3, <3>1, DelayColNat
      <4> QED
        BY <4>1, <4>2
    <3>2. CASE op[1] # "assemble_delays"
      <4>1. delay_col' = delay_col
        BY <1>1, <3>2 DEF Submit
      <4> QED
        BY <4>1
    <3> QED
      BY <3>1, <3>2
  <2> QED
    BY <2>1, <2>2, <2>4
<1>2. ASSUME UNCHANGED frontVars PROVE DataTypeOK'
  BY <1>2 DEF frontVars
<1>3. ASSUME NEW f \in Front, factor_subtree(f) PROVE DataTypeOK'
  <2>1. MaxDelay[f] \in Nat
    BY AssemblyTreeAssumption
  <2> QED
    BY <1>3, <2>1 DEF factor_subtree
<1>4. ASSUME NEW f \in Front, activate_init_node(f) PROVE DataTypeOK'
  BY <1>4, DelayedToIs DEF activate_init_node
<1>5. ASSUME NEW f \in Front, factor_front_indef_app(f) PROVE DataTypeOK'
  <2>1. nelim' \in [Front -> Nat]
    BY <1>5, AppStep, NcolNat
  <2> QED
    BY <1>5, <2>1 DEF factor_front_indef_app
<1>6. ASSUME NEW f \in Front, factor_front_indef_failed(f) PROVE DataTypeOK'
  <2>1. nelim' \in [Front -> Nat] /\ ndelay_out' \in [Front -> Nat]
    BY <1>6, FailedStep, NcolNat
  <2>2. DOMAIN contrib' = Front
    BY <1>6 DEF factor_front_indef_failed, zero_contrib_blocks
  <2> QED
    BY <1>6, <2>1, <2>2 DEF factor_front_indef_failed
<1>7. ASSUME NEW f \in Front, \/ update_contrib_block_app(f) \/ assemble_delays(f)
                              \/ assemble_block(f) \/ assemble_contrib_block(f) \/ fini_node(f)
      PROVE DataTypeOK'
  BY <1>7 DEF update_contrib_block_app, assemble_delays, assemble_block,
              assemble_contrib_block, fini_node
<1>8. ASSUME NEW f \in Front, Compute(f) PROVE DataTypeOK'
  BY <1>8, <1>3, <1>4, <1>5, <1>6, <1>7 DEF Compute
<1>9. ASSUME NEW t \in Task, Start(t) \/ EndSubmitter(t) PROVE DataTypeOK'
  BY <1>2, <1>9 DEF Start, EndSubmitter
<1>10. CASE UNCHANGED vars
  BY <1>2, <1>10 DEF vars
<1>11. CASE Next
  BY <1>1, <1>8, <1>9, <1>10, <1>11 DEF Next, Compute, Terminated
<1> QED
  BY <1>10, <1>11

LEMMA DoneStays ==
  ASSUME FlowInv, [Next]_vars, NEW t \in Task, status[t] = "done"
  PROVE  status'[t] = "done"
<1> USE DEF FlowInv, FlowTypeOK
<1>1. ASSUME NEW u \in Task, StartFlow(u) PROVE status'[t] = "done"
  BY <1>1 DEF StartFlow
<1>2. ASSUME NEW u \in Task, FinishFlow(u) PROVE status'[t] = "done"
  BY <1>2 DEF FinishFlow, Finish
<1>3. ASSUME NEW s \in Submitter, NEW op \in Code[s], SubmitFlow(s, op) PROVE status'[t] = "done"
  <2>1. op[1] \notin OtherOps => op \in Inner /\ s = SubmitterOf(op)
    BY CodeOps
  <2>2. op \in Inner /\ s = SubmitterOf(op) => status[op] = "unsubmitted"
    BY <1>3 DEF SubmitFlow, SubmittedSent
  <2>3. t # op \/ UNCHANGED status
    BY <1>3, <2>1, <2>2 DEF SubmitFlow
  <2> QED
    BY <1>3, <2>3 DEF SubmitFlow, SubmitTask
<1> QED
  BY <1>1, <1>2, <1>3, NextFlow

LEMMA EliminatedStep ==
  ASSUME FlowInv, DataTypeOK, Eliminated, [Next]_vars
  PROVE  Eliminated'
<1>0. DataTypeOK'
  BY TypeStep
<1> SUFFICES ASSUME NEW f \in Front
             PROVE  /\ nelim'[f] <= ncol(f)'
                    /\ f \notin Subtree => (\/ DoneTask("factor_front_indef_app", f)'
                                            \/ DoneTask("factor_front_indef_failed", f)'
                                            \/ nelim'[f] = 0)
  BY DEF Eliminated
<1>1. FrameOf(f)
  BY Frame, IsDomains
<1>2. ncol(f)' = NCol[f] + ndelay_in'[f] /\ ncol(f)' \in Nat /\ nelim'[f] \in Nat
  <2>1. NCol[f] \in Nat
    BY AssemblyTreeAssumption
  <2> QED
    BY <1>0, <2>1 DEF ncol, DataTypeOK
<1>3. f \notin Subtree =>
        /\ <<"factor_front_indef_app", f>> \in Task
        /\ <<"factor_front_indef_failed", f>> \in Task
  BY TaskOf DEF FactorKinds
<1>4. CASE nelim'[f] = nelim[f]
  <2>1. CASE RunningTask("activate_init_node", f)
    <3>1. f \in Front \ Subtree
      BY <2>1, TaskShape DEF RunningTask, OuterKinds
    <3>2. nelim[f] = 0
      BY <2>1, <3>1, NoneBeforePasses
    <3> QED
      BY <1>2, <1>4, <3>2
  <2>2. CASE ndelay_in'[f] = ndelay_in[f]
    <3>1. nelim[f] <= ncol(f) /\ ncol(f)' = ncol(f)
      BY <1>2, <2>2 DEF Eliminated, ncol
    <3> QED
      BY <1>3, <1>4, <3>1, DoneStays DEF Eliminated, DoneTask
  <2> QED
    BY <1>1, <2>1, <2>2 DEF FrameOf
<1>5. CASE nelim'[f] = 0
  BY <1>2, <1>5
<1>6. CASE factor_front_indef_app(f)
  <2>1. PICK n \in 0..ncol(f) : nelim' = [nelim EXCEPT ![f] = n]
    BY <1>6, AppStep
  <2>2. nelim'[f] = n /\ ncol(f)' = ncol(f)
    BY <1>6, <2>1 DEF factor_front_indef_app, DataTypeOK, ncol
  <2>3. DoneTask("factor_front_indef_app", f)'
    BY <1>6 DEF factor_front_indef_app, Finish, DoneTask, FlowInv, FlowTypeOK
  <2> QED
    BY <1>2, <2>1, <2>2, <2>3
<1>7. CASE factor_front_indef_failed(f)
  <2>1. PICK n \in 0..ncol(f) : nelim' = [nelim EXCEPT ![f] = n]
    BY <1>7, FailedStep
  <2>2. nelim'[f] = n /\ ncol(f)' = ncol(f)
    BY <1>7, <2>1 DEF factor_front_indef_failed, DataTypeOK, ncol
  <2>3. DoneTask("factor_front_indef_failed", f)'
    BY <1>7 DEF factor_front_indef_failed, Finish, DoneTask, FlowInv, FlowTypeOK
  <2> QED
    BY <1>2, <2>1, <2>2, <2>3
<1> QED
  BY <1>1, <1>4, <1>5, <1>6, <1>7 DEF FrameOf

-----------------------------------------------------------------------------
LEMMA InitIInv == Init => IInv
<1> SUFFICES ASSUME Init PROVE IInv
  OBVIOUS
<1>1. FlowInv
  BY FlowInit
<1>2. DataTypeOK
  BY DEF Init, DataTypeOK
<1>3. \A t \in Task : status[t] \in {"submitted", "unsubmitted"}
  BY DEF Init
<1>4. Eliminated
  <2>1. \A f \in Front : nelim[f] = 0 /\ nelim[f] <= ncol(f)
    BY <1>2, NcolNat DEF Init
  <2> QED
    BY <2>1 DEF Eliminated
<1>5. Sized
  BY <1>3, TaskOf DEF Sized, DoneTask, OuterKinds
<1>6. DelaysSent
  BY DEF Init, DelaysSent, Sent
<1>7. Assembled
  BY <1>3, TaskOf DEF Assembled, DoneTask, ChildKinds
<1> QED
  BY <1>1, <1>2, <1>4, <1>5, <1>6, <1>7 DEF IInv, DataInv

LEMMA StepIInv == IInv /\ [Next]_vars => IInv'
<1> SUFFICES ASSUME IInv, [Next]_vars PROVE IInv'
  OBVIOUS
<1>1. FlowInv'
  BY FlowStep DEF IInv
<1>2. DataTypeOK' /\ Eliminated'
  BY TypeStep, EliminatedStep DEF IInv, DataInv
<1>3. Sized' /\ DelaysSent' /\ Assembled'
  BY SizedStep, DelaysSentStep, AssembledStep DEF IInv, DataInv
<1> QED
  BY <1>1, <1>2, <1>3 DEF IInv, DataInv

(* activate_front counts the columns that the children delay when these are *)
(* final: the tag of nelim_sync, and the handles of the children, keep      *)
(* every factorization of a child before it.                                *)
THEOREM TreeFrontSizedForDelays == Spec => []FrontSizedForDelays
<1>1. IInv => FrontSizedForDelays
  BY DEF IInv, DataInv, Sized, FrontSizedForDelays, DoneTask
<1> QED
  BY InitIInv, StepIInv, <1>1, PTL DEF Spec

(* Neither pass eliminates columns of a front before the fully summed       *)
(* columns, and the delayed ones, of all children are in it, although the   *)
(* tasks that bring them are submitted by another task than the passes are. *)
THEOREM TreeColumnsAssembledFirst ==
  ASSUME PivotMethod = "app_block"
  PROVE  Spec => []ColumnsAssembledFirst
<1>1. ASSUME IInv PROVE ColumnsAssembledFirst
  <2> SUFFICES ASSUME NEW f \in Front \ Subtree,
                      NEW kind \in {"factor_front_indef_app", "factor_front_indef_failed"},
                      status[<<kind, f>>] \in {"running", "done"},
                      NEW c \in Children(f)
               PROVE  /\ <<"block", c>> \in lcol[f]
                      /\ ndelay_out[c] > 0 => <<"delays", c>> \in lcol[f]
    BY DEF ColumnsAssembledFirst
  <2>0. FlowInv /\ DataInv
    BY <1>1 DEF IInv
  <2>1. StartedTask("factor_front_indef_app", f)
    <3>1. CASE kind = "factor_front_indef_app"
      BY <3>1 DEF StartedTask, Started
    <3>2. CASE kind = "factor_front_indef_failed"
      BY <2>0, <3>2, FirstBeforeSecond DEF StartedTask, Started, DoneTask
    <3> QED
      BY <3>1, <3>2
  <2>2. DoneTask("assemble_block", c) /\ Past(<<"assemble_delays", c>>)
    BY <2>0, <2>1, AssembledBeforePass
  <2>3. c \in Front /\ Parent[c] = f
    BY ChildOf, TreeFacts DEF Front
  <2>4. <<"block", c>> \in lcol[f]
    BY <2>0, <2>2, <2>3 DEF DataInv, Assembled
  <2>5. CASE status[<<"assemble_delays", c>>] = "done"
    BY <2>0, <2>3, <2>4, <2>5 DEF DataInv, Assembled, DoneTask
  <2>6. CASE Skipped(<<"assemble_delays", c>>)
    <3>1. Sent("assemble_delays", "assemble", c)
      BY <2>3, <2>6, AssembleOf DEF Skipped, Sent
    <3>2. ndelay_out[c] = 0
      BY <2>0, <2>3, <2>6, <3>1 DEF DataInv, DelaysSent, Skipped
    <3> QED
      BY <2>4, <3>2
  <2> QED
    BY <2>2, <2>5, <2>6 DEF Past
<1>2. IInv => ColumnsAssembledFirst
  BY <1>1
<1> QED
  BY InitIInv, StepIInv, <1>2, PTL DEF Spec

-----------------------------------------------------------------------------
(* The elimination tree that the tasks implement.                           *)

E_ndelay == [f \in Front |-> IF phase[f] \in {"factored", "released"} THEN ndelay_out[f] ELSE 0]
E_absorbed == {c \in Front : /\ IsDone(<<"assemble_block", c>>)
                             /\ ndelay_out[c] > 0 => IsDone(<<"assemble_delays", c>>)}
E_passed == {c \in Front : IsDone(<<"assemble_contrib_block", c>>)}

LEMMA SameTree ==
  /\ EliminationTree!Front = Front /\ EliminationTree!Root = Root
  /\ \A f : EliminationTree!HasContrib(f) <=> HasContrib(f)
  /\ \A f : EliminationTree!Children(f) = Children(f)
  /\ \A d, f : EliminationTree!DelayedTo(d, f) = DelayedTo(d, f)
<1>1. EliminationTree!Front = Front /\ EliminationTree!Root = Root
  BY DEF EliminationTree!Front, Front, EliminationTree!Root, Root
<1>2. \A f : EliminationTree!HasContrib(f) <=> HasContrib(f)
  BY <1>1 DEF EliminationTree!HasContrib, HasContrib
<1>3. \A f : EliminationTree!Children(f) = Children(f)
  BY <1>1 DEF EliminationTree!Children, Children, EliminationTree!ChildrenOf, ChildrenOf
<1>4. ASSUME NEW d, NEW f PROVE EliminationTree!DelayedTo(d, f) = DelayedTo(d, f)
  <2>1. EliminationTree!ByChildren(d, f) = ByChildren(d, f)
    BY <1>1 DEF EliminationTree!ByChildren, ByChildren
  <2>2. \A e : EliminationTree!SumUpTo(e) = SumUpTo(e)
    BY DEF EliminationTree!SumUpTo, SumUpTo
  <2> QED
    BY <2>1, <2>2 DEF EliminationTree!DelayedTo, DelayedTo
<1> QED
  BY <1>1, <1>2, <1>3, <1>4

LEMMA SameState ==
  EliminationTree!HandedOver <=>
    \A c \in Front :
      phase[c] = "released" /\ HasContrib(c)
      => c \in E_absorbed /\ (HasContrib(Parent[c]) => c \in E_passed)
BY SameTree DEF EliminationTree!HandedOver, E_absorbed, E_passed

LEMMA PhaseIs ==
  ASSUME FlowInv, NEW f \in Front
  PROVE  /\ f \in Subtree =>
              phase[f] = IF DoneTask("factor_subtree", f) THEN "factored" ELSE "none"
         /\ f \notin Subtree =>
              phase[f] = IF DoneTask("fini_node", f) THEN "released"
                         ELSE IF DoneTask("factor_front_indef_failed", f) THEN "factored"
                         ELSE IF DoneTask("activate_init_node", f) THEN "active"
                         ELSE "none"
<1>1. f \in Subtree =>
        /\ <<"fini_node", f>> \notin Task /\ <<"factor_front_indef_failed", f>> \notin Task
        /\ <<"activate_init_node", f>> \notin Task /\ <<"factor_subtree", f>> \in Task
  BY TaskShape, TaskOf DEF OuterKinds, FactorKinds
<1>2. f \notin Subtree =>
        /\ <<"fini_node", f>> \in Task /\ <<"factor_front_indef_failed", f>> \in Task
        /\ <<"activate_init_node", f>> \in Task /\ <<"factor_subtree", f>> \notin Task
  BY TaskShape, TaskOf DEF OuterKinds, FactorKinds
<1> QED
  BY <1>1, <1>2 DEF phase, IsDone, DoneTask

(* A child whose parent may be factorized is absorbed.                      *)
LEMMA AbsorbedIs ==
  ASSUME IInv, NEW c \in Front, DoneTask("assemble_block", c), Past(<<"assemble_delays", c>>)
  PROVE  c \in E_absorbed
<1>1. <<"assemble_block", c>> \in Task /\ <<"assemble_delays", c>> \in Task
  BY TaskOf DEF ChildKinds
<1>2. Skipped(<<"assemble_delays", c>>) => ndelay_out[c] = 0
  BY AssembleOf DEF IInv, DataInv, DelaysSent, Skipped, Sent
<1> QED
  BY <1>1, <1>2 DEF E_absorbed, IsDone, DoneTask, Past

(* What a front that is freed has gone through.                             *)
LEMMA FreedAfter ==
  ASSUME FlowInv, NEW c \in Front \ Subtree, StartedTask("fini_node", c)
  PROVE  /\ FrontDone(c)
         /\ HasContrib(c) => DoneTask("factor_front_indef_failed", Parent[c])
<1>1. StartedTask("fini_cnodes", Parent[c])
  BY UsedBeforeFreed
<1>2. Parent[c] \in (Front \ Subtree) \cup {Root} /\ c \in Children(Parent[c])
  BY TreeFacts, ParentSubmitters
<1>3. FrontDone(c)
  BY <1>1, <1>2, ChildrenDone DEF ReaderKinds
<1>4. ASSUME HasContrib(c) PROVE DoneTask("factor_front_indef_failed", Parent[c])
  <2>1. Parent[c] \in Front \ Subtree
    BY <1>4, TreeFacts
  <2>2. DoneTask("nelim_sync", Parent[c])
    BY <1>1, <2>1, EarlierDone, MainOrder
  <2> QED
    BY <2>1, <2>2, SyncedDone DEF StartedTask, Started, DoneTask
<1> QED
  BY <1>3, <1>4

(* fini_node, submitted by fini_cnodes, frees no contribution block before  *)
(* both assemblies of it into the parent are done.                          *)
THEOREM TreeTasksHandOver == Spec => []HandedOver
<1>1. ASSUME IInv PROVE HandedOver
  <2> SUFFICES ASSUME NEW c \in Front, phase[c] = "released", HasContrib(c)
               PROVE  c \in E_absorbed /\ (HasContrib(Parent[c]) => c \in E_passed)
    BY SameState DEF HandedOver
  <2>0. FlowInv
    BY <1>1 DEF IInv
  <2>1. c \notin Subtree /\ DoneTask("fini_node", c)
    BY <2>0, PhaseIs
  <2>2. /\ DoneTask("assemble_block", c) /\ Past(<<"assemble_delays", c>>)
        /\ HasContrib(Parent[c]) => DoneTask("assemble_contrib_block", c)
    BY <2>0, <2>1, UsedBeforeFreed DEF StartedTask, Started, DoneTask
  <2>3. <<"assemble_contrib_block", c>> \in Task
    BY TaskOf DEF ChildKinds
  <2> QED
    BY <1>1, <2>2, <2>3, AbsorbedIs DEF E_passed, IsDone, DoneTask
<1> QED
  BY InitIInv, StepIInv, <1>1, PTL DEF Spec

-----------------------------------------------------------------------------
(* Every step of the tasks is a step of the elimination tree, or none.      *)

DoneSame(k) == \A f : IsDone(<<k, f>>)' <=> IsDone(<<k, f>>)

MappedKinds == {"fini_node", "factor_subtree", "factor_front_indef_failed", "activate_init_node",
                "assemble_block", "assemble_delays", "assemble_contrib_block"}

LEMMA Unmapped ==
  ASSUME \A k \in MappedKinds : DoneSame(k), ndelay_out' = ndelay_out
  PROVE  UNCHANGED <<phase, E_ndelay, E_absorbed, E_passed>>
<1>1. phase' = phase
  BY DEF phase, DoneSame, MappedKinds
<1>2. E_ndelay' = E_ndelay
  BY <1>1 DEF E_ndelay
<1>3. E_absorbed' = E_absorbed /\ E_passed' = E_passed
  BY DEF E_absorbed, E_passed, DoneSame, MappedKinds
<1> QED
  BY <1>1, <1>2, <1>3

DoneOnly(k, f) ==
  \A l, g : IsDone(<<l, g>>)' <=> IsDone(<<l, g>>) \/ (l = k /\ g = f)

LEMMA DoneAfter ==
  ASSUME FlowTypeOK, NEW k, NEW f, Finish(<<k, f>>)
  PROVE  DoneOnly(k, f)
<1> SUFFICES ASSUME NEW l, NEW g
             PROVE  IsDone(<<l, g>>)' <=> IsDone(<<l, g>>) \/ (l = k /\ g = f)
  BY DEF DoneOnly
<1>1. CASE l = k /\ g = f
  BY <1>1 DEF Finish, IsDone, FlowTypeOK
<1>2. CASE ~ (l = k /\ g = f)
  <2>1. <<l, g>> # <<k, f>>
    BY <1>2
  <2> QED
    BY <1>2, <2>1 DEF Finish, IsDone, FlowTypeOK
<1> QED
  BY <1>1, <1>2

TreeVars == <<phase, E_ndelay, E_absorbed, E_passed>>

NotDoneTwice(op) == UNCHANGED status \/ status[op] # "done"

LEMMA OtherSteps ==
  ASSUME FlowTypeOK,
         \/ \E t \in Task : Start(t)
         \/ \E s \in Task : s[1] \in Submitters \cup {"nelim_sync"} /\ EndSubmitter(s)
         \/ \E s \in Submitter : \E op \in Code[s] : SubmitFlow(s, op) /\ NotDoneTwice(op)
                                   /\ ndelay_out' = ndelay_out
         \/ UNCHANGED vars
  PROVE  UNCHANGED TreeVars
<1>1. ASSUME NEW t \in Task, Start(t) PROVE UNCHANGED TreeVars
  <2>1. \A k \in MappedKinds : DoneSame(k)
    BY <1>1 DEF Start, DoneSame, IsDone, FlowTypeOK
  <2> QED
    BY <1>1, <2>1, Unmapped DEF Start, frontVars, TreeVars
<1>2. ASSUME NEW s \in Task, s[1] \in Submitters \cup {"nelim_sync"}, EndSubmitter(s)
      PROVE  UNCHANGED TreeVars
  <2>1. s = <<s[1], s[2]>>
    BY TaskShape
  <2>2. Finish(<<s[1], s[2]>>) /\ ndelay_out' = ndelay_out
    BY <1>2, <2>1 DEF EndSubmitter, frontVars
  <2>3. \A k \in MappedKinds : k # s[1]
    BY <1>2 DEF MappedKinds, Submitters
  <2>4. \A k \in MappedKinds : DoneSame(k)
    <3>1. DoneOnly(s[1], s[2])
      BY <2>2, <2>3, DoneAfter
    <3> QED
      BY <2>2, <2>3, <3>1 DEF DoneSame, DoneOnly
  <2> QED
    BY <2>2, <2>4, Unmapped DEF TreeVars
<1>3. ASSUME NEW s \in Submitter, NEW op \in Code[s], SubmitFlow(s, op), NotDoneTwice(op),
             ndelay_out' = ndelay_out
      PROVE  UNCHANGED TreeVars
  <2>1. status' = status \/ status' = [status EXCEPT ![op] = "submitted"]
    BY <1>3 DEF SubmitFlow, SubmitTask
  <2>2. \A k \in MappedKinds : DoneSame(k)
    BY <1>3, <2>1 DEF DoneSame, IsDone, FlowTypeOK, NotDoneTwice
  <2> QED
    BY <1>3, <2>2, Unmapped DEF TreeVars
<1>4. ASSUME UNCHANGED vars PROVE UNCHANGED TreeVars
  <2>1. \A k \in MappedKinds : DoneSame(k)
    BY <1>4 DEF vars, flowVars, DoneSame, IsDone
  <2> QED
    BY <1>4, <2>1, Unmapped DEF vars, frontVars, TreeVars
<1> QED
  BY <1>1, <1>2, <1>3, <1>4

(* The actions of the elimination tree, in terms of the state they map to.  *)
LEMMA SameActions ==
  ASSUME NEW f \in Front
  PROVE
    /\ EliminationTree!FactorSubtree(f) <=>
         /\ f \in Subtree
         /\ phase[f] = "none"
         /\ phase' = [phase EXCEPT ![f] = "factored"]
         /\ \E n \in 0..MaxDelay[f] : E_ndelay' = [E_ndelay EXCEPT ![f] = n]
         /\ E_absorbed' = E_absorbed /\ E_passed' = E_passed
    /\ EliminationTree!Activate(f) <=>
         /\ f \notin Subtree
         /\ phase[f] = "none"
         /\ \A c \in Children(f) : phase[c] = "factored"
         /\ phase' = [phase EXCEPT ![f] = "active"]
         /\ E_ndelay' = E_ndelay /\ E_absorbed' = E_absorbed /\ E_passed' = E_passed
    /\ EliminationTree!Absorb(f) <=>
         /\ HasContrib(f)
         /\ phase[f] = "factored" /\ phase[Parent[f]] = "active"
         /\ Children(f) \subseteq E_passed
         /\ f \notin E_absorbed
         /\ E_absorbed' = E_absorbed \cup {f}
         /\ phase' = phase /\ E_ndelay' = E_ndelay /\ E_passed' = E_passed
    /\ EliminationTree!Factorize(f) <=>
         /\ phase[f] = "active"
         /\ Children(f) \subseteq E_absorbed
         /\ phase' = [phase EXCEPT ![f] = "factored"]
         /\ \E n \in 0..(NCol[f] + DelayedTo(E_ndelay, f)) : E_ndelay' = [E_ndelay EXCEPT ![f] = n]
         /\ E_absorbed' = E_absorbed /\ E_passed' = E_passed
    /\ EliminationTree!Pass(f) <=>
         /\ HasContrib(f) /\ HasContrib(Parent[f])
         /\ phase[f] = "factored" /\ phase[Parent[f]] = "factored"
         /\ f \notin E_passed
         /\ E_passed' = E_passed \cup {f}
         /\ phase' = phase /\ E_ndelay' = E_ndelay /\ E_absorbed' = E_absorbed
    /\ EliminationTree!Release(f) <=>
         /\ f \notin Subtree
         /\ phase[f] = "factored"
         /\ HasContrib(f) =>
              /\ phase[Parent[f]] \in {"factored", "released"}
              /\ HasContrib(Parent[f]) => f \in E_passed
         /\ phase' = [phase EXCEPT ![f] = "released"]
         /\ E_ndelay' = E_ndelay /\ E_absorbed' = E_absorbed /\ E_passed' = E_passed
<1> USE SameTree
<1>1. EliminationTree!FactorSubtree(f) <=>
         /\ f \in Subtree
         /\ phase[f] = "none"
         /\ phase' = [phase EXCEPT ![f] = "factored"]
         /\ \E n \in 0..MaxDelay[f] : E_ndelay' = [E_ndelay EXCEPT ![f] = n]
         /\ E_absorbed' = E_absorbed /\ E_passed' = E_passed
  BY DEF EliminationTree!FactorSubtree, E_ndelay, E_absorbed, E_passed
<1>2. EliminationTree!Activate(f) <=>
         /\ f \notin Subtree
         /\ phase[f] = "none"
         /\ \A c \in Children(f) : phase[c] = "factored"
         /\ phase' = [phase EXCEPT ![f] = "active"]
         /\ E_ndelay' = E_ndelay /\ E_absorbed' = E_absorbed /\ E_passed' = E_passed
  BY DEF EliminationTree!Activate, E_ndelay, E_absorbed, E_passed
<1>3. EliminationTree!Absorb(f) <=>
         /\ HasContrib(f)
         /\ phase[f] = "factored" /\ phase[Parent[f]] = "active"
         /\ Children(f) \subseteq E_passed
         /\ f \notin E_absorbed
         /\ E_absorbed' = E_absorbed \cup {f}
         /\ phase' = phase /\ E_ndelay' = E_ndelay /\ E_passed' = E_passed
  BY DEF EliminationTree!Absorb, E_ndelay, E_absorbed, E_passed
<1>4. EliminationTree!Factorize(f) <=>
         /\ phase[f] = "active"
         /\ Children(f) \subseteq E_absorbed
         /\ phase' = [phase EXCEPT ![f] = "factored"]
         /\ \E n \in 0..(NCol[f] + DelayedTo(E_ndelay, f)) : E_ndelay' = [E_ndelay EXCEPT ![f] = n]
         /\ E_absorbed' = E_absorbed /\ E_passed' = E_passed
  BY DEF EliminationTree!Factorize, EliminationTree!ncol, E_ndelay, E_absorbed, E_passed
<1>5. EliminationTree!Pass(f) <=>
         /\ HasContrib(f) /\ HasContrib(Parent[f])
         /\ phase[f] = "factored" /\ phase[Parent[f]] = "factored"
         /\ f \notin E_passed
         /\ E_passed' = E_passed \cup {f}
         /\ phase' = phase /\ E_ndelay' = E_ndelay /\ E_absorbed' = E_absorbed
  BY DEF EliminationTree!Pass, E_ndelay, E_absorbed, E_passed
<1>6. EliminationTree!Release(f) <=>
         /\ f \notin Subtree
         /\ phase[f] = "factored"
         /\ HasContrib(f) =>
              /\ phase[Parent[f]] \in {"factored", "released"}
              /\ HasContrib(Parent[f]) => f \in E_passed
         /\ phase' = [phase EXCEPT ![f] = "released"]
         /\ E_ndelay' = E_ndelay /\ E_absorbed' = E_absorbed /\ E_passed' = E_passed
  BY DEF EliminationTree!Release, E_ndelay, E_absorbed, E_passed
<1> QED
  BY <1>1, <1>2, <1>3, <1>4, <1>5, <1>6

PhaseKinds == {"fini_node", "factor_subtree", "factor_front_indef_failed", "activate_init_node"}

(* What the end of a task changes in the elimination tree.                  *)
LEMMA TreeAfter ==
  ASSUME FlowTypeOK, NEW k, NEW f \in Front, Finish(<<k, f>>)
  PROVE  /\ phase' = [phase EXCEPT ![f] = phase'[f]]
         /\ k \notin PhaseKinds => phase' = phase
         /\ k # "assemble_contrib_block" => E_passed' = E_passed
         /\ k = "assemble_contrib_block" => E_passed' = E_passed \cup {f}
<1>0. \A l, g : IsDone(<<l, g>>)' <=> IsDone(<<l, g>>) \/ (l = k /\ g = f)
  <2>1. DoneOnly(k, f)
    BY DoneAfter
  <2> QED
    BY <2>1 DEF DoneOnly
<1>1. \A g \in Front : g # f => phase'[g] = phase[g]
  BY <1>0 DEF phase
<1>2. ASSUME k \notin PhaseKinds PROVE phase' = phase
  BY <1>0, <1>2 DEF phase, PhaseKinds
<1>3. DOMAIN phase = Front /\ DOMAIN phase' = Front /\ phase' = [g \in Front |-> phase'[g]]
      /\ phase = [g \in Front |-> phase[g]]
  BY DEF phase
<1>4. phase' = [phase EXCEPT ![f] = phase'[f]]
  BY <1>1, <1>3
<1>5. /\ k # "assemble_contrib_block" => E_passed' = E_passed
      /\ k = "assemble_contrib_block" => E_passed' = E_passed \cup {f}
  BY <1>0 DEF E_passed
<1> QED
  BY <1>2, <1>4, <1>5

(* While a front is activated or factorized, it has not been absorbed.      *)
LEMMA NotYetAbsorbed ==
  ASSUME FlowInv, NEW f \in Front, ~ FrontDone(f)
  PROVE  f \notin E_absorbed /\ ~ IsDone(<<"assemble_block", f>>)
<1> SUFFICES ASSUME IsDone(<<"assemble_block", f>>) PROVE FALSE
  BY DEF E_absorbed
<1>1. StartedTask("assemble", Parent[f]) /\ HasContrib(f) /\ Parent[f] \in Front \ Subtree
  BY ActivatedBeforeChild DEF IsDone
<1>2. FrontDone(f)
  BY <1>1, ParentSubmitters, ChildrenDone, TreeFacts DEF ReaderKinds
<1> QED
  BY <1>2

LEMMA SameAbsorbed ==
  ASSUME FlowInv, DataTypeOK, NEW f \in Front, ~ FrontDone(f), NEW k, Finish(<<k, f>>),
         k \notin {"assemble_block", "assemble_delays"},
         \A g \in Front : g # f => ndelay_out'[g] = ndelay_out[g]
  PROVE  E_absorbed' = E_absorbed
<1>0. FlowTypeOK
  BY DEF FlowInv
<1>1. DoneSame("assemble_block") /\ DoneSame("assemble_delays")
  <2>1. DoneOnly(k, f)
    BY <1>0, DoneAfter
  <2> QED
    BY <1>0, <2>1 DEF DoneSame, DoneOnly
<1>2. ~ IsDone(<<"assemble_block", f>>)
  BY NotYetAbsorbed
<1> QED
  BY <1>1, <1>2 DEF E_absorbed, DoneSame

LEMMA SubtreeStep ==
  ASSUME IInv, NEW f \in Front, factor_subtree(f)
  PROVE  EliminationTree!FactorSubtree(f)
<1>1. Finish(<<"factor_subtree", f>>) /\ FlowInv /\ FlowTypeOK /\ DataTypeOK
  BY DEF factor_subtree, IInv, FlowInv, DataInv
<1>2. f \in Subtree /\ ~ DoneTask("factor_subtree", f) /\ ~ FrontDone(f)
  BY <1>1, TaskShape DEF Finish, DoneTask, FrontDone
<1>3. phase[f] = "none" /\ phase'[f] = "factored"
  <2>1. phase[f] = "none"
    BY <1>1, <1>2, PhaseIs
  <2>2. IsDone(<<"factor_subtree", f>>)' /\ ~ IsDone(<<"fini_node", f>>)'
    BY <1>1, <1>2, TaskShape DEF Finish, IsDone, FlowTypeOK, FactorKinds
  <2> QED
    BY <2>1, <2>2 DEF phase
<1>4. PICK n \in 0..MaxDelay[f] : ndelay_out' = [ndelay_out EXCEPT ![f] = n]
  BY DEF factor_subtree
<1>5. phase' = [phase EXCEPT ![f] = "factored"] /\ E_passed' = E_passed
  BY <1>1, <1>3, TreeAfter
<1>6. E_absorbed' = E_absorbed
  BY <1>1, <1>2, <1>4, SameAbsorbed DEF DataTypeOK
<1>7. E_ndelay' = [E_ndelay EXCEPT ![f] = n]
  BY <1>1, <1>4, <1>5 DEF E_ndelay, DataTypeOK, phase
<1> QED
  BY <1>2, <1>3, <1>4, <1>5, <1>6, <1>7, SameActions

LEMMA ActivateStep ==
  ASSUME IInv, NEW f \in Front, activate_init_node(f)
  PROVE  EliminationTree!Activate(f)
<1>1. Finish(<<"activate_init_node", f>>) /\ FlowInv /\ FlowTypeOK /\ DataTypeOK
  BY DEF activate_init_node, IInv, FlowInv, DataInv
<1>2. f \notin Subtree /\ StartedTask("activate_init_node", f) /\ ~ DoneTask("activate_init_node", f)
      /\ ~ FrontDone(f)
  BY <1>1, TaskShape DEF Finish, DoneTask, FrontDone, OuterKinds, StartedTask, Started
<1>3. ~ DoneTask("fini_node", f) /\ ~ DoneTask("factor_front_indef_failed", f)
  <2>1. ~ DoneTask("fini_node", f)
    BY <1>1, <1>2, FreedAfter DEF StartedTask, Started, DoneTask
  <2>2. ~ DoneTask("factor_front_indef_failed", f)
    BY <1>1, <1>2, FactorSubmitted DEF DoneTask, FactorKinds
  <2> QED
    BY <2>1, <2>2
<1>4. phase[f] = "none" /\ phase'[f] = "active"
  <2>1. phase[f] = "none"
    BY <1>1, <1>2, <1>3, PhaseIs
  <2>2. \A l, g : IsDone(<<l, g>>)' <=> IsDone(<<l, g>>) \/ (l = "activate_init_node" /\ g = f)
    <3>1. DoneOnly("activate_init_node", f)
      BY <1>1, DoneAfter
    <3> QED
      BY <1>1, <3>1 DEF DoneOnly
  <2>3. <<"factor_subtree", f>> \notin Task
    BY <1>2, TaskShape
  <2> QED
    BY <1>3, <2>1, <2>2, <2>3 DEF phase, IsDone, DoneTask
<1>5. phase' = [phase EXCEPT ![f] = "active"] /\ E_passed' = E_passed
  BY <1>1, <1>4, TreeAfter
<1>6. ndelay_out' = [ndelay_out EXCEPT ![f] = 0]
  BY DEF activate_init_node
<1>7. E_absorbed' = E_absorbed
  BY <1>1, <1>2, <1>6, SameAbsorbed DEF DataTypeOK
<1>8. E_ndelay' = E_ndelay
  BY <1>1, <1>4, <1>5, <1>6 DEF E_ndelay, DataTypeOK, phase
<1>9. ASSUME NEW c \in Children(f) PROVE phase[c] = "factored"
  <2>1. c \in Front /\ Parent[c] = f
    BY ChildOf, TreeFacts DEF Front
  <2>2. FrontDone(c)
    BY <1>1, <1>2, ChildrenDone, TreeFacts DEF ReaderKinds
  <2>3. ASSUME c \notin Subtree, DoneTask("fini_node", c) PROVE FALSE
    <3>1. StartedTask("fini_cnodes", f)
      BY <1>1, <2>1, <2>3, UsedBeforeFreed DEF StartedTask, Started, DoneTask
    <3>2. DoneTask("activate_init_node", f)
      BY <1>1, <1>2, <3>1, ActivatedBefore
    <3> QED
      BY <1>2, <3>2
  <2> QED
    BY <1>1, <2>1, <2>2, <2>3, PhaseIs DEF FrontDone
<1> QED
  BY <1>2, <1>4, <1>5, <1>7, <1>8, <1>9, SameActions

LEMMA FactorizeStep ==
  ASSUME PivotMethod = "app_block", IInv, NEW f \in Front, factor_front_indef_failed(f)
  PROVE  EliminationTree!Factorize(f)
<1>0. FlowInv /\ FlowTypeOK /\ DataTypeOK /\ Eliminated /\ Sized
  BY DEF IInv, FlowInv, DataInv
<1>1. Finish(<<"factor_front_indef_failed", f>>)
  BY DEF factor_front_indef_failed
<1>2. PICK m \in 0..ncol(f) :
        /\ ndelay_out' = [ndelay_out EXCEPT ![f] = ncol(f) - m]
        /\ ncol(f) - m \in 0..ncol(f)
  BY <1>0, FailedStep
<1>3. f \in Front \ Subtree
  BY <1>0, FailedStep
<1>4. StartedTask("factor_front_indef_failed", f) /\ ~ DoneTask("factor_front_indef_failed", f)
      /\ ~ FrontDone(f)
  BY <1>1, <1>3 DEF Finish, DoneTask, FrontDone, StartedTask, Started
<1>5. ~ DoneTask("fini_node", f) /\ DoneTask("activate_init_node", f)
  <2>1. ~ DoneTask("fini_node", f)
    BY <1>0, <1>3, <1>4, FreedAfter DEF StartedTask, Started, DoneTask, FrontDone
  <2>2. DoneTask("activate_init_node", f)
    BY <1>0, <1>3, <1>4, FactorSubmitted DEF StartedTask, Started, FactorKinds
  <2> QED
    BY <2>1, <2>2
<1>6. phase[f] = "active" /\ phase'[f] = "factored"
  <2>1. phase[f] = "active"
    BY <1>0, <1>3, <1>4, <1>5, PhaseIs
  <2>2. \A l, g : IsDone(<<l, g>>)' <=> IsDone(<<l, g>>) \/ (l = "factor_front_indef_failed" /\ g = f)
    <3>1. DoneOnly("factor_front_indef_failed", f)
      BY <1>0, <1>1, DoneAfter
    <3> QED
      BY <1>0, <1>1, <3>1 DEF DoneOnly
  <2>3. IsDone(<<"factor_front_indef_failed", f>>)' /\ ~ IsDone(<<"fini_node", f>>)'
    BY <1>5, <2>2 DEF IsDone, DoneTask
  <2> QED
    BY <2>1, <2>3 DEF phase
<1>7. phase' = [phase EXCEPT ![f] = "factored"] /\ E_passed' = E_passed
  BY <1>0, <1>1, <1>6, TreeAfter
<1>8. E_absorbed' = E_absorbed
  BY <1>0, <1>1, <1>2, <1>4, SameAbsorbed DEF DataTypeOK
<1>9. E_ndelay' = [E_ndelay EXCEPT ![f] = ncol(f) - m]
  BY <1>0, <1>2, <1>7 DEF E_ndelay, DataTypeOK, phase
<1>10. DoneTask("factor_front_indef_app", f)
  BY <1>0, <1>3, <1>4, FirstBeforeSecond
<1>11. ASSUME NEW c \in Children(f) PROVE c \in E_absorbed
  <2>1. c \in Front /\ Parent[c] = f
    BY ChildOf, TreeFacts DEF Front
  <2>2. DoneTask("assemble_block", c) /\ Past(<<"assemble_delays", c>>)
    BY <1>0, <1>3, <1>10, AssembledBeforePass DEF StartedTask, Started, DoneTask
  <2> QED
    BY <2>1, <2>2, AbsorbedIs
<1>12. ncol(f) = NCol[f] + DelayedTo(E_ndelay, f)
  <2>1. ASSUME NEW c \in Front, Parent[c] = f PROVE ndelay_out[c] = E_ndelay[c]
    <3>1. c \in Children(f)
      BY <2>1, ParentSubmitters
    <3>2. FrontDone(c)
      BY <1>0, <1>3, <1>5, <3>1, ChildrenDone, TreeFacts
         DEF ReaderKinds, StartedTask, Started, DoneTask
    <3>3. phase[c] \in {"factored", "released"}
      BY <1>0, <2>1, <3>2, PhaseIs DEF FrontDone
    <3> QED
      BY <3>3 DEF E_ndelay
  <2>2. DelayedTo(ndelay_out, f) = DelayedTo(E_ndelay, f)
    BY <2>1, DelayedToOf
  <2> QED
    BY <1>0, <1>3, <1>5, <2>2 DEF Sized, ncol
<1>13. \E n \in 0..(NCol[f] + DelayedTo(E_ndelay, f)) : E_ndelay' = [E_ndelay EXCEPT ![f] = n]
  BY <1>2, <1>9, <1>12
<1> QED
  BY <1>6, <1>7, <1>8, <1>11, <1>13, SameActions

(* A child is absorbed when both its assemblies are done, the second one    *)
(* only if it delays columns.                                               *)
LEMMA AbsorbStep ==
  ASSUME PivotMethod = "app_block", IInv, NEW c \in Front,
         NEW k \in {"assemble_block", "assemble_delays"},
         Finish(<<k, c>>), ndelay_out' = ndelay_out
  PROVE  EliminationTree!Absorb(c) \/ UNCHANGED TreeVars
<1> DEFINE p == Parent[c]
<1>0. FlowInv /\ FlowTypeOK
  BY DEF IInv, FlowInv
<1>1. phase' = phase /\ E_passed' = E_passed
  BY <1>0, TreeAfter DEF PhaseKinds
<1>2. E_ndelay' = E_ndelay
  BY <1>1 DEF E_ndelay
<1>3. status[<<k, c>>] = "running" /\ <<k, c>> \in Task
  BY DEF Finish
<1>4. /\ HasContrib(c) /\ p \in Front \ Subtree
      /\ StartedTask("assemble", p) /\ DoneTask("activate_init_node", p)
  BY <1>0, <1>3, ActivatedBeforeChild
<1>5. ~ (DoneTask("assemble_block", c) /\ Past(<<"assemble_delays", c>>))
  BY <1>3 DEF DoneTask, Past, Skipped
<1>6. c \in Children(p)
  BY ParentSubmitters
<1>7. phase[c] = "factored"
  <2>1. FrontDone(c)
    BY <1>0, <1>4, <1>6, ChildrenDone, TreeFacts DEF ReaderKinds
  <2>2. c \notin Subtree => ~ DoneTask("fini_node", c)
    BY <1>0, <1>4, <1>5, UsedBeforeFreed DEF StartedTask, Started, DoneTask
  <2> QED
    BY <1>0, <2>1, <2>2, PhaseIs DEF FrontDone
<1>8. phase[p] = "active"
  <2>1. ~ DoneTask("factor_front_indef_app", p)
    BY <1>0, <1>4, <1>5, <1>6, AssembledBeforePass DEF StartedTask, Started, DoneTask
  <2>2. ~ DoneTask("factor_front_indef_failed", p)
    BY <1>0, <1>4, <2>1, FirstBeforeSecond DEF StartedTask, Started, DoneTask
  <2>3. ~ DoneTask("fini_node", p)
    BY <1>0, <1>4, <2>2, FreedAfter DEF StartedTask, Started, DoneTask, FrontDone
  <2> QED
    BY <1>0, <1>4, <2>2, <2>3, PhaseIs
<1>9. /\ \A g : IsDone(<<"assemble_block", g>>)' <=>
                  IsDone(<<"assemble_block", g>>) \/ (k = "assemble_block" /\ g = c)
      /\ \A g : IsDone(<<"assemble_delays", g>>)' <=>
                  IsDone(<<"assemble_delays", g>>) \/ (k = "assemble_delays" /\ g = c)
  <2>1. DoneOnly(k, c)
    BY <1>0, DoneAfter
  <2> QED
    BY <1>0, <2>1 DEF DoneOnly
<1>10. E_absorbed' \ {c} = E_absorbed \ {c} /\ (c \in E_absorbed => c \in E_absorbed')
  BY <1>9 DEF E_absorbed
<1>11. CASE E_absorbed' = E_absorbed
  BY <1>1, <1>2, <1>11 DEF TreeVars
<1>12. CASE E_absorbed' # E_absorbed
  <2>1. c \notin E_absorbed /\ c \in E_absorbed' /\ E_absorbed' = E_absorbed \cup {c}
    BY <1>10, <1>12
  <2>2. IsDone(<<"assemble_block", c>>)'
    BY <2>1 DEF E_absorbed
  <2>3. StartedTask("assemble_block", c)
    BY <1>3, <1>9, <2>2 DEF StartedTask, Started, IsDone
  <2>4. ASSUME NEW d \in Children(c) PROVE d \in E_passed
    <3>1. DoneTask("assemble_contrib_block", d)
      BY <1>0, <2>3, CompleteBeforeUse
    <3>2. c \in 1..Root
      BY TreeFacts DEF Front
    <3>3. d \in Front
      BY <3>2, ChildOf
    <3>4. <<"assemble_contrib_block", d>> \in Task
      BY <3>3, TaskOf DEF ChildKinds
    <3> QED
      BY <3>1, <3>3, <3>4 DEF E_passed, IsDone, DoneTask
  <2> QED
    BY <1>1, <1>2, <1>4, <1>7, <1>8, <2>1, <2>4, SameActions
<1> QED
  BY <1>11, <1>12

LEMMA PassStep ==
  ASSUME IInv, NEW c \in Front, assemble_contrib_block(c)
  PROVE  EliminationTree!Pass(c)
<1> DEFINE p == Parent[c]
<1>0. FlowInv /\ FlowTypeOK
  BY DEF IInv, FlowInv
<1>1. Finish(<<"assemble_contrib_block", c>>) /\ ndelay_out' = ndelay_out
  BY DEF assemble_contrib_block
<1>2. phase' = phase /\ E_passed' = E_passed \cup {c}
  BY <1>0, <1>1, TreeAfter DEF PhaseKinds
<1>3. E_ndelay' = E_ndelay
  BY <1>1, <1>2 DEF E_ndelay
<1>4. E_absorbed' = E_absorbed
  <2>1. DoneSame("assemble_block") /\ DoneSame("assemble_delays")
    <3>1. DoneOnly("assemble_contrib_block", c)
      BY <1>0, <1>1, DoneAfter
    <3> QED
      BY <1>0, <1>1, <3>1 DEF DoneSame, DoneOnly
  <2> QED
    BY <1>1, <2>1 DEF E_absorbed, DoneSame
<1>5. status[<<"assemble_contrib_block", c>>] = "running"
  BY <1>1 DEF Finish
<1>6. /\ DoneTask("factor_front_indef_failed", p)
      /\ HasContrib(c) /\ HasContrib(p)
      /\ StartedTask("assemble_contrib", p)
  BY <1>0, <1>5, FactorizedBeforePassed DEF StartedTask, Started
<1>7. p \in Front \ Subtree /\ c \in Children(p)
  BY <1>6, ParentSubmitters
<1>8. ~ DoneTask("assemble_contrib_block", c) /\ c \notin E_passed
  BY <1>5 DEF DoneTask, E_passed, IsDone
<1>9. phase[c] = "factored"
  <2>1. FrontDone(c)
    BY <1>0, <1>6, <1>7, ChildrenDone, TreeFacts DEF ReaderKinds
  <2>2. c \notin Subtree => ~ DoneTask("fini_node", c)
    BY <1>0, <1>6, <1>8, UsedBeforeFreed DEF StartedTask, Started, DoneTask
  <2> QED
    BY <1>0, <2>1, <2>2, PhaseIs DEF FrontDone
<1>10. phase[p] = "factored"
  <2>1. ASSUME DoneTask("fini_node", p) PROVE FALSE
    <3>1. DoneTask("assemble_block", p)
      BY <1>0, <1>6, <1>7, <2>1, UsedBeforeFreed DEF StartedTask, Started, DoneTask
    <3>2. DoneTask("assemble_contrib_block", c)
      BY <1>0, <1>7, <3>1, CompleteBeforeUse DEF StartedTask, Started, DoneTask
    <3> QED
      BY <1>8, <3>2
  <2> QED
    BY <1>0, <1>6, <1>7, <2>1, PhaseIs
<1> QED
  BY <1>2, <1>3, <1>4, <1>6, <1>8, <1>9, <1>10, SameActions

LEMMA ReleaseStep ==
  ASSUME IInv, NEW f \in Front, fini_node(f)
  PROVE  EliminationTree!Release(f)
<1>0. FlowInv /\ FlowTypeOK
  BY DEF IInv, FlowInv
<1>1. Finish(<<"fini_node", f>>) /\ ndelay_out' = ndelay_out
  BY DEF fini_node
<1>2. f \notin Subtree /\ StartedTask("fini_node", f) /\ ~ DoneTask("fini_node", f)
  BY <1>1, TaskShape DEF Finish, StartedTask, Started, DoneTask
<1>3. FrontDone(f) /\ (HasContrib(f) => DoneTask("factor_front_indef_failed", Parent[f]))
  BY <1>0, <1>2, FreedAfter
<1>4. phase[f] = "factored" /\ phase'[f] = "released"
  <2>1. phase[f] = "factored"
    BY <1>0, <1>2, <1>3, PhaseIs DEF FrontDone
  <2>2. IsDone(<<"fini_node", f>>)'
    BY <1>0, <1>1 DEF Finish, IsDone, FlowTypeOK
  <2> QED
    BY <2>1, <2>2 DEF phase
<1>5. phase' = [phase EXCEPT ![f] = "released"] /\ E_passed' = E_passed
  BY <1>0, <1>1, <1>4, TreeAfter
<1>6. E_ndelay' = E_ndelay
  BY <1>1, <1>4, <1>5 DEF E_ndelay, phase
<1>7. E_absorbed' = E_absorbed
  <2>1. DoneSame("assemble_block") /\ DoneSame("assemble_delays")
    <3>1. DoneOnly("fini_node", f)
      BY <1>0, <1>1, DoneAfter
    <3> QED
      BY <1>0, <1>1, <3>1 DEF DoneSame, DoneOnly
  <2> QED
    BY <1>1, <2>1 DEF E_absorbed, DoneSame
<1>8. ASSUME HasContrib(f)
      PROVE  /\ phase[Parent[f]] \in {"factored", "released"}
             /\ HasContrib(Parent[f]) => f \in E_passed
  <2>1. Parent[f] \in Front \ Subtree
    BY <1>8, TreeFacts
  <2>2. phase[Parent[f]] \in {"factored", "released"}
    BY <1>0, <1>3, <1>8, <2>1, PhaseIs
  <2>3. HasContrib(Parent[f]) => DoneTask("assemble_contrib_block", f)
    BY <1>0, <1>2, <1>8, UsedBeforeFreed
  <2>4. <<"assemble_contrib_block", f>> \in Task
    BY TaskOf DEF ChildKinds
  <2> QED
    BY <2>2, <2>3, <2>4 DEF E_passed, IsDone, DoneTask
<1> QED
  BY <1>2, <1>4, <1>5, <1>6, <1>7, <1>8, SameActions

(* The first pass and its contribution do not show in the elimination tree. *)
LEMMA HiddenStep ==
  ASSUME FlowTypeOK, NEW f \in Front, factor_front_indef_app(f) \/ update_contrib_block_app(f)
  PROVE  UNCHANGED TreeVars
<1>1. PICK k \in {"factor_front_indef_app", "update_contrib_block_app"} :
        Finish(<<k, f>>) /\ ndelay_out' = ndelay_out
  BY DEF factor_front_indef_app, update_contrib_block_app
<1>2. \A l \in MappedKinds : DoneSame(l)
  <2>1. DoneOnly(k, f)
    BY <1>1, DoneAfter
  <2> QED
    BY <1>1, <2>1 DEF DoneSame, DoneOnly, MappedKinds
<1> QED
  BY <1>1, <1>2, Unmapped DEF TreeVars

LEMMA TreeInit == Init => EliminationTree!Init
<1> SUFFICES ASSUME Init PROVE EliminationTree!Init
  OBVIOUS
<1>1. \A t : ~ IsDone(t)
  BY DEF Init, IsDone
<1>2. phase = [f \in Front |-> "none"]
  BY <1>1 DEF phase
<1>3. E_ndelay = [f \in Front |-> 0] /\ E_absorbed = {} /\ E_passed = {}
  BY <1>1, <1>2 DEF E_ndelay, E_absorbed, E_passed
<1> QED
  BY <1>2, <1>3, SameTree DEF EliminationTree!Init, E_ndelay, E_absorbed, E_passed

LEMMA TreeStep ==
  ASSUME PivotMethod = "app_block", IInv, [Next]_vars
  PROVE  [EliminationTree!Next]_(EliminationTree!vars)
<1>0. FlowTypeOK /\ FlowInv
  BY DEF IInv, FlowInv
<1>1. ASSUME UNCHANGED TreeVars PROVE UNCHANGED EliminationTree!vars
  BY <1>1 DEF TreeVars, EliminationTree!vars, E_ndelay, E_absorbed, E_passed
<1>2. ASSUME NEW f \in Front,
             \/ EliminationTree!FactorSubtree(f) \/ EliminationTree!Activate(f)
             \/ EliminationTree!Absorb(f) \/ EliminationTree!Factorize(f)
             \/ EliminationTree!Pass(f) \/ EliminationTree!Release(f)
      PROVE  EliminationTree!Next
  BY <1>2, SameTree DEF EliminationTree!Next
<1>3. ASSUME NEW f \in Front, Compute(f)
      PROVE  EliminationTree!Next \/ UNCHANGED TreeVars
  <2>1. CASE factor_subtree(f)
    BY <1>2, <2>1, SubtreeStep
  <2>2. CASE activate_init_node(f)
    BY <1>2, <2>2, ActivateStep
  <2>3. CASE factor_front_indef_app(f) \/ update_contrib_block_app(f)
    BY <1>0, <2>3, HiddenStep
  <2>4. CASE factor_front_indef_failed(f)
    BY <1>2, <2>4, FactorizeStep
  <2>5. CASE assemble_delays(f)
    <3>1. Finish(<<"assemble_delays", f>>) /\ ndelay_out' = ndelay_out
      BY <2>5 DEF assemble_delays
    <3> QED
      BY <1>2, <3>1, AbsorbStep
  <2>6. CASE assemble_block(f)
    <3>1. Finish(<<"assemble_block", f>>) /\ ndelay_out' = ndelay_out
      BY <2>6 DEF assemble_block
    <3> QED
      BY <1>2, <3>1, AbsorbStep
  <2>7. CASE assemble_contrib_block(f)
    BY <1>2, <2>7, PassStep
  <2>8. CASE fini_node(f)
    BY <1>2, <2>8, ReleaseStep
  <2> QED
    BY <1>3, <2>1, <2>2, <2>3, <2>4, <2>5, <2>6, <2>7, <2>8 DEF Compute
<1>4. ASSUME NEW s \in Submitter, NEW op \in Code[s], Submit(s, op)
      PROVE  UNCHANGED TreeVars
  <2>1. SubmitFlow(s, op) /\ ndelay_out' = ndelay_out
    BY <1>0, <1>4, SubmitIsFlow DEF Submit
  <2>2. NotDoneTwice(op)
    <3>1. op[1] \in OtherOps => op[1] # "assemble_delays"
      BY DEF OtherOps
    <3>2. op[1] \notin OtherOps => status[op] = "unsubmitted"
      BY <2>1, <1>0, CodeOps DEF SubmitFlow, FlowInv, SubmittedSent
    <3> QED
      BY <2>1, <3>1, <3>2 DEF SubmitFlow, NotDoneTwice
  <2> QED
    BY <1>0, <2>1, <2>2, OtherSteps
<1>5. ASSUME \/ \E t \in Task : Start(t)
             \/ \E s \in Task : s[1] \in Submitters \cup {"nelim_sync"} /\ EndSubmitter(s)
             \/ UNCHANGED vars
      PROVE  UNCHANGED TreeVars
  BY <1>0, <1>5, OtherSteps
<1>6. CASE Next
  BY <1>1, <1>3, <1>4, <1>5, <1>6 DEF Next, Compute, Terminated
<1>7. CASE UNCHANGED vars
  BY <1>1, <1>5, <1>7
<1> QED
  BY <1>6, <1>7

(* The tasks of the factorization, in whatever order StarPU runs them,      *)
(* implement the factorization of the elimination tree: every end of a task *)
(* activates, factorizes, absorbs, passes on or releases one front, as the  *)
(* tree allows, or does not show in it.                                     *)
THEOREM TreeTasksImplementEliminationTree ==
  ASSUME PivotMethod = "app_block"
  PROVE  Spec => ImplementsEliminationTree
<1>1. IInv /\ [Next]_vars => [EliminationTree!Next]_(EliminationTree!vars)
  BY TreeStep
<1> QED
  BY InitIInv, StepIInv, TreeInit, <1>1, PTL DEF Spec, ImplementsEliminationTree, EliminationTree!Spec

-----------------------------------------------------------------------------
(* The types.                                                               *)

DepsOK == \A t \in Task : deps[t] \subseteq Task
HandlesOK == registered \subseteq Handle

LEMMA HandleOf ==
  ASSUME NEW f \in 1..Root
  PROVE  /\ H(f) \in Handle /\ Hcontrib(f) \in Handle
         /\ activate_hdls(f) \subseteq Handle
BY DEF Handle, activate_hdls

LEMMA InitTypes == Init => DepsOK /\ HandlesOK
<1> SUFFICES ASSUME Init PROVE DepsOK /\ HandlesOK
  OBVIOUS
<1>1. ASSUME NEW t \in Task PROVE deps[t] \subseteq Task
  <2>1. Conflicts[t] \subseteq Task
    BY ConflictTask
  <2>2. nelim_sync_deps(t) \subseteq Task
    <3>1. CASE t[1] = "nelim_sync"
      <4>1. t[2] \in Front \ Subtree
        BY <3>1, TaskShape DEF OuterKinds
      <4>2. <<"factor_front_indef_failed", t[2]>> \in Task
        BY <4>1, TaskOf DEF FactorKinds
      <4> QED
        BY <3>1, <4>2 DEF nelim_sync_deps
    <3>2. CASE t[1] # "nelim_sync"
      BY <3>2 DEF nelim_sync_deps
    <3> QED
      BY <3>1, <3>2
  <2> QED
    BY <2>1, <2>2 DEF Init
<1>2. HandlesOK
  BY HandleOf DEF Init, HandlesOK
<1> QED
  BY <1>1, <1>2 DEF DepsOK

LEMMA TypesStep ==
  ASSUME FlowTypeOK, DepsOK, HandlesOK, [Next]_vars
  PROVE  DepsOK' /\ HandlesOK'
<1> USE DEF FlowTypeOK, DepsOK, HandlesOK
<1>1. ASSUME NEW t, Finish(t) PROVE DepsOK'
  BY <1>1 DEF Finish
<1>2. ASSUME NEW s \in Submitter, NEW op \in Code[s], Submit(s, op) PROVE DepsOK' /\ HandlesOK'
  <2>1. ASSUME SubmitTask(op) PROVE DepsOK'
    BY <2>1, ConflictTask DEF SubmitTask, InFlight
  <2>2. SubmitTask(op) \/ UNCHANGED deps
    BY <1>2 DEF Submit
  <2>3. registered' \subseteq registered
    BY <1>2 DEF Submit
  <2> QED
    BY <2>1, <2>2, <2>3
<1>3. ASSUME NEW f \in Front, Compute(f) PROVE DepsOK' /\ HandlesOK'
  <2>1. DepsOK'
    BY <1>1, <1>3, ComputeFinishes
  <2>2. registered' \subseteq registered \cup activate_hdls(f)
    BY <1>3 DEF Compute, factor_subtree, activate_init_node, factor_front_indef_app,
                update_contrib_block_app, factor_front_indef_failed, assemble_delays,
                assemble_block, assemble_contrib_block, fini_node
  <2>3. f \in 1..Root
    BY TreeFacts DEF Front
  <2> QED
    BY <2>1, <2>2, <2>3, HandleOf
<1>4. ASSUME NEW t \in Task, Start(t) PROVE DepsOK' /\ HandlesOK'
  BY <1>4 DEF Start
<1>5. ASSUME NEW t \in Task, EndSubmitter(t) PROVE DepsOK' /\ HandlesOK'
  BY <1>1, <1>5 DEF EndSubmitter
<1>6. CASE UNCHANGED vars
  BY <1>6 DEF vars, flowVars
<1>7. CASE Next
  BY <1>2, <1>3, <1>4, <1>5, <1>6, <1>7 DEF Next, Compute, Terminated
<1> QED
  BY <1>6, <1>7

(* The state is well formed, and no pass eliminates more columns than the   *)
(* front has with those its children delayed (nelim <= ncol).               *)
THEOREM TreeTypeCorrect == Spec => []TypeOK
<1>1. IInv /\ DepsOK /\ HandlesOK => TypeOK
  BY DEF IInv, FlowInv, FlowTypeOK, DataInv, DataTypeOK, Eliminated, DepsOK, HandlesOK, TypeOK
<1>2. IInv /\ DepsOK /\ HandlesOK /\ [Next]_vars => DepsOK' /\ HandlesOK'
  BY TypesStep DEF IInv, FlowInv
<1> QED
  BY InitIInv, InitTypes, StepIInv, <1>1, <1>2, PTL DEF Spec

-----------------------------------------------------------------------------
(* What the contribution blocks contain.                                    *)

(* The steps of a submitting task are done in the order of its code.        *)
SentInOrder ==
  \A s \in Submitter : \A op \in sent[s] : \A o \in Code[s] :
    Earlier(o, op) => o \in sent[s]

LEMMA SentStays ==
  ASSUME FlowTypeOK, [Next]_vars, NEW s \in Submitter
  PROVE  sent[s] \subseteq sent'[s]
<1>1. ASSUME NEW t, Finish(t) PROVE sent' = sent
  BY <1>1 DEF Finish
<1> QED
  BY <1>1, NextFlow DEF StartFlow, FinishFlow, SubmitFlow, FlowTypeOK

LEMMA SentInOrderStep ==
  ASSUME FlowTypeOK, SentInOrder, [Next]_vars
  PROVE  SentInOrder'
<1> SUFFICES ASSUME NEW s \in Submitter, NEW op \in sent'[s], NEW o \in Code[s], Earlier(o, op)
             PROVE  o \in sent'[s]
  BY DEF SentInOrder
<1>1. CASE op \in sent[s]
  BY <1>1, SentStays DEF SentInOrder
<1>2. CASE op \notin sent[s]
  <2>1. Submit(s, op)
    BY <1>2, Sends
  <2> QED
    BY <2>1, SentStays DEF Submit
<1> QED
  BY <1>1, <1>2

(* nelim is reset before the passes are submitted.                          *)
LEMMA NelimKept ==
  ASSUME FlowInv, DataTypeOK, SentInOrder, [Next]_vars, NEW f \in Front \ Subtree,
         NEW k \in FactorKinds, status[<<k, f>>] # "unsubmitted"
  PROVE  \/ nelim'[f] = nelim[f]
         \/ factor_front_indef_app(f) \/ factor_front_indef_failed(f)
<1> DEFINE s == <<"factor_front_indef", f>>
<1>1. <<k, f>> \in sent[s]
  BY FactorOf DEF FlowInv, SubmittedSent
<1>2. Earlier(<<"nelim", f>>, <<k, f>>)
  BY DEF Earlier, Place, FactorKinds
<1>3. s \in Submitter /\ <<"nelim", f>> \in Code[s]
  BY FactorOf DEF factor_front_indef
<1>4. <<"nelim", f>> \in sent[s]
  BY <1>1, <1>2, <1>3 DEF SentInOrder
<1>5. ~ Submit(s, <<"nelim", f>>)
  BY <1>4 DEF Submit
<1> QED
  BY <1>5, Frame, IsDomains DEF FrameOf

(* The contribution of the first pass comes after it.                       *)
LEMMA FirstBeforeContrib ==
  ASSUME FlowInv, NEW f \in Front \ Subtree, StartedTask("update_contrib_block_app", f)
  PROVE  /\ DoneTask("factor_front_indef_app", f)
         /\ PivotMethod = "app_block" /\ HasContrib(f)
<1> DEFINE t == <<"update_contrib_block_app", f>>
           u == <<"factor_front_indef_app", f>>
           s == <<"factor_front_indef", f>>
<1>1. /\ t \in Inner /\ SubmitterOf(t) = s /\ s \in Submitter /\ Code[s] = factor_front_indef(f)
      /\ u \in Inner /\ SubmitterOf(u) = s
  BY FactorOf DEF FactorKinds
<1>2. t \in factor_front_indef(f)
  BY FactorSubmitted DEF StartedTask, Started, FactorKinds
<1>3. PivotMethod = "app_block" /\ HasContrib(f)
  BY <1>2 DEF factor_front_indef
<1>4. u \in Code[s]
  BY <1>1, <1>3 DEF factor_front_indef
<1>5. t \in Task /\ u \in Task /\ u # t /\ Access[u].rw = {Hblk(f), Hcol(f)}
  BY <1>1, FactorAccess DEF Inner
<1>6. Hblk(f) \in Handles[t]
  <2>1. TaskAccess(t) = [r |-> {Hblk(f), Hcol(f), Hcontrib(f)}, rw |-> {}, c |-> {Htile(f)}]
    BY AccessByKind
  <2>2. Handles[t] = TaskAccess(t).r \cup TaskAccess(t).rw \cup TaskAccess(t).c
    BY <1>5, AccessOf
  <2> QED
    BY <2>1, <2>2
<1>7. u \in Conflicts[t]
  BY <1>5, <1>6, ConflictIf
<1>8. Earlier(u, t)
  BY DEF Earlier, Place
<1>9. u[1] # "assemble_delays"
  OBVIOUS
<1> QED
  BY <1>1, <1>3, <1>4, <1>7, <1>8, <1>9, InnerPast DEF DoneTask, StartedTask

(* After the second pass the block holds the contribution of the front.  If *)
(* no column was eliminated it was cleared, or keeps what its memory held.  *)
Complete(c) ==
  /\ <<"stale", c>> \in contrib[c] <=> PassesStale(c)
  /\ <<"zero", c>> \in contrib[c] <=> c \notin Subtree /\ nelim[c] = 0 /\ rsa(c) = 0

Contributed ==
  \A c \in Front :
    /\ c \in Subtree => <<"stale", c>> \notin contrib[c] /\ <<"zero", c>> \notin contrib[c]
    /\ c \notin Subtree /\ HasContrib(c) =>
         /\ /\ DoneTask("activate_init_node", c)
            /\ ~ DoneTask("factor_front_indef_failed", c)
            /\ nelim[c] = 0
            => contrib[c] = {<<"stale", c>>}
         /\ /\ DoneTask("update_contrib_block_app", c)
            /\ ~ DoneTask("factor_front_indef_failed", c)
            /\ nelim[c] # 0
            => contrib[c] = {<<"first", c>>}
         /\ /\ DoneTask("factor_front_indef_failed", c)
            /\ ~ DoneTask("fini_node", c)
            => Complete(c)
    /\ \A d \in Children(c) :
         DoneTask("assemble_contrib_block", d) /\ ~ DoneTask("fini_node", c)
         => <<"child", d>> \in contrib[c]

(* From the second pass on, only the contributions of the children come in. *)
LEMMA ContribGrows ==
  ASSUME FlowInv, DataTypeOK, SentInOrder, [Next]_vars, NEW c \in Front \ Subtree,
         DoneTask("factor_front_indef_failed", c), ~ DoneTask("fini_node", c)'
  PROVE  /\ nelim'[c] = nelim[c] /\ rsa(c)' = rsa(c)
         /\ \/ contrib'[c] = contrib[c]
            \/ \E d \in Front : contrib'[c] = contrib[c] \cup {<<"child", d>>}
<1>1. status[<<"factor_front_indef_failed", c>>] = "done"
  BY DEF DoneTask
<1>2. ~ factor_front_indef_failed(c)
  BY <1>1 DEF factor_front_indef_failed, Finish
<1>3. DoneTask("activate_init_node", c)
  BY <1>1, FactorSubmitted DEF FactorKinds
<1>4. ~ activate_init_node(c)
  BY <1>3 DEF activate_init_node, Finish, DoneTask
<1>5. ~ factor_front_indef_app(c)
  <2> SUFFICES ASSUME factor_front_indef_app(c) PROVE FALSE
    OBVIOUS
  <2>1. status[<<"factor_front_indef_app", c>>] = "running"
    BY DEF factor_front_indef_app, Finish
  <2>2. <<"factor_front_indef_app", c>> \in factor_front_indef(c)
    BY <2>1, FactorSubmitted DEF FactorKinds
  <2>3. PivotMethod = "app_block"
    BY <2>2 DEF factor_front_indef
  <2> QED
    BY <1>1, <2>1, <2>3, FirstBeforeSecond DEF StartedTask, Started, DoneTask
<1>6. ~ update_contrib_block_app(c)
  <2> SUFFICES ASSUME update_contrib_block_app(c) PROVE FALSE
    OBVIOUS
  <2>1. status[<<"update_contrib_block_app", c>>] = "running"
    BY DEF update_contrib_block_app, Finish
  <2>2. PivotMethod = "app_block" /\ HasContrib(c)
    BY <2>1, FirstBeforeContrib DEF StartedTask, Started
  <2> QED
    BY <1>1, <2>1, <2>2, FirstBeforeSecond DEF StartedTask, Started, DoneTask
<1>7. ~ fini_node(c)
  BY DEF fini_node, Finish, DoneTask, FlowInv, FlowTypeOK
<1>8. ~ factor_subtree(c)
  BY TaskShape DEF factor_subtree, Finish
<1>9. ASSUME NEW d \in Front, Parent[d] = c, assemble_contrib_block(d)
      PROVE  contrib'[c] = contrib[c] \cup {<<"child", d>>}
  BY <1>9 DEF assemble_contrib_block, DataTypeOK
<1>10. nelim'[c] = nelim[c]
  BY <1>1, <1>2, <1>5, NelimKept DEF FactorKinds
<1>11. rsa(c)' = rsa(c)
  <2>1. ndelay_in'[c] = ndelay_in[c]
    BY <1>3, Frame, IsDomains DEF FrameOf, RunningTask, DoneTask
  <2> QED
    BY <2>1 DEF rsa, ncol
<1> QED
  BY <1>2, <1>4, <1>6, <1>7, <1>8, <1>9, <1>10, <1>11, Frame, IsDomains DEF FrameOf

LEMMA ContributedStep ==
  ASSUME FlowInv, FlowInv', DataTypeOK, DataTypeOK', Eliminated, SentInOrder, Contributed, [Next]_vars
  PROVE  Contributed'
<1>0. FlowTypeOK
  BY DEF FlowInv
<1>1. ASSUME NEW c \in Subtree, <<"stale", c>> \notin contrib[c], <<"zero", c>> \notin contrib[c]
      PROVE  <<"stale", c>> \notin contrib'[c] /\ <<"zero", c>> \notin contrib'[c]
  <2>1. c \in Front /\ \A d \in Front : Parent[d] # c
    BY TreeFacts
  <2>2. ~ (activate_init_node(c) \/ update_contrib_block_app(c)
             \/ factor_front_indef_failed(c) \/ fini_node(c))
    BY TaskShape DEF activate_init_node, update_contrib_block_app, factor_front_indef_failed,
                     fini_node, Finish, OuterKinds, FactorKinds
  <2>3. CASE factor_subtree(c)
    <3>1. contrib'[c] = {<<"first", c>>}
      BY <2>1, <2>3 DEF factor_subtree, DataTypeOK
    <3> QED
      BY <3>1
  <2>4. CASE contrib'[c] = contrib[c]
    BY <1>1, <2>4
  <2> QED
    BY <2>1, <2>2, <2>3, <2>4, Frame, IsDomains DEF FrameOf
<1>2. ASSUME NEW c \in Front \ Subtree, HasContrib(c),
             DoneTask("update_contrib_block_app", c)',
             ~ DoneTask("factor_front_indef_failed", c)', nelim'[c] # 0
      PROVE  contrib'[c] = {<<"first", c>>}
  <2>1. /\ <<"update_contrib_block_app", c>> \in Task
        /\ <<"factor_front_indef_failed", c>> \in Task
    BY TaskOf DEF FactorKinds
  <2>2. ~ DoneTask("factor_front_indef_failed", c) /\ ~ factor_front_indef_failed(c)
    <3>1. ~ DoneTask("factor_front_indef_failed", c)
      BY <1>2, <2>1, DoneStays DEF DoneTask
    <3>2. ~ factor_front_indef_failed(c)
      BY <1>2, <1>0 DEF factor_front_indef_failed, Finish, DoneTask, FlowTypeOK
    <3> QED
      BY <3>1, <3>2
  <2>3. nelim'[c] \in Nat
    BY DEF DataTypeOK
  <2>4. CASE ~ DoneTask("update_contrib_block_app", c)
    <3>1. update_contrib_block_app(c)
      BY <1>0, <1>2, <2>1, <2>4, Finishes DEF ComputeOf, ComputeKinds, InnerKinds, FactorKinds
    <3>2. nelim'[c] = nelim[c]
      BY <3>1 DEF update_contrib_block_app
    <3> QED
      BY <1>2, <2>3, <3>1, <3>2 DEF update_contrib_block_app, DataTypeOK
  <2>5. CASE DoneTask("update_contrib_block_app", c)
    <3>0. status[<<"update_contrib_block_app", c>>] = "done"
      BY <2>5 DEF DoneTask
    <3>1. DoneTask("factor_front_indef_app", c)
      BY <3>0, FirstBeforeContrib DEF StartedTask, Started
    <3>2. ~ factor_front_indef_app(c)
      BY <3>1 DEF factor_front_indef_app, Finish, DoneTask
    <3>3. nelim'[c] = nelim[c]
      BY <2>2, <3>0, <3>2, NelimKept DEF FactorKinds
    <3>4. contrib[c] = {<<"first", c>>}
      BY <1>2, <2>2, <2>5, <3>3 DEF Contributed
    <3>5. DoneTask("activate_init_node", c)
      BY <3>0, FactorSubmitted DEF FactorKinds
    <3>6. ~ activate_init_node(c) /\ ~ update_contrib_block_app(c)
      BY <3>0, <3>5 DEF activate_init_node, update_contrib_block_app, Finish, DoneTask
    <3>7. ~ fini_node(c)
      BY <2>2, FreedAfter DEF fini_node, Finish, StartedTask, Started, FrontDone
    <3>8. ~ factor_subtree(c)
      BY TaskShape DEF factor_subtree, Finish
    <3>9. ASSUME NEW d \in Front, Parent[d] = c PROVE ~ assemble_contrib_block(d)
      BY <2>2, <3>9, FactorizedBeforePassed DEF assemble_contrib_block, Finish, StartedTask, Started
    <3> QED
      BY <2>2, <3>4, <3>6, <3>7, <3>8, <3>9, Frame, IsDomains DEF FrameOf
  <2> QED
    BY <2>4, <2>5
<1>3. ASSUME NEW c \in Front \ Subtree, HasContrib(c),
             DoneTask("factor_front_indef_failed", c)', ~ DoneTask("fini_node", c)'
      PROVE  Complete(c)'
  <2>1. /\ <<"fini_node", c>> \in Task
        /\ <<"factor_front_indef_failed", c>> \in Task
    BY TaskOf DEF FactorKinds
  <2>2. CASE DoneTask("factor_front_indef_failed", c)
    <3>1. ~ DoneTask("fini_node", c)
      BY <1>3, <2>1, DoneStays DEF DoneTask
    <3>2. Complete(c)
      BY <1>3, <2>2, <3>1 DEF Contributed
    <3> QED
      BY <1>3, <2>2, <3>2, ContribGrows DEF Complete, PassesStale
  <2>3. CASE ~ DoneTask("factor_front_indef_failed", c)
    <3>1. factor_front_indef_failed(c)
      BY <1>0, <1>3, <2>1, <2>3, Finishes DEF ComputeOf, ComputeKinds, InnerKinds, FactorKinds
    <3>2. StartedTask("factor_front_indef_failed", c)
      BY <3>1 DEF factor_front_indef_failed, Finish, StartedTask, Started
    <3>3. nelim[c] # 0 => contrib[c] = {<<"first", c>>}
      <4> SUFFICES ASSUME nelim[c] # 0 PROVE contrib[c] = {<<"first", c>>}
        OBVIOUS
      <4>1. DoneTask("factor_front_indef_app", c)
        BY <2>3 DEF Eliminated
      <4>2. <<"factor_front_indef_app", c>> \in factor_front_indef(c)
        BY <4>1, FactorSubmitted DEF DoneTask, FactorKinds
      <4>3. PivotMethod = "app_block"
        BY <4>2 DEF factor_front_indef
      <4>4. DoneTask("update_contrib_block_app", c)
        BY <1>3, <3>2, <4>3, FirstBeforeSecond
      <4> QED
        BY <1>3, <2>3, <4>4 DEF Contributed
    <3>4. PICK n \in SecondPass(c, ncol(c) - nelim[c]) :
            /\ nelim' = [nelim EXCEPT ![c] = @ + n]
            /\ contrib' =
                 IF nelim'[c] = 0 THEN zero_contrib_blocks(c)
                 ELSE IF n = 0 THEN contrib
                 ELSE [contrib EXCEPT ![c] = {<<"second", c>>}
                                               \cup (IF nelim[c] = 0 THEN {} ELSE @)]
      BY <1>3, <3>1 DEF factor_front_indef_failed
    <3>5. nelim'[c] = nelim[c] + n /\ nelim[c] \in Nat /\ n \in Nat
      <4> DEFINE rest == ncol(c) - nelim[c]
      <4>1. nelim'[c] = nelim[c] + n /\ nelim[c] \in Nat
        BY <3>4 DEF DataTypeOK
      <4>2. rest \in Nat
        BY <4>1, NcolNat DEF Eliminated
      <4>3. n \in SecondPass(c, rest)
        BY <3>4
      <4> HIDE DEF rest
      <4>4. n \in Nat
        BY <4>2, <4>3 DEF SecondPass
      <4> QED
        BY <4>1, <4>4
    <3>6. DOMAIN contrib = Front
      BY DEF DataTypeOK
    <3>7. rsa(c)' = rsa(c)
      BY <3>1 DEF factor_front_indef_failed, rsa, ncol
    <3>8. CASE nelim'[c] = 0
      <4>1. nelim[c] = 0
        BY <3>5, <3>8
      <4>2. DoneTask("activate_init_node", c)
        BY <3>2, FactorSubmitted DEF StartedTask, Started, FactorKinds
      <4>3. contrib[c] = {<<"stale", c>>}
        BY <1>3, <2>3, <4>1, <4>2 DEF Contributed
      <4>4. contrib'[c] = IF rsa(c) = 0 THEN {<<"zero", c>>} ELSE {<<"stale", c>>}
        BY <3>4, <3>6, <3>8, <4>3 DEF zero_contrib_blocks
      <4> QED
        BY <3>8, <3>7, <4>4 DEF Complete, PassesStale
    <3>9. CASE nelim'[c] # 0 /\ n = 0
      <4>1. contrib'[c] = {<<"first", c>>}
        BY <3>3, <3>4, <3>5, <3>9
      <4> QED
        BY <3>9, <4>1 DEF Complete, PassesStale
    <3>10. CASE nelim'[c] # 0 /\ n # 0
      <4>1. contrib'[c] \subseteq {<<"second", c>>, <<"first", c>>}
        BY <3>3, <3>4, <3>6, <3>10
      <4> QED
        BY <3>10, <4>1 DEF Complete, PassesStale
    <3> QED
      BY <3>8, <3>9, <3>10
  <2> QED
    BY <2>2, <2>3
<1>4. ASSUME NEW c \in Front, NEW d \in Children(c),
             DoneTask("assemble_contrib_block", d)', ~ DoneTask("fini_node", c)'
      PROVE  <<"child", d>> \in contrib'[c]
  <2>1. d \in Front /\ Parent[d] = c /\ c \in Front \ Subtree
    BY <1>4, ChildOf, TreeFacts DEF Front
  <2>2. /\ <<"assemble_contrib_block", d>> \in Task
        /\ <<"fini_node", c>> \in Task
    BY <2>1, TaskOf DEF ChildKinds
  <2>3. CASE DoneTask("assemble_contrib_block", d)
    <3>1. ~ DoneTask("fini_node", c)
      BY <1>4, <2>2, DoneStays DEF DoneTask
    <3>2. <<"child", d>> \in contrib[c]
      BY <1>4, <2>3, <3>1 DEF Contributed
    <3>3. DoneTask("factor_front_indef_failed", c)
      BY <2>1, <2>3, FactorizedBeforePassed DEF StartedTask, Started, DoneTask
    <3> QED
      BY <1>4, <2>1, <3>2, <3>3, ContribGrows
  <2>4. CASE ~ DoneTask("assemble_contrib_block", d)
    <3>1. assemble_contrib_block(d)
      BY <1>0, <1>4, <2>2, <2>4, Finishes DEF ComputeOf, ComputeKinds, InnerKinds, ChildKinds
    <3> QED
      BY <2>1, <3>1 DEF assemble_contrib_block, DataTypeOK
  <2> QED
    BY <2>3, <2>4
<1>5. ASSUME NEW c \in Front \ Subtree, HasContrib(c),
             DoneTask("activate_init_node", c)',
             ~ DoneTask("factor_front_indef_failed", c)', nelim'[c] = 0
      PROVE  contrib'[c] = {<<"stale", c>>}
  <2>1. /\ <<"activate_init_node", c>> \in Task
        /\ <<"factor_front_indef_failed", c>> \in Task
    BY TaskOf DEF FactorKinds, OuterKinds
  <2>2. ~ DoneTask("factor_front_indef_failed", c) /\ ~ factor_front_indef_failed(c)
    <3>1. ~ DoneTask("factor_front_indef_failed", c)
      BY <1>5, <2>1, DoneStays DEF DoneTask
    <3>2. ~ factor_front_indef_failed(c)
      BY <1>5, <1>0 DEF factor_front_indef_failed, Finish, DoneTask, FlowTypeOK
    <3> QED
      BY <3>1, <3>2
  <2>3. CASE ~ DoneTask("activate_init_node", c)
    <3>1. activate_init_node(c)
      BY <1>0, <1>5, <2>1, <2>3, Finishes DEF ComputeOf, ComputeKinds
    <3> QED
      BY <3>1 DEF activate_init_node, DataTypeOK
  <2>4. CASE DoneTask("activate_init_node", c)
    <3>1. nelim[c] = 0
      <4> SUFFICES ASSUME nelim[c] # 0 PROVE FALSE
        OBVIOUS
      <4>1. DoneTask("factor_front_indef_app", c)
        BY <2>2 DEF Eliminated
      <4>2. ~ factor_front_indef_app(c)
        BY <4>1 DEF factor_front_indef_app, Finish, DoneTask
      <4>3. status[<<"factor_front_indef_app", c>>] # "unsubmitted"
        BY <4>1 DEF DoneTask
      <4>4. nelim'[c] = nelim[c]
        BY <2>2, <4>2, <4>3, NelimKept DEF FactorKinds
      <4> QED
        BY <1>5, <4>4
    <3>2. contrib[c] = {<<"stale", c>>}
      BY <1>5, <2>2, <2>4, <3>1 DEF Contributed
    <3>3. ~ activate_init_node(c)
      BY <2>4 DEF activate_init_node, Finish, DoneTask
    <3>4. update_contrib_block_app(c) => contrib'[c] = contrib[c]
      BY <3>1 DEF update_contrib_block_app
    <3>5. ~ fini_node(c)
      BY <2>2, FreedAfter DEF fini_node, Finish, StartedTask, Started, FrontDone
    <3>6. ~ factor_subtree(c)
      BY TaskShape DEF factor_subtree, Finish
    <3>7. ASSUME NEW d \in Front, Parent[d] = c PROVE ~ assemble_contrib_block(d)
      BY <2>2, <3>7, FactorizedBeforePassed DEF assemble_contrib_block, Finish, StartedTask, Started
    <3> QED
      BY <2>2, <3>2, <3>3, <3>4, <3>5, <3>6, <3>7, Frame, IsDomains DEF FrameOf
  <2> QED
    BY <2>3, <2>4
<1> QED
  BY <1>1, <1>2, <1>3, <1>4, <1>5 DEF Contributed

LEMMA InitContributed == Init => SentInOrder /\ Contributed
<1> SUFFICES ASSUME Init PROVE SentInOrder /\ Contributed
  OBVIOUS
<1>1. SentInOrder
  BY DEF Init, SentInOrder
<1>2. \A f \in Front : contrib[f] = {} /\ nelim[f] = 0
  BY DEF Init
<1>3. \A t \in Task : status[t] # "done"
  BY DEF Init
<1>4. ASSUME NEW c \in Front, NEW d \in Children(c) PROVE ~ DoneTask("assemble_contrib_block", d)
  <2>1. d \in Front
    BY ChildOf, TreeFacts DEF Front
  <2> QED
    BY <2>1, <1>3, TaskOf DEF ChildKinds, DoneTask
<1>5. ASSUME NEW c \in Front \ Subtree PROVE ~ DoneTask("factor_front_indef_failed", c)
  BY <1>3, TaskOf DEF FactorKinds, DoneTask
<1>6. Contributed
  <2>1. ASSUME NEW c \in Front \ Subtree PROVE ~ DoneTask("activate_init_node", c)
    BY <1>3, TaskOf DEF OuterKinds, DoneTask
  <2> QED
    BY <1>2, <1>4, <1>5, <2>1 DEF Contributed
<1> QED
  BY <1>1, <1>6

(* The assembly kernels read a contribution block only when it holds all    *)
(* that the front and its children put there.  It was overwritten by a pass *)
(* unless nothing was eliminated; then it was cleared if no block column of *)
(* the front is full, and otherwise holds what the allocator left there.    *)
THEOREM TreeContribComplete == Spec => []ContribComplete
<1>1. ASSUME IInv, Contributed PROVE ContribComplete
  <2> SUFFICES ASSUME NEW c \in Front, NEW k \in {"assemble_block", "assemble_contrib_block"},
                      status[<<k, c>>] = "running"
               PROVE  /\ {<<"child", d>> : d \in Children(c)} \subseteq contrib[c]
                      /\ Complete(c)
    BY DEF ContribComplete, Complete
  <2>0. FlowInv
    BY <1>1 DEF IInv
  <2>1. HasContrib(c) /\ \E l \in {"assemble", "assemble_contrib"} : StartedTask(l, Parent[c])
    <3>1. CASE k = "assemble_block"
      BY <2>0, <3>1, ActivatedBeforeChild
    <3>2. CASE k = "assemble_contrib_block"
      BY <2>0, <3>2, FactorizedBeforePassed DEF StartedTask, Started
    <3> QED
      BY <3>1, <3>2
  <2>2. Parent[c] \in Front \ Subtree /\ c \in Children(Parent[c])
    BY <2>1, ParentSubmitters
  <2>3. FrontDone(c)
    BY <2>0, <2>1, <2>2, ChildrenDone, TreeFacts DEF ReaderKinds
  <2>4. ASSUME c \notin Subtree PROVE ~ DoneTask("fini_node", c)
    <3>1. CASE k = "assemble_block"
      BY <2>0, <2>1, <2>4, <3>1, UsedBeforeFreed DEF StartedTask, Started, DoneTask
    <3>2. CASE k = "assemble_contrib_block"
      <4>1. HasContrib(Parent[c])
        BY <2>0, <3>2, FactorizedBeforePassed DEF StartedTask, Started
      <4> QED
        BY <2>0, <2>1, <2>4, <3>2, <4>1, UsedBeforeFreed DEF StartedTask, Started, DoneTask
    <3> QED
      BY <3>1, <3>2
  <2>5. ASSUME NEW d \in Children(c) PROVE <<"child", d>> \in contrib[c]
    <3>1. DoneTask("assemble_contrib_block", d)
      BY <2>0, CompleteBeforeUse DEF StartedTask, Started
    <3>2. c \notin Subtree
      BY ChildOf, TreeFacts DEF Front
    <3> QED
      BY <1>1, <2>4, <3>1, <3>2 DEF Contributed
  <2>6. CASE c \in Subtree
    BY <1>1, <2>5, <2>6 DEF Contributed, Complete, PassesStale
  <2>7. CASE c \notin Subtree
    <3>1. DoneTask("factor_front_indef_failed", c)
      BY <2>3, <2>7 DEF FrontDone
    <3>2. Complete(c)
      BY <1>1, <2>1, <2>4, <2>7, <3>1 DEF Contributed
    <3> QED
      BY <2>5, <3>2
  <2> QED
    BY <2>6, <2>7
<1>2. IInv /\ IInv' /\ SentInOrder /\ Contributed /\ [Next]_vars => SentInOrder' /\ Contributed'
  BY SentInOrderStep, ContributedStep DEF IInv, FlowInv, DataInv
<1> QED
  BY InitIInv, InitContributed, StepIInv, <1>1, <1>2, PTL DEF Spec

-----------------------------------------------------------------------------
(* The places of the delayed columns.                                       *)

LEMMA SumBetween ==
  ASSUME NEW d \in [Front -> Nat], NEW a \in 0..NFront, NEW b \in 0..NFront, a <= b
  PROVE  /\ SumUpTo(d)[a] <= SumUpTo(d)[b]
         /\ (\A n \in Front : a < n /\ n <= b => d[n] = 0) => SumUpTo(d)[a] = SumUpTo(d)[b]
<1> DEFINE S == SumUpTo(d)
           None == \A n \in Front : a < n /\ n <= b => d[n] = 0
           Bad == {n \in a..b : ~ (S[a] <= S[n] /\ (None => S[a] = S[n]))}
<1>0. NFront \in Nat /\ Front = 1..NFront /\ a \in Nat /\ b \in Nat
  BY TreeFacts DEF Front
<1>1. /\ \A n \in Front : S[n] = S[n - 1] + d[n]
      /\ \A n \in 0..NFront : S[n] \in Nat
  BY SumIs, SumNat
<1> HIDE DEF S
<1>2. Bad = {}
  <2> SUFFICES ASSUME Bad # {} PROVE FALSE
    OBVIOUS
  <2>1. Bad \in SUBSET Nat
    BY <1>0
  <2>2. PICK x \in Bad : \A y \in Bad : x <= y
    BY <2>1, Smallest
  <2>3. x # a
    <3>1. S[a] \in Nat
      BY <1>1
    <3> QED
      BY <2>2, <3>1
  <2>4. x \in Front /\ x - 1 \in a..b /\ x - 1 \notin Bad /\ x - 1 \in 0..NFront /\ a < x /\ x <= b
    BY <1>0, <2>2, <2>3
  <2>5. S[a] <= S[x - 1] /\ (None => S[a] = S[x - 1])
    BY <2>4
  <2>6. S[x] = S[x - 1] + d[x] /\ S[x - 1] \in Nat /\ d[x] \in Nat /\ S[a] \in Nat
    BY <1>1, <2>4
  <2>7. None => d[x] = 0
    BY <2>4
  <2>8. S[a] <= S[x] /\ (None => S[a] = S[x])
    BY <2>5, <2>6, <2>7
  <2> QED
    BY <2>2, <2>8
<1>3. b \in a..b
  BY <1>0
<1> QED
  BY <1>2, <1>3 DEF S

(* The columns of a child come behind those of the children after it.       *)
PlaceOf(c) ==
  LET sum == SumUpTo(ByChildren(ndelay_out, Parent[c]))
  IN NCol[Parent[c]] + (sum[NFront] - sum[c])

Placed == \A c \in Front : Sent("assemble_delays", "assemble", c) => delay_col[c] = PlaceOf(c)

LEMMA PlaceFacts ==
  ASSUME DataTypeOK, NEW c \in Front, Parent[c] \in Front,
         NEW sum, sum = SumUpTo(ByChildren(ndelay_out, Parent[c]))
  PROVE  /\ NCol[Parent[c]] \in Nat
         /\ \A n \in 0..NFront : sum[n] \in Nat
         /\ sum[c] = sum[c - 1] + ndelay_out[c]
         /\ c \in 1..NFront /\ c - 1 \in 0..NFront /\ NFront \in 0..NFront
         /\ \A a, b \in 0..NFront : a <= b =>
              /\ sum[a] <= sum[b]
              /\ (\A n \in Front : a < n /\ n <= b => Parent[n] # Parent[c]) => sum[a] = sum[b]
<1> DEFINE d == ByChildren(ndelay_out, Parent[c])
<1>0. NFront \in Nat /\ Front = 1..NFront
  BY TreeFacts DEF Front
<1>1. d \in [Front -> Nat]
  BY DelayedToIs DEF DataTypeOK
<1>2. d[c] = ndelay_out[c] /\ \A n \in Front : Parent[n] # Parent[c] => d[n] = 0
  BY DEF ByChildren
<1> HIDE DEF d
<1>3. \A n \in 0..NFront : sum[n] \in Nat
  BY <1>1, SumNat DEF d
<1>4. sum[c] = sum[c - 1] + ndelay_out[c]
  <2>1. sum[c] = sum[c - 1] + d[c]
    BY <1>1, SumIs DEF d
  <2> QED
    BY <1>2, <2>1
<1>5. NCol[Parent[c]] \in Nat
  BY NcolNat
<1>6. ASSUME NEW a \in 0..NFront, NEW b \in 0..NFront, a <= b
      PROVE  /\ sum[a] <= sum[b]
             /\ (\A n \in Front : a < n /\ n <= b => Parent[n] # Parent[c]) => sum[a] = sum[b]
  <2>1. /\ SumUpTo(d)[a] <= SumUpTo(d)[b]
        /\ (\A n \in Front : a < n /\ n <= b => d[n] = 0) => SumUpTo(d)[a] = SumUpTo(d)[b]
    BY <1>1, <1>6, SumBetween
  <2>2. sum = SumUpTo(d)
    BY DEF d
  <2> QED
    BY <1>2, <2>1, <2>2
<1> QED
  BY <1>0, <1>3, <1>4, <1>5, <1>6

(* A child is placed where the one before it ends.                          *)
LEMMA PlacedBehind ==
  ASSUME DataTypeOK, SentInOrder, Placed, NEW c \in Front,
         Submit(<<"assemble", Parent[c]>>, <<"assemble_delays", c>>),
         HasContrib(c)
  PROVE  delay_col'[c] = PlaceOf(c)
<1> DEFINE p == Parent[c]
           s == <<"assemble", p>>
           before == {d \in Children(p) : d > c}
           sum == SumUpTo(ByChildren(ndelay_out, p))
<1>0. /\ p \in Front \ Subtree /\ p \in 1..Root /\ s \in Submitter /\ Code[s] = assemble(p)
      /\ Children(p) = {d \in Front : Parent[d] = p}
  BY ParentSubmitters, TreeFacts
<1>1. delay_col'[c] = delay_col_of(c)
  BY DEF Submit, DataTypeOK
<1>2. NFront \in Nat /\ Front = 1..NFront
  BY TreeFacts DEF Front
<1>3. /\ NCol[p] \in Nat
      /\ \A n \in 0..NFront : sum[n] \in Nat
      /\ \A a, b \in 0..NFront : a <= b =>
           ((\A n \in Front : a < n /\ n <= b => Parent[n] # p) => sum[a] = sum[b])
  BY <1>0, PlaceFacts
<1>4. CASE before = {}
  <2>1. \A n \in Front : c < n /\ n <= NFront => Parent[n] # p
    BY <1>0, <1>2, <1>4
  <2>2. sum[c] = sum[NFront]
    BY <1>2, <1>3, <2>1
  <2>3. sum[NFront] \in Nat
    BY <1>2, <1>3
  <2>4. delay_col_of(c) = NCol[p]
    BY <1>4 DEF delay_col_of
  <2>5. PlaceOf(c) = NCol[p] + (sum[NFront] - sum[c])
    BY DEF PlaceOf
  <2> HIDE DEF sum
  <2> QED
    BY <1>1, <1>3, <2>2, <2>3, <2>4, <2>5
<1>5. CASE before # {}
  <2>1. before \subseteq Front /\ before \in SUBSET Nat
    BY <1>0, <1>2
  <2>2. PICK x \in before : \A y \in before : x <= y
    BY <1>5, <2>1, Smallest
  <2> DEFINE d == CHOOSE e \in before : \A y \in before : e <= y
  <2>3. d \in before /\ \A y \in before : d <= y
    BY <2>2
  <2>4. delay_col_of(c) = delay_col[d] + ndelay_out[d]
    BY <1>5 DEF delay_col_of
  <2> HIDE DEF d
  <2>5. d \in Front /\ Parent[d] = p /\ d > c
    BY <1>0, <2>3
  <2>6. <<"assemble_delays", d>> \in sent[s]
    <3>1. <<"assemble_delays", d>> \in Code[s]
      BY <1>0, <2>3 DEF assemble
    <3>2. Earlier(<<"assemble_delays", d>>, <<"assemble_delays", c>>)
      BY <2>5 DEF Earlier
    <3> QED
      BY <3>1, <3>2 DEF Submit
  <2>7. delay_col[d] = NCol[p] + (sum[NFront] - sum[d])
    <3>1. Sent("assemble_delays", "assemble", d)
      BY <1>0, <2>5, <2>6 DEF Sent
    <3> QED
      BY <2>5, <3>1 DEF Placed, PlaceOf
  <2>8. sum[d] = sum[d - 1] + ndelay_out[d] /\ d - 1 \in 0..NFront
    BY <1>0, <2>5, PlaceFacts
  <2>9. sum[c] = sum[d - 1]
    <3>1. ASSUME NEW n \in Front, c < n, n <= d - 1, Parent[n] = p PROVE FALSE
      <4>1. n \in before
        BY <1>0, <3>1
      <4>2. d <= n
        BY <2>3, <4>1
      <4> QED
        BY <1>2, <2>5, <3>1, <4>2
    <3>2. c <= d - 1 /\ c \in 0..NFront
      BY <1>2, <2>5
    <3> QED
      BY <1>3, <2>8, <3>1, <3>2
  <2>10. sum[NFront] \in Nat /\ sum[d - 1] \in Nat /\ ndelay_out[d] \in Nat
    BY <1>2, <1>3, <2>5, <2>8 DEF DataTypeOK
  <2>11. PlaceOf(c) = NCol[p] + (sum[NFront] - sum[c])
    BY DEF PlaceOf
  <2> HIDE DEF sum
  <2> QED
    BY <1>1, <1>3, <2>4, <2>7, <2>8, <2>9, <2>10, <2>11
<1> QED
  BY <1>4, <1>5

LEMMA PlacedStep ==
  ASSUME FlowInv, DataTypeOK, SentInOrder, Placed, [Next]_vars
  PROVE  Placed'
<1> SUFFICES ASSUME NEW c \in Front, Sent("assemble_delays", "assemble", c)'
             PROVE  delay_col'[c] = PlaceOf(c)'
  BY DEF Placed
<1> DEFINE p == Parent[c]
           s == <<"assemble", p>>
           op == <<"assemble_delays", c>>
<1>1. s \in Submitter /\ op \in sent'[s]
  BY DEF Sent
<1>2. HasContrib(c) /\ p \in Front \ Subtree
  BY <1>1, ParentSubmitters
<1>3. Started(s)
  <2>1. CASE op \in sent[s]
    BY <1>1, <2>1 DEF FlowInv, SentByStarted
  <2>2. CASE op \notin sent[s]
    BY <1>1, <2>2, Sends DEF FlowInv, Submit, Started
  <2> QED
    BY <2>1, <2>2
<1>4. ASSUME NEW d \in Front, Parent[d] = p PROVE ndelay_out'[d] = ndelay_out[d]
  <2>1. d \in Children(p)
    BY <1>4, ParentSubmitters
  <2>2. FrontDone(d)
    BY <1>2, <1>3, <2>1, ChildrenDone, TreeFacts DEF ReaderKinds, StartedTask
  <2> QED
    BY <2>2, DelaysKept
<1>5. PlaceOf(c)' = PlaceOf(c)
  <2>1. ByChildren(ndelay_out', p) = ByChildren(ndelay_out, p)
    BY <1>4, DelayedToOf
  <2> QED
    BY <2>1 DEF PlaceOf
<1>6. CASE op \in sent[s]
  <2>1. ~ Submit(s, op)
    BY <1>6 DEF Submit
  <2>2. delay_col'[c] = delay_col[c]
    BY <2>1, Frame, IsDomains DEF FrameOf
  <2> QED
    BY <1>1, <1>5, <1>6, <2>2 DEF Placed, Sent
<1>7. CASE op \notin sent[s]
  <2>1. Submit(s, op)
    BY <1>1, <1>7, Sends DEF FlowInv
  <2> QED
    BY <1>2, <1>5, <2>1, PlacedBehind
<1> QED
  BY <1>6, <1>7

LEMMA PlacedApart ==
  ASSUME IInv, Placed
  PROVE  DelaysPlacedApart
<1>0. FlowInv /\ DataTypeOK /\ Sized
  BY DEF IInv, DataInv
<1>1. ASSUME NEW c \in Front, status[<<"assemble_delays", c>>] # "unsubmitted",
             NEW sum, sum = SumUpTo(ByChildren(ndelay_out, Parent[c]))
      PROVE  /\ Parent[c] \in Front /\ ncol(Parent[c]) = NCol[Parent[c]] + sum[NFront]
             /\ delay_col[c] = NCol[Parent[c]] + (sum[NFront] - sum[c])
  <2>1. /\ Parent[c] \in Front \ Subtree /\ DoneTask("activate_init_node", Parent[c])
        /\ Sent("assemble_delays", "assemble", c)
    BY <1>0, <1>1, ActivatedBeforeChild
  <2>2. ndelay_in[Parent[c]] = DelayedTo(ndelay_out, Parent[c])
    BY <1>0, <2>1 DEF Sized
  <2>3. delay_col[c] = PlaceOf(c)
    BY <2>1 DEF Placed
  <2> QED
    BY <1>1, <2>1, <2>2, <2>3 DEF PlaceOf, DelayedTo, ncol
<1>2. ASSUME NEW c \in Front, status[<<"assemble_delays", c>>] # "unsubmitted",
             NEW d \in Front, Parent[d] = Parent[c],
             status[<<"assemble_delays", d>>] # "unsubmitted", d < c
      PROVE  delay_col[c] + ndelay_out[c] <= delay_col[d]
  <2>1. PICK sum : sum = SumUpTo(ByChildren(ndelay_out, Parent[c]))
    OBVIOUS
  <2>2. /\ Parent[c] \in Front
        /\ delay_col[c] = NCol[Parent[c]] + (sum[NFront] - sum[c])
        /\ delay_col[d] = NCol[Parent[c]] + (sum[NFront] - sum[d])
    BY <1>1, <1>2, <2>1
  <2>3. /\ NCol[Parent[c]] \in Nat /\ sum[NFront] \in Nat /\ sum[c] \in Nat /\ sum[c - 1] \in Nat
        /\ sum[c] = sum[c - 1] + ndelay_out[c]
        /\ c - 1 \in 0..NFront /\ c \in 1..NFront
        /\ \A a, b \in 0..NFront : a <= b => sum[a] <= sum[b]
    <3>1. /\ NCol[Parent[c]] \in Nat
          /\ \A n \in 0..NFront : sum[n] \in Nat
          /\ sum[c] = sum[c - 1] + ndelay_out[c]
          /\ c \in 1..NFront /\ c - 1 \in 0..NFront /\ NFront \in 0..NFront
          /\ \A a, b \in 0..NFront : a <= b => sum[a] <= sum[b]
      BY <1>0, <2>1, <2>2, PlaceFacts
    <3> QED
      BY <3>1
  <2>4. d \in 0..NFront /\ d <= c - 1
    BY <1>2, <2>3, TreeFacts DEF Front
  <2>5. sum[d] <= sum[c - 1] /\ ndelay_out[c] \in Nat /\ sum[d] \in Nat
    <3>1. sum[d] \in Nat
      BY <1>0, <2>1, <2>2, <2>4, PlaceFacts
    <3> QED
      BY <1>0, <2>3, <2>4, <3>1 DEF DataTypeOK
  <2> QED
    BY <2>2, <2>3, <2>5
<1>3. ASSUME NEW c \in Front, status[<<"assemble_delays", c>>] # "unsubmitted"
      PROVE  /\ delay_col[c] >= NCol[Parent[c]]
             /\ delay_col[c] + ndelay_out[c] <= ncol(Parent[c])
  <2>1. PICK sum : sum = SumUpTo(ByChildren(ndelay_out, Parent[c]))
    OBVIOUS
  <2>2. /\ Parent[c] \in Front
        /\ ncol(Parent[c]) = NCol[Parent[c]] + sum[NFront]
        /\ delay_col[c] = NCol[Parent[c]] + (sum[NFront] - sum[c])
    BY <1>1, <1>3, <2>1
  <2>3. /\ NCol[Parent[c]] \in Nat
        /\ \A n \in 0..NFront : sum[n] \in Nat
        /\ sum[c] = sum[c - 1] + ndelay_out[c]
        /\ c \in 1..NFront /\ c - 1 \in 0..NFront /\ NFront \in 0..NFront
        /\ \A a, b \in 0..NFront : a <= b => sum[a] <= sum[b]
    BY <1>0, <2>1, <2>2, PlaceFacts
  <2>4. /\ sum[c] \in Nat /\ sum[c - 1] \in Nat /\ sum[NFront] \in Nat
        /\ ndelay_out[c] \in Nat /\ sum[c] <= sum[NFront]
    <3>1. c \in 0..NFront /\ c <= NFront
      BY <2>3
    <3> QED
      BY <1>0, <2>3, <3>1 DEF DataTypeOK
  <2> QED
    BY <2>2, <2>3, <2>4
<1>4. ASSUME NEW c \in Front, status[<<"assemble_delays", c>>] # "unsubmitted",
             NEW d \in Children(Parent[c]) \ {c},
             status[<<"assemble_delays", d>>] # "unsubmitted"
      PROVE  \/ delay_col[c] + ndelay_out[c] <= delay_col[d]
             \/ delay_col[d] + ndelay_out[d] <= delay_col[c]
  <2>1. d \in Front /\ Parent[d] = Parent[c]
    BY TreeFacts
  <2>2. d < c \/ c < d
    BY <1>4, <2>1, TreeFacts
  <2> QED
    BY <1>2, <1>4, <2>1, <2>2
<1> QED
  BY <1>3, <1>4 DEF DelaysPlacedApart

LEMMA PlacedKept == IInv /\ SentInOrder /\ Placed /\ [Next]_vars => SentInOrder' /\ Placed'
BY SentInOrderStep, PlacedStep DEF IInv, FlowInv, DataInv

LEMMA InitPlaced == Init => Placed
BY DEF Init, Placed, Sent

(* The columns that assemble gives to the delayed pivots of each child      *)
(* (delay_col) lie behind the front's own, within its size, and apart from  *)
(* those of any other child.                                                *)
THEOREM TreeDelaysPlacedApart == Spec => []DelaysPlacedApart
BY InitIInv, InitContributed, InitPlaced, StepIInv, PlacedKept, PlacedApart, PTL DEF Spec

-----------------------------------------------------------------------------
(* The handles StarPU knows.                                                *)

Registered ==
  /\ \A f \in 1..Root : Hcontrib(f) \in registered
  /\ \A f \in Front :
       H(f) \in registered \/ Sent("unregister_submit_symb", "fini_cnodes", f)
  /\ \A f \in Front \ Subtree :
       DoneTask("activate_init_node", f) /\ ~ DoneTask("fini_node", f)
       => activate_hdls(f) \subseteq registered

(* How a step changes them.                                                 *)
LEMMA RegisteredFrame ==
  ASSUME [Next]_vars
  PROVE  \/ registered' = registered
         \/ \E f \in Front : activate_init_node(f)
         \/ \E f \in Front : fini_node(f)
         \/ \E c \in Front : /\ registered' = registered \ {H(c)}
                             /\ Submit(<<"fini_cnodes", Parent[c]>>, <<"unregister_submit_symb", c>>)
<1>1. ASSUME NEW s \in Submitter, NEW op \in Code[s], Submit(s, op), registered' # registered
      PROVE  \E c \in Front : /\ registered' = registered \ {H(c)}
                              /\ Submit(<<"fini_cnodes", Parent[c]>>, <<"unregister_submit_symb", c>>)
  <2>1. op[1] = "unregister_submit_symb" /\ registered' = registered \ {H(op[2])}
    BY <1>1 DEF Submit
  <2>2. op = <<op[1], op[2]>> /\ op[2] \in Front
    BY CodeOps
  <2>3. s = <<"fini_cnodes", Parent[op[2]]>>
    <3>0. s = <<s[1], s[2]>> /\ s[2] \in 1..Root /\ s[1] \in Submitters
      BY CodeIs, TaskShape
    <3>1. CASE s[1] = "assemble"
      BY <2>1, <3>1, CodeIs DEF assemble
    <3>2. CASE s[1] = "factor_front_indef"
      BY <2>1, <3>2, CodeIs DEF factor_front_indef
    <3>3. CASE s[1] = "assemble_contrib"
      <4>1. op \in {"assemble_contrib_block"} \X Children(s[2])
        BY <3>3, CodeIs DEF assemble_contrib
      <4> QED
        BY <2>1, <4>1
    <3>4. CASE s[1] = "fini_cnodes"
      <4>1. op \in fini_cnodes(s[2])
        BY <3>4, CodeIs
      <4>2. op[2] \in Children(s[2])
        BY <4>1 DEF fini_cnodes
      <4> QED
        BY <3>0, <3>4, <4>2, TreeFacts
    <3> QED
      BY <3>0, <3>1, <3>2, <3>3, <3>4 DEF Submitters
  <2> QED
    BY <1>1, <2>1, <2>2, <2>3
<1>2. ASSUME NEW f \in Front, Compute(f), registered' # registered
      PROVE  activate_init_node(f) \/ fini_node(f)
  BY <1>2 DEF Compute, factor_subtree, factor_front_indef_app, update_contrib_block_app,
              factor_front_indef_failed, assemble_delays, assemble_block, assemble_contrib_block
<1>3. ASSUME NEW t \in Task, Start(t) \/ EndSubmitter(t) PROVE registered' = registered
  BY <1>3 DEF Start, EndSubmitter
<1>4. CASE UNCHANGED vars
  BY <1>4 DEF vars, flowVars
<1>5. CASE Next
  BY <1>1, <1>2, <1>3, <1>4, <1>5 DEF Next, Compute, Terminated
<1> QED
  BY <1>4, <1>5

LEMMA HandlesApart ==
  ASSUME NEW f, NEW g
  PROVE  /\ H(f) \notin activate_hdls(g) /\ Hcontrib(f) \notin activate_hdls(g)
         /\ H(f) # Hcontrib(g)
         /\ f # g => H(f) # H(g) /\ activate_hdls(f) \cap activate_hdls(g) = {}
BY DEF activate_hdls, H, Hcontrib, Hblk, Hcol, Htile

LEMMA RegisteredStep ==
  ASSUME FlowInv, Registered, [Next]_vars
  PROVE  Registered'
<1>0. FlowTypeOK
  BY DEF FlowInv
<1>1. ASSUME NEW f \in 1..Root PROVE Hcontrib(f) \in registered'
  <2>1. Hcontrib(f) \in registered
    BY DEF Registered
  <2> QED
    BY <2>1, RegisteredFrame, HandlesApart DEF activate_init_node, fini_node
<1>2. ASSUME NEW f \in Front, ~ Sent("unregister_submit_symb", "fini_cnodes", f)'
      PROVE  H(f) \in registered'
  <2>1. <<"fini_cnodes", Parent[f]>> \in Submitter
    BY ParentSubmitters
  <2>2. ~ Sent("unregister_submit_symb", "fini_cnodes", f)
    BY <1>0, <1>2, <2>1, SentStays DEF Sent
  <2>3. H(f) \in registered
    BY <2>2 DEF Registered
  <2>4. ~ Submit(<<"fini_cnodes", Parent[f]>>, <<"unregister_submit_symb", f>>)
    BY <1>0, <1>2, <2>1 DEF Submit, Sent, FlowTypeOK
  <2> QED
    BY <2>3, <2>4, RegisteredFrame, HandlesApart DEF activate_init_node, fini_node
<1>3. ASSUME NEW f \in Front \ Subtree,
             DoneTask("activate_init_node", f)', ~ DoneTask("fini_node", f)'
      PROVE  activate_hdls(f) \subseteq registered'
  <2>1. <<"activate_init_node", f>> \in Task /\ <<"fini_node", f>> \in Task
    BY TaskOf DEF OuterKinds
  <2>2. CASE ~ DoneTask("activate_init_node", f)
    <3>1. activate_init_node(f)
      BY <1>0, <1>3, <2>1, <2>2, Finishes DEF ComputeOf, ComputeKinds
    <3> QED
      BY <3>1 DEF activate_init_node
  <2>3. CASE DoneTask("activate_init_node", f)
    <3>1. ~ DoneTask("fini_node", f)
      BY <1>3, <2>1, DoneStays DEF DoneTask
    <3>2. activate_hdls(f) \subseteq registered
      BY <2>3, <3>1 DEF Registered
    <3>3. ~ fini_node(f)
      BY <1>0, <1>3 DEF fini_node, Finish, DoneTask, FlowTypeOK
    <3>4. CASE registered' = registered \/ \E g \in Front : activate_init_node(g)
      BY <3>2, <3>4 DEF activate_init_node
    <3>5. CASE \E g \in Front : fini_node(g)
      <4>1. PICK g \in Front : fini_node(g)
        BY <3>5
      <4>2. registered' = registered \ activate_hdls(g) /\ g # f
        BY <3>3, <4>1 DEF fini_node
      <4>3. activate_hdls(f) \cap activate_hdls(g) = {}
        BY <4>2, HandlesApart
      <4> QED
        BY <3>2, <4>2, <4>3
    <3>6. CASE \E c \in Front : registered' = registered \ {H(c)}
      BY <3>2, <3>6, HandlesApart
    <3> QED
      BY <3>4, <3>5, <3>6, RegisteredFrame
  <2> QED
    BY <2>2, <2>3
<1> QED
  BY <1>1, <1>2, <1>3 DEF Registered

(* The handles of the tasks that are submitted by others.                   *)
LEMMA InnerHandles ==
  ASSUME NEW f \in Front
  PROVE  /\ f \notin Subtree =>
              /\ \A k \in FactorKinds : Handles[<<k, f>>] \subseteq activate_hdls(f) \cup {Hcontrib(f)}
              /\ Handles[<<"fini_node", f>>] = {Hblk(f), H(f)}
         /\ \A k \in {"assemble_delays", "assemble_block"} :
              Handles[<<k, f>>] \subseteq {H(f)} \cup activate_hdls(Parent[f])
                                            \cup (IF f \in Subtree THEN {} ELSE activate_hdls(f))
         /\ Handles[<<"assemble_contrib_block", f>>]
              \subseteq {H(f), Hcontrib(Parent[f])} \cup activate_hdls(Parent[f])
                           \cup (IF f \in Subtree THEN {} ELSE activate_hdls(f))
<1> USE DEF activate_hdls
<1>1. ASSUME NEW t \in Task PROVE Handles[t] = TaskAccess(t).r \cup TaskAccess(t).rw \cup TaskAccess(t).c
  BY AccessOf
<1>2. ASSUME f \notin Subtree
      PROVE  /\ Handles[<<"factor_front_indef_app", f>>] \subseteq activate_hdls(f) \cup {Hcontrib(f)}
             /\ Handles[<<"update_contrib_block_app", f>>] \subseteq activate_hdls(f) \cup {Hcontrib(f)}
             /\ Handles[<<"factor_front_indef_failed", f>>] \subseteq activate_hdls(f) \cup {Hcontrib(f)}
             /\ Handles[<<"fini_node", f>>] = {Hblk(f), H(f)}
  <2>1. \A k \in FactorKinds \cup {"fini_node"} : <<k, f>> \in Task
    BY <1>2, TaskOf
  <2>2. <<"factor_front_indef_app", f>> \in Task /\ <<"update_contrib_block_app", f>> \in Task
        /\ <<"factor_front_indef_failed", f>> \in Task /\ <<"fini_node", f>> \in Task
    BY <2>1 DEF FactorKinds
  <2>3. TaskAccess(<<"factor_front_indef_app", f>>) = [r |-> {}, rw |-> {Hblk(f), Hcol(f)}, c |-> {}]
    BY AccessByKind
  <2>4. TaskAccess(<<"update_contrib_block_app", f>>)
          = [r |-> {Hblk(f), Hcol(f), Hcontrib(f)}, rw |-> {}, c |-> {Htile(f)}]
    BY AccessByKind
  <2>5. TaskAccess(<<"factor_front_indef_failed", f>>) = insert_factor_front_indef_failed(f)
    BY AccessByKind
  <2>6. TaskAccess(<<"fini_node", f>>) = [r |-> {}, rw |-> {Hblk(f), H(f)}, c |-> {}]
    BY AccessByKind
  <2>7. Handles[<<"factor_front_indef_app", f>>] = {Hblk(f), Hcol(f)}
    BY <1>1, <2>2, <2>3
  <2>8. Handles[<<"update_contrib_block_app", f>>] = {Hblk(f), Hcol(f), Hcontrib(f), Htile(f)}
    BY <1>1, <2>2, <2>4
  <2>9. Handles[<<"factor_front_indef_failed", f>>] \subseteq {Htile(f), Hcol(f), Hcontrib(f)}
    BY <1>1, <2>2, <2>5 DEF insert_factor_front_indef_failed
  <2>10. Handles[<<"fini_node", f>>] = {Hblk(f), H(f)}
    BY <1>1, <2>2, <2>6
  <2> QED
    BY <2>7, <2>8, <2>9, <2>10
<1>3. <<"assemble_delays", f>> \in Task /\ <<"assemble_block", f>> \in Task
      /\ <<"assemble_contrib_block", f>> \in Task
  BY TaskOf DEF ChildKinds
<1>4. Handles[<<"assemble_delays", f>>] \subseteq {H(f)} \cup activate_hdls(Parent[f])
                                            \cup (IF f \in Subtree THEN {} ELSE activate_hdls(f))
  <2>1. TaskAccess(<<"assemble_delays", f>>) = insert_assemble_delays(f)
    BY AccessByKind
  <2> QED
    BY <1>1, <1>3, <2>1 DEF insert_assemble_delays
<1>5. Handles[<<"assemble_block", f>>] \subseteq {H(f)} \cup activate_hdls(Parent[f])
                                            \cup (IF f \in Subtree THEN {} ELSE activate_hdls(f))
  <2>1. TaskAccess(<<"assemble_block", f>>) = insert_assemble_block(f)
    BY AccessByKind
  <2> QED
    BY <1>1, <1>3, <2>1 DEF insert_assemble_block
<1>6. Handles[<<"assemble_contrib_block", f>>]
        \subseteq {H(f), Hcontrib(Parent[f])} \cup activate_hdls(Parent[f])
                     \cup (IF f \in Subtree THEN {} ELSE activate_hdls(f))
  <2>1. TaskAccess(<<"assemble_contrib_block", f>>) = insert_assemble_contrib_block(f)
    BY AccessByKind
  <2> QED
    BY <1>1, <1>3, <2>1 DEF insert_assemble_contrib_block
<1> HIDE DEF activate_hdls
<1> QED
  BY <1>2, <1>4, <1>5, <1>6 DEF FactorKinds

(* A front is not freed while its own tasks submit others.                  *)
LEMMA AliveFront ==
  ASSUME FlowInv, Registered, NEW f \in Front \ Subtree,
         NEW k \in {"assemble", "factor_front_indef", "assemble_contrib"},
         status[<<k, f>>] = "running"
  PROVE  activate_hdls(f) \subseteq registered
<1>1. DoneTask("activate_init_node", f)
  <2>1. StartedTask(k, f)
    BY DEF StartedTask, Started
  <2>2. MainPlace["activate_init_node"] < MainPlace[k] /\ k \in OuterKinds
    BY DEF MainPlace, OuterKinds
  <2> QED
    BY <2>1, <2>2, EarlierDone DEF OuterKinds
<1>2. ~ DoneTask("fini_node", f)
  BY FreedAfter DEF StartedTask, Started, DoneTask, FrontDone, OuterKinds
<1> QED
  BY <1>1, <1>2 DEF Registered

(* Nor while its parent brings something of it in.                          *)
LEMMA AliveChild ==
  ASSUME FlowInv, Registered, NEW c \in Front, Parent[c] \in Front \ Subtree,
         NEW k \in {"assemble", "assemble_contrib"},
         status[<<k, Parent[c]>>] = "running"
  PROVE  /\ H(c) \in registered
         /\ c \notin Subtree => activate_hdls(c) \subseteq registered
<1>1. ~ StartedTask("fini_cnodes", Parent[c])
  <2>1. MainPlace[k] < MainPlace["fini_cnodes"] /\ k \in OuterKinds
    BY DEF MainPlace, OuterKinds
  <2> QED
    BY <2>1, EarlierDone DEF DoneTask
<1>2. ~ Sent("unregister_submit_symb", "fini_cnodes", c)
  BY <1>1 DEF FlowInv, SentByStarted, Sent, StartedTask
<1>3. ASSUME c \notin Subtree PROVE activate_hdls(c) \subseteq registered
  <2>1. FrontDone(c)
    BY ParentSubmitters, ChildrenDone, TreeFacts DEF ReaderKinds, StartedTask, Started
  <2>2. ~ DoneTask("fini_node", c)
    BY <1>1, <1>3, UsedBeforeFreed DEF StartedTask, Started, DoneTask
  <2> QED
    BY <1>3, <2>1, <2>2 DEF Registered, FrontDone, OuterKinds
<1> QED
  BY <1>2, <1>3 DEF Registered

LEMMA SubmittedRegistered ==
  ASSUME FlowInv, SentInOrder, Registered, NEW s \in Submitter, NEW t \in Code[s],
         SubmitFlow(s, t), t \in Inner
  PROVE  Handles[t] \subseteq registered
<1> DEFINE k == t[1]
           f == t[2]
<1>1. t = <<k, f>> /\ f \in Front /\ s = SubmitterOf(t) /\ t \in Task /\ k \in InnerKinds
  BY CodeOps, TaskShape DEF Inner, OtherOps
<1>2. status[s] = "running" /\ t \notin sent[s] /\ status[t] = "unsubmitted"
  <2>1. status[s] = "running" /\ t \notin sent[s]
    BY DEF SubmitFlow
  <2> QED
    BY <1>1, <2>1 DEF FlowInv, SubmittedSent
<1>3. CASE k \in FactorKinds
  <2>1. f \in Front \ Subtree /\ s = <<"factor_front_indef", f>>
    <3>1. f \in Front \ Subtree
      BY <1>1, <1>3, TaskShape
    <3> QED
      BY <1>1, <1>3, <3>1, FactorOf
  <2>2. activate_hdls(f) \subseteq registered
    BY <1>2, <2>1, AliveFront
  <2>3. Hcontrib(f) \in registered
    BY <1>1, TreeFacts DEF Registered, Front
  <2>4. Handles[<<k, f>>] \subseteq activate_hdls(f) \cup {Hcontrib(f)}
    BY <1>3, <2>1, InnerHandles
  <2> QED
    BY <1>1, <2>2, <2>3, <2>4
<1>4. CASE k \in {"assemble_delays", "assemble_block"}
  <2>1. s = <<"assemble", Parent[f]>>
    BY <1>1, <1>4, AssembleOf
  <2>2. Parent[f] \in Front \ Subtree
    BY <2>1, <1>1, ParentSubmitters
  <2>3. activate_hdls(Parent[f]) \subseteq registered
    BY <1>2, <2>1, <2>2, AliveFront
  <2>4. H(f) \in registered /\ (f \notin Subtree => activate_hdls(f) \subseteq registered)
    BY <1>1, <1>2, <2>1, <2>2, AliveChild
  <2>5. Handles[<<k, f>>] \subseteq {H(f)} \cup activate_hdls(Parent[f])
                                        \cup (IF f \in Subtree THEN {} ELSE activate_hdls(f))
    BY <1>1, <1>4, InnerHandles
  <2> QED
    BY <1>1, <2>3, <2>4, <2>5
<1>5. CASE k = "assemble_contrib_block"
  <2>1. s = <<"assemble_contrib", Parent[f]>>
    BY <1>1, <1>5, AssembleOf
  <2>2. Parent[f] \in Front \ Subtree
    <3>1. <<"assemble_contrib", Parent[f]>> \in Task
      BY <2>1 DEF Submitter
    <3> QED
      BY <3>1, TaskShape DEF OuterKinds
  <2>3. activate_hdls(Parent[f]) \subseteq registered
    BY <1>2, <2>1, <2>2, AliveFront
  <2>4. H(f) \in registered /\ (f \notin Subtree => activate_hdls(f) \subseteq registered)
    BY <1>1, <1>2, <2>1, <2>2, AliveChild
  <2>5. Hcontrib(Parent[f]) \in registered
    BY <1>1, TreeFacts DEF Registered
  <2>6. Handles[<<"assemble_contrib_block", f>>]
          \subseteq {H(f), Hcontrib(Parent[f])} \cup activate_hdls(Parent[f])
                       \cup (IF f \in Subtree THEN {} ELSE activate_hdls(f))
    BY <1>1, InnerHandles
  <2> QED
    BY <1>1, <1>5, <2>3, <2>4, <2>5, <2>6
<1>6. CASE k = "fini_node"
  <2>1. f \in Front \ Subtree
    BY <1>1, <1>6, TaskShape
  <2>2. s = <<"fini_cnodes", Parent[f]>>
    BY <1>1, <1>6, <2>1, AssembleOf
  <2>3. ~ Sent("unregister_submit_symb", "fini_cnodes", f)
    <3>1. Earlier(t, <<"unregister_submit_symb", f>>)
      BY <1>1, <1>6 DEF Earlier, Place
    <3> QED
      BY <1>2, <2>2, <3>1 DEF SentInOrder, Sent
  <2>4. activate_hdls(f) \subseteq registered
    <3>1. FrontDone(f)
      BY <1>2, <2>1, <2>2, ParentSubmitters, ChildrenDone, TreeFacts
         DEF ReaderKinds, StartedTask, Started
    <3>2. ~ DoneTask("fini_node", f)
      BY <1>1, <1>2, <1>6 DEF DoneTask
    <3> QED
      BY <2>1, <3>1, <3>2 DEF Registered, FrontDone, OuterKinds
  <2>5. Handles[<<"fini_node", f>>] = {Hblk(f), H(f)}
    BY <2>1, InnerHandles
  <2>6. H(f) \in registered
    BY <2>1, <2>3 DEF Registered
  <2> QED
    BY <1>1, <1>6, <2>4, <2>5, <2>6 DEF activate_hdls
<1> QED
  BY <1>1, <1>3, <1>4, <1>5, <1>6 DEF InnerKinds, ChildKinds

(* A task is submitted with handles that activate_front has registered and  *)
(* fini_node, or unregister_submit_symb, has not yet given up.              *)
THEOREM TreeHandlesRegistered == Spec => HandlesRegistered
<1>1. Init => Registered
  <2> SUFFICES ASSUME Init PROVE Registered
    OBVIOUS
  <2>1. \A f \in Front \ Subtree : ~ DoneTask("activate_init_node", f)
    BY TaskOf DEF Init, DoneTask, OuterKinds
  <2>2. Front \subseteq 1..Root
    BY TreeFacts DEF Front
  <2> QED
    BY <2>1, <2>2 DEF Init, Registered
<1>2. IInv /\ SentInOrder /\ Registered /\ [Next]_vars => SentInOrder' /\ Registered'
  BY SentInOrderStep, RegisteredStep DEF IInv, FlowInv
<1>3. ASSUME IInv, SentInOrder, Registered, [Next]_vars
      PROVE  \A t \in Task : status[t] = "unsubmitted" /\ status'[t] = "submitted"
                             => Handles[t] \subseteq registered
  <2> SUFFICES ASSUME NEW t \in Task, status[t] = "unsubmitted", status'[t] = "submitted"
               PROVE  Handles[t] \subseteq registered
    OBVIOUS
  <2>0. FlowInv /\ FlowTypeOK
    BY <1>3 DEF IInv, FlowInv
  <2>1. ASSUME NEW u \in Task, StartFlow(u) PROVE FALSE
    BY <2>0, <2>1 DEF StartFlow, FlowTypeOK
  <2>2. ASSUME NEW u \in Task, FinishFlow(u) PROVE FALSE
    BY <2>0, <2>2 DEF FinishFlow, Finish, FlowTypeOK
  <2>3. ASSUME NEW s \in Submitter, NEW op \in Code[s], SubmitFlow(s, op)
        PROVE  Handles[t] \subseteq registered
    <3>1. (op[1] \notin OtherOps /\ SubmitTask(op)) \/ UNCHANGED status
      BY <2>3 DEF SubmitFlow
    <3>2. op = t /\ op[1] \notin OtherOps
      BY <2>0, <3>1 DEF SubmitTask, FlowTypeOK
    <3>3. t \in Inner
      BY <3>2, CodeOps
    <3> QED
      BY <1>3, <2>0, <2>3, <3>2, <3>3, SubmittedRegistered
  <2> QED
    BY <1>3, <2>1, <2>2, <2>3, NextFlow
<1>4. IInv /\ SentInOrder /\ Registered /\ [Next]_vars =>
        [\A t \in Task : status[t] = "unsubmitted" /\ status'[t] = "submitted"
                         => Handles[t] \subseteq registered]_vars
  BY <1>3
<1> QED
  BY InitIInv, InitContributed, StepIInv, <1>1, <1>2, <1>4, PTL DEF Spec, HandlesRegistered

-----------------------------------------------------------------------------
(* The memory that the tasks access, and who runs beside whom.              *)

MakerKinds == {"factor_subtree", "activate_init_node", "factor_front_indef_app",
               "update_contrib_block_app", "factor_front_indef_failed"}
OwnKinds == MakerKinds \cup {"assemble", "factor_front_indef", "assemble_contrib"}

LEMMA WritesByKind ==
  ASSUME NEW t \in Task, NEW k, NEW f, t = <<k, f>>
  PROVE  /\ k = "factor_subtree" => Writes[t] = {<<"contrib", f>>, <<"ndelay_out", f>>, <<"lcol", f>>}
         /\ k = "activate_init_node" =>
              Writes[t] = {<<"size", f>>, <<"lcol", f>>, <<"contrib", f>>, <<"ndelay_out", f>>}
         /\ k = "factor_front_indef_app" => Writes[t] = {<<"lcol", f>>, <<"nelim", f>>}
         /\ k = "update_contrib_block_app" => Writes[t] = {<<"contrib", f>>}
         /\ k = "factor_front_indef_failed" =>
              Writes[t] = {<<"lcol", f>>, <<"nelim", f>>, <<"ndelay_out", f>>, <<"contrib", f>>}
         /\ k \in {"assemble_delays", "assemble_block"} => Writes[t] = {<<"lcol", Parent[f]>>}
         /\ k = "assemble_contrib_block" => Writes[t] = {<<"contrib", Parent[f]>>}
         /\ k = "fini_node" => Writes[t] = {<<"contrib", f>>, <<"size", f>>}
         /\ k \notin MakerKinds \cup ChildKinds \cup {"fini_node"} => Writes[t] = {}
<1>0. t[1] = k /\ t[2] = f
  OBVIOUS
<1>1. CASE k = "factor_subtree"
  BY <1>0, <1>1, TableIs DEF Writes, MakerKinds
<1>2. CASE k = "activate_init_node"
  BY <1>0, <1>2, TableIs DEF Writes, MakerKinds
<1>3. CASE k = "factor_front_indef_app"
  BY <1>0, <1>3, TableIs DEF Writes, MakerKinds
<1>4. CASE k = "update_contrib_block_app"
  BY <1>0, <1>4, TableIs DEF Writes, MakerKinds
<1>5. CASE k = "factor_front_indef_failed"
  BY <1>0, <1>5, TableIs, SMTT(20) DEF Writes, MakerKinds
<1>6. CASE k \in {"assemble_delays", "assemble_block"}
  BY <1>0, <1>6, TableIs, SMTT(20) DEF Writes, ChildKinds
<1>7. CASE k = "assemble_contrib_block"
  BY <1>0, <1>7, TableIs DEF Writes, ChildKinds
<1>8. CASE k = "fini_node"
  BY <1>0, <1>8, TableIs DEF Writes
<1>9. CASE k \notin MakerKinds \cup ChildKinds \cup {"fini_node"}
  <2>1. /\ k \notin {"factor_subtree", "activate_init_node", "factor_front_indef_app",
                    "update_contrib_block_app", "factor_front_indef_failed"}
        /\ k \notin {"assemble_delays", "assemble_block", "assemble_contrib_block", "fini_node"}
    BY <1>9 DEF ChildKinds, MakerKinds
  <2>2. Writes[t] = {}
    BY <1>0, <2>1, TableIs DEF Writes
  <2> QED
    BY <2>1, <2>2
<1> QED
  BY <1>1, <1>2, <1>3, <1>4, <1>5, <1>6, <1>7, <1>8, <1>9 DEF MakerKinds, ChildKinds

LEMMA ReadsByKind ==
  ASSUME NEW t \in Task, NEW k, NEW f, t = <<k, f>>
  PROVE  /\ k = "activate_init_node" => Reads[t] = {<<"ndelay_out", c>> : c \in Children(f)}
         /\ k = "assemble" =>
              Reads[t] = {<<"size", f>>}
                           \cup UNION {{<<"ndelay_out", c>>, <<"nelim", c>>, <<"size", c>>}
                                         : c \in Children(f)}
         /\ k \in {"factor_front_indef", "factor_front_indef_app"} => Reads[t] = {<<"size", f>>}
         /\ k = "update_contrib_block_app" => Reads[t] = {<<"lcol", f>>}
         /\ k = "assemble_contrib" => Reads[t] = {<<"size", c>> : c \in Children(f) \cup {f}}
         /\ k = "assemble_delays" =>
              Reads[t] = {<<"lcol", f>>, <<"nelim", f>>, <<"ndelay_out", f>>}
         /\ k \in {"assemble_block", "assemble_contrib_block"} => Reads[t] = {<<"contrib", f>>}
         /\ k \notin {"activate_init_node", "assemble", "factor_front_indef",
                      "factor_front_indef_app", "update_contrib_block_app", "assemble_contrib"}
                       \cup ChildKinds
              => Reads[t] = {}
<1>0. t[1] = k /\ t[2] = f
  OBVIOUS
<1>1. CASE k = "activate_init_node"
  BY <1>0, <1>1, TableIs DEF Reads, ChildKinds
<1>2. CASE k = "assemble"
  BY <1>0, <1>2, TableIs DEF Reads, ChildKinds
<1>3. CASE k \in {"factor_front_indef", "factor_front_indef_app"}
  BY <1>0, <1>3, TableIs DEF Reads, ChildKinds
<1>4. CASE k = "update_contrib_block_app"
  BY <1>0, <1>4, TableIs DEF Reads, ChildKinds
<1>5. CASE k = "assemble_contrib"
  BY <1>0, <1>5, TableIs DEF Reads, ChildKinds
<1>6. CASE k = "assemble_delays"
  BY <1>0, <1>6, TableIs DEF Reads, ChildKinds
<1>7. CASE k \in {"assemble_block", "assemble_contrib_block"}
  BY <1>0, <1>7, TableIs DEF Reads, ChildKinds
<1>8. CASE k \notin {"activate_init_node", "assemble", "factor_front_indef",
                     "factor_front_indef_app", "update_contrib_block_app", "assemble_contrib"}
                      \cup ChildKinds
  BY <1>0, <1>8, TableIs DEF Reads, ChildKinds
<1> QED
  BY <1>1, <1>2, <1>3, <1>4, <1>5, <1>6, <1>7, <1>8 DEF ChildKinds

(* Who writes the data i of a front, and who reads them.                    *)
WriterOf(t, i, f) ==
  \/ t[2] = f /\ i = "contrib" /\ t[1] \in {"factor_subtree", "activate_init_node",
                   "update_contrib_block_app", "factor_front_indef_failed", "fini_node"}
  \/ t[2] = f /\ i = "lcol" /\ t[1] \in {"factor_subtree", "activate_init_node",
                   "factor_front_indef_app", "factor_front_indef_failed"}
  \/ t[2] = f /\ i = "nelim" /\ t[1] \in {"factor_front_indef_app", "factor_front_indef_failed"}
  \/ t[2] = f /\ i = "ndelay_out" /\ t[1] \in {"factor_subtree", "activate_init_node",
                   "factor_front_indef_failed"}
  \/ t[2] = f /\ i = "size" /\ t[1] \in {"activate_init_node", "fini_node"}
  \/ Parent[t[2]] = f /\ i = "contrib" /\ t[1] = "assemble_contrib_block"
  \/ Parent[t[2]] = f /\ i = "lcol" /\ t[1] \in {"assemble_delays", "assemble_block"}

ReaderOf(t, i, f) ==
  \/ t[2] = f /\ i = "contrib" /\ t[1] \in {"assemble_block", "assemble_contrib_block"}
  \/ t[2] = f /\ i = "lcol" /\ t[1] \in {"update_contrib_block_app", "assemble_delays"}
  \/ t[2] = f /\ i \in {"nelim", "ndelay_out"} /\ t[1] = "assemble_delays"
  \/ t[2] = f /\ i = "size" /\ t[1] \in {"assemble", "factor_front_indef",
                                         "factor_front_indef_app", "assemble_contrib"}
  \/ f \in Children(t[2]) /\ i \in {"nelim", "ndelay_out", "size"} /\ t[1] = "assemble"
  \/ f \in Children(t[2]) /\ i = "ndelay_out" /\ t[1] = "activate_init_node"
  \/ f \in Children(t[2]) /\ i = "size" /\ t[1] = "assemble_contrib"

LEMMA WriterIs ==
  ASSUME NEW t \in Task, NEW x \in Writes[t]
  PROVE  \E i, f : x = <<i, f>> /\ WriterOf(t, i, f)
<1> DEFINE k == t[1]
           f == t[2]
<1>0. t = <<k, f>>
  BY TaskShape
<1> HIDE DEF k, f
<1>1. CASE k = "factor_subtree"
  <2>1. x \in {<<"contrib", f>>, <<"ndelay_out", f>>, <<"lcol", f>>}
    BY <1>0, <1>1, WritesByKind
  <2> QED
    BY <1>0, <1>1, <2>1 DEF WriterOf
<1>2. CASE k = "activate_init_node"
  <2>1. x \in {<<"size", f>>, <<"lcol", f>>, <<"contrib", f>>, <<"ndelay_out", f>>}
    BY <1>0, <1>2, WritesByKind
  <2> QED
    BY <1>0, <1>2, <2>1 DEF WriterOf
<1>3. CASE k = "factor_front_indef_app"
  <2>1. x \in {<<"lcol", f>>, <<"nelim", f>>}
    BY <1>0, <1>3, WritesByKind
  <2> QED
    BY <1>0, <1>3, <2>1 DEF WriterOf
<1>4. CASE k = "update_contrib_block_app"
  <2>1. x = <<"contrib", f>>
    BY <1>0, <1>4, WritesByKind
  <2> QED
    BY <1>0, <1>4, <2>1 DEF WriterOf
<1>5. CASE k = "factor_front_indef_failed"
  <2>1. x \in {<<"lcol", f>>, <<"nelim", f>>, <<"ndelay_out", f>>, <<"contrib", f>>}
    BY <1>0, <1>5, WritesByKind
  <2> QED
    BY <1>0, <1>5, <2>1 DEF WriterOf
<1>6. CASE k \in {"assemble_delays", "assemble_block"}
  <2>1. x = <<"lcol", Parent[f]>>
    BY <1>0, <1>6, WritesByKind
  <2> QED
    BY <1>0, <1>6, <2>1 DEF WriterOf
<1>7. CASE k = "assemble_contrib_block"
  <2>1. x = <<"contrib", Parent[f]>>
    BY <1>0, <1>7, WritesByKind
  <2> QED
    BY <1>0, <1>7, <2>1 DEF WriterOf
<1>8. CASE k = "fini_node"
  <2>1. x \in {<<"contrib", f>>, <<"size", f>>}
    BY <1>0, <1>8, WritesByKind
  <2> QED
    BY <1>0, <1>8, <2>1 DEF WriterOf
<1>9. CASE k \notin MakerKinds \cup ChildKinds \cup {"fini_node"}
  BY <1>0, <1>9, WritesByKind
<1> QED
  BY <1>1, <1>2, <1>3, <1>4, <1>5, <1>6, <1>7, <1>8, <1>9 DEF MakerKinds, ChildKinds

LEMMA ReaderIs ==
  ASSUME NEW t \in Task, NEW i, NEW f, <<i, f>> \in Reads[t]
  PROVE  ReaderOf(t, i, f)
<1> DEFINE k == t[1]
           p == t[2]
<1>0. t = <<k, p>>
  BY TaskShape
<1> HIDE DEF k, p
<1>1. CASE k = "activate_init_node"
  <2>1. \E c \in Children(p) : <<i, f>> = <<"ndelay_out", c>>
    BY <1>0, <1>1, ReadsByKind
  <2> QED
    BY <1>0, <1>1, <2>1 DEF ReaderOf
<1>2. CASE k = "assemble"
  <2>1. \/ <<i, f>> = <<"size", p>>
        \/ \E c \in Children(p) : <<i, f>> \in {<<"ndelay_out", c>>, <<"nelim", c>>, <<"size", c>>}
    BY <1>0, <1>2, ReadsByKind
  <2> QED
    BY <1>0, <1>2, <2>1 DEF ReaderOf
<1>3. CASE k \in {"factor_front_indef", "factor_front_indef_app"}
  <2>1. <<i, f>> = <<"size", p>>
    BY <1>0, <1>3, ReadsByKind
  <2> QED
    BY <1>0, <1>3, <2>1 DEF ReaderOf
<1>4. CASE k = "update_contrib_block_app"
  <2>1. <<i, f>> = <<"lcol", p>>
    BY <1>0, <1>4, ReadsByKind
  <2> QED
    BY <1>0, <1>4, <2>1 DEF ReaderOf
<1>5. CASE k = "assemble_contrib"
  <2>1. \E c \in Children(p) \cup {p} : <<i, f>> = <<"size", c>>
    BY <1>0, <1>5, ReadsByKind
  <2> QED
    BY <1>0, <1>5, <2>1 DEF ReaderOf
<1>6. CASE k = "assemble_delays"
  <2>1. <<i, f>> \in {<<"lcol", p>>, <<"nelim", p>>, <<"ndelay_out", p>>}
    BY <1>0, <1>6, ReadsByKind
  <2> QED
    BY <1>0, <1>6, <2>1 DEF ReaderOf
<1>7. CASE k \in {"assemble_block", "assemble_contrib_block"}
  <2>1. <<i, f>> = <<"contrib", p>>
    BY <1>0, <1>7, ReadsByKind
  <2> QED
    BY <1>0, <1>7, <2>1 DEF ReaderOf
<1>8. CASE k \notin {"activate_init_node", "assemble", "factor_front_indef",
                     "factor_front_indef_app", "update_contrib_block_app", "assemble_contrib"}
                      \cup ChildKinds
  BY <1>0, <1>8, ReadsByKind
<1> QED
  BY <1>1, <1>2, <1>3, <1>4, <1>5, <1>6, <1>7, <1>8 DEF ChildKinds

(* Once a front is done nothing is left that makes it.                      *)
NoneRunning(K, F) == \A k \in K : \A f \in F : ~ RunningTask(k, f)

LEMMA NotTasks ==
  ASSUME NEW f \in Front
  PROVE  /\ f \in Subtree => Children(f) = {}
         /\ f \in Subtree => \A k \in OwnKinds \ {"factor_subtree"} : <<k, f>> \notin Task
         /\ f \notin Subtree => <<"factor_subtree", f>> \notin Task
<1>1. f \in Subtree => Children(f) = {}
  BY TreeFacts DEF Front
<1>2. ASSUME f \in Subtree, NEW k \in OwnKinds \ {"factor_subtree"} PROVE <<k, f>> \notin Task
  <2>1. k \in OuterKinds \cup FactorKinds
    BY DEF OwnKinds, MakerKinds, OuterKinds, FactorKinds
  <2> QED
    BY <1>2, <2>1, TaskShape
<1>3. f \notin Subtree => <<"factor_subtree", f>> \notin Task
  BY TaskShape
<1> QED
  BY <1>1, <1>2, <1>3

LEMMA PassOver ==
  ASSUME FlowInv, PivotMethod = "app_block", NEW f \in Front \ Subtree,
         StartedTask("factor_front_indef_failed", f)
  PROVE  /\ NoneRunning({"factor_subtree", "activate_init_node", "factor_front_indef_app",
                         "update_contrib_block_app"}, {f})
         /\ NoneRunning({"assemble_delays", "assemble_block"}, Children(f))
<1>1. DoneTask("factor_front_indef_app", f)
  BY FirstBeforeSecond
<1>2. ~ RunningTask("update_contrib_block_app", f)
  <2>1. RunningTask("update_contrib_block_app", f) => StartedTask("update_contrib_block_app", f)
    BY DEF RunningTask, StartedTask, Started
  <2> QED
    BY <2>1, FirstBeforeSecond, FirstBeforeContrib DEF RunningTask, DoneTask
<1>3. DoneTask("activate_init_node", f)
  BY FactorSubmitted DEF StartedTask, Started, FactorKinds
<1>4. ~ RunningTask("factor_subtree", f)
  BY NotTasks DEF RunningTask
<1>5. NoneRunning({"assemble_delays", "assemble_block"}, Children(f))
  <2>1. StartedTask("factor_front_indef_app", f)
    BY <1>1 DEF StartedTask, Started, DoneTask
  <2> QED
    BY <2>1, AssembledBeforePass DEF NoneRunning, RunningTask, DoneTask, Past, Skipped
<1> QED
  BY <1>1, <1>2, <1>3, <1>4, <1>5 DEF NoneRunning, RunningTask, DoneTask

LEMMA MakersDone ==
  ASSUME FlowInv, PivotMethod = "app_block", NEW f \in Front, FrontDone(f)
  PROVE  /\ NoneRunning(OwnKinds, {f})
         /\ NoneRunning({"assemble_delays", "assemble_block"}, Children(f))
<1>1. CASE f \in Subtree
  <2>1. ~ RunningTask("factor_subtree", f)
    BY <1>1 DEF FrontDone, DoneTask, RunningTask
  <2>2. \A k \in OwnKinds \ {"factor_subtree"} : ~ RunningTask(k, f)
    BY <1>1, NotTasks DEF RunningTask
  <2> QED
    BY <1>1, <2>1, <2>2, NotTasks DEF NoneRunning
<1>2. CASE f \notin Subtree
  <2>1. /\ \A k \in OuterKinds : ~ RunningTask(k, f)
        /\ StartedTask("factor_front_indef_failed", f)
        /\ ~ RunningTask("factor_front_indef_failed", f)
    BY <1>2 DEF FrontDone, DoneTask, RunningTask, StartedTask, Started
  <2>2. /\ NoneRunning({"factor_subtree", "activate_init_node", "factor_front_indef_app",
                        "update_contrib_block_app"}, {f})
        /\ NoneRunning({"assemble_delays", "assemble_block"}, Children(f))
    BY <1>2, <2>1, PassOver
  <2> QED
    BY <2>1, <2>2 DEF NoneRunning, OwnKinds, MakerKinds, OuterKinds
<1> QED
  BY <1>1, <1>2

LEMMA UserDone ==
  ASSUME FlowInv, NEW f \in Front
  PROVE  /\ \A k \in ChildKinds : RunningTask(k, f) => FrontDone(f)
         /\ RunningTask("fini_node", f) => FrontDone(f)
         /\ \A k \in {"activate_init_node", "assemble", "assemble_contrib"} :
              RunningTask(k, Parent[f]) => FrontDone(f)
<1> DEFINE p == Parent[f]
<1>0. f \in Children(p)
  BY ParentSubmitters
<1>1. ASSUME NEW k \in {"activate_init_node", "assemble", "assemble_contrib"}, <<k, p>> \in Task,
             Started(<<k, p>>)
      PROVE  FrontDone(f)
  <2>1. p \in Front \ Subtree /\ p # Root
    BY <1>1, TaskShape, TreeFacts DEF OuterKinds
  <2> QED
    BY <1>0, <1>1, <2>1, ChildrenDone DEF ReaderKinds, StartedTask
<1>2. ASSUME NEW k \in ChildKinds, RunningTask(k, f) PROVE FrontDone(f)
  <2>1. <<k, f>> \in Inner /\ status[<<k, f>>] # "unsubmitted"
    BY <1>2, InnerOf DEF RunningTask
  <2>2. SubmitterOf(<<k, f>>) \in {<<"assemble", p>>, <<"assemble_contrib", p>>}
    BY AssembleOf DEF ChildKinds
  <2>3. SubmitterOf(<<k, f>>) \in Task /\ Started(SubmitterOf(<<k, f>>))
    BY <2>1, SubmitterStarted DEF Submitter
  <2> QED
    BY <1>1, <2>2, <2>3
<1>3. ASSUME RunningTask("fini_node", f) PROVE FrontDone(f)
  <2>1. f \in Front \ Subtree
    BY <1>3, TaskShape DEF RunningTask
  <2> QED
    BY <1>3, <2>1, FreedAfter DEF RunningTask, StartedTask, Started
<1> QED
  BY <1>1, <1>2, <1>3 DEF RunningTask, Started

(* Whoever works on a front does so after its activation.                   *)
LEMMA AfterActivation ==
  ASSUME FlowInv, NEW f \in Front, NEW k,
         \/ k \in OwnKinds \ {"factor_subtree", "activate_init_node"} /\ RunningTask(k, f)
         \/ k \in ChildKinds /\ \E d \in Children(f) : RunningTask(k, d)
  PROVE  NoneRunning({"factor_subtree", "activate_init_node"}, {f})
<1>1. SUFFICES f \notin Subtree /\ DoneTask("activate_init_node", f)
  BY NotTasks DEF NoneRunning, RunningTask, DoneTask
<1>2. ASSUME k \in OwnKinds \ {"factor_subtree", "activate_init_node"}, RunningTask(k, f)
      PROVE  f \notin Subtree /\ DoneTask("activate_init_node", f)
  <2>1. f \notin Subtree
    BY <1>2, NotTasks DEF RunningTask
  <2>2. CASE k \in {"assemble", "factor_front_indef", "assemble_contrib"}
    <3>1. k \in OuterKinds /\ MainPlace["activate_init_node"] < MainPlace[k]
          /\ "activate_init_node" \in OuterKinds
      BY <2>2 DEF OuterKinds, MainPlace
    <3>2. StartedTask(k, f)
      BY <1>2 DEF RunningTask, StartedTask, Started
    <3> QED
      BY <2>1, <3>1, <3>2, EarlierDone
  <2>3. CASE k \in FactorKinds
    BY <1>2, <2>1, <2>3, FactorSubmitted DEF RunningTask
  <2> QED
    BY <1>2, <2>1, <2>2, <2>3 DEF OwnKinds, MakerKinds, FactorKinds
<1>3. ASSUME k \in ChildKinds, NEW d \in Children(f), RunningTask(k, d)
      PROVE  f \notin Subtree /\ DoneTask("activate_init_node", f)
  <2>1. d \in Front /\ Parent[d] = f
    BY TreeFacts DEF Front
  <2>2. f \notin Subtree
    BY <2>1, TreeFacts
  <2>3. CASE k \in {"assemble_delays", "assemble_block"}
    BY <1>3, <2>1, <2>3, ActivatedBeforeChild DEF RunningTask
  <2>4. CASE k = "assemble_contrib_block"
    <3>1. DoneTask("factor_front_indef_failed", f)
      BY <1>3, <2>1, <2>4, FactorizedBeforePassed DEF RunningTask, StartedTask, Started
    <3> QED
      BY <2>2, <3>1, FactorSubmitted DEF DoneTask, FactorKinds
  <2> QED
    BY <1>3, <2>2, <2>3, <2>4 DEF ChildKinds
<1> QED
  BY <1>2, <1>3

(* The passes take turns with the assembly of the children.                 *)
LEMMA PassTurns ==
  ASSUME FlowInv, PivotMethod = "app_block", NEW f \in Front
  PROVE  /\ RunningTask("factor_front_indef_app", f)
              => NoneRunning({"assemble_delays", "assemble_block"}, Children(f))
         /\ RunningTask("update_contrib_block_app", f)
              => /\ NoneRunning({"assemble_delays", "assemble_block"}, Children(f))
                 /\ ~ RunningTask("factor_front_indef_app", f)
         /\ RunningTask("factor_front_indef_failed", f)
              => /\ NoneRunning({"assemble_delays", "assemble_block"}, Children(f))
                 /\ NoneRunning({"factor_front_indef_app", "update_contrib_block_app"}, {f})
         /\ \A d \in Children(f) :
              RunningTask("assemble_contrib_block", d)
                => NoneRunning({"factor_front_indef_app", "update_contrib_block_app",
                                "factor_front_indef_failed"}, {f})
<1>0. /\ \A k \in FactorKinds : RunningTask(k, f) => f \in Front \ Subtree
      /\ \A k : RunningTask(k, f) => StartedTask(k, f)
      /\ \A k : DoneTask(k, f) => StartedTask(k, f) /\ ~ RunningTask(k, f)
  BY TaskShape DEF RunningTask, StartedTask, DoneTask, Started
<1>1. ASSUME f \notin Subtree, StartedTask("factor_front_indef_app", f)
      PROVE  NoneRunning({"assemble_delays", "assemble_block"}, Children(f))
  BY <1>1, AssembledBeforePass DEF NoneRunning, RunningTask, DoneTask, Past, Skipped
<1>2. ASSUME RunningTask("update_contrib_block_app", f)
      PROVE  /\ NoneRunning({"assemble_delays", "assemble_block"}, Children(f))
             /\ ~ RunningTask("factor_front_indef_app", f)
  <2>1. f \in Front \ Subtree /\ StartedTask("update_contrib_block_app", f)
    BY <1>0, <1>2 DEF FactorKinds
  <2>2. DoneTask("factor_front_indef_app", f)
    BY <2>1, FirstBeforeContrib
  <2> QED
    BY <1>0, <1>1, <2>1, <2>2
<1>3. ASSUME RunningTask("factor_front_indef_failed", f)
      PROVE  /\ NoneRunning({"assemble_delays", "assemble_block"}, Children(f))
             /\ NoneRunning({"factor_front_indef_app", "update_contrib_block_app"}, {f})
  <2>1. f \in Front \ Subtree /\ StartedTask("factor_front_indef_failed", f)
    BY <1>0, <1>3 DEF FactorKinds
  <2> QED
    BY <2>1, PassOver DEF NoneRunning
<1>4. ASSUME NEW d \in Children(f), RunningTask("assemble_contrib_block", d)
      PROVE  NoneRunning({"factor_front_indef_app", "update_contrib_block_app",
                          "factor_front_indef_failed"}, {f})
  <2>1. d \in Front /\ Parent[d] = f /\ f \notin Subtree
    BY TreeFacts DEF Front
  <2>2. DoneTask("factor_front_indef_failed", f)
    BY <1>4, <2>1, FactorizedBeforePassed DEF RunningTask, StartedTask, Started
  <2>3. NoneRunning({"factor_front_indef_app", "update_contrib_block_app"}, {f})
    BY <1>0, <2>1, <2>2, PassOver DEF NoneRunning
  <2> QED
    BY <1>0, <2>2, <2>3 DEF NoneRunning
<1> QED
  BY <1>0, <1>1, <1>2, <1>3, <1>4 DEF FactorKinds

(* A front is read when all is in it, and freed when all has been read.     *)
LEMMA UseTurns ==
  ASSUME FlowInv, NEW f \in Front
  PROVE  /\ \A k \in {"assemble_block", "assemble_contrib_block"} :
              RunningTask(k, f) => NoneRunning({"assemble_contrib_block"}, Children(f))
         /\ RunningTask("fini_node", f) =>
              /\ NoneRunning({"assemble_contrib_block"}, Children(f))
              /\ NoneRunning({"assemble_block", "assemble_contrib_block"}, {f})
              /\ NoneRunning({"assemble", "assemble_contrib"}, {Parent[f]})
<1> DEFINE p == Parent[f]
<1>1. ASSUME NEW k \in {"assemble_block", "assemble_contrib_block"}, StartedTask(k, f)
      PROVE  NoneRunning({"assemble_contrib_block"}, Children(f))
  BY <1>1, CompleteBeforeUse DEF NoneRunning, RunningTask, DoneTask
<1>2. ASSUME RunningTask("fini_node", f)
      PROVE  /\ NoneRunning({"assemble_contrib_block"}, Children(f))
             /\ NoneRunning({"assemble_block", "assemble_contrib_block"}, {f})
             /\ NoneRunning({"assemble", "assemble_contrib"}, {p})
  <2>0. f \in Front \ Subtree /\ StartedTask("fini_node", f)
    BY <1>2, TaskShape DEF RunningTask, StartedTask, Started
  <2>1. /\ StartedTask("fini_cnodes", p)
        /\ HasContrib(f) => /\ DoneTask("assemble_block", f)
                            /\ HasContrib(p) => DoneTask("assemble_contrib_block", f)
    BY <2>0, UsedBeforeFreed
  <2>2. ~ RunningTask("assemble_block", f)
    BY <2>1, ActivatedBeforeChild DEF RunningTask, DoneTask
  <2>3. ~ RunningTask("assemble_contrib_block", f)
    <3>1. RunningTask("assemble_contrib_block", f) => HasContrib(f) /\ HasContrib(p)
      BY FactorizedBeforePassed DEF RunningTask, StartedTask, Started
    <3> QED
      BY <2>1, <3>1 DEF RunningTask, DoneTask
  <2>4. NoneRunning({"assemble_contrib_block"}, Children(f))
    <3>1. CASE HasContrib(f)
      <4>1. StartedTask("assemble_block", f)
        BY <2>1, <3>1 DEF StartedTask, Started, DoneTask
      <4> QED
        BY <1>1, <4>1
    <3>2. CASE ~ HasContrib(f)
      <4>1. \A d \in Children(f) : d \in Front /\ Parent[d] = f
        BY TreeFacts DEF Front
      <4>2. \A d \in Children(f) : ~ RunningTask("assemble_contrib_block", d)
        BY <3>2, <4>1, FactorizedBeforePassed DEF RunningTask, StartedTask, Started
      <4> QED
        BY <4>2 DEF NoneRunning
    <3> QED
      BY <3>1, <3>2
  <2>5. ASSUME NEW k \in {"assemble", "assemble_contrib"}, RunningTask(k, p) PROVE FALSE
    <3>1. p \in Front \ Subtree
      BY <2>5, TaskShape DEF RunningTask, OuterKinds
    <3>2. k \in OuterKinds /\ MainPlace[k] < MainPlace["fini_cnodes"]
      BY MainOrder
    <3>3. DoneTask(k, p)
      BY <2>1, <3>1, <3>2, EarlierDone
    <3> QED
      BY <2>5, <3>3 DEF RunningTask, DoneTask
  <2> QED
    BY <2>2, <2>3, <2>4, <2>5 DEF NoneRunning
<1> QED
  BY <1>1, <1>2 DEF RunningTask, StartedTask, Started

(* Tasks that add to the same tiles in any order do not run together.       *)
Exclusive ==
  \A t \in Task : status[t] = "running" => \A u \in Exclusions[t] : status[u] # "running"

LEMMA InitExclusive == Init => Exclusive
BY DEF Init, Exclusive

LEMMA ExclusiveStep ==
  ASSUME FlowInv, Exclusive, [Next]_vars
  PROVE  Exclusive'
<1>0. /\ status \in [Task -> Statuses]
      /\ \A t, u \in Task : u \in Exclusions[t] => t \in Exclusions[u]
      /\ \A t \in Task : Exclusions[t] \subseteq Task \ {t}
  BY TableIs DEF FlowInv, FlowTypeOK, Exclusions
<1>1. ASSUME \A t \in Task : status'[t] = "running" => status[t] = "running"
      PROVE  Exclusive'
  BY <1>0, <1>1 DEF Exclusive, Exclusions, Access
<1>2. ASSUME NEW s \in Task, Start(s) PROVE Exclusive'
  <2>1. /\ status' = [status EXCEPT ![s] = "running"]
        /\ \A u \in Exclusions[s] : status[u] # "running"
    BY <1>2 DEF Start
  <2>2. \A t \in Task : status'[t] = "running" => t = s \/ status[t] = "running"
    BY <1>0, <2>1
  <2>3. ASSUME NEW t \in Task, status'[t] = "running", NEW u \in Exclusions[t], status'[u] = "running"
        PROVE  FALSE
    BY <1>0, <2>1, <2>2, <2>3 DEF Exclusive
  <2> QED
    BY <2>3 DEF Exclusive, Exclusions, Access
<1>3. ASSUME NEW t \in Task, FinishFlow(t) PROVE \A u \in Task : status'[u] = "running" => status[u] = "running"
  BY <1>0, <1>3 DEF FinishFlow, Finish
<1>4. ASSUME NEW s \in Submitter, NEW op \in Code[s], SubmitFlow(s, op)
      PROVE  \A u \in Task : status'[u] = "running" => status[u] = "running"
  BY <1>0, <1>4 DEF SubmitFlow, SubmitTask
<1>5. ASSUME UNCHANGED <<status, deps, sent>>
      PROVE  \A u \in Task : status'[u] = "running" => status[u] = "running"
  BY <1>5
<1>6. CASE \E t \in Task : Start(t)
  BY <1>2, <1>6
<1>7. CASE ~ \E t \in Task : Start(t)
  BY <1>1, <1>3, <1>4, <1>5, <1>7, NextFlow
<1> QED
  BY <1>6, <1>7

(* The tasks that bring the children to a front run one at a time.          *)
LEMMA SiblingsApart ==
  ASSUME FlowInv, Exclusive, NEW f \in Front \ Subtree, NEW c \in Children(f), NEW d \in Children(f),
         NEW k \in ChildKinds, NEW l \in ChildKinds, <<k, c>> # <<l, d>>,
         k = "assemble_contrib_block" <=> l = "assemble_contrib_block",
         RunningTask(k, c)
  PROVE  ~ RunningTask(l, d)
<1> DEFINE t == <<k, c>>
           u == <<l, d>>
<1>0. /\ c \in Front /\ d \in Front /\ Parent[c] = f /\ Parent[d] = f /\ c \in Nat /\ d \in Nat
      /\ Front \subseteq Nat
  BY TreeFacts DEF Front
<1>1. t \in Inner /\ u \in Inner /\ t \in Task /\ u \in Task
  BY <1>0, InnerOf DEF Inner
<1>2. SubmitterOf(t) = SubmitterOf(u)
  BY <1>0 DEF SubmitterOf, ChildKinds
<1>3. Earlier(t, u) \/ Earlier(u, t)
  <2>1. CASE c # d
    BY <1>0, <2>1 DEF Earlier
  <2>2. CASE c = d
    <3>1. {k, l} = {"assemble_delays", "assemble_block"}
      BY <2>2 DEF ChildKinds
    <3> QED
      BY <2>2, <3>1 DEF Earlier, Place
  <2> QED
    BY <2>1, <2>2
<1>4. Access[t].rw \subseteq Handles[t] /\ Access[u].rw \subseteq Handles[u]
      /\ Access[t].c \subseteq Handles[t] /\ Access[u].c \subseteq Handles[u]
  BY <1>1, AccessOf
<1>5. ASSUME t \in Conflicts[u], u \in Conflicts[t], RunningTask(l, d) PROVE FALSE
  <2>1. Started(t) /\ Started(u) /\ status[t] # "unsubmitted" /\ status[u] # "unsubmitted"
    BY <1>5 DEF RunningTask, Started
  <2>2. /\ SubmitterOf(t) \in Submitter /\ t \in Code[SubmitterOf(t)]
        /\ SubmitterOf(u) \in Submitter /\ u \in Code[SubmitterOf(u)]
    BY <1>1, <2>1, SubmitterStarted
  <2>3. ASSUME NEW v \in Inner, NEW w \in Inner, {v, w} = {t, u}, Earlier(w, v) PROVE Past(w)
    BY <1>2, <1>5, <2>1, <2>2, <2>3, InnerPast
  <2> QED
    BY <1>1, <1>3, <1>5, <2>3 DEF Past, Skipped, RunningTask
<1>6. CASE k # "assemble_contrib_block"
  <2>1. Hblk(f) \in Access[t].rw /\ Hblk(f) \in Access[u].rw
    BY <1>0, <1>6, ChildAccess DEF ChildKinds
  <2>2. t \in Conflicts[u] /\ u \in Conflicts[t]
    BY <1>1, <1>4, <2>1, ConflictIf
  <2> QED
    BY <1>5, <2>2
<1>7. CASE k = "assemble_contrib_block"
  <2>1. /\ Htile(f) \in Access[t].rw \cup Access[t].c
        /\ Htile(f) \in Access[u].rw \cup Access[u].c
    BY <1>0, <1>7, ChildAccess
  <2>2. CASE Htile(f) \in Access[t].rw \cup Access[u].rw
    <3>1. t \in Conflicts[u] /\ u \in Conflicts[t]
      BY <1>1, <1>4, <2>1, <2>2, ConflictIf
    <3> QED
      BY <1>5, <3>1
  <2>3. CASE Htile(f) \in Access[t].c /\ Htile(f) \in Access[u].c
    <3>1. u \in Exclusions[t]
      BY <1>1, <2>3, TableIs DEF Exclusions
    <3> QED
      BY <1>1, <3>1 DEF Exclusive, RunningTask
  <2> QED
    BY <2>1, <2>2, <2>3
<1> QED
  BY <1>6, <1>7

(* Who runs beside whom, on the data of one front.                          *)
LEMMA Turns ==
  ASSUME FlowInv, Exclusive, PivotMethod = "app_block", NEW f \in Front
  PROVE  /\ \A k \in {"factor_subtree", "activate_init_node"} :
              RunningTask(k, f) => NoneRunning(OwnKinds \ {k}, {f})
         /\ \A k \in {"factor_front_indef_app", "update_contrib_block_app",
                      "factor_front_indef_failed"} :
              RunningTask(k, f) => NoneRunning(MakerKinds \ {k}, {f})
         /\ \A k \in MakerKinds :
              RunningTask(k, f) => NoneRunning(ChildKinds, Children(f))
         /\ \A k \in OwnKinds :
              RunningTask(k, f) => /\ NoneRunning(ChildKinds \cup {"fini_node"}, {f})
                                   /\ NoneRunning({"activate_init_node", "assemble",
                                                   "assemble_contrib"}, {Parent[f]})
         /\ \A d \in Children(f) : \A k \in {"assemble_delays", "assemble_block"} :
              RunningTask(k, d) => NoneRunning(ChildKinds \cup {"fini_node"}, {f})
         /\ \A d \in Children(f) :
              RunningTask("assemble_contrib_block", d)
                => NoneRunning({"assemble_block", "assemble_contrib_block", "fini_node"}, {f})
         /\ RunningTask("fini_node", f)
              => /\ NoneRunning({"assemble_block", "assemble_contrib_block"}, {f})
                 /\ NoneRunning({"assemble", "assemble_contrib"}, {Parent[f]})
<1> DEFINE K == OwnKinds \ {"factor_subtree", "activate_init_node"}
<1>1. /\ \A k \in K : RunningTask(k, f)
              => ~ RunningTask("factor_subtree", f) /\ ~ RunningTask("activate_init_node", f)
      /\ \A k \in ChildKinds : \A d \in Children(f) : RunningTask(k, d)
              => ~ RunningTask("factor_subtree", f) /\ ~ RunningTask("activate_init_node", f)
  BY AfterActivation DEF NoneRunning
<1>2. ~ (RunningTask("factor_subtree", f) /\ RunningTask("activate_init_node", f))
  BY NotTasks DEF RunningTask, OwnKinds, MakerKinds
<1>3. ASSUME NEW k \in {"factor_subtree", "activate_init_node"}, RunningTask(k, f)
      PROVE  NoneRunning(OwnKinds \ {k}, {f}) /\ NoneRunning(ChildKinds, Children(f))
  BY <1>1, <1>2, <1>3 DEF NoneRunning
<1>4. ASSUME NEW k \in {"factor_front_indef_app", "update_contrib_block_app",
                        "factor_front_indef_failed"}, RunningTask(k, f)
      PROVE  NoneRunning(MakerKinds \ {k}, {f}) /\ NoneRunning(ChildKinds, Children(f))
  <2>1. ~ RunningTask("factor_subtree", f) /\ ~ RunningTask("activate_init_node", f)
    BY <1>1, <1>4 DEF OwnKinds, MakerKinds
  <2>2. \A l \in {"factor_front_indef_app", "update_contrib_block_app",
                  "factor_front_indef_failed"} \ {k} : ~ RunningTask(l, f)
    BY <1>4, PassTurns DEF NoneRunning
  <2>3. \A d \in Children(f) : ~ RunningTask("assemble_contrib_block", d)
    BY <1>4, PassTurns DEF NoneRunning
  <2>4. \A d \in Children(f) : ~ RunningTask("assemble_delays", d) /\ ~ RunningTask("assemble_block", d)
    BY <1>4, PassTurns DEF NoneRunning
  <2> QED
    BY <2>1, <2>2, <2>3, <2>4 DEF NoneRunning, MakerKinds, ChildKinds
<1>5. ASSUME \/ \E k \in OwnKinds : RunningTask(k, f)
             \/ \E d \in Children(f) : \E k \in {"assemble_delays", "assemble_block"} : RunningTask(k, d)
      PROVE  /\ NoneRunning(ChildKinds \cup {"fini_node"}, {f})
             /\ NoneRunning({"activate_init_node", "assemble", "assemble_contrib"}, {Parent[f]})
  <2>1. ~ FrontDone(f)
    BY <1>5, MakersDone DEF NoneRunning
  <2> QED
    BY <2>1, UserDone DEF NoneRunning
<1>6. ASSUME NEW d \in Children(f), RunningTask("assemble_contrib_block", d)
      PROVE  NoneRunning({"assemble_block", "assemble_contrib_block", "fini_node"}, {f})
  BY <1>6, UseTurns DEF NoneRunning
<1>7. ASSUME RunningTask("fini_node", f)
      PROVE  /\ NoneRunning({"assemble_block", "assemble_contrib_block"}, {f})
             /\ NoneRunning({"assemble", "assemble_contrib"}, {Parent[f]})
  BY <1>7, UseTurns
<1>8. MakerKinds = {"factor_subtree", "activate_init_node"}
         \cup {"factor_front_indef_app", "update_contrib_block_app", "factor_front_indef_failed"}
  BY DEF MakerKinds
<1>9. \A k \in MakerKinds : RunningTask(k, f) => NoneRunning(ChildKinds, Children(f))
  BY <1>3, <1>4, <1>8
<1> HIDE DEF K
<1> QED
  BY <1>3, <1>4, <1>5, <1>6, <1>7, <1>9

(* The users of the data of a front are tasks of the front, of its children *)
(* or of its parent.                                                        *)
LEMMA UserIs ==
  ASSUME FlowInv, NEW t \in Task, status[t] = "running", NEW i, NEW f,
         WriterOf(t, i, f) \/ ReaderOf(t, i, f)
  PROVE  /\ RunningTask(t[1], t[2]) /\ t = <<t[1], t[2]>> /\ f \in Front
         /\ Parent[t[2]] = f /\ t[1] \in ChildKinds /\ WriterOf(t, i, f) /\ t[2] # f
              => t[2] \in Children(f) /\ f \notin Subtree
         /\ f \in Children(t[2]) => t[2] = Parent[f]
<1>1. t = <<t[1], t[2]>> /\ (t[1] # "fini_cnodes" => t[2] \in Front) /\ t[2] \in 1..Root
  BY TaskShape
<1>2. RunningTask(t[1], t[2])
  BY <1>1 DEF RunningTask
<1>3. ASSUME f \in Children(t[2]) PROVE f \in Front /\ Parent[f] = t[2]
  BY <1>1, <1>3, TreeFacts
<1>4. ASSUME t[2] = f PROVE f \in Front
  BY <1>1, <1>4 DEF WriterOf, ReaderOf
<1>5. ASSUME Parent[t[2]] = f, t[1] \in ChildKinds PROVE t[2] \in Children(f) /\ f \in Front \ Subtree
  <2>1. t[2] \in Front
    BY <1>1, <1>5 DEF ChildKinds
  <2>2. HasContrib(t[2])
    BY <1>2, <1>5, <2>1, ActivatedBeforeChild, FactorizedBeforePassed
       DEF ChildKinds, RunningTask, StartedTask, Started
  <2> QED
    BY <1>5, <2>1, <2>2, ParentSubmitters
<1> QED
  BY <1>1, <1>2, <1>3, <1>4, <1>5 DEF WriterOf, ReaderOf, ChildKinds

LEMMA RaceFree ==
  ASSUME FlowInv, Exclusive, PivotMethod = "app_block",
         NEW t \in Task, NEW u \in Task, t # u, status[t] = "running", status[u] = "running",
         NEW i, NEW f, WriterOf(t, i, f), WriterOf(u, i, f) \/ ReaderOf(u, i, f)
  PROVE  FALSE
<1> DEFINE k == t[1]
           c == t[2]
           l == u[1]
           e == u[2]
<1>0. /\ RunningTask(k, c) /\ t = <<k, c>> /\ f \in Front
      /\ RunningTask(l, e) /\ u = <<l, e>>
  BY UserIs
<1>1. \/ k \in MakerKinds /\ c = f
      \/ k = "fini_node" /\ c = f /\ i \in {"contrib", "size"}
      \/ k \in {"assemble_delays", "assemble_block"} /\ c \in Children(f) /\ f \notin Subtree
         /\ i = "lcol"
      \/ k = "assemble_contrib_block" /\ c \in Children(f) /\ f \notin Subtree /\ i = "contrib"
  <2>1. CASE c = f /\ k \in MakerKinds \cup {"fini_node"}
    BY <2>1 DEF WriterOf, MakerKinds
  <2>2. CASE ~ (c = f /\ k \in MakerKinds \cup {"fini_node"})
    <3>1. Parent[c] = f /\ k \in ChildKinds
      BY <2>2 DEF WriterOf, MakerKinds, ChildKinds
    <3>2. c # f
      BY <1>0, <3>1, TreeFacts, TaskShape DEF ChildKinds
    <3> QED
      BY <2>2, <3>1, <3>2, UserIs DEF WriterOf, ChildKinds, MakerKinds
  <2> QED
    BY <2>1, <2>2
<1>2. \/ l \in MakerKinds /\ e = f
      \/ l \in {"assemble", "factor_front_indef", "assemble_contrib"} /\ e = f /\ i = "size"
      \/ l = "fini_node" /\ e = f /\ i \in {"contrib", "size"}
      \/ l \in {"assemble_block", "assemble_contrib_block"} /\ e = f /\ i = "contrib"
      \/ l = "assemble_delays" /\ e = f /\ i # "contrib" /\ i # "size"
      \/ l \in {"assemble_delays", "assemble_block"} /\ e \in Children(f) /\ i = "lcol"
      \/ l = "assemble_contrib_block" /\ e \in Children(f) /\ i = "contrib"
      \/ l \in {"assemble", "assemble_contrib"} /\ e = Parent[f] /\ i # "contrib" /\ i # "lcol"
      \/ l = "activate_init_node" /\ e = Parent[f] /\ i = "ndelay_out"
  <2>1. CASE ReaderOf(u, i, f)
    BY <1>0, <2>1, UserIs DEF ReaderOf, MakerKinds
  <2>2. CASE WriterOf(u, i, f) /\ e = f
    <3>1. l \in MakerKinds \cup {"fini_node"} \/ Parent[e] = f
      BY <2>2 DEF WriterOf, MakerKinds
    <3>2. Parent[f] # f
      BY <1>0, TreeFacts
    <3> QED
      BY <2>2, <3>1, <3>2 DEF WriterOf
  <2>3. CASE WriterOf(u, i, f) /\ e # f
    BY <1>0, <2>3, UserIs DEF WriterOf, ChildKinds
  <2> QED
    BY <2>1, <2>2, <2>3
<1>3. MakerKinds \subseteq OwnKinds /\ {"assemble", "factor_front_indef", "assemble_contrib"} \subseteq OwnKinds
  BY DEF OwnKinds
<1> HIDE DEF k, c, l, e
<1>4. CASE k \in MakerKinds /\ c = f
  <2>1. NoneRunning(ChildKinds, Children(f))
        /\ NoneRunning(ChildKinds \cup {"fini_node"}, {f})
        /\ NoneRunning({"activate_init_node", "assemble", "assemble_contrib"}, {Parent[f]})
    BY <1>0, <1>3, <1>4, Turns
  <2>2. l \in OwnKinds /\ e = f
    BY <1>0, <1>2, <1>3, <2>1 DEF NoneRunning, ChildKinds
  <2>3. l # k
    BY <1>0, <1>4, <2>2
  <2>4. k \in {"factor_subtree", "activate_init_node"} => FALSE
    BY <1>0, <1>4, <2>2, <2>3, Turns DEF NoneRunning
  <2>5. k \in {"factor_front_indef_app", "update_contrib_block_app", "factor_front_indef_failed"}
          => l \notin MakerKinds
    BY <1>0, <1>4, <2>2, <2>3, Turns DEF NoneRunning
  <2>6. k \in {"factor_front_indef_app", "update_contrib_block_app", "factor_front_indef_failed"}
        /\ i = "size" /\ Parent[f] # f
    <3>1. Parent[f] # f
      BY <1>0, TreeFacts
    <3> QED
      BY <1>2, <1>4, <2>2, <2>4, <2>5, <3>1 DEF MakerKinds, OwnKinds
  <2>7. WriterOf(<<k, f>>, "size", f)
    BY <1>0, <1>4, <2>6
  <2> QED
    BY <2>6, <2>7 DEF WriterOf
<1>5. CASE k = "fini_node" /\ c = f
  <2>1. RunningTask("fini_node", f)
    BY <1>0, <1>5
  <2>2. /\ NoneRunning(OwnKinds, {f})
        /\ NoneRunning({"assemble_contrib_block"}, Children(f))
        /\ NoneRunning({"assemble_block", "assemble_contrib_block"}, {f})
        /\ NoneRunning({"assemble", "assemble_contrib"}, {Parent[f]})
    BY <1>0, <2>1, Turns DEF NoneRunning
  <2> QED
    BY <1>0, <1>1, <1>2, <1>3, <1>5, <2>2 DEF NoneRunning, MakerKinds
<1>6. CASE k \in {"assemble_delays", "assemble_block"} /\ c \in Children(f)
  <2>1. /\ NoneRunning(MakerKinds, {f})
        /\ NoneRunning(ChildKinds \cup {"fini_node"}, {f})
    BY <1>0, <1>6, Turns DEF NoneRunning, ChildKinds
  <2>2. i = "lcol" /\ f \in Front \ Subtree
    BY <1>0, <1>1, <1>6 DEF MakerKinds
  <2>3. l \in {"assemble_delays", "assemble_block"} /\ e \in Children(f)
    BY <1>0, <1>2, <2>1, <2>2 DEF NoneRunning, ChildKinds
  <2> QED
    BY <1>0, <1>6, <2>2, <2>3, SiblingsApart DEF ChildKinds
<1>7. CASE k = "assemble_contrib_block" /\ c \in Children(f)
  <2>1. /\ NoneRunning(MakerKinds, {f})
        /\ NoneRunning({"assemble_block", "assemble_contrib_block", "fini_node"}, {f})
    BY <1>0, <1>7, Turns DEF NoneRunning, ChildKinds
  <2>2. i = "contrib" /\ f \in Front \ Subtree
    BY <1>0, <1>1, <1>7 DEF MakerKinds
  <2>3. l = "assemble_contrib_block" /\ e \in Children(f)
    BY <1>0, <1>2, <2>1, <2>2 DEF NoneRunning
  <2> QED
    BY <1>0, <1>7, <2>2, <2>3, SiblingsApart DEF ChildKinds
<1> QED
  BY <1>1, <1>4, <1>5, <1>6, <1>7

(* Whatever handles the tasks hold, no two running ones touch the same      *)
(* memory of a front unless both read it: assemble and assemble_contrib     *)
(* read the sizes of children under handles their tasks share, fini_node    *)
(* frees tiles that other handles guard, and subtrees add to one tile in    *)
(* any order, but one at a time.                                            *)
THEOREM TreeNoDataRace ==
  ASSUME PivotMethod = "app_block"
  PROVE  Spec => []NoDataRace
<1>1. ASSUME FlowInv, Exclusive PROVE NoDataRace
  <2> SUFFICES ASSUME NEW t \in Running, NEW u \in Running, t # u,
                      NEW x \in Writes[t], x \in Reads[u] \cup Writes[u]
               PROVE  FALSE
    BY DEF NoDataRace
  <2>1. t \in Task /\ u \in Task /\ status[t] = "running" /\ status[u] = "running"
    BY DEF Running
  <2>2. PICK i, f : x = <<i, f>> /\ WriterOf(t, i, f)
    BY <2>1, WriterIs
  <2>3. CASE x \in Reads[u]
    BY <1>1, <2>1, <2>2, <2>3, ReaderIs, RaceFree
  <2>4. CASE x \in Writes[u]
    <3>1. PICK j, g : x = <<j, g>> /\ WriterOf(u, j, g)
      BY <2>1, <2>4, WriterIs
    <3>2. j = i /\ g = f
      BY <2>2, <3>1
    <3> QED
      BY <1>1, <2>1, <2>2, <3>1, <3>2, RaceFree
  <2> QED
    BY <2>3, <2>4
<1>2. Init => FlowInv /\ Exclusive
  BY FlowInit, InitExclusive
<1>3. FlowInv /\ Exclusive /\ [Next]_vars => FlowInv' /\ Exclusive'
  BY FlowStep, ExclusiveStep
<1> QED
  BY <1>1, <1>2, <1>3, PTL DEF Spec

-----------------------------------------------------------------------------
(* The blocks an assembly names, and those it writes.                       *)

LEMMA BlockOf ==
  ASSUME NEW B \in Nat \ {0}, NEW a \in Nat
  PROVE  a \div B \in Nat /\ B * (a \div B) <= a /\ a < B * (a \div B) + B
BY Z3

LEMMA DivMonotone ==
  ASSUME NEW B \in Nat \ {0}, NEW a \in Nat, NEW b \in Nat, a <= b
  PROVE  a \div B <= b \div B
BY Z3

LEMMA MaxOf ==
  ASSUME NEW a \in Nat, NEW b \in Nat, NEW r \in Nat, a <= r, b <= r
  PROVE  Max({a, b}) \in Nat /\ Max({a, b}) <= r
<1>1. \E x \in {a, b} : \A y \in {a, b} : x >= y
  <2>1. CASE a >= b
    BY <2>1
  <2>2. CASE b >= a
    BY <2>2
  <2> QED
    BY <2>1, <2>2
<1>2. Max({a, b}) \in {a, b}
  BY <1>1 DEF Max
<1> QED
  BY <1>2

LEMMA Rows ==
  ASSUME NEW c \in Front, HasContrib(c), NEW din \in Nat
  PROVE  /\ BlockSize \in Nat \ {0}
         /\ NCol[Parent[c]] \in Nat \ {0} /\ Len(Map[c]) \in Nat /\ Len(Map[Parent[c]]) \in Nat
         /\ ContribRows(c) \subseteq Nat
         /\ \A i \in ContribRows(c) :
              /\ cmap(c, din, i) \in Nat
              /\ cmap(c, din, i) < NCol[Parent[c]] + din + Len(Map[Parent[c]])
              /\ cmap(c, din, i) < NCol[Parent[c]] + din => cmap(c, din, i) < NCol[Parent[c]]
<1> DEFINE p == Parent[c]
<1>0. BlockSize \in Nat \ {0} /\ Map \in [Front -> Seq(Nat)]
  BY AssemblyBlocksAssumption
<1>1. p \in Front /\ NCol[p] \in Nat \ {0}
  BY TreeFacts, AssemblyTreeAssumption
<1>2. Len(Map[c]) \in Nat /\ Len(Map[p]) \in Nat
  BY <1>0, <1>1
<1>3. ASSUME NEW i \in ContribRows(c)
      PROVE  /\ i \in Nat /\ cmap(c, din, i) \in Nat
             /\ cmap(c, din, i) < NCol[p] + din + Len(Map[p])
             /\ cmap(c, din, i) < NCol[p] + din => cmap(c, din, i) < NCol[p]
  <2>1. i \in Nat /\ i + 1 \in 1..Len(Map[c])
    BY <1>2 DEF ContribRows
  <2>2. i + 1 \in DOMAIN Map[c] /\ Map[c][i + 1] \in Nat
    BY <1>0, <2>1
  <2> DEFINE r == Map[c][i + 1]
             N == NCol[p]
             L == Len(Map[p])
  <2>3. r < N + L
    BY <2>2, AssemblyBlocksAssumption
  <2>4. cmap(c, din, i) = IF r < N THEN r ELSE r + din
    BY DEF cmap
  <2>5. r \in Nat /\ N \in Nat /\ L \in Nat
    BY <1>1, <1>2, <2>2
  <2> HIDE DEF r, N, L
  <2>6. /\ cmap(c, din, i) \in Nat /\ cmap(c, din, i) < N + din + L
        /\ cmap(c, din, i) < N + din => cmap(c, din, i) < N
    BY <2>3, <2>4, <2>5
  <2> QED
    BY <2>1, <2>6 DEF N, L
<1> QED
  BY <1>0, <1>1, <1>2, <1>3

(* The columns that are skipped write no other blocks than one before them, *)
(* in the same block column: their rows in the tile are rows of that one.   *)
LEMMA TilesDeclared ==
  ASSUME NEW c \in Front, HasContrib(c), NEW din \in Nat, NEW first, NEW t,
         NEW cols, cols \subseteq ContribRows(c)
  PROVE  TileWritten(c, din, first, t, cols) \subseteq TileDeclared(c, din, first, t, cols)
<1> DEFINE BlockCol(j) == cmap(c, din, j) \div BlockSize
           Firsts == {j \in cols : \A k \in cols : k < j => BlockCol(k) # BlockCol(j)}
           RowsOf(j) == LowerRows(c, first, t, j)
<1> SUFFICES ASSUME NEW j \in cols, NEW i \in RowsOf(j)
             PROVE  \E j0 \in Firsts : i \in RowsOf(j0) /\ block_of(cmap(c, din, i), cmap(c, din, j0))
                                             = block_of(cmap(c, din, i), cmap(c, din, j))
  BY DEF TileWritten, TileDeclared
<1>0. cols \subseteq Nat /\ TileRows(c, first, t[1]) \subseteq Nat
  BY Rows DEF TileRows
<1> DEFINE Same == {k \in cols : BlockCol(k) = BlockCol(j)}
<1>1. PICK j0 \in Same : \A k \in Same : j0 <= k
  <2>1. Same \in SUBSET Nat /\ Same # {}
    BY <1>0
  <2> HIDE DEF Same
  <2> QED
    BY <2>1, Smallest
<1>2. j0 \in cols /\ BlockCol(j0) = BlockCol(j) /\ j0 <= j
  BY <1>1
<1>3. j0 \in Firsts
  BY <1>0, <1>1, <1>2
<1>4. i \in RowsOf(j0)
  BY <1>0, <1>2 DEF LowerRows
<1> QED
  BY <1>2, <1>3, <1>4 DEF block_of

LEMMA DelaysCovered ==
  ASSUME NEW c \in Front, HasContrib(c), NEW din \in Nat, NEW col \in Nat, NEW n \in Nat,
         NCol[Parent[c]] <= col, col + n <= NCol[Parent[c]] + din
  PROVE  DelaysWritten(c, din, col, n) \subseteq DelaysDeclared(c, din, col, n)
<1> DEFINE p == Parent[c]
           B == BlockSize
           N == NCol[p]
           L == Len(Map[p])
           sa == col \div B
           en == (col + n - 1) \div B
           last == (N + din + L - 1) \div B
           brEnd(cc) == IF (cc + 1) * B < col THEN en ELSE last
           Delayed == col..(col + n - 1)
           Mapped == {cmap(c, din, i) : i \in ContribRows(c)}
<1>0. /\ B \in Nat \ {0} /\ N \in Nat \ {0} /\ L \in Nat
      /\ N <= col /\ col + n <= N + din
      /\ \A r \in Mapped : r \in Nat /\ r < N + din + L /\ (r < N + din => r < N)
  BY Rows
<1> HIDE DEF Mapped, B, N, L
<1>1. last \in Nat /\ nr(p, din) - 1 = last
  <2>1. N + din + L - 1 \in Nat
    BY <1>0
  <2>2. last \in Nat
    BY <1>0, <2>1, BlockOf
  <2>3. nr(p, din) = last + 1
    BY DEF nr, last, B, N, L
  <2> QED
    BY <2>2, <2>3
<1> HIDE DEF last
<1>2. CASE n = 0
  <2>1. Delayed = {}
    BY <1>2
  <2> QED
    BY <2>1 DEF DelaysWritten
<1>3. CASE n # 0
  <2>1. \A x, y : block_of(x, y) = <<x \div B, y \div B>>
    BY DEF block_of, B
  <2>2. sa \in Nat /\ en \in Nat /\ last \in Nat /\ en <= last /\ B * sa <= col /\ col < B * sa + B
    <3>1. /\ col + n - 1 \in Nat /\ N + din + L - 1 \in Nat
          /\ col + n - 1 <= N + din + L - 1
      BY <1>0, <1>3
    <3> QED
      BY <1>0, <1>1, <3>1, BlockOf, DivMonotone DEF last
  <2>3. ASSUME NEW rr \in Nat, NEW cc \in 0..en, sa <= rr, cc <= rr, rr <= brEnd(cc)
        PROVE  <<rr, cc>> \in DelaysDeclared(c, din, col, n)
    <3>1. rr \in Max({sa, cc})..brEnd(cc)
      <4>1. cc \in Nat /\ brEnd(cc) \in Nat
        BY <2>2
      <4>2. Max({sa, cc}) \in Nat /\ Max({sa, cc}) <= rr
        BY <2>2, <2>3, <4>1, MaxOf
      <4> QED
        BY <2>3, <4>1, <4>2
    <3>2. <<rr, cc>> \in {<<r, cc>> : r \in Max({sa, cc})..brEnd(cc)}
      BY <3>1
    <3> DEFINE Declared(x) == {<<r, x>> : r \in Max({sa, x})..(IF (x + 1) * BlockSize < col
                                                               THEN en ELSE nr(Parent[c], din) - 1)}
    <3>3. <<rr, cc>> \in Declared(cc)
      <4>1. (IF (cc + 1) * BlockSize < col THEN en ELSE nr(Parent[c], din) - 1) = brEnd(cc)
        BY <1>1 DEF B
      <4> QED
        BY <3>2, <4>1
    <3>4. DelaysDeclared(c, din, col, n) = UNION {Declared(x) : x \in 0..en}
      BY DEF DelaysDeclared, B
    <3> HIDE DEF Declared
    <3> QED
      BY <2>3, <3>3, <3>4
  <2>4. ASSUME NEW d \in Delayed
        PROVE  d \in Nat /\ d \div B \in sa..en /\ d >= col
    <3>1. d \in Nat /\ col <= d /\ d <= col + n - 1 /\ col + n - 1 \in Nat
      BY <1>3, <2>4
    <3> QED
      BY <1>0, <2>2, <3>1, BlockOf, DivMonotone
  <2>5. \A cc \in 0..en : en <= brEnd(cc)
    BY <2>2
  <2>6. ASSUME NEW d \in Delayed, NEW e \in Delayed, d >= e
        PROVE  block_of(d, e) \in DelaysDeclared(c, din, col, n)
    <3>1. e \div B <= d \div B
      BY <1>0, <2>4, <2>6, DivMonotone
    <3> QED
      BY <2>1, <2>2, <2>3, <2>4, <2>5, <3>1
  <2>7. ASSUME NEW d \in Delayed, NEW r \in Mapped, r < N + din
        PROVE  block_of(d, r) \in DelaysDeclared(c, din, col, n)
    <3>1. r \in Nat /\ r <= d
      BY <1>0, <2>4, <2>7
    <3>2. r \div B \in Nat /\ r \div B <= d \div B
      BY <1>0, <2>4, <3>1, DivMonotone, BlockOf
    <3> QED
      BY <2>1, <2>2, <2>3, <2>4, <2>5, <3>2
  <2>8. ASSUME NEW d \in Delayed, NEW r \in Mapped, r >= N + din
        PROVE  block_of(r, d) \in DelaysDeclared(c, din, col, n)
    <3>1. r \in Nat /\ d <= r /\ r <= N + din + L - 1
      BY <1>0, <2>4, <2>8
    <3>2. r \div B \in Nat /\ d \div B <= r \div B
      BY <1>0, <2>4, <3>1, DivMonotone, BlockOf
    <3>3. r \div B <= last
      <4>1. N + din + L - 1 \in Nat
        BY <1>0
      <4> QED
        BY <1>0, <3>1, <4>1, DivMonotone DEF last
    <3>4. brEnd(d \div B) = last
      <4>1. d \div B \in Nat /\ sa <= d \div B
        BY <2>2, <2>4
      <4>2. B * sa <= B * (d \div B)
        BY <1>0, <2>2, <4>1
      <4>3. ~ ((d \div B + 1) * B < col)
        BY <1>0, <2>2, <4>1, <4>2
      <4> QED
        BY <4>3
    <3> QED
      BY <2>1, <2>2, <2>3, <2>4, <3>2, <3>3, <3>4
  <2> QED
    BY <2>6, <2>7, <2>8 DEF DelaysWritten, Mapped, N
<1> QED
  BY <1>2, <1>3

(* Whatever rows and delayed columns a child has, wherever the delayed      *)
(* columns of its parent move them, and for any block size: the loops that  *)
(* collect the handles of an assembly name every block its kernel writes.   *)
THEOREM TreeDestinationsDeclared == Spec => []DestinationsDeclared
<1>1. ASSUME IInv, Placed PROVE DestinationsDeclared
  <2> SUFFICES ASSUME NEW c \in Front, HasContrib(c), NEW din, din = ndelay_in[Parent[c]]
               PROVE  /\ status[<<"assemble_delays", c>>] = "running" =>
                           DelaysWritten(c, din, delay_col[c], ndelay_out[c])
                             \subseteq DelaysDeclared(c, din, delay_col[c], ndelay_out[c])
                      /\ \A first, t : \A cols \in {SummedColumns(c, din, first, t[2]),
                                                  ContribColumns(c, din, first, t[2])} :
                           TileWritten(c, din, first, t, cols)
                             \subseteq TileDeclared(c, din, first, t, cols)
    BY DEF DestinationsDeclared
  <2>1. Parent[c] \in Front /\ NCol[Parent[c]] \in Nat
    BY TreeFacts, AssemblyTreeAssumption
  <2>2. din \in Nat /\ delay_col[c] \in Nat /\ ndelay_out[c] \in Nat
    BY <1>1, <2>1 DEF IInv, DataInv, DataTypeOK
  <2>3. ASSUME status[<<"assemble_delays", c>>] = "running"
        PROVE  DelaysWritten(c, din, delay_col[c], ndelay_out[c])
                 \subseteq DelaysDeclared(c, din, delay_col[c], ndelay_out[c])
    <3>1. /\ delay_col[c] >= NCol[Parent[c]]
          /\ delay_col[c] + ndelay_out[c] <= NCol[Parent[c]] + din
      BY <1>1, <2>3, PlacedApart DEF DelaysPlacedApart, ncol
    <3> QED
      BY <2>1, <2>2, <3>1, DelaysCovered
  <2>4. ASSUME NEW first, NEW t, NEW cols \in {SummedColumns(c, din, first, t[2]),
                                              ContribColumns(c, din, first, t[2])}
        PROVE  TileWritten(c, din, first, t, cols) \subseteq TileDeclared(c, din, first, t, cols)
    <3>1. cols \subseteq ContribRows(c)
      BY DEF SummedColumns, ContribColumns, TileRows
    <3> QED
      BY <2>2, <3>1, TilesDeclared
  <2> QED
    BY <2>3, <2>4
<1> QED
  BY InitIInv, InitContributed, InitPlaced, StepIInv, PlacedKept, <1>1, PTL DEF Spec
=============================================================================
