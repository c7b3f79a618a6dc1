-------------------------- MODULE SubtreePartition --------------------------
(***************************************************************************)
(* find_subtree_partition: the postorder is cut into parts, contiguous     *)
(* ranges of nodes. At first each tree of the forest is a part; the        *)
(* biggest part that nothing contributes to is split into the subtrees of  *)
(* its root until the work is balanced over the NUMA regions and the gpus. *)
(* Adjacent parts are then merged where this adds no second contribution.  *)
(***************************************************************************)
EXTENDS AnalysedTree

VARIABLES
  parts,         \* the parts in postorder: their range, whether they are
                 \* subtrees, and exec_loc, -1 for what is above them
  size_order,    \* the parts, meant to be in decreasing order of work
  rounds         \* turns of the splitting loop that are left

partVars == <<parts, size_order, rounds>>

regions  == Len(tree.gpus)
SumSeq(s) == Fold(LAMBDA a, b : a + b, 0, s)
ngpu     == SumSeq(tree.gpus)
PartSet  == DOMAIN parts
flops(part) == tree.weight[part.en]

NewPart(sa, en, child) == [sa |-> sa, en |-> en, is_child |-> child, loc |-> -1]

-----------------------------------------------------------------------------
(* create_size_order: part i is inserted before the first place j whose     *)
(* part has less work; the code compares with part j, not with the part     *)
(* that is at place j.                                                      *)
create_size_order(ps) ==
  Fold(LAMBDA order, i :
             LET lighter == {j \in 1..(i - 1) : flops(ps[i]) > flops(ps[j])} IN
             InsertAt(order, Min(lighter \cup {i}), i),
           <<>>, [i \in DOMAIN ps |-> i])

(* The workers in decreasing order of power: gpu p of region i is           *)
(* p * regions + i, the cores of region i are i.                            *)
GpusOf(i)   == [p \in 1..tree.gpus[i] |-> p * regions + i]
Gpus        == Fold(LAMBDA s, i : s \o GpusOf(i), <<>>, [i \in 1..regions |-> i])
Cores       == [i \in 1..regions |-> i]
workers     == IF tree.coeff > 1 THEN Gpus \o Cores ELSE Cores \o Gpus

(* Round robin over the workers in the order of the parts; a part with      *)
(* little work passes over the gpus.                                        *)
NextCore(next) ==
  LET at(k) == ((next + k - 1) % Len(workers)) + 1 IN
  at(Min({k \in 0..(Len(workers) - 1) : workers[at(k)] <= regions}))

AllocPart(ps, st, p) ==
  IF ~ps[p].is_child THEN st
  ELSE LET w == IF flops(ps[p]) < tree.min_gpu_work THEN NextCore(st.next) ELSE st.next
       IN  [next |-> (w % Len(workers)) + 1,
            loc  |-> [st.loc EXCEPT ![p] = workers[w]]]

exec_alloc(ps, order) ==
  LET Alloc(st, p) == AllocPart(ps, st, p)
      none == [next |-> 1, loc |-> [p \in DOMAIN ps |-> -1]]
  IN  Fold(Alloc, none, order).loc

(* The time a part takes on its worker, in units of 1/coeff of a core's.    *)
Time(part, l) == IF l > regions THEN flops(part) ELSE flops(part) * tree.coeff

LoadOf(ps, loc, l) ==
  MapThenSumSet(LAMBDA p : Time(ps[p], l), {p \in DOMAIN ps : loc[p] = l})

(* (regions + gpus) * max / total is below max_load_inbalance, in percent.  *)
WellBalanced(ps, order) ==
  LET power == workers IN
  \E loc \in {exec_alloc(ps, order)} : \E load \in {[k \in DOMAIN power |-> LoadOf(ps, loc, power[k])]} :
    (regions + ngpu) * Max(ToSet(load)) * 100 < tree.max_inbalance * SumSeq(load)

-----------------------------------------------------------------------------
(* split_tree. The part that is split: the first of size_order that is a    *)
(* subtree.                                                                 *)
ToSplit == size_order[Min({i \in PartSet : parts[size_order[i]].is_child})]

(* The subtrees found to be worth a gpu before the first that is not; the   *)
(* scan starts at place ToSplit + 1 of size_order.                          *)
OthersBig ==
  LET scanned == {i \in (ToSplit + 1)..Len(parts) : parts[size_order[i]].is_child}
      Big(i) == flops(parts[size_order[i]]) >= tree.min_gpu_work IN
  Cardinality({i \in scanned : \A j \in scanned : j <= i => Big(j)})

SplitSafe(children) ==
  LET new == {c \in ToSet(children) : tree.weight[c] >= tree.min_gpu_work} IN
  OthersBig + 1 >= ngpu => OthersBig + Cardinality(new) >= ngpu

(* Fault: the root stays with the subtree of its last child.                *)
SplitPartShort(part, children) ==
  LET starts == <<part.sa>> \o [k \in DOMAIN children |-> children[k] + 1] IN
  [k \in DOMAIN children |->
     NewPart(starts[k], IF k = Len(children) THEN part.en ELSE children[k], TRUE)]

(* The subtrees of the root of the part, then the root alone.               *)
SplitPart(part, children) ==
  LET starts == <<part.sa>> \o [k \in DOMAIN children |-> children[k] + 1] IN
  [k \in DOMAIN children |-> NewPart(starts[k], children[k], TRUE)]
    \o <<NewPart(Last(starts), part.en, FALSE)>>

split_tree ==
  LET t        == ToSplit
      children == tree.child[parts[t].en] IN
  IF children = <<>> \/ ~SplitSafe(children) THEN parts
  ELSE SubSeq(parts, 1, t - 1) \o SplitPart(parts[t], children)
         \o SubSeq(parts, t + 1, Len(parts))

-----------------------------------------------------------------------------
(* Each tree of the forest is a part.                                       *)
FirstParts ==
  LET roots == tree.child[VRoot] IN
  [k \in DOMAIN roots |-> NewPart(tree.least_desc[roots[k]], roots[k], TRUE)]

PartInit ==
  /\ parts = FirstParts
  /\ size_order = create_size_order(FirstParts)
  /\ rounds = 2 * (regions + ngpu)

Accept ==
  /\ pc = "split"
  /\ WellBalanced(parts, size_order)
  /\ pc' = "consolidate"
  /\ UNCHANGED <<treeVars, partVars>>

Split ==
  /\ pc = "split"
  /\ ~WellBalanced(parts, size_order)
  /\ \E ps \in {split_tree} :
       /\ parts' = ps
       /\ size_order' = create_size_order(ps)
  /\ rounds' = rounds - 1
  /\ pc' = IF rounds = 1 THEN "consolidate" ELSE "split"
  /\ UNCHANGED treeVars

(* Append a part, or let the last part end where it ends.                   *)
Extend(ps, part) == [ps EXCEPT ![Len(ps)].en = part.en]

(* Adjacent parts that are not subtrees become one, and the workers are     *)
(* chosen.                                                                  *)
Consolidated ==
  Fold(LAMBDA ps, part :
             IF part.is_child \/ Last(ps).is_child THEN Append(ps, part) ELSE Extend(ps, part),
           <<Head(parts)>>, Tail(parts))

Consolidate ==
  /\ pc = "consolidate"
  /\ \E ps \in {Consolidated} : \E order \in {create_size_order(ps)} :
     \E exec_loc \in {exec_alloc(ps, order)} :
       /\ parts' = [p \in DOMAIN ps |-> [ps[p] EXCEPT !.loc = exec_loc[p]]]
       /\ size_order' = order
  /\ pc' = "merge"
  /\ UNCHANGED <<treeVars, rounds>>

(* Adjacent parts on one worker become one, as long as at most one of the   *)
(* roots they end with has a parent.                                        *)
HasParent(part) == parent(part.en) <= tree.n

(* Fault: contributions are not counted.                                    *)
MergePartAny(m, part) ==
  IF part.loc # Last(m.ps).loc
    THEN [ps |-> Append(m.ps, part), has_parent |-> HasParent(part)]
    ELSE [ps |-> Extend(m.ps, part), has_parent |-> m.has_parent \/ HasParent(part)]

MergePart(m, part) ==
  IF part.loc # Last(m.ps).loc \/ (m.has_parent /\ HasParent(part))
    THEN [ps |-> Append(m.ps, part), has_parent |-> HasParent(part)]
    ELSE [ps |-> Extend(m.ps, part), has_parent |-> m.has_parent \/ HasParent(part)]

Merge ==
  /\ pc = "merge"
  /\ parts' = Fold(MergePart, [ps |-> <<Head(parts)>>, has_parent |-> HasParent(Head(parts))],
                       Tail(parts)).ps
  /\ pc' = "collect"
  /\ UNCHANGED <<treeVars, size_order, rounds>>

(* contrib_dest lists the nodes parts contribute to, those of the first     *)
(* part that receives any first.                                            *)
contrib_dest ==
  LET senders == SelectSeq(SubSeq(parts, 1, Len(parts) - 1), HasParent)
      Into(part) == SelectSeq(senders, LAMBDA p : parent(p.en) \in part.sa..part.en)
      all == Fold(LAMBDA s, part : s \o Into(part), <<>>, parts)
  IN  [p \in PartSet |-> IF p <= Len(all) THEN parent(all[p].en) ELSE 0]

(* analyse_core: the parts that have a worker are the subtrees, and their   *)
(* nodes are marked.                                                        *)
Collect ==
  /\ pc = "collect"
  /\ \E given \in {InOrder({p \in PartSet : parts[p].loc # -1})} :
     \E chosen \in {[s \in DOMAIN given |-> parts[given[s]]]} :
     /\ subtrees' = [s \in DOMAIN chosen |->
                       [sa |-> chosen[s].sa, en |-> chosen[s].en,
                        dest |-> contrib_dest[s], loc |-> chosen[s].loc]]
     /\ small' = Fold(LAMBDA marks, part : Flag(marks, part.sa, part.en), small, chosen)
  /\ pc' = "done"
  /\ UNCHANGED <<tree, partVars>>

PartNext == Accept \/ Split \/ Consolidate \/ Merge \/ Collect
=============================================================================
