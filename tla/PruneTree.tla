----------------------------- MODULE PruneTree -----------------------------
(***************************************************************************)
(* prune_tree: a layer of nodes is pushed down from the virtual root, the  *)
(* heaviest node replaced by its children, until the work below the layer  *)
(* is balanced over the workers; a child too light for the layer becomes a *)
(* subtree at once, the children of the last layer become the others. When *)
(* only light nodes are left the threshold is halved and all starts again. *)
(***************************************************************************)
EXTENDS AnalysedTree

CONSTANT
  Limit(_)       \* twice k * max(2, log2(k)^2) for k workers, rounded to an odd
                 \* number when the limit lies between two integers

VARIABLES
  lzero,         \* the nodes of the layer; lzero_w holds minus their weights
  leaves,        \* the first nodes of lzero, that cannot be replaced
  loc,           \* the worker each node of the layer is mapped to
  halvings       \* how often smallth has been halved

ASSUME LimitAssumption == \A in \in Inputs : Limit(in.nth + in.gpus[1]) \in Nat \ {0}

layerVars == <<lzero, leaves, loc, halvings>>

MaxHalvings == 6     \* 0.01 / 2^7 is below 1e-4

nregion == tree.nth + tree.gpus[1]
LayerLimit == Limit(nregion)
totflops == tree.weight[VRoot]

-----------------------------------------------------------------------------
(* Heapsort on the keys -weight, the layer permuted with them.              *)

key(a, i) == -tree.weight[a[i]]

SwapAt(a, i, j) == [a EXCEPT ![i] = a[j], ![j] = a[i]]

(* pushdown: from place insert on, the larger child percolates up as long   *)
(* as it exceeds the element at root, which then fills the place left free. *)
PushDown(root, last, array) ==
  LET test(i) == IF 2 * i < last /\ key(array, 2 * i + 1) > key(array, 2 * i)
                   THEN 2 * i + 1 ELSE 2 * i
      pushed[insert \in root..last] ==
        IF 2 * insert > last \/ key(array, test(insert)) <= key(array, root)
          THEN [array EXCEPT ![insert] = array[root]]
          ELSE [pushed[test(insert)] EXCEPT ![insert] = array[test(insert)]]
  IN  pushed[root]

(* Fault: the heap is never built.                                          *)
HeapUnbuilt(array) == array

Heap(array) ==
  Fold(LAMBDA a, k : PushDown(Len(array) \div 2 + 1 - k, Len(array), a),
           array, [k \in 1..(Len(array) \div 2) |-> k])

(* The head of the heap goes to the back, until all are placed. Equal       *)
(* weights may change places.                                               *)
sort(array) ==
  Fold(LAMBDA a, k : LET i == Len(array) + 1 - k IN
                         PushDown(1, i - 1, SwapAt(a, 1, i)),
           Heap(array), [k \in 1..(Len(array) - 1) |-> k])

-----------------------------------------------------------------------------
(* Each node of the layer goes to the least loaded worker, the first of     *)
(* them when several are.                                                   *)
Cost(p, node) ==
  IF p > tree.nth THEN tree.weight[node] \div tree.coeff ELSE tree.weight[node]

(* Fault: the most loaded worker.                                           *)
MostLoaded(proc_w) ==
  CHOOSE p \in DOMAIN proc_w :
    \A q \in DOMAIN proc_w : proc_w[p] > proc_w[q] \/ (proc_w[p] = proc_w[q] /\ p <= q)

LeastLoaded(proc_w) ==
  CHOOSE p \in DOMAIN proc_w :
    \A q \in DOMAIN proc_w : proc_w[p] < proc_w[q] \/ (proc_w[p] = proc_w[q] /\ p <= q)

MapNode(m, node) ==
  LET p == LeastLoaded(m.proc_w) IN
  [proc_w |-> [m.proc_w EXCEPT ![p] = @ + Cost(p, node)],
   loc    |-> [m.loc EXCEPT ![node] = p]]

Mapped(layer) ==
  Fold(MapNode, [proc_w |-> [p \in 1..nregion |-> 0], loc |-> loc], layer)

(* The least loaded worker has more than 0.8 of the work of the most.       *)
Balanced(proc_w) == LET loads == {proc_w[p] : p \in DOMAIN proc_w} IN
                    10 * Min(loads) > 8 * Max(loads)

Big(c) == tree.weight[c] * 100 * 2^halvings > totflops

(* A subtree rooted at c, its contribution for n, on worker p.              *)
Recorded(c, n, p) ==
  [sa |-> tree.least_desc[c], en |-> c, dest |-> IF n = VRoot THEN 0 ELSE n, loc |-> p]

(* The children cs of n become subtrees.                                    *)
RecordAll(cs, n, p) ==
  /\ small' = Fold(LAMBDA marks, c : Flag(marks, tree.least_desc[c], c), small, cs)
  /\ subtrees' = subtrees \o [k \in DOMAIN cs |-> Recorded(cs[k], n, p)]

-----------------------------------------------------------------------------
LayerInit ==
  /\ lzero = <<VRoot>>
  /\ leaves = 0
  /\ loc = [i \in 1..VRoot |-> nregion + 1]
  /\ halvings = 0

(* One turn of godown: sort, map, and stop when the layer is long enough    *)
(* or the work is balanced.                                                 *)
MapLayer ==
  /\ pc = "godown"
  /\ lzero' = sort(lzero)
  /\ LET m == Mapped(lzero')
         nlz == Len(lzero) IN
     /\ loc' = m.loc
     /\ pc' = IF 2 * nlz > LayerLimit \/ (Balanced(m.proc_w) /\ nlz >= nregion)
                THEN "rest" ELSE "findn"
  /\ UNCHANGED <<treeVars, leaves, halvings>>

totleaves == Cardinality({i \in 1..VRoot : tree.child[i] = <<>>})
AllLeaves == leaves = Len(lzero)

(* Nothing below the layer is left to be pushed down to.                    *)
Bottom ==
  /\ pc = "findn"
  /\ leaves = totleaves \/ (AllLeaves /\ (2 * Len(lzero) >= LayerLimit \/ halvings = MaxHalvings))
  /\ pc' = "rest"
  /\ UNCHANGED <<treeVars, layerVars>>

(* Fault: the threshold stays as it is.                                     *)
RestartSame ==
  /\ pc = "findn"
  /\ leaves # totleaves /\ AllLeaves
  /\ 2 * Len(lzero) < LayerLimit /\ halvings < MaxHalvings
  /\ pc' = "godown"
  /\ lzero' = <<VRoot>>
  /\ leaves' = 0
  /\ loc' = [i \in 1..VRoot |-> nregion + 1]
  /\ small' = [i \in Node |-> 0]
  /\ subtrees' = <<>>
  /\ UNCHANGED <<tree, halvings>>

(* goto 10: start again with half the threshold.                            *)
Restart ==
  /\ pc = "findn"
  /\ leaves # totleaves /\ AllLeaves
  /\ 2 * Len(lzero) < LayerLimit /\ halvings < MaxHalvings
  /\ halvings' = halvings + 1
  /\ pc' = "godown"
  /\ lzero' = <<VRoot>>
  /\ leaves' = 0
  /\ loc' = [i \in 1..VRoot |-> nregion + 1]
  /\ small' = [i \in Node |-> 0]
  /\ subtrees' = <<>>
  /\ UNCHANGED tree

(* Fault: the node stays in the layer above its big children.               *)
DescendKeeping ==
  /\ pc = "findn"
  /\ leaves # totleaves /\ ~AllLeaves
  /\ LET n    == lzero[leaves + 1]
         big  == InOrder({c \in ToSet(tree.child[n]) : Big(c)})
         rest == InOrder({c \in ToSet(tree.child[n]) : ~Big(c)}) IN
     /\ RecordAll(rest, n, 1)
     /\ leaves' = leaves + 1
     /\ lzero' = lzero \o big
     /\ pc' = IF big = <<>> THEN pc ELSE "godown"
  /\ UNCHANGED <<tree, loc, halvings>>

(* The heaviest node that is not known to be a leaf: its big children join  *)
(* the layer, the others become subtrees. With a big child it leaves the    *)
(* layer, and the last of the layer takes its place; without, it is a leaf. *)
Descend ==
  /\ pc = "findn"
  /\ leaves # totleaves /\ ~AllLeaves
  /\ LET n    == lzero[leaves + 1]
         big  == InOrder({c \in ToSet(tree.child[n]) : Big(c)})
         rest == InOrder({c \in ToSet(tree.child[n]) : ~Big(c)})
         longer == lzero \o big IN
     /\ RecordAll(rest, n, 1)
     /\ IF big = <<>>
          THEN /\ leaves' = leaves + 1
               /\ UNCHANGED <<pc, lzero>>
          ELSE /\ lzero' = Front([longer EXCEPT ![leaves + 1] = Last(longer)])
               /\ pc' = "godown"
               /\ UNCHANGED leaves
  /\ UNCHANGED <<tree, loc, halvings>>

(* Fault: the marks of the children are not looked at.                      *)
RecordBelowAgain(st, n) ==
  [small    |-> Fold(LAMBDA marks, c : Flag(marks, tree.least_desc[c], c), st.small, tree.child[n]),
   subtrees |-> st.subtrees \o [k \in DOMAIN tree.child[n] |-> Recorded(tree.child[n][k], n, loc[n])]]

(* The last layer: the children that are not marked become subtrees on the  *)
(* worker of their parent.                                                  *)
RecordBelow(st, n) ==
  Fold(LAMBDA s, c :
             IF s.small[c] # 0 THEN s
             ELSE [small    |-> Flag(s.small, tree.least_desc[c], c),
                   subtrees |-> Append(s.subtrees, Recorded(c, n, loc[n]))],
           st, tree.child[n])

RecordRest ==
  /\ pc = "rest"
  /\ LET end == Fold(RecordBelow, [small |-> small, subtrees |-> subtrees], lzero) IN
     /\ small' = end.small
     /\ subtrees' = end.subtrees
  /\ pc' = "done"
  /\ UNCHANGED <<tree, layerVars>>

PruneNext == MapLayer \/ Bottom \/ Restart \/ Descend \/ RecordRest
=============================================================================
