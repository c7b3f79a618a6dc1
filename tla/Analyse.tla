------------------------------ MODULE Analyse ------------------------------
(***************************************************************************)
(* analyse_core chooses the subtrees with find_subtree_partition in a      *)
(* build with OpenMP and with prune_tree otherwise, and the factorization  *)
(* trusts what comes out: the marks decide which fronts the tree tasks     *)
(* leave alone, the list which subtrees are factorized at once.            *)
(***************************************************************************)
EXTENDS PruneTree, SubtreePartition

vars == <<tree, pc, small, subtrees, lzero, leaves, loc, halvings,
          parts, size_order, rounds>>

Init ==
  /\ TreeInit
  /\ LayerInit
  /\ PartInit
  /\ pc = IF tree.omp THEN "split" ELSE "godown"

Done == pc = "done"

Next == \/ PruneNext /\ UNCHANGED partVars
        \/ PartNext /\ UNCHANGED layerVars

-----------------------------------------------------------------------------
(* Every front is above the subtrees, and left to the tasks of the tree, or *)
(* in exactly one subtree of the list, whose factorization takes it.        *)
FrontsOnce ==
  \A i \in Node : Cardinality(Holding(i)) = IF small[i] = 0 THEN 0 ELSE 1

(* What the code says of its subtrees, "make sure this node has not been    *)
(* marked already": no subtree is recorded twice.                           *)
MarkedOnce == Done => \A s, t \in DOMAIN subtrees : s # t => subtrees[s].en # subtrees[t].en

(* Nothing is factorized twice or left out: with prune_tree as long as no   *)
(* two nodes apart have the same work below them, since the sort does not   *)
(* keep the order of equal weights; with find_subtree_partition always.     *)
EachFrontOnce == Done /\ (tree.omp \/ ~Tied) => FrontsOnce

(* What is below a node of a subtree is in the same subtree, so that the    *)
(* subtrees can be factorized before, and apart from, everything else; and  *)
(* the marks name the root of the subtree.                                  *)
SubtreesClosed ==
  Done => \A s \in DOMAIN subtrees : \A i \in InSubtree(s) :
            /\ Below(i) \subseteq InSubtree(s)
            /\ small[i] = IF i = subtrees[s].en THEN 1 ELSE -subtrees[s].en

(* A subtree hands one contribution block over, that of its last node: no   *)
(* other node of it has its parent elsewhere, also when several trees were  *)
(* merged into it.                                                          *)
OneContribution ==
  Done => \A s \in DOMAIN subtrees : \A i \in InSubtree(s) :
            parent(i) \in InSubtree(s) \cup {VRoot} \/ i = subtrees[s].en

(* The layer cuts the tree: no node of it is above another, and what is not *)
(* already in a subtree is above, in or below it.                           *)
LayerIsCut ==
  ~tree.omp =>
    /\ \A k, l \in DOMAIN lzero : k # l => lzero[k] \notin Below(lzero[l])
    /\ \A i \in Node :
         small[i] = 0 => \E k \in DOMAIN lzero : i \in Below(lzero[k]) \/ lzero[k] \in Below(i)

(* The heapsort puts the heaviest nodes of the layer first, and the greedy  *)
(* mapping leaves the workers apart by no more than the heaviest of them.   *)
WorkSpread ==
  pc = "findn" =>
    LET proc_w == Mapped(lzero).proc_w IN
    /\ \A k \in 2..Len(lzero) : tree.weight[lzero[k]] <= tree.weight[lzero[k - 1]]
    /\ \A p, q \in DOMAIN proc_w : proc_w[p] <= proc_w[q] + tree.weight[lzero[1]]

(* Until they are merged the parts are whole: they follow one another over  *)
(* all the nodes, and a part that can be given to one worker has everything *)
(* below its last node and nothing else.                                    *)
PartsWhole ==
  /\ parts[1].sa = 1 /\ Last(parts).en = tree.n
  /\ \A p \in 2..Len(parts) : parts[p].sa = parts[p - 1].en + 1
  /\ pc \in {"split", "consolidate", "merge"} =>
       \A p \in PartSet : parts[p].is_child => parts[p].sa..parts[p].en = Below(parts[p].en)
=============================================================================
