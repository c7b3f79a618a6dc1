----------------------- MODULE EliminationTree_proofs -----------------------
(***************************************************************************)
(* Nothing is lost on the way from the leaves to the roots, whatever the   *)
(* tree.                                                                   *)
(***************************************************************************)
EXTENDS EliminationTree, TLAPS

(* What has been absorbed was complete when it was.                         *)
AbsorbedComplete == \A c \in absorbed : Children(c) \subseteq passed

IInv == TypeOK /\ AbsorbedComplete /\ NothingLost /\ HandedOver

(* A front that is not a root has a parent that is no subtree.              *)
LEMMA ParentIsFront ==
  ASSUME NEW c \in Front, HasContrib(c)
  PROVE  Parent[c] \in Front \ Subtree
<1>1. NFront \in Nat /\ Parent[c] \in 2..Root /\ Parent[c] \notin Subtree
  BY AssemblyTreeAssumption
<1>2. Parent[c] # Root
  BY DEF HasContrib
<1> QED
  BY <1>1, <1>2 DEF Front, Root

(* A front is a child of its parent.                                        *)
LEMMA ChildOfParent ==
  ASSUME NEW c \in Front
  PROVE  c \in Children(Parent[c])
<1>1. Parent[c] \in 1..Root
  BY AssemblyTreeAssumption DEF Root
<1> QED
  BY <1>1 DEF Children, ChildrenOf

(* Before anything is factorized nothing can be missing.                    *)
LEMMA InitIInv == Init => IInv
BY DEF Init, IInv, TypeOK, Phases, AbsorbedComplete, NothingLost, HandedOver, Factored

(* Each operation keeps IInv.  What is absorbed or passed stays so; a front *)
(* only becomes factorized with its children absorbed, and released with    *)
(* its contribution passed.                                                 *)
LEMMA StepIInv == IInv /\ [Next]_vars => IInv'
<1> SUFFICES ASSUME IInv, [Next]_vars PROVE IInv'
  OBVIOUS
<1> USE AssemblyTreeAssumption
<1> USE DEF IInv, TypeOK, Phases, AbsorbedComplete, NothingLost, HandedOver, Factored
<1>1. ASSUME NEW f \in Front, FactorSubtree(f) PROVE IInv'
  <2>1. TypeOK'
    BY <1>1 DEF FactorSubtree
  <2>2. NothingLost'
    BY <1>1 DEF FactorSubtree
  <2> QED
    BY <1>1, <2>1, <2>2 DEF FactorSubtree
<1>2. ASSUME NEW f \in Front, Activate(f) PROVE IInv'
  BY <1>2 DEF Activate
<1>3. ASSUME NEW f \in Front, Absorb(f) PROVE IInv'
  BY <1>3 DEF Absorb
<1>4. ASSUME NEW f \in Front, Factorize(f) PROVE IInv'
  <2>1. TypeOK'
    BY <1>4 DEF Factorize
  <2>2. NothingLost'
    BY <1>4 DEF Factorize
  <2> QED
    BY <1>4, <2>1, <2>2 DEF Factorize
<1>5. ASSUME NEW f \in Front, Pass(f) PROVE IInv'
  BY <1>5 DEF Pass
<1>6. ASSUME NEW f \in Front, Release(f) PROVE IInv'
  <2>1. TypeOK' /\ AbsorbedComplete' /\ NothingLost'
    BY <1>6 DEF Release
  <2>2. ASSUME HasContrib(f) PROVE f \in absorbed /\ (HasContrib(Parent[f]) => f \in passed)
    <3>1. Parent[f] \in Front \ Subtree
      BY <2>2, ParentIsFront
    <3>2. f \in absorbed
      BY <1>6, <2>2, <3>1, ChildOfParent DEF Release
    <3> QED
      BY <1>6, <2>2, <3>2 DEF Release
  <2>3. HandedOver'
    BY <1>6, <2>2 DEF Release, HasContrib
  <2> QED
    BY <2>1, <2>3
<1>7. CASE UNCHANGED vars
  BY <1>7 DEF vars
<1> QED
  BY <1>1, <1>2, <1>3, <1>4, <1>5, <1>6, <1>7 DEF Next

(* A factorized front holds all that its children hand over, complete with  *)
(* what the children of these passed on, and so on down to the leaves: the  *)
(* hand-over of factor_mf_indef loses nothing, for every elimination tree.  *)
THEOREM TreeLosesNothing == Spec => []NothingLost
<1>1. IInv => NothingLost
  BY DEF IInv
<1> QED
  BY InitIInv, StepIInv, <1>1, PTL DEF Spec

(* The contribution block of a front is freed only once all of it is in the *)
(* parent (fini_cnodes), for every elimination tree.                        *)
THEOREM TreeHandsOver == Spec => []HandedOver
<1>1. IInv => HandedOver
  BY DEF IInv
<1> QED
  BY InitIInv, StepIInv, <1>1, PTL DEF Spec
=============================================================================
