-------------------------- MODULE EliminationTree --------------------------
(***************************************************************************)
(* What the multifrontal factorization of an elimination tree promises,    *)
(* without its tasks: each front is activated, eliminates what it can, and *)
(* hands what is left to its parent, the columns it delays and the part of *)
(* its contribution that falls in the columns of the parent before the     *)
(* parent is factorized, the rest of its contribution afterwards.          *)
(*                                                                         *)
(* A definition marked "fault" is the next one with a mistake in it: it is *)
(* used by nothing here, and shows what a property catches.                *)
(***************************************************************************)
EXTENDS AssemblyTree

VARIABLES
  phase,         \* where each front is in its life
  ndelay,        \* the columns each front delays to its parent
  absorbed,      \* fronts whose parent's columns hold what they hand over
  passed         \* fronts whose contribution is in their parent's

vars == <<phase, ndelay, absorbed, passed>>

Phases == {"none", "active", "factored", "released"}

ncol(f) == NCol[f] + DelayedTo(ndelay, f)

Init ==
  /\ phase = [f \in Front |-> "none"]
  /\ ndelay = [f \in Front |-> 0]
  /\ absorbed = {}
  /\ passed = {}

FactorSubtree(f) ==
  /\ f \in Subtree
  /\ phase[f] = "none"
  /\ phase' = [phase EXCEPT ![f] = "factored"]
  /\ \E n \in 0..MaxDelay[f] : ndelay' = [ndelay EXCEPT ![f] = n]
  /\ UNCHANGED <<absorbed, passed>>

(* The number of columns is known once the children are factorized.         *)
Activate(f) ==
  /\ f \notin Subtree
  /\ phase[f] = "none"
  /\ \A c \in Children(f) : phase[c] = "factored"
  /\ phase' = [phase EXCEPT ![f] = "active"]
  /\ UNCHANGED <<ndelay, absorbed, passed>>

AbsorbIncomplete(c) ==                                         \* fault
  /\ HasContrib(c)
  /\ phase[c] = "factored" /\ phase[Parent[c]] = "active"
  /\ c \notin absorbed
  /\ absorbed' = absorbed \cup {c}
  /\ UNCHANGED <<phase, ndelay, passed>>

(* What a front hands over is complete: its own children's contributions    *)
(* are in it.                                                               *)
Absorb(c) ==
  /\ HasContrib(c)
  /\ phase[c] = "factored" /\ phase[Parent[c]] = "active"
  /\ Children(c) \subseteq passed
  /\ c \notin absorbed
  /\ absorbed' = absorbed \cup {c}
  /\ UNCHANGED <<phase, ndelay, passed>>

Factorize(f) ==
  /\ phase[f] = "active"
  /\ Children(f) \subseteq absorbed
  /\ phase' = [phase EXCEPT ![f] = "factored"]
  /\ \E n \in 0..ncol(f) : ndelay' = [ndelay EXCEPT ![f] = n]
  /\ UNCHANGED <<absorbed, passed>>

Pass(c) ==
  /\ HasContrib(c) /\ HasContrib(Parent[c])
  /\ phase[c] = "factored" /\ phase[Parent[c]] = "factored"
  /\ c \notin passed
  /\ passed' = passed \cup {c}
  /\ UNCHANGED <<phase, ndelay, absorbed>>

ReleaseEarly(c) ==                                             \* fault
  /\ c \notin Subtree
  /\ phase[c] = "factored"
  /\ HasContrib(c) => phase[Parent[c]] \in {"factored", "released"}
  /\ phase' = [phase EXCEPT ![c] = "released"]
  /\ UNCHANGED <<ndelay, absorbed, passed>>

(* The contribution of a front is freed once nothing needs it any more.     *)
Release(c) ==
  /\ c \notin Subtree
  /\ phase[c] = "factored"
  /\ HasContrib(c) =>
       /\ phase[Parent[c]] \in {"factored", "released"}
       /\ HasContrib(Parent[c]) => c \in passed
  /\ phase' = [phase EXCEPT ![c] = "released"]
  /\ UNCHANGED <<ndelay, absorbed, passed>>

Next ==
  \E f \in Front :
    \/ FactorSubtree(f) \/ Activate(f) \/ Absorb(f)
    \/ Factorize(f) \/ Pass(f) \/ Release(f)

Spec == Init /\ [][Next]_vars

-----------------------------------------------------------------------------
Factored(f) == phase[f] \in {"factored", "released"}

TypeOK ==
  /\ phase \in [Front -> Phases]
  /\ absorbed \subseteq Front /\ passed \subseteq Front

(* A factorized front holds what every child hands over, and each of these  *)
(* was complete: it held what its own children passed on.                   *)
NothingLost ==
  \A f \in Front \ Subtree :
    Factored(f) => \A c \in Children(f) : c \in absorbed /\ Children(c) \subseteq passed

(* A contribution block is freed only once all of it is in the parent.      *)
HandedOver ==
  \A c \in Front :
    phase[c] = "released" /\ HasContrib(c)
    => c \in absorbed /\ (HasContrib(Parent[c]) => c \in passed)
=============================================================================
