---------------------------- MODULE MCPosdefTree ----------------------------
(***************************************************************************)
(* Two small trees.  In the first, front 4 has a front and two subtrees as *)
(* children, each with coefficients for its fully summed columns, for its  *)
(* contribution, and for both; front 1 has a diagonal block that goes on   *)
(* into its contribution.  In the second, the last of two block columns    *)
(* does so.                                                                *)
(***************************************************************************)
EXTENDS PosdefTree, Sequences

(* A map given by its values. *)
Listed(s) == [i \in 0..(Len(s) - 1) |-> s[i + 1]]

MCParent == <<4, 4, 4, 5, 6>>
MCNRow == <<4, 5, 2, 5, 1>>
MCNCol == <<1, 2, 1, 4, 1>>
MCMap == <<Listed(<<1, 3, 4>>), Listed(<<0, 2, 4>>), Listed(<<4>>), Listed(<<0>>), Listed(<<>>)>>

NarrowParent == <<2, 3>>
NarrowNRow == <<5, 2>>
NarrowNCol == <<3, 2>>
NarrowMap == <<Listed(<<0, 1>>), Listed(<<>>)>>

(* The kernels stay in the memory of the fronts. *)
ASSUME FootprintAssumption ==
  /\ Writes \in [PTask -> SUBSET Memory]
  /\ Reads \in [PTask -> SUBSET Memory]
  /\ Summed \in [Eliminations -> SUBSET PTask]
  /\ Formed \in [DOMAIN Formed -> SUBSET PTask]
=============================================================================
