---------------------------- MODULE MCFrontalTree ----------------------------
(***************************************************************************)
(* A tree of four fronts: front 1 is a leaf, 2 a subtree, both children of *)
(* 3, whose parent 4 is a root.                                            *)
(***************************************************************************)
EXTENDS FrontalTree

MCParent   == <<3, 3, 4, 5>>
MCSubtree  == {2}
MCNCol     == <<1, 1, 1, 2>>
MCMaxDelay == <<1, 1, 2, 0>>
MCMap      == <<<<0, 1, 2>>, <<0, 2>>, <<0, 1>>, <<>>>>
=============================================================================
