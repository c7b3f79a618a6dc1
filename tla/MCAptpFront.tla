---------------------------- MODULE MCAptpFront ----------------------------
(* Instances of AptpFront for TLC.                                          *)
EXTENDS AptpFront
=============================================================================
