-------------------------- MODULE MCBuddyAllocator --------------------------
(* Instances of BuddyAllocator for TLC.                                     *)
EXTENDS BuddyAllocator
=============================================================================
