---------------------------- MODULE MCLocalQueue ----------------------------
(* LocalQueue for TLC.  Jobs are interchangeable, and so are slots. *)
EXTENDS LocalQueue, TLC

Symmetry == Permutations(Job) \cup Permutations(Slot)
=============================================================================
