---------------------------- MODULE MCBrainRouter -----------------------------
(* Instances of BrainRouter for TLC. *)
EXTENDS BrainRouter, TLC

CONSTANTS c1, c2, c3

\* The slots are interchangeable.
SlotSymmetry == Permutations(Callers)
=============================================================================
