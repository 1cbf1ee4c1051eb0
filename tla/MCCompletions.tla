---------------------------- MODULE MCCompletions ----------------------------
(* Instances of Completions for TLC. *)
EXTENDS Completions, TLC

CONSTANTS alice, bob, t1, m1, m2

MCOwner == (t1 :> alice)
Slots == Permutations(Requests)
Symmetry == Permutations(Requests) \cup Permutations(Files) \cup Permutations(Months)
=============================================================================
