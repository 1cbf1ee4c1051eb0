------------------------------ MODULE MCSignOn ------------------------------
(* SignOn on a small instance. *)
EXTENDS SignOn, TLC

Interchangeable == Permutations(Addrs) \cup Permutations(Requests)
                   \cup Permutations(Flows) \cup Permutations(People)
=============================================================================
