----------------------------- MODULE MCAccounts -----------------------------
(* Accounts on small instances. *)
EXTENDS Accounts, TLC

CONSTANTS r1, r2

Everything == (r1 :> AllOps) @@ (r2 :> AllOps)
(* What the user management and the sign-ons serve, apart. *)
Deletions == (r1 :> {"setup", "create", "delete"}) @@ (r2 :> {"delete"})
SignOns == (r1 :> {"setup", "sso"}) @@ (r2 :> {"sso"})

Identities == Permutations(Subjects) \cup Permutations(Emails)
=============================================================================
