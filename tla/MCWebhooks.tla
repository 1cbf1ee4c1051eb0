----------------------------- MODULE MCWebhooks -----------------------------
(* Webhooks on a small instance: who owns which hook and what it asks for. *)
EXTENDS Webhooks, TLC

CONSTANTS h1, h2, u1, u2, completed

OwnerOf == (h1 :> u1) @@ (h2 :> u2)
SubsOf == (h1 :> {completed, Digest}) @@ (h2 :> {Digest})

(* Bound: the second month is met only with the hooks of the first one and *)
(* by a process that has sent no other event.                              *)
Few == Month(now) >= 2 => gone = {} /\ fired = {}
=============================================================================
