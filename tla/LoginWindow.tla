---------------------------- MODULE LoginWindow -----------------------------
(***************************************************************************)
(* What the rate limiter promises: per address, a count of failures that   *)
(* starts with the first and is forgotten when the window that this        *)
(* failure opened is over, when an attempt of this address succeeds, and   *)
(* when the server goes down; never otherwise.  An attempt is served only  *)
(* while the count of its address is below the limit.                      *)
(***************************************************************************)
EXTENDS Naturals

CONSTANTS Addrs, Requests, Limit, Window, NoAddr

VARIABLES count, left,  \* failures that count; ticks they still count for
          from,         \* per slot: the address whose attempt is being served
          up            \* the server runs

Init == /\ count = [a \in Addrs |-> 0] /\ left = [a \in Addrs |-> 0]
        /\ from = [r \in Requests |-> NoAddr]
        /\ up = TRUE

Ask(r, a) ==
  /\ up /\ from[r] = NoAddr
  /\ count[a] < Limit
  /\ from' = [from EXCEPT ![r] = a]
  /\ UNCHANGED <<count, left, up>>

Over(r) == from[r] # NoAddr /\ from' = [from EXCEPT ![r] = NoAddr] /\ UNCHANGED up

Fail(r) ==
  /\ Over(r)
  /\ count' = [count EXCEPT ![from[r]] = @ + 1]
  /\ left' = IF count[from[r]] = 0 THEN [left EXCEPT ![from[r]] = Window] ELSE left

Succeed(r) ==
  /\ Over(r)
  /\ count' = [count EXCEPT ![from[r]] = 0]
  /\ left' = [left EXCEPT ![from[r]] = 0]

Leave(r) == Over(r) /\ UNCHANGED <<count, left>>

Tick == /\ count' = [a \in Addrs |-> IF left[a] = 0 THEN 0 ELSE count[a]]
        /\ left' = [a \in Addrs |-> IF left[a] = 0 THEN 0 ELSE left[a] - 1]
        /\ UNCHANGED <<from, up>>

Down == /\ up /\ up' = FALSE
        /\ count' = [a \in Addrs |-> 0] /\ left' = [a \in Addrs |-> 0]
        /\ from' = [r \in Requests |-> NoAddr]

Up == ~up /\ up' = TRUE /\ UNCHANGED <<count, left, from>>

Next == \/ \E r \in Requests : \/ Fail(r) \/ Succeed(r) \/ Leave(r)
                               \/ \E a \in Addrs : Ask(r, a)
        \/ Tick \/ Down \/ Up

Spec == Init /\ [][Next]_<<count, left, from, up>>
=============================================================================
