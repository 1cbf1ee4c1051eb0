------------------------------ MODULE MCTools -------------------------------
(* Tools, and with it Report and Amounts, on small instances.              *)
EXTENDS Tools, TLC

CONSTANTS ten, t2

OneField == {[amount |-> a, title |-> Absent] : a \in {ten, Empty}}
            \cup {[amount |-> Absent, title |-> t2]}

Interchangeable == Permutations(Months) \cup Permutations(Requests)

(* Bound: no report is read while a tool is at work; the requests of the   *)
(* tools are requests like others, which the report does meet.             *)
Apart == reading => \A a \in Agents : tool[a].pc = "idle"
=============================================================================
