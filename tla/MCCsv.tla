------------------------------- MODULE MCCsv --------------------------------
(* Csv, and with it Schedule, on a small instance. *)
EXTENDS Csv

CONSTANTS rent, gym

Shape(l, s, e, i) == [label |-> l, start |-> s, end |-> e, interval |-> i]

(* Every start and end date meets every interval; a task of the second    *)
(* month may end before it begins.                                         *)
SomeShapes == {Shape(rent, s, e, i) : s \in {NoMonth, 1}, e \in {NoMonth, 1}, i \in {1, 2}}
              \cup {Shape(gym, NoMonth, NoMonth, 1)}

(* A file of two lines in the wrong order, and one that names a month twice. *)
TwoFiles == {<<[label |-> rent, month |-> 2, status |-> "completed"],
               [label |-> rent, month |-> 1, status |-> "skipped"]>>,
             <<[label |-> gym, month |-> 1, status |-> "completed"],
               [label |-> gym, month |-> 1, status |-> "skipped"]>>}

MarkedMonths == {p \in Tasks \X Months : row[p[1]][p[2]] # NoRow}
Special == {t \in Existing : \/ task[t].end # NoMonth \/ task[t].interval # 1 \/ task[t].archived
                             \/ \E u \in Users : <<t, u>> \in shared}

(* Bounds: how many months have a row; tasks that are shared, archived,    *)
(* ended or not monthly, and the end of the first month, are met only      *)
(* while there are no rows and no file.                                    *)
Few == /\ Cardinality(MarkedMonths) <= 2
       /\ MarkedMonths # {} \/ file # <<>> => Special = {} /\ now = FirstMonth

Interchangeable == Permutations(Tasks) \cup Permutations(Users)
=============================================================================
