-------------------------- MODULE AuditQueueProofs --------------------------
(***************************************************************************)
(* Proofs about AuditQueue, for every set of handlers and every capacity.  *)
(***************************************************************************)
EXTENDS AuditQueue, SequenceTheorems, TLAPS

Entry == 1..MaxEntries

LEMMA TypeStep == TypeOK /\ [Next]_vars => TypeOK'
<1> SUFFICES ASSUME TypeOK, [Next]_vars PROVE TypeOK'
  OBVIOUS
<1> USE BoundsAssumption DEF TypeOK
<1>1. ASSUME NEW h \in Handlers, Change(h) PROVE TypeOK'
  BY <1>1 DEF Change
<1>2. ASSUME NEW h \in Handlers, Enqueue(h) PROVE TypeOK'
  <2>1. offer[h] \in 1..MaxEntries /\ Len(entries) \in Nat
    BY <1>2 DEF Enqueue
  <2>2. /\ Append(entries, offer[h]) \in Seq(1..MaxEntries)
        /\ Len(Append(entries, offer[h])) = Len(entries) + 1
        /\ Append(accepted, offer[h]) \in Seq(1..MaxEntries)
    BY <2>1, AppendProperties
  <2>3. changes' = changes /\ current' = current /\ log' = log /\ offer' \in [Handlers -> 0..MaxEntries]
    BY <1>2, BoundsAssumption DEF Enqueue
  <2>4. entries' \in Seq(1..MaxEntries) /\ accepted' \in Seq(1..MaxEntries)
    BY <1>2, <2>2 DEF Enqueue
  <2>5. Len(entries') <= Capacity /\ lost' \subseteq 1..MaxEntries
    <3>1. CASE Len(entries) < Capacity
      <4>1. entries' = Append(entries, offer[h]) /\ lost' = lost
        BY <1>2, <2>1, <3>1 DEF Enqueue
      <4>2. Len(entries') = Len(entries) + 1
        BY <2>2, <4>1
      <4> QED
        BY <2>1, <3>1, <4>1, <4>2
    <3>2. CASE ~(Len(entries) < Capacity)
      BY <1>2, <2>1, <3>2 DEF Enqueue
    <3> QED
      BY <3>1, <3>2
  <2> QED
    BY <2>3, <2>4, <2>5
<1>3. CASE Take
  BY <1>3, HeadTailProperties DEF Take
<1>4. CASE Insert
  BY <1>4, AppendProperties DEF Insert
<1>7. CASE InsertFails
  BY <1>7 DEF InsertFails
<1>5. CASE Crash
  <2>1. Items(entries) \subseteq 1..MaxEntries
    BY DEF Items
  <2>2. ({current} \cup {offer[h] : h \in Handlers}) \ {0} \subseteq 1..MaxEntries
    OBVIOUS
  <2>3. lost' \subseteq 1..MaxEntries
    BY <1>5, <2>1, <2>2 DEF Crash
  <2>4. entries' \in Seq(1..MaxEntries) /\ Len(entries') <= Capacity
    <3>1. entries' = <<>>
      BY <1>5 DEF Crash
    <3> QED
      BY <3>1
  <2>5. offer' \in [Handlers -> 0..MaxEntries] /\ current' = 0 /\ UNCHANGED <<changes, log, accepted>>
    BY <1>5 DEF Crash
  <2> QED
    BY <2>3, <2>4, <2>5
<1>6. CASE UNCHANGED vars
  BY <1>6 DEF vars
<1> QED
  BY <1>1, <1>2, <1>3, <1>4, <1>5, <1>6, <1>7 DEF Next, Worker

LEMMA TypeInit == Init => TypeOK
BY BoundsAssumption DEF Init, TypeOK

(* The channel never holds more than its capacity, and everything in it,   *)
(* in the log and in a handler's hand is an entry that was numbered.       *)
THEOREM TypeCorrect == Spec => []TypeOK
BY TypeInit, TypeStep, PTL DEF Spec

----------------------------------------------------------------------------
(* About sequences.                                                        *)

(* s is found in t, in the order of t. *)
Inside(s, t) ==
  \E f \in [1..Len(s) -> 1..Len(t)] :
    /\ \A i, j \in 1..Len(s) : i < j => f[i] < f[j]
    /\ \A i \in 1..Len(s) : s[i] = t[f[i]]

Distinct(s) == \A i, j \in 1..Len(s) : s[i] = s[j] => i = j

LEMMA ConcatThree ==
  ASSUME NEW S, NEW s \in Seq(S), NEW t \in Seq(S), NEW u \in Seq(S)
  PROVE  /\ s \o t \o u \in Seq(S)
         /\ Len(s \o t \o u) = Len(s) + Len(t) + Len(u)
         /\ \A i \in 1..Len(s) : (s \o t \o u)[i] = s[i]
         /\ \A i \in 1..Len(t) : (s \o t \o u)[Len(s) + i] = t[i]
         /\ \A i \in 1..Len(u) : (s \o t \o u)[Len(s) + Len(t) + i] = u[i]
<1> DEFINE st == s \o t
<1>1. Len(s) \in Nat /\ Len(t) \in Nat /\ Len(u) \in Nat
  OBVIOUS
<1>2. /\ st \in Seq(S) /\ Len(st) = Len(s) + Len(t)
      /\ \A i \in 1..Len(s) + Len(t) : st[i] = IF i <= Len(s) THEN s[i] ELSE t[i - Len(s)]
  BY ConcatProperties
<1> HIDE DEF st
<1>3. /\ st \o u \in Seq(S) /\ Len(st \o u) = Len(st) + Len(u)
      /\ \A i \in 1..Len(st) + Len(u) : (st \o u)[i] = IF i <= Len(st) THEN st[i] ELSE u[i - Len(st)]
  <2>1. st \in Seq(S)
    BY <1>2
  <2> QED
    BY <2>1, ConcatProperties
<1>4. ASSUME NEW i \in 1..Len(s) PROVE (st \o u)[i] = s[i]
  <2>1. i \in 1..Len(st) + Len(u) /\ i \in 1..Len(s) + Len(t) /\ i <= Len(st) /\ i <= Len(s)
    BY <1>1, <1>2
  <2> QED
    BY <1>2, <1>3, <2>1
<1>5. ASSUME NEW i \in 1..Len(t) PROVE (st \o u)[Len(s) + i] = t[i]
  <2> DEFINE j == Len(s) + i
  <2>1. /\ j \in 1..Len(st) + Len(u) /\ j \in 1..Len(s) + Len(t)
        /\ j <= Len(st) /\ ~(j <= Len(s)) /\ j - Len(s) = i
    BY <1>1, <1>2
  <2> HIDE DEF j
  <2>2. (st \o u)[j] = t[i]
    BY <1>2, <1>3, <2>1
  <2> QED
    BY <2>2 DEF j
<1>6. ASSUME NEW i \in 1..Len(u) PROVE (st \o u)[Len(s) + Len(t) + i] = u[i]
  <2> DEFINE j == Len(s) + Len(t) + i
  <2>1. j \in 1..Len(st) + Len(u) /\ ~(j <= Len(st)) /\ j - Len(st) = i
    BY <1>1, <1>2
  <2> HIDE DEF j
  <2>2. (st \o u)[j] = u[i]
    BY <1>3, <2>1
  <2> QED
    BY <2>2 DEF j
<1>7. Len(st \o u) = Len(s) + Len(t) + Len(u)
  BY <1>2, <1>3
<1> QED
  BY <1>3, <1>4, <1>5, <1>6, <1>7 DEF st

LEMMA InsideTransitive ==
  ASSUME NEW S, NEW s \in Seq(S), NEW t \in Seq(S), NEW u \in Seq(S), Inside(s, t), Inside(t, u)
  PROVE  Inside(s, u)
<1>1. PICK f \in [1..Len(s) -> 1..Len(t)] :
        /\ \A i, j \in 1..Len(s) : i < j => f[i] < f[j]
        /\ \A i \in 1..Len(s) : s[i] = t[f[i]]
  BY DEF Inside
<1>2. PICK g \in [1..Len(t) -> 1..Len(u)] :
        /\ \A i, j \in 1..Len(t) : i < j => g[i] < g[j]
        /\ \A i \in 1..Len(t) : t[i] = u[g[i]]
  BY DEF Inside
<1> DEFINE h == [i \in 1..Len(s) |-> g[f[i]]]
<1>3. h \in [1..Len(s) -> 1..Len(u)]
  BY <1>1, <1>2
<1>4. \A i, j \in 1..Len(s) : i < j => h[i] < h[j]
  BY <1>1, <1>2
<1>5. \A i \in 1..Len(s) : s[i] = u[h[i]]
  BY <1>1, <1>2
<1> HIDE DEF h
<1> QED
  BY <1>3, <1>4, <1>5 DEF Inside

LEMMA InsideAppend ==
  ASSUME NEW S, NEW s \in Seq(S), NEW t \in Seq(S), NEW e \in S, Inside(s, t)
  PROVE  Inside(Append(s, e), Append(t, e))
<1>1. PICK f \in [1..Len(s) -> 1..Len(t)] :
        /\ \A i, j \in 1..Len(s) : i < j => f[i] < f[j]
        /\ \A i \in 1..Len(s) : s[i] = t[f[i]]
  BY DEF Inside
<1> DEFINE se == Append(s, e)
           te == Append(t, e)
<1>2. /\ Len(s) \in Nat /\ Len(se) = Len(s) + 1 /\ se[Len(s) + 1] = e
      /\ \A i \in 1..Len(s) : se[i] = s[i]
  BY AppendProperties
<1>3. /\ Len(t) \in Nat /\ Len(te) = Len(t) + 1 /\ te[Len(t) + 1] = e
      /\ \A i \in 1..Len(t) : te[i] = t[i]
  BY AppendProperties
<1> DEFINE g == [i \in 1..Len(se) |-> IF i <= Len(s) THEN f[i] ELSE Len(t) + 1]
<1> HIDE DEF se, te
<1>4. g \in [1..Len(se) -> 1..Len(te)]
  BY <1>1, <1>2, <1>3
<1>5. \A i, j \in 1..Len(se) : i < j => g[i] < g[j]
  BY <1>1, <1>2, <1>3
<1>6. ASSUME NEW i \in 1..Len(se) PROVE se[i] = te[g[i]]
  <2>1. CASE i <= Len(s)
    <3>1. i \in 1..Len(s) /\ g[i] = f[i] /\ f[i] \in 1..Len(t)
      BY <1>1, <1>2, <2>1
    <3> QED
      BY <1>1, <1>2, <1>3, <3>1
  <2>2. CASE i = Len(s) + 1
    BY <1>2, <1>3, <2>2
  <2> QED
    BY <1>2, <2>1, <2>2
<1> HIDE DEF g
<1>7. Inside(se, te)
  BY <1>4, <1>5, <1>6 DEF Inside
<1> QED
  BY <1>7 DEF se, te

LEMMA InsideDistinct ==
  ASSUME NEW S, NEW s \in Seq(S), NEW t \in Seq(S), Inside(s, t), Distinct(t)
  PROVE  Distinct(s)
<1>1. PICK f \in [1..Len(s) -> 1..Len(t)] :
        /\ \A i, j \in 1..Len(s) : i < j => f[i] < f[j]
        /\ \A i \in 1..Len(s) : s[i] = t[f[i]]
  BY DEF Inside
<1> SUFFICES ASSUME NEW i \in 1..Len(s), NEW j \in 1..Len(s), s[i] = s[j] PROVE i = j
  BY DEF Distinct
<1>2. f[i] \in 1..Len(t) /\ f[j] \in 1..Len(t) /\ t[f[i]] = t[f[j]]
  BY <1>1
<1>3. f[i] = f[j]
  BY <1>2 DEF Distinct
<1>4. ~(i < j) /\ ~(j < i)
  BY <1>1, <1>2, <1>3
<1> QED
  BY <1>4

(* What is left of a sequence of three parts when the middle, or all but   *)
(* the first, is taken away.                                               *)
LEMMA InsideParts ==
  ASSUME NEW S, NEW s \in Seq(S), NEW t \in Seq(S), NEW u \in Seq(S)
  PROVE  Inside(s \o u, s \o t \o u) /\ Inside(s, s \o t \o u)
<1> DEFINE stu == s \o t \o u
           su == s \o u
<1>1. /\ Len(stu) = Len(s) + Len(t) + Len(u)
      /\ \A i \in 1..Len(s) : stu[i] = s[i]
      /\ \A i \in 1..Len(u) : stu[Len(s) + Len(t) + i] = u[i]
  BY ConcatThree
<1>2. /\ Len(su) = Len(s) + Len(u)
      /\ \A i \in 1..Len(s) + Len(u) : su[i] = IF i <= Len(s) THEN s[i] ELSE u[i - Len(s)]
  BY ConcatProperties
<1>3. Len(s) \in Nat /\ Len(t) \in Nat /\ Len(u) \in Nat
  OBVIOUS
<1> HIDE DEF stu, su
<1>4. Inside(s, stu)
  <2> DEFINE f == [i \in 1..Len(s) |-> i]
  <2>1. /\ f \in [1..Len(s) -> 1..Len(stu)]
        /\ \A i, j \in 1..Len(s) : i < j => f[i] < f[j]
        /\ \A i \in 1..Len(s) : s[i] = stu[f[i]]
    BY <1>1, <1>3
  <2> HIDE DEF f
  <2> QED
    BY <2>1 DEF Inside
<1>5. Inside(su, stu)
  <2> DEFINE f == [i \in 1..Len(su) |-> IF i <= Len(s) THEN i ELSE Len(t) + i]
  <2>1. f \in [1..Len(su) -> 1..Len(stu)] /\ \A i, j \in 1..Len(su) : i < j => f[i] < f[j]
    BY <1>1, <1>2, <1>3
  <2>2. ASSUME NEW i \in 1..Len(su) PROVE su[i] = stu[f[i]]
    <3>1. CASE i <= Len(s)
      BY <1>1, <1>2, <1>3, <3>1
    <3>2. CASE ~(i <= Len(s))
      <4>1. i - Len(s) \in 1..Len(u) /\ f[i] = Len(s) + Len(t) + (i - Len(s))
        BY <1>2, <1>3, <3>2
      <4> QED
        BY <1>1, <1>2, <1>3, <3>2, <4>1
    <3> QED
      BY <3>1, <3>2
  <2> HIDE DEF f
  <2> QED
    BY <2>1, <2>2 DEF Inside
<1> QED
  BY <1>4, <1>5 DEF stu, su

LEMMA ItemsAppend ==
  ASSUME NEW S, NEW s \in Seq(S), NEW e \in S
  PROVE  Items(Append(s, e)) = Items(s) \cup {e}
<1> DEFINE se == Append(s, e)
<1>1. /\ Len(s) \in Nat /\ Len(se) = Len(s) + 1 /\ se[Len(s) + 1] = e
      /\ \A i \in 1..Len(s) : se[i] = s[i]
  BY AppendProperties
<1> HIDE DEF se
<1>2. 1..Len(se) = (1..Len(s)) \cup {Len(s) + 1}
  BY <1>1
<1>3. Items(se) = Items(s) \cup {e}
  BY <1>1, <1>2 DEF Items
<1> QED
  BY <1>3 DEF se

LEMMA DistinctAppend ==
  ASSUME NEW S, NEW s \in Seq(S), NEW e \in S, Distinct(s), e \notin Items(s)
  PROVE  Distinct(Append(s, e))
<1> DEFINE se == Append(s, e)
<1>1. /\ Len(s) \in Nat /\ Len(se) = Len(s) + 1 /\ se[Len(s) + 1] = e
      /\ \A i \in 1..Len(s) : se[i] = s[i]
  BY AppendProperties
<1> HIDE DEF se
<1>2. \A i \in 1..Len(s) : se[i] # e
  BY <1>1 DEF Items
<1>3. \A i \in 1..Len(se) : i \in 1..Len(s) \/ i = Len(s) + 1
  BY <1>1
<1>4. Distinct(se)
  BY <1>1, <1>2, <1>3 DEF Distinct
<1> QED
  BY <1>4 DEF se

(* Items of the parts are items of the whole, and of no two parts when     *)
(* nothing is in the whole twice.                                          *)
LEMMA ItemsParts ==
  ASSUME NEW S, NEW s \in Seq(S), NEW t \in Seq(S), NEW u \in Seq(S)
  PROVE  /\ Items(s \o t \o u) = Items(s) \cup Items(t) \cup Items(u)
         /\ Items(s \o u) = Items(s) \cup Items(u)
         /\ Distinct(s \o t \o u) => /\ Items(s) \cap (Items(t) \cup Items(u)) = {}
                                     /\ Items(t) \cap Items(u) = {}
<1> DEFINE stu == s \o t \o u
           su == s \o u
<1>1. /\ Len(stu) = Len(s) + Len(t) + Len(u)
      /\ \A i \in 1..Len(s) : stu[i] = s[i]
      /\ \A i \in 1..Len(t) : stu[Len(s) + i] = t[i]
      /\ \A i \in 1..Len(u) : stu[Len(s) + Len(t) + i] = u[i]
  BY ConcatThree
<1>2. /\ Len(su) = Len(s) + Len(u)
      /\ \A i \in 1..Len(s) + Len(u) : su[i] = IF i <= Len(s) THEN s[i] ELSE u[i - Len(s)]
  BY ConcatProperties
<1>3. Len(s) \in Nat /\ Len(t) \in Nat /\ Len(u) \in Nat
  OBVIOUS
<1> HIDE DEF stu, su
<1>4. \A i \in 1..Len(stu) : \/ i \in 1..Len(s)
                             \/ \E j \in 1..Len(t) : i = Len(s) + j
                             \/ \E j \in 1..Len(u) : i = Len(s) + Len(t) + j
  <2> SUFFICES ASSUME NEW i \in 1..Len(stu), i \notin 1..Len(s)
               PROVE  \/ \E j \in 1..Len(t) : i = Len(s) + j
                      \/ \E j \in 1..Len(u) : i = Len(s) + Len(t) + j
    OBVIOUS
  <2>1. CASE i <= Len(s) + Len(t)
    <3>1. i - Len(s) \in 1..Len(t) /\ i = Len(s) + (i - Len(s))
      BY <1>1, <1>3, <2>1
    <3> QED
      BY <3>1
  <2>2. CASE ~(i <= Len(s) + Len(t))
    <3>1. /\ i - Len(s) - Len(t) \in 1..Len(u)
          /\ i = Len(s) + Len(t) + (i - Len(s) - Len(t))
      BY <1>1, <1>3, <2>2
    <3> QED
      BY <3>1
  <2> QED
    BY <2>1, <2>2
<1>5. /\ \A i \in 1..Len(s) : i \in 1..Len(stu)
      /\ \A i \in 1..Len(t) : Len(s) + i \in 1..Len(stu)
      /\ \A i \in 1..Len(u) : Len(s) + Len(t) + i \in 1..Len(stu)
  BY <1>1, <1>3
<1>6. Items(stu) = Items(s) \cup Items(t) \cup Items(u)
  <2>1. ASSUME NEW i \in 1..Len(stu) PROVE stu[i] \in Items(s) \cup Items(t) \cup Items(u)
    <3>1. CASE i \in 1..Len(s)
      BY <1>1, <3>1 DEF Items
    <3>2. ASSUME NEW j \in 1..Len(t), i = Len(s) + j PROVE stu[i] \in Items(t)
      BY <1>1, <3>2 DEF Items
    <3>3. ASSUME NEW j \in 1..Len(u), i = Len(s) + Len(t) + j PROVE stu[i] \in Items(u)
      BY <1>1, <3>3 DEF Items
    <3> QED
      BY <1>4, <3>1, <3>2, <3>3
  <2>2. ASSUME NEW i \in 1..Len(s) PROVE s[i] \in Items(stu)
    BY <1>1, <1>5 DEF Items
  <2>3. ASSUME NEW i \in 1..Len(t) PROVE t[i] \in Items(stu)
    <3>1. Len(s) + i \in 1..Len(stu) /\ t[i] = stu[Len(s) + i]
      BY <1>1, <1>5
    <3> QED
      BY <3>1 DEF Items
  <2>4. ASSUME NEW i \in 1..Len(u) PROVE u[i] \in Items(stu)
    <3>1. Len(s) + Len(t) + i \in 1..Len(stu) /\ u[i] = stu[Len(s) + Len(t) + i]
      BY <1>1, <1>5
    <3> QED
      BY <3>1 DEF Items
  <2> QED
    BY <2>1, <2>2, <2>3, <2>4 DEF Items
<1>7. Items(su) = Items(s) \cup Items(u)
  <2>1. Items(su) \subseteq Items(s) \cup Items(u)
    <3> SUFFICES ASSUME NEW i \in 1..Len(su) PROVE su[i] \in Items(s) \cup Items(u)
      BY DEF Items
    <3>1. i \in 1..Len(s) \/ i - Len(s) \in 1..Len(u)
      BY <1>2, <1>3
    <3> QED
      BY <1>2, <1>3, <3>1 DEF Items
  <2>2. Items(s) \subseteq Items(su)
    BY <1>2, <1>3 DEF Items
  <2>3. Items(u) \subseteq Items(su)
    <3> SUFFICES ASSUME NEW i \in 1..Len(u) PROVE u[i] \in Items(su)
      BY DEF Items
    <3>1. /\ Len(s) + i \in 1..Len(su) /\ ~(Len(s) + i <= Len(s))
          /\ (Len(s) + i) - Len(s) = i
      BY <1>2, <1>3
    <3>2. su[Len(s) + i] = u[i]
      BY <1>2, <3>1
    <3> QED
      BY <3>1, <3>2 DEF Items
  <2> QED
    BY <2>1, <2>2, <2>3
<1>8. ASSUME Distinct(stu)
      PROVE  Items(s) \cap (Items(t) \cup Items(u)) = {} /\ Items(t) \cap Items(u) = {}
  <2>1. ASSUME NEW i \in 1..Len(s), NEW j \in 1..Len(t) PROVE s[i] # t[j]
    <3>1. i # Len(s) + j
      BY <1>3
    <3> QED
      BY <1>1, <1>5, <1>8, <3>1 DEF Distinct
  <2>2. ASSUME NEW i \in 1..Len(s), NEW j \in 1..Len(u) PROVE s[i] # u[j]
    <3>1. i # Len(s) + Len(t) + j
      BY <1>3
    <3> QED
      BY <1>1, <1>5, <1>8, <3>1 DEF Distinct
  <2>3. ASSUME NEW i \in 1..Len(t), NEW j \in 1..Len(u) PROVE t[i] # u[j]
    <3>1. Len(s) + i # Len(s) + Len(t) + j
      BY <1>3
    <3> QED
      BY <1>1, <1>5, <1>8, <3>1 DEF Distinct
  <2> QED
    BY <2>1, <2>2, <2>3 DEF Items
<1> QED
  BY <1>6, <1>7, <1>8 DEF stu, su

----------------------------------------------------------------------------
(* What each step does to the path of the entries.                         *)

Doing == IF current = 0 THEN <<>> ELSE <<current>>

LEMMA PathType ==
  ASSUME TypeOK
  PROVE  /\ log \in Seq(Entry) /\ Doing \in Seq(Entry) /\ entries \in Seq(Entry)
         /\ Path = log \o Doing \o entries /\ Path \in Seq(Entry)
         /\ accepted \in Seq(Entry)
<1>1. log \in Seq(Entry) /\ entries \in Seq(Entry) /\ accepted \in Seq(Entry)
  BY DEF TypeOK, Entry
<1>2. Doing \in Seq(Entry)
  <2>1. CASE current = 0
    BY <2>1 DEF Doing
  <2>2. CASE current # 0
    BY <2>2, BoundsAssumption DEF Doing, TypeOK, Entry
  <2> QED
    BY <2>1, <2>2
<1>3. Path = log \o Doing \o entries
  BY DEF Path, Doing
<1> QED
  BY <1>1, <1>2, <1>3, ConcatThree

LEMMA PathGrows ==
  ASSUME TypeOK, NEW e \in Entry, entries' = Append(entries, e), UNCHANGED <<log, current>>
  PROVE  Path' = Append(Path, e)
<1> DEFINE ld == log \o Doing
<1>1. ld \in Seq(Entry) /\ entries \in Seq(Entry) /\ <<e>> \in Seq(Entry)
  BY PathType, ConcatProperties
<1>2. Path = ld \o entries /\ Path' = ld \o entries'
  BY PathType DEF Path, Doing
<1> HIDE DEF ld
<1>3. entries' = entries \o <<e>>
  BY <1>1, AppendIsConcat
<1>4. (ld \o entries) \o <<e>> = ld \o (entries \o <<e>>)
  BY <1>1, ConcatAssociative
<1>5. ld \o entries \in Seq(Entry)
  BY <1>1, ConcatProperties
<1>6. Append(ld \o entries, e) = (ld \o entries) \o <<e>>
  BY <1>5, AppendIsConcat
<1> QED
  BY <1>2, <1>3, <1>4, <1>6

LEMMA PathKept ==
  ASSUME TypeOK, Take \/ Insert
  PROVE  Path' = Path
<1>1. log \in Seq(Entry) /\ entries \in Seq(Entry)
  BY PathType
<1>2. CASE Take
  <2>1. /\ current = 0 /\ entries # <<>> /\ log' = log
        /\ current' = Head(entries) /\ entries' = Tail(entries)
    BY <1>2 DEF Take
  <2>2. Head(entries) \in Entry /\ Tail(entries) \in Seq(Entry) /\ <<Head(entries)>> \in Seq(Entry)
    BY <1>1, <2>1, HeadTailProperties
  <2>3. <<Head(entries)>> \o Tail(entries) = entries
    <3>1. /\ Len(<<Head(entries)>> \o Tail(entries)) = 1 + Len(Tail(entries))
          /\ \A i \in 1..1 + Len(Tail(entries)) : (<<Head(entries)>> \o Tail(entries))[i] =
               IF i <= 1 THEN Head(entries) ELSE Tail(entries)[i - 1]
      BY <2>2, ConcatProperties
    <3>2. /\ Len(entries) \in Nat \ {0} /\ Len(Tail(entries)) = Len(entries) - 1
          /\ \A i \in 1..Len(Tail(entries)) : Tail(entries)[i] = entries[i + 1]
          /\ Head(entries) = entries[1]
      BY <1>1, <2>1, HeadTailProperties
    <3>3. <<Head(entries)>> \o Tail(entries) \in Seq(Entry)
      BY <2>2, ConcatProperties
    <3>4. \A i \in 1..Len(entries) : (<<Head(entries)>> \o Tail(entries))[i] = entries[i]
      BY <3>1, <3>2
    <3>5. Len(<<Head(entries)>> \o Tail(entries)) = Len(entries)
      BY <3>1, <3>2
    <3> QED
      BY <1>1, <3>3, <3>4, <3>5, SeqEqual
  <2>4. Path = (log \o <<>>) \o entries
    BY <2>1 DEF Path
  <2>5. Path' = (log \o <<Head(entries)>>) \o Tail(entries)
    <3>1. Head(entries) # 0
      BY <2>2, BoundsAssumption DEF Entry
    <3> QED
      BY <2>1, <3>1 DEF Path
  <2>6. log \o <<>> = log
    BY <1>1, ConcatEmptySeq
  <2>7. (log \o <<Head(entries)>>) \o Tail(entries) = log \o (<<Head(entries)>> \o Tail(entries))
    BY <1>1, <2>2, ConcatAssociative
  <2> QED
    BY <2>3, <2>4, <2>5, <2>6, <2>7
<1>3. CASE Insert
  <2>1. /\ current # 0 /\ current' = 0 /\ entries' = entries
        /\ log' = Append(log, current) /\ current \in Entry
    BY <1>3, BoundsAssumption DEF Insert, TypeOK, Entry
  <2>2. log' = log \o <<current>> /\ log' \in Seq(Entry)
    BY <1>1, <2>1, AppendIsConcat, AppendProperties
  <2>3. Path = (log \o <<current>>) \o entries
    BY <2>1 DEF Path
  <2>4. Path' = (log' \o <<>>) \o entries
    BY <2>1 DEF Path
  <2>5. log' \o <<>> = log'
    BY <2>2, ConcatEmptySeq
  <2> QED
    BY <2>2, <2>3, <2>4, <2>5
<1> QED
  BY <1>2, <1>3

(* The entry that could not be inserted, or all that was on its way, is gone. *)
LEMMA PathShrinks ==
  ASSUME TypeOK, InsertFails \/ Crash
  PROVE  /\ InsertFails => Path' = log \o entries
         /\ Crash => Path' = log
<1>1. log \in Seq(Entry)
  BY PathType
<1>2. log \o <<>> = log
  BY <1>1, ConcatEmptySeq
<1>3. ASSUME InsertFails PROVE Path' = log \o entries
  <2>1. Path' = (log \o <<>>) \o entries
    BY <1>3 DEF InsertFails, Path
  <2> QED
    BY <1>2, <2>1
<1>4. ASSUME Crash PROVE Path' = log
  <2>1. Path' = (log \o <<>>) \o <<>>
    BY <1>4 DEF Crash, Path
  <2> QED
    BY <1>2, <2>1
<1> QED
  BY <1>3, <1>4

----------------------------------------------------------------------------
(* The order of the entries.                                               *)

LEMMA InOrderIsInside == InOrder <=> Inside(Path, accepted)
BY DEF InOrder, Inside

LEMMA InOrderStep == TypeOK /\ InOrder /\ [Next]_vars => InOrder'
<1> SUFFICES ASSUME TypeOK, Inside(Path, accepted), [Next]_vars
             PROVE  Inside(Path', accepted')
  BY InOrderIsInside DEF InOrder, Inside
<1> USE PathType
<1>1. CASE Path' = Path /\ accepted' = accepted
  BY <1>1
<1>2. ASSUME NEW h \in Handlers, Enqueue(h) PROVE Inside(Path', accepted')
  <2>1. CASE UNCHANGED <<entries, accepted>>
    BY <1>1, <1>2, <2>1 DEF Enqueue, Path
  <2>2. CASE entries' = Append(entries, offer[h]) /\ accepted' = Append(accepted, offer[h])
    <3>1. offer[h] \in Entry /\ UNCHANGED <<log, current>>
      BY <1>2, BoundsAssumption DEF Enqueue, TypeOK, Entry
    <3>2. Path' = Append(Path, offer[h])
      BY <2>2, <3>1, PathGrows
    <3> QED
      BY <2>2, <3>1, <3>2, InsideAppend
  <2> QED
    BY <1>2, <2>1, <2>2 DEF Enqueue
<1>3. CASE Take \/ Insert
  BY <1>1, <1>3, PathKept DEF Take, Insert
<1>4. CASE InsertFails \/ Crash
  <2>1. Inside(Path', Path) /\ Path' \in Seq(Entry)
    <3>1. Inside(log \o entries, Path) /\ Inside(log, Path) /\ log \o entries \in Seq(Entry)
      BY InsideParts, ConcatProperties
    <3> QED
      BY <1>4, <3>1, PathShrinks
  <2>2. accepted' = accepted
    BY <1>4 DEF InsertFails, Crash
  <2> QED
    BY <2>1, <2>2, InsideTransitive
<1>5. CASE UNCHANGED vars \/ \E h \in Handlers : Change(h)
  BY <1>1, <1>5 DEF vars, Change, Path
<1> QED
  BY <1>2, <1>3, <1>4, <1>5 DEF Next, Worker

LEMMA InOrderInit == Init => InOrder
<1> SUFFICES ASSUME Init PROVE Inside(Path, accepted)
  BY InOrderIsInside
<1>1. TypeOK
  BY TypeInit
<1>2. Path = (<<>> \o <<>>) \o <<>> /\ accepted = <<>>
  BY DEF Init, Path
<1>3. Path = <<>>
  BY <1>2
<1>4. Len(Path) = 0 /\ Len(accepted) = 0 /\ 1..0 = {}
  BY <1>2, <1>3
<1> DEFINE f == [i \in 1..0 |-> i]
<1>5. /\ f \in [1..Len(Path) -> 1..Len(accepted)]
      /\ \A i, j \in 1..Len(Path) : i < j => f[i] < f[j]
      /\ \A i \in 1..Len(Path) : Path[i] = accepted[f[i]]
  BY <1>4
<1> HIDE DEF f
<1> QED
  BY <1>5 DEF Inside

(* The log, and what is still to come into it, keeps the order in which    *)
(* the queue took the entries, whatever fails and whenever it crashes.     *)
THEOREM LoggedInOrder == Spec => []InOrder
BY TypeInit, TypeStep, InOrderInit, InOrderStep, PTL DEF Spec

----------------------------------------------------------------------------
(* What becomes of the entries.                                            *)

LEMMA PartsOfPath ==
  ASSUME TypeOK, Distinct(Path)
  PROVE  /\ Items(Path) = Items(log) \cup Items(Doing) \cup Items(entries)
         /\ Items(log) \cap (Items(Doing) \cup Items(entries)) = {}
         /\ Items(Doing) \cap Items(entries) = {}
         /\ Items(log \o entries) = Items(log) \cup Items(entries)
<1>1. /\ log \in Seq(Entry) /\ Doing \in Seq(Entry) /\ entries \in Seq(Entry)
      /\ Path = log \o Doing \o entries
  BY PathType
<1>2. Distinct(log \o Doing \o entries)
  BY <1>1
<1>3. /\ Items(log \o Doing \o entries) = Items(log) \cup Items(Doing) \cup Items(entries)
      /\ Items(log \o entries) = Items(log) \cup Items(entries)
      /\ Items(log) \cap (Items(Doing) \cup Items(entries)) = {} /\ Items(Doing) \cap Items(entries) = {}
  BY <1>1, <1>2, ItemsParts
<1> QED
  BY <1>1, <1>3

(* Each entry is in one place: no two handlers offer the same, and it is   *)
(* not twice between the queue and the log.                                *)
OnePlace ==
  /\ \A g, h \in Handlers : offer[g] = offer[h] /\ offer[g] # 0 => g = h
  /\ Distinct(Path)

IInv == TypeOK /\ Accounted /\ OnePlace

LEMMA IInvStep == IInv /\ [Next]_vars => IInv'
<1> SUFFICES ASSUME TypeOK, Accounted, OnePlace, [Next]_vars PROVE Accounted' /\ OnePlace'
  BY TypeStep DEF IInv
<1> DEFINE Wait == {offer[h] : h \in Handlers} \ {0}
           P == Items(Path)
<1>0. /\ Wait \cup P \cup lost = 1..changes /\ P \cap lost = {} /\ Wait \cap (P \cup lost) = {}
      /\ Distinct(Path)
      /\ \A g, h \in Handlers : offer[g] = offer[h] /\ offer[g] # 0 => g = h
      /\ changes \in Nat
  BY BoundsAssumption DEF Accounted, OnePlace, TypeOK
<1>1. ASSUME NEW h \in Handlers, Change(h) PROVE Accounted' /\ OnePlace'
  <2>1. Path' = Path /\ lost' = lost /\ changes' = changes + 1 /\ offer[h] = 0
    BY <1>1 DEF Change, Path
  <2>2. \A g \in Handlers : offer'[g] = IF g = h THEN changes + 1 ELSE offer[g]
    BY <1>1 DEF Change, TypeOK
  <2>3. \A g \in Handlers : offer[g] # changes + 1
    <3>1. \A g \in Handlers : offer[g] # 0 => offer[g] \in 1..changes
      BY <1>0
    <3> QED
      BY <1>0, <3>1
  <2>4. Wait' = Wait \cup {changes + 1}
    <3>1. changes + 1 # 0
      BY <1>0
    <3> QED
      BY <2>1, <2>2, <3>1
  <2>5. 1..(changes + 1) = (1..changes) \cup {changes + 1} /\ changes + 1 \notin 1..changes
    BY <1>0
  <2>6. Accounted'
    <3> HIDE DEF Wait, P
    <3>1. P' = P
      BY <2>1 DEF P
    <3>2. Wait' \cup P' \cup lost' = 1..changes' /\ P' \cap lost' = {} /\ Wait' \cap (P' \cup lost') = {}
      BY <1>0, <2>1, <2>4, <2>5, <3>1
    <3> QED
      BY <3>2 DEF Accounted, Wait, P
  <2>7. OnePlace'
    BY <1>0, <2>1, <2>2, <2>3 DEF OnePlace
  <2> QED
    BY <2>6, <2>7
<1>2. ASSUME NEW h \in Handlers, Enqueue(h) PROVE Accounted' /\ OnePlace'
  <2> DEFINE e == offer[h]
  <2>1. e # 0 /\ e \in Wait /\ e \in Entry /\ changes' = changes /\ UNCHANGED <<log, current>>
    BY <1>2, BoundsAssumption DEF Enqueue, TypeOK, Entry
  <2>2. \A g \in Handlers : offer'[g] = IF g = h THEN 0 ELSE offer[g]
    BY <1>2 DEF Enqueue, TypeOK
  <2>3. Wait' = Wait \ {e}
    BY <1>0, <2>1, <2>2
  <2>4. CASE entries' = entries /\ lost' = lost \cup {e}
    <3>1. Path' = Path
      BY <2>1, <2>4 DEF Path
    <3> HIDE DEF Wait, P, e
    <3>2. P' = P
      BY <3>1 DEF P
    <3>3. Wait' \cup P' \cup lost' = 1..changes' /\ P' \cap lost' = {} /\ Wait' \cap (P' \cup lost') = {}
      BY <1>0, <2>1, <2>3, <2>4, <3>2
    <3>4. Accounted'
      BY <3>3 DEF Accounted, Wait, P
    <3> QED
      BY <1>0, <2>2, <3>1, <3>4 DEF OnePlace
  <2>5. CASE entries' = Append(entries, e) /\ lost' = lost
    <3>1. Path' = Append(Path, e) /\ Path \in Seq(Entry)
      BY <2>1, <2>5, PathGrows, PathType
    <3> HIDE DEF Wait, P, e
    <3>2. P' = P \cup {e} /\ e \notin P
      BY <1>0, <2>1, <3>1, ItemsAppend DEF P
    <3>3. Wait' \cup P' \cup lost' = 1..changes' /\ P' \cap lost' = {} /\ Wait' \cap (P' \cup lost') = {}
      BY <1>0, <2>1, <2>3, <2>5, <3>2
    <3>4. Accounted'
      BY <3>3 DEF Accounted, Wait, P
    <3>5. Distinct(Path')
      BY <1>0, <2>1, <3>1, <3>2, DistinctAppend DEF P
    <3> QED
      BY <1>0, <2>2, <3>4, <3>5 DEF OnePlace
  <2> QED
    BY <1>2, <2>4, <2>5 DEF Enqueue
<1>3. CASE Take \/ Insert \/ UNCHANGED vars
  <2>1. Path' = Path
    BY <1>3, PathKept DEF vars, Path
  <2>2. UNCHANGED <<changes, offer, lost>>
    BY <1>3 DEF Take, Insert, vars
  <2> QED
    BY <2>1, <2>2 DEF Accounted, OnePlace
<1>4. CASE InsertFails
  <2>1. /\ current # 0 /\ UNCHANGED <<changes, offer>> /\ lost' = lost \cup {current}
        /\ Doing = <<current>>
    BY <1>4 DEF InsertFails, Doing
  <2>2. Path' = log \o entries
    BY <1>4, PathShrinks
  <2>3. Items(Doing) = {current}
    BY <2>1 DEF Items
  <2>4. P = P' \cup {current} /\ current \notin P'
    <3>1. /\ P = Items(log) \cup Items(Doing) \cup Items(entries)
          /\ Items(log) \cap (Items(Doing) \cup Items(entries)) = {}
          /\ Items(Doing) \cap Items(entries) = {}
          /\ Items(log \o entries) = Items(log) \cup Items(entries)
      BY <1>0, PartsOfPath
    <3> QED
      BY <2>2, <2>3, <3>1
  <2>5. Distinct(Path')
    <3>1. Inside(Path', Path) /\ Path' \in Seq(Entry)
      BY <2>2, PathType, InsideParts, ConcatProperties
    <3> QED
      BY <1>0, <3>1, PathType, InsideDistinct
  <2>6. Accounted'
    <3>1. Wait' = Wait
      BY <2>1
    <3> HIDE DEF Wait, P
    <3>2. Wait' \cup P' \cup lost' = 1..changes' /\ P' \cap lost' = {} /\ Wait' \cap (P' \cup lost') = {}
      BY <1>0, <2>1, <2>4, <3>1
    <3> QED
      BY <3>2 DEF Accounted, Wait, P
  <2> QED
    BY <1>0, <2>1, <2>5, <2>6 DEF OnePlace
<1>5. CASE Crash
  <2>1. /\ changes' = changes /\ \A h \in Handlers : offer'[h] = 0
        /\ lost' = lost \cup Items(entries) \cup (({current} \cup {offer[h] : h \in Handlers}) \ {0})
    BY <1>5 DEF Crash
  <2>2. Path' = log
    BY <1>5, PathShrinks
  <2>3. Items(Doing) = {current} \ {0}
    BY DEF Items, Doing
  <2>4. /\ P = P' \cup ({current} \ {0}) \cup Items(entries)
        /\ P' \cap (({current} \ {0}) \cup Items(entries)) = {}
    <3>1. /\ P = Items(log) \cup Items(Doing) \cup Items(entries)
          /\ Items(log) \cap (Items(Doing) \cup Items(entries)) = {}
      BY <1>0, PartsOfPath
    <3> QED
      BY <2>2, <2>3, <3>1
  <2>5. Distinct(Path')
    BY <1>0, <2>2, PathType, InsideParts, InsideDistinct
  <2>6. Accounted'
    <3>1. Wait' = {} /\ lost' = lost \cup Items(entries) \cup ({current} \ {0}) \cup Wait
      BY <2>1
    <3> HIDE DEF Wait, P
    <3>2. Wait' \cup P' \cup lost' = 1..changes' /\ P' \cap lost' = {} /\ Wait' \cap (P' \cup lost') = {}
      BY <1>0, <2>1, <2>4, <3>1
    <3> QED
      BY <3>2 DEF Accounted, Wait, P
  <2> QED
    BY <2>1, <2>5, <2>6 DEF OnePlace
<1> QED
  BY <1>1, <1>2, <1>3, <1>4, <1>5 DEF Next, Worker

LEMMA IInvInit == Init => IInv
<1> SUFFICES ASSUME Init PROVE IInv
  OBVIOUS
<1>1. Path = (<<>> \o <<>>) \o <<>>
  BY DEF Init, Path
<1>2. Path = <<>>
  BY <1>1
<1>3. Items(Path) = {} /\ Distinct(Path)
  BY <1>2 DEF Items, Distinct
<1>4. 1..0 = {} /\ {offer[h] : h \in Handlers} \ {0} = {}
  BY DEF Init
<1> QED
  BY <1>3, <1>4, TypeInit DEF Init, IInv, Accounted, OnePlace

(* Every change is logged, on its way into the log, or lost, and never two *)
(* of these: through a full queue, a failed insert and a crash.            *)
THEOREM ChangesAccounted == Spec => []Accounted
<1>1. IInv => Accounted
  BY DEF IInv
<1> QED
  BY IInvInit, IInvStep, <1>1, PTL DEF Spec

(* No change is logged twice. *)
THEOREM LoggedOnce == Spec => []Distinct(log)
<1>1. IInv => Distinct(log)
  <2> SUFFICES ASSUME TypeOK, Distinct(Path) PROVE Distinct(log)
    BY DEF IInv, OnePlace
  <2>1. Inside(log, Path)
    BY PathType, InsideParts
  <2> QED
    BY <2>1, PathType, InsideDistinct
<1> QED
  BY IInvInit, IInvStep, <1>1, PTL DEF Spec
=============================================================================
