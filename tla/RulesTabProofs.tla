--------------------------- MODULE RulesTabProofs ---------------------------
(***************************************************************************)
(* What RulesTable and LogView promise, for every set of instances and     *)
(* rules, every command and order of answers.                              *)
(***************************************************************************)
EXTENDS RulesTab, TLAPS, NaturalsInduction, FiniteSetTheorems, SequenceTheorems, WellFoundedInduction

\* A set of naturals has a least element: induction, without an operator
\* parameter.
LEMMA LeastOf ==
    ASSUME NEW T, T \subseteq Nat, T # {}
    PROVE  \E n \in T : \A m \in T : n <= m
<1>1. PICK n \in T : \A m \in T : ~(<<m, n>> \in OpToRel(<, Nat))
  BY NatLessThanWellFounded, WFMin, Zenon
<1>2. \A m \in T : ~(m < n)
  BY <1>1 DEF OpToRel
<1>. QED
  BY <1>2

-----------------------------------------------------------------------------
(* Sets of naturals in order.                                              *)

Increasing(t) == \A j, k \in DOMAIN t : j < k => t[j] < t[k]

\* A set of naturals up to n can be put in order.
Orderly(n) ==
    \A T \in SUBSET (1..n) :
        /\ IsFiniteSet(T) /\ Cardinality(T) \in Nat
        /\ \E t \in [1..Cardinality(T) -> T] : Increasing(t)

LEMMA OrderedSets == \A n \in Nat : Orderly(n)
<1>. DEFINE Fails == {n \in Nat : ~Orderly(n)}
<1>1. SUFFICES ASSUME Fails # {} PROVE FALSE
  OBVIOUS
<1>2. PICK n \in Fails : \A m \in Fails : n <= m
  BY <1>1, LeastOf
<1>. n \in Nat
  BY <1>2
<1>3. ASSUME NEW T \in SUBSET (1..n)
      PROVE  /\ IsFiniteSet(T) /\ Cardinality(T) \in Nat
             /\ \E t \in [1..Cardinality(T) -> T] : Increasing(t)
  <2>1. IsFiniteSet(T) /\ Cardinality(T) \in Nat
    <3>1. IsFiniteSet(1..n)
      BY FS_Interval
    <3>2. IsFiniteSet(T)
      BY <3>1, FS_Subset
    <3>. QED
      BY <3>2, FS_CardinalityType
  <2>2. CASE n \notin T
    <3>1. CASE n = 0
      <4>0. T = {}
        BY <3>1
      <4>1. T = {} /\ Cardinality(T) = 0
        BY <4>0, FS_EmptySet
      <4>2. [k \in 1..0 |-> 0] \in [1..Cardinality(T) -> T] /\ Increasing([k \in 1..0 |-> 0])
        BY <4>1 DEF Increasing
      <4>. QED
        BY <2>1, <4>2
    <3>2. CASE n # 0
      <4>1. n - 1 \in Nat /\ T \in SUBSET (1..(n - 1)) /\ n - 1 \notin Fails
        BY <1>2, <2>2, <3>2
      <4>. QED
        BY <4>1 DEF Orderly
    <3>. QED
      BY <3>1, <3>2
  <2>3. CASE n \in T
    <3>. DEFINE U == T \ {n}
                c == Cardinality(U)
    <3>1. n - 1 \in Nat /\ U \in SUBSET (1..(n - 1)) /\ n - 1 \notin Fails
      BY <1>2, <2>3
    <3>2. IsFiniteSet(U) /\ c \in Nat
      BY <3>1 DEF Orderly
    <3>3. Cardinality(T) = c + 1
      BY <2>1, <2>3, <3>2, FS_RemoveElement
    <3>4. PICK u \in [1..c -> U] : Increasing(u)
      BY <3>1 DEF Orderly
    <3>. HIDE DEF c
    <3>. DEFINE t == [k \in 1..(c + 1) |-> IF k = c + 1 THEN n ELSE u[k]]
    <3>5. ASSUME NEW k \in 1..c PROVE u[k] \in T /\ u[k] \in 1..(n - 1)
      BY <3>1, <3>4
    <3>6. t \in [1..Cardinality(T) -> T]
      BY <2>3, <3>2, <3>3, <3>5
    <3>7. Increasing(t)
      <4>1. ASSUME NEW j \in 1..(c + 1), NEW k \in 1..(c + 1), j < k
            PROVE  t[j] < t[k]
        <5>1. j \in 1..c /\ t[j] = u[j] /\ u[j] \in 1..(n - 1)
          BY <3>2, <3>5, <4>1
        <5>2. CASE k = c + 1
          BY <1>2, <3>1, <5>1, <5>2
        <5>3. CASE k # c + 1
          BY <3>2, <3>4, <4>1, <5>1, <5>3 DEF Increasing
        <5>. QED
          BY <5>2, <5>3
      <4>. QED
        BY <4>1 DEF Increasing
    <3>. QED
      BY <2>1, <3>6, <3>7
  <2>. QED
    BY <2>2, <2>3
<1>. QED
  BY <1>2, <1>3 DEF Orderly

LEMMA SameCardinality ==
    ASSUME NEW T
    PROVE  Table!Cardinality(T) = Cardinality(T) /\ Logs!Cardinality(T) = Cardinality(T)
  BY DEF Cardinality, Table!Cardinality, Logs!Cardinality

LEMMA SortedFacts ==
    ASSUME NEW n \in Nat, NEW T \in SUBSET (1..n)
    PROVE  /\ Cardinality(T) \in Nat
           /\ Table!Sorted(T) \in [1..Cardinality(T) -> T]
           /\ Logs!Sorted(T) \in [1..Cardinality(T) -> T]
           /\ Increasing(Logs!Sorted(T))
<1>1. /\ Cardinality(T) \in Nat
      /\ \E t \in [1..Cardinality(T) -> T] : \A j, k \in DOMAIN t : j < k => t[j] < t[k]
  BY OrderedSets DEF Orderly, Increasing
<1>2. Table!Sorted(T) \in [1..Cardinality(T) -> T]
  BY <1>1, SameCardinality DEF Table!Sorted
<1>3. /\ Logs!Sorted(T) \in [1..Cardinality(T) -> T]
      /\ \A j, k \in DOMAIN Logs!Sorted(T) : j < k => Logs!Sorted(T)[j] < Logs!Sorted(T)[k]
  BY <1>1, SameCardinality DEF Logs!Sorted
<1>. QED
  BY <1>1, <1>2, <1>3 DEF Increasing

-----------------------------------------------------------------------------
(* Sequences of names.                                                     *)

LEMMA OnlyIsSeq ==
    ASSUME NEW S, NEW s \in Seq(S), NEW names
    PROVE  Table!Only(s, names) \in Seq(S)
<1>. DEFINE T == {k \in DOMAIN s : s[k] \in names}
            t == Table!Sorted(T)
            c == Cardinality(T)
<1>1. Len(s) \in Nat /\ DOMAIN s = 1..Len(s) /\ \A k \in DOMAIN s : s[k] \in S
  BY LenProperties
<1>2. T \in SUBSET (1..Len(s))
  BY <1>1
<1>3. c \in Nat /\ t \in [1..c -> T]
  BY <1>1, <1>2, SortedFacts
<1>. HIDE DEF t, c
<1>4. \A k \in 1..c : t[k] \in DOMAIN s
  BY <1>3
<1>5. [k \in DOMAIN t |-> s[t[k]]] \in [1..c -> S]
  BY <1>1, <1>3, <1>4
<1>6. [k \in DOMAIN t |-> s[t[k]]] \in Seq(S)
  BY <1>3, <1>5, SeqDef
<1>. QED
  BY <1>6 DEF Table!Only, t

LEMMA Inserted ==
    ASSUME NEW S, NEW s \in Seq(S), NEW i \in 1..(Len(s) + 1), NEW e \in S
    PROVE  /\ Table!InsertAt(s, i, e) \in Seq(S)
           /\ Len(Table!InsertAt(s, i, e)) = Len(s) + 1
           /\ \A p \in 1..Len(s) :
                Table!InsertAt(s, i, e)[IF p < i THEN p ELSE p + 1] = s[p]
           /\ Table!InsertAt(s, i, e)[i] = e
<1>. DEFINE n == Len(s)
            a == SubSeq(s, 1, i - 1)
            b == SubSeq(s, i, n)
            ae == a \o <<e>>
<1>1. n \in Nat /\ \A k \in 1..n : s[k] \in S
  BY LenProperties
<1>2. a \in Seq(S) /\ Len(a) = i - 1 /\ \A p \in 1..(i - 1) : a[p] = s[p]
  <2>1. 1 \in Int /\ i - 1 \in Int /\ \A k \in 1..(i - 1) : s[k] \in S
    BY <1>1
  <2>2. /\ a \in Seq(S) /\ Len(a) = IF 1 <= i - 1 THEN (i - 1) - 1 + 1 ELSE 0
        /\ \A p \in 1..((i - 1) - 1 + 1) : a[p] = s[1 + p - 1]
    BY <2>1, SubSeqProperties
  <2>. QED
    BY <2>2, <1>1
<1>3. b \in Seq(S) /\ Len(b) = n - i + 1 /\ \A p \in 1..(n - i + 1) : b[p] = s[i + p - 1]
  <2>1. i \in Int /\ n \in Int /\ \A k \in i..n : s[k] \in S
    BY <1>1
  <2>2. /\ b \in Seq(S) /\ Len(b) = IF i <= n THEN n - i + 1 ELSE 0
        /\ \A p \in 1..(n - i + 1) : b[p] = s[i + p - 1]
    BY <2>1, SubSeqProperties
  <2>. QED
    BY <2>2, <1>1
<1>4. <<e>> \in Seq(S) /\ Len(<<e>>) = 1 /\ <<e>>[1] = e
  OBVIOUS
<1>. HIDE DEF a, b, n
<1>5. /\ ae \in Seq(S) /\ Len(ae) = Len(a) + Len(<<e>>)
      /\ \A p \in 1..(Len(a) + Len(<<e>>)) :
           ae[p] = IF p <= Len(a) THEN a[p] ELSE <<e>>[p - Len(a)]
  BY <1>2, <1>4, ConcatProperties
<1>6. /\ ae \in Seq(S) /\ Len(ae) = i /\ ae[i] = e
      /\ \A p \in 1..(i - 1) : ae[p] = s[p]
  BY <1>1, <1>2, <1>4, <1>5
<1>. HIDE DEF ae
<1>7. /\ ae \o b \in Seq(S) /\ Len(ae \o b) = Len(ae) + Len(b)
      /\ \A p \in 1..(Len(ae) + Len(b)) :
           (ae \o b)[p] = IF p <= Len(ae) THEN ae[p] ELSE b[p - Len(ae)]
  BY <1>3, <1>6, ConcatProperties
<1>. DEFINE w == ae \o b
<1>8. w = Table!InsertAt(s, i, e)
  BY DEF Table!InsertAt, ae, a, b, n
<1>. HIDE DEF w
<1>9. Len(w) = n + 1 /\ w[i] = e
  BY <1>1, <1>3, <1>6, <1>7 DEF n, w
<1>10. ASSUME NEW p \in 1..n, p < i PROVE w[p] = s[p]
  BY <1>1, <1>3, <1>6, <1>7, <1>10 DEF n, w
<1>11. ASSUME NEW p \in 1..n, ~(p < i) PROVE w[p + 1] = s[p]
  <2>1. p + 1 \in 1..(Len(ae) + Len(b)) /\ ~(p + 1 <= Len(ae)) /\ p + 1 - Len(ae) = p - i + 1
    BY <1>1, <1>3, <1>6, <1>11 DEF n
  <2>2. w[p + 1] = b[p - i + 1]
    BY <1>7, <2>1 DEF w
  <2>3. p - i + 1 \in 1..(n - i + 1) /\ i + (p - i + 1) - 1 = p
    BY <1>1, <1>11 DEF n
  <2>4. b[p - i + 1] = s[i + (p - i + 1) - 1]
    BY <1>3, <2>3
  <2>. QED
    BY <2>2, <2>3, <2>4
<1>. QED
  BY <1>7, <1>8, <1>9, <1>10, <1>11 DEF n, w

LEMMA Removed ==
    ASSUME NEW S, NEW s \in Seq(S), NEW i \in 1..Len(s)
    PROVE  /\ Table!RemoveAt(s, i) \in Seq(S)
           /\ Len(Table!RemoveAt(s, i)) = Len(s) - 1
           /\ \A p \in 1..Len(s) :
                p # i => Table!RemoveAt(s, i)[IF p < i THEN p ELSE p - 1] = s[p]
<1>. DEFINE n == Len(s)
            a == SubSeq(s, 1, i - 1)
            b == SubSeq(s, i + 1, n)
<1>1. n \in Nat /\ \A k \in 1..n : s[k] \in S
  BY LenProperties
<1>2. a \in Seq(S) /\ Len(a) = i - 1 /\ \A p \in 1..(i - 1) : a[p] = s[p]
  <2>1. 1 \in Int /\ i - 1 \in Int /\ \A k \in 1..(i - 1) : s[k] \in S
    BY <1>1
  <2>2. /\ a \in Seq(S) /\ Len(a) = IF 1 <= i - 1 THEN (i - 1) - 1 + 1 ELSE 0
        /\ \A p \in 1..((i - 1) - 1 + 1) : a[p] = s[1 + p - 1]
    BY <2>1, SubSeqProperties
  <2>. QED
    BY <2>2, <1>1
<1>3. b \in Seq(S) /\ Len(b) = n - i /\ \A p \in 1..(n - i) : b[p] = s[i + p]
  <2>1. i + 1 \in Int /\ n \in Int /\ \A k \in (i + 1)..n : s[k] \in S
    BY <1>1
  <2>2. /\ b \in Seq(S) /\ Len(b) = IF i + 1 <= n THEN n - (i + 1) + 1 ELSE 0
        /\ \A p \in 1..(n - (i + 1) + 1) : b[p] = s[i + 1 + p - 1]
    BY <2>1, SubSeqProperties
  <2>. QED
    BY <2>2, <1>1
<1>. HIDE DEF a, b, n
<1>4. /\ a \o b \in Seq(S) /\ Len(a \o b) = Len(a) + Len(b)
      /\ \A p \in 1..(Len(a) + Len(b)) :
           (a \o b)[p] = IF p <= Len(a) THEN a[p] ELSE b[p - Len(a)]
  BY <1>2, <1>3, ConcatProperties
<1>. DEFINE w == a \o b
<1>5. w = Table!RemoveAt(s, i)
  BY DEF Table!RemoveAt, a, b, n
<1>. HIDE DEF w
<1>6. Len(w) = n - 1
  BY <1>1, <1>2, <1>3, <1>4 DEF w, n
<1>7. ASSUME NEW p \in 1..n, p < i PROVE w[p] = s[p]
  BY <1>1, <1>2, <1>3, <1>4, <1>7 DEF w, n
<1>8. ASSUME NEW p \in 1..n, i < p PROVE w[p - 1] = s[p]
  <2>1. p - 1 \in 1..(Len(a) + Len(b)) /\ ~(p - 1 <= Len(a)) /\ p - 1 - Len(a) = p - i
    BY <1>1, <1>2, <1>3, <1>8 DEF n
  <2>2. w[p - 1] = b[p - i]
    BY <1>4, <2>1 DEF w
  <2>3. p - i \in 1..(n - i) /\ i + (p - i) = p
    BY <1>1, <1>8 DEF n
  <2>. QED
    BY <1>3, <2>2, <2>3
<1>. QED
  BY <1>1, <1>4, <1>5, <1>6, <1>7, <1>8 DEF n, w

\* The order after a drag from one place to another, or of a row that is gone.
Reordered(s, from, to) ==
    IF from \in DOMAIN s THEN Table!InsertAt(Table!RemoveAt(s, from), to, s[from])
    ELSE Table!InsertAt(s, to, Table!None)

\* A drag keeps every row of the table.
LEMMA MovedRows ==
    ASSUME NEW S, Table!None \in S, NEW rows \in Seq(S), NEW from, NEW to \in DOMAIN rows
    PROVE  /\ Reordered(rows, from, to) \in Seq(S)
           /\ \A k \in DOMAIN rows : \E m \in DOMAIN Reordered(rows, from, to) :
                Reordered(rows, from, to)[m] = rows[k]
<1>. DEFINE w == Reordered(rows, from, to)
            n == Len(rows)
<1>1. n \in Nat /\ DOMAIN rows = 1..n /\ \A k \in DOMAIN rows : rows[k] \in S
  BY LenProperties
<1>. HIDE DEF w, n
<1>0. n \in Nat /\ to \in 1..n /\ to \in 1..(n + 1) /\ rows[to] \in S
  BY <1>1
<1>2. CASE from \in DOMAIN rows
  <2>. DEFINE s == Table!RemoveAt(rows, from)
  <2>1. /\ s \in Seq(S) /\ Len(s) = n - 1
        /\ \A p \in 1..n : p # from => s[IF p < from THEN p ELSE p - 1] = rows[p]
    BY <1>1, <1>2, Removed DEF n
  <2>. HIDE DEF s
  <2>2. to \in 1..(Len(s) + 1) /\ rows[from] \in S /\ s \in Seq(S)
    <3>1. Len(s) + 1 = n
      BY <1>0, <2>1
    <3>. QED
      BY <1>0, <1>1, <1>2, <2>1, <3>1
  <2>. DEFINE v == Table!InsertAt(s, to, rows[from])
  <2>3. /\ v \in Seq(S) /\ Len(v) = Len(s) + 1
        /\ \A p \in 1..Len(s) : v[IF p < to THEN p ELSE p + 1] = s[p]
        /\ v[to] = rows[from]
    BY <2>2, Inserted
  <2>. HIDE DEF v
  <2>4. w = v
    BY <1>2 DEF Reordered, s, v, w
  <2>5. DOMAIN v = 1..n
    BY <1>1, <2>1, <2>3, LenProperties
  <2>6. ASSUME NEW k \in DOMAIN rows PROVE \E m \in DOMAIN v : v[m] = rows[k]
    <3>1. CASE k = from
      BY <1>0, <1>1, <2>3, <2>5, <3>1
    <3>2. CASE k # from
      <4>. DEFINE p == IF k < from THEN k ELSE k - 1
                  m == IF p < to THEN p ELSE p + 1
      <4>1. p \in 1..Len(s) /\ s[p] = rows[k]
        BY <1>1, <1>2, <2>1, <3>2
      <4>. HIDE DEF p
      <4>2. v[m] = s[p] /\ m \in 1..n
        BY <1>0, <1>1, <2>1, <2>3, <4>1
      <4>. QED
        BY <2>5, <4>1, <4>2
    <3>. QED
      BY <3>1, <3>2
  <2>. QED
    BY <2>3, <2>4, <2>6 DEF w
<1>3. CASE from \notin DOMAIN rows
  <2>1. to \in 1..(n + 1)
    BY <1>0
  <2>. DEFINE v == Table!InsertAt(rows, to, Table!None)
  <2>2. /\ v \in Seq(S) /\ Len(v) = n + 1
        /\ \A p \in 1..n : v[IF p < to THEN p ELSE p + 1] = rows[p]
    BY <2>1, Inserted DEF n
  <2>. HIDE DEF v
  <2>3. w = v
    BY <1>3 DEF Reordered, v, w
  <2>4. DOMAIN v = 1..(n + 1)
    BY <2>2, LenProperties
  <2>5. ASSUME NEW k \in DOMAIN rows PROVE \E m \in DOMAIN v : v[m] = rows[k]
    <3>. DEFINE m == IF k < to THEN k ELSE k + 1
    <3>1. v[m] = rows[k] /\ m \in DOMAIN v
      BY <1>0, <1>1, <2>2, <2>4
    <3>. QED
      BY <3>1
  <2>. QED
    BY <2>2, <2>3, <2>5 DEF w
<1>. QED
  BY <1>2, <1>3

-----------------------------------------------------------------------------
(* The rules table.  The invariant: a failed load carries no rows, the     *)
(* target of the dialog is not the active instance, and the rows, the      *)
(* rules and the answers are sequences.                                    *)

Words == Table!Names \cup {Table!None}

RequestOk(r) ==
    /\ {"op", "id", "names", "to", "phase"} \subseteq DOMAIN r
    /\ r.id \in Ids
    /\ r.op \in {"load", "reorder"} => r.names \in Seq(Words)
    /\ r.op = "load" /\ r.phase \notin {"sent", "ok"} => r.names = <<>>
    /\ r.op = "move" => r.to # r.id

TableInv ==
    /\ rules \in [Ids -> Seq(Words)]
    /\ active \in Ids /\ timer \in Ids \cup {Table!None}
    /\ shown \in Seq(Words)
    /\ shown # <<>> => \A n \in selected : \E k \in DOMAIN shown : shown[k] = n
    /\ target # Table!None => target # active
    /\ \A r \in tRequests : RequestOk(r)

LEMMA TableInit ==
    ASSUME TabInit
    PROVE  TableInv
<1>1. StoredRules \in [Ids -> Seq(Words)]
  <2>1. ASSUME NEW i \in Ids PROVE StoredRules[i] \in Seq(Words)
    <3>. DEFINE S == {StoredRules[i][k] : k \in DOMAIN StoredRules[i]}
    <3>1. StoredRules[i] \in Seq(S)
      BY TableAssumption
    <3>2. S \subseteq Words
      BY DEF Words, Table!Names, Table!ToSet
    <3>. HIDE DEF S
    <3>3. Len(StoredRules[i]) \in Nat /\ StoredRules[i] \in [1..Len(StoredRules[i]) -> S]
      BY <3>1, LenProperties
    <3>4. StoredRules[i] \in [1..Len(StoredRules[i]) -> Words]
      BY <3>2, <3>3
    <3>. QED
      BY <3>3, <3>4, SeqDef
  <2>2. DOMAIN StoredRules = Ids /\ StoredRules = [i \in Ids |-> StoredRules[i]]
    BY TableAssumption
  <2>. QED
    BY <2>1, <2>2
<1>2. active \in Ids
  BY LogsAssumption DEF TabInit, Table!Init
<1>3. <<>> \in Seq(Words)
  BY EmptySeq
<1>. QED
  BY <1>1, <1>2, <1>3 DEF TabInit, Table!Init, TableInv, RequestOk, Table!Load, Table!Req

LEMMA WordsFixed == Words' = Words
  BY DEF Words, Table!Names

LEMMA LoadOk ==
    ASSUME NEW i \in Ids
    PROVE  RequestOk(Table!Load(i))
<1>1. <<>> \in Seq(Words)
  BY EmptySeq
<1>. QED
  BY <1>1 DEF RequestOk, Table!Load, Table!Req

\* A command that carries names.
LEMMA Requested ==
    ASSUME NEW op, NEW i \in Ids, NEW names, NEW to, op \notin {"load", "move"},
           op = "reorder" => names \in Seq(Words)
    PROVE  RequestOk(Table!Req(op, i, names, to))
  BY DEF RequestOk, Table!Req

\* The user switches the instance or the tab.
LEMMA SwitchStep ==
    ASSUME TableInv, Table!Switch
    PROVE  TableInv'
<1>1. ASSUME NEW i \in Ids, Table!Activate(i) PROVE TableInv'
  BY <1>1, LoadOk, WordsFixed DEF Table!Activate, Table!ResetChoice, Table!Send, TableInv, RequestOk
<1>2. ASSUME NEW t, Table!SwitchTab(t) PROVE TableInv'
  <2>1. RequestOk(Table!Load(active))
    BY LoadOk DEF TableInv
  <2>. QED
    BY <1>2, <2>1, WordsFixed DEF Table!SwitchTab, Table!Send, TableInv, RequestOk
<1>. QED
  BY <1>1, <1>2 DEF Table!Switch, Table!Select, Table!SelectedByAnswer

\* A drop: the rows are all there, in another order.
LEMMA DropStep ==
    ASSUME TableInv, NEW k, k \in DOMAIN shown, Table!Drop(k)
    PROVE  TableInv'
<1>1. Table!None \in Words /\ shown \in Seq(Words)
  BY DEF Words, TableInv
<1>2. /\ Table!Moved(drag, k) \in Seq(Words)
      /\ \A j \in DOMAIN shown : \E m \in DOMAIN Table!Moved(drag, k) :
           Table!Moved(drag, k)[m] = shown[j]
  <2>1. /\ Reordered(shown, drag, k) \in Seq(Words)
        /\ \A j \in DOMAIN shown : \E m \in DOMAIN Reordered(shown, drag, k) :
             Reordered(shown, drag, k)[m] = shown[j]
    BY <1>1, MovedRows
  <2>2. Table!Moved(drag, k) = Reordered(shown, drag, k)
    BY DEF Table!Moved, Reordered
  <2>. QED
    BY <2>1, <2>2
<1>3. shown' = Table!Moved(drag, k) /\ shown # <<>>
  BY DEF Table!Drop
<1>4. shown' \in Seq(Words)
  BY <1>2, <1>3
<1>5. \A n \in selected' : \E m \in DOMAIN shown' : shown'[m] = n
  BY <1>2, <1>3 DEF Table!Drop, TableInv
<1>6. \A r \in tRequests' : RequestOk(r)
  <2>1. /\ RequestOk(Table!Load(active))
        /\ RequestOk(Table!Req("reorder", active, shown', Table!None))
    <3>1. active \in Ids /\ "reorder" \notin {"load", "move"}
      BY DEF TableInv
    <3>. QED
      BY <1>4, <3>1, LoadOk, Requested
  <2>. QED
    BY <2>1 DEF Table!Drop, Table!Send, TableInv
<1>7. \A r \in tRequests' : RequestOk(r)'
  BY <1>6 DEF RequestOk, Words, Table!Names
<1>. QED
  BY <1>4, <1>5, <1>7 DEF Table!Drop, TableInv, Words, Table!Names

LEMMA CommandStep ==
    ASSUME TableInv, Table!Command
    PROVE  TableInv'
<1>1. ASSUME NEW names, Table!Choose(names) PROVE TableInv'
  BY <1>1 DEF Table!Choose, Table!Rows, Table!ToSet, TableInv, RequestOk
<1>2. ASSUME NEW op \in {"toggle", "delete"}, NEW n, Table!RowCommand(op, n) PROVE TableInv'
  <2>1. active \in Ids /\ op \notin {"load", "move"} /\ op # "reorder"
    BY <1>2 DEF TableInv
  <2>2. RequestOk(Table!Req(op, active, <<n>>, Table!None))
    BY <2>1, Requested
  <2>. QED
    BY <1>2, <2>2, WordsFixed DEF Table!RowCommand, Table!Send, Table!page, TableInv, RequestOk
<1>3. ASSUME Table!BatchDelete PROVE TableInv'
  BY <1>3, Requested DEF Table!BatchDelete, Table!Send, Table!page, TableInv, RequestOk
<1>4. ASSUME Table!OpenMigrate \/ Table!CancelMigrate \/ Table!DragEnd
             \/ (\E i \in Ids : Table!ChooseTarget(i)) \/ (\E k \in DOMAIN shown : Table!DragStart(k))
      PROVE  TableInv'
  BY <1>4 DEF Table!OpenMigrate, Table!CancelMigrate, Table!DragEnd, Table!ChooseTarget,
     Table!DragStart, TableInv, RequestOk
<1>5. ASSUME Table!Migrate PROVE TableInv'
  <2>1. RequestOk(Table!Req("move", active, Table!SetToSeq(selected), target))
    BY <1>5 DEF Table!Migrate, TableInv, RequestOk, Table!Req
  <2>. QED
    BY <1>5, <2>1 DEF Table!Migrate, Table!Send, TableInv, RequestOk
<1>. QED
  BY <1>1, <1>2, <1>3, <1>4, <1>5, DropStep DEF Table!Command

\* An answer put in the place of a request.
LEMMA Answering ==
    ASSUME NEW r, NEW phase, NEW names, RequestOk(r), Table!Answer(r, phase, names),
           \A q \in tRequests : RequestOk(q),
           r.op = "load" => names \in Seq(Words),
           r.op = "reorder" => names \in Seq(Words),
           r.op = "load" /\ phase # "ok" => names = <<>>
    PROVE  \A q \in tRequests' : RequestOk(q)
<1>. DEFINE q == [r EXCEPT !.phase = phase, !.names = names]
<1>1. /\ DOMAIN q = DOMAIN r
      /\ q.op = r.op /\ q.id = r.id /\ q.to = r.to /\ q.phase = phase /\ q.names = names
  BY DEF RequestOk
<1>. HIDE DEF q
<1>2. RequestOk(q)
  BY <1>1 DEF RequestOk
<1>. QED
  BY <1>2 DEF Table!Answer, q

LEMMA DaemonStep ==
    ASSUME TableInv, Table!Daemon
    PROVE  TableInv'
<1>0. <<>> \in Seq(Words) /\ Words' = Words
  BY EmptySeq DEF Words, Table!Names
<1>1. ASSUME NEW s \in Seq(Words), NEW names
      PROVE  Table!Only(s, names) \in Seq(Words) /\ Table!Without(s, names) \in Seq(Words)
  BY <1>1, OnlyIsSeq DEF Table!Without
<1>2. ASSUME NEW s \in Seq(Words), NEW t \in Seq(Words)
      PROVE  Table!Ranked(s, t) \in Seq(Words) /\ s \o t \in Seq(Words)
  <2>1. Table!Only(t, Table!ToSet(s)) \in Seq(Words) /\ Table!Without(s, Table!ToSet(t)) \in Seq(Words)
    BY <1>1
  <2>2. s \o t \in Seq(Words)
    BY ConcatProperties
  <2>3. Table!Only(t, Table!ToSet(s)) \o Table!Without(s, Table!ToSet(t)) \in Seq(Words)
    BY <2>1, ConcatProperties
  <2>. QED
    BY <2>2, <2>3 DEF Table!Ranked
<1>3. ASSUME NEW r \in tRequests, Table!Serve(r) \/ Table!HalfMove(r) \/ Table!Fail(r)
      PROVE  /\ rules' \in [Ids -> Seq(Words)]
             /\ \A q \in tRequests' : RequestOk(q)
             /\ UNCHANGED <<active, timer, shown, selected, target>>
  <2>. DEFINE hit == Table!Only(rules[r.id], Table!ToSet(r.names))
              rest == Table!Without(rules[r.id], Table!ToSet(r.names))
  <2>0. RequestOk(r) /\ r.id \in Ids /\ rules \in [Ids -> Seq(Words)]
    BY DEF TableInv, RequestOk
  <2>1. hit \in Seq(Words) /\ rest \in Seq(Words)
    BY <1>1, <2>0
  <2>2. rules' \in [Ids -> Seq(Words)]
    <3>. HIDE DEF hit, rest
    <3>0. /\ \A i \in Ids : rules[i] \o hit \in Seq(Words)
          /\ rest \o hit \in Seq(Words)
      BY <1>2, <2>0, <2>1
    <3>1. CASE rules' = rules
      BY <2>0, <3>1
    <3>2. CASE rules' = [rules EXCEPT ![r.id] = rest]
      BY <2>0, <2>1, <3>2
    <3>3. CASE r.op = "reorder" /\ rules' = [rules EXCEPT ![r.id] = Table!Ranked(@, r.names)]
      <4>1. r.names \in Seq(Words) /\ rules[r.id] \in Seq(Words)
        BY <2>0, <3>3 DEF RequestOk
      <4>2. Table!Ranked(rules[r.id], r.names) \in Seq(Words)
        BY <1>2, <4>1
      <4>. QED
        BY <2>0, <3>3, <4>2
    <3>4. CASE rules' = [rules EXCEPT ![r.id] = rest, ![r.to] = @ \o hit]
      BY <2>0, <2>1, <3>0, <3>4
    <3>5. CASE rules' = [rules EXCEPT ![r.to] = @ \o hit]
      BY <2>0, <2>1, <3>0, <3>5
    <3>. QED
      BY <1>3, <3>1, <3>2, <3>3, <3>4, <3>5
         DEF Table!Serve, Table!HalfMove, Table!Fail, Table!Store, hit, rest
  <2>3. \A q \in tRequests' : RequestOk(q)
    <3>1. CASE r.op = "load" /\ Table!Answer(r, "ok", rules[r.id])
      BY <2>0, <3>1, Answering DEF TableInv
    <3>2. CASE r.op # "load" /\ \E phase : Table!Answer(r, phase, <<>>)
      BY <1>0, <2>0, <3>2, Answering DEF TableInv
    <3>3. CASE Table!Answer(r, "failed", <<>>)
      BY <1>0, <2>0, <3>3, Answering DEF TableInv
    <3>. QED
      BY <1>3, <3>1, <3>2, <3>3 DEF Table!Serve, Table!HalfMove, Table!Fail
  <2>4. UNCHANGED <<active, timer, shown, selected, target>>
    BY <1>3 DEF Table!Serve, Table!HalfMove, Table!Fail, Table!page
  <2>. QED
    BY <2>2, <2>3, <2>4
<1>4. ASSUME NEW i \in Ids, NEW n \in Table!Names, Table!Outside(i, n)
      PROVE  /\ rules' \in [Ids -> Seq(Words)]
             /\ UNCHANGED <<active, timer, shown, selected, target, tRequests>>
  <2>1. rules \in [Ids -> Seq(Words)] /\ rules[i] \in Seq(Words) /\ n \in Words
    BY DEF TableInv, Words
  <2>2. Table!Without(rules[i], {n}) \in Seq(Words) /\ Append(rules[i], n) \in Seq(Words)
    BY <1>1, <2>1, AppendProperties
  <2>. QED
    BY <1>4, <2>1, <2>2 DEF Table!Outside, Table!Store, Table!page
<1>5. CASE \E r \in tRequests : Table!Serve(r) \/ Table!HalfMove(r) \/ Table!Fail(r)
  <2>1. /\ rules' \in [Ids -> Seq(Words)]
        /\ \A q \in tRequests' : RequestOk(q)
        /\ UNCHANGED <<active, timer, shown, selected, target>>
    BY <1>3, <1>5
  <2>. QED
    BY <1>0, <2>1 DEF TableInv, RequestOk
<1>6. CASE \E i \in Ids, n \in Table!Names : Table!Outside(i, n)
  <2>1. /\ rules' \in [Ids -> Seq(Words)]
        /\ UNCHANGED <<active, timer, shown, selected, target, tRequests>>
    BY <1>4, <1>6
  <2>. QED
    BY <1>0, <2>1 DEF TableInv, RequestOk
<1>. QED
  BY <1>5, <1>6 DEF Table!Daemon

LEMMA ArriveStep ==
    ASSUME TableInv, Table!Arrive
    PROVE  TableInv'
<1>0. Words' = Words
  BY DEF Words, Table!Names
<1>1. ASSUME NEW r \in tRequests, Table!DeliverLoad(r) PROVE TableInv'
  <2>1. RequestOk(r) /\ r.op = "load" /\ r.phase # "sent"
    BY <1>1 DEF Table!DeliverLoad, TableInv
  <2>2. shown' = r.names /\ shown' \in Seq(Words)
    BY <1>1, <2>1 DEF Table!DeliverLoad, RequestOk
  <2>3. shown' # <<>> => \A n \in selected' : \E k \in DOMAIN shown' : shown'[k] = n
    <3>1. CASE r.phase = "ok"
      BY <1>1, <2>2, <3>1 DEF Table!DeliverLoad, Table!Reconciled, Table!ToSet
    <3>2. CASE r.phase # "ok"
      BY <2>1, <2>2, <3>2 DEF RequestOk
    <3>. QED
      BY <3>1, <3>2
  <2>. QED
    BY <1>0, <1>1, <2>2, <2>3 DEF Table!DeliverLoad, TableInv, RequestOk
<1>2. ASSUME NEW r \in tRequests, Table!DeliverCommand(r) \/ Table!DeliverMove(r) PROVE TableInv'
  <2>1. r.id \in Ids
    BY DEF TableInv, RequestOk
  <2>2. RequestOk(Table!Load(r.id))
    BY <2>1, LoadOk
  <2>3. \A q \in tRequests' : RequestOk(q)
    BY <1>2, <2>2 DEF Table!DeliverCommand, Table!DeliverMove, Table!ThenLoad, TableInv
  <2>4. /\ UNCHANGED <<rules, active, timer, shown>>
        /\ selected' = selected \/ selected' = {}
        /\ target' = target \/ target' = Table!None
    BY <1>2 DEF Table!DeliverCommand, Table!DeliverMove, Table!ResetChoice
  <2>. QED
    BY <1>0, <2>3, <2>4 DEF TableInv, RequestOk
<1>3. ASSUME NEW i \in Ids, Table!Hear(i) PROVE TableInv'
  BY <1>0, <1>3 DEF Table!Hear, TableInv, RequestOk
<1>4. ASSUME Table!TimerFires PROVE TableInv'
  <2>1. timer \in Ids
    BY <1>4 DEF Table!TimerFires, TableInv
  <2>2. RequestOk(Table!Load(timer))
    BY <2>1, LoadOk
  <2>3. \A q \in tRequests' : RequestOk(q)
    BY <1>4, <2>2 DEF Table!TimerFires, Table!Send, TableInv
  <2>. QED
    BY <1>0, <1>4, <2>3 DEF Table!TimerFires, TableInv, RequestOk
<1>. QED
  BY <1>1, <1>2, <1>3, <1>4 DEF Table!Arrive

LEMMA AlwaysTableInv == TabSpec => []TableInv
<1>1. TabInit => TableInv
  BY TableInit
<1>2. ASSUME TableInv, [TabNext]_tabVars PROVE TableInv'
  <2>1. CASE UNCHANGED tVars
    <3>1. UNCHANGED <<rules, active, timer, shown, selected, target, tRequests>>
      BY <2>1 DEF tVars
    <3>. QED
      BY <1>2, <3>1, WordsFixed DEF TableInv, RequestOk
  <2>2. CASE Table!Next
    BY <1>2, <2>2, SwitchStep, CommandStep, DaemonStep, ArriveStep DEF Table!Next
  <2>. QED
    BY <1>2, <2>1, <2>2 DEF TabNext, tabVars
<1>. QED
  BY <1>1, <1>2, PTL DEF TabSpec

\* Whatever was deleted, moved or renamed meanwhile, the rules that are checked
\* are rows of the table, unless it is empty (loadProxies).
THEOREM SelectionStaysShown == TabSpec => []SelectionShown
<1>1. TableInv => SelectionShown
  BY DEF TableInv, SelectionShown, Table!SelectionShown, Table!Rows, Table!ToSet
<1>. QED
  BY <1>1, AlwaysTableInv, PTL

\* However late an answer changes the active instance under the open dialog, no
\* move is sent to the instance it moves from (the effect on [activeConfigId]).
THEOREM MovesStayApart == TabSpec => []MovesApart
<1>1. TableInv => MovesApart
  BY DEF TableInv, RequestOk, MovesApart, Table!MovesApart
<1>. QED
  BY <1>1, AlwaysTableInv, PTL

-----------------------------------------------------------------------------
(* The live logs.  The invariant: while the history is on its way the view *)
(* is on screen, of the instance asked for, and without a live socket; a   *)
(* live socket is the one held, and has sent every line that is shown.     *)

\* Lines of an instance, each once and in order.
Fine(s, i) ==
    /\ s \in Seq(Nat) /\ Increasing(s)
    /\ \A k \in DOMAIN s : s[k] \in DOMAIN file /\ file[s[k]] = i

Streams ==
    [id : Ids, seen : Nat, state : {"connecting", "open", "closing", "closed"}]

LiveIn(s) == {k \in DOMAIN s : s[k].state \in {"connecting", "open"}}

HistoryOk(r) ==
    /\ {"op", "id", "phase", "got"} \subseteq DOMAIN r
    /\ r.op \in {"load", "clear"} /\ r.id \in Ids
    /\ r.op = "load" =>
         /\ on /\ r.id = watched /\ LiveIn(sockets) = {}
         /\ r.phase = "ok" => Fine(r.got, r.id) /\ Len(r.got) <= Keep

StreamOk(s) ==
    /\ s = ref /\ on /\ sockets[s].id = watched
    /\ sockets[s].state = "open" =>
         sockets[s].seen <= Len(file) /\ \A k \in DOMAIN lines : lines[k] <= sockets[s].seen

LogsInv ==
    /\ file \in Seq(Ids) /\ watched \in Ids
    /\ ref \in 0..Len(sockets) /\ sockets \in Seq(Streams)
    /\ Fine(lines, watched) /\ Len(lines) <= Keep
    /\ \A s \in LiveIn(sockets) : StreamOk(s)
    /\ \A r \in lRequests : HistoryOk(r)
    /\ \A q, r \in lRequests : q.op = "load" /\ r.op = "load" => q = r

LEMMA NoLines == \A i : Fine(<<>>, i) /\ Len(<<>>) = 0
<1>1. <<>> \in Seq(Nat) /\ Len(<<>>) = 0 /\ DOMAIN <<>> = {}
  BY EmptySeq
<1>. QED
  BY <1>1 DEF Fine, Increasing

LEMMA AppendedFine ==
    ASSUME NEW s, NEW i, Fine(s, i), NEW n \in Nat, n \in DOMAIN file, file[n] = i,
           \A k \in DOMAIN s : s[k] < n
    PROVE  /\ Fine(Append(s, n), i)
           /\ \A k \in DOMAIN Append(s, n) : Append(s, n)[k] <= n
<1>. DEFINE a == Append(s, n)
<1>1. s \in Seq(Nat) /\ Len(s) \in Nat /\ DOMAIN s = 1..Len(s) /\ \A k \in DOMAIN s : s[k] \in Nat
  BY LenProperties DEF Fine
<1>2. /\ a \in Seq(Nat) /\ Len(a) = Len(s) + 1
      /\ \A k \in 1..Len(s) : a[k] = s[k]
      /\ a[Len(s) + 1] = n
  BY <1>1, AppendProperties
<1>3. DOMAIN a = 1..(Len(s) + 1)
  BY <1>2, LenProperties
<1>. HIDE DEF a
<1>4. ASSUME NEW k \in DOMAIN a PROVE (k \in DOMAIN s /\ a[k] = s[k]) \/ (k = Len(s) + 1 /\ a[k] = n)
  BY <1>1, <1>2, <1>3
<1>5. ASSUME NEW j \in DOMAIN a, NEW k \in DOMAIN a, j < k PROVE a[j] < a[k]
  <2>1. j \in DOMAIN s /\ a[j] = s[j]
    BY <1>1, <1>2, <1>3, <1>5
  <2>. QED
    BY <1>4, <1>5, <2>1 DEF Fine, Increasing
<1>6. \A k \in DOMAIN a : a[k] \in DOMAIN file /\ file[a[k]] = i
  BY <1>4 DEF Fine
<1>7. \A k \in DOMAIN a : a[k] <= n
  BY <1>1, <1>4
<1>. QED
  BY <1>2, <1>5, <1>6, <1>7 DEF Fine, Increasing, a

LEMMA NewestFine ==
    ASSUME NEW s, NEW i, Fine(s, i)
    PROVE  /\ Fine(Logs!Newest(s), i) /\ Len(Logs!Newest(s)) <= Keep
           /\ \A k \in DOMAIN Logs!Newest(s) : \E m \in DOMAIN s : Logs!Newest(s)[k] = s[m]
<1>. DEFINE n == Len(s)
            v == SubSeq(s, n - Keep + 1, n)
<1>1. Keep \in Nat
  BY LogsAssumption
<1>2. s \in Seq(Nat) /\ n \in Nat /\ DOMAIN s = 1..n /\ \A k \in DOMAIN s : s[k] \in Nat
  BY LenProperties DEF Fine
<1>3. CASE ~(n > Keep)
  <2>1. Logs!Newest(s) = s
    BY <1>3 DEF Logs!Newest
  <2>. QED
    BY <1>1, <1>2, <1>3, <2>1
<1>4. CASE n > Keep
  <2>. HIDE DEF n
  <2>1. n - Keep + 1 \in Int /\ n \in Int /\ \A k \in (n - Keep + 1)..n : s[k] \in Nat
    BY <1>1, <1>2, <1>4
  <2>2. /\ v \in Seq(Nat)
        /\ Len(v) = IF n - Keep + 1 <= n THEN n - (n - Keep + 1) + 1 ELSE 0
        /\ \A k \in 1..(n - (n - Keep + 1) + 1) : v[k] = s[(n - Keep + 1) + k - 1]
    BY <2>1, SubSeqProperties
  <2>. HIDE DEF v
  <2>3. Len(v) = Keep /\ \A k \in 1..Keep : v[k] = s[n - Keep + k]
    BY <1>1, <1>2, <1>4, <2>2
  <2>4. DOMAIN v = 1..Keep
    BY <2>2, <2>3, LenProperties
  <2>5. ASSUME NEW k \in DOMAIN v PROVE n - Keep + k \in DOMAIN s /\ v[k] = s[n - Keep + k]
    BY <1>1, <1>2, <1>4, <2>3, <2>4
  <2>6. Increasing(v)
    <3>1. ASSUME NEW j \in DOMAIN v, NEW k \in DOMAIN v, j < k PROVE v[j] < v[k]
      <4>1. n - Keep + j < n - Keep + k
        BY <1>1, <1>2, <2>4, <3>1
      <4>. QED
        BY <2>5, <4>1 DEF Fine, Increasing
    <3>. QED
      BY <3>1 DEF Increasing
  <2>7. Logs!Newest(s) = v
    BY <1>4 DEF Logs!Newest, v, n
  <2>8. Len(v) <= Keep
    BY <1>1, <2>3
  <2>. QED
    BY <2>2, <2>5, <2>6, <2>7, <2>8 DEF Fine
<1>. QED
  BY <1>3, <1>4

\* What the daemon answers: the lines of the instance, and none besides.
LEMMA LinesOfFine ==
    ASSUME NEW i, file \in Seq(Ids)
    PROVE  Fine(Logs!LinesOf(i), i)
<1>. DEFINE T == {k \in DOMAIN file : file[k] = i /\ k > mark[i]}
            t == Logs!Sorted(T)
<1>1. Len(file) \in Nat /\ DOMAIN file = 1..Len(file)
  BY LenProperties
<1>2. T \in SUBSET (1..Len(file))
  BY <1>1
<1>3. Cardinality(T) \in Nat /\ t \in [1..Cardinality(T) -> T] /\ Increasing(t)
  BY <1>1, <1>2, SortedFacts
<1>4. \A k \in T : k \in Nat /\ k \in DOMAIN file /\ file[k] = i
  BY <1>1
<1>5. Logs!LinesOf(i) = t
  BY DEF Logs!LinesOf
<1>. HIDE DEF t, T
<1>6. t \in Seq(Nat) /\ \A k \in DOMAIN t : t[k] \in T
  <2>. DEFINE c == Cardinality(T)
  <2>1. c \in Nat /\ t \in [1..c -> T]
    BY <1>3
  <2>. HIDE DEF c
  <2>2. t \in [1..c -> Nat] /\ \A k \in DOMAIN t : t[k] \in T
    BY <1>4, <2>1
  <2>. QED
    BY <2>1, <2>2, SeqDef
<1>. QED
  BY <1>3, <1>4, <1>5, <1>6 DEF Fine

LEMMA LogsInit ==
    ASSUME TabInit
    PROVE  LogsInv
<1>1. /\ file = <<>> /\ watched \in Ids /\ ref = 0 /\ sockets = <<>> /\ lines = <<>>
      /\ lRequests = {}
  BY LogsAssumption DEF TabInit, Logs!Init
<1>2. <<>> \in Seq(Ids) /\ <<>> \in Seq(Streams) /\ Len(<<>>) = 0 /\ DOMAIN <<>> = {}
  BY EmptySeq
<1>3. 0 <= Keep
  BY LogsAssumption
<1>. QED
  BY <1>1, <1>2, <1>3, NoLines DEF LogsInv, LiveIn

\* The sockets after the view has closed the one it holds.
LEMMA ClosedFacts ==
    ASSUME LogsInv
    PROVE  Logs!Closed \in Seq(Streams) /\ LiveIn(Logs!Closed) = {}
<1>1. /\ sockets \in Seq(Streams) /\ Len(sockets) \in Nat /\ DOMAIN sockets = 1..Len(sockets)
      /\ \A s \in DOMAIN sockets : sockets[s] \in Streams
  BY LenProperties DEF LogsInv
<1>2. ref \in 0..Len(sockets) /\ \A s \in LiveIn(sockets) : s = ref
  BY DEF LogsInv, StreamOk
<1>3. CASE ref = 0
  BY <1>1, <1>2, <1>3 DEF Logs!Closed, LiveIn
<1>4. CASE ref # 0
  <2>. DEFINE e == [sockets[ref] EXCEPT !.state = "closing"]
  <2>1. ref \in 1..Len(sockets) /\ e \in Streams /\ e.state = "closing"
    BY <1>1, <1>2, <1>4 DEF Streams
  <2>2. Logs!Closed = [sockets EXCEPT ![ref] = e]
    BY <1>4 DEF Logs!Closed
  <2>. HIDE DEF e
  <2>3. [sockets EXCEPT ![ref] = e] \in Seq(Streams)
    BY <1>1, <2>1, ExceptSeq
  <2>4. LiveIn([sockets EXCEPT ![ref] = e]) = {}
    BY <1>1, <1>2, <2>1 DEF LiveIn
  <2>. QED
    BY <2>2, <2>3, <2>4
<1>. QED
  BY <1>3, <1>4

LEMMA OpenedFacts ==
    ASSUME NEW s \in Seq(Streams), NEW i \in Ids
    PROVE  /\ Logs!Opened(s, i) \in Seq(Streams)
           /\ Len(Logs!Opened(s, i)) = Len(s) + 1
           /\ LiveIn(s) = {} => LiveIn(Logs!Opened(s, i)) \subseteq {Len(s) + 1}
           /\ Logs!Opened(s, i)[Len(s) + 1].id = i
           /\ Logs!Opened(s, i)[Len(s) + 1].state = "connecting"
<1>. DEFINE e == [id |-> i, seen |-> 0, state |-> "connecting"]
            a == Append(s, e)
<1>1. e \in Streams /\ e.id = i /\ e.state = "connecting"
  BY DEF Streams
<1>. HIDE DEF e
<1>2. Len(s) \in Nat /\ DOMAIN s = 1..Len(s)
  BY LenProperties
<1>3. /\ a \in Seq(Streams) /\ Len(a) = Len(s) + 1
      /\ \A k \in 1..Len(s) : a[k] = s[k]
      /\ a[Len(s) + 1] = e
  BY <1>1, AppendProperties
<1>4. Logs!Opened(s, i) = a
  BY DEF Logs!Opened, e
<1>. HIDE DEF a
<1>5. DOMAIN a = 1..(Len(s) + 1)
  BY <1>3, LenProperties
<1>6. LiveIn(s) = {} => LiveIn(a) \subseteq {Len(s) + 1}
  BY <1>2, <1>3, <1>5 DEF LiveIn
<1>. QED
  BY <1>1, <1>3, <1>4, <1>6

\* A view that starts, with no history on its way.
LEMMA StartStep ==
    ASSUME LogsInv, NEW i \in Ids, Logs!Start(i), ~Logs!Loading,
           watched' = i, on' = TRUE, file' = file
    PROVE  LogsInv'
<1>1. lines' = <<>> /\ Fine(<<>>, i) /\ Len(<<>>) <= Keep /\ DOMAIN <<>> = {}
  BY NoLines, EmptySeq, LogsAssumption DEF Logs!Start
<1>2. Fine(lines, i)' /\ Len(lines') <= Keep
  BY <1>1 DEF Fine
<1>3. \A r \in lRequests : r.op = "clear" /\ HistoryOk(r)
  BY DEF Logs!Loading, LogsInv, HistoryOk
<1>4. CASE view = "mini"
  <2>. DEFINE q == [op |-> "load", id |-> i, phase |-> "sent", got |-> <<>>]
  <2>1. sockets' = Logs!Closed /\ ref' = 0 /\ lRequests' = lRequests \cup {q}
    BY <1>4 DEF Logs!Start
  <2>2. sockets' \in Seq(Streams) /\ LiveIn(sockets') = {} /\ Len(sockets') \in Nat
    BY <2>1, ClosedFacts, LenProperties
  <2>3. HistoryOk(q)'
    BY <2>2 DEF HistoryOk, LiveIn
  <2>4. \A r \in lRequests : HistoryOk(r)'
    BY <1>3 DEF HistoryOk
  <2>5. q.op = "load"
    OBVIOUS
  <2>. HIDE DEF q
  <2>6. \A p, r \in lRequests' : p.op = "load" /\ r.op = "load" => p = r
    BY <1>3, <2>1
  <2>. QED
    <3>1. file' \in Seq(Ids) /\ watched' \in Ids /\ Fine(lines, watched)' /\ Len(lines') <= Keep
      BY <1>2 DEF LogsInv, Fine
    <3>2. ref' \in 0..Len(sockets') /\ sockets' \in Seq(Streams)
      BY <2>1, <2>2
    <3>3. \A s \in LiveIn(sockets)' : StreamOk(s)'
      BY <2>2
    <3>4. \A r \in lRequests' : HistoryOk(r)'
      BY <2>1, <2>3, <2>4
    <3>. QED
      BY <2>6, <3>1, <3>2, <3>3, <3>4 DEF LogsInv, Streams
<1>5. CASE view # "mini"
  <2>1. sockets' = Logs!Opened(Logs!Closed, i) /\ ref' = Len(sockets') /\ lRequests' = lRequests
    BY <1>5 DEF Logs!Start
  <2>. DEFINE c == Logs!Closed
  <2>2. c \in Seq(Streams) /\ LiveIn(c) = {} /\ Len(c) \in Nat
    BY ClosedFacts, LenProperties
  <2>. HIDE DEF c
  <2>3. /\ Logs!Opened(c, i) \in Seq(Streams)
        /\ Len(Logs!Opened(c, i)) = Len(c) + 1
        /\ LiveIn(Logs!Opened(c, i)) \subseteq {Len(c) + 1}
        /\ Logs!Opened(c, i)[Len(c) + 1].id = i
        /\ Logs!Opened(c, i)[Len(c) + 1].state = "connecting"
    BY <2>2, OpenedFacts
  <2>4. sockets' = Logs!Opened(c, i)
    BY <2>1 DEF c
  <2>5. /\ sockets' \in Seq(Streams) /\ ref' \in 0..Len(sockets')
        /\ \A s \in LiveIn(sockets') : s = ref' /\ sockets'[s].id = i /\ sockets'[s].state = "connecting"
    BY <2>1, <2>2, <2>3, <2>4
  <2>6. \A s \in LiveIn(sockets)' : StreamOk(s)'
    BY <2>5 DEF StreamOk, LiveIn
  <2>7. \A r \in lRequests' : HistoryOk(r)'
    BY <1>3, <2>1 DEF HistoryOk
  <2>8. \A p, r \in lRequests' : p.op = "load" /\ r.op = "load" => p = r
    BY <2>1 DEF LogsInv
  <2>. QED
    <3>1. file' \in Seq(Ids) /\ watched' \in Ids /\ Fine(lines, watched)' /\ Len(lines') <= Keep
      BY <1>2 DEF LogsInv, Fine
    <3>. QED
      BY <2>5, <2>6, <2>7, <2>8, <3>1 DEF LogsInv, Streams
<1>. QED
  BY <1>4, <1>5

\* Steps that leave the view and its sockets alone, and may empty the panel.
LEMMA QuietStep ==
    ASSUME LogsInv, UNCHANGED <<file, watched, on, ref, sockets>>,
           lines' = lines \/ lines' = <<>>,
           \A r \in lRequests' : r \in lRequests \/ (r.op = "clear" /\ HistoryOk(r))
    PROVE  LogsInv'
<1>1. Fine(lines, watched)' /\ Len(lines') <= Keep
  <2>1. Fine(lines', watched) /\ Len(lines') <= Keep
    BY NoLines, LogsAssumption DEF LogsInv
  <2>. QED
    BY <2>1 DEF Fine
<1>2. \A s \in LiveIn(sockets)' : StreamOk(s)'
  <2>1. DOMAIN <<>> = {}
    OBVIOUS
  <2>. QED
    BY <2>1 DEF LogsInv, StreamOk
<1>3. \A r \in lRequests' : HistoryOk(r)'
  BY DEF LogsInv, HistoryOk, Fine
<1>4. \A q, r \in lRequests' : q.op = "load" /\ r.op = "load" => q = r
  BY DEF LogsInv
<1>. QED
  BY <1>1, <1>2, <1>3, <1>4 DEF LogsInv, Streams

\* A request that is answered.
LEMMA AnsweredStep ==
    ASSUME LogsInv, UNCHANGED <<file, watched, on, ref, sockets, lines>>,
           NEW r \in lRequests, NEW q, q.op = r.op, HistoryOk(q),
           lRequests' = (lRequests \ {r}) \cup {q}
    PROVE  LogsInv'
<1>1. Fine(lines, watched)' /\ Len(lines') <= Keep
  BY DEF LogsInv, Fine
<1>2. \A s \in LiveIn(sockets)' : StreamOk(s)'
  BY DEF LogsInv, StreamOk
<1>3. \A p \in lRequests' : HistoryOk(p)'
  BY DEF LogsInv, HistoryOk, Fine
<1>4. \A p, s \in lRequests' : p.op = "load" /\ s.op = "load" => p = s
  BY DEF LogsInv
<1>. QED
  BY <1>1, <1>2, <1>3, <1>4 DEF LogsInv, Streams

\* Whoever leaves or reloads while a history loads is hasty from then on.
LEMMA Unhurried ==
    ASSUME Logs!NoteHaste, ~hasty'
    PROVE  ~hasty /\ ~Logs!Loading
BY DEF Logs!NoteHaste

\* The user, as long as no history is abandoned.
LEMMA VisitorStep ==
    ASSUME ~hasty', LogsInv,
           (\E i \in Ids : Logs!Watch(i)) \/ Logs!Reload \/ Logs!Leave \/ Logs!Pause \/ Logs!Clear
    PROVE  LogsInv'
<1>1. ASSUME NEW i \in Ids, Logs!Watch(i) PROVE LogsInv'
  <2>1. /\ Logs!Start(i) /\ ~Logs!Loading
        /\ watched' = i /\ on' = TRUE /\ file' = file
    BY <1>1, Unhurried DEF Logs!Watch
  <2>. QED
    BY <2>1, StartStep
<1>2. ASSUME Logs!Reload PROVE LogsInv'
  <2>1. /\ Logs!Start(watched) /\ ~Logs!Loading
        /\ watched' = watched /\ on' = TRUE /\ file' = file
    BY <1>2, Unhurried DEF Logs!Reload
  <2>2. PICK i \in Ids : i = watched
    BY DEF LogsInv
  <2>3. Logs!Start(i) /\ watched' = i
    BY <2>1, <2>2
  <2>. QED
    BY <2>1, <2>3, StartStep
<1>3. ASSUME Logs!Leave PROVE LogsInv'
  <2>1. /\ ~Logs!Loading /\ UNCHANGED <<file, watched, lines, lRequests>>
        /\ sockets' = Logs!Closed /\ ref' = 0
    BY <1>3, Unhurried DEF Logs!Leave
  <2>2. sockets' \in Seq(Streams) /\ LiveIn(sockets') = {} /\ ref' \in 0..Len(sockets')
    <3>1. Logs!Closed \in Seq(Streams) /\ LiveIn(Logs!Closed) = {}
      BY ClosedFacts
    <3>2. Len(Logs!Closed) \in Nat
      BY <3>1, LenProperties
    <3>. QED
      BY <2>1, <3>1, <3>2
  <2>3. \A r \in lRequests : r.op = "clear" /\ HistoryOk(r)
    BY <2>1 DEF Logs!Loading, LogsInv, HistoryOk
  <2>4. \A r \in lRequests' : HistoryOk(r)'
    BY <2>1, <2>3 DEF HistoryOk
  <2>5. Fine(lines, watched)' /\ Len(lines') <= Keep
    BY <2>1 DEF LogsInv, Fine
  <2>6. \A s \in LiveIn(sockets)' : StreamOk(s)'
    BY <2>2
  <2>7. \A q, r \in lRequests' : q.op = "load" /\ r.op = "load" => q = r
    BY <2>1 DEF LogsInv
  <2>. QED
    BY <2>1, <2>2, <2>4, <2>5, <2>6, <2>7 DEF LogsInv, Streams
<1>4. ASSUME Logs!Pause PROVE LogsInv'
  BY <1>4, QuietStep DEF Logs!Pause
<1>5. ASSUME Logs!Clear PROVE LogsInv'
  <2>. DEFINE q == [op |-> "clear", id |-> watched, phase |-> "sent", got |-> <<>>]
  <2>1. q.op = "clear" /\ HistoryOk(q)
    BY DEF HistoryOk, LogsInv
  <2>2. /\ UNCHANGED <<file, watched, on, ref, sockets>>
        /\ lines' = lines \/ lines' = <<>>
        /\ lRequests' = lRequests \cup {q} \/ lRequests' = lRequests
    BY <1>5 DEF Logs!Clear
  <2>. HIDE DEF q
  <2>3. \A r \in lRequests' : r \in lRequests \/ (r.op = "clear" /\ HistoryOk(r))
    BY <2>1, <2>2
  <2>. QED
    BY <2>2, <2>3, QuietStep
<1>. QED
  BY <1>1, <1>2, <1>3, <1>4, <1>5

\* A line is written.
LEMMA WriteStep ==
    ASSUME LogsInv, NEW i \in Ids, Logs!Write(i)
    PROVE  LogsInv'
<1>1. /\ file \in Seq(Ids) /\ Len(file) \in Nat /\ DOMAIN file = 1..Len(file)
      /\ file' = Append(file, i)
      /\ UNCHANGED <<watched, on, lines, ref, sockets, lRequests>>
  BY LenProperties DEF LogsInv, Logs!Write
<1>2. /\ file' \in Seq(Ids) /\ Len(file') = Len(file) + 1
      /\ \A k \in 1..Len(file) : file'[k] = file[k]
  BY <1>1, AppendProperties
<1>3. DOMAIN file' = 1..(Len(file) + 1)
  BY <1>2, LenProperties
<1>4. \A k \in DOMAIN file : k \in DOMAIN file' /\ file'[k] = file[k]
  BY <1>1, <1>2, <1>3
<1>5. ASSUME NEW s, NEW j, Fine(s, j) PROVE Fine(s, j)'
  BY <1>4, <1>5 DEF Fine
<1>6. Fine(lines, watched)' /\ Len(lines') <= Keep
  <2>1. Fine(lines, watched)
    BY DEF LogsInv
  <2>2. Fine(lines, watched)'
    BY <1>1, <1>4, <2>1 DEF Fine
  <2>. QED
    BY <1>1, <2>2 DEF LogsInv
<1>7. \A r \in lRequests' : HistoryOk(r)'
  BY <1>1, <1>5 DEF LogsInv, HistoryOk
<1>8. ASSUME NEW s \in LiveIn(sockets)' PROVE StreamOk(s)'
  <2>1. StreamOk(s) /\ s \in LiveIn(sockets) /\ sockets[s] \in Streams
    BY <1>1, <1>8 DEF LogsInv, LiveIn
  <2>2. sockets[s].seen \in Nat
    BY <2>1 DEF Streams
  <2>3. sockets[s].seen <= Len(file) => sockets[s].seen <= Len(file')
    BY <1>1, <1>2, <2>2
  <2>. QED
    BY <1>1, <2>1, <2>3 DEF StreamOk
<1>9. \A q, r \in lRequests' : q.op = "load" /\ r.op = "load" => q = r
  BY <1>1 DEF LogsInv
<1>. QED
  BY <1>1, <1>2, <1>6, <1>7, <1>8, <1>9 DEF LogsInv, Streams

\* The daemon answers a request, or refuses it.
LEMMA ServedStep ==
    ASSUME LogsInv, NEW r \in lRequests, Logs!Serve(r) \/ Logs!Refuse(r)
    PROVE  LogsInv'
<1>1. HistoryOk(r) /\ file \in Seq(Ids)
  BY DEF LogsInv
<1>2. CASE Logs!Serve(r)
  <2>. DEFINE got == IF r.op = "load" THEN Logs!Newest(Logs!LinesOf(r.id)) ELSE <<>>
              q == [r EXCEPT !.phase = "ok", !.got = got]
  <2>1. /\ UNCHANGED <<file, watched, on, ref, sockets, lines>>
        /\ lRequests' = (lRequests \ {r}) \cup {q}
    BY <1>2 DEF Logs!Serve
  <2>2. Fine(Logs!LinesOf(r.id), r.id)
    BY <1>1, LinesOfFine
  <2>3. r.op = "load" => Fine(got, r.id) /\ Len(got) <= Keep
    BY <2>2, NewestFine
  <2>. HIDE DEF got
  <2>4. q.op = r.op /\ q.id = r.id /\ q.phase = "ok" /\ q.got = got /\ DOMAIN q = DOMAIN r
    BY <1>1 DEF HistoryOk
  <2>. HIDE DEF q
  <2>5. HistoryOk(q)
    BY <1>1, <2>3, <2>4 DEF HistoryOk
  <2>. QED
    BY <2>1, <2>4, <2>5, AnsweredStep
<1>3. CASE Logs!Refuse(r)
  <2>. DEFINE q == [r EXCEPT !.phase = "failed"]
  <2>1. /\ UNCHANGED <<file, watched, on, ref, sockets, lines>>
        /\ lRequests' = (lRequests \ {r}) \cup {q}
    BY <1>3 DEF Logs!Refuse
  <2>2. q.op = r.op /\ q.id = r.id /\ q.phase = "failed" /\ DOMAIN q = DOMAIN r
    BY <1>1 DEF HistoryOk
  <2>. HIDE DEF q
  <2>3. HistoryOk(q)
    BY <1>1, <2>2 DEF HistoryOk
  <2>. QED
    BY <2>1, <2>2, <2>3, AnsweredStep
<1>. QED
  BY <1>2, <1>3

\* A socket's state or position changes.
LEMMA StreamSet ==
    ASSUME LogsInv, NEW s, s \in DOMAIN sockets, NEW e \in Streams
    PROVE  /\ [sockets EXCEPT ![s] = e] \in Seq(Streams)
           /\ Len([sockets EXCEPT ![s] = e]) = Len(sockets)
           /\ [sockets EXCEPT ![s] = e][s] = e
           /\ LiveIn([sockets EXCEPT ![s] = e]) \subseteq LiveIn(sockets) \cup {s}
           /\ \A k \in DOMAIN sockets \ {s} : [sockets EXCEPT ![s] = e][k] = sockets[k]
           /\ sockets[s] \in Streams
<1>1. /\ sockets \in Seq(Streams) /\ Len(sockets) \in Nat /\ DOMAIN sockets = 1..Len(sockets)
      /\ \A k \in DOMAIN sockets : sockets[k] \in Streams
  BY LenProperties DEF LogsInv
<1>2. s \in 1..Len(sockets)
  BY <1>1
<1>3. /\ [sockets EXCEPT ![s] = e] \in Seq(Streams)
      /\ Len([sockets EXCEPT ![s] = e]) = Len(sockets)
  BY <1>1, <1>2, ExceptSeq
<1>. QED
  BY <1>1, <1>2, <1>3 DEF LiveIn

\* No history is on its way while a socket lives.
LEMMA LiveAlone ==
    ASSUME LogsInv, LiveIn(sockets) # {}, lRequests' = lRequests, file' = file
    PROVE  /\ \A r \in lRequests' : HistoryOk(r)'
           /\ \A q, r \in lRequests' : q.op = "load" /\ r.op = "load" => q = r
<1>1. \A r \in lRequests : HistoryOk(r) /\ r.op # "load"
  BY DEF LogsInv, HistoryOk
<1>. QED
  BY <1>1 DEF HistoryOk

LEMMA StreamStep ==
    ASSUME LogsInv, NEW s, s \in DOMAIN sockets,
           Logs!Accept(s) \/ Logs!Push(s) \/ Logs!CloseEvent(s)
    PROVE  LogsInv'
<1>1. /\ file \in Seq(Ids) /\ Len(file) \in Nat /\ DOMAIN file = 1..Len(file)
      /\ ref \in 0..Len(sockets)
  BY LenProperties DEF LogsInv
<1>2. ASSUME Logs!Accept(s) PROVE LogsInv'
  <2>. DEFINE e == [sockets[s] EXCEPT !.state = "open", !.seen = Len(file)]
  <2>1. sockets[s] \in Streams
    BY LenProperties DEF LogsInv
  <2>2. /\ e \in Streams /\ e.id = sockets[s].id /\ e.state = "open" /\ e.seen = Len(file)
    BY <1>1, <2>1 DEF Streams
  <2>3. /\ sockets' = [sockets EXCEPT ![s] = e]
        /\ UNCHANGED <<file, watched, on, ref, lines, lRequests>>
        /\ s \in LiveIn(sockets)
    BY <1>2 DEF Logs!Accept, LiveIn
  <2>. HIDE DEF e
  <2>4. /\ sockets' \in Seq(Streams) /\ Len(sockets') = Len(sockets) /\ sockets'[s] = e
        /\ LiveIn(sockets') \subseteq LiveIn(sockets)
    BY <2>2, <2>3, StreamSet
  <2>5. LiveIn(sockets) = {s} /\ StreamOk(s)
    BY <2>3 DEF LogsInv, StreamOk
  <2>6. \A k \in DOMAIN lines : lines[k] <= Len(file)
    BY <1>1 DEF LogsInv, Fine
  <2>7. ASSUME NEW k \in LiveIn(sockets)' PROVE StreamOk(k)'
    <3>1. k = s
      BY <2>4, <2>5, <2>7 DEF LiveIn
    <3>. QED
      BY <1>1, <2>2, <2>3, <2>4, <2>5, <2>6, <3>1 DEF StreamOk
  <2>8. Fine(lines, watched)' /\ Len(lines') <= Keep
    BY <2>3 DEF LogsInv, Fine
  <2>9. /\ \A r \in lRequests' : HistoryOk(r)'
        /\ \A q, r \in lRequests' : q.op = "load" /\ r.op = "load" => q = r
    BY <2>3, LiveAlone
  <2>. QED
    BY <2>3, <2>4, <2>7, <2>8, <2>9 DEF LogsInv, Streams
<1>3. ASSUME Logs!Push(s) PROVE LogsInv'
  <2>1. PICK n \in (sockets[s].seen + 1)..Len(file) :
          /\ file[n] = sockets[s].id
          /\ sockets' = [sockets EXCEPT ![s].seen = n]
          /\ lines' = IF paused THEN lines ELSE Logs!Newest(Append(lines, n))
    BY <1>3 DEF Logs!Push
  <2>. DEFINE e == [sockets[s] EXCEPT !.seen = n]
  <2>0. sockets[s] \in Streams
    BY LenProperties DEF LogsInv
  <2>2. sockets[s] \in Streams /\ sockets[s].seen \in Nat
    BY <2>0 DEF Streams
  <2>3. n \in Nat /\ n \in DOMAIN file /\ sockets[s].seen < n
    BY <1>1, <2>2
  <2>4. e \in Streams /\ e.id = sockets[s].id /\ e.state = sockets[s].state /\ e.seen = n
    BY <2>2, <2>3 DEF Streams
  <2>5. /\ sockets' = [sockets EXCEPT ![s] = e]
        /\ UNCHANGED <<file, watched, on, ref, lRequests>>
        /\ s \in LiveIn(sockets) /\ sockets[s].state = "open"
    BY <1>3, <2>1 DEF Logs!Push, LiveIn
  <2>. HIDE DEF e
  <2>6. /\ sockets' \in Seq(Streams) /\ Len(sockets') = Len(sockets) /\ sockets'[s] = e
        /\ LiveIn(sockets') \subseteq LiveIn(sockets)
    BY <2>4, <2>5, StreamSet
  <2>7. LiveIn(sockets) = {s} /\ StreamOk(s)
    BY <2>5 DEF LogsInv, StreamOk
  <2>8. /\ sockets[s].id = watched
        /\ \A k \in DOMAIN lines : lines[k] <= sockets[s].seen /\ lines[k] \in Nat
    <3>1. lines \in Seq(Nat)
      BY DEF LogsInv, Fine
    <3>2. \A k \in DOMAIN lines : lines[k] \in Nat
      BY <3>1, LenProperties
    <3>. QED
      BY <2>5, <2>7, <3>2 DEF StreamOk
  <2>9. \A k \in DOMAIN lines : lines[k] < n
    BY <2>2, <2>3, <2>8
  <2>10. Fine(lines, watched) /\ Len(lines) <= Keep /\ file[n] = watched
    BY <2>1, <2>8 DEF LogsInv
  <2>11. /\ Fine(Append(lines, n), watched)
         /\ \A k \in DOMAIN Append(lines, n) : Append(lines, n)[k] <= n
    <3>1. PICK i, t : i = watched /\ t = lines
      OBVIOUS
    <3>2. Fine(t, i) /\ file[n] = i /\ \A k \in DOMAIN t : t[k] < n
      BY <2>9, <2>10, <3>1
    <3>3. Fine(Append(t, n), i) /\ \A k \in DOMAIN Append(t, n) : Append(t, n)[k] <= n
      BY <2>3, <3>2, AppendedFine
    <3>. QED
      BY <3>1, <3>3
  <2>12. /\ Fine(lines', watched) /\ Len(lines') <= Keep
         /\ \A k \in DOMAIN lines' : lines'[k] <= n
    <3>1. CASE paused
      BY <2>1, <2>3, <2>8, <2>9, <2>10, <3>1
    <3>2. CASE ~paused
      <4>. DEFINE a == Append(lines, n)
      <4>1. /\ Fine(Logs!Newest(a), watched) /\ Len(Logs!Newest(a)) <= Keep
            /\ \A k \in DOMAIN Logs!Newest(a) : \E m \in DOMAIN a : Logs!Newest(a)[k] = a[m]
        BY <2>11, NewestFine
      <4>2. lines' = Logs!Newest(a)
        BY <2>1, <3>2
      <4>. QED
        BY <2>11, <4>1, <4>2
    <3>. QED
      BY <3>1, <3>2
  <2>13. Fine(lines, watched)'
    BY <2>5, <2>12 DEF Fine
  <2>14. ASSUME NEW k \in LiveIn(sockets)' PROVE StreamOk(k)'
    <3>1. k = s
      BY <2>6, <2>7, <2>14 DEF LiveIn
    <3>. QED
      BY <1>1, <2>3, <2>4, <2>5, <2>6, <2>7, <2>12, <3>1 DEF StreamOk
  <2>15. /\ \A r \in lRequests' : HistoryOk(r)'
         /\ \A q, r \in lRequests' : q.op = "load" /\ r.op = "load" => q = r
    BY <2>5, LiveAlone
  <2>. QED
    BY <2>5, <2>6, <2>12, <2>13, <2>14, <2>15 DEF LogsInv, Streams
<1>4. ASSUME Logs!CloseEvent(s) PROVE LogsInv'
  <2>. DEFINE e == [sockets[s] EXCEPT !.state = "closed"]
  <2>1. sockets[s] \in Streams
    BY LenProperties DEF LogsInv
  <2>2. e \in Streams /\ e.state = "closed"
    BY <2>1 DEF Streams
  <2>3. /\ sockets' = [sockets EXCEPT ![s] = e]
        /\ UNCHANGED <<file, watched, on, ref, lines, lRequests>>
    BY <1>4 DEF Logs!CloseEvent
  <2>. HIDE DEF e
  <2>4. /\ sockets' \in Seq(Streams) /\ Len(sockets') = Len(sockets) /\ sockets'[s] = e
        /\ LiveIn(sockets') \subseteq LiveIn(sockets) \cup {s}
        /\ \A k \in DOMAIN sockets \ {s} : sockets'[k] = sockets[k]
    BY <2>2, <2>3, StreamSet
  <2>5. s \notin LiveIn(sockets')
    BY <2>2, <2>4 DEF LiveIn
  <2>6. ASSUME NEW k \in LiveIn(sockets)' PROVE StreamOk(k)'
    <3>1. k \in LiveIn(sockets) /\ k # s /\ k \in DOMAIN sockets
      BY <2>4, <2>5, <2>6 DEF LiveIn
    <3>2. StreamOk(k) /\ sockets'[k] = sockets[k]
      BY <2>4, <3>1 DEF LogsInv
    <3>. QED
      BY <2>3, <3>2 DEF StreamOk
  <2>7. LiveIn(sockets') \subseteq LiveIn(sockets)
    BY <2>4, <2>5
  <2>8. \A r \in lRequests' : HistoryOk(r)'
    BY <2>3, <2>7 DEF LogsInv, HistoryOk, Fine
  <2>9. Fine(lines, watched)' /\ Len(lines') <= Keep
    BY <2>3 DEF LogsInv, Fine
  <2>10. \A q, r \in lRequests' : q.op = "load" /\ r.op = "load" => q = r
    BY <2>3 DEF LogsInv
  <2>. QED
    BY <2>3, <2>4, <2>6, <2>8, <2>9, <2>10 DEF LogsInv, Streams
<1>. QED
  BY <1>2, <1>3, <1>4

\* The history arrives: the view opens its socket.
LEMMA HistoryStep ==
    ASSUME LogsInv, NEW r \in lRequests, Logs!DeliverHistory(r)
    PROVE  LogsInv'
<1>1. /\ HistoryOk(r) /\ r.op = "load" /\ on /\ r.id = watched /\ r.id \in Ids
      /\ LiveIn(sockets) = {} /\ sockets \in Seq(Streams) /\ Len(sockets) \in Nat
  BY LenProperties DEF LogsInv, HistoryOk, Logs!DeliverHistory
<1>2. /\ sockets' = Logs!Opened(sockets, r.id) /\ ref' = Len(sockets')
      /\ lRequests' = lRequests \ {r}
      /\ lines' = IF r.phase = "ok" THEN r.got ELSE lines
      /\ UNCHANGED <<file, watched, on>>
  BY DEF Logs!DeliverHistory
<1>3. /\ sockets' \in Seq(Streams) /\ Len(sockets') = Len(sockets) + 1
      /\ LiveIn(sockets') \subseteq {Len(sockets) + 1}
      /\ sockets'[Len(sockets) + 1].id = r.id
      /\ sockets'[Len(sockets) + 1].state = "connecting"
  BY <1>1, <1>2, OpenedFacts
<1>4. ref' \in 0..Len(sockets')
  BY <1>1, <1>2, <1>3
<1>5. ASSUME NEW k \in LiveIn(sockets)' PROVE StreamOk(k)'
  <2>1. k = Len(sockets) + 1
    BY <1>3, <1>5 DEF LiveIn
  <2>. QED
    BY <1>1, <1>2, <1>3, <2>1 DEF StreamOk
<1>6. Fine(lines', watched) /\ Len(lines') <= Keep
  BY <1>1, <1>2 DEF LogsInv, HistoryOk
<1>7. Fine(lines, watched)'
  BY <1>2, <1>6 DEF Fine
<1>8. ASSUME NEW q \in lRequests' PROVE HistoryOk(q)' /\ q.op # "load"
  <2>1. HistoryOk(q) /\ q.op # "load"
    BY <1>1, <1>2, <1>8 DEF LogsInv
  <2>. QED
    BY <2>1 DEF HistoryOk
<1>. QED
  BY <1>2, <1>3, <1>4, <1>5, <1>6, <1>7, <1>8 DEF LogsInv, Streams

\* No step takes the haste back.
LEMMA HasteStays ==
    ASSUME [TabNext]_tabVars, ~hasty'
    PROVE  ~hasty
<1>1. CASE Logs!Next
  BY <1>1, Unhurried
  DEF Logs!Next, Logs!Watch, Logs!Write, Logs!Reload, Logs!Leave, Logs!Pause, Logs!Clear,
      Logs!Serve, Logs!Refuse, Logs!DeliverHistory, Logs!DeliverClear, Logs!Accept, Logs!Push,
      Logs!CloseEvent
<1>2. CASE UNCHANGED lVars
  BY <1>2 DEF lVars
<1>. QED
  BY <1>1, <1>2 DEF TabNext, tabVars

LEMMA AlwaysLogsInv == TabSpec => [](~hasty => LogsInv)
<1>1. TabInit => (~hasty => LogsInv)
  BY LogsInit
<1>2. ASSUME LogsInv, [TabNext]_tabVars, ~hasty' PROVE LogsInv'
  <2>1. CASE UNCHANGED lVars
    BY <1>2, <2>1, QuietStep DEF lVars
  <2>2. CASE Logs!Next
    <3>1. CASE \E r \in lRequests : Logs!DeliverClear(r)
      <4>1. PICK r \in lRequests : Logs!DeliverClear(r)
        BY <3>1
      <4>2. /\ UNCHANGED <<file, watched, on, ref, sockets>>
            /\ lines' = lines \/ lines' = <<>>
            /\ \A q \in lRequests' : q \in lRequests
        BY <4>1 DEF Logs!DeliverClear
      <4>. QED
        BY <1>2, <4>2, QuietStep
    <3>. QED
      BY <1>2, <2>2, <3>1, VisitorStep, WriteStep, ServedStep, StreamStep, HistoryStep
         DEF Logs!Next
  <2>. QED
    BY <1>2, <2>1, <2>2 DEF TabNext, tabVars
<1>3. (~hasty => LogsInv) /\ [TabNext]_tabVars => (~hasty => LogsInv)'
  BY <1>2, HasteStays
<1>. QED
  BY <1>1, <1>3, PTL DEF TabSpec

\* On the log page always, and on the logs tab until a history that was loading
\* is abandoned, the lines on screen are of the instance on screen, each once and
\* in the order they were written, whatever is written, cleared, paused, switched
\* or closed meanwhile (loadMiniLogs, the socket's onmessage).
THEOREM ViewStaysExact == TabSpec => []ViewIsExact
<1>1. (~hasty => LogsInv) => ViewIsExact
  BY DEF LogsInv, Fine, Increasing, ViewIsExact, Logs!ViewIsExact
<1>. QED
  BY <1>1, AlwaysLogsInv, PTL

\* Abandoning a history that is loading is the only way to leak a socket: until
\* that has happened none outlives its view and a view holds one, whatever the
\* order of answers, closings, switches and clicks (disconnectMiniLogsWS, the
\* cleanup of the effect on the tab; connectWS and disconnectWS of the page).
THEOREM SocketsDoNotLeak == TabSpec => []NoSocketLeaks
<1>1. (~hasty => LogsInv) => NoSocketLeaks
  BY DEF LogsInv, StreamOk, LiveIn, NoSocketLeaks, Logs!NoSocketLeaks, Logs!NothingLeftOpen,
         Logs!Live
<1>. QED
  BY <1>1, AlwaysLogsInv, PTL

\* On the log page no history is loaded, so there is no exception: its haste is
\* never noted.
THEOREM PageNeverLeaks == TabSpec => [](view = "page" => NothingLeftOpen)
<1>. DEFINE PageInv == view = "page" =>
                          /\ hasty = FALSE
                          /\ \A r \in lRequests : "op" \in DOMAIN r /\ r.op = "clear"
<1>1. TabInit => PageInv
  BY DEF TabInit, Logs!Init
<1>2. PageInv /\ [TabNext]_tabVars => PageInv'
  <2>. SUFFICES ASSUME PageInv, [TabNext]_tabVars PROVE PageInv'
    OBVIOUS
  <2>1. CASE UNCHANGED lVars
    BY <2>1 DEF lVars
  <2>2. CASE (\E i \in Ids : Logs!Watch(i)) \/ Logs!Reload \/ Logs!Leave
    <3>1. view' = view /\ (view = "page" => lRequests' = lRequests)
      BY <2>2 DEF Logs!Watch, Logs!Reload, Logs!Leave, Logs!Start
    <3>2. Logs!NoteHaste
      BY <2>2 DEF Logs!Watch, Logs!Reload, Logs!Leave
    <3>3. view = "page" => ~Logs!Loading
      BY DEF Logs!Loading
    <3>4. view = "page" => hasty' = FALSE
      BY <3>2, <3>3 DEF Logs!NoteHaste
    <3>. QED
      BY <3>1, <3>4
  <2>3. CASE \/ \E i \in Ids : Logs!Write(i)
             \/ Logs!Pause \/ Logs!Clear
             \/ \E s \in DOMAIN sockets : Logs!Accept(s) \/ Logs!Push(s) \/ Logs!CloseEvent(s)
    BY <2>3 DEF Logs!Write, Logs!Pause, Logs!Clear, Logs!Accept, Logs!Push, Logs!CloseEvent
  <2>4. ASSUME NEW r \in lRequests,
               \/ Logs!Serve(r) \/ Logs!Refuse(r) \/ Logs!DeliverHistory(r)
               \/ Logs!DeliverClear(r)
        PROVE  PageInv'
    <3>1. view' = view /\ hasty' = hasty
      BY <2>4 DEF Logs!Serve, Logs!Refuse, Logs!DeliverHistory, Logs!DeliverClear
    <3>2. CASE lRequests' = lRequests \ {r}
      BY <3>1, <3>2
    <3>3. CASE lRequests' # lRequests \ {r}
      <4>1. PICK p, g : \/ lRequests' = (lRequests \ {r}) \cup {[r EXCEPT !.phase = p, !.got = g]}
                        \/ lRequests' = (lRequests \ {r}) \cup {[r EXCEPT !.phase = p]}
        BY <2>4, <3>3 DEF Logs!Serve, Logs!Refuse, Logs!DeliverHistory, Logs!DeliverClear
      <4>2. PICK e : /\ lRequests' = (lRequests \ {r}) \cup {e}
                     /\ view = "page" => "op" \in DOMAIN e /\ e.op = "clear"
        <5>1. view = "page" =>
                 /\ "op" \in DOMAIN r /\ r.op = "clear"
                 /\ "op" \in DOMAIN [r EXCEPT !.phase = p, !.got = g]
                 /\ [r EXCEPT !.phase = p, !.got = g].op = "clear"
                 /\ "op" \in DOMAIN [r EXCEPT !.phase = p]
                 /\ [r EXCEPT !.phase = p].op = "clear"
          OBVIOUS
        <5>. DEFINE e == [r EXCEPT !.phase = p, !.got = g]
                    f == [r EXCEPT !.phase = p]
        <5>2. /\ lRequests' = (lRequests \ {r}) \cup {e} \/ lRequests' = (lRequests \ {r}) \cup {f}
              /\ view = "page" => /\ "op" \in DOMAIN e /\ e.op = "clear"
                                 /\ "op" \in DOMAIN f /\ f.op = "clear"
          BY <4>1, <5>1
        <5>. HIDE DEF e, f
        <5>. QED
          BY <5>2
      <4>. QED
        BY <3>1, <4>2
    <3>. QED
      BY <3>2, <3>3
  <2>. QED
    BY <2>1, <2>2, <2>3, <2>4 DEF TabNext, tabVars, Logs!Next
<1>3. PageInv /\ (~hasty => LogsInv) => (view = "page" => NothingLeftOpen)
  BY DEF LogsInv, StreamOk, LiveIn, NothingLeftOpen, Logs!NothingLeftOpen, Logs!Live
<1>. QED
  BY <1>1, <1>2, <1>3, AlwaysLogsInv, PTL DEF TabSpec
=============================================================================
