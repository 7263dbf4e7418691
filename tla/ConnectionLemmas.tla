-------------------------- MODULE ConnectionLemmas --------------------------
(***************************************************************************)
(* Lemmas about a connection and its backend, for every set of objects and   *)
(* subscriptions and every value of the limits: what its operators on        *)
(* sequences and sets return, what a step of the backend does to the log, and *)
(* that the parts of the invariant about the backend, the handler, the groups *)
(* and the mailbox are inductive.                                            *)
(***************************************************************************)
EXTENDS Connection, FiniteSetTheorems, SequenceTheorems, WellFoundedInduction, TLAPS

-----------------------------------------------------------------------------
(* Sequences, their elements, and what is appended, taken or removed.        *)

\* The elements of a sequence, by their positions.
LEMMA Elements ==
    ASSUME NEW S, NEW q \in Seq(S)
    PROVE  /\ Len(q) \in Nat /\ DOMAIN q = 1..Len(q)
           /\ \A i \in DOMAIN q : q[i] \in S /\ q[i] \in ToSet(q)
           /\ \A x \in ToSet(q) : x \in S /\ \E i \in DOMAIN q : q[i] = x
           /\ q = <<>> <=> Len(q) = 0
<1>1. Len(q) \in Nat /\ DOMAIN q = 1..Len(q) /\ \A i \in 1..Len(q) : q[i] \in S
  BY LenProperties, ElementOfSeq
<1>2. q = <<>> <=> Len(q) = 0
  BY EmptySeq
<1> QED
  BY <1>1, <1>2 DEF ToSet

LEMMA EmptyHasNone == ToSet(<<>>) = {} /\ \A S : <<>> \in Seq(S)
<1>1. DOMAIN <<>> = {}
  OBVIOUS
<1> QED
  BY <1>1, EmptySeq DEF ToSet

LEMMA Appended ==
    ASSUME NEW S, NEW q \in Seq(S), NEW e \in S
    PROVE  /\ Append(q, e) \in Seq(S) /\ Len(Append(q, e)) = Len(q) + 1
           /\ DOMAIN Append(q, e) = 1..(Len(q) + 1)
           /\ \A i \in DOMAIN q : Append(q, e)[i] = q[i]
           /\ Append(q, e)[Len(q) + 1] = e
           /\ ToSet(Append(q, e)) = ToSet(q) \cup {e}
<1>1. /\ Append(q, e) \in Seq(S) /\ Len(Append(q, e)) = Len(q) + 1
      /\ \A i \in 1..Len(q) : Append(q, e)[i] = q[i]
      /\ Append(q, e)[Len(q) + 1] = e
  BY AppendProperties
<1>2. /\ Len(q) \in Nat /\ DOMAIN q = 1..Len(q)
      /\ DOMAIN Append(q, e) = 1..(Len(q) + 1)
  BY <1>1, LenProperties
<1> QED
  BY <1>1, <1>2 DEF ToSet

LEMMA Taken ==
    ASSUME NEW S, NEW q \in Seq(S), q # <<>>
    PROVE  /\ Head(q) = q[1] /\ Head(q) \in S /\ Head(q) \in ToSet(q)
           /\ Tail(q) \in Seq(S) /\ Len(Tail(q)) = Len(q) - 1
           /\ DOMAIN Tail(q) = 1..(Len(q) - 1)
           /\ \A i \in DOMAIN Tail(q) : Tail(q)[i] = q[i + 1]
           /\ ToSet(q) = {Head(q)} \cup ToSet(Tail(q))
<1>1. /\ Len(q) \in Nat \ {0} /\ DOMAIN q = 1..Len(q)
      /\ Head(q) \in S /\ Tail(q) \in Seq(S) /\ Len(Tail(q)) = Len(q) - 1
      /\ \A i \in 1..(Len(q) - 1) : Tail(q)[i] = q[i + 1]
  BY LenProperties, EmptySeq, HeadTailProperties
<1>2. DOMAIN Tail(q) = 1..(Len(q) - 1)
  BY <1>1, LenProperties
<1>3. Head(q) = q[1] /\ 1 \in DOMAIN q
  BY <1>1
<1>4. ToSet(q) \subseteq {Head(q)} \cup ToSet(Tail(q))
  <2> SUFFICES ASSUME NEW i \in DOMAIN q, i # 1 PROVE q[i] \in ToSet(Tail(q))
    BY <1>3 DEF ToSet
  <2>1. i - 1 \in DOMAIN Tail(q) /\ (i - 1) + 1 = i
    BY <1>1, <1>2
  <2>2. Tail(q)[i - 1] = q[(i - 1) + 1]
    BY <1>1, <1>2, <2>1
  <2> QED
    BY <2>1, <2>2 DEF ToSet
<1>5. ToSet(Tail(q)) \subseteq ToSet(q)
  <2> SUFFICES ASSUME NEW i \in DOMAIN Tail(q) PROVE Tail(q)[i] \in ToSet(q)
    BY DEF ToSet
  <2>1. i + 1 \in DOMAIN q /\ Tail(q)[i] = q[i + 1]
    BY <1>1, <1>2
  <2> QED
    BY <2>1 DEF ToSet
<1>6. Head(q) \in ToSet(q)
  BY <1>3 DEF ToSet
<1> QED
  BY <1>1, <1>2, <1>3, <1>4, <1>5, <1>6

LEMMA Joined ==
    ASSUME NEW S, NEW p \in Seq(S), NEW q \in Seq(S)
    PROVE  /\ p \o q \in Seq(S) /\ Len(p \o q) = Len(p) + Len(q)
           /\ DOMAIN (p \o q) = 1..(Len(p) + Len(q))
           /\ \A i \in DOMAIN (p \o q) :
                (p \o q)[i] = IF i <= Len(p) THEN p[i] ELSE q[i - Len(p)]
           /\ ToSet(p \o q) = ToSet(p) \cup ToSet(q)
<1>1. /\ p \o q \in Seq(S) /\ Len(p \o q) = Len(p) + Len(q)
      /\ \A i \in 1..(Len(p) + Len(q)) :
           (p \o q)[i] = IF i <= Len(p) THEN p[i] ELSE q[i - Len(p)]
  BY ConcatProperties
<1>2. /\ Len(p) \in Nat /\ DOMAIN p = 1..Len(p)
      /\ Len(q) \in Nat /\ DOMAIN q = 1..Len(q)
      /\ DOMAIN (p \o q) = 1..(Len(p) + Len(q))
  BY <1>1, LenProperties
<1>3. \A i \in 1..Len(p) : i \in DOMAIN (p \o q) /\ (p \o q)[i] = p[i]
  BY <1>1, <1>2
<1>4. \A i \in 1..Len(q) : i + Len(p) \in DOMAIN (p \o q) /\ (p \o q)[i + Len(p)] = q[i]
  BY <1>1, <1>2
<1>5. \A i \in DOMAIN (p \o q) :
        i \in 1..Len(p) \/ (i - Len(p) \in 1..Len(q) /\ (p \o q)[i] = q[i - Len(p)])
  BY <1>1, <1>2
<1>6. ToSet(p \o q) \subseteq ToSet(p) \cup ToSet(q)
  <2> SUFFICES ASSUME NEW i \in DOMAIN (p \o q)
               PROVE  (p \o q)[i] \in ToSet(p) \cup ToSet(q)
    BY DEF ToSet
  <2>1. CASE i \in 1..Len(p)
    BY <1>2, <1>3, <2>1 DEF ToSet
  <2>2. CASE i - Len(p) \in 1..Len(q) /\ (p \o q)[i] = q[i - Len(p)]
    BY <1>2, <2>2 DEF ToSet
  <2> QED
    BY <1>5, <2>1, <2>2
<1>7. ToSet(p) \subseteq ToSet(p \o q)
  BY <1>2, <1>3 DEF ToSet
<1>8. ToSet(q) \subseteq ToSet(p \o q)
  <2> SUFFICES ASSUME NEW i \in DOMAIN q PROVE q[i] \in ToSet(p \o q)
    BY DEF ToSet
  <2>1. i + Len(p) \in DOMAIN (p \o q) /\ (p \o q)[i + Len(p)] = q[i]
    BY <1>2, <1>4
  <2> QED
    BY <2>1 DEF ToSet
<1> QED
  BY <1>1, <1>2, <1>6, <1>7, <1>8

\* An element is removed, and with it one position.
LEMMA Removed ==
    ASSUME NEW S, NEW q \in Seq(S), NEW k \in DOMAIN q,
           \A i, j \in DOMAIN q : q[i] = q[j] => i = j
    PROVE  /\ RemoveAt(q, k) \in Seq(S) /\ Len(RemoveAt(q, k)) = Len(q) - 1
           /\ ToSet(RemoveAt(q, k)) = ToSet(q) \ {q[k]}
           /\ LET r == RemoveAt(q, k) IN \A i, j \in DOMAIN r : r[i] = r[j] => i = j
<1> DEFINE front == SubSeq(q, 1, k - 1)
           back == SubSeq(q, k + 1, Len(q))
           r == RemoveAt(q, k)
<1>1. /\ Len(q) \in Nat /\ DOMAIN q = 1..Len(q) /\ k \in 1..Len(q)
      /\ \A i \in 1..Len(q) : q[i] \in S
  BY Elements
<1>2. /\ front \in Seq(S) /\ Len(front) = k - 1
      /\ \A i \in 1..(k - 1) : front[i] = q[i]
  <2>1. /\ \A i \in 1..(k - 1) : q[i] \in S
        /\ 1 \in Int /\ k - 1 \in Int /\ (IF 1 <= k - 1 THEN (k - 1) - 1 + 1 ELSE 0) = k - 1
        /\ (k - 1) - 1 + 1 = k - 1
    BY <1>1
  <2>2. /\ SubSeq(q, 1, k - 1) \in Seq(S)
        /\ Len(SubSeq(q, 1, k - 1)) = IF 1 <= k - 1 THEN (k - 1) - 1 + 1 ELSE 0
        /\ \A i \in 1..((k - 1) - 1 + 1) : SubSeq(q, 1, k - 1)[i] = q[1 + i - 1]
    BY <2>1, SubSeqProperties
  <2> QED
    BY <2>1, <2>2
<1>3. /\ back \in Seq(S) /\ Len(back) = Len(q) - k
      /\ \A i \in 1..(Len(q) - k) : back[i] = q[i + k]
  <2>1. /\ \A i \in (k + 1)..Len(q) : q[i] \in S
        /\ k + 1 \in Int /\ Len(q) \in Int
        /\ (IF k + 1 <= Len(q) THEN Len(q) - (k + 1) + 1 ELSE 0) = Len(q) - k
        /\ Len(q) - (k + 1) + 1 = Len(q) - k
    BY <1>1
  <2>2. /\ SubSeq(q, k + 1, Len(q)) \in Seq(S)
        /\ Len(SubSeq(q, k + 1, Len(q))) = IF k + 1 <= Len(q) THEN Len(q) - (k + 1) + 1 ELSE 0
        /\ \A i \in 1..(Len(q) - (k + 1) + 1) : SubSeq(q, k + 1, Len(q))[i] = q[(k + 1) + i - 1]
    BY <2>1, SubSeqProperties
  <2>3. \A i \in 1..(Len(q) - k) : (k + 1) + i - 1 = i + k
    BY <1>1
  <2> QED
    BY <2>1, <2>2, <2>3
<1>4. r = front \o back
  BY DEF RemoveAt
<1> HIDE DEF front, back, r
<1>5. /\ r \in Seq(S) /\ Len(r) = Len(q) - 1 /\ DOMAIN r = 1..(Len(q) - 1)
      /\ \A i \in DOMAIN r : r[i] = IF i <= k - 1 THEN front[i] ELSE back[i - (k - 1)]
  <2>1. /\ r \in Seq(S) /\ Len(r) = Len(front) + Len(back)
        /\ DOMAIN r = 1..(Len(front) + Len(back))
        /\ \A i \in DOMAIN r : r[i] = IF i <= Len(front) THEN front[i] ELSE back[i - Len(front)]
    BY <1>2, <1>3, <1>4, Joined
  <2>2. Len(front) + Len(back) = Len(q) - 1
    BY <1>1, <1>2, <1>3
  <2> QED
    BY <1>2, <2>1, <2>2
<1>6. \A i \in DOMAIN r : r[i] = q[IF i < k THEN i ELSE i + 1]
  <2> SUFFICES ASSUME NEW i \in DOMAIN r
               PROVE  r[i] = q[IF i < k THEN i ELSE i + 1]
    OBVIOUS
  <2>1. CASE i < k
    <3>1. i \in 1..(k - 1)
      BY <1>1, <1>5, <2>1
    <3> QED
      BY <1>2, <1>5, <2>1, <3>1
  <2>2. CASE ~(i < k)
    <3>1. i - (k - 1) \in 1..(Len(q) - k) /\ (i - (k - 1)) + k = i + 1 /\ ~(i <= k - 1)
      BY <1>1, <1>5, <2>2
    <3>2. back[i - (k - 1)] = q[i + 1]
      BY <1>3, <3>1
    <3> QED
      BY <1>5, <2>2, <3>1, <3>2
  <2> QED
    BY <2>1, <2>2
<1>7. \A i \in DOMAIN r : /\ (IF i < k THEN i ELSE i + 1) \in DOMAIN q
                          /\ (IF i < k THEN i ELSE i + 1) # k
  BY <1>1, <1>5
<1>8. \A i, j \in DOMAIN r : r[i] = r[j] => i = j
  <2> SUFFICES ASSUME NEW i \in DOMAIN r, NEW j \in DOMAIN r, r[i] = r[j] PROVE i = j
    OBVIOUS
  <2>1. (IF i < k THEN i ELSE i + 1) = (IF j < k THEN j ELSE j + 1)
    BY <1>6, <1>7
  <2> QED
    BY <1>1, <1>5, <2>1
<1>9. ToSet(r) \subseteq ToSet(q) \ {q[k]}
  BY <1>6, <1>7 DEF ToSet
<1>10. ToSet(q) \ {q[k]} \subseteq ToSet(r)
  <2> SUFFICES ASSUME NEW i \in DOMAIN q, i # k PROVE q[i] \in ToSet(r)
    BY DEF ToSet
  <2>1. CASE i < k
    <3>1. i \in DOMAIN r /\ r[i] = q[i]
      BY <1>1, <1>5, <1>6, <2>1
    <3> QED
      BY <3>1 DEF ToSet
  <2>2. CASE i > k
    <3>1. i - 1 \in DOMAIN r /\ ~(i - 1 < k) /\ (i - 1) + 1 = i
      BY <1>1, <1>5, <2>2
    <3>2. r[i - 1] = q[i]
      BY <1>6, <3>1
    <3> QED
      BY <3>1, <3>2 DEF ToSet
  <2> QED
    BY <1>1, <2>1, <2>2
<1> QED
  BY <1>5, <1>8, <1>9, <1>10 DEF r

-----------------------------------------------------------------------------
(* ORDER BY cursor.                                                         *)

\* A set of numbers has a least one.
LEMMA LeastExists ==
    ASSUME NEW T \in SUBSET Nat, T # {}
    PROVE  \E x \in T : \A y \in T : x <= y
<1> DEFINE R == OpToRel(<, Nat)
<1>1. IsWellFoundedOn(R, Nat)
  BY NatLessThanWellFounded
<1>2. \A x, y \in Nat : <<y, x>> \in R <=> y < x
  BY DEF OpToRel
<1> HIDE DEF R
<1>3. PICK x \in T : \A y \in T : ~ (<<y, x>> \in R)
  BY <1>1, WFMin
<1>4. ASSUME NEW y \in T PROVE x <= y
  <2>1. x \in Nat /\ y \in Nat /\ ~ (<<y, x>> \in R)
    BY <1>3
  <2>2. ~(y < x)
    BY <1>2, <2>1
  <2> QED
    BY <2>1, <2>2
<1> QED
  BY <1>3, <1>4

\* A finite set of numbers can be written down in rising order: of the smallest
\* sets that could not, one would be left that its least element precedes.
LEMMA OrderExists ==
    ASSUME NEW rows \in SUBSET Nat, IsFiniteSet(rows)
    PROVE  \E q \in [1..Cardinality(rows) -> rows] : Rising(q)
<1> DEFINE CanOrder(S, n) == \E q \in [1..n -> S] : \A i, j \in 1..n : i < j => q[i] < q[j]
           Bad == {n \in Nat : \E S \in SUBSET Nat :
                     IsFiniteSet(S) /\ Cardinality(S) = n /\ ~CanOrder(S, n)}
<1>1. Bad = {}
  <2> SUFFICES ASSUME Bad # {} PROVE FALSE
    OBVIOUS
  <2>1. Bad \in SUBSET Nat
    OBVIOUS
  <2> HIDE DEF Bad
  <2>2. PICK n \in Bad : \A m \in Bad : n <= m
    BY <2>1, LeastExists
  <2>3. PICK S \in SUBSET Nat : IsFiniteSet(S) /\ Cardinality(S) = n /\ ~CanOrder(S, n)
    BY <2>2 DEF Bad
  <2>4. n \in Nat
    BY <2>1, <2>2
  <2>5. n # 0
    <3> SUFFICES ASSUME n = 0 PROVE FALSE
      OBVIOUS
    <3>1. 1..n = {}
      BY <2>4
    <3>2. [i \in 1..n |-> 0] \in [1..n -> S]
      BY <3>1
    <3>3. CanOrder(S, n)
      BY <3>1, <3>2
    <3> QED
      BY <2>3, <3>3
  <2>6. S # {}
    BY <2>3, <2>5, FS_EmptySet
  <2>7. PICK x \in S : \A y \in S : x <= y
    BY <2>6, LeastExists
  <2> DEFINE T == S \ {x}
  <2>8. T \in SUBSET Nat /\ IsFiniteSet(T) /\ Cardinality(T) = n - 1
    BY <2>3, <2>7, FS_RemoveElement
  <2>9. n - 1 \in Nat /\ n - 1 \notin Bad
    BY <2>2, <2>4, <2>5
  <2>10. CanOrder(T, n - 1)
    BY <2>8, <2>9 DEF Bad
  <2>11. PICK p \in [1..(n - 1) -> T] : \A i, j \in 1..(n - 1) : i < j => p[i] < p[j]
    BY <2>10
  <2> DEFINE q == [i \in 1..n |-> IF i = 1 THEN x ELSE p[i - 1]]
  <2>12. \A i \in 1..n : i # 1 => i - 1 \in 1..(n - 1) /\ p[i - 1] \in T
    BY <2>4, <2>11
  <2>13. q \in [1..n -> S]
    BY <2>7, <2>12
  <2>14. \A i, j \in 1..n : i < j => q[i] < q[j]
    <3> SUFFICES ASSUME NEW i \in 1..n, NEW j \in 1..n, i < j PROVE q[i] < q[j]
      OBVIOUS
    <3>1. j # 1 /\ q[j] = p[j - 1] /\ p[j - 1] \in T
      BY <2>12
    <3>2. CASE i = 1
      <4>1. x \in Nat /\ p[j - 1] \in Nat /\ p[j - 1] # x /\ x <= p[j - 1]
        BY <2>3, <2>7, <3>1
      <4>2. x < p[j - 1]
        BY <4>1
      <4> QED
        BY <3>1, <3>2, <4>2
    <3>3. CASE i # 1
      <4>1. i - 1 \in 1..(n - 1) /\ j - 1 \in 1..(n - 1) /\ i - 1 < j - 1
        BY <2>12, <3>1, <3>3
      <4> QED
        BY <2>11, <3>1, <3>3, <4>1
    <3> QED
      BY <3>2, <3>3
  <2>15. CanOrder(S, n)
    BY <2>13, <2>14
  <2> QED
    BY <2>3, <2>15
<1>2. Cardinality(rows) \in Nat
  BY FS_CardinalityType
<1>3. CanOrder(rows, Cardinality(rows))
  BY <1>1, <1>2
<1> QED
  BY <1>3 DEF Rising

\* What the replay queries return: the rows, with rising cursors.
LEMMA OrderIsRising ==
    ASSUME NEW rows \in SUBSET Nat, IsFiniteSet(rows)
    PROVE  /\ InCursorOrder(rows) \in Seq(Nat)
           /\ ToSet(InCursorOrder(rows)) = rows
           /\ Rising(InCursorOrder(rows))
<1> DEFINE n == Cardinality(rows)
           good(q) == \A i, j \in DOMAIN q : i < j => q[i] < q[j]
<1>1. n \in Nat
  BY FS_CardinalityType
<1>2. PICK p \in [1..n -> rows] : Rising(p)
  BY OrderExists
<1>3. \A i, j \in 1..n : i # j => p[i] # p[j]
  <2> SUFFICES ASSUME NEW i \in 1..n, NEW j \in 1..n, i # j PROVE p[i] # p[j]
    OBVIOUS
  <2>1. p[i] \in Nat /\ p[j] \in Nat
    BY <1>2
  <2>2. i < j \/ j < i
    BY <1>1
  <2>3. \A h, k \in 1..n : h < k => p[h] < p[k]
    BY <1>2 DEF Rising
  <2> QED
    BY <2>1, <2>2, <2>3
<1>4. p \in SetToSeqs(rows) /\ good(p)
  BY <1>2, <1>3 DEF SetToSeqs, Rising
<1> DEFINE q == InCursorOrder(rows)
<1>5. q \in SetToSeqs(rows) /\ good(q)
  BY <1>4 DEF InCursorOrder
<1> HIDE DEF q
<1>6. q \in [1..n -> rows] /\ \A i, j \in 1..n : i # j => q[i] # q[j]
  BY <1>5 DEF SetToSeqs
<1>7. q \in Injection(1..n, rows)
  BY <1>6 DEF Injection, IsInjective
<1>8. Cardinality(1..n) = n /\ IsFiniteSet(1..n)
  <2>1. IsFiniteSet(1..n) /\ Cardinality(1..n) = IF 1 > n THEN 0 ELSE n - 1 + 1
    BY <1>1, FS_Interval
  <2> QED
    BY <1>1, <2>1
<1>9. q \in Surjection(1..n, rows)
  BY <1>7, <1>8, FS_Injection
<1>10. ToSet(q) = rows
  <2>1. DOMAIN q = 1..n
    BY <1>6
  <2> QED
    BY <1>6, <1>9, <2>1 DEF Surjection, ToSet
<1>11. q \in Seq(Nat)
  <2>1. q \in [1..n -> Nat]
    BY <1>6
  <2> QED
    BY <1>1, <2>1, SeqDef
<1>12. Rising(q)
  BY <1>5 DEF Rising
<1> QED
  BY <1>10, <1>11, <1>12 DEF q

-----------------------------------------------------------------------------
(* The backend.                                                             *)

\* LogInv, by the numbers of events and cursors.
LEMMA LogFacts ==
    ASSUME LogInv
    PROVE  /\ Len(about) \in Nat /\ DOMAIN about = 1..Len(about)
           /\ Len(log) \in Nat /\ DOMAIN log = 1..Len(log)
           /\ \A e \in DOMAIN about : about[e] \in Event
           /\ \A c \in DOMAIN log : log[c] \in DOMAIN about
           /\ committed \subseteq DOMAIN about
           /\ \A c \in DOMAIN log : log[c] \notin committed
BY Elements DEF LogInv

\* A write appends its event, which has no cursor yet.
LEMMA WriteEffect ==
    ASSUME LogInv, NEW o \in Objects \cup Strangers,
           NEW op \in {"created", "updated", "deleted"}, Write(o, op)
    PROVE  /\ LogInv'
           /\ DOMAIN about' = 1..(Len(about) + 1)
           /\ \A e \in DOMAIN about : about'[e] = about[e]
           /\ about'[Len(about) + 1].subject = o /\ about'[Len(about) + 1].op = op
           /\ committed' = committed \cup {Len(about) + 1}
           /\ UNCHANGED <<log, reached, recorded, trimmed, fanoutVars, layerVars>>
<1> DEFINE n == Len(about) + 1
<1>1. PICK facet \in Facets : about' = Append(about, [subject |-> o, op |-> op, facet |-> facet])
  BY DEF Write
<1>2. [subject |-> o, op |-> op, facet |-> facet] \in Event
  BY DEF Event
<1>3. /\ about' \in Seq(Event) /\ DOMAIN about' = 1..n
      /\ \A e \in DOMAIN about : about'[e] = about[e]
      /\ about'[n] = [subject |-> o, op |-> op, facet |-> facet]
  BY <1>1, <1>2, Appended DEF LogInv
<1>4. /\ committed' = committed \cup {n}
      /\ UNCHANGED <<log, reached, recorded, trimmed, fanoutVars, layerVars>>
  BY DEF Write
<1>5. /\ Len(about) \in Nat /\ DOMAIN about = 1..Len(about)
      /\ Len(log) \in Nat /\ DOMAIN log = 1..Len(log)
      /\ \A c \in DOMAIN log : log[c] \in DOMAIN about
      /\ committed \subseteq DOMAIN about
  BY LogFacts
<1>6. /\ n \notin DOMAIN about /\ DOMAIN about' = DOMAIN about \cup {n}
      /\ \A e \in DOMAIN about : e < n
  BY <1>3, <1>5
<1>7. log' \in Seq(DOMAIN about')
  <2>1. DOMAIN about \subseteq DOMAIN about'
    BY <1>6
  <2> QED
    BY <1>4, <2>1, SeqMonotonic DEF LogInv
<1>8. \A c \in DOMAIN log : Subject(c)' = Subject(c)
  BY <1>3, <1>4, <1>5 DEF Subject
<1>9. committed' = DOMAIN about' \ {log'[c] : c \in DOMAIN log'}
  BY <1>4, <1>5, <1>6 DEF LogInv
<1>10. /\ \A c, d \in DOMAIN log' : log'[c] = log'[d] => c = d
       /\ \A c, d \in DOMAIN log' : c < d /\ Subject(c)' = Subject(d)' => log'[c] < log'[d]
  BY <1>4, <1>8 DEF LogInv
<1>11. \A c \in DOMAIN log', e \in committed' :
         about'[e].subject = Subject(c)' => log'[c] < e
  <2> SUFFICES ASSUME NEW c \in DOMAIN log, NEW e \in committed \cup {n},
                      about'[e].subject = Subject(c)
               PROVE  log[c] < e
    BY <1>4, <1>8
  <2>1. CASE e \in committed
    BY <1>3, <1>5, <2>1 DEF LogInv
  <2>2. CASE e = n
    BY <1>5, <1>6, <2>2
  <2> QED
    BY <2>1, <2>2
<1>12. LogInv'
  BY <1>3, <1>7, <1>9, <1>10, <1>11 DEF LogInv
<1> QED
  BY <1>3, <1>4, <1>12

\* The next cursor goes to the oldest event of some subject.
LEMMA AssignEffect ==
    ASSUME LogInv, AssignCursor
    PROVE  /\ LogInv'
           /\ DOMAIN log' = 1..(Len(log) + 1) /\ Len(log') = Len(log) + 1
           /\ \A c \in DOMAIN log : log'[c] = log[c]
           /\ committed' = committed \ {log'[Len(log) + 1]}
           /\ log'[Len(log) + 1] \in committed
           /\ UNCHANGED <<objectVars, reached, recorded, trimmed, fanoutVars, layerVars>>
<1> DEFINE n == Len(log) + 1
<1>1. PICK e \in committed :
        /\ \A d \in committed : about[d].subject = about[e].subject => e <= d
        /\ log' = Append(log, e)
        /\ committed' = committed \ {e}
  BY DEF AssignCursor
<1>2. UNCHANGED <<objectVars, reached, recorded, trimmed, fanoutVars, layerVars>>
  BY DEF AssignCursor
<1>3. /\ Len(about) \in Nat /\ DOMAIN about = 1..Len(about)
      /\ Len(log) \in Nat /\ DOMAIN log = 1..Len(log)
      /\ \A c \in DOMAIN log : log[c] \in DOMAIN about /\ log[c] \notin committed
      /\ committed \subseteq DOMAIN about
  BY LogFacts
<1>4. /\ log' \in Seq(DOMAIN about) /\ DOMAIN log' = 1..n /\ Len(log') = n
      /\ \A c \in DOMAIN log : log'[c] = log[c]
      /\ log'[n] = e
  BY <1>1, <1>3, Appended DEF LogInv
<1>5. /\ DOMAIN log' = DOMAIN log \cup {n} /\ n \notin DOMAIN log
      /\ \A c \in DOMAIN log : c < n
  BY <1>3, <1>4
<1>6. \A c \in DOMAIN log' : Subject(c)' = about[log'[c]].subject
  BY <1>2 DEF Subject, objectVars
<1>7. \A c \in DOMAIN log : Subject(c)' = Subject(c)
  BY <1>4, <1>5, <1>6 DEF Subject
<1>8. \A c \in DOMAIN log' : c = n => Subject(c)' = about[e].subject
  BY <1>4, <1>5, <1>6
<1>9. committed' = DOMAIN about' \ {log'[c] : c \in DOMAIN log'}
  BY <1>1, <1>2, <1>4, <1>5 DEF LogInv, objectVars
<1>10. \A c, d \in DOMAIN log' : log'[c] = log'[d] => c = d
  BY <1>1, <1>3, <1>4, <1>5 DEF LogInv
<1>11. \A c, d \in DOMAIN log' : c < d /\ Subject(c)' = Subject(d)' => log'[c] < log'[d]
  <2> SUFFICES ASSUME NEW c \in DOMAIN log', NEW d \in DOMAIN log',
                      c < d, Subject(c)' = Subject(d)'
               PROVE  log'[c] < log'[d]
    OBVIOUS
  <2>1. c \in DOMAIN log
    BY <1>3, <1>4, <1>5
  <2>2. CASE d \in DOMAIN log
    BY <1>4, <1>7, <2>1, <2>2 DEF LogInv
  <2>3. CASE d = n
    BY <1>4, <1>7, <1>8, <2>1, <2>3 DEF LogInv
  <2> QED
    BY <1>5, <2>2, <2>3
<1>12. \A c \in DOMAIN log', d \in committed' :
         about'[d].subject = Subject(c)' => log'[c] < d
  <2> SUFFICES ASSUME NEW c \in DOMAIN log', NEW d \in committed, d # e,
                      about[d].subject = Subject(c)'
               PROVE  log'[c] < d
    BY <1>1, <1>2 DEF objectVars
  <2>1. CASE c \in DOMAIN log
    BY <1>4, <1>7, <2>1 DEF LogInv
  <2>2. CASE c = n
    <3>1. e <= d
      BY <1>1, <1>8, <2>2
    <3>2. e < d
      BY <1>3, <3>1
    <3> QED
      BY <1>4, <2>2, <3>2
  <2> QED
    BY <1>5, <2>1, <2>2
<1>13. LogInv'
  BY <1>2, <1>4, <1>9, <1>10, <1>11, <1>12 DEF LogInv, objectVars
<1> QED
  BY <1>1, <1>2, <1>4, <1>13

-----------------------------------------------------------------------------
(* Every step of the backend.                                               *)

\* What no step takes back: events, cursors, and how far the listener and
\* retention got.  A committed event only leaves for a new cursor, and what the
\* user sees of an object only changes with an event of it.
Grows ==
    /\ DOMAIN about \subseteq DOMAIN about' /\ \A e \in DOMAIN about : about'[e] = about[e]
    /\ Len(log) <= Len(log') /\ DOMAIN log \subseteq DOMAIN log'
    /\ \A c \in DOMAIN log : log'[c] = log[c] /\ Subject(c)' = Subject(c)
    /\ recorded <= recorded' /\ reached <= reached' /\ trimmed <= trimmed'
    /\ joined' = joined
    /\ \A e \in committed : e \in committed' \/ \E d \in DOMAIN log' : d > Len(log) /\ log'[d] = e
    /\ \A o \in Objects : (o \in visible') # (o \in visible) =>
         \E e \in committed' : about'[e].subject = o

BackendInv == LogInv /\ FanoutInv /\ VisibleInv

\* FanoutInv, by numbers.
LEMMA FanoutFacts ==
    ASSUME LogInv, FanoutInv
    PROVE  /\ recorded \in Nat /\ trimmed \in Nat /\ reached \in Nat /\ Len(log) \in Nat
           /\ trimmed <= recorded /\ recorded <= reached /\ reached <= recorded + 1
           /\ reached <= Len(log) /\ Latest = Len(log)
<1>1. Len(log) \in Nat
  BY LogFacts
<1> QED
  BY <1>1 DEF FanoutInv, Latest

\* A step that writes no event and assigns no cursor leaves the log alone.
LEMMA SameLog ==
    ASSUME LogInv, UNCHANGED <<about, committed, log>>
    PROVE  /\ LogInv'
           /\ \A c : Subject(c)' = Subject(c)
<1>1. \A c : Subject(c)' = Subject(c)
  BY DEF Subject
<1> QED
  BY <1>1 DEF LogInv

LEMMA WriteStep ==
    ASSUME BackendInv,
           (\E o \in Objects : Save(o) \/ Delete(o)) \/ \E o \in Strangers : WriteStranger(o)
    PROVE  /\ BackendInv' /\ Grows
           /\ UNCHANGED <<log, reached, recorded, trimmed, fanoutVars, layerVars>>
<1>1. PICK o \in Objects \cup Strangers, op \in {"created", "updated", "deleted"} :
        /\ Write(o, op)
        /\ o \in Objects \/ UNCHANGED visible
        /\ \A p \in visible' : p \in visible \/ p = o
        /\ \A p \in visible : p \in visible' \/ p = o
        /\ op = "deleted" => o \notin visible' /\ deleted' = deleted \cup {o}
        /\ op = "deleted" => o \in Objects
        /\ deleted' \subseteq deleted \cup {o}
        /\ deleted \ {o} \subseteq deleted'
        /\ \/ o \in Strangers /\ UNCHANGED <<visible, deleted>>
           \/ o \in Objects /\ (o \in visible' => o \notin deleted')
  <2>1. CASE \E o \in Objects : Save(o)
    <3>1. PICK o \in Objects : Save(o)
      BY <2>1
    <3>2. /\ \E now \in {visible \cup {o}, visible \ {o}} : visible' = now
          /\ deleted' = deleted \ {o}
          /\ \E op \in {"created", "updated"} : Write(o, op)
      BY <3>1 DEF Save
    <3>3. /\ \A p \in visible' : p \in visible \/ p = o
          /\ \A p \in visible : p \in visible' \/ p = o
          /\ deleted' \subseteq deleted \cup {o} /\ deleted \ {o} \subseteq deleted'
          /\ o \notin deleted'
      BY <3>2
    <3> QED
      BY <3>2, <3>3
  <2>2. CASE \E o \in Objects : Delete(o)
    BY <2>2 DEF Delete
  <2>3. CASE \E o \in Strangers : WriteStranger(o)
    BY <2>3 DEF WriteStranger
  <2> QED
    BY <2>1, <2>2, <2>3
<1>2. /\ LogInv'
      /\ DOMAIN about' = 1..(Len(about) + 1)
      /\ \A e \in DOMAIN about : about'[e] = about[e]
      /\ about'[Len(about) + 1].subject = o /\ about'[Len(about) + 1].op = op
      /\ committed' = committed \cup {Len(about) + 1}
      /\ UNCHANGED <<log, reached, recorded, trimmed, fanoutVars, layerVars>>
  BY <1>1, WriteEffect DEF BackendInv
<1>3. /\ Len(about) \in Nat /\ DOMAIN about = 1..Len(about)
      /\ Len(log) \in Nat /\ DOMAIN log = 1..Len(log)
      /\ \A c \in DOMAIN log : log[c] \in DOMAIN about
  BY LogFacts DEF BackendInv
<1>4. DOMAIN about' = DOMAIN about \cup {Len(about) + 1} /\ \A e \in DOMAIN about : Len(about) + 1 > e
  BY <1>2, <1>3
<1>5. FanoutInv'
  BY <1>2 DEF BackendInv, FanoutInv, fanoutVars
<1>6. deleted' \subseteq Objects /\ visible' \subseteq Objects \ deleted'
  <2>1. deleted \subseteq Objects /\ visible \subseteq Objects \ deleted
    BY DEF BackendInv, VisibleInv
  <2>2. CASE o \in Strangers /\ UNCHANGED <<visible, deleted>>
    BY <2>1, <2>2
  <2>3. CASE o \in Objects /\ (o \in visible' => o \notin deleted')
    BY <1>1, <2>1, <2>3
  <2> QED
    BY <1>1, <2>2, <2>3
<1>7. \A e \in DOMAIN about' : about'[e].op = "deleted" /\ about'[e].subject \in visible' =>
        \E d \in DOMAIN about' : d > e /\ about'[d].subject = about'[e].subject
  <2> SUFFICES ASSUME NEW e \in DOMAIN about', about'[e].op = "deleted",
                      about'[e].subject \in visible'
               PROVE  \E d \in DOMAIN about' : d > e /\ about'[d].subject = about'[e].subject
    OBVIOUS
  <2>1. e # Len(about) + 1
    BY <1>1, <1>2
  <2>2. e \in DOMAIN about /\ about'[e] = about[e]
    BY <1>2, <1>4, <2>1
  <2>3. CASE about[e].subject = o
    BY <1>2, <1>4, <2>2, <2>3
  <2>4. CASE about[e].subject # o
    <3>1. about[e].subject \in visible
      BY <1>1, <2>2, <2>4
    <3>2. PICK d \in DOMAIN about : d > e /\ about[d].subject = about[e].subject
      BY <2>2, <3>1 DEF BackendInv, VisibleInv
    <3>3. d \in DOMAIN about' /\ about'[d] = about[d]
      BY <1>2, <1>4
    <3> QED
      BY <2>2, <3>2, <3>3
  <2> QED
    BY <2>3, <2>4
<1>8. VisibleInv'
  BY <1>6, <1>7 DEF VisibleInv
<1>9. \A c \in DOMAIN log : log'[c] = log[c] /\ Subject(c)' = Subject(c)
  BY <1>2, <1>3 DEF Subject
<1>10. \A p \in Objects : (p \in visible') # (p \in visible) =>
         \E e \in committed' : about'[e].subject = p
  BY <1>1, <1>2
<1>11. Grows
  <2>1. Len(log') = Len(log) /\ DOMAIN log' = DOMAIN log /\ reached' = reached
        /\ recorded' = recorded /\ trimmed' = trimmed /\ joined' = joined
    BY <1>2 DEF layerVars
  <2>2. reached \in Nat /\ recorded \in Nat /\ trimmed \in Nat
    BY FanoutFacts DEF BackendInv
  <2> QED
    BY <1>2, <1>3, <1>4, <1>9, <1>10, <2>1, <2>2 DEF Grows
<1> QED
  BY <1>2, <1>5, <1>8, <1>11 DEF BackendInv

LEMMA AssignStep ==
    ASSUME BackendInv, AssignCursor
    PROVE  BackendInv' /\ Grows
<1>1. /\ LogInv'
      /\ DOMAIN log' = 1..(Len(log) + 1) /\ Len(log') = Len(log) + 1
      /\ \A c \in DOMAIN log : log'[c] = log[c]
      /\ committed' = committed \ {log'[Len(log) + 1]}
      /\ UNCHANGED <<objectVars, reached, recorded, trimmed, fanoutVars, layerVars>>
  BY AssignEffect DEF BackendInv
<1>2. /\ recorded \in Nat /\ trimmed \in Nat /\ reached \in Nat
      /\ Len(log) \in Nat /\ DOMAIN log = 1..Len(log)
  BY FanoutFacts, LogFacts DEF BackendInv
<1>3. FanoutInv'
  BY <1>1, <1>2 DEF BackendInv, FanoutInv, fanoutVars
<1>4. VisibleInv'
  BY <1>1 DEF BackendInv, VisibleInv, objectVars
<1>5. Grows
  <2>1. Len(log) + 1 \in DOMAIN log' /\ Len(log) + 1 > Len(log) /\ DOMAIN log \subseteq DOMAIN log'
    BY <1>1, <1>2
  <2>2. \A c \in DOMAIN log : Subject(c)' = Subject(c)
    BY <1>1 DEF Subject, objectVars
  <2>3. \A e \in committed : e \in committed' \/ \E d \in DOMAIN log' : d > Len(log) /\ log'[d] = e
    BY <1>1, <2>1
  <2>4. UNCHANGED <<about, visible, reached, recorded, trimmed, joined>>
    BY <1>1 DEF objectVars, layerVars
  <2> QED
    BY <1>1, <1>2, <2>1, <2>2, <2>3, <2>4 DEF Grows
<1> QED
  BY <1>1, <1>3, <1>4 , <1>5 DEF BackendInv

\* The steps of the listener and of retention.
LEMMA FanoutStep ==
    ASSUME BackendInv, SendToModel \/ SendToObject \/ RecordBroadcast \/ Restart \/ Prune
    PROVE  BackendInv' /\ Grows
<1>1. UNCHANGED <<objectVars, committed, log, joined>>
  BY DEF SendToModel, SendToObject, RecordBroadcast, Restart, Prune, Send, layerVars, logVars
<1>2. LogInv' /\ \A c : Subject(c)' = Subject(c)
  BY <1>1, SameLog DEF BackendInv, objectVars
<1>3. VisibleInv'
  BY <1>1 DEF BackendInv, VisibleInv, objectVars
<1>4. /\ recorded \in Nat /\ trimmed \in Nat /\ reached \in Nat
      /\ Len(log) \in Nat /\ DOMAIN log = 1..Len(log)
  BY FanoutFacts, LogFacts DEF BackendInv
<1>5. FanoutInv' /\ recorded <= recorded' /\ reached <= reached' /\ trimmed <= trimmed'
  <2>1. CASE SendToModel
    <3>1. /\ recorded < Len(log) /\ phase' = "object"
          /\ UNCHANGED <<log, recorded, trimmed, reached>>
      BY <2>1 DEF SendToModel, Send
    <3> QED
      BY <1>4, <3>1 DEF BackendInv, FanoutInv
  <2>2. CASE SendToObject
    BY <1>4, <2>2 DEF BackendInv, FanoutInv, SendToObject, Send
  <2>3. CASE RecordBroadcast
    BY <1>4, <2>3 DEF BackendInv, FanoutInv, RecordBroadcast
  <2>4. CASE Restart
    BY <1>4, <2>4 DEF BackendInv, FanoutInv, Restart, logVars
  <2>5. CASE Prune
    BY <1>4, <2>5 DEF BackendInv, FanoutInv, Prune, fanoutVars
  <2> QED
    BY <2>1, <2>2, <2>3, <2>4, <2>5
<1>6. Grows
  BY <1>1, <1>2, <1>4, <1>5 DEF Grows, objectVars
<1> QED
  BY <1>2, <1>3, <1>5, <1>6 DEF BackendInv

LEMMA BackendStep ==
    ASSUME BackendInv, BackendNext
    PROVE  BackendInv' /\ Grows
BY WriteStep, AssignStep, FanoutStep DEF BackendNext

\* What the backend puts into the mailbox: the next cursor to record, in the
\* groups that the channel is in.
LEMMA MailboxStep ==
    ASSUME BackendInv, BackendNext
    PROVE  \/ mailbox' = mailbox
           \/ mailbox' = Append(mailbox, recorded + 1) /\ recorded < Len(log) /\ recorded' = recorded
<1>1. CASE (\E o \in Objects : Save(o) \/ Delete(o)) \/ \E o \in Strangers : WriteStranger(o)
  BY <1>1, WriteStep DEF layerVars
<1>2. CASE AssignCursor
  BY <1>2 DEF AssignCursor, layerVars
<1>3. CASE SendToModel \/ SendToObject \/ RecordBroadcast \/ Restart \/ Prune
  BY <1>3 DEF SendToModel, SendToObject, RecordBroadcast, Restart, Prune, Send, layerVars
<1> QED
  BY <1>1, <1>2, <1>3 DEF BackendNext

\* The handlers and the client leave the backend as it is, the mailbox and the
\* groups of the channel excepted.
LEMMA SessionStep ==
    ASSUME BackendInv, HandlerNext \/ ClientNext
    PROVE  UNCHANGED world
BY DEF HandlerNext, ClientNext, ReadSnapshot, CheckLimit, ReadMembers, Join, CatchUpLatest,
       CatchUpEvents, Refresh, Acknowledge, CheckReplay, Replay, Flush, Receive, FetchRow,
       Publish, Published, Subscribe, Unsubscribe, Disconnect, Reads, Sends, backendVars, world
=============================================================================
