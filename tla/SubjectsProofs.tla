--------------------------- MODULE SubjectsProofs ---------------------------
(***************************************************************************)
(* Every change of what a customer's subscribers see is told to that customer, *)
(* for any tables, any number of sessions and transactions of any length.      *)
(* What carries the proof from a statement to its commit is Settled: a lookup   *)
(* stays true until another commit overtakes it, and overtaken records that.    *)
(***************************************************************************)
EXTENDS Subjects, TLAPS

-----------------------------------------------------------------------------
(* Tables and lookups *)

\* NoLine names no order, so no trigger can look one up for it.
LEMMA NoLineNamesNothing ==
    NoLine.order \notin Orders /\ NoLine \notin LineRows
BY NamesAreNoRows DEF NoLine, LineRows

\* A transaction sees its own rows over the committed ones, of the same tables.
LEMMA ViewIsTyped ==
    ASSUME SubjectsTypeOK, NEW t \in Sessions
    PROVE  /\ LinesOf(t) \in [Lines -> LineRows \cup {NoLine}]
           /\ OrdersOf(t) \in [Orders -> Customers \cup {Null, Gone}]
<1>1. LinesOf(t) \in [Lines -> LineRows \cup {NoLine}]
  BY DEF SubjectsTypeOK, LinesOf, Over
<1>2. OrdersOf(t) \in [Orders -> Customers \cup {Null, Gone}]
  BY DEF SubjectsTypeOK, OrdersOf, Over
<1> QED
  BY <1>1, <1>2

\* Settled after a step, of an order named before it.
SettledAfter(t, o) ==
    \/ o \in DOMAIN orderWrites'[t]
    \/ o \in overtaken'[t]
    \/ o \in lookedUp'[t] /\ {order'[o]} \cap Customers \subseteq told'[t]

\* A settled order stays settled while the transaction forgets nothing and the
\* order's committed row stays, or its lookup is marked as overtaken.
LEMMA SettledStays ==
    ASSUME NEW t \in Sessions, NEW o, Settled(t, o),
           DOMAIN orderWrites[t] \subseteq DOMAIN orderWrites'[t],
           overtaken[t] \subseteq overtaken'[t],
           told[t] \subseteq told'[t],
           lookedUp[t] \subseteq lookedUp'[t],
           o \in lookedUp[t] => order'[o] = order[o] \/ o \in overtaken'[t]
    PROVE  SettledAfter(t, o)
BY DEF Settled, SettledAfter

\* A lookup settles the order it finds: its customer is told, or the transaction
\* wrote the order itself, and then the order's own trigger told.
LEMMA MappedIsSettled ==
    ASSUME SubjectsTypeOK, NEW t \in Sessions, NEW row \in LineRows \cup {NoLine},
           Map(t, row), UNCHANGED <<order, orderWrites>>, row.order \in Orders
    PROVE  SettledAfter(t, row.order)
<1> DEFINE o == row.order
<1>1. told'[t] = told[t] \cup SubjectOf(row, OrdersOf(t))
  BY DEF Map, SubjectsTypeOK
<1>2. lookedUp'[t] = lookedUp[t] \cup ({o} \cap Orders)
  BY DEF Map, SubjectsTypeOK
<1>3. SubjectOf(row, OrdersOf(t)) = {OrdersOf(t)[o]} \cap Customers
  BY DEF SubjectOf
<1>4. CASE o \in DOMAIN orderWrites[t]
  BY <1>4 DEF SettledAfter
<1>5. CASE o \notin DOMAIN orderWrites[t]
  <2>1. OrdersOf(t)[o] = order[o]
    BY <1>5 DEF OrdersOf, Over, SubjectsTypeOK
  <2> QED
    BY <1>1, <1>2, <1>3, <2>1 DEF SettledAfter
<1> QED
  BY <1>4, <1>5

\* What a lookup tells is a customer.
LEMMA MapIsTyped ==
    ASSUME SubjectsTypeOK, NEW t \in Sessions, NEW row, Map(t, row)
    PROVE  /\ told' \in [Sessions -> SUBSET Customers]
           /\ lookedUp' \in [Sessions -> SUBSET Orders]
           /\ told[t] \subseteq told'[t] /\ lookedUp[t] \subseteq lookedUp'[t]
           /\ \A u \in Sessions \ {t} : told'[u] = told[u] /\ lookedUp'[u] = lookedUp[u]
<1>1. SubjectOf(row, OrdersOf(t)) \subseteq Customers
  BY DEF SubjectOf
<1> QED
  BY <1>1 DEF Map, SubjectsTypeOK

-----------------------------------------------------------------------------
(* The statements about lines *)

\* The three statements are one write, whose trigger maps OLD unless there is none,
\* and maps NEW, now or in a step of its own, unless there is none.
LEMMA LineStatements ==
    ASSUME SubjectsTypeOK, NEW t \in Sessions, NEW l \in Lines,
           InsertLine(t, l) \/ UpdateLine(t, l) \/ DeleteLine(t, l)
    PROVE  \E new \in LineRows \cup {NoLine}, first \in LineRows \cup {NoLine},
              rest \in SUBSET LineRows :
              /\ WriteLine(t, l, new, first, rest)
              /\ LinesOf(t)[l] \in {first, NoLine}
              /\ new = first \/ rest = {new} \/ new = NoLine
              /\ rest \subseteq {new}
<1>1. LinesOf(t)[l] \in LineRows \cup {NoLine}
  BY ViewIsTyped
<1>2. CASE InsertLine(t, l)
  <2>1. PICK row \in LineRows : WriteLine(t, l, row, row, {})
    BY <1>2 DEF InsertLine
  <2> QED
    BY <1>2, <2>1 DEF InsertLine
<1>3. CASE UpdateLine(t, l)
  <2>1. PICK row \in LineRows : WriteLine(t, l, row, LinesOf(t)[l], {row})
    BY <1>3 DEF UpdateLine
  <2> QED
    BY <1>1, <2>1
<1>4. CASE DeleteLine(t, l)
  <2>1. WriteLine(t, l, NoLine, LinesOf(t)[l], {})
    BY <1>4 DEF DeleteLine
  <2> QED
    BY <1>1, <2>1
<1> QED
  BY <1>2, <1>3, <1>4

LEMMA WriteLineStep ==
    ASSUME SubjectsInv, NEW t \in Sessions, NEW l \in Lines,
           NEW new \in LineRows \cup {NoLine}, NEW first \in LineRows \cup {NoLine},
           NEW rest \in SUBSET LineRows,
           WriteLine(t, l, new, first, rest),
           LinesOf(t)[l] \in {first, NoLine},
           new = first \/ rest = {new} \/ new = NoLine,
           rest \subseteq {new}
    PROVE  SubjectsInv'
<1>0. SubjectsTypeOK /\ RowsAreLocked /\ OrdersAreTold /\ LinesAreTold /\ OneToMap
  BY DEF SubjectsInv
<1>1. UNCHANGED <<line, order, orderWrites, overtaken>>
  BY DEF WriteLine, Statement, tables
<1>2. Map(t, first) /\ Free(t, lineWrites, l) /\ toMap[t] = {}
  BY DEF WriteLine, Statement
<1>3. /\ DOMAIN lineWrites' = Sessions
      /\ lineWrites'[t] = Written(lineWrites[t], {l}, new)
      /\ \A u \in Sessions \ {t} : lineWrites'[u] = lineWrites[u]
  BY <1>0 DEF WriteLine, SubjectsTypeOK
<1>4. /\ DOMAIN lineWrites'[t] = DOMAIN lineWrites[t] \cup {l}
      /\ lineWrites'[t][l] = new
      /\ \A k \in DOMAIN lineWrites[t] \ {l} : lineWrites'[t][k] = lineWrites[t][k]
  BY <1>3 DEF Written
<1>5. /\ toMap' \in [Sessions -> SUBSET LineRows]
      /\ toMap'[t] = rest
      /\ \A u \in Sessions \ {t} : toMap'[u] = toMap[u]
  BY <1>0 DEF WriteLine, SubjectsTypeOK
<1>6. statements' \in [Sessions -> 0..MaxStatements]
  <2>1. statements[t] \in Nat /\ statements[t] < MaxStatements
    BY <1>0, BoundIsNat DEF WriteLine, Statement, SubjectsTypeOK
  <2>2. statements[t] + 1 \in 0..MaxStatements
    BY <2>1, BoundIsNat
  <2> QED
    BY <1>0, <2>2 DEF WriteLine, Statement, SubjectsTypeOK
<1>7. /\ told' \in [Sessions -> SUBSET Customers]
      /\ lookedUp' \in [Sessions -> SUBSET Orders]
      /\ told[t] \subseteq told'[t] /\ lookedUp[t] \subseteq lookedUp'[t]
      /\ \A u \in Sessions \ {t} : told'[u] = told[u] /\ lookedUp'[u] = lookedUp[u]
  BY <1>0, <1>2, MapIsTyped
<1>8. SubjectsTypeOK'
  <2>1. \A u \in Sessions :
          /\ DOMAIN lineWrites'[u] \subseteq Lines
          /\ \A k \in DOMAIN lineWrites'[u] : lineWrites'[u][k] \in LineRows \cup {NoLine}
    BY <1>0, <1>3, <1>4 DEF SubjectsTypeOK
  <2> QED
    BY <1>0, <1>1, <1>3, <1>5, <1>6, <1>7, <2>1 DEF SubjectsTypeOK
<1>9. RowsAreLocked'
  <2>1. \A u \in Sessions \ {t} : l \notin DOMAIN lineWrites[u]
    BY <1>2 DEF Free
  <2> QED
    BY <1>0, <1>1, <1>3, <1>4, <2>1 DEF RowsAreLocked
<1>10. OrdersAreTold'
  BY <1>0, <1>1, <1>7 DEF OrdersAreTold
<1>11. LinesAreTold'
  <2>1. \A u \in Sessions : \A o : Settled(u, o) => SettledAfter(u, o)
    BY <1>1, <1>7, SettledStays
  <2>2. first.order \in Orders => SettledAfter(t, first.order)
    BY <1>0, <1>1, <1>2, MappedIsSettled
  <2>3. line[l].order \in Orders => SettledAfter(t, line[l].order)
    <3>1. CASE l \in DOMAIN lineWrites[t]
      BY <1>0, <2>1, <3>1 DEF LinesAreTold
    <3>2. CASE l \notin DOMAIN lineWrites[t]
      <4>1. LinesOf(t)[l] = line[l]
        BY <1>0, <3>2 DEF LinesOf, Over, SubjectsTypeOK
      <4> QED
        BY <2>2, <4>1, NoLineNamesNothing
    <3> QED
      BY <3>1, <3>2
  <2>4. new.order \in Orders => new \in rest \/ SettledAfter(t, new.order)
    BY <2>2, NoLineNamesNothing
  <2>5. \A k \in DOMAIN lineWrites[t] \ {l} :
          /\ line[k].order \in Orders => SettledAfter(t, line[k].order)
          /\ lineWrites[t][k].order \in Orders => SettledAfter(t, lineWrites[t][k].order)
    BY <1>0, <1>2, <2>1 DEF LinesAreTold
  <2>6. \A u \in Sessions \ {t} : \A k \in DOMAIN lineWrites[u] :
          /\ line[k].order \in Orders => SettledAfter(u, line[k].order)
          /\ lineWrites[u][k].order \in Orders =>
               lineWrites[u][k] \in toMap[u] \/ SettledAfter(u, lineWrites[u][k].order)
    BY <1>0, <2>1 DEF LinesAreTold
  <2>7. \A k \in DOMAIN lineWrites'[t] :
          /\ line[k].order \in Orders => SettledAfter(t, line[k].order)
          /\ lineWrites'[t][k].order \in Orders =>
               lineWrites'[t][k] \in toMap'[t] \/ SettledAfter(t, lineWrites'[t][k].order)
    BY <1>4, <1>5, <2>3, <2>4, <2>5
  <2> QED
    BY <1>1, <1>3, <1>5, <2>6, <2>7 DEF LinesAreTold, Settled, SettledAfter
<1>12. OneToMap'
  BY <1>0, <1>5 DEF OneToMap
<1> QED
  BY <1>8, <1>9, <1>10, <1>11, <1>12 DEF SubjectsInv

\* The second half of an update's trigger: NEW is looked up where it is now.
LEMMA MapNewStep ==
    ASSUME SubjectsInv, NEW t \in Sessions, MapNew(t)
    PROVE  SubjectsInv'
<1>0. SubjectsTypeOK /\ RowsAreLocked /\ OrdersAreTold /\ LinesAreTold /\ OneToMap
  BY DEF SubjectsInv
<1>1. UNCHANGED <<line, order, lineWrites, orderWrites, statements, overtaken>>
  BY DEF MapNew, tables
<1>2. PICK row \in toMap[t] : Map(t, row)
  BY DEF MapNew
<1>3. row \in LineRows
  BY <1>0 DEF SubjectsTypeOK
<1>4. toMap[t] = {row}
  BY <1>0 DEF OneToMap
<1>5. /\ toMap' \in [Sessions -> SUBSET LineRows]
      /\ toMap'[t] = {}
      /\ \A u \in Sessions \ {t} : toMap'[u] = toMap[u]
  BY <1>0 DEF MapNew, SubjectsTypeOK
<1>6. /\ told' \in [Sessions -> SUBSET Customers]
      /\ lookedUp' \in [Sessions -> SUBSET Orders]
      /\ told[t] \subseteq told'[t] /\ lookedUp[t] \subseteq lookedUp'[t]
      /\ \A u \in Sessions \ {t} : told'[u] = told[u] /\ lookedUp'[u] = lookedUp[u]
  BY <1>0, <1>2, MapIsTyped
<1>7. SubjectsTypeOK'
  BY <1>0, <1>1, <1>5, <1>6 DEF SubjectsTypeOK
<1>8. RowsAreLocked'
  BY <1>0, <1>1 DEF RowsAreLocked
<1>9. OrdersAreTold'
  BY <1>0, <1>1, <1>6 DEF OrdersAreTold
<1>10. LinesAreTold'
  <2>1. \A u \in Sessions : \A o : Settled(u, o) => SettledAfter(u, o)
    BY <1>1, <1>6, SettledStays
  <2>2. row.order \in Orders => SettledAfter(t, row.order)
    BY <1>0, <1>1, <1>2, <1>3, MappedIsSettled
  <2>3. \A u \in Sessions : \A k \in DOMAIN lineWrites[u] :
          /\ line[k].order \in Orders => SettledAfter(u, line[k].order)
          /\ lineWrites[u][k].order \in Orders =>
               lineWrites[u][k] \in toMap[u] \/ SettledAfter(u, lineWrites[u][k].order)
    BY <1>0, <2>1 DEF LinesAreTold
  <2>4. \A u \in Sessions : \A k \in DOMAIN lineWrites[u] :
          lineWrites[u][k].order \in Orders =>
              lineWrites[u][k] \in toMap'[u] \/ SettledAfter(u, lineWrites[u][k].order)
    BY <1>4, <1>5, <2>2, <2>3
  <2> QED
    BY <1>1, <2>3, <2>4 DEF LinesAreTold, Settled, SettledAfter
<1>11. OneToMap'
  BY <1>0, <1>5 DEF OneToMap
<1> QED
  BY <1>7, <1>8, <1>9, <1>10, <1>11 DEF SubjectsInv

-----------------------------------------------------------------------------
(* The statements about orders *)

\* A write of an order, with the lines that a database cascade deletes with it (none
\* for a plain statement).  Those lines' triggers are silent; they need not speak,
\* because all these lines name the order, whose own trigger tells its customer.
LEMMA WriteOrderStep ==
    ASSUME SubjectsInv, NEW t \in Sessions, NEW o \in Orders,
           NEW new \in Customers \cup {Null, Gone},
           NEW lines \in SUBSET Lines,
           WriteOrder(t, o, new),
           \A l \in lines : LinesOf(t)[l].order = o /\ Free(t, lineWrites, l),
           DOMAIN lineWrites' = Sessions,
           DOMAIN lineWrites'[t] = DOMAIN lineWrites[t] \cup lines,
           \A l \in lines : lineWrites'[t][l] = NoLine,
           \A k \in DOMAIN lineWrites[t] \ lines : lineWrites'[t][k] = lineWrites[t][k],
           \A u \in Sessions \ {t} : lineWrites'[u] = lineWrites[u]
    PROVE  SubjectsInv'
<1>0. SubjectsTypeOK /\ RowsAreLocked /\ OrdersAreTold /\ LinesAreTold /\ OneToMap
  BY DEF SubjectsInv
<1>1. UNCHANGED <<line, order, overtaken, toMap, lookedUp>>
  BY DEF WriteOrder, Statement, tables
<1>2. /\ DOMAIN lineWrites' = Sessions
      /\ DOMAIN lineWrites'[t] = DOMAIN lineWrites[t] \cup lines
      /\ \A l \in lines : lineWrites'[t][l] = NoLine
      /\ \A k \in DOMAIN lineWrites[t] \ lines : lineWrites'[t][k] = lineWrites[t][k]
      /\ \A u \in Sessions \ {t} : lineWrites'[u] = lineWrites[u]
  OBVIOUS
<1>3. /\ DOMAIN orderWrites' = Sessions
      /\ DOMAIN orderWrites'[t] = DOMAIN orderWrites[t] \cup {o}
      /\ orderWrites'[t][o] = new
      /\ \A q \in DOMAIN orderWrites[t] \ {o} : orderWrites'[t][q] = orderWrites[t][q]
      /\ \A u \in Sessions \ {t} : orderWrites'[u] = orderWrites[u]
  BY <1>0 DEF WriteOrder, SubjectsTypeOK, Written
<1>4. /\ told' \in [Sessions -> SUBSET Customers]
      /\ told'[t] = told[t] \cup ({OrdersOf(t)[o], new} \cap Customers)
      /\ \A u \in Sessions \ {t} : told'[u] = told[u]
  BY <1>0 DEF WriteOrder, SubjectsTypeOK
<1>5. statements' \in [Sessions -> 0..MaxStatements]
  <2>1. statements[t] \in Nat /\ statements[t] < MaxStatements
    BY <1>0, BoundIsNat DEF WriteOrder, Statement, SubjectsTypeOK
  <2>2. statements[t] + 1 \in 0..MaxStatements
    BY <2>1, BoundIsNat
  <2> QED
    BY <1>0, <2>2 DEF WriteOrder, Statement, SubjectsTypeOK
<1>6. SubjectsTypeOK'
  <2>1. \A u \in Sessions :
          /\ DOMAIN lineWrites'[u] \subseteq Lines
          /\ \A k \in DOMAIN lineWrites'[u] : lineWrites'[u][k] \in LineRows \cup {NoLine}
    BY <1>0, <1>2 DEF SubjectsTypeOK
  <2>2. \A u \in Sessions :
          /\ DOMAIN orderWrites'[u] \subseteq Orders
          /\ \A q \in DOMAIN orderWrites'[u] :
               orderWrites'[u][q] \in Customers \cup {Null, Gone}
    BY <1>0, <1>3 DEF SubjectsTypeOK
  <2> QED
    BY <1>0, <1>1, <1>2, <1>3, <1>4, <1>5, <2>1, <2>2 DEF SubjectsTypeOK
<1>7. RowsAreLocked'
  <2>1. \A u \in Sessions \ {t} : o \notin DOMAIN orderWrites[u]
    BY DEF WriteOrder, Free
  <2>2. \A u \in Sessions \ {t} : lines \cap DOMAIN lineWrites[u] = {}
    BY DEF Free
  <2>3. \A s \in Sessions : \A u \in Sessions \ {s} :
          DOMAIN lineWrites'[s] \cap DOMAIN lineWrites'[u] = {}
    BY <1>0, <1>2, <2>2 DEF RowsAreLocked
  <2>4. \A s \in Sessions : \A u \in Sessions \ {s} :
          DOMAIN orderWrites'[s] \cap DOMAIN orderWrites'[u] = {}
    BY <1>0, <1>3, <2>1 DEF RowsAreLocked
  <2> QED
    BY <2>3, <2>4 DEF RowsAreLocked
<1>8. OrdersAreTold'
  <2>1. {order[o]} \cap Customers \subseteq told'[t]
    <3>1. CASE o \in DOMAIN orderWrites[t]
      BY <1>0, <1>4, <3>1 DEF OrdersAreTold
    <3>2. CASE o \notin DOMAIN orderWrites[t]
      <4>1. OrdersOf(t)[o] = order[o]
        BY <1>0, <3>2 DEF OrdersOf, Over, SubjectsTypeOK
      <4> QED
        BY <1>4, <4>1
    <3> QED
      BY <3>1, <3>2
  <2>2. {order[o], orderWrites'[t][o]} \cap Customers \subseteq told'[t]
    BY <1>3, <1>4, <2>1
  <2>3. \A q \in DOMAIN orderWrites'[t] :
          {order[q], orderWrites'[t][q]} \cap Customers \subseteq told'[t]
    BY <1>0, <1>3, <1>4, <2>2 DEF OrdersAreTold
  <2> QED
    BY <1>0, <1>1, <1>3, <1>4, <2>3 DEF OrdersAreTold
<1>9. LinesAreTold'
  <2>1. \A u \in Sessions : \A q : Settled(u, q) => SettledAfter(u, q)
    <3> SUFFICES ASSUME NEW u \in Sessions, NEW q, Settled(u, q) PROVE SettledAfter(u, q)
      OBVIOUS
    <3>1. DOMAIN orderWrites[u] \subseteq DOMAIN orderWrites'[u] /\ told[u] \subseteq told'[u]
      BY <1>3, <1>4
    <3> QED
      BY <1>1, <3>1, SettledStays
  <2>2. SettledAfter(t, o)
    BY <1>3 DEF SettledAfter
  <2>3. \A l \in lines : line[l].order \in Orders => SettledAfter(t, line[l].order)
    <3> SUFFICES ASSUME NEW l \in lines, line[l].order \in Orders
                 PROVE  SettledAfter(t, line[l].order)
      OBVIOUS
    <3>1. CASE l \in DOMAIN lineWrites[t]
      BY <1>0, <2>1, <3>1 DEF LinesAreTold
    <3>2. CASE l \notin DOMAIN lineWrites[t]
      <4>1. LinesOf(t)[l] = line[l]
        BY <1>0, <3>2 DEF LinesOf, Over, SubjectsTypeOK
      <4>2. line[l].order = o
        BY <4>1
      <4> QED
        BY <2>2, <4>2, <1>1
    <3> QED
      BY <3>1, <3>2
  <2>4. \A u \in Sessions : \A k \in DOMAIN lineWrites[u] :
          /\ line[k].order \in Orders => SettledAfter(u, line[k].order)
          /\ lineWrites[u][k].order \in Orders =>
               lineWrites[u][k] \in toMap[u] \/ SettledAfter(u, lineWrites[u][k].order)
    BY <1>0, <2>1 DEF LinesAreTold
  <2>5. \A k \in DOMAIN lineWrites'[t] :
          /\ line[k].order \in Orders => SettledAfter(t, line[k].order)
          /\ lineWrites'[t][k].order \in Orders =>
               lineWrites'[t][k] \in toMap[t] \/ SettledAfter(t, lineWrites'[t][k].order)
    BY <1>2, <2>3, <2>4, NoLineNamesNothing
  <2> QED
    BY <1>1, <1>2, <2>4, <2>5 DEF LinesAreTold, Settled, SettledAfter
<1>10. OneToMap'
  BY <1>0, <1>1 DEF OneToMap
<1> QED
  BY <1>6, <1>7, <1>8, <1>9, <1>10 DEF SubjectsInv

\* Every statement about an order is such a write.
LEMMA OrderStatements ==
    ASSUME SubjectsInv, NEW t \in Sessions, NEW o \in Orders,
           \/ InsertOrder(t, o) \/ UpdateOrder(t, o)
           \/ DeleteOrder(t, o) \/ CascadeOrder(t, o)
    PROVE  SubjectsInv'
<1>0. SubjectsTypeOK
  BY DEF SubjectsInv
<1>1. CASE InsertOrder(t, o) \/ UpdateOrder(t, o) \/ DeleteOrder(t, o)
  <2>1. PICK new \in Customers \cup {Null, Gone} :
            WriteOrder(t, o, new) /\ lineWrites' = lineWrites
    BY <1>1 DEF InsertOrder, UpdateOrder, DeleteOrder
  <2>2. DOMAIN lineWrites = Sessions
    BY <1>0 DEF SubjectsTypeOK
  <2> DEFINE none == {}
  <2>3. /\ none \in SUBSET Lines
        /\ \A l \in none : LinesOf(t)[l].order = o /\ Free(t, lineWrites, l)
        /\ DOMAIN lineWrites' = Sessions
        /\ DOMAIN lineWrites'[t] = DOMAIN lineWrites[t] \cup none
        /\ \A l \in none : lineWrites'[t][l] = NoLine
        /\ \A k \in DOMAIN lineWrites[t] \ none : lineWrites'[t][k] = lineWrites[t][k]
        /\ \A u \in Sessions \ {t} : lineWrites'[u] = lineWrites[u]
    BY <2>1, <2>2
  <2> QED
    BY <2>1, <2>3, WriteOrderStep
<1>2. CASE CascadeOrder(t, o)
  <2> DEFINE lines == {l \in Lines : LinesOf(t)[l].order = o}
  <2>1. /\ WriteOrder(t, o, Gone)
        /\ lineWrites' = [lineWrites EXCEPT ![t] = Written(@, lines, NoLine)]
        /\ \A l \in lines : LinesOf(t)[l].order = o /\ Free(t, lineWrites, l)
    BY <1>2 DEF CascadeOrder
  <2>2. /\ DOMAIN lineWrites' = Sessions
        /\ lineWrites'[t] = Written(lineWrites[t], lines, NoLine)
        /\ \A u \in Sessions \ {t} : lineWrites'[u] = lineWrites[u]
    BY <1>0, <2>1 DEF SubjectsTypeOK
  <2>3. /\ DOMAIN lineWrites'[t] = DOMAIN lineWrites[t] \cup lines
        /\ \A l \in lines : lineWrites'[t][l] = NoLine
        /\ \A k \in DOMAIN lineWrites[t] \ lines : lineWrites'[t][k] = lineWrites[t][k]
    BY <2>2 DEF Written
  <2>4. lines \in SUBSET Lines /\ Gone \in Customers \cup {Null, Gone}
    OBVIOUS
  <2> QED
    BY <2>1, <2>2, <2>3, <2>4, WriteOrderStep
<1> QED
  BY <1>1, <1>2

-----------------------------------------------------------------------------
(* The end of a transaction *)

\* After its end a transaction has written nothing and no trigger of it is running.
LEMMA EndEffects ==
    ASSUME SubjectsTypeOK, NEW t \in Sessions, End(t)
    PROVE  /\ DOMAIN lineWrites' = Sessions /\ DOMAIN lineWrites'[t] = {}
           /\ DOMAIN orderWrites' = Sessions /\ DOMAIN orderWrites'[t] = {}
           /\ told' \in [Sessions -> SUBSET Customers]
           /\ toMap' \in [Sessions -> SUBSET LineRows] /\ toMap'[t] = {}
           /\ statements' \in [Sessions -> 0..MaxStatements] /\ statements'[t] = 0
           /\ lookedUp' \in [Sessions -> SUBSET Orders]
           /\ \A u \in Sessions \ {t} :
                /\ lineWrites'[u] = lineWrites[u] /\ orderWrites'[u] = orderWrites[u]
                /\ told'[u] = told[u] /\ toMap'[u] = toMap[u]
                /\ lookedUp'[u] = lookedUp[u]
<1>1. /\ lineWrites'[t] = <<>> /\ orderWrites'[t] = <<>>
      /\ DOMAIN lineWrites' = Sessions /\ DOMAIN orderWrites' = Sessions
  BY DEF End, SubjectsTypeOK
<1>2. DOMAIN lineWrites'[t] = {} /\ DOMAIN orderWrites'[t] = {}
  BY <1>1
<1>3. 0 \in 0..MaxStatements
  BY BoundIsNat
<1> QED
  BY <1>1, <1>2, <1>3 DEF End, SubjectsTypeOK

\* What the end of one transaction leaves of the invariant, when the rows that other
\* transactions have locked stay and every lookup that went stale is marked.
LEMMA EndStep ==
    ASSUME SubjectsInv, NEW t \in Sessions, End(t),
           line' \in [Lines -> LineRows \cup {NoLine}],
           order' \in [Orders -> Customers \cup {Null, Gone}],
           overtaken' \in [Sessions -> SUBSET Orders],
           \A u \in Sessions \ {t} :
               /\ \A l \in DOMAIN lineWrites[u] : line'[l] = line[l]
               /\ \A o \in DOMAIN orderWrites[u] : order'[o] = order[o]
               /\ overtaken[u] \subseteq overtaken'[u]
               /\ \A o \in lookedUp[u] : order'[o] = order[o] \/ o \in overtaken'[u]
    PROVE  SubjectsInv'
<1>0. SubjectsTypeOK /\ RowsAreLocked /\ OrdersAreTold /\ LinesAreTold /\ OneToMap
  BY DEF SubjectsInv
<1>1. /\ DOMAIN lineWrites' = Sessions /\ DOMAIN lineWrites'[t] = {}
      /\ DOMAIN orderWrites' = Sessions /\ DOMAIN orderWrites'[t] = {}
      /\ told' \in [Sessions -> SUBSET Customers]
      /\ toMap' \in [Sessions -> SUBSET LineRows] /\ toMap'[t] = {}
      /\ statements' \in [Sessions -> 0..MaxStatements]
      /\ lookedUp' \in [Sessions -> SUBSET Orders]
      /\ \A u \in Sessions \ {t} :
           /\ lineWrites'[u] = lineWrites[u] /\ orderWrites'[u] = orderWrites[u]
           /\ told'[u] = told[u] /\ toMap'[u] = toMap[u]
           /\ lookedUp'[u] = lookedUp[u]
  BY <1>0, EndEffects
<1>2. SubjectsTypeOK'
  <2>1. \A u \in Sessions :
          /\ DOMAIN lineWrites'[u] \subseteq Lines
          /\ \A k \in DOMAIN lineWrites'[u] : lineWrites'[u][k] \in LineRows \cup {NoLine}
          /\ DOMAIN orderWrites'[u] \subseteq Orders
          /\ \A q \in DOMAIN orderWrites'[u] :
               orderWrites'[u][q] \in Customers \cup {Null, Gone}
    BY <1>0, <1>1 DEF SubjectsTypeOK
  <2> QED
    BY <1>1, <2>1 DEF SubjectsTypeOK
<1>3. RowsAreLocked'
  BY <1>0, <1>1 DEF RowsAreLocked
<1>4. OrdersAreTold'
  BY <1>0, <1>1 DEF OrdersAreTold
<1>5. LinesAreTold'
  <2>1. ASSUME NEW u \in Sessions \ {t}, NEW o, Settled(u, o)
        PROVE  SettledAfter(u, o)
    BY <1>1, <2>1, SettledStays
  <2>2. \A u \in Sessions \ {t} : \A k \in DOMAIN lineWrites[u] :
          /\ line[k].order \in Orders => SettledAfter(u, line[k].order)
          /\ lineWrites[u][k].order \in Orders =>
               lineWrites[u][k] \in toMap[u] \/ SettledAfter(u, lineWrites[u][k].order)
    BY <1>0, <2>1 DEF LinesAreTold
  <2> QED
    BY <1>1, <2>2 DEF LinesAreTold, Settled, SettledAfter
<1>6. OneToMap'
  BY <1>0, <1>1 DEF OneToMap
<1> QED
  BY <1>2, <1>3, <1>4, <1>5, <1>6 DEF SubjectsInv

LEMMA CommitStep ==
    ASSUME SubjectsInv, NEW t \in Sessions, Commit(t)
    PROVE  SubjectsInv'
<1>0. SubjectsTypeOK /\ RowsAreLocked
  BY DEF SubjectsInv
<1>1. End(t) /\ line' = LinesOf(t) /\ order' = OrdersOf(t)
  BY DEF Commit
<1>2. /\ line' \in [Lines -> LineRows \cup {NoLine}]
      /\ order' \in [Orders -> Customers \cup {Null, Gone}]
  BY <1>0, <1>1, ViewIsTyped
<1>3. /\ \A l \in Lines \ DOMAIN lineWrites[t] : line'[l] = line[l]
      /\ \A o \in Orders \ DOMAIN orderWrites[t] : order'[o] = order[o]
  BY <1>0, <1>1 DEF LinesOf, OrdersOf, Over, SubjectsTypeOK
<1>4. overtaken' = [u \in Sessions |-> IF u = t THEN {}
                        ELSE overtaken[u] \cup (lookedUp[u] \cap DOMAIN orderWrites[t])]
  BY DEF Commit
<1>5. overtaken' \in [Sessions -> SUBSET Orders]
  BY <1>0, <1>4 DEF SubjectsTypeOK
<1>6. ASSUME NEW u \in Sessions \ {t}
      PROVE  /\ \A l \in DOMAIN lineWrites[u] : line'[l] = line[l]
             /\ \A o \in DOMAIN orderWrites[u] : order'[o] = order[o]
             /\ overtaken[u] \subseteq overtaken'[u]
             /\ \A o \in lookedUp[u] : order'[o] = order[o] \/ o \in overtaken'[u]
  <2>1. \A l \in DOMAIN lineWrites[u] : l \in Lines \ DOMAIN lineWrites[t]
    BY <1>0 DEF RowsAreLocked, SubjectsTypeOK
  <2>2. \A o \in DOMAIN orderWrites[u] : o \in Orders \ DOMAIN orderWrites[t]
    BY <1>0 DEF RowsAreLocked, SubjectsTypeOK
  <2>3. overtaken'[u] = overtaken[u] \cup (lookedUp[u] \cap DOMAIN orderWrites[t])
    BY <1>4
  <2>4. lookedUp[u] \subseteq Orders
    BY <1>0 DEF SubjectsTypeOK
  <2> QED
    BY <1>3, <2>1, <2>2, <2>3, <2>4
<1> QED
  BY <1>1, <1>2, <1>5, <1>6, EndStep

LEMMA RollbackStep ==
    ASSUME SubjectsInv, NEW t \in Sessions, Rollback(t)
    PROVE  SubjectsInv'
<1>0. SubjectsTypeOK
  BY DEF SubjectsInv
<1>1. End(t) /\ UNCHANGED <<line, order>> /\ overtaken' = [overtaken EXCEPT ![t] = {}]
  BY DEF Rollback, tables
<1>2. /\ line' \in [Lines -> LineRows \cup {NoLine}]
      /\ order' \in [Orders -> Customers \cup {Null, Gone}]
      /\ overtaken' \in [Sessions -> SUBSET Orders]
      /\ \A u \in Sessions \ {t} : overtaken'[u] = overtaken[u]
  BY <1>0, <1>1 DEF SubjectsTypeOK
<1> QED
  BY <1>1, <1>2, EndStep

-----------------------------------------------------------------------------
(* The theorems *)

\* The state of every transaction stays consistent with the committed tables and with
\* what its triggers told, whatever the other sessions commit.
THEOREM SubjectsInvIsInvariant == Spec => []SubjectsInv
<1>1. Init => SubjectsInv
  <2> SUFFICES ASSUME Init PROVE SubjectsInv
    OBVIOUS
  <2>1. \A t \in Sessions : DOMAIN lineWrites[t] = {} /\ DOMAIN orderWrites[t] = {}
    BY DEF Init
  <2>2. 0 \in 0..MaxStatements
    BY BoundIsNat
  <2>3. SubjectsTypeOK
    BY <2>1, <2>2 DEF Init, SubjectsTypeOK
  <2>4. RowsAreLocked /\ OrdersAreTold /\ LinesAreTold /\ OneToMap
    BY <2>1 DEF Init, RowsAreLocked, OrdersAreTold, LinesAreTold, OneToMap
  <2> QED
    BY <2>3, <2>4 DEF SubjectsInv
<1>2. SubjectsInv /\ [Next]_vars => SubjectsInv'
  <2> SUFFICES ASSUME SubjectsInv, [Next]_vars
               PROVE  SubjectsInv'
    OBVIOUS
  <2>1. ASSUME NEW t \in Sessions, Step(t)
        PROVE  SubjectsInv'
    <3>1. ASSUME NEW l \in Lines, InsertLine(t, l) \/ UpdateLine(t, l) \/ DeleteLine(t, l)
          PROVE  SubjectsInv'
      BY <3>1, LineStatements, WriteLineStep DEF SubjectsInv
    <3>2. ASSUME NEW o \in Orders,
                 \/ InsertOrder(t, o) \/ UpdateOrder(t, o)
                 \/ DeleteOrder(t, o) \/ CascadeOrder(t, o)
          PROVE  SubjectsInv'
      BY <3>2, OrderStatements
    <3> QED
      BY <2>1, <3>1, <3>2, MapNewStep, CommitStep, RollbackStep DEF Step
  <2>2. CASE UNCHANGED vars
    BY <2>2 DEF vars, tables, txVars, history, SubjectsInv, SubjectsTypeOK, RowsAreLocked,
                OrdersAreTold, LinesAreTold, Settled, OneToMap
  <2> QED
    BY <2>1, <2>2 DEF Next
<1> QED
  BY <1>1, <1>2, PTL DEF Spec

\* Only a commit changes the tables.
LEMMA OthersChangeNoTable ==
    ASSUME NEW t \in Sessions, Step(t), ~Commit(t)
    PROVE  UNCHANGED <<line, order>>
BY DEF Step, InsertLine, UpdateLine, DeleteLine, WriteLine, InsertOrder, UpdateOrder,
       DeleteOrder, CascadeOrder, WriteOrder, Statement, MapNew, Rollback, tables

\* An order that is settled for a transaction which commits: its customer of before
\* was told, unless the lookup was overtaken, and so was the one of after.
LEMMA SettledIsTold ==
    ASSUME SubjectsInv, NEW t \in Sessions, NEW o \in Orders, Settled(t, o),
           o \notin overtaken[t]
    PROVE  {order[o], OrdersOf(t)[o]} \cap Customers \subseteq told[t]
<1>1. CASE o \in DOMAIN orderWrites[t]
  <2>1. OrdersOf(t)[o] = orderWrites[t][o]
    BY <1>1 DEF OrdersOf, Over, SubjectsInv, SubjectsTypeOK
  <2> QED
    BY <1>1, <2>1 DEF SubjectsInv, OrdersAreTold
<1>2. CASE o \notin DOMAIN orderWrites[t]
  <2>1. OrdersOf(t)[o] = order[o]
    BY <1>2 DEF OrdersOf, Over, SubjectsInv, SubjectsTypeOK
  <2> QED
    BY <1>2, <2>1 DEF Settled
<1> QED
  BY <1>1, <1>2

\* What a commit changes for a customer it has an event for, unless another commit
\* gave the customer an order that a trigger had looked up.
LEMMA CommitTells ==
    ASSUME SubjectsInv, NEW t \in Sessions, Commit(t), NEW c \in Customers,
           LinesFor(c)' # LinesFor(c), c \notin told[t]
    PROVE  OvertakenBy(t, c)
<1>0. SubjectsTypeOK /\ LinesAreTold /\ OrdersAreTold
  BY DEF SubjectsInv
<1>1. line' = LinesOf(t) /\ order' = OrdersOf(t) /\ toMap[t] = {}
  BY DEF Commit
<1> DEFINE Before(l) == c \in SubjectOf(line[l], order)
           After(l) == c \in SubjectOf(LinesOf(t)[l], OrdersOf(t))
<1>2. PICK l \in Lines : \/ Before(l) # After(l)
                         \/ Before(l) /\ line[l].value # LinesOf(t)[l].value
  <2>1. LinesFor(c) = {<<l, line[l].value>> : l \in {k \in Lines : Before(k)}}
    BY DEF LinesFor
  <2>2. LinesFor(c)' = {<<l, LinesOf(t)[l].value>> : l \in {k \in Lines : After(k)}}
    BY <1>1 DEF LinesFor
  <2> QED
    BY <2>1, <2>2
<1>3. Before(l) \/ After(l)
  BY <1>2
<1>4. l \in DOMAIN lineWrites[t]
  <2> SUFFICES ASSUME l \notin DOMAIN lineWrites[t] PROVE FALSE
    OBVIOUS
  <2>1. LinesOf(t)[l] = line[l]
    BY <1>0 DEF LinesOf, Over, SubjectsTypeOK
  <2> DEFINE o == line[l].order
  <2>2. o \in Orders /\ (order[o] = c \/ OrdersOf(t)[o] = c)
    BY <1>3, <2>1 DEF SubjectOf
  <2>3. order[o] # OrdersOf(t)[o]
    BY <1>2, <2>1 DEF SubjectOf
  <2>4. o \in DOMAIN orderWrites[t] /\ OrdersOf(t)[o] = orderWrites[t][o]
    BY <1>0, <2>2, <2>3 DEF OrdersOf, Over, SubjectsTypeOK
  <2> QED
    BY <1>0, <2>2, <2>4 DEF OrdersAreTold
<1>5. LinesOf(t)[l] = lineWrites[t][l]
  BY <1>0, <1>4 DEF LinesOf, Over, SubjectsTypeOK
<1>6. PICK o \in {line[l].order, LinesOf(t)[l].order} \cap Orders :
          order[o] = c \/ OrdersOf(t)[o] = c
  BY <1>3 DEF SubjectOf
<1>7. Settled(t, o)
  BY <1>0, <1>1, <1>4, <1>5, <1>6 DEF LinesAreTold
<1>8. o \in overtaken[t]
  BY <1>6, <1>7, SettledIsTold
<1>9. order[o] = c
  <2>1. o \notin DOMAIN orderWrites[t]
    BY <1>0, <1>6 DEF OrdersAreTold, OrdersOf, Over, SubjectsTypeOK
  <2> QED
    BY <1>0, <1>6, <2>1 DEF OrdersOf, Over, SubjectsTypeOK
<1> QED
  BY <1>4, <1>6, <1>8, <1>9 DEF Named, OvertakenBy

\* A commit that changes what a customer's subscribers see has an event for that
\* customer, unless another commit gave it an order after a trigger's lookup.
THEOREM SubjectsAreTold == Spec => ChangedSubjectsAreTold
<1> DEFINE Told(c) ==
        \E t \in Sessions :
            /\ statements[t] > 0 /\ statements'[t] = 0
            /\ c \in told[t] \/ OvertakenBy(t, c)
<1>1. SubjectsInv /\ [Next]_vars =>
          [\A c \in Customers : LinesFor(c)' # LinesFor(c) => Told(c)]_vars
  <2> SUFFICES ASSUME SubjectsInv, Next, NEW c \in Customers, LinesFor(c)' # LinesFor(c)
               PROVE  Told(c)
    OBVIOUS
  <2>1. PICK t \in Sessions : Step(t)
    BY DEF Next
  <2>2. Commit(t)
    BY <2>1, OthersChangeNoTable DEF LinesFor, SubjectOf
  <2>3. statements[t] > 0 /\ statements'[t] = 0
    BY <2>2, EndEffects DEF Commit, SubjectsInv
  <2> QED
    BY <2>2, <2>3, CommitTells
<1> QED
  BY <1>1, SubjectsInvIsInvariant, PTL DEF Spec, ChangedSubjectsAreTold
=============================================================================
