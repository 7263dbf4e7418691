------------------------------ MODULE Subjects ------------------------------
(***************************************************************************)
(* Capture triggers whose subject is another object than the changed row.    *)
(* An order line names its customer through its order: the line's trigger    *)
(* has subject="order__customer", the order's has subject="customer", and    *)
(* customers are what clients subscribe to.  The line's own column is read    *)
(* from OLD and NEW; the order's is looked up when the trigger runs.          *)
(*                                                                         *)
(* Transactions run at READ COMMITTED: a statement sees its own transaction's *)
(* rows and the latest committed ones, and locks the row it writes.  Django's *)
(* foreign keys are checked at the commit.  What a trigger writes is a set of *)
(* subjects; numbering and delivery are module Delivery's matter.             *)
(***************************************************************************)
EXTENDS Naturals

CONSTANTS Lines, Orders, Customers,
          Values,           \* what a line says to its customer
          Sessions,         \* database sessions
          MaxStatements     \* bound: statements of one transaction

Null == "null"
Gone == "gone"              \* of an order: its row is not in the table
NoLine == [order |-> Null, value |-> Null]

ASSUME NamesAreNoRows == {Null, Gone} \cap (Orders \cup Customers \cup Values) = {}
ASSUME BoundIsNat == MaxStatements \in Nat

VARIABLES
    line, order,            \* the committed tables: line -> row, order -> customer
    lineWrites, orderWrites,  \* session -> what its open transaction wrote
    told,                   \* session -> subjects of the rows its triggers wrote
    toMap,                  \* session -> NEW, while its trigger has mapped OLD only
    statements,             \* session -> statements of its transaction
    lookedUp,               \* history: session -> orders its triggers looked up
    overtaken               \* history: session -> those that changed since

tables == <<line, order>>
txVars == <<lineWrites, orderWrites, told, toMap, statements>>
history == <<lookedUp, overtaken>>
vars == <<tables, txVars, history>>

LineRows == [order : Orders \cup {Null}, value : Values]

-----------------------------------------------------------------------------
\* A table as the transaction sees it that wrote these of its rows.
Over(writes, table) ==
    [r \in DOMAIN table |-> IF r \in DOMAIN writes THEN writes[r] ELSE table[r]]

\* The rows a transaction has written, after it wrote new to some.
Written(writes, rows, new) ==
    [r \in DOMAIN writes \cup rows |-> IF r \in rows THEN new ELSE writes[r]]

\* What a statement of session t sees.
LinesOf(t) == Over(lineWrites[t], line)
OrdersOf(t) == Over(orderWrites[t], order)

\* The path order__customer from a row: no subject if a name on it is null or
\* leads to a row that is gone.
SubjectOf(row, orders) == {orders[o] : o \in {row.order} \cap Orders} \cap Customers

\* The rows another transaction has written are locked.
Free(t, writes, r) == \A u \in Sessions \ {t} : r \notin DOMAIN writes[u]

\* The next statement of session t, when the triggers of the last have run.
Statement(t) ==
    /\ toMap[t] = {}
    /\ statements[t] < MaxStatements
    /\ statements' = [statements EXCEPT ![t] = @ + 1]
    /\ UNCHANGED <<tables, overtaken>>

\* The trigger of session t looks the subject of a row up.
Map(t, row) ==
    /\ told' = [told EXCEPT ![t] = @ \cup SubjectOf(row, OrdersOf(t))]
    /\ lookedUp' = [lookedUp EXCEPT ![t] = @ \cup ({row.order} \cap Orders)]

\* Session t writes new to line l; the line's trigger, _MAPPED_FUNC, maps one
\* row at once and may have another to map.
WriteLine(t, l, new, first, rest) ==
    /\ Statement(t)
    /\ Free(t, lineWrites, l)
    /\ lineWrites' = [lineWrites EXCEPT ![t] = Written(@, {l}, new)]
    /\ Map(t, first)
    /\ toMap' = [toMap EXCEPT ![t] = rest]
    /\ UNCHANGED orderWrites

InsertLine(t, l) ==
    /\ LinesOf(t)[l] = NoLine
    /\ \E row \in LineRows : WriteLine(t, l, row, row, {})

\* Mutant of UpdateLine: only NEW is mapped, unless it is a delete.
UpdateLineMapsNew(t, l) ==
    /\ LinesOf(t)[l] # NoLine
    /\ \E row \in LineRows \ {LinesOf(t)[l]} : WriteLine(t, l, row, row, {})

\* OLD is mapped first ...
UpdateLine(t, l) ==
    /\ LinesOf(t)[l] # NoLine
    /\ \E row \in LineRows \ {LinesOf(t)[l]} :
         WriteLine(t, l, row, LinesOf(t)[l], {row})

\* ... and NEW in an expression of its own, which sees what has been committed
\* in between.
MapNew(t) ==
    /\ \E row \in toMap[t] : Map(t, row)
    /\ toMap' = [toMap EXCEPT ![t] = {}]
    /\ UNCHANGED <<tables, lineWrites, orderWrites, statements, overtaken>>

DeleteLine(t, l) ==
    LinesOf(t)[l] # NoLine /\ WriteLine(t, l, NoLine, LinesOf(t)[l], {})

\* Session t writes order o, and the order's trigger runs: its path is the
\* order's own column, so OLD and NEW say all.
WriteOrder(t, o, new) ==
    /\ Statement(t)
    /\ Free(t, orderWrites, o)
    /\ orderWrites' = [orderWrites EXCEPT ![t] = Written(@, {o}, new)]
    /\ told' = [told EXCEPT ![t] = @ \cup ({OrdersOf(t)[o], new} \cap Customers)]
    /\ UNCHANGED <<toMap, lookedUp>>

InsertOrder(t, o) ==
    /\ OrdersOf(t)[o] = Gone
    /\ \E c \in Customers \cup {Null} : WriteOrder(t, o, c) /\ UNCHANGED lineWrites

UpdateOrder(t, o) ==
    /\ OrdersOf(t)[o] # Gone
    /\ \E c \in (Customers \cup {Null}) \ {OrdersOf(t)[o]} :
         WriteOrder(t, o, c) /\ UNCHANGED lineWrites

\* The last statement of an ORM cascade, or a plain DELETE.
DeleteOrder(t, o) ==
    OrdersOf(t)[o] # Gone /\ WriteOrder(t, o, Gone) /\ UNCHANGED lineWrites

\* DELETE with DB_CASCADE: the order's row goes first, so the triggers of the
\* lines look it up in vain and write nothing.
CascadeOrder(t, o) ==
    LET lines == {l \in Lines : LinesOf(t)[l].order = o} IN
    /\ OrdersOf(t)[o] # Gone
    /\ lines # {}
    /\ \A l \in lines : Free(t, lineWrites, l)
    /\ WriteOrder(t, o, Gone)
    /\ lineWrites' = [lineWrites EXCEPT ![t] = Written(@, lines, NoLine)]

-----------------------------------------------------------------------------
\* The transaction is over.
End(t) ==
    /\ lineWrites' = [lineWrites EXCEPT ![t] = <<>>]
    /\ orderWrites' = [orderWrites EXCEPT ![t] = <<>>]
    /\ told' = [told EXCEPT ![t] = {}]
    /\ toMap' = [toMap EXCEPT ![t] = {}]
    /\ statements' = [statements EXCEPT ![t] = 0]
    /\ lookedUp' = [lookedUp EXCEPT ![t] = {}]

\* COMMIT: every line of the transaction must name an order that is there, and
\* waits for a transaction that has deleted it.
Commit(t) ==
    /\ statements[t] > 0
    /\ toMap[t] = {}
    /\ \A l \in Lines : \A o \in {LinesOf(t)[l].order} \cap Orders :
         /\ OrdersOf(t)[o] # Gone
         /\ l \in DOMAIN lineWrites[t] =>
              \A u \in Sessions \ {t} : o \in DOMAIN orderWrites[u] => orderWrites[u][o] # Gone
    /\ line' = LinesOf(t)
    /\ order' = OrdersOf(t)
    /\ overtaken' = [u \in Sessions |-> IF u = t THEN {}
                        ELSE overtaken[u] \cup (lookedUp[u] \cap DOMAIN orderWrites[t])]
    /\ End(t)

Rollback(t) ==
    /\ statements[t] > 0
    /\ overtaken' = [overtaken EXCEPT ![t] = {}]
    /\ End(t)
    /\ UNCHANGED tables

-----------------------------------------------------------------------------
Init ==
    /\ line = [l \in Lines |-> NoLine]
    /\ order = [o \in Orders |-> Gone]
    /\ lineWrites = [t \in Sessions |-> <<>>]
    /\ orderWrites = [t \in Sessions |-> <<>>]
    /\ told = [t \in Sessions |-> {}]
    /\ toMap = [t \in Sessions |-> {}]
    /\ statements = [t \in Sessions |-> 0]
    /\ lookedUp = [t \in Sessions |-> {}]
    /\ overtaken = [t \in Sessions |-> {}]

Step(t) ==
    \/ \E l \in Lines : InsertLine(t, l) \/ UpdateLine(t, l) \/ DeleteLine(t, l)
    \/ \E o \in Orders : InsertOrder(t, o) \/ UpdateOrder(t, o) \/ DeleteOrder(t, o)
    \/ \E o \in Orders : CascadeOrder(t, o)
    \/ MapNew(t)
    \/ Commit(t)
    \/ Rollback(t)

Next == \E t \in Sessions : Step(t)

Spec == Init /\ [][Next]_vars

-----------------------------------------------------------------------------
(* The inductive invariant *)

SubjectsTypeOK ==
    /\ line \in [Lines -> LineRows \cup {NoLine}]
    /\ order \in [Orders -> Customers \cup {Null, Gone}]
    /\ told \in [Sessions -> SUBSET Customers]
    /\ toMap \in [Sessions -> SUBSET LineRows]
    /\ statements \in [Sessions -> 0..MaxStatements]
    /\ lookedUp \in [Sessions -> SUBSET Orders]
    /\ overtaken \in [Sessions -> SUBSET Orders]
    /\ DOMAIN lineWrites = Sessions /\ DOMAIN orderWrites = Sessions
    /\ \A t \in Sessions :
         /\ DOMAIN lineWrites[t] \subseteq Lines
         /\ \A l \in DOMAIN lineWrites[t] : lineWrites[t][l] \in LineRows \cup {NoLine}
         /\ DOMAIN orderWrites[t] \subseteq Orders
         /\ \A o \in DOMAIN orderWrites[t] :
              orderWrites[t][o] \in Customers \cup {Null, Gone}

\* A row that a transaction wrote is locked until it ends.
RowsAreLocked ==
    \A t \in Sessions : \A u \in Sessions \ {t} :
        /\ DOMAIN lineWrites[t] \cap DOMAIN lineWrites[u] = {}
        /\ DOMAIN orderWrites[t] \cap DOMAIN orderWrites[u] = {}

\* An order's trigger told the customers before and after the transaction.
OrdersAreTold ==
    \A t \in Sessions : \A o \in DOMAIN orderWrites[t] :
        {order[o], orderWrites[t][o]} \cap Customers \subseteq told[t]

\* The customer that session t's lookup of order o found was told, and is still the
\* one that its commit leaves there, unless another commit overtook the lookup.
Settled(t, o) ==
    \/ o \in DOMAIN orderWrites[t]
    \/ o \in overtaken[t]
    \/ o \in lookedUp[t] /\ {order[o]} \cap Customers \subseteq told[t]

\* The orders a line names before and after a transaction that writes it are
\* settled, but for a NEW row that its trigger has yet to map.
LinesAreTold ==
    \A t \in Sessions : \A l \in DOMAIN lineWrites[t] :
        /\ line[l].order \in Orders => Settled(t, line[l].order)
        /\ lineWrites[t][l].order \in Orders =>
             lineWrites[t][l] \in toMap[t] \/ Settled(t, lineWrites[t][l].order)

OneToMap == \A t \in Sessions : \A q, r \in toMap[t] : q = r

SubjectsInv ==
    /\ SubjectsTypeOK
    /\ RowsAreLocked
    /\ OrdersAreTold
    /\ LinesAreTold
    /\ OneToMap

-----------------------------------------------------------------------------
\* The lines a customer's subscribers see, with what they say.
LinesFor(c) == {<<l, line[l].value>> : l \in {k \in Lines : c \in SubjectOf(line[k], order)}}

\* Orders that a line of session t's transaction names, before and after it.
Named(t, l) == {line[l].order, LinesOf(t)[l].order}

\* A trigger of session t looked up the order of a line before another commit
\* gave the order to c.
OvertakenBy(t, c) ==
    \E l \in DOMAIN lineWrites[t] : \E o \in Named(t, l) \cap overtaken[t] : order[o] = c

\* A commit that changes what a customer's subscribers see has an event for
\* that customer, through any mix of inserts, moves and deletes of lines and
\* orders, cascades of both kinds and concurrent transactions.  The one
\* customer it may miss is the new one of an order that another transaction
\* moved after the trigger of a line had looked the order up.
ChangedSubjectsAreTold ==
    [][\A c \in Customers : LinesFor(c)' # LinesFor(c) =>
         \E t \in Sessions :
           /\ statements[t] > 0 /\ statements'[t] = 0
           /\ c \in told[t] \/ OvertakenBy(t, c)]_vars
=============================================================================
