------------------------------- MODULE Outbox -------------------------------
(***************************************************************************)
(* The database side of the outbox: the table of ObjectStreamEvent rows,   *)
(* the single ObjectStreamOutboxState row with its three watermarks, the   *)
(* row lock on it, the transaction that gives committed rows their         *)
(* delivery cursors, and the LISTEN/NOTIFY channel.                        *)
(*                                                                         *)
(* A row is its id.  What it says (facet, op, changed fields, metadata) is *)
(* abstracted away; its origin, the table row whose write fired the        *)
(* capture trigger, is kept, because the order of the events of one object *)
(* depends on the lock that write holds.                                   *)
(***************************************************************************)
EXTENDS Integers, FiniteSets

CONSTANTS Writers,   \* database sessions that capture events
          Objects,   \* table rows watched by a capture trigger
          MaxRows    \* bound: outbox ids the sequence hands out

Listener == "listener"     \* the management command object_streams_listen
NoOne == "no one"          \* nobody holds the state row
Unlocked == "unlocked"     \* origin of a row a producer helper inserted

Assigners == Writers \cup {Listener}
Ids == 1..MaxRows

ASSUME NamesAreApart ==
    /\ Listener \notin Writers
    /\ NoOne \notin Assigners
    /\ Unlocked \notin Objects

ASSUME MaxRowsIsNat == MaxRows \in Nat

VARIABLES
    lastId,               \* last id taken from the table's id sequence
    origin,               \* id -> object whose row lock covers the insert
    present,              \* ids of the committed rows in the table
    cursor,               \* id -> delivery cursor, 0 while it is NULL
    nextCursor,           \* ObjectStreamOutboxState.next_cursor
    prunedThrough,        \* ObjectStreamOutboxState.pruned_through
    broadcastedThrough,   \* ObjectStreamOutboxState.broadcasted_through
    stateLock,            \* who holds the state row FOR UPDATE
    chosen,               \* per assigner: rows its transaction selected
    startAt,              \* per assigner: next_cursor as it read it
    listening,            \* a session has executed LISTEN
    wake                  \* a notification waits in that session

tableVars == <<lastId, origin, present, cursor>>
stateVars == <<nextCursor, prunedThrough, broadcastedThrough>>
lockVars == <<stateLock, chosen, startAt>>
wireVars == <<listening, wake>>
outboxVars == <<tableVars, stateVars, lockVars, wireVars>>

-----------------------------------------------------------------------------
(* Queries *)

\* Committed rows that have no delivery cursor yet.
Unassigned == {i \in present : cursor[i] = 0}

\* Committed rows a client or the listener can address by cursor.
Assigned == {i \in present : cursor[i] > 0}

\* The cursors of the rows that are in the table.
Retained == {cursor[i] : i \in Assigned}

\* latest_outbox_cursor: the greatest cursor in the table, 0 if there is none.
LatestCursor ==
    IF Retained = {} THEN 0
    ELSE CHOOSE c \in Retained : \A d \in Retained : d <= c

\* Mutant of PendingBroadcast: the watermark is not in the query.
PendingBroadcastFromStart == Assigned

\* outbox_events_pending_broadcast, before its limit is applied.
PendingBroadcast == {i \in Assigned : cursor[i] > broadcastedThrough}

\* Mutant of Lowest: ORDER BY -id.
Highest(rows, n) == {i \in rows : Cardinality({j \in rows : j > i}) < n}

\* ORDER BY id LIMIT n.
Lowest(rows, n) == {i \in rows : Cardinality({j \in rows : j < i}) < n}

\* Mutant of Earliest: ORDER BY -cursor.
LatestFirst(rows, n) ==
    {i \in rows : Cardinality({j \in rows : cursor[j] > cursor[i]}) < n}

\* ORDER BY cursor LIMIT n.
Earliest(rows, n) ==
    {i \in rows : Cardinality({j \in rows : cursor[j] < cursor[i]}) < n}

\* Mutant of Numberings: the rows are selected without ORDER BY id.
NumberingsInAnyOrder(rows, first) ==
    {number \in [rows -> first..(first + Cardinality(rows) - 1)] :
        \A i, j \in rows : i # j => number[i] # number[j]}

\* Consecutive cursors, from first on, for the given rows in id order.
Numberings(rows, first) ==
    {number \in [rows -> first..(first + Cardinality(rows) - 1)] :
        \A i, j \in rows : i < j => number[i] < number[j]}

-----------------------------------------------------------------------------
(* assign_outbox_cursors.  It takes the state row FOR UPDATE, selects the   *)
(* committed rows that have no cursor, and commits their cursors together   *)
(* with next_cursor.  Rows that commit after the select wait for the next   *)
(* call.                                                                    *)

\* Mutant of AssignBegin: the state row is read without FOR UPDATE.
AssignBeginUnlocked(p, limit) ==
    /\ Unassigned # {}
    /\ stateLock' = p
    /\ chosen' = [chosen EXCEPT ![p] = Lowest(Unassigned, limit)]
    /\ startAt' = [startAt EXCEPT ![p] = nextCursor]
    /\ UNCHANGED <<tableVars, stateVars, wireVars>>

AssignBegin(p, limit) ==
    /\ stateLock = NoOne
    /\ Unassigned # {}
    /\ stateLock' = p
    /\ chosen' = [chosen EXCEPT ![p] = Lowest(Unassigned, limit)]
    /\ startAt' = [startAt EXCEPT ![p] = nextCursor]
    /\ UNCHANGED <<tableVars, stateVars, wireVars>>

\* Nothing to number: the call returns () and the transaction ends.
AssignNothing ==
    /\ stateLock = NoOne
    /\ Unassigned = {}
    /\ UNCHANGED outboxVars

\* p forgets what it read, and frees the state row if it holds it.
AssignEnd(p) ==
    /\ stateLock' = IF stateLock = p THEN NoOne ELSE stateLock
    /\ chosen' = [chosen EXCEPT ![p] = {}]
    /\ startAt' = [startAt EXCEPT ![p] = 0]

\* p is in this transaction, so it holds the state row.
AssignCommit(p) ==
    /\ \E number \in Numberings(chosen[p], startAt[p]) :
         cursor' = [i \in Ids |-> IF i \in chosen[p] THEN number[i] ELSE cursor[i]]
    /\ nextCursor' = startAt[p] + Cardinality(chosen[p])
    /\ AssignEnd(p)
    /\ UNCHANGED <<lastId, origin, present, prunedThrough, broadcastedThrough,
                   wireVars>>

\* notify_outbox_event: PostgreSQL keeps the wakeup for a listening session.
Notify == wake' = (wake \/ listening)

-----------------------------------------------------------------------------
OutboxInit ==
    /\ lastId = 0
    /\ origin = [i \in Ids |-> Unlocked]
    /\ present = {}
    /\ cursor = [i \in Ids |-> 0]
    /\ nextCursor = 1
    /\ prunedThrough = 0
    /\ broadcastedThrough = 0
    /\ stateLock = NoOne
    /\ chosen = [p \in Assigners |-> {}]
    /\ startAt = [p \in Assigners |-> 0]
    /\ listening = FALSE
    /\ wake = FALSE

OutboxTypeOK ==
    /\ lastId \in 0..MaxRows
    /\ origin \in [Ids -> Objects \cup {Unlocked}]
    /\ present \subseteq 1..lastId
    /\ cursor \in [Ids -> Nat]
    /\ nextCursor \in Nat \ {0}
    /\ prunedThrough \in Nat
    /\ broadcastedThrough \in Nat
    /\ stateLock \in Assigners \cup {NoOne}
    /\ chosen \in [Assigners -> SUBSET Ids]
    /\ startAt \in [Assigners -> Nat]
    /\ listening \in BOOLEAN
    /\ wake \in BOOLEAN
=============================================================================
