------------------------------ MODULE Listener ------------------------------
(***************************************************************************)
(* The management command object_streams_listen with its default options:   *)
(* LISTEN, drain what is undelivered, then drain again on every wakeup.     *)
(* Draining assigns cursors, reads a batch of rows behind the durable        *)
(* watermark, and for each row hands its id to the channel layer and only    *)
(* then records its cursor.                                                 *)
(***************************************************************************)
EXTENDS Outbox

CONSTANTS BatchSize,     \* BROADCAST_BATCH_SIZE
          MaxFailures    \* bound: connections the listener loses

ASSUME BatchSizeIsPositive == BatchSize \in Nat \ {0}

VARIABLES
    lpc,        \* "down", "assign", "assigning", "read", "send", "record", "wait"
    batch,      \* rows read and not yet recorded
    fanned,     \* history: cursors handed to the channel layer
    failures

listenerVars == <<lpc, batch, fanned, failures>>

\* Mutant of Front: the loop runs over the batch backwards.
Back == {i \in batch : \A j \in batch : cursor[i] >= cursor[j]}

\* The row of the batch the loop has come to.
Front == {i \in batch : \A j \in batch : cursor[i] <= cursor[j]}

-----------------------------------------------------------------------------
\* Mutant of Connect: what was written before the LISTEN is not drained.
ConnectWithoutDrain ==
    /\ lpc = "down"
    /\ lpc' = "wait"
    /\ listening' = TRUE
    /\ UNCHANGED <<tableVars, stateVars, lockVars, wake, batch, fanned, failures>>

\* listen_outbox_event_ids: LISTEN comes first, then on_listening drains.
Connect ==
    /\ lpc = "down"
    /\ lpc' = "assign"
    /\ listening' = TRUE
    /\ UNCHANGED <<tableVars, stateVars, lockVars, wake, batch, fanned, failures>>

DrainAssignBegin ==
    /\ lpc = "assign"
    /\ AssignBegin(Listener, BatchSize)
    /\ lpc' = "assigning"
    /\ UNCHANGED <<batch, fanned, failures>>

DrainAssignNothing ==
    /\ lpc = "assign"
    /\ AssignNothing
    /\ lpc' = "read"
    /\ UNCHANGED <<batch, fanned, failures>>

DrainAssignCommit ==
    /\ lpc = "assigning"
    /\ AssignCommit(Listener)
    /\ lpc' = "read"
    /\ UNCHANGED <<batch, fanned, failures>>

DrainRead ==
    /\ lpc = "read"
    /\ PendingBroadcast # {}
    /\ batch' = Earliest(PendingBroadcast, BatchSize)
    /\ lpc' = "send"
    /\ UNCHANGED <<outboxVars, fanned, failures>>

DrainDone ==
    /\ lpc = "read"
    /\ PendingBroadcast = {}
    /\ lpc' = "wait"
    /\ UNCHANGED <<outboxVars, batch, fanned, failures>>

\* broadcast_outbox_event_sync loads the row again and sends its id.
Broadcast ==
    /\ lpc = "send"
    /\ \E i \in Front :
         /\ i \in present
         /\ fanned' = fanned \cup {cursor[i]}
    /\ lpc' = "record"
    /\ UNCHANGED <<outboxVars, batch, failures>>

\* Mutant of RecordBroadcast: it records the last cursor of the batch at once.
RecordWholeBatch ==
    /\ lpc = "record"
    /\ stateLock = NoOne
    /\ broadcastedThrough' = CHOOSE c \in {cursor[i] : i \in batch} :
                                \A i \in batch : cursor[i] <= c
    /\ \E i \in Front :
         /\ batch' = batch \ {i}
         /\ lpc' = IF batch = {i} THEN "assign" ELSE "send"
    /\ UNCHANGED <<tableVars, nextCursor, prunedThrough, lockVars, wireVars,
                   fanned, failures>>

\* record_broadcasted_through, under the state row's lock.
RecordBroadcast ==
    /\ lpc = "record"
    /\ stateLock = NoOne
    /\ \E i \in Front :
         /\ broadcastedThrough' = IF cursor[i] > broadcastedThrough
                                  THEN cursor[i] ELSE broadcastedThrough
         /\ batch' = batch \ {i}
         /\ lpc' = IF batch = {i} THEN "assign" ELSE "send"
    /\ UNCHANGED <<tableVars, nextCursor, prunedThrough, lockVars, wireVars,
                   fanned, failures>>

\* A notification of the channel arrives; its payload is not used.
Wakeup ==
    /\ lpc = "wait"
    /\ wake
    /\ wake' = FALSE
    /\ lpc' = "assign"
    /\ UNCHANGED <<tableVars, stateVars, lockVars, listening, batch, fanned,
                   failures>>

\* A database error closes the connection, or the process dies: PostgreSQL
\* forgets the LISTEN with its queue, the batch in memory is lost.
Fail ==
    /\ lpc # "down"
    /\ failures < MaxFailures
    /\ failures' = failures + 1
    /\ lpc' = "down"
    /\ batch' = {}
    /\ listening' = FALSE
    /\ wake' = FALSE
    /\ AssignEnd(Listener)
    /\ UNCHANGED <<tableVars, stateVars, fanned>>

-----------------------------------------------------------------------------
ListenerInit == lpc = "down" /\ batch = {} /\ fanned = {} /\ failures = 0

Drain ==
    \/ DrainAssignBegin
    \/ DrainAssignNothing
    \/ DrainAssignCommit
    \/ DrainRead
    \/ DrainDone
    \/ Broadcast
    \/ RecordBroadcast

ListenerNext == Connect \/ Drain \/ Wakeup \/ Fail

ListenerTypeOK ==
    /\ lpc \in {"down", "assign", "assigning", "read", "send", "record", "wait"}
    /\ batch \subseteq Ids
    /\ fanned \subseteq Nat
    /\ failures \in Nat
=============================================================================
