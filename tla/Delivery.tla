------------------------------ MODULE Delivery ------------------------------
(***************************************************************************)
(* The delivery pipeline: sessions that capture events, the listener that   *)
(* gives them cursors and fans them out, and sessions that prune the outbox, *)
(* interleaving on the tables of module Outbox.                              *)
(***************************************************************************)
EXTENDS Capture, Listener, Retention

vars == <<outboxVars, captureVars, listenerVars, retentionVars>>

Init == OutboxInit /\ CaptureInit /\ ListenerInit /\ RetentionInit

Next ==
    \/ CaptureNext /\ UNCHANGED <<listenerVars, retentionVars>>
    \/ ListenerNext /\ UNCHANGED <<captureVars, retentionVars>>
    \/ RetentionNext /\ UNCHANGED <<captureVars, listenerVars>>

Spec == Init /\ [][Next]_vars

\* The listener runs and its supervisor restarts it; the database grants the
\* state row to the listener in turn and ends a transaction that holds it.
Fairness ==
    /\ WF_vars((Connect \/ Wakeup) /\ UNCHANGED <<captureVars, retentionVars>>)
    /\ SF_vars(Drain /\ UNCHANGED <<captureVars, retentionVars>>)
    /\ \A w \in Writers :
         WF_vars(WriterAssignCommit(w) /\ UNCHANGED <<listenerVars, retentionVars>>)

FairSpec == Spec /\ Fairness

-----------------------------------------------------------------------------
TypeOK == OutboxTypeOK /\ CaptureTypeOK /\ ListenerTypeOK /\ RetentionTypeOK

\* No two rows share a cursor, and the cursors in the table are exactly those
\* between the pruning watermark and next_cursor: nothing a client can ask for
\* by cursor is missing without the watermark saying so.
WindowIsDense ==
    /\ \A i, j \in Assigned : cursor[i] = cursor[j] => i = j
    /\ Retained = (prunedThrough + 1)..(nextCursor - 1)

\* A row is deleted only after its fan-out was recorded, and a recorded
\* fan-out has happened, whatever the listener lost and repeated in between.
PrunedWasBroadcast ==
    /\ prunedThrough <= broadcastedThrough
    /\ 1..broadcastedThrough \subseteq fanned

\* Rows the listener holds in memory stay in the table until it has sent them;
\* a missing row would raise DoesNotExist and end the command.
BatchIsRetained == batch \subseteq Assigned

\* Of two writes of one object, the outbox never delivers the later one first.
ObjectOrder ==
    \A i \in Assigned, j \in present :
        /\ j < i
        /\ origin[j] = origin[i]
        /\ origin[i] # Unlocked
        => cursor[j] \in 1..(cursor[i] - 1)

\* A cursor that appears is greater than every cursor a reader has seen: a
\* client that read up to the latest cursor has skipped nothing.
CursorsAppearInOrder ==
    [][\A c \in Retained' \ Retained : c > LatestCursor]_vars

\* latest_outbox_cursor never moves backwards, and neither do the watermarks
\* clients and the listener resume from.
WatermarksOnlyRise ==
    [][/\ LatestCursor' >= LatestCursor
       /\ prunedThrough' >= prunedThrough
       /\ broadcastedThrough' >= broadcastedThrough]_vars

\* The first fan-outs happen in cursor order, without a gap.
FanoutHasNoGap ==
    [][\A c \in fanned' \ fanned : 1..(c - 1) \subseteq fanned]_vars

\* Every row whose wakeup was sent is fanned out, or pruned after it was.
WokenRowsAreFannedOut ==
    \A i \in Ids : i \in woken ~> cursor[i] \in fanned

\* README, "Listener process": a drain takes along every committed row, also one
\* whose session died before it could notify, or never meant to.
DrainsTakeEveryRow ==
    \A i \in Ids :
        i \in present /\ lpc \in {"down", "assign"} ~> cursor[i] \in fanned

-----------------------------------------------------------------------------
(* Why the invariants hold: the inductive invariant, part by part.          *)

\* Rows w has inserted and not committed.
Open(w) == IF txState[w] \in {"atomic", "create"} THEN txRows[w] ELSE {}

\* An id belongs to one open transaction at most, a row that is not committed
\* has no cursor, and a finished call has forgotten its rows.
TxInv ==
    /\ \A i \in Ids : i > lastId => cursor[i] = 0
    /\ \A w \in Writers :
         /\ txState[w] = "hooks" => txHooks[w] > 0
         /\ txState[w] \in {"idle", "hooks"} => txRows[w] = {}
         /\ Open(w) \cap present = {}
         /\ \A i \in Open(w) : cursor[i] = 0
         /\ \A v \in Writers \ {w} : Open(w) \cap Open(v) = {}

\* Who is in the assign transaction holds the state row, and what it read
\* there is still so.
LockInv ==
    /\ \A w \in Writers : txState[w] = "assigning" <=> stateLock = w
    /\ lpc = "assigning" <=> stateLock = Listener
    /\ stateLock # NoOne =>
         /\ chosen[stateLock] \subseteq Unassigned
         /\ startAt[stateLock] = nextCursor

\* A row of an object that is captured and not committed is younger than every
\* committed row of the object, and a select that took a row of an object took
\* the older ones with it.
OrderInv ==
    /\ \A w \in Writers : \A j \in Open(w), i \in present :
         origin[i] = origin[j] /\ origin[i] # Unlocked => i < j
    /\ \A w \in Writers : \A v \in Writers \ {w} : \A j \in Open(w), i \in Open(v) :
         origin[i] = origin[j] => origin[i] = Unlocked
    /\ \A w \in Writers : txState[w] = "create" =>
         \A i \in txRows[w] : origin[i] = Unlocked
    /\ stateLock # NoOne =>
         \A i \in chosen[stateLock], j \in Unassigned :
           j < i /\ origin[i] = origin[j] /\ origin[i] # Unlocked
             => j \in chosen[stateLock]

\* One pruner at a time is between its DELETE and its COMMIT; it deletes what
\* its bound says, below the newest row and behind the recorded fan-out.
Deleting(p) == pruneState[p] \in {"record", "save"}

PruneInv ==
    /\ prunedThrough < nextCursor
    /\ prunedThrough <= broadcastedThrough
    /\ \A p \in Pruners :
         /\ pruneState[p] # "idle" => through[p] < nextCursor - 1
         /\ pruneState[p] = "delete" \/ Deleting(p) =>
              through[p] \in 1..broadcastedThrough
         /\ Deleting(p) =>
              /\ doomed[p] = Matches(p)
              /\ prunedThrough < through[p]
              /\ \A q \in Pruners \ {p} : ~Deleting(q)
         /\ pruneState[p] = "save" => seen[p] = prunedThrough
         /\ ~Deleting(p) => doomed[p] = {}

\* The batch is the next stretch of cursors, and the row being recorded was
\* handed over.
FanoutInv ==
    /\ broadcastedThrough < nextCursor
    /\ lpc \in {"send", "record"} => batch # {}
    /\ lpc \notin {"send", "record"} => batch = {}
    /\ batch \subseteq PendingBroadcast
    /\ \A i \in batch : \A c \in (broadcastedThrough + 1)..cursor[i] :
         \E j \in batch : cursor[j] = c
    /\ 1..broadcastedThrough \subseteq fanned
    /\ lpc = "record" => \A i \in Front : cursor[i] \in fanned

\* The rows, pruned ones included, are numbered from 1 without a gap, and what
\* was handed over is a first stretch of them: the recorded one or one more.
LogInv ==
    /\ \A i \in Ids : cursor[i] < nextCursor
    /\ \A i, j \in Ids : cursor[i] = cursor[j] /\ cursor[i] > 0 => i = j
    /\ \A c \in 1..(nextCursor - 1) : \E i \in Ids : cursor[i] = c
    /\ \E n \in {broadcastedThrough, broadcastedThrough + 1} :
         n < nextCursor /\ fanned = 1..n

Inv ==
    /\ TypeOK
    /\ TxInv
    /\ LockInv
    /\ WindowIsDense
    /\ OrderInv
    /\ ObjectOrder
    /\ PruneInv
    /\ FanoutInv
    /\ LogInv

-----------------------------------------------------------------------------
\* The log a reader of the tables sees, pruned entries included.
LogOfCursors ==
    [c \in 1..(nextCursor - 1) |-> CHOOSE i \in Ids : cursor[i] = c]

Abstract == INSTANCE DeliveryLog WITH
    Events <- Ids,
    committed <- Unassigned,
    log <- LogOfCursors,
    reached <- Cardinality(fanned),
    recorded <- broadcastedThrough,
    trimmed <- prunedThrough

\* The pipeline implements the delivery log.
ImplementsLog == Abstract!Spec
=============================================================================
