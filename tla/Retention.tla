------------------------------ MODULE Retention -----------------------------
(***************************************************************************)
(* prune_outbox, run by any number of sessions at once.  Its first four      *)
(* queries run outside a transaction, so each may see a later table than the *)
(* one before; the DELETE and record_pruned_through share one transaction,   *)
(* and record_pruned_through reads the state row without locking it.         *)
(***************************************************************************)
EXTENDS Outbox

CONSTANT Pruners    \* sessions that run prune_outbox

VARIABLES
    pruneState,   \* pruner -> where it is, see PruneStates
    through,      \* pruner -> least bound on prune_through so far
    doomed,       \* pruner -> rows its open transaction deleted
    seen          \* pruner -> pruned_through as it read it

retentionVars == <<pruneState, through, doomed, seen>>

PruneStates == {"idle", "limits", "watermark", "delete", "record", "save"}

-----------------------------------------------------------------------------
\* _age_prune_through: the greatest cursor among the rows older than a moment.
\* Cursors follow commit order and created_at does not, so any row's may be it.
AgeCuts == Retained

\* _row_limit_prune_through: one less than the cursor of the max_rows-th newest
\* row; every row is that one for some limit.
RowLimitCuts == {c - 1 : c \in Retained}

MinOf(a, b) == IF a <= b THEN a ELSE b

Continue(p, state) == pruneState' = [pruneState EXCEPT ![p] = state]

\* prune_outbox returns or fails; nothing of its transaction stays.
Return(p) ==
    /\ Continue(p, "idle")
    /\ through' = [through EXCEPT ![p] = 0]
    /\ doomed' = [doomed EXCEPT ![p] = {}]
    /\ seen' = [seen EXCEPT ![p] = 0]

\* Mutant of ReadNewest: the bound includes the newest row.
ReadNewestInclusive(p) ==
    /\ pruneState[p] = "idle"
    /\ Retained # {}
    /\ through' = [through EXCEPT ![p] = LatestCursor]
    /\ Continue(p, "limits")
    /\ UNCHANGED <<outboxVars, doomed, seen>>

\* The newest row stays: prune_through is at most newest - 1.  With no row
\* that has a cursor the call returns 0.
ReadNewest(p) ==
    /\ pruneState[p] = "idle"
    /\ Retained # {}
    /\ through' = [through EXCEPT ![p] = LatestCursor - 1]
    /\ Continue(p, "limits")
    /\ UNCHANGED <<outboxVars, doomed, seen>>

\* max(retained): each limit that is set and matches a row gives a candidate.  This
\* is the query of the greater one; where both limits are set, the other query
\* changes nothing, and the table may grow and shrink before and after this one.
ReadLimits(p) ==
    /\ pruneState[p] = "limits"
    /\ \E cut \in AgeCuts \cup RowLimitCuts :
         through' = [through EXCEPT ![p] = MinOf(@, cut)]
    /\ Continue(p, "watermark")
    /\ UNCHANGED <<outboxVars, doomed, seen>>

\* Mutant of ReadWatermark: undelivered rows may be pruned.
SkipWatermark(p) ==
    /\ pruneState[p] = "watermark"
    /\ through[p] >= 1
    /\ Continue(p, "delete")
    /\ UNCHANGED <<outboxVars, through, doomed, seen>>

ReadWatermark(p) ==
    /\ pruneState[p] = "watermark"
    /\ MinOf(through[p], broadcastedThrough) >= 1
    /\ through' = [through EXCEPT ![p] = MinOf(@, broadcastedThrough)]
    /\ Continue(p, "delete")
    /\ UNCHANGED <<outboxVars, doomed, seen>>

NothingToPrune(p) ==
    /\ pruneState[p] = "watermark"
    /\ MinOf(through[p], broadcastedThrough) < 1
    /\ Return(p)
    /\ UNCHANGED outboxVars

\* The rows p's DELETE matches.  It waits for those another open transaction
\* has deleted.
Matches(p) == {i \in Assigned : cursor[i] <= through[p]}

\* Mutant of DeleteRows: it does not wait for other deletions.
DeleteRowsAtOnce(p) ==
    /\ pruneState[p] = "delete"
    /\ Matches(p) # {}
    /\ doomed' = [doomed EXCEPT ![p] = Matches(p)]
    /\ Continue(p, "record")
    /\ UNCHANGED <<outboxVars, through, seen>>

DeleteRows(p) ==
    /\ pruneState[p] = "delete"
    /\ \A q \in Pruners \ {p} : doomed[q] \cap Matches(p) = {}
    /\ Matches(p) # {}
    /\ doomed' = [doomed EXCEPT ![p] = Matches(p)]
    /\ Continue(p, "record")
    /\ UNCHANGED <<outboxVars, through, seen>>

\* deleted = 0: no watermark is recorded.
DeleteNothing(p) ==
    /\ pruneState[p] = "delete"
    /\ Matches(p) = {}
    /\ Return(p)
    /\ UNCHANGED outboxVars

\* record_pruned_through: get_or_create reads the row without a lock ...
ReadPruned(p) ==
    /\ pruneState[p] = "record"
    /\ seen' = [seen EXCEPT ![p] = prunedThrough]
    /\ Continue(p, "save")
    /\ UNCHANGED <<outboxVars, through, doomed>>

\* ... save() updates it when the cursor is greater, and the COMMIT makes the
\* deletion and the watermark visible together.
SaveAndCommit(p) ==
    /\ pruneState[p] = "save"
    /\ through[p] > seen[p] => stateLock = NoOne
    /\ present' = present \ doomed[p]
    /\ prunedThrough' = IF through[p] > seen[p] THEN through[p] ELSE prunedThrough
    /\ Return(p)
    /\ UNCHANGED <<lastId, origin, cursor, nextCursor, broadcastedThrough,
                   lockVars, wireVars>>

\* No limit matched a row, the rows are only counted (dry_run), or the process
\* died, or the transaction failed.
Abandon(p) ==
    /\ pruneState[p] # "idle"
    /\ Return(p)
    /\ UNCHANGED outboxVars

-----------------------------------------------------------------------------
RetentionInit ==
    /\ pruneState = [p \in Pruners |-> "idle"]
    /\ through = [p \in Pruners |-> 0]
    /\ doomed = [p \in Pruners |-> {}]
    /\ seen = [p \in Pruners |-> 0]

PruneStep(p) ==
    \/ ReadNewest(p)
    \/ ReadLimits(p)
    \/ ReadWatermark(p)
    \/ NothingToPrune(p)
    \/ DeleteRows(p)
    \/ DeleteNothing(p)
    \/ ReadPruned(p)
    \/ SaveAndCommit(p)
    \/ Abandon(p)

RetentionNext == \E p \in Pruners : PruneStep(p)

RetentionTypeOK ==
    /\ pruneState \in [Pruners -> PruneStates]
    /\ through \in [Pruners -> Int]
    /\ doomed \in [Pruners -> SUBSET Ids]
    /\ seen \in [Pruners -> Nat]
=============================================================================
