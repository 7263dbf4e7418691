------------------------------- MODULE Capture ------------------------------
(***************************************************************************)
(* The sessions that write outbox rows.  Three paths of the code meet here: *)
(*                                                                         *)
(*  - capture triggers, and the producer helpers called inside an atomic    *)
(*    block: the rows and their notification belong to the caller's         *)
(*    transaction (create_outbox_events with in_atomic_block);              *)
(*  - create_outbox_events outside an atomic block: the rows commit in a    *)
(*    transaction of their own, then the session assigns cursors, reads     *)
(*    them back and notifies, each on its own;                              *)
(*  - enqueue_outbox_events inside an atomic block: nothing is written      *)
(*    before the commit; an on_commit hook per event then writes a row the  *)
(*    second way.                                                           *)
(*                                                                         *)
(* A session may die at any point, and a hook that raises discards the      *)
(* hooks behind it.                                                         *)
(***************************************************************************)
EXTENDS Outbox

CONSTANTS NotifyArgs,    \* values callers pass for notify
          MaxBatch,      \* bound: events of one create_outbox_events call
          MaxEnqueued    \* bound: events one transaction enqueues

ASSUME NotifyArgsAreBoolean == NotifyArgs \subseteq BOOLEAN

ASSUME MaxBatchIsNat == MaxBatch \in Nat

VARIABLES
    txState,     \* writer -> where it is, see TxStates
    txRows,      \* writer -> rows it inserted in the transaction or call
    txTodo,      \* writer -> events its create call has still to insert, then
                 \* rows it has read back, then rows it has notified of
    txHooks,     \* writer -> on_commit hooks not yet run
    txNotify,    \* writer -> the notify argument
    woken        \* history: rows whose wakeup notification was sent

txVars == <<txState, txRows, txTodo, txHooks, txNotify>>
captureVars == <<txVars, woken>>

\* "atomic": in the caller's transaction; "create": in the helper's own;
\* "assign" and "assigning": before and in the assign transaction; "refresh" and
\* "notify": row by row; "hooks": committed, on_commit hooks left to run.
TxStates == {"idle", "atomic", "create", "assign", "assigning", "refresh", "notify", "hooks"}

-----------------------------------------------------------------------------
\* w's transaction holds the write lock on table row o.
Locks(w, o) == txState[w] = "atomic" /\ \E i \in txRows[w] : origin[i] = o

GoTo(w, state) == txState' = [txState EXCEPT ![w] = state]

\* Nothing is left of the transaction or call.
Forget(w) ==
    /\ GoTo(w, "idle")
    /\ txRows' = [txRows EXCEPT ![w] = {}]
    /\ txTodo' = [txTodo EXCEPT ![w] = 0]
    /\ txHooks' = [txHooks EXCEPT ![w] = 0]
    /\ txNotify' = [txNotify EXCEPT ![w] = FALSE]

\* Mutant of RunHooksOrEnd: it runs a hook though none is left.
RunHooksAlways(w) ==
    /\ GoTo(w, "hooks")
    /\ txRows' = [txRows EXCEPT ![w] = {}]
    /\ UNCHANGED <<txTodo, txHooks, txNotify>>

\* After a commit Django runs the on_commit hooks one after the other.
RunHooksOrEnd(w) ==
    IF txHooks[w] = 0 THEN Forget(w)
    ELSE /\ GoTo(w, "hooks")
         /\ txRows' = [txRows EXCEPT ![w] = {}]
         /\ UNCHANGED <<txTodo, txHooks, txNotify>>

\* _insert_outbox_row: the id is spent now, the row is seen at the commit.
InsertRow(w, o) ==
    /\ lastId < MaxRows
    /\ lastId' = lastId + 1
    /\ origin' = [origin EXCEPT ![lastId + 1] = o]
    /\ txRows' = [txRows EXCEPT ![w] = @ \cup {lastId + 1}]
    /\ UNCHANGED <<present, cursor, stateVars, lockVars, wireVars, txState,
                   txHooks, txNotify, woken>>

\* Send the wakeups for w's rows, if its caller asked for them.
NotifyRows(w) ==
    IF txNotify[w] /\ txRows[w] # {}
    THEN Notify /\ woken' = woken \cup txRows[w]
    ELSE UNCHANGED <<wake, woken>>

-----------------------------------------------------------------------------
BeginAtomic(w, notify) ==
    /\ txState[w] = "idle"
    /\ lastId < MaxRows
    /\ GoTo(w, "atomic")
    /\ txNotify' = [txNotify EXCEPT ![w] = notify]
    /\ UNCHANGED <<outboxVars, txRows, txTodo, txHooks, woken>>

\* The trigger function runs in the statement that writes object o, whose row
\* stays locked until the transaction ends.
TriggerCapture(w, o) ==
    /\ txState[w] = "atomic"
    /\ \A v \in Writers \ {w} : ~Locks(v, o)
    /\ InsertRow(w, o)
    /\ UNCHANGED txTodo

\* create_outbox_events in the caller's atomic block: no lock orders the row.
CreateInAtomic(w) ==
    /\ txState[w] = "atomic"
    /\ InsertRow(w, Unlocked)
    /\ UNCHANGED txTodo

\* enqueue_outbox_events in an atomic block registers one hook per event.
Enqueue(w) ==
    /\ txState[w] = "atomic"
    /\ txHooks[w] < MaxEnqueued
    /\ txHooks' = [txHooks EXCEPT ![w] = @ + 1]
    /\ UNCHANGED <<outboxVars, txState, txRows, txTodo, txNotify, woken>>

\* COMMIT makes the rows visible and sends the notifications they carry.
Commit(w) ==
    /\ txState[w] = "atomic"
    /\ present' = present \cup txRows[w]
    /\ NotifyRows(w)
    /\ RunHooksOrEnd(w)
    /\ UNCHANGED <<lastId, origin, cursor, stateVars, lockVars, listening>>

\* ROLLBACK: the rows were never visible, their ids are spent, hooks are gone.
Rollback(w) ==
    /\ txState[w] = "atomic"
    /\ Forget(w)
    /\ UNCHANGED <<outboxVars, woken>>

\* create_outbox_events, or enqueue_outbox_events, outside an atomic block.
BeginCreate(w, notify, n) ==
    /\ txState[w] = "idle"
    /\ lastId + n <= MaxRows
    /\ GoTo(w, "create")
    /\ txTodo' = [txTodo EXCEPT ![w] = n]
    /\ txNotify' = [txNotify EXCEPT ![w] = notify]
    /\ UNCHANGED <<outboxVars, txRows, txHooks, woken>>

\* The next on_commit hook, _write_outbox_row, runs with one event.
RunHook(w) ==
    /\ txState[w] = "hooks"
    /\ GoTo(w, "create")
    /\ txTodo' = [txTodo EXCEPT ![w] = 1]
    /\ txHooks' = [txHooks EXCEPT ![w] = @ - 1]
    /\ UNCHANGED <<outboxVars, txRows, txNotify, woken>>

CreateRow(w) ==
    /\ txState[w] = "create"
    /\ txTodo[w] > 0
    /\ InsertRow(w, Unlocked)
    /\ txTodo' = [txTodo EXCEPT ![w] = @ - 1]

CommitCreate(w) ==
    /\ txState[w] = "create"
    /\ txTodo[w] = 0
    /\ present' = present \cup txRows[w]
    /\ GoTo(w, "assign")
    /\ UNCHANGED <<lastId, origin, cursor, stateVars, lockVars, wireVars,
                   txRows, txTodo, txHooks, txNotify, woken>>

\* _finish_outbox_rows: assign_outbox_cursors, without a limit.
WriterAssignBegin(w) ==
    /\ txState[w] = "assign"
    /\ AssignBegin(w, MaxRows)
    /\ GoTo(w, "assigning")
    /\ UNCHANGED <<txRows, txTodo, txHooks, txNotify, woken>>

WriterAssignNothing(w) ==
    /\ txState[w] = "assign"
    /\ AssignNothing
    /\ GoTo(w, "refresh")
    /\ UNCHANGED <<txRows, txTodo, txHooks, txNotify, woken>>

WriterAssignCommit(w) ==
    /\ txState[w] = "assigning"
    /\ AssignCommit(w)
    /\ GoTo(w, "refresh")
    /\ UNCHANGED <<txRows, txTodo, txHooks, txNotify, woken>>

\* The row whose turn it is when a loop has done txTodo of w's rows.
Turn(w) == {i \in txRows[w] : Cardinality({j \in txRows[w] : j < i}) = txTodo[w]}

\* _finish_outbox_rows reads the cursors back, one row after the other ...
RefreshRow(w) ==
    /\ txState[w] = "refresh"
    /\ \E i \in Turn(w) : i \in present
    /\ IF txTodo[w] + 1 < Cardinality(txRows[w])
       THEN txTodo' = [txTodo EXCEPT ![w] = @ + 1] /\ UNCHANGED txState
       ELSE txTodo' = [txTodo EXCEPT ![w] = 0] /\ GoTo(w, "notify")
    /\ UNCHANGED <<outboxVars, txRows, txHooks, txNotify, woken>>

\* refresh_from_db raises DoesNotExist: the row was fanned out and pruned first.
RefreshFails(w) ==
    /\ txState[w] = "refresh"
    /\ \E i \in Turn(w) : i \notin present
    /\ Forget(w)
    /\ UNCHANGED <<outboxVars, woken>>

\* ... and then notifies of each in autocommit.
NotifyRow(w) ==
    /\ txState[w] = "notify"
    /\ txNotify[w]
    /\ Turn(w) # {}
    /\ Notify
    /\ woken' = woken \cup Turn(w)
    /\ txTodo' = [txTodo EXCEPT ![w] = @ + 1]
    /\ UNCHANGED <<tableVars, stateVars, lockVars, listening, txState, txRows, txHooks,
                   txNotify>>

NotifyDone(w) ==
    /\ txState[w] = "notify"
    /\ ~txNotify[w] \/ Turn(w) = {}
    /\ RunHooksOrEnd(w)
    /\ UNCHANGED <<outboxVars, woken>>

\* The session is lost, or a hook raises: open transactions roll back and the
\* hooks that are left never run.
WriterDies(w) ==
    /\ txState[w] # "idle"
    /\ AssignEnd(w)
    /\ Forget(w)
    /\ UNCHANGED <<tableVars, stateVars, wireVars, woken>>

-----------------------------------------------------------------------------
CaptureInit ==
    /\ txState = [w \in Writers |-> "idle"]
    /\ txRows = [w \in Writers |-> {}]
    /\ txTodo = [w \in Writers |-> 0]
    /\ txHooks = [w \in Writers |-> 0]
    /\ txNotify = [w \in Writers |-> FALSE]
    /\ woken = {}

CaptureStep(w) ==
    \/ \E notify \in NotifyArgs : BeginAtomic(w, notify)
    \/ \E o \in Objects : TriggerCapture(w, o)
    \/ CreateInAtomic(w)
    \/ Enqueue(w)
    \/ Commit(w)
    \/ Rollback(w)
    \/ \E notify \in NotifyArgs, n \in 1..MaxBatch : BeginCreate(w, notify, n)
    \/ RunHook(w)
    \/ CreateRow(w)
    \/ CommitCreate(w)
    \/ WriterAssignBegin(w)
    \/ WriterAssignNothing(w)
    \/ WriterAssignCommit(w)
    \/ RefreshRow(w)
    \/ RefreshFails(w)
    \/ NotifyRow(w)
    \/ NotifyDone(w)
    \/ WriterDies(w)

CaptureNext == \E w \in Writers : CaptureStep(w)

CaptureTypeOK ==
    /\ txState \in [Writers -> TxStates]
    /\ txRows \in [Writers -> SUBSET (1..lastId)]
    /\ txTodo \in [Writers -> Nat]
    /\ txHooks \in [Writers -> Nat]
    /\ txNotify \in [Writers -> BOOLEAN]
    /\ woken \subseteq 1..lastId
=============================================================================
