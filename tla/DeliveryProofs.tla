--------------------------- MODULE DeliveryProofs ---------------------------
(***************************************************************************)
(* The theorems about the delivery pipeline, for every set of writers,      *)
(* objects and pruners and every value of the bounds.  First lemmas: what     *)
(* the operators return, that steps keep the types, what a step does to the   *)
(* table, and that the parts of the invariant about cursors, transactions      *)
(* and the lock are inductive.  Then the other parts and the theorems.  The    *)
(* last part shows that the pipeline implements the delivery log: what the     *)
(* outbox, the listener and retention do together is, for a reader of the      *)
(* tables, an append, a step of the fan-out or a trim.                        *)
(***************************************************************************)
EXTENDS Delivery, FiniteSetTheorems, SequenceTheorems, TLAPS

-----------------------------------------------------------------------------
(* Facts about the operators the model is built from.                       *)

\* Any set of ids is finite.
LEMMA IdsAreFinite ==
    ASSUME NEW rows \in SUBSET Ids
    PROVE  IsFiniteSet(rows) /\ Cardinality(rows) \in Nat
<1>1. IsFiniteSet(Ids)
  BY FS_Interval, MaxRowsIsNat DEF Ids
<1> QED
  BY <1>1, FS_Subset, FS_CardinalityType

\* ORDER BY id LIMIT n takes rows of its argument, and with a row every row of
\* a smaller id.
LEMMA LowestIsDownwardClosed ==
    ASSUME NEW rows \in SUBSET Ids, NEW n \in Nat
    PROVE  /\ Lowest(rows, n) \subseteq rows
           /\ \A i \in Lowest(rows, n), j \in rows : j < i => j \in Lowest(rows, n)
<1>1. Lowest(rows, n) \subseteq rows
  BY DEF Lowest
<1>2. ASSUME NEW i \in Lowest(rows, n), NEW j \in rows, j < i
      PROVE  j \in Lowest(rows, n)
  <2> DEFINE Below(k) == {h \in rows : h < k}
  <2>1. i \in rows /\ Cardinality(Below(i)) < n
    BY DEF Lowest
  <2>2. Below(j) \subseteq Below(i)
    <3>1. rows \subseteq Int
      BY MaxRowsIsNat DEF Ids
    <3>2. ASSUME NEW h \in rows, h < j PROVE h < i
      BY <3>1, <3>2, <2>1, <1>2
    <3> QED
      BY <3>2
  <2>3. Below(i) \in SUBSET Ids /\ Below(j) \in SUBSET Ids
    OBVIOUS
  <2>4. /\ Cardinality(Below(i)) \in Nat
        /\ Cardinality(Below(j)) \in Nat
        /\ Cardinality(Below(j)) <= Cardinality(Below(i))
    BY <2>2, <2>3, IdsAreFinite, FS_Subset
  <2> QED
    BY <2>1, <2>4 DEF Lowest
<1> QED
  BY <1>1, <1>2

\* ORDER BY cursor LIMIT n likewise.
LEMMA EarliestIsDownwardClosed ==
    ASSUME NEW rows \in SUBSET Ids, NEW n \in Nat, cursor \in [Ids -> Nat]
    PROVE  /\ Earliest(rows, n) \subseteq rows
           /\ \A i \in Earliest(rows, n), j \in rows :
                cursor[j] < cursor[i] => j \in Earliest(rows, n)
<1>1. Earliest(rows, n) \subseteq rows
  BY DEF Earliest
<1>2. ASSUME NEW i \in Earliest(rows, n), NEW j \in rows, cursor[j] < cursor[i]
      PROVE  j \in Earliest(rows, n)
  <2> DEFINE Below(k) == {h \in rows : cursor[h] < cursor[k]}
  <2>1. i \in rows /\ Cardinality(Below(i)) < n
    BY DEF Earliest
  <2>2. Below(j) \subseteq Below(i)
    BY <2>1, <1>2
  <2>3. Below(i) \in SUBSET Ids /\ Below(j) \in SUBSET Ids
    OBVIOUS
  <2>4. /\ Cardinality(Below(i)) \in Nat
        /\ Cardinality(Below(j)) \in Nat
        /\ Cardinality(Below(j)) <= Cardinality(Below(i))
    BY <2>2, <2>3, IdsAreFinite, FS_Subset
  <2> QED
    BY <2>1, <2>4 DEF Earliest
<1> QED
  BY <1>1, <1>2

\* A numbering gives every row one cursor of the stretch and leaves none out.
LEMMA NumberingIsExact ==
    ASSUME NEW rows \in SUBSET Ids, NEW first \in Nat,
           NEW number \in Numberings(rows, first)
    PROVE  /\ number \in [rows -> first..(first + Cardinality(rows) - 1)]
           /\ \A i, j \in rows : i < j => number[i] < number[j]
           /\ \A i, j \in rows : number[i] = number[j] => i = j
           /\ \A c \in first..(first + Cardinality(rows) - 1) :
                \E i \in rows : number[i] = c
<1> DEFINE Span == first..(first + Cardinality(rows) - 1)
<1>1. /\ number \in [rows -> Span]
      /\ \A i, j \in rows : i < j => number[i] < number[j]
  BY DEF Numberings
<1>2. \A i, j \in rows : number[i] = number[j] => i = j
  <2> SUFFICES ASSUME NEW i \in rows, NEW j \in rows, number[i] = number[j], i # j
               PROVE  FALSE
    OBVIOUS
  <2>1. i \in Int /\ j \in Int /\ number[i] \in Int /\ number[j] \in Int
    BY <1>1, IdsAreFinite, MaxRowsIsNat DEF Ids
  <2>2. i < j \/ j < i
    BY <2>1
  <2> QED
    BY <1>1, <2>1, <2>2
<1>3. number \in Injection(rows, Span)
  BY <1>1, <1>2 DEF Injection, IsInjective
<1>4. Cardinality(rows) \in Nat
  BY IdsAreFinite
<1>5. IsFiniteSet(Span) /\ Cardinality(Span) = Cardinality(rows)
  <2> DEFINE last == first + Cardinality(rows) - 1
  <2>1. last \in Int /\ first \in Int /\ last >= first - 1
    BY <1>4
  <2>2. last - first + 1 = Cardinality(rows)
    BY <1>4
  <2> HIDE DEF last
  <2>3. /\ IsFiniteSet(first..last)
        /\ Cardinality(first..last) = IF first > last THEN 0 ELSE last - first + 1
    BY <2>1, FS_Interval
  <2>4. Cardinality(first..last) = last - first + 1
    BY <2>1, <2>3
  <2> QED
    BY <2>2, <2>3, <2>4 DEF last
<1>6. number \in Surjection(rows, Span)
  BY <1>3, <1>5, FS_Injection
<1> QED
  BY <1>1, <1>2, <1>6 DEF Surjection

-----------------------------------------------------------------------------
(* Type correctness.                                                        *)

\* Committed rows have ids the sequence handed out.
LEMMA PresentAreIds ==
    ASSUME OutboxTypeOK
    PROVE  present \subseteq Ids
BY MaxRowsIsNat DEF OutboxTypeOK, Ids

\* assign_outbox_cursors keeps the tables well typed, whoever runs it: when it
\* selects the rows ...
LEMMA AssignBeginType ==
    ASSUME OutboxTypeOK, NEW p \in Assigners, NEW limit, AssignBegin(p, limit)
    PROVE  OutboxTypeOK' /\ UNCHANGED lastId
<1>1. Lowest(Unassigned, limit) \in SUBSET Ids
  <2>1. present \subseteq Ids
    BY PresentAreIds
  <2>2. Lowest(Unassigned, limit) \subseteq present
    BY DEF Lowest, Unassigned
  <2> QED
    BY <2>1, <2>2
<1> QED
  BY <1>1 DEF AssignBegin, OutboxTypeOK, tableVars, stateVars, wireVars

\* ... when it commits their cursors ...
LEMMA AssignCommitType ==
    ASSUME OutboxTypeOK, NEW p \in Assigners, startAt[p] > 0, AssignCommit(p)
    PROVE  OutboxTypeOK' /\ UNCHANGED lastId
<1>1. PICK number \in Numberings(chosen[p], startAt[p]) :
        cursor' = [i \in Ids |-> IF i \in chosen[p] THEN number[i] ELSE cursor[i]]
  BY DEF AssignCommit
<1>2. chosen[p] \in SUBSET Ids /\ startAt[p] \in Nat
  BY DEF OutboxTypeOK
<1>3. Cardinality(chosen[p]) \in Nat
  BY <1>2, IdsAreFinite
<1>4. \A i \in chosen[p] : number[i] \in Nat
  BY <1>2, <1>3, NumberingIsExact
<1>5. cursor' \in [Ids -> Nat]
  BY <1>1, <1>4 DEF OutboxTypeOK
<1>6. nextCursor' \in Nat \ {0}
  BY <1>2, <1>3 DEF AssignCommit
<1> QED
  BY <1>5, <1>6 DEF OutboxTypeOK, AssignCommit, AssignEnd, wireVars

\* ... and when its transaction ends.
LEMMA AssignEndType ==
    ASSUME OutboxTypeOK, NEW p \in Assigners, AssignEnd(p)
    PROVE  /\ stateLock' \in Assigners \cup {NoOne}
           /\ chosen' \in [Assigners -> SUBSET Ids]
           /\ startAt' \in [Assigners -> Nat]
BY DEF OutboxTypeOK, AssignEnd

\* Every step of a writer keeps the types.
LEMMA CaptureType ==
    ASSUME OutboxTypeOK, CaptureTypeOK, TxInv, LockInv, CaptureNext
    PROVE  OutboxTypeOK' /\ CaptureTypeOK'
<1> PICK w \in Writers : CaptureStep(w)
  BY DEF CaptureNext
<1>a. w \in Assigners
  BY DEF Assigners
<1>b. ASSUME UNCHANGED outboxVars PROVE OutboxTypeOK' /\ UNCHANGED lastId
  BY <1>b DEF OutboxTypeOK, outboxVars, tableVars, stateVars, lockVars, wireVars
<1>c. ASSUME UNCHANGED <<stateVars, lockVars>>, NEW l \in 0..MaxRows, lastId' = l,
             lastId <= l,
             origin' \in [Ids -> Objects \cup {Unlocked}], present' \subseteq 1..l,
             UNCHANGED cursor, listening' \in BOOLEAN, wake' \in BOOLEAN
      PROVE  OutboxTypeOK'
  BY <1>c DEF OutboxTypeOK, stateVars, lockVars
<1>d. txRows[w] \subseteq 1..lastId /\ present \subseteq 1..lastId /\ lastId \in 0..MaxRows
  BY DEF CaptureTypeOK, OutboxTypeOK
<1>1. ASSUME NEW notify \in NotifyArgs, BeginAtomic(w, notify)
      PROVE  OutboxTypeOK' /\ CaptureTypeOK'
  BY <1>1, <1>b, NotifyArgsAreBoolean DEF BeginAtomic, GoTo, CaptureTypeOK, TxStates
<1>2. ASSUME NEW o \in Objects \cup {Unlocked}, InsertRow(w, o),
             txTodo' \in [Writers -> Nat]
      PROVE  OutboxTypeOK' /\ CaptureTypeOK'
  <2>1. lastId + 1 \in Ids /\ lastId' = lastId + 1 /\ lastId' \in 0..MaxRows
    BY <1>2, <1>d, MaxRowsIsNat DEF InsertRow, Ids
  <2>2. OutboxTypeOK'
    BY <1>2, <2>1, <1>d DEF InsertRow, OutboxTypeOK, stateVars, lockVars, wireVars
  <2>3. \A v \in Writers : txRows'[v] \subseteq 1..(lastId + 1)
    BY <1>2, <1>d DEF InsertRow, CaptureTypeOK
  <2>4. txRows' \in [Writers -> SUBSET (1..(lastId + 1))]
    BY <1>2, <2>3 DEF InsertRow, CaptureTypeOK
  <2>5. woken' \subseteq 1..(lastId + 1)
    BY <1>2, <1>d DEF InsertRow, CaptureTypeOK
  <2> QED
    BY <1>2, <2>1, <2>2, <2>4, <2>5 DEF InsertRow, CaptureTypeOK
<1>3. ASSUME NEW o \in Objects, TriggerCapture(w, o)
      PROVE  OutboxTypeOK' /\ CaptureTypeOK'
  BY <1>3, <1>2 DEF TriggerCapture, CaptureTypeOK
<1>4. CASE CreateInAtomic(w)
  BY <1>4, <1>2 DEF CreateInAtomic, CaptureTypeOK
<1>5. CASE CreateRow(w)
  BY <1>5, <1>2 DEF CreateRow, CaptureTypeOK
<1>6. CASE Enqueue(w)
  BY <1>6, <1>b DEF Enqueue, CaptureTypeOK
<1>7. ASSUME lastId' = lastId, RunHooksOrEnd(w), NotifyRows(w)
      PROVE  CaptureTypeOK'
  BY <1>7, <1>d DEF RunHooksOrEnd, NotifyRows, Forget, GoTo, CaptureTypeOK, TxStates
<1>8. ASSUME NotifyRows(w) PROVE wake' \in BOOLEAN
  BY <1>8 DEF NotifyRows, Notify, OutboxTypeOK
<1>9. CASE Commit(w)
  <2>1. OutboxTypeOK'
    BY <1>9, <1>8, <1>d DEF Commit, OutboxTypeOK, stateVars, lockVars
  <2> QED
    BY <1>9, <1>7, <2>1 DEF Commit
<1>10. CASE RefreshRow(w)
  BY <1>10, <1>b DEF RefreshRow, GoTo, CaptureTypeOK, TxStates
<1>22. CASE NotifyRow(w)
  <2>1. OutboxTypeOK'
    BY <1>22 DEF NotifyRow, Notify, OutboxTypeOK, tableVars, stateVars, lockVars
  <2>2. Turn(w) \subseteq 1..lastId
    BY DEF Turn, CaptureTypeOK
  <2>3. txTodo' \in [Writers -> Nat]
    BY <1>22 DEF NotifyRow, CaptureTypeOK
  <2>4. woken' \subseteq 1..lastId
    BY <1>22, <2>2 DEF NotifyRow, CaptureTypeOK
  <2> QED
    BY <1>22, <2>1, <2>3, <2>4 DEF NotifyRow, CaptureTypeOK, tableVars
<1>23. CASE NotifyDone(w)
  BY <1>23, <1>b DEF NotifyDone, RunHooksOrEnd, Forget, GoTo, CaptureTypeOK, TxStates
<1>11. ASSUME UNCHANGED <<lastId, woken>>, Forget(w) PROVE CaptureTypeOK'
  BY <1>11 DEF Forget, GoTo, CaptureTypeOK, TxStates
<1>12. CASE Rollback(w)
  BY <1>12, <1>11, <1>b DEF Rollback
<1>13. CASE RefreshFails(w)
  BY <1>13, <1>11, <1>b DEF RefreshFails
<1>14. CASE WriterDies(w)
  <2>1. OutboxTypeOK'
    BY <1>14, <1>a, AssignEndType
    DEF WriterDies, OutboxTypeOK, tableVars, stateVars, wireVars
  <2> QED
    BY <1>14, <1>11, <2>1 DEF WriterDies, tableVars
<1>15. ASSUME NEW notify \in NotifyArgs, NEW n \in 1..MaxBatch,
             BeginCreate(w, notify, n)
      PROVE  OutboxTypeOK' /\ CaptureTypeOK'
  BY <1>15, <1>b, NotifyArgsAreBoolean, MaxBatchIsNat
  DEF BeginCreate, GoTo, CaptureTypeOK, TxStates
<1>16. CASE RunHook(w)
  <2>1. txHooks[w] - 1 \in Nat
    BY <1>16 DEF RunHook, TxInv, CaptureTypeOK
  <2> QED
    BY <1>16, <2>1, <1>b DEF RunHook, GoTo, CaptureTypeOK, TxStates
<1>17. CASE CommitCreate(w)
  <2>1. OutboxTypeOK'
    BY <1>17, <1>d DEF CommitCreate, OutboxTypeOK, stateVars, lockVars, wireVars
  <2> QED
    BY <1>17, <2>1 DEF CommitCreate, GoTo, CaptureTypeOK, TxStates
<1>18. ASSUME NEW state \in TxStates, GoTo(w, state),
              UNCHANGED <<lastId, txRows, txTodo, txHooks, txNotify, woken>>
       PROVE  CaptureTypeOK'
  BY <1>18 DEF GoTo, CaptureTypeOK
<1>19. CASE WriterAssignBegin(w)
  BY <1>19, <1>a, <1>18, AssignBeginType DEF WriterAssignBegin, TxStates
<1>20. CASE WriterAssignNothing(w)
  BY <1>20, <1>b, <1>18 DEF WriterAssignNothing, AssignNothing, TxStates
<1>21. CASE WriterAssignCommit(w)
  <2>1. startAt[w] > 0
    BY <1>21, NamesAreApart, <1>a DEF WriterAssignCommit, LockInv, OutboxTypeOK
  <2> QED
    BY <1>21, <2>1, <1>a, <1>18, AssignCommitType DEF WriterAssignCommit, TxStates
<1> QED
  BY <1>1, <1>3, <1>4, <1>5, <1>6, <1>9, <1>10, <1>12, <1>13, <1>14, <1>15, <1>16,
     <1>17, <1>19, <1>20, <1>21, <1>22, <1>23 DEF CaptureStep

\* Every step of the listener keeps the types.
LEMMA ListenerType ==
    ASSUME TypeOK, LockInv, ListenerNext
    PROVE  OutboxTypeOK' /\ UNCHANGED lastId /\ ListenerTypeOK'
<1> USE DEF TypeOK
<1>a. Listener \in Assigners
  BY DEF Assigners
<1>b. ASSUME UNCHANGED outboxVars PROVE OutboxTypeOK' /\ UNCHANGED lastId
  BY <1>b DEF OutboxTypeOK, outboxVars, tableVars, stateVars, lockVars, wireVars
<1>c. present \subseteq Ids
  BY PresentAreIds
<1>d. \A i \in Ids : cursor[i] \in Nat
  BY DEF OutboxTypeOK
<1>1. CASE Connect
  BY <1>1 DEF Connect, OutboxTypeOK, ListenerTypeOK, tableVars, stateVars, lockVars
<1>2. CASE DrainAssignBegin
  BY <1>2, <1>a, AssignBeginType DEF DrainAssignBegin, ListenerTypeOK
<1>3. CASE DrainAssignNothing
  BY <1>3, <1>b DEF DrainAssignNothing, AssignNothing, ListenerTypeOK
<1>4. CASE DrainAssignCommit
  <2>1. startAt[Listener] > 0
    BY <1>4, NamesAreApart, <1>a DEF DrainAssignCommit, LockInv, OutboxTypeOK
  <2> QED
    BY <1>4, <2>1, <1>a, AssignCommitType DEF DrainAssignCommit, ListenerTypeOK
<1>5. CASE DrainRead
  <2>1. batch' \subseteq Ids
    BY <1>5, <1>c DEF DrainRead, Earliest, PendingBroadcast, Assigned
  <2> QED
    BY <1>5, <2>1, <1>b DEF DrainRead, ListenerTypeOK
<1>6. CASE DrainDone
  BY <1>6, <1>b DEF DrainDone, ListenerTypeOK
<1>7. CASE Broadcast
  BY <1>7, <1>b, <1>d DEF Broadcast, Front, ListenerTypeOK
<1>8. CASE RecordBroadcast
  BY <1>8, <1>d DEF RecordBroadcast, Front, ListenerTypeOK, OutboxTypeOK,
                    tableVars, lockVars, wireVars
<1>9. CASE Wakeup
  BY <1>9 DEF Wakeup, OutboxTypeOK, ListenerTypeOK, tableVars, stateVars, lockVars
<1>10. CASE Fail
  <2>1. OutboxTypeOK'
    BY <1>10, <1>a, AssignEndType DEF Fail, OutboxTypeOK, tableVars, stateVars
  <2>2. ListenerTypeOK'
    BY <1>10 DEF Fail, ListenerTypeOK
  <2> QED
    BY <1>10, <2>1, <2>2 DEF Fail, tableVars
<1> QED
  BY <1>1, <1>2, <1>3, <1>4, <1>5, <1>6, <1>7, <1>8, <1>9, <1>10
  DEF ListenerNext, Drain

\* The newest cursor is the last of the stretch of cursors in the table.
LEMMA LatestIsLast ==
    ASSUME NEW lo \in Nat, NEW hi \in Int, Retained = (lo + 1)..hi
    PROVE  /\ lo >= hi => LatestCursor = 0
           /\ lo < hi => LatestCursor = hi
<1>1. CASE lo >= hi
  <2>1. Retained = {}
    BY <1>1
  <2> QED
    BY <2>1, <1>1 DEF LatestCursor
<1>2. CASE lo < hi
  <2>1. hi \in Retained /\ (\A d \in Retained : d <= hi) /\ Retained \subseteq Int
    BY <1>2
  <2>2. LatestCursor \in Retained /\ \A d \in Retained : d <= LatestCursor
    BY <2>1 DEF LatestCursor
  <2>3. LatestCursor = hi
    BY <2>1, <2>2
  <2> QED
    BY <2>3, <1>2
<1> QED
  BY <1>1, <1>2

\* It never falls as long as the end of the stretch does not, and the stretch
\* does not become empty.
LEMMA LatestRises ==
    ASSUME NEW lo \in Nat, NEW hi \in Int, Retained = (lo + 1)..hi,
           NEW lo1 \in Nat, NEW hi1 \in Int, Retained' = (lo1 + 1)..hi1,
           hi <= hi1, hi >= 0, hi1 >= 0, lo < hi => lo1 < hi1
    PROVE  LatestCursor' >= LatestCursor
<1>1. \/ lo >= hi /\ LatestCursor = 0
      \/ lo < hi /\ LatestCursor = hi
  BY LatestIsLast
<1>2. ASSUME NEW S, S = (lo1 + 1)..hi1, lo1 < hi1
      PROVE  (CHOOSE c \in S : \A d \in S : d <= c) = hi1
  <2>1. hi1 \in S /\ (\A d \in S : d <= hi1) /\ S \subseteq Int
    BY <1>2
  <2> DEFINE top == CHOOSE c \in S : \A d \in S : d <= c
  <2>2. top \in S /\ \A d \in S : d <= top
    BY <2>1
  <2> HIDE DEF top
  <2>3. top = hi1
    BY <2>1, <2>2
  <2> QED
    BY <2>3 DEF top
<1>3. CASE lo1 < hi1
  <2>1. Retained' # {}
    BY <1>3
  <2>2. LatestCursor' = hi1
    BY <1>2, <1>3, <2>1 DEF LatestCursor
  <2> QED
    BY <1>1, <2>2
<1>4. CASE lo1 >= hi1
  <2>1. Retained' = {}
    BY <1>4
  <2>2. LatestCursor' = 0
    BY <2>1 DEF LatestCursor
  <2> QED
    BY <1>1, <1>4, <2>2
<1> QED
  BY <1>3, <1>4

\* The same in the terms of the state row.
LEMMA LatestIsNewest ==
    ASSUME OutboxTypeOK, WindowIsDense, prunedThrough < nextCursor
    PROVE  /\ LatestCursor \in Nat
           /\ LatestCursor <= nextCursor - 1
           /\ LatestCursor # nextCursor - 1 => Retained = {}
<1>1. /\ prunedThrough \in Nat /\ nextCursor \in Nat \ {0} /\ nextCursor - 1 \in Int
      /\ Retained = (prunedThrough + 1)..(nextCursor - 1)
  BY DEF OutboxTypeOK, WindowIsDense
<1>2. /\ prunedThrough >= nextCursor - 1 => LatestCursor = 0
      /\ prunedThrough < nextCursor - 1 => LatestCursor = nextCursor - 1
  BY <1>1, LatestIsLast
<1> QED
  BY <1>1, <1>2

\* Every step of a pruner keeps the types.
LEMMA RetentionType ==
    ASSUME TypeOK, WindowIsDense, PruneInv, RetentionNext
    PROVE  OutboxTypeOK' /\ UNCHANGED lastId /\ RetentionTypeOK'
<1> USE DEF TypeOK
<1> PICK p \in Pruners : PruneStep(p)
  BY DEF RetentionNext
<1>a. ASSUME UNCHANGED outboxVars PROVE OutboxTypeOK' /\ UNCHANGED lastId
  BY <1>a DEF OutboxTypeOK, outboxVars, tableVars, stateVars, lockVars, wireVars
<1>b. present \subseteq Ids
  BY PresentAreIds
<1>c. Retained \subseteq Nat /\ LatestCursor \in Nat /\ broadcastedThrough \in Nat
  BY <1>b, LatestIsNewest DEF Retained, Assigned, OutboxTypeOK, PruneInv
<1>d. ASSUME Return(p) PROVE RetentionTypeOK'
  BY <1>d DEF Return, Continue, RetentionTypeOK, PruneStates
<1>1. CASE ReadNewest(p)
  BY <1>1, <1>a, <1>c DEF ReadNewest, Continue, RetentionTypeOK, PruneStates
<1>2. CASE ReadLimits(p)
  <2>1. PICK cut \in AgeCuts \cup RowLimitCuts :
          through' = [through EXCEPT ![p] = MinOf(@, cut)]
    BY <1>2 DEF ReadLimits
  <2>2. cut \in Int
    BY <1>c DEF AgeCuts, RowLimitCuts
  <2>3. through' \in [Pruners -> Int]
    BY <2>1, <2>2 DEF MinOf, RetentionTypeOK
  <2> QED
    BY <1>2, <1>a, <2>3 DEF ReadLimits, Continue, RetentionTypeOK, PruneStates
<1>3. CASE ReadWatermark(p)
  BY <1>3, <1>a, <1>c DEF ReadWatermark, MinOf, Continue, RetentionTypeOK, PruneStates
<1>4. CASE NothingToPrune(p)
  BY <1>4, <1>a, <1>d DEF NothingToPrune
<1>5. CASE DeleteRows(p)
  <2>1. Matches(p) \in SUBSET Ids
    BY <1>b DEF Matches, Assigned
  <2> QED
    BY <1>5, <1>a, <2>1 DEF DeleteRows, Continue, RetentionTypeOK, PruneStates
<1>6. CASE DeleteNothing(p)
  BY <1>6, <1>a, <1>d DEF DeleteNothing
<1>7. CASE ReadPruned(p)
  BY <1>7, <1>a DEF ReadPruned, Continue, RetentionTypeOK, OutboxTypeOK, PruneStates
<1>8. CASE SaveAndCommit(p)
  <2>1. prunedThrough' \in Nat
    BY <1>8, <1>c DEF SaveAndCommit, PruneInv, Deleting, OutboxTypeOK, RetentionTypeOK
  <2>2. OutboxTypeOK'
    BY <1>8, <2>1 DEF SaveAndCommit, OutboxTypeOK, lockVars, wireVars
  <2> QED
    BY <1>8, <2>2, <1>d DEF SaveAndCommit
<1>9. CASE Abandon(p)
  BY <1>9, <1>a, <1>d DEF Abandon
<1> QED
  BY <1>1, <1>2, <1>3, <1>4, <1>5, <1>6, <1>7, <1>8, <1>9 DEF PruneStep

\* Every step keeps the types.
LEMMA TypeStep ==
    ASSUME Inv, [Next]_vars
    PROVE  TypeOK'
<1> USE DEF Inv
<1>1. CASE CaptureNext /\ UNCHANGED <<listenerVars, retentionVars>>
  BY <1>1, CaptureType
  DEF TypeOK, ListenerTypeOK, RetentionTypeOK, listenerVars, retentionVars
<1>2. CASE ListenerNext /\ UNCHANGED <<captureVars, retentionVars>>
  BY <1>2, ListenerType
  DEF TypeOK, CaptureTypeOK, RetentionTypeOK, captureVars, txVars, retentionVars
<1>3. CASE RetentionNext /\ UNCHANGED <<captureVars, listenerVars>>
  BY <1>3, RetentionType
  DEF TypeOK, CaptureTypeOK, ListenerTypeOK, captureVars, txVars, listenerVars
<1>4. CASE UNCHANGED vars
  BY <1>4
  DEF vars, TypeOK, OutboxTypeOK, CaptureTypeOK, ListenerTypeOK, RetentionTypeOK,
      outboxVars, tableVars, stateVars, lockVars, wireVars, captureVars, txVars,
      listenerVars, retentionVars
<1> QED
  BY <1>1, <1>2, <1>3, <1>4 DEF Next

-----------------------------------------------------------------------------
(* What the steps do to the table.                                          *)

\* A step leaves the rows and their cursors alone, or commits the rows of one
\* transaction, the cursors of an assign transaction, or a pruner's deletion.
LEMMA StepEffects ==
    ASSUME Inv, [Next]_vars
    PROVE  \/ UNCHANGED <<present, cursor, nextCursor, prunedThrough>>
           \/ /\ \E w \in Writers : present' = present \cup Open(w)
              /\ UNCHANGED <<cursor, nextCursor, prunedThrough>>
           \/ \E p \in Assigners : stateLock = p /\ AssignCommit(p)
           \/ \E p \in Pruners : SaveAndCommit(p)
<1> USE DEF Inv, tableVars, stateVars, outboxVars
<1>1. CASE CaptureNext
  <2> PICK w \in Writers : CaptureStep(w)
    BY <1>1 DEF CaptureNext
  <2>1. CASE Commit(w)
    BY <2>1 DEF Commit, Open
  <2>2. CASE CommitCreate(w)
    BY <2>2 DEF CommitCreate, Open
  <2>3. CASE WriterAssignCommit(w)
    BY <2>3 DEF WriterAssignCommit, LockInv, Assigners
  <2>4. CASE ~Commit(w) /\ ~CommitCreate(w) /\ ~WriterAssignCommit(w)
    BY <2>4
    DEF CaptureStep, BeginAtomic, TriggerCapture, CreateInAtomic, InsertRow, Enqueue,
        Rollback, BeginCreate, RunHook, CreateRow, WriterAssignBegin, AssignBegin,
        WriterAssignNothing, AssignNothing, RefreshRow, NotifyRow, NotifyDone,
        RefreshFails, WriterDies
  <2> QED
    BY <2>1, <2>2, <2>3, <2>4
<1>2. CASE ListenerNext
  <2>1. CASE DrainAssignCommit
    BY <2>1 DEF DrainAssignCommit, LockInv, Assigners
  <2>2. CASE ~DrainAssignCommit
    BY <1>2, <2>2
    DEF ListenerNext, Drain, Connect, DrainAssignBegin, AssignBegin, DrainAssignNothing,
        AssignNothing, DrainRead, DrainDone, Broadcast, RecordBroadcast, Wakeup, Fail
  <2> QED
    BY <2>1, <2>2
<1>3. CASE RetentionNext
  BY <1>3
  DEF RetentionNext, PruneStep, ReadNewest, ReadLimits, ReadWatermark, NothingToPrune,
      DeleteRows, DeleteNothing, ReadPruned, Abandon
<1>4. CASE UNCHANGED vars
  BY <1>4 DEF vars
<1> QED
  BY <1>1, <1>2, <1>3, <1>4 DEF Next

\* A committing transaction changes no cursor and adds rows without one.
LEMMA CommitEffect ==
    ASSUME TypeOK, TxInv, NEW w \in Writers, present' = present \cup Open(w),
           UNCHANGED cursor
    PROVE  /\ Assigned' = Assigned
           /\ Unassigned' = Unassigned \cup Open(w)
           /\ Retained' = Retained
<1>1. \A i \in Open(w) : cursor[i] = 0
  BY DEF TxInv
<1>2. Assigned' = Assigned
  BY <1>1 DEF Assigned
<1>3. Unassigned' = Unassigned \cup Open(w)
  BY <1>1 DEF Unassigned
<1> QED
  BY <1>2, <1>3 DEF Retained

\* An assign transaction gives its rows the cursors from next_cursor on.
LEMMA AssignEffect ==
    ASSUME TypeOK, LockInv, NEW p \in Assigners, stateLock = p, AssignCommit(p)
    PROVE  /\ present' = present
           /\ prunedThrough' = prunedThrough
           /\ nextCursor' \in Nat /\ nextCursor <= nextCursor'
           /\ chosen[p] \subseteq Unassigned
           /\ \A i \in Ids \ chosen[p] : cursor'[i] = cursor[i]
           /\ \A i \in chosen[p] : cursor'[i] \in nextCursor..(nextCursor' - 1)
           /\ \A i, j \in chosen[p] : i < j => cursor'[i] < cursor'[j]
           /\ \A i, j \in chosen[p] : cursor'[i] = cursor'[j] => i = j
           /\ \A c \in nextCursor..(nextCursor' - 1) :
                \E i \in chosen[p] : cursor'[i] = c
<1>1. PICK number \in Numberings(chosen[p], startAt[p]) :
        cursor' = [i \in Ids |-> IF i \in chosen[p] THEN number[i] ELSE cursor[i]]
  BY DEF AssignCommit
<1>2. chosen[p] \in SUBSET Ids /\ startAt[p] \in Nat
  BY DEF TypeOK, OutboxTypeOK
<1>3. chosen[p] \subseteq Unassigned /\ startAt[p] = nextCursor
  BY NamesAreApart DEF LockInv
<1>4. Cardinality(chosen[p]) \in Nat
  BY <1>2, IdsAreFinite
<1>5. nextCursor' = nextCursor + Cardinality(chosen[p])
  BY <1>3 DEF AssignCommit
<1>6. /\ number \in [chosen[p] -> nextCursor..(nextCursor' - 1)]
      /\ \A i, j \in chosen[p] : i < j => number[i] < number[j]
      /\ \A i, j \in chosen[p] : number[i] = number[j] => i = j
      /\ \A c \in nextCursor..(nextCursor' - 1) : \E i \in chosen[p] : number[i] = c
  <2>1. nextCursor' - 1 = startAt[p] + Cardinality(chosen[p]) - 1
    BY <1>2, <1>3, <1>4, <1>5
  <2>2. number \in Numberings(chosen[p], startAt[p])
    BY <1>1
  <2> QED
    BY <1>2, <1>3, <2>1, <2>2, NumberingIsExact
<1>7. \A i \in chosen[p] : cursor'[i] = number[i]
  BY <1>1, <1>2
<1>8. \A i \in Ids \ chosen[p] : cursor'[i] = cursor[i]
  BY <1>1
<1>9. present' = present /\ prunedThrough' = prunedThrough
  BY DEF AssignCommit
<1>10. nextCursor' \in Nat /\ nextCursor <= nextCursor'
  BY <1>4, <1>5 DEF TypeOK, OutboxTypeOK
<1> QED
  BY <1>3, <1>6, <1>7, <1>8, <1>9, <1>10

\* Rows that have a cursor keep it; the rows the transaction chose join them.
LEMMA AssignedAfterAssign ==
    ASSUME TypeOK, LockInv, NEW p \in Assigners, stateLock = p, AssignCommit(p)
    PROVE  /\ Assigned' = Assigned \cup chosen[p]
           /\ Assigned \cap chosen[p] = {}
           /\ \A i \in Assigned : cursor'[i] = cursor[i]
           /\ Unassigned' = Unassigned \ chosen[p]
<1>1. present \subseteq Ids
  BY PresentAreIds DEF TypeOK
<1>2. nextCursor \in Nat \ {0}
  BY DEF TypeOK, OutboxTypeOK
<1>3. \A i \in chosen[p] : cursor[i] = 0 /\ i \in present
  BY AssignEffect DEF Unassigned
<1>4. \A i \in chosen[p] : cursor'[i] > 0
  BY AssignEffect, <1>2
<1>5. \A i \in present \ chosen[p] : cursor'[i] = cursor[i]
  BY AssignEffect, <1>1
<1>6. present' = present
  BY AssignEffect
<1> QED
  BY <1>3, <1>4, <1>5, <1>6 DEF Assigned, Unassigned

\* A pruner deletes the cursors up to its bound and records that bound.
LEMMA PruneEffect ==
    ASSUME TypeOK, WindowIsDense, PruneInv, NEW p \in Pruners, SaveAndCommit(p)
    PROVE  /\ prunedThrough' = through[p]
           /\ prunedThrough < through[p]
           /\ through[p] < nextCursor - 1
           /\ through[p] \in 1..broadcastedThrough
           /\ Assigned' = {i \in Assigned : cursor[i] > through[p]}
           /\ Unassigned' = Unassigned
           /\ UNCHANGED <<cursor, nextCursor, broadcastedThrough>>
<1>1. Deleting(p) /\ pruneState[p] = "save"
  BY DEF SaveAndCommit, Deleting
<1>2. /\ seen[p] = prunedThrough
      /\ prunedThrough < through[p]
      /\ through[p] < nextCursor - 1
      /\ through[p] \in 1..broadcastedThrough
      /\ doomed[p] = Matches(p)
  BY <1>1 DEF PruneInv
<1>3. prunedThrough' = through[p]
  BY <1>2 DEF SaveAndCommit
<1>4. present' = present \ Matches(p) /\ UNCHANGED <<cursor, nextCursor, broadcastedThrough>>
  BY <1>2 DEF SaveAndCommit
<1>5. present \subseteq Ids /\ \A i \in Ids : cursor[i] \in Nat
  BY PresentAreIds DEF TypeOK, OutboxTypeOK
<1>6. Assigned' = {i \in Assigned : cursor[i] > through[p]}
  BY <1>2, <1>4, <1>5 DEF Matches, Assigned
<1>7. Unassigned' = Unassigned
  BY <1>4, <1>5 DEF Matches, Assigned, Unassigned
<1> QED
  BY <1>2, <1>3, <1>4, <1>6, <1>7

\* The cursors in the table stay a stretch without repetition.
LEMMA WindowStep ==
    ASSUME Inv, [Next]_vars
    PROVE  WindowIsDense'
<1> USE DEF Inv
<1>a. /\ \A i, j \in Assigned : cursor[i] = cursor[j] => i = j
      /\ Retained = (prunedThrough + 1)..(nextCursor - 1)
      /\ nextCursor \in Nat \ {0} /\ prunedThrough \in Nat
      /\ prunedThrough < nextCursor
      /\ \A i \in Assigned : cursor[i] \in (prunedThrough + 1)..(nextCursor - 1)
  BY DEF WindowIsDense, Retained, PruneInv, TypeOK, OutboxTypeOK
<1>1. CASE UNCHANGED <<present, cursor, nextCursor, prunedThrough>>
  BY <1>1, <1>a DEF WindowIsDense, Retained, Assigned
<1>2. ASSUME NEW w \in Writers, present' = present \cup Open(w),
             UNCHANGED <<cursor, nextCursor, prunedThrough>>
      PROVE  WindowIsDense'
  BY <1>2, <1>a, CommitEffect DEF WindowIsDense
<1>3. ASSUME NEW p \in Assigners, stateLock = p, AssignCommit(p)
      PROVE  WindowIsDense'
  <2>1. /\ Assigned' = Assigned \cup chosen[p]
        /\ \A i \in Assigned : cursor'[i] = cursor[i]
        /\ \A i \in chosen[p] : cursor'[i] \in nextCursor..(nextCursor' - 1)
        /\ \A i, j \in chosen[p] : cursor'[i] = cursor'[j] => i = j
        /\ \A c \in nextCursor..(nextCursor' - 1) : \E i \in chosen[p] : cursor'[i] = c
        /\ prunedThrough' = prunedThrough
        /\ nextCursor' \in Nat /\ nextCursor <= nextCursor'
    BY <1>3, AssignEffect, AssignedAfterAssign
  <2>2. \A i, j \in Assigned' : cursor'[i] = cursor'[j] => i = j
    BY <2>1, <1>a
  <2>3. \A i \in Assigned' : cursor'[i] \in (prunedThrough' + 1)..(nextCursor' - 1)
    BY <2>1, <1>a
  <2>4. ASSUME NEW c \in (prunedThrough' + 1)..(nextCursor' - 1)
        PROVE  \E i \in Assigned' : cursor'[i] = c
    <3>1. CASE c < nextCursor
      <4>1. c \in Retained
        BY <3>1, <2>1, <1>a
      <4> QED
        BY <4>1, <2>1 DEF Retained
    <3>2. CASE c >= nextCursor
      <4>1. c \in nextCursor..(nextCursor' - 1)
        BY <3>2, <1>a
      <4> QED
        BY <4>1, <2>1
    <3> QED
      BY <3>1, <3>2, <1>a
  <2>5. Retained' = (prunedThrough' + 1)..(nextCursor' - 1)
    BY <2>3, <2>4 DEF Retained
  <2> QED
    BY <2>2, <2>5 DEF WindowIsDense
<1>4. ASSUME NEW p \in Pruners, SaveAndCommit(p)
      PROVE  WindowIsDense'
  <2>1. /\ Assigned' = {i \in Assigned : cursor[i] > through[p]}
        /\ prunedThrough' = through[p] /\ prunedThrough < through[p]
        /\ through[p] \in 1..broadcastedThrough
        /\ cursor' = cursor /\ nextCursor' = nextCursor
    BY <1>4, PruneEffect
  <2>2. through[p] \in Nat
    BY <2>1 DEF TypeOK, OutboxTypeOK
  <2>3. \A i \in Assigned' : cursor'[i] \in (prunedThrough' + 1)..(nextCursor' - 1)
    BY <2>1, <2>2, <1>a
  <2>4. ASSUME NEW c \in (prunedThrough' + 1)..(nextCursor' - 1)
        PROVE  \E i \in Assigned' : cursor'[i] = c
    <3>1. c \in Retained /\ c > through[p]
      BY <2>1, <2>2, <1>a
    <3> QED
      BY <3>1, <2>1 DEF Retained
  <2>5. Retained' = (prunedThrough' + 1)..(nextCursor' - 1)
    BY <2>3, <2>4 DEF Retained
  <2> QED
    BY <2>1, <2>5, <1>a DEF WindowIsDense
<1> QED
  BY <1>1, <1>2, <1>3, <1>4, StepEffects

-----------------------------------------------------------------------------
(* The other parts of the invariant.                                        *)

\* Open transactions keep their rows apart from each other and from the table.
LEMMA TxStep ==
    ASSUME Inv, [Next]_vars
    PROVE  TxInv'
<1> USE DEF Inv
<1>a. /\ txState \in [Writers -> TxStates]
      /\ txRows \in [Writers -> SUBSET (1..lastId)]
      /\ txTodo \in [Writers -> Nat] /\ txHooks \in [Writers -> Nat]
      /\ txNotify \in [Writers -> BOOLEAN]
      /\ lastId \in 0..MaxRows /\ present \subseteq 1..lastId /\ present \subseteq Ids
      /\ cursor \in [Ids -> Nat] /\ MaxRows \in Nat
      /\ \A v \in Writers : Open(v) \subseteq 1..lastId /\ Open(v) \subseteq Ids
  BY PresentAreIds, MaxRowsIsNat DEF TypeOK, OutboxTypeOK, CaptureTypeOK, Open, Ids
\* A writer that is in no transaction before and after changes nothing here.
<1>b. ASSUME NEW w \in Writers, UNCHANGED <<lastId, cursor, present>>,
             \A v \in Writers : Open(v)' \subseteq Open(v),
             txState'[w] = "hooks" => txHooks'[w] > 0,
             txState'[w] \in {"idle", "hooks"} => txRows'[w] = {},
             \A v \in Writers \ {w} : /\ txState'[v] = txState[v]
                                      /\ txHooks'[v] = txHooks[v]
                                      /\ txRows'[v] = txRows[v]
      PROVE  TxInv'
  BY <1>b DEF TxInv
<1>1. CASE UNCHANGED <<lastId, cursor, present, txVars>>
  BY <1>1 DEF TxInv, Open, txVars
<1>2. ASSUME NEW w \in Writers, NEW o, InsertRow(w, o), txState[w] \in {"atomic", "create"}
      PROVE  TxInv'
  <2>1. /\ lastId' = lastId + 1 /\ lastId + 1 \in Ids /\ lastId + 1 \notin 1..lastId
        /\ txState' = txState /\ txHooks' = txHooks
        /\ present' = present /\ cursor' = cursor
        /\ txRows' = [txRows EXCEPT ![w] = @ \cup {lastId + 1}]
    BY <1>2, <1>a DEF InsertRow, Ids
  <2>2. Open(w)' = Open(w) \cup {lastId + 1}
    BY <2>1, <1>2, <1>a DEF Open
  <2>3. \A v \in Writers \ {w} : Open(v)' = Open(v) /\ txRows'[v] = txRows[v]
    BY <2>1, <1>a DEF Open
  <2>4. cursor[lastId + 1] = 0
    BY <2>1, <1>a DEF TxInv, Ids
  <2>5. \A i \in Ids : i > lastId' => cursor'[i] = 0
    BY <2>1, <1>a DEF TxInv, Ids
  <2> QED
    BY <2>1, <2>2, <2>3, <2>4, <2>5, <1>2, <1>a DEF TxInv
<1>3. ASSUME NEW w \in Writers, present' = present \cup txRows[w],
             UNCHANGED <<lastId, cursor>>, Open(w) = txRows[w],
             txState'[w] \notin {"atomic", "create"},
             txState'[w] = "hooks" => txHooks'[w] > 0,
             txState'[w] \in {"idle", "hooks"} => txRows'[w] = {},
             \A v \in Writers \ {w} : /\ txState'[v] = txState[v]
                                      /\ txHooks'[v] = txHooks[v]
                                      /\ txRows'[v] = txRows[v]
      PROVE  TxInv'
  <2>1. Open(w)' = {} /\ \A v \in Writers \ {w} : Open(v)' = Open(v)
    BY <1>3 DEF Open
  <2> QED
    BY <2>1, <1>3, <1>a DEF TxInv
<1>4. ASSUME NEW w \in Writers, RunHooksOrEnd(w)
      PROVE  /\ txState'[w] \in {"idle", "hooks"}
             /\ txState'[w] = "hooks" => txHooks'[w] > 0
             /\ txRows'[w] = {}
             /\ \A v \in Writers \ {w} : /\ txState'[v] = txState[v]
                                         /\ txHooks'[v] = txHooks[v]
                                         /\ txRows'[v] = txRows[v]
  BY <1>4, <1>a DEF RunHooksOrEnd, Forget, GoTo
<1>5. ASSUME NEW w \in Writers, Forget(w), UNCHANGED <<lastId, cursor, present>>
      PROVE  TxInv'
  BY <1>5, <1>a, <1>b DEF Forget, GoTo, Open
\* Steps that leave every transaction as it is, and at most number its rows.
<1>6. ASSUME NEW w \in Writers \cup {Listener}, stateLock = w, AssignCommit(w),
             \A v \in Writers : Open(v)' = Open(v),
             \A v \in Writers : txState'[v] \in {"idle", "hooks"} =>
               /\ txState'[v] = txState[v]
               /\ txHooks'[v] = txHooks[v] /\ txRows'[v] = txRows[v]
      PROVE  TxInv'
  <2>1. w \in Assigners
    BY DEF Assigners
  <2>2. chosen[w] \subseteq present /\ present' = present /\ lastId' = lastId
    BY <2>1, <1>6, AssignEffect DEF Unassigned, AssignCommit
  <2>3. \A i \in Ids \ chosen[w] : cursor'[i] = cursor[i]
    BY <2>1, <1>6, AssignEffect
  <2>4. \A i \in Ids : i > lastId' => cursor'[i] = 0
    BY <2>2, <2>3, <1>a DEF TxInv
  <2>5. ASSUME NEW v \in Writers
        PROVE  Open(v)' \cap present' = {} /\ \A i \in Open(v)' : cursor'[i] = 0
    <3>1. Open(v)' = Open(v) /\ Open(v) \cap present = {} /\ \A i \in Open(v) : cursor[i] = 0
      BY <1>6 DEF TxInv
    <3> QED
      BY <3>1, <2>2, <2>3, <1>a
  <2> QED
    BY <2>4, <2>5, <1>6 DEF TxInv
<1>7. CASE CaptureNext
  <2> PICK w \in Writers : CaptureStep(w)
    BY <1>7 DEF CaptureNext
  <2>1. ASSUME NEW notify \in NotifyArgs, BeginAtomic(w, notify) PROVE TxInv'
    <3>1. txState' = [txState EXCEPT ![w] = "atomic"] /\ UNCHANGED <<outboxVars, txRows, txHooks>>
      BY <2>1 DEF BeginAtomic, GoTo
    <3>2. txRows[w] = {}
      BY <2>1 DEF BeginAtomic, TxInv
    <3> QED
      BY <3>1, <3>2, <1>a, <1>b DEF outboxVars, tableVars, Open
  <2>2. ASSUME NEW o \in Objects, TriggerCapture(w, o) PROVE TxInv'
    BY <2>2, <1>2 DEF TriggerCapture
  <2>3. CASE CreateInAtomic(w)
    BY <2>3, <1>2 DEF CreateInAtomic
  <2>4. CASE CreateRow(w)
    BY <2>4, <1>2 DEF CreateRow
  <2>5. CASE Enqueue(w)
    BY <2>5, <1>a, <1>b DEF Enqueue, Open, outboxVars, tableVars
  <2>6. CASE Commit(w)
    <3>1. Open(w) = txRows[w]
      BY <2>6 DEF Commit, Open
    <3> QED
      BY <2>6, <3>1, <1>3, <1>4 DEF Commit
  <2>7. CASE Rollback(w)
    BY <2>7, <1>5 DEF Rollback, outboxVars, tableVars
  <2>8. ASSUME NEW notify \in NotifyArgs, NEW n \in 1..MaxBatch,
               BeginCreate(w, notify, n)
        PROVE  TxInv'
    <3>1. txState' = [txState EXCEPT ![w] = "create"] /\ UNCHANGED <<outboxVars, txRows, txHooks>>
      BY <2>8 DEF BeginCreate, GoTo
    <3>2. txRows[w] = {}
      BY <2>8 DEF BeginCreate, TxInv
    <3> QED
      BY <3>1, <3>2, <1>a, <1>b DEF outboxVars, tableVars, Open
  <2>9. CASE RunHook(w)
    <3>1. /\ txState' = [txState EXCEPT ![w] = "create"]
          /\ UNCHANGED <<outboxVars, txRows>>
          /\ txHooks' = [txHooks EXCEPT ![w] = @ - 1]
      BY <2>9 DEF RunHook, GoTo
    <3>2. txRows[w] = {}
      BY <2>9 DEF RunHook, TxInv
    <3> QED
      BY <3>1, <3>2, <1>a, <1>b DEF outboxVars, tableVars, Open
  <2>10. CASE CommitCreate(w)
    <3>1. Open(w) = txRows[w]
      BY <2>10 DEF CommitCreate, Open
    <3> QED
      BY <2>10, <3>1, <1>3, <1>a DEF CommitCreate, GoTo
  <2>11. CASE WriterAssignBegin(w)
    BY <2>11, <1>a, <1>b DEF WriterAssignBegin, AssignBegin, GoTo, Open, tableVars
  <2>12. CASE WriterAssignNothing(w)
    BY <2>12, <1>a, <1>b DEF WriterAssignNothing, AssignNothing, GoTo, Open, outboxVars, tableVars
  <2>13. CASE WriterAssignCommit(w)
    <3>1. stateLock = w
      BY <2>13 DEF WriterAssignCommit, LockInv
    <3>2. txState' = [txState EXCEPT ![w] = "refresh"] /\ UNCHANGED <<txRows, txHooks>>
      BY <2>13 DEF WriterAssignCommit, GoTo
    <3>3. \A v \in Writers : Open(v)' = Open(v)
      BY <2>13, <3>2, <1>a DEF WriterAssignCommit, Open
    <3> QED
      BY <2>13, <3>1, <3>2, <3>3, <1>6, <1>a DEF WriterAssignCommit
  <2>14. CASE NotifyDone(w)
    <3>1. UNCHANGED <<lastId, cursor, present>> /\ RunHooksOrEnd(w)
      BY <2>14 DEF NotifyDone, outboxVars, tableVars
    <3>2. \A v \in Writers : Open(v)' \subseteq Open(v)
      BY <3>1, <1>4 DEF Open
    <3> QED
      BY <3>1, <3>2, <1>4, <1>b
  <2>17. CASE RefreshRow(w)
    BY <2>17, <1>a, <1>b DEF RefreshRow, GoTo, Open, outboxVars, tableVars
  <2>18. CASE NotifyRow(w)
    BY <2>18, <1>a, <1>b DEF NotifyRow, Open, tableVars
  <2>15. CASE RefreshFails(w)
    BY <2>15, <1>5 DEF RefreshFails, outboxVars, tableVars
  <2>16. CASE WriterDies(w)
    BY <2>16, <1>5 DEF WriterDies, tableVars
  <2> QED
    BY <2>1, <2>2, <2>3, <2>4, <2>5, <2>6, <2>7, <2>8, <2>9, <2>10, <2>11, <2>12,
       <2>13, <2>14, <2>15, <2>16, <2>17, <2>18 DEF CaptureStep
<1>8. CASE ListenerNext /\ UNCHANGED captureVars
  <2>1. CASE DrainAssignCommit
    BY <2>1, <1>8, <1>6 DEF DrainAssignCommit, LockInv, captureVars, txVars, Open
  <2>2. CASE ~DrainAssignCommit
    BY <1>8, <2>2, <1>1
    DEF ListenerNext, Drain, Connect, DrainAssignBegin, AssignBegin, DrainAssignNothing,
        AssignNothing, DrainRead, DrainDone, Broadcast, RecordBroadcast, Wakeup, Fail,
        captureVars, outboxVars, tableVars
  <2> QED
    BY <2>1, <2>2
<1>9. CASE RetentionNext /\ UNCHANGED captureVars
  <2> PICK p \in Pruners : PruneStep(p)
    BY <1>9 DEF RetentionNext
  <2>1. CASE SaveAndCommit(p)
    <3>1. present' \subseteq present /\ UNCHANGED <<lastId, cursor, txVars>>
      BY <2>1, <1>9 DEF SaveAndCommit, captureVars
    <3> QED
      BY <3>1 DEF TxInv, Open, txVars
  <2>2. CASE ~SaveAndCommit(p)
    BY <1>9, <2>2, <1>1
    DEF PruneStep, ReadNewest, ReadLimits, ReadWatermark, NothingToPrune, DeleteRows,
        DeleteNothing, ReadPruned, Abandon, captureVars, outboxVars, tableVars
  <2> QED
    BY <2>1, <2>2
<1>10. CASE UNCHANGED vars
  BY <1>10, <1>1 DEF vars, outboxVars, tableVars, captureVars
<1> QED
  BY <1>7, <1>8, <1>9, <1>10 DEF Next

\* While the state row's lock is as it is, nothing is numbered.
LEMMA UnassignedStay ==
    ASSUME Inv, [Next]_vars, stateLock' = stateLock
    PROVE  Unassigned \subseteq Unassigned' /\ nextCursor' = nextCursor
<1> USE DEF Inv
<1>1. CASE UNCHANGED <<present, cursor, nextCursor, prunedThrough>>
  BY <1>1 DEF Unassigned
<1>2. ASSUME NEW w \in Writers, present' = present \cup Open(w),
             UNCHANGED <<cursor, nextCursor, prunedThrough>>
      PROVE  Unassigned \subseteq Unassigned' /\ nextCursor' = nextCursor
  BY <1>2 DEF Unassigned
<1>3. ASSUME NEW p \in Assigners, stateLock = p, AssignCommit(p)
      PROVE  FALSE
  BY <1>3, NamesAreApart DEF AssignCommit, AssignEnd
<1>4. ASSUME NEW p \in Pruners, SaveAndCommit(p)
      PROVE  Unassigned \subseteq Unassigned' /\ nextCursor' = nextCursor
  BY <1>4, PruneEffect
<1> QED
  BY <1>1, <1>2, <1>3, <1>4, StepEffects

\* The assign transaction holds the state row, and what it read there stays so.
LEMMA LockStep ==
    ASSUME Inv, [Next]_vars
    PROVE  LockInv'
<1> USE DEF Inv
<1>a. /\ txState \in [Writers -> TxStates]
      /\ chosen \in [Assigners -> SUBSET Ids] /\ startAt \in [Assigners -> Nat]
      /\ stateLock \in Assigners \cup {NoOne}
      /\ Assigners = Writers \cup {Listener}
      /\ Listener \notin Writers /\ NoOne \notin Assigners
  BY NamesAreApart DEF TypeOK, OutboxTypeOK, CaptureTypeOK, Assigners
\* Steps outside the assign transaction.
<1>1. ASSUME UNCHANGED lockVars,
             \A v \in Writers : txState'[v] = "assigning" <=> txState[v] = "assigning",
             lpc' = "assigning" <=> lpc = "assigning"
      PROVE  LockInv'
  <2>1. Unassigned \subseteq Unassigned' /\ nextCursor' = nextCursor
    BY <1>1, UnassignedStay DEF lockVars
  <2> QED
    BY <1>1, <2>1 DEF LockInv, lockVars
\* The three things an assigner does with the lock.
<1>2. ASSUME NEW p \in Assigners, NEW limit \in Nat, AssignBegin(p, limit),
             \A v \in Writers : txState'[v] = "assigning" <=>
               (txState[v] = "assigning" \/ v = p),
             lpc' = "assigning" <=> (lpc = "assigning" \/ p = Listener)
      PROVE  LockInv'
  <2>1. /\ stateLock = NoOne /\ stateLock' = p
        /\ chosen'[p] = Lowest(Unassigned, limit)
        /\ startAt'[p] = nextCursor /\ nextCursor' = nextCursor
        /\ Unassigned' = Unassigned
    BY <1>2, <1>a DEF AssignBegin, tableVars, stateVars, Unassigned
  <2>2. chosen'[p] \subseteq Unassigned'
    BY <2>1 DEF Lowest
  <2> QED
    BY <1>2, <2>1, <2>2, <1>a DEF LockInv
<1>3. ASSUME NEW p \in Assigners, stateLock = p, AssignEnd(p),
             \A v \in Writers : txState'[v] = "assigning" <=>
               (txState[v] = "assigning" /\ v # p),
             lpc' = "assigning" <=> (lpc = "assigning" /\ p # Listener)
      PROVE  LockInv'
  BY <1>3, <1>a DEF AssignEnd, LockInv
<1>4. ASSUME NEW p \in Assigners, stateLock # p, AssignEnd(p), UNCHANGED <<tableVars, nextCursor>>,
             \A v \in Writers : txState'[v] = "assigning" <=> txState[v] = "assigning",
             lpc' = "assigning" <=> lpc = "assigning"
      PROVE  LockInv'
  BY <1>4, <1>a DEF AssignEnd, LockInv, tableVars, Unassigned
<1>5. CASE CaptureNext /\ UNCHANGED listenerVars
  <2> PICK w \in Writers : CaptureStep(w)
    BY <1>5 DEF CaptureNext
  <2>a. lpc' = lpc /\ w \in Assigners /\ w # Listener
    BY <1>5, <1>a DEF listenerVars
  <2>1. CASE WriterAssignBegin(w)
    <3>1. \A v \in Writers : txState'[v] = "assigning" <=> (txState[v] = "assigning" \/ v = w)
      BY <2>1, <1>a DEF WriterAssignBegin, GoTo
    <3> QED
      BY <2>1, <2>a, <3>1, <1>2, MaxRowsIsNat DEF WriterAssignBegin
  <2>2. CASE WriterAssignCommit(w)
    <3>1. stateLock = w /\ AssignEnd(w)
      BY <2>2 DEF WriterAssignCommit, AssignCommit, LockInv
    <3>2. \A v \in Writers : txState'[v] = "assigning" <=> (txState[v] = "assigning" /\ v # w)
      BY <2>2, <1>a DEF WriterAssignCommit, GoTo
    <3> QED
      BY <2>a, <3>1, <3>2, <1>3
  <2>3. CASE WriterDies(w)
    <3>1. /\ AssignEnd(w) /\ UNCHANGED <<tableVars, nextCursor>>
          /\ txState' = [txState EXCEPT ![w] = "idle"]
      BY <2>3 DEF WriterDies, stateVars, Forget, GoTo
    <3>2. CASE stateLock = w
      BY <3>1, <3>2, <2>a, <1>a, <1>3
    <3>3. CASE stateLock # w
      <4>1. txState[w] # "assigning"
        BY <3>3 DEF LockInv
      <4> QED
        BY <3>1, <3>3, <4>1, <2>a, <1>a, <1>4
    <3> QED
      BY <3>2, <3>3
  <2>4. CASE ~WriterAssignBegin(w) /\ ~WriterAssignCommit(w) /\ ~WriterDies(w)
    <3>1. UNCHANGED lockVars
      BY <2>4
      DEF CaptureStep, BeginAtomic, TriggerCapture, CreateInAtomic, InsertRow, Enqueue,
          Commit, Rollback, BeginCreate, RunHook, CreateRow, CommitCreate,
          WriterAssignNothing, AssignNothing, RefreshRow, NotifyRow, NotifyDone,
          RefreshFails, outboxVars
    <3>2. \A v \in Writers : txState'[v] = "assigning" <=> txState[v] = "assigning"
      BY <2>4, <1>a
      DEF CaptureStep, BeginAtomic, TriggerCapture, CreateInAtomic, InsertRow, Enqueue,
          Commit, Rollback, BeginCreate, RunHook, CreateRow, CommitCreate,
          WriterAssignNothing, AssignNothing, RefreshRow, NotifyRow, NotifyDone,
          RefreshFails, RunHooksOrEnd,
          Forget, GoTo, outboxVars
    <3> QED
      BY <3>1, <3>2, <2>a, <1>1
  <2> QED
    BY <2>1, <2>2, <2>3, <2>4
<1>6. CASE ListenerNext /\ UNCHANGED captureVars
  <2>a. Listener \in Assigners /\ txState' = txState
    BY <1>6, <1>a DEF captureVars, txVars
  <2>1. CASE DrainAssignBegin
    BY <2>1, <2>a, <1>a, <1>2, BatchSizeIsPositive DEF DrainAssignBegin
  <2>2. CASE DrainAssignCommit
    BY <2>2, <2>a, <1>a, <1>3 DEF DrainAssignCommit, AssignCommit, LockInv
  <2>3. CASE Fail
    <3>1. AssignEnd(Listener) /\ UNCHANGED <<tableVars, nextCursor>> /\ lpc' = "down"
      BY <2>3 DEF Fail, stateVars
    <3>2. CASE stateLock = Listener
      BY <3>1, <3>2, <2>a, <1>a, <1>3
    <3>3. CASE stateLock # Listener
      BY <3>1, <3>3, <2>a, <1>4 DEF LockInv
    <3> QED
      BY <3>2, <3>3
  <2>4. CASE ~DrainAssignBegin /\ ~DrainAssignCommit /\ ~Fail
    BY <1>6, <2>4, <2>a, <1>1
    DEF ListenerNext, Drain, Connect, DrainAssignNothing, AssignNothing, DrainRead,
        DrainDone, Broadcast, RecordBroadcast, Wakeup, outboxVars
  <2> QED
    BY <2>1, <2>2, <2>3, <2>4
<1>7. CASE RetentionNext /\ UNCHANGED <<captureVars, listenerVars>>
  BY <1>7, <1>1
  DEF RetentionNext, PruneStep, ReadNewest, ReadLimits, ReadWatermark, NothingToPrune,
      DeleteRows, DeleteNothing, ReadPruned, SaveAndCommit, Abandon, captureVars, txVars,
      listenerVars, outboxVars
<1>8. CASE UNCHANGED vars
  BY <1>8, <1>1 DEF vars, outboxVars, captureVars, txVars, listenerVars
<1> QED
  BY <1>5, <1>6, <1>7, <1>8 DEF Next

-----------------------------------------------------------------------------
(* The order of one object's events.                                        *)

\* A step inserts one row, below no other and not in another transaction's
\* object, or opens no row and leaves the origins alone.
LEMMA RowEffects ==
    ASSUME Inv, [Next]_vars
    PROVE  \/ \E w \in Writers, o \in Objects \cup {Unlocked} :
                /\ InsertRow(w, o)
                /\ txState[w] \in {"atomic", "create"}
                /\ \/ o = Unlocked
                   \/ /\ txState[w] = "atomic"
                      /\ \A v \in Writers \ {w} : ~Locks(v, o)
           \/ /\ UNCHANGED <<origin, lastId>>
              /\ \A v \in Writers : Open(v)' \subseteq Open(v)
              /\ \A v \in Writers : txState'[v] = "create" =>
                   \/ txRows'[v] = {}
                   \/ txState[v] = "create" /\ txRows'[v] = txRows[v]
<1> USE DEF Inv
<1>a. /\ txState \in [Writers -> TxStates]
      /\ txRows \in [Writers -> SUBSET (1..lastId)]
  BY DEF TypeOK, CaptureTypeOK
<1>b. \A v \in Writers : txState[v] \in {"idle", "hooks"} => txRows[v] = {}
  BY DEF TxInv
<1> DEFINE Quiet == /\ UNCHANGED <<origin, lastId>>
                    /\ \A v \in Writers : Open(v)' \subseteq Open(v)
                    /\ \A v \in Writers : txState'[v] = "create" =>
                         \/ txRows'[v] = {}
                         \/ txState[v] = "create" /\ txRows'[v] = txRows[v]
<1>1. CASE UNCHANGED <<origin, lastId, txVars>>
  <2>1. Quiet
    BY <1>1 DEF txVars, Open
  <2> QED
    BY <2>1
<1>2. CASE CaptureNext
  <2> PICK w \in Writers : CaptureStep(w)
    BY <1>2 DEF CaptureNext
  <2>1. CASE CreateInAtomic(w)
    BY <2>1 DEF CreateInAtomic
  <2>2. CASE CreateRow(w)
    BY <2>2 DEF CreateRow
  <2>3. ASSUME NEW o \in Objects, TriggerCapture(w, o)
        PROVE  /\ InsertRow(w, o) /\ txState[w] = "atomic"
               /\ \A v \in Writers \ {w} : ~Locks(v, o)
    BY <2>3 DEF TriggerCapture
  <2>4. CASE /\ ~CreateInAtomic(w) /\ ~CreateRow(w)
             /\ \A o \in Objects : ~TriggerCapture(w, o)
    <3>1. UNCHANGED <<origin, lastId>>
      BY <2>4
      DEF CaptureStep, BeginAtomic, Enqueue, Commit, Rollback, BeginCreate, RunHook,
          CommitCreate, WriterAssignBegin, AssignBegin, WriterAssignNothing, AssignNothing,
          WriterAssignCommit, AssignCommit, RefreshRow, NotifyRow, NotifyDone,
          RefreshFails, WriterDies,
          outboxVars, tableVars
    <3>2. \A v \in Writers \ {w} : txState'[v] = txState[v] /\ txRows'[v] = txRows[v]
      BY <2>4, <1>a
      DEF CaptureStep, BeginAtomic, Enqueue, Commit, Rollback, BeginCreate, RunHook,
          CommitCreate, WriterAssignBegin, WriterAssignNothing, WriterAssignCommit,
          RefreshRow, NotifyRow, NotifyDone, RefreshFails, WriterDies, RunHooksOrEnd,
          Forget, GoTo
    <3>3. \/ txRows'[w] = {}
          \/ txRows'[w] = txRows[w] /\ txState'[w] = txState[w]
          \/ txState'[w] \notin {"atomic", "create"}
      BY <2>4, <1>a, <1>b
      DEF CaptureStep, BeginAtomic, Enqueue, Commit, Rollback, BeginCreate, RunHook,
          CommitCreate, WriterAssignBegin, WriterAssignNothing, WriterAssignCommit,
          RefreshRow, NotifyRow, NotifyDone, RefreshFails, WriterDies, RunHooksOrEnd,
          Forget, GoTo
    <3>4. Quiet
      BY <3>1, <3>2, <3>3 DEF Open
    <3> QED
      BY <3>4
  <2> QED
    BY <2>1, <2>2, <2>3, <2>4
<1>3. CASE ListenerNext /\ UNCHANGED captureVars
  BY <1>3, <1>1
  DEF ListenerNext, Drain, Connect, DrainAssignBegin, AssignBegin, DrainAssignNothing,
      AssignNothing, DrainAssignCommit, AssignCommit, DrainRead, DrainDone, Broadcast,
      RecordBroadcast, Wakeup, Fail, captureVars, outboxVars, tableVars
<1>4. CASE RetentionNext /\ UNCHANGED captureVars
  BY <1>4, <1>1
  DEF RetentionNext, PruneStep, ReadNewest, ReadLimits, ReadWatermark, NothingToPrune,
      DeleteRows, DeleteNothing, ReadPruned, SaveAndCommit, Abandon, captureVars,
      outboxVars, tableVars
<1>5. CASE UNCHANGED vars
  BY <1>5, <1>1 DEF vars, captureVars, outboxVars, tableVars
<1> QED
  BY <1>2, <1>3, <1>4, <1>5 DEF Next

\* The rows a transaction holds, and the committed ones, keep their origin.
LEMMA OriginStays ==
    ASSUME Inv, [Next]_vars
    PROVE  \A i \in 1..lastId : origin'[i] = origin[i]
<1>1. ASSUME NEW w \in Writers, NEW o, InsertRow(w, o)
      PROVE  \A i \in 1..lastId : origin'[i] = origin[i]
  <2>1. origin \in [Ids -> Objects \cup {Unlocked}] /\ lastId \in Nat
    BY DEF Inv, TypeOK, OutboxTypeOK
  <2>2. \A i \in 1..lastId : i \in Ids /\ i # lastId + 1
    BY <2>1, MaxRowsIsNat DEF Inv, TypeOK, OutboxTypeOK, Ids
  <2> QED
    BY <1>1, <2>1, <2>2 DEF InsertRow
<1> QED
  BY <1>1, RowEffects

\* A step takes the state row for a select, gives it back, or leaves it and
\* its holder's selection alone.
LEMMA LockEffects ==
    ASSUME Inv, [Next]_vars
    PROVE  \/ stateLock' = NoOne
           \/ stateLock' = stateLock /\ chosen'[stateLock] = chosen[stateLock]
           \/ \E p \in Assigners, limit \in Nat : AssignBegin(p, limit)
<1> USE DEF Inv
<1>a. /\ chosen \in [Assigners -> SUBSET Ids]
      /\ stateLock \in Assigners \cup {NoOne}
      /\ NoOne \notin Assigners
  BY NamesAreApart DEF TypeOK, OutboxTypeOK
<1>b. ASSUME NEW p \in Assigners, AssignEnd(p)
      PROVE  \/ stateLock' = NoOne
             \/ stateLock' = stateLock /\ chosen'[stateLock] = chosen[stateLock]
  BY <1>b, <1>a DEF AssignEnd
<1>1. CASE CaptureNext
  <2> PICK w \in Writers : CaptureStep(w)
    BY <1>1 DEF CaptureNext
  <2>a. w \in Assigners
    BY DEF Assigners
  <2>1. CASE WriterAssignBegin(w)
    BY <2>1, <2>a, MaxRowsIsNat DEF WriterAssignBegin
  <2>2. CASE WriterAssignCommit(w) \/ WriterDies(w)
    BY <2>2, <2>a, <1>b DEF WriterAssignCommit, AssignCommit, WriterDies
  <2>3. CASE ~WriterAssignBegin(w) /\ ~WriterAssignCommit(w) /\ ~WriterDies(w)
    BY <2>3
    DEF CaptureStep, BeginAtomic, TriggerCapture, CreateInAtomic, InsertRow, Enqueue,
        Commit, Rollback, BeginCreate, RunHook, CreateRow, CommitCreate,
        WriterAssignNothing, AssignNothing, RefreshRow, NotifyRow, NotifyDone,
        RefreshFails, outboxVars, lockVars
  <2> QED
    BY <2>1, <2>2, <2>3
<1>2. CASE ListenerNext
  <2>a. Listener \in Assigners
    BY DEF Assigners
  <2>1. CASE DrainAssignBegin
    BY <2>1, <2>a, BatchSizeIsPositive DEF DrainAssignBegin
  <2>2. CASE DrainAssignCommit \/ Fail
    BY <2>2, <2>a, <1>b DEF DrainAssignCommit, AssignCommit, Fail
  <2>3. CASE ~DrainAssignBegin /\ ~DrainAssignCommit /\ ~Fail
    BY <1>2, <2>3
    DEF ListenerNext, Drain, Connect, DrainAssignNothing, AssignNothing, DrainRead,
        DrainDone, Broadcast, RecordBroadcast, Wakeup, outboxVars, lockVars
  <2> QED
    BY <2>1, <2>2, <2>3
<1>3. CASE RetentionNext
  BY <1>3
  DEF RetentionNext, PruneStep, ReadNewest, ReadLimits, ReadWatermark, NothingToPrune,
      DeleteRows, DeleteNothing, ReadPruned, SaveAndCommit, Abandon, outboxVars, lockVars
<1>4. CASE UNCHANGED vars
  BY <1>4 DEF vars, outboxVars, lockVars
<1> QED
  BY <1>1, <1>2, <1>3, <1>4 DEF Next

\* An uncommitted row stays younger than the committed rows of its object.
LEMMA OpenRowsStep ==
    ASSUME Inv, [Next]_vars
    PROVE  /\ \A w \in Writers : \A j \in Open(w)', i \in present' :
                origin'[i] = origin'[j] /\ origin'[i] # Unlocked => i < j
           /\ \A w \in Writers : \A v \in Writers \ {w} :
                \A j \in Open(w)', i \in Open(v)' :
                  origin'[i] = origin'[j] => origin'[i] = Unlocked
           /\ \A w \in Writers : txState'[w] = "create" =>
                \A i \in txRows'[w] : origin'[i] = Unlocked
<1> USE DEF Inv
<1> DEFINE Goal == /\ \A w \in Writers : \A j \in Open(w)', i \in present' :
                        origin'[i] = origin'[j] /\ origin'[i] # Unlocked => i < j
                   /\ \A w \in Writers : \A v \in Writers \ {w} :
                        \A j \in Open(w)', i \in Open(v)' :
                          origin'[i] = origin'[j] => origin'[i] = Unlocked
                   /\ \A w \in Writers : txState'[w] = "create" =>
                        \A i \in txRows'[w] : origin'[i] = Unlocked
<1>a. /\ txState \in [Writers -> TxStates]
      /\ txRows \in [Writers -> SUBSET (1..lastId)]
      /\ present \subseteq 1..lastId /\ lastId \in Nat
      /\ origin \in [Ids -> Objects \cup {Unlocked}]
      /\ Unlocked \notin Objects
      /\ \A v \in Writers : Open(v) \subseteq 1..lastId
  BY NamesAreApart DEF TypeOK, OutboxTypeOK, CaptureTypeOK, Open
<1>b. \A i \in 1..lastId : origin'[i] = origin[i]
  BY OriginStays
<1>1. ASSUME NEW w \in Writers, NEW o \in Objects \cup {Unlocked}, InsertRow(w, o),
             txState[w] \in {"atomic", "create"},
             \/ o = Unlocked
             \/ txState[w] = "atomic" /\ \A v \in Writers \ {w} : ~Locks(v, o)
      PROVE  Goal
  <2> DEFINE new == lastId + 1
  <2>1. /\ new \in Ids /\ new \notin 1..lastId
        /\ origin'[new] = o
        /\ txState' = txState /\ present' = present
        /\ txRows' = [txRows EXCEPT ![w] = @ \cup {new}]
    BY <1>1, <1>a, MaxRowsIsNat DEF InsertRow, Ids
  <2> HIDE DEF new
  <2>2. /\ Open(w)' = Open(w) \cup {new}
        /\ \A v \in Writers \ {w} : Open(v)' = Open(v)
    BY <2>1, <1>1, <1>a DEF Open
  <2>3. \A v \in Writers \ {w} : \A i \in Open(v) : origin[i] = o => o = Unlocked
    BY <1>1, <1>a DEF Locks, Open, OrderInv
  <2>4. \A i \in present : i < new
    BY <1>a DEF new
  <2>5. ASSUME NEW v \in Writers, NEW j \in Open(v)', NEW i \in present',
               origin'[i] = origin'[j], origin'[i] # Unlocked
        PROVE  i < j
    <3>1. i \in present /\ (j \in Open(v) \/ j = new)
      BY <2>1, <2>2
    <3>2. CASE j = new
      BY <3>1, <3>2, <2>4
    <3>3. CASE j \in Open(v)
      <4>1. i \in 1..lastId /\ j \in 1..lastId
        BY <3>1, <3>3, <1>a
      <4>2. origin[i] = origin[j] /\ origin[i] # Unlocked
        BY <4>1, <2>5, <1>b
      <4> QED
        BY <4>2, <3>1, <3>3 DEF OrderInv
    <3> QED
      BY <3>1, <3>2, <3>3
  <2>6. ASSUME NEW v \in Writers, NEW u \in Writers \ {v}, NEW j \in Open(v)',
               NEW i \in Open(u)', origin'[i] = origin'[j]
        PROVE  origin'[i] = Unlocked
    BY <2>6, <2>1, <2>2, <2>3, <1>a, <1>b DEF OrderInv
  <2>7. ASSUME NEW v \in Writers, txState'[v] = "create", NEW i \in txRows'[v]
        PROVE  origin'[i] = Unlocked
    BY <2>7, <2>1, <1>1, <1>a, <1>b DEF OrderInv
  <2> QED
    BY <2>5, <2>6, <2>7
<1>2. CASE /\ \A v \in Writers : Open(v)' \subseteq Open(v)
           /\ \A v \in Writers : txState'[v] = "create" =>
                \/ txRows'[v] = {}
                \/ txState[v] = "create" /\ txRows'[v] = txRows[v]
  <2>1. ASSUME NEW v \in Writers, NEW j \in Open(v)', NEW i \in present',
               origin'[i] = origin'[j], origin'[i] # Unlocked
        PROVE  i < j
    <3>1. j \in Open(v) /\ j \notin present'
      BY <1>2, TxStep DEF TxInv
    <3>2. i \in present \/ \E w \in Writers : present' = present \cup Open(w) /\ i \in Open(w)
      BY StepEffects, AssignEffect DEF SaveAndCommit
    <3>3. CASE i \in present
      BY <3>1, <3>3, <2>1, <1>a, <1>b DEF OrderInv
    <3>4. ASSUME NEW w \in Writers, present' = present \cup Open(w), i \in Open(w)
          PROVE  FALSE
      <4>1. w # v
        BY <3>1, <3>4
      <4> QED
        BY <4>1, <3>1, <3>4, <2>1, <1>a, <1>b DEF OrderInv
    <3> QED
      BY <3>2, <3>3, <3>4
  <2>2. ASSUME NEW v \in Writers, NEW u \in Writers \ {v}, NEW j \in Open(v)',
               NEW i \in Open(u)', origin'[i] = origin'[j]
        PROVE  origin'[i] = Unlocked
    BY <2>2, <1>2, <1>a, <1>b DEF OrderInv
  <2>3. ASSUME NEW v \in Writers, txState'[v] = "create", NEW i \in txRows'[v]
        PROVE  origin'[i] = Unlocked
    BY <2>3, <1>2, <1>a, <1>b DEF OrderInv
  <2> QED
    BY <2>1, <2>2, <2>3
<1>3. Goal
  BY <1>1, <1>2, RowEffects
<1> QED
  BY <1>3

\* A select that took a row of an object keeps having taken the older ones.
LEMMA SelectionStep ==
    ASSUME Inv, [Next]_vars, stateLock' # NoOne,
           NEW i \in chosen'[stateLock'], NEW j \in Unassigned',
           j < i, origin'[i] = origin'[j], origin'[i] # Unlocked
    PROVE  j \in chosen'[stateLock']
<1> USE DEF Inv
<1>a. present \subseteq 1..lastId /\ present \subseteq Ids
  BY PresentAreIds DEF TypeOK, OutboxTypeOK
<1>b. \A h \in 1..lastId : origin'[h] = origin[h]
  BY OriginStays
<1>1. CASE stateLock' = stateLock /\ chosen'[stateLock] = chosen[stateLock]
  <2>1. i \in chosen[stateLock] /\ chosen[stateLock] \subseteq Unassigned
    BY <1>1 DEF LockInv
  <2>2. i \in present
    BY <2>1 DEF Unassigned
  <2>3. j \in Unassigned \/ \E w \in Writers : j \in Open(w)
    <3>1. ASSUME NEW w \in Writers, present' = present \cup Open(w), UNCHANGED cursor
          PROVE  j \in Unassigned \/ j \in Open(w)
      BY <3>1, CommitEffect
    <3>2. ASSUME NEW p \in Assigners, stateLock = p, AssignCommit(p)
          PROVE  FALSE
      BY <3>2, <1>1, NamesAreApart DEF AssignCommit, AssignEnd
    <3>3. ASSUME NEW p \in Pruners, SaveAndCommit(p)
          PROVE  j \in Unassigned
      BY <3>3, PruneEffect
    <3>4. CASE UNCHANGED <<present, cursor>>
      BY <3>4 DEF Unassigned
    <3> QED
      BY <3>1, <3>2, <3>3, <3>4, StepEffects
  <2>4. CASE j \in Unassigned
    <3>1. j \in present
      BY <2>4 DEF Unassigned
    <3> QED
      BY <2>1, <2>2, <2>4, <3>1, <1>1, <1>a, <1>b DEF OrderInv
  <2>5. ASSUME NEW w \in Writers, j \in Open(w)
        PROVE  FALSE
    <3>1. j \in 1..lastId /\ j \in Int /\ i \in Int
      BY <2>2, <2>5, <1>a DEF Open, TypeOK, CaptureTypeOK, Ids
    <3>2. i < j
      BY <2>2, <2>5, <3>1, <1>a, <1>b DEF OrderInv
    <3> QED
      BY <3>1, <3>2
  <2> QED
    BY <2>3, <2>4, <2>5
<1>2. ASSUME NEW p \in Assigners, NEW limit \in Nat, AssignBegin(p, limit)
      PROVE  j \in chosen'[stateLock']
  <2>1. stateLock' = p /\ chosen'[p] = Lowest(Unassigned, limit) /\ Unassigned' = Unassigned
    BY <1>2 DEF AssignBegin, TypeOK, OutboxTypeOK, tableVars, Unassigned
  <2>2. Unassigned \in SUBSET Ids
    BY <1>a DEF Unassigned
  <2> QED
    BY <2>1, <2>2, LowestIsDownwardClosed
<1> QED
  BY <1>1, <1>2, LockEffects

\* What has been selected or numbered of an object came in the order of its
\* writes, and stays so.
LEMMA OrderStep ==
    ASSUME Inv, [Next]_vars
    PROVE  OrderInv'
BY OpenRowsStep, SelectionStep DEF OrderInv

\* No row gets a cursor before an older row of its object has a lower one.
LEMMA ObjectOrderStep ==
    ASSUME Inv, [Next]_vars
    PROVE  ObjectOrder'
<1> USE DEF Inv
<1>a. /\ present \subseteq 1..lastId /\ present \subseteq Ids /\ lastId \in Nat
      /\ cursor \in [Ids -> Nat] /\ nextCursor \in Nat /\ prunedThrough \in Nat
      /\ Assigned \subseteq present
  BY PresentAreIds DEF TypeOK, OutboxTypeOK, Assigned
<1>b. \A i \in 1..lastId : origin'[i] = origin[i]
  BY OriginStays
<1>c. SUFFICES ASSUME NEW i \in Assigned', NEW j \in present', j < i,
                      origin'[j] = origin'[i], origin'[i] # Unlocked
               PROVE  cursor'[j] \in 1..(cursor'[i] - 1)
  BY DEF ObjectOrder
<1>d. ASSUME i \in Assigned, j \in present
      PROVE  cursor[j] \in 1..(cursor[i] - 1)
  <2>1. origin[j] = origin[i] /\ origin[i] # Unlocked
    BY <1>d, <1>a, <1>b, <1>c
  <2> QED
    BY <2>1, <1>d, <1>c DEF ObjectOrder
<1>1. CASE UNCHANGED <<present, cursor>>
  BY <1>1, <1>d DEF Assigned
<1>2. ASSUME NEW w \in Writers, present' = present \cup Open(w), UNCHANGED cursor
      PROVE  cursor'[j] \in 1..(cursor'[i] - 1)
  <2>1. i \in Assigned
    BY <1>2, CommitEffect
  <2>2. CASE j \in present
    BY <2>1, <2>2, <1>2, <1>d
  <2>3. CASE j \in Open(w)
    <3>1. j \in 1..lastId /\ i \in 1..lastId
      BY <2>1, <2>3, <1>a DEF Open, TypeOK, CaptureTypeOK
    <3>2. i < j
      BY <2>1, <2>3, <3>1, <1>a, <1>b, <1>c DEF OrderInv
    <3> QED
      BY <3>1, <3>2, <1>c
  <2> QED
    BY <1>2, <2>2, <2>3
<1>3. ASSUME NEW p \in Assigners, stateLock = p, AssignCommit(p)
      PROVE  cursor'[j] \in 1..(cursor'[i] - 1)
  <2>1. /\ present' = present
        /\ Assigned' = Assigned \cup chosen[p]
        /\ chosen[p] \subseteq Unassigned
        /\ \A h \in Assigned : cursor'[h] = cursor[h]
        /\ \A h \in chosen[p] : cursor'[h] \in nextCursor..(nextCursor' - 1)
        /\ \A g, h \in chosen[p] : g < h => cursor'[g] < cursor'[h]
        /\ nextCursor' \in Nat
    BY <1>3, AssignEffect, AssignedAfterAssign
  <2>2. \A h \in Assigned : cursor[h] \in 1..(nextCursor - 1)
    BY <1>a DEF WindowIsDense, Retained
  <2>3. nextCursor > 0
    BY DEF TypeOK, OutboxTypeOK
  <2>4. CASE i \in Assigned
    <3>1. cursor[j] \in 1..(cursor[i] - 1)
      BY <2>1, <2>4, <1>d
    <3>2. j \in Assigned
      BY <3>1, <2>1 DEF Assigned
    <3> QED
      BY <3>1, <3>2, <2>1, <2>4
  <2>5. CASE i \in chosen[p] /\ j \in Assigned
    <3>1. cursor'[j] = cursor[j] /\ cursor[j] \in 1..(nextCursor - 1)
      BY <2>1, <2>2, <2>5
    <3>2. cursor'[i] \in nextCursor..(nextCursor' - 1)
      BY <2>1, <2>5
    <3> QED
      BY <3>1, <3>2, <1>a, <2>1
  <2>6. CASE i \in chosen[p] /\ j \notin Assigned
    <3>1. j \in Unassigned
      <4>1. j \in present /\ cursor[j] \in Nat /\ ~(cursor[j] > 0)
        BY <2>1, <2>6, <1>a DEF Assigned
      <4> QED
        BY <4>1 DEF Unassigned
    <3>2. i \in present
      BY <2>1, <2>6 DEF Unassigned
    <3>3. j \in chosen[p]
      BY <3>1, <3>2, <2>1, <2>6, <1>3, <1>a, <1>b, <1>c, NamesAreApart DEF OrderInv
    <3>4. cursor'[j] < cursor'[i]
      BY <3>3, <2>1, <2>6, <1>c
    <3>5. /\ cursor'[i] \in nextCursor..(nextCursor' - 1)
          /\ cursor'[j] \in nextCursor..(nextCursor' - 1)
      BY <3>3, <2>1, <2>6
    <3> QED
      BY <3>4, <3>5, <2>1, <2>3, <1>a
  <2> QED
    BY <2>1, <2>4, <2>5, <2>6
<1>4. ASSUME NEW p \in Pruners, SaveAndCommit(p)
      PROVE  cursor'[j] \in 1..(cursor'[i] - 1)
  <2>1. /\ Assigned' = {h \in Assigned : cursor[h] > through[p]}
        /\ cursor' = cursor
    BY <1>4, PruneEffect
  <2>2. present' \subseteq present
    BY <1>4 DEF SaveAndCommit
  <2> QED
    BY <2>1, <2>2, <1>d
<1> QED
  BY <1>1, <1>2, <1>3, <1>4, StepEffects

-----------------------------------------------------------------------------
(* Pruning.                                                                 *)

\* next_cursor, pruned_through and broadcasted_through never go down.
LEMMA Watermarks ==
    ASSUME Inv, [Next]_vars
    PROVE  /\ nextCursor' \in Nat /\ nextCursor <= nextCursor'
           /\ prunedThrough <= prunedThrough'
           /\ broadcastedThrough' \in Nat /\ broadcastedThrough <= broadcastedThrough'
<1> USE DEF Inv
<1>a. nextCursor \in Nat /\ prunedThrough \in Nat /\ broadcastedThrough \in Nat
  BY DEF TypeOK, OutboxTypeOK
<1>1. nextCursor' \in Nat /\ nextCursor <= nextCursor' /\ prunedThrough <= prunedThrough'
  <2>1. ASSUME NEW p \in Assigners, stateLock = p, AssignCommit(p)
        PROVE  /\ nextCursor' \in Nat /\ nextCursor <= nextCursor'
               /\ prunedThrough' = prunedThrough
    BY <2>1, AssignEffect
  <2>2. ASSUME NEW p \in Pruners, SaveAndCommit(p)
        PROVE  /\ nextCursor' = nextCursor
               /\ prunedThrough' = through[p] /\ prunedThrough < through[p]
               /\ through[p] \in 1..broadcastedThrough
    BY <2>2, PruneEffect
  <2> QED
    BY <2>1, <2>2, <1>a, StepEffects
<1>2. broadcastedThrough' \in Nat /\ broadcastedThrough <= broadcastedThrough'
  <2>1. CASE RecordBroadcast
    <3>1. PICK i \in Front : broadcastedThrough' = IF cursor[i] > broadcastedThrough
                                                   THEN cursor[i] ELSE broadcastedThrough
      BY <2>1 DEF RecordBroadcast
    <3>2. cursor[i] \in Nat
      BY DEF Front, TypeOK, OutboxTypeOK, ListenerTypeOK
    <3> QED
      BY <3>1, <3>2, <1>a
  <2>2. CASE ~RecordBroadcast
    <3>1. broadcastedThrough' = broadcastedThrough
      <4>1. CASE CaptureNext
        BY <4>1
        DEF CaptureNext, CaptureStep, BeginAtomic, TriggerCapture, CreateInAtomic,
            InsertRow, Enqueue, Commit, Rollback, BeginCreate, RunHook, CreateRow,
            CommitCreate, WriterAssignBegin, AssignBegin, WriterAssignNothing,
            AssignNothing, WriterAssignCommit, AssignCommit, RefreshRow, NotifyRow,
            NotifyDone, RefreshFails,
            WriterDies, outboxVars, stateVars
      <4>2. CASE ListenerNext
        BY <2>2, <4>2
        DEF ListenerNext, Drain, Connect, DrainAssignBegin, AssignBegin,
            DrainAssignNothing, AssignNothing, DrainAssignCommit, AssignCommit, DrainRead,
            DrainDone, Broadcast, Wakeup, Fail, outboxVars, stateVars
      <4>3. CASE RetentionNext
        BY <4>3
        DEF RetentionNext, PruneStep, ReadNewest, ReadLimits, ReadWatermark,
            NothingToPrune, DeleteRows, DeleteNothing, ReadPruned, SaveAndCommit, Abandon,
            outboxVars, stateVars
      <4> QED
        BY <4>1, <4>2, <4>3 DEF Next, vars, outboxVars, stateVars
    <3> QED
      BY <3>1, <1>a
  <2> QED
    BY <2>1, <2>2
<1> QED
  BY <1>1, <1>2

\* Nothing that happens outside the pruners changes what a pruner's DELETE
\* matches: every cursor given out later is greater than its bound.
LEMMA MatchesStay ==
    ASSUME Inv, [Next]_vars, UNCHANGED retentionVars, prunedThrough' = prunedThrough,
           NEW p \in Pruners, through[p] < nextCursor
    PROVE  Matches(p)' = Matches(p)
<1> USE DEF Inv
<1>a. through' = through /\ through[p] \in Int /\ nextCursor \in Nat
  BY DEF retentionVars, TypeOK, OutboxTypeOK, RetentionTypeOK
<1>1. CASE UNCHANGED <<present, cursor>>
  BY <1>1, <1>a DEF Matches, Assigned
<1>2. ASSUME NEW w \in Writers, present' = present \cup Open(w), UNCHANGED cursor
      PROVE  Matches(p)' = Matches(p)
  BY <1>2, <1>a, CommitEffect DEF Matches
<1>3. ASSUME NEW q \in Assigners, stateLock = q, AssignCommit(q)
      PROVE  Matches(p)' = Matches(p)
  <2>1. /\ Assigned' = Assigned \cup chosen[q]
        /\ \A i \in Assigned : cursor'[i] = cursor[i]
        /\ \A i \in chosen[q] : cursor'[i] \in nextCursor..(nextCursor' - 1)
    BY <1>3, AssignEffect, AssignedAfterAssign
  <2>2. ASSUME NEW i \in chosen[q] PROVE ~(cursor'[i] <= through[p])
    <3>1. cursor'[i] \in Int /\ nextCursor <= cursor'[i]
      BY <2>1, <1>a
    <3> QED
      BY <3>1, <1>a
  <2> QED
    BY <2>1, <2>2, <1>a DEF Matches
<1>4. ASSUME NEW q \in Pruners, SaveAndCommit(q)
      PROVE  FALSE
  <2>1. prunedThrough < prunedThrough'
    BY <1>4, PruneEffect
  <2> QED
    BY <2>1 DEF TypeOK, OutboxTypeOK
<1> QED
  BY <1>1, <1>2, <1>3, <1>4, StepEffects

\* A pruner that has something to delete matches the oldest row there is.
LEMMA MatchesTheOldest ==
    ASSUME TypeOK, WindowIsDense, PruneInv, NEW p \in Pruners,
           prunedThrough < through[p], through[p] < nextCursor
    PROVE  \E i \in Matches(p) : cursor[i] = prunedThrough + 1
<1>1. prunedThrough \in Nat /\ nextCursor \in Nat /\ through[p] \in Int
  BY DEF TypeOK, OutboxTypeOK, RetentionTypeOK
<1>2. prunedThrough + 1 \in Retained
  BY <1>1 DEF WindowIsDense
<1>3. PICK i \in Assigned : cursor[i] = prunedThrough + 1
  BY <1>2 DEF Retained
<1> QED
  BY <1>1, <1>3 DEF Matches

\* One pruner at a time is past its DELETE, and it stays behind the recorded
\* fan-out and below the newest row.
LEMMA PruneStepKeepsInv ==
    ASSUME Inv, NEW p \in Pruners, PruneStep(p)
    PROVE  PruneInv'
<1> USE DEF Inv
<1>a. /\ pruneState \in [Pruners -> PruneStates]
      /\ through \in [Pruners -> Int]
      /\ doomed \in [Pruners -> SUBSET Ids]
      /\ seen \in [Pruners -> Nat]
      /\ nextCursor \in Nat /\ prunedThrough \in Nat /\ broadcastedThrough \in Nat
  BY DEF TypeOK, OutboxTypeOK, RetentionTypeOK
<1>b. ASSUME UNCHANGED outboxVars
      PROVE  /\ UNCHANGED <<nextCursor, prunedThrough, broadcastedThrough>>
             /\ \A q \in Pruners : through'[q] = through[q] => Matches(q)' = Matches(q)
  BY <1>b DEF outboxVars, tableVars, stateVars, Matches, Assigned
\* Steps that delete nothing.
<1>1. ASSUME UNCHANGED outboxVars, NEW state \in {"idle", "limits", "watermark", "delete"},
             pruneState' = [pruneState EXCEPT ![p] = state],
             NEW bound \in Int, through' = [through EXCEPT ![p] = bound],
             doomed'[p] = {}, \A q \in Pruners \ {p} : doomed'[q] = doomed[q],
             \A q \in Pruners \ {p} : seen'[q] = seen[q],
             state # "idle" => bound < nextCursor - 1,
             state = "delete" => bound \in 1..broadcastedThrough
      PROVE  PruneInv'
  BY <1>1, <1>a, <1>b DEF PruneInv, Deleting
<1>2. ASSUME Return(p), UNCHANGED outboxVars PROVE PruneInv'
  <2>1. /\ pruneState' = [pruneState EXCEPT ![p] = "idle"]
        /\ through' = [through EXCEPT ![p] = 0]
        /\ doomed' = [doomed EXCEPT ![p] = {}]
        /\ seen' = [seen EXCEPT ![p] = 0]
    BY <1>2 DEF Return, Continue
  <2> QED
    BY <1>2, <2>1, <1>a, <1>b DEF PruneInv, Deleting
<1>3. CASE ReadNewest(p)
  <2>1. LatestCursor - 1 \in Int /\ LatestCursor - 1 < nextCursor - 1
    BY <1>3, <1>a, LatestIsNewest DEF ReadNewest, PruneInv, TypeOK
  <2>2. doomed[p] = {}
    BY <1>3 DEF ReadNewest, PruneInv, Deleting
  <2> QED
    BY <1>3, <2>1, <2>2, <1>1, <1>a DEF ReadNewest, Continue
<1>4. CASE ReadLimits(p)
  <2>1. PICK cut \in AgeCuts \cup RowLimitCuts :
          through' = [through EXCEPT ![p] = MinOf(@, cut)]
    BY <1>4 DEF ReadLimits
  <2>2. cut \in Int
    <3>1. \A i \in Assigned : cursor[i] \in Int
      BY PresentAreIds DEF Assigned, TypeOK, OutboxTypeOK
    <3> QED
      BY <3>1 DEF AgeCuts, RowLimitCuts, Retained
  <2>3. MinOf(through[p], cut) \in Int /\ MinOf(through[p], cut) <= through[p]
    BY <2>2, <1>a DEF MinOf
  <2>4. through[p] < nextCursor - 1 /\ doomed[p] = {}
    BY <1>4 DEF ReadLimits, PruneInv, Deleting
  <2>5. MinOf(through[p], cut) < nextCursor - 1
    BY <2>3, <2>4, <1>a
  <2>6. through' = [through EXCEPT ![p] = MinOf(through[p], cut)]
    BY <2>1, <1>a
  <2> QED
    BY <1>4, <2>3, <2>4, <2>5, <2>6, <1>1, <1>a DEF ReadLimits, Continue
<1>5. CASE ReadWatermark(p)
  <2> DEFINE bound == MinOf(through[p], broadcastedThrough)
  <2>1. through[p] < nextCursor - 1 /\ doomed[p] = {}
    BY <1>5 DEF ReadWatermark, PruneInv, Deleting
  <2>2. bound \in Int /\ bound < nextCursor - 1 /\ bound \in 1..broadcastedThrough
    BY <1>5, <1>a, <2>1 DEF ReadWatermark, MinOf
  <2>3. through' = [through EXCEPT ![p] = bound]
    BY <1>5, <1>a DEF ReadWatermark
  <2> HIDE DEF bound
  <2> QED
    BY <1>5, <2>1, <2>2, <2>3, <1>1, <1>a DEF ReadWatermark, Continue
<1>6. CASE NothingToPrune(p) \/ DeleteNothing(p) \/ Abandon(p)
  BY <1>6, <1>2 DEF NothingToPrune, DeleteNothing, Abandon
<1>7. CASE DeleteRows(p)
  <2>1. /\ pruneState[p] = "delete" /\ pruneState' = [pruneState EXCEPT ![p] = "record"]
        /\ doomed' = [doomed EXCEPT ![p] = Matches(p)]
        /\ UNCHANGED <<outboxVars, through, seen>>
        /\ Matches(p) # {}
        /\ \A q \in Pruners \ {p} : doomed[q] \cap Matches(p) = {}
    BY <1>7 DEF DeleteRows, Continue
  <2>2. through[p] \in 1..broadcastedThrough /\ through[p] < nextCursor - 1
    BY <2>1 DEF PruneInv
  <2>3. prunedThrough < through[p]
    <3>1. PICK i \in Assigned : cursor[i] <= through[p]
      BY <2>1 DEF Matches
    <3>2. cursor[i] \in (prunedThrough + 1)..(nextCursor - 1)
      BY DEF WindowIsDense, Retained
    <3> QED
      BY <3>1, <3>2, <1>a
  <2>4. ASSUME NEW q \in Pruners \ {p}, Deleting(q)
        PROVE  FALSE
    <3>1. /\ doomed[q] = Matches(q)
          /\ prunedThrough < through[q] /\ through[q] < nextCursor - 1
      BY <2>4 DEF PruneInv, Deleting
    <3>2. PICK i \in Matches(q) : cursor[i] = prunedThrough + 1
      BY <3>1, <1>a, MatchesTheOldest
    <3>3. i \in Matches(p)
      BY <3>2, <2>3, <1>a DEF Matches
    <3> QED
      BY <3>1, <3>2, <3>3, <2>1
  <2>5. /\ \A q \in Pruners : Matches(q)' = Matches(q)
        /\ UNCHANGED <<nextCursor, prunedThrough, broadcastedThrough>>
    BY <2>1, <1>b
  <2> QED
    BY <2>1, <2>2, <2>3, <2>4, <2>5, <1>a DEF PruneInv, Deleting
<1>8. CASE ReadPruned(p)
  <2>1. /\ pruneState[p] = "record" /\ pruneState' = [pruneState EXCEPT ![p] = "save"]
        /\ seen' = [seen EXCEPT ![p] = prunedThrough]
        /\ UNCHANGED <<outboxVars, through, doomed>>
    BY <1>8 DEF ReadPruned, Continue
  <2>2. /\ \A q \in Pruners : Matches(q)' = Matches(q)
        /\ UNCHANGED <<nextCursor, prunedThrough, broadcastedThrough>>
    BY <2>1, <1>b
  <2> QED
    BY <2>1, <2>2, <1>a DEF PruneInv, Deleting
<1>9. CASE SaveAndCommit(p)
  <2>1. /\ prunedThrough' = through[p]
        /\ through[p] < nextCursor - 1 /\ through[p] \in 1..broadcastedThrough
        /\ UNCHANGED <<nextCursor, broadcastedThrough>>
    BY <1>9, PruneEffect
  <2>2. /\ pruneState[p] = "save"
        /\ pruneState' = [pruneState EXCEPT ![p] = "idle"]
        /\ through' = [through EXCEPT ![p] = 0]
        /\ doomed' = [doomed EXCEPT ![p] = {}]
    BY <1>9 DEF SaveAndCommit, Return, Continue
  <2>3. \A q \in Pruners \ {p} : ~Deleting(q)
    BY <2>2 DEF PruneInv, Deleting
  <2> QED
    BY <2>1, <2>2, <2>3, <1>a DEF PruneInv, Deleting
<1> QED
  BY <1>3, <1>4, <1>5, <1>6, <1>7, <1>8, <1>9 DEF PruneStep

\* The same of every step of the pipeline.
LEMMA PruneInvStep ==
    ASSUME Inv, [Next]_vars
    PROVE  PruneInv'
<1> USE DEF Inv
<1>1. CASE RetentionNext
  BY <1>1, PruneStepKeepsInv DEF RetentionNext
<1>2. CASE UNCHANGED retentionVars /\ ~RetentionNext
  <2>1. prunedThrough' = prunedThrough
    BY <1>2, StepEffects, AssignEffect DEF RetentionNext, PruneStep
  <2>2. /\ nextCursor' \in Nat /\ nextCursor <= nextCursor'
        /\ broadcastedThrough' \in Nat /\ broadcastedThrough <= broadcastedThrough'
    BY Watermarks
  <2>3. /\ nextCursor \in Nat /\ prunedThrough \in Nat /\ broadcastedThrough \in Nat
        /\ through \in [Pruners -> Int]
    BY DEF TypeOK, OutboxTypeOK, RetentionTypeOK
  <2>4. UNCHANGED <<pruneState, through, doomed, seen>>
    BY <1>2 DEF retentionVars
  <2>5. prunedThrough' < nextCursor' /\ prunedThrough' <= broadcastedThrough'
    BY <2>1, <2>2, <2>3 DEF PruneInv
  <2>6. ASSUME NEW p \in Pruners
        PROVE  /\ pruneState[p] # "idle" => through[p] < nextCursor' - 1
               /\ pruneState[p] = "delete" \/ Deleting(p) =>
                    through[p] \in 1..broadcastedThrough'
               /\ Deleting(p) => doomed[p] = Matches(p)'
    <3>1. pruneState[p] # "idle" => through[p] < nextCursor - 1
      BY DEF PruneInv
    <3>2. pruneState[p] = "delete" \/ Deleting(p) => through[p] \in 1..broadcastedThrough
      BY DEF PruneInv
    <3>3. ASSUME Deleting(p) PROVE doomed[p] = Matches(p)'
      <4>1. through[p] < nextCursor
        BY <3>1, <3>3, <2>3 DEF Deleting
      <4> QED
        BY <4>1, <3>3, <1>2, <2>1, MatchesStay DEF PruneInv
    <3> QED
      BY <3>1, <3>2, <3>3, <2>2, <2>3
  <2> QED
    BY <2>1, <2>4, <2>5, <2>6 DEF PruneInv, Deleting
<1> QED
  BY <1>1, <1>2 DEF Next, vars

-----------------------------------------------------------------------------
(* Fan-out.                                                                 *)

\* The rows of the batch keep their cursors and stay in the table.
LEMMA BatchStays ==
    ASSUME Inv, [Next]_vars
    PROVE  \A i \in batch : i \in Assigned' /\ cursor'[i] = cursor[i]
<1> USE DEF Inv
<1>a. /\ batch \subseteq Assigned
      /\ \A i \in batch : cursor[i] > broadcastedThrough
      /\ broadcastedThrough \in Nat
      /\ \A i \in Assigned : cursor[i] \in Nat
  BY PresentAreIds DEF FanoutInv, PendingBroadcast, Assigned, TypeOK, OutboxTypeOK
<1>1. CASE UNCHANGED <<present, cursor>>
  BY <1>1, <1>a DEF Assigned
<1>2. ASSUME NEW w \in Writers, present' = present \cup Open(w), UNCHANGED cursor
      PROVE  \A i \in batch : i \in Assigned' /\ cursor'[i] = cursor[i]
  BY <1>2, <1>a, CommitEffect
<1>3. ASSUME NEW p \in Assigners, stateLock = p, AssignCommit(p)
      PROVE  \A i \in batch : i \in Assigned' /\ cursor'[i] = cursor[i]
  BY <1>3, <1>a, AssignedAfterAssign
<1>4. ASSUME NEW p \in Pruners, SaveAndCommit(p)
      PROVE  \A i \in batch : i \in Assigned' /\ cursor'[i] = cursor[i]
  <2>1. /\ Assigned' = {i \in Assigned : cursor[i] > through[p]}
        /\ cursor' = cursor /\ through[p] \in 1..broadcastedThrough
    BY <1>4, PruneEffect
  <2> QED
    BY <2>1, <1>a
<1> QED
  BY <1>1, <1>2, <1>3, <1>4, StepEffects

\* The row the loop has come to is the one after the watermark.
LEMMA FrontIsNext ==
    ASSUME TypeOK, FanoutInv, NEW i \in Front
    PROVE  cursor[i] = broadcastedThrough + 1
<1>1. i \in batch /\ cursor[i] \in Nat /\ broadcastedThrough \in Nat
      /\ cursor[i] > broadcastedThrough
  BY DEF Front, FanoutInv, PendingBroadcast, TypeOK, OutboxTypeOK, ListenerTypeOK
<1>2. broadcastedThrough + 1 \in (broadcastedThrough + 1)..cursor[i]
  BY <1>1
<1>3. PICK j \in batch : cursor[j] = broadcastedThrough + 1
  BY <1>1, <1>2 DEF FanoutInv
<1>4. cursor[i] <= cursor[j]
  BY <1>3 DEF Front
<1> QED
  BY <1>1, <1>3, <1>4

\* What the listener reads is the stretch of cursors after the watermark.
LEMMA ReadIsNextStretch ==
    ASSUME Inv, PendingBroadcast # {}
    PROVE  LET read == Earliest(PendingBroadcast, BatchSize)
           IN  /\ read # {}
               /\ read \subseteq PendingBroadcast
               /\ \A i \in read : \A c \in (broadcastedThrough + 1)..cursor[i] :
                    \E j \in read : cursor[j] = c
<1> USE DEF Inv
<1> DEFINE read == Earliest(PendingBroadcast, BatchSize)
<1>a. /\ cursor \in [Ids -> Nat]
      /\ nextCursor \in Nat /\ prunedThrough \in Nat /\ broadcastedThrough \in Nat
      /\ prunedThrough <= broadcastedThrough
      /\ PendingBroadcast \in SUBSET Ids
  BY PresentAreIds DEF TypeOK, OutboxTypeOK, PruneInv, PendingBroadcast, Assigned
<1>1. /\ read \subseteq PendingBroadcast
      /\ \A i \in read, j \in PendingBroadcast : cursor[j] < cursor[i] => j \in read
  BY <1>a, BatchSizeIsPositive, EarliestIsDownwardClosed
<1>2. ASSUME NEW i \in PendingBroadcast, NEW c \in (broadcastedThrough + 1)..cursor[i]
      PROVE  \E j \in PendingBroadcast : cursor[j] = c
  <2>1. i \in Assigned /\ cursor[i] \in Nat
    BY <1>a DEF PendingBroadcast
  <2>2. cursor[i] \in Retained
    BY <2>1 DEF Retained
  <2>3. c \in Int /\ c > broadcastedThrough /\ c <= cursor[i] /\ cursor[i] <= nextCursor - 1
    BY <2>1, <2>2, <1>a DEF WindowIsDense
  <2>4. c \in Retained
    BY <2>3, <1>a DEF WindowIsDense
  <2>5. PICK j \in Assigned : cursor[j] = c
    BY <2>4 DEF Retained
  <2> QED
    BY <2>3, <2>5 DEF PendingBroadcast
<1>3. read # {}
  <2>1. PICK i \in PendingBroadcast : TRUE
    OBVIOUS
  <2>2. cursor[i] \in Nat /\ cursor[i] > broadcastedThrough
    BY <1>a DEF PendingBroadcast
  <2>3. PICK j \in PendingBroadcast : cursor[j] = broadcastedThrough + 1
    BY <1>2, <2>2, <1>a
  <2>4. \A h \in PendingBroadcast : ~(cursor[h] < cursor[j])
    <3>1. \A h \in PendingBroadcast : cursor[h] \in Nat /\ cursor[h] > broadcastedThrough
      BY <1>a DEF PendingBroadcast
    <3> QED
      BY <2>3, <3>1, <1>a
  <2>5. {h \in PendingBroadcast : cursor[h] < cursor[j]} = {}
    BY <2>4
  <2>6. j \in read
    BY <2>5, FS_EmptySet, BatchSizeIsPositive DEF Earliest
  <2> QED
    BY <2>6
<1>4. ASSUME NEW i \in read, NEW c \in (broadcastedThrough + 1)..cursor[i]
      PROVE  \E j \in read : cursor[j] = c
  <2>1. PICK j \in PendingBroadcast : cursor[j] = c
    BY <1>1, <1>2
  <2>2. c \in Int /\ cursor[i] \in Nat /\ c <= cursor[i]
    BY <1>1, <1>a
  <2>3. CASE c = cursor[i]
    BY <2>3
  <2>4. CASE c < cursor[i]
    BY <1>1, <2>1, <2>4
  <2> QED
    BY <2>2, <2>3, <2>4
<1> QED
  BY <1>1, <1>3, <1>4

\* Every step keeps the batch the next stretch of cursors, and the recorded
\* watermark behind what was handed over.
LEMMA FanoutStep ==
    ASSUME Inv, [Next]_vars
    PROVE  FanoutInv'
<1> USE DEF Inv
<1>a. /\ cursor \in [Ids -> Nat]
      /\ nextCursor \in Nat /\ broadcastedThrough \in Nat
      /\ broadcastedThrough < nextCursor
      /\ fanned \subseteq Nat /\ batch \subseteq Ids
      /\ 1..broadcastedThrough \subseteq fanned
  BY DEF TypeOK, OutboxTypeOK, ListenerTypeOK, FanoutInv
<1>b. nextCursor' \in Nat /\ nextCursor <= nextCursor'
  BY Watermarks
<1>c. \A i \in batch : i \in Assigned' /\ cursor'[i] = cursor[i]
  BY BatchStays
\* Steps that leave the batch, or have none.
<1>1. CASE UNCHANGED <<listenerVars, broadcastedThrough>>
  <2>1. Front' = Front
    BY <1>1, <1>c DEF Front, listenerVars
  <2>2. \A i \in Front : cursor'[i] = cursor[i]
    BY <1>c DEF Front
  <2>3. batch' \subseteq PendingBroadcast'
    BY <1>1, <1>c DEF FanoutInv, PendingBroadcast, listenerVars
  <2>4. \A i \in batch : \A c \in (broadcastedThrough + 1)..cursor'[i] :
          \E j \in batch : cursor'[j] = c
    BY <1>c DEF FanoutInv
  <2> QED
    BY <1>1, <1>a, <1>b, <2>1, <2>2, <2>3, <2>4 DEF FanoutInv, listenerVars
<1>2. ASSUME batch' = {}, lpc' \notin {"send", "record"},
             UNCHANGED <<fanned, broadcastedThrough>>
      PROVE  FanoutInv'
  BY <1>2, <1>a, <1>b DEF FanoutInv
<1>3. CASE CaptureNext /\ UNCHANGED listenerVars
  <2>1. broadcastedThrough' = broadcastedThrough
    BY <1>3
    DEF CaptureNext, CaptureStep, BeginAtomic, TriggerCapture, CreateInAtomic, InsertRow,
        Enqueue, Commit, Rollback, BeginCreate, RunHook, CreateRow, CommitCreate,
        WriterAssignBegin, AssignBegin, WriterAssignNothing, AssignNothing,
        WriterAssignCommit, AssignCommit, RefreshRow, NotifyRow, NotifyDone, RefreshFails,
        WriterDies, outboxVars,
        stateVars
  <2> QED
    BY <1>1, <1>3, <2>1
<1>4. CASE RetentionNext /\ UNCHANGED listenerVars
  <2>1. broadcastedThrough' = broadcastedThrough
    BY <1>4
    DEF RetentionNext, PruneStep, ReadNewest, ReadLimits, ReadWatermark, NothingToPrune,
        DeleteRows, DeleteNothing, ReadPruned, SaveAndCommit, Abandon, outboxVars,
        stateVars
  <2> QED
    BY <1>1, <1>4, <2>1
<1>5. CASE ListenerNext
  <2>1. CASE Connect \/ DrainAssignBegin \/ DrainAssignNothing \/ DrainAssignCommit
             \/ DrainDone \/ Wakeup \/ Fail
    BY <2>1, <1>2
    DEF Connect, DrainAssignBegin, AssignBegin, DrainAssignNothing, AssignNothing,
        DrainAssignCommit, AssignCommit, DrainDone, Wakeup, Fail, FanoutInv, outboxVars,
        stateVars
  <2>2. CASE DrainRead
    <3>1. /\ batch' = Earliest(PendingBroadcast, BatchSize) /\ lpc' = "send"
          /\ UNCHANGED <<present, cursor, nextCursor, broadcastedThrough, fanned>>
      BY <2>2 DEF DrainRead, outboxVars, tableVars, stateVars
    <3>2. /\ batch' # {} /\ batch' \subseteq PendingBroadcast
          /\ \A i \in batch' : \A c \in (broadcastedThrough + 1)..cursor[i] :
               \E j \in batch' : cursor[j] = c
      BY <2>2, <3>1, ReadIsNextStretch DEF DrainRead
    <3>3. PendingBroadcast' = PendingBroadcast
      BY <3>1 DEF PendingBroadcast, Assigned
    <3> QED
      BY <3>1, <3>2, <3>3, <1>a DEF FanoutInv
  <2>3. CASE Broadcast
    <3>1. /\ lpc = "send" /\ lpc' = "record"
          /\ UNCHANGED <<present, cursor, nextCursor, broadcastedThrough, batch>>
      BY <2>3 DEF Broadcast, outboxVars, tableVars, stateVars
    <3>2. PICK i \in Front : fanned' = fanned \cup {cursor[i]}
      BY <2>3 DEF Broadcast
    <3>3. Front' = Front /\ PendingBroadcast' = PendingBroadcast
      BY <3>1 DEF Front, PendingBroadcast, Assigned
    <3>4. \A j \in Front : cursor[j] = broadcastedThrough + 1
      BY FrontIsNext
    <3> QED
      BY <3>1, <3>2, <3>3, <3>4, <1>a DEF FanoutInv
  <2>4. CASE RecordBroadcast
    <3>1. PICK i \in Front :
            /\ broadcastedThrough' = IF cursor[i] > broadcastedThrough
                                     THEN cursor[i] ELSE broadcastedThrough
            /\ batch' = batch \ {i}
            /\ lpc' = IF batch = {i} THEN "assign" ELSE "send"
      BY <2>4 DEF RecordBroadcast
    <3>2. lpc = "record" /\ UNCHANGED <<present, cursor, nextCursor, fanned>>
      BY <2>4 DEF RecordBroadcast, tableVars
    <3>3. cursor[i] = broadcastedThrough + 1 /\ i \in batch
      BY FrontIsNext DEF Front
    <3>4. broadcastedThrough' = broadcastedThrough + 1
      BY <3>1, <3>3, <1>a
    <3>5. cursor[i] \in fanned
      BY <3>2 DEF FanoutInv
    <3>6. 1..broadcastedThrough' \subseteq fanned
      BY <3>3, <3>4, <3>5, <1>a
    <3>7. batch \subseteq Assigned /\ \A j \in batch : cursor[j] > broadcastedThrough
      BY DEF FanoutInv, PendingBroadcast
    <3>8. \A j \in batch \ {i} : cursor[j] \in Nat /\ cursor[j] > broadcastedThrough + 1
      <4>1. ASSUME NEW j \in batch \ {i} PROVE cursor[j] # cursor[i]
        BY <3>3, <3>7 DEF WindowIsDense
      <4> QED
        BY <4>1, <3>3, <3>7, <1>a
    <3>9. batch' \subseteq PendingBroadcast'
      BY <3>1, <3>2, <3>4, <3>7, <3>8 DEF PendingBroadcast, Assigned
    <3>10. ASSUME NEW j \in batch', NEW c \in (broadcastedThrough' + 1)..cursor'[j]
           PROVE  \E k \in batch' : cursor'[k] = c
      <4>1. j \in batch /\ cursor[j] \in Nat
        BY <3>1, <1>a
      <4>2. c \in (broadcastedThrough + 1)..cursor[j] /\ c # broadcastedThrough + 1
        BY <3>2, <3>4, <4>1, <1>a
      <4>3. PICK k \in batch : cursor[k] = c
        BY <4>1, <4>2 DEF FanoutInv
      <4> QED
        BY <3>1, <3>2, <3>3, <4>2, <4>3
    <3>11. broadcastedThrough + 1 < nextCursor
      <4>1. cursor[i] \in Retained
        BY <3>3, <3>7 DEF Retained
      <4>2. prunedThrough \in Nat
        BY DEF TypeOK, OutboxTypeOK
      <4> QED
        BY <3>3, <4>1, <4>2, <1>a DEF WindowIsDense
    <3> QED
      BY <3>1, <3>2, <3>3, <3>4, <3>6, <3>9, <3>10, <3>11 DEF FanoutInv
  <2> QED
    BY <1>5, <2>1, <2>2, <2>3, <2>4 DEF ListenerNext, Drain
<1>6. CASE UNCHANGED vars
  BY <1>6, <1>1 DEF vars, outboxVars, stateVars
<1> QED
  BY <1>3, <1>4, <1>5, <1>6 DEF Next

-----------------------------------------------------------------------------
(* The log.                                                                 *)

\* A step hands over a row, records one, or leaves both alone.
LEMMA FanoutEffects ==
    ASSUME Inv, [Next]_vars
    PROVE  \/ UNCHANGED <<fanned, broadcastedThrough>>
           \/ Broadcast
           \/ RecordBroadcast
<1>1. CASE CaptureNext /\ UNCHANGED listenerVars
  BY <1>1
  DEF CaptureNext, CaptureStep, BeginAtomic, TriggerCapture, CreateInAtomic, InsertRow,
      Enqueue, Commit, Rollback, BeginCreate, RunHook, CreateRow, CommitCreate,
      WriterAssignBegin, AssignBegin, WriterAssignNothing, AssignNothing,
      WriterAssignCommit, AssignCommit, RefreshRow, NotifyRow, NotifyDone, RefreshFails,
      WriterDies, outboxVars,
      stateVars, listenerVars
<1>2. CASE ListenerNext
  BY <1>2
  DEF ListenerNext, Drain, Connect, DrainAssignBegin, AssignBegin, DrainAssignNothing,
      AssignNothing, DrainAssignCommit, AssignCommit, DrainRead, DrainDone, Wakeup, Fail,
      outboxVars, stateVars
<1>3. CASE RetentionNext /\ UNCHANGED listenerVars
  BY <1>3
  DEF RetentionNext, PruneStep, ReadNewest, ReadLimits, ReadWatermark, NothingToPrune,
      DeleteRows, DeleteNothing, ReadPruned, SaveAndCommit, Abandon, outboxVars,
      stateVars, listenerVars
<1> QED
  BY <1>1, <1>2, <1>3 DEF Next, vars, outboxVars, stateVars, listenerVars

\* A listener step that hands over or records leaves the rows alone.
LEMMA FanoutKeepsTable ==
    ASSUME Broadcast \/ RecordBroadcast
    PROVE  UNCHANGED <<present, cursor, nextCursor, prunedThrough>>
BY DEF Broadcast, RecordBroadcast, outboxVars, tableVars, stateVars

\* What is not in the first part of a stretch is in the second.
LEMMA SecondPart ==
    ASSUME NEW first \in Nat, NEW end \in Nat, NEW c \in 1..(end - 1), first <= c
    PROVE  c \in first..(end - 1)
OBVIOUS

\* The numbering of the rows stays without gap and repetition.
LEMMA NumberingStep ==
    ASSUME Inv, [Next]_vars
    PROVE  /\ \A i \in Ids : cursor'[i] < nextCursor'
           /\ \A i, j \in Ids : cursor'[i] = cursor'[j] /\ cursor'[i] > 0 => i = j
           /\ \A c \in 1..(nextCursor' - 1) : \E i \in Ids : cursor'[i] = c
<1>a. /\ cursor \in [Ids -> Nat] /\ nextCursor \in Nat
      /\ \A i \in Ids : cursor[i] < nextCursor
      /\ \A i, j \in Ids : cursor[i] = cursor[j] /\ cursor[i] > 0 => i = j
      /\ \A c \in 1..(nextCursor - 1) : \E i \in Ids : cursor[i] = c
  BY DEF Inv, LogInv, TypeOK, OutboxTypeOK
<1>1. CASE UNCHANGED <<cursor, nextCursor>>
  BY <1>1, <1>a
<1>2. ASSUME NEW p \in Assigners, stateLock = p, AssignCommit(p)
      PROVE  /\ \A i \in Ids : cursor'[i] < nextCursor'
             /\ \A i, j \in Ids : cursor'[i] = cursor'[j] /\ cursor'[i] > 0 => i = j
             /\ \A c \in 1..(nextCursor' - 1) : \E i \in Ids : cursor'[i] = c
  <2>1. /\ nextCursor' \in Nat /\ nextCursor <= nextCursor'
        /\ chosen[p] \subseteq Ids
        /\ \A i \in Ids \ chosen[p] : cursor'[i] = cursor[i]
        /\ \A i \in chosen[p] : cursor'[i] \in nextCursor..(nextCursor' - 1)
        /\ \A i, j \in chosen[p] : cursor'[i] = cursor'[j] => i = j
        /\ \A c \in nextCursor..(nextCursor' - 1) : \E i \in chosen[p] : cursor'[i] = c
        /\ \A i \in chosen[p] : cursor[i] = 0
    BY <1>2, AssignEffect, PresentAreIds DEF Inv, TypeOK, Unassigned
  <2>2. \A i \in chosen[p] : cursor'[i] \in Int /\ nextCursor <= cursor'[i]
                             /\ cursor'[i] < nextCursor'
    BY <2>1, <1>a
  <2>3. ASSUME NEW c \in 1..(nextCursor' - 1) PROVE \E i \in Ids : cursor'[i] = c
    <3>1. CASE c < nextCursor
      <4>1. c \in 1..(nextCursor - 1)
        BY <3>1, <1>a, <2>1
      <4>2. PICK i \in Ids : cursor[i] = c
        BY <4>1, <1>a
      <4> QED
        BY <4>2, <2>1
    <3>2. CASE nextCursor <= c
      <4>1. c \in nextCursor..(nextCursor' - 1)
        <5>1. nextCursor \in Nat /\ nextCursor' \in Nat
          BY <2>1, <1>a
        <5> QED
          BY <5>1, <3>2, SecondPart
      <4>2. PICK i \in chosen[p] : cursor'[i] = c
        BY <4>1, <2>1
      <4> QED
        BY <4>2, <2>1
    <3> QED
      BY <3>1, <3>2, <1>a
  <2>4. \A i \in Ids : cursor'[i] < nextCursor'
    BY <2>1, <2>2, <1>a
  <2>5. \A i, j \in Ids : cursor'[i] = cursor'[j] /\ cursor'[i] > 0 => i = j
    BY <2>1, <2>2, <1>a
  <2> QED
    BY <2>3, <2>4, <2>5
<1>3. ASSUME NEW p \in Pruners, SaveAndCommit(p)
      PROVE  UNCHANGED <<cursor, nextCursor>>
  BY <1>3 DEF SaveAndCommit
<1> QED
  BY <1>1, <1>2, <1>3, StepEffects

\* What was handed over stays a first stretch of the cursors.
LEMMA LogStep ==
    ASSUME Inv, [Next]_vars
    PROVE  LogInv'
<1>a. /\ nextCursor \in Nat /\ broadcastedThrough \in Nat
      /\ nextCursor' \in Nat /\ nextCursor <= nextCursor'
  BY Watermarks DEF Inv, TypeOK, OutboxTypeOK
<1>b. PICK n \in {broadcastedThrough, broadcastedThrough + 1} :
        n < nextCursor /\ fanned = 1..n
  BY DEF Inv, LogInv
<1> SUFFICES \E m \in {broadcastedThrough', broadcastedThrough' + 1} :
               m < nextCursor' /\ fanned' = 1..m
  BY NumberingStep DEF LogInv
<1>1. CASE UNCHANGED <<fanned, broadcastedThrough>>
  BY <1>1, <1>a, <1>b
<1>2. ASSUME NEW i \in Front
      PROVE  cursor[i] = broadcastedThrough + 1 /\ cursor[i] < nextCursor
  BY <1>2, FrontIsNext DEF Inv, Front, TypeOK, ListenerTypeOK, LogInv
<1>3. CASE Broadcast
  <2>1. PICK i \in Front : fanned' = fanned \cup {cursor[i]}
    BY <1>3 DEF Broadcast
  <2>2. broadcastedThrough' = broadcastedThrough /\ nextCursor' = nextCursor
    BY <1>3 DEF Broadcast, outboxVars, stateVars
  <2>3. fanned' = 1..(broadcastedThrough + 1)
    BY <2>1, <1>2, <1>a, <1>b
  <2> QED
    BY <2>1, <2>2, <2>3, <1>2
<1>4. CASE RecordBroadcast
  <2>1. PICK i \in Front : broadcastedThrough' = IF cursor[i] > broadcastedThrough
                                                 THEN cursor[i] ELSE broadcastedThrough
    BY <1>4 DEF RecordBroadcast
  <2>2. broadcastedThrough' = broadcastedThrough + 1
    BY <2>1, <1>2, <1>a
  <2>3. fanned' = fanned /\ nextCursor' = nextCursor
    BY <1>4 DEF RecordBroadcast
  <2>4. broadcastedThrough + 1 \in fanned
    BY <1>4, <1>2, <2>1 DEF RecordBroadcast, Inv, FanoutInv
  <2>5. n = broadcastedThrough + 1
    BY <2>4, <1>a, <1>b
  <2> QED
    BY <2>2, <2>3, <2>5, <1>b
<1> QED
  BY <1>1, <1>3, <1>4, FanoutEffects

-----------------------------------------------------------------------------
(* The invariant.                                                           *)

\* The empty outbox, before any session runs, satisfies the invariant.
LEMMA InitInv ==
    ASSUME Init
    PROVE  Inv
<1> USE DEF Init, OutboxInit, CaptureInit, ListenerInit, RetentionInit
<1>1. TypeOK
  <2>1. OutboxTypeOK
    <3>1. /\ lastId \in 0..MaxRows /\ nextCursor \in Nat \ {0}
          /\ prunedThrough \in Nat /\ broadcastedThrough \in Nat
      BY MaxRowsIsNat
    <3>2. /\ origin \in [Ids -> Objects \cup {Unlocked}] /\ cursor \in [Ids -> Nat]
          /\ chosen \in [Assigners -> SUBSET Ids] /\ startAt \in [Assigners -> Nat]
      OBVIOUS
    <3> QED
      BY <3>1, <3>2 DEF OutboxTypeOK
  <2>2. CaptureTypeOK
    BY DEF CaptureTypeOK, TxStates
  <2>3. ListenerTypeOK /\ RetentionTypeOK
    BY DEF ListenerTypeOK, RetentionTypeOK, PruneStates
  <2> QED
    BY <2>1, <2>2, <2>3 DEF TypeOK
<1>2. Assigned = {} /\ Unassigned = {} /\ Retained = {}
  BY DEF Assigned, Unassigned, Retained
<1>3. TxInv /\ OrderInv
  BY DEF TxInv, OrderInv, Open
<1>4. LockInv
  BY NamesAreApart DEF LockInv, Assigners
<1>5. WindowIsDense /\ ObjectOrder
  BY <1>2 DEF WindowIsDense, ObjectOrder
<1>6. PruneInv
  BY DEF PruneInv, Deleting
<1>7. FanoutInv
  BY DEF FanoutInv
<1>8. LogInv
  <2>1. fanned = 1..broadcastedThrough /\ broadcastedThrough < nextCursor
    OBVIOUS
  <2> QED
    BY <2>1 DEF LogInv
<1> QED
  BY <1>1, <1>3, <1>4, <1>5, <1>6, <1>7, <1>8 DEF Inv

\* The invariant holds in every reachable state of the pipeline.
THEOREM InvIsInvariant == Spec => []Inv
<1>1. Inv /\ [Next]_vars => Inv'
  BY TypeStep, TxStep, LockStep, WindowStep, OrderStep, ObjectOrderStep, PruneInvStep,
     FanoutStep, LogStep DEF Inv
<1> QED
  BY InitInv, <1>1, PTL DEF Spec

\* The variables of every session, the tables and the watermarks keep the
\* values the code gives them.
THEOREM TypesAreCorrect == Spec => []TypeOK
<1>1. Inv => TypeOK
  BY DEF Inv
<1> QED
  BY <1>1, InvIsInvariant, PTL

\* Concurrent assign_outbox_cursors and prune_outbox never lose a cursor or
\* give one out twice: between the two watermarks every cursor has its row.
THEOREM CursorsAreDense == Spec => []WindowIsDense
<1>1. Inv => WindowIsDense
  BY DEF Inv
<1> QED
  BY <1>1, InvIsInvariant, PTL

\* Retention never overtakes the listener, and the listener never records what
\* it has not handed to the channel layer, even when it fails in between.
THEOREM PruningFollowsFanout == Spec => []PrunedWasBroadcast
<1>1. Inv => PrunedWasBroadcast
  BY DEF Inv, PruneInv, FanoutInv, PrunedWasBroadcast
<1> QED
  BY <1>1, InvIsInvariant, PTL

\* No row the listener has read and not sent is deleted under it.
THEOREM BatchIsSafe == Spec => []BatchIsRetained
<1>1. Inv => BatchIsRetained
  BY DEF Inv, FanoutInv, PendingBroadcast, BatchIsRetained
<1> QED
  BY <1>1, InvIsInvariant, PTL

\* Two captured writes of one object get their cursors in the order of the
\* writes, however their transactions interleave with the assigners.
THEOREM ObjectEventsKeepOrder == Spec => []ObjectOrder
<1>1. Inv => ObjectOrder
  BY DEF Inv
<1> QED
  BY <1>1, InvIsInvariant, PTL

-----------------------------------------------------------------------------
(* What a step may not do.                                                  *)

\* Of two stretches of integers, the later starting and ending no earlier, what
\* is only in the later lies past the earlier; and the later is not empty when
\* it starts where the earlier did or before that one's end.
LEMMA Stretches ==
    ASSUME NEW lo \in Nat, NEW end \in Nat, NEW lo1 \in Nat, NEW end1 \in Nat,
           lo <= lo1, end <= end1
    PROVE  /\ \A c \in (lo1 + 1)..(end1 - 1) :
                c \notin (lo + 1)..(end - 1) => c \in Int /\ c > end - 1
           /\ lo1 = lo \/ lo1 < end - 1 => (lo < end - 1 => lo1 < end1 - 1)
           /\ end - 1 \in Int /\ end1 - 1 \in Int /\ end - 1 <= end1 - 1
           /\ end # 0 => end - 1 >= 0 /\ end1 - 1 >= 0
OBVIOUS

\* A new cursor is greater than every one in the table.
LEMMA NewCursorsAreLast ==
    ASSUME Inv, [Next]_vars, NEW c \in Retained' \ Retained
    PROVE  c > LatestCursor
<1>1. nextCursor \in Nat /\ prunedThrough \in Nat
  BY DEF Inv, TypeOK, OutboxTypeOK
<1>2. /\ nextCursor' \in Nat /\ prunedThrough' \in Nat
      /\ prunedThrough <= prunedThrough' /\ nextCursor <= nextCursor'
  BY Watermarks, TypeStep DEF TypeOK, OutboxTypeOK
<1>3. c \in (prunedThrough' + 1)..(nextCursor' - 1)
  BY WindowStep DEF WindowIsDense
<1>4. c \notin (prunedThrough + 1)..(nextCursor - 1)
  BY DEF Inv, WindowIsDense
<1>5. c \in Int /\ c > nextCursor - 1
  BY <1>1, <1>2, <1>3, <1>4, Stretches
<1>6. LatestCursor \in Nat /\ LatestCursor <= nextCursor - 1
  BY LatestIsNewest DEF Inv, TypeOK, PruneInv
<1> QED
  BY <1>1, <1>5, <1>6

\* A cursor that appears in the table is past every cursor a client can have
\* read there, so a client that resumes after what it read has missed nothing.
THEOREM CursorsAppearLast == Spec => CursorsAppearInOrder
<1>1. Inv /\ [Next]_vars => \A c \in Retained' \ Retained : c > LatestCursor
  BY NewCursorsAreLast
<1> QED
  BY <1>1, InvIsInvariant, PTL DEF Spec, CursorsAppearInOrder

\* The latest cursor never falls.
LEMMA LatestStep ==
    ASSUME Inv, [Next]_vars
    PROVE  LatestCursor' >= LatestCursor
<1>1. /\ nextCursor \in Nat \ {0} /\ prunedThrough \in Nat
      /\ Retained = (prunedThrough + 1)..(nextCursor - 1)
  BY DEF Inv, TypeOK, OutboxTypeOK, WindowIsDense
<1>2. /\ nextCursor' \in Nat \ {0} /\ prunedThrough' \in Nat
      /\ Retained' = (prunedThrough' + 1)..(nextCursor' - 1)
  BY TypeStep, WindowStep DEF TypeOK, OutboxTypeOK, WindowIsDense
<1>3. nextCursor <= nextCursor' /\ prunedThrough <= prunedThrough'
  BY Watermarks
<1>4. prunedThrough' = prunedThrough \/ prunedThrough' < nextCursor - 1
  BY StepEffects, AssignEffect, PruneEffect DEF Inv
<1>5. prunedThrough < nextCursor - 1 => prunedThrough' < nextCursor' - 1
  BY <1>1, <1>2, <1>3, <1>4, Stretches
<1> DEFINE last == nextCursor - 1
           last1 == nextCursor' - 1
<1>6. /\ last \in Int /\ last1 \in Int
      /\ last <= last1 /\ last >= 0 /\ last1 >= 0
  BY <1>1, <1>2, <1>3, Stretches
<1> QED
  BY <1>1, <1>2, <1>5, <1>6, LatestRises

\* The latest cursor a new client starts from, and the two watermarks, never
\* go back, whichever prune_outbox calls overlap.
THEOREM WatermarksNeverFall == Spec => WatermarksOnlyRise
<1>1. Inv /\ [Next]_vars => /\ LatestCursor' >= LatestCursor
                            /\ prunedThrough' >= prunedThrough
                            /\ broadcastedThrough' >= broadcastedThrough
  BY LatestStep, Watermarks
<1> QED
  BY <1>1, InvIsInvariant, PTL DEF Spec, WatermarksOnlyRise

\* The cursor handed out first now is the one after the watermark.
LEMMA FanoutIsNext ==
    ASSUME Inv, [Next]_vars, NEW c \in fanned' \ fanned
    PROVE  1..(c - 1) \subseteq fanned
<1> USE DEF Inv
<1>1. Broadcast
  BY DEF Next, vars, ListenerNext, Drain, Connect, DrainAssignBegin,
      DrainAssignNothing, DrainAssignCommit, DrainRead, DrainDone, RecordBroadcast,
      Wakeup, Fail, listenerVars
<1>2. PICK i \in Front : c = cursor[i]
  BY <1>1 DEF Broadcast
<1>3. c = broadcastedThrough + 1 /\ broadcastedThrough \in Nat
  BY <1>2, FrontIsNext DEF TypeOK, OutboxTypeOK
<1> QED
  BY <1>3 DEF FanoutInv

\* The listener first hands out a cursor when it has handed out all before it,
\* however often it failed and started again.
THEOREM FanoutIsInOrder == Spec => FanoutHasNoGap
<1>1. Inv /\ [Next]_vars => \A c \in fanned' \ fanned : 1..(c - 1) \subseteq fanned
  BY FanoutIsNext
<1> QED
  BY <1>1, InvIsInvariant, PTL DEF Spec, FanoutHasNoGap

-----------------------------------------------------------------------------
(* The log is the numbering read backwards.                                 *)

\* Position c of the log holds the row with cursor c.
Numbered ==
    /\ LogOfCursors \in Seq(Ids)
    /\ Len(LogOfCursors) = nextCursor - 1
    /\ \A c \in 1..(nextCursor - 1) : LogOfCursors[c] \in Ids /\ cursor[LogOfCursors[c]] = c
    /\ \A i \in Ids : cursor[i] > 0 => LogOfCursors[cursor[i]] = i

\* Of a stretch that starts at 1 the end is the only one.
LEMMA EndOfStretch ==
    ASSUME NEW m \in Nat, NEW n \in Nat, 1..m = 1..n
    PROVE  m = n
<1>1. ASSUME NEW a \in Nat, NEW b \in Nat, a < b PROVE 1..a # 1..b
  <2>1. b \in 1..b /\ b \notin 1..a
    BY <1>1
  <2> QED
    BY <2>1
<1> QED
  BY <1>1

\* It is also how many there are.
LEMMA SizeOfStretch ==
    ASSUME NEW n \in Nat
    PROVE  Cardinality(1..n) = n
<1>1. Cardinality(1..n) = IF 1 > n THEN 0 ELSE n - 1 + 1
  BY FS_Interval
<1> QED
  BY <1>1

\* How many rows are new, and how many were there.
LEMMA NewAndOld ==
    ASSUME NEW m \in Nat \ {0}, NEW m1 \in Nat, m <= m1
    PROVE  /\ m - 1 \in Nat /\ m1 - m \in Nat
           /\ m1 - 1 = (m - 1) + (m1 - m) /\ m = (m - 1) + 1
OBVIOUS

\* The invariant makes the log a sequence of rows.
LEMMA LogIsNumbering == Inv => Numbered
<1> SUFFICES ASSUME Inv PROVE Numbered
  OBVIOUS
<1> DEFINE n == nextCursor - 1
<1>1. n \in Nat /\ cursor \in [Ids -> Nat]
  BY DEF Inv, TypeOK, OutboxTypeOK
<1>2. \A c \in 1..n : \E i \in Ids : cursor[i] = c
  BY DEF Inv, LogInv
<1>3. \A c \in 1..n : /\ (CHOOSE i \in Ids : cursor[i] = c) \in Ids
                      /\ cursor[CHOOSE i \in Ids : cursor[i] = c] = c
  BY <1>2
<1>4. \A i \in Ids : cursor[i] > 0 => cursor[i] \in 1..n
  BY <1>1 DEF Inv, LogInv, TypeOK, OutboxTypeOK
<1>5. LogOfCursors = [c \in 1..n |-> CHOOSE i \in Ids : cursor[i] = c]
  BY DEF LogOfCursors
<1>6. \A c \in 1..n : LogOfCursors[c] \in Ids /\ cursor[LogOfCursors[c]] = c
  BY <1>3, <1>5
<1>7. LogOfCursors \in [1..n -> Ids]
  BY <1>3, <1>5
<1> HIDE DEF n
<1>8. LogOfCursors \in Seq(Ids) /\ Len(LogOfCursors) = n
  <2>1. LogOfCursors \in Seq(Ids)
    BY <1>1, <1>7
  <2>2. Len(LogOfCursors) \in Nat /\ DOMAIN LogOfCursors = 1..Len(LogOfCursors)
    BY <2>1, LenProperties
  <2>3. DOMAIN LogOfCursors = 1..n
    BY <1>7
  <2> QED
    BY <1>1, <2>1, <2>2, <2>3, EndOfStretch
<1>9. \A i \in Ids : cursor[i] > 0 => LogOfCursors[cursor[i]] = i
  <2> SUFFICES ASSUME NEW i \in Ids, cursor[i] > 0 PROVE LogOfCursors[cursor[i]] = i
    OBVIOUS
  <2>1. LogOfCursors[cursor[i]] \in Ids /\ cursor[LogOfCursors[cursor[i]]] = cursor[i]
    BY <1>4, <1>6
  <2> QED
    BY <2>1 DEF Inv, LogInv
<1> QED
  BY <1>6, <1>8, <1>9 DEF n, Numbered

\* The rows in the log are the ones that have a cursor.
LEMMA LoggedHaveCursors ==
    ASSUME Inv
    PROVE  Abstract!Logged = {i \in Ids : cursor[i] > 0}
<1>1. cursor \in [Ids -> Nat] /\ nextCursor \in Nat
  BY DEF Inv, TypeOK, OutboxTypeOK
<1>2. DOMAIN LogOfCursors = 1..(nextCursor - 1)
  BY DEF LogOfCursors
<1>3. \A i \in Ids : cursor[i] > 0 => cursor[i] \in 1..(nextCursor - 1)
  BY <1>1 DEF Inv, LogInv
<1>4. \A c \in 1..(nextCursor - 1) : c > 0
  BY <1>1
<1> QED
  BY <1>2, <1>3, <1>4, LogIsNumbering DEF Numbered, Abstract!Logged

\* The number of rows handed over is the last cursor handed over.
LEMMA ReachedIsLast ==
    ASSUME Inv
    PROVE  /\ Cardinality(fanned) \in {broadcastedThrough, broadcastedThrough + 1}
           /\ Cardinality(fanned) < nextCursor
           /\ fanned = 1..Cardinality(fanned)
<1>1. broadcastedThrough \in Nat /\ nextCursor \in Nat
  BY DEF Inv, TypeOK, OutboxTypeOK
<1>2. PICK n \in {broadcastedThrough, broadcastedThrough + 1} :
        n < nextCursor /\ fanned = 1..n
  BY DEF Inv, LogInv
<1>3. Cardinality(1..n) = n
  BY <1>1, SizeOfStretch
<1> QED
  BY <1>2, <1>3

-----------------------------------------------------------------------------
(* The steps.                                                               *)

\* Empty tables are the empty log.
LEMMA InitImplements ==
    ASSUME Init
    PROVE  Abstract!Init
<1>1. Inv
  BY InitInv
<1>2. Unassigned = {}
  BY DEF Init, OutboxInit, Unassigned
<1>3. LogOfCursors = <<>>
  <2>1. LogOfCursors \in Seq(Ids) /\ Len(LogOfCursors) = 0
    BY <1>1, LogIsNumbering DEF Numbered, Init, OutboxInit
  <2> QED
    BY <2>1, EmptySeq
<1>4. Cardinality(fanned) = 0
  BY FS_EmptySet DEF Init, ListenerInit
<1> QED
  BY <1>2, <1>3, <1>4 DEF Init, OutboxInit, Abstract!Init

\* The abstract variables that the pipeline's tables determine.
LogUnchanged == LogOfCursors' = LogOfCursors /\ prunedThrough' = prunedThrough

FanoutUnchanged ==
    Cardinality(fanned)' = Cardinality(fanned) /\ broadcastedThrough' = broadcastedThrough

\* A transaction that commits adds rows without a cursor.
LEMMA CommitImplements ==
    ASSUME Inv, NEW w \in Writers, present' = present \cup Open(w),
           UNCHANGED <<cursor, nextCursor, prunedThrough>>, FanoutUnchanged
    PROVE  Abstract!CommitEvents
<1>1. Unassigned' = Unassigned \cup Open(w)
  BY CommitEffect DEF Inv
<1>2. LogUnchanged
  BY DEF LogUnchanged, LogOfCursors
<1>3. Open(w) \subseteq Ids /\ Open(w) \cap present = {} /\ \A i \in Open(w) : cursor[i] = 0
  <2>1. txRows[w] \subseteq 1..lastId /\ 1..lastId \subseteq Ids
    BY MaxRowsIsNat DEF Inv, TypeOK, CaptureTypeOK, OutboxTypeOK, Ids
  <2> QED
    BY <2>1 DEF Open, Inv, TxInv
<1>4. Open(w) \subseteq Ids \ (Unassigned \cup Abstract!Logged)
  BY <1>3, LoggedHaveCursors DEF Unassigned
<1> QED
  BY <1>1, <1>2, <1>4 DEF LogUnchanged, FanoutUnchanged, Abstract!CommitEvents

\* ... and of the step that follows.
LEMMA LogStaysNumbered == Inv' => Numbered'
BY LogIsNumbering, PTL

\* An assign transaction appends its rows, in the order of their cursors.
LEMMA AssignImplements ==
    ASSUME Inv, Inv', NEW p \in Assigners, stateLock = p, AssignCommit(p), FanoutUnchanged
    PROVE  Abstract!Number \/ (LogUnchanged /\ Unassigned' = Unassigned)
<1> DEFINE last == nextCursor - 1
           n == nextCursor' - nextCursor
           new == [k \in 1..n |-> LogOfCursors'[last + k]]
<1>1. nextCursor \in Nat \ {0} /\ nextCursor' \in Nat /\ nextCursor <= nextCursor'
  BY AssignEffect DEF Inv, TypeOK, OutboxTypeOK
<1>2. last \in Nat /\ n \in Nat /\ nextCursor' - 1 = last + n /\ nextCursor = last + 1
  BY <1>1, NewAndOld
<1>3. /\ chosen[p] \subseteq Unassigned /\ chosen[p] \subseteq Ids
      /\ \A i \in Ids \ chosen[p] : cursor'[i] = cursor[i]
      /\ \A i \in chosen[p] : cursor'[i] \in nextCursor..(nextCursor' - 1)
      /\ \A c \in nextCursor..(nextCursor' - 1) : \E i \in chosen[p] : cursor'[i] = c
      /\ Unassigned' = Unassigned \ chosen[p]
      /\ prunedThrough' = prunedThrough
  BY AssignEffect, AssignedAfterAssign, PresentAreIds DEF Inv, TypeOK, Unassigned
<1>4. /\ LogOfCursors \in Seq(Ids) /\ Len(LogOfCursors) = last
      /\ \A c \in 1..last : LogOfCursors[c] \in Ids /\ cursor[LogOfCursors[c]] = c
  BY LogIsNumbering DEF Numbered
<1>5. /\ LogOfCursors' \in Seq(Ids) /\ Len(LogOfCursors') = last + n
      /\ \A c \in 1..(last + n) : LogOfCursors'[c] \in Ids /\ cursor'[LogOfCursors'[c]] = c
      /\ \A i \in Ids : cursor'[i] > 0 => LogOfCursors'[cursor'[i]] = i
  BY LogStaysNumbered, <1>2 DEF Numbered
<1> HIDE DEF last, n
\* The positions of before keep their rows ...
<1>6. ASSUME NEW c \in 1..last PROVE LogOfCursors'[c] = LogOfCursors[c]
  <2> DEFINE i == LogOfCursors[c]
  <2>1. i \in Ids /\ cursor[i] = c /\ c > 0
    BY <1>4, <1>2
  <2>2. i \notin chosen[p]
    BY <2>1, <1>3 DEF Unassigned
  <2>3. cursor'[i] = c
    BY <2>1, <2>2, <1>3
  <2> QED
    BY <2>1, <2>3, <1>5
\* ... and the new ones hold the rows of the transaction.
<1>7. ASSUME NEW k \in 1..n
      PROVE  last + k \in nextCursor..(nextCursor' - 1) /\ last + k \in 1..(last + n)
  BY <1>2
<1>8. ASSUME NEW k \in 1..n PROVE new[k] \in chosen[p] /\ cursor'[new[k]] = last + k
  <2>1. PICK i \in chosen[p] : cursor'[i] = last + k
    BY <1>3, <1>7
  <2>2. LogOfCursors'[last + k] = i
    <3>1. i \in Ids /\ last + k > 0
      BY <1>2, <1>3
    <3> QED
      BY <2>1, <3>1, <1>5
  <2>3. new[k] = i
    BY <2>2
  <2> QED
    BY <2>1, <2>3
<1>9. chosen[p] = {new[k] : k \in 1..n}
  <2> SUFFICES ASSUME NEW i \in chosen[p] PROVE \E k \in 1..n : new[k] = i
    BY <1>8
  <2>1. cursor'[i] \in nextCursor..(nextCursor' - 1)
    BY <1>3
  <2>2. cursor'[i] - last \in 1..n /\ last + (cursor'[i] - last) = cursor'[i] /\ cursor'[i] > 0
    BY <2>1, <1>2
  <2>3. LogOfCursors'[cursor'[i]] = i
    BY <2>2, <1>3, <1>5
  <2> QED
    BY <2>2, <2>3
<1>10. new \in Seq(Ids) /\ Len(new) = n
  <2>1. new \in [1..n -> Ids]
    BY <1>3, <1>8
  <2>2. new \in Seq(Ids)
    BY <2>1, <1>2
  <2>3. Len(new) \in Nat /\ DOMAIN new = 1..Len(new)
    BY <2>2, LenProperties
  <2> HIDE DEF new
  <2>4. DOMAIN new = 1..n
    BY <2>1
  <2> QED
    BY <2>2, <2>3, <2>4, <1>2, EndOfStretch
<1>11. LogOfCursors' = LogOfCursors \o new
  <2>1. /\ LogOfCursors \o new \in Seq(Ids)
        /\ Len(LogOfCursors \o new) = last + n
        /\ \A c \in 1..(last + n) : (LogOfCursors \o new)[c] =
             IF c <= last THEN LogOfCursors[c] ELSE new[c - last]
    <3> HIDE DEF new
    <3> QED
      BY <1>4, <1>10, ConcatProperties
  <2>2. ASSUME NEW c \in 1..(last + n) PROVE LogOfCursors'[c] = (LogOfCursors \o new)[c]
    <3>1. CASE c <= last
      BY <3>1, <2>1, <1>2, <1>6
    <3>2. CASE ~(c <= last)
      <4>1. c - last \in 1..n /\ last + (c - last) = c
        BY <3>2, <1>2
      <4> QED
        BY <3>2, <4>1, <2>1
    <3> QED
      BY <3>1, <3>2
  <2> HIDE DEF new
  <2> QED
    BY <2>1, <2>2, <1>5, SeqEqual
<1>12. CASE n = 0
  <2>1. chosen[p] = {}
    BY <1>9, <1>12
  <2>2. new = <<>>
    BY <1>10, <1>12, EmptySeq
  <2>3. LogOfCursors' = LogOfCursors
    BY <2>2, <1>4, <1>11, ConcatEmptySeq
  <2> QED
    BY <2>1, <2>3, <1>3 DEF LogUnchanged
<1>13. CASE n > 0
  <2>1. new \in [1..n -> Unassigned]
    BY <1>3, <1>8
  <2>2. \A i, j \in 1..n : new[i] = new[j] => i = j
    BY <1>2, <1>8
  <2>3. n \in 1..Cardinality(Unassigned)
    <3>1. IsFiniteSet(Unassigned) /\ Cardinality(Unassigned) \in Nat
      BY PresentAreIds, IdsAreFinite DEF Inv, TypeOK, Unassigned
    <3>2. new \in Injection(1..n, Unassigned)
      BY <2>1, <2>2 DEF Injection, IsInjective
    <3>3. IsFiniteSet(1..n) /\ Cardinality(1..n) = n
      BY <1>2, <1>13, FS_Interval
    <3>4. n <= Cardinality(Unassigned)
      BY <3>1, <3>2, <3>3, FS_Injection
    <3> QED
      BY <3>1, <3>4, <1>2, <1>13
  <2>4. Unassigned' = Unassigned \ {new[i] : i \in 1..n}
    BY <1>3, <1>9
  <2>5. UNCHANGED <<Cardinality(fanned), broadcastedThrough, prunedThrough>>
    BY <1>3 DEF FanoutUnchanged
  <2> HIDE DEF new
  <2>6. Abstract!Cardinality(Unassigned) = Cardinality(Unassigned)
    BY DEF Abstract!Cardinality, Cardinality
  <2>7. \E m \in 1..Cardinality(Unassigned) : \E added \in [1..m -> Unassigned] :
          /\ \A i, j \in 1..m : added[i] = added[j] => i = j
          /\ LogOfCursors' = LogOfCursors \o added
          /\ Unassigned' = Unassigned \ {added[i] : i \in 1..m}
    BY <2>1, <2>2, <2>3, <2>4, <1>11
  <2>8. Abstract!Number
    BY <2>5, <2>6, <2>7 DEF Abstract!Number
  <2> QED
    BY <2>8
<1> QED
  BY <1>2, <1>12, <1>13

\* The tables of before and after hold the same log.
LEMMA SameLog ==
    ASSUME UNCHANGED <<present, cursor, nextCursor, prunedThrough>>
    PROVE  LogUnchanged /\ Unassigned' = Unassigned
BY DEF LogUnchanged, LogOfCursors, Unassigned

\* Where the listener is in the log when it holds a batch.
LEMMA FrontIsInLog ==
    ASSUME Inv, NEW i \in Front
    PROVE  /\ broadcastedThrough \in Nat /\ prunedThrough <= broadcastedThrough
           /\ cursor[i] = broadcastedThrough + 1
           /\ broadcastedThrough < Len(LogOfCursors)
<1>1. broadcastedThrough \in Nat /\ nextCursor \in Nat /\ prunedThrough <= broadcastedThrough
  BY DEF Inv, TypeOK, OutboxTypeOK, PruneInv
<1>2. cursor[i] = broadcastedThrough + 1
  BY FrontIsNext DEF Inv
<1>3. cursor[i] < nextCursor
  BY DEF Inv, LogInv, Front, TypeOK, ListenerTypeOK
<1>4. Len(LogOfCursors) = nextCursor - 1
  BY LogIsNumbering DEF Numbered
<1> QED
  BY <1>1, <1>2, <1>3, <1>4

\* Handing a row over reaches the next entry, or, after a failure between the
\* two halves, the same entry once more.
LEMMA BroadcastImplements ==
    ASSUME Inv, Broadcast
    PROVE  Abstract!Reach \/ UNCHANGED Abstract!logVars
<1>1. PICK i \in Front : fanned' = fanned \cup {cursor[i]}
  BY DEF Broadcast
<1>2. /\ broadcastedThrough \in Nat /\ prunedThrough <= broadcastedThrough
      /\ cursor[i] = broadcastedThrough + 1
      /\ broadcastedThrough < Len(LogOfCursors)
  BY FrontIsInLog
<1>3. LogUnchanged /\ Unassigned' = Unassigned /\ broadcastedThrough' = broadcastedThrough
  BY FanoutKeepsTable, SameLog DEF Broadcast, outboxVars, stateVars
<1>4. /\ Cardinality(fanned) \in {broadcastedThrough, broadcastedThrough + 1}
      /\ fanned = 1..Cardinality(fanned)
  BY ReachedIsLast
<1>5. CASE Cardinality(fanned) = broadcastedThrough
  <2>1. fanned' = 1..(broadcastedThrough + 1)
    BY <1>1, <1>2, <1>4, <1>5
  <2>2. Cardinality(fanned)' = broadcastedThrough + 1
    BY <2>1, <1>2, SizeOfStretch
  <2>3. Abstract!Reach
    BY <2>2, <1>2, <1>3, <1>5 DEF LogUnchanged, Abstract!Reach
  <2> QED
    BY <2>3
<1>6. CASE Cardinality(fanned) = broadcastedThrough + 1
  <2>1. fanned' = fanned
    BY <1>1, <1>2, <1>4, <1>6
  <2> QED
    BY <2>1, <1>3 DEF LogUnchanged, Abstract!logVars
<1> QED
  BY <1>4, <1>5, <1>6

\* Recording follows what was handed over.
LEMMA RecordImplements ==
    ASSUME Inv, RecordBroadcast
    PROVE  Abstract!Record
<1>1. PICK i \in Front : broadcastedThrough' = IF cursor[i] > broadcastedThrough
                                               THEN cursor[i] ELSE broadcastedThrough
  BY DEF RecordBroadcast
<1>2. broadcastedThrough \in Nat /\ cursor[i] = broadcastedThrough + 1
  BY FrontIsInLog
<1>3. LogUnchanged /\ Unassigned' = Unassigned /\ fanned' = fanned
  BY FanoutKeepsTable, SameLog DEF RecordBroadcast
<1>4. cursor[i] \in fanned
  BY DEF RecordBroadcast, Inv, FanoutInv
<1>5. /\ Cardinality(fanned) \in {broadcastedThrough, broadcastedThrough + 1}
      /\ fanned = 1..Cardinality(fanned)
  BY ReachedIsLast
<1>6. broadcastedThrough < Cardinality(fanned)
  BY <1>2, <1>4, <1>5
<1>7. broadcastedThrough' = broadcastedThrough + 1
  BY <1>1, <1>2
<1> QED
  BY <1>3, <1>6, <1>7 DEF LogUnchanged, Abstract!Record

\* Pruning trims what was recorded, and not the newest entry.
LEMMA PruneImplements ==
    ASSUME Inv, NEW p \in Pruners, SaveAndCommit(p), FanoutUnchanged
    PROVE  Abstract!Trim
<1>1. /\ prunedThrough' = through[p] /\ prunedThrough < through[p]
      /\ through[p] < nextCursor - 1 /\ through[p] \in 1..broadcastedThrough
      /\ Unassigned' = Unassigned /\ UNCHANGED <<cursor, nextCursor>>
  BY PruneEffect DEF Inv
<1>2. prunedThrough \in Nat /\ broadcastedThrough \in Nat
  BY DEF Inv, TypeOK, OutboxTypeOK
<1>3. through[p] \in (prunedThrough + 1)..broadcastedThrough
  BY <1>1, <1>2
<1>4. Len(LogOfCursors) = nextCursor - 1
  BY LogIsNumbering DEF Numbered
<1>5. LogOfCursors' = LogOfCursors
  BY <1>1 DEF LogOfCursors
<1> QED
  BY <1>1, <1>3, <1>4, <1>5 DEF FanoutUnchanged, Abstract!Trim

\* Every step of the pipeline is one of the log's, or leaves it alone.
LEMMA StepImplements ==
    ASSUME Inv, Inv', [Next]_vars
    PROVE  [Abstract!Next]_Abstract!logVars
<1> USE DEF Abstract!Next
<1>1. CASE Broadcast
  BY <1>1, BroadcastImplements
<1>2. CASE RecordBroadcast
  BY <1>2, RecordImplements
<1>3. CASE UNCHANGED <<fanned, broadcastedThrough>>
  <2>1. FanoutUnchanged
    BY <1>3 DEF FanoutUnchanged
  <2>2. ASSUME LogUnchanged, Unassigned' = Unassigned PROVE UNCHANGED Abstract!logVars
    BY <2>1, <2>2 DEF LogUnchanged, FanoutUnchanged, Abstract!logVars
  <2>3. CASE UNCHANGED <<present, cursor, nextCursor, prunedThrough>>
    BY <2>2, <2>3, SameLog
  <2>4. CASE /\ \E w \in Writers : present' = present \cup Open(w)
             /\ UNCHANGED <<cursor, nextCursor, prunedThrough>>
    BY <2>1, <2>4, CommitImplements
  <2>5. CASE \E p \in Assigners : stateLock = p /\ AssignCommit(p)
    BY <2>1, <2>2, <2>5, AssignImplements
  <2>6. CASE \E p \in Pruners : SaveAndCommit(p)
    BY <2>1, <2>6, PruneImplements
  <2> QED
    BY <2>3, <2>4, <2>5, <2>6, StepEffects
<1> QED
  BY <1>1, <1>2, <1>3, FanoutEffects

\* The tables are a log to those who read them: writers, the listener and
\* pruning sessions, whatever they interleave and where they fail, only append
\* committed events, hand over the next entry, record that, or trim what was
\* recorded.
THEOREM PipelineImplementsLog == Spec => ImplementsLog
<1>1. Inv /\ Inv' /\ [Next]_vars => [Abstract!Next]_Abstract!logVars
  BY StepImplements
<1> QED
  BY InitImplements, <1>1, InvIsInvariant, PTL DEF Spec, ImplementsLog, Abstract!Spec
=============================================================================
