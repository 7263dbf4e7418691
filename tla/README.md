# Verification of django-object-streams

TLA+ specifications of django-object-streams, the TLC runs that check them and
TLAPS proofs about them. Sources are named by their path in the repository
(`outbox.py` stands for `src/object_streams/outbox.py`, and so on); the map in
`PROJECT.json` names the lines each definition translates.

## The system

An application registers streams on its Django models. Database triggers, or
helpers the application calls, write a row to an **outbox** table in the
transaction of the change. A row gets a **delivery cursor** after its commit: the
position clients resume from. A **listener** process waits for PostgreSQL
notifications, gives cursors to what has none, and sends the id of each row to
channel-layer groups. Every **websocket connection** runs a consumer with
**subscriptions**: it loads the row an id names, decides what it means for each
subscription, and tells the client. **Retention** deletes old rows, and clients that
come back with too old a cursor are told to refetch.

| component | state it keeps | operations | reached by |
|---|---|---|---|
| outbox and cursors (`outbox.py`, `models.py`) | event rows; one state row with `next_cursor`, `broadcasted_through`, `pruned_through` | `assign_outbox_cursors`, the `record_*` functions, the queries, `notify_outbox_event` | everything below |
| capture (`outbox.py`, trigger bodies of `triggers.py`) | the rows and hooks of an open transaction | trigger insert, `create_outbox_events`, `enqueue_outbox_events` | application transactions |
| listener (`object_streams_listen`, `postgres.py`) | LISTEN session, batch in memory | drain: assign, read, broadcast, record; wakeup; reconnect | NOTIFY |
| retention (`retention.py`) | the bound computed so far | `prune_outbox` | a command, any number at once |
| channel-layer fan-out (`transports/channels.py`) | group memberships, undelivered messages | group add, discard, send | listener, consumers |
| sessions (`sessions.py`) | active subscriptions with `member_pks` and `through_cursor` | `subscribe`, catch-up, replay, `publish`, `evaluate`, `unsubscribe` | consumer |
| consumer (`transports/channels.py`) | group reference counts, window of seen ids | `object_stream_event`, receive, disconnect | channel layer, client |
| client protocol (documented in the repository's README) | a list of objects and a cursor | resync: refetch, resubscribe | consumer |
| request parsing (`subscriptions.py`, checks of `sessions.py`, `receive`) | the counter of generated ids | validate, normalise, accept or refuse a message | consumer |
| registry (`registry.py`) and producers (`producers.py`) | registrations; none | `register`, `unregister`, `clear`, `get`; `build_source_events` | the application, sessions |
| listener command (`object_streams_listen`) | retry counter, "received" flag | the retry loop, `--once`, `--timeout` | its supervisor |
| mapped triggers (`triggers.py`) | none; they read the tables as the firing statement sees them | the trigger body `_MAPPED_FUNC`: subjects of OLD and NEW through `subject_path` | application writes |
| trigger compilation, visibility and filters, checks, migrations, event content | none that changes at run time | pure functions, start-up code | see "Not modelled" |

What is hard here:

- *Commit order.* Ids are taken at insert, rows appear at commit, and cursors are
  assigned in between by whoever comes first: the listener and every session that
  finishes a `create_outbox_events` call. They meet at the lock on the state row.
- *Partial failure.* The helpers commit rows, assign, read back and notify in
  separate transactions, partly in `on_commit` hooks. A session can die between
  any two of them, and so can the listener between a send and its record.
- *Check, then act.* `prune_outbox` computes its bound in four queries outside any
  transaction, and writes the watermark from an unlocked read. `subscribe` awaits
  between reading the snapshot, the members, joining the group and catching up.
  `_replay_requested_cursor` asks whether the rows are there in one query and
  reads them in another.
- *Delivery.* An event reaches a connection through two groups and again after a
  listener restart; the window of seen ids is bounded. Rows may be pruned before
  the consumer loads them.
- *Events about another object.* A mapped trigger follows foreign keys to its subject
  while the rows on the path are being moved and deleted, by the same transaction
  and by others.
- *Facets.* Triggers, sources and registrations name facets independently of each other;
  live delivery drops what is not registered, catch-up and replay do not look.
- *Odd messages.* Every field of a message may have any JSON type and size, a
  handler's exception ends the connection, and ids chosen by the client and by the server
  share one name space.
- *Retries of a whole run.* The listener command starts over after a database error, with
  options that count what happened since the attempt began.
- *Two views of one object.* `evaluate` compares what a subscription held with the
  database of now, not of the event.

What makes the components correct: cursors are unique, without gaps and appear in
rising order; events of one object keep the order of its writes; nothing is
deleted before it was handed out; nothing that was committed and announced is
forgotten; a subscription neither repeats nor skips an event; the membership it
works with is current or about to be corrected; the channel is in the groups its
subscriptions need; a refused message leaves nothing behind; what an application announces reaches
whoever subscribed to it. Each is a property below, and `hazards` in `PROJECT.json` ties
it to the lines where it could break.

## Modules

```
 Outbox ──┬─ Capture ───┐
          ├─ Listener ──┼── Delivery ── MCDelivery
          └─ Retention ─┘      │  └──── DeliveryProofs
                               │ implements
                          DeliveryLog

 Backend ── Session ── Connection ── MCConnection
                        │      └──── ConnectionLemmas ── ConnectionProofs
                        └─ Client ── MCClient                   │
                              └───────────────────────── ClientProofs

 Subjects ──┬─ MCSubjects             Requests  ──┬─ MCRequests
            └─ SubjectsProofs                     └─ RequestsProofs
 ListenCommand ──┬─ MCListenCommand   Producers ──┬─ MCProducers
                 └─ ListenCommandProofs           └─ ProducersProofs
```

The system is cut in two at the outbox. `Delivery` is everything that writes it, in
full detail; it implements the abstract `DeliveryLog`. `Connection` is one reader. Its
outbox, in `Backend`, takes the steps of that log by construction (append, send,
record, prune), so what the connection relies on is what the pipeline was shown to provide.

**Outbox** is the database: rows (an id, whether it is visible, its cursor, and
the object whose row lock covered its insert), the state row and who holds it
`FOR UPDATE`, and the LISTEN session's pending notification. `AssignBegin` and
`AssignCommit` are the two ends of the transaction in `assign_outbox_cursors`;
`Numberings` gives its rows consecutive cursors in id order. A row's content is
abstract. Other sessions run between the two ends; none of them gets the lock.

**Capture** is a writing session. `txState` says where it is. `BeginAtomic ..
Commit` is a caller's transaction with rows from triggers (`TriggerCapture`, which needs
the lock on the object's table row), from `create_outbox_events` (`CreateInAtomic`)
and hooks from `enqueue_outbox_events` (`Enqueue`). `BeginCreate .. NotifyDone` is the same helper
outside a transaction: insert, commit, assign, refresh, notify, each row its own step.
`RunHook` runs one `on_commit` hook the second way. `RefreshFails` is the `DoesNotExist` of
`refresh_from_db` for a row that was delivered and pruned meanwhile. `WriterDies` ends
the session anywhere; it also stands for a hook that raises, after which Django
runs no further hook.

**Listener** is the drain of the management command. `lpc` follows
the drain loop: assign, read a batch, and for each row send, then record. `Fail` is any
exception or the end of the process; the batch and the LISTEN are lost.

**Retention** is `prune_outbox`, one step per query, but for the two that read the
cuts. The cut by age and the cut by row count are both "any cut through the retained rows",
which covers every limit and every distribution of `created_at`; only the greater
of them is used, so one step stands for the query that found it, and the other, which reads
and changes nothing, is left out. `Abandon` ends a prune at
any step: nothing matched, it is a dry run, or the session is lost and its DELETE rolled back.
`DeleteRows` waits for rows that another
open transaction has deleted; `ReadPruned` and `SaveAndCommit` are the unlocked read and
the save of `record_pruned_through`.

**Delivery** lets them interleave, states the properties and the parts of the
inductive invariant. **DeliveryLog** is what a reader may rely on, in five actions.

**Backend** is what one connection sees of the rest: which objects the user
sees in the set (`visible`), which are deleted, the events of each write with their facets, the log,
how far it was handed out, and the connection's group memberships and mailbox. A
cursor is handed out in two sends, model group then object group; `Restart` makes the
listener start the cursor again. It assumes that (1) an object's visibility changes
only in a write that is captured, (2) events of one object get cursors in the
order of the writes, which is `ObjectOrder` of `Delivery` and so holds for triggers whose
subject is the row that is written, (3) the channel layer loses nothing.

**Session** is `AsyncSubscriptionSession` and `ObjectStreamConsumer` on one
connection. Handlers run one at a time, as the consumer's dispatch does, but each
query and each group operation is awaited, so each is a step and the backend runs in
between; `pc` names the next one. `Subscribe .. Flush` is the subscribe handler with
catch-up and replay, `Receive .. Published` the handling of one event, with one `Publish`
step per subscription. `subscriptions`, `memberPks`, `through`, `refs`, `seen` are the
fields of the code. `Disconnect` may come at any step: the client closes, or a handler raised,
and Channels ends the consumer either way. `RegisteredFacets` are those of the registration;
`Evaluate` drops the others, `Answer` does not look. `from`, `sent`, `silent`, `resynced`, `held`
and `missed` are history:
they record what the client was told.

**Connection** adds a client that subscribes with no cursor or any cursor it ever
received. **Client** adds one that keeps a list of objects as the repository's
README describes, refetching through REST at any moment after a resync.

**Subjects** is the other kind of capture: a trigger on one table whose events are
about an object of another. Its schema is the smallest in which everything can move:
lines belong to orders, orders to customers, the line's trigger has
`subject="order__customer"` and the order's `subject="customer"`. Sessions run READ COMMITTED
transactions that insert, change, move and delete lines and orders, with a cascade
by the ORM (children first) or by the database (`DB_CASCADE`, where the triggers of
the children find the parent gone). The trigger body maps OLD in the statement's own step (or
NEW, for an insert); an update maps NEW in a step of its own (`MapNew`), because each lookup
is an expression with its own snapshot and another session may commit in between.
`SubjectOf` follows the path; the tables, locks and foreign-key checks around it are PostgreSQL's
and Django's. A generic relation (content type and key)
has the same shape as the line's foreign key. The module ends where the
outbox row begins: numbering and delivery are `Delivery`'s.

**Requests** is the way of a message from the frame to the subscription: `receive`, the size
and type checks in the order in which the code makes them, `SubscriptionRequest`, the canonical
key, and what the connection or the database objects. A JSON value is a record of what
these checks look at (type, text, size, encodable or not, nested too deeply or not). `Raise` is
an exception that no handler catches, after which the connection is closed: the `RecursionError` of
`json.dumps` for a message that the decoder just accepted (`TooDeep`), and whatever else
than a `FilterValidationError` the application's filter set, its visibility policy or the database
raises (`Register`). Handling is one step, because `Session` has the steps; it is
translated from the synchronous `SubscriptionSession`, whose checks the asynchronous
class shares. Primary keys are integers, and every limit is set (`None` lifts one).

**ListenCommand** is one run of `object_streams_listen` with its options: the retry loop of
`handle`, an attempt, and the generator it consumes, which counts notifications on its own
(`stop_after`). The options are a variable that no step changes, so one run of TLC covers
all combinations. Rows are numbers here; the drain in its queries is `Listener`'s. Writers
commit a row and notify of it at once (a trigger, or a helper in a transaction),
in a later step (a helper outside one), or never (`notify=False`, or the session dies). In
`DatabaseFails` the transaction of a record may have committed although its acknowledgement
was lost.

**Producers** is the registry and `build_source_events`: which events a changed instance has,
with sources that match by class, by label or always, whose facet is stated, missing or `None`, and
that are shared by registrations. Subscriptions keep the registration they were made with. Sources
and events are sets, so a source that one registration lists twice cannot be told from one it lists once.

Definitions whose comment begins "Mutant of" are not part of the specifications.
They are plausible mistakes in the definition that follows, kept so that each
property can be seen to fail when the code is wrong in that way.

## Runs

All passing runs are exhaustive. `subjects` checks deadlock: a transaction can
always be rolled back and a new one begun.
The others say `CHECK_DEADLOCK FALSE`, because their models are finite: once the ids, events,
requests or changes of the bounds are spent, the system rightly has nothing left to do
(and the listener command may end, or the connection of `requests` after an exception).

| run | module | checks | bounds |
|---|---|---|---|
| `writers` | MCDelivery | `TypeOK`, `ObjectOrder`, `CursorsAppearInOrder`, `WokenRowsAreFannedOut`, `DrainsTakeEveryRow` | `FairSpec`; 2 writers, 1 object, 2 rows, 1 row an insert, 1 hook, batches of 1, 1 listener failure |
| `pipeline` | MCDelivery | `PrunedWasBroadcast`, `BatchIsRetained`, `WindowIsDense`, `Inv`, `WatermarksOnlyRise`, `FanoutHasNoGap`, `ImplementsLog` | 1 writer, 2 pruners, 1 object, 3 rows, up to 2 rows an insert, batches of 2, 1 listener failure |
| `connection` | MCConnection | `SentInOrder`, `NoRetainedEventIsSkipped`, `GroupsFollowSubscriptions`, `SessionTypeOK`, `StaleMembersHaveAnEventAhead`, `HeldCursorsAreAccepted` | 2 subscriptions of 1 object and 1 filter, 2 of them active, 2 events, 2 requests, 1 repeated fan-out, dedupe window 1, replay limit 1 |
| `resume` | MCClient | `NoMemberIsMissing`, `Inv`, `ListInv`, `StaleMembersAreCorrected` | `FairClientSpec`; 1 filter subscription, 1 object, 1 object of another model, 2 events, 2 requests, 1 repeated fan-out |
| `subjects` | MCSubjects | `SubjectsInv`, `ChangedSubjectsAreTold` | 1 line, 2 orders, 2 customers, 2 values, 2 sessions, 3 statements a transaction |
| `requests` | MCRequests | `RequestsTypeOK`, `ObjectsHaveTheTextOfEvents`, `StoredFiltersAreWithinLimits`, `GeneratedIdsAreFree`, `ErrorsLeaveNoTrace` | messages that differ from a good one in up to two fields, 2 subscriptions, 3 generated ids |
| `listen` | MCListenCommand | `CommandTypeOK`, `OnceHandsOnOnePerAttempt`, `NothingAnnouncedIsLeft`, `OnceEndsWithANotification` | all options with `--max-retries` 1 or absent, 3 rows, 1 foreign notification, 2 errors |
| `producers` | MCProducers | `ProducedFacetsAreDelivered`, `SubjectsAreAnnouncedOnce` | 2 models and a subclass, 4 sources, 5 calls |
| `replay_prune` | MCConnection | `ReplayIsNeverSilent`: violated | 1 object subscription, 2 events |
| `stale_list` | MCClient | `NoFormerMemberStays`: violated | 1 filter subscription, 3 events |
| `member_limit` | MCConnection | `MembersAreBounded`: violated | 1 filter subscription, 2 objects, limit 1 |
| `facets` | MCConnection | `SubjectsThatLeaveAreRemoved`: violated | 1 filter subscription, 2 facets, 1 registered |

What they show:

- `writers`: two sessions and the listener fight for the state row over rows that
  commit out of id order. Two writers are what it takes for a younger id to commit
  first, and with batches of one row, two rows for an assign that leaves one behind. Readers
  never see a cursor appear below one they saw, and the events of one object keep their
  order. A notification sent before LISTEN, during a drain or before a failure is
  not lost, in the sense that every row it was sent for gets fanned out. Rows
  whose wakeup was never sent (a session that died before `notify`) wait until something
  else starts a drain, and `DrainsTakeEveryRow` says that it takes them along.
- `pipeline`: two prunes, each computing its bound at its leisure, race each other, a
  listener that repeats a fan-out, and new rows. No hole opens above the
  watermark, no undelivered row goes, no row vanishes under the listener, and
  the latest cursor does not fall back. Three rows leave two that may go, one
  for each pruner's bound. Every step of the pipeline is a step of `DeliveryLog` or none,
  which is what entitles `Connection` to use that log. `RefreshFails` needs the whole
  pipeline and happens here. It costs the wakeups of the call's rows, which were delivered or will be
  drained, and in an `on_commit` hook also the hooks behind it, whose events are never written.
  The code promises nothing else of them, and no property is about them. The hooks of
  `enqueue_outbox_events` are left to `writers`; they repeat the steps of `create_outbox_events`.
- `connection`: across replay, catch-up and live delivery a subscription gets what
  it is due of the retained events once, in order, and at every moment a filter subscription's
  membership is right or an event that will correct it is on its way. Two events can be
  one that is replayed and one that is live, or exceed the replay limit of 1 together; a repeated
  fan-out and two sends per cursor pass a dedupe window of one id, so `through_cursor` has to
  stop them. Two of the three subscriptions share a group, and the third joins another one,
  so groups are shared, left by one subscription and dropped by the last.
- `resume`: a client that follows the protocol ends up lacking no object, unless it was
  told of a lost event or its cursor was pruned; and a membership that is wrong does get
  corrected, whatever restarts, prunes and requests come between. Two events and two
  requests are the shortest story of a resync, a refetch, a second subscribe and a live event.
  The run also checks the inductive invariants of `Connection` and `Client` (`Inv`, `ListInv`),
  here with a filter subscription and a client that follows the protocol.
- `subjects`: a commit that changes what the subscribers of a customer see has an event
  for that customer, whatever its statements were and whatever ran beside it. Three
  statements are what it takes to create an order, attach a line and move one
  of the two; two orders and customers make every move between them
  possible. The property excepts one customer, whom the code does miss: a line's
  trigger looks up the customer of its order, another session commits a move of that order, and
  the line's transaction then commits. Its event names the customer the order had, and not the
  one it has now. `overtaken` records exactly these lookups, and `SubjectsInv` shows that nothing
  else goes wrong between a statement and its commit.
- `requests`: a connection may end by an exception at any message, and still nothing it stored was
  wrong. Each field is given every type, size and encoding that some check tells apart,
  alone and in the pairs of fields that are read together (the two spellings of the
  filter, the kind and the key, and the id with either). Two subscriptions and three
  generated ids suffice for an id that the client took, freed and took again.
- `listen`: three rows can wait at the start, come between LISTEN and the drain
  and come later, announced or not; two errors spend one retry. With `--once` an attempt hands
  on at most one event, and any notification ends the wait, even a foreign one without `--timeout`;
  without `--once` the command never waits while a row is pending that was there when a session
  last notified. It does wait while rows are pending of which nobody has notified: `CommitRow`
  leaves them, and `writers` shows that the next drain takes them along.
- `producers`: whatever facets a registration lists, the facets that its sources state are accepted.
  Five calls register two models, subscribe to both and produce. Three cases are
  excepted because the code has them: a source without a facet produces "object" and one whose facet is
  `None` produces "None", which the registration need not accept; and a subscription made before
  its model was registered anew keeps the former registration.

The bounds `MaxRows`, `MaxBatch`, `MaxEnqueued`, `MaxFailures` (delivery), `MaxEvents`,
`MaxRepeats`, `MaxRequests` (connection), `MaxStatements` (subjects), `MaxRows`, `MaxForeign`,
`MaxErrors` (listener command), `MaxChanges` (producers) and the length of `GeneratedIds`
(requests) stand in guards and exist for TLC only. `BatchSize`, `ReplayLimit`, `DedupeSize`,
`MaxSubscriptions`, `MaxMemberPks` and `Limit` are settings of the code, set so small that they
bite. The proofs hold for every value of all of them.

### Fairness

`writers`: `WF` of `Connect \/ Wakeup`: the command reconnects after a
database error, its supervisor restarts it, and it waits for notifications in a
loop. `SF` of `Drain`: the loop never blocks except on the state row, which writers take
and free again and again; PostgreSQL queues waiting sessions, so the listener gets
its turn although the row is not continuously free. `WF` of `WriterAssignCommit`: a
transaction that holds the state row ends (the model lets it die instead, which also
frees the row). Nothing else a writer or pruner does is assumed to happen, and the
number of listener failures is finite in any run of the model.

`resume`: `WF` of a cursor being assigned and of the sends and their record, which is what
`writers` shows of the pipeline, and `WF` of `HandlerNext`: the consumer's dispatch takes the
next message from its channel, and the worker threads it awaits answer. No write, no
prune and nothing the client does is assumed, and a connection that ends owes nothing.

`listen`: `WF` of `Step`, the command's own next statement. Waiting ends only by what ends it
in the code: a notification in the queue, or `--timeout`. Rows, notifications and
errors are not assumed to come.

## Disagreements with the documentation

- `replay_prune` - a prune that commits between the check and the read of a replay leaves
  the client with a shorter replay, or an empty one, and no resync. The README says a
  client with such a cursor gets `resync_required` "rather than a silent, empty catch-up".
- `stale_list` - an object that leaves the set after the client's refetch and before
  `subscribe` reads the members, while its event has no cursor yet, is outside the set
  before and after that event. Neither `removed` nor a resync is sent, and a client that
  does what the README says keeps the object.
- `member_limit` - `max_member_pks` is compared only at `subscribe`. The run shows a live event of an
  object that enters the filter of a subscription which is at the limit: `publish` adds it. The
  README's table of limits defines `max_member_pks` as the "Objects one subscription may match."
- `facets` - a filter subscription of a model whose registration does not list the facet of
  a trigger ignores that trigger's events before it looks at the membership, so an object that
  leaves the filter by such a change stays. The README's example gives a mapped trigger the facet
  `workflow_state`, registers the model without it, and says of mapped triggers that "a
  subject that leaves a filter is still `removed`".

Two more have no run of their own: `--once` is documented as "Broadcast one notification and exit",
but a database error after the fan-out starts a new attempt that has forgotten it, and
a second event may be broadcast. It is why `OnceHandsOnOnePerAttempt` counts by attempt. Another is
that deeply nested JSON should get `invalid_request` and leave the connection open, by the
changelog: between the depth that the decoder accepts and the one that `json.dumps` accepts it does not.

## Proofs

Every safety invariant and action property of the passing runs is a theorem about its
specification, for all values of the constants that the named assumptions allow. The run shows
it on a small instance; the proof needs no bound.

| module | theorem | states |
|---|---|---|
| `DeliveryProofs` | `InvIsInvariant` | `Inv`, the inductive invariant of `Delivery` |
| | `TypesAreCorrect` | `TypeOK` |
| | `CursorsAreDense` | `WindowIsDense` |
| | `PruningFollowsFanout` | `PrunedWasBroadcast` |
| | `BatchIsSafe` | `BatchIsRetained` |
| | `ObjectEventsKeepOrder` | `ObjectOrder` |
| | `CursorsAppearLast` | `CursorsAppearInOrder` |
| | `WatermarksNeverFall` | `WatermarksOnlyRise` |
| | `FanoutIsInOrder` | `FanoutHasNoGap` |
| | `PipelineImplementsLog` | `ImplementsLog`, the refinement |
| `ConnectionProofs` | `InvIsInvariant` | `Inv`, the inductive invariant of `Connection` |
| | `TypesOfConnection` | `SessionTypeOK` |
| | `GroupsAreCounted` | `GroupsFollowSubscriptions` |
| | `EventsAreSentInOrder` | `SentInOrder` |
| | `RetainedEventsAreAnswered` | `NoRetainedEventIsSkipped` |
| | `StaleMembersAreFollowed` | `StaleMembersHaveAnEventAhead`, if every facet is registered |
| | `ReceivedCursorsAreAccepted` | `HeldCursorsAreAccepted` |
| `ClientProofs` | `ListInvIsInvariant` | `ListInv`, the inductive invariant of `Client` |
| | `ClientIsAClient` | `ClientSpec` implements `Spec` of `Connection` |
| | `ClientsLackNoMember` | `NoMemberIsMissing`, if every facet is registered |
| `SubjectsProofs` | `SubjectsInvIsInvariant` | `SubjectsInv`, the inductive invariant |
| | `SubjectsAreTold` | `ChangedSubjectsAreTold` |
| `RequestsProofs` | `TypesOfRequests` | `RequestsTypeOK` |
| | `ObjectsAreFound` | `ObjectsHaveTheTextOfEvents` |
| | `FiltersAreWithinLimits` | `StoredFiltersAreWithinLimits` |
| | `GeneratedIdsAreNeverTaken` | `GeneratedIdsAreFree` |
| | `ErrorsChangeNothing` | `ErrorsLeaveNoTrace` |
| `ListenCommandProofs` | `TypesOfCommand` | `CommandTypeOK` |
| | `OnceHandsOnOne` | `OnceHandsOnOnePerAttempt` |
| | `WaitingMeansDrained` | `NothingAnnouncedIsLeft` |
| `ProducersProofs` | `StatedFacetsAreDelivered` | `ProducedFacetsAreDelivered` |
| | `SharedSourcesAnnounceOnce` | `SubjectsAreAnnouncedOnce` |

The assumptions are those the modules name, and TLC evaluates each of them. They say that names
differ (the listener and "no one" are not writers, "unlocked" is not an object, "no cursor" is
not an id, null and a missing row are not customers), that bounds and limits are natural
numbers, that a subscription is of an object or of a filter (`KindsOfSubs`; of a filter in
`Client`), that numbers and their texts belong together, and that a message has its fields
with JSON values (`FieldsAreValues`). Two theorems have one hypothesis more,
`Facets \subseteq RegisteredFacets`: the registration lists the facets that the captured events
have. Without it they are false, and the run `facets` shows how.

### The pipeline

Neither density nor object order is inductive alone. `Inv` of `Delivery` adds:

- `TxInv`: an id belongs to at most one open transaction, and a row that is not
  committed has no cursor. Without it a commit could bring a row that already
  has one.
- `LockInv`: who is between `AssignBegin` and `AssignCommit` holds the state row, and what it
  read there (`startAt`, `chosen`) is still true. This carries density through the gap
  between the two steps; it is the reason for `FOR UPDATE`.
- `OrderInv`: a captured row that is not committed is younger than every committed
  row of its object, because the transaction holds the object's row lock; and a
  selection in id order that holds a row of an object holds the older ones without a cursor.
- `PruneInv`: one pruner at a time is past its DELETE, what it deleted is exactly what lies
  below its bound, and the bound is at least one below the newest cursor. This is
  what makes the unlocked read of `record_pruned_through` harmless: two deletions both
  match the oldest row, so the second waits for the first to commit.
- `FanoutInv`: the batch is the next stretch of cursors after `broadcasted_through`, and
  everything up to that watermark was sent.
- `LogInv`: the rows, pruned ones included, are numbered from 1 without gap or repetition, and
  the cursors handed out are 1 up to `broadcasted_through` or one more. This is what lets the
  refinement read the rows as a sequence and the set of sent cursors as a number.

`DeliveryProofs` begins with facts about numbering, selection and dense windows, has one
lemma per part of `Inv`, with a step per action, and then the theorems. Its last part shows
that position c of the log holds the row with cursor c, and then maps the steps: a commit is
`CommitEvents`; an assign transaction is `Number`, its numbering read as a sequence appended to
the log; a send is `Reach`, or no step when a restarted listener sends the same row again; a
record is `Record`; a prune is `Trim`; every other step changes nothing the log shows.

### The connection

What the properties say of a subscription between messages has to be carried through the
steps of a handler, each of which the backend may interrupt. `Inv` of `Connection` says what is
true at each of them:

- `LogInv`, `FanoutInv`, `VisibleInv`: what the log, the fan-out and the visible objects are to
  each other; every other part is about cursors within them.
- `HandlerInv`: which subscription a handler works for, and how its cursors (the one asked for,
  the snapshot, the latest) lie to each other. `HeldCursorsAreAccepted` is here: a client's cursor
  is never above what the handler reads afterwards.
- `GroupInv`: `joined` and the reference counts are those of the active subscriptions, step by step.
- `MailInv`: what is in the channel has cursors that do not fall, and the event at hand is first.
  Repeats of the listener keep this, because it starts again at the cursor it had not recorded.
- `ToldInv`: everything sent on a subscription is at most `through_cursor`, and what the handler
  still has to send lies above its snapshot. `SentInOrder` follows, for a dedupe window of any
  size, zero included.
- `SeenInv`: an id in the dedupe window is past for every subscription, at hand, or not found.
- `PendingInv`: an event that was sent to a group of the subscription and lies above its horizon
  is in the mailbox, at hand or not found. It is why joining the group comes before the second
  read of the latest cursor: from the join on nothing is lost, and below the read nothing has to arrive.
- `SkipInv`: a subscription has no hole up to its `through_cursor`, except what the handler holds.
- `MembersInv`: members that are not those of now have an event coming: one without cursor, one
  above the cursor the membership is of, or one that was deleted before it was read. Its first
  part is about the members that the handler has read and not stored yet, while it joins the group.

Facts about a smallest cursor or a smallest position use well-foundedness of the naturals
(`LeastExists`), not induction over sequences. `ConnectionLemmas` holds what the operators
return, what a backend step does to the log, and the first four parts; `ConnectionProofs` has
the other parts, with a lemma for each step that can disturb one, and the theorems.

### The client

`ListInv` is inductive together with `Inv`. `ResumeInv` says that the client resumes from
a cursor that it received, and that what it was told while the subscription was set up is what
the handler's locals say. `LacksNothing` is the heart: for a list that was refetched for all the
client was told to refetch (`Followed`), an object that is visible and not on the list has an
event coming above the cursor up to which the list is complete (`Heard`). That cursor is the one the
client resumes from until the subscription is acknowledged, and `through_cursor` after. When
the system is quiet nothing is coming, and the list lacks nothing.

### Subjects, requests, the command and producers

- `SubjectsInv`: from a statement to its commit, an order that a trigger looked up is `Settled`: the
  transaction wrote it itself (and its own trigger told both customers), or another commit has
  overtaken the lookup, or the customer found is still the committed one and was told. A commit
  of another transaction either leaves the order alone or marks the lookup. Row locks
  (`RowsAreLocked`) keep OLD what it was. The silent triggers of a database cascade need no
  exception: all their lines name the order, whose trigger tells its customer.
- `RequestsProofs` has no invariant beyond those of the run: each is inductive with the types,
  because the checks decide by the message alone. The work is in the lemmas: a message
  that passes is within the limits, and a subscribe stores
  exactly one entry, under an id that was free if the server chose it.
- `CommandInv` (a lemma of `ListenCommandProofs`): with `--once`, the counters that the loop and the
  generator keep go with the place
  in the loop (`OnceInv`); without, rows that were announced after the drain have a notification in the
  queue when the command waits (`WakeupInv`).
- `ProducersInv` (a lemma of `ProducersProofs`): the registry is keyed by label and its
  registrations accept the facets that
  their sources state; an event belongs to one of them, and a change saw one registration of a model.

Only model-checked: the liveness properties `WokenRowsAreFannedOut`, `DrainsTakeEveryRow`,
`StaleMembersAreCorrected` and `OnceEndsWithANotification`, because the prover does not reason about
fairness and ENABLED; and the four disagreements, which are counterexamples.

## Not modelled

- *Event content* (`events.py`, `as_dict` of the requests): records and their JSON. The models keep
  the subject, facet and operation, which are what decisions read.
- *The rest of the trigger SQL* (`triggers.py`): compilation is text, and the row
  trigger with its watched fields is `TriggerCapture` of `Capture`. One lookup of `Subjects` is
  one step, since it is one SQL expression, and so are a database cascade and its triggers.
- *History sources* (`history/`, `sources/`): adapters that satisfy what `Producers` assumes of a
  source. A source without `matches` whose class is a base of the instance builds its subject
  from the instance's own class; of that only the label is kept.
- *Visibility and filters*: query building; their result is `visible`.
- *System checks*: compare installed triggers with declared ones at start-up and write nothing.
- *The synchronous `SubscriptionSession`* as a process of its own: its code is the asynchronous one
  without `await`. `Requests` translates its checks.
- *Keys that are not integers, and limits of `None`*, in `Requests`.
- *Channel layer capacity*: messages are not dropped.
- *Rows deleted outside retention*, as the cascade of a content type does.
- *Migrations*: run once, before the processes start. The models begin with an empty outbox, so
  what 0003 leaves (old rows whose cursors are their ids, with holes) is outside them and
  outside the proofs of density.

## Plan

Done, in this order: `Outbox`, `Capture`, `Listener`, `Retention`, `Delivery`, `DeliveryLog`, the proofs
of the pipeline, `Backend`, `Session`, `Connection`, `Client`, `Subjects`, the proof of the refinement,
facets and failing handlers in `Session`, `Requests`, `ListenCommand`, `Producers`, the liveness
of the connection, and the proofs of all of these.

Next, most important first:

1. The refinement of the client's view: `Client` with an abstract list that loses members only
   by events (`NoMemberIsMissing` says so of quiet states only).
2. `Subjects` composed with `Outbox`: what becomes of `ObjectOrder` when the subject is not the
   row that is written, and so no lock orders the events of one subject.
3. A channel layer that drops messages at its capacity, and what is left of
   `StaleMembersAreCorrected` then.
4. `Delivery` started on what migration 0003 leaves: density does not hold there, but what
   replay and the listener need should.
