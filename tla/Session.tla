------------------------------- MODULE Session ------------------------------
(***************************************************************************)
(* One websocket connection: its consumer, its subscriptions, and what its   *)
(* client was told (AsyncSubscriptionSession, ObjectStreamConsumer).          *)
(*                                                                         *)
(* The consumer handles one message at a time, a frame of the client or an    *)
(* event of the channel layer, but it awaits a worker thread for every query   *)
(* and the channel layer for every group, and the backend runs meanwhile.     *)
(* Each query is therefore a step of its own, and pc names the next one.      *)
(* The variables of the last group are not kept by the code: they record      *)
(* what it sent on each subscription since it acknowledged it.                *)
(***************************************************************************)
EXTENDS Backend, SequencesExt

CONSTANTS Subs,              \* subscription ids of the client
          Kind,              \* "object" or "filter", of each (model is as filter)
          Pk,                \* the object of each, if its kind is "object"
          RegisteredFacets,    \* facets of the model's registration
          ReplayLimit,
          DedupeSize,
          MaxSubscriptions,
          MaxMemberPks,
          MaxRequests        \* bound: subscribe messages

ASSUME KindsOfSubs == Kind \in [Subs -> {"object", "filter"}] /\ Pk \in [Subs -> Objects]
ASSUME LimitsAreNat == {ReplayLimit, DedupeSize, MaxSubscriptions} \subseteq Nat

None == -1
ASSUME NoneIsNoId == None \notin Subs

VARIABLES
    pc,                 \* the next step of the running handler, or "idle"
    handler,            \* the locals of subscribe()
    event, todo,        \* those of publish(): its event, the subscriptions left
    subscriptions,      \* _subscriptions, in the order of its keys
    memberPks, through, \* member_pks and through_cursor of each
    refs,               \* _group_ref_counts
    seen,               \* _seen_outbox_order
    requests,           \* subscribe messages so far

    from,               \* the cursor a subscription answers from
    sent,               \* cursors of the events sent on it, in order
    silent,             \* cursors of events evaluated to have no effect on it
    resynced,           \* cursor of the latest resync_required sent on it
    held,               \* cursors the client received on the connections so far
    missed              \* cursors answered with event_not_found

activeVars == <<subscriptions, memberPks, through>>
groupVars == <<refs, seen>>
toldVars == <<from, sent, silent, resynced, held, missed>>
sessionVars == <<pc, handler, event, todo, activeVars, groupVars, requests, toldVars>>
vars == <<backendVars, sessionVars>>
world == <<objectVars, logVars, fanoutVars>>     \* what the connection never writes

NoLocals == [sub |-> None, asked |-> None, snapshot |-> 0, found |-> {},
             latest |-> 0, events |-> <<>>, resync |-> 0]

-----------------------------------------------------------------------------
Active == ToSet(subscriptions)
Scope(s) == IF Kind[s] = "object" THEN {Pk[s]} ELSE Objects
Group(s) == IF Kind[s] = "object" THEN Pk[s] ELSE Model

\* _current_member_pks: what the user sees of the scope at this moment.
Matches(s) == visible \cap Scope(s)

\* ORDER BY cursor
InCursorOrder(rows) ==
    CHOOSE s \in SetToSeqs(rows) : \A i, j \in DOMAIN s : i < j => s[i] < s[j]

\* Mutant of Answer: the query is limited to replay_limit, not to one more.
AnswerTruncated(s, lo, hi) ==
    LET rows == {c \in RowsBetween(lo, hi) : Subject(c) \in Scope(s)}
        first == {c \in rows : Cardinality({d \in rows : d < c}) < ReplayLimit}
        isObject == Kind[s] = "object"
    IN  [events |-> IF isObject THEN InCursorOrder(first) ELSE <<>>,
         resync |-> IF isObject \/ rows = {} THEN 0 ELSE hi]

\* _object_replay_events and _has_collection_replay_events: the events to send
\* for the cursors after lo and up to hi, or the cursor to resync to.
Answer(s, lo, hi) ==
    LET rows == {c \in RowsBetween(lo, hi) : Subject(c) \in Scope(s)}
        fits == Kind[s] = "object" /\ Cardinality(rows) <= ReplayLimit
    IN  [events |-> IF fits THEN InCursorOrder(rows) ELSE <<>>,
         resync |-> IF fits \/ rows = {} THEN 0 ELSE hi]

\* send_event of each event, or send_resync.
Tell(s, events, resync) ==
    /\ sent' = [sent EXCEPT ![s] = @ \o events]
    /\ resynced' = [resynced EXCEPT ![s] = IF resync = 0 THEN @ ELSE resync]
    /\ held' = held \cup ToSet(events) \cup ({resync} \ {0})

\* _add_group, _discard_group: the channel is in a group while anyone counts it.
AddGroup(g) ==
    /\ refs' = [refs EXCEPT ![g] = @ + 1]
    /\ joined' = joined \cup {g}

\* Mutant of DiscardGroup: the count is not looked at.
DiscardGroupAlways(g) ==
    /\ refs' = [refs EXCEPT ![g] = 0]
    /\ joined' = joined \ {g}

DiscardGroup(g) ==
    /\ refs' = [refs EXCEPT ![g] = IF @ <= 1 THEN 0 ELSE @ - 1]
    /\ joined' = IF refs[g] <= 1 THEN joined \ {g} ELSE joined

Goto(step) == pc' = step
Ignore == Goto("idle") /\ handler' = NoLocals

-----------------------------------------------------------------------------
\* subscribe(), from the message to the state of the connection.
Subscribe(s, asked) ==
    /\ pc = "idle"
    /\ s \notin Active
    /\ Len(subscriptions) < MaxSubscriptions
    /\ requests < MaxRequests
    /\ requests' = requests + 1
    /\ Goto("snapshot")
    /\ handler' = [handler EXCEPT !.sub = s, !.asked = asked]
    /\ UNCHANGED <<backendVars, event, todo, activeVars, groupVars, toldVars>>

\* A step that only reads, and the locals it leaves.
Reads == UNCHANGED <<backendVars, event, todo, activeVars, groupVars, requests, toldVars>>

ReadSnapshot ==
    /\ pc = "snapshot"
    /\ IF handler.asked > Latest        \* invalid_cursor; None is below any cursor
       THEN Ignore
       ELSE Goto("limit") /\ handler' = [handler EXCEPT !.snapshot = Latest]
    /\ Reads

\* _member_pks_exceed_limit, a query before the one that reads the members.
CheckLimit ==
    /\ pc = "limit"
    /\ IF Cardinality(Matches(handler.sub)) > MaxMemberPks
       THEN Ignore                      \* subscription_too_large
       ELSE Goto("members") /\ UNCHANGED handler
    /\ Reads

ReadMembers ==
    /\ pc = "members"
    /\ LET found == Matches(handler.sub)
       IN  IF Kind[handler.sub] = "object" /\ found = {}
           THEN Ignore                  \* not_found
           ELSE Goto("join") /\ handler' = [handler EXCEPT !.found = found]
    /\ Reads

\* The subscription is registered and its channel joins the group.
Join ==
    /\ pc = "join"
    /\ LET s == handler.sub IN
         /\ subscriptions' = Append(subscriptions, s)
         /\ memberPks' = [memberPks EXCEPT ![s] = handler.found]
         /\ through' = [through EXCEPT ![s] = handler.snapshot]
         /\ AddGroup(Group(s))
    /\ Goto("latest")
    /\ UNCHANGED <<world, mailbox, handler, event, todo, seen, requests, toldVars>>

\* _subscription_catch_up: what got a cursor between the snapshot and the group.
CatchUpLatest ==
    /\ pc = "latest"
    /\ handler' = [handler EXCEPT !.latest = Latest]
    /\ Goto(IF Latest = handler.snapshot THEN "ack" ELSE "catch up")
    /\ Reads

CatchUpEvents ==
    /\ pc = "catch up"
    /\ LET answer == Answer(handler.sub, handler.snapshot, handler.latest)
       IN  handler' = [handler EXCEPT !.events = answer.events, !.resync = answer.resync]
    /\ Goto("refresh")
    /\ Reads

\* Mutant of Refresh: the members of before the catch-up stay.
RefreshCursorOnly ==
    /\ pc = "refresh"
    /\ through' = [through EXCEPT ![handler.sub] = handler.latest]
    /\ Goto("ack")
    /\ UNCHANGED <<backendVars, handler, event, todo, subscriptions, memberPks, groupVars,
                   requests, toldVars>>

Refresh ==
    /\ pc = "refresh"
    /\ memberPks' = [memberPks EXCEPT ![handler.sub] = Matches(handler.sub)]
    /\ through' = [through EXCEPT ![handler.sub] = handler.latest]
    /\ Goto("ack")
    /\ UNCHANGED <<backendVars, handler, event, todo, subscriptions, groupVars, requests,
                   toldVars>>

\* send_subscribed, whose cursor is the snapshot.
Acknowledge ==
    /\ pc = "ack"
    /\ LET replays == handler.asked \notin {None, handler.snapshot} IN
         /\ from' = [from EXCEPT ![handler.sub] =
                        IF replays THEN handler.asked ELSE handler.snapshot]
         /\ Goto(IF replays THEN "check" ELSE "flush")
    /\ held' = held \cup {handler.snapshot}
    /\ UNCHANGED <<backendVars, handler, event, todo, activeVars, groupVars, requests,
                   sent, silent, resynced, missed>>

Sends == UNCHANGED <<backendVars, event, todo, activeVars, groupVars, requests,
                     from, silent, missed>>

\* _replay_requested_cursor asks first whether the rows are still there ...
CheckReplay ==
    /\ pc = "check"
    /\ IF handler.asked < trimmed
       THEN Goto("flush") /\ Tell(handler.sub, <<>>, handler.snapshot)    \* cursor_pruned
       ELSE Goto("replay") /\ UNCHANGED <<sent, resynced, held>>
    /\ UNCHANGED handler
    /\ Sends

\* ... and then for the rows.
Replay ==
    /\ pc = "replay"
    /\ LET answer == Answer(handler.sub, handler.asked, handler.snapshot)
       IN  Tell(handler.sub, answer.events, answer.resync)
    /\ Goto("flush")
    /\ UNCHANGED handler
    /\ Sends

\* _send_catch_up_messages
Flush ==
    /\ pc = "flush"
    /\ Tell(handler.sub, handler.events, handler.resync)
    /\ Ignore
    /\ Sends

-----------------------------------------------------------------------------
\* Mutant of Remembered: the window is never trimmed.
RememberedForever(id) == Append(seen, id)

\* _remember_outbox_id of a new id: the oldest ids make room.
Remembered(id) ==
    LET order == Append(seen, id)
        excess == Len(order) - DedupeSize
    IN  SubSeq(order, (IF excess > 0 THEN excess ELSE 0) + 1, Len(order))

\* object_stream_event: drop what the connection saw recently.
Receive ==
    /\ pc = "idle"
    /\ mailbox # <<>>
    /\ mailbox' = Tail(mailbox)
    /\ IF Head(mailbox) \in ToSet(seen)
       THEN UNCHANGED <<pc, event, seen>>
       ELSE /\ seen' = Remembered(Head(mailbox))
            /\ event' = Head(mailbox)
            /\ Goto("fetch")
    /\ UNCHANGED <<world, joined, handler, todo, activeVars, refs, requests, toldVars>>

FetchRow ==
    /\ pc = "fetch"
    /\ IF event <= trimmed
       THEN Goto("idle") /\ event' = 0 /\ missed' = missed \cup {event}   \* event_not_found
       ELSE Goto("publish") /\ UNCHANGED <<event, missed>>
    /\ todo' = IF event <= trimmed THEN <<>> ELSE subscriptions
    /\ UNCHANGED <<backendVars, handler, activeVars, groupVars, requests,
                   from, sent, silent, resynced, held>>

\* Mutant of Evaluate: only a change of the membership is an effect.
EvaluateMoves(s) ==
    LET o == Subject(event)
        before == o \in memberPks[s]
        after == about[log[event]].op # "deleted" /\ o \in visible
        delivered == o \in Scope(s) /\ about[log[event]].facet \in RegisteredFacets
        hasEffect == delivered /\ before # after
    IN  /\ memberPks' = [memberPks EXCEPT ![s] =
                           IF ~hasEffect THEN @ ELSE IF after THEN @ \cup {o} ELSE @ \ {o}]
        /\ Tell(s, IF hasEffect THEN <<event>> ELSE <<>>, 0)
        /\ silent' = [silent EXCEPT ![s] = IF hasEffect THEN @ ELSE @ \cup {event}]

\* evaluate() of one subscription.  Its list action says whether the object is
\* in the set afterwards; without one nothing is sent.  An event of a facet that
\* is not registered goes no further: the members stay as they are.
Evaluate(s) ==
    LET o == Subject(event)
        before == o \in memberPks[s]
        after == about[log[event]].op # "deleted" /\ o \in visible
        delivered == o \in Scope(s) /\ about[log[event]].facet \in RegisteredFacets
        hasEffect == delivered /\ (before \/ after)
    IN  /\ memberPks' = [memberPks EXCEPT ![s] =
                           IF ~hasEffect THEN @ ELSE IF after THEN @ \cup {o} ELSE @ \ {o}]
        /\ Tell(s, IF hasEffect THEN <<event>> ELSE <<>>, 0)
        /\ silent' = [silent EXCEPT ![s] = IF hasEffect THEN @ ELSE @ \cup {event}]

\* Mutant of Publish: through_cursor is not compared.
PublishAll ==
    /\ pc = "publish"
    /\ todo # <<>>
    /\ Evaluate(Head(todo))
    /\ through' = [through EXCEPT ![Head(todo)] = event]
    /\ todo' = Tail(todo)
    /\ UNCHANGED <<backendVars, pc, handler, event, subscriptions, groupVars, requests,
                   from, missed>>

Publish ==
    /\ pc = "publish"
    /\ todo # <<>>
    /\ LET s == Head(todo) IN
         IF event <= through[s]
         THEN UNCHANGED <<memberPks, through, sent, silent, resynced, held>>
         ELSE Evaluate(s) /\ through' = [through EXCEPT ![s] = event]
    /\ todo' = Tail(todo)
    /\ UNCHANGED <<backendVars, pc, handler, event, subscriptions, groupVars, requests,
                   from, missed>>

Published ==
    /\ pc = "publish"
    /\ todo = <<>>
    /\ Goto("idle")
    /\ event' = 0
    /\ UNCHANGED <<backendVars, handler, todo, activeVars, groupVars, requests, toldVars>>

-----------------------------------------------------------------------------
\* What the client was told on a subscription that ends is no longer a promise.
Forget(subs) ==
    /\ memberPks' = [s \in Subs |-> IF s \in subs THEN {} ELSE memberPks[s]]
    /\ through' = [s \in Subs |-> IF s \in subs THEN 0 ELSE through[s]]
    /\ from' = [s \in Subs |-> IF s \in subs THEN 0 ELSE from[s]]
    /\ sent' = [s \in Subs |-> IF s \in subs THEN <<>> ELSE sent[s]]
    /\ silent' = [s \in Subs |-> IF s \in subs THEN {} ELSE silent[s]]
    /\ resynced' = [s \in Subs |-> IF s \in subs THEN 0 ELSE resynced[s]]

Unsubscribe(s) ==
    /\ pc = "idle"
    /\ s \in Active
    /\ \E i \in DOMAIN subscriptions :
         subscriptions[i] = s /\ subscriptions' = RemoveAt(subscriptions, i)
    /\ DiscardGroup(Group(s))
    /\ Forget({s})
    /\ UNCHANGED <<world, mailbox, pc, handler, event, todo, seen, requests, held, missed>>

\* The connection ends, by a disconnect between two handlers or by an error of a
\* query in the middle of one, and the client connects again: another channel,
\* another consumer, the same client.
Disconnect ==
    /\ Ignore
    /\ event' = 0 /\ todo' = <<>>
    /\ subscriptions' = <<>>
    /\ joined' = {} /\ refs' = [g \in Groups |-> 0]
    /\ mailbox' = <<>> /\ seen' = <<>>
    /\ Forget(Subs)
    /\ missed' = {}
    /\ UNCHANGED <<world, requests, held>>

-----------------------------------------------------------------------------
SessionInit ==
    /\ pc = "idle"
    /\ handler = NoLocals
    /\ event = 0 /\ todo = <<>>
    /\ subscriptions = <<>>
    /\ memberPks = [s \in Subs |-> {}]
    /\ through = [s \in Subs |-> 0]
    /\ refs = [g \in Groups |-> 0]
    /\ seen = <<>>
    /\ requests = 0
    /\ from = [s \in Subs |-> 0]
    /\ sent = [s \in Subs |-> <<>>]
    /\ silent = [s \in Subs |-> {}]
    /\ resynced = [s \in Subs |-> 0]
    /\ held = {}
    /\ missed = {}

HandlerNext ==
    \/ ReadSnapshot
    \/ CheckLimit
    \/ ReadMembers
    \/ Join
    \/ CatchUpLatest
    \/ CatchUpEvents
    \/ Refresh
    \/ Acknowledge
    \/ CheckReplay
    \/ Replay
    \/ Flush
    \/ Receive
    \/ FetchRow
    \/ Publish
    \/ Published

SessionTypeOK ==
    /\ BackendTypeOK
    /\ handler.sub \in Subs \cup {None}
    /\ handler.asked \in held \cup {None}
    /\ handler.snapshot \in 0..Len(log) /\ handler.latest \in 0..Len(log)
    /\ event \in 0..reached + 1
    /\ Active \subseteq Subs
    /\ Cardinality(Active) = Len(subscriptions) /\ Len(subscriptions) <= MaxSubscriptions
    /\ \A s \in Subs :
         /\ memberPks[s] \subseteq Scope(s)
         /\ through[s] \in 0..Len(log) /\ resynced[s] \in 0..Len(log)
         /\ ToSet(sent[s]) \subseteq held /\ silent[s] \subseteq 1..Len(log)
    /\ refs \in [Groups -> 0..MaxSubscriptions]
    /\ Len(seen) <= DedupeSize
=============================================================================
