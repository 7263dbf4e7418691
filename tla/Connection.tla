----------------------------- MODULE Connection -----------------------------
(***************************************************************************)
(* A connection, its client and the backend together, and what the client    *)
(* may rely on.  The client subscribes from no cursor or from any cursor it   *)
(* received earlier, whether or not it is the last.                           *)
(***************************************************************************)
EXTENDS Session

Init == BackendInit /\ SessionInit

ClientNext ==
    \/ \E s \in Subs, asked \in held \cup {None} : Subscribe(s, asked)
    \/ \E s \in Subs : Unsubscribe(s)
    \/ Disconnect

Next ==
    \/ BackendNext /\ UNCHANGED sessionVars
    \/ HandlerNext
    \/ ClientNext

Spec == Init /\ [][Next]_vars

-----------------------------------------------------------------------------
\* The subscriptions whose subscribe message was handled to its end.
Ready == Active \ {handler.sub}

\* The events of a subscription's objects after a cursor and up to another.
Due(s, lo, hi) == {c \in (lo + 1)..hi : Subject(c) \in Scope(s)}

\* Was the client told of the event with cursor c, or to fetch instead?
Answered(s, c) == c \in ToSet(sent[s]) \/ c \in silent[s] \/ c <= resynced[s]

\* Events of one subscription arrive with rising cursors and none twice,
\* across replay, catch-up and live delivery, though the listener repeats
\* fan-outs, two groups carry one event and the dedupe window is small.
SentInOrder ==
    \A s \in Subs : \A i, j \in DOMAIN sent[s] : i < j => sent[s][i] < sent[s][j]

\* A subscription leaves no hole: every event of its objects from the cursor it
\* answers from up to through_cursor was sent, had no effect or is covered by a
\* resync, as long as retention keeps the event.
NoRetainedEventIsSkipped ==
    \A s \in Ready : \A c \in Due(s, from[s], through[s]) : c > trimmed => Answered(s, c)

\* An event of object o is still on its way to subscription s: without a cursor,
\* not yet fanned out, in the mailbox, being handled, or lost with event_not_found.
EventAhead(s, o) ==
    \/ \E e \in committed : about[e].subject = o
    \/ \E c \in DOMAIN log :
         /\ Subject(c) = o
         /\ \/ c > reached
            \/ c > through[s] /\ c \in (ToSet(mailbox) \ ToSet(seen)) \cup {event}
            \/ c \in missed

\* The membership a subscription works with is current, or an event of the
\* object that differs is ahead.
StaleMembersHaveAnEventAhead ==
    \A s \in Ready : \A o \in Scope(s) :
        (o \in memberPks[s]) # (o \in visible) => EventAhead(s, o)

\* Does a subscription that is ready have the membership of object o wrong?
Stale(s, o) == s \in Ready /\ o \in Scope(s) /\ (o \in memberPks[s]) # (o \in visible)

\* ... and that event does arrive: a wrong membership is put right, unless the
\* connection was told that an event of the object is lost.
StaleMembersAreCorrected ==
    \A s \in Subs, o \in Objects :
        Stale(s, o) ~> ~Stale(s, o) \/ \E c \in missed : Subject(c) = o

\* Between messages the channel is a member of exactly the groups of the active
\* subscriptions, whatever order they came, went and shared groups in.
GroupsFollowSubscriptions ==
    pc = "idle" =>
        /\ joined = {Group(s) : s \in Active}
        /\ \A g \in Groups : refs[g] = Cardinality({s \in Active : Group(s) = g})

\* A cursor the client received is never refused as invalid_cursor, whatever
\* retention deletes in between.
HeldCursorsAreAccepted == [][ReadSnapshot => pc' = "limit"]_vars

-----------------------------------------------------------------------------
(* The inductive invariant, with the parts of module Backend. *)

\* The steps of subscribe() before the subscription is registered, and after.
Asking == {"snapshot", "limit", "members", "join"}
Replying == {"latest", "catch up", "refresh", "ack", "check", "replay", "flush"}
Publishing == {"fetch", "publish"}

Locals == [sub : Subs \cup {None}, asked : Nat \cup {None}, snapshot : Nat,
           found : SUBSET Objects, latest : Nat, events : Seq(Nat), resync : Nat]

\* Is the running handler the subscribe of s, past its registration?
Settling(s) == pc \in Replying /\ s = handler.sub

Rising(cursors) == \A i, j \in DOMAIN cursors : i < j => cursors[i] < cursors[j]

\* Which handler runs, and what its locals are then.
HandlerInv ==
    /\ pc \in {"idle"} \cup Asking \cup Replying \cup Publishing
    /\ handler \in Locals
    /\ pc \notin Asking \cup Replying => handler = NoLocals
    /\ pc \in Asking => handler.sub \in Subs \ Active /\ Len(subscriptions) < MaxSubscriptions
    /\ pc \in Replying => handler.sub \in Active
    /\ handler.asked \in held \cup {None}
    /\ handler.snapshot <= Len(log) /\ handler.latest <= Len(log)
    /\ pc # "snapshot" => handler.asked <= handler.snapshot
    /\ pc \in Replying \ {"latest"} => handler.snapshot <= handler.latest
    /\ pc \in {"join", "latest"} => handler.found \subseteq Scope(handler.sub)
    /\ pc \in {"check", "replay"} => handler.asked \notin {None, handler.snapshot}

\* The active subscriptions, and the groups that the channel is in for them.
GroupInv ==
    /\ subscriptions \in Seq(Subs)
    /\ \A i, j \in DOMAIN subscriptions : subscriptions[i] = subscriptions[j] => i = j
    /\ Len(subscriptions) <= MaxSubscriptions
    /\ joined = {Group(s) : s \in Active}
    /\ refs \in [Groups -> Nat]
    /\ \A g \in Groups : refs[g] = Cardinality({s \in Active : Group(s) = g})

\* What is on its way comes with cursors that do not fall, the event at hand first.
MailInv ==
    /\ mailbox \in Seq(Nat)
    /\ \A n \in DOMAIN mailbox : mailbox[n] \in 1..Len(log) /\ mailbox[n] <= recorded + 1
    /\ \A m, n \in DOMAIN mailbox : m < n => mailbox[m] <= mailbox[n]
    /\ seen \in Seq(Nat) /\ ToSet(seen) \subseteq 1..Len(log) /\ Len(seen) <= DedupeSize
    /\ event \in Nat
    /\ pc \notin Publishing => event = 0
    /\ pc \in Publishing => event \in 1..Len(log) /\ event <= recorded + 1
    /\ \A n \in DOMAIN mailbox : event <= mailbox[n]
    /\ todo \in Seq(Subs) /\ ToSet(todo) \subseteq Active
    /\ pc # "publish" => todo = <<>>
    /\ missed \subseteq 1..trimmed

\* What a subscription was told lies at or below its through_cursor, and nothing
\* was told on one that is not acknowledged.
ToldTo(s) ==
    /\ memberPks[s] \subseteq Scope(s)
    /\ through[s] <= Len(log) /\ resynced[s] <= Len(log) /\ silent[s] \subseteq 1..Len(log)
    /\ ToSet(sent[s]) \subseteq held /\ Rising(sent[s])
    /\ \A c \in ToSet(sent[s]) : c <= through[s] /\ (Settling(s) => c <= handler.snapshot)
    /\ s \notin Active \/ (Settling(s) /\ pc # "flush") => sent[s] = <<>> /\ resynced[s] = 0

\* What the running handler has yet to tell lies above its snapshot.
LeftToTell ==
    /\ pc \in Replying =>
         /\ resynced[handler.sub] <= handler.snapshot
         /\ through[handler.sub] = IF pc \in {"latest", "catch up", "refresh"}
                                   THEN handler.snapshot ELSE handler.latest
    /\ Rising(handler.events)
    /\ \A c \in ToSet(handler.events) : handler.snapshot < c /\ c <= handler.latest
    /\ handler.resync \in {0, handler.latest}
    /\ pc \in Asking \cup {"latest", "catch up"} => handler.events = <<>> /\ handler.resync = 0

ToldInv ==
    /\ held \subseteq 0..Len(log)
    /\ memberPks \in [Subs -> SUBSET Objects]
    /\ through \in [Subs -> Nat] /\ from \in [Subs -> Nat] /\ resynced \in [Subs -> Nat]
    /\ sent \in [Subs -> Seq(Nat)] /\ silent \in [Subs -> SUBSET Nat]
    /\ \A s \in Subs : ToldTo(s)
    /\ LeftToTell

\* The cursor up to which a subscription needs no delivery.
Horizon(s) == IF Settling(s) /\ pc \in {"catch up", "refresh"} THEN handler.latest ELSE through[s]

\* Was the event with cursor c sent to the group of subscription s?
WentOut(s, c) == c <= reached \/ (phase = "object" /\ c = recorded + 1 /\ Kind[s] = "filter")

\* What passed the dedupe window is past, at hand or missed, and a subscription
\* that publish() is done with has the event at hand behind it.
SeenInv ==
    /\ pc \in Asking \ {"snapshot"} => \A c \in ToSet(seen) : c <= handler.snapshot
    /\ \A s \in Active, c \in ToSet(seen) : c <= through[s] \/ c = event \/ c \in missed
    /\ pc = "publish" => \A s \in Active \ ToSet(todo) : event <= through[s]

\* In the mailbox and new to the dedupe window, at hand, or missed.
Pending == (ToSet(mailbox) \ ToSet(seen)) \cup {event} \cup missed

\* Nothing that was sent to the group of a subscription is overlooked.
PendingInv ==
    \A s \in Active : ~(Settling(s) /\ pc = "latest") =>
        \A c \in DOMAIN log :
            Subject(c) \in Scope(s) /\ c > Horizon(s) /\ WentOut(s, c) => c \in Pending

\* What is retained of a subscription's events after lo and up to hi was told.
NoHole(s, lo, hi) == \A c \in Due(s, lo, hi) : c > trimmed => Answered(s, c)

\* A subscription was told of what is retained up to its through_cursor; the
\* running handler has the rest among its locals.
SkipInv ==
    \A s \in Active :
        /\ ~Settling(s) => NoHole(s, from[s], through[s])
        /\ Settling(s) /\ pc = "flush" => NoHole(s, from[s], handler.snapshot)
        /\ Settling(s) /\ pc \in {"check", "replay"} => from[s] = handler.asked
        /\ Settling(s) /\ pc \notin {"latest", "catch up"} =>
             \A c \in Due(s, handler.snapshot, handler.latest) :
               c > trimmed => c \in ToSet(handler.events) \/ c <= handler.resync

\* An event of object o has no cursor yet, one above c, or was missed.
Coming(o, c) ==
    \/ \E e \in committed : about[e].subject = o
    \/ \E d \in DOMAIN log : Subject(d) = o /\ (d > c \/ d \in missed)

\* Members that are not those of now have an event coming, if the registration
\* lists the facets that events have.
MembersInv ==
    Facets \subseteq RegisteredFacets =>
        /\ pc = "join" => \A o \in Scope(handler.sub) :
             (o \in handler.found) # (o \in visible) => Coming(o, handler.snapshot)
        /\ \A s \in Active : \A o \in Scope(s) :
             (o \in memberPks[s]) # (o \in visible) => Coming(o, through[s])

Inv ==
    /\ LogInv /\ FanoutInv /\ VisibleInv
    /\ HandlerInv /\ GroupInv /\ MailInv /\ ToldInv
    /\ SeenInv /\ PendingInv /\ SkipInv /\ MembersInv

-----------------------------------------------------------------------------
\* README, "Event retention": a client that reconnects with a cursor older than
\* what pruning deleted gets a resync, not a silent, empty catch-up.  So once the
\* replay is done each event from the requested cursor to the snapshot was sent
\* or is covered by a resync, retained or not.
ReplayIsNeverSilent ==
    pc = "flush" /\ Kind[handler.sub] = "object" =>
        \A c \in Due(handler.sub, from[handler.sub], handler.snapshot) :
            Answered(handler.sub, c)

\* README, "Connection limits": max_member_pks is the number of "objects one
\* subscription may match".  So an event that the connection delivers does not take
\* a subscription past it.
MembersAreBounded ==
    [][pc = "publish" => \A s \in Active :
           Cardinality(memberPks[s]) <= MaxMemberPks =>
               Cardinality(memberPks'[s]) <= MaxMemberPks]_vars

\* README, "Trigger-Based Capture": a trigger may name any facet, and membership
\* is evaluated against the subject, so a subject that leaves a filter is still
\* removed.  So a member that is no longer in the set has an event ahead that
\* takes it out, whatever facets the writes had.
SubjectsThatLeaveAreRemoved ==
    \A s \in Ready : Kind[s] = "filter" =>
        \A o \in memberPks[s] \ visible : EventAhead(s, o)
=============================================================================
