-------------------------------- MODULE Client ------------------------------
(***************************************************************************)
(* A client of filter subscriptions that keeps a list of the objects, as the  *)
(* README asks it to: it applies the list action of each event, and after a    *)
(* resync_required it refetches the list through REST and resubscribes from    *)
(* the cursor of the message.  The REST request runs beside the connection.    *)
(***************************************************************************)
EXTENDS Connection

ASSUME SubsAreFilters == \A s \in Subs : Kind[s] = "filter"

VARIABLES
    view,      \* the objects on the client's list of a subscription
    resume     \* the cursor of the resync the list was last refetched for

clientVars == <<view, resume>>

ClientInit ==
    /\ Init
    /\ view = [s \in Subs |-> {}]
    /\ resume = [s \in Subs |-> None]

\* The client applies the events of the step: the event's object is on the list
\* if the server had it in the set when it evaluated the event.
Applies ==
    /\ view' = [s \in Subs |->
         IF sent'[s] \in {sent[s], <<>>} THEN view[s]
         ELSE IF Subject(event) \in memberPks'[s] THEN view[s] \cup {Subject(event)}
              ELSE view[s] \ {Subject(event)}]
    /\ UNCHANGED resume

Refetch(s) ==
    /\ s \in Active
    /\ resynced[s] # 0
    /\ resume[s] # resynced[s]
    /\ view' = [view EXCEPT ![s] = visible]
    /\ resume' = [resume EXCEPT ![s] = resynced[s]]
    /\ UNCHANGED vars

\* It leaves a subscription when it has refetched for the subscription's resync.
Leaves(s) == resynced[s] # 0 /\ resume[s] = resynced[s]

ConnectionStep ==
    \/ \E s \in Subs : Subscribe(s, resume[s])
    \/ \E s \in Subs : Leaves(s) /\ Unsubscribe(s)
    \/ BackendNext /\ UNCHANGED sessionVars
    \/ HandlerNext

ListNext ==
    \/ ConnectionStep /\ Applies
    \/ \E s \in Subs : Refetch(s)

ClientSpec == ClientInit /\ [][ListNext]_<<vars, clientVars>>

\* The listener numbers and hands out what is committed, and the consumer goes on
\* with its handler and takes the next message when it is idle.  Nothing else
\* has to happen: no write, no prune, and nothing the client does.
FairClientSpec ==
    /\ ClientSpec
    /\ WF_<<vars, clientVars>>(AssignCursor /\ UNCHANGED sessionVars /\ Applies)
    /\ WF_<<vars, clientVars>>((SendToModel \/ SendToObject \/ RecordBroadcast)
                                /\ UNCHANGED sessionVars /\ Applies)
    /\ WF_<<vars, clientVars>>(HandlerNext /\ Applies)

-----------------------------------------------------------------------------
(* The inductive invariant, beside that of the connection. *)

\* Is subscribe() of s between the registration and the acknowledgement?
Answering(s) == Settling(s) /\ pc \in {"latest", "catch up", "refresh", "ack"}

\* The client resumes s from a cursor it received, and what it was told on s lies
\* where it should; while s is set up it was told of no event.
Resumes(s) ==
    /\ resume[s] \in held \cup {None} /\ resynced[s] \in held \cup {0}
    /\ s \notin Active \/ Settling(s) => sent[s] = <<>> /\ silent[s] = {}
    /\ s \in Active => resynced[s] <= through[s]
    /\ s \in Active /\ resynced[s] = 0 /\ resume[s] # None /\ ~Answering(s)
         => from[s] = resume[s]

\* subscribe() answers from the cursor of the client, and sends no events of its own.
ResumeInv ==
    /\ view \in [Subs -> SUBSET Objects] /\ resume \in [Subs -> Nat \cup {None}]
    /\ \A s \in Subs : Resumes(s)
    /\ handler.events = <<>>
    /\ pc \in (Asking \cup Replying) \ {"flush"} => handler.asked = resume[handler.sub]
    /\ pc \in Replying =>
         /\ resume[handler.sub] <= handler.snapshot
         /\ resynced[handler.sub] \in {0, handler.snapshot}

\* Was the list of s refetched for all that the client was told to refetch it for,
\* and nothing deleted that it was not told of?
Followed(s) ==
    /\ resume[s] # None
    /\ s \in Active /\ resynced[s] # 0 => resynced[s] = resume[s]
    /\ s \in Active /\ resynced[s] = 0 /\ ~Settling(s) => from[s] >= trimmed

\* The cursor up to which the list of s has what it should.
Heard(s) == IF s \in Active /\ ~Settling(s) /\ resynced[s] = 0 THEN through[s] ELSE resume[s]

\* What such a list lacks has an event coming.
LacksNothing(s) == Followed(s) => \A o \in visible \ view[s] : Coming(o, Heard(s))

ListInv ==
    /\ ResumeInv
    /\ Facets \subseteq RegisteredFacets /\ missed = {} => \A s \in Subs : LacksNothing(s)

-----------------------------------------------------------------------------
\* Every write was fanned out and the consumer has nothing left to do.
Quiet == pc = "idle" /\ mailbox = <<>> /\ committed = {} /\ recorded = Len(log)

\* The subscriptions that resumed after a refetch and were not told to do it again.
Resumed == {s \in Active : resume[s] # None /\ resynced[s] = 0}

\* A client that resumed as documented lacks no object of the set once the
\* system is quiet, unless it was told event_not_found or retention has deleted
\* events after the cursor that it resumed from.
NoMemberIsMissing ==
    Quiet /\ missed = {} =>
        \A s \in Resumed : from[s] >= trimmed => visible \subseteq view[s]

\* README, "Server to client": refetch and resubscribe after resync_required,
\* and "removed" is the list action of an object that left the set.  So the
\* list of such a client holds no object that is not in the set.
NoFormerMemberStays ==
    Quiet /\ missed = {} =>
        \A s \in Resumed : from[s] >= trimmed => view[s] \subseteq visible
=============================================================================
