------------------------------- MODULE Backend ------------------------------
(***************************************************************************)
(* What one websocket connection sees of the other processes: the objects a *)
(* subscription is about, the outbox, and the channel layer.                *)
(*                                                                         *)
(* The outbox is the delivery log that module Delivery implements: a write   *)
(* and its event commit together, the event gets its cursor later, the       *)
(* listener hands cursors out in order and records each one afterwards, and  *)
(* retention trims behind what was recorded.  A cursor is handed out in two   *)
(* sends, to the group of the model and to the group of the object, and the   *)
(* listener may fail before it records it.                                   *)
(***************************************************************************)
EXTENDS Integers, Sequences, FiniteSets

CONSTANTS Objects,      \* objects of the model the subscriptions are about
          Strangers,    \* objects of other models
          Facets,       \* facets that the capture triggers and producers give
          MaxEvents,    \* bound: events that are written
          MaxRepeats    \* bound: fan-outs the listener starts again

ASSUME ModelsAreApart == Objects \cap Strangers = {}
ASSUME BoundIsNat == MaxEvents \in Nat

VARIABLES
    visible,     \* Objects the user may read and the filter matches
    deleted,     \* Objects whose row is gone
    about,       \* the events written so far, in the order of their commits
    committed,   \* events that have no cursor yet
    log,         \* events in cursor order
    reached,     \* cursors 1..reached went to every group
    recorded,    \* broadcasted_through
    trimmed,     \* pruned_through
    phase,       \* the listener's next step: "model", "object" or "record"
    repeats,
    joined,      \* groups the connection's channel is a member of
    mailbox      \* events sent to the channel and not yet received

objectVars == <<visible, deleted, about>>
logVars == <<committed, log, reached, recorded, trimmed>>
fanoutVars == <<phase, repeats>>
layerVars == <<joined, mailbox>>
backendVars == <<objectVars, logVars, fanoutVars, layerVars>>

Model == "model"                    \* the group of the subscriptions' model
Groups == {Model} \cup Objects      \* and the group of each object

-----------------------------------------------------------------------------
\* latest_outbox_cursor: retention keeps the newest row, if it does.
Latest == IF trimmed < Len(log) THEN Len(log) ELSE 0

\* The rows with a cursor after lo and up to hi that are in the table.
RowsBetween(lo, hi) == {c \in (lo + 1)..hi : c > trimmed /\ c <= Len(log)}

Subject(c) == about[log[c]].subject

\* A transaction commits a change of object o together with its event.
Write(o, op) ==
    /\ Len(about) < MaxEvents
    /\ \E facet \in Facets :
         about' = Append(about, [subject |-> o, op |-> op, facet |-> facet])
    /\ committed' = committed \cup {Len(about) + 1}
    /\ UNCHANGED <<log, reached, recorded, trimmed, fanoutVars, layerVars>>

Save(o) ==
    /\ \E now \in {visible \cup {o}, visible \ {o}} : visible' = now
    /\ deleted' = deleted \ {o}
    /\ Write(o, IF o \in deleted THEN "created" ELSE "updated")

Delete(o) ==
    /\ o \notin deleted
    /\ visible' = visible \ {o}
    /\ deleted' = deleted \cup {o}
    /\ Write(o, "deleted")

\* Another model's event moves the global cursor.
WriteStranger(o) == Write(o, "updated") /\ UNCHANGED <<visible, deleted>>

\* assign_outbox_cursors, of one event at a time.  The events of one object
\* come in the order of its writes.
AssignCursor ==
    /\ \E e \in committed :
         /\ \A d \in committed : about[d].subject = about[e].subject => e <= d
         /\ log' = Append(log, e)
         /\ committed' = committed \ {e}
    /\ UNCHANGED <<objectVars, reached, recorded, trimmed, fanoutVars, layerVars>>

\* Send the id of the next event to one of its groups.
Send(group) ==
    /\ recorded < Len(log)
    /\ mailbox' = IF group \in joined THEN Append(mailbox, recorded + 1) ELSE mailbox
    /\ UNCHANGED <<objectVars, committed, log, recorded, trimmed, repeats, joined>>

\* Mutant of SendToModel: the group of the subject gets the id twice.
SendToSubjectTwice ==
    /\ phase = "model"
    /\ recorded < Len(log)
    /\ phase' = "object"
    /\ Send(Subject(recorded + 1))
    /\ UNCHANGED reached

\* broadcast_outbox_event: the group of the subject's model first ...
SendToModel ==
    /\ phase = "model"
    /\ recorded < Len(log)
    /\ phase' = "object"
    /\ Send(IF Subject(recorded + 1) \in Objects THEN Model ELSE "other model")
    /\ UNCHANGED reached

\* ... then the group of the subject.
SendToObject ==
    /\ phase = "object"
    /\ phase' = "record"
    /\ Send(Subject(recorded + 1))
    /\ reached' = recorded + 1

RecordBroadcast ==
    /\ phase = "record"
    /\ phase' = "model"
    /\ recorded' = recorded + 1
    /\ UNCHANGED <<objectVars, committed, log, reached, trimmed, repeats, layerVars>>

\* The listener fails between two of its steps and starts with the drain.
Restart ==
    /\ phase # "model"
    /\ repeats < MaxRepeats
    /\ phase' = "model"
    /\ repeats' = repeats + 1
    /\ UNCHANGED <<objectVars, logVars, layerVars>>

\* Mutant of Prune: the newest row may go.
PruneAll ==
    /\ \E upTo \in (trimmed + 1)..recorded : trimmed' = upTo
    /\ UNCHANGED <<objectVars, committed, log, reached, recorded, fanoutVars, layerVars>>

\* prune_outbox: the step Trim of the delivery log, which module Delivery implements.
Prune ==
    /\ \E through \in (trimmed + 1)..recorded :
         through < Len(log) /\ trimmed' = through
    /\ UNCHANGED <<objectVars, committed, log, reached, recorded, fanoutVars, layerVars>>

-----------------------------------------------------------------------------
BackendInit ==
    /\ visible \in {{}, Objects}
    /\ deleted = {}
    /\ about = <<>>
    /\ committed = {}
    /\ log = <<>>
    /\ reached = 0 /\ recorded = 0 /\ trimmed = 0
    /\ phase = "model" /\ repeats = 0
    /\ joined = {}
    /\ mailbox = <<>>

BackendNext ==
    \/ \E o \in Objects : Save(o) \/ Delete(o)
    \/ \E o \in Strangers : WriteStranger(o)
    \/ AssignCursor
    \/ SendToModel
    \/ SendToObject
    \/ RecordBroadcast
    \/ Restart
    \/ Prune

BackendTypeOK ==
    /\ visible \subseteq Objects \ deleted
    /\ deleted \subseteq Objects
    /\ \A e \in DOMAIN about : about[e].subject \in Objects \cup Strangers
                              /\ about[e].facet \in Facets
    /\ committed \subseteq DOMAIN about
    /\ \A c \in DOMAIN log : log[c] \in DOMAIN about
    /\ reached \in 0..Len(log)
    /\ recorded \in 0..reached
    /\ trimmed \in 0..recorded
    /\ phase \in {"model", "object", "record"}
    /\ joined \subseteq Groups
    /\ \A n \in DOMAIN mailbox : mailbox[n] \in 1..Len(log)

-----------------------------------------------------------------------------
(* Parts of the inductive invariant of module Connection. *)

Event == [subject : Objects \cup Strangers, op : {"created", "updated", "deleted"},
          facet : Facets]

\* The log numbers the events that are no longer only committed, those of one
\* subject in the order of their writes.
LogInv ==
    /\ about \in Seq(Event)
    /\ log \in Seq(DOMAIN about)
    /\ committed = DOMAIN about \ {log[c] : c \in DOMAIN log}
    /\ \A c, d \in DOMAIN log : log[c] = log[d] => c = d
    /\ \A c, d \in DOMAIN log : c < d /\ Subject(c) = Subject(d) => log[c] < log[d]
    /\ \A c \in DOMAIN log, e \in committed :
         about[e].subject = Subject(c) => log[c] < e

\* The listener is at most one step ahead of its record, and the newest row stays.
FanoutInv ==
    /\ phase \in {"model", "object", "record"}
    /\ recorded \in Nat /\ trimmed \in 0..recorded
    /\ reached \in {recorded, recorded + 1} /\ reached <= Len(log)
    /\ phase = "object" => recorded < Len(log)
    /\ phase = "record" => reached = recorded + 1
    /\ trimmed < Len(log) \/ trimmed = 0

\* A deletion of an object that is visible was followed by another write of it.
VisibleInv ==
    /\ deleted \subseteq Objects
    /\ visible \subseteq Objects \ deleted
    /\ \A e \in DOMAIN about : about[e].op = "deleted" /\ about[e].subject \in visible =>
         \E d \in DOMAIN about : d > e /\ about[d].subject = about[e].subject
=============================================================================
