----------------------------- MODULE DeliveryLog ----------------------------
(***************************************************************************)
(* What the outbox promises its readers: a log of committed events, one     *)
(* cursor per position, that grows at its end only, is handed to the        *)
(* channel layer from its front without a gap, and is trimmed behind what    *)
(* was recorded as handed over and never at its newest entry.                *)
(***************************************************************************)
EXTENDS Integers, Sequences, FiniteSets

CONSTANT Events

VARIABLES
    committed,   \* events whose transaction committed, not yet in the log
    log,         \* the events in cursor order: log[c] has cursor c
    reached,     \* cursors 1..reached were handed to the channel layer
    recorded,    \* cursors 1..recorded are known to have been
    trimmed      \* cursors 1..trimmed are gone

logVars == <<committed, log, reached, recorded, trimmed>>

Logged == {log[c] : c \in DOMAIN log}

Init ==
    /\ committed = {}
    /\ log = <<>>
    /\ reached = 0
    /\ recorded = 0
    /\ trimmed = 0

\* A transaction commits its events together.
CommitEvents ==
    /\ \E new \in SUBSET (Events \ (committed \cup Logged)) :
         committed' = committed \cup new
    /\ UNCHANGED <<log, reached, recorded, trimmed>>

\* Committed events get the next cursors, all at once.
Number ==
    /\ \E n \in 1..(Cardinality(committed)) :
         \E new \in [1..n -> committed] :
           /\ \A i, j \in 1..n : new[i] = new[j] => i = j
           /\ log' = log \o new
           /\ committed' = committed \ {new[i] : i \in 1..n}
    /\ UNCHANGED <<reached, recorded, trimmed>>

\* The next entry, which is still in the log, reaches the channel layer.
Reach ==
    /\ reached < Len(log)
    /\ trimmed <= reached
    /\ reached' = reached + 1
    /\ UNCHANGED <<committed, log, recorded, trimmed>>

Record ==
    /\ recorded < reached
    /\ recorded' = recorded + 1
    /\ UNCHANGED <<committed, log, reached, trimmed>>

Trim ==
    /\ \E through \in (trimmed + 1)..recorded :
         through < Len(log) /\ trimmed' = through
    /\ UNCHANGED <<committed, log, reached, recorded>>

Next == CommitEvents \/ Number \/ Reach \/ Record \/ Trim

Spec == Init /\ [][Next]_logVars
=============================================================================
