---------------------------- MODULE ListenCommand ----------------------------
(***************************************************************************)
(* One run of object_streams_listen with its options: the retry loop of      *)
(* handle(), one attempt of _listen_once, and the generator                   *)
(* listen_outbox_event_ids it consumes.  Module Listener has the drain in     *)
(* its queries; here a row is a number, pending once it is committed and      *)
(* until its cursor is recorded.  A row need not be announced when it is       *)
(* committed: its session may notify later, or never.  --channel and           *)
(* --database only name things, and the delay before a retry is time, which     *)
(* the model does not have.                                                *)
(***************************************************************************)
EXTENDS Integers, Sequences, SequencesExt

CONSTANTS RetryLimits,      \* what may be given as --max-retries, None for nothing
          MaxRows,          \* bound: rows that are committed
          MaxForeign,       \* bound: notifications whose payload is no id
          MaxErrors         \* bound: database errors

None == -1
ASSUME LimitsAreValid == RetryLimits \subseteq Nat \cup {None}

VARIABLES
    options,     \* --once, whether --timeout is given, --max-retries
    pc,          \* next step: "listen", "drain", "record", "wait", "unlisten",
                 \* or how the command ended: "done", "nothing received", "failed"
    attached,    \* is the drain that of on_listening, before any notification?
    retries, received,  \* locals of handle() and _listen_once
    counted,     \* the drain's count
    taken,       \* notifications of this attempt, stop_after counts them
    queue,       \* notifications the connection has for the command
    rows,        \* rows committed so far
    unannounced, \* notifications that are still to come for committed rows
    announced,   \* history: the rows there were when a session last notified of one
    watermark,   \* broadcasted_through
    handed,      \* history: rows handed to the channel layer, in order
    foreign, errors

commandVars == <<pc, attached, retries, received, counted, taken>>
worldVars == <<rows, unannounced, announced, foreign, errors>>
vars == <<options, commandVars, worldVars, queue, watermark, handed>>

Options == [once : BOOLEAN, timeout : BOOLEAN, maxRetries : RetryLimits]
Once == options.once
Timeout == options.timeout
MaxRetries == options.maxRetries

Ended == {"done", "nothing received", "failed"}
Listening == pc \notin {"listen"} \cup Ended

-----------------------------------------------------------------------------
(* Writers, and whoever else notifies the channel *)

Notify(payload) == queue' = IF Listening THEN Append(queue, payload) ELSE queue

Announces == Notify("id") /\ announced' = rows'

\* A session commits a row.  The notification of a row that was written inside an
\* atomic block comes with the commit.  A create outside one, and the hooks of an
\* enqueue, notify in a statement after the commit and the assign.
CommitRow ==
    /\ rows < MaxRows
    /\ rows' = rows + 1
    /\ \/ Announces /\ UNCHANGED unannounced
       \/ unannounced' = unannounced + 1 /\ UNCHANGED <<announced, queue>>
    /\ UNCHANGED <<commandVars, foreign, errors, watermark, handed>>

\* The later notification.  It need not come: the session may end before it, an
\* earlier statement may raise, or notify=False was given.
Announce ==
    /\ unannounced > 0
    /\ unannounced' = unannounced - 1
    /\ rows' = rows
    /\ Announces
    /\ UNCHANGED <<commandVars, foreign, errors, watermark, handed>>

NotifyForeign ==
    /\ foreign < MaxForeign
    /\ foreign' = foreign + 1
    /\ Notify("foreign")
    /\ UNCHANGED <<commandVars, rows, unannounced, announced, errors, watermark, handed>>

-----------------------------------------------------------------------------
(* One attempt *)

Listen ==
    /\ pc = "listen"
    /\ pc' = "drain" /\ attached' = TRUE
    /\ UNCHANGED <<retries, received, counted, taken, queue, worldVars, watermark, handed>>

\* _drain_pending: the next row without a recorded cursor ...
Broadcast ==
    /\ pc = "drain"
    /\ watermark < rows
    /\ handed' = Append(handed, watermark + 1)
    /\ pc' = "record"
    /\ UNCHANGED <<attached, retries, received, counted, taken, queue, worldVars, watermark>>

\* Mutant of Drained: the answer of on_listening is not looked at.
DrainedOnAttach(count) ==
    /\ received' = (received \/ count > 0)
    /\ counted' = 0
    /\ pc' = IF Once /\ received' /\ ~attached THEN "done" ELSE "wait"

\* Where the command goes after a drain of count rows.  The generator ends after
\* on_listening; a break out of the loop closes it, and an error of its UNLISTEN
\* is then ignored.
Drained(count) ==
    /\ received' = (received \/ count > 0)
    /\ counted' = 0
    /\ pc' = IF ~(Once /\ received') THEN "wait"
             ELSE IF attached THEN "unlisten" ELSE "done"

\* Mutant of Record: a drain is over after one row, with or without --once.
RecordAndStop ==
    /\ pc = "record"
    /\ watermark' = watermark + 1
    /\ Drained(counted + 1)
    /\ UNCHANGED <<attached, retries, taken, queue, worldVars, handed>>

\* ... whose cursor is then recorded.  With --once the drain is over.
Record ==
    /\ pc = "record"
    /\ watermark' = watermark + 1
    /\ IF Once THEN Drained(counted + 1)
       ELSE pc' = "drain" /\ counted' = counted + 1 /\ UNCHANGED received
    /\ UNCHANGED <<attached, retries, taken, queue, worldVars, handed>>

DrainDone ==
    /\ pc = "drain"
    /\ watermark = rows
    /\ Drained(counted)
    /\ UNCHANGED <<attached, retries, taken, queue, worldVars, watermark, handed>>

\* Mutant of Receive: a foreign payload does not count.
ReceiveUncounted ==
    /\ pc = "wait"
    /\ queue # <<>>
    /\ queue' = Tail(queue)
    /\ taken' = IF Head(queue) = "id" THEN taken + 1 ELSE taken
    /\ pc' = IF Head(queue) = "id" THEN "drain" ELSE "wait"
    /\ attached' = FALSE
    /\ UNCHANGED <<retries, received, counted, worldVars, watermark, handed>>

\* A notification counts whatever it is, and wakes the drain if it has an id.
\* More than stop_after of them are yielded if they arrived together.
Receive ==
    /\ pc = "wait"
    /\ queue # <<>>
    /\ queue' = Tail(queue)
    /\ taken' = taken + 1
    /\ pc' = IF Head(queue) = "id" THEN "drain" ELSE "wait"
    /\ attached' = FALSE
    /\ UNCHANGED <<retries, received, counted, worldVars, watermark, handed>>

\* stop_after notifications were taken, or the timeout has passed.
StopWaiting ==
    /\ pc = "wait"
    /\ (Once /\ taken > 0) \/ Timeout
    /\ pc' = "unlisten"
    /\ UNCHANGED <<attached, retries, received, counted, taken, queue, worldVars,
                   watermark, handed>>

\* The generator returns, and with it the attempt and the command.
Unlisten ==
    /\ pc = "unlisten"
    /\ pc' = IF Once /\ ~received THEN "nothing received" ELSE "done"
    /\ UNCHANGED <<attached, retries, received, counted, taken, queue, worldVars,
                   watermark, handed>>

-----------------------------------------------------------------------------
(* handle() *)

\* Mutant of RetriesSpent: one retry too many.
RetriesSpentLate == MaxRetries # None /\ retries > MaxRetries

RetriesSpent == MaxRetries # None /\ retries >= MaxRetries

\* A database error ends the attempt: the connection is closed, with what it had
\* in its queue, and a new attempt begins unless the retries are spent.  The
\* transaction of the record may have committed.
DatabaseFails ==
    /\ pc \notin Ended
    /\ errors < MaxErrors
    /\ errors' = errors + 1
    /\ IF RetriesSpent
       THEN pc' = "failed" /\ UNCHANGED retries
       ELSE pc' = "listen" /\ retries' = retries + 1
    /\ received' = FALSE /\ counted' = 0 /\ taken' = 0 /\ queue' = <<>>
    /\ watermark' \in {watermark} \cup (IF pc = "record" THEN {watermark + 1} ELSE {})
    /\ UNCHANGED <<attached, rows, unannounced, announced, foreign, handed>>

\* The channel layer raises: a CommandError or an exception that nobody catches.
LayerFails ==
    /\ pc = "drain" /\ watermark < rows
    /\ errors < MaxErrors
    /\ errors' = errors + 1
    /\ pc' = "failed"
    /\ UNCHANGED <<attached, retries, received, counted, taken, queue, rows, unannounced,
                   announced, foreign, watermark, handed>>

-----------------------------------------------------------------------------
Init ==
    /\ options \in Options
    /\ pc = "listen" /\ attached = FALSE
    /\ retries = 0 /\ received = FALSE /\ counted = 0 /\ taken = 0
    /\ queue = <<>>
    /\ rows = 0 /\ unannounced = 0 /\ announced = 0 /\ foreign = 0 /\ errors = 0
    /\ watermark = 0 /\ handed = <<>>

Step == \/ Listen \/ Broadcast \/ Record \/ DrainDone
        \/ Receive \/ StopWaiting \/ Unlisten

Next ==
    /\ CommitRow \/ Announce \/ NotifyForeign \/ Step \/ DatabaseFails \/ LayerFails
    /\ UNCHANGED options

\* The command takes its next step; psycopg delivers what has arrived.
FairSpec == Init /\ [][Next]_vars /\ WF_vars(Step /\ UNCHANGED options)

-----------------------------------------------------------------------------
CommandTypeOK ==
    /\ pc \in {"listen", "drain", "record", "wait", "unlisten"} \cup Ended
    /\ retries \in 0..errors
    /\ MaxRetries # None => retries <= MaxRetries
    /\ queue \in Seq({"id", "foreign"})
    /\ unannounced \in 0..rows /\ announced \in 0..rows
    /\ watermark \in 0..rows
    /\ ToSet(handed) \subseteq 1..rows

-----------------------------------------------------------------------------
\* handle(): --once hands on one event per attempt at most, so exactly one if no
\* attempt was repeated, though rows may wait at the start, be announced in one
\* packet, or come between LISTEN and the drain.  A repeated attempt may hand on
\* another.  Exit status 0 means that one was handed on.
OnceHandsOnOnePerAttempt ==
    Once =>
        /\ Len(handed) <= retries + 1
        /\ pc = "done" => handed # <<>>

\* _listen_once: the command drains after it started to listen and on every wakeup,
\* so while it waits with nothing in its queue, every row is recorded that was
\* committed when a session last notified, before it listened or while it drained.
\* A row nobody has announced yet may be pending.
NothingAnnouncedIsLeft ==
    ~Once /\ pc = "wait" /\ queue = <<>> => watermark >= announced

\* listen_outbox_event_ids(stop_after=1): without --timeout too, a notification
\* ends the command, even one that is not about a row, unless an error comes first.
OnceEndsWithANotification ==
    Once /\ pc = "wait" /\ queue # <<>> ~> pc \in Ended \cup {"listen"}
=============================================================================
