------------------------- MODULE ListenCommandProofs -------------------------
(***************************************************************************)
(* The inductive invariant of module ListenCommand, for every limit of        *)
(* retries, any number of rows, foreign notifications and errors, and every    *)
(* combination of options.                                                  *)
(***************************************************************************)
EXTENDS ListenCommand, SequenceTheorems, TLAPS

-----------------------------------------------------------------------------
(* The inductive invariant                                                 *)

\* In an attempt with --once nothing was received before the drain that ends it,
\* and each attempt before it handed on one event at most.
OnceInv ==
    Once =>
        /\ pc \in {"listen", "drain", "record", "wait"} => ~received /\ counted = 0
        /\ received \/ pc \in {"record", "done"} => handed # <<>>
        /\ Len(handed) <= retries + (IF pc \in {"listen", "drain", "wait"} THEN 0 ELSE 1)

\* Without --once a wakeup is in the queue for what was announced during the wait.
WakeupInv ==
    ~Once /\ pc = "wait" /\ watermark < announced => "id" \in ToSet(queue)

CommandInv ==
    /\ CommandTypeOK
    /\ options \in Options /\ errors \in Nat /\ rows \in Nat
    /\ received \in BOOLEAN /\ counted \in Nat /\ handed \in Seq(Nat)
    /\ pc = "record" => watermark < rows
    /\ OnceInv
    /\ WakeupInv

-----------------------------------------------------------------------------
(* Sequences: the queue and what was handed on.                             *)

LEMMA AppendFacts ==
    ASSUME NEW S, NEW q \in Seq(S), NEW x \in S
    PROVE  /\ Append(q, x) \in Seq(S) /\ Len(Append(q, x)) = Len(q) + 1 /\ Len(q) \in Nat
           /\ Append(q, x) # <<>>
           /\ ToSet(Append(q, x)) = ToSet(q) \cup {x}
<1>1. /\ Append(q, x) \in Seq(S) /\ Len(Append(q, x)) = Len(q) + 1 /\ Len(q) \in Nat
      /\ \A i \in 1..Len(q) : Append(q, x)[i] = q[i]
      /\ Append(q, x)[Len(q) + 1] = x
      /\ Append(q, x) # <<>>
  BY AppendProperties, LenProperties
<1>2. /\ DOMAIN q = 1..Len(q) /\ DOMAIN Append(q, x) = 1..(Len(q) + 1)
  BY <1>1, LenProperties
<1>3. ToSet(Append(q, x)) \subseteq ToSet(q) \cup {x}
  <2> SUFFICES ASSUME NEW i \in 1..(Len(q) + 1) PROVE Append(q, x)[i] \in ToSet(q) \cup {x}
    BY <1>2 DEF ToSet
  <2>1. i \in 1..Len(q) \/ i = Len(q) + 1
    BY <1>1
  <2> QED
    BY <1>1, <1>2, <2>1 DEF ToSet
<1>4. ToSet(q) \cup {x} \subseteq ToSet(Append(q, x))
  <2>1. 1..Len(q) \subseteq 1..(Len(q) + 1) /\ Len(q) + 1 \in 1..(Len(q) + 1)
    BY <1>1
  <2> QED
    BY <1>1, <1>2, <2>1 DEF ToSet
<1> QED
  BY <1>1, <1>3, <1>4

LEMMA TailFacts ==
    ASSUME NEW S, NEW q \in Seq(S), q # <<>>
    PROVE  /\ Tail(q) \in Seq(S) /\ Head(q) \in S
           /\ ToSet(q) = {Head(q)} \cup ToSet(Tail(q))
<1>1. /\ Tail(q) \in Seq(S) /\ Head(q) \in S /\ Head(q) = q[1]
      /\ Len(q) \in Nat \ {0} /\ Len(Tail(q)) = Len(q) - 1
      /\ \A i \in 1..(Len(q) - 1) : Tail(q)[i] = q[i + 1]
  BY HeadTailProperties, LenProperties, EmptySeq
<1>2. DOMAIN q = 1..Len(q) /\ DOMAIN Tail(q) = 1..(Len(q) - 1)
  BY <1>1, LenProperties
<1>3. ToSet(q) \subseteq {Head(q)} \cup ToSet(Tail(q))
  <2> SUFFICES ASSUME NEW i \in 1..Len(q) PROVE q[i] \in {q[1]} \cup ToSet(Tail(q))
    BY <1>1, <1>2 DEF ToSet
  <2>1. CASE i = 1
    BY <2>1
  <2>2. CASE i # 1
    <3>1. i - 1 \in 1..(Len(q) - 1) /\ (i - 1) + 1 = i
      BY <1>1, <2>2
    <3> QED
      BY <1>1, <1>2, <3>1 DEF ToSet
  <2> QED
    BY <2>1, <2>2
<1>4. {Head(q)} \cup ToSet(Tail(q)) \subseteq ToSet(q)
  <2>1. 1 \in 1..Len(q) /\ \A i \in 1..(Len(q) - 1) : i + 1 \in 1..Len(q)
    BY <1>1
  <2> QED
    BY <1>1, <1>2, <2>1 DEF ToSet
<1> QED
  BY <1>1, <1>3, <1>4

LEMMA NothingQueued == ToSet(<<>>) = {} /\ Len(<<>>) = 0 /\ \A S : <<>> \in Seq(S)
<1>1. DOMAIN <<>> = {}
  OBVIOUS
<1> QED
  BY <1>1, EmptySeq DEF ToSet

-----------------------------------------------------------------------------
(* The steps                                                                *)

LEMMA InitCommandInv == Init => CommandInv
<1>1. \A o \in Options : o.maxRetries \in Nat \cup {None}
  BY LimitsAreValid DEF Options
<1> SUFFICES ASSUME Init PROVE CommandInv
  OBVIOUS
<1>2. /\ options \in Options /\ pc = "listen" /\ retries = 0 /\ errors = 0 /\ rows = 0
      /\ received = FALSE /\ counted = 0 /\ queue = <<>> /\ handed = <<>> /\ watermark = 0
      /\ unannounced = 0 /\ announced = 0
  BY DEF Init
<1>3. MaxRetries # None => retries <= MaxRetries
  BY <1>1, <1>2 DEF MaxRetries
<1>4. CommandTypeOK
  BY <1>2, <1>3, NothingQueued DEF CommandTypeOK
<1>5. OnceInv /\ WakeupInv
  BY <1>2, NothingQueued DEF OnceInv, WakeupInv
<1> QED
  BY <1>2, <1>4, <1>5, NothingQueued DEF CommandInv

\* Rows and notifications come whenever they like.
LEMMA WorldKeepsInv ==
    ASSUME CommandInv, CommitRow \/ Announce \/ NotifyForeign, UNCHANGED options
    PROVE  CommandInv'
<1>1. UNCHANGED <<options, commandVars, errors, watermark, handed>>
  BY DEF CommitRow, Announce, NotifyForeign
<1>2. /\ queue \in Seq({"id", "foreign"}) /\ watermark \in 0..rows /\ rows \in Nat
      /\ unannounced \in 0..rows /\ announced \in 0..rows /\ ToSet(handed) \subseteq 1..rows
  BY DEF CommandInv, CommandTypeOK
<1>3. /\ rows' \in {rows, rows + 1} /\ unannounced' \in 0..rows' /\ announced' \in {announced, rows'}
      /\ UNCHANGED queue \/ (\E payload \in {"id", "foreign"} : Notify(payload))
      /\ announced' # announced => Notify("id")
  BY <1>2 DEF CommitRow, Announce, NotifyForeign, Announces
<1>4. ASSUME NEW payload \in {"id", "foreign"}
      PROVE  /\ Append(queue, payload) \in Seq({"id", "foreign"})
             /\ ToSet(Append(queue, payload)) = ToSet(queue) \cup {payload}
  BY <1>2, AppendFacts
<1>5. queue' \in Seq({"id", "foreign"}) /\ ToSet(queue) \subseteq ToSet(queue')
  BY <1>2, <1>3, <1>4 DEF Notify
<1>6. rows' \in Nat /\ announced' \in 0..rows' /\ watermark \in 0..rows' /\ ToSet(handed) \subseteq 1..rows'
  BY <1>2, <1>3
<1>7. CommandTypeOK'
  BY <1>1, <1>3, <1>5, <1>6 DEF CommandInv, CommandTypeOK, commandVars, MaxRetries
<1>8. OnceInv'
  BY <1>1 DEF CommandInv, OnceInv, commandVars, Once
<1>9. WakeupInv'
  <2> SUFFICES ASSUME ~Once, pc = "wait", watermark < announced' PROVE "id" \in ToSet(queue')
    BY <1>1 DEF WakeupInv, commandVars, Once
  <2>1. CASE announced' = announced
    BY <1>5, <2>1 DEF CommandInv, WakeupInv
  <2>2. CASE announced' # announced
    BY <1>3, <1>4, <2>2 DEF Notify, Listening, Ended
  <2> QED
    BY <2>1, <2>2
<1>10. pc' = "record" => watermark' < rows'
  BY <1>1, <1>2, <1>3 DEF CommandInv, commandVars
<1> QED
  BY <1>1, <1>6, <1>7, <1>8, <1>9, <1>10 DEF CommandInv, commandVars

\* One attempt: LISTEN, the drains, and the waits between them.
LEMMA StepKeepsInv ==
    ASSUME CommandInv, Step, UNCHANGED options
    PROVE  CommandInv'
<1>1. /\ UNCHANGED <<options, rows, unannounced, announced, errors, retries>>
  BY DEF Step, Listen, Broadcast, Record, DrainDone, Receive, StopWaiting, Unlisten, worldVars
<1>2. /\ queue \in Seq({"id", "foreign"}) /\ watermark \in 0..rows /\ rows \in Nat
      /\ unannounced \in 0..rows /\ announced \in 0..rows
      /\ retries \in 0..errors /\ (MaxRetries # None => retries <= MaxRetries)
      /\ ToSet(handed) \subseteq 1..rows /\ handed \in Seq(Nat)
      /\ received \in BOOLEAN /\ counted \in Nat /\ options \in Options /\ errors \in Nat
  BY DEF CommandInv, CommandTypeOK
<1>3. Once' = Once /\ MaxRetries' = MaxRetries
  BY <1>1 DEF Once, MaxRetries
<1>4. CASE Listen
  <2>1. /\ pc = "listen" /\ pc' = "drain"
        /\ UNCHANGED <<received, counted, queue, watermark, handed>>
    BY <1>4 DEF Listen
  <2> QED
    BY <1>1, <1>2, <1>3, <2>1 DEF CommandInv, CommandTypeOK, OnceInv, WakeupInv
<1>5. CASE Broadcast
  <2>1. /\ pc = "drain" /\ pc' = "record" /\ watermark < rows /\ handed' = Append(handed, watermark + 1)
        /\ UNCHANGED <<received, counted, queue, watermark>>
    BY <1>5 DEF Broadcast
  <2>2. watermark + 1 \in Nat /\ watermark + 1 \in 1..rows
    BY <1>2, <2>1
  <2>3. /\ handed' \in Seq(Nat) /\ Len(handed') = Len(handed) + 1 /\ Len(handed) \in Nat
        /\ handed' # <<>> /\ ToSet(handed') \subseteq 1..rows
    <3> DEFINE h == Append(handed, watermark + 1)
    <3>1. /\ h \in Seq(Nat) /\ Len(h) = Len(handed) + 1 /\ Len(handed) \in Nat /\ h # <<>>
          /\ ToSet(h) = ToSet(handed) \cup {watermark + 1}
      BY <1>2, <2>2, AppendFacts
    <3> QED
      BY <1>2, <2>1, <2>2, <3>1
  <2>4. OnceInv'
    BY <1>1, <1>2, <1>3, <2>1, <2>3 DEF CommandInv, OnceInv
  <2> QED
    BY <1>1, <1>2, <1>3, <2>1, <2>3, <2>4 DEF CommandInv, CommandTypeOK, WakeupInv
<1>6. CASE Record
  <2>1. /\ pc = "record" /\ watermark' = watermark + 1 /\ UNCHANGED <<queue, handed>>
        /\ IF Once THEN Drained(counted + 1)
           ELSE pc' = "drain" /\ counted' = counted + 1 /\ UNCHANGED received
    BY <1>6 DEF Record
  <2>2. watermark < rows /\ watermark' \in 0..rows
    <3>1. watermark < rows
      BY <2>1 DEF CommandInv
    <3> QED
      BY <1>2, <2>1, <3>1
  <2>3. CASE Once
    <3>1. received' = TRUE /\ counted' = 0 /\ pc' \in {"unlisten", "done"}
      <4>1. counted + 1 > 0
        BY <1>2
      <4> QED
        BY <2>1, <2>3, <4>1 DEF Drained, Once
    <3>2. OnceInv'
      BY <1>1, <1>3, <2>1, <3>1 DEF CommandInv, OnceInv
    <3> QED
      BY <1>1, <1>2, <1>3, <2>1, <2>2, <3>1, <3>2 DEF CommandInv, CommandTypeOK, WakeupInv, Ended
  <2>4. CASE ~Once
    BY <1>1, <1>2, <1>3, <2>1, <2>2, <2>4 DEF CommandInv, CommandTypeOK, OnceInv, WakeupInv
  <2> QED
    BY <2>3, <2>4
<1>7. CASE DrainDone
  <2>1. /\ pc = "drain" /\ watermark = rows /\ UNCHANGED <<queue, handed, watermark>>
        /\ received' = (received \/ counted > 0) /\ counted' = 0
        /\ pc' \in {"wait", "unlisten", "done"} /\ received' \in BOOLEAN
        /\ Once /\ ~received' => pc' = "wait"
        /\ pc' # "wait" => Once /\ received'
    BY <1>7 DEF DrainDone, Drained
  <2>2. OnceInv'
    BY <1>1, <1>2, <1>3, <2>1 DEF CommandInv, OnceInv
  <2>3. WakeupInv'
    BY <1>1, <1>2, <2>1 DEF WakeupInv
  <2> QED
    BY <1>1, <1>2, <1>3, <2>1, <2>2, <2>3 DEF CommandInv, CommandTypeOK, Ended
<1>8. CASE Receive
  <2>1. /\ pc = "wait" /\ queue # <<>> /\ queue' = Tail(queue)
        /\ pc' = IF Head(queue) = "id" THEN "drain" ELSE "wait"
        /\ UNCHANGED <<received, counted, watermark, handed>>
    BY <1>8 DEF Receive
  <2>2. queue' \in Seq({"id", "foreign"}) /\ ToSet(queue) = {Head(queue)} \cup ToSet(queue')
    BY <1>2, <2>1, TailFacts
  <2>3. OnceInv'
    BY <1>1, <1>3, <2>1 DEF CommandInv, OnceInv
  <2>4. WakeupInv'
    BY <1>1, <1>3, <2>1, <2>2 DEF CommandInv, WakeupInv
  <2> QED
    BY <1>1, <1>2, <1>3, <2>1, <2>2, <2>3, <2>4 DEF CommandInv, CommandTypeOK
<1>9. CASE StopWaiting
  <2>1. /\ pc = "wait" /\ pc' = "unlisten"
        /\ UNCHANGED <<received, counted, queue, watermark, handed>>
    BY <1>9 DEF StopWaiting
  <2>2. OnceInv'
    BY <1>1, <1>2, <1>3, <2>1 DEF CommandInv, OnceInv
  <2> QED
    BY <1>1, <1>2, <1>3, <2>1, <2>2 DEF CommandInv, CommandTypeOK, WakeupInv
<1>10. CASE Unlisten
  <2>1. /\ pc = "unlisten" /\ pc' = IF Once /\ ~received THEN "nothing received" ELSE "done"
        /\ UNCHANGED <<received, counted, queue, watermark, handed>>
    BY <1>10 DEF Unlisten
  <2>2. OnceInv'
    BY <1>1, <1>3, <2>1 DEF CommandInv, OnceInv
  <2> QED
    BY <1>1, <1>2, <1>3, <2>1, <2>2 DEF CommandInv, CommandTypeOK, WakeupInv, Ended
<1> QED
  BY <1>4, <1>5, <1>6, <1>7, <1>8, <1>9, <1>10 DEF Step

\* An error ends the attempt or the command; the record may have been saved.
LEMMA FailuresKeepInv ==
    ASSUME CommandInv, DatabaseFails \/ LayerFails, UNCHANGED options
    PROVE  CommandInv'
<1>1. /\ queue \in Seq({"id", "foreign"}) /\ watermark \in 0..rows /\ rows \in Nat
      /\ unannounced \in 0..rows /\ announced \in 0..rows
      /\ retries \in 0..errors /\ (MaxRetries # None => retries <= MaxRetries)
      /\ ToSet(handed) \subseteq 1..rows /\ handed \in Seq(Nat)
      /\ received \in BOOLEAN /\ counted \in Nat /\ options \in Options /\ errors \in Nat
      /\ pc = "record" => watermark < rows
  BY DEF CommandInv, CommandTypeOK
<1>2. Once' = Once /\ MaxRetries' = MaxRetries /\ UNCHANGED <<rows, unannounced, announced, handed>> /\ errors' = errors + 1
  BY DEF Once, MaxRetries, DatabaseFails, LayerFails
<1>3. MaxRetries \in Nat \cup {None}
  BY <1>1, LimitsAreValid DEF MaxRetries, Options
<1>4. Len(handed) \in Nat
  BY <1>1, LenProperties
<1>5. CASE DatabaseFails
  <2>1. /\ pc \notin Ended
        /\ received' = FALSE /\ counted' = 0 /\ queue' = <<>>
        /\ watermark' \in {watermark} \cup (IF pc = "record" THEN {watermark + 1} ELSE {})
        /\ IF RetriesSpent THEN pc' = "failed" /\ UNCHANGED retries
           ELSE pc' = "listen" /\ retries' = retries + 1
    BY <1>5 DEF DatabaseFails
  <2>2. watermark' \in 0..rows
    BY <1>1, <2>1
  <2>3. retries' \in 0..errors' /\ (MaxRetries # None => retries' <= MaxRetries)
    BY <1>1, <1>2, <1>3, <2>1 DEF RetriesSpent
  <2>5. queue' \in Seq({"id", "foreign"})
    BY <2>1, NothingQueued
  <2>6. OnceInv'
    <3> SUFFICES ASSUME Once
                 PROVE  /\ counted' = 0 /\ ~received' /\ pc' \notin {"record", "done"}
                        /\ Len(handed') <= retries' +
                             (IF pc' \in {"listen", "drain", "wait"} THEN 0 ELSE 1)
      BY <1>2 DEF OnceInv
    <3>1. Len(handed) <= retries + 1
      BY <1>1, <1>4 DEF CommandInv, OnceInv
    <3>2. Len(handed) <= retries + (IF pc \in {"listen", "drain", "wait"} THEN 0 ELSE 1)
      BY DEF CommandInv, OnceInv
    <3>3. Len(handed) <= retries' + (IF pc' \in {"listen", "drain", "wait"} THEN 0 ELSE 1)
      BY <1>1, <1>4, <2>1, <3>1, <3>2
    <3> QED
      BY <1>2, <2>1, <3>3
  <2>7. pc' \in {"failed", "listen"}
    BY <2>1
  <2>8. CommandTypeOK'
    BY <1>1, <1>2, <2>2, <2>3, <2>5, <2>7 DEF CommandTypeOK, Ended
  <2>9. UNCHANGED <<options, rows, unannounced, announced, handed>> /\ errors' \in Nat
    BY <1>1, <1>2
  <2> QED
    BY <1>1, <2>1, <2>6, <2>7, <2>8, <2>9 DEF CommandInv, WakeupInv
<1>6. CASE LayerFails
  <2>1. /\ pc = "drain" /\ pc' = "failed"
        /\ UNCHANGED <<retries, received, counted, queue, watermark>>
    BY <1>6 DEF LayerFails
  <2>2. OnceInv'
    BY <1>1, <1>2, <1>4, <2>1 DEF CommandInv, OnceInv
  <2> QED
    BY <1>1, <1>2, <2>1, <2>2 DEF CommandInv, CommandTypeOK, WakeupInv, Ended
<1> QED
  BY <1>5, <1>6

-----------------------------------------------------------------------------
(* The theorems                                                             *)

\* What the command's locals say of the attempt is true, whatever arrives and
\* whatever fails.
LEMMA CommandInvIsInvariant == Init /\ [][Next]_vars => []CommandInv
<1>1. ASSUME CommandInv, [Next]_vars PROVE CommandInv'
  <2>1. CASE Next
    BY <1>1, <2>1, WorldKeepsInv, StepKeepsInv, FailuresKeepInv DEF Next
  <2>2. CASE UNCHANGED vars
    BY <1>1, <2>2 DEF CommandInv, CommandTypeOK, OnceInv, WakeupInv, vars, commandVars, worldVars,
       Once, MaxRetries
  <2> QED
    BY <1>1, <2>1, <2>2
<1> QED
  BY InitCommandInv, <1>1, PTL

\* The command retries at most as often as --max-retries says, and hands on rows
\* that exist.
THEOREM TypesOfCommand == FairSpec => []CommandTypeOK
<1>1. CommandInv => CommandTypeOK
  BY DEF CommandInv
<1> QED
  BY <1>1, CommandInvIsInvariant, PTL DEF FairSpec

\* handle(): --once hands on one event per attempt at most, and exit status 0 means
\* that there was one.
THEOREM OnceHandsOnOne == FairSpec => []OnceHandsOnOnePerAttempt
<1>1. CommandInv => OnceHandsOnOnePerAttempt
  <2> SUFFICES ASSUME CommandInv, Once
               PROVE  Len(handed) <= retries + 1 /\ (pc = "done" => handed # <<>>)
    BY DEF OnceHandsOnOnePerAttempt
  <2>1. Len(handed) \in Nat /\ retries \in Nat
    BY LenProperties DEF CommandInv, CommandTypeOK
  <2> QED
    BY <2>1 DEF CommandInv, OnceInv
<1> QED
  BY <1>1, CommandInvIsInvariant, PTL DEF FairSpec

\* The command never waits for a notification while a row is pending whose session
\* has notified: no notification falls between LISTEN, the drains and the waits.
THEOREM WaitingMeansDrained == FairSpec => []NothingAnnouncedIsLeft
<1>1. CommandInv => NothingAnnouncedIsLeft
  <2> SUFFICES ASSUME CommandInv, ~Once, pc = "wait", queue = <<>> PROVE watermark >= announced
    BY DEF NothingAnnouncedIsLeft
  <2>1. watermark \in 0..rows /\ announced \in 0..rows /\ rows \in Nat /\ ~(watermark < announced)
    BY NothingQueued DEF CommandInv, CommandTypeOK, WakeupInv
  <2> QED
    BY <2>1
<1> QED
  BY <1>1, CommandInvIsInvariant, PTL DEF FairSpec
=============================================================================
