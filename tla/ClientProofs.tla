---------------------------- MODULE ClientProofs ----------------------------
(***************************************************************************)
(* The client of module Client is one of the clients of module Connection,   *)
(* and its lists miss no member, for every set of filter subscriptions, every  *)
(* backend and every limit.                                                  *)
(***************************************************************************)
EXTENDS Client, ConnectionProofs

-----------------------------------------------------------------------------
(* Its steps are steps of the connection, and only publish() touches a list.  *)

\* What the client keeps, by its types.
LEMMA ListFacts ==
    ASSUME Inv, ResumeInv, NEW s \in Subs
    PROVE  /\ Scope(s) = Objects /\ Kind[s] = "filter"
           /\ resume[s] \in Nat \cup {None} /\ resume[s] \in Int /\ resume[s] <= Len(log)
           /\ resynced[s] \in Nat /\ from[s] \in Nat
           /\ through[s] \in Nat /\ through[s] <= Len(log)
<1>1. Scope(s) = Objects /\ Kind[s] = "filter"
  BY SubsAreFilters DEF Scope
<1>2. held \subseteq 0..Len(log) /\ Len(log) \in Nat
  BY ToldFacts, BackendFacts
<1>3. resume[s] \in held \cup {None}
  BY DEF ResumeInv, Resumes
<1>4. resume[s] \in Nat \cup {None} /\ resume[s] \in Int /\ resume[s] <= Len(log)
  <2>1. CASE resume[s] = None
    BY <1>2, <2>1 DEF None
  <2>2. CASE resume[s] \in held
    <3>1. resume[s] \in 0..Len(log)
      BY <1>2, <2>2
    <3> QED
      BY <1>2, <3>1
  <2> QED
    BY <1>3, <2>1, <2>2
<1>5. through[s] \in Nat /\ resynced[s] \in Nat /\ from[s] \in Nat /\ through[s] <= Len(log)
  BY ToldFacts DEF ToldTo
<1> QED
  BY <1>1, <1>4, <1>5

LEMMA StepIsNext ==
    ASSUME ResumeInv, ConnectionStep
    PROVE  Next
<1>1. \A s \in Subs : resume[s] \in held \cup {None}
  BY DEF ResumeInv, Resumes
<1> QED
  BY <1>1 DEF ConnectionStep, Next, ClientNext

\* A replay of a filter subscription has no events: it is a resync, or nothing.
LEMMA OnlyPublishSends ==
    ASSUME Inv, ResumeInv, ConnectionStep, ~Publish
    PROVE  \A s \in Subs : sent'[s] \in {sent[s], <<>>}
<1>1. CASE CheckReplay \/ Replay \/ Flush
  <2>1. PICK s \in Subs : s = handler.sub
    BY <1>1, HandlerFacts DEF CheckReplay, Replay, Flush, Replying
  <2>2. /\ handler.snapshot \in Nat /\ handler.resync \in Nat /\ handler.events = <<>>
        /\ <<>> \in Seq(Nat)
    BY HandlerFacts, EmptyHasNone DEF ResumeInv
  <2>3. CASE CheckReplay
    BY <2>1, <2>2, <2>3, Told DEF CheckReplay
  <2>4. CASE Replay
    <3>1. handler.asked \in Nat
      BY <2>4, HandlerFacts DEF Replay, Inv, HandlerInv
    <3>2. /\ Answer(s, handler.asked, handler.snapshot).events = <<>>
          /\ Answer(s, handler.asked, handler.snapshot).resync \in Nat
      BY <2>2, <3>1, AnswerFacts, SubsAreFilters
    <3>3. Tell(s, Answer(s, handler.asked, handler.snapshot).events,
                  Answer(s, handler.asked, handler.snapshot).resync)
      BY <2>1, <2>4 DEF Replay
    <3> QED
      BY <2>2, <3>2, <3>3, Told
  <2>5. CASE Flush
    <3>1. Tell(s, handler.events, handler.resync) /\ handler.events \in Seq(Nat)
      BY <2>1, <2>2, <2>5 DEF Flush
    <3> QED
      BY <2>2, <3>1, Told
  <2> QED
    BY <1>1, <2>3, <2>4, <2>5
<1>2. CASE \E s \in Subs : Unsubscribe(s)
  BY <1>2 DEF Unsubscribe, Forget
<1>3. CASE ~(CheckReplay \/ Replay \/ Flush) /\ ~(\E s \in Subs : Unsubscribe(s))
  BY <1>3 DEF ConnectionStep, HandlerNext, Subscribe, ReadSnapshot, CheckLimit, ReadMembers,
         Join, CatchUpLatest, CatchUpEvents, Refresh, Acknowledge, Receive, FetchRow, Published,
         Reads, sessionVars, toldVars
<1> QED
  BY <1>1, <1>2, <1>3

LEMMA ListIsLeftAlone ==
    ASSUME Inv, ResumeInv, ConnectionStep, Applies, ~Publish
    PROVE  UNCHANGED clientVars
<1>1. view' = [s \in Subs |-> view[s]]
  BY OnlyPublishSends DEF Applies
<1>2. view = [s \in Subs |-> view[s]]
  BY DEF ResumeInv
<1> QED
  BY <1>1, <1>2 DEF Applies, clientVars

-----------------------------------------------------------------------------
(* ResumeInv                                                                *)

\* A subscription that the step does not touch.
LEMMA SameResumes ==
    ASSUME Inv, ResumeInv, NEW s \in Subs, held \subseteq held',
           UNCHANGED <<resume[s], resynced[s], sent[s], silent[s], from[s]>>,
           s \in Active' => s \in Active,
           Settling(s)' => s \notin Active \/ Settling(s),
           s \notin Active' => s \notin Active \/ Settling(s),
           Answering(s) => Answering(s)' \/ s \notin Active',
           s \in Active' => through'[s] \in Nat /\ through[s] <= through'[s]
    PROVE  Resumes(s)'
<1>1. resynced[s] \in Nat /\ through[s] \in Nat /\ Resumes(s)
  BY ListFacts DEF ResumeInv
<1> QED
  BY <1>1 DEF Resumes

\* A step that leaves the running handler and the subscriptions alone.
LEMMA SameSetup ==
    ASSUME Inv, ResumeInv, UNCHANGED <<resume, view, handler, from, sent, silent, resynced, Active>>,
           held \subseteq held', UNCHANGED through,
           pc \notin Replying, pc' \notin Asking \cup Replying
    PROVE  ResumeInv'
<1>1. ASSUME NEW s \in Subs PROVE Resumes(s)'
  <2>1. ~Settling(s) /\ ~Settling(s)' /\ ~Answering(s)
    BY DEF Settling, Answering
  <2>2. through'[s] \in Nat /\ through[s] <= through'[s]
    BY ListFacts
  <2> QED
    BY <2>1, <2>2, SameResumes
<1> QED
  BY <1>1 DEF ResumeInv

LEMMA AsksKeepResume ==
    ASSUME Inv, ResumeInv, UNCHANGED clientVars,
           (\E s \in Subs : Subscribe(s, resume[s])) \/ ReadSnapshot \/ CheckLimit \/ ReadMembers
    PROVE  ResumeInv'
<1>1. /\ UNCHANGED <<resume, view, from, sent, silent, resynced, held, through, Active>>
      /\ pc \in {"idle"} \cup Asking /\ pc' \in {"idle"} \cup Asking
  BY DEF Subscribe, ReadSnapshot, CheckLimit, ReadMembers, Reads, Ignore, Goto, activeVars,
         toldVars, clientVars, Active, Asking
<1>2. handler \in Locals
  BY DEF Inv, HandlerInv
<1>3. handler'.events = <<>> /\ (pc' \in Asking => handler'.asked = resume[handler'.sub])
  <2>1. CASE \E s \in Subs : Subscribe(s, resume[s])
    BY <1>2, <2>1 DEF Subscribe, Locals, ResumeInv
  <2>2. CASE ReadSnapshot \/ CheckLimit \/ ReadMembers
    <3>1. /\ pc \in Asking
          /\ \/ pc' = "idle" /\ handler' = NoLocals
             \/ handler'.events = handler.events /\ handler'.asked = handler.asked
                /\ handler'.sub = handler.sub
      BY <1>2, <2>2 DEF ReadSnapshot, CheckLimit, ReadMembers, Ignore, Goto, Locals, Asking
    <3> QED
      BY <3>1, NoLocalsFacts DEF ResumeInv, Asking, Replying
  <2> QED
    BY <2>1, <2>2
<1>4. ASSUME NEW s \in Subs PROVE Resumes(s)'
  <2>1. ~Settling(s) /\ ~Settling(s)' /\ ~Answering(s)
    BY <1>1 DEF Settling, Answering, Asking, Replying
  <2>2. through'[s] \in Nat /\ through[s] <= through'[s]
    BY <1>1, ListFacts
  <2> QED
    BY <1>1, <2>1, <2>2, SameResumes
<1> QED
  BY <1>1, <1>3, <1>4 DEF ResumeInv, Asking, Replying

\* From the registration to the acknowledgement.
LEMMA SetupKeepsResume ==
    ASSUME Inv, ResumeInv, UNCHANGED clientVars,
           Join \/ CatchUpLatest \/ CatchUpEvents \/ Refresh \/ Acknowledge
    PROVE  ResumeInv'
<1>1. PICK s \in Subs : s = handler.sub
  BY HandlerFacts DEF Join, CatchUpLatest, CatchUpEvents, Refresh, Acknowledge, Asking, Replying
<1>2. /\ UNCHANGED <<resume, view, sent, silent, resynced>> /\ held \subseteq held'
      /\ pc \in {"join", "latest", "catch up", "refresh", "ack"}
      /\ pc' \in {"latest", "catch up", "refresh", "ack", "check", "flush"}
      /\ pc' \in {"check", "flush"} => Acknowledge
      /\ pc = "join" <=> Join
  BY DEF Join, CatchUpLatest, CatchUpEvents, Refresh, Acknowledge, Reads, Goto, toldVars, clientVars
<1>3. handler \in Locals
  BY DEF Inv, HandlerInv
<1>4. handler'.sub = s /\ handler'.asked = handler.asked /\ handler'.snapshot = handler.snapshot
  BY <1>1, <1>3 DEF Join, CatchUpLatest, CatchUpEvents, Refresh, Acknowledge, Locals
<1>5. handler'.events = <<>>
  <2>1. CASE CatchUpEvents
    <3>1. Answer(s, handler.snapshot, handler.latest).events = <<>>
      BY HandlerFacts, AnswerFacts, SubsAreFilters
    <3> QED
      BY <1>1, <1>3, <2>1, <3>1 DEF CatchUpEvents, Locals
  <2>2. CASE ~CatchUpEvents
    BY <1>3, <2>2 DEF Join, CatchUpLatest, Refresh, Acknowledge, Locals, ResumeInv
  <2> QED
    BY <2>1, <2>2
<1>6. /\ handler.asked = resume[s] /\ resume[s] <= handler.snapshot
      /\ handler.snapshot \in Nat /\ handler.latest \in Nat
      /\ resynced[s] = 0
      /\ pc = "join" => s \notin Active
      /\ pc # "join" => s \in Active /\ Settling(s) /\ Answering(s)
  <2>1. handler.asked = resume[s]
    BY <1>1, <1>2 DEF ResumeInv, Asking, Replying
  <2>2. handler.asked <= handler.snapshot
    BY <1>2 DEF Inv, HandlerInv
  <2>3. (pc = "join" => s \notin Active) /\ (pc # "join" => s \in Active)
    BY <1>1, <1>2 DEF Inv, HandlerInv, Asking, Replying
  <2>4. pc # "join" => Settling(s) /\ Answering(s)
    BY <1>1, <1>2 DEF Settling, Answering, Replying
  <2>5. resynced[s] = 0
    BY <1>2, <2>3, <2>4, ToldFacts DEF ToldTo
  <2> QED
    BY <2>1, <2>2, <2>3, <2>4, <2>5, HandlerFacts
<1>7. /\ Active' = Active \cup {s} /\ Settling(s)'
      /\ pc' \notin {"check", "flush"} => Answering(s)'
      /\ \A t \in Subs \ {s} : ~Settling(t) /\ ~Settling(t)' /\ ~Answering(t)
  <2>1. Active' = Active \cup {s}
    <3>1. CASE Join
      BY <1>1, <3>1, JoinKeepsGroups
    <3>2. CASE ~Join
      BY <1>1, <1>2, <1>6, <3>2 DEF CatchUpLatest, CatchUpEvents, Refresh, Acknowledge, Reads,
         activeVars, Active
    <3> QED
      BY <3>1, <3>2
  <2> QED
    BY <1>1, <1>2, <1>4, <2>1 DEF Settling, Answering, Replying
<1>8. \A t \in Subs \ {s} : through'[t] = through[t] /\ from'[t] = from[t]
  BY <1>1, ToldFacts DEF Join, CatchUpLatest, CatchUpEvents, Refresh, Acknowledge, Reads,
     activeVars, toldVars
<1>9. ASSUME NEW t \in Subs, t # s PROVE Resumes(t)'
  <2>1. through'[t] \in Nat /\ through[t] <= through'[t] /\ UNCHANGED from[t]
    BY <1>8, <1>9, ListFacts
  <2>2. t \in Active' <=> t \in Active
    BY <1>7, <1>9
  <2> QED
    BY <1>2, <1>7, <1>9, <2>1, <2>2, SameResumes
<1>10. Resumes(s)'
  <2>1. Resumes(s) /\ sent[s] = <<>> /\ silent[s] = {}
    BY <1>6 DEF ResumeInv, Resumes
  <2>2. resynced'[s] <= through'[s]
    <3>1. through'[s] \in Nat
      BY <1>1, <1>6, ListFacts, ToldFacts DEF Join, CatchUpLatest, CatchUpEvents, Refresh,
         Acknowledge, Reads, activeVars, toldVars
    <3>2. resynced'[s] = 0
      BY <1>2, <1>6
    <3> QED
      BY <3>1, <3>2
  <2>3. CASE pc' \in {"check", "flush"}
    <3>1. from' = [from EXCEPT ![s] = IF handler.asked \notin {None, handler.snapshot}
                                      THEN handler.asked ELSE handler.snapshot]
      BY <1>1, <1>2, <2>3 DEF Acknowledge
    <3>2. resume[s] # None => from'[s] = resume[s]
      BY <1>6, <3>1, ToldFacts
    <3> QED
      BY <1>2, <1>6, <1>7, <2>1, <2>2, <3>2 DEF Resumes
  <2>4. CASE pc' \notin {"check", "flush"}
    BY <1>2, <1>6, <1>7, <2>1, <2>2, <2>4 DEF Resumes
  <2> QED
    BY <2>3, <2>4
<1>11. \A t \in Subs : Resumes(t)'
  BY <1>9, <1>10
<1> QED
  BY <1>2, <1>4, <1>5, <1>6, <1>11 DEF ResumeInv, clientVars

\* A message that tells of no event.
LEMMA ToldOfNone ==
    ASSUME Inv, NEW s \in Subs, NEW resync \in Nat, Tell(s, <<>>, resync)
    PROVE  /\ sent' = sent
           /\ \A t \in Subs \ {s} : resynced'[t] = resynced[t]
           /\ resynced'[s] = IF resync = 0 THEN resynced[s] ELSE resync
           /\ held' = held \cup ({resync} \ {0})
<1>1. <<>> \in Seq(Nat) /\ ToSet(<<>>) = {}
  BY EmptyHasNone
<1>2. held' = held \cup ToSet(<<>>) \cup ({resync} \ {0})
  BY DEF Tell
<1>3. /\ sent' = sent
      /\ \A t \in Subs \ {s} : resynced'[t] = resynced[t]
      /\ resynced'[s] = IF resync = 0 THEN resynced[s] ELSE resync
  BY <1>1, Told
<1> QED
  BY <1>1, <1>2, <1>3

\* The replies: a resync, if there is one, is of the snapshot, and that of the
\* catch-up is of the newest cursor.
LEMMA RepliesKeepResume ==
    ASSUME Inv, ResumeInv, UNCHANGED clientVars, CheckReplay \/ Replay \/ Flush
    PROVE  /\ ResumeInv'
           /\ UNCHANGED <<view, resume, sent, silent, through, from, Active>> /\ missed' = missed
           /\ handler.sub \in Subs /\ handler.sub \in Active /\ Settling(handler.sub)
           /\ \A t \in Subs \ {handler.sub} : UNCHANGED resynced[t]
           /\ IF Flush
              THEN /\ pc' = "idle" /\ handler' = NoLocals
                   /\ resynced'[handler.sub] = IF handler.resync = 0 THEN resynced[handler.sub]
                                               ELSE handler.resync
              ELSE /\ pc' \in {"replay", "flush"} /\ handler' = handler
                   /\ resynced[handler.sub] = 0
<1>1. PICK s \in Subs : s = handler.sub
  BY HandlerFacts DEF CheckReplay, Replay, Flush, Replying
<1>2. /\ UNCHANGED <<resume, view, silent, through, from, missed, Active>>
      /\ pc \in {"check", "replay", "flush"} /\ (pc = "flush" <=> Flush)
      /\ IF pc = "flush" THEN pc' = "idle" /\ handler' = NoLocals
                         ELSE pc' \in {"replay", "flush"} /\ handler' = handler
  BY DEF CheckReplay, Replay, Flush, Sends, Goto, Ignore, clientVars, activeVars, Active
<1>3. /\ s \in Active /\ Settling(s) /\ ~Answering(s)
      /\ resume[s] <= handler.snapshot /\ resynced[s] \in {0, handler.snapshot}
      /\ handler.snapshot \in Nat /\ handler.latest \in Nat
      /\ handler.snapshot <= handler.latest /\ through[s] = handler.latest
      /\ handler.events = <<>> /\ handler.resync \in {0, handler.latest}
      /\ pc # "flush" => resynced[s] = 0
  <2>1. s \in Active /\ Settling(s) /\ ~Answering(s)
    BY <1>1, <1>2 DEF Inv, HandlerInv, Settling, Answering, Replying
  <2>2. handler.snapshot <= handler.latest /\ through[s] = handler.latest
    BY <1>1, <1>2 DEF Inv, HandlerInv, ToldInv, LeftToTell, Replying
  <2>3. pc # "flush" => resynced[s] = 0
    BY <2>1, ToldFacts DEF ToldTo
  <2>4. handler.resync \in {0, handler.latest}
    BY DEF Inv, ToldInv, LeftToTell
  <2> QED
    BY <1>1, <1>2, <2>1, <2>2, <2>3, <2>4, HandlerFacts DEF ResumeInv, Replying
<1>4. PICK resync \in Nat :
        /\ sent' = sent
        /\ \A t \in Subs \ {s} : resynced'[t] = resynced[t]
        /\ resynced'[s] = IF resync = 0 THEN resynced[s] ELSE resync
        /\ held' = held \cup ({resync} \ {0})
        /\ IF pc = "flush" THEN resync = handler.resync ELSE resync \in {0, handler.snapshot}
  <2>1. /\ <<>> \in Seq(Nat) /\ ToSet(<<>>) = {} /\ handler.resync \in Nat /\ 0 \in Nat
        /\ handler.snapshot \in Nat
    BY EmptyHasNone, HandlerFacts
  <2>2. CASE CheckReplay /\ handler.asked < trimmed
    <3>1. Tell(s, <<>>, handler.snapshot) /\ pc # "flush"
      BY <1>1, <2>2 DEF CheckReplay
    <3> QED
      BY <2>1, <3>1, ToldOfNone
  <2>3. CASE CheckReplay /\ ~(handler.asked < trimmed)
    <3>1. UNCHANGED <<sent, resynced, held>> /\ pc # "flush"
      BY <2>3 DEF CheckReplay
    <3> QED
      BY <2>1, <3>1
  <2>4. CASE Replay
    <3>1. handler.asked \in Nat
      BY <2>4, HandlerFacts DEF Replay, Inv, HandlerInv
    <3>2. /\ Answer(s, handler.asked, handler.snapshot).events = <<>>
          /\ Answer(s, handler.asked, handler.snapshot).resync \in {0, handler.snapshot}
      BY <2>1, <3>1, AnswerFacts, SubsAreFilters
    <3> DEFINE r == Answer(s, handler.asked, handler.snapshot).resync
    <3>3. Tell(s, <<>>, r) /\ pc # "flush"
      BY <1>1, <2>4, <3>2 DEF Replay
    <3>4. r \in Nat /\ r \in {0, handler.snapshot}
      BY <2>1, <3>2
    <3> HIDE DEF r
    <3> QED
      BY <2>1, <3>3, <3>4, ToldOfNone
  <2>5. CASE Flush
    <3>1. Tell(s, <<>>, handler.resync) /\ pc = "flush"
      BY <1>1, <1>3, <2>5 DEF Flush
    <3> QED
      BY <2>1, <3>1, ToldOfNone
  <2> QED
    BY <2>2, <2>3, <2>4, <2>5
<1>5. ASSUME NEW t \in Subs, t # s PROVE Resumes(t)'
  <2>1. ~Settling(t) /\ ~Settling(t)' /\ ~Answering(t)
    BY <1>1, <1>2, <1>5, NoLocalsFacts DEF Settling, Answering, Replying
  <2>2. through'[t] \in Nat /\ through[t] <= through'[t]
    BY <1>2, ListFacts
  <2> QED
    BY <1>2, <1>4, <1>5, <2>1, <2>2, SameResumes
<1>6. /\ resynced'[s] \in Nat /\ resynced'[s] <= through'[s] /\ resynced'[s] \in held' \cup {0}
      /\ resynced'[s] = 0 => resynced[s] = 0
      /\ pc # "flush" => resynced'[s] \in {0, handler.snapshot}
  <2>1. through'[s] = handler.latest
    BY <1>2, <1>3
  <2>2. resynced[s] \in held \cup {0}
    BY DEF ResumeInv, Resumes
  <2>3. CASE pc = "flush"
    BY <1>3, <1>4, <2>1, <2>2, <2>3
  <2>4. CASE pc # "flush"
    BY <1>3, <1>4, <2>1, <2>2, <2>4
  <2> QED
    BY <2>3, <2>4
<1>7. Resumes(s)'
  <2>1. Resumes(s) /\ sent[s] = <<>> /\ silent[s] = {}
    BY <1>3 DEF ResumeInv, Resumes
  <2> QED
    BY <1>2, <1>3, <1>4, <1>6, <2>1 DEF Resumes
<1>8. \A t \in Subs : Resumes(t)'
  BY <1>5, <1>7
<1>9. ResumeInv'
  <2>1. CASE pc = "flush"
    BY <1>2, <1>8, <2>1, NoLocalsFacts DEF ResumeInv, Asking, Replying
  <2>2. CASE pc # "flush"
    <3>1. handler.asked = resume[s]
      BY <1>1, <1>2, <2>2 DEF ResumeInv, Replying
    <3> QED
      BY <1>1, <1>2, <1>3, <1>6, <1>8, <2>2, <3>1 DEF ResumeInv
  <2> QED
    BY <2>1, <2>2
<1> QED
  BY <1>1, <1>2, <1>3, <1>4, <1>9

LEMMA PublishKeepsResume ==
    ASSUME Inv, ResumeInv, Publish, Applies
    PROVE  ResumeInv'
<1>1. /\ pc = "publish" /\ pc' = "publish" /\ todo # <<>>
      /\ UNCHANGED <<handler, from, Active, event>> /\ resume' = resume
  BY DEF Publish, Applies, activeVars, groupVars, Active
<1>2. PICK s \in Subs : s = Head(todo)
  BY <1>1, MailFacts, Taken
<1>3. IF event <= through[s]
      THEN UNCHANGED <<memberPks, through, sent, silent, resynced, held>>
      ELSE Evaluate(s) /\ through' = [through EXCEPT ![s] = event]
  BY <1>2 DEF Publish
<1>4. s \in Active /\ event \in 1..Len(log) /\ event \in Nat /\ through[s] \in Nat
  <2>1. s \in Active
    BY <1>1, <1>2, MailFacts, Taken
  <2> QED
    BY <1>1, <2>1, MailFacts, ToldFacts DEF Inv, MailInv, Publishing
<1>5. /\ resynced' = resynced /\ held \subseteq held'
      /\ \A t \in Subs \ {s} : /\ UNCHANGED <<through[t], sent[t], silent[t]>>
      /\ through'[s] \in Nat /\ through[s] <= through'[s]
      /\ memberPks' \in [Subs -> SUBSET Objects]
  <2>1. CASE event <= through[s]
    BY <1>3, <1>4, <2>1, ToldFacts
  <2>2. CASE ~(event <= through[s])
    <3>1. Evaluate(s) /\ event > through[s] /\ through' = [through EXCEPT ![s] = event]
      BY <1>3, <1>4, <2>2
    <3>2. /\ resynced' = resynced /\ held \subseteq held'
          /\ \A t \in Subs \ {s} : sent'[t] = sent[t] /\ silent'[t] = silent[t]
          /\ memberPks' \in [Subs -> SUBSET Objects]
      BY <1>4, <3>1, Evaluated
    <3>3. through'[s] = event /\ \A t \in Subs \ {s} : through'[t] = through[t]
      BY <3>1, ToldFacts
    <3> QED
      BY <1>4, <3>1, <3>2, <3>3
  <2> QED
    BY <2>1, <2>2
<1>6. \A t \in Subs : ~Settling(t) /\ ~Settling(t)' /\ ~Answering(t) /\ ~Answering(t)'
  BY <1>1 DEF Settling, Answering, Replying
<1>7. ASSUME NEW t \in Subs, t # s PROVE Resumes(t)'
  <2>1. through'[t] \in Nat /\ through[t] <= through'[t] /\ UNCHANGED from[t]
    BY <1>1, <1>5, <1>7, ListFacts
  <2> QED
    BY <1>1, <1>5, <1>6, <1>7, <2>1, SameResumes
<1>8. Resumes(s)'
  <2>1. Resumes(s) /\ resynced[s] \in Nat
    BY ListFacts DEF ResumeInv
  <2>2. resynced'[s] <= through'[s]
    BY <1>4, <1>5, <2>1 DEF Resumes
  <2> QED
    BY <1>1, <1>4, <1>5, <1>6, <2>1, <2>2 DEF Resumes
<1>9. view' \in [Subs -> SUBSET Objects]
  <2>1. ASSUME NEW t \in Subs PROVE view'[t] \in SUBSET Objects
    <3>1. view[t] \subseteq Objects /\ memberPks'[t] \subseteq Objects
      BY <1>5 DEF ResumeInv
    <3> QED
      BY <3>1 DEF Applies
  <2> QED
    BY <2>1 DEF Applies
<1>10. \A t \in Subs : Resumes(t)'
  BY <1>7, <1>8
<1> QED
  BY <1>1, <1>9, <1>10 DEF ResumeInv, Asking, Replying

LEMMA UnsubscribeKeepsResume ==
    ASSUME Inv, ResumeInv, UNCHANGED clientVars, NEW s \in Subs, Unsubscribe(s)
    PROVE  /\ ResumeInv'
           /\ Active' = Active \ {s} /\ s \in Active /\ pc = "idle" /\ pc' = "idle"
           /\ \A t \in Subs \ {s} : UNCHANGED <<through[t], from[t], resynced[t]>>
           /\ missed' = missed
<1>1. /\ pc = "idle" /\ pc' = "idle" /\ s \in Active /\ Active' = Active \ {s}
      /\ Active \subseteq Subs /\ Forget({s}) /\ UNCHANGED <<handler, held, missed, resume, view>>
  BY GroupFacts, UnsubscribeKeepsGroups DEF Unsubscribe, clientVars
<1>2. /\ \A t \in Subs \ {s} : UNCHANGED <<through[t], from[t], sent[t], silent[t], resynced[t]>>
      /\ sent'[s] = <<>> /\ silent'[s] = {} /\ resynced'[s] = 0
  BY <1>1 DEF Forget
<1>3. \A t \in Subs : ~Settling(t) /\ ~Settling(t)' /\ ~Answering(t)
  BY <1>1 DEF Settling, Answering, Replying
<1>4. ASSUME NEW t \in Subs, t # s PROVE Resumes(t)'
  <2>1. through'[t] \in Nat /\ through[t] <= through'[t]
    BY <1>2, <1>4, ListFacts
  <2> QED
    BY <1>1, <1>2, <1>3, <1>4, <2>1, SameResumes
<1>5. Resumes(s)'
  <2>1. Resumes(s)
    BY DEF ResumeInv
  <2> QED
    BY <1>1, <1>2, <2>1 DEF Resumes
<1>6. \A t \in Subs : Resumes(t)'
  BY <1>4, <1>5
<1> QED
  BY <1>1, <1>2, <1>6 DEF ResumeInv, Asking, Replying

\* The cursor of the resync is that of the running handler, if this has sent one.
LEMMA RefetchKeepsResume ==
    ASSUME Inv, ResumeInv, NEW s \in Subs, Refetch(s)
    PROVE  ResumeInv'
<1>1. /\ s \in Active /\ resynced[s] # 0 /\ resume' = [resume EXCEPT ![s] = resynced[s]]
      /\ view' = [view EXCEPT ![s] = visible] /\ UNCHANGED vars
  BY DEF Refetch
<1>2. /\ UNCHANGED <<pc, handler, through, from, sent, silent, resynced, held, Active>>
      /\ \A t \in Subs : Settling(t)' = Settling(t) /\ Answering(t)' = Answering(t)
  BY <1>1 DEF vars, sessionVars, activeVars, toldVars, Active, Settling, Answering
<1>3. resume'[s] = resynced[s] /\ \A t \in Subs \ {s} : resume'[t] = resume[t]
  BY <1>1 DEF ResumeInv
<1>4. ASSUME NEW t \in Subs, t # s PROVE Resumes(t)'
  <2>1. through'[t] \in Nat /\ through[t] <= through'[t]
    BY <1>2, ListFacts
  <2> QED
    BY <1>2, <1>3, <1>4, <2>1, SameResumes
<1>5. Resumes(s)'
  <2>1. Resumes(s)
    BY DEF ResumeInv
  <2> QED
    BY <1>1, <1>2, <1>3, <2>1 DEF Resumes
<1>6. \A t \in Subs : Resumes(t)'
  BY <1>4, <1>5
<1>7. view' \in [Subs -> SUBSET Objects] /\ resume' \in [Subs -> Nat \cup {None}]
  <2>1. visible \subseteq Objects
    BY DEF Inv, VisibleInv
  <2>2. resynced[s] \in Nat
    BY ListFacts
  <2> QED
    BY <1>1, <2>1, <2>2 DEF ResumeInv
<1>8. pc \in (Asking \cup Replying) \ {"flush"} => handler.sub # s /\ handler.sub \in Subs
  <2>1. pc \in Asking => handler.sub \notin Active
    BY DEF Inv, HandlerInv
  <2>2. pc \in Replying \ {"flush"} /\ handler.sub = s => resynced[s] = 0
    BY ToldFacts DEF ToldTo, Settling
  <2> QED
    BY <1>1, <2>1, <2>2, HandlerFacts
<1>9. pc \in Replying => resume'[handler.sub] <= handler.snapshot
  <2>1. CASE handler.sub = s
    BY <1>1, <1>3, <2>1, HandlerFacts DEF ResumeInv
  <2>2. CASE handler.sub # s
    BY <1>3, <2>2, HandlerFacts DEF ResumeInv
  <2> QED
    BY <2>1, <2>2
<1> QED
  BY <1>2, <1>3, <1>6, <1>7, <1>8, <1>9 DEF ResumeInv

-----------------------------------------------------------------------------
(* The lists                                                                *)

\* A list, and the cursor it has heard of, that the step leaves alone.
LEMMA SameList ==
    ASSUME UNCHANGED world, missed \subseteq missed', NEW s \in Subs, UNCHANGED view[s],
           Followed(s)' => Followed(s) /\ Heard(s)' = Heard(s), LacksNothing(s)
    PROVE  LacksNothing(s)'
<1>1. \A o, c : Coming(o, c) => Coming(o, c)'
  BY StillComing
<1>2. visible' = visible
  BY DEF world, objectVars
<1> QED
  BY <1>1, <1>2 DEF LacksNothing, Coming

\* A write that makes an object visible commits an event of it.
LEMMA BackendKeepsLists ==
    ASSUME Inv, ResumeInv, BackendNext, UNCHANGED sessionVars, UNCHANGED clientVars,
           NEW s \in Subs, LacksNothing(s)
    PROVE  LacksNothing(s)'
<1>1. UNCHANGED <<pc, handler, through, from, resynced, Active, view, resume, missed>>
  BY DEF sessionVars, activeVars, toldVars, clientVars, Active
<1>2. Grows /\ trimmed' \in Nat /\ trimmed \in Nat
  BY GrownFacts, BackendFacts
<1>3. Heard(s)' = Heard(s)
  BY <1>1 DEF Heard, Settling
<1> SUFFICES ASSUME Followed(s)', NEW o \in visible' \ view[s]
             PROVE  Coming(o, Heard(s))'
  BY <1>1, <1>3 DEF LacksNothing, Coming
<1>4. Followed(s)
  <2>1. from[s] \in Nat /\ trimmed <= trimmed'
    BY <1>2, ListFacts DEF Grows
  <2> QED
    BY <1>1, <1>2, <2>1 DEF Followed, Settling
<1>5. Heard(s) \in Nat /\ Heard(s) <= Len(log)
  BY <1>4, ListFacts DEF Followed, Heard
<1>6. o \in Objects
  BY <1>2, GrownFacts DEF BackendInv, VisibleInv
<1>7. CASE o \in visible
  <2>1. Coming(o, Heard(s))
    BY <1>4, <1>7 DEF LacksNothing
  <2>2. \A c \in Nat : c <= Len(log) /\ Coming(o, c) => Coming(o, c)'
    BY BackendKeepsComing
  <2> QED
    BY <1>3, <1>5, <2>1, <2>2 DEF Coming
<1>8. CASE o \notin visible
  BY <1>2, <1>6, <1>8 DEF Grows, Coming
<1> QED
  BY <1>7, <1>8

\* While subscribe() runs, the list counts from the cursor that the client asked
\* from, as it did before.
LEMMA SetupKeepsLists ==
    ASSUME Inv, ResumeInv, UNCHANGED clientVars, NEW s \in Subs, LacksNothing(s),
           (\E t \in Subs : Subscribe(t, resume[t])) \/ ReadSnapshot \/ CheckLimit \/ ReadMembers
           \/ Join \/ CatchUpLatest \/ CatchUpEvents \/ Refresh \/ Acknowledge
           \/ Receive \/ FetchRow \/ Published
    PROVE  LacksNothing(s)'
<1>1. UNCHANGED <<world, view, resume, resynced>> /\ missed \subseteq missed'
  BY DEF Subscribe, ReadSnapshot, CheckLimit, ReadMembers, Join, CatchUpLatest, CatchUpEvents,
         Refresh, Acknowledge, Receive, FetchRow, Published, Reads, backendVars, world, layerVars,
         clientVars, toldVars
<1>2. handler \in Locals
  BY DEF Inv, HandlerInv
<1>3. CASE \/ (\E t \in Subs : Subscribe(t, resume[t])) \/ ReadSnapshot \/ CheckLimit
           \/ ReadMembers \/ Receive \/ FetchRow \/ Published
  <2>1. /\ UNCHANGED <<through, from, Active>>
        /\ pc \notin Replying /\ pc' \notin Replying
    BY <1>3 DEF Subscribe, ReadSnapshot, CheckLimit, ReadMembers, Receive, FetchRow, Published,
         Reads, Ignore, Goto, activeVars, toldVars, Active, Replying
  <2>2. trimmed' = trimmed
    BY <1>1 DEF world, logVars
  <2>3. (Followed(s)' => Followed(s)) /\ Heard(s)' = Heard(s)
    BY <1>1, <2>1, <2>2 DEF Followed, Heard, Settling
  <2> QED
    BY <1>1, <2>3, SameList
<1>4. CASE Join \/ CatchUpLatest \/ CatchUpEvents \/ Refresh \/ Acknowledge
  <2>1. PICK t \in Subs : t = handler.sub
    BY <1>4, HandlerFacts DEF Join, CatchUpLatest, CatchUpEvents, Refresh, Acknowledge, Asking,
       Replying
  <2>2. handler'.sub = t
    BY <1>2, <1>4, <2>1 DEF Join, CatchUpLatest, CatchUpEvents, Refresh, Acknowledge, Locals
  <2>3. /\ pc \in {"join", "latest", "catch up", "refresh", "ack"}
        /\ pc' \in {"latest", "catch up", "refresh", "ack", "check", "flush"}
        /\ pc = "join" <=> Join
    BY <1>4 DEF Join, CatchUpLatest, CatchUpEvents, Refresh, Acknowledge, Goto
  <2>4. /\ \A u \in Subs \ {t} : through'[u] = through[u] /\ from'[u] = from[u]
        /\ Active' = Active \cup {t}
        /\ pc = "join" => t \notin Active
        /\ pc # "join" => t \in Active
    <3>1. \A u \in Subs \ {t} : through'[u] = through[u] /\ from'[u] = from[u]
      BY <1>4, <2>1, ToldFacts DEF Join, CatchUpLatest, CatchUpEvents, Refresh, Acknowledge,
         Reads, activeVars, toldVars
    <3>2. (pc = "join" => t \notin Active) /\ (pc # "join" => t \in Active)
      BY <2>1, <2>3 DEF Inv, HandlerInv, Asking, Replying
    <3>3. CASE Join
      BY <2>1, <3>1, <3>2, <3>3, JoinKeepsGroups
    <3>4. CASE ~Join
      <4>1. Active' = Active
        BY <1>4, <3>4 DEF CatchUpLatest, CatchUpEvents, Refresh, Acknowledge, Reads, activeVars,
           Active
      <4> QED
        BY <2>3, <3>1, <3>2, <3>4, <4>1
    <3> QED
      BY <3>3, <3>4
  <2>5. trimmed' = trimmed
    BY <1>1 DEF world, logVars
  <2>6. CASE s = t
    <3>1. s \notin Active => resynced[s] = 0
      BY ToldFacts DEF ToldTo
    <3>2. Settling(s)' /\ s \in Active' /\ (s \notin Active \/ Settling(s))
      BY <2>1, <2>2, <2>3, <2>4, <2>6 DEF Settling, Replying
    <3>3. (Followed(s)' => Followed(s)) /\ Heard(s)' = Heard(s)
      BY <1>1, <3>1, <3>2 DEF Followed, Heard
    <3> QED
      BY <1>1, <3>3, SameList
  <2>7. CASE s # t
    <3>1. ~Settling(s) /\ ~Settling(s)' /\ (s \in Active' <=> s \in Active)
      BY <2>1, <2>2, <2>4, <2>7 DEF Settling
    <3>2. (Followed(s)' => Followed(s)) /\ Heard(s)' = Heard(s)
      BY <1>1, <2>4, <2>5, <2>7, <3>1 DEF Followed, Heard
    <3> QED
      BY <1>1, <3>2, SameList
  <2> QED
    BY <2>6, <2>7
<1> QED
  BY <1>3, <1>4

\* With the catch-up done the list counts from through_cursor: what the replay and
\* the catch-up left out was trimmed, and then the list is not followed.
LEMMA RepliesKeepLists ==
    ASSUME Inv, ResumeInv, UNCHANGED clientVars, CheckReplay \/ Replay \/ Flush,
           NEW s \in Subs, LacksNothing(s)
    PROVE  LacksNothing(s)'
<1>1. UNCHANGED world
  BY SessionStep, BackendFacts DEF HandlerNext
<1>2. PICK t \in Subs : t = handler.sub
  BY RepliesKeepResume
<1>3. /\ ResumeInv' /\ UNCHANGED <<view, resume, sent, silent, through, from, Active, missed>>
      /\ t \in Active /\ Settling(t)
      /\ \A u \in Subs \ {t} : UNCHANGED resynced[u]
      /\ IF Flush
         THEN /\ pc' = "idle" /\ handler' = NoLocals
              /\ resynced'[t] = IF handler.resync = 0 THEN resynced[t] ELSE handler.resync
         ELSE pc' \in {"replay", "flush"} /\ handler' = handler /\ resynced[t] = 0
  BY <1>2, RepliesKeepResume
<1>4. trimmed' = trimmed
  BY <1>1 DEF world, logVars
<1>5. CASE s # t
  <2>1. ~Settling(s) /\ ~Settling(s)'
    BY <1>2, <1>3, <1>5, NoLocalsFacts DEF Settling, Replying
  <2>2. (Followed(s)' => Followed(s)) /\ Heard(s)' = Heard(s)
    BY <1>3, <1>4, <1>5, <2>1 DEF Followed, Heard
  <2> QED
    BY <1>1, <1>3, <2>2, SameList
<1>6. CASE s = t /\ ~Flush
  <2>1. Settling(s)'
    BY <1>2, <1>3, <1>6 DEF Settling, Replying
  <2>2. (Followed(s)' => Followed(s)) /\ Heard(s)' = Heard(s)
    BY <1>3, <1>6, <2>1 DEF Followed, Heard
  <2> QED
    BY <1>1, <1>3, <2>2, SameList
<1>7. CASE s = t /\ Flush
  <2>1. ~Settling(s)' /\ pc = "flush" /\ pc' = "idle"
    BY <1>3, <1>7, NoLocalsFacts DEF Settling, Replying, Flush
  <2>2. /\ resume[s] \in Nat \cup {None} /\ resume[s] <= handler.snapshot
        /\ resynced[s] \in {0, handler.snapshot} /\ handler.snapshot <= handler.latest
        /\ handler.resync \in {0, handler.latest}
        /\ handler.snapshot \in Nat /\ handler.latest \in Nat /\ resume[s] \in Int
    <3>1. handler.snapshot <= handler.latest
      BY <2>1 DEF Inv, HandlerInv, Replying
    <3>2. handler.resync \in {0, handler.latest}
      BY DEF Inv, ToldInv, LeftToTell
    <3>3. resume[s] <= handler.snapshot /\ resynced[s] \in {0, handler.snapshot}
      BY <1>2, <1>7, <2>1 DEF ResumeInv, Replying
    <3> QED
      BY <3>1, <3>2, <3>3, ListFacts, HandlerFacts
  <2>3. CASE resynced'[s] # 0
    <3>1. Followed(s)' => resynced'[s] = resume[s] /\ resume[s] # None
      BY <1>3, <1>7, <2>3 DEF Followed
    <3>2. resynced'[s] = resume[s] => resynced[s] \in {0, resume[s]}
      BY <1>3, <1>7, <2>2
    <3>3. Followed(s)' => Followed(s)
      BY <1>3, <1>7, <3>1, <3>2 DEF Followed
    <3>4. Heard(s)' = resume[s] /\ Heard(s) = resume[s]
      BY <1>3, <1>7, <2>3 DEF Heard
    <3> QED
      BY <1>1, <1>3, <3>3, <3>4, SameList
  <2>4. CASE resynced'[s] = 0
    <3> SUFFICES ASSUME Followed(s)' PROVE LacksNothing(s)'
      BY DEF LacksNothing
    <3>1. resynced[s] = 0
      BY <1>3, <1>7, <2>2, <2>4
    <3>2. resume[s] # None /\ from[s] >= trimmed /\ from[s] = resume[s]
      <4>1. resume[s] # None /\ from[s] >= trimmed
        BY <1>3, <1>4, <1>7, <2>1, <2>4 DEF Followed
      <4>2. ~Answering(s)
        BY <2>1 DEF Answering
      <4> QED
        BY <1>3, <1>7, <3>1, <4>1, <4>2 DEF ResumeInv, Resumes
    <3>3. Followed(s)
      BY <1>3, <1>7, <3>1, <3>2 DEF Followed
    <3>4. Heard(s) = resume[s] /\ Heard(s)' = through[s]
      BY <1>3, <1>7, <2>1, <2>4 DEF Heard
    <3>5. ASSUME NEW d \in Nat, Subject(d) \in Objects, d > resume[s], d <= through[s]
          PROVE  FALSE
      <4>1. /\ from[s] \in Nat /\ through[s] \in Nat /\ Scope(s) = Objects /\ trimmed \in Nat
        BY ListFacts, BackendFacts
      <4>2. d \in Due(s, from[s], through[s]) /\ d > trimmed /\ d # 0
        BY <3>2, <3>5, <4>1, DueFacts
      <4>3. Next
        BY <1>7 DEF Next, HandlerNext
      <4>4. SkipInv'
        BY <4>3, SkipKept
      <4>5. NoHole(s, from[s], through[s])'
        BY <1>3, <1>7, <2>1, <4>4 DEF SkipInv
      <4>6. UNCHANGED <<about, log>>
        BY <1>1 DEF world, objectVars, logVars
      <4>7. Due(s, from[s], through[s])' = Due(s, from[s], through[s])
        BY <1>3, <4>6 DEF Due, Subject
      <4>8. d \in ToSet(sent[s]) \/ d \in silent[s] \/ d <= resynced'[s]
        BY <1>3, <1>4, <4>2, <4>5, <4>7 DEF NoHole, Answered
      <4>9. sent[s] = <<>> /\ silent[s] = {}
        BY <1>3, <1>7 DEF ResumeInv, Resumes
      <4> QED
        BY <2>4, <4>2, <4>8, <4>9, EmptyHasNone
    <3>6. ASSUME NEW o \in visible \ view[s] PROVE Coming(o, through[s])'
      <4>1. Coming(o, resume[s]) /\ o \in Objects
        BY <3>3, <3>4 DEF LacksNothing, Inv, VisibleInv
      <4>2. through[s] \in Nat /\ resume[s] \in Int
        BY ListFacts
      <4>3. Coming(o, through[s])
        <5>1. ASSUME NEW d \in DOMAIN log, Subject(d) = o, d > resume[s]
              PROVE  d > through[s]
          BY <3>5, <4>1, <4>2, <5>1, BackendFacts
        <5> QED
          BY <4>1, <5>1 DEF Coming
      <4>4. \A c : Coming(o, c) => Coming(o, c)'
        BY <1>1, <1>3, StillComing
      <4> QED
        BY <1>3, <4>3, <4>4 DEF Coming
    <3>7. visible' = visible /\ view'[s] = view[s]
      BY <1>1, <1>3 DEF world, objectVars
    <3> QED
      BY <1>3, <3>4, <3>6, <3>7 DEF LacksNothing, Coming
  <2> QED
    BY <2>3, <2>4
<1> QED
  BY <1>5, <1>6, <1>7

\* The client leaves with a list that it refetched for the last resync.
LEMMA UnsubscribeKeepsLists ==
    ASSUME Inv, ResumeInv, UNCHANGED clientVars, NEW t \in Subs, Leaves(t), Unsubscribe(t),
           NEW s \in Subs, LacksNothing(s)
    PROVE  LacksNothing(s)'
<1>1. UNCHANGED world /\ UNCHANGED <<view, resume>>
  BY SessionStep, BackendFacts DEF ClientNext, clientVars
<1>2. /\ Active' = Active \ {t} /\ t \in Active /\ pc = "idle" /\ pc' = "idle" /\ missed' = missed
      /\ \A u \in Subs \ {t} : UNCHANGED <<through[u], from[u], resynced[u]>>
  BY UnsubscribeKeepsResume
<1>3. ~Settling(s) /\ ~Settling(s)' /\ trimmed' = trimmed
  BY <1>1, <1>2 DEF Settling, Replying, world, logVars
<1>4. CASE s # t
  <2>1. (Followed(s)' => Followed(s)) /\ Heard(s)' = Heard(s)
    BY <1>1, <1>2, <1>3, <1>4 DEF Followed, Heard
  <2> QED
    BY <1>1, <1>2, <2>1, SameList
<1>5. CASE s = t
  <2>1. (Followed(s)' => Followed(s)) /\ Heard(s)' = Heard(s)
    BY <1>1, <1>2, <1>3, <1>5 DEF Followed, Heard, Leaves
  <2> QED
    BY <1>1, <1>2, <2>1, SameList
<1> QED
  BY <1>4, <1>5

\* A list that was just refetched is the set.
LEMMA RefetchKeepsLists ==
    ASSUME Inv, ResumeInv, NEW t \in Subs, Refetch(t), NEW s \in Subs, LacksNothing(s)
    PROVE  LacksNothing(s)'
<1>1. /\ resume' = [resume EXCEPT ![t] = resynced[t]] /\ view' = [view EXCEPT ![t] = visible]
      /\ UNCHANGED vars
  BY DEF Refetch
<1>2. /\ UNCHANGED <<world, pc, handler, through, from, resynced, Active, missed>>
      /\ visible' = visible /\ trimmed' = trimmed
  BY <1>1 DEF vars, backendVars, world, objectVars, logVars, sessionVars, activeVars, toldVars,
     Active
<1>3. CASE s = t
  <2>1. view'[s] = visible'
    BY <1>1, <1>2, <1>3 DEF ResumeInv
  <2> QED
    BY <2>1 DEF LacksNothing
<1>4. CASE s # t
  <2>1. resume'[s] = resume[s] /\ view'[s] = view[s]
    BY <1>1, <1>4 DEF ResumeInv
  <2>2. (Followed(s)' => Followed(s)) /\ Heard(s)' = Heard(s)
    BY <1>2, <2>1 DEF Followed, Heard, Settling
  <2> QED
    BY <1>2, <2>1, <2>2, SameList
<1> QED
  BY <1>3, <1>4

\* publish() of the event at hand brings the list of its subscription to what the
\* user sees of the event's object; of the other objects it overtakes only events
\* that were missed.
LEMMA PublishKeepsLists ==
    ASSUME Inv, ResumeInv, Publish, Applies, Facets \subseteq RegisteredFacets,
           NEW s \in Subs, LacksNothing(s)
    PROVE  LacksNothing(s)'
<1>1. /\ pc = "publish" /\ pc' = "publish" /\ todo # <<>>
      /\ UNCHANGED <<world, handler, from, Active, event, missed>> /\ resume' = resume
  BY DEF Publish, Applies, backendVars, world, layerVars, activeVars, groupVars, Active
<1>2. PICK t \in Subs : t = Head(todo)
  BY <1>1, MailFacts, Taken
<1>3. IF event <= through[t]
      THEN UNCHANGED <<memberPks, through, sent, silent, resynced, held>>
      ELSE Evaluate(t) /\ through' = [through EXCEPT ![t] = event]
  BY <1>2 DEF Publish
<1>4. t \in Active /\ event \in 1..Len(log) /\ event \in Nat /\ through[t] \in Nat
  <2>1. t \in Active
    BY <1>1, <1>2, MailFacts, Taken
  <2> QED
    BY <1>1, <2>1, MailFacts, ToldFacts DEF Inv, MailInv, Publishing
<1>5. ~Settling(s) /\ ~Settling(s)' /\ trimmed' = trimmed /\ visible' = visible
  BY <1>1 DEF Settling, Replying, world, objectVars, logVars
<1>6. CASE s # t \/ event <= through[t]
  <2>1. sent'[s] = sent[s] /\ through'[s] = through[s] /\ resynced'[s] = resynced[s]
    <3>1. CASE event <= through[t]
      BY <1>3, <3>1
    <3>2. CASE s # t /\ ~(event <= through[t])
      <4>1. Evaluate(t) /\ event > through[t] /\ through' = [through EXCEPT ![t] = event]
        BY <1>3, <1>4, <3>2
      <4>2. resynced' = resynced /\ sent'[s] = sent[s]
        BY <1>4, <3>2, <4>1, Evaluated
      <4> QED
        BY <3>2, <4>1, <4>2, ToldFacts
    <3> QED
      BY <1>6, <3>1, <3>2
  <2>2. view'[s] = view[s]
    BY <2>1 DEF Applies
  <2>3. (Followed(s)' => Followed(s)) /\ Heard(s)' = Heard(s)
    BY <1>1, <1>5, <2>1 DEF Followed, Heard
  <2> QED
    BY <1>1, <2>2, <2>3, SameList
<1>7. CASE s = t /\ ~(event <= through[t])
  <2>1. Evaluate(s) /\ event > through[s] /\ through' = [through EXCEPT ![s] = event]
    BY <1>3, <1>4, <1>7
  <2>2. resynced' = resynced /\ through'[s] = event
    <3>1. resynced' = resynced
      BY <1>4, <2>1, Evaluated
    <3> QED
      BY <2>1, <3>1, ToldFacts
  <2>3. Followed(s)' => Followed(s)
    BY <1>1, <1>5, <2>2 DEF Followed
  <2> SUFFICES ASSUME Followed(s)', NEW o \in visible \ view'[s]
               PROVE  Coming(o, Heard(s))'
    BY <1>5 DEF LacksNothing
  <2>4. o \in Objects /\ Scope(s) = Objects
    BY ListFacts DEF Inv, VisibleInv
  <2>5. Heard(s)' = IF resynced[s] = 0 THEN event ELSE resume[s]
    BY <1>1, <1>4, <1>5, <1>7, <2>2 DEF Heard
  <2>6. Heard(s) = IF resynced[s] = 0 THEN through[s] ELSE resume[s]
    BY <1>4, <1>5, <1>7 DEF Heard
  <2>7. resynced[s] # 0 => resume[s] = resynced[s] /\ resynced[s] <= through[s]
    <3>1. resynced[s] # 0 => resume[s] = resynced[s]
      BY <1>4, <1>7, <2>3 DEF Followed
    <3>2. resynced[s] <= through[s]
      BY <1>4, <1>7 DEF ResumeInv, Resumes
    <3> QED
      BY <3>1, <3>2
  <2>8. CASE o = Subject(event)
    <3>1. o \notin memberPks'[s]
      <4> DEFINE r == about[log[event]].op # "deleted" /\ o \in visible
                 before == o \in memberPks[s]
      <4>1. about[log[event]].facet \in RegisteredFacets
        <5>1. event \in DOMAIN log
          BY <1>4, BackendFacts
        <5>2. log[event] \in DOMAIN about /\ about[log[event]] \in Event
          BY <5>1, LogFacts DEF Inv
        <5> QED
          BY <5>2 DEF Event
      <4>2. CASE before \/ r
        <5>1. Tell(s, <<event>>, 0)
          BY <2>1, <2>4, <2>8, <4>1, <4>2 DEF Evaluate
        <5>2. sent'[s] = sent[s] \o <<event>> /\ sent[s] \in Seq(Nat)
          BY <5>1, ToldFacts DEF Tell
        <5>3. sent'[s] \notin {sent[s], <<>>}
          <6>1. Len(sent[s]) \in Nat /\ Len(<<event>>) = 1 /\ <<event>> \in Seq(Nat)
            BY <1>4, <5>2, Elements
          <6>2. Len(sent'[s]) = Len(sent[s]) + 1
            BY <5>2, <6>1, Joined
          <6>3. Len(<<>>) = 0
            OBVIOUS
          <6> QED
            BY <6>1, <6>2, <6>3
        <5>4. view'[s] = IF o \in memberPks'[s] THEN view[s] \cup {o} ELSE view[s] \ {o}
          BY <1>1, <2>8, <5>3 DEF Applies, Subject
        <5> QED
          BY <5>4
      <4>3. CASE ~before /\ ~r
        BY <2>1, <2>8, <4>3, ToldFacts DEF Evaluate
      <4> QED
        BY <4>2, <4>3
    <3>2. Coming(o, event)
      BY <1>4, <2>1, <2>4, <2>8, <3>1, EvaluatedIsCurrent
    <3>3. \A c \in Int : c <= event => Coming(o, c)
      <4>1. \A c \in Int, d \in Nat : c <= event /\ d > event => d > c
        BY <1>4
      <4> QED
        BY <3>2, <4>1, BackendFacts DEF Coming
    <3>4. (IF resynced[s] = 0 THEN event ELSE resume[s]) \in Int
          /\ (IF resynced[s] = 0 THEN event ELSE resume[s]) <= event
      BY <1>4, <1>7, <2>1, <2>7, ListFacts
    <3>5. \A c : Coming(o, c) => Coming(o, c)'
      BY <1>1, StillComing
    <3> QED
      BY <2>5, <3>3, <3>4, <3>5 DEF Coming
  <2>9. CASE o # Subject(event)
    <3>1. o \notin view[s]
      <4>1. \/ view'[s] = view[s] \/ view'[s] = view[s] \cup {Subject(event)}
            \/ view'[s] = view[s] \ {Subject(event)}
        BY DEF Applies
      <4> QED
        BY <2>9, <4>1
    <3>2. Coming(o, Heard(s))
      BY <2>3, <3>1 DEF LacksNothing
    <3>3. CASE resynced[s] # 0
      <4>1. \A c : Coming(o, c) => Coming(o, c)'
        BY <1>1, StillComing
      <4> QED
        BY <2>5, <2>6, <3>2, <3>3, <4>1 DEF Coming
    <3>4. CASE resynced[s] = 0
      <4>1. Coming(o, event)
        <5>1. CASE \E e \in committed : about[e].subject = o
          BY <5>1 DEF Coming
        <5>2. CASE \E d \in DOMAIN log : Subject(d) = o /\ (d > through[s] \/ d \in missed)
          <6>1. PICK d \in DOMAIN log : Subject(d) = o /\ (d > through[s] \/ d \in missed)
            BY <5>2
          <6>2. d \in Nat /\ d # event
            BY <2>9, <6>1, BackendFacts
          <6>3. d < event => d \in missed
            BY <1>1, <1>4, <1>7, <2>4, <6>1, <6>2, OvertakenIsMissed
          <6>4. d > event \/ d \in missed
            BY <1>4, <6>2, <6>3
          <6> QED
            BY <6>1, <6>4 DEF Coming
        <5> QED
          BY <2>6, <3>2, <3>4, <5>1, <5>2 DEF Coming
      <4>2. \A c : Coming(o, c) => Coming(o, c)'
        BY <1>1, StillComing
      <4> QED
        BY <2>5, <3>4, <4>1, <4>2 DEF Coming
    <3> QED
      BY <3>3, <3>4
  <2> QED
    BY <2>8, <2>9
<1> QED
  BY <1>6, <1>7

-----------------------------------------------------------------------------
(* The client is one of the clients of module Connection, and lacks nothing.  *)

\* ListInv, one step on.
LEMMA ListInvKept ==
    ASSUME Inv, ListInv, ListNext
    PROVE  ListInv'
<1>1. ResumeInv
  BY DEF ListInv
<1>2. CASE \E t \in Subs : Refetch(t)
  <2>1. PICK t \in Subs : Refetch(t)
    BY <1>2
  <2>2. ResumeInv' /\ \A s \in Subs : LacksNothing(s) => LacksNothing(s)'
    BY <1>1, <2>1, RefetchKeepsResume, RefetchKeepsLists
  <2>3. missed' = missed
    BY <2>1 DEF Refetch, vars, sessionVars, toldVars
  <2> QED
    BY <2>2, <2>3 DEF ListInv
<1>3. CASE ConnectionStep /\ Applies /\ Publish
  <2>1. missed' = missed
    BY <1>3 DEF Publish
  <2>2. ResumeInv'
    BY <1>1, <1>3, PublishKeepsResume
  <2>3. Facets \subseteq RegisteredFacets =>
          \A s \in Subs : LacksNothing(s) => LacksNothing(s)'
    BY <1>1, <1>3, PublishKeepsLists
  <2> QED
    BY <2>1, <2>2, <2>3 DEF ListInv
<1>4. CASE ConnectionStep /\ Applies /\ ~Publish
  <2>1. UNCHANGED clientVars
    BY <1>1, <1>4, ListIsLeftAlone
  <2>2. ASSUME ResumeInv', missed \subseteq missed',
               \A s \in Subs : LacksNothing(s) => LacksNothing(s)'
        PROVE  ListInv'
    BY <2>2 DEF ListInv
  <2>3. CASE BackendNext /\ UNCHANGED sessionVars
    <3>1. /\ UNCHANGED <<pc, handler, through, from, sent, silent, resynced, held, missed, Active,
                         view, resume>>
          /\ \A s \in Subs : through[s] \in Nat
      BY <2>1, <2>3, ToldFacts DEF sessionVars, activeVars, toldVars, clientVars, Active
    <3>2. ResumeInv'
      <4>1. \A s \in Subs : Settling(s)' = Settling(s) /\ Answering(s)' = Answering(s)
        BY <3>1 DEF Settling, Answering
      <4> QED
        BY <1>1, <3>1, <4>1 DEF ResumeInv, Resumes
    <3> QED
      BY <1>1, <2>1, <2>2, <2>3, <3>1, <3>2, BackendKeepsLists
  <2>4. CASE (\E s \in Subs : Subscribe(s, resume[s])) \/ ReadSnapshot \/ CheckLimit \/ ReadMembers
    <3>1. missed' = missed
      BY <2>4 DEF Subscribe, ReadSnapshot, CheckLimit, ReadMembers, Reads, toldVars
    <3> QED
      BY <1>1, <2>1, <2>2, <2>4, <3>1, AsksKeepResume, SetupKeepsLists
  <2>5. CASE Join \/ CatchUpLatest \/ CatchUpEvents \/ Refresh \/ Acknowledge
    <3>1. missed' = missed
      BY <2>5 DEF Join, CatchUpLatest, CatchUpEvents, Refresh, Acknowledge, Reads, toldVars
    <3> QED
      BY <1>1, <2>1, <2>2, <2>5, <3>1, SetupKeepsResume, SetupKeepsLists
  <2>6. CASE CheckReplay \/ Replay \/ Flush
    BY <1>1, <2>1, <2>2, <2>6, RepliesKeepResume, RepliesKeepLists
  <2>7. CASE Receive \/ FetchRow \/ Published
    <3>1. /\ UNCHANGED <<resume, view, handler, from, sent, silent, resynced, held, through, Active>>
          /\ missed \subseteq missed' /\ pc \notin Replying /\ pc' \notin Asking \cup Replying
      BY <2>1, <2>7 DEF Receive, FetchRow, Published, Goto, activeVars, toldVars, clientVars,
         Active, Asking, Replying
    <3> QED
      BY <1>1, <2>1, <2>2, <2>7, <3>1, SameSetup, SetupKeepsLists
  <2>8. CASE \E s \in Subs : Leaves(s) /\ Unsubscribe(s)
    BY <1>1, <2>1, <2>2, <2>8, UnsubscribeKeepsResume, UnsubscribeKeepsLists
  <2> QED
    BY <1>4, <2>3, <2>4, <2>5, <2>6, <2>7, <2>8 DEF ConnectionStep, HandlerNext
<1> QED
  BY <1>2, <1>3, <1>4 DEF ListNext

\* No subscription was made, so that no list counts yet.
LEMMA InitListInv == ClientInit => ListInv
<1> SUFFICES ASSUME ClientInit PROVE ListInv
  OBVIOUS
<1>1. /\ view = [s \in Subs |-> {}] /\ resume = [s \in Subs |-> None]
      /\ subscriptions = <<>> /\ pc = "idle" /\ handler = NoLocals
      /\ sent = [s \in Subs |-> <<>>] /\ silent = [s \in Subs |-> {}]
      /\ resynced = [s \in Subs |-> 0]
  BY DEF ClientInit, Init, SessionInit
<1>2. Active = {}
  BY <1>1, EmptyHasNone DEF Active
<1>3. ResumeInv
  BY <1>1, <1>2, NoLocalsFacts DEF ResumeInv, Resumes, Settling, Asking, Replying
<1>4. \A s \in Subs : LacksNothing(s)
  BY <1>1 DEF LacksNothing, Followed
<1> QED
  BY <1>3, <1>4 DEF ListInv

LEMMA SameListInv ==
    ASSUME ListInv, UNCHANGED <<vars, clientVars>>
    PROVE  ListInv'
<1>1. UNCHANGED <<visible, about, committed, log, trimmed, pc, handler, subscriptions, through,
                  from, sent, silent, resynced, held, missed, view, resume>>
  BY DEF vars, backendVars, objectVars, logVars, sessionVars, activeVars, toldVars, clientVars
<1>2. UNCHANGED <<Active>> /\ \A s : Settling(s)' = Settling(s) /\ Answering(s)' = Answering(s)
  BY <1>1 DEF Active, Settling, Answering
<1>3. ResumeInv'
  BY <1>1, <1>2 DEF ListInv, ResumeInv, Resumes
<1>4. \A s \in Subs : LacksNothing(s)' = LacksNothing(s)
  BY <1>1, <1>2 DEF LacksNothing, Followed, Heard, Coming, Subject
<1> QED
  BY <1>1, <1>3, <1>4 DEF ListInv

\* What the client keeps agrees with what it was told, whatever it resumes from
\* and however often it is told to fetch again.
THEOREM ListInvIsInvariant == ClientSpec => [](Inv /\ ListInv)
<1>1. ClientInit => Inv /\ ListInv
  BY InitInv, InitListInv DEF ClientInit
<1>2. ASSUME Inv /\ ListInv, [ListNext]_<<vars, clientVars>>
      PROVE  (Inv /\ ListInv)'
  <2>1. CASE ListNext
    <3>1. Next \/ UNCHANGED vars
      BY <1>2, <2>1, StepIsNext DEF ListNext, ListInv, Refetch
    <3>2. Inv'
      BY <1>2, <3>1, InvStep, StutterInv
    <3> QED
      BY <1>2, <2>1, <3>2, ListInvKept
  <2>2. CASE UNCHANGED <<vars, clientVars>>
    BY <1>2, <2>2, StutterInv, SameListInv
  <2> QED
    BY <1>2, <2>1, <2>2
<1> QED
  BY <1>1, <1>2, PTL DEF ClientSpec

\* The client of module Client is a client of module Connection: the runs and the
\* theorems of that module speak of it too.
THEOREM ClientIsAClient == ClientSpec => Spec
<1>1. ClientInit => Init
  BY DEF ClientInit
<1>2. ASSUME ListInv, [ListNext]_<<vars, clientVars>>
      PROVE  [Next]_vars
  BY <1>2, StepIsNext DEF ListNext, ListInv, Refetch
<1> QED
  BY <1>1, <1>2, ListInvIsInvariant, PTL DEF ClientSpec, Spec

\* A client that resumed as the README asks it to lacks no object once the system
\* is quiet, if the registration lists the facets that events have.
THEOREM ClientsLackNoMember ==
    ASSUME Facets \subseteq RegisteredFacets
    PROVE  ClientSpec => []NoMemberIsMissing
<1>1. Inv /\ ListInv => NoMemberIsMissing
  <2> SUFFICES ASSUME Inv, ListInv, Quiet, missed = {}, NEW s \in Resumed, from[s] >= trimmed,
                      NEW o \in visible, o \notin view[s]
               PROVE  FALSE
    BY DEF NoMemberIsMissing
  <2>1. pc = "idle" /\ mailbox = <<>> /\ committed = {} /\ recorded = Len(log)
    BY DEF Quiet
  <2>2. s \in Active /\ s \in Subs /\ resume[s] # None /\ resynced[s] = 0 /\ ~Settling(s)
    BY <2>1, GroupFacts DEF Resumed, Settling, Replying
  <2>3. Followed(s) /\ Heard(s) = through[s] /\ LacksNothing(s)
    BY <2>2 DEF Followed, Heard, ListInv
  <2>4. Coming(o, through[s])
    BY <2>3 DEF LacksNothing
  <2>5. PICK d \in DOMAIN log : Subject(d) = o /\ d > through[s]
    BY <2>1, <2>4 DEF Coming
  <2>6. o \in Objects /\ Scope(s) = Objects
    BY <2>2, ListFacts DEF Inv, VisibleInv, ListInv
  <2>7. d \in Nat /\ d # 0 /\ d <= reached
    BY <2>1, BackendFacts
  <2>8. Horizon(s) = through[s] /\ WentOut(s, d)
    BY <2>2, <2>7 DEF Horizon, WentOut
  <2>9. d \in Pending
    BY <2>1, <2>2, <2>5, <2>6, <2>8 DEF Inv, PendingInv
  <2>10. event = 0
    BY <2>1 DEF Inv, MailInv, Publishing
  <2> QED
    BY <2>1, <2>7, <2>9, <2>10, EmptyHasNone DEF Pending
<1> QED
  BY <1>1, ListInvIsInvariant, PTL
=============================================================================
