-------------------------- MODULE ConnectionProofs --------------------------
(***************************************************************************)
(* The inductive invariant of module Connection, part by part, and what      *)
(* follows from it, for every set of objects, facets and subscriptions and    *)
(* every value of the limits and bounds.                                     *)
(***************************************************************************)
EXTENDS ConnectionLemmas

-----------------------------------------------------------------------------
(* What the invariant says of the types, and what the queries return.        *)

LEMMA ScopeFacts ==
    ASSUME NEW s \in Subs
    PROVE  /\ Scope(s) \subseteq Objects /\ Group(s) \in Groups
           /\ Kind[s] \in {"object", "filter"} /\ Pk[s] \in Objects
           /\ s # None
           /\ Matches(s) \subseteq Scope(s)
BY KindsOfSubs, NoneIsNoId DEF Scope, Group, Groups, Matches

\* Inv, by the types of the numbers.
LEMMA BackendFacts ==
    ASSUME Inv
    PROVE  /\ BackendInv
           /\ Len(log) \in Nat /\ DOMAIN log = 1..Len(log)
           /\ recorded \in Nat /\ trimmed \in Nat /\ reached \in Nat
           /\ trimmed <= recorded /\ recorded <= reached /\ reached <= recorded + 1
           /\ reached <= Len(log) /\ Latest = Len(log)
BY LogFacts, FanoutFacts DEF Inv, BackendInv

LEMMA HandlerFacts ==
    ASSUME Inv
    PROVE  /\ handler.sub \in Subs \cup {None}
           /\ handler.asked \in Nat \cup {None} /\ handler.asked \in Int
           /\ handler.snapshot \in Nat
           /\ handler.found \subseteq Objects /\ handler.latest \in Nat
           /\ handler.events \in Seq(Nat) /\ handler.resync \in Nat
           /\ pc \in Asking \cup Replying => handler.sub \in Subs
<1>1. handler \in Locals
  BY DEF Inv, HandlerInv
<1>2. /\ handler.sub \in Subs \cup {None}
      /\ handler.asked \in Nat \cup {None}
      /\ handler.snapshot \in Nat
      /\ handler.found \subseteq Objects /\ handler.latest \in Nat
      /\ handler.events \in Seq(Nat) /\ handler.resync \in Nat
  BY <1>1 DEF Locals
<1>3. handler.asked \in Int
  BY <1>2 DEF None
<1>4. Active \subseteq Subs
  BY Elements DEF Inv, GroupInv, Active
<1>5. pc \in Asking \cup Replying => handler.sub \in Subs
  BY <1>4 DEF Inv, HandlerInv
<1> QED
  BY <1>2, <1>3, <1>5

\* The replay queries return events of the object, in the range, with rising
\* cursors; what they leave out is trimmed or covered by the resync.
LEMMA AnswerFacts ==
    ASSUME Inv, NEW s \in Subs, NEW lo \in Nat, NEW hi \in Nat
    PROVE  /\ Answer(s, lo, hi).events \in Seq(Nat) /\ Rising(Answer(s, lo, hi).events)
           /\ \A c \in ToSet(Answer(s, lo, hi).events) : lo < c /\ c <= hi /\ c <= Len(log)
           /\ Answer(s, lo, hi).resync \in {0, hi}
           /\ Kind[s] = "filter" => Answer(s, lo, hi).events = <<>>
           /\ \A c \in Due(s, lo, hi) : c > trimmed /\ c <= Len(log) =>
                c \in ToSet(Answer(s, lo, hi).events) \/ c <= Answer(s, lo, hi).resync
<1> DEFINE rows == {c \in RowsBetween(lo, hi) : Subject(c) \in Scope(s)}
           fits == Kind[s] = "object" /\ Cardinality(rows) <= ReplayLimit
<1>1. Len(log) \in Nat /\ trimmed \in Nat
  BY BackendFacts
<1>2. \A c \in rows : c \in Nat /\ lo < c /\ c <= hi /\ c <= Len(log)
  BY <1>1 DEF RowsBetween
<1>3. IsFiniteSet(rows)
  <2>1. IsFiniteSet((lo + 1)..hi)
    BY FS_Interval
  <2>2. rows \subseteq (lo + 1)..hi
    BY DEF RowsBetween
  <2> QED
    BY <2>1, <2>2, FS_Subset
<1>4. \A c \in Due(s, lo, hi) : c > trimmed /\ c <= Len(log) => c \in rows
  BY DEF Due, RowsBetween
<1> HIDE DEF rows
<1>5. Answer(s, lo, hi) = [events |-> IF fits THEN InCursorOrder(rows) ELSE <<>>,
                           resync |-> IF fits \/ rows = {} THEN 0 ELSE hi]
  BY DEF Answer, rows
<1>6. CASE fits
  <2>1. /\ InCursorOrder(rows) \in Seq(Nat) /\ ToSet(InCursorOrder(rows)) = rows
        /\ Rising(InCursorOrder(rows))
    BY <1>2, <1>3, OrderIsRising
  <2>2. Answer(s, lo, hi).events = InCursorOrder(rows) /\ Answer(s, lo, hi).resync = 0
    BY <1>5, <1>6
  <2>3. Kind[s] # "filter"
    BY <1>6
  <2> QED
    BY <1>2, <1>4, <2>1, <2>2, <2>3
<1>7. CASE ~fits
  <2>1. /\ Answer(s, lo, hi).events = <<>>
        /\ Answer(s, lo, hi).resync = IF rows = {} THEN 0 ELSE hi
    BY <1>5, <1>7
  <2>2. Rising(<<>>)
    BY DEF Rising
  <2> QED
    BY <1>2, <1>4, <2>1, <2>2, EmptyHasNone
<1> QED
  BY <1>6, <1>7

-----------------------------------------------------------------------------
(* HandlerInv                                                               *)

LEMMA NoLocalsFacts ==
    /\ NoLocals \in Locals
    /\ NoLocals.sub = None /\ NoLocals.asked = None /\ NoLocals.snapshot = 0
    /\ NoLocals.found = {} /\ NoLocals.latest = 0 /\ NoLocals.events = <<>>
    /\ NoLocals.resync = 0
BY EmptyHasNone DEF NoLocals, Locals

\* The end of a handler and of a connection.
LEMMA IgnoredHandler ==
    ASSUME Inv, Ignore, Len(log') = Len(log)
    PROVE  HandlerInv'
<1>1. pc' = "idle" /\ handler' = NoLocals
  BY DEF Ignore, Goto
<1>2. Len(log) \in Nat
  BY BackendFacts
<1>3. pc' \notin Asking \cup Replying
  BY <1>1 DEF Asking, Replying
<1> QED
  BY <1>1, <1>2, <1>3, NoLocalsFacts DEF HandlerInv, Asking, Replying, None

LEMMA HandlerKept ==
    ASSUME Inv, Next
    PROVE  HandlerInv'
<1>1. CASE BackendNext /\ UNCHANGED sessionVars
  <2>1. Len(log) <= Len(log') /\ Len(log') \in Nat
    BY <1>1, BackendFacts, BackendStep, LogFacts DEF Grows, BackendInv
  <2>2. UNCHANGED <<pc, handler, held, subscriptions, Active>>
    BY <1>1 DEF sessionVars, activeVars, toldVars, Active
  <2>3. handler.snapshot <= Len(log') /\ handler.latest <= Len(log')
    BY <2>1, BackendFacts, HandlerFacts DEF Inv, HandlerInv
  <2> QED
    BY <2>2, <2>3 DEF Inv, HandlerInv
<1>2. ASSUME HandlerNext \/ ClientNext PROVE HandlerInv'
  <2> USE <1>2
  <2>1. UNCHANGED world
    BY SessionStep, BackendFacts
  <2>2. Len(log') = Len(log) /\ Len(log) \in Nat /\ Latest = Len(log)
    BY <2>1, BackendFacts DEF world, logVars
  <2>3. HandlerInv
    BY DEF Inv
  <2>4. /\ handler.sub \in Subs \cup {None}
        /\ handler.asked \in Nat \cup {None} /\ handler.asked \in Int
        /\ handler.snapshot \in Nat
        /\ handler.found \subseteq Objects /\ handler.latest \in Nat
        /\ handler.events \in Seq(Nat) /\ handler.resync \in Nat
        /\ pc \in Asking \cup Replying => handler.sub \in Subs
    BY HandlerFacts
  <2>5. CASE \E s \in Subs, asked \in held \cup {None} : Subscribe(s, asked)
    <3>1. PICK s \in Subs, asked \in held \cup {None} : Subscribe(s, asked)
      BY <2>5
    <3>2. /\ pc = "idle" /\ pc' = "snapshot" /\ s \notin Active
          /\ Len(subscriptions) < MaxSubscriptions
          /\ handler' = [handler EXCEPT !.sub = s, !.asked = asked]
          /\ UNCHANGED <<subscriptions, held, Active>>
      BY <3>1 DEF Subscribe, Goto, activeVars, toldVars, Active
    <3>3. handler = NoLocals
      BY <2>3, <3>2 DEF HandlerInv, Asking, Replying
    <3>4. asked \in Nat \cup {None}
      <4>1. held \subseteq 0..Len(log)
        BY DEF Inv, ToldInv
      <4> QED
        BY <2>2, <4>1
    <3>5. /\ handler' \in Locals /\ handler'.sub = s /\ handler'.asked = asked
          /\ handler'.snapshot = 0 /\ handler'.latest = 0
      BY <3>2, <3>3, <3>4, NoLocalsFacts DEF Locals, NoLocals
    <3> QED
      BY <2>2, <3>2, <3>5 DEF HandlerInv, Asking, Replying
  <2>6. CASE ReadSnapshot
    <3>1. CASE handler.asked > Latest
      BY <2>2, <2>6, <3>1, IgnoredHandler DEF ReadSnapshot
    <3>2. CASE ~(handler.asked > Latest)
      <4>1. /\ pc = "snapshot" /\ pc' = "limit"
            /\ handler' = [handler EXCEPT !.snapshot = Latest]
            /\ UNCHANGED <<subscriptions, held, Active>>
        BY <2>6, <3>2 DEF ReadSnapshot, Goto, Reads, activeVars, toldVars, Active
      <4>2. /\ handler' \in Locals /\ handler'.sub = handler.sub
            /\ handler'.asked = handler.asked
            /\ handler'.snapshot = Len(log) /\ handler'.latest = handler.latest
        BY <2>2, <2>3, <4>1 DEF Locals, HandlerInv
      <4>3. handler'.asked <= handler'.snapshot
        BY <2>2, <2>4, <3>2, <4>2
      <4> QED
        BY <2>2, <2>3, <4>1, <4>2, <4>3 DEF HandlerInv, Asking, Replying
    <3> QED
      BY <3>1, <3>2
  <2>7. CASE CheckLimit
    <3>1. CASE Ignore
      BY <2>2, <3>1, IgnoredHandler
    <3>2. CASE ~Ignore
      <4>1. /\ pc = "limit" /\ pc' = "members"
            /\ UNCHANGED <<handler, subscriptions, held, Active>>
        BY <2>7, <3>2 DEF CheckLimit, Goto, Reads, activeVars, toldVars, Active
      <4> QED
        BY <2>2, <2>3, <4>1 DEF HandlerInv, Asking, Replying
    <3> QED
      BY <3>1, <3>2
  <2>8. CASE ReadMembers
    <3>1. CASE Ignore
      BY <2>2, <3>1, IgnoredHandler
    <3>2. CASE ~Ignore
      <4>1. /\ pc = "members" /\ pc' = "join"
            /\ handler' = [handler EXCEPT !.found = Matches(handler.sub)]
            /\ UNCHANGED <<subscriptions, held, Active>>
        BY <2>8, <3>2 DEF ReadMembers, Goto, Reads, activeVars, toldVars, Active
      <4>2. handler.sub \in Subs
        BY <2>4, <4>1 DEF Asking
      <4>3. Matches(handler.sub) \subseteq Scope(handler.sub) /\ Scope(handler.sub) \subseteq Objects
        BY <4>2, ScopeFacts
      <4>4. /\ handler' \in Locals /\ handler'.sub = handler.sub
            /\ handler'.asked = handler.asked /\ handler'.found = Matches(handler.sub)
            /\ handler'.snapshot = handler.snapshot /\ handler'.latest = handler.latest
        BY <2>3, <4>1, <4>3 DEF Locals, HandlerInv
      <4> QED
        BY <2>2, <2>3, <4>1, <4>3, <4>4 DEF HandlerInv, Asking, Replying
    <3> QED
      BY <3>1, <3>2
  <2>9. CASE Join
    <3>1. /\ pc = "join" /\ pc' = "latest"
          /\ subscriptions' = Append(subscriptions, handler.sub)
          /\ UNCHANGED <<handler, held>>
      BY <2>9 DEF Join, Goto, toldVars
    <3>2. handler.sub \in Subs
      BY <2>4, <3>1 DEF Asking
    <3>3. handler.sub \in Active'
      BY <3>1, <3>2, Appended DEF Inv, GroupInv, Active
    <3> QED
      BY <2>2, <2>3, <3>1, <3>3 DEF HandlerInv, Asking, Replying
  <2>10. CASE CatchUpLatest
    <3>1. /\ pc = "latest" /\ pc' \in {"ack", "catch up"}
          /\ handler' = [handler EXCEPT !.latest = Latest]
          /\ UNCHANGED <<subscriptions, held, Active>>
      BY <2>10 DEF CatchUpLatest, Goto, Reads, activeVars, toldVars, Active
    <3>2. /\ handler' \in Locals /\ handler'.sub = handler.sub
          /\ handler'.asked = handler.asked
          /\ handler'.snapshot = handler.snapshot /\ handler'.latest = Len(log)
      BY <2>2, <2>3, <3>1 DEF Locals, HandlerInv
    <3>3. /\ pc' \in Replying \ {"latest", "check", "replay"} /\ pc' \notin Asking
          /\ pc' \notin {"snapshot", "join"} /\ UNCHANGED <<held, Active>>
      BY <3>1 DEF Asking, Replying
    <3>4. /\ handler.sub \in Active /\ handler.asked \in held \cup {None}
          /\ handler.snapshot <= Len(log) /\ handler.asked <= handler.snapshot
      BY <2>3, <3>1 DEF HandlerInv, Replying
    <3> QED
      BY <2>2, <3>2, <3>3, <3>4 DEF HandlerInv
  <2>11. CASE CatchUpEvents
    <3> DEFINE answer == Answer(handler.sub, handler.snapshot, handler.latest)
    <3>1. /\ pc = "catch up" /\ pc' = "refresh"
          /\ handler' = [handler EXCEPT !.events = answer.events, !.resync = answer.resync]
          /\ UNCHANGED <<subscriptions, held, Active>>
      BY <2>11 DEF CatchUpEvents, Goto, Reads, activeVars, toldVars, Active
    <3>2. handler.sub \in Subs
      BY <2>4, <3>1 DEF Replying
    <3>3. answer.events \in Seq(Nat) /\ answer.resync \in {0, handler.latest}
      BY <2>4, <3>2, AnswerFacts
    <3> HIDE DEF answer
    <3>4. /\ handler' \in Locals /\ handler'.sub = handler.sub
          /\ handler'.asked = handler.asked
          /\ handler'.snapshot = handler.snapshot /\ handler'.latest = handler.latest
      <4>1. handler \in Locals /\ answer.events \in Seq(Nat) /\ answer.resync \in Nat
        BY <2>3, <2>4, <3>3 DEF HandlerInv
      <4> QED
        BY <3>1, <4>1 DEF Locals
    <3>5. /\ pc' \in Replying \ {"latest", "check", "replay"} /\ pc' \notin Asking
          /\ pc' \notin {"snapshot", "join"} /\ UNCHANGED <<held, Active>>
      BY <3>1 DEF Asking, Replying
    <3>6. /\ handler.sub \in Active /\ handler.asked \in held \cup {None}
          /\ handler.snapshot <= Len(log) /\ handler.latest <= Len(log)
          /\ handler.asked <= handler.snapshot /\ handler.snapshot <= handler.latest
      BY <2>3, <3>1 DEF HandlerInv, Replying
    <3> QED
      BY <2>2, <3>4, <3>5, <3>6 DEF HandlerInv
  <2>12. CASE Refresh \/ Acknowledge \/ CheckReplay \/ Replay
    <3>1. /\ pc \in Replying \ {"latest", "catch up"}
          /\ pc' \in Replying \ {"latest", "catch up"}
          /\ UNCHANGED <<handler, subscriptions, Active>> /\ held \subseteq held'
      BY <2>12 DEF Refresh, Acknowledge, CheckReplay, Replay, Goto, Reads, Sends, Tell,
                   activeVars, toldVars, Active, Replying
    <3>2. pc' \in {"check", "replay"} => handler.asked \notin {None, handler.snapshot}
      BY <2>3, <2>12 DEF HandlerInv, Refresh, Acknowledge, CheckReplay, Replay, Goto
    <3> QED
      BY <2>2, <2>3, <3>1, <3>2 DEF HandlerInv, Asking, Replying
  <2>13. CASE Flush \/ Disconnect
    BY <2>2, <2>13, IgnoredHandler DEF Flush, Disconnect
  <2>14. CASE Receive \/ FetchRow \/ Publish \/ Published \/ \E s \in Subs : Unsubscribe(s)
    <3>1. /\ pc \in {"idle", "fetch", "publish"} /\ pc' \in {"idle", "fetch", "publish"}
          /\ UNCHANGED handler
      BY <2>14 DEF Receive, FetchRow, Publish, Published, Unsubscribe, Goto
    <3>2. held \subseteq held'
      BY <2>14 DEF Receive, FetchRow, Publish, Published, Unsubscribe, Evaluate, Tell, toldVars
    <3>3. /\ pc' \notin Asking \cup Replying /\ pc' \in {"idle"} \cup Publishing
          /\ pc \notin Asking \cup Replying /\ pc # "snapshot"
          /\ pc' # "snapshot" /\ pc' \notin {"join", "latest", "check", "replay"}
      BY <3>1 DEF Asking, Replying, Publishing
    <3>4. /\ handler = NoLocals /\ handler \in Locals /\ handler.asked \in held \cup {None}
          /\ handler.snapshot <= Len(log) /\ handler.latest <= Len(log)
          /\ handler.asked <= handler.snapshot
      BY <2>3, <3>3 DEF HandlerInv
    <3> QED
      BY <2>2, <3>1, <3>2, <3>3, <3>4 DEF HandlerInv
  <2> QED
    BY <2>5, <2>6, <2>7, <2>8, <2>9, <2>10, <2>11, <2>12, <2>13, <2>14 DEF HandlerNext, ClientNext
<1> QED
  BY <1>1, <1>2 DEF Next

-----------------------------------------------------------------------------
(* GroupInv                                                                 *)

\* The elements of a sequence are finitely many, one for each position if none
\* comes twice.
LEMMA ElementsAreFinite ==
    ASSUME NEW S, NEW q \in Seq(S)
    PROVE  /\ IsFiniteSet(ToSet(q))
           /\ (\A i, j \in DOMAIN q : q[i] = q[j] => i = j) => Cardinality(ToSet(q)) = Len(q)
<1>1. Len(q) \in Nat /\ DOMAIN q = 1..Len(q)
  BY Elements
<1>2. q \in Surjection(1..Len(q), ToSet(q))
  <2>1. q \in [1..Len(q) -> ToSet(q)]
    <3>1. q \in [1..Len(q) -> S]
      BY LenProperties
    <3> QED
      BY <1>1, <3>1 DEF ToSet
  <2> QED
    BY <1>1, <2>1 DEF Surjection, ToSet
<1>3. IsFiniteSet(1..Len(q)) /\ Cardinality(1..Len(q)) = Len(q)
  <2>1. /\ IsFiniteSet(1..Len(q))
        /\ Cardinality(1..Len(q)) = IF 1 > Len(q) THEN 0 ELSE Len(q) - 1 + 1
    BY <1>1, FS_Interval
  <2> QED
    BY <1>1, <2>1
<1>4. ASSUME \A i, j \in DOMAIN q : q[i] = q[j] => i = j
      PROVE  q \in Injection(1..Len(q), ToSet(q))
  BY <1>1, <1>2, <1>4 DEF Surjection, Injection, IsInjective
<1> QED
  BY <1>2, <1>3, <1>4, FS_Surjection

\* The subscriptions of a group.
InGroup(g) == {s \in Active : Group(s) = g}

LEMMA GroupFacts ==
    ASSUME Inv
    PROVE  /\ Active \subseteq Subs /\ IsFiniteSet(Active)
           /\ Cardinality(Active) = Len(subscriptions) /\ Len(subscriptions) \in Nat
           /\ \A g : /\ IsFiniteSet(InGroup(g)) /\ Cardinality(InGroup(g)) \in Nat
                     /\ Cardinality(InGroup(g)) <= Len(subscriptions)
                     /\ g \in Groups => refs[g] = Cardinality(InGroup(g))
<1>1. /\ subscriptions \in Seq(Subs)
      /\ \A i, j \in DOMAIN subscriptions : subscriptions[i] = subscriptions[j] => i = j
      /\ \A g \in Groups : refs[g] = Cardinality(InGroup(g))
  BY DEF Inv, GroupInv, InGroup
<1>2. /\ Active \subseteq Subs /\ IsFiniteSet(Active)
      /\ Cardinality(Active) = Len(subscriptions) /\ Len(subscriptions) \in Nat
  BY <1>1, Elements, ElementsAreFinite DEF Active
<1>3. ASSUME NEW g
      PROVE  /\ IsFiniteSet(InGroup(g)) /\ Cardinality(InGroup(g)) \in Nat
             /\ Cardinality(InGroup(g)) <= Len(subscriptions)
  <2>1. InGroup(g) \subseteq Active
    BY DEF InGroup
  <2>2. IsFiniteSet(InGroup(g)) /\ Cardinality(InGroup(g)) <= Cardinality(Active)
    BY <1>2, <2>1, FS_Subset
  <2> QED
    BY <1>2, <2>2, FS_CardinalityType
<1> QED
  BY <1>1, <1>2, <1>3

LEMMA JoinKeepsGroups ==
    ASSUME Inv, Join
    PROVE  GroupInv' /\ Active' = Active \cup {handler.sub}
<1> DEFINE s == handler.sub
<1>1. /\ pc = "join"
      /\ subscriptions' = Append(subscriptions, s)
      /\ refs' = [refs EXCEPT ![Group(s)] = @ + 1]
      /\ joined' = joined \cup {Group(s)}
  BY DEF Join, AddGroup
<1>2. /\ s \in Subs \ Active /\ Len(subscriptions) < MaxSubscriptions /\ Group(s) \in Groups
  BY <1>1, ScopeFacts DEF Inv, HandlerInv, Asking
<1>3. /\ subscriptions \in Seq(Subs) /\ DOMAIN subscriptions = 1..Len(subscriptions)
      /\ Len(subscriptions) \in Nat
      /\ \A i, j \in DOMAIN subscriptions : subscriptions[i] = subscriptions[j] => i = j
      /\ \A i \in DOMAIN subscriptions : subscriptions[i] # s
      /\ joined = {Group(t) : t \in Active} /\ refs \in [Groups -> Nat]
  <2>1. /\ subscriptions \in Seq(Subs)
        /\ \A i, j \in DOMAIN subscriptions : subscriptions[i] = subscriptions[j] => i = j
        /\ joined = {Group(t) : t \in Active} /\ refs \in [Groups -> Nat]
    BY DEF Inv, GroupInv
  <2> QED
    BY <1>2, <2>1, Elements DEF Active
<1> HIDE DEF s
<1>4. /\ subscriptions' \in Seq(Subs) /\ Len(subscriptions') = Len(subscriptions) + 1
      /\ DOMAIN subscriptions' = 1..(Len(subscriptions) + 1)
      /\ \A i \in DOMAIN subscriptions : subscriptions'[i] = subscriptions[i]
      /\ subscriptions'[Len(subscriptions) + 1] = s
      /\ Active' = Active \cup {s}
  BY <1>1, <1>2, <1>3, Appended DEF Active
<1>5. \A i, j \in DOMAIN subscriptions' : subscriptions'[i] = subscriptions'[j] => i = j
  <2>1. DOMAIN subscriptions' = DOMAIN subscriptions \cup {Len(subscriptions) + 1}
    BY <1>3, <1>4
  <2> QED
    BY <1>3, <1>4, <2>1
<1>6. Len(subscriptions') <= MaxSubscriptions
  BY <1>2, <1>3, <1>4, LimitsAreNat
<1>7. joined' = {Group(t) : t \in Active'}
  BY <1>1, <1>3, <1>4
<1>8. refs' \in [Groups -> Nat]
  BY <1>1, <1>2, <1>3
<1>9. ASSUME NEW g \in Groups
      PROVE  refs'[g] = Cardinality({t \in Active' : Group(t) = g})
  <2>1. IsFiniteSet(InGroup(g)) /\ refs[g] = Cardinality(InGroup(g))
    BY GroupFacts
  <2>2. CASE g = Group(s)
    <3>1. {t \in Active' : Group(t) = g} = InGroup(g) \cup {s} /\ s \notin InGroup(g)
      BY <1>2, <1>4, <2>2 DEF InGroup
    <3>2. Cardinality(InGroup(g) \cup {s}) = Cardinality(InGroup(g)) + 1
      BY <2>1, <3>1, FS_AddElement
    <3> QED
      BY <1>1, <1>3, <2>1, <2>2, <3>1, <3>2
  <2>3. CASE g # Group(s)
    <3>1. {t \in Active' : Group(t) = g} = InGroup(g)
      BY <1>4, <2>3 DEF InGroup
    <3> QED
      BY <1>1, <1>3, <2>1, <2>3, <3>1
  <2> QED
    BY <2>2, <2>3
<1> QED
  BY <1>4, <1>5, <1>6, <1>7, <1>8, <1>9 DEF GroupInv, s

LEMMA UnsubscribeKeepsGroups ==
    ASSUME Inv, NEW s \in Subs, Unsubscribe(s)
    PROVE  GroupInv' /\ Active' = Active \ {s}
<1>1. PICK i \in DOMAIN subscriptions :
        subscriptions[i] = s /\ subscriptions' = RemoveAt(subscriptions, i)
  BY DEF Unsubscribe
<1>2. /\ s \in Active
      /\ refs' = [refs EXCEPT ![Group(s)] = IF @ <= 1 THEN 0 ELSE @ - 1]
      /\ joined' = IF refs[Group(s)] <= 1 THEN joined \ {Group(s)} ELSE joined
  BY DEF Unsubscribe, DiscardGroup
<1>3. /\ subscriptions \in Seq(Subs) /\ Len(subscriptions) \in Nat
      /\ \A k, l \in DOMAIN subscriptions : subscriptions[k] = subscriptions[l] => k = l
      /\ joined = {Group(t) : t \in Active} /\ refs \in [Groups -> Nat]
      /\ Len(subscriptions) <= MaxSubscriptions
      /\ Group(s) \in Groups
  BY GroupFacts, ScopeFacts DEF Inv, GroupInv
<1>4. /\ subscriptions' \in Seq(Subs) /\ Len(subscriptions') = Len(subscriptions) - 1
      /\ Active' = Active \ {s}
      /\ \A k, l \in DOMAIN subscriptions' : subscriptions'[k] = subscriptions'[l] => k = l
  BY <1>1, <1>3, Removed DEF Active
<1>5. Len(subscriptions') <= MaxSubscriptions
  BY <1>3, <1>4, LimitsAreNat
<1>6. /\ refs[Group(s)] \in Nat \ {0}
      /\ Cardinality(InGroup(Group(s)) \ {s}) = refs[Group(s)] - 1
      /\ IsFiniteSet(InGroup(Group(s)) \ {s})
      /\ {t \in Active' : Group(t) = Group(s)} = InGroup(Group(s)) \ {s}
  <2>1. /\ IsFiniteSet(InGroup(Group(s))) /\ refs[Group(s)] = Cardinality(InGroup(Group(s)))
        /\ refs[Group(s)] \in Nat
    BY <1>3, GroupFacts
  <2>2. s \in InGroup(Group(s)) /\ InGroup(Group(s)) # {}
    BY <1>2 DEF InGroup
  <2>3. refs[Group(s)] # 0
    BY <2>1, <2>2, FS_EmptySet
  <2>4. {t \in Active' : Group(t) = Group(s)} = InGroup(Group(s)) \ {s}
    BY <1>4 DEF InGroup
  <2> QED
    BY <2>1, <2>2, <2>3, <2>4, FS_RemoveElement
<1>7. refs' \in [Groups -> Nat] /\ refs'[Group(s)] = refs[Group(s)] - 1
      /\ \A g \in Groups \ {Group(s)} : refs'[g] = refs[g]
  <2>1. (IF refs[Group(s)] <= 1 THEN 0 ELSE refs[Group(s)] - 1) = refs[Group(s)] - 1
        /\ refs[Group(s)] - 1 \in Nat
    BY <1>6
  <2> QED
    BY <1>2, <1>3, <2>1
<1>8. ASSUME NEW g \in Groups
      PROVE  refs'[g] = Cardinality({t \in Active' : Group(t) = g})
  <2>1. CASE g = Group(s)
    BY <1>6, <1>7, <2>1
  <2>2. CASE g # Group(s)
    <3>1. {t \in Active' : Group(t) = g} = InGroup(g)
      BY <1>4, <2>2 DEF InGroup
    <3> QED
      BY <1>7, <2>2, <3>1, GroupFacts
  <2> QED
    BY <2>1, <2>2
<1>9. joined' = {Group(t) : t \in Active'}
  <2>1. CASE refs[Group(s)] <= 1
    <3>1. Cardinality(InGroup(Group(s)) \ {s}) = 0
      BY <1>6, <2>1
    <3>2. InGroup(Group(s)) \ {s} = {}
      BY <1>6, <3>1, FS_EmptySet
    <3>3. \A t \in Active' : Group(t) # Group(s)
      BY <1>6, <3>2
    <3>4. {Group(t) : t \in Active'} = {Group(t) : t \in Active} \ {Group(s)}
      BY <1>4, <3>3
    <3> QED
      BY <1>2, <1>3, <2>1, <3>4
  <2>2. CASE ~(refs[Group(s)] <= 1)
    <3>1. Cardinality(InGroup(Group(s)) \ {s}) # 0
      BY <1>6, <2>2
    <3>2. InGroup(Group(s)) \ {s} # {}
      BY <3>1, FS_EmptySet
    <3>3. \E t \in Active' : Group(t) = Group(s)
      BY <1>6, <3>2
    <3>4. {Group(t) : t \in Active'} = {Group(t) : t \in Active}
      BY <1>4, <3>3
    <3> QED
      BY <1>2, <1>3, <2>2, <3>4
  <2> QED
    BY <2>1, <2>2
<1> QED
  BY <1>4, <1>5, <1>7, <1>8, <1>9 DEF GroupInv

LEMMA GroupKept ==
    ASSUME Inv, Next
    PROVE  GroupInv'
<1>1. ASSUME UNCHANGED <<subscriptions, joined, refs>> PROVE GroupInv'
  <2>1. Active' = Active
    BY <1>1 DEF Active
  <2> QED
    BY <1>1, <2>1 DEF Inv, GroupInv
<1>2. CASE BackendNext /\ UNCHANGED sessionVars
  <2>1. joined' = joined
    BY <1>2, BackendFacts, BackendStep DEF Grows
  <2> QED
    BY <1>1, <1>2, <2>1 DEF sessionVars, activeVars, groupVars
<1>3. CASE Join
  BY <1>3, JoinKeepsGroups
<1>4. CASE \E s \in Subs : Unsubscribe(s)
  BY <1>4, UnsubscribeKeepsGroups
<1>5. CASE Disconnect
  <2>1. subscriptions' = <<>> /\ Active' = {} /\ joined' = {} /\ refs' = [g \in Groups |-> 0]
    BY <1>5, EmptyHasNone DEF Disconnect, Active
  <2>2. \A g : {s \in {} : Group(s) = g} = {} /\ Cardinality({}) = 0
    BY FS_EmptySet
  <2>3. Len(subscriptions') <= MaxSubscriptions /\ subscriptions' \in Seq(Subs)
        /\ DOMAIN subscriptions' = {}
    BY <2>1, EmptyHasNone, EmptySeq, LimitsAreNat
  <2> QED
    BY <2>1, <2>2, <2>3 DEF GroupInv
<1>6. CASE (\E s \in Subs, asked \in held \cup {None} : Subscribe(s, asked))
           \/ ReadSnapshot \/ CheckLimit \/ ReadMembers \/ CatchUpLatest \/ CatchUpEvents
           \/ Refresh \/ Acknowledge \/ CheckReplay \/ Replay \/ Flush \/ Receive
           \/ FetchRow \/ Publish \/ Published
  <2>1. UNCHANGED <<subscriptions, joined, refs>>
    BY <1>6 DEF Subscribe, ReadSnapshot, CheckLimit, ReadMembers, CatchUpLatest, CatchUpEvents,
                Refresh, Acknowledge, CheckReplay, Replay, Flush, Receive, FetchRow, Publish,
                Published, Reads, Sends, backendVars, layerVars, activeVars, groupVars
  <2> QED
    BY <1>1, <2>1
<1> QED
  BY <1>2, <1>3, <1>4, <1>5, <1>6 DEF Next, HandlerNext, ClientNext

-----------------------------------------------------------------------------
(* MailInv                                                                  *)

\* What is left of a sequence without its first k elements.
LEMMA Suffix ==
    ASSUME NEW S, NEW q \in Seq(S), NEW k \in 0..Len(q)
    PROVE  /\ SubSeq(q, k + 1, Len(q)) \in Seq(S)
           /\ Len(SubSeq(q, k + 1, Len(q))) = Len(q) - k
           /\ ToSet(SubSeq(q, k + 1, Len(q))) \subseteq ToSet(q)
<1> DEFINE n == Len(q)
           r == SubSeq(q, k + 1, n)
<1>1. n \in Nat /\ DOMAIN q = 1..n /\ \A i \in 1..n : q[i] \in S
  BY Elements
<1> HIDE DEF n
<1>2. k \in 0..n
  BY DEF n
<1>3. /\ k + 1 \in Int /\ n \in Int
      /\ (IF k + 1 <= n THEN n - (k + 1) + 1 ELSE 0) = n - k
      /\ n - (k + 1) + 1 = n - k
      /\ \A i \in (k + 1)..n : i \in 1..n
      /\ \A i \in 1..(n - k) : (k + 1) + i - 1 \in 1..n
  BY <1>1, <1>2
<1>4. \A i \in (k + 1)..n : q[i] \in S
  BY <1>1, <1>3
<1>5. /\ SubSeq(q, k + 1, n) \in Seq(S)
      /\ Len(SubSeq(q, k + 1, n)) = IF k + 1 <= n THEN n - (k + 1) + 1 ELSE 0
      /\ \A i \in 1..(n - (k + 1) + 1) : SubSeq(q, k + 1, n)[i] = q[(k + 1) + i - 1]
  BY <1>3, <1>4, SubSeqProperties
<1> HIDE DEF r
<1>6. /\ r \in Seq(S) /\ Len(r) = n - k
      /\ \A i \in 1..(n - k) : r[i] = q[(k + 1) + i - 1]
  BY <1>3, <1>5 DEF r
<1>7. DOMAIN r = 1..(n - k)
  BY <1>6, Elements
<1>8. ToSet(r) \subseteq ToSet(q)
  BY <1>1, <1>3, <1>6, <1>7 DEF ToSet
<1> QED
  BY <1>6, <1>8 DEF r, n

\* The dedupe window takes a new id in and never grows beyond its size.
LEMMA RememberedFacts ==
    ASSUME seen \in Seq(Nat), Len(seen) <= DedupeSize, NEW id \in Nat
    PROVE  /\ Remembered(id) \in Seq(Nat) /\ Len(Remembered(id)) <= DedupeSize
           /\ ToSet(Remembered(id)) \subseteq ToSet(seen) \cup {id}
<1> DEFINE order == Append(seen, id)
           excess == Len(order) - DedupeSize
           skip == IF excess > 0 THEN excess ELSE 0
<1>1. /\ order \in Seq(Nat) /\ Len(order) = Len(seen) + 1
      /\ ToSet(order) = ToSet(seen) \cup {id}
      /\ Len(seen) \in Nat /\ DedupeSize \in Nat
  BY Appended, Elements, LimitsAreNat
<1>2. Remembered(id) = SubSeq(order, skip + 1, Len(order))
  BY DEF Remembered
<1> HIDE DEF order
<1>3. skip \in 0..Len(order) /\ Len(order) - skip <= DedupeSize
  BY <1>1
<1> HIDE DEF skip
<1>4. /\ SubSeq(order, skip + 1, Len(order)) \in Seq(Nat)
      /\ Len(SubSeq(order, skip + 1, Len(order))) = Len(order) - skip
      /\ ToSet(SubSeq(order, skip + 1, Len(order))) \subseteq ToSet(order)
  BY <1>1, <1>3, Suffix
<1> QED
  BY <1>1, <1>2, <1>3, <1>4

\* MailInv, by the types.
LEMMA MailFacts ==
    ASSUME Inv
    PROVE  /\ mailbox \in Seq(Nat) /\ DOMAIN mailbox = 1..Len(mailbox) /\ Len(mailbox) \in Nat
           /\ \A n \in DOMAIN mailbox : /\ mailbox[n] \in 1..Len(log) /\ mailbox[n] <= recorded + 1
                                        /\ event <= mailbox[n]
           /\ \A m, n \in DOMAIN mailbox : m < n => mailbox[m] <= mailbox[n]
           /\ \A c \in ToSet(mailbox) : c \in 1..Len(log) /\ c <= recorded + 1 /\ event <= c
           /\ seen \in Seq(Nat) /\ ToSet(seen) \subseteq 1..Len(log) /\ Len(seen) <= DedupeSize
           /\ event \in Nat /\ event <= recorded + 1 /\ event <= Len(log)
           /\ todo \in Seq(Subs) /\ ToSet(todo) \subseteq Active
           /\ missed \subseteq 1..trimmed
<1>1. /\ mailbox \in Seq(Nat)
      /\ \A n \in DOMAIN mailbox : /\ mailbox[n] \in 1..Len(log) /\ mailbox[n] <= recorded + 1
                                   /\ event <= mailbox[n]
      /\ \A m, n \in DOMAIN mailbox : m < n => mailbox[m] <= mailbox[n]
      /\ seen \in Seq(Nat) /\ ToSet(seen) \subseteq 1..Len(log) /\ Len(seen) <= DedupeSize
      /\ event \in Nat /\ todo \in Seq(Subs) /\ ToSet(todo) \subseteq Active
      /\ missed \subseteq 1..trimmed
  BY DEF Inv, MailInv
<1>2. DOMAIN mailbox = 1..Len(mailbox) /\ Len(mailbox) \in Nat
  BY <1>1, Elements
<1>3. \A c \in ToSet(mailbox) : c \in 1..Len(log) /\ c <= recorded + 1 /\ event <= c
  BY <1>1, Elements
<1>4. event <= recorded + 1 /\ event <= Len(log)
  <2>1. CASE pc \in Publishing
    BY <2>1, BackendFacts DEF Inv, MailInv
  <2>2. CASE pc \notin Publishing
    <3>1. event = 0
      BY <2>2 DEF Inv, MailInv
    <3> QED
      BY <3>1, BackendFacts
  <2> QED
    BY <2>1, <2>2
<1> QED
  BY <1>1, <1>2, <1>3, <1>4

\* A step of the backend, by numbers.
LEMMA GrownFacts ==
    ASSUME Inv, BackendNext
    PROVE  /\ BackendInv' /\ Grows
           /\ Len(log') \in Nat /\ DOMAIN log' = 1..Len(log')
           /\ recorded' \in Nat /\ trimmed' \in Nat /\ reached' \in Nat
<1>1. BackendInv' /\ Grows
  BY BackendFacts, BackendStep
<1>2. log' \in Seq(DOMAIN about')
  BY <1>1 DEF BackendInv, LogInv
<1>3. Len(log') \in Nat /\ DOMAIN log' = 1..Len(log')
  BY <1>2, Elements
<1>4. recorded' \in Nat /\ trimmed' \in Nat /\ reached' \in Nat
  <2>1. FanoutInv'
    BY <1>1 DEF BackendInv
  <2>2. /\ recorded' \in Nat /\ trimmed' \in 0..recorded'
        /\ reached' = recorded' \/ reached' = recorded' + 1
    BY <2>1 DEF FanoutInv
  <2>3. trimmed' \in Nat
    BY <2>2
  <2>4. reached' \in Nat
    BY <2>2
  <2> QED
    BY <2>2, <2>3, <2>4
<1> QED
  BY <1>1, <1>3, <1>4

LEMMA BackendKeepsMail ==
    ASSUME Inv, BackendNext, UNCHANGED sessionVars
    PROVE  MailInv'
<1>1. UNCHANGED <<pc, event, todo, seen, missed, Active>>
  BY DEF sessionVars, activeVars, groupVars, toldVars, Active
<1>2. /\ Len(log) <= Len(log') /\ recorded <= recorded' /\ trimmed <= trimmed'
      /\ Len(log) \in Nat /\ recorded \in Nat /\ trimmed \in Nat
      /\ Len(log') \in Nat /\ recorded' \in Nat /\ trimmed' \in Nat
  BY BackendFacts, GrownFacts DEF Grows
<1>3. /\ seen \in Seq(Nat) /\ ToSet(seen) \subseteq 1..Len(log')
      /\ missed \subseteq 1..trimmed' /\ event <= Len(log') /\ event <= recorded' + 1
  BY <1>2, MailFacts
<1>4. /\ mailbox' \in Seq(Nat)
      /\ \A n \in DOMAIN mailbox' : /\ mailbox'[n] \in 1..Len(log')
                                    /\ mailbox'[n] <= recorded' + 1 /\ event <= mailbox'[n]
      /\ \A m, n \in DOMAIN mailbox' : m < n => mailbox'[m] <= mailbox'[n]
  <2>1. CASE mailbox' = mailbox
    BY <1>2, <2>1, MailFacts
  <2>2. CASE mailbox' = Append(mailbox, recorded + 1) /\ recorded < Len(log)
             /\ recorded' = recorded
    <3>1. /\ mailbox' \in Seq(Nat) /\ DOMAIN mailbox' = 1..(Len(mailbox) + 1)
          /\ \A n \in DOMAIN mailbox : mailbox'[n] = mailbox[n]
          /\ mailbox'[Len(mailbox) + 1] = recorded + 1
      BY <1>2, <2>2, MailFacts, Appended
    <3>2. \A n \in DOMAIN mailbox' : n \in DOMAIN mailbox \/ n = Len(mailbox) + 1
      BY <3>1, MailFacts
    <3>3. \A n \in DOMAIN mailbox : mailbox[n] \in Nat /\ n < Len(mailbox) + 1
      BY MailFacts
    <3>4. ASSUME NEW n \in DOMAIN mailbox'
          PROVE  /\ mailbox'[n] \in 1..Len(log')
                 /\ mailbox'[n] <= recorded' + 1 /\ event <= mailbox'[n]
      BY <1>2, <2>2, <3>1, <3>2, MailFacts
    <3>5. ASSUME NEW m \in DOMAIN mailbox', NEW n \in DOMAIN mailbox', m < n
          PROVE  mailbox'[m] <= mailbox'[n]
      <4>1. m \in DOMAIN mailbox
        BY <3>1, <3>5, MailFacts
      <4> QED
        BY <3>1, <3>2, <3>5, <4>1, MailFacts
    <3> QED
      BY <3>1, <3>4, <3>5
  <2> QED
    BY <2>1, <2>2, BackendFacts, MailboxStep
<1>5. pc \in Publishing => event \in 1..Len(log')
  BY <1>2, <1>3 DEF Inv, MailInv
<1> QED
  BY <1>1, <1>3, <1>4, <1>5 DEF Inv, MailInv

LEMMA ReceiveKeepsMail ==
    ASSUME Inv, Receive
    PROVE  MailInv'
<1>1. /\ pc = "idle" /\ mailbox # <<>> /\ mailbox' = Tail(mailbox)
      /\ UNCHANGED <<log, recorded, trimmed, todo, missed, Active>>
  BY DEF Receive, world, logVars, activeVars, toldVars, Active
<1>2. event = 0 /\ todo = <<>>
  BY <1>1 DEF Inv, MailInv, Publishing
<1>3. /\ Head(mailbox) = mailbox[1] /\ 1 \in DOMAIN mailbox
      /\ mailbox' \in Seq(Nat) /\ DOMAIN mailbox' = 1..(Len(mailbox) - 1)
      /\ \A n \in DOMAIN mailbox' : mailbox'[n] = mailbox[n + 1] /\ n + 1 \in DOMAIN mailbox
  <2>1. Len(mailbox) # 0
    BY <1>1, MailFacts, Elements
  <2>2. /\ Head(mailbox) = mailbox[1]
        /\ mailbox' \in Seq(Nat) /\ DOMAIN mailbox' = 1..(Len(mailbox) - 1)
        /\ \A n \in DOMAIN mailbox' : mailbox'[n] = mailbox[n + 1]
    BY <1>1, MailFacts, Taken
  <2>3. 1 \in DOMAIN mailbox /\ \A n \in 1..(Len(mailbox) - 1) : n + 1 \in DOMAIN mailbox
    BY <2>1, MailFacts
  <2> QED
    BY <2>2, <2>3
<1>4. \A n \in DOMAIN mailbox' : mailbox'[n] \in 1..Len(log) /\ mailbox'[n] <= recorded + 1
  BY <1>3, MailFacts
<1>5. \A m, n \in DOMAIN mailbox' : m < n => mailbox'[m] <= mailbox'[n]
  <2> SUFFICES ASSUME NEW m \in DOMAIN mailbox', NEW n \in DOMAIN mailbox', m < n
               PROVE  mailbox'[m] <= mailbox'[n]
    OBVIOUS
  <2>1. m + 1 < n + 1 /\ m + 1 \in DOMAIN mailbox /\ n + 1 \in DOMAIN mailbox
    BY <1>3, MailFacts
  <2> QED
    BY <1>3, <2>1, MailFacts
<1>6. \A n \in DOMAIN mailbox' : Head(mailbox) <= mailbox'[n]
  <2> SUFFICES ASSUME NEW n \in DOMAIN mailbox' PROVE Head(mailbox) <= mailbox'[n]
    OBVIOUS
  <2>1. 1 < n + 1 /\ n + 1 \in DOMAIN mailbox
    BY <1>3, MailFacts
  <2> QED
    BY <1>3, <2>1, MailFacts
<1>7. Head(mailbox) \in 1..Len(log) /\ Head(mailbox) <= recorded + 1 /\ Head(mailbox) \in Nat
  BY <1>3, MailFacts
<1>8. CASE Head(mailbox) \in ToSet(seen)
  <2>1. UNCHANGED <<pc, event, seen>>
    BY <1>8 DEF Receive
  <2>2. \A n \in DOMAIN mailbox' : event <= mailbox'[n]
    BY <1>2, <1>4
  <2> QED
    BY <1>1, <1>2, <1>3, <1>4, <1>5, <2>1, <2>2, MailFacts DEF MailInv, Publishing
<1>9. CASE Head(mailbox) \notin ToSet(seen)
  <2>1. seen' = Remembered(Head(mailbox)) /\ event' = Head(mailbox) /\ pc' = "fetch"
    BY <1>9 DEF Receive, Goto
  <2>2. /\ seen' \in Seq(Nat) /\ Len(seen') <= DedupeSize
        /\ ToSet(seen') \subseteq 1..Len(log)
    BY <1>7, <2>1, MailFacts, RememberedFacts
  <2> QED
    BY <1>1, <1>2, <1>3, <1>4, <1>5, <1>6, <1>7, <2>1, <2>2, MailFacts DEF MailInv, Publishing
<1> QED
  BY <1>8, <1>9

LEMMA MailKept ==
    ASSUME Inv, Next
    PROVE  MailInv'
<1>1. CASE BackendNext /\ UNCHANGED sessionVars
  BY <1>1, BackendKeepsMail
<1>2. CASE Receive
  BY <1>2, ReceiveKeepsMail
<1>3. CASE FetchRow
  <2>1. /\ pc = "fetch" /\ UNCHANGED <<log, recorded, trimmed, mailbox, seen, Active>>
    BY <1>3 DEF FetchRow, backendVars, logVars, layerVars, activeVars, groupVars, Active
  <2>2. event \in 1..Len(log) /\ event <= recorded + 1
    BY <2>1 DEF Inv, MailInv, Publishing
  <2>3. CASE event <= trimmed
    <3>1. pc' = "idle" /\ event' = 0 /\ missed' = missed \cup {event} /\ todo' = <<>>
      BY <1>3, <2>3 DEF FetchRow, Goto
    <3>2. missed' \subseteq 1..trimmed
      BY <2>2, <2>3, <3>1, BackendFacts, MailFacts
    <3>3. \A n \in DOMAIN mailbox : event' <= mailbox[n]
      BY <3>1, MailFacts
    <3>4. todo' \in Seq(Subs) /\ ToSet(todo') \subseteq Active
      BY <3>1, EmptyHasNone
    <3> QED
      BY <2>1, <3>1, <3>2, <3>3, <3>4, MailFacts DEF MailInv, Publishing
  <2>4. CASE ~(event <= trimmed)
    <3>1. pc' = "publish" /\ UNCHANGED <<event, missed>> /\ todo' = subscriptions
      BY <1>3, <2>4 DEF FetchRow, Goto
    <3>2. todo' \in Seq(Subs) /\ ToSet(todo') \subseteq Active
      BY <3>1 DEF Inv, GroupInv, Active
    <3> QED
      BY <2>1, <2>2, <3>1, <3>2, MailFacts DEF MailInv, Publishing
  <2> QED
    BY <2>3, <2>4
<1>4. CASE Publish
  <2>1. /\ pc = "publish" /\ todo # <<>> /\ todo' = Tail(todo)
        /\ UNCHANGED <<pc, event, log, recorded, trimmed, mailbox, seen, missed, Active>>
    BY <1>4 DEF Publish, backendVars, logVars, layerVars, groupVars, Active
  <2>2. todo' \in Seq(Subs) /\ ToSet(todo') \subseteq Active
    BY <2>1, MailFacts, Taken
  <2> QED
    BY <2>1, <2>2 DEF Inv, MailInv, Publishing
<1>5. CASE Published
  <2>1. /\ pc = "publish" /\ todo = <<>> /\ pc' = "idle" /\ event' = 0
        /\ UNCHANGED <<log, recorded, trimmed, mailbox, seen, missed, todo, Active>>
    BY <1>5 DEF Published, Goto, backendVars, logVars, layerVars, activeVars, groupVars,
                toldVars, Active
  <2>2. \A n \in DOMAIN mailbox : 0 <= mailbox[n]
    BY MailFacts
  <2> QED
    BY <2>1, <2>2, MailFacts DEF MailInv, Publishing
<1>6. CASE Disconnect
  <2>1. /\ pc' = "idle" /\ event' = 0 /\ todo' = <<>> /\ mailbox' = <<>> /\ seen' = <<>>
        /\ missed' = {}
    BY <1>6 DEF Disconnect, Ignore, Goto
  <2>2. /\ ToSet(<<>>) = {} /\ <<>> \in Seq(Nat) /\ <<>> \in Seq(Subs) /\ DOMAIN <<>> = {}
        /\ Len(<<>>) <= DedupeSize
    BY EmptyHasNone, EmptySeq, LimitsAreNat
  <2> QED
    BY <2>1, <2>2 DEF MailInv, Publishing
<1>7. CASE (\E s \in Subs, asked \in held \cup {None} : Subscribe(s, asked))
           \/ ReadSnapshot \/ CheckLimit \/ ReadMembers \/ Join \/ CatchUpLatest
           \/ CatchUpEvents \/ Refresh \/ Acknowledge \/ CheckReplay \/ Replay \/ Flush
           \/ \E s \in Subs : Unsubscribe(s)
  <2>1. UNCHANGED <<mailbox, log, recorded, trimmed, seen, event, todo, missed>>
    BY <1>7 DEF Subscribe, ReadSnapshot, CheckLimit, ReadMembers, Join, CatchUpLatest,
                CatchUpEvents, Refresh, Acknowledge, CheckReplay, Replay, Flush, Unsubscribe,
                Reads, Sends, backendVars, layerVars, world, logVars, groupVars, toldVars
  <2>2. pc \notin Publishing /\ pc' \notin Publishing
    BY <1>7 DEF Subscribe, ReadSnapshot, CheckLimit, ReadMembers, Join, CatchUpLatest,
                CatchUpEvents, Refresh, Acknowledge, CheckReplay, Replay, Flush, Unsubscribe,
                Ignore, Goto, Publishing
  <2>3. event = 0 /\ todo = <<>>
    BY <2>2 DEF Inv, MailInv, Publishing
  <2> QED
    BY <2>1, <2>2, <2>3, MailFacts, EmptyHasNone DEF MailInv, Publishing
<1> QED
  BY <1>1, <1>2, <1>3, <1>4, <1>5, <1>6, <1>7 DEF Next, HandlerNext, ClientNext

-----------------------------------------------------------------------------
(* ToldInv                                                                  *)

\* ToldInv, by the types.
LEMMA ToldFacts ==
    ASSUME Inv
    PROVE  /\ held \subseteq 0..Len(log)
           /\ memberPks \in [Subs -> SUBSET Objects]
           /\ through \in [Subs -> Nat] /\ from \in [Subs -> Nat] /\ resynced \in [Subs -> Nat]
           /\ sent \in [Subs -> Seq(Nat)] /\ silent \in [Subs -> SUBSET Nat]
           /\ \A s \in Subs :
                /\ ToldTo(s)
                /\ through[s] \in Nat /\ from[s] \in Nat /\ resynced[s] \in Nat
                /\ sent[s] \in Seq(Nat) /\ ToSet(sent[s]) \subseteq Nat
           /\ LeftToTell
<1>1. /\ held \subseteq 0..Len(log)
      /\ memberPks \in [Subs -> SUBSET Objects]
      /\ through \in [Subs -> Nat] /\ from \in [Subs -> Nat] /\ resynced \in [Subs -> Nat]
      /\ sent \in [Subs -> Seq(Nat)] /\ silent \in [Subs -> SUBSET Nat]
      /\ \A s \in Subs : ToldTo(s)
      /\ LeftToTell
  BY DEF Inv, ToldInv
<1>2. ASSUME NEW s \in Subs PROVE sent[s] \in Seq(Nat) /\ ToSet(sent[s]) \subseteq Nat
  BY <1>1, Elements
<1> QED
  BY <1>1, <1>2

\* A subscription that a step does not touch.
LEMMA Untouched ==
    ASSUME Inv, NEW s \in Subs,
           UNCHANGED <<memberPks[s], through[s], sent[s], silent[s], resynced[s]>>,
           Len(log') \in Nat, Len(log) <= Len(log'), held \subseteq held',
           Settling(s)' => Settling(s) /\ handler'.snapshot = handler.snapshot,
           s \notin Active' \/ (Settling(s)' /\ pc' # "flush") =>
             s \notin Active \/ (Settling(s) /\ pc # "flush")
    PROVE  ToldTo(s)'
<1>1. ToldTo(s) /\ through[s] \in Nat /\ resynced[s] \in Nat /\ Len(log) \in Nat
  BY ToldFacts, BackendFacts
<1>2. through[s] <= Len(log') /\ resynced[s] <= Len(log') /\ silent[s] \subseteq 1..Len(log')
  BY <1>1 DEF ToldTo
<1> QED
  BY <1>1, <1>2 DEF ToldTo

\* The events of a message go after those that were sent before.
LEMMA Told ==
    ASSUME Inv, NEW s \in Subs, NEW events \in Seq(Nat), NEW resync \in Nat,
           Tell(s, events, resync)
    PROVE  /\ sent' \in [Subs -> Seq(Nat)] /\ resynced' \in [Subs -> Nat]
           /\ \A t \in Subs \ {s} : sent'[t] = sent[t] /\ resynced'[t] = resynced[t]
           /\ ToSet(sent'[s]) = ToSet(sent[s]) \cup ToSet(events)
           /\ resynced'[s] = IF resync = 0 THEN resynced[s] ELSE resync
           /\ held' = held \cup ToSet(events) \cup ({resync} \ {0})
           /\ (\A c \in ToSet(sent[s]), d \in ToSet(events) : c < d) /\ Rising(events)
                => Rising(sent'[s])
           /\ events = <<>> => sent' = sent
<1>1. /\ sent' = [sent EXCEPT ![s] = @ \o events]
      /\ resynced' = [resynced EXCEPT ![s] = IF resync = 0 THEN @ ELSE resync]
      /\ held' = held \cup ToSet(events) \cup ({resync} \ {0})
  BY DEF Tell
<1>2. sent \in [Subs -> Seq(Nat)] /\ resynced \in [Subs -> Nat] /\ sent[s] \in Seq(Nat)
      /\ Rising(sent[s]) /\ ToSet(sent[s]) \subseteq Nat
  BY ToldFacts DEF ToldTo
<1> DEFINE p == sent[s]
           r == p \o events
<1> HIDE DEF p
<1>3. /\ r \in Seq(Nat) /\ DOMAIN r = 1..(Len(p) + Len(events))
      /\ \A i \in DOMAIN r : r[i] = IF i <= Len(p) THEN p[i] ELSE events[i - Len(p)]
      /\ ToSet(r) = ToSet(p) \cup ToSet(events)
  BY <1>2, Joined DEF p
<1>4. /\ Len(p) \in Nat /\ DOMAIN p = 1..Len(p) /\ \A i \in DOMAIN p : p[i] \in ToSet(p)
      /\ Len(events) \in Nat /\ DOMAIN events = 1..Len(events)
      /\ \A i \in DOMAIN events : events[i] \in ToSet(events)
  BY <1>2, Elements DEF p
<1>5. ASSUME \A c \in ToSet(p), d \in ToSet(events) : c < d, Rising(events), Rising(p)
      PROVE  Rising(r)
  <2> SUFFICES ASSUME NEW i \in DOMAIN r, NEW j \in DOMAIN r, i < j PROVE r[i] < r[j]
    BY DEF Rising
  <2>1. CASE j <= Len(p)
    <3>1. i \in DOMAIN p /\ j \in DOMAIN p /\ r[i] = p[i] /\ r[j] = p[j]
      BY <1>3, <1>4, <2>1
    <3> QED
      BY <1>5, <3>1 DEF Rising
  <2>2. CASE i <= Len(p) /\ ~(j <= Len(p))
    <3>1. /\ i \in DOMAIN p /\ j - Len(p) \in DOMAIN events
          /\ r[i] = p[i] /\ r[j] = events[j - Len(p)]
      BY <1>3, <1>4, <2>2
    <3> QED
      BY <1>4, <1>5, <3>1
  <2>3. CASE ~(i <= Len(p))
    <3>1. /\ i - Len(p) \in DOMAIN events /\ j - Len(p) \in DOMAIN events
          /\ i - Len(p) < j - Len(p)
          /\ r[i] = events[i - Len(p)] /\ r[j] = events[j - Len(p)]
      BY <1>3, <1>4, <2>3
    <3> QED
      BY <1>5, <3>1 DEF Rising
  <2> QED
    BY <1>3, <1>4, <2>1, <2>2, <2>3
<1>6. ASSUME events = <<>> PROVE r = p
  BY <1>2, <1>6, ConcatEmptySeq DEF p
<1> HIDE DEF r
<1>7. sent' = [sent EXCEPT ![s] = r]
  BY <1>1 DEF p, r
<1>8. sent'[s] = r /\ \A t \in Subs \ {s} : sent'[t] = sent[t]
  BY <1>2, <1>7
<1>9. sent' \in [Subs -> Seq(Nat)]
  BY <1>2, <1>3, <1>7
<1>10. ASSUME events = <<>> PROVE sent' = sent
  BY <1>2, <1>6, <1>7, <1>10 DEF p
<1>11. /\ resynced' \in [Subs -> Nat]
       /\ \A t \in Subs \ {s} : resynced'[t] = resynced[t]
       /\ resynced'[s] = IF resync = 0 THEN resynced[s] ELSE resync
  BY <1>1, <1>2
<1> QED
  BY <1>1, <1>2, <1>3, <1>5, <1>8, <1>9, <1>10, <1>11 DEF p

LEMMA BackendKeepsTold ==
    ASSUME Inv, BackendNext, UNCHANGED sessionVars
    PROVE  ToldInv'
<1>1. UNCHANGED <<pc, handler, memberPks, through, from, sent, silent, resynced, held, Active>>
  BY DEF sessionVars, activeVars, toldVars, Active
<1>2. Len(log') \in Nat /\ Len(log) \in Nat /\ Len(log) <= Len(log')
  BY BackendFacts, GrownFacts DEF Grows
<1>3. ASSUME NEW s \in Subs PROVE ToldTo(s)'
  BY <1>1, <1>2, Untouched DEF Settling
<1>4. LeftToTell'
  BY <1>1, ToldFacts DEF LeftToTell
<1>5. held' \subseteq 0..Len(log')
  BY <1>1, <1>2, ToldFacts
<1> QED
  BY <1>1, <1>3, <1>4, <1>5, ToldFacts DEF ToldInv

\* The steps that only move the locals of the handler.
LEMMA ReadsKeepTold ==
    ASSUME Inv,
           (\E s \in Subs, asked \in held \cup {None} : Subscribe(s, asked))
           \/ ReadSnapshot \/ CheckLimit \/ ReadMembers \/ CatchUpLatest \/ CatchUpEvents
    PROVE  ToldInv'
<1>1. UNCHANGED <<memberPks, through, from, sent, silent, resynced, held, log, Active>>
  BY DEF Subscribe, ReadSnapshot, CheckLimit, ReadMembers, CatchUpLatest, CatchUpEvents,
         Reads, backendVars, logVars, activeVars, toldVars, Active
<1>2. /\ handler.sub \in Subs \cup {None} /\ handler.snapshot \in Nat /\ handler.latest \in Nat
      /\ pc \in Asking \cup Replying => handler.sub \in Subs
      /\ Len(log) \in Nat /\ Latest = Len(log)
  BY HandlerFacts, BackendFacts
<1>3. CASE CatchUpLatest \/ CatchUpEvents
  <2>1. /\ pc \in {"latest", "catch up"} /\ pc' \in Replying \ {"flush", "latest"}
        /\ handler'.sub = handler.sub /\ handler'.snapshot = handler.snapshot
    BY <1>3 DEF CatchUpLatest, CatchUpEvents, Goto, Replying, Inv, HandlerInv, Locals
  <2>2. ASSUME NEW s \in Subs PROVE ToldTo(s)'
    <3>1. Settling(s)' <=> Settling(s)
      BY <2>1 DEF Settling, Replying
    <3>2. /\ UNCHANGED <<memberPks[s], through[s], sent[s], silent[s], resynced[s]>>
          /\ Len(log') \in Nat /\ Len(log) <= Len(log') /\ held \subseteq held'
      BY <1>1, <1>2
    <3>3. s \notin Active' \/ (Settling(s)' /\ pc' # "flush") =>
            s \notin Active \/ (Settling(s) /\ pc # "flush")
      BY <1>1, <2>1, <3>1
    <3> QED
      BY <2>1, <3>1, <3>2, <3>3, Untouched
  <2>3. LeftToTell'
    <3>1. CASE CatchUpLatest
      <4>1. /\ pc = "latest" /\ handler'.latest = Len(log)
            /\ handler'.events = handler.events /\ handler'.resync = handler.resync
            /\ pc' = IF Latest = handler.snapshot THEN "ack" ELSE "catch up"
        BY <1>2, <3>1 DEF CatchUpLatest, Goto, Inv, HandlerInv, Locals
      <4>2. handler.events = <<>> /\ handler.resync = 0 /\ Rising(handler.events)
            /\ resynced[handler.sub] <= handler.snapshot
            /\ through[handler.sub] = handler.snapshot
        BY <4>1, ToldFacts DEF LeftToTell, Replying
      <4>3. through[handler.sub] = IF pc' \in {"latest", "catch up", "refresh"}
                                  THEN handler.snapshot ELSE Len(log)
        BY <1>2, <4>1, <4>2
      <4>4. pc' \notin Asking /\ ToSet(<<>>) = {}
        BY <2>1, EmptyHasNone DEF Asking, Replying
      <4> QED
        BY <1>1, <2>1, <4>1, <4>2, <4>3, <4>4 DEF LeftToTell
    <3>2. CASE CatchUpEvents
      <4> DEFINE answer == Answer(handler.sub, handler.snapshot, handler.latest)
      <4>1. /\ pc = "catch up" /\ handler'.latest = handler.latest
            /\ handler'.events = answer.events /\ handler'.resync = answer.resync
            /\ pc' = "refresh" /\ handler.sub \in Subs
        BY <1>2, <3>2 DEF CatchUpEvents, Goto, Inv, HandlerInv, Locals, Replying
      <4>2. /\ resynced[handler.sub] <= handler.snapshot
            /\ through[handler.sub] = handler.snapshot
        BY <4>1, ToldFacts DEF LeftToTell, Replying
      <4>3. /\ Rising(answer.events) /\ answer.resync \in {0, handler.latest}
            /\ \A c \in ToSet(answer.events) : handler.snapshot < c /\ c <= handler.latest
        BY <1>2, <4>1, AnswerFacts
      <4>4. pc' \notin Asking
        BY <2>1 DEF Asking, Replying
      <4> QED
        BY <1>1, <2>1, <4>1, <4>2, <4>3, <4>4 DEF LeftToTell
    <3> QED
      BY <1>3, <3>1, <3>2
  <2> QED
    BY <1>1, <2>2, <2>3, ToldFacts DEF ToldInv
<1>4. CASE (\E s \in Subs, asked \in held \cup {None} : Subscribe(s, asked))
           \/ ReadSnapshot \/ CheckLimit \/ ReadMembers
  <2>1. pc \notin Replying /\ pc' \notin Replying
    BY <1>4 DEF Subscribe, ReadSnapshot, CheckLimit, ReadMembers, Ignore, Goto, Replying
  <2>2. ASSUME NEW s \in Subs PROVE ToldTo(s)'
    BY <1>1, <1>2, <2>1, Untouched DEF Settling
  <2>3. handler'.events = <<>> /\ handler'.resync = 0
    <3>1. handler.events = <<>> /\ handler.resync = 0
      <4>1. CASE pc = "idle"
        BY <4>1, NoLocalsFacts DEF Inv, HandlerInv, Asking, Replying
      <4>2. CASE pc \in Asking
        BY <4>2, ToldFacts DEF LeftToTell
      <4> QED
        BY <1>4, <4>1, <4>2 DEF Subscribe, ReadSnapshot, CheckLimit, ReadMembers, Asking
    <3> QED
      BY <1>4, <3>1, NoLocalsFacts DEF Subscribe, ReadSnapshot, CheckLimit, ReadMembers, Ignore,
                                      Inv, HandlerInv, Locals
  <2>4. LeftToTell'
    <3>1. Rising(<<>>) /\ ToSet(<<>>) = {}
      BY EmptyHasNone DEF Rising
    <3> QED
      BY <2>1, <2>3, <3>1 DEF LeftToTell
  <2> QED
    BY <1>1, <2>2, <2>4, ToldFacts DEF ToldInv
<1> QED
  BY <1>3, <1>4

\* The steps that register a subscription and read its members again.
LEMMA RegistersKeepTold ==
    ASSUME Inv, Join \/ Refresh
    PROVE  ToldInv'
<1> DEFINE s == handler.sub
<1>1. /\ s \in Subs /\ handler.snapshot \in Nat /\ handler.latest \in Nat
      /\ handler.found \subseteq Objects
      /\ Len(log) \in Nat /\ handler.snapshot <= Len(log) /\ handler.latest <= Len(log)
  <2>1. pc \in Asking \cup Replying
    BY DEF Join, Refresh, Asking, Replying
  <2> QED
    BY <2>1, HandlerFacts, BackendFacts DEF Inv, HandlerInv
<1>2. UNCHANGED <<handler, from, sent, silent, resynced, held, log>>
  BY DEF Join, Refresh, world, backendVars, logVars, toldVars
<1>3. CASE Join
  <2>1. /\ pc = "join" /\ pc' = "latest"
        /\ memberPks' = [memberPks EXCEPT ![s] = handler.found]
        /\ through' = [through EXCEPT ![s] = handler.snapshot]
        /\ Active' = Active \cup {s}
    BY <1>3, JoinKeepsGroups DEF Join, Goto
  <2>2. s \notin Active /\ handler.found \subseteq Scope(s)
    BY <2>1 DEF Inv, HandlerInv, Asking
  <2>3. sent[s] = <<>> /\ resynced[s] = 0
    BY <1>1, <2>2, ToldFacts DEF ToldTo
  <2>4. /\ memberPks' \in [Subs -> SUBSET Objects] /\ through' \in [Subs -> Nat]
        /\ memberPks'[s] = handler.found /\ through'[s] = handler.snapshot
        /\ \A t \in Subs \ {s} : memberPks'[t] = memberPks[t] /\ through'[t] = through[t]
    BY <1>1, <2>1, ToldFacts
  <2>5. ASSUME NEW t \in Subs PROVE ToldTo(t)'
    <3>1. CASE t = s
      <4>1. ToSet(<<>>) = {} /\ Rising(<<>>)
        BY EmptyHasNone DEF Rising
      <4>2. silent[s] \subseteq 1..Len(log)
        BY <1>1, ToldFacts DEF ToldTo
      <4> QED
        BY <1>1, <1>2, <2>2, <2>3, <2>4, <3>1, <4>1, <4>2 DEF ToldTo
    <3>2. CASE t # s
      <4>1. ~Settling(t)' /\ (t \in Active' <=> t \in Active)
        BY <1>2, <2>1, <3>2 DEF Settling
      <4>2. /\ UNCHANGED <<memberPks[t], through[t], sent[t], silent[t], resynced[t]>>
            /\ Len(log') \in Nat /\ Len(log) <= Len(log') /\ held \subseteq held'
        BY <1>1, <1>2, <2>4, <3>2
      <4> QED
        BY <4>1, <4>2, Untouched
    <3> QED
      BY <3>1, <3>2
  <2>6. LeftToTell'
    <3>1. LeftToTell /\ pc \in Asking /\ pc' \notin Asking
      BY <2>1, ToldFacts DEF Asking
    <3>2. /\ handler.events = <<>> /\ handler.resync = 0 /\ Rising(handler.events)
          /\ handler.resync \in {0, handler.latest}
          /\ \A c \in ToSet(handler.events) : handler.snapshot < c /\ c <= handler.latest
      BY <3>1 DEF LeftToTell
    <3>3. resynced'[handler'.sub] <= handler'.snapshot
          /\ through'[handler'.sub] = handler'.snapshot
      BY <1>1, <1>2, <2>3, <2>4
    <3> QED
      BY <1>2, <2>1, <3>2, <3>3 DEF LeftToTell
  <2> QED
    BY <1>2, <2>4, <2>5, <2>6, ToldFacts DEF ToldInv
<1>4. CASE Refresh
  <2>1. /\ pc = "refresh" /\ pc' = "ack"
        /\ memberPks' = [memberPks EXCEPT ![s] = Matches(s)]
        /\ through' = [through EXCEPT ![s] = handler.latest]
        /\ Active' = Active
    BY <1>4 DEF Refresh, Goto, Active
  <2>2. Matches(s) \subseteq Scope(s) /\ Scope(s) \subseteq Objects
    BY <1>1, ScopeFacts
  <2>3. /\ sent[s] = <<>> /\ resynced[s] = 0 /\ silent[s] \subseteq 1..Len(log)
    BY <1>1, <2>1, ToldFacts DEF ToldTo, Settling, Replying
  <2>4. /\ memberPks' \in [Subs -> SUBSET Objects] /\ through' \in [Subs -> Nat]
        /\ memberPks'[s] = Matches(s) /\ through'[s] = handler.latest
        /\ \A t \in Subs \ {s} : memberPks'[t] = memberPks[t] /\ through'[t] = through[t]
    BY <1>1, <2>1, <2>2, ToldFacts
  <2>5. ASSUME NEW t \in Subs PROVE ToldTo(t)'
    <3>1. CASE t = s
      <4>1. ToSet(<<>>) = {} /\ Rising(<<>>)
        BY EmptyHasNone DEF Rising
      <4> QED
        BY <1>1, <1>2, <2>2, <2>3, <2>4, <3>1, <4>1 DEF ToldTo
    <3>2. CASE t # s
      <4>1. ~Settling(t)' /\ (t \in Active' <=> t \in Active)
        BY <1>2, <2>1, <3>2 DEF Settling
      <4>2. /\ UNCHANGED <<memberPks[t], through[t], sent[t], silent[t], resynced[t]>>
            /\ Len(log') \in Nat /\ Len(log) <= Len(log') /\ held \subseteq held'
        BY <1>1, <1>2, <2>4, <3>2
      <4> QED
        BY <4>1, <4>2, Untouched
    <3> QED
      BY <3>1, <3>2
  <2>6. LeftToTell'
    <3>1. /\ handler.resync \in {0, handler.latest} /\ Rising(handler.events)
          /\ \A c \in ToSet(handler.events) : handler.snapshot < c /\ c <= handler.latest
      BY ToldFacts DEF LeftToTell
    <3>2. resynced'[handler'.sub] <= handler'.snapshot
          /\ through'[handler'.sub] = handler'.latest
      BY <1>1, <1>2, <2>3, <2>4
    <3> QED
      BY <1>2, <2>1, <3>1, <3>2 DEF LeftToTell, Asking
  <2> QED
    BY <1>2, <2>4, <2>5, <2>6, ToldFacts DEF ToldInv
<1> QED
  BY <1>3, <1>4

\* The acknowledgement, and the answers that follow it.
LEMMA RepliesKeepTold ==
    ASSUME Inv, Acknowledge \/ CheckReplay \/ Replay
    PROVE  ToldInv'
<1> DEFINE s == handler.sub
<1>1. /\ s \in Subs /\ handler.snapshot \in Nat /\ handler.latest \in Nat
      /\ handler.asked \in Nat \cup {None}
      /\ Len(log) \in Nat /\ handler.snapshot <= Len(log) /\ handler.snapshot <= handler.latest
      /\ pc \in {"ack", "check", "replay"} /\ pc' \in {"check", "replay", "flush"}
  <2>1. /\ pc \in {"ack", "check", "replay"} /\ pc' \in {"check", "replay", "flush"}
        /\ pc \in Replying /\ pc # "latest"
    BY DEF Acknowledge, CheckReplay, Replay, Goto, Replying
  <2> QED
    BY <2>1, HandlerFacts, BackendFacts DEF Inv, HandlerInv
<1>2. UNCHANGED <<handler, memberPks, through, silent, log, Active>>
  BY DEF Acknowledge, CheckReplay, Replay, Sends, backendVars, logVars, activeVars, Active
<1>3. /\ Settling(s) /\ sent[s] = <<>> /\ resynced[s] = 0 /\ through[s] = handler.latest
      /\ memberPks[s] \subseteq Scope(s) /\ through[s] <= Len(log) /\ silent[s] \subseteq 1..Len(log)
      /\ s \in Active
  <2>1. pc \in Replying /\ pc # "flush" /\ pc \notin {"latest", "catch up", "refresh"} /\ Settling(s)
    BY <1>1 DEF Replying, Settling
  <2> QED
    BY <1>1, <2>1, ToldFacts DEF ToldTo, LeftToTell, Inv, HandlerInv
<1>4. /\ sent' \in [Subs -> Seq(Nat)] /\ resynced' \in [Subs -> Nat] /\ from' \in [Subs -> Nat]
      /\ \A t \in Subs \ {s} : sent'[t] = sent[t] /\ resynced'[t] = resynced[t]
      /\ held \subseteq held' /\ held' \subseteq 0..Len(log)
      /\ ToSet(sent'[s]) \subseteq held' /\ Rising(sent'[s])
      /\ \A c \in ToSet(sent'[s]) : c <= handler.snapshot
      /\ resynced'[s] <= handler.snapshot
      /\ pc' # "flush" => sent'[s] = <<>> /\ resynced'[s] = 0
  <2>1. CASE Acknowledge
    <3>1. /\ UNCHANGED <<sent, resynced>> /\ held' = held \cup {handler.snapshot}
          /\ from' = [from EXCEPT ![s] = IF handler.asked \notin {None, handler.snapshot}
                                         THEN handler.asked ELSE handler.snapshot]
      BY <2>1 DEF Acknowledge
    <3>2. from' \in [Subs -> Nat]
      BY <1>1, <3>1, ToldFacts
    <3>3. Rising(<<>>) /\ ToSet(<<>>) = {}
      BY EmptyHasNone DEF Rising
    <3> QED
      BY <1>1, <1>3, <3>1, <3>2, <3>3, ToldFacts
  <2>2. CASE CheckReplay /\ pc' = "replay"
    <3>1. UNCHANGED <<sent, resynced, held, from>>
      BY <2>2 DEF CheckReplay, Goto, Sends
    <3>3. Rising(<<>>) /\ ToSet(<<>>) = {}
      BY EmptyHasNone DEF Rising
    <3> QED
      BY <1>1, <1>3, <3>1, <3>3, ToldFacts
  <2>3. ASSUME NEW events \in Seq(Nat), NEW resync \in {0, handler.snapshot},
               Tell(s, events, resync), UNCHANGED from, pc' = "flush", Rising(events),
               \A c \in ToSet(events) : c <= handler.snapshot
        PROVE  <1>4!:
    <3>1. resync \in Nat
      BY <1>1
    <3>2. ToSet(sent[s]) = {} /\ \A c \in ToSet(events) : c \in Nat
      BY <1>3, EmptyHasNone, Elements
    <3>3. /\ sent' \in [Subs -> Seq(Nat)] /\ resynced' \in [Subs -> Nat]
          /\ \A t \in Subs \ {s} : sent'[t] = sent[t] /\ resynced'[t] = resynced[t]
          /\ ToSet(sent'[s]) = ToSet(events) /\ Rising(sent'[s])
          /\ resynced'[s] = IF resync = 0 THEN 0 ELSE resync
          /\ held' = held \cup ToSet(events) \cup ({resync} \ {0})
      <4>1. /\ sent' \in [Subs -> Seq(Nat)] /\ resynced' \in [Subs -> Nat]
            /\ \A t \in Subs \ {s} : sent'[t] = sent[t] /\ resynced'[t] = resynced[t]
            /\ ToSet(sent'[s]) = ToSet(sent[s]) \cup ToSet(events)
            /\ resynced'[s] = IF resync = 0 THEN resynced[s] ELSE resync
            /\ held' = held \cup ToSet(events) \cup ({resync} \ {0})
            /\ (\A c \in ToSet(sent[s]), d \in ToSet(events) : c < d) /\ Rising(events)
                 => Rising(sent'[s])
        <5>1. s \in Subs /\ Tell(s, events, resync)
          BY <1>1, <2>3
        <5> HIDE DEF s
        <5> QED
          BY <3>1, <5>1, Told
      <4> QED
        BY <1>3, <2>3, <3>2, <4>1
    <3>4. held' \subseteq 0..Len(log) /\ held \subseteq held'
      BY <1>1, <2>3, <3>2, <3>3, ToldFacts
    <3> QED
      BY <1>1, <2>3, <3>3, <3>4, ToldFacts
  <2>4. CASE CheckReplay /\ pc' # "replay"
    <3>1. Tell(s, <<>>, handler.snapshot) /\ pc' = "flush" /\ UNCHANGED from
      BY <2>4 DEF CheckReplay, Goto, Sends
    <3>2. <<>> \in Seq(Nat) /\ ToSet(<<>>) = {} /\ Rising(<<>>)
      BY EmptyHasNone DEF Rising
    <3> QED
      BY <2>3, <3>1, <3>2
  <2>5. CASE Replay
    <3> DEFINE answer == Answer(s, handler.asked, handler.snapshot)
    <3>1. Tell(s, answer.events, answer.resync) /\ pc' = "flush" /\ UNCHANGED from /\ pc = "replay"
      BY <2>5 DEF Replay, Goto, Sends
    <3>2. handler.asked \in Nat
      BY <1>1, <3>1 DEF Inv, HandlerInv
    <3>3. /\ answer.events \in Seq(Nat) /\ answer.resync \in {0, handler.snapshot}
          /\ Rising(answer.events) /\ \A c \in ToSet(answer.events) : c <= handler.snapshot
      BY <1>1, <3>2, AnswerFacts
    <3> QED
      BY <2>3, <3>1, <3>3
  <2> QED
    BY <2>1, <2>2, <2>4, <2>5
<1>5. ASSUME NEW t \in Subs PROVE ToldTo(t)'
  <2>1. CASE t = s
    <3>1. \A c \in ToSet(sent'[s]) : c <= through[s]
      <4>1. ToSet(sent'[s]) \subseteq Nat
        BY <1>1, <1>4, Elements
      <4> QED
        BY <1>1, <1>3, <1>4, <4>1
    <3>2. resynced'[s] <= Len(log)
      BY <1>1, <1>4
    <3>3. s \in Active'
      BY <1>2, <1>3
    <3> QED
      BY <1>2, <1>3, <1>4, <2>1, <3>1, <3>2, <3>3 DEF ToldTo
  <2>2. CASE t # s
    <3>1. ~Settling(t)' /\ (t \in Active' <=> t \in Active)
      BY <1>2, <2>2 DEF Settling
    <3>2. /\ UNCHANGED <<memberPks[t], through[t], sent[t], silent[t], resynced[t]>>
          /\ Len(log') \in Nat /\ Len(log) <= Len(log') /\ held \subseteq held'
      BY <1>1, <1>2, <1>4, <2>2
    <3> QED
      BY <3>1, <3>2, Untouched
  <2> QED
    BY <2>1, <2>2
<1>6. LeftToTell'
  <2>1. /\ handler.resync \in {0, handler.latest} /\ Rising(handler.events)
        /\ \A c \in ToSet(handler.events) : handler.snapshot < c /\ c <= handler.latest
    BY ToldFacts DEF LeftToTell
  <2> QED
    BY <1>1, <1>2, <1>3, <1>4, <2>1 DEF LeftToTell, Asking
<1> QED
  BY <1>2, <1>4, <1>5, <1>6, ToldFacts DEF ToldInv

LEMMA FlushKeepsTold ==
    ASSUME Inv, Flush
    PROVE  ToldInv'
<1> DEFINE s == handler.sub
<1>1. /\ pc = "flush" /\ pc' = "idle" /\ handler' = NoLocals
      /\ Tell(s, handler.events, handler.resync)
      /\ UNCHANGED <<memberPks, through, from, silent, log, Active>>
  BY DEF Flush, Ignore, Goto, Sends, backendVars, logVars, activeVars, Active
<1>2. /\ s \in Subs /\ handler.events \in Seq(Nat) /\ handler.resync \in Nat
      /\ handler.snapshot \in Nat /\ handler.latest \in Nat
      /\ Len(log) \in Nat /\ handler.latest <= Len(log) /\ handler.snapshot <= handler.latest
      /\ s \in Active /\ Settling(s)
  <2>1. pc \in Replying /\ pc # "latest"
    BY <1>1 DEF Replying
  <2> QED
    BY <2>1, HandlerFacts, BackendFacts DEF Inv, HandlerInv, Settling
<1>3. /\ through[s] = handler.latest /\ resynced[s] <= handler.snapshot
      /\ handler.resync \in {0, handler.latest} /\ Rising(handler.events)
      /\ \A c \in ToSet(handler.events) : handler.snapshot < c /\ c <= handler.latest
  <2>1. pc \in Replying /\ pc \notin {"latest", "catch up", "refresh"}
    BY <1>1 DEF Replying
  <2> QED
    BY <2>1, ToldFacts DEF LeftToTell
<1>4. /\ \A c \in ToSet(sent[s]) : c \in Nat /\ c <= handler.snapshot
      /\ \A c \in ToSet(handler.events) : c \in Nat
      /\ memberPks[s] \subseteq Scope(s) /\ silent[s] \subseteq 1..Len(log)
      /\ ToSet(sent[s]) \subseteq held
  BY <1>2, ToldFacts, Elements DEF ToldTo
<1> HIDE DEF s
<1>5. /\ sent' \in [Subs -> Seq(Nat)] /\ resynced' \in [Subs -> Nat]
      /\ \A t \in Subs \ {s} : sent'[t] = sent[t] /\ resynced'[t] = resynced[t]
      /\ ToSet(sent'[s]) = ToSet(sent[s]) \cup ToSet(handler.events)
      /\ resynced'[s] = IF handler.resync = 0 THEN resynced[s] ELSE handler.resync
      /\ held' = held \cup ToSet(handler.events) \cup ({handler.resync} \ {0})
      /\ (\A c \in ToSet(sent[s]), d \in ToSet(handler.events) : c < d) /\ Rising(handler.events)
           => Rising(sent'[s])
  BY <1>1, <1>2, Told
<1>6. \A c \in ToSet(sent[s]), d \in ToSet(handler.events) : c < d
  BY <1>2, <1>3, <1>4
<1>7. Rising(sent'[s])
  BY <1>3, <1>5, <1>6
<1>8. held \subseteq held' /\ held' \subseteq 0..Len(log)
  BY <1>2, <1>3, <1>4, <1>5, ToldFacts
<1>9. ASSUME NEW t \in Subs PROVE ToldTo(t)'
  <2>1. ~Settling(t)'
    BY <1>1 DEF Settling, Replying
  <2>2. CASE t = s
    <3>1. /\ \A c \in ToSet(sent'[s]) : c <= through[s]
          /\ resynced'[s] <= Len(log) /\ through[s] <= Len(log)
          /\ ToSet(sent'[s]) \subseteq held'
      BY <1>2, <1>3, <1>4, <1>5
    <3> QED
      BY <1>1, <1>2, <1>4, <1>7, <2>1, <2>2, <3>1 DEF ToldTo
  <2>3. CASE t # s
    <3>1. /\ UNCHANGED <<memberPks[t], through[t], sent[t], silent[t], resynced[t]>>
          /\ Len(log') \in Nat /\ Len(log) <= Len(log') /\ held \subseteq held'
          /\ (t \in Active' <=> t \in Active)
      BY <1>1, <1>2, <1>5, <1>8, <2>3
    <3> QED
      BY <2>1, <3>1, Untouched
  <2> QED
    BY <2>2, <2>3
<1>10. LeftToTell'
  <2>1. Rising(<<>>) /\ ToSet(<<>>) = {}
    BY EmptyHasNone DEF Rising
  <2> QED
    BY <1>1, <2>1, NoLocalsFacts DEF LeftToTell, Replying
<1> QED
  BY <1>1, <1>5, <1>8, <1>9, <1>10, ToldFacts DEF ToldInv

\* What evaluating an event does to a subscription.
LEMMA Evaluated ==
    ASSUME Inv, NEW s \in Subs, Evaluate(s), event \in 1..Len(log), event > through[s]
    PROVE  /\ memberPks' \in [Subs -> SUBSET Objects] /\ memberPks'[s] \subseteq Scope(s)
           /\ sent' \in [Subs -> Seq(Nat)] /\ resynced' = resynced
           /\ silent' \in [Subs -> SUBSET Nat] /\ silent'[s] \subseteq 1..Len(log)
           /\ silent[s] \subseteq silent'[s]
           /\ \A t \in Subs \ {s} : /\ memberPks'[t] = memberPks[t] /\ sent'[t] = sent[t]
                                    /\ silent'[t] = silent[t]
           /\ ToSet(sent'[s]) \subseteq ToSet(sent[s]) \cup {event} /\ Rising(sent'[s])
           /\ ToSet(sent[s]) \subseteq ToSet(sent'[s])
           /\ event \in ToSet(sent'[s]) \cup silent'[s]
           /\ held \subseteq held' /\ held' \subseteq 0..Len(log) /\ ToSet(sent'[s]) \subseteq held'
<1> DEFINE o == Subject(event)
           before == o \in memberPks[s]
           after == about[log[event]].op # "deleted" /\ o \in visible
           delivered == o \in Scope(s) /\ about[log[event]].facet \in RegisteredFacets
           hasEffect == delivered /\ (before \/ after)
           events == IF hasEffect THEN <<event>> ELSE <<>>
<1>1. /\ memberPks' = [memberPks EXCEPT ![s] =
                           IF ~hasEffect THEN @ ELSE IF after THEN @ \cup {o} ELSE @ \ {o}]
      /\ Tell(s, events, 0)
      /\ silent' = [silent EXCEPT ![s] = IF hasEffect THEN @ ELSE @ \cup {event}]
  BY DEF Evaluate
<1>2. hasEffect => o \in Scope(s)
  OBVIOUS
<1>3. events \in {<<event>>, <<>>} /\ (hasEffect => events = <<event>>)
  OBVIOUS
<1> HIDE DEF o, after, hasEffect, events
<1>4. /\ memberPks \in [Subs -> SUBSET Objects] /\ memberPks[s] \subseteq Scope(s)
      /\ Scope(s) \subseteq Objects
      /\ silent \in [Subs -> SUBSET Nat] /\ silent[s] \subseteq 1..Len(log)
      /\ resynced \in [Subs -> Nat] /\ Len(log) \in Nat /\ held \subseteq 0..Len(log)
      /\ ToSet(sent[s]) \subseteq held /\ Rising(sent[s])
      /\ \A c \in ToSet(sent[s]) : c <= through[s] /\ c \in Nat
      /\ through[s] \in Nat
  BY ToldFacts, ScopeFacts, BackendFacts DEF ToldTo
<1>5. /\ memberPks' \in [Subs -> SUBSET Objects] /\ memberPks'[s] \subseteq Scope(s)
      /\ \A t \in Subs \ {s} : memberPks'[t] = memberPks[t]
  BY <1>1, <1>2, <1>4
<1>6. /\ silent' \in [Subs -> SUBSET Nat] /\ silent'[s] \subseteq 1..Len(log)
      /\ \A t \in Subs \ {s} : silent'[t] = silent[t]
      /\ silent[s] \subseteq silent'[s] /\ (~hasEffect => event \in silent'[s])
  BY <1>1, <1>4
<1>7. /\ events \in Seq(Nat) /\ ToSet(events) \subseteq {event} /\ Rising(events)
      /\ (hasEffect => event \in ToSet(events))
  <2>1. <<event>> \in Seq(Nat) /\ ToSet(<<event>>) = {event} /\ Rising(<<event>>)
    BY DEF ToSet, Rising
  <2>2. <<>> \in Seq(Nat) /\ ToSet(<<>>) = {} /\ Rising(<<>>)
    BY EmptyHasNone DEF Rising
  <2> QED
    BY <1>3, <2>1, <2>2
<1>8. /\ sent' \in [Subs -> Seq(Nat)] /\ resynced' \in [Subs -> Nat]
      /\ \A t \in Subs \ {s} : sent'[t] = sent[t] /\ resynced'[t] = resynced[t]
      /\ ToSet(sent'[s]) = ToSet(sent[s]) \cup ToSet(events)
      /\ resynced'[s] = resynced[s]
      /\ held' = held \cup ToSet(events)
      /\ (\A c \in ToSet(sent[s]), d \in ToSet(events) : c < d) /\ Rising(events)
           => Rising(sent'[s])
  BY <1>1, <1>7, Told
<1>9. \A c \in ToSet(sent[s]), d \in ToSet(events) : c < d
  BY <1>4, <1>7
<1>10. resynced' = resynced
  BY <1>4, <1>8
<1>11. held' \subseteq 0..Len(log)
  <2>1. event \in 0..Len(log)
    BY <1>4
  <2> QED
    BY <1>4, <1>7, <1>8, <2>1
<1> QED
  BY <1>4, <1>5, <1>6, <1>7, <1>8, <1>9, <1>10, <1>11

LEMMA PublishKeepsTold ==
    ASSUME Inv, Publish
    PROVE  ToldInv'
<1> DEFINE s == Head(todo)
<1>1. /\ pc = "publish" /\ pc' = "publish" /\ todo # <<>> /\ handler' = handler
      /\ UNCHANGED <<from, log, Active>>
      /\ IF event <= through[s]
         THEN UNCHANGED <<memberPks, through, sent, silent, resynced, held>>
         ELSE Evaluate(s) /\ through' = [through EXCEPT ![s] = event]
  BY DEF Publish, backendVars, logVars, Active
<1>2. /\ s \in Active /\ s \in Subs /\ event \in 1..Len(log) /\ Len(log) \in Nat
      /\ through[s] \in Nat
  <2>1. s \in Active /\ s \in Subs
    BY <1>1, MailFacts, Taken
  <2> QED
    BY <1>1, <2>1, BackendFacts, ToldFacts DEF Inv, MailInv, Publishing
<1>3. \A t \in Subs : ~Settling(t)'
  BY <1>1 DEF Settling, Replying
<1>4. LeftToTell'
  <2>1. pc' \notin Replying /\ pc' \notin Asking \cup {"latest", "catch up"}
    BY <1>1 DEF Replying, Asking
  <2> QED
    BY <1>1, <2>1, ToldFacts DEF LeftToTell
<1> HIDE DEF s
<1>5. CASE event <= through[s]
  <2>1. UNCHANGED <<memberPks, through, sent, silent, resynced, held>>
    BY <1>1, <1>5
  <2>2. ASSUME NEW t \in Subs PROVE ToldTo(t)'
    <3>1. /\ UNCHANGED <<memberPks[t], through[t], sent[t], silent[t], resynced[t]>>
          /\ Len(log') \in Nat /\ Len(log) <= Len(log') /\ held \subseteq held'
          /\ (t \in Active' <=> t \in Active)
      BY <1>1, <1>2, <2>1
    <3> QED
      BY <1>3, <3>1, Untouched
  <2> QED
    BY <1>1, <1>4, <2>1, <2>2, ToldFacts DEF ToldInv
<1>6. CASE ~(event <= through[s])
  <2>1. Evaluate(s) /\ through' = [through EXCEPT ![s] = event]
    BY <1>1, <1>6
  <2>2. event > through[s]
    BY <1>2, <1>6
  <2>3. /\ memberPks' \in [Subs -> SUBSET Objects] /\ memberPks'[s] \subseteq Scope(s)
        /\ sent' \in [Subs -> Seq(Nat)] /\ resynced' = resynced
        /\ silent' \in [Subs -> SUBSET Nat] /\ silent'[s] \subseteq 1..Len(log)
        /\ \A t \in Subs \ {s} : /\ memberPks'[t] = memberPks[t] /\ sent'[t] = sent[t]
                                 /\ silent'[t] = silent[t]
        /\ ToSet(sent'[s]) \subseteq ToSet(sent[s]) \cup {event} /\ Rising(sent'[s])
        /\ held \subseteq held' /\ held' \subseteq 0..Len(log) /\ ToSet(sent'[s]) \subseteq held'
    BY <1>2, <2>1, <2>2, Evaluated
  <2>4. /\ through' \in [Subs -> Nat] /\ through'[s] = event
        /\ \A t \in Subs \ {s} : through'[t] = through[t]
    BY <1>2, <2>1, ToldFacts
  <2>5. ASSUME NEW t \in Subs PROVE ToldTo(t)'
    <3>1. CASE t = s
      <4>1. \A c \in ToSet(sent'[s]) : c <= event
        <5>1. \A c \in ToSet(sent[s]) : c \in Nat /\ c <= through[s]
          BY <1>2, ToldFacts DEF ToldTo
        <5>2. \A c \in ToSet(sent[s]) : c <= event
          BY <1>2, <2>2, <5>1
        <5> QED
          BY <1>2, <2>3, <5>2
      <4>2. resynced[s] <= Len(log)
        BY <1>2, ToldFacts DEF ToldTo
      <4> QED
        BY <1>1, <1>2, <1>3, <2>3, <2>4, <3>1, <4>1, <4>2 DEF ToldTo
    <3>2. CASE t # s
      <4>1. /\ UNCHANGED <<memberPks[t], through[t], sent[t], silent[t], resynced[t]>>
            /\ Len(log') \in Nat /\ Len(log) <= Len(log') /\ held \subseteq held'
            /\ (t \in Active' <=> t \in Active)
        BY <1>1, <1>2, <2>3, <2>4, <3>2
      <4> QED
        BY <1>3, <4>1, Untouched
    <3> QED
      BY <3>1, <3>2
  <2> QED
    BY <1>1, <1>4, <2>3, <2>4, <2>5, ToldFacts DEF ToldInv
<1> QED
  BY <1>5, <1>6

\* The ends of a subscription and of a connection.
LEMMA ForgetKeepsTold ==
    ASSUME Inv, (\E s \in Subs : Unsubscribe(s)) \/ Disconnect
    PROVE  ToldInv'
<1>1. PICK gone \in SUBSET Subs :
        /\ Forget(gone) /\ UNCHANGED <<log, held>>
        /\ pc' = "idle" /\ handler' = NoLocals
        /\ Active' = Active \ gone
  <2>1. CASE \E s \in Subs : Unsubscribe(s)
    <3>1. PICK s \in Subs : Unsubscribe(s)
      BY <2>1
    <3>2. Forget({s}) /\ UNCHANGED <<log, held>> /\ pc' = "idle" /\ pc = "idle" /\ handler' = handler
      BY <3>1 DEF Unsubscribe, world, logVars
    <3>3. handler = NoLocals
      BY <3>2 DEF Inv, HandlerInv, Asking, Replying
    <3> QED
      BY <3>1, <3>2, <3>3, UnsubscribeKeepsGroups
  <2>2. CASE Disconnect
    <3>1. Forget(Subs) /\ UNCHANGED <<log, held>> /\ pc' = "idle" /\ handler' = NoLocals
          /\ Active' = {}
      BY <2>2, EmptyHasNone DEF Disconnect, Ignore, Goto, world, logVars, Active
    <3>2. Active \ Subs = {}
      BY GroupFacts
    <3> QED
      BY <3>1, <3>2
  <2> QED
    BY <2>1, <2>2
<1>2. /\ memberPks' = [s \in Subs |-> IF s \in gone THEN {} ELSE memberPks[s]]
      /\ through' = [s \in Subs |-> IF s \in gone THEN 0 ELSE through[s]]
      /\ from' = [s \in Subs |-> IF s \in gone THEN 0 ELSE from[s]]
      /\ sent' = [s \in Subs |-> IF s \in gone THEN <<>> ELSE sent[s]]
      /\ silent' = [s \in Subs |-> IF s \in gone THEN {} ELSE silent[s]]
      /\ resynced' = [s \in Subs |-> IF s \in gone THEN 0 ELSE resynced[s]]
  BY <1>1 DEF Forget
<1>3. Len(log) \in Nat /\ <<>> \in Seq(Nat) /\ Rising(<<>>) /\ ToSet(<<>>) = {}
  BY BackendFacts, EmptyHasNone DEF Rising
<1>4. /\ memberPks' \in [Subs -> SUBSET Objects] /\ through' \in [Subs -> Nat]
      /\ from' \in [Subs -> Nat] /\ resynced' \in [Subs -> Nat]
      /\ silent' \in [Subs -> SUBSET Nat]
  BY <1>2, ToldFacts
<1>5. sent' \in [Subs -> Seq(Nat)]
  BY <1>2, <1>3, ToldFacts
<1>6. ASSUME NEW s \in Subs PROVE ToldTo(s)'
  <2>1. ~Settling(s)'
    BY <1>1 DEF Settling, Replying
  <2>2. CASE s \in gone
    BY <1>1, <1>2, <1>3, <2>1, <2>2 DEF ToldTo
  <2>3. CASE s \notin gone
    <3>1. /\ UNCHANGED <<memberPks[s], through[s], sent[s], silent[s], resynced[s]>>
          /\ Len(log') \in Nat /\ Len(log) <= Len(log') /\ held \subseteq held'
          /\ (s \in Active' <=> s \in Active)
      BY <1>1, <1>2, <1>3, <2>3
    <3> QED
      BY <2>1, <3>1, Untouched
  <2> QED
    BY <2>2, <2>3
<1>7. LeftToTell'
  BY <1>1, <1>3, NoLocalsFacts DEF LeftToTell, Replying
<1> QED
  BY <1>1, <1>4, <1>5, <1>6, <1>7, ToldFacts DEF ToldInv

LEMMA ToldKept ==
    ASSUME Inv, Next
    PROVE  ToldInv'
<1>1. CASE Receive \/ FetchRow \/ Published
  <2>1. /\ UNCHANGED <<handler, memberPks, through, from, sent, silent, resynced, held, log, Active>>
        /\ pc' \in {"idle", "fetch", "publish"}
    BY <1>1 DEF Receive, FetchRow, Published, Goto, world, backendVars, logVars, activeVars,
                toldVars, Active, Inv, HandlerInv
  <2>2. pc' \notin Replying /\ pc' \notin Asking \cup {"latest", "catch up"}
    BY <2>1 DEF Replying, Asking
  <2>3. Len(log) \in Nat
    BY BackendFacts
  <2>4. ASSUME NEW s \in Subs PROVE ToldTo(s)'
    <3>1. /\ UNCHANGED <<memberPks[s], through[s], sent[s], silent[s], resynced[s]>>
          /\ Len(log') \in Nat /\ Len(log) <= Len(log') /\ held \subseteq held'
          /\ (s \in Active' <=> s \in Active)
      BY <2>1, <2>3
    <3>2. ~Settling(s)'
      BY <2>2 DEF Settling
    <3> QED
      BY <3>1, <3>2, Untouched
  <2>5. LeftToTell'
    BY <2>1, <2>2, ToldFacts DEF LeftToTell
  <2> QED
    BY <2>1, <2>4, <2>5, ToldFacts DEF ToldInv
<1> QED
  BY <1>1, BackendKeepsTold, ReadsKeepTold, RegistersKeepTold, RepliesKeepTold, FlushKeepsTold,
     PublishKeepsTold, ForgetKeepsTold DEF Next, HandlerNext, ClientNext

-----------------------------------------------------------------------------
(* SeenInv                                                                  *)

\* A step that leaves the window and the event at hand alone, and no
\* through_cursor falls.
LEMMA SameSeen ==
    ASSUME Inv, UNCHANGED <<seen, event, missed>>, Active' \subseteq Active,
           \A s \in Active' : through'[s] \in Nat /\ through[s] <= through'[s],
           pc' \in Asking \ {"snapshot"} =>
             \A c \in ToSet(seen) : c <= handler'.snapshot,
           pc' = "publish" => \A s \in Active' \ ToSet(todo') : event <= through'[s]
    PROVE  SeenInv'
<1>1. \A s \in Active', c \in ToSet(seen) : c <= through'[s] \/ c = event \/ c \in missed
  <2> SUFFICES ASSUME NEW s \in Active', NEW c \in ToSet(seen), c # event, c \notin missed
               PROVE  c <= through'[s]
    OBVIOUS
  <2>1. s \in Active /\ s \in Subs /\ c \in Nat
    BY GroupFacts, MailFacts
  <2>2. c <= through[s]
    BY <2>1 DEF Inv, SeenInv
  <2> QED
    BY <2>1, <2>2, ToldFacts
<1> QED
  BY <1>1 DEF SeenInv

LEMMA SeenKept ==
    ASSUME Inv, Next
    PROVE  SeenInv'
<1>1. CASE BackendNext /\ UNCHANGED sessionVars
  <2>1. UNCHANGED <<pc, handler, event, todo, seen, missed, through, Active>>
    BY <1>1 DEF sessionVars, activeVars, groupVars, toldVars, Active
  <2> QED
    BY <2>1 DEF Inv, SeenInv
<1>2. CASE (\E s \in Subs, asked \in held \cup {None} : Subscribe(s, asked))
           \/ CheckLimit \/ ReadMembers \/ ReadSnapshot
  <2>1. UNCHANGED <<event, todo, seen, missed, through, Active>>
    BY <1>2 DEF Subscribe, CheckLimit, ReadMembers, ReadSnapshot, Reads, activeVars, groupVars,
                toldVars, Active
  <2>2. pc' # "publish"
    BY <1>2 DEF Subscribe, CheckLimit, ReadMembers, ReadSnapshot, Ignore, Goto
  <2>3. ASSUME pc' \in Asking \ {"snapshot"}
        PROVE  \A c \in ToSet(seen) : c <= handler'.snapshot
    <3>1. CASE ReadSnapshot
      <4>1. handler' = [handler EXCEPT !.snapshot = Latest]
        BY <2>3, <3>1 DEF ReadSnapshot, Ignore, Goto, Asking
      <4>2. handler'.snapshot = Len(log)
        BY <4>1, BackendFacts DEF Inv, HandlerInv, Locals
      <4> QED
        BY <4>2, MailFacts, BackendFacts
    <3>2. CASE CheckLimit \/ ReadMembers
      <4>1. pc \in Asking \ {"snapshot"}
        BY <3>2 DEF CheckLimit, ReadMembers, Asking
      <4>2. handler'.snapshot = handler.snapshot
        BY <2>3, <3>2 DEF CheckLimit, ReadMembers, Ignore, Goto, Asking, Inv, HandlerInv, Locals
      <4> QED
        BY <4>1, <4>2 DEF Inv, SeenInv
    <3>3. CASE \E s \in Subs, asked \in held \cup {None} : Subscribe(s, asked)
      BY <2>3, <3>3 DEF Subscribe, Goto, Asking
    <3> QED
      BY <1>2, <3>1, <3>2, <3>3
  <2> QED
    BY <2>1, <2>2, <2>3 DEF Inv, SeenInv
<1>3. CASE Join
  <2>1. /\ UNCHANGED <<event, todo, seen, missed>> /\ pc = "join" /\ pc' = "latest"
        /\ through' = [through EXCEPT ![handler.sub] = handler.snapshot]
        /\ Active' = Active \cup {handler.sub}
    BY <1>3, JoinKeepsGroups DEF Join, Goto, toldVars
  <2>2. handler.sub \in Subs /\ handler.snapshot \in Nat /\ handler.sub \notin Active
    BY <2>1, HandlerFacts DEF Inv, HandlerInv, Asking
  <2>3. /\ through'[handler.sub] = handler.snapshot
        /\ \A s \in Active : through'[s] = through[s]
    BY <2>1, <2>2, ToldFacts, GroupFacts
  <2>4. \A c \in ToSet(seen) : c <= handler.snapshot
    BY <2>1 DEF Inv, SeenInv, Asking
  <2>5. pc' \notin Asking
    BY <2>1 DEF Asking
  <2> QED
    BY <2>1, <2>3, <2>4, <2>5 DEF Inv, SeenInv
<1>4. CASE CatchUpLatest \/ CatchUpEvents \/ Acknowledge \/ CheckReplay \/ Replay \/ Flush
  <2>1. UNCHANGED <<event, todo, seen, missed, through, Active>>
    BY <1>4 DEF CatchUpLatest, CatchUpEvents, Acknowledge, CheckReplay, Replay, Flush, Reads,
                Sends, activeVars, groupVars, toldVars, Active
  <2>2. pc' # "publish" /\ pc' \notin Asking
    BY <1>4 DEF CatchUpLatest, CatchUpEvents, Acknowledge, CheckReplay, Replay, Flush, Ignore,
                Goto, Asking
  <2> QED
    BY <2>1, <2>2 DEF Inv, SeenInv
<1>5. CASE Refresh
  <2>1. /\ UNCHANGED <<event, todo, seen, missed, Active>> /\ pc = "refresh" /\ pc' = "ack"
        /\ through' = [through EXCEPT ![handler.sub] = handler.latest]
    BY <1>5 DEF Refresh, Goto, groupVars, toldVars, Active
  <2>2. pc \in Replying /\ pc' \notin Asking /\ pc # "latest"
    BY <2>1 DEF Replying, Asking
  <2>3. /\ handler.sub \in Subs /\ handler.latest \in Nat
        /\ through[handler.sub] = handler.snapshot /\ handler.snapshot <= handler.latest
    BY <2>1, <2>2, HandlerFacts, ToldFacts DEF LeftToTell, Inv, HandlerInv
  <2>4. ASSUME NEW s \in Active' PROVE through'[s] \in Nat /\ through[s] <= through'[s]
    <3>1. s \in Subs /\ through[s] \in Nat
      BY <2>1, GroupFacts, ToldFacts
    <3> QED
      BY <2>1, <2>3, <3>1, ToldFacts
  <2> QED
    BY <2>1, <2>2, <2>4, SameSeen
<1>6. CASE Receive
  <2>1. /\ UNCHANGED <<todo, missed, through, Active>> /\ pc = "idle" /\ mailbox # <<>>
        /\ \/ UNCHANGED <<event, seen, pc>>
           \/ pc' = "fetch" /\ event' = Head(mailbox) /\ seen' = Remembered(Head(mailbox))
    BY <1>6 DEF Receive, Goto, activeVars, toldVars, Active
  <2>2. pc' \notin Asking /\ pc' # "publish"
    BY <2>1 DEF Asking
  <2>3. CASE UNCHANGED <<event, seen, pc>>
    BY <2>1, <2>2, <2>3 DEF Inv, SeenInv
  <2>4. CASE event' = Head(mailbox) /\ seen' = Remembered(Head(mailbox))
    <3>1. Head(mailbox) \in Nat
      BY <2>1, MailFacts, Taken
    <3>2. ToSet(seen') \subseteq ToSet(seen) \cup {event'}
      BY <2>4, <3>1, MailFacts, RememberedFacts
    <3>3. event = 0 /\ 0 \notin ToSet(seen)
      BY <2>1, MailFacts DEF Inv, MailInv, Publishing
    <3>4. \A s \in Active, c \in ToSet(seen) : c <= through[s] \/ c \in missed
      BY <3>3 DEF Inv, SeenInv
    <3> QED
      BY <2>1, <2>2, <3>2, <3>4 DEF SeenInv
  <2> QED
    BY <2>1, <2>3, <2>4
<1>7. CASE FetchRow
  <2>1. UNCHANGED <<seen, through, Active>>
    BY <1>7 DEF FetchRow, activeVars, groupVars, Active
  <2>2. CASE event <= trimmed
    <3>1. pc' = "idle" /\ missed' = missed \cup {event}
      BY <1>7, <2>2 DEF FetchRow, Goto
    <3> QED
      BY <2>1, <3>1 DEF Inv, SeenInv, Asking
  <2>3. CASE ~(event <= trimmed)
    <3>1. pc' = "publish" /\ UNCHANGED <<event, missed>> /\ ToSet(todo') = Active
      BY <1>7, <2>3 DEF FetchRow, Goto, Active
    <3> QED
      BY <2>1, <3>1 DEF Inv, SeenInv, Asking
  <2> QED
    BY <2>2, <2>3
<1>8. CASE Publish
  <2> DEFINE s == Head(todo)
  <2>1. /\ pc = "publish" /\ UNCHANGED <<seen, event, missed, pc, Active>>
        /\ todo # <<>> /\ todo' = Tail(todo)
        /\ IF event <= through[s] THEN UNCHANGED through
           ELSE through' = [through EXCEPT ![s] = event]
    BY <1>8 DEF Publish, groupVars, Active
  <2>2. s \in Subs /\ ToSet(todo) = {s} \cup ToSet(todo')
    BY <2>1, MailFacts, Taken
  <2>3. event \in Nat /\ \A t \in Active : t \in Subs /\ through[t] \in Nat
    BY MailFacts, GroupFacts, ToldFacts
  <2>4. /\ \A t \in Active : through'[t] \in Nat /\ through[t] <= through'[t]
        /\ event <= through'[s]
    <3>1. CASE event <= through[s]
      BY <2>1, <2>2, <2>3, <3>1
    <3>2. CASE ~(event <= through[s])
      <4>1. through[s] < event
        BY <2>2, <2>3, <3>2, ToldFacts
      <4>2. through'[s] = event /\ \A t \in Subs \ {s} : through'[t] = through[t]
        BY <2>1, <2>2, <3>2, ToldFacts
      <4> QED
        BY <2>3, <4>1, <4>2
    <3> QED
      BY <3>1, <3>2
  <2>5. ASSUME NEW t \in Active' \ ToSet(todo') PROVE event <= through'[t]
    <3>1. CASE t = s
      BY <2>4, <3>1
    <3>2. CASE t # s
      <4>1. t \in Active \ ToSet(todo)
        BY <2>1, <2>2, <2>5, <3>2
      <4>2. event <= through[t]
        BY <2>1, <4>1 DEF Inv, SeenInv
      <4> QED
        BY <2>3, <2>4, <4>1, <4>2
    <3> QED
      BY <3>1, <3>2
  <2>6. pc' \notin Asking
    BY <2>1 DEF Asking
  <2> QED
    BY <2>1, <2>4, <2>5, <2>6, SameSeen
<1>9. CASE Published
  <2>1. /\ pc = "publish" /\ pc' = "idle" /\ todo = <<>> /\ event' = 0
        /\ UNCHANGED <<seen, missed, through, Active>>
    BY <1>9 DEF Published, Goto, activeVars, groupVars, toldVars, Active
  <2>2. \A s \in Active : event <= through[s]
    BY <2>1, EmptyHasNone DEF Inv, SeenInv
  <2> QED
    BY <2>1, <2>2 DEF Inv, SeenInv, Asking
<1>10. CASE \E s \in Subs : Unsubscribe(s)
  <2>1. PICK s \in Subs : Unsubscribe(s)
    BY <1>10
  <2>2. /\ UNCHANGED <<seen, event, missed>> /\ pc' = "idle" /\ Active' = Active \ {s}
        /\ through' = [t \in Subs |-> IF t \in {s} THEN 0 ELSE through[t]]
    BY <2>1, UnsubscribeKeepsGroups DEF Unsubscribe, Forget
  <2>3. \A t \in Active' : through'[t] \in Nat /\ through[t] <= through'[t]
    BY <2>2, GroupFacts, ToldFacts
  <2> QED
    BY <2>2, <2>3, SameSeen DEF Asking
<1>11. CASE Disconnect
  <2>1. pc' = "idle" /\ seen' = <<>>
    BY <1>11 DEF Disconnect, Ignore, Goto
  <2> QED
    BY <2>1, EmptyHasNone DEF SeenInv, Asking
<1> QED
  BY <1>1, <1>2, <1>3, <1>4, <1>5, <1>6, <1>7, <1>8, <1>9, <1>10, <1>11
     DEF Next, HandlerNext, ClientNext

-----------------------------------------------------------------------------
(* PendingInv                                                               *)

\* What a step of the backend sends to the group of an active subscription goes
\* into the mailbox.
LEMMA SendsReachTheMailbox ==
    ASSUME Inv, BackendNext, NEW s \in Active, NEW c \in DOMAIN log',
           Subject(c)' \in Scope(s), WentOut(s, c)'
    PROVE  (c \in DOMAIN log /\ WentOut(s, c)) \/ mailbox' = Append(mailbox, c)
<1>1. /\ s \in Subs /\ Group(s) \in joined /\ c \in Nat
      /\ Len(log) \in Nat /\ DOMAIN log = 1..Len(log) /\ recorded \in Nat /\ reached \in Nat
      /\ reached <= Len(log) /\ recorded <= reached /\ reached <= recorded + 1
      /\ Kind[s] \in {"object", "filter"} /\ c >= 1
  <2>1. s \in Subs /\ Kind[s] \in {"object", "filter"}
    BY GroupFacts, ScopeFacts
  <2>2. Group(s) \in joined
    BY DEF Inv, GroupInv
  <2>3. c \in Nat /\ c >= 1
    BY GrownFacts
  <2> QED
    BY <2>1, <2>2, <2>3, BackendFacts
<1>2. CASE (\E o \in Objects : Save(o) \/ Delete(o)) \/ \E o \in Strangers : WriteStranger(o)
  <2>1. UNCHANGED <<log, reached, recorded, phase>>
    BY <1>2, WriteStep, BackendFacts DEF fanoutVars
  <2> QED
    BY <2>1 DEF WentOut
<1>3. CASE AssignCursor
  <2>1. /\ UNCHANGED <<reached, recorded, phase>> /\ DOMAIN log' = 1..(Len(log) + 1)
    BY <1>3, AssignEffect, BackendFacts DEF fanoutVars, BackendInv
  <2>2. phase = "object" => recorded < Len(log)
    BY BackendFacts DEF BackendInv, FanoutInv
  <2>3. WentOut(s, c)
    BY <2>1 DEF WentOut
  <2>4. c # Len(log) + 1
    BY <1>1, <2>2, <2>3 DEF WentOut
  <2>5. c \in DOMAIN log
    BY <1>1, <2>1, <2>4
  <2> QED
    BY <2>3, <2>5
<1>4. CASE SendToModel
  <2>1. /\ recorded < Len(log) /\ phase' = "object"
        /\ UNCHANGED <<log, reached, recorded, about, joined>>
        /\ mailbox' = IF (IF Subject(recorded + 1) \in Objects THEN Model ELSE "other model")
                           \in joined
                      THEN Append(mailbox, recorded + 1) ELSE mailbox
    BY <1>4 DEF SendToModel, Send, objectVars
  <2>2. CASE c <= reached
    BY <2>1, <2>2 DEF WentOut
  <2>3. CASE c = recorded + 1 /\ Kind[s] = "filter"
    <3>1. Subject(c) \in Objects
      BY <1>1, <2>1, <2>3, ScopeFacts DEF Subject
    <3>2. Group(s) = Model
      BY <2>3 DEF Group
    <3> QED
      BY <1>1, <2>1, <2>3, <3>1, <3>2
  <2> QED
    BY <2>1, <2>2, <2>3 DEF WentOut
<1>5. CASE SendToObject
  <2>1. /\ recorded < Len(log) /\ phase = "object" /\ phase' = "record" /\ reached' = recorded + 1
        /\ UNCHANGED <<log, recorded, about, joined>>
        /\ mailbox' = IF Subject(recorded + 1) \in joined
                      THEN Append(mailbox, recorded + 1) ELSE mailbox
    BY <1>5 DEF SendToObject, Send, objectVars
  <2>2. c <= recorded + 1
    BY <2>1 DEF WentOut
  <2>3. CASE c <= recorded
    BY <1>1, <2>1, <2>3 DEF WentOut
  <2>4. CASE c = recorded + 1 /\ Kind[s] = "filter"
    BY <2>1, <2>4 DEF WentOut
  <2>5. CASE c = recorded + 1 /\ Kind[s] = "object"
    <3>1. Subject(c) = Pk[s] /\ Group(s) = Pk[s]
      BY <2>1, <2>5 DEF Scope, Group, Subject
    <3> QED
      BY <1>1, <2>1, <2>5, <3>1
  <2> QED
    BY <1>1, <2>2, <2>3, <2>4, <2>5
<1>6. CASE RecordBroadcast
  <2>1. /\ phase = "record" /\ phase' = "model" /\ UNCHANGED <<log, reached>>
    BY <1>6 DEF RecordBroadcast
  <2> QED
    BY <2>1 DEF WentOut
<1>7. CASE Restart \/ Prune
  <2>1. UNCHANGED <<log, reached, recorded>> /\ (phase' = "object" => phase = "object")
    BY <1>7 DEF Restart, Prune, logVars, fanoutVars
  <2> QED
    BY <2>1 DEF WentOut
<1> QED
  BY <1>2, <1>3, <1>4, <1>5, <1>6, <1>7 DEF BackendNext

\* The horizon lies at or above the through_cursor.
LEMMA HorizonFacts ==
    ASSUME Inv, NEW s \in Active
    PROVE  /\ s \in Subs /\ Horizon(s) \in Nat /\ through[s] \in Nat /\ through[s] <= Horizon(s)
           /\ ~(Settling(s) /\ pc \in {"catch up", "refresh"}) => Horizon(s) = through[s]
<1>1. s \in Subs /\ through[s] \in Nat /\ handler.latest \in Nat
  BY GroupFacts, ToldFacts, HandlerFacts
<1>2. ASSUME Settling(s), pc \in {"catch up", "refresh"}
      PROVE  through[s] <= handler.latest
  <2>1. pc \in Replying \ {"latest"} /\ s = handler.sub
    BY <1>2 DEF Settling, Replying
  <2>2. through[s] = handler.snapshot /\ handler.snapshot <= handler.latest
    BY <1>2, <2>1, ToldFacts DEF LeftToTell, Inv, HandlerInv
  <2> QED
    BY <2>2
<1>3. CASE Settling(s) /\ pc \in {"catch up", "refresh"}
  <2>1. Horizon(s) = handler.latest
    BY <1>3 DEF Horizon
  <2> QED
    BY <1>1, <1>2, <1>3, <2>1
<1>4. CASE ~(Settling(s) /\ pc \in {"catch up", "refresh"})
  <2>1. Horizon(s) = through[s]
    BY <1>4 DEF Horizon
  <2>2. through[s] <= through[s]
    BY <1>1
  <2> QED
    BY <1>1, <2>1, <2>2
<1> QED
  BY <1>3, <1>4

LEMMA BackendKeepsPending ==
    ASSUME Inv, BackendNext, UNCHANGED sessionVars
    PROVE  PendingInv'
<1>1. UNCHANGED <<pc, handler, event, seen, missed, through, Active>>
  BY DEF sessionVars, activeVars, groupVars, toldVars, Active
<1> SUFFICES ASSUME NEW s \in Active, ~(Settling(s) /\ pc = "latest"), NEW c \in DOMAIN log',
                    Subject(c)' \in Scope(s), c > Horizon(s), WentOut(s, c)'
             PROVE  c \in Pending'
  BY <1>1 DEF PendingInv, Settling, Horizon
<1>2. c \in Nat
  BY GrownFacts
<1>3. CASE c \in DOMAIN log /\ WentOut(s, c)
  <2>1. Subject(c) \in Scope(s)
    BY <1>3, GrownFacts DEF Grows
  <2>2. c \in Pending
    BY <1>3, <2>1 DEF Inv, PendingInv
  <2>3. ToSet(mailbox) \subseteq ToSet(mailbox')
    <3>1. CASE mailbox' = mailbox
      BY <3>1
    <3>2. CASE mailbox' = Append(mailbox, recorded + 1)
      <4>1. mailbox \in Seq(Nat) /\ recorded + 1 \in Nat
        BY BackendFacts, MailFacts
      <4> QED
        BY <3>2, <4>1, Appended
    <3> QED
      BY <3>1, <3>2, BackendFacts, MailboxStep
  <2> QED
    BY <1>1, <2>2, <2>3 DEF Pending
<1>4. CASE mailbox' = Append(mailbox, c)
  <2>1. c \in ToSet(mailbox')
    <3>1. mailbox \in Seq(Nat)
      BY MailFacts
    <3> QED
      BY <1>2, <1>4, <3>1, Appended
  <2>2. c \in ToSet(seen) => c = event \/ c \in missed
    <3>1. c \in ToSet(seen) => c <= through[s] \/ c = event \/ c \in missed
      BY DEF Inv, SeenInv
    <3>2. ~(c <= through[s])
      <4>1. Horizon(s) \in Nat /\ through[s] \in Nat /\ through[s] <= Horizon(s)
        BY HorizonFacts
      <4> QED
        BY <1>2, <4>1
    <3> QED
      BY <3>1, <3>2
  <2> QED
    BY <1>1, <2>1, <2>2 DEF Pending
<1> QED
  BY <1>3, <1>4, SendsReachTheMailbox

\* A step of the connection that leaves what is pending alone.
LEMMA SamePending ==
    ASSUME Inv, UNCHANGED world, UNCHANGED <<mailbox, seen, event, missed>>,
           Active' \subseteq Active,
           \A s \in Active' :
             /\ Horizon(s)' \in Nat /\ Horizon(s) <= Horizon(s)'
             /\ Settling(s) /\ pc = "latest" =>
                  (Settling(s)' /\ pc' = "latest") \/ Len(log) <= Horizon(s)'
    PROVE  PendingInv'
<1>1. UNCHANGED <<log, about, reached, recorded, phase>>
  BY DEF world, objectVars, logVars, fanoutVars
<1>2. Len(log) \in Nat /\ DOMAIN log = 1..Len(log)
  BY BackendFacts
<1> SUFFICES ASSUME NEW s \in Active', ~(Settling(s)' /\ pc' = "latest"), NEW c \in DOMAIN log,
                    Subject(c) \in Scope(s), c > Horizon(s)', WentOut(s, c)
             PROVE  c \in Pending
  BY <1>1 DEF PendingInv, Pending, Subject, WentOut
<1>3. s \in Active /\ Horizon(s) \in Nat
  BY HorizonFacts
<1>4. c > Horizon(s) /\ ~(Len(log) <= Horizon(s)')
  BY <1>2, <1>3
<1> QED
  BY <1>3, <1>4 DEF Inv, PendingInv

LEMMA HandlerKeepsPending ==
    ASSUME Inv,
           (\E s \in Subs, asked \in held \cup {None} : Subscribe(s, asked))
           \/ ReadSnapshot \/ CheckLimit \/ ReadMembers \/ CatchUpLatest \/ CatchUpEvents
           \/ Refresh \/ Acknowledge \/ CheckReplay \/ Replay \/ Flush
    PROVE  PendingInv'
<1>1. UNCHANGED <<world, mailbox, seen, event, missed, Active>>
  BY DEF Subscribe, ReadSnapshot, CheckLimit, ReadMembers, CatchUpLatest, CatchUpEvents, Refresh,
         Acknowledge, CheckReplay, Replay, Flush, Reads, Sends, backendVars, world, layerVars,
         activeVars, groupVars, toldVars, Active
<1>2. CASE ~(CatchUpLatest \/ CatchUpEvents \/ Refresh)
  <2>1. /\ UNCHANGED through
        /\ pc \notin {"latest", "catch up", "refresh"} /\ pc' \notin {"latest", "catch up", "refresh"}
    BY <1>2 DEF Subscribe, ReadSnapshot, CheckLimit, ReadMembers, Acknowledge, CheckReplay,
                Replay, Flush, Reads, Sends, activeVars, Ignore, Goto
  <2>2. \A s \in Active : Horizon(s)' = Horizon(s)
    BY <2>1 DEF Horizon
  <2> QED
    BY <1>1, <2>1, <2>2, HorizonFacts, SamePending
<1>3. CASE CatchUpLatest
  <2>1. /\ pc = "latest" /\ pc' = IF Latest = handler.snapshot THEN "ack" ELSE "catch up"
        /\ handler'.sub = handler.sub /\ handler'.latest = Len(log) /\ UNCHANGED through
    BY <1>3, BackendFacts DEF CatchUpLatest, Goto, Reads, activeVars, Inv, HandlerInv, Locals
  <2>2. Latest = Len(log) /\ Len(log) \in Nat
    BY BackendFacts
  <2>3. ASSUME NEW s \in Active, s # handler.sub PROVE Horizon(s)' = Horizon(s) /\ ~Settling(s)
    BY <2>1, <2>3 DEF Horizon, Settling
  <2>4. ASSUME NEW s \in Active, s = handler.sub
        PROVE  Horizon(s)' = Len(log) /\ Horizon(s) <= Len(log)
    <3>1. Horizon(s) = through[s] /\ through[s] <= Len(log) /\ through[s] = handler.snapshot
      BY <2>1, <2>4, HorizonFacts, ToldFacts DEF ToldTo, LeftToTell, Replying
    <3>2. CASE Latest = handler.snapshot
      BY <2>1, <2>2, <3>1, <3>2 DEF Horizon
    <3>3. CASE Latest # handler.snapshot
      BY <2>1, <2>4, <3>1, <3>3 DEF Horizon, Settling, Replying
    <3> QED
      BY <3>2, <3>3
  <2>5. \A s \in Active' :
          /\ Horizon(s)' \in Nat /\ Horizon(s) <= Horizon(s)'
          /\ Settling(s) /\ pc = "latest" =>
               (Settling(s)' /\ pc' = "latest") \/ Len(log) <= Horizon(s)'
    <3> SUFFICES ASSUME NEW s \in Active
                 PROVE  /\ Horizon(s)' \in Nat /\ Horizon(s) <= Horizon(s)'
                        /\ Settling(s) => Len(log) <= Horizon(s)'
      BY <1>1
    <3>1. Horizon(s) \in Nat
      BY HorizonFacts
    <3> QED
      BY <2>2, <2>3, <2>4, <3>1
  <2> QED
    BY <1>1, <2>5, SamePending
<1>4. CASE CatchUpEvents \/ Refresh
  <2>1. /\ pc \in {"catch up", "refresh"} /\ pc' \in {"refresh", "ack"}
        /\ handler'.sub = handler.sub /\ handler'.latest = handler.latest
        /\ through' = IF pc' = "refresh" THEN through
                      ELSE [through EXCEPT ![handler.sub] = handler.latest]
        /\ pc' = "ack" => Refresh
    BY <1>4 DEF CatchUpEvents, Refresh, Goto, Reads, activeVars, Inv, HandlerInv, Locals
  <2>2. ASSUME NEW s \in Active PROVE Horizon(s)' = Horizon(s)
    <3>1. s \in Subs
      BY HorizonFacts
    <3>2. CASE s = handler.sub
      BY <2>1, <3>1, <3>2, ToldFacts DEF Horizon, Settling, Replying
    <3>3. CASE s # handler.sub
      BY <2>1, <3>1, <3>3, ToldFacts DEF Horizon, Settling
    <3> QED
      BY <3>2, <3>3
  <2>3. \A s \in Active' : Horizon(s)' \in Nat /\ Horizon(s) <= Horizon(s)'
    <3>1. \A s \in Active : Horizon(s) \in Nat
      BY HorizonFacts
    <3> QED
      BY <1>1, <2>2, <3>1
  <2>4. pc # "latest" /\ Active' \subseteq Active
    BY <1>1, <2>1
  <2> QED
    BY <1>1, <2>3, <2>4, SamePending
<1> QED
  BY <1>2, <1>3, <1>4

LEMMA PublishKeepsPending ==
    ASSUME Inv, Join \/ Publish \/ \E s \in Subs : Unsubscribe(s)
    PROVE  PendingInv'
<1>1. CASE Join
  <2>1. /\ UNCHANGED <<world, mailbox, seen, event, missed, handler>>
        /\ pc = "join" /\ pc' = "latest" /\ Active' = Active \cup {handler.sub}
        /\ through' = [through EXCEPT ![handler.sub] = handler.snapshot]
    BY <1>1, JoinKeepsGroups DEF Join, Goto, toldVars
  <2>2. Settling(handler.sub)' /\ handler.sub \notin Active
    BY <2>1 DEF Settling, Replying, Inv, HandlerInv, Asking
  <2>3. UNCHANGED <<log, about, reached, recorded, phase>>
    BY <2>1 DEF world, objectVars, logVars, fanoutVars
  <2>4. ASSUME NEW s \in Active PROVE ~Settling(s) /\ Horizon(s)' = Horizon(s)
    <3>1. s \in Subs /\ through'[s] = through[s]
      BY <2>1, <2>2, HorizonFacts, ToldFacts
    <3> QED
      BY <2>1, <2>2, <3>1 DEF Settling, Horizon, Replying
  <2>5. ASSUME NEW s \in Active', ~(Settling(s)' /\ pc' = "latest"), NEW c \in DOMAIN log,
               Subject(c) \in Scope(s), c > Horizon(s)', WentOut(s, c)
        PROVE  c \in Pending
    <3>1. s \in Active
      BY <2>1, <2>2, <2>5
    <3> QED
      BY <2>4, <2>5, <3>1 DEF Inv, PendingInv
  <2> QED
    BY <2>1, <2>3, <2>5 DEF PendingInv, Pending, Subject, WentOut
<1>2. CASE Publish
  <2> DEFINE t == Head(todo)
  <2>1. /\ UNCHANGED <<world, mailbox, seen, event, missed, Active>>
        /\ pc = "publish" /\ pc' = "publish" /\ todo # <<>>
        /\ IF event <= through[t] THEN UNCHANGED through
           ELSE through' = [through EXCEPT ![t] = event]
    BY <1>2 DEF Publish, backendVars, world, layerVars, groupVars, Active
  <2>2. t \in Subs /\ event \in Nat
    BY <2>1, MailFacts, Taken
  <2>3. ASSUME NEW s \in Active
        PROVE  Horizon(s)' \in Nat /\ Horizon(s) <= Horizon(s)' /\ ~(pc = "latest")
    <3>1. s \in Subs /\ Horizon(s) = through[s] /\ Horizon(s)' = through'[s]
          /\ through[s] \in Nat
      BY <2>1, HorizonFacts DEF Horizon
    <3>2. CASE event <= through[t] \/ s # t
      BY <2>1, <2>2, <3>1, <3>2, ToldFacts
    <3>3. CASE ~(event <= through[t]) /\ s = t
      BY <2>1, <2>2, <3>1, <3>3, ToldFacts
    <3> QED
      BY <2>1, <3>2, <3>3
  <2> QED
    BY <2>1, <2>3, SamePending
<1>3. CASE \E s \in Subs : Unsubscribe(s)
  <2>1. PICK s \in Subs : Unsubscribe(s)
    BY <1>3
  <2>2. /\ UNCHANGED <<world, mailbox, seen, event, missed>>
        /\ pc = "idle" /\ pc' = "idle" /\ Active' = Active \ {s}
        /\ through' = [r \in Subs |-> IF r \in {s} THEN 0 ELSE through[r]]
    BY <2>1, UnsubscribeKeepsGroups DEF Unsubscribe, Forget
  <2>3. ASSUME NEW r \in Active' PROVE Horizon(r)' = Horizon(r) /\ r \in Active
    <3>1. r \in Active /\ r # s /\ r \in Subs
      BY <2>2, GroupFacts
    <3> QED
      BY <2>2, <3>1 DEF Horizon
  <2> QED
    BY <2>2, <2>3, HorizonFacts, SamePending
<1> QED
  BY <1>1, <1>2, <1>3

\* The event at hand, from the mailbox until it is published or missed.
LEMMA ReceiveKeepsPending ==
    ASSUME Inv, Receive \/ FetchRow \/ Published
    PROVE  PendingInv'
<1>1. /\ UNCHANGED <<world, through, Active>>
      /\ pc \in {"idle", "fetch", "publish"} /\ pc' \in {"idle", "fetch", "publish"}
  BY DEF Receive, FetchRow, Published, Goto, backendVars, world, activeVars, Active
<1>2. UNCHANGED <<log, about, reached, recorded, phase>>
  BY <1>1 DEF world, objectVars, logVars, fanoutVars
<1>3. \A s \in Active : Horizon(s)' = through[s] /\ Horizon(s) = through[s] /\ pc # "latest"
  BY <1>1 DEF Horizon
<1> SUFFICES ASSUME NEW s \in Active, NEW c \in DOMAIN log,
                    Subject(c) \in Scope(s), c > through[s], WentOut(s, c)
             PROVE  c \in Pending'
  BY <1>1, <1>2, <1>3 DEF PendingInv, Subject, WentOut
<1>4. c \in Pending /\ c \in Nat /\ c # 0 /\ through[s] \in Nat
  <2>1. c \in Nat /\ c # 0
    BY BackendFacts
  <2>2. through[s] \in Nat
    BY HorizonFacts
  <2> QED
    BY <1>3, <2>1, <2>2 DEF Inv, PendingInv
<1>5. CASE Receive
  <2>1. /\ pc = "idle" /\ mailbox # <<>> /\ mailbox' = Tail(mailbox) /\ UNCHANGED missed
        /\ IF Head(mailbox) \in ToSet(seen) THEN UNCHANGED <<event, seen>>
           ELSE event' = Head(mailbox) /\ seen' = Remembered(Head(mailbox))
    BY <1>5 DEF Receive, toldVars
  <2>2. event = 0
    BY <2>1 DEF Inv, MailInv, Publishing
  <2>3. ToSet(mailbox) = {Head(mailbox)} \cup ToSet(mailbox') /\ Head(mailbox) \in Nat
    BY <2>1, MailFacts, Taken
  <2>4. ToSet(Remembered(Head(mailbox))) \subseteq ToSet(seen) \cup {Head(mailbox)}
    BY <2>3, MailFacts, RememberedFacts
  <2>5. CASE Head(mailbox) \in ToSet(seen)
    BY <1>4, <2>1, <2>2, <2>3, <2>5 DEF Pending
  <2>6. CASE Head(mailbox) \notin ToSet(seen)
    BY <1>4, <2>1, <2>2, <2>3, <2>4, <2>6 DEF Pending
  <2> QED
    BY <2>5, <2>6
<1>6. CASE FetchRow
  <2>1. /\ UNCHANGED <<mailbox, seen>>
        /\ \/ event' = event /\ missed' = missed
           \/ missed' = missed \cup {event}
    BY <1>6 DEF FetchRow, backendVars, layerVars, groupVars
  <2> QED
    BY <1>4, <2>1 DEF Pending
<1>7. CASE Published
  <2>1. UNCHANGED <<mailbox, seen, missed>> /\ pc = "publish" /\ todo = <<>>
    BY <1>7 DEF Published, backendVars, layerVars, groupVars, toldVars
  <2>2. event <= through[s] /\ event \in Nat
    BY <2>1, EmptyHasNone, MailFacts DEF Inv, SeenInv
  <2>3. c # event
    BY <1>4, <2>2
  <2> QED
    BY <1>4, <2>1, <2>3 DEF Pending
<1> QED
  BY <1>5, <1>6, <1>7

LEMMA PendingKept ==
    ASSUME Inv, Next
    PROVE  PendingInv'
<1>1. CASE Disconnect
  <2>1. Active' = {}
    BY <1>1, EmptyHasNone DEF Disconnect, Active
  <2> QED
    BY <2>1 DEF PendingInv
<1> QED
  BY <1>1, BackendKeepsPending, HandlerKeepsPending, PublishKeepsPending, ReceiveKeepsPending
     DEF Next, HandlerNext, ClientNext

-----------------------------------------------------------------------------
(* SkipInv                                                                  *)

\* SkipInv, of one subscription.
SkipOf(s) ==
    /\ ~Settling(s) => NoHole(s, from[s], through[s])
    /\ Settling(s) /\ pc = "flush" => NoHole(s, from[s], handler.snapshot)
    /\ Settling(s) /\ pc \in {"check", "replay"} => from[s] = handler.asked
    /\ Settling(s) /\ pc \notin {"latest", "catch up"} =>
         \A c \in Due(s, handler.snapshot, handler.latest) :
           c > trimmed => c \in ToSet(handler.events) \/ c <= handler.resync

\* The events that are due, by their cursors.
LEMMA DueFacts ==
    ASSUME Inv, NEW s \in Subs, NEW lo \in Nat, NEW hi \in Nat
    PROVE  \A c : c \in Due(s, lo, hi) <=>
             c \in Nat /\ lo < c /\ c <= hi /\ Subject(c) \in Scope(s)
<1>1. \A c : c \in (lo + 1)..hi <=> c \in Nat /\ lo < c /\ c <= hi
  OBVIOUS
<1> QED
  BY <1>1 DEF Due

\* A subscription that is not settling and that a step does not touch.
LEMMA SameSkip ==
    ASSUME Inv, NEW s \in Active, UNCHANGED world,
           UNCHANGED <<from[s], through[s], sent[s], silent[s], resynced[s]>>,
           ~Settling(s), ~Settling(s)'
    PROVE  SkipOf(s)'
<1>1. UNCHANGED <<about, log, trimmed>>
  BY DEF world, objectVars, logVars
<1>2. NoHole(s, from[s], through[s])
  BY DEF Inv, SkipInv
<1> QED
  BY <1>1, <1>2 DEF SkipOf, NoHole, Due, Answered, Subject

LEMMA BackendKeepsSkip ==
    ASSUME Inv, BackendNext, UNCHANGED sessionVars
    PROVE  SkipInv'
<1>1. UNCHANGED <<pc, handler, through, from, sent, silent, resynced, Active>>
  BY DEF sessionVars, activeVars, toldVars, Active
<1>2. /\ trimmed \in Nat /\ trimmed' \in Nat /\ trimmed <= trimmed'
      /\ Len(log) \in Nat /\ \A c \in 1..Len(log) : Subject(c)' = Subject(c)
  BY BackendFacts, GrownFacts DEF Grows
<1>3. ASSUME NEW s \in Subs, NEW lo \in Nat, NEW hi \in Nat, hi <= Len(log)
      PROVE  Due(s, lo, hi)' = Due(s, lo, hi)
  <2>1. \A c \in (lo + 1)..hi : c \in 1..Len(log)
    BY <1>2, <1>3
  <2>2. \A c \in (lo + 1)..hi : Subject(c)' = Subject(c)
    BY <1>2, <2>1
  <2> QED
    BY <2>2 DEF Due
<1>4. ASSUME NEW s \in Active
      PROVE  SkipOf(s)'
  <2>1. /\ s \in Subs /\ from[s] \in Nat /\ through[s] \in Nat /\ through[s] <= Len(log)
        /\ handler.snapshot \in Nat /\ handler.snapshot <= Len(log)
        /\ handler.latest \in Nat /\ handler.latest <= Len(log)
    BY GroupFacts, ToldFacts, HandlerFacts DEF ToldTo, Inv, HandlerInv
  <2>2. /\ Due(s, from[s], through[s])' = Due(s, from[s], through[s])
        /\ Due(s, from[s], handler.snapshot)' = Due(s, from[s], handler.snapshot)
        /\ Due(s, handler.snapshot, handler.latest)' = Due(s, handler.snapshot, handler.latest)
    BY <1>1, <1>3, <2>1
  <2>3. \A c \in Nat : c > trimmed' => c > trimmed
    BY <1>2
  <2>4. SkipOf(s)
    BY DEF Inv, SkipInv, SkipOf
  <2>5. \A c : Answered(s, c)' <=> Answered(s, c)
    BY <1>1 DEF Answered
  <2>6. /\ \A c \in Due(s, from[s], through[s]) : c \in Nat
        /\ \A c \in Due(s, from[s], handler.snapshot) : c \in Nat
        /\ \A c \in Due(s, handler.snapshot, handler.latest) : c \in Nat
    BY <2>1, DueFacts
  <2>7. /\ NoHole(s, from[s], through[s]) => NoHole(s, from[s], through[s])'
        /\ NoHole(s, from[s], handler.snapshot) => NoHole(s, from[s], handler.snapshot)'
    BY <2>2, <2>3, <2>5, <2>6 DEF NoHole
  <2> QED
    BY <1>1, <2>2, <2>3, <2>4, <2>6, <2>7 DEF SkipOf, Settling
<1> QED
  BY <1>1, <1>4 DEF SkipInv, SkipOf

\* The other subscriptions, when the handler of one replies.
LEMMA OthersKeepSkip ==
    ASSUME Inv, UNCHANGED world, NEW s \in Subs, s = handler.sub,
           \A t \in Active' \ {s} : t \in Active /\ handler'.sub # t /\
             UNCHANGED <<from[t], through[t], sent[t], silent[t], resynced[t]>>,
           s \in Active' => SkipOf(s)'
    PROVE  SkipInv'
<1>1. ASSUME NEW t \in Active' \ {s} PROVE SkipOf(t)'
  BY <1>1, SameSkip DEF Settling
<1>2. \A t \in Active' : SkipOf(t)'
  BY <1>1
<1> QED
  BY <1>2 DEF SkipInv, SkipOf

LEMMA HandlerKeepsSkip ==
    ASSUME Inv,
           Join \/ CatchUpLatest \/ CatchUpEvents \/ Refresh \/ Acknowledge \/ CheckReplay
           \/ Replay \/ Flush
    PROVE  SkipInv'
<1>0. PICK s \in Subs : s = handler.sub
  <2>1. pc \in Asking \cup Replying
    BY DEF Join, CatchUpLatest, CatchUpEvents, Refresh, Acknowledge, CheckReplay, Replay, Flush,
           Asking, Replying
  <2> QED
    BY <2>1, HandlerFacts
<1>1. UNCHANGED world
  BY SessionStep, BackendFacts DEF HandlerNext
<1>2. /\ handler.snapshot \in Nat /\ handler.latest \in Nat
      /\ handler.asked \in Nat \cup {None} /\ handler \in Locals
      /\ Len(log) \in Nat /\ Latest = Len(log) /\ from[s] \in Nat /\ s # None
  BY <1>0, HandlerFacts, BackendFacts, ToldFacts, ScopeFacts DEF Inv, HandlerInv
<1>3. UNCHANGED <<about, log, trimmed>>
  BY <1>1 DEF world, objectVars, logVars
<1>4. \A t \in Active' \ {s} : t \in Active /\ t \in Subs
  <2>1. Active' \subseteq Active \cup {s}
    <3>1. CASE Join
      BY <1>0, <3>1, JoinKeepsGroups
    <3>2. CASE ~Join
      BY <3>2 DEF CatchUpLatest, CatchUpEvents, Refresh, Acknowledge, CheckReplay, Replay, Flush,
                  Reads, Sends, activeVars, Active
    <3> QED
      BY <3>1, <3>2
  <2> QED
    BY <2>1, GroupFacts
<1>5. CASE Join
  <2>1. /\ pc' = "latest" /\ UNCHANGED <<from, sent, silent, resynced, handler>>
        /\ through' = [through EXCEPT ![s] = handler.snapshot]
    BY <1>0, <1>5 DEF Join, Goto, toldVars
  <2>2. SkipOf(s)'
    BY <1>0, <2>1 DEF SkipOf, Settling, Replying
  <2>3. \A t \in Active' \ {s} : through'[t] = through[t]
    BY <1>2, <1>4, <2>1, ToldFacts
  <2> QED
    BY <1>0, <1>1, <1>4, <2>1, <2>2, <2>3, OthersKeepSkip
<1>6. CASE CatchUpLatest \/ CatchUpEvents
  <2>1. /\ UNCHANGED <<from, through, sent, silent, resynced, Active>>
        /\ handler'.sub = s /\ handler'.snapshot = handler.snapshot
        /\ pc \in Replying /\ pc' \in Replying
    BY <1>0, <1>2, <1>6 DEF CatchUpLatest, CatchUpEvents, Reads, activeVars, toldVars, Active, Goto,
                      Locals, Replying
  <2>2. CASE CatchUpLatest
    <3>1. /\ handler'.latest = Len(log)
          /\ pc' = IF Latest = handler.snapshot THEN "ack" ELSE "catch up"
      BY <1>2, <2>2 DEF CatchUpLatest, Goto, Locals
    <3>2. ASSUME pc' = "ack" PROVE Due(s, handler.snapshot, Len(log)) = {}
      <4>1. Len(log) = handler.snapshot
        BY <1>2, <3>1, <3>2
      <4> QED
        BY <1>2, <4>1 DEF Due
    <3>4. ASSUME pc' = "ack"
          PROVE  Due(s, handler.snapshot, handler.latest)' = {}
      BY <1>3, <2>1, <3>1, <3>2, <3>4 DEF Due, Subject
    <3>5. SkipOf(s)'
      BY <2>1, <3>1, <3>4 DEF SkipOf, Settling
    <3> QED
      BY <1>0, <1>1, <1>4, <2>1, <3>5, OthersKeepSkip
  <2>3. CASE CatchUpEvents
    <3> DEFINE answer == Answer(s, handler.snapshot, handler.latest)
    <3>1. /\ handler'.latest = handler.latest /\ pc = "catch up" /\ pc' = "refresh"
          /\ handler'.events = answer.events /\ handler'.resync = answer.resync
      BY <1>0, <1>2, <2>3 DEF CatchUpEvents, Goto, Locals
    <3> HIDE DEF answer
    <3>2. ASSUME NEW c \in Due(s, handler.snapshot, handler.latest), c > trimmed
          PROVE  c \in ToSet(answer.events) \/ c <= answer.resync
      <4>1. handler.latest <= Len(log)
        BY DEF Inv, HandlerInv
      <4>2. c \in Nat /\ c <= handler.latest
        BY <1>2, DueFacts
      <4>3. c <= Len(log)
        BY <1>2, <4>1, <4>2
      <4> QED
        BY <1>2, <3>2, <4>3, AnswerFacts DEF answer
    <3>3. Due(s, handler.snapshot, handler.latest)' = Due(s, handler.snapshot, handler.latest)
      BY <1>3, <2>1, <3>1 DEF Due, Subject
    <3>4. SkipOf(s)'
      BY <1>3, <2>1, <3>1, <3>2, <3>3 DEF SkipOf, Settling
    <3> QED
      BY <1>0, <1>1, <1>4, <2>1, <3>4, OthersKeepSkip
  <2> QED
    BY <1>6, <2>2, <2>3
<1>7. CASE Refresh \/ Acknowledge \/ CheckReplay \/ Replay
  <2>1. /\ handler' = handler /\ UNCHANGED <<silent, Active>>
        /\ pc \in Replying \ {"latest", "catch up", "flush"}
        /\ pc' \in Replying \ {"latest", "catch up", "refresh"}
    BY <1>7 DEF Refresh, Acknowledge, CheckReplay, Replay, Goto, toldVars, Sends, activeVars,
                Active, Replying
  <2>2. s \in Active /\ Settling(s) /\ Settling(s)'
    BY <1>0, <2>1 DEF Inv, HandlerInv, Settling
  <2>3. \A t \in Active' \ {s} : UNCHANGED <<from[t], through[t], sent[t], silent[t], resynced[t]>>
    <3>1. CASE Refresh
      BY <1>0, <1>2, <1>4, <3>1, ToldFacts DEF Refresh, toldVars
    <3>2. CASE Acknowledge
      BY <1>0, <1>2, <1>4, <3>2, ToldFacts DEF Acknowledge, activeVars
    <3>3. CASE CheckReplay \/ Replay
      BY <1>0, <1>2, <1>4, <3>3, ToldFacts DEF CheckReplay, Replay, Sends, Tell, activeVars
    <3> QED
      BY <1>7, <3>1, <3>2, <3>3
  <2>4. Due(s, handler.snapshot, handler.latest)' = Due(s, handler.snapshot, handler.latest)
    BY <1>3, <2>1 DEF Due, Subject
  <2>5. /\ pc \in {"check", "replay"} => from[s] = handler.asked
        /\ \A c \in Due(s, handler.snapshot, handler.latest) :
             c > trimmed => c \in ToSet(handler.events) \/ c <= handler.resync
    BY <2>1, <2>2 DEF Inv, SkipInv
  <2>6. ASSUME pc' \in {"check", "replay"} => from'[s] = handler.asked,
               pc' = "flush" => NoHole(s, from[s], handler.snapshot)'
        PROVE  SkipInv'
    <3>1. SkipOf(s)'
      BY <1>3, <2>1, <2>2, <2>4, <2>5, <2>6 DEF SkipOf
    <3> QED
      BY <1>0, <1>1, <1>4, <2>1, <2>3, <3>1, OthersKeepSkip
  <2>7. CASE Refresh
    BY <2>6, <2>7 DEF Refresh, Goto
  <2>8. CASE Acknowledge
    <3>1. /\ from' = [from EXCEPT ![s] = IF handler.asked \notin {None, handler.snapshot}
                                         THEN handler.asked ELSE handler.snapshot]
          /\ pc' = IF handler.asked \notin {None, handler.snapshot} THEN "check" ELSE "flush"
      BY <1>0, <2>8 DEF Acknowledge, Goto
    <3>2. pc' = "check" => from'[s] = handler.asked
      BY <1>2, <3>1, ToldFacts
    <3>3. pc' = "flush" => from'[s] = handler.snapshot
      BY <1>2, <3>1, ToldFacts
    <3>4. ASSUME pc' = "flush" PROVE NoHole(s, from[s], handler.snapshot)'
      <4>1. (handler.snapshot + 1)..handler.snapshot = {}
        BY <1>2
      <4> QED
        BY <2>1, <3>3, <3>4, <4>1 DEF NoHole, Due
    <3> QED
      BY <2>6, <2>8, <3>1, <3>2, <3>4
  <2>9. CASE CheckReplay \/ Replay
    <3>1. /\ UNCHANGED from /\ pc \in {"check", "replay"} /\ from[s] = handler.asked
          /\ handler.asked \in Nat
      BY <1>2, <2>5, <2>9 DEF CheckReplay, Replay, Sends, Inv, HandlerInv
    <3>2. CASE pc' = "replay"
      BY <2>6, <2>9, <3>1, <3>2
    <3>3. ASSUME NEW events \in Seq(Nat), NEW resync \in Nat, Tell(s, events, resync),
                 pc' = "flush",
                 \A c \in Due(s, handler.asked, handler.snapshot) :
                   c > trimmed => c \in ToSet(events) \/ c <= resync
          PROVE  SkipInv'
      <4>1. /\ ToSet(sent'[s]) = ToSet(sent[s]) \cup ToSet(events)
            /\ resynced'[s] = IF resync = 0 THEN resynced[s] ELSE resync
        BY <1>2, <3>3, Told
      <4>2. \A c \in Due(s, handler.asked, handler.snapshot) : c \in Nat /\ c # 0
        BY <1>2, <3>1, DueFacts
      <4>3. Due(s, from[s], handler.snapshot)' = Due(s, handler.asked, handler.snapshot)
        BY <1>3, <2>1, <3>1 DEF Due, Subject
      <4>4. ASSUME NEW c \in Due(s, handler.asked, handler.snapshot), c > trimmed
            PROVE  c \in ToSet(sent'[s]) \/ c <= resynced'[s]
        BY <3>3, <4>1, <4>2, <4>4
      <4>5. NoHole(s, from[s], handler.snapshot)'
        BY <1>3, <2>1, <3>1, <4>3, <4>4 DEF NoHole, Answered
      <4> QED
        BY <2>6, <2>9, <3>3, <4>5
    <3>4. CASE CheckReplay /\ pc' # "replay"
      <4>1. Tell(s, <<>>, handler.snapshot) /\ pc' = "flush"
        BY <1>0, <3>4 DEF CheckReplay, Goto
      <4>2. \A c \in Due(s, handler.asked, handler.snapshot) : c <= handler.snapshot
        BY <1>2, <3>1, DueFacts
      <4> QED
        BY <1>2, <3>3, <4>1, <4>2, EmptyHasNone
    <3>5. CASE Replay
      <4> DEFINE answer == Answer(s, handler.asked, handler.snapshot)
      <4>1. Tell(s, answer.events, answer.resync) /\ pc' = "flush" /\ pc = "replay"
        BY <1>0, <3>5 DEF Replay, Goto
      <4>2. handler.snapshot <= Len(log)
        BY DEF Inv, HandlerInv
      <4>3. /\ answer.events \in Seq(Nat) /\ answer.resync \in {0, handler.snapshot}
            /\ \A c \in Due(s, handler.asked, handler.snapshot) : c > trimmed /\ c <= Len(log) =>
                 c \in ToSet(answer.events) \/ c <= answer.resync
        BY <1>2, <2>9, <3>1, AnswerFacts
      <4>4. \A c \in Due(s, handler.asked, handler.snapshot) : c <= Len(log)
        <5>1. \A c \in Due(s, handler.asked, handler.snapshot) : c \in Nat /\ c <= handler.snapshot
          BY <1>2, <3>1, DueFacts
        <5> QED
          BY <1>2, <4>2, <5>1
      <4>5. answer.resync \in Nat
        BY <1>2, <4>3
      <4> HIDE DEF answer
      <4> QED
        BY <3>3, <4>1, <4>3, <4>4, <4>5
    <3> QED
      BY <2>9, <3>2, <3>4, <3>5
  <2> QED
    BY <1>7, <2>7, <2>8, <2>9
<1>8. CASE Flush
  <2>1. /\ pc = "flush" /\ pc' = "idle" /\ handler' = NoLocals
        /\ Tell(s, handler.events, handler.resync)
        /\ UNCHANGED <<through, from, silent, Active>>
    BY <1>0, <1>8 DEF Flush, Ignore, Goto, Sends, activeVars, Active
  <2>2. /\ pc \in Replying /\ Settling(s) /\ s \in Active
        /\ handler.events \in Seq(Nat) /\ handler.resync \in Nat
    BY <1>0, <1>2, <2>1 DEF Replying, Settling, Inv, HandlerInv, Locals
  <2>3. /\ handler.resync \in {0, handler.latest} /\ resynced[s] <= handler.snapshot
        /\ through[s] = handler.latest /\ handler.snapshot <= handler.latest /\ resynced[s] \in Nat
    BY <1>0, <1>2, <2>1, <2>2, ToldFacts DEF LeftToTell, Inv, HandlerInv
  <2>4. /\ \A t \in Subs \ {s} : sent'[t] = sent[t] /\ resynced'[t] = resynced[t]
        /\ ToSet(sent'[s]) = ToSet(sent[s]) \cup ToSet(handler.events)
        /\ resynced'[s] = IF handler.resync = 0 THEN resynced[s] ELSE handler.resync
    <3>1. /\ Tell(s, handler.events, handler.resync)
          /\ handler.events \in Seq(Nat) /\ handler.resync \in Nat
      BY <2>1, <2>2
    <3> QED
      BY <3>1, Told
  <2>5. SkipOf(s)'
    <3>1. ASSUME NEW c \in Due(s, from[s], handler.latest), c > trimmed
          PROVE  c \in ToSet(sent'[s]) \/ c \in silent[s] \/ c <= resynced'[s]
      <4>1. c \in Nat /\ from[s] < c /\ c <= handler.latest /\ Subject(c) \in Scope(s) /\ c # 0
        BY <1>2, <3>1, DueFacts
      <4>2. CASE c <= handler.snapshot
        <5>1. Answered(s, c)
          <6>1. c \in Due(s, from[s], handler.snapshot)
            BY <1>2, <4>1, <4>2, DueFacts
          <6> QED
            BY <2>1, <2>2, <3>1, <6>1 DEF Inv, SkipInv, NoHole
        <5>2. c <= resynced[s] => c <= resynced'[s]
          BY <1>2, <2>3, <2>4, <4>1
        <5> QED
          BY <2>4, <5>1, <5>2 DEF Answered
      <4>3. CASE ~(c <= handler.snapshot)
        <5>1. c \in Due(s, handler.snapshot, handler.latest)
          BY <1>2, <4>1, <4>3, DueFacts
        <5>2. c \in ToSet(handler.events) \/ c <= handler.resync
          BY <2>1, <2>2, <3>1, <5>1 DEF Inv, SkipInv
        <5> QED
          BY <2>4, <4>1, <5>2
      <4> QED
        BY <4>2, <4>3
    <3>2. Due(s, from[s], through[s])' = Due(s, from[s], handler.latest)
      BY <1>3, <2>1, <2>3 DEF Due, Subject
    <3>3. NoHole(s, from[s], through[s])'
      BY <1>3, <2>1, <3>1, <3>2 DEF NoHole, Answered
    <3>4. ~Settling(s)'
      BY <2>1 DEF Settling, Replying
    <3> QED
      BY <3>3, <3>4 DEF SkipOf
  <2>6. \A t \in Active' \ {s} : handler'.sub # t
    BY <1>4, <2>1, NoLocalsFacts, NoneIsNoId
  <2> QED
    BY <1>0, <1>1, <1>4, <2>1, <2>4, <2>5, <2>6, OthersKeepSkip
<1> QED
  BY <1>5, <1>6, <1>7, <1>8

\* An event between the through_cursor of a subscription and the event at hand
\* would still be pending, but nothing in the mailbox is below the event at hand.
LEMMA OvertakenIsMissed ==
    ASSUME Inv, pc = "publish", NEW s \in Active, NEW c \in Nat, Subject(c) \in Scope(s),
           c > through[s], c < event
    PROVE  c \in missed
<1>1. /\ event \in Nat /\ event <= recorded + 1 /\ event <= Len(log)
      /\ \A d \in ToSet(mailbox) : event <= d
  BY MailFacts
<1>2. /\ DOMAIN log = 1..Len(log) /\ Len(log) \in Nat
      /\ recorded \in Nat /\ reached \in Nat /\ recorded <= reached
  BY BackendFacts
<1>3. through[s] \in Nat
  BY GroupFacts, ToldFacts
<1>4. c \in DOMAIN log /\ c <= reached /\ c # event /\ ~(event <= c)
  BY <1>1, <1>2, <1>3
<1>5. Horizon(s) = through[s] /\ WentOut(s, c)
  BY <1>4 DEF Horizon, WentOut
<1>6. c \in Pending
  BY <1>4, <1>5 DEF Inv, PendingInv
<1> QED
  BY <1>1, <1>4, <1>6 DEF Pending

\* publish() of the event at hand: what it overtakes was missed, so it is not
\* retained.
LEMMA PublishKeepsSkip ==
    ASSUME Inv, Publish
    PROVE  SkipInv'
<1>1. /\ pc = "publish" /\ pc' = "publish" /\ todo # <<>>
      /\ UNCHANGED <<world, handler, from, Active>>
  BY DEF Publish, backendVars, world, layerVars, groupVars, Active
<1>2. PICK s \in Subs : s = Head(todo)
  BY <1>1, MailFacts, Taken
<1>3. IF event <= through[s]
      THEN UNCHANGED <<memberPks, through, sent, silent, resynced, held>>
      ELSE Evaluate(s) /\ through' = [through EXCEPT ![s] = event]
  BY <1>2 DEF Publish
<1>4. UNCHANGED <<about, log, trimmed>>
  BY <1>1 DEF world, objectVars, logVars
<1>5. \A t : ~Settling(t) /\ ~Settling(t)'
  BY <1>1 DEF Settling, Replying
<1>6. /\ s \in Active /\ event \in Nat /\ event \in 1..Len(log) /\ event <= recorded + 1
      /\ through[s] \in Nat /\ from[s] \in Nat /\ resynced[s] \in Nat
      /\ recorded \in Nat /\ reached \in Nat /\ recorded <= reached /\ trimmed \in Nat
  <2>1. s \in Active
    BY <1>1, <1>2, MailFacts, Taken
  <2> QED
    BY <1>1, <2>1, MailFacts, ToldFacts, BackendFacts DEF Inv, MailInv, Publishing
<1>7. CASE event <= through[s]
  BY <1>1, <1>3, <1>5, <1>7, SameSkip DEF SkipInv, SkipOf
<1>8. CASE ~(event <= through[s])
  <2>1. /\ resynced' = resynced /\ silent[s] \subseteq silent'[s]
        /\ \A t \in Subs \ {s} : sent'[t] = sent[t] /\ silent'[t] = silent[t]
        /\ ToSet(sent[s]) \subseteq ToSet(sent'[s])
        /\ event \in ToSet(sent'[s]) \cup silent'[s]
    <3>1. Evaluate(s) /\ event > through[s]
      BY <1>3, <1>6, <1>8
    <3> QED
      BY <1>6, <3>1, Evaluated
  <2>2. through'[s] = event /\ \A t \in Subs \ {s} : through'[t] = through[t]
    BY <1>3, <1>8, ToldFacts
  <2>3. ASSUME NEW t \in Active, t # s PROVE SkipOf(t)'
    <3>1. t \in Subs \ {s}
      BY <2>3, GroupFacts
    <3> QED
      BY <1>1, <1>5, <2>1, <2>2, <2>3, <3>1, SameSkip
  <2>4. ASSUME NEW c \in Due(s, from[s], event), c > trimmed
        PROVE  c \in ToSet(sent'[s]) \/ c \in silent'[s] \/ c <= resynced'[s]
    <3>1. c \in Nat /\ from[s] < c /\ c <= event /\ Subject(c) \in Scope(s)
      BY <1>6, <2>4, DueFacts
    <3>2. CASE c <= through[s]
      <4>1. c \in Due(s, from[s], through[s])
        BY <1>6, <3>1, <3>2, DueFacts
      <4>2. Answered(s, c)
        BY <1>5, <1>6, <2>4, <4>1 DEF Inv, SkipInv, NoHole
      <4> QED
        BY <2>1, <4>2 DEF Answered
    <3>3. CASE c = event
      BY <2>1, <3>3
    <3>4. ASSUME ~(c <= through[s]), c # event PROVE FALSE
      <4>1. c > through[s] /\ c < event
        BY <1>6, <3>1, <3>4
      <4>2. c \in missed
        BY <1>1, <1>6, <3>1, <4>1, OvertakenIsMissed
      <4>3. missed \subseteq 1..trimmed
        BY MailFacts
      <4> QED
        BY <1>6, <2>4, <4>2, <4>3
    <3> QED
      BY <3>2, <3>3, <3>4
  <2>5. SkipOf(s)'
    <3>1. Due(s, from[s], through[s])' = Due(s, from[s], event)
      BY <1>1, <1>4, <2>2 DEF Due, Subject
    <3>2. NoHole(s, from[s], through[s])'
      BY <1>4, <2>4, <3>1 DEF NoHole, Answered
    <3> QED
      BY <1>5, <3>2 DEF SkipOf
  <2>6. \A t \in Active : SkipOf(t)'
    BY <2>3, <2>5
  <2> QED
    BY <1>1, <2>6 DEF SkipInv, SkipOf
<1> QED
  BY <1>7, <1>8

\* The steps before the registration, those of an event, and the ends.
LEMMA QuietKeepsSkip ==
    ASSUME Inv,
           (\E s \in Subs, asked \in held \cup {None} : Subscribe(s, asked))
           \/ ReadSnapshot \/ CheckLimit \/ ReadMembers \/ Receive \/ FetchRow \/ Published
           \/ (\E s \in Subs : Unsubscribe(s)) \/ Disconnect
    PROVE  SkipInv'
<1>1. UNCHANGED world
  BY SessionStep, BackendFacts DEF HandlerNext, ClientNext
<1>2. CASE Disconnect
  <2>1. Active' = {}
    BY <1>2, EmptyHasNone DEF Disconnect, Active
  <2> QED
    BY <2>1 DEF SkipInv
<1>3. CASE \E s \in Subs : Unsubscribe(s)
  <2>1. PICK s \in Subs : Unsubscribe(s)
    BY <1>3
  <2>2. /\ pc = "idle" /\ pc' = "idle" /\ Active' = Active \ {s} /\ Active \subseteq Subs
        /\ Forget({s})
    BY <2>1, GroupFacts, UnsubscribeKeepsGroups DEF Unsubscribe
  <2>3. \A t \in Active' : t \in Active /\
          UNCHANGED <<from[t], through[t], sent[t], silent[t], resynced[t]>>
    BY <2>2 DEF Forget
  <2>4. \A t : ~Settling(t) /\ ~Settling(t)'
    BY <2>2 DEF Settling, Replying
  <2>5. \A t \in Active' : SkipOf(t)'
    BY <1>1, <2>3, <2>4, SameSkip
  <2> QED
    BY <2>5 DEF SkipInv, SkipOf
<1>4. CASE ~Disconnect /\ ~(\E s \in Subs : Unsubscribe(s))
  <2>1. UNCHANGED <<from, through, sent, silent, resynced, Active>>
    BY <1>4 DEF Subscribe, ReadSnapshot, CheckLimit, ReadMembers, Receive, FetchRow, Published,
                Reads, activeVars, toldVars, Active
  <2>2. pc \notin Replying /\ pc' \notin Replying
    BY <1>4 DEF Subscribe, ReadSnapshot, CheckLimit, ReadMembers, Receive, FetchRow, Published,
                Goto, Ignore, Replying
  <2>3. \A t : ~Settling(t) /\ ~Settling(t)'
    BY <2>2 DEF Settling
  <2>4. \A t \in Active : SkipOf(t)'
    BY <1>1, <2>1, <2>3, SameSkip
  <2> QED
    BY <2>1, <2>4 DEF SkipInv, SkipOf
<1> QED
  BY <1>2, <1>3, <1>4

LEMMA SkipKept ==
    ASSUME Inv, Next
    PROVE  SkipInv'
BY BackendKeepsSkip, HandlerKeepsSkip, PublishKeepsSkip, QuietKeepsSkip
   DEF Next, HandlerNext, ClientNext

-----------------------------------------------------------------------------
(* MembersInv                                                               *)

\* What is coming is still coming after a step of the connection.
LEMMA StillComing ==
    ASSUME UNCHANGED world, missed \subseteq missed', NEW o, NEW c, Coming(o, c)
    PROVE  Coming(o, c)'
BY DEF world, objectVars, logVars, Coming, Subject

\* ... and after a step of the backend, where a committed event gets a cursor.
LEMMA BackendKeepsComing ==
    ASSUME Inv, BackendNext, UNCHANGED sessionVars, NEW o, NEW c \in Nat, c <= Len(log),
           Coming(o, c)
    PROVE  Coming(o, c)'
<1>1. Grows /\ Len(log') \in Nat /\ DOMAIN log' = 1..Len(log') /\ missed' = missed
  BY GrownFacts DEF sessionVars, toldVars
<1>2. CASE \E e \in committed : about[e].subject = o
  <2>1. PICK e \in committed : about[e].subject = o
    BY <1>2
  <2>2. e \in DOMAIN about /\ about'[e] = about[e]
    BY <1>1, LogFacts DEF Grows, Inv
  <2>3. CASE e \in committed'
    BY <2>1, <2>2, <2>3 DEF Coming
  <2>4. CASE \E d \in DOMAIN log' : d > Len(log) /\ log'[d] = e
    <3>1. PICK d \in DOMAIN log' : d > Len(log) /\ log'[d] = e
      BY <2>4
    <3>2. Subject(d)' = o
      BY <2>1, <2>2, <3>1 DEF Subject
    <3>3. d > c
      BY <1>1, <3>1, BackendFacts
    <3> QED
      BY <3>1, <3>2, <3>3 DEF Coming
  <2> QED
    BY <1>1, <2>3, <2>4 DEF Grows
<1>3. CASE \E d \in DOMAIN log : Subject(d) = o /\ (d > c \/ d \in missed)
  <2>1. PICK d \in DOMAIN log : Subject(d) = o /\ (d > c \/ d \in missed)
    BY <1>3
  <2>2. d \in DOMAIN log' /\ Subject(d)' = o
    BY <1>1, <2>1 DEF Grows
  <2> QED
    BY <1>1, <2>1, <2>2 DEF Coming
<1> QED
  BY <1>2, <1>3 DEF Coming

\* A write that changes what the user sees of an object commits an event of it.
LEMMA BackendKeepsMembers ==
    ASSUME Inv, BackendNext, UNCHANGED sessionVars
    PROVE  MembersInv'
<1>1. UNCHANGED <<pc, handler, memberPks, through, Active>>
  BY DEF sessionVars, activeVars, Active
<1>2. ASSUME NEW o \in Objects, (o \in visible') # (o \in visible), NEW c
      PROVE  Coming(o, c)'
  BY <1>2, GrownFacts DEF Grows, Coming
<1>3. ASSUME NEW members, NEW o \in Objects, NEW c \in Nat, c <= Len(log),
             (o \in members) # (o \in visible) => Coming(o, c),
             (o \in members) # (o \in visible')
      PROVE  Coming(o, c)'
  <2>1. CASE (o \in visible') # (o \in visible)
    BY <1>2, <2>1
  <2>2. CASE (o \in visible') = (o \in visible)
    BY <1>3, <2>2, BackendKeepsComing
  <2> QED
    BY <2>1, <2>2
<1> SUFFICES ASSUME Facets \subseteq RegisteredFacets
             PROVE  /\ pc = "join" => \A o \in Scope(handler.sub) :
                         (o \in handler.found) # (o \in visible') => Coming(o, handler.snapshot)'
                    /\ \A s \in Active : \A o \in Scope(s) :
                         (o \in memberPks[s]) # (o \in visible') => Coming(o, through[s])'
  BY <1>1 DEF MembersInv, Coming
<1>4. ASSUME pc = "join", NEW o \in Scope(handler.sub),
             (o \in handler.found) # (o \in visible')
      PROVE  Coming(o, handler.snapshot)'
  <2>1. o \in Objects
    BY <1>4, HandlerFacts, ScopeFacts DEF Asking
  <2>2. handler.snapshot \in Nat /\ handler.snapshot <= Len(log)
    BY HandlerFacts DEF Inv, HandlerInv
  <2>3. (o \in handler.found) # (o \in visible) => Coming(o, handler.snapshot)
    BY <1>4 DEF Inv, MembersInv
  <2> QED
    BY <1>1, <1>3, <1>4, <2>1, <2>2, <2>3
<1>5. ASSUME NEW s \in Active, NEW o \in Scope(s), (o \in memberPks[s]) # (o \in visible')
      PROVE  Coming(o, through[s])'
  <2>1. s \in Subs /\ o \in Objects
    BY GroupFacts, ScopeFacts
  <2>2. through[s] \in Nat /\ through[s] <= Len(log)
    BY <2>1, ToldFacts DEF ToldTo
  <2>3. (o \in memberPks[s]) # (o \in visible) => Coming(o, through[s])
    BY DEF Inv, MembersInv
  <2> QED
    BY <1>1, <1>3, <1>5, <2>1, <2>2, <2>3
<1> QED
  BY <1>4, <1>5

\* A step of the connection that touches the members of one subscription at most.
LEMMA OthersKeepMembers ==
    ASSUME Inv, UNCHANGED world, missed \subseteq missed', NEW s,
           pc' = "join" /\ Facets \subseteq RegisteredFacets => \A o \in Scope(handler'.sub) :
             (o \in handler'.found) # (o \in visible) => Coming(o, handler.snapshot)',
           \A t \in Active' \ {s} : t \in Active /\ UNCHANGED <<memberPks[t], through[t]>>,
           s \in Active' /\ Facets \subseteq RegisteredFacets => \A o \in Scope(s) :
             (o \in memberPks'[s]) # (o \in visible) => Coming(o, through[s])'
    PROVE  MembersInv'
<1>1. visible' = visible
  BY DEF world, objectVars
<1>2. ASSUME Facets \subseteq RegisteredFacets, NEW t \in Active' \ {s}, NEW o \in Scope(t),
             (o \in memberPks'[t]) # (o \in visible)
      PROVE  Coming(o, through[t])'
  <2>1. Coming(o, through[t])
    BY <1>2 DEF Inv, MembersInv
  <2>2. \A c : Coming(o, c) => Coming(o, c)'
    BY StillComing
  <2> QED
    BY <1>2, <2>1, <2>2 DEF Coming
<1> QED
  BY <1>1, <1>2 DEF MembersInv

\* publish() of an event of object o: the subscription then has what the user sees
\* of o, unless this is a deletion and a later write made o visible again.
LEMMA EvaluatedIsCurrent ==
    ASSUME Inv, Facets \subseteq RegisteredFacets, NEW s \in Subs, Evaluate(s),
           event \in 1..Len(log),
           Subject(event) \in Scope(s),
           (Subject(event) \in memberPks'[s]) # (Subject(event) \in visible)
    PROVE  Coming(Subject(event), event)
<1> DEFINE o == Subject(event)
           e == log[event]
           after == about[e].op # "deleted" /\ o \in visible
<1>1. /\ event \in DOMAIN log /\ e \in DOMAIN about /\ about[e] \in Event /\ o = about[e].subject
      /\ o \in Objects
      /\ Len(about) \in Nat /\ DOMAIN about = 1..Len(about)
      /\ Len(log) \in Nat /\ DOMAIN log = 1..Len(log)
  BY LogFacts, ScopeFacts DEF Inv, Subject
<1>2. memberPks \in [Subs -> SUBSET Objects] /\ about[e].facet \in RegisteredFacets
  BY <1>1, ToldFacts DEF Event
<1>3. (o \in memberPks'[s]) = after
  BY <1>1, <1>2 DEF Evaluate
<1>4. about[e].op = "deleted" /\ o \in visible
  BY <1>3
<1>5. PICK d \in DOMAIN about : d > e /\ about[d].subject = o
  BY <1>1, <1>4 DEF Inv, VisibleInv
<1>6. CASE d \in committed
  BY <1>5, <1>6 DEF Coming
<1>7. CASE d \notin committed
  <2>1. PICK c \in DOMAIN log : log[c] = d
    BY <1>7 DEF Inv, LogInv
  <2>2. Subject(c) = o
    BY <1>5, <2>1 DEF Subject
  <2>3. c # event
    BY <1>1, <1>5, <2>1
  <2>4. c < event => d < e
    BY <1>1, <2>1, <2>2 DEF Inv, LogInv
  <2>5. c > event
    BY <1>1, <1>5, <2>1, <2>3, <2>4
  <2> QED
    BY <2>1, <2>2, <2>5 DEF Coming
<1> QED
  BY <1>6, <1>7

LEMMA PublishKeepsMembers ==
    ASSUME Inv, Publish
    PROVE  MembersInv'
<1>1. /\ pc = "publish" /\ pc' = "publish" /\ todo # <<>>
      /\ UNCHANGED <<world, handler, missed, event, Active>>
  BY DEF Publish, backendVars, world, layerVars, groupVars, Active
<1>2. PICK s \in Subs : s = Head(todo)
  BY <1>1, MailFacts, Taken
<1>3. IF event <= through[s]
      THEN UNCHANGED <<memberPks, through, sent, silent, resynced, held>>
      ELSE Evaluate(s) /\ through' = [through EXCEPT ![s] = event]
  BY <1>2 DEF Publish
<1>4. s \in Active /\ event \in 1..Len(log) /\ event \in Nat /\ through[s] \in Nat
  <2>1. s \in Active
    BY <1>1, <1>2, MailFacts, Taken
  <2> QED
    BY <1>1, <2>1, MailFacts, ToldFacts DEF Inv, MailInv, Publishing
<1>5. CASE event <= through[s]
  <2>1. Facets \subseteq RegisteredFacets => \A o \in Scope(s) :
          (o \in memberPks'[s]) # (o \in visible) => Coming(o, through[s])'
    <3> SUFFICES ASSUME Facets \subseteq RegisteredFacets, NEW o \in Scope(s),
                        (o \in memberPks[s]) # (o \in visible)
                 PROVE  Coming(o, through[s])'
      BY <1>3, <1>5
    <3>1. Coming(o, through[s])
      BY <1>4 DEF Inv, MembersInv
    <3>2. \A c : Coming(o, c) => Coming(o, c)'
      BY <1>1, StillComing
    <3> QED
      BY <1>3, <1>5, <3>1, <3>2 DEF Coming
  <2> QED
    BY <1>1, <1>3, <1>5, <2>1, OthersKeepMembers
<1>6. CASE ~(event <= through[s])
  <2>1. Evaluate(s) /\ event > through[s] /\ through' = [through EXCEPT ![s] = event]
    BY <1>3, <1>4, <1>6
  <2>2. \A t \in Active \ {s} : UNCHANGED <<memberPks[t], through[t]>>
    <3>1. \A t \in Subs \ {s} : memberPks'[t] = memberPks[t]
      BY <1>4, <2>1, Evaluated
    <3>2. \A t \in Subs \ {s} : through'[t] = through[t]
      BY <2>1, ToldFacts
    <3> QED
      BY <3>1, <3>2, GroupFacts
  <2>3. ASSUME Facets \subseteq RegisteredFacets, NEW o \in Scope(s),
               (o \in memberPks'[s]) # (o \in visible)
        PROVE  Coming(o, through[s])'
    <3>1. through'[s] = event
      BY <2>1, ToldFacts
    <3>2. CASE o = Subject(event)
      <4>1. Coming(o, event)
        BY <1>4, <2>1, <2>3, <3>2, EvaluatedIsCurrent
      <4>2. \A c : Coming(o, c) => Coming(o, c)'
        BY <1>1, StillComing
      <4> QED
        BY <1>1, <3>1, <4>1, <4>2 DEF Coming
    <3>3. CASE o # Subject(event)
      <4>1. (o \in memberPks[s]) = (o \in memberPks'[s])
        BY <2>1, <3>3, ToldFacts DEF Evaluate
      <4>2. Coming(o, through[s])
        BY <1>4, <2>3, <4>1 DEF Inv, MembersInv
      <4>3. Coming(o, event)
        <5>1. CASE \E e \in committed : about[e].subject = o
          BY <5>1 DEF Coming
        <5>2. CASE \E d \in DOMAIN log : Subject(d) = o /\ (d > through[s] \/ d \in missed)
          <6>1. PICK d \in DOMAIN log : Subject(d) = o /\ (d > through[s] \/ d \in missed)
            BY <5>2
          <6>2. d \in Nat /\ d # event
            BY <3>3, <6>1, BackendFacts
          <6>3. d < event => d \in missed
            BY <1>1, <1>4, <6>1, <6>2, OvertakenIsMissed
          <6>4. d > event \/ d \in missed
            BY <1>4, <6>2, <6>3
          <6> QED
            BY <6>1, <6>4 DEF Coming
        <5> QED
          BY <4>2, <5>1, <5>2 DEF Coming
      <4>4. \A c : Coming(o, c) => Coming(o, c)'
        BY <1>1, StillComing
      <4> QED
        BY <1>1, <3>1, <4>3, <4>4 DEF Coming
    <3> QED
      BY <3>2, <3>3
  <2> QED
    BY <1>1, <2>2, <2>3, OthersKeepMembers
<1> QED
  BY <1>5, <1>6

\* The steps that read or take over the members.
LEMMA RegistersKeepMembers ==
    ASSUME Inv, ReadMembers \/ Join \/ Refresh
    PROVE  MembersInv'
<1>1. PICK s \in Subs : s = handler.sub
  BY HandlerFacts DEF ReadMembers, Join, Refresh, Asking, Replying
<1>2. UNCHANGED world /\ missed' = missed
  BY DEF ReadMembers, Join, Refresh, Reads, backendVars, world, toldVars
<1>3. handler \in Locals
  BY DEF Inv, HandlerInv
<1>4. CASE ReadMembers
  <2>1. UNCHANGED <<memberPks, through, Active>>
    BY <1>4 DEF ReadMembers, Reads, activeVars, Active
  <2>2. pc' = "join" => handler'.sub = s /\ handler'.found = visible \cap Scope(s)
    BY <1>1, <1>3, <1>4 DEF ReadMembers, Ignore, Goto, Matches, Locals
  <2>3. s \notin Active
    BY <1>1, <1>4 DEF ReadMembers, Inv, HandlerInv, Asking
  <2> QED
    BY <1>2, <2>1, <2>2, <2>3, OthersKeepMembers
<1>5. CASE Join
  <2>1. /\ pc = "join" /\ pc' = "latest" /\ Active' = Active \cup {s}
        /\ memberPks' = [memberPks EXCEPT ![s] = handler.found]
        /\ through' = [through EXCEPT ![s] = handler.snapshot] /\ handler' = handler
    BY <1>1, <1>5, JoinKeepsGroups DEF Join, Goto
  <2>2. /\ memberPks'[s] = handler.found /\ through'[s] = handler.snapshot
        /\ \A t \in Active \ {s} : UNCHANGED <<memberPks[t], through[t]>>
    BY <2>1, GroupFacts, ToldFacts
  <2>3. ASSUME Facets \subseteq RegisteredFacets, NEW o \in Scope(s),
               (o \in memberPks'[s]) # (o \in visible)
        PROVE  Coming(o, through[s])'
    <3>1. Coming(o, handler.snapshot)
      BY <1>1, <2>1, <2>2, <2>3 DEF Inv, MembersInv
    <3>2. \A c : Coming(o, c) => Coming(o, c)'
      BY <1>2, StillComing
    <3> QED
      BY <2>2, <3>1, <3>2 DEF Coming
  <2> QED
    BY <1>2, <2>1, <2>2, <2>3, OthersKeepMembers
<1>6. CASE Refresh
  <2>1. /\ pc' = "ack" /\ UNCHANGED Active
        /\ memberPks' = [memberPks EXCEPT ![s] = visible \cap Scope(s)]
        /\ through' = [through EXCEPT ![s] = handler.latest]
    BY <1>1, <1>6 DEF Refresh, Goto, Matches, Active
  <2>2. /\ memberPks'[s] = visible \cap Scope(s)
        /\ \A t \in Active \ {s} : UNCHANGED <<memberPks[t], through[t]>>
    BY <2>1, GroupFacts, ToldFacts
  <2> QED
    BY <1>2, <2>1, <2>2, OthersKeepMembers
<1> QED
  BY <1>4, <1>5, <1>6

LEMMA OtherStepsKeepMembers ==
    ASSUME Inv, HandlerNext \/ ClientNext, ~(ReadMembers \/ Join \/ Refresh \/ Publish)
    PROVE  MembersInv'
<1>1. UNCHANGED world
  BY SessionStep, BackendFacts
<1>2. pc' # "join"
  BY DEF HandlerNext, ClientNext, Subscribe, ReadSnapshot, CheckLimit, CatchUpLatest,
         CatchUpEvents, Acknowledge, CheckReplay, Replay, Flush, Receive, FetchRow, Published,
         Unsubscribe, Disconnect, Goto, Ignore
<1>3. CASE Disconnect
  <2>1. Active' = {}
    BY <1>3, EmptyHasNone DEF Disconnect, Active
  <2> QED
    BY <1>2, <2>1 DEF MembersInv
<1>4. CASE \E s \in Subs : Unsubscribe(s)
  <2>1. PICK s \in Subs : Unsubscribe(s)
    BY <1>4
  <2>2. /\ Active' = Active \ {s} /\ Active \subseteq Subs /\ Forget({s}) /\ missed' = missed
    BY <2>1, GroupFacts, UnsubscribeKeepsGroups DEF Unsubscribe
  <2>3. \A t \in Active' : t \in Active /\ UNCHANGED <<memberPks[t], through[t]>>
    BY <2>2 DEF Forget
  <2> QED
    BY <1>1, <1>2, <2>2, <2>3, OthersKeepMembers
<1>5. CASE ~Disconnect /\ ~(\E s \in Subs : Unsubscribe(s))
  <2>1. UNCHANGED <<memberPks, through, Active>> /\ missed \subseteq missed'
    BY <1>5 DEF HandlerNext, ClientNext, Subscribe, ReadSnapshot, CheckLimit, CatchUpLatest,
         CatchUpEvents, Acknowledge, CheckReplay, Replay, Flush, Receive, FetchRow, Published,
         Reads, Sends, activeVars, toldVars, Active
  <2>2. None \notin Active
    BY GroupFacts, NoneIsNoId
  <2> QED
    BY <1>1, <1>2, <2>1, <2>2, OthersKeepMembers
<1> QED
  BY <1>3, <1>4, <1>5

LEMMA MembersKept ==
    ASSUME Inv, Next
    PROVE  MembersInv'
BY BackendKeepsMembers, PublishKeepsMembers, RegistersKeepMembers, OtherStepsKeepMembers
   DEF Next, HandlerNext

-----------------------------------------------------------------------------
(* The inductive invariant.                                                 *)

\* No connection has subscribed and nothing was written.
LEMMA InitInv == Init => Inv
<1> SUFFICES ASSUME Init PROVE Inv
  OBVIOUS
<1>1. /\ about = <<>> /\ log = <<>> /\ committed = {} /\ deleted = {} /\ visible \in {{}, Objects}
      /\ reached = 0 /\ recorded = 0 /\ trimmed = 0 /\ phase = "model"
      /\ joined = {} /\ mailbox = <<>>
  BY DEF Init, BackendInit
<1>2. /\ pc = "idle" /\ handler = NoLocals /\ event = 0 /\ todo = <<>>
      /\ subscriptions = <<>> /\ seen = <<>> /\ held = {} /\ missed = {}
      /\ refs = [g \in Groups |-> 0]
      /\ memberPks = [s \in Subs |-> {}] /\ through = [s \in Subs |-> 0]
      /\ from = [s \in Subs |-> 0] /\ sent = [s \in Subs |-> <<>>]
      /\ silent = [s \in Subs |-> {}] /\ resynced = [s \in Subs |-> 0]
  BY DEF Init, SessionInit
<1>3. /\ DOMAIN <<>> = {} /\ Len(<<>>) = 0 /\ ToSet(<<>>) = {} /\ \A S : <<>> \in Seq(S)
  BY EmptyHasNone
<1>4. Active = {}
  BY <1>2, <1>3 DEF Active
<1>5. LogInv
  BY <1>1, <1>3 DEF LogInv
<1>6. FanoutInv
  BY <1>1, <1>3 DEF FanoutInv
<1>7. VisibleInv
  BY <1>1, <1>3 DEF VisibleInv
<1>8. HandlerInv
  BY <1>1, <1>2, <1>3, NoLocalsFacts DEF HandlerInv, Asking, Replying, Publishing, None
<1>9. GroupInv
  <2>1. {s \in Active : TRUE} = {} /\ \A g : {s \in Active : Group(s) = g} = {}
    BY <1>4
  <2>2. 0 <= MaxSubscriptions
    BY LimitsAreNat
  <2> QED
    BY <1>1, <1>2, <1>3, <1>4, <2>1, <2>2, FS_EmptySet DEF GroupInv
<1>10. MailInv
  <2>1. 0 <= DedupeSize
    BY LimitsAreNat
  <2> QED
    BY <1>1, <1>2, <1>3, <1>4, <2>1 DEF MailInv, Publishing
<1>11. ToldInv
  <2>1. \A s \in Subs : ToldTo(s)
    BY <1>1, <1>2, <1>3, <1>4 DEF ToldTo, Rising, Settling, Replying
  <2>2. LeftToTell
    BY <1>2, <1>3, NoLocalsFacts DEF LeftToTell, Rising, Replying
  <2> QED
    BY <1>1, <1>2, <1>3, <2>1, <2>2 DEF ToldInv
<1>12. SeenInv
  BY <1>2, <1>3, <1>4 DEF SeenInv
<1>13. PendingInv /\ SkipInv
  BY <1>4 DEF PendingInv, SkipInv
<1>14. MembersInv
  BY <1>2, <1>4 DEF MembersInv
<1> QED
  BY <1>5, <1>6, <1>7, <1>8, <1>9, <1>10, <1>11, <1>12, <1>13, <1>14 DEF Inv

\* A step that changes nothing.
LEMMA StutterInv ==
    ASSUME Inv, UNCHANGED vars
    PROVE  Inv'
<1>1. UNCHANGED <<visible, deleted, about, committed, log, reached, recorded, trimmed, phase,
                  joined, mailbox>>
  BY DEF vars, backendVars, objectVars, logVars, fanoutVars, layerVars
<1>2. UNCHANGED <<pc, handler, event, todo, subscriptions, memberPks, through, refs, seen,
                  from, sent, silent, resynced, held, missed>>
  BY DEF vars, sessionVars, activeVars, groupVars, toldVars
<1>3. Active' = Active /\ \A s : Settling(s)' = Settling(s) /\ Horizon(s)' = Horizon(s)
  BY <1>2 DEF Active, Settling, Horizon
<1>4. \A c : Subject(c)' = Subject(c)
  BY <1>1 DEF Subject
<1>5. LogInv' /\ FanoutInv' /\ VisibleInv'
  BY <1>1, <1>4 DEF Inv, LogInv, FanoutInv, VisibleInv
<1>6. HandlerInv' /\ GroupInv'
  BY <1>1, <1>2, <1>3 DEF Inv, HandlerInv, GroupInv
<1>7. MailInv' /\ SeenInv'
  BY <1>1, <1>2, <1>3 DEF Inv, MailInv, SeenInv
<1>8. ToldInv'
  BY <1>1, <1>2, <1>3 DEF Inv, ToldInv, ToldTo, LeftToTell
<1>9. PendingInv'
  BY <1>1, <1>2, <1>3, <1>4 DEF Inv, PendingInv, Pending, WentOut
<1>10. SkipInv'
  BY <1>1, <1>2, <1>3, <1>4 DEF Inv, SkipInv, NoHole, Due, Answered
<1>11. MembersInv'
  BY <1>1, <1>2, <1>3, <1>4 DEF Inv, MembersInv, Coming
<1> QED
  BY <1>5, <1>6, <1>7, <1>8, <1>9, <1>10, <1>11 DEF Inv

LEMMA InvStep == Inv /\ Next => Inv'
<1>1. ASSUME Inv, Next PROVE LogInv' /\ FanoutInv' /\ VisibleInv'
  <2>1. CASE BackendNext
    BY <1>1, <2>1, GrownFacts DEF BackendInv
  <2>2. CASE HandlerNext \/ ClientNext
    <3>1. UNCHANGED <<visible, deleted, about, committed, log, reached, recorded, trimmed, phase>>
      BY <1>1, <2>2, BackendFacts, SessionStep DEF world, objectVars, logVars, fanoutVars
    <3>2. LogInv' /\ \A c : Subject(c)' = Subject(c)
      BY <1>1, <3>1, SameLog DEF Inv
    <3> QED
      BY <1>1, <3>1, <3>2 DEF Inv, FanoutInv, VisibleInv
  <2> QED
    BY <1>1, <2>1, <2>2 DEF Next
<1> QED
  BY <1>1, HandlerKept, GroupKept, MailKept, ToldKept, SeenKept, PendingKept, SkipKept, MembersKept
     DEF Inv

\* Whatever the client asks for, the backend does between two queries of a handler
\* and retention deletes, what the consumer has in hand fits together.
THEOREM InvIsInvariant == Spec => []Inv
<1>1. Inv /\ [Next]_vars => Inv'
  BY InvStep, StutterInv
<1> QED
  BY InitInv, <1>1, PTL DEF Spec

-----------------------------------------------------------------------------
(* What follows from the invariant.                                         *)

LEMMA TypesFollow == Inv => SessionTypeOK
<1> SUFFICES ASSUME Inv PROVE SessionTypeOK
  OBVIOUS
<1>1. BackendTypeOK
  <2>1. /\ visible \subseteq Objects \ deleted /\ deleted \subseteq Objects
        /\ phase \in {"model", "object", "record"}
    BY DEF Inv, VisibleInv, FanoutInv
  <2>2. /\ \A e \in DOMAIN about : about[e].subject \in Objects \cup Strangers
                                  /\ about[e].facet \in Facets
        /\ committed \subseteq DOMAIN about
        /\ \A c \in DOMAIN log : log[c] \in DOMAIN about
    BY LogFacts DEF Inv, Event
  <2>3. reached \in 0..Len(log) /\ recorded \in 0..reached /\ trimmed \in 0..recorded
    BY BackendFacts
  <2>4. joined \subseteq Groups
    <3>1. \A s \in Active : Group(s) \in Groups
      BY GroupFacts, ScopeFacts
    <3> QED
      BY <3>1 DEF Inv, GroupInv
  <2>5. \A n \in DOMAIN mailbox : mailbox[n] \in 1..Len(log)
    BY MailFacts
  <2> QED
    BY <2>1, <2>2, <2>3, <2>4, <2>5 DEF BackendTypeOK
<1>2. /\ handler.sub \in Subs \cup {None} /\ handler.asked \in held \cup {None}
      /\ handler.snapshot \in 0..Len(log) /\ handler.latest \in 0..Len(log)
  BY HandlerFacts, BackendFacts DEF Inv, HandlerInv
<1>3. event \in 0..reached + 1
  <2>1. event \in Nat /\ event <= recorded + 1
    BY MailFacts
  <2>2. recorded \in Nat /\ reached \in Nat /\ recorded <= reached
    BY BackendFacts
  <2> QED
    BY <2>1, <2>2
<1>4. /\ Active \subseteq Subs
      /\ Cardinality(Active) = Len(subscriptions) /\ Len(subscriptions) <= MaxSubscriptions
  BY GroupFacts DEF Inv, GroupInv
<1>5. \A s \in Subs :
        /\ memberPks[s] \subseteq Scope(s)
        /\ through[s] \in 0..Len(log) /\ resynced[s] \in 0..Len(log)
        /\ ToSet(sent[s]) \subseteq held /\ silent[s] \subseteq 1..Len(log)
  BY ToldFacts, BackendFacts DEF ToldTo
<1>6. refs \in [Groups -> 0..MaxSubscriptions]
  <2>1. MaxSubscriptions \in Nat
    BY LimitsAreNat
  <2>2. \A g \in Groups : refs[g] \in Nat /\ refs[g] <= MaxSubscriptions
    <3> SUFFICES ASSUME NEW g \in Groups PROVE refs[g] \in Nat /\ refs[g] <= MaxSubscriptions
      OBVIOUS
    <3>1. refs[g] \in Nat /\ refs[g] <= Len(subscriptions) /\ Len(subscriptions) \in Nat
      BY GroupFacts
    <3>2. Len(subscriptions) <= MaxSubscriptions
      BY <1>4
    <3> QED
      BY <2>1, <3>1, <3>2
  <2>3. refs \in [Groups -> Nat]
    BY DEF Inv, GroupInv
  <2>4. \A g \in Groups : refs[g] \in 0..MaxSubscriptions
    BY <2>1, <2>2
  <2> QED
    BY <2>3, <2>4
<1>7. Len(seen) <= DedupeSize
  BY DEF Inv, MailInv
<1> QED
  BY <1>1, <1>2, <1>3, <1>4, <1>5, <1>6, <1>7 DEF SessionTypeOK

\* The variables of the connection keep the values the code gives them, and the
\* limits on subscriptions and remembered ids hold.
THEOREM TypesOfConnection == Spec => []SessionTypeOK
BY TypesFollow, InvIsInvariant, PTL

\* Between messages the reference counts of the groups are those of the active
\* subscriptions, after any number of subscribes, unsubscribes and disconnects.
THEOREM GroupsAreCounted == Spec => []GroupsFollowSubscriptions
<1>1. Inv => GroupsFollowSubscriptions
  BY DEF Inv, GroupInv, GroupsFollowSubscriptions
<1> QED
  BY <1>1, InvIsInvariant, PTL

\* Replay, catch-up and live delivery send the events of a subscription with
\* rising cursors and none twice, for every size of the dedupe window.
THEOREM EventsAreSentInOrder == Spec => []SentInOrder
<1>1. Inv => SentInOrder
  BY DEF Inv, ToldInv, ToldTo, Rising, SentInOrder
<1> QED
  BY <1>1, InvIsInvariant, PTL

\* A subscription has no hole between the cursor it answers from and its
\* through_cursor, as far as retention kept the events.
THEOREM RetainedEventsAreAnswered == Spec => []NoRetainedEventIsSkipped
<1>1. Inv => NoRetainedEventIsSkipped
  <2> SUFFICES ASSUME Inv, NEW s \in Ready
               PROVE  \A c \in Due(s, from[s], through[s]) : c > trimmed => Answered(s, c)
    BY DEF NoRetainedEventIsSkipped
  <2>1. s \in Active /\ ~Settling(s)
    BY DEF Ready, Settling
  <2> QED
    BY <2>1 DEF Inv, SkipInv, NoHole
<1> QED
  BY <1>1, InvIsInvariant, PTL

\* When the registration lists the facets of the events, a subscription whose
\* members are not those of now still has an event of each such object ahead.
THEOREM StaleMembersAreFollowed ==
    ASSUME Facets \subseteq RegisteredFacets
    PROVE  Spec => []StaleMembersHaveAnEventAhead
<1>1. Inv => StaleMembersHaveAnEventAhead
  <2> SUFFICES ASSUME Inv, NEW s \in Ready, NEW o \in Scope(s),
                      (o \in memberPks[s]) # (o \in visible)
               PROVE  EventAhead(s, o)
    BY DEF StaleMembersHaveAnEventAhead
  <2>1. s \in Active /\ ~Settling(s) /\ Horizon(s) = through[s]
    BY DEF Ready, Settling, Horizon
  <2>2. Coming(o, through[s])
    BY <2>1 DEF Inv, MembersInv
  <2>3. CASE \E e \in committed : about[e].subject = o
    BY <2>3 DEF EventAhead
  <2>4. CASE \E d \in DOMAIN log : Subject(d) = o /\ (d > through[s] \/ d \in missed)
    <3>1. PICK d \in DOMAIN log : Subject(d) = o /\ (d > through[s] \/ d \in missed)
      BY <2>4
    <3>2. CASE d \in missed \/ d > reached
      BY <3>1, <3>2 DEF EventAhead
    <3>3. CASE d \notin missed /\ ~(d > reached)
      <4>1. d <= reached
        BY <3>3, BackendFacts
      <4>2. WentOut(s, d)
        BY <4>1 DEF WentOut
      <4>3. d \in Pending
        BY <2>1, <3>1, <3>3, <4>2 DEF Inv, PendingInv
      <4> QED
        BY <3>1, <3>3, <4>3 DEF EventAhead, Pending
    <3> QED
      BY <3>2, <3>3
  <2> QED
    BY <2>2, <2>3, <2>4 DEF Coming
<1> QED
  BY <1>1, InvIsInvariant, PTL

\* No cursor that a client received is ever refused as invalid_cursor.
THEOREM ReceivedCursorsAreAccepted == Spec => HeldCursorsAreAccepted
<1>1. Inv => (ReadSnapshot => pc' = "limit")
  <2> SUFFICES ASSUME Inv, ReadSnapshot PROVE pc' = "limit"
    OBVIOUS
  <2>1. handler.asked \in held \cup {None} /\ held \subseteq 0..Len(log)
    BY ToldFacts DEF Inv, HandlerInv
  <2>2. Latest = Len(log) /\ Len(log) \in Nat
    BY BackendFacts
  <2>3. handler.asked \in 0..Len(log) \/ handler.asked = -1
    BY <2>1 DEF None
  <2>4. ~(handler.asked > Latest)
    BY <2>2, <2>3
  <2> QED
    BY <2>4 DEF ReadSnapshot, Goto
<1> QED
  BY <1>1, InvIsInvariant, PTL DEF Spec, HeldCursorsAreAccepted
=============================================================================
