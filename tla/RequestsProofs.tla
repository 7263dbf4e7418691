--------------------------- MODULE RequestsProofs ---------------------------
(***************************************************************************)
(* What holds of the messages of a client, for every set of messages, every    *)
(* limit and every registry.  Each invariant of Requests is inductive by       *)
(* itself: what is stored is decided by the message alone (StoredOnlyIf), and   *)
(* the rest of a step only adds one entry to the subscriptions, or drops one.   *)
(***************************************************************************)
EXTENDS Requests, TLAPS

-----------------------------------------------------------------------------
(* What a message that is not refused is like. *)

\* A message that passes is well formed and within the limits, names a registered
\* model, and, if it asks for an object, has a pk that int() accepts.
LEMMA Passing ==
    ASSUME NEW m \in Messages, Refusal(m) = "none"
    PROVE  /\ WellFormed(m)
           /\ ~FieldTooLarge(m)
           /\ m.kind.says = "object" => IsNumber(m.pk)
BY DEF Refusal

\* A refusal never says that an id is taken: that is found by looking at the
\* connection.
LEMMA RefusalIsNoDuplicate ==
    ASSUME NEW m \in Messages
    PROVE  Refusal(m) \notin {"duplicate_subscription", "subscribed", "unsubscribed"}
BY DEF Refusal

\* The filters that a passing message leaves are within the limits.
LEMMA PassingFiltersAreSmall ==
    ASSUME NEW m \in Messages, Refusal(m) = "none", FiltersOf(m).is = "object"
    PROVE  /\ FiltersOf(m).size <= Limit.filter_keys
           /\ FiltersOf(m).widest <= Limit.filter_value_bytes
<1>1. ~Oversized(FiltersOf(m), Limit.filter_keys, Limit.filter_value_bytes)
  BY Passing DEF FieldTooLarge, FiltersTooLarge
<1>2. m.filter \in Value /\ m.filters \in Value
  BY FieldsAreValues DEF Fields
<1>3. FiltersOf(m) \in Value
  BY <1>2 DEF FiltersOf
<1>4. FiltersOf(m).size \in Nat /\ FiltersOf(m).widest \in Nat
  BY <1>3 DEF Value
<1> QED
  BY <1>1, <1>4, LimitsAreNat DEF Oversized

-----------------------------------------------------------------------------
(* What a step does to the subscriptions. *)

\* A subscribe stores nothing, or its own request under one id, and then every
\* condition on the message held; only an id that is taken is called a duplicate.
LEMMA SubscribeAsStores ==
    ASSUME NEW m \in Messages, NEW id, SubscribeAs(id, m)
    PROVE  /\ \/ UNCHANGED subscriptions /\ reply'.code \notin {"subscribed", "unsubscribed"}
              \/ Store(id, m) /\ Accept(id, m)
           /\ id \notin DOMAIN subscriptions => reply'.code # "duplicate_subscription"
BY DEF SubscribeAs, Register, Accept, Refuse, Answer, Objections, Raise, NoReply

\* The id a subscription is stored under: never the empty text, and taken by
\* nobody if the server chose it.
LEMMA SubscribeStores ==
    ASSUME NEW m \in Messages, Subscribe(m), counter \in 1..(Len(GeneratedIds) + 1)
    PROVE  /\ \/ UNCHANGED subscriptions /\ reply'.code \notin {"subscribed", "unsubscribed"}
              \/ \E id : /\ id # NoId /\ Refusal(m) = "none"
                         /\ Store(id, m) /\ Accept(id, m)
           /\ counter' \in 1..(Len(GeneratedIds) + 1)
           /\ unnamed' \in BOOLEAN
           /\ unnamed' => reply'.code # "duplicate_subscription"
<1> DEFINE chosen == SubscriptionId(m.id)
           Stores == \/ UNCHANGED subscriptions /\ reply'.code \notin {"subscribed", "unsubscribed"}
                     \/ \E id : /\ id # NoId /\ Refusal(m) = "none"
                                /\ Store(id, m) /\ Accept(id, m)
           Fine == reply'.code # "duplicate_subscription"
<1>1. unnamed' = (chosen = NoId)
  BY DEF Subscribe
<1>2. CASE Refusal(m) # "none"
  <2>1. Raise \/ Refuse(Refusal(m))
    BY <1>2 DEF Subscribe
  <2>2. reply'.code \in {"none", Refusal(m)} /\ UNCHANGED subscriptions
    BY <2>1 DEF Refuse, Raise, Answer, NoReply
  <2>3. UNCHANGED counter
    BY <1>2 DEF Subscribe
  <2> QED
    BY <1>1, <2>2, <2>3, RefusalIsNoDuplicate
<1>3. CASE Refusal(m) = "none" /\ chosen # NoId
  <2>1. SubscribeAs(chosen, m) /\ UNCHANGED counter
    BY <1>3 DEF Subscribe
  <2>2. Stores
    BY <1>3, <2>1, SubscribeAsStores
  <2>3. ~unnamed'
    BY <1>1, <1>3
  <2> QED
    BY <1>1, <2>1, <2>2, <2>3
<1>4. CASE Refusal(m) = "none" /\ chosen = NoId
  <2>1. PICK n \in counter..Len(GeneratedIds) :
            /\ IsNextGenerated(n) /\ counter' = n + 1 /\ SubscribeAs(GeneratedIds[n], m)
    BY <1>4 DEF Subscribe
  <2>2. Len(GeneratedIds) \in Nat /\ n \in 1..Len(GeneratedIds)
    BY <2>1, GeneratedIdsAreIds
  <2>3. GeneratedIds[n] # NoId
    BY <2>2, GeneratedIdsAreIds DEF Range
  <2>4. GeneratedIds[n] \notin DOMAIN subscriptions
    BY <2>1 DEF IsNextGenerated, Taken
  <2>5. Stores /\ Fine
    BY <1>4, <2>1, <2>3, <2>4, SubscribeAsStores
  <2>6. counter' \in 1..(Len(GeneratedIds) + 1)
    BY <2>1, <2>2
  <2> QED
    BY <1>1, <2>5, <2>6
<1> QED
  BY <1>2, <1>3, <1>4

\* Every other message adds nothing: it leaves the subscriptions, or ends one and
\* says so.
LEMMA OthersAddNothing ==
    ASSUME \/ \E m \in Messages : Unsubscribe(m) \/ Unsupported(m)
           \/ Undecodable
    PROVE  /\ \/ UNCHANGED subscriptions /\ reply'.code \notin {"subscribed", "unsubscribed"}
              \/ /\ reply'.code = "unsubscribed"
                 /\ \E S \in SUBSET DOMAIN subscriptions :
                        subscriptions' = [i \in S |-> subscriptions[i]]
           /\ UNCHANGED <<counter, unnamed>>
           /\ reply'.code # "duplicate_subscription"
<1>1. CASE \E m \in Messages : Unsubscribe(m)
  <2>1. PICK m \in Messages : Unsubscribe(m)
    BY <1>1
  <2> DEFINE rest == DOMAIN subscriptions \ {m.id.says}
  <2>2. CASE subscriptions' = Restrict(subscriptions, rest)
             /\ Answer("unsubscribed", m.id.says)
    <3>1. subscriptions' = [i \in rest |-> subscriptions[i]]
      BY <2>2 DEF Restrict
    <3>2. rest \in SUBSET DOMAIN subscriptions
      OBVIOUS
    <3>3. reply'.code = "unsubscribed"
      BY <2>2 DEF Answer
    <3>4. UNCHANGED <<counter, unnamed>>
      BY <2>1, <2>2 DEF Unsubscribe
    <3> QED
      BY <3>1, <3>2, <3>3, <3>4
  <2>3. CASE \E code \in {"invalid_request", "field_too_large", "not_subscribed"} : Refuse(code)
    BY <2>1, <2>3 DEF Unsubscribe, Refuse, Answer
  <2> QED
    BY <2>1, <2>2, <2>3 DEF Unsubscribe
<1>2. CASE \E m \in Messages : Unsupported(m)
  BY <1>2 DEF Unsupported, Refuse, Answer
<1>3. CASE Undecodable
  BY <1>3 DEF Undecodable, Refuse, Answer
<1> QED
  BY <1>1, <1>2, <1>3

-----------------------------------------------------------------------------
(* The invariants *)

\* A step of the connection adds at most one entry to its subscriptions, the
\* request of a message that passes.
LEMMA StepStores ==
    ASSUME RequestsTypeOK, Next
    PROVE  \/ \E S \in SUBSET DOMAIN subscriptions :
                  subscriptions' = [i \in S |-> subscriptions[i]]
           \/ UNCHANGED subscriptions
           \/ \E m \in Messages : \E id :
                  /\ id # NoId /\ Refusal(m) = "none"
                  /\ Store(id, m) /\ Accept(id, m)
<1>1. CASE \E m \in Messages : Subscribe(m)
  BY <1>1, SubscribeStores DEF RequestsTypeOK
<1>2. CASE (\E m \in Messages : Unsubscribe(m) \/ Unsupported(m)) \/ Undecodable
  BY <1>2, OthersAddNothing
<1> QED
  BY <1>1, <1>2 DEF Next

\* The rest of the state, in one step.
LEMMA StepControl ==
    ASSUME RequestsTypeOK, Next
    PROVE  /\ counter' \in 1..(Len(GeneratedIds) + 1)
           /\ unnamed' \in BOOLEAN
           /\ reply'.code = "duplicate_subscription" => ~unnamed'
           /\ reply'.code \notin {"subscribed", "unsubscribed"} => UNCHANGED subscriptions
<1>1. CASE \E m \in Messages : Subscribe(m)
  <2>1. PICK m \in Messages : Subscribe(m)
    BY <1>1
  <2>2. UNCHANGED subscriptions \/ \E id : Accept(id, m)
    BY <2>1, SubscribeStores DEF RequestsTypeOK
  <2>3. UNCHANGED subscriptions \/ reply'.code = "subscribed"
    BY <2>2 DEF Accept, Answer
  <2> QED
    BY <2>1, <2>3, SubscribeStores DEF RequestsTypeOK
<1>2. CASE (\E m \in Messages : Unsubscribe(m) \/ Unsupported(m)) \/ Undecodable
  BY <1>2, OthersAddNothing DEF RequestsTypeOK
<1> QED
  BY <1>1, <1>2 DEF Next

\* Every subscription has a kind and an id, and the ids the server generates are
\* drawn in order.
THEOREM TypesOfRequests == Spec => []RequestsTypeOK
<1>1. Init => RequestsTypeOK
  <2> SUFFICES ASSUME Init PROVE RequestsTypeOK
    OBVIOUS
  <2>1. DOMAIN subscriptions = {}
    BY DEF Init
  <2>2. counter \in 1..(Len(GeneratedIds) + 1)
    BY GeneratedIdsAreIds DEF Init
  <2> QED
    BY <2>1, <2>2 DEF Init, RequestsTypeOK
<1>2. RequestsTypeOK /\ [Next]_vars => RequestsTypeOK'
  <2> SUFFICES ASSUME RequestsTypeOK, [Next]_vars
               PROVE  RequestsTypeOK'
    OBVIOUS
  <2>1. CASE Next
    <3> DEFINE Stored == \A i \in DOMAIN subscriptions :
                            subscriptions[i].kind \in Kinds /\ i # NoId
    <3>1. Stored
      BY DEF RequestsTypeOK
    <3>2. ASSUME NEW S \in SUBSET DOMAIN subscriptions,
                 subscriptions' = [i \in S |-> subscriptions[i]]
          PROVE  Stored'
      BY <3>1, <3>2
    <3>3. ASSUME NEW m \in Messages, NEW id, id # NoId, Refusal(m) = "none", Store(id, m)
          PROVE  Stored'
      <4>1. Request(m).kind \in Kinds
        BY <3>3, Passing DEF WellFormed, KnownKind, Request
      <4> QED
        BY <3>1, <3>3, <4>1 DEF Store
    <3>4. Stored'
      BY <2>1, <3>1, <3>2, <3>3, StepStores
    <3> QED
      BY <2>1, <3>4, StepControl DEF RequestsTypeOK
  <2>2. CASE UNCHANGED vars
    BY <2>2 DEF vars, RequestsTypeOK
  <2> QED
    BY <2>1, <2>2
<1> QED
  BY <1>1, <1>2, PTL DEF Spec

\* The pk of an object subscription is the text of a key that a row has, however
\* the client spelled it.
THEOREM ObjectsAreFound == Spec => []ObjectsHaveTheTextOfEvents
<1> DEFINE Good == ObjectsHaveTheTextOfEvents
<1>1. Init => Good
  BY DEF Init, ObjectsHaveTheTextOfEvents
<1>2. RequestsTypeOK /\ Good /\ [Next]_vars => Good'
  <2> SUFFICES ASSUME RequestsTypeOK, Good, [Next]_vars
               PROVE  Good'
    OBVIOUS
  <2>1. ASSUME NEW S \in SUBSET DOMAIN subscriptions,
               subscriptions' = [i \in S |-> subscriptions[i]]
        PROVE  Good'
    BY <2>1 DEF ObjectsHaveTheTextOfEvents
  <2>2. ASSUME NEW m \in Messages, NEW id, Store(id, m), Accept(id, m)
        PROVE  Good'
    <3>1. Request(m).kind = "object" =>
              \E key \in Keys : Request(m).pk = TextOf[key]
      BY <2>2 DEF Accept, Request, CanonicalPk
    <3> QED
      BY <2>2, <3>1 DEF Store, ObjectsHaveTheTextOfEvents
  <2>3. CASE UNCHANGED subscriptions
    BY <2>3 DEF ObjectsHaveTheTextOfEvents
  <2> QED
    BY <2>1, <2>2, <2>3, StepStores DEF vars
<1> QED
  BY <1>1, <1>2, TypesOfRequests, PTL DEF Spec

\* The filters a subscription keeps are within the limits of the connection,
\* whichever spelling of the field carried them.
THEOREM FiltersAreWithinLimits == Spec => []StoredFiltersAreWithinLimits
<1> DEFINE Good == StoredFiltersAreWithinLimits
<1>1. Init => Good
  BY DEF Init, StoredFiltersAreWithinLimits
<1>2. RequestsTypeOK /\ Good /\ [Next]_vars => Good'
  <2> SUFFICES ASSUME RequestsTypeOK, Good, [Next]_vars
               PROVE  Good'
    OBVIOUS
  <2>1. ASSUME NEW S \in SUBSET DOMAIN subscriptions,
               subscriptions' = [i \in S |-> subscriptions[i]]
        PROVE  Good'
    BY <2>1 DEF StoredFiltersAreWithinLimits
  <2>2. ASSUME NEW m \in Messages, NEW id, Refusal(m) = "none", Store(id, m)
        PROVE  Good'
    <3>1. Request(m).filters.is = "object" =>
              /\ Request(m).filters.size <= Limit.filter_keys
              /\ Request(m).filters.widest <= Limit.filter_value_bytes
      BY <2>2, PassingFiltersAreSmall DEF Request
    <3> QED
      BY <2>2, <3>1 DEF Store, StoredFiltersAreWithinLimits
  <2>3. CASE UNCHANGED subscriptions
    BY <2>3 DEF StoredFiltersAreWithinLimits
  <2> QED
    BY <2>1, <2>2, <2>3, StepStores DEF vars
<1> QED
  BY <1>1, <1>2, TypesOfRequests, PTL DEF Spec

-----------------------------------------------------------------------------
(* The action properties *)

\* A client that leaves the id to the server is never told that its id is taken.
THEOREM GeneratedIdsAreNeverTaken == Spec => GeneratedIdsAreFree
<1>1. RequestsTypeOK /\ [Next]_vars =>
          [reply'.code = "duplicate_subscription" => ~unnamed']_vars
  BY StepControl
<1> QED
  BY <1>1, TypesOfRequests, PTL DEF Spec, GeneratedIdsAreFree

\* An answer other than an acknowledgement means that the subscriptions are as
\* they were.
THEOREM ErrorsChangeNothing == Spec => ErrorsLeaveNoTrace
<1>1. RequestsTypeOK /\ [Next]_vars =>
          [reply'.code \notin {"subscribed", "unsubscribed"} => UNCHANGED subscriptions]_vars
  BY StepControl
<1> QED
  BY <1>1, TypesOfRequests, PTL DEF Spec, ErrorsLeaveNoTrace
=============================================================================
