------------------------------ MODULE Requests ------------------------------
(***************************************************************************)
(* The messages of a client, from the frame to the subscription they make or *)
(* end (ObjectStreamConsumer.receive, SubscriptionSession.handle_message,     *)
(* SubscriptionRequest).  Primary keys are integers.  Handling a message is    *)
(* one step here and the answers of the database are chosen; module Session    *)
(* has a step for each query.                                                *)
(*                                                                         *)
(* A JSON value is a record: its type, what str() makes of it, its size (none   *)
(* if Python takes it for false), the bytes of its largest member, whether it  *)
(* encodes as UTF-8, and whether it is nested so deep that it can be decoded    *)
(* but json.dumps exceeds the recursion limit.                               *)
(***************************************************************************)
EXTENDS Integers, FiniteSets, Sequences, Functions

CONSTANTS
    Messages,           \* JSON objects that the client may send
    Registered,         \* labels of the registered models
    Numeral,            \* int() of the texts that it accepts
    TextOf,             \* str() of a number
    Keys,               \* primary keys that rows may have
    GeneratedIds,       \* "sub_1", "sub_2", ...; bound: its length
    Limit,              \* the field limits, by name
    MaxSubscriptions

ASSUME NumbersHaveTexts ==
    /\ \A t \in DOMAIN Numeral : Numeral[t] \in DOMAIN TextOf
    /\ \A n \in DOMAIN TextOf : Numeral[TextOf[n]] = n
    /\ Keys \subseteq DOMAIN TextOf

NoId == ""
Fields == {"kind", "model", "pk", "filter", "filters", "ordering", "shape",
           "cursor", "id", "search"}
Value == [is : STRING, says : STRING, size : Nat, widest : Nat,
          utf8 : BOOLEAN, deep : BOOLEAN]

\* A field that the client leaves out is null (message.get), the kind "object".
ASSUME FieldsAreValues ==
    \A m \in Messages : Fields \subseteq DOMAIN m \ {"op"} /\ \A f \in Fields : m[f] \in Value
ASSUME LimitsAreNat ==
    Limit.filter_keys \in Nat /\ Limit.filter_value_bytes \in Nat
ASSUME GeneratedIdsAreIds ==
    GeneratedIds \in Seq(STRING) /\ NoId \notin Range(GeneratedIds)

VARIABLES
    subscriptions,      \* _subscriptions: id -> request
    counter,            \* _counter: the number the next generated id begins at
    open,               \* no handler has raised: an exception ends the connection
    unnamed, reply      \* history: the last message had no id, and its answer

vars == <<subscriptions, counter, open, unnamed, reply>>

Kinds == {"object", "filter", "model"}
NoReply == [code |-> "none", id |-> NoId]

-----------------------------------------------------------------------------
\* is_scalar_id: a boolean is no integer.
Scalar(v) == v.is \in {"text", "integer"}

Falsy(v) == v.is = "null" \/ v.size = 0

\* message.get("filter") or message.get("filters")
FiltersOf(m) == IF Falsy(m.filter) THEN m.filters ELSE m.filter

IsNumber(v) == Scalar(v) /\ v.says \in DOMAIN Numeral

-----------------------------------------------------------------------------
(* _subscribe_message_rejection *)

Oversized(v, entries, bytes) == v.is = "object" /\ (v.size > entries \/ v.widest > bytes)

\* Mutant of FiltersTooLarge: the alias "filters" is forgotten.
OnlyFilterTooLarge(m) == Oversized(m.filter, Limit.filter_keys, Limit.filter_value_bytes)

FiltersTooLarge(m) == Oversized(FiltersOf(m), Limit.filter_keys, Limit.filter_value_bytes)

IdTooLong(v) == Scalar(v) /\ v.size > Limit.subscription_id

\* A field of the wrong type skips its check.
FieldTooLarge(m) ==
    \/ IdTooLong(m.id)
    \/ Scalar(m.pk) /\ m.pk.size > Limit.pk
    \/ FiltersTooLarge(m)
    \/ m.ordering.is = "list" /\ m.ordering.size > Limit.ordering
    \/ m.shape.is = "object" /\ m.shape.widest > Limit.shape_bytes

\* _is_valid_unicode dumps the whole message, and catches only what encoding the
\* text raises.  What has passed it can be measured by _json_size.
TooDeep(m) == \E field \in DOMAIN m \ {"op"} : m[field].deep
ValidUnicode(m) == \A field \in DOMAIN m \ {"op"} : m[field].utf8

-----------------------------------------------------------------------------
(* SubscriptionRequest.from_message, __post_init__ *)

\* Mutant of KnownKind: the kind is taken as it is.
AnyKind(m) == TRUE

\* SubscriptionKind(str(kind)), or a ValueError.
KnownKind(m) == m.kind.says \in Kinds

\* Every way to fail is a ValueError, and so an invalid_request.
WellFormed(m) ==
    /\ ~Falsy(m.model)
    /\ m.pk.is = "null" \/ Scalar(m.pk)
    /\ Falsy(FiltersOf(m)) \/ FiltersOf(m).is = "object"
    /\ Falsy(m.ordering) \/ (m.ordering.is = "list" /\ m.ordering.says = "texts")
    /\ Falsy(m.shape) \/ m.shape.is = "object"
    /\ m.cursor.is = "null" \/ (IsNumber(m.cursor) /\ Numeral[m.cursor.says] >= 0)
    /\ m.id.is = "null" \/ Scalar(m.id)
    /\ KnownKind(m)
    /\ m.kind.says = "object" => m.pk.is # "null"

\* normalize_subscription_id of null or a scalar; to subscribe(), "" is none.
SubscriptionId(v) == IF v.is = "null" THEN NoId ELSE v.says

\* Mutant of CanonicalPk: the text of the client stays.
ClientPk(v) == v.says

\* _canonical_request: the text that events have, "2" for "02".
CanonicalPk(v) == TextOf[Numeral[v.says]]

\* What is found without looking at the connection or the database, in order.
Refusal(m) ==
    IF TooDeep(m) THEN "raised"
    ELSE IF ~ValidUnicode(m) THEN "invalid_request"
    ELSE IF FieldTooLarge(m) THEN "field_too_large"
    ELSE IF \/ ~WellFormed(m)
            \/ m.model.says \notin Registered
            \/ m.kind.says = "object" /\ ~IsNumber(m.pk) THEN "invalid_request"
    ELSE "none"

-----------------------------------------------------------------------------
Answer(code, id) == reply' = [code |-> code, id |-> id]
Refuse(code) == Answer(code, NoId) /\ UNCHANGED <<subscriptions, open>>

\* An exception that no handler catches.
Raise == open' = FALSE /\ reply' = NoReply /\ UNCHANGED subscriptions

Taken(n) == GeneratedIds[n] \in DOMAIN subscriptions

\* Mutant of IsNextGenerated: an id the client has chosen is not skipped.
IsNextInTurn(n) == n = counter

\* _next_subscription_id: the first number whose id is not active.
IsNextGenerated(n) == ~Taken(n) /\ \A k \in counter..(n - 1) : Taken(k)

\* What the database, and a filter set that validates, may say against a request.
Objections(m) ==
    {"subscription_too_large"}
        \cup (IF m.cursor.is = "null" THEN {} ELSE {"invalid_cursor"})
        \cup (IF m.kind.says = "filter" THEN {"invalid_filter"} ELSE {})
        \cup (IF m.kind.says = "object" THEN {"not_found"} ELSE {})

\* What is kept of a message: its pk, and filters that FiltersOf found.
Request(m) ==
    [kind |-> m.kind.says,
     pk |-> IF m.kind.says = "object" THEN CanonicalPk(m.pk) ELSE "unused",
     filters |-> FiltersOf(m)]

Store(id, m) ==
    subscriptions' = [i \in DOMAIN subscriptions \cup {id} |->
                         IF i = id THEN Request(m) ELSE subscriptions[i]]

\* An object subscription needs a row to acknowledge.
Accept(id, m) ==
    /\ m.kind.says = "object" => Numeral[m.pk.says] \in Keys
    /\ Answer("subscribed", id)

\* Mutant of Register: the subscription is stored before the database is asked.
RegisterFirst(id, m) ==
    /\ Store(id, m)
    /\ UNCHANGED open
    /\ Accept(id, m) \/ \E code \in Objections(m) : Answer(code, NoId)

\* The part of subscribe() that asks the database.  The filter set, the visibility
\* policy and the database may raise anything; a FilterValidationError is answered.
Register(id, m) ==
    \/ \E code \in Objections(m) : Refuse(code)
    \/ Raise
    \/ Accept(id, m) /\ Store(id, m) /\ UNCHANGED open

\* subscribe() of a request that may be built.
SubscribeAs(id, m) ==
    IF id \in DOMAIN subscriptions THEN Refuse("duplicate_subscription")
    ELSE IF Cardinality(DOMAIN subscriptions) >= MaxSubscriptions
         THEN Refuse("subscription_limit_exceeded")
    ELSE IF m.search.is # "null" THEN Refuse("unsupported_search")
    ELSE Register(id, m)

\* An id is drawn, and spent, only for a message without one.
Subscribe(m) ==
    LET chosen == SubscriptionId(m.id) IN
    /\ m.op = "subscribe"
    /\ \/ /\ Refusal(m) # "none"
          /\ IF Refusal(m) = "raised" THEN Raise ELSE Refuse(Refusal(m))
          /\ UNCHANGED counter
       \/ /\ Refusal(m) = "none" /\ chosen # NoId
          /\ SubscribeAs(chosen, m) /\ UNCHANGED counter
       \/ /\ Refusal(m) = "none" /\ chosen = NoId
          /\ \E n \in counter..Len(GeneratedIds) :
                /\ IsNextGenerated(n)
                /\ counter' = n + 1
                /\ SubscribeAs(GeneratedIds[n], m)
    /\ unnamed' = (chosen = NoId)

\* _unsubscribe_request and unsubscribe().
Unsubscribe(m) ==
    /\ m.op = "unsubscribe"
    /\ IF ~Scalar(m.id) THEN Refuse("invalid_request")
       ELSE IF IdTooLong(m.id) THEN Refuse("field_too_large")
       ELSE IF m.id.says \notin DOMAIN subscriptions THEN Refuse("not_subscribed")
       ELSE /\ subscriptions' = Restrict(subscriptions, DOMAIN subscriptions \ {m.id.says})
            /\ Answer("unsubscribed", m.id.says)
            /\ UNCHANGED open
    /\ UNCHANGED <<counter, unnamed>>

\* An op that is neither.
Unsupported(m) ==
    /\ m.op \notin {"subscribe", "unsubscribe"}
    /\ Refuse("invalid_request")
    /\ UNCHANGED <<counter, unnamed>>

\* receive(): a frame that is too long, binary, not JSON, or not an object.
Undecodable ==
    /\ \E code \in {"message_too_large", "invalid_request"} : Refuse(code)
    /\ UNCHANGED <<counter, unnamed>>

-----------------------------------------------------------------------------
Init ==
    /\ subscriptions = <<>>
    /\ counter = 1
    /\ open = TRUE
    /\ unnamed = FALSE
    /\ reply = NoReply

Next ==
    /\ open
    /\ \/ \E m \in Messages : Subscribe(m) \/ Unsubscribe(m) \/ Unsupported(m)
       \/ Undecodable

Spec == Init /\ [][Next]_vars

-----------------------------------------------------------------------------
RequestsTypeOK ==
    /\ \A id \in DOMAIN subscriptions :
         /\ subscriptions[id].kind \in Kinds
         /\ id # NoId
    /\ counter \in 1..(Len(GeneratedIds) + 1)
    /\ unnamed \in BOOLEAN

\* _next_subscription_id: a client that leaves the id to the server is never told
\* that its id is taken, whatever ids it chose itself and ended before.
GeneratedIdsAreFree ==
    [][reply'.code = "duplicate_subscription" => ~unnamed']_vars

\* README, "Connection limits": an error leaves the connection as it was.  A
\* rejected subscribe makes no subscription and disturbs none.
ErrorsLeaveNoTrace ==
    [][reply'.code \notin {"subscribed", "unsubscribed"} =>
            UNCHANGED subscriptions]_vars

\* _canonical_request: the pk of an object subscription is the text that events
\* have, so replay, evaluation and the group find them, however it was spelled.
ObjectsHaveTheTextOfEvents ==
    \A id \in DOMAIN subscriptions : subscriptions[id].kind = "object" =>
        \E key \in Keys : subscriptions[id].pk = TextOf[key]

\* README, "Connection limits": what a subscription keeps of its filters is within
\* the limits, whichever of the two spellings of the field carried it.
StoredFiltersAreWithinLimits ==
    \A id \in DOMAIN subscriptions :
        LET filters == subscriptions[id].filters IN
        filters.is = "object" =>
            filters.size <= Limit.filter_keys /\ filters.widest <= Limit.filter_value_bytes
=============================================================================
