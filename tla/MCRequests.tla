----------------------------- MODULE MCRequests -----------------------------
(* Requests for TLC: messages that differ from a good one in up to two fields. *)
EXTENDS Requests, TLC

Json(is, says, size) ==
    [is |-> is, says |-> says, size |-> size, widest |-> size, utf8 |-> TRUE, deep |-> FALSE]
Text(says, size) == Json("text", says, size)
Null == Json("null", "None", 0)
Object(size, widest) == [Json("object", "{}", size) EXCEPT !.widest = widest]
Broken(v) == [v EXCEPT !.utf8 = FALSE]
Deep(v) == [v EXCEPT !.deep = TRUE]

TheNumeral == ("1" :> 1) @@ ("01" :> 1) @@ ("2" :> 2) @@ ("-1" :> -1)
TheText == (1 :> "1") @@ (2 :> "2") @@ (-1 :> "-1")
TheIds == <<"sub_1", "sub_2", "sub_3">>
TheLimits ==
    [subscription_id |-> 5, pk |-> 2, filter_keys |-> 1, filter_value_bytes |-> 1,
     ordering |-> 1, shape_bytes |-> 1]

Good ==
    [op |-> "subscribe", kind |-> Text("object", 6), model |-> Text("item", 4),
     pk |-> Text("1", 1), filter |-> Null, filters |-> Null, ordering |-> Null,
     shape |-> Null, cursor |-> Null, id |-> Null, search |-> Null]

Scalars == {Text("1", 1), Json("integer", "1", 1), Json("boolean", "True", 1),
            Text("x", 1), Text("long", 9), Null, Broken(Text("?", 1))}
Objects == {Object(0, 0), Object(1, 1), Object(2, 1), Object(1, 2),
            Broken(Object(1, 1)), Deep(Object(1, 1)), Text("x", 1), Null}

Choices ==
    [kind |-> {Text("filter", 6), Text("model", 5), Text("other", 5), Null},
     model |-> {Text("unknown", 7), Text("", 0), Broken(Text("?", 1))},
     pk |-> Scalars \cup {Text("01", 2), Text("-1", 2)},
     filter |-> Objects, filters |-> Objects,
     ordering |-> {Json("list", "texts", 1), Json("list", "texts", 2),
                   Json("list", "other", 1), Text("x", 1)},
     shape |-> Objects,
     cursor |-> Scalars \cup {Text("-1", 2)},
     id |-> {Json("integer", "1", 1), Json("boolean", "True", 1), Text("long", 9),
             Broken(Text("?", 1)), Text("1", 1), Text("sub_1", 5), Text("sub_2", 5), Text("", 0)},
     search |-> {Text("x", 1)}]

Varied ==
    UNION {{[[Good EXCEPT ![f] = v] EXCEPT ![g] = w] :
                v \in Choices[f] \cup {Good[f]}, w \in Choices[g]} :
           f \in {"kind", "filter"}, g \in {"filters", "id", "pk"}}
    \cup UNION {{[Good EXCEPT ![f] = v] : v \in Choices[f]} : f \in DOMAIN Choices}

Ended == {[Good EXCEPT !.op = "unsubscribe", !.id = v] : v \in Choices.id}

TheMessages == Varied \cup Ended \cup {[Good EXCEPT !.op = "other"]}
=============================================================================
