---------------------------- MODULE MCProducers ----------------------------
(* Producers for TLC: a model with a subclass, and a source of each kind. *)
EXTENDS Producers

Order == [label |-> "order", lineage |-> {"order"}]
Rush == [label |-> "rush", lineage |-> {"rush", "order"}]      \* a subclass
Line == [label |-> "line", lineage |-> {"line"}]

TheInstances == {Order, Rush, Line}
Own == [i \in TheInstances |-> {i.label}]
Both == [i \in TheInstances |-> {"order", "line"}]

TheSources ==
    {[facet |-> "object", by |-> "class", model |-> "order", subjects |-> Own],
     [facet |-> "parts", by |-> "label", model |-> "line", subjects |-> Both],
     [facet |-> NoFacet, by |-> "anything", model |-> "line", subjects |-> Both],
     [facet |-> NullFacet, by |-> "class", model |-> "order", subjects |-> Own]}
=============================================================================
