------------------------------ MODULE Producers ------------------------------
(***************************************************************************)
(* The registry of models and the producers that turn a changed instance     *)
(* into events: which events build_source_events makes, and which             *)
(* subscriptions accept their facets.  A subscription keeps the registration    *)
(* it was made with, whatever is registered later.                            *)
(*                                                                         *)
(* An instance has a label and the labels of its class and its bases.  A       *)
(* source states a facet or not, the instances it matches ("matches" and a    *)
(* class both mean isinstance; a label is compared), and the subjects of each.  *)
(***************************************************************************)
EXTENDS Integers, Functions

CONSTANTS Labels,           \* models that may be registered
          Instances,        \* records [label, lineage]
          Sources,          \* records [facet, by, model, subjects]
          ExtraFacets,      \* facets that a registration may list itself
          MaxChanges        \* bound: registrations, subscriptions and events

NoFacet == "no facet"   \* the attribute is missing ...
NullFacet == "None"     \* ... or is None: str() of it
ASSUME SourcesAreSources ==
    \A source \in Sources :
        /\ source.by \in {"class", "label", "anything"}
        /\ DOMAIN source.subjects = Instances

VARIABLES
    registrations,   \* _registrations: label -> [label, sources, facets]
    active,          \* registrations that subscriptions were made with
    built,           \* history: what the last change built, and for whom
    changes

vars == <<registrations, active, built, changes>>

-----------------------------------------------------------------------------
States(source) == source.facet \notin {NoFacet, NullFacet}

\* Mutant of Registration: the facets of the sources are not added.
RegistrationAsListed(label, sources, facets) ==
    [label |-> label, sources |-> sources,
     facets |-> IF facets = {} THEN {"object"} ELSE facets]

\* ObjectStreamRegistration, after register() gave facets their default.
Registration(label, sources, facets) ==
    [label |-> label, sources |-> sources,
     facets |-> (IF facets = {} THEN {"object"} ELSE facets)
                    \cup ({s.facet : s \in {t \in sources : States(t)}})]

\* _source_matches
Matches(source, instance) ==
    CASE source.by = "anything" -> TRUE
      [] source.by = "label" -> source.model = instance.label
      [] source.by = "class" -> source.model \in instance.lineage

\* Mutant of Concerns: the subjects of other models are not passed over.
ConcernsAny(subject, registration) == TRUE

Concerns(subject, registration) == subject = registration.label

Event(subject, source, registration) ==
    [subject |-> subject, source |-> source, registration |-> registration,
     facet |-> IF source.facet = NoFacet THEN "object" ELSE source.facet]

\* What one source of a registration makes of an instance.
EventsOf(source, registration, instance) ==
    {Event(subject, source, registration) :
         subject \in {s \in source.subjects[instance] : Concerns(s, registration)}}

\* build_source_events, each event with the registration it comes from.
Events(instance) ==
    UNION {UNION {EventsOf(source, registration, instance) :
                      source \in {s \in registration.sources : Matches(s, instance)}} :
           registration \in Range(registrations)}

\* evaluate(): does a subscription go on with an event?
Accepts(registration, event) ==
    event.subject = registration.label /\ event.facet \in registration.facets

-----------------------------------------------------------------------------
Changed == changes < MaxChanges /\ changes' = changes + 1

\* A second registration of a model is refused (AlreadyRegistered).
Register(label, sources, facets) ==
    /\ Changed
    /\ label \notin DOMAIN registrations
    /\ registrations' =
         [l \in DOMAIN registrations \cup {label} |->
             IF l = label THEN Registration(label, sources, facets) ELSE registrations[l]]
    /\ UNCHANGED <<active, built>>

Unregister(label) ==
    /\ Changed
    /\ label \in DOMAIN registrations
    /\ registrations' = Restrict(registrations, DOMAIN registrations \ {label})
    /\ UNCHANGED <<active, built>>

Clear ==
    /\ Changed
    /\ registrations' = <<>>
    /\ UNCHANGED <<active, built>>

\* registry.get, by subscribe(): NotRegistered is answered with an error.
Subscribe(label) ==
    /\ Changed
    /\ label \in DOMAIN registrations
    /\ active' = active \cup {registrations[label]}
    /\ UNCHANGED <<registrations, built>>

Produce(instance) ==
    /\ Changed
    /\ built' = Events(instance)
    /\ UNCHANGED <<registrations, active>>

Init == registrations = <<>> /\ active = {} /\ built = {} /\ changes = 0

Next ==
    \/ \E label \in Labels, sources \in SUBSET Sources, facets \in SUBSET ExtraFacets :
         Register(label, sources, facets)
    \/ \E label \in Labels : Unregister(label) \/ Subscribe(label)
    \/ Clear
    \/ \E instance \in Instances : Produce(instance)

Spec == Init /\ [][Next]_vars

-----------------------------------------------------------------------------
\* ObjectStreamRegistration.__post_init__: an event that a source built is accepted
\* by every subscription of its model, whatever facets were listed, unless the
\* model was registered anew since, or the source states no facet: the registration
\* counts a missing facet and None as none, the event has "object" and "None".
ProducedFacetsAreDelivered ==
    \A event \in built, registration \in active :
        /\ registration = event.registration
        /\ States(event.source)
        => Accepts(registration, event)

\* build_source_events: a source that several registrations share, and whose
\* subjects are of several models, has each subject announced once.
SubjectsAreAnnouncedOnce ==
    \A d, e \in built : d.source = e.source /\ d.subject = e.subject => d = e
=============================================================================
