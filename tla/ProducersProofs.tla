-------------------------- MODULE ProducersProofs --------------------------
(***************************************************************************)
(* What holds of the events that a registry builds, for every set of models,   *)
(* instances and sources, and for any number of registrations and changes.     *)
(* ProducersInv is inductive; both properties of the runs follow from it.      *)
(***************************************************************************)
EXTENDS Producers, TLAPS

-----------------------------------------------------------------------------
(* The inductive invariant                                                 *)

\* ObjectStreamRegistration.__post_init__: a registration accepts every facet that
\* one of its sources states.
Complete(registration) ==
    \A source \in registration.sources :
        States(source) => source.facet \in registration.facets

\* The registry keeps a model under its own label, complete; an event belongs to
\* one registration of its subject, and a change saw one registration of a model.
ProducersInv ==
    /\ \A l \in DOMAIN registrations :
         registrations[l].label = l /\ Complete(registrations[l])
    /\ \A e \in built :
         /\ e.source \in e.registration.sources
         /\ e = Event(e.registration.label, e.source, e.registration)
         /\ Complete(e.registration)
    /\ \A d, e \in built :
         d.registration.label = e.registration.label => d.registration = e.registration

\* A registration keeps the label it was given and accepts the facets that its
\* sources state (ObjectStreamRegistration.__post_init__).
LEMMA RegistrationIsComplete ==
    ASSUME NEW label, NEW sources, NEW facets
    PROVE  /\ Registration(label, sources, facets).label = label
           /\ Complete(Registration(label, sources, facets))
BY DEF Registration, Complete

\* What build_source_events makes: events of the model a registration is of, from
\* one of the sources of that registration.
LEMMA EventsComeFromRegistrations ==
    ASSUME NEW instance, NEW e \in Events(instance)
    PROVE  \E l \in DOMAIN registrations :
               /\ e.registration = registrations[l]
               /\ e.source \in registrations[l].sources
               /\ e = Event(registrations[l].label, e.source, registrations[l])
<1>1. PICK registration \in Range(registrations) :
          \E source \in registration.sources : e \in EventsOf(source, registration, instance)
  BY DEF Events
<1>2. PICK source \in registration.sources : e \in EventsOf(source, registration, instance)
  BY <1>1
<1>3. PICK subject : /\ Concerns(subject, registration)
                     /\ e = Event(subject, source, registration)
  BY <1>2 DEF EventsOf, Event
<1>4. e = Event(registration.label, source, registration)
  BY <1>3 DEF Concerns
<1>5. e.registration = registration /\ e.source = source
  BY <1>4 DEF Event
<1>6. PICK l \in DOMAIN registrations : registration = registrations[l]
  BY DEF Range
<1> QED
  BY <1>2, <1>4, <1>5, <1>6

-----------------------------------------------------------------------------
\* The registry stays keyed by label and complete when models are registered and
\* unregistered, and every event built is of one complete registration.
LEMMA ProducersInvIsInvariant == Spec => []ProducersInv
<1>1. Init => ProducersInv
  <2> SUFFICES ASSUME Init PROVE ProducersInv
    OBVIOUS
  <2>1. DOMAIN registrations = {} /\ built = {}
    BY DEF Init
  <2> QED
    BY <2>1 DEF ProducersInv
<1>2. ProducersInv /\ [Next]_vars => ProducersInv'
  <2> SUFFICES ASSUME ProducersInv, [Next]_vars
               PROVE  ProducersInv'
    OBVIOUS
  <2> DEFINE Keyed == \A l \in DOMAIN registrations :
                          registrations[l].label = l /\ Complete(registrations[l])
  <2>0. Keyed
    BY DEF ProducersInv
  <2>1. ASSUME NEW label \in Labels, NEW sources \in SUBSET Sources,
               NEW facets \in SUBSET ExtraFacets, Register(label, sources, facets)
        PROVE  ProducersInv'
    <3>1. Keyed'
      BY <2>0, <2>1, RegistrationIsComplete DEF Register, Complete
    <3>2. UNCHANGED built
      BY <2>1 DEF Register
    <3> QED
      BY <3>1, <3>2 DEF ProducersInv, Event, Complete
  <2>2. ASSUME NEW label \in Labels, Unregister(label)
        PROVE  ProducersInv'
    <3>1. Keyed'
      BY <2>0, <2>2 DEF Unregister, Restrict, Complete
    <3>2. UNCHANGED built
      BY <2>2 DEF Unregister
    <3> QED
      BY <3>1, <3>2 DEF ProducersInv, Event, Complete
  <2>3. CASE Clear
    <3>1. DOMAIN registrations' = {}
      BY <2>3 DEF Clear
    <3>2. UNCHANGED built
      BY <2>3 DEF Clear
    <3> QED
      BY <3>1, <3>2 DEF ProducersInv, Event, Complete
  <2>4. ASSUME NEW instance \in Instances, Produce(instance)
        PROVE  ProducersInv'
    <3>1. built' = Events(instance) /\ UNCHANGED registrations
      BY <2>4 DEF Produce
    <3>2. Keyed'
      BY <2>0, <3>1 DEF Complete
    <3>3. \A e \in built' : \E l \in DOMAIN registrations :
              /\ e.registration = registrations[l]
              /\ e.source \in registrations[l].sources
              /\ e = Event(registrations[l].label, e.source, registrations[l])
      BY <3>1, EventsComeFromRegistrations
    <3>4. \A e \in built' :
              /\ e.source \in e.registration.sources
              /\ e = Event(e.registration.label, e.source, e.registration)
              /\ Complete(e.registration)
      BY <2>0, <3>3
    <3>5. \A d, e \in built' :
              d.registration.label = e.registration.label => d.registration = e.registration
      BY <2>0, <3>3
    <3> QED
      BY <3>2, <3>4, <3>5 DEF ProducersInv, Event, Complete
  <2>5. CASE (\E label \in Labels : Subscribe(label)) \/ UNCHANGED vars
    BY <2>5 DEF Subscribe, vars, ProducersInv, Event, Complete
  <2> QED
    BY <2>1, <2>2, <2>3, <2>4, <2>5 DEF Next
<1> QED
  BY <1>1, <1>2, PTL DEF Spec

\* An event that a source with a facet built is accepted by every subscription made
\* with the registration it came from, whatever facets the model listed.
THEOREM StatedFacetsAreDelivered == Spec => []ProducedFacetsAreDelivered
<1>1. ProducersInv => ProducedFacetsAreDelivered
  <2> SUFFICES ASSUME ProducersInv, NEW e \in built, States(e.source)
               PROVE  Accepts(e.registration, e)
    BY DEF ProducedFacetsAreDelivered
  <2>1. /\ e.source \in e.registration.sources
        /\ e = Event(e.registration.label, e.source, e.registration)
        /\ Complete(e.registration)
    BY DEF ProducersInv
  <2>2. e.subject = e.registration.label /\ e.facet = e.source.facet
    BY <2>1 DEF Event, States
  <2> QED
    BY <2>1, <2>2 DEF Complete, Accepts
<1> QED
  BY <1>1, ProducersInvIsInvariant, PTL

\* A source that several registrations share announces each subject once in a
\* change.
THEOREM SharedSourcesAnnounceOnce == Spec => []SubjectsAreAnnouncedOnce
<1>1. ProducersInv => SubjectsAreAnnouncedOnce
  <2> SUFFICES ASSUME ProducersInv, NEW d \in built, NEW e \in built,
                      d.source = e.source, d.subject = e.subject
               PROVE  d = e
    BY DEF SubjectsAreAnnouncedOnce
  <2>1. /\ d = Event(d.registration.label, d.source, d.registration)
        /\ e = Event(e.registration.label, e.source, e.registration)
    BY DEF ProducersInv
  <2>2. d.subject = d.registration.label /\ e.subject = e.registration.label
    BY <2>1 DEF Event
  <2>3. d.registration = e.registration
    BY <2>2 DEF ProducersInv
  <2> QED
    BY <2>1, <2>3
<1> QED
  BY <1>1, ProducersInvIsInvariant, PTL
=============================================================================
