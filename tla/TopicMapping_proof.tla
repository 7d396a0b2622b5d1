------------------------- MODULE TopicMapping_proof -------------------------
(***************************************************************************)
(* That the variables of TopicMapping keep their types, and that the bridge *)
(* never takes its own resources for resources of ROS1, for every graph.    *)
(***************************************************************************)
EXTENDS TopicMapping, TLAPS

\* An entry that is listed and not the bridge's own is named by a user node.
TodoIsNamed ==
  \A e \in todo : NodeOf(e) \notin Own(KindOf(e)) => <<KindOf(e), NameOf(e)>> \in named

IInv == TypeOK /\ TodoIsNamed /\ OwnIsIgnored

AuxEntries == {<<"publisher", t, Aux>> : t \in Topics}

\* A map stays one when a permitted type is put under a permitted key.
LEMMA PutIsMap ==
  ASSUME NEW map, NEW keys, IsMap(map, keys), NEW e \in keys, NEW type \in MayOffer[e]
  PROVE  IsMap(Put(map, e, type), keys)
BY DEF IsMap, Put

\* A map stays one when keys are removed.
LEMMA WithoutIsMap ==
  ASSUME NEW map, NEW keys, IsMap(map, keys), NEW S
  PROVE  IsMap(Without(map, S), keys)
BY DEF IsMap, Without

\* The empty map is one.
LEMMA EmptyIsMap ==
  ASSUME NEW keys
  PROVE  IsMap(Empty, keys)
BY DEF IsMap, Empty

\* An entry that may be resolved is an entry of a node other than the two.
LEMMA ResolvedIsEntry ==
  ASSUME TypeOK, NEW kind \in Kinds, NEW e \in todo, MayResolve(e, kind)
  PROVE  e \in EntriesOf(kind)
<1>1. KindOf(e) = kind /\ NodeOf(e) \notin Own(kind)
  BY DEF MayResolve
<1>2. e \in Entries \cup AuxEntries
  BY DEF TypeOK, AuxEntries
<1>3. e \notin AuxEntries
  <2>1. SUFFICES ASSUME e \in AuxEntries PROVE FALSE
    OBVIOUS
  <2>2. KindOf(e) = "publisher" /\ NodeOf(e) = Aux
    BY <2>1 DEF AuxEntries, KindOf, NodeOf
  <2> QED BY <1>1, <2>2 DEF Own
<1> QED BY <1>1, <1>2, <1>3 DEF EntriesOf

\* A type of an entry is a type.
LEMMA GraphTypes ==
  ASSUME TypeOK, NEW e \in DOMAIN graph
  PROVE  e \in Entries /\ graph[e] \in MayOffer[e] /\ graph[e] \in Types
BY DEF TypeOK, IsMap, Types, Entries

\* The inductive invariant holds initially.
LEMMA Initially == Init => IInv
<1> SUFFICES ASSUME Init PROVE IInv
  OBVIOUS
<1>1. DOMAIN Empty = {}
  BY DEF Empty
<1>2. TypeOK
  BY <1>1, EmptyIsMap DEF Init, TypeOK
<1> QED BY <1>2 DEF IInv, Init, TodoIsNamed, OwnIsIgnored

\* Whatever one resolution adds to the result is named.
LEMMA ResolvedIsNamed ==
  ASSUME IInv, NEW e \in todo, NodeOf(e) \notin Own(KindOf(e)), NEW type,
         Resolved(e, type)
  PROVE  TodoIsNamed' /\ OwnIsIgnored'
<1>1. todo' \subseteq todo /\ named' = named
  BY DEF Resolved
<1>2. TodoIsNamed'
  BY <1>1 DEF IInv, TodoIsNamed, Own, KindOf, NodeOf, NameOf
<1>3. ASSUME NEW d \in result' PROVE <<d[1], d[2]>> \in named'
  <2>1. CASE d \in result
    BY <1>1, <2>1 DEF IInv, OwnIsIgnored
  <2>2. CASE d = Descriptor(e, type)
    BY <1>1, <2>2 DEF IInv, TodoIsNamed, Descriptor
  <2> QED BY <2>1, <2>2 DEF Resolved
<1> QED BY <1>2, <1>3 DEF OwnIsIgnored

\* Nor does an entry that is left out change any of this.
LEMMA SkippedIsNamed ==
  ASSUME IInv, NEW e \in todo, Skipped(e)
  PROVE  TodoIsNamed' /\ OwnIsIgnored'
BY DEF IInv, Skipped, TodoIsNamed, OwnIsIgnored, Own, KindOf, NodeOf, NameOf

\* Resolving an entry to a type keeps the types of what Resolved changes.
LEMMA ResolvedTypes ==
  ASSUME TypeOK, NEW e \in todo \cap Entries, NEW type \in Types, Resolved(e, type),
         pc = "resolve"
  PROVE  /\ graph' = graph /\ works' \in BOOLEAN /\ pc' = "resolve"
         /\ todo' \subseteq Entries \cup AuxEntries
         /\ result' \subseteq Descriptors /\ mapping' \subseteq Descriptors
         /\ named' \subseteq {<<KindOf(f), NameOf(f)>> : f \in Entries}
<1>1. Descriptor(e, type) \in Descriptors
  BY DEF Descriptors
<1>2. todo \subseteq Entries \cup AuxEntries
  BY DEF TypeOK, AuxEntries
<1> QED BY <1>1, <1>2 DEF TypeOK, Resolved, ros

\* Likewise when it is left out.
LEMMA SkippedTypes ==
  ASSUME TypeOK, NEW e \in todo, Skipped(e), pc = "resolve"
  PROVE  /\ graph' = graph /\ works' \in BOOLEAN /\ pc' = "resolve"
         /\ todo' \subseteq Entries \cup AuxEntries
         /\ result' \subseteq Descriptors /\ mapping' \subseteq Descriptors
         /\ named' \subseteq {<<KindOf(f), NameOf(f)>> : f \in Entries}
<1>1. todo \subseteq Entries \cup AuxEntries
  BY DEF TypeOK, AuxEntries
<1> QED BY <1>1 DEF TypeOK, Skipped, ros

\* What the type invariant says of the graph and of the caches.
GraphOK ==
  /\ IsMap(graph, Entries)
  /\ \A e, f \in DOMAIN graph : KindOf(e) = "service" /\ SameTopic(e, f) => e = f
  /\ works \in BOOLEAN
CachesOK ==
  /\ discovering \subseteq Topics
  /\ IsMap(discovered_subscribers, EntriesOf("subscriber"))
  /\ IsMap(publisher_cache, EntriesOf("publisher"))
  /\ DOMAIN service_cache \subseteq EntriesOf("service")
  /\ \A e \in DOMAIN service_cache : service_cache[e] \in Types

\* One resolution, of whatever kind.
LEMMA ResolveStep ==
  ASSUME IInv, NEW e \in todo, Resolve(e)
  PROVE  IInv'
<1> USE DEF Kinds
<1>0. TypeOK /\ pc = "resolve"
  BY DEF IInv, TypeOK
<1>1. CASE Ignore(e)
  <2>1. Skipped(e) /\ UNCHANGED cache
    BY <1>1 DEF Ignore
  <2>2. CachesOK'
    BY <1>0, <2>1 DEF TypeOK, CachesOK, cache
  <2>3. TypeOK'
    BY <1>0, <2>1, <2>2, SkippedTypes DEF TypeOK, CachesOK, AuxEntries
  <2> QED BY <2>1, <2>3, SkippedIsNamed DEF IInv
<1>2. CASE ResolveSubscriber(e)
  <2>1. e \in EntriesOf("subscriber") /\ NodeOf(e) \notin Own(KindOf(e))
    BY <1>0, <1>2, ResolvedIsEntry DEF ResolveSubscriber, MayResolve
  <2>2. CachesOK'
    BY <1>0, <1>2, <2>1 DEF ResolveSubscriber, TypeOK, CachesOK, Topics
  <2>3. CASE e \in DOMAIN discovered_subscribers
    <3>1. Resolved(e, discovered_subscribers[e]) /\ discovered_subscribers[e] \in Types
      BY <1>0, <1>2, <2>1, <2>3 DEF ResolveSubscriber, TypeOK, IsMap, Types, EntriesOf
    <3>2. TypeOK'
      BY <1>0, <2>1, <2>2, <3>1, ResolvedTypes DEF TypeOK, CachesOK, AuxEntries, EntriesOf
    <3> QED BY <2>1, <3>1, <3>2, ResolvedIsNamed DEF IInv
  <2>4. CASE e \notin DOMAIN discovered_subscribers
    <3>1. Skipped(e)
      BY <1>2, <2>4 DEF ResolveSubscriber
    <3>2. TypeOK'
      BY <1>0, <2>2, <3>1, SkippedTypes DEF TypeOK, CachesOK, AuxEntries
    <3> QED BY <3>1, <3>2, SkippedIsNamed DEF IInv
  <2> QED BY <2>3, <2>4
<1>3. CASE ResolvePublisher(e)
  <2>1. e \in EntriesOf("publisher") /\ NodeOf(e) \notin Own(KindOf(e)) /\ NodeOf(e) # Aux
    BY <1>0, <1>3, ResolvedIsEntry DEF ResolvePublisher, MayResolve, Own
  <2>2. CASE Skipped(e) /\ UNCHANGED publisher_cache
    <3>1. TypeOK'
      BY <1>0, <1>3, <2>2, SkippedTypes DEF ResolvePublisher, TypeOK, AuxEntries
    <3> QED BY <2>2, <3>1, SkippedIsNamed DEF IInv
  <2>3. ASSUME NEW type \in MayOffer[e], Resolved(e, type),
               publisher_cache' = publisher_cache \/ publisher_cache' = Put(publisher_cache, e, type)
        PROVE  IInv'
    <3>1. type \in Types
      BY <2>1, <2>3 DEF Types, EntriesOf
    <3>2. IsMap(publisher_cache', EntriesOf("publisher"))
      BY <1>0, <2>1, <2>3, PutIsMap DEF TypeOK
    <3>3. TypeOK'
      BY <1>0, <1>3, <2>1, <2>3, <3>1, <3>2, ResolvedTypes
      DEF ResolvePublisher, TypeOK, AuxEntries, EntriesOf
    <3> QED BY <2>1, <2>3, <3>3, ResolvedIsNamed DEF IInv
  <2>4. CASE e \in DOMAIN publisher_cache
    <3>1. publisher_cache[e] \in MayOffer[e]
      BY <1>0, <2>4 DEF TypeOK, IsMap
    <3> QED BY <1>3, <2>3, <2>4, <3>1 DEF ResolvePublisher
  <2>5. CASE e \notin DOMAIN publisher_cache
    <3>1. \A type \in PublisherTypes(e) : type \in MayOffer[e]
      BY <1>0, <2>1, GraphTypes DEF PublisherTypes
    <3> QED BY <1>3, <2>2, <2>3, <2>5, <3>1 DEF ResolvePublisher
  <2> QED BY <2>4, <2>5
<1>4. CASE ResolveService(e)
  <2>1. e \in EntriesOf("service") /\ NodeOf(e) \notin Own(KindOf(e))
    BY <1>0, <1>4, ResolvedIsEntry DEF ResolveService, MayResolve
  <2>2. CASE Skipped(e) /\ UNCHANGED service_cache
    <3>1. TypeOK'
      BY <1>0, <1>4, <2>2, SkippedTypes DEF ResolveService, TypeOK, AuxEntries
    <3> QED BY <2>2, <3>1, SkippedIsNamed DEF IInv
  <2>3. ASSUME NEW type \in Types, Resolved(e, type),
               service_cache' = service_cache \/ service_cache' = Put(service_cache, e, type)
        PROVE  IInv'
    <3>1. /\ DOMAIN service_cache' \subseteq EntriesOf("service")
          /\ \A f \in DOMAIN service_cache' : service_cache'[f] \in Types
      BY <1>0, <2>1, <2>3 DEF TypeOK, Put
    <3>2. TypeOK'
      BY <1>0, <1>4, <2>1, <2>3, <3>1, ResolvedTypes
      DEF ResolveService, TypeOK, AuxEntries, EntriesOf
    <3> QED BY <2>1, <2>3, <3>2, ResolvedIsNamed DEF IInv
  <2>4. CASE e \in DOMAIN service_cache
    <3>1. service_cache[e] \in Types
      BY <1>0, <2>4 DEF TypeOK
    <3> QED BY <1>4, <2>3, <2>4, <3>1 DEF ResolveService
  <2>5. CASE e \notin DOMAIN service_cache
    <3>1. \A type \in ServiceTypes(e) : type \in Types
      BY <1>0, GraphTypes DEF ServiceTypes
    <3> QED BY <1>4, <2>2, <2>3, <2>5, <3>1 DEF ResolveService
  <2> QED BY <2>4, <2>5
<1> QED BY <1>1, <1>2, <1>3, <1>4 DEF Resolve

\* Reading the list: whatever is on it and not the bridge's own is named.
LEMMA PollStep ==
  ASSUME IInv, Poll
  PROVE  IInv'
<1>1. TypeOK /\ pc = "poll"
  BY DEF IInv, Poll
<1>2. todo' \subseteq DOMAIN graph \cup {<<"publisher", t, Aux>> : t \in discovering}
  BY DEF Poll, Filtered, Listed
<1>3. todo' \subseteq Entries \cup {<<"publisher", t, Aux>> : t \in Topics}
  BY <1>1, <1>2 DEF TypeOK, IsMap
<1>4. UserEntries \subseteq Entries
  BY <1>1, GraphTypes DEF UserEntries
<1>5. TypeOK'
  BY <1>1, <1>3, <1>4 DEF Poll, TypeOK, ros, cache
<1>6. ASSUME NEW e \in todo', NodeOf(e) \notin Own(KindOf(e))
      PROVE  <<KindOf(e), NameOf(e)>> \in named'
  <2>1. e \in DOMAIN graph
    <3>1. SUFFICES ASSUME e \in {<<"publisher", t, Aux>> : t \in discovering} PROVE FALSE
      BY <1>2
    <3>2. KindOf(e) = "publisher" /\ NodeOf(e) = Aux
      BY <3>1 DEF KindOf, NodeOf
    <3> QED BY <1>6, <3>2 DEF Own
  <2>2. e \in UserEntries
    BY <1>6, <2>1 DEF UserEntries, Own
  <2> QED BY <2>2 DEF Poll
<1>7. TodoIsNamed'
  BY <1>6 DEF TodoIsNamed, Own, KindOf, NodeOf, NameOf
<1>8. result' = {}
  BY <1>1 DEF Poll, TypeOK
<1> QED BY <1>5, <1>7, <1>8 DEF IInv, OwnIsIgnored

\* The graph, the network and a handshake leave the poll alone.
LEMMA RosStep ==
  ASSUME IInv, NEW e \in Entries,
         Handshake(e) \/ Offer(e) \/ Withdraw(e) \/ NetworkChanges
  PROVE  IInv'
<1>1. TypeOK
  BY DEF IInv
<1>2. UNCHANGED <<pc, todo, result, mapping, named>>
  BY DEF Handshake, Offer, Withdraw, NetworkChanges
<1>3. TodoIsNamed' /\ OwnIsIgnored'
  BY <1>2 DEF IInv, TodoIsNamed, OwnIsIgnored, Own, KindOf, NodeOf, NameOf
<1>4. TypeOK'
  <2>1. CASE Handshake(e)
    <3>1. e \in EntriesOf("subscriber") /\ graph[e] \in MayOffer[e]
      BY <1>1, <2>1, GraphTypes DEF Handshake, EntriesOf
    <3>2. IsMap(discovered_subscribers', EntriesOf("subscriber"))
      BY <1>1, <2>1, <3>1, PutIsMap DEF Handshake, TypeOK
    <3> QED BY <1>1, <2>1, <3>2 DEF Handshake, TypeOK, ros
  <2>2. CASE Offer(e)
    <3>1. PICK type \in MayOffer[e] : graph' = Put(Without(graph, Replaced(e)), e, type)
      BY <2>2 DEF Offer
    <3>2. IsMap(graph', Entries)
      BY <1>1, <3>1, PutIsMap, WithoutIsMap DEF TypeOK
    <3>3. DOMAIN graph' = (DOMAIN graph \ Replaced(e)) \cup {e}
      BY <3>1 DEF Put, Without
    <3>4. ASSUME NEW f \in DOMAIN graph', NEW g \in DOMAIN graph',
                 KindOf(f) = "service", SameTopic(f, g)
          PROVE  f = g
      <4>1. CASE f = e /\ g # e
        <5>1. g \in DOMAIN graph /\ g \notin Replaced(e)
          BY <3>3, <4>1
        <5>2. g \in Replaced(e)
          BY <1>1, <3>4, <4>1, <5>1, GraphTypes DEF Replaced
        <5> QED BY <5>1, <5>2
      <4>2. CASE g = e /\ f # e
        <5>1. f \in DOMAIN graph /\ f \notin Replaced(e)
          BY <3>3, <4>2
        <5>2. f \in Replaced(e)
          BY <1>1, <3>4, <4>2, <5>1, GraphTypes DEF Replaced, SameTopic
        <5> QED BY <5>1, <5>2
      <4>3. CASE f # e /\ g # e
        BY <1>1, <3>3, <3>4, <4>3 DEF TypeOK
      <4> QED BY <4>1, <4>2, <4>3
    <3> QED BY <1>1, <2>2, <3>2, <3>4 DEF Offer, TypeOK, cache, SameTopic, KindOf, NameOf
  <2>3. CASE Withdraw(e)
    <3>1. IsMap(graph', Entries) /\ DOMAIN graph' \subseteq DOMAIN graph
      BY <1>1, <2>3, WithoutIsMap DEF Withdraw, TypeOK, Without
    <3> QED BY <1>1, <2>3, <3>1 DEF Withdraw, TypeOK, cache
  <2>4. CASE NetworkChanges
    BY <1>1, <2>4 DEF NetworkChanges, TypeOK, cache
  <2> QED BY <2>1, <2>2, <2>3, <2>4
<1> QED BY <1>3, <1>4 DEF IInv

\* Every step keeps the inductive invariant.
LEMMA Inductive == IInv /\ [Next]_vars => IInv'
<1> SUFFICES ASSUME IInv, [Next]_vars PROVE IInv'
  OBVIOUS
<1>1. CASE Poll
  BY <1>1, PollStep
<1>2. CASE PollFails
  BY <1>2 DEF IInv, PollFails, TypeOK, TodoIsNamed, OwnIsIgnored, ros, cache
<1>3. CASE \E e \in todo : Resolve(e)
  BY <1>3, ResolveStep
<1>4. CASE Finish
  BY <1>4 DEF IInv, Finish, TypeOK, TodoIsNamed, OwnIsIgnored, ros, cache
<1>5. CASE \E e \in Entries : Handshake(e) \/ Offer(e) \/ Withdraw(e)
  BY <1>5, RosStep
<1>6. CASE NetworkChanges
  <2>1. TypeOK' 
    BY <1>6 DEF IInv, NetworkChanges, TypeOK, cache
  <2> QED BY <1>6, <2>1 DEF IInv, NetworkChanges, TodoIsNamed, OwnIsIgnored
<1>7. CASE UNCHANGED vars
  BY <1>7 DEF IInv, TypeOK, TodoIsNamed, OwnIsIgnored, vars, ros, cache
<1> QED BY <1>1, <1>2, <1>3, <1>4, <1>5, <1>6, <1>7 DEF Next

\* The inductive invariant holds of every state that can be reached.
THEOREM Invariance == Spec => []IInv
BY Initially, Inductive, PTL DEF Spec

\* Every variable keeps its type: caches only hold types that their nodes may
\* have, through every change of the graph.
THEOREM TypeCorrect == Spec => []TypeOK
<1>1. IInv => TypeOK
  BY DEF IInv
<1> QED BY <1>1, Invariance, PTL

\* The bridge's own publishers, subscribers and services never come back as
\* resources of ROS1.
THEOREM OwnNeverComesBack == Spec => []OwnIsIgnored
<1>1. IInv => OwnIsIgnored
  BY DEF IInv
<1> QED BY <1>1, Invariance, PTL

=============================================================================
