---------------------------- MODULE TopicMapping ----------------------------
(***************************************************************************)
(* How the bridge reads the ROS1 state: the blocking half of a poll         *)
(* (topic_mapping.rs, resource_cache.rs and the filter of ros1_client.rs).  *)
(* The master lists which node subscribes, publishes or serves what.  Types *)
(* are not listed: they are asked for node by node while the graph goes on  *)
(* changing, and kept in caches that are never cleared.                     *)
(*                                                                          *)
(* An entry of the ROS1 graph is <<kind, name, node>>.  A type stands for   *)
(* the data type with its md5 sum, a descriptor is <<kind, name, type>>.    *)
(***************************************************************************)
EXTENDS FiniteSets

CONSTANTS
  Bridge,      \* the node of the bridge
  Aux,         \* its auxiliary node, that resolves types
  AnyType,     \* the type "*" of what the auxiliary node publishes
  MayOffer     \* the entries that may be in the graph, each with its types

Kinds == {"subscriber", "publisher", "service"}
Entries == DOMAIN MayOffer
Types == UNION {MayOffer[e] : e \in Entries}
KindOf(e) == e[1]
NameOf(e) == e[2]
NodeOf(e) == e[3]
Descriptor(e, type) == <<KindOf(e), NameOf(e), type>>

ASSUME MappingAssumption ==
  /\ \A e \in Entries : KindOf(e) \in Kinds /\ NodeOf(e) # Aux
  /\ Aux # Bridge
  /\ AnyType \notin Types

VARIABLES
  graph,                   \* the entries in ROS1 now, with their types
  works,                   \* do the master and the nodes answer
  discovering,             \* topics with a discovering publisher
  discovered_subscribers,  \* the types of subscribers, as handshakes told
  publisher_cache,         \* the types of publishers resolved so far
  service_cache,           \* the types of services at nodes resolved so far
  pc,                      \* "poll" or "resolve"
  todo,                    \* listed entries that are not resolved yet
  result,                  \* the mapping in the making
  mapping,                 \* what the last poll returned; nothing if it failed
  named                    \* history, during a poll: topics and services that
                           \* a node other than the bridge's own two had

ros == <<graph, works>>
cache == <<discovering, discovered_subscribers, publisher_cache, service_cache>>
vars == <<ros, cache, pc, todo, result, mapping, named>>

EntriesOf(kind) == {e \in Entries : KindOf(e) = kind}

\* Maps with some of the entries as keys.
Empty == [e \in {} |-> AnyType]
Put(map, e, type) ==
  [f \in DOMAIN map \cup {e} |-> IF f = e THEN type ELSE map[f]]
Without(map, S) == [f \in DOMAIN map \ S |-> map[f]]

Init ==
  /\ graph = Empty
  /\ works \in BOOLEAN
  /\ discovering = {}
  /\ discovered_subscribers = Empty
  /\ publisher_cache = Empty
  /\ service_cache = Empty
  /\ pc = "poll"
  /\ todo = {}
  /\ result = {}
  /\ mapping = {}
  /\ named = {}

-----------------------------------------------------------------------------
\* Reading the list of the master.

\* What the master lists: the entries, and the discovering publishers.
Listed == DOMAIN graph \cup {<<"publisher", t, Aux>> : t \in discovering}

SameTopic(e, f) == KindOf(e) = KindOf(f) /\ NameOf(e) = NameOf(f)
Connections(S, e) == {NodeOf(f) : f \in {g \in S : SameTopic(e, g)}}

\* Topics that only the bridge has are left out.
Filtered(S) == {e \in S : Connections(S, e) # {Bridge}}

UserEntries == {e \in DOMAIN graph : NodeOf(e) # Bridge}

Poll ==
  /\ pc = "poll"
  /\ works
  /\ pc' = "resolve"
  /\ todo' = Filtered(Listed)
  /\ named' = {<<KindOf(e), NameOf(e)>> : e \in UserEntries}
  /\ UNCHANGED <<ros, cache, result, mapping>>

\* The error makes the work cycle drop all that it knew of ROS1.
PollFails ==
  /\ pc = "poll"
  /\ ~works
  /\ mapping' = {}
  /\ UNCHANGED <<ros, cache, pc, todo, result, named>>

-----------------------------------------------------------------------------
\* Resolving what is listed: subscribers, then publishers, then services.

IsNext(e) ==
  /\ e \in todo
  /\ \A f \in todo :
       /\ KindOf(e) # "subscriber" => KindOf(f) # "subscriber"
       /\ KindOf(e) = "service" => KindOf(f) = "service"

\* As a mutant: only the resources of the first node are ignored.
Own_NoAux(kind) == {Bridge}

\* Whose resources are ignored.  The auxiliary node only publishes.
Own(kind) == IF kind = "publisher" THEN {Bridge, Aux} ELSE {Bridge}

Resolved(e, type) ==
  /\ todo' = todo \ {e}
  /\ result' = result \cup {Descriptor(e, type)}
  /\ UNCHANGED <<ros, pc, mapping, named>>

\* The error is swallowed: the entry is left out of this mapping.
Skipped(e) ==
  /\ todo' = todo \ {e}
  /\ UNCHANGED <<ros, pc, result, mapping, named>>

Ignore(e) ==
  /\ IsNext(e)
  /\ NodeOf(e) \in Own(KindOf(e))
  /\ Skipped(e)
  /\ UNCHANGED cache

MayResolve(e, kind) ==
  /\ IsNext(e)
  /\ KindOf(e) = kind
  /\ NodeOf(e) \notin Own(kind)

\* The topic gets a discovering publisher, unless it has one.  Subscribers that
\* have shaken hands with it are known.
ResolveSubscriber(e) ==
  /\ MayResolve(e, "subscriber")
  /\ discovering' = IF works THEN discovering \cup {NameOf(e)} ELSE discovering
  /\ IF e \in DOMAIN discovered_subscribers
     THEN Resolved(e, discovered_subscribers[e])
     ELSE Skipped(e)
  /\ UNCHANGED <<discovered_subscribers, publisher_cache, service_cache>>

\* As a mutant: any publisher of the topic answers.
PublisherTypes_ByName(e) ==
  {graph[f] : f \in {g \in DOMAIN graph : SameTopic(e, g)}}

\* What a publisher says of itself, if it is there.
PublisherTypes(e) ==
  IF NodeOf(e) = Aux THEN {AnyType} ELSE {graph[f] : f \in DOMAIN graph \cap {e}}

\* As the cache says; else the node is looked up and asked.
ResolvePublisher(e) ==
  /\ MayResolve(e, "publisher")
  /\ IF e \in DOMAIN publisher_cache
     THEN Resolved(e, publisher_cache[e]) /\ UNCHANGED publisher_cache
     ELSE \/ \E type \in PublisherTypes(e) :
               /\ works
               /\ Resolved(e, type)
               /\ publisher_cache' = Put(publisher_cache, e, type)
          \/ /\ ~works \/ PublisherTypes(e) = {}
             /\ Skipped(e) /\ UNCHANGED publisher_cache
  /\ UNCHANGED <<discovering, discovered_subscribers, service_cache>>

\* What a service of this name says of itself, whichever node provides it.
ServiceTypes(e) == {graph[f] : f \in {g \in DOMAIN graph : SameTopic(e, g)}}

\* As the cache says for that node; else the service is asked, by its name.
ResolveService(e) ==
  /\ MayResolve(e, "service")
  /\ IF e \in DOMAIN service_cache
     THEN Resolved(e, service_cache[e]) /\ UNCHANGED service_cache
     ELSE \/ \E type \in ServiceTypes(e) :
               /\ works
               /\ Resolved(e, type)
               /\ service_cache' = Put(service_cache, e, type)
          \/ /\ ~works \/ ServiceTypes(e) = {}
             /\ Skipped(e) /\ UNCHANGED service_cache
  /\ UNCHANGED <<discovering, discovered_subscribers, publisher_cache>>

Resolve(e) ==
  Ignore(e) \/ ResolveSubscriber(e) \/ ResolvePublisher(e) \/ ResolveService(e)

Finish ==
  /\ pc = "resolve"
  /\ todo = {}
  /\ pc' = "poll"
  /\ mapping' = result
  /\ result' = {}
  /\ named' = {}
  /\ UNCHANGED <<ros, cache, todo>>

-----------------------------------------------------------------------------
\* The ROS1 graph.

\* As a mutant: only the first handshake of a node counts.
Handshake_Once(e) ==
  /\ works
  /\ e \in DOMAIN graph \ DOMAIN discovered_subscribers
  /\ KindOf(e) = "subscriber"
  /\ NameOf(e) \in discovering
  /\ discovered_subscribers' = Put(discovered_subscribers, e, graph[e])
  /\ UNCHANGED <<ros, discovering, publisher_cache, service_cache, pc, todo,
                 result, mapping, named>>

\* A subscriber connects to the discovering publisher of its topic.
Handshake(e) ==
  /\ works
  /\ e \in DOMAIN graph
  /\ KindOf(e) = "subscriber"
  /\ NameOf(e) \in discovering
  /\ discovered_subscribers' = Put(discovered_subscribers, e, graph[e])
  /\ UNCHANGED <<ros, discovering, publisher_cache, service_cache, pc, todo,
                 result, mapping, named>>

\* A service has one provider: the last that registered.
Replaced(e) ==
  IF KindOf(e) = "service" THEN {f \in Entries : SameTopic(e, f)} ELSE {}

Offer(e) ==
  /\ e \notin DOMAIN graph
  /\ \E type \in MayOffer[e] :
       graph' = Put(Without(graph, Replaced(e)), e, type)
  /\ UNCHANGED <<works, cache, pc, todo, result, mapping, named>>

Withdraw(e) ==
  /\ e \in DOMAIN graph
  /\ graph' = Without(graph, {e})
  /\ UNCHANGED <<works, cache, pc, todo, result, mapping, named>>

NetworkChanges ==
  /\ works' = ~works
  /\ UNCHANGED <<graph, cache, pc, todo, result, mapping, named>>

Next ==
  \/ Poll
  \/ PollFails
  \/ \E e \in todo : Resolve(e)
  \/ Finish
  \/ \E e \in Entries : Handshake(e) \/ Offer(e) \/ Withdraw(e)
  \/ NetworkChanges

Spec == Init /\ [][Next]_vars

\* The work cycle polls again and again, a poll comes to its end, and every
\* subscriber connects to every publisher of its topic.
Fairness ==
  /\ WF_vars(Poll \/ (\E e \in todo : Resolve(e)) \/ Finish)
  /\ \A e \in EntriesOf("subscriber") : WF_vars(Handshake(e))

FairSpec == Spec /\ Fairness

-----------------------------------------------------------------------------
\* Properties.

IsMap(map, keys) == DOMAIN map \subseteq keys /\ \A e \in DOMAIN map : map[e] \in MayOffer[e]

Topics == {NameOf(e) : e \in EntriesOf("subscriber")}
Descriptors == {Descriptor(e, type) : e \in Entries, type \in Types}

(***************************************************************************)
(* Every variable keeps its type.  The type that is known of a subscriber   *)
(* or publisher is one that this very node may offer, and a service has one *)
(* provider.                                                                *)
(***************************************************************************)
TypeOK ==
  /\ IsMap(graph, Entries)
  /\ \A e, f \in DOMAIN graph : KindOf(e) = "service" /\ SameTopic(e, f) => e = f
  /\ works \in BOOLEAN
  /\ discovering \subseteq Topics
  /\ IsMap(discovered_subscribers, EntriesOf("subscriber"))
  /\ IsMap(publisher_cache, EntriesOf("publisher"))
  /\ DOMAIN service_cache \subseteq EntriesOf("service")
  /\ \A e \in DOMAIN service_cache : service_cache[e] \in Types
  /\ pc \in {"poll", "resolve"}
  /\ todo \subseteq Entries \cup {<<"publisher", t, Aux>> : t \in Topics}
  /\ result \subseteq Descriptors
  /\ mapping \subseteq Descriptors
  /\ named \subseteq {<<KindOf(e), NameOf(e)>> : e \in Entries}
  /\ pc = "poll" => todo = {} /\ result = {} /\ named = {}

(***************************************************************************)
(* What the bridge itself publishes, subscribes and serves, with either of  *)
(* its nodes, never comes back as a resource of ROS1: a mapping only names  *)
(* what another node had when the list was read.  Otherwise a resource      *)
(* would keep itself bridged when its last user has gone.                   *)
(***************************************************************************)
OwnIsIgnored == \A d \in result : <<d[1], d[2]>> \in named

\* The type by which an entry is known: that of its first resolution for publishers
\* and services, whose caches are never refreshed, and the present one otherwise.
KnownType(e) ==
  CASE e \in DOMAIN publisher_cache -> publisher_cache[e]
    [] e \in DOMAIN service_cache -> service_cache[e]
    [] OTHER -> graph[e]

(***************************************************************************)
(* Once the graph and the network are calm, polls return one descriptor for *)
(* each entry of the graph that is not the bridge's, no less and no more,   *)
(* whatever had come, gone and failed before.  A subscriber has its present *)
(* type, even if it came back with another.  A publisher or service that    *)
(* did so may have the old one: the property only says that it is the one   *)
(* cached.                                                                  *)
(***************************************************************************)
MappingFollowsGraph ==
  <>[][FALSE]_graph /\ <>[]works =>
    <>[](mapping = {Descriptor(e, KnownType(e)) : e \in UserEntries})

=============================================================================
