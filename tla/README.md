# zenoh-plugin-ros1 in TLA+

`zenoh-plugin-ros1` bridges ROS1 systems over Zenoh. Each bridge polls its own
ROS master for topics and services, tells the other bridges what it found by
*beaconing* keys over Zenoh, and, for every topic that its configuration and
the two sides call for, forwards messages. This directory holds a model of the
part that decides *what is bridged when*: the work cycle with its reading of
the ROS graph, the storage of bridges and the discovery protocol below them;
of several bridges in one network; of what a bridge forwards from Zenoh to
ROS1; and of the life of the plugin in its process.

Paths below are relative to `src/zenoh-plugin-ros1/src/ros_to_zenoh_bridge/`.

## The system

| component | source | state | operations |
|---|---|---|---|
| plugin, bridge handle | `../lib.rs`, `../ros_to_zenoh_bridge.rs` | the run flag, the task handle | start, stop, drop |
| work cycle | `ros1_to_zenoh_bridge_impl.rs` | the snapshot in hand, the status, the pace | poll, apply, clean up, end; two discovery callbacks |
| storage | `bridges_storage.rs` | four maps of topic bridges behind a mutex | `receive_ros1_state`, `complementary_entity_discovered`, `..._lost`, `clear` |
| topic bridge | `topic_bridge.rs`, `bridge_type.rs`, `bridging_mode.rs` | two flags, a declaration, a bridge | set either flag; recalculate both |
| subscription | `aloha_subscription.rs` | a map of keys, active or idle, behind a tokio mutex | two loops: hear beacons, find silent keys |
| declaration | `aloha_declaration.rs` | a count of heard beacons, a flag for its publishing task | monitor task, publishing tasks, drop |
| discovery | `discovery.rs`, `topic_utilities.rs`, `topic_descriptor.rs` | none of its own | format and parse keys, build declarations and the subscription |
| topic mapping, cache | `topic_mapping.rs`, `resource_cache.rs` | three caches of data types | resolve the system state of the master to descriptors |
| ROS client | `ros1_client.rs` | its name | filter its own nodes; create publishers, subscribers, services |
| abstract bridge | `abstract_bridge.rs`, `zenoh_client.rs` | the two ends of one bridge | forward samples, queries and replies |
| master control | `ros1_master_ctrl.rs` | a global child process | start and stop a ROS master |
| environment | `environment.rs` | the environment variables of the process | set at each start of the plugin; read by whoever needs a value, whenever it does |
| standalone bridge | `zenoh-bridge-ros1/src/main.rs` | its process | start the plugin once, end on Ctrl-C |

How they interact. The work cycle runs as one task. It reads the ROS state on a
blocking thread *without* the storage's mutex and applies it later under the
mutex. The subscription is a task of its own; its callbacks, awaited while its
own map is locked, take the storage's mutex and change the same entries. A
topic bridge makes two calls that may fail, to declare the topic to the other
bridges and to create the bridge. A declaration beacons its key once a second
from a publishing task; all declarations of one key (in several bridges) hear
each other and toss coins so that, most of the time, only one of them beacons.
What a bridge bridges appears in its ROS system, which it polls itself.
A subscription takes a key for lost after three seconds without a beacon.

A start of the plugin copies its configuration into the environment of the
process, may run a rosmaster, and spawns the work cycle; a stop kills the
rosmaster first and does not wait for the work cycle.

What is hard about it: two owners of one entry (polls and callbacks) in any
order and with stale snapshots; calls that fail in the middle of a
recalculation and are not retried; a failing master; a mutex that is let go
between two passes over one map; flags shared with tasks that have not looked
at them yet; beacons that get lost; starts that fail halfway with state that is
global to the process; coin tosses and random waits whose worst case decides whether a
live topic is reported lost. `PROJECT.json` lists each hazard at its line.

What makes each component correct:

* topic bridge: declared exactly while in ROS1, bridged exactly while its mode
  and flags ask for it, as far as the calls succeed; a working bridge is never
  replaced;
* storage: an entry exactly for what the last snapshot or a live announcement
  names; no callback undone by an older snapshot; a change reported if and only
  if there is one;
* work cycle: recovers after any failure of the master; topics converge;
* subscription: callbacks never overlap; no key forgotten while announced,
  declared twice, or lost while fresh; silent keys are lost in the end;
* declaration: a declared key is never silent for too long, an undeclared one
  falls silent; one beacon per period in the end;
* topic mapping: what is known of a node is of that node; nothing of the
  bridge's own nodes comes back; polls converge to the graph, with the types that
  were cached;
* forwarding: no job is done twice, overtaking is bounded, nothing starves while
  a thread is left;
* network of bridges: what a bridge takes for present elsewhere is what its
  subscription knows of; in the end each bridges what users of its own system and
  of the other bridges ask for, as far as it may know, and nothing else;
* discovery as a whole: a key that is declared is announced and not reported
  lost, a lost beacon does not change that, one that is not declared is lost in
  bounded time;
* plugin: the rosmaster that a start runs is kept until a stop and stopped by
  it, whatever fails in between; all bridges that go on follow one ROS master;
  dropped ones end.

## Modules

| module | models | notes |
|---|---|---|
| `TopicBridge` | one `TopicBridge` | pure operators; a resource is `<<b_type, topic>>`, a topic stands for a whole `TopicDescriptor` |
| `BridgesStorage` | `BridgesStorage` | EXTENDS `TopicBridge`; the four maps are one function on the resources that have an entry |
| `BridgeTable` | what the storage promises | abstract specification: two views and two sets reconciled with them |
| `WorkCycle` | the run loop, the callbacks, stop | EXTENDS `BridgesStorage`; `Table` is the refinement mapping to `BridgeTable` |
| `AlohaSubscription` | both loops of a subscription | untimed: the accumulate period may end at any time |
| `AlohaDeclaration` | all declarations of one key | discrete time, `Period` ticks to the beacon period |
| `AlohaDiscovery` | declarations and a subscription | EXTENDS `AlohaDeclaration` and takes a subscription by INSTANCE, in one time; names of its own that a declaration has too begin with `Discovery` |
| `BridgeNetwork` | several bridges and their discovery keys | EXTENDS `BridgesStorage`; a poll is one step, which may fail, calls succeed; report and retain pass are two steps |
| `TopicMapping` | topic mapping, resource cache, the client's filter | one poll, entry by entry, against a changing graph |
| `Forwarding` | service calls and samples from Zenoh to ROS1 | jobs on the blocking threads of the runtime |
| `Lifecycle` | starts, stops and failures of the plugin | its rosmaster, its settings and the work cycles it leaves behind |
| `MC...` | constants of small instances | |
| `..._proof` | theorems and their lemmas | |

### WorkCycle

`Poll` is the flag test, the read of the ROS state on the blocking thread and
the status callback; `Receive` is `receive_ros1_state` under the mutex with the
choice of the next sleep; `Cleanup` is the error branch. `Stop` may happen at
any time; the loop sees it in `Exit`. `OnDiscovered` and `OnLost` are the two
callbacks: they run between any two of these steps. The snapshot `ros1_state`
lives from `Poll` to `Receive` and is as stale as the steps in between make it.
A snapshot is read in one step here. `TopicMapping` shows what it really is: the
list of the master, resolved entry by entry while the graph changes. `WorkCycle`
only needs that it is some set of resources when it speaks of safety, and the
current set once the graph is calm when it speaks of convergence. After the
loop ends the discovery task may go on for a while with the storage in its
callbacks (`DiscoveryEnds` is when it stops). Every call that may fail has its
outcome chosen per resource (`Outcomes`); `reliable` says whether they succeed
at the moment. `OnLost` is also enabled for resources that are not announced,
as the counterexample of `LostForGood` shows that this happens. Left out: the statistics
callback, which does nothing in the production build, and `clients`, which
nothing in ROS1 lists (`IsPolled`).

### AlohaSubscription

One step per stretch of code between two awaits. `lock` is the tokio mutex: it
is fair, so a task that releases it hands it to the other if that one waits
(`ReleasedBy...`, `Reacquired`). The guards of the three uses in
`accumulating_task` are temporaries that live to the end of their statement:
one for the reset, one for the whole report loop, one for the retain pass, and
between the last two the mutex is free. `announced` is what the users of the
callbacks believe; `fresh` is a history of keys handled since the last reset.
`RecvFails` is the error arm of receiving: it is logged and the loop goes on.

### AlohaDeclaration and AlohaDiscovery

Each declaration has a monitor (`monitor`, `wake`, `remote_beacons`) and any
number of publishing tasks: `tasks[d][i]` of them go on in `i` ticks. They are
counted up to `MaxTasks`. `remote_beacons` is a BOOLEAN as only zero is ever
compared. Tasks due at one tick take turns in any order before `Tick`, so every
race between timers that end together is in the model. Sleeps take exactly as
long as they say, and declaring a publisher or a subscriber takes no time. In
`AlohaDeclaration` beacons are never lost and arrive at once: its bounds are
those of a perfect network. `silence`, `orphaned` and `dropped` are history, the
first two up to a bound. In `AlohaDiscovery` the beacon goes into the channel
of the subscriber as well (`inbox`), the accumulator's sleep lasts three
periods (`accumulate_left`), and no time passes while either loop has work.
There the network may drop a beacon (`BeaconLost`), on its way to the subscriber
or to everybody, as the code sends them best effort. `missed` counts them since
the last reset, `steady` are the declarations that were told to beacon ever
since, `flawless` says that none was ever lost; all three are history.

### BridgeNetwork

Each bridge has users in a ROS1 system of its own (`users`), a storage, the keys
that it beacons at present (`beaconing`) and a subscription: the keys in its map
(`tracked`) and those whose loss was reported and that wait for the retain pass
(`leaving`). `forgotten` is history: keys in the map whose resource the storage was
told to forget since they were announced. A key is `<<bridge_namespace, resource_class, topic>>`, as in
`discovery.rs`; `Shared` is the intersection of two namespaces, `Hears` says which
keys the key expression of `RemoteResources::new` matches, `ParseFormat` gives
the resource back and ignores the namespace, as the code does. `Listed` is what
the master lists for a bridge, with what the bridge itself creates in ROS1
(`InRos1`), and `Ros1State` filters that. Whoever declares a key may leave it to
others that beacon it (`FallSilent`) and starts again if it hears nobody
(`StartAgain`): the turns of `AlohaDeclaration` without its time. A key may be
lost as soon as nobody else beacons it. `OnLost` is the report, which the storage
follows at once; `Retain` takes the key out of the map later, or keeps it if it is
beaconed again by then, and only a key that is not in the map is announced
(`OnDiscovered`). `PollFails` is the error arm of the loop: it clears the storage
and leaves the subscription as it is. `Crash` and `Restart` are the end and
the start of the process of a bridge: all its state is in memory.

### TopicMapping

An entry of the ROS graph is `<<kind, name, node>>`; `graph` gives each present
entry a type, which stands for data type and md5 sum. `Poll` reads the list and
filters it, then each `Resolve(e)` is one step of the three nested loops
(subscribers, publishers, services, in this order, nodes of a kind in any
order), `Finish` returns the mapping. The exchange with a node is one step that
fails while `works` is false or if the node no longer has the topic. The three
caches are partial functions, like the maps of the code: a publisher by topic
and node, a service by name *and the node of the list* though it is asked by
name only, subscribers by what their handshakes with the discovering publisher
told. A handshake may come at any time while the subscriber is there.

### Forwarding

Queries, samples and the polls of the work cycle are jobs in one queue for
`Threads` blocking threads: this is the plugin loaded by zenohd, where all
tasks use the runtime of `lib.rs`; a standalone bridge has more than one pool.
`caller` is what the client of the bridged service on another host sees,
`query` is the query as the service bridge holds it. A query may time out at
any time (`ReceiveFails`), and may have been lost with its queryable. A service
may hang for good (`hung`), and then keeps its thread.

### Lifecycle

`plugin` is where the one call of zenohd is that starts or drops the plugin;
such calls do not overlap. `Start` copies the entries of the configuration that
are `given` into `env`, the environment of the process; `StartMaster` is
`with_ros1_master` (its port taken, its process dies at once), `SessionFails` and
`MasterFails` are the early returns, `StartPanics` is the failed assertion.
`ROSMASTER` is the static of that name: it outlives the plugin. Each bridge that
was made has a `flag` and a `cycle`: `SetUp` reads the environment and makes the ROS
nodes, `Round` is a poll with what follows (`WorkCycle` has its details), and
`DropBridge` clears the flag. `StopMaster` comes before it, since Rust runs the
`drop` of the instance before those of its fields. `Restart` is the end of a
process in any state and the start of the next: of the standalone bridge on
Ctrl-C, whose `main` returns without stopping the plugin, or of zenohd. ROS masters of others may
start on a free port, and all may end.

## Runs

| run | checks | shows |
|---|---|---|
| `WorkCycleSafety` | `TypeOK`, `EntriesFollowViews`, `BridgesFollowFlags`, `PaceFollowsChange`, `RefinesBridgeTable` | with failing calls, stale snapshots, master failures and stops, storage and flags follow the two views, and every step is a step of `BridgeTable` |
| `WorkCycleReliable` | `BridgesFollowFlags`, `LocalTopicsConverge`, `AutoBridgesLocalTopics` | if no call ever fails nothing needed is left out, and local topics converge and are bridged under a fair loop, after any failures of the master |
| `ClearedByMasterFailure` | `AutoBridgesDiscoveredTopics` (violated) | one failed poll forgets remote topics that are never announced again |
| `AlohaSubscription` | `TypeOK`, `CallbacksExclude`, `AnnouncedAreTracked`, `AnnouncedOnce`, `FreshIsNotLost`, `SilentKeyIsLost`, `DroppedSubscriptionEnds` | the two loops at every await, two keys |
| `LostForGood` | `HeardKeyIsAnnounced` (violated) | a beacon between the report and the retain pass keeps a key from being announced again |
| `AlohaDeclaration` | `TypeOK`, `LiveKeyIsHeard`, `SilenceIsShort`, `OrphansFallSilent` | worst cases over all coins, waits and drops of three declarations |
| `AlohaDiscovery` | `DiscoveryTypeOK`, `DeclaredKeyIsAnnounced`, `LossMeansSilence`, `OneLossIsTolerated`, `UndeclaredKeyIsLost` | when keys are announced and lost, in periods, with beacons that get lost |
| `BridgeNetwork` | `TypeOK`, `StorageFollowsDiscovery`, `NetworkConverges` | four bridges that crash and restart, with failing polls and beacons between report and retain pass: each takes for present what it knows of; in the end what users ask for is bridged, but for what was forgotten or may not be heard, and nothing else |
| `DeafToShared` | `PeersAreHeard` (violated) | a bridge cannot know that another has a resource that it beacons itself |
| `TopicMapping` | `TypeOK`, `OwnIsIgnored`, `MappingFollowsGraph` | every interleaving of a poll with the graph and with failures; convergence to the present nodes, with the last type of a subscriber and the first of a publisher or service |
| `Forwarding` | `TypeOK`, `EachOnce`, `FewAreOvertaken`, `NothingStarves` | calls, samples and polls on a full pool, with hanging services |
| `Lifecycle` | `TypeOK`, `AssertionsHold`, `MasterHasOwner`, `OneMaster`, `DroppedBridgesEnd` | starts and stops in any order, failing at any step, with changing settings, two ports and a process that ends at any time |

Bounds. Resources never interact, except through the lock and the snapshot, so
one topic with two to three resources on each side covers each mode, each kind
of entry and every mix of owners; `WorkCycleReliable` has the combinations
(a disabled resource, clients) that `WorkCycleSafety` has not. Two keys suffice
for a subscription: one whose callback runs and one that is swept. Two
declarations are enough for everyone to fall silent together, three for takers
of turns. `Period = 3` is the least at which random waits add up to more than
a subscription's patience; with `Period = 2` the worst silence is five ticks,
less than six. `AlohaDeclaration` has `Period = 5`, so that the bound of
`SilenceIsShort`, which is met exactly, is not an accident of small numbers; the
declarations are interchangeable, hence the symmetry. `MaxTasks = 2` tells one publishing task from several.
`MaxInbox = 2` only orders steps of one tick, since the channel is empty before
time goes on. `MaxMissed = 1` is as many lost beacons as do no harm: of the
three that a sleep of the accumulator spans, the first and the last may fall on
the wrong side of its ends. A second loss can hurt, and is outside what the
properties promise; the theorems have any bound.

`BridgeNetwork` has four bridges. The first has the default namespace `*`: it hears
all others and all hear it. The second may have the same publisher, under a key of
its own name that intersects with the first's, so that either may fall silent for
the other, and the third has that name too and hears both. The fourth, of another
name, hears the first only, and so loses it while that leaves its key to the
second. One topic is enough, since resources of different topics never meet, and
mode `auto` is the one in which a wrong flag shows as a wrong bridge.
`DeafToShared` has two bridges of the default namespace and mode `lazy_auto`.

`TopicMapping` has one subscriber and a user's publisher, either of which may come
back with another type, the bridge's publisher of their topic and one service:
each kind, each cache, stale types, and topics that only the bridge, only its
auxiliary node or both still have.
`Forwarding` has two threads, so that both can hang, and three samples, the
least at which two could be overtaken at once. `Lifecycle` makes three bridges in
a process, so that work cycles of two earlier starts meet the current one, and
has two ports, one to change to.

Deadlock is not checked: a stopped bridge, a dropped subscription and a system
without declarations may rest.

Fairness. `WorkCycle`: weak fairness of the loop's own steps; it is a spawned
task, its timer fires and whoever holds the mutex returns it. Nothing is
assumed of discovery, ROS or the user. `AlohaSubscription`: weak fairness of
either loop and of each callback, which is awaited; beacons need not come, the
subscription need not be dropped. `BridgeNetwork`: a poll
succeeds in the end once none fails any more, each
subscription notices who beacons and who does not, and a key that is declared
does not stay silent, which is what `AlohaDeclaration` and `AlohaDiscovery`
show; that coins fall heads, that bridges are restarted and that users come is
not assumed.
`TopicMapping`: polls go on, and a subscriber connects to every publisher of
its topic, the discovering one included; this is what ROS1 subscribers do.
`Forwarding`: threads and tasks run, polls end, services that do not hang answer;
no query has to time out; clients need not call, samples need not come.
`Lifecycle`: work cycles run and their polls return, and a drop that has begun completes; nobody has to
start, stop or end anything.

## Disagreements found

1. **Cleared by a failure of the master.** `cleanup` clears the whole storage,
   remote announcements included, but the subscription keeps counting those
   keys as announced: a remote topic is not bridged again until its key is lost
   and comes back.
2. **Lost for good.** A beacon that arrives while losses are reported marks a key
   active that was just reported lost. It stays in the map, so later beacons
   only update it and never declare it again: as long as they come in time, the
   bridge takes a live topic for lost. If the key falls silent for a period its
   loss is reported a second time.
3. **Deaf to shared keys.** Bridges that have the same resource share one key,
   only one of them beacons it, and that one does not hear itself: it takes the
   others' resource for lost. In mode `lazy_auto` its subscribers stay
   unbridged while another bridge has a publisher for them. The trace needs neither
   a failing poll nor a beacon in the gap.

`BridgeNetwork` has the causes of all three, and `NetworkConverges` says how far they
reach: in the end a bridge misses only what it was made to forget while the key
stayed in its map (1 and 2) and what it may not hear (3, see `Audible`). Each
exception is needed: without either TLC finds the property violated.

Seen while modelling, without a run of its own: `aloha_wait` gives an attempt to
start again up when a beacon was heard, without resetting the count, so the same
beacon also costs the next check; if its sender was dropped meanwhile the key is
silent for up to nearly four periods (`SilenceIsShort`), subscriptions wait for
three, and a declared key is reported lost; a start whose session fails leaves its rosmaster
running and its handle kept, so the next start panics in its assertion, which
is why `AssertionsHold` makes an exception; a start whose configuration leaves an
entry out gets the value that an earlier start of the process has set, where
`DEFAULT_CONFIG.json5` promises the default; a rosmaster outlives a process
that ends without a drop; a work cycle whose nodes cannot be made leaves the
plugin on without a bridge; a work cycle that was told to stop before its task first ran
still makes its nodes, with the settings of the next start; `recalc_bridging` runs when a flag changes,
so a bridge whose creation failed stays missing as long as the topic stays,
against what mode `auto` promises, and so do failed declarations
(`AutoBridgesLocalTopics` and `AutoBridgesDiscoveredTopics` therefore speak of runs
in which no call fails); a publisher that comes back with another type under the
same node keeps its first one, so `MappingFollowsGraph` promises cached types only; errors of a ROS1 service reach the client as ordinary
replies; with as many hanging services as blocking threads polls stop; publishing tasks
share one flag, so falling silent and starting again before the old task wakes
leaves two of them running; a service that moves to another node between the
list of the master and its resolution is cached with the new node's type under
the old node; a bridge of namespace `*` that hears one resource from bridges of
two other namespaces forgets it when one of the keys is lost; such a bridge also
falls silent when it hears its resource from a bridge of another namespace,
though bridges of a third one do not hear that, and then take the resource for
lost. The run of `BridgeNetwork` has both.

## Proofs

Proved with TLAPS for all values of the constants:

* `AlohaSubscription_proof`: `TypeOK` and the four safety invariants of the run.
  The invariant `IInv` adds to them: one sample is in hand at most
  (`OneHeard`), fresh keys are active (`FreshIsActive`: this is what makes
  resets and marks safe), and while losses are reported exactly idle keys are
  on the list (`IdleIsReported`: only with the mutex held, hence
  `CallbacksExclude`, is it stable).
* `BridgesStorage_proof`: lemmas about the operators. `Recalc`, `SetPresent`,
  `SetComplementary` and `UnsetComplementary` say what a setter does to one
  entry. With `Represents(t, S, K)` (table `t` has the entries and flags that
  the views `S` and `K` ask for) and `Good(t, always)` (every bridge justified,
  and none missing if calls never fail), `DiscoveredRepresents`,
  `LostRepresents` and `ReceivedRepresents` say that each operation leads from
  views to views; `ReportsChange` that `receive_ros1_state` returns whether the
  table changes; the `...Continues` lemmas that nothing established is given up
  while needed.
* `WorkCycle_proof`: `IInv == TypeOK /\ Represents(bridges, seen, known) /\ Good`
  is inductive. `EntriesFollowViews` alone is not: it says nothing of the type of
  entries that a later step recalculates. From it follow
  `StorageFollowsViews`, `BridgesAreJustified`, `PaceIsRight` (an action
  property) and `StorageImplementsTable`, that `WorkCycle` implements
  `BridgeTable`: `StepReconciles` and `ViewStep` map each step of the loop and
  of the callbacks to `SeeRos1`, `SeeZenoh`, `Forget` or a stutter.
* `TopicMapping_proof`: `TypeOK` and `OwnIsIgnored`. The invariant adds
  `TodoIsNamed`: whatever is still to be resolved and not the bridge's own is
  named by another node; `OwnIsIgnored` alone speaks only of what was resolved.
* `Lifecycle_proof`: all four invariants of the run. The invariant adds to them
  `MasterIsAsked` (from the start of the rosmaster to the drop the handle is that of
  the port the environment names, which is why `without_ros1_master` never
  fails its assertion) and `NoPortBefore` (a bridge just made follows nothing
  yet). That one bridge at most is told to go on is part of `TypeOK`.
* `Forwarding_proof`: all three safety invariants of the run. A step queues a new
  job, starts the first one queued or ends one that runs; `Queue`, `StartsFirst`
  and `Ends` say so much of the pool once. `EachOnce` needs to know where a sample
  may be: on its way or published, never both (`SamplesInv`). `FewAreOvertaken` needs
  that the queue is in order and behind everything that was started (`InOrder`);
  then whatever a sample overtakes when it is sent holds another thread.
* `BridgeNetwork_proof`: `TypeOK` and `StorageFollowsDiscovery`, for any namespaces.
  The invariant says of each storage, in the words of `BridgesStorage_proof`, that it
  represents its own flags (`Stored`), so that its lemmas apply to every operation of
  every bridge. `FlagsStep` then lists what a step may do to the flags of a bridge
  and to what it knows of, the keys in the map that are not forgotten: nothing; add
  one key and set its flag; drop both sides of one resource; clear all. That two
  keys may tell of one resource, where `*` meets names, is why a loss forgets every
  key of its resource. `NoGhostIsLeft` is the half that needs no history: whatever a bridge takes
  for present elsewhere has a key in the map. `OnlyLossesAndFailures` says the other
  half without it: a flag for Zenoh is given up only in a poll that fails, a crash
  or a loss of that resource, never by a poll that succeeds. `ForgottenByItself` has
  a hypothesis, `OneNamespace`, which the default namespace satisfies everywhere: there keys
  and resources are one to one (`CounterpartIsUnique`) and no key is forgotten for
  another.
* `AlohaDiscovery_proof`, first part, about `AlohaDeclaration` alone: all four
  invariants of its run, for any period, any number of declarations and any
  sessions. `TasksGoOn` (whoever is told to beacon has a publishing task) ties the
  flag to a clock. `BeaconsSoon` and `SilenceIsBounded` bound the sum of that clock,
  or of the monitor's, and the silence, once for each phase of a monitor: this is
  where the 4 periods less two ticks come from, which the run meets exactly.
  `KeyIsSpoken` is the sharper bound without drops, where at any time some
  declaration `Speaks`: it beacons, or it is silent, has heard nobody since its last
  look and will start in time if that stays so. `OrphansFade` is the same for what is left after the last drop.
* Second part, about `AlohaDiscovery`: all five invariants. Of the first part
  only `DInv` also holds when beacons are lost; the bounds on the silence hold until
  the first loss (`flawless`). The
  subscription's clock is the sleep of the accumulator: `IdleMeansSilence` (an idle
  entry has seen no beacon since that sleep began), `SteadyIsHeard` (the next beacon
  of a steady declaration comes at least two periods before the sleep ends, one
  after a loss, so the second loss is the first to hurt), `OrphansAreForgotten` and
  `Announces`. The proofs about `AlohaSubscription` are used, not repeated:
  `Entries` is an instance of them with one key, and `StepEntries` shows that each
  step of the composition is one of `AlohaSubscription` or leaves it alone.
  The proof gave a better bound than was checked at first: eight periods for
  `UndeclaredKeyIsLost`, where the run had nine.

Every inductive invariant was checked by TLC before it was proved, those about time
for periods of 1 to 4 ticks (the composition: 1 to 3) and for distinct and shared
sessions.

Assumptions are those of the modules: `ModeAssumption` and
`ResourcesAssumption` (ROS1 lists no clients), `MappingAssumption` (no entry
of the graph belongs to the auxiliary node, whose publishers are listed apart),
`LifecycleAssumption` (`"none"` is no port), `ForwardingAssumption` (there is a
thread), `NetworkAssumption` (users have what ROS1 lists), `DeclarationAssumption` (a
period has a tick, and every declaration a session) and `DiscoveryAssumption` (its
bounds are numbers).

Every safety invariant and action property of the passing runs is proved, and so is
the refinement. Only model-checked are the liveness properties, which the prover
cannot handle: `LocalTopicsConverge`, `AutoBridgesLocalTopics`, `SilentKeyIsLost`,
`DroppedSubscriptionEnds`, `MappingFollowsGraph`, `NothingStarves`,
`NetworkConverges` and `DroppedBridgesEnd`; and the three violated properties, each
by its counterexample. What liveness rests on is partly proved: the bounds on
time above are the safety part of `SilentKeyIsLost` and of the fairness that
`BridgeNetwork` assumes of discovery.

## Plan

Done: the decision core (`TopicBridge` to `WorkCycle`) with its abstract
specification, both halves of discovery and their composition, the resolution
of the ROS graph, forwarding from Zenoh to ROS1, networks of bridges, the loss
of beacons, the lifecycle of the plugin, and the proofs of all their safety
properties.

1. Exact forms of the bounds in time: how long after its first beacon a key is
   announced at the latest, and how long after its last it is lost.
2. The text of discovery keys: hex, trimmed slashes, `*` in topic names.

## Not modelled

Of `environment.rs` the parsing of values and all entries but the two of
`Lifecycle` (the bridging modes are the constant `Mode`); the standalone bridge's
command line; test helpers and examples. Of
`abstract_bridge.rs` the way from ROS1 to Zenoh: one blocking put per message in
the callback of the subscriber, which keeps no state. The text of keys is on the
plan. In `BridgeNetwork` declaring a key and creating a bridge always succeed; in
`WorkCycle` they are calls that may fail. What the mapping makes of a service that
moves to another node is in `TopicMapping`, but not in its run. Beacons are lost in `AlohaDiscovery` only: in the untimed
models a beacon that does not come is a key that is silent for a while.
Bridging modes are read from the environment at each discovery and poll, so a work
cycle that outlives a stop could meet those of the next start; `WorkCycle` keeps
`Mode` fixed.
