------------------------- MODULE AlohaSubscription -------------------------
(***************************************************************************)
(* AlohaSubscription (aloha_subscription.rs): how a bridge learns which     *)
(* resources the other bridges have.  A resource is a key whose owner keeps *)
(* sending beacons.  Two loops, joined in one task, share a map of keys:    *)
(* the listener enters keys it hears and marks them active; the accumulator *)
(* unmarks all, sleeps three beacon periods, reports the keys still         *)
(* unmarked as lost and then removes the unmarked ones.                     *)
(*                                                                          *)
(* The map is behind a tokio Mutex, which serves waiters in order: a loop   *)
(* that lets go of it passes it to the other loop if that one is waiting.   *)
(* The callbacks are awaited while the mutex is held.                       *)
(***************************************************************************)
CONSTANT Keys   \* the key expressions that beacons may carry

VARIABLES
  beaconing,      \* the environment: keys whose beacons still arrive
  task_running,   \* cleared when the AlohaSubscription is dropped
  resources,      \* accumulating_resources: each key's entry, if it has one
  lock,           \* who holds the mutex of accumulating_resources
  listener,       \* where listening_task is
  heard,          \* the keys of the sample that listening_task works on
  accumulator,    \* where accumulating_task is
  to_report,      \* idle keys whose loss is still to be reported
  announced,      \* keys declared and not reported lost since: the callbacks' view
  fresh           \* history: keys handled since the activity was last reset

owner == <<listener, heard>>
sweep == <<accumulator, to_report>>
vars == <<beaconing, task_running, resources, lock, owner, sweep, announced, fresh>>

Tracked == {k \in Keys : resources[k] # "absent"}

Idle == {k \in Keys : resources[k] = "idle"}

Init ==
  /\ beaconing \in SUBSET Keys
  /\ task_running = TRUE
  /\ resources = [k \in Keys |-> "absent"]
  /\ lock = "free"
  /\ listener = "start"
  /\ heard = {}
  /\ accumulator = "start"
  /\ to_report = {}
  /\ announced = {}
  /\ fresh = {}

-----------------------------------------------------------------------------
\* The mutex.

ListenerWaits == listener = "lock" /\ lock # "listener"

AccumulatorWaits ==
  accumulator \in {"reset", "collect", "retain"} /\ lock # "accumulator"

Request(me) == IF lock = "free" THEN me ELSE lock

ReleasedByListener == IF AccumulatorWaits THEN "accumulator" ELSE "free"

ReleasedByAccumulator == IF ListenerWaits THEN "listener" ELSE "free"

\* Let go of the mutex and ask for it again at once.
Reacquired == IF ListenerWaits THEN "listener" ELSE "accumulator"

-----------------------------------------------------------------------------
\* listening_task.

\* Both loops test the flag before each round.
NextRound == IF task_running THEN "recv" ELSE "ended"

ListenerStarts ==
  /\ listener = "start"
  /\ listener' = NextRound
  /\ UNCHANGED <<beaconing, task_running, resources, lock, heard, sweep,
                 announced, fresh>>

\* A sample arrives and the mutex is asked for.  Without a sample the loop stays
\* here, whatever the flag says.
Recv(k) ==
  /\ listener = "recv"
  /\ k \in beaconing
  /\ listener' = "lock"
  /\ heard' = {k}
  /\ lock' = Request("listener")
  /\ UNCHANGED <<beaconing, task_running, resources, sweep, announced, fresh>>

\* The channel has an error, which is only logged.
RecvFails ==
  /\ listener = "recv"
  /\ listener' = NextRound
  /\ UNCHANGED <<beaconing, task_running, resources, lock, heard, sweep,
                 announced, fresh>>

\* Occupied: the entry is marked active.
Update(k) ==
  /\ listener = "lock"
  /\ lock = "listener"
  /\ k \in heard
  /\ resources[k] # "absent"
  /\ resources' = [resources EXCEPT ![k] = "active"]
  /\ fresh' = fresh \cup {k}
  /\ heard' = {}
  /\ listener' = NextRound
  /\ lock' = ReleasedByListener
  /\ UNCHANGED <<beaconing, task_running, sweep, announced>>

\* As mutants: the mutex is let go before the callback is awaited; an idle entry
\* is taken for a missing one.
Declare_Unlocked(k) ==
  /\ listener = "lock"
  /\ lock = "listener"
  /\ k \in heard
  /\ resources[k] = "absent"
  /\ listener' = "declare"
  /\ lock' = ReleasedByListener
  /\ UNCHANGED <<beaconing, task_running, resources, heard, sweep, announced, fresh>>

Declare_Idle(k) ==
  /\ listener = "lock"
  /\ lock = "listener"
  /\ k \in heard
  /\ resources[k] # "active"
  /\ listener' = "declare"
  /\ UNCHANGED <<beaconing, task_running, resources, lock, heard, sweep,
                 announced, fresh>>

\* Vacant: on_resource_declared is called, and awaited with the mutex held.
Declare(k) ==
  /\ listener = "lock"
  /\ lock = "listener"
  /\ k \in heard
  /\ resources[k] = "absent"
  /\ listener' = "declare"
  /\ UNCHANGED <<beaconing, task_running, resources, lock, heard, sweep,
                 announced, fresh>>

\* As mutants: nothing is inserted; the new entry starts idle.
Declared_NotInserted(k) ==
  /\ listener = "declare"
  /\ k \in heard
  /\ announced' = announced \cup {k}
  /\ fresh' = fresh \cup {k}
  /\ heard' = {}
  /\ listener' = NextRound
  /\ lock' = ReleasedByListener
  /\ UNCHANGED <<beaconing, task_running, resources, sweep>>

Declared_Idle(k) ==
  /\ listener = "declare"
  /\ k \in heard
  /\ announced' = announced \cup {k}
  /\ resources' = [resources EXCEPT ![k] = "idle"]
  /\ fresh' = fresh \cup {k}
  /\ heard' = {}
  /\ listener' = NextRound
  /\ lock' = ReleasedByListener
  /\ UNCHANGED <<beaconing, task_running, sweep>>

\* on_resource_declared has returned; the entry is inserted.
Declared(k) ==
  /\ listener = "declare"
  /\ k \in heard
  /\ announced' = announced \cup {k}
  /\ resources' = [resources EXCEPT ![k] = "active"]
  /\ fresh' = fresh \cup {k}
  /\ heard' = {}
  /\ listener' = NextRound
  /\ lock' = ReleasedByListener
  /\ UNCHANGED <<beaconing, task_running, sweep>>

-----------------------------------------------------------------------------
\* accumulating_task.

AccumulatorStarts ==
  /\ accumulator = "start"
  /\ IF task_running
     THEN accumulator' = "reset" /\ lock' = Request("accumulator")
     ELSE accumulator' = "ended" /\ lock' = lock
  /\ UNCHANGED <<beaconing, task_running, resources, owner, to_report,
                 announced, fresh>>

\* As a mutant: the activity is never reset.
Reset_Nothing ==
  /\ accumulator = "reset"
  /\ lock = "accumulator"
  /\ fresh' = {}
  /\ accumulator' = "sleep"
  /\ lock' = ReleasedByAccumulator
  /\ UNCHANGED <<beaconing, task_running, resources, owner, to_report, announced>>

Reset ==
  /\ accumulator = "reset"
  /\ lock = "accumulator"
  /\ resources' = [k \in Keys |->
                     IF resources[k] = "active" THEN "idle" ELSE resources[k]]
  /\ fresh' = {}
  /\ accumulator' = "sleep"
  /\ lock' = ReleasedByAccumulator
  /\ UNCHANGED <<beaconing, task_running, owner, to_report, announced>>

\* The accumulate period is over.
Wake ==
  /\ accumulator = "sleep"
  /\ accumulator' = "collect"
  /\ lock' = Request("accumulator")
  /\ UNCHANGED <<beaconing, task_running, resources, owner, to_report,
                 announced, fresh>>

\* As a mutant: the loop goes on without keys to report.
Collect_Always ==
  /\ accumulator = "collect"
  /\ lock = "accumulator"
  /\ to_report' = Idle
  /\ accumulator' = "report"
  /\ UNCHANGED <<beaconing, task_running, resources, lock, owner, announced, fresh>>

\* The loop over the map starts.  The mutex is held to the end of the loop, so
\* the idle keys stay the same; with none of them the loop ends at once.
Collect ==
  /\ accumulator = "collect"
  /\ lock = "accumulator"
  /\ to_report' = Idle
  /\ IF Idle = {}
     THEN accumulator' = "retain" /\ lock' = Reacquired
     ELSE accumulator' = "report" /\ lock' = lock
  /\ UNCHANGED <<beaconing, task_running, resources, owner, announced, fresh>>

\* on_resource_undeclared was called for k and has returned.  After the last of
\* them the mutex is let go and asked for again.
Undeclared(k) ==
  /\ accumulator = "report"
  /\ k \in to_report
  /\ announced' = announced \ {k}
  /\ to_report' = to_report \ {k}
  /\ IF to_report = {k}
     THEN accumulator' = "retain" /\ lock' = Reacquired
     ELSE UNCHANGED <<accumulator, lock>>
  /\ UNCHANGED <<beaconing, task_running, resources, owner, fresh>>

\* As a mutant: the next round begins without looking at the flag.
Retain_Forever ==
  /\ accumulator = "retain"
  /\ lock = "accumulator"
  /\ resources' = [k \in Keys |->
                     IF resources[k] = "active" THEN "active" ELSE "absent"]
  /\ accumulator' = "reset"
  /\ lock' = Reacquired
  /\ UNCHANGED <<beaconing, task_running, owner, to_report, announced, fresh>>

\* The keys that are idle now are removed, and the next round begins.
Retain ==
  /\ accumulator = "retain"
  /\ lock = "accumulator"
  /\ resources' = [k \in Keys |->
                     IF resources[k] = "active" THEN "active" ELSE "absent"]
  /\ IF task_running
     THEN accumulator' = "reset" /\ lock' = Reacquired
     ELSE accumulator' = "ended" /\ lock' = ReleasedByAccumulator
  /\ UNCHANGED <<beaconing, task_running, owner, to_report, announced, fresh>>

-----------------------------------------------------------------------------
\* The environment: the owner of the subscription and the beaconing bridges.

Drop ==
  /\ task_running
  /\ task_running' = FALSE
  /\ UNCHANGED <<beaconing, resources, lock, owner, sweep, announced, fresh>>

BeaconStarts(k) ==
  /\ beaconing' = beaconing \cup {k}
  /\ UNCHANGED <<task_running, resources, lock, owner, sweep, announced, fresh>>

BeaconStops(k) ==
  /\ beaconing' = beaconing \ {k}
  /\ UNCHANGED <<task_running, resources, lock, owner, sweep, announced, fresh>>

Listening(k) == Recv(k) \/ Update(k) \/ Declare(k) \/ Declared(k)

Accumulating == AccumulatorStarts \/ Reset \/ Wake \/ Collect \/ Retain

Next ==
  \/ ListenerStarts
  \/ RecvFails
  \/ \E k \in Keys : Listening(k)
  \/ Accumulating
  \/ \E k \in Keys : Undeclared(k)
  \/ Drop
  \/ \E k \in Keys : BeaconStarts(k) \/ BeaconStops(k)

Spec == Init /\ [][Next]_vars

\* Both loops go on when they can: the sleep ends, callbacks return, the mutex is
\* fair, and while some key is beaconing a sample arrives.  Beacons need not go
\* on, and the subscription need not be dropped.
Fairness ==
  /\ WF_vars(ListenerStarts)
  /\ WF_vars(\E k \in Keys : Listening(k))
  /\ WF_vars(Accumulating)
  /\ WF_vars(\E k \in Keys : Undeclared(k))

FairSpec == Spec /\ Fairness

-----------------------------------------------------------------------------
\* Properties.

\* Every variable keeps its type, a sample is in hand exactly while the listener
\* works on one, and reports are pending only during the report loop.
TypeOK ==
  /\ beaconing \in SUBSET Keys
  /\ task_running \in BOOLEAN
  /\ resources \in [Keys -> {"absent", "idle", "active"}]
  /\ lock \in {"free", "listener", "accumulator"}
  /\ listener \in {"start", "recv", "lock", "declare", "ended"}
  /\ heard \in SUBSET Keys
  /\ accumulator \in {"start", "reset", "sleep", "collect", "report", "retain", "ended"}
  /\ to_report \in SUBSET Keys
  /\ announced \in SUBSET Keys
  /\ fresh \in SUBSET Keys
  /\ (listener \in {"lock", "declare"}) = (heard # {})
  /\ (accumulator = "report") = (to_report # {})

(***************************************************************************)
(* The listener never gets hold of the map while losses are reported, nor   *)
(* the accumulator while a new key is declared: the callbacks of the two    *)
(* loops never overlap.                                                     *)
(***************************************************************************)
CallbacksExclude ==
  /\ listener = "declare" => lock = "listener"
  /\ accumulator = "report" => lock = "accumulator"

(***************************************************************************)
(* No ghosts: whatever the users of the callbacks believe to exist has an   *)
(* entry, so its silence will be noticed.                                   *)
(***************************************************************************)
AnnouncedAreTracked == announced \subseteq Tracked

(***************************************************************************)
(* A key is never declared to the callbacks twice without a loss between,   *)
(* which the callback in aloha_declaration_test.rs asserts with             *)
(* r.insert(k).                                                             *)
(***************************************************************************)
AnnouncedOnce == listener = "declare" => heard \cap announced = {}

(***************************************************************************)
(* A key whose beacon was handled since the last reset is not reported      *)
(* lost, however the two loops interleave.                                  *)
(***************************************************************************)
FreshIsNotLost == to_report \cap fresh = {}

(***************************************************************************)
(* A key that falls silent for good is reported lost for good, as long as   *)
(* the subscription lives.                                                  *)
(***************************************************************************)
SilentKeyIsLost ==
  \A k \in Keys :
    <>[](task_running /\ k \notin beaconing) => <>[](k \notin announced)

(***************************************************************************)
(* A dropped subscription ends, and lets go of what its callbacks hold, if  *)
(* some key goes on beaconing.                                              *)
(***************************************************************************)
DroppedSubscriptionEnds ==
  <>[](~task_running /\ beaconing # {})
    => <>(listener = "ended" /\ accumulator = "ended")

(***************************************************************************)
(* A key whose beacons go on being handled, and soon enough that no loss of *)
(* it is reported any more, is announced for good.  DEFAULT_CONFIG.json5    *)
(* promises that topics are bridged once they are discovered remotely.      *)
(***************************************************************************)
HeardKeyIsAnnounced ==
  \A k \in Keys :
    /\ <>[](task_running /\ k \notin to_report)
    /\ []<>(k \in fresh)
    => <>[](k \in announced)

=============================================================================
