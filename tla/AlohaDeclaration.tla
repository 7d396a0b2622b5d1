-------------------------- MODULE AlohaDeclaration --------------------------
(***************************************************************************)
(* AlohaDeclaration (aloha_declaration.rs): how bridges keep one key known. *)
(* A declaration runs a monitor task and, most of the time, a publishing    *)
(* task that sends a beacon each period.  The monitor counts the beacons of *)
(* other sessions: a declaration that hears some may fall silent, one that  *)
(* is silent and hears none waits for a random time and then starts again.  *)
(*                                                                          *)
(* Time is discrete, with Period ticks to a beacon period.  A task whose    *)
(* sleep is over takes its turn before time goes on, and tasks that are due *)
(* at the same tick take theirs in any order: timers of real tasks are that *)
(* imprecise.  A beacon is never lost and takes no time.                    *)
(***************************************************************************)
EXTENDS Naturals

CONSTANTS
  Declarers,   \* places for declarations of the key
  SessionOf,   \* the session that each of them uses
  Period,      \* beacon_period, in ticks
  MaxTasks     \* bound: this many publishing tasks due at once, or more

ASSUME DeclarationAssumption ==
  /\ Period \in Nat \ {0}
  /\ MaxTasks \in Nat \ {0}
  /\ SessionOf = [d \in Declarers |-> SessionOf[d]]

VARIABLES
  monitor_running,  \* cleared when the declaration is dropped
  monitor,          \* where aloha_monitor_task is; "none" if there is no such task
  wake,             \* ticks until it goes on
  beacon_flag,      \* beacon_task_flag, which the publishing tasks obey
  sending_beacons,  \* does the monitor believe that a publishing task runs
  remote_beacons,   \* were beacons of other sessions counted
  tasks,            \* how many publishing tasks go on in so many ticks
  \* history, up to a bound
  silence,          \* ticks since the last beacon of anyone
  orphaned,         \* ticks since a declaration last existed
  dropped           \* was any declaration ever dropped

monitors == <<monitor_running, monitor, wake, beacon_flag, sending_beacons>>
history == <<silence, orphaned, dropped>>
vars == <<monitors, remote_beacons, tasks, history>>

Live == {d \in Declarers : monitor_running[d]}

Beaconing(d) == \E i \in 0..Period : tasks[d][i] > 0

\* Bounds of the two history counters.
MaxSilence == 4 * Period

MaxOrphaned == 9 * Period

UpTo(bound, n) == IF n > bound THEN bound ELSE n

Init ==
  /\ monitor_running = [d \in Declarers |-> FALSE]
  /\ monitor = [d \in Declarers |-> "none"]
  /\ wake = [d \in Declarers |-> 0]
  /\ beacon_flag = [d \in Declarers |-> FALSE]
  /\ sending_beacons = [d \in Declarers |-> FALSE]
  /\ remote_beacons = [d \in Declarers |-> FALSE]
  /\ tasks = [d \in Declarers |-> [i \in 0..Period |-> 0]]
  /\ silence = MaxSilence
  /\ orphaned = MaxOrphaned
  /\ dropped = FALSE

-----------------------------------------------------------------------------
\* Publishing tasks.

\* start_beacon_task: whatever earlier task has not seen the cleared flag yet
\* goes on as well.
WithTask(d) == [tasks EXCEPT ![d][0] = UpTo(MaxTasks, @ + 1)]

\* A round of aloha_publishing_task: a beacon reaches the monitors of the other
\* sessions, and the task sleeps.
Publish(d) ==
  /\ tasks[d][0] > 0
  /\ beacon_flag[d]
  /\ tasks' = [tasks EXCEPT ![d][0] = @ - 1, ![d][Period] = UpTo(MaxTasks, @ + 1)]
  /\ remote_beacons' = [e \in Declarers |->
                          \/ remote_beacons[e]
                          \/ SessionOf[e] # SessionOf[d] /\ monitor[e] # "none"]
  /\ silence' = 0
  /\ UNCHANGED <<monitors, orphaned, dropped>>

\* The same round when the network drops the beacon, for a model in which it may.
PublishDropped(d) ==
  /\ tasks[d][0] > 0
  /\ beacon_flag[d]
  /\ tasks' = [tasks EXCEPT ![d][0] = @ - 1, ![d][Period] = UpTo(MaxTasks, @ + 1)]
  /\ UNCHANGED <<monitors, remote_beacons, history>>

\* A task that finds its flag cleared ends.
PublisherEnds(d) ==
  /\ tasks[d][0] > 0
  /\ ~beacon_flag[d]
  /\ tasks' = [tasks EXCEPT ![d][0] = @ - 1]
  /\ UNCHANGED <<monitors, remote_beacons, history>>

-----------------------------------------------------------------------------
\* aloha_monitor_task.

Sleep(d) ==
  /\ monitor' = [monitor EXCEPT ![d] = "sleep"]
  /\ wake' = [wake EXCEPT ![d] = Period]

\* The head of the monitor's loop.
AtLoop(d) ==
  /\ monitor[d] = "sleep"
  /\ wake[d] = 0
  /\ monitor_running[d]

\* Nothing was heard while silent: wait for a random time, shorter than a period.
AlohaWait(d) ==
  /\ AtLoop(d)
  /\ ~remote_beacons[d]
  /\ ~sending_beacons[d]
  /\ monitor' = [monitor EXCEPT ![d] = "wait"]
  /\ \E aloha_wait \in 0..(Period - 1) : wake' = [wake EXCEPT ![d] = aloha_wait]
  /\ UNCHANGED <<monitor_running, beacon_flag, sending_beacons, remote_beacons,
                 tasks, history>>

\* The wait is over: start, unless a beacon came meanwhile.  Whether the
\* declaration was dropped meanwhile is not asked.
AlohaWaitEnds(d) ==
  /\ monitor[d] = "wait"
  /\ wake[d] = 0
  /\ IF remote_beacons[d]
     THEN UNCHANGED <<beacon_flag, sending_beacons, tasks>>
     ELSE /\ beacon_flag' = [beacon_flag EXCEPT ![d] = TRUE]
          /\ sending_beacons' = [sending_beacons EXCEPT ![d] = TRUE]
          /\ tasks' = WithTask(d)
  /\ Sleep(d)
  /\ UNCHANGED <<monitor_running, remote_beacons, history>>

\* As mutants: the count is only looked at; the monitor takes no note.
FallSilent_CountKept(d) ==
  /\ AtLoop(d)
  /\ remote_beacons[d]
  /\ sending_beacons[d]
  /\ beacon_flag' = [beacon_flag EXCEPT ![d] = FALSE]
  /\ sending_beacons' = [sending_beacons EXCEPT ![d] = FALSE]
  /\ Sleep(d)
  /\ UNCHANGED <<monitor_running, remote_beacons, tasks, history>>

FallSilent_Unnoted(d) ==
  /\ AtLoop(d)
  /\ remote_beacons[d]
  /\ sending_beacons[d]
  /\ remote_beacons' = [remote_beacons EXCEPT ![d] = FALSE]
  /\ beacon_flag' = [beacon_flag EXCEPT ![d] = FALSE]
  /\ Sleep(d)
  /\ UNCHANGED <<monitor_running, sending_beacons, tasks, history>>

\* Beacons were heard while beaconing: toss a coin, and fall silent on heads.
FallSilent(d) ==
  /\ AtLoop(d)
  /\ remote_beacons[d]
  /\ sending_beacons[d]
  /\ remote_beacons' = [remote_beacons EXCEPT ![d] = FALSE]
  /\ beacon_flag' = [beacon_flag EXCEPT ![d] = FALSE]
  /\ sending_beacons' = [sending_beacons EXCEPT ![d] = FALSE]
  /\ Sleep(d)
  /\ UNCHANGED <<monitor_running, tasks, history>>

\* All other rounds only reset the count.
KeepOn(d) ==
  /\ AtLoop(d)
  /\ remote_beacons[d] \/ sending_beacons[d]
  /\ remote_beacons' = [remote_beacons EXCEPT ![d] = FALSE]
  /\ Sleep(d)
  /\ UNCHANGED <<monitor_running, beacon_flag, sending_beacons, tasks, history>>

\* As a mutant: the publishing task is not told to stop.
MonitorEnds_FlagKept(d) ==
  /\ monitor[d] = "sleep"
  /\ wake[d] = 0
  /\ ~monitor_running[d]
  /\ monitor' = [monitor EXCEPT ![d] = "none"]
  /\ remote_beacons' = [remote_beacons EXCEPT ![d] = FALSE]
  /\ UNCHANGED <<monitor_running, wake, beacon_flag, sending_beacons, tasks,
                 history>>

\* The declaration was dropped: the publishing task is told to stop.
MonitorEnds(d) ==
  /\ monitor[d] = "sleep"
  /\ wake[d] = 0
  /\ ~monitor_running[d]
  /\ monitor' = [monitor EXCEPT ![d] = "none"]
  /\ beacon_flag' = [beacon_flag EXCEPT ![d] = FALSE]
  /\ sending_beacons' = [sending_beacons EXCEPT ![d] = FALSE]
  /\ remote_beacons' = [remote_beacons EXCEPT ![d] = FALSE]
  /\ UNCHANGED <<monitor_running, wake, tasks, history>>

-----------------------------------------------------------------------------
\* The owner of the declaration, which keeps one per session at most.

\* A declaration is made: its monitor starts a publishing task and is about to
\* enter its loop.  A place is used again only when all its tasks are over.
New(d) ==
  /\ monitor[d] = "none"
  /\ ~Beaconing(d)
  /\ \A e \in Live : SessionOf[e] # SessionOf[d]
  /\ monitor_running' = [monitor_running EXCEPT ![d] = TRUE]
  /\ monitor' = [monitor EXCEPT ![d] = "sleep"]
  /\ wake' = [wake EXCEPT ![d] = 0]
  /\ beacon_flag' = [beacon_flag EXCEPT ![d] = TRUE]
  /\ sending_beacons' = [sending_beacons EXCEPT ![d] = TRUE]
  /\ tasks' = WithTask(d)
  /\ orphaned' = 0
  /\ UNCHANGED <<remote_beacons, silence, dropped>>

Drop(d) ==
  /\ monitor_running[d]
  /\ monitor_running' = [monitor_running EXCEPT ![d] = FALSE]
  /\ dropped' = TRUE
  /\ UNCHANGED <<monitor, wake, beacon_flag, sending_beacons, remote_beacons,
                 tasks, silence, orphaned>>

-----------------------------------------------------------------------------
\* Time.

Due(d) == \/ tasks[d][0] > 0
          \/ monitor[d] # "none" /\ wake[d] = 0

Settled == \A d \in Declarers : ~Due(d)

Tick ==
  /\ Settled
  /\ wake' = [d \in Declarers |-> IF monitor[d] = "none" THEN 0 ELSE wake[d] - 1]
  /\ tasks' = [d \in Declarers |->
                 [i \in 0..Period |-> IF i = Period THEN 0 ELSE tasks[d][i + 1]]]
  /\ silence' = UpTo(MaxSilence, silence + 1)
  /\ orphaned' = IF Live # {} THEN 0 ELSE UpTo(MaxOrphaned, orphaned + 1)
  /\ UNCHANGED <<monitor_running, monitor, beacon_flag, sending_beacons,
                 remote_beacons, dropped>>

Monitor(d) ==
  \/ AlohaWait(d)
  \/ AlohaWaitEnds(d)
  \/ FallSilent(d)
  \/ KeepOn(d)
  \/ MonitorEnds(d)

Publisher(d) == Publish(d) \/ PublisherEnds(d)

Next ==
  \/ \E d \in Declarers : New(d) \/ Drop(d)
  \/ \E d \in Declarers : Monitor(d) \/ Publisher(d)
  \/ Tick

Spec == Init /\ [][Next]_vars

-----------------------------------------------------------------------------
\* Properties.

\* Every variable keeps its type, and the monitor and the flag of its publishing
\* tasks agree on whether there should be one.
TypeOK ==
  /\ monitor_running \in [Declarers -> BOOLEAN]
  /\ monitor \in [Declarers -> {"none", "sleep", "wait"}]
  /\ wake \in [Declarers -> 0..Period]
  /\ beacon_flag \in [Declarers -> BOOLEAN]
  /\ sending_beacons = beacon_flag
  /\ remote_beacons \in [Declarers -> BOOLEAN]
  /\ tasks \in [Declarers -> [0..Period -> 0..MaxTasks]]
  /\ silence \in 0..MaxSilence
  /\ orphaned \in 0..MaxOrphaned
  /\ dropped \in BOOLEAN
  /\ \A d \in Declarers : monitor_running[d] => monitor[d] # "none"

(***************************************************************************)
(* However the coins of the monitors fall, as long as a key is declared and *)
(* nobody has taken a declaration back it is never silent for as long as    *)
(* the subscriptions take to report it lost, three periods.                 *)
(***************************************************************************)
LiveKeyIsHeard == Settled /\ Live # {} /\ ~dropped => silence < 3 * Period

(***************************************************************************)
(* Once declarations are dropped, those that are left may need almost four  *)
(* periods to notice: one that hears a beacon while it waits to start goes  *)
(* back to sleep with the beacon still counted.                             *)
(***************************************************************************)
SilenceIsShort == Settled /\ Live # {} => silence < 4 * Period - 2

(***************************************************************************)
(* A key that is not declared any more is beaconed for less than three      *)
(* periods, even if the last drop met a monitor about to start.             *)
(***************************************************************************)
OrphansFallSilent ==
  orphaned >= 3 * Period => \A d \in Declarers : ~Beaconing(d) /\ monitor[d] = "none"

=============================================================================
