------------------------ MODULE AlohaDiscovery_proof ------------------------
(***************************************************************************)
(* How long the beacons of a key may be silent, and what the subscription   *)
(* makes of it: for any declarations, any sessions and any period.          *)
(*                                                                          *)
(* The first part is about AlohaDeclaration alone.  A declaration that is   *)
(* told to beacon has a publishing task, which fixes the time of the next   *)
(* beacon; one that is silent has a monitor, which wakes in time to look    *)
(* for the beacons of others.  The invariants state these times as bounds   *)
(* on the sum of a clock that runs down (of a task, of a monitor) and one   *)
(* that runs up (of the silence, of the time since the last declaration):   *)
(* a tick moves both and keeps the sum, and every other step that restarts  *)
(* one of them finds the other low enough.                                  *)
(*                                                                          *)
(* The second part adds the subscription in the same way.  Its clock is the *)
(* sleep of the accumulator, and an idle entry is the promise that nothing  *)
(* was heard since that sleep began.  That the subscription keeps its own   *)
(* invariants is not proved again: a step of the composition is a step of   *)
(* AlohaSubscription for one key, or leaves it alone, and the proofs about  *)
(* AlohaSubscription are cited through the instance Entries.                *)
(***************************************************************************)
EXTENDS AlohaDiscovery, TLAPS

\* The steps of a publishing task within its period.
Steps == 0..Period

\* A step of the declarations, in which the network may drop the beacon.
Lossy ==
  \/ Next
  \/ \E d \in Declarers : PublishDropped(d)

USE DeclarationAssumption, DiscoveryAssumption

-----------------------------------------------------------------------------
\* How the publishing tasks change.

\* A capped count of one more.
LEMMA OneMore ==
  ASSUME NEW n \in 0..MaxTasks
  PROVE  /\ UpTo(MaxTasks, n + 1) \in 1..MaxTasks
         /\ UpTo(MaxTasks, n + 1) >= n
  BY DEF UpTo

\* A new task is due, and all others are still there.
LEMMA TaskAdded ==
  ASSUME TypeOK, NEW d \in Declarers
  PROVE  LET added == WithTask(d)
         IN  /\ added \in [Declarers -> [Steps -> 0..MaxTasks]]
             /\ added[d][0] > 0
             /\ \A e \in Declarers : \A i \in Steps : tasks[e][i] > 0 => added[e][i] > 0
             /\ \A e \in Declarers : e # d => added[e] = tasks[e]
<1>1. tasks \in [Declarers -> [Steps -> 0..MaxTasks]] /\ 0 \in Steps
  BY DEF TypeOK, Steps
<1>2. tasks[d][0] \in 0..MaxTasks
  BY <1>1
<1>3. WithTask(d)
        = [tasks EXCEPT ![d] = [tasks[d] EXCEPT ![0] = UpTo(MaxTasks, tasks[d][0] + 1)]]
  BY <1>1 DEF WithTask
<1> QED
  BY <1>1, <1>2, <1>3, OneMore

\* A round of publishing task: it sleeps for a period, and all that were not due
\* are still there.
Round(d) ==
  /\ tasks' \in [Declarers -> [Steps -> 0..MaxTasks]]
  /\ tasks'[d][Period] > 0
  /\ \A i \in Steps : i # 0 /\ tasks[d][i] > 0 => tasks'[d][i] > 0
  /\ \A e \in Declarers : e # d => tasks'[e] = tasks[e]

\* What a round of a publishing task does, whether its beacon arrives or not.
LEMMA RoundOfTask ==
  ASSUME TypeOK, NEW d \in Declarers,
         Publish(d) \/ PublishDropped(d)
  PROVE  Round(d)
<1>1. /\ tasks \in [Declarers -> [Steps -> 0..MaxTasks]]
      /\ 0 \in Steps /\ Period \in Steps /\ Period # 0
  BY DEF TypeOK, Steps
<1>2. /\ tasks[d] \in [Steps -> 0..MaxTasks]
      /\ tasks[d][0] \in 0..MaxTasks /\ tasks[d][Period] \in 0..MaxTasks
      /\ tasks[d][0] > 0
  BY <1>1 DEF Publish, PublishDropped
<1> DEFINE left == [tasks[d] EXCEPT ![0] = tasks[d][0] - 1]
<1> DEFINE next == [left EXCEPT ![Period] = UpTo(MaxTasks, tasks[d][Period] + 1)]
<1>3. tasks' = [tasks EXCEPT ![d] = next]
  BY <1>1, <1>2 DEF Publish, PublishDropped
<1>4. left \in [Steps -> 0..MaxTasks] /\ left[Period] = tasks[d][Period]
      /\ \A i \in Steps : i # 0 => left[i] = tasks[d][i]
  BY <1>1, <1>2
<1>5. /\ next \in [Steps -> 0..MaxTasks]
      /\ next[Period] = UpTo(MaxTasks, tasks[d][Period] + 1)
      /\ \A i \in Steps : i # Period => next[i] = left[i]
  <2>1. UpTo(MaxTasks, tasks[d][Period] + 1) \in 0..MaxTasks
    BY <1>2, OneMore
  <2> HIDE DEF left
  <2> QED
    BY <1>1, <1>4, <2>1
<1> HIDE DEF next, left
<1> QED
  BY <1>1, <1>2, <1>3, <1>4, <1>5, OneMore DEF Round

\* A task that is due may end: all that were not due are still there, and no
\* other is.
LEMMA EndOfTask ==
  ASSUME TypeOK, NEW d \in Declarers, PublisherEnds(d)
  PROVE  /\ tasks' \in [Declarers -> [Steps -> 0..MaxTasks]]
         /\ \A e \in Declarers : e # d => tasks'[e] = tasks[e]
         /\ \A e \in Declarers : \A i \in Steps : tasks'[e][i] > 0 => tasks[e][i] > 0
<1>1. tasks \in [Declarers -> [Steps -> 0..MaxTasks]] /\ 0 \in Steps
  BY DEF TypeOK, Steps
<1>2. tasks[d][0] \in 0..MaxTasks /\ tasks[d][0] > 0
  BY <1>1 DEF PublisherEnds
<1>3. tasks' = [tasks EXCEPT ![d] = [tasks[d] EXCEPT ![0] = tasks[d][0] - 1]]
  BY <1>1 DEF PublisherEnds
<1> QED
  BY <1>1, <1>2, <1>3

\* Time brings every task a step nearer.
LEMMA TasksTick ==
  ASSUME TypeOK, Tick
  PROVE  /\ tasks' \in [Declarers -> [Steps -> 0..MaxTasks]]
         /\ \A d \in Declarers : \A i \in Steps :
              tasks[d][i] > 0 => i > 0 /\ i - 1 \in Steps /\ tasks'[d][i - 1] > 0
         /\ \A d \in Declarers : \A i \in Steps :
              tasks'[d][i] > 0 => i + 1 \in Steps /\ tasks[d][i + 1] > 0
<1>1. tasks \in [Declarers -> [Steps -> 0..MaxTasks]] /\ 0 \in Steps
  BY DEF TypeOK, Steps
<1>2. \A d \in Declarers : tasks[d][0] = 0
  BY <1>1 DEF Tick, Settled, Due
<1>3. tasks' = [d \in Declarers |->
                  [i \in Steps |-> IF i = Period THEN 0 ELSE tasks[d][i + 1]]]
  BY DEF Tick, Steps
<1>4. \A i \in Steps : i # Period => i + 1 \in Steps
  BY DEF Steps
<1>5. \A i \in Steps : i # 0 => i - 1 \in Steps /\ i - 1 # Period /\ (i - 1) + 1 = i
  BY DEF Steps
<1>6. \A d \in Declarers : \A i \in Steps : tasks[d][i] \in 0..MaxTasks
  BY <1>1
<1> QED
  <2>1. tasks' \in [Declarers -> [Steps -> 0..MaxTasks]]
    BY <1>1, <1>3, <1>4, <1>6
  <2>2. ASSUME NEW d \in Declarers, NEW i \in Steps, tasks[d][i] > 0
        PROVE  i > 0 /\ i - 1 \in Steps /\ tasks'[d][i - 1] > 0
    <3>1. i # 0
      BY <1>2, <2>2
    <3>2. tasks'[d][i - 1] = tasks[d][(i - 1) + 1]
      BY <1>3, <1>5, <3>1
    <3> QED
      BY <1>5, <2>2, <3>1, <3>2 DEF Steps
  <2>3. ASSUME NEW d \in Declarers, NEW i \in Steps, tasks'[d][i] > 0
        PROVE  i + 1 \in Steps /\ tasks[d][i + 1] > 0
    BY <1>3, <1>4, <2>3
  <2> QED
    BY <2>1, <2>2, <2>3

-----------------------------------------------------------------------------
\* Invariants of the declarations, whether beacons are lost or not.

\* Whoever has no monitor or one that waits to start does not beacon, and nobody
\* outlives a declaration that was not dropped.
MonitorsAgree ==
  \A d \in Declarers :
    /\ monitor[d] = "none" => ~beacon_flag[d] /\ ~remote_beacons[d]
    /\ monitor[d] = "wait" => ~beacon_flag[d] /\ wake[d] < Period
    /\ monitor[d] # "none" => monitor_running[d] \/ dropped

\* Who is told to beacon has a publishing task.
TasksGoOn == \A d \in Declarers : beacon_flag[d] => \E i \in Steps : tasks[d][i] > 0

\* How long what a dropped declaration leaves behind may go on.
OrphansFade ==
  \A d \in Declarers :
    /\ monitor_running[d] => orphaned = 0
    /\ monitor[d] = "wait" => wake[d] + orphaned < Period
    /\ monitor[d] = "sleep" => wake[d] + orphaned < 2 * Period
    /\ monitor[d] = "none" =>
         \A i \in Steps : tasks[d][i] > 0 => i + orphaned < 3 * Period

\* All of them: kept by every step, also by one that loses a beacon.
DInv ==
  /\ TypeOK
  /\ MonitorsAgree
  /\ TasksGoOn
  /\ OrphansFade

\* The initial states satisfy them: there are no monitors and no tasks.
LEMMA InitDInv == Init => DInv
<1> SUFFICES ASSUME Init PROVE DInv
  OBVIOUS
<1>0. MaxSilence \in Nat /\ MaxOrphaned \in Nat /\ 0 \in 0..Period
  BY DEF MaxSilence, MaxOrphaned
<1>1. TypeOK
  <2>1. tasks \in [Declarers -> [0..Period -> 0..MaxTasks]]
    BY <1>0 DEF Init
  <2>2. silence \in 0..MaxSilence /\ orphaned \in 0..MaxOrphaned
    BY <1>0 DEF Init
  <2>3. wake \in [Declarers -> 0..Period]
    BY <1>0 DEF Init
  <2>4. \A d \in Declarers : ~monitor_running[d]
    BY DEF Init
  <2> QED
    BY <2>1, <2>2, <2>3, <2>4 DEF Init, TypeOK
<1> QED
  <2>1. \A d \in Declarers : /\ monitor[d] = "none" /\ ~monitor_running[d]
                             /\ ~beacon_flag[d] /\ ~remote_beacons[d]
    BY DEF Init
  <2>2. \A d \in Declarers : \A i \in Steps : tasks[d][i] = 0
    BY DEF Init, Steps
  <2> QED
    BY <1>1, <2>1, <2>2 DEF DInv, MonitorsAgree, TasksGoOn, OrphansFade

\* The actions one by one.
LEMMA LossyActions ==
  ASSUME Lossy \/ UNCHANGED vars
  PROVE  \/ \E d \in Declarers :
              \/ New(d)
              \/ Drop(d)
              \/ AlohaWait(d)
              \/ AlohaWaitEnds(d)
              \/ FallSilent(d)
              \/ KeepOn(d)
              \/ MonitorEnds(d)
              \/ Publish(d)
              \/ PublishDropped(d)
              \/ PublisherEnds(d)
         \/ Tick
         \/ UNCHANGED vars
  BY DEF Lossy, Next, Monitor, Publisher

\* Every step keeps the types.
LEMMA StepDTypeOK ==
  ASSUME DInv, Lossy \/ UNCHANGED vars
  PROVE  TypeOK'
<1> USE DEF DInv, TypeOK, monitors, history
<1>0. /\ Period \in 0..Period /\ 0 \in 0..Period /\ MaxOrphaned \in Nat
      /\ MaxSilence \in Nat
  BY DEF MaxOrphaned, MaxSilence
<1>1. ASSUME NEW d \in Declarers, New(d) PROVE TypeOK'
  <2>1. tasks' \in [Declarers -> [0..Period -> 0..MaxTasks]]
    BY <1>1, TaskAdded DEF New, Steps
  <2>2. /\ monitor_running' \in [Declarers -> BOOLEAN]
        /\ monitor' \in [Declarers -> {"none", "sleep", "wait"}]
        /\ wake' \in [Declarers -> 0..Period]
        /\ beacon_flag' \in [Declarers -> BOOLEAN]
        /\ sending_beacons' = beacon_flag'
    BY <1>0, <1>1 DEF New
  <2>3. /\ remote_beacons' \in [Declarers -> BOOLEAN]
        /\ silence' \in 0..MaxSilence
        /\ orphaned' \in 0..MaxOrphaned
        /\ dropped' \in BOOLEAN
    BY <1>0, <1>1 DEF New
  <2>4. \A e \in Declarers : monitor_running'[e] => monitor'[e] # "none"
    BY <1>1 DEF New
  <2> QED
    BY <2>1, <2>2, <2>3, <2>4
<1>2. ASSUME NEW d \in Declarers, Drop(d) PROVE TypeOK'
  <2>1. monitor_running' \in [Declarers -> BOOLEAN] /\ dropped' \in BOOLEAN
    BY <1>2 DEF Drop
  <2>2. \A e \in Declarers : monitor_running'[e] => monitor_running[e]
    BY <1>2 DEF Drop
  <2>3. UNCHANGED <<monitor, wake, beacon_flag, sending_beacons, remote_beacons,
                    tasks, silence, orphaned>>
    BY <1>2 DEF Drop
  <2> QED
    BY <2>1, <2>2, <2>3
<1>3. ASSUME NEW d \in Declarers, AlohaWait(d) PROVE TypeOK'
  <2>1. PICK n \in 0..(Period - 1) : wake' = [wake EXCEPT ![d] = n]
    BY <1>3 DEF AlohaWait
  <2>2. n \in 0..Period
    OBVIOUS
  <2> QED
    BY <1>3, <2>1, <2>2 DEF AlohaWait
<1>4. ASSUME NEW d \in Declarers, AlohaWaitEnds(d) PROVE TypeOK'
  BY <1>0, <1>4, TaskAdded DEF AlohaWaitEnds, Sleep, Steps
<1>5. ASSUME NEW d \in Declarers, FallSilent(d) PROVE TypeOK'
  BY <1>0, <1>5 DEF FallSilent, Sleep
<1>6. ASSUME NEW d \in Declarers, KeepOn(d) PROVE TypeOK'
  BY <1>0, <1>6 DEF KeepOn, Sleep
<1>7. ASSUME NEW d \in Declarers, MonitorEnds(d) PROVE TypeOK'
  BY <1>7 DEF MonitorEnds
<1>8. ASSUME NEW d \in Declarers,
             Publish(d) \/ PublishDropped(d)
      PROVE  TypeOK'
  <2>1. tasks' \in [Declarers -> [0..Period -> 0..MaxTasks]]
    BY <1>8, RoundOfTask DEF Round, Steps
  <2>2. remote_beacons' \in [Declarers -> BOOLEAN] /\ silence' \in 0..MaxSilence
    <3>1. CASE Publish(d)
      <4>1. remote_beacons' \in [Declarers -> BOOLEAN]
        BY <3>1 DEF Publish
      <4>2. silence' = 0
        BY <3>1 DEF Publish
      <4> QED
        BY <1>0, <4>1, <4>2
    <3>2. CASE PublishDropped(d)
      BY <3>2 DEF PublishDropped
    <3> QED
      BY <1>8, <3>1, <3>2
  <2>3. UNCHANGED <<monitor_running, monitor, wake, beacon_flag, sending_beacons,
                    orphaned, dropped>>
    <3>1. CASE Publish(d)
      BY <3>1 DEF Publish
    <3>2. CASE PublishDropped(d)
      BY <3>2 DEF PublishDropped
    <3> QED
      BY <1>8, <3>1, <3>2
  <2> QED
    BY <2>1, <2>2, <2>3
<1>9. ASSUME NEW d \in Declarers, PublisherEnds(d) PROVE TypeOK'
  <2>1. tasks' \in [Declarers -> [0..Period -> 0..MaxTasks]]
    BY <1>9, EndOfTask DEF Steps
  <2> QED
    BY <1>9, <2>1 DEF PublisherEnds
<1>10. CASE Tick
  <2>1. tasks' \in [Declarers -> [0..Period -> 0..MaxTasks]]
    BY <1>10, TasksTick DEF Steps
  <2>2. wake' \in [Declarers -> 0..Period]
    <3>1. \A d \in Declarers : monitor[d] # "none" => wake[d] \in 0..Period /\ wake[d] # 0
      BY <1>10 DEF Tick, Settled, Due
    <3>2. \A n \in 0..Period : n # 0 => n - 1 \in 0..Period
      OBVIOUS
    <3> QED
      BY <1>0, <1>10, <3>1, <3>2 DEF Tick
  <2>3. silence' \in 0..MaxSilence /\ orphaned' \in 0..MaxOrphaned
    BY <1>0, <1>10 DEF Tick, UpTo
  <2> QED
    BY <1>10, <2>1, <2>2, <2>3 DEF Tick
<1>11. CASE UNCHANGED vars
  BY <1>11 DEF vars
<1> QED
  BY <1>1, <1>2, <1>3, <1>4, <1>5, <1>6, <1>7, <1>8, <1>9, <1>10, <1>11, LossyActions

\* Every step keeps the flags, the monitors and their owners in step.
LEMMA StepMonitorsAgree ==
  ASSUME DInv, Lossy \/ UNCHANGED vars
  PROVE  MonitorsAgree'
<1> USE DEF DInv, TypeOK, MonitorsAgree, monitors,
            history
<1>1. ASSUME NEW d \in Declarers, New(d) PROVE MonitorsAgree'
  BY <1>1 DEF New
<1>2. ASSUME NEW d \in Declarers, Drop(d) PROVE MonitorsAgree'
  BY <1>2 DEF Drop
<1>3. ASSUME NEW d \in Declarers, AlohaWait(d) PROVE MonitorsAgree'
  <2>1. PICK n \in 0..(Period - 1) : wake' = [wake EXCEPT ![d] = n]
    BY <1>3 DEF AlohaWait
  <2> QED
    BY <1>3, <2>1 DEF AlohaWait, AtLoop
<1>4. ASSUME NEW d \in Declarers, AlohaWaitEnds(d) PROVE MonitorsAgree'
  BY <1>4 DEF AlohaWaitEnds, Sleep
<1>5. ASSUME NEW d \in Declarers, FallSilent(d) PROVE MonitorsAgree'
  BY <1>5 DEF FallSilent, Sleep, AtLoop
<1>6. ASSUME NEW d \in Declarers, KeepOn(d) PROVE MonitorsAgree'
  BY <1>6 DEF KeepOn, Sleep, AtLoop
<1>7. ASSUME NEW d \in Declarers, MonitorEnds(d) PROVE MonitorsAgree'
  BY <1>7 DEF MonitorEnds
<1>8. ASSUME NEW d \in Declarers,
             Publish(d) \/ PublishDropped(d)
      PROVE  MonitorsAgree'
  <2>1. UNCHANGED <<monitor_running, monitor, wake, beacon_flag, dropped>>
    BY <1>8 DEF Publish, PublishDropped
  <2>2. \A e \in Declarers : remote_beacons'[e] => remote_beacons[e] \/ monitor[e] # "none"
    <3>1. CASE Publish(d)
      BY <3>1 DEF Publish
    <3>2. CASE PublishDropped(d)
      BY <3>2 DEF PublishDropped
    <3> QED
      BY <1>8, <3>1, <3>2
  <2> QED
    BY <2>1, <2>2
<1>9. ASSUME NEW d \in Declarers, PublisherEnds(d) PROVE MonitorsAgree'
  BY <1>9 DEF PublisherEnds
<1>10. CASE Tick
  BY <1>10 DEF Tick
<1>11. CASE UNCHANGED vars
  BY <1>11 DEF vars
<1> QED
  BY <1>1, <1>2, <1>3, <1>4, <1>5, <1>6, <1>7, <1>8, <1>9, <1>10, <1>11, LossyActions

\* Every step keeps a publishing task for whoever is told to beacon.
LEMMA StepTasksGoOn ==
  ASSUME DInv, Lossy \/ UNCHANGED vars
  PROVE  TasksGoOn'
<1> USE DEF DInv, TypeOK, monitors, history
<1>0. 0 \in Steps /\ Period \in Steps
  BY DEF Steps
<1>1. ASSUME NEW d \in Declarers, New(d) PROVE TasksGoOn'
  BY <1>0, <1>1, TaskAdded DEF New, TasksGoOn
<1>2. ASSUME NEW d \in Declarers, Drop(d) PROVE TasksGoOn'
  BY <1>2 DEF Drop, TasksGoOn
<1>3. ASSUME NEW d \in Declarers, AlohaWait(d) PROVE TasksGoOn'
  BY <1>3 DEF AlohaWait, TasksGoOn
<1>4. ASSUME NEW d \in Declarers, AlohaWaitEnds(d) PROVE TasksGoOn'
  <2>1. CASE remote_beacons[d]
    BY <1>4, <2>1 DEF AlohaWaitEnds, TasksGoOn
  <2>2. CASE ~remote_beacons[d]
    <3>1. tasks' = WithTask(d) /\ beacon_flag' = [beacon_flag EXCEPT ![d] = TRUE]
      BY <1>4, <2>2 DEF AlohaWaitEnds
    <3>2. tasks'[d][0] > 0 /\ \A e \in Declarers : e # d => tasks'[e] = tasks[e]
      BY <3>1, TaskAdded
    <3>3. \A e \in Declarers : e # d => beacon_flag'[e] = beacon_flag[e]
      BY <3>1
    <3> QED
      BY <1>0, <3>2, <3>3 DEF TasksGoOn
  <2> QED
    BY <2>1, <2>2
<1>5. ASSUME NEW d \in Declarers, FallSilent(d) PROVE TasksGoOn'
  BY <1>5 DEF FallSilent, TasksGoOn
<1>6. ASSUME NEW d \in Declarers, KeepOn(d) PROVE TasksGoOn'
  BY <1>6 DEF KeepOn, TasksGoOn
<1>7. ASSUME NEW d \in Declarers, MonitorEnds(d) PROVE TasksGoOn'
  BY <1>7 DEF MonitorEnds, TasksGoOn
<1>8. ASSUME NEW d \in Declarers,
             Publish(d) \/ PublishDropped(d)
      PROVE  TasksGoOn'
  <2>1. beacon_flag' = beacon_flag
    BY <1>8 DEF Publish, PublishDropped
  <2> QED
    BY <1>0, <1>8, <2>1, RoundOfTask DEF Round, TasksGoOn
<1>9. ASSUME NEW d \in Declarers, PublisherEnds(d) PROVE TasksGoOn'
  <2>1. beacon_flag' = beacon_flag /\ ~beacon_flag[d]
    BY <1>9 DEF PublisherEnds
  <2>2. \A e \in Declarers : e # d => tasks'[e] = tasks[e]
    BY <1>9, EndOfTask
  <2> QED
    BY <2>1, <2>2 DEF TasksGoOn
<1>10. CASE Tick
  <2>1. beacon_flag' = beacon_flag
    BY <1>10 DEF Tick
  <2> QED
    BY <1>10, <2>1, TasksTick DEF TasksGoOn
<1>11. CASE UNCHANGED vars
  BY <1>11 DEF vars, TasksGoOn
<1> QED
  BY <1>1, <1>2, <1>3, <1>4, <1>5, <1>6, <1>7, <1>8, <1>9, <1>10, <1>11, LossyActions

\* What a tick does to the clocks.
LEMMA ClocksTick ==
  ASSUME TypeOK, Tick
  PROVE  /\ \A d \in Declarers : monitor[d] # "none" =>
              wake[d] \in 1..Period /\ wake'[d] = wake[d] - 1
         /\ silence \in Nat /\ silence' \in Nat /\ silence' <= silence + 1
         /\ silence >= 3 * Period => silence' >= 3 * Period
         /\ silence = MaxSilence => silence' = silence
         /\ orphaned \in Nat /\ orphaned' \in Nat /\ orphaned' <= orphaned + 1
         /\ Live # {} => orphaned' = 0
         /\ UNCHANGED <<monitor_running, monitor, beacon_flag, remote_beacons, dropped>>
<1> USE DEF TypeOK
<1>1. \A d \in Declarers : monitor[d] # "none" => wake[d] \in 1..Period
  BY DEF Tick, Settled, Due
<1>2. \A d \in Declarers : monitor[d] # "none" => wake'[d] = wake[d] - 1
  BY DEF Tick
<1>3. /\ MaxSilence \in Nat /\ MaxSilence >= 3 * Period
      /\ MaxOrphaned \in Nat
  BY DEF MaxSilence, MaxOrphaned
<1>4. silence' = UpTo(MaxSilence, silence + 1)
  BY DEF Tick
<1>5. /\ Live # {} => orphaned' = 0
      /\ Live = {} => orphaned' = UpTo(MaxOrphaned, orphaned + 1)
  BY DEF Tick
<1>6. UNCHANGED <<monitor_running, monitor, beacon_flag, remote_beacons, dropped>>
  BY DEF Tick
<1>7. /\ silence \in Nat /\ silence' \in Nat /\ silence' <= silence + 1
      /\ silence >= 3 * Period => silence' >= 3 * Period
      /\ silence = MaxSilence => silence' = silence
  BY <1>3, <1>4 DEF UpTo
<1>8. orphaned \in Nat /\ orphaned' \in Nat /\ orphaned' <= orphaned + 1
  BY <1>3, <1>5 DEF UpTo
<1> QED
  BY <1>1, <1>2, <1>5, <1>6, <1>7, <1>8

\* Every step keeps the bounds on what dropped declarations leave behind.
LEMMA StepOrphansFade ==
  ASSUME DInv, Lossy \/ UNCHANGED vars
  PROVE  OrphansFade'
<1> USE DEF DInv, TypeOK, monitors, history
<1>0. /\ orphaned \in Nat /\ 0 \in Nat /\ Period \in Nat /\ Period > 0
      /\ \A i \in Steps : i \in Nat /\ i <= Period
      /\ \A d \in Declarers : wake[d] \in Nat /\ wake[d] <= Period
  BY DEF MaxOrphaned, Steps
<1>1. ASSUME NEW d \in Declarers, New(d) PROVE OrphansFade'
  <2>1. /\ orphaned' = 0
        /\ \A e \in Declarers : wake'[e] \in Nat /\ wake'[e] <= Period
        /\ \A e \in Declarers : monitor'[e] = "wait" => wake'[e] < Period
    BY <1>0, <1>1 DEF New, MonitorsAgree
  <2>2. \A n \in Nat : n <= Period => n + 0 < 2 * Period /\ n + 0 < 3 * Period
    BY <1>0
  <2>3. \A n \in Nat : n < Period => n + 0 < Period
    OBVIOUS
  <2> HIDE DEF DInv, TypeOK
  <2> QED
    BY <1>0, <2>1, <2>2, <2>3 DEF OrphansFade
<1>2. ASSUME NEW d \in Declarers, Drop(d) PROVE OrphansFade'
  BY <1>2 DEF Drop, OrphansFade
<1>3. ASSUME NEW d \in Declarers, AlohaWait(d) PROVE OrphansFade'
  <2>1. PICK n \in 0..(Period - 1) : wake' = [wake EXCEPT ![d] = n]
    BY <1>3 DEF AlohaWait
  <2>2. orphaned = 0
    BY <1>3 DEF AlohaWait, AtLoop, OrphansFade
  <2>3. UNCHANGED <<monitor_running, tasks,
                    orphaned>> /\ monitor' = [monitor EXCEPT ![d] = "wait"]
    BY <1>3 DEF AlohaWait
  <2> QED
    BY <1>0, <2>1, <2>2, <2>3 DEF OrphansFade
<1>4. ASSUME NEW d \in Declarers, AlohaWaitEnds(d) PROVE OrphansFade'
  <2>1. /\ UNCHANGED <<monitor_running, orphaned>>
        /\ monitor' = [monitor EXCEPT ![d] = "sleep"]
        /\ wake' = [wake EXCEPT ![d] = Period]
        /\ \A e \in Declarers : e # d => tasks'[e] = tasks[e]
        /\ monitor[d] = "wait" /\ wake[d] = 0
    <3>1. /\ UNCHANGED <<monitor_running, orphaned>>
          /\ monitor' = [monitor EXCEPT ![d] = "sleep"]
          /\ wake' = [wake EXCEPT ![d] = Period]
          /\ monitor[d] = "wait" /\ wake[d] = 0
          /\ tasks' = tasks \/ tasks' = WithTask(d)
      BY <1>4 DEF AlohaWaitEnds, Sleep
    <3>2. \A e \in Declarers : e # d => WithTask(d)[e] = tasks[e]
      BY TaskAdded
    <3> HIDE DEF DInv, TypeOK
    <3> QED
      BY <3>1, <3>2
  <2>2. orphaned < Period
    BY <1>0, <2>1 DEF OrphansFade
  <2>3. wake'[d] + orphaned' < 2 * Period /\ monitor'[d] = "sleep"
    BY <1>0, <2>1, <2>2
  <2>4. ~monitor_running[d] \/ orphaned = 0
    BY DEF OrphansFade
  <2>5. \A e \in Declarers : e # d =>
          monitor'[e] = monitor[e] /\ wake'[e] = wake[e] /\ tasks'[e] = tasks[e]
    BY <2>1
  <2> HIDE DEF TypeOK
  <2> QED
    BY <2>1, <2>3, <2>4, <2>5 DEF OrphansFade
<1>5. ASSUME NEW d \in Declarers, FallSilent(d) \/ KeepOn(d)
      PROVE  OrphansFade'
  <2>1. /\ UNCHANGED <<monitor_running, tasks, orphaned>>
        /\ monitor' = [monitor EXCEPT ![d] = "sleep"]
        /\ wake' = [wake EXCEPT ![d] = Period]
        /\ monitor_running[d]
    BY <1>5 DEF FallSilent, KeepOn, Sleep,
       AtLoop
  <2>2. orphaned = 0
    BY <2>1 DEF OrphansFade
  <2> QED
    BY <1>0, <2>1, <2>2 DEF OrphansFade
<1>6. ASSUME NEW d \in Declarers, MonitorEnds(d) PROVE OrphansFade'
  <2>1. /\ UNCHANGED <<monitor_running, wake, tasks, orphaned>>
        /\ monitor' = [monitor EXCEPT ![d] = "none"]
        /\ monitor[d] = "sleep" /\ wake[d] = 0
    BY <1>6 DEF MonitorEnds
  <2>2. orphaned < 2 * Period
    BY <1>0, <2>1 DEF OrphansFade
  <2>3. \A i \in Steps : i + orphaned < 3 * Period
    BY <1>0, <2>2
  <2>4. monitor'[d] = "none" /\ \A e \in Declarers : e # d => monitor'[e] = monitor[e]
    BY <2>1
  <2>5. OrphansFade
    OBVIOUS
  <2> HIDE DEF DInv, TypeOK
  <2> QED
    BY <2>1, <2>3, <2>4, <2>5 DEF OrphansFade
<1>7. ASSUME NEW d \in Declarers,
             Publish(d) \/ PublishDropped(d)
      PROVE  OrphansFade'
  <2>1. UNCHANGED <<monitor_running, monitor, wake, orphaned>> /\ beacon_flag[d]
    BY <1>7 DEF Publish, PublishDropped
  <2>2. monitor[d] # "none"
    BY <2>1 DEF MonitorsAgree
  <2>3. \A e \in Declarers : e # d => tasks'[e] = tasks[e]
    BY <1>7, RoundOfTask DEF Round
  <2> QED
    BY <2>1, <2>2, <2>3 DEF OrphansFade
<1>8. ASSUME NEW d \in Declarers, PublisherEnds(d) PROVE OrphansFade'
  <2>1. UNCHANGED <<monitor_running, monitor, wake, orphaned>>
    BY <1>8 DEF PublisherEnds
  <2> QED
    BY <1>8, <2>1, EndOfTask DEF OrphansFade
<1>9. CASE Tick
  <2> SUFFICES ASSUME NEW d \in Declarers
               PROVE  /\ monitor_running'[d] => orphaned' = 0
                      /\ monitor'[d] = "wait" => wake'[d] + orphaned' < Period
                      /\ monitor'[d] = "sleep" => wake'[d] + orphaned' < 2 * Period
                      /\ monitor'[d] = "none" =>
                           \A i \in Steps : tasks'[d][i] > 0 => i + orphaned' < 3 * Period
    BY DEF OrphansFade, Steps
  <2>1. monitor_running' = monitor_running /\ monitor' = monitor
    BY <1>9, ClocksTick
  <2>2. /\ orphaned' \in Nat /\ orphaned' <= orphaned + 1
        /\ Live # {} => orphaned' = 0
    BY <1>9, ClocksTick
  <2>3. monitor[d] # "none" => wake[d] \in 1..Period /\ wake'[d] = wake[d] - 1
    BY <1>9, ClocksTick
  <2>4. monitor_running'[d] => orphaned' = 0
    BY <2>1, <2>2 DEF Live
  <2>a. /\ orphaned \in Nat /\ Period \in Nat /\ wake[d] \in Nat
        /\ monitor[d] = "wait" => wake[d] + orphaned < Period
        /\ monitor[d] = "sleep" => wake[d] + orphaned < 2 * Period
    BY <1>0 DEF OrphansFade
  <2>b. monitor[d] # "none" => wake'[d] + orphaned' <= wake[d] + orphaned /\ wake'[d] \in Nat
    <3> HIDE DEF DInv, TypeOK
    <3> QED
      BY <2>2, <2>3, <2>a
  <2>5. monitor'[d] = "wait" => wake'[d] + orphaned' < Period
    <3> HIDE DEF DInv, TypeOK
    <3> QED
      BY <2>1, <2>2, <2>a, <2>b
  <2>6. monitor'[d] = "sleep" => wake'[d] + orphaned' < 2 * Period
    <3> HIDE DEF DInv, TypeOK
    <3> QED
      BY <2>1, <2>2, <2>a, <2>b
  <2>7. ASSUME monitor'[d] = "none", NEW i \in Steps, tasks'[d][i] > 0
        PROVE  i + orphaned' < 3 * Period
    <3>1. i + 1 \in Steps /\ tasks[d][i + 1] > 0
      BY <1>9, <2>7, TasksTick
    <3>2. i + 1 + orphaned < 3 * Period
      BY <2>1, <2>7, <3>1 DEF OrphansFade
    <3>3. i \in Nat /\ orphaned \in Nat /\ Period \in Nat
      BY <1>0
    <3> HIDE DEF DInv, TypeOK
    <3> QED
      BY <2>2, <3>2, <3>3
  <2> QED
    BY <2>4, <2>5, <2>6, <2>7
<1>10. CASE UNCHANGED vars
  BY <1>10 DEF vars, OrphansFade
<1> QED
  BY <1>1, <1>2, <1>3, <1>4, <1>5, <1>6, <1>7, <1>8, <1>9, <1>10, LossyActions

\* The invariants above are inductive, lost beacons or not.
LEMMA StepDInv ==
  ASSUME DInv, Lossy \/ UNCHANGED vars
  PROVE  DInv'
  BY StepDTypeOK, StepMonitorsAgree, StepTasksGoOn, StepOrphansFade DEF DInv

-----------------------------------------------------------------------------
\* Invariants of the declarations when no beacon is lost.

\* A task of d sends a beacon before the silence is longer than a period, or at
\* once, before d looks at what it heard.
BeaconsSoon(d) ==
  \E i \in Steps :
    /\ tasks[d][i] > 0
    /\ \/ i + silence <= Period
       \/ i = 0 /\ ~remote_beacons[d]

\* How long the silence may have been for each state of a monitor.
SilenceIsBounded ==
  \A d \in Declarers :
    /\ beacon_flag[d] => BeaconsSoon(d)
    /\ monitor[d] = "sleep" /\ ~beacon_flag[d] =>
         /\ remote_beacons[d] => wake[d] + silence < 2 * Period
         /\ wake[d] + silence < 3 * Period
    /\ monitor[d] = "wait" =>
         /\ remote_beacons[d] => wake[d] + silence < Period
         /\ wake[d] + silence <= 4 * Period - 2

\* A declaration that is going to beacon within three periods of the last beacon
\* whatever the others do: it does, or it will hear of nobody and start.
Speaks(d) ==
  /\ monitor_running[d]
  /\ \/ beacon_flag[d] /\ BeaconsSoon(d)
     \/ /\ monitor[d] = "sleep" /\ ~beacon_flag[d] /\ ~remote_beacons[d]
        /\ wake[d] + silence <= 2 * Period
     \/ /\ monitor[d] = "wait" /\ ~remote_beacons[d]
        /\ wake[d] + silence < 3 * Period

\* As long as nobody drops a declaration there is such a one, unless the key was
\* never declared; and after the first beacon the silence stays short.
KeyIsSpoken ==
  \/ dropped
  \/ Live = {} /\ silence = MaxSilence
  \/ /\ \E d \in Declarers : Speaks(d)
     /\ silence < 3 * Period \/ silence = MaxSilence

\* With the two bounds on the silence: kept as long as no beacon is lost.
LInv == DInv /\ SilenceIsBounded /\ KeyIsSpoken

\* Nothing is declared at first, and the silence is as long as it gets.
LEMMA InitLInv == Init => LInv
<1> SUFFICES ASSUME Init PROVE LInv
  OBVIOUS
<1>1. \A d \in Declarers : monitor[d] = "none" /\ ~beacon_flag[d] /\ ~monitor_running[d]
  BY DEF Init
<1>2. SilenceIsBounded
  BY <1>1 DEF SilenceIsBounded
<1>3. KeyIsSpoken
  BY <1>1 DEF KeyIsSpoken, Live, Init
<1> QED
  BY <1>2, <1>3, InitDInv DEF LInv

\* The quantities the invariants compare.
LEMMA Quantities ==
  ASSUME DInv
  PROVE  /\ Period \in Nat /\ Period > 0 /\ silence \in Nat
         /\ \A i \in Steps : i \in Nat /\ i <= Period
         /\ \A d \in Declarers : wake[d] \in Nat /\ wake[d] <= Period
         /\ \A d \in Declarers : monitor[d] \in {"none", "sleep", "wait"}
         /\ sending_beacons = beacon_flag
         /\ 0 \in Steps /\ Period \in Steps
  BY DEF DInv, TypeOK, MaxSilence, Steps

\* Right after a beacon whoever is told to beacon does so within a period.
LEMMA SoonAfterBeacon ==
  ASSUME DInv, NEW x \in Declarers, Publish(x),
         NEW d \in Declarers, beacon_flag[d]
  PROVE  BeaconsSoon(d)'
<1>1. silence' = 0 /\ beacon_flag' = beacon_flag
  BY DEF Publish, monitors
<1>2. TasksGoOn'
  BY StepTasksGoOn DEF Lossy, Next, Publisher
<1>3. PICK i \in Steps : tasks'[d][i] > 0
  BY <1>1, <1>2 DEF TasksGoOn
<1>4. i + silence' <= Period
  BY <1>1, Quantities
<1> QED
  BY <1>3, <1>4 DEF BeaconsSoon, Steps

\* Nobody is late when time goes on.
LEMMA SoonAfterTick ==
  ASSUME DInv, Tick, NEW d \in Declarers, BeaconsSoon(d)
  PROVE  silence < Period /\ BeaconsSoon(d)'
<1> USE Quantities
<1>1. PICK i \in Steps : /\ tasks[d][i] > 0
                         /\ \/ i + silence <= Period
                            \/ i = 0 /\ ~remote_beacons[d]
  BY DEF BeaconsSoon
<1>2. i > 0 /\ i - 1 \in Steps /\ tasks'[d][i - 1] > 0
  BY <1>1, TasksTick DEF DInv
<1>3. i + silence <= Period
  BY <1>1, <1>2
<1>4. silence' \in Nat /\ silence' <= silence + 1
  BY ClocksTick DEF DInv
<1>5. i - 1 + silence' <= Period
  BY <1>2, <1>3, <1>4
<1> QED
  BY <1>2, <1>3, <1>5 DEF BeaconsSoon, Steps

\* Nobody gets late by a step that takes no time.
LEMMA SoonStays ==
  ASSUME DInv, NEW d \in Declarers, BeaconsSoon(d), silence' = silence,
         remote_beacons'[d] => remote_beacons[d],
         \A i \in Steps : tasks[d][i] > 0 => tasks'[d][i] > 0
  PROVE  BeaconsSoon(d)'
  BY DEF BeaconsSoon, Steps

\* A task that is due is soon enough.
LEMMA SoonWhenDue ==
  ASSUME NEW d \in Declarers, tasks'[d][0] > 0, ~remote_beacons'[d]
  PROVE  BeaconsSoon(d)'
  BY DEF BeaconsSoon, Steps

\* The actions when no beacon is lost.
LEMMA LosslessActions ==
  ASSUME Next \/ UNCHANGED vars
  PROVE  \/ \E d \in Declarers :
              \/ New(d)
              \/ Drop(d)
              \/ AlohaWait(d)
              \/ AlohaWaitEnds(d)
              \/ FallSilent(d)
              \/ KeepOn(d)
              \/ MonitorEnds(d)
              \/ Publish(d)
              \/ PublisherEnds(d)
         \/ Tick
         \/ UNCHANGED vars
  BY DEF Next, Monitor, Publisher

\* What SilenceIsBounded says of d.
Bounded(d) ==
  /\ beacon_flag[d] => BeaconsSoon(d)
  /\ monitor[d] = "sleep" /\ ~beacon_flag[d] =>
       /\ remote_beacons[d] => wake[d] + silence < 2 * Period
       /\ wake[d] + silence < 3 * Period
  /\ monitor[d] = "wait" =>
       /\ remote_beacons[d] => wake[d] + silence < Period
       /\ wake[d] + silence <= 4 * Period - 2

\* A step of d that takes no time does not matter to another declaration.
LEMMA OthersStayBounded ==
  ASSUME DInv, NEW d \in Declarers, NEW e \in Declarers, e # d, Bounded(e),
         silence' = silence,
         UNCHANGED <<monitor[e], wake[e], beacon_flag[e], remote_beacons[e], tasks[e]>>
  PROVE  Bounded(e)'
  BY SoonStays DEF Bounded

\* Every step keeps the bounds on the silence.
LEMMA StepSilenceIsBounded ==
  ASSUME LInv, Next \/ UNCHANGED vars
  PROVE  SilenceIsBounded'
<1>0. DInv /\ \A d \in Declarers : Bounded(d)
  BY DEF LInv, SilenceIsBounded, Bounded
<1> SUFFICES ASSUME NEW e \in Declarers PROVE Bounded(e)'
  BY DEF SilenceIsBounded, Bounded
<1>a. Bounded(e)
  BY <1>0
<1> USE <1>0, Quantities
<1>t. /\ monitor \in [Declarers -> {"none", "sleep", "wait"}]
      /\ wake \in [Declarers -> 0..Period]
      /\ beacon_flag \in [Declarers -> BOOLEAN]
      /\ remote_beacons \in [Declarers -> BOOLEAN]
      /\ tasks \in [Declarers -> [Steps -> 0..MaxTasks]]
      /\ TypeOK
  BY DEF DInv, TypeOK, Steps
<1>1. ASSUME NEW d \in Declarers, New(d) PROVE Bounded(e)'
  <2>1. CASE e = d
    <3>1. /\ beacon_flag'[d] /\ monitor'[d] = "sleep"
          /\ remote_beacons' = remote_beacons /\ monitor[d] = "none"
          /\ tasks' = WithTask(d)
      BY <1>1, <1>t DEF New
    <3>2. tasks'[d][0] > 0 /\ ~remote_beacons'[d]
      BY <1>t, <3>1, TaskAdded DEF DInv, MonitorsAgree
    <3> QED
      BY <2>1, <3>1, <3>2, SoonWhenDue DEF Bounded
  <2>2. CASE e # d
    <3>1. UNCHANGED <<monitor[e], wake[e], beacon_flag[e], remote_beacons[e], tasks[e]>>
      BY <1>1, <1>t, <2>2, TaskAdded DEF New
    <3>2. silence' = silence
      BY <1>1 DEF New
    <3> QED
      BY <1>a, <2>2, <3>1, <3>2, OthersStayBounded
  <2> QED
    BY <2>1, <2>2
<1>2. ASSUME NEW d \in Declarers, Drop(d) PROVE Bounded(e)'
  BY <1>2, <1>a, SoonStays DEF Drop, Bounded
<1>3. ASSUME NEW d \in Declarers, AlohaWait(d) PROVE Bounded(e)'
  <2>1. /\ monitor[d] = "sleep" /\ wake[d] = 0 /\ ~remote_beacons[d] /\ ~beacon_flag[d]
        /\ monitor' = [monitor EXCEPT ![d] = "wait"]
        /\ UNCHANGED <<beacon_flag, remote_beacons, tasks, silence>>
    BY <1>3 DEF AlohaWait, AtLoop, history
  <2>2. PICK n \in 0..(Period - 1) : wake' = [wake EXCEPT ![d] = n]
    BY <1>3 DEF AlohaWait
  <2>3. CASE e = d
    <3>1. silence < 3 * Period
      BY <1>a, <2>1, <2>3 DEF Bounded
    <3>2. wake'[d] + silence' <= 4 * Period - 2
      BY <1>t, <2>1, <2>2, <3>1
    <3> QED
      BY <1>t, <2>1, <2>3, <3>2 DEF Bounded
  <2>4. CASE e # d
    BY <1>a, <1>t, <2>1, <2>2, <2>4, OthersStayBounded
  <2> QED
    BY <2>3, <2>4
<1>4. ASSUME NEW d \in Declarers, AlohaWaitEnds(d) PROVE Bounded(e)'
  <2>1. /\ monitor[d] = "wait" /\ wake[d] = 0
        /\ monitor' = [monitor EXCEPT ![d] = "sleep"]
        /\ wake' = [wake EXCEPT ![d] = Period]
        /\ UNCHANGED <<remote_beacons, silence>>
    BY <1>4 DEF AlohaWaitEnds, Sleep, history
  <2>2. CASE e = d /\ remote_beacons[d]
    <3>1. beacon_flag' = beacon_flag /\ ~beacon_flag[d]
      BY <1>4, <2>1, <2>2 DEF AlohaWaitEnds, DInv, MonitorsAgree
    <3>2. silence < Period
      BY <1>a, <2>1, <2>2 DEF Bounded
    <3>3. wake'[d] + silence' < 2 * Period
      BY <1>t, <2>1, <3>2
    <3> QED
      BY <1>t, <2>1, <2>2, <3>1, <3>3 DEF Bounded
  <2>3. CASE e = d /\ ~remote_beacons[d]
    <3>1. tasks' = WithTask(d) /\ beacon_flag'[d] /\ monitor'[d] = "sleep"
      BY <1>4, <1>t, <2>3 DEF AlohaWaitEnds, Sleep
    <3>2. tasks'[d][0] > 0 /\ ~remote_beacons'[d]
      BY <1>t, <2>1, <2>3, <3>1, TaskAdded
    <3> QED
      BY <2>3, <3>1, <3>2, SoonWhenDue DEF Bounded
  <2>4. CASE e # d
    <3>1. beacon_flag'[e] = beacon_flag[e] /\ tasks'[e] = tasks[e]
      BY <1>4, <1>t, <2>4, TaskAdded DEF AlohaWaitEnds
    <3> QED
      BY <1>a, <1>t, <2>1, <2>4, <3>1, OthersStayBounded
  <2> QED
    BY <2>2, <2>3, <2>4
<1>5. ASSUME NEW d \in Declarers, FallSilent(d) PROVE Bounded(e)'
  <2>1. /\ wake[d] = 0 /\ remote_beacons[d] /\ beacon_flag[d]
        /\ monitor' = [monitor EXCEPT ![d] = "sleep"]
        /\ wake' = [wake EXCEPT ![d] = Period]
        /\ beacon_flag' = [beacon_flag EXCEPT ![d] = FALSE]
        /\ remote_beacons' = [remote_beacons EXCEPT ![d] = FALSE]
        /\ UNCHANGED <<tasks, silence>>
    BY <1>5 DEF FallSilent, AtLoop, Sleep,
       history
  <2>2. CASE e = d
    <3>1. silence <= Period
      BY <1>a, <2>1, <2>2 DEF Bounded, BeaconsSoon
    <3>2. wake'[d] + silence' < 3 * Period
      BY <1>t, <2>1, <3>1
    <3> QED
      BY <1>t, <2>1, <2>2, <3>2 DEF Bounded
  <2>3. CASE e # d
    BY <1>a, <1>t, <2>1, <2>3, OthersStayBounded
  <2> QED
    BY <2>2, <2>3
<1>6. ASSUME NEW d \in Declarers, KeepOn(d) PROVE Bounded(e)'
  <2>1. /\ monitor[d] = "sleep" /\ wake[d] = 0 /\ (remote_beacons[d] \/ beacon_flag[d])
        /\ monitor' = [monitor EXCEPT ![d] = "sleep"]
        /\ wake' = [wake EXCEPT ![d] = Period]
        /\ remote_beacons' = [remote_beacons EXCEPT ![d] = FALSE]
        /\ UNCHANGED <<beacon_flag, tasks, silence>>
    BY <1>6 DEF KeepOn, AtLoop, Sleep,
       history
  <2>2. CASE e = d /\ beacon_flag[d]
    <3>1. BeaconsSoon(d)'
      BY <1>a, <1>t, <2>1, <2>2, SoonStays DEF Bounded
    <3> QED
      BY <1>t, <2>1, <2>2, <3>1 DEF Bounded
  <2>3. CASE e = d /\ ~beacon_flag[d]
    <3>1. silence < 2 * Period
      BY <1>a, <2>1, <2>3 DEF Bounded
    <3>2. wake'[d] + silence' < 3 * Period
      BY <1>t, <2>1, <3>1
    <3> QED
      BY <1>t, <2>1, <2>3, <3>2 DEF Bounded
  <2>4. CASE e # d
    BY <1>a, <1>t, <2>1, <2>4, OthersStayBounded
  <2> QED
    BY <2>2, <2>3, <2>4
<1>7. ASSUME NEW d \in Declarers, MonitorEnds(d) PROVE Bounded(e)'
  <2>1. /\ monitor' = [monitor EXCEPT ![d] = "none"]
        /\ beacon_flag' = [beacon_flag EXCEPT ![d] = FALSE]
        /\ remote_beacons' = [remote_beacons EXCEPT ![d] = FALSE]
        /\ UNCHANGED <<wake, tasks, silence>>
    BY <1>7 DEF MonitorEnds, history
  <2>2. CASE e = d
    BY <1>t, <2>1, <2>2 DEF Bounded
  <2>3. CASE e # d
    BY <1>a, <1>t, <2>1, <2>3, OthersStayBounded
  <2> QED
    BY <2>2, <2>3
<1>8. ASSUME NEW d \in Declarers, Publish(d) PROVE Bounded(e)'
  <2>1. UNCHANGED <<monitor, wake, beacon_flag>> /\ silence' = 0
    BY <1>8 DEF Publish, monitors
  <2>2. beacon_flag'[e] => BeaconsSoon(e)'
    BY <1>8, <2>1, SoonAfterBeacon
  <2>3. monitor[e] = "wait" => wake[e] < Period
    BY DEF DInv, MonitorsAgree
  <2>4. /\ wake[e] + 0 < 2 * Period /\ wake[e] + 0 < 3 * Period
        /\ wake[e] < Period => wake[e] + 0 < Period /\ wake[e] + 0 <= 4 * Period - 2
    OBVIOUS
  <2> QED
    BY <2>1, <2>2, <2>3, <2>4 DEF Bounded
<1>9. ASSUME NEW d \in Declarers, PublisherEnds(d) PROVE Bounded(e)'
  <2>1. UNCHANGED <<monitor, wake, beacon_flag, remote_beacons,
                    silence>> /\ ~beacon_flag[d]
    BY <1>9 DEF PublisherEnds, monitors, history
  <2>2. e # d => tasks'[e] = tasks[e]
    BY <1>9, <1>t, EndOfTask
  <2>3. CASE e = d
    BY <1>a, <2>1, <2>3 DEF Bounded
  <2>4. CASE e # d
    BY <1>a, <2>1, <2>2, <2>4, OthersStayBounded
  <2> QED
    BY <2>3, <2>4
<1>10. CASE Tick
  <2>1. /\ monitor[e] # "none" => wake[e] \in 1..Period /\ wake'[e] = wake[e] - 1
        /\ silence' \in Nat /\ silence' <= silence + 1
        /\ UNCHANGED <<monitor, beacon_flag, remote_beacons>>
    BY <1>10, <1>t, ClocksTick
  <2>2. beacon_flag'[e] => BeaconsSoon(e)'
    BY <1>10, <1>a, <2>1, SoonAfterTick DEF Bounded
  <2>3. monitor[e] # "none" => wake'[e] + silence' <= wake[e] + silence /\ wake'[e] + silence' \in Nat
    BY <2>1
  <2>4. wake[e] + silence \in Nat
    OBVIOUS
  <2> QED
    BY <1>a, <2>1, <2>2, <2>3, <2>4 DEF Bounded
<1>11. CASE UNCHANGED vars
  BY <1>11, <1>a, SoonStays DEF vars, monitors,
     history, Bounded
<1> QED
  BY <1>1, <1>2, <1>3, <1>4, <1>5, <1>6, <1>7, <1>8, <1>9, <1>10, <1>11, LosslessActions

\* A step of d that takes no time does not keep another declaration from speaking.
LEMMA OthersStillSpeak ==
  ASSUME DInv, NEW d \in Declarers, NEW e \in Declarers, e # d, Speaks(e),
         silence' = silence,
         UNCHANGED <<monitor_running[e], monitor[e], wake[e], beacon_flag[e],
                     remote_beacons[e], tasks[e]>>
  PROVE  Speaks(e)'
  BY SoonStays DEF Speaks

\* Who speaks when everybody has done what is due has been silent for less than
\* three periods.
LEMMA SpokenWhenSettled ==
  ASSUME DInv, Settled, NEW d \in Declarers, Speaks(d)
  PROVE  silence < 3 * Period - 1
<1> USE Quantities
<1>1. monitor[d] # "none" => wake[d] > 0
  BY DEF Settled, Due
<1>2. ~(tasks[d][0] > 0)
  BY DEF Settled, Due
<1>3. CASE beacon_flag[d] /\ BeaconsSoon(d)
  <2>1. PICK i \in Steps : /\ tasks[d][i] > 0
                           /\ \/ i + silence <= Period
                              \/ i = 0 /\ ~remote_beacons[d]
    BY <1>3 DEF BeaconsSoon
  <2>2. i # 0 /\ i + silence <= Period
    BY <1>2, <2>1
  <2> QED
    BY <2>2
<1>4. CASE monitor[d] = "sleep" /\ wake[d] + silence <= 2 * Period
  BY <1>1, <1>4
<1>5. CASE monitor[d] = "wait" /\ wake[d] + silence < 3 * Period
  BY <1>1, <1>5
<1> QED
  BY <1>3, <1>4, <1>5 DEF Speaks

\* Every step leaves somebody who speaks, unless somebody is dropped.
LEMMA StepKeyIsSpoken ==
  ASSUME LInv, Next \/ UNCHANGED vars
  PROVE  KeyIsSpoken'
<1> SUFFICES ASSUME ~dropped' PROVE KeyIsSpoken'
  BY DEF KeyIsSpoken
<1>0. DInv /\ KeyIsSpoken
  BY DEF LInv
<1> USE <1>0, Quantities
<1>t. /\ monitor_running \in [Declarers -> BOOLEAN]
      /\ monitor \in [Declarers -> {"none", "sleep", "wait"}]
      /\ wake \in [Declarers -> 0..Period]
      /\ beacon_flag \in [Declarers -> BOOLEAN]
      /\ remote_beacons \in [Declarers -> BOOLEAN]
      /\ tasks \in [Declarers -> [Steps -> 0..MaxTasks]]
      /\ TypeOK
      /\ dropped \in BOOLEAN
  BY DEF DInv, TypeOK, Steps
<1>m. ASSUME ~dropped, NEW d \in Declarers, monitor[d] # "none"
      PROVE  /\ monitor_running[d]
             /\ \E e \in Declarers : Speaks(e)
             /\ silence < 3 * Period \/ silence = MaxSilence
  <2>1. monitor_running[d]
    BY <1>m DEF DInv, MonitorsAgree
  <2>2. d \in Live
    BY <2>1 DEF Live
  <2> QED
    BY <1>m, <2>1, <2>2 DEF KeyIsSpoken
<1>1. ASSUME NEW d \in Declarers, New(d) PROVE KeyIsSpoken'
  <2>1. /\ beacon_flag'[d] /\ monitor_running'[d] /\ monitor[d] = "none"
        /\ remote_beacons' = remote_beacons
        /\ tasks' = WithTask(d)
        /\ silence' = silence /\ dropped' = dropped
    BY <1>1, <1>t DEF New
  <2>2. tasks'[d][0] > 0 /\ ~remote_beacons'[d]
    BY <1>t, <2>1, TaskAdded DEF DInv, MonitorsAgree
  <2>3. Speaks(d)'
    BY <2>1, <2>2, SoonWhenDue DEF Speaks
  <2>4. silence < 3 * Period \/ silence = MaxSilence
    BY <2>1 DEF KeyIsSpoken
  <2> QED
    BY <2>1, <2>3, <2>4 DEF KeyIsSpoken, MaxSilence
<1>2. ASSUME NEW d \in Declarers, Drop(d) PROVE KeyIsSpoken'
  BY <1>2 DEF Drop
<1>3. ASSUME NEW d \in Declarers, AlohaWait(d) PROVE KeyIsSpoken'
  <2>1. /\ monitor[d] = "sleep" /\ wake[d] = 0 /\ ~remote_beacons[d] /\ ~beacon_flag[d]
        /\ monitor' = [monitor EXCEPT ![d] = "wait"]
        /\ UNCHANGED <<monitor_running, beacon_flag, remote_beacons, tasks, silence,
                       dropped>>
    BY <1>3 DEF AlohaWait, AtLoop, history
  <2>2. PICK n \in 0..(Period - 1) : wake' = [wake EXCEPT ![d] = n]
    BY <1>3 DEF AlohaWait
  <2>3. PICK e \in Declarers : Speaks(e)
    BY <1>m, <2>1
  <2>4. ASSUME e = d PROVE Speaks(e)'
    <3>1. silence <= 2 * Period /\ monitor_running[d]
      BY <2>1, <2>3, <2>4 DEF Speaks
    <3>2. wake'[d] + silence' < 3 * Period
      BY <1>t, <2>1, <2>2, <3>1
    <3> QED
      BY <1>t, <2>1, <2>4, <3>1, <3>2 DEF Speaks
  <2>5. ASSUME e # d PROVE Speaks(e)'
    BY <1>t, <2>1, <2>2, <2>3, <2>5, OthersStillSpeak
  <2>6. Speaks(e)'
    BY <2>4, <2>5
  <2> QED
    BY <1>m, <2>1, <2>6 DEF KeyIsSpoken, MaxSilence
<1>4. ASSUME NEW d \in Declarers, AlohaWaitEnds(d) PROVE KeyIsSpoken'
  <2>1. /\ monitor[d] = "wait" /\ wake[d] = 0
        /\ monitor' = [monitor EXCEPT ![d] = "sleep"]
        /\ wake' = [wake EXCEPT ![d] = Period]
        /\ UNCHANGED <<monitor_running, remote_beacons, silence, dropped>>
    BY <1>4 DEF AlohaWaitEnds, Sleep, history
  <2>2. ~beacon_flag[d]
    BY <2>1 DEF DInv, MonitorsAgree
  <2>3. PICK e \in Declarers : Speaks(e)
    BY <1>m, <2>1
  <2>4. ASSUME e = d PROVE Speaks(e)'
    <3>1. ~remote_beacons[d] /\ monitor_running[d]
      BY <2>1, <2>2, <2>3, <2>4 DEF Speaks
    <3>2. tasks' = WithTask(d) /\ beacon_flag'[d]
      BY <1>4, <1>t, <3>1 DEF AlohaWaitEnds
    <3>3. tasks'[d][0] > 0 /\ ~remote_beacons'[d]
      BY <1>t, <2>1, <3>1, <3>2, TaskAdded
    <3> QED
      BY <2>1, <2>4, <3>1, <3>2, <3>3, SoonWhenDue DEF Speaks
  <2>5. ASSUME e # d PROVE Speaks(e)'
    <3>1. beacon_flag'[e] = beacon_flag[e] /\ tasks'[e] = tasks[e]
      BY <1>4, <1>t, <2>5, TaskAdded DEF AlohaWaitEnds
    <3> QED
      BY <1>t, <2>1, <2>3, <2>5, <3>1, OthersStillSpeak
  <2>6. Speaks(e)'
    BY <2>4, <2>5
  <2> QED
    BY <1>m, <2>1, <2>6 DEF KeyIsSpoken, MaxSilence
<1>5. ASSUME NEW d \in Declarers, FallSilent(d) PROVE KeyIsSpoken'
  <2>1. /\ monitor[d] = "sleep" /\ remote_beacons[d] /\ beacon_flag[d]
        /\ monitor' = [monitor EXCEPT ![d] = "sleep"]
        /\ wake' = [wake EXCEPT ![d] = Period]
        /\ beacon_flag' = [beacon_flag EXCEPT ![d] = FALSE]
        /\ remote_beacons' = [remote_beacons EXCEPT ![d] = FALSE]
        /\ UNCHANGED <<monitor_running, tasks, silence, dropped>>
    BY <1>5 DEF FallSilent, AtLoop, Sleep,
       history
  <2>2. PICK e \in Declarers : Speaks(e)
    BY <1>m, <2>1
  <2>3. ASSUME e = d PROVE Speaks(e)'
    <3>1. silence <= Period /\ monitor_running[d]
      BY <2>1, <2>2, <2>3 DEF Speaks, BeaconsSoon
    <3>2. wake'[d] + silence' <= 2 * Period
      BY <1>t, <2>1, <3>1
    <3> QED
      BY <1>t, <2>1, <2>3, <3>1, <3>2 DEF Speaks
  <2>4. ASSUME e # d PROVE Speaks(e)'
    BY <1>t, <2>1, <2>2, <2>4, OthersStillSpeak
  <2>5. Speaks(e)'
    BY <2>3, <2>4
  <2> QED
    BY <1>m, <2>1, <2>5 DEF KeyIsSpoken, MaxSilence
<1>6. ASSUME NEW d \in Declarers, KeepOn(d) PROVE KeyIsSpoken'
  <2>1. /\ monitor[d] = "sleep" /\ (remote_beacons[d] \/ beacon_flag[d])
        /\ monitor' = [monitor EXCEPT ![d] = "sleep"]
        /\ wake' = [wake EXCEPT ![d] = Period]
        /\ remote_beacons' = [remote_beacons EXCEPT ![d] = FALSE]
        /\ UNCHANGED <<monitor_running, beacon_flag, tasks, silence, dropped>>
    BY <1>6 DEF KeepOn, AtLoop, Sleep,
       history
  <2>2. PICK e \in Declarers : Speaks(e)
    BY <1>m, <2>1
  <2>3. ASSUME e = d PROVE Speaks(e)'
    <3>1. beacon_flag[d] /\ BeaconsSoon(d) /\ monitor_running[d]
      BY <2>1, <2>2, <2>3 DEF Speaks
    <3>2. BeaconsSoon(d)'
      BY <1>t, <2>1, <3>1, SoonStays
    <3> QED
      BY <2>1, <2>3, <3>1, <3>2 DEF Speaks
  <2>4. ASSUME e # d PROVE Speaks(e)'
    BY <1>t, <2>1, <2>2, <2>4, OthersStillSpeak
  <2>5. Speaks(e)'
    BY <2>3, <2>4
  <2> QED
    BY <1>m, <2>1, <2>5 DEF KeyIsSpoken, MaxSilence
<1>7. ASSUME NEW d \in Declarers, MonitorEnds(d) PROVE KeyIsSpoken'
  BY <1>7, <1>m DEF MonitorEnds, history
<1>8. ASSUME NEW d \in Declarers, Publish(d) PROVE KeyIsSpoken'
  <2>1. /\ UNCHANGED <<monitor_running, beacon_flag, dropped>>
        /\ silence' = 0 /\ beacon_flag[d]
    BY <1>8 DEF Publish, monitors
  <2>2. monitor_running[d]
    BY <1>m, <2>1 DEF DInv, MonitorsAgree
  <2>3. Speaks(d)'
    BY <1>8, <2>1, <2>2, SoonAfterBeacon DEF Speaks
  <2>4. silence' < 3 * Period
    BY <2>1
  <2> QED
    BY <2>3, <2>4 DEF KeyIsSpoken
<1>9. ASSUME NEW d \in Declarers, PublisherEnds(d) PROVE KeyIsSpoken'
  <2>1. /\ UNCHANGED <<monitor_running, monitor, wake, beacon_flag, remote_beacons,
                       silence, dropped>>
        /\ ~beacon_flag[d]
    BY <1>9 DEF PublisherEnds, monitors, history
  <2>2. ASSUME NEW e \in Declarers, Speaks(e) PROVE Speaks(e)'
    <3>1. CASE e = d
      BY <2>1, <2>2, <3>1 DEF Speaks
    <3>2. CASE e # d
      <4>1. tasks'[e] = tasks[e]
        BY <1>9, <1>t, <3>2, EndOfTask
      <4> QED
        BY <2>1, <2>2, <3>2, <4>1, OthersStillSpeak
    <3> QED
      BY <3>1, <3>2
  <2> QED
    BY <2>1, <2>2 DEF KeyIsSpoken, Live, MaxSilence
<1>10. CASE Tick
  <2>1. /\ silence' \in Nat /\ silence' <= silence + 1
        /\ silence = MaxSilence => silence' = silence
        /\ UNCHANGED <<monitor_running, monitor, beacon_flag, remote_beacons, dropped>>
    BY <1>10, <1>t, ClocksTick
  <2>2. CASE Live = {} /\ silence = MaxSilence
    BY <2>1, <2>2 DEF KeyIsSpoken, Live, MaxSilence
  <2>3. ASSUME NEW e \in Declarers, Speaks(e) PROVE Speaks(e)' /\ silence' < 3 * Period
    <3>1. silence < 3 * Period - 1
      BY <1>10, <2>3, SpokenWhenSettled DEF Tick
    <3>2. monitor[e] # "none" => wake[e] \in 1..Period /\ wake'[e] = wake[e] - 1
      BY <1>10, <1>t, ClocksTick
    <3>3. ASSUME beacon_flag[e] /\ BeaconsSoon(e) PROVE Speaks(e)'
      BY <1>10, <2>1, <2>3, <3>3, SoonAfterTick DEF Speaks
    <3>4. ASSUME monitor[e] # "none" /\ ~(beacon_flag[e] /\ BeaconsSoon(e)) PROVE Speaks(e)'
      <4>1. wake'[e] + silence' <= wake[e] + silence /\ wake'[e] + silence' \in Nat
        BY <2>1, <3>2, <3>4
      <4> QED
        BY <2>1, <2>3, <3>4, <4>1 DEF Speaks
    <3>5. Speaks(e)'
      BY <2>3, <3>3, <3>4 DEF Speaks
    <3>6. silence' < 3 * Period
      BY <2>1, <3>1
    <3> QED
      BY <3>5, <3>6
  <2> QED
    BY <2>1, <2>2, <2>3 DEF KeyIsSpoken
<1>11. CASE UNCHANGED vars
  <2>1. \A e \in Declarers : Speaks(e) => Speaks(e)'
    BY <1>11 DEF vars, monitors, history, Speaks,
       BeaconsSoon, Steps
  <2> QED
    BY <1>11, <2>1 DEF vars, monitors, history,
       KeyIsSpoken, Live, MaxSilence
<1> QED
  BY <1>1, <1>2, <1>3, <1>4, <1>5, <1>6, <1>7, <1>8, <1>9, <1>10, <1>11, LosslessActions

\* The invariants without losses are inductive.
LEMMA StepLInv == LInv /\ [Next]_vars => LInv'
<1> SUFFICES ASSUME LInv, Next \/ UNCHANGED vars PROVE LInv'
  OBVIOUS
<1>1. DInv'
  BY StepDInv DEF LInv, Lossy
<1> QED
  BY <1>1, StepSilenceIsBounded, StepKeyIsSpoken DEF LInv

\* So they hold for the declarations alone.
LEMMA InductiveLInv == Spec => []LInv
  BY InitLInv, StepLInv, PTL DEF Spec

-----------------------------------------------------------------------------
\* The theorems about AlohaDeclaration.

\* The variables of the declarations keep their types, and the monitors agree with
\* the flags of their tasks.
THEOREM DeclarationsAreTyped == Spec => []TypeOK
<1>1. LInv => TypeOK
  BY DEF LInv, DInv
<1> QED
  BY <1>1, InductiveLInv, PTL

\* As long as nobody drops a declaration of a declared key, its beacons are never
\* three periods apart, however the coins of the monitors fall.
THEOREM DeclaredIsHeard == Spec => []LiveKeyIsHeard
<1>1. LInv => LiveKeyIsHeard
  <2> SUFFICES ASSUME LInv, Settled, Live # {}, ~dropped
               PROVE  silence < 3 * Period
    BY DEF LiveKeyIsHeard
  <2>1. PICK d \in Declarers : Speaks(d)
    BY DEF LInv, KeyIsSpoken
  <2>2. silence < 3 * Period - 1 /\ silence \in Nat /\ Period \in Nat
    BY <2>1, SpokenWhenSettled, Quantities DEF LInv
  <2> QED
    BY <2>2
<1> QED
  BY <1>1, InductiveLInv, PTL

\* Whatever is dropped, the beacons of a declared key are less than four periods
\* apart, by two ticks.
THEOREM DropsAreNoticed == Spec => []SilenceIsShort
<1>1. LInv => SilenceIsShort
  <2> SUFFICES ASSUME LInv, Settled, Live # {}
               PROVE  silence < 4 * Period - 2
    BY DEF SilenceIsShort
  <2> USE Quantities
  <2>0. DInv /\ SilenceIsBounded
    BY DEF LInv
  <2>1. PICK d \in Declarers : monitor_running[d]
    BY DEF Live
  <2>2. monitor[d] # "none" /\ wake[d] > 0 /\ ~(tasks[d][0] > 0)
    BY <2>0, <2>1 DEF DInv, TypeOK, Settled, Due
  <2>3. CASE beacon_flag[d]
    <3>1. PICK i \in Steps : /\ tasks[d][i] > 0
                             /\ \/ i + silence <= Period
                                \/ i = 0 /\ ~remote_beacons[d]
      BY <2>0, <2>3 DEF SilenceIsBounded, BeaconsSoon
    <3>2. i # 0 /\ i + silence <= Period
      BY <2>2, <3>1
    <3> QED
      BY <2>0, <3>2
  <2>4. CASE ~beacon_flag[d] /\ monitor[d] = "sleep"
    <3>1. wake[d] + silence < 3 * Period
      BY <2>0, <2>4 DEF SilenceIsBounded
    <3> QED
      BY <2>0, <2>2, <3>1
  <2>5. CASE monitor[d] = "wait"
    <3>1. wake[d] + silence <= 4 * Period - 2
      BY <2>0, <2>5 DEF SilenceIsBounded
    <3> QED
      BY <2>0, <2>2, <3>1
  <2> QED
    BY <2>0, <2>2, <2>3, <2>4, <2>5
<1> QED
  BY <1>1, InductiveLInv, PTL

\* Three periods after a key was declared last nothing is left of it.
THEOREM OrphansAreSilent == Spec => []OrphansFallSilent
<1>1. LInv => OrphansFallSilent
  <2> SUFFICES ASSUME DInv, orphaned >= 3 * Period, NEW d \in Declarers
               PROVE  ~Beaconing(d) /\ monitor[d] = "none"
    BY DEF LInv, OrphansFallSilent
  <2>1. orphaned \in Nat /\ Period \in Nat /\ Period > 0
    BY DEF DInv, TypeOK, MaxOrphaned
  <2>2. wake[d] \in Nat /\ monitor[d] \in {"none", "sleep", "wait"}
    BY Quantities
  <2>3. monitor[d] = "none"
    BY <2>1, <2>2 DEF DInv, OrphansFade
  <2>4. ASSUME NEW i \in 0..Period, tasks[d][i] > 0 PROVE FALSE
    <3>1. i + orphaned < 3 * Period
      BY <2>3, <2>4 DEF DInv, OrphansFade, Steps
    <3> QED
      BY <2>1, <3>1
  <2> QED
    BY <2>3, <2>4 DEF Beaconing
<1> QED
  BY <1>1, InductiveLInv, PTL

-----------------------------------------------------------------------------
\* The subscription.

\* What is proved of AlohaSubscription holds for its one entry here.  To the
\* subscription the key may be beaconed at any time.
Entries == INSTANCE AlohaSubscription_proof WITH Keys <- {Key}, beaconing <- {Key}

\* The state of the entry of the key: absent, idle or active.
entry == resources[Key]

\* A beacon is on its way to the map.
Incoming == inbox > 0 \/ heard # {}

\* An idle entry has not been heard of since the last reset.
Watching == accumulator \in {"sleep", "collect", "report"}

\* Time passes for the accumulator only while it sleeps, and only an idle entry is
\* reported.
AccumulatorAgrees ==
  /\ accumulator # "sleep" => accumulate_left = 0
  /\ accumulator = "report" => entry = "idle"
  /\ entry = "idle" => accumulator \in {"sleep", "collect", "report", "retain"}

\* Without losses an idle entry has seen no beacon for as long as the accumulator
\* has slept.
IdleMeansSilence ==
  Watching /\ entry = "idle" /\ ~Incoming /\ missed = 0
    => silence + accumulate_left >= 3 * Period

\* How much of the sleep is left at least when a steady declaration beacons next:
\* two periods, and one after a loss.
Reserve == IF missed = 0 THEN 2 * Period ELSE Period

\* As long as less than two beacons were lost, a task of each steady declaration
\* beacons before the sleep ends.
SteadyIsHeard ==
  Watching /\ entry = "idle" /\ missed < 2 =>
    \A d \in steady :
      /\ accumulate_left >= Period
      /\ \/ Incoming
         \/ \E i \in Steps : tasks[d][i] > 0 /\ i + Reserve <= accumulate_left

\* How long after the last declaration anything of the key is left.
OrphansAreForgotten ==
  /\ Incoming => orphaned < 2 * Period
  /\ entry = "active" => orphaned + accumulate_left < 5 * Period
  /\ entry = "idle" => orphaned + accumulate_left < 8 * Period

\* As long as nothing is lost and nobody drops a declaration the entry never stays
\* idle to the end of the sleep, so it is never reported.
Announces ==
  /\ Live = {} => entry = "absent" /\ ~Incoming
  /\ entry = "idle" => accumulator = "sleep" /\ accumulate_left > 0
  /\ entry # "absent" => announced = {Key}
  /\ silence < MaxSilence => entry # "absent" \/ Incoming

\* Until a beacon is lost for the first time, the bounds on the silence hold.
NothingIsLost == flawless => LInv /\ missed = 0 /\ (~dropped => Announces)

\* The inductive invariant of the composition.
IInv ==
  /\ DInv
  /\ Entries!IInv
  /\ DiscoveryTypeOK
  /\ AccumulatorAgrees
  /\ IdleMeansSilence
  /\ SteadyIsHeard
  /\ OrphansAreForgotten
  /\ NothingIsLost

\* There is one key.
LEMMA OneKey ==
  ASSUME Entries!IInv
  PROVE  /\ resources \in [{Key} -> {"absent", "idle", "active"}]
         /\ entry \in {"absent", "idle", "active"}
         /\ heard \in {{}, {Key}} /\ to_report \in {{}, {Key}}
         /\ announced \in {{}, {Key}}
         /\ Entries!Tracked = IF entry = "absent" THEN {} ELSE {Key}
         /\ Entries!Idle = IF entry = "idle" THEN {Key} ELSE {}
<1>1. /\ resources \in [{Key} -> {"absent", "idle", "active"}]
      /\ heard \in SUBSET {Key} /\ to_report \in SUBSET {Key} /\ announced \in SUBSET {Key}
  BY DEF Entries!IInv, Entries!TypeOK
<1>2. \A s \in SUBSET {Key} : s = {} \/ s = {Key}
  OBVIOUS
<1> QED
  BY <1>1, <1>2 DEF entry, Entries!Tracked, Entries!Idle

\* A step of the composition is one of the subscription, or leaves it alone.
LEMMA StepEntries ==
  ASSUME Entries!IInv, [DiscoveryNext]_discovery_vars
  PROVE  Entries!IInv'
<1>1. Entries!Next \/ UNCHANGED Entries!vars
  <2>1. CASE UNCHANGED subscription
    BY <2>1 DEF subscription, Entries!vars, Entries!owner, Entries!sweep
  <2>2. CASE Receive
    BY <2>2 DEF Receive, Subscription!Recv, Subscription!Request, Subscription!sweep,
       Entries!Next, Entries!Listening, Entries!Recv, Entries!Request, Entries!sweep
  <2>3. CASE Resets
    BY <2>3 DEF Resets, Subscription!Reset, Subscription!ReleasedByAccumulator,
       Subscription!ListenerWaits, Subscription!owner, Entries!Next,
       Entries!Accumulating, Entries!Reset, Entries!ReleasedByAccumulator,
       Entries!ListenerWaits, Entries!owner
  <2>4. CASE Wakes
    BY <2>4 DEF Wakes, Subscription!Wake, Subscription!Request, Subscription!owner,
       Entries!Next, Entries!Accumulating, Entries!Wake, Entries!Request, Entries!owner
  <2>5. CASE Goes
    <3>1. CASE Subscription!ListenerStarts
      BY <3>1 DEF Subscription!ListenerStarts, Subscription!NextRound, Subscription!sweep,
         Entries!Next, Entries!ListenerStarts, Entries!NextRound, Entries!sweep
    <3>2. CASE Subscription!Update(Key)
      BY <3>2 DEF Subscription!Update, Subscription!NextRound, Subscription!sweep,
         Subscription!ReleasedByListener, Subscription!AccumulatorWaits, Entries!Next,
         Entries!Listening, Entries!Update, Entries!NextRound, Entries!sweep,
         Entries!ReleasedByListener, Entries!AccumulatorWaits
    <3>3. CASE Subscription!Declare(Key)
      BY <3>3 DEF Subscription!Declare, Subscription!sweep, Entries!Next,
         Entries!Listening, Entries!Declare, Entries!sweep
    <3>4. CASE Subscription!Declared(Key)
      BY <3>4 DEF Subscription!Declared, Subscription!NextRound, Subscription!sweep,
         Subscription!ReleasedByListener, Subscription!AccumulatorWaits, Entries!Next,
         Entries!Listening, Entries!Declared, Entries!NextRound, Entries!sweep,
         Entries!ReleasedByListener, Entries!AccumulatorWaits
    <3>5. CASE Subscription!AccumulatorStarts
      BY <3>5 DEF Subscription!AccumulatorStarts, Subscription!Request,
         Subscription!owner, Entries!Next, Entries!Accumulating,
         Entries!AccumulatorStarts, Entries!Request, Entries!owner
    <3>6. CASE Subscription!Collect
      BY <3>6 DEF Subscription!Collect, Subscription!Reacquired, Subscription!Idle,
         Subscription!ListenerWaits, Subscription!owner, Entries!Next,
         Entries!Accumulating, Entries!Collect, Entries!Reacquired, Entries!Idle,
         Entries!ListenerWaits, Entries!owner
    <3>7. CASE Subscription!Undeclared(Key)
      BY <3>7 DEF Subscription!Undeclared, Subscription!Reacquired,
         Subscription!ListenerWaits, Subscription!owner, Entries!Next,
         Entries!Undeclared, Entries!Reacquired, Entries!ListenerWaits, Entries!owner
    <3>8. CASE Subscription!Retain
      BY <3>8 DEF Subscription!Retain, Subscription!Reacquired,
         Subscription!ReleasedByAccumulator, Subscription!ListenerWaits,
         Subscription!owner, Entries!Next, Entries!Accumulating, Entries!Retain,
         Entries!Reacquired, Entries!ReleasedByAccumulator, Entries!ListenerWaits,
         Entries!owner
    <3> QED
      BY <2>5, <3>1, <3>2, <3>3, <3>4, <3>5, <3>6, <3>7, <3>8 DEF Goes
  <2> QED
    BY <2>1, <2>2, <2>3, <2>4, <2>5 DEF DiscoveryNext, Declares, Beacon, BeaconLost,
       DiscoveryTick, discovery_vars
<1> QED
  BY <1>1, Entries!StepIInv

\* The steps that take no time, by what they do to the entry of the key.
Activates ==
  /\ heard # {} /\ heard' = {}
  /\ entry' = "active"
  /\ \/ announced' = {Key}
     \/ entry # "absent" /\ announced' = announced
  /\ accumulator # "report" /\ accumulator' = accumulator

\* The accumulator goes on to its next round or ends, and forgets the entry unless it is
\* active.
Rounds ==
  /\ \/ accumulator = "start" /\ entry' = entry
     \/ accumulator = "retain" /\ entry' = IF entry = "active" THEN "active" ELSE "absent"
  /\ accumulator' \in {"reset", "ended"}
  /\ UNCHANGED <<heard, announced>>

\* It looks whether the entry is idle.
Collects ==
  /\ accumulator = "collect"
  /\ accumulator' = IF entry = "idle" THEN "report" ELSE "retain"
  /\ UNCHANGED <<entry, heard, announced>>

\* It reports the loss of the key.
Reports ==
  /\ accumulator = "report" /\ accumulator' = "retain"
  /\ UNCHANGED <<entry, heard>>

\* Only the lock is waited for or taken.
Stays == UNCHANGED <<entry, heard, announced, accumulator>>

\* There is nothing else that takes no time.
LEMMA GoesHow ==
  ASSUME Entries!IInv, Goes
  PROVE  Activates \/ Rounds \/ Collects \/ Reports \/ Stays
<1> USE OneKey
<1>0. /\ listener \in {"lock", "declare"} => heard = {Key}
      /\ accumulator = "report" => to_report = {Key} /\ lock = "accumulator"
      /\ listener = "declare" => lock = "listener"
  BY DEF Entries!IInv, Entries!TypeOK, Entries!CallbacksExclude
<1>1. CASE Subscription!ListenerStarts
  BY <1>1 DEF Subscription!ListenerStarts, Subscription!sweep, Stays, entry
<1>2. CASE Subscription!Update(Key)
  BY <1>0, <1>2 DEF Subscription!Update, Subscription!sweep, Activates, entry
<1>3. CASE Subscription!Declare(Key)
  BY <1>3 DEF Subscription!Declare, Subscription!sweep, Stays, entry
<1>4. CASE Subscription!Declared(Key)
  <2>1. announced' = {Key}
    BY <1>4 DEF Subscription!Declared
  <2> QED
    BY <1>0, <1>4, <2>1 DEF Subscription!Declared, Subscription!sweep, Activates, entry
<1>5. CASE Subscription!AccumulatorStarts
  BY <1>5 DEF Subscription!AccumulatorStarts, Subscription!owner, Rounds, entry
<1>6. CASE Subscription!Collect
  <2>1. Subscription!Idle = IF entry = "idle" THEN {Key} ELSE {}
    BY DEF Subscription!Idle, entry
  <2> QED
    BY <1>6, <2>1 DEF Subscription!Collect, Subscription!owner, Collects, entry
<1>7. CASE Subscription!Undeclared(Key)
  BY <1>0, <1>7 DEF Subscription!Undeclared, Subscription!owner, Reports, entry
<1>8. CASE Subscription!Retain
  BY <1>8 DEF Subscription!Retain, Subscription!owner, Rounds, entry
<1> QED
  BY <1>1, <1>2, <1>3, <1>4, <1>5, <1>6, <1>7, <1>8 DEF Goes

\* The entry is touched by no other step but the reset, which takes its activity
\* and starts the sleep.
LEMMA ResetHow ==
  ASSUME Entries!IInv, Resets
  PROVE  /\ accumulator = "reset" /\ accumulator' = "sleep"
         /\ entry' = IF entry = "active" THEN "idle" ELSE entry
         /\ accumulate_left' = 3 * Period
         /\ missed' = 0 /\ steady' = Sending
         /\ UNCHANGED <<declaration, inbox, flawless, heard, announced>>
  BY OneKey DEF Resets, Subscription!Reset, Subscription!owner, entry, accumulate_period

\* A beacon that is received is on its way before and after.
LEMMA ReceiveHow ==
  ASSUME Entries!IInv, Receive
  PROVE  /\ Incoming /\ Incoming'
         /\ UNCHANGED <<entry, announced, accumulator, declaration, accumulate_left,
                        missed, flawless, steady>>
  BY OneKey DEF Receive, Subscription!Recv, Subscription!sweep, losses, Incoming, entry

\* The accumulator wakes when its sleep is over, and touches nothing else.
LEMMA WakeHow ==
  ASSUME Wakes
  PROVE  /\ accumulator = "sleep" /\ accumulator' = "collect" /\ accumulate_left = 0
         /\ UNCHANGED <<entry, heard, announced, declaration, inbox, accumulate_left,
                        missed, flawless, steady>>
  BY DEF Wakes, Subscription!Wake, Subscription!owner, losses, entry

\* What takes no time does not touch the declarations.
LEMMA GoesRest ==
  ASSUME Goes
  PROVE  UNCHANGED <<declaration, inbox, accumulate_left, missed, flawless, steady>>
  BY DEF Goes, losses

\* Time passes only while nothing is on its way and the accumulator sleeps.
LEMMA TickHow ==
  ASSUME Entries!IInv, DiscoveryTick
  PROVE  /\ Tick
         /\ accumulator = "sleep" /\ ~Incoming /\ ~Incoming'
         /\ accumulate_left > 0 /\ accumulate_left' = accumulate_left - 1
         /\ UNCHANGED <<entry, heard, announced, accumulator, inbox, missed, flawless,
                        steady>>
<1>1. inbox = 0 /\ listener = "recv" /\ accumulator = "sleep" /\ accumulate_left > 0
  BY DEF DiscoveryTick, DiscoverySettled
<1>2. heard = {}
  BY <1>1 DEF Entries!IInv, Entries!TypeOK
<1> QED
  BY <1>1, <1>2 DEF DiscoveryTick, subscription, losses, Incoming, entry

\* What the declaring side does to the rest.
LEMMA DeclaresHow ==
  ASSUME NEW d \in Declarers, Declares(d)
  PROVE  /\ Next
         /\ silence' = silence
         /\ steady' = steady \cap Sending'
         /\ UNCHANGED <<entry, heard, announced, accumulator, inbox, accumulate_left,
                        missed, flawless>>
<1>1. Next
  BY DEF Declares, Next, Publisher
<1>2. silence' = silence
  BY DEF Declares, New, Drop, Monitor,
     AlohaWait, AlohaWaitEnds, FallSilent,
     KeepOn, MonitorEnds, PublisherEnds,
     history
<1> QED
  BY <1>1, <1>2 DEF Declares, subscription, entry

\* A beacon that is sent is put into the inbox.
LEMMA BeaconHow ==
  ASSUME NEW d \in Declarers, Beacon(d)
  PROVE  /\ Publish(d) /\ Next
         /\ inbox < MaxInbox /\ inbox' = inbox + 1
         /\ UNCHANGED <<entry, heard, announced, accumulator, accumulate_left,
                        missed, flawless, steady>>
  BY DEF Beacon, Next, Publisher, subscription, losses, entry

\* One that is lost is counted.
LEMMA BeaconLostHow ==
  ASSUME NEW d \in Declarers, BeaconLost(d)
  PROVE  /\ Publish(d) \/ PublishDropped(d)
         /\ Lossy
         /\ missed < MaxMissed /\ missed' = missed + 1 /\ flawless' = FALSE
         /\ UNCHANGED <<entry, heard, announced, accumulator, inbox, accumulate_left,
                        steady>>
  BY DEF BeaconLost, Lossy, Next, Publisher, subscription, entry

\* Every step of the composition is one of the declarations, or leaves them alone.
LEMMA StepDeclarations ==
  ASSUME [DiscoveryNext]_discovery_vars
  PROVE  Lossy \/ UNCHANGED vars
<1>1. CASE UNCHANGED declaration
  BY <1>1 DEF declaration, vars, monitors, history
<1>2. ASSUME NEW d \in Declarers, Declares(d) PROVE Lossy
  BY <1>2, DeclaresHow DEF Lossy
<1>3. ASSUME NEW d \in Declarers, Beacon(d) PROVE Lossy
  BY <1>3, BeaconHow DEF Lossy
<1>4. ASSUME NEW d \in Declarers, BeaconLost(d) PROVE Lossy
  BY <1>4, BeaconLostHow
<1>5. CASE DiscoveryTick
  BY <1>5 DEF DiscoveryTick, Lossy, Next
<1> QED
  BY <1>1, <1>2, <1>3, <1>4, <1>5 DEF DiscoveryNext, Receive, Resets, Wakes, Goes,
     discovery_vars

\* The bounds of the counters, and the declarations that are told to beacon.
Counters ==
  /\ inbox \in 0..MaxInbox
  /\ accumulate_left \in 0..accumulate_period
  /\ missed \in 0..MaxMissed
  /\ flawless \in BOOLEAN
  /\ steady \subseteq Sending

\* Every step keeps the counters in their bounds.
LEMMA StepCounters ==
  ASSUME Entries!IInv, Counters, [DiscoveryNext]_discovery_vars
  PROVE  Counters'
<1> USE DEF Counters
<1>0. accumulate_period = 3 * Period /\ accumulate_period \in Nat /\ MaxMissed \in Nat
      /\ 0 \in 0..accumulate_period /\ accumulate_period \in 0..accumulate_period
      /\ 0 \in 0..MaxMissed
  BY DEF accumulate_period
<1>1. ASSUME UNCHANGED declaration PROVE UNCHANGED Sending
  BY <1>1 DEF declaration, vars, monitors, history, Sending, Live
<1>2. ASSUME NEW d \in Declarers, Declares(d) PROVE Counters'
  BY <1>2, DeclaresHow
<1>3. ASSUME NEW d \in Declarers, Beacon(d) PROVE Counters'
  <2>1. UNCHANGED <<monitor_running, beacon_flag>>
    BY <1>3, BeaconHow DEF Publish, monitors
  <2>2. UNCHANGED Sending
    BY <2>1 DEF Sending, Live
  <2> QED
    BY <1>3, <2>2, BeaconHow
<1>4. ASSUME NEW d \in Declarers, BeaconLost(d) PROVE Counters'
  <2>1. UNCHANGED <<monitor_running, beacon_flag>>
    BY <1>4, BeaconLostHow DEF Publish, PublishDropped, monitors
  <2>2. UNCHANGED Sending
    BY <2>1 DEF Sending, Live
  <2>3. missed' \in 0..MaxMissed
    <3>1. missed < MaxMissed /\ missed' = missed + 1
      BY <1>4, BeaconLostHow
    <3> QED
      BY <1>0, <3>1
  <2>4. flawless' \in BOOLEAN
    BY <1>4, BeaconLostHow
  <2> QED
    BY <1>4, <2>2, <2>3, <2>4, BeaconLostHow
<1>5. CASE DiscoveryTick
  <2>1. UNCHANGED <<monitor_running, beacon_flag>>
    BY <1>5 DEF DiscoveryTick, Tick
  <2>2. UNCHANGED Sending
    BY <2>1 DEF Sending, Live
  <2> QED
    BY <1>0, <1>5, <2>2, TickHow
<1>6. CASE Receive
  <2>1. inbox > 0 /\ inbox' = inbox - 1
    BY <1>6 DEF Receive
  <2> QED
    BY <1>1, <1>6, <2>1, ReceiveHow
<1>7. CASE Resets
  BY <1>0, <1>1, <1>7, ResetHow
<1>8. CASE Wakes
  BY <1>1, <1>8, WakeHow
<1>9. CASE Goes
  BY <1>1, <1>9, GoesRest
<1>10. CASE UNCHANGED discovery_vars
  BY <1>1, <1>10 DEF discovery_vars, losses
<1> QED
  BY <1>2, <1>3, <1>4, <1>5, <1>6, <1>7, <1>8, <1>9, <1>10 DEF DiscoveryNext

\* What the accumulator holds: every step keeps it.
LEMMA StepAccumulatorAgrees ==
  ASSUME Entries!IInv, Counters, AccumulatorAgrees, [DiscoveryNext]_discovery_vars
  PROVE  AccumulatorAgrees'
<1> USE OneKey DEF AccumulatorAgrees
<1>1. ASSUME UNCHANGED <<entry, accumulator, accumulate_left>> PROVE AccumulatorAgrees'
  BY <1>1
<1>2. CASE \E d \in Declarers : Declares(d) \/ Beacon(d) \/ BeaconLost(d)
  BY <1>1, <1>2, DeclaresHow, BeaconHow, BeaconLostHow
<1>3. CASE Receive
  BY <1>1, <1>3, ReceiveHow
<1>4. CASE Resets
  BY <1>4, ResetHow
<1>5. CASE Wakes
  BY <1>5, WakeHow
<1>6. CASE Goes
  <2>1. accumulate_left' = accumulate_left
    BY <1>6, GoesRest
  <2>2. CASE Activates
    BY <2>1, <2>2 DEF Activates
  <2>3. CASE Rounds
    BY <2>1, <2>3 DEF Rounds
  <2>4. CASE Collects
    BY <2>1, <2>4 DEF Collects
  <2>5. CASE Reports
    BY <2>1, <2>5 DEF Reports
  <2>6. CASE Stays
    BY <2>1, <2>6 DEF Stays
  <2> QED
    BY <1>6, <2>2, <2>3, <2>4, <2>5, <2>6, GoesHow
<1>7. CASE DiscoveryTick
  BY <1>7, TickHow
<1>8. CASE UNCHANGED discovery_vars
  BY <1>8 DEF discovery_vars, subscription, entry
<1> QED
  BY <1>2, <1>3, <1>4, <1>5, <1>6, <1>7, <1>8 DEF DiscoveryNext

\* An entry is idle for a whole sleep only in as long a silence.
LEMMA StepIdleMeansSilence ==
  ASSUME DInv, Entries!IInv, Counters, AccumulatorAgrees, IdleMeansSilence,
         [DiscoveryNext]_discovery_vars
  PROVE  IdleMeansSilence'
<1> USE OneKey DEF IdleMeansSilence, Watching
<1>0. /\ silence \in Nat /\ accumulate_left \in Nat /\ missed \in Nat /\ inbox \in Nat
      /\ Period \in Nat /\ Period > 0
  BY Quantities DEF Counters, accumulate_period
<1>1. ASSUME UNCHANGED <<entry, heard, accumulator, accumulate_left, inbox, missed,
                         silence>>
      PROVE  IdleMeansSilence'
  BY <1>1 DEF Incoming
<1>2. ASSUME NEW d \in Declarers, Declares(d) PROVE IdleMeansSilence'
  BY <1>1, <1>2, DeclaresHow
<1>3. ASSUME NEW d \in Declarers, Beacon(d) PROVE IdleMeansSilence'
  <2>1. inbox' > 0
    BY <1>0, <1>3, BeaconHow
  <2> QED
    BY <2>1 DEF Incoming
<1>4. ASSUME NEW d \in Declarers, BeaconLost(d) PROVE IdleMeansSilence'
  <2>1. missed' = missed + 1
    BY <1>4, BeaconLostHow
  <2> QED
    BY <1>0, <2>1
<1>5. CASE Receive
  BY <1>5, ReceiveHow
<1>6. CASE Resets
  <2>1. silence' = silence /\ accumulate_left' = 3 * Period
    BY <1>6, ResetHow DEF declaration, vars, monitors, history
  <2>2. silence' + accumulate_left' >= 3 * Period
    BY <1>0, <2>1
  <2> QED
    BY <2>2
<1>7. CASE Wakes
  <2>1. UNCHANGED <<entry, heard, accumulate_left, inbox, missed, silence>>
    BY <1>7, WakeHow DEF declaration, vars, monitors, history
  <2> QED
    BY <1>7, <2>1, WakeHow DEF Incoming
<1>8. CASE Goes
  <2>1. UNCHANGED <<accumulate_left, inbox, missed, silence>>
    BY <1>8, GoesRest DEF declaration, vars, monitors, history
  <2>2. CASE Activates
    BY <2>2 DEF Activates
  <2>3. CASE Rounds
    BY <2>3 DEF Rounds
  <2>4. CASE Collects
    BY <2>1, <2>4 DEF Collects, Incoming
  <2>5. CASE Reports
    BY <2>5 DEF Reports
  <2>6. CASE Stays
    BY <1>1, <2>1, <2>6 DEF Stays
  <2> QED
    BY <1>8, <2>2, <2>3, <2>4, <2>5, <2>6, GoesHow
<1>9. CASE DiscoveryTick
  <2>1. /\ accumulate_left' = accumulate_left - 1 /\ accumulate_left > 0
        /\ UNCHANGED <<entry, accumulator, missed>> /\ ~Incoming
        /\ Tick
    BY <1>9, TickHow
  <2>2. silence' \in Nat /\ (silence >= 3 * Period => silence' >= 3 * Period)
        /\ (silence < 3 * Period => silence' = silence + 1)
    <3>1. MaxSilence = 4 * Period
      BY DEF MaxSilence
    <3>2. silence' = UpTo(MaxSilence, silence + 1)
      BY <2>1 DEF Tick
    <3> QED
      BY <1>0, <3>1, <3>2 DEF UpTo
  <2>3. silence + accumulate_left >= 3 * Period => silence' + accumulate_left' >= 3 * Period
    BY <1>0, <2>1, <2>2
  <2> QED
    BY <2>1, <2>3
<1>10. CASE UNCHANGED discovery_vars
  BY <1>1, <1>10 DEF discovery_vars, subscription, declaration, vars, monitors,
     history, losses, entry
<1> QED
  BY <1>2, <1>3, <1>4, <1>5, <1>6, <1>7, <1>8, <1>9, <1>10 DEF DiscoveryNext

\* A step of the declarations keeps the tasks of whoever is told to beacon.
LEMMA DeclaresKeepsTasks ==
  ASSUME DInv, NEW d \in Declarers, Declares(d), NEW e \in Declarers, beacon_flag[e],
         NEW i \in Steps, tasks[e][i] > 0
  PROVE  tasks'[e][i] > 0
<1>0. TypeOK
  BY DEF DInv
<1>1. CASE tasks' = WithTask(d)
  BY <1>0, <1>1, TaskAdded
<1>2. CASE PublisherEnds(d)
  BY <1>0, <1>2, EndOfTask DEF PublisherEnds
<1>3. CASE UNCHANGED tasks
  BY <1>3
<1> QED
  BY <1>1, <1>2, <1>3 DEF Declares, New, Drop, Monitor,
     AlohaWait, AlohaWaitEnds, FallSilent,
     KeepOn, MonitorEnds, history

\* A steady declaration is heard before the sleep is over, but for two losses.
LEMMA StepSteadyIsHeard ==
  ASSUME DInv, Entries!IInv, Counters, AccumulatorAgrees, SteadyIsHeard,
         [DiscoveryNext]_discovery_vars
  PROVE  SteadyIsHeard'
<1> USE OneKey, Quantities
<1>0. /\ accumulate_left \in Nat /\ missed \in Nat /\ inbox \in Nat
      /\ steady \subseteq Declarers
      /\ \A d \in steady : beacon_flag[d]
      /\ Reserve \in Nat /\ Reserve >= Period
  BY DEF Counters, accumulate_period, Sending, Live, Reserve
<1>1. ASSUME UNCHANGED <<entry, heard, accumulator, accumulate_left, inbox, missed,
                         steady, tasks>>
      PROVE  SteadyIsHeard'
  BY <1>1 DEF SteadyIsHeard, Watching, Incoming, Reserve, Steps
<1>2. ASSUME NEW x \in Declarers, Declares(x) PROVE SteadyIsHeard'
  <2>1. /\ UNCHANGED <<entry, heard, accumulator, accumulate_left, inbox, missed>>
        /\ steady' \subseteq steady
    BY <1>2, DeclaresHow
  <2>2. \A d \in steady : \A i \in Steps : tasks[d][i] > 0 => tasks'[d][i] > 0
    BY <1>0, <1>2, DeclaresKeepsTasks
  <2> QED
    BY <2>1, <2>2 DEF SteadyIsHeard, Watching, Incoming, Reserve, Steps
<1>3. ASSUME NEW x \in Declarers, Beacon(x) PROVE SteadyIsHeard'
  <2>1. /\ UNCHANGED <<entry, accumulator, accumulate_left, missed, steady>>
        /\ inbox' = inbox + 1
    BY <1>3, BeaconHow
  <2>2. Incoming'
    BY <1>0, <2>1 DEF Incoming
  <2> QED
    BY <2>1, <2>2 DEF SteadyIsHeard, Watching
<1>4. ASSUME NEW x \in Declarers, BeaconLost(x) PROVE SteadyIsHeard'
  <2>1. UNCHANGED <<entry, heard, accumulator, accumulate_left, inbox, steady>>
    BY <1>4, BeaconLostHow
  <2>2. missed' = missed + 1
    BY <1>4, BeaconLostHow
  <2>3. Round(x)
    BY <1>4, BeaconLostHow, RoundOfTask DEF DInv
  <2> SUFFICES ASSUME Watching, entry = "idle", missed' < 2, NEW d \in steady
               PROVE  /\ accumulate_left >= Period
                      /\ \/ Incoming
                         \/ \E i \in Steps : tasks'[d][i] > 0 /\ i + Reserve' <= accumulate_left
    BY <2>1 DEF SteadyIsHeard, Watching, Incoming, Steps
  <2>4. missed = 0 /\ Reserve = 2 * Period /\ Reserve' = Period
    BY <1>0, <2>2 DEF Reserve
  <2>5. accumulate_left >= Period
    BY <2>4 DEF SteadyIsHeard
  <2>6. CASE Incoming
    BY <2>5, <2>6
  <2>7. CASE ~Incoming
    <3>1. PICK i \in Steps : tasks[d][i] > 0 /\ i + 2 * Period <= accumulate_left
      BY <2>4, <2>7 DEF SteadyIsHeard
    <3>2. i + Period <= accumulate_left /\ Period + Period <= accumulate_left
      BY <1>0, <3>1
    <3>3. CASE d = x
      BY <2>3, <2>4, <2>5, <3>2, <3>3 DEF Round
    <3>4. CASE d # x
      BY <1>0, <2>3, <2>4, <2>5, <3>1, <3>2, <3>4 DEF Round
    <3> QED
      BY <3>3, <3>4
  <2> QED
    BY <2>6, <2>7
<1>5. CASE Receive
  BY <1>5, ReceiveHow DEF SteadyIsHeard, Watching
<1>6. CASE Resets
  <2>1. /\ accumulate_left' = 3 * Period /\ Reserve' = 2 * Period
        /\ steady' = Sending /\ tasks' = tasks
    BY <1>6, ResetHow DEF declaration, vars, monitors, history, Reserve
  <2>2. ASSUME NEW d \in Sending
        PROVE  \E i \in Steps : tasks[d][i] > 0 /\ i + 2 * Period <= 3 * Period
    <3>1. PICK i \in Steps : tasks[d][i] > 0
      BY DEF DInv, TasksGoOn, Sending, Live
    <3>2. i + 2 * Period <= 3 * Period
      OBVIOUS
    <3> QED
      BY <3>1, <3>2
  <2>3. accumulate_left' >= Period
    BY <2>1
  <2> QED
    BY <2>1, <2>2, <2>3 DEF SteadyIsHeard, Steps
<1>7. CASE Wakes
  <2>1. UNCHANGED <<entry, heard, accumulate_left, inbox, missed, steady, tasks>>
    BY <1>7, WakeHow DEF declaration, vars, monitors, history
  <2>2. Watching
    BY <1>7, WakeHow DEF Watching
  <2> QED
    BY <2>1, <2>2 DEF SteadyIsHeard, Incoming, Reserve, Steps
<1>8. CASE Goes
  <2>1. UNCHANGED <<accumulate_left, inbox, missed, steady, tasks>>
    BY <1>8, GoesRest DEF declaration, vars, monitors, history
  <2>2. CASE Activates
    BY <2>2 DEF Activates, SteadyIsHeard
  <2>3. CASE Rounds
    BY <2>3 DEF Rounds, SteadyIsHeard, Watching
  <2>4. CASE Collects
    <3>1. Watching /\ UNCHANGED <<entry, heard>>
      BY <2>4 DEF Collects, Watching
    <3> QED
      BY <2>1, <3>1 DEF SteadyIsHeard, Incoming, Reserve, Steps
  <2>5. CASE Reports
    BY <2>5 DEF Reports, SteadyIsHeard, Watching
  <2>6. CASE Stays
    BY <1>1, <2>1, <2>6 DEF Stays
  <2> QED
    BY <1>8, <2>2, <2>3, <2>4, <2>5, <2>6, GoesHow
<1>9. CASE DiscoveryTick
  <2>1. /\ accumulate_left' = accumulate_left - 1
        /\ UNCHANGED <<entry, accumulator, missed, steady>> /\ ~Incoming
        /\ Tick
    BY <1>9, TickHow
  <2>2. Reserve' = Reserve
    BY <2>1 DEF Reserve
  <2> SUFFICES ASSUME Watching, entry = "idle", missed < 2, NEW d \in steady
               PROVE  /\ accumulate_left' >= Period
                      /\ \E i \in Steps : tasks'[d][i] > 0 /\ i + Reserve <= accumulate_left'
    BY <2>1, <2>2 DEF SteadyIsHeard, Watching, Steps
  <2>3. PICK i \in Steps : tasks[d][i] > 0 /\ i + Reserve <= accumulate_left
    BY <2>1 DEF SteadyIsHeard
  <2>4. i > 0 /\ i - 1 \in Steps /\ tasks'[d][i - 1] > 0
    BY <1>0, <2>1, <2>3, TasksTick DEF DInv
  <2>5. i - 1 + Reserve <= accumulate_left' /\ accumulate_left' >= Period
    BY <1>0, <2>1, <2>3, <2>4
  <2> QED
    BY <2>4, <2>5
<1>10. CASE UNCHANGED discovery_vars
  BY <1>1, <1>10 DEF discovery_vars, subscription, declaration, vars, monitors,
     history, losses, entry
<1> QED
  BY <1>2, <1>3, <1>4, <1>5, <1>6, <1>7, <1>8, <1>9, <1>10 DEF DiscoveryNext

\* A declaration that beacons has not been orphaned for long.
LEMMA SenderIsYoung ==
  ASSUME DInv, NEW d \in Declarers, beacon_flag[d]
  PROVE  monitor[d] = "sleep" /\ orphaned < 2 * Period
<1>1. monitor[d] = "sleep"
  BY Quantities DEF DInv, MonitorsAgree
<1>2. wake[d] + orphaned < 2 * Period /\ orphaned \in Nat
  BY <1>1 DEF DInv, OrphansFade, TypeOK, MaxOrphaned
<1> QED
  BY <1>1, <1>2, Quantities

\* Every step keeps the bounds on what is left of an undeclared key.
LEMMA StepOrphansAreForgotten ==
  ASSUME DInv, Entries!IInv, Counters, AccumulatorAgrees, OrphansAreForgotten,
         [DiscoveryNext]_discovery_vars
  PROVE  OrphansAreForgotten'
<1> USE OneKey, Quantities
<1>0. /\ accumulate_left \in Nat /\ accumulate_left <= 3 * Period
      /\ orphaned \in Nat /\ inbox \in Nat
  BY DEF Counters, accumulate_period, DInv, TypeOK, MaxOrphaned
<1>1. ASSUME UNCHANGED <<entry, heard, accumulate_left, inbox>>,
             orphaned' = orphaned \/ orphaned' = 0
      PROVE  OrphansAreForgotten'
  BY <1>0, <1>1 DEF OrphansAreForgotten, Incoming
<1>2. ASSUME NEW d \in Declarers, Declares(d) PROVE OrphansAreForgotten'
  <2>1. orphaned' = orphaned \/ orphaned' = 0
    BY <1>2 DEF Declares, New, Drop, Monitor,
       AlohaWait, AlohaWaitEnds, FallSilent,
       KeepOn, MonitorEnds, PublisherEnds,
       history
  <2> QED
    BY <1>1, <1>2, <2>1, DeclaresHow
<1>3. ASSUME NEW d \in Declarers, Beacon(d) PROVE OrphansAreForgotten'
  <2>1. orphaned' = orphaned /\ beacon_flag[d]
    BY <1>3, BeaconHow DEF Publish
  <2>2. orphaned < 2 * Period
    BY <2>1, SenderIsYoung
  <2> QED
    BY <1>3, <2>1, <2>2, BeaconHow DEF OrphansAreForgotten
<1>4. ASSUME NEW d \in Declarers, BeaconLost(d) PROVE OrphansAreForgotten'
  <2>1. orphaned' = orphaned
    BY <1>4, BeaconLostHow DEF Publish, PublishDropped,
       history
  <2> QED
    BY <1>1, <1>4, <2>1, BeaconLostHow
<1>5. CASE Receive
  BY <1>5, ReceiveHow DEF OrphansAreForgotten, declaration, vars, monitors, history
<1>6. CASE Resets
  <2>1. /\ UNCHANGED <<orphaned, heard, inbox>>
        /\ accumulate_left' = 3 * Period /\ accumulate_left = 0 /\ entry # "idle"
        /\ entry' = IF entry = "active" THEN "idle" ELSE entry
    BY <1>6, ResetHow DEF declaration, vars, monitors, history, AccumulatorAgrees
  <2>2. entry = "active" => orphaned' + accumulate_left' < 8 * Period
    BY <1>0, <2>1 DEF OrphansAreForgotten
  <2> QED
    BY <2>1, <2>2 DEF OrphansAreForgotten, Incoming
<1>7. CASE Wakes
  BY <1>1, <1>7, WakeHow DEF declaration, vars, monitors, history
<1>8. CASE Goes
  <2>1. UNCHANGED <<accumulate_left, inbox, orphaned>>
    BY <1>8, GoesRest DEF declaration, vars, monitors, history
  <2>2. CASE Activates
    <3>1. heard # {} /\ heard' = {} /\ entry' = "active"
      BY <2>2 DEF Activates
    <3>2. orphaned < 2 * Period
      BY <3>1 DEF OrphansAreForgotten, Incoming
    <3>3. orphaned' + accumulate_left' < 5 * Period
      BY <1>0, <2>1, <3>2
    <3> QED
      BY <2>1, <3>1, <3>2, <3>3 DEF OrphansAreForgotten
  <2>3. CASE Rounds
    BY <2>1, <2>3 DEF Rounds, OrphansAreForgotten, Incoming
  <2>4. CASE Collects
    BY <1>1, <2>1, <2>4 DEF Collects
  <2>5. CASE Reports
    BY <1>1, <2>1, <2>5 DEF Reports
  <2>6. CASE Stays
    BY <1>1, <2>1, <2>6 DEF Stays
  <2> QED
    BY <1>8, <2>2, <2>3, <2>4, <2>5, <2>6, GoesHow
<1>9. CASE DiscoveryTick
  <2>1. /\ accumulate_left' = accumulate_left - 1 /\ accumulate_left > 0
        /\ entry' = entry /\ ~Incoming'
    BY <1>9, TickHow
  <2>2. orphaned' \in Nat /\ orphaned' <= orphaned + 1
    BY <1>9, TickHow, ClocksTick DEF DInv
  <2>3. orphaned' + accumulate_left' <= orphaned + accumulate_left
    BY <1>0, <2>1, <2>2
  <2>4. orphaned' + accumulate_left' \in Nat /\ orphaned + accumulate_left \in Nat
    BY <1>0, <2>1, <2>2
  <2> QED
    BY <2>1, <2>3, <2>4 DEF OrphansAreForgotten
<1>10. CASE UNCHANGED discovery_vars
  BY <1>1, <1>10 DEF discovery_vars, subscription, declaration, vars, monitors,
     history, entry
<1> QED
  BY <1>2, <1>3, <1>4, <1>5, <1>6, <1>7, <1>8, <1>9, <1>10 DEF DiscoveryNext

\* As long as no beacon is lost the declarations do as they do without the network.
LEMMA FlawlessSteps ==
  ASSUME [DiscoveryNext]_discovery_vars, flawless'
  PROVE  flawless /\ (Next \/ UNCHANGED vars)
<1>1. ASSUME UNCHANGED <<declaration, flawless>>
      PROVE  flawless /\ (Next \/ UNCHANGED vars)
  BY <1>1 DEF declaration, vars, monitors, history
<1>2. ASSUME NEW d \in Declarers, Declares(d) PROVE flawless /\ Next
  BY <1>2, DeclaresHow
<1>3. ASSUME NEW d \in Declarers, Beacon(d) PROVE flawless /\ Next
  BY <1>3, BeaconHow
<1>4. ASSUME NEW d \in Declarers, BeaconLost(d) PROVE FALSE
  BY <1>4, BeaconLostHow
<1>5. CASE DiscoveryTick
  BY <1>5 DEF DiscoveryTick, Next, losses
<1> QED
  BY <1>1, <1>2, <1>3, <1>4, <1>5 DEF DiscoveryNext, Receive, Resets, Wakes, Goes,
     discovery_vars, losses

\* A declaration disappears only when it is dropped.
LEMMA LiveStays ==
  ASSUME DInv, Next \/ UNCHANGED vars, ~dropped'
  PROVE  ~dropped /\ Live \subseteq Live'
<1>0. /\ dropped \in BOOLEAN
      /\ monitor_running \in [Declarers -> BOOLEAN]
  BY DEF DInv, TypeOK
<1>1. ASSUME NEW d \in Declarers, New(d)
      PROVE  ~dropped /\ Live \subseteq Live'
  BY <1>0, <1>1 DEF New, Live
<1>2. ASSUME NEW d \in Declarers, Drop(d) PROVE FALSE
  BY <1>2 DEF Drop
<1>3. ASSUME UNCHANGED <<monitor_running, dropped>>
      PROVE  ~dropped /\ Live \subseteq Live'
  BY <1>3 DEF Live
<1>4. ASSUME NEW d \in Declarers, Monitor(d) \/ Publisher(d)
      PROVE  UNCHANGED <<monitor_running, dropped>>
  BY <1>4 DEF Monitor, Publisher, AlohaWait,
     AlohaWaitEnds, FallSilent, KeepOn,
     MonitorEnds, Publish, PublisherEnds,
     history, monitors
<1>5. CASE Tick \/ UNCHANGED vars
  BY <1>3, <1>5 DEF Tick, vars, history,
     monitors
<1> QED
  BY <1>1, <1>2, <1>3, <1>4, <1>5 DEF Next

\* Every step without losses and drops keeps the key announced.
LEMMA StepAnnounces ==
  ASSUME LInv, Entries!IInv, Counters, AccumulatorAgrees, IdleMeansSilence,
         Announces, missed = 0, ~dropped, [DiscoveryNext]_discovery_vars, flawless',
         ~dropped'
  PROVE  Announces'
<1>0. DInv
  BY DEF LInv
<1> USE <1>0, OneKey, Quantities
<1>l. Live' = {} => Live = {}
  BY LiveStays, FlawlessSteps
<1>n. inbox \in Nat
  BY DEF Counters
<1>1. ASSUME UNCHANGED <<entry, heard, accumulator, accumulate_left, inbox, announced,
                         silence>>
      PROVE  Announces'
  BY <1>1, <1>l DEF Announces, Incoming, MaxSilence
<1>2. ASSUME NEW d \in Declarers, Declares(d) PROVE Announces'
  BY <1>1, <1>2, DeclaresHow
<1>3. ASSUME NEW d \in Declarers, Beacon(d) PROVE Announces'
  <2>1. /\ UNCHANGED <<entry, accumulator, accumulate_left, announced>>
        /\ inbox' = inbox + 1
    BY <1>3, BeaconHow
  <2>2. Incoming'
    BY <1>n, <2>1 DEF Incoming
  <2>3. beacon_flag[d]
    BY <1>3, BeaconHow DEF Publish
  <2>4. monitor_running[d]
    BY <2>3, SenderIsYoung DEF DInv, MonitorsAgree
  <2>5. Live # {}
    BY <2>4 DEF Live
  <2> QED
    BY <1>l, <2>1, <2>2, <2>5 DEF Announces
<1>4. ASSUME NEW d \in Declarers, BeaconLost(d) PROVE Announces'
  BY <1>4, BeaconLostHow
<1>5. CASE Receive
  <2>1. Incoming /\ Incoming' /\ UNCHANGED <<entry, accumulator, accumulate_left,
                                             announced>>
    BY <1>5, ReceiveHow
  <2> QED
    BY <1>l, <2>1 DEF Announces
<1>6. CASE Resets
  <2>1. /\ accumulator' = "sleep" /\ accumulate_left' > 0
        /\ entry' = IF entry = "active" THEN "idle" ELSE entry
        /\ UNCHANGED <<heard, inbox, announced, silence>>
    BY <1>6, ResetHow DEF declaration, vars, monitors, history
  <2> QED
    BY <1>l, <2>1 DEF Announces, Incoming, MaxSilence
<1>7. CASE Wakes
  <2>1. /\ accumulate_left = 0
        /\ UNCHANGED <<entry, heard, inbox, announced, silence>>
    BY <1>7, WakeHow DEF declaration, vars, monitors, history
  <2>2. entry # "idle"
    BY <2>1 DEF Announces
  <2> QED
    BY <1>l, <2>1, <2>2 DEF Announces, Incoming, MaxSilence
<1>8. CASE Goes
  <2>1. UNCHANGED <<accumulate_left, inbox, silence>>
    BY <1>8, GoesRest DEF declaration, vars, monitors, history
  <2>2. CASE Activates
    BY <1>l, <2>2 DEF Activates, Announces, Incoming
  <2>3. CASE Rounds
    <3>1. accumulator # "sleep"
      BY <2>3 DEF Rounds
    <3>2. entry # "idle"
      BY <3>1 DEF Announces
    <3>3. UNCHANGED <<entry, heard, announced>>
      BY <2>3, <3>2 DEF Rounds
    <3> QED
      BY <1>l, <2>1, <3>2, <3>3 DEF Announces, Incoming, MaxSilence
  <2>4. CASE Collects
    <3>1. accumulator = "collect" /\ UNCHANGED <<entry, heard, announced>>
      BY <2>4 DEF Collects
    <3>2. entry # "idle"
      BY <3>1 DEF Announces
    <3> QED
      BY <1>l, <2>1, <3>1, <3>2 DEF Announces, Incoming, MaxSilence
  <2>5. CASE Reports
    BY <2>5 DEF Reports, Announces, AccumulatorAgrees
  <2>6. CASE Stays
    BY <1>1, <2>1, <2>6 DEF Stays
  <2> QED
    BY <1>8, <2>2, <2>3, <2>4, <2>5, <2>6, GoesHow
<1>9. CASE DiscoveryTick
  <2>1. /\ accumulator = "sleep" /\ ~Incoming /\ ~Incoming'
        /\ accumulate_left' = accumulate_left - 1 /\ accumulate_left \in Nat
        /\ UNCHANGED <<entry, heard, announced, accumulator, inbox>>
        /\ Tick
    BY <1>9, TickHow DEF Counters, accumulate_period
  <2>2. entry = "idle" => accumulate_left' > 0
    <3> SUFFICES ASSUME entry = "idle" PROVE accumulate_left' > 0
      OBVIOUS
    <3>1. silence + accumulate_left >= 3 * Period
      BY <2>1 DEF IdleMeansSilence, Watching
    <3>2. PICK d \in Declarers : Speaks(d)
      BY DEF Announces, LInv, KeyIsSpoken
    <3>3. silence < 3 * Period - 1
      BY <2>1, <3>2, SpokenWhenSettled DEF Tick
    <3> QED
      BY <2>1, <3>1, <3>3
  <2>3. silence' < MaxSilence => silence < MaxSilence
    <3>1. silence <= MaxSilence
      BY DEF DInv, TypeOK, MaxSilence
    <3>2. silence = MaxSilence => silence' = silence
      BY <2>1, ClocksTick DEF DInv
    <3> QED
      BY <3>1, <3>2 DEF MaxSilence
  <2> QED
    BY <1>l, <2>1, <2>2, <2>3 DEF Announces, MaxSilence
<1>10. CASE UNCHANGED discovery_vars
  BY <1>1, <1>10 DEF discovery_vars, subscription, declaration, vars, monitors,
     history, entry
<1> QED
  BY <1>2, <1>3, <1>4, <1>5, <1>6, <1>7, <1>8, <1>9, <1>10 DEF DiscoveryNext

\* Every step keeps what holds until the first loss.
LEMMA StepNothingIsLost ==
  ASSUME IInv, [DiscoveryNext]_discovery_vars
  PROVE  NothingIsLost'
<1> SUFFICES ASSUME flawless'
             PROVE  LInv' /\ missed' = 0 /\ (~dropped' => Announces')
  BY DEF NothingIsLost
<1>1. flawless /\ (Next \/ UNCHANGED vars)
  BY FlawlessSteps
<1>2. DInv /\ LInv /\ missed = 0 /\ (~dropped => Announces)
  BY <1>1 DEF IInv, NothingIsLost
<1>3. LInv'
  BY <1>1, <1>2, StepLInv
<1>4. missed' = 0
  <2>1. ASSUME NEW d \in Declarers, Declares(d) PROVE missed' = missed
    BY <2>1, DeclaresHow
  <2>2. ASSUME NEW d \in Declarers, Beacon(d) PROVE missed' = missed
    BY <2>2, BeaconHow
  <2>3. ASSUME NEW d \in Declarers, BeaconLost(d) PROVE FALSE
    BY <2>3, BeaconLostHow
  <2>4. CASE Receive \/ Wakes \/ Goes \/ DiscoveryTick \/ UNCHANGED discovery_vars
    BY <1>2, <2>4 DEF Receive, Wakes, Goes, DiscoveryTick, discovery_vars, losses
  <2>5. CASE Resets
    BY <2>5 DEF Resets
  <2> QED
    BY <1>2, <2>1, <2>2, <2>3, <2>4, <2>5 DEF DiscoveryNext
<1>5. ASSUME ~dropped' PROVE Announces'
  <2>1. ~dropped
    BY <1>1, <1>2, <1>5, LiveStays
  <2>2. Entries!IInv /\ Counters /\ AccumulatorAgrees /\ IdleMeansSilence
    BY DEF IInv, DiscoveryTypeOK, Counters
  <2> QED
    BY <1>2, <1>5, <2>1, <2>2, StepAnnounces
<1> QED
  BY <1>3, <1>4, <1>5

\* The initial states satisfy the inductive invariant: there is no declaration and
\* no entry.
LEMMA InitIInv == DiscoveryInit => IInv
<1> SUFFICES ASSUME DiscoveryInit PROVE IInv
  OBVIOUS
<1>1. DInv /\ LInv
  BY InitDInv, InitLInv DEF DiscoveryInit
<1>2. Entries!IInv
  <2>1. Entries!Init
    BY DEF DiscoveryInit, Subscription!Init, Entries!Init
  <2> QED
    BY <2>1, Entries!InitIInv
<1>3. entry = "absent" /\ ~Incoming /\ accumulator = "start" /\ announced = {}
  BY DEF DiscoveryInit, Subscription!Init, entry, Incoming
<1>4. /\ silence = MaxSilence
      /\ \A d \in Declarers : ~monitor_running[d]
  BY DEF DiscoveryInit, Init
<1>5. Counters
  BY DEF DiscoveryInit, Counters, accumulate_period
<1>6. AccumulatorAgrees /\ IdleMeansSilence /\ SteadyIsHeard
  BY <1>3 DEF DiscoveryInit, AccumulatorAgrees, IdleMeansSilence, SteadyIsHeard
<1>7. OrphansAreForgotten
  BY <1>3 DEF OrphansAreForgotten
<1>8. Announces
  BY <1>3, <1>4 DEF Announces, MaxSilence
<1>9. NothingIsLost
  BY <1>1, <1>8 DEF DiscoveryInit, NothingIsLost
<1> QED
  <2>1. Subscription!TypeOK
    BY <1>2 DEF Entries!IInv, Entries!TypeOK, Subscription!TypeOK
  <2>2. DiscoveryTypeOK
    BY <1>1, <1>5, <2>1 DEF DInv, Counters, DiscoveryTypeOK
  <2> QED
    BY <1>1, <1>2, <1>5, <1>6, <1>7, <1>9, <2>2 DEF IInv

\* Every step of the composition keeps the inductive invariant.
LEMMA StepIInv == IInv /\ [DiscoveryNext]_discovery_vars => IInv'
<1> SUFFICES ASSUME IInv, [DiscoveryNext]_discovery_vars PROVE IInv'
  OBVIOUS
<1>1. /\ DInv /\ Entries!IInv /\ Counters /\ AccumulatorAgrees /\ IdleMeansSilence
      /\ SteadyIsHeard /\ OrphansAreForgotten
  BY DEF IInv, DiscoveryTypeOK, Counters
<1>2. DInv'
  BY <1>1, StepDeclarations, StepDInv
<1>3. Entries!IInv'
  BY <1>1, StepEntries
<1>4. Counters'
  BY <1>1, StepCounters
<1>5. DiscoveryTypeOK'
  <2>1. Subscription!TypeOK'
    BY <1>3 DEF Entries!IInv, Entries!TypeOK, Subscription!TypeOK
  <2> QED
    BY <1>2, <1>4, <2>1 DEF DInv, Counters, DiscoveryTypeOK
<1>6. AccumulatorAgrees' /\ IdleMeansSilence' /\ SteadyIsHeard' /\ OrphansAreForgotten'
  BY <1>1, StepAccumulatorAgrees, StepIdleMeansSilence, StepSteadyIsHeard,
     StepOrphansAreForgotten
<1>7. NothingIsLost'
  BY StepNothingIsLost
<1> QED
  BY <1>2, <1>3, <1>5, <1>6, <1>7 DEF IInv

\* The invariant holds for the composition.
LEMMA Inductive == DiscoverySpec => []IInv
  BY InitIInv, StepIInv, PTL DEF DiscoverySpec

-----------------------------------------------------------------------------
\* The theorems about AlohaDiscovery.

\* The variables of the composition keep their types.
THEOREM TypeCorrect == DiscoverySpec => []DiscoveryTypeOK
<1>1. IInv => DiscoveryTypeOK
  BY DEF IInv
<1> QED
  BY <1>1, Inductive, PTL

\* Without losses and drops a declared key is announced as soon as everybody had a
\* turn.
THEOREM DeclaredIsAnnounced == DiscoverySpec => []DeclaredKeyIsAnnounced
<1>1. IInv => DeclaredKeyIsAnnounced
  <2> SUFFICES ASSUME IInv, DiscoverySettled, Live # {}, ~dropped, flawless
               PROVE  Key \in announced
    BY DEF DeclaredKeyIsAnnounced
  <2>1. DInv /\ KeyIsSpoken /\ Announces
    BY DEF IInv, NothingIsLost, LInv
  <2>2. ~Incoming
    BY DEF DiscoverySettled, IInv, Entries!IInv, Entries!TypeOK, Incoming
  <2>3. PICK d \in Declarers : Speaks(d)
    BY <2>1 DEF KeyIsSpoken
  <2>4. silence < 3 * Period - 1 /\ silence \in Nat
    BY <2>1, <2>3, SpokenWhenSettled, Quantities DEF DiscoverySettled
  <2>5. silence < MaxSilence
    BY <2>4 DEF MaxSilence
  <2> QED
    BY <2>1, <2>2, <2>5 DEF Announces
<1> QED
  BY <1>1, Inductive, PTL

\* A loss is reported only after three periods of silence.
THEOREM LossIsSilence == DiscoverySpec => []LossMeansSilence
<1>1. IInv => LossMeansSilence
  <2> SUFFICES ASSUME IInv, accumulator = "report", inbox = 0, listener = "recv", missed = 0
               PROVE  silence >= 3 * Period
    BY DEF LossMeansSilence
  <2>1. ~Incoming /\ entry = "idle" /\ accumulate_left = 0 /\ Watching
    BY DEF IInv, Entries!IInv, Entries!TypeOK, Incoming, AccumulatorAgrees, Watching
  <2>2. silence + accumulate_left >= 3 * Period /\ silence \in Nat
    BY <2>1, Quantities DEF IInv, IdleMeansSilence
  <2> QED
    BY <2>1, <2>2
<1> QED
  BY <1>1, Inductive, PTL

\* A key that a declaration beacons all the time is reported lost only after two
\* lost beacons.
THEOREM OneLossIsNoLoss == DiscoverySpec => []OneLossIsTolerated
<1>1. IInv => OneLossIsTolerated
  <2> SUFFICES ASSUME IInv, accumulator = "report", NEW d \in steady PROVE missed >= 2
    BY DEF OneLossIsTolerated
  <2>1. entry = "idle" /\ accumulate_left = 0 /\ Watching /\ missed \in Nat
    BY DEF IInv, AccumulatorAgrees, Watching, DiscoveryTypeOK
  <2>2. missed < 2 => accumulate_left >= Period
    BY <2>1 DEF IInv, SteadyIsHeard
  <2> QED
    BY <2>1, <2>2
<1> QED
  BY <1>1, Inductive, PTL

\* Eight periods after the last declaration nothing of the key is left.
THEOREM UndeclaredIsLost == DiscoverySpec => []UndeclaredKeyIsLost
<1>1. IInv => UndeclaredKeyIsLost
  <2> SUFFICES ASSUME IInv, orphaned >= 8 * Period
               PROVE  announced = {} /\ Subscription!Tracked = {}
    BY DEF UndeclaredKeyIsLost
  <2>1. orphaned \in Nat /\ accumulate_left \in Nat
    BY DEF IInv, DInv, TypeOK, MaxOrphaned, DiscoveryTypeOK, accumulate_period
  <2>2. entry # "active" /\ entry # "idle"
    BY <2>1 DEF IInv, OrphansAreForgotten
  <2>3. entry = "absent" /\ Entries!Tracked = {}
    BY <2>2, OneKey DEF IInv
  <2>4. Subscription!Tracked = {}
    BY <2>3 DEF Subscription!Tracked, entry
  <2>5. announced \subseteq Entries!Tracked
    BY DEF IInv, Entries!IInv, Entries!AnnouncedAreTracked
  <2> QED
    BY <2>3, <2>4, <2>5
<1> QED
  BY <1>1, Inductive, PTL

=============================================================================
