----------------------- MODULE AlohaSubscription_proof -----------------------
(***************************************************************************)
(* Proofs about AlohaSubscription for any set of keys: its type invariant   *)
(* and the safety invariants that the run AlohaSubscription checks, all     *)
(* from one inductive invariant.                                            *)
(***************************************************************************)
EXTENDS AlohaSubscription, TLAPS

\* The sample in hand carries one key.
OneHeard == heard = {} \/ \E k \in Keys : heard = {k}

\* A key that was handled since the last reset is active.
FreshIsActive == \A k \in fresh : resources[k] = "active"

\* An announced key that is idle during the report loop waits for its report, and
\* after the loop there is none: what the retain pass removes is not announced.
IdleIsReported ==
  /\ accumulator = "report" => announced \cap Idle \subseteq to_report
  /\ accumulator = "retain" => announced \cap Idle = {}

IInv ==
  /\ TypeOK
  /\ OneHeard
  /\ CallbacksExclude
  /\ AnnouncedAreTracked
  /\ AnnouncedOnce
  /\ FreshIsNotLost
  /\ FreshIsActive
  /\ IdleIsReported

\* The initial states satisfy the inductive invariant: nothing is tracked yet.
LEMMA InitIInv == Init => IInv
  BY DEF Init, IInv, TypeOK, OneHeard, CallbacksExclude, AnnouncedAreTracked,
     AnnouncedOnce, FreshIsNotLost, FreshIsActive, IdleIsReported, Tracked, Idle

\* Every step keeps the types.
LEMMA StepTypeOK == IInv /\ [Next]_vars => TypeOK'
<1> USE DEF TypeOK, Request, ReleasedByListener, ReleasedByAccumulator, Reacquired,
            NextRound, owner, sweep
<1> SUFFICES ASSUME TypeOK, OneHeard, [Next]_vars PROVE TypeOK'
  BY DEF IInv
<1>1. CASE ListenerStarts \/ RecvFails
  BY <1>1 DEF ListenerStarts, RecvFails
<1>2. ASSUME NEW k \in Keys, Recv(k) PROVE TypeOK'
  BY <1>2 DEF Recv
<1>3. ASSUME NEW k \in Keys, Update(k) PROVE TypeOK'
  BY <1>3 DEF Update
<1>4. ASSUME NEW k \in Keys, Declare(k) PROVE TypeOK'
  BY <1>4 DEF Declare
<1>5. ASSUME NEW k \in Keys, Declared(k) PROVE TypeOK'
  BY <1>5 DEF Declared
<1>6. CASE AccumulatorStarts
  BY <1>6 DEF AccumulatorStarts
<1>7. CASE Reset
  BY <1>7 DEF Reset
<1>8. CASE Wake
  BY <1>8 DEF Wake
<1>9. CASE Collect
  BY <1>9 DEF Collect, Idle
<1>10. ASSUME NEW k \in Keys, Undeclared(k) PROVE TypeOK'
  BY <1>10 DEF Undeclared
<1>11. CASE Retain
  BY <1>11 DEF Retain
<1>12. CASE Drop
  BY <1>12 DEF Drop
<1>13. ASSUME NEW k \in Keys, BeaconStarts(k) \/ BeaconStops(k) PROVE TypeOK'
  BY <1>13 DEF BeaconStarts, BeaconStops
<1>14. CASE UNCHANGED vars
  BY <1>14 DEF vars
<1> QED
  BY <1>1, <1>2, <1>3, <1>4, <1>5, <1>6, <1>7, <1>8, <1>9, <1>10, <1>11, <1>12,
     <1>13, <1>14 DEF Next, Listening, Accumulating

\* A step of the environment or of a loop that touches neither the map, nor the
\* callbacks' view, nor the position of a callback keeps the rest of the invariant.
LEMMA StepIInv == IInv /\ [Next]_vars => IInv'
<1> SUFFICES ASSUME IInv, [Next]_vars PROVE IInv'
  OBVIOUS
<1>0. TypeOK'
  BY StepTypeOK
<1> DEFINE Rest == /\ OneHeard
                   /\ CallbacksExclude
                   /\ AnnouncedAreTracked
                   /\ AnnouncedOnce
                   /\ FreshIsNotLost
                   /\ FreshIsActive
                   /\ IdleIsReported
<1> SUFFICES Rest'
  BY <1>0 DEF IInv
<1> USE DEF IInv, TypeOK, OneHeard, CallbacksExclude, AnnouncedAreTracked,
            AnnouncedOnce, FreshIsNotLost, FreshIsActive, IdleIsReported, Tracked,
            Idle, NextRound, owner, sweep
<1>1. CASE ListenerStarts \/ RecvFails
  BY <1>1 DEF ListenerStarts, RecvFails
<1>2. ASSUME NEW k \in Keys, Recv(k) PROVE Rest'
  BY <1>2 DEF Recv, Request
<1>3. ASSUME NEW k \in Keys, Update(k) PROVE Rest'
  BY <1>3 DEF Update, ReleasedByListener
<1>4. ASSUME NEW k \in Keys, Declare(k) PROVE Rest'
  <2>1. heard = {k}
    BY <1>4 DEF Declare
  <2>2. k \notin announced
    BY <1>4 DEF Declare
  <2> QED
    BY <1>4, <2>1, <2>2 DEF Declare
<1>5. ASSUME NEW k \in Keys, Declared(k) PROVE Rest'
  <2>1. accumulator # "report"
    BY <1>5 DEF Declared
  <2>2. to_report = {}
    BY <2>1
  <2> QED
    BY <1>5, <2>1, <2>2 DEF Declared, ReleasedByListener
<1>6. CASE AccumulatorStarts
  BY <1>6 DEF AccumulatorStarts, Request
<1>7. CASE Reset
  BY <1>7 DEF Reset, ReleasedByAccumulator
<1>8. CASE Wake
  BY <1>8 DEF Wake, Request
<1>9. CASE Collect
  BY <1>9 DEF Collect, Reacquired, ListenerWaits
<1>10. ASSUME NEW k \in Keys, Undeclared(k) PROVE Rest'
  BY <1>10 DEF Undeclared, Reacquired, ListenerWaits
<1>11. CASE Retain
  BY <1>11 DEF Retain, Reacquired, ReleasedByAccumulator, ListenerWaits
<1>12. CASE Drop
  BY <1>12 DEF Drop
<1>13. ASSUME NEW k \in Keys, BeaconStarts(k) \/ BeaconStops(k) PROVE Rest'
  BY <1>13 DEF BeaconStarts, BeaconStops
<1>14. CASE UNCHANGED vars
  BY <1>14 DEF vars
<1> QED
  BY <1>1, <1>2, <1>3, <1>4, <1>5, <1>6, <1>7, <1>8, <1>9, <1>10, <1>11, <1>12,
     <1>13, <1>14 DEF Next, Listening, Accumulating

LEMMA Inductive == Spec => []IInv
<1>1. Init => IInv
  BY InitIInv
<1>2. IInv /\ [Next]_vars => IInv'
  BY StepIInv
<1> QED
  BY <1>1, <1>2, PTL DEF Spec

\* The type invariant holds for any set of keys.
THEOREM TypeCorrect == Spec => []TypeOK
<1>1. IInv => TypeOK
  BY DEF IInv
<1> QED
  BY <1>1, Inductive, PTL

\* Callbacks of the two loops never overlap.
THEOREM CallbacksNeverOverlap == Spec => []CallbacksExclude
<1>1. IInv => CallbacksExclude
  BY DEF IInv
<1> QED
  BY <1>1, Inductive, PTL

\* Whatever the callbacks' users believe to exist is tracked: no ghosts.
THEOREM NoGhosts == Spec => []AnnouncedAreTracked
<1>1. IInv => AnnouncedAreTracked
  BY DEF IInv
<1> QED
  BY <1>1, Inductive, PTL

\* No key is declared twice without a loss in between.
THEOREM DeclaredOnce == Spec => []AnnouncedOnce
<1>1. IInv => AnnouncedOnce
  BY DEF IInv
<1> QED
  BY <1>1, Inductive, PTL

\* A key handled since the last reset is not reported lost.
THEOREM NoFreshLoss == Spec => []FreshIsNotLost
<1>1. IInv => FreshIsNotLost
  BY DEF IInv
<1> QED
  BY <1>1, Inductive, PTL

=============================================================================
