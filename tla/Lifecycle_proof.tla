--------------------------- MODULE Lifecycle_proof ---------------------------
(* Safety of Lifecycle, for any ports and any number of bridges. *)
EXTENDS Lifecycle, TLAPS

\* While a start that asked for a rosmaster goes on, or has succeeded, the handle
\* is that of the rosmaster it has run.
MasterIsAsked ==
  plugin \in {"session", "on"} /\ env.with_rosmaster => ROSMASTER = env.ros_master_uri

\* A work cycle has a port only after it has read its settings.
NoPortBefore == \A b \in Bridges : cycle[b] \in {"none", "new"} => uri[b] = "none"

Safe == AssertionsHold /\ MasterHasOwner /\ MasterIsAsked

IInv == TypeOK /\ Safe /\ NoPortBefore /\ OneMaster

\* All of it holds at first.
LEMMA InitIInv == Init => IInv
<1> SUFFICES ASSUME Init PROVE IInv
  OBVIOUS
<1>1. TypeOK
  BY LifecycleAssumption DEF Init, TypeOK, Environments, Made
<1>2. Safe
  BY LifecycleAssumption DEF Init, Safe, AssertionsHold, MasterHasOwner, MasterIsAsked
<1>3. NoPortBefore /\ OneMaster
  BY DEF Init, NoPortBefore, OneMaster
<1> QED
  BY <1>1, <1>2, <1>3 DEF IInv

\* The assertion of without_ros1_master holds.
LEMMA StopKeeps == ASSUME IInv, StopMaster PROVE ROSMASTER # "none"
BY LifecycleAssumption
   DEF IInv, Safe, MasterIsAsked, StopMaster, TypeOK, Environments

\* Every step keeps the rosmaster, its handle and the assertions in order.
LEMMA StepSafe == ASSUME IInv, Next PROVE Safe'
<1> USE LifecycleAssumption
        DEF IInv, Safe, AssertionsHold, MasterHasOwner, MasterIsAsked, Environments, TypeOK
<1>1. ASSUME Starting PROVE Safe'
  <2>1. ASSUME NEW given \in SUBSET Entries, NEW values \in Environments, Start(given, values)
        PROVE Safe'
    BY <2>1 DEF Start
  <2>2. CASE WithoutMaster
    BY <2>2 DEF WithoutMaster
  <2>3. CASE StartPanics
    BY <2>3 DEF StartPanics
  <2>4. CASE MasterFails
    BY <2>4 DEF MasterFails
  <2>5. CASE StartMaster
    BY <2>5 DEF StartMaster
  <2>6. CASE SessionFails
    BY <2>6 DEF SessionFails
  <2>7. ASSUME NEW b \in Bridges, NewBridge(b) PROVE Safe'
    BY <2>7 DEF NewBridge
  <2> QED BY <1>1, <2>1, <2>2, <2>3, <2>4, <2>5, <2>6, <2>7 DEF Starting
<1>2. ASSUME Dropping PROVE Safe'
  <2>1. CASE DropWithoutMaster
    BY <2>1 DEF DropWithoutMaster
  <2>2. CASE StopMaster
    <3>1. ROSMASTER # "none"
      BY <2>2, StopKeeps
    <3>2. PICK left \in {"nobody", "other"} :
            master' = [master EXCEPT ![ROSMASTER] = IF @ = "own" THEN left ELSE @]
      BY <2>2, <3>1 DEF StopMaster
    <3> QED BY <2>2, <3>1, <3>2 DEF StopMaster
  <2>3. ASSUME NEW b \in Bridges, DropBridge(b) PROVE Safe'
    BY <2>3 DEF DropBridge
  <2> QED BY <1>2, <2>1, <2>2, <2>3 DEF Dropping
<1>3. ASSUME NEW b \in Bridges, WorkCycle(b) PROVE Safe'
  BY <1>3 DEF WorkCycle, SetUp, SetUpFails, Round, RoundEnds, LoopEnds
<1>4. CASE Restart
  BY <1>4 DEF Restart
<1>5. ASSUME NEW p \in Ports, OtherMaster(p) \/ MasterEnds(p) PROVE Safe'
  BY <1>5 DEF OtherMaster, MasterEnds
<1> QED BY <1>1, <1>2, <1>3, <1>4, <1>5 DEF Next

\* There is one last bridge at most.
LEMMA OneLast == ASSUME NEW b \in Bridges, NEW c \in Bridges, IsLast(b), IsLast(c)
                 PROVE  b = c
BY LifecycleAssumption DEF IsLast, Bridges

\* The step that makes bridge b.
LEMMA NewBridgeTypes == ASSUME IInv, NEW b \in Bridges, NewBridge(b) PROVE TypeOK'
<1> USE DEF IInv, TypeOK, NewBridge
<1>1. Made' = Made \cup {b} /\ b \notin Made
  BY DEF Made, IsNext
<1>2. \A c \in Bridges : c < b <=> c \in Made
  <2>1. \A c \in Bridges : c < b => c \in Made
    BY DEF IsNext
  <2>2. ASSUME NEW c \in Bridges, c \in Made PROVE c < b
    <3>1. ~(b < c)
      BY <2>2, <1>1
    <3> QED BY <3>1, <2>2, <1>1, LifecycleAssumption DEF Bridges
  <2> QED BY <2>1, <2>2
<1>3. \A c \in Bridges : ~flag[c]
  OBVIOUS
<1>4. IsLast(b)'
  BY <1>1, <1>2, LifecycleAssumption DEF IsLast, Bridges, Made
<1>5. \A c, d \in Bridges : d < c /\ c \in Made' => d \in Made'
  BY <1>1, <1>2, LifecycleAssumption DEF Bridges
<1>6. \A c \in Bridges : flag'[c] => c = b
  BY <1>3
<1> QED BY <1>4, <1>5, <1>6

\* Every step keeps the types.
LEMMA StepTypes == ASSUME IInv, Next PROVE TypeOK'
<1> USE LifecycleAssumption DEF IInv, TypeOK
<1>1. ASSUME cycle' = cycle, flag' = flag
      PROVE  /\ Made' = Made
             /\ \A b \in Bridges : IsLast(b) => IsLast(b)'
  BY <1>1 DEF Made, IsLast
<1>2. ASSUME NEW given \in SUBSET Entries, NEW values \in Environments, Start(given, values)
      PROVE TypeOK'
  BY <1>1, <1>2 DEF Start, Entries, Environments, bridges
<1>3. CASE WithoutMaster \/ StartPanics \/ MasterFails \/ SessionFails
  BY <1>1, <1>3 DEF WithoutMaster, StartPanics, MasterFails, SessionFails, bridges
<1>4. CASE StartMaster
  BY <1>1, <1>4 DEF StartMaster, Environments, bridges
<1>5. CASE DropWithoutMaster
  BY <1>1, <1>5 DEF DropWithoutMaster, bridges
<1>6. CASE StopMaster
  <2>1. ROSMASTER # "none"
    BY <1>6, StopKeeps
  <2>2. PICK left \in {"nobody", "other"} :
          master' = [master EXCEPT ![ROSMASTER] = IF @ = "own" THEN left ELSE @]
    BY <1>6, <2>1 DEF StopMaster
  <2> QED BY <1>1, <1>6, <2>1, <2>2 DEF StopMaster, bridges
<1>7. ASSUME NEW b \in Bridges, DropBridge(b) PROVE TypeOK'
  <2>1. Made' = Made
    BY <1>7 DEF DropBridge, Made
  <2>2. \A c \in Bridges : ~flag'[c]
    BY <1>7, OneLast DEF DropBridge
  <2> QED BY <1>7, <2>1, <2>2 DEF DropBridge
<1>8. ASSUME NEW b \in Bridges, WorkCycle(b) PROVE TypeOK'
  <2>1. Made' = Made
    BY <1>8 DEF Made, WorkCycle, SetUp, SetUpFails, Round, RoundEnds, LoopEnds
  <2>2. \A c \in Bridges : IsLast(c) => IsLast(c)'
    BY <2>1 DEF IsLast
  <2> QED BY <1>8, <2>1, <2>2
          DEF WorkCycle, SetUp, SetUpFails, Round, RoundEnds, LoopEnds, Environments
<1>9. CASE Restart
  <2>1. Made' = {}
    BY <1>9 DEF Restart, Made
  <2> QED BY <1>9, <2>1 DEF Restart
<1>10. ASSUME NEW p \in Ports, OtherMaster(p) \/ MasterEnds(p) PROVE TypeOK'
  BY <1>1, <1>10 DEF OtherMaster, MasterEnds, bridges
<1> QED BY <1>2, <1>3, <1>4, <1>5, <1>6, <1>7, <1>8, <1>9, <1>10, NewBridgeTypes
        DEF Next, Starting, Dropping

\* Bridges that go on are one at most, and follow what the environment says since
\* it changes only when there is none.
LEMMA StepBridges == ASSUME IInv, Next PROVE (NoPortBefore /\ OneMaster)'
<1> USE LifecycleAssumption DEF IInv, TypeOK, Safe, MasterIsAsked, NoPortBefore, OneMaster
<1>1. CASE Starting
  <2>1. CASE plugin' = "on"
    <3>1. PICK b \in Bridges : NewBridge(b)
      BY <1>1, <2>1 DEF Starting, Start, WithoutMaster, StartPanics, MasterFails,
                        StartMaster, SessionFails
    <3>2. uri[b] = "none" /\ \A c \in Bridges : ~flag[c]
      BY <3>1 DEF NewBridge, IsNext, Made
    <3> QED BY <3>1, <3>2 DEF NewBridge
  <2>2. CASE plugin' # "on"
    BY <1>1, <2>2 DEF Starting, Start, WithoutMaster, StartPanics, MasterFails,
                      StartMaster, SessionFails, NewBridge, bridges
  <2> QED BY <2>1, <2>2
<1>2. CASE Dropping
  BY <1>2 DEF Dropping, DropWithoutMaster, StopMaster, DropBridge, bridges
<1>3. ASSUME NEW b \in Bridges, WorkCycle(b) PROVE (NoPortBefore /\ OneMaster)'
  BY <1>3 DEF WorkCycle, SetUp, SetUpFails, Round, RoundEnds, LoopEnds
<1>4. CASE Restart
  BY <1>4 DEF Restart
<1>5. ASSUME NEW p \in Ports, OtherMaster(p) \/ MasterEnds(p)
      PROVE (NoPortBefore /\ OneMaster)'
  BY <1>5 DEF OtherMaster, MasterEnds, bridges
<1> QED BY <1>1, <1>2, <1>3, <1>4, <1>5 DEF Next

\* So does a step that changes nothing.
LEMMA StutterIInv == ASSUME IInv, UNCHANGED vars PROVE IInv'
BY DEF IInv, Safe, TypeOK, AssertionsHold, MasterHasOwner, MasterIsAsked,
       NoPortBefore, OneMaster, vars, bridges, Made, IsLast

\* The invariant is inductive.
THEOREM Inductive == Spec => []IInv
<1>1. IInv /\ [Next]_vars => IInv'
  BY StepSafe, StepTypes, StepBridges, StutterIInv DEF IInv
<1> QED BY InitIInv, <1>1, PTL DEF Spec

\* Every variable of the lifecycle keeps its type, and only the last bridge may be
\* told to go on.
THEOREM TypeCorrect == Spec => []TypeOK
<1>1. IInv => TypeOK
  BY DEF IInv
<1> QED BY Inductive, <1>1, PTL

\* The assertions of ros1_master_ctrl.rs hold until a start leaves its rosmaster
\* behind.
THEOREM NoPanic == Spec => []AssertionsHold
<1>1. IInv => AssertionsHold
  BY DEF IInv, Safe
<1> QED BY Inductive, <1>1, PTL

\* A rosmaster that the plugin runs can be stopped, and is when nobody needs it.
THEOREM MasterIsKept == Spec => []MasterHasOwner
<1>1. IInv => MasterHasOwner
  BY DEF IInv, Safe
<1> QED BY Inductive, <1>1, PTL

\* All bridges that go on follow the ROS master that the last start named.
THEOREM AllFollowOneMaster == Spec => []OneMaster
<1>1. IInv => OneMaster
  BY DEF IInv
<1> QED BY Inductive, <1>1, PTL

=============================================================================
