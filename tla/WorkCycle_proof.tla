--------------------------- MODULE WorkCycle_proof ---------------------------
(***************************************************************************)
(* Safety of the work cycle, for any topics, any bridging modes and any     *)
(* local and remote resources.                                              *)
(*                                                                          *)
(* The inductive invariant says, in the words of BridgesStorage_proof, that *)
(* the table represents the two views and that its entries are good.  Each  *)
(* action that touches the table is one operator of BridgesStorage, so each *)
(* case of the induction is one of the lemmas proved there.                 *)
(***************************************************************************)
EXTENDS WorkCycle, BridgesStorage_proof

IInv ==
  /\ TypeOK
  /\ Represents(bridges, seen, known)
  /\ Good(bridges, ~MayFail)

\* The snapshots never hold a client, and every resource touched is a resource.
LEMMA LocalArePolled ==
  /\ LocalResources \subseteq Polled
  /\ LocalResources \subseteq Touched
  /\ Touched \subseteq Resources
<1>1. LocalResources \subseteq Polled
  BY ResourcesAssumption DEF Polled, IsPolled
<1>2. \A e \in RemoteResources : ComplementaryFor(e) \in Resources
  BY ResourcesAssumption, ComplementaryIsResource
<1> QED
  BY <1>1, <1>2 DEF Touched, Polled

\* The outcomes that a step may choose from.
LEMMA OutcomesAreTyped ==
  ASSUME TypeOK
  PROVE  /\ OutcomesNow \subseteq Outcomes
         /\ ~MayFail => \A o \in OutcomesNow : o = AllWell
<1>1. AllWell \in Outcomes
  BY DEF AllWell, Outcomes
<1>2. ~MayFail => reliable
  BY DEF TypeOK
<1> QED
  BY <1>1, <1>2 DEF OutcomesNow

LEMMA InitIInv == Init => IInv
  BY EmptyRepresents, ResourcesAssumption
     DEF Init, IInv, TypeOK, NoBridges, Represents

\* What the actions that apply a snapshot or a callback do to the storage.
LEMMA ReceiveStep ==
  ASSUME IInv, Receive
  PROVE  /\ Represents(bridges', seen', known')
         /\ Good(bridges', ~MayFail)
         /\ Continues(bridges, bridges')
         /\ SmthChanged(bridges, ros1_state) <=> bridges' # bridges
<1>1. PICK outcome \in [{r \in Touched : IsPolled(r)} -> OutcomesNow] :
        bridges' = ReceiveRos1State(bridges, ros1_state, outcome)
  BY DEF Receive
<1> DEFINE always == ~MayFail
<1>2. always \in BOOLEAN
  OBVIOUS
<1>3. /\ seen \subseteq Polled
      /\ ros1_state \in SUBSET Polled
      /\ Represents(bridges, seen, known)
      /\ Good(bridges, always)
  BY LocalArePolled DEF IInv, TypeOK
<1>4. DOMAIN bridges \cup ros1_state \subseteq Touched
  BY LocalArePolled DEF IInv, TypeOK, Represents, EnabledOf
<1>5. /\ OutcomesNow \subseteq Outcomes
      /\ always => \A o \in OutcomesNow : o = AllWell
  BY OutcomesAreTyped DEF IInv
<1> HIDE DEF always
<1>6. \A r \in Polled \cap (DOMAIN bridges \cup ros1_state) :
        outcome[r] \in Outcomes /\ (always => outcome[r] = AllWell)
  BY <1>1, <1>4, <1>5 DEF Polled
<1>7. Represents(bridges', ros1_state, known) /\ Good(bridges', always)
  BY <1>1, <1>2, <1>3, <1>6, ReceivedRepresents
<1>8. Continues(bridges, bridges')
  BY <1>1, <1>2, <1>3, <1>6, ReceivedContinues
<1>9. SmthChanged(bridges, ros1_state) <=> bridges' # bridges
  BY <1>1, <1>2, <1>3, <1>6, ReportsChange
<1> QED
  BY <1>7, <1>8, <1>9 DEF Receive, always

LEMMA DiscoveredStep ==
  ASSUME IInv, NEW e \in RemoteResources, OnDiscovered(e)
  PROVE  /\ Represents(bridges', seen', known')
         /\ Good(bridges', ~MayFail)
         /\ Continues(bridges, bridges')
<1> DEFINE r == ComplementaryFor(e)
           always == ~MayFail
<1>1. PICK outcome \in OutcomesNow :
        bridges' = ComplementaryEntityDiscovered(bridges, r, outcome)
  BY DEF OnDiscovered
<1>2. r \in Resources
  BY ResourcesAssumption, ComplementaryIsResource
<1>3. /\ always \in BOOLEAN
      /\ Represents(bridges, seen, known)
      /\ Good(bridges, always)
      /\ IsBridges(bridges)
  BY DEF IInv, Represents
<1>4. outcome \in Outcomes /\ (always => outcome = AllWell)
  BY OutcomesAreTyped DEF IInv
<1>5. seen' = seen /\ known' = known \cup {r}
  BY DEF OnDiscovered
<1> HIDE DEF r, always
<1>6. Represents(bridges', seen, known \cup {r}) /\ Good(bridges', always)
  BY <1>1, <1>2, <1>3, <1>4, DiscoveredRepresents
<1>7. Continues(bridges, bridges')
  BY <1>1, <1>2, <1>3, <1>4, DiscoveredContinues
<1> QED
  BY <1>5, <1>6, <1>7 DEF always

LEMMA LostStep ==
  ASSUME IInv, NEW e \in RemoteResources, OnLost(e)
  PROVE  /\ Represents(bridges', seen', known')
         /\ Good(bridges', ~MayFail)
         /\ Continues(bridges, bridges')
<1> DEFINE r == ComplementaryFor(e)
           always == ~MayFail
<1>1. PICK outcome \in OutcomesNow :
        bridges' = ComplementaryEntityLost(bridges, r, outcome)
  BY DEF OnLost
<1>2. r \in Resources
  BY ResourcesAssumption, ComplementaryIsResource
<1>3. /\ always \in BOOLEAN
      /\ Represents(bridges, seen, known)
      /\ Good(bridges, always)
      /\ IsBridges(bridges)
  BY DEF IInv, Represents
<1>4. outcome \in Outcomes /\ (always => outcome = AllWell)
  BY OutcomesAreTyped DEF IInv
<1>5. seen' = seen /\ known' = known \ {r}
  BY DEF OnLost
<1> HIDE DEF r, always
<1>6. Represents(bridges', seen, known \ {r}) /\ Good(bridges', always)
  BY <1>1, <1>2, <1>3, <1>4, LostRepresents
<1>7. Continues(bridges, bridges')
  BY <1>1, <1>2, <1>3, <1>4, LostContinues
<1> QED
  BY <1>5, <1>6, <1>7 DEF always

\* No step leaves the types.
LEMMA StepTypeOK ==
  ASSUME IInv, [Next]_vars
  PROVE  TypeOK'
<1> USE DEF TypeOK
<1>0. TypeOK
  BY DEF IInv
<1>1. CASE Poll
  BY <1>0, <1>1 DEF Poll, env
<1>2. CASE Receive
  <2>1. IsBridges(bridges')
    BY <1>2, ReceiveStep DEF Represents
  <2> QED
    BY <1>0, <1>2, <2>1 DEF Receive, env
<1>3. CASE Cleanup
  <2>1. IsBridges(NoBridges)
    BY EmptyRepresents DEF Represents
  <2> QED
    BY <1>0, <1>3, <2>1 DEF Cleanup, env
<1>4. CASE Exit
  BY <1>0, <1>4 DEF Exit, env
<1>5. CASE Stop
  BY <1>0, <1>5 DEF Stop, env
<1>6. ASSUME NEW e \in RemoteResources, OnDiscovered(e)
      PROVE  TypeOK'
  <2>1. IsBridges(bridges')
    BY <1>6, DiscoveredStep DEF Represents
  <2>2. ComplementaryFor(e) \in Touched
    BY DEF Touched
  <2> QED
    BY <1>0, <1>6, <2>1, <2>2 DEF OnDiscovered, env, loop
<1>7. ASSUME NEW e \in RemoteResources, OnLost(e)
      PROVE  TypeOK'
  <2>1. IsBridges(bridges')
    BY <1>7, LostStep DEF Represents
  <2> QED
    BY <1>0, <1>7, <2>1 DEF OnLost, env, loop
<1>8. CASE DiscoveryEnds
  <2>1. IsBridges(NoBridges)
    BY EmptyRepresents DEF Represents
  <2> QED
    BY <1>0, <1>8, <2>1 DEF DiscoveryEnds, env, loop
<1>9. CASE RosChanges
  BY <1>0, <1>9 DEF RosChanges, loop
<1>10. CASE MasterChanges
  BY <1>0, <1>10 DEF MasterChanges, loop
<1>11. CASE ReliabilityChanges
  BY <1>0, <1>11 DEF ReliabilityChanges, loop
<1>12. CASE UNCHANGED vars
  BY <1>0, <1>12 DEF vars, env, loop
<1> QED
  BY <1>1, <1>2, <1>3, <1>4, <1>5, <1>6, <1>7, <1>8, <1>9, <1>10, <1>11, <1>12
     DEF Next

\* The invariant is inductive.
LEMMA StepIInv == IInv /\ [Next]_vars => IInv'
<1> SUFFICES ASSUME IInv, [Next]_vars
             PROVE  /\ Represents(bridges', seen', known')
                    /\ Good(bridges', ~MayFail)
  BY StepTypeOK DEF IInv
<1>1. CASE UNCHANGED <<bridges, seen, known>>
  BY <1>1 DEF IInv
<1>2. CASE Receive
  BY <1>2, ReceiveStep
<1>3. CASE Cleanup \/ DiscoveryEnds
  <2>1. bridges' = NoBridges /\ seen' = {} /\ known' = {}
    BY <1>3 DEF Cleanup, DiscoveryEnds
  <2> QED
    BY <2>1, EmptyRepresents
<1>4. ASSUME NEW e \in RemoteResources, OnDiscovered(e)
      PROVE  /\ Represents(bridges', seen', known')
             /\ Good(bridges', ~MayFail)
  BY <1>4, DiscoveredStep
<1>5. ASSUME NEW e \in RemoteResources, OnLost(e)
      PROVE  /\ Represents(bridges', seen', known')
             /\ Good(bridges', ~MayFail)
  BY <1>5, LostStep
<1>6. CASE Poll \/ Exit \/ Stop \/ RosChanges \/ MasterChanges \/ ReliabilityChanges
  BY <1>1, <1>6
     DEF Poll, Exit, Stop, RosChanges, MasterChanges, ReliabilityChanges
<1>7. CASE UNCHANGED vars
  BY <1>1, <1>7 DEF vars
<1> QED
  BY <1>2, <1>3, <1>4, <1>5, <1>6, <1>7 DEF Next

LEMMA Inductive == Spec => []IInv
  BY InitIInv, StepIInv, PTL DEF Spec

-----------------------------------------------------------------------------
\* Every variable of the work cycle keeps its type, the loop stops only when told
\* to, and nothing is stored once discovery has ended.
THEOREM TypeCorrect == Spec => []TypeOK
<1>1. IInv => TypeOK
  BY DEF IInv
<1> QED
  BY <1>1, Inductive, PTL

\* The storage has an entry exactly for the enabled resources that the last
\* snapshot or a live announcement names, however the two interleave.
THEOREM StorageFollowsViews == Spec => []EntriesFollowViews
<1>1. IInv => EntriesFollowViews
  <2> SUFFICES ASSUME IInv
               PROVE  EntriesFollowViews
    OBVIOUS
  <2>1. (seen \cup known) \subseteq Resources
    BY LocalArePolled DEF IInv, TypeOK
  <2>2. DOMAIN bridges = (seen \cup known) \cap Enabled
    BY <2>1 DEF IInv, Represents, EnabledOf, Enabled
  <2> QED
    BY <2>2 DEF IInv, Represents, EntriesFollowViews
<1> QED
  BY <1>1, Inductive, PTL

\* Bridged and declared is only what the flags and the mode ask for, and all of it
\* if calls never fail.
THEOREM BridgesAreJustified == Spec => []BridgesFollowFlags
<1>1. IInv => BridgesFollowFlags
  BY DEF IInv, Good, Sound, Complete, BridgesFollowFlags
<1> QED
  BY <1>1, Inductive, PTL

\* The next poll is hurried exactly when the last one changed the storage.
THEOREM PaceIsRight == Spec => PaceFollowsChange
<1> DEFINE Paced == pc = "receive" /\ pc' = "poll"
                      => (pause' = "half" <=> bridges' # bridges)
<1>1. IInv /\ [Next]_vars => [Paced]_vars
  <2> SUFFICES ASSUME IInv, Next, pc = "receive", pc' = "poll"
               PROVE  pause' = "half" <=> bridges' # bridges
    OBVIOUS
  <2>1. Receive
    BY DEF Next, Poll, Cleanup, Exit, Stop, OnDiscovered, OnLost, DiscoveryEnds,
           RosChanges, MasterChanges, ReliabilityChanges, loop
  <2>2. SmthChanged(bridges, ros1_state) <=> bridges' # bridges
    BY <2>1, ReceiveStep
  <2> QED
    BY <2>1, <2>2 DEF Receive
<1> QED
  BY <1>1, Inductive, PTL DEF Spec, PaceFollowsChange

-----------------------------------------------------------------------------
\* The refinement mapping, as operators of a table.
LocalOf(t)    == {r \in DOMAIN t : t[r].required_on_ros1_side}
RemoteOf(t)   == {r \in DOMAIN t : t[r].required_on_zenoh_side}
DeclaredOf(t) == {r \in DOMAIN t : t[r].declaration}
BridgedOf(t)  == {r \in DOMAIN t : t[r].bridge}

\* What the views are, and that nothing disabled has an entry.
LEMMA ViewsOf ==
  ASSUME NEW t, NEW S, NEW K, Represents(t, S, K)
  PROVE  /\ LocalOf(t) = EnabledOf(S)
         /\ RemoteOf(t) = EnabledOf(K)
         /\ DOMAIN t \subseteq Table!Enabled
<1>1. Table!Enabled = Enabled
  BY DEF Table!Enabled, Table!Resources, Table!BridgeTypes,
         Enabled, Resources, BridgeTypes
<1>2. DOMAIN t \subseteq Resources
  BY DEF Represents, IsBridges
<1>3. DOMAIN t \subseteq Table!Enabled
  BY <1>1, <1>2 DEF Represents, EnabledOf, Enabled
<1>4. LocalOf(t) = EnabledOf(S) /\ RemoteOf(t) = EnabledOf(K)
  BY DEF Represents, EnabledOf, LocalOf, RemoteOf
<1> QED
  BY <1>3, <1>4

\* A table that continues another reconciles each resource.
LEMMA EntryReconciled ==
  ASSUME NEW always \in BOOLEAN, NEW t, NEW S, NEW K, Represents(t, S, K), Good(t, always),
         NEW u, NEW N, NEW L, Represents(u, N, L), Good(u, always),
         Continues(t, u), NEW r
  PROVE  LET needed == Required(r, r \in LocalOf(u), r \in RemoteOf(u))
         IN /\ /\ r \in LocalOf(u) <=> r \in LocalOf(t)
               /\ r \in RemoteOf(u) <=> r \in RemoteOf(t)
               => /\ r \in DeclaredOf(u) <=> r \in DeclaredOf(t)
                  /\ r \in BridgedOf(u) <=> r \in BridgedOf(t)
            /\ r \in DeclaredOf(u) => r \in LocalOf(u)
            /\ r \in DeclaredOf(t) /\ r \in LocalOf(u) => r \in DeclaredOf(u)
            /\ always /\ r \in LocalOf(u) => r \in DeclaredOf(u)
            /\ r \in BridgedOf(u) => needed
            /\ r \in BridgedOf(t) /\ needed => r \in BridgedOf(u)
            /\ always /\ needed => r \in BridgedOf(u)
<1> USE DEF LocalOf, RemoteOf, DeclaredOf, BridgedOf
<1>1. CASE r \notin DOMAIN u
  <2>1. ~Required(r, FALSE, FALSE)
    BY DEF Required
  <2>2. ASSUME r \in DOMAIN t
        PROVE  t[r].required_on_ros1_side \/ t[r].required_on_zenoh_side
    BY <2>2 DEF Represents, EnabledOf
  <2> QED
    BY <1>1, <2>1, <2>2 DEF Required
<1>2. CASE r \in DOMAIN u
  <2> DEFINE c == u[r]
  <2>1. /\ Sound(r, c)
        /\ always => Complete(r, c)
        /\ c.required_on_ros1_side \/ c.required_on_zenoh_side
    BY <1>2 DEF Good, Represents, EnabledOf
  <2>2. Required(r, r \in LocalOf(u), r \in RemoteOf(u)) <=> IsRequired(r, c)
    BY <1>2 DEF Required, IsRequired
  <2>3. CASE r \notin DOMAIN t
    BY <1>2, <2>1, <2>2, <2>3 DEF Sound, Complete
  <2>4. CASE r \in DOMAIN t
    <3>1. /\ Follows(r, t[r], c)
          /\ /\ c.required_on_ros1_side <=> t[r].required_on_ros1_side
             /\ c.required_on_zenoh_side <=> t[r].required_on_zenoh_side
             => c = t[r]
      BY <1>2, <2>4 DEF Continues
    <3> QED
      BY <1>2, <2>1, <2>2, <2>4, <3>1 DEF Sound, Complete, Follows
  <2> QED
    BY <2>3, <2>4
<1> QED
  BY <1>1, <1>2

\* What the abstract specification asks of each step, from what the storage does.
LEMMA StepReconciles ==
  ASSUME IInv, IInv', Continues(bridges, bridges')
  PROVE  Table!Reconcile
<1> DEFINE always == ~MayFail
<1>1. /\ always \in BOOLEAN
      /\ Represents(bridges, seen, known) /\ Good(bridges, always)
      /\ Represents(bridges', seen', known') /\ Good(bridges', always)
  BY DEF IInv
<1>2. always <=> ~MayFail
  OBVIOUS
<1> HIDE DEF always
<1>3. ASSUME NEW r
      PROVE  LET needed == Required(r, r \in LocalOf(bridges'), r \in RemoteOf(bridges'))
             IN /\ /\ r \in LocalOf(bridges') <=> r \in LocalOf(bridges)
                   /\ r \in RemoteOf(bridges') <=> r \in RemoteOf(bridges)
                   => /\ r \in DeclaredOf(bridges') <=> r \in DeclaredOf(bridges)
                      /\ r \in BridgedOf(bridges') <=> r \in BridgedOf(bridges)
                /\ r \in DeclaredOf(bridges') => r \in LocalOf(bridges')
                /\ r \in DeclaredOf(bridges) /\ r \in LocalOf(bridges')
                     => r \in DeclaredOf(bridges')
                /\ always /\ r \in LocalOf(bridges') => r \in DeclaredOf(bridges')
                /\ r \in BridgedOf(bridges') => needed
                /\ r \in BridgedOf(bridges) /\ needed => r \in BridgedOf(bridges')
                /\ always /\ needed => r \in BridgedOf(bridges')
  BY <1>1, EntryReconciled
<1>4. DOMAIN bridges' \subseteq Table!Enabled
  BY <1>1, ViewsOf
<1>5. ASSUME NEW r \in Table!Enabled
      PROVE  IF Table!SameView(r)
             THEN /\ (r \in DeclaredOf(bridges')) = (r \in DeclaredOf(bridges))
                  /\ (r \in BridgedOf(bridges')) = (r \in BridgedOf(bridges))
             ELSE /\ Table!Reconciled(r, DeclaredOf(bridges), DeclaredOf(bridges'),
                                      r \in LocalOf(bridges'))
                  /\ Table!Reconciled(r, BridgedOf(bridges), BridgedOf(bridges'),
                       Required(r, r \in LocalOf(bridges'), r \in RemoteOf(bridges')))
  <2>1. Table!SameView(r) <=>
          /\ r \in LocalOf(bridges') <=> r \in LocalOf(bridges)
          /\ r \in RemoteOf(bridges') <=> r \in RemoteOf(bridges)
    BY DEF Table!SameView, LocalOf, RemoteOf
  <2>2. Required(r, r \in LocalOf(bridges'), r \in RemoteOf(bridges')) \in BOOLEAN
    BY DEF Required
  <2>3. CASE Table!SameView(r)
    BY <1>3, <2>1, <2>3
  <2>4. CASE ~Table!SameView(r)
    BY <1>2, <1>3, <2>2, <2>4 DEF Table!Reconciled
  <2> QED
    BY <2>3, <2>4
<1>6. DeclaredOf(bridges') \subseteq Table!Enabled /\ BridgedOf(bridges') \subseteq Table!Enabled
  BY <1>4 DEF DeclaredOf, BridgedOf
<1>7. \A r, ros1_side, zenoh_side :
        Table!Required(r, ros1_side, zenoh_side) = Required(r, ros1_side, zenoh_side)
  BY DEF Table!Required, Required
<1> QED
  BY <1>5, <1>6, <1>7
     DEF Table!Reconcile, LocalOf, RemoteOf, DeclaredOf, BridgedOf

\* A callback is a step of the view of Zenoh, or invisible if r is disabled.
LEMMA ViewStep ==
  ASSUME IInv, IInv', Table!Reconcile, seen' = seen,
         NEW r, known' = known \cup {r} \/ known' = known \ {r}
  PROVE  [Table!Next]_(Table!vars)
<1>1. /\ LocalOf(bridges) = EnabledOf(seen)
      /\ RemoteOf(bridges) = EnabledOf(known)
      /\ LocalOf(bridges') = EnabledOf(seen')
      /\ RemoteOf(bridges') = EnabledOf(known')
      /\ DOMAIN bridges \subseteq Table!Enabled
      /\ DOMAIN bridges' \subseteq Table!Enabled
  BY ViewsOf DEF IInv
<1>2. LocalOf(bridges') = LocalOf(bridges)
  BY <1>1
<1>3. CASE RemoteOf(bridges') = RemoteOf(bridges)
  <2>1. \A q \in Table!Enabled : Table!SameView(q)
    BY <1>2, <1>3 DEF Table!SameView, LocalOf, RemoteOf
  <2>2. /\ DeclaredOf(bridges') = DeclaredOf(bridges)
        /\ BridgedOf(bridges') = BridgedOf(bridges)
    BY <1>1, <2>1 DEF Table!Reconcile, DeclaredOf, BridgedOf
  <2> QED
    BY <1>2, <1>3, <2>2
       DEF Table!vars, LocalOf, RemoteOf, DeclaredOf, BridgedOf
<1>4. CASE RemoteOf(bridges') # RemoteOf(bridges)
  <2>1. Mode[r] # "Disabled"
    BY <1>1, <1>4 DEF EnabledOf
  <2>2. \/ RemoteOf(bridges') = RemoteOf(bridges) \cup {r}
        \/ RemoteOf(bridges') = RemoteOf(bridges) \ {r}
    BY <1>1, <2>1 DEF EnabledOf
  <2>3. r \in RemoteOf(bridges') \/ r \in RemoteOf(bridges)
    BY <1>4, <2>2
  <2>4. r \in Table!Enabled
    BY <1>1, <2>3 DEF RemoteOf
  <2> QED
    BY <1>2, <2>2, <2>4 DEF Table!Next, Table!SeeZenoh, LocalOf, RemoteOf
<1> QED
  BY <1>3, <1>4

\* The storage implements BridgeTable: each step of the loop or of a callback is
\* one reconciliation of the two views, or changes nothing the table shows.
THEOREM StorageImplementsTable == Spec => RefinesBridgeTable
<1>1. Init => Table!Init
  BY DEF Init, Table!Init, NoBridges
<1>2. IInv /\ IInv' /\ [Next]_vars => [Table!Next]_(Table!vars)
  <2> SUFFICES ASSUME IInv, IInv', [Next]_vars
               PROVE  [Table!Next]_(Table!vars)
    OBVIOUS
  <2>1. CASE UNCHANGED bridges
    BY <2>1 DEF Table!vars
  <2>2. CASE Receive
    <3>1. Table!Reconcile
      BY <2>2, ReceiveStep, StepReconciles
    <3>2. RemoteOf(bridges') = RemoteOf(bridges)
      BY <2>2, ViewsOf DEF IInv, Receive
    <3>3. LocalOf(bridges') \subseteq Table!Enabled
      BY ViewsOf DEF IInv, LocalOf
    <3> QED
      BY <3>1, <3>2, <3>3 DEF Table!Next, Table!SeeRos1, LocalOf, RemoteOf
  <2>3. CASE Cleanup \/ DiscoveryEnds
    <3>1. bridges' = NoBridges
      BY <2>3 DEF Cleanup, DiscoveryEnds
    <3> QED
      BY <3>1 DEF NoBridges, Table!Next, Table!Forget
  <2>4. ASSUME NEW e \in RemoteResources, OnDiscovered(e)
        PROVE  [Table!Next]_(Table!vars)
    <3> DEFINE r == ComplementaryFor(e)
    <3>1. Table!Reconcile
      BY <2>4, DiscoveredStep, StepReconciles
    <3>2. seen' = seen /\ known' = known \cup {r}
      BY <2>4 DEF OnDiscovered
    <3> QED
      BY <3>1, <3>2, ViewStep DEF Table!Next
  <2>5. ASSUME NEW e \in RemoteResources, OnLost(e)
        PROVE  [Table!Next]_(Table!vars)
    <3> DEFINE r == ComplementaryFor(e)
    <3>1. Table!Reconcile
      BY <2>5, LostStep, StepReconciles
    <3>2. seen' = seen /\ known' = known \ {r}
      BY <2>5 DEF OnLost
    <3> QED
      BY <3>1, <3>2, ViewStep DEF Table!Next
  <2>6. CASE Poll \/ Exit \/ Stop \/ RosChanges \/ MasterChanges \/ ReliabilityChanges
    BY <2>1, <2>6
       DEF Poll, Exit, Stop, RosChanges, MasterChanges, ReliabilityChanges
  <2>7. CASE UNCHANGED vars
    BY <2>1, <2>7 DEF vars
  <2> QED
    BY <2>2, <2>3, <2>4, <2>5, <2>6, <2>7 DEF Next
<1> QED
  BY <1>1, <1>2, Inductive, PTL DEF Spec, RefinesBridgeTable, Table!Spec

=============================================================================
