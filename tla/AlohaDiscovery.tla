--------------------------- MODULE AlohaDiscovery ---------------------------
(***************************************************************************)
(* How a bridge learns about one key of the other bridges: the declarations *)
(* of the key (AlohaDeclaration) and a subscription to it                   *)
(* (AlohaSubscription) in one discrete time.  A beacon waits in the channel *)
(* of the subscriber until the listener takes it; the accumulator sleeps    *)
(* for three periods.  As in AlohaDeclaration, whoever is due takes a turn  *)
(* before time goes on, in any order.  The subscription is not dropped.     *)
(* Beacons are sent best effort: any of them may get lost, on its way to    *)
(* the subscriber or to everybody.                                          *)
(***************************************************************************)
EXTENDS AlohaDeclaration

CONSTANTS
  MaxInbox,  \* bound: beacons that wait in the channel
  MaxMissed  \* bound: beacons lost while the accumulator sleeps once

ASSUME DiscoveryAssumption ==
  /\ MaxInbox \in Nat \ {0}
  /\ MaxMissed \in Nat

VARIABLES
  task_running, resources, lock, listener, heard, accumulator, to_report,
  announced, fresh,
  inbox,            \* beacons in the channel of the subscriber
  accumulate_left,  \* ticks until the accumulator wakes up
  \* history, besides that of the declarations
  missed,           \* beacons the subscriber missed since the last reset
  flawless,         \* was no beacon lost ever
  steady            \* declarations told to beacon ever since the last reset

Key == "key"

Subscription == INSTANCE AlohaSubscription WITH Keys <- {Key}, beaconing <- {Key}

declaration == vars
subscription == <<task_running, resources, lock, listener, heard, accumulator,
                  to_report, announced, fresh>>
losses == <<missed, flawless, steady>>
discovery_vars == <<declaration, subscription, inbox, accumulate_left, losses>>

accumulate_period == 3 * Period

DiscoveryInit ==
  /\ Init
  /\ Subscription!Init
  /\ inbox = 0
  /\ accumulate_left = 0
  /\ missed = 0
  /\ flawless = TRUE
  /\ steady = {}

-----------------------------------------------------------------------------
\* The declaring side.

Sending == {d \in Live : beacon_flag[d]}

Declares(d) ==
  /\ \/ New(d)
     \/ Drop(d)
     \/ Monitor(d)
     \/ PublisherEnds(d)
  /\ steady' = steady \cap Sending'
  /\ UNCHANGED <<subscription, inbox, accumulate_left, missed, flawless>>

\* The beacon is put into the channel as well, which blocks when it is full.
Beacon(d) ==
  /\ inbox < MaxInbox
  /\ Publish(d)
  /\ inbox' = inbox + 1
  /\ UNCHANGED <<subscription, accumulate_left, losses>>

\* The network drops the beacon on its way to the subscriber, or at once.
BeaconLost(d) ==
  /\ missed < MaxMissed
  /\ Publish(d) \/ PublishDropped(d)
  /\ missed' = missed + 1
  /\ flawless' = FALSE
  /\ UNCHANGED <<subscription, inbox, accumulate_left, steady>>

-----------------------------------------------------------------------------
\* The subscribing side.

Receive ==
  /\ inbox > 0
  /\ Subscription!Recv(Key)
  /\ inbox' = inbox - 1
  /\ UNCHANGED <<declaration, accumulate_left, losses>>

\* As a mutant: the accumulator sleeps for two periods.
Resets_Early ==
  /\ Subscription!Reset
  /\ accumulate_left' = 2 * Period
  /\ missed' = 0
  /\ steady' = Sending
  /\ UNCHANGED <<declaration, inbox, flawless>>

\* The accumulator resets all activity and goes to sleep.
Resets ==
  /\ Subscription!Reset
  /\ accumulate_left' = accumulate_period
  /\ missed' = 0
  /\ steady' = Sending
  /\ UNCHANGED <<declaration, inbox, flawless>>

Wakes ==
  /\ accumulate_left = 0
  /\ Subscription!Wake
  /\ UNCHANGED <<declaration, inbox, accumulate_left, losses>>

\* All other steps of the two loops take no time.  An error of the channel, after
\* which the listener waits again, changes nothing here.
Goes ==
  /\ \/ Subscription!ListenerStarts
     \/ Subscription!Update(Key)
     \/ Subscription!Declare(Key)
     \/ Subscription!Declared(Key)
     \/ Subscription!AccumulatorStarts
     \/ Subscription!Collect
     \/ Subscription!Undeclared(Key)
     \/ Subscription!Retain
  /\ UNCHANGED <<declaration, inbox, accumulate_left, losses>>

-----------------------------------------------------------------------------

\* Both sides have done all that is due.
DiscoverySettled ==
  /\ Settled
  /\ inbox = 0
  /\ listener = "recv"
  /\ accumulator = "sleep"
  /\ accumulate_left > 0

DiscoveryTick ==
  /\ DiscoverySettled
  /\ Tick
  /\ accumulate_left' = accumulate_left - 1
  /\ UNCHANGED <<subscription, inbox, losses>>

DiscoveryNext ==
  \/ \E d \in Declarers : Declares(d) \/ Beacon(d) \/ BeaconLost(d)
  \/ Receive
  \/ Resets
  \/ Wakes
  \/ Goes
  \/ DiscoveryTick

DiscoverySpec == DiscoveryInit /\ [][DiscoveryNext]_discovery_vars

-----------------------------------------------------------------------------
\* Properties.

\* The variables of the composition keep their types.
DiscoveryTypeOK ==
  /\ TypeOK
  /\ Subscription!TypeOK
  /\ inbox \in 0..MaxInbox
  /\ accumulate_left \in 0..accumulate_period
  /\ missed \in 0..MaxMissed
  /\ flawless \in BOOLEAN
  /\ steady \subseteq Sending

(***************************************************************************)
(* As long as no beacon was lost and nobody has dropped a declaration, a    *)
(* declared key is announced as soon as everybody had a turn, and stays     *)
(* announced whatever the coins of the declarations are.                    *)
(***************************************************************************)
DeclaredKeyIsAnnounced ==
  DiscoverySettled /\ Live # {} /\ ~dropped /\ flawless => Key \in announced

(***************************************************************************)
(* A loss is reported after three periods of silence at least, counted from *)
(* the last beacon that anybody has sent, unless a beacon is on its way or  *)
(* was lost meanwhile.                                                      *)
(***************************************************************************)
LossMeansSilence ==
  accumulator = "report" /\ inbox = 0 /\ listener = "recv" /\ missed = 0
    => silence >= 3 * Period

(***************************************************************************)
(* One lost beacon does no harm: a key that some declaration beacons all    *)
(* the time is reported lost only if two of its beacons were lost since the *)
(* last reset, wherever the sleep of the accumulator falls between them.    *)
(***************************************************************************)
OneLossIsTolerated == accumulator = "report" /\ steady # {} => missed >= 2

(***************************************************************************)
(* Eight periods after the last declaration is dropped its key is reported  *)
(* lost: less than two until the last beacon, up to three until the next    *)
(* reset and three more to notice.  Its entry is gone as well.              *)
(***************************************************************************)
UndeclaredKeyIsLost ==
  DiscoverySettled /\ orphaned >= 8 * Period => announced = {} /\ Subscription!Tracked = {}

=============================================================================
