----------------------------- MODULE Forwarding -----------------------------
(***************************************************************************)
(* What one bridge forwards from Zenoh to ROS1 (abstract_bridge.rs): the    *)
(* queries that a bridged service answers, and the samples of a bridged     *)
(* topic.  rosrust is synchronous, so each query and each sample becomes a  *)
(* job for the blocking threads of the runtime (lib.rs), which are limited  *)
(* in number, and so does each poll of the ROS master by the work cycle.    *)
(*                                                                          *)
(* The other end of a call is the client bridge of another host, which      *)
(* waits for the first reply to its query or for the query to end.          *)
(***************************************************************************)
EXTENDS Naturals, Sequences, FiniteSets

CONSTANTS
  Calls,        \* the calls that clients make, each once
  Bare,         \* those of Zenoh applications, that may be without payload
  Elsewhere,    \* those that another bridge gets as well
  MayHang,      \* those that the ROS1 service may never return from
  MaxSamples,   \* bound: samples of the topic
  Threads       \* max_block_thread_num

ASSUME ForwardingAssumption ==
  /\ Bare \subseteq Calls /\ Elsewhere \subseteq Calls /\ MayHang \subseteq Calls
  /\ MaxSamples \in Nat
  /\ Threads \in Nat \ {0}

VARIABLES
  \* the clients
  caller,      \* "idle", "waiting", and in the end "ok" or "error"
  replies,     \* the reply channel of each call
  elsewhere,   \* does another queryable still hold the query
  \* the bridge
  bridged,     \* are service and topic bridged
  query,       \* "none", "sent", "held" by a task, or "dropped"
  arrived,     \* number of samples that arrived
  sent,        \* samples published in ROS1, in this order
  poll,        \* "idle", or "asked" while the work cycle waits for its job
  \* the blocking threads
  queue,       \* jobs that wait for a thread
  running,     \* jobs that have one
  hung         \* calls whose service will not return

clients == <<caller, replies, elsewhere>>
pool == <<queue, running, hung>>
vars == <<clients, bridged, query, arrived, sent, poll, pool>>

CallJob(c) == <<"call", c>>
SampleJob(i) == <<"sample", i>>
PollJob == <<"poll", 0>>

Queued == {queue[i] : i \in 1..Len(queue)}

Init ==
  /\ caller = [c \in Calls |-> "idle"]
  /\ replies = [c \in Calls |-> <<>>]
  /\ elsewhere = [c \in Calls |-> FALSE]
  /\ bridged = TRUE
  /\ query = [c \in Calls |-> "none"]
  /\ arrived = 0
  /\ sent = <<>>
  /\ poll = "idle"
  /\ queue = <<>>
  /\ running = {}
  /\ hung = {}

-----------------------------------------------------------------------------
\* The client bridge: do_zenoh_query.

\* A reply, or none, goes into the channel as long as there is one.
Reply(c, r) ==
  replies' = [replies EXCEPT ![c] = IF caller[c] = "waiting" THEN @ \o r ELSE @]

\* The query goes to every queryable for the service there is.
Ask(c) ==
  /\ caller[c] = "idle"
  /\ caller' = [caller EXCEPT ![c] = "waiting"]
  /\ query' = [query EXCEPT ![c] = IF bridged THEN "sent" ELSE "dropped"]
  /\ elsewhere' = [elsewhere EXCEPT ![c] = c \in Elsewhere]
  /\ UNCHANGED <<replies, bridged, arrived, sent, poll, pool>>

AskFails(c) ==
  /\ caller[c] = "idle"
  /\ caller' = [caller EXCEPT ![c] = "error"]
  /\ UNCHANGED <<replies, elsewhere, bridged, query, arrived, sent, poll, pool>>

\* Only the first reply is read; then the channel is dropped.
Receive(c) ==
  /\ caller[c] = "waiting"
  /\ replies[c] # <<>>
  /\ caller' = [caller EXCEPT ![c] = Head(replies[c])]
  /\ replies' = [replies EXCEPT ![c] = <<>>]
  /\ UNCHANGED <<elsewhere, bridged, query, arrived, sent, poll, pool>>

\* The channel is closed without a reply: nobody holds the query any more, or it
\* has timed out.
ReceiveFails(c) ==
  /\ caller[c] = "waiting"
  /\ replies[c] = <<>>
  /\ caller' = [caller EXCEPT ![c] = "error"]
  /\ UNCHANGED <<replies, elsewhere, bridged, query, arrived, sent, poll, pool>>

\* Another queryable replies, with a sample or an error, and drops the query.
OtherReplies(c) ==
  /\ elsewhere[c]
  /\ elsewhere' = [elsewhere EXCEPT ![c] = FALSE]
  /\ \E r \in {<<>>, <<"ok">>, <<"error">>} : Reply(c, r)
  /\ UNCHANGED <<caller, bridged, query, arrived, sent, poll, pool>>

-----------------------------------------------------------------------------
\* The service bridge: on_query, process_query, reply_to_query.

\* A query without payload is dropped, any other becomes a job.
OnQuery(c) ==
  /\ query[c] = "sent"
  /\ \/ /\ c \in Bare
        /\ query' = [query EXCEPT ![c] = "dropped"]
        /\ UNCHANGED queue
     \/ /\ query' = [query EXCEPT ![c] = "held"]
        /\ queue' = Append(queue, CallJob(c))
  /\ UNCHANGED <<clients, bridged, arrived, sent, poll, running, hung>>

\* A query that is on its way is lost if the queryable is gone.
QueryLost(c) ==
  /\ query[c] = "sent"
  /\ ~bridged
  /\ query' = [query EXCEPT ![c] = "dropped"]
  /\ UNCHANGED <<clients, bridged, arrived, sent, poll, pool>>

\* The service answers, with a message or an error, or cannot be reached.  All
\* three are replied as a sample, unless replying fails; then the query is dropped.
CallReturns(c) ==
  /\ CallJob(c) \in running
  /\ c \notin hung
  /\ running' = running \ {CallJob(c)}
  /\ query' = [query EXCEPT ![c] = "dropped"]
  /\ \E r \in {<<>>, <<"ok">>} : Reply(c, r)
  /\ UNCHANGED <<caller, elsewhere, bridged, arrived, sent, poll, queue, hung>>

-----------------------------------------------------------------------------
\* The topic bridge: ZenohToRos1.

Sample ==
  /\ bridged
  /\ arrived < MaxSamples
  /\ arrived' = arrived + 1
  /\ queue' = Append(queue, SampleJob(arrived'))
  /\ UNCHANGED <<clients, bridged, query, sent, poll, running, hung>>

\* Publishing succeeds or is given up.
SampleSent(i) ==
  /\ SampleJob(i) \in running
  /\ running' = running \ {SampleJob(i)}
  /\ sent' \in {sent, Append(sent, i)}
  /\ UNCHANGED <<clients, bridged, query, arrived, poll, queue, hung>>

-----------------------------------------------------------------------------
\* The work cycle.

Poll ==
  /\ poll = "idle"
  /\ poll' = "asked"
  /\ queue' = Append(queue, PollJob)
  /\ UNCHANGED <<clients, bridged, query, arrived, sent, running, hung>>

PollReturns ==
  /\ PollJob \in running
  /\ running' = running \ {PollJob}
  /\ poll' = "idle"
  /\ UNCHANGED <<clients, bridged, query, arrived, sent, queue, hung>>

\* Bridges come and go; dropping one leaves its jobs alone.
Rebridge ==
  /\ bridged' = ~bridged
  /\ UNCHANGED <<clients, query, arrived, sent, poll, pool>>

-----------------------------------------------------------------------------
\* The blocking threads.

\* As a mutant: one thread more than there may be.
Start_TooMany ==
  /\ queue # <<>>
  /\ Cardinality(running) <= Threads
  /\ running' = running \cup {Head(queue)}
  /\ queue' = Tail(queue)
  /\ UNCHANGED <<clients, bridged, query, arrived, sent, poll, hung>>

\* As a mutant: the job is taken, but stays in the queue while others wait.
Start_Left ==
  /\ queue # <<>>
  /\ Cardinality(running) < Threads
  /\ running' = running \cup {Head(queue)}
  /\ queue' = IF Len(queue) > 1 THEN queue ELSE <<>>
  /\ UNCHANGED <<clients, bridged, query, arrived, sent, poll, hung>>

\* As a mutant: the last job is taken first.
Start_Last ==
  /\ queue # <<>>
  /\ Cardinality(running) < Threads
  /\ running' = running \cup {queue[Len(queue)]}
  /\ queue' = SubSeq(queue, 1, Len(queue) - 1)
  /\ UNCHANGED <<clients, bridged, query, arrived, sent, poll, hung>>

Start ==
  /\ queue # <<>>
  /\ Cardinality(running) < Threads
  /\ running' = running \cup {Head(queue)}
  /\ queue' = Tail(queue)
  /\ UNCHANGED <<clients, bridged, query, arrived, sent, poll, hung>>

Hang(c) ==
  /\ c \in MayHang \ hung
  /\ CallJob(c) \in running
  /\ hung' = hung \cup {c}
  /\ UNCHANGED <<clients, bridged, query, arrived, sent, poll, queue, running>>

Next ==
  \/ \E c \in Calls :
       \/ Ask(c)
       \/ AskFails(c)
       \/ Receive(c)
       \/ ReceiveFails(c)
       \/ OtherReplies(c)
       \/ OnQuery(c)
       \/ QueryLost(c)
       \/ CallReturns(c)
       \/ Hang(c)
  \/ Sample
  \/ \E i \in 1..MaxSamples : SampleSent(i)
  \/ Poll
  \/ PollReturns
  \/ Rebridge
  \/ Start

Spec == Init /\ [][Next]_vars

\* Threads that have a job go on with it, and tasks of the runtime too; a poll ends,
\* and so does a call unless its service hangs.
Fairness ==
  /\ WF_vars(Start)
  /\ WF_vars(PollReturns)
  /\ \A i \in 1..MaxSamples : WF_vars(SampleSent(i))
  /\ \A c \in Calls : WF_vars(OnQuery(c)) /\ WF_vars(CallReturns(c))

FairSpec == Spec /\ Fairness

-----------------------------------------------------------------------------
\* Properties.

Jobs == {CallJob(c) : c \in Calls} \cup {SampleJob(i) : i \in 1..MaxSamples} \cup {PollJob}
Waits(job) == job \in Queued \cup running

(***************************************************************************)
(* Every variable keeps its type; there are no more jobs at work than       *)
(* threads; a query is held and a poll asked for exactly as long as its job *)
(* is not done.                                                             *)
(***************************************************************************)
TypeOK ==
  /\ caller \in [Calls -> {"idle", "waiting", "ok", "error"}]
  /\ replies \in [Calls -> Seq({"ok", "error"})]
  /\ elsewhere \in [Calls -> BOOLEAN]
  /\ bridged \in BOOLEAN
  /\ query \in [Calls -> {"none", "sent", "held", "dropped"}]
  /\ arrived \in 0..MaxSamples
  /\ sent \in Seq(1..arrived)
  /\ poll \in {"idle", "asked"}
  /\ queue \in Seq(Jobs)
  /\ running \subseteq Jobs
  /\ Cardinality(running) <= Threads
  /\ \A c \in hung : CallJob(c) \in running
  /\ \A c \in Calls : query[c] = "held" <=> Waits(CallJob(c))
  /\ poll = "asked" <=> Waits(PollJob)

(***************************************************************************)
(* No job is done twice: a sample is published once, a call reaches the     *)
(* service once and gets one reply of this bridge.                          *)
(***************************************************************************)
EachOnce ==
  /\ \A i, j \in 1..Len(sent) : sent[i] = sent[j] => i = j
  /\ \A i \in 1..Len(sent) : ~Waits(SampleJob(sent[i]))
  /\ \A c \in Calls : query[c] = "dropped" => ~Waits(CallJob(c))
  /\ \A i, j \in 1..Len(queue) : queue[i] = queue[j] => i = j
  /\ Queued \cap running = {}

(***************************************************************************)
(* Samples may overtake each other, as each is published from a thread of   *)
(* its own; but of those that were overtaken fewer are still to be          *)
(* published than there are threads.  With one thread the order is kept.    *)
(***************************************************************************)
FewAreOvertaken ==
  Cardinality({i \in 1..arrived :
                 Waits(SampleJob(i)) /\ \E k \in 1..Len(sent) : sent[k] > i}) < Threads

(***************************************************************************)
(* As long as fewer services hang than there are threads, nothing starves:  *)
(* the master is polled again and again, each query is done with in the     *)
(* end, and each sample that has arrived leaves the queue.                  *)
(***************************************************************************)
NothingStarves ==
  [](Cardinality(hung) < Threads) =>
    /\ []<>(poll = "idle")
    /\ []<>(/\ \A c \in Calls \ hung : query[c] \in {"none", "dropped"}
            /\ \A i \in 1..MaxSamples : ~Waits(SampleJob(i)))

=============================================================================
