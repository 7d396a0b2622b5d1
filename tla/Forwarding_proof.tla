--------------------------- MODULE Forwarding_proof ---------------------------
(***************************************************************************)
(* Safety of the forwarding, for any calls, any number of samples and any   *)
(* number of threads.                                                       *)
(*                                                                          *)
(* A step does one of three things to the jobs: it queues a new one, starts *)
(* the first that is queued, or ends one that is running.  So much is said  *)
(* once, by three lemmas about the pool.  The order of the samples rests on *)
(* the queue being first in, first out: what is queued is younger than all  *)
(* that has been started, and at the moment a sample leaves its thread the  *)
(* older ones that still run hold the other threads.                        *)
(***************************************************************************)
EXTENDS Forwarding, FiniteSetTheorems, SequenceTheorems, TLAPS

\* The samples that have been published.
Published == {sent[k] : k \in 1..Len(sent)}

\* Samples that are still running while a younger one is published.
Overtaken ==
  {i \in 1..MaxSamples : SampleJob(i) \in running /\ \E j \in Published : i < j}

\* No job is queued twice or queued while it runs, and no thread has two.
PoolInv ==
  /\ queue \in Seq(Jobs)
  /\ running \subseteq Jobs
  /\ IsFiniteSet(running)
  /\ Cardinality(running) <= Threads
  /\ \A p, q \in 1..Len(queue) : queue[p] = queue[q] => p = q
  /\ Queued \cap running = {}

\* Only samples that have arrived are anywhere, and each is in one place only.
SamplesInv ==
  /\ arrived \in 0..MaxSamples
  /\ sent \in Seq(1..arrived)
  /\ \A k, l \in 1..Len(sent) : sent[k] = sent[l] => k = l
  /\ \A i \in 1..MaxSamples : Waits(SampleJob(i)) => i \in (1..arrived) \ Published

\* Samples are queued in their order, behind those that have been started.
InOrder ==
  /\ \A p, q \in 1..Len(queue), i, j \in 1..MaxSamples :
       queue[p] = SampleJob(i) /\ queue[q] = SampleJob(j) /\ p < q => i < j
  /\ \A i, j \in 1..MaxSamples :
       SampleJob(i) \in Queued /\ (SampleJob(j) \in running \/ j \in Published) => j < i

\* The bridge has no query of a call that was not made.
NoQueryBefore == \A c \in Calls : caller[c] = "idle" => query[c] = "none"

\* The inductive invariant.
IInv ==
  /\ TypeOK
  /\ NoQueryBefore
  /\ PoolInv
  /\ SamplesInv
  /\ InOrder
  /\ Cardinality(Overtaken) < Threads

-----------------------------------------------------------------------------
\* Jobs and the pool.

\* Jobs of different calls and samples are different.
LEMMA JobsDiffer ==
  /\ \A c : \A i : CallJob(c) # SampleJob(i) /\ CallJob(c) # PollJob /\ SampleJob(i) # PollJob
  /\ \A c, d : CallJob(c) = CallJob(d) => c = d
  /\ \A i, j : SampleJob(i) = SampleJob(j) => i = j
  BY DEF CallJob, SampleJob, PollJob

\* They are jobs of the model.
LEMMA JobsAre ==
  /\ \A c \in Calls : CallJob(c) \in Jobs
  /\ \A i \in 1..MaxSamples : SampleJob(i) \in Jobs
  /\ PollJob \in Jobs
  BY DEF Jobs

\* A job is queued.
LEMMA Queue ==
  ASSUME PoolInv, NEW job \in Jobs, ~Waits(job),
         queue' = Append(queue, job), running' = running
  PROVE  /\ PoolInv'
         /\ Queued' = Queued \cup {job}
         /\ Len(queue') = Len(queue) + 1
         /\ \A p \in 1..Len(queue) : queue'[p] = queue[p]
         /\ queue'[Len(queue) + 1] = job
         /\ \A x : Waits(x)' <=> Waits(x) \/ x = job
<1>1. /\ Len(queue) \in Nat
      /\ queue' \in Seq(Jobs)
      /\ Len(queue') = Len(queue) + 1
      /\ \A p \in 1..Len(queue) : queue'[p] = queue[p]
      /\ queue'[Len(queue) + 1] = job
  BY AppendProperties, LenProperties DEF PoolInv
<1>2. Queued' = Queued \cup {job}
  BY <1>1 DEF Queued
<1>3. \A p, q \in 1..Len(queue') : queue'[p] = queue'[q] => p = q
  BY <1>1 DEF PoolInv, Queued, Waits
<1> QED
  BY <1>1, <1>2, <1>3 DEF PoolInv, Waits

\* The job that waits longest gets a thread.
LEMMA StartsFirst ==
  ASSUME PoolInv, Start
  PROVE  /\ PoolInv'
         /\ Head(queue) = queue[1]
         /\ Len(queue) \in Nat \ {0}
         /\ Head(queue) \in Queued
         /\ Queued' = Queued \ {Head(queue)}
         /\ running' = running \cup {Head(queue)}
         /\ Cardinality(running) < Threads
         /\ Len(queue') = Len(queue) - 1
         /\ \A p \in 1..Len(queue') : queue'[p] = queue[p + 1]
         /\ \A x : Waits(x)' <=> Waits(x)
<1>1. /\ queue' \in Seq(Jobs)
      /\ Head(queue) \in Jobs
      /\ Len(queue) \in Nat \ {0}
      /\ Len(queue') = Len(queue) - 1
      /\ \A p \in 1..Len(queue') : queue'[p] = queue[p + 1]
      /\ Head(queue) = queue[1]
  BY HeadTailProperties, EmptySeq DEF PoolInv, Start
<1>2. Head(queue) \in Queued
  BY <1>1 DEF Queued
<1>3. Queued' = Queued \ {Head(queue)}
  <2>1. ASSUME NEW job \in Queued'
        PROVE  job \in Queued \ {Head(queue)}
    <3>1. PICK p \in 1..Len(queue') : job = queue'[p]
      BY DEF Queued
    <3>2. p + 1 \in 1..Len(queue) /\ job = queue[p + 1] /\ p + 1 # 1
      BY <1>1, <3>1
    <3> QED
      BY <1>1, <3>2 DEF Queued, PoolInv
  <2>2. ASSUME NEW job \in Queued, job # Head(queue)
        PROVE  job \in Queued'
    <3>1. PICK p \in 1..Len(queue) : job = queue[p]
      BY DEF Queued
    <3>2. p # 1
      BY <1>1, <2>2, <3>1
    <3>3. p - 1 \in 1..Len(queue') /\ queue'[p - 1] = queue[(p - 1) + 1] /\ (p - 1) + 1 = p
      BY <1>1, <3>1, <3>2
    <3> QED
      BY <3>1, <3>3 DEF Queued
  <2> QED
    BY <2>1, <2>2
<1>4. \A p, q \in 1..Len(queue') : queue'[p] = queue'[q] => p = q
  <2> SUFFICES ASSUME NEW p \in 1..Len(queue'), NEW q \in 1..Len(queue'),
                      queue'[p] = queue'[q]
               PROVE  p = q
    OBVIOUS
  <2>1. p + 1 \in 1..Len(queue) /\ q + 1 \in 1..Len(queue) /\ queue[p + 1] = queue[q + 1]
    <3>1. queue'[p] = queue[p + 1] /\ queue'[q] = queue[q + 1]
      BY <1>1
    <3>2. \A k \in 1..Len(queue') : k + 1 \in 1..Len(queue)
      BY <1>1
    <3> QED
      BY <3>1, <3>2
  <2> QED
    BY <1>1, <2>1 DEF PoolInv
<1>5. IsFiniteSet(running') /\ Cardinality(running') <= Threads
  <2> DEFINE job == Head(queue)
  <2> HIDE DEF job
  <2>1. IsFiniteSet(running)
    BY DEF PoolInv
  <2>2. /\ IsFiniteSet(running \cup {job})
        /\ Cardinality(running \cup {job}) =
             IF job \in running THEN Cardinality(running) ELSE Cardinality(running) + 1
    BY <2>1, FS_AddElement
  <2>3. Cardinality(running) \in Nat /\ Cardinality(running) < Threads
    BY <2>1, FS_CardinalityType DEF Start
  <2>4. Cardinality(running \cup {job}) <= Threads
    BY <2>2, <2>3, ForwardingAssumption
  <2>5. running' = running \cup {job}
    BY DEF Start, job
  <2> QED
    BY <2>2, <2>4, <2>5
<1> QED
  BY <1>1, <1>2, <1>3, <1>4, <1>5 DEF PoolInv, Start, Waits

\* A job ends.
LEMMA Ends ==
  ASSUME PoolInv, NEW job \in running, queue' = queue, running' = running \ {job}
  PROVE  /\ PoolInv'
         /\ Queued' = Queued
         /\ \A x : Waits(x)' <=> Waits(x) /\ x # job
<1>1. Queued' = Queued
  BY DEF Queued
<1>2. IsFiniteSet(running') /\ Cardinality(running') <= Threads
  <2>1. IsFiniteSet(running) /\ Cardinality(running) <= Threads
    BY DEF PoolInv
  <2>2. /\ IsFiniteSet(running \ {job})
        /\ Cardinality(running \ {job}) = Cardinality(running) - 1
    BY <2>1, FS_RemoveElement
  <2>3. Cardinality(running) \in Nat
    BY <2>1, FS_CardinalityType
  <2> QED
    BY <2>1, <2>2, <2>3, ForwardingAssumption
<1> QED
  BY <1>1, <1>2 DEF PoolInv, Waits

\* Nothing happens to the jobs.
LEMMA NoJob ==
  ASSUME UNCHANGED <<queue, running>>
  PROVE  /\ PoolInv <=> PoolInv'
         /\ Queued' = Queued
         /\ \A x : Waits(x)' <=> Waits(x)
  BY DEF PoolInv, Queued, Waits

-----------------------------------------------------------------------------
\* What each action does to the jobs.

\* A new job is not in the pool yet.
LEMMA NewJob ==
  ASSUME IInv
  PROVE  /\ \A c \in Calls : query[c] = "sent" => ~Waits(CallJob(c))
         /\ arrived < MaxSamples => arrived + 1 \in 1..MaxSamples /\ ~Waits(SampleJob(arrived + 1))
         /\ poll = "idle" => ~Waits(PollJob)
<1>1. arrived \in Nat /\ MaxSamples \in Nat
  BY ForwardingAssumption DEF IInv, SamplesInv
<1>2. arrived + 1 \notin 1..arrived
  BY <1>1
<1> QED
  BY <1>1, <1>2 DEF IInv, TypeOK, SamplesInv

\* Every step keeps the invariant of the pool.
LEMMA StepPool ==
  ASSUME IInv, [Next]_vars
  PROVE  PoolInv'
<1> USE DEF IInv
<1>1. CASE UNCHANGED <<queue, running>>
  BY <1>1, NoJob
<1>2. ASSUME NEW c \in Calls, OnQuery(c)
      PROVE  PoolInv'
  BY <1>1, <1>2, NewJob, JobsAre, Queue DEF OnQuery
<1>3. CASE Sample
  <2>1. queue' = Append(queue, SampleJob(arrived + 1)) /\ running' = running /\ arrived < MaxSamples
    BY <1>3 DEF Sample
  <2> QED
    BY <2>1, NewJob, JobsAre, Queue
<1>4. CASE Poll
  BY <1>4, NewJob, JobsAre, Queue DEF Poll
<1>5. ASSUME NEW c \in Calls, CallReturns(c)
      PROVE  PoolInv'
  BY <1>5, Ends DEF CallReturns
<1>6. ASSUME NEW i \in 1..MaxSamples, SampleSent(i)
      PROVE  PoolInv'
  BY <1>6, Ends DEF SampleSent
<1>7. CASE PollReturns
  BY <1>7, Ends DEF PollReturns
<1>8. CASE Start
  BY <1>8, StartsFirst
<1>9. ASSUME NEW c \in Calls,
             Ask(c) \/ AskFails(c) \/ Receive(c) \/ ReceiveFails(c) \/ OtherReplies(c)
               \/ QueryLost(c) \/ Hang(c)
      PROVE  UNCHANGED <<queue, running>>
  BY <1>9 DEF Ask, AskFails, Receive, ReceiveFails, OtherReplies, QueryLost, Hang, pool
<1>10. CASE Rebridge \/ UNCHANGED vars
  BY <1>1, <1>10 DEF Rebridge, vars, pool
<1> QED
  BY <1>1, <1>2, <1>3, <1>4, <1>5, <1>6, <1>7, <1>8, <1>9, <1>10 DEF Next

\* An answer is added to the replies of its call.
LEMMA RepliesAreTyped ==
  ASSUME TypeOK, NEW c \in Calls, NEW r \in {<<>>, <<"ok">>, <<"error">>}, Reply(c, r)
  PROVE  replies' \in [Calls -> Seq({"ok", "error"})]
<1>1. /\ <<>> \in Seq({"ok", "error"})
      /\ <<"ok">> \in Seq({"ok", "error"})
      /\ <<"error">> \in Seq({"ok", "error"})
  OBVIOUS
<1>2. replies[c] \o r \in Seq({"ok", "error"})
  BY <1>1, ConcatProperties DEF TypeOK
<1> QED
  BY <1>2 DEF Reply, TypeOK

\* Variables other than the queue and the threads, and what is waited for.
LEMMA StepTypes ==
  ASSUME IInv, [Next]_vars
  PROVE  TypeOK'
<1> USE DEF TypeOK
<1>0. /\ TypeOK
      /\ queue' \in Seq(Jobs)
      /\ running' \subseteq Jobs
      /\ Cardinality(running') <= Threads
      /\ PoolInv
      /\ MaxSamples \in Nat
  BY StepPool, ForwardingAssumption DEF IInv, PoolInv
<1>1. ASSUME NEW c \in Calls, Ask(c)
      PROVE  TypeOK'
  BY <1>0, <1>1, NoJob DEF Ask, pool, IInv, NoQueryBefore
<1>2. ASSUME NEW c \in Calls, AskFails(c)
      PROVE  TypeOK'
  BY <1>0, <1>2, NoJob DEF AskFails, pool
<1>3. ASSUME NEW c \in Calls, Receive(c)
      PROVE  TypeOK'
  <2>1. Head(replies[c]) \in {"ok", "error"}
    BY <1>0, <1>3, HeadTailProperties DEF Receive
  <2> QED
    BY <1>0, <1>3, <2>1, NoJob DEF Receive, pool
<1>4. ASSUME NEW c \in Calls, ReceiveFails(c)
      PROVE  TypeOK'
  BY <1>0, <1>4, NoJob DEF ReceiveFails, pool
<1>5. ASSUME NEW c \in Calls, OtherReplies(c)
      PROVE  TypeOK'
  <2>1. replies' \in [Calls -> Seq({"ok", "error"})]
    BY <1>0, <1>5, RepliesAreTyped DEF OtherReplies
  <2> QED
    BY <1>0, <1>5, <2>1, NoJob DEF OtherReplies, pool
<1>6. ASSUME NEW c \in Calls, OnQuery(c)
      PROVE  TypeOK'
  <2>1. CASE query' = [query EXCEPT ![c] = "dropped"] /\ UNCHANGED queue
    BY <1>0, <1>6, <2>1, NoJob DEF OnQuery, clients
  <2>2. CASE query' = [query EXCEPT ![c] = "held"] /\ queue' = Append(queue, CallJob(c))
    <3>1. \A x : Waits(x)' <=> Waits(x) \/ x = CallJob(c)
      BY <1>0, <1>6, <2>2, NewJob, JobsAre, Queue DEF OnQuery, IInv
    <3> QED
      BY <1>0, <1>6, <2>2, <3>1, JobsDiffer DEF OnQuery, clients
  <2> QED
    BY <1>6, <2>1, <2>2 DEF OnQuery
<1>7. ASSUME NEW c \in Calls, QueryLost(c)
      PROVE  TypeOK'
  BY <1>0, <1>7, NoJob DEF QueryLost, clients, pool
<1>8. ASSUME NEW c \in Calls, CallReturns(c)
      PROVE  TypeOK'
  <2>1. replies' \in [Calls -> Seq({"ok", "error"})]
    BY <1>0, <1>8, RepliesAreTyped DEF CallReturns
  <2>2. \A x : Waits(x)' <=> Waits(x) /\ x # CallJob(c)
    BY <1>0, <1>8, Ends DEF CallReturns
  <2> QED
    BY <1>0, <1>8, <2>1, <2>2, JobsDiffer DEF CallReturns
<1>9. ASSUME NEW c \in Calls, Hang(c)
      PROVE  TypeOK'
  BY <1>0, <1>9, NoJob DEF Hang, clients
<1>10. CASE Sample
  <2>1. \A x : Waits(x)' <=> Waits(x) \/ x = SampleJob(arrived + 1)
    BY <1>0, <1>10, NewJob, JobsAre, Queue DEF Sample, IInv
  <2>2. arrived' \in 0..MaxSamples /\ 1..arrived \subseteq 1..arrived'
    BY <1>0, <1>10 DEF Sample
  <2>3. sent' \in Seq(1..arrived')
    BY <1>0, <1>10, <2>2, SeqMonotonic DEF Sample
  <2> QED
    BY <1>0, <1>10, <2>1, <2>2, <2>3, JobsDiffer DEF Sample, clients
<1>11. ASSUME NEW i \in 1..MaxSamples, SampleSent(i)
       PROVE  TypeOK'
  <2>1. \A x : Waits(x)' <=> Waits(x) /\ x # SampleJob(i)
    BY <1>0, <1>11, Ends DEF SampleSent
  <2>2. i \in 1..arrived
    BY <1>11 DEF SampleSent, IInv, SamplesInv, Waits
  <2>3. sent' \in Seq(1..arrived)
    <3>1. sent \in Seq(1..arrived)
      BY <1>0
    <3>2. Append(sent, i) \in Seq(1..arrived)
      BY <2>2, <3>1, AppendProperties
    <3> QED
      BY <1>11, <3>1, <3>2 DEF SampleSent
  <2> QED
    BY <1>0, <1>11, <2>1, <2>3, JobsDiffer DEF SampleSent, clients
<1>12. CASE Poll
  <2>1. \A x : Waits(x)' <=> Waits(x) \/ x = PollJob
    BY <1>0, <1>12, NewJob, JobsAre, Queue DEF Poll, IInv
  <2> QED
    BY <1>0, <1>12, <2>1, JobsDiffer DEF Poll, clients
<1>13. CASE PollReturns
  <2>1. \A x : Waits(x)' <=> Waits(x) /\ x # PollJob
    BY <1>0, <1>13, Ends DEF PollReturns
  <2> QED
    BY <1>0, <1>13, <2>1, JobsDiffer DEF PollReturns, clients
<1>14. CASE Rebridge
  BY <1>0, <1>14, NoJob DEF Rebridge, clients, pool
<1>15. CASE Start
  BY <1>0, <1>15, StartsFirst DEF Start, clients
<1>16. CASE UNCHANGED vars
  BY <1>0, <1>16, NoJob DEF vars, clients, pool
<1> QED
  BY <1>1, <1>2, <1>3, <1>4, <1>5, <1>6, <1>7, <1>8, <1>9, <1>10, <1>11, <1>12,
     <1>13, <1>14, <1>15, <1>16 DEF Next

\* Every step leaves calls that were not made without a query.
LEMMA StepQueries ==
  ASSUME IInv, [Next]_vars
  PROVE  NoQueryBefore'
<1>0. TypeOK /\ NoQueryBefore
  BY DEF IInv
<1> USE DEF TypeOK, NoQueryBefore
<1>1. ASSUME NEW c \in Calls,
             Ask(c) \/ AskFails(c) \/ Receive(c) \/ ReceiveFails(c) \/ OtherReplies(c)
               \/ OnQuery(c) \/ QueryLost(c) \/ CallReturns(c) \/ Hang(c)
      PROVE  NoQueryBefore'
  <2>1. CASE CallReturns(c)
    BY <1>0, <2>1 DEF CallReturns, IInv, Waits
  <2>2. CASE Receive(c)
    <3>1. replies[c] \in Seq({"ok", "error"}) /\ replies[c] # <<>>
      BY <1>0, <2>2 DEF Receive
    <3>2. Head(replies[c]) \in {"ok", "error"}
      BY <3>1, HeadTailProperties
    <3> QED
      BY <1>0, <2>2, <3>2 DEF Receive
  <2> QED
    BY <1>0, <1>1, <2>1, <2>2
       DEF Ask, AskFails, ReceiveFails, OtherReplies, OnQuery, QueryLost, Hang, clients
<1>2. CASE \/ Sample \/ Poll \/ PollReturns \/ Rebridge \/ Start \/ UNCHANGED vars
           \/ \E i \in 1..MaxSamples : SampleSent(i)
  BY <1>0, <1>2
     DEF Sample, Poll, PollReturns, Rebridge, Start, SampleSent, vars, clients
<1> QED
  BY <1>1, <1>2 DEF Next

-----------------------------------------------------------------------------
\* The order of the samples.

\* What SampleSent(i) leaves of the samples.
LEMMA PublishedNow ==
  ASSUME IInv, NEW i \in 1..MaxSamples, SampleSent(i)
  PROVE  /\ i \in (1..arrived) \ Published
         /\ Published' \subseteq Published \cup {i}
         /\ sent' \in Seq(1..arrived)
         /\ \A k, l \in 1..Len(sent') : sent'[k] = sent'[l] => k = l
<1>1. i \in (1..arrived) \ Published
  BY DEF SampleSent, IInv, SamplesInv, Waits
<1>2. sent \in Seq(1..arrived) /\ Len(sent) \in Nat
  BY LenProperties DEF IInv, SamplesInv
<1>3. CASE sent' = sent
  BY <1>1, <1>2, <1>3 DEF Published, IInv, SamplesInv
<1>4. CASE sent' = Append(sent, i)
  <2>1. /\ sent' \in Seq(1..arrived)
        /\ Len(sent') = Len(sent) + 1
        /\ \A k \in 1..Len(sent) : sent'[k] = sent[k]
        /\ sent'[Len(sent) + 1] = i
    BY <1>1, <1>2, <1>4, AppendProperties
  <2>2. \A k \in 1..Len(sent) : sent[k] # i
    BY <1>1 DEF Published
  <2>3. \A k, l \in 1..Len(sent') : sent'[k] = sent'[l] => k = l
    <3>1. \A k \in 1..Len(sent') : k \in 1..Len(sent) \/ k = Len(sent) + 1
      BY <1>2, <2>1
    <3>2. \A k, l \in 1..Len(sent) : sent[k] = sent[l] => k = l
      BY DEF IInv, SamplesInv
    <3> QED
      BY <2>1, <2>2, <3>1, <3>2
  <2>4. Published' \subseteq Published \cup {i}
    BY <1>2, <2>1 DEF Published
  <2> QED
    BY <1>1, <2>1, <2>3, <2>4
<1> QED
  BY <1>3, <1>4 DEF SampleSent


\* All that the invariant says of samples.
SamplesSafe == SamplesInv /\ InOrder /\ Cardinality(Overtaken) < Threads

\* Fewer samples overtaken are still fewer than threads.
LEMMA OvertakenShrinks ==
  ASSUME IInv, Overtaken' \subseteq Overtaken
  PROVE  Cardinality(Overtaken)' < Threads
<1>1. IsFiniteSet(1..MaxSamples)
  BY ForwardingAssumption, FS_Interval
<1>2. Overtaken \in SUBSET (1..MaxSamples)
  BY DEF Overtaken
<1>3. IsFiniteSet(Overtaken)
  BY <1>1, <1>2, FS_Subset
<1>4. Cardinality(Overtaken') <= Cardinality(Overtaken)
  BY <1>3, FS_Subset
<1>5. Cardinality(Overtaken) \in Nat /\ Cardinality(Overtaken') \in Nat
  BY <1>3, FS_Subset, FS_CardinalityType
<1> QED
  BY <1>4, <1>5, ForwardingAssumption DEF IInv

\* A step that has nothing to do with samples, and queues no job.
LEMMA OtherStep ==
  ASSUME IInv, UNCHANGED <<queue, arrived, sent>>, running' \subseteq running
  PROVE  SamplesSafe'
<1>1. Queued' = Queued /\ Published' = Published
  BY DEF Queued, Published
<1>2. SamplesInv'
  BY <1>1 DEF IInv, SamplesInv, Waits
<1>3. InOrder'
  BY <1>1 DEF IInv, InOrder
<1>4. Overtaken' \subseteq Overtaken
  BY <1>1 DEF Overtaken
<1> QED
  BY <1>2, <1>3, <1>4, OvertakenShrinks DEF SamplesSafe

\* A job is queued that is not the job of a sample.
LEMMA OtherQueued ==
  ASSUME IInv, NEW job \in Jobs, ~Waits(job), \A i : job # SampleJob(i),
         queue' = Append(queue, job), UNCHANGED <<running, arrived, sent>>
  PROVE  SamplesSafe'
<1>1. /\ Published' = Published
      /\ Queued' = Queued \cup {job}
      /\ \A i : Waits(SampleJob(i))' <=> Waits(SampleJob(i))
      /\ Len(queue') = Len(queue) + 1
      /\ \A p \in 1..Len(queue) : queue'[p] = queue[p]
      /\ queue'[Len(queue) + 1] = job
  BY Queue DEF Published, IInv
<1>2. SamplesInv'
  BY <1>1 DEF IInv, SamplesInv
<1>3. InOrder'
  <2>1. ASSUME NEW p \in 1..Len(queue'), NEW q \in 1..Len(queue'),
               NEW i \in 1..MaxSamples, NEW j \in 1..MaxSamples,
               queue'[p] = SampleJob(i), queue'[q] = SampleJob(j), p < q
        PROVE  i < j
    <3>1. Len(queue) \in Nat
      BY LenProperties DEF IInv, PoolInv
    <3>2. p \in 1..Len(queue) /\ q \in 1..Len(queue)
      BY <1>1, <2>1, <3>1
    <3> QED
      BY <1>1, <2>1, <3>2 DEF IInv, InOrder
  <2>2. \A i, j \in 1..MaxSamples :
          SampleJob(i) \in Queued' /\ (SampleJob(j) \in running' \/ j \in Published') => j < i
    BY <1>1 DEF IInv, InOrder
  <2> QED
    BY <2>1, <2>2 DEF InOrder
<1>4. Overtaken' \subseteq Overtaken
  BY <1>1 DEF Overtaken
<1> QED
  BY <1>2, <1>3, <1>4, OvertakenShrinks DEF SamplesSafe

\* A sample arrives: it is the youngest.
LEMMA SampleQueued ==
  ASSUME IInv, Sample
  PROVE  SamplesSafe'
<1> DEFINE new == arrived + 1
<1>1. /\ arrived \in Nat
      /\ MaxSamples \in Nat
      /\ new \in 1..MaxSamples
      /\ ~Waits(SampleJob(new))
      /\ SampleJob(new) \in Jobs
      /\ arrived' = new
      /\ sent' = sent
      /\ running' = running
      /\ queue' = Append(queue, SampleJob(new))
  BY NewJob, JobsAre, ForwardingAssumption DEF Sample, IInv, SamplesInv
<1> HIDE DEF new
<1>2. /\ Published' = Published
      /\ Queued' = Queued \cup {SampleJob(new)}
      /\ \A x : Waits(x)' <=> Waits(x) \/ x = SampleJob(new)
      /\ Len(queue') = Len(queue) + 1
      /\ \A p \in 1..Len(queue) : queue'[p] = queue[p]
      /\ queue'[Len(queue) + 1] = SampleJob(new)
      /\ Len(queue) \in Nat
  BY <1>1, Queue, LenProperties DEF Published, IInv, PoolInv
<1>3. \A i \in 1..MaxSamples : Waits(SampleJob(i)) \/ i \in Published => i < new
  <2>1. Published \subseteq 1..arrived
    BY ElementOfSeq DEF Published, IInv, SamplesInv
  <2>2. \A i \in 1..arrived : i < new
    BY <1>1 DEF new
  <2> QED
    BY <2>1, <2>2 DEF IInv, SamplesInv
<1>4. SamplesInv'
  <2>1. 1..arrived \subseteq 1..new /\ new \in 1..new /\ new \notin Published
    BY <1>1, <1>3 DEF new
  <2>2. sent' \in Seq(1..arrived')
    BY <1>1, <2>1, SeqMonotonic DEF IInv, SamplesInv
  <2>3. \A i \in 1..MaxSamples : Waits(SampleJob(i))' => i \in (1..arrived') \ Published'
    BY <1>1, <1>2, <2>1, JobsDiffer DEF IInv, SamplesInv
  <2> QED
    BY <1>1, <2>2, <2>3 DEF IInv, SamplesInv
<1>5. InOrder'
  <2>1. ASSUME NEW p \in 1..Len(queue'), NEW q \in 1..Len(queue'),
               NEW i \in 1..MaxSamples, NEW j \in 1..MaxSamples,
               queue'[p] = SampleJob(i), queue'[q] = SampleJob(j), p < q
        PROVE  i < j
    <3>1. p \in 1..Len(queue) /\ queue[p] = SampleJob(i)
      BY <1>2, <2>1
    <3>2. CASE q \in 1..Len(queue)
      BY <1>2, <2>1, <3>1, <3>2 DEF IInv, InOrder
    <3>3. CASE q = Len(queue) + 1
      <4>1. j = new
        BY <1>2, <2>1, <3>3, JobsDiffer
      <4> QED
        BY <1>3, <3>1, <4>1 DEF Waits, Queued
    <3> QED
      BY <1>2, <3>2, <3>3
  <2>2. ASSUME NEW i \in 1..MaxSamples, NEW j \in 1..MaxSamples,
               SampleJob(i) \in Queued', SampleJob(j) \in running' \/ j \in Published'
        PROVE  j < i
    <3>1. CASE SampleJob(i) \in Queued
      BY <1>1, <1>2, <2>2, <3>1 DEF IInv, InOrder
    <3>2. CASE i = new
      BY <1>1, <1>2, <1>3, <2>2, <3>2 DEF Waits
    <3> QED
      BY <1>2, <2>2, <3>1, <3>2, JobsDiffer
  <2> QED
    BY <2>1, <2>2 DEF InOrder
<1>6. Overtaken' \subseteq Overtaken
  BY <1>1, <1>2 DEF Overtaken
<1> QED
  BY <1>4, <1>5, <1>6, OvertakenShrinks DEF SamplesSafe

\* The sample that is started is younger than all that were.
LEMMA JobStarted ==
  ASSUME IInv, Start
  PROVE  SamplesSafe'
<1> DEFINE first == Head(queue)
<1>1. /\ first = queue[1]
      /\ Len(queue) \in Nat \ {0}
      /\ first \in Queued
      /\ Queued' = Queued \ {first}
      /\ running' = running \cup {first}
      /\ Len(queue') = Len(queue) - 1
      /\ \A p \in 1..Len(queue') : queue'[p] = queue[p + 1]
      /\ \A x : Waits(x)' <=> Waits(x)
  BY StartsFirst DEF IInv
<1> HIDE DEF first
<1>2. Published' = Published /\ arrived' = arrived /\ sent' = sent
  BY DEF Start, Published
<1>3. SamplesInv'
  BY <1>1, <1>2 DEF IInv, SamplesInv
<1>4. InOrder'
  <2>1. ASSUME NEW p \in 1..Len(queue'), NEW q \in 1..Len(queue'),
               NEW i \in 1..MaxSamples, NEW j \in 1..MaxSamples,
               queue'[p] = SampleJob(i), queue'[q] = SampleJob(j), p < q
        PROVE  i < j
    <3>1. /\ p + 1 \in 1..Len(queue) /\ q + 1 \in 1..Len(queue) /\ p + 1 < q + 1
          /\ queue[p + 1] = SampleJob(i) /\ queue[q + 1] = SampleJob(j)
      BY <1>1, <2>1
    <3> QED
      BY <3>1 DEF IInv, InOrder
  <2>2. ASSUME NEW i \in 1..MaxSamples, NEW j \in 1..MaxSamples,
               SampleJob(i) \in Queued', SampleJob(j) \in running' \/ j \in Published'
        PROVE  j < i
    <3>1. CASE SampleJob(j) = first
      <4>1. PICK p \in 1..Len(queue) : queue[p] = SampleJob(i) /\ p # 1
        BY <1>1, <2>2 DEF Queued
      <4>2. 1 \in 1..Len(queue) /\ 1 < p
        BY <1>1, <4>1
      <4> QED
        BY <1>1, <3>1, <4>1, <4>2 DEF IInv, InOrder
    <3>2. CASE SampleJob(j) # first
      BY <1>1, <1>2, <2>2, <3>2 DEF IInv, InOrder
    <3> QED
      BY <3>1, <3>2
  <2> QED
    BY <2>1, <2>2 DEF InOrder
<1>5. Overtaken' \subseteq Overtaken
  <2> SUFFICES ASSUME NEW i \in 1..MaxSamples, SampleJob(i) \in running',
                      NEW j \in Published, i < j
               PROVE  SampleJob(i) \in running
    BY <1>2 DEF Overtaken
  <2>1. j \in 1..MaxSamples
    <3>1. j \in 1..arrived /\ arrived \in 0..MaxSamples
      BY ElementOfSeq DEF Published, IInv, SamplesInv
    <3> QED
      BY <3>1, ForwardingAssumption
  <2>2. SampleJob(i) \in Queued => j < i
    BY <2>1 DEF IInv, InOrder
  <2> QED
    BY <1>1, <2>1, <2>2
<1> QED
  BY <1>3, <1>4, <1>5, OvertakenShrinks DEF SamplesSafe

\* A sample leaves its thread: those it overtook have the other threads.
LEMMA SampleEnds ==
  ASSUME IInv, NEW i \in 1..MaxSamples, SampleSent(i)
  PROVE  SamplesSafe'
<1>1. /\ PoolInv
      /\ SampleJob(i) \in running
      /\ running' = running \ {SampleJob(i)}
      /\ queue' = queue
      /\ arrived' = arrived
  BY DEF SampleSent, IInv
<1>2. /\ i \in (1..arrived) \ Published
      /\ Published' \subseteq Published \cup {i}
      /\ sent' \in Seq(1..arrived)
      /\ \A k, l \in 1..Len(sent') : sent'[k] = sent'[l] => k = l
  BY PublishedNow
<1>3. /\ Queued' = Queued
      /\ \A x : Waits(x)' <=> Waits(x) /\ x # SampleJob(i)
  BY <1>1, Ends
<1>4. SamplesInv'
  BY <1>1, <1>2, <1>3 DEF IInv, SamplesInv
<1>5. InOrder'
  BY <1>1, <1>2, <1>3 DEF IInv, InOrder
<1>6. Cardinality(Overtaken)' < Threads
  <2> DEFINE job == [k \in Overtaken' |-> SampleJob(k)]
  <2>1. job \in Injection(Overtaken', running')
    BY JobsDiffer DEF Injection, IsInjective, Overtaken
  <2>2. IsFiniteSet(running) /\ Cardinality(running) <= Threads
    BY DEF IInv, PoolInv
  <2>3. IsFiniteSet(running') /\ Cardinality(running') = Cardinality(running) - 1
    BY <1>1, <2>2, FS_RemoveElement
  <2> HIDE DEF job
  <2>4. IsFiniteSet(Overtaken') /\ Cardinality(Overtaken') <= Cardinality(running')
    BY <2>1, <2>3, FS_Injection
  <2>5. /\ Cardinality(Overtaken') \in Nat
        /\ Cardinality(running) \in Nat
        /\ Cardinality(running') \in Nat
    BY <2>2, <2>3, <2>4, FS_CardinalityType
  <2> QED
    BY <2>2, <2>3, <2>4, <2>5, ForwardingAssumption
<1> QED
  BY <1>4, <1>5, <1>6 DEF SamplesSafe

\* Every step keeps what the invariant says of samples.
LEMMA StepSamples ==
  ASSUME IInv, [Next]_vars
  PROVE  SamplesSafe'
<1>1. CASE UNCHANGED <<queue, running, arrived, sent>>
  BY <1>1, OtherStep
<1>2. ASSUME NEW c \in Calls, OnQuery(c)
      PROVE  SamplesSafe'
  <2>1. CASE UNCHANGED queue
    BY <1>1, <1>2, <2>1 DEF OnQuery
  <2>2. CASE queue' = Append(queue, CallJob(c))
    BY <1>2, <2>2, NewJob, JobsAre, JobsDiffer, OtherQueued DEF OnQuery
  <2> QED
    BY <1>2, <2>1, <2>2 DEF OnQuery
<1>3. CASE Sample
  BY <1>3, SampleQueued
<1>4. CASE Poll
  BY <1>4, NewJob, JobsAre, JobsDiffer, OtherQueued DEF Poll
<1>5. ASSUME NEW c \in Calls, CallReturns(c)
      PROVE  SamplesSafe'
  BY <1>5, OtherStep DEF CallReturns
<1>6. ASSUME NEW i \in 1..MaxSamples, SampleSent(i)
      PROVE  SamplesSafe'
  BY <1>6, SampleEnds
<1>7. CASE PollReturns
  BY <1>7, OtherStep DEF PollReturns
<1>8. CASE Start
  BY <1>8, JobStarted
<1>9. ASSUME NEW c \in Calls,
             Ask(c) \/ AskFails(c) \/ Receive(c) \/ ReceiveFails(c) \/ OtherReplies(c)
               \/ QueryLost(c) \/ Hang(c)
      PROVE  UNCHANGED <<queue, running, arrived, sent>>
  BY <1>9 DEF Ask, AskFails, Receive, ReceiveFails, OtherReplies, QueryLost, Hang, pool
<1>10. CASE Rebridge \/ UNCHANGED vars
  BY <1>1, <1>10 DEF Rebridge, vars, pool
<1> QED
  BY <1>1, <1>2, <1>3, <1>4, <1>5, <1>6, <1>7, <1>8, <1>9, <1>10 DEF Next

-----------------------------------------------------------------------------

\* At first there are no jobs and no samples.
LEMMA InitIInv == Init => IInv
<1> SUFFICES ASSUME Init
             PROVE  IInv
  OBVIOUS
<1>1. Queued = {} /\ Published = {} /\ \A x : ~Waits(x)
  BY DEF Init, Queued, Published, Waits
<1>2. Overtaken = {}
  BY DEF Init, Overtaken
<1>3. /\ IsFiniteSet({})
      /\ Cardinality({}) = 0
  BY FS_EmptySet
<1>4. /\ MaxSamples \in Nat
      /\ Threads \in Nat \ {0}
  BY ForwardingAssumption
<1>5. /\ queue = <<>> /\ queue \in Seq(Jobs) /\ Len(queue) = 0
      /\ sent = <<>> /\ sent \in Seq(1..arrived) /\ Len(sent) = 0
  BY DEF Init
<1>6. TypeOK
  BY <1>1, <1>3, <1>4, <1>5 DEF Init, TypeOK
<1>7. PoolInv
  BY <1>1, <1>3, <1>4, <1>5 DEF Init, PoolInv
<1>8. SamplesInv /\ InOrder /\ NoQueryBefore
  BY <1>1, <1>4, <1>5 DEF Init, SamplesInv, InOrder, NoQueryBefore
<1> QED
  BY <1>2, <1>3, <1>4, <1>6, <1>7, <1>8 DEF IInv

\* Every step keeps the invariant.
LEMMA StepIInv == IInv /\ [Next]_vars => IInv'
  BY StepTypes, StepQueries, StepPool, StepSamples DEF IInv, SamplesSafe

\* The invariant holds.
LEMMA Inductive == Spec => []IInv
  BY InitIInv, StepIInv, PTL DEF Spec

-----------------------------------------------------------------------------

(***************************************************************************)
(* The pool never has more jobs at work than threads, and a query is held,  *)
(* or a poll asked for, exactly while its job is queued or running: for any *)
(* number of clients, samples and threads.                                  *)
(***************************************************************************)
THEOREM TypeCorrect == Spec => []TypeOK
<1>1. IInv => TypeOK
  BY DEF IInv
<1> QED
  BY <1>1, Inductive, PTL

(***************************************************************************)
(* No sample is published twice, no query answered twice, no job taken by   *)
(* two threads.                                                             *)
(***************************************************************************)
THEOREM DoneOnce == Spec => []EachOnce
<1>1. IInv => EachOnce
  <2> SUFFICES ASSUME IInv
               PROVE  EachOnce
    OBVIOUS
  <2>1. \A k \in 1..Len(sent) : sent[k] \in 1..MaxSamples /\ sent[k] \in Published
    <3>1. \A k \in 1..Len(sent) : sent[k] \in 1..arrived
      BY ElementOfSeq DEF IInv, SamplesInv
    <3> QED
      BY <3>1, ForwardingAssumption DEF Published, IInv, SamplesInv
  <2>2. \A k \in 1..Len(sent) : ~Waits(SampleJob(sent[k]))
    BY <2>1 DEF IInv, SamplesInv
  <2>3. \A c \in Calls : query[c] = "dropped" => ~Waits(CallJob(c))
    BY DEF IInv, TypeOK
  <2> QED
    BY <2>2, <2>3 DEF EachOnce, IInv, PoolInv, SamplesInv
<1> QED
  BY <1>1, Inductive, PTL

(***************************************************************************)
(* Fewer samples than there are threads are ever overtaken at once, however *)
(* many samples arrive; with one thread none is.                            *)
(***************************************************************************)
THEOREM OrderIsAlmostKept == Spec => []FewAreOvertaken
<1>1. IInv => FewAreOvertaken
  <2> SUFFICES ASSUME IInv
               PROVE  FewAreOvertaken
    OBVIOUS
  <2> DEFINE late == {i \in 1..arrived :
                        Waits(SampleJob(i)) /\ \E k \in 1..Len(sent) : sent[k] > i}
  <2>1. late \subseteq Overtaken
    <3> SUFFICES ASSUME NEW i \in 1..arrived, Waits(SampleJob(i)),
                        NEW k \in 1..Len(sent), sent[k] > i
                 PROVE  i \in Overtaken
      OBVIOUS
    <3>1. i \in 1..MaxSamples /\ sent[k] \in 1..MaxSamples /\ sent[k] \in Published
      <4>1. sent[k] \in 1..arrived
        BY ElementOfSeq DEF IInv, SamplesInv
      <4> QED
        BY <4>1, ForwardingAssumption DEF Published, IInv, SamplesInv
    <3>2. SampleJob(i) \notin Queued
      BY <3>1 DEF IInv, InOrder
    <3> QED
      BY <3>1, <3>2 DEF Overtaken, Waits
  <2>2. IsFiniteSet(Overtaken)
    <3>1. IsFiniteSet(1..MaxSamples)
      BY ForwardingAssumption, FS_Interval
    <3>2. Overtaken \in SUBSET (1..MaxSamples)
      BY DEF Overtaken
    <3> QED
      BY <3>1, <3>2, FS_Subset
  <2> HIDE DEF late
  <2>3. Cardinality(late) <= Cardinality(Overtaken) /\ IsFiniteSet(late)
    BY <2>1, <2>2, FS_Subset
  <2>4. Cardinality(late) \in Nat /\ Cardinality(Overtaken) \in Nat
    BY <2>2, <2>3, FS_CardinalityType
  <2>5. Cardinality(late) < Threads
    BY <2>3, <2>4, ForwardingAssumption DEF IInv
  <2> QED
    BY <2>5 DEF FewAreOvertaken, late
<1> QED
  BY <1>1, Inductive, PTL

=============================================================================
