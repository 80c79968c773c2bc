-------------------------- MODULE ConsumptionProofs --------------------------
(***************************************************************************)
(* Proofs about the two consumers of an account's event log.               *)
(*                                                                         *)
(* EventWorker, for any workers, batch size, lease, number of attempts and *)
(* poisoned events.  The inductive invariant adds to the two properties    *)
(* the types and that a job which may still fail has an attempt left.  The *)
(* fences themselves need no invariant: a step that ends a live lease      *)
(* carries its epoch.                                                      *)
(*                                                                         *)
(* BillingFeed, for any number of replicas, any page sizes and any log.    *)
(* What has to be added to the watermarks is what an acknowledgement       *)
(* stands for: wherever it is, in a replica's hand or in a request between *)
(* its two reads, everything between the cursor it expects and the         *)
(* sequence it names is processed.  A commit that finds the cursor where   *)
(* the acknowledgement expects it then passes processed events only.       *)
(***************************************************************************)
EXTENDS EventWorker, BillingFeed, TLAPS

-----------------------------------------------------------------------------
(* EventWorker.                                                            *)

\* The failure policy makes a job dead at its last attempt.
AttemptsLeft == job.state # "dead" => job.attempts < MaxAttempts

\* The inductive invariant of the worker.
IInv == TypeOK /\ AttemptsLeft /\ EffectsMatchAck /\ NoLostWakeup

-----------------------------------------------------------------------------
(* The operators.                                                          *)

\* What the assumption says of the bounds.
LEMMA Constants ==
  /\ MaxEvents \in Nat /\ MaxEpoch \in Nat
  /\ Limit \in Nat \ {0} /\ LeaseSeconds \in Nat \ {0} /\ MaxAttempts \in Nat \ {0}
  /\ MaxWait \in Nat
  BY EventWorkerAssumption DEF MaxWait

\* The wait before a retry stays within its cap.
LEMMA BackoffType ==
  ASSUME NEW n \in Nat
  PROVE  backoff(n) \in 0 .. MaxWait
<1> DEFINE e == IF n < 1 THEN 1 ELSE Least(n, 8)
<1>1. e \in 1 .. 8
  BY DEF Least
<1>2. \A k \in 1 .. 8 : 2 ^ k \in Nat
  <2>1. /\ 2 ^ 1 \in Nat /\ 2 ^ 2 \in Nat /\ 2 ^ 3 \in Nat /\ 2 ^ 4 \in Nat
        /\ 2 ^ 5 \in Nat /\ 2 ^ 6 \in Nat /\ 2 ^ 7 \in Nat /\ 2 ^ 8 \in Nat
    OBVIOUS
  <2> SUFFICES ASSUME NEW k \in 1 .. 8
               PROVE  2 ^ k \in Nat
    OBVIOUS
  <2>2. k = 1 \/ k = 2 \/ k = 3 \/ k = 4 \/ k = 5 \/ k = 6 \/ k = 7 \/ k = 8
    OBVIOUS
  <2>. QED
    BY <2>1, <2>2, Zenon
<1> HIDE DEF e
<1>3. \A x \in Nat : Least(x, MaxWait) \in 0 .. MaxWait
  BY DEF Least, MaxWait
<1>. QED
  BY <1>1, <1>2, <1>3, Zenon DEF backoff, e

\* What the failure policy leaves alone, and that it spends one attempt.
LEMMA FailedType ==
  ASSUME TypeOK, AttemptsLeft, job.state # "dead"
  PROVE  /\ Failed \in Job
         /\ Failed.state # "dead" => Failed.attempts < MaxAttempts
         /\ Failed.state \in {"pending", "dead"}
         /\ Failed.acknowledged = job.acknowledged
         /\ Failed.target = job.target
<1>1. job.attempts + 1 \in Nat /\ job.attempts + 1 <= MaxAttempts
  BY Constants DEF TypeOK, Job, AttemptsLeft
<1>2. backoff(job.attempts + 1) \in 0 .. MaxWait
  BY <1>1, BackoffType
<1> DEFINE attempts == job.attempts + 1
           state == IF attempts >= MaxAttempts THEN "dead" ELSE "pending"
<1>3. /\ state \in {"none", "idle", "pending", "running", "dead"}
      /\ attempts \in 0 .. MaxAttempts
      /\ NoToken \in 0 .. MaxEpoch /\ 0 \in 0 .. LeaseSeconds
  BY <1>1, Constants DEF NoToken
<1>4. Failed = [job EXCEPT !.state = state, !.attempts = attempts, !.token = NoToken,
                           !.left = 0, !.wait = backoff(attempts)]
  BY DEF Failed
<1>5. Failed \in Job
  BY <1>2, <1>3, <1>4 DEF TypeOK, Job
<1>. QED
  BY <1>1, <1>4, <1>5, Constants DEF TypeOK, Job

\* A job that is running or pending has an event to consume.
LEMMA FailedKeeps ==
  ASSUME IInv, job.state \in {"running"}, job' = Failed, UNCHANGED <<seq, effects>>,
         worker' \in [Workers -> Worker]
  PROVE  IInv'
  BY FailedType DEF IInv, TypeOK, AttemptsLeft, EffectsMatchAck, NoLostWakeup

-----------------------------------------------------------------------------
(* The invariant.                                                          *)

\* The initial states satisfy the invariant.
LEMMA InitIInv == Init => IInv
  BY Constants
     DEF Init, IInv, TypeOK, AttemptsLeft, EffectsMatchAck, NoLostWakeup,
         Job, Worker, Lease, Idle, NoLease, NoToken, MaxWait

\* A worker that moves on or gives up is a worker.
LEMMA WorkerType ==
  ASSUME TypeOK, NEW w \in Workers
  PROVE  /\ [worker EXCEPT ![w] = Idle] \in [Workers -> Worker]
         /\ \A pc \in {"leased", "checked", "failing"} :
              [worker EXCEPT ![w].pc = pc] \in [Workers -> Worker]
  BY Constants DEF TypeOK, Worker, Lease, Idle, NoLease

\* Every step of the workers keeps the inductive invariant.
LEMMA StepIInv == IInv /\ [Next]_vars => IInv'
<1> SUFFICES ASSUME IInv, [Next]_vars
             PROVE  IInv'
  OBVIOUS
<1> USE Constants
<1>1. CASE AppendEvent
  <2>1. seq + 1 \in 0 .. MaxEvents /\ seq' = seq + 1
    BY <1>1 DEF AppendEvent, IInv, TypeOK
  <2>2. job' = [job EXCEPT !.state = IF @ \in {"none", "idle"} THEN "pending" ELSE @,
                           !.target = seq + 1]
    BY <1>1 DEF AppendEvent, Schedule, IInv, TypeOK, Job
  <2>3. job' \in Job
    BY <2>1, <2>2 DEF IInv, TypeOK, Job
  <2>. QED
    <3>1. /\ job'.target = seq + 1 /\ job'.acknowledged = job.acknowledged
          /\ job'.attempts = job.attempts
          /\ job'.state = IF job.state \in {"none", "idle"} THEN "pending" ELSE job.state
      BY <2>2 DEF IInv, TypeOK, Job
    <3>2. seq \in Nat /\ job.acknowledged \in Nat /\ job.target = seq
          /\ job.acknowledged <= seq /\ effects' = effects /\ worker' = worker
      BY <1>1 DEF AppendEvent, IInv, TypeOK, Job, EffectsMatchAck
    <3>3. TypeOK' /\ EffectsMatchAck'
      BY <2>1, <2>3, <3>1, <3>2 DEF IInv, TypeOK, EffectsMatchAck
    <3>4. AttemptsLeft' /\ NoLostWakeup'
      BY <3>1, <3>2 DEF IInv, AttemptsLeft, NoLostWakeup
    <3>. QED
      BY <3>3, <3>4 DEF IInv
<1>2. ASSUME NEW w \in Workers, ClaimExpired(w)
      PROVE  IInv'
  BY <1>2, FailedKeeps DEF ClaimExpired, IInv, TypeOK
<1>3. ASSUME NEW w \in Workers, Claim(w)
      PROVE  IInv'
  <2> DEFINE through == Least(job.acknowledged + Limit, job.target)
  <2>1. through \in 0 .. MaxEvents
    BY DEF Least, IInv, TypeOK, Job
  <2>2. job.epoch + 1 \in 0 .. MaxEpoch /\ LeaseSeconds \in 0 .. LeaseSeconds
    BY <1>3 DEF Claim, IInv, TypeOK, Job
  <2>3. job' \in Job
    BY <1>3, <2>1, <2>2 DEF Claim, IInv, TypeOK, Job
  <2>4. worker' \in [Workers -> Worker]
    <3>1. [epoch |-> job.epoch + 1, expected |-> job.acknowledged, through |-> through] \in Lease
      BY <2>1, <2>2 DEF IInv, TypeOK, Job, Lease
    <3>. QED
      BY <1>3, <3>1 DEF Claim, IInv, TypeOK, Worker
  <2>. QED
    BY <1>3, <2>3, <2>4 DEF Claim, IInv, TypeOK, Job, AttemptsLeft, EffectsMatchAck,
                      NoLostWakeup
<1>4. ASSUME NEW w \in Workers, CheckDuplicate(w)
      PROVE  IInv'
  BY <1>4, WorkerType DEF CheckDuplicate, Goto, IInv, TypeOK, AttemptsLeft,
                          EffectsMatchAck, NoLostWakeup
<1>5. ASSUME NEW w \in Workers, Complete(w)
      PROVE  IInv'
  <2> DEFINE l == worker[w].lease
  <2>1. /\ l.through \in 0 .. MaxEvents /\ l.through > job.acknowledged
        /\ l.through <= job.target /\ job' = Completed(l)
        /\ effects' = effects \cup (job.acknowledged + 1 .. l.through)
        /\ seq' = seq
    BY <1>5 DEF Complete, Locked, IInv, TypeOK, Worker, Lease
  <2>2. worker' \in [Workers -> Worker]
    <3>1. \/ worker' = [worker EXCEPT ![w] = Idle]
          \/ \E pc \in {"leased", "checked", "failing"} : worker' = [worker EXCEPT ![w].pc = pc]
      BY <1>5, Zenon DEF Complete, Goto
    <3>2. /\ [worker EXCEPT ![w] = Idle] \in [Workers -> Worker]
          /\ \A pc \in {"leased", "checked", "failing"} :
               [worker EXCEPT ![w].pc = pc] \in [Workers -> Worker]
      BY WorkerType DEF IInv
    <3>3. CASE worker' = [worker EXCEPT ![w] = Idle]
      BY <3>2, <3>3, Zenon
    <3>4. ASSUME NEW pc \in {"leased", "checked", "failing"},
                 worker' = [worker EXCEPT ![w].pc = pc]
          PROVE  worker' \in [Workers -> Worker]
      BY <3>2, <3>4, Zenon
    <3>. QED
      BY <3>1, <3>3, <3>4, Zenon
  <2> HIDE DEF l
  <2>3. /\ NoToken \in 0 .. MaxEpoch /\ 0 \in 0 .. LeaseSeconds /\ 0 \in 0 .. MaxWait
        /\ 0 \in 0 .. MaxAttempts
    BY DEF NoToken
  <2>4. job' \in Job
    BY <2>1, <2>3 DEF Completed, IInv, TypeOK, Job
  <2>5. /\ job'.acknowledged = l.through /\ job'.target = job.target /\ job'.attempts = 0
        /\ job'.state = IF l.through < job.target THEN "pending" ELSE "idle"
    BY <2>1 DEF Completed, IInv, TypeOK, Job
  <2>6. job.acknowledged \in Nat /\ job.target \in 0 .. MaxEvents
    BY DEF IInv, TypeOK, Job
  <2>7. EffectsMatchAck'
    BY <2>1, <2>5, <2>6 DEF IInv, EffectsMatchAck
  <2>8. AttemptsLeft' /\ NoLostWakeup'
    BY <2>1, <2>5, <2>6 DEF AttemptsLeft, NoLostWakeup
  <2>9. effects' \subseteq 1 .. MaxEvents
    BY <2>1, <2>4, <2>7 DEF EffectsMatchAck, Job
  <2>. QED
    BY <2>1, <2>2, <2>4, <2>7, <2>8, <2>9 DEF IInv, TypeOK
<1>6. ASSUME NEW w \in Workers, CompleteError(w)
      PROVE  IInv'
  BY <1>6, WorkerType DEF CompleteError, Goto, IInv, TypeOK, AttemptsLeft,
                          EffectsMatchAck, NoLostWakeup
<1>7. ASSUME NEW w \in Workers, FailEventJob(w)
      PROVE  IInv'
  <2>1. worker' \in [Workers -> Worker]
    BY <1>7, WorkerType DEF FailEventJob, IInv
  <2>2. CASE Locked(worker[w].lease) /\ job' = Failed
    BY <1>7, <2>1, <2>2, FailedKeeps DEF FailEventJob, Locked
  <2>3. CASE UNCHANGED job
    BY <1>7, <2>1, <2>3 DEF FailEventJob, IInv, TypeOK, AttemptsLeft,
                            EffectsMatchAck, NoLostWakeup
  <2>. QED
    BY <1>7, <2>2, <2>3 DEF FailEventJob
<1>8. ASSUME NEW w \in Workers, Crash(w)
      PROVE  IInv'
  BY <1>8, WorkerType DEF Crash, IInv, TypeOK, AttemptsLeft, EffectsMatchAck,
                          NoLostWakeup
<1>9. CASE RetryEventJob
  <2>1. 0 \in 0 .. MaxWait /\ 0 \in 0 .. MaxAttempts
    OBVIOUS
  <2>2. job' \in Job
    BY <1>9, <2>1 DEF RetryEventJob, IInv, TypeOK, Job
  <2>. QED
    <3>1. /\ job'.acknowledged = job.acknowledged /\ job'.target = job.target
          /\ job'.attempts = 0 /\ job'.state = "pending" /\ job.state = "dead"
          /\ UNCHANGED <<seq, effects, worker>>
      BY <1>9 DEF RetryEventJob, IInv, TypeOK, Job
    <3>. QED
      BY <2>2, <3>1 DEF IInv, TypeOK, AttemptsLeft, EffectsMatchAck, NoLostWakeup
<1>10. CASE Tick
  <2>1. job' = [job EXCEPT !.left = job'.left, !.wait = job'.wait]
    BY <1>10 DEF Tick, IInv, TypeOK, Job
  <2>2. job'.left \in 0 .. LeaseSeconds /\ job'.wait \in 0 .. MaxWait
    BY <1>10 DEF Tick, IInv, TypeOK, Job
  <2>3. job' \in Job
    BY <2>1, <2>2 DEF IInv, TypeOK, Job
  <2>. QED
    BY <1>10, <2>1, <2>3 DEF Tick, IInv, TypeOK, Job, AttemptsLeft, EffectsMatchAck,
                             NoLostWakeup
<1>11. CASE UNCHANGED vars
  BY <1>11 DEF vars, IInv, TypeOK, AttemptsLeft, EffectsMatchAck, NoLostWakeup
<1>. QED
  BY <1>1, <1>2, <1>3, <1>4, <1>5, <1>6, <1>7, <1>8, <1>9, <1>10, <1>11
     DEF Next, Step

\* The inductive invariant holds in every reachable state.
LEMMA Inductive == Spec => []IInv
  BY InitIInv, StepIInv, PTL DEF Spec

-----------------------------------------------------------------------------
(* The results.                                                            *)

\* complete_event_job commits effects and acknowledgement together: however
\* many workers crash, stall or repeat, the effects are those of the
\* acknowledged prefix.
THEOREM EffectsCorrect == Spec => []EffectsMatchAck
  BY Inductive, PTL DEF IInv

\* schedule against complete_event_job: no event is left behind an idle job.
THEOREM WakeupsCorrect == Spec => []NoLostWakeup
  BY Inductive, PTL DEF IInv

\* `locked`: a live lease is ended by its holder only, and the acknowledgement
\* moves under a live lease to the leased boundary.
THEOREM LeasesCorrect == Spec => LeaseIsRespected
<1> DEFINE Ended == (job.state = "running" /\ job.left > 0 /\ job'.state # "running")
                      => \E w \in Workers : /\ worker[w].lease.epoch = job.epoch
                                            /\ worker'[w] # worker[w]
           Moved == job'.acknowledged # job.acknowledged
                      => /\ job.state = "running" /\ job.left > 0
                         /\ job'.acknowledged = job.through
<1>1. IInv /\ [Next]_vars => (Ended /\ Moved) \/ UNCHANGED vars
  <2> SUFFICES ASSUME IInv, Next
               PROVE  Ended /\ Moved
    BY DEF vars
  <2>1. CASE AppendEvent
    BY <2>1 DEF AppendEvent, Schedule, IInv, TypeOK, Job
  <2>2. ASSUME NEW w \in Workers, ClaimExpired(w)
        PROVE  Ended /\ Moved
    BY <2>2 DEF ClaimExpired, Failed, IInv, TypeOK, Job
  <2>3. ASSUME NEW w \in Workers, Claim(w)
        PROVE  Ended /\ Moved
    BY <2>3 DEF Claim, IInv, TypeOK, Job
  <2>4. ASSUME NEW w \in Workers, Complete(w)
        PROVE  Ended /\ Moved
    <3>1. worker'[w] # worker[w]
      BY <2>4 DEF Complete, Goto, Idle, IInv, TypeOK, Worker
    <3>. QED
      BY <2>4, <3>1 DEF Complete, Completed, Locked, IInv, TypeOK, Job
  <2>5. ASSUME NEW w \in Workers, FailEventJob(w)
        PROVE  Ended /\ Moved
    <3>1. worker'[w] # worker[w]
      BY <2>5 DEF FailEventJob, Idle, IInv, TypeOK, Worker
    <3>. QED
      BY <2>5, <3>1 DEF FailEventJob, Failed, Locked, IInv, TypeOK, Job
  <2>6. ASSUME NEW w \in Workers, CheckDuplicate(w) \/ CompleteError(w) \/ Crash(w)
        PROVE  Ended /\ Moved
    BY <2>6 DEF CheckDuplicate, CompleteError, Crash
  <2>7. CASE RetryEventJob \/ Tick
    BY <2>7 DEF RetryEventJob, Tick, IInv, TypeOK, Job
  <2>. QED
    BY <2>1, <2>2, <2>3, <2>4, <2>5, <2>6, <2>7 DEF Next, Step
<1>. QED
  BY <1>1, Inductive, PTL DEF Spec, LeaseIsRespected

\* Every step of the leased worker is a step of ordered consumption or leaves
\* log, cursor and processed events alone.
THEOREM Refinement == Spec => ImplementsOrderedConsumption
<1>1. Init => OC!Init
  BY DEF Init, OC!Init
<1>2. IInv /\ IInv' /\ [Next]_vars => [OC!Next]_(OC!vars)
  <2> SUFFICES ASSUME IInv, IInv', [Next]_vars
               PROVE  OC!Next \/ UNCHANGED OC!vars
    OBVIOUS
  <2>1. CASE AppendEvent
    BY <2>1 DEF AppendEvent, Schedule, OC!Next, OC!Append, IInv, TypeOK, Job
  <2>2. ASSUME NEW w \in Workers, Complete(w)
        PROVE  OC!Next
    <3>1. /\ job'.acknowledged = worker[w].lease.through
          /\ worker[w].lease.through > job.acknowledged
          /\ effects \subseteq effects' /\ seq' = seq
      BY <2>2 DEF Complete, Completed, Locked, IInv, TypeOK, Job
    <3>. QED
      BY <3>1 DEF OC!Next, OC!Consume, IInv, TypeOK, Job, EffectsMatchAck
  <2>3. ASSUME NEW w \in Workers,
               ClaimExpired(w) \/ Claim(w) \/ CheckDuplicate(w) \/ CompleteError(w)
                 \/ FailEventJob(w) \/ Crash(w)
        PROVE  UNCHANGED OC!vars
    BY <2>3 DEF ClaimExpired, Claim, CheckDuplicate, CompleteError, FailEventJob, Crash,
                Failed, OC!vars, IInv, TypeOK, Job
  <2>4. CASE RetryEventJob \/ Tick
    BY <2>4 DEF RetryEventJob, Tick, OC!vars, IInv, TypeOK, Job
  <2>5. CASE UNCHANGED vars
    BY <2>5 DEF vars, OC!vars
  <2>. QED
    BY <2>1, <2>2, <2>3, <2>4, <2>5 DEF Next, Step
<1>. QED
  BY <1>1, <1>2, Inductive, PTL DEF Spec, ImplementsOrderedConsumption, OC!Spec
-----------------------------------------------------------------------------

(* BillingFeed.                                                            *)

\* What a replica holds.
Hand == [expected : Sequence, after : Sequence, last : Sequence, done : BOOLEAN]
\* A poll or an acknowledgement between its two reads.
Request == [kind : {"none", "poll", "ack"}, ack : Ack \cup {NoAck}, limit : Nat]

\* The types.
FeedTypeOK ==
    /\ seq \in Sequence
    /\ row \in [acknowledged : Sequence, delivered : Sequence]
    /\ request \in [Pollers -> Request]
    /\ hand \in [Pollers -> Hand]
    /\ processed \subseteq 1 .. seq

\* What lies behind the cursor is processed.
CursorIsProcessed == 1 .. row.acknowledged \subseteq processed

\* A page starts at the cursor its answer told, and once it is done its events
\* are processed.
HandIsHonest ==
    \A p \in Pollers :
        /\ hand[p].after = hand[p].expected
        /\ hand[p].done => hand[p].expected + 1 .. hand[p].last \subseteq processed

\* So are the events of an acknowledgement under way.
RequestIsHonest ==
    \A p \in Pollers :
        /\ request[p].kind = "ack" => request[p].ack # NoAck
        /\ request[p].ack # NoAck =>
             request[p].ack.expected + 1 .. request[p].ack.sequence \subseteq processed

\* The inductive invariant of the feed.
FeedIInv ==
    /\ FeedTypeOK /\ WatermarksOrdered
    /\ CursorIsProcessed /\ HandIsHonest /\ RequestIsHonest

\* An acknowledgement for what is processed.
Honest(ack) ==
    /\ ack \in Ack \cup {NoAck}
    /\ ack # NoAck => ack.expected + 1 .. ack.sequence \subseteq processed

\* The bounds of the log and of a page are numbers.
LEMMA FeedBounds == MaxEvents \in Nat /\ \A n \in Limits : n \in Nat \ {0}
  BY BillingFeedAssumption

-----------------------------------------------------------------------------
(* The decision of both reads.                                             *)

\* A poll without an acknowledgement is none.
LEMMA NoAckIsNone == NoAck \notin Ack
  BY DEF NoAck, Ack, Sequence

\* An accepted acknowledgement leaves the cursor where it is or moves it
\* forward, within what was delivered, over processed events.
LEMMA AcknowledgedMoves ==
  ASSUME FeedIInv, NEW ack, Honest(ack), Acknowledged(ack) # Refused
  PROVE  /\ Acknowledged(ack) \in Sequence
         /\ row.acknowledged <= Acknowledged(ack)
         /\ Acknowledged(ack) <= row.delivered
         /\ 1 .. Acknowledged(ack) \subseteq processed
<1>1. /\ row.acknowledged \in Sequence /\ row.delivered \in Sequence
      /\ row.acknowledged <= row.delivered /\ 1 .. row.acknowledged \subseteq processed
  BY DEF FeedIInv, FeedTypeOK, WatermarksOrdered, CursorIsProcessed
<1>2. CASE ack = NoAck \/ ack.sequence = row.acknowledged
  BY <1>1, <1>2 DEF Acknowledged, Sequence
<1>3. CASE ~(ack = NoAck \/ ack.sequence = row.acknowledged)
  <2>1. /\ ack \in Ack /\ ack.expected = row.acknowledged
        /\ ack.sequence >= row.acknowledged /\ ack.sequence <= row.delivered
        /\ Acknowledged(ack) = ack.sequence
        /\ ack.expected + 1 .. ack.sequence \subseteq processed
    BY <1>1, <1>3 DEF Acknowledged, Honest, Ack, Sequence
  <2>. QED
    BY <1>1, <2>1 DEF Ack, Sequence
<1>. QED
  BY <1>2, <1>3

\* The page behind it is within the log and within what is then delivered.
LEMMA PageFits ==
  ASSUME FeedIInv, NEW ack, Honest(ack), Acknowledged(ack) # Refused, NEW limit \in Nat
  PROVE  /\ PageAfter(ack) = Acknowledged(ack)
         /\ PageLast(ack, limit) \in Sequence
         /\ PageLast(ack, limit) <= Delivered(ack, limit)
         /\ Delivered(ack, limit) \in Sequence
         /\ row.delivered <= Delivered(ack, limit)
         /\ Delivered(ack, limit) <= seq
<1>1. /\ Acknowledged(ack) \in Sequence /\ Acknowledged(ack) <= row.delivered
  BY AcknowledgedMoves
<1>2. /\ row.delivered \in Sequence /\ row.delivered <= seq /\ seq \in Sequence
  BY DEF FeedIInv, FeedTypeOK, WatermarksOrdered
<1>. QED
  BY <1>1, <1>2, FeedBounds
     DEF PageAfter, PageLast, Delivered, Least, Greatest, Sequence

-----------------------------------------------------------------------------
(* The invariant.                                                          *)

\* The initial states satisfy the invariant.
LEMMA FeedInitIInv == FeedInit => FeedIInv
  BY FeedBounds DEF FeedInit, FeedIInv, FeedTypeOK, WatermarksOrdered,
     CursorIsProcessed, HandIsHonest,
         RequestIsHonest, Sequence, Request, Hand, Ack, NoAck, NoRequest, EmptyHand

\* Dropping a page.
LEMMA ConflictHand ==
  ASSUME FeedIInv, NEW p \in Pollers, Conflict(p) \/ UNCHANGED hand
  PROVE  /\ hand' \in [Pollers -> Hand]
         /\ \A q \in Pollers :
              \/ hand'[q] = hand[q]
              \/ /\ hand'[q].last <= row.delivered
                 /\ hand'[q].after = hand'[q].expected
                 /\ ~hand'[q].done
<1>1. EmptyHand \in Hand
  BY FeedBounds DEF EmptyHand, Hand, Sequence
<1>2. hand' \in [Pollers -> Hand]
      /\ \A q \in Pollers : hand'[q] = EmptyHand \/ hand'[q] = hand[q]
  BY <1>1 DEF FeedIInv, FeedTypeOK, Conflict
<1>3. /\ EmptyHand.last <= row.delivered /\ EmptyHand.after = EmptyHand.expected
      /\ ~EmptyHand.done
  BY FeedBounds DEF EmptyHand, FeedIInv, FeedTypeOK, Sequence
<1>. QED
  BY <1>2, <1>3, Zenon

\* Taking one.
LEMMA AnswerHand ==
  ASSUME FeedIInv, NEW p \in Pollers, NEW ack, Honest(ack), Acknowledged(ack) # Refused,
         NEW limit \in Nat, Answer(p, ack, limit)
  PROVE  /\ hand' \in [Pollers -> Hand]
         /\ \A q \in Pollers :
              \/ hand'[q] = hand[q]
              \/ /\ hand'[q].last <= Delivered(ack, limit)
                 /\ hand'[q].after = hand'[q].expected
                 /\ ~hand'[q].done
<1> DEFINE new == [expected |-> Acknowledged(ack), after |-> PageAfter(ack),
                   last |-> PageLast(ack, limit), done |-> FALSE]
<1>1. new \in Hand
  BY PageFits, AcknowledgedMoves DEF Hand
<1>2. /\ new.last <= Delivered(ack, limit) /\ new.after = new.expected /\ ~new.done
  BY PageFits
<1>3. \/ hand' = [hand EXCEPT ![p] = new]
      \/ UNCHANGED hand
  BY DEF Answer
<1> HIDE DEF new
<1>. QED
  BY <1>1, <1>2, <1>3 DEF FeedIInv, FeedTypeOK

\* What a replica may send is honest, and so is a request under way.
LEMMA AcksAreHonest ==
  ASSUME FeedIInv, NEW p \in Pollers
  PROVE  /\ \A ack \in Acks(p) : Honest(ack) /\ ack # NoAck
         /\ Honest(NoAck)
         /\ Honest(request[p].ack)
         /\ request[p].limit \in Nat
<1>1. \A ack \in Acks(p) : Honest(ack) /\ ack # NoAck
  <2> SUFFICES ASSUME NEW ack \in Acks(p)
               PROVE  Honest(ack) /\ ack # NoAck
    OBVIOUS
  <2>1. /\ ack = [expected |-> hand[p].expected, sequence |-> hand[p].last]
        /\ hand[p].done /\ hand[p] \in Hand
    BY DEF Acks, FeedIInv, FeedTypeOK
  <2>2. ack \in Ack
    BY <2>1 DEF Ack, Hand
  <2>. QED
    BY <2>1, <2>2, NoAckIsNone DEF Honest, FeedIInv, HandIsHonest
<1>2. Honest(request[p].ack) /\ request[p].limit \in Nat
  BY DEF Honest, FeedIInv, FeedTypeOK, Request, RequestIsHonest
<1>. QED
  BY <1>1, <1>2 DEF Honest

\* A step that touches neither log nor processed events preserves the invariant
\* when the row moves forward over processed events, the hands stay honest and
\* so do the requests.
LEMMA Preserved ==
  ASSUME FeedIInv, UNCHANGED <<seq, processed>>,
         row' \in [acknowledged : Sequence, delivered : Sequence],
         row'.acknowledged <= row'.delivered, row.delivered <= row'.delivered,
         row'.delivered <= seq, 1 .. row'.acknowledged \subseteq processed,
         hand' \in [Pollers -> Hand],
         \A q \in Pollers : \/ hand'[q] = hand[q]
                            \/ /\ hand'[q].last <= row'.delivered
                               /\ hand'[q].after = hand'[q].expected /\ ~hand'[q].done,
         request' \in [Pollers -> Request],
         \A q \in Pollers : \/ request'[q] = request[q]
                            \/ /\ request'[q].kind = "ack" => request'[q].ack # NoAck
                               /\ Honest(request'[q].ack)
  PROVE  FeedIInv'
<1>1. FeedTypeOK'
  BY DEF FeedIInv, FeedTypeOK
<1>2. WatermarksOrdered'
  <2>1. \A q \in Pollers : hand'[q].last <= row'.delivered
    <3> SUFFICES ASSUME NEW q \in Pollers
                 PROVE  hand'[q].last <= row'.delivered
      OBVIOUS
    <3>1. hand[q].last <= row.delivered /\ hand[q].last \in Sequence /\ row.delivered \in Sequence
      BY DEF FeedIInv, FeedTypeOK, WatermarksOrdered, Hand
    <3>. QED
      BY <3>1, FeedBounds DEF Sequence
  <2>. QED
    BY <2>1 DEF WatermarksOrdered
<1>3. CursorIsProcessed'
  BY DEF CursorIsProcessed
<1>4. HandIsHonest'
  BY DEF FeedIInv, HandIsHonest
<1>5. RequestIsHonest'
  BY DEF FeedIInv, RequestIsHonest, Honest
<1>. QED
  BY <1>1, <1>2, <1>3, <1>4, <1>5 DEF FeedIInv

\* The row and the empty request.
LEMMA RowAndRequest ==
  ASSUME FeedIInv
  PROVE  /\ row \in [acknowledged : Sequence, delivered : Sequence]
         /\ row.acknowledged <= row.delivered /\ row.delivered <= seq
         /\ row.delivered <= row.delivered
         /\ 1 .. row.acknowledged \subseteq processed
         /\ NoRequest \in Request /\ NoRequest.kind # "ack" /\ Honest(NoRequest.ack)
  BY FeedBounds
     DEF FeedIInv, FeedTypeOK, WatermarksOrdered, CursorIsProcessed, Sequence, NoRequest, Request,
         Honest

\* Every step of the feed keeps the inductive invariant.
LEMMA FeedStepIInv == FeedIInv /\ [FeedNext]_feedVars => FeedIInv'
<1> SUFFICES ASSUME FeedIInv, [FeedNext]_feedVars
             PROVE  FeedIInv'
  OBVIOUS
<1>1. CASE FeedAppend
  <2>1. seq' \in Sequence /\ seq \in Sequence /\ seq' = seq + 1
    BY <1>1, FeedBounds DEF FeedAppend, FeedIInv, FeedTypeOK, Sequence
  <2>2. FeedTypeOK'
    BY <1>1, <2>1 DEF FeedAppend, FeedIInv, FeedTypeOK, Sequence
  <2>3. WatermarksOrdered'
    BY <1>1, <2>1 DEF FeedAppend, FeedIInv, FeedTypeOK, WatermarksOrdered,
       Sequence
  <2>. QED
    BY <1>1, <2>2, <2>3 DEF FeedAppend, FeedIInv, CursorIsProcessed, HandIsHonest,
       RequestIsHonest
<1>2. ASSUME NEW p \in Pollers, NEW ack \in Acks(p) \cup {NoAck}, NEW limit \in Limits,
             PollRead(p, ack, limit)
      PROVE  FeedIInv'
  <2>1. Honest(ack) /\ limit \in Nat
    BY AcksAreHonest, FeedBounds
  <2>2. UNCHANGED <<seq, row, processed>>
    BY <1>2 DEF PollRead
  <2>3. CASE Conflict(p) /\ UNCHANGED request
    BY <2>2, <2>3, ConflictHand, RowAndRequest, Preserved DEF FeedIInv, FeedTypeOK
  <2>4. CASE /\ Acknowledged(ack) # Refused /\ Page(ack, limit) = row
             /\ Answer(p, ack, limit) /\ UNCHANGED request
    <3>1. Delivered(ack, limit) = row.delivered
      BY <2>4 DEF Page
    <3>. QED
      BY <2>1, <2>2, <2>4, <3>1, AnswerHand, RowAndRequest, Preserved DEF FeedIInv, FeedTypeOK
  <2>5. CASE /\ request' = [request EXCEPT ![p] =
                               [kind |-> "poll", ack |-> ack, limit |-> limit]]
             /\ UNCHANGED hand
    <3> DEFINE new == [kind |-> "poll", ack |-> ack, limit |-> limit]
    <3>1. new \in Request /\ new.kind # "ack" /\ Honest(new.ack)
      BY <2>1 DEF Request, Honest
    <3> HIDE DEF new
    <3>2. request' = [request EXCEPT ![p] = new]
      BY <2>5 DEF new
    <3>. QED
      BY <2>2, <2>5, <3>1, <3>2, RowAndRequest, Preserved DEF FeedIInv, FeedTypeOK
  <2>. QED
    BY <1>2, <2>3, <2>4, <2>5 DEF PollRead
<1>3. ASSUME NEW p \in Pollers, PollCommit(p)
      PROVE  FeedIInv'
  <2> DEFINE ack == request[p].ack
             limit == request[p].limit
  <2>1. Honest(ack) /\ limit \in Nat
    BY AcksAreHonest
  <2>2. /\ UNCHANGED <<seq, processed>>
        /\ request' = [request EXCEPT ![p] = NoRequest]
        /\ \/ Conflict(p) /\ UNCHANGED row
           \/ /\ Acknowledged(ack) # Refused
              /\ row' = Page(ack, limit)
              /\ Answer(p, ack, limit)
    BY <1>3 DEF PollCommit, Done
  <2> HIDE DEF ack, limit
  <2>3. /\ request' \in [Pollers -> Request]
        /\ \A q \in Pollers : \/ request'[q] = request[q]
                              \/ request'[q].kind # "ack" /\ Honest(request'[q].ack)
    BY <2>2, RowAndRequest DEF FeedIInv, FeedTypeOK
  <2>4. CASE Conflict(p) /\ UNCHANGED row
    BY <2>2, <2>3, <2>4, ConflictHand, RowAndRequest, Preserved DEF FeedIInv, FeedTypeOK
  <2>5. CASE /\ Acknowledged(ack) # Refused /\ row' = Page(ack, limit)
             /\ Answer(p, ack, limit)
    <3>1. /\ row' \in [acknowledged : Sequence, delivered : Sequence]
          /\ row'.acknowledged = Acknowledged(ack)
          /\ row'.delivered = Delivered(ack, limit)
      BY <2>1, <2>5, AcknowledgedMoves, PageFits DEF Page
    <3>2. row'.acknowledged <= row'.delivered
      <4>1. /\ Acknowledged(ack) <= row.delivered /\ row.delivered <= Delivered(ack, limit)
            /\ row.delivered \in Sequence /\ Acknowledged(ack) \in Sequence
            /\ Delivered(ack, limit) \in Sequence
        BY <2>1, <2>5, AcknowledgedMoves, PageFits DEF FeedIInv, FeedTypeOK
      <4>. QED
        BY <3>1, <4>1, FeedBounds DEF Sequence
    <3>3. /\ row.delivered <= row'.delivered /\ row'.delivered <= seq
          /\ 1 .. row'.acknowledged \subseteq processed
      BY <2>1, <2>5, <3>1, AcknowledgedMoves, PageFits
    <3>. QED
      BY <2>1, <2>2, <2>3, <2>5, <3>1, <3>2, <3>3, AnswerHand, Preserved
  <2>. QED
    BY <2>2, <2>4, <2>5
<1>4. ASSUME NEW p \in Pollers, NEW ack \in Acks(p), AckRead(p, ack)
      PROVE  FeedIInv'
  <2>1. Honest(ack) /\ ack # NoAck
    BY AcksAreHonest
  <2>2. UNCHANGED <<seq, row, processed>>
    BY <1>4 DEF AckRead
  <2>3. CASE Conflict(p) /\ UNCHANGED request
    BY <2>2, <2>3, ConflictHand, RowAndRequest, Preserved DEF FeedIInv, FeedTypeOK
  <2>4. CASE /\ request' = [request EXCEPT ![p] =
                               [kind |-> "ack", ack |-> ack, limit |-> 0]]
             /\ UNCHANGED hand
    <3> DEFINE new == [kind |-> "ack", ack |-> ack, limit |-> 0]
    <3>1. new \in Request /\ new.ack # NoAck /\ Honest(new.ack)
      BY <2>1 DEF Request, Honest
    <3> HIDE DEF new
    <3>2. request' = [request EXCEPT ![p] = new]
      BY <2>4 DEF new
    <3>. QED
      BY <2>2, <2>4, <3>1, <3>2, RowAndRequest, Preserved DEF FeedIInv, FeedTypeOK
  <2>. QED
    BY <1>4, <2>3, <2>4 DEF AckRead
<1>5. ASSUME NEW p \in Pollers, AckCommit(p)
      PROVE  FeedIInv'
  <2> DEFINE ack == request[p].ack
  <2>1. Honest(ack)
    BY AcksAreHonest
  <2>2. /\ UNCHANGED <<seq, processed>>
        /\ request' = [request EXCEPT ![p] = NoRequest]
        /\ \/ Conflict(p) /\ UNCHANGED row
           \/ /\ Acknowledged(ack) # Refused
              /\ row' = [row EXCEPT !.acknowledged = Acknowledged(ack)]
              /\ UNCHANGED hand
    BY <1>5 DEF AckCommit, Done
  <2> HIDE DEF ack
  <2>3. /\ request' \in [Pollers -> Request]
        /\ \A q \in Pollers : \/ request'[q] = request[q]
                              \/ request'[q].kind # "ack" /\ Honest(request'[q].ack)
    BY <2>2, RowAndRequest DEF FeedIInv, FeedTypeOK
  <2>4. CASE Conflict(p) /\ UNCHANGED row
    BY <2>2, <2>3, <2>4, ConflictHand, RowAndRequest, Preserved DEF FeedIInv, FeedTypeOK
  <2>5. CASE /\ Acknowledged(ack) # Refused
             /\ row' = [row EXCEPT !.acknowledged = Acknowledged(ack)]
             /\ UNCHANGED hand
    <3>1. /\ row' \in [acknowledged : Sequence, delivered : Sequence]
          /\ row'.acknowledged = Acknowledged(ack) /\ row'.delivered = row.delivered
      BY <2>1, <2>5, AcknowledgedMoves DEF FeedIInv, FeedTypeOK
    <3>. QED
      BY <2>1, <2>2, <2>3, <2>5, <3>1, AcknowledgedMoves, RowAndRequest, Preserved
         DEF FeedIInv, FeedTypeOK
  <2>. QED
    BY <2>2, <2>4, <2>5
<1>6. ASSUME NEW p \in Pollers, Process(p)
      PROVE  FeedIInv'
  <2> DEFINE page == hand[p].after + 1 .. hand[p].last
  <2>1. /\ processed' = processed \cup page
        /\ hand' = [hand EXCEPT ![p].done = TRUE]
        /\ UNCHANGED <<seq, row, request>>
    BY <1>6 DEF Process
  <2>2. hand' \in [Pollers -> Hand]
        /\ \A q \in Pollers : /\ hand'[q].last = hand[q].last /\ hand'[q].after = hand[q].after
                              /\ hand'[q].expected = hand[q].expected
                              /\ q # p => hand'[q].done = hand[q].done
    BY <2>1 DEF FeedIInv, FeedTypeOK, Hand
  <2>3. page \subseteq 1 .. seq
    <3>1. hand[p].after \in Nat /\ hand[p].last \in Nat /\ hand[p].last <= row.delivered
          /\ row.delivered \in Nat /\ row.delivered <= seq /\ seq \in Nat
      BY FeedBounds DEF FeedIInv, FeedTypeOK, Hand, WatermarksOrdered, Sequence
    <3>. QED
      BY <3>1
  <2>4. HandIsHonest'
    BY <2>1, <2>2 DEF FeedIInv, HandIsHonest
  <2> HIDE DEF page
  <2>. QED
    BY <2>1, <2>2, <2>3, <2>4 DEF FeedIInv, FeedTypeOK, WatermarksOrdered,
       CursorIsProcessed, RequestIsHonest
<1>7. ASSUME NEW p \in Pollers, Restart(p)
      PROVE  FeedIInv'
  <2>1. Conflict(p) /\ UNCHANGED <<seq, row, request, processed>>
    BY <1>7 DEF Restart, Conflict
  <2>. QED
    BY <2>1, ConflictHand, RowAndRequest, Preserved DEF FeedIInv, FeedTypeOK
<1>8. CASE UNCHANGED feedVars
  BY <1>8 DEF feedVars, FeedIInv, FeedTypeOK, WatermarksOrdered, CursorIsProcessed,
     HandIsHonest, RequestIsHonest
<1>. QED
  BY <1>1, <1>2, <1>3, <1>4, <1>5, <1>6, <1>7, <1>8 DEF FeedNext

\* The inductive invariant holds in every reachable state.
LEMMA FeedInductive == FeedSpec => []FeedIInv
  BY FeedInitIInv, FeedStepIInv, PTL DEF FeedSpec

-----------------------------------------------------------------------------
(* The results.                                                            *)

\* poll_billing_events and ack_billing_events decide twice, on a read without
\* and a read under the lock: the watermarks stay ordered, and no replica holds
\* an event beyond what is recorded as delivered.
THEOREM WatermarksCorrect == FeedSpec => []WatermarksOrdered
  BY FeedInductive, PTL DEF FeedIInv

\* Whatever the replicas send, repeat and lose, the cursor moves forward only,
\* and only over processed events: the feed implements ordered consumption.
THEOREM FeedRefinement == FeedSpec => FeedImplementsOrderedConsumption
<1>1. FeedInit => FeedOC!Init
  BY DEF FeedInit, FeedOC!Init
<1>2. FeedIInv /\ FeedIInv' /\ [FeedNext]_feedVars => [FeedOC!Next]_(FeedOC!vars)
  <2> SUFFICES ASSUME FeedIInv, FeedIInv', [FeedNext]_feedVars
               PROVE  FeedOC!Next \/ UNCHANGED FeedOC!vars
    OBVIOUS
  <2>1. CASE FeedAppend
    BY <2>1 DEF FeedAppend, FeedOC!Next, FeedOC!Append
  <2>2. ASSUME row.acknowledged <= row'.acknowledged, UNCHANGED seq,
               processed \subseteq processed'
        PROVE  FeedOC!Next
    <3>1. row'.acknowledged <= seq
      <4>1. /\ row'.acknowledged \in Sequence /\ row'.delivered \in Sequence
            /\ row'.acknowledged <= row'.delivered /\ row'.delivered <= seq /\ seq \in Sequence
        BY <2>2 DEF FeedIInv, FeedTypeOK, WatermarksOrdered
      <4>. QED
        BY <4>1, FeedBounds DEF Sequence
    <3>. QED
      BY <2>2, <3>1 DEF FeedOC!Next, FeedOC!Consume, FeedIInv, FeedTypeOK, CursorIsProcessed
  <2>3. ASSUME NEW p \in Pollers, PollCommit(p) \/ AckCommit(p)
        PROVE  FeedOC!Next
    <3>1. Honest(request[p].ack)
      BY AcksAreHonest
    <3>2. \/ UNCHANGED row
          \/ /\ Acknowledged(request[p].ack) # Refused
             /\ row'.acknowledged = Acknowledged(request[p].ack)
      BY <2>3 DEF PollCommit, AckCommit, Page, FeedIInv, FeedTypeOK
    <3>3. row.acknowledged <= row'.acknowledged
      BY <3>1, <3>2, AcknowledgedMoves, FeedBounds DEF FeedIInv, FeedTypeOK, Sequence
    <3>. QED
      BY <2>2, <2>3, <3>3 DEF PollCommit, AckCommit
  <2>4. ASSUME NEW p \in Pollers, Process(p)
        PROVE  FeedOC!Next
    <3>1. row.acknowledged <= row'.acknowledged
      BY <2>4, FeedBounds DEF Process, FeedIInv, FeedTypeOK, Sequence
    <3>. QED
      BY <2>2, <2>4, <3>1 DEF Process
  <2>5. ASSUME NEW p \in Pollers,
               \/ \E ack \in Acks(p) \cup {NoAck}, limit \in Limits : PollRead(p, ack, limit)
               \/ \E ack \in Acks(p) : AckRead(p, ack)
               \/ Restart(p)
        PROVE  UNCHANGED FeedOC!vars
    BY <2>5 DEF PollRead, AckRead, Restart, FeedOC!vars
  <2>6. CASE UNCHANGED feedVars
    BY <2>6 DEF feedVars, FeedOC!vars
  <2>. QED
    BY <2>1, <2>3, <2>4, <2>5, <2>6 DEF FeedNext
<1>. QED
  BY <1>1, <1>2, FeedInductive, PTL DEF FeedSpec, FeedImplementsOrderedConsumption,
     FeedOC!Spec
=============================================================================
