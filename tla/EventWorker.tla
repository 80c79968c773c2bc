----------------------------- MODULE EventWorker -----------------------------
(***************************************************************************)
(* The leased consumption of one account's events by `ledger.audit.v1`:    *)
(* the job row, the workers that claim it, and the operator who retries a  *)
(* dead job.  The handlers run in one transaction under the job row lock,  *)
(* so each is one action, except that complete_event_job reads the row     *)
(* once before it locks it: the worker may be overtaken in between.        *)
(*                                                                         *)
(* Time is kept as what is left of it: `left` is lease_until - now and     *)
(* `wait` is available_at - now on the database clock, down to 0.  A lease *)
(* token is a fresh uuid, modelled by the epoch it was drawn with.         *)
(* X_Variant defines a faulty form of X.                                   *)
(***************************************************************************)
EXTENDS EventLog

CONSTANTS
    Workers,        \* worker tasks of all control-plane replicas
    Limit,          \* events in a batch (100)
    LeaseSeconds,   \* duration of a lease (30)
    MaxAttempts,    \* failures that make a job dead (8)
    MaxEpoch,       \* bound on lease_epoch (i64::MAX)
    Poison          \* events that validate_event refuses

ASSUME EventWorkerAssumption ==
    /\ MaxEvents \in Nat
    /\ Limit \in Nat \ {0} /\ LeaseSeconds \in Nat \ {0}
    /\ MaxAttempts \in Nat \ {0}
    /\ MaxEpoch \in Nat /\ MaxEpoch >= MaxAttempts * MaxEvents
    /\ Poison \subseteq 1 .. MaxEvents

VARIABLES
    job,        \* the billing_jobs row
    effects,    \* sequences in billing_effects
    worker      \* what each worker is doing

vars == <<seq, job, effects, worker>>

MaxWait == 300

Job == [state : {"none", "idle", "pending", "running", "dead"},
        acknowledged : 0 .. MaxEvents, target : 0 .. MaxEvents,
        epoch : 0 .. MaxEpoch, token : 0 .. MaxEpoch, through : 0 .. MaxEvents,
        left : 0 .. LeaseSeconds, wait : 0 .. MaxWait,
        attempts : 0 .. MaxAttempts]

Lease == [epoch : 0 .. MaxEpoch, expected : 0 .. MaxEvents,
          through : 0 .. MaxEvents]

\* The loop of a worker: nothing claimed, a lease to complete, past the
\* duplicate check of complete_event_job, or about to report a failure.
Worker == [pc : {"idle", "leased", "checked", "failing"}, lease : Lease]

NoToken == 0

NoLease == [epoch |-> 0, expected |-> 0, through |-> 0]

Idle == [pc |-> "idle", lease |-> NoLease]

Goto(w, pc) == worker' = [worker EXCEPT ![w].pc = pc]

\* Seconds until a job that has failed this often is tried again.
backoff(attempt) ==
    Least(2 ^ (IF attempt < 1 THEN 1 ELSE Least(attempt, 8)), MaxWait)

-----------------------------------------------------------------------------
(* The financial transaction that appends an event also wakes the job:     *)
(* only an idle job becomes pending, a failed or dead one keeps its state. *)

Schedule_Sleeps ==
    IF job.state = "none"
    THEN [job EXCEPT !.state = "pending", !.target = seq + 1]
    ELSE [job EXCEPT !.target = seq + 1]

Schedule ==
    IF job.state = "none"
    THEN [job EXCEPT !.state = "pending", !.target = seq + 1]
    ELSE [job EXCEPT !.target = seq + 1,
                     !.state = IF @ = "idle" THEN "pending" ELSE @]

AppendEvent ==
    /\ seq < MaxEvents
    /\ seq' = seq + 1
    /\ job' = Schedule
    /\ UNCHANGED <<effects, worker>>

-----------------------------------------------------------------------------
(* Claiming.                                                               *)

Available == job.target > job.acknowledged /\ job.wait = 0

\* The failure policy shared by an explicit failure and an expired lease.
Failed ==
    LET attempts == job.attempts + 1 IN
    [job EXCEPT !.state = IF attempts >= MaxAttempts THEN "dead" ELSE "pending",
                !.attempts = attempts, !.token = NoToken, !.left = 0,
                !.wait = backoff(attempts)]

ClaimExpired_Never(w) == FALSE

\* A claim that meets an expired lease only records the crash.
ClaimExpired(w) ==
    /\ worker[w].pc = "idle"
    /\ Available /\ job.state = "running" /\ job.left = 0
    /\ job' = Failed
    /\ UNCHANGED <<seq, effects, worker>>

Claim(w) ==
    LET through == Least(job.acknowledged + Limit, job.target)
    IN  /\ worker[w].pc = "idle"
        /\ Available /\ job.state = "pending"
        /\ job.epoch < MaxEpoch
        /\ job' = [job EXCEPT !.state = "running", !.epoch = @ + 1,
                              !.token = job.epoch + 1, !.through = through,
                              !.left = LeaseSeconds]
        /\ worker' = [worker EXCEPT ![w] =
               [pc |-> "leased",
                lease |-> [epoch |-> job.epoch + 1,
                           expected |-> job.acknowledged,
                           through |-> through]]]
        /\ UNCHANGED <<seq, effects>>

-----------------------------------------------------------------------------
(* Completing and failing, both behind the fence `locked`.                 *)

Locked_AnyHolder(l) ==
    /\ job.state = "running" /\ job.left > 0
    /\ job.acknowledged = l.expected /\ l.through > l.expected
    /\ job.through = l.through /\ l.through <= job.target

Locked(l) ==
    /\ job.state = "running"
    /\ job.epoch = l.epoch
    /\ job.token = l.epoch
    /\ job.left > 0
    /\ job.acknowledged = l.expected
    /\ l.through > l.expected
    /\ job.through = l.through
    /\ l.through <= job.target

\* The unlocked read of complete_event_job: a batch that is already
\* acknowledged is answered as a duplicate, and any other goes on to the lock.
CheckDuplicate(w) ==
    LET l == worker[w].lease IN
    /\ worker[w].pc = "leased"
    /\ IF job.acknowledged >= l.through /\ l.through > l.expected
       THEN worker' = [worker EXCEPT ![w] = Idle]
       ELSE Goto(w, "checked")
    /\ UNCHANGED <<seq, job, effects>>

\* The batch is read to the leased boundary and no further.
Completed_ToTarget(l) ==
    [job EXCEPT !.acknowledged = job.target, !.state = "idle",
                !.token = NoToken, !.left = 0, !.attempts = 0, !.wait = 0]

Completed(l) ==
    [job EXCEPT !.acknowledged = l.through,
                !.state = IF l.through < job.target THEN "pending" ELSE "idle",
                !.token = NoToken, !.left = 0, !.attempts = 0, !.wait = 0]

\* Effects and acknowledgement commit together.  When the answer is lost, to
\* an error of the commit or on the wire, the control plane's own loop goes on
\* to report a failure, and a worker of the HTTP interface sends the
\* completion again: either still has its lease.
Complete(w) ==
    LET l == worker[w].lease
        batch == job.acknowledged + 1 .. l.through
    IN  /\ worker[w].pc = "checked"
        /\ Locked(l)
        /\ batch \cap Poison = {}
        /\ effects' = effects \cup batch
        /\ job' = Completed(l)
        /\ \/ worker' = [worker EXCEPT ![w] = Idle]
           \/ \E pc \in {"leased", "failing"} : Goto(w, pc)
        /\ UNCHANGED seq

\* A fence, an invalid event or the database refuses: nothing is committed,
\* and the loop reports the failure under the same lease.
CompleteError(w) ==
    /\ worker[w].pc = "checked"
    /\ Goto(w, "failing")
    /\ UNCHANGED <<seq, job, effects>>

FailEventJob(w) ==
    /\ worker[w].pc = "failing"
    /\ worker' = [worker EXCEPT ![w] = Idle]
    /\ \/ Locked(worker[w].lease) /\ job' = Failed
       \/ ~Locked(worker[w].lease) /\ UNCHANGED job
    /\ UNCHANGED <<seq, effects>>

\* The process stops, or shutdown drops the future at an await.
Crash(w) ==
    /\ worker[w].pc # "idle"
    /\ worker' = [worker EXCEPT ![w] = Idle]
    /\ UNCHANGED <<seq, job, effects>>

\* Bound: an operator retries while the epochs left suffice for every attempt.
RetryBound ==
    job.epoch + MaxAttempts * (MaxEvents - job.acknowledged) <= MaxEpoch

RetryEventJob ==
    /\ job.state = "dead"
    /\ RetryBound
    /\ job' = [job EXCEPT !.state = "pending", !.wait = 0, !.attempts = 0]
    /\ UNCHANGED <<seq, effects, worker>>

\* A second on the database clock.
Tick ==
    /\ job.left > 0 \/ job.wait > 0
    /\ job' = [job EXCEPT !.left = IF @ > 0 THEN @ - 1 ELSE 0,
                          !.wait = IF @ > 0 THEN @ - 1 ELSE 0]
    /\ UNCHANGED <<seq, effects, worker>>

-----------------------------------------------------------------------------

Init ==
    /\ seq = 0
    /\ job = [state |-> "none", acknowledged |-> 0, target |-> 0, epoch |-> 0,
              token |-> NoToken, through |-> 0, left |-> 0, wait |-> 0,
              attempts |-> 0]
    /\ effects = {}
    /\ worker = [w \in Workers |-> Idle]

Step(w) ==
    \/ ClaimExpired(w)
    \/ Claim(w)
    \/ CheckDuplicate(w)
    \/ Complete(w)
    \/ CompleteError(w)
    \/ FailEventJob(w)

Next ==
    \/ AppendEvent
    \/ \E w \in Workers : Step(w) \/ Crash(w)
    \/ RetryEventJob
    \/ Tick

Spec == Init /\ [][Next]_vars

\* `run` polls for ever on every replica and always goes on with a lease it
\* holds; the clock never stops.  Appending, crashing and the operator are
\* under no obligation.
Fairness ==
    /\ \A w \in Workers : WF_vars(Step(w))
    /\ WF_vars(Tick)

FairSpec == Spec /\ Fairness

-----------------------------------------------------------------------------
(* Properties.                                                             *)

\* Every variable keeps its type; in particular a job is never tried more
\* often than the failure policy of claim_event_job and fail_event_job allows.
TypeOK ==
    /\ seq \in 0 .. MaxEvents
    /\ job \in Job
    /\ effects \subseteq 1 .. MaxEvents
    /\ worker \in [Workers -> Worker]

\* complete_event_job: whatever workers crash, stall past their lease or
\* answer twice, the effects are exactly those of the acknowledged prefix.
EffectsMatchAck ==
    /\ effects = 1 .. job.acknowledged
    /\ job.acknowledged <= job.target
    /\ job.target = seq

\* schedule against complete_event_job: an event that arrives while a batch
\* is being completed never leaves its job asleep.
NoLostWakeup ==
    /\ job.state = "idle" => job.acknowledged = job.target
    /\ job.state \in {"pending", "running", "dead"} => job.acknowledged < job.target

\* `locked` and the second fence of complete_event_job: until a lease expires
\* only a step of the worker that holds it ends it, never a delayed completion
\* or failure of an earlier lease; and the acknowledgement moves only while a
\* lease runs, exactly to the boundary that was leased.
LeaseIsRespected ==
    [][/\ (job.state = "running" /\ job.left > 0 /\ job'.state # "running")
            => \E w \in Workers : /\ worker[w].lease.epoch = job.epoch
                                  /\ worker'[w] # worker[w]
       /\ job'.acknowledged # job.acknowledged
            => /\ job.state = "running" /\ job.left > 0
               /\ job'.acknowledged = job.through]_vars

OC == INSTANCE OrderedConsumption
        WITH appended <- seq, cursor <- job.acknowledged, processed <- effects

\* The leased worker implements ordered consumption of the log.
ImplementsOrderedConsumption == OC!Spec

\* `run`, claim_event_job and the failure policy: no event waits for ever.
\* It is acknowledged, or its job is dead and waits for an operator, even when
\* workers crash on it again and again.
EveryEventSettles ==
    \A n \in 1 .. MaxEvents :
        seq >= n ~> job.acknowledged >= n \/ job.state = "dead"

=============================================================================
