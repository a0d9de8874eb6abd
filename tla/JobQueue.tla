------------------------------ MODULE JobQueue ------------------------------
(***************************************************************************)
(* The database-backed job queue and the Python worker that drains it      *)
(* (apps/api/app/modules/job_queue).                                       *)
(*                                                                         *)
(* A row of job_queue_items is claimed by a worker under a lock with a     *)
(* deadline (SELECT ... FOR UPDATE SKIP LOCKED), handed to the dispatcher, *)
(* and completed, retried, failed or dead-lettered by it, while operators  *)
(* cancel it through the API.  Every claim of job j increments attempts,   *)
(* so <<j, n>> names the n-th claim of j; the dispatcher task that serves  *)
(* it is a "run".                                                          *)
(*                                                                         *)
(* Each database transaction is one action.  A session keeps the row it    *)
(* loaded (expire_on_commit=False, identity map), so an outcome is decided *)
(* on the snapshot `seen' taken when the run started and its UPDATE writes *)
(* only the columns that differ from that snapshot: see Write.             *)
(*                                                                         *)
(* Timestamps are countdowns: lockLeft is the time to locked_until, availIn*)
(* the time to available_at.  Event rows, payloads, error texts and        *)
(* completed_at decide nothing and are left out.                           *)
(***************************************************************************)
EXTENDS Integers, FiniteSets

CONSTANTS
    Jobs,           \* rows of job_queue_items
    Workers,        \* worker processes; a restarted process has a new id
    NoWorker,       \* locked_by IS NULL
    Handled,        \* the jobs whose job_type has a registered handler
    Rank,           \* priority as the claim orders it: 0 urgent .. 3 low
    MaxAttempts,    \* the largest max_attempts a job may ask for
    LockTicks,      \* JOB_QUEUE_LOCK_SECONDS
    BackoffTicks,   \* JOB_QUEUE_RETRY_BACKOFF_SECONDS
    BatchSize,      \* JOB_QUEUE_CLAIM_BATCH_SIZE
    Delays          \* how far ahead scheduled_at may lie, 0 for "now"

ASSUME ConstantsAssumption ==
    /\ NoWorker \notin Workers
    /\ Handled \subseteq Jobs
    /\ Rank \in [Jobs -> 0..3]
    /\ MaxAttempts \in Nat \ {0}
    /\ LockTicks \in Nat \ {0}
    /\ BackoffTicks \in Nat
    /\ BatchSize \in Nat \ {0}
    /\ Delays \subseteq Nat

VARIABLES
    job,        \* the committed rows
    run,        \* run[j][n]: the dispatcher task of the n-th claim of j
    awaited,    \* awaited[w]: the runs the gather of w's current poll awaits
    up,         \* the worker processes that are alive
    cancelling  \* cancelling[j]: what a cancel request in flight read of j

vars == <<job, run, awaited, up, cancelling>>

-----------------------------------------------------------------------------
Waiting == {"pending", "scheduled", "retrying"}
Completed == {"completed", "completed_with_warnings"}
Terminal == Completed \cup {"failed", "cancelled", "dead_letter"}
CompletedOrCancelled == Completed \cup {"cancelled"}
Statuses == {"absent", "running"} \cup Waiting \cup Terminal

Claims == 1..MaxAttempts
Active == {"claimed", "checked", "handling"}

Row == [status : Statuses, max : Claims, attempts : 0..MaxAttempts,
        lockedBy : Workers \cup {NoWorker}, lockLeft : Nat, availIn : Nat]

Snapshot == [status : Statuses, attempts : 0..MaxAttempts,
             lockedBy : Workers \cup {NoWorker}]

Run == [pc : {"none", "ended"} \cup Active, by : Workers \cup {NoWorker},
        lease : Nat, pin : BOOLEAN, seen : Snapshot]

NoJob == [status |-> "absent", max |-> 1, attempts |-> 0,
          lockedBy |-> NoWorker, lockLeft |-> 0, availIn |-> 0]

Loaded(row) == [status |-> row.status, attempts |-> row.attempts,
                lockedBy |-> row.lockedBy]

NoRun == [pc |-> "none", by |-> NoWorker, lease |-> 0, pin |-> FALSE,
          seen |-> Loaded(NoJob)]
Ended == [NoRun EXCEPT !.pc = "ended"]

ActiveRuns(j) == {n \in Claims : run[j][n].pc \in Active}

\* An uncommitted insert into job_queue_events holds FOR KEY SHARE on the row
\* its foreign key names, which FOR UPDATE SKIP LOCKED passes over.
Pinned(j) == \E n \in Claims : run[j][n].pin

-----------------------------------------------------------------------------
(* What one transaction writes.                                            *)

\* Mutant: every column is written back as it was loaded.
Write_AllColumns(row, seen, s) ==
    [row EXCEPT !.status = s, !.lockedBy = NoWorker, !.lockLeft = 0,
                !.attempts = seen.attempts]

\* The ORM's UPDATE to status s with the lock cleared, by a session that
\* loaded `seen': columns whose new value equals the loaded one are not in it.
Write(row, seen, s) ==
    [row EXCEPT
        !.status   = IF s = seen.status THEN @ ELSE s,
        !.lockedBy = IF seen.lockedBy = NoWorker THEN @ ELSE NoWorker,
        !.lockLeft = IF seen.lockedBy = NoWorker THEN @ ELSE 0]

CompleteJob(row, seen, s) ==
    IF seen.status \in Terminal THEN row ELSE Write(row, seen, s)

FailJob(row, seen) ==
    IF seen.status \in Terminal \ {"failed"} THEN row
    ELSE Write(row, seen, "failed")

MoveToDeadLetter(row, seen) ==
    IF seen.status \in CompletedOrCancelled THEN row
    ELSE Write(row, seen, "dead_letter")

\* Called with the object's status already forced back to "running".
RetryJob(row, seen) ==
    IF seen.attempts >= row.max
    THEN Write(row, seen, "dead_letter")
    ELSE [Write(row, seen, "retrying") EXCEPT
             !.availIn = BackoffTicks * seen.attempts]

\* Mutant: gives up one attempt early.
HandlerRaised_OneShort(row, seen) ==
    IF seen.attempts + 1 >= row.max
    THEN MoveToDeadLetter(row, seen)
    ELSE LET failed == FailJob(row, seen)
         IN RetryJob(failed, Loaded(failed))

\* The dispatcher's except branch.  fail_job flushes and refreshes the object
\* unless it returned early on a terminal snapshot.
HandlerRaised(row, seen) ==
    IF seen.attempts >= row.max
    THEN MoveToDeadLetter(row, seen)
    ELSE IF seen.status \in Terminal \ {"failed"}
    THEN RetryJob(row, seen)
    ELSE LET failed == FailJob(row, seen)
         IN RetryJob(failed, Loaded(failed))

-----------------------------------------------------------------------------
Init ==
    /\ job = [j \in Jobs |-> NoJob]
    /\ run = [j \in Jobs |-> [n \in Claims |-> NoRun]]
    /\ awaited = [w \in Workers |-> {}]
    /\ up = Workers
    /\ cancelling = [j \in Jobs |-> {}]

(* POST /job-queue/jobs, or enqueue_job called by another module.          *)
EnqueueJob(j, max, delay) ==
    /\ job[j].status = "absent"
    /\ job' = [job EXCEPT ![j] =
                 [NoJob EXCEPT !.status = IF delay > 0 THEN "scheduled"
                                                       ELSE "pending",
                               !.max = max,
                               !.availIn = delay]]
    /\ UNCHANGED <<run, awaited, up, cancelling>>

\* Mutants of the claim's filter.
Claimable_NoAttemptLimit(j) ==
    /\ job[j].availIn = 0
    /\ job[j].status \in Waiting \cup {"running"}
    /\ job[j].lockLeft = 0

Claimable_IgnoresLock(j) ==
    /\ job[j].attempts < job[j].max
    /\ job[j].availIn = 0
    /\ job[j].status \in Waiting \cup {"running"}

Claimable_AnyStatus(j) ==
    /\ job[j].attempts < job[j].max
    /\ job[j].availIn = 0
    /\ job[j].status # "absent"
    /\ job[j].lockLeft = 0

Claimable_IgnoresBackoff(j) ==
    /\ job[j].attempts < job[j].max
    /\ job[j].status \in Waiting \cup {"running"}
    /\ job[j].lockLeft = 0

Claimable_NeverRetrying(j) ==
    /\ job[j].attempts < job[j].max
    /\ job[j].availIn = 0
    /\ job[j].status \in {"pending", "scheduled", "running"}
    /\ job[j].lockLeft = 0

Claimable_NeverRunning(j) ==
    /\ job[j].attempts < job[j].max
    /\ job[j].availIn = 0
    /\ job[j].status \in Waiting
    /\ job[j].lockLeft = 0

\* The WHERE clause of the claim, and what FOR UPDATE SKIP LOCKED leaves.
Claimable(j) ==
    LET row == job[j]
    IN  /\ row.attempts < row.max
        /\ row.availIn = 0
        /\ \/ /\ row.status \in Waiting
              /\ row.lockedBy = NoWorker \/ row.lockLeft = 0
           \/ /\ row.status = "running"
              /\ row.lockedBy # NoWorker
              /\ row.lockLeft = 0
        /\ ~Pinned(j)

\* The rows one claim takes: as many as the limit allows, best rank first.
ClaimBatch(S) ==
    LET C == {j \in Jobs : Claimable(j)}
    IN  /\ S \subseteq C
        /\ S # {}
        /\ Cardinality(S) <= BatchSize
        /\ S = C \/ Cardinality(S) = BatchSize
        /\ \A a \in S, b \in C \ S : Rank[a] <= Rank[b]

(* One poll of worker w: claim a batch and start the gather over it.       *)
ClaimJobs(w) ==
    /\ w \in up
    /\ awaited[w] = {}
    /\ \E S \in SUBSET Jobs :
        /\ ClaimBatch(S)
        /\ job' = [j \in Jobs |->
                     IF j \in S
                     THEN [job[j] EXCEPT !.status = "running",
                                         !.attempts = @ + 1,
                                         !.lockedBy = w,
                                         !.lockLeft = LockTicks]
                     ELSE job[j]]
        /\ run' = [j \in Jobs |->
                     IF j \in S
                     THEN [run[j] EXCEPT ![job[j].attempts + 1] =
                             [NoRun EXCEPT !.pc = "claimed", !.by = w,
                                           !.lease = LockTicks]]
                     ELSE run[j]]
        /\ awaited' = [awaited EXCEPT ![w] =
                         {<<j, job[j].attempts + 1>> : j \in S}]
    /\ UNCHANGED <<up, cancelling>>

(* start_job reads the row and refuses it if another worker holds the lock.*)
StartCheck(j, n) ==
    /\ run[j][n].pc = "claimed"
    /\ job[j].lockedBy = run[j][n].by
    /\ run' = [run EXCEPT ![j][n].pc = "checked"]
    /\ UNCHANGED <<job, awaited, up, cancelling>>

\* An exception that leaves dispatch_job ends the gather at once; the other
\* runs of the batch go on, no longer awaited, and the worker polls again.
EscapesGather(j, n) ==
    /\ run' = [run EXCEPT ![j][n] = Ended]
    /\ awaited' = [awaited EXCEPT ![run[j][n].by] =
                     IF <<j, n>> \in @ THEN {} ELSE @]
    /\ UNCHANGED <<job, up, cancelling>>

StartRefused(j, n) ==
    /\ run[j][n].pc = "claimed"
    /\ job[j].lockedBy # run[j][n].by
    /\ EscapesGather(j, n)

(* start_job inserts the "started" event, then refreshes the row; the      *)
(* handler is called with what the refresh saw.                            *)
StartRefresh(j, n) ==
    /\ run[j][n].pc = "checked"
    /\ run' = [run EXCEPT ![j][n].pc = "handling",
                          ![j][n].pin = TRUE,
                          ![j][n].seen = Loaded(job[j])]
    /\ UNCHANGED <<job, awaited, up, cancelling>>

(* The handler commits the session it shares with the dispatcher.          *)
HandlerCommit(j, n) ==
    /\ j \in Handled
    /\ run[j][n].pc = "handling"
    /\ run[j][n].pin
    /\ run' = [run EXCEPT ![j][n].pin = FALSE]
    /\ UNCHANGED <<job, awaited, up, cancelling>>

\* The transaction that ends a run leaves the row as `row'.
Finish(j, n, row) ==
    /\ job' = [job EXCEPT ![j] = row]
    /\ run' = [run EXCEPT ![j][n] = Ended]
    /\ awaited' = [awaited EXCEPT ![run[j][n].by] = @ \ {<<j, n>>}]
    /\ UNCHANGED <<up, cancelling>>

HandlerReturns(j, n) ==
    /\ j \in Handled
    /\ run[j][n].pc = "handling"
    /\ \E s \in Completed : Finish(j, n, CompleteJob(job[j], run[j][n].seen, s))

HandlerRaises(j, n) ==
    /\ j \in Handled
    /\ run[j][n].pc = "handling"
    /\ Finish(j, n, HandlerRaised(job[j], run[j][n].seen))

NoHandler(j, n) ==
    /\ j \notin Handled
    /\ run[j][n].pc = "handling"
    /\ Finish(j, n, FailJob(job[j], run[j][n].seen))

(* A database error while a run reads or records its outcome.              *)
Abort(j, n) ==
    /\ run[j][n].pc \in Active
    /\ EscapesGather(j, n)

(* The process dies, or SIGTERM cancels its task: every run of it is lost  *)
(* and its open transactions roll back.                                    *)
Crash(w) ==
    /\ w \in up
    /\ up' = up \ {w}
    /\ run' = [j \in Jobs |-> [n \in Claims |->
                 IF run[j][n].pc \in Active /\ run[j][n].by = w
                 THEN Ended ELSE run[j][n]]]
    /\ awaited' = [awaited EXCEPT ![w] = {}]
    /\ UNCHANGED <<job, cancelling>>

(* POST /job-queue/jobs/{id}/cancel: read, then write.                     *)
CancelRead(j) ==
    /\ job[j].status \notin Terminal \cup {"absent"}
    /\ cancelling[j] = {}
    /\ cancelling' = [cancelling EXCEPT ![j] = {Loaded(job[j])}]
    /\ UNCHANGED <<job, run, awaited, up>>

CancelWrite(j) ==
    /\ \E seen \in cancelling[j] :
         job' = [job EXCEPT ![j] = Write(job[j], seen, "cancelled")]
    /\ cancelling' = [cancelling EXCEPT ![j] = {}]
    /\ UNCHANGED <<run, awaited, up>>

Less(t) == IF t = 0 THEN 0 ELSE t - 1

(* Time passes.  lease is the lock a run was given when it was claimed.    *)
Tick ==
    /\ job' = [j \in Jobs |-> [job[j] EXCEPT !.lockLeft = Less(@),
                                             !.availIn = Less(@)]]
    /\ run' = [j \in Jobs |-> [n \in Claims |->
                 [run[j][n] EXCEPT !.lease = Less(@)]]]
    /\ UNCHANGED <<awaited, up, cancelling>>

\* Time passes, but no run outlives the lock it was claimed under.
TimelyTick ==
    /\ \A j \in Jobs, n \in Claims :
         run[j][n].pc \in Active => run[j][n].lease > 1
    /\ Tick

-----------------------------------------------------------------------------
RunStep(j, n) ==
    \/ StartCheck(j, n)
    \/ StartRefused(j, n)
    \/ StartRefresh(j, n)
    \/ HandlerCommit(j, n)
    \/ HandlerReturns(j, n)
    \/ HandlerRaises(j, n)
    \/ NoHandler(j, n)

Operator ==
    \E j \in Jobs :
        \/ \E max \in Claims, delay \in Delays : EnqueueJob(j, max, delay)
        \/ CancelRead(j)
        \/ CancelWrite(j)

Working ==
    \/ Operator
    \/ \E w \in Workers : ClaimJobs(w)
    \/ \E j \in Jobs, n \in Claims : RunStep(j, n)

Fault ==
    \/ \E j \in Jobs, n \in Claims : Abort(j, n)
    \/ \E w \in Workers : Crash(w)

Next == Working \/ Fault \/ Tick
TimelyNext == Working \/ Fault \/ TimelyTick

Spec == Init /\ [][Next]_vars
TimelySpec == Init /\ [][TimelyNext]_vars

\* The worker polls forever and its handlers return; a cancel request that
\* has read its row finishes; time passes.
Fairness ==
    /\ WF_vars(TimelyTick)
    /\ \A w \in Workers : WF_vars(ClaimJobs(w))
    /\ \A j \in Jobs : WF_vars(CancelWrite(j))
    /\ \A j \in Jobs, n \in Claims : WF_vars(RunStep(j, n))

FairTimelySpec == TimelySpec /\ Fairness

\* What the queue promises, seen from outside: who serves each job.
Service == INSTANCE ExclusiveService WITH
    Items <- Jobs, Servers <- Workers, Nobody <- NoWorker, MaxTries <- MaxAttempts,
    server <- [j \in Jobs |->
                 IF ActiveRuns(j) = {} THEN NoWorker
                 ELSE run[j][CHOOSE n \in ActiveRuns(j) : TRUE].by],
    tries <- [j \in Jobs |-> job[j].attempts]

-----------------------------------------------------------------------------
(* The variables range over the columns and task states of the code.       *)
TypeOK ==
    /\ job \in [Jobs -> Row]
    /\ run \in [Jobs -> [Claims -> Run]]
    /\ awaited \in [Workers -> SUBSET (Jobs \X Claims)]
    /\ up \subseteq Workers
    /\ cancelling \in [Jobs -> SUBSET Snapshot]

(* attempts counts the claims ever made and stays within max_attempts: no  *)
(* transaction that writes a stale snapshot back gives an attempt back or  *)
(* uses one twice.                                                         *)
AttemptsCountClaims ==
    \A j \in Jobs :
        /\ job[j].attempts <= job[j].max
        /\ \A n \in Claims : run[j][n].pc # "none" <=> n <= job[j].attempts

(* A job is dead-lettered only once its attempts are used up, whichever    *)
(* run, current or overtaken, writes the status.                           *)
DeadLetterMeansExhausted ==
    \A j \in Jobs :
        job[j].status = "dead_letter" => job[j].attempts = job[j].max

(* When runs do not outlive their lock, at most one run of a job is active *)
(* at a time, across workers, retries, crashes and cancellations.          *)
ExclusiveRuns ==
    \A j \in Jobs : \A n, m \in ActiveRuns(j) : n = m

(* A job that was cancelled while nothing served it stays cancelled.       *)
CancelledIdleStays ==
    [][\A j \in Jobs :
          job[j].status = "cancelled" /\ ActiveRuns(j) = {}
             => job'[j].status = "cancelled"]_vars

(* A recorded outcome is rewritten only in a race with a cancellation:     *)
(* a terminal status changes to or from "cancelled" and in no other way.   *)
OnlyCancelRacesRewrite ==
    [][\A j \in Jobs :
          job[j].status \in Terminal /\ job'[j].status # job[j].status
             => "cancelled" \in {job[j].status, job'[j].status}]_vars

(* No run works on a job whose scheduled time or retry backoff still lies  *)
(* ahead, whatever cancellation or crash came between.                     *)
BackoffHonoured ==
    \A j \in Jobs : ActiveRuns(j) # {} => job[j].availIn = 0

\* The claim that used up the attempts was lost: no other will be made.
Lost(j) ==
    /\ job[j].status = "running"
    /\ job[j].attempts = job[j].max
    /\ ActiveRuns(j) = {}

(* While a worker is alive every enqueued job settles in a terminal status,*)
(* unless its last attempt is lost in a fault: nothing else strands it.    *)
SettlesUnlessLost ==
    [](up # {}) =>
        \A j \in Jobs :
            job[j].status # "absent" ~> job[j].status \in Terminal \/ Lost(j)

(* A claim lost in a crash is taken again: while a worker is alive, a job  *)
(* with attempts left does not stay "running" under the same claim.        *)
LostClaimsRetaken ==
    [](up # {}) =>
        \A j \in Jobs, n \in Claims :
            job[j].status = "running" /\ job[j].attempts = n /\ n < job[j].max
                ~> job[j].status # "running" \/ job[j].attempts > n

(* The queue implements exclusive service: one server at a time, each time *)
(* for one attempt, never more than the attempts allowed.                  *)
ImplementsService == Service!Spec

(* The loss of the last attempt is for good: the row keeps reporting a run  *)
(* in progress, neither retried nor dead-lettered, until somebody cancels it*)
(* (repository.py:149-157).                                                 *)
LostStays ==
    [][\A j \in Jobs : Lost(j) => Lost(j)' \/ job'[j].status = "cancelled"]_vars

\* No cancel request has read a row that it has yet to write.
NoneCancelling == \A j \in Jobs : cancelling[j] = {}

(* A recorded outcome stands, if nobody cancels jobs while they are served. *)
SettledStays ==
    [][\A j \in Jobs :
          job[j].status \in Terminal => job'[j].status = job[j].status]_vars
=============================================================================
