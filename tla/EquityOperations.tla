-------------------------- MODULE EquityOperations --------------------------
(***************************************************************************)
(* Equity data operations (apps/api/app/modules/equity_data/operations.py) *)
(* on top of the job queue: an operation is submitted over HTTP, executed  *)
(* in the request or by the handler of its queued job, cancelled together  *)
(* with that job, and retried as a new operation.                          *)
(*                                                                         *)
(* Jobs, the operations, and job rows have the same names: job o is the    *)
(* one enqueued for operation o.  Its payload names the operation and      *)
(* carries the request, unless the whole is too large to be kept.  Such a  *)
(* job has a single attempt, so an expired lock never makes it claimable   *)
(* again, and it is available at once: time decides nothing here and does  *)
(* not pass.  Cancellations go through the operation's endpoint.           *)
(*                                                                         *)
(* The executor keeps the row it last refreshed: exec[o].seen is that      *)
(* copy's status, and only a refresh brings a committed cancellation into  *)
(* it.  Counters, progress numbers and stored market data decide nothing   *)
(* and are left out; a stored item is a unit step.                         *)
(***************************************************************************)
EXTENDS JobQueue

CONSTANTS
    Keys,         \* idempotency keys
    NoKey,        \* no key was sent
    NoLink,       \* linked_job_id IS NULL
    ItemCount,    \* items of an item-by-item operation
    Cooperative   \* operations that check for cancellation between items

ASSUME OperationsAssumption ==
    /\ MaxAttempts = 1
    /\ Delays = {0}
    /\ Handled = Jobs
    /\ NoKey \notin Keys
    /\ NoLink \notin Jobs
    /\ ItemCount \in Nat
    /\ Cooperative \subseteq Jobs

VARIABLES
    op,        \* committed operation rows
    exec,      \* exec[o]: the executor of operation o
    request,   \* request[o]: the submission that will create operation o
    stopping,  \* stopping[o]: the cancel request in flight for operation o
    late       \* late[o]: items stored while o stood cancelled (history)

opVars == <<op, exec, request, stopping, late>>
allVars == <<vars, opVars>>

-----------------------------------------------------------------------------
OpTerminal == {"completed", "completed_with_warnings", "failed", "cancelled"}
OpStatuses == {"absent", "pending", "running"} \cup OpTerminal
Retryable == {"completed_with_warnings", "failed", "cancelled"}
Executing == {"start", "admit", "report", "check", "work", "finish"}

\* cut: the payload stored in job o is no longer the one submitted, see QueueSubmit.
NoOp == [status |-> "absent", key |-> NoKey, link |-> NoLink, cut |-> FALSE]
NotExecuting == [pc |-> "none", sync |-> FALSE, done |-> 0, seen |-> "absent"]

OpInit ==
    /\ Init
    /\ op = [o \in Jobs |-> NoOp]
    /\ exec = [o \in Jobs |-> NotExecuting]
    /\ request = [o \in Jobs |-> [pc |-> "idle", key |-> NoKey]]
    /\ stopping = [o \in Jobs |-> "idle"]
    /\ late = [o \in Jobs |-> 0]

HasKey(k) == k # NoKey /\ \E p \in Jobs : op[p].status # "absent" /\ op[p].key = k
JobsWithKey(k) == {q \in Jobs : k # NoKey /\ job[q].status # "absent" /\ op[q].key = k}

-----------------------------------------------------------------------------
(* Submission: look the key up, create the row, then run it or queue it.   *)

\* No operation has the key yet; otherwise the request returns that one and
\* changes nothing.
SubmitLookup(o, k) ==
    /\ request[o].pc = "idle"
    /\ ~HasKey(k)
    /\ request' = [request EXCEPT ![o] = [pc |-> "creating", key |-> k]]
    /\ UNCHANGED <<vars, op, exec, stopping, late>>

\* A retry is a submission that first requires its source to be retryable.
RetryLookup(o, source, k) ==
    /\ op[source].status \in Retryable
    /\ SubmitLookup(o, k)

Answered(o) == request' = [request EXCEPT ![o] = [pc |-> "answered", key |-> NoKey]]

\* The row of a queued operation, linked to job q.
Queued(o, q, cut) ==
    op' = [op EXCEPT ![o] = [status |-> "pending", key |-> request[o].key,
                             link |-> q, cut |-> cut]]

\* The payload passes through safe_reference: over MAX_REFERENCE_TEXT_LENGTH
\* it is replaced by its keys and its length, without the operation's id and
\* the request.  How long it is is left open.
QueueSubmit(o) ==
    /\ request[o].pc = "creating"
    /\ JobsWithKey(request[o].key) = {}
    /\ EnqueueJob(o, 1, 0)
    /\ \E cut \in BOOLEAN : Queued(o, o, cut)
    /\ Answered(o)
    /\ UNCHANGED <<exec, stopping, late>>

\* enqueue_job finds the key taken since the lookup: it returns that job, and
\* the new row is linked to it.
QueueSubmitLinked(o) ==
    /\ request[o].pc = "creating"
    /\ \E q \in JobsWithKey(request[o].key) : Queued(o, q, FALSE)
    /\ Answered(o)
    /\ UNCHANGED <<vars, exec, stopping, late>>

\* The unique index refuses the insert: the rollback takes the new row along
\* and the request fails on refreshing it.
QueueSubmitConflict(o) ==
    /\ request[o].pc = "creating"
    /\ JobsWithKey(request[o].key) # {}
    /\ Answered(o)
    /\ UNCHANGED <<vars, op, exec, stopping, late>>

\* Executed in the request: start_operation's commit makes the row visible.
SyncSubmit(o) ==
    /\ request[o].pc = "creating"
    /\ op' = [op EXCEPT ![o] = [status |-> "running", key |-> request[o].key,
                                link |-> NoLink, cut |-> FALSE]]
    /\ exec' = [exec EXCEPT ![o] = [pc |-> "admit", sync |-> TRUE, done |-> 0,
                                    seen |-> "running"]]
    /\ Answered(o)
    /\ UNCHANGED <<vars, stopping, late>>

-----------------------------------------------------------------------------
(* Execution, in the request or under run[o][1] of the queue.              *)

Refreshed(o, pc) ==
    exec' = [exec EXCEPT ![o] = [@ EXCEPT !.pc = pc, !.seen = op[o].status]]

\* Of an executor that has returned only its last status matters, for the
\* job's answer, and of one that has ended nothing.
Return(o, status) ==
    exec' = [exec EXCEPT ![o] = [@ EXCEPT !.pc = "returned", !.seen = status,
                                          !.done = 0]]
End(S) ==
    exec' = [o \in Jobs |-> IF o \in S
                            THEN [NotExecuting EXCEPT !.pc = "ended",
                                                      !.sync = exec[o].sync]
                            ELSE exec[o]]
RowAndCopy(o, status) ==
    /\ op' = [op EXCEPT ![o].status = status]
    /\ Return(o, status)

\* ensure_operation_not_cancelled: refresh, and leave if cancelled.
EnsureNotCancelled(o, next) ==
    IF op[o].status = "cancelled" THEN Return(o, "cancelled")
                                  ELSE Refreshed(o, next)

\* The handler takes the id and the request out of the payload, loads the
\* operation and refreshes it.
ExecLoad(o) ==
    /\ run[o][1].pc = "handling"
    /\ exec[o].pc = "none"
    /\ ~op[o].cut
    /\ EnsureNotCancelled(o, "start")
    /\ UNCHANGED <<vars, op, request, stopping, late>>

\* It finds neither in a payload that was cut, and raises before there is an
\* operation to fail: the job's single attempt is used up.
PayloadRefused(o) ==
    /\ run[o][1].pc = "handling"
    /\ exec[o].pc = "none"
    /\ op[o].cut
    /\ HandlerRaises(o, 1)
    /\ End({o})
    /\ UNCHANGED <<op, request, stopping, late>>

\* start_operation commits the session it shares with the dispatcher.
ExecStart(o) ==
    /\ exec[o].pc = "start"
    /\ HandlerCommit(o, 1)
    /\ op' = [op EXCEPT ![o].status = "running"]
    /\ exec' = [exec EXCEPT ![o] = [@ EXCEPT !.pc = "admit", !.seen = "running"]]
    /\ UNCHANGED <<request, stopping, late>>

ExecAdmit(o) ==
    /\ exec[o].pc = "admit"
    /\ EnsureNotCancelled(o, "report")
    /\ UNCHANGED <<vars, op, request, stopping, late>>

\* Mutants: items never run out; no check between items.
AfterReport_Endless(o) == "work"
AfterReport_Unchecked(o) == IF exec[o].done = ItemCount THEN "finish" ELSE "work"

\* What follows update_progress; an import is a single item.
AfterReport(o) ==
    IF o \in Cooperative
    THEN IF exec[o].done = ItemCount THEN "finish" ELSE "check"
    ELSE IF exec[o].done = 1 THEN "finish" ELSE "work"

\* update_progress flushes its columns and refreshes, without looking.
ExecReport(o) ==
    /\ exec[o].pc = "report"
    /\ Refreshed(o, AfterReport(o))
    /\ UNCHANGED <<vars, op, request, stopping, late>>

ExecCheck(o) ==
    /\ exec[o].pc = "check"
    /\ EnsureNotCancelled(o, "work")
    /\ UNCHANGED <<vars, op, request, stopping, late>>

ExecWork(o) ==
    /\ exec[o].pc = "work"
    /\ exec' = [exec EXCEPT ![o] = [@ EXCEPT !.pc = "report",
                                               !.done = exec[o].done + 1]]
    /\ late' = [late EXCEPT ![o] = IF op[o].status = "cancelled" THEN @ + 1 ELSE @]
    /\ UNCHANGED <<vars, op, request, stopping>>

\* Mutant: complete_operation does not look.
ExecFinish_Blind(o) ==
    /\ exec[o].pc = "finish"
    /\ \E s \in Completed : RowAndCopy(o, s)
    /\ UNCHANGED <<vars, request, stopping, late>>

\* complete_operation looks at the copy, not at the row.
ExecFinish(o) ==
    /\ exec[o].pc = "finish"
    /\ IF exec[o].seen = "cancelled"
       THEN Return(o, "cancelled") /\ UNCHANGED op
       ELSE \E s \in Completed : RowAndCopy(o, s)
    /\ UNCHANGED <<vars, request, stopping, late>>

\* fail_operation, on an exception of the body; it looks at nothing.
ExecFail(o) ==
    /\ exec[o].pc \in {"report", "work"}
    /\ RowAndCopy(o, "failed")
    /\ UNCHANGED <<vars, request, stopping, late>>

\* Mutant: the handler answers before the operation has its outcome.
HandlerAnswers_Early(o) ==
    /\ run[o][1].pc = "handling"
    /\ exec[o].pc \in {"finish", "returned"}
    /\ Finish(o, 1, CompleteJob(job[o], run[o][1].seen, "completed"))
    /\ exec' = [exec EXCEPT ![o].pc = "ended"]
    /\ UNCHANGED <<op, request, stopping, late>>

\* The handler's result completes the job, whatever became of the operation.
HandlerAnswers(o) ==
    /\ run[o][1].pc = "handling"
    /\ exec[o].pc = "returned"
    /\ Finish(o, 1, CompleteJob(job[o], run[o][1].seen,
                                IF exec[o].seen = "completed_with_warnings"
                                THEN "completed_with_warnings" ELSE "completed"))
    /\ End({o})
    /\ UNCHANGED <<op, request, stopping, late>>

-----------------------------------------------------------------------------
(* POST /equity-data/operations/{id}/cancel: read the operation, read the  *)
(* job, then write both in one transaction.                                *)

CancelOpRead(o) ==
    /\ stopping[o] = "idle"
    /\ op[o].status \in {"pending", "running"}
    /\ stopping' = [stopping EXCEPT ![o] = "read"]
    /\ UNCHANGED <<vars, op, exec, request, late>>

CancelOpReadJob(o) ==
    /\ stopping[o] = "read"
    /\ \/ /\ op[o].link # NoLink
          /\ CancelRead(op[o].link)
          /\ stopping' = [stopping EXCEPT ![o] = "withJob"]
       \/ /\ op[o].link # NoLink => job[op[o].link].status \in Terminal
          /\ stopping' = [stopping EXCEPT ![o] = "alone"]
          /\ UNCHANGED vars
    /\ UNCHANGED <<op, exec, request, late>>

CancelJobToo(o) ==
    \/ stopping[o] = "withJob" /\ CancelWrite(op[o].link)
    \/ stopping[o] = "alone" /\ UNCHANGED vars

\* Mutant: the job's cancellation is committed without the operation's.
CancelOpCommit_JobOnly(o) ==
    /\ CancelJobToo(o)
    /\ stopping' = [stopping EXCEPT ![o] = "idle"]
    /\ UNCHANGED <<op, exec, request, late>>

CancelOpCommit(o) ==
    /\ CancelJobToo(o)
    /\ op' = [op EXCEPT ![o].status = "cancelled"]
    /\ stopping' = [stopping EXCEPT ![o] = "idle"]
    /\ UNCHANGED <<exec, request, late>>

-----------------------------------------------------------------------------
(* The queue's own steps, and what they take down with them.               *)

QueueClaims(w) == ClaimJobs(w) /\ UNCHANGED opVars
QueueStarts(o) ==
    /\ StartCheck(o, 1) \/ StartRefused(o, 1) \/ StartRefresh(o, 1)
    /\ UNCHANGED opVars

WorkerDies(w) ==
    /\ Crash(w)
    /\ End({o \in Jobs : run[o][1].pc \in Active /\ run[o][1].by = w})
    /\ UNCHANGED <<op, request, stopping, late>>

RunAborts(o) ==
    /\ Abort(o, 1)
    /\ End({o})
    /\ UNCHANGED <<op, request, stopping, late>>

\* The HTTP request that executes the operation is dropped.
RequestDies(o) ==
    /\ exec[o].sync
    /\ exec[o].pc \in Executing
    /\ End({o})
    /\ UNCHANGED <<vars, op, request, stopping, late>>

-----------------------------------------------------------------------------
Submit(o) ==
    \/ \E k \in Keys \cup {NoKey} :
         SubmitLookup(o, k) \/ \E source \in Jobs : RetryLookup(o, source, k)
    \/ QueueSubmit(o)
    \/ QueueSubmitLinked(o)
    \/ QueueSubmitConflict(o)
    \/ SyncSubmit(o)

ExecStep(o) ==
    \/ ExecLoad(o)
    \/ PayloadRefused(o)
    \/ ExecStart(o)
    \/ ExecAdmit(o)
    \/ ExecReport(o)
    \/ ExecCheck(o)
    \/ ExecWork(o)
    \/ ExecFinish(o)
    \/ ExecFail(o)
    \/ HandlerAnswers(o)

CancelStep(o) == CancelOpReadJob(o) \/ CancelOpCommit(o)

CalmStep ==
    \/ \E o \in Jobs : \/ Submit(o)
                      \/ CancelOpRead(o)
                      \/ CancelStep(o)
                      \/ QueueStarts(o)
                      \/ ExecStep(o)
    \/ \E w \in Workers : QueueClaims(w)

FaultStep ==
    \/ \E w \in Workers : WorkerDies(w)
    \/ \E o \in Jobs : RunAborts(o) \/ RequestDies(o)

OpSpec == OpInit /\ [][CalmStep \/ FaultStep]_allVars

\* Workers poll, executors and requests in flight go on.
FairOpSpec ==
    /\ OpSpec
    /\ \A w \in Workers : WF_allVars(QueueClaims(w))
    /\ \A o \in Jobs : /\ WF_allVars(QueueStarts(o))
                      /\ WF_allVars(ExecStep(o))
                      /\ WF_allVars(CancelStep(o))

-----------------------------------------------------------------------------
OpTypeOK ==
    /\ TypeOK
    /\ op \in [Jobs -> [status : OpStatuses, key : Keys \cup {NoKey},
                        link : Jobs \cup {NoLink}, cut : BOOLEAN]]
    /\ exec \in [Jobs -> [pc : Executing \cup {"none", "returned", "ended"},
                          sync : BOOLEAN, done : 0..ItemCount + 1, seen : OpStatuses]]
    /\ request \in [Jobs -> [pc : {"idle", "creating", "answered"},
                             key : Keys \cup {NoKey}]]
    /\ stopping \in [Jobs -> {"idle", "read", "withJob", "alone"}]
    /\ late \in [Jobs -> Nat]

\* Operation o owns its job: no other operation was linked to it in a race
\* of two submissions (OneOperationPerKey).
OwnsJob(o) == \A p \in Jobs : op[p].link = o <=> p = o

(* A job reports completion only when its operation has its outcome: no    *)
(* interleaving with a cancellation completes the job of an operation that *)
(* is still to run or running.                                             *)
CompletedJobHasOutcome ==
    \A o \in Jobs : job[o].status \in Completed => op[o].status \in OpTerminal

\* Job o has no outcome yet, or has been given up for a payload that was cut.
LiveOrCut(o) ==
    \/ job[o].status \in {"pending", "running"}
    \/ job[o].status = "dead_letter" /\ op[o].cut

(* A pending operation that owns its job loses it in one way only: the     *)
(* job of a payload that was cut is dead-lettered and nobody tells the     *)
(* operation.  No cancellation and no other outcome leaves it behind.      *)
PendingHasLiveJob ==
    \A o \in Jobs : op[o].status = "pending" /\ OwnsJob(o) => LiveOrCut(o)

(* Cancelling a running operation stops it within the item it is at.       *)
StopsWithinOneItem == \A o \in Jobs : late[o] <= 1

(* An operation whose payload was cut is never executed: it stays pending, *)
(* with or without its job, until a request cancels it.                    *)
CutNeverRuns ==
    \A o \in Jobs :
        op[o].cut => /\ op[o].status \in {"pending", "cancelled"}
                     /\ exec[o].pc \in {"none", "ended"}

(* A queued operation that owns its job, with a payload kept whole, gets   *)
(* an outcome, unless the one run of its job is lost or no worker is left: *)
(* no cancellation, failure or refused start leaves it pending for ever.   *)
QueuedSettlesUnlessLost ==
    \A o \in Jobs :
        op[o].status = "pending" /\ OwnsJob(o) /\ ~op[o].cut
            ~> op[o].status \in OpTerminal \/ ~OwnsJob(o) \/ Lost(o) \/ up = {}

(* Repeating an idempotency key never creates a second operation.          *)
OneOperationPerKey ==
    \A o, p \in Jobs :
        op[o].key # NoKey /\ op[o].key = op[p].key
        /\ op[o].status # "absent" /\ op[p].status # "absent" => o = p

(* Only an executor that was at work before the cancellation writes over a *)
(* cancelled operation, and once it has refreshed its copy only a failure: *)
(* none starts or completes one it has seen cancelled.                     *)
OnlyRacesRewriteCancelled ==
    [][\A o \in Jobs :
          op[o].status = "cancelled" /\ op'[o].status # "cancelled"
             => /\ exec[o].pc \in Executing
                /\ exec[o].seen = "cancelled" => op'[o].status = "failed"]_allVars

(* An outcome stands: completed or failed, an operation changes only if a  *)
(* cancellation that had read it earlier is written over the outcome.      *)
OutcomesStand ==
    [][\A o \in Jobs :
          op[o].status \in OpTerminal /\ op'[o].status # op[o].status
             => "cancelled" \in {op[o].status, op'[o].status}]_allVars

\* No two submissions of a key are between their lookup and their insert.
OneSubmissionPerKey ==
    \A o, p \in Jobs :
        /\ request[o].pc = "creating" /\ request[p].pc = "creating"
        /\ request[o].key # NoKey /\ request[o].key = request[p].key
        => o = p

(* A pending operation has a job of its own, which has no outcome yet or   *)
(* was given up for its payload.                                           *)
PendingOwnsLiveJob ==
    \A o \in Jobs : op[o].status = "pending" => OwnsJob(o) /\ LiveOrCut(o)

\* Nobody will execute operation o any more: its executor is gone, its job was
\* given up before there was one, or it waits for the job of another operation.
Orphaned(o) ==
    /\ op[o].status \in {"pending", "running"}
    /\ exec[o].pc = "ended" \/ (exec[o].pc = "none" /\ op[o].link # o)
    /\ stopping[o] = "idle"

(* An orphan stays one until a request cancels it: the views of stale      *)
(* operations only report it (apps/api/docs/equity-data.md:138-139).       *)
OrphansStay ==
    [][\A o \in Jobs : Orphaned(o) => Orphaned(o)' \/ stopping'[o] # "idle"]_allVars

\* Operation o is cancelled and its executor, if there is one, has stopped.
Stopped(o) == op[o].status = "cancelled" /\ exec[o].pc \notin Executing

(* From then on it is cancelled for good: neither a job claimed late nor a *)
(* second cancellation or a retry gives it another status.                 *)
StoppedStays == [][\A o \in Jobs : Stopped(o) => Stopped(o)']_allVars
=============================================================================
