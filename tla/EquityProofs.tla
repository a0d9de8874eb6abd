---------------------------- MODULE EquityProofs ----------------------------
(***************************************************************************)
(* Proofs about EquityOperations, for all operations, workers, keys and    *)
(* items, in every schedule and with every fault of the model.             *)
(*                                                                         *)
(* Every step of OpSpec takes the queue through a step of its own, so what *)
(* JobQueueProofs shows of the queue's bookkeeping holds here.  On top of  *)
(* it the inductive invariant OpInv relates the rows, the executors, the   *)
(* submissions and the cancel requests.                                    *)
(***************************************************************************)
EXTENDS EquityOperations, JobQueueProofs

-----------------------------------------------------------------------------
(* The invariant.                                                          *)

Phase == Executing \cup {"none", "returned", "ended"}

ExecRow == [pc : Phase, sync : BOOLEAN, done : 0..ItemCount + 1, seen : OpStatuses]

OpRow == [status : OpStatuses, key : Keys \cup {NoKey}, link : Jobs \cup {NoLink},
          cut : BOOLEAN]

OpTypes ==
    /\ op \in [Jobs -> OpRow]
    /\ exec \in [Jobs -> ExecRow]
    /\ request \in [Jobs -> [pc : {"idle", "creating", "answered"},
                             key : Keys \cup {NoKey}]]
    /\ stopping \in [Jobs -> {"idle", "read", "withJob", "alone"}]
    /\ late \in [Jobs -> Nat]

\* What does not exist yet: a row, with what could only come after it.
Untouched(o) ==
    /\ op[o].link = NoLink
    /\ exec[o].pc = "none"
    /\ ~exec[o].sync
    /\ exec[o].done = 0
    /\ stopping[o] = "idle"
    /\ job[o].status = "absent"

\* Who points to whom: a job to its operation and back, an executor and a
\* cancel request to the job they act on.
Linked(o) ==
    /\ op[o].status = "absent" => Untouched(o)
    /\ op[o].status # "absent" => request[o].pc = "answered"
    /\ job[o].status # "absent" => op[o].link = o
    /\ op[o].link # NoLink => job[op[o].link].status # "absent"
    /\ stopping[o] = "withJob" => op[o].link # NoLink
    /\ exec[o].sync => op[o].link = NoLink
    /\ exec[o].pc # "none" => exec[o].sync \/ op[o].link = o

\* What an executor has seen and what it leaves behind.
Outcome(o) ==
    /\ exec[o].pc = "returned" => op[o].status \in OpTerminal
    /\ job[o].status \in Completed => exec[o].pc = "ended" /\ op[o].status \in OpTerminal
    /\ exec[o].pc \in Executing /\ exec[o].seen = "cancelled" => op[o].status = "cancelled"
    /\ exec[o].pc = "start" => exec[o].seen # "cancelled"

\* The items: an import stores one, an item-by-item operation up to ItemCount,
\* of which the last may be late.
Counted(o) ==
    /\ late[o] <= 1
    /\ late[o] > 0 => exec[o].pc \notin {"none", "start", "admit", "work"}
    /\ o \in Cooperative =>
         /\ exec[o].done <= ItemCount
         /\ exec[o].pc \in {"check", "work"} => exec[o].done < ItemCount
         /\ late[o] > 0 /\ exec[o].pc \in {"report", "check"} => op[o].status = "cancelled"
    /\ o \notin Cooperative =>
         /\ exec[o].done <= 1
         /\ exec[o].pc # "check"
         /\ exec[o].pc = "work" => exec[o].done = 0
         /\ late[o] > 0 /\ exec[o].pc = "report" => exec[o].done = 1

OpInv ==
    /\ Bookkeeping
    /\ OpTypes
    /\ \A o \in Jobs : Linked(o)
    /\ \A o \in Jobs : Outcome(o)
    /\ \A o \in Jobs : Counted(o)
    /\ PendingHasLiveJob

(* The invariant gives the properties that are not a conjunct of it.       *)
LEMMA InvGives ==
    OpInv => OpTypeOK /\ CompletedJobHasOutcome /\ StopsWithinOneItem
<1> SUFFICES ASSUME OpInv
             PROVE  OpTypeOK /\ CompletedJobHasOutcome /\ StopsWithinOneItem
  OBVIOUS
<1>1. OpTypeOK
  BY DEF OpInv, Bookkeeping, OpTypes, OpTypeOK, OpRow, ExecRow, Phase
<1>2. CompletedJobHasOutcome
  BY DEF OpInv, Outcome, CompletedJobHasOutcome
<1>3. StopsWithinOneItem
  BY DEF OpInv, Counted, StopsWithinOneItem
<1> QED
  BY <1>1, <1>2, <1>3

(* A job has one claim, and only a job that exists has been claimed.       *)
LEMMA OneClaim ==
    /\ Claims = {1}
    /\ Bookkeeping => \A o \in Jobs : run[o][1].pc # "none" => job[o].status # "absent"
<1>1. Claims = {1}
  BY OperationsAssumption DEF Claims
<1>2. ASSUME Bookkeeping, NEW o \in Jobs, run[o][1].pc # "none"
      PROVE  job[o].status # "absent"
  <2>1. 1 <= job[o].attempts
    BY <1>1, <1>2 DEF Bookkeeping, AttemptsCountClaims
  <2>2. job[o].attempts # 0
    BY <2>1
  <2> QED
    BY <2>2, <1>2 DEF Bookkeeping, Unclaimed
<1> QED
  BY <1>1, <1>2

(* Initially the invariant holds.                                          *)
LEMMA InitOpInv == OpInit => OpInv
<1> SUFFICES ASSUME OpInit PROVE OpInv
  OBVIOUS
<1>1. Bookkeeping
  BY InitBookkeeping DEF OpInit
<1>2. 0 \in 0..ItemCount + 1 /\ 0 <= ItemCount
  BY OperationsAssumption
<1>3. OpTypes
  BY <1>2 DEF OpInit, OpTypes, NoOp, NotExecuting, OpStatuses, OpRow, ExecRow, Phase
<1>4. \A o \in Jobs : /\ op[o] = NoOp /\ exec[o] = NotExecuting /\ job[o] = NoJob
                      /\ stopping[o] = "idle" /\ late[o] = 0
  BY DEF OpInit, Init
<1>5. \A o \in Jobs : Linked(o)
  BY <1>4 DEF Linked, Untouched, NoOp, NotExecuting, NoJob
<1>6. \A o \in Jobs : Outcome(o)
  BY <1>4 DEF Outcome, NotExecuting, NoJob, Executing, Completed
<1>7. \A o \in Jobs : Counted(o)
  BY <1>2, <1>4 DEF Counted, NotExecuting
<1>8. PendingHasLiveJob
  BY <1>4 DEF PendingHasLiveJob, NoOp
<1> QED
  BY <1>1, <1>3, <1>5, <1>6, <1>7, <1>8 DEF OpInv

-----------------------------------------------------------------------------
(* Steps of one operation that leave the jobs alone: what has to be shown  *)
(* of them is about that operation.                                        *)
LEMMA LocalStep ==
    ASSUME OpInv, NEW o \in Jobs,
           UNCHANGED <<job, request, stopping>>,
           \A p \in Jobs \ {o} : op'[p] = op[p] /\ exec'[p] = exec[p] /\ late'[p] = late[p],
           op'[o].link = op[o].link,
           op[o].status # "absent", op'[o].status # "absent",
           op'[o].status = "pending" => op'[o] = op[o],
           exec'[o].sync = exec[o].sync,
           exec'[o].pc # "none" => exec[o].sync \/ op[o].link = o,
           Outcome(o)', Counted(o)'
    PROVE  /\ \A p \in Jobs : Linked(p)'
           /\ \A p \in Jobs : Outcome(p)'
           /\ \A p \in Jobs : Counted(p)'
           /\ PendingHasLiveJob'
<1>1. \A p \in Jobs : op'[p].link = op[p].link
  OBVIOUS
<1>2. ASSUME NEW p \in Jobs PROVE Linked(p)'
  <2>1. Linked(p)
    BY DEF OpInv
  <2>2. CASE p = o
    BY <2>1, <2>2, <1>1 DEF Linked, Untouched
  <2>3. CASE p # o
    BY <2>1, <2>3, <1>1 DEF Linked, Untouched
  <2> QED
    BY <2>2, <2>3
<1>3. ASSUME NEW p \in Jobs, p # o PROVE Outcome(p)' /\ Counted(p)'
  <2>1. Outcome(p) /\ Counted(p)
    BY DEF OpInv
  <2>2. op'[p] = op[p] /\ exec'[p] = exec[p] /\ late'[p] = late[p] /\ job'[p] = job[p]
    BY <1>3
  <2> QED
    BY <2>1, <2>2 DEF Outcome, Counted
<1>4. PendingHasLiveJob'
  <2>1. \A p \in Jobs : OwnsJob(p)' => OwnsJob(p)
    BY <1>1 DEF OwnsJob
  <2>2. \A p \in Jobs : op'[p].status = "pending" => op'[p] = op[p]
    OBVIOUS
  <2> QED
    BY <2>1, <2>2 DEF OpInv, PendingHasLiveJob, LiveOrCut
<1> QED
  BY <1>2, <1>3, <1>4

\* The steps of an executor, but for its answer.
Executes(o) ==
    \/ ExecLoad(o) \/ ExecStart(o) \/ ExecAdmit(o) \/ ExecReport(o) \/ ExecCheck(o)
    \/ ExecWork(o) \/ ExecFinish(o) \/ ExecFail(o)

(* An executor works on an operation that exists, and on its own account or*)
(* for the job the operation is linked to.                                 *)
LEMMA ExecutesOwn ==
    ASSUME OpInv, NEW o \in Jobs, Executes(o)
    PROVE  /\ op[o].status # "absent"
           /\ exec[o].sync \/ op[o].link = o
<1>1. Linked(o)
  BY DEF OpInv
<1>2. NoLink # o
  BY OperationsAssumption
<1>3. CASE ExecLoad(o)
  <2>1. job[o].status # "absent"
    BY <1>3, OneClaim DEF OpInv, ExecLoad
  <2> QED
    BY <2>1, <1>1, <1>2 DEF Linked, Untouched
<1>4. CASE exec[o].pc # "none"
  BY <1>4, <1>1, <1>2 DEF Linked, Untouched
<1>5. ExecLoad(o) \/ exec[o].pc # "none"
  BY DEF Executes, ExecStart, ExecAdmit, ExecReport, ExecCheck, ExecWork, ExecFinish, ExecFail
<1> QED
  BY <1>3, <1>4, <1>5

(* What a refresh does to the executor's copy.                             *)
LEMMA RefreshedEffect ==
    ASSUME OpTypes, NEW o \in Jobs, NEW pc \in Phase, Refreshed(o, pc)
    PROVE  /\ exec' \in [Jobs -> ExecRow]
           /\ \A p \in Jobs \ {o} : exec'[p] = exec[p]
           /\ exec'[o].pc = pc /\ exec'[o].seen = op[o].status
           /\ exec'[o].sync = exec[o].sync /\ exec'[o].done = exec[o].done
<1> DEFINE new == [exec[o] EXCEPT !.pc = pc, !.seen = op[o].status]
<1>1. exec[o] \in ExecRow /\ op[o].status \in OpStatuses
  BY DEF OpTypes, OpRow
<1>2. /\ new \in ExecRow
      /\ new.pc = pc /\ new.seen = op[o].status
      /\ new.sync = exec[o].sync /\ new.done = exec[o].done
  BY <1>1 DEF ExecRow
<1>3. exec' = [exec EXCEPT ![o] = new]
  BY DEF Refreshed
<1> HIDE DEF new
<1> QED
  BY <1>2, <1>3 DEF OpTypes

(* What an executor that returns keeps.                                    *)
LEMMA ReturnEffect ==
    ASSUME OpTypes, NEW o \in Jobs, NEW s \in OpStatuses, Return(o, s)
    PROVE  /\ exec' \in [Jobs -> ExecRow]
           /\ \A p \in Jobs \ {o} : exec'[p] = exec[p]
           /\ exec'[o].pc = "returned" /\ exec'[o].seen = s
           /\ exec'[o].sync = exec[o].sync /\ exec'[o].done = 0
<1> DEFINE copy == [exec[o] EXCEPT !.pc = "returned", !.seen = s, !.done = 0]
<1>1. exec[o] \in ExecRow /\ "returned" \in Phase
  BY DEF OpTypes, Phase
<1>2. 0 \in 0..ItemCount + 1
  BY OperationsAssumption
<1>3. /\ copy \in ExecRow
      /\ copy.pc = "returned" /\ copy.seen = s
      /\ copy.sync = exec[o].sync /\ copy.done = 0
  BY <1>1, <1>2 DEF ExecRow
<1>4. exec' = [exec EXCEPT ![o] = copy]
  BY DEF Return
<1> HIDE DEF copy
<1> QED
  BY <1>3, <1>4 DEF OpTypes

(* What an outcome does to the row and to the executor's copy.             *)
LEMMA RowAndCopyEffect ==
    ASSUME OpTypes, NEW o \in Jobs, NEW s \in OpStatuses, RowAndCopy(o, s)
    PROVE  /\ exec' \in [Jobs -> ExecRow] /\ op' \in [Jobs -> OpRow]
           /\ \A p \in Jobs \ {o} : exec'[p] = exec[p] /\ op'[p] = op[p]
           /\ op'[o].status = s /\ op'[o].link = op[o].link
           /\ exec'[o].pc = "returned"
           /\ exec'[o].sync = exec[o].sync /\ exec'[o].done = 0
<1> DEFINE row == [op[o] EXCEPT !.status = s]
<1>1. op[o] \in OpRow
  BY DEF OpTypes
<1>2. row \in OpRow /\ row.status = s /\ row.link = op[o].link
  BY <1>1 DEF OpRow
<1>3. Return(o, s) /\ op' = [op EXCEPT ![o] = row]
  BY DEF RowAndCopy
<1> HIDE DEF row
<1> QED
  BY <1>2, <1>3, ReturnEffect DEF OpTypes

\* An executor's step changes only its operation's status, its copy and its
\* items, leaves jobs alone, and keeps what the invariant says of its operation.
OwnStep(o) ==
    /\ \A p \in Jobs \ {o} : op'[p] = op[p] /\ exec'[p] = exec[p] /\ late'[p] = late[p]
    /\ op'[o].link = op[o].link
    /\ exec'[o].sync = exec[o].sync
    /\ op'[o] = op[o] \/ op'[o].status \in {"running"} \cup OpTerminal
    /\ UNCHANGED <<job, request, stopping>>
    /\ OpTypes'
    /\ [Next]_vars
    /\ Outcome(o)' /\ Counted(o)'

(* A look at the row for a cancellation, as one conjunct of an action.     *)
LEMMA EnsureEffect ==
    ASSUME OpTypes, NEW o \in Jobs, NEW next \in Executing, EnsureNotCancelled(o, next)
    PROVE  /\ exec' \in [Jobs -> ExecRow]
           /\ \A p \in Jobs \ {o} : exec'[p] = exec[p]
           /\ exec'[o].sync = exec[o].sync
           /\ exec'[o].seen = op[o].status
           /\ exec'[o].pc = IF op[o].status = "cancelled" THEN "returned" ELSE next
           /\ exec'[o].done = IF op[o].status = "cancelled" THEN 0 ELSE exec[o].done
<1>1. next \in Phase /\ "cancelled" \in OpStatuses
  BY DEF Phase, OpStatuses, OpTerminal
<1>2. CASE op[o].status = "cancelled"
  BY <1>1, <1>2, ReturnEffect DEF EnsureNotCancelled
<1>3. CASE op[o].status # "cancelled"
  BY <1>1, <1>3, RefreshedEffect DEF EnsureNotCancelled
<1> QED
  BY <1>2, <1>3

LEMMA LooksOwn ==
    ASSUME OpInv, NEW o \in Jobs, ExecLoad(o) \/ ExecAdmit(o) \/ ExecCheck(o)
    PROVE  OwnStep(o)
<1>1. OpTypes /\ Outcome(o) /\ Counted(o)
  BY DEF OpInv
<1>2. UNCHANGED <<vars, op, request, stopping, late>>
  BY DEF ExecLoad, ExecAdmit, ExecCheck
<1>3. PICK next \in {"start", "report", "work"} :
        /\ EnsureNotCancelled(o, next)
        /\ next = "start" => exec[o].pc = "none"
        /\ next = "report" => exec[o].pc = "admit"
        /\ next = "work" => exec[o].pc = "check"
  BY DEF ExecLoad, ExecAdmit, ExecCheck
<1>4. next \in Executing /\ exec[o].pc \in {"none", "admit", "check"}
  BY <1>3 DEF Executing
<1>5. /\ exec' \in [Jobs -> ExecRow]
      /\ \A p \in Jobs \ {o} : exec'[p] = exec[p]
      /\ exec'[o].sync = exec[o].sync
      /\ exec'[o].seen = op[o].status
      /\ exec'[o].pc = IF op[o].status = "cancelled" THEN "returned" ELSE next
      /\ exec'[o].done = IF op[o].status = "cancelled" THEN 0 ELSE exec[o].done
  BY <1>1, <1>3, <1>4, EnsureEffect
<1>6. OpTypes'
  BY <1>1, <1>2, <1>5 DEF OpTypes
<1>7. Outcome(o)'
  BY <1>1, <1>2, <1>4, <1>5 DEF Outcome, OpTerminal, vars, Executing
<1>8. Counted(o)'
  <2>1. late'[o] = late[o] /\ op'[o] = op[o]
    BY <1>2
  <2>2. exec[o].done \in Nat /\ late[o] \in Nat /\ ItemCount \in Nat
    BY <1>1, OperationsAssumption DEF OpTypes, ExecRow
  <2> QED
    BY <1>1, <1>3, <1>5, <2>1, <2>2 DEF Counted
<1> QED
  BY <1>2, <1>5, <1>6, <1>7, <1>8 DEF OwnStep, vars

LEMMA StartOwn ==
    ASSUME OpInv, NEW o \in Jobs, ExecStart(o)
    PROVE  OwnStep(o)
<1>1. OpTypes /\ Outcome(o) /\ Counted(o)
  BY DEF OpInv
<1> DEFINE copy == [exec[o] EXCEPT !.pc = "admit", !.seen = "running"]
           row == [op[o] EXCEPT !.status = "running"]
<1>2. /\ op' = [op EXCEPT ![o] = row] /\ exec' = [exec EXCEPT ![o] = copy]
      /\ exec[o].pc = "start"
      /\ UNCHANGED <<request, stopping, late>>
      /\ HandlerCommit(o, 1)
  BY DEF ExecStart
<1>3. exec[o] \in ExecRow /\ op[o] \in OpRow /\ "running" \in OpStatuses /\ "admit" \in Phase
  BY <1>1 DEF OpTypes, OpStatuses, Phase, Executing
<1>4. /\ copy \in ExecRow /\ copy.pc = "admit" /\ copy.seen = "running"
      /\ copy.sync = exec[o].sync /\ copy.done = exec[o].done
  BY <1>3 DEF ExecRow
<1>5. row \in OpRow /\ row.status = "running" /\ row.link = op[o].link
  BY <1>3 DEF OpRow
<1>6. Next /\ UNCHANGED job
  BY <1>2, OneClaim DEF Next, Working, RunStep, HandlerCommit
<1> HIDE DEF copy, row
<1>7. /\ exec'[o] = copy /\ op'[o] = row /\ late'[o] = late[o] /\ job'[o] = job[o]
      /\ \A p \in Jobs \ {o} : op'[p] = op[p] /\ exec'[p] = exec[p] /\ late'[p] = late[p]
  BY <1>1, <1>2, <1>6 DEF OpTypes
<1>8. OpTypes'
  BY <1>1, <1>2, <1>4, <1>5 DEF OpTypes
<1>9. Outcome(o)'
  BY <1>1, <1>2, <1>4, <1>7 DEF Outcome
<1>10. Counted(o)'
  <2>1. exec[o].done \in Nat /\ late[o] \in Nat
    BY <1>1 DEF OpTypes, ExecRow
  <2> QED
    BY <1>1, <1>2, <1>4, <1>7, <2>1 DEF Counted
<1> QED
  BY <1>2, <1>4, <1>5, <1>6, <1>7, <1>8, <1>9, <1>10 DEF OwnStep

LEMMA ReportOwn ==
    ASSUME OpInv, NEW o \in Jobs, ExecReport(o)
    PROVE  OwnStep(o)
<1>1. OpTypes /\ Outcome(o) /\ Counted(o)
  BY DEF OpInv
<1>2. /\ exec[o].pc = "report"
      /\ Refreshed(o, AfterReport(o))
      /\ UNCHANGED <<vars, op, request, stopping, late>>
  BY DEF ExecReport
<1>3. AfterReport(o) \in {"finish", "check", "work"}
  BY DEF AfterReport
<1>4. AfterReport(o) \in Phase
  BY <1>3 DEF Phase, Executing
<1>5. /\ exec' \in [Jobs -> ExecRow]
      /\ \A p \in Jobs \ {o} : exec'[p] = exec[p]
      /\ exec'[o].pc = AfterReport(o) /\ exec'[o].seen = op[o].status
      /\ exec'[o].sync = exec[o].sync /\ exec'[o].done = exec[o].done
  BY <1>1, <1>2, <1>4, RefreshedEffect
<1>6. OpTypes'
  BY <1>1, <1>2, <1>5 DEF OpTypes
<1>7. Outcome(o)'
  BY <1>1, <1>2, <1>3, <1>5 DEF Outcome, vars
<1>8. Counted(o)'
  <2>1. late'[o] = late[o] /\ op'[o] = op[o]
    BY <1>2
  <2>2. exec[o].done \in Nat /\ late[o] \in Nat /\ ItemCount \in Nat
    BY <1>1, OperationsAssumption DEF OpTypes, ExecRow
  <2> QED
    BY <1>1, <1>2, <1>5, <2>1, <2>2 DEF Counted, AfterReport
<1> QED
  BY <1>2, <1>5, <1>6, <1>7, <1>8 DEF OwnStep, vars

LEMMA WorkOwn ==
    ASSUME OpInv, NEW o \in Jobs, ExecWork(o)
    PROVE  OwnStep(o)
<1>1. OpTypes /\ Outcome(o) /\ Counted(o)
  BY DEF OpInv
<1> DEFINE copy == [exec[o] EXCEPT !.pc = "report", !.done = exec[o].done + 1]
           n == IF op[o].status = "cancelled" THEN late[o] + 1 ELSE late[o]
<1>2. /\ exec[o].pc = "work"
      /\ exec' = [exec EXCEPT ![o] = copy]
      /\ late' = [late EXCEPT ![o] = n]
      /\ UNCHANGED <<vars, op, request, stopping>>
  BY DEF ExecWork
<1>3. exec[o] \in ExecRow /\ late[o] \in Nat /\ ItemCount \in Nat
  BY <1>1, OperationsAssumption DEF OpTypes
<1>4. exec[o].done \in Nat /\ exec[o].done <= ItemCount
  BY <1>1, <1>2, <1>3 DEF ExecRow, Counted
<1>5. exec[o].done + 1 \in 0..ItemCount + 1 /\ "report" \in Phase
  BY <1>3, <1>4 DEF Phase, Executing
<1>6. /\ copy \in ExecRow /\ copy.pc = "report" /\ copy.seen = exec[o].seen
      /\ copy.sync = exec[o].sync /\ copy.done = exec[o].done + 1
  BY <1>3, <1>5 DEF ExecRow
<1>7. n \in Nat /\ n = IF op[o].status = "cancelled" THEN late[o] + 1 ELSE late[o]
  BY <1>3
<1> HIDE DEF copy, n
<1>8. /\ exec'[o] = copy /\ op'[o] = op[o] /\ late'[o] = n /\ job'[o] = job[o]
      /\ \A p \in Jobs \ {o} : op'[p] = op[p] /\ exec'[p] = exec[p] /\ late'[p] = late[p]
  BY <1>1, <1>2 DEF OpTypes, vars
<1>9. OpTypes'
  BY <1>1, <1>2, <1>6, <1>7 DEF OpTypes
<1>10. Outcome(o)'
  BY <1>1, <1>2, <1>6, <1>8 DEF Outcome, Executing
<1>11. Counted(o)'
  <2>1. CASE o \in Cooperative
    <3>1. late[o] = 0 /\ exec[o].done < ItemCount
      BY <1>1, <1>2, <1>3, <2>1 DEF Counted
    <3> QED
      BY <1>3, <1>4, <1>6, <1>7, <1>8, <2>1, <3>1 DEF Counted
  <2>2. CASE o \notin Cooperative
    <3>1. late[o] = 0 /\ exec[o].done = 0
      BY <1>1, <1>2, <1>3, <2>2 DEF Counted
    <3> QED
      BY <1>3, <1>6, <1>7, <1>8, <2>2, <3>1 DEF Counted
  <2> QED
    BY <2>1, <2>2
<1> QED
  BY <1>2, <1>6, <1>8, <1>9, <1>10, <1>11 DEF OwnStep, vars

LEMMA EndOwn ==
    ASSUME OpInv, NEW o \in Jobs, ExecFinish(o) \/ ExecFail(o)
    PROVE  OwnStep(o)
<1>1. OpTypes /\ Outcome(o) /\ Counted(o)
  BY DEF OpInv
<1>2. UNCHANGED <<vars, request, stopping, late>> /\ exec[o].pc \in {"finish", "report", "work"}
  BY DEF ExecFinish, ExecFail
<1>3. late[o] \in Nat /\ exec[o].done \in Nat /\ ItemCount \in Nat
  BY <1>1, OperationsAssumption DEF OpTypes, ExecRow
<1>4. ASSUME NEW s \in {"failed"} \cup Completed, RowAndCopy(o, s)
      PROVE  OwnStep(o)
  <2>1. s \in OpStatuses /\ s \in OpTerminal
    BY DEF OpStatuses, OpTerminal, Completed
  <2>2. /\ exec' \in [Jobs -> ExecRow] /\ op' \in [Jobs -> OpRow]
        /\ \A p \in Jobs \ {o} : exec'[p] = exec[p] /\ op'[p] = op[p]
        /\ op'[o].status = s /\ op'[o].link = op[o].link
        /\ exec'[o].pc = "returned"
        /\ exec'[o].sync = exec[o].sync /\ exec'[o].done = 0
    BY <1>1, <1>4, <2>1, RowAndCopyEffect
  <2>3. OpTypes'
    BY <1>1, <1>2, <2>2 DEF OpTypes
  <2>4. Outcome(o)'
    BY <1>1, <1>2, <2>1, <2>2 DEF Outcome, Executing, vars
  <2>5. Counted(o)'
    <3>1. late'[o] = late[o]
      BY <1>2
    <3> QED
      BY <1>1, <1>2, <1>3, <2>2, <3>1 DEF Counted
  <2> QED
    BY <1>2, <2>1, <2>2, <2>3, <2>4, <2>5 DEF OwnStep, vars
<1>5. CASE ExecFail(o)
  BY <1>4, <1>5 DEF ExecFail
<1>6. CASE ExecFinish(o) /\ exec[o].seen # "cancelled"
  BY <1>4, <1>6 DEF ExecFinish
<1>7. CASE ExecFinish(o) /\ exec[o].seen = "cancelled"
  <2>1. Return(o, "cancelled") /\ UNCHANGED op /\ exec[o].pc = "finish"
    BY <1>7 DEF ExecFinish
  <2>2. "cancelled" \in OpStatuses
    BY DEF OpStatuses, OpTerminal
  <2>3. /\ exec' \in [Jobs -> ExecRow]
        /\ \A p \in Jobs \ {o} : exec'[p] = exec[p]
        /\ exec'[o].pc = "returned"
        /\ exec'[o].sync = exec[o].sync /\ exec'[o].done = 0
    BY <1>1, <2>1, <2>2, ReturnEffect
  <2>4. OpTypes'
    BY <1>1, <1>2, <2>1, <2>3 DEF OpTypes
  <2>5. op[o].status = "cancelled"
    BY <1>1, <1>7, <2>1 DEF Outcome, Executing
  <2>6. Outcome(o)'
    BY <1>1, <1>2, <2>1, <2>3, <2>5 DEF Outcome, Executing, OpTerminal, vars
  <2>7. Counted(o)'
    <3>1. late'[o] = late[o]
      BY <1>2
    <3> QED
      BY <1>1, <1>2, <1>3, <2>1, <2>3, <3>1 DEF Counted
  <2> QED
    BY <1>2, <2>1, <2>3, <2>4, <2>6, <2>7 DEF OwnStep, vars
<1> QED
  BY <1>5, <1>6, <1>7

(* An executor's step keeps the invariant.                                 *)
LEMMA ExecutesOpInv ==
    ASSUME OpInv, NEW o \in Jobs, Executes(o)
    PROVE  OpInv'
<1>1. OwnStep(o)
  BY LooksOwn, StartOwn, ReportOwn, WorkOwn, EndOwn DEF Executes
<1>2. op[o].status # "absent" /\ (exec[o].sync \/ op[o].link = o)
  BY ExecutesOwn
<1>3. Bookkeeping'
  BY <1>1, StepBookkeeping DEF OpInv, OwnStep
<1>4. op'[o].status # "absent" /\ (op'[o].status = "pending" => op'[o] = op[o])
  BY <1>1, <1>2 DEF OwnStep, OpTerminal
<1>5. /\ \A p \in Jobs : Linked(p)'
      /\ \A p \in Jobs : Outcome(p)'
      /\ \A p \in Jobs : Counted(p)'
      /\ PendingHasLiveJob'
  BY <1>1, <1>2, <1>4, LocalStep DEF OwnStep
<1> QED
  BY <1>1, <1>3, <1>5 DEF OpInv, OwnStep

-----------------------------------------------------------------------------
(* Submissions.                                                            *)

\* What creating operation o does: a queued one with a job of its own, one
\* linked to the job that had its key, or one executed in the request.
Creates(o) ==
    /\ op[o].status = "absent"
    /\ request'[o].pc = "answered"
    /\ \A p \in Jobs \ {o} :
         /\ request'[p] = request[p] /\ op'[p] = op[p]
         /\ exec'[p] = exec[p] /\ job'[p] = job[p]
    /\ UNCHANGED <<stopping, late>>
    /\ \/ /\ op'[o].status = "pending" /\ op'[o].link = o
          /\ job'[o].status = "pending" /\ exec'[o] = exec[o]
       \/ /\ op'[o].status = "pending" /\ op'[o].link \in Jobs
          /\ job[op'[o].link].status # "absent"
          /\ job'[o] = job[o] /\ exec'[o] = exec[o]
       \/ /\ op'[o].status = "running" /\ op'[o].link = NoLink
          /\ job'[o] = job[o]
          /\ exec'[o] = [pc |-> "admit", sync |-> TRUE, done |-> 0, seen |-> "running"]

LEMMA CreateStep ==
    ASSUME OpInv, NEW o \in Jobs, Creates(o)
    PROVE  /\ \A p \in Jobs : Linked(p)'
           /\ \A p \in Jobs : Outcome(p)'
           /\ \A p \in Jobs : Counted(p)'
           /\ PendingHasLiveJob'
<1>1. Linked(o) /\ Outcome(o) /\ Counted(o) /\ Untouched(o)
  BY DEF OpInv, Linked, Creates
<1>2. NoLink \notin Jobs /\ ItemCount \in Nat /\ late[o] \in Nat
  BY OperationsAssumption DEF OpInv, OpTypes
<1>3. \A p \in Jobs : job[p].status # "absent" => p # o /\ job'[p] = job[p]
  BY <1>1 DEF Creates, Untouched
<1>4. ASSUME NEW p \in Jobs, p # o PROVE Linked(p)' /\ Outcome(p)' /\ Counted(p)'
  <2>1. Linked(p) /\ Outcome(p) /\ Counted(p) /\ op[p].link \in Jobs \cup {NoLink}
    BY DEF OpInv, OpTypes, OpRow
  <2>2. /\ request'[p] = request[p] /\ op'[p] = op[p] /\ exec'[p] = exec[p]
        /\ job'[p] = job[p] /\ stopping'[p] = stopping[p] /\ late'[p] = late[p]
    BY <1>4 DEF Creates
  <2>3. Linked(p)'
    BY <1>3, <2>1, <2>2 DEF Linked, Untouched
  <2> QED
    BY <2>1, <2>2, <2>3 DEF Outcome, Counted
<1>5. Linked(o)'
  BY <1>1, <1>2, <1>3 DEF Creates, Linked, Untouched
<1>6. Outcome(o)'
  BY <1>1 DEF Creates, Outcome, Untouched, Completed, Executing
<1>7. Counted(o)'
  <2>1. late[o] = 0 /\ late'[o] = 0
    BY <1>1, <1>2 DEF Creates, Counted, Untouched
  <2>2. CASE exec'[o] = exec[o]
    BY <1>1, <1>2, <2>1, <2>2 DEF Counted, Untouched
  <2>3. CASE exec'[o] = [pc |-> "admit", sync |-> TRUE, done |-> 0, seen |-> "running"]
    BY <1>2, <2>1, <2>3 DEF Counted
  <2> QED
    BY <2>2, <2>3 DEF Creates
<1>8. PendingHasLiveJob'
  <2>1. ASSUME NEW p \in Jobs, p # o, op'[p].status = "pending", OwnsJob(p)'
        PROVE  LiveOrCut(p)'
    <3>1. op'[o].link # p /\ op[o].link # p
      BY <1>1, <1>2, <2>1 DEF OwnsJob, Untouched
    <3>2. OwnsJob(p)
      BY <2>1, <3>1 DEF OwnsJob, Creates
    <3> QED
      BY <2>1, <3>2 DEF OpInv, PendingHasLiveJob, Creates, LiveOrCut
  <2>2. ASSUME op'[o].status = "pending", OwnsJob(o)'
        PROVE  LiveOrCut(o)'
    <3>1. op'[o].link = o
      BY <2>2 DEF OwnsJob
    <3> QED
      BY <1>1, <2>2, <3>1 DEF Creates, Untouched, LiveOrCut
  <2> QED
    BY <2>1, <2>2 DEF PendingHasLiveJob
<1> QED
  BY <1>4, <1>5, <1>6, <1>7, <1>8

(* A submission keeps the invariant.                                       *)
LEMMA SubmitOpInv ==
    ASSUME OpInv, NEW o \in Jobs, Submit(o)
    PROVE  OpInv'
<1>1. OpTypes /\ Linked(o) /\ Bookkeeping
  BY DEF OpInv
<1>2. request[o].pc # "answered"
  BY DEF Submit, SubmitLookup, RetryLookup, QueueSubmit, QueueSubmitLinked,
         QueueSubmitConflict, SyncSubmit
<1>3. op[o].status = "absent" /\ Untouched(o)
  BY <1>1, <1>2 DEF Linked
<1>4. CASE \/ QueueSubmitConflict(o)
           \/ \E k \in Keys \cup {NoKey} :
                SubmitLookup(o, k) \/ \E source \in Jobs : RetryLookup(o, source, k)
  <2>1. UNCHANGED <<vars, op, exec, stopping, late>>
    BY <1>4 DEF QueueSubmitConflict, SubmitLookup, RetryLookup
  <2>2. /\ \A p \in Jobs \ {o} : request'[p] = request[p]
        /\ request' \in [Jobs -> [pc : {"idle", "creating", "answered"},
                                  key : Keys \cup {NoKey}]]
    <3>1. CASE QueueSubmitConflict(o)
      BY <1>1, <3>1 DEF QueueSubmitConflict, Answered, OpTypes
    <3>2. ASSUME NEW k \in Keys \cup {NoKey},
                 SubmitLookup(o, k) \/ \E source \in Jobs : RetryLookup(o, source, k)
          PROVE  request' = [request EXCEPT ![o] = [pc |-> "creating", key |-> k]]
      BY <3>2 DEF SubmitLookup, RetryLookup
    <3> QED
      BY <1>1, <1>4, <3>1, <3>2 DEF OpTypes
  <2>3. Bookkeeping'
    BY <1>1, <2>1, StepBookkeeping
  <2>4. OpTypes'
    BY <1>1, <2>1, <2>2 DEF OpTypes
  <2>5. \A p \in Jobs : Linked(p)'
    BY <1>3, <2>1, <2>2 DEF OpInv, Linked, Untouched, vars
  <2>6. /\ \A p \in Jobs : Outcome(p)'
        /\ \A p \in Jobs : Counted(p)'
        /\ PendingHasLiveJob'
    BY <2>1 DEF OpInv, Outcome, Counted, PendingHasLiveJob, OwnsJob, LiveOrCut, vars
  <2> QED
    BY <2>3, <2>4, <2>5, <2>6 DEF OpInv
<1>5. CASE QueueSubmit(o) \/ QueueSubmitLinked(o) \/ SyncSubmit(o)
  <2>1. /\ Answered(o) /\ UNCHANGED <<stopping, late>>
        /\ request[o].pc = "creating" /\ request[o].key \in Keys \cup {NoKey}
    BY <1>1, <1>5 DEF QueueSubmit, QueueSubmitLinked, SyncSubmit, Queued, OpTypes
  <2>2. /\ request' \in [Jobs -> [pc : {"idle", "creating", "answered"},
                                  key : Keys \cup {NoKey}]]
        /\ request'[o].pc = "answered"
        /\ \A p \in Jobs \ {o} : request'[p] = request[p]
    BY <1>1, <2>1 DEF Answered, OpTypes
  <2>3. {"pending", "running"} \subseteq OpStatuses /\ "admit" \in Phase
    BY DEF OpStatuses, Phase, Executing
  <2>4. CASE QueueSubmit(o)
    <3>1. /\ \E cut \in BOOLEAN :
               op' = [op EXCEPT ![o] = [status |-> "pending", key |-> request[o].key,
                                        link |-> o, cut |-> cut]]
          /\ UNCHANGED exec
          /\ EnqueueJob(o, 1, 0)
      BY <2>4 DEF QueueSubmit, Queued
    <3>2. Next
      BY <3>1, OneClaim, OperationsAssumption DEF Next, Working, Operator
    <3>3. job'[o].status = "pending" /\ \A p \in Jobs \ {o} : job'[p] = job[p]
      BY <1>1, <3>1 DEF EnqueueJob, NoJob, Bookkeeping, TypeOK
    <3>4. op' \in [Jobs -> OpRow] /\ op'[o].status = "pending" /\ op'[o].link = o
      BY <1>1, <2>1, <2>3, <3>1 DEF OpTypes, OpRow
    <3>5. OpTypes'
      BY <1>1, <2>1, <2>2, <3>1, <3>4 DEF OpTypes
    <3>6. Creates(o)
      BY <1>1, <1>3, <2>1, <2>2, <3>1, <3>3, <3>4 DEF Creates, OpTypes
    <3> QED
      BY <1>1, <3>2, <3>5, <3>6, StepBookkeeping, CreateStep DEF OpInv
  <2>5. CASE QueueSubmitLinked(o)
    <3>1. PICK q \in JobsWithKey(request[o].key) :
            op' = [op EXCEPT ![o] = [status |-> "pending", key |-> request[o].key,
                                     link |-> q, cut |-> FALSE]]
      BY <2>5 DEF QueueSubmitLinked, Queued
    <3>2. q \in Jobs /\ job[q].status # "absent"
      BY <3>1 DEF JobsWithKey
    <3>3. UNCHANGED <<vars, exec>>
      BY <2>5 DEF QueueSubmitLinked
    <3>4. op' \in [Jobs -> OpRow] /\ op'[o].status = "pending" /\ op'[o].link = q
      BY <1>1, <2>1, <2>3, <3>1, <3>2 DEF OpTypes, OpRow
    <3>5. OpTypes'
      BY <1>1, <2>1, <2>2, <3>3, <3>4 DEF OpTypes
    <3>6. Creates(o)
      BY <1>1, <1>3, <2>1, <2>2, <3>1, <3>2, <3>3, <3>4 DEF Creates, OpTypes, vars
    <3> QED
      BY <1>1, <3>3, <3>5, <3>6, StepBookkeeping, CreateStep DEF OpInv
  <2>6. CASE SyncSubmit(o)
    <3> DEFINE new == [pc |-> "admit", sync |-> TRUE, done |-> 0, seen |-> "running"]
    <3>1. /\ op' = [op EXCEPT ![o] = [status |-> "running", key |-> request[o].key,
                                      link |-> NoLink, cut |-> FALSE]]
          /\ exec' = [exec EXCEPT ![o] = new]
          /\ UNCHANGED vars
      BY <2>6 DEF SyncSubmit
    <3>2. op' \in [Jobs -> OpRow] /\ op'[o].status = "running" /\ op'[o].link = NoLink
      BY <1>1, <2>1, <2>3, <3>1 DEF OpTypes, OpRow
    <3>3. exec' \in [Jobs -> ExecRow]
      <4>1. 0 \in 0..ItemCount + 1
        BY OperationsAssumption
      <4>2. new \in ExecRow
        BY <2>3, <4>1 DEF ExecRow
      <4> QED
        BY <1>1, <3>1, <4>2 DEF OpTypes
    <3>4. OpTypes'
      BY <1>1, <2>1, <2>2, <3>2, <3>3 DEF OpTypes
    <3>5. Creates(o)
      BY <1>1, <1>3, <2>1, <2>2, <3>1, <3>2 DEF Creates, OpTypes, vars
    <3> QED
      BY <1>1, <3>1, <3>4, <3>5, StepBookkeeping, CreateStep DEF OpInv
  <2> QED
    BY <1>5, <2>4, <2>5, <2>6
<1> QED
  BY <1>4, <1>5 DEF Submit

-----------------------------------------------------------------------------
(* Cancellations.                                                          *)

LEMMA CancelOpInv ==
    ASSUME OpInv, NEW o \in Jobs, CancelOpRead(o) \/ CancelStep(o)
    PROVE  OpInv'
<1>1. OpTypes /\ Linked(o) /\ Bookkeeping
  BY DEF OpInv
<1>2. op[o] \in OpRow
  BY <1>1 DEF OpTypes
<1>3. ASSUME NEW s \in {"read", "withJob", "alone"}, op[o].status # "absent",
             s = "withJob" => op[o].link # NoLink,
             stopping' = [stopping EXCEPT ![o] = s],
             UNCHANGED <<job, op, exec, request, late>>, Bookkeeping'
      PROVE  OpInv'
  <2>1. OpTypes'
    BY <1>1, <1>3 DEF OpTypes
  <2>2. \A p \in Jobs : Linked(p)'
    BY <1>1, <1>3 DEF OpInv, OpTypes, Linked, Untouched
  <2>3. /\ \A p \in Jobs : Outcome(p)'
        /\ \A p \in Jobs : Counted(p)'
        /\ PendingHasLiveJob'
    BY <1>3 DEF OpInv, Outcome, Counted, PendingHasLiveJob, OwnsJob, LiveOrCut
  <2> QED
    BY <1>3, <2>1, <2>2, <2>3 DEF OpInv
<1>4. CASE CancelOpRead(o)
  <2>1. UNCHANGED vars /\ op[o].status # "absent"
    BY <1>4 DEF CancelOpRead
  <2> QED
    BY <1>1, <1>3, <1>4, <2>1, StepBookkeeping DEF CancelOpRead, vars
<1>5. CASE CancelOpReadJob(o)
  <2>1. op[o].status # "absent"
    BY <1>1, <1>5 DEF CancelOpReadJob, Linked, Untouched
  <2>2. CASE op[o].link # NoLink /\ CancelRead(op[o].link)
             /\ stopping' = [stopping EXCEPT ![o] = "withJob"]
    <3>1. op[o].link \in Jobs
      BY <1>2, <2>2 DEF OpRow
    <3>2. Next
      BY <2>2, <3>1 DEF Next, Working, Operator
    <3> QED
      BY <1>1, <1>3, <1>5, <2>1, <2>2, <3>2, StepBookkeeping DEF CancelOpReadJob, CancelRead
  <2>3. CASE UNCHANGED vars /\ stopping' = [stopping EXCEPT ![o] = "alone"]
    BY <1>1, <1>3, <1>5, <2>1, <2>3, StepBookkeeping DEF CancelOpReadJob, vars
  <2> QED
    BY <1>5, <2>2, <2>3 DEF CancelOpReadJob
<1>6. CASE CancelOpCommit(o)
  <2> DEFINE row == [op[o] EXCEPT !.status = "cancelled"]
             q == op[o].link
  <2>1. /\ op' = [op EXCEPT ![o] = row]
        /\ stopping' = [stopping EXCEPT ![o] = "idle"]
        /\ UNCHANGED <<exec, request, late>>
        /\ CancelJobToo(o)
    BY <1>6 DEF CancelOpCommit
  <2>2. row \in OpRow /\ row.status = "cancelled" /\ row.link = q
    BY <1>2 DEF OpRow, OpStatuses, OpTerminal
  <2> HIDE DEF row
  <2>3. /\ op'[o].status = "cancelled" /\ op'[o].link = q
        /\ \A p \in Jobs \ {o} : op'[p] = op[p] /\ stopping'[p] = stopping[p]
        /\ stopping'[o] = "idle"
    BY <1>1, <2>1, <2>2 DEF OpTypes
  <2>4. op[o].status # "absent"
    BY <1>1, <2>1 DEF CancelJobToo, Linked, Untouched
  <2>5. /\ Bookkeeping'
        /\ \A p \in Jobs :
             \/ job'[p].status = job[p].status
             \/ p = q /\ job[p].status # "absent" /\ job'[p].status = "cancelled"
    <3>1. CASE stopping[o] = "withJob" /\ CancelWrite(q)
      <4>1. q \in Jobs /\ job[q].status # "absent"
        BY <1>1, <1>2, <3>1 DEF Linked, OpRow
      <4>2. Next
        BY <3>1, <4>1 DEF Next, Working, Operator
      <4>3. job'[q].status = "cancelled" /\ \A i \in Jobs \ {q} : job'[i] = job[i]
        BY <1>1, <3>1, <4>1, CancelWriteEffect
      <4> QED
        BY <1>1, <4>1, <4>2, <4>3, StepBookkeeping
    <3>2. CASE UNCHANGED vars
      BY <1>1, <3>2, StepBookkeeping DEF vars
    <3> QED
      BY <2>1, <3>1, <3>2 DEF CancelJobToo
  <2> HIDE DEF q
  <2>6. OpTypes'
    BY <1>1, <2>1, <2>2 DEF OpTypes
  <2>7. \A p \in Jobs : job'[p].status = "absent" <=> job[p].status = "absent"
    BY <2>5
  <2>8. \A p \in Jobs : /\ op'[p].link = op[p].link
                        /\ op'[p].status = "absent" <=> op[p].status = "absent"
    BY <2>3, <2>4 DEF q
  <2>9. ASSUME NEW p \in Jobs PROVE Linked(p)'
    <3>1. Linked(p) /\ op[p].link \in Jobs \cup {NoLink}
      BY <1>1 DEF OpInv, OpTypes, OpRow
    <3>2. exec'[p] = exec[p] /\ request'[p] = request[p]
      BY <2>1
    <3> QED
      BY <2>3, <2>7, <2>8, <3>1, <3>2 DEF Linked, Untouched
  <2>10. ASSUME NEW p \in Jobs PROVE Outcome(p)' /\ Counted(p)'
    <3>1. Outcome(p) /\ Counted(p)
      BY DEF OpInv
    <3>2. exec'[p] = exec[p] /\ late'[p] = late[p]
      BY <2>1
    <3>3. /\ op'[p].status \in {op[p].status, "cancelled"}
          /\ job'[p].status \in Completed => job[p].status \in Completed
      BY <2>3, <2>5 DEF Completed
    <3> QED
      BY <3>1, <3>2, <3>3 DEF Outcome, Counted, OpTerminal
  <2>11. PendingHasLiveJob'
    <3>1. ASSUME NEW p \in Jobs, op'[p].status = "pending", OwnsJob(p)'
          PROVE  LiveOrCut(p)'
      <4>1. p # o /\ OwnsJob(p) /\ op'[p] = op[p]
        BY <2>3, <2>8, <3>1 DEF OwnsJob
      <4>2. p # q
        BY <4>1 DEF OwnsJob, q
      <4> QED
        BY <2>5, <3>1, <4>1, <4>2 DEF OpInv, PendingHasLiveJob, LiveOrCut
    <3> QED
      BY <3>1 DEF PendingHasLiveJob
  <2> QED
    BY <2>5, <2>6, <2>9, <2>10, <2>11 DEF OpInv
<1> QED
  BY <1>4, <1>5, <1>6 DEF CancelStep

-----------------------------------------------------------------------------
(* The queue's steps.                                                      *)

(* Steps that leave the operations alone but may end executors: all they   *)
(* make of a job is to run it, or to give it up for its payload.           *)
LEMMA QueueStep ==
    ASSUME OpInv, Bookkeeping', OpTypes', UNCHANGED <<op, request, stopping, late>>,
           \A o \in Jobs :
              \/ job'[o].status = job[o].status
              \/ /\ job[o].status \notin {"absent"} \cup Completed
                 /\ job'[o].status = "running"
              \/ /\ job[o].status # "absent"
                 /\ job'[o].status = "dead_letter" /\ op[o].cut,
           \A o \in Jobs :
              \/ exec'[o] = exec[o]
              \/ /\ exec[o].sync \/ op[o].link = o
                 /\ op[o].status # "absent"
                 /\ exec'[o].pc = "ended"
                 /\ exec'[o].sync = exec[o].sync /\ exec'[o].done = 0
    PROVE  OpInv'
<1>1. \A p \in Jobs : job'[p].status = "absent" <=> job[p].status = "absent"
  OBVIOUS
<1>2. ASSUME NEW p \in Jobs PROVE Linked(p)'
  <2>1. Linked(p) /\ op[p].link \in Jobs \cup {NoLink}
    BY DEF OpInv, OpTypes, OpRow
  <2>2. op'[p] = op[p] /\ request'[p] = request[p] /\ stopping'[p] = stopping[p]
    OBVIOUS
  <2>3. op[p].link # NoLink => job'[op[p].link].status # "absent"
    BY <1>1, <2>1 DEF Linked
  <2>4. CASE exec'[p] = exec[p]
    BY <1>1, <2>1, <2>2, <2>3, <2>4 DEF Linked, Untouched
  <2>5. CASE exec'[p] # exec[p]
    BY <1>1, <2>1, <2>2, <2>3, <2>5 DEF Linked, Untouched
  <2> QED
    BY <2>4, <2>5
<1>3. ASSUME NEW p \in Jobs PROVE Outcome(p)' /\ Counted(p)'
  <2>1. Outcome(p) /\ Counted(p)
    BY DEF OpInv
  <2>2. op'[p] = op[p] /\ late'[p] = late[p]
    OBVIOUS
  <2>3. job'[p].status \in Completed => job[p].status \in Completed
    BY DEF Completed
  <2>4. CASE exec'[p] = exec[p]
    BY <2>1, <2>2, <2>3, <2>4 DEF Outcome, Counted
  <2>5. CASE exec'[p] # exec[p]
    BY <2>1, <2>2, <2>3, <2>5, OperationsAssumption DEF Outcome, Counted, Executing
  <2> QED
    BY <2>4, <2>5
<1>4. PendingHasLiveJob'
  BY DEF OpInv, PendingHasLiveJob, OwnsJob, LiveOrCut
<1> QED
  BY <1>2, <1>3, <1>4 DEF OpInv

LEMMA EndEffect ==
    ASSUME OpTypes, NEW S, End(S)
    PROVE  /\ exec' \in [Jobs -> ExecRow]
           /\ \A o \in Jobs \ S : exec'[o] = exec[o]
           /\ \A o \in Jobs : o \in S =>
                 /\ exec'[o].pc = "ended"
                 /\ exec'[o].sync = exec[o].sync /\ exec'[o].done = 0
<1>1. /\ 0 \in 0..ItemCount + 1
      /\ \A o \in Jobs : exec[o] \in ExecRow /\ exec[o].sync \in BOOLEAN
  BY OperationsAssumption DEF OpTypes, ExecRow
<1>2. ASSUME NEW o \in Jobs
      PROVE  LET ended == [NotExecuting EXCEPT !.pc = "ended", !.sync = exec[o].sync]
             IN  /\ ended \in ExecRow /\ ended.pc = "ended"
                 /\ ended.sync = exec[o].sync /\ ended.done = 0
  BY <1>1 DEF NotExecuting, ExecRow, Phase, OpStatuses
<1>3. exec' = [o \in Jobs |-> IF o \in S THEN [NotExecuting EXCEPT !.pc = "ended",
                                                                   !.sync = exec[o].sync]
                              ELSE exec[o]]
  BY DEF End
<1> QED
  BY <1>1, <1>2, <1>3

\* The queue's own steps and faults, a refused payload and a dropped request.
QueueMoves ==
    \/ \E w \in Workers : QueueClaims(w) \/ WorkerDies(w)
    \/ \E o \in Jobs : \/ QueueStarts(o) \/ RunAborts(o)
                      \/ PayloadRefused(o) \/ RequestDies(o)

\* A handler was called with a copy that counts its own claim.
CopiesCount ==
    \A j \in Jobs, n \in Claims :
        run[j][n].pc = "handling" => run[j][n].seen.attempts >= n

LEMMA CopiesStep ==
    ASSUME Bookkeeping, CopiesCount, [Next]_vars
    PROVE  CopiesCount'
<1> SUFFICES ASSUME NEW j \in Jobs, NEW n \in Claims, run'[j][n].pc = "handling"
             PROVE  run'[j][n].seen.attempts >= n
  BY DEF CopiesCount
<1>1. /\ TypeOK /\ AttemptsCountClaims
      /\ run \in [Jobs -> [Claims -> Run]] /\ job[j] \in Row
  BY DEF Bookkeeping, TypeOK
<1>2. "handling" \notin {"claimed", "checked", Ended.pc}
  BY DEF Ended, NoRun
<1>3. CASE run'[j][n] = run[j][n]
  BY <1>3 DEF CopiesCount
<1>4. ASSUME NEW w \in Workers, ClaimJobs(w)
      PROVE  run'[j][n] = run[j][n]
  <2>1. PICK S \in SUBSET Jobs :
          /\ \A i \in S :
               /\ Claimable(i)
               /\ job'[i] = Claimed(job[i], w)
               /\ job[i].attempts + 1 \in Claims
               /\ run'[i][job[i].attempts + 1] = NewRun(w)
               /\ \A m \in Claims \ {job[i].attempts + 1} : run'[i][m] = run[i][m]
          /\ \A i \in Jobs \ S : job'[i] = job[i] /\ run'[i] = run[i]
    BY <1>1, <1>4, ClaimEffect
  <2>2. NewRun(w).pc = "claimed"
    BY DEF NewRun, NoRun
  <2> QED
    BY <1>2, <2>1, <2>2
<1>5. ASSUME NEW w \in Workers, Crash(w)
      PROVE  run'[j][n] = run[j][n]
  BY <1>2, <1>5 DEF Crash
<1>6. ASSUME NEW i \in Jobs, NEW m \in Claims, RunStep(i, m) \/ Abort(i, m)
      PROVE  run'[j][n].seen.attempts >= n
  <2>1. CASE StartRefresh(i, m) /\ <<i, m>> = <<j, n>>
    <3>1. run'[j][n].seen = Loaded(job[j]) /\ run[j][n].pc = "checked"
      BY <1>1, <2>1 DEF StartRefresh, Run
    <3>2. n <= job[j].attempts
      BY <1>1, <3>1 DEF AttemptsCountClaims
    <3> QED
      BY <1>1, <3>1, <3>2, LoadedLemma
  <2>2. CASE HandlerCommit(i, m)
    <3>1. run'[j][n].seen = run[j][n].seen /\ run'[j][n].pc = run[j][n].pc
      BY <1>1, <2>2 DEF HandlerCommit, Run
    <3> QED
      BY <3>1 DEF CopiesCount
  <2>3. CASE ~StartRefresh(i, m) /\ ~HandlerCommit(i, m)
    <3>1. \/ run' = [run EXCEPT ![i][m] = Ended]
          \/ run' = [run EXCEPT ![i][m].pc = "checked"]
      BY <1>6, <2>3 DEF RunStep, StartCheck, StartRefused, Abort, EscapesGather,
         HandlerReturns, HandlerRaises, NoHandler, Finish
    <3>2. run'[j][n] = run[j][n]
      BY <1>1, <1>2, <3>1 DEF Run
    <3> QED
      BY <1>3, <3>2
  <2>4. CASE <<i, m>> # <<j, n>> /\ StartRefresh(i, m)
    <3>1. run'[j][n] = run[j][n]
      BY <1>1, <2>4 DEF StartRefresh
    <3> QED
      BY <1>3, <3>1
  <2> QED
    BY <2>1, <2>2, <2>3, <2>4
<1>7. CASE Tick
  BY <1>1, <1>7, TickEffect DEF CopiesCount
<1>8. CASE Operator \/ UNCHANGED vars
  BY <1>3, <1>8 DEF Operator, EnqueueJob, CancelRead, CancelWrite, vars
<1> QED
  BY <1>3, <1>4, <1>5, <1>6, <1>7, <1>8 DEF Next, Working, Fault

(* The handler that finds its payload cut leaves a dead letter, or the job *)
(* as a cancellation left it.                                              *)
LEMMA RefusedEffect ==
    ASSUME OpInv, CopiesCount, NEW o \in Jobs, PayloadRefused(o)
    PROVE  /\ job'[o].status \in {job[o].status, "dead_letter"}
           /\ \A p \in Jobs \ {o} : job'[p] = job[p]
<1> DEFINE seen == run[o][1].seen
<1>1. /\ job[o] \in Row /\ seen \in Snapshot /\ job \in [Jobs -> Row]
  BY OneClaim, OutcomeRows DEF OpInv, Bookkeeping, TypeOK
<1>2. /\ run[o][1].pc = "handling" /\ HandlerRaises(o, 1)
      /\ job' = [job EXCEPT ![o] = HandlerRaised(job[o], seen)]
  BY DEF PayloadRefused, HandlerRaises, Finish
<1>3. seen.attempts >= job[o].max
  <2>1. seen.attempts >= 1
    BY <1>2, OneClaim DEF CopiesCount
  <2>2. job[o].max = 1
    BY <1>1, OneClaim DEF Row
  <2>3. seen.attempts \in Nat
    BY <1>1 DEF Snapshot
  <2> QED
    BY <2>1, <2>2, <2>3
<1>4. HandlerRaised(job[o], seen) = MoveToDeadLetter(job[o], seen)
  BY <1>3 DEF HandlerRaised
<1>5. "dead_letter" \in Statuses \ {"absent"}
  BY DEF Statuses, Terminal
<1>6. MoveToDeadLetter(job[o], seen).status \in {job[o].status, "dead_letter"}
  BY <1>1, <1>5, WriteLemma DEF MoveToDeadLetter
<1> HIDE DEF seen
<1> QED
  BY <1>1, <1>2, <1>4, <1>6

LEMMA QueueOpInv ==
    ASSUME OpInv, CopiesCount, QueueMoves
    PROVE  OpInv'
<1>1. OpTypes /\ Bookkeeping /\ TypeOK /\ \A o \in Jobs : Linked(o)
  BY DEF OpInv, Bookkeeping
<1>2. UNCHANGED <<op, request, stopping, late>>
  BY DEF QueueMoves, QueueClaims, QueueStarts, WorkerDies, RunAborts, PayloadRefused,
     RequestDies, opVars
<1>3. \A o \in Jobs : job[o].status # "absent" => op[o].link = o /\ op[o].status # "absent"
  BY <1>1 DEF Linked, Untouched
<1>4. ASSUME NEW w \in Workers, QueueClaims(w) PROVE OpInv'
  <2>1. ClaimJobs(w) /\ UNCHANGED exec /\ Next
    BY <1>4 DEF QueueClaims, opVars, Next, Working
  <2>2. PICK S \in SUBSET Jobs :
          /\ \A j \in S : Claimable(j) /\ job'[j] = Claimed(job[j], w)
          /\ \A j \in Jobs \ S : job'[j] = job[j]
    BY <1>1, <2>1, ClaimEffect
  <2>3. ASSUME NEW j \in S
        PROVE  job[j].status \notin {"absent"} \cup Completed /\ job'[j].status = "running"
    <3>1. job[j] \in Row
      BY <1>1 DEF TypeOK
    <3> QED
      BY <2>2, <3>1 DEF Claimable, Waiting, Completed, Claimed, Row
  <2>4. Bookkeeping' /\ OpTypes'
    BY <1>1, <1>2, <2>1, StepBookkeeping DEF OpTypes
  <2> QED
    BY <1>2, <2>1, <2>2, <2>3, <2>4, QueueStep
<1>5. ASSUME NEW S \in SUBSET Jobs, End(S), [Next]_vars, UNCHANGED job,
             \A o \in S : (exec[o].sync \/ op[o].link = o) /\ op[o].status # "absent"
      PROVE  OpInv'
  <2>1. /\ exec' \in [Jobs -> ExecRow]
        /\ \A o \in Jobs \ S : exec'[o] = exec[o]
        /\ \A o \in Jobs : o \in S =>
              /\ exec'[o].pc = "ended"
              /\ exec'[o].sync = exec[o].sync /\ exec'[o].done = 0
    BY <1>1, <1>5, EndEffect
  <2>2. Bookkeeping' /\ OpTypes'
    BY <1>1, <1>2, <1>5, <2>1, StepBookkeeping DEF OpTypes
  <2> QED
    BY <1>2, <1>5, <2>1, <2>2, QueueStep
<1>6. ASSUME NEW w \in Workers, WorkerDies(w) PROVE OpInv'
  <2> DEFINE S == {o \in Jobs : run[o][1].pc \in Active /\ run[o][1].by = w}
  <2>1. End(S) /\ Next /\ UNCHANGED job
    BY <1>6 DEF WorkerDies, Crash, Next, Fault
  <2>2. \A o \in S : op[o].link = o /\ op[o].status # "absent"
    BY <1>1, <1>3, OneClaim DEF Active
  <2> HIDE DEF S
  <2>3. S \in SUBSET Jobs
    BY DEF S
  <2> QED
    BY <1>5, <2>1, <2>2, <2>3
<1>7. ASSUME NEW o \in Jobs, RunAborts(o) PROVE OpInv'
  <2>1. End({o}) /\ Next /\ UNCHANGED job /\ run[o][1].pc \in Active
    BY <1>7, OneClaim DEF RunAborts, Abort, EscapesGather, Next, Fault
  <2>2. op[o].link = o /\ op[o].status # "absent"
    BY <1>1, <1>3, <2>1, OneClaim DEF Active
  <2> QED
    BY <1>5, <2>1, <2>2
<1>8. ASSUME NEW o \in Jobs, RequestDies(o) PROVE OpInv'
  <2>1. End({o}) /\ UNCHANGED vars /\ exec[o].sync
    BY <1>8 DEF RequestDies
  <2>2. op[o].status # "absent"
    BY <1>1, <2>1 DEF Linked, Untouched
  <2> QED
    BY <1>5, <2>1, <2>2 DEF vars
<1>9. ASSUME NEW o \in Jobs, QueueStarts(o) PROVE OpInv'
  <2>1. UNCHANGED exec /\ (StartCheck(o, 1) \/ StartRefused(o, 1) \/ StartRefresh(o, 1))
    BY <1>9 DEF QueueStarts, opVars
  <2>2. Next /\ UNCHANGED job
    BY <2>1, OneClaim
       DEF Next, Working, RunStep, StartCheck, StartRefused, StartRefresh, EscapesGather
  <2>3. Bookkeeping' /\ OpTypes'
    BY <1>1, <1>2, <2>1, <2>2, StepBookkeeping DEF OpTypes
  <2> QED
    BY <1>2, <2>1, <2>2, <2>3, QueueStep
<1>10. ASSUME NEW o \in Jobs, PayloadRefused(o) PROVE OpInv'
  <2>1. End({o}) /\ op[o].cut /\ run[o][1].pc = "handling" /\ Next
    BY <1>10, OneClaim DEF PayloadRefused, Next, Working, RunStep
  <2>2. job[o].status # "absent" /\ op[o].link = o /\ op[o].status # "absent"
    BY <1>1, <1>3, <2>1, OneClaim
  <2>3. /\ job'[o].status \in {job[o].status, "dead_letter"}
        /\ \A p \in Jobs \ {o} : job'[p] = job[p]
    BY <1>10, RefusedEffect
  <2>4. /\ exec' \in [Jobs -> ExecRow]
        /\ \A p \in Jobs \ {o} : exec'[p] = exec[p]
        /\ exec'[o].pc = "ended" /\ exec'[o].sync = exec[o].sync /\ exec'[o].done = 0
    BY <1>1, <2>1, EndEffect
  <2>5. Bookkeeping' /\ OpTypes'
    BY <1>1, <1>2, <2>1, <2>4, StepBookkeeping DEF OpTypes
  <2> QED
    BY <1>2, <2>1, <2>2, <2>3, <2>4, <2>5, QueueStep
<1> QED
  BY <1>4, <1>6, <1>7, <1>8, <1>9, <1>10 DEF QueueMoves

(* The handler's answer: the job completes, its operation has its outcome. *)
LEMMA AnswerOpInv ==
    ASSUME OpInv, NEW o \in Jobs, HandlerAnswers(o)
    PROVE  OpInv'
<1>1. OpTypes /\ Bookkeeping /\ Linked(o) /\ Outcome(o) /\ Counted(o)
  BY DEF OpInv
<1>2. PICK s \in Completed : Finish(o, 1, CompleteJob(job[o], run[o][1].seen, s))
  BY DEF HandlerAnswers, Completed
<1>3. /\ run[o][1].pc = "handling" /\ exec[o].pc = "returned"
      /\ End({o})
      /\ UNCHANGED <<op, request, stopping, late>>
  BY DEF HandlerAnswers
<1>4. Next
  BY <1>2, <1>3, OneClaim, OperationsAssumption
     DEF Next, Working, RunStep, HandlerReturns
<1>5. /\ job'[o].status \in {job[o].status} \cup Completed
      /\ job[o].status # "absent"
      /\ \A p \in Jobs \ {o} : job'[p] = job[p]
  <2>1. job[o] \in Row /\ run[o][1].seen \in Snapshot
    BY <1>1, OneClaim, OutcomeRows DEF Bookkeeping
  <2>2. CompleteJob(job[o], run[o][1].seen, s).status \in {job[o].status, s}
    BY <2>1, CompleteLemma
  <2>3. job' = [job EXCEPT ![o] = CompleteJob(job[o], run[o][1].seen, s)]
    BY <1>2 DEF Finish
  <2>4. job[o].status # "absent"
    BY <1>1, <1>3, OneClaim
  <2> QED
    BY <1>1, <2>2, <2>3, <2>4 DEF Bookkeeping, TypeOK
<1>6. /\ exec' \in [Jobs -> ExecRow]
      /\ \A p \in Jobs \ {o} : exec'[p] = exec[p]
      /\ exec'[o].pc = "ended" /\ exec'[o].sync = exec[o].sync /\ exec'[o].done = 0
  BY <1>1, <1>3, EndEffect
<1>8. OpTypes'
  BY <1>1, <1>3, <1>6 DEF OpTypes
<1>9. /\ \A p \in Jobs \ {o} : exec'[p] = exec[p] /\ job'[p] = job[p]
      /\ \A p \in Jobs : op'[p] = op[p] /\ request'[p] = request[p]
                         /\ stopping'[p] = stopping[p] /\ late'[p] = late[p]
  BY <1>3, <1>5, <1>6
<1>10. op[o].status \in OpTerminal
  BY <1>1, <1>3 DEF Outcome
<1>11. \A p \in Jobs : job'[p].status = "absent" <=> job[p].status = "absent"
  BY <1>5 DEF Completed
<1>12. ASSUME NEW p \in Jobs PROVE Linked(p)'
  <2>1. Linked(p) /\ op[p].link \in Jobs \cup {NoLink}
    BY <1>1 DEF OpInv, OpTypes, OpRow
  <2>2. op[p].link # NoLink => job'[op[p].link].status # "absent"
    BY <1>11, <2>1 DEF Linked
  <2>3. CASE p # o
    BY <1>9, <1>11, <2>1, <2>2, <2>3 DEF Linked, Untouched
  <2>4. CASE p = o
    BY <1>3, <1>6, <1>9, <1>10, <1>11, <2>1, <2>2, <2>4 DEF Linked, Untouched, OpTerminal
  <2> QED
    BY <2>3, <2>4
<1>13. ASSUME NEW p \in Jobs PROVE Outcome(p)' /\ Counted(p)'
  <2>1. Outcome(p) /\ Counted(p)
    BY DEF OpInv
  <2>2. CASE p # o
    BY <1>9, <2>1, <2>2 DEF Outcome, Counted
  <2>3. CASE p = o
    BY <1>6, <1>9, <1>10, <2>1, <2>3, OperationsAssumption DEF Outcome, Counted, Executing
  <2> QED
    BY <2>2, <2>3
<1>14. PendingHasLiveJob'
  <2>1. ASSUME NEW p \in Jobs, op'[p].status = "pending", OwnsJob(p)'
        PROVE  LiveOrCut(p)'
    <3>1. p # o
      BY <1>9, <1>10, <2>1 DEF OpTerminal
    <3>2. OwnsJob(p)
      BY <1>9, <2>1 DEF OwnsJob
    <3> QED
      BY <1>9, <2>1, <3>1, <3>2 DEF OpInv, PendingHasLiveJob, LiveOrCut
  <2> QED
    BY <2>1 DEF PendingHasLiveJob
<1>15. Bookkeeping'
  BY <1>1, <1>4, StepBookkeeping
<1> QED
  BY <1>8, <1>12, <1>13, <1>14, <1>15 DEF OpInv

-----------------------------------------------------------------------------
(* Every step is one of these.                                             *)
LEMMA StepKinds ==
    ASSUME CalmStep \/ FaultStep
    PROVE  \/ \E o \in Jobs : \/ Submit(o) \/ Executes(o) \/ HandlerAnswers(o)
                              \/ CancelOpRead(o) \/ CancelStep(o)
           \/ QueueMoves
<1>1. \A o \in Jobs : ExecStep(o) => Executes(o) \/ HandlerAnswers(o) \/ PayloadRefused(o)
  BY DEF ExecStep, Executes
<1> QED
  BY <1>1 DEF CalmStep, FaultStep, QueueMoves

(* Every step takes the queue through a step of its own that is no tick.   *)
LEMMA QueueStepOnly ==
    ASSUME OpInv, [CalmStep \/ FaultStep]_allVars
    PROVE  [TimelyNext]_vars
<1>1. Claims = {1} /\ Handled = Jobs /\ Delays = {0}
  BY OneClaim, OperationsAssumption
<1>2. CASE UNCHANGED allVars
  BY <1>2 DEF allVars
<1>3. ASSUME NEW o \in Jobs, Submit(o) PROVE [TimelyNext]_vars
  <2>1. CASE QueueSubmit(o)
    BY <1>1, <2>1 DEF QueueSubmit, TimelyNext, Working, Operator
  <2>2. CASE ~QueueSubmit(o)
    BY <1>3, <2>2 DEF Submit, SubmitLookup, RetryLookup, QueueSubmitLinked,
       QueueSubmitConflict, SyncSubmit
  <2> QED
    BY <2>1, <2>2
<1>4. ASSUME NEW o \in Jobs, Executes(o) PROVE [TimelyNext]_vars
  <2>1. CASE ExecStart(o)
    BY <1>1, <2>1 DEF ExecStart, TimelyNext, Working, RunStep
  <2>2. CASE ~ExecStart(o)
    BY <1>4, <2>2 DEF Executes, ExecLoad, ExecAdmit, ExecReport, ExecCheck, ExecWork,
       ExecFinish, ExecFail
  <2> QED
    BY <2>1, <2>2
<1>5. ASSUME NEW o \in Jobs, HandlerAnswers(o) PROVE [TimelyNext]_vars
  <2>1. HandlerReturns(o, 1)
    BY <1>1, <1>5 DEF HandlerAnswers, HandlerReturns, Completed
  <2> QED
    BY <1>1, <2>1 DEF TimelyNext, Working, RunStep
<1>6. ASSUME NEW o \in Jobs, CancelOpRead(o) \/ CancelStep(o) PROVE [TimelyNext]_vars
  <2>1. /\ op[o].link \in Jobs \cup {NoLink}
        /\ stopping[o] = "withJob" => op[o].link # NoLink
    BY DEF OpInv, OpTypes, OpRow, Linked
  <2>2. ASSUME NEW q \in Jobs, CancelRead(q) \/ CancelWrite(q) PROVE TimelyNext
    BY <2>2 DEF TimelyNext, Working, Operator
  <2> QED
    BY <1>6, <2>1, <2>2
       DEF CancelOpRead, CancelStep, CancelOpReadJob, CancelOpCommit, CancelJobToo
<1>7. CASE QueueMoves
  <2>1. ASSUME NEW w \in Workers, QueueClaims(w) \/ WorkerDies(w) PROVE TimelyNext
    BY <2>1 DEF QueueClaims, WorkerDies, TimelyNext, Working, Fault
  <2>2. ASSUME NEW o \in Jobs, QueueStarts(o) PROVE TimelyNext
    BY <1>1, <2>2 DEF QueueStarts, TimelyNext, Working, RunStep
  <2>3. ASSUME NEW o \in Jobs, RunAborts(o) PROVE TimelyNext
    BY <1>1, <2>3 DEF RunAborts, TimelyNext, Fault
  <2>4. ASSUME NEW o \in Jobs, PayloadRefused(o) PROVE TimelyNext
    BY <1>1, <2>4 DEF PayloadRefused, TimelyNext, Working, RunStep
  <2>5. ASSUME NEW o \in Jobs, RequestDies(o) PROVE UNCHANGED vars
    BY <2>5 DEF RequestDies
  <2> QED
    BY <1>7, <2>1, <2>2, <2>3, <2>4, <2>5 DEF QueueMoves
<1> QED
  BY <1>2, <1>3, <1>4, <1>5, <1>6, <1>7, StepKinds

LEMMA StepOpInv ==
    OpInv /\ CopiesCount /\ [CalmStep \/ FaultStep]_allVars => OpInv' /\ CopiesCount'
<1> SUFFICES ASSUME OpInv, CopiesCount, [CalmStep \/ FaultStep]_allVars
             PROVE  OpInv' /\ CopiesCount'
  OBVIOUS
<1>0. CopiesCount'
  BY QueueStepOnly, TimelyIsNext, CopiesStep DEF OpInv
<1>1. ASSUME CalmStep \/ FaultStep PROVE OpInv'
  BY <1>1, StepKinds, SubmitOpInv, ExecutesOpInv, AnswerOpInv, CancelOpInv, QueueOpInv
<1>2. ASSUME UNCHANGED allVars PROVE OpInv'
  <2>1. Bookkeeping'
    BY <1>2, StepBookkeeping DEF OpInv, allVars
  <2>2. UNCHANGED <<job, op, exec, request, stopping, late>>
    BY <1>2 DEF allVars, vars, opVars
  <2>3. /\ \A o \in Jobs : Linked(o)' /\ Outcome(o)' /\ Counted(o)'
        /\ OpTypes'
    BY <2>2 DEF OpInv, OpTypes, Linked, Untouched, Outcome, Counted
  <2>4. PendingHasLiveJob'
    BY <2>2 DEF OpInv, PendingHasLiveJob, OwnsJob, LiveOrCut
  <2> QED
    BY <2>1, <2>3, <2>4 DEF OpInv
<1> QED
  BY <1>0, <1>1, <1>2

LEMMA OpInvHolds == OpSpec => []OpInv
<1>1. OpInit => CopiesCount
  BY DEF OpInit, Init, NoRun, CopiesCount
<1> QED
  BY <1>1, InitOpInv, StepOpInv, PTL DEF OpSpec

-----------------------------------------------------------------------------
(* The variables range over the columns and executor states of the code.   *)
THEOREM OperationTypes == OpSpec => []OpTypeOK
BY InvGives, OpInvHolds, PTL

(* A job never completes while its operation is still to run or running,   *)
(* however the handler and a cancellation interleave.                      *)
THEOREM OutcomeBeforeCompletion == OpSpec => []CompletedJobHasOutcome
BY InvGives, OpInvHolds, PTL

(* A pending operation that owns its job is left behind by it only if the  *)
(* payload was cut and the handler refused it: a cancellation that ends    *)
(* the job ends the operation in the same commit, and every other outcome  *)
(* of the job comes after the operation's.                                 *)
THEOREM PendingNeverLost == OpSpec => []PendingHasLiveJob
<1>1. OpInv => PendingHasLiveJob
  BY DEF OpInv
<1> QED
  BY <1>1, OpInvHolds, PTL

(* A cancelled operation stores at most the item it was at.                *)
THEOREM CancellationStops == OpSpec => []StopsWithinOneItem
BY InvGives, OpInvHolds, PTL

(* A step that takes a cancelled operation out of its status is taken by an*)
(* executor; once its copy shows the cancellation it can only fail.        *)
LEMMA RewriteStep ==
    ASSUME OpInv, [CalmStep \/ FaultStep]_allVars, NEW o \in Jobs,
           op[o].status = "cancelled", op'[o].status # "cancelled"
    PROVE  /\ exec[o].pc \in Executing
           /\ exec[o].seen = "cancelled" => op'[o].status = "failed"
<1>1. OpTypes /\ \A p \in Jobs : Linked(p) /\ Outcome(p)
  BY DEF OpInv
<1>2. CalmStep \/ FaultStep
  BY DEF allVars, opVars
<1>3. \A p \in Jobs : request[p].pc # "answered" => op[p].status = "absent"
  BY <1>1 DEF Linked
<1>4. ASSUME NEW p \in Jobs, Submit(p) PROVE FALSE
  <2>1. request[p].pc # "answered"
    BY <1>4 DEF Submit, SubmitLookup, RetryLookup, QueueSubmit, QueueSubmitLinked,
           QueueSubmitConflict, SyncSubmit
  <2>2. p # o
    BY <1>3, <2>1
  <2>3. op'[o] = op[o]
    BY <1>1, <1>4, <2>2 DEF Submit, SubmitLookup, RetryLookup, QueueSubmit, QueueSubmitLinked,
           QueueSubmitConflict, SyncSubmit, Queued, OpTypes
  <2> QED
    BY <2>3
<1>5. ASSUME NEW p \in Jobs, CancelOpRead(p) \/ CancelStep(p) PROVE FALSE
  <2>1. UNCHANGED op \/ op' = [op EXCEPT ![p].status = "cancelled"]
    BY <1>5 DEF CancelOpRead, CancelStep, CancelOpReadJob, CancelOpCommit
  <2>2. op'[o].status \in {op[o].status, "cancelled"}
    BY <1>1, <2>1 DEF OpTypes, OpRow
  <2> QED
    BY <2>2
<1>6. ~QueueMoves /\ \A p \in Jobs : ~HandlerAnswers(p)
  BY DEF QueueMoves, QueueClaims, QueueStarts, WorkerDies, RunAborts,
     PayloadRefused, RequestDies, opVars,
     HandlerAnswers
<1>7. PICK p \in Jobs : Executes(p)
  BY <1>2, <1>4, <1>5, <1>6, StepKinds
<1>8. p = o
  BY <1>7, LooksOwn, StartOwn, ReportOwn, WorkOwn, EndOwn DEF Executes, OwnStep
<1>9. \/ ExecStart(o)
      \/ ExecFail(o)
      \/ ExecFinish(o) /\ exec[o].seen # "cancelled"
  BY <1>7, <1>8 DEF Executes, ExecLoad, ExecAdmit, ExecCheck, ExecReport, ExecWork, ExecFinish
<1>10. exec[o].pc \in Executing
  BY <1>9 DEF ExecStart, ExecFail, ExecFinish, Executing
<1>11. CASE ExecStart(o)
  BY <1>1, <1>10, <1>11 DEF ExecStart, Outcome
<1>12. CASE ExecFail(o)
  <2>1. op' = [op EXCEPT ![o].status = "failed"]
    BY <1>12 DEF ExecFail, RowAndCopy
  <2> QED
    BY <1>1, <1>10, <2>1 DEF OpTypes, OpRow
<1> QED
  BY <1>9, <1>10, <1>11, <1>12

(* Only an executor already at work writes over a cancelled operation, and *)
(* none completes one whose cancellation it has seen.                      *)
THEOREM CancelledRewrites == OpSpec => OnlyRacesRewriteCancelled
<1>1. OpInv /\ [CalmStep \/ FaultStep]_allVars
        => [\A o \in Jobs :
              op[o].status = "cancelled" /\ op'[o].status # "cancelled"
                 => /\ exec[o].pc \in Executing
                    /\ exec[o].seen = "cancelled" => op'[o].status = "failed"]_allVars
  BY RewriteStep
<1> QED
  BY <1>1, OpInvHolds, PTL DEF OpSpec, OnlyRacesRewriteCancelled

-----------------------------------------------------------------------------
(* The queue under the operations.                                         *)

(* Operations use the queue as it is meant to be used: whatever they and   *)
(* their cancellations do is a behaviour of the queue on its own.          *)
THEOREM QueueRefined == OpSpec => TimelySpec
<1>1. OpInit => Init
  BY DEF OpInit
<1>2. OpInv /\ [CalmStep \/ FaultStep]_allVars => [TimelyNext]_vars
  BY QueueStepOnly
<1> QED
  BY <1>1, <1>2, OpInvHolds, PTL DEF OpSpec, TimelySpec

(* So the jobs of operations get exclusive service too, each for its one   *)
(* attempt, through crashes, aborts and cancellations of operations.       *)
THEOREM OperationsServed == OpSpec => ImplementsService
BY QueueRefined, ServiceImplemented, PTL

-----------------------------------------------------------------------------
(* Which steps write an operation's row, and how.                          *)

LEMMA RowStep ==
    ASSUME OpInv, [CalmStep \/ FaultStep]_allVars
    PROVE  \/ op' = op
           \/ \E o \in Jobs : Submit(o)
           \/ \E o \in Jobs : CancelOpCommit(o)
           \/ \E o \in Jobs, s \in {"running"} \cup OpTerminal :
                 Executes(o) /\ op' = [op EXCEPT ![o].status = s]
<1>1. CASE UNCHANGED allVars
  BY <1>1 DEF allVars, opVars
<1>2. CASE QueueMoves
  BY <1>2 DEF QueueMoves, QueueClaims, QueueStarts, WorkerDies, RunAborts,
     PayloadRefused, RequestDies, opVars
<1>3. ASSUME NEW o \in Jobs, HandlerAnswers(o) \/ CancelOpRead(o) \/ CancelOpReadJob(o)
      PROVE  op' = op
  BY <1>3 DEF HandlerAnswers, CancelOpRead, CancelOpReadJob
<1>4. ASSUME NEW o \in Jobs, Executes(o)
      PROVE  op' = op \/ \E s \in {"running"} \cup OpTerminal :
                            op' = [op EXCEPT ![o].status = s]
  BY <1>4 DEF Executes, ExecLoad, ExecStart, ExecAdmit, ExecReport, ExecCheck, ExecWork,
     ExecFinish, ExecFail, RowAndCopy, OpTerminal, Completed
<1> QED
  BY <1>1, <1>2, <1>3, <1>4, StepKinds DEF CancelStep

\* An operation with an outcome other than cancelled is done with.
AtWork ==
    \A o \in Jobs :
        exec[o].pc \in Executing \cup {"none"} =>
            op[o].status \notin OpTerminal \ {"cancelled"}

LEMMA ExecutesAtWork ==
    ASSUME OpInv, NEW o \in Jobs, Executes(o)
    PROVE  /\ exec[o].pc \in Executing \cup {"none"}
           /\ exec'[o].pc \in Executing \cup {"none"} =>
                 op'[o].status \in {op[o].status, "running"}
<1>1. OpTypes /\ op[o] \in OpRow
  BY DEF OpInv, OpTypes
<1>2. exec[o].pc \in Executing \cup {"none"}
  BY DEF Executes, ExecLoad, ExecStart, ExecAdmit, ExecReport, ExecCheck, ExecWork,
     ExecFinish, ExecFail, Executing
<1>3. CASE op' = op
  BY <1>2, <1>3
<1>4. CASE ExecStart(o)
  BY <1>1, <1>2, <1>4 DEF ExecStart, OpTypes
<1>5. ASSUME NEW s \in {"failed"} \cup Completed, RowAndCopy(o, s)
      PROVE  exec'[o].pc = "returned"
  BY <1>1, <1>5, RowAndCopyEffect DEF OpStatuses, OpTerminal, Completed
<1>6. \/ op' = op \/ ExecStart(o)
      \/ \E s \in {"failed"} \cup Completed : RowAndCopy(o, s)
  BY DEF Executes, ExecLoad, ExecAdmit, ExecReport, ExecCheck, ExecWork, ExecFinish, ExecFail
<1> QED
  BY <1>2, <1>3, <1>4, <1>5, <1>6 DEF Executing

LEMMA AtWorkStep ==
    ASSUME OpInv, AtWork, [CalmStep \/ FaultStep]_allVars
    PROVE  AtWork'
<1>1. OpTypes /\ \A o \in Jobs : Linked(o)
  BY DEF OpInv
<1> SUFFICES ASSUME NEW o \in Jobs, exec'[o].pc \in Executing \cup {"none"}
             PROVE  op'[o].status \notin OpTerminal \ {"cancelled"}
  BY DEF AtWork
<1>2. ASSUME NEW p \in Jobs, Submit(p)
      PROVE  op'[o].status \notin OpTerminal \ {"cancelled"}
  <2>1. CASE p # o
    <3>1. exec'[o] = exec[o] /\ op'[o] = op[o]
      BY <1>1, <1>2, <2>1 DEF Submit, SubmitLookup, RetryLookup, QueueSubmit, QueueSubmitLinked,
         QueueSubmitConflict, SyncSubmit, Queued, OpTypes
    <3> QED
      BY <3>1 DEF AtWork
  <2>2. CASE p = o /\ op' = op /\ exec' = exec
    BY <2>2 DEF AtWork
  <2>3. CASE /\ p = o
             /\ QueueSubmit(p) \/ QueueSubmitLinked(p) \/ SyncSubmit(p)
    <3>1. op'[o].status \in {"pending", "running"}
      BY <1>1, <2>3 DEF QueueSubmit, QueueSubmitLinked, SyncSubmit, Queued, OpTypes
    <3> QED
      BY <3>1 DEF OpTerminal
  <2> QED
    BY <1>2, <2>1, <2>2, <2>3 DEF Submit, SubmitLookup, RetryLookup, QueueSubmitConflict
<1>3. ASSUME NEW p \in Jobs, Executes(p)
      PROVE  op'[o].status \notin OpTerminal \ {"cancelled"}
  <2>1. OwnStep(p)
    BY <1>3, LooksOwn, StartOwn, ReportOwn, WorkOwn, EndOwn DEF Executes
  <2>2. CASE p # o
    BY <2>1, <2>2 DEF OwnStep, AtWork
  <2>3. CASE p = o
    BY <1>3, <2>3, ExecutesAtWork DEF AtWork, OpTerminal
  <2> QED
    BY <2>2, <2>3
<1>4. ASSUME NEW p \in Jobs, CancelOpCommit(p)
      PROVE  op'[o].status \notin OpTerminal \ {"cancelled"}
  <2>1. exec' = exec /\ op'[o].status \in {op[o].status, "cancelled"}
    BY <1>1, <1>4 DEF CancelOpCommit, OpTypes, OpRow
  <2> QED
    BY <2>1 DEF AtWork
<1>5. CASE /\ op' = op
           /\ QueueMoves \/ \E p \in Jobs : HandlerAnswers(p)
  <2>1. \A S : End(S) => exec'[o] = exec[o] \/ exec'[o].pc = "ended"
    BY <1>1, EndEffect
  <2>2. exec'[o] = exec[o] \/ exec'[o].pc = "ended"
    BY <1>5, <2>1 DEF QueueMoves, QueueClaims, QueueStarts, WorkerDies, RunAborts,
       PayloadRefused, RequestDies, opVars, HandlerAnswers
  <2>3. "ended" \notin Executing \cup {"none"}
    BY DEF Executing
  <2> QED
    BY <1>5, <2>2, <2>3 DEF AtWork
<1>6. CASE op' = op /\ exec' = exec
  BY <1>6 DEF AtWork
<1>7. \A p \in Jobs : CancelOpRead(p) \/ CancelOpReadJob(p) => op' = op /\ exec' = exec
  BY DEF CancelOpRead, CancelOpReadJob
<1>8. /\ QueueMoves => op' = op
      /\ \A p \in Jobs : HandlerAnswers(p) => op' = op
      /\ UNCHANGED allVars => op' = op /\ exec' = exec
  BY DEF QueueMoves, QueueClaims, QueueStarts, WorkerDies, RunAborts,
     PayloadRefused, RequestDies, opVars,
     HandlerAnswers, allVars
<1> QED
  BY <1>2, <1>3, <1>4, <1>5, <1>6, <1>7, <1>8, StepKinds DEF CancelStep

LEMMA OutcomeStep ==
    ASSUME OpInv, AtWork, [CalmStep \/ FaultStep]_allVars, NEW o \in Jobs,
           op[o].status \in OpTerminal, op'[o].status # op[o].status
    PROVE  "cancelled" \in {op[o].status, op'[o].status}
<1>1. OpTypes /\ Linked(o)
  BY DEF OpInv
<1>2. ASSUME NEW p \in Jobs, Submit(p) PROVE FALSE
  <2>1. request[p].pc # "answered" /\ \A q \in Jobs \ {p} : op'[q] = op[q]
    BY <1>1, <1>2 DEF Submit, SubmitLookup, RetryLookup, QueueSubmit, QueueSubmitLinked,
       QueueSubmitConflict, SyncSubmit, Queued, OpTypes
  <2> QED
    BY <1>1, <2>1 DEF Linked, OpTerminal
<1>3. ASSUME NEW p \in Jobs, CancelOpCommit(p) PROVE op'[o].status = "cancelled"
  BY <1>1, <1>3 DEF CancelOpCommit, OpTypes, OpRow
<1>4. ASSUME NEW p \in Jobs, Executes(p) PROVE op[o].status = "cancelled"
  <2>1. p = o
    BY <1>4, LooksOwn, StartOwn, ReportOwn, WorkOwn, EndOwn DEF Executes, OwnStep
  <2> QED
    BY <1>4, <2>1, ExecutesAtWork DEF AtWork
<1> QED
  BY <1>2, <1>3, <1>4, RowStep

(* An outcome other than a cancellation stands until a cancellation decided *)
(* before it is written: no executor records two outcomes of its own.       *)
THEOREM OutcomeRewrites == OpSpec => OutcomesStand
<1>1. OpInit => AtWork
  BY DEF OpInit, AtWork, NoOp, OpTerminal
<1>2. OpInv /\ AtWork /\ [CalmStep \/ FaultStep]_allVars => AtWork'
  BY AtWorkStep
<1>3. OpInv /\ AtWork /\ [CalmStep \/ FaultStep]_allVars
        => [\A o \in Jobs :
              op[o].status \in OpTerminal /\ op'[o].status # op[o].status
                 => "cancelled" \in {op[o].status, op'[o].status}]_allVars
  BY OutcomeStep
<1> QED
  BY <1>1, <1>2, <1>3, OpInvHolds, PTL DEF OpSpec, OutcomesStand

-----------------------------------------------------------------------------
(* Submissions of a key one after the other.                               *)

\* What a step creates is a row for what was asked for.
CreatesFor(o) ==
    /\ request[o].pc = "creating" /\ request'[o].pc = "answered"
    /\ op[o].status = "absent"
    /\ op'[o].key = request[o].key
    /\ \/ op'[o].status = "pending" /\ op'[o].link \in {o} \cup JobsWithKey(request[o].key)
       \/ op'[o].status = "running" /\ op'[o].link = NoLink

LEMMA SameOrCreated ==
    ASSUME OpInv, [CalmStep \/ FaultStep]_allVars, NEW o \in Jobs
    PROVE  \/ CreatesFor(o)
           \/ /\ op'[o].key = op[o].key /\ op'[o].link = op[o].link
              /\ op'[o].status = "absent" <=> op[o].status = "absent"
              /\ op'[o].status = "pending" => op[o].status = "pending"
<1>1. OpTypes /\ \A p \in Jobs : Linked(p) /\ op[p] \in OpRow
  BY DEF OpInv, OpTypes
<1>2. ASSUME NEW p \in Jobs, Submit(p), op'[o] # op[o] PROVE CreatesFor(o)
  <2>1. QueueSubmit(p) \/ QueueSubmitLinked(p) \/ SyncSubmit(p)
    BY <1>2 DEF Submit, SubmitLookup, RetryLookup, QueueSubmitConflict
  <2>2. \E row : op' = [op EXCEPT ![p] = row]
    BY <2>1 DEF QueueSubmit, QueueSubmitLinked, SyncSubmit, Queued
  <2>3. /\ QueueSubmit(p) \/ QueueSubmitLinked(p) \/ SyncSubmit(p)
        /\ p = o
    BY <1>1, <1>2, <2>1, <2>2 DEF OpTypes
  <2>4. request[o].pc = "creating" /\ request'[o].pc = "answered"
    <3>1. request[o].pc = "creating" /\ Answered(o)
      BY <2>3 DEF QueueSubmit, QueueSubmitLinked, SyncSubmit
    <3> QED
      BY <1>1, <3>1 DEF Answered, OpTypes
  <2>5. op[o].status = "absent"
    BY <1>1, <2>4 DEF Linked
  <2>6. /\ op'[o].key = request[o].key
        /\ \/ op'[o].status = "pending" /\ op'[o].link \in {o} \cup JobsWithKey(request[o].key)
           \/ op'[o].status = "running" /\ op'[o].link = NoLink
    <3>1. CASE QueueSubmit(o)
      BY <1>1, <3>1 DEF QueueSubmit, Queued, OpTypes
    <3>2. CASE QueueSubmitLinked(o)
      BY <1>1, <3>2 DEF QueueSubmitLinked, Queued, OpTypes
    <3>3. CASE SyncSubmit(o)
      BY <1>1, <3>3 DEF SyncSubmit, OpTypes
    <3> QED
      BY <2>3, <3>1, <3>2, <3>3
  <2> QED
    BY <2>4, <2>5, <2>6 DEF CreatesFor
<1>3. ASSUME NEW p \in Jobs, NEW s \in {"running"} \cup OpTerminal,
             op[p].status # "absent", op' = [op EXCEPT ![p].status = s]
      PROVE  /\ op'[o].key = op[o].key /\ op'[o].link = op[o].link
             /\ op'[o].status = "absent" <=> op[o].status = "absent"
             /\ op'[o].status = "pending" => op[o].status = "pending"
  <2>1. op'[o] = IF o = p THEN [op[o] EXCEPT !.status = s] ELSE op[o]
    BY <1>1, <1>3 DEF OpTypes
  <2>2. s \notin {"absent", "pending"}
    BY DEF OpTerminal
  <2> QED
    BY <1>1, <1>3, <2>1, <2>2 DEF OpRow
<1>4. ASSUME NEW p \in Jobs, CancelOpCommit(p)
      PROVE  op[p].status # "absent" /\ op' = [op EXCEPT ![p].status = "cancelled"]
  BY <1>1, <1>4 DEF CancelOpCommit, CancelJobToo, Linked, Untouched
<1>5. \A p \in Jobs : Executes(p) => op[p].status # "absent"
  BY ExecutesOwn
<1>6. "cancelled" \in OpTerminal
  BY DEF OpTerminal
<1> QED
  BY <1>2, <1>3, <1>4, <1>5, <1>6, RowStep

(* A submission is between lookup and insert because it was, or because it *)
(* has just found that nobody has its key.                                 *)
LEMMA CreatingStep ==
    ASSUME OpInv, [CalmStep \/ FaultStep]_allVars, NEW o \in Jobs,
           request'[o].pc = "creating"
    PROVE  request'[o] = request[o] \/ (~HasKey(request'[o].key) /\ op' = op)
<1>1. OpTypes
  BY DEF OpInv
<1>2. ASSUME NEW p \in Jobs, Submit(p)
      PROVE  request'[o] = request[o] \/ (~HasKey(request'[o].key) /\ op' = op)
  <2>1. CASE QueueSubmit(p) \/ QueueSubmitLinked(p) \/ QueueSubmitConflict(p) \/ SyncSubmit(p)
    <3>1. Answered(p)
      BY <2>1 DEF QueueSubmit, QueueSubmitLinked, QueueSubmitConflict, SyncSubmit
    <3> QED
      BY <1>1, <3>1 DEF Answered, OpTypes
  <2>2. ASSUME NEW k \in Keys \cup {NoKey},
               SubmitLookup(p, k) \/ \E source \in Jobs : RetryLookup(p, source, k)
        PROVE  request'[o] = request[o] \/ (~HasKey(request'[o].key) /\ op' = op)
    <3>1. SubmitLookup(p, k)
      BY <2>2 DEF RetryLookup
    <3> QED
      BY <1>1, <3>1 DEF SubmitLookup, OpTypes
  <2> QED
    BY <1>2, <2>1, <2>2 DEF Submit
<1>3. ASSUME ~ \E p \in Jobs : Submit(p)
      PROVE  request' = request
  <2>1. \A p \in Jobs : Executes(p) => request' = request
    BY LooksOwn, StartOwn, ReportOwn, WorkOwn, EndOwn DEF Executes, OwnStep
  <2> QED
    BY <1>3, <2>1, StepKinds DEF QueueMoves, QueueClaims, QueueStarts, WorkerDies, RunAborts,
       PayloadRefused, RequestDies, opVars, HandlerAnswers, CancelOpRead, CancelStep,
       CancelOpReadJob,
       CancelOpCommit, allVars
<1> QED
  BY <1>2, <1>3

\* A key is held by one operation or by one submission that found it free, and
\* an operation's job is its own.
KeysKept ==
    /\ \A o \in Jobs : request[o].pc = "creating" => ~HasKey(request[o].key)
    /\ OneOperationPerKey
    /\ \A o \in Jobs : op[o].link \in {o, NoLink}
    /\ \A o \in Jobs : op[o].status = "pending" => op[o].link # NoLink

LEMMA KeysStep ==
    ASSUME OpInv, KeysKept, OneSubmissionPerKey, [CalmStep \/ FaultStep]_allVars
    PROVE  KeysKept'
<1>0. /\ \A o \in Jobs : op[o].key \in Keys \cup {NoKey}
      /\ \A o \in Jobs : Linked(o)
      /\ NoLink \notin Jobs
  BY OperationsAssumption DEF OpInv, OpTypes, OpRow
<1>1. ASSUME NEW o \in Jobs, request'[o].pc = "creating",
             request'[o].key # NoKey, NEW p \in Jobs,
             op'[p].status # "absent", op'[p].key = request'[o].key
      PROVE  FALSE
  <2>1. request'[o] = request[o] \/ (~HasKey(request'[o].key) /\ op' = op)
    BY <1>1, CreatingStep
  <2>2. ~HasKey(request'[o].key)
    BY <1>1, <2>1 DEF KeysKept
  <2>3. CreatesFor(p)
    BY <1>1, <2>2, SameOrCreated DEF HasKey
  <2>4. request'[o] = request[o]
    BY <1>1, <2>1, <2>2, <2>3 DEF HasKey
  <2>5. p = o
    BY <1>1, <2>3, <2>4 DEF CreatesFor, OneSubmissionPerKey
  <2> QED
    BY <1>1, <2>3, <2>5 DEF CreatesFor
<1>2. \A o \in Jobs : request'[o].pc = "creating" => ~HasKey(request[o].key)'
  BY <1>1 DEF HasKey
<1>3. ASSUME NEW o \in Jobs, NEW p \in Jobs, op'[o].key # NoKey, op'[o].key = op'[p].key,
             op'[o].status # "absent", op'[p].status # "absent", o # p
      PROVE  FALSE
  <2>1. ASSUME NEW q \in Jobs, NEW r \in Jobs, CreatesFor(q), ~CreatesFor(r),
               op'[q].key # NoKey, op'[q].key = op'[r].key, op'[r].status # "absent"
        PROVE  FALSE
    BY <2>1, SameOrCreated DEF CreatesFor, KeysKept, HasKey
  <2>2. CASE CreatesFor(o) /\ CreatesFor(p)
    BY <1>3, <2>2 DEF CreatesFor, OneSubmissionPerKey
  <2>3. CASE ~CreatesFor(o) /\ ~CreatesFor(p)
    BY <1>3, <2>3, SameOrCreated DEF KeysKept, OneOperationPerKey
  <2> QED
    BY <1>3, <2>1, <2>2, <2>3
<1>4. OneOperationPerKey'
  BY <1>3 DEF OneOperationPerKey
<1>5. ASSUME NEW o \in Jobs
      PROVE  op'[o].link \in {o, NoLink} /\ (op'[o].status = "pending" => op'[o].link # NoLink)
  <2>1. CASE CreatesFor(o)
    <3>1. ~HasKey(request[o].key)
      BY <2>1 DEF CreatesFor, KeysKept
    <3>2. JobsWithKey(request[o].key) = {}
      BY <1>0, <3>1 DEF JobsWithKey, HasKey, Linked, Untouched
    <3> QED
      BY <1>0, <2>1, <3>2 DEF CreatesFor
  <2>2. CASE ~CreatesFor(o)
    BY <2>2, SameOrCreated DEF KeysKept
  <2> QED
    BY <2>1, <2>2
<1> QED
  BY <1>2, <1>4, <1>5 DEF KeysKept

LEMMA SerialKeys == OpSpec /\ []OneSubmissionPerKey => []KeysKept
<1>1. OpInit => KeysKept
  BY OperationsAssumption
     DEF OpInit, NoOp, KeysKept, HasKey, OneOperationPerKey
<1>2. OpInv /\ KeysKept /\ OneSubmissionPerKey /\ [CalmStep \/ FaultStep]_allVars => KeysKept'
  BY KeysStep
<1> QED
  BY <1>1, <1>2, OpInvHolds, PTL DEF OpSpec

(* The finding about idempotency keys needs two submissions of a key at    *)
(* once: one after the other, they never create a second operation.        *)
THEOREM SerialKeysAreUnique == OpSpec /\ []OneSubmissionPerKey => []OneOperationPerKey
<1>1. KeysKept => OneOperationPerKey
  BY DEF KeysKept
<1> QED
  BY <1>1, SerialKeys, PTL

(* Then no operation waits for another's job: while it is pending its own  *)
(* job has yet to run, is running, or was given up for a cut payload.      *)
THEOREM SerialPendingLives == OpSpec /\ []OneSubmissionPerKey => []PendingOwnsLiveJob
<1>1. OpInv /\ KeysKept => PendingOwnsLiveJob
  <2> SUFFICES ASSUME OpInv, KeysKept, NEW o \in Jobs, op[o].status = "pending"
               PROVE  OwnsJob(o) /\ LiveOrCut(o)
    BY DEF PendingOwnsLiveJob
  <2>1. OwnsJob(o)
    BY OperationsAssumption DEF KeysKept, OwnsJob
  <2> QED
    BY <2>1 DEF OpInv, PendingHasLiveJob
<1> QED
  BY <1>1, SerialKeys, OpInvHolds, PTL

-----------------------------------------------------------------------------
(* Operations whose payload was cut.                                       *)

(* A status written leaves the rest of the row.                            *)
LEMMA StatusWritten ==
    ASSUME OpTypes, NEW p \in Jobs, NEW s, op' = [op EXCEPT ![p].status = s], NEW o \in Jobs
    PROVE  op'[o].cut = op[o].cut /\ op'[o].status \in {op[o].status, s}
<1> DEFINE row == [op[p] EXCEPT !.status = s]
<1>1. op[p] \in OpRow
  BY DEF OpTypes
<1>2. row.cut = op[p].cut /\ row.status = s
  BY <1>1 DEF OpRow
<1>3. op' = [op EXCEPT ![p] = row]
  OBVIOUS
<1> HIDE DEF row
<1> QED
  BY <1>2, <1>3 DEF OpTypes

(* No executor starts on one, so none writes its row.                      *)
LEMMA CutStep ==
    ASSUME OpInv, CutNeverRuns, [CalmStep \/ FaultStep]_allVars, NEW o \in Jobs, op'[o].cut
    PROVE  /\ op'[o].status \in {"pending", "cancelled"}
           /\ exec'[o].pc \in {"none", "ended"}
<1>1. OpTypes /\ op[o] \in OpRow
  BY DEF OpInv, OpTypes
<1>2. CASE op'[o] = op[o] /\ exec'[o].pc \in {exec[o].pc, "ended"}
  BY <1>2 DEF CutNeverRuns
<1>3. ASSUME NEW p \in Jobs, Executes(p)
      PROVE  op'[o] = op[o] /\ exec'[o].pc \in {exec[o].pc, "ended"}
  <2>1. OwnStep(p)
    BY <1>3, LooksOwn, StartOwn, ReportOwn, WorkOwn, EndOwn DEF Executes
  <2>2. CASE p # o
    BY <2>1, <2>2 DEF OwnStep
  <2>3. CASE p = o
    <3>1. ~op[o].cut
      BY <1>3, <2>3 DEF CutNeverRuns, Executes, ExecLoad, ExecStart, ExecAdmit, ExecReport,
         ExecCheck, ExecWork, ExecFinish, ExecFail
    <3>2. op'[o].cut = op[o].cut
      <4>1. op' = op \/ \E s : op' = [op EXCEPT ![o].status = s]
        BY <1>3, <2>3 DEF Executes, ExecLoad, ExecStart, ExecAdmit, ExecReport, ExecCheck,
           ExecWork, ExecFinish, ExecFail, RowAndCopy
      <4> QED
        BY <1>1, <4>1, StatusWritten
    <3> QED
      BY <3>1, <3>2
  <2> QED
    BY <2>2, <2>3
<1>4. ASSUME NEW p \in Jobs, Submit(p)
      PROVE  /\ op'[o].status \in {"pending", "cancelled"}
             /\ exec'[o].pc \in {"none", "ended"}
  <2>1. CASE QueueSubmit(p) \/ QueueSubmitLinked(p)
    <3>1. UNCHANGED exec /\ \E q, cut : Queued(p, q, cut)
      BY <2>1 DEF QueueSubmit, QueueSubmitLinked
    <3>2. p = o => exec[o].pc = "none" /\ op'[o].status = "pending"
      BY <1>1, <2>1, <3>1
         DEF OpInv, Linked, Untouched, QueueSubmit, QueueSubmitLinked, Queued, OpTypes
    <3>3. p # o => op'[o] = op[o]
      BY <1>1, <3>1 DEF Queued, OpTypes
    <3> QED
      BY <1>2, <3>1, <3>2, <3>3
  <2>2. CASE SyncSubmit(p)
    <3>1. p # o /\ op'[o] = op[o] /\ exec'[o] = exec[o]
      BY <1>1, <2>2 DEF SyncSubmit, OpTypes
    <3> QED
      BY <1>2, <3>1
  <2>3. CASE UNCHANGED <<op, exec>>
    BY <1>2, <2>3
  <2> QED
    BY <1>4, <2>1, <2>2, <2>3 DEF Submit, SubmitLookup, RetryLookup, QueueSubmitConflict
<1>5. ASSUME NEW p \in Jobs, CancelOpRead(p) \/ CancelStep(p)
      PROVE  /\ op'[o].status \in {"pending", "cancelled"}
             /\ exec'[o].pc \in {"none", "ended"}
  <2>1. exec' = exec /\ (op' = op \/ op' = [op EXCEPT ![p].status = "cancelled"])
    BY <1>5 DEF CancelOpRead, CancelStep, CancelOpReadJob, CancelOpCommit
  <2>2. op'[o].cut = op[o].cut /\ op'[o].status \in {op[o].status, "cancelled"}
    <3>1. CASE op' = op
      BY <3>1
    <3>2. CASE op' = [op EXCEPT ![p].status = "cancelled"]
      BY <1>1, <3>2, StatusWritten
    <3> QED
      BY <2>1, <3>1, <3>2
  <2> QED
    BY <2>1, <2>2 DEF CutNeverRuns
<1>6. ASSUME NEW S, End(S) PROVE exec'[o].pc \in {exec[o].pc, "ended"}
  BY <1>1, <1>6, EndEffect
<1>7. ASSUME NEW p \in Jobs, HandlerAnswers(p)
      PROVE  op'[o] = op[o] /\ exec'[o].pc \in {exec[o].pc, "ended"}
  BY <1>6, <1>7 DEF HandlerAnswers
<1>8. CASE QueueMoves
  BY <1>2, <1>6, <1>8 DEF QueueMoves, QueueClaims, QueueStarts, WorkerDies, RunAborts,
     PayloadRefused, RequestDies, opVars
<1>9. CASE UNCHANGED allVars
  BY <1>2, <1>9 DEF allVars, opVars
<1> QED
  BY <1>2, <1>3, <1>4, <1>5, <1>7, <1>8, <1>9, StepKinds

(* An import or an enrichment that is queued with a payload over the limit *)
(* does not run (the docs have it "update operation progress and counters  *)
(* as the worker runs", apps/api/docs/equity-data.md:126-127): no worker,  *)
(* however often it polls, takes it out of pending.                        *)
THEOREM CutPayloadNeverRuns == OpSpec => []CutNeverRuns
<1>1. OpInit => CutNeverRuns
  BY DEF OpInit, NoOp, CutNeverRuns
<1>2. OpInv /\ CutNeverRuns /\ [CalmStep \/ FaultStep]_allVars => CutNeverRuns'
  BY CutStep DEF CutNeverRuns
<1> QED
  BY <1>1, <1>2, OpInvHolds, PTL DEF OpSpec

-----------------------------------------------------------------------------
(* Operations that nobody executes.                                        *)

(* No step executes an orphan or writes its row.                           *)
LEMMA OrphanKept ==
    ASSUME OpInv, [CalmStep \/ FaultStep]_allVars, NEW o \in Jobs, Orphaned(o)
    PROVE  op'[o] = op[o] /\ exec'[o].pc \in {exec[o].pc, "ended"}
<1>1. /\ OpTypes /\ Linked(o)
      /\ op[o].status # "absent" /\ request[o].pc = "answered"
      /\ exec[o].pc \in {"none", "ended"}
  BY DEF OpInv, Linked, Orphaned
<1>2. ~Executes(o)
  <2>1. ASSUME ExecLoad(o) PROVE FALSE
    <3>1. job[o].status # "absent" /\ exec[o].pc = "none"
      BY <2>1, OneClaim DEF OpInv, ExecLoad
    <3> QED
      BY <1>1, <3>1 DEF Linked, Orphaned
  <2> QED
    BY <1>1, <2>1 DEF Executes, ExecStart, ExecAdmit, ExecReport, ExecCheck, ExecWork,
       ExecFinish, ExecFail, Executing
<1>3. ASSUME NEW p \in Jobs, Executes(p)
      PROVE  op'[o] = op[o] /\ exec'[o] = exec[o]
  BY <1>2, <1>3, LooksOwn, StartOwn, ReportOwn, WorkOwn, EndOwn DEF Executes, OwnStep
<1>4. ASSUME NEW p \in Jobs, Submit(p)
      PROVE  op'[o] = op[o] /\ exec'[o] = exec[o]
  BY <1>1, <1>4 DEF Submit, SubmitLookup, RetryLookup, QueueSubmit, QueueSubmitLinked,
     QueueSubmitConflict, SyncSubmit, Queued, OpTypes
<1>5. ASSUME NEW p \in Jobs, CancelOpRead(p) \/ CancelStep(p)
      PROVE  op'[o] = op[o] /\ exec'[o] = exec[o]
  BY <1>1, <1>5 DEF CancelOpRead, CancelStep, CancelOpReadJob, CancelOpCommit, CancelJobToo,
     OpTypes, Orphaned
<1>6. ASSUME NEW S, End(S) PROVE exec'[o].pc \in {exec[o].pc, "ended"}
  BY <1>1, <1>6, EndEffect
<1>7. ASSUME NEW p \in Jobs, HandlerAnswers(p)
      PROVE  op'[o] = op[o] /\ exec'[o].pc \in {exec[o].pc, "ended"}
  BY <1>6, <1>7 DEF HandlerAnswers
<1>8. CASE QueueMoves
  BY <1>6, <1>8 DEF QueueMoves, QueueClaims, QueueStarts, WorkerDies, RunAborts,
     PayloadRefused, RequestDies, opVars
<1>9. CASE UNCHANGED allVars
  BY <1>9 DEF allVars, opVars
<1> QED
  BY <1>3, <1>4, <1>5, <1>7, <1>8, <1>9, StepKinds

(* What a crash, an abort, a refused payload or a linked duplicate leaves  *)
(* open is for good: nothing but a request to cancel takes an orphan up.   *)
THEOREM OrphanedForGood == OpSpec => OrphansStay
<1>1. OpInv /\ [CalmStep \/ FaultStep]_allVars
        => [\A o \in Jobs : Orphaned(o) => Orphaned(o)' \/ stopping'[o] # "idle"]_allVars
  BY OrphanKept DEF Orphaned
<1> QED
  BY <1>1, OpInvHolds, PTL DEF OpSpec, OrphansStay

-----------------------------------------------------------------------------
(* Operations that are cancelled for good.                                 *)

LEMMA StoppedStep ==
    ASSUME OpInv, [CalmStep \/ FaultStep]_allVars, NEW o \in Jobs, Stopped(o)
    PROVE  Stopped(o)'
<1>1. /\ OpTypes /\ Linked(o) /\ request[o].pc = "answered"
      /\ op[o].status = "cancelled" /\ exec[o].pc \notin Executing
  BY DEF OpInv, Linked, Stopped
<1>2. op'[o].status = "cancelled"
  BY <1>1, RewriteStep
<1> SUFFICES exec'[o].pc \notin Executing
  BY <1>2 DEF Stopped
<1>3. ASSUME NEW p \in Jobs, Executes(p)
      PROVE  exec'[o].pc \notin Executing
  <2>1. CASE p # o
    BY <1>1, <1>3, <2>1, LooksOwn, StartOwn, ReportOwn, WorkOwn, EndOwn DEF Executes, OwnStep
  <2>2. CASE p = o
    <3>1. ExecLoad(o)
      BY <1>1, <1>3, <2>2 DEF Executes, ExecStart, ExecAdmit, ExecReport, ExecCheck,
         ExecWork, ExecFinish, ExecFail, Executing
    <3>2. EnsureNotCancelled(o, "start") /\ "start" \in Executing
      BY <3>1 DEF ExecLoad, Executing
    <3>3. exec'[o].pc = "returned"
      BY <1>1, <3>2, EnsureEffect
    <3> QED
      BY <3>3 DEF Executing
  <2> QED
    BY <2>1, <2>2
<1>4. ASSUME NEW p \in Jobs, Submit(p)
      PROVE  exec'[o] = exec[o]
  BY <1>1, <1>4 DEF Submit, SubmitLookup, RetryLookup, QueueSubmit, QueueSubmitLinked,
     QueueSubmitConflict, SyncSubmit, Queued, OpTypes
<1>5. ASSUME NEW p \in Jobs, CancelOpRead(p) \/ CancelStep(p)
      PROVE  exec'[o] = exec[o]
  BY <1>5 DEF CancelOpRead, CancelStep, CancelOpReadJob, CancelOpCommit
<1>6. ASSUME NEW S, End(S) PROVE exec'[o].pc \in {exec[o].pc, "ended"}
  BY <1>1, <1>6, EndEffect
<1>7. ASSUME NEW p \in Jobs, HandlerAnswers(p)
      PROVE  exec'[o].pc \in {exec[o].pc, "ended"}
  BY <1>6, <1>7 DEF HandlerAnswers
<1>8. ASSUME QueueMoves
      PROVE  exec'[o].pc \in {exec[o].pc, "ended"}
  BY <1>6, <1>8 DEF QueueMoves, QueueClaims, QueueStarts, WorkerDies, RunAborts,
     PayloadRefused, RequestDies, opVars
<1>9. ASSUME UNCHANGED allVars PROVE exec' = exec
  BY <1>9 DEF allVars, opVars
<1>10. "ended" \notin Executing
  BY DEF Executing
<1> QED
  BY <1>1, <1>3, <1>4, <1>5, <1>7, <1>8, <1>9, <1>10, StepKinds

(* A cancelled operation changes no more once its executor has stopped:    *)
(* what OnlyRacesRewriteCancelled lets an executor do, it does before.     *)
THEOREM CancelledForGood == OpSpec => StoppedStays
<1>1. OpInv /\ [CalmStep \/ FaultStep]_allVars
        => [\A o \in Jobs : Stopped(o) => Stopped(o)']_allVars
  BY StoppedStep
<1> QED
  BY <1>1, OpInvHolds, PTL DEF OpSpec, StoppedStays
=============================================================================
