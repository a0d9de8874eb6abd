--------------------------- MODULE JobQueueProofs ---------------------------
(***************************************************************************)
(* Proofs about JobQueue, for all jobs, workers and settings.              *)
(*                                                                         *)
(* First what the operators that compute a row do to it, then the type     *)
(* invariant, then Bookkeeping (every schedule) and Leased (schedules in   *)
(* which no run outlives its lock), from which the properties follow.      *)
(***************************************************************************)
EXTENDS JobQueue, TLAPS

\* What every outcome, and every cancellation, does to the row it writes.
Rewrites(old, new) ==
    /\ new \in Row
    /\ new.attempts = old.attempts
    /\ new.max = old.max
    /\ new.status = "absent" => old.status = "absent"

-----------------------------------------------------------------------------
(* A write by the ORM never touches the attempts, and sets the status      *)
(* unless the session believes it set already.                             *)
LEMMA WriteLemma ==
    ASSUME NEW row \in Row, NEW seen \in Snapshot, NEW s \in Statuses \ {"absent"}
    PROVE  /\ Rewrites(row, Write(row, seen, s))
           /\ Write(row, seen, s).availIn = row.availIn
           /\ Write(row, seen, s).status \in {row.status, s}
           /\ seen.status # s => Write(row, seen, s).status = s
BY DEF Row, Snapshot, Write, Rewrites, Statuses, Waiting, Terminal, Completed

LEMMA LoadedLemma ==
    ASSUME NEW row \in Row
    PROVE  Loaded(row) \in Snapshot /\ Loaded(row).attempts = row.attempts
BY DEF Row, Snapshot, Loaded

(* complete_job leaves no dead letter behind that was not there.           *)
LEMMA CompleteLemma ==
    ASSUME NEW row \in Row, NEW seen \in Snapshot, NEW s \in Completed
    PROVE  /\ Rewrites(row, CompleteJob(row, seen, s))
           /\ CompleteJob(row, seen, s).status \in {row.status, s}
<1>1. s \in Statuses \ {"absent"}
  BY DEF Statuses, Terminal, Completed, Waiting
<1>2. Rewrites(row, row)
  BY DEF Rewrites
<1> QED
  BY <1>1, <1>2, WriteLemma DEF CompleteJob

(* fail_job, the same.                                                     *)
LEMMA FailLemma ==
    ASSUME NEW row \in Row, NEW seen \in Snapshot
    PROVE  /\ Rewrites(row, FailJob(row, seen))
           /\ FailJob(row, seen).status \in {row.status, "failed"}
<1>1. "failed" \in Statuses \ {"absent"}
  BY DEF Statuses, Terminal, Completed, Waiting
<1>2. Rewrites(row, row)
  BY DEF Rewrites
<1> QED
  BY <1>1, <1>2, WriteLemma DEF FailJob

(* retry_job writes a dead letter only if the copy's attempts are used up. *)
LEMMA RetryLemma ==
    ASSUME NEW row \in Row, NEW seen \in Snapshot
    PROVE  /\ Rewrites(row, RetryJob(row, seen))
           /\ \/ RetryJob(row, seen).status \in {row.status, "retrying"}
              \/ seen.attempts >= row.max
<1>1. {"dead_letter", "retrying"} \subseteq Statuses \ {"absent"}
  BY DEF Statuses, Terminal, Completed, Waiting
<1>2. CASE seen.attempts >= row.max
  BY <1>1, <1>2, WriteLemma DEF RetryJob
<1>3. CASE ~(seen.attempts >= row.max)
  <2> DEFINE w == Write(row, seen, "retrying")
  <2>1. Rewrites(row, w) /\ w.status \in {row.status, "retrying"}
    BY <1>1, WriteLemma
  <2>2. BackoffTicks * seen.attempts \in Nat
    <3>1. BackoffTicks \in Nat /\ seen.attempts \in Nat
      BY ConstantsAssumption DEF Snapshot
    <3> QED
      BY <3>1
  <2>3. [w EXCEPT !.availIn = BackoffTicks * seen.attempts] \in Row
    BY <2>1, <2>2 DEF Row, Rewrites
  <2>4. RetryJob(row, seen) = [w EXCEPT !.availIn = BackoffTicks * seen.attempts]
    BY <1>3 DEF RetryJob
  <2> HIDE DEF w
  <2> QED
    BY <2>1, <2>3, <2>4 DEF Rewrites, Row
<1> QED
  BY <1>2, <1>3

(* The dispatcher's except branch dead-letters a row only when its copy,   *)
(* or the row itself, has used up the attempts.                            *)
LEMMA RaisedLemma ==
    ASSUME NEW row \in Row, NEW seen \in Snapshot, seen.attempts <= row.attempts
    PROVE  /\ Rewrites(row, HandlerRaised(row, seen))
           /\ \/ HandlerRaised(row, seen).status # "dead_letter"
              \/ row.status = "dead_letter"
              \/ row.attempts >= row.max
<1>0. Rewrites(row, row)
  BY DEF Rewrites
<1>1. CASE seen.attempts >= row.max
  <2>1. "dead_letter" \in Statuses \ {"absent"}
    BY DEF Statuses, Terminal, Completed, Waiting
  <2>2. Rewrites(row, MoveToDeadLetter(row, seen))
    BY <1>0, <2>1, WriteLemma DEF MoveToDeadLetter
  <2>3. row.attempts >= row.max
    BY <1>1, ConstantsAssumption DEF Row, Snapshot, Claims
  <2> QED
    BY <1>1, <2>2, <2>3 DEF HandlerRaised
<1>2. CASE ~(seen.attempts >= row.max) /\ seen.status \in Terminal \ {"failed"}
  BY <1>2, RetryLemma DEF HandlerRaised
<1>3. CASE ~(seen.attempts >= row.max) /\ seen.status \notin Terminal \ {"failed"}
  <2> DEFINE failed == FailJob(row, seen)
  <2>1. Rewrites(row, failed) /\ failed.status \in {row.status, "failed"}
    BY FailLemma
  <2>2. failed \in Row
    BY <2>1 DEF Rewrites
  <2>3. Loaded(failed) \in Snapshot /\ Loaded(failed).attempts = row.attempts
    BY <2>1, <2>2, LoadedLemma DEF Rewrites
  <2>4. HandlerRaised(row, seen) = RetryJob(failed, Loaded(failed))
    BY <1>3 DEF HandlerRaised
  <2> HIDE DEF failed
  <2>5. /\ Rewrites(failed, RetryJob(failed, Loaded(failed)))
        /\ \/ RetryJob(failed, Loaded(failed)).status \in {failed.status, "retrying"}
           \/ Loaded(failed).attempts >= failed.max
    BY <2>2, <2>3, RetryLemma
  <2> QED
    BY <2>1, <2>3, <2>4, <2>5 DEF Rewrites
<1> QED
  BY <1>1, <1>2, <1>3

-----------------------------------------------------------------------------
(* Types.                                                                  *)

LEMMA RunTypes ==
    /\ NoRun \in Run /\ Ended \in Run
    /\ \A r \in Run, pc \in {"checked", "handling"}, pin \in BOOLEAN, seen \in Snapshot :
         /\ [r EXCEPT !.pc = pc] \in Run
         /\ [r EXCEPT !.pin = pin] \in Run
         /\ [r EXCEPT !.pc = pc, !.pin = pin, !.seen = seen] \in Run
    /\ \A w \in Workers :
         [NoRun EXCEPT !.pc = "claimed", !.by = w, !.lease = LockTicks] \in Run
<1>1. Loaded(NoJob) \in Snapshot
  <2>1. 0 \in 0..MaxAttempts
    BY ConstantsAssumption
  <2> QED
    BY <2>1 DEF Loaded, NoJob, Snapshot, Statuses
<1>2. LockTicks \in Nat
  BY ConstantsAssumption
<1>3. NoRun \in Run /\ Ended \in Run
  BY <1>1 DEF NoRun, Ended, Run, Active
<1>4. ASSUME NEW r \in Run, NEW pc \in {"checked", "handling"}, NEW pin \in BOOLEAN,
             NEW seen \in Snapshot
      PROVE  /\ [r EXCEPT !.pc = pc] \in Run
             /\ [r EXCEPT !.pin = pin] \in Run
             /\ [r EXCEPT !.pc = pc, !.pin = pin, !.seen = seen] \in Run
  BY DEF Run, Active
<1>5. ASSUME NEW w \in Workers
      PROVE  [NoRun EXCEPT !.pc = "claimed", !.by = w, !.lease = LockTicks] \in Run
  BY <1>1, <1>2 DEF NoRun, Run, Active
<1> QED
  BY <1>3, <1>4, <1>5

(* A run that ends with row `row' keeps the types.                         *)
LEMMA FinishType ==
    ASSUME TypeOK, NEW j \in Jobs, NEW n \in Claims, NEW row \in Row, Finish(j, n, row)
    PROVE  TypeOK'
<1>1. job' \in [Jobs -> Row]
  BY DEF TypeOK, Finish
<1>2. run' \in [Jobs -> [Claims -> Run]]
  BY RunTypes DEF TypeOK, Finish
<1>3. awaited' \in [Workers -> SUBSET (Jobs \X Claims)]
  BY DEF TypeOK, Finish
<1> QED
  BY <1>1, <1>2, <1>3 DEF TypeOK, Finish

(* What a run's outcome computes from its copy is a row.                   *)
LEMMA OutcomeRows ==
    ASSUME TypeOK, NEW j \in Jobs, NEW n \in Claims
    PROVE  /\ job[j] \in Row /\ run[j][n].seen \in Snapshot
           /\ \A s \in Completed : CompleteJob(job[j], run[j][n].seen, s) \in Row
           /\ FailJob(job[j], run[j][n].seen) \in Row
           /\ run[j][n].seen.attempts <= job[j].attempts
                => HandlerRaised(job[j], run[j][n].seen) \in Row
<1>1. job[j] \in Row /\ run[j][n].seen \in Snapshot
  BY DEF TypeOK, Run
<1> QED
  BY <1>1, CompleteLemma, FailLemma, RaisedLemma DEF Rewrites

-----------------------------------------------------------------------------
(* Bookkeeping: what holds in every schedule, overrunning runs included.   *)

\* A row that was never created was never claimed.
Unclaimed == \A j \in Jobs : job[j].status = "absent" => job[j].attempts = 0

\* A run's copy never counts more attempts than the row.
CopiesBehind ==
    \A j \in Jobs, n \in Claims :
        run[j][n].pc = "handling" => run[j][n].seen.attempts <= job[j].attempts

\* The statuses a cancel request may have read.
CancelsWereOpen ==
    \A j \in Jobs : \A seen \in cancelling[j] : seen.status \notin Terminal

Bookkeeping ==
    /\ TypeOK
    /\ AttemptsCountClaims
    /\ Unclaimed
    /\ CopiesBehind
    /\ CancelsWereOpen
    /\ DeadLetterMeansExhausted

LEMMA InitBookkeeping == Init => Bookkeeping
<1> SUFFICES ASSUME Init PROVE Bookkeeping
  OBVIOUS
<1>1. NoJob \in Row
  BY ConstantsAssumption DEF NoJob, Row, Statuses, Claims
<1>2. TypeOK
  BY <1>1, RunTypes DEF Init, TypeOK
<1>3. \A j \in Jobs, n \in Claims : job[j] = NoJob /\ run[j][n] = NoRun
  BY DEF Init
<1>4. AttemptsCountClaims
  BY <1>3, ConstantsAssumption DEF AttemptsCountClaims, NoJob, NoRun, Claims
<1> QED
  BY <1>2, <1>3, <1>4 DEF Bookkeeping, Unclaimed, CopiesBehind, CancelsWereOpen,
     DeadLetterMeansExhausted, NoJob, NoRun, Init

(* A run that ends with row `new' keeps the books.                         *)
LEMMA FinishBookkeeping ==
    ASSUME Bookkeeping, NEW j \in Jobs, NEW n \in Claims, run[j][n].pc \in Active,
           NEW new, Finish(j, n, new), Rewrites(job[j], new),
           new.status = "dead_letter" =>
               job[j].status = "dead_letter" \/ job[j].attempts >= job[j].max
    PROVE  Bookkeeping'
<1> USE DEF Bookkeeping
<1>1. new \in Row /\ job[j] \in Row
  BY DEF Rewrites, TypeOK
<1>2. TypeOK'
  BY <1>1, FinishType
<1>3. /\ job'[j] = new
      /\ \A i \in Jobs \ {j} : job'[i] = job[i]
      /\ \A i \in Jobs : job'[i].attempts = job[i].attempts /\ job'[i].max = job[i].max
  BY DEF Finish, TypeOK, Rewrites
<1>4. /\ run'[j][n] = Ended
      /\ \A i \in Jobs, m \in Claims : <<i, m>> # <<j, n>> => run'[i][m] = run[i][m]
  BY DEF Finish, TypeOK
<1>5. \A i \in Jobs, m \in Claims : run'[i][m].pc = "none" <=> run[i][m].pc = "none"
  BY <1>4 DEF Ended, Active, NoRun
<1>6. AttemptsCountClaims'
  BY <1>3, <1>5 DEF AttemptsCountClaims
<1>7. Unclaimed'
  BY <1>3 DEF Unclaimed, Rewrites
<1>8. CopiesBehind'
  BY <1>3, <1>4 DEF CopiesBehind, Ended, NoRun
<1>9. CancelsWereOpen'
  BY DEF CancelsWereOpen, Finish
<1>10. DeadLetterMeansExhausted'
  <2>1. job[j].attempts >= job[j].max => job[j].attempts = job[j].max
    BY <1>1 DEF AttemptsCountClaims, Row, Claims
  <2> QED
    BY <1>3, <2>1 DEF DeadLetterMeansExhausted
<1> QED
  BY <1>2, <1>6, <1>7, <1>8, <1>9, <1>10

(* A step that changes one run alone, and neither creates nor forgets it.  *)
LEMMA RunOnlyBookkeeping ==
    ASSUME Bookkeeping, NEW j \in Jobs, NEW n \in Claims, run[j][n].pc # "none",
           NEW r \in Run, r.pc # "none", run' = [run EXCEPT ![j][n] = r],
           r.pc = "handling" => r.seen.attempts <= job[j].attempts,
           awaited' \in [Workers -> SUBSET (Jobs \X Claims)],
           UNCHANGED <<job, up, cancelling>>
    PROVE  Bookkeeping'
<1> USE DEF Bookkeeping
<1>1. TypeOK'
  BY DEF TypeOK
<1>2. /\ run'[j][n] = r
      /\ \A i \in Jobs, m \in Claims : <<i, m>> # <<j, n>> => run'[i][m] = run[i][m]
  BY DEF TypeOK
<1>3. AttemptsCountClaims'
  BY <1>2 DEF AttemptsCountClaims
<1>4. CopiesBehind'
  BY <1>2 DEF CopiesBehind
<1> QED
  BY <1>1, <1>3, <1>4 DEF Unclaimed, CancelsWereOpen, DeadLetterMeansExhausted

LEMMA EnqueueBookkeeping ==
    ASSUME Bookkeeping, NEW j \in Jobs, NEW max \in Claims, NEW delay \in Delays,
           EnqueueJob(j, max, delay)
    PROVE  Bookkeeping'
<1> USE DEF Bookkeeping
<1> DEFINE new == [NoJob EXCEPT !.status = IF delay > 0 THEN "scheduled" ELSE "pending",
                                !.max = max, !.availIn = delay]
<1>1. /\ new \in Row /\ new.attempts = 0 /\ new.status \notin {"absent", "dead_letter"}
      /\ new.max = max
  <2>1. 0 \in 0..MaxAttempts /\ delay \in Nat
    BY ConstantsAssumption
  <2> QED
    BY <2>1 DEF NoJob, Row, Statuses, Waiting
<1>2. job' = [job EXCEPT ![j] = new]
  BY DEF EnqueueJob
<1>3. /\ job[j].status = "absent" /\ job[j].attempts = 0
      /\ UNCHANGED <<run, awaited, up, cancelling>>
  BY DEF EnqueueJob, Unclaimed
<1> HIDE DEF new
<1>4. TypeOK'
  BY <1>1, <1>2, <1>3 DEF TypeOK
<1>5. job'[j] = new /\ \A i \in Jobs \ {j} : job'[i] = job[i]
  BY <1>2 DEF TypeOK
<1>6. \A i \in Jobs : job'[i].attempts = job[i].attempts
  BY <1>1, <1>3, <1>5
<1>7. AttemptsCountClaims'
  <2>1. new.attempts <= new.max
    BY <1>1 DEF Claims
  <2> QED
    BY <2>1, <1>3, <1>5, <1>6 DEF AttemptsCountClaims
<1>8. Unclaimed' /\ CopiesBehind' /\ CancelsWereOpen' /\ DeadLetterMeansExhausted'
  BY <1>1, <1>3, <1>5, <1>6 DEF Unclaimed, CopiesBehind, CancelsWereOpen,
     DeadLetterMeansExhausted
<1> QED
  BY <1>4, <1>7, <1>8

\* What a claim by w does to a row, and to the runs of its job.
Claimed(row, w) == [row EXCEPT !.status = "running", !.attempts = @ + 1,
                               !.lockedBy = w, !.lockLeft = LockTicks]
NewRun(w) == [NoRun EXCEPT !.pc = "claimed", !.by = w, !.lease = LockTicks]

(* The effect of a claim, item by item.                                    *)
LEMMA ClaimEffect ==
    ASSUME TypeOK, NEW w \in Workers, ClaimJobs(w)
    PROVE  \E S \in SUBSET Jobs :
             /\ \A j \in S :
                  /\ Claimable(j)
                  /\ job'[j] = Claimed(job[j], w)
                  /\ job[j].attempts + 1 \in Claims
                  /\ run'[j][job[j].attempts + 1] = NewRun(w)
                  /\ \A m \in Claims \ {job[j].attempts + 1} : run'[j][m] = run[j][m]
             /\ \A j \in Jobs \ S : job'[j] = job[j] /\ run'[j] = run[j]
             /\ UNCHANGED <<up, cancelling>>
             /\ TypeOK'
<1>1. PICK S \in SUBSET Jobs :
        /\ ClaimBatch(S)
        /\ job' = [j \in Jobs |-> IF j \in S THEN Claimed(job[j], w) ELSE job[j]]
        /\ run' = [j \in Jobs |->
                     IF j \in S
                     THEN [run[j] EXCEPT ![job[j].attempts + 1] = NewRun(w)]
                     ELSE run[j]]
        /\ awaited' = [awaited EXCEPT ![w] = {<<j, job[j].attempts + 1>> : j \in S}]
  BY DEF ClaimJobs, Claimed, NewRun
<1>2. UNCHANGED <<up, cancelling>>
  BY DEF ClaimJobs
<1>3. \A j \in S : Claimable(j)
  BY <1>1 DEF ClaimBatch
<1>4. ASSUME NEW j \in S
      PROVE  /\ job[j].attempts + 1 \in Claims
             /\ Claimed(job[j], w) \in Row
  <2>1. job[j] \in Row /\ job[j].attempts < job[j].max
    BY <1>3 DEF TypeOK, Claimable
  <2>2. job[j].attempts + 1 \in Claims /\ job[j].attempts + 1 \in 0..MaxAttempts
    BY <2>1, ConstantsAssumption DEF Row, Claims
  <2> QED
    BY <2>1, <2>2, ConstantsAssumption DEF Row, Claimed, Statuses
<1>5. NewRun(w) \in Run
  BY RunTypes DEF NewRun
<1>6. job' \in [Jobs -> Row] /\ run' \in [Jobs -> [Claims -> Run]]
  BY <1>1, <1>4, <1>5 DEF TypeOK
<1>7. awaited' \in [Workers -> SUBSET (Jobs \X Claims)]
  <2>1. {<<j, job[j].attempts + 1>> : j \in S} \subseteq Jobs \X Claims
    BY <1>4
  <2> QED
    BY <1>1, <2>1 DEF TypeOK
<1>8. TypeOK'
  BY <1>2, <1>6, <1>7 DEF TypeOK
<1>9. ASSUME NEW j \in S
      PROVE  /\ job'[j] = Claimed(job[j], w)
             /\ run'[j][job[j].attempts + 1] = NewRun(w)
             /\ \A m \in Claims \ {job[j].attempts + 1} : run'[j][m] = run[j][m]
  BY <1>1, <1>4 DEF TypeOK
<1>10. \A j \in Jobs \ S : job'[j] = job[j] /\ run'[j] = run[j]
  BY <1>1
<1> QED
  BY <1>2, <1>3, <1>4, <1>8, <1>9, <1>10

LEMMA ClaimBookkeeping ==
    ASSUME Bookkeeping, NEW w \in Workers, ClaimJobs(w)
    PROVE  Bookkeeping'
<1> USE DEF Bookkeeping
<1>1. PICK S \in SUBSET Jobs :
        /\ \A j \in S :
             /\ Claimable(j)
             /\ job'[j] = Claimed(job[j], w)
             /\ job[j].attempts + 1 \in Claims
             /\ run'[j][job[j].attempts + 1] = NewRun(w)
             /\ \A m \in Claims \ {job[j].attempts + 1} : run'[j][m] = run[j][m]
        /\ \A j \in Jobs \ S : job'[j] = job[j] /\ run'[j] = run[j]
        /\ UNCHANGED <<up, cancelling>>
        /\ TypeOK'
  BY ClaimEffect
<1>2. ASSUME NEW j \in S
      PROVE  /\ job'[j].attempts = job[j].attempts + 1 /\ job'[j].max = job[j].max
             /\ job'[j].status = "running"
             /\ job[j].attempts < job[j].max
             /\ job[j].attempts \in Nat /\ job[j].max \in Nat
  <2>1. job[j] \in Row /\ job[j].attempts < job[j].max
    BY <1>1 DEF Claimable, TypeOK
  <2>2. job'[j] = Claimed(job[j], w)
    BY <1>1
  <2> QED
    BY <2>1, <2>2 DEF Claimed, Row, Claims
<1>3. NewRun(w).pc = "claimed"
  BY DEF NewRun, NoRun
<1>4. AttemptsCountClaims'
  <2>1. ASSUME NEW j \in S
        PROVE  /\ job'[j].attempts <= job'[j].max
               /\ \A n \in Claims : run'[j][n].pc # "none" <=> n <= job'[j].attempts
    <3>1. \A n \in Claims : run[j][n].pc # "none" <=> n <= job[j].attempts
      BY DEF AttemptsCountClaims
    <3>2. ASSUME NEW n \in Claims
          PROVE  run'[j][n].pc # "none" <=> n <= job'[j].attempts
      <4>1. CASE n = job[j].attempts + 1
        BY <1>1, <1>2, <1>3, <4>1
      <4>2. CASE n # job[j].attempts + 1
        BY <1>1, <1>2, <3>1, <4>2 DEF Claims
      <4> QED
        BY <4>1, <4>2
    <3> QED
      BY <1>2, <3>2
  <2> QED
    BY <1>1, <2>1 DEF AttemptsCountClaims
<1>5. Unclaimed' /\ DeadLetterMeansExhausted' /\ CancelsWereOpen'
  BY <1>1, <1>2 DEF Unclaimed, DeadLetterMeansExhausted, CancelsWereOpen
<1>6. CopiesBehind'
  <2>1. ASSUME NEW j \in S, NEW n \in Claims, run'[j][n].pc = "handling"
        PROVE  run'[j][n].seen.attempts <= job'[j].attempts
    <3>1. run'[j][n] = run[j][n]
      BY <1>1, <1>3, <2>1
    <3>2. run[j][n].seen.attempts <= job[j].attempts /\ run[j][n].seen.attempts \in Nat
      BY <2>1, <3>1 DEF CopiesBehind, TypeOK, Run, Snapshot
    <3> QED
      BY <1>2, <3>1, <3>2
  <2> QED
    BY <1>1, <2>1 DEF CopiesBehind
<1> QED
  BY <1>1, <1>4, <1>5, <1>6

(* The steps of a run that write no row.                                   *)
LEMMA RunStepBookkeeping ==
    ASSUME Bookkeeping, NEW j \in Jobs, NEW n \in Claims,
           \/ StartCheck(j, n) \/ StartRefused(j, n) \/ StartRefresh(j, n)
           \/ HandlerCommit(j, n) \/ Abort(j, n)
    PROVE  Bookkeeping'
<1> USE DEF Bookkeeping
<1>1. /\ run[j][n] \in Run /\ job[j] \in Row /\ Loaded(job[j]) \in Snapshot
      /\ Loaded(job[j]).attempts = job[j].attempts
      /\ run \in [Jobs -> [Claims -> Run]]
      /\ job[j].attempts \in Nat
      /\ awaited \in [Workers -> SUBSET (Jobs \X Claims)]
  <2>1. run[j][n] \in Run /\ job[j] \in Row
    BY DEF TypeOK
  <2> QED
    BY <2>1, LoadedLemma DEF TypeOK, Row
<1>2. CASE StartCheck(j, n)
  <2> DEFINE r == [run[j][n] EXCEPT !.pc = "checked"]
  <2>1. r \in Run /\ r.pc = "checked"
    BY <1>1 DEF Run, Active
  <2>2. run' = [run EXCEPT ![j][n] = r]
    BY <1>1, <1>2 DEF StartCheck
  <2>3. run[j][n].pc = "claimed" /\ UNCHANGED <<job, awaited, up, cancelling>>
    BY <1>2 DEF StartCheck
  <2> HIDE DEF r, Bookkeeping
  <2> QED
    BY <1>1, <2>1, <2>2, <2>3, RunOnlyBookkeeping
<1>3. ASSUME run[j][n].pc \in Active, EscapesGather(j, n)
      PROVE  Bookkeeping'
  <2>1. Ended \in Run /\ Ended.pc = "ended"
    BY RunTypes DEF Ended, NoRun
  <2>2. awaited' \in [Workers -> SUBSET (Jobs \X Claims)]
    BY <1>1, <1>3 DEF EscapesGather
  <2> QED
    BY <1>3, <2>1, <2>2, RunOnlyBookkeeping DEF EscapesGather, Active
<1>4. CASE StartRefused(j, n)
  BY <1>3, <1>4 DEF StartRefused, Active
<1>5. CASE Abort(j, n)
  BY <1>3, <1>5 DEF Abort
<1>6. CASE StartRefresh(j, n)
  <2> DEFINE r == [run[j][n] EXCEPT !.pc = "handling", !.pin = TRUE,
                                    !.seen = Loaded(job[j])]
  <2>1. r \in Run /\ r.pc = "handling" /\ r.seen = Loaded(job[j])
    BY <1>1, RunTypes DEF Run
  <2>2. run' = [run EXCEPT ![j][n] = r]
    BY <1>1, <1>6 DEF StartRefresh
  <2>3. r.seen.attempts <= job[j].attempts
    BY <1>1, <2>1
  <2>4. run[j][n].pc = "checked" /\ UNCHANGED <<job, awaited, up, cancelling>>
    BY <1>6 DEF StartRefresh
  <2> HIDE DEF r, Bookkeeping
  <2> QED
    BY <1>1, <2>1, <2>2, <2>3, <2>4, RunOnlyBookkeeping
<1>7. CASE HandlerCommit(j, n)
  <2> DEFINE r == [run[j][n] EXCEPT !.pin = FALSE]
  <2>1. r \in Run /\ r.pc = "handling" /\ r.seen = run[j][n].seen
    BY <1>1, <1>7, RunTypes DEF Run, HandlerCommit
  <2>2. run' = [run EXCEPT ![j][n] = r]
    BY <1>1, <1>7 DEF HandlerCommit
  <2>3. r.seen.attempts <= job[j].attempts
    BY <1>7, <2>1 DEF CopiesBehind, HandlerCommit
  <2> HIDE DEF r
  <2> QED
    BY <1>1, <1>7, <2>1, <2>2, <2>3, RunOnlyBookkeeping DEF HandlerCommit
<1> QED
  BY <1>2, <1>4, <1>5, <1>6, <1>7

(* The steps that record an outcome.                                       *)
LEMMA OutcomeBookkeeping ==
    ASSUME Bookkeeping, NEW j \in Jobs, NEW n \in Claims,
           HandlerReturns(j, n) \/ HandlerRaises(j, n) \/ NoHandler(j, n)
    PROVE  Bookkeeping'
<1> DEFINE row == job[j]
           seen == run[j][n].seen
<1>1. /\ row \in Row /\ seen \in Snapshot
      /\ run[j][n].pc = "handling" /\ seen.attempts <= row.attempts
  BY OutcomeRows DEF Bookkeeping, CopiesBehind, HandlerReturns, HandlerRaises, NoHandler
<1>2. run[j][n].pc \in Active
  BY <1>1 DEF Active
<1>3. CASE HandlerReturns(j, n)
  <2>1. PICK s \in Completed : Finish(j, n, CompleteJob(row, seen, s))
    BY <1>3 DEF HandlerReturns
  <2>2. /\ Rewrites(row, CompleteJob(row, seen, s))
        /\ CompleteJob(row, seen, s).status \in {row.status, s}
    BY <1>1, CompleteLemma
  <2>3. s # "dead_letter"
    BY DEF Completed
  <2> HIDE DEF row, seen
  <2> QED
    BY <1>2, <2>1, <2>2, <2>3, FinishBookkeeping DEF row
<1>4. CASE HandlerRaises(j, n)
  <2>1. Finish(j, n, HandlerRaised(row, seen))
    BY <1>4 DEF HandlerRaises
  <2>2. /\ Rewrites(row, HandlerRaised(row, seen))
        /\ \/ HandlerRaised(row, seen).status # "dead_letter"
           \/ row.status = "dead_letter"
           \/ row.attempts >= row.max
    BY <1>1, RaisedLemma
  <2> QED
    BY <1>2, <2>1, <2>2, FinishBookkeeping
<1>5. CASE NoHandler(j, n)
  <2>1. Finish(j, n, FailJob(row, seen))
    BY <1>5 DEF NoHandler
  <2>2. /\ Rewrites(row, FailJob(row, seen))
        /\ FailJob(row, seen).status \in {row.status, "failed"}
    BY <1>1, FailLemma
  <2> QED
    BY <1>2, <2>1, <2>2, FinishBookkeeping
<1> QED
  BY <1>3, <1>4, <1>5

LEMMA CrashBookkeeping ==
    ASSUME Bookkeeping, NEW w \in Workers, Crash(w)
    PROVE  Bookkeeping'
<1> USE DEF Bookkeeping
<1>1. \A j \in Jobs, n \in Claims :
        \/ run'[j][n] = run[j][n]
        \/ run[j][n].pc \in Active /\ run'[j][n] = Ended
  BY DEF Crash
<1>2. TypeOK'
  <2>1. run' \in [Jobs -> [Claims -> Run]]
    BY RunTypes DEF Crash, TypeOK
  <2> QED
    BY <2>1 DEF TypeOK, Crash
<1>3. \A j \in Jobs, n \in Claims : run'[j][n].pc = "none" <=> run[j][n].pc = "none"
  BY <1>1 DEF Active, Ended, NoRun
<1>4. AttemptsCountClaims'
  BY <1>3 DEF AttemptsCountClaims, Crash
<1>5. CopiesBehind'
  BY <1>1 DEF CopiesBehind, Crash, Ended, NoRun
<1> QED
  BY <1>2, <1>4, <1>5 DEF Unclaimed, CancelsWereOpen, DeadLetterMeansExhausted, Crash

LEMMA CancelReadBookkeeping ==
    ASSUME Bookkeeping, NEW j \in Jobs, CancelRead(j)
    PROVE  Bookkeeping'
<1> USE DEF Bookkeeping
<1>1. Loaded(job[j]) \in Snapshot /\ Loaded(job[j]).status \notin Terminal
  BY LoadedLemma DEF TypeOK, CancelRead, Loaded
<1>2. /\ cancelling' = [cancelling EXCEPT ![j] = {Loaded(job[j])}]
      /\ UNCHANGED <<job, run, awaited, up>>
  BY DEF CancelRead
<1>3. TypeOK'
  BY <1>1, <1>2 DEF TypeOK
<1>4. CancelsWereOpen'
  BY <1>1, <1>2 DEF CancelsWereOpen, TypeOK
<1> QED
  BY <1>2, <1>3, <1>4 DEF AttemptsCountClaims, Unclaimed, CopiesBehind,
     DeadLetterMeansExhausted

(* Reading the row before writing it makes the cancellation real: no       *)
(* request in flight takes the row for cancelled already.                  *)
LEMMA CancelWriteEffect ==
    ASSUME Bookkeeping, NEW j \in Jobs, CancelWrite(j)
    PROVE  /\ Rewrites(job[j], job'[j])
           /\ job'[j].status = "cancelled" /\ job'[j].availIn = job[j].availIn
           /\ \A i \in Jobs \ {j} : job'[i] = job[i]
           /\ job' \in [Jobs -> Row]
           /\ UNCHANGED <<run, awaited, up>>
           /\ cancelling' = [cancelling EXCEPT ![j] = {}]
<1>1. PICK seen \in cancelling[j] :
        job' = [job EXCEPT ![j] = Write(job[j], seen, "cancelled")]
  BY DEF CancelWrite
<1>2. /\ seen \in Snapshot /\ seen.status # "cancelled" /\ job[j] \in Row
      /\ job \in [Jobs -> Row]
  BY <1>1 DEF Bookkeeping, TypeOK, CancelsWereOpen, Terminal
<1>3. "cancelled" \in Statuses \ {"absent"}
  BY DEF Statuses, Terminal, Waiting, Completed
<1> DEFINE new == Write(job[j], seen, "cancelled")
<1>4. /\ Rewrites(job[j], new) /\ new.availIn = job[j].availIn
      /\ new.status = "cancelled"
  BY <1>2, <1>3, WriteLemma
<1>5. new \in Row
  BY <1>4 DEF Rewrites
<1> HIDE DEF new
<1> QED
  BY <1>1, <1>2, <1>4, <1>5 DEF CancelWrite, new

LEMMA CancelWriteBookkeeping ==
    ASSUME Bookkeeping, NEW j \in Jobs, CancelWrite(j)
    PROVE  Bookkeeping'
<1>1. /\ job'[j].attempts = job[j].attempts /\ job'[j].max = job[j].max
      /\ job'[j].status = "cancelled"
      /\ \A i \in Jobs \ {j} : job'[i] = job[i]
      /\ job' \in [Jobs -> Row]
      /\ UNCHANGED <<run, awaited, up>>
      /\ cancelling' = [cancelling EXCEPT ![j] = {}]
  BY CancelWriteEffect DEF Rewrites
<1>2. TypeOK'
  BY <1>1 DEF Bookkeeping, TypeOK
<1>3. CancelsWereOpen'
  BY <1>1 DEF Bookkeeping, TypeOK, CancelsWereOpen
<1>4. AttemptsCountClaims' /\ CopiesBehind'
  BY <1>1 DEF Bookkeeping, AttemptsCountClaims, CopiesBehind
<1>5. Unclaimed' /\ DeadLetterMeansExhausted'
  BY <1>1 DEF Bookkeeping, Unclaimed, DeadLetterMeansExhausted
<1> QED
  BY <1>2, <1>3, <1>4, <1>5 DEF Bookkeeping

(* The passage of time, item by item.                                      *)
LEMMA TickEffect ==
    ASSUME TypeOK, Tick
    PROVE  /\ TypeOK'
           /\ \A j \in Jobs :
                /\ job'[j].status = job[j].status /\ job'[j].attempts = job[j].attempts
                /\ job'[j].max = job[j].max
                /\ job'[j].lockLeft = Less(job[j].lockLeft)
                /\ job'[j].availIn = Less(job[j].availIn)
           /\ \A j \in Jobs, n \in Claims :
                /\ run'[j][n].pc = run[j][n].pc /\ run'[j][n].seen = run[j][n].seen
                /\ run'[j][n].by = run[j][n].by
                /\ run'[j][n].lease = Less(run[j][n].lease)
           /\ UNCHANGED <<awaited, up, cancelling>>
<1>1. \A t \in Nat : Less(t) \in Nat
  BY DEF Less
<1>2. ASSUME NEW j \in Jobs
      PROVE  /\ job'[j] \in Row
             /\ job'[j].status = job[j].status /\ job'[j].attempts = job[j].attempts
             /\ job'[j].max = job[j].max
             /\ job'[j].lockLeft = Less(job[j].lockLeft)
             /\ job'[j].availIn = Less(job[j].availIn)
  <2>1. /\ job[j] \in Row
        /\ job'[j] = [job[j] EXCEPT !.lockLeft = Less(@), !.availIn = Less(@)]
    BY DEF TypeOK, Tick
  <2> QED
    BY <1>1, <2>1 DEF Row
<1>3. ASSUME NEW j \in Jobs, NEW n \in Claims
      PROVE  /\ run'[j][n] \in Run
             /\ run'[j][n].pc = run[j][n].pc /\ run'[j][n].seen = run[j][n].seen
             /\ run'[j][n].by = run[j][n].by
             /\ run'[j][n].lease = Less(run[j][n].lease)
  <2>1. run[j][n] \in Run /\ run'[j][n] = [run[j][n] EXCEPT !.lease = Less(@)]
    BY DEF TypeOK, Tick
  <2> QED
    BY <1>1, <2>1 DEF Run
<1>4. job' \in [Jobs -> Row] /\ run' \in [Jobs -> [Claims -> Run]]
  <2>1. /\ job' = [j \in Jobs |-> job'[j]]
        /\ run' = [j \in Jobs |-> [n \in Claims |-> run'[j][n]]]
    BY DEF Tick
  <2> QED
    BY <1>2, <1>3, <2>1
<1>5. UNCHANGED <<awaited, up, cancelling>>
  BY DEF Tick
<1>6. TypeOK'
  BY <1>4, <1>5 DEF TypeOK
<1> QED
  BY <1>2, <1>3, <1>5, <1>6

LEMMA TickBookkeeping ==
    ASSUME Bookkeeping, Tick
    PROVE  Bookkeeping'
BY TickEffect DEF Bookkeeping, AttemptsCountClaims, Unclaimed, CopiesBehind,
   CancelsWereOpen, DeadLetterMeansExhausted

LEMMA StepBookkeeping == Bookkeeping /\ [Next]_vars => Bookkeeping'
<1> SUFFICES ASSUME Bookkeeping, [Next]_vars PROVE Bookkeeping'
  OBVIOUS
<1>1. CASE Operator
  BY <1>1, EnqueueBookkeeping, CancelReadBookkeeping, CancelWriteBookkeeping DEF Operator
<1>2. ASSUME NEW w \in Workers, ClaimJobs(w) \/ Crash(w)
      PROVE  Bookkeeping'
  BY <1>2, ClaimBookkeeping, CrashBookkeeping
<1>3. ASSUME NEW j \in Jobs, NEW n \in Claims, RunStep(j, n) \/ Abort(j, n)
      PROVE  Bookkeeping'
  BY <1>3, RunStepBookkeeping, OutcomeBookkeeping DEF RunStep
<1>4. CASE Tick
  BY <1>4, TickBookkeeping
<1>5. CASE UNCHANGED vars
  BY <1>5 DEF vars, Bookkeeping, TypeOK, AttemptsCountClaims, Unclaimed, CopiesBehind,
     CancelsWereOpen, DeadLetterMeansExhausted
<1> QED
  BY <1>1, <1>2, <1>3, <1>4, <1>5 DEF Next, Working, Fault

(* In every behaviour of the queue the variables keep their types.         *)
THEOREM TypeCorrect == Spec => []TypeOK
<1>1. Bookkeeping => TypeOK
  BY DEF Bookkeeping
<1> QED
  BY <1>1, InitBookkeeping, StepBookkeeping, PTL DEF Spec

(* In every behaviour attempts counts the claims made, within the limit.   *)
THEOREM AttemptsCorrect == Spec => []AttemptsCountClaims
<1>1. Bookkeeping => AttemptsCountClaims
  BY DEF Bookkeeping
<1> QED
  BY <1>1, InitBookkeeping, StepBookkeeping, PTL DEF Spec

(* In every behaviour a job is dead-lettered only with its attempts spent. *)
THEOREM DeadLetterCorrect == Spec => []DeadLetterMeansExhausted
<1>1. Bookkeeping => DeadLetterMeansExhausted
  BY DEF Bookkeeping
<1> QED
  BY <1>1, InitBookkeeping, StepBookkeeping, PTL DEF Spec

-----------------------------------------------------------------------------
(* Leased: what holds when no run outlives its lock.  A run in progress is *)
(* the last claim of its job, its lease has not run out, the row is        *)
(* running under a lock at least as long or has been cancelled, and no     *)
(* backoff is pending.                                                     *)

Leased ==
    \A j \in Jobs, n \in Claims :
        run[j][n].pc \in Active =>
            /\ n = job[j].attempts
            /\ run[j][n].lease > 0
            /\ run[j][n].by \in Workers
            /\ job[j].availIn = 0
            /\ \/ job[j].status = "running" /\ job[j].lockLeft >= run[j][n].lease
               \/ job[j].status = "cancelled"

(* A job served by a run is not claimable.                                 *)
LEMMA ServedNotClaimable ==
    ASSUME Bookkeeping, Leased, NEW j \in Jobs, Claimable(j)
    PROVE  \A n \in Claims : run[j][n].pc \notin Active
<1>1. job[j].lockLeft \in Nat /\ \A n \in Claims : run[j][n].lease \in Nat
  BY DEF Bookkeeping, TypeOK, Row, Run
<1> QED
  BY <1>1 DEF Leased, Claimable, Waiting

(* Only the run that serves a job can end with an outcome for it.          *)
LEMMA FinishLeased ==
    ASSUME Bookkeeping, Leased, NEW j \in Jobs, NEW n \in Claims, NEW new,
           run[j][n].pc \in Active, Finish(j, n, new)
    PROVE  Leased'
<1>1. /\ \A i \in Jobs \ {j} : job'[i] = job[i] /\ run'[i] = run[i]
      /\ run'[j][n] = Ended
      /\ \A m \in Claims \ {n} : run'[j][m] = run[j][m]
  BY DEF Bookkeeping, TypeOK, Finish
<1>2. \A m \in Claims \ {n} : run[j][m].pc \notin Active
  BY DEF Leased
<1>3. Ended.pc \notin Active
  BY DEF Ended, NoRun, Active
<1> QED
  BY <1>1, <1>2, <1>3 DEF Leased

LEMMA RunStepLeased ==
    ASSUME Bookkeeping, Leased, NEW j \in Jobs, NEW n \in Claims,
           RunStep(j, n) \/ Abort(j, n)
    PROVE  Leased'
<1>1. CASE \/ StartCheck(j, n) \/ StartRefused(j, n) \/ StartRefresh(j, n)
           \/ HandlerCommit(j, n) \/ Abort(j, n)
  <2>1. /\ UNCHANGED job
        /\ run[j][n].pc \in Active
        /\ \A i \in Jobs, m \in Claims : <<i, m>> # <<j, n>> => run'[i][m] = run[i][m]
        /\ \/ run'[j][n] = Ended
           \/ run'[j][n].lease = run[j][n].lease /\ run'[j][n].by = run[j][n].by
    <3>1. run \in [Jobs -> [Claims -> Run]]
      BY DEF Bookkeeping, TypeOK
    <3>2. CASE StartCheck(j, n)
      BY <3>1, <3>2 DEF StartCheck, Active, Run
    <3>3. CASE StartRefused(j, n)
      BY <3>1, <3>3 DEF StartRefused, EscapesGather, Active
    <3>4. CASE StartRefresh(j, n)
      BY <3>1, <3>4 DEF StartRefresh, Active, Run
    <3>5. CASE HandlerCommit(j, n)
      BY <3>1, <3>5 DEF HandlerCommit, Active, Run
    <3>6. CASE Abort(j, n)
      BY <3>1, <3>6 DEF Abort, EscapesGather
    <3> QED
      BY <1>1, <3>2, <3>3, <3>4, <3>5, <3>6
  <2>2. Ended.pc \notin Active
    BY DEF Ended, NoRun, Active
  <2> QED
    BY <2>1, <2>2 DEF Leased
<1>2. CASE HandlerReturns(j, n)
  BY <1>2, FinishLeased DEF HandlerReturns, Active
<1>3. CASE HandlerRaises(j, n)
  BY <1>3, FinishLeased DEF HandlerRaises, Active
<1>4. CASE NoHandler(j, n)
  BY <1>4, FinishLeased DEF NoHandler, Active
<1> QED
  BY <1>1, <1>2, <1>3, <1>4 DEF RunStep

LEMMA ClaimLeased ==
    ASSUME Bookkeeping, Leased, NEW w \in Workers, ClaimJobs(w)
    PROVE  Leased'
<1>1. PICK S \in SUBSET Jobs :
        /\ \A j \in S :
             /\ Claimable(j)
             /\ job'[j] = Claimed(job[j], w)
             /\ job[j].attempts + 1 \in Claims
             /\ run'[j][job[j].attempts + 1] = NewRun(w)
             /\ \A m \in Claims \ {job[j].attempts + 1} : run'[j][m] = run[j][m]
        /\ \A j \in Jobs \ S : job'[j] = job[j] /\ run'[j] = run[j]
  BY ClaimEffect DEF Bookkeeping
<1>2. ASSUME NEW j \in S, NEW n \in Claims, run'[j][n].pc \in Active
      PROVE  /\ n = job'[j].attempts
             /\ run'[j][n].lease > 0
             /\ run'[j][n].by \in Workers
             /\ job'[j].availIn = 0
             /\ job'[j].status = "running" /\ job'[j].lockLeft >= run'[j][n].lease
  <2>1. n = job[j].attempts + 1
    BY <1>1, <1>2, ServedNotClaimable
  <2>2. run'[j][n] = NewRun(w) /\ job'[j] = Claimed(job[j], w) /\ job[j] \in Row
    BY <1>1, <2>1 DEF Bookkeeping, TypeOK
  <2>3. LockTicks \in Nat /\ LockTicks > 0 /\ job[j].availIn = 0
    BY <1>1, ConstantsAssumption DEF Claimable
  <2>4. /\ job'[j].attempts = job[j].attempts + 1 /\ job'[j].availIn = job[j].availIn
        /\ job'[j].status = "running" /\ job'[j].lockLeft = LockTicks
    BY <2>2 DEF Claimed, Row
  <2>5. run'[j][n].lease = LockTicks /\ run'[j][n].by = w
    BY <2>2 DEF NewRun, NoRun
  <2> QED
    BY <2>1, <2>3, <2>4, <2>5
<1> QED
  BY <1>1, <1>2 DEF Leased

LEMMA OperatorLeased ==
    ASSUME Bookkeeping, Leased, Operator
    PROVE  Leased'
<1>1. ASSUME NEW j \in Jobs, NEW max \in Claims, NEW delay \in Delays,
             EnqueueJob(j, max, delay)
      PROVE  Leased'
  <2>1. \A n \in Claims : run[j][n].pc \notin Active
    BY <1>1 DEF EnqueueJob, Leased
  <2>2. UNCHANGED run /\ \A i \in Jobs \ {j} : job'[i] = job[i]
    BY <1>1 DEF EnqueueJob, Bookkeeping, TypeOK
  <2> QED
    BY <2>1, <2>2 DEF Leased
<1>2. ASSUME NEW j \in Jobs, CancelRead(j)
      PROVE  Leased'
  BY <1>2 DEF CancelRead, Leased
<1>3. ASSUME NEW j \in Jobs, CancelWrite(j)
      PROVE  Leased'
  <2>1. /\ job'[j].status = "cancelled" /\ job'[j].availIn = job[j].availIn
        /\ job'[j].attempts = job[j].attempts
        /\ \A i \in Jobs \ {j} : job'[i] = job[i]
        /\ UNCHANGED run
    BY <1>3, CancelWriteEffect DEF Rewrites
  <2> QED
    BY <2>1 DEF Leased
<1> QED
  BY <1>1, <1>2, <1>3 DEF Operator

LEMMA TickLeased ==
    ASSUME Bookkeeping, Leased, TimelyTick
    PROVE  Leased'
<1>1. ASSUME NEW j \in Jobs, NEW n \in Claims, run'[j][n].pc \in Active
      PROVE  /\ n = job'[j].attempts
             /\ run'[j][n].lease > 0
             /\ run'[j][n].by \in Workers
             /\ job'[j].availIn = 0
             /\ \/ job'[j].status = "running" /\ job'[j].lockLeft >= run'[j][n].lease
                \/ job'[j].status = "cancelled"
  <2>1. /\ job[j].lockLeft \in Nat /\ run[j][n].lease \in Nat
        /\ run[j][n].pc \in Active /\ run[j][n].lease > 1
        /\ job'[j].status = job[j].status /\ job'[j].attempts = job[j].attempts
        /\ job'[j].lockLeft = Less(job[j].lockLeft)
        /\ job'[j].availIn = Less(job[j].availIn)
        /\ run'[j][n].lease = Less(run[j][n].lease) /\ run'[j][n].by = run[j][n].by
    BY <1>1, TickEffect DEF TimelyTick, Bookkeeping, TypeOK, Row, Run
  <2> QED
    BY <2>1 DEF Leased, Less
<1> QED
  BY <1>1 DEF Leased

LEMMA CrashLeased ==
    ASSUME Leased, NEW w \in Workers, Crash(w)
    PROVE  Leased'
<1>1. \A j \in Jobs, n \in Claims :
        run'[j][n].pc \in Active => run'[j][n] = run[j][n]
  BY DEF Crash, Ended, NoRun, Active
<1> QED
  BY <1>1 DEF Leased, Crash

LEMMA StepLeased == Bookkeeping /\ Leased /\ [TimelyNext]_vars => Leased'
<1> SUFFICES ASSUME Bookkeeping, Leased, [TimelyNext]_vars PROVE Leased'
  OBVIOUS
<1>1. CASE Operator
  BY <1>1, OperatorLeased
<1>2. ASSUME NEW w \in Workers, ClaimJobs(w) \/ Crash(w)
      PROVE  Leased'
  BY <1>2, ClaimLeased, CrashLeased
<1>3. ASSUME NEW j \in Jobs, NEW n \in Claims, RunStep(j, n) \/ Abort(j, n)
      PROVE  Leased'
  BY <1>3, RunStepLeased
<1>4. CASE TimelyTick
  BY <1>4, TickLeased
<1>5. CASE UNCHANGED vars
  BY <1>5 DEF vars, Leased
<1> QED
  BY <1>1, <1>2, <1>3, <1>4, <1>5 DEF TimelyNext, Working, Fault

LEMMA InitLeased == Init => Leased
BY DEF Init, Leased, NoRun, Active

LEMMA TimelyIsNext == [TimelyNext]_vars => [Next]_vars
BY DEF TimelyNext, Next, TimelyTick

(* Timely behaviours keep both invariants.                                 *)
LEMMA TimelyInvariant == TimelySpec => [](Bookkeeping /\ Leased)
BY InitBookkeeping, InitLeased, StepBookkeeping, StepLeased, TimelyIsNext, PTL
   DEF TimelySpec

(* When no run outlives its lock, a job has at most one run at a time.     *)
THEOREM ExclusionCorrect == TimelySpec => []ExclusiveRuns
<1>1. Leased => ExclusiveRuns
  BY DEF Leased, ExclusiveRuns, ActiveRuns
<1> QED
  BY <1>1, TimelyInvariant, PTL

(* Nor does a run then work on a job whose backoff has not elapsed.        *)
THEOREM BackoffCorrect == TimelySpec => []BackoffHonoured
<1>1. Leased => BackoffHonoured
  BY DEF Leased, BackoffHonoured, ActiveRuns
<1> QED
  BY <1>1, TimelyInvariant, PTL

-----------------------------------------------------------------------------
(* Action properties.                                                      *)

(* A row's status changes only by a claim, by the outcome of an active run,*)
(* by a cancellation or by being created.                                  *)
LEMMA StatusChange ==
    ASSUME Bookkeeping, [Next]_vars, NEW j \in Jobs, job'[j].status # job[j].status
    PROVE  \/ job[j].status = "absent"
           \/ Claimable(j)
           \/ ActiveRuns(j) # {}
           \/ job'[j].status = "cancelled"
<1>1. ASSUME NEW i \in Jobs, NEW max \in Claims, NEW delay \in Delays,
             EnqueueJob(i, max, delay)
      PROVE  job[j].status = "absent"
  BY <1>1 DEF EnqueueJob, Bookkeeping, TypeOK
<1>2. ASSUME NEW i \in Jobs, CancelWrite(i)
      PROVE  job'[j].status = "cancelled"
  BY <1>2, CancelWriteEffect
<1>3. ASSUME NEW w \in Workers, ClaimJobs(w)
      PROVE  Claimable(j)
  BY <1>3, ClaimEffect DEF Bookkeeping
<1>4. ASSUME NEW i \in Jobs, NEW n \in Claims, RunStep(i, n)
      PROVE  ActiveRuns(j) # {}
  <2>1. \A new : Finish(i, n, new) => i = j
    BY DEF Finish, Bookkeeping, TypeOK
  <2>2. n \in ActiveRuns(j)
    BY <1>4, <2>1 DEF RunStep, StartCheck, StartRefused, EscapesGather, StartRefresh,
       HandlerCommit, HandlerReturns, HandlerRaises, NoHandler, ActiveRuns, Active
  <2> QED
    BY <2>2
<1>5. CASE Tick
  BY <1>5, TickEffect DEF Bookkeeping
<1>6. CASE UNCHANGED job
  BY <1>6
<1> QED
  BY <1>1, <1>2, <1>3, <1>4, <1>5, <1>6 DEF Next, Working, Operator, Fault, CancelRead,
     Abort, EscapesGather, Crash, vars

(* A job cancelled while nothing served it stays cancelled, overrunning    *)
(* runs or not.                                                            *)
THEOREM CancelledIdleCorrect == Spec => CancelledIdleStays
<1>1. Bookkeeping /\ [Next]_vars =>
        [\A j \in Jobs :
           job[j].status = "cancelled" /\ ActiveRuns(j) = {}
              => job'[j].status = "cancelled"]_vars
  BY StatusChange DEF Claimable, Waiting
<1> QED
  BY <1>1, InitBookkeeping, StepBookkeeping, PTL DEF Spec, CancelledIdleStays

(* When no run outlives its lock, a terminal status is rewritten only in a *)
(* race with a cancellation.                                               *)
THEOREM RewriteCorrect == TimelySpec => OnlyCancelRacesRewrite
<1>1. Bookkeeping /\ Leased /\ [TimelyNext]_vars =>
        [\A j \in Jobs :
           job[j].status \in Terminal /\ job'[j].status # job[j].status
              => "cancelled" \in {job[j].status, job'[j].status}]_vars
  <2> SUFFICES ASSUME Bookkeeping, Leased, [TimelyNext]_vars, NEW j \in Jobs,
                      job[j].status \in Terminal, job'[j].status # job[j].status
               PROVE  "cancelled" \in {job[j].status, job'[j].status}
    OBVIOUS
  <2>1. job[j].status \notin {"absent", "running"} \cup Waiting
    BY DEF Terminal, Completed, Waiting
  <2>2. ActiveRuns(j) # {} => job[j].status = "cancelled"
    BY <2>1 DEF ActiveRuns, Leased
  <2> QED
    BY <2>1, <2>2, StatusChange, TimelyIsNext DEF Claimable
<1> QED
  BY <1>1, TimelyInvariant, PTL DEF TimelySpec, OnlyCancelRacesRewrite

-----------------------------------------------------------------------------
(* Refinement of ExclusiveService.                                         *)

\* Who serves job j: the expression the refinement maps `server' to.
ServedBy(j) == IF ActiveRuns(j) = {} THEN NoWorker
               ELSE run[j][CHOOSE n \in ActiveRuns(j) : TRUE].by

\* What a step is for one job: a claim, or no new run and the same attempts.
ClaimStep(j) ==
    /\ Claimable(j)
    /\ job'[j].attempts = job[j].attempts + 1
    /\ job[j].attempts + 1 \in Claims
    /\ run'[j][job[j].attempts + 1].pc = "claimed"
    /\ run'[j][job[j].attempts + 1].by \in Workers
    /\ \A m \in Claims \ {job[j].attempts + 1} : run'[j][m] = run[j][m]
OtherStep(j) ==
    /\ job'[j].attempts = job[j].attempts
    /\ \A n \in Claims : run'[j][n].pc \in Active =>
          run[j][n].pc \in Active /\ run'[j][n].by = run[j][n].by

LEMMA StepOfJob ==
    ASSUME Bookkeeping, [Next]_vars, NEW j \in Jobs
    PROVE  ClaimStep(j) \/ OtherStep(j)
<1>0. /\ job \in [Jobs -> Row] /\ run \in [Jobs -> [Claims -> Run]]
      /\ Ended.pc \notin Active
  BY DEF Bookkeeping, TypeOK, Ended, NoRun, Active
<1>1. ASSUME NEW i \in Jobs, NEW max \in Claims, NEW delay \in Delays,
             EnqueueJob(i, max, delay)
      PROVE  OtherStep(j)
  <2>1. job'[i].attempts = 0 /\ job[i].attempts = 0
    BY <1>0, <1>1 DEF EnqueueJob, NoJob, Bookkeeping, Unclaimed
  <2> QED
    BY <1>0, <1>1, <2>1 DEF EnqueueJob, OtherStep
<1>2. ASSUME NEW i \in Jobs, CancelWrite(i)
      PROVE  OtherStep(j)
  BY <1>2, CancelWriteEffect DEF Rewrites, OtherStep
<1>3. ASSUME NEW w \in Workers, ClaimJobs(w)
      PROVE  ClaimStep(j) \/ OtherStep(j)
  <2>1. PICK S \in SUBSET Jobs :
          /\ \A i \in S :
               /\ Claimable(i)
               /\ job'[i] = Claimed(job[i], w)
               /\ job[i].attempts + 1 \in Claims
               /\ run'[i][job[i].attempts + 1] = NewRun(w)
               /\ \A m \in Claims \ {job[i].attempts + 1} : run'[i][m] = run[i][m]
          /\ \A i \in Jobs \ S : job'[i] = job[i] /\ run'[i] = run[i]
    BY <1>3, ClaimEffect DEF Bookkeeping
  <2>2. CASE j \in S
    <3>1. Claimed(job[j], w).attempts = job[j].attempts + 1
      BY <1>0 DEF Claimed, Row
    <3>2. NewRun(w).pc = "claimed" /\ NewRun(w).by = w
      BY DEF NewRun, NoRun
    <3> QED
      BY <2>1, <2>2, <3>1, <3>2 DEF ClaimStep
  <2>3. CASE j \notin S
    BY <2>1, <2>3 DEF OtherStep
  <2> QED
    BY <2>2, <2>3
<1>4. ASSUME NEW i \in Jobs, NEW n \in Claims, NEW new, Finish(i, n, new),
             new.attempts = job[i].attempts
      PROVE  OtherStep(j)
  BY <1>0, <1>4 DEF Finish, OtherStep
<1>5. ASSUME NEW i \in Jobs, NEW n \in Claims,
             HandlerReturns(i, n) \/ HandlerRaises(i, n) \/ NoHandler(i, n)
      PROVE  \E new : Finish(i, n, new) /\ new.attempts = job[i].attempts
  <2>1. /\ job[i] \in Row /\ run[i][n].seen \in Snapshot
        /\ run[i][n].seen.attempts <= job[i].attempts
    BY <1>5, OutcomeRows DEF Bookkeeping, CopiesBehind, HandlerReturns, HandlerRaises,
       NoHandler
  <2> QED
    BY <1>5, <2>1, CompleteLemma, FailLemma, RaisedLemma DEF HandlerReturns,
       HandlerRaises, NoHandler, Rewrites
<1>6. ASSUME NEW i \in Jobs, NEW n \in Claims, StartRefused(i, n) \/ Abort(i, n)
      PROVE  OtherStep(j)
  BY <1>0, <1>6 DEF StartRefused, Abort, EscapesGather, OtherStep
<1>7. ASSUME NEW i \in Jobs, NEW n \in Claims,
             StartCheck(i, n) \/ StartRefresh(i, n) \/ HandlerCommit(i, n)
      PROVE  OtherStep(j)
  <2>1. \A k \in Jobs, m \in Claims :
          run'[k][m].by = run[k][m].by
          /\ (run'[k][m].pc \in Active => run[k][m].pc \in Active)
    <3>1. CASE StartCheck(i, n)
      BY <1>0, <3>1 DEF StartCheck, Run, Active
    <3>2. CASE StartRefresh(i, n)
      BY <1>0, <3>2 DEF StartRefresh, Run, Active
    <3>3. CASE HandlerCommit(i, n)
      BY <1>0, <3>3 DEF HandlerCommit, Run, Active
    <3> QED
      BY <1>7, <3>1, <3>2, <3>3
  <2>2. UNCHANGED job
    BY <1>7 DEF StartCheck, StartRefresh, HandlerCommit
  <2> QED
    BY <2>1, <2>2 DEF OtherStep
<1>8. ASSUME NEW w \in Workers, Crash(w)
      PROVE  OtherStep(j)
  BY <1>0, <1>8 DEF Crash, OtherStep
<1>9. CASE Tick
  BY <1>9, TickEffect DEF Bookkeeping, OtherStep
<1>10. CASE UNCHANGED <<job, run>>
  BY <1>10 DEF OtherStep
<1>11. ASSUME NEW i \in Jobs, NEW n \in Claims, RunStep(i, n)
       PROVE  OtherStep(j)
  BY <1>4, <1>5, <1>6, <1>7, <1>11 DEF RunStep
<1> QED
  BY <1>1, <1>2, <1>3, <1>6, <1>8, <1>9, <1>10, <1>11 DEF Next, Working, Operator,
     Fault, CancelRead, vars

(* In a leased state a job with a run is served by that run's worker.      *)
LEMMA ServedByTheRun ==
    ASSUME Leased, NEW j \in Jobs
    PROVE  /\ ActiveRuns(j) = {} => ServedBy(j) = NoWorker
           /\ \A n \in ActiveRuns(j) :
                ActiveRuns(j) = {n} /\ ServedBy(j) = run[j][n].by /\ ServedBy(j) \in Workers
<1>1. ASSUME NEW n \in ActiveRuns(j)
      PROVE  /\ ActiveRuns(j) = {n} /\ ServedBy(j) = run[j][n].by
             /\ ServedBy(j) \in Workers
  <2>1. ActiveRuns(j) = {n} /\ run[j][n].by \in Workers
    BY <1>1 DEF Leased, ActiveRuns
  <2>2. (CHOOSE m \in ActiveRuns(j) : TRUE) = n
    BY <2>1
  <2> QED
    BY <2>1, <2>2 DEF ServedBy
<1> QED
  BY <1>1 DEF ServedBy

(* The same of the state a step leads to.                                  *)
LEMMA ServedByTheRunNext ==
    ASSUME Leased', NEW j \in Jobs
    PROVE  /\ ActiveRuns(j)' = {} => ServedBy(j)' = NoWorker
           /\ \A n \in ActiveRuns(j)' :
                /\ ActiveRuns(j)' = {n} /\ ServedBy(j)' = run'[j][n].by
                /\ ServedBy(j)' \in Workers
<1>1. ASSUME NEW n \in ActiveRuns(j)'
      PROVE  /\ ActiveRuns(j)' = {n} /\ ServedBy(j)' = run'[j][n].by
             /\ ServedBy(j)' \in Workers
  <2>1. ActiveRuns(j)' = {n} /\ run'[j][n].by \in Workers
    BY <1>1 DEF Leased, ActiveRuns
  <2>2. (CHOOSE m \in ActiveRuns(j)' : TRUE) = n
    BY <2>1
  <2> QED
    BY <2>1, <2>2 DEF ServedBy
<1> QED
  BY <1>1 DEF ServedBy

(* Seen from outside, a step takes, leaves or keeps each job.              *)
LEMMA StepServes ==
    ASSUME Bookkeeping, Leased, Leased', [TimelyNext]_vars, NEW j \in Jobs
    PROVE  \/ /\ ServedBy(j) = NoWorker /\ ServedBy(j)' \in Workers
              /\ job[j].attempts < MaxAttempts
              /\ job'[j].attempts = job[j].attempts + 1
           \/ /\ ServedBy(j) # NoWorker /\ ServedBy(j)' = NoWorker
              /\ job'[j].attempts = job[j].attempts
           \/ /\ ServedBy(j)' = ServedBy(j)
              /\ job'[j].attempts = job[j].attempts
<1>1. ClaimStep(j) \/ OtherStep(j)
  BY StepOfJob, TimelyIsNext
<1>2. CASE ClaimStep(j)
  <2> DEFINE n == job[j].attempts + 1
  <2>1. ActiveRuns(j) = {}
    BY <1>2, ServedNotClaimable DEF ClaimStep, ActiveRuns
  <2>2. n \in ActiveRuns(j)' /\ run'[j][n].by \in Workers
    BY <1>2 DEF ClaimStep, ActiveRuns, Active
  <2>3. ServedBy(j) = NoWorker /\ ServedBy(j)' \in Workers
    BY <2>1, <2>2, ServedByTheRun, ServedByTheRunNext
  <2>4. job[j].attempts < MaxAttempts
    BY <1>2, ConstantsAssumption DEF ClaimStep, Claims, Bookkeeping, TypeOK, Row
  <2> QED
    BY <1>2, <2>3, <2>4 DEF ClaimStep
<1>3. CASE OtherStep(j)
  <2>1. CASE ActiveRuns(j)' = {}
    BY <1>3, <2>1, ServedByTheRunNext DEF OtherStep
  <2>2. CASE ActiveRuns(j)' # {}
    <3>1. PICK n : n \in ActiveRuns(j)'
      BY <2>2
    <3>2. n \in ActiveRuns(j) /\ run'[j][n].by = run[j][n].by
      BY <1>3, <3>1 DEF OtherStep, ActiveRuns
    <3>3. ServedBy(j)' = ServedBy(j)
      BY <3>1, <3>2, ServedByTheRun, ServedByTheRunNext
    <3> QED
      BY <1>3, <3>3 DEF OtherStep
  <2> QED
    BY <2>1, <2>2
<1> QED
  BY <1>1, <1>2, <1>3

(* When no run outlives its lock, the queue implements exclusive service.  *)
THEOREM ServiceImplemented == TimelySpec => ImplementsService
<1>1. Init => Service!Init
  <2> SUFFICES ASSUME Init PROVE Service!Init
    OBVIOUS
  <2>1. \A j \in Jobs : ActiveRuns(j) = {} /\ job[j].attempts = 0
    BY DEF Init, ActiveRuns, NoRun, Active, NoJob
  <2> QED
    BY <2>1 DEF Service!Init
<1>2. /\ Bookkeeping /\ Leased /\ [TimelyNext]_vars /\ Leased'
      => [Service!Next]_<<[j \in Jobs |-> IF ActiveRuns(j) = {} THEN NoWorker
                            ELSE run[j][CHOOSE n \in ActiveRuns(j) : TRUE].by],
                          [j \in Jobs |-> job[j].attempts]>>
  <2> SUFFICES ASSUME Bookkeeping, Leased, [TimelyNext]_vars, Leased'
               PROVE  Service!Next
    OBVIOUS
  <2>1. ASSUME NEW j \in Jobs
        PROVE  Service!Taken(j) \/ Service!Left(j) \/ Service!Kept(j)
    <3>1. \/ /\ ServedBy(j) = NoWorker /\ ServedBy(j)' \in Workers
             /\ job[j].attempts < MaxAttempts
             /\ job'[j].attempts = job[j].attempts + 1
          \/ /\ ServedBy(j) # NoWorker /\ ServedBy(j)' = NoWorker
             /\ job'[j].attempts = job[j].attempts
          \/ /\ ServedBy(j)' = ServedBy(j)
             /\ job'[j].attempts = job[j].attempts
      BY StepServes
    <3> QED
      BY <3>1 DEF ServedBy, Service!Taken, Service!Left, Service!Kept
  <2> QED
    BY <2>1 DEF Service!Next
<1> QED
  BY <1>1, <1>2, TimelyInvariant, PTL DEF TimelySpec, ImplementsService, Service!Spec

-----------------------------------------------------------------------------
(* What is lost, and what is settled, for good.                            *)

\* An existing row keeps its limit.
LEMMA LimitStays ==
    ASSUME Bookkeeping, [Next]_vars, NEW j \in Jobs, job[j].status # "absent"
    PROVE  job'[j].max = job[j].max
<1>1. job \in [Jobs -> Row] /\ job[j] \in Row
  BY DEF Bookkeeping, TypeOK
<1>2. ASSUME NEW i \in Jobs, NEW n \in Claims,
             HandlerReturns(i, n) \/ HandlerRaises(i, n) \/ NoHandler(i, n)
      PROVE  job'[j].max = job[j].max
  <2>1. /\ job[i] \in Row /\ run[i][n].seen \in Snapshot
        /\ run[i][n].seen.attempts <= job[i].attempts
    BY <1>2, OutcomeRows DEF Bookkeeping, CopiesBehind, HandlerReturns, HandlerRaises,
       NoHandler
  <2>2. \E new : Finish(i, n, new) /\ new.max = job[i].max
    BY <1>2, <2>1, CompleteLemma, FailLemma, RaisedLemma
       DEF HandlerReturns, HandlerRaises, NoHandler, Rewrites
  <2> QED
    BY <1>1, <2>2 DEF Finish
<1>3. ASSUME NEW i \in Jobs, NEW max \in Claims, NEW delay \in Delays,
             EnqueueJob(i, max, delay)
      PROVE  job'[j].max = job[j].max
  BY <1>1, <1>3 DEF EnqueueJob
<1>4. ASSUME NEW i \in Jobs, CancelWrite(i)
      PROVE  job'[j].max = job[j].max
  BY <1>4, CancelWriteEffect DEF Rewrites
<1>5. ASSUME NEW w \in Workers, ClaimJobs(w)
      PROVE  job'[j].max = job[j].max
  <2>1. job'[j] = job[j] \/ job'[j] = Claimed(job[j], w)
    BY <1>5, ClaimEffect DEF Bookkeeping
  <2> QED
    BY <1>1, <2>1 DEF Claimed, Row
<1>6. CASE Tick
  BY <1>6, TickEffect DEF Bookkeeping
<1>7. CASE UNCHANGED job
  BY <1>7
<1> QED
  BY <1>2, <1>3, <1>4, <1>5, <1>6, <1>7 DEF Next, Working, Operator, Fault, CancelRead, RunStep,
     StartCheck, StartRefused, StartRefresh, HandlerCommit, Abort, EscapesGather, Crash, vars

(* Nothing takes up, fails or dead-letters a job whose last attempt was    *)
(* lost: it can only be cancelled.                                         *)
THEOREM LostForGood == Spec => LostStays
<1>1. ASSUME Bookkeeping, [Next]_vars, NEW j \in Jobs, Lost(j),
             job'[j].status # "cancelled"
      PROVE  Lost(j)'
  <2>1. /\ job[j].status = "running" /\ job[j].attempts = job[j].max
        /\ ActiveRuns(j) = {} /\ job[j] \in Row
    BY <1>1 DEF Lost, Bookkeeping, TypeOK
  <2>2. ~Claimable(j)
    BY <2>1, ConstantsAssumption DEF Claimable, Row, Claims
  <2>3. job'[j].status = "running"
    BY <1>1, <2>1, <2>2, StatusChange
  <2>4. OtherStep(j)
    BY <1>1, <2>2, StepOfJob DEF ClaimStep
  <2>5. job'[j].max = job[j].max
    BY <1>1, <2>1, LimitStays
  <2>6. ActiveRuns(j)' = {}
    BY <2>1, <2>4 DEF OtherStep, ActiveRuns
  <2> QED
    BY <2>1, <2>3, <2>4, <2>5, <2>6 DEF OtherStep, Lost
<1>2. Bookkeeping /\ [Next]_vars =>
        [\A j \in Jobs : Lost(j) => Lost(j)' \/ job'[j].status = "cancelled"]_vars
  BY <1>1
<1> QED
  BY <1>2, InitBookkeeping, StepBookkeeping, PTL DEF Spec, LostStays

NeverCancelled == \A j \in Jobs : job[j].status # "cancelled"

\* No outcome of a run is a cancellation.
LEMMA OutcomeStatus ==
    ASSUME NEW row \in Row, NEW seen \in Snapshot, row.status # "cancelled"
    PROVE  /\ \A s \in Completed : CompleteJob(row, seen, s).status # "cancelled"
           /\ FailJob(row, seen).status # "cancelled"
           /\ HandlerRaised(row, seen).status # "cancelled"
<1>1. ASSUME NEW r \in Row, NEW x \in Snapshot, NEW s \in Statuses \ {"absent", "cancelled"},
             r.status # "cancelled"
      PROVE  Write(r, x, s) \in Row /\ Write(r, x, s).status # "cancelled"
  BY <1>1, WriteLemma DEF Rewrites
<1>2. Completed \cup {"failed", "dead_letter", "retrying"} \subseteq Statuses \ {"absent", "cancelled"}
  BY DEF Statuses, Terminal, Completed, Waiting
<1>3. ASSUME NEW r \in Row, NEW x \in Snapshot, r.status # "cancelled"
      PROVE  RetryJob(r, x).status # "cancelled"
  BY <1>1, <1>2, <1>3 DEF RetryJob, Row
<1>4. FailJob(row, seen) \in Row /\ FailJob(row, seen).status # "cancelled"
  BY <1>1, <1>2 DEF FailJob
<1>5. Loaded(FailJob(row, seen)) \in Snapshot
  BY <1>4, LoadedLemma
<1>6. HandlerRaised(row, seen).status # "cancelled"
  BY <1>1, <1>2, <1>3, <1>4, <1>5 DEF HandlerRaised, MoveToDeadLetter
<1>7. \A s \in Completed : CompleteJob(row, seen, s).status # "cancelled"
  BY <1>1, <1>2 DEF CompleteJob
<1> QED
  BY <1>4, <1>6, <1>7

LEMMA NeverCancelledStep ==
    ASSUME Bookkeeping, NeverCancelled, NoneCancelling, [Next]_vars
    PROVE  NeverCancelled'
<1> SUFFICES ASSUME NEW j \in Jobs PROVE job'[j].status # "cancelled"
  BY DEF NeverCancelled
<1>1. /\ job \in [Jobs -> Row] /\ job[j] \in Row /\ job[j].status # "cancelled"
  BY DEF Bookkeeping, TypeOK, NeverCancelled
<1>2. ASSUME NEW i \in Jobs, NEW n \in Claims,
             HandlerReturns(i, n) \/ HandlerRaises(i, n) \/ NoHandler(i, n)
      PROVE  job'[j].status # "cancelled"
  <2>1. job[i] \in Row /\ run[i][n].seen \in Snapshot /\ job[i].status # "cancelled"
    BY OutcomeRows DEF Bookkeeping, NeverCancelled
  <2>2. \E new : job' = [job EXCEPT ![i] = new] /\ new.status # "cancelled"
    BY <1>2, <2>1, OutcomeStatus DEF HandlerReturns, HandlerRaises, NoHandler, Finish
  <2> QED
    BY <1>1, <2>2
<1>3. ASSUME NEW i \in Jobs, NEW max \in Claims, NEW delay \in Delays,
             EnqueueJob(i, max, delay)
      PROVE  job'[j].status # "cancelled"
  BY <1>1, <1>3 DEF EnqueueJob, NoJob
<1>4. \A i \in Jobs : ~CancelWrite(i)
  BY DEF CancelWrite, NoneCancelling
<1>5. ASSUME NEW w \in Workers, ClaimJobs(w)
      PROVE  job'[j].status # "cancelled"
  <2>1. job'[j] = job[j] \/ job'[j] = Claimed(job[j], w)
    BY <1>5, ClaimEffect DEF Bookkeeping
  <2> QED
    BY <1>1, <2>1 DEF Claimed, Row
<1>6. CASE Tick
  BY <1>1, <1>6, TickEffect DEF Bookkeeping
<1>7. CASE UNCHANGED job
  BY <1>1, <1>7
<1> QED
  BY <1>2, <1>3, <1>4, <1>5, <1>6, <1>7 DEF Next, Working, Operator, Fault, CancelRead, RunStep,
     StartCheck, StartRefused, StartRefresh, HandlerCommit, Abort, EscapesGather, Crash, vars

(* Without cancellations an outcome recorded within the locks stands: the  *)
(* copies that runs write back do no harm by themselves.                   *)
THEOREM SettledForGood == TimelySpec /\ []NoneCancelling => SettledStays
<1>1. Init => NeverCancelled
  BY DEF Init, NeverCancelled, NoJob
<1>2. Bookkeeping /\ NeverCancelled /\ NoneCancelling /\ [TimelyNext]_vars => NeverCancelled'
  BY NeverCancelledStep, TimelyIsNext
<1> DEFINE Rewritten == \A j \in Jobs :
              job[j].status \in Terminal /\ job'[j].status # job[j].status
                 => "cancelled" \in {job[j].status, job'[j].status}
           Stands == \A j \in Jobs :
              job[j].status \in Terminal => job'[j].status = job[j].status
<1>3. NeverCancelled /\ NeverCancelled' /\ [Rewritten]_vars => [Stands]_vars
  BY DEF NeverCancelled
<1>4. TimelySpec => [][Rewritten]_vars
  BY RewriteCorrect DEF OnlyCancelRacesRewrite
<1> QED
  BY <1>1, <1>2, <1>3, <1>4, TimelyInvariant, PTL DEF TimelySpec, SettledStays
=============================================================================
