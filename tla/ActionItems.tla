---------------------------- MODULE ActionItems -----------------------------
(***************************************************************************)
(* Reasoning action items and the runners that execute them                *)
(* (apps/api/app/modules/action_plans).                                    *)
(*                                                                         *)
(* A poll marks pending items due, claims a batch of items under a lease   *)
(* and executes them; POST /action-items/execute-due does the same inside  *)
(* one session.  POST /action-items/{id}/execute runs one item without a   *)
(* lease.  A run decides on the copy of the row it loaded (`seen'), and a  *)
(* transaction writes the columns that differ from that copy.              *)
(*                                                                         *)
(* Only an evaluation, a replay or a correlation commits in the middle of  *)
(* a run; before that, what a manual run has flushed is invisible to       *)
(* others and keeps the row locked (`holds').  An exception after a        *)
(* rollback meets an expired row and leaves execute_item: see Abort.       *)
(*                                                                         *)
(* Timestamps are countdowns.  A process that dies is replaced under its   *)
(* name: no code compares locked_by with an identity.  The order of a      *)
(* batch, audit logs and the counters of worker runs are left out.         *)
(***************************************************************************)
EXTENDS Integers, FiniteSets

CONSTANTS
    Items,
    Kinds,        \* action types the planner may choose from
    Workers,      \* worker processes and execute-due requests
    InSession,    \* those that keep one session from claim to end (requests)
    Markers,      \* mark-due and list-due requests
    Requests,     \* manual executions
    NoWorker,     \* locked_by IS NULL
    MaxAttempts,  \* the smaller of the item's and the worker's limit
    LockTicks,    \* REASONING_ACTION_WORKER_LOCK_SECONDS
    RetryTicks,   \* the minute until a retry is due
    Delays,       \* how far ahead due_at may lie at creation
    BatchSize     \* REASONING_ACTION_WORKER_BATCH_SIZE

ASSUME ActionItemsAssumption ==
    /\ Kinds \subseteq {"outcome", "replay", "news", "wait", "review"}
    /\ NoWorker \notin Workers
    /\ InSession \subseteq Workers
    /\ Workers \cap Markers = {}
    /\ Workers \cap Requests = {}
    /\ MaxAttempts \in Nat \ {0}
    /\ LockTicks \in Nat \ {0}
    /\ RetryTicks \in Nat
    /\ Delays \subseteq Nat
    /\ BatchSize \in Nat \ {0}

VARIABLES
    item,     \* committed rows of reasoning_action_items
    run,      \* run[a][i]: execute_item of item i by actor a
    poll,     \* poll[m]: the batch m is marking or executing
    candles,  \* items whose final candles are stored
    replays   \* replays[i]: replays created for i's analysis run

vars == <<item, run, poll, candles, replays>>

Actors == Workers \cup Requests

-----------------------------------------------------------------------------
Done == {"completed", "skipped", "cancelled"}
Open == {"pending", "due"}
Statuses == {"absent", "running", "failed"} \cup Open \cup Done
Phases == {"idle", "claimed", "start", "exhausted", "review", "dispatch",
           "replay", "finish"}

Row == [kind : Kinds \cup {"none"}, status : Statuses,
        attempts : 0..MaxAttempts, lockedBy : Workers \cup {NoWorker},
        lockLeft : Nat, dueIn : Nat]
Copy == [status : Statuses, attempts : 0..MaxAttempts,
         lockedBy : Workers \cup {NoWorker}]

NoItem == [kind |-> "none", status |-> "absent", attempts |-> 0,
           lockedBy |-> NoWorker, lockLeft |-> 0, dueIn |-> 0]
Loaded(row) == [status |-> row.status, attempts |-> row.attempts,
                lockedBy |-> row.lockedBy]
Idle == [pc |-> "idle", seen |-> Loaded(NoItem), holds |-> FALSE, lease |-> 0]
Resting == [pc |-> "idle", items |-> {}]

Automatic(i) == item[i].kind # "review"
ActiveWorkers(i) == {w \in Workers : run[w][i].pc # "idle"}
RowFree(i, a) == \A b \in Actors \ {a} : ~run[b][i].holds

Init ==
    /\ item = [i \in Items |-> NoItem]
    /\ run = [a \in Actors |-> [i \in Items |-> Idle]]
    /\ poll = [m \in Workers \cup Markers |-> Resting]
    /\ candles = {}
    /\ replays = [i \in Items |-> 0]

(* The planner stores an item; its idempotency key is unique.  Only items  *)
(* that need candles have a due time, and are due at once if both are met. *)
CreateItem(i, kind, delay) ==
    /\ item[i].status = "absent"
    /\ kind \notin {"outcome", "wait"} => delay = 0
    /\ item' = [item EXCEPT ![i] = [NoItem EXCEPT
                  !.kind = kind,
                  !.status = IF kind \in {"outcome", "wait"} /\ i \in candles
                                /\ delay = 0
                             THEN "due" ELSE "pending",
                  !.dueIn = delay]]
    /\ UNCHANGED <<run, poll, candles, replays>>

CandlesArrive(i) ==
    /\ candles' = candles \cup {i}
    /\ UNCHANGED <<item, run, poll, replays>>

-----------------------------------------------------------------------------
(* One poll: mark, claim, execute.                                         *)

MarkRead(m) ==
    LET due == {i \in Items : /\ item[i].status = "pending"
                              /\ item[i].dueIn = 0
                              /\ Automatic(i)}
    IN  /\ poll[m].pc = "idle"
        /\ m \in Markers => due # {}
        /\ poll' = [poll EXCEPT ![m] = IF due = {}
                                       THEN [pc |-> "claim", items |-> {}]
                                       ELSE [pc |-> "marking", items |-> due]]
        /\ UNCHANGED <<item, run, candles, replays>>

\* Every item read as pending becomes due, whatever its row says by now.
MarkWrite(m) ==
    /\ poll[m].pc = "marking"
    /\ \A i \in poll[m].items : RowFree(i, m)
    /\ item' = [i \in Items |-> IF i \in poll[m].items
                                THEN [item[i] EXCEPT !.status = "due"]
                                ELSE item[i]]
    /\ poll' = [poll EXCEPT ![m] = IF m \in Markers THEN Resting
                                   ELSE [pc |-> "claim", items |-> {}]]
    /\ UNCHANGED <<run, candles, replays>>

\* Mutants of the claim's filter.
Claimable_NoLimit(i) ==
    /\ Automatic(i)
    /\ \/ item[i].status \in Open /\ item[i].dueIn = 0
       \/ item[i].status = "running" /\ item[i].lockedBy # NoWorker
    /\ item[i].lockedBy = NoWorker \/ item[i].lockLeft = 0
    /\ \A a \in Actors : ~run[a][i].holds

Claimable_LeaseOnlyIfRunning(i) ==
    /\ Automatic(i)
    /\ item[i].attempts < MaxAttempts
    /\ \/ item[i].status \in Open /\ item[i].dueIn = 0
       \/ item[i].status = "running" /\ item[i].lockedBy # NoWorker
          /\ item[i].lockLeft = 0
    /\ \A a \in Actors : ~run[a][i].holds

\* The WHERE clause of the claim, and what FOR UPDATE SKIP LOCKED leaves.
Claimable(i) ==
    /\ Automatic(i)
    /\ item[i].attempts < MaxAttempts
    /\ \/ item[i].status \in Open /\ item[i].dueIn = 0
       \/ item[i].status = "running" /\ item[i].lockedBy # NoWorker
          /\ item[i].lockLeft = 0
    /\ item[i].lockedBy = NoWorker \/ item[i].lockLeft = 0
    /\ \A a \in Actors : ~run[a][i].holds

\* Mutant: the lease is not stored.
Leased_NotStored(row, w) ==
    [row EXCEPT !.status = "running", !.attempts = @ + 1]

Leased(row, w) ==
    [row EXCEPT !.status = "running", !.attempts = @ + 1,
                !.lockedBy = w, !.lockLeft = LockTicks]

\* A request executes the objects it claimed; a worker loads them again.
Claimed(w, i) ==
    [Idle EXCEPT !.pc = IF w \in InSession THEN "dispatch" ELSE "claimed",
                 !.seen = Loaded(Leased(item[i], w)),
                 !.lease = LockTicks]

ClaimBatch(w) ==
    LET C == {i \in Items : Claimable(i) /\ run[w][i].pc = "idle"}
    IN  /\ poll[w].pc = "claim"
        /\ \E S \in SUBSET C :
            /\ Cardinality(S) <= BatchSize
            /\ S = C \/ Cardinality(S) = BatchSize
            /\ item' = [i \in Items |-> IF i \in S THEN Leased(item[i], w)
                                                   ELSE item[i]]
            /\ run' = [run EXCEPT ![w] = [i \in Items |->
                         IF i \in S THEN Claimed(w, i) ELSE @[i]]]
            /\ poll' = [poll EXCEPT ![w] = IF S = {} THEN Resting
                          ELSE [pc |-> "running", items |-> S]]
        /\ UNCHANGED <<candles, replays>>

-----------------------------------------------------------------------------
(* execute_item.                                                           *)

\* a's run of i is over; a poll ends with the last run it awaits.
Ends(a, i) ==
    /\ run' = [run EXCEPT ![a][i] = Idle]
    /\ IF a \in Workers /\ poll[a].pc = "running"
       THEN LET rest == poll[a].items \ {i}
            IN  poll' = [poll EXCEPT ![a] =
                           IF rest = {} THEN Resting
                           ELSE [pc |-> "running", items |-> rest]]
       ELSE UNCHANGED poll

\* Mutant: a manual execution does not look at the attempts.
Exhausted_Never(a, seen) == FALSE

Exhausted(a, seen) ==
    IF a \in Requests THEN seen.attempts >= MaxAttempts
                      ELSE seen.attempts > MaxAttempts

\* What execute_item decides from the copy before it starts.
Admit(a, i, seen) ==
    IF Exhausted(a, seen) THEN "exhausted"
    ELSE IF item[i].kind = "review" THEN "review"
    ELSE IF a \in Requests THEN "start" ELSE "dispatch"

LoadRow(a, i) ==
    /\ IF a \in Requests THEN /\ run[a][i].pc = "idle"
                              /\ item[i].status \notin {"absent", "running"}
                         ELSE run[a][i].pc = "claimed"
    /\ item[i].status \notin Done
    /\ run' = [run EXCEPT ![a][i] = [@ EXCEPT !.pc = Admit(a, i, Loaded(item[i])),
                                              !.seen = Loaded(item[i])]]
    /\ UNCHANGED <<item, poll, candles, replays>>

LoadDone(w, i) ==
    /\ run[w][i].pc = "claimed"
    /\ item[i].status \in Done
    /\ Ends(w, i)
    /\ UNCHANGED <<item, candles, replays>>

\* A manual run flushes "running" and one more attempt, and rereads the row.
ManualStart(r, i) ==
    /\ run[r][i].pc = "start"
    /\ RowFree(i, r)
    /\ run' = [run EXCEPT ![r][i] = [@ EXCEPT
                  !.pc = "dispatch",
                  !.holds = TRUE,
                  !.seen = [status |-> "running",
                            attempts |-> run[r][i].seen.attempts + 1,
                            lockedBy |-> item[i].lockedBy]]]
    /\ UNCHANGED <<item, poll, candles, replays>>

\* The row after run x has flushed status s and the cleared lease.
Settled(row, x, s) ==
    [row EXCEPT !.status = IF s = x.seen.status THEN @ ELSE s,
                !.attempts = IF x.holds THEN x.seen.attempts ELSE @,
                !.lockedBy = IF x.seen.lockedBy = NoWorker THEN @ ELSE NoWorker,
                !.lockLeft = IF x.seen.lockedBy = NoWorker THEN @ ELSE 0]

Settle(a, i, s, dueIn) ==
    /\ RowFree(i, a)
    /\ item' = [item EXCEPT ![i] =
                  [Settled(@, run[a][i], s) EXCEPT !.dueIn = dueIn]]
    /\ Ends(a, i)
    /\ UNCHANGED <<candles, replays>>

GiveUp(a, i) ==
    /\ run[a][i].pc = "exhausted"
    /\ Settle(a, i, "failed", item[i].dueIn)

AwaitReview(r, i) ==
    /\ run[r][i].pc = "review"
    /\ Settle(r, i, "pending", item[i].dueIn)

\* A commit in the middle of a run makes a manual start visible.
CommitHeld(a, i, pc) ==
    /\ RowFree(i, a)
    /\ item' = IF run[a][i].holds
               THEN [item EXCEPT ![i] =
                       [@ EXCEPT !.status = "running",
                                 !.attempts = run[a][i].seen.attempts]]
               ELSE item
    /\ run' = [run EXCEPT ![a][i] = [@ EXCEPT !.pc = pc, !.holds = FALSE]]
    /\ UNCHANGED <<poll, candles>>

\* Outcomes are evaluated once per horizon, correlations replaced: running
\* either again changes nothing.
Evaluate(a, i) ==
    /\ run[a][i].pc = "dispatch"
    /\ \/ item[i].kind = "news"
       \/ item[i].kind = "outcome" /\ i \in candles
    /\ CommitHeld(a, i, "finish")
    /\ UNCHANGED replays

\* The candles an outcome or a wait needs are not there: due again later.
KeepWaiting(a, i) ==
    /\ run[a][i].pc = "dispatch"
    /\ i \notin candles
    /\ \/ item[i].kind = "wait" /\ Settle(a, i, "pending", RetryTicks)
       \/ item[i].kind = "outcome" /\ Settle(a, i, "pending", item[i].dueIn)

WaitOver(a, i) ==
    /\ run[a][i].pc = "dispatch"
    /\ item[i].kind = "wait" /\ i \in candles
    /\ Settle(a, i, "completed", item[i].dueIn)

\* Mutant: replays are not looked up.
LookForReplay_Blind(a, i) ==
    /\ run[a][i].pc = "dispatch"
    /\ item[i].kind = "replay"
    /\ run' = [run EXCEPT ![a][i].pc = "replay"]
    /\ UNCHANGED <<item, poll, candles, replays>>

LookForReplay(a, i) ==
    /\ run[a][i].pc = "dispatch"
    /\ item[i].kind = "replay"
    /\ replays[i] = 0
    /\ run' = [run EXCEPT ![a][i].pc = "replay"]
    /\ UNCHANGED <<item, poll, candles, replays>>

SkipReplay(a, i) ==
    /\ run[a][i].pc = "dispatch"
    /\ item[i].kind = "replay"
    /\ replays[i] > 0
    /\ Settle(a, i, "skipped", item[i].dueIn)

Replay(a, i) ==
    /\ run[a][i].pc = "replay"
    /\ CommitHeld(a, i, "finish")
    /\ replays' = [replays EXCEPT ![i] = @ + 1]

\* Mutant: the outcome is recorded before the replay is stored.
Complete_Early(a, i) ==
    /\ run[a][i].pc \in {"replay", "finish"}
    /\ Settle(a, i, "completed", item[i].dueIn)

Complete(a, i) ==
    /\ run[a][i].pc = "finish"
    /\ Settle(a, i, "completed", item[i].dueIn)

\* Mutant: the last attempt is given away.
Failed_OneShort(a, i) == run[a][i].seen.attempts + 1 >= MaxAttempts

Failed(a, i) == run[a][i].seen.attempts >= MaxAttempts

\* The dispatch raised: out of attempts, or due again in a minute.
Fail(a, i) ==
    /\ run[a][i].pc \in {"dispatch", "replay"}
    /\ IF Failed(a, i) THEN Settle(a, i, "failed", item[i].dueIn)
                       ELSE Settle(a, i, "pending", RetryTicks)

-----------------------------------------------------------------------------
(* An exception leaves execute_item: the transaction is rolled back.  The  *)
(* gather of a worker's poll ends and its other runs go on; a request ends *)
(* with all it claimed.                                                    *)
Abort(a, i) ==
    /\ run[a][i].pc # "idle"
    /\ IF a \in InSession
       THEN run' = [run EXCEPT ![a] = [k \in Items |-> Idle]]
       ELSE run' = [run EXCEPT ![a][i] = Idle]
    /\ poll' = IF a \in Workers /\ poll[a].pc = "running" /\ i \in poll[a].items
               THEN [poll EXCEPT ![a] = Resting] ELSE poll
    /\ UNCHANGED <<item, candles, replays>>

Crash(w) ==
    /\ poll[w] # Resting
    /\ run' = [run EXCEPT ![w] = [i \in Items |-> Idle]]
    /\ poll' = [poll EXCEPT ![w] = Resting]
    /\ UNCHANGED <<item, candles, replays>>

Less(t) == IF t = 0 THEN 0 ELSE t - 1

Tick ==
    /\ item' = [i \in Items |-> [item[i] EXCEPT !.lockLeft = Less(@),
                                                !.dueIn = Less(@)]]
    /\ run' = [a \in Actors |-> [i \in Items |->
                 [run[a][i] EXCEPT !.lease = Less(@)]]]
    /\ UNCHANGED <<poll, candles, replays>>

\* Time passes, but no run outlives the lease it was claimed under.
TimelyTick ==
    /\ \A w \in Workers, i \in Items :
         run[w][i].pc # "idle" => run[w][i].lease > 1
    /\ Tick

-----------------------------------------------------------------------------
RunStep(a, i) ==
    \/ a \in Workers /\ (LoadRow(a, i) \/ LoadDone(a, i))
    \/ ManualStart(a, i)
    \/ GiveUp(a, i)
    \/ AwaitReview(a, i)
    \/ Evaluate(a, i)
    \/ KeepWaiting(a, i)
    \/ WaitOver(a, i)
    \/ LookForReplay(a, i)
    \/ SkipReplay(a, i)
    \/ Replay(a, i)
    \/ Complete(a, i)
    \/ Fail(a, i)

PollStep(m) == MarkRead(m) \/ MarkWrite(m) \/ (m \in Workers /\ ClaimBatch(m))

World ==
    \E i \in Items :
        \/ \E kind \in Kinds, delay \in Delays : CreateItem(i, kind, delay)
        \/ CandlesArrive(i)

Working ==
    \/ World
    \/ \E m \in Workers \cup Markers : PollStep(m)
    \/ \E a \in Actors, i \in Items : RunStep(a, i)

ManualRequest == \E r \in Requests, i \in Items : LoadRow(r, i)

Fault ==
    \/ \E a \in Actors, i \in Items : Abort(a, i)
    \/ \E w \in Workers : Crash(w)

Next == Working \/ ManualRequest \/ Fault \/ Tick
Spec == Init /\ [][Next]_vars

\* No manual executions, and no run outlives its lease.
LeasedNext == Working \/ Fault \/ TimelyTick
LeasedSpec == Init /\ [][LeasedNext]_vars

\* No faults either; pollers poll, runs end, time passes, candles arrive.
Fairness ==
    /\ WF_vars(TimelyTick)
    /\ \A w \in Workers : WF_vars(PollStep(w))
    /\ \A a \in Actors, i \in Items : WF_vars(RunStep(a, i))
    /\ \A i \in Items : WF_vars(CandlesArrive(i))

CalmSpec == Init /\ [][Working \/ TimelyTick]_vars /\ Fairness

Service == INSTANCE ExclusiveService WITH
    Servers <- Workers, Nobody <- NoWorker, MaxTries <- MaxAttempts,
    server <- [i \in Items |-> IF ActiveWorkers(i) = {} THEN NoWorker
                               ELSE CHOOSE w \in ActiveWorkers(i) : TRUE],
    tries <- [i \in Items |-> item[i].attempts]

-----------------------------------------------------------------------------
(* The variables range over the columns and phases of the code; attempts   *)
(* stay within the limit, also with manual executions, which write back    *)
(* the count they had read.                                                *)
TypeOK ==
    /\ item \in [Items -> Row]
    /\ run \in [Actors -> [Items -> [pc : Phases, seen : Copy,
                                     holds : BOOLEAN, lease : Nat]]]
    /\ poll \in [Workers \cup Markers ->
                  [pc : {"idle", "marking", "claim", "running"},
                   items : SUBSET Items]]
    /\ candles \subseteq Items
    /\ replays \in [Items -> Nat]

(* While runs stay within their leases, an item is executed by one worker  *)
(* at a time, although marking may turn a running item's status to due.    *)
ExclusiveRuns ==
    \A i \in Items : \A v, w \in ActiveWorkers(i) : v = w

(* An item executed under leases is replayed at most once, however often   *)
(* its run is lost between the replay's commit and its own.                *)
ReplayedOnce == \A i \in Items : replays[i] <= 1

(* An item a worker left running carries a lease, without which it would   *)
(* never be claimed again.                                                 *)
RunningIsLeased ==
    \A i \in Items : item[i].status = "running" => item[i].lockedBy # NoWorker

(* An item fails only once its attempts are used up.                       *)
FailedMeansExhausted ==
    \A i \in Items : item[i].status = "failed" => item[i].attempts = MaxAttempts

(* Completion is recorded only for what was done: no stale copy completes  *)
(* an item whose replay is not stored or whose candles are missing.        *)
CompletedMeansDone ==
    \A i \in Items :
        item[i].status = "completed" =>
            /\ item[i].kind = "replay" => replays[i] > 0
            /\ item[i].kind \in {"outcome", "wait"} => i \in candles

(* The lease table implements exclusive service.                           *)
ImplementsService == Service!Spec

(* A completed item is not taken up again.                                 *)
CompletedStays ==
    [][\A i \in Items :
          item[i].status = "completed" => item'[i].status = "completed"]_vars

(* An item that waits for candles is executed once they are there.         *)
ExecutedOnceCandlesExist ==
    \A i \in Items :
        item[i].status # "absent" /\ item[i].kind \in {"outcome", "wait"}
            ~> item[i].status \in {"completed", "failed"}

Closed == Done \cup {"failed"}

(* Under leases nothing opens a closed item again but mark_due_actions, for *)
(* an item it had read as pending before it was closed (executor.py:97-106).*)
OnlyMarkingReopens ==
    [][\A i \in Items :
          item[i].status \in Closed /\ item'[i].status # item[i].status =>
              /\ item'[i].status = "due"
              /\ \E m \in Workers \cup Markers :
                    poll[m].pc = "marking" /\ i \in poll[m].items /\ poll'[m] # poll[m]
      ]_vars

\* Item i is running without a lease, nobody is at it, and no marking holds it.
Stranded(i) ==
    /\ item[i].status = "running" /\ item[i].lockedBy = NoWorker
    /\ \A a \in Actors : run[a][i].pc = "idle"
    /\ \A m \in Workers \cup Markers : poll[m].pc = "marking" => i \notin poll[m].items

(* What a manual run leaves that dies after an inner commit is for good: no *)
(* claim, marking or manual run takes the item up again (executor.py:158).  *)
StrandedStays == [][\A i \in Items : Stranded(i) => Stranded(i)']_vars
=============================================================================
