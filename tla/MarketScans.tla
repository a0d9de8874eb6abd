----------------------------- MODULE MarketScans -----------------------------
(***************************************************************************)
(* Scheduled market scans (apps/api/app/modules/market_scans): a scan      *)
(* config is due at next_run_at; a poller (the scheduler, or a run-due     *)
(* request) runs a batch of due configs, and a request runs one by force.  *)
(*                                                                         *)
(* An executor looks for a run in progress, then for a run of the same     *)
(* occurrence, and inserts its run row without committing it.  The row     *)
(* becomes visible with the first analysis, whose service commits the      *)
(* shared session, and otherwise at the end.  A poller works from the      *)
(* copies it loaded when it listed the due configs (expire_on_commit=False,*)
(* identity map), however old they have become.                            *)
(*                                                                         *)
(* Run rows are abstracted to running, skipped and done (completed, with   *)
(* warnings, or failed); counts, artifact ids and log lines are left out.  *)
(***************************************************************************)
EXTENDS Integers, Sequences, FiniteSets

CONSTANTS
    Configs,    \* rows of scheduled_scan_configs
    Pollers,    \* processes that run due configs: the worker, run-due requests
    Requests,   \* requests to run one config by force
    NoTime,     \* next_run_at IS NULL; a forced run's own timestamp
    Starts,     \* the configs as created, and as operators may have left them
    Targets,    \* scan targets of a config
    Interval,   \* interval_seconds
    BatchSize,  \* MARKET_SCAN_WORKER_BATCH_SIZE
    Horizon,    \* bound: the clock stops here
    MaxEdits,   \* bound: changes made by operators
    MaxFaults   \* bound: executions that die or escape

ASSUME ScansAssumption ==
    /\ Pollers \cap Requests = {}
    /\ NoTime \notin Nat
    /\ Starts \subseteq [Configs -> [status : {"active", "paused"},
                                    next : Nat \cup {NoTime}]]
    /\ Targets \in Nat \ {0}
    /\ Interval \in Nat \ {0}
    /\ BatchSize \in Nat \ {0}
    /\ {Horizon, MaxEdits, MaxFaults} \subseteq Nat

VARIABLES
    now,      \* the database clock
    config,   \* committed config rows
    rows,     \* committed run rows, in the order they became visible
    exec,     \* what each executor is at
    edits,    \* operator changes so far
    faults    \* faults so far

vars == <<now, config, rows, exec, edits, faults>>

-----------------------------------------------------------------------------
Executors == Pollers \cup Requests
Times == Nat \cup {NoTime}
Config == [status : {"active", "paused"}, next : Times]
Row == [config : Configs, occurrence : Times, status : {"running", "skipped", "done"}]

\* A config as an executor loaded it; occurrence is NoTime for a forced run.
Task == [config : Configs, occurrence : Times, active : BOOLEAN]

\* tasks: what is left of the batch; the one being run is the only element of
\* current.  row: the index of its run row, 0 until that is visible.
Exec == [pc : {"idle", "next", "looked", "scan", "answered"},
         tasks : SUBSET Task, current : SUBSET Task, row : Nat, left : 0..Targets]

Idle == [pc |-> "idle", tasks |-> {}, current |-> {}, row |-> 0, left |-> 0]
Answered == [Idle EXCEPT !.pc = "answered"]
Batch(tasks) == [Idle EXCEPT !.pc = "next", !.tasks = tasks]
Rest(e) == IF e \in Pollers THEN Idle ELSE Answered

\* Executor e is done with its current task.
Continue(e) ==
    exec' = [exec EXCEPT ![e] = IF @.tasks = {} THEN Rest(e) ELSE Batch(@.tasks)]

\* create_scan_config; it touches no other row.
CreatedConfig(t) == [status |-> "active", next |-> t]

Init ==
    /\ now = 0
    /\ config \in Starts
    /\ rows = <<>>
    /\ exec = [e \in Executors |-> Idle]
    /\ edits = 0
    /\ faults = 0

-----------------------------------------------------------------------------
(* Operators: the config endpoints.                                        *)

\* A request that changes nothing writes nothing.
Edit(c, row) ==
    /\ row # config[c]
    /\ edits < MaxEdits
    /\ edits' = edits + 1
    /\ config' = [config EXCEPT ![c] = row]
    /\ UNCHANGED <<now, rows, exec, faults>>

(* Pause and archive, or a PATCH of the status. *)
SetStatus(c, s) == Edit(c, [config[c] EXCEPT !.status = s])

ResumeConfig(c) ==
    Edit(c, [config[c] EXCEPT !.status = "active",
                              !.next = IF @ = NoTime THEN now + Interval ELSE @])

(* A PATCH of next_run_at, to any time or to null. *)
SetNext(c, t) == Edit(c, [config[c] EXCEPT !.next = t])

-----------------------------------------------------------------------------
(* Execution.                                                              *)

Due(c) ==
    /\ config[c].status = "active"
    /\ config[c].next # NoTime
    /\ config[c].next <= now

\* list_due_scan_configs: as many as the limit allows, oldest first.
DueBatch(S) ==
    LET D == {c \in Configs : Due(c)}
    IN  /\ S \subseteq D
        /\ S # {}
        /\ Cardinality(S) <= BatchSize
        /\ S = D \/ Cardinality(S) = BatchSize
        /\ \A a \in S, b \in D \ S : config[a].next <= config[b].next

\* Mutant: a config that was loaded is taken to be active.
Loaded_AsActive(c, occurrence) ==
    [config |-> c, occurrence |-> occurrence, active |-> TRUE]

Loaded(c, occurrence) ==
    [config |-> c, occurrence |-> occurrence, active |-> config[c].status = "active"]

Poll(p) ==
    /\ exec[p].pc = "idle"
    /\ \E S \in SUBSET Configs :
        /\ DueBatch(S)
        /\ exec' = [exec EXCEPT ![p] =
                      Batch({Loaded(c, config[c].next) : c \in S})]
    /\ UNCHANGED <<now, config, rows, edits, faults>>

RequestRun(r, c) ==
    /\ exec[r].pc = "idle"
    /\ exec' = [exec EXCEPT ![r] = Batch({Loaded(c, NoTime)})]
    /\ UNCHANGED <<now, config, rows, edits, faults>>

\* Mutant: only scheduled runs are looked for.
InProgress_ScheduledOnly(c) ==
    \E i \in DOMAIN rows :
        rows[i].config = c /\ rows[i].status = "running" /\ rows[i].occurrence # NoTime

InProgress(c) ==
    \E i \in DOMAIN rows : rows[i].config = c /\ rows[i].status = "running"

\* get_running_scan_run_for_config: a run in progress is returned instead.
LookForRunning(e) ==
    /\ exec[e].pc = "next"
    /\ \E t \in exec[e].tasks :
        /\ \A u \in exec[e].tasks : u.occurrence # NoTime => t.occurrence <= u.occurrence
        /\ LET rest == exec[e].tasks \ {t}
           IN  exec' = [exec EXCEPT ![e] =
                  IF ~InProgress(t.config)
                  THEN [@ EXCEPT !.pc = "looked", !.tasks = rest, !.current = {t}]
                  ELSE IF rest = {} THEN Rest(e) ELSE [@ EXCEPT !.tasks = rest]]
    /\ UNCHANGED <<now, config, rows, edits, faults>>

\* Mutant: only a run in progress counts.
Recorded_OnlyRunning(t) ==
    /\ t.occurrence # NoTime
    /\ \E i \in DOMAIN rows :
         /\ rows[i].config = t.config
         /\ rows[i].occurrence = t.occurrence
         /\ rows[i].status = "running"

\* get_scan_run_by_scheduled_for: the occurrence has a run already.
Recorded(t) ==
    /\ t.occurrence # NoTime
    /\ \E i \in DOMAIN rows :
         rows[i].config = t.config /\ rows[i].occurrence = t.occurrence

\* The run of the occurrence is returned, or a new one inserted.
LookForOccurrence(e) ==
    /\ exec[e].pc = "looked"
    /\ \E t \in exec[e].current :
         IF Recorded(t)
         THEN Continue(e)
         ELSE exec' = [exec EXCEPT ![e].pc = "scan", ![e].left = Targets]
    /\ UNCHANGED <<now, config, rows, edits, faults>>

\* The run row of executor e in the committed table, with this status.
Written(e, t, s) ==
    IF exec[e].row = 0
    THEN Append(rows, [config |-> t.config, occurrence |-> t.occurrence, status |-> s])
    ELSE [rows EXCEPT ![exec[e].row].status = s]

Scanning(e, t) == exec[e].pc = "scan" /\ exec[e].current = {t}

\* Mutant: goes on after the last target.
PassTarget_Endless(e, t) ==
    /\ Scanning(e, t)
    /\ t.active
    /\ exec' = [exec EXCEPT ![e].left = @ - 1]
    /\ UNCHANGED <<now, config, rows, edits, faults>>

\* A target is skipped for want of candles, or fails on a clean error.
PassTarget(e, t) ==
    /\ Scanning(e, t)
    /\ t.active
    /\ exec[e].left > 0
    /\ exec' = [exec EXCEPT ![e].left = @ - 1]
    /\ UNCHANGED <<now, config, rows, edits, faults>>

\* Mutant: the schedule advances before the scan.
AnalyseTarget_AdvanceFirst(e, t) ==
    /\ Scanning(e, t)
    /\ t.active
    /\ exec[e].left > 0
    /\ rows' = Written(e, t, "running")
    /\ config' = [config EXCEPT ![t.config].next = now + Interval]
    /\ exec' = [exec EXCEPT ![e].left = @ - 1,
                            ![e].row = IF @ = 0 THEN Len(rows) + 1 ELSE @]
    /\ UNCHANGED <<now, edits, faults>>

\* An analysis is created and committed, and the run row with it.
AnalyseTarget(e, t) ==
    /\ Scanning(e, t)
    /\ t.active
    /\ exec[e].left > 0
    /\ rows' = Written(e, t, "running")
    /\ exec' = [exec EXCEPT ![e].left = @ - 1,
                            ![e].row = IF @ = 0 THEN Len(rows) + 1 ELSE @]
    /\ UNCHANGED <<now, config, edits, faults>>

\* The last commit: the run's outcome and the config's next time.
FinishRun(e, t, s) ==
    /\ rows' = Written(e, t, s)
    /\ config' = IF t.active
                 THEN [config EXCEPT ![t.config].next = now + Interval]
                 ELSE config
    /\ Continue(e)
    /\ UNCHANGED <<now, edits, faults>>

\* The copy is not active, the watchlist is paused or has no active items.
SkipRun(e, t) ==
    /\ Scanning(e, t)
    /\ exec[e].left = Targets
    /\ FinishRun(e, t, "skipped")

CompleteRun(e, t) ==
    /\ Scanning(e, t)
    /\ t.active
    /\ exec[e].left = 0
    /\ FinishRun(e, t, "done")

\* Mutant: the worker's loop does not catch what leaves a poll.
Escape_EndsWorker(e) ==
    /\ exec[e].pc \in {"next", "looked", "scan"}
    /\ faults < MaxFaults
    /\ faults' = faults + 1
    /\ exec' = [exec EXCEPT ![e] = Answered]
    /\ UNCHANGED <<now, config, rows, edits>>

(* The process dies, or an analysis rolls the session back: the handlers   *)
(* then meet expired rows and raise too, so the exception leaves the poll  *)
(* or the request.  What was committed stays as it is.                     *)
Escape(e) ==
    /\ exec[e].pc \in {"next", "looked", "scan"}
    /\ faults < MaxFaults
    /\ faults' = faults + 1
    /\ exec' = [exec EXCEPT ![e] = Rest(e)]
    /\ UNCHANGED <<now, config, rows, edits>>

Tick ==
    /\ now < Horizon
    /\ now' = now + 1
    /\ UNCHANGED <<config, rows, exec, edits, faults>>

-----------------------------------------------------------------------------
RunTask(e) ==
    \/ LookForRunning(e)
    \/ LookForOccurrence(e)
    \/ \E t \in exec[e].current : \/ PassTarget(e, t)
                                  \/ AnalyseTarget(e, t)
                                  \/ SkipRun(e, t)
                                  \/ CompleteRun(e, t)

Operator(c) ==
    \/ \E s \in {"active", "paused"} : SetStatus(c, s)
    \/ ResumeConfig(c)
    \/ \E t \in (0..Horizon) \cup {NoTime} : SetNext(c, t)

Next ==
    \/ \E c \in Configs : Operator(c)
    \/ \E p \in Pollers : Poll(p)
    \/ \E r \in Requests, c \in Configs : RequestRun(r, c)
    \/ \E e \in Executors : RunTask(e) \/ Escape(e)
    \/ Tick

Spec == Init /\ [][Next]_vars

\* Pollers poll for ever, and what an executor has begun it goes on with.
Fairness ==
    /\ \A p \in Pollers : WF_vars(Poll(p) \/ RunTask(p))
    /\ \A r \in Requests : WF_vars(RunTask(r))

FairSpec == Spec /\ Fairness

-----------------------------------------------------------------------------
TypeOK ==
    /\ now \in Nat
    /\ config \in [Configs -> Config]
    /\ rows \in Seq(Row)
    /\ exec \in [Executors -> Exec]
    /\ edits \in 0..MaxEdits
    /\ faults \in 0..MaxFaults

\* Executor e has loaded config c and not yet finished with it.
Holds(e, c) == \E t \in exec[e].tasks \cup exec[e].current : t.config = c

\* Executor e has found no run of c in progress and goes on to run it.
PastLook(e, c) ==
    /\ exec[e].pc \in {"looked", "scan"}
    /\ \E t \in exec[e].current : t.config = c

(* A scheduled occurrence is scanned at most once, although the schedule   *)
(* advances only with the last commit, runs escape before and after the    *)
(* first one, and operators move next_run_at back, given PollersApart.     *)
OneRunPerOccurrence ==
    \A i, j \in DOMAIN rows :
        /\ rows[i].occurrence # NoTime
        /\ rows[i].config = rows[j].config
        /\ rows[i].occurrence = rows[j].occurrence
        => i = j

\* The executor that made run i visible died before it finished it.
Abandoned(i) == rows[i].status = "running" /\ \A e \in Executors : exec[e].row # i
Frozen(c) == \E i \in DOMAIN rows : rows[i].config = c /\ Abandoned(i)

\* An abandoned run stands, and whoever looked before it appeared is done.
Sealed(c) == Frozen(c) /\ \A e \in Executors : ~PastLook(e, c)

(* A config with an abandoned run is never scanned again, by schedule or by*)
(* force: it gets no new run, and only an operator moves its schedule.     *)
SealedStaysSealed ==
    [][\A c \in Configs : Sealed(c) =>
          /\ Sealed(c)'
          /\ \A i \in DOMAIN rows' : rows'[i].config = c => i \in DOMAIN rows
          /\ config'[c].next # config[c].next => edits' # edits]_vars

(* The schedule of a config moves on only in the transaction that records  *)
(* a finished run of it: no crash or rollback uses up an occurrence without*)
(* a record of what became of it.                                          *)
AdvanceIsRecorded ==
    [][\A c \in Configs :
          config'[c].next # config[c].next
             => \/ edits' # edits
                \/ \E i \in DOMAIN rows' :
                      /\ rows'[i].config = c
                      /\ rows'[i].status # "running"
                      /\ i \in DOMAIN rows => rows[i].status = "running"]_vars

\* A paused config that no executor still holds as active.
Resting(c) ==
    /\ config[c].status = "paused"
    /\ \A e \in Executors : \A t \in exec[e].tasks \cup exec[e].current :
          t.config = c => ~t.active

(* A pause takes effect once the executors that loaded the config as active*)
(* are done: from then on, until an operator acts, a request by force      *)
(* leaves a skipped run at most, and the schedule stays where it is.       *)
PauseHolds ==
    [][\A c \in Configs : Resting(c) /\ edits' = edits =>
          /\ Resting(c)'
          /\ config'[c].next = config[c].next
          /\ \A i \in DOMAIN rows' \ DOMAIN rows :
                rows'[i].config = c => rows'[i].status = "skipped"]_vars

\* Config c stands at an occurrence that has a run: it is listed, and returned
\* without being run or advanced.
Repeated(c) ==
    /\ config[c].next # NoTime
    /\ \E i \in DOMAIN rows :
         rows[i].config = c /\ rows[i].occurrence = config[c].next

Stuck(c) == Due(c) /\ (Frozen(c) \/ Repeated(c))

(* A due config is served, whatever the others do, unless it is stuck      *)
(* itself or stuck configs fill a batch: they stay due, and come first.    *)
DueIsServed ==
    \A c \in Configs :
        Due(c) ~> \/ ~Due(c)
                  \/ Stuck(c)
                  \/ Cardinality({d \in Configs : Stuck(d)}) >= BatchSize

\* No two pollers are past the look at once with the same config.
PollersApart ==
    \A c \in Configs : \A p, q \in Pollers : PastLook(p, c) /\ PastLook(q, c) => p = q

\* No two executors are past the look at once with the same config.
AloneAtConfigs ==
    \A c \in Configs : \A e, f \in Executors : PastLook(e, c) /\ PastLook(f, c) => e = f

(* A config has one run in progress at most, an abandoned one included, if *)
(* executors are AloneAtConfigs: get_running_scan_run_for_config sees only *)
(* rows that are committed (scanner.py:82).                                *)
NoOverlap ==
    \A i, j \in DOMAIN rows :
        rows[i].config = rows[j].config /\ rows[i].status = "running"
        /\ rows[j].status = "running" => i = j
=============================================================================
