------------------------------ MODULE LiveFeed ------------------------------
(***************************************************************************)
(* Live market feeds (apps/api/app/modules/live): subscriptions, the       *)
(* workers that stream them under a lease, the stale monitor, the          *)
(* operators' commands, and the candle each message updates.               *)
(*                                                                         *)
(* Messages come from the streams of the workers and from requests that    *)
(* post one (POST /live/subscriptions/{id}/events), served without a lease.*)
(* Ingesting a message is one transaction of three parts.  It loads the    *)
(* subscription (`seen'); its first flush, of last_message_at, then locks  *)
(* the row until the commit; a candle is read and written under that lock. *)
(* Nothing locks the candle itself between the read and the write.  As     *)
(* everywhere, an UPDATE writes the columns that differ from the copy.     *)
(*                                                                         *)
(* The subscriptions feed the same series, and one candle of it is kept.   *)
(* Whether a subscription looks stale depends on the age of its messages   *)
(* and is left open.  Leases are countdowns; a worker that dies comes back *)
(* under a new name.  Stored events and wordings of errors are left out.   *)
(***************************************************************************)
EXTENDS Integers, FiniteSets

CONSTANTS
    Subs,        \* subscriptions to one symbol, source and timeframe
    Workers,     \* live feed workers
    Posters,     \* requests that post a message, as many as are served at once
    NoWorker,    \* worker_id IS NULL
    Messages,    \* what a provider may send, see Message
    Posted,      \* what a request may post
    Values,      \* prices and volumes of a candle
    NoValue,     \* no candle stored, or no candle in a message
    Commands,    \* what an operator may ask for, see Command
    LeaseTicks   \* lease_seconds

Statuses == {"active", "paused", "failed", "stopped", "stale"}
Halted == {"paused", "failed", "stopped"}
Muted == {"paused", "stopped"}

\* "error" stands for every message that fails: an error of the provider, a
\* payload that does not parse, a candle that is not valid.
Message == [type : {"heartbeat", "error"}, value : {NoValue}]
           \cup [type : {"partial", "final"}, value : Values]

\* By a route of its own (start, resume, pause, stop) or by a PATCH.
Command == [target : {"active", "paused", "stopped"}, patch : {FALSE}]
           \cup [target : Statuses, patch : {TRUE}]

ASSUME LiveFeedAssumption ==
    /\ NoWorker \notin Workers
    /\ Workers \cap Posters = {}
    /\ NoValue \notin Values
    /\ Messages \cup Posted \subseteq Message
    /\ Commands \subseteq Command
    /\ LeaseTicks \in Nat \ {0}

VARIABLES
    row,      \* committed rows of live_feed_subscriptions
    candle,   \* the committed candle
    feed,     \* feed[i][s]: the task of worker i, or request i, for subscription s
    call,     \* call[s]: an operator's command in flight
    sweep,    \* subscriptions the stale monitor has found stale
    dead,     \* workers that crashed or were shut down
    cleared   \* tasks whose lease a change of status has cleared

vars == <<row, candle, feed, call, sweep, dead, cleared>>

Ingesters == Workers \cup Posters

Row == [status : Statuses, worker : Workers \cup {NoWorker},
        lease : 0..LeaseTicks]
\* What an UPDATE will write, settled when the row is loaded.
Change == [target : Statuses, status : BOOLEAN, lease : BOOLEAN]
Candle == [final : BOOLEAN, value : Values \cup {NoValue}]
Phases == {"idle", "open", "streaming", "loaded", "upsert", "check",
           "failing", "marking", "closing"}

NoCandle == [final |-> FALSE, value |-> NoValue]
Silence == [type |-> "heartbeat", value |-> NoValue]
NoChange == [target |-> "active", status |-> FALSE, lease |-> FALSE]
At(phase) == [pc |-> phase, msg |-> Silence, seen |-> "active",
              read |-> NoCandle, change |-> NoChange]
NoCall == [pc |-> "idle", change |-> NoChange]

Task == [pc : Phases, msg : Messages \cup Posted \cup {Silence}, seen : Statuses,
         read : Candle, change : Change]
Call == [pc : {"idle", "read"}, change : Change]

RowFree(s) == \A i \in Ingesters : feed[i][s].pc # "upsert"
Running(i, s) == feed[i][s].pc # "idle"
Moved(i, s, phase) == feed' = [feed EXCEPT ![i][s] = At(phase)]

Init ==
    /\ row = [s \in Subs |-> [status |-> "active", worker |-> NoWorker, lease |-> 0]]
    /\ candle = NoCandle
    /\ feed = [i \in Ingesters |-> [s \in Subs |-> At("idle")]]
    /\ call = [s \in Subs |-> NoCall]
    /\ sweep = {}
    /\ dead = {}
    /\ cleared = {}

-----------------------------------------------------------------------------
(* Changes of status, decided on a copy.                                   *)

\* The columns that differ from the copy.  A PATCH leaves the lease alone.
Decided(s, target, patch) ==
    [target |-> target,
     status |-> row[s].status # target,
     lease |-> ~patch /\ target \in Halted /\ row[s].worker # NoWorker]

Written(s, change) ==
    /\ row' = [row EXCEPT
         ![s] = [status |-> IF change.status THEN change.target ELSE @.status,
                 worker |-> IF change.lease THEN NoWorker ELSE @.worker,
                 lease |-> IF change.lease THEN 0 ELSE @.lease]]
    /\ cleared' = cleared \cup {<<w, s>> : w \in {v \in Workers :
                                    change.lease /\ row[s].worker = v}}

CommandRead(s, command) ==
    /\ call[s].pc = "idle"
    /\ call' = [call EXCEPT ![s] =
                  [pc |-> "read",
                   change |-> Decided(s, command.target, command.patch)]]
    /\ UNCHANGED <<row, candle, feed, sweep, dead, cleared>>

CommandWrite(s) ==
    /\ call[s].pc = "read"
    /\ RowFree(s)
    /\ Written(s, call[s].change)
    /\ call' = [call EXCEPT ![s] = NoCall]
    /\ UNCHANGED <<candle, feed, sweep, dead>>

\* The monitor loads the active subscriptions and picks the stale ones ...
SweepRead(stale) ==
    /\ sweep = {}
    /\ stale # {}
    /\ \A s \in stale : row[s].status = "active"
    /\ sweep' = stale
    /\ UNCHANGED <<row, candle, feed, call, dead, cleared>>

\* ... and marks them, whatever their rows say by now.
SweepWrite ==
    /\ sweep # {}
    /\ \A s \in sweep : RowFree(s)
    /\ row' = [s \in Subs |-> IF s \in sweep
                              THEN [row[s] EXCEPT !.status = "stale"]
                              ELSE row[s]]
    /\ sweep' = {}
    /\ UNCHANGED <<candle, feed, call, dead, cleared>>

-----------------------------------------------------------------------------
(* The worker's task: lease, connect, stream, release.                     *)

\* Mutant: a lease that has expired is not taken over.
Acquirable_OnlyFree(w, s) ==
    /\ row[s].status = "active"
    /\ row[s].worker \in {w, NoWorker}

\* Free, the worker's own, or expired.
Acquirable(w, s) ==
    /\ row[s].status = "active"
    /\ row[s].worker \in {w, NoWorker} \/ row[s].lease = 0

Acquire(w, s) ==
    /\ w \notin dead
    /\ ~Running(w, s)
    /\ RowFree(s)
    /\ Acquirable(w, s)
    /\ row' = [row EXCEPT ![s] = [@ EXCEPT !.worker = w, !.lease = LeaseTicks]]
    /\ Moved(w, s, "open")
    /\ UNCHANGED <<candle, call, sweep, dead, cleared>>

Connect(w, s) ==
    /\ feed[w][s].pc = "open"
    /\ Moved(w, s, "streaming")
    /\ UNCHANGED <<row, candle, call, sweep, dead, cleared>>

\* A connection that is lost, or cannot be had, is tried again after a pause;
\* the end of the stream ends the task; other exceptions fail the subscription.
StreamEnds(w, s) ==
    /\ feed[w][s].pc \in {"open", "streaming"}
    /\ \E next \in {"open", "closing", "failing"} : Moved(w, s, next)
    /\ UNCHANGED <<row, candle, call, sweep, dead, cleared>>

\* Mutant of the filter on worker_id.
Holds_Unchecked(w, s) == TRUE

\* Refreshing and releasing a lease compare worker_id.
Holds(w, s) == row[s].worker = w

\* Mutant: the lease is prolonged instead of renewed.
RefreshLease_Extends(w, s) ==
    /\ Running(w, s)
    /\ Holds(w, s)
    /\ RowFree(s)
    /\ row[s].lease < LeaseTicks
    /\ row' = [row EXCEPT ![s].lease = @ + LeaseTicks]
    /\ UNCHANGED <<candle, feed, call, sweep, dead, cleared>>

\* Every third of the lease and after each message, whatever the stream is
\* doing; that it may fail is not looked at.
RefreshLease(w, s) ==
    /\ Running(w, s)
    /\ Holds(w, s)
    /\ RowFree(s)
    /\ row[s].lease < LeaseTicks
    /\ row' = [row EXCEPT ![s].lease = LeaseTicks]
    /\ UNCHANGED <<candle, feed, call, sweep, dead, cleared>>

\* Mutant: a stopped subscription goes unnoticed.
ShouldStop_NotWhenStopped(s) == row[s].status \in {"paused", "failed"}

ShouldStop(s) == row[s].status \in Halted

StopCheck(w, s) ==
    /\ feed[w][s].pc = "check"
    /\ Moved(w, s, IF ShouldStop(s) THEN "closing" ELSE "streaming")
    /\ UNCHANGED <<row, candle, call, sweep, dead, cleared>>

FailRead(w, s) ==
    /\ feed[w][s].pc = "failing"
    /\ feed' = [feed EXCEPT ![w][s] =
                  [At("marking") EXCEPT !.change = Decided(s, "failed", FALSE)]]
    /\ UNCHANGED <<row, candle, call, sweep, dead, cleared>>

FailWrite(w, s) ==
    /\ feed[w][s].pc = "marking"
    /\ RowFree(s)
    /\ Written(s, feed[w][s].change)
    /\ Moved(w, s, "closing")
    /\ UNCHANGED <<candle, call, sweep, dead>>

\* Only the worker's own lease is given up.
Release(w, s) ==
    /\ feed[w][s].pc = "closing"
    /\ RowFree(s)
    /\ row' = IF Holds(w, s)
              THEN [row EXCEPT ![s] = [@ EXCEPT !.worker = NoWorker, !.lease = 0]]
              ELSE row
    /\ Moved(w, s, "idle")
    /\ cleared' = cleared \ {<<w, s>>}
    /\ UNCHANGED <<candle, call, sweep, dead>>

-----------------------------------------------------------------------------
(* ingest_provider_message.                                                *)

\* A message at hand, the subscription is loaded.
Loads(i, s, msg) ==
    /\ feed' = [feed EXCEPT ![i][s] =
                  [At("loaded") EXCEPT !.msg = msg, !.seen = row[s].status]]
    /\ UNCHANGED <<row, candle, call, sweep, dead, cleared>>

Receive(w, s, msg) == feed[w][s].pc = "streaming" /\ Loads(w, s, msg)

\* A posted message asks for no lease and no status.
Post(p, s, msg) == (\A t \in Subs : ~Running(p, t)) /\ Loads(p, s, msg)

\* After its message a task goes on; a request has its answer.
Goes(i, s, phase) == Moved(i, s, IF i \in Workers THEN phase ELSE "idle")

\* What a processed message, and a failed one, writes to the status.
Revived(s, seen) ==
    IF seen = "stale" THEN [row EXCEPT ![s].status = "active"] ELSE row
EventFailed(s, seen) ==
    IF seen = "failed" THEN row ELSE [row EXCEPT ![s].status = "failed"]

\* The flush that stores the event, and for all but a candle the commit.
Begin(i, s) ==
    LET msg == feed[i][s].msg
        seen == feed[i][s].seen
    IN  /\ feed[i][s].pc = "loaded"
        /\ RowFree(s)
        /\ IF seen \notin Muted /\ msg.type \in {"partial", "final"}
           THEN /\ feed' = [feed EXCEPT ![i][s] =
                             [@ EXCEPT !.pc = "upsert", !.read = candle]]
                /\ UNCHANGED row
           ELSE /\ row' = IF seen \in Muted THEN row
                          ELSE IF msg.type = "error" THEN EventFailed(s, seen)
                          ELSE Revived(s, seen)
                /\ Goes(i, s, "check")
        /\ UNCHANGED <<candle, call, sweep, dead, cleared>>

IsFinal(msg) == msg.type = "final"

\* Mutants of the checks against a final candle.
LatePartial_Never(msg, read) == FALSE
Conflicting_Never(msg, read) == FALSE

LatePartial(msg, read) == read.final /\ ~IsFinal(msg)
Conflicting(msg, read) == read.final /\ IsFinal(msg) /\ read.value # msg.value
Duplicate(msg, read) == read.final /\ IsFinal(msg) /\ read.value = msg.value

\* Two inserts of one candle: the unique constraint fails the second.
InsertRace(read) == read = NoCandle /\ candle # NoCandle

\* Mutant: every column is written.
Applied_AllColumns(msg, read) == [final |-> IsFinal(msg), value |-> msg.value]

\* An insert, or an update of the columns that differ from what was read.
Applied(msg, read) ==
    [final |-> IF read.final = IsFinal(msg) THEN candle.final ELSE IsFinal(msg),
     value |-> IF read.value = msg.value THEN candle.value ELSE msg.value]

Upsert(i, s) ==
    LET msg == feed[i][s].msg
        seen == feed[i][s].seen
        read == feed[i][s].read
    IN  /\ feed[i][s].pc = "upsert"
        /\ IF InsertRace(read)
           THEN /\ Goes(i, s, "failing")
                /\ UNCHANGED <<row, candle>>
           ELSE /\ Goes(i, s, "check")
                /\ row' = IF LatePartial(msg, read) THEN row
                          ELSE IF Conflicting(msg, read) THEN EventFailed(s, seen)
                          ELSE Revived(s, seen)
                /\ candle' = IF \/ LatePartial(msg, read)
                                \/ Conflicting(msg, read)
                                \/ Duplicate(msg, read)
                             THEN candle
                             ELSE Applied(msg, read)
        /\ UNCHANGED <<call, sweep, dead, cleared>>

-----------------------------------------------------------------------------
(* Faults and time.                                                        *)

\* A crash loses the worker's tasks and what they have not committed.
Crash(w) ==
    /\ w \notin dead
    /\ dead' = dead \cup {w}
    /\ feed' = [feed EXCEPT ![w] = [s \in Subs |-> At("idle")]]
    /\ cleared' = {t \in cleared : t[1] # w}
    /\ UNCHANGED <<row, candle, call, sweep>>

\* A shutdown cancels them; each still releases its lease.
Shutdown(w) ==
    /\ w \notin dead
    /\ dead' = dead \cup {w}
    /\ feed' = [feed EXCEPT ![w] = [s \in Subs |->
                  IF Running(w, s) THEN At("closing") ELSE At("idle")]]
    /\ UNCHANGED <<row, candle, call, sweep, cleared>>

\* A request is lost, with the process that serves it or its connection to the
\* database, and rolls back.
PostDropped(p, s) ==
    /\ Running(p, s)
    /\ Moved(p, s, "idle")
    /\ UNCHANGED <<row, candle, call, sweep, dead, cleared>>

Tick ==
    /\ \E s \in Subs : row[s].lease > 0
    /\ row' = [s \in Subs |-> [row[s] EXCEPT !.lease = IF @ > 0 THEN @ - 1 ELSE 0]]
    /\ UNCHANGED <<candle, feed, call, sweep, dead, cleared>>

\* Refreshes come in time: no lease lapses under a task that holds it.
TimelyTick ==
    /\ \A w \in Workers, s \in Subs :
          Running(w, s) /\ Holds(w, s) => row[s].lease > 1
    /\ Tick

\* What a task does next, once it has begun something.
GoesOn(w, s) ==
    \/ Connect(w, s)
    \/ Begin(w, s)
    \/ Upsert(w, s)
    \/ StopCheck(w, s)
    \/ FailRead(w, s)
    \/ FailWrite(w, s)
    \/ Release(w, s)

TaskStep(w, s) ==
    \/ Acquire(w, s)
    \/ \E msg \in Messages : Receive(w, s, msg)
    \/ StreamEnds(w, s)
    \/ RefreshLease(w, s)
    \/ GoesOn(w, s)

PostGoesOn(p, s) == Begin(p, s) \/ Upsert(p, s)

PostStep(p, s) ==
    \/ \E msg \in Posted : Post(p, s, msg)
    \/ PostGoesOn(p, s)
    \/ PostDropped(p, s)

CommandStep(s) ==
    \/ \E command \in Commands : CommandRead(s, command)
    \/ CommandWrite(s)

SweepStep ==
    \/ \E stale \in SUBSET Subs : SweepRead(stale)
    \/ SweepWrite

Next ==
    \/ \E w \in Workers, s \in Subs : TaskStep(w, s)
    \/ \E p \in Posters, s \in Subs : PostStep(p, s)
    \/ \E s \in Subs : CommandStep(s)
    \/ SweepStep
    \/ \E w \in Workers : Crash(w) \/ Shutdown(w)
    \/ TimelyTick

Spec == Init /\ [][Next]_vars

\* Workers poll and refresh, their tasks go on, messages keep coming to a
\* stream that is opened again and again, a command or a posted message that
\* was begun ends, time passes.
\* Lost streams, posts, commands, sweeps and faults need not happen.
Fairness ==
    /\ WF_vars(TimelyTick)
    /\ WF_vars(SweepWrite)
    /\ \A s \in Subs : WF_vars(CommandWrite(s))
    /\ \A w \in Workers, s \in Subs :
        /\ WF_vars(Acquire(w, s))
        /\ WF_vars(GoesOn(w, s))
        /\ WF_vars(RefreshLease(w, s))
        /\ SF_vars(\E msg \in Messages : Receive(w, s, msg))
    /\ \A p \in Posters, s \in Subs : WF_vars(PostGoesOn(p, s))

FairSpec == Spec /\ Fairness

-----------------------------------------------------------------------------
(* Properties.                                                             *)

TypeOK ==
    /\ row \in [Subs -> Row]
    /\ candle \in Candle
    /\ feed \in [Ingesters -> [Subs -> Task]]
    /\ call \in [Subs -> Call]
    /\ sweep \subseteq Subs
    /\ dead \subseteq Workers
    /\ cleared \subseteq Workers \X Subs

\* Of the workers streaming a subscription, at most one still has the lease
\* it acquired: tasks overlap only after a change of status cleared the lease
\* of one that goes on streaming.
OneUnclearedStream ==
    \A s \in Subs, v, w \in Workers :
        Running(v, s) /\ Running(w, s) /\ v # w =>
            <<v, s>> \in cleared \/ <<w, s>> \in cleared

\* "Late partial candle is ignored after a final row exists", and a final
\* that conflicts fails its event: with one subscription of the series a final
\* candle never changes, though two workers may be streaming it.
FinalCandleKept == [][candle.final => candle' = candle]_vars

\* No two subscriptions are in the middle of an upsert at once.
OneUpserts ==
    \A s, t \in Subs, i, j \in Ingesters :
        feed[i][s].pc = "upsert" /\ feed[j][t].pc = "upsert" => s = t

\* With several, a transaction that read the candle before it was final may
\* still write its values over it; no other can ...
OnlyStaleReadsRewrite ==
    [][candle.final /\ candle' # candle =>
         \E i \in Ingesters, s \in Subs :
            /\ feed[i][s].pc = "upsert" /\ ~feed[i][s].read.final
            /\ feed'[i][s].pc # "upsert"]_vars

\* ... and it leaves the candle final: a partial never reopens it.
FinalNeverReopens == [][candle.final => candle'.final]_vars

\* A stopped subscription ends its streams, unless it is started again or a
\* stale copy is written over it.
StopEndsStreams ==
    \A s \in Subs : row[s].status = "stopped" ~>
        row[s].status # "stopped" \/ \A w \in Workers : ~Running(w, s)

\* An active subscription is streamed as long as one worker is left, even
\* if the worker that had it died with the lease.
ActiveIsStreamed ==
    \A s \in Subs : row[s].status = "active" ~>
        \/ row[s].status # "active"
        \/ \E w \in Workers : Running(w, s)
        \/ dead = Workers

\* Subscription s is not active, stale for instance, and no task and no command
\* is at it.
Unserved(s) ==
    /\ row[s].status # "active"
    /\ \A w \in Workers : ~Running(w, s)
    /\ call[s].pc = "idle"

\* The step ends a posted message that had loaded s as stale.
PostRevives(s) ==
    \E p \in Posters :
        /\ feed[p][s].pc \in {"loaded", "upsert"} /\ feed[p][s].seen = "stale"
        /\ feed'[p][s].pc = "idle"

\* No worker comes back to it by itself, whatever lives or restarts: candidates
\* must be active (repository.py:79).  A subscription gone stale, failed or
\* halted waits for an operator, or for a message posted to it while stale;
\* one posted while it is failed, paused or stopped does not bring it back.
UnservedStays ==
    [][\A s \in Subs :
          Unserved(s) => Unserved(s)' \/ call'[s].pc # "idle" \/ PostRevives(s)]_vars
=============================================================================
