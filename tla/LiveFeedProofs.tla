--------------------------- MODULE LiveFeedProofs ---------------------------
(***************************************************************************)
(* Proofs about LiveFeed, for all subscriptions, workers, requests and     *)
(* messages.                                                               *)
(*                                                                         *)
(* The type invariant; then Leased, by which a running task whose lease no *)
(* change of status has cleared still holds a live one, so that no other   *)
(* worker can acquire it; last what happens to a final candle.             *)
(***************************************************************************)
EXTENDS LiveFeed, TLAPS

-----------------------------------------------------------------------------
(* Updates of one row and of one task.                                     *)

LEMMA RowUpdate ==
    ASSUME row \in [Subs -> Row], NEW s \in Subs, NEW new \in Row,
           row' = [row EXCEPT ![s] = new]
    PROVE  /\ row' \in [Subs -> Row]
           /\ row'[s] = new
           /\ \A t \in Subs \ {s} : row'[t] = row[t]
OBVIOUS

LEMMA WorkersIngest == \A w \in Workers : w \in Ingesters
BY DEF Ingesters

LEMMA TaskUpdate ==
    ASSUME feed \in [Ingesters -> [Subs -> Task]],
           NEW i \in Ingesters, NEW s \in Subs,
           NEW task \in Task, feed' = [feed EXCEPT ![i][s] = task]
    PROVE  /\ feed' \in [Ingesters -> [Subs -> Task]]
           /\ feed'[i][s] = task
           /\ \A j \in Ingesters, t \in Subs :
                 j # i \/ t # s => feed'[j][t] = feed[j][t]
OBVIOUS

LEMMA TaskTypes ==
    /\ \A phase \in Phases : At(phase) \in Task /\ At(phase).pc = phase
    /\ NoChange \in Change
    /\ NoCall \in Call
    /\ NoCandle \in Candle
BY LiveFeedAssumption
   DEF Phases, Task, At, Silence, NoChange, Change, Statuses, NoCall, Call,
       Candle, NoCandle

LEMMA MovedTypes ==
    ASSUME feed \in [Ingesters -> [Subs -> Task]],
           NEW i \in Ingesters, NEW s \in Subs,
           NEW phase \in Phases, Moved(i, s, phase)
    PROVE  /\ feed' \in [Ingesters -> [Subs -> Task]]
           /\ feed'[i][s].pc = phase
           /\ \A j \in Ingesters, t \in Subs :
                 j # i \/ t # s => feed'[j][t] = feed[j][t]
BY TaskTypes, TaskUpdate DEF Moved

LEMMA DecidedType ==
    ASSUME NEW s \in Subs, NEW target \in Statuses, NEW patch \in BOOLEAN
    PROVE  Decided(s, target, patch) \in Change
BY DEF Decided, Change

LEMMA WrittenTypes ==
    ASSUME TypeOK, NEW s \in Subs, NEW change \in Change, Written(s, change)
    PROVE  /\ row' \in [Subs -> Row]
           /\ cleared' \subseteq Workers \X Subs
           /\ \A t \in Subs \ {s} : row'[t] = row[t]
           /\ row'[s].worker = IF change.lease THEN NoWorker ELSE row[s].worker
           /\ row'[s].lease = IF change.lease THEN 0 ELSE row[s].lease
<1> DEFINE new == [status |-> IF change.status THEN change.target ELSE row[s].status,
                   worker |-> IF change.lease THEN NoWorker ELSE row[s].worker,
                   lease |-> IF change.lease THEN 0 ELSE row[s].lease]
<1>1. new \in Row
  BY LiveFeedAssumption DEF TypeOK, Row, Change
<1>2. row' = [row EXCEPT ![s] = new]
  BY DEF Written, TypeOK
<1>3. cleared' \subseteq Workers \X Subs
  BY DEF Written, TypeOK
<1>4. row \in [Subs -> Row]
  BY DEF TypeOK
<1>5. /\ row' \in [Subs -> Row]
      /\ row'[s] = new
      /\ \A t \in Subs \ {s} : row'[t] = row[t]
  BY <1>1, <1>2, <1>4, RowUpdate
<1> QED
  BY <1>3, <1>5

\* A step that changes no lease.
LeasesKept ==
    /\ row' \in [Subs -> Row]
    /\ \A t \in Subs : row'[t].worker = row[t].worker /\ row'[t].lease = row[t].lease

LEMMA SameRows ==
    ASSUME TypeOK, row' = row
    PROVE  LeasesKept
BY DEF TypeOK, LeasesKept

LEMMA StatusUpdate ==
    ASSUME TypeOK, NEW s \in Subs, NEW seen,
           \/ row' = row
           \/ row' = Revived(s, seen)
           \/ row' = EventFailed(s, seen)
    PROVE  LeasesKept
<1>1. CASE row' = row
  BY <1>1, SameRows
<1>2. CASE row' # row
  <2>1. PICK status \in {"active", "failed"} : row' = [row EXCEPT ![s].status = status]
    BY <1>2 DEF Revived, EventFailed
  <2> DEFINE new == [row[s] EXCEPT !.status = status]
  <2>2. row \in [Subs -> Row]
    BY DEF TypeOK
  <2>3. new \in Row /\ new.worker = row[s].worker /\ new.lease = row[s].lease
    BY <2>2 DEF Row, Statuses
  <2>4. row' = [row EXCEPT ![s] = new]
    BY <2>1, <2>2
  <2> HIDE DEF new
  <2> QED
    BY <2>2, <2>3, <2>4, RowUpdate DEF LeasesKept
<1> QED
  BY <1>1, <1>2

(* What an upsert stores has a candle's type.                              *)
LEMMA AppliedType ==
    ASSUME candle \in Candle, NEW read \in Candle,
           NEW msg \in Messages \cup Posted \cup {Silence}
    PROVE  Applied(msg, read) \in Candle
<1>1. msg.value \in Values \cup {NoValue}
  BY LiveFeedAssumption DEF Message, Silence
<1> QED
  BY <1>1 DEF Applied, Candle, IsFinal

-----------------------------------------------------------------------------
(* Steps of a task, and what they leave alone.                             *)

\* Steps that neither begin nor end a worker's task.
TaskKept ==
    /\ feed' \in [Ingesters -> [Subs -> Task]]
    /\ \A w \in Workers, s \in Subs : Running(w, s)' <=> Running(w, s)

LEMMA TaskStays ==
    ASSUME feed \in [Ingesters -> [Subs -> Task]],
           NEW i \in Ingesters, NEW s \in Subs,
           NEW task \in Task, feed' = [feed EXCEPT ![i][s] = task],
           i \in Workers => feed[i][s].pc # "idle" /\ task.pc # "idle"
    PROVE  TaskKept
BY WorkersIngest, TaskUpdate DEF TaskKept, Running

LEMMA MoveStays ==
    ASSUME feed \in [Ingesters -> [Subs -> Task]],
           NEW i \in Ingesters, NEW s \in Subs,
           NEW phase \in Phases, Moved(i, s, phase),
           i \in Workers => feed[i][s].pc # "idle" /\ phase # "idle"
    PROVE  TaskKept
BY TaskTypes, TaskStays DEF Moved

LEMMA GoesStays ==
    ASSUME feed \in [Ingesters -> [Subs -> Task]],
           NEW i \in Ingesters, NEW s \in Subs, feed[i][s].pc # "idle",
           NEW phase \in Phases \ {"idle"}, Goes(i, s, phase)
    PROVE  TaskKept
<1>1. PICK next \in Phases : /\ next = IF i \in Workers THEN phase ELSE "idle"
                             /\ Moved(i, s, next)
  BY DEF Goes, Phases
<1> QED
  BY <1>1, MoveStays

LEMMA LoadsStays ==
    ASSUME TypeOK, NEW i \in Ingesters, NEW s \in Subs,
           NEW msg \in Messages \cup Posted, Loads(i, s, msg),
           i \in Workers => feed[i][s].pc # "idle"
    PROVE  TaskKept
<1> DEFINE task == [At("loaded") EXCEPT !.msg = msg, !.seen = row[s].status]
<1>1. row[s].status \in Statuses
  BY DEF TypeOK, Row
<1>2. task \in Task /\ task.pc = "loaded"
  BY <1>1, TaskTypes DEF Task, At, Phases
<1>3. feed' = [feed EXCEPT ![i][s] = task]
  BY DEF Loads
<1> HIDE DEF task
<1> QED
  BY <1>2, <1>3, TaskStays DEF TypeOK

\* The steps that touch no lease and begin or end no worker's task.
Quiet(i, s) ==
    \/ /\ i \in Workers
       /\ \/ \E msg \in Messages : Receive(i, s, msg)
          \/ StreamEnds(i, s)
          \/ Connect(i, s)
          \/ StopCheck(i, s)
          \/ FailRead(i, s)
    \/ /\ i \in Posters
       /\ \/ \E msg \in Posted : Post(i, s, msg)
          \/ PostDropped(i, s)
    \/ Begin(i, s)
    \/ Upsert(i, s)

LEMMA QuietEffect ==
    ASSUME TypeOK, NEW i \in Ingesters, NEW s \in Subs, Quiet(i, s)
    PROVE  /\ TaskKept /\ LeasesKept
           /\ candle' \in Candle
           /\ UNCHANGED <<call, sweep, dead, cleared>>
<1> USE DEF TypeOK
<1>0. /\ {"open", "closing", "failing", "streaming", "check"} \subseteq Phases \ {"idle"}
      /\ "idle" \in Phases
      /\ feed[i][s] \in Task
  BY DEF Phases
<1>1. ASSUME NEW msg \in Messages, Receive(i, s, msg)
      PROVE  TaskKept /\ LeasesKept /\ candle' \in Candle
  BY <1>1, LoadsStays, SameRows DEF Receive, Loads
<1>2. CASE StreamEnds(i, s)
  <2>1. TaskKept
    BY <1>0, <1>2, MoveStays DEF StreamEnds
  <2> QED
    BY <1>2, <2>1, SameRows DEF StreamEnds
<1>3. CASE Connect(i, s)
  <2>1. TaskKept
    BY <1>0, <1>3, MoveStays DEF Connect
  <2> QED
    BY <1>3, <2>1, SameRows DEF Connect
<1>4. CASE Begin(i, s)
  <2> DEFINE task == [feed[i][s] EXCEPT !.pc = "upsert", !.read = candle]
  <2>1. task \in Task /\ task.pc = "upsert"
    BY <1>0 DEF Task, Phases
  <2>2. CASE feed' = [feed EXCEPT ![i][s] = task] /\ row' = row
    <3> HIDE DEF task
    <3>1. TaskKept
      BY <1>4, <2>1, <2>2, TaskStays DEF Begin
    <3> QED
      BY <1>4, <2>2, <3>1, SameRows DEF Begin
  <2>3. CASE Goes(i, s, "check")
    <3>1. TaskKept
      BY <1>0, <1>4, <2>3, GoesStays DEF Begin
    <3>2. LeasesKept
      BY <1>4, StatusUpdate DEF Begin
    <3> QED
      BY <1>4, <3>1, <3>2 DEF Begin
  <2>4. (feed' = [feed EXCEPT ![i][s] = task] /\ row' = row) \/ Goes(i, s, "check")
    BY <1>4 DEF Begin
  <2> QED
    BY <2>2, <2>3, <2>4
<1>5. CASE Upsert(i, s)
  <2>1. TaskKept
    BY <1>0, <1>5, GoesStays DEF Upsert
  <2>2. LeasesKept
    BY <1>5, StatusUpdate DEF Upsert
  <2>3. candle' \in Candle
    <3>1. /\ feed[i][s].read \in Candle
          /\ feed[i][s].msg \in Messages \cup Posted \cup {Silence}
      BY <1>0 DEF Task
    <3>2. Applied(feed[i][s].msg, feed[i][s].read) \in Candle
      BY <3>1, AppliedType
    <3> QED
      BY <1>5, <3>2 DEF Upsert
  <2> QED
    BY <1>5, <2>1, <2>2, <2>3 DEF Upsert
<1>6. CASE StopCheck(i, s)
  <2>1. TaskKept
    BY <1>0, <1>6, MoveStays DEF StopCheck
  <2> QED
    BY <1>6, <2>1, SameRows DEF StopCheck
<1>7. CASE FailRead(i, s)
  <2> DEFINE task == [At("marking") EXCEPT !.change = Decided(s, "failed", FALSE)]
  <2>1. Decided(s, "failed", FALSE) \in Change
    BY DecidedType DEF Statuses
  <2>2. task \in Task /\ task.pc = "marking"
    BY <2>1, TaskTypes DEF Task, At, Phases
  <2>3. feed' = [feed EXCEPT ![i][s] = task] /\ feed[i][s].pc = "failing"
    BY <1>7 DEF FailRead
  <2> HIDE DEF task
  <2>4. TaskKept
    BY <2>2, <2>3, TaskStays
  <2> QED
    BY <1>7, <2>4, SameRows DEF FailRead
<1>8. ASSUME i \in Posters, NEW msg \in Posted, Post(i, s, msg)
      PROVE  TaskKept /\ LeasesKept /\ candle' \in Candle
  <2>1. i \notin Workers
    BY <1>8, LiveFeedAssumption
  <2> QED
    BY <1>8, <2>1, LoadsStays, SameRows DEF Post, Loads
<1>9. ASSUME i \in Posters, PostDropped(i, s)
      PROVE  TaskKept /\ LeasesKept /\ candle' \in Candle
  <2>1. i \notin Workers
    BY <1>9, LiveFeedAssumption
  <2>2. TaskKept
    BY <1>0, <1>9, <2>1, MoveStays DEF PostDropped
  <2> QED
    BY <1>9, <2>2, SameRows DEF PostDropped
<1>10. UNCHANGED <<call, sweep, dead, cleared>>
  BY DEF Quiet, Receive, Post, Loads, PostDropped, StreamEnds, Connect, Begin, Upsert,
     StopCheck, FailRead
<1> QED
  BY <1>1, <1>2, <1>3, <1>4, <1>5, <1>6, <1>7, <1>8, <1>9, <1>10 DEF Quiet

-----------------------------------------------------------------------------
(* The inductive invariant.                                                *)

\* A running task holds the lease of its row unless a change of status has
\* cleared it, and a lease that is held has time left.
Leased ==
    \A w \in Workers, s \in Subs : Running(w, s) =>
        /\ <<w, s>> \notin cleared => Holds(w, s)
        /\ Holds(w, s) => row[s].lease > 0

Inv == TypeOK /\ Leased

LEMMA InitInv == Init => Inv
<1> SUFFICES ASSUME Init PROVE Inv
  OBVIOUS
<1>1. \A s \in Subs : [status |-> "active", worker |-> NoWorker, lease |-> 0] \in Row
  BY LiveFeedAssumption DEF Row, Statuses
<1>2. At("idle") \in Task /\ At("idle").pc = "idle"
  BY TaskTypes DEF Phases
<1>3. TypeOK
  BY <1>1, <1>2, TaskTypes DEF Init, TypeOK
<1>4. Leased
  BY <1>2, WorkersIngest DEF Init, Leased, Running
<1> QED
  BY <1>3, <1>4 DEF Inv

LEMMA KeptInv ==
    ASSUME Inv, TaskKept, LeasesKept, candle' \in Candle, call' \in [Subs -> Call],
           sweep' \subseteq Subs, dead' \subseteq Workers, cleared' = cleared
    PROVE  Inv'
<1>1. TypeOK'
  BY DEF Inv, TypeOK, TaskKept, LeasesKept
<1>2. Leased'
  BY DEF Inv, Leased, Holds, TaskKept, LeasesKept
<1> QED
  BY <1>1, <1>2 DEF Inv

LEMMA SameTasks ==
    ASSUME TypeOK, feed' = feed
    PROVE  TaskKept
BY DEF TypeOK, TaskKept, Running

LEMMA QuietInv ==
    ASSUME Inv, NEW i \in Ingesters, NEW s \in Subs, Quiet(i, s)
    PROVE  Inv'
BY QuietEffect, KeptInv DEF Inv, TypeOK

LEMMA OperatorInv ==
    ASSUME Inv,
           \/ \E s \in Subs, command \in Commands : CommandRead(s, command)
           \/ \E stale \in SUBSET Subs : SweepRead(stale)
           \/ SweepWrite
    PROVE  Inv'
<1> USE DEF Inv
<1>1. ASSUME NEW s \in Subs, NEW command \in Commands, CommandRead(s, command)
      PROVE  Inv'
  <2>1. command.target \in Statuses /\ command.patch \in BOOLEAN
    BY LiveFeedAssumption DEF Command, Statuses
  <2>2. Decided(s, command.target, command.patch) \in Change
    BY <2>1, DecidedType
  <2>3. call' \in [Subs -> Call]
    BY <1>1, <2>2 DEF CommandRead, TypeOK, Call
  <2> QED
    BY <1>1, <2>3, SameRows, SameTasks, KeptInv DEF CommandRead, TypeOK
<1>2. ASSUME NEW stale \in SUBSET Subs, SweepRead(stale)
      PROVE  Inv'
  BY <1>2, SameRows, SameTasks, KeptInv DEF SweepRead, TypeOK
<1>3. CASE SweepWrite
  <2>1. \A s \in Subs : /\ [row[s] EXCEPT !.status = "stale"] \in Row
                        /\ [row[s] EXCEPT !.status = "stale"].worker = row[s].worker
                        /\ [row[s] EXCEPT !.status = "stale"].lease = row[s].lease
    BY DEF TypeOK, Row, Statuses
  <2>2. LeasesKept
    BY <1>3, <2>1 DEF SweepWrite, LeasesKept, TypeOK
  <2> QED
    BY <1>3, <2>2, SameTasks, KeptInv DEF SweepWrite, TypeOK
<1> QED
  BY <1>1, <1>2, <1>3

(* A written change of status takes the lease only by clearing it.         *)
LEMMA WrittenInv ==
    ASSUME Inv, NEW s \in Subs, NEW change \in Change, Written(s, change),
           TaskKept, call' \in [Subs -> Call],
           candle' = candle, sweep' = sweep, dead' = dead
    PROVE  Inv'
<1>1. TypeOK'
  BY WrittenTypes DEF Inv, TypeOK, TaskKept
<1>2. ASSUME NEW w \in Workers, NEW t \in Subs, Running(w, t)'
      PROVE  /\ <<w, t>> \notin cleared' => Holds(w, t)'
             /\ Holds(w, t)' => row'[t].lease > 0
  <2>1. /\ Running(w, t)
        /\ <<w, t>> \notin cleared => Holds(w, t)
        /\ Holds(w, t) => row[t].lease > 0
    BY <1>2 DEF TaskKept, Inv, Leased
  <2>2. cleared \subseteq cleared'
    BY DEF Written
  <2>3. CASE t # s \/ ~change.lease
    BY <2>1, <2>2, <2>3, WrittenTypes DEF Holds, Inv
  <2>4. CASE t = s /\ change.lease
    <3>1. row'[t].worker = NoWorker
      BY <2>4, WrittenTypes DEF Inv
    <3>2. ~Holds(w, t)'
      BY <3>1, LiveFeedAssumption DEF Holds
    <3>3. Holds(w, t) => <<w, t>> \in cleared'
      BY <2>4 DEF Written, Holds
    <3> QED
      BY <2>1, <2>2, <3>2, <3>3
  <2> QED
    BY <2>3, <2>4
<1> QED
  BY <1>1, <1>2 DEF Inv, Leased

LEMMA CommandWriteInv ==
    ASSUME Inv, NEW s \in Subs, CommandWrite(s)
    PROVE  Inv'
<1>1. call[s].change \in Change /\ call' \in [Subs -> Call]
  BY TaskTypes DEF CommandWrite, Inv, TypeOK, Call
<1> QED
  BY <1>1, SameTasks, WrittenInv DEF CommandWrite, Inv

LEMMA FailWriteInv ==
    ASSUME Inv, NEW w \in Workers, NEW s \in Subs, FailWrite(w, s)
    PROVE  Inv'
<1>1. feed[w][s].change \in Change
  BY WorkersIngest DEF Inv, TypeOK, Task
<1>2. "closing" \in Phases \ {"idle"}
  BY DEF Phases
<1>3. TaskKept
  BY <1>2, WorkersIngest, MoveStays DEF FailWrite, Inv, TypeOK
<1> QED
  BY <1>1, <1>3, WrittenInv DEF FailWrite, Inv, TypeOK

(* Whoever still held the row would keep its lease from being acquired.    *)
LEMMA AcquireInv ==
    ASSUME Inv, NEW w \in Workers, NEW s \in Subs, Acquire(w, s)
    PROVE  Inv'
<1> DEFINE new == [row[s] EXCEPT !.worker = w, !.lease = LeaseTicks]
<1>1. row \in [Subs -> Row] /\ feed \in [Ingesters -> [Subs -> Task]]
  BY DEF Inv, TypeOK
<1>2. new \in Row /\ new.worker = w /\ new.lease > 0
  <2>1. LeaseTicks \in 0..LeaseTicks /\ LeaseTicks > 0
    BY LiveFeedAssumption
  <2>2. row[s] \in Row
    BY <1>1
  <2> QED
    BY <2>1, <2>2 DEF Row
<1>3. row' = [row EXCEPT ![s] = new]
  BY DEF Acquire
<1> HIDE DEF new
<1>4. row' \in [Subs -> Row] /\ row'[s] = new /\ \A t \in Subs \ {s} : row'[t] = row[t]
  BY <1>1, <1>2, <1>3, RowUpdate
<1>5. /\ feed' \in [Ingesters -> [Subs -> Task]]
      /\ \A v \in Workers, t \in Subs : v # w \/ t # s => feed'[v][t] = feed[v][t]
  BY <1>1, WorkersIngest, MovedTypes DEF Acquire, Phases
<1>6. TypeOK'
  BY <1>4, <1>5 DEF Inv, TypeOK, Acquire
<1>7. ASSUME NEW v \in Workers, NEW t \in Subs, Running(v, t)'
      PROVE  /\ <<v, t>> \notin cleared' => Holds(v, t)'
             /\ Holds(v, t)' => row'[t].lease > 0
  <2>1. CASE t # s
    BY <1>4, <1>5, <1>7, <2>1 DEF Inv, Leased, Acquire, Holds, Running
  <2>2. CASE t = s /\ v = w
    BY <1>2, <1>4, <2>2 DEF Holds
  <2>3. CASE t = s /\ v # w
    <3>1. Running(v, s)
      BY <1>5, <1>7, <2>3 DEF Running
    <3>2. ~Holds(v, s)
      <4>1. Holds(v, s) => row[s].lease > 0
        BY <3>1 DEF Inv, Leased
      <4>2. row[s].worker \in {w, NoWorker} \/ row[s].lease = 0
        BY DEF Acquire, Acquirable
      <4> QED
        BY <2>3, <4>1, <4>2, LiveFeedAssumption DEF Holds
    <3>3. <<v, s>> \in cleared'
      BY <3>1, <3>2 DEF Inv, Leased, Acquire
    <3>4. ~Holds(v, s)'
      BY <1>2, <1>4, <2>3 DEF Holds
    <3> QED
      BY <2>3, <3>3, <3>4
  <2> QED
    BY <2>1, <2>2, <2>3
<1> QED
  BY <1>6, <1>7 DEF Inv, Leased

LEMMA RefreshInv ==
    ASSUME Inv, NEW w \in Workers, NEW s \in Subs, RefreshLease(w, s)
    PROVE  Inv'
<1> DEFINE new == [row[s] EXCEPT !.lease = LeaseTicks]
<1>1. row \in [Subs -> Row]
  BY DEF Inv, TypeOK
<1>2. new \in Row /\ new.worker = row[s].worker /\ new.lease > 0
  BY <1>1, LiveFeedAssumption DEF Row
<1>3. row' = [row EXCEPT ![s] = new]
  BY <1>1 DEF RefreshLease
<1> HIDE DEF new
<1>4. row' \in [Subs -> Row] /\ row'[s] = new /\ \A t \in Subs \ {s} : row'[t] = row[t]
  BY <1>1, <1>2, <1>3, RowUpdate
<1>5. TypeOK'
  BY <1>4 DEF Inv, TypeOK, RefreshLease
<1>6. Leased'
  BY <1>2, <1>4 DEF Inv, Leased, RefreshLease, Holds, Running
<1> QED
  BY <1>5, <1>6 DEF Inv

LEMMA ReleaseInv ==
    ASSUME Inv, NEW w \in Workers, NEW s \in Subs, Release(w, s)
    PROVE  Inv'
<1> DEFINE new == IF Holds(w, s) THEN [row[s] EXCEPT !.worker = NoWorker, !.lease = 0]
                                 ELSE row[s]
<1>1. row \in [Subs -> Row] /\ feed \in [Ingesters -> [Subs -> Task]]
  BY DEF Inv, TypeOK
<1>2. new \in Row
  <2>1. 0 \in 0..LeaseTicks
    BY LiveFeedAssumption
  <2>2. row[s] \in Row
    BY <1>1
  <2> QED
    BY <2>1, <2>2 DEF Row
<1>3. /\ Holds(w, s) => new.worker = NoWorker
      /\ ~Holds(w, s) => new = row[s]
  BY <1>1 DEF Row
<1>4. row' = [row EXCEPT ![s] = new]
  BY <1>1 DEF Release
<1> HIDE DEF new
<1>5. row' \in [Subs -> Row] /\ row'[s] = new /\ \A t \in Subs \ {s} : row'[t] = row[t]
  BY <1>1, <1>2, <1>4, RowUpdate
<1>6. /\ feed' \in [Ingesters -> [Subs -> Task]]
      /\ feed'[w][s].pc = "idle"
      /\ \A v \in Workers, t \in Subs : v # w \/ t # s => feed'[v][t] = feed[v][t]
  BY <1>1, WorkersIngest, MovedTypes DEF Release, Phases
<1>7. TypeOK'
  BY <1>5, <1>6 DEF Inv, TypeOK, Release
<1>8. ASSUME NEW v \in Workers, NEW t \in Subs, Running(v, t)'
      PROVE  /\ <<v, t>> \notin cleared' => Holds(v, t)'
             /\ Holds(v, t)' => row'[t].lease > 0
  <2>1. v # w \/ t # s
    BY <1>6, <1>8 DEF Running
  <2>2. /\ Running(v, t)
        /\ <<v, t>> \notin cleared => Holds(v, t)
        /\ Holds(v, t) => row[t].lease > 0
    BY <1>6, <1>8, <2>1 DEF Running, Inv, Leased
  <2>3. <<v, t>> \notin cleared' => <<v, t>> \notin cleared
    BY <2>1 DEF Release
  <2>4. CASE t # s \/ ~Holds(w, s)
    BY <1>3, <1>5, <2>2, <2>3, <2>4 DEF Holds
  <2>5. CASE t = s /\ Holds(w, s)
    <3>1. ~Holds(v, t)
      BY <2>1, <2>5 DEF Holds
    <3>2. ~Holds(v, t)'
      BY <1>3, <1>5, <2>5, LiveFeedAssumption DEF Holds
    <3> QED
      BY <2>2, <2>3, <3>1, <3>2
  <2> QED
    BY <2>4, <2>5
<1> QED
  BY <1>7, <1>8 DEF Inv, Leased

LEMMA FaultInv ==
    ASSUME Inv, NEW w \in Workers, Crash(w) \/ Shutdown(w)
    PROVE  Inv'
<1>1. At("idle") \in Task /\ At("closing") \in Task /\ At("idle").pc = "idle"
  BY TaskTypes DEF Phases
<1>2. /\ feed' \in [Ingesters -> [Subs -> Task]]
      /\ \A v \in Workers, t \in Subs : Running(v, t)' => Running(v, t)
  BY <1>1, WorkersIngest DEF Inv, TypeOK, Crash, Shutdown, Running
<1>3. cleared' \subseteq cleared
  BY DEF Crash, Shutdown
<1>4. TypeOK'
  BY <1>2, <1>3 DEF Inv, TypeOK, Crash, Shutdown
<1>5. ASSUME NEW v \in Workers, NEW t \in Subs, Running(v, t)', <<v, t>> \in cleared
      PROVE  <<v, t>> \in cleared'
  <2>1. CASE Crash(w)
    <3>1. v # w
      BY <1>1, <1>5, <2>1, WorkersIngest DEF Crash, Running, Inv, TypeOK
    <3> QED
      BY <1>5, <2>1, <3>1 DEF Crash
  <2>2. CASE Shutdown(w)
    BY <1>5, <2>2 DEF Shutdown
  <2> QED
    BY <2>1, <2>2
<1>6. row' = row
  BY DEF Crash, Shutdown
<1>7. Leased'
  BY <1>2, <1>5, <1>6 DEF Inv, Leased, Holds
<1> QED
  BY <1>4, <1>7 DEF Inv

(* No lease lapses under the task that holds it: refreshes come in time.   *)
LEMMA TickInv ==
    ASSUME Inv, TimelyTick
    PROVE  Inv'
<1> USE DEF Inv, TimelyTick, Tick
<1> DEFINE Less(n) == IF n > 0 THEN n - 1 ELSE 0
           new(s) == [row[s] EXCEPT !.lease = Less(row[s].lease)]
<1>a. \A n \in 0..LeaseTicks : Less(n) \in 0..LeaseTicks /\ (n > 1 => Less(n) > 0)
  BY LiveFeedAssumption
<1>b. row' = [s \in Subs |-> new(s)]
  OBVIOUS
<1> HIDE DEF Less
<1>1. ASSUME NEW s \in Subs
      PROVE  /\ new(s) \in Row /\ new(s).worker = row[s].worker
             /\ row[s].lease > 1 => new(s).lease > 0
  <2>1. row[s] \in Row /\ row[s].lease \in 0..LeaseTicks
    BY DEF TypeOK, Row
  <2> QED
    BY <1>a, <2>1 DEF Row
<1> HIDE DEF new
<1>2. /\ row' \in [Subs -> Row]
      /\ \A s \in Subs : /\ row'[s].worker = row[s].worker
                         /\ row[s].lease > 1 => row'[s].lease > 0
  BY <1>1, <1>b
<1>3. TypeOK'
  BY <1>2 DEF TypeOK
<1>4. Leased'
  BY <1>2 DEF Leased, Holds, Running
<1> QED
  BY <1>3, <1>4

LEMMA StepInv == Inv /\ [Next]_vars => Inv'
<1> SUFFICES ASSUME Inv, [Next]_vars PROVE Inv'
  OBVIOUS
<1>1. ASSUME NEW w \in Workers, NEW s \in Subs, TaskStep(w, s)
      PROVE  Inv'
  <2>1. \/ Quiet(w, s)
        \/ Acquire(w, s) \/ RefreshLease(w, s) \/ FailWrite(w, s) \/ Release(w, s)
    BY <1>1 DEF TaskStep, GoesOn, Quiet
  <2> QED
    BY <2>1, WorkersIngest, QuietInv, AcquireInv, RefreshInv, FailWriteInv, ReleaseInv
<1>2. ASSUME NEW s \in Subs, CommandStep(s)
      PROVE  Inv'
  BY <1>2, OperatorInv, CommandWriteInv DEF CommandStep
<1>3. CASE SweepStep
  BY <1>3, OperatorInv DEF SweepStep
<1>4. ASSUME NEW w \in Workers, Crash(w) \/ Shutdown(w)
      PROVE  Inv'
  BY <1>4, FaultInv
<1>5. CASE TimelyTick
  BY <1>5, TickInv
<1>6. ASSUME NEW p \in Posters, NEW s \in Subs, PostStep(p, s)
      PROVE  Inv'
  <2>1. Quiet(p, s) /\ p \in Ingesters
    BY <1>6 DEF PostStep, PostGoesOn, Quiet, Ingesters
  <2> QED
    BY <2>1, QuietInv
<1>7. CASE UNCHANGED vars
  BY <1>7 DEF Inv, TypeOK, Leased, Holds, Running, vars
<1> QED
  BY <1>1, <1>2, <1>3, <1>4, <1>5, <1>6, <1>7 DEF Next

LEMMA Invariant == Spec => []Inv
BY InitInv, StepInv, PTL DEF Spec

-----------------------------------------------------------------------------
(* What follows.                                                           *)

\* The state of every row, task, command and candle has its type.
THEOREM TypeCorrect == Spec => []TypeOK
BY Invariant, PTL DEF Inv

LEMMA LeasedOverlap == Inv => OneUnclearedStream
<1> SUFFICES ASSUME Inv, NEW s \in Subs, NEW v \in Workers, NEW w \in Workers,
                    Running(v, s), Running(w, s), v # w,
                    <<v, s>> \notin cleared, <<w, s>> \notin cleared
             PROVE  FALSE
  BY DEF OneUnclearedStream
<1> QED
  BY DEF Inv, Leased, Holds

\* Workers that stream the same subscription under uncleared leases are one:
\* acquire_subscription_lease and the refreshes keep every other out.
THEOREM OverlapCorrect == Spec => []OneUnclearedStream
BY Invariant, LeasedOverlap, PTL

(* Only an upsert writes the candle.                                       *)
LEMMA CandleStep ==
    ASSUME Next, candle' # candle
    PROVE  \E i \in Ingesters, s \in Subs : Upsert(i, s)
<1>1. ASSUME NEW w \in Workers, NEW s \in Subs, TaskStep(w, s)
      PROVE  Upsert(w, s)
  <2>1. /\ \A msg \in Messages : ~Receive(w, s, msg)
        /\ ~Acquire(w, s) /\ ~StreamEnds(w, s) /\ ~RefreshLease(w, s)
    BY DEF Receive, Loads, Acquire, StreamEnds, RefreshLease
  <2>2. ~Begin(w, s)
    BY DEF Begin
  <2>3. ~Connect(w, s) /\ ~StopCheck(w, s) /\ ~Release(w, s)
    BY DEF Connect, StopCheck, Release
  <2>4. ~FailRead(w, s) /\ ~FailWrite(w, s)
    BY DEF FailRead, FailWrite
  <2> QED
    BY <1>1, <2>1, <2>2, <2>3, <2>4 DEF TaskStep, GoesOn
<1>2. ASSUME NEW p \in Posters, NEW s \in Subs, PostStep(p, s)
      PROVE  Upsert(p, s)
  <2>1. (\A msg \in Posted : ~Post(p, s, msg)) /\ ~PostDropped(p, s) /\ ~Begin(p, s)
    BY DEF Post, Loads, PostDropped, Begin
  <2> QED
    BY <1>2, <2>1 DEF PostStep, PostGoesOn
<1>3. \A s \in Subs : ~CommandStep(s)
  BY DEF CommandStep, CommandRead, CommandWrite
<1>4. ~SweepStep
  BY DEF SweepStep, SweepRead, SweepWrite
<1>5. \A w \in Workers : ~(Crash(w) \/ Shutdown(w))
  BY DEF Crash, Shutdown
<1>6. ~TimelyTick
  BY DEF TimelyTick, Tick
<1> QED
  BY <1>1, <1>2, <1>3, <1>4, <1>5, <1>6 DEF Next, Ingesters

(* An upsert that had read a final candle leaves it as it is.              *)
LEMMA FinalReadKeeps ==
    ASSUME NEW i \in Ingesters, NEW s \in Subs, Upsert(i, s), candle' # candle
    PROVE  ~feed[i][s].read.final
BY DEF Upsert, LatePartial, Conflicting, Duplicate

(* An upsert is over when it commits.                                      *)
LEMMA UpsertEnds ==
    ASSUME TypeOK, NEW i \in Ingesters, NEW s \in Subs, Upsert(i, s)
    PROVE  feed'[i][s].pc # "upsert"
<1>1. \E phase \in {"idle", "check", "failing"} : Moved(i, s, phase)
  BY DEF Upsert, Goes
<1>2. {"idle", "check", "failing"} \subseteq Phases
  BY DEF Phases
<1> QED
  BY <1>1, <1>2, MovedTypes DEF TypeOK

\* Values stored over a final candle come from a transaction that read the
\* candle before it was final, and that commits by this very step.
THEOREM StaleRewriteCorrect == Spec => OnlyStaleReadsRewrite
<1>1. Inv /\ [Next]_vars /\ candle.final /\ candle' # candle =>
        \E i \in Ingesters, s \in Subs :
           /\ feed[i][s].pc = "upsert" /\ ~feed[i][s].read.final
           /\ feed'[i][s].pc # "upsert"
  <2> SUFFICES ASSUME Inv, [Next]_vars, candle' # candle
               PROVE  \E i \in Ingesters, s \in Subs :
                         /\ feed[i][s].pc = "upsert" /\ ~feed[i][s].read.final
                         /\ feed'[i][s].pc # "upsert"
    OBVIOUS
  <2>1. PICK i \in Ingesters, s \in Subs : Upsert(i, s)
    BY CandleStep DEF vars
  <2>2. feed[i][s].pc = "upsert" /\ ~feed[i][s].read.final
    BY <2>1, FinalReadKeeps DEF Upsert
  <2>3. feed'[i][s].pc # "upsert"
    BY <2>1, UpsertEnds DEF Inv
  <2> QED
    BY <2>2, <2>3
<1> QED
  BY <1>1, Invariant, PTL DEF Spec, OnlyStaleReadsRewrite

\* A final candle stays final, even when a stale partial is written over it:
\* the column is_final is then not among those that differ from the copy.
THEOREM FinalCorrect == Spec => FinalNeverReopens
<1>1. Inv /\ [Next]_vars => (candle.final => candle'.final)
  <2> SUFFICES ASSUME Inv, [Next]_vars, candle.final, candle' # candle
               PROVE  candle'.final
    OBVIOUS
  <2>1. PICK i \in Ingesters, s \in Subs : Upsert(i, s)
    BY CandleStep DEF vars
  <2> DEFINE msg == feed[i][s].msg
             read == feed[i][s].read
  <2>2. ~read.final
    BY <2>1, FinalReadKeeps
  <2>3. candle' = Applied(msg, read)
    BY <2>1 DEF Upsert
  <2>4. candle.final = TRUE /\ read.final = FALSE
    BY <2>2 DEF Inv, TypeOK, Candle, Task
  <2>5. CASE IsFinal(msg)
    BY <2>3, <2>4, <2>5 DEF Applied
  <2>6. CASE ~IsFinal(msg)
    BY <2>3, <2>4, <2>6 DEF Applied, IsFinal
  <2> QED
    BY <2>5, <2>6
<1> QED
  BY <1>1, Invariant, PTL DEF Spec, FinalNeverReopens

-----------------------------------------------------------------------------
(* A final candle when no other subscription is upserting.                 *)

\* The row lock admits one upsert of a subscription ...
RowLocked ==
    \A s \in Subs, i, j \in Ingesters :
        feed[i][s].pc = "upsert" /\ feed[j][s].pc = "upsert" => i = j

\* ... and what it has read is still the candle.
ReadIsCurrent ==
    \A i \in Ingesters, s \in Subs :
        feed[i][s].pc = "upsert" => feed[i][s].read = candle

(* A transaction is upserting because it was, or because it begins to.     *)
LEMMA UpsertEntry ==
    ASSUME TypeOK, [Next]_vars, NEW i \in Ingesters, NEW s \in Subs,
           feed'[i][s].pc = "upsert"
    PROVE  \/ feed'[i][s] = feed[i][s]
           \/ /\ RowFree(s) /\ feed'[i][s].read = candle /\ candle' = candle
              /\ \A j \in Ingesters, t \in Subs :
                    j # i \/ t # s => feed'[j][t] = feed[j][t]
<1>0. feed \in [Ingesters -> [Subs -> Task]] /\ candle \in Candle
  BY DEF TypeOK
<1>a. ASSUME NEW j \in Ingesters, NEW t \in Subs, NEW task,
             feed' = [feed EXCEPT ![j][t] = task], task.pc # "upsert"
      PROVE  feed'[i][s] = feed[i][s]
  BY <1>0, <1>a
<1>b. ASSUME NEW j \in Ingesters, NEW t \in Subs,
             NEW phase \in {"idle", "open", "streaming", "check", "failing", "closing"},
             Moved(j, t, phase)
      PROVE  feed'[i][s] = feed[i][s]
  <2>1. feed' = [feed EXCEPT ![j][t] = At(phase)] /\ At(phase).pc # "upsert"
    BY <1>b DEF Moved, At
  <2> QED
    BY <1>a, <2>1
<1>c. ASSUME NEW j \in Ingesters, NEW t \in Subs,
             NEW phase \in {"check", "failing"}, Goes(j, t, phase)
      PROVE  feed'[i][s] = feed[i][s]
  BY <1>b, <1>c DEF Goes
<1>d. ASSUME NEW j \in Ingesters, NEW t \in Subs, NEW msg, Loads(j, t, msg)
      PROVE  feed'[i][s] = feed[i][s]
  <2> DEFINE task == [At("loaded") EXCEPT !.msg = msg, !.seen = row[t].status]
  <2>1. task.pc # "upsert" /\ feed' = [feed EXCEPT ![j][t] = task]
    BY <1>d DEF Loads, At
  <2> QED
    BY <1>a, <2>1
<1>1. ASSUME NEW j \in Ingesters, NEW t \in Subs, Begin(j, t)
      PROVE  \/ feed'[i][s] = feed[i][s]
             \/ /\ RowFree(s) /\ feed'[i][s].read = candle /\ candle' = candle
                /\ \A k \in Ingesters, r \in Subs :
                      k # i \/ r # s => feed'[k][r] = feed[k][r]
  <2> DEFINE task == [feed[j][t] EXCEPT !.pc = "upsert", !.read = candle]
  <2>1. CASE Goes(j, t, "check")
    BY <1>c, <2>1
  <2>2. CASE feed' = [feed EXCEPT ![j][t] = task]
    <3>0. feed[j][t] \in Task
      BY <1>0
    <3>1. task \in Task /\ task.read = candle
      BY <1>0, <3>0 DEF Task, Phases
    <3> HIDE DEF task
    <3>2. /\ feed'[j][t] = task
          /\ \A k \in Ingesters, r \in Subs :
                k # j \/ r # t => feed'[k][r] = feed[k][r]
      BY <1>0, <2>2, <3>1, TaskUpdate
    <3> QED
      BY <1>1, <3>1, <3>2 DEF Begin
  <2> QED
    BY <1>1, <2>1, <2>2 DEF Begin
<1>2. ASSUME NEW j \in Ingesters, NEW t \in Subs, Upsert(j, t)
      PROVE  feed'[i][s] = feed[i][s]
  BY <1>2, <1>c DEF Upsert
<1>3. ASSUME NEW w \in Workers, NEW t \in Subs,
             TaskStep(w, t), ~Begin(w, t), ~Upsert(w, t)
      PROVE  feed'[i][s] = feed[i][s]
  <2>0. w \in Ingesters
    BY WorkersIngest
  <2>1. ASSUME NEW msg \in Messages, Receive(w, t, msg)
        PROVE  feed'[i][s] = feed[i][s]
    BY <1>d, <2>0, <2>1 DEF Receive
  <2>2. CASE Acquire(w, t) \/ Connect(w, t) \/ StreamEnds(w, t)
    BY <1>b, <2>0, <2>2 DEF Acquire, Connect, StreamEnds
  <2>3. CASE StopCheck(w, t) \/ FailWrite(w, t) \/ Release(w, t)
    BY <1>b, <2>0, <2>3 DEF StopCheck, FailWrite, Release
  <2>4. CASE RefreshLease(w, t)
    BY <2>4 DEF RefreshLease
  <2>5. CASE FailRead(w, t)
    <3> DEFINE task == [At("marking") EXCEPT !.change = Decided(t, "failed", FALSE)]
    <3>1. task.pc # "upsert" /\ feed' = [feed EXCEPT ![w][t] = task]
      BY <2>5 DEF FailRead, At
    <3> QED
      BY <1>a, <2>0, <3>1
  <2> QED
    BY <1>3, <2>1, <2>2, <2>3, <2>4, <2>5 DEF TaskStep, GoesOn
<1>4. ASSUME NEW p \in Posters, NEW t \in Subs,
             PostStep(p, t), ~Begin(p, t), ~Upsert(p, t)
      PROVE  feed'[i][s] = feed[i][s]
  <2>1. p \in Ingesters
    BY DEF Ingesters
  <2>2. (\E msg \in Posted : Loads(p, t, msg)) \/ Moved(p, t, "idle")
    BY <1>4 DEF PostStep, PostGoesOn, Post, PostDropped
  <2> QED
    BY <1>b, <1>d, <2>1, <2>2
<1>5. ASSUME NEW w \in Workers, Crash(w) \/ Shutdown(w)
      PROVE  feed'[i][s] = feed[i][s]
  <2>1. \A phase : At(phase).pc = phase
    BY DEF At
  <2>2. w # i
    BY <1>0, <1>5, <2>1 DEF Crash, Shutdown
  <2> QED
    BY <1>0, <1>5, <2>2 DEF Crash, Shutdown
<1>6. CASE UNCHANGED feed
  BY <1>6
<1>7. \/ \E w \in Workers, t \in Subs : TaskStep(w, t)
      \/ \E p \in Posters, t \in Subs : PostStep(p, t)
      \/ \E w \in Workers : Crash(w) \/ Shutdown(w)
      \/ UNCHANGED feed
  BY DEF Next, vars, CommandStep, CommandRead, CommandWrite, SweepStep, SweepRead,
         SweepWrite, TimelyTick, Tick
<1>8. \A p \in Posters : p \in Ingesters
  BY DEF Ingesters
<1> QED
  BY <1>1, <1>2, <1>3, <1>4, <1>5, <1>6, <1>7, <1>8, WorkersIngest

LEMMA RowLockedStep == TypeOK /\ RowLocked /\ [Next]_vars => RowLocked'
<1> SUFFICES ASSUME TypeOK, RowLocked, [Next]_vars,
                    NEW s \in Subs, NEW i \in Ingesters, NEW j \in Ingesters,
                    feed'[i][s].pc = "upsert", feed'[j][s].pc = "upsert", i # j
             PROVE  FALSE
  BY DEF RowLocked
<1>1. CASE feed'[i][s] = feed[i][s] /\ feed'[j][s] = feed[j][s]
  BY <1>1 DEF RowLocked
<1>2. CASE feed'[i][s] # feed[i][s]
  BY <1>2, UpsertEntry DEF RowFree
<1>3. CASE feed'[j][s] # feed[j][s]
  BY <1>3, UpsertEntry DEF RowFree
<1> QED
  BY <1>1, <1>2, <1>3

(* Whoever writes the candle is the only one that was upserting.           *)
LEMMA CurrentStep ==
    Inv /\ RowLocked /\ ReadIsCurrent /\ OneUpserts /\ [Next]_vars => ReadIsCurrent'
<1> SUFFICES ASSUME Inv, RowLocked, ReadIsCurrent, OneUpserts, [Next]_vars,
                    NEW i \in Ingesters, NEW s \in Subs, feed'[i][s].pc = "upsert"
             PROVE  feed'[i][s].read = candle'
  BY DEF ReadIsCurrent
<1>1. CASE feed'[i][s] = feed[i][s] /\ candle' # candle
  <2>1. PICK j \in Ingesters, t \in Subs : Upsert(j, t)
    BY <1>1, CandleStep DEF vars
  <2>2. feed[j][t].pc = "upsert" /\ feed[i][s].pc = "upsert"
    BY <1>1, <2>1 DEF Upsert
  <2>3. j = i /\ t = s
    BY <2>2 DEF OneUpserts, RowLocked
  <2> QED
    BY <2>1, <2>3, UpsertEnds DEF Inv
<1>2. CASE feed'[i][s] = feed[i][s] /\ candle' = candle
  BY <1>2 DEF ReadIsCurrent
<1>3. CASE feed'[i][s] # feed[i][s]
  BY <1>3, UpsertEntry DEF Inv
<1> QED
  BY <1>1, <1>2, <1>3

\* A final candle never changes while the upserts of the series' subscriptions
\* do not overlap: two workers that stream one subscription, or requests that
\* post to it, are no danger, since the event's row lock keeps their candle
\* reads apart.
THEOREM FinalKeptUnlessOverlap == Spec /\ []OneUpserts => FinalCandleKept
<1>1. Init => RowLocked /\ ReadIsCurrent
  BY DEF Init, RowLocked, ReadIsCurrent, At
<1>2. Inv /\ ReadIsCurrent /\ [Next]_vars => (candle.final => candle' = candle)
  <2> SUFFICES ASSUME Inv, ReadIsCurrent, [Next]_vars, candle.final, candle' # candle
               PROVE  FALSE
    OBVIOUS
  <2>1. PICK i \in Ingesters, s \in Subs : Upsert(i, s)
    BY CandleStep DEF vars
  <2>2. ~feed[i][s].read.final
    BY <2>1, FinalReadKeeps
  <2>3. feed[i][s].read = candle
    BY <2>1 DEF Upsert, ReadIsCurrent
  <2> QED
    BY <2>2, <2>3
<1>3. Inv /\ RowLocked /\ [Next]_vars => RowLocked'
  BY RowLockedStep DEF Inv
<1> QED
  BY <1>1, <1>2, <1>3, CurrentStep, Invariant, PTL DEF Spec, FinalCandleKept

\* So with a single subscription of the series a final candle never changes.
THEOREM FinalKeptAlone ==
    ASSUME \A s, t \in Subs : s = t
    PROVE  Spec => FinalCandleKept
<1>1. OneUpserts
  BY DEF OneUpserts
<1> QED
  BY <1>1, FinalKeptUnlessOverlap, PTL

-----------------------------------------------------------------------------
(* Subscriptions that nobody serves.                                       *)

\* A step of a task or a request is about its own subscription.
LEMMA OwnRow ==
    ASSUME TypeOK, NEW i \in Ingesters, NEW t \in Subs,
           \/ i \in Workers /\ TaskStep(i, t)
           \/ i \in Posters /\ PostStep(i, t),
           NEW s \in Subs \ {t}
    PROVE  row'[s] = row[s] /\ \A j \in Ingesters : feed'[j][s] = feed[j][s]
<1>1. row \in [Subs -> Row] /\ feed \in [Ingesters -> [Subs -> Task]]
  BY DEF TypeOK
<1>2. row' = row \/ \E r : row' = [row EXCEPT ![t] = r]
  <2>1. CASE Acquire(i, t) \/ RefreshLease(i, t)
    BY <2>1 DEF Acquire, RefreshLease
  <2>2. CASE Begin(i, t) \/ Upsert(i, t)
    BY <2>2 DEF Begin, Upsert, Revived, EventFailed
  <2>3. CASE FailWrite(i, t) \/ Release(i, t)
    BY <2>3 DEF FailWrite, Release, Written
  <2>4. CASE \/ \E msg \in Messages : Receive(i, t, msg)
             \/ \E msg \in Posted : Post(i, t, msg)
             \/ StreamEnds(i, t) \/ Connect(i, t) \/ StopCheck(i, t) \/ FailRead(i, t)
             \/ PostDropped(i, t)
    BY <2>4 DEF Receive, Post, Loads, StreamEnds, Connect, StopCheck, FailRead,
       PostDropped
  <2> QED
    BY <2>1, <2>2, <2>3, <2>4 DEF TaskStep, GoesOn, PostStep, PostGoesOn
<1>3. feed' = feed \/ \E task : feed' = [feed EXCEPT ![i][t] = task]
  BY DEF TaskStep, GoesOn, Acquire, Receive, Loads, StreamEnds, RefreshLease, Connect,
     Begin, Upsert, StopCheck, FailRead, FailWrite, Release, Moved, Goes,
     PostStep, PostGoesOn, Post, PostDropped
<1> QED
  BY <1>1, <1>2, <1>3

(* A posted message makes s active only where it had loaded s as stale.    *)
LEMMA PostedStep ==
    ASSUME TypeOK, NEW p \in Posters, NEW s \in Subs, PostStep(p, s),
           row[s].status # "active", ~PostRevives(s)
    PROVE  /\ row'[s].status # "active"
           /\ \A w \in Workers : feed'[w][s] = feed[w][s]
<1> DEFINE seen == feed[p][s].seen
<1>0. /\ row \in [Subs -> Row] /\ feed \in [Ingesters -> [Subs -> Task]]
      /\ p \in Ingesters /\ p \notin Workers
  BY LiveFeedAssumption DEF TypeOK, Ingesters
<1>1. \A w \in Workers : feed'[w][s] = feed[w][s]
  <2>1. \E task : feed' = [feed EXCEPT ![p][s] = task]
    BY DEF PostStep, PostGoesOn, Post, Loads, Begin, Upsert, Goes, Moved, PostDropped
  <2> QED
    BY <1>0, <2>1, WorkersIngest
<1>2. row'[s].status # "active"
  <2>1. CASE row' = row
    BY <2>1
  <2>2. CASE row' = EventFailed(s, seen)
    BY <1>0, <2>2 DEF EventFailed, Row
  <2>3. CASE row' = Revived(s, seen) /\ row' # row
    <3>1. seen = "stale"
      BY <2>3 DEF Revived
    <3>2. (Begin(p, s) \/ Upsert(p, s)) /\ Moved(p, s, "idle")
      <4>1. \/ Begin(p, s) /\ Goes(p, s, "check")
            \/ Upsert(p, s) /\ \E phase \in {"check", "failing"} : Goes(p, s, phase)
        BY <2>3 DEF PostStep, PostGoesOn, Post, Loads, PostDropped, Begin, Upsert
      <4> QED
        BY <1>0, <4>1 DEF Goes
    <3>3. feed'[p][s].pc = "idle" /\ feed[p][s].pc \in {"loaded", "upsert"}
      BY <1>0, <3>2, MovedTypes DEF Phases, Begin, Upsert
    <3> QED
      BY <3>1, <3>3 DEF PostRevives
  <2>4. row' = row \/ row' = EventFailed(s, seen) \/ row' = Revived(s, seen)
    BY DEF PostStep, PostGoesOn, Post, Loads, PostDropped, Begin, Upsert
  <2> QED
    BY <2>1, <2>2, <2>3, <2>4
<1> QED
  BY <1>1, <1>2

LEMMA UnservedStep ==
    ASSUME TypeOK, [Next]_vars, NEW s \in Subs, Unserved(s), call'[s].pc = "idle",
           ~PostRevives(s)
    PROVE  Unserved(s)'
<1>1. /\ row \in [Subs -> Row] /\ feed \in [Ingesters -> [Subs -> Task]]
      /\ call \in [Subs -> Call]
      /\ row[s].status # "active" /\ call[s].pc = "idle"
      /\ \A w \in Workers : feed[w][s].pc = "idle"
  BY DEF TypeOK, Unserved, Running
<1> SUFFICES /\ row'[s].status # "active"
             /\ \A w \in Workers : feed'[w][s].pc = "idle"
  BY DEF Unserved, Running
<1>2. ASSUME NEW w \in Workers, NEW t \in Subs, TaskStep(w, t)
      PROVE  row'[s] = row[s] /\ \A v \in Workers : feed'[v][s] = feed[v][s]
  <2>1. ~TaskStep(w, s)
    BY <1>1 DEF TaskStep, GoesOn, Acquire, Acquirable, Receive, StreamEnds, RefreshLease,
       Running, Connect, Begin, Upsert, StopCheck, FailRead, FailWrite, Release
  <2> QED
    BY <1>2, <2>1, OwnRow, WorkersIngest
<1>3. ASSUME NEW p \in Posters, NEW t \in Subs, PostStep(p, t)
      PROVE  /\ row'[s].status # "active"
             /\ \A v \in Workers : feed'[v][s] = feed[v][s]
  <2>1. p \in Ingesters
    BY DEF Ingesters
  <2>2. CASE t = s
    BY <1>1, <1>3, <2>2, PostedStep
  <2>3. CASE t # s
    BY <1>1, <1>3, <2>1, <2>3, OwnRow, WorkersIngest
  <2> QED
    BY <2>2, <2>3
<1>4. ASSUME NEW t \in Subs, CommandStep(t)
      PROVE  row'[s].status # "active" /\ feed' = feed
  <2>1. CASE \E command \in Commands : CommandRead(t, command)
    BY <1>1, <2>1 DEF CommandRead
  <2>2. CASE CommandWrite(t)
    <3>1. t # s
      BY <1>1, <2>2 DEF CommandWrite
    <3> QED
      BY <1>1, <2>2, <3>1 DEF CommandWrite, Written
  <2> QED
    BY <1>4, <2>1, <2>2 DEF CommandStep
<1>5. CASE SweepStep
  <2>1. CASE \E stale \in SUBSET Subs : SweepRead(stale)
    BY <1>1, <2>1 DEF SweepRead
  <2>2. CASE SweepWrite
    <3>1. row'[s] = IF s \in sweep THEN [row[s] EXCEPT !.status = "stale"] ELSE row[s]
      BY <2>2 DEF SweepWrite
    <3>2. row[s] \in Row /\ feed' = feed
      BY <1>1, <2>2 DEF SweepWrite
    <3> QED
      BY <1>1, <3>1, <3>2 DEF Row
  <2> QED
    BY <1>5, <2>1, <2>2 DEF SweepStep
<1>6. ASSUME NEW w \in Workers, Crash(w) \/ Shutdown(w)
      PROVE  row' = row /\ \A v \in Workers : feed'[v][s].pc = "idle"
  BY <1>1, <1>6, WorkersIngest DEF Crash, Shutdown, Running, At
<1>7. CASE TimelyTick
  BY <1>1, <1>7 DEF TimelyTick, Tick, Row
<1>8. CASE UNCHANGED vars
  BY <1>1, <1>8 DEF vars
<1> QED
  BY <1>1, <1>2, <1>3, <1>4, <1>5, <1>6, <1>7, <1>8 DEF Next

\* A subscription that is not active and that nobody serves is not resumed,
\* however many workers poll.  That takes an operator's command, or a message
\* posted to it while it is stale; no other message brings it back.
THEOREM UnservedForGood == Spec => UnservedStays
<1>1. TypeOK /\ [Next]_vars =>
        [\A s \in Subs : Unserved(s) =>
            Unserved(s)' \/ call'[s].pc # "idle" \/ PostRevives(s)]_vars
  BY UnservedStep
<1> QED
  BY <1>1, TypeCorrect, PTL DEF Spec, UnservedStays
=============================================================================
