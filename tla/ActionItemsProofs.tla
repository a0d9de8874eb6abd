-------------------------- MODULE ActionItemsProofs --------------------------
(***************************************************************************)
(* Proofs about ActionItems, for all items, workers, requests and limits.  *)
(*                                                                         *)
(* Bookkeeping holds with manual executions and whatever the leases do: a  *)
(* run beyond its dispatch has the evidence its item's kind asks for.      *)
(* Leased holds while runs stay within their leases and nobody executes an *)
(* item by hand: a run owns the lease of its row, and its copy is current. *)
(***************************************************************************)
EXTENDS ActionItems, TLAPS

-----------------------------------------------------------------------------
(* Types of the records, and updates of one row and one run.               *)

RunType == [pc : Phases, seen : Copy, holds : BOOLEAN, lease : Nat]
PollType == [pc : {"idle", "marking", "claim", "running"}, items : SUBSET Items]

LEMMA RecordTypes ==
    /\ NoItem \in Row
    /\ Idle \in RunType
    /\ Idle.pc = "idle" /\ ~Idle.holds
    /\ Resting \in PollType
    /\ Resting.pc = "idle" /\ Resting.items = {}
BY ActionItemsAssumption
   DEF NoItem, Row, Idle, RunType, Phases, Copy, Loaded, Statuses, Open, Done, Resting,
       PollType

LEMMA LoadedType ==
    ASSUME NEW row \in Row
    PROVE  /\ Loaded(row) \in Copy
           /\ Loaded(row).status = row.status
           /\ Loaded(row).attempts = row.attempts
           /\ Loaded(row).lockedBy = row.lockedBy
BY DEF Loaded, Row, Copy

LEMMA RowUpdate ==
    ASSUME item \in [Items -> Row], NEW i \in Items, NEW new \in Row,
           item' = [item EXCEPT ![i] = new]
    PROVE  /\ item' \in [Items -> Row]
           /\ item'[i] = new
           /\ \A k \in Items \ {i} : item'[k] = item[k]
OBVIOUS

LEMMA RunUpdate ==
    ASSUME run \in [Actors -> [Items -> RunType]], NEW a \in Actors, NEW i \in Items,
           NEW new \in RunType, run' = [run EXCEPT ![a][i] = new]
    PROVE  /\ run' \in [Actors -> [Items -> RunType]]
           /\ run'[a][i] = new
           /\ \A b \in Actors, k \in Items : b # a \/ k # i => run'[b][k] = run[b][k]
OBVIOUS

\* A step of a's run of i leaves every other row and run alone.
Local(a, i) ==
    /\ TypeOK'
    /\ \A k \in Items \ {i} : item'[k] = item[k] /\ replays'[k] = replays[k]
    /\ \A b \in Actors, k \in Items : b # a \/ k # i => run'[b][k] = run[b][k]
    /\ item'[i].kind = item[i].kind
    /\ candles' = candles

LEMMA EndsTypes ==
    ASSUME TypeOK, NEW a \in Actors, NEW i \in Items, Ends(a, i)
    PROVE  /\ run' \in [Actors -> [Items -> RunType]]
           /\ run'[a][i] = Idle
           /\ \A b \in Actors, k \in Items : b # a \/ k # i => run'[b][k] = run[b][k]
           /\ poll' \in [Workers \cup Markers -> PollType]
<1>1. run \in [Actors -> [Items -> RunType]]
  BY DEF TypeOK, RunType
<1>2. run' = [run EXCEPT ![a][i] = Idle]
  BY DEF Ends
<1>3. poll \in [Workers \cup Markers -> PollType]
  BY DEF TypeOK, PollType
<1>4. CASE a \in Workers /\ poll[a].pc = "running"
  <2> DEFINE rest == poll[a].items \ {i}
             new == IF rest = {} THEN Resting ELSE [pc |-> "running", items |-> rest]
  <2>1. new \in PollType
    <3>1. poll[a] \in PollType
      BY <1>3, <1>4
    <3>2. rest \in SUBSET Items
      BY <3>1 DEF PollType
    <3> QED
      BY <3>2, RecordTypes DEF PollType
  <2>2. poll' = [poll EXCEPT ![a] = new]
    BY <1>4 DEF Ends
  <2> HIDE DEF new
  <2>3. poll' \in [Workers \cup Markers -> PollType]
    BY <1>3, <2>1, <2>2
  <2> QED
    BY <1>1, <1>2, <2>3, RunUpdate, RecordTypes
<1>5. CASE ~(a \in Workers /\ poll[a].pc = "running")
  <2>1. poll' = poll
    BY <1>5 DEF Ends
  <2> QED
    BY <1>1, <1>2, <1>3, <2>1, RunUpdate, RecordTypes
<1> QED
  BY <1>4, <1>5

(* What the last commit of a run writes.                                   *)
LEMMA SettleEffect ==
    ASSUME TypeOK, NEW a \in Actors, NEW i \in Items, NEW s \in Statuses,
           NEW d \in Nat, Settle(a, i, s, d)
    PROVE  /\ Local(a, i)
           /\ run'[a][i] = Idle
           /\ replays' = replays
           /\ item'[i].status = IF s = run[a][i].seen.status THEN item[i].status ELSE s
           /\ item'[i].attempts = IF run[a][i].holds THEN run[a][i].seen.attempts
                                  ELSE item[i].attempts
           /\ item'[i].lockedBy = IF run[a][i].seen.lockedBy = NoWorker
                                  THEN item[i].lockedBy ELSE NoWorker
           /\ item'[i].lockLeft = IF run[a][i].seen.lockedBy = NoWorker
                                  THEN item[i].lockLeft ELSE 0
<1> DEFINE x == run[a][i]
           old == Settled(item[i], x, s)
           new == [old EXCEPT !.dueIn = d]
<1>1. item[i] \in Row /\ x \in RunType /\ item \in [Items -> Row]
  BY DEF TypeOK, RunType
<1>2. x.seen.attempts \in 0..MaxAttempts
  BY <1>1 DEF RunType, Copy
<1>3. /\ old \in Row
      /\ old.kind = item[i].kind
      /\ old.status = IF s = x.seen.status THEN item[i].status ELSE s
      /\ old.attempts = IF x.holds THEN x.seen.attempts ELSE item[i].attempts
      /\ old.lockedBy = IF x.seen.lockedBy = NoWorker THEN item[i].lockedBy ELSE NoWorker
      /\ old.lockLeft = IF x.seen.lockedBy = NoWorker THEN item[i].lockLeft ELSE 0
  BY <1>1, <1>2 DEF Settled, Row
<1>4. item' = [item EXCEPT ![i] = new]
  BY DEF Settle
<1>5. Ends(a, i) /\ candles' = candles /\ replays' = replays
  BY DEF Settle
<1> HIDE DEF old
<1>6. /\ new \in Row
      /\ new.kind = item[i].kind
      /\ new.status = IF s = x.seen.status THEN item[i].status ELSE s
      /\ new.attempts = IF x.holds THEN x.seen.attempts ELSE item[i].attempts
      /\ new.lockedBy = IF x.seen.lockedBy = NoWorker THEN item[i].lockedBy ELSE NoWorker
      /\ new.lockLeft = IF x.seen.lockedBy = NoWorker THEN item[i].lockLeft ELSE 0
  BY <1>3 DEF Row
<1> HIDE DEF new
<1>7. /\ item' \in [Items -> Row]
      /\ item'[i] = new
      /\ \A k \in Items \ {i} : item'[k] = item[k]
  BY <1>1, <1>4, <1>6, RowUpdate
<1>8. /\ run' \in [Actors -> [Items -> RunType]]
      /\ run'[a][i] = Idle
      /\ \A b \in Actors, k \in Items : b # a \/ k # i => run'[b][k] = run[b][k]
      /\ poll' \in [Workers \cup Markers -> PollType]
  BY <1>5, EndsTypes
<1>9. TypeOK'
  BY <1>5, <1>7, <1>8 DEF TypeOK, RunType, PollType
<1> QED
  BY <1>5, <1>6, <1>7, <1>8, <1>9 DEF Local

(* What a commit in the middle of a run writes.                            *)
LEMMA CommitEffect ==
    ASSUME TypeOK, NEW a \in Actors, NEW i \in Items, NEW pc \in Phases,
           CommitHeld(a, i, pc), replays' \in [Items -> Nat],
           \A k \in Items \ {i} : replays'[k] = replays[k]
    PROVE  /\ Local(a, i)
           /\ run'[a][i].pc = pc
           /\ run'[a][i].seen = run[a][i].seen
           /\ run'[a][i].lease = run[a][i].lease
           /\ ~run'[a][i].holds
           /\ ~run[a][i].holds => item' = item
           /\ run[a][i].holds => item'[i].status = "running"
<1> DEFINE new == [run[a][i] EXCEPT !.pc = pc, !.holds = FALSE]
           row == [item[i] EXCEPT !.status = "running",
                                  !.attempts = run[a][i].seen.attempts]
<1>1. /\ item[i] \in Row /\ item \in [Items -> Row]
      /\ run \in [Actors -> [Items -> RunType]] /\ run[a][i] \in RunType
  BY DEF TypeOK, RunType
<1>2. /\ new \in RunType /\ new.pc = pc /\ new.seen = run[a][i].seen
      /\ new.lease = run[a][i].lease /\ ~new.holds
  BY <1>1 DEF RunType
<1>3. row \in Row /\ row.status = "running" /\ row.kind = item[i].kind
  <2>1. run[a][i].seen.attempts \in 0..MaxAttempts /\ "running" \in Statuses
    BY <1>1 DEF RunType, Copy, Statuses
  <2> QED
    BY <1>1, <2>1 DEF Row
<1>4. run' = [run EXCEPT ![a][i] = new]
  BY DEF CommitHeld
<1>5. run[a][i].holds => item' = [item EXCEPT ![i] = row]
  BY DEF CommitHeld
<1>6. ~run[a][i].holds => item' = item
  BY DEF CommitHeld
<1> HIDE DEF new, row
<1>7. /\ item' \in [Items -> Row]
      /\ \A k \in Items \ {i} : item'[k] = item[k]
      /\ item'[i].kind = item[i].kind
      /\ run[a][i].holds => item'[i].status = "running"
  BY <1>1, <1>3, <1>5, <1>6, RowUpdate
<1>8. /\ run' \in [Actors -> [Items -> RunType]]
      /\ run'[a][i] = new
      /\ \A b \in Actors, k \in Items : b # a \/ k # i => run'[b][k] = run[b][k]
  BY <1>1, <1>2, <1>4, RunUpdate
<1>9. poll' = poll /\ candles' = candles
  BY DEF CommitHeld
<1>10. TypeOK'
  BY <1>7, <1>8, <1>9 DEF TypeOK, RunType
<1> QED
  BY <1>2, <1>6, <1>7, <1>8, <1>9, <1>10 DEF Local

(* A step that only moves a run.                                           *)
LEMMA MoveEffect ==
    ASSUME TypeOK, NEW a \in Actors, NEW i \in Items, NEW new \in RunType,
           run' = [run EXCEPT ![a][i] = new], UNCHANGED <<item, poll, candles, replays>>
    PROVE  /\ Local(a, i)
           /\ run'[a][i] = new
<1>1. run \in [Actors -> [Items -> RunType]]
  BY DEF TypeOK, RunType
<1>2. /\ run' \in [Actors -> [Items -> RunType]]
      /\ run'[a][i] = new
      /\ \A b \in Actors, k \in Items : b # a \/ k # i => run'[b][k] = run[b][k]
  BY <1>1, RunUpdate
<1> QED
  BY <1>2 DEF TypeOK, RunType, Local

LEMMA LoadEffect ==
    ASSUME TypeOK, NEW a \in Actors, NEW i \in Items, LoadRow(a, i)
    PROVE  /\ Local(a, i)
           /\ UNCHANGED <<item, replays>>
           /\ item[i].status \notin Done
           /\ run'[a][i].pc = Admit(a, i, Loaded(item[i]))
           /\ run'[a][i].seen = Loaded(item[i])
           /\ run'[a][i].holds = run[a][i].holds
           /\ run'[a][i].lease = run[a][i].lease
<1> DEFINE new == [run[a][i] EXCEPT !.pc = Admit(a, i, Loaded(item[i])),
                                    !.seen = Loaded(item[i])]
<1>1. item[i] \in Row /\ run[a][i] \in RunType
  BY DEF TypeOK, RunType
<1>2. Admit(a, i, Loaded(item[i])) \in Phases
  BY DEF Admit, Phases
<1>3. Loaded(item[i]) \in Copy
  BY <1>1, LoadedType
<1>4. /\ new \in RunType
      /\ new.pc = Admit(a, i, Loaded(item[i]))
      /\ new.seen = Loaded(item[i])
      /\ new.holds = run[a][i].holds
      /\ new.lease = run[a][i].lease
  BY <1>1, <1>2, <1>3 DEF RunType
<1>5. /\ run' = [run EXCEPT ![a][i] = new]
      /\ UNCHANGED <<item, poll, candles, replays>>
      /\ item[i].status \notin Done
  BY DEF LoadRow
<1> HIDE DEF new
<1>6. Local(a, i) /\ run'[a][i] = new
  BY <1>4, <1>5, MoveEffect
<1> QED
  BY <1>4, <1>5, <1>6

LEMMA ManualEffect ==
    ASSUME TypeOK, NEW a \in Actors, NEW i \in Items, ManualStart(a, i),
           run[a][i].seen.attempts < MaxAttempts
    PROVE  /\ Local(a, i)
           /\ UNCHANGED <<item, replays>>
           /\ run'[a][i].pc = "dispatch"
<1> DEFINE copy == [status |-> "running", attempts |-> run[a][i].seen.attempts + 1,
                    lockedBy |-> item[i].lockedBy]
           new == [run[a][i] EXCEPT !.pc = "dispatch", !.holds = TRUE, !.seen = copy]
<1>1. item[i] \in Row /\ run[a][i] \in RunType
  BY DEF TypeOK, RunType
<1>2. run[a][i].seen.attempts \in 0..MaxAttempts /\ "running" \in Statuses
  BY <1>1 DEF RunType, Copy, Statuses
<1>3. run[a][i].seen.attempts + 1 \in 0..MaxAttempts
  BY <1>2, ActionItemsAssumption
<1>4. copy \in Copy
  BY <1>1, <1>2, <1>3 DEF Row, Copy
<1>5. run' = [run EXCEPT ![a][i] = new] /\ UNCHANGED <<item, poll, candles, replays>>
  BY DEF ManualStart
<1> HIDE DEF copy
<1>6. new \in RunType /\ new.pc = "dispatch"
  BY <1>1, <1>4 DEF RunType, Phases
<1> HIDE DEF new
<1> QED
  BY <1>5, <1>6, MoveEffect

LEMMA LookEffect ==
    ASSUME TypeOK, NEW a \in Actors, NEW i \in Items, LookForReplay(a, i)
    PROVE  /\ Local(a, i)
           /\ UNCHANGED <<item, replays>>
           /\ run'[a][i].pc = "replay"
           /\ run'[a][i].seen = run[a][i].seen
           /\ run'[a][i].lease = run[a][i].lease
           /\ run'[a][i].holds = run[a][i].holds
<1> DEFINE new == [run[a][i] EXCEPT !.pc = "replay"]
<1>1. run[a][i] \in RunType /\ run \in [Actors -> [Items -> RunType]]
  BY DEF TypeOK, RunType
<1>2. /\ new \in RunType /\ new.pc = "replay" /\ new.seen = run[a][i].seen
      /\ new.lease = run[a][i].lease /\ new.holds = run[a][i].holds
  BY <1>1 DEF RunType, Phases
<1>3. run' = [run EXCEPT ![a][i] = new] /\ UNCHANGED <<item, poll, candles, replays>>
  BY <1>1 DEF LookForReplay
<1> HIDE DEF new
<1> QED
  BY <1>2, <1>3, MoveEffect

LEMMA DoneEffect ==
    ASSUME TypeOK, NEW a \in Actors, NEW i \in Items, LoadDone(a, i)
    PROVE  /\ Local(a, i)
           /\ UNCHANGED <<item, replays>>
           /\ run'[a][i] = Idle
BY EndsTypes DEF LoadDone, Local, TypeOK, RunType, PollType

-----------------------------------------------------------------------------
(* Bookkeeping: the evidence runs and rows carry, under any interleaving.  *)

\* a's run of i is on an existing item, and its phase fits the item's kind.
RunSound(a, i) ==
    run[a][i].pc # "idle" =>
        /\ item[i].status # "absent"
        /\ run[a][i].pc = "start" => run[a][i].seen.attempts < MaxAttempts
        /\ run[a][i].pc = "replay" => item[i].kind = "replay"
        /\ run[a][i].pc = "finish" =>
              /\ item[i].kind \in {"news", "outcome", "replay"}
              /\ item[i].kind = "replay" => replays[i] > 0
              /\ item[i].kind = "outcome" => i \in candles

ItemSound(i) ==
    item[i].status = "completed" =>
        /\ item[i].kind = "replay" => replays[i] > 0
        /\ item[i].kind \in {"outcome", "wait"} => i \in candles

Bookkeeping ==
    /\ TypeOK
    /\ \A a \in Actors, i \in Items : RunSound(a, i)
    /\ \A i \in Items : ItemSound(i)

\* Nothing takes away the evidence of item i.
Grows(i) ==
    /\ item'[i].kind = item[i].kind
    /\ item[i].status # "absent" => item'[i].status # "absent"
    /\ replays'[i] >= replays[i]
    /\ i \in candles => i \in candles'

LEMMA RunStaysSound ==
    ASSUME TypeOK, TypeOK', NEW a \in Actors, NEW i \in Items, RunSound(a, i), Grows(i),
           run'[a][i] = run[a][i]
    PROVE  RunSound(a, i)'
<1>1. replays[i] \in Nat /\ replays'[i] \in Nat
  BY DEF TypeOK
<1> QED
  BY <1>1 DEF RunSound, Grows

LEMMA IdleIsSound ==
    ASSUME NEW a \in Actors, NEW i \in Items, run'[a][i].pc = "idle"
    PROVE  RunSound(a, i)'
BY DEF RunSound

LEMMA ItemStaysSound ==
    ASSUME TypeOK, TypeOK', NEW i \in Items, ItemSound(i), Grows(i),
           item'[i].status = "completed" => item[i].status = "completed"
    PROVE  ItemSound(i)'
<1>1. replays[i] \in Nat /\ replays'[i] \in Nat
  BY DEF TypeOK
<1> QED
  BY <1>1 DEF ItemSound, Grows

(* Local steps of a's run of i: what is left to show is its own evidence.  *)
LEMMA LocalSound ==
    ASSUME Bookkeeping, NEW a \in Actors, NEW i \in Items, Local(a, i), Grows(i),
           RunSound(a, i)', ItemSound(i)'
    PROVE  Bookkeeping'
<1> USE DEF Bookkeeping
<1>1. \A k \in Items : Grows(k)
  <2> SUFFICES ASSUME NEW k \in Items, k # i PROVE Grows(k)
    OBVIOUS
  <2>1. replays[k] \in Nat
    BY DEF TypeOK
  <2> QED
    BY <2>1 DEF Local, Grows
<1>2. ASSUME NEW b \in Actors, NEW k \in Items PROVE RunSound(b, k)'
  <2>1. CASE b = a /\ k = i
    BY <2>1
  <2>2. CASE b # a \/ k # i
    BY <2>2, <1>1, RunStaysSound DEF Local
  <2> QED
    BY <2>1, <2>2
<1>3. ASSUME NEW k \in Items PROVE ItemSound(k)'
  <2>1. CASE k = i
    BY <2>1
  <2>2. CASE k # i
    BY <2>2, <1>1, ItemStaysSound DEF Local
  <2> QED
    BY <2>1, <2>2
<1> QED
  BY <1>2, <1>3 DEF Local

LEMMA SettleSound ==
    ASSUME Bookkeeping, NEW a \in Actors, NEW i \in Items,
           NEW s \in Statuses \ {"absent"}, NEW d \in Nat, Settle(a, i, s, d),
           run[a][i].pc # "idle",
           s = "completed" =>
              /\ item[i].kind = "replay" => replays[i] > 0
              /\ item[i].kind \in {"outcome", "wait"} => i \in candles
    PROVE  Bookkeeping'
<1>1. /\ Local(a, i) /\ run'[a][i] = Idle /\ replays' = replays
      /\ item'[i].status = IF s = run[a][i].seen.status THEN item[i].status ELSE s
  BY SettleEffect DEF Bookkeeping
<1>2. RunSound(a, i)'
  BY <1>1, RecordTypes, IdleIsSound
<1>3. Grows(i)
  <2>1. replays[i] \in Nat
    BY DEF Bookkeeping, TypeOK
  <2> QED
    BY <1>1, <2>1 DEF Grows, Local
<1>4. ItemSound(i)'
  <2>1. ItemSound(i)
    BY DEF Bookkeeping
  <2> QED
    BY <1>1, <2>1 DEF ItemSound, Local
<1> QED
  BY <1>1, <1>2, <1>3, <1>4, LocalSound

LEMMA CommitSound ==
    ASSUME Bookkeeping, NEW a \in Actors, NEW i \in Items, CommitHeld(a, i, "finish"),
           run[a][i].pc # "idle",
           replays' \in [Items -> Nat], replays'[i] >= replays[i],
           \A k \in Items \ {i} : replays'[k] = replays[k],
           item[i].kind \in {"news", "outcome", "replay"},
           item[i].kind = "replay" => replays'[i] > 0,
           item[i].kind = "outcome" => i \in candles
    PROVE  Bookkeeping'
<1>1. /\ Local(a, i) /\ run'[a][i].pc = "finish"
      /\ ~run[a][i].holds => item' = item
      /\ run[a][i].holds => item'[i].status = "running"
  BY CommitEffect DEF Bookkeeping, Phases
<1>2. RunSound(a, i) /\ ItemSound(i)
  BY DEF Bookkeeping
<1>3. Grows(i)
  BY <1>1 DEF Grows, Local
<1>4. RunSound(a, i)'
  BY <1>1, <1>2 DEF RunSound, Local
<1>5. ItemSound(i)'
  <2>1. item'[i].status = "completed" => item[i].status = "completed"
    BY <1>1
  <2> QED
    BY <1>1, <1>2, <1>3, <2>1, ItemStaysSound DEF Bookkeeping, Local
<1> QED
  BY <1>1, <1>3, <1>4, <1>5, LocalSound

LEMMA MoveSound ==
    ASSUME Bookkeeping, NEW a \in Actors, NEW i \in Items, Local(a, i),
           UNCHANGED <<item, replays>>, RunSound(a, i)'
    PROVE  Bookkeeping'
<1>1. replays[i] \in Nat
  BY DEF Bookkeeping, TypeOK
<1>2. Grows(i)
  BY <1>1 DEF Grows, Local
<1>3. ItemSound(i)'
  BY <1>2, ItemStaysSound DEF Bookkeeping, Local
<1> QED
  BY <1>2, <1>3, LocalSound

LEMMA LoadSound ==
    ASSUME Bookkeeping, NEW a \in Actors, NEW i \in Items, LoadRow(a, i)
    PROVE  Bookkeeping'
<1>1. /\ Local(a, i) /\ UNCHANGED <<item, replays>>
      /\ run'[a][i].pc = Admit(a, i, Loaded(item[i]))
      /\ run'[a][i].seen = Loaded(item[i])
  BY LoadEffect DEF Bookkeeping
<1>2. item[i].status # "absent"
  <2>1. RunSound(a, i)
    BY DEF Bookkeeping
  <2> QED
    BY <2>1 DEF LoadRow, RunSound
<1>3. item[i] \in Row
  BY DEF Bookkeeping, TypeOK
<1>4. run'[a][i].pc = "start" => run'[a][i].seen.attempts < MaxAttempts
  <2>1. Loaded(item[i]).attempts \in 0..MaxAttempts
    BY <1>3, LoadedType DEF Row
  <2> QED
    BY <1>1, <2>1, ActionItemsAssumption DEF Admit, Exhausted
<1>5. RunSound(a, i)'
  BY <1>1, <1>2, <1>4 DEF RunSound, Admit
<1> QED
  BY <1>1, <1>5, MoveSound

LEMMA RunStepSound ==
    ASSUME Bookkeeping, NEW a \in Actors, NEW i \in Items, RunStep(a, i)
    PROVE  Bookkeeping'
<1> USE DEF Bookkeeping
<1>1. RunSound(a, i) /\ item[i] \in Row /\ replays \in [Items -> Nat]
  BY DEF TypeOK
<1>2. item[i].dueIn \in Nat /\ RetryTicks \in Nat
  BY <1>1, ActionItemsAssumption DEF Row
<1>3. {"failed", "pending", "completed", "skipped"} \subseteq Statuses \ {"absent"}
  BY DEF Statuses, Open, Done
<1>4. CASE LoadRow(a, i)
  BY <1>4, LoadSound
<1>5. CASE a \in Workers /\ LoadDone(a, i)
  BY <1>5, DoneEffect, MoveSound, IdleIsSound, RecordTypes
<1>6. CASE ManualStart(a, i)
  <2>1. run[a][i].seen.attempts < MaxAttempts
    BY <1>1, <1>6 DEF RunSound, ManualStart
  <2>2. Local(a, i) /\ UNCHANGED <<item, replays>> /\ run'[a][i].pc = "dispatch"
    BY <1>6, <2>1, ManualEffect
  <2>3. RunSound(a, i)'
    BY <1>1, <1>6, <2>2 DEF RunSound, ManualStart, Local
  <2> QED
    BY <2>2, <2>3, MoveSound
<1>7. CASE GiveUp(a, i)
  BY <1>2, <1>3, <1>7, SettleSound DEF GiveUp
<1>8. CASE AwaitReview(a, i)
  BY <1>2, <1>3, <1>8, SettleSound DEF AwaitReview
<1>9. CASE Evaluate(a, i)
  BY <1>1, <1>9, CommitSound DEF Evaluate
<1>10. CASE KeepWaiting(a, i)
  BY <1>2, <1>3, <1>10, SettleSound DEF KeepWaiting
<1>11. CASE WaitOver(a, i)
  BY <1>2, <1>3, <1>11, SettleSound DEF WaitOver
<1>12. CASE LookForReplay(a, i)
  <2>1. /\ Local(a, i) /\ UNCHANGED <<item, replays>> /\ run'[a][i].pc = "replay"
    BY <1>12, LookEffect
  <2>2. RunSound(a, i)'
    BY <1>1, <1>12, <2>1 DEF RunSound, LookForReplay, Local
  <2> QED
    BY <2>1, <2>2, MoveSound
<1>13. CASE SkipReplay(a, i)
  BY <1>2, <1>3, <1>13, SettleSound DEF SkipReplay
<1>14. CASE Replay(a, i)
  <2>1. /\ replays' \in [Items -> Nat] /\ replays'[i] = replays[i] + 1
        /\ \A k \in Items \ {i} : replays'[k] = replays[k]
    BY <1>1, <1>14 DEF Replay
  <2>2. replays'[i] >= replays[i] /\ replays'[i] > 0
    BY <1>1, <2>1
  <2>3. item[i].kind = "replay"
    BY <1>1, <1>14 DEF RunSound, Replay
  <2> QED
    BY <1>14, <2>1, <2>2, <2>3, CommitSound DEF Replay
<1>15. CASE Complete(a, i)
  BY <1>1, <1>2, <1>3, <1>15, SettleSound DEF Complete, RunSound
<1>16. CASE Fail(a, i)
  BY <1>2, <1>3, <1>16, SettleSound DEF Fail
<1> QED
  BY <1>4, <1>5, <1>6, <1>7, <1>8, <1>9, <1>10, <1>11, <1>12, <1>13, <1>14, <1>15,
     <1>16 DEF RunStep

(* Steps that touch several rows or runs.                                  *)

\* Runs may end, but none begins or moves on.
RunsOnlyEnd ==
    \A a \in Actors, i \in Items : run'[a][i] = run[a][i] \/ run'[a][i].pc = "idle"

LEMMA WideSound ==
    ASSUME Bookkeeping, TypeOK', RunsOnlyEnd, \A i \in Items : Grows(i),
           \A i \in Items : item'[i].status = "completed" => item[i].status = "completed"
    PROVE  Bookkeeping'
BY RunStaysSound, IdleIsSound, ItemStaysSound DEF Bookkeeping, RunsOnlyEnd

LEMMA CreateEffect ==
    ASSUME TypeOK, NEW i \in Items, NEW kind \in Kinds, NEW delay \in Delays,
           CreateItem(i, kind, delay)
    PROVE  /\ item' \in [Items -> Row]
           /\ \A k \in Items \ {i} : item'[k] = item[k]
           /\ item'[i].status \in Open
           /\ item'[i].lockedBy = NoWorker
           /\ item'[i].attempts = 0
<1> DEFINE status == IF kind \in {"outcome", "wait"} /\ i \in candles /\ delay = 0
                     THEN "due" ELSE "pending"
           new == [NoItem EXCEPT !.kind = kind, !.status = status, !.dueIn = delay]
<1>1. status \in Open /\ Open \subseteq Statuses
  BY DEF Open, Statuses
<1>2. item' = [item EXCEPT ![i] = new]
  BY DEF CreateItem
<1> HIDE DEF status
<1>3. new \in Row /\ new.status = status /\ new.lockedBy = NoWorker /\ new.attempts = 0
  BY <1>1, RecordTypes, ActionItemsAssumption DEF Row, NoItem
<1> HIDE DEF new
<1>4. item \in [Items -> Row]
  BY DEF TypeOK
<1> QED
  BY <1>1, <1>2, <1>3, <1>4, RowUpdate

LEMMA CreateSound ==
    ASSUME Bookkeeping, NEW i \in Items, NEW kind \in Kinds, NEW delay \in Delays,
           CreateItem(i, kind, delay)
    PROVE  Bookkeeping'
<1>1. /\ item' \in [Items -> Row]
      /\ \A k \in Items \ {i} : item'[k] = item[k]
      /\ item'[i].status \in Open
  BY CreateEffect DEF Bookkeeping
<1>2. UNCHANGED <<run, poll, candles, replays>> /\ item[i].status = "absent"
  BY DEF CreateItem
<1>3. TypeOK'
  BY <1>1, <1>2 DEF Bookkeeping, TypeOK
<1>4. ASSUME NEW a \in Actors, NEW k \in Items PROVE RunSound(a, k)'
  <2>1. RunSound(a, k)
    BY DEF Bookkeeping
  <2>2. CASE k = i
    BY <1>2, <2>1, <2>2 DEF RunSound
  <2>3. CASE k # i
    BY <1>1, <1>2, <2>1, <2>3 DEF RunSound
  <2> QED
    BY <2>2, <2>3
<1>5. ASSUME NEW k \in Items PROVE ItemSound(k)'
  BY <1>1, <1>2 DEF Bookkeeping, ItemSound, Open
<1> QED
  BY <1>3, <1>4, <1>5 DEF Bookkeeping

\* What marking does to a row.
LEMMA MarkEffect ==
    ASSUME TypeOK, NEW m \in Workers \cup Markers, MarkWrite(m)
    PROVE  /\ TypeOK'
           /\ UNCHANGED <<run, candles, replays>>
           /\ \A i \in Items :
                 /\ item'[i].status = item[i].status \/ item'[i].status = "due"
                 /\ item'[i].kind = item[i].kind
                 /\ item'[i].attempts = item[i].attempts
                 /\ item'[i].lockedBy = item[i].lockedBy
                 /\ item'[i].lockLeft = item[i].lockLeft
<1>1. ASSUME NEW i \in Items
      PROVE  /\ item'[i] \in Row
             /\ item'[i].status = item[i].status \/ item'[i].status = "due"
             /\ item'[i].kind = item[i].kind
             /\ item'[i].attempts = item[i].attempts
             /\ item'[i].lockedBy = item[i].lockedBy
             /\ item'[i].lockLeft = item[i].lockLeft
  <2> DEFINE new == [item[i] EXCEPT !.status = "due"]
  <2>1. item[i] \in Row /\ "due" \in Statuses
    BY DEF TypeOK, Statuses, Open
  <2>2. /\ new \in Row /\ new.status = "due" /\ new.kind = item[i].kind
        /\ new.attempts = item[i].attempts /\ new.lockedBy = item[i].lockedBy
        /\ new.lockLeft = item[i].lockLeft
    BY <2>1 DEF Row
  <2>3. item'[i] = IF i \in poll[m].items THEN new ELSE item[i]
    BY DEF MarkWrite
  <2> HIDE DEF new
  <2> QED
    BY <2>1, <2>2, <2>3
<1>2. item' \in [Items -> Row]
  <2>1. DOMAIN item' = Items /\ item' = [i \in Items |-> item'[i]]
    BY DEF MarkWrite
  <2> QED
    BY <1>1, <2>1
<1>3. poll' \in [Workers \cup Markers -> PollType]
  <2> DEFINE new == IF m \in Markers THEN Resting ELSE [pc |-> "claim", items |-> {}]
  <2>1. new \in PollType
    BY RecordTypes DEF PollType
  <2>2. poll' = [poll EXCEPT ![m] = new] /\ poll \in [Workers \cup Markers -> PollType]
    BY DEF MarkWrite, TypeOK, PollType
  <2> HIDE DEF new
  <2> QED
    BY <2>1, <2>2
<1>4. UNCHANGED <<run, candles, replays>>
  BY DEF MarkWrite
<1> QED
  BY <1>1, <1>2, <1>3, <1>4 DEF TypeOK, PollType

LEMMA ReadEffect ==
    ASSUME TypeOK, NEW m \in Workers \cup Markers, MarkRead(m)
    PROVE  TypeOK' /\ UNCHANGED <<item, run, candles, replays>>
<1> DEFINE due == {i \in Items : item[i].status = "pending" /\ item[i].dueIn = 0
                                   /\ Automatic(i)}
           new == IF due = {} THEN [pc |-> "claim", items |-> {}]
                  ELSE [pc |-> "marking", items |-> due]
<1>1. new \in PollType
  BY DEF PollType
<1>2. poll' = [poll EXCEPT ![m] = new] /\ UNCHANGED <<item, run, candles, replays>>
  BY DEF MarkRead
<1>3. poll \in [Workers \cup Markers -> PollType]
  BY DEF TypeOK, PollType
<1> HIDE DEF new
<1>4. poll' \in [Workers \cup Markers -> PollType]
  BY <1>1, <1>2, <1>3
<1> QED
  BY <1>2, <1>4 DEF TypeOK, PollType

\* A claim of the items in S by worker w, row by row and run by run.
Taking(w, S) ==
    /\ \A i \in S : /\ Claimable(i)
                    /\ run[w][i].pc = "idle"
                    /\ item'[i].kind = item[i].kind
                    /\ item'[i].status = "running"
                    /\ item'[i].attempts = item[i].attempts + 1
                    /\ item'[i].lockedBy = w
                    /\ item'[i].lockLeft = LockTicks
                    /\ run'[w][i].pc \in {"claimed", "dispatch"}
                    /\ run'[w][i].seen = [status |-> "running",
                                          attempts |-> item[i].attempts + 1,
                                          lockedBy |-> w]
                    /\ run'[w][i].lease = LockTicks
                    /\ ~run'[w][i].holds
    /\ \A i \in Items \ S : item'[i] = item[i] /\ run'[w][i] = run[w][i]
    /\ \A a \in Actors \ {w}, i \in Items : run'[a][i] = run[a][i]

LEMMA ClaimEffect ==
    ASSUME TypeOK, NEW w \in Workers, ClaimBatch(w)
    PROVE  /\ TypeOK'
           /\ UNCHANGED <<candles, replays>>
           /\ \E S \in SUBSET Items : Taking(w, S)
<1> DEFINE C == {i \in Items : Claimable(i) /\ run[w][i].pc = "idle"}
<1>1. PICK S \in SUBSET C :
        /\ item' = [i \in Items |-> IF i \in S THEN Leased(item[i], w) ELSE item[i]]
        /\ run' = [run EXCEPT ![w] = [i \in Items |->
                     IF i \in S THEN Claimed(w, i) ELSE run[w][i]]]
        /\ poll' = [poll EXCEPT ![w] = IF S = {} THEN Resting
                      ELSE [pc |-> "running", items |-> S]]
  BY DEF ClaimBatch
<1>2. S \subseteq Items /\ \A i \in S : Claimable(i) /\ run[w][i].pc = "idle"
  OBVIOUS
<1>3. /\ item \in [Items -> Row] /\ run \in [Actors -> [Items -> RunType]]
      /\ poll \in [Workers \cup Markers -> PollType]
      /\ w \in Actors /\ LockTicks \in Nat
  BY ActionItemsAssumption DEF TypeOK, RunType, PollType, Actors
<1>4. ASSUME NEW i \in S
      PROVE  /\ Leased(item[i], w) \in Row
             /\ Leased(item[i], w).kind = item[i].kind
             /\ Leased(item[i], w).status = "running"
             /\ Leased(item[i], w).attempts = item[i].attempts + 1
             /\ Leased(item[i], w).lockedBy = w
             /\ Leased(item[i], w).lockLeft = LockTicks
  <2>1. item[i] \in Row /\ item[i].attempts < MaxAttempts /\ "running" \in Statuses
    BY <1>2, <1>3 DEF Claimable, Statuses
  <2>2. item[i].attempts + 1 \in 0..MaxAttempts
    BY <2>1, ActionItemsAssumption DEF Row
  <2> QED
    BY <1>3, <2>1, <2>2 DEF Leased, Row
<1>5. ASSUME NEW i \in S
      PROVE  /\ Claimed(w, i) \in RunType
             /\ Claimed(w, i).pc \in {"claimed", "dispatch"}
             /\ Claimed(w, i).seen = [status |-> "running",
                                      attempts |-> item[i].attempts + 1, lockedBy |-> w]
             /\ Claimed(w, i).lease = LockTicks
             /\ ~Claimed(w, i).holds
  <2> DEFINE pc == IF w \in InSession THEN "dispatch" ELSE "claimed"
             seen == Loaded(Leased(item[i], w))
             new == [Idle EXCEPT !.pc = pc, !.seen = seen, !.lease = LockTicks]
  <2>1. pc \in {"claimed", "dispatch"} /\ pc \in Phases
    BY DEF Phases
  <2>2. seen \in Copy
    BY <1>4, LoadedType
  <2>3. seen = [status |-> "running", attempts |-> item[i].attempts + 1, lockedBy |-> w]
    BY <1>4 DEF Loaded
  <2>4. Claimed(w, i) = new
    BY DEF Claimed
  <2> HIDE DEF pc, seen
  <2>5. /\ new \in RunType /\ new.pc = pc /\ new.seen = seen
        /\ new.lease = LockTicks /\ ~new.holds
    BY <1>3, <2>1, <2>2, RecordTypes DEF RunType, Idle
  <2> QED
    BY <2>1, <2>3, <2>4, <2>5
<1> DEFINE next == [i \in Items |-> IF i \in S THEN Claimed(w, i) ELSE run[w][i]]
<1>6. /\ next \in [Items -> RunType]
      /\ \A i \in S : next[i] = Claimed(w, i)
      /\ \A i \in Items \ S : next[i] = run[w][i]
  BY <1>2, <1>3, <1>5
<1>7. run' = [run EXCEPT ![w] = next]
  BY <1>1
<1> HIDE DEF next
<1>8. /\ run' \in [Actors -> [Items -> RunType]]
      /\ run'[w] = next
      /\ \A a \in Actors \ {w}, i \in Items : run'[a][i] = run[a][i]
  BY <1>3, <1>6, <1>7
<1>9. /\ item' \in [Items -> Row]
      /\ \A i \in S : item'[i] = Leased(item[i], w)
      /\ \A i \in Items \ S : item'[i] = item[i]
  BY <1>1, <1>2, <1>3, <1>4
<1>10. poll' \in [Workers \cup Markers -> PollType]
  <2> DEFINE new == IF S = {} THEN Resting ELSE [pc |-> "running", items |-> S]
  <2>1. new \in PollType
    BY <1>2, RecordTypes DEF PollType
  <2>2. poll' = [poll EXCEPT ![w] = new]
    BY <1>1
  <2> HIDE DEF new
  <2> QED
    BY <1>3, <2>1, <2>2
<1>11. UNCHANGED <<candles, replays>>
  BY DEF ClaimBatch
<1>12. Taking(w, S)
  BY <1>2, <1>4, <1>5, <1>6, <1>8, <1>9 DEF Taking
<1>13. TypeOK'
  BY <1>8, <1>9, <1>10, <1>11 DEF TypeOK, RunType, PollType
<1> QED
  BY <1>2, <1>11, <1>12, <1>13

LEMMA ClaimSound ==
    ASSUME Bookkeeping, NEW w \in Workers, ClaimBatch(w)
    PROVE  Bookkeeping'
<1>1. PICK S \in SUBSET Items : Taking(w, S)
  BY ClaimEffect DEF Bookkeeping
<1>2. TypeOK' /\ candles' = candles /\ replays' = replays
  BY ClaimEffect DEF Bookkeeping
<1>3. ASSUME NEW i \in Items
      PROVE  Grows(i) /\ (item'[i].status = "completed" => item[i].status = "completed")
  <2>1. replays'[i] >= replays[i]
    <3>1. replays[i] \in Nat
      BY DEF Bookkeeping, TypeOK
    <3> QED
      BY <1>2, <3>1
  <2>2. CASE i \in S
    BY <1>1, <1>2, <2>1, <2>2 DEF Taking, Grows
  <2>3. CASE i \notin S
    <3>1. item'[i] = item[i]
      BY <1>1, <2>3 DEF Taking
    <3> QED
      BY <1>2, <2>1, <3>1 DEF Grows
  <2> QED
    BY <2>2, <2>3
<1>4. ASSUME NEW a \in Actors, NEW i \in Items PROVE RunSound(a, i)'
  <2>1. CASE a = w /\ i \in S
    BY <1>1, <2>1 DEF Taking, RunSound
  <2>2. CASE ~(a = w /\ i \in S)
    <3>1. run'[a][i] = run[a][i]
      BY <1>1, <2>2 DEF Taking
    <3> QED
      BY <1>2, <1>3, <3>1, RunStaysSound DEF Bookkeeping
  <2> QED
    BY <2>1, <2>2
<1>5. ASSUME NEW i \in Items PROVE ItemSound(i)'
  BY <1>2, <1>3, ItemStaysSound DEF Bookkeeping
<1> QED
  BY <1>2, <1>4, <1>5 DEF Bookkeeping

(* Faults only end runs.                                                   *)
LEMMA FaultEffect ==
    ASSUME TypeOK, Fault
    PROVE  TypeOK' /\ RunsOnlyEnd /\ UNCHANGED <<item, candles, replays>>
<1>1. /\ run \in [Actors -> [Items -> RunType]]
      /\ poll \in [Workers \cup Markers -> PollType]
  BY DEF TypeOK, RunType, PollType
<1> DEFINE none == [k \in Items |-> Idle]
<1>2. none \in [Items -> RunType] /\ \A k \in Items : none[k].pc = "idle"
  BY RecordTypes
<1>3. ASSUME NEW a \in Actors, NEW i \in Items, Abort(a, i)
      PROVE  TypeOK' /\ RunsOnlyEnd /\ UNCHANGED <<item, candles, replays>>
  <2>1. UNCHANGED <<item, candles, replays>>
    BY <1>3 DEF Abort
  <2>2. poll' \in [Workers \cup Markers -> PollType]
    BY <1>1, <1>3, RecordTypes DEF Abort
  <2>3. run' \in [Actors -> [Items -> RunType]] /\ RunsOnlyEnd
    <3>1. CASE a \in InSession
      <4>1. run' = [run EXCEPT ![a] = none]
        BY <1>3, <3>1 DEF Abort
      <4> HIDE DEF none
      <4> QED
        BY <1>1, <1>2, <4>1 DEF RunsOnlyEnd
    <3>2. CASE a \notin InSession
      <4>1. run' = [run EXCEPT ![a][i] = Idle]
        BY <1>3, <3>2 DEF Abort
      <4> QED
        BY <1>1, <4>1, RunUpdate, RecordTypes DEF RunsOnlyEnd
    <3> QED
      BY <3>1, <3>2
  <2> QED
    BY <2>1, <2>2, <2>3 DEF TypeOK, RunType, PollType
<1>4. ASSUME NEW w \in Workers, Crash(w)
      PROVE  TypeOK' /\ RunsOnlyEnd /\ UNCHANGED <<item, candles, replays>>
  <2>1. /\ UNCHANGED <<item, candles, replays>>
        /\ poll' = [poll EXCEPT ![w] = Resting]
        /\ run' = [run EXCEPT ![w] = none]
    BY <1>4 DEF Crash
  <2> HIDE DEF none
  <2>2. run' \in [Actors -> [Items -> RunType]] /\ RunsOnlyEnd
    BY <1>1, <1>2, <2>1 DEF RunsOnlyEnd, Actors
  <2>3. poll' \in [Workers \cup Markers -> PollType]
    BY <1>1, <2>1, RecordTypes
  <2> QED
    BY <2>1, <2>2, <2>3 DEF TypeOK, RunType, PollType
<1> QED
  BY <1>3, <1>4 DEF Fault

LEMMA TickEffect ==
    ASSUME TypeOK, Tick
    PROVE  /\ TypeOK'
           /\ UNCHANGED <<poll, candles, replays>>
           /\ \A i \in Items : /\ item'[i].kind = item[i].kind
                               /\ item'[i].status = item[i].status
                               /\ item'[i].attempts = item[i].attempts
                               /\ item'[i].lockedBy = item[i].lockedBy
                               /\ item'[i].lockLeft = Less(item[i].lockLeft)
           /\ \A a \in Actors, i \in Items : /\ run'[a][i].pc = run[a][i].pc
                                             /\ run'[a][i].seen = run[a][i].seen
                                             /\ run'[a][i].holds = run[a][i].holds
                                             /\ run'[a][i].lease = Less(run[a][i].lease)
<1>1. \A t \in Nat : Less(t) \in Nat
  BY DEF Less
<1>2. ASSUME NEW i \in Items
      PROVE  /\ item'[i] \in Row
             /\ item'[i].kind = item[i].kind
             /\ item'[i].status = item[i].status
             /\ item'[i].attempts = item[i].attempts
             /\ item'[i].lockedBy = item[i].lockedBy
             /\ item'[i].lockLeft = Less(item[i].lockLeft)
  <2> DEFINE new == [item[i] EXCEPT !.lockLeft = Less(item[i].lockLeft),
                                    !.dueIn = Less(item[i].dueIn)]
  <2>1. item[i] \in Row
    BY DEF TypeOK
  <2>2. item'[i] = new
    BY DEF Tick
  <2>3. Less(item[i].lockLeft) \in Nat /\ Less(item[i].dueIn) \in Nat
    BY <1>1, <2>1 DEF Row
  <2>4. /\ new \in Row /\ new.kind = item[i].kind /\ new.status = item[i].status
        /\ new.attempts = item[i].attempts /\ new.lockedBy = item[i].lockedBy
        /\ new.lockLeft = Less(item[i].lockLeft)
    BY <2>1, <2>3 DEF Row
  <2> QED
    BY <2>2, <2>4
<1>3. ASSUME NEW a \in Actors, NEW i \in Items
      PROVE  /\ run'[a][i] \in RunType
             /\ run'[a][i].pc = run[a][i].pc
             /\ run'[a][i].seen = run[a][i].seen
             /\ run'[a][i].holds = run[a][i].holds
             /\ run'[a][i].lease = Less(run[a][i].lease)
  <2> DEFINE new == [run[a][i] EXCEPT !.lease = Less(run[a][i].lease)]
  <2>1. run[a][i] \in RunType
    BY DEF TypeOK, RunType
  <2>2. run'[a][i] = new
    BY DEF Tick
  <2>3. Less(run[a][i].lease) \in Nat
    BY <1>1, <2>1 DEF RunType
  <2>4. /\ new \in RunType /\ new.pc = run[a][i].pc /\ new.seen = run[a][i].seen
        /\ new.holds = run[a][i].holds /\ new.lease = Less(run[a][i].lease)
    BY <2>1, <2>3 DEF RunType
  <2> QED
    BY <2>2, <2>4
<1>4. item' \in [Items -> Row]
  <2>1. item' = [i \in Items |-> item'[i]]
    BY DEF Tick
  <2> QED
    BY <1>2, <2>1
<1>5. run' \in [Actors -> [Items -> RunType]]
  <2>1. run' = [a \in Actors |-> [i \in Items |-> run'[a][i]]]
    BY DEF Tick
  <2> QED
    BY <1>3, <2>1
<1>6. UNCHANGED <<poll, candles, replays>>
  BY DEF Tick
<1> QED
  BY <1>2, <1>3, <1>4, <1>5, <1>6 DEF TypeOK, RunType

LEMMA SameGrows ==
    ASSUME TypeOK, UNCHANGED <<item, candles, replays>>, NEW i \in Items
    PROVE  Grows(i)
<1>1. replays[i] \in Nat
  BY DEF TypeOK
<1> QED
  BY <1>1 DEF Grows

LEMMA StepSound == Bookkeeping /\ [Next]_vars => Bookkeeping'
<1> SUFFICES ASSUME Bookkeeping, [Next]_vars PROVE Bookkeeping'
  OBVIOUS
<1> USE DEF Bookkeeping
<1>1. CASE World
  <2> PICK i \in Items :
        (\E kind \in Kinds, delay \in Delays : CreateItem(i, kind, delay)) \/ CandlesArrive(i)
    BY <1>1 DEF World
  <2>1. CASE \E kind \in Kinds, delay \in Delays : CreateItem(i, kind, delay)
    BY <2>1, CreateSound
  <2>2. CASE CandlesArrive(i)
    <3>1. candles' = candles \cup {i} /\ UNCHANGED <<item, run, poll, replays>>
      BY <2>2 DEF CandlesArrive
    <3>2. TypeOK' /\ RunsOnlyEnd
      BY <3>1 DEF TypeOK, RunsOnlyEnd
    <3>3. \A k \in Items : replays[k] \in Nat
      BY DEF TypeOK
    <3>4. \A k \in Items : Grows(k)
      BY <3>1, <3>3 DEF Grows
    <3> QED
      BY <3>1, <3>2, <3>4, WideSound
  <2> QED
    BY <2>1, <2>2
<1>2. ASSUME NEW m \in Workers \cup Markers, PollStep(m) PROVE Bookkeeping'
  <2>1. CASE MarkRead(m)
    <3>1. TypeOK' /\ UNCHANGED <<item, run, candles, replays>>
      BY <2>1, ReadEffect
    <3>2. RunsOnlyEnd
      BY <3>1 DEF RunsOnlyEnd
    <3> QED
      BY <3>1, <3>2, SameGrows, WideSound
  <2>2. CASE MarkWrite(m)
    <3>1. /\ TypeOK' /\ UNCHANGED <<run, candles, replays>>
          /\ \A i \in Items :
                /\ item'[i].status = item[i].status \/ item'[i].status = "due"
                /\ item'[i].kind = item[i].kind
      BY <2>2, MarkEffect
    <3>2. RunsOnlyEnd
      BY <3>1 DEF RunsOnlyEnd
    <3>3. \A k \in Items : replays[k] \in Nat
      BY DEF TypeOK
    <3>4. \A k \in Items : Grows(k)
      BY <3>1, <3>3 DEF Grows
    <3> QED
      BY <3>1, <3>2, <3>4, WideSound
  <2>3. CASE m \in Workers /\ ClaimBatch(m)
    BY <2>3, ClaimSound
  <2> QED
    BY <1>2, <2>1, <2>2, <2>3 DEF PollStep
<1>3. CASE Fault
  BY <1>3, FaultEffect, SameGrows, WideSound
<1>4. CASE Tick
  <2>1. /\ TypeOK' /\ UNCHANGED <<candles, replays>>
        /\ \A i \in Items : /\ item'[i].kind = item[i].kind
                            /\ item'[i].status = item[i].status
        /\ \A a \in Actors, i \in Items : /\ run'[a][i].pc = run[a][i].pc
                                          /\ run'[a][i].seen = run[a][i].seen
    BY <1>4, TickEffect
  <2>2. ASSUME NEW a \in Actors, NEW i \in Items PROVE RunSound(a, i)'
    <3>1. RunSound(a, i)
      OBVIOUS
    <3> QED
      BY <2>1, <3>1 DEF RunSound
  <2>3. ASSUME NEW i \in Items PROVE ItemSound(i)'
    <3>1. ItemSound(i)
      OBVIOUS
    <3> QED
      BY <2>1, <3>1 DEF ItemSound
  <2> QED
    BY <2>1, <2>2, <2>3
<1>5. CASE UNCHANGED vars
  <2>1. UNCHANGED <<item, run, poll, candles, replays>>
    BY <1>5 DEF vars
  <2>2. TypeOK' /\ RunsOnlyEnd
    BY <2>1 DEF TypeOK, RunsOnlyEnd
  <2> QED
    BY <2>1, <2>2, SameGrows, WideSound
<1> QED
  BY <1>1, <1>2, <1>3, <1>4, <1>5, RunStepSound, LoadSound
     DEF Next, Working, ManualRequest, Actors

LEMMA InitSound == Init => Bookkeeping
<1> SUFFICES ASSUME Init PROVE Bookkeeping
  OBVIOUS
<1>1. TypeOK
  BY RecordTypes DEF Init, TypeOK, RunType, PollType
<1>2. ASSUME NEW a \in Actors, NEW i \in Items PROVE RunSound(a, i)
  BY RecordTypes DEF Init, RunSound
<1>3. ASSUME NEW i \in Items PROVE ItemSound(i)
  BY DEF Init, ItemSound, NoItem
<1> QED
  BY <1>1, <1>2, <1>3 DEF Bookkeeping

LEMMA SpecSound == Spec => []Bookkeeping
<1>1. Init => Bookkeeping
  BY InitSound
<1>2. Bookkeeping /\ [Next]_vars => Bookkeeping'
  BY StepSound
<1> QED
  BY <1>1, <1>2, PTL DEF Spec

(* The rows and runs keep their types, and attempts never pass the limit,  *)
(* also when a manual execution writes back a count it read long ago.      *)
THEOREM TypesHold == Spec => []TypeOK
<1>1. Bookkeeping => TypeOK
  BY DEF Bookkeeping
<1> QED
  BY <1>1, SpecSound, PTL

(* Completion is recorded only for what was done, with any number of       *)
(* manual executions, expired leases, crashes and stale copies.            *)
THEOREM CompletionCorrect == Spec => []CompletedMeansDone
<1>1. Bookkeeping => CompletedMeansDone
  BY DEF Bookkeeping, ItemSound, CompletedMeansDone
<1> QED
  BY <1>1, SpecSound, PTL

-----------------------------------------------------------------------------
(* Leased: runs within their leases, and no manual execution.              *)

\* The run of a worker owns its row: the lease is its own and outlasts the run,
\* and the copy it decides on is current but for a status marked due.
Owns(w, i) ==
    /\ run[w][i].pc \notin {"start", "exhausted", "review"}
    /\ item[i].lockedBy = w
    /\ run[w][i].lease > 0
    /\ item[i].lockLeft >= run[w][i].lease
    /\ item[i].status \in {"running", "due"}
    /\ item[i].kind # "review"
    /\ run[w][i].seen.status \in {"running", "due"}
    /\ run[w][i].seen.attempts = item[i].attempts
    /\ run[w][i].seen.lockedBy = w
    /\ run[w][i].pc = "replay" => replays[i] = 0

\* What leases keep true of a row.
RowLeased(i) ==
    /\ item[i].status = "running" => item[i].lockedBy # NoWorker
    /\ item[i].status = "failed" => item[i].attempts = MaxAttempts
    /\ item[i].status = "absent" => item[i].attempts = 0
    /\ replays[i] <= 1

UnderLeases ==
    /\ \A a \in Actors, i \in Items : ~run[a][i].holds
    /\ \A r \in Requests, i \in Items : run[r][i].pc = "idle"
    /\ \A w \in Workers, i \in Items : run[w][i].pc # "idle" => Owns(w, i)
    /\ \A i \in Items : RowLeased(i)

LEMMA OneOwner ==
    ASSUME UnderLeases, NEW i \in Items, NEW v \in Workers, NEW w \in Workers,
           run[v][i].pc # "idle", run[w][i].pc # "idle"
    PROVE  v = w
BY DEF UnderLeases, Owns

\* A local step of w's run of i leaves the other runs and rows under leases.
LEMMA LocalLeased ==
    ASSUME Bookkeeping, UnderLeases, NEW w \in Workers, NEW i \in Items, Local(w, i),
           run[w][i].pc # "idle", ~run'[w][i].holds,
           run'[w][i].pc # "idle" => Owns(w, i)', RowLeased(i)'
    PROVE  UnderLeases'
<1>1. \A a \in Actors, k \in Items : a # w \/ k # i => run'[a][k] = run[a][k]
  BY DEF Local
<1>2. \A a \in Actors, k \in Items : ~run'[a][k].holds
  <2> SUFFICES ASSUME NEW a \in Actors, NEW k \in Items PROVE ~run'[a][k].holds
    OBVIOUS
  <2>1. CASE a = w /\ k = i
    BY <2>1
  <2>2. CASE a # w \/ k # i
    BY <1>1, <2>2 DEF UnderLeases
  <2> QED
    BY <2>1, <2>2
<1>3. \A r \in Requests, k \in Items : run'[r][k].pc = "idle"
  <2>1. \A r \in Requests : r \in Actors /\ r # w
    BY ActionItemsAssumption DEF Actors
  <2> QED
    BY <1>1, <2>1 DEF UnderLeases
<1>4. ASSUME NEW v \in Workers, NEW k \in Items, run'[v][k].pc # "idle"
      PROVE  Owns(v, k)'
  <2>1. CASE v = w /\ k = i
    BY <1>4, <2>1
  <2>2. CASE v # w /\ k = i
    <3>1. run[v][i].pc # "idle"
      BY <1>1, <1>4, <2>2 DEF Actors
    <3> QED
      BY <2>2, <3>1, OneOwner
  <2>3. CASE k # i
    <3>1. run'[v][k] = run[v][k]
      BY <1>1, <2>3 DEF Actors
    <3>2. Owns(v, k)
      BY <1>4, <3>1 DEF UnderLeases
    <3>3. item'[k] = item[k] /\ replays'[k] = replays[k]
      BY <2>3 DEF Local
    <3> QED
      BY <3>1, <3>2, <3>3 DEF Owns
  <2> QED
    BY <2>1, <2>2, <2>3
<1>5. ASSUME NEW k \in Items PROVE RowLeased(k)'
  <2>1. CASE k = i
    BY <2>1
  <2>2. CASE k # i
    BY <2>2 DEF Local, RowLeased, UnderLeases
  <2> QED
    BY <2>1, <2>2
<1> QED
  BY <1>2, <1>3, <1>4, <1>5 DEF UnderLeases

LEMMA SettleLeased ==
    ASSUME Bookkeeping, UnderLeases, NEW w \in Workers, NEW i \in Items,
           NEW s \in {"pending", "failed", "completed", "skipped"}, NEW d \in Nat,
           Settle(w, i, s, d), run[w][i].pc # "idle",
           s = "failed" => item[i].attempts = MaxAttempts
    PROVE  UnderLeases'
<1>1. Owns(w, i) /\ RowLeased(i) /\ w \in Actors /\ ~run[w][i].holds /\ w # NoWorker
  BY ActionItemsAssumption DEF UnderLeases, Actors
<1>2. s \in Statuses
  BY DEF Statuses, Open, Done
<1>3. /\ Local(w, i) /\ run'[w][i] = Idle /\ replays' = replays
      /\ item'[i].status = IF s = run[w][i].seen.status THEN item[i].status ELSE s
      /\ item'[i].attempts = IF run[w][i].holds THEN run[w][i].seen.attempts
                             ELSE item[i].attempts
  BY <1>1, <1>2, SettleEffect DEF Bookkeeping
<1>4. item'[i].status = s /\ item'[i].attempts = item[i].attempts
  BY <1>1, <1>3 DEF Owns
<1>5. RowLeased(i)'
  BY <1>1, <1>3, <1>4 DEF RowLeased
<1> QED
  BY <1>3, <1>5, RecordTypes, LocalLeased

LEMMA CommitLeased ==
    ASSUME Bookkeeping, UnderLeases, NEW w \in Workers, NEW i \in Items,
           CommitHeld(w, i, "finish"), run[w][i].pc # "idle",
           replays' \in [Items -> Nat], replays'[i] <= 1,
           \A k \in Items \ {i} : replays'[k] = replays[k]
    PROVE  UnderLeases'
<1>1. Owns(w, i) /\ RowLeased(i) /\ w \in Actors /\ ~run[w][i].holds
  BY DEF UnderLeases, Actors
<1>2. /\ Local(w, i) /\ run'[w][i].pc = "finish" /\ run'[w][i].seen = run[w][i].seen
      /\ run'[w][i].lease = run[w][i].lease /\ ~run'[w][i].holds
      /\ item' = item
  BY <1>1, CommitEffect DEF Bookkeeping, Phases
<1>3. Owns(w, i)'
  BY <1>1, <1>2 DEF Owns
<1>4. RowLeased(i)'
  BY <1>1, <1>2 DEF RowLeased
<1> QED
  BY <1>2, <1>3, <1>4, LocalLeased

LEMMA LoadLeased ==
    ASSUME Bookkeeping, UnderLeases, NEW w \in Workers, NEW i \in Items, LoadRow(w, i)
    PROVE  UnderLeases'
<1>1. w \notin Requests /\ w \in Actors /\ item[i] \in Row
  BY ActionItemsAssumption DEF Actors, Bookkeeping, TypeOK
<1>2. run[w][i].pc = "claimed"
  BY <1>1 DEF LoadRow
<1>3. Owns(w, i) /\ RowLeased(i) /\ ~run[w][i].holds
  BY <1>1, <1>2 DEF UnderLeases
<1>4. /\ Local(w, i) /\ UNCHANGED <<item, replays>>
      /\ run'[w][i].pc = Admit(w, i, Loaded(item[i]))
      /\ run'[w][i].seen = Loaded(item[i])
      /\ run'[w][i].holds = run[w][i].holds
      /\ run'[w][i].lease = run[w][i].lease
  BY <1>1, LoadEffect DEF Bookkeeping
<1>5. run'[w][i].pc = "dispatch"
  <2>1. Loaded(item[i]).attempts = item[i].attempts /\ item[i].attempts \in 0..MaxAttempts
    BY <1>1, LoadedType DEF Row
  <2>2. ~Exhausted(w, Loaded(item[i]))
    BY <1>1, <2>1, ActionItemsAssumption DEF Exhausted
  <2> QED
    BY <1>1, <1>3, <1>4, <2>2 DEF Admit, Owns
<1>6. Owns(w, i)'
  <2>1. run'[w][i].seen.status = item[i].status /\ run'[w][i].seen.attempts = item[i].attempts
        /\ run'[w][i].seen.lockedBy = item[i].lockedBy
    BY <1>1, <1>4, LoadedType
  <2> QED
    BY <1>3, <1>4, <1>5, <2>1 DEF Owns
<1>7. RowLeased(i)'
  BY <1>3, <1>4 DEF RowLeased
<1> QED
  BY <1>2, <1>3, <1>4, <1>6, <1>7, LocalLeased

LEMMA RunStepLeased ==
    ASSUME Bookkeeping, UnderLeases, NEW a \in Actors, NEW i \in Items, RunStep(a, i)
    PROVE  UnderLeases'
<1>1. item[i] \in Row /\ replays \in [Items -> Nat] /\ replays[i] \in Nat
  BY DEF Bookkeeping, TypeOK
<1>2. item[i].dueIn \in Nat /\ RetryTicks \in Nat
  BY <1>1, ActionItemsAssumption DEF Row
<1>3. a \in Workers /\ run[a][i].pc # "idle"
  <2>1. a \in Workers /\ (LoadRow(a, i) \/ LoadDone(a, i)) => run[a][i].pc # "idle"
    BY ActionItemsAssumption DEF LoadRow, LoadDone
  <2>2. run[a][i].pc # "idle"
    BY <2>1 DEF RunStep, ManualStart, GiveUp, AwaitReview, Evaluate, KeepWaiting, WaitOver,
               LookForReplay, SkipReplay, Replay, Complete, Fail
  <2> QED
    BY <2>2 DEF UnderLeases, Actors
<1>4. Owns(a, i) /\ RowLeased(i) /\ ~run[a][i].holds
  BY <1>3 DEF UnderLeases
<1>5. CASE LoadRow(a, i)
  BY <1>3, <1>5, LoadLeased
<1>6. CASE LoadDone(a, i)
  <2>1. Local(a, i) /\ UNCHANGED <<item, replays>> /\ run'[a][i] = Idle
    BY <1>6, DoneEffect DEF Bookkeeping
  <2>2. RowLeased(i)'
    BY <1>4, <2>1 DEF RowLeased
  <2> QED
    BY <1>3, <2>1, <2>2, RecordTypes, LocalLeased
<1>7. CASE ManualStart(a, i) \/ GiveUp(a, i) \/ AwaitReview(a, i)
  BY <1>4, <1>7 DEF Owns, ManualStart, GiveUp, AwaitReview
<1>8. CASE Evaluate(a, i)
  BY <1>1, <1>3, <1>4, <1>8, CommitLeased DEF Evaluate, RowLeased
<1>9. CASE KeepWaiting(a, i)
  BY <1>2, <1>3, <1>9, SettleLeased DEF KeepWaiting
<1>10. CASE WaitOver(a, i)
  BY <1>2, <1>3, <1>10, SettleLeased DEF WaitOver
<1>11. CASE LookForReplay(a, i)
  <2>1. /\ Local(a, i) /\ UNCHANGED <<item, replays>> /\ run'[a][i].pc = "replay"
        /\ run'[a][i].seen = run[a][i].seen /\ run'[a][i].lease = run[a][i].lease
        /\ run'[a][i].holds = run[a][i].holds
    BY <1>11, LookEffect DEF Bookkeeping
  <2>2. Owns(a, i)'
    BY <1>4, <1>11, <2>1 DEF Owns, LookForReplay
  <2>3. RowLeased(i)'
    BY <1>4, <2>1 DEF RowLeased
  <2> QED
    BY <1>3, <1>4, <2>1, <2>2, <2>3, LocalLeased
<1>12. CASE SkipReplay(a, i)
  BY <1>2, <1>3, <1>12, SettleLeased DEF SkipReplay
<1>13. CASE Replay(a, i)
  <2>1. replays[i] = 0
    BY <1>4, <1>13 DEF Owns, Replay
  <2>2. /\ replays' \in [Items -> Nat] /\ replays'[i] = 1
        /\ \A k \in Items \ {i} : replays'[k] = replays[k]
    BY <1>1, <1>13, <2>1 DEF Replay
  <2> QED
    BY <1>3, <1>13, <2>2, CommitLeased DEF Replay
<1>14. CASE Complete(a, i)
  BY <1>2, <1>3, <1>14, SettleLeased DEF Complete
<1>15. CASE Fail(a, i)
  <2>1. Failed(a, i) => item[i].attempts = MaxAttempts
    BY <1>1, <1>4, ActionItemsAssumption DEF Failed, Owns, Row
  <2>2. CASE Failed(a, i)
    BY <1>2, <1>3, <1>15, <2>1, <2>2, SettleLeased DEF Fail
  <2>3. CASE ~Failed(a, i)
    BY <1>2, <1>3, <1>15, <2>3, SettleLeased DEF Fail
  <2> QED
    BY <2>2, <2>3
<1> QED
  BY <1>5, <1>6, <1>7, <1>8, <1>9, <1>10, <1>11, <1>12, <1>13, <1>14, <1>15 DEF RunStep

\* Steps that begin no run, change no lease and store no replay.
LEMMA WideLeased ==
    ASSUME UnderLeases, replays' = replays,
           \A a \in Actors, i \in Items :
               \/ run'[a][i] = run[a][i]
               \/ run'[a][i].pc = "idle" /\ ~run'[a][i].holds,
           \A i \in Items :
               /\ item'[i].status \in {item[i].status, "due"}
               /\ item'[i].kind = item[i].kind
               /\ item'[i].attempts = item[i].attempts
               /\ item'[i].lockedBy = item[i].lockedBy
               /\ item'[i].lockLeft = item[i].lockLeft
    PROVE  UnderLeases'
<1>1. ASSUME NEW w \in Workers, NEW i \in Items, run'[w][i].pc # "idle"
      PROVE  Owns(w, i)'
  <2>1. run'[w][i] = run[w][i]
    BY <1>1 DEF Actors
  <2>2. Owns(w, i)
    BY <1>1, <2>1 DEF UnderLeases
  <2> QED
    BY <2>1, <2>2 DEF Owns
<1>2. ASSUME NEW i \in Items PROVE RowLeased(i)'
  BY DEF UnderLeases, RowLeased
<1>3. \A a \in Actors, i \in Items : ~run'[a][i].holds
  BY DEF UnderLeases
<1>4. \A r \in Requests, i \in Items : run'[r][i].pc = "idle"
  BY DEF UnderLeases, Actors
<1> QED
  BY <1>1, <1>2, <1>3, <1>4 DEF UnderLeases

LEMMA CreateLeased ==
    ASSUME Bookkeeping, UnderLeases, NEW i \in Items, NEW kind \in Kinds,
           NEW delay \in Delays, CreateItem(i, kind, delay)
    PROVE  UnderLeases'
<1>1. /\ \A k \in Items \ {i} : item'[k] = item[k]
      /\ item'[i].status \in Open
      /\ UNCHANGED <<run, replays>>
      /\ item[i].status = "absent"
  BY CreateEffect DEF Bookkeeping, CreateItem
<1>2. ASSUME NEW w \in Workers, NEW k \in Items, run'[w][k].pc # "idle"
      PROVE  Owns(w, k)'
  <2>1. Owns(w, k)
    BY <1>1, <1>2 DEF UnderLeases
  <2>2. k # i
    BY <1>1, <2>1 DEF Owns
  <2> QED
    BY <1>1, <2>1, <2>2 DEF Owns
<1>3. ASSUME NEW k \in Items PROVE RowLeased(k)'
  <2>1. RowLeased(k)
    BY DEF UnderLeases
  <2> QED
    BY <1>1, <2>1 DEF RowLeased, Open
<1>4. /\ \A a \in Actors, k \in Items : ~run'[a][k].holds
      /\ \A r \in Requests, k \in Items : run'[r][k].pc = "idle"
  BY <1>1 DEF UnderLeases
<1> QED
  BY <1>2, <1>3, <1>4 DEF UnderLeases

\* A claimed row had no running owner.
LEMMA ClaimedWasFree ==
    ASSUME UnderLeases, TypeOK, NEW i \in Items, Claimable(i), NEW v \in Workers
    PROVE  run[v][i].pc = "idle"
<1> SUFFICES ASSUME run[v][i].pc # "idle" PROVE FALSE
  OBVIOUS
<1>1. Owns(v, i)
  BY DEF UnderLeases
<1>2. run[v][i].lease \in Nat /\ item[i].lockLeft \in Nat
  BY DEF TypeOK, Row, Actors
<1> QED
  BY <1>1, <1>2, ActionItemsAssumption DEF Owns, Claimable

LEMMA ClaimLeased ==
    ASSUME Bookkeeping, UnderLeases, NEW w \in Workers, ClaimBatch(w)
    PROVE  UnderLeases'
<1>1. PICK S \in SUBSET Items : Taking(w, S)
  BY ClaimEffect DEF Bookkeeping
<1>2. replays' = replays /\ w \in Actors /\ w \notin Requests
  BY ActionItemsAssumption DEF ClaimBatch, Actors
<1>3. ASSUME NEW v \in Workers, NEW i \in Items, run'[v][i].pc # "idle"
      PROVE  Owns(v, i)'
  <2>1. CASE i \in S
    <3>1. v = w
      <4> SUFFICES ASSUME v # w PROVE FALSE
        OBVIOUS
      <4>1. run'[v][i] = run[v][i]
        BY <1>1 DEF Taking, Actors
      <4>2. Claimable(i)
        BY <1>1, <2>1 DEF Taking
      <4> QED
        BY <1>3, <4>1, <4>2, ClaimedWasFree DEF Bookkeeping
    <3>2. item[i].kind # "review"
      BY <1>1, <2>1 DEF Taking, Claimable, Automatic
    <3>3. /\ item'[i].kind = item[i].kind
          /\ item'[i].status = "running"
          /\ item'[i].attempts = item[i].attempts + 1
          /\ item'[i].lockedBy = w
          /\ item'[i].lockLeft = LockTicks
          /\ run'[w][i].pc \in {"claimed", "dispatch"}
          /\ run'[w][i].seen = [status |-> "running",
                                attempts |-> item[i].attempts + 1, lockedBy |-> w]
          /\ run'[w][i].lease = LockTicks
      BY <1>1, <2>1 DEF Taking
    <3> QED
      BY <3>1, <3>2, <3>3, ActionItemsAssumption DEF Owns
  <2>2. CASE i \notin S
    <3>1. item'[i] = item[i] /\ run'[v][i] = run[v][i]
      BY <1>1, <2>2 DEF Taking, Actors
    <3>2. Owns(v, i)
      BY <1>3, <3>1 DEF UnderLeases
    <3> QED
      BY <1>2, <3>1, <3>2 DEF Owns
  <2> QED
    BY <2>1, <2>2
<1>4. ASSUME NEW i \in Items PROVE RowLeased(i)'
  <2>1. RowLeased(i)
    BY DEF UnderLeases
  <2>2. CASE i \in S
    <3>1. item'[i].status = "running" /\ item'[i].lockedBy = w
      BY <1>1, <2>2 DEF Taking
    <3> QED
      BY <1>2, <2>1, <3>1, ActionItemsAssumption DEF RowLeased
  <2>3. CASE i \notin S
    <3>1. item'[i] = item[i]
      BY <1>1, <2>3 DEF Taking
    <3> QED
      BY <1>2, <2>1, <3>1 DEF RowLeased
  <2> QED
    BY <2>2, <2>3
<1>5. ASSUME NEW a \in Actors, NEW i \in Items PROVE ~run'[a][i].holds
  <2>1. CASE a = w /\ i \in S
    BY <1>1, <2>1 DEF Taking
  <2>2. CASE ~(a = w /\ i \in S)
    <3>1. run'[a][i] = run[a][i]
      BY <1>1, <2>2 DEF Taking
    <3> QED
      BY <3>1 DEF UnderLeases
  <2> QED
    BY <2>1, <2>2
<1>6. ASSUME NEW r \in Requests, NEW i \in Items PROVE run'[r][i].pc = "idle"
  BY <1>1, <1>2 DEF Taking, Actors, UnderLeases
<1> QED
  BY <1>3, <1>4, <1>5, <1>6 DEF UnderLeases

\* A timely tick leaves every run a lease that its row's outlasts.
LEMMA TickLeased ==
    ASSUME Bookkeeping, UnderLeases, TimelyTick
    PROVE  UnderLeases'
<1>1. /\ replays' = replays
      /\ \A i \in Items : /\ item'[i].kind = item[i].kind
                          /\ item'[i].status = item[i].status
                          /\ item'[i].attempts = item[i].attempts
                          /\ item'[i].lockedBy = item[i].lockedBy
                          /\ item'[i].lockLeft = Less(item[i].lockLeft)
      /\ \A a \in Actors, i \in Items : /\ run'[a][i].pc = run[a][i].pc
                                        /\ run'[a][i].seen = run[a][i].seen
                                        /\ run'[a][i].holds = run[a][i].holds
                                        /\ run'[a][i].lease = Less(run[a][i].lease)
  BY TickEffect DEF Bookkeeping, TimelyTick
<1>2. ASSUME NEW w \in Workers, NEW i \in Items, run'[w][i].pc # "idle"
      PROVE  Owns(w, i)'
  <2>1. Owns(w, i) /\ w \in Actors
    BY <1>1, <1>2 DEF UnderLeases, Actors
  <2>2. run[w][i].lease > 1
    BY <1>1, <1>2, <2>1 DEF TimelyTick
  <2>3. run[w][i].lease \in Nat /\ item[i].lockLeft \in Nat
    BY <2>1 DEF Bookkeeping, TypeOK, Row
  <2>4. /\ run'[w][i].lease = run[w][i].lease - 1
        /\ item'[i].lockLeft = item[i].lockLeft - 1
    BY <1>1, <2>1, <2>2, <2>3 DEF Less, Owns
  <2> QED
    BY <1>1, <2>1, <2>2, <2>3, <2>4 DEF Owns
<1>3. ASSUME NEW i \in Items PROVE RowLeased(i)'
  BY <1>1 DEF UnderLeases, RowLeased
<1>4. \A a \in Actors, i \in Items : ~run'[a][i].holds
  BY <1>1 DEF UnderLeases
<1>5. \A r \in Requests, i \in Items : run'[r][i].pc = "idle"
  BY <1>1 DEF UnderLeases, Actors
<1> QED
  BY <1>2, <1>3, <1>4, <1>5 DEF UnderLeases

\* An ended run holds nothing.
LEMMA FaultLeased ==
    ASSUME Bookkeeping, UnderLeases, Fault
    PROVE  UnderLeases'
<1>1. UNCHANGED <<item, replays>>
  BY FaultEffect DEF Bookkeeping
<1>2. run \in [Actors -> [Items -> RunType]]
  BY DEF Bookkeeping, TypeOK, RunType
<1> DEFINE none == [k \in Items |-> Idle]
           Ended(a, i) == run'[a][i] = run[a][i] \/ run'[a][i] = Idle
<1>3. \A a \in Actors, i \in Items : Ended(a, i)
  <2>1. ASSUME NEW b \in Actors, NEW k \in Items, Abort(b, k)
        PROVE  \A a \in Actors, i \in Items : Ended(a, i)
    <3>1. run' = [run EXCEPT ![b] = none] \/ run' = [run EXCEPT ![b][k] = Idle]
      BY <2>1 DEF Abort
    <3>2. \A i \in Items : none[i] = Idle
      OBVIOUS
    <3> HIDE DEF none
    <3> QED
      BY <1>2, <3>1, <3>2
  <2>2. ASSUME NEW w \in Workers, Crash(w)
        PROVE  \A a \in Actors, i \in Items : Ended(a, i)
    <3>1. run' = [run EXCEPT ![w] = none]
      BY <2>2 DEF Crash
    <3>2. \A i \in Items : none[i] = Idle
      OBVIOUS
    <3> HIDE DEF none
    <3> QED
      BY <1>2, <3>1, <3>2
  <2> QED
    BY <2>1, <2>2 DEF Fault
<1>4. \A a \in Actors, i \in Items :
        \/ run'[a][i] = run[a][i]
        \/ run'[a][i].pc = "idle" /\ ~run'[a][i].holds
  BY <1>3, RecordTypes
<1> QED
  BY <1>1, <1>4, WideLeased

LEMMA StepLeased == Bookkeeping /\ UnderLeases /\ [LeasedNext]_vars => UnderLeases'
<1> SUFFICES ASSUME Bookkeeping, UnderLeases, [LeasedNext]_vars PROVE UnderLeases'
  OBVIOUS
<1>1. CASE World
  <2> PICK i \in Items :
        (\E kind \in Kinds, delay \in Delays : CreateItem(i, kind, delay)) \/ CandlesArrive(i)
    BY <1>1 DEF World
  <2>1. CASE \E kind \in Kinds, delay \in Delays : CreateItem(i, kind, delay)
    BY <2>1, CreateLeased
  <2>2. CASE CandlesArrive(i)
    BY <2>2, WideLeased DEF CandlesArrive
  <2> QED
    BY <2>1, <2>2
<1>2. ASSUME NEW m \in Workers \cup Markers, PollStep(m) PROVE UnderLeases'
  <2>1. CASE MarkRead(m)
    BY <2>1, WideLeased DEF MarkRead
  <2>2. CASE MarkWrite(m)
    BY <2>2, MarkEffect, WideLeased DEF Bookkeeping
  <2>3. CASE m \in Workers /\ ClaimBatch(m)
    BY <2>3, ClaimLeased
  <2> QED
    BY <1>2, <2>1, <2>2, <2>3 DEF PollStep
<1>3. CASE UNCHANGED vars
  BY <1>3, WideLeased DEF vars
<1> QED
  BY <1>1, <1>2, <1>3, RunStepLeased, FaultLeased, TickLeased DEF LeasedNext, Working

LEMMA InitLeased == Init => UnderLeases
<1> SUFFICES ASSUME Init PROVE UnderLeases
  OBVIOUS
<1>1. \A a \in Actors, i \in Items : run[a][i] = Idle
  BY DEF Init
<1>2. \A i \in Items : /\ item[i].status = "absent" /\ item[i].attempts = 0
                        /\ replays[i] = 0
  BY DEF Init, NoItem
<1> QED
  BY <1>1, <1>2, RecordTypes DEF UnderLeases, RowLeased, Actors

LEMMA LeasedIsNext == [LeasedNext]_vars => [Next]_vars
BY DEF LeasedNext, Next, TimelyTick

LEMMA LeasedInvariant == LeasedSpec => [](Bookkeeping /\ UnderLeases)
<1>1. Init => Bookkeeping /\ UnderLeases
  BY InitSound, InitLeased
<1>2. Bookkeeping /\ UnderLeases /\ [LeasedNext]_vars => (Bookkeeping /\ UnderLeases)'
  BY StepSound, StepLeased, LeasedIsNext
<1> QED
  BY <1>1, <1>2, PTL DEF LeasedSpec

(* Within its lease a run has its item to itself: no claim, marking or     *)
(* crash lets a second worker execute it.                                  *)
THEOREM ExclusionCorrect == LeasedSpec => []ExclusiveRuns
<1>1. UnderLeases => ExclusiveRuns
  BY OneOwner DEF ExclusiveRuns, ActiveWorkers
<1> QED
  BY <1>1, LeasedInvariant, PTL

(* At most one replay is stored for an item, although a run may be lost    *)
(* after the replay's own commit and taken up again from the start.        *)
THEOREM ReplayCorrect == LeasedSpec => []ReplayedOnce
<1>1. UnderLeases => ReplayedOnce
  BY DEF UnderLeases, RowLeased, ReplayedOnce
<1> QED
  BY <1>1, LeasedInvariant, PTL

(* A running item keeps its lease until a commit settles it, so a later    *)
(* claim can take over what a crash left.                                  *)
THEOREM LeaseCorrect == LeasedSpec => []RunningIsLeased
<1>1. UnderLeases => RunningIsLeased
  BY DEF UnderLeases, RowLeased, RunningIsLeased
<1> QED
  BY <1>1, LeasedInvariant, PTL

(* No item is failed while attempts remain.                                *)
THEOREM FailureCorrect == LeasedSpec => []FailedMeansExhausted
<1>1. UnderLeases => FailedMeansExhausted
  BY DEF UnderLeases, RowLeased, FailedMeansExhausted
<1> QED
  BY <1>1, LeasedInvariant, PTL

-----------------------------------------------------------------------------
(* Refinement of ExclusiveService.                                         *)

\* Who executes item i: the expression the refinement maps `server' to.
ServedBy(i) == IF ActiveWorkers(i) = {} THEN NoWorker
               ELSE CHOOSE w \in ActiveWorkers(i) : TRUE

\* What a step is for one item: a claim, or no new run and the same attempts.
ClaimStep(i) ==
    /\ ActiveWorkers(i) = {}
    /\ ActiveWorkers(i)' # {}
    /\ item[i].attempts < MaxAttempts
    /\ item'[i].attempts = item[i].attempts + 1
OtherStep(i) ==
    /\ item'[i].attempts = item[i].attempts
    /\ ActiveWorkers(i)' \subseteq ActiveWorkers(i)

LEMMA RunStepKeeps ==
    ASSUME Bookkeeping, UnderLeases, NEW a \in Actors, NEW i \in Items, RunStep(a, i),
           NEW k \in Items
    PROVE  OtherStep(k)
<1>1. item[i] \in Row /\ replays \in [Items -> Nat]
  BY DEF Bookkeeping, TypeOK
<1>2. item[i].dueIn \in Nat /\ RetryTicks \in Nat
  BY <1>1, ActionItemsAssumption DEF Row
<1>3. {"failed", "pending", "completed", "skipped"} \subseteq Statuses
  BY DEF Statuses, Open, Done
<1>4. run[a][i].pc # "idle" /\ ~run[a][i].holds
  <2>1. a \in Workers /\ (LoadRow(a, i) \/ LoadDone(a, i)) => run[a][i].pc # "idle"
    BY ActionItemsAssumption DEF LoadRow, LoadDone
  <2> QED
    BY <2>1 DEF UnderLeases, RunStep, ManualStart, GiveUp, AwaitReview, Evaluate,
               KeepWaiting, WaitOver, LookForReplay, SkipReplay, Replay, Complete, Fail
<1>5. a \in Workers
  BY <1>4 DEF UnderLeases, Actors
<1>6. ASSUME NEW s \in Statuses, NEW d \in Nat, Settle(a, i, s, d)
      PROVE  Local(a, i) /\ item'[i].attempts = item[i].attempts
  BY <1>4, <1>6, SettleEffect DEF Bookkeeping
<1>7. ASSUME CommitHeld(a, i, "finish"), replays' \in [Items -> Nat],
             \A j \in Items \ {i} : replays'[j] = replays[j]
      PROVE  Local(a, i) /\ item'[i].attempts = item[i].attempts
  BY <1>4, <1>7, CommitEffect DEF Bookkeeping, Phases
<1>8. ~ManualStart(a, i)
  BY <1>4, <1>5 DEF UnderLeases, Owns, ManualStart
<1>9. Local(a, i) /\ item'[i].attempts = item[i].attempts
  <2>1. CASE LoadRow(a, i) \/ LookForReplay(a, i)
    BY <2>1, LoadEffect, LookEffect DEF Bookkeeping
  <2>2. CASE LoadDone(a, i)
    BY <2>2, DoneEffect DEF Bookkeeping
  <2>3. CASE GiveUp(a, i) \/ AwaitReview(a, i) \/ KeepWaiting(a, i) \/ WaitOver(a, i)
             \/ SkipReplay(a, i) \/ Complete(a, i) \/ Fail(a, i)
    BY <1>2, <1>3, <1>6, <2>3
       DEF GiveUp, AwaitReview, KeepWaiting, WaitOver, SkipReplay, Complete, Fail
  <2>4. CASE Evaluate(a, i)
    BY <1>1, <1>7, <2>4 DEF Evaluate
  <2>5. CASE Replay(a, i)
    <3>1. replays' \in [Items -> Nat] /\ \A j \in Items \ {i} : replays'[j] = replays[j]
      BY <1>1, <2>5 DEF Replay
    <3> QED
      BY <1>7, <2>5, <3>1 DEF Replay
  <2> QED
    BY <1>8, <2>1, <2>2, <2>3, <2>4, <2>5 DEF RunStep
<1>10. ActiveWorkers(k)' \subseteq ActiveWorkers(k)
  <2>1. \A b \in Actors, j \in Items : b # a \/ j # i => run'[b][j] = run[b][j]
    BY <1>9 DEF Local
  <2>2. ASSUME NEW w \in Workers, run'[w][k].pc # "idle" PROVE run[w][k].pc # "idle"
    BY <1>4, <2>1, <2>2 DEF Actors
  <2> QED
    BY <2>2 DEF ActiveWorkers
<1>11. item'[k].attempts = item[k].attempts
  BY <1>9 DEF Local
<1> QED
  BY <1>10, <1>11 DEF OtherStep

LEMMA StepOfItem ==
    ASSUME Bookkeeping, UnderLeases, [LeasedNext]_vars, NEW i \in Items
    PROVE  ClaimStep(i) \/ OtherStep(i)
<1>1. CASE World
  <2> PICK k \in Items :
        (\E kind \in Kinds, delay \in Delays : CreateItem(k, kind, delay)) \/ CandlesArrive(k)
    BY <1>1 DEF World
  <2>1. CASE \E kind \in Kinds, delay \in Delays : CreateItem(k, kind, delay)
    <3>1. /\ \A j \in Items \ {k} : item'[j] = item[j]
          /\ item'[k].attempts = 0 /\ item[k].status = "absent" /\ run' = run
      BY <2>1, CreateEffect DEF Bookkeeping, CreateItem
    <3>2. item[k].attempts = 0
      BY <3>1 DEF UnderLeases, RowLeased
    <3> QED
      BY <3>1, <3>2 DEF OtherStep, ActiveWorkers
  <2>2. CASE CandlesArrive(k)
    BY <2>2 DEF CandlesArrive, OtherStep, ActiveWorkers
  <2> QED
    BY <2>1, <2>2
<1>2. ASSUME NEW m \in Workers \cup Markers, PollStep(m)
      PROVE  ClaimStep(i) \/ OtherStep(i)
  <2>1. CASE MarkRead(m)
    BY <2>1 DEF MarkRead, OtherStep, ActiveWorkers
  <2>2. CASE MarkWrite(m)
    BY <2>2, MarkEffect DEF Bookkeeping, OtherStep, ActiveWorkers
  <2>3. CASE m \in Workers /\ ClaimBatch(m)
    <3>1. PICK S \in SUBSET Items : Taking(m, S)
      BY <2>3, ClaimEffect DEF Bookkeeping
    <3>2. CASE i \in S
      <4>1. /\ Claimable(i) /\ item'[i].attempts = item[i].attempts + 1
            /\ run'[m][i].pc \in {"claimed", "dispatch"}
        BY <3>1, <3>2 DEF Taking
      <4>2. ActiveWorkers(i) = {}
        BY <4>1, ClaimedWasFree DEF Bookkeeping, ActiveWorkers
      <4>3. m \in ActiveWorkers(i)'
        BY <2>3, <4>1 DEF ActiveWorkers
      <4> QED
        BY <4>1, <4>2, <4>3 DEF ClaimStep, Claimable
    <3>3. CASE i \notin S
      <4>1. item'[i] = item[i] /\ \A w \in Workers : run'[w][i] = run[w][i]
        BY <3>1, <3>3 DEF Taking, Actors
      <4> QED
        BY <4>1 DEF OtherStep, ActiveWorkers
    <3> QED
      BY <3>2, <3>3
  <2> QED
    BY <1>2, <2>1, <2>2, <2>3 DEF PollStep
<1>3. CASE Fault
  <2>1. RunsOnlyEnd /\ item' = item
    BY <1>3, FaultEffect DEF Bookkeeping
  <2> QED
    BY <2>1 DEF RunsOnlyEnd, OtherStep, ActiveWorkers, Actors
<1>4. CASE TimelyTick
  BY <1>4, TickEffect DEF TimelyTick, Bookkeeping, OtherStep, ActiveWorkers, Actors
<1>5. CASE UNCHANGED vars
  BY <1>5 DEF vars, OtherStep, ActiveWorkers
<1> QED
  BY <1>1, <1>2, <1>3, <1>4, <1>5, RunStepKeeps DEF LeasedNext, Working

(* Under leases an item with a run is served by that run's worker.         *)
LEMMA ServedByTheWorker ==
    ASSUME UnderLeases, NEW i \in Items
    PROVE  /\ ActiveWorkers(i) = {} => ServedBy(i) = NoWorker
           /\ \A w \in ActiveWorkers(i) : ActiveWorkers(i) = {w} /\ ServedBy(i) = w
<1>1. ASSUME NEW w \in ActiveWorkers(i)
      PROVE  ActiveWorkers(i) = {w} /\ ServedBy(i) = w
  <2>1. ActiveWorkers(i) = {w}
    BY OneOwner DEF ActiveWorkers
  <2>2. (CHOOSE v \in ActiveWorkers(i) : TRUE) = w
    BY <2>1
  <2> QED
    BY <2>1, <2>2 DEF ServedBy
<1> QED
  BY <1>1 DEF ServedBy

(* The same of the state a step leads to.                                  *)
LEMMA ServedByTheWorkerNext ==
    ASSUME UnderLeases', NEW i \in Items
    PROVE  /\ ActiveWorkers(i)' = {} => ServedBy(i)' = NoWorker
           /\ \A w \in ActiveWorkers(i)' : ActiveWorkers(i)' = {w} /\ ServedBy(i)' = w
<1>1. ASSUME NEW w \in ActiveWorkers(i)'
      PROVE  ActiveWorkers(i)' = {w} /\ ServedBy(i)' = w
  <2>1. ASSUME NEW v \in ActiveWorkers(i)' PROVE v = w
    BY DEF UnderLeases, Owns, ActiveWorkers
  <2>2. ActiveWorkers(i)' = {w}
    BY <2>1
  <2>3. (CHOOSE v \in ActiveWorkers(i)' : TRUE) = w
    BY <2>2
  <2> QED
    BY <2>2, <2>3 DEF ServedBy
<1> QED
  BY <1>1 DEF ServedBy

(* Seen from outside, a step takes, leaves or keeps each item.             *)
LEMMA StepServes ==
    ASSUME Bookkeeping, UnderLeases, UnderLeases', [LeasedNext]_vars, NEW i \in Items
    PROVE  \/ /\ ServedBy(i) = NoWorker /\ ServedBy(i)' \in Workers
              /\ item[i].attempts < MaxAttempts
              /\ item'[i].attempts = item[i].attempts + 1
           \/ /\ ServedBy(i) # NoWorker /\ ServedBy(i)' = NoWorker
              /\ item'[i].attempts = item[i].attempts
           \/ /\ ServedBy(i)' = ServedBy(i)
              /\ item'[i].attempts = item[i].attempts
<1>1. /\ \A w \in ActiveWorkers(i) : w \in Workers /\ w # NoWorker
      /\ \A w \in ActiveWorkers(i)' : w \in Workers
  BY ActionItemsAssumption DEF ActiveWorkers
<1>2. CASE ClaimStep(i)
  <2>1. PICK w : w \in ActiveWorkers(i)'
    BY <1>2 DEF ClaimStep
  <2> QED
    BY <1>1, <1>2, <2>1, ServedByTheWorker, ServedByTheWorkerNext DEF ClaimStep
<1>3. CASE OtherStep(i)
  <2>1. CASE ActiveWorkers(i)' = {}
    BY <1>3, <2>1, ServedByTheWorkerNext DEF OtherStep
  <2>2. CASE ActiveWorkers(i)' # {}
    <3>1. PICK w : w \in ActiveWorkers(i)'
      BY <2>2
    <3>2. w \in ActiveWorkers(i)
      BY <1>3, <3>1 DEF OtherStep
    <3>3. ServedBy(i)' = ServedBy(i)
      BY <3>1, <3>2, ServedByTheWorker, ServedByTheWorkerNext
    <3> QED
      BY <1>3, <3>3 DEF OtherStep
  <2> QED
    BY <2>1, <2>2
<1> QED
  BY <1>2, <1>3, StepOfItem

(* While runs stay within their leases, the lease table of action items    *)
(* implements exclusive service.                                           *)
THEOREM ServiceImplemented == LeasedSpec => ImplementsService
<1>1. Init => Service!Init
  <2> SUFFICES ASSUME Init PROVE Service!Init
    OBVIOUS
  <2>1. \A i \in Items : ActiveWorkers(i) = {} /\ item[i].attempts = 0
    BY RecordTypes DEF Init, ActiveWorkers, Actors, NoItem
  <2> QED
    BY <2>1 DEF Service!Init
<1>2. /\ Bookkeeping /\ UnderLeases /\ [LeasedNext]_vars /\ UnderLeases'
      => [Service!Next]_<<[i \in Items |-> IF ActiveWorkers(i) = {} THEN NoWorker
                             ELSE CHOOSE w \in ActiveWorkers(i) : TRUE],
                          [i \in Items |-> item[i].attempts]>>
  <2> SUFFICES ASSUME Bookkeeping, UnderLeases, [LeasedNext]_vars, UnderLeases'
               PROVE  Service!Next
    OBVIOUS
  <2>1. ASSUME NEW i \in Items
        PROVE  Service!Taken(i) \/ Service!Left(i) \/ Service!Kept(i)
    <3>1. \/ /\ ServedBy(i) = NoWorker /\ ServedBy(i)' \in Workers
             /\ item[i].attempts < MaxAttempts
             /\ item'[i].attempts = item[i].attempts + 1
          \/ /\ ServedBy(i) # NoWorker /\ ServedBy(i)' = NoWorker
             /\ item'[i].attempts = item[i].attempts
          \/ /\ ServedBy(i)' = ServedBy(i)
             /\ item'[i].attempts = item[i].attempts
      BY StepServes
    <3> QED
      BY <3>1 DEF ServedBy, Service!Taken, Service!Left, Service!Kept
  <2> QED
    BY <2>1 DEF Service!Next
<1> QED
  BY <1>1, <1>2, LeasedInvariant, PTL DEF LeasedSpec, ImplementsService, Service!Spec

-----------------------------------------------------------------------------
(* Closed items, and what opens them again.                                *)

\* Only pollers mark: a run, a fault or time starts no marking and changes none.
LEMMA MarkingsStay ==
    ASSUME TypeOK, NEW m \in Workers \cup Markers, poll'[m].pc = "marking",
           poll'[m] # poll[m], [Next]_vars
    PROVE  MarkRead(m)
<1>1. poll \in [Workers \cup Markers -> PollType] /\ poll[m] \in PollType
  BY DEF TypeOK, PollType
<1>2. ASSUME NEW a \in Actors, NEW i \in Items, Ends(a, i)
      PROVE  FALSE
  BY <1>1, <1>2, RecordTypes DEF Ends
<1>3. ASSUME NEW a \in Actors, NEW i \in Items, RunStep(a, i)
      PROVE  FALSE
  BY <1>2, <1>3
     DEF RunStep, LoadRow, LoadDone, ManualStart, GiveUp, AwaitReview, Evaluate, KeepWaiting,
         WaitOver, LookForReplay, SkipReplay, Replay, Complete, Fail, Settle, CommitHeld
<1>4. CASE Fault
  BY <1>1, <1>4, RecordTypes DEF Fault, Abort, Crash
<1>5. ASSUME NEW n \in Workers \cup Markers, PollStep(n)
      PROVE  MarkRead(m)
  <2>1. ~MarkWrite(n) /\ ~ClaimBatch(n)
    BY <1>1, RecordTypes DEF MarkWrite, ClaimBatch
  <2>2. MarkRead(n) /\ (n = m)
    BY <1>1, <1>5, <2>1 DEF PollStep, MarkRead
  <2> QED
    BY <2>2
<1>6. CASE World \/ ManualRequest \/ Tick \/ UNCHANGED vars
  BY <1>6 DEF World, CreateItem, CandlesArrive, ManualRequest, LoadRow, Tick, vars
<1> QED
  BY <1>3, <1>4, <1>5, <1>6 DEF Next, Working

\* What changes the status of item i, under leases: its creation, its own run, a
\* claim that finds it open or running, a marking.
LEMMA StatusStep ==
    ASSUME Bookkeeping, UnderLeases, [LeasedNext]_vars, NEW i \in Items,
           item'[i].status # item[i].status
    PROVE  \/ item[i].status = "absent"
           \/ item[i].status \in {"running", "due"}
           \/ item[i].status = "pending" /\ \E w \in Workers : ClaimBatch(w)
           \/ \E m \in Workers \cup Markers :
                 MarkWrite(m) /\ i \in poll[m].items /\ item'[i].status = "due"
<1>1. ASSUME NEW a \in Actors, NEW k \in Items, RunStep(a, k)
      PROVE  item[i].status \in {"running", "due"}
  <2>1. run[a][k].pc # "idle" /\ a \in Workers
    <3>1. a \in Workers /\ (LoadRow(a, k) \/ LoadDone(a, k)) => run[a][k].pc # "idle"
      BY ActionItemsAssumption DEF LoadRow, LoadDone
    <3> QED
      BY <1>1, <3>1 DEF UnderLeases, Actors, RunStep, ManualStart, GiveUp, AwaitReview,
                        Evaluate, KeepWaiting, WaitOver, LookForReplay, SkipReplay, Replay,
                        Complete, Fail
  <2>2. item[k].status \in {"running", "due"}
    BY <2>1 DEF UnderLeases, Owns
  <2>3. i # k => item'[i] = item[i]
    BY <1>1 DEF Bookkeeping, TypeOK, RunStep, LoadRow, LoadDone, ManualStart, GiveUp,
                AwaitReview, Evaluate, KeepWaiting, WaitOver, LookForReplay, SkipReplay,
                Replay, Complete, Fail, Settle, CommitHeld
  <2> QED
    BY <2>2, <2>3
<1>2. ASSUME NEW m \in Workers \cup Markers, PollStep(m)
      PROVE  \/ item[i].status \in {"running", "due"}
             \/ item[i].status = "pending" /\ \E w \in Workers : ClaimBatch(w)
             \/ MarkWrite(m) /\ i \in poll[m].items /\ item'[i].status = "due"
  <2>1. CASE MarkRead(m)
    BY <2>1 DEF MarkRead
  <2>2. CASE MarkWrite(m)
    BY <2>2, MarkEffect DEF MarkWrite, Bookkeeping
  <2>3. CASE m \in Workers /\ ClaimBatch(m)
    <3>1. PICK S \in SUBSET Items : Taking(m, S)
      BY <2>3, ClaimEffect DEF Bookkeeping
    <3>2. i \in S
      BY <3>1 DEF Taking
    <3> QED
      BY <2>3, <3>1, <3>2 DEF Taking, Claimable, Open
  <2> QED
    BY <1>2, <2>1, <2>2, <2>3 DEF PollStep
<1>3. CASE World
  BY <1>3 DEF World, CreateItem, CandlesArrive, Bookkeeping, TypeOK
<1>4. CASE Fault
  BY <1>4 DEF Fault, Abort, Crash
<1>5. CASE TimelyTick
  BY <1>5, TickEffect DEF TimelyTick, Bookkeeping
<1>6. CASE UNCHANGED vars
  BY <1>6 DEF vars
<1> QED
  BY <1>1, <1>2, <1>3, <1>4, <1>5, <1>6 DEF LeasedNext, Working

(* Under leases a completed, skipped, cancelled or failed item is opened   *)
(* again by a marking that held it, and by nothing else.                   *)
THEOREM MarkingReopens == LeasedSpec => OnlyMarkingReopens
<1> DEFINE Reopened ==
        \A i \in Items :
          item[i].status \in Closed /\ item'[i].status # item[i].status =>
              /\ item'[i].status = "due"
              /\ \E m \in Workers \cup Markers :
                    poll[m].pc = "marking" /\ i \in poll[m].items /\ poll'[m] # poll[m]
<1>1. ASSUME Bookkeeping, UnderLeases, [LeasedNext]_vars PROVE Reopened
  <2> SUFFICES ASSUME NEW i \in Items, item[i].status \in Closed,
                      item'[i].status # item[i].status
               PROVE  /\ item'[i].status = "due"
                      /\ \E m \in Workers \cup Markers :
                            poll[m].pc = "marking" /\ i \in poll[m].items
                            /\ poll'[m] # poll[m]
    OBVIOUS
  <2>1. PICK m \in Workers \cup Markers :
          MarkWrite(m) /\ i \in poll[m].items /\ item'[i].status = "due"
    BY <1>1, StatusStep DEF Closed, Done
  <2>2. poll[m].pc = "marking" /\ poll'[m].pc # "marking"
    BY <1>1, <2>1, RecordTypes DEF MarkWrite, Bookkeeping, TypeOK
  <2> QED
    BY <2>1, <2>2
<1>2. Bookkeeping /\ UnderLeases /\ [LeasedNext]_vars => [Reopened]_vars
  BY <1>1
<1> QED
  BY <1>2, LeasedInvariant, PTL DEF LeasedSpec, OnlyMarkingReopens

\* A marking holds items that are still pending.
MarksPending ==
    \A m \in Workers \cup Markers : poll[m].pc = "marking" =>
        \A i \in poll[m].items : item[i].status = "pending"

LEMMA MarksPendingStep ==
    ASSUME \A m, n \in Workers \cup Markers : m = n,
           Bookkeeping, UnderLeases, MarksPending, [LeasedNext]_vars
    PROVE  MarksPending'
<1> SUFFICES ASSUME NEW m \in Workers \cup Markers, poll'[m].pc = "marking",
                    NEW i \in poll'[m].items
             PROVE  item'[i].status = "pending"
  BY DEF MarksPending
<1>1. [Next]_vars /\ TypeOK
  BY LeasedIsNext DEF Bookkeeping
<1>2. CASE poll'[m] # poll[m]
  <2>1. MarkRead(m)
    BY <1>1, <1>2, MarkingsStay
  <2> QED
    BY <1>1, <2>1 DEF MarkRead, TypeOK
<1>3. CASE poll'[m] = poll[m]
  <2>1. poll[m].pc = "marking" /\ i \in Items /\ item[i].status = "pending"
    BY <1>1, <1>3 DEF MarksPending, TypeOK
  <2>2. ASSUME NEW n \in Workers \cup Markers PROVE ~MarkWrite(n) /\ ~ClaimBatch(n)
    <3>1. n = m
      OBVIOUS
    <3> QED
      BY <1>1, <1>3, <2>1, <3>1, RecordTypes DEF MarkWrite, ClaimBatch, TypeOK
  <2> QED
    BY <2>1, <2>2, StatusStep
<1> QED
  BY <1>2, <1>3

(* With a single poller, whatever it claims in a batch and however its     *)
(* runs end, a completed item stays completed: it takes a second one to    *)
(* mark an item that has been completed since it was read.                 *)
THEOREM CompletedStaysAlone ==
    ASSUME \A m, n \in Workers \cup Markers : m = n
    PROVE  LeasedSpec => CompletedStays
<1> DEFINE Stays == \A i \in Items :
              item[i].status = "completed" => item'[i].status = "completed"
<1>1. Init => MarksPending
  BY RecordTypes DEF Init, MarksPending
<1>2. Bookkeeping /\ UnderLeases /\ MarksPending /\ [LeasedNext]_vars => MarksPending'
  BY MarksPendingStep
<1>3. ASSUME Bookkeeping, UnderLeases, MarksPending, [LeasedNext]_vars PROVE Stays
  <2> SUFFICES ASSUME NEW i \in Items, item[i].status = "completed",
                      item'[i].status # item[i].status
               PROVE  FALSE
    OBVIOUS
  <2>1. PICK m \in Workers \cup Markers : MarkWrite(m) /\ i \in poll[m].items
    BY <1>3, StatusStep
  <2> QED
    BY <1>3, <2>1 DEF MarkWrite, MarksPending
<1>4. Bookkeeping /\ UnderLeases /\ MarksPending /\ [LeasedNext]_vars => [Stays]_vars
  BY <1>3
<1> QED
  BY <1>1, <1>2, <1>4, LeasedInvariant, PTL DEF LeasedSpec, CompletedStays

-----------------------------------------------------------------------------
(* A stranded item.                                                        *)

LEMMA StrandedStep ==
    ASSUME TypeOK, [Next]_vars, NEW i \in Items, Stranded(i)
    PROVE  Stranded(i)'
<1> USE DEF Stranded
<1>1. \A m \in Workers \cup Markers : poll'[m].pc = "marking" => i \notin poll'[m].items
  <2> SUFFICES ASSUME NEW m \in Workers \cup Markers, poll'[m].pc = "marking",
                      poll'[m] # poll[m]
               PROVE  i \notin poll'[m].items
    OBVIOUS
  <2>1. MarkRead(m)
    BY MarkingsStay
  <2> QED
    BY <2>1 DEF MarkRead, TypeOK
<1>2. SUFFICES /\ item'[i].status = "running" /\ item'[i].lockedBy = NoWorker
               /\ \A a \in Actors : run'[a][i].pc = "idle"
  BY <1>1
<1>3. ASSUME NEW a \in Actors, NEW k \in Items, RunStep(a, k) \/ LoadRow(a, k)
      PROVE  item'[i] = item[i] /\ \A b \in Actors : run'[b][i].pc = "idle"
  <2>1. k # i
    BY <1>3, ActionItemsAssumption
       DEF RunStep, LoadRow, LoadDone, ManualStart, GiveUp, AwaitReview, Evaluate, KeepWaiting,
           WaitOver, LookForReplay, SkipReplay, Replay, Complete, Fail
  <2>2. item'[i] = item[i]
    BY <1>3, <2>1
       DEF TypeOK, RunStep, LoadRow, LoadDone, ManualStart, GiveUp, AwaitReview, Evaluate,
           KeepWaiting, WaitOver, LookForReplay, SkipReplay, Replay, Complete, Fail, Settle,
           CommitHeld
  <2>3. \A b \in Actors : run'[b][i] = run[b][i]
    BY <1>3, <2>1
       DEF TypeOK, RunStep, LoadRow, LoadDone, ManualStart, GiveUp, AwaitReview, Evaluate,
           KeepWaiting, WaitOver, LookForReplay, SkipReplay, Replay, Complete, Fail, Settle,
           CommitHeld, Ends
  <2> QED
    BY <2>2, <2>3
<1>4. ASSUME NEW m \in Workers \cup Markers, PollStep(m)
      PROVE  item'[i] = item[i] /\ \A b \in Actors : run'[b][i].pc = "idle"
  <2>1. CASE MarkRead(m)
    BY <2>1 DEF MarkRead
  <2>2. CASE MarkWrite(m)
    BY <2>2 DEF MarkWrite
  <2>3. CASE m \in Workers /\ ClaimBatch(m)
    <3>1. PICK S \in SUBSET Items : Taking(m, S)
      BY <2>3, ClaimEffect
    <3>2. i \notin S
      BY <3>1 DEF Taking, Claimable, Open
    <3>3. \A b \in Actors : run'[b][i] = run[b][i]
      BY <2>3, <3>1, <3>2 DEF Taking
    <3> QED
      BY <3>1, <3>2, <3>3 DEF Taking
  <2> QED
    BY <1>4, <2>1, <2>2, <2>3 DEF PollStep
<1>5. CASE World
  BY <1>5 DEF World, CreateItem, CandlesArrive, TypeOK
<1>6. CASE Fault
  BY <1>6, FaultEffect DEF RunsOnlyEnd
<1>7. CASE Tick
  BY <1>7, TickEffect
<1>8. CASE UNCHANGED vars
  BY <1>8 DEF vars
<1> QED
  BY <1>3, <1>4, <1>5, <1>6, <1>7, <1>8 DEF Next, Working, ManualRequest, Actors

(* An item left running without a lease, which a manual execution does     *)
(* that ends after an inner commit, is out of reach of every claim, marking*)
(* and request from then on, whatever else happens.                        *)
THEOREM StrandedForGood == Spec => StrandedStays
<1>1. Bookkeeping /\ [Next]_vars => [\A i \in Items : Stranded(i) => Stranded(i)']_vars
  BY StrandedStep DEF Bookkeeping
<1> QED
  BY <1>1, SpecSound, PTL DEF Spec, StrandedStays
=============================================================================
