---------------------------- MODULE CandleBatches ----------------------------
(***************************************************************************)
(* Bulk ingestion of candles: file imports (apps/api/app/modules/imports)  *)
(* and provider polling (provider_polling) store their rows through        *)
(* CandleBulkRepository (candle_ingestion_performance), chunk by chunk, in *)
(* one transaction.                                                        *)
(*                                                                         *)
(* A chunk reads the candles it touches, decides on every row against a    *)
(* virtual state in memory, and then writes the inserts and the updates it *)
(* has staged.  Requests on one series run concurrently; nothing locks the *)
(* candles that were read.  A write locks its candle until the transaction *)
(* ends.                                                                   *)
(*                                                                         *)
(* The series has one symbol, source and timeframe, so a candle is known   *)
(* by its time.  Prices and volume are one value: the code compares and    *)
(* writes them together.  Error rows, conflict records and performance     *)
(* runs are left out, counters kept as far as the status depends on them.  *)
(***************************************************************************)
EXTENDS Naturals, Sequences

CONSTANTS
    Batches,    \* requests that may be in flight at once
    Times,      \* the series' timestamps, in steps of its timeframe
    Values,     \* what a candle may say
    NoCandle,   \* no row with that timestamp
    Uploads,    \* the rows that files bring
    Fetches,    \* the rows that providers answer with
    ChunkSize   \* CANDLE_INGESTION_BATCH_SIZE

\* What a row of a request becomes: valid says that it parses, normalises and
\* passes validate_candle.
Item == [time : Times, value : Values, final : BOOLEAN, valid : BOOLEAN]
Candle == [value : Values, final : BOOLEAN]

\* Files are imported as final candles; a provider's last candle may be open.
ASSUME BatchesAssumption ==
    /\ Times \subseteq Nat
    /\ NoCandle \notin Candle
    /\ Uploads \subseteq Seq([time : Times, value : Values, final : {TRUE}, valid : BOOLEAN])
    /\ Fetches \subseteq Seq(Item)
    /\ ChunkSize \in Nat \ {0}

VARIABLES
    source,   \* the type of the series' data source
    candle,   \* the committed candles
    batch,    \* the requests: progress and counters
    plan,     \* virtual state and staged writes of the chunk at hand
    own,      \* candles written and not committed, which the batch has locked
    read,     \* history: each candle as committed when the batch last read it
    shared    \* history: what row-by-row upserts would have made of that

vars == <<source, candle, batch, plan, own, read, shared>>

-----------------------------------------------------------------------------
Stored == Candle \cup {NoCandle}
Series == [Times -> Stored]
Empty == [t \in Times |-> NoCandle]

\* A request row that was rolled back leaves nothing: idle.
AtRest == {"idle", "failed", "completed_with_warnings", "completed"}

\* from, next and to delimit the chunk and its rows yet to be decided;
\* kept: the times of the rows taken; dropped counts all other rows.
Batch == [pc : AtRest \cup {"chunk", "resolve", "write"},
          rows : Seq(Item), warned : BOOLEAN,
          from : Nat, next : Nat, to : Nat,
          kept : SUBSET Times, dropped : Nat]

Plan == [virtual : Series, insert : Series, update : Series]
NoPlan == [virtual |-> Empty, insert |-> Empty, update |-> Empty]

Resting(pc) == [pc |-> pc, rows |-> <<>>, warned |-> FALSE,
                from |-> 1, next |-> 1, to |-> 0, kept |-> {}, dropped |-> 0]

\* A new series; what later requests find is what earlier ones have stored.
Init ==
    /\ source \in {"upload", "api_polling"}
    /\ candle = Empty
    /\ batch = [b \in Batches |-> Resting("idle")]
    /\ plan = [b \in Batches |-> NoPlan]
    /\ own = [b \in Batches |-> Empty]
    /\ read = [b \in Batches |-> Empty]
    /\ shared = [b \in Batches |-> Empty]

-----------------------------------------------------------------------------
(* The rules for one row.                                                  *)

\* Mutant: the whole row is stored.
Bar_WholeRow(r) == r

Bar(r) == [value |-> r.value, final |-> r.final]

\* CandleRepository.upsert_normalized_candle: what one row makes of a candle.
Upsert(c, r) == IF c # NoCandle /\ c.final THEN c ELSE Bar(r)

\* Mutant: a final row wins over a final candle.
Decision_LastFinalWins(c, r) ==
    IF c = NoCandle THEN "inserted"
    ELSE IF ~c.final \/ r.final THEN "updated"
    ELSE "skipped_duplicate"

\* resolve_candle_write_decision: the bulk path's own statement of the rules.
Decision(c, r) ==
    IF c = NoCandle THEN "inserted"
    ELSE IF ~c.final THEN "updated"
    ELSE IF r.final /\ c.value # r.value THEN "conflicted"
    ELSE "skipped_duplicate"

-----------------------------------------------------------------------------
(* What a batch sees and what keeps it waiting.                            *)

View(b, t) == IF own[b][t] # NoCandle THEN own[b][t] ELSE candle[t]

RowFree(b, t) == \A other \in Batches \ {b} : own[other][t] = NoCandle

Row(b) == batch[b].rows[batch[b].next]
ChunkEnd(b) ==
    LET last == batch[b].next + ChunkSize - 1
    IN  IF last < Len(batch[b].rows) THEN last ELSE Len(batch[b].rows)
Chunk(b) == batch[b].from..batch[b].to
KeysOf(b, from, to) ==
    {batch[b].rows[i].time : i \in {j \in from..to : batch[b].rows[j].valid}}

\* Dictionaries keep the order of their first entries: of the staged writes
\* the one whose candle comes first in the chunk is next.
FirstOf(b, t, staged) ==
    /\ staged[t] # NoCandle
    /\ \E i \in Chunk(b) :
         /\ batch[b].rows[i].valid /\ batch[b].rows[i].time = t
         /\ \A j \in batch[b].from..(i - 1) :
              batch[b].rows[j].valid => staged[batch[b].rows[j].time] = NoCandle

-----------------------------------------------------------------------------
(* A request.                                                              *)

\* The request row is inserted; a file is parsed, or a provider has answered,
\* perhaps with warnings or errors, or has not: then there are no rows.  Nothing
\* is committed before the end.
Submit(b) ==
    /\ batch[b].pc \in AtRest
    /\ \E rows \in IF source = "upload" THEN Uploads ELSE Fetches,
          warned \in IF source = "upload" THEN {FALSE} ELSE BOOLEAN :
         batch' = [batch EXCEPT ![b] = [Resting("chunk") EXCEPT !.rows = rows,
                                                                !.warned = warned]]
    /\ UNCHANGED <<source, candle, plan, own, read, shared>>

\* fetch_existing_by_key: one query for the candles of the chunk's valid rows.
ReadChunk(b) ==
    /\ batch[b].pc = "chunk"
    /\ batch[b].next <= Len(batch[b].rows)
    /\ LET keys == KeysOf(b, batch[b].next, ChunkEnd(b))
       IN  /\ plan' = [plan EXCEPT ![b] = [NoPlan EXCEPT !.virtual =
                        [t \in Times |-> IF t \in keys THEN View(b, t) ELSE NoCandle]]]
           /\ read' = [read EXCEPT ![b] =
                        [t \in Times |-> IF t \in keys /\ own[b][t] = NoCandle
                                        THEN candle[t] ELSE read[b][t]]]
           /\ shared' = [shared EXCEPT ![b] =
                        [t \in Times |-> IF t \in keys THEN View(b, t) ELSE shared[b][t]]]
    /\ batch' = [batch EXCEPT ![b] = [@ EXCEPT !.pc = "resolve", !.from = batch[b].next,
                                               !.to = ChunkEnd(b)]]
    /\ UNCHANGED <<source, candle, own>>

\* Rows are decided in order.  Nothing awaits in that loop; a row at a time is
\* the same to everyone else.
Deciding(b) == batch[b].pc = "resolve" /\ batch[b].next <= batch[b].to

\* Mutant: only invalid rows are counted.
DropRow_DuplicatesUncounted(b) ==
    /\ Deciding(b)
    /\ \/ ~Row(b).valid
       \/ Decision(plan[b].virtual[Row(b).time], Row(b)) \in {"skipped_duplicate", "conflicted"}
    /\ batch' = [batch EXCEPT ![b] = [@ EXCEPT !.next = batch[b].next + 1,
                    !.dropped = batch[b].dropped + IF Row(b).valid THEN 0 ELSE 1]]
    /\ UNCHANGED <<source, candle, plan, own, read, shared>>

DropRow(b) ==
    /\ Deciding(b)
    /\ \/ ~Row(b).valid
       \/ Decision(plan[b].virtual[Row(b).time], Row(b)) \in {"skipped_duplicate", "conflicted"}
    /\ batch' = [batch EXCEPT ![b] = [@ EXCEPT !.next = batch[b].next + 1,
                                               !.dropped = batch[b].dropped + 1]]
    /\ shared' = IF Row(b).valid
                 THEN [shared EXCEPT ![b] = [@ EXCEPT ![Row(b).time] =
                                                Upsert(shared[b][Row(b).time], Row(b))]]
                 ELSE shared
    /\ UNCHANGED <<source, candle, plan, own, read>>

\* A row taken goes into the virtual state and is counted as valid.
Take(b) ==
    /\ Deciding(b)
    /\ Row(b).valid
    /\ batch' = [batch EXCEPT ![b] = [@ EXCEPT !.next = batch[b].next + 1,
                                               !.kept = batch[b].kept \cup {Row(b).time}]]
    /\ shared' = [shared EXCEPT ![b] = [@ EXCEPT ![Row(b).time] =
                                           Upsert(shared[b][Row(b).time], Row(b))]]
    /\ UNCHANGED <<source, candle, own, read>>

\* An insert, or a change to the insert that this chunk has staged.
Insertable(b) ==
    \/ Decision(plan[b].virtual[Row(b).time], Row(b)) = "inserted"
    \/ /\ Decision(plan[b].virtual[Row(b).time], Row(b)) = "updated"
       /\ plan[b].insert[Row(b).time] # NoCandle

\* Mutant: the first values staged are inserted.
StageInsert_KeepsFirst(b) ==
    /\ Take(b)
    /\ Insertable(b)
    /\ plan' = [plan EXCEPT ![b] =
                  [@ EXCEPT !.virtual = [plan[b].virtual EXCEPT ![Row(b).time] = Bar(Row(b))],
                            !.insert = [plan[b].insert EXCEPT ![Row(b).time] =
                                          IF @ = NoCandle THEN Bar(Row(b)) ELSE @]]]

StageInsert(b) ==
    /\ Take(b)
    /\ Insertable(b)
    /\ plan' = [plan EXCEPT ![b] =
                  [@ EXCEPT !.virtual = [plan[b].virtual EXCEPT ![Row(b).time] = Bar(Row(b))],
                            !.insert = [plan[b].insert EXCEPT ![Row(b).time] = Bar(Row(b))]]]

\* The row has an id already: the last values staged for it count.
StageUpdate(b) ==
    /\ Take(b)
    /\ Decision(plan[b].virtual[Row(b).time], Row(b)) = "updated"
    /\ plan[b].insert[Row(b).time] = NoCandle
    /\ plan' = [plan EXCEPT ![b] =
                  [@ EXCEPT !.virtual = [plan[b].virtual EXCEPT ![Row(b).time] = Bar(Row(b))],
                            !.update = [plan[b].update EXCEPT ![Row(b).time] = Bar(Row(b))]]]

Decided(b) ==
    /\ batch[b].pc = "resolve"
    /\ batch[b].next > batch[b].to
    /\ batch' = [batch EXCEPT ![b] = [@ EXCEPT !.pc = "write"]]
    /\ UNCHANGED <<source, candle, plan, own, read, shared>>

\* The inserts.  A row with the same key that is not committed is waited for.
InsertRow(b, t) ==
    /\ batch[b].pc = "write"
    /\ FirstOf(b, t, plan[b].insert)
    /\ RowFree(b, t)
    /\ View(b, t) = NoCandle
    /\ own' = [own EXCEPT ![b] = [@ EXCEPT ![t] = plan[b].insert[t]]]
    /\ plan' = [plan EXCEPT ![b] = [@ EXCEPT !.insert = [plan[b].insert EXCEPT ![t] = NoCandle]]]
    /\ UNCHANGED <<source, candle, batch, read, shared>>

\* Then the updates, by id: whatever the row has become is written over, is_final
\* included.
UpdateRow(b, t) ==
    /\ batch[b].pc = "write"
    /\ plan[b].insert = Empty
    /\ FirstOf(b, t, plan[b].update)
    /\ RowFree(b, t)
    /\ own' = [own EXCEPT ![b] = [@ EXCEPT ![t] = plan[b].update[t]]]
    /\ plan' = [plan EXCEPT ![b] = [@ EXCEPT !.update = [plan[b].update EXCEPT ![t] = NoCandle]]]
    /\ UNCHANGED <<source, candle, batch, read, shared>>

ChunkDone(b) ==
    /\ batch[b].pc = "write"
    /\ plan[b].insert = Empty /\ plan[b].update = Empty
    /\ batch' = [batch EXCEPT ![b] = [@ EXCEPT !.pc = "chunk"]]
    /\ plan' = [plan EXCEPT ![b] = NoPlan]
    /\ UNCHANGED <<source, candle, own, read, shared>>

-----------------------------------------------------------------------------
(* The end of a request.                                                   *)

\* count_missing_candles: the times between the rows taken that none has.
Missing(b) == {t \in Times \ batch[b].kept :
                 /\ \E u \in batch[b].kept : u < t
                 /\ \E u \in batch[b].kept : t < u}

\* resolve_final_status of imports, final_status of polling requests.
Status(b) ==
    IF batch[b].kept = {} THEN "failed"
    ELSE IF \/ batch[b].dropped > 0
            \/ batch[b].warned
            \/ source = "upload" /\ Missing(b) # {}
         THEN "completed_with_warnings"
    ELSE "completed"

\* The transaction ends, with the request row and its counters in it.
Leave(b, pc) ==
    /\ batch' = [batch EXCEPT ![b] = Resting(pc)]
    /\ plan' = [plan EXCEPT ![b] = NoPlan]
    /\ own' = [own EXCEPT ![b] = Empty]
    /\ read' = [read EXCEPT ![b] = Empty]
    /\ shared' = [shared EXCEPT ![b] = Empty]
    /\ UNCHANGED source

Commit(b) ==
    /\ batch[b].pc = "chunk"
    /\ batch[b].next > Len(batch[b].rows)
    /\ candle' = [t \in Times |-> View(b, t)]
    /\ Leave(b, Status(b))

\* The unique constraint refuses an insert: another batch was first.
InsertRefused(b, t) ==
    /\ batch[b].pc = "write"
    /\ FirstOf(b, t, plan[b].insert)
    /\ RowFree(b, t)
    /\ View(b, t) # NoCandle
    /\ Leave(b, "idle")
    /\ UNCHANGED candle

\* A crash, a file with too many rows, a database error; and what ends a
\* circle of batches that wait for each other's candles: the database picks one.
Abort(b) ==
    /\ batch[b].pc \notin AtRest
    /\ Leave(b, "idle")
    /\ UNCHANGED candle

Step(b) ==
    \/ Submit(b) \/ ReadChunk(b) \/ DropRow(b) \/ StageInsert(b) \/ StageUpdate(b)
    \/ Decided(b) \/ ChunkDone(b) \/ Commit(b) \/ Abort(b)
    \/ \E t \in Times : InsertRow(b, t) \/ UpdateRow(b, t) \/ InsertRefused(b, t)

Next == \E b \in Batches : Step(b)

Spec == Init /\ [][Next]_vars

-----------------------------------------------------------------------------
(* Properties.                                                             *)

\* Types of the rows, the requests and what they have staged and written.
TypeOK ==
    /\ source \in {"upload", "api_polling"}
    /\ candle \in Series
    /\ batch \in [Batches -> Batch]
    /\ plan \in [Batches -> Plan]
    /\ own \in [Batches -> Series]
    /\ read \in [Batches -> Series]
    /\ shared \in [Batches -> Series]

(* Chunks, virtual state and merged statements make no difference: between   *)
(* its chunks a batch has written exactly the candles that the rows so far,  *)
(* stored one by one by CandleRepository, would have changed, with the values *)
(* they would have got (bulk_repository.py:59-136).                          *)
WritesAreSequential ==
    \A b \in Batches, t \in Times :
        batch[b].pc = "chunk" =>
            IF own[b][t] = NoCandle THEN shared[b][t] = read[b][t]
                                    ELSE shared[b][t] = own[b][t]

(* A final candle changes only when a batch commits that read it while it was *)
(* partial: then it may get other values and even become partial again        *)
(* (bulk_repository.py:128-132 writes by id).  Uploads never change one.      *)
OnlyStaleReadsOverwrite ==
    [][\A t \in Times :
         candle[t] # NoCandle /\ candle[t].final /\ candle'[t] # candle[t] =>
             /\ source = "api_polling"
             /\ \E b \in Batches :
                  /\ batch[b].pc = "chunk" /\ batch'[b].pc \in AtRest
                  /\ read[b][t] # NoCandle /\ ~read[b][t].final
      ]_vars

(* A request that reports completed, without warnings, has stored all of its  *)
(* rows, the last one where several are for one time; an import has left no   *)
(* gap between them (imports/service.py:596-618,                              *)
(* provider_polling/service.py:579-590).                                      *)
CompletedMeansStored ==
    [][\A b \in Batches :
         batch[b].pc = "chunk" /\ batch'[b].pc = "completed" =>
             /\ \A i \in 1..Len(batch[b].rows) :
                  \/ candle'[batch[b].rows[i].time] = Bar(batch[b].rows[i])
                  \/ \E j \in (i + 1)..Len(batch[b].rows) :
                       batch[b].rows[j].time = batch[b].rows[i].time
             /\ source = "upload" =>
                  \A t \in Times :
                      (\E i, j \in 1..Len(batch[b].rows) :
                          batch[b].rows[i].time < t /\ t < batch[b].rows[j].time)
                      => candle'[t] # NoCandle
      ]_vars

\* One request at a time works on the series.
OneAtATime ==
    \A b, c \in Batches : batch[b].pc \notin AtRest /\ batch[c].pc \notin AtRest => b = c

(* Late partial candles are ignored and conflicting final ones not written    *)
(* (apps/api/docs/historical-imports.md:100-101): a final candle stays.  With *)
(* chunks, virtual state and writes by id that holds under OneAtATime.        *)
FinalCandlesStay ==
    [][\A t \in Times :
         candle[t] # NoCandle /\ candle[t].final => candle'[t] = candle[t]]_vars
=============================================================================
