------------------------- MODULE CandleBatchesProofs -------------------------
(***************************************************************************)
(* Proofs about CandleBatches.  The invariant has a part for each request, *)
(* which no other request disturbs (Local), and a part that ties requests  *)
(* to the committed candles and to each other (Grounded, Locked, Finals).  *)
(***************************************************************************)
EXTENDS CandleBatches, TLAPS

-----------------------------------------------------------------------------
(* The invariant.                                                          *)

IsPartial(c) == c # NoCandle /\ ~c.final
FinalOnly(c) == c # NoCandle => c.final

\* Where a request stands in its rows.
Bounds(b) ==
    /\ batch[b].next \in 1..Len(batch[b].rows) + 1
    /\ batch[b].from \in Nat \ {0}
    /\ batch[b].pc = "resolve" => /\ batch[b].from <= batch[b].next
                                  /\ batch[b].next <= batch[b].to + 1
                                  /\ batch[b].to <= Len(batch[b].rows)
    /\ source = "upload" => \A i \in 1..Len(batch[b].rows) : batch[b].rows[i].final

\* Nothing is staged outside a chunk, and nothing is left of a request at rest.
Clean(b) ==
    /\ batch[b].pc \in AtRest \cup {"chunk"} => plan[b] = NoPlan
    /\ batch[b].pc \in AtRest => own[b] = Empty /\ read[b] = Empty /\ shared[b] = Empty

\* The virtual state is what row-by-row upserts would have made of the chunk.
Mirrors(b) ==
    batch[b].pc = "resolve" =>
        \A i \in Chunk(b) : batch[b].rows[i].valid =>
            plan[b].virtual[batch[b].rows[i].time] = shared[b][batch[b].rows[i].time]

\* A candle is staged for an insert, staged for an update, or as written.
Planned(b, t) ==
    /\ plan[b].insert[t] # NoCandle =>
         /\ plan[b].update[t] = NoCandle /\ own[b][t] = NoCandle /\ read[b][t] = NoCandle
         /\ shared[b][t] = plan[b].insert[t]
    /\ plan[b].update[t] # NoCandle =>
         /\ own[b][t] # NoCandle \/ IsPartial(read[b][t])
         /\ shared[b][t] = plan[b].update[t]
    /\ plan[b].insert[t] = NoCandle /\ plan[b].update[t] = NoCandle =>
         shared[b][t] = IF own[b][t] = NoCandle THEN read[b][t] ELSE own[b][t]

\* While no row has been dropped, each is staged or written, the last of a time
\* with its values.
Pending(b, t) ==
    plan[b].insert[t] # NoCandle \/ plan[b].update[t] # NoCandle \/ own[b][t] # NoCandle

Kept(b, i) ==
    /\ batch[b].rows[i].valid
    /\ batch[b].rows[i].time \in batch[b].kept
    /\ Pending(b, batch[b].rows[i].time)
    /\ (\A j \in (i + 1)..(batch[b].next - 1) : batch[b].rows[j].time # batch[b].rows[i].time)
         => shared[b][batch[b].rows[i].time] = Bar(batch[b].rows[i])

Tracked(b) ==
    /\ batch[b].dropped = 0 => \A i \in 1..(batch[b].next - 1) : Kept(b, i)
    /\ \A t \in batch[b].kept : \E i \in 1..(batch[b].next - 1) : batch[b].rows[i].time = t

Settled(b) ==
    source = "upload" =>
        \A t \in Times : FinalOnly(own[b][t]) /\ FinalOnly(read[b][t]) /\ FinalOnly(shared[b][t])

Local(b) ==
    /\ Bounds(b) /\ Clean(b) /\ Mirrors(b) /\ Tracked(b) /\ Settled(b)
    /\ \A t \in Times : Planned(b, t)

\* What is written was read as partial, or is a row that does not exist yet.
Grounded(b, t) ==
    own[b][t] # NoCandle =>
        \/ IsPartial(read[b][t])
        \/ read[b][t] = NoCandle /\ candle[t] = NoCandle

Locked == \A b, c \in Batches, t \in Times :
              own[b][t] # NoCandle /\ own[c][t] # NoCandle => b = c

Finals == source = "upload" => \A t \in Times : FinalOnly(candle[t])

Inv ==
    /\ TypeOK
    /\ \A b \in Batches : Local(b)
    /\ \A b \in Batches, t \in Times : Grounded(b, t)
    /\ Locked
    /\ Finals

-----------------------------------------------------------------------------
(* Types.                                                                  *)

LEMMA EmptyType == Empty \in Series /\ \A t \in Times : Empty[t] = NoCandle
BY DEF Empty, Series, Stored

LEMMA NoPlanType ==
    /\ NoPlan \in Plan
    /\ NoPlan.virtual = Empty /\ NoPlan.insert = Empty /\ NoPlan.update = Empty
BY EmptyType DEF NoPlan, Plan

LEMMA RestingType ==
    ASSUME NEW pc \in AtRest \cup {"chunk"}
    PROVE  /\ Resting(pc) \in Batch
           /\ Resting(pc).pc = pc /\ Resting(pc).rows = <<>> /\ Resting(pc).next = 1
           /\ Resting(pc).from = 1 /\ Resting(pc).kept = {} /\ Resting(pc).dropped = 0
<1>1. <<>> \in Seq(Item)
  OBVIOUS
<1> QED
  BY <1>1 DEF Resting, Batch, AtRest

\* The row at hand.
LEMMA RowType ==
    ASSUME TypeOK, NEW b \in Batches, Bounds(b), Deciding(b)
    PROVE  /\ Row(b) \in Item
           /\ batch[b].next \in Chunk(b) /\ batch[b].next \in 1..Len(batch[b].rows)
           /\ Row(b).time \in Times
           /\ Bar(Row(b)) \in Candle
           /\ Bar(Row(b)) # NoCandle
           /\ Bar(Row(b)).final = Row(b).final
           /\ source = "upload" => Row(b).final
<1>1. batch[b] \in Batch
  BY DEF TypeOK
<1>2. /\ batch[b].rows \in Seq(Item) /\ batch[b].next \in Nat /\ batch[b].to \in Nat
      /\ batch[b].from \in Nat
  BY <1>1 DEF Batch
<1>3. batch[b].next \in 1..Len(batch[b].rows) /\ batch[b].next \in Chunk(b)
  BY <1>2 DEF Bounds, Deciding, Chunk
<1>4. Row(b) \in Item
  BY <1>2, <1>3 DEF Row
<1>5. Bar(Row(b)) \in Candle /\ Bar(Row(b)).final = Row(b).final
  BY <1>4 DEF Bar, Item, Candle
<1>6. source = "upload" => Row(b).final
  BY <1>3 DEF Bounds, Row
<1> QED
  BY <1>3, <1>4, <1>5, <1>6, BatchesAssumption DEF Item

-----------------------------------------------------------------------------
(* Only the batch that steps has anything changed.                         *)

Others(b) ==
    \A c \in Batches \ {b} :
        /\ batch'[c] = batch[c] /\ plan'[c] = plan[c] /\ own'[c] = own[c]
        /\ read'[c] = read[c] /\ shared'[c] = shared[c]

LEMMA OthersLocal ==
    ASSUME NEW b \in Batches, NEW c \in Batches \ {b}, Others(b), source' = source, Local(c)
    PROVE  Local(c)'
<1>1. /\ batch'[c] = batch[c] /\ plan'[c] = plan[c] /\ own'[c] = own[c]
      /\ read'[c] = read[c] /\ shared'[c] = shared[c]
  BY DEF Others
<1> QED
  BY <1>1 DEF Local, Bounds, Clean, Mirrors, Chunk, Tracked, Kept, Pending, Settled, Planned, Bar

\* A step that commits nothing.
LEMMA QuietInv ==
    ASSUME Inv, NEW b \in Batches, Others(b), UNCHANGED <<source, candle>>,
           TypeOK', Local(b)',
           \A t \in Times :
              /\ Grounded(b, t)'
              /\ own'[b][t] # NoCandle => own[b][t] # NoCandle \/ RowFree(b, t)
    PROVE  Inv'
<1>1. \A c \in Batches : Local(c)'
  BY OthersLocal DEF Inv
<1>2. ASSUME NEW c \in Batches, NEW t \in Times PROVE Grounded(c, t)'
  <2>1. CASE c = b
    BY <2>1
  <2>2. CASE c # b
    BY <2>2 DEF Inv, Grounded, Others
  <2> QED
    BY <2>1, <2>2
<1>3. Locked'
  <2> SUFFICES ASSUME NEW c \in Batches, NEW d \in Batches, NEW t \in Times,
                      own'[c][t] # NoCandle, own'[d][t] # NoCandle, c # d
               PROVE  FALSE
    BY DEF Locked
  <2>1. \A e \in Batches \ {b} : own'[e] = own[e]
    BY DEF Others
  <2>2. Locked
    BY DEF Inv
  <2> QED
    BY <2>1, <2>2 DEF Locked, RowFree
<1>4. Finals'
  BY DEF Inv, Finals
<1> QED
  BY <1>1, <1>2, <1>3, <1>4 DEF Inv

-----------------------------------------------------------------------------
(* The initial state, and a request that begins or ends.                   *)

LEMMA FreshLocal ==
    ASSUME NEW b \in Batches, NEW pc \in AtRest,
           batch'[b] = Resting(pc), plan'[b] = NoPlan,
           own'[b] = Empty, read'[b] = Empty, shared'[b] = Empty
    PROVE  Local(b)' /\ \A t \in Times : own'[b][t] = NoCandle
<1>1. pc # "resolve"
  BY DEF AtRest
<1>2. Len(Resting(pc).rows) = 0
  BY RestingType
<1>3. Bounds(b)'
  BY <1>1, <1>2, RestingType DEF Bounds
<1>4. Clean(b)' /\ Mirrors(b)'
  BY <1>1, RestingType DEF Clean, Mirrors
<1>5. \A t \in Times : Planned(b, t)'
  BY EmptyType, NoPlanType DEF Planned
<1>6. Tracked(b)'
  BY RestingType DEF Tracked
<1>7. Settled(b)'
  BY EmptyType DEF Settled, FinalOnly
<1> QED
  BY <1>3, <1>4, <1>5, <1>6, <1>7, EmptyType DEF Local

LEMMA LeaveType ==
    ASSUME TypeOK, NEW b \in Batches, NEW pc \in AtRest, Leave(b, pc), candle' \in Series
    PROVE  /\ TypeOK' /\ Others(b)
           /\ batch'[b] = Resting(pc) /\ plan'[b] = NoPlan
           /\ own'[b] = Empty /\ read'[b] = Empty /\ shared'[b] = Empty
<1>1. Resting(pc) \in Batch /\ NoPlan \in Plan /\ Empty \in Series
  BY RestingType, NoPlanType, EmptyType
<1>2. /\ batch' \in [Batches -> Batch] /\ batch'[b] = Resting(pc)
      /\ \A c \in Batches \ {b} : batch'[c] = batch[c]
  BY <1>1 DEF Leave, TypeOK
<1>3. /\ plan' \in [Batches -> Plan] /\ plan'[b] = NoPlan
      /\ \A c \in Batches \ {b} : plan'[c] = plan[c]
  BY <1>1 DEF Leave, TypeOK
<1>4. /\ own' \in [Batches -> Series] /\ own'[b] = Empty
      /\ \A c \in Batches \ {b} : own'[c] = own[c]
  BY <1>1 DEF Leave, TypeOK
<1>5. /\ read' \in [Batches -> Series] /\ read'[b] = Empty
      /\ \A c \in Batches \ {b} : read'[c] = read[c]
  BY <1>1 DEF Leave, TypeOK
<1>6. /\ shared' \in [Batches -> Series] /\ shared'[b] = Empty
      /\ \A c \in Batches \ {b} : shared'[c] = shared[c]
  BY <1>1 DEF Leave, TypeOK
<1>7. TypeOK'
  BY <1>2, <1>3, <1>4, <1>5, <1>6 DEF TypeOK, Leave
<1> QED
  BY <1>2, <1>3, <1>4, <1>5, <1>6, <1>7 DEF Others

\* A request that leaves without a commit.
LEMMA LostInv ==
    ASSUME Inv, NEW b \in Batches, Leave(b, "idle"), UNCHANGED candle
    PROVE  Inv'
<1>1. TypeOK /\ candle' \in Series
  BY DEF Inv, TypeOK
<1>2. "idle" \in AtRest
  BY DEF AtRest
<1>3. /\ TypeOK' /\ Others(b)
      /\ batch'[b] = Resting("idle") /\ plan'[b] = NoPlan
      /\ own'[b] = Empty /\ read'[b] = Empty /\ shared'[b] = Empty
  BY <1>1, <1>2, LeaveType
<1>4. Local(b)' /\ \A t \in Times : own'[b][t] = NoCandle
  BY <1>2, <1>3, FreshLocal
<1>5. source' = source
  BY DEF Leave
<1>6. \A t \in Times : Grounded(b, t)'
  BY <1>4 DEF Grounded
<1> QED
  BY <1>3, <1>4, <1>5, <1>6, QuietInv

LEMMA InitInv ==
    ASSUME Init
    PROVE  Inv
<1>1. TypeOK
  <2>1. "idle" \in AtRest
    BY DEF AtRest
  <2>2. Resting("idle") \in Batch /\ NoPlan \in Plan /\ Empty \in Series
    BY <2>1, RestingType, NoPlanType, EmptyType
  <2> QED
    BY <2>2 DEF Init, TypeOK
<1>2. ASSUME NEW b \in Batches PROVE Local(b)
  <2>1. "idle" \in AtRest /\ "idle" # "resolve"
    BY DEF AtRest
  <2>2. /\ batch[b] = Resting("idle") /\ plan[b] = NoPlan
        /\ own[b] = Empty /\ read[b] = Empty /\ shared[b] = Empty
    BY DEF Init
  <2>3. Len(Resting("idle").rows) = 0
    BY <2>1, RestingType
  <2>4. Bounds(b)
    BY <2>1, <2>2, <2>3, RestingType DEF Bounds
  <2>5. Clean(b) /\ Mirrors(b)
    BY <2>1, <2>2, RestingType DEF Clean, Mirrors
  <2>6. \A t \in Times : Planned(b, t)
    BY <2>2, EmptyType, NoPlanType DEF Planned
  <2>7. Tracked(b)
    BY <2>1, <2>2, RestingType DEF Tracked
  <2>8. Settled(b)
    BY <2>2, EmptyType DEF Settled, FinalOnly
  <2> QED
    BY <2>4, <2>5, <2>6, <2>7, <2>8 DEF Local
<1>3. \A b \in Batches, t \in Times : own[b][t] = NoCandle
  BY EmptyType DEF Init
<1>4. Locked /\ \A b \in Batches, t \in Times : Grounded(b, t)
  BY <1>3 DEF Locked, Grounded
<1>5. Finals
  BY EmptyType DEF Init, Finals, FinalOnly
<1> QED
  BY <1>1, <1>2, <1>4, <1>5 DEF Inv

LEMMA SeqSubset ==
    ASSUME NEW T, NEW S \in SUBSET T, NEW s \in Seq(S)
    PROVE  s \in Seq(T) /\ \A i \in 1..Len(s) : s[i] \in S
<1>1. Len(s) \in Nat /\ s \in [1..Len(s) -> S]
  OBVIOUS
<1>2. s \in [1..Len(s) -> T]
  BY <1>1
<1> QED
  BY <1>1, <1>2

LEMMA SubmitInv ==
    ASSUME Inv, NEW b \in Batches, Submit(b)
    PROVE  Inv'
<1> DEFINE Asked(rows, warned) == [Resting("chunk") EXCEPT !.rows = rows, !.warned = warned]
<1>1. PICK rows \in IF source = "upload" THEN Uploads ELSE Fetches, warned \in BOOLEAN :
         batch' = [batch EXCEPT ![b] = Asked(rows, warned)]
  BY DEF Submit
<1>2. TypeOK /\ Local(b) /\ batch[b].pc \in AtRest
  BY DEF Inv, Submit
<1>3. rows \in Seq(Item) /\ (source = "upload" => \A i \in 1..Len(rows) : rows[i].final)
  <2>1. CASE source = "upload"
    <3> DEFINE Imported == [time : Times, value : Values, final : {TRUE}, valid : BOOLEAN]
    <3>1. rows \in Seq(Imported)
      BY <1>1, <2>1, BatchesAssumption
    <3>2. Imported \subseteq Item /\ \A r \in Imported : r.final
      BY DEF Item
    <3> HIDE DEF Imported
    <3> QED
      BY <3>1, <3>2, SeqSubset
  <2>2. CASE source # "upload"
    BY <1>1, <2>2, BatchesAssumption
  <2> QED
    BY <2>1, <2>2
<1>4. /\ Asked(rows, warned) \in Batch
      /\ Asked(rows, warned).pc = "chunk" /\ Asked(rows, warned).rows = rows
      /\ Asked(rows, warned).next = 1 /\ Asked(rows, warned).from = 1
      /\ Asked(rows, warned).kept = {} /\ Asked(rows, warned).dropped = 0
  BY <1>3 DEF Resting, Batch, AtRest
<1> HIDE DEF Asked
<1>5. /\ batch' \in [Batches -> Batch] /\ batch'[b] = Asked(rows, warned)
      /\ \A c \in Batches \ {b} : batch'[c] = batch[c]
  BY <1>1, <1>2, <1>4 DEF TypeOK
<1>6. UNCHANGED <<source, candle, plan, own, read, shared>>
  BY DEF Submit
<1>7. TypeOK' /\ Others(b)
  BY <1>2, <1>5, <1>6 DEF TypeOK, Others
<1>8. /\ plan'[b] = NoPlan /\ own'[b] = Empty
      /\ read'[b] = Empty /\ shared'[b] = Empty
  BY <1>2, <1>6 DEF Local, Clean
<1>9. Local(b)'
  <2>1. Bounds(b)'
    BY <1>3, <1>4, <1>5, <1>6 DEF Bounds
  <2>2. Clean(b)' /\ Mirrors(b)'
    BY <1>4, <1>5, <1>8 DEF Clean, Mirrors, AtRest
  <2>3. \A t \in Times : Planned(b, t)'
    BY <1>8, EmptyType, NoPlanType DEF Planned
  <2>4. Tracked(b)'
    BY <1>4, <1>5 DEF Tracked
  <2>5. Settled(b)'
    BY <1>8, EmptyType DEF Settled, FinalOnly
  <2> QED
    BY <2>1, <2>2, <2>3, <2>4, <2>5 DEF Local
<1>10. \A t \in Times : own'[b][t] = NoCandle
  BY <1>8, EmptyType
<1>11. \A t \in Times : Grounded(b, t)'
  BY <1>10 DEF Grounded
<1> QED
  BY <1>6, <1>7, <1>9, <1>10, <1>11, QuietInv

-----------------------------------------------------------------------------
(* A chunk is read, decided and written.                                   *)

LEMMA FieldTypes ==
    ASSUME TypeOK, NEW b \in Batches
    PROVE  /\ batch[b] \in Batch /\ plan[b] \in Plan
           /\ batch[b].rows \in Seq(Item) /\ Len(batch[b].rows) \in Nat
           /\ batch[b].from \in Nat /\ batch[b].next \in Nat /\ batch[b].to \in Nat
           /\ batch[b].kept \in SUBSET Times /\ batch[b].dropped \in Nat
           /\ plan[b].virtual \in Series /\ plan[b].insert \in Series
           /\ plan[b].update \in Series
           /\ own[b] \in Series /\ read[b] \in Series /\ shared[b] \in Series
           /\ candle \in Series
<1>1. batch[b] \in Batch /\ plan[b] \in Plan
  BY DEF TypeOK
<1>2. own[b] \in Series /\ read[b] \in Series /\ shared[b] \in Series /\ candle \in Series
  BY DEF TypeOK
<1>3. batch[b].rows \in Seq(Item)
  BY <1>1 DEF Batch
<1> QED
  BY <1>1, <1>2, <1>3 DEF Batch, Plan

LEMMA ReadChunkInv ==
    ASSUME Inv, NEW b \in Batches, ReadChunk(b)
    PROVE  Inv'
<1> DEFINE keys == KeysOf(b, batch[b].next, ChunkEnd(b))
           virtual == [t \in Times |-> IF t \in keys THEN View(b, t) ELSE NoCandle]
           seen == [t \in Times |-> IF t \in keys /\ own[b][t] = NoCandle
                                    THEN candle[t] ELSE read[b][t]]
           upserts == [t \in Times |-> IF t \in keys THEN View(b, t) ELSE shared[b][t]]
           planned == [NoPlan EXCEPT !.virtual = virtual]
           resolving == [batch[b] EXCEPT !.pc = "resolve", !.from = batch[b].next,
                                         !.to = ChunkEnd(b)]
<1>1. TypeOK /\ Local(b) /\ Finals
  BY DEF Inv
<1>2. /\ batch[b].pc = "chunk" /\ batch[b].next <= Len(batch[b].rows)
      /\ plan[b] = NoPlan
  BY <1>1 DEF ReadChunk, Local, Clean
<1>3. /\ batch[b].next \in Nat \ {0} /\ batch[b].next <= ChunkEnd(b)
      /\ ChunkEnd(b) \in Nat /\ ChunkEnd(b) <= Len(batch[b].rows)
  BY <1>1, <1>2, FieldTypes, BatchesAssumption DEF ChunkEnd, Local, Bounds
<1>4. \A t \in Times : View(b, t) \in Stored
  BY <1>1, FieldTypes DEF View, Series
<1>5. virtual \in Series /\ seen \in Series /\ upserts \in Series
  BY <1>1, <1>4, FieldTypes DEF Series, Stored
<1>6. \A t \in Times :
        /\ virtual[t] = IF t \in keys THEN View(b, t) ELSE NoCandle
        /\ seen[t] = IF t \in keys /\ own[b][t] = NoCandle THEN candle[t] ELSE read[b][t]
        /\ upserts[t] = IF t \in keys THEN View(b, t) ELSE shared[b][t]
  OBVIOUS
<1>7. \A i \in batch[b].next..ChunkEnd(b) :
        batch[b].rows[i].valid => batch[b].rows[i].time \in keys /\ batch[b].rows[i].time \in Times
  <2> SUFFICES ASSUME NEW i \in batch[b].next..ChunkEnd(b), batch[b].rows[i].valid
               PROVE  batch[b].rows[i].time \in keys /\ batch[b].rows[i].time \in Times
    OBVIOUS
  <2>1. batch[b].rows[i].time \in keys
    BY DEF KeysOf
  <2> HIDE DEF keys
  <2>2. batch[b].rows \in Seq(Item) /\ Len(batch[b].rows) \in Nat
    BY <1>1, FieldTypes
  <2>3. i \in 1..Len(batch[b].rows)
    BY <1>3, <2>2
  <2>4. batch[b].rows[i] \in Item
    BY <2>2, <2>3
  <2> QED
    BY <2>1, <2>4 DEF Item
<1> HIDE DEF virtual, seen, upserts, keys
<1>8. /\ planned \in Plan /\ planned.virtual = virtual
      /\ planned.insert = Empty /\ planned.update = Empty
  BY <1>5, NoPlanType DEF Plan
<1>9. /\ resolving \in Batch /\ resolving.pc = "resolve" /\ resolving.from = batch[b].next
      /\ resolving.to = ChunkEnd(b) /\ resolving.next = batch[b].next
      /\ resolving.rows = batch[b].rows /\ resolving.kept = batch[b].kept
      /\ resolving.dropped = batch[b].dropped
  BY <1>1, <1>3, FieldTypes DEF Batch
<1>10. /\ plan' = [plan EXCEPT ![b] = planned] /\ read' = [read EXCEPT ![b] = seen]
       /\ shared' = [shared EXCEPT ![b] = upserts] /\ batch' = [batch EXCEPT ![b] = resolving]
       /\ UNCHANGED <<source, candle, own>>
  BY DEF ReadChunk, keys, virtual, seen, upserts
<1> HIDE DEF planned, resolving
<1>11. TypeOK' /\ Others(b)
  BY <1>1, <1>5, <1>8, <1>9, <1>10 DEF TypeOK, Others
<1>12. /\ plan'[b] = planned /\ read'[b] = seen /\ shared'[b] = upserts
       /\ batch'[b] = resolving /\ own'[b] = own[b]
  BY <1>1, <1>10 DEF TypeOK
<1>13. \A t \in Times : Planned(b, t) /\ Grounded(b, t)
  BY DEF Inv, Local
<1>14. \A t \in Times : shared[b][t] = IF own[b][t] = NoCandle THEN read[b][t] ELSE own[b][t]
  BY <1>2, <1>13, EmptyType, NoPlanType DEF Planned
<1>15. Local(b)'
  <2>1. Bounds(b)'
    <3>1. Bounds(b)
      BY <1>1 DEF Local
    <3>2. /\ batch'[b].rows = batch[b].rows /\ batch'[b].next = batch[b].next
          /\ batch'[b].from = batch[b].next /\ batch'[b].to = ChunkEnd(b)
          /\ source' = source /\ Len(batch[b].rows) \in Nat
      BY <1>1, <1>9, <1>10, <1>12, FieldTypes
    <3> QED
      BY <1>3, <3>1, <3>2 DEF Bounds
  <2>2. Clean(b)'
    BY <1>9, <1>12 DEF Clean, AtRest
  <2>3. Mirrors(b)'
    BY <1>6, <1>7, <1>8, <1>9, <1>12 DEF Mirrors, Chunk
  <2>4. \A t \in Times : Planned(b, t)'
    BY <1>6, <1>8, <1>12, <1>14, EmptyType DEF Planned, View
  <2>5. Tracked(b)'
    <3>1. \A t \in Times : own[b][t] # NoCandle => upserts[t] = shared[b][t]
      BY <1>6, <1>14 DEF View
    <3>2. ASSUME batch[b].dropped = 0, NEW i \in 1..(batch[b].next - 1) PROVE Kept(b, i)'
      <4>1. Kept(b, i)
        BY <1>1, <3>2 DEF Local, Tracked
      <4>2. batch[b].rows[i].time \in Times
        BY <1>1, <4>1, FieldTypes DEF Kept, Pending
      <4>3. own[b][batch[b].rows[i].time] # NoCandle
        BY <1>2, <4>1, <4>2, EmptyType, NoPlanType DEF Kept, Pending
      <4> QED
        BY <1>9, <1>12, <3>1, <4>1, <4>2, <4>3 DEF Kept, Pending, Bar
    <3> QED
      BY <1>1, <1>9, <1>12, <3>2 DEF Local, Tracked
  <2>6. Settled(b)'
    BY <1>1, <1>6, <1>10, <1>12 DEF Local, Settled, Finals, FinalOnly, View
  <2> QED
    BY <2>1, <2>2, <2>3, <2>4, <2>5, <2>6 DEF Local
<1>16. \A t \in Times : Grounded(b, t)' /\ (own'[b][t] # NoCandle => own[b][t] # NoCandle)
  BY <1>6, <1>10, <1>12, <1>13 DEF Grounded
<1> QED
  BY <1>10, <1>11, <1>15, <1>16, QuietInv

LEMMA DecidedInv ==
    ASSUME Inv, NEW b \in Batches, Decided(b)
    PROVE  Inv'
<1> DEFINE decided == [batch[b] EXCEPT !.pc = "write"]
<1>1. TypeOK /\ Local(b)
  BY DEF Inv
<1>2. /\ decided \in Batch /\ decided.pc = "write" /\ decided.from = batch[b].from
      /\ decided.next = batch[b].next /\ decided.rows = batch[b].rows
      /\ decided.kept = batch[b].kept /\ decided.dropped = batch[b].dropped
  BY <1>1, FieldTypes DEF Batch
<1>3. batch' = [batch EXCEPT ![b] = decided] /\ UNCHANGED <<source, candle, plan, own, read, shared>>
  BY DEF Decided
<1> HIDE DEF decided
<1>4. TypeOK' /\ Others(b) /\ batch'[b] = decided
  BY <1>1, <1>2, <1>3 DEF TypeOK, Others
<1>5. Local(b)'
  <2>1. Bounds(b)'
    BY <1>1, <1>2, <1>3, <1>4 DEF Local, Bounds
  <2>2. Clean(b)' /\ Mirrors(b)'
    BY <1>2, <1>4 DEF Clean, Mirrors, AtRest
  <2>3. \A t \in Times : Planned(b, t)'
    BY <1>1, <1>3 DEF Local, Planned
  <2>4. Tracked(b)'
    BY <1>1, <1>2, <1>3, <1>4 DEF Local, Tracked, Kept, Pending, Bar
  <2>5. Settled(b)'
    BY <1>1, <1>3 DEF Local, Settled
  <2> QED
    BY <2>1, <2>2, <2>3, <2>4, <2>5 DEF Local
<1>6. \A t \in Times : Grounded(b, t)' /\ (own'[b][t] # NoCandle => own[b][t] # NoCandle)
  BY <1>3 DEF Inv, Grounded
<1> QED
  BY <1>3, <1>4, <1>5, <1>6, QuietInv

LEMMA ChunkDoneInv ==
    ASSUME Inv, NEW b \in Batches, ChunkDone(b)
    PROVE  Inv'
<1> DEFINE between == [batch[b] EXCEPT !.pc = "chunk"]
<1>1. TypeOK /\ Local(b)
  BY DEF Inv
<1>2. /\ between \in Batch /\ between.pc = "chunk" /\ between.from = batch[b].from
      /\ between.next = batch[b].next /\ between.rows = batch[b].rows
      /\ between.kept = batch[b].kept /\ between.dropped = batch[b].dropped
  BY <1>1, FieldTypes DEF Batch
<1>3. /\ batch' = [batch EXCEPT ![b] = between] /\ plan' = [plan EXCEPT ![b] = NoPlan]
      /\ UNCHANGED <<source, candle, own, read, shared>>
      /\ plan[b].insert = Empty /\ plan[b].update = Empty
  BY DEF ChunkDone
<1> HIDE DEF between
<1>4. TypeOK' /\ Others(b) /\ batch'[b] = between /\ plan'[b] = NoPlan
  BY <1>1, <1>2, <1>3, NoPlanType DEF TypeOK, Others
<1>5. Local(b)'
  <2>1. Bounds(b)'
    BY <1>1, <1>2, <1>3, <1>4 DEF Local, Bounds
  <2>2. Clean(b)' /\ Mirrors(b)'
    BY <1>2, <1>4 DEF Clean, Mirrors, AtRest
  <2>3. \A t \in Times : Planned(b, t)'
    BY <1>1, <1>3, <1>4, EmptyType, NoPlanType DEF Local, Planned
  <2>4. Tracked(b)'
    BY <1>1, <1>2, <1>3, <1>4, NoPlanType DEF Local, Tracked, Kept, Pending, Bar
  <2>5. Settled(b)'
    BY <1>1, <1>3 DEF Local, Settled
  <2> QED
    BY <2>1, <2>2, <2>3, <2>4, <2>5 DEF Local
<1>6. \A t \in Times : Grounded(b, t)' /\ (own'[b][t] # NoCandle => own[b][t] # NoCandle)
  BY <1>3 DEF Inv, Grounded
<1> QED
  BY <1>3, <1>4, <1>5, <1>6, QuietInv

\* The virtual state of the row at hand is a candle as upserts would have it.
LEMMA RowMirrored ==
    ASSUME Inv, NEW b \in Batches, Deciding(b), Row(b).valid
    PROVE  plan[b].virtual[Row(b).time] = shared[b][Row(b).time]
<1>1. TypeOK /\ Local(b) /\ Bounds(b) /\ Mirrors(b)
  BY DEF Inv, Local
<1>2. batch[b].next \in Chunk(b)
  BY <1>1, RowType
<1> QED
  BY <1>1, <1>2 DEF Mirrors, Deciding, Row

\* A batch that has moved on to its next row.
LEMMA NextBounds ==
    ASSUME Inv, NEW b \in Batches, Deciding(b), source' = source,
           batch'[b].pc = "resolve", batch'[b].rows = batch[b].rows,
           batch'[b].from = batch[b].from, batch'[b].to = batch[b].to,
           batch'[b].next = batch[b].next + 1
    PROVE  Bounds(b)' /\ Clean(b)' /\ Chunk(b)' = Chunk(b)
<1>1. TypeOK /\ Bounds(b)
  BY DEF Inv, Local
<1>2. /\ batch[b].next \in Nat /\ batch[b].to \in Nat /\ batch[b].from \in Nat
      /\ Len(batch[b].rows) \in Nat
  BY <1>1, FieldTypes
<1>3. Bounds(b)'
  BY <1>1, <1>2 DEF Bounds, Deciding
<1>4. Clean(b)' /\ Chunk(b)' = Chunk(b)
  BY DEF Clean, Chunk, AtRest
<1> QED
  BY <1>3, <1>4

LEMMA DropRowInv ==
    ASSUME Inv, NEW b \in Batches, DropRow(b)
    PROVE  Inv'
<1> DEFINE next == [batch[b] EXCEPT !.next = batch[b].next + 1,
                                    !.dropped = batch[b].dropped + 1]
<1>1. TypeOK /\ Local(b) /\ Bounds(b) /\ Deciding(b)
  BY DEF Inv, Local, DropRow
<1>2. /\ next \in Batch /\ next.pc = batch[b].pc /\ next.rows = batch[b].rows
      /\ next.from = batch[b].from /\ next.to = batch[b].to
      /\ next.next = batch[b].next + 1 /\ next.kept = batch[b].kept
      /\ next.dropped = batch[b].dropped + 1
  <2>1. batch[b].next + 1 \in Nat /\ batch[b].dropped + 1 \in Nat
    BY <1>1, FieldTypes
  <2> QED
    BY <1>1, <2>1, FieldTypes DEF Batch
<1>3. batch' = [batch EXCEPT ![b] = next] /\ UNCHANGED <<source, candle, plan, own, read>>
  BY DEF DropRow
<1> HIDE DEF next
<1>4. shared' = shared
  <2>1. CASE Row(b).valid
    <3>1. plan[b].virtual[Row(b).time] = shared[b][Row(b).time]
      BY <1>1, <2>1, RowMirrored
    <3>2. Upsert(shared[b][Row(b).time], Row(b)) = shared[b][Row(b).time]
      BY <2>1, <3>1 DEF DropRow, Decision, Upsert
    <3>3. shared' = [shared EXCEPT ![b] =
                       [shared[b] EXCEPT ![Row(b).time] = shared[b][Row(b).time]]]
      BY <2>1, <3>2 DEF DropRow
    <3>4. [shared[b] EXCEPT ![Row(b).time] = shared[b][Row(b).time]] = shared[b]
      BY <1>1, FieldTypes DEF Series
    <3> QED
      BY <1>1, <3>3, <3>4 DEF TypeOK
  <2>2. CASE ~Row(b).valid
    BY <2>2 DEF DropRow
  <2> QED
    BY <2>1, <2>2
<1>5. TypeOK' /\ Others(b) /\ batch'[b] = next
  BY <1>1, <1>2, <1>3, <1>4 DEF TypeOK, Others
<1>6. Local(b)'
  <2>1. Bounds(b)' /\ Clean(b)' /\ Chunk(b)' = Chunk(b)
    BY <1>1, <1>2, <1>3, <1>5, NextBounds DEF Deciding
  <2>2. Mirrors(b)'
    BY <1>1, <1>2, <1>3, <1>4, <1>5, <2>1 DEF Local, Mirrors
  <2>3. \A t \in Times : Planned(b, t)'
    BY <1>1, <1>3, <1>4 DEF Local, Planned
  <2>4. Tracked(b)'
    <3>1. batch[b].dropped + 1 # 0 /\ batch[b].next \in Nat
      BY <1>1, FieldTypes
    <3>2. \A t \in batch[b].kept : \E i \in 1..(batch[b].next - 1) : batch[b].rows[i].time = t
      BY <1>1 DEF Local, Tracked
    <3>3. 1..(batch[b].next - 1) \subseteq 1..(batch[b].next + 1 - 1)
      BY <3>1
    <3> QED
      BY <1>2, <1>5, <3>1, <3>2, <3>3 DEF Tracked
  <2>5. Settled(b)'
    BY <1>1, <1>3, <1>4 DEF Local, Settled
  <2> QED
    BY <2>1, <2>2, <2>3, <2>4, <2>5 DEF Local
<1>7. \A t \in Times : Grounded(b, t)' /\ (own'[b][t] # NoCandle => own[b][t] # NoCandle)
  BY <1>3 DEF Inv, Grounded
<1> QED
  BY <1>3, <1>5, <1>6, <1>7, QuietInv

\* A row is taken, whichever statement it is staged for.
Stages(b, time, bar, staged) ==
    /\ time = Row(b).time /\ bar = Bar(Row(b))
    /\ plan' = [plan EXCEPT ![b] = staged]
    /\ staged.virtual = [plan[b].virtual EXCEPT ![time] = bar]
    /\ \A t \in Times \ {time} : /\ staged.insert[t] = plan[b].insert[t]
                                /\ staged.update[t] = plan[b].update[t]
    /\ staged.insert[time] # NoCandle \/ staged.update[time] # NoCandle
    /\ shared'[b][time] = bar => Planned(b, time)'
    /\ ~(plan[b].virtual[time] # NoCandle /\ plan[b].virtual[time].final)

LEMMA TakeInv ==
    ASSUME Inv, NEW b \in Batches, Take(b),
           NEW time \in Times, NEW bar, NEW staged \in Plan, Stages(b, time, bar, staged)
    PROVE  Inv'
<1> DEFINE next == [batch[b] EXCEPT !.next = batch[b].next + 1,
                                    !.kept = batch[b].kept \cup {time}]
           upserts == [shared[b] EXCEPT ![time] = Upsert(shared[b][time], Row(b))]
<1>0. /\ time = Row(b).time /\ bar = Bar(Row(b)) /\ plan' = [plan EXCEPT ![b] = staged]
      /\ staged.virtual = [plan[b].virtual EXCEPT ![time] = bar]
      /\ \A t \in Times \ {time} : /\ staged.insert[t] = plan[b].insert[t]
                                  /\ staged.update[t] = plan[b].update[t]
      /\ staged.insert[time] # NoCandle \/ staged.update[time] # NoCandle
      /\ shared'[b][time] = bar => Planned(b, time)'
      /\ ~(plan[b].virtual[time] # NoCandle /\ plan[b].virtual[time].final)
  BY DEF Stages
<1>1. TypeOK /\ Local(b) /\ Bounds(b) /\ Deciding(b) /\ Row(b).valid
  BY DEF Inv, Local, Take
<1>2. /\ time \in Times /\ bar \in Stored /\ bar # NoCandle
      /\ source = "upload" => bar.final
  BY <1>0, <1>1, RowType DEF Stored
<1>3. plan[b].virtual[time] = shared[b][time]
  BY <1>0, <1>1, RowMirrored
<1>4. Upsert(shared[b][time], Row(b)) = bar
  BY <1>0, <1>3 DEF Upsert
<1>5. /\ next \in Batch /\ next.pc = batch[b].pc /\ next.rows = batch[b].rows
      /\ next.from = batch[b].from /\ next.to = batch[b].to
      /\ next.next = batch[b].next + 1 /\ next.kept = batch[b].kept \cup {time}
      /\ next.dropped = batch[b].dropped
  <2>1. batch[b].next + 1 \in Nat /\ batch[b].kept \cup {time} \in SUBSET Times
    BY <1>1, FieldTypes
  <2> QED
    BY <1>1, <2>1, FieldTypes DEF Batch
<1>6. /\ upserts \in Series /\ upserts[time] = bar
      /\ \A t \in Times \ {time} : upserts[t] = shared[b][t]
  BY <1>1, <1>2, <1>4, FieldTypes DEF Series
<1>7. /\ staged.virtual[time] = bar
      /\ \A t \in Times \ {time} : staged.virtual[t] = plan[b].virtual[t]
  BY <1>0, <1>1, <1>2, FieldTypes DEF Series
<1>8. /\ batch' = [batch EXCEPT ![b] = next] /\ shared' = [shared EXCEPT ![b] = upserts]
      /\ UNCHANGED <<source, candle, own, read>>
  BY <1>0 DEF Take
<1> HIDE DEF next, upserts
<1>9. /\ TypeOK' /\ Others(b)
      /\ batch'[b] = next /\ shared'[b] = upserts /\ plan'[b] = staged
  BY <1>0, <1>1, <1>5, <1>6, <1>8 DEF TypeOK, Others
<1>10. Local(b)'
  <2>1. Bounds(b)' /\ Clean(b)' /\ Chunk(b)' = Chunk(b)
    BY <1>1, <1>5, <1>8, <1>9, NextBounds DEF Deciding
  <2>2. Mirrors(b)'
    <3>1. ASSUME NEW i \in Chunk(b), batch[b].rows[i].valid
          PROVE  staged.virtual[batch[b].rows[i].time] = upserts[batch[b].rows[i].time]
      <4>1. batch[b].rows[i].time \in Times
        <5>1. i \in 1..Len(batch[b].rows)
          BY <1>1, FieldTypes DEF Chunk, Bounds, Deciding
        <5>2. batch[b].rows[i] \in Item
          BY <1>1, <5>1, FieldTypes
        <5> QED
          BY <5>2 DEF Item
      <4>2. plan[b].virtual[batch[b].rows[i].time] = shared[b][batch[b].rows[i].time]
        BY <1>1, <3>1 DEF Local, Mirrors, Deciding
      <4> QED
        BY <1>6, <1>7, <4>1, <4>2
    <3>2. /\ batch'[b].rows = batch[b].rows /\ plan'[b].virtual = staged.virtual
          /\ shared'[b] = upserts
      BY <1>5, <1>9
    <3>3. ASSUME NEW i \in Chunk(b)', batch'[b].rows[i].valid
          PROVE  plan'[b].virtual[batch'[b].rows[i].time] = shared'[b][batch'[b].rows[i].time]
      <4>1. i \in Chunk(b)
        BY <2>1
      <4>2. batch[b].rows[i].valid
        BY <3>2, <3>3
      <4>3. staged.virtual[batch[b].rows[i].time] = upserts[batch[b].rows[i].time]
        BY <3>1, <4>1, <4>2
      <4> QED
        BY <3>2, <4>3
    <3> QED
      BY <3>3 DEF Mirrors
  <2>3. ASSUME NEW t \in Times PROVE Planned(b, t)'
    <3>1. CASE t = time
      BY <1>0, <1>6, <1>9, <3>1
    <3>2. CASE t # time
      <4>1. /\ plan'[b].insert[t] = plan[b].insert[t] /\ plan'[b].update[t] = plan[b].update[t]
            /\ shared'[b][t] = shared[b][t]
        BY <1>0, <1>6, <1>9, <3>2
      <4>2. Planned(b, t)
        BY <1>1 DEF Local
      <4> QED
        BY <1>8, <4>1, <4>2 DEF Planned
    <3> QED
      BY <3>1, <3>2
  <2>4. Tracked(b)'
    <3>1. /\ batch[b].next \in Nat \ {0} /\ batch'[b].next - 1 = batch[b].next
          /\ batch'[b].rows = batch[b].rows /\ batch'[b].dropped = batch[b].dropped
          /\ batch'[b].kept = batch[b].kept \cup {time}
          /\ batch[b].rows[batch[b].next].time = time
      <4>1. batch[b].next \in Nat /\ batch[b].next \in 1..Len(batch[b].rows)
        BY <1>1, RowType, FieldTypes
      <4>2. batch[b].next + 1 - 1 = batch[b].next /\ batch[b].next \in Nat \ {0}
        BY <4>1
      <4>3. /\ batch'[b].next = batch[b].next + 1
            /\ batch'[b].rows = batch[b].rows /\ batch'[b].dropped = batch[b].dropped
            /\ batch'[b].kept = batch[b].kept \cup {time}
        BY <1>5, <1>9
      <4>4. batch[b].rows[batch[b].next].time = time
        BY <1>0 DEF Row
      <4> QED
        BY <4>2, <4>3, <4>4
    <3>2. ASSUME batch[b].dropped = 0, NEW i \in 1..batch[b].next PROVE Kept(b, i)'
      <4>1. CASE i = batch[b].next
        <5>1. batch'[b].rows[i] = Row(b) /\ Row(b).time = time
          BY <1>0, <3>1, <4>1 DEF Row
        <5>2. Pending(b, time)'
          BY <1>0, <1>9 DEF Pending
        <5> QED
          BY <1>0, <1>1, <1>6, <1>9, <3>1, <5>1, <5>2 DEF Kept, Bar
      <4>2. CASE i # batch[b].next
        <5>1. i \in 1..(batch[b].next - 1)
          BY <3>1, <4>2
        <5>2. Kept(b, i)
          BY <1>1, <3>2, <5>1 DEF Local, Tracked
        <5>3. batch[b].rows[i].time \in Times
          BY <1>1, <5>2, FieldTypes DEF Kept
        <5>4. CASE batch[b].rows[i].time = time
          <6>1. batch[b].next \in (i + 1)..batch[b].next
            BY <3>1, <5>1
          <6>2. ~ \A j \in (i + 1)..(batch'[b].next - 1) :
                     batch'[b].rows[j].time # batch'[b].rows[i].time
            BY <3>1, <5>4, <6>1
          <6>3. Pending(b, time)'
            BY <1>0, <1>9 DEF Pending
          <6> QED
            BY <3>1, <5>2, <5>4, <6>2, <6>3 DEF Kept
        <5>5. CASE batch[b].rows[i].time # time
          <6> DEFINE t == batch[b].rows[i].time
          <6>1. (i + 1)..(batch[b].next - 1) \subseteq (i + 1)..batch[b].next
            BY <3>1, <5>1
          <6>2. /\ plan'[b].insert[t] = plan[b].insert[t] /\ plan'[b].update[t] = plan[b].update[t]
                /\ shared'[b][t] = shared[b][t] /\ own'[b][t] = own[b][t]
            BY <1>0, <1>6, <1>8, <1>9, <5>3, <5>5
          <6>3. batch[b].rows[i].valid /\ t \in batch'[b].kept
            BY <3>1, <5>2 DEF Kept
          <6>4. Pending(b, batch[b].rows[i].time)'
            <7>1. batch'[b].rows[i].time = t
              BY <3>1
            <7>2. Pending(b, t)
              BY <5>2 DEF Kept
            <7> QED
              BY <3>1, <6>2, <7>1, <7>2 DEF Pending
          <6>5. (\A j \in (i + 1)..batch[b].next : batch[b].rows[j].time # t)
                  => shared'[b][t] = Bar(batch[b].rows[i])
            BY <5>2, <6>1, <6>2 DEF Kept
          <6> HIDE DEF t
          <6> QED
            BY <3>1, <6>3, <6>4, <6>5 DEF Kept, Bar, t
        <5> QED
          BY <5>4, <5>5
      <4> QED
        BY <4>1, <4>2
    <3>3. ASSUME NEW t \in batch[b].kept \cup {time}
          PROVE  \E i \in 1..batch[b].next : batch[b].rows[i].time = t
      <4>1. CASE t = time
        <5>1. batch[b].next \in 1..batch[b].next
          BY <3>1
        <5> QED
          BY <3>1, <4>1, <5>1
      <4>2. CASE t \in batch[b].kept
        <5>1. PICK i \in 1..(batch[b].next - 1) : batch[b].rows[i].time = t
          BY <1>1, <4>2 DEF Local, Tracked
        <5> QED
          BY <3>1, <5>1
      <4> QED
        BY <4>1, <4>2
    <3> QED
      BY <3>1, <3>2, <3>3 DEF Tracked
  <2>5. Settled(b)'
    <3> QED
      BY <1>1, <1>2, <1>6, <1>8, <1>9 DEF Local, Settled, FinalOnly
  <2> QED
    BY <2>1, <2>2, <2>3, <2>4, <2>5 DEF Local
<1>11. \A t \in Times : Grounded(b, t)' /\ (own'[b][t] # NoCandle => own[b][t] # NoCandle)
  BY <1>8 DEF Inv, Grounded
<1> QED
  BY <1>8, <1>9, <1>10, <1>11, QuietInv

LEMMA StageInsertInv ==
    ASSUME Inv, NEW b \in Batches, StageInsert(b)
    PROVE  Inv'
<1>1. TypeOK /\ Bounds(b) /\ Deciding(b) /\ Take(b) /\ Row(b).valid
  BY DEF Inv, Local, StageInsert, Take
<1>2. PICK time \in Times : time = Row(b).time
  BY <1>1, RowType
<1>3. PICK bar \in Candle : bar = Bar(Row(b)) /\ bar # NoCandle
  BY <1>1, RowType
<1> DEFINE staged == [plan[b] EXCEPT !.virtual = [plan[b].virtual EXCEPT ![time] = bar],
                                     !.insert = [plan[b].insert EXCEPT ![time] = bar]]
<1>4. /\ [plan[b].virtual EXCEPT ![time] = bar] \in Series
      /\ [plan[b].insert EXCEPT ![time] = bar] \in Series
      /\ [plan[b].insert EXCEPT ![time] = bar][time] = bar
      /\ \A t \in Times \ {time} :
            [plan[b].insert EXCEPT ![time] = bar][t] = plan[b].insert[t]
  BY <1>1, FieldTypes DEF Series, Stored
<1>5. /\ staged \in Plan /\ staged.virtual = [plan[b].virtual EXCEPT ![time] = bar]
      /\ staged.insert = [plan[b].insert EXCEPT ![time] = bar]
      /\ staged.update = plan[b].update
  BY <1>1, <1>4, FieldTypes DEF Plan
<1>6. plan' = [plan EXCEPT ![b] = staged]
  BY <1>2, <1>3 DEF StageInsert
<1> HIDE DEF staged
<1>7. plan'[b] = staged
  BY <1>1, <1>6 DEF TypeOK
<1>8. plan[b].virtual[time] = shared[b][time] /\ Planned(b, time)
  BY <1>1, <1>2, RowMirrored DEF Inv, Local
<1>9. /\ ~(plan[b].virtual[time] # NoCandle /\ plan[b].virtual[time].final)
      /\ plan[b].virtual[time] = NoCandle \/ plan[b].insert[time] # NoCandle
  BY <1>2 DEF StageInsert, Insertable, Decision
<1>10. UNCHANGED <<own, read>>
  BY <1>1 DEF Take
<1>11. /\ plan[b].update[time] = NoCandle
       /\ own[b][time] = NoCandle /\ read[b][time] = NoCandle
  BY <1>8, <1>9 DEF Planned
<1>12. shared'[b][time] = bar => Planned(b, time)'
  BY <1>3, <1>4, <1>5, <1>7, <1>10, <1>11 DEF Planned
<1>13. \A t \in Times \ {time} : /\ staged.insert[t] = plan[b].insert[t]
                                 /\ staged.update[t] = plan[b].update[t]
  BY <1>4, <1>5
<1>14. staged.insert[time] # NoCandle
  BY <1>3, <1>4, <1>5
<1> QED
  <2>1. Stages(b, time, bar, staged)
    BY <1>2, <1>3, <1>5, <1>6, <1>9, <1>12, <1>13, <1>14 DEF Stages
  <2> QED
    BY <1>1, <1>5, <2>1, TakeInv

LEMMA StageUpdateInv ==
    ASSUME Inv, NEW b \in Batches, StageUpdate(b)
    PROVE  Inv'
<1>1. TypeOK /\ Bounds(b) /\ Deciding(b) /\ Take(b) /\ Row(b).valid
  BY DEF Inv, Local, StageUpdate, Take
<1>2. PICK time \in Times : time = Row(b).time
  BY <1>1, RowType
<1>3. PICK bar \in Candle : bar = Bar(Row(b)) /\ bar # NoCandle
  BY <1>1, RowType
<1> DEFINE staged == [plan[b] EXCEPT !.virtual = [plan[b].virtual EXCEPT ![time] = bar],
                                     !.update = [plan[b].update EXCEPT ![time] = bar]]
<1>4. /\ [plan[b].virtual EXCEPT ![time] = bar] \in Series
      /\ [plan[b].update EXCEPT ![time] = bar] \in Series
      /\ [plan[b].update EXCEPT ![time] = bar][time] = bar
      /\ \A t \in Times \ {time} :
            [plan[b].update EXCEPT ![time] = bar][t] = plan[b].update[t]
  BY <1>1, FieldTypes DEF Series, Stored
<1>5. /\ staged \in Plan /\ staged.virtual = [plan[b].virtual EXCEPT ![time] = bar]
      /\ staged.update = [plan[b].update EXCEPT ![time] = bar]
      /\ staged.insert = plan[b].insert
  BY <1>1, <1>4, FieldTypes DEF Plan
<1>6. plan' = [plan EXCEPT ![b] = staged]
  BY <1>2, <1>3 DEF StageUpdate
<1> HIDE DEF staged
<1>7. plan'[b] = staged
  BY <1>1, <1>6 DEF TypeOK
<1>8. plan[b].virtual[time] = shared[b][time] /\ Planned(b, time)
  BY <1>1, <1>2, RowMirrored DEF Inv, Local
<1>9. IsPartial(plan[b].virtual[time]) /\ plan[b].insert[time] = NoCandle
  BY <1>2 DEF StageUpdate, Decision, IsPartial
<1>10. UNCHANGED <<own, read>>
  BY <1>1 DEF Take
<1>11. own[b][time] # NoCandle \/ IsPartial(read[b][time])
  BY <1>8, <1>9 DEF Planned
<1>12. shared'[b][time] = bar => Planned(b, time)'
  BY <1>3, <1>4, <1>5, <1>7, <1>9, <1>10, <1>11 DEF Planned
<1>13. \A t \in Times \ {time} : /\ staged.insert[t] = plan[b].insert[t]
                                 /\ staged.update[t] = plan[b].update[t]
  BY <1>4, <1>5
<1>14. staged.update[time] # NoCandle
  BY <1>3, <1>4, <1>5
<1>15. ~(plan[b].virtual[time] # NoCandle /\ plan[b].virtual[time].final)
  BY <1>9 DEF IsPartial
<1> QED
  <2>1. Stages(b, time, bar, staged)
    BY <1>2, <1>3, <1>5, <1>6, <1>12, <1>13, <1>14, <1>15 DEF Stages
  <2> QED
    BY <1>1, <1>5, <2>1, TakeInv

\* A staged row is written, whichever statement it is in.
LEMMA WriteInv ==
    ASSUME Inv, NEW b \in Batches, NEW t \in Times, batch[b].pc = "write", RowFree(b, t),
           UNCHANGED <<source, candle, batch, read, shared>>,
           NEW left \in Plan, plan' = [plan EXCEPT ![b] = left],
           left.insert[t] = NoCandle, left.update[t] = NoCandle,
           \A u \in Times \ {t} : /\ left.insert[u] = plan[b].insert[u]
                                 /\ left.update[u] = plan[b].update[u],
           shared[b][t] # NoCandle,
           own' = [own EXCEPT ![b] = [own[b] EXCEPT ![t] = shared[b][t]]],
           IsPartial(read[b][t]) \/ (read[b][t] = NoCandle /\ candle[t] = NoCandle)
    PROVE  Inv'
<1> DEFINE written == [own[b] EXCEPT ![t] = shared[b][t]]
<1>1. TypeOK /\ Local(b) /\ Bounds(b)
  BY DEF Inv, Local
<1>2. /\ written \in Series /\ written[t] = shared[b][t]
      /\ \A u \in Times \ {t} : written[u] = own[b][u]
  BY <1>1, FieldTypes DEF Series
<1>3. own' = [own EXCEPT ![b] = written]
  OBVIOUS
<1> HIDE DEF written
<1>4. TypeOK' /\ Others(b) /\ own'[b] = written /\ plan'[b] = left
  BY <1>1, <1>2, <1>3 DEF TypeOK, Others
<1>5. Local(b)'
  <2>1. Bounds(b)' /\ Clean(b)' /\ Mirrors(b)'
    BY <1>1 DEF Bounds, Clean, Mirrors, AtRest
  <2>2. ASSUME NEW u \in Times PROVE Planned(b, u)'
    <3>1. CASE u = t
      BY <1>2, <1>4, <3>1 DEF Planned
    <3>2. CASE u # t
      <4>1. /\ plan'[b].insert[u] = plan[b].insert[u] /\ plan'[b].update[u] = plan[b].update[u]
            /\ own'[b][u] = own[b][u]
        BY <1>2, <1>4, <3>2
      <4>2. Planned(b, u)
        BY <1>1 DEF Local
      <4> QED
        BY <4>1, <4>2 DEF Planned
    <3> QED
      BY <3>1, <3>2
  <2>3. Tracked(b)'
    <3>1. \A u \in Times : Pending(b, u) => Pending(b, u)'
      <4> SUFFICES ASSUME NEW u \in Times, Pending(b, u) PROVE Pending(b, u)'
        OBVIOUS
      <4>1. CASE u = t
        BY <1>2, <1>4, <4>1 DEF Pending
      <4>2. CASE u # t
        BY <1>2, <1>4, <4>2 DEF Pending
      <4> QED
        BY <4>1, <4>2
    <3>2. ASSUME batch[b].dropped = 0, NEW i \in 1..(batch[b].next - 1) PROVE Kept(b, i)'
      <4>1. Kept(b, i)
        BY <1>1, <3>2 DEF Local, Tracked
      <4>2. batch[b].rows[i].time \in Times
        BY <1>1, <4>1, FieldTypes DEF Kept
      <4>3. Pending(b, batch[b].rows[i].time)'
        <5>1. PICK u \in Times : u = batch[b].rows[i].time
          BY <4>2
        <5>2. Pending(b, u)'
          BY <3>1, <4>1, <5>1 DEF Kept
        <5>3. u = batch'[b].rows[i].time
          BY <5>1
        <5> QED
          BY <5>2, <5>3 DEF Pending
      <4> QED
        BY <4>1, <4>3 DEF Kept, Bar
    <3> QED
      BY <1>1, <3>2 DEF Local, Tracked
  <2>4. Settled(b)'
    BY <1>1, <1>2, <1>4 DEF Local, Settled, FinalOnly
  <2> QED
    BY <2>1, <2>2, <2>3, <2>4 DEF Local
<1>6. ASSUME NEW u \in Times
      PROVE  Grounded(b, u)' /\ (own'[b][u] # NoCandle => own[b][u] # NoCandle \/ RowFree(b, u))
  <2>1. CASE u = t
    BY <1>4, <2>1 DEF Grounded
  <2>2. CASE u # t
    BY <1>2, <1>4, <2>2 DEF Inv, Grounded
  <2> QED
    BY <2>1, <2>2
<1> QED
  BY <1>4, <1>5, <1>6, QuietInv

LEMMA InsertRowInv ==
    ASSUME Inv, NEW b \in Batches, NEW t \in Times, InsertRow(b, t)
    PROVE  Inv'
<1> DEFINE rest == [plan[b].insert EXCEPT ![t] = NoCandle]
           left == [plan[b] EXCEPT !.insert = rest]
<1>1. TypeOK /\ Planned(b, t) /\ Grounded(b, t)
  BY DEF Inv, Local
<1>2. /\ rest \in Series /\ rest[t] = NoCandle
      /\ \A u \in Times \ {t} : rest[u] = plan[b].insert[u]
  BY <1>1, FieldTypes DEF Series, Stored
<1>3. left \in Plan /\ left.insert = rest /\ left.update = plan[b].update
  BY <1>1, <1>2, FieldTypes DEF Plan
<1>4. plan[b].insert[t] # NoCandle
  BY DEF InsertRow, FirstOf
<1>5. /\ plan[b].update[t] = NoCandle /\ own[b][t] = NoCandle /\ read[b][t] = NoCandle
      /\ shared[b][t] = plan[b].insert[t]
  BY <1>1, <1>4 DEF Planned
<1>6. candle[t] = NoCandle
  BY <1>5 DEF InsertRow, View
<1>7. /\ own' = [own EXCEPT ![b] = [own[b] EXCEPT ![t] = shared[b][t]]]
      /\ plan' = [plan EXCEPT ![b] = left]
      /\ batch[b].pc = "write" /\ RowFree(b, t)
      /\ UNCHANGED <<source, candle, batch, read, shared>>
  BY <1>5 DEF InsertRow
<1> HIDE DEF rest, left
<1> QED
  BY <1>2, <1>3, <1>4, <1>5, <1>6, <1>7, WriteInv

LEMMA UpdateRowInv ==
    ASSUME Inv, NEW b \in Batches, NEW t \in Times, UpdateRow(b, t)
    PROVE  Inv'
<1> DEFINE rest == [plan[b].update EXCEPT ![t] = NoCandle]
           left == [plan[b] EXCEPT !.update = rest]
<1>1. TypeOK /\ Planned(b, t) /\ Grounded(b, t)
  BY DEF Inv, Local
<1>2. /\ rest \in Series /\ rest[t] = NoCandle
      /\ \A u \in Times \ {t} : rest[u] = plan[b].update[u]
  BY <1>1, FieldTypes DEF Series, Stored
<1>3. left \in Plan /\ left.update = rest /\ left.insert = plan[b].insert
  BY <1>1, <1>2, FieldTypes DEF Plan
<1>4. plan[b].update[t] # NoCandle /\ plan[b].insert[t] = NoCandle
  BY EmptyType DEF UpdateRow, FirstOf
<1>5. /\ own[b][t] # NoCandle \/ IsPartial(read[b][t])
      /\ shared[b][t] = plan[b].update[t]
  BY <1>1, <1>4 DEF Planned
<1>6. IsPartial(read[b][t]) \/ (read[b][t] = NoCandle /\ candle[t] = NoCandle)
  BY <1>1, <1>5 DEF Grounded
<1>7. /\ own' = [own EXCEPT ![b] = [own[b] EXCEPT ![t] = shared[b][t]]]
      /\ plan' = [plan EXCEPT ![b] = left]
      /\ batch[b].pc = "write" /\ RowFree(b, t)
      /\ UNCHANGED <<source, candle, batch, read, shared>>
  BY <1>5 DEF UpdateRow
<1> HIDE DEF rest, left
<1> QED
  BY <1>2, <1>3, <1>4, <1>5, <1>6, <1>7, WriteInv

-----------------------------------------------------------------------------
(* The commit.                                                             *)

LEMMA CommitTypes ==
    ASSUME Inv, NEW b \in Batches, Commit(b)
    PROVE  /\ Status(b) \in AtRest /\ candle' \in Series
           /\ \A t \in Times :
                 candle'[t] = IF own[b][t] = NoCandle THEN candle[t] ELSE own[b][t]
           /\ plan[b] = NoPlan
           /\ \A t \in Times :
                 shared[b][t] = IF own[b][t] = NoCandle THEN read[b][t] ELSE own[b][t]
<1>1. TypeOK /\ Clean(b)
  BY DEF Inv, Local
<1>2. Status(b) \in AtRest
  BY DEF Status, AtRest
<1>3. /\ candle' \in Series
      /\ \A t \in Times : candle'[t] = IF own[b][t] = NoCandle THEN candle[t] ELSE own[b][t]
  BY <1>1, FieldTypes DEF Commit, View, Series
<1>4. plan[b] = NoPlan
  BY <1>1 DEF Clean, Commit
<1>5. \A t \in Times : shared[b][t] = IF own[b][t] = NoCandle THEN read[b][t] ELSE own[b][t]
  BY <1>4, EmptyType, NoPlanType DEF Inv, Local, Planned
<1> QED
  BY <1>2, <1>3, <1>4, <1>5

LEMMA CommitInv ==
    ASSUME Inv, NEW b \in Batches, Commit(b)
    PROVE  Inv'
<1>1. TypeOK /\ Locked /\ Local(b)
  BY DEF Inv
<1>2. PICK pc \in AtRest : Leave(b, pc)
  BY CommitTypes DEF Commit
<1>3. candle' \in Series
  BY CommitTypes
<1>4. /\ TypeOK' /\ Others(b)
      /\ batch'[b] = Resting(pc) /\ plan'[b] = NoPlan
      /\ own'[b] = Empty /\ read'[b] = Empty /\ shared'[b] = Empty
  BY <1>1, <1>2, <1>3, LeaveType
<1>5. Local(b)' /\ \A t \in Times : own'[b][t] = NoCandle
  BY <1>4, FreshLocal
<1>6. source' = source
  BY <1>2 DEF Leave
<1>7. \A c \in Batches : Local(c)'
  BY <1>4, <1>5, <1>6, OthersLocal DEF Inv
<1>8. \A c \in Batches \ {b} : own'[c] = own[c] /\ read'[c] = read[c]
  BY <1>4 DEF Others
<1>9. ASSUME NEW c \in Batches, NEW t \in Times PROVE Grounded(c, t)'
  <2>1. CASE c = b
    BY <1>5, <2>1 DEF Grounded
  <2>2. CASE c # b
    <3>1. own[c][t] # NoCandle => candle'[t] = candle[t]
      BY <1>1, <2>2, CommitTypes DEF Locked
    <3>2. Grounded(c, t)
      BY DEF Inv
    <3> QED
      BY <1>8, <2>2, <3>1, <3>2 DEF Grounded
  <2> QED
    BY <2>1, <2>2
<1>10. Locked'
  BY <1>1, <1>5, <1>8 DEF Locked
<1>11. Finals'
  BY <1>1, <1>6, CommitTypes DEF Inv, Local, Finals, Settled, FinalOnly
<1> QED
  BY <1>4, <1>7, <1>9, <1>10, <1>11 DEF Inv

-----------------------------------------------------------------------------
(* Every step.                                                             *)

LEMMA StepInv ==
    ASSUME Inv, [Next]_vars
    PROVE  Inv'
<1>1. CASE Next
  <2>1. PICK b \in Batches : Step(b)
    BY <1>1 DEF Next
  <2>2. CASE Submit(b)
    BY <2>2, SubmitInv
  <2>3. CASE ReadChunk(b)
    BY <2>3, ReadChunkInv
  <2>4. CASE DropRow(b)
    BY <2>4, DropRowInv
  <2>5. CASE StageInsert(b)
    BY <2>5, StageInsertInv
  <2>6. CASE StageUpdate(b)
    BY <2>6, StageUpdateInv
  <2>7. CASE Decided(b)
    BY <2>7, DecidedInv
  <2>8. CASE ChunkDone(b)
    BY <2>8, ChunkDoneInv
  <2>9. CASE Commit(b)
    BY <2>9, CommitInv
  <2>10. CASE Abort(b)
    BY <2>10, LostInv DEF Abort
  <2>11. CASE \E t \in Times : InsertRow(b, t) \/ UpdateRow(b, t) \/ InsertRefused(b, t)
    <3>1. PICK t \in Times : InsertRow(b, t) \/ UpdateRow(b, t) \/ InsertRefused(b, t)
      BY <2>11
    <3>2. CASE InsertRow(b, t)
      BY <3>2, InsertRowInv
    <3>3. CASE UpdateRow(b, t)
      BY <3>3, UpdateRowInv
    <3>4. CASE InsertRefused(b, t)
      BY <3>4, LostInv DEF InsertRefused
    <3> QED
      BY <3>1, <3>2, <3>3, <3>4
  <2> QED
    BY <2>1, <2>2, <2>3, <2>4, <2>5, <2>6, <2>7, <2>8, <2>9, <2>10, <2>11 DEF Step
<1>2. CASE UNCHANGED vars
  BY <1>2 DEF vars, Inv, TypeOK, Local, Bounds, Clean, Mirrors, Chunk, Planned, Tracked, Kept,
              Pending, Settled, Grounded, Locked, Finals, Bar
<1> QED
  BY <1>1, <1>2

\* The invariant of all that follows.
THEOREM InvHolds == Spec => []Inv
<1>1. Init => Inv
  BY InitInv
<1>2. Inv /\ [Next]_vars => Inv'
  BY StepInv
<1> QED
  BY <1>1, <1>2, PTL DEF Spec

\* Rows, requests, staged and written candles keep their types: chunk bounds
\* stay numbers and the merged statements stay candles of the series.
THEOREM TypesHold == Spec => []TypeOK
<1>1. Inv => TypeOK
  BY DEF Inv
<1> QED
  BY <1>1, InvHolds, PTL

\* Whatever the chunk size, the rows and the other requests, what a batch has
\* written after a chunk is what row-by-row upserts would have written.
THEOREM WritesSequential == Spec => []WritesAreSequential
<1>1. Inv => WritesAreSequential
  <2> SUFFICES ASSUME Inv, NEW b \in Batches, NEW t \in Times, batch[b].pc = "chunk"
               PROVE  IF own[b][t] = NoCandle THEN shared[b][t] = read[b][t]
                                              ELSE shared[b][t] = own[b][t]
    BY DEF WritesAreSequential
  <2>1. Planned(b, t) /\ plan[b] = NoPlan
    BY DEF Inv, Local, Clean
  <2> QED
    BY <2>1, EmptyType, NoPlanType DEF Planned
<1> QED
  BY <1>1, InvHolds, PTL

-----------------------------------------------------------------------------
(* What a commit may do.                                                   *)

LEMMA OnlyCommitStores ==
    ASSUME [Next]_vars
    PROVE  candle' = candle \/ \E b \in Batches : Commit(b)
BY DEF Next, Step, Submit, ReadChunk, DropRow, StageInsert, StageUpdate, Take, Decided, ChunkDone,
       Abort, InsertRow, UpdateRow, InsertRefused, vars

LEMMA OnlyCommitCompletes ==
    ASSUME Inv, [Next]_vars, NEW b \in Batches,
           batch[b].pc = "chunk", batch'[b].pc = "completed"
    PROVE  Commit(b) /\ Status(b) = "completed"
<1>1. TypeOK
  BY DEF Inv
<1>2. PICK c \in Batches : Step(c)
  BY DEF Next, vars
<1>3. c = b
  <2> SUFFICES ASSUME c # b PROVE FALSE
    OBVIOUS
  <2>1. batch'[b] = batch[b]
    BY <1>1, <1>2 DEF Step, Submit, ReadChunk, DropRow, StageInsert, StageUpdate, Take, Decided,
                      ChunkDone, Commit, Abort, InsertRow, UpdateRow, InsertRefused, Leave, TypeOK
  <2> QED
    BY <2>1
<1>4. ~ ReadChunk(b)
  <2> SUFFICES ASSUME ReadChunk(b) PROVE FALSE
    OBVIOUS
  <2>1. batch[b] \in Batch
    BY <1>1, FieldTypes
  <2>2. batch'[b].pc = "resolve"
    BY <1>1, <2>1 DEF ReadChunk, TypeOK, Batch
  <2> QED
    BY <2>2
<1>5. ~ Abort(b)
  <2> SUFFICES ASSUME Abort(b) PROVE FALSE
    OBVIOUS
  <2>1. Resting("idle").pc = "idle"
    BY DEF Resting
  <2>2. batch'[b].pc = "idle"
    BY <1>1, <2>1 DEF Abort, Leave, TypeOK
  <2> QED
    BY <2>2
<1>6. Commit(b)
  BY <1>2, <1>3, <1>4, <1>5
     DEF Step, Submit, AtRest, DropRow, StageInsert, StageUpdate, Take, Deciding, Decided,
         ChunkDone, InsertRow, UpdateRow, InsertRefused
<1>7. Resting(Status(b)).pc = Status(b)
  BY DEF Resting
<1> QED
  BY <1>1, <1>6, <1>7 DEF Commit, Leave, TypeOK

\* A final candle is written over only by a batch that read it while it was
\* partial, and never by an upload.
THEOREM StaleOverwrites == Spec => OnlyStaleReadsOverwrite
<1> DEFINE Allowed ==
        \A t \in Times :
         candle[t] # NoCandle /\ candle[t].final /\ candle'[t] # candle[t] =>
             /\ source = "api_polling"
             /\ \E b \in Batches :
                  /\ batch[b].pc = "chunk" /\ batch'[b].pc \in AtRest
                  /\ read[b][t] # NoCandle /\ ~read[b][t].final
<1>1. ASSUME Inv, [Next]_vars PROVE Allowed
  <2> SUFFICES ASSUME NEW t \in Times, candle[t] # NoCandle, candle[t].final,
                      candle'[t] # candle[t]
               PROVE  /\ source = "api_polling"
                      /\ \E b \in Batches :
                           /\ batch[b].pc = "chunk" /\ batch'[b].pc \in AtRest
                           /\ read[b][t] # NoCandle /\ ~read[b][t].final
    OBVIOUS
  <2>1. PICK b \in Batches : Commit(b)
    BY <1>1, OnlyCommitStores
  <2>2. own[b][t] # NoCandle
    BY <1>1, <2>1, CommitTypes
  <2>3. IsPartial(read[b][t])
    BY <1>1, <2>2 DEF Inv, Grounded
  <2>4. source = "api_polling"
    BY <1>1, <2>3 DEF Inv, TypeOK, Local, Settled, FinalOnly, IsPartial
  <2>5. batch[b].pc = "chunk" /\ batch'[b].pc \in AtRest
    <3>1. TypeOK /\ Status(b) \in AtRest
      BY <1>1, <2>1, CommitTypes DEF Inv
    <3>2. Resting(Status(b)).pc = Status(b)
      BY DEF Resting
    <3> QED
      BY <2>1, <3>1, <3>2 DEF Commit, Leave, TypeOK
  <2> QED
    BY <2>3, <2>4, <2>5 DEF IsPartial
<1>2. Inv /\ [Next]_vars => [Allowed]_vars
  BY <1>1
<1> QED
  BY <1>2, InvHolds, PTL DEF Spec, OnlyStaleReadsOverwrite

\* A request that reports completed has stored every row, the last one of each
\* time, and an import has left no gap between its rows.
THEOREM CompletionStored == Spec => CompletedMeansStored
<1> DEFINE Stands ==
        \A b \in Batches :
         batch[b].pc = "chunk" /\ batch'[b].pc = "completed" =>
             /\ \A i \in 1..Len(batch[b].rows) :
                  \/ candle'[batch[b].rows[i].time] = Bar(batch[b].rows[i])
                  \/ \E j \in (i + 1)..Len(batch[b].rows) :
                       batch[b].rows[j].time = batch[b].rows[i].time
             /\ source = "upload" =>
                  \A t \in Times :
                      (\E i, j \in 1..Len(batch[b].rows) :
                          batch[b].rows[i].time < t /\ t < batch[b].rows[j].time)
                      => candle'[t] # NoCandle
<1>1. ASSUME Inv, [Next]_vars PROVE Stands
  <2> SUFFICES ASSUME NEW b \in Batches, batch[b].pc = "chunk", batch'[b].pc = "completed"
               PROVE  /\ \A i \in 1..Len(batch[b].rows) :
                           \/ candle'[batch[b].rows[i].time] = Bar(batch[b].rows[i])
                           \/ \E j \in (i + 1)..Len(batch[b].rows) :
                                batch[b].rows[j].time = batch[b].rows[i].time
                      /\ source = "upload" =>
                           \A t \in Times :
                               (\E i, j \in 1..Len(batch[b].rows) :
                                   batch[b].rows[i].time < t /\ t < batch[b].rows[j].time)
                               => candle'[t] # NoCandle
    OBVIOUS
  <2>1. Commit(b) /\ Status(b) = "completed"
    BY <1>1, OnlyCommitCompletes
  <2>2. TypeOK /\ Bounds(b) /\ Tracked(b)
    BY <1>1 DEF Inv, Local
  <2>3. batch[b].next - 1 = Len(batch[b].rows)
    BY <2>1, <2>2, FieldTypes DEF Commit, Bounds
  <2>4. batch[b].dropped = 0 /\ (source = "upload" => Missing(b) = {})
    <3>1. batch[b].dropped \in Nat
      BY <2>2, FieldTypes
    <3> QED
      BY <2>1, <3>1 DEF Status
  <2>5. ASSUME NEW i \in 1..Len(batch[b].rows)
        PROVE  /\ Kept(b, i) /\ batch[b].rows[i].time \in Times
               /\ candle'[batch[b].rows[i].time] # NoCandle
               /\ candle'[batch[b].rows[i].time] = shared[b][batch[b].rows[i].time]
    <3>1. Kept(b, i)
      BY <2>2, <2>3, <2>4 DEF Tracked
    <3>2. batch[b].rows[i].time \in Times
      BY <2>2, <3>1, FieldTypes DEF Kept
    <3>3. own[b][batch[b].rows[i].time] # NoCandle
      BY <1>1, <2>1, <3>1, <3>2, CommitTypes, EmptyType, NoPlanType DEF Kept, Pending
    <3> QED
      BY <1>1, <2>1, <3>1, <3>2, <3>3, CommitTypes
  <2>6. ASSUME NEW i \in 1..Len(batch[b].rows)
        PROVE  \/ candle'[batch[b].rows[i].time] = Bar(batch[b].rows[i])
               \/ \E j \in (i + 1)..Len(batch[b].rows) :
                    batch[b].rows[j].time = batch[b].rows[i].time
    BY <2>3, <2>5 DEF Kept
  <2>7. ASSUME source = "upload", NEW t \in Times,
               NEW i \in 1..Len(batch[b].rows), NEW j \in 1..Len(batch[b].rows),
               batch[b].rows[i].time < t, t < batch[b].rows[j].time
        PROVE  candle'[t] # NoCandle
    <3>1. batch[b].rows[i].time \in batch[b].kept /\ batch[b].rows[j].time \in batch[b].kept
      BY <2>5 DEF Kept
    <3>2. t \in batch[b].kept
      BY <2>4, <2>7, <3>1 DEF Missing
    <3>3. PICK k \in 1..Len(batch[b].rows) : batch[b].rows[k].time = t
      BY <2>2, <2>3, <3>2 DEF Tracked
    <3> QED
      BY <2>5, <3>3
  <2> QED
    BY <2>6, <2>7
<1>2. Inv /\ [Next]_vars => [Stands]_vars
  BY <1>1
<1> QED
  BY <1>2, InvHolds, PTL DEF Spec, CompletedMeansStored

-----------------------------------------------------------------------------
(* One request at a time.                                                  *)

\* What a request has read is still what is committed.
Current ==
    \A b \in Batches, t \in Times :
        batch[b].pc \notin AtRest /\ read[b][t] # NoCandle => candle[t] = read[b][t]

\* Only a request's own steps, and those that begin it, change what it has read.
LEMMA StepChanges ==
    ASSUME TypeOK, NEW b \in Batches, Step(b)
    PROVE  /\ \A c \in Batches \ {b} : batch'[c] = batch[c] /\ read'[c] = read[c]
           /\ \A t \in Times : read'[b][t] \in {read[b][t], candle[t], NoCandle}
           /\ Submit(b) \/ batch[b].pc \notin AtRest
<1>1. ASSUME NEW c \in Batches \ {b} PROVE batch'[c] = batch[c] /\ read'[c] = read[c]
  BY DEF Step, Submit, ReadChunk, DropRow, StageInsert, StageUpdate, Take, Decided, ChunkDone,
         Commit, Abort, InsertRow, UpdateRow, InsertRefused, Leave, TypeOK
<1>2. ASSUME NEW t \in Times PROVE read'[b][t] \in {read[b][t], candle[t], NoCandle}
  <2>1. CASE ReadChunk(b)
    BY <2>1 DEF ReadChunk, TypeOK
  <2>2. CASE read' = [read EXCEPT ![b] = Empty]
    BY <2>2, EmptyType DEF TypeOK
  <2>3. CASE read' = read
    BY <2>3
  <2>4. ReadChunk(b) \/ read' = [read EXCEPT ![b] = Empty] \/ read' = read
    BY Zenon DEF Step, Submit, DropRow, StageInsert, StageUpdate, Take, Decided, ChunkDone,
                 Commit, Abort, InsertRow, UpdateRow, InsertRefused, Leave
  <2> QED
    BY <2>1, <2>2, <2>3, <2>4
<1>3. Submit(b) \/ batch[b].pc \notin AtRest
  BY DEF Step, ReadChunk, DropRow, StageInsert, StageUpdate, Take, Deciding, Decided, ChunkDone,
         Commit, Abort, InsertRow, UpdateRow, InsertRefused, AtRest
<1> QED
  BY <1>1, <1>2, <1>3 DEF TypeOK

LEMMA CurrentStep ==
    ASSUME Inv, Current, OneAtATime, [Next]_vars
    PROVE  Current'
<1> SUFFICES ASSUME NEW c \in Batches, NEW t \in Times,
                    batch'[c].pc \notin AtRest, read'[c][t] # NoCandle
             PROVE  candle'[t] = read'[c][t]
  BY DEF Current
<1>1. TypeOK /\ Clean(c)
  BY DEF Inv, Local
<1>2. read[c][t] # NoCandle => candle[t] = read[c][t]
  BY <1>1, EmptyType DEF Current, Clean
<1>3. CASE UNCHANGED vars
  BY <1>2, <1>3 DEF vars
<1>4. CASE Next
  <2>1. PICK b \in Batches : Step(b)
    BY <1>4 DEF Next
  <2>2. candle' = candle
    <3> SUFFICES ASSUME NEW d \in Batches, Commit(d) PROVE FALSE
      BY OnlyCommitStores
    <3>1. batch[d].pc = "chunk" /\ Status(d) \in AtRest
      BY CommitTypes DEF Commit
    <3>2. batch'[d] = Resting(Status(d)) /\ \A e \in Batches \ {d} : batch'[e] = batch[e]
      BY <1>1 DEF Commit, Leave, TypeOK
    <3>3. c # d
      BY <3>1, <3>2 DEF Resting
    <3> QED
      BY <3>1, <3>2, <3>3 DEF OneAtATime, AtRest
  <2> QED
    BY <1>1, <1>2, <2>1, <2>2, StepChanges
<1> QED
  BY <1>3, <1>4

\* While requests come one at a time, no chunked write changes a final candle,
\* however many rows and chunks: the writes that do are all of the kind
\* OnlyStaleReadsOverwrite names, and no read goes stale.
THEOREM FinalsStayUnlessOverlap == Spec /\ []OneAtATime => FinalCandlesStay
<1> DEFINE Stays ==
        \A t \in Times : candle[t] # NoCandle /\ candle[t].final => candle'[t] = candle[t]
<1>1. Init => Current
  BY EmptyType DEF Init, Current
<1>2. Inv /\ Current /\ OneAtATime /\ [Next]_vars => Current'
  BY CurrentStep
<1>3. ASSUME Inv, Current, [Next]_vars PROVE Stays
  <2> SUFFICES ASSUME NEW t \in Times, candle[t] # NoCandle, candle[t].final,
                      candle'[t] # candle[t]
               PROVE  FALSE
    OBVIOUS
  <2>1. PICK b \in Batches : Commit(b)
    BY <1>3, OnlyCommitStores
  <2>2. own[b][t] # NoCandle
    BY <1>3, <2>1, CommitTypes
  <2>3. read[b][t] # NoCandle /\ ~read[b][t].final
    BY <1>3, <2>2 DEF Inv, Grounded, IsPartial
  <2>4. batch[b].pc \notin AtRest
    BY <2>1 DEF Commit, AtRest
  <2> QED
    BY <1>3, <2>3, <2>4 DEF Current
<1>4. Inv /\ Current /\ [Next]_vars => [Stays]_vars
  BY <1>3
<1> QED
  BY <1>1, <1>2, <1>4, InvHolds, PTL DEF Spec, FinalCandlesStay
=============================================================================
