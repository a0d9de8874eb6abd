-------------------------- MODULE MarketScansProofs --------------------------
(***************************************************************************)
(* Proofs about MarketScans, for all configs, executors, intervals, batch  *)
(* sizes and bounds.                                                       *)
(*                                                                         *)
(* Tracked ties each executor to the run row it has made visible; with the *)
(* type invariant it gives the action properties.                          *)
(***************************************************************************)
EXTENDS MarketScans, TLAPS

-----------------------------------------------------------------------------
(* Helpers: one executor moves, one row is written.                        *)

LEMMA ExecUpdate ==
    ASSUME exec \in [Executors -> Exec], NEW e \in Executors, NEW new \in Exec,
           exec' = [exec EXCEPT ![e] = new]
    PROVE  /\ exec' \in [Executors -> Exec]
           /\ exec'[e] = new
           /\ \A f \in Executors \ {e} : exec'[f] = exec[f]
OBVIOUS

LEMMA RestTypes ==
    ASSUME NEW e \in Executors
    PROVE  /\ Idle \in Exec
           /\ Rest(e) \in Exec
           /\ Rest(e).pc \in {"idle", "answered"}
           /\ Rest(e).row = 0
           /\ Rest(e).tasks = {}
           /\ Rest(e).current = {}
BY ScansAssumption DEF Rest, Idle, Answered, Exec

LEMMA BatchTypes ==
    ASSUME NEW tasks \in SUBSET Task
    PROVE  /\ Batch(tasks) \in Exec
           /\ Batch(tasks).pc = "next"
           /\ Batch(tasks).row = 0
           /\ Batch(tasks).tasks = tasks
           /\ Batch(tasks).current = {}
<1>1. Batch(tasks) = [pc |-> "next", tasks |-> tasks, current |-> {}, row |-> 0,
                      left |-> 0]
  <2>1. Batch(tasks) = [[pc |-> "idle", tasks |-> {}, current |-> {}, row |-> 0,
                         left |-> 0] EXCEPT !.pc = "next", !.tasks = tasks]
    BY Zenon DEF Batch, Idle
  <2> QED
    BY <2>1
<1>2. [pc |-> "next", tasks |-> tasks, current |-> {}, row |-> 0, left |-> 0] \in Exec
  <2>1. 0 \in 0..Targets /\ {} \in SUBSET Task /\ 0 \in Nat
    BY ScansAssumption
  <2> QED
    BY <2>1 DEF Exec
<1>3. /\ Batch(tasks).pc = "next" /\ Batch(tasks).row = 0
      /\ Batch(tasks).tasks = tasks /\ Batch(tasks).current = {}
  BY <1>1
<1> QED
  BY <1>1, <1>2, <1>3

LEMMA ContinueTypes ==
    ASSUME TypeOK, NEW e \in Executors, Continue(e)
    PROVE  /\ exec' \in [Executors -> Exec]
           /\ exec'[e].pc \in {"idle", "answered", "next"}
           /\ exec'[e].row = 0
           /\ exec'[e].current = {}
           /\ exec'[e].tasks \subseteq exec[e].tasks
           /\ \A f \in Executors \ {e} : exec'[f] = exec[f]
<1> DEFINE new == IF exec[e].tasks = {} THEN Rest(e) ELSE Batch(exec[e].tasks)
<1>1. exec[e].tasks \in SUBSET Task
  BY DEF TypeOK, Exec
<1>2. /\ new \in Exec
      /\ new.pc \in {"idle", "answered", "next"}
      /\ new.row = 0
      /\ new.current = {}
      /\ new.tasks \subseteq exec[e].tasks
  BY <1>1, RestTypes, BatchTypes
<1>3. exec' = [exec EXCEPT ![e] = new]
  BY DEF Continue, TypeOK
<1> HIDE DEF new
<1>4. /\ exec' \in [Executors -> Exec]
      /\ exec'[e] = new
      /\ \A f \in Executors \ {e} : exec'[f] = exec[f]
  BY <1>2, <1>3, ExecUpdate DEF TypeOK
<1> QED
  BY <1>2, <1>4

\* The row executor e has made visible is a running run of its task, and no
\* other executor's.
Tracked ==
    \A e \in Executors : exec[e].row # 0 =>
        /\ exec[e].pc = "scan"
        /\ exec[e].row \in DOMAIN rows
        /\ rows[exec[e].row].status = "running"
        /\ \A t \in exec[e].current :
              /\ rows[exec[e].row].config = t.config
              /\ rows[exec[e].row].occurrence = t.occurrence
        /\ \A f \in Executors : exec[f].row = exec[e].row => f = e

\* The index of the row that executor e writes.
RowOf(e) == IF exec[e].row = 0 THEN Len(rows) + 1 ELSE exec[e].row

LEMMA WrittenRows ==
    ASSUME TypeOK, Tracked, NEW e \in Executors, NEW t \in Task, Scanning(e, t),
           NEW s \in {"running", "skipped", "done"}, rows' = Written(e, t, s)
    PROVE  /\ rows' \in Seq(Row)
           /\ DOMAIN rows' = DOMAIN rows \cup {RowOf(e)}
           /\ rows'[RowOf(e)] = [config |-> t.config, occurrence |-> t.occurrence,
                                 status |-> s]
           /\ \A i \in DOMAIN rows \ {RowOf(e)} : rows'[i] = rows[i]
           /\ RowOf(e) \in Nat \ {0}
           /\ RowOf(e) \in DOMAIN rows =>
                 RowOf(e) = exec[e].row /\ rows[RowOf(e)].status = "running"
<1> DEFINE new == [config |-> t.config, occurrence |-> t.occurrence, status |-> s]
<1>1. new \in Row /\ rows \in Seq(Row) /\ exec[e].row \in Nat
  BY DEF Task, Row, TypeOK, Exec
<1>2. CASE exec[e].row = 0
  <2>1. rows' = Append(rows, new) /\ RowOf(e) = Len(rows) + 1
    BY <1>2 DEF Written, RowOf
  <2> QED
    BY <1>1, <2>1
<1>3. CASE exec[e].row # 0
  <2>1. /\ exec[e].row \in DOMAIN rows
        /\ rows[exec[e].row].status = "running"
        /\ rows[exec[e].row].config = t.config
        /\ rows[exec[e].row].occurrence = t.occurrence
    BY <1>3 DEF Tracked, Scanning
  <2>2. rows[exec[e].row] \in Row
    BY <1>1, <2>1
  <2>3. [rows[exec[e].row] EXCEPT !.status = s] = new
    BY <2>1, <2>2 DEF Row
  <2>4. rows' = [rows EXCEPT ![exec[e].row] = new]
    BY <1>3, <2>3 DEF Written
  <2>5. RowOf(e) = exec[e].row
    BY <1>3 DEF RowOf
  <2> HIDE DEF new
  <2>6. /\ rows' \in Seq(Row)
        /\ DOMAIN rows' = DOMAIN rows
        /\ rows'[exec[e].row] = new
        /\ \A i \in DOMAIN rows \ {exec[e].row} : rows'[i] = rows[i]
    BY <1>1, <2>1, <2>4
  <2>7. new = [config |-> t.config, occurrence |-> t.occurrence, status |-> s]
    BY DEF new
  <2>8. DOMAIN rows = DOMAIN rows \cup {exec[e].row}
    BY <2>1
  <2> QED
    BY <1>1, <1>3, <2>1, <2>5, <2>6, <2>7, <2>8
<1> QED
  BY <1>2, <1>3

-----------------------------------------------------------------------------
(* The steps, as the proofs below need them.                               *)

LEMMA TaskOfExec ==
    ASSUME TypeOK, NEW e \in Executors, NEW t \in exec[e].tasks \cup exec[e].current
    PROVE  t \in Task
BY DEF TypeOK, Exec

LEMMA LoadedType ==
    ASSUME TypeOK, NEW c \in Configs, NEW o \in Times
    PROVE  Loaded(c, o) \in Task
BY DEF Loaded, Task

\* Steps of an executor that leave the committed rows alone.
Quiet == UNCHANGED <<config, rows, edits>>

LEMMA PollTypes ==
    ASSUME TypeOK, NEW p \in Pollers, Poll(p)
    PROVE  /\ exec' \in [Executors -> Exec]
           /\ exec'[p].pc = "next" /\ exec'[p].row = 0 /\ exec'[p].current = {}
           /\ \A t \in exec'[p].tasks : t.active /\ config[t.config].status = "active"
           /\ \A f \in Executors \ {p} : exec'[f] = exec[f]
<1>1. PICK S \in SUBSET Configs :
        /\ DueBatch(S)
        /\ exec' = [exec EXCEPT ![p] =
                      Batch({Loaded(c, config[c].next) : c \in S})]
  BY DEF Poll
<1> DEFINE tasks == {Loaded(c, config[c].next) : c \in S}
<1>2. \A c \in S : config[c].status = "active" /\ config[c].next \in Times
  BY <1>1 DEF DueBatch, Due, TypeOK, Config
<1>3. tasks \in SUBSET Task
  <2>1. SUFFICES ASSUME NEW c \in S PROVE Loaded(c, config[c].next) \in Task
    BY DEF tasks
  <2> QED
    BY <1>2, LoadedType
<1>4. /\ exec' \in [Executors -> Exec]
      /\ exec'[p] = Batch(tasks)
      /\ \A f \in Executors \ {p} : exec'[f] = exec[f]
  BY <1>1, <1>3, BatchTypes, ExecUpdate DEF TypeOK, Executors
<1>5. \A t \in tasks : t.active /\ config[t.config].status = "active"
  <2>1. SUFFICES ASSUME NEW c \in S
                 PROVE  /\ Loaded(c, config[c].next).active
                        /\ config[Loaded(c, config[c].next).config].status = "active"
    BY DEF tasks
  <2>2. Loaded(c, config[c].next).active = (config[c].status = "active")
    BY DEF Loaded
  <2>3. Loaded(c, config[c].next).config = c
    BY DEF Loaded
  <2> QED
    BY <1>2, <2>2, <2>3
<1> HIDE DEF tasks
<1> QED
  BY <1>3, <1>4, <1>5, BatchTypes

LEMMA RequestTypes ==
    ASSUME TypeOK, NEW r \in Requests, NEW c \in Configs, RequestRun(r, c)
    PROVE  /\ exec' \in [Executors -> Exec]
           /\ exec'[r].pc = "next" /\ exec'[r].row = 0 /\ exec'[r].current = {}
           /\ exec'[r].tasks = {Loaded(c, NoTime)}
           /\ \A f \in Executors \ {r} : exec'[f] = exec[f]
<1>1. {Loaded(c, NoTime)} \in SUBSET Task
  BY LoadedType DEF Times
<1>2. /\ exec' \in [Executors -> Exec]
      /\ exec'[r] = Batch({Loaded(c, NoTime)})
      /\ \A f \in Executors \ {r} : exec'[f] = exec[f]
  BY <1>1, BatchTypes, ExecUpdate DEF RequestRun, TypeOK, Executors
<1> QED
  BY <1>1, <1>2, BatchTypes

LEMMA LookTypes ==
    ASSUME TypeOK, NEW e \in Executors, LookForRunning(e), exec[e].row = 0
    PROVE  /\ exec' \in [Executors -> Exec]
           /\ exec'[e].row = 0
           /\ exec'[e].tasks \cup exec'[e].current
                \subseteq exec[e].tasks \cup exec[e].current
           /\ \/ /\ exec'[e].pc = "looked"
                 /\ \A t \in exec'[e].current : ~InProgress(t.config)
              \/ exec'[e].pc \in {"next", "idle", "answered"}
           /\ \/ exec'[e].current \subseteq exec[e].current
              \/ \E t \in exec[e].tasks : exec'[e].current = {t}
           /\ \A f \in Executors \ {e} : exec'[f] = exec[f]
<1>1. PICK t \in exec[e].tasks :
        exec' = [exec EXCEPT ![e] =
          IF ~InProgress(t.config)
          THEN [exec[e] EXCEPT !.pc = "looked", !.tasks = exec[e].tasks \ {t},
                               !.current = {t}]
          ELSE IF exec[e].tasks \ {t} = {} THEN Rest(e)
               ELSE [exec[e] EXCEPT !.tasks = exec[e].tasks \ {t}]]
  BY DEF LookForRunning, TypeOK
<1>2. exec[e] \in Exec /\ exec[e].pc = "next" /\ t \in Task
  BY DEF LookForRunning, TypeOK, Exec
<1> DEFINE looked == [exec[e] EXCEPT !.pc = "looked", !.tasks = exec[e].tasks \ {t},
                                     !.current = {t}]
           left == [exec[e] EXCEPT !.tasks = exec[e].tasks \ {t}]
<1>3. looked \in Exec /\ left \in Exec
  BY <1>2 DEF Exec
<1>4. CASE ~InProgress(t.config)
  <2>1. exec' = [exec EXCEPT ![e] = looked]
    BY <1>1, <1>4
  <2>2. exec' \in [Executors -> Exec] /\ exec'[e] = looked
        /\ \A f \in Executors \ {e} : exec'[f] = exec[f]
    BY <1>3, <2>1, ExecUpdate DEF TypeOK
  <2>3. looked.row = 0 /\ looked.pc = "looked" /\ looked.current = {t}
        /\ looked.tasks \subseteq exec[e].tasks
    BY <1>2 DEF Exec
  <2> QED
    BY <1>1, <1>4, <2>2, <2>3
<1>5. CASE InProgress(t.config) /\ exec[e].tasks \ {t} = {}
  <2>1. exec' = [exec EXCEPT ![e] = Rest(e)]
    BY <1>1, <1>5
  <2>2. exec' \in [Executors -> Exec] /\ exec'[e] = Rest(e)
        /\ \A f \in Executors \ {e} : exec'[f] = exec[f]
    BY <2>1, RestTypes, ExecUpdate DEF TypeOK
  <2> QED
    BY <2>2, RestTypes
<1>6. CASE InProgress(t.config) /\ exec[e].tasks \ {t} # {}
  <2>1. exec' = [exec EXCEPT ![e] = left]
    BY <1>1, <1>6
  <2>2. exec' \in [Executors -> Exec] /\ exec'[e] = left
        /\ \A f \in Executors \ {e} : exec'[f] = exec[f]
    BY <1>3, <2>1, ExecUpdate DEF TypeOK
  <2>3. left.row = 0 /\ left.pc = "next" /\ left.current = exec[e].current
        /\ left.tasks \subseteq exec[e].tasks
    BY <1>2 DEF Exec
  <2> QED
    BY <2>2, <2>3
<1> QED
  BY <1>4, <1>5, <1>6

LEMMA EndTypes ==
    ASSUME TypeOK, NEW e \in Executors, exec' = [exec EXCEPT ![e] = Rest(e)]
    PROVE  /\ exec' \in [Executors -> Exec]
           /\ exec'[e].row = 0 /\ exec'[e].tasks = {} /\ exec'[e].current = {}
           /\ \A f \in Executors \ {e} : exec'[f] = exec[f]
<1>1. exec' \in [Executors -> Exec] /\ exec'[e] = Rest(e)
      /\ \A f \in Executors \ {e} : exec'[f] = exec[f]
  BY RestTypes, ExecUpdate DEF TypeOK
<1> QED
  BY <1>1, RestTypes

LEMMA AdmitTypes ==
    ASSUME TypeOK, NEW e \in Executors, LookForOccurrence(e), exec[e].row = 0
    PROVE  /\ exec' \in [Executors -> Exec]
           /\ exec'[e].row = 0
           /\ exec'[e].tasks \subseteq exec[e].tasks
           /\ \/ exec'[e].current = {}
              \/ /\ exec'[e].pc = "scan"
                 /\ exec'[e].current = exec[e].current
                 /\ \E t \in exec[e].current : ~Recorded(t)
           /\ \A f \in Executors \ {e} : exec'[f] = exec[f]
<1>1. PICK t \in exec[e].current :
        IF Recorded(t) THEN Continue(e)
        ELSE exec' = [exec EXCEPT ![e].pc = "scan", ![e].left = Targets]
  BY DEF LookForOccurrence
<1>2. CASE Recorded(t)
  BY <1>1, <1>2, ContinueTypes
<1>3. CASE ~Recorded(t)
  <2> DEFINE new == [exec[e] EXCEPT !.pc = "scan", !.left = Targets]
  <2>1. exec[e] \in Exec
    BY DEF TypeOK
  <2>2. /\ new \in Exec /\ new.pc = "scan" /\ new.row = 0
        /\ new.current = exec[e].current /\ new.tasks = exec[e].tasks
    <3>1. Targets \in 0..Targets
      BY ScansAssumption
    <3> QED
      BY <2>1, <3>1 DEF Exec
  <2>3. exec' = [exec EXCEPT ![e] = new]
    BY <1>1, <1>3 DEF TypeOK
  <2> HIDE DEF new
  <2>4. exec' \in [Executors -> Exec] /\ exec'[e] = new
        /\ \A f \in Executors \ {e} : exec'[f] = exec[f]
    BY <2>2, <2>3, ExecUpdate DEF TypeOK
  <2> QED
    BY <1>3, <2>2, <2>4
<1> QED
  BY <1>2, <1>3

LEMMA PassTypes ==
    ASSUME TypeOK, NEW e \in Executors, NEW t \in Task, PassTarget(e, t)
    PROVE  /\ exec' \in [Executors -> Exec]
           /\ exec'[e].pc = exec[e].pc /\ exec'[e].row = exec[e].row
           /\ exec'[e].tasks = exec[e].tasks /\ exec'[e].current = exec[e].current
           /\ \A f \in Executors \ {e} : exec'[f] = exec[f]
<1> DEFINE new == [exec[e] EXCEPT !.left = exec[e].left - 1]
<1>1. exec[e] \in Exec /\ exec[e].left > 0
  BY DEF TypeOK, PassTarget
<1>2. exec[e].left - 1 \in 0..Targets
  BY <1>1, ScansAssumption DEF Exec
<1>3. /\ new \in Exec /\ new.pc = exec[e].pc /\ new.row = exec[e].row
      /\ new.current = exec[e].current /\ new.tasks = exec[e].tasks
  BY <1>1, <1>2 DEF Exec
<1>4. exec' = [exec EXCEPT ![e] = new]
  BY DEF TypeOK, PassTarget
<1> HIDE DEF new
<1>5. exec' \in [Executors -> Exec] /\ exec'[e] = new
      /\ \A f \in Executors \ {e} : exec'[f] = exec[f]
  BY <1>3, <1>4, ExecUpdate DEF TypeOK
<1> QED
  BY <1>3, <1>5

LEMMA AnalyseTypes ==
    ASSUME TypeOK, Tracked, NEW e \in Executors, NEW t \in Task, AnalyseTarget(e, t)
    PROVE  /\ exec' \in [Executors -> Exec]
           /\ exec'[e].pc = "scan" /\ exec'[e].row = RowOf(e)
           /\ exec'[e].tasks = exec[e].tasks /\ exec'[e].current = {t}
           /\ \A f \in Executors \ {e} : exec'[f] = exec[f]
<1> DEFINE new == [exec[e] EXCEPT !.left = exec[e].left - 1, !.row = RowOf(e)]
<1>1. /\ exec[e] \in Exec /\ exec[e].left > 0 /\ exec[e].pc = "scan"
      /\ exec[e].current = {t} /\ rows \in Seq(Row)
  BY DEF TypeOK, AnalyseTarget, Scanning
<1>2. exec[e].left - 1 \in 0..Targets /\ RowOf(e) \in Nat
  BY <1>1, ScansAssumption DEF Exec, RowOf
<1>3. /\ new \in Exec /\ new.pc = "scan" /\ new.row = RowOf(e)
      /\ new.current = {t} /\ new.tasks = exec[e].tasks
  BY <1>1, <1>2 DEF Exec
<1>4. exec' = [exec EXCEPT ![e] = new]
  <2>1. exec' = [exec EXCEPT ![e].left = @ - 1,
                             ![e].row = IF @ = 0 THEN Len(rows) + 1 ELSE @]
    BY DEF AnalyseTarget
  <2>2. exec' = [exec EXCEPT ![e] = [exec[e] EXCEPT !.left = exec[e].left - 1,
                   !.row = IF exec[e].row = 0 THEN Len(rows) + 1 ELSE exec[e].row]]
    BY <2>1, Zenon
  <2> QED
    BY <2>2 DEF RowOf
<1> HIDE DEF new
<1>5. exec' \in [Executors -> Exec] /\ exec'[e] = new
      /\ \A f \in Executors \ {e} : exec'[f] = exec[f]
  BY <1>3, <1>4, ExecUpdate DEF TypeOK
<1> QED
  BY <1>3, <1>5

LEMMA AdvanceTypes ==
    ASSUME TypeOK, NEW e \in Executors, NEW t \in Task, NEW s, FinishRun(e, t, s)
    PROVE  /\ config' \in [Configs -> Config]
           /\ \A c \in Configs : config'[c].status = config[c].status
           /\ \A c \in Configs : config'[c].next # config[c].next =>
                 c = t.config /\ t.active
<1>1. t.config \in Configs
  BY DEF Task
<1>2. now + Interval \in Times
  BY ScansAssumption DEF TypeOK, Times
<1> QED
  BY <1>1, <1>2 DEF FinishRun, TypeOK, Config

-----------------------------------------------------------------------------
(* Tracked is kept by a step of one executor.                              *)

LEMMA TrackedUnwritten ==
    ASSUME TypeOK, Tracked, NEW e \in Executors, exec' \in [Executors -> Exec],
           \A f \in Executors \ {e} : exec'[f] = exec[f], rows' = rows,
           \/ exec'[e].row = 0
           \/ /\ exec'[e].pc = exec[e].pc
              /\ exec'[e].row = exec[e].row
              /\ exec'[e].current = exec[e].current
    PROVE  Tracked'
BY DEF Tracked

LEMMA TrackedWritten ==
    ASSUME TypeOK, Tracked, NEW e \in Executors, NEW t \in Task, Scanning(e, t),
           NEW s \in {"running", "skipped", "done"}, rows' = Written(e, t, s),
           exec' \in [Executors -> Exec],
           \A f \in Executors \ {e} : exec'[f] = exec[f],
           \/ exec'[e].row = 0
           \/ /\ exec'[e].row = RowOf(e)
              /\ exec'[e].pc = "scan"
              /\ exec'[e].current = {t}
              /\ s = "running"
    PROVE  Tracked'
<1>1. /\ rows' \in Seq(Row)
      /\ DOMAIN rows' = DOMAIN rows \cup {RowOf(e)}
      /\ rows'[RowOf(e)] = [config |-> t.config, occurrence |-> t.occurrence,
                            status |-> s]
      /\ \A i \in DOMAIN rows \ {RowOf(e)} : rows'[i] = rows[i]
      /\ RowOf(e) \in DOMAIN rows => RowOf(e) = exec[e].row
  BY WrittenRows
<1>2. \A f \in Executors \ {e} : exec[f].row # 0 =>
        exec[f].row \in DOMAIN rows /\ exec[f].row # RowOf(e)
  BY <1>1 DEF Tracked
<1>3. SUFFICES ASSUME NEW f \in Executors, exec'[f].row # 0
               PROVE  /\ exec'[f].pc = "scan"
                      /\ exec'[f].row \in DOMAIN rows'
                      /\ rows'[exec'[f].row].status = "running"
                      /\ \A u \in exec'[f].current :
                            /\ rows'[exec'[f].row].config = u.config
                            /\ rows'[exec'[f].row].occurrence = u.occurrence
                      /\ \A g \in Executors : exec'[g].row = exec'[f].row => g = f
  BY DEF Tracked
<1>4. CASE f = e
  <2>1. exec'[f].row = RowOf(e) /\ exec'[f].pc = "scan" /\ exec'[f].current = {t}
        /\ s = "running"
    BY <1>3, <1>4
  <2>2. \A g \in Executors : exec'[g].row = exec'[f].row => g = f
    BY <1>2, <1>3, <1>4, <2>1
  <2> QED
    BY <1>1, <2>1, <2>2
<1>5. CASE f # e
  <2>1. exec'[f] = exec[f] /\ exec[f].row # 0
    BY <1>3, <1>5
  <2>2. exec[f].row \in DOMAIN rows /\ exec[f].row # RowOf(e)
    BY <1>2, <1>5, <2>1
  <2>3. rows'[exec[f].row] = rows[exec[f].row]
    BY <1>1, <2>2
  <2>4. \A g \in Executors : exec'[g].row = exec'[f].row => g = f
    BY <1>5, <2>1, <2>2 DEF Tracked
  <2> QED
    BY <1>1, <2>1, <2>2, <2>3, <2>4 DEF Tracked
<1> QED
  BY <1>4, <1>5

-----------------------------------------------------------------------------
(* Every step keeps the two invariants.                                    *)

Inv == TypeOK /\ Tracked

LEMMA InitInv == Init => Inv
<1> SUFFICES ASSUME Init PROVE Inv
  OBVIOUS
<1>1. config \in [Configs -> Config]
  BY ScansAssumption DEF Init, Config, Times
<1>2. exec \in [Executors -> Exec] /\ \A e \in Executors : exec[e].row = 0
  BY RestTypes DEF Init, Idle
<1>3. rows \in Seq(Row) /\ now \in Nat /\ edits \in 0..MaxEdits /\ faults \in 0..MaxFaults
  BY ScansAssumption DEF Init
<1> QED
  BY <1>1, <1>2, <1>3 DEF Inv, TypeOK, Tracked

LEMMA OperatorInv ==
    ASSUME Inv, NEW c \in Configs, Operator(c)
    PROVE  Inv' /\ UNCHANGED <<rows, exec>> /\ edits' # edits
<1>1. PICK row : Edit(c, row) /\ row \in Config
  <2>1. config[c] \in Config
    BY DEF Inv, TypeOK
  <2>2. ASSUME NEW s \in {"active", "paused"}
        PROVE  [config[c] EXCEPT !.status = s] \in Config
    BY <2>1 DEF Config
  <2>3. [config[c] EXCEPT !.status = "active",
           !.next = IF config[c].next = NoTime THEN now + Interval
                    ELSE config[c].next] \in Config
    <3>1. (IF config[c].next = NoTime THEN now + Interval ELSE config[c].next) \in Times
      BY <2>1, ScansAssumption DEF Config, Times, Inv, TypeOK
    <3> QED
      BY <2>1, <3>1 DEF Config
  <2>4. ASSUME NEW t \in (0..Horizon) \cup {NoTime}
        PROVE  [config[c] EXCEPT !.next = t] \in Config
    BY <2>1, ScansAssumption DEF Config, Times
  <2> QED
    BY <2>2, <2>3, <2>4 DEF Operator, SetStatus, ResumeConfig, SetNext
<1>2. config' \in [Configs -> Config]
  BY <1>1 DEF Edit, Inv, TypeOK
<1>3. edits' \in 0..MaxEdits /\ edits' # edits
  BY <1>1, ScansAssumption DEF Edit, Inv, TypeOK
<1>4. UNCHANGED <<now, rows, exec, faults>>
  BY <1>1 DEF Edit
<1> QED
  BY <1>2, <1>3, <1>4 DEF Inv, TypeOK, Tracked

LEMMA RunTaskInv ==
    ASSUME Inv, NEW e \in Executors, RunTask(e)
    PROVE  Inv'
<1> USE DEF Inv
<1>1. exec[e].pc # "scan" => exec[e].row = 0
  BY DEF Tracked
<1>2. CASE LookForRunning(e)
  <2>1. exec[e].row = 0 /\ UNCHANGED <<now, config, rows, edits, faults>>
    BY <1>1, <1>2 DEF LookForRunning
  <2> QED
    BY <1>2, <2>1, LookTypes, TrackedUnwritten DEF TypeOK
<1>3. CASE LookForOccurrence(e)
  <2>1. exec[e].row = 0 /\ UNCHANGED <<now, config, rows, edits, faults>>
    BY <1>1, <1>3 DEF LookForOccurrence
  <2> QED
    BY <1>3, <2>1, AdmitTypes, TrackedUnwritten DEF TypeOK
<1>4. ASSUME NEW t \in exec[e].current,
             \/ PassTarget(e, t) \/ AnalyseTarget(e, t)
             \/ SkipRun(e, t) \/ CompleteRun(e, t)
      PROVE  Inv'
  <2>1. t \in Task
    BY TaskOfExec
  <2>2. CASE PassTarget(e, t)
    <3>1. UNCHANGED <<now, config, rows, edits, faults>>
      BY <2>2 DEF PassTarget
    <3> QED
      BY <2>1, <2>2, <3>1, PassTypes, TrackedUnwritten DEF TypeOK
  <2>3. CASE AnalyseTarget(e, t)
    <3>1. /\ rows' = Written(e, t, "running") /\ Scanning(e, t)
          /\ UNCHANGED <<now, config, edits, faults>>
      BY <2>3 DEF AnalyseTarget
    <3>2. rows' \in Seq(Row)
      BY <2>1, <3>1, WrittenRows
    <3>3. Tracked'
      BY <2>1, <2>3, <3>1, AnalyseTypes, TrackedWritten
    <3> QED
      BY <2>1, <2>3, <3>1, <3>2, <3>3, AnalyseTypes DEF TypeOK
  <2>4. ASSUME NEW s \in {"running", "skipped", "done"}, Scanning(e, t), FinishRun(e, t, s)
        PROVE  Inv'
    <3>1. /\ rows' = Written(e, t, s) /\ Continue(e)
          /\ UNCHANGED <<now, edits, faults>>
      BY <2>4 DEF FinishRun
    <3>2. rows' \in Seq(Row)
      BY <2>1, <2>4, <3>1, WrittenRows
    <3>3. Tracked'
      BY <2>1, <2>4, <3>1, ContinueTypes, TrackedWritten
    <3>4. config' \in [Configs -> Config]
      BY <2>1, <2>4, AdvanceTypes
    <3> QED
      BY <3>1, <3>2, <3>3, <3>4, ContinueTypes DEF TypeOK
  <2> QED
    BY <1>4, <2>2, <2>3, <2>4 DEF SkipRun, CompleteRun
<1> QED
  BY <1>2, <1>3, <1>4 DEF RunTask

LEMMA StepInv == Inv /\ [Next]_vars => Inv'
<1> SUFFICES ASSUME Inv, [Next]_vars PROVE Inv'
  OBVIOUS
<1>1. CASE \E c \in Configs : Operator(c)
  BY <1>1, OperatorInv
<1>2. ASSUME NEW p \in Pollers, Poll(p) PROVE Inv'
  <2>1. UNCHANGED <<now, config, rows, edits, faults>> /\ p \in Executors
    BY <1>2 DEF Poll, Executors
  <2> QED
    BY <1>2, <2>1, PollTypes, TrackedUnwritten DEF Inv, TypeOK
<1>3. ASSUME NEW r \in Requests, NEW c \in Configs, RequestRun(r, c) PROVE Inv'
  <2>1. UNCHANGED <<now, config, rows, edits, faults>> /\ r \in Executors
    BY <1>3 DEF RequestRun, Executors
  <2> QED
    BY <1>3, <2>1, RequestTypes, TrackedUnwritten DEF Inv, TypeOK
<1>4. CASE \E e \in Executors : RunTask(e)
  BY <1>4, RunTaskInv
<1>5. ASSUME NEW e \in Executors, Escape(e) PROVE Inv'
  <2>1. UNCHANGED <<now, config, rows, edits>>
        /\ exec' = [exec EXCEPT ![e] = Rest(e)] /\ faults' \in 0..MaxFaults
    BY <1>5, ScansAssumption DEF Escape, Inv, TypeOK
  <2> QED
    BY <2>1, EndTypes, TrackedUnwritten DEF Inv, TypeOK
<1>6. CASE Tick
  BY <1>6 DEF Tick, Inv, TypeOK, Tracked
<1>7. CASE UNCHANGED vars
  BY <1>7 DEF vars, Inv, TypeOK, Tracked
<1> QED
  BY <1>1, <1>2, <1>3, <1>4, <1>5, <1>6, <1>7 DEF Next

(* The variables keep their types, and an executor past its first commit   *)
(* owns the running row it made visible.                                   *)
THEOREM InvHolds == Spec => []Inv
<1>1. Init => Inv
  BY InitInv
<1>2. Inv /\ [Next]_vars => Inv'
  BY StepInv
<1> QED
  BY <1>1, <1>2, PTL DEF Spec

(* Every reachable state is of the right types. *)
THEOREM TypesHold == Spec => []TypeOK
<1>1. Inv => TypeOK
  BY DEF Inv
<1> QED
  BY <1>1, InvHolds, PTL

-----------------------------------------------------------------------------
(* What a step can be, for the action properties.                          *)

\* Executor e moves without writing: it gets no row, passes the look only if
\* no run is in progress, and takes up only configs it finds active as such.
QuietMove(e) ==
    /\ exec'[e].row \in {0, exec[e].row}
    /\ \A c \in Configs : PastLook(e, c)' => /\ exec'[e].row = exec[e].row
                                             /\ PastLook(e, c) \/ ~InProgress(c)
    /\ \A u \in exec'[e].tasks \cup exec'[e].current :
          \/ u \in exec[e].tasks \cup exec[e].current
          \/ u.active => config[u.config].status = "active"

QuietStep ==
    /\ UNCHANGED <<config, rows, edits>>
    /\ \A e \in Executors : QuietMove(e)

FinishStep(e, t) ==
    \E s \in {"skipped", "done"} :
        Scanning(e, t) /\ FinishRun(e, t, s) /\ (s = "done" => t.active)

LEMMA UnmovedIsQuiet ==
    ASSUME TypeOK, NEW e \in Executors, exec'[e] = exec[e]
    PROVE  QuietMove(e)
BY DEF QuietMove, PastLook

LEMMA QuietTask ==
    ASSUME Inv, NEW e \in Executors,
           \/ LookForRunning(e)
           \/ LookForOccurrence(e)
           \/ \E t \in exec[e].current : PassTarget(e, t)
    PROVE  QuietStep
<1> USE DEF Inv
<1>1. exec[e].pc # "scan" => exec[e].row = 0
  BY DEF Tracked
<1>2. SUFFICES QuietMove(e) /\ \A f \in Executors \ {e} : exec'[f] = exec[f]
  <2>1. UNCHANGED <<config, rows, edits>>
    BY DEF LookForRunning, LookForOccurrence, PassTarget
  <2> QED
    BY <1>2, <2>1, UnmovedIsQuiet DEF QuietStep
<1>3. CASE LookForRunning(e)
  <2>1. exec[e].row = 0
    BY <1>1, <1>3 DEF LookForRunning
  <2> QED
    BY <1>3, <2>1, LookTypes DEF QuietMove, PastLook
<1>4. CASE LookForOccurrence(e)
  <2>1. exec[e].row = 0 /\ exec[e].pc = "looked"
    BY <1>1, <1>4 DEF LookForOccurrence
  <2> QED
    BY <1>4, <2>1, AdmitTypes DEF QuietMove, PastLook
<1>5. CASE \E t \in exec[e].current : PassTarget(e, t)
  <2>1. PICK t \in exec[e].current : PassTarget(e, t)
    BY <1>5
  <2>2. t \in Task
    BY TaskOfExec
  <2> QED
    BY <2>1, <2>2, PassTypes DEF QuietMove, PastLook
<1> QED
  BY <1>3, <1>4, <1>5

LEMMA StepKinds ==
    ASSUME Inv, [Next]_vars
    PROVE  \/ edits' # edits /\ UNCHANGED <<rows, exec>>
           \/ QuietStep
           \/ \E e \in Executors : \E t \in exec[e].current : AnalyseTarget(e, t)
           \/ \E e \in Executors : \E t \in exec[e].current : FinishStep(e, t)
<1>1. CASE \E c \in Configs : Operator(c)
  BY <1>1, OperatorInv
<1>2. ASSUME NEW p \in Pollers, Poll(p) PROVE QuietStep
  <2>1. UNCHANGED <<config, rows, edits>> /\ p \in Executors
    BY <1>2 DEF Poll, Executors
  <2>2. QuietMove(p)
    BY <1>2, PollTypes DEF QuietMove, PastLook, Inv
  <2> QED
    BY <1>2, <2>1, <2>2, PollTypes, UnmovedIsQuiet DEF QuietStep, Inv
<1>3. ASSUME NEW r \in Requests, NEW c \in Configs, RequestRun(r, c) PROVE QuietStep
  <2>1. UNCHANGED <<config, rows, edits>> /\ r \in Executors
    BY <1>3 DEF RequestRun, Executors
  <2>2. Loaded(c, NoTime).active => config[Loaded(c, NoTime).config].status = "active"
    BY DEF Loaded
  <2>3. QuietMove(r)
    BY <1>3, <2>2, RequestTypes DEF QuietMove, PastLook, Inv
  <2> QED
    BY <1>3, <2>1, <2>3, RequestTypes, UnmovedIsQuiet DEF QuietStep, Inv
<1>4. ASSUME NEW e \in Executors, RunTask(e)
      PROVE  \/ QuietStep
             \/ \E t \in exec[e].current : AnalyseTarget(e, t) \/ FinishStep(e, t)
  <2>1. CASE LookForRunning(e) \/ LookForOccurrence(e)
             \/ \E t \in exec[e].current : PassTarget(e, t)
    BY <2>1, QuietTask
  <2>2. ASSUME NEW t \in exec[e].current,
               AnalyseTarget(e, t) \/ SkipRun(e, t) \/ CompleteRun(e, t)
        PROVE  AnalyseTarget(e, t) \/ FinishStep(e, t)
    BY <2>2 DEF SkipRun, CompleteRun, FinishStep
  <2> QED
    BY <1>4, <2>1, <2>2 DEF RunTask
<1>5. ASSUME NEW e \in Executors, Escape(e) PROVE QuietStep
  <2>1. UNCHANGED <<config, rows, edits>> /\ exec' = [exec EXCEPT ![e] = Rest(e)]
    BY <1>5 DEF Escape
  <2>2. QuietMove(e)
    BY <2>1, EndTypes DEF QuietMove, PastLook, Inv
  <2> QED
    BY <2>1, <2>2, EndTypes, UnmovedIsQuiet DEF QuietStep, Inv
<1>6. CASE Tick \/ UNCHANGED vars
  BY <1>6, UnmovedIsQuiet DEF Tick, vars, QuietStep, Inv
<1> QED
  BY <1>1, <1>2, <1>3, <1>4, <1>5, <1>6 DEF Next

-----------------------------------------------------------------------------
(* The schedule moves with a recorded run.                                 *)

LEMMA AdvanceStep ==
    ASSUME Inv, [Next]_vars, NEW c \in Configs,
           config'[c].next # config[c].next, edits' = edits
    PROVE  \E i \in DOMAIN rows' :
              /\ rows'[i].config = c
              /\ rows'[i].status # "running"
              /\ i \in DOMAIN rows => rows[i].status = "running"
<1>0. PICK e \in Executors : \E t \in exec[e].current : FinishStep(e, t)
  BY StepKinds DEF QuietStep, AnalyseTarget
<1>1. PICK t \in exec[e].current : FinishStep(e, t)
  BY <1>0
<1>2. PICK s \in {"skipped", "done"} : Scanning(e, t) /\ FinishRun(e, t, s)
  BY <1>1 DEF FinishStep
<1>3. t \in Task
  BY TaskOfExec DEF Inv
<1>4. c = t.config
  BY <1>2, <1>3, AdvanceTypes DEF Inv
<1>5. rows' = Written(e, t, s)
  BY <1>2 DEF FinishRun
<1>6. /\ RowOf(e) \in DOMAIN rows'
      /\ rows'[RowOf(e)] = [config |-> t.config, occurrence |-> t.occurrence,
                            status |-> s]
      /\ RowOf(e) \in DOMAIN rows => rows[RowOf(e)].status = "running"
  BY <1>2, <1>3, <1>5, WrittenRows DEF Inv
<1> QED
  BY <1>4, <1>6

(* No crash or rollback uses up an occurrence without a finished run on    *)
(* record: next_run_at moves in the transaction that finishes one.         *)
THEOREM AdvanceRecorded == Spec => AdvanceIsRecorded
<1>1. Inv /\ [Next]_vars =>
        \A c \in Configs :
          config'[c].next # config[c].next
             => \/ edits' # edits
                \/ \E i \in DOMAIN rows' :
                      /\ rows'[i].config = c
                      /\ rows'[i].status # "running"
                      /\ i \in DOMAIN rows => rows[i].status = "running"
  BY AdvanceStep
<1> QED
  BY <1>1, InvHolds, PTL DEF Spec, AdvanceIsRecorded

-----------------------------------------------------------------------------
(* An abandoned run seals its config.                                      *)

LEMMA SealedStep ==
    ASSUME Inv, [Next]_vars, NEW c \in Configs, Sealed(c)
    PROVE  /\ Sealed(c)'
           /\ \A i \in DOMAIN rows' : rows'[i].config = c => i \in DOMAIN rows
           /\ config'[c].next # config[c].next => edits' # edits
<1>1. PICK i \in DOMAIN rows :
        /\ rows[i].config = c
        /\ rows[i].status = "running"
        /\ \A e \in Executors : exec[e].row # i
  BY DEF Sealed, Frozen, Abandoned
<1>2. InProgress(c)
  BY <1>1 DEF InProgress
<1>3. i \in Nat \ {0} /\ i # Len(rows) + 1
  BY <1>1 DEF Inv, TypeOK
<1>4. SUFFICES /\ i \in DOMAIN rows' /\ rows'[i] = rows[i]
               /\ \A e \in Executors : exec'[e].row # i
               /\ \A e \in Executors : ~PastLook(e, c)'
               /\ \A k \in DOMAIN rows' : rows'[k].config = c => k \in DOMAIN rows
               /\ config'[c].next # config[c].next => edits' # edits
  BY <1>1 DEF Sealed, Frozen, Abandoned
<1>5. CASE edits' # edits /\ UNCHANGED <<rows, exec>>
  BY <1>1, <1>5 DEF Sealed, PastLook
<1>6. CASE QuietStep
  BY <1>1, <1>2, <1>3, <1>6 DEF QuietStep, QuietMove, Sealed
<1>7. ASSUME NEW e \in Executors, NEW t \in exec[e].current, Scanning(e, t),
             NEW s \in {"running", "skipped", "done"}, rows' = Written(e, t, s),
             exec'[e].row \in {0, RowOf(e)},
             \A f \in Executors \ {e} : exec'[f] = exec[f],
             exec'[e].current \subseteq {t},
             config'[c].next # config[c].next => c = t.config
      PROVE  /\ i \in DOMAIN rows' /\ rows'[i] = rows[i]
             /\ \A f \in Executors : exec'[f].row # i
             /\ \A f \in Executors : ~PastLook(f, c)'
             /\ \A k \in DOMAIN rows' : rows'[k].config = c => k \in DOMAIN rows
             /\ config'[c].next # config[c].next => edits' # edits
  <2>1. t \in Task /\ t.config # c
    BY <1>7, TaskOfExec DEF Inv, Sealed, PastLook, Scanning
  <2>2. RowOf(e) # i
    BY <1>1, <1>3 DEF RowOf
  <2>3. /\ DOMAIN rows' = DOMAIN rows \cup {RowOf(e)}
        /\ rows'[RowOf(e)].config = t.config
        /\ \A k \in DOMAIN rows \ {RowOf(e)} : rows'[k] = rows[k]
    <3>1. /\ DOMAIN rows' = DOMAIN rows \cup {RowOf(e)}
          /\ rows'[RowOf(e)] = [config |-> t.config, occurrence |-> t.occurrence,
                                status |-> s]
          /\ \A k \in DOMAIN rows \ {RowOf(e)} : rows'[k] = rows[k]
      BY <1>7, <2>1, WrittenRows DEF Inv
    <3> QED
      BY <3>1
  <2>4. \A f \in Executors : ~PastLook(f, c)'
    BY <1>7, <2>1 DEF Sealed, PastLook
  <2>5. i \in DOMAIN rows' /\ rows'[i] = rows[i]
    BY <1>1, <2>2, <2>3
  <2>6. \A f \in Executors : exec'[f].row # i
    BY <1>1, <1>3, <1>7, <2>2
  <2>7. \A k \in DOMAIN rows' : rows'[k].config = c => k \in DOMAIN rows
    BY <2>1, <2>3
  <2> QED
    BY <1>7, <2>1, <2>4, <2>5, <2>6, <2>7
<1>8. ASSUME NEW e \in Executors, NEW t \in exec[e].current, AnalyseTarget(e, t)
      PROVE  /\ Scanning(e, t) /\ rows' = Written(e, t, "running") /\ config' = config
             /\ exec'[e].row = RowOf(e) /\ exec'[e].current = {t}
             /\ \A f \in Executors \ {e} : exec'[f] = exec[f]
  <2>1. t \in Task
    BY TaskOfExec DEF Inv
  <2> QED
    BY <1>8, <2>1, AnalyseTypes DEF AnalyseTarget, Inv
<1>9. ASSUME NEW e \in Executors, NEW t \in exec[e].current,
             NEW s \in {"skipped", "done"}, FinishRun(e, t, s)
      PROVE  /\ rows' = Written(e, t, s) /\ exec'[e].row = 0 /\ exec'[e].current = {}
             /\ \A f \in Executors \ {e} : exec'[f] = exec[f]
             /\ config'[c].next # config[c].next => c = t.config
  <2>1. t \in Task
    BY TaskOfExec DEF Inv
  <2>2. Continue(e)
    BY <1>9 DEF FinishRun
  <2> QED
    BY <1>9, <2>1, <2>2, ContinueTypes, AdvanceTypes DEF FinishRun, Inv
<1>10. CASE \E e \in Executors : \E t \in exec[e].current : AnalyseTarget(e, t)
  BY <1>7, <1>8, <1>10
<1>11. CASE \E e \in Executors : \E t \in exec[e].current : FinishStep(e, t)
  BY <1>7, <1>9, <1>11 DEF FinishStep
<1> QED
  BY <1>5, <1>6, <1>10, <1>11, StepKinds

(* A config whose run was abandoned is never scanned again, by schedule or *)
(* by force, and only an operator moves its schedule.                      *)
THEOREM AbandonedSeals == Spec => SealedStaysSealed
<1>1. Inv /\ [Next]_vars =>
        \A c \in Configs : Sealed(c) =>
          /\ Sealed(c)'
          /\ \A i \in DOMAIN rows' : rows'[i].config = c => i \in DOMAIN rows
          /\ config'[c].next # config[c].next => edits' # edits
  BY SealedStep
<1> QED
  BY <1>1, InvHolds, PTL DEF Spec, SealedStaysSealed

-----------------------------------------------------------------------------
(* A pause holds.                                                          *)

LEMMA RestingStep ==
    ASSUME Inv, [Next]_vars, NEW c \in Configs, Resting(c), edits' = edits
    PROVE  /\ Resting(c)'
           /\ config'[c].next = config[c].next
           /\ \A i \in DOMAIN rows' \ DOMAIN rows :
                 rows'[i].config = c => rows'[i].status = "skipped"
<1>1. CASE QuietStep
  BY <1>1 DEF QuietStep, QuietMove, Resting
<1>2. ASSUME NEW e \in Executors, NEW t \in exec[e].current, AnalyseTarget(e, t)
      PROVE  /\ Resting(c)'
             /\ config' = config
             /\ \A i \in DOMAIN rows' \ DOMAIN rows :
                   rows'[i].config = c => rows'[i].status = "skipped"
  <2>1. t \in Task /\ t.active /\ t.config # c /\ Scanning(e, t)
    BY <1>2, TaskOfExec DEF AnalyseTarget, Resting, Inv
  <2>2. /\ exec'[e].tasks = exec[e].tasks /\ exec'[e].current = exec[e].current
        /\ \A f \in Executors \ {e} : exec'[f] = exec[f]
    BY <1>2, <2>1, AnalyseTypes DEF Inv, Scanning
  <2>3. config' = config /\ rows' = Written(e, t, "running")
    BY <1>2 DEF AnalyseTarget
  <2>4. Resting(c)'
    BY <2>2, <2>3 DEF Resting
  <2>5. \A i \in DOMAIN rows' \ DOMAIN rows : rows'[i].config # c
    <3>1. /\ DOMAIN rows' = DOMAIN rows \cup {RowOf(e)}
          /\ rows'[RowOf(e)] = [config |-> t.config, occurrence |-> t.occurrence,
                                status |-> "running"]
      BY <2>1, <2>3, WrittenRows DEF Inv
    <3> QED
      BY <2>1, <3>1
  <2> QED
    BY <2>3, <2>4, <2>5
<1>3. ASSUME NEW e \in Executors, NEW t \in exec[e].current, FinishStep(e, t)
      PROVE  /\ Resting(c)'
             /\ config'[c].next = config[c].next
             /\ \A i \in DOMAIN rows' \ DOMAIN rows :
                   rows'[i].config = c => rows'[i].status = "skipped"
  <2>1. PICK s \in {"skipped", "done"} :
          Scanning(e, t) /\ FinishRun(e, t, s) /\ (s = "done" => t.active)
    BY <1>3 DEF FinishStep
  <2>2. t \in Task /\ (t.config = c => ~t.active)
    BY TaskOfExec DEF Resting, Inv
  <2>3. Continue(e) /\ rows' = Written(e, t, s)
    BY <2>1 DEF FinishRun
  <2>4. config'[c].next = config[c].next /\ config'[c].status = config[c].status
    BY <2>1, <2>2, AdvanceTypes DEF Inv
  <2>5. Resting(c)'
    BY <2>3, <2>4, ContinueTypes DEF Resting, Inv
  <2>6. /\ DOMAIN rows' = DOMAIN rows \cup {RowOf(e)}
        /\ rows'[RowOf(e)] = [config |-> t.config, occurrence |-> t.occurrence,
                              status |-> s]
    BY <2>1, <2>2, <2>3, WrittenRows DEF Inv
  <2>7. rows'[RowOf(e)].config = c => rows'[RowOf(e)].status = "skipped"
    BY <2>1, <2>2, <2>6
  <2> QED
    BY <2>4, <2>5, <2>6, <2>7
<1> QED
  BY <1>1, <1>2, <1>3, StepKinds

(* Once nobody holds a paused config as active, it is neither analysed nor *)
(* rescheduled until an operator acts.                                     *)
THEOREM PauseIsKept == Spec => PauseHolds
<1>1. Inv /\ [Next]_vars =>
        \A c \in Configs : Resting(c) /\ edits' = edits =>
          /\ Resting(c)'
          /\ config'[c].next = config[c].next
          /\ \A i \in DOMAIN rows' \ DOMAIN rows :
                rows'[i].config = c => rows'[i].status = "skipped"
  BY RestingStep
<1> QED
  BY <1>1, InvHolds, PTL DEF Spec, PauseHolds

-----------------------------------------------------------------------------
(* Of pollers that keep apart, one scans an occurrence.                    *)

\* Only pollers hold scheduled occurrences; an executor is at one task; a
\* poller that has no row yet is at an occurrence that has none either.
Scheduled ==
    /\ OneRunPerOccurrence
    /\ \A e \in Executors : \A t \in exec[e].tasks \cup exec[e].current :
          t.occurrence # NoTime => e \in Pollers
    /\ \A e \in Executors : \A t, u \in exec[e].current : t = u
    /\ \A e \in Executors : exec[e].pc = "scan" /\ exec[e].row = 0 =>
          \A t \in exec[e].current : ~Recorded(t)

LEMMA ScheduledUnwritten ==
    ASSUME Inv, Scheduled, NEW e \in Executors, rows' = rows,
           \A f \in Executors \ {e} : exec'[f] = exec[f],
           \A t \in exec'[e].tasks \cup exec'[e].current :
              t.occurrence # NoTime => e \in Pollers,
           \A t, u \in exec'[e].current : t = u,
           exec'[e].pc = "scan" /\ exec'[e].row = 0 =>
              \A t \in exec'[e].current : ~Recorded(t)
    PROVE  Scheduled'
<1>1. OneRunPerOccurrence'
  BY DEF Scheduled, OneRunPerOccurrence
<1>2. \A f \in Executors : \A t \in exec'[f].tasks \cup exec'[f].current :
        t.occurrence # NoTime => f \in Pollers
  BY DEF Scheduled
<1>3. \A f \in Executors : \A t, u \in exec'[f].current : t = u
  BY DEF Scheduled
<1>4. \A t : Recorded(t)' <=> Recorded(t)
  BY DEF Recorded
<1>5. \A f \in Executors : exec'[f].pc = "scan" /\ exec'[f].row = 0 =>
        \A t \in exec'[f].current : ~Recorded(t)
  BY DEF Scheduled
<1> QED
  BY <1>1, <1>2, <1>3, <1>4, <1>5 DEF Scheduled

LEMMA ScheduledWritten ==
    ASSUME PollersApart,
           Inv, Scheduled, NEW e \in Executors, NEW t \in exec[e].current, Scanning(e, t),
           NEW s \in {"running", "skipped", "done"}, rows' = Written(e, t, s),
           \A f \in Executors \ {e} : exec'[f] = exec[f],
           exec'[e].tasks \subseteq exec[e].tasks, exec'[e].current \subseteq {t},
           exec'[e].row # 0 \/ exec'[e].current = {}
    PROVE  Scheduled'
<1>1. t \in Task
  BY TaskOfExec DEF Inv
<1>2. /\ DOMAIN rows' = DOMAIN rows \cup {RowOf(e)}
      /\ rows'[RowOf(e)] = [config |-> t.config, occurrence |-> t.occurrence,
                            status |-> s]
      /\ \A i \in DOMAIN rows \ {RowOf(e)} : rows'[i] = rows[i]
      /\ RowOf(e) \in DOMAIN rows => RowOf(e) = exec[e].row
      /\ RowOf(e) \in Nat \ {0}
  BY <1>1, WrittenRows DEF Inv
<1>3. t.occurrence # NoTime => e \in Pollers
  BY DEF Scheduled
<1> DEFINE Same(i) == /\ rows'[i].config = rows[i].config
                      /\ rows'[i].occurrence = rows[i].occurrence
<1>4. \A i \in DOMAIN rows : Same(i)
  <2>1. SUFFICES ASSUME NEW i \in DOMAIN rows PROVE Same(i)
    OBVIOUS
  <2>2. CASE i # RowOf(e)
    BY <1>2, <2>2
  <2>3. CASE i = RowOf(e)
    <3>1. i = exec[e].row /\ exec[e].row # 0
      BY <1>2, <2>3
    <3>2. rows[i].config = t.config /\ rows[i].occurrence = t.occurrence
      BY <3>1 DEF Inv, Tracked
    <3> QED
      BY <1>2, <2>3, <3>2
  <2> QED
    BY <2>2, <2>3
<1>5. RowOf(e) \notin DOMAIN rows => ~Recorded(t)
  <2>1. RowOf(e) \notin DOMAIN rows => exec[e].row = 0
    BY DEF RowOf, Inv, Tracked
  <2> QED
    BY <2>1 DEF Scheduled, Scanning
<1>6. OneRunPerOccurrence'
  <2>1. SUFFICES ASSUME NEW i \in DOMAIN rows', NEW j \in DOMAIN rows',
                        rows'[i].occurrence # NoTime,
                        rows'[i].config = rows'[j].config,
                        rows'[i].occurrence = rows'[j].occurrence
                 PROVE  i = j
    BY DEF OneRunPerOccurrence
  <2>2. CASE i \in DOMAIN rows /\ j \in DOMAIN rows
    BY <1>4, <2>1, <2>2 DEF Scheduled, OneRunPerOccurrence
  <2>3. CASE i \notin DOMAIN rows /\ j \in DOMAIN rows
    <3>1. i = RowOf(e) /\ ~Recorded(t)
      BY <1>2, <1>5, <2>3
    <3>2. rows'[i].config = t.config /\ rows'[i].occurrence = t.occurrence
      BY <1>2, <3>1
    <3> QED
      BY <1>4, <2>1, <2>3, <3>1, <3>2 DEF Recorded
  <2>4. CASE i \in DOMAIN rows /\ j \notin DOMAIN rows
    <3>1. j = RowOf(e) /\ ~Recorded(t)
      BY <1>2, <1>5, <2>4
    <3>2. rows'[j].config = t.config /\ rows'[j].occurrence = t.occurrence
      BY <1>2, <3>1
    <3> QED
      BY <1>4, <2>1, <2>4, <3>1, <3>2 DEF Recorded
  <2>5. CASE i \notin DOMAIN rows /\ j \notin DOMAIN rows
    BY <1>2, <2>5
  <2> QED
    BY <2>2, <2>3, <2>4, <2>5
<1>7. \A f \in Executors : \A u \in exec'[f].tasks \cup exec'[f].current :
        u.occurrence # NoTime => f \in Pollers
  BY <1>3 DEF Scheduled
<1>8. \A f \in Executors : \A u, v \in exec'[f].current : u = v
  BY DEF Scheduled
<1>9. ASSUME NEW f \in Executors, exec'[f].pc = "scan", exec'[f].row = 0,
             NEW u \in exec'[f].current
      PROVE  ~Recorded(u)'
  <2>1. f # e /\ exec'[f] = exec[f]
    BY <1>9
  <2>2. ~Recorded(u)
    BY <1>9, <2>1 DEF Scheduled
  <2>3. CASE u.occurrence = NoTime
    BY <2>3 DEF Recorded
  <2>4. CASE u.occurrence # NoTime
    <3>1. f \in Pollers /\ u \in exec[f].current /\ exec[f].pc = "scan"
      BY <1>9, <2>1, <2>4 DEF Scheduled
    <3>2. t.config \in Configs /\ PastLook(e, t.config) /\ PastLook(f, u.config)
      BY <1>1, <3>1 DEF Task, PastLook, Scanning
    <3>3. t.occurrence = NoTime \/ t.config # u.config
      BY <1>3, <2>1, <3>1, <3>2 DEF PollersApart
    <3> QED
      BY <1>2, <1>4, <2>2, <2>4, <3>3 DEF Recorded
  <2> QED
    BY <2>3, <2>4
<1> QED
  BY <1>6, <1>7, <1>8, <1>9 DEF Scheduled

LEMMA InitScheduled == Init => Scheduled
<1> SUFFICES ASSUME Init PROVE Scheduled
  OBVIOUS
<1>1. \A e \in Executors : exec[e].tasks = {} /\ exec[e].current = {}
  BY RestTypes DEF Init, Idle
<1>2. DOMAIN rows = {}
  BY DEF Init
<1> QED
  BY <1>1, <1>2 DEF Scheduled, OneRunPerOccurrence

LEMMA ScheduledTask ==
    ASSUME PollersApart, Inv, Scheduled, NEW e \in Executors, RunTask(e)
    PROVE  Scheduled'
<1> USE DEF Inv
<1>1. exec[e].pc # "scan" => exec[e].row = 0
  BY DEF Tracked
<1>2. /\ \A t \in exec[e].tasks \cup exec[e].current : t.occurrence # NoTime => e \in Pollers
      /\ \A t, u \in exec[e].current : t = u
  BY DEF Scheduled
<1>3. CASE LookForRunning(e)
  <2>1. exec[e].row = 0 /\ rows' = rows
    BY <1>1, <1>3 DEF LookForRunning
  <2>2. /\ exec'[e].tasks \cup exec'[e].current \subseteq exec[e].tasks \cup exec[e].current
        /\ exec'[e].pc # "scan"
        /\ \A t, u \in exec'[e].current : t = u
        /\ \A f \in Executors \ {e} : exec'[f] = exec[f]
    BY <1>2, <1>3, <2>1, LookTypes
  <2> QED
    BY <1>2, <2>1, <2>2, ScheduledUnwritten
<1>4. CASE LookForOccurrence(e)
  <2>1. exec[e].row = 0 /\ rows' = rows
    BY <1>1, <1>4 DEF LookForOccurrence
  <2>2. /\ exec'[e].tasks \cup exec'[e].current \subseteq exec[e].tasks \cup exec[e].current
        /\ \A t, u \in exec'[e].current : t = u
        /\ \A t \in exec'[e].current : ~Recorded(t)
        /\ \A f \in Executors \ {e} : exec'[f] = exec[f]
    BY <1>2, <1>4, <2>1, AdmitTypes
  <2> QED
    BY <1>2, <2>1, <2>2, ScheduledUnwritten
<1>5. ASSUME NEW t \in exec[e].current, PassTarget(e, t)
      PROVE  Scheduled'
  <2>1. t \in Task /\ rows' = rows
    BY <1>5, TaskOfExec DEF PassTarget
  <2>2. /\ exec'[e].pc = exec[e].pc /\ exec'[e].row = exec[e].row
        /\ exec'[e].tasks = exec[e].tasks /\ exec'[e].current = exec[e].current
        /\ \A f \in Executors \ {e} : exec'[f] = exec[f]
    BY <1>5, <2>1, PassTypes
  <2>3. exec[e].pc = "scan" /\ exec[e].row = 0 => \A u \in exec[e].current : ~Recorded(u)
    BY DEF Scheduled
  <2> QED
    BY <1>2, <2>1, <2>2, <2>3, ScheduledUnwritten
<1>6. ASSUME NEW t \in exec[e].current, AnalyseTarget(e, t)
      PROVE  Scheduled'
  <2>1. t \in Task /\ rows' = Written(e, t, "running") /\ Scanning(e, t)
    BY <1>6, TaskOfExec DEF AnalyseTarget
  <2>2. /\ exec'[e].row = RowOf(e)
        /\ exec'[e].tasks = exec[e].tasks /\ exec'[e].current = {t}
        /\ \A f \in Executors \ {e} : exec'[f] = exec[f]
    BY <1>6, <2>1, AnalyseTypes
  <2>3. RowOf(e) # 0
    BY <2>1, WrittenRows
  <2> QED
    BY <2>1, <2>2, <2>3, ScheduledWritten
<1>7. ASSUME NEW t \in exec[e].current, SkipRun(e, t) \/ CompleteRun(e, t)
      PROVE  Scheduled'
  <2>1. PICK s \in {"running", "skipped", "done"} : FinishRun(e, t, s) /\ Scanning(e, t)
    BY <1>7 DEF SkipRun, CompleteRun
  <2>2. rows' = Written(e, t, s) /\ Continue(e)
    BY <2>1 DEF FinishRun
  <2>3. /\ exec'[e].current = {} /\ exec'[e].tasks \subseteq exec[e].tasks
        /\ \A f \in Executors \ {e} : exec'[f] = exec[f]
    BY <2>2, ContinueTypes
  <2> QED
    BY <2>1, <2>2, <2>3, ScheduledWritten
<1> QED
  BY <1>3, <1>4, <1>5, <1>6, <1>7 DEF RunTask

LEMMA ScheduledStep ==
    ASSUME PollersApart, Inv, Scheduled, [Next]_vars
    PROVE  Scheduled'
<1>1. CASE \E c \in Configs : Operator(c)
  <2>1. UNCHANGED <<rows, exec>>
    BY <1>1, OperatorInv
  <2> QED
    BY <2>1 DEF Scheduled, OneRunPerOccurrence, Recorded
<1>2. ASSUME NEW p \in Pollers, Poll(p) PROVE Scheduled'
  <2>1. rows' = rows /\ p \in Executors
    BY <1>2 DEF Poll, Executors
  <2> QED
    BY <1>2, <2>1, PollTypes, ScheduledUnwritten DEF Inv
<1>3. ASSUME NEW r \in Requests, NEW c \in Configs, RequestRun(r, c) PROVE Scheduled'
  <2>1. rows' = rows /\ r \in Executors
    BY <1>3 DEF RequestRun, Executors
  <2>2. Loaded(c, NoTime).occurrence = NoTime
    BY DEF Loaded
  <2>3. /\ exec'[r].tasks = {Loaded(c, NoTime)} /\ exec'[r].current = {}
        /\ \A f \in Executors \ {r} : exec'[f] = exec[f]
    BY <1>3, RequestTypes, <2>1 DEF Inv
  <2>4. \A t \in exec'[r].tasks \cup exec'[r].current : t.occurrence = NoTime
    BY <2>2, <2>3
  <2> QED
    BY <2>1, <2>3, <2>4, ScheduledUnwritten
<1>4. CASE \E e \in Executors : RunTask(e)
  BY <1>4, ScheduledTask
<1>5. ASSUME NEW e \in Executors, Escape(e) PROVE Scheduled'
  <2>1. rows' = rows /\ exec' = [exec EXCEPT ![e] = Rest(e)]
    BY <1>5 DEF Escape
  <2> QED
    BY <2>1, EndTypes, ScheduledUnwritten DEF Inv
<1>6. CASE Tick \/ UNCHANGED vars
  <2>1. UNCHANGED <<rows, exec>>
    BY <1>6 DEF Tick, vars
  <2> QED
    BY <2>1 DEF Scheduled, OneRunPerOccurrence, Recorded
<1> QED
  BY <1>1, <1>2, <1>3, <1>4, <1>5, <1>6 DEF Next

(* However many pollers there are, a scheduled occurrence of a config is   *)
(* scanned at most once if no two are past the look at the config at once: *)
(* stale batches, operators, forced runs, crashes, rollbacks do no harm.   *)
THEOREM ScannedOnceApart == Spec /\ []PollersApart => []OneRunPerOccurrence
<1>1. Init => Scheduled
  BY InitScheduled
<1>2. Inv /\ Scheduled /\ PollersApart /\ [Next]_vars => Scheduled'
  BY ScheduledStep
<1>3. Scheduled => OneRunPerOccurrence
  BY DEF Scheduled
<1> QED
  BY <1>1, <1>2, <1>3, InvHolds, PTL DEF Spec

(* One poller keeps apart, whatever forced runs there are beside it.       *)
THEOREM ScannedOnce ==
    ASSUME \A p, q \in Pollers : p = q
    PROVE  Spec => []OneRunPerOccurrence
<1>1. PollersApart
  BY DEF PollersApart
<1>2. []PollersApart
  BY <1>1, PTL
<1> QED
  BY <1>2, ScannedOnceApart, PTL

-----------------------------------------------------------------------------
(* One executor at a time past the look at a config.                       *)

\* A run in progress of a config is that of the executor that is past the look.
Mine(e, c) ==
    PastLook(e, c) => \A i \in DOMAIN rows :
        rows[i].config = c /\ rows[i].status = "running" => i = exec[e].row

Single == NoOverlap /\ \A e \in Executors, c \in Configs : Mine(e, c)

\* An executor writes its run row: the only other one past the look is itself.
LEMMA SingleWritten ==
    ASSUME Inv, Single, AloneAtConfigs,
           NEW e \in Executors, NEW t \in exec[e].current, Scanning(e, t),
           NEW s \in {"running", "skipped", "done"}, rows' = Written(e, t, s),
           \A f \in Executors \ {e} : exec'[f] = exec[f],
           \/ exec'[e].current = {}
           \/ exec'[e].current = {t} /\ exec'[e].row = RowOf(e)
    PROVE  Single'
<1>1. t \in Task /\ t.config \in Configs
  BY TaskOfExec DEF Inv, Task
<1>2. /\ DOMAIN rows' = DOMAIN rows \cup {RowOf(e)}
      /\ rows'[RowOf(e)] = [config |-> t.config, occurrence |-> t.occurrence,
                            status |-> s]
      /\ \A i \in DOMAIN rows \ {RowOf(e)} : rows'[i] = rows[i]
  BY <1>1, WrittenRows DEF Inv
<1>3. PastLook(e, t.config)
  BY DEF PastLook, Scanning
<1>4. ASSUME NEW i \in DOMAIN rows', rows'[i].config = t.config, rows'[i].status = "running"
      PROVE  i = RowOf(e)
  <2> SUFFICES ASSUME i # RowOf(e) PROVE FALSE
    OBVIOUS
  <2>1. i \in DOMAIN rows /\ rows[i].config = t.config /\ rows[i].status = "running"
    BY <1>2, <1>4
  <2>2. i = exec[e].row
    BY <1>1, <1>3, <2>1 DEF Single, Mine
  <2>3. i # 0
    BY <2>1 DEF Inv, TypeOK
  <2> QED
    BY <2>2, <2>3 DEF RowOf
<1>5. ASSUME NEW i \in DOMAIN rows', rows'[i].config # t.config
      PROVE  i \in DOMAIN rows /\ rows'[i] = rows[i]
  BY <1>2, <1>5
<1>6. NoOverlap'
  <2> SUFFICES ASSUME NEW i \in DOMAIN rows', NEW j \in DOMAIN rows',
                      rows'[i].config = rows'[j].config,
                      rows'[i].status = "running", rows'[j].status = "running"
               PROVE  i = j
    BY DEF NoOverlap
  <2>1. CASE rows'[i].config = t.config
    BY <1>4, <2>1
  <2>2. CASE rows'[i].config # t.config
    BY <1>5, <2>2 DEF Single, NoOverlap
  <2> QED
    BY <2>1, <2>2
<1>7. ASSUME NEW f \in Executors, NEW c \in Configs, PastLook(f, c)',
             NEW i \in DOMAIN rows', rows'[i].config = c, rows'[i].status = "running"
      PROVE  i = exec'[f].row
  <2>1. CASE f = e
    <3>1. c = t.config /\ exec'[e].row = RowOf(e)
      BY <1>7, <2>1 DEF PastLook
    <3> QED
      BY <1>4, <1>7, <2>1, <3>1
  <2>2. CASE f # e
    <3>1. PastLook(f, c) /\ exec'[f] = exec[f]
      BY <1>7, <2>2 DEF PastLook
    <3>2. c # t.config
      BY <1>3, <2>2, <3>1 DEF AloneAtConfigs
    <3> QED
      BY <1>5, <1>7, <3>1, <3>2 DEF Single, Mine
  <2> QED
    BY <2>1, <2>2
<1> QED
  BY <1>6, <1>7 DEF Single, Mine

LEMMA SingleStep ==
    ASSUME Inv, Single, AloneAtConfigs, [Next]_vars
    PROVE  Single'
<1>1. CASE UNCHANGED <<rows, exec>>
  BY <1>1 DEF Single, NoOverlap, Mine, PastLook
<1>2. CASE QuietStep
  <2>1. rows' = rows /\ \A e \in Executors : QuietMove(e)
    BY <1>2 DEF QuietStep
  <2>2. ASSUME NEW e \in Executors, NEW c \in Configs PROVE Mine(e, c)'
    BY <2>1 DEF Single, Mine, QuietMove, InProgress
  <2> QED
    BY <2>1, <2>2 DEF Single, NoOverlap
<1>3. ASSUME NEW e \in Executors, NEW t \in exec[e].current, AnalyseTarget(e, t)
      PROVE  Single'
  <2>1. /\ t \in Task /\ Scanning(e, t) /\ rows' = Written(e, t, "running")
    BY <1>3, TaskOfExec DEF AnalyseTarget, Inv
  <2>2. /\ exec'[e].row = RowOf(e) /\ exec'[e].current = {t}
        /\ \A f \in Executors \ {e} : exec'[f] = exec[f]
    BY <1>3, <2>1, AnalyseTypes DEF Inv
  <2> QED
    BY <2>1, <2>2, SingleWritten
<1>4. ASSUME NEW e \in Executors, NEW t \in exec[e].current, FinishStep(e, t)
      PROVE  Single'
  <2>1. PICK s \in {"skipped", "done"} : Scanning(e, t) /\ FinishRun(e, t, s)
    BY <1>4 DEF FinishStep
  <2>2. rows' = Written(e, t, s) /\ Continue(e)
    BY <2>1 DEF FinishRun
  <2>3. exec'[e].current = {} /\ \A f \in Executors \ {e} : exec'[f] = exec[f]
    BY <2>2, ContinueTypes DEF Inv
  <2> QED
    BY <2>1, <2>2, <2>3, SingleWritten
<1> QED
  BY <1>1, <1>2, <1>3, <1>4, StepKinds

(* Without two executors past the look at one config there is never a      *)
(* second run of it in progress, whatever escapes, operators and forced    *)
(* runs do: an abandoned run keeps every later executor from the config.   *)
THEOREM SingleRuns == Spec /\ []AloneAtConfigs => []NoOverlap
<1>1. Init => Single
  <2>1. Init => \A e \in Executors : exec[e].current = {}
    BY RestTypes DEF Init, Idle
  <2> QED
    BY <2>1 DEF Init, Single, NoOverlap, Mine, PastLook
<1>2. Inv /\ Single /\ AloneAtConfigs /\ [Next]_vars => Single'
  BY SingleStep
<1>3. Single => NoOverlap
  BY DEF Single
<1> QED
  BY <1>1, <1>2, <1>3, InvHolds, PTL DEF Spec

(* So it is with a single executor: one poller, and no run by force.       *)
THEOREM SingleRunsAlone ==
    ASSUME \A e, f \in Executors : e = f
    PROVE  Spec => []NoOverlap
<1>1. AloneAtConfigs
  BY DEF AloneAtConfigs
<1>2. []AloneAtConfigs
  BY <1>1, PTL
<1> QED
  BY <1>2, SingleRuns, PTL
=============================================================================
