------------------------ MODULE TaskSchedulerProofs ------------------------
(***************************************************************************)
(* The scheduler's rows, for any number of processes, tasks and runs.      *)
(*                                                                         *)
(* The invariant has three parts: what an open dispatch transaction has    *)
(* read still holds (PickInv), who may still execute or end a run and with *)
(* which outcome (RunInv), and the limits that follow from both.           *)
(* Each limit is looked up in a transaction of its own and holds together  *)
(* with the others because of what an open dispatch has reserved.          *)
(***************************************************************************)
EXTENDS TaskScheduler, FiniteSetTheorems, WellFoundedInduction, TLAPS

Statuses == {"absent", "queued", "running"} \cup Terminal

\* A row that is made of others has their type.
LEMMA RowType ==
  ASSUME SchedulerPolicy, SchedulerBounds
  PROVE  /\ NoRow \in RowSet
         /\ \A t \in Tasks, s \in Statuses, b \in BOOLEAN, a \in Ages : NewRow(t, s, b, a) \in RowSet
         /\ \A row \in RowSet, s \in Statuses : Become(row, s) \in RowSet
<1>1. (CHOOSE t \in Tasks : TRUE) \in Tasks
  BY DEF SchedulerPolicy
<1>2. NoRow \in RowSet
  BY <1>1 DEF NoRow, RowSet, SchedulerBounds
<1>3. ASSUME NEW t \in Tasks, NEW s \in Statuses, NEW b \in BOOLEAN, NEW a \in Ages
      PROVE  NewRow(t, s, b, a) \in RowSet
  BY <1>2 DEF NewRow, RowSet, Statuses
<1>4. ASSUME NEW row \in RowSet, NEW s \in Statuses PROVE Become(row, s) \in RowSet
  BY DEF Become, RowSet, Statuses, SchedulerBounds
<1> QED BY <1>2, <1>3, <1>4

\* What a new row and a row that ends hold.
LEMMA RowFields ==
  /\ \A t, s, b, a : /\ NewRow(t, s, b, a).status = s /\ NewRow(t, s, b, a).task = t
                     /\ NewRow(t, s, b, a).age = a
  /\ \A row \in RowSet : \A s : Become(row, s).status = s /\ Become(row, s).task = row.task
<1>1. \A t, s, b, a : /\ NewRow(t, s, b, a).status = s /\ NewRow(t, s, b, a).task = t
                      /\ NewRow(t, s, b, a).age = a
  BY DEF NewRow, NoRow
<1>2. \A row \in RowSet : \A s : Become(row, s).status = s /\ Become(row, s).task = row.task
  BY DEF Become, RowSet
<1> QED BY <1>1, <1>2

\* A row as a dispatch sees it: one it adds, or the one in the table.
LEMMA WithRow ==
  ASSUME NEW new, NEW r \in RunIds
  PROVE  \/ With(new)[r] = rows[r] /\ \A n \in new : n[2] # r
         \/ \E n \in new : n[2] = r /\ With(new)[r] = NewRow(n[1], "queued", TRUE, n[3])
BY DEF With

\* The table with a dispatch's rows has the table's type.
LEMMA WithType ==
  ASSUME SchedulerPolicy, SchedulerBounds, rows \in [RunIds -> RowSet],
         NEW new \in SUBSET (Tasks \X RunIds \X Ages)
  PROVE  With(new) \in [RunIds -> RowSet]
<1>1. ASSUME NEW r \in RunIds PROVE With(new)[r] \in RowSet
  <2>1. CASE With(new)[r] = rows[r]
    BY <2>1
  <2>2. CASE \E n \in new : n[2] = r /\ With(new)[r] = NewRow(n[1], "queued", TRUE, n[3])
    <3>1. PICK n \in new : With(new)[r] = NewRow(n[1], "queued", TRUE, n[3])
      BY <2>2
    <3>2. n[1] \in Tasks /\ n[3] \in Ages
      OBVIOUS
    <3>3. "queued" \in Statuses /\ TRUE \in BOOLEAN
      BY DEF Statuses
    <3>4. NewRow(n[1], "queued", TRUE, n[3]) \in RowSet
      BY <3>2, <3>3, RowType
    <3> QED BY <3>1, <3>4
  <2>3. \/ With(new)[r] = rows[r]
        \/ \E n \in new : n[2] = r /\ With(new)[r] = NewRow(n[1], "queued", TRUE, n[3])
    BY ONLY WithRow
  <2> QED BY <2>1, <2>2, <2>3
<1>2. With(new) = [r \in RunIds |-> With(new)[r]]
  BY DEF With
<1> QED BY <1>1, <1>2

\* What a dispatch adds: unused ids for active local updates.
LEMMA ContinuationFacts ==
  ASSUME SchedulerPolicy, NEW new \in Continuations
  PROVE  /\ new \in SUBSET (Local \X Unused \X Ages)
         /\ \A n \in new : state[n[1]] = "active"
<1>1. PICK C \in SUBSET Local, age \in Ages :
         /\ \A t \in C : Wanted(t, C)
         /\ new \in IF Cardinality(C) <= Cardinality(Unused) THEN Numbered(C, age) ELSE {{}}
  BY DEF Continuations
<1>2. \A t \in C : state[t] = "active"
  BY <1>1 DEF Wanted
<1>3. new \in SUBSET (C \X Unused \X {age})
  BY <1>1 DEF Numbered
<1> QED BY <1>1, <1>2, <1>3

\* Only rows that exist, or are about to, are selected.
LEMMA SelectedRuns ==
  ASSUME NEW now, NEW slots, NEW admitted
  PROVE  /\ Selected(now, slots, admitted) \subseteq RunIds
         /\ \A r \in Selected(now, slots, admitted) :
              /\ now[r].status = "queued"
              /\ now[r].task \in Local =>
                   /\ \A q \in All({"running"}) : rows[q].task \notin Local
                   /\ r \in First({q \in RunIds : /\ now[q].status = "queued" /\ now[q].age # "future"
                                                  /\ state[now[q].task] # "archived"
                                                  /\ now[q].task \notin Sourced \/ source
                                                  /\ now[q].task \in Local}, now)
BY DEF Selected, First
-----------------------------------------------------------------------------
(* Type correctness.                                                       *)

\* The rows of a set that end, or are skipped, keep the table's type.
LEMMA SetType ==
  ASSUME SchedulerPolicy, SchedulerBounds, rows \in [RunIds -> RowSet],
         NEW S, NEW s \in Statuses
  PROVE  Set(S, s) \in [RunIds -> RowSet]
BY RowType DEF Set

\* A row with one field replaced, and a future with another state.
LEMMA FieldType ==
  /\ \A row \in RowSet : /\ [row EXCEPT !.cancel = TRUE] \in RowSet
                         /\ \A age \in Ages : [row EXCEPT !.age = age] \in RowSet
  /\ \A f \in FutureSet : \A at \in {"handler", "kept"} :
        [f EXCEPT !.at = at] \in FutureSet /\ [f EXCEPT !.at = at].out = f.out
                                           /\ [f EXCEPT !.at = at].at = at
<1>1. ASSUME NEW row \in RowSet, NEW age \in Ages
      PROVE  [row EXCEPT !.cancel = TRUE] \in RowSet /\ [row EXCEPT !.age = age] \in RowSet
  BY DEF RowSet
<1>2. ASSUME NEW row \in RowSet PROVE [row EXCEPT !.cancel = TRUE] \in RowSet
  BY DEF RowSet
<1>3. ASSUME NEW f \in FutureSet, NEW at \in {"handler", "kept"}
      PROVE  [f EXCEPT !.at = at] \in FutureSet /\ [f EXCEPT !.at = at].out = f.out
                                                /\ [f EXCEPT !.at = at].at = at
  BY DEF FutureSet
<1> QED BY <1>1, <1>2, <1>3

\* Rows written by a dispatch keep the table's type.
LEMMA WrittenType ==
  ASSUME SchedulerPolicy, SchedulerBounds, TypeOK, NEW p \in Procs, NEW S
  PROVE  Written(p, S) \in [RunIds -> RowSet]
<1>1. pick[p].new \in SUBSET (Tasks \X RunIds \X Ages)
  BY DEF TypeOK, PickSet
<1>2. With(pick[p].new) \in [RunIds -> RowSet]
  BY <1>1, WithType DEF TypeOK
<1>3. "running" \in Statuses
  BY DEF Statuses
<1> QED BY <1>2, <1>3, RowType DEF Written

\* A request keeps the types.
LEMMA TypeRequest ==
  ASSUME SchedulerPolicy, SchedulerBounds, TypeOK, Request PROVE TypeOK'
<1> USE DEF procVars, hist
<1>1. ASSUME NEW t \in Tasks, NEW scheduled \in BOOLEAN, Enqueue(t, scheduled) PROVE TypeOK'
  <2>1. PICK r \in RunIds :
          rows' = [rows EXCEPT ![r] =
                     NewRow(t, IF SkipReason(t) THEN "skipped" ELSE "queued", FALSE, "due")]
    BY <1>1 DEF Enqueue
  <2>2. NewRow(t, IF SkipReason(t) THEN "skipped" ELSE "queued", FALSE, "due") \in RowSet
    BY RowType DEF Statuses, SchedulerBounds, Terminal
  <2>3. rows' \in [RunIds -> RowSet]
    BY <2>1, <2>2 DEF TypeOK
  <2>4. state' \in [Tasks -> States]
    BY <1>1 DEF Enqueue, TypeOK, States
  <2> QED BY <1>1, <2>3, <2>4 DEF Enqueue, TypeOK
<1>2. ASSUME NEW t \in Tasks, Misfire(t) PROVE TypeOK'
  <2>1. PICK r \in RunIds : rows' = [rows EXCEPT ![r] = NewRow(t, "skipped", FALSE, "due")]
    BY <1>2 DEF Misfire
  <2>2. NewRow(t, "skipped", FALSE, "due") \in RowSet
    BY RowType DEF Statuses, SchedulerBounds, Terminal
  <2>3. rows' \in [RunIds -> RowSet]
    BY <2>1, <2>2 DEF TypeOK
  <2>4. state' \in [Tasks -> States]
    BY <1>2 DEF Misfire, TypeOK, States
  <2> QED BY <1>2, <2>3, <2>4 DEF Misfire, TypeOK
<1>3. ASSUME NEW t \in Tasks, Reschedule(t) PROVE TypeOK'
  <2>1. state' \in [Tasks -> States]
    BY <1>3 DEF Reschedule, TypeOK, States
  <2> QED BY <1>3, <2>1 DEF Reschedule, TypeOK
<1>4. ASSUME NEW t \in Tasks, NEW target \in {"active", "paused", "archived"},
             ChangeState(t, target)
      PROVE  TypeOK'
  <2>1. state' \in [Tasks -> States]
    BY <1>4 DEF ChangeState, TypeOK, States
  <2>2. rows' \in [RunIds -> RowSet]
    BY <1>4, SetType DEF ChangeState, TypeOK, Statuses, Terminal
  <2> QED BY <1>4, <2>1, <2>2 DEF ChangeState, TypeOK
<1>5. ASSUME NEW enabled \in BOOLEAN, SetSource(enabled) PROVE TypeOK'
  <2>1. rows' \in [RunIds -> RowSet]
    BY <1>5, SetType DEF SetSource, TypeOK, Statuses, Terminal
  <2> QED BY <1>5, <2>1 DEF SetSource, TypeOK
<1>6. ASSUME NEW r \in RunIds, StopRun(r) PROVE TypeOK'
  <2>1. rows' \in [RunIds -> RowSet]
    <3>1. [rows[r] EXCEPT !.cancel = TRUE] \in RowSet
      BY FieldType DEF TypeOK
    <3>2. rows' = [rows EXCEPT ![r] = [rows[r] EXCEPT !.cancel = TRUE]]
      BY <1>6 DEF StopRun
    <3> QED BY <3>1, <3>2 DEF TypeOK
  <2> QED BY <1>6, <2>1 DEF StopRun, TypeOK
<1>7. ASSUME NEW r \in RunIds, Age(r) PROVE TypeOK'
  <2>1. rows' \in [RunIds -> RowSet]
    <3>1. PICK age \in Ages : rows' = [rows EXCEPT ![r].age = age]
      BY <1>7 DEF Age
    <3>2. [rows[r] EXCEPT !.age = age] \in RowSet
      BY FieldType DEF TypeOK
    <3>3. rows' = [rows EXCEPT ![r] = [rows[r] EXCEPT !.age = age]]
      BY <3>1
    <3> QED BY <3>2, <3>3 DEF TypeOK
  <2> QED BY <1>7, <2>1 DEF Age, TypeOK
<1> QED BY <1>1, <1>2, <1>3, <1>4, <1>5, <1>6, <1>7 DEF Request

\* A dispatch keeps the types.
LEMMA TypeDispatch ==
  ASSUME SchedulerPolicy, SchedulerBounds, TypeOK, Dispatch PROVE TypeOK'
<1> USE DEF procVars, hist
<1>0. NoPick \in PickSet
  BY DEF NoPick, PickSet
<1>1. ASSUME NEW p \in Procs, NEW admitted \in BOOLEAN, Select(p, admitted) PROVE TypeOK'
  <2>1. PICK new \in IF admitted THEN Continuations ELSE {{}} :
          pick' = [pick EXCEPT ![p] =
            [open |-> TRUE, new |-> new,
             runs |-> Selected(With(new), MaxWorkers - Cardinality(Futures(p)), admitted)]]
    BY <1>1 DEF Select
  <2>2. new \in SUBSET (Tasks \X RunIds \X Ages)
    <3>1. CASE new = {}
      BY <3>1
    <3>2. CASE new \in Continuations
      <4>1. new \in SUBSET (Local \X Unused \X Ages)
        BY <3>2, ContinuationFacts
      <4>2. Local \subseteq Tasks /\ Unused \subseteq RunIds
        BY DEF SchedulerPolicy, Unused, All
      <4> QED BY <4>1, <4>2
    <3> QED BY <2>1, <3>1, <3>2
  <2>3. Selected(With(new), MaxWorkers - Cardinality(Futures(p)), admitted) \subseteq RunIds
    BY SelectedRuns
  <2>4. pick' \in [Procs -> PickSet]
    BY <2>1, <2>2, <2>3 DEF TypeOK, PickSet
  <2> QED BY <1>1, <2>4 DEF Select, TypeOK
<1>2. ASSUME NEW p \in Procs, NEW S \in SUBSET StillQueued(p), Commit(p, S) PROVE TypeOK'
  <2>1. rows' \in [RunIds -> RowSet]
    BY <1>2, WrittenType DEF Commit
  <2>2. state' \in [Tasks -> States]
    BY <1>2 DEF Commit, Completed, TypeOK, States
  <2>3. S \subseteq RunIds
    BY DEF StillQueued, TypeOK, PickSet
  <2>4. claimed' \in [Procs -> SUBSET RunIds] /\ pick' \in [Procs -> PickSet]
    BY <1>2, <1>0, <2>3 DEF Commit, TypeOK
  <2> QED BY <1>2, <2>1, <2>2, <2>4 DEF Commit, TypeOK
<1>3. ASSUME NEW p \in Procs, Abort(p) PROVE TypeOK'
  BY <1>3, <1>0 DEF Abort, TypeOK
<1>4. ASSUME NEW p \in Procs, CommitUnknown(p) PROVE TypeOK'
  <2>1. rows' \in [RunIds -> RowSet]
    BY <1>4, WrittenType DEF CommitUnknown
  <2>2. state' \in [Tasks -> States]
    BY <1>4 DEF CommitUnknown, Completed, TypeOK, States
  <2>3. pick' \in [Procs -> PickSet] /\ unknown' \in Nat
    BY <1>4, <1>0 DEF CommitUnknown, TypeOK
  <2> QED BY <1>4, <2>1, <2>2, <2>3 DEF CommitUnknown, TypeOK
<1>5. ASSUME NEW p \in Procs, NEW r \in RunIds, Submit(p, r) PROVE TypeOK'
  BY <1>5 DEF Submit, TypeOK, NoFuture, Done, FutureSet, Terminal
<1> QED BY <1>1, <1>2, <1>3, <1>4, <1>5 DEF Dispatch

\* The work of threads and callbacks keeps the types.
LEMMA TypeWork ==
  ASSUME SchedulerPolicy, SchedulerBounds, TypeOK, Work PROVE TypeOK'
<1> USE DEF procVars, hist
<1>1. ASSUME NEW p \in Procs, NEW r \in RunIds, Begin(p, r) PROVE TypeOK'
  <2>1. /\ \A out \in {"failed", "indeterminate", "skipped"} : Done(out) \in FutureSet
        /\ [fut[p][r] EXCEPT !.at = "handler"] \in FutureSet
    <3>1. \A out \in {"failed", "indeterminate", "skipped"} : Done(out) \in FutureSet
      BY DEF Done, FutureSet, Terminal
    <3>2. fut[p][r] \in FutureSet
      BY DEF TypeOK
    <3> QED BY <3>1, <3>2, FieldType
  <2>2. \E f \in {Done("failed"), Done("indeterminate"), Done("skipped"), [fut[p][r] EXCEPT !.at = "handler"]} :
          fut' = [fut EXCEPT ![p] = [fut[p] EXCEPT ![r] = f]]
    BY <1>1 DEF Begin
  <2>3. PICK f \in FutureSet : /\ fut' = [fut EXCEPT ![p] = [fut[p] EXCEPT ![r] = f]]
                               /\ f.at \in {"done", "kept"} => f.out \in Terminal
    <3>1. fut[p][r] \in FutureSet
      BY DEF TypeOK
    <3>2. \A f \in {Done("failed"), Done("indeterminate"), Done("skipped"), [fut[p][r] EXCEPT !.at = "handler"]} :
            f.at \in {"done", "kept"} => f.out \in Terminal
      <4>1. [fut[p][r] EXCEPT !.at = "handler"].at = "handler"
        BY <3>1, FieldType
      <4>2. \A out \in {"failed", "indeterminate", "skipped"} : Done(out).out \in Terminal
        BY DEF Done, Terminal
      <4> QED BY <4>1, <4>2
    <3> QED BY <2>1, <2>2, <3>2
  <2>4. /\ fut' \in [Procs -> [RunIds -> FutureSet]]
        /\ \A o \in Procs, q \in RunIds :
             fut'[o][q].at \in {"done", "kept"} => fut'[o][q].out \in Terminal
    <3>1. fut \in [Procs -> [RunIds -> FutureSet]]
      BY DEF TypeOK
    <3>2. [fut[p] EXCEPT ![r] = f] \in [RunIds -> FutureSet]
      BY <3>1
    <3>3. fut' \in [Procs -> [RunIds -> FutureSet]]
      BY <2>3, <3>1, <3>2
    <3>4. \A o \in Procs, q \in RunIds : fut'[o][q] = fut[o][q] \/ fut'[o][q] = f
      BY <2>3, <3>1
    <3> QED BY <2>3, <3>3, <3>4 DEF TypeOK
  <2>5. starts' \in [RunIds -> Nat]
    <3>1. starts \in [RunIds -> Nat] /\ starts[r] + 1 \in Nat
      BY DEF TypeOK
    <3>2. starts' = starts \/ starts' = [starts EXCEPT ![r] = starts[r] + 1]
      BY <1>1 DEF Begin
    <3> QED BY <3>1, <3>2
  <2> QED BY <1>1, <2>4, <2>5 DEF Begin, TypeOK
<1>2. ASSUME NEW p \in Procs, NEW r \in RunIds, NEW E \in SUBSET Entries, RecordIntent(p, r, E)
      PROVE  TypeOK'
  BY <1>2 DEF RecordIntent, TypeOK
<1>3. ASSUME NEW p \in Procs, NEW r \in RunIds, NEW out \in {"succeeded", "failed", "cancelled"},
             NEW halt \in BOOLEAN, HandlerEnd(p, r, out, halt)
      PROVE  TypeOK'
  BY <1>3 DEF HandlerEnd, TypeOK, FutureSet, Terminal
<1>4. ASSUME NEW p \in Procs, NEW r \in RunIds, Reconciles(p, r)
      PROVE  Finished(r, fut[p][r]) \in [RunIds -> RowSet]
  <2>1. fut[p][r].out \in Terminal /\ fut[p][r].halt \in BOOLEAN
    BY <1>4 DEF Reconciles, TypeOK, FutureSet
  <2>2. rows \in [RunIds -> RowSet]
    BY DEF TypeOK
  <2>3. [rows EXCEPT ![r].status = fut[p][r].out, ![r].halt = fut[p][r].halt] \in [RunIds -> RowSet]
    <3>1. [rows[r] EXCEPT !.status = fut[p][r].out, !.halt = fut[p][r].halt] \in RowSet
      BY <2>1, <2>2 DEF RowSet
    <3>2. [rows EXCEPT ![r].status = fut[p][r].out, ![r].halt = fut[p][r].halt]
            = [rows EXCEPT ![r] = [rows[r] EXCEPT !.status = fut[p][r].out, !.halt = fut[p][r].halt]]
      BY <2>2
    <3> QED BY <2>2, <3>1, <3>2
  <2> QED BY <2>2, <2>3 DEF Finished
<1>5. ASSUME NEW p \in Procs, NEW r \in RunIds, Persist(p, r) PROVE TypeOK'
  <2>1. rows' \in [RunIds -> RowSet]
    BY <1>4, <1>5 DEF Persist
  <2>2. NoFuture \in FutureSet
    BY DEF NoFuture, FutureSet
  <2>3. fut' \in [Procs -> [RunIds -> FutureSet]]
    BY <1>5, <2>2 DEF Persist, TypeOK
  <2>4. \A o \in Procs, q \in RunIds :
          fut'[o][q].at \in {"done", "kept"} => fut'[o][q].out \in Terminal
    BY <1>5 DEF Persist, TypeOK, NoFuture
  <2> QED BY <1>5, <2>1, <2>3, <2>4 DEF Persist, TypeOK
<1>6. ASSUME NEW p \in Procs, NEW r \in RunIds, KeepOutcome(p, r) PROVE TypeOK'
  <2>1. [fut[p][r] EXCEPT !.at = "kept"] \in FutureSet
    <3>1. fut[p][r] \in FutureSet
      BY DEF TypeOK
    <3> QED BY <3>1, FieldType
  <2>2. fut' = [fut EXCEPT ![p] = [fut[p] EXCEPT ![r] = [fut[p][r] EXCEPT !.at = "kept"]]]
    BY <1>6 DEF KeepOutcome
  <2>3. fut' \in [Procs -> [RunIds -> FutureSet]]
    BY <2>1, <2>2 DEF TypeOK
  <2>4. \A o \in Procs, q \in RunIds :
          fut'[o][q].at \in {"done", "kept"} => fut'[o][q].out \in Terminal
    <3>1. fut[p][r].at \in {"done", "kept"} /\ fut[p][r].out \in Terminal
      BY <1>6 DEF KeepOutcome, Reconciles, TypeOK
    <3>2. [fut[p][r] EXCEPT !.at = "kept"].out = fut[p][r].out
      <4>1. fut[p][r] \in FutureSet
        BY DEF TypeOK
      <4> QED BY <4>1, FieldType
    <3> QED BY <2>2, <3>1, <3>2 DEF TypeOK
  <2> QED BY <1>6, <2>3, <2>4 DEF KeepOutcome, TypeOK
<1>7. ASSUME NEW p \in Procs, NEW r \in RunIds, PersistUnknown(p, r) PROVE TypeOK'
  <2>1. rows' \in [RunIds -> RowSet]
    BY <1>4, <1>7 DEF PersistUnknown
  <2>2. [fut[p][r] EXCEPT !.at = "kept"] \in FutureSet
    <3>1. fut[p][r] \in FutureSet
      BY DEF TypeOK
    <3> QED BY <3>1, FieldType
  <2>3. fut' = [fut EXCEPT ![p] = [fut[p] EXCEPT ![r] = [fut[p][r] EXCEPT !.at = "kept"]]]
    BY <1>7 DEF PersistUnknown
  <2>4. fut' \in [Procs -> [RunIds -> FutureSet]]
    BY <2>2, <2>3 DEF TypeOK
  <2>5. \A o \in Procs, q \in RunIds :
          fut'[o][q].at \in {"done", "kept"} => fut'[o][q].out \in Terminal
    <3>1. fut[p][r].at \in {"done", "kept"} /\ fut[p][r].out \in Terminal
      BY <1>7 DEF PersistUnknown, Reconciles, TypeOK
    <3>2. [fut[p][r] EXCEPT !.at = "kept"].out = fut[p][r].out
      <4>1. fut[p][r] \in FutureSet
        BY DEF TypeOK
      <4> QED BY <4>1, FieldType
    <3> QED BY <2>3, <3>1, <3>2 DEF TypeOK
  <2> QED BY <1>7, <2>1, <2>4, <2>5 DEF PersistUnknown, TypeOK
<1> QED BY <1>1, <1>2, <1>3, <1>5, <1>6, <1>7 DEF Work

\* Starts, stops, crashes and the supervisor keep the types.
LEMMA TypeProcess ==
  ASSUME SchedulerPolicy, SchedulerBounds, TypeOK, Process \/ Supervise PROVE TypeOK'
<1> USE DEF procVars, hist
<1>0. NoPick \in PickSet /\ NoFuture \in FutureSet
  BY DEF NoPick, PickSet, NoFuture, FutureSet
<1>1. ASSUME NEW p \in Procs, NEW late \in SUBSET All({"running"}), Start(p, late) PROVE TypeOK'
  <2>1. rows' \in [RunIds -> RowSet]
    BY <1>1, SetType DEF Start, TypeOK, Statuses, Terminal
  <2>2. fut' \in [Procs -> [RunIds -> FutureSet]]
    BY <1>1, <1>0 DEF Start, TypeOK, Done, FutureSet, Terminal
  <2>3. \A o \in Procs, q \in RunIds :
          fut'[o][q].at \in {"done", "kept"} => fut'[o][q].out \in Terminal
    BY <1>1 DEF Start, TypeOK, NoFuture, Done, Terminal
  <2> QED BY <1>1, <2>1, <2>2, <2>3 DEF Start, TypeOK
<1>2. ASSUME NEW p \in Procs, Stop(p) PROVE TypeOK'
  <2>1. fut' \in [Procs -> [RunIds -> FutureSet]]
    BY <1>2 DEF Stop, TypeOK, Done, FutureSet, Terminal
  <2>2. \A o \in Procs, q \in RunIds :
          fut'[o][q].at \in {"done", "kept"} => fut'[o][q].out \in Terminal
    BY <1>2 DEF Stop, TypeOK, Done, Terminal
  <2> QED BY <1>2, <2>1, <2>2 DEF Stop, TypeOK
<1>3. ASSUME NEW p \in Procs, Gone(p), outages' \in Nat PROVE TypeOK'
  <2>1. fut' \in [Procs -> [RunIds -> FutureSet]]
    BY <1>3, <1>0 DEF Gone, TypeOK
  <2>2. \A o \in Procs, q \in RunIds :
          fut'[o][q].at \in {"done", "kept"} => fut'[o][q].out \in Terminal
    BY <1>3 DEF Gone, TypeOK, NoFuture
  <2> QED BY <1>0, <1>3, <2>1, <2>2 DEF Gone, TypeOK
<1>4. ASSUME NEW p \in Procs, Exit(p) \/ Crash(p) PROVE TypeOK'
  BY <1>3, <1>4 DEF Exit, Crash, TypeOK
<1>5. ASSUME NEW S \in SUBSET All({"running"}), ListLost(S) PROVE TypeOK'
  <2>1. S \subseteq RunIds
    BY DEF All
  <2>2. lost' \in [look : SUBSET RunIds, ended : SUBSET RunIds, looks : Nat]
    <3>1. lost \in [look : SUBSET RunIds, ended : SUBSET RunIds, looks : Nat]
      BY DEF TypeOK
    <3>2. lost' = [lost EXCEPT !.look = S, !.looks = lost.looks + 1]
      BY <1>5 DEF ListLost
    <3>3. lost.looks + 1 \in Nat
      BY <3>1
    <3> QED BY <2>1, <3>1, <3>2, <3>3
  <2> QED BY <1>5, <2>2 DEF ListLost, TypeOK
<1>6. ASSUME NEW r \in RunIds, EndLost(r) PROVE TypeOK'
  BY <1>6 DEF EndLost, TypeOK
<1>7. ASSUME CommitLost PROVE TypeOK'
  <2>1. rows' \in [RunIds -> RowSet]
    BY <1>7, SetType DEF CommitLost, TypeOK, Statuses, Terminal
  <2> QED BY <1>7, <2>1 DEF CommitLost, TypeOK
<1>8. ASSUME AbandonLost PROVE TypeOK'
  BY <1>8 DEF AbandonLost, TypeOK
<1> QED BY <1>1, <1>2, <1>4, <1>5, <1>6, <1>7, <1>8 DEF Process, Supervise

\* Every variable of the scheduler keeps its type.
THEOREM SchedulerTypes == Spec => []TypeOK
<1> USE SchedulerPolicy, SchedulerBounds
<1>1. Init => TypeOK
  BY RowType DEF Init, TypeOK, NoPick, PickSet, NoFuture, FutureSet, States
<1>2. TypeOK /\ [Next]_vars => TypeOK'
  <2>1. TypeOK /\ Next => TypeOK'
    BY TypeRequest, TypeDispatch, TypeWork, TypeProcess DEF Next
  <2>2. TypeOK /\ UNCHANGED vars => TypeOK'
    BY DEF TypeOK, vars, procVars, hist
  <2> QED BY <2>1, <2>2
<1> QED BY <1>1, <1>2, PTL DEF Spec
-----------------------------------------------------------------------------
(* The invariant.                                                          *)

\* A selected run is a local update if the dispatch adds it, or its task is one.
IsLocal(p, r) == (\E n \in pick[p].new : n[2] = r) \/ rows[r].task \in Local

PickInv ==
  /\ \A p, q \in Procs : pick[p].open /\ pick[q].open => p = q
  /\ \A p \in Procs : ~pick[p].open => pick[p].new = {} /\ pick[p].runs = {}
  /\ \A p \in Procs : \A n \in pick[p].new :
       rows[n[2]].status = "absent" /\ n[1] \in Local /\ state[n[1]] # "archived"
  /\ \A p \in Procs : \A r \in pick[p].runs :
       rows[r].status # "absent" \/ \E n \in pick[p].new : n[2] = r
  /\ \A p \in Procs : \A r, q \in pick[p].runs : IsLocal(p, r) /\ IsLocal(p, q) => r = q
  /\ \A p \in Procs : \A r \in pick[p].runs :
       IsLocal(p, r) => \A q \in RunIds : rows[q].status = "running" => rows[q].task \notin Local

Active(p, r)  == r \in claimed[p] \/ fut[p][r].at \in {"pending", "handler"}
Waiting(p, r) == r \in claimed[p] \/ fut[p][r].at = "pending"
HasEnded(p, r) == fut[p][r].at \in {"done", "kept"}
Elsewhere == {"interrupted", "indeterminate"}

\* An outcome s of r says what the handler reported.
Truthful(s, r) ==
  /\ s \in {"succeeded", "cancelled"} => report[r] = s
  /\ s = "failed" => report[r] = "failed" \/ starts[r] = 0
  /\ s = "skipped" => starts[r] = 0
  /\ report[r] = "succeeded" => s \in {"succeeded"} \cup Elsewhere

Untouched(r) == /\ starts[r] = 0 /\ report[r] = "none"
                /\ \A p \in Procs : r \notin claimed[p] /\ fut[p][r].at = "none"

RunInv(r) ==
  /\ rows[r].status \in {"absent", "queued"} => Untouched(r)
  /\ \A p \in Procs : Active(p, r) =>
       rows[r].status \in {"running"} \cup Elsewhere /\ report[r] = "none"
  /\ \A p \in Procs : /\ Waiting(p, r) => starts[r] = 0
                      /\ fut[p][r].at = "handler" => starts[r] = 1
                      /\ r \in claimed[p] => fut[p][r].at \notin {"pending", "handler"}
  /\ \A p, q \in Procs : Active(p, r) /\ Active(q, r) => p = q
  /\ starts[r] <= 1 /\ (report[r] # "none" => starts[r] = 1)
  /\ \A p \in Procs : HasEnded(p, r) => Truthful(fut[p][r].out, r)
  /\ \A p, q \in Procs : Active(p, r) /\ HasEnded(q, r) => fut[q][r].out \in Elsewhere
  /\ rows[r].status \in Terminal => Truthful(rows[r].status, r)
  /\ r \in lost.ended => rows[r].status = "running"

SchedInv == /\ TypeOK /\ PickInv /\ (\A r \in RunIds : RunInv(r))
            /\ OneLocalRow /\ FencedTasksDoNotQueue

-----------------------------------------------------------------------------
(* Steps that leave dispatches alone.                                      *)

\* No step but a dispatch makes a row running, and none changes a row's task.
RowsKept ==
  /\ pick' = pick
  /\ \A p \in Procs : \A n \in pick[p].new : rows'[n[2]].status = "absent" /\ state'[n[1]] # "archived"
  /\ \A r \in RunIds : rows[r].status # "absent" =>
       rows'[r].status # "absent" /\ rows'[r].task = rows[r].task
  /\ \A r \in RunIds : rows'[r].status = "running" => rows[r].status = "running"

\* Such steps keep what open dispatches rely on, and the single local update.
LEMMA KeptRows ==
  ASSUME TypeOK, PickInv, OneLocalRow, RowsKept PROVE PickInv' /\ OneLocalRow'
<1>1. \A p \in Procs : pick[p].new \in SUBSET (Tasks \X RunIds \X Ages) /\ pick[p].runs \subseteq RunIds
  BY DEF TypeOK, PickSet
<1>2. \A p \in Procs : \A r \in pick[p].runs : IsLocal(p, r)' => IsLocal(p, r)
  BY <1>1 DEF RowsKept, PickInv, IsLocal
<1>3. \A q \in RunIds : rows'[q].status = "running" =>
        rows[q].status = "running" /\ rows'[q].task = rows[q].task
  BY DEF RowsKept
<1>4. PickInv'
  BY <1>1, <1>2, <1>3 DEF RowsKept, PickInv
<1>5. OneLocalRow'
  BY <1>3 DEF OneLocalRow, All
<1> QED BY <1>4, <1>5

\* Steps that change no row, and nothing a row's end depends on.
LEMMA KeptRuns ==
  ASSUME TypeOK, \A r \in RunIds : RunInv(r), NEW r \in RunIds,
         starts'[r] = starts[r], report'[r] = report[r],
         rows'[r].status = rows[r].status,
         \A p \in Procs : fut'[p][r] = fut[p][r],
         \A p \in Procs : r \in claimed'[p] => r \in claimed[p],
         r \in lost'.ended => r \in lost.ended
  PROVE  RunInv(r)'
<1>1. \A p \in Procs : /\ Active(p, r)' => Active(p, r)
                       /\ Waiting(p, r)' => Waiting(p, r)
                       /\ HasEnded(p, r)' => HasEnded(p, r)
  BY DEF Active, Waiting, HasEnded
<1>2. \A s : Truthful(s, r)' <=> Truthful(s, r)
  BY DEF Truthful
<1>3. Untouched(r) => Untouched(r)'
  BY DEF Untouched
<1>4. RunInv(r)
  OBVIOUS
<1> QED BY <1>1, <1>2, <1>3, <1>4 DEF RunInv

\* The process that executes a run goes on, or ends with an outcome that is true.
LEMMA OwnStep ==
  ASSUME NEW p \in Procs, NEW r \in RunIds, RunInv(r), Active(p, r),
         \A o \in Procs : o # p => /\ fut'[o][r] = fut[o][r]
                                   /\ r \in claimed'[o] => r \in claimed[o],
         rows'[r].status = rows[r].status, r \in lost'.ended => r \in lost.ended,
         r \notin claimed'[p], fut'[p][r].at \in {"pending", "handler", "done"},
         fut'[p][r].at # "done" => report'[r] = "none",
         (fut[p][r].at = "done" => Truthful(fut[p][r].out, r))',
         fut'[p][r].at = "pending" => starts'[r] = 0,
         fut'[p][r].at = "handler" => starts'[r] = 1,
         starts'[r] <= 1, report'[r] # "none" => starts'[r] = 1
  PROVE  RunInv(r)'
<1>1. rows[r].status \in {"running"} \cup Elsewhere
  BY DEF RunInv
<1>2. \A o \in Procs : o # p => /\ r \notin claimed[o] /\ fut[o][r].at \notin {"pending", "handler"}
                                /\ HasEnded(o, r) => fut[o][r].out \in Elsewhere
  BY DEF RunInv, Active
<1>3. \A o \in Procs : o # p => /\ ~Active(o, r)' /\ ~Waiting(o, r)' /\ fut'[o][r].at # "handler"
                                /\ HasEnded(o, r)' => fut'[o][r].out \in Elsewhere
  BY <1>2 DEF Active, Waiting, HasEnded
<1>4. \A v \in Elsewhere : Truthful(v, r)'
  BY DEF Truthful, Elsewhere
<1>5. /\ rows'[r].status \notin {"absent", "queued"}
      /\ rows'[r].status \in Terminal => rows'[r].status \in Elsewhere
      /\ r \in lost'.ended => rows'[r].status = "running"
  BY <1>1 DEF RunInv, Elsewhere, Terminal
<1>6. /\ Active(p, r)' => report'[r] = "none"
      /\ Waiting(p, r)' => starts'[r] = 0
      /\ HasEnded(p, r)' => fut'[p][r].at = "done" /\ ~Active(p, r)'
  BY DEF Active, Waiting, HasEnded
<1>7. \A o \in Procs : Active(o, r)' => o = p
  BY <1>3 DEF Active, Waiting, HasEnded
<1>8. (\A o \in Procs : HasEnded(o, r) => Truthful(fut[o][r].out, r))'
  BY <1>3, <1>4, <1>6 DEF Active, Waiting, HasEnded, Truthful
<1> QED BY <1>1, <1>3, <1>4, <1>5, <1>6, <1>7, <1>8
        DEF RunInv, Active, Waiting, HasEnded, Truthful

\* A process that holds an outcome writes it, keeps it or forgets it.
LEMMA EndStep ==
  ASSUME NEW p \in Procs, NEW r \in RunIds, RunInv(r), HasEnded(p, r), claimed' = claimed,
         \A o \in Procs : o # p => fut'[o][r] = fut[o][r],
         fut'[p][r].at = "none" \/ (HasEnded(p, r)' /\ fut'[p][r].out = fut[p][r].out),
         starts' = starts, report' = report, lost' = lost, fut[p][r].out \in Terminal,
         \/ rows'[r].status = rows[r].status
         \/ rows[r].status = "running" /\ rows'[r].status = fut[p][r].out /\ r \notin lost.ended
  PROVE  RunInv(r)'
<1>1. \A o \in Procs : /\ Active(o, r)' => Active(o, r)
                       /\ Waiting(o, r)' => Waiting(o, r)
                       /\ fut'[o][r].at = "handler" => fut[o][r].at = "handler"
                       /\ HasEnded(o, r)' => HasEnded(o, r) /\ fut'[o][r].out = fut[o][r].out
  BY DEF Active, Waiting, HasEnded
<1>2. \A v : Truthful(v, r) => Truthful(v, r)'
  BY DEF Truthful
<1>3. rows[r].status \notin {"absent", "queued"}
  BY DEF RunInv, Untouched, HasEnded
<1>4. \A o \in Procs : Active(o, r) => fut[p][r].out \in Elsewhere
  BY DEF RunInv
<1>5. rows'[r].status \notin {"absent", "queued"}
  BY <1>3 DEF Terminal
<1>6. \A o \in Procs : Active(o, r) => rows'[r].status \in {"running"} \cup Elsewhere /\ report'[r] = "none"
  BY <1>4 DEF RunInv
<1>7. rows'[r].status \in Terminal => Truthful(rows'[r].status, r)
  BY DEF RunInv
<1>8. r \in lost'.ended => rows'[r].status = "running"
  BY DEF RunInv
<1>9. \A o \in Procs : r \in claimed'[o] => fut'[o][r].at \notin {"pending", "handler"}
  BY <1>1 DEF RunInv, Active, Waiting, HasEnded
<1> QED BY <1>1, <1>2, <1>5, <1>6, <1>7, <1>8, <1>9
        DEF RunInv, Active, Waiting, HasEnded, Truthful

\* Futures are forgotten or end as interrupted, and running rows end so.
LEMMA Settle ==
  ASSUME NEW r \in RunIds, RunInv(r), starts' = starts, report' = report,
         \A o \in Procs : \/ fut'[o][r] = fut[o][r]
                          \/ fut'[o][r].at = "none"
                          \/ /\ fut'[o][r].at \in {"done", "kept"} /\ fut'[o][r].out \in Elsewhere
                             /\ rows[r].status \notin {"absent", "queued"},
         \A o \in Procs : r \in claimed'[o] => r \in claimed[o],
         \/ rows'[r].status = rows[r].status
         \/ rows[r].status = "running" /\ rows'[r].status \in Elsewhere,
         r \in lost'.ended => rows'[r].status = "running"
  PROVE  RunInv(r)'
<1>1. \A o \in Procs : /\ Active(o, r)' => Active(o, r)
                       /\ Waiting(o, r)' => Waiting(o, r)
                       /\ fut'[o][r].at = "handler" => fut[o][r].at = "handler"
                       /\ fut'[o][r].at = "pending" => fut[o][r].at = "pending"
                       /\ HasEnded(o, r)' => \/ HasEnded(o, r) /\ fut'[o][r].out = fut[o][r].out
                                             \/ fut'[o][r].out \in Elsewhere
  BY DEF Active, Waiting, HasEnded
<1>2. \A v : Truthful(v, r) => Truthful(v, r)'
  BY DEF Truthful
<1>3. \A v \in Elsewhere : Truthful(v, r)
  BY DEF Truthful, Elsewhere
<1>4. rows'[r].status \in {"absent", "queued"} => Untouched(r)'
  BY DEF RunInv, Untouched, Elsewhere
<1>5. \A o \in Procs : Active(o, r) => rows'[r].status \in {"running"} \cup Elsewhere /\ report'[r] = "none"
  BY DEF RunInv
<1>6. rows'[r].status \in Terminal => Truthful(rows'[r].status, r)
  BY <1>3 DEF RunInv
<1>7. \A o \in Procs : r \in claimed'[o] => fut'[o][r].at \notin {"pending", "handler"}
  BY <1>1 DEF RunInv
<1>8. \A o \in Procs : HasEnded(o, r)' => Truthful(fut'[o][r].out, r)
  BY <1>1, <1>3 DEF RunInv, Active, Waiting, HasEnded
<1>9. \A o, q \in Procs : Active(o, r)' /\ HasEnded(q, r)' => fut'[q][r].out \in Elsewhere
  BY <1>1 DEF RunInv, Active, Waiting, HasEnded
<1> QED BY <1>1, <1>2, <1>4, <1>5, <1>6, <1>7, <1>8, <1>9
        DEF RunInv, Active, Waiting, HasEnded, Truthful

\* The rows of a set become s; the others, and every row's task, stay.
LEMMA SetFields ==
  ASSUME rows \in [RunIds -> RowSet], NEW S, NEW s, NEW r \in RunIds
  PROVE  /\ Set(S, s)[r].status = IF r \in S THEN s ELSE rows[r].status
         /\ Set(S, s)[r].task = rows[r].task
BY RowFields DEF Set

\* Outside a dispatch no transaction is open when the gates are free.
LEMMA NoneOpen ==
  ASSUME TypeOK, PickInv, GatesFree
  PROVE  \A p \in Procs : pick[p].new = {} /\ pick[p].runs = {}
BY DEF PickInv, GatesFree

\* An id that is not used belongs to no open transaction.
LEMMA UnusedId ==
  ASSUME NEW r \in RunIds, NextIds({r})
  PROVE  rows[r].status = "absent" /\ \A p \in Procs : \A n \in pick[p].new : n[2] # r
BY DEF NextIds, Unused, All

\* A run nobody ever claimed may be queued or skipped.
LEMMA UntouchedRun ==
  ASSUME NEW r \in RunIds, Untouched(r)', rows'[r].status \in {"queued", "skipped"},
         r \notin lost'.ended
  PROVE  RunInv(r)'
<1>1. /\ starts'[r] = 0 /\ report'[r] = "none"
      /\ \A p \in Procs : r \notin claimed'[p] /\ fut'[p][r].at = "none"
  BY DEF Untouched
<1>2. \A p \in Procs : ~Active(p, r)' /\ ~Waiting(p, r)' /\ ~HasEnded(p, r)'
  BY <1>1 DEF Active, Waiting, HasEnded
<1>3. Truthful("skipped", r)'
  BY <1>1 DEF Truthful
<1>4. rows'[r].status \in Terminal => rows'[r].status = "skipped"
  BY DEF Terminal
<1> QED BY <1>1, <1>2, <1>3, <1>4 DEF RunInv

\* A request's row: queued where that is allowed, or skipped.
LEMMA InsertRun ==
  ASSUME SchedInv, TypeOK', NEW t \in Tasks, NEW r \in RunIds, NEW s \in {"queued", "skipped"},
         NextIds({r}), rows' = [rows EXCEPT ![r] = NewRow(t, s, FALSE, "due")],
         UNCHANGED <<source, lost, procVars, hist>>,
         \A u \in Tasks : state'[u] = "archived" => state[u] = "archived",
         s = "queued" => state'[t] # "archived" /\ (t \in Sourced => source)
  PROVE  SchedInv'
<1>1. /\ rows'[r].status = s /\ rows'[r].task = t
      /\ \A q \in RunIds : q # r => rows'[q] = rows[q]
  <2>1. NewRow(t, s, FALSE, "due").status = s /\ NewRow(t, s, FALSE, "due").task = t
    BY DEF NewRow, NoRow
  <2>2. rows \in [RunIds -> RowSet]
    BY DEF SchedInv, TypeOK
  <2> QED BY <2>1, <2>2
<1>2. /\ rows[r].status = "absent"
      /\ \A p \in Procs : \A n \in pick[p].new : n[2] # r /\ n[1] \in Tasks /\ n[2] \in RunIds
  BY UnusedId DEF SchedInv, TypeOK, PickSet
<1>3. RowsKept
  <2>1. \A p \in Procs : \A n \in pick[p].new : rows'[n[2]].status = "absent" /\ state'[n[1]] # "archived"
    <3> HIDE DEF SchedInv
    <3>1. ASSUME NEW p \in Procs, NEW n \in pick[p].new
          PROVE  rows[n[2]].status = "absent" /\ state[n[1]] # "archived"
      BY DEF SchedInv, PickInv
    <3>2. ASSUME NEW p \in Procs, NEW n \in pick[p].new
          PROVE  n[2] # r /\ n[2] \in RunIds /\ n[1] \in Tasks
      BY <1>2
    <3> QED BY <1>1, <3>1, <3>2
  <2>2. \A q \in RunIds : rows[q].status # "absent" =>
          rows'[q].status # "absent" /\ rows'[q].task = rows[q].task
    BY <1>1, <1>2
  <2>3. \A q \in RunIds : rows'[q].status = "running" => rows[q].status = "running"
    BY <1>1
  <2> QED BY <2>1, <2>2, <2>3 DEF RowsKept, procVars
<1>4. PickInv' /\ OneLocalRow'
  BY <1>3, KeptRows DEF SchedInv
<1>5. ASSUME NEW q \in RunIds PROVE RunInv(q)'
  <2>1. CASE q # r
    BY <1>1, <2>1, KeptRuns DEF SchedInv, procVars, hist
  <2>2. CASE q = r
    <3>1. Untouched(r) /\ RunInv(r)
      BY <1>2 DEF SchedInv, RunInv
    <3>2. Untouched(r)'
      BY <3>1 DEF Untouched, procVars, hist
    <3>3. r \notin lost.ended /\ lost' = lost
      BY <1>2, <3>1 DEF RunInv
    <3>4. RunInv(r)'
      BY <1>1, <3>2, <3>3, UntouchedRun
    <3> QED BY <2>2, <3>4
  <2> QED BY <2>1, <2>2
<1>6. FencedTasksDoNotQueue'
  <2>1. ASSUME NEW q \in RunIds, rows'[q].status = "queued"
        PROVE  state'[rows'[q].task] # "archived" /\ (rows'[q].task \in Sourced => source')
    <3>1. CASE q = r
      BY <1>1, <2>1, <3>1
    <3>2. CASE q # r
      <4>1. rows[q].status = "queued" /\ rows'[q].task = rows[q].task /\ rows[q].task \in Tasks
        BY <1>1, <2>1, <3>2 DEF SchedInv, TypeOK, RowSet
      <4> QED BY <4>1 DEF SchedInv, FencedTasksDoNotQueue, All
    <3> QED BY <3>1, <3>2
  <2> QED BY <2>1 DEF FencedTasksDoNotQueue, All
<1> QED BY <1>4, <1>5, <1>6 DEF SchedInv

\* Requests keep the invariant.
LEMMA SafeRequest ==
  ASSUME SchedulerPolicy, SchedulerBounds, SchedInv, Request PROVE SchedInv'
<1>0. TypeOK /\ TypeOK'
  BY TypeRequest DEF SchedInv
<1>1. ASSUME NEW t \in Tasks, NEW scheduled \in BOOLEAN, Enqueue(t, scheduled) PROVE SchedInv'
  <2> DEFINE s == IF SkipReason(t) THEN "skipped" ELSE "queued"
  <2>1. PICK r \in RunIds : NextIds({r}) /\ rows' = [rows EXCEPT ![r] = NewRow(t, s, FALSE, "due")]
    BY <1>1 DEF Enqueue
  <2>2. \A u \in Tasks : state'[u] = "archived" <=> state[u] = "archived"
    BY <1>0, <1>1 DEF Enqueue, TypeOK
  <2>3. s = "queued" => state'[t] # "archived" /\ (t \in Sourced => source)
    BY <1>1, <2>2 DEF Enqueue, SkipReason
  <2>4. s \in {"queued", "skipped"}
    OBVIOUS
  <2> HIDE DEF s
  <2> QED BY <1>0, <1>1, <2>1, <2>2, <2>3, <2>4, InsertRun DEF Enqueue
<1>2. ASSUME NEW t \in Tasks, Misfire(t) PROVE SchedInv'
  <2>1. PICK r \in RunIds : NextIds({r}) /\ rows' = [rows EXCEPT ![r] = NewRow(t, "skipped", FALSE, "due")]
    BY <1>2 DEF Misfire
  <2>2. \A u \in Tasks : state'[u] = "archived" => state[u] = "archived"
    BY <1>0, <1>2 DEF Misfire, TypeOK
  <2> QED BY <1>0, <1>2, <2>1, <2>2, InsertRun DEF Misfire
<1>3. ASSUME NEW t \in Tasks, Reschedule(t) PROVE SchedInv'
  <2>1. \A u \in Tasks : state'[u] = "archived" <=> state[u] = "archived"
    BY <1>0, <1>3 DEF Reschedule, TypeOK
  <2>2. RowsKept
    <3>1. \A p \in Procs : \A n \in pick[p].new : n[1] \in Tasks
      BY <1>0 DEF TypeOK, PickSet
    <3> QED BY <1>3, <2>1, <3>1 DEF Reschedule, RowsKept, procVars, SchedInv, PickInv
  <2>3. PickInv' /\ OneLocalRow'
    BY <1>0, <2>2, KeptRows DEF SchedInv
  <2>4. \A q \in RunIds : RunInv(q)'
    BY <1>0, <1>3, KeptRuns DEF Reschedule, procVars, hist, SchedInv
  <2>5. FencedTasksDoNotQueue'
    <3>1. \A q \in RunIds : rows[q].task \in Tasks
      BY <1>0 DEF TypeOK, RowSet
    <3> QED BY <1>3, <2>1, <3>1 DEF Reschedule, SchedInv, FencedTasksDoNotQueue, All
  <2> QED BY <1>0, <2>3, <2>4, <2>5 DEF SchedInv
<1>4. ASSUME NEW S \in SUBSET All({"queued"}), rows' = Set(S, "skipped"),
             UNCHANGED <<lost, procVars, hist>>,
             \A p \in Procs : \A n \in pick[p].new : state'[n[1]] # "archived"
      PROVE  PickInv' /\ OneLocalRow' /\ \A q \in RunIds : RunInv(q)'
  <2>1. \A q \in RunIds : /\ rows'[q].status = IF q \in S THEN "skipped" ELSE rows[q].status
                          /\ rows'[q].task = rows[q].task
    BY <1>0, <1>4, SetFields DEF TypeOK
  <2>2. \A q \in S : q \in RunIds /\ rows[q].status = "queued"
    BY DEF All
  <2>3. RowsKept
    <3>1. \A p \in Procs : \A n \in pick[p].new : n[2] \in RunIds
      BY <1>0 DEF TypeOK, PickSet
    <3> QED BY <1>4, <2>1, <2>2, <3>1 DEF RowsKept, procVars, SchedInv, PickInv
  <2>4. PickInv' /\ OneLocalRow'
    BY <1>0, <2>3, KeptRows DEF SchedInv
  <2>5. ASSUME NEW q \in RunIds PROVE RunInv(q)'
    <3>1. CASE q \notin S
      BY <1>0, <1>4, <2>1, <3>1, KeptRuns DEF procVars, hist, SchedInv
    <3>2. CASE q \in S
      <4>1. Untouched(q) /\ RunInv(q)
        BY <2>2, <3>2 DEF SchedInv, RunInv
      <4>2. Untouched(q)'
        BY <1>4, <4>1 DEF Untouched, procVars, hist
      <4>3. q \notin lost.ended /\ lost' = lost
        BY <1>4, <2>2, <3>2, <4>1 DEF RunInv
      <4> QED BY <2>1, <3>2, <4>2, <4>3, UntouchedRun
    <3> QED BY <3>1, <3>2
  <2> QED BY <2>4, <2>5
<1>5. ASSUME NEW t \in Tasks, NEW target \in {"active", "paused", "archived"},
             ChangeState(t, target)
      PROVE  SchedInv'
  <2>1. ~TaskLocked(t) /\ MayBecome(t, target) /\ state' = [state EXCEPT ![t] = target]
    BY <1>5 DEF ChangeState
  <2>2. \A p \in Procs : \A n \in pick[p].new : n[1] # t /\ n[1] \in Tasks
    BY <1>0, <2>1 DEF TaskLocked, TypeOK, PickSet
  <2>3. \A p \in Procs : \A n \in pick[p].new : state'[n[1]] # "archived"
    BY <1>0, <2>1, <2>2 DEF SchedInv, PickInv, TypeOK
  <2>4. CASE target = "archived"
    <3>1. rows' = Set(Of(t, {"queued"}), "skipped") /\ Of(t, {"queued"}) \in SUBSET All({"queued"})
      BY <1>5, <2>4 DEF ChangeState, Of, All
    <3>2. PickInv' /\ OneLocalRow' /\ \A q \in RunIds : RunInv(q)'
      BY <1>4, <1>5, <2>3, <3>1 DEF ChangeState
    <3>3. FencedTasksDoNotQueue'
      <4>1. \A q \in RunIds : /\ rows'[q].status = IF q \in Of(t, {"queued"}) THEN "skipped" ELSE rows[q].status
                              /\ rows'[q].task = rows[q].task /\ rows[q].task \in Tasks
        BY <1>0, <3>1, SetFields DEF TypeOK, RowSet
      <4>2. \A u \in Tasks : u # t => state'[u] = state[u]
        BY <1>0, <2>1 DEF TypeOK
      <4> QED BY <1>5, <4>1, <4>2 DEF ChangeState, SchedInv, FencedTasksDoNotQueue, All, Of
    <3> QED BY <1>0, <3>2, <3>3 DEF SchedInv
  <2>5. CASE target # "archived"
    <3>1. rows' = rows /\ \A u \in Tasks : state'[u] = "archived" <=> state[u] = "archived"
      <4>1. rows' = rows
        BY <1>5, <2>5 DEF ChangeState
      <4>2. state[t] # "archived"
        BY <2>1, <2>5 DEF MayBecome
      <4> QED BY <1>0, <2>1, <2>5, <4>1, <4>2 DEF TypeOK
    <3>2. RowsKept
      <4>1. \A p \in Procs : pick[p].new \subseteq (Tasks \X RunIds \X Ages)
        BY <1>0 DEF TypeOK, PickSet
      <4> QED BY <1>5, <2>3, <3>1, <4>1 DEF ChangeState, RowsKept, procVars, SchedInv, PickInv
    <3>3. PickInv' /\ OneLocalRow'
      BY <1>0, <3>2, KeptRows DEF SchedInv
    <3>4. \A q \in RunIds : RunInv(q)'
      BY <1>0, <1>5, <3>1, KeptRuns DEF ChangeState, procVars, hist, SchedInv
    <3>5. FencedTasksDoNotQueue'
      <4>1. \A q \in RunIds : rows[q].task \in Tasks
        BY <1>0 DEF TypeOK, RowSet
      <4>2. source' = source
        BY <1>5 DEF ChangeState
      <4> HIDE DEF SchedInv
      <4>3. FencedTasksDoNotQueue
        BY DEF SchedInv
      <4> QED BY <3>1, <4>1, <4>2, <4>3 DEF FencedTasksDoNotQueue, All
    <3> QED BY <1>0, <3>3, <3>4, <3>5 DEF SchedInv
  <2> QED BY <2>4, <2>5
<1>6. ASSUME NEW enabled \in BOOLEAN, SetSource(enabled) PROVE SchedInv'
  <2>1. \A p \in Procs : pick[p].new = {}
    BY <1>0, <1>6, NoneOpen DEF SetSource, SchedInv
  <2> DEFINE S == IF enabled THEN {} ELSE UNION {Of(t, {"queued"}) : t \in Sourced}
  <2>2. \A q \in RunIds : /\ q \in S => rows[q].status = "queued"
                          /\ rows[q].status = "queued" /\ rows[q].task \in Sourced /\ ~enabled => q \in S
    <3>1. ASSUME NEW q \in RunIds, q \in S PROVE rows[q].status = "queued"
      <4>1. PICK t \in Sourced : q \in Of(t, {"queued"})
        BY <3>1
      <4> QED BY <4>1 DEF Of
    <3>2. ASSUME NEW q \in RunIds, rows[q].status = "queued", rows[q].task \in Sourced, ~enabled
          PROVE  q \in S
      <4>1. q \in Of(rows[q].task, {"queued"})
        BY <3>2 DEF Of
      <4> QED BY <3>2, <4>1
    <3> QED BY <3>1, <3>2
  <2>3. S \in SUBSET All({"queued"})
    BY DEF Of, All
  <2>4. rows' = Set(S, "skipped")
    <3>1. CASE ~enabled
      BY <1>6, <3>1 DEF SetSource
    <3>2. CASE enabled
      BY <1>0, <1>6, <3>2 DEF SetSource, Set, TypeOK
    <3> QED BY <3>1, <3>2
  <2> HIDE DEF S
  <2>5. PickInv' /\ OneLocalRow' /\ \A q \in RunIds : RunInv(q)'
    BY <1>4, <1>6, <2>1, <2>3, <2>4 DEF SetSource
  <2>6. FencedTasksDoNotQueue'
    <3>1. \A q \in RunIds : /\ rows'[q].status = IF q \in S THEN "skipped" ELSE rows[q].status
                            /\ rows'[q].task = rows[q].task
      BY <1>0, <2>4, SetFields DEF TypeOK
    <3> QED BY <1>6, <2>2, <3>1 DEF SetSource, SchedInv, FencedTasksDoNotQueue, All
  <2> QED BY <1>0, <2>5, <2>6 DEF SchedInv
<1>7. ASSUME NEW r \in RunIds, StopRun(r) \/ Age(r) PROVE SchedInv'
  <2>1. \A q \in RunIds : rows'[q].status = rows[q].status /\ rows'[q].task = rows[q].task
    <3>1. rows \in [RunIds -> RowSet]
      BY <1>0 DEF TypeOK
    <3>2. \A row \in RowSet : \A v : /\ [row EXCEPT !.cancel = v].status = row.status
                                     /\ [row EXCEPT !.cancel = v].task = row.task
                                     /\ [row EXCEPT !.age = v].status = row.status
                                     /\ [row EXCEPT !.age = v].task = row.task
      BY DEF RowSet
    <3>3. \/ rows' = [rows EXCEPT ![r] = [rows[r] EXCEPT !.cancel = TRUE]]
          \/ \E v : rows' = [rows EXCEPT ![r] = [rows[r] EXCEPT !.age = v]]
      BY <1>7 DEF StopRun, Age
    <3>4. rows'[r].status = rows[r].status /\ rows'[r].task = rows[r].task
      <4>1. PICK row : /\ rows' = [rows EXCEPT ![r] = row]
                       /\ row.status = rows[r].status /\ row.task = rows[r].task
        <5>1. CASE rows' = [rows EXCEPT ![r] = [rows[r] EXCEPT !.cancel = TRUE]]
          BY <3>1, <3>2, <5>1
        <5>2. CASE \E v : rows' = [rows EXCEPT ![r] = [rows[r] EXCEPT !.age = v]]
          <6>1. PICK v : rows' = [rows EXCEPT ![r] = [rows[r] EXCEPT !.age = v]]
            BY <5>2
          <6> DEFINE row == [rows[r] EXCEPT !.age = v]
          <6>2. row.status = rows[r].status /\ row.task = rows[r].task
            BY <3>1, <3>2
          <6>3. rows' = [rows EXCEPT ![r] = row]
            BY <6>1
          <6> HIDE DEF row
          <6> QED BY <6>2, <6>3
        <5> QED BY <3>3, <5>1, <5>2
      <4> QED BY <3>1, <4>1
    <3>5. \A q \in RunIds : q # r => rows'[q] = rows[q]
      BY <3>1, <3>3
    <3> QED BY <3>4, <3>5
  <2>2. UNCHANGED <<state, source, lost, pick, claimed, fut, starts, report>>
    BY <1>7 DEF StopRun, Age, procVars, hist
  <2>3. RowsKept
    <3>1. \A p \in Procs : pick[p].new \subseteq (Tasks \X RunIds \X Ages)
      BY <1>0 DEF TypeOK, PickSet
    <3> QED BY <2>1, <2>2, <3>1 DEF RowsKept, SchedInv, PickInv
  <2>4. PickInv' /\ OneLocalRow'
    BY <1>0, <2>3, KeptRows DEF SchedInv
  <2>5. \A q \in RunIds : RunInv(q)'
    BY <1>0, <2>1, <2>2, KeptRuns DEF SchedInv
  <2>6. FencedTasksDoNotQueue'
    BY <2>1, <2>2 DEF SchedInv, FencedTasksDoNotQueue, All
  <2> QED BY <1>0, <2>4, <2>5, <2>6 DEF SchedInv
<1> QED BY <1>1, <1>2, <1>3, <1>5, <1>6, <1>7 DEF Request

-----------------------------------------------------------------------------
(* Dispatches.                                                             *)

\* Of two due local updates one precedes the other.
LEMMA FirstIsSingle ==
  ASSUME SchedulerPolicy, NEW now, \A r \in RunIds : now[r].task \in Tasks,
         NEW S \in SUBSET RunIds, NEW r \in First(S, now), NEW q \in First(S, now)
  PROVE  r = q
<1>1. r \in RunIds /\ q \in RunIds /\ r \in S /\ q \in S
  BY DEF First
<1>2. ~Precedes(q, r, now) /\ ~Precedes(r, q, now)
  BY <1>1 DEF First
<1>3. r \in Int /\ q \in Int
  BY <1>1 DEF RunIds
<1>4. Priority[now[r].task] \in Int /\ Priority[now[q].task] \in Int
  BY <1>1 DEF SchedulerPolicy
<1> QED BY <1>2, <1>3, <1>4 DEF Precedes

\* The candidate query relies on what the transaction reads.
LEMMA SafeSelect ==
  ASSUME SchedulerPolicy, SchedulerBounds, SchedInv, TypeOK',
         NEW p \in Procs, NEW admitted \in BOOLEAN, Select(p, admitted)
  PROVE  SchedInv'
<1> DEFINE slots == MaxWorkers - Cardinality(Futures(p))
<1>1. PICK new \in IF admitted THEN Continuations ELSE {{}} :
        pick' = [pick EXCEPT ![p] =
          [open |-> TRUE, new |-> new, runs |-> Selected(With(new), slots, admitted)]]
  BY DEF Select
<1> DEFINE runs == Selected(With(new), slots, admitted)
<1>2. UNCHANGED <<state, source, rows, lost, claimed, fut, starts, report>>
  BY DEF Select, hist
<1>3. \A o \in Procs : ~pick[o].open /\ pick[o].new = {} /\ pick[o].runs = {}
  BY NoneOpen DEF Select, GatesFree, SchedInv
<1>4. /\ pick'[p].open /\ pick'[p].new = new /\ pick'[p].runs = runs
      /\ \A o \in Procs : o # p => pick'[o] = pick[o]
  BY <1>1 DEF SchedInv, TypeOK
<1>5. new \in SUBSET (Local \X Unused \X Ages) /\ \A n \in new : state[n[1]] = "active"
  BY <1>1, ContinuationFacts
<1>6. \A n \in new : /\ n[1] \in Local /\ n[2] \in RunIds /\ rows[n[2]].status = "absent"
                     /\ state[n[1]] # "archived"
  BY <1>5 DEF Unused, All
<1>7. /\ runs \subseteq RunIds
      /\ \A r \in runs : With(new)[r].status = "queued"
  BY SelectedRuns
<1>w. \A r \in RunIds :
        \/ With(new)[r] = rows[r] /\ \A n \in new : n[2] # r
        \/ \E n \in new : n[2] = r /\ With(new)[r] = NewRow(n[1], "queued", TRUE, n[3])
  BY ONLY WithRow
<1>8. \A r \in runs : rows[r].status # "absent" \/ \E n \in new : n[2] = r
  <2> HIDE DEF runs
  <2>1. ASSUME NEW r \in runs, \A n \in new : n[2] # r PROVE rows[r].status = "queued"
    <3>1. r \in RunIds /\ With(new)[r].status = "queued"
      BY <1>7
    <3>2. With(new)[r] = rows[r]
      BY <1>w, <2>1, <3>1
    <3> QED BY <3>1, <3>2
  <2> QED BY <2>1
<1>9. \A r \in RunIds : With(new)[r].task \in Tasks
  <2>1. new \in SUBSET (Tasks \X RunIds \X Ages)
    <3>1. Local \subseteq Tasks /\ Unused \subseteq RunIds
      BY DEF SchedulerPolicy, Unused, All
    <3> QED BY <1>5, <3>1
  <2>2. With(new) \in [RunIds -> RowSet]
    BY <2>1, WithType DEF SchedInv, TypeOK
  <2> QED BY <2>2 DEF RowSet
<1>10. ASSUME NEW r \in runs, IsLocal(p, r)' PROVE With(new)[r].task \in Local
  <2>1. r \in RunIds
    BY <1>7
  <2>2. CASE With(new)[r] = rows[r] /\ \A n \in new : n[2] # r
    BY <1>2, <1>4, <1>10, <2>2 DEF IsLocal
  <2>3. CASE \E n \in new : n[2] = r /\ With(new)[r] = NewRow(n[1], "queued", TRUE, n[3])
    <3>1. PICK n \in new : With(new)[r] = NewRow(n[1], "queued", TRUE, n[3])
      BY <2>3
    <3>2. With(new)[r].task = n[1]
      BY <3>1 DEF NewRow, NoRow
    <3> QED BY <1>6, <3>2
  <2>4. \/ With(new)[r] = rows[r] /\ \A n \in new : n[2] # r
        \/ \E n \in new : n[2] = r /\ With(new)[r] = NewRow(n[1], "queued", TRUE, n[3])
    BY ONLY <1>w, <2>1
  <2> QED BY ONLY <2>2, <2>3, <2>4
<1>11. ASSUME NEW r \in runs, NEW q \in runs, IsLocal(p, r)', IsLocal(p, q)' PROVE r = q
  <2> DEFINE due == {o \in RunIds : /\ With(new)[o].status = "queued" /\ With(new)[o].age # "future"
                                    /\ state[With(new)[o].task] # "archived"
                                    /\ With(new)[o].task \notin Sourced \/ source
                                    /\ With(new)[o].task \in Local}
  <2>1. r \in First(due, With(new)) /\ q \in First(due, With(new))
    BY <1>10, <1>11, SelectedRuns
  <2>2. due \in SUBSET RunIds
    OBVIOUS
  <2> HIDE DEF due
  <2> QED BY <1>9, <2>1, <2>2, FirstIsSingle
<1>12. ASSUME NEW r \in runs, IsLocal(p, r)', NEW q \in RunIds, rows[q].status = "running"
       PROVE  rows[q].task \notin Local
  <2>1. \A o \in All({"running"}) : rows[o].task \notin Local
    BY <1>10, <1>12, SelectedRuns
  <2> QED BY <1>12, <2>1 DEF All
<1> HIDE DEF runs
<1>13. PickInv'
  BY <1>2, <1>3, <1>4, <1>6, <1>8, <1>11, <1>12 DEF PickInv
<1>14. \A r \in RunIds : RunInv(r)'
  BY <1>2, KeptRuns DEF SchedInv
<1>15. OneLocalRow' /\ FencedTasksDoNotQueue'
  BY <1>2 DEF SchedInv, OneLocalRow, FencedTasksDoNotQueue, All
<1> QED BY <1>13, <1>14, <1>15 DEF SchedInv

\* A transaction that ends without writing.
LEMMA SafeAbort ==
  ASSUME SchedInv, TypeOK', NEW p \in Procs, pick' = [pick EXCEPT ![p] = NoPick],
         UNCHANGED <<state, rows>>
  PROVE  PickInv'
<1>1. /\ ~pick'[p].open /\ pick'[p].new = {} /\ pick'[p].runs = {}
      /\ \A o \in Procs : o # p => pick'[o] = pick[o]
  BY DEF SchedInv, TypeOK, NoPick
<1>2. \A o \in Procs : o # p => \A r \in pick[o].runs : IsLocal(o, r)' <=> IsLocal(o, r)
  BY <1>1 DEF IsLocal
<1> QED BY <1>1, <1>2 DEF SchedInv, PickInv

\* A transaction that adds its continuations and claims the runs S.
LEMMA SafeWrite ==
  ASSUME SchedulerPolicy, SchedulerBounds, SchedInv, TypeOK', NEW p \in Procs,
         NEW S \in SUBSET StillQueued(p), pick[p].open,
         rows' = Written(p, S), state' = Completed(p), pick' = [pick EXCEPT ![p] = NoPick],
         claimed' = [claimed EXCEPT ![p] = S] \/ claimed' = claimed,
         UNCHANGED <<source, lost, fut, starts, report>>
  PROVE  SchedInv'
<1> DEFINE new == pick[p].new
           IsNew(r) == \E n \in new : n[2] = r
<1>1. /\ new \in SUBSET (Tasks \X RunIds \X Ages)
      /\ pick[p].runs \subseteq RunIds
      /\ S \subseteq pick[p].runs /\ \A r \in S : With(new)[r].status = "queued"
      /\ rows \in [RunIds -> RowSet] /\ With(new) \in [RunIds -> RowSet]
  <2>1. new \in SUBSET (Tasks \X RunIds \X Ages) /\ pick[p].runs \subseteq RunIds
    BY DEF SchedInv, TypeOK, PickSet
  <2> QED BY <2>1, WithType DEF SchedInv, TypeOK, StillQueued
<1>2. \A n \in new : rows[n[2]].status = "absent" /\ n[1] \in Local /\ state[n[1]] # "archived"
  BY DEF SchedInv, PickInv
<1>w. \A r \in RunIds :
        \/ With(new)[r] = rows[r] /\ \A n \in new : n[2] # r
        \/ \E n \in new : n[2] = r /\ With(new)[r] = NewRow(n[1], "queued", TRUE, n[3])
  BY ONLY WithRow
<1>3. ASSUME NEW r \in RunIds, IsNew(r)
      PROVE  /\ With(new)[r].status = "queued" /\ With(new)[r].task \in Local
             /\ state[With(new)[r].task] # "archived" /\ rows[r].status = "absent"
  <2>1. PICK n \in new : n[2] = r /\ With(new)[r] = NewRow(n[1], "queued", TRUE, n[3])
    BY ONLY <1>3, <1>w
  <2>2. With(new)[r].status = "queued" /\ With(new)[r].task = n[1]
    BY <2>1 DEF NewRow, NoRow
  <2> QED BY <1>2, <2>1, <2>2
<1>4. ASSUME NEW r \in RunIds, ~IsNew(r) PROVE With(new)[r] = rows[r]
  BY ONLY <1>4, <1>w
<1>5. ASSUME NEW r \in RunIds
      PROVE  /\ rows'[r].status = IF r \in S THEN "running" ELSE With(new)[r].status
             /\ rows'[r].task = With(new)[r].task
  BY <1>1, RowFields DEF Written
<1> HIDE DEF new
<1>6. \A r \in S : r \in RunIds /\ rows[r].status \in {"absent", "queued"}
  BY <1>1, <1>3, <1>4
<1>7. \A t \in Tasks : state'[t] = state[t] \/ state'[t] = "completed"
  BY DEF Completed
<1>8. \A o \in Procs : ~pick'[o].open /\ pick'[o].new = {} /\ pick'[o].runs = {}
  BY DEF SchedInv, PickInv, TypeOK, NoPick
<1>9. PickInv'
  BY <1>8 DEF PickInv
<1>10. OneLocalRow'
  <2>1. ASSUME NEW r \in RunIds, rows'[r].status = "running", rows'[r].task \in Local, r \in S
        PROVE  IsLocal(p, r)
    BY <1>3, <1>4, <1>5, <2>1 DEF IsLocal, new
  <2>2. ASSUME NEW r \in RunIds, rows'[r].status = "running", rows'[r].task \in Local, r \notin S
        PROVE  rows[r].status = "running" /\ rows[r].task \in Local
    BY <1>3, <1>4, <1>5, <2>2
  <2>3. ASSUME NEW r \in RunIds, NEW q \in RunIds,
               rows'[r].status = "running", rows'[r].task \in Local,
               rows'[q].status = "running", rows'[q].task \in Local
        PROVE  r = q
    <3>1. CASE r \in S /\ q \in S
      BY <1>1, <2>1, <2>3, <3>1 DEF SchedInv, PickInv
    <3>2. CASE r \in S /\ q \notin S
      BY <1>1, <2>1, <2>2, <2>3, <3>2 DEF SchedInv, PickInv
    <3>3. CASE r \notin S /\ q \in S
      BY <1>1, <2>1, <2>2, <2>3, <3>3 DEF SchedInv, PickInv
    <3>4. CASE r \notin S /\ q \notin S
      BY <2>2, <2>3, <3>4 DEF SchedInv, OneLocalRow, All
    <3> QED BY <3>1, <3>2, <3>3, <3>4
  <2> QED BY <2>3 DEF OneLocalRow, All
<1>11. FencedTasksDoNotQueue'
  <2>1. ASSUME NEW r \in RunIds, rows'[r].status = "queued"
        PROVE  state'[rows'[r].task] # "archived" /\ (rows'[r].task \in Sourced => source')
    <3>1. r \notin S /\ With(new)[r].status = "queued" /\ rows'[r].task = With(new)[r].task
      BY <1>5, <2>1
    <3>2. With(new)[r].task \in Tasks
      BY <1>1 DEF RowSet
    <3>3. CASE IsNew(r)
      BY <1>3, <1>7, <3>1, <3>2, <3>3 DEF SchedulerPolicy
    <3>4. CASE ~IsNew(r)
      <4> HIDE DEF SchedInv, IsNew
      <4>1. With(new)[r] = rows[r]
        BY ONLY <1>4, <3>4, r \in RunIds
      <4>2. state[rows[r].task] # "archived" /\ (rows[r].task \in Sourced => source)
        <5>1. FencedTasksDoNotQueue
          BY DEF SchedInv
        <5> QED BY <3>1, <4>1, <5>1 DEF FencedTasksDoNotQueue, All
      <4>3. source' = source
        OBVIOUS
      <4> QED BY ONLY <1>7, <3>1, <3>2, <4>1, <4>2, <4>3
    <3> QED BY <3>3, <3>4
  <2> QED BY <2>1 DEF FencedTasksDoNotQueue, All
<1>12. ASSUME NEW r \in RunIds PROVE RunInv(r)'
  <2>0. RunInv(r)
    BY DEF SchedInv
  <2>1. CASE r \in S
    <3>1. Untouched(r) /\ r \notin lost.ended
      BY <1>6, <2>0, <2>1 DEF RunInv
    <3>2. rows'[r].status = "running"
      BY <1>5, <2>1
    <3>3. \A o \in Procs : /\ ~HasEnded(o, r)' /\ fut'[o][r].at = "none"
                           /\ Active(o, r)' => o = p
      BY <3>1 DEF Untouched, HasEnded, Active, SchedInv, TypeOK
    <3>4. starts'[r] = 0 /\ report'[r] = "none"
      BY <3>1 DEF Untouched
    <3>5. \A o \in Procs : /\ Waiting(o, r)' => starts'[r] = 0
                           /\ fut'[o][r].at \notin {"pending", "handler"}
      BY <3>3, <3>4 DEF Waiting, Active, HasEnded
    <3>6. r \notin lost'.ended
      BY <3>1
    <3> QED BY ONLY <3>2, <3>3, <3>4, <3>5, <3>6
         DEF RunInv, Terminal, Active, Waiting, HasEnded, Truthful
  <2>2. CASE r \notin S /\ IsNew(r)
    <3>1. Untouched(r) /\ r \notin lost.ended
      BY <1>3, <2>0, <2>2 DEF RunInv
    <3>2. rows'[r].status = "queued"
      BY <1>3, <1>5, <2>2
    <3>3. Untouched(r)'
      BY <2>2, <3>1 DEF Untouched, SchedInv, TypeOK
    <3> QED BY <3>1, <3>2, <3>3, UntouchedRun
  <2>3. CASE r \notin S /\ ~IsNew(r)
    <3>1. rows'[r].status = rows[r].status
      BY <1>4, <1>5, <2>3
    <3>2. \A o \in Procs : r \in claimed'[o] => r \in claimed[o]
      BY <2>3 DEF SchedInv, TypeOK
    <3> QED BY <3>1, <3>2, KeptRuns DEF SchedInv
  <2> QED BY <2>1, <2>2, <2>3
<1> QED BY <1>9, <1>10, <1>11, <1>12 DEF SchedInv

\* Dispatches keep the invariant.
LEMMA SafeDispatch ==
  ASSUME SchedulerPolicy, SchedulerBounds, SchedInv, Dispatch PROVE SchedInv'
<1>0. TypeOK /\ TypeOK'
  BY TypeDispatch DEF SchedInv
<1>1. ASSUME NEW p \in Procs, NEW admitted \in BOOLEAN, Select(p, admitted) PROVE SchedInv'
  BY <1>0, <1>1, SafeSelect
<1>2. ASSUME NEW p \in Procs, NEW S \in SUBSET StillQueued(p), Commit(p, S) PROVE SchedInv'
  BY <1>0, <1>2, SafeWrite DEF Commit, hist
<1>3. ASSUME NEW p \in Procs, CommitUnknown(p) PROVE SchedInv'
  BY <1>0, <1>3, SafeWrite DEF CommitUnknown
<1>4. ASSUME NEW p \in Procs, Abort(p) PROVE SchedInv'
  <2>1. UNCHANGED <<state, source, rows, lost, claimed, fut, starts, report>>
    BY <1>4 DEF Abort, hist
  <2>2. PickInv'
    BY <1>0, <1>4, <2>1, SafeAbort DEF Abort
  <2>3. \A r \in RunIds : RunInv(r)'
    BY <2>1, KeptRuns DEF SchedInv
  <2>4. OneLocalRow' /\ FencedTasksDoNotQueue'
    BY <2>1 DEF SchedInv, OneLocalRow, FencedTasksDoNotQueue, All
  <2> QED BY <1>0, <2>2, <2>3, <2>4 DEF SchedInv
<1>5. ASSUME NEW p \in Procs, NEW r \in RunIds, Submit(p, r) PROVE SchedInv'
  <2>1. UNCHANGED <<state, source, rows, lost, pick, starts, report>>
    BY <1>5 DEF Submit, hist
  <2>2. PickInv' /\ OneLocalRow' /\ FencedTasksDoNotQueue'
    BY <2>1 DEF SchedInv, PickInv, IsLocal, OneLocalRow, FencedTasksDoNotQueue, All
  <2>3. ASSUME NEW q \in RunIds PROVE RunInv(q)'
    <3>1. CASE q # r
      <4>1. /\ \A o \in Procs : fut'[o][q] = fut[o][q]
            /\ \A o \in Procs : q \in claimed'[o] => q \in claimed[o]
        BY <1>0, <1>5, <3>1 DEF Submit, TypeOK
      <4> QED BY <2>1, <4>1, KeptRuns DEF SchedInv
    <3>2. CASE q = r
      <4>1. /\ r \in claimed[p] /\ r \notin claimed'[p]
            /\ fut'[p][r].at = "pending" \/ fut'[p][r] = Done("failed")
            /\ \A o \in Procs : o # p => fut'[o][r] = fut[o][r] /\ claimed'[o] = claimed[o]
        BY <1>0, <1>5 DEF Submit, TypeOK, NoFuture
      <4>2. RunInv(r)
        BY DEF SchedInv
      <4>3. Active(p, r) /\ Waiting(p, r)
        BY <4>1 DEF Active, Waiting
      <4>4. starts[r] = 0 /\ report[r] = "none"
        BY <4>2, <4>3 DEF RunInv
      <4>5. \A o \in Procs : o # p => /\ fut'[o][r] = fut[o][r]
                                      /\ r \in claimed'[o] => r \in claimed[o]
        BY <4>1
      <4>6. /\ r \notin claimed'[p] /\ fut'[p][r].at \in {"pending", "done"}
            /\ fut'[p][r].at = "done" => fut'[p][r].out = "failed"
        BY <4>1 DEF Done
      <4>7. Truthful("failed", r)'
        BY <2>1, <4>4 DEF Truthful
      <4>8. RunInv(r)'
        BY <2>1, <4>2, <4>3, <4>4, <4>5, <4>6, <4>7, OwnStep
      <4> QED BY <3>2, <4>8
    <3> QED BY <3>1, <3>2
  <2> QED BY <1>0, <2>2, <2>3 DEF SchedInv
<1> QED BY <1>1, <1>2, <1>3, <1>4, <1>5 DEF Dispatch

-----------------------------------------------------------------------------
(* Threads, processes and the supervisor.                                  *)

\* Work keeps the invariant.
LEMMA SafeWork ==
  ASSUME SchedulerPolicy, SchedulerBounds, SchedInv, Work PROVE SchedInv'
<1>0. TypeOK /\ TypeOK'
  BY TypeWork DEF SchedInv
<1>1. ASSUME NEW p \in Procs, NEW r \in RunIds, Begin(p, r) PROVE SchedInv'
  <2>1. UNCHANGED <<state, source, rows, lost, pick, claimed, report>>
    BY <1>1 DEF Begin
  <2>2. PickInv' /\ OneLocalRow' /\ FencedTasksDoNotQueue'
    BY <2>1 DEF SchedInv, PickInv, IsLocal, OneLocalRow, FencedTasksDoNotQueue, All
  <2>3. ASSUME NEW q \in RunIds PROVE RunInv(q)'
    <3>1. CASE q # r
      <4>1. starts'[q] = starts[q] /\ \A o \in Procs : fut'[o][q] = fut[o][q]
        <5>1. starts' = starts \/ starts' = [starts EXCEPT ![r] = starts[r] + 1]
          BY <1>1 DEF Begin
        <5>2. \E f : fut' = [fut EXCEPT ![p][r] = f]
          BY <1>1 DEF Begin
        <5> QED BY <1>0, <3>1, <5>1, <5>2 DEF TypeOK
      <4> QED BY <1>0, <2>1, <4>1, KeptRuns DEF SchedInv
    <3>2. CASE q = r
      <4>1. /\ RunInv(r) /\ Active(p, r) /\ fut[p][r].at = "pending"
        BY <1>1 DEF SchedInv, Begin, Active
      <4>2. starts[r] = 0 /\ report[r] = "none" /\ r \notin claimed[p]
        BY <4>1 DEF RunInv, Waiting
      <4>3. \A o \in Procs : o # p => fut'[o][r] = fut[o][r]
        BY <1>0, <1>1 DEF Begin, TypeOK
      <4>4. \/ starts'[r] = 0 /\ fut'[p][r].at = "done" /\ fut'[p][r].out \in {"failed", "indeterminate", "skipped"}
            \/ starts'[r] = 1 /\ fut'[p][r].at = "handler"
        <5>1. fut[p][r] \in FutureSet /\ fut[p] \in [RunIds -> FutureSet]
          BY <1>0 DEF TypeOK
        <5>2. \A f \in FutureSet : [f EXCEPT !.at = "handler"].at = "handler"
          BY FieldType
        <5>3. \A out \in {"failed", "indeterminate", "skipped"} :
                Done(out).at = "done" /\ Done(out).out = out
          BY DEF Done
        <5>4. \A f : fut' = [fut EXCEPT ![p][r] = f] => fut'[p][r] = f
          BY <1>0, <5>1 DEF TypeOK
        <5>5. \/ \E out \in {"failed", "indeterminate", "skipped"} :
                    fut' = [fut EXCEPT ![p][r] = Done(out)] /\ starts' = starts
              \/ /\ fut' = [fut EXCEPT ![p][r] = [fut[p][r] EXCEPT !.at = "handler"]]
                 /\ starts' = [starts EXCEPT ![r] = starts[r] + 1]
          BY <1>1 DEF Begin
        <5>6. starts' = starts \/ starts'[r] = 1
          BY <1>0, <4>2, <5>5 DEF TypeOK
        <5> HIDE DEF Done
        <5>7. CASE \E out \in {"failed", "indeterminate", "skipped"} :
                     fut' = [fut EXCEPT ![p][r] = Done(out)] /\ starts' = starts
          BY ONLY <4>2, <5>3, <5>4, <5>7
        <5>9. CASE /\ fut' = [fut EXCEPT ![p][r] = [fut[p][r] EXCEPT !.at = "handler"]]
                   /\ starts' = [starts EXCEPT ![r] = starts[r] + 1]
          <6>1. starts'[r] = 1
            BY <1>0, <4>2, <5>9 DEF TypeOK
          <6> QED BY ONLY <5>1, <5>2, <5>4, <5>9, <6>1
        <5> QED BY ONLY <5>5, <5>7, <5>9
      <4>5. (fut[p][r].at = "done" => Truthful(fut[p][r].out, r))'
        BY <2>1, <4>2, <4>4 DEF Truthful
      <4>6. RunInv(r)'
        BY <2>1, <4>1, <4>2, <4>3, <4>4, <4>5, OwnStep
      <4> QED BY <3>2, <4>6
    <3> QED BY <3>1, <3>2
  <2> QED BY <1>0, <2>2, <2>3 DEF SchedInv
<1>2. ASSUME NEW p \in Procs, NEW r \in RunIds, NEW E, RecordIntent(p, r, E) PROVE SchedInv'
  <2>1. UNCHANGED <<state, source, rows, lost, pick, claimed, fut, starts, report>>
    BY <1>2 DEF RecordIntent, procVars, hist
  <2>2. PickInv' /\ OneLocalRow' /\ FencedTasksDoNotQueue'
    BY <2>1 DEF SchedInv, PickInv, IsLocal, OneLocalRow, FencedTasksDoNotQueue, All
  <2>3. \A q \in RunIds : RunInv(q)'
    BY <1>0, <2>1, KeptRuns DEF SchedInv
  <2> QED BY <1>0, <2>2, <2>3 DEF SchedInv
<1>3. ASSUME NEW p \in Procs, NEW r \in RunIds, NEW out \in {"succeeded", "failed", "cancelled"},
             NEW halt \in BOOLEAN, HandlerEnd(p, r, out, halt)
      PROVE  SchedInv'
  <2>1. UNCHANGED <<state, source, rows, lost, pick, claimed, starts>>
    BY <1>3 DEF HandlerEnd
  <2>2. PickInv' /\ OneLocalRow' /\ FencedTasksDoNotQueue'
    BY <2>1 DEF SchedInv, PickInv, IsLocal, OneLocalRow, FencedTasksDoNotQueue, All
  <2>3. ASSUME NEW q \in RunIds PROVE RunInv(q)'
    <3>1. CASE q # r
      <4>1. report'[q] = report[q] /\ \A o \in Procs : fut'[o][q] = fut[o][q]
        BY <1>0, <1>3, <3>1 DEF HandlerEnd, TypeOK
      <4> QED BY <1>0, <2>1, <4>1, KeptRuns DEF SchedInv
    <3>2. CASE q = r
      <4>1. /\ RunInv(r) /\ Active(p, r) /\ fut[p][r].at = "handler"
        BY <1>3 DEF SchedInv, HandlerEnd, Active
      <4>2. starts[r] = 1 /\ r \notin claimed[p]
        BY <4>1 DEF RunInv
      <4>3. \A o \in Procs : o # p => fut'[o][r] = fut[o][r]
        BY <1>0, <1>3 DEF HandlerEnd, TypeOK
      <4>4. fut'[p][r].at = "done" /\ fut'[p][r].out = out /\ report'[r] = out
        BY <1>0, <1>3 DEF HandlerEnd, TypeOK
      <4>5. (fut[p][r].at = "done" => Truthful(fut[p][r].out, r))'
        BY <4>4 DEF Truthful
      <4>6. RunInv(r)'
        BY <2>1, <4>1, <4>2, <4>3, <4>4, <4>5, OwnStep
      <4> QED BY <3>2, <4>6
    <3> QED BY <3>1, <3>2
  <2> QED BY <1>0, <2>2, <2>3 DEF SchedInv
<1>4. ASSUME NEW p \in Procs, NEW r \in RunIds,
             Persist(p, r) \/ KeepOutcome(p, r) \/ PersistUnknown(p, r)
      PROVE  SchedInv'
  <2>1. /\ UNCHANGED <<state, source, lost, pick, claimed, starts, report>>
        /\ HasEnded(p, r) /\ rows' \in {rows, Finished(r, fut[p][r])}
        /\ rows' # rows => r \notin lost.ended
    BY <1>4 DEF Persist, KeepOutcome, PersistUnknown, Reconciles, HasEnded, RowLocked, hist
  <2>2. fut[p][r].out \in Terminal
    BY <1>0, <2>1 DEF TypeOK, HasEnded
  <2>3. /\ \A q \in RunIds : rows'[q].task = rows[q].task /\ (q # r => rows'[q] = rows[q])
        /\ \/ rows'[r].status = rows[r].status
           \/ /\ rows[r].status = "running" /\ rows'[r].status = fut[p][r].out
              /\ r \notin lost.ended
    <3>1. rows \in [RunIds -> RowSet]
      BY <1>0 DEF TypeOK
    <3>2. CASE rows' = rows
      BY <3>2
    <3>3. CASE rows' # rows
      <4>1. /\ rows[r].status = "running" /\ r \notin lost.ended
            /\ rows' = [rows EXCEPT ![r] = [[rows[r] EXCEPT !.status = fut[p][r].out]
                                               EXCEPT !.halt = fut[p][r].halt]]
        BY <2>1, <3>3 DEF Finished
      <4>2. \A row \in RowSet : \A u, h :
              /\ [[row EXCEPT !.status = u] EXCEPT !.halt = h].status = u
              /\ [[row EXCEPT !.status = u] EXCEPT !.halt = h].task = row.task
        BY DEF RowSet
      <4> DEFINE row == [[rows[r] EXCEPT !.status = fut[p][r].out] EXCEPT !.halt = fut[p][r].halt]
      <4>3. row.status = fut[p][r].out /\ row.task = rows[r].task
        BY <3>1, <4>2
      <4>4. rows' = [rows EXCEPT ![r] = row]
        BY <4>1
      <4> HIDE DEF row
      <4>5. rows'[r] = row /\ \A q \in RunIds : q # r => rows'[q] = rows[q]
        BY <3>1, <4>4
      <4> QED BY <4>1, <4>3, <4>5
    <3> QED BY <3>2, <3>3
  <2>4. RowsKept
    <3>1. \A o \in Procs : pick[o].new \subseteq (Tasks \X RunIds \X Ages)
      BY <1>0 DEF TypeOK, PickSet
    <3>2. rows[r].status # "absent"
      BY <2>1 DEF SchedInv, RunInv, Untouched, HasEnded
    <3>3. \A o \in Procs : \A n \in pick[o].new : rows[n[2]].status = "absent" /\ state[n[1]] # "archived"
      BY DEF SchedInv, PickInv
    <3>4. fut[p][r].out \notin {"absent", "running"}
      BY <2>2 DEF Terminal
    <3> QED BY <2>1, <2>3, <3>1, <3>2, <3>3, <3>4 DEF RowsKept
  <2>5. PickInv' /\ OneLocalRow'
    BY <1>0, <2>4, KeptRows DEF SchedInv
  <2>6. FencedTasksDoNotQueue'
    <3>1. fut[p][r].out # "queued"
      BY <2>2 DEF Terminal
    <3>2. FencedTasksDoNotQueue
      BY DEF SchedInv
    <3>3. \A q \in RunIds : rows'[q].status = "queued" => rows[q].status = "queued"
      BY <2>3, <3>1
    <3> QED BY <2>1, <2>3, <3>2, <3>3 DEF FencedTasksDoNotQueue, All
  <2>7. fut'[p][r].at = "none" \/ (HasEnded(p, r)' /\ fut'[p][r].out = fut[p][r].out)
    <3>1. fut[p][r] \in FutureSet /\ fut[p] \in [RunIds -> FutureSet]
      BY <1>0 DEF TypeOK
    <3>2. \A f : fut' = [fut EXCEPT ![p][r] = f] => fut'[p][r] = f
      BY <1>0, <3>1 DEF TypeOK
    <3>3. /\ [fut[p][r] EXCEPT !.at = "kept"].at = "kept"
          /\ [fut[p][r] EXCEPT !.at = "kept"].out = fut[p][r].out
      BY <3>1, FieldType
    <3>4. \/ fut' = [fut EXCEPT ![p][r] = NoFuture]
          \/ fut' = [fut EXCEPT ![p][r] = [fut[p][r] EXCEPT !.at = "kept"]]
      BY <1>4 DEF Persist, KeepOutcome, PersistUnknown
    <3>5. NoFuture.at = "none"
      BY DEF NoFuture
    <3> HIDE DEF NoFuture
    <3>6. \/ fut'[p][r] = NoFuture
          \/ fut'[p][r] = [fut[p][r] EXCEPT !.at = "kept"]
      BY ONLY <3>2, <3>4
    <3> QED BY ONLY <3>3, <3>5, <3>6 DEF HasEnded
  <2>8. ASSUME NEW q \in RunIds PROVE RunInv(q)'
    <3>1. \A o \in Procs : \A u \in RunIds : o # p \/ u # r => fut'[o][u] = fut[o][u]
      BY <1>0, <1>4 DEF Persist, KeepOutcome, PersistUnknown, TypeOK
    <3>2. CASE q # r
      <4>1. \A o \in Procs : fut'[o][q] = fut[o][q]
        BY <3>1, <3>2
      <4>2. rows'[q].status = rows[q].status
        BY <2>3, <3>2
      <4> QED BY <1>0, <2>1, <4>1, <4>2, KeptRuns DEF SchedInv
    <3>3. CASE q = r
      <4>1. RunInv(r)
        BY DEF SchedInv
      <4>2. RunInv(r)'
        BY <2>1, <2>2, <2>3, <2>7, <3>1, <4>1, EndStep
      <4> QED BY <3>3, <4>2
    <3> QED BY <3>2, <3>3
  <2> QED BY <1>0, <2>5, <2>6, <2>8 DEF SchedInv
<1> QED BY <1>1, <1>2, <1>3, <1>4 DEF Work

\* Starting, stopping and losing processes, and the supervisor, keep it.
LEMMA SafeProcess ==
  ASSUME SchedulerPolicy, SchedulerBounds, SchedInv, Process \/ Supervise PROVE SchedInv'
<1>0. TypeOK /\ TypeOK'
  BY TypeProcess DEF SchedInv
<1>1. /\ \A o \in Procs : pick[o].new \subseteq (Tasks \X RunIds \X Ages)
      /\ \A o \in Procs : \A n \in pick[o].new : rows[n[2]].status = "absent" /\ state[n[1]] # "archived"
  BY <1>0 DEF TypeOK, PickSet, SchedInv, PickInv
\* Running rows of a set end.
<1>2. ASSUME NEW S \in SUBSET All({"running"}), NEW s \in Elsewhere, rows' = Set(S, s),
             UNCHANGED <<state, source, pick>>
      PROVE  /\ PickInv' /\ OneLocalRow' /\ FencedTasksDoNotQueue'
             /\ \A q \in RunIds : rows'[q].status = IF q \in S THEN s ELSE rows[q].status
  <2>1. \A q \in RunIds : /\ rows'[q].status = IF q \in S THEN s ELSE rows[q].status
                          /\ rows'[q].task = rows[q].task
    BY <1>0, <1>2, SetFields DEF TypeOK
  <2>2. \A q \in S : q \in RunIds /\ rows[q].status = "running"
    BY DEF All
  <2>3. s \notin {"absent", "queued", "running"}
    BY DEF Elsewhere
  <2>4. RowsKept
    BY <1>1, <1>2, <2>1, <2>2, <2>3 DEF RowsKept
  <2>5. PickInv' /\ OneLocalRow'
    BY <1>0, <2>4, KeptRows DEF SchedInv
  <2>6. FencedTasksDoNotQueue'
    <3>1. FencedTasksDoNotQueue
      BY DEF SchedInv
    <3> QED BY <1>2, <2>1, <2>3, <3>1 DEF FencedTasksDoNotQueue, All
  <2> QED BY <2>1, <2>5, <2>6
<1>3. ASSUME NEW p \in Procs, NEW late \in SUBSET All({"running"}), Start(p, late) PROVE SchedInv'
  <2>1. /\ UNCHANGED <<state, source, lost, pick, claimed, starts, report>>
        /\ rows' = Set(All({"running"}) \ late, "interrupted") /\ lost.ended = {}
    BY <1>3 DEF Start, hist
  <2>2. /\ PickInv' /\ OneLocalRow' /\ FencedTasksDoNotQueue'
        /\ \A q \in RunIds : rows'[q].status =
             IF q \in All({"running"}) \ late THEN "interrupted" ELSE rows[q].status
    BY <1>2, <2>1 DEF Elsewhere
  <2>3. ASSUME NEW q \in RunIds PROVE RunInv(q)'
    <3>1. \A o \in Procs : \/ fut'[o][q] = fut[o][q]
                           \/ fut'[o][q].at = "none"
                           \/ /\ fut'[o][q].at \in {"done", "kept"} /\ fut'[o][q].out \in Elsewhere
                              /\ rows[q].status \notin {"absent", "queued"}
      <4>1. \A o \in Procs : o # p => fut'[o] = fut[o]
        BY <1>0, <1>3 DEF Start, TypeOK
      <4>2. fut'[p][q] = IF q \in late THEN [Done("interrupted") EXCEPT !.at = "kept"] ELSE NoFuture
        BY <1>0, <1>3 DEF Start, TypeOK
      <4>3. q \in late => rows[q].status = "running"
        BY DEF All
      <4>4. NoFuture.at = "none"
        BY DEF NoFuture
      <4>5. /\ [Done("interrupted") EXCEPT !.at = "kept"].at = "kept"
            /\ [Done("interrupted") EXCEPT !.at = "kept"].out = "interrupted"
        BY DEF Done
      <4> HIDE DEF NoFuture, Done
      <4>6. CASE q \in late
        BY ONLY <4>1, <4>2, <4>3, <4>5, <4>6 DEF Elsewhere
      <4>7. CASE q \notin late
        BY ONLY <4>1, <4>2, <4>4, <4>7
      <4> QED BY <4>6, <4>7
    <3>2. \/ rows'[q].status = rows[q].status
          \/ rows[q].status = "running" /\ rows'[q].status \in Elsewhere
      BY <2>2 DEF All, Elsewhere
    <3> QED BY <2>1, <3>1, <3>2, Settle DEF SchedInv
  <2> QED BY <1>0, <2>2, <2>3 DEF SchedInv
<1>4. ASSUME NEW p \in Procs, Stop(p) PROVE SchedInv'
  <2>1. UNCHANGED <<state, source, rows, lost, pick, claimed, starts, report>>
    BY <1>4 DEF Stop
  <2>2. PickInv' /\ OneLocalRow' /\ FencedTasksDoNotQueue'
    BY <2>1 DEF SchedInv, PickInv, IsLocal, OneLocalRow, FencedTasksDoNotQueue, All
  <2>3. ASSUME NEW q \in RunIds PROVE RunInv(q)'
    <3>1. \A o \in Procs : \/ fut'[o][q] = fut[o][q]
                           \/ fut[o][q].at = "pending" /\ fut'[o][q] = Done("interrupted")
      BY <1>0, <1>4 DEF Stop, TypeOK
    <3>2. RunInv(q)
      BY DEF SchedInv
    <3>3. \A o \in Procs : fut[o][q].at = "pending" => rows[q].status \notin {"absent", "queued"}
      BY <3>2 DEF RunInv, Untouched
    <3>4. Done("interrupted").at = "done" /\ Done("interrupted").out \in Elsewhere
      BY DEF Done, Elsewhere
    <3> HIDE DEF Done
    <3>5. \A o \in Procs : \/ fut'[o][q] = fut[o][q]
                           \/ fut'[o][q].at = "none"
                           \/ /\ fut'[o][q].at \in {"done", "kept"} /\ fut'[o][q].out \in Elsewhere
                              /\ rows[q].status \notin {"absent", "queued"}
      BY <3>1, <3>3, <3>4
    <3>6. q \in lost'.ended => rows'[q].status = "running"
      BY <2>1, <3>2 DEF RunInv
    <3> QED BY <2>1, <3>2, <3>5, <3>6, Settle
  <2> QED BY <1>0, <2>2, <2>3 DEF SchedInv
<1>5. ASSUME NEW p \in Procs, Exit(p) \/ Crash(p) PROVE SchedInv'
  <2>1. Gone(p)
    BY <1>5 DEF Exit, Crash
  <2>2. /\ UNCHANGED <<state, source, rows, lost, starts, report>>
        /\ pick' = [pick EXCEPT ![p] = NoPick]
    BY <2>1 DEF Gone
  <2>3. PickInv'
    BY <1>0, <2>2, SafeAbort
  <2>4. OneLocalRow' /\ FencedTasksDoNotQueue'
    BY <2>2 DEF SchedInv, OneLocalRow, FencedTasksDoNotQueue, All
  <2>5. ASSUME NEW q \in RunIds PROVE RunInv(q)'
    <3>1. /\ \A o \in Procs : fut'[o][q] = fut[o][q] \/ fut'[o][q].at = "none"
          /\ \A o \in Procs : q \in claimed'[o] => q \in claimed[o]
      BY <1>0, <2>1 DEF Gone, TypeOK, NoFuture
    <3>2. RunInv(q)
      BY DEF SchedInv
    <3>3. q \in lost'.ended => rows'[q].status = "running"
      BY <2>2, <3>2 DEF RunInv
    <3> QED BY <2>2, <3>1, <3>2, <3>3, Settle
  <2> QED BY <1>0, <2>3, <2>4, <2>5 DEF SchedInv
<1>6. ASSUME \/ \E S \in SUBSET All({"running"}) : ListLost(S)
             \/ \E r \in RunIds : EndLost(r)
             \/ AbandonLost
      PROVE  SchedInv'
  <2>1. UNCHANGED <<state, source, rows, pick, claimed, fut, starts, report>>
    BY <1>6 DEF ListLost, EndLost, AbandonLost, procVars, hist
  <2>2. PickInv' /\ OneLocalRow' /\ FencedTasksDoNotQueue'
    BY <2>1 DEF SchedInv, PickInv, IsLocal, OneLocalRow, FencedTasksDoNotQueue, All
  <2>3. \A q \in RunIds : q \in lost'.ended => q \in lost.ended \/ rows[q].status = "running"
    <3>1. lost \in [look : SUBSET RunIds, ended : SUBSET RunIds, looks : Nat]
      BY <1>0 DEF TypeOK
    <3>2. CASE \E S \in SUBSET All({"running"}) : ListLost(S)
      BY <3>1, <3>2 DEF ListLost
    <3>3. CASE \E r \in RunIds : EndLost(r)
      BY <3>1, <3>3 DEF EndLost
    <3>4. CASE AbandonLost
      BY <3>1, <3>4 DEF AbandonLost
    <3> QED BY <1>6, <3>2, <3>3, <3>4
  <2>4. ASSUME NEW q \in RunIds PROVE RunInv(q)'
    <3>1. RunInv(q)
      BY DEF SchedInv
    <3>2. q \in lost'.ended => rows'[q].status = "running"
      BY <2>1, <2>3, <3>1 DEF RunInv
    <3> QED BY <2>1, <3>1, <3>2, Settle
  <2> QED BY <1>0, <2>2, <2>4 DEF SchedInv
<1>7. ASSUME CommitLost PROVE SchedInv'
  <2>1. /\ UNCHANGED <<state, source, pick, claimed, fut, starts, report>>
        /\ rows' = Set(lost.ended, "indeterminate") /\ lost'.ended = {}
    BY <1>0, <1>7 DEF CommitLost, procVars, hist, TypeOK
  <2>2. lost.ended \in SUBSET All({"running"})
    <3>1. \A q \in RunIds : q \in lost.ended => rows[q].status = "running"
      BY DEF SchedInv, RunInv
    <3> QED BY <1>0, <3>1 DEF TypeOK, All
  <2>3. /\ PickInv' /\ OneLocalRow' /\ FencedTasksDoNotQueue'
        /\ \A q \in RunIds : rows'[q].status =
             IF q \in lost.ended THEN "indeterminate" ELSE rows[q].status
    BY <1>2, <2>1, <2>2 DEF Elsewhere
  <2>4. ASSUME NEW q \in RunIds PROVE RunInv(q)'
    <3>1. \/ rows'[q].status = rows[q].status
          \/ rows[q].status = "running" /\ rows'[q].status \in Elsewhere
      BY <2>2, <2>3 DEF All, Elsewhere
    <3>2. q \notin lost'.ended
      BY <2>1
    <3> QED BY <2>1, <3>1, <3>2, Settle DEF SchedInv
  <2> QED BY <1>0, <2>3, <2>4 DEF SchedInv
<1> QED BY <1>3, <1>4, <1>5, <1>6, <1>7 DEF Process, Supervise

\* The invariant holds in every reachable state.
THEOREM SchedulerInvariant == Spec => []SchedInv
<1> USE SchedulerPolicy, SchedulerBounds
<1>1. Init => SchedInv
  <2> SUFFICES ASSUME Init PROVE SchedInv
    OBVIOUS
  <2>1. TypeOK
    BY RowType DEF Init, TypeOK, NoPick, PickSet, NoFuture, FutureSet, States
  <2>2. \A r \in RunIds : rows[r].status = "absent"
    BY DEF Init, NoRow
  <2>3. PickInv
    BY DEF Init, NoPick, PickInv
  <2>4. \A r \in RunIds : RunInv(r)
    BY <2>2 DEF Init, NoFuture, RunInv, Untouched, Active, Waiting, HasEnded, Terminal
  <2> QED BY <2>1, <2>2, <2>3, <2>4 DEF SchedInv, OneLocalRow, FencedTasksDoNotQueue, All
<1>2. SchedInv /\ [Next]_vars => SchedInv'
  <2>1. SchedInv /\ Next => SchedInv'
    BY SafeRequest, SafeDispatch, SafeWork, SafeProcess DEF Next
  <2>2. SchedInv /\ UNCHANGED vars => SchedInv'
    <3> SUFFICES ASSUME SchedInv, UNCHANGED vars PROVE SchedInv'
      OBVIOUS
    <3>1. UNCHANGED <<state, source, rows, lost, pick, claimed, fut, starts, report>>
      BY DEF vars, procVars, hist
    <3>2. TypeOK'
      BY DEF SchedInv, TypeOK, vars, procVars, hist
    <3>3. PickInv' /\ OneLocalRow' /\ FencedTasksDoNotQueue'
      BY <3>1 DEF SchedInv, PickInv, IsLocal, OneLocalRow, FencedTasksDoNotQueue, All
    <3>4. \A q \in RunIds : RunInv(q)'
      BY <3>1, KeptRuns DEF SchedInv
    <3> QED BY <3>2, <3>3, <3>4 DEF SchedInv
  <2> QED BY <2>1, <2>2
<1> QED BY <1>1, <1>2, PTL DEF Spec

\* A run's handler is started at most once, whatever fails or restarts.
THEOREM SchedulerStartsOnce == Spec => []StartedOnce
<1>1. SchedInv => StartedOnce
  BY DEF SchedInv, RunInv, StartedOnce
<1> QED BY <1>1, SchedulerInvariant, PTL

\* Two local updates are never recorded as running at once.
THEOREM SchedulerOneLocal == Spec => []OneLocalRow
<1>1. SchedInv => OneLocalRow
  BY DEF SchedInv
<1> QED BY <1>1, SchedulerInvariant, PTL

\* Nothing is queued behind an archived task or a disabled source.
THEOREM SchedulerFences == Spec => []FencedTasksDoNotQueue
<1>1. SchedInv => FencedTasksDoNotQueue
  BY DEF SchedInv
<1> QED BY <1>1, SchedulerInvariant, PTL

\* A row's end agrees with what its handler reported.
THEOREM SchedulerTruthfulEnd == Spec => []TruthfulEnd
<1>1. SchedInv => TruthfulEnd
  <2> SUFFICES ASSUME SchedInv, NEW r \in RunIds
               PROVE  /\ rows[r].status \in {"succeeded", "cancelled"} => report[r] = rows[r].status
                      /\ rows[r].status = "failed" => report[r] = "failed" \/ starts[r] = 0
                      /\ report[r] = "succeeded" =>
                           rows[r].status \in {"running", "succeeded", "interrupted", "indeterminate"}
    BY DEF TruthfulEnd
  <2>1. RunInv(r)
    BY DEF SchedInv
  <2>2. rows[r].status \in {"absent", "queued", "running"} \cup Terminal
    BY DEF SchedInv, TypeOK, RowSet
  <2> QED BY <2>1, <2>2 DEF RunInv, Untouched, Truthful, Terminal, Elsewhere
<1> QED BY <1>1, SchedulerInvariant, PTL

-----------------------------------------------------------------------------
(* Ended rows.                                                             *)

\* A step leaves the row of a run that has ended as it is.
LEMMA EndedStays ==
  ASSUME SchedulerPolicy, SchedulerBounds, SchedInv, Next,
         NEW r \in RunIds, rows[r].status \in Terminal
  PROVE  rows'[r] = rows[r]
<1>1. TypeOK /\ rows \in [RunIds -> RowSet] /\ rows[r].status \notin {"absent", "queued", "running"}
  BY DEF SchedInv, TypeOK, Terminal
<1>2. ASSUME NEW S, NEW s, rows' = Set(S, s), \A q \in S : rows[q].status \in {"queued", "running"}
      PROVE  rows'[r] = rows[r]
  BY <1>1, <1>2 DEF Set
<1>3. ASSUME NEW q \in RunIds, NEW row, rows' = [rows EXCEPT ![q] = row],
             rows[q].status \in {"absent", "queued", "running"}
      PROVE  rows'[r] = rows[r]
  BY <1>1, <1>3
<1>4. ASSUME NEW t, NEW s, NEW q \in RunIds, NextIds({q}),
             rows' = [rows EXCEPT ![q] = NewRow(t, s, FALSE, "due")]
      PROVE  rows'[r] = rows[r]
  <2>1. rows[q].status = "absent"
    BY <1>4, UnusedId
  <2> QED BY <1>3, <1>4, <2>1
<1>5. CASE Request
  <2>1. ASSUME NEW t \in Tasks, NEW scheduled \in BOOLEAN, Enqueue(t, scheduled)
        PROVE  rows'[r] = rows[r]
    <3> DEFINE s == IF SkipReason(t) THEN "skipped" ELSE "queued"
    <3>1. PICK q \in RunIds : NextIds({q}) /\ rows' = [rows EXCEPT ![q] = NewRow(t, s, FALSE, "due")]
      BY <2>1 DEF Enqueue
    <3> HIDE DEF s
    <3> QED BY <1>4, <3>1
  <2>2. ASSUME NEW t \in Tasks, Misfire(t) PROVE rows'[r] = rows[r]
    BY <1>4, <2>2 DEF Misfire
  <2>3. ASSUME NEW t \in Tasks, NEW target \in {"active", "paused", "archived"},
               ChangeState(t, target)
        PROVE  rows'[r] = rows[r]
    <3>1. rows' = rows \/ rows' = Set(Of(t, {"queued"}), "skipped")
      BY <2>3 DEF ChangeState
    <3>2. \A q \in Of(t, {"queued"}) : rows[q].status \in {"queued", "running"}
      BY DEF Of
    <3> QED BY <1>2, <3>1, <3>2
  <2>4. ASSUME NEW enabled \in BOOLEAN, SetSource(enabled) PROVE rows'[r] = rows[r]
    <3> DEFINE S == UNION {Of(t, {"queued"}) : t \in Sourced}
    <3>1. rows' = rows \/ rows' = Set(S, "skipped")
      BY <2>4 DEF SetSource
    <3>2. \A q \in S : rows[q].status \in {"queued", "running"}
      BY DEF Of
    <3> HIDE DEF S
    <3> QED BY <1>2, <3>1, <3>2
  <2>5. ASSUME NEW q \in RunIds, StopRun(q) \/ Age(q) PROVE rows'[r] = rows[r]
    <3>1. /\ rows[q].status \in {"queued", "running"}
          /\ \E row : rows' = [rows EXCEPT ![q] = row]
      BY <2>5 DEF StopRun, Age
    <3> QED BY <1>3, <3>1
  <2>6. ASSUME NEW t \in Tasks, Reschedule(t) PROVE rows'[r] = rows[r]
    BY <2>6 DEF Reschedule
  <2> QED BY <1>5, <2>1, <2>2, <2>3, <2>4, <2>5, <2>6 DEF Request
<1>6. CASE Dispatch
  <2>1. ASSUME NEW p \in Procs, NEW S \in SUBSET StillQueued(p), rows' = Written(p, S)
        PROVE  rows'[r] = rows[r]
    <3> DEFINE new == pick[p].new
    <3>w. \A q \in RunIds :
            \/ With(new)[q] = rows[q] /\ \A n \in new : n[2] # q
            \/ \E n \in new : n[2] = q /\ With(new)[q] = NewRow(n[1], "queued", TRUE, n[3])
      BY ONLY WithRow
    <3>1. \/ With(new)[r] = rows[r] /\ \A n \in new : n[2] # r
          \/ \E n \in new : n[2] = r
      BY <3>w
    <3>2. \A n \in new : n[2] # r
      <4>1. \A n \in new : rows[n[2]].status = "absent"
        BY DEF SchedInv, PickInv
      <4> QED BY <1>1, <4>1
    <3>3. With(new)[r] = rows[r]
      BY ONLY <3>1, <3>2
    <3>4. r \notin S
      BY <1>1, <3>3 DEF StillQueued
    <3> QED BY <2>1, <3>3, <3>4 DEF Written
  <2>2. \/ rows' = rows
        \/ \E p \in Procs : \E S \in SUBSET StillQueued(p) : rows' = Written(p, S)
    BY <1>6 DEF Dispatch, Select, Commit, Abort, CommitUnknown, Submit
  <2> QED BY <2>1, <2>2
<1>7. CASE Work
  <2>1. \/ rows' = rows
        \/ \E p \in Procs, q \in RunIds : rows' = Finished(q, fut[p][q])
    BY <1>7 DEF Work, Begin, Persist, KeepOutcome, PersistUnknown, RecordIntent, HandlerEnd
  <2> QED BY <1>1, <1>3, <2>1 DEF Finished
<1>8. CASE Process
  <2>1. ASSUME NEW late, rows' = Set(All({"running"}) \ late, "interrupted") PROVE rows'[r] = rows[r]
    <3>1. \A q \in All({"running"}) \ late : rows[q].status \in {"queued", "running"}
      BY DEF All
    <3> QED BY <1>2, <2>1, <3>1
  <2>2. rows' = rows \/ \E late : rows' = Set(All({"running"}) \ late, "interrupted")
    BY <1>8 DEF Process, Start, Stop, Exit, Crash, Gone
  <2> QED BY <2>1, <2>2
<1>9. CASE Supervise
  <2>1. \A q \in lost.ended : rows[q].status \in {"queued", "running"}
    BY <1>1 DEF SchedInv, RunInv, TypeOK
  <2>2. rows' = rows \/ rows' = Set(lost.ended, "indeterminate")
    BY <1>9 DEF Supervise, ListLost, EndLost, CommitLost, AbandonLost
  <2> QED BY <1>2, <2>1, <2>2
<1> QED BY <1>5, <1>6, <1>7, <1>8, <1>9 DEF Next

\* An ended row is never written again.
THEOREM SchedulerSettles == Spec => RunSettled
<1> USE SchedulerPolicy, SchedulerBounds
<1>1. SchedInv /\ [Next]_vars =>
        [\A r \in RunIds : rows[r].status \in Terminal => rows'[r] = rows[r]]_vars
  BY EndedStays
<1> QED BY <1>1, SchedulerInvariant, PTL DEF Spec, RunSettled

-----------------------------------------------------------------------------
(* Finite sets in an order.                                                *)

\* Among finitely many elements in a strict order one comes last.
LEMMA LastOne ==
  ASSUME NEW S, IsFiniteSet(S), S # {}, NEW R,
         \A x \in S : <<x, x>> \notin R,
         \A x, y, z \in S : <<x, y>> \in R /\ <<y, z>> \in R => <<x, z>> \in R,
         \A x, y \in S : x # y => <<x, y>> \in R \/ <<y, x>> \in R
  PROVE  \E m \in S : \A x \in S : x # m => <<x, m>> \in R
<1> DEFINE Later(x) == {y \in S : <<x, y>> \in R}
           Ns == {Cardinality(Later(x)) : x \in S}
<1>1. \A x \in S : IsFiniteSet(Later(x)) /\ Cardinality(Later(x)) \in Nat
  <2> SUFFICES ASSUME NEW x \in S PROVE IsFiniteSet(Later(x)) /\ Cardinality(Later(x)) \in Nat
    OBVIOUS
  <2>1. Later(x) \in SUBSET S
    OBVIOUS
  <2> HIDE DEF Later
  <2> QED BY <2>1, FS_Subset, FS_CardinalityType
<1>2. Ns \subseteq Nat /\ Ns # {}
  <2>1. \A k \in Ns : \E x \in S : k = Cardinality(Later(x))
    OBVIOUS
  <2>2. PICK x \in S : TRUE
    OBVIOUS
  <2>3. Cardinality(Later(x)) \in Ns
    OBVIOUS
  <2> HIDE DEF Ns, Later
  <2> QED BY <1>1, <2>1, <2>3
<1>3. PICK n \in Ns : \A k \in Ns : ~ (<<k, n>> \in OpToRel(<, Nat))
  BY <1>2, WFMin, NatLessThanWellFounded
<1>4. \A k \in Ns : ~ (k < n)
  BY <1>2, <1>3, Zenon DEF OpToRel
<1>5. PICK m \in S : n = Cardinality(Later(m))
  OBVIOUS
<1>6. ASSUME NEW x \in S, x # m, <<x, m>> \notin R PROVE FALSE
  <2>1. <<m, x>> \in R
    BY <1>6
  <2>2. Later(x) \in SUBSET Later(m) /\ x \in Later(m) /\ x \notin Later(x)
    BY <2>1
  <2>3. Cardinality(Later(x)) \in Ns
    OBVIOUS
  <2> HIDE DEF Later, Ns
  <2>4. Cardinality(Later(x)) <= Cardinality(Later(m)) /\ Cardinality(Later(x)) # Cardinality(Later(m))
    BY <1>1, <2>2, FS_Subset
  <2> QED BY <1>1, <1>4, <1>5, <2>3, <2>4
<1> QED BY <1>6

\* A set in which fewer than k elements precede each is no larger than k.
LEMMA BoundByLast ==
  ASSUME NEW S, IsFiniteSet(S), NEW R, NEW k \in Nat,
         \A x \in S : <<x, x>> \notin R,
         \A x, y, z \in S : <<x, y>> \in R /\ <<y, z>> \in R => <<x, z>> \in R,
         \A x, y \in S : x # y => <<x, y>> \in R \/ <<y, x>> \in R,
         \A m \in S : Cardinality({x \in S : <<x, m>> \in R}) < k
  PROVE  Cardinality(S) <= k
<1>1. CASE S = {}
  BY <1>1, FS_EmptySet
<1>2. CASE S # {}
  <2>1. PICK m \in S : \A x \in S : x # m => <<x, m>> \in R
    BY <1>2, LastOne
  <2>2. {x \in S : <<x, m>> \in R} = S \ {m}
    BY <2>1
  <2>3. Cardinality(S \ {m}) < k
    BY <2>2
  <2>4. Cardinality(S) \in Nat /\ Cardinality(S \ {m}) = Cardinality(S) - 1
    BY FS_CardinalityType, FS_RemoveElement
  <2> QED BY <2>3, <2>4
<1> QED BY <1>1, <1>2

\* Sets of runs are finite.
LEMMA RunsFinite ==
  ASSUME SchedulerBounds, NEW S \in SUBSET RunIds
  PROVE  IsFiniteSet(S) /\ Cardinality(S) \in Nat
<1>1. IsFiniteSet(RunIds)
  BY FS_Interval DEF RunIds, SchedulerBounds
<1> QED BY <1>1, FS_Subset, FS_CardinalityType

\* Fewer runs in fewer places.
LEMMA FewerRuns ==
  ASSUME SchedulerBounds, NEW T \in SUBSET RunIds, NEW S \in SUBSET T
  PROVE  Cardinality(S) <= Cardinality(T) /\ Cardinality(S) \in Nat /\ Cardinality(T) \in Nat
<1>1. S \in SUBSET RunIds
  OBVIOUS
<1> QED BY <1>1, RunsFinite, FS_Subset

\* Two sets of runs together.
LEMMA BothRuns ==
  ASSUME SchedulerBounds, NEW S \in SUBSET RunIds, NEW T \in SUBSET RunIds
  PROVE  Cardinality(S \cup T) <= Cardinality(S) + Cardinality(T) /\ Cardinality(S \cup T) \in Nat
<1>1. /\ IsFiniteSet(S) /\ IsFiniteSet(T) /\ Cardinality(S) \in Nat /\ Cardinality(T) \in Nat
      /\ S \cup T \in SUBSET RunIds /\ S \cap T \in SUBSET RunIds
  BY RunsFinite
<1>2. Cardinality(S \cup T) \in Nat /\ Cardinality(S \cap T) \in Nat
  BY <1>1, RunsFinite
<1>3. Cardinality(S \cup T) = Cardinality(S) + Cardinality(T) - Cardinality(S \cap T)
  BY <1>1, FS_Union
<1> QED BY <1>1, <1>2, <1>3

-----------------------------------------------------------------------------
(* What a dispatch selects and adds.                                       *)

Order(now) == {x \in RunIds \X RunIds : Precedes(x[1], x[2], now)}

\* Runs are selected in a strict order.
LEMMA OrderIsStrict ==
  ASSUME SchedulerPolicy, SchedulerBounds, NEW now, \A r \in RunIds : now[r].task \in Tasks
  PROVE  /\ \A x \in RunIds : <<x, x>> \notin Order(now)
         /\ \A x, y, z \in RunIds :
              <<x, y>> \in Order(now) /\ <<y, z>> \in Order(now) => <<x, z>> \in Order(now)
         /\ \A x, y \in RunIds : x # y => <<x, y>> \in Order(now) \/ <<y, x>> \in Order(now)
<1>1. \A x, y \in RunIds : <<x, y>> \in Order(now) <=> Precedes(x, y, now)
  BY DEF Order
<1>2. \A x \in RunIds : Priority[now[x].task] \in Int /\ x \in Int
  <2> SUFFICES ASSUME NEW x \in RunIds PROVE Priority[now[x].task] \in Int /\ x \in Int
    OBVIOUS
  <2>1. now[x].task \in Tasks /\ Priority \in [Tasks -> Int]
    BY DEF SchedulerPolicy
  <2>2. x \in Int
    BY DEF RunIds
  <2> QED BY <2>1, <2>2
<1>3. \A x \in RunIds : ~Precedes(x, x, now)
  BY <1>2 DEF Precedes
<1>4. \A x, y, z \in RunIds : Precedes(x, y, now) /\ Precedes(y, z, now) => Precedes(x, z, now)
  BY <1>2 DEF Precedes
<1>5. \A x, y \in RunIds : x # y => Precedes(x, y, now) \/ Precedes(y, x, now)
  BY <1>2 DEF Precedes
<1> QED BY <1>1, <1>3, <1>4, <1>5

\* The selected runs fit the free threads and every task's limit.
LEMMA SelectedFit ==
  ASSUME SchedulerPolicy, SchedulerBounds, NEW now, \A r \in RunIds : now[r].task \in Tasks,
         NEW slots \in Nat, NEW admitted
  PROVE  LET runs == Selected(now, slots, admitted) IN
         /\ runs \in SUBSET RunIds
         /\ Cardinality(runs) <= slots
         /\ \A t \in Tasks : Running(t) <= Concurrency[t] =>
              Running(t) + Cardinality({r \in runs : now[r].task = t}) <= Concurrency[t]
<1> DEFINE due   == {r \in RunIds : /\ now[r].status = "queued" /\ now[r].age # "future"
                                    /\ state[now[r].task] # "archived"
                                    /\ now[r].task \notin Sourced \/ source}
           local == {r \in due : now[r].task \in Local}
           free  == admitted /\ \A r \in All({"running"}) : rows[r].task \notin Local
           able  == {r \in due : /\ Running(now[r].task) < Concurrency[now[r].task]
                                 /\ r \in local => free /\ r \in First(local, now)}
           ahead(r) == {q \in able : now[q].task = now[r].task /\ Precedes(q, r, now)}
           rank  == {r \in able : Cardinality(ahead(r)) + Running(now[r].task)
                                    < Concurrency[now[r].task]}
           runs  == {r \in rank : Cardinality({q \in rank : Precedes(q, r, now)}) < slots}
           R     == Order(now)
<1>1. Selected(now, slots, admitted) = runs
  BY DEF Selected
<1>2. runs \subseteq rank /\ rank \subseteq able /\ able \subseteq RunIds
  OBVIOUS
<1>3. \A r \in runs : Cardinality({q \in rank : Precedes(q, r, now)}) < slots
  OBVIOUS
<1>4. \A r \in rank : Cardinality({q \in able : now[q].task = now[r].task /\ Precedes(q, r, now)})
                        + Running(now[r].task) < Concurrency[now[r].task]
  OBVIOUS
<1> HIDE DEF runs, rank, able
<1>5. \A S \in SUBSET RunIds :
        /\ IsFiniteSet(S)
        /\ \A x \in S : <<x, x>> \notin R
        /\ \A x, y, z \in S : <<x, y>> \in R /\ <<y, z>> \in R => <<x, z>> \in R
        /\ \A x, y \in S : x # y => <<x, y>> \in R \/ <<y, x>> \in R
  BY RunsFinite, OrderIsStrict
<1>6. \A x, y \in RunIds : <<x, y>> \in R <=> Precedes(x, y, now)
  BY DEF Order
<1> HIDE DEF R
<1>7. Cardinality(runs) <= slots
  <2>1. ASSUME NEW m \in runs PROVE Cardinality({x \in runs : <<x, m>> \in R}) < slots
    <3>1. {x \in runs : <<x, m>> \in R} \subseteq {q \in rank : Precedes(q, m, now)}
      BY <1>2, <1>6
    <3>2. {q \in rank : Precedes(q, m, now)} \subseteq RunIds
      BY <1>2
    <3>3. Cardinality({x \in runs : <<x, m>> \in R}) <= Cardinality({q \in rank : Precedes(q, m, now)})
          /\ Cardinality({x \in runs : <<x, m>> \in R}) \in Nat
          /\ Cardinality({q \in rank : Precedes(q, m, now)}) \in Nat
      BY <3>1, <3>2, FewerRuns
    <3> QED BY <3>3, <1>3
  <2>2. runs \in SUBSET RunIds
    BY <1>2
  <2>3. /\ IsFiniteSet(runs)
        /\ \A x \in runs : <<x, x>> \notin R
        /\ \A x, y, z \in runs : <<x, y>> \in R /\ <<y, z>> \in R => <<x, z>> \in R
        /\ \A x, y \in runs : x # y => <<x, y>> \in R \/ <<y, x>> \in R
    BY ONLY <1>5, <2>2
  <2> QED BY ONLY <2>1, <2>3, slots \in Nat, BoundByLast
<1>8. ASSUME NEW t \in Tasks, Running(t) <= Concurrency[t]
      PROVE  Running(t) + Cardinality({r \in runs : now[r].task = t}) <= Concurrency[t]
  <2> DEFINE S == {r \in runs : now[r].task = t}
             k == Concurrency[t] - Running(t)
  <2>1. Running(t) \in Nat /\ Concurrency[t] \in Nat
    BY RunsFinite DEF Running, Of, SchedulerPolicy
  <2>2. k \in Nat
    BY <2>1, <1>8
  <2>3. S \in SUBSET RunIds
    BY <1>2
  <2>4. ASSUME NEW m \in S PROVE Cardinality({x \in S : <<x, m>> \in R}) < k
    <3> DEFINE A == {q \in able : now[q].task = now[m].task /\ Precedes(q, m, now)}
    <3>1. {x \in S : <<x, m>> \in R} \subseteq A
      BY <1>2, <1>6
    <3>2. A \subseteq RunIds
      BY <1>2
    <3>3. Cardinality({x \in S : <<x, m>> \in R}) <= Cardinality(A)
          /\ Cardinality({x \in S : <<x, m>> \in R}) \in Nat /\ Cardinality(A) \in Nat
      BY <3>1, <3>2, FewerRuns
    <3>4. m \in rank /\ now[m].task = t
      BY <1>2
    <3>5. Cardinality(A) + Running(t) < Concurrency[t]
      BY <3>4, <1>4
    <3> QED BY <3>3, <3>5, <2>1
  <2> HIDE DEF S, k
  <2>5. Cardinality(S) <= k
    <3>1. /\ IsFiniteSet(S)
          /\ \A x \in S : <<x, x>> \notin R
          /\ \A x, y, z \in S : <<x, y>> \in R /\ <<y, z>> \in R => <<x, z>> \in R
          /\ \A x, y \in S : x # y => <<x, y>> \in R \/ <<y, x>> \in R
      BY ONLY <1>5, <2>3
    <3> QED BY ONLY <2>2, <2>4, <3>1, BoundByLast
  <2>6. Cardinality(S) \in Nat
    BY <2>3, RunsFinite
  <2> QED BY <2>1, <2>5, <2>6 DEF S, k
<1> QED BY <1>1, <1>2, <1>7, <1>8

\* The continuations fit the queue, have ids of their own, and cover what
\* neither the rows of the table nor each other cover.
LEMMA ContinuationsFit ==
  ASSUME SchedulerPolicy, SchedulerBounds, QueueBounded, NEW new \in Continuations
  PROVE  /\ IsFiniteSet(new) /\ Cardinality(All({"queued"})) + Cardinality(new) <= MaxQueued
         /\ \A n \in new : n[1] \in Local /\ n[2] \in Unused /\ Covers[n[1]] \cap Covered = {}
         /\ \A n, m \in new : n # m => n[2] # m[2] /\ Covers[n[1]] \cap Covers[m[1]] = {}
<1> DEFINE count == Cardinality(All({"queued"}))
<1>1. count \in Nat /\ count <= MaxQueued /\ MaxQueued \in Nat
  BY RunsFinite DEF QueueBounded, All, SchedulerBounds
<1>2. CASE new = {}
  BY <1>1, <1>2, FS_EmptySet
<1>3. CASE new # {}
  <2>1. PICK C \in SUBSET Local, age \in Ages :
          /\ \A t \in C : Wanted(t, C)
          /\ new \in Numbered(C, age)
    <3>1. PICK C \in SUBSET Local, age \in Ages :
            /\ \A t \in C : Wanted(t, C)
            /\ new \in IF Cardinality(C) <= Cardinality(Unused) THEN Numbered(C, age) ELSE {{}}
      BY DEF Continuations
    <3> QED BY <3>1, <1>3
  <2>2. \A n \in new : n \in C \X Unused \X {age}
    BY <2>1 DEF Numbered
  <2>3. \A n, m \in new : (n[1] < m[1] => n[2] < m[2]) /\ (n[1] = m[1] => n = m)
    BY <2>1 DEF Numbered
  <2>4. \A n \in new : n[1] \in C /\ n[2] \in Unused /\ n[1] \in Int /\ n[1] >= 0 /\ n[2] \in Int
    <3> SUFFICES ASSUME NEW n \in new
                 PROVE  n[1] \in C /\ n[2] \in Unused /\ n[1] \in Int /\ n[1] >= 0 /\ n[2] \in Int
      OBVIOUS
    <3>1. n[1] \in C /\ n[2] \in Unused
      BY <2>2
    <3>2. \A t \in C : t \in Nat
      BY <2>1 DEF SchedulerPolicy
    <3>3. \A r \in Unused : r \in Int
      BY DEF Unused, All, RunIds
    <3>4. n[1] \in Nat /\ n[2] \in Int
      BY ONLY <3>1, <3>2, <3>3, Zenon
    <3>5. \A i \in Nat : i \in Int /\ i >= 0
      OBVIOUS
    <3> QED BY ONLY <3>1, <3>4, <3>5
  <2>5. \A n, m \in new : (n[2] < m[2] <=> n[1] < m[1]) /\ (n[2] = m[2] => n = m)
    BY <2>3, <2>4
  <2>6. \A t \in C : /\ Covers[t] \cap Covered = {}
                     /\ \A u \in C : u < t => Covers[t] \cap Covers[u] = {}
                     /\ count + Cardinality({u \in C : u < t}) < MaxQueued
    <3> SUFFICES ASSUME NEW t \in C
                 PROVE  /\ Covers[t] \cap Covered = {}
                        /\ \A u \in C : u < t => Covers[t] \cap Covers[u] = {}
                        /\ count + Cardinality({u \in C : u < t}) < MaxQueued
      OBVIOUS
    <3>1. Wanted(t, C)
      BY <2>1
    <3>2. count + Cardinality({u \in C : u < t}) < MaxQueued
      BY <3>1 DEF Wanted
    <3>3. Covers[t] \cap (Covered \cup UNION {Covers[u] : u \in {v \in C : v < t}}) = {}
      BY <3>1 DEF Wanted
    <3> QED BY <3>2, <3>3
  <2> HIDE DEF count
  <2>7. \A n, m \in new : n # m => Covers[n[1]] \cap Covers[m[1]] = {}
    <3> SUFFICES ASSUME NEW n \in new, NEW m \in new, n # m PROVE Covers[n[1]] \cap Covers[m[1]] = {}
      OBVIOUS
    <3>1. n[1] < m[1] \/ m[1] < n[1]
      BY <2>3, <2>4
    <3> QED BY <3>1, <2>4, <2>6
  <2>8. IsFiniteSet(new)
    <3> DEFINE f == [n \in new |-> n[2]]
    <3>1. f \in Injection(new, RunIds)
      BY <2>4, <2>5 DEF Injection, IsInjective, Unused, All
    <3>2. IsFiniteSet(RunIds)
      BY RunsFinite
    <3> HIDE DEF f
    <3> QED BY <3>1, <3>2, FS_Injection
  <2> DEFINE R == {x \in new \X new : x[1][2] < x[2][2]}
             k == MaxQueued - count
  <2>9. \A n, m \in new : <<n, m>> \in R <=> n[2] < m[2]
    OBVIOUS
  <2>10. ASSUME NEW m \in new PROVE Cardinality({n \in new : <<n, m>> \in R}) < k
    <3> DEFINE S == {n \in new : <<n, m>> \in R}
               U == {u \in C : u < m[1]}
               f == [n \in S |-> n[1]]
    <3>1. count + Cardinality(U) < MaxQueued
      BY <2>4, <2>6
    <3>2. IsFiniteSet(U) /\ Cardinality(U) \in Nat
      <4>1. U \in SUBSET (0..m[1])
        <5>1. \A u \in C : u \in Nat
          BY <2>1 DEF SchedulerPolicy
        <5>2. m[1] \in Nat
          BY <2>4, <5>1
        <5>3. \A i \in Nat, j \in Nat : i < j => i \in 0..j
          OBVIOUS
        <5> QED BY <5>1, <5>2, <5>3
      <4>2. IsFiniteSet(0..m[1])
        BY <2>4, FS_Interval
      <4> HIDE DEF U
      <4> QED BY <4>1, <4>2, FS_Subset, FS_CardinalityType
    <3>3. f \in Injection(S, U)
      BY <2>3, <2>4, <2>5, <2>9 DEF Injection, IsInjective
    <3>4. IsFiniteSet(S)
      BY <2>8, FS_Subset
    <3> HIDE DEF S, U, f
    <3>5. Cardinality(S) <= Cardinality(U) /\ Cardinality(S) \in Nat
      BY <3>2, <3>3, <3>4, FS_Injection, FS_CardinalityType
    <3> QED BY <1>1, <3>1, <3>2, <3>5 DEF S
  <2>11. k \in Nat
    BY <1>1
  <2>12. /\ \A x \in new : <<x, x>> \notin R
         /\ \A x, y, z \in new : <<x, y>> \in R /\ <<y, z>> \in R => <<x, z>> \in R
         /\ \A x, y \in new : x # y => <<x, y>> \in R \/ <<y, x>> \in R
    BY <2>4, <2>5, <2>9
  <2> HIDE DEF R, k
  <2>13. Cardinality(new) <= k
    BY ONLY <2>8, <2>10, <2>11, <2>12, BoundByLast
  <2>14. Cardinality(new) \in Nat
    BY <2>8, FS_CardinalityType
  <2>15. count + Cardinality(new) <= MaxQueued
    BY <1>1, <2>13, <2>14 DEF k
  <2>16. \A n \in new : n[1] \in Local /\ n[2] \in Unused /\ Covers[n[1]] \cap Covered = {}
    BY <2>4, <2>6
  <2>17. \A n, m \in new : n # m => n[2] # m[2]
    BY <2>5
  <2> QED BY <2>7, <2>8, <2>15, <2>16, <2>17 DEF count
<1> QED BY <1>2, <1>3

-----------------------------------------------------------------------------
(* The invariant.                                                          *)

\* What an open dispatch adds and has selected still fits the limits, because
\* nobody else adds rows to the queue, or makes rows running, before it ends.
PickFits(p) ==
  LET new == pick[p].new
      runs == pick[p].runs
  IN  /\ IsFiniteSet(new) /\ Cardinality(All({"queued"})) + Cardinality(new) <= MaxQueued
      /\ \A t \in Tasks : Running(t) + Cardinality({r \in runs : With(new)[r].task = t}) <= Concurrency[t]
      /\ Cardinality(Busy(p)) + Cardinality(runs) <= MaxWorkers
      /\ \A n \in new : n[1] \in Local /\ Covers[n[1]] \cap Covered = {}
      /\ \A n, m \in new : n # m => n[2] # m[2] /\ Covers[n[1]] \cap Covers[m[1]] = {}

LimitInv ==
  /\ QueueBounded /\ LimitRespected /\ WithinWorkers /\ OneContinuation
  /\ \A r \in RunIds : rows[r].auto => rows[r].task \in Local
  /\ \A p \in Procs : pick[p].open => PickFits(p)
-----------------------------------------------------------------------------
(* Steps that add nothing to the queue and start nothing.                  *)

RowsShrink ==
  \A r \in RunIds :
    /\ rows'[r].task = rows[r].task /\ rows'[r].auto = rows[r].auto
    /\ rows'[r].status \in {"queued", "running"} => rows'[r].status = rows[r].status
BusyShrinks == \A p \in Procs : Busy(p)' \subseteq Busy(p)
PicksShrink == \A p \in Procs : pick'[p] = pick[p] \/ pick'[p] = NoPick

\* Fewer rows cover fewer entries.
LEMMA CoveredShrinks ==
  ASSUME RowsShrink
  PROVE  Covered' \subseteq Covered
<1>1. \A t : Of(t, {"queued", "running"})' \subseteq Of(t, {"queued", "running"})
  BY DEF RowsShrink, Of
<1> QED BY <1>1 DEF Covered

\* The tasks of selected rows stay.
LEMMA WithShrinks ==
  ASSUME RowsShrink, NEW new, NEW r \in RunIds
  PROVE  With(new)'[r].task = With(new)[r].task
BY DEF RowsShrink, With

\* Such steps leave the limits respected.
LEMMA ShrinksKeep ==
  ASSUME SchedulerPolicy, SchedulerBounds, TypeOK, LimitInv, RowsShrink, BusyShrinks, PicksShrink
  PROVE  LimitInv'
<1>1. All({"queued"})' \in SUBSET All({"queued"}) /\ All({"queued"}) \in SUBSET RunIds
  BY DEF All, RowsShrink
<1>2. Cardinality(All({"queued"})') <= Cardinality(All({"queued"}))
      /\ Cardinality(All({"queued"})') \in Nat /\ Cardinality(All({"queued"})) \in Nat
  BY <1>1, FewerRuns
<1>3. MaxQueued \in Nat /\ MaxWorkers \in Nat /\ \A t \in Tasks : Concurrency[t] \in Nat
  BY DEF SchedulerBounds, SchedulerPolicy
<1>4. QueueBounded'
  BY <1>2, <1>3 DEF LimitInv, QueueBounded
<1>5. \A t \in Tasks : Running(t)' <= Running(t) /\ Running(t)' \in Nat /\ Running(t) \in Nat
  <2> SUFFICES ASSUME NEW t \in Tasks
               PROVE  Running(t)' <= Running(t) /\ Running(t)' \in Nat /\ Running(t) \in Nat
    OBVIOUS
  <2>1. Of(t, {"running"})' \in SUBSET Of(t, {"running"}) /\ Of(t, {"running"}) \in SUBSET RunIds
    BY DEF Of, RowsShrink
  <2> QED BY <2>1, FewerRuns DEF Running
<1>6. LimitRespected'
  BY <1>3, <1>5 DEF LimitInv, LimitRespected
<1>7. \A p \in Procs : Cardinality(Busy(p)') <= Cardinality(Busy(p))
                       /\ Cardinality(Busy(p)') \in Nat /\ Cardinality(Busy(p)) \in Nat
  <2> SUFFICES ASSUME NEW p \in Procs
               PROVE  Cardinality(Busy(p)') <= Cardinality(Busy(p))
                      /\ Cardinality(Busy(p)') \in Nat /\ Cardinality(Busy(p)) \in Nat
    OBVIOUS
  <2>1. Busy(p)' \in SUBSET Busy(p) /\ Busy(p) \in SUBSET RunIds
    BY DEF Busy, TypeOK, BusyShrinks
  <2> QED BY <2>1, FewerRuns
<1>8. WithinWorkers'
  <2>1. \A p \in Procs : Cardinality(Busy(p)) <= MaxWorkers
    BY DEF LimitInv, WithinWorkers, Busy
  <2>2. \A p \in Procs : Cardinality(Busy(p)') <= MaxWorkers
    BY <1>3, <1>7, <2>1
  <2> QED BY <2>2 DEF WithinWorkers, Busy
<1>9. OneContinuation' /\ \A r \in RunIds : rows'[r].auto => rows'[r].task \in Local
  BY DEF RowsShrink, LimitInv, OneContinuation, All
<1>10. ASSUME NEW p \in Procs, pick'[p].open PROVE PickFits(p)'
  <2>1. pick'[p] = pick[p] /\ PickFits(p)
    BY <1>10 DEF PicksShrink, NoPick, LimitInv
  <2>0. PICK new, runs : new = pick[p].new /\ runs = pick[p].runs
    OBVIOUS
  <2>2. runs \in SUBSET RunIds
    BY <2>0 DEF TypeOK, PickSet
  <2>3. /\ IsFiniteSet(new) /\ Cardinality(new) \in Nat
        /\ Cardinality(All({"queued"})) + Cardinality(new) <= MaxQueued
    BY <2>0, <2>1, FS_CardinalityType DEF PickFits
  <2>4. Cardinality(All({"queued"})') + Cardinality(new) <= MaxQueued
    BY <1>2, <1>3, <2>3
  <2>5. ASSUME NEW t \in Tasks
        PROVE  Running(t)' + Cardinality({r \in runs : With(new)'[r].task = t}) <= Concurrency[t]
    <3>1. {r \in runs : With(new)'[r].task = t} = {r \in runs : With(new)[r].task = t}
      BY <2>2, WithShrinks
    <3>2. Running(t) + Cardinality({r \in runs : With(new)[r].task = t}) <= Concurrency[t]
      BY <2>0, <2>1 DEF PickFits
    <3>3. Cardinality({r \in runs : With(new)[r].task = t}) \in Nat
      BY <2>2, RunsFinite
    <3>4. PICK k \in Nat : k = Cardinality({r \in runs : With(new)[r].task = t})
      BY <3>3
    <3>5. Running(t) + k <= Concurrency[t] /\ Running(t)' + k <= Concurrency[t]
      BY <1>3, <1>5, <3>2, <3>4
    <3> QED BY ONLY <3>1, <3>4, <3>5
  <2>6. Cardinality(Busy(p)') + Cardinality(runs) <= MaxWorkers
    <3>1. Cardinality(runs) \in Nat
      BY <2>2, RunsFinite
    <3>2. Cardinality(Busy(p)) + Cardinality(runs) <= MaxWorkers
      BY <2>0, <2>1 DEF PickFits
    <3> QED BY <1>3, <1>7, <3>1, <3>2
  <2>7. \A n \in new : n[1] \in Local /\ Covers[n[1]] \cap Covered' = {}
    BY <2>0, <2>1, CoveredShrinks DEF PickFits
  <2>8. \A n, m \in new : n # m => n[2] # m[2] /\ Covers[n[1]] \cap Covers[m[1]] = {}
    BY <2>0, <2>1 DEF PickFits
  <2>9. pick'[p].new = new /\ pick'[p].runs = runs
    BY <2>0, <2>1
  <2>10. With(pick[p].new)' = With(new)'
    BY <2>9 DEF With
  <2> QED BY <2>3, <2>4, <2>5, <2>6, <2>7, <2>8, <2>9, <2>10 DEF PickFits
<1> QED BY <1>4, <1>6, <1>8, <1>9, <1>10 DEF LimitInv

\* The rows of a step that ends or changes rows.
LEMMA RowsThatShrink ==
  ASSUME SchedulerPolicy, SchedulerBounds, rows \in [RunIds -> RowSet],
         \/ rows' = rows
         \/ \E S, s : s \notin {"queued", "running"} /\ rows' = Set(S, s)
         \/ \E r \in RunIds : rows' = [rows EXCEPT ![r].cancel = TRUE]
         \/ \E r \in RunIds, age \in Ages : rows' = [rows EXCEPT ![r].age = age]
         \/ \E r \in RunIds : \E f : f.out \in Terminal /\ rows' = Finished(r, f)
  PROVE  RowsShrink
<1>0. \A row \in RowSet : \A s : /\ Become(row, s).task = row.task /\ Become(row, s).auto = row.auto
                                 /\ Become(row, s).status = s
  BY DEF Become, RowSet
<1>1. CASE rows' = rows
  BY <1>1 DEF RowsShrink
<1>2. CASE \E S, s : s \notin {"queued", "running"} /\ rows' = Set(S, s)
  BY <1>0, <1>2 DEF RowsShrink, Set
<1>3. CASE \E r \in RunIds : rows' = [rows EXCEPT ![r].cancel = TRUE]
  BY <1>3 DEF RowsShrink, RowSet
<1>4. CASE \E r \in RunIds, age \in Ages : rows' = [rows EXCEPT ![r].age = age]
  BY <1>4 DEF RowsShrink, RowSet
<1>5. CASE \E r \in RunIds : \E f : f.out \in Terminal /\ rows' = Finished(r, f)
  <2>1. PICK r \in RunIds : \E f : f.out \in Terminal /\ rows' = Finished(r, f)
    BY <1>5
  <2>4. PICK f : f.out \in Terminal /\ rows' = Finished(r, f)
    BY <2>1
  <2>2. CASE rows' = rows
    BY <2>2 DEF RowsShrink
  <2>3. CASE rows' = [rows EXCEPT ![r].status = f.out, ![r].halt = f.halt]
    <3>1. rows[r] \in RowSet
      OBVIOUS
    <3>2. rows' = [rows EXCEPT ![r] = [rows[r] EXCEPT !.status = f.out, !.halt = f.halt]]
      BY <2>3
    <3>3. /\ rows'[r].task = rows[r].task /\ rows'[r].auto = rows[r].auto
          /\ rows'[r].status = f.out
          /\ \A q \in RunIds : q # r => rows'[q] = rows[q]
      BY <3>1, <3>2 DEF RowSet
    <3> QED BY <2>4, <3>3 DEF RowsShrink, Terminal
  <2> QED BY <2>4, <2>2, <2>3 DEF Finished
<1> QED BY <1>1, <1>2, <1>3, <1>4, <1>5

\* A future that ends, or goes from the queue of the executor to its thread.
LEMMA BusyOfFuture ==
  ASSUME TypeOK, NEW p \in Procs, NEW r \in RunIds, NEW f,
         fut' = [fut EXCEPT ![p][r] = f], claimed' = claimed,
         f.at = "none" \/ TakenOver(f) \/ (fut[p][r].at # "none" /\ ~TakenOver(fut[p][r]))
  PROVE  BusyShrinks
<1>1. fut \in [Procs -> [RunIds -> FutureSet]]
  BY DEF TypeOK
<1>2. \A o \in Procs, q \in RunIds : fut'[o][q] = IF o = p /\ q = r THEN f ELSE fut[o][q]
  BY <1>1
<1> QED BY <1>2 DEF BusyShrinks, Busy

\* Requests that insert no row.
LEMMA RequestShrinks ==
  ASSUME SchedulerPolicy, SchedulerBounds, TypeOK,
         \/ \E t \in Tasks : Reschedule(t)
         \/ \E t \in Tasks, target \in {"active", "paused", "archived"} : ChangeState(t, target)
         \/ \E enabled \in BOOLEAN : SetSource(enabled)
         \/ \E r \in RunIds : StopRun(r) \/ Age(r)
  PROVE  RowsShrink /\ BusyShrinks /\ PicksShrink
<1>1. rows \in [RunIds -> RowSet]
  BY DEF TypeOK
<1>2. UNCHANGED <<pick, claimed, fut>>
  BY DEF Reschedule, ChangeState, SetSource, StopRun, Age, procVars
<1>3. \/ rows' = rows
      \/ \E S, s : s \notin {"queued", "running"} /\ rows' = Set(S, s)
      \/ \E r \in RunIds : rows' = [rows EXCEPT ![r].cancel = TRUE]
      \/ \E r \in RunIds, age \in Ages : rows' = [rows EXCEPT ![r].age = age]
  <2>1. CASE \E t \in Tasks : Reschedule(t)
    BY <2>1 DEF Reschedule
  <2>2. CASE \E t \in Tasks, target \in {"active", "paused", "archived"} : ChangeState(t, target)
    BY <2>2 DEF ChangeState
  <2>3. CASE \E enabled \in BOOLEAN : SetSource(enabled)
    BY <2>3 DEF SetSource
  <2>4. CASE \E r \in RunIds : StopRun(r) \/ Age(r)
    BY <2>4 DEF StopRun, Age
  <2> QED BY <2>1, <2>2, <2>3, <2>4
<1> QED BY <1>1, <1>2, <1>3, RowsThatShrink DEF BusyShrinks, Busy, PicksShrink

\* The work of threads and callbacks.
LEMMA WorkShrinks ==
  ASSUME SchedulerPolicy, SchedulerBounds, TypeOK, Work
  PROVE  RowsShrink /\ BusyShrinks /\ PicksShrink
<1>1. PICK p \in Procs, r \in RunIds :
        \/ Begin(p, r) \/ Persist(p, r) \/ KeepOutcome(p, r) \/ PersistUnknown(p, r)
        \/ \E E \in SUBSET Entries : RecordIntent(p, r, E)
        \/ \E out \in {"succeeded", "failed", "cancelled"}, halt \in BOOLEAN :
             HandlerEnd(p, r, out, halt)
  BY DEF Work
<1>2. /\ rows \in [RunIds -> RowSet] /\ fut[p][r] \in FutureSet
      /\ fut[p][r].at \in {"done", "kept"} => fut[p][r].out \in Terminal
  BY DEF TypeOK
<1>3. UNCHANGED <<pick, claimed>>
  BY <1>1 DEF Begin, Persist, KeepOutcome, PersistUnknown, RecordIntent, HandlerEnd, procVars
<1>4. RowsShrink
  <2>1. CASE rows' = rows
    BY <2>1, <1>2, RowsThatShrink
  <2>2. CASE rows' = Finished(r, fut[p][r]) /\ Reconciles(p, r)
    <3>1. PICK f : f = fut[p][r]
      OBVIOUS
    <3>2. f.out \in Terminal /\ rows' = Finished(r, f)
      BY <1>2, <2>2, <3>1 DEF Reconciles, Finished
    <3> QED BY <1>2, <3>2, RowsThatShrink
  <2>3. rows' = rows \/ (rows' = Finished(r, fut[p][r]) /\ Reconciles(p, r))
    BY <1>1 DEF Begin, Persist, KeepOutcome, PersistUnknown, RecordIntent, HandlerEnd
  <2> QED BY <2>1, <2>2, <2>3
<1>5. BusyShrinks
  <2>1. CASE fut' = fut
    BY <1>3, <2>1 DEF BusyShrinks, Busy
  <2>2. CASE \E f : /\ fut' = [fut EXCEPT ![p][r] = f]
                    /\ f.at = "none" \/ TakenOver(f) \/ (fut[p][r].at # "none" /\ ~TakenOver(fut[p][r]))
    BY <1>3, <2>2, BusyOfFuture
  <2>3. CASE Begin(p, r)
    <3>1. CASE fut' = [fut EXCEPT ![p][r].at = "handler"]
      <4>1. fut[p][r].at # "none" /\ ~TakenOver(fut[p][r])
        BY <2>3 DEF Begin, TakenOver
      <4>2. fut' = [fut EXCEPT ![p][r] = [fut[p][r] EXCEPT !.at = "handler"]]
        BY <3>1 DEF TypeOK
      <4> QED BY <4>1, <4>2, <2>2
    <3>2. CASE \E out : fut' = [fut EXCEPT ![p][r] = Done(out)]
      <4>1. fut[p][r].at # "none" /\ ~TakenOver(fut[p][r])
        BY <2>3 DEF Begin, TakenOver
      <4> QED BY <3>2, <4>1, <2>2
    <3> QED BY <2>3, <3>1, <3>2 DEF Begin
  <2>4. CASE Persist(p, r)
    <3>1. NoFuture.at = "none" /\ fut' = [fut EXCEPT ![p][r] = NoFuture]
      BY <2>4 DEF NoFuture, Persist
    <3> QED BY <3>1, <2>2
  <2>5. CASE KeepOutcome(p, r) \/ PersistUnknown(p, r)
    <3>1. fut' = [fut EXCEPT ![p][r] = [fut[p][r] EXCEPT !.at = "kept"]]
      BY <2>5 DEF KeepOutcome, PersistUnknown, TypeOK
    <3>2. LET f == [fut[p][r] EXCEPT !.at = "kept"]
          IN  TakenOver(f) \/ (fut[p][r].at # "none" /\ ~TakenOver(fut[p][r]))
      <4>1. LET f == [fut[p][r] EXCEPT !.at = "kept"] IN f.at = "kept" /\ f.out = fut[p][r].out
        BY <1>2, FieldType
      <4>2. fut[p][r].at # "none"
        BY <2>5 DEF KeepOutcome, PersistUnknown, Reconciles
      <4> QED BY <4>1, <4>2 DEF TakenOver
    <3> QED BY <3>1, <3>2, <2>2
  <2>6. CASE \E out \in {"succeeded", "failed", "cancelled"}, halt \in BOOLEAN : HandlerEnd(p, r, out, halt)
    <3>1. PICK out, halt : fut' = [fut EXCEPT ![p][r] = [at |-> "done", out |-> out, halt |-> halt]]
      BY <2>6 DEF HandlerEnd
    <3>2. fut[p][r].at # "none" /\ ~TakenOver(fut[p][r])
      BY <2>6 DEF HandlerEnd, TakenOver
    <3> QED BY <3>1, <3>2, <2>2
  <2>7. CASE \E E \in SUBSET Entries : RecordIntent(p, r, E)
    BY <2>1, <2>7 DEF RecordIntent, procVars
  <2> QED BY <1>1, <2>3, <2>4, <2>5, <2>6, <2>7
<1> QED BY <1>3, <1>4, <1>5 DEF PicksShrink

\* Starts, stops and crashes, and the supervisor.
LEMMA ProcessShrinks ==
  ASSUME SchedulerPolicy, SchedulerBounds, TypeOK, Process \/ Supervise
  PROVE  RowsShrink /\ BusyShrinks /\ PicksShrink
<1>1. rows \in [RunIds -> RowSet] /\ fut \in [Procs -> [RunIds -> FutureSet]]
      /\ pick \in [Procs -> PickSet] /\ claimed \in [Procs -> SUBSET RunIds]
  BY DEF TypeOK
<1>2. ASSUME NEW p \in Procs, NEW late \in SUBSET All({"running"}), Start(p, late)
      PROVE  RowsShrink /\ BusyShrinks /\ PicksShrink
  <2>1. rows' = Set(All({"running"}) \ late, "interrupted") /\ UNCHANGED <<pick, claimed>>
    BY <1>2 DEF Start
  <2>2. RowsShrink
    BY <1>1, <2>1, RowsThatShrink
  <2>3. \A o \in Procs, r \in RunIds : \/ fut'[o][r] = fut[o][r] \/ fut'[o][r].at = "none"
                                   \/ TakenOver(fut'[o][r])
    BY <1>1, <1>2 DEF Start, Done, NoFuture, TakenOver
  <2> QED BY <2>1, <2>2, <2>3 DEF BusyShrinks, Busy, PicksShrink
<1>3. ASSUME NEW p \in Procs, Stop(p)
      PROVE  RowsShrink /\ BusyShrinks /\ PicksShrink
  <2>1. UNCHANGED <<rows, pick, claimed>>
    BY <1>3 DEF Stop
  <2>2. \A o \in Procs, r \in RunIds : fut'[o][r] = fut[o][r] \/ fut[o][r].at = "pending"
    BY <1>1, <1>3 DEF Stop
  <2> QED BY <1>1, <2>1, <2>2, RowsThatShrink DEF BusyShrinks, Busy, PicksShrink, TakenOver
<1>4. ASSUME NEW p \in Procs, Gone(p)
      PROVE  RowsShrink /\ BusyShrinks /\ PicksShrink
  <2>1. rows' = rows /\ PicksShrink
    BY <1>1, <1>4 DEF Gone, PicksShrink
  <2>2. \A o \in Procs : claimed'[o] \subseteq claimed[o]
    BY <1>1, <1>4 DEF Gone
  <2>3. \A o \in Procs, r \in RunIds : fut'[o][r] = fut[o][r] \/ fut'[o][r].at = "none"
    BY <1>1, <1>4 DEF Gone, NoFuture
  <2> QED BY <1>1, <2>1, <2>2, <2>3, RowsThatShrink DEF BusyShrinks, Busy
<1>5. CASE Supervise
  <2>1. UNCHANGED <<pick, claimed, fut>>
    BY <1>5 DEF Supervise, ListLost, EndLost, CommitLost, AbandonLost, procVars
  <2>2. rows' = rows \/ rows' = Set(lost.ended, "indeterminate")
    BY <1>5 DEF Supervise, ListLost, EndLost, CommitLost, AbandonLost
  <2> QED BY <1>1, <2>1, <2>2, RowsThatShrink DEF BusyShrinks, Busy, PicksShrink
<1> QED BY <1>2, <1>3, <1>4, <1>5 DEF Process, Exit, Crash

\* A transaction that ends without writing, and the hand-over to the executor.
LEMMA HandOverShrinks ==
  ASSUME SchedulerPolicy, SchedulerBounds, TypeOK, NEW p \in Procs,
         Abort(p) \/ \E r \in RunIds : Submit(p, r)
  PROVE  RowsShrink /\ BusyShrinks /\ PicksShrink
<1>1. rows \in [RunIds -> RowSet] /\ fut \in [Procs -> [RunIds -> FutureSet]]
      /\ pick \in [Procs -> PickSet] /\ claimed \in [Procs -> SUBSET RunIds]
  BY DEF TypeOK
<1>2. CASE Abort(p)
  BY <1>1, <1>2, RowsThatShrink DEF Abort, BusyShrinks, Busy, PicksShrink
<1>3. ASSUME NEW r \in RunIds, Submit(p, r) PROVE RowsShrink /\ BusyShrinks /\ PicksShrink
  <2>1. UNCHANGED <<rows, pick>> /\ r \in claimed[p] /\ claimed' = [claimed EXCEPT ![p] = @ \ {r}]
    BY <1>3 DEF Submit
  <2>2. \A o \in Procs, q \in RunIds : fut'[o][q] = fut[o][q] \/ (o = p /\ q = r)
    BY <1>1, <1>3 DEF Submit
  <2>3. \A o \in Procs : claimed'[o] \subseteq claimed[o]
    BY <1>1, <2>1
  <2> QED BY <1>1, <2>1, <2>2, <2>3, RowsThatShrink DEF BusyShrinks, Busy, PicksShrink
<1> QED BY <1>2, <1>3

-----------------------------------------------------------------------------
(* Steps that insert, select and write.                                    *)

\* A request's row: queued while no dispatch is open and the queue has room,
\* or skipped.
LEMMA InsertKeeps ==
  ASSUME SchedulerPolicy, SchedulerBounds, TypeOK, PickInv, LimitInv,
         NEW t \in Tasks, NEW r \in RunIds, NEW s \in {"queued", "skipped"}, NextIds({r}),
         rows' = [rows EXCEPT ![r] = NewRow(t, s, FALSE, "due")],
         UNCHANGED <<pick, claimed, fut>>,
         s = "queued" => GatesFree /\ Cardinality(All({"queued"})) < MaxQueued
  PROVE  LimitInv'
<1>1. /\ rows'[r].status = s /\ rows'[r].task = t /\ rows'[r].auto = FALSE
      /\ \A q \in RunIds : q # r => rows'[q] = rows[q]
  <2>1. /\ NewRow(t, s, FALSE, "due").status = s /\ NewRow(t, s, FALSE, "due").task = t
        /\ NewRow(t, s, FALSE, "due").auto = FALSE
    BY DEF NewRow, NoRow
  <2>2. rows \in [RunIds -> RowSet]
    BY DEF TypeOK
  <2> QED BY <2>1, <2>2
<1>2. /\ rows[r].status = "absent"
      /\ \A p \in Procs : (\A n \in pick[p].new : n[2] # r) /\ r \notin pick[p].runs
  BY UnusedId DEF PickInv
<1>3. QueueBounded'
  <2>1. CASE s = "skipped"
    <3>1. All({"queued"})' = All({"queued"})
      BY <1>1, <1>2, <2>1 DEF All
    <3> QED BY <3>1 DEF LimitInv, QueueBounded
  <2>2. CASE s = "queued"
    <3>1. All({"queued"})' = All({"queued"}) \cup {r} /\ All({"queued"}) \in SUBSET RunIds
      BY <1>1, <2>2 DEF All
    <3>2. Cardinality({r}) = 1 /\ {r} \in SUBSET RunIds
      BY FS_Singleton
    <3>3. /\ Cardinality(All({"queued"}) \cup {r}) <= Cardinality(All({"queued"})) + Cardinality({r})
          /\ Cardinality(All({"queued"}) \cup {r}) \in Nat /\ Cardinality(All({"queued"})) \in Nat
      BY <3>1, <3>2, BothRuns, RunsFinite
    <3>4. Cardinality(All({"queued"})) < MaxQueued /\ MaxQueued \in Nat
      BY <2>2 DEF SchedulerBounds
    <3>5. Cardinality(All({"queued"}) \cup {r}) <= MaxQueued
      BY <3>2, <3>3, <3>4
    <3> QED BY <3>1, <3>5 DEF QueueBounded
  <2> QED BY <2>1, <2>2
<1>4. \A u : Of(u, {"running"})' = Of(u, {"running"})
  <2>1. \A q \in RunIds : rows'[q].status = "running" <=> rows[q].status = "running"
    BY <1>1, <1>2
  <2>2. \A q \in RunIds : rows[q].status = "running" => rows'[q].task = rows[q].task
    BY <1>1, <1>2
  <2> QED BY <2>1, <2>2, Zenon DEF Of
<1>5. \A u \in Tasks : Running(u)' = Running(u)
  BY <1>4 DEF Running
<1>6. LimitRespected' /\ WithinWorkers'
  BY <1>5 DEF LimitInv, LimitRespected, WithinWorkers, Busy
<1>7. OneContinuation' /\ \A q \in RunIds : rows'[q].auto => rows'[q].task \in Local
  BY <1>1 DEF LimitInv, OneContinuation, All
<1>8. ASSUME NEW p \in Procs, pick'[p].open PROVE PickFits(p)'
  <2>0. PICK new, runs : new = pick[p].new /\ runs = pick[p].runs
    OBVIOUS
  <2>1. PickFits(p) /\ s = "skipped"
    BY <1>8 DEF LimitInv, GatesFree
  <2>2. All({"queued"})' = All({"queued"}) /\ \A u : Of(u, {"queued", "running"})' = Of(u, {"queued", "running"})
    <3>1. \A q \in RunIds : rows'[q].status \in {"queued", "running"} <=> rows[q].status \in {"queued", "running"}
      BY <1>1, <1>2, <2>1
    <3>2. \A q \in RunIds : rows[q].status \in {"queued", "running"} => rows'[q].task = rows[q].task
      BY <1>1, <1>2
    <3>3. \A u : Of(u, {"queued", "running"})' = Of(u, {"queued", "running"})
      BY <3>1, <3>2, Zenon DEF Of
    <3>4. All({"queued"})' = All({"queued"})
      BY <1>1, <1>2, <2>1 DEF All
    <3> QED BY <3>3, <3>4
  <2>3. Covered' = Covered
    BY <2>2 DEF Covered
  <2>4. \A q \in runs : q \in RunIds /\ q # r
    BY <1>2, <2>0 DEF TypeOK, PickSet
  <2>5. \A q \in runs : With(new)'[q] = With(new)[q]
    BY <1>1, <2>4 DEF With
  <2>6. \A u : {q \in runs : With(new)'[q].task = u} = {q \in runs : With(new)[q].task = u}
    BY <2>5
  <2>7. Busy(p)' = Busy(p) /\ pick'[p].new = new /\ pick'[p].runs = runs
    BY <2>0 DEF Busy
  <2>8. With(pick[p].new)' = With(new)'
    BY <2>7 DEF With
  <2>9. /\ IsFiniteSet(new) /\ Cardinality(All({"queued"})) + Cardinality(new) <= MaxQueued
        /\ \A u \in Tasks : Running(u) + Cardinality({q \in runs : With(new)[q].task = u}) <= Concurrency[u]
        /\ Cardinality(Busy(p)) + Cardinality(runs) <= MaxWorkers
        /\ \A n \in new : n[1] \in Local /\ Covers[n[1]] \cap Covered = {}
        /\ \A n, m \in new : n # m => n[2] # m[2] /\ Covers[n[1]] \cap Covers[m[1]] = {}
    BY <2>0, <2>1 DEF PickFits
  <2>10. \A u \in Tasks : Running(u)' + Cardinality({q \in runs : With(new)'[q].task = u}) <= Concurrency[u]
    BY <1>5, <2>6, <2>9
  <2>11. Cardinality(All({"queued"})') + Cardinality(new) <= MaxQueued
    BY <2>2, <2>9
  <2>12. Cardinality(Busy(p)') + Cardinality(runs) <= MaxWorkers
    BY <2>7, <2>9
  <2> QED BY <2>3, <2>7, <2>8, <2>9, <2>10, <2>11, <2>12 DEF PickFits
<1> QED BY <1>3, <1>6, <1>7, <1>8 DEF LimitInv

\* What a candidate query returns fits the limits.
LEMMA SelectKeeps ==
  ASSUME SchedulerPolicy, SchedulerBounds, TypeOK, PickInv, LimitInv,
         NEW p \in Procs, NEW admitted \in BOOLEAN, Select(p, admitted)
  PROVE  LimitInv'
<1> DEFINE slots == MaxWorkers - Cardinality(Futures(p))
<1>1. PICK new \in IF admitted THEN Continuations ELSE {{}} :
        pick' = [pick EXCEPT ![p] =
          [open |-> TRUE, new |-> new, runs |-> Selected(With(new), slots, admitted)]]
  BY DEF Select
<1>2. PICK runs : runs = Selected(With(new), slots, admitted)
  OBVIOUS
<1>3. UNCHANGED <<rows, claimed, fut>>
  BY DEF Select
<1>4. /\ pick'[p].open /\ pick'[p].new = new /\ pick'[p].runs = runs
      /\ \A o \in Procs : o # p => pick'[o] = pick[o]
  BY <1>1, <1>2 DEF TypeOK
<1>5. \A o \in Procs : ~pick[o].open
  BY DEF Select, GatesFree
<1>6. QueueBounded /\ LimitRespected
  BY DEF LimitInv
<1>7. Futures(p) \in SUBSET RunIds /\ Cardinality(Futures(p)) < MaxWorkers /\ claimed[p] = {}
  BY DEF Select, Futures
<1>8. slots \in Nat /\ Cardinality(Futures(p)) \in Nat /\ MaxWorkers \in Nat
  <2>1. Cardinality(Futures(p)) \in Nat /\ MaxWorkers \in Nat
    BY <1>7, RunsFinite DEF SchedulerBounds
  <2> QED BY <1>7, <2>1
<1>9. /\ new \in SUBSET (Tasks \X RunIds \X Ages)
      /\ IsFiniteSet(new) /\ Cardinality(All({"queued"})) + Cardinality(new) <= MaxQueued
      /\ \A n \in new : n[1] \in Local /\ Covers[n[1]] \cap Covered = {}
      /\ \A n, m \in new : n # m => n[2] # m[2] /\ Covers[n[1]] \cap Covers[m[1]] = {}
  <2>1. CASE new = {}
    <3>1. Cardinality(new) = 0 /\ IsFiniteSet(new)
      BY <2>1, FS_EmptySet
    <3>2. Cardinality(All({"queued"})) \in Nat /\ Cardinality(All({"queued"})) <= MaxQueued
      BY <1>6, RunsFinite DEF QueueBounded, All
    <3> QED BY <2>1, <3>1, <3>2
  <2>2. CASE new \in Continuations
    <3>1. new \in SUBSET (Local \X Unused \X Ages)
      BY <2>2, ContinuationFacts
    <3>2. Local \subseteq Tasks /\ Unused \subseteq RunIds
      BY DEF SchedulerPolicy, Unused, All
    <3>3. new \in SUBSET (Tasks \X RunIds \X Ages)
      BY <3>1, <3>2
    <3> QED BY <1>6, <2>2, <3>3, ContinuationsFit
  <2> QED BY <1>1, <2>1, <2>2
<1>10. PICK now : now = With(new)
  OBVIOUS
<1>11. \A r \in RunIds : now[r].task \in Tasks
  <2>1. now \in [RunIds -> RowSet]
    BY <1>9, <1>10, WithType DEF TypeOK
  <2> QED BY <2>1 DEF RowSet
<1> HIDE DEF slots
<1>12. /\ runs \in SUBSET RunIds
       /\ Cardinality(runs) <= slots
       /\ \A t \in Tasks : Running(t) <= Concurrency[t] =>
            Running(t) + Cardinality({r \in runs : now[r].task = t}) <= Concurrency[t]
  <2>1. runs = Selected(now, slots, admitted)
    BY <1>2, <1>10
  <2> QED BY <1>8, <1>11, <2>1, SelectedFit
<1>13. \A t \in Tasks : Running(t) + Cardinality({r \in runs : now[r].task = t}) <= Concurrency[t]
  BY <1>6, <1>12 DEF LimitRespected
<1>14. Cardinality(Busy(p)) + Cardinality(runs) <= MaxWorkers
  <2>1. Busy(p) \in SUBSET Futures(p)
    BY <1>7 DEF Busy, Futures
  <2>2. Cardinality(Busy(p)) <= Cardinality(Futures(p)) /\ Cardinality(Busy(p)) \in Nat
    BY <1>7, <2>1, FewerRuns
  <2>3. Cardinality(runs) \in Nat
    BY <1>12, RunsFinite
  <2> QED BY <1>8, <1>12, <2>2, <2>3 DEF slots
<1>15. PickFits(p)'
  <2>1. \A t \in Tasks : Running(t)' = Running(t)
    BY <1>3 DEF Running, Of
  <2>2. With(pick[p].new)' = now
    BY <1>3, <1>4, <1>10 DEF With
  <2>3. Busy(p)' = Busy(p) /\ Covered' = Covered /\ All({"queued"})' = All({"queued"})
    BY <1>3 DEF Busy, Covered, Of, All
  <2>4. Cardinality(All({"queued"})') + Cardinality(new) <= MaxQueued
    BY <1>9, <2>3
  <2>5. \A t \in Tasks : Running(t)' + Cardinality({r \in runs : now[r].task = t}) <= Concurrency[t]
    BY <1>13, <2>1
  <2>6. Cardinality(Busy(p)') + Cardinality(runs) <= MaxWorkers
    BY <1>14, <2>3
  <2> QED BY <1>4, <1>9, <2>2, <2>3, <2>4, <2>5, <2>6 DEF PickFits
<1>16. \A o \in Procs : pick'[o].open => PickFits(o)'
  BY <1>4, <1>5, <1>15
<1>17. /\ QueueBounded' /\ LimitRespected' /\ WithinWorkers' /\ OneContinuation'
       /\ \A r \in RunIds : rows'[r].auto => rows'[r].task \in Local
  BY <1>3 DEF LimitInv, QueueBounded, LimitRespected, Running, Of, WithinWorkers, Busy, OneContinuation, All
<1> QED BY <1>16, <1>17 DEF LimitInv

\* A transaction that adds its continuations and claims the runs S.
LEMMA WriteKeeps ==
  ASSUME SchedulerPolicy, SchedulerBounds, TypeOK, PickInv, LimitInv,
         NEW p \in Procs, NEW S \in SUBSET StillQueued(p), pick[p].open,
         rows' = Written(p, S), pick' = [pick EXCEPT ![p] = NoPick], fut' = fut,
         claimed' = [claimed EXCEPT ![p] = S] \/ claimed' = claimed
  PROVE  LimitInv'
<1>1. PICK new, runs, now : new = pick[p].new /\ runs = pick[p].runs /\ now = With(new)
  OBVIOUS
<1>2. /\ rows \in [RunIds -> RowSet] /\ new \in SUBSET (Tasks \X RunIds \X Ages)
      /\ runs \in SUBSET RunIds /\ claimed \in [Procs -> SUBSET RunIds]
  BY <1>1 DEF TypeOK, PickSet
<1>3. now \in [RunIds -> RowSet]
  BY <1>1, <1>2, WithType
<1>4. S \in SUBSET runs /\ S \in SUBSET RunIds /\ \A r \in S : now[r].status = "queued"
  BY <1>1, <1>2 DEF StillQueued
<1>5. /\ IsFiniteSet(new) /\ Cardinality(All({"queued"})) + Cardinality(new) <= MaxQueued
      /\ \A t \in Tasks : Running(t) + Cardinality({r \in runs : now[r].task = t}) <= Concurrency[t]
      /\ Cardinality(Busy(p)) + Cardinality(runs) <= MaxWorkers
      /\ \A n \in new : n[1] \in Local /\ Covers[n[1]] \cap Covered = {}
      /\ \A n, m \in new : n # m => n[2] # m[2] /\ Covers[n[1]] \cap Covers[m[1]] = {}
  BY <1>1 DEF LimitInv, PickFits
<1> DEFINE IsNew(r) == \E n \in new : n[2] = r
<1>6. ASSUME NEW r \in RunIds
      PROVE  \/ now[r] = rows[r] /\ ~IsNew(r)
             \/ \E n \in new : /\ n[2] = r /\ now[r].task = n[1] /\ now[r].status = "queued"
                               /\ now[r].auto /\ rows[r].status = "absent"
  <2>1. \/ With(new)[r] = rows[r] /\ \A n \in new : n[2] # r
        \/ \E n \in new : n[2] = r /\ With(new)[r] = NewRow(n[1], "queued", TRUE, n[3])
    BY ONLY WithRow, r \in RunIds
  <2>2. CASE \E n \in new : n[2] = r /\ With(new)[r] = NewRow(n[1], "queued", TRUE, n[3])
    <3>1. PICK n \in new : n[2] = r /\ now[r] = NewRow(n[1], "queued", TRUE, n[3])
      BY <1>1, <2>2
    <3>2. now[r].task = n[1] /\ now[r].status = "queued" /\ now[r].auto
      BY <3>1 DEF NewRow, NoRow
    <3>3. rows[n[2]].status = "absent"
      BY <1>1 DEF PickInv
    <3> QED BY <3>1, <3>2, <3>3
  <2> QED BY <1>1, <2>1, <2>2
<1>7. \A r \in RunIds : /\ rows'[r].status = IF r \in S THEN "running" ELSE now[r].status
                        /\ rows'[r].task = now[r].task /\ rows'[r].auto = now[r].auto
  <2>1. \A row \in RowSet : \A s : /\ Become(row, s).status = s /\ Become(row, s).task = row.task
                                   /\ Become(row, s).auto = row.auto
    BY DEF Become, RowSet
  <2>2. \A r \in RunIds : rows'[r] = IF r \in S THEN Become(now[r], "running") ELSE now[r]
    BY <1>1 DEF Written
  <2> QED BY <1>3, <2>1, <2>2
<1>8. /\ Cardinality(new) \in Nat /\ MaxQueued \in Nat /\ MaxWorkers \in Nat
      /\ \A t \in Tasks : Concurrency[t] \in Nat
  BY <1>5, FS_CardinalityType DEF SchedulerBounds, SchedulerPolicy
<1> HIDE DEF IsNew
<1>9. QueueBounded'
  <2> DEFINE Ids == {n[2] : n \in new}
             f == [n \in new |-> n[2]]
  <2>1. Ids \in SUBSET RunIds /\ f \in Surjection(new, Ids)
    BY <1>2 DEF Surjection
  <2>2. All({"queued"})' \in SUBSET (All({"queued"}) \cup Ids)
    BY <1>4, <1>6, <1>7 DEF All
  <2>3. All({"queued"}) \in SUBSET RunIds
    BY DEF All
  <2> HIDE DEF Ids, f
  <2>4. Cardinality(Ids) <= Cardinality(new) /\ Cardinality(Ids) \in Nat
    BY <1>5, <2>1, FS_Surjection, RunsFinite
  <2>5. /\ Cardinality(All({"queued"}) \cup Ids) <= Cardinality(All({"queued"})) + Cardinality(Ids)
        /\ Cardinality(All({"queued"})) \in Nat
    BY <2>1, <2>3, BothRuns, RunsFinite
  <2>6. /\ Cardinality(All({"queued"})') <= Cardinality(All({"queued"}) \cup Ids)
        /\ Cardinality(All({"queued"})') \in Nat /\ Cardinality(All({"queued"}) \cup Ids) \in Nat
    BY <2>1, <2>2, <2>3, FewerRuns
  <2> QED BY <1>5, <1>8, <2>4, <2>5, <2>6 DEF QueueBounded
<1>10. LimitRespected'
  <2>1. ASSUME NEW t \in Tasks PROVE Running(t)' <= Concurrency[t]
    <3>1. PICK old : old = Of(t, {"running"})
      OBVIOUS
    <3>2. PICK claims : claims = {r \in runs : now[r].task = t}
      OBVIOUS
    <3>3. PICK next : next = Of(t, {"running"})'
      OBVIOUS
    <3>4. old \in SUBSET RunIds /\ claims \in SUBSET RunIds
      BY <1>2, <3>1, <3>2 DEF Of
    <3>5. next \in SUBSET (old \cup claims)
      <4>1. ASSUME NEW r \in next, r \notin claims PROVE r \in old
        <5>1. r \in RunIds /\ rows'[r].task = t /\ rows'[r].status = "running"
          BY <3>3 DEF Of
        <5>2. r \notin S /\ now[r].status = "running" /\ now[r].task = t
          BY <1>4, <1>7, <3>2, <4>1, <5>1
        <5>3. now[r] = rows[r]
          BY <1>6, <5>1, <5>2
        <5> QED BY <3>1, <5>1, <5>2, <5>3 DEF Of
      <4> QED BY <4>1
    <3>6. Cardinality(old \cup claims) <= Cardinality(old) + Cardinality(claims)
      BY <3>4, BothRuns
    <3>7. /\ Cardinality(next) <= Cardinality(old \cup claims) /\ Cardinality(next) \in Nat
          /\ Cardinality(old \cup claims) \in Nat /\ Cardinality(old) \in Nat /\ Cardinality(claims) \in Nat
      BY <3>4, <3>5, FewerRuns, RunsFinite
    <3>8. Cardinality(old) + Cardinality(claims) <= Concurrency[t]
      BY <1>5, <3>1, <3>2 DEF Running
    <3>9. Running(t)' = Cardinality(next)
      BY <3>3 DEF Running
    <3> QED BY <1>8, <3>6, <3>7, <3>8, <3>9
  <2> QED BY <2>1 DEF LimitRespected
<1>11. WithinWorkers'
  <2>1. ASSUME NEW o \in Procs, o # p PROVE Cardinality(Busy(o)') <= MaxWorkers
    <3>1. Busy(o)' = Busy(o)
      BY <1>2, <2>1 DEF Busy
    <3>2. Cardinality(Busy(o)) <= MaxWorkers
      BY DEF LimitInv, WithinWorkers, Busy
    <3> QED BY <3>1, <3>2
  <2>2. Cardinality(Busy(p)') <= MaxWorkers
    <3>1. PICK old, next : old = Busy(p) /\ next = Busy(p)'
      OBVIOUS
    <3>2. old \in SUBSET RunIds /\ next \in SUBSET (old \cup runs)
      BY <1>2, <1>4, <3>1 DEF Busy
    <3>3. Cardinality(old \cup runs) <= Cardinality(old) + Cardinality(runs)
      BY <1>2, <3>2, BothRuns
    <3>4. /\ Cardinality(next) <= Cardinality(old \cup runs) /\ Cardinality(next) \in Nat
          /\ Cardinality(old \cup runs) \in Nat /\ Cardinality(old) \in Nat /\ Cardinality(runs) \in Nat
      BY <1>2, <3>2, FewerRuns, RunsFinite
    <3>5. Cardinality(old) + Cardinality(runs) <= MaxWorkers
      BY <1>5, <3>1
    <3>6. Cardinality(next) <= MaxWorkers
      BY <1>8, <3>3, <3>4, <3>5
    <3> QED BY <3>1, <3>6
  <2> QED BY <2>1, <2>2 DEF WithinWorkers, Busy
<1>12. \A r \in RunIds : rows'[r].auto => rows'[r].task \in Local
  BY <1>5, <1>6, <1>7 DEF LimitInv
<1>13. OneContinuation'
  <2> DEFINE Live(r) == r \in RunIds /\ rows'[r].status \in {"queued", "running"} /\ rows'[r].auto
  <2>1. ASSUME NEW r, Live(r)
        PROVE  \/ ~IsNew(r) /\ rows'[r].task = rows[r].task /\ rows[r].auto
                  /\ rows[r].status \in {"queued", "running"}
               \/ \E n \in new : n[2] = r /\ rows'[r].task = n[1]
    <3>1. CASE now[r] = rows[r] /\ ~IsNew(r)
      BY <1>4, <1>7, <2>1, <3>1
    <3>2. CASE \E n \in new : n[2] = r /\ now[r].task = n[1]
      BY <1>7, <2>1, <3>2
    <3> QED BY <1>6, <2>1, <3>1, <3>2
  <2>2. ASSUME NEW r \in RunIds, rows[r].auto, rows[r].status \in {"queued", "running"}
        PROVE  Covers[rows[r].task] \subseteq Covered
    <3>1. rows[r].task \in Local
      BY <2>2 DEF LimitInv
    <3>2. r \in Of(rows[r].task, {"queued", "running"})
      BY <2>2 DEF Of
    <3> QED BY <3>1, <3>2 DEF Covered
  <2>3. ASSUME NEW r, NEW q, Live(r), Live(q), r # q
        PROVE  Covers[rows'[r].task] \cap Covers[rows'[q].task] = {}
    <3> DEFINE Old(x) == /\ x \in RunIds /\ rows'[x].task = rows[x].task /\ rows[x].auto
                         /\ rows[x].status \in {"queued", "running"}
               Added(x) == \E n \in new : n[2] = x /\ rows'[x].task = n[1]
    <3>1. (Old(r) \/ Added(r)) /\ (Old(q) \/ Added(q))
      BY <2>1, <2>3
    <3>2. CASE Old(r) /\ Old(q)
      BY <2>3, <3>2 DEF LimitInv, OneContinuation, All
    <3>3. CASE Old(r) /\ Added(q)
      BY <1>5, <2>2, <3>3
    <3>4. CASE Added(r) /\ Old(q)
      BY <1>5, <2>2, <3>4
    <3>5. CASE Added(r) /\ Added(q)
      <4>1. PICK n \in new : n[2] = r /\ rows'[r].task = n[1]
        BY <3>5
      <4>2. PICK m \in new : m[2] = q /\ rows'[q].task = m[1]
        BY <3>5
      <4> QED BY <1>5, <2>3, <4>1, <4>2
    <3> QED BY <3>1, <3>2, <3>3, <3>4, <3>5
  <2> QED BY <2>3 DEF OneContinuation, All
<1>14. \A o \in Procs : ~pick'[o].open
  BY DEF PickInv, TypeOK, NoPick
<1> QED BY <1>9, <1>10, <1>11, <1>12, <1>13, <1>14 DEF LimitInv

-----------------------------------------------------------------------------
(* The theorems.                                                           *)

\* Requests keep the limits.
LEMMA LimitsOfRequest ==
  ASSUME SchedulerPolicy, SchedulerBounds, SchedInv, LimitInv, Request PROVE LimitInv'
<1>0. TypeOK /\ PickInv
  BY DEF SchedInv
<1>1. ASSUME NEW t \in Tasks, NEW scheduled \in BOOLEAN, Enqueue(t, scheduled) PROVE LimitInv'
  <2> DEFINE s == IF SkipReason(t) THEN "skipped" ELSE "queued"
  <2>1. PICK r \in RunIds : NextIds({r}) /\ rows' = [rows EXCEPT ![r] = NewRow(t, s, FALSE, "due")]
    BY <1>1 DEF Enqueue
  <2>2. s = "queued" => GatesFree /\ Cardinality(All({"queued"})) < MaxQueued
    <3>1. Cardinality(All({"queued"})) \in Nat /\ MaxQueued \in Nat
      BY RunsFinite DEF All, SchedulerBounds
    <3>2. s = "queued" => GatesFree /\ ~(Cardinality(All({"queued"})) >= MaxQueued)
      BY <1>1 DEF Enqueue, SkipReason
    <3> QED BY <3>1, <3>2
  <2>3. s \in {"queued", "skipped"} /\ UNCHANGED <<pick, claimed, fut>>
    BY <1>1 DEF Enqueue, procVars
  <2> HIDE DEF s
  <2> QED BY <1>0, <2>1, <2>2, <2>3, InsertKeeps
<1>2. ASSUME NEW t \in Tasks, Misfire(t) PROVE LimitInv'
  <2>1. PICK r \in RunIds : NextIds({r}) /\ rows' = [rows EXCEPT ![r] = NewRow(t, "skipped", FALSE, "due")]
    BY <1>2 DEF Misfire
  <2>2. UNCHANGED <<pick, claimed, fut>>
    BY <1>2 DEF Misfire, procVars
  <2> QED BY <1>0, <2>1, <2>2, InsertKeeps
<1>3. CASE \/ \E t \in Tasks : Reschedule(t)
           \/ \E t \in Tasks, target \in {"active", "paused", "archived"} : ChangeState(t, target)
           \/ \E enabled \in BOOLEAN : SetSource(enabled)
           \/ \E r \in RunIds : StopRun(r) \/ Age(r)
  BY <1>0, <1>3, RequestShrinks, ShrinksKeep
<1> QED BY <1>1, <1>2, <1>3 DEF Request

\* Dispatches keep the limits.
LEMMA LimitsOfDispatch ==
  ASSUME SchedulerPolicy, SchedulerBounds, SchedInv, LimitInv, Dispatch PROVE LimitInv'
<1>0. TypeOK /\ PickInv
  BY DEF SchedInv
<1>1. ASSUME NEW p \in Procs, NEW admitted \in BOOLEAN, Select(p, admitted) PROVE LimitInv'
  BY <1>0, <1>1, SelectKeeps
<1>2. ASSUME NEW p \in Procs, NEW S \in SUBSET StillQueued(p), Commit(p, S) PROVE LimitInv'
  BY <1>0, <1>2, WriteKeeps DEF Commit
<1>3. ASSUME NEW p \in Procs, CommitUnknown(p) PROVE LimitInv'
  BY <1>0, <1>3, WriteKeeps DEF CommitUnknown
<1>4. ASSUME NEW p \in Procs, Abort(p) \/ \E r \in RunIds : Submit(p, r) PROVE LimitInv'
  BY <1>0, <1>4, HandOverShrinks, ShrinksKeep
<1> QED BY <1>1, <1>2, <1>3, <1>4 DEF Dispatch

\* What a dispatch has reserved is still there when it writes.
LEMMA LimitsHold == Spec => [](SchedInv /\ LimitInv)
<1> USE SchedulerPolicy, SchedulerBounds
<1>1. Init => LimitInv
  <2> SUFFICES ASSUME Init PROVE LimitInv
    OBVIOUS
  <2>1. \A r \in RunIds : rows[r].status = "absent" /\ rows[r].auto = FALSE
    BY DEF Init, NoRow
  <2>2. All({"queued"}) = {} /\ \A t : Of(t, {"running"}) = {}
    BY <2>1 DEF All, Of
  <2>3. \A p \in Procs : Busy(p) = {}
    BY DEF Init, NoFuture, Busy
  <2>4. Cardinality({}) = 0
    BY FS_EmptySet
  <2>0. 0 <= MaxQueued /\ 0 <= MaxWorkers /\ \A t \in Tasks : 0 <= Concurrency[t]
    <3>1. MaxQueued \in Nat /\ MaxWorkers \in Nat /\ \A t \in Tasks : Concurrency[t] \in Nat
      BY DEF SchedulerPolicy, SchedulerBounds
    <3> QED BY <3>1
  <2>5. QueueBounded
    BY <2>0, <2>2, <2>4, Zenon DEF QueueBounded
  <2>6. LimitRespected
    BY <2>0, <2>2, <2>4, Zenon DEF LimitRespected, Running
  <2>7. WithinWorkers
    BY <2>0, <2>3, <2>4, Zenon DEF WithinWorkers, Busy
  <2>8. OneContinuation /\ \A p \in Procs : ~pick[p].open
    BY <2>1 DEF OneContinuation, All, Init, NoPick
  <2> QED BY <2>1, <2>5, <2>6, <2>7, <2>8 DEF LimitInv
<1>2. SchedInv /\ LimitInv /\ [Next]_vars => LimitInv'
  <2>1. SchedInv /\ LimitInv /\ Next => LimitInv'
    <3>1. SchedInv /\ LimitInv /\ (Work \/ Process \/ Supervise) => LimitInv'
      BY WorkShrinks, ProcessShrinks, ShrinksKeep DEF SchedInv
    <3> QED BY <3>1, LimitsOfRequest, LimitsOfDispatch DEF Next
  <2>2. SchedInv /\ LimitInv /\ UNCHANGED vars => LimitInv'
    <3> SUFFICES ASSUME SchedInv, LimitInv, UNCHANGED vars PROVE LimitInv'
      OBVIOUS
    <3>1. RowsShrink /\ BusyShrinks /\ PicksShrink
      BY DEF vars, procVars, RowsShrink, BusyShrinks, Busy, PicksShrink
    <3> QED BY <3>1, ShrinksKeep DEF SchedInv
  <2> QED BY <2>1, <2>2
<1>3. Spec => []SchedInv
  BY SchedulerInvariant
<1> QED BY <1>1, <1>2, <1>3, PTL DEF Spec

\* The queue, every task's running rows, the local updates and every process's
\* claims stay within their limits together, for any number of processes.
THEOREM SchedulerLimits == Spec => []WorkLimited
<1>1. SchedInv /\ LimitInv => WorkLimited
  BY DEF SchedInv, LimitInv, WorkLimited
<1> QED BY <1>1, LimitsHold, PTL

\* Two live continuations never refresh the same entry.
THEOREM SchedulerContinues == Spec => []OneContinuation
<1>1. LimitInv => OneContinuation
  BY DEF LimitInv
<1> QED BY <1>1, LimitsHold, PTL
=============================================================================
