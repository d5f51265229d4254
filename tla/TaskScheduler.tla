---------------------------- MODULE TaskScheduler ----------------------------
(***************************************************************************)
(* The scheduler of collection and update tasks: rows of task_runs that    *)
(* any number of application processes enqueue, claim, execute and end.    *)
(*                                                                         *)
(* Enqueueing, dispatching and switching a source each hold the source     *)
(* rows' locks to their commit, so between processes they are atomic with  *)
(* respect to each other.  Editing a task, ending a run, restarting and    *)
(* the heartbeat supervisor do not take those locks: they interleave with  *)
(* a dispatch between its candidate query and its commit.  Handlers run in *)
(* threads of the process that claimed the run and report through a        *)
(* future; the process keeps the future until the outcome is persisted.    *)
(*                                                                         *)
(* Runs are numbered in the order of their creation, which is also the     *)
(* order of available_at.                                                  *)
(***************************************************************************)
EXTENDS Integers, FiniteSets

CONSTANTS
  Procs,          \* application processes with a scheduler
  Tasks,          \* scheduled_tasks: natural numbers, in the order of their ids
  MaxRuns,        \* bound: task_runs rows ever inserted
  Local,          \* tasks of type data_store.update_local
  Sourced,        \* tasks whose type belongs to the data source
  Stoppable,      \* tasks of type data.ths.*, whose running runs can be stopped
  Once,           \* tasks with a one-time schedule
  Edited,         \* bound: tasks that requests pause, archive or reschedule
  Halting,        \* bound: local updates that may report a global stop
  Queueing,       \* tasks with overlap_policy "queue"; the others have "skip"
  Priority, Concurrency, QueueLimit,  \* per task
  Entries,        \* data store entries
  Covers,         \* the entries a local-update task refreshes
  Ages,           \* bound: the ages a queued run is seen at
  MaxQueued,      \* scheduler_max_queued_runs
  MaxWorkers,     \* scheduler_max_workers
  MaxOutages,     \* bound: stops and outages of processes
  MaxLooks,       \* bound: passes of the heartbeat supervisor
  MaxUnknown,     \* bound: commits whose acknowledgement is lost
  Unknown         \* bound: what they commit, claims or outcomes

RunIds   == 1..MaxRuns
Terminal == {"succeeded", "failed", "skipped", "interrupted", "cancelled", "indeterminate"}
\* A claimed run is skipped only when its task was archived.
Claimed  == {"running"} \cup (Terminal \ {"skipped"})
States   == {"active", "paused", "completed", "archived"}

ASSUME SchedulerPolicy ==
  /\ Tasks # {} /\ Tasks \subseteq Nat /\ Local \subseteq Tasks /\ Sourced \subseteq Tasks \ Local
  /\ Stoppable \subseteq Tasks \ Local /\ Once \subseteq Tasks /\ Queueing \subseteq Tasks
  /\ Edited \subseteq Tasks /\ Halting \subseteq Local
  /\ Priority \in [Tasks -> Int]
  /\ Concurrency \in [Tasks -> Nat \ {0}] /\ QueueLimit \in [Tasks -> Nat \ {0}]
  /\ Covers \in [Local -> SUBSET Entries]
ASSUME SchedulerBounds ==
  /\ MaxRuns \in Nat \ {0} /\ MaxQueued \in Nat \ {0} /\ MaxWorkers \in Nat \ {0}
  /\ MaxOutages \in Nat /\ MaxLooks \in Nat /\ MaxUnknown \in Nat
  /\ Unknown \subseteq {"claims", "outcomes"}
  /\ "due" \in Ages /\ Ages \subseteq {"future", "due", "overdue"}

VARIABLES
  state,          \* scheduled_tasks.state
  source,         \* data_source_configs: enabled
  rows,           \* task_runs
  intent,         \* entries whose data_store_entry_status asks to be continued
  lost,           \* the heartbeat supervisor: runs to look at, runs it has ended
  mode,           \* of each process
  pick,           \* a dispatch's open transaction: continuations, runs it selected
  claimed,        \* runs claimed and not yet handed to the executor
  fut,            \* _futures: of each process and run
  starts,         \* history: times the handler of a run was started
  report,         \* history: what the handler of a run reported
  outages, unknown

procVars == <<mode, pick, claimed, fut>>
hist     == <<starts, report, outages, unknown>>
vars     == <<state, source, rows, intent, lost, procVars, hist>>

-----------------------------------------------------------------------------
(* Rows and futures.                                                       *)

NoRow == [status |-> "absent", task |-> CHOOSE t \in Tasks : TRUE, auto |-> FALSE,
          cancel |-> FALSE, halt |-> FALSE, age |-> "due"]

NewRow(t, status, auto, age) ==
  [NoRow EXCEPT !.status = status, !.task = t, !.auto = auto, !.age = age]

\* The age of a run matters while it is queued.
Become(row, status) == [row EXCEPT !.status = status, !.age = "due"]
Set(S, status) == [r \in RunIds |-> IF r \in S THEN Become(rows[r], status) ELSE rows[r]]

Of(t, S)   == {r \in RunIds : rows[r].task = t /\ rows[r].status \in S}
All(S)     == {r \in RunIds : rows[r].status \in S}
Running(t) == Cardinality(Of(t, {"running"}))

NoFuture   == [at |-> "none", out |-> "none", halt |-> FALSE]
Done(out)  == [at |-> "done", out |-> out, halt |-> FALSE]
Futures(p) == {r \in RunIds : fut[p][r].at # "none"}

NoPick == [open |-> FALSE, new |-> {}, runs |-> {}]

\* lock_source_gates: no dispatch transaction is open.
GatesFree == \A p \in Procs : ~pick[p].open

\* Rows not inserted yet, by this or by an open transaction.
Unused == All({"absent"}) \ {r \in RunIds : \E p \in Procs : \E n \in pick[p].new : n[2] = r}
NextIds(S) == S \subseteq Unused /\ \A r \in S : \A q \in Unused \ S : r < q

TaskLocked(t) == \E p \in Procs : \E n \in pick[p].new : n[1] = t
RowLocked(r)  == r \in lost.ended

\* Earlier runs have ended; their intents to continue are still there.
Init ==
  /\ state = [t \in Tasks |-> "active"] /\ source = TRUE
  /\ rows = [r \in RunIds |-> NoRow] /\ intent \in SUBSET Entries
  /\ lost = [look |-> {}, ended |-> {}, looks |-> 0]
  /\ mode = [p \in Procs |-> "down"] /\ pick = [p \in Procs |-> NoPick]
  /\ claimed = [p \in Procs |-> {}]
  /\ fut = [p \in Procs |-> [r \in RunIds |-> NoFuture]]
  /\ starts = [r \in RunIds |-> 0] /\ report = [r \in RunIds |-> "none"]
  /\ outages = 0 /\ unknown = 0

-----------------------------------------------------------------------------
(* Tasks, the source and requests.  Any process may serve them.            *)

SkipReason(t) ==
  \/ t \in Sourced /\ ~source
  \/ Cardinality(All({"queued"})) >= MaxQueued
  \/ t \notin Queueing /\ Cardinality(Of(t, {"running", "queued"})) >= Concurrency[t]
  \/ t \in Queueing /\ Cardinality(Of(t, {"queued"})) >= QueueLimit[t]

\* enqueue_run, manual or scheduled; a manual run of a disabled source is refused.
Enqueue(t, scheduled) ==
  /\ \E p \in Procs : mode[p] = "up"
  /\ GatesFree
  /\ state[t] \in (IF scheduled THEN {"active"} ELSE {"active", "paused"})
  /\ scheduled \/ t \notin Sourced \/ source
  /\ \E r \in RunIds :
       /\ NextIds({r})
       /\ rows' = [rows EXCEPT ![r] =
                     NewRow(t, IF SkipReason(t) THEN "skipped" ELSE "queued", FALSE, "due")]
  /\ state' = IF scheduled /\ t \in Once THEN [state EXCEPT ![t] = "completed"] ELSE state
  /\ UNCHANGED <<source, intent, lost, procVars, hist>>

\* sync_task: a one-time schedule past its misfire grace leaves a skipped run.
\* The task is read without a lock: it was active then, and need not be now.
Misfire(t) ==
  /\ t \in Once /\ ~TaskLocked(t)
  /\ \E r \in RunIds : /\ NextIds({r})
                       /\ rows' = [rows EXCEPT ![r] = NewRow(t, "skipped", FALSE, "due")]
  /\ state' = [state EXCEPT ![t] = "completed"]
  /\ UNCHANGED <<source, intent, lost, procVars, hist>>

MayBecome(t, target) ==
  CASE target = "active"   -> state[t] = "paused"
    [] target = "paused"   -> state[t] = "active"
    [] target = "archived" -> state[t] # "archived"

\* A mutant: what is queued stays queued.
ChangeStateOnly(t, target) ==
  /\ t \in Edited /\ ~TaskLocked(t) /\ MayBecome(t, target)
  /\ state' = [state EXCEPT ![t] = target]
  /\ UNCHANGED <<source, rows, intent, lost, procVars, hist>>

\* change_state; archiving skips what is queued.
ChangeState(t, target) ==
  /\ t \in Edited /\ ~TaskLocked(t) /\ MayBecome(t, target)
  /\ state' = [state EXCEPT ![t] = target]
  /\ rows' = IF target = "archived" THEN Set(Of(t, {"queued"}), "skipped") ELSE rows
  /\ UNCHANGED <<source, intent, lost, procVars, hist>>

\* update_task with a new schedule.
Reschedule(t) ==
  /\ t \in Edited /\ ~TaskLocked(t) /\ state[t] = "completed"
  /\ state' = [state EXCEPT ![t] = "paused"]
  /\ UNCHANGED <<source, rows, intent, lost, procVars, hist>>

\* set_enabled: disabling the source skips what is queued for it.
SetSource(enabled) ==
  /\ GatesFree /\ Sourced # {} /\ source # enabled /\ source' = enabled
  /\ rows' = IF enabled THEN rows
             ELSE Set(UNION {Of(t, {"queued"}) : t \in Sourced}, "skipped")
  /\ UNCHANGED <<state, intent, lost, procVars, hist>>

StopRun(r) ==
  /\ rows[r].status = "running" /\ rows[r].task \in Stoppable /\ ~RowLocked(r)
  /\ rows' = [rows EXCEPT ![r].cancel = TRUE]
  /\ UNCHANGED <<state, source, intent, lost, procVars, hist>>

\* Time: a run becomes available, and an hour later overdue.
Age(r) ==
  /\ rows[r].status = "queued"
  /\ \E age \in Ages : /\ <<rows[r].age, age>> \in {<<"future", "due">>, <<"due", "overdue">>}
                      /\ rows' = [rows EXCEPT ![r].age = age]
  /\ UNCHANGED <<state, source, intent, lost, procVars, hist>>

-----------------------------------------------------------------------------
(* The continuations a dispatch adds: at most one covering run per entry.  *)

Owner(e) == CHOOSE t \in Local : /\ state[t] = "active" /\ e \in Covers[t]
                                 /\ \A u \in Local : state[u] = "active" /\ e \in Covers[u] => t <= u

\* A mutant: running rows cover nothing.
CoveredByQueued == UNION {Covers[t] : t \in {u \in Local : Of(u, {"queued"}) # {}}}

Covered == UNION {Covers[t] : t \in {u \in Local : Of(u, {"queued", "running"}) # {}}}

\* The latest run of t that was ever claimed reported a global stop.
Halted(t) == \E r \in Of(t, Claimed) : rows[r].halt /\ \A q \in Of(t, Claimed) : q <= r

\* A mutant: the last place in the queue is left to requests.
WantedBelow(t, C) ==
  LET earlier == {u \in C : u < t}
      covered == Covered \cup UNION {Covers[u] : u \in earlier}
  IN  /\ state[t] = "active"
      /\ \E e \in Covers[t] \cap intent : Owner(e) = t
      /\ Covers[t] \cap covered = {}
      /\ Cardinality(All({"queued"})) + Cardinality(earlier) < MaxQueued - 1
      /\ ~Halted(t)

\* t wants a run although the tasks of C, walked before it, receive one.
Wanted(t, C) ==
  LET earlier == {u \in C : u < t}
      covered == Covered \cup UNION {Covers[u] : u \in earlier}
  IN  /\ state[t] = "active"
      /\ \E e \in Covers[t] \cap intent : Owner(e) = t
      /\ Covers[t] \cap covered = {}
      /\ Cardinality(All({"queued"})) + Cardinality(earlier) < MaxQueued
      /\ ~Halted(t)

\* The rows added: a task, its run id and when it is available.
Numbered(C, age) ==
  {new \in SUBSET (C \X Unused \X {age}) :
     /\ \A t \in C : \E n \in new : n[1] = t
     /\ \A n, m \in new : n[1] < m[1] => n[2] < m[2]
     /\ \A n, m \in new : n[1] = m[1] => n = m
     /\ NextIds({n[2] : n \in new})}

\* A task that an open edit has locked is passed over.
Continuations ==
  UNION {IF Cardinality(C) <= Cardinality(Unused) THEN Numbered(C, age) ELSE {{}} :
           C \in {D \in SUBSET Local : \E busy \in SUBSET (Local \cap (Edited \cup Once)) :
                    \A t \in Local : t \in D <=> t \notin busy /\ Wanted(t, D)},
           age \in Ages}

\* The table with the continuations in it.
With(new) ==
  [r \in RunIds |-> IF \E n \in new : n[2] = r
                     THEN LET n == CHOOSE m \in new : m[2] = r
                          IN  NewRow(n[1], "queued", TRUE, n[3])
                     ELSE rows[r]]

-----------------------------------------------------------------------------
(* dispatch_queued_runs.                                                   *)

\* A mutant: strict priority.
PrecedesByPriority(a, b, now) ==
  \/ Priority[now[a].task] > Priority[now[b].task]
  \/ Priority[now[a].task] = Priority[now[b].task] /\ a < b

Precedes(a, b, now) ==
  \/ now[a].age = "overdue" /\ now[b].age # "overdue"
  \/ now[a].age = "overdue" /\ now[b].age = "overdue" /\ a < b
  \/ /\ now[a].age # "overdue" /\ now[b].age # "overdue"
     /\ \/ Priority[now[a].task] > Priority[now[b].task]
        \/ Priority[now[a].task] = Priority[now[b].task] /\ a < b

First(S, now) == {r \in S : \A q \in S : ~Precedes(q, r, now)}

\* Mutants: the rank may reach the limit whatever is running; a running local
\* update holds back only its own task.
SelectedBeside(now, slots, admitted) ==
  LET able == {r \in RunIds : /\ now[r].status = "queued" /\ now[r].age # "future"
                              /\ state[now[r].task] # "archived"
                              /\ now[r].task \notin Sourced \/ source
                              /\ now[r].task \in Local =>
                                   admitted /\ \A q \in All({"running"}) : rows[q].task \notin Local}
      ahead(r) == {q \in able : now[q].task = now[r].task /\ Precedes(q, r, now)}
      rank  == {r \in able : Cardinality(ahead(r)) < Concurrency[now[r].task]}
  IN  {r \in rank : Cardinality({q \in rank : Precedes(q, r, now)}) < slots}

\* The rows the candidate query returns, of the rows as the transaction sees them.
Selected(now, slots, admitted) ==
  LET due   == {r \in RunIds : /\ now[r].status = "queued" /\ now[r].age # "future"
                               /\ state[now[r].task] # "archived"
                               /\ now[r].task \notin Sourced \/ source}
      local == {r \in due : now[r].task \in Local}
      free  == admitted /\ \A r \in All({"running"}) : rows[r].task \notin Local
      able  == {r \in due : /\ Running(now[r].task) < Concurrency[now[r].task]
                            /\ r \in local => free /\ r \in First(local, now)}
      ahead(r) == {q \in able : now[q].task = now[r].task /\ Precedes(q, r, now)}
      rank  == {r \in able : Cardinality(ahead(r)) + Running(now[r].task)
                               < Concurrency[now[r].task]}
  IN  {r \in rank : Cardinality({q \in rank : Precedes(q, r, now)}) < slots}

\* The transaction up to its candidate query.  Local updates are not admitted
\* when the store is under maintenance or the continuations cannot be read.
Select(p, admitted) ==
  /\ mode[p] = "up" /\ claimed[p] = {} /\ GatesFree
  /\ Cardinality(Futures(p)) < MaxWorkers
  /\ \E new \in IF admitted THEN Continuations ELSE {{}} :
       pick' = [pick EXCEPT ![p] =
         [open |-> TRUE, new |-> new,
          runs |-> Selected(With(new), MaxWorkers - Cardinality(Futures(p)), admitted)]]
  /\ UNCHANGED <<state, source, rows, intent, lost, mode, claimed, fut, hist>>

\* The rows the transaction writes: continuations, and the claims among S.
Written(p, S) ==
  [r \in RunIds |-> IF r \in S THEN Become(With(pick[p].new)[r], "running")
                               ELSE With(pick[p].new)[r]]

\* A continuation is a scheduled run: it completes a one-time task.
Completed(p) ==
  [t \in Tasks |-> IF t \in Once /\ \E n \in pick[p].new : n[1] = t
                     THEN "completed" ELSE state[t]]

\* Selected rows that were skipped meanwhile are not claimed.
StillQueued(p) == {r \in pick[p].runs : With(pick[p].new)[r].status = "queued"}

\* The claims S are committed; a row whose creation the clock precedes stays queued.
Commit(p, S) ==
  /\ pick[p].open
  /\ rows' = Written(p, S)
  /\ state' = Completed(p)
  /\ claimed' = [claimed EXCEPT ![p] = S]
  /\ pick' = [pick EXCEPT ![p] = NoPick]
  /\ UNCHANGED <<source, intent, lost, mode, fut, hist>>

\* The transaction fails, as it does when it would start a skipped row.
Abort(p) ==
  /\ pick[p].open
  /\ pick' = [pick EXCEPT ![p] = NoPick]
  /\ UNCHANGED <<state, source, rows, intent, lost, mode, claimed, fut, hist>>

\* The claims are committed, and the process is told that they are not.
CommitUnknown(p) ==
  /\ pick[p].open /\ "claims" \in Unknown /\ unknown < MaxUnknown
  /\ rows' = Written(p, StillQueued(p)) /\ state' = Completed(p)
  /\ pick' = [pick EXCEPT ![p] = NoPick]
  /\ unknown' = unknown + 1
  /\ UNCHANGED <<source, intent, lost, mode, claimed, fut, starts, report, outages>>

\* A claimed run is handed to the executor, which refuses it once shut down.
Submit(p, r) ==
  /\ r \in claimed[p]
  /\ claimed' = [claimed EXCEPT ![p] = @ \ {r}]
  /\ fut' = [fut EXCEPT ![p][r] = IF mode[p] = "up" THEN [NoFuture EXCEPT !.at = "pending"]
                                                    ELSE Done("failed")]
  /\ UNCHANGED <<state, source, rows, intent, lost, mode, pick, hist>>

-----------------------------------------------------------------------------
(* Worker threads and the persistence of outcomes.                         *)

\* _execute_run up to the handler: the row and its task are read once, which
\* may fail.
Begin(p, r) ==
  /\ fut[p][r].at = "pending"
  /\ \/ /\ fut' = [fut EXCEPT ![p][r] = Done("failed")]
        /\ UNCHANGED starts
     \/ /\ rows[r].status # "running"
        /\ fut' = [fut EXCEPT ![p][r] = Done("indeterminate")]
        /\ UNCHANGED starts
     \/ /\ rows[r].status = "running" /\ state[rows[r].task] = "archived"
        /\ fut' = [fut EXCEPT ![p][r] = Done("skipped")]
        /\ UNCHANGED starts
     \/ /\ rows[r].status = "running" /\ state[rows[r].task] # "archived"
        /\ fut' = [fut EXCEPT ![p][r].at = "handler"]
        /\ starts' = [starts EXCEPT ![r] = @ + 1]
  /\ UNCHANGED <<state, source, rows, intent, lost, mode, pick, claimed, report, outages, unknown>>

\* A local update records, while it runs, which of its entries are unfinished.
RecordIntent(p, r, E) ==
  /\ fut[p][r].at = "handler" /\ rows[r].task \in Local
  /\ intent' = (intent \ Covers[rows[r].task]) \cup E
  /\ UNCHANGED <<state, source, rows, lost, procVars, hist>>

\* The handler returns or raises; a stopped collection notices the request.
HandlerEnd(p, r, out, halt) ==
  /\ fut[p][r].at = "handler"
  /\ out = "cancelled" => /\ rows[r].task \in Stoppable
                          /\ rows[r].cancel \/ rows[r].status # "running"
  /\ halt => rows[r].task \in Halting
  /\ fut' = [fut EXCEPT ![p][r] = [at |-> "done", out |-> out, halt |-> halt]]
  /\ report' = [report EXCEPT ![r] = out]
  /\ UNCHANGED <<state, source, rows, intent, lost, mode, pick, claimed, starts, outages, unknown>>

\* finish_run: only a running row ends.
\* A callback runs once when the future ends; a dispatch of a process that
\* still schedules retries what a callback could not persist.
Reconciles(p, r) ==
  /\ ~RowLocked(r)
  /\ \/ fut[p][r].at = "done"
     \/ fut[p][r].at = "kept" /\ mode[p] = "up" /\ claimed[p] = {} /\ ~pick[p].open

\* A mutant: any row ends.
FinishedAnyway(r, f) == [rows EXCEPT ![r].status = f.out, ![r].halt = f.halt]

Finished(r, f) ==
  IF rows[r].status = "running"
    THEN [rows EXCEPT ![r].status = f.out, ![r].halt = f.halt]
    ELSE rows

Persist(p, r) ==
  /\ Reconciles(p, r)
  /\ rows' = Finished(r, fut[p][r])
  /\ fut' = [fut EXCEPT ![p][r] = NoFuture]
  /\ UNCHANGED <<state, source, intent, lost, mode, pick, claimed, hist>>

\* A mutant: an outcome that cannot be persisted is replaced by a failure.
KeepFailure(p, r) ==
  /\ fut[p][r].at = "done"
  /\ fut' = [fut EXCEPT ![p][r] = [Done("failed") EXCEPT !.at = "kept"]]
  /\ UNCHANGED <<state, source, rows, intent, lost, mode, pick, claimed, hist>>

\* The write fails, or the clock is behind the row: the outcome is kept.
KeepOutcome(p, r) ==
  /\ fut[p][r].at = "done"
  /\ fut' = [fut EXCEPT ![p][r].at = "kept"]
  /\ UNCHANGED <<state, source, rows, intent, lost, mode, pick, claimed, hist>>

\* The write is committed and the acknowledgement lost.
PersistUnknown(p, r) ==
  /\ Reconciles(p, r) /\ "outcomes" \in Unknown /\ unknown < MaxUnknown
  /\ rows' = Finished(r, fut[p][r])
  /\ fut' = [fut EXCEPT ![p][r].at = "kept"]
  /\ unknown' = unknown + 1
  /\ UNCHANGED <<state, source, intent, lost, mode, pick, claimed, starts, report, outages>>

-----------------------------------------------------------------------------
(* Processes.                                                              *)

\* Mutants: running rows are executed again; or left as they are.
StartRequeues(p, late) ==
  /\ mode[p] = "down" /\ lost.ended = {} /\ late = {}
  /\ rows' = Set(All({"running"}), "queued")
  /\ mode' = [mode EXCEPT ![p] = "up"]
  /\ UNCHANGED <<state, source, intent, lost, pick, claimed, fut, hist>>

StartOnly(p, late) ==
  /\ mode[p] = "down" /\ late = {}
  /\ mode' = [mode EXCEPT ![p] = "up"]
  /\ UNCHANGED <<state, source, rows, intent, lost, pick, claimed, fut, hist>>

\* start: running rows are interrupted, whoever runs them; those the clock has
\* not caught up with are kept as outcomes to persist.
Start(p, late) ==
  /\ mode[p] = "down" /\ lost.ended = {}
  /\ late \subseteq All({"running"})
  /\ rows' = Set(All({"running"}) \ late, "interrupted")
  /\ fut' = [fut EXCEPT ![p] = [r \in RunIds |-> IF r \in late
                                                  THEN [Done("interrupted") EXCEPT !.at = "kept"]
                                                  ELSE NoFuture]]
  /\ mode' = [mode EXCEPT ![p] = "up"]
  /\ UNCHANGED <<state, source, intent, lost, pick, claimed, hist>>

\* stop: no more dispatches; futures not yet started are cancelled.
Stop(p) ==
  /\ mode[p] = "up" /\ outages < MaxOutages /\ outages' = outages + 1
  /\ mode' = [mode EXCEPT ![p] = "stopped"]
  /\ fut' = [fut EXCEPT ![p] = [r \in RunIds |-> IF fut[p][r].at = "pending"
                                                  THEN Done("interrupted") ELSE fut[p][r]]]
  /\ UNCHANGED <<state, source, rows, intent, lost, pick, claimed, starts, report, unknown>>

Gone(p) ==
  /\ mode' = [mode EXCEPT ![p] = "down"]
  /\ pick' = [pick EXCEPT ![p] = NoPick]
  /\ claimed' = [claimed EXCEPT ![p] = {}]
  /\ fut' = [fut EXCEPT ![p] = [r \in RunIds |-> NoFuture]]
  /\ UNCHANGED <<state, source, rows, intent, lost, starts, report, unknown>>

\* A stopped process exits once its threads have ended, with what it kept.
Exit(p) ==
  /\ mode[p] = "stopped" /\ ~pick[p].open /\ claimed[p] = {}
  /\ \A r \in RunIds : fut[p][r].at \in {"none", "kept"}
  /\ Gone(p) /\ UNCHANGED outages

Crash(p) ==
  /\ mode[p] # "down" /\ outages < MaxOutages
  /\ Gone(p) /\ outages' = outages + 1

-----------------------------------------------------------------------------
(* terminate_lost_runs: one transaction over the runs whose heartbeat is   *)
(* old, with a grace period before each.                                   *)

ListLost(S) ==
  /\ lost.look = {} /\ lost.ended = {} /\ S # {} /\ S \subseteq All({"running"})
  /\ lost.looks < MaxLooks
  /\ lost' = [lost EXCEPT !.look = S, !.looks = @ + 1]
  /\ UNCHANGED <<state, source, rows, intent, procVars, hist>>

\* After the grace period the status is read again.
EndLost(r) ==
  /\ r \in lost.look
  /\ lost' = [lost EXCEPT !.look = @ \ {r},
                          !.ended = IF rows[r].status = "running" THEN @ \cup {r} ELSE @]
  /\ UNCHANGED <<state, source, rows, intent, procVars, hist>>

CommitLost ==
  /\ lost.look = {} /\ lost.ended # {}
  /\ rows' = Set(lost.ended, "indeterminate")
  /\ lost' = [lost EXCEPT !.ended = {}]
  /\ UNCHANGED <<state, source, intent, procVars, hist>>

\* The clock regressed, or the process ended.
AbandonLost ==
  /\ lost.look \cup lost.ended # {}
  /\ lost' = [lost EXCEPT !.look = {}, !.ended = {}]
  /\ UNCHANGED <<state, source, rows, intent, procVars, hist>>

-----------------------------------------------------------------------------
Request ==
  \/ \E t \in Tasks, scheduled \in BOOLEAN : Enqueue(t, scheduled)
  \/ \E t \in Tasks : Misfire(t) \/ Reschedule(t)
  \/ \E t \in Tasks, target \in {"active", "paused", "archived"} : ChangeState(t, target)
  \/ \E enabled \in BOOLEAN : SetSource(enabled)
  \/ \E r \in RunIds : StopRun(r) \/ Age(r)

Dispatch ==
  \E p \in Procs :
    \/ \E admitted \in BOOLEAN : Select(p, admitted)
    \/ \E S \in SUBSET StillQueued(p) : Commit(p, S)
    \/ Abort(p) \/ CommitUnknown(p)
    \/ \E r \in RunIds : Submit(p, r)

Work ==
  \E p \in Procs, r \in RunIds :
    \/ Begin(p, r) \/ Persist(p, r) \/ KeepOutcome(p, r) \/ PersistUnknown(p, r)
    \/ \E E \in SUBSET Entries : RecordIntent(p, r, E)
    \/ \E out \in {"succeeded", "failed", "cancelled"}, halt \in BOOLEAN :
         HandlerEnd(p, r, out, halt)

Process ==
  \E p \in Procs :
    \/ \E late \in SUBSET All({"running"}) : Start(p, late)
    \/ Stop(p) \/ Exit(p) \/ Crash(p)

Supervise ==
  \/ \E S \in SUBSET All({"running"}) : ListLost(S)
  \/ \E r \in RunIds : EndLost(r)
  \/ CommitLost \/ AbandonLost

Next == Request \/ Dispatch \/ Work \/ Process \/ Supervise
Spec == Init /\ [][Next]_vars

-----------------------------------------------------------------------------
(* Properties.                                                             *)

RowSet    == [status : {"absent", "queued", "running"} \cup Terminal, task : Tasks,
              auto : BOOLEAN, cancel : BOOLEAN, halt : BOOLEAN, age : Ages]
FutureSet == [at : {"none", "pending", "handler", "done", "kept"},
              out : Terminal \cup {"none"}, halt : BOOLEAN]
PickSet   == [open : BOOLEAN, new : SUBSET (Tasks \X RunIds \X Ages), runs : SUBSET RunIds]

\* Every variable has its type, and a future that is done has an outcome.
TypeOK ==
  /\ state \in [Tasks -> States] /\ source \in BOOLEAN
  /\ rows \in [RunIds -> RowSet] /\ intent \subseteq Entries
  /\ lost \in [look : SUBSET RunIds, ended : SUBSET RunIds, looks : Nat]
  /\ mode \in [Procs -> {"down", "up", "stopped"}]
  /\ pick \in [Procs -> PickSet] /\ claimed \in [Procs -> SUBSET RunIds]
  /\ fut \in [Procs -> [RunIds -> FutureSet]]
  /\ \A p \in Procs, r \in RunIds : fut[p][r].at \in {"done", "kept"} => fut[p][r].out \in Terminal
  /\ starts \in [RunIds -> Nat]
  /\ report \in [RunIds -> {"none", "succeeded", "failed", "cancelled"}]
  /\ outages \in Nat /\ unknown \in Nat

\* The queue never exceeds its limit, whichever processes enqueue, and whether a
\* request or a dispatch's continuation does.
QueueBounded == Cardinality(All({"queued"})) <= MaxQueued

\* Nothing is queued for an archived task or for a disabled source: no enqueue
\* slips past archiving or disabling, so the dispatch's own skip finds nothing.
FencedTasksDoNotQueue ==
  \A r \in All({"queued"}) : /\ state[rows[r].task] # "archived"
                             /\ rows[r].task \in Sourced => source

\* At most one local update is running, over all tasks and processes.
OneLocalRow == \A r, q \in All({"running"}) :
                 rows[r].task \in Local /\ rows[q].task \in Local => r = q

\* A task never has more running rows than its concurrency limit.
LimitRespected == \A t \in Tasks : Running(t) <= Concurrency[t]

\* The handler of a run is started at most once: neither a restart, nor a failed
\* write of its outcome, nor a lost heartbeat executes it again.
StartedOnce == \A r \in RunIds : starts[r] <= 1

\* A row says success, or a stop, only when its handler reported it; a reported
\* success is recorded, or the run was declared interrupted or lost before.
TruthfulEnd ==
  \A r \in RunIds :
    /\ rows[r].status \in {"succeeded", "cancelled"} => report[r] = rows[r].status
    /\ rows[r].status = "failed" => report[r] = "failed" \/ starts[r] = 0
    /\ report[r] = "succeeded" =>
         rows[r].status \in {"running", "succeeded", "interrupted", "indeterminate"}

\* A kept outcome "interrupted" is one its start took over, or a cancelled future.
TakenOver(f) == f.at = "kept" /\ f.out = "interrupted"
Busy(p) == claimed[p] \cup {r \in RunIds : fut[p][r].at # "none" /\ ~TakenOver(fut[p][r])}

\* What a process has claimed never outnumbers its threads before its outcome is
\* stored: an outcome that waits to be stored keeps its place.
WithinWorkers == \A p \in Procs : Cardinality(Busy(p)) <= MaxWorkers

\* The limits of the queue, of a task, of local updates and of a process hold
\* together, although each is looked up in a transaction of its own.
WorkLimited == TypeOK /\ QueueBounded /\ LimitRespected /\ OneLocalRow /\ WithinWorkers

\* Generated follow-ups never overlap: an entry has one live continuation.
OneContinuation ==
  \A r, q \in All({"queued", "running"}) :
    rows[r].auto /\ rows[q].auto /\ r # q =>
      Covers[rows[r].task] \cap Covers[rows[q].task] = {}

\* A row that has ended never changes.
RunSettled ==
  [][\A r \in RunIds : rows[r].status \in Terminal => rows'[r] = rows[r]]_vars

-----------------------------------------------------------------------------
(* Liveness.  The dispatch job recurs, threads go on, a process that is    *)
(* down is started again, time passes, and the database does not fail for  *)
(* ever: what is tried again and again is done at last.  No request, stop  *)
(* or crash is fair, and no edit ends: with Edited or Once, a continuation *)
(* may be passed over for ever.                                            *)

Fairness ==
  /\ \A p \in Procs :
       /\ WF_vars(\E late \in SUBSET All({"running"}) : Start(p, late)) /\ WF_vars(Exit(p))
       /\ SF_vars(Select(p, TRUE)) /\ WF_vars(Commit(p, StillQueued(p)) \/ Abort(p))
       /\ SF_vars(pick[p].new # {} /\ \E S \in SUBSET StillQueued(p) : Commit(p, S))
       /\ \A r \in RunIds :
            /\ SF_vars(\E S \in SUBSET StillQueued(p) : r \in S /\ Commit(p, S))
            /\ WF_vars(Submit(p, r)) /\ WF_vars(Begin(p, r)) /\ SF_vars(Persist(p, r))
            /\ WF_vars(\E out \in {"succeeded", "failed"}, halt \in BOOLEAN :
                         HandlerEnd(p, r, out, halt))
  /\ \A r \in RunIds : WF_vars(Age(r)) /\ WF_vars(EndLost(r))
  /\ WF_vars(CommitLost)

LiveSpec == Spec /\ Fairness

\* No process will ever end r: all are up, and none was told that it claimed it.
Forgotten(r) == /\ starts[r] = 0
                /\ \A p \in Procs : mode[p] = "up" /\ r \notin claimed[p] \cup Futures(p)

\* A running row ends, whatever stops, crashes and failed writes happen, unless
\* the acknowledgement of its claim was lost; then the next start ends it.
RunsEnd ==
  \A r \in RunIds :
    /\ rows[r].status = "running" ~> rows[r].status # "running" \/ Forgotten(r)
    /\ rows[r].status = "running" /\ (\E p \in Procs : mode[p] = "down")
         ~> rows[r].status # "running"

\* A forgotten row holds back its task, or with it all local updates.
HeldBack(r) ==
  \E q \in RunIds :
    /\ rows[q].status = "running" /\ Forgotten(q)
    /\ rows[q].task = rows[r].task \/ {rows[q].task, rows[r].task} \subseteq Local

\* A queued row leaves the queue, however often recurring work of a higher
\* priority refills it, unless a forgotten row holds it back: "Strict priority
\* alone can starve backfills forever".
QueueDrains ==
  \A r \in RunIds :
    rows[r].status = "queued" ~> rows[r].status # "queued" \/ HeldBack(r)

\* An intent to continue outlives the run that recorded it: once no run covers
\* its entry, a new one does, unless its tasks are inactive or stopped globally.
IntentServed ==
  \A e \in Entries :
    e \in intent /\ e \notin Covered ~>
      \/ e \notin intent \/ e \in Covered \/ All({"absent"}) = {}
      \/ \A t \in Local : e \in Covers[t] => state[t] # "active" \/ Halted(t)

\* "retain its durable RUNNING row until the worker's terminal outcome is
\* committed": one local update is being executed at a time.
OneLocalWriter ==
  \A p, o \in Procs, r, q \in RunIds :
    /\ fut[p][r].at = "handler" /\ rows[r].task \in Local
    /\ fut[o][q].at = "handler" /\ rows[q].task \in Local
    => r = q
=============================================================================
