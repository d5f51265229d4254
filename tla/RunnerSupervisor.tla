-------------------------- MODULE RunnerSupervisor --------------------------
(***************************************************************************)
(* RunnerSupervisor processes on one host, each driving RunRepository, the *)
(* Docker daemon and the work root.  A supervisor has a main thread        *)
(* (run_forever: reap expired claims, tend own tasks, claim and start one  *)
(* run), and per task a heartbeat thread and a control thread that answers *)
(* the worker.  Every repository transaction and every daemon request is a *)
(* step, so all of them interleave; processes may crash between any two.   *)
(***************************************************************************)
EXTENDS RunRepository

CONSTANTS
  Supervisors,
  MaxCrashes,     \* bound: crashes and requests to stop
  DockerFaults,   \* the daemon may be unreachable
  LateRollback    \* the final data check may raise after the outcome's INSERT

ASSUME FaultAssumption == /\ MaxCrashes \in Nat
                          /\ DockerFaults \in BOOLEAN /\ LateRollback \in BOOLEAN

VARIABLES
  main,           \* main thread of each supervisor
  tasks,          \* self.tasks: by run id, the claim's fence (0: no task), the
                  \* worker's reported outcome and its last progress
  box,            \* container holding the run's deterministic name: label fence
                  \* (0: no container) and state
  dirs,           \* claims whose attempt directory exists
  kept,           \* claims whose sealed result directory is retained
  crashes

vars == <<made, rows, pointers, main, tasks, box, dirs, kept, crashes>>
outside == <<box, dirs, kept, crashes>>

NoTask == [fence |-> 0, outcome |-> "none", progress |-> 0]
NoBox  == [fence |-> 0, state |-> "none"]
NoClaim == [run |-> 1, fence |-> 0]

Job == {"reap", "finish", "undo"}
PC == {"off", "top", "reap", "stop", "stopAct", "reapTask", "reapRow", "tend",
       "beat", "look", "watch", "finish", "seal", "commit", "lost", "clean", "claim",
       "work", "mkdir", "bind", "prepare", "check", "create", "check2", "boot",
       "undone", "giveUp"}

Thread == [pc : PC, job : Job,
           cur      : [run : RunIds, fence : 0..MaxFence],
           todo     : SUBSET Claims,      \* left of the loop being run
           age      : 0..MaxLag,          \* of step()'s first time.time()
           seen     : BOOLEAN,            \* inspect saw the container running
           verdict  : Terminal,           \* outcome being finished
           sealed   : BOOLEAN,            \* writer.seal succeeded
           resume   : {"reapRow", "tend"},
           stopping : BOOLEAN]

Fresh == [pc |-> "top", job |-> "reap", cur |-> NoClaim, todo |-> {}, age |-> 0,
          seen |-> FALSE, verdict |-> "failed", sealed |-> FALSE,
          resume |-> "tend", stopping |-> FALSE]

SupInit == /\ Init
           /\ main  = [s \in Supervisors |-> Fresh]
           /\ tasks = [s \in Supervisors |-> [r \in RunIds |-> NoTask]]
           /\ box   = [r \in RunIds |-> NoBox]
           /\ dirs = {} /\ kept = {} /\ crashes = 0

-----------------------------------------------------------------------------
At(s, pc) == main[s].pc = pc
Cur(s)    == main[s].cur
Run(s)    == main[s].cur.run
Goto(s, pc) == main' = [main EXCEPT ![s].pc = pc]

\* Back to the top of run_forever's loop, step()'s locals forgotten.
StepEnds(s) == main' = [main EXCEPT ![s] = Fresh]

TaskClaim(s, r) == [run |-> r, fence |-> tasks[s][r].fence]
Tasks(s) == {TaskClaim(s, r) : r \in {q \in RunIds : tasks[s][q].fence # 0}}

\* The claim of the work at hand: the expired one being reaped, the one being
\* started, or that of the task being finished.
Subject(s) == IF main[s].job = "finish" THEN TaskClaim(s, Run(s)) ELSE Cur(s)

Exit(s) == /\ main'  = [main EXCEPT ![s] = [Fresh EXCEPT !.pc = "off"]]
           /\ tasks' = [tasks EXCEPT ![s] = [r \in RunIds |-> NoTask]]

\* An exception leaves step() for run_forever's finally, which finishes every
\* task as cancelled; one raised there ends the process.
Raise(s) == IF main[s].stopping THEN Exit(s)
            ELSE /\ main' = [main EXCEPT ![s] = [Fresh EXCEPT !.pc = "tend",
                                                   !.stopping = TRUE, !.todo = Tasks(s)]]
                 /\ UNCHANGED tasks

\* Enter _finish for the task of the current run.
Finish(s, outcome) == main' = [main EXCEPT ![s].pc = "finish", ![s].job = "finish",
                                           ![s].verdict = outcome]

-----------------------------------------------------------------------------
(* DockerDaemon.stop_remove: inspect by name, then act on the identity.    *)

AfterStop == [reap |-> "reapTask", finish |-> "seal", undo |-> "undone"]

\* A container labelled with another claim: reaping skips this claim, _finish
\* ignores it, _start's error path goes on.
AfterStale == [reap |-> "reap", finish |-> "seal", undo |-> "undone"]

\* Mutant of StopFault: _finish passes over every error of stop_remove.
StopFaultPassed(s) == Goto(s, AfterStop[main[s].job]) /\ UNCHANGED tasks

StopFault(s) == IF main[s].job = "undo" THEN Goto(s, "undone") /\ UNCHANGED tasks
                ELSE Raise(s)

StopInspect(s) ==
  LET c == Subject(s)
      b == box[c.run]
  IN  /\ At(s, "stop")
      /\ UNCHANGED <<repo, outside>>
      /\ \/ b.fence = 0 /\ Goto(s, AfterStop[main[s].job]) /\ UNCHANGED tasks
         \/ b.fence \notin {0, c.fence} /\ Goto(s, AfterStale[main[s].job]) /\ UNCHANGED tasks
         \/ /\ b.fence = c.fence
            /\ main' = [main EXCEPT ![s].pc = "stopAct", ![s].seen = b.state = "running"]
            /\ UNCHANGED tasks
         \/ DockerFaults /\ StopFault(s)

\* Kill if it was seen running, check that it is not running, delete.  The
\* name may denote a newer container by now; the identity does not.
Pinned(s) == box[Run(s)].fence = Subject(s).fence

Stopped(s) == main' = [main EXCEPT ![s].pc = AfterStop[main[s].job], ![s].seen = FALSE]

StopAct(s) ==
  /\ At(s, "stopAct")
  /\ UNCHANGED <<repo, dirs, kept, crashes>>
  /\ \/ /\ ~ Pinned(s)
        /\ Stopped(s)
        /\ UNCHANGED <<box, tasks>>
     \/ /\ Pinned(s)
        /\ main[s].seen \/ box[Run(s)].state # "running"
        /\ box' = [box EXCEPT ![Run(s)] = NoBox]
        /\ \/ Stopped(s) /\ UNCHANGED tasks
           \/ DockerFaults /\ StopFault(s)         \* only the reply is lost
     \/ /\ \/ Pinned(s) /\ ~ main[s].seen /\ box[Run(s)].state = "running"
           \/ DockerFaults
        /\ StopFault(s)
        /\ UNCHANGED box

-----------------------------------------------------------------------------
(* step(), first loop: claims whose lease has run out.                     *)

\* On to the second loop, or past it when there is no task to tend.
TendAll(s) == main' = [main EXCEPT ![s].pc = IF Tasks(s) = {} THEN "claim" ELSE "tend",
                                   ![s].todo = Tasks(s), ![s].age = 0, ![s].resume = "tend"]

StepBegins(s) ==
  /\ At(s, "top")
  /\ IF Expired = {} THEN TendAll(s)
     ELSE main' = [main EXCEPT ![s].pc = "reap", ![s].todo = Expired, ![s].resume = "reapRow"]
  /\ UNCHANGED <<repo, tasks, outside>>

\* Mutant of ReapNext: the container is not stopped before the row is handed back.
ReapUnstopped(s) ==
  /\ At(s, "reap")
  /\ \/ \E c \in main[s].todo :
          main' = [main EXCEPT ![s].pc = "reapTask", ![s].job = "reap", ![s].cur = c,
                               ![s].todo = @ \ {c}]
     \/ main[s].todo = {} /\ TendAll(s)
  /\ UNCHANGED <<repo, tasks, outside>>

ReapNext(s) ==
  /\ At(s, "reap")
  /\ \/ \E c \in main[s].todo :
          main' = [main EXCEPT ![s].pc = "stop", ![s].job = "reap", ![s].cur = c,
                               ![s].todo = @ \ {c}]
     \/ main[s].todo = {} /\ TendAll(s)
  /\ UNCHANGED <<repo, tasks, outside>>

\* attempt_identity answers only the holder of the row's token.
IdentityKnown(c) == /\ rows[c.run].token = c.fence
                    /\ rows[c.run].fence = c.fence
                    /\ rows[c.run].bound

ReapTask(s) ==
  /\ At(s, "reapTask")
  /\ IF tasks[s][Run(s)].fence # 0
     THEN Finish(s, "cancelled") /\ UNCHANGED dirs
     ELSE /\ dirs' = IF IdentityKnown(Cur(s)) THEN dirs \ {Cur(s)} ELSE dirs
          /\ Goto(s, "reapRow")
  /\ UNCHANGED <<repo, tasks, box, kept, crashes>>

\* Mutant of ReapRow: the row is left to its lost holder.
ReapRowForgets(s) ==
  /\ At(s, "reapRow")
  /\ main' = [main EXCEPT ![s].pc = "reap", ![s].cur = NoClaim]
  /\ UNCHANGED <<repo, tasks, outside>>

\* The row is handed back at the clock reading the loop began with.
ReapRow(s) ==
  /\ At(s, "reapRow")
  /\ IF Recoverable(Cur(s), main[s].age) THEN RecoverStopped(Cur(s), main[s].age)
                                         ELSE UNCHANGED repo
  /\ main' = [main EXCEPT ![s].pc = "reap", ![s].cur = NoClaim]
  /\ UNCHANGED <<tasks, outside>>

-----------------------------------------------------------------------------
(* step(), second loop, and stop(): the supervisor's own tasks.            *)

TendNext(s) ==
  /\ At(s, "tend")
  /\ UNCHANGED outside
  /\ \/ \E c \in main[s].todo :
          /\ main[s].stopping
          /\ main' = [main EXCEPT ![s].pc = "finish", ![s].job = "finish", ![s].cur = c,
                                  ![s].todo = @ \ {c}, ![s].verdict = "cancelled"]
          /\ UNCHANGED <<repo, tasks>>
     \/ \E c \in main[s].todo :
          /\ ~ main[s].stopping
          /\ main' = [main EXCEPT ![s].pc = "beat", ![s].cur = c, ![s].todo = @ \ {c}]
          /\ UNCHANGED <<repo, tasks>>
     \/ /\ main[s].todo = {}
        /\ IF main[s].stopping THEN Exit(s) ELSE Goto(s, "claim") /\ UNCHANGED tasks
        /\ UNCHANGED repo

\* The main thread's own heartbeat, when the last one is old enough.
Beat(s) ==
  /\ At(s, "beat")
  /\ UNCHANGED <<tasks, outside>>
  /\ \/ Goto(s, "look") /\ UNCHANGED repo
     \/ Goto(s, "look") /\ \E lag \in Lags : Heartbeat(Cur(s), lag)
     \/ ~ Valid(Cur(s), 0) /\ Finish(s, "cancelled") /\ UNCHANGED repo

Look(s) ==
  /\ At(s, "look")
  /\ IF Cancelled(Cur(s)) THEN Finish(s, "cancelled") ELSE Goto(s, "watch")
  /\ UNCHANGED <<repo, tasks, outside>>

\* A worker that reported nothing, exceeded a limit, or whose report was not
\* read in time has failed; otherwise its own outcome is finished.
Watch(s) ==
  LET b == box[Run(s)]
      reported == tasks[s][Run(s)].outcome
  IN  /\ At(s, "watch")
      /\ UNCHANGED <<repo, outside>>
      /\ \/ b.state = "running" /\ Goto(s, "tend") /\ UNCHANGED tasks
         \/ Finish(s, "failed") /\ UNCHANGED tasks
         \/ /\ b.state \in {"created", "exited"}
            /\ reported # "none"
            /\ Finish(s, reported)
            /\ UNCHANGED tasks
         \/ DockerFaults /\ Raise(s)

-----------------------------------------------------------------------------
(* _finish.                                                                *)

FinishBegins(s) ==
  /\ At(s, "finish")
  /\ \/ Goto(s, "stop")
     \/ /\ ~ main[s].stopping                  \* the data channel failed
        /\ ~ Cancelled(Subject(s))
        /\ main' = [main EXCEPT ![s].pc = "stop", ![s].verdict = "failed"]
  /\ UNCHANGED <<repo, tasks, outside>>

\* Seal the result candidate, then flush the last progress.
Seal(s) ==
  LET c == Subject(s)
      v == tasks[s][Run(s)].progress
  IN  /\ At(s, "seal")
      /\ \E sealed \in BOOLEAN :
           main' = [main EXCEPT ![s].pc = "commit", ![s].sealed = sealed,
                      ![s].verdict = IF @ = "succeeded" /\ ~ sealed THEN "failed" ELSE @]
      /\ IF v > 0 /\ Mutable(c) THEN Progress(c, v) ELSE UNCHANGED repo
      /\ UNCHANGED <<tasks, outside>>

\* commit_success retains a sealed candidate before it commits.
Keep(s) == kept' = IF main[s].sealed THEN kept \cup {Subject(s)} ELSE kept

\* Write outcome and pointer.  A success goes through
\* the data gateway, whose refusal turns it into a failure without result.
CommitStep(s) ==
  LET c == Subject(s)
      verdict == main[s].verdict
      fail == main' = [main EXCEPT ![s].verdict = "failed", ![s].sealed = FALSE]
  IN  /\ At(s, "commit")
      /\ UNCHANGED <<tasks, box, dirs, crashes>>
      /\ \/ CommitOutcome(c, verdict, main[s].sealed) /\ Keep(s) /\ Goto(s, "clean")
         \/ ~ MayCommit(c, verdict) /\ Goto(s, "lost") /\ UNCHANGED <<repo, kept>>
         \/ verdict = "succeeded" /\ fail /\ UNCHANGED <<repo, kept>>
         \* raised after the transaction was committed
         \/ verdict = "succeeded" /\ CommitOutcome(c, verdict, TRUE) /\ Keep(s) /\ fail
         \* raised after the INSERT, before the transaction was committed
         \/ /\ LateRollback
            /\ verdict = "succeeded" /\ MayCommit(c, verdict)
            /\ Keep(s) /\ fail /\ UNCHANGED repo

\* The outcome was refused: record the cancellation instead, if that is why.
CommitCancelled(s) ==
  LET c == Subject(s)
  IN  /\ At(s, "lost")
      /\ IF Cancelled(c) /\ MayCommit(c, "cancelled")
         THEN CommitOutcome(c, "cancelled", FALSE) ELSE UNCHANGED repo
      /\ Goto(s, "clean")
      /\ UNCHANGED <<tasks, outside>>

Clean(s) ==
  /\ At(s, "clean")
  /\ dirs' = dirs \ {Subject(s)}
  /\ tasks' = [tasks EXCEPT ![s][Run(s)] = NoTask]
  /\ main' = [main EXCEPT ![s].pc = main[s].resume, ![s].job = "reap",
                          ![s].verdict = "failed", ![s].sealed = FALSE]
  /\ UNCHANGED <<repo, box, kept, crashes>>

-----------------------------------------------------------------------------
(* step(), last part: claim one run and _start it.                         *)

ClaimNext(s) ==
  /\ At(s, "claim")
  /\ \/ \E r \in RunIds, lag \in Lags :
          /\ Claim(r, lag)
          /\ main' = [main EXCEPT ![s].pc = "work", ![s].job = "undo",
                        ![s].cur = [run |-> r, fence |-> rows[r].fence + 1]]
     \/ /\ \A r \in RunIds : ~ Claimable(r)
        /\ StepEnds(s)
        /\ UNCHANGED repo
  /\ UNCHANGED <<tasks, outside>>

Work(s) ==
  /\ At(s, "work")
  /\ Goto(s, IF Mutable(Cur(s)) THEN "mkdir" ELSE "giveUp")
  /\ UNCHANGED <<repo, tasks, outside>>

Mkdir(s) ==
  /\ At(s, "mkdir")
  /\ dirs' = dirs \cup {Cur(s)}
  /\ Goto(s, "bind")
  /\ UNCHANGED <<repo, tasks, box, kept, crashes>>

Bind(s) ==
  /\ At(s, "bind")
  /\ IF Mutable(Cur(s)) THEN BindAttempt(Cur(s)) /\ Goto(s, "prepare")
                        ELSE Goto(s, "undone") /\ UNCHANGED repo
  /\ UNCHANGED <<tasks, outside>>

\* Write the code, open the endpoints, prepare data and result writer, start
\* the threads.  Any of it may fail, and does when the directory is gone.
Prepare(s) ==
  /\ At(s, "prepare")
  /\ \/ Cur(s) \in dirs /\ Goto(s, "check")
     \/ Goto(s, "undone")
  /\ UNCHANGED <<repo, tasks, outside>>

\* cancelled() is asked once by _start and once more by process.start, which
\* already stops the container if the answer has changed.
Check(s) ==
  /\ At(s, "check")
  /\ \/ Mutable(Cur(s)) /\ Cur(s) \in dirs /\ Goto(s, "create")
     \/ Cancelled(Cur(s)) /\ (Goto(s, "undone") \/ Goto(s, "stop"))
     \/ Cur(s) \notin dirs /\ Goto(s, "undone")
  /\ UNCHANGED <<repo, tasks, outside>>

\* The name is the run's: a container of an earlier claim makes create fail.
Create(s) ==
  LET place == box' = [box EXCEPT ![Run(s)] = [fence |-> Cur(s).fence, state |-> "created"]]
      able  == box[Run(s)].fence = 0 /\ Cur(s) \in dirs
  IN  /\ At(s, "create")
      /\ \/ able /\ place /\ Goto(s, "check2")
         \/ ~ able /\ Goto(s, "stop") /\ UNCHANGED box
         \/ DockerFaults /\ Goto(s, "stop") /\ (UNCHANGED box \/ (able /\ place))
      /\ UNCHANGED <<repo, tasks, dirs, kept, crashes>>

Check2(s) ==
  /\ At(s, "check2")
  /\ Goto(s, IF Cancelled(Cur(s)) THEN "stop" ELSE "boot")
  /\ UNCHANGED <<repo, tasks, outside>>

\* Start the created container by its identity and register the task.
Boot(s) ==
  LET c == Cur(s)
      able == box[c.run].fence = c.fence /\ c \in dirs
      started == box' = [box EXCEPT ![c.run].state = "running"]
  IN  /\ At(s, "boot")
      /\ \/ /\ able
            /\ started
            /\ tasks' = [tasks EXCEPT ![s][c.run] = [NoTask EXCEPT !.fence = c.fence]]
            /\ StepEnds(s)
         \/ ~ able /\ Goto(s, "stop") /\ UNCHANGED <<box, tasks>>
         \/ /\ DockerFaults
            /\ Goto(s, "stop")
            /\ UNCHANGED box \/ (able /\ started)
            /\ UNCHANGED tasks
      /\ UNCHANGED <<repo, dirs, kept, crashes>>

Undone(s) ==
  /\ At(s, "undone")
  /\ dirs' = dirs \ {Cur(s)}
  /\ Goto(s, "giveUp")
  /\ UNCHANGED <<repo, tasks, box, kept, crashes>>

\* Mutant of GiveUp: the failure is written without regard to the claim.
GiveUpBlindly(s) ==
  /\ At(s, "giveUp")
  /\ rows' = [rows EXCEPT ![Run(s)].status = "failed"]
  /\ StepEnds(s)
  /\ UNCHANGED <<made, pointers, tasks, outside>>

\* step() records a start that failed.
GiveUp(s) ==
  /\ At(s, "giveUp")
  /\ IF MayCommit(Cur(s), "failed") THEN CommitOutcome(Cur(s), "failed", FALSE)
                                    ELSE UNCHANGED repo
  /\ StepEnds(s)
  /\ UNCHANGED <<tasks, outside>>

Main(s) ==
  \/ StepBegins(s) \/ ReapNext(s) \/ StopInspect(s) \/ StopAct(s)
  \/ ReapTask(s) \/ ReapRow(s)
  \/ TendNext(s) \/ Beat(s) \/ Look(s) \/ Watch(s)
  \/ FinishBegins(s) \/ Seal(s) \/ CommitStep(s) \/ CommitCancelled(s) \/ Clean(s)
  \/ ClaimNext(s) \/ Work(s) \/ Mkdir(s) \/ Bind(s) \/ Prepare(s) \/ Check(s)
  \/ Create(s) \/ Check2(s) \/ Boot(s) \/ Undone(s) \/ GiveUp(s)

-----------------------------------------------------------------------------
(* Everything else that runs.                                              *)

\* A task's heartbeat thread runs from _start's preparation to _finish's end, or
\* to the end of _start's error path, which stops the container first.
\* (A task finished without success is told to stop beating when _finish begins,
\* and _start's error path tells it so after that stop; a beat already under way
\* may land later, and the model allows any number.)
Beating(s, c) == \/ c \in Tasks(s)
                 \/ /\ c = Cur(s)
                    /\ \/ At(s, "check") \/ At(s, "create") \/ At(s, "check2")
                       \/ At(s, "boot")
                       \/ /\ main[s].job = "undo"
                          /\ At(s, "stop") \/ At(s, "stopAct") \/ At(s, "undone")

HeartbeatThread(s) ==
  /\ \E c \in Claims, lag \in Lags : Beating(s, c) /\ Heartbeat(c, lag)
  /\ UNCHANGED <<main, tasks, outside>>

\* The control thread answers a worker whose container runs; every frame is
\* refused when the claim is no longer mutable.
Speaking(s, r) == /\ tasks[s][r].fence # 0
                  /\ box[r] = [fence |-> tasks[s][r].fence, state |-> "running"]
                  /\ Mutable(TaskClaim(s, r))
                  /\ tasks[s][r].outcome = "none"

WorkerBoots(s, r) ==
  /\ Speaking(s, r)
  /\ rows[r].status = "starting"
  /\ Running(TaskClaim(s, r))
  /\ UNCHANGED <<main, tasks, outside>>

\* Progress is written through at most once a second, so perhaps not at all.
WorkerReports(s, r) ==
  LET v == tasks[s][r].progress + 1
  IN  /\ Speaking(s, r)
      /\ rows[r].status = "running"
      /\ v <= MaxProgress
      /\ tasks' = [tasks EXCEPT ![s][r].progress = v]
      /\ Progress(TaskClaim(s, r), v) \/ UNCHANGED repo
      /\ UNCHANGED <<main, outside>>

WorkerFinishes(s, r) ==
  /\ Speaking(s, r)
  /\ rows[r].status = "running"
  /\ \E o \in Terminal : tasks' = [tasks EXCEPT ![s][r].outcome = o]
  /\ box' = [box EXCEPT ![r].state = "exited"]
  /\ UNCHANGED <<repo, main, dirs, kept, crashes>>

WorkerDies(r) ==
  /\ box[r].state = "running"
  /\ box' = [box EXCEPT ![r].state = "exited"]
  /\ UNCHANGED <<repo, main, tasks, dirs, kept, crashes>>

\* SIGTERM is noticed between two steps.
StopAsked(s) ==
  /\ At(s, "top")
  /\ crashes < MaxCrashes
  /\ crashes' = crashes + 1
  /\ main' = [main EXCEPT ![s].pc = "tend", ![s].stopping = TRUE, ![s].todo = Tasks(s)]
  /\ UNCHANGED <<repo, tasks, box, dirs, kept>>

\* Mutant of Crash: the outcome is committed before its directory is retained.
CrashPublished(s) ==
  /\ main[s].pc # "off"
  /\ crashes < MaxCrashes
  /\ crashes' = crashes + 1
  /\ Exit(s)
  /\ \/ UNCHANGED repo
     \/ At(s, "commit") /\ CommitOutcome(Subject(s), main[s].verdict, main[s].sealed)
  /\ UNCHANGED <<box, dirs, kept>>

\* A process may die between any two steps, and in commit_success after the
\* directory is retained and before the transaction is committed.
Crash(s) ==
  /\ main[s].pc # "off"
  /\ crashes < MaxCrashes
  /\ crashes' = crashes + 1
  /\ Exit(s)
  /\ \/ UNCHANGED kept
     \/ At(s, "commit") /\ MayCommit(Subject(s), main[s].verdict) /\ Keep(s)
  /\ UNCHANGED <<repo, box, dirs>>

Restart(s) ==
  /\ At(s, "off")
  /\ main' = [main EXCEPT ![s] = Fresh]
  /\ UNCHANGED <<repo, tasks, outside>>

\* The clock readings in use grow older.
InReap(s) == main[s].resume = "reapRow"

TimePasses ==
  /\ \A s \in Supervisors : InReap(s) => main[s].age < MaxLag
  /\ Tick
  /\ main' = [s \in Supervisors |->
                [main[s] EXCEPT !.age = IF InReap(s) THEN @ + 1 ELSE @]]
  /\ UNCHANGED <<tasks, outside>>

Client ==
  /\ \/ \E k \in Keys, config \in Configs : Submit(k, config)
     \/ \E r \in RunIds : RequestCancel(r)
  /\ UNCHANGED <<main, tasks, outside>>

SupNext ==
  \/ \E s \in Supervisors :
       \/ Main(s) \/ HeartbeatThread(s)
       \/ StopAsked(s) \/ Crash(s) \/ Restart(s)
       \/ \E r \in RunIds : WorkerBoots(s, r) \/ WorkerReports(s, r) \/ WorkerFinishes(s, r)
  \/ \E r \in RunIds : WorkerDies(r)
  \/ TimePasses
  \/ Client

SupSpec == SupInit /\ [][SupNext]_vars

-----------------------------------------------------------------------------
(* Properties.                                                             *)

\* Every variable keeps its type.
SupTypeOK ==
  /\ TypeOK
  /\ main \in [Supervisors -> Thread]
  /\ tasks \in [Supervisors -> [RunIds -> [fence : 0..MaxFence,
                                           outcome : Terminal \cup {"none"},
                                           progress : 0..MaxProgress]]]
  /\ box \in [RunIds -> [fence : 0..MaxFence,
                         state : {"none", "created", "running", "exited"}]]
  /\ dirs \subseteq Claims /\ kept \subseteq Claims
  /\ crashes \in 0..MaxCrashes

\* "Reservations remain until the deterministic run container is confirmed
\* stopped" (ops/s3-d12/README.md:23-24): a running container is always that
\* of the row's current, still reserved claim, so no attempt runs beside its
\* replacement and the workers alive always fit the budget.
ReservedWhileAlive ==
  \A r \in RunIds : box[r].state = "running" =>
                      rows[r].status \in Active /\ rows[r].fence = box[r].fence

\* A result is published only after its worker is gone: whatever a container that
\* could not be stopped, a lost reply of the daemon, a crash or another supervisor
\* reaping the claim do in between, no worker is alive that could still have added
\* to what readers are pointed at.
ResultAfterWorker ==
  \A r \in RunIds : pointers[r] # 0 =>
                      box[r] # [fence |-> pointers[r], state |-> "running"]

\* A published result is one whose directory was retained.
PublishedIsKept ==
  \A r \in RunIds : pointers[r] # 0 => [run |-> r, fence |-> pointers[r]] \in kept

\* "Only the atomic repository winner publishes retained lifetime.  Cancel/stale
\* losers release their candidate" (ops/s3-d12/README.md:49-51).  The code does not
\* keep this: publish() retains before the transaction that may roll back or die.
OnlyWinnerKept == \A c \in kept : pointers[c.run] = c.fence

\* The supervisors use the shared table only through its transactions.
RepositorySpec == Spec

\* A supervisor's threads keep running while its process does, the process is
\* restarted when it ends (compose.yaml:102), the clock advances, and a worker
\* cannot run for ever (its CPU time and wall time are limited).
Fairness == /\ \A s \in Supervisors : WF_vars(Main(s)) /\ WF_vars(Restart(s))
            /\ \A r \in RunIds : WF_vars(WorkerDies(r))
            /\ WF_vars(TimePasses)

FairSpec == SupSpec /\ Fairness

\* Every accepted run ends, whatever crashes and expiries it meets, unless it
\* is waiting for a claim beyond the bound of the model.
EveryRunEnds ==
  \A r \in RunIds :
    r \in Live ~> \/ rows[r].status \in Terminal
                  \/ rows[r].status = "queued" /\ rows[r].fence = MaxFence

\* A requested cancellation is carried out, even if every attempt to record it
\* meets a lost claim, a failed start or a crash.
CancelEnds == \A r \in RunIds : rows[r].cancel ~> rows[r].status \in Terminal

\* "Workers/IPC/code/tmp are reclaimed by exact claim/inode after a terminal
\* outcome or confirmed crash recovery" (ops/s3-d12/README.md:59-60): no
\* attempt directory stays for ever.
DirectoriesReclaimed ==
  \A c \in Claims : (c \in dirs /\ rows[c.run].status \in Terminal) ~> c \notin dirs
=============================================================================
