----------------------- MODULE RunnerSupervisorProofs -----------------------
(***************************************************************************)
(* The supervisors use the table of runs only through its transactions, so *)
(* what is proved of the table holds of the whole system, for any number   *)
(* of supervisors and runs, crash schedule and Docker behaviour.           *)
(***************************************************************************)
EXTENDS RunnerSupervisor, RunRepositoryProofs

\* Where the main thread holds no claim.
Idle == {"off", "top", "reap", "tend", "claim"}

\* Elsewhere it works on a claim that was issued.
CurKnown == \A s \in Supervisors : main[s].pc \notin Idle => main[s].cur \in Claims

SupIInv == IInv /\ SupTypeOK /\ CurKnown

-----------------------------------------------------------------------------
(* Every step is a transaction of the table or leaves it alone.            *)

\* A claim the table accepts is one it has issued.
LEMMA ValidIsIssued ==
  ASSUME IInv, NEW r \in RunIds, NEW f, NEW lag,
         Valid([run |-> r, fence |-> f], lag)
  PROVE  [run |-> r, fence |-> f] \in Claims
<1>1. f = rows[r].fence /\ f # 0 /\ f \in 0..MaxFence
  BY DEF Valid, IInv, TypeOK, Consistent, Row
<1> QED
  BY <1>1, BoundsAssumption DEF Claims, Fences

\* A supervisor's tasks are tasks of claims that were issued.
LEMMA TasksAreIssued ==
  ASSUME SupTypeOK, NEW s \in Supervisors
  PROVE  Tasks(s) \subseteq Claims
  BY BoundsAssumption DEF SupTypeOK, Tasks, TaskClaim, Claims, Fences

\* The claim being worked on is the thread's or that of one of its tasks.
LEMMA SubjectRun ==
  ASSUME SupIInv, NEW s \in Supervisors
  PROVE  /\ Run(s) \in RunIds /\ main[s] \in Thread
         /\ Subject(s).run = Run(s)
         /\ \A lag : Valid(Subject(s), lag) => Subject(s) \in Claims
<1>1. main[s] \in Thread /\ main[s].cur \in [run : RunIds, fence : 0..MaxFence]
  BY DEF SupIInv, SupTypeOK, Thread
<1>2. Run(s) \in RunIds /\ Cur(s) = [run |-> Run(s), fence |-> Cur(s).fence]
  BY <1>1 DEF Run, Cur
<1>3. \/ Subject(s) = [run |-> Run(s), fence |-> tasks[s][Run(s)].fence]
      \/ Subject(s) = [run |-> Run(s), fence |-> Cur(s).fence]
  BY <1>2 DEF Subject, TaskClaim
<1>4. IInv
  BY DEF SupIInv
<1> QED
  BY <1>1, <1>2, <1>3, <1>4, ValidIsIssued

\* The transactions of a client, a claim, and those that keep a run held.
Mild ==
  \/ \E k \in Keys, config \in Configs : Submit(k, config)
  \/ \E r \in RunIds : RequestCancel(r) \/ \E lag \in Lags : Claim(r, lag)
  \/ \E c \in Claims : \/ BindAttempt(c) \/ Running(c)
                       \/ \E v \in 0..MaxProgress : Progress(c, v)
                       \/ \E lag \in Lags : Heartbeat(c, lag)

\* The transactions that take a run from its holder.
Commits(s) ==
  \E outcome \in Terminal, sealed \in BOOLEAN :
    \/ main[s].pc \in {"commit", "lost"} /\ CommitOutcome(Subject(s), outcome, sealed)
    \/ At(s, "giveUp") /\ CommitOutcome(Cur(s), outcome, sealed)
HandsBack(s) == At(s, "reapRow") /\ RecoverStopped(Cur(s), main[s].age)

\* Each step of a supervisor, worker or client is one of these or leaves the
\* table alone: every claim it uses was issued to it, however stale by now.
LEMMA SystemStep ==
  ASSUME SupIInv, [SupNext]_vars
  PROVE  \/ [Mild]_repo
         \/ \E s \in Supervisors : Commits(s) \/ HandsBack(s)
         \/ TimePasses
<1> USE DEF repo
<1>1. IInv /\ SupTypeOK /\ CurKnown
  BY DEF SupIInv
<1>2. ASSUME NEW s \in Supervisors, Main(s)
      PROVE  [Mild]_repo \/ Commits(s) \/ HandsBack(s)
  <2>1. CASE ReapRow(s)
    BY <2>1 DEF ReapRow, HandsBack
  <2>2. CASE Beat(s)
    <3>1. Cur(s) \in Claims
      BY <1>1, <2>2 DEF Beat, At, Cur, CurKnown, Idle
    <3> QED
      BY <2>2, <3>1 DEF Beat, Mild
  <2>3. CASE Seal(s)
    <3>1. CASE Mutable(Subject(s)) /\ Progress(Subject(s), tasks[s][Run(s)].progress)
      <4>1. Subject(s) \in Claims
        BY <3>1, SubjectRun DEF Mutable
      <4>2. tasks[s][Run(s)].progress \in 0..MaxProgress
        BY <1>1, SubjectRun DEF SupTypeOK
      <4> QED
        BY <3>1, <4>1, <4>2 DEF Mild
    <3> QED
      BY <2>3, <3>1 DEF Seal
  <2>4. CASE CommitStep(s)
    <3>1. main[s].verdict \in Terminal /\ main[s].sealed \in BOOLEAN
      BY SubjectRun DEF Thread
    <3> QED
      BY <2>4, <3>1 DEF CommitStep, Commits, At
  <2>5. CASE CommitCancelled(s)
    BY <2>5 DEF CommitCancelled, Commits, At, Terminal
  <2>6. CASE ClaimNext(s)
    BY <2>6 DEF ClaimNext, Mild
  <2>7. CASE Bind(s)
    <3>1. Cur(s) \in Claims
      BY <1>1, <2>7 DEF Bind, At, Cur, CurKnown, Idle
    <3> QED
      BY <2>7, <3>1 DEF Bind, Mild
  <2>8. CASE GiveUp(s)
    BY <2>8 DEF GiveUp, Commits, At, Terminal
  <2>9. CASE \/ StepBegins(s) \/ ReapNext(s) \/ StopInspect(s) \/ StopAct(s)
             \/ ReapTask(s) \/ Look(s) \/ Watch(s) \/ FinishBegins(s)
    BY <2>9 DEF StepBegins, ReapNext, StopInspect, StopAct, ReapTask, Look,
                Watch, FinishBegins
  <2>10. CASE TendNext(s) \/ Clean(s) \/ Work(s) \/ Mkdir(s) \/ Prepare(s)
              \/ Check(s) \/ Create(s) \/ Check2(s) \/ Boot(s) \/ Undone(s)
    BY <2>10 DEF TendNext, Clean, Work, Mkdir, Prepare, Check, Create, Check2,
                 Boot, Undone
  <2> QED
    BY <1>2, <2>1, <2>2, <2>3, <2>4, <2>5, <2>6, <2>7, <2>8, <2>9, <2>10 DEF Main
<1>3. ASSUME NEW s \in Supervisors, HeartbeatThread(s)
      PROVE  Mild
  BY <1>3 DEF HeartbeatThread, Mild
<1>4. ASSUME NEW s \in Supervisors, NEW r \in RunIds, Mutable(TaskClaim(s, r))
      PROVE  TaskClaim(s, r) \in Claims
  BY <1>1, <1>4, ValidIsIssued DEF TaskClaim, Mutable
<1>5. ASSUME NEW s \in Supervisors, NEW r \in RunIds,
             WorkerBoots(s, r) \/ WorkerReports(s, r) \/ WorkerFinishes(s, r)
      PROVE  [Mild]_repo
  <2>1. CASE WorkerBoots(s, r)
    BY <1>4, <2>1 DEF WorkerBoots, Speaking, Mild
  <2>2. CASE WorkerReports(s, r)
    <3>1. tasks[s][r].progress + 1 \in 0..MaxProgress
      BY <1>1, <2>2, BoundsAssumption DEF WorkerReports, SupTypeOK
    <3> QED
      BY <1>4, <2>2, <3>1 DEF WorkerReports, Speaking, Mild
  <2>3. CASE WorkerFinishes(s, r)
    BY <2>3 DEF WorkerFinishes
  <2> QED
    BY <1>5, <2>1, <2>2, <2>3
<1>6. ASSUME NEW s \in Supervisors, StopAsked(s) \/ Crash(s) \/ Restart(s)
      PROVE  UNCHANGED repo
  BY <1>6 DEF StopAsked, Crash, Restart
<1>7. ASSUME NEW r \in RunIds, WorkerDies(r)
      PROVE  UNCHANGED repo
  BY <1>7 DEF WorkerDies
<1>8. CASE Client
  BY <1>8 DEF Client, Mild
<1>9. CASE UNCHANGED vars
  BY <1>9 DEF vars
<1> QED
  BY <1>2, <1>3, <1>5, <1>6, <1>7, <1>8, <1>9 DEF SupNext

\* So it is a step of the table.
LEMMA RepoStep ==
  ASSUME SupIInv, [SupNext]_vars
  PROVE  [Next]_repo
<1>1. ASSUME Mild
      PROVE  Next
  BY <1>1 DEF Mild, Next, UseClaim
<1>2. ASSUME NEW s \in Supervisors, Commits(s)
      PROVE  Next
  <2>1. ASSUME NEW c \in Claims, NEW outcome \in Terminal, NEW sealed \in BOOLEAN,
               CommitOutcome(c, outcome, sealed)
        PROVE  Next
    BY <2>1 DEF Next, UseClaim
  <2>2. ASSUME NEW outcome, NEW sealed, CommitOutcome(Subject(s), outcome, sealed)
        PROVE  Subject(s) \in Claims
    BY <2>2, SubjectRun DEF CommitOutcome, MayCommit
  <2>3. At(s, "giveUp") => Cur(s) \in Claims
    BY DEF At, Cur, CurKnown, Idle, SupIInv
  <2> QED
    BY <1>2, <2>1, <2>2, <2>3 DEF Commits
<1>3. ASSUME NEW s \in Supervisors, HandsBack(s)
      PROVE  Next
  <2>1. Cur(s) \in Claims /\ main[s].age \in Lags
    BY <1>3 DEF HandsBack, At, Cur, CurKnown, Idle, SupIInv, SupTypeOK, Thread, Lags
  <2> QED
    BY <1>3, <2>1 DEF HandsBack, Next, UseClaim
<1>4. TimePasses => Next
  BY DEF TimePasses, Next
<1> QED
  BY <1>1, <1>2, <1>3, <1>4, SystemStep

-----------------------------------------------------------------------------
(* Types, and the claim each thread works on.                              *)

TaskRecord == [fence : 0..MaxFence, outcome : Terminal \cup {"none"},
               progress : 0..MaxProgress]
TaskType == [RunIds -> TaskRecord]

\* One supervisor's thread may become t.
Sound(t) == t \in Thread /\ (t.pc \notin Idle => t.cur \in Claims)

\* The rest of the invariant: everything but the table.
Shape == /\ main = [s \in Supervisors |-> main[s]]
         /\ \A s \in Supervisors : Sound(main[s])
         /\ tasks \in [Supervisors -> TaskType]
         /\ box \in [RunIds -> [fence : 0..MaxFence,
                                state : {"none", "created", "running", "exited"}]]
         /\ dirs \subseteq Claims /\ kept \subseteq Claims
         /\ crashes \in 0..MaxCrashes

\* The supervisors' part of the invariant, one thread at a time.
LEMMA ShapeOK == SupIInv <=> IInv /\ Shape
<1>1. SupTypeOK /\ CurKnown => Shape
  BY DEF SupTypeOK, CurKnown, Shape, Sound, TaskType, TaskRecord
<1>2. IInv /\ Shape => SupTypeOK /\ CurKnown
  BY DEF SupTypeOK, CurKnown, Shape, Sound, TaskType, TaskRecord, IInv
<1> QED
  BY <1>1, <1>2 DEF SupIInv

\* Only thread s moves, and to a sound state.
LEMMA ThreadMoves ==
  ASSUME Shape, NEW s \in Supervisors, NEW t, Sound(t),
         main' = [main EXCEPT ![s] = t]
  PROVE  /\ main' = [q \in Supervisors |-> main'[q]]
         /\ \A q \in Supervisors : Sound(main'[q])
  BY DEF Shape

\* A thread that is idle holds no claim to be wrong about.
LEMMA FreshIsSound ==
  ASSUME NEW pc \in Idle
  PROVE  Sound([Fresh EXCEPT !.pc = pc]) /\ Sound(Fresh)
<1>1. Fresh \in Thread
  BY BoundsAssumption DEF Fresh, Thread, NoClaim, Job, PC, Terminal, RunIds
<1> QED
  BY <1>1 DEF Sound, Idle, PC, Thread, Fresh

\* Each statement of the main thread leads to a sound state.
LEMMA MainThread ==
  ASSUME SupIInv, NEW s \in Supervisors, Main(s)
  PROVE  /\ main' = [q \in Supervisors |-> main'[q]]
         /\ \A q \in Supervisors : Sound(main'[q])
<1> DEFINE Goal == /\ main' = [q \in Supervisors |-> main'[q]]
                   /\ \A q \in Supervisors : Sound(main'[q])
<1> SUFFICES Goal
  OBVIOUS
<1> HIDE DEF Goal
<1>1. Shape /\ Sound(main[s]) /\ main[s] \in Thread
  BY ShapeOK DEF Shape, Sound
<1>2. ASSUME NEW pc \in PC, pc \notin Idle => main[s].pc \notin Idle, Goto(s, pc)
      PROVE  Goal
  <2>1. Sound([main[s] EXCEPT !.pc = pc])
    BY <1>1, <1>2 DEF Sound, Thread
  <2> QED
    BY <1>1, <1>2, <2>1, ThreadMoves DEF Goal, Goto
<1>3. ASSUME StepEnds(s)
      PROVE  Goal
  <2>1. Sound(Fresh)
    BY FreshIsSound DEF Idle
  <2> QED
    BY <1>1, <1>3, <2>1, ThreadMoves DEF Goal, StepEnds
<1>4. ASSUME Exit(s)
      PROVE  Goal
  BY <1>1, <1>4, FreshIsSound, ThreadMoves DEF Goal, Exit, Idle
<1>5. ASSUME Raise(s)
      PROVE  Goal
  <2>1. CASE main[s].stopping
    BY <1>4, <1>5, <2>1 DEF Raise
  <2>2. CASE ~ main[s].stopping
    <3> DEFINE t == [Fresh EXCEPT !.pc = "tend", !.stopping = TRUE, !.todo = Tasks(s)]
    <3>1. Sound([Fresh EXCEPT !.pc = "tend"]) /\ Tasks(s) \subseteq Claims
      BY FreshIsSound, TasksAreIssued DEF Idle, SupIInv
    <3>2. Sound(t)
      BY <3>1 DEF Sound, Thread, Fresh, Idle
    <3> QED
      BY <1>1, <1>5, <2>2, <3>2, ThreadMoves DEF Goal, Raise
  <2> QED
    BY <2>1, <2>2
<1>6. ASSUME NEW outcome \in Terminal, main[s].pc \notin Idle, Finish(s, outcome)
      PROVE  Goal
  <2> DEFINE t == [main[s] EXCEPT !.pc = "finish", !.job = "finish", !.verdict = outcome]
  <2>1. Sound(t)
    BY <1>1, <1>6 DEF Sound, Thread, PC, Job
  <2>2. main' = [main EXCEPT ![s] = t]
    BY <1>1, <1>6 DEF Finish, Shape
  <2> QED
    BY <1>1, <2>1, <2>2, ThreadMoves DEF Goal
<1>7. ASSUME TendAll(s)
      PROVE  Goal
  <2> DEFINE t == [main[s] EXCEPT
                     !.pc = IF Tasks(s) = {} THEN "claim" ELSE "tend",
                     !.todo = Tasks(s), !.age = 0, !.resume = "tend"]
  <2>1. Tasks(s) \subseteq Claims /\ 0 \in 0..MaxLag
    BY TasksAreIssued, BoundsAssumption DEF SupIInv
  <2>2. Sound(t)
    BY <1>1, <2>1 DEF Sound, Thread, PC, Idle
  <2>3. main' = [main EXCEPT ![s] = t]
    BY <1>1, <1>7 DEF TendAll, Shape
  <2> QED
    BY <1>1, <2>2, <2>3, ThreadMoves DEF Goal
<1>8. ASSUME ~ At(s, "top"), ~ At(s, "tend"), ~ At(s, "claim"), ~ At(s, "off"),
             ~ At(s, "reap"), StopFault(s)
      PROVE  Goal
  <2>1. main[s].pc \notin Idle
    BY <1>8 DEF At, Idle
  <2> QED
    BY <1>2, <1>5, <1>8, <2>1 DEF StopFault, PC
<1>10. CASE StepBegins(s)
  <2>1. CASE TendAll(s)
    BY <1>7, <2>1
  <2>2. CASE main' = [main EXCEPT ![s].pc = "reap", ![s].todo = Expired,
                                  ![s].resume = "reapRow"]
    <3> DEFINE t == [main[s] EXCEPT !.pc = "reap", !.todo = Expired, !.resume = "reapRow"]
    <3>1. Sound(t)
      BY <1>1 DEF Sound, Thread, PC, Idle, Expired
    <3>2. main' = [main EXCEPT ![s] = t]
      BY <1>1, <2>2 DEF Shape
    <3> QED
      BY <1>1, <3>1, <3>2, ThreadMoves DEF Goal
  <2> QED
    BY <1>10, <2>1, <2>2 DEF StepBegins
<1>11. CASE ReapNext(s)
  <2>1. ASSUME NEW c \in main[s].todo,
               main' = [main EXCEPT ![s].pc = "stop", ![s].job = "reap",
                                    ![s].cur = c, ![s].todo = @ \ {c}]
        PROVE  Goal
    <3> DEFINE t == [main[s] EXCEPT !.pc = "stop", !.job = "reap", !.cur = c,
                                    !.todo = @ \ {c}]
    <3>1. c \in Claims /\ c \in [run : RunIds, fence : 0..MaxFence]
      BY <1>1, BoundsAssumption DEF Thread, Claims, Fences
    <3>2. Sound(t)
      BY <1>1, <3>1 DEF Sound, Thread, PC, Job
    <3>3. main' = [main EXCEPT ![s] = t]
      BY <1>1, <2>1 DEF Shape
    <3> QED
      BY <1>1, <3>2, <3>3, ThreadMoves DEF Goal
  <2> QED
    BY <1>7, <1>11, <2>1 DEF ReapNext
<1>12. CASE StopInspect(s)
  <2>1. main[s].pc \notin Idle /\ ~ At(s, "top") /\ ~ At(s, "tend") /\ ~ At(s, "claim")
        /\ ~ At(s, "off") /\ ~ At(s, "reap")
    BY <1>12 DEF StopInspect, At, Idle
  <2>2. AfterStop[main[s].job] \in PC /\ AfterStale[main[s].job] \in PC
    BY <1>1 DEF Thread, Job, AfterStop, AfterStale, PC
  <2>3. ASSUME NEW seen \in BOOLEAN,
               main' = [main EXCEPT ![s].pc = "stopAct", ![s].seen = seen]
        PROVE  Goal
    <3> DEFINE t == [main[s] EXCEPT !.pc = "stopAct", !.seen = seen]
    <3>1. Sound(t)
      BY <1>1, <2>1 DEF Sound, Thread, PC
    <3>2. main' = [main EXCEPT ![s] = t]
      BY <1>1, <2>3 DEF Shape
    <3> QED
      BY <1>1, <3>1, <3>2, ThreadMoves DEF Goal
  <2> QED
    BY <1>2, <1>8, <1>12, <2>1, <2>2, <2>3 DEF StopInspect
<1>13. CASE StopAct(s)
  <2>1. main[s].pc \notin Idle /\ ~ At(s, "top") /\ ~ At(s, "tend") /\ ~ At(s, "claim")
        /\ ~ At(s, "off") /\ ~ At(s, "reap")
    BY <1>13 DEF StopAct, At, Idle
  <2>2. ASSUME Stopped(s)
        PROVE  Goal
    <3> DEFINE t == [main[s] EXCEPT !.pc = AfterStop[main[s].job], !.seen = FALSE]
    <3>1. AfterStop[main[s].job] \in PC
      BY <1>1 DEF Thread, Job, AfterStop, PC
    <3>2. Sound(t)
      BY <1>1, <2>1, <3>1 DEF Sound, Thread
    <3>3. main' = [main EXCEPT ![s] = t]
      BY <1>1, <2>2 DEF Shape, Stopped
    <3> QED
      BY <1>1, <3>2, <3>3, ThreadMoves DEF Goal
  <2> QED
    BY <1>8, <1>13, <2>1, <2>2 DEF StopAct
<1>14. CASE ReapTask(s)
  BY <1>2, <1>6, <1>14 DEF ReapTask, At, Idle, PC, Terminal
<1>15. CASE ReapRow(s)
  <2> DEFINE t == [main[s] EXCEPT !.pc = "reap", !.cur = NoClaim]
  <2>1. Sound(t)
    <3>1. NoClaim \in [run : RunIds, fence : 0..MaxFence]
      BY BoundsAssumption DEF NoClaim, RunIds
    <3> QED
      BY <1>1, <3>1 DEF Sound, Thread, PC, Idle
  <2>2. main' = [main EXCEPT ![s] = t]
    BY <1>1, <1>15 DEF Shape, ReapRow
  <2> QED
    BY <1>1, <2>1, <2>2, ThreadMoves DEF Goal
<1>16. CASE TendNext(s)
  <2>1. ASSUME NEW c \in main[s].todo
        PROVE  /\ Sound([main[s] EXCEPT !.pc = "finish", !.job = "finish", !.cur = c,
                                        !.todo = @ \ {c}, !.verdict = "cancelled"])
               /\ Sound([main[s] EXCEPT !.pc = "beat", !.cur = c, !.todo = @ \ {c}])
    <3>1. c \in Claims /\ c \in [run : RunIds, fence : 0..MaxFence]
      BY <1>1, BoundsAssumption DEF Thread, Claims, Fences
    <3> QED
      BY <1>1, <3>1 DEF Sound, Thread, PC, Job, Terminal
  <2>3. ASSUME NEW c \in main[s].todo,
               main' = [main EXCEPT ![s].pc = "finish", ![s].job = "finish", ![s].cur = c,
                                    ![s].todo = @ \ {c}, ![s].verdict = "cancelled"]
        PROVE  Goal
    <3> DEFINE t == [main[s] EXCEPT !.pc = "finish", !.job = "finish", !.cur = c,
                                    !.todo = @ \ {c}, !.verdict = "cancelled"]
    <3>1. main' = [main EXCEPT ![s] = t]
      BY <1>1, <2>3 DEF Shape
    <3> QED
      BY <1>1, <2>1, <3>1, ThreadMoves DEF Goal
  <2>4. ASSUME NEW c \in main[s].todo,
               main' = [main EXCEPT ![s].pc = "beat", ![s].cur = c, ![s].todo = @ \ {c}]
        PROVE  Goal
    <3> DEFINE t == [main[s] EXCEPT !.pc = "beat", !.cur = c, !.todo = @ \ {c}]
    <3>1. main' = [main EXCEPT ![s] = t]
      BY <1>1, <2>4 DEF Shape
    <3> QED
      BY <1>1, <2>1, <3>1, ThreadMoves DEF Goal
  <2>5. ASSUME Goto(s, "claim")
        PROVE  Goal
    BY <1>2, <2>5 DEF PC, Idle
  <2> QED
    BY <1>4, <1>16, <2>3, <2>4, <2>5 DEF TendNext
<1>17. CASE Beat(s)
  BY <1>2, <1>6, <1>17 DEF Beat, At, Idle, PC, Terminal
<1>18. CASE Look(s)
  BY <1>2, <1>6, <1>18 DEF Look, At, Idle, PC, Terminal
<1>19. CASE Watch(s)
  <2>1. tasks[s][Run(s)].outcome \in Terminal \cup {"none"}
    BY SubjectRun DEF SupIInv, SupTypeOK
  <2>2. main[s].pc \notin Idle
    BY <1>19 DEF Watch, At, Idle
  <2>3. Goto(s, "tend") => Goal
    BY <1>2 DEF PC, Idle
  <2> QED
    BY <1>5, <1>6, <1>19, <2>1, <2>2, <2>3 DEF Watch, Terminal
<1>20. CASE FinishBegins(s)
  <2>1. main[s].pc \notin Idle
    BY <1>20 DEF FinishBegins, At, Idle
  <2>2. ASSUME main' = [main EXCEPT ![s].pc = "stop", ![s].verdict = "failed"]
        PROVE  Goal
    <3> DEFINE t == [main[s] EXCEPT !.pc = "stop", !.verdict = "failed"]
    <3>1. Sound(t)
      BY <1>1, <2>1 DEF Sound, Thread, PC, Terminal
    <3>2. main' = [main EXCEPT ![s] = t]
      BY <1>1, <2>2 DEF Shape
    <3> QED
      BY <1>1, <3>1, <3>2, ThreadMoves DEF Goal
  <2> QED
    BY <1>2, <1>20, <2>1, <2>2 DEF FinishBegins, PC
<1>21. CASE Seal(s)
  <2>1. PICK sealed \in BOOLEAN :
          main' = [main EXCEPT ![s].pc = "commit", ![s].sealed = sealed,
                     ![s].verdict = IF @ = "succeeded" /\ ~ sealed THEN "failed" ELSE @]
    BY <1>21 DEF Seal
  <2> DEFINE t == [main[s] EXCEPT !.pc = "commit", !.sealed = sealed,
                     !.verdict = IF @ = "succeeded" /\ ~ sealed THEN "failed" ELSE @]
  <2>2. Sound(t)
    BY <1>1, <1>21 DEF Seal, At, Idle, Sound, Thread, PC, Terminal
  <2>3. main' = [main EXCEPT ![s] = t]
    BY <1>1, <2>1 DEF Shape
  <2> QED
    BY <1>1, <2>2, <2>3, ThreadMoves DEF Goal
<1>22. CASE CommitStep(s)
  <2>1. main[s].pc \notin Idle
    BY <1>22 DEF CommitStep, At, Idle
  <2>2. ASSUME main' = [main EXCEPT ![s].verdict = "failed", ![s].sealed = FALSE]
        PROVE  Goal
    <3> DEFINE t == [main[s] EXCEPT !.verdict = "failed", !.sealed = FALSE]
    <3>1. Sound(t)
      BY <1>1, <2>1 DEF Sound, Thread, Terminal
    <3>2. main' = [main EXCEPT ![s] = t]
      BY <1>1, <2>2 DEF Shape
    <3> QED
      BY <1>1, <3>1, <3>2, ThreadMoves DEF Goal
  <2> QED
    BY <1>2, <1>22, <2>1, <2>2 DEF CommitStep, PC
<1>23. CASE CommitCancelled(s)
  BY <1>2, <1>23 DEF CommitCancelled, At, Idle, PC
<1>24. CASE Clean(s)
  <2> DEFINE t == [main[s] EXCEPT !.pc = main[s].resume, !.job = "reap",
                                  !.verdict = "failed", !.sealed = FALSE]
  <2>1. Sound(t)
    BY <1>1, <1>24 DEF Clean, At, Idle, Sound, Thread, PC, Job, Terminal
  <2>2. main' = [main EXCEPT ![s] = t]
    BY <1>1, <1>24 DEF Clean, Shape
  <2> QED
    BY <1>1, <2>1, <2>2, ThreadMoves DEF Goal
<1>25. CASE ClaimNext(s)
  <2>1. ASSUME NEW r \in RunIds, NEW lag \in Lags, Claim(r, lag),
               main' = [main EXCEPT ![s].pc = "work", ![s].job = "undo",
                          ![s].cur = [run |-> r, fence |-> rows[r].fence + 1]]
        PROVE  Goal
    <3> DEFINE c == [run |-> r, fence |-> rows[r].fence + 1]
               t == [main[s] EXCEPT !.pc = "work", !.job = "undo", !.cur = c]
    <3>1. rows[r].fence \in 0..MaxFence /\ rows[r].fence < MaxFence
      BY <2>1 DEF Claim, Claimable, SupIInv, IInv, TypeOK, Row
    <3>2. c \in Claims /\ c \in [run : RunIds, fence : 0..MaxFence]
      BY <3>1, BoundsAssumption DEF Claims, Fences
    <3>3. Sound(t)
      BY <1>1, <3>2 DEF Sound, Thread, PC, Job
    <3>4. main' = [main EXCEPT ![s] = t]
      BY <1>1, <2>1 DEF Shape
    <3> QED
      BY <1>1, <3>3, <3>4, ThreadMoves DEF Goal
  <2> QED
    BY <1>3, <1>25, <2>1 DEF ClaimNext
<1>26. CASE Work(s) \/ Mkdir(s) \/ Bind(s) \/ Prepare(s) \/ Check(s)
  BY <1>2, <1>26 DEF Work, Mkdir, Bind, Prepare, Check, At, Idle, PC
<1>27. CASE Create(s) \/ Check2(s) \/ Undone(s)
  BY <1>2, <1>27 DEF Create, Check2, Undone, At, Idle, PC
<1>28. CASE Boot(s) \/ GiveUp(s)
  BY <1>2, <1>3, <1>28 DEF Boot, GiveUp, At, Idle, PC
<1> QED
  BY <1>10, <1>11, <1>12, <1>13, <1>14, <1>15, <1>16, <1>17, <1>18, <1>19, <1>20,
     <1>21, <1>22, <1>23, <1>24, <1>25, <1>26, <1>27, <1>28 DEF Main
\* Tasks, containers and directories keep their types under the main thread.
Surroundings ==
  /\ tasks \in [Supervisors -> TaskType]
  /\ box \in [RunIds -> [fence : 0..MaxFence,
                         state : {"none", "created", "running", "exited"}]]
  /\ dirs \subseteq Claims /\ kept \subseteq Claims
  /\ crashes \in 0..MaxCrashes

\* Replacing one task keeps the type of all.
LEMMA TaskChanges ==
  ASSUME tasks \in [Supervisors -> TaskType], NEW s \in Supervisors, NEW r \in RunIds,
         NEW t \in TaskRecord, tasks' = [tasks EXCEPT ![s][r] = t]
  PROVE  tasks' \in [Supervisors -> TaskType]
<1>1. tasks[s] \in TaskType
  OBVIOUS
<1>2. [tasks[s] EXCEPT ![r] = t] \in TaskType
  BY <1>1 DEF TaskType, TaskRecord
<1>3. tasks' = [tasks EXCEPT ![s] = [tasks[s] EXCEPT ![r] = t]]
  OBVIOUS
<1> QED
  BY <1>2, <1>3

\* A supervisor that has just started has no task.
LEMMA NoTasks == [r \in RunIds |-> NoTask] \in TaskType
  BY BoundsAssumption DEF NoTask, TaskType, TaskRecord, Terminal

\* Each statement of the main thread keeps tasks, containers and directories
\* typed.
LEMMA MainSurroundings ==
  ASSUME SupIInv, NEW s \in Supervisors, Main(s)
  PROVE  Surroundings'
<1>1. Surroundings /\ Run(s) \in RunIds /\ Cur(s) \in [run : RunIds, fence : 0..MaxFence]
  BY ShapeOK, SubjectRun DEF Shape, Surroundings, Cur, Thread
<1>2. CASE UNCHANGED <<tasks, outside>>
  BY <1>1, <1>2 DEF Surroundings, outside
<1>3. Exit(s) => tasks' \in [Supervisors -> TaskType]
  BY <1>1, NoTasks DEF Exit, Surroundings
<1>4. Raise(s) => tasks' \in [Supervisors -> TaskType]
  BY <1>1, <1>3 DEF Raise, Surroundings
<1>5. StopFault(s) => tasks' \in [Supervisors -> TaskType]
  BY <1>1, <1>4 DEF StopFault, Surroundings
<1>6. NoBox \in [fence : 0..MaxFence, state : {"none", "created", "running", "exited"}]
  BY BoundsAssumption DEF NoBox
<1>7. At(s, "mkdir") \/ At(s, "create") \/ At(s, "boot") => Cur(s) \in Claims
  BY DEF SupIInv, CurKnown, Idle, At, Cur
<1>8. CASE StopInspect(s)
  BY <1>1, <1>5, <1>8 DEF StopInspect, Surroundings, outside
<1>9. CASE StopAct(s)
  <2>1. tasks' \in [Supervisors -> TaskType]
    BY <1>1, <1>5, <1>9 DEF StopAct, Surroundings
  <2>2. box' = box \/ box' = [box EXCEPT ![Run(s)] = NoBox]
    BY <1>9 DEF StopAct
  <2> QED
    BY <1>1, <1>6, <1>9, <2>1, <2>2 DEF StopAct, Surroundings
<1>10. CASE ReapTask(s)
  BY <1>1, <1>10 DEF ReapTask, Surroundings
<1>11. CASE TendNext(s)
  BY <1>1, <1>3, <1>11 DEF TendNext, Surroundings, outside
<1>12. CASE Watch(s)
  BY <1>1, <1>4, <1>12 DEF Watch, Surroundings, outside
<1>13. CASE CommitStep(s)
  <2>1. ASSUME NEW outcome, NEW sealed, CommitOutcome(Subject(s), outcome, sealed)
        PROVE  Subject(s) \in Claims
    BY <2>1, SubjectRun DEF CommitOutcome, MayCommit
  <2>2. MayCommit(Subject(s), main[s].verdict) => Subject(s) \in Claims
    BY SubjectRun DEF MayCommit
  <2>3. kept' \in {kept, kept \cup {Subject(s)}}
        /\ (kept' = kept \/ Subject(s) \in Claims)
    BY <1>13, <2>1, <2>2 DEF CommitStep, Keep
  <2> QED
    BY <1>1, <1>13, <2>3 DEF CommitStep, Surroundings
<1>14. CASE Clean(s)
  <2>1. tasks' \in [Supervisors -> TaskType]
    BY <1>1, <1>14, NoTasks DEF Clean, Surroundings, TaskType
  <2> QED
    BY <1>1, <1>14, <2>1 DEF Clean, Surroundings
<1>15. CASE Mkdir(s)
  BY <1>1, <1>7, <1>15 DEF Mkdir, Surroundings
<1>16. CASE Create(s)
  <2>1. box' = box \/ box' = [box EXCEPT ![Run(s)] =
                                [fence |-> Cur(s).fence, state |-> "created"]]
    BY <1>16 DEF Create
  <2> QED
    BY <1>1, <1>16, <2>1 DEF Create, Surroundings
<1>17. CASE Boot(s)
  <2>1. box' = box \/ box' = [box EXCEPT ![Cur(s).run].state = "running"]
    BY <1>17 DEF Boot
  <2>2. tasks' = tasks \/ tasks' = [tasks EXCEPT ![s][Cur(s).run] =
                                      [NoTask EXCEPT !.fence = Cur(s).fence]]
    BY <1>17 DEF Boot
  <2>3. [NoTask EXCEPT !.fence = Cur(s).fence] \in TaskRecord /\ Cur(s).run \in RunIds
    BY <1>1, BoundsAssumption DEF NoTask, TaskRecord
  <2>4. tasks' \in [Supervisors -> TaskType]
    BY <1>1, <2>2, <2>3, TaskChanges DEF Surroundings
  <2>5. box' \in [RunIds -> [fence : 0..MaxFence,
                             state : {"none", "created", "running", "exited"}]]
    BY <1>1, <2>1 DEF Surroundings
  <2> QED
    BY <1>1, <1>17, <2>4, <2>5 DEF Boot, Surroundings
<1>18. CASE Undone(s)
  BY <1>1, <1>18 DEF Undone, Surroundings
<1>19. CASE StepBegins(s) \/ ReapNext(s) \/ ReapRow(s) \/ Beat(s) \/ Look(s)
            \/ FinishBegins(s) \/ Seal(s) \/ CommitCancelled(s) \/ ClaimNext(s)
  BY <1>2, <1>19 DEF StepBegins, ReapNext, ReapRow, Beat, Look, FinishBegins, Seal,
                     CommitCancelled, ClaimNext
<1>20. CASE Work(s) \/ Bind(s) \/ Prepare(s) \/ Check(s) \/ Check2(s) \/ GiveUp(s)
  BY <1>2, <1>20 DEF Work, Bind, Prepare, Check, Check2, GiveUp
<1> QED
  BY <1>8, <1>9, <1>10, <1>11, <1>12, <1>13, <1>14, <1>15, <1>16, <1>17, <1>18,
     <1>19, <1>20 DEF Main

\* Whatever else runs keeps the rest of the invariant too.
LEMMA ShapeKept ==
  ASSUME SupIInv, [SupNext]_vars
  PROVE  Shape'
<1>1. Shape /\ Surroundings
  BY ShapeOK DEF Shape, Surroundings
<1>2. ASSUME Surroundings',
             main' = [q \in Supervisors |-> main'[q]],
             \A q \in Supervisors : Sound(main'[q])
      PROVE  Shape'
  BY <1>2 DEF Shape, Surroundings, Sound
<1>3. ASSUME main' = main, Surroundings'
      PROVE  Shape'
  BY <1>1, <1>2, <1>3 DEF Shape
<1>4. ASSUME NEW s \in Supervisors, Main(s)
      PROVE  Shape'
  BY <1>2, <1>4, MainThread, MainSurroundings
<1>5. ASSUME NEW s \in Supervisors, HeartbeatThread(s)
      PROVE  Shape'
  BY <1>1, <1>3, <1>5 DEF HeartbeatThread, Surroundings, outside
<1>6. ASSUME NEW s \in Supervisors, NEW r \in RunIds,
             WorkerBoots(s, r) \/ WorkerReports(s, r) \/ WorkerFinishes(s, r)
      PROVE  Shape'
  <2>1. CASE WorkerBoots(s, r)
    BY <1>1, <1>3, <2>1 DEF WorkerBoots, Surroundings, outside
  <2>2. CASE WorkerReports(s, r)
    <3>1. tasks[s][r].progress + 1 \in 0..MaxProgress
      BY <1>1, <2>2, BoundsAssumption DEF WorkerReports, Surroundings, TaskType, TaskRecord
    <3>2. tasks' \in [Supervisors -> TaskType]
      <4> DEFINE t == [tasks[s][r] EXCEPT !.progress = tasks[s][r].progress + 1]
      <4>1. tasks[s] \in TaskType /\ tasks[s][r] \in TaskRecord
        BY <1>1 DEF Surroundings, TaskType, TaskRecord
      <4>2. t \in TaskRecord
        BY <3>1, <4>1 DEF TaskRecord
      <4>3. tasks' = [tasks EXCEPT ![s][r] = t]
        BY <1>1, <2>2, <4>1 DEF WorkerReports, Surroundings, TaskType
      <4> QED
        BY <1>1, <4>2, <4>3, TaskChanges DEF Surroundings
    <3> QED
      BY <1>1, <1>3, <2>2, <3>2 DEF WorkerReports, Surroundings, outside
  <2>3. CASE WorkerFinishes(s, r)
    <3>1. tasks' \in [Supervisors -> TaskType]
      <4>1. PICK o \in Terminal : tasks' = [tasks EXCEPT ![s][r].outcome = o]
        BY <2>3 DEF WorkerFinishes
      <4> DEFINE t == [tasks[s][r] EXCEPT !.outcome = o]
      <4>2. tasks[s] \in TaskType /\ tasks[s][r] \in TaskRecord
        BY <1>1 DEF Surroundings, TaskType, TaskRecord
      <4>3. t \in TaskRecord
        BY <4>2 DEF TaskRecord
      <4>4. tasks' = [tasks EXCEPT ![s][r] = t]
        BY <1>1, <4>1, <4>2 DEF Surroundings, TaskType
      <4> QED
        BY <1>1, <4>3, <4>4, TaskChanges DEF Surroundings
    <3>2. box' \in [RunIds -> [fence : 0..MaxFence,
                               state : {"none", "created", "running", "exited"}]]
      BY <1>1, <2>3 DEF WorkerFinishes, Surroundings
    <3> QED
      BY <1>1, <1>3, <2>3, <3>1, <3>2 DEF WorkerFinishes, Surroundings
  <2> QED
    BY <1>6, <2>1, <2>2, <2>3
<1>7. ASSUME NEW r \in RunIds, WorkerDies(r)
      PROVE  Shape'
  <2>1. box' \in [RunIds -> [fence : 0..MaxFence,
                             state : {"none", "created", "running", "exited"}]]
    BY <1>1, <1>7 DEF WorkerDies, Surroundings
  <2> QED
    BY <1>1, <1>3, <1>7, <2>1 DEF WorkerDies, Surroundings
<1>8. ASSUME NEW s \in Supervisors, StopAsked(s)
      PROVE  Shape'
  <2> DEFINE t == [main[s] EXCEPT !.pc = "tend", !.stopping = TRUE, !.todo = Tasks(s)]
  <2>1. Sound(t)
    <3>1. Tasks(s) \subseteq Claims /\ main[s] \in Thread
      BY <1>1, TasksAreIssued DEF SupIInv, Shape, Sound
    <3> QED
      BY <3>1 DEF Sound, Thread, PC, Idle
  <2>2. main' = [main EXCEPT ![s] = t]
    BY <1>1, <1>8 DEF StopAsked, Shape
  <2>3. Surroundings'
    BY <1>1, <1>8, FaultAssumption DEF StopAsked, Surroundings
  <2> QED
    BY <1>1, <1>2, <2>1, <2>2, <2>3, ThreadMoves
<1>9. ASSUME NEW s \in Supervisors, Crash(s)
      PROVE  Shape'
  <2>1. tasks' \in [Supervisors -> TaskType] /\ crashes' \in 0..MaxCrashes
    BY <1>1, <1>9, NoTasks, FaultAssumption DEF Crash, Exit, Surroundings
  <2>4. kept' \subseteq Claims
    BY <1>1, <1>9, SubjectRun DEF Crash, Keep, MayCommit, Surroundings
  <2>2. Surroundings'
    BY <1>1, <1>9, <2>1, <2>4 DEF Crash, Surroundings
  <2>3. Sound([Fresh EXCEPT !.pc = "off"])
    BY FreshIsSound DEF Idle
  <2> QED
    BY <1>1, <1>2, <1>9, <2>2, <2>3, ThreadMoves DEF Crash, Exit
<1>10. ASSUME NEW s \in Supervisors, Restart(s)
       PROVE  Shape'
  <2>1. Sound(Fresh)
    BY FreshIsSound DEF Idle
  <2> QED
    BY <1>1, <1>2, <1>10, <2>1, ThreadMoves DEF Restart, Surroundings, outside
<1>11. CASE TimePasses
  <2>1. ASSUME NEW s \in Supervisors
        PROVE  Sound(main'[s])
    <3>1. main'[s] = [main[s] EXCEPT !.age = IF InReap(s) THEN @ + 1 ELSE @]
          /\ (InReap(s) => main[s].age < MaxLag)
      BY <1>11 DEF TimePasses
    <3>2. Sound(main[s])
      BY <1>1 DEF Shape
    <3> QED
      BY <3>1, <3>2, BoundsAssumption DEF Sound, Thread
  <2> QED
    BY <1>1, <1>2, <1>11, <2>1 DEF TimePasses, Surroundings, outside
<1>12. CASE Client \/ UNCHANGED vars
  BY <1>1, <1>3, <1>12 DEF Client, vars, Surroundings, outside
<1> QED
  BY <1>4, <1>5, <1>6, <1>7, <1>8, <1>9, <1>10, <1>11, <1>12 DEF SupNext

\* The empty host satisfies the invariant.
LEMMA SupInitInv == SupInit => SupIInv
<1> SUFFICES ASSUME SupInit PROVE IInv /\ Shape
  BY ShapeOK
<1>1. IInv
  BY InitInv DEF SupInit
<1>2. Sound(Fresh)
  BY FreshIsSound DEF Idle
<1>3. tasks \in [Supervisors -> TaskType]
  BY NoTasks DEF SupInit
<1>4. Shape
  BY <1>2, <1>3, BoundsAssumption, FaultAssumption DEF SupInit, Shape, NoBox
<1> QED
  BY <1>1, <1>4

\* Every step keeps the invariant, and is one of the table or a stutter.
LEMMA SupNextInv ==
  ASSUME SupIInv, [SupNext]_vars
  PROVE  SupIInv' /\ [Next]_repo
<1>1. [Next]_repo
  BY RepoStep
<1>2. IInv'
  BY <1>1, NextInv DEF SupIInv
<1>3. Shape'
  BY ShapeKept
<1>4. (IInv /\ Shape => SupIInv)'
  BY ShapeOK, PTL
<1> QED
  BY <1>1, <1>2, <1>3, <1>4

\* The invariant the theorems below rest on.
THEOREM SupInvariant == SupSpec => []SupIInv
  BY SupInitInv, SupNextInv, PTL DEF SupSpec

\* The supervisors' variables keep their types, whatever crashes, expiries and
\* Docker failures they meet.
THEOREM SupTypeCorrect == SupSpec => []SupTypeOK
  BY SupInvariant, PTL DEF SupIInv

\* Any number of supervisors, with crashes, stale claims and clock readings of
\* any age, use the table only through its transactions.
THEOREM SupervisorsUseTheTable == SupSpec => RepositorySpec
<1>1. SupInit => Init
  BY DEF SupInit
<1>2. SupIInv /\ [SupNext]_vars => [Next]_repo
  BY RepoStep
<1> QED
  BY <1>1, <1>2, SupInvariant, PTL DEF SupSpec, RepositorySpec, Spec

\* So the whole system implements the life of a run, and a cancellation wins in
\* it, as does the last claim's result.
THEOREM SystemImplementsLifecycle == SupSpec => LifecycleSpec
  BY SupervisorsUseTheTable, TableImplementsLifecycle, PTL DEF RepositorySpec

\* Among any number of supervisors a cancellation still wins, a published result
\* is still the last claim's, and the queue is still bounded.
THEOREM SystemSafety == SupSpec => [](CancelWins /\ ResultOfWinner /\ QueueBounded)
  BY SupervisorsUseTheTable, CancellationWins, ResultBelongsToWinner,
     QueueStaysBounded, PTL DEF RepositorySpec

-----------------------------------------------------------------------------
(* A published result is kept.                                             *)

\* _finish tries to commit a success only with a sealed candidate: Seal takes
\* the verdict back otherwise, and so does the gateway's refusal.
SealedSuccess(t) == t.pc = "commit" /\ t.verdict = "succeeded" => t.sealed

PublishedInv == /\ SupIInv
                /\ \A s \in Supervisors : SealedSuccess(main[s])
                /\ PublishedIsKept

\* No statement but Seal and CommitStep leads to "commit".
LEMMA MainSeals ==
  ASSUME PublishedInv, NEW s \in Supervisors, Main(s)
  PROVE  \A q \in Supervisors : SealedSuccess(main'[q])
<1> DEFINE Goal == \A q \in Supervisors : SealedSuccess(main'[q])
<1> SUFFICES Goal
  OBVIOUS
<1>1. main \in [Supervisors -> Thread] /\ main[s] \in Thread
  BY DEF PublishedInv, SupIInv, SupTypeOK
<1>2. ASSUME main'[s].pc # "commit",
             \A q \in Supervisors \ {s} : main'[q] = main[q]
      PROVE  Goal
  BY <1>2 DEF PublishedInv, SealedSuccess
<1> HIDE DEF Goal
<1>3. ASSUME NEW pc \in PC \ {"commit"}, Goto(s, pc)
      PROVE  Goal
  BY <1>1, <1>2, <1>3 DEF Goto, Thread
<1>4. ASSUME StepEnds(s) \/ Exit(s) \/ Raise(s)
      PROVE  Goal
  <2>1. ASSUME NEW t, t.pc # "commit", main' = [main EXCEPT ![s] = t]
        PROVE  Goal
    BY <1>1, <1>2, <2>1
  <2>2. Fresh.pc = "top" /\ [Fresh EXCEPT !.pc = "off"].pc = "off"
    BY DEF Fresh
  <2>3. [Fresh EXCEPT !.pc = "tend", !.stopping = TRUE, !.todo = Tasks(s)].pc = "tend"
    BY DEF Fresh
  <2> QED
    BY <1>4, <2>1, <2>2, <2>3 DEF StepEnds, Exit, Raise
<1>5. ASSUME NEW outcome, Finish(s, outcome)
      PROVE  Goal
  BY <1>1, <1>2, <1>5 DEF Finish, Thread
<1>6. ASSUME TendAll(s)
      PROVE  Goal
  BY <1>1, <1>2, <1>6 DEF TendAll, Thread
<1>7. AfterStop[main[s].job] \in PC \ {"commit"} /\ AfterStale[main[s].job] \in PC \ {"commit"}
  BY <1>1 DEF Thread, Job, AfterStop, AfterStale, PC
<1>8. StopFault(s) => Goal
  BY <1>3, <1>4 DEF StopFault, PC
<1>9. CASE StepBegins(s) \/ ReapNext(s)
  <2>1. CASE TendAll(s)
    BY <1>6, <2>1
  <2>2. CASE ~ TendAll(s)
    <3>1. main'[s].pc \in {"reap", "stop"}
      <4>1. CASE StepBegins(s)
        BY <1>1, <2>2, <4>1 DEF StepBegins, Thread
      <4>2. CASE ReapNext(s)
        <5>1. PICK c \in main[s].todo :
                main' = [main EXCEPT ![s].pc = "stop", ![s].job = "reap", ![s].cur = c,
                                     ![s].todo = @ \ {c}]
          BY <2>2, <4>2 DEF ReapNext
        <5> QED
          BY <1>1, <5>1 DEF Thread
      <4> QED
        BY <1>9, <4>1, <4>2
    <3>2. \A q \in Supervisors \ {s} : main'[q] = main[q]
      BY <1>1, <1>9, <2>2 DEF StepBegins, ReapNext
    <3> QED
      BY <1>2, <3>1, <3>2
  <2> QED
    BY <2>1, <2>2
<1>10. CASE StopInspect(s)
  BY <1>1, <1>2, <1>3, <1>7, <1>8, <1>10 DEF StopInspect, Thread
<1>11. CASE StopAct(s)
  <2>1. Stopped(s) => Goal
    BY <1>1, <1>2, <1>7 DEF Stopped, Thread
  <2> QED
    BY <1>8, <1>11, <2>1 DEF StopAct
<1>12. CASE ReapTask(s) \/ Beat(s) \/ Look(s) \/ Watch(s)
  BY <1>3, <1>4, <1>5, <1>12 DEF ReapTask, Beat, Look, Watch, PC
<1>13. CASE ReapRow(s)
  BY <1>1, <1>2, <1>13 DEF ReapRow, Thread
<1>14. CASE TendNext(s)
  <2>1. CASE Exit(s) \/ Goto(s, "claim")
    BY <1>3, <1>4, <2>1 DEF PC
  <2>2. CASE ~ (Exit(s) \/ Goto(s, "claim"))
    <3>1. main'[s].pc \in {"finish", "beat"}
      <4>1. PICK c \in main[s].todo :
              \/ main' = [main EXCEPT ![s].pc = "finish", ![s].job = "finish", ![s].cur = c,
                                      ![s].todo = @ \ {c}, ![s].verdict = "cancelled"]
              \/ main' = [main EXCEPT ![s].pc = "beat", ![s].cur = c, ![s].todo = @ \ {c}]
        BY <1>14, <2>2 DEF TendNext
      <4> QED
        BY <1>1, <4>1 DEF Thread
    <3>2. \A q \in Supervisors \ {s} : main'[q] = main[q]
      BY <1>1, <1>14, <2>2 DEF TendNext
    <3> QED
      BY <1>2, <3>1, <3>2
  <2> QED
    BY <2>1, <2>2
<1>15. CASE FinishBegins(s)
  BY <1>1, <1>2, <1>3, <1>15 DEF FinishBegins, Thread, PC
<1>16. CASE Seal(s)
  <2>1. PICK sealed \in BOOLEAN :
          main' = [main EXCEPT ![s].pc = "commit", ![s].sealed = sealed,
                     ![s].verdict = IF @ = "succeeded" /\ ~ sealed THEN "failed" ELSE @]
    BY <1>16 DEF Seal
  <2>2. SealedSuccess(main'[s])
    BY <1>1, <2>1 DEF SealedSuccess, Thread
  <2>3. \A q \in Supervisors \ {s} : main'[q] = main[q]
    BY <1>1, <2>1
  <2> QED
    BY <2>2, <2>3 DEF Goal, PublishedInv
<1>17. CASE CommitStep(s)
  <2>1. ASSUME main' = [main EXCEPT ![s].verdict = "failed", ![s].sealed = FALSE]
        PROVE  Goal
    <3>1. main'[s].verdict = "failed" /\ \A q \in Supervisors \ {s} : main'[q] = main[q]
      BY <1>1, <2>1 DEF Thread
    <3> QED
      BY <3>1 DEF Goal, PublishedInv, SealedSuccess
  <2> QED
    BY <1>3, <1>17, <2>1 DEF CommitStep, PC
<1>18. CASE CommitCancelled(s)
  BY <1>3, <1>18 DEF CommitCancelled, PC
<1>19. CASE Clean(s)
  <2>1. main[s].resume # "commit"
    BY <1>1 DEF Thread
  <2> QED
    BY <1>1, <1>2, <1>19, <2>1 DEF Clean, Thread
<1>20. CASE ClaimNext(s)
  BY <1>1, <1>2, <1>4, <1>20 DEF ClaimNext, Thread
<1>21. CASE Work(s) \/ Mkdir(s) \/ Bind(s) \/ Prepare(s) \/ Check(s)
  BY <1>3, <1>21 DEF Work, Mkdir, Bind, Prepare, Check, PC
<1>22. CASE Create(s) \/ Check2(s) \/ Boot(s) \/ Undone(s) \/ GiveUp(s)
  BY <1>3, <1>4, <1>22 DEF Create, Check2, Boot, Undone, GiveUp, PC
<1> QED
  BY <1>9, <1>10, <1>11, <1>12, <1>13, <1>14, <1>15, <1>16, <1>17, <1>18, <1>19,
     <1>20, <1>21, <1>22 DEF Main

\* A pointer is written only after the directory it names was retained, and a
\* retained directory is never given up.
LEMMA PublishedNext ==
  ASSUME PublishedInv, [SupNext]_vars
  PROVE  PublishedInv'
<1>1. /\ SupIInv /\ PublishedIsKept /\ TypeOK
      /\ pointers \in [RunIds -> 0..MaxFence] /\ main \in [Supervisors -> Thread]
      /\ \A s \in Supervisors : SealedSuccess(main[s])
  BY DEF PublishedInv, SupIInv, SupTypeOK, TypeOK
<1>2. SupIInv'
  BY <1>1, SupNextInv
<1>3. ASSUME pointers' = pointers, kept \subseteq kept'
      PROVE  PublishedIsKept'
  BY <1>1, <1>3 DEF PublishedIsKept
<1>4. ASSUME NEW c \in [run : RunIds, fence : Nat], NEW outcome, NEW sealed,
             CommitOutcome(c, outcome, sealed), kept \subseteq kept',
             sealed => c \in kept'
      PROVE  PublishedIsKept'
  <2>1. c = [run |-> c.run, fence |-> c.fence] /\ c.run \in RunIds
    OBVIOUS
  <2>2. pointers' = [pointers EXCEPT ![c.run] = IF sealed THEN c.fence ELSE @]
    BY <1>4 DEF CommitOutcome
  <2> QED
    BY <1>1, <1>4, <2>1, <2>2 DEF PublishedIsKept
<1>5. ASSUME NEW s \in Supervisors, Main(s)
      PROVE  PublishedIsKept'
  <2>1. Subject(s) \in [run : RunIds, fence : Nat] /\ Cur(s) \in [run : RunIds, fence : Nat]
    <3>1. main[s] \in Thread /\ Cur(s) \in [run : RunIds, fence : 0..MaxFence]
      BY <1>1 DEF Thread, Cur
    <3>2. tasks[s][Run(s)].fence \in 0..MaxFence /\ Run(s) \in RunIds
      BY <1>1, <3>1 DEF SupIInv, SupTypeOK, Run, Cur
    <3> QED
      BY <3>1, <3>2, BoundsAssumption DEF Subject, TaskClaim
  <2>2. CASE CommitStep(s)
    <3>1. main[s].verdict = "succeeded" => main[s].sealed
      BY <1>1, <2>2 DEF CommitStep, At, SealedSuccess
    <3>2. kept \subseteq kept'
      BY <2>2 DEF CommitStep, Keep
    <3>3. Keep(s) /\ main[s].sealed => Subject(s) \in kept'
      BY DEF Keep
    <3> QED
      <4> DEFINE c == Subject(s)
                 verdict == main[s].verdict
      <4>1. CASE CommitOutcome(c, verdict, main[s].sealed) /\ Keep(s)
        BY <1>4, <2>1, <3>2, <3>3, <4>1
      <4>2. CASE /\ verdict = "succeeded"
                 /\ CommitOutcome(c, verdict, TRUE) /\ Keep(s)
        BY <1>4, <2>1, <3>1, <3>2, <3>3, <4>2
      <4>3. CASE pointers' = pointers
        BY <1>3, <3>2, <4>3
      <4> QED
        BY <2>2, <4>1, <4>2, <4>3 DEF CommitStep, repo
  <2>3. CASE CommitCancelled(s)
    BY <1>3, <1>4, <2>1, <2>3 DEF CommitCancelled, repo, outside
  <2>4. CASE GiveUp(s)
    BY <1>3, <1>4, <2>1, <2>4 DEF GiveUp, repo, outside
  <2>5. CASE ReapRow(s) \/ Beat(s) \/ Seal(s) \/ ClaimNext(s) \/ Bind(s)
    BY <1>3, <2>5 DEF ReapRow, Beat, Seal, ClaimNext, Bind, RecoverStopped, Heartbeat,
                      Progress, Claim, BindAttempt, Set, repo, outside
  <2>6. CASE \/ StepBegins(s) \/ ReapNext(s) \/ StopInspect(s) \/ StopAct(s)
             \/ ReapTask(s) \/ Look(s) \/ Watch(s) \/ FinishBegins(s)
    BY <1>3, <2>6 DEF StepBegins, ReapNext, StopInspect, StopAct, ReapTask, Look,
                      Watch, FinishBegins, repo, outside
  <2>7. CASE TendNext(s) \/ Clean(s) \/ Work(s) \/ Mkdir(s) \/ Prepare(s)
             \/ Check(s) \/ Create(s) \/ Check2(s) \/ Boot(s) \/ Undone(s)
    BY <1>3, <2>7 DEF TendNext, Clean, Work, Mkdir, Prepare, Check, Create, Check2,
                      Boot, Undone, repo, outside
  <2> QED
    BY <1>5, <2>2, <2>3, <2>4, <2>5, <2>6, <2>7 DEF Main
<1>6. CASE \E s \in Supervisors : Main(s)
  BY <1>2, <1>5, <1>6, MainSeals DEF PublishedInv
<1>7. CASE ~ \E s \in Supervisors : Main(s)
  <2>1. pointers' = pointers /\ kept \subseteq kept'
    BY <1>7 DEF SupNext, Keep, HeartbeatThread, StopAsked, Crash, Restart, WorkerBoots,
                WorkerReports, WorkerFinishes, WorkerDies, TimePasses, Client, Tick,
                Heartbeat, Running, Progress, Submit, RequestCancel, Insert, Set,
                vars, repo, outside
  <2>2. ASSUME main' = main
        PROVE  \A q \in Supervisors : SealedSuccess(main'[q])
    BY <1>1, <2>2
  <2>3. ASSUME NEW s \in Supervisors, StopAsked(s) \/ Crash(s) \/ Restart(s)
        PROVE  \A q \in Supervisors : SealedSuccess(main'[q])
    <3> SUFFICES ASSUME NEW q \in Supervisors PROVE SealedSuccess(main'[q])
      OBVIOUS
    <3>1. CASE StopAsked(s)
      BY <1>1, <3>1 DEF StopAsked, SealedSuccess, Thread
    <3>2. CASE Crash(s)
      BY <1>1, <3>2 DEF Crash, Exit, SealedSuccess, Thread
    <3>3. CASE Restart(s)
      BY <1>1, <3>3 DEF Restart, Fresh, SealedSuccess, Thread
    <3> QED
      BY <2>3, <3>1, <3>2, <3>3
  <2>4. ASSUME TimePasses
        PROVE  \A q \in Supervisors : SealedSuccess(main'[q])
    BY <1>1, <2>4 DEF TimePasses, SealedSuccess, Thread
  <2>5. \A q \in Supervisors : SealedSuccess(main'[q])
    BY <1>7, <2>2, <2>3, <2>4 DEF SupNext, HeartbeatThread, WorkerBoots, WorkerReports,
                                  WorkerFinishes, WorkerDies, Client, vars
  <2> QED
    BY <1>2, <1>3, <2>1, <2>5 DEF PublishedInv
<1> QED
  BY <1>6, <1>7

\* What a reader is pointed at was retained before, whoever crashed since, even
\* when Docker fails and the final data check raises late.
THEOREM PublishedResultsAreKept == SupSpec => []PublishedIsKept
<1>1. SupInit => PublishedInv
  BY SupInitInv DEF SupInit, Init, PublishedInv, PublishedIsKept, SealedSuccess, Fresh
<1>2. PublishedInv /\ [SupNext]_vars => PublishedInv'
  BY PublishedNext
<1>3. PublishedInv => PublishedIsKept
  BY DEF PublishedInv
<1> QED
  BY <1>1, <1>2, <1>3, PTL DEF SupSpec

-----------------------------------------------------------------------------
(* A running container always belongs to the current, still reserved claim *)
(* of its run, for any number of supervisors and runs, crashes and stale   *)
(* claims, as long as Docker answers and a clock reading is younger than a *)
(* lease when it is used.                                                  *)
(*                                                                         *)
(* The argument: only a supervisor that holds the run's newest claim, and  *)
(* that is not being reaped, starts a container; and whoever ends a run or *)
(* hands it back has first seen that its container is gone.  In between no *)
(* one else can start it again, because a claim is started only once.      *)

\* Between the claim of a run and the registration of its task.
StartPC == {"work", "mkdir", "bind", "prepare", "check", "create", "check2", "boot",
            "undone", "giveUp"}

\* _finish after stop_remove.
FinishPC == {"seal", "commit", "lost", "clean"}

Starting(t) == t.pc \in StartPC \/ (t.pc \in {"stop", "stopAct"} /\ t.job = "undo")

\* Reaping a claim whose container has been stopped.
Reaping(t) ==
  /\ t.resume = "reapRow"
  /\ \/ t.pc \in {"reapTask", "reapRow"}
     \/ t.job = "finish" /\ t.pc \in {"finish", "stop", "stopAct"} \cup FinishPC

\* A thread's job and the loop it is in go with where it is.
Coherent(t) ==
  /\ t.pc \in StartPC => t.job = "undo"
  /\ t.pc \in FinishPC \cup {"finish"} => t.job = "finish"
  /\ t.pc \in {"reap", "reapTask", "reapRow"} \/ (t.pc \in {"stop", "stopAct"} /\ t.job = "reap")
       => t.resume = "reapRow"
  /\ t.pc \in {"top", "tend", "beat", "look", "watch"} => t.resume = "tend"

Issued(c) == c.fence <= rows[c.run].fence

\* The container of claim f of run r runs.
Alive(r, f) == box[r].state = "running" /\ box[r].fence = f

Reserved(r, f) == rows[r].status \in Active /\ rows[r].fence = f

\* Recoverable, said of a row.
Lapsed(row, f, age) == /\ row.token = f /\ row.fence = f
                       /\ row.lease <= -age
                       /\ row.status \notin Terminal

\* The row of the claim being reaped may still be handed back.
Due(s) == Reaping(main[s]) /\ Lapsed(rows[Run(s)], Cur(s).fence, main[s].age)

-----------------------------------------------------------------------------
(* The invariant.                                                          *)

\* A row not inserted yet has not been claimed.
Unclaimed == \A r \in RunIds : rows[r].status = "absent" => rows[r].fence = 0

\* Everything that names a claim names one that was issued.
AllIssued ==
  /\ \A s \in Supervisors : /\ Issued(Cur(s)) /\ (\A c \in main[s].todo : Issued(c))
                            /\ \A r \in RunIds : tasks[s][r].fence <= rows[r].fence
  /\ \A r \in RunIds : box[r].fence <= rows[r].fence

\* The claim being started has no task and no result yet, and is started by one
\* thread only.
StartNew(s) == Starting(main[s]) =>
  /\ pointers[Run(s)] # Cur(s).fence
  /\ \A o \in Supervisors : tasks[o][Run(s)].fence # Cur(s).fence
StartedByOne == \A s, o \in Supervisors :
  Starting(main[s]) /\ Starting(main[o]) /\ Cur(s) = Cur(o) => s = o

\* The container of the task being finished is gone before its run ends.
FinishOK(s) == main[s].pc \in FinishPC => ~ Alive(Run(s), tasks[s][Run(s)].fence)

\* A container that runs is labelled with a claim.
Tagged == \A r \in RunIds : box[r].state = "running" => box[r].fence # 0

\* What holds whether Docker answers or not.
HolderInv ==
  /\ SupIInv /\ Unclaimed /\ AllIssued /\ StartedByOne /\ Tagged
  /\ \A s \in Supervisors : Coherent(main[s]) /\ StartNew(s) /\ FinishOK(s)

\* The claim being started has no running container.
StartOK(s) == Starting(main[s]) => ~ Alive(Run(s), Cur(s).fence)

\* The container of the claim being reaped is gone, and cannot come back, as
\* long as its row may be handed back.
ReapOK(s) == Due(s) =>
  /\ ~ Alive(Run(s), Cur(s).fence)
  /\ \A o \in Supervisors : At(o, "boot") /\ Cur(o) = Cur(s) =>
                              box[Run(s)].fence # Cur(s).fence

\* A container about to be started belongs to a claim that still holds its run.
BootOK(s) == At(s, "boot") /\ box[Run(s)].fence = Cur(s).fence
               => Reserved(Run(s), Cur(s).fence)

\* What needs a daemon that answers.
ReservedInv ==
  /\ ReservedWhileAlive
  /\ \A s \in Supervisors : StartOK(s) /\ ReapOK(s) /\ BootOK(s)

ClocksAreFresh == MaxLag < LeaseTicks

-----------------------------------------------------------------------------
(* Rows.                                                                   *)

\* Fences only grow, and a row is claimed only after it was inserted.
LEMMA FencesGrow ==
  ASSUME HolderInv, [SupNext]_vars, NEW r \in RunIds
  PROVE  /\ rows[r].fence \in Nat /\ rows'[r].fence \in Nat
         /\ rows[r].fence <= rows'[r].fence
         /\ rows'[r].status = "absent" => rows'[r].fence = 0
<1>1. SupIInv /\ IInv /\ Unclaimed /\ SupIInv' /\ [Next]_repo
  BY SupNextInv DEF HolderInv, SupIInv
<1>2. rows[r] \in Row /\ rows[r].fence \in Nat /\ rows'[r].fence \in Nat
  BY <1>1, BoundsAssumption DEF SupIInv, IInv, TypeOK, Row
<1>3. RowStep(r)
  BY <1>1, EveryRowStep
<1>4. CASE Appears(r)
  BY <1>1, <1>2, <1>4 DEF Appears, FreshRow, Unclaimed
<1>5. CASE Asked(r)
  BY <1>2, <1>5 DEF Asked, Row, Active
<1>6. CASE Taken(r)
  BY <1>2, <1>6 DEF Taken
<1>7. CASE Kept(r)
  BY <1>2, <1>7 DEF Kept, Same, Active
<1>8. CASE Ended(r) \/ HandedBack(r)
  BY <1>2, <1>8 DEF Ended, HandedBack, Same, Terminal
<1>9. CASE rows'[r] = rows[r]
  BY <1>1, <1>2, <1>9 DEF Unclaimed
<1> QED
  BY <1>2, <1>3, <1>4, <1>5, <1>6, <1>7, <1>8, <1>9 DEF RowStep

\* What a mild transaction does to one row: a claim that lapsed once has lapsed
\* for good, because a heartbeat extends a lease beyond every reading of the
\* clock, and one that holds its run keeps it.
RowCalm(r) ==
  /\ \A f \in 1..rows[r].fence, age \in Lags :
       Lapsed(rows'[r], f, age) => Lapsed(rows[r], f, age)
  /\ rows[r].status \in Active => /\ rows'[r].status \in Active
                                  /\ rows'[r].fence = rows[r].fence

LEMMA MildIsCalm ==
  ASSUME ClocksAreFresh, IInv, [Mild]_repo, NEW r \in RunIds
  PROVE  RowCalm(r)
<1>1. /\ rows \in [RunIds -> Row] /\ rows[r] \in Row /\ rows[r].fence \in Nat
      /\ MaxLag \in Nat /\ LeaseTicks \in Nat /\ made \in Nat /\ TypeOK /\ r \in Nat
  <2>1. MaxLag \in Nat /\ LeaseTicks \in Nat /\ r \in Nat
    BY BoundsAssumption, LeaseAssumption DEF RunIds
  <2>2. TypeOK /\ rows \in [RunIds -> Row] /\ made \in Nat
    BY BoundsAssumption DEF IInv, TypeOK
  <2> QED
    BY <2>1, <2>2, BoundsAssumption DEF Row
<1>2. ASSUME rows'[r] = rows[r]
      PROVE  RowCalm(r)
  BY <1>2 DEF RowCalm
<1>3. ASSUME NEW k \in Keys, NEW config \in Configs, Submit(k, config)
      PROVE  RowCalm(r)
  <2>1. Inserted(1)
    BY <1>1, <1>3, SubmitInserts
  <2>2. CASE r \in made+1 .. made+1
    <3>1. rows[r].status = "absent" /\ FreshRow(rows'[r])
      BY <1>1, <2>1, <2>2 DEF IInv, Consistent, Inserted
    <3> QED
      BY <1>1, <3>1 DEF RowCalm, FreshRow, Lapsed, Active
  <2> QED
    BY <1>2, <2>1, <2>2 DEF Inserted
<1>4. ASSUME NEW q \in RunIds, RequestCancel(q)
      PROVE  RowCalm(r)
  <2>1. CASE q = r
    BY <1>1, <1>4, <2>1 DEF RequestCancel, Live, Set, RowCalm, Lapsed, Row, Active, Terminal
  <2> QED
    BY <1>1, <1>2, <1>4, <2>1 DEF RequestCancel, Set
<1>5. ASSUME NEW q \in RunIds, NEW lag \in Lags, Claim(q, lag)
      PROVE  RowCalm(r)
  <2>1. CASE q = r
    <3>1. rows[r].status = "queued" /\ rows'[r].fence = rows[r].fence + 1
      BY <1>1, <1>5, <2>1 DEF Claim, Claimable, Waiting, Set, Row
    <3> QED
      BY <1>1, <3>1 DEF RowCalm, Lapsed, Active
  <2> QED
    BY <1>1, <1>2, <1>5, <2>1 DEF Claim, Set
<1>6. ASSUME NEW c \in Claims, BindAttempt(c) \/ Running(c) \/ \E v \in 0..MaxProgress : Progress(c, v)
      PROVE  RowCalm(r)
  <2>1. CASE c.run = r
    <3>1. /\ rows[r].status \in Active /\ rows'[r].status \in Active
          /\ Same(r, "token") /\ Same(r, "fence") /\ Same(r, "lease")
      BY <1>1, <1>6, <2>1 DEF BindAttempt, Running, Progress, Mutable, Valid, Set, Same, Row, Active
    <3> QED
      BY <1>1, <3>1 DEF RowCalm, Lapsed, Same, Active, Terminal
  <2> QED
    BY <1>1, <1>2, <1>6, <2>1 DEF BindAttempt, Running, Progress, Set
<1>7. ASSUME NEW c \in Claims, NEW lag \in Lags, Heartbeat(c, lag)
      PROVE  RowCalm(r)
  <2>1. CASE c.run = r
    <3>1. /\ rows[r].status \in Active /\ Same(r, "status") /\ Same(r, "fence")
          /\ rows'[r].lease = LeaseTicks - lag
      BY <1>1, <1>7, <2>1 DEF Heartbeat, Valid, Set, Same, Row
    <3>2. rows'[r].lease > 0
      BY <1>1, <3>1 DEF ClocksAreFresh, Lags
    <3>3. ASSUME NEW f, NEW age \in Lags
          PROVE  ~ Lapsed(rows'[r], f, age)
      BY <1>1, <3>1, <3>2 DEF Lapsed, Lags
    <3> QED
      BY <1>1, <3>1, <3>3 DEF RowCalm, Same
  <2> QED
    BY <1>1, <1>2, <1>7, <2>1 DEF Heartbeat, Set
<1>8. CASE UNCHANGED repo
  BY <1>2, <1>8 DEF repo
<1> QED
  BY <1>3, <1>4, <1>5, <1>6, <1>7, <1>8 DEF Mild

\* A transaction that takes a run from its holder is that holder's, or finds the
\* holder's claim lapsed; what it takes does not lapse again.
LEMMA EndingRow ==
  ASSUME HolderInv, NEW s \in Supervisors, Commits(s) \/ HandsBack(s),
         NEW r \in RunIds
  PROVE  \/ rows'[r] = rows[r]
         \/ /\ r = Run(s)
            /\ \A f \in 1..rows[r].fence, age \in Lags : ~ Lapsed(rows'[r], f, age)
            /\ \/ main[s].pc \in FinishPC /\ Reserved(r, tasks[s][r].fence)
               \/ At(s, "giveUp") /\ Reserved(r, Cur(s).fence)
               \/ Due(s) /\ rows[r].fence = Cur(s).fence
<1>1. /\ SupIInv /\ IInv /\ rows \in [RunIds -> Row] /\ rows[r] \in Row
      /\ Coherent(main[s]) /\ rows[r].fence \in Nat
  BY BoundsAssumption DEF HolderInv, SupIInv, IInv, TypeOK, Row
<1>2. /\ Run(s) \in RunIds /\ Cur(s).run = Run(s) /\ Subject(s).run = Run(s)
  BY <1>1, SubjectRun DEF Run, Cur
<1>3. ASSUME NEW c, c.run \in RunIds, NEW outcome \in Terminal, NEW sealed,
             CommitOutcome(c, outcome, sealed)
      PROVE  \/ rows'[r] = rows[r]
             \/ /\ r = c.run /\ Reserved(r, c.fence)
                /\ \A f \in 1..rows[r].fence, age \in Lags : ~ Lapsed(rows'[r], f, age)
  <2>1. CASE r = c.run
    <3>1. rows'[r].status = outcome /\ Reserved(r, c.fence)
      BY <1>1, <1>3, <2>1 DEF CommitOutcome, MayCommit, Valid, Reserved, Row
    <3> QED
      BY <2>1, <3>1 DEF Lapsed
  <2>2. CASE r # c.run
    BY <1>1, <1>3, <2>2 DEF CommitOutcome
  <2> QED
    BY <2>1, <2>2
<1>4. CASE Commits(s)
  <2>1. PICK outcome \in Terminal, sealed \in BOOLEAN :
          \/ main[s].pc \in {"commit", "lost"} /\ CommitOutcome(Subject(s), outcome, sealed)
          \/ At(s, "giveUp") /\ CommitOutcome(Cur(s), outcome, sealed)
    BY <1>4 DEF Commits
  <2>2. CASE main[s].pc \in {"commit", "lost"} /\ CommitOutcome(Subject(s), outcome, sealed)
    <3>1. main[s].pc \in FinishPC /\ Subject(s).fence = tasks[s][Run(s)].fence
      BY <1>1, <2>2 DEF FinishPC, Coherent, Subject, TaskClaim
    <3> QED
      BY <1>2, <1>3, <2>2, <3>1
  <2>3. CASE At(s, "giveUp") /\ CommitOutcome(Cur(s), outcome, sealed)
    BY <1>2, <1>3, <2>3
  <2> QED
    BY <2>1, <2>2, <2>3
<1>5. CASE HandsBack(s)
  <2>1. CASE r = Run(s)
    <3>1. Due(s) /\ rows[r].fence = Cur(s).fence
      BY <1>1, <1>2, <1>5, <2>1
      DEF HandsBack, RecoverStopped, Recoverable, Due, Lapsed, Reaping, Coherent, At
    <3>2. rows'[r].token = 0
      BY <1>1, <1>2, <1>5, <2>1 DEF HandsBack, RecoverStopped, Set, Row
    <3> QED
      BY <2>1, <3>1, <3>2 DEF Lapsed
  <2>2. CASE r # Run(s)
    BY <1>1, <1>2, <1>5, <2>2 DEF HandsBack, RecoverStopped, Set
  <2> QED
    BY <2>1, <2>2
<1> QED
  BY <1>4, <1>5

-----------------------------------------------------------------------------
(* Threads.                                                                *)

\* What becomes of thread q when it is left at u, unless it claims a run.
Moves(q, u) ==
  /\ Coherent(u)
  /\ Issued(u.cur) /\ \A c \in u.todo : Issued(c)
  /\ Starting(u) => Starting(main[q]) /\ u.cur = Cur(q)
  /\ u.pc \in FinishPC =>
       \/ main[q].pc \in FinishPC /\ u.cur = Cur(q)
       \/ box'[u.cur.run].fence # tasks[q][u.cur.run].fence
       \/ box'[u.cur.run].state # "running"
  /\ Reaping(u) =>
       \/ /\ Reaping(main[q]) /\ u.cur = Cur(q)
          /\ u.age = main[q].age \/ (TimePasses /\ u.age = main[q].age + 1)
       \/ box'[u.cur.run].fence # u.cur.fence
  /\ u.pc = "boot" => /\ u.cur = Cur(q)
                      /\ At(q, "boot") \/ (Mutable(Cur(q)) /\ rows' = rows)

NewClaim(q) ==
  /\ \E r \in RunIds, lag \in Lags :
       /\ Claim(r, lag)
       /\ main' = [main EXCEPT ![q].pc = "work", ![q].job = "undo",
                      ![q].cur = [run |-> r, fence |-> rows[r].fence + 1]]
  /\ UNCHANGED <<tasks, box>>

\* Facts about a thread used in every case below.
LEMMA ThreadFacts ==
  ASSUME HolderInv, NEW s \in Supervisors
  PROVE  /\ main \in [Supervisors -> Thread] /\ main[s] \in Thread
         /\ Coherent(main[s]) /\ Issued(Cur(s)) /\ \A c \in main[s].todo : Issued(c)
         /\ Issued(NoClaim)
         /\ \A c \in Tasks(s) \cup Expired : Issued(c)
<1>1. main \in [Supervisors -> Thread] /\ main[s] \in Thread
  BY DEF HolderInv, SupIInv, SupTypeOK
<1>2. Coherent(main[s]) /\ Issued(Cur(s)) /\ \A c \in main[s].todo : Issued(c)
  BY DEF HolderInv, AllIssued
<1>3. Issued(NoClaim)
  <2>1. 1 \in RunIds /\ rows \in [RunIds -> Row]
    BY BoundsAssumption DEF RunIds, HolderInv, SupIInv, IInv, TypeOK
  <2>2. rows[1].fence \in 0..MaxFence
    BY <2>1 DEF Row
  <2> QED
    BY <2>2, BoundsAssumption DEF NoClaim, Issued
<1>4. \A c \in Tasks(s) : Issued(c)
  BY DEF HolderInv, AllIssued, Tasks, TaskClaim, Issued
<1>5. ASSUME NEW c \in Expired
      PROVE  Issued(c)
  <2>1. c.run \in RunIds /\ rows[c.run].token = c.fence /\ rows[c.run].status \in Active
    BY <1>5 DEF Expired, Claims
  <2>2. rows[c.run].fence = c.fence /\ rows[c.run].fence \in Nat
    BY <2>1, BoundsAssumption DEF HolderInv, SupIInv, IInv, TypeOK, Consistent, Row
  <2> QED
    BY <2>2 DEF Issued
<1> QED
  BY <1>1, <1>2, <1>3, <1>4, <1>5

\* A thread that begins anew, or is sent on to tend or claim.
LEMMA IdleMoves ==
  ASSUME HolderInv, NEW s \in Supervisors, NEW u \in Thread,
         u.pc \in {"off", "top", "tend", "claim"}, u.resume = "tend",
         Issued(u.cur), \A c \in u.todo : Issued(c)
  PROVE  Moves(s, u)
BY DEF Moves, Coherent, Starting, Reaping, StartPC, FinishPC

\* Each statement of the main thread.
LEMMA MainMoves ==
  ASSUME HolderInv, NEW s \in Supervisors, Main(s)
  PROVE  Moves(s, main'[s]) \/ NewClaim(s)
<1> DEFINE t == main[s]
           Goal == Moves(s, main'[s])
<1>1. /\ main \in [Supervisors -> Thread] /\ t \in Thread
      /\ Coherent(t) /\ Issued(t.cur) /\ Issued(NoClaim)
      /\ \A c \in t.todo : Issued(c)
      /\ \A c \in Tasks(s) \cup Expired : Issued(c)
  BY ThreadFacts DEF Cur
<1>2. Cur(s) = t.cur /\ Run(s) = t.cur.run
  BY DEF Cur, Run
<1>3. /\ SupIInv /\ Tasks(s) \subseteq Claims /\ Sound(Fresh) /\ Sound([Fresh EXCEPT !.pc = "off"])
      /\ Sound([Fresh EXCEPT !.pc = "tend"])
  BY TasksAreIssued, FreshIsSound DEF HolderInv, SupIInv, Idle
<1> HIDE DEF t, Goal
<1>4. StepEnds(s) => Goal
  <2>1. Fresh \in Thread /\ Fresh.pc = "top" /\ Fresh.resume = "tend" /\ Fresh.cur = NoClaim /\ Fresh.todo = {}
    BY <1>3 DEF Sound, Fresh
  <2>2. StepEnds(s) => main'[s] = Fresh
    BY <1>1 DEF StepEnds
  <2> QED
    BY <1>1, <2>1, <2>2, IdleMoves DEF Goal
<1>5. Exit(s) => Goal
  <2> DEFINE u == [Fresh EXCEPT !.pc = "off"]
  <2>1. u \in Thread /\ u.pc = "off" /\ u.resume = "tend" /\ u.cur = NoClaim /\ u.todo = {}
    BY <1>3 DEF Sound, Fresh
  <2>2. Exit(s) => main'[s] = u
    BY <1>1 DEF Exit
  <2> QED
    BY <1>1, <2>1, <2>2, IdleMoves DEF Goal
<1>6. Raise(s) => Goal
  <2> DEFINE u == [Fresh EXCEPT !.pc = "tend", !.stopping = TRUE, !.todo = Tasks(s)]
  <2>1. u \in Thread /\ u.pc = "tend" /\ u.resume = "tend" /\ u.cur = NoClaim /\ u.todo = Tasks(s)
    BY <1>3 DEF Sound, Fresh, Thread
  <2>2. Raise(s) /\ ~ Exit(s) => main'[s] = u
    BY <1>1 DEF Raise
  <2> QED
    BY <1>1, <1>5, <2>1, <2>2, IdleMoves DEF Goal
<1>7. TendAll(s) => Goal
  <2> DEFINE u == [t EXCEPT !.pc = IF Tasks(s) = {} THEN "claim" ELSE "tend",
                            !.todo = Tasks(s), !.age = 0, !.resume = "tend"]
  <2>1. 0 \in 0..MaxLag
    BY BoundsAssumption
  <2>2. u \in Thread /\ u.pc \in {"claim", "tend"} /\ u.resume = "tend" /\ u.cur = t.cur
        /\ u.todo = Tasks(s)
    BY <1>1, <1>3, <2>1 DEF Thread, PC
  <2>3. TendAll(s) => main'[s] = u
    BY <1>1 DEF TendAll, t
  <2> HIDE DEF u
  <2> QED
    BY <1>1, <2>2, <2>3, IdleMoves DEF Goal
<1>8. ASSUME NEW pc \in PC, Goto(s, pc)
      PROVE  main'[s] = [t EXCEPT !.pc = pc]
  BY <1>1, <1>8 DEF Goto, t
<1>9. ASSUME NEW outcome \in Terminal, Finish(s, outcome)
      PROVE  main'[s] = [t EXCEPT !.pc = "finish", !.job = "finish", !.verdict = outcome]
  BY <1>1, <1>9 DEF Finish, t
<1>20. /\ t.cur \in [run : RunIds, fence : 0..MaxFence]
       /\ t.pc \notin Idle => t.cur.fence # 0
       /\ \A r \in RunIds : box[r].fence = 0 => box[r].state # "running"
  <2>1. t.cur \in [run : RunIds, fence : 0..MaxFence]
    BY <1>1 DEF Thread
  <2>2. t.pc \notin Idle => t.cur \in Claims
    BY DEF t, HolderInv, SupIInv, CurKnown
  <2>3. \A r \in RunIds : box[r].state = "running" => box[r].fence # 0
    BY DEF HolderInv, Tagged
  <2> QED
    BY <2>1, <2>2, <2>3 DEF Claims, Fences
<1>10. CASE StepBegins(s)
  <2> DEFINE u == [t EXCEPT !.pc = "reap", !.todo = Expired, !.resume = "reapRow"]
  <2>1. TendAll(s) \/ main'[s] = u
    BY <1>1, <1>10 DEF StepBegins, t
  <2>2. u.pc = "reap" /\ u.resume = "reapRow" /\ u.cur = t.cur /\ u.todo = Expired
    BY <1>1 DEF Thread
  <2>3. Moves(s, u)
    BY <1>1, <2>2 DEF Moves, Coherent, Starting, Reaping, StartPC, FinishPC
  <2> QED
    BY <1>7, <2>1, <2>3 DEF Goal
<1>11. CASE ReapNext(s)
  <2>1. ASSUME NEW c \in t.todo,
               main' = [main EXCEPT ![s].pc = "stop", ![s].job = "reap", ![s].cur = c,
                                    ![s].todo = @ \ {c}]
        PROVE  Goal
    <3> DEFINE u == [t EXCEPT !.pc = "stop", !.job = "reap", !.cur = c, !.todo = @ \ {c}]
    <3>1. main'[s] = u
      BY <1>1, <2>1 DEF t
    <3>2. /\ u.pc = "stop" /\ u.job = "reap" /\ u.resume = t.resume /\ u.cur = c
          /\ u.todo = t.todo \ {c}
      BY <1>1 DEF Thread
    <3>3. t.resume = "reapRow"
      BY <1>1, <1>11 DEF ReapNext, At, t, Coherent
    <3>4. Moves(s, u)
      BY <1>1, <3>2, <3>3 DEF Moves, Coherent, Starting, Reaping, StartPC, FinishPC
    <3> QED
      BY <3>1, <3>4 DEF Goal
  <2>2. \/ TendAll(s)
        \/ \E c \in t.todo :
             main' = [main EXCEPT ![s].pc = "stop", ![s].job = "reap", ![s].cur = c,
                                  ![s].todo = @ \ {c}]
    BY <1>11 DEF ReapNext, t
  <2> QED
    BY <1>7, <2>1, <2>2 DEF Goal
<1>30. ASSUME StopFault(s), t.pc \in {"stop", "stopAct"}, t.job \in Job
       PROVE  Goal
  <2>1. CASE t.job = "undo"
    <3>1. main'[s] = [t EXCEPT !.pc = "undone"]
      BY <1>8, <1>30, <2>1 DEF StopFault, t, PC
    <3>2. /\ main'[s].cur = t.cur /\ main'[s].todo = t.todo /\ main'[s].pc = "undone"
          /\ main'[s].job = t.job
      BY <1>1, <3>1 DEF Thread
    <3> QED
      BY <1>1, <1>2, <1>30, <2>1, <3>2
      DEF Goal, t, Moves, Coherent, Starting, Reaping, StartPC, FinishPC
  <2> QED
    BY <1>6, <1>30, <2>1 DEF StopFault, t, Goal
<1>12. CASE StopInspect(s)
  <2>1. t.pc = "stop" /\ t.job \in Job /\ box' = box
    BY <1>1, <1>12 DEF StopInspect, At, t, Thread, outside
  <2>2. /\ t.job = "reap" => t.resume = "reapRow"
        /\ t.cur.fence # 0 /\ t.cur.run \in RunIds
        /\ box[t.cur.run].fence = 0 => box[t.cur.run].state # "running"
    BY <1>1, <1>2, <1>20, <2>1 DEF Coherent, t, Idle
  <2>3. Subject(s).run = t.cur.run
        /\ Subject(s).fence = IF t.job = "finish" THEN tasks[s][t.cur.run].fence ELSE t.cur.fence
    BY <1>2, <1>20 DEF Subject, TaskClaim, t
  <2>9. CASE StopFault(s)
    BY <1>30, <2>1, <2>9 DEF Goal
  <2>10. SUFFICES ASSUME ~ StopFault(s)
                  PROVE  Moves(s, main'[s]) \/ NewClaim(s)
    BY <2>9
  <2>4. \/ /\ box[t.cur.run].fence = 0
           /\ main'[s] = [t EXCEPT !.pc = AfterStop[t.job]]
        \/ /\ box[t.cur.run].fence # Subject(s).fence
           /\ main'[s] = [t EXCEPT !.pc = AfterStale[t.job]]
        \/ \E seen \in BOOLEAN : main'[s] = [t EXCEPT !.pc = "stopAct", !.seen = seen]
    <3>1. AfterStop[t.job] \in PC /\ AfterStale[t.job] \in PC
      BY <2>1 DEF Job, AfterStop, AfterStale, PC
    <3>2. \/ box[t.cur.run].fence = 0 /\ Goto(s, AfterStop[t.job])
          \/ box[t.cur.run].fence # Subject(s).fence /\ Goto(s, AfterStale[t.job])
          \/ \E seen \in BOOLEAN : main' = [main EXCEPT ![s].pc = "stopAct", ![s].seen = seen]
      BY <1>12, <2>3, <2>10 DEF StopInspect, t
    <3> QED
      BY <1>1, <1>8, <3>1, <3>2 DEF t
  <2>5. /\ main'[s].cur = t.cur /\ main'[s].todo = t.todo /\ main'[s].resume = t.resume
        /\ main'[s].age = t.age /\ main'[s].job = t.job
        /\ \/ box[t.cur.run].fence = 0 /\ main'[s].pc = AfterStop[t.job]
           \/ box[t.cur.run].fence # Subject(s).fence /\ main'[s].pc = AfterStale[t.job]
           \/ main'[s].pc = "stopAct"
    BY <1>1, <2>4 DEF Thread
  <2>6. CASE t.job = "reap"
    <3>1. \/ box[t.cur.run].fence = 0 /\ main'[s].pc = "reapTask"
          \/ main'[s].pc = "reap" \/ main'[s].pc = "stopAct"
      BY <2>5, <2>6 DEF AfterStop, AfterStale
    <3> QED
      BY <1>1, <2>1, <2>2, <2>5, <2>6, <3>1
      DEF Goal, Moves, Coherent, Starting, Reaping, StartPC, FinishPC
  <2>7. CASE t.job = "finish"
    <3>1. \/ /\ main'[s].pc = "seal"
             /\ \/ box[t.cur.run].fence = 0
                \/ box[t.cur.run].fence # tasks[s][t.cur.run].fence
          \/ main'[s].pc = "stopAct"
      BY <2>3, <2>5, <2>7 DEF AfterStop, AfterStale
    <3> QED
      BY <1>1, <1>2, <2>1, <2>2, <2>5, <2>7, <3>1
      DEF Goal, t, Moves, Coherent, Starting, Reaping, StartPC, FinishPC
  <2>8. CASE t.job = "undo"
    <3>1. main'[s].pc = "undone" \/ main'[s].pc = "stopAct"
      BY <2>5, <2>8 DEF AfterStop, AfterStale
    <3> QED
      BY <1>1, <1>2, <2>1, <2>5, <2>8, <3>1
      DEF Goal, t, Moves, Coherent, Starting, Reaping, StartPC, FinishPC
  <2> QED
    BY <2>1, <2>6, <2>7, <2>8 DEF Job
<1>13. CASE StopAct(s)
  <2>1. t.pc = "stopAct" /\ t.job \in Job
    BY <1>1, <1>13 DEF StopAct, At, t, Thread
  <2>2. /\ t.job = "reap" => t.resume = "reapRow"
        /\ t.cur.fence # 0 /\ t.cur.run \in RunIds
    BY <1>1, <1>2, <1>20, <2>1 DEF Coherent, t, Idle
  <2>3. Subject(s).fence = IF t.job = "finish" THEN tasks[s][t.cur.run].fence ELSE t.cur.fence
    BY <1>2, <1>20 DEF Subject, TaskClaim, t
  <2>4. \/ StopFault(s)
        \/ /\ Stopped(s)
           /\ \/ box'[t.cur.run].fence # Subject(s).fence
              \/ box'[t.cur.run] = NoBox
    <3>1. box \in [RunIds -> [fence : 0..MaxFence,
                              state : {"none", "created", "running", "exited"}]]
      BY <1>3 DEF SupIInv, SupTypeOK
    <3> QED
      BY <1>2, <1>13, <2>2, <3>1 DEF StopAct, Pinned
  <2>5. CASE StopFault(s)
    BY <1>30, <2>1, <2>5 DEF Goal
  <2>6. CASE /\ Stopped(s)
             /\ \/ box'[t.cur.run].fence # Subject(s).fence
                \/ box'[t.cur.run] = NoBox
    <3>1. main'[s] = [t EXCEPT !.pc = AfterStop[t.job], !.seen = FALSE]
      BY <1>1, <2>6 DEF Stopped, t
    <3>2. /\ main'[s].cur = t.cur /\ main'[s].todo = t.todo /\ main'[s].resume = t.resume
          /\ main'[s].age = t.age /\ main'[s].job = t.job /\ main'[s].pc = AfterStop[t.job]
      BY <1>1, <3>1 DEF Thread
    <3>3. \/ box'[t.cur.run].fence # Subject(s).fence
          \/ box'[t.cur.run].fence = 0 /\ box'[t.cur.run].state # "running"
      BY <2>6 DEF NoBox
    <3>4. CASE t.job = "reap"
      <4>1. main'[s].pc = "reapTask" /\ box'[t.cur.run].fence # t.cur.fence
        BY <2>2, <2>3, <3>2, <3>3, <3>4 DEF AfterStop
      <4> QED
        BY <1>1, <2>1, <2>2, <3>2, <3>4, <4>1
        DEF Goal, Moves, Coherent, Starting, Reaping, StartPC, FinishPC
    <3>5. CASE t.job = "finish"
      <4>1. main'[s].pc = "seal"
        BY <3>2, <3>5 DEF AfterStop
      <4> QED
        BY <1>1, <1>2, <2>1, <2>3, <3>2, <3>3, <3>5, <4>1
        DEF Goal, t, Moves, Coherent, Starting, Reaping, StartPC, FinishPC
    <3>6. CASE t.job = "undo"
      <4>1. main'[s].pc = "undone"
        BY <3>2, <3>6 DEF AfterStop
      <4> QED
        BY <1>1, <1>2, <2>1, <3>2, <3>6, <4>1
        DEF Goal, t, Moves, Coherent, Starting, Reaping, StartPC, FinishPC
    <3> QED
      BY <2>1, <3>4, <3>5, <3>6 DEF Job
  <2> QED
    BY <2>4, <2>5, <2>6
<1>14. CASE ReapTask(s)
  <2>1. t.pc = "reapTask"
    BY <1>14 DEF ReapTask, At, t
  <2>2. \/ main'[s] = [t EXCEPT !.pc = "finish", !.job = "finish", !.verdict = "cancelled"]
        \/ main'[s] = [t EXCEPT !.pc = "reapRow"]
    BY <1>8, <1>9, <1>14 DEF ReapTask, PC, Terminal
  <2>3. /\ main'[s].cur = t.cur /\ main'[s].todo = t.todo /\ main'[s].resume = t.resume
        /\ main'[s].age = t.age
        /\ \/ main'[s].pc = "finish" /\ main'[s].job = "finish"
           \/ main'[s].pc = "reapRow" /\ main'[s].job = t.job
    BY <1>1, <2>2 DEF Thread
  <2> QED
    BY <1>1, <1>2, <2>1, <2>3 DEF Goal, t, Moves, Coherent, Starting, Reaping, StartPC, FinishPC
<1>15. CASE ReapRow(s)
  <2>1. t.pc = "reapRow"
    BY <1>15 DEF ReapRow, At, t
  <2>2. main'[s] = [t EXCEPT !.pc = "reap", !.cur = NoClaim]
    BY <1>1, <1>15 DEF ReapRow, t
  <2>3. /\ main'[s].pc = "reap" /\ main'[s].cur = NoClaim /\ main'[s].todo = t.todo
        /\ main'[s].resume = t.resume /\ main'[s].job = t.job
    BY <1>1, <2>2 DEF Thread
  <2> QED
    BY <1>1, <1>2, <2>1, <2>3 DEF Goal, t, Moves, Coherent, Starting, Reaping, StartPC, FinishPC
<1>16. ASSUME NEW pc \in PC, Goto(s, pc)
       PROVE  /\ main'[s].pc = pc
              /\ main'[s].cur = t.cur /\ main'[s].todo = t.todo /\ main'[s].resume = t.resume
              /\ main'[s].age = t.age /\ main'[s].job = t.job
  BY <1>1, <1>8, <1>16 DEF Thread
<1>17. ASSUME NEW outcome \in Terminal, Finish(s, outcome)
       PROVE  /\ main'[s].pc = "finish" /\ main'[s].job = "finish"
              /\ main'[s].cur = t.cur /\ main'[s].todo = t.todo /\ main'[s].resume = t.resume
  BY <1>1, <1>9, <1>17 DEF Thread
<1>18. CASE TendNext(s)
  <2>1. t.pc = "tend" /\ t.resume = "tend"
    BY <1>1, <1>18 DEF TendNext, At, t, Coherent
  <2>2. \/ Exit(s) \/ Goto(s, "claim")
        \/ \E c \in t.todo :
             \/ main' = [main EXCEPT ![s].pc = "finish", ![s].job = "finish", ![s].cur = c,
                                     ![s].todo = @ \ {c}, ![s].verdict = "cancelled"]
             \/ main' = [main EXCEPT ![s].pc = "beat", ![s].cur = c, ![s].todo = @ \ {c}]
    BY <1>18 DEF TendNext, t
  <2>3. ASSUME NEW c \in t.todo,
               \/ main' = [main EXCEPT ![s].pc = "finish", ![s].job = "finish", ![s].cur = c,
                                       ![s].todo = @ \ {c}, ![s].verdict = "cancelled"]
               \/ main' = [main EXCEPT ![s].pc = "beat", ![s].cur = c, ![s].todo = @ \ {c}]
        PROVE  Goal
    <3>1. /\ main'[s].cur = c /\ main'[s].todo = t.todo \ {c} /\ main'[s].resume = t.resume
          /\ \/ main'[s].pc = "finish" /\ main'[s].job = "finish"
             \/ main'[s].pc = "beat"
      BY <1>1, <2>3 DEF Thread, t
    <3> QED
      BY <1>1, <2>1, <3>1 DEF Goal, Moves, Coherent, Starting, Reaping, StartPC, FinishPC
  <2>4. CASE Goto(s, "claim")
    <3>1. /\ main'[s].pc = "claim" /\ main'[s].cur = t.cur /\ main'[s].todo = t.todo
      BY <1>16, <2>4 DEF PC
    <3> QED
      BY <1>1, <3>1 DEF Goal, Moves, Coherent, Starting, Reaping, StartPC, FinishPC
  <2> QED
    BY <1>5, <2>2, <2>3, <2>4 DEF Goal
<1>19. CASE Beat(s) \/ Look(s) \/ Watch(s)
  <2>1. t.pc \in {"beat", "look", "watch"} /\ t.resume = "tend"
    BY <1>1, <1>19 DEF Beat, Look, Watch, At, t, Coherent
  <2>2. tasks[s][Run(s)].outcome \in Terminal \cup {"none"}
    BY <1>3, SubjectRun DEF SupIInv, SupTypeOK
  <2>3. \/ Goto(s, "look") \/ Goto(s, "watch") \/ Goto(s, "tend")
        \/ \E outcome \in Terminal : Finish(s, outcome)
        \/ Raise(s)
    BY <1>19, <2>2 DEF Beat, Look, Watch, Terminal
  <2>4. ASSUME NEW pc \in {"look", "watch", "tend"}, Goto(s, pc)
        PROVE  Goal
    <3>1. /\ main'[s].pc = pc /\ main'[s].cur = t.cur /\ main'[s].todo = t.todo
          /\ main'[s].resume = t.resume
      BY <1>16, <2>4 DEF PC
    <3> QED
      BY <1>1, <2>1, <3>1 DEF Goal, Moves, Coherent, Starting, Reaping, StartPC, FinishPC
  <2>5. ASSUME NEW outcome \in Terminal, Finish(s, outcome)
        PROVE  Goal
    BY <1>1, <1>17, <2>1, <2>5 DEF Goal, Moves, Coherent, Starting, Reaping, StartPC, FinishPC
  <2> QED
    BY <1>6, <2>3, <2>4, <2>5 DEF Goal
<1>21. CASE FinishBegins(s)
  <2>1. t.pc = "finish" /\ t.job = "finish"
    BY <1>1, <1>21 DEF FinishBegins, At, t, Coherent
  <2>2. \/ main'[s] = [t EXCEPT !.pc = "stop"]
        \/ main'[s] = [t EXCEPT !.pc = "stop", !.verdict = "failed"]
    BY <1>1, <1>8, <1>21 DEF FinishBegins, t, PC
  <2>3. /\ main'[s].cur = t.cur /\ main'[s].todo = t.todo /\ main'[s].resume = t.resume
        /\ main'[s].age = t.age /\ main'[s].job = t.job /\ main'[s].pc = "stop"
    BY <1>1, <2>2 DEF Thread
  <2> QED
    BY <1>1, <1>2, <2>1, <2>3 DEF Goal, t, Moves, Coherent, Starting, Reaping, StartPC, FinishPC
<1>22. CASE Seal(s) \/ CommitStep(s) \/ CommitCancelled(s)
  <2>1. t.pc \in {"seal", "commit", "lost"}
    BY <1>22 DEF Seal, CommitStep, CommitCancelled, At, t
  <2>2. \/ \E sealed \in BOOLEAN :
             main'[s] = [t EXCEPT !.pc = "commit", !.sealed = sealed,
                           !.verdict = IF @ = "succeeded" /\ ~ sealed THEN "failed" ELSE @]
        \/ main'[s] = [t EXCEPT !.pc = "clean"]
        \/ main'[s] = [t EXCEPT !.pc = "lost"]
        \/ main'[s] = [t EXCEPT !.verdict = "failed", !.sealed = FALSE]
    <3>1. CASE Seal(s)
      BY <1>1, <3>1 DEF Seal, t
    <3>2. CASE CommitStep(s)
      BY <1>1, <1>8, <3>2 DEF CommitStep, t, PC
    <3>3. CASE CommitCancelled(s)
      BY <1>8, <3>3 DEF CommitCancelled, PC
    <3> QED
      BY <1>22, <3>1, <3>2, <3>3
  <2>3. /\ main'[s].cur = t.cur /\ main'[s].todo = t.todo /\ main'[s].resume = t.resume
        /\ main'[s].age = t.age /\ main'[s].job = t.job
        /\ main'[s].pc \in {t.pc, "commit", "clean", "lost"}
    BY <1>1, <2>2 DEF Thread
  <2> QED
    BY <1>1, <1>2, <2>1, <2>3 DEF Goal, t, Moves, Coherent, Starting, Reaping, StartPC, FinishPC
<1>23. CASE Clean(s)
  <2>1. t.pc = "clean" /\ t.job = "finish" /\ t.resume \in {"reapRow", "tend"}
    BY <1>1, <1>23 DEF Clean, At, t, Coherent, FinishPC, Thread
  <2>2. main'[s] = [t EXCEPT !.pc = t.resume, !.job = "reap", !.verdict = "failed",
                             !.sealed = FALSE]
    BY <1>1, <1>23 DEF Clean, t
  <2>3. /\ main'[s].cur = t.cur /\ main'[s].todo = t.todo /\ main'[s].resume = t.resume
        /\ main'[s].age = t.age /\ main'[s].job = "reap" /\ main'[s].pc = t.resume
    BY <1>1, <2>2 DEF Thread
  <2> QED
    BY <1>1, <1>2, <2>1, <2>3 DEF Goal, t, Moves, Coherent, Starting, Reaping, StartPC, FinishPC
<1>24. CASE ClaimNext(s)
  BY <1>4, <1>24 DEF ClaimNext, NewClaim, Goal, outside
<1>25. ASSUME Starting(t), NEW pc \in (StartPC \ {"boot"}) \cup {"stop"}, t.job = "undo",
              Goto(s, pc)
       PROVE  Goal
  <2>1. /\ main'[s].pc = pc /\ main'[s].cur = t.cur /\ main'[s].todo = t.todo
        /\ main'[s].job = t.job
    BY <1>16, <1>25 DEF PC, StartPC
  <2> QED
    BY <1>1, <1>2, <1>25, <2>1 DEF Goal, t, Moves, Coherent, Starting, Reaping, StartPC, FinishPC
<1>26. t.pc \in StartPC => Starting(t) /\ t.job = "undo"
  BY <1>1 DEF Starting, Coherent
<1>27. CASE Work(s) \/ Mkdir(s) \/ Bind(s) \/ Prepare(s) \/ Check(s)
  <2>1. t.pc \in StartPC
    BY <1>27 DEF Work, Mkdir, Bind, Prepare, Check, At, t, StartPC
  <2> QED
    BY <1>25, <1>26, <1>27, <2>1 DEF Work, Mkdir, Bind, Prepare, Check, StartPC, Goal
<1>28. CASE Create(s) \/ Boot(s) \/ Undone(s) \/ GiveUp(s)
  <2>1. t.pc \in StartPC
    BY <1>28 DEF Create, Boot, Undone, GiveUp, At, t, StartPC
  <2> QED
    BY <1>4, <1>25, <1>26, <1>28, <2>1 DEF Create, Boot, Undone, GiveUp, StartPC, Goal
<1>29. CASE Check2(s)
  <2>1. t.pc = "check2" /\ t.pc \in StartPC /\ rows' = rows
    BY <1>29 DEF Check2, At, t, StartPC, repo
  <2>2. CASE Goto(s, "stop")
    BY <1>25, <1>26, <2>1, <2>2 DEF Goal
  <2>3. CASE Goto(s, "boot") /\ Mutable(Cur(s))
    <3>1. /\ main'[s].pc = "boot" /\ main'[s].cur = t.cur /\ main'[s].todo = t.todo
          /\ main'[s].job = t.job
      BY <1>16, <2>3 DEF PC
    <3> QED
      BY <1>1, <1>2, <1>26, <2>1, <2>3, <3>1
      DEF Goal, t, Moves, Coherent, Starting, Reaping, StartPC, FinishPC
  <2> QED
    BY <1>29, <2>2, <2>3 DEF Check2, Cancelled
<1> QED
  BY <1>10, <1>11, <1>12, <1>13, <1>14, <1>15, <1>18, <1>19, <1>21, <1>22, <1>23, <1>24,
     <1>27, <1>28, <1>29 DEF Main, Goal

\* A thread that does not move.
LEMMA StayMoves ==
  ASSUME HolderInv, NEW q \in Supervisors, main'[q] = main[q]
  PROVE  Moves(q, main'[q])
<1>1. Coherent(main[q]) /\ Issued(Cur(q)) /\ \A c \in main[q].todo : Issued(c)
  BY ThreadFacts
<1> QED
  BY <1>1 DEF Moves, Cur, At

\* The main thread of one supervisor does not move another's.
LEMMA OthersStay ==
  ASSUME NEW s \in Supervisors, Main(s), NEW q \in Supervisors \ {s},
         main \in [Supervisors -> Thread]
  PROVE  main'[q] = main[q]
<1>1. (\E pc : Goto(s, pc)) \/ StepEnds(s) \/ Exit(s) \/ Raise(s)
        \/ (\E outcome : Finish(s, outcome)) \/ TendAll(s) \/ StopFault(s) \/ Stopped(s)
        => main'[q] = main[q]
  BY DEF Goto, StepEnds, Exit, Raise, Finish, TendAll, StopFault, Stopped
<1>2. CASE StepBegins(s)
  BY <1>1, <1>2 DEF StepBegins
<1>3. CASE ReapNext(s)
  BY <1>1, <1>3 DEF ReapNext
<1>4. CASE StopInspect(s)
  BY <1>1, <1>4 DEF StopInspect
<1>5. CASE StopAct(s)
  BY <1>1, <1>5 DEF StopAct
<1>6. CASE ReapTask(s) \/ ReapRow(s)
  BY <1>1, <1>6 DEF ReapTask, ReapRow
<1>7. CASE TendNext(s)
  BY <1>1, <1>7 DEF TendNext
<1>8. CASE Beat(s) \/ Look(s) \/ Watch(s)
  BY <1>1, <1>8 DEF Beat, Look, Watch
<1>9. CASE FinishBegins(s) \/ Seal(s) \/ CommitStep(s) \/ CommitCancelled(s) \/ Clean(s)
  BY <1>1, <1>9 DEF FinishBegins, Seal, CommitStep, CommitCancelled, Clean
<1>10. CASE ClaimNext(s) \/ Work(s) \/ Mkdir(s) \/ Bind(s) \/ Prepare(s) \/ Check(s)
  BY <1>1, <1>10 DEF ClaimNext, Work, Mkdir, Bind, Prepare, Check
<1>11. CASE Create(s) \/ Check2(s) \/ Boot(s) \/ Undone(s) \/ GiveUp(s)
  BY <1>1, <1>11 DEF Create, Check2, Boot, Undone, GiveUp
<1> QED
  BY <1>2, <1>3, <1>4, <1>5, <1>6, <1>7, <1>8, <1>9, <1>10, <1>11 DEF Main

\* Whatever step is taken, every thread moves like this or claims a run.
LEMMA EveryMove ==
  ASSUME HolderInv, [SupNext]_vars, NEW q \in Supervisors
  PROVE  Moves(q, main'[q]) \/ NewClaim(q)
<1>1. /\ main \in [Supervisors -> Thread] /\ main[q] \in Thread
      /\ Coherent(main[q]) /\ Issued(Cur(q)) /\ Issued(NoClaim)
      /\ \A c \in main[q].todo : Issued(c)
      /\ \A c \in Tasks(q) : Issued(c)
  BY ThreadFacts
<1>2. ASSUME NEW s \in Supervisors, Main(s)
      PROVE  Moves(q, main'[q]) \/ NewClaim(q)
  <2>1. CASE s = q
    BY <1>2, <2>1, MainMoves
  <2>2. CASE s # q
    BY <1>1, <1>2, <2>2, OthersStay, StayMoves
  <2> QED
    BY <2>1, <2>2
<1>3. ASSUME NEW s \in Supervisors, StopAsked(s) \/ Crash(s) \/ Restart(s)
      PROVE  Moves(q, main'[q])
  <2>1. CASE s # q
    <3>1. main'[q] = main[q]
      BY <1>1, <1>3, <2>1 DEF StopAsked, Crash, Restart, Exit
    <3> QED
      BY <3>1, StayMoves
  <2>2. CASE s = q
    <3>1. Sound(Fresh) /\ Sound([Fresh EXCEPT !.pc = "off"]) /\ Tasks(q) \subseteq Claims
      BY FreshIsSound, TasksAreIssued DEF Idle, HolderInv, SupIInv
    <3>2. CASE Crash(s) \/ Restart(s)
      <4>1. main'[q] \in {Fresh, [Fresh EXCEPT !.pc = "off"]}
        BY <1>1, <2>2, <3>2 DEF Crash, Restart, Exit
      <4>2. /\ main'[q] \in Thread /\ main'[q].pc \in {"off", "top"}
            /\ main'[q].resume = "tend" /\ main'[q].cur = NoClaim /\ main'[q].todo = {}
        <5>1. ASSUME NEW u \in {Fresh, [Fresh EXCEPT !.pc = "off"]}
              PROVE  /\ u \in Thread /\ u.pc \in {"off", "top"}
                     /\ u.resume = "tend" /\ u.cur = NoClaim /\ u.todo = {}
          <6>1. u = Fresh \/ u = [Fresh EXCEPT !.pc = "off"]
            OBVIOUS
          <6>2. u \in Thread
            BY <3>1, <6>1 DEF Sound
          <6> QED
            BY <6>1, <6>2 DEF Fresh
        <5> QED
          BY <4>1, <5>1
      <4> QED
        BY <1>1, <4>2, IdleMoves
    <3>3. CASE StopAsked(s)
      <4>1. main'[q] = [main[q] EXCEPT !.pc = "tend", !.stopping = TRUE, !.todo = Tasks(q)]
        BY <1>1, <2>2, <3>3 DEF StopAsked
      <4>2. main[q].resume = "tend"
        BY <1>1, <2>2, <3>3 DEF StopAsked, At, Coherent
      <4>3. /\ main'[q] \in Thread /\ main'[q].pc = "tend" /\ main'[q].resume = "tend"
            /\ main'[q].cur = Cur(q) /\ main'[q].todo = Tasks(q)
        <5>1. Tasks(q) \subseteq Claims /\ main[q].resume = "tend"
          BY <3>1, <4>2
        <5> DEFINE u == [main[q] EXCEPT !.pc = "tend", !.stopping = TRUE, !.todo = Tasks(q)]
        <5>2. u \in Thread
          BY <1>1, <5>1 DEF Thread, PC
        <5>3. u.pc = "tend" /\ u.resume = main[q].resume /\ u.cur = Cur(q) /\ u.todo = Tasks(q)
          BY <1>1 DEF Thread, Cur
        <5> QED
          BY <4>1, <5>1, <5>2, <5>3
      <4> QED
        BY <1>1, <4>3, IdleMoves
    <3> QED
      BY <1>3, <3>2, <3>3
  <2> QED
    BY <2>1, <2>2
<1>4. CASE TimePasses
  <2>1. main'[q] = [main[q] EXCEPT !.age = IF InReap(q) THEN @ + 1 ELSE @]
    BY <1>4 DEF TimePasses
  <2>2. /\ main'[q].pc = main[q].pc /\ main'[q].job = main[q].job /\ main'[q].cur = Cur(q)
        /\ main'[q].todo = main[q].todo /\ main'[q].resume = main[q].resume
        /\ main'[q].age \in {main[q].age, main[q].age + 1}
    BY <1>1, <2>1 DEF Thread, Cur
  <2>3. Coherent(main'[q]) /\ (Starting(main'[q]) <=> Starting(main[q]))
        /\ (Reaping(main'[q]) <=> Reaping(main[q]))
    BY <1>1, <2>2 DEF Coherent, Starting, Reaping
  <2> QED
    BY <1>1, <1>4, <2>2, <2>3 DEF Moves, At
<1>5. main' = main => Moves(q, main'[q])
  BY StayMoves
<1> QED
  BY <1>2, <1>3, <1>4, <1>5 DEF SupNext, HeartbeatThread, WorkerBoots, WorkerReports,
                                WorkerFinishes, WorkerDies, Client, vars

-----------------------------------------------------------------------------
(* Containers and tasks.                                                   *)

BoxKept(r) == /\ box'[r].fence \in {0, box[r].fence}
              /\ box'[r].state = "running" => /\ box[r].state = "running"
                                              /\ box'[r].fence = box[r].fence

Created(s, r) == /\ At(s, "create") /\ r = Run(s)
                 /\ box'[r].fence = Cur(s).fence /\ box'[r].state = "created"

\* Started, and registered as a task unless Docker's answer is lost.
Booted(s, r) == /\ At(s, "boot") /\ r = Run(s)
                /\ DockerFaults \/ main'[s] = Fresh
                /\ box[r].fence = Cur(s).fence /\ box'[r].fence = Cur(s).fence
                /\ rows' = rows

\* A container starts running in Boot only.
LEMMA BoxStep ==
  ASSUME SupIInv, [SupNext]_vars, NEW r \in RunIds
  PROVE  BoxKept(r) \/ \E s \in Supervisors : Created(s, r) \/ Booted(s, r)
<1>1. /\ box \in [RunIds -> [fence : 0..MaxFence,
                             state : {"none", "created", "running", "exited"}]]
      /\ main \in [Supervisors -> Thread]
  BY DEF SupIInv, SupTypeOK
<1>2. ASSUME UNCHANGED box
      PROVE  BoxKept(r)
  BY <1>2 DEF BoxKept
<1>3. ASSUME NEW s \in Supervisors, Main(s)
      PROVE  BoxKept(r) \/ Created(s, r) \/ Booted(s, r)
  <2>1. Run(s) \in RunIds /\ Cur(s).run = Run(s)
    BY SubjectRun DEF Run, Cur
  <2>2. CASE StopAct(s)
    <3>1. UNCHANGED box \/ box' = [box EXCEPT ![Run(s)] = NoBox]
      BY <2>2 DEF StopAct
    <3> QED
      BY <1>1, <1>2, <3>1 DEF NoBox, BoxKept
  <2>3. CASE Create(s)
    <3>1. \/ UNCHANGED box
          \/ box' = [box EXCEPT ![Run(s)] = [fence |-> Cur(s).fence, state |-> "created"]]
      BY <2>3 DEF Create
    <3>2. At(s, "create")
      BY <2>3 DEF Create
    <3> QED
      BY <1>1, <1>2, <2>1, <3>1, <3>2 DEF BoxKept, Created
  <2>4. CASE Boot(s)
    <3>1. \/ UNCHANGED box
          \/ /\ box[Run(s)].fence = Cur(s).fence /\ (DockerFaults \/ StepEnds(s))
             /\ box' = [box EXCEPT ![Run(s)].state = "running"]
      BY <2>1, <2>4 DEF Boot
    <3>2. At(s, "boot") /\ rows' = rows
      BY <2>4 DEF Boot, repo
    <3>3. StepEnds(s) => main'[s] = Fresh
      BY <1>1 DEF StepEnds
    <3> QED
      BY <1>1, <1>2, <2>1, <3>1, <3>2, <3>3 DEF BoxKept, Booted
  <2>5. CASE \/ StepBegins(s) \/ ReapNext(s) \/ StopInspect(s) \/ ReapTask(s)
             \/ ReapRow(s) \/ TendNext(s) \/ Beat(s) \/ Look(s) \/ Watch(s)
             \/ FinishBegins(s) \/ Seal(s) \/ CommitStep(s) \/ CommitCancelled(s)
             \/ Clean(s)
    <3>1. UNCHANGED box
      BY <2>5 DEF StepBegins, ReapNext, StopInspect, ReapTask, ReapRow, TendNext, Beat,
                  Look, Watch, FinishBegins, Seal, CommitStep, CommitCancelled, Clean, outside
    <3> QED
      BY <1>2, <3>1
  <2>6. CASE \/ ClaimNext(s) \/ Work(s) \/ Mkdir(s) \/ Bind(s) \/ Prepare(s)
             \/ Check(s) \/ Check2(s) \/ Undone(s) \/ GiveUp(s)
    <3>1. UNCHANGED box
      BY <2>6 DEF ClaimNext, Work, Mkdir, Bind, Prepare, Check, Check2, Undone, GiveUp, outside
    <3> QED
      BY <1>2, <3>1
  <2> QED
    BY <1>3, <2>2, <2>3, <2>4, <2>5, <2>6 DEF Main
<1>4. ASSUME ~ \E s \in Supervisors : Main(s)
      PROVE  box' = box \/ \E q \in RunIds : box' = [box EXCEPT ![q].state = "exited"]
  BY <1>4 DEF SupNext, HeartbeatThread, StopAsked, Crash, Restart, WorkerBoots,
              WorkerReports, WorkerFinishes, WorkerDies, TimePasses, Client, vars,
              outside
<1>5. ASSUME NEW q \in RunIds, box' = [box EXCEPT ![q].state = "exited"]
      PROVE  BoxKept(r)
  BY <1>1, <1>5 DEF BoxKept
<1> QED
  BY <1>2, <1>3, <1>4, <1>5

\* A task is registered in Boot only.
LEMMA TaskStep ==
  ASSUME SupIInv, [SupNext]_vars, NEW o \in Supervisors, NEW r \in RunIds
  PROVE  \/ tasks'[o][r].fence \in {0, tasks[o][r].fence}
         \/ /\ At(o, "boot") /\ r = Run(o) /\ main'[o] = Fresh
            /\ tasks'[o][r].fence = Cur(o).fence
<1> DEFINE Stays == tasks'[o][r].fence \in {0, tasks[o][r].fence}
           Goal == \/ Stays
                   \/ /\ At(o, "boot") /\ r = Run(o) /\ main'[o] = Fresh
                      /\ tasks'[o][r].fence = Cur(o).fence
<1>1. /\ tasks \in [Supervisors -> TaskType] /\ main \in [Supervisors -> Thread]
      /\ tasks[o] \in TaskType /\ tasks[o][r] \in TaskRecord
  BY DEF SupIInv, SupTypeOK, TaskType, TaskRecord
<1>2. ASSUME UNCHANGED tasks
      PROVE  Stays
  BY <1>2
<1>3. ASSUME NEW s \in Supervisors, Exit(s)
      PROVE  Stays
  BY <1>1, <1>3 DEF Exit, NoTask, TaskType
<1>4. ASSUME NEW s \in Supervisors, Main(s)
      PROVE  Goal
  <2>1. Run(s) \in RunIds /\ Cur(s).run = Run(s)
    BY SubjectRun DEF Run, Cur
  <2>2. Raise(s) \/ StopFault(s) => Stays
    BY <1>2, <1>3 DEF Raise, StopFault
  <2>3. CASE StopInspect(s) \/ StopAct(s) \/ Watch(s)
    BY <1>2, <2>2, <2>3 DEF StopInspect, StopAct, Watch
  <2>4. CASE TendNext(s)
    BY <1>2, <1>3, <2>4 DEF TendNext
  <2>5. CASE Clean(s)
    <3>1. tasks' = [tasks EXCEPT ![s][Run(s)] = NoTask]
      BY <2>5 DEF Clean
    <3>2. tasks'[o][r] = tasks[o][r] \/ tasks'[o][r] = NoTask
      BY <1>1, <2>1, <3>1 DEF TaskType
    <3> QED
      BY <3>2 DEF NoTask
  <2>6. CASE Boot(s)
    <3>1. \/ UNCHANGED tasks
          \/ /\ StepEnds(s)
             /\ tasks' = [tasks EXCEPT ![s][Run(s)] = [NoTask EXCEPT !.fence = Cur(s).fence]]
      BY <2>1, <2>6 DEF Boot
    <3>2. At(s, "boot")
      BY <2>6 DEF Boot
    <3>3. StepEnds(s) => main'[s] = Fresh
      BY <1>1 DEF StepEnds
    <3>4. [NoTask EXCEPT !.fence = Cur(s).fence].fence = Cur(s).fence
      BY DEF NoTask
    <3>5. CASE StepEnds(s) /\ tasks' = [tasks EXCEPT ![s][Run(s)] = [NoTask EXCEPT !.fence = Cur(s).fence]]
      <4>1. \/ tasks'[o][r] = tasks[o][r]
            \/ o = s /\ r = Run(s) /\ tasks'[o][r] = [NoTask EXCEPT !.fence = Cur(s).fence]
        BY <1>1, <2>1, <3>5 DEF TaskType
      <4> QED
        BY <3>2, <3>3, <3>4, <3>5, <4>1
    <3> QED
      BY <1>2, <3>1, <3>5
  <2>7. CASE \/ StepBegins(s) \/ ReapNext(s) \/ ReapTask(s) \/ ReapRow(s) \/ Beat(s)
             \/ Look(s) \/ FinishBegins(s) \/ Seal(s) \/ CommitStep(s) \/ CommitCancelled(s)
    BY <1>2, <2>7 DEF StepBegins, ReapNext, ReapTask, ReapRow, Beat, Look, FinishBegins,
                      Seal, CommitStep, CommitCancelled
  <2>8. CASE \/ ClaimNext(s) \/ Work(s) \/ Mkdir(s) \/ Bind(s) \/ Prepare(s)
             \/ Check(s) \/ Create(s) \/ Check2(s) \/ Undone(s) \/ GiveUp(s)
    BY <1>2, <2>8 DEF ClaimNext, Work, Mkdir, Bind, Prepare, Check, Create, Check2,
                      Undone, GiveUp
  <2> QED
    BY <1>4, <2>3, <2>4, <2>5, <2>6, <2>7, <2>8 DEF Main
<1>5. ASSUME NEW s \in Supervisors, NEW q \in RunIds, WorkerReports(s, q) \/ WorkerFinishes(s, q)
      PROVE  Stays
  <2>1. CASE WorkerReports(s, q)
    <3>1. tasks' = [tasks EXCEPT ![s][q].progress = tasks[s][q].progress + 1]
      BY <2>1 DEF WorkerReports
    <3> QED
      BY <1>1, <3>1 DEF TaskType, TaskRecord
  <2>2. CASE WorkerFinishes(s, q)
    <3>1. PICK outcome : tasks' = [tasks EXCEPT ![s][q].outcome = outcome]
      BY <2>2 DEF WorkerFinishes
    <3> QED
      BY <1>1, <3>1 DEF TaskType, TaskRecord
  <2> QED
    BY <1>5, <2>1, <2>2
<1>6. ASSUME NEW s \in Supervisors, Crash(s)
      PROVE  Stays
  BY <1>3, <1>6 DEF Crash
<1> QED
  BY <1>2, <1>4, <1>5, <1>6 DEF SupNext, HeartbeatThread, StopAsked, Restart, WorkerBoots,
     WorkerDies, TimePasses, Client, vars

-----------------------------------------------------------------------------
(* Each part of the invariant is kept.                                     *)

\* Types of what the parts below speak of, before and after a step.
LEMMA StepTypes ==
  ASSUME HolderInv, [SupNext]_vars, NEW q \in Supervisors
  PROVE  /\ SupIInv'
         /\ main[q] \in Thread /\ Run(q) \in RunIds /\ Cur(q).fence \in Nat
         /\ Cur(q) = [run |-> Run(q), fence |-> Cur(q).fence]
         /\ main'[q] \in Thread /\ main'[q].cur.run \in RunIds /\ main'[q].cur.fence \in Nat
         /\ \A r \in RunIds : /\ tasks[q][r].fence \in Nat /\ tasks'[q][r].fence \in Nat
                              /\ box[r].fence \in Nat /\ box'[r].fence \in Nat
                              /\ rows[r] \in Row /\ rows'[r] \in Row
                              /\ rows[r].fence \in Nat /\ rows'[r].fence \in Nat
<1>1. SupIInv /\ SupIInv'
  BY SupNextInv DEF HolderInv
<1>2. main[q] \in Thread /\ main[q].cur \in [run : RunIds, fence : 0..MaxFence]
  BY <1>1 DEF SupIInv, SupTypeOK, Thread
<1>3. main'[q] \in Thread /\ main'[q].cur \in [run : RunIds, fence : 0..MaxFence]
  BY <1>1 DEF SupIInv, SupTypeOK, Thread
<1>4. ASSUME NEW r \in RunIds
      PROVE  /\ tasks[q][r].fence \in Nat /\ tasks'[q][r].fence \in Nat
             /\ box[r].fence \in Nat /\ box'[r].fence \in Nat
  BY <1>1, BoundsAssumption DEF SupIInv, SupTypeOK
<1>5. ASSUME NEW r \in RunIds
      PROVE  /\ rows[r] \in Row /\ rows'[r] \in Row
             /\ rows[r].fence \in Nat /\ rows'[r].fence \in Nat
  BY <1>1, BoundsAssumption DEF SupIInv, IInv, TypeOK, Row
<1> QED
  BY <1>1, <1>2, <1>3, <1>4, <1>5, BoundsAssumption DEF Cur, Run

\* The facts of a claim just issued.
LEMMA ClaimFacts ==
  ASSUME HolderInv, [SupNext]_vars, NEW q \in Supervisors, NewClaim(q)
  PROVE  LET u == main'[q] IN
         /\ u.cur.fence = rows[u.cur.run].fence + 1
         /\ rows'[u.cur.run].fence = u.cur.fence
         /\ u.pc = "work" /\ u.job = "undo" /\ u.resume = main[q].resume
         /\ u.todo = main[q].todo
         /\ \A o \in Supervisors \ {q} : main'[o] = main[o]
         /\ UNCHANGED <<tasks, box>>
<1>1. /\ main \in [Supervisors -> Thread] /\ main[q] \in Thread /\ rows \in [RunIds -> Row]
  BY DEF HolderInv, SupIInv, SupTypeOK, IInv, TypeOK
<1>2. PICK r \in RunIds, lag \in Lags :
        /\ Claim(r, lag)
        /\ main' = [main EXCEPT ![q].pc = "work", ![q].job = "undo",
                      ![q].cur = [run |-> r, fence |-> rows[r].fence + 1]]
  BY DEF NewClaim
<1>3. rows'[r].fence = rows[r].fence + 1
  BY <1>1, <1>2 DEF Claim, Set, Row
<1>4. /\ main'[q].cur = [run |-> r, fence |-> rows[r].fence + 1]
      /\ main'[q].pc = "work" /\ main'[q].job = "undo" /\ main'[q].resume = main[q].resume
      /\ main'[q].todo = main[q].todo
      /\ \A o \in Supervisors \ {q} : main'[o] = main[o]
  BY <1>1, <1>2 DEF Thread
<1>5. UNCHANGED <<tasks, box>>
  BY DEF NewClaim
<1>6. main'[q].cur.run = r /\ main'[q].cur.fence = rows[r].fence + 1
  BY <1>4
<1> QED
  BY <1>3, <1>4, <1>5, <1>6

\* No claim is named before it is issued.
LEMMA IssuedNext ==
  ASSUME HolderInv, [SupNext]_vars
  PROVE  AllIssued'
<1>1. ASSUME NEW q \in Supervisors
      PROVE  /\ main'[q].cur.fence <= rows'[main'[q].cur.run].fence
             /\ \A c \in main'[q].todo : c.fence <= rows'[c.run].fence
  <2>1. main'[q].todo \subseteq Claims /\ main'[q].cur.run \in RunIds /\ main'[q].cur.fence \in Nat
    BY StepTypes DEF Thread
  <2>2. ASSUME NEW c \in Claims, Issued(c)
        PROVE  c.fence <= rows'[c.run].fence
    <3>1. c.run \in RunIds /\ c.fence \in Nat
      BY BoundsAssumption DEF Claims, Fences
    <3> QED
      BY <2>2, <3>1, FencesGrow DEF Issued
  <2>3. CASE Moves(q, main'[q])
    <3>1. main'[q].cur.fence <= rows'[main'[q].cur.run].fence
      BY <2>1, <2>3, FencesGrow DEF Moves, Issued
    <3>2. \A c \in main'[q].todo : Issued(c)
      BY <2>3 DEF Moves
    <3> QED
      BY <2>1, <2>2, <3>1, <3>2
  <2>4. CASE NewClaim(q)
    <3>1. main'[q].cur.fence <= rows'[main'[q].cur.run].fence
      BY <2>1, <2>4, ClaimFacts
    <3>2. \A c \in main'[q].todo : Issued(c)
      BY <2>4, ClaimFacts, ThreadFacts
    <3> QED
      BY <2>1, <2>2, <3>1, <3>2
  <2> QED
    BY <2>3, <2>4, EveryMove
<1>2. ASSUME NEW o \in Supervisors
      PROVE  Cur(o).fence <= rows[Run(o)].fence
  BY DEF HolderInv, AllIssued, Issued, Cur, Run
<1>3. ASSUME NEW q \in Supervisors, NEW r \in RunIds
      PROVE  tasks'[q][r].fence <= rows'[r].fence
  <2>1. tasks[q][r].fence <= rows[r].fence
    BY DEF HolderInv, AllIssued
  <2> QED
    BY <1>2, <2>1, TaskStep, FencesGrow, StepTypes DEF HolderInv
<1>4. ASSUME NEW r \in RunIds
      PROVE  box'[r].fence <= rows'[r].fence
  <2>1. box[r].fence <= rows[r].fence
    BY DEF HolderInv, AllIssued
  <2>2. /\ box[r].fence \in Nat /\ box'[r].fence \in Nat
        /\ rows[r].fence \in Nat /\ rows'[r].fence \in Nat /\ rows[r].fence <= rows'[r].fence
    <3>1. SupIInv /\ SupIInv'
      BY SupNextInv DEF HolderInv
    <3> QED
      BY <3>1, FencesGrow, BoundsAssumption DEF SupIInv, SupTypeOK
  <2>3. CASE BoxKept(r)
    BY <2>1, <2>2, <2>3 DEF BoxKept
  <2>4. ASSUME NEW s \in Supervisors, Created(s, r) \/ Booted(s, r)
        PROVE  box'[r].fence <= rows'[r].fence
    BY <1>2, <2>2, <2>4, StepTypes DEF Created, Booted
  <2> QED
    BY <2>3, <2>4, BoxStep DEF HolderInv
<1> QED
  BY <1>1, <1>3, <1>4 DEF AllIssued, Issued, Cur

\* A container that runs after a step ran before, or has just been started by
\* the thread that was about to.
LEMMA AliveStep ==
  ASSUME HolderInv, [SupNext]_vars, NEW r \in RunIds,
         box'[r].state = "running"
  PROVE  /\ box'[r].fence # 0
         /\ \/ Alive(r, box'[r].fence)
            \/ \E s \in Supervisors : Booted(s, r)
<1>1. SupIInv /\ Tagged
  BY DEF HolderInv
<1>2. CASE BoxKept(r)
  BY <1>1, <1>2 DEF BoxKept, Alive, Tagged
<1>3. ASSUME NEW s \in Supervisors, Created(s, r)
      PROVE  FALSE
  BY <1>3 DEF Created
<1>4. ASSUME NEW s \in Supervisors, Booted(s, r)
      PROVE  box'[r].fence # 0
  <2>1. Cur(s) \in Claims
    BY <1>1, <1>4 DEF Booted, At, SupIInv, CurKnown, Idle, Cur
  <2> QED
    BY <1>4, <2>1 DEF Booted, Claims, Fences
<1> QED
  BY <1>1, <1>2, <1>3, <1>4, BoxStep

\* A thread after its step is starting the claim it was starting, or one that
\* has just been issued.
LEMMA StartingStep ==
  ASSUME HolderInv, [SupNext]_vars, NEW q \in Supervisors,
         Starting(main'[q])
  PROVE  (Starting(main[q]) /\ main'[q].cur = Cur(q)) \/ NewClaim(q)
BY EveryMove DEF Moves

LEMMA StartedByOneNext ==
  ASSUME HolderInv, [SupNext]_vars
  PROVE  StartedByOne'
<1> SUFFICES ASSUME NEW q \in Supervisors, NEW o \in Supervisors, q # o,
                    Starting(main'[q]), Starting(main'[o]), main'[q].cur = main'[o].cur
             PROVE  FALSE
  BY DEF StartedByOne, Cur
<1>1. ASSUME NEW s \in Supervisors, NEW p \in Supervisors, s # p, NewClaim(s),
             main'[s].cur = main'[p].cur
      PROVE  FALSE
  <2>1. main'[p] = main[p] /\ main'[s].cur.fence = rows[main'[s].cur.run].fence + 1
    BY <1>1, ClaimFacts
  <2>2. Cur(p).fence <= rows[Run(p)].fence
    BY DEF HolderInv, AllIssued, Issued, Cur, Run
  <2>3. main'[s].cur.run = Run(p) /\ main'[s].cur.fence = Cur(p).fence
    BY <1>1, <2>1 DEF Cur, Run
  <2> QED
    BY <2>1, <2>2, <2>3, StepTypes
<1>2. CASE NewClaim(q) \/ NewClaim(o)
  BY <1>1, <1>2
<1>3. CASE ~ (NewClaim(q) \/ NewClaim(o))
  <2>1. Starting(main[q]) /\ Starting(main[o]) /\ Cur(q) = Cur(o)
    BY <1>3, StartingStep
  <2> QED
    BY <2>1 DEF HolderInv, StartedByOne
<1> QED
  BY <1>2, <1>3

\* Another thread about to boot the same claim would be this one.
LEMMA BootsIt ==
  ASSUME HolderInv, NEW q \in Supervisors, Starting(main[q]),
         NEW s \in Supervisors, At(s, "boot"),
         Run(s) = Run(q), Cur(s).fence = Cur(q).fence
  PROVE  s = q
<1>1. main[s] \in Thread /\ main[q] \in Thread
  BY ThreadFacts
<1>2. Starting(main[s]) /\ Cur(s) = Cur(q)
  BY <1>1 DEF At, Starting, StartPC, Thread, Cur, Run
<1> QED
  BY <1>2 DEF HolderInv, StartedByOne

\* A result is published by the commit of a task, whose container is gone.
LEMMA ResultStep ==
  ASSUME HolderInv, [SupNext]_vars, NEW r \in RunIds
  PROVE  \/ pointers'[r] = pointers[r]
         \/ \E s \in Supervisors : /\ At(s, "commit") /\ r = Run(s)
                                  /\ pointers'[r] = tasks[s][r].fence
                                  /\ box' = box /\ ~ Alive(r, tasks[s][r].fence)
<1> DEFINE Published(s) == /\ At(s, "commit") /\ r = Run(s)
                           /\ pointers'[r] = tasks[s][r].fence
                           /\ box' = box /\ ~ Alive(r, tasks[s][r].fence)
<1>1. pointers \in [RunIds -> 0..MaxFence] /\ SupIInv
  BY DEF HolderInv, SupIInv, IInv, TypeOK
<1>2. ASSUME NEW c, NEW outcome, CommitOutcome(c, outcome, FALSE)
      PROVE  pointers'[r] = pointers[r]
  BY <1>1, <1>2 DEF CommitOutcome
<1>3. ASSUME NEW s \in Supervisors, Main(s)
      PROVE  pointers'[r] = pointers[r] \/ Published(s)
  <2>1. CASE CommitStep(s)
    <3>1. Subject(s) = TaskClaim(s, Run(s)) /\ Run(s) \in RunIds /\ At(s, "commit")
      BY <1>1, <2>1, SubjectRun DEF CommitStep, At, HolderInv, Coherent, FinishPC, Subject
    <3>2. ~ Alive(Run(s), tasks[s][Run(s)].fence) /\ box' = box
      BY <2>1, <3>1 DEF At, HolderInv, FinishOK, FinishPC, CommitStep
    <3>3. \/ pointers' = pointers
          \/ \E outcome, sealed : CommitOutcome(TaskClaim(s, Run(s)), outcome, sealed)
      BY <2>1, <3>1 DEF CommitStep, repo
    <3>4. ASSUME NEW outcome, NEW sealed, CommitOutcome(TaskClaim(s, Run(s)), outcome, sealed)
          PROVE  \/ pointers'[r] = pointers[r]
                 \/ r = Run(s) /\ pointers'[r] = tasks[s][r].fence
      BY <1>1, <3>1, <3>4 DEF CommitOutcome, TaskClaim
    <3> QED
      BY <3>1, <3>2, <3>3, <3>4
  <2>2. CASE CommitCancelled(s) \/ GiveUp(s)
    BY <1>2, <2>2 DEF CommitCancelled, GiveUp, repo
  <2>3. CASE ReapRow(s) \/ Beat(s) \/ Seal(s) \/ ClaimNext(s) \/ Bind(s)
    BY <2>3 DEF ReapRow, Beat, Seal, ClaimNext, Bind, RecoverStopped, Heartbeat,
                Progress, Claim, BindAttempt, Set, repo
  <2>4. CASE \/ StepBegins(s) \/ ReapNext(s) \/ StopInspect(s) \/ StopAct(s)
             \/ ReapTask(s) \/ Look(s) \/ Watch(s) \/ FinishBegins(s)
    BY <2>4 DEF StepBegins, ReapNext, StopInspect, StopAct, ReapTask, Look, Watch,
                FinishBegins, repo
  <2>5. CASE \/ TendNext(s) \/ Clean(s) \/ Work(s) \/ Mkdir(s) \/ Prepare(s)
             \/ Check(s) \/ Create(s) \/ Check2(s) \/ Boot(s) \/ Undone(s)
    BY <2>5 DEF TendNext, Clean, Work, Mkdir, Prepare, Check, Create, Check2, Boot,
                Undone, repo
  <2> QED
    BY <1>3, <2>1, <2>2, <2>3, <2>4, <2>5 DEF Main
<1>4. CASE ~ \E s \in Supervisors : Main(s)
  <2>1. pointers' = pointers
    BY <1>4 DEF SupNext, HeartbeatThread, StopAsked, Crash, Restart, WorkerBoots,
                WorkerReports, WorkerFinishes, WorkerDies, TimePasses, Client, Tick,
                Heartbeat, Running, Progress, Submit, RequestCancel, Insert, Set,
                vars, repo
  <2> QED
    BY <2>1
<1> QED
  BY <1>3, <1>4

LEMMA StartNewNext ==
  ASSUME HolderInv, [SupNext]_vars, NEW q \in Supervisors
  PROVE  StartNew(q)'
<1> DEFINE r == main'[q].cur.run
           f == main'[q].cur.fence
<1> SUFFICES ASSUME Starting(main'[q])
             PROVE  /\ pointers'[r] # f
                    /\ \A o \in Supervisors : tasks'[o][r].fence # f
  BY DEF StartNew, Run, Cur
<1>1. r \in RunIds /\ f \in Nat
  BY StepTypes
<1>2. CASE NewClaim(q)
  <2>1. f = rows[r].fence + 1 /\ UNCHANGED <<tasks, box>> /\ pointers' = pointers
    BY <1>2, ClaimFacts DEF NewClaim, Claim, Set
  <2>2. \A o \in Supervisors : tasks[o][r].fence <= rows[r].fence
    BY <1>1 DEF HolderInv, AllIssued
  <2>3. pointers[r] = 0 \/ pointers[r] = rows[r].fence
    BY <1>1 DEF HolderInv, SupIInv, IInv, ResultOfWinner
  <2>4. /\ rows[r].fence \in Nat
        /\ \A o \in Supervisors : tasks[o][r].fence \in Nat
    BY <1>1, StepTypes
  <2>5. pointers[r] # f /\ \A o \in Supervisors : tasks[o][r].fence # f
    BY <2>1, <2>2, <2>3, <2>4
  <2> QED
    BY <2>1, <2>5
<1>3. CASE Starting(main[q]) /\ main'[q].cur = Cur(q)
  <2>1. r = Run(q) /\ f = Cur(q).fence
    BY <1>3 DEF Run, Cur
  <2>2. pointers[r] # f /\ \A o \in Supervisors : tasks[o][r].fence # f
    BY <1>3, <2>1 DEF HolderInv, StartNew
  <2>3. ASSUME NEW s \in Supervisors, At(s, "boot"), Run(s) = r, Cur(s).fence = f,
               main'[s] = Fresh
        PROVE  FALSE
    <3>1. s = q
      BY <1>3, <2>1, <2>3, BootsIt
    <3> QED
      BY <2>3, <3>1 DEF Fresh, Starting, StartPC
  <2>4. f # 0
    <3>1. main[q].pc \notin Idle
      BY <1>3 DEF Starting, StartPC, Idle
    <3>2. Cur(q) \in Claims
      BY <3>1 DEF HolderInv, SupIInv, CurKnown, Cur
    <3> QED
      BY <2>1, <3>2 DEF Claims, Fences
  <2>5. ASSUME NEW o \in Supervisors, tasks'[o][r].fence = f
        PROVE  FALSE
    BY <1>1, <2>2, <2>3, <2>4, <2>5, TaskStep DEF HolderInv
  <2>6. pointers'[r] # f
    BY <1>1, <2>2, ResultStep
  <2> QED
    BY <2>5, <2>6
<1> QED
  BY <1>2, <1>3, StartingStep

LEMMA StartOKNext ==
  ASSUME ~ DockerFaults, HolderInv, ReservedInv, [SupNext]_vars, NEW q \in Supervisors
  PROVE  StartOK(q)'
<1> DEFINE r == main'[q].cur.run
           f == main'[q].cur.fence
<1> SUFFICES ASSUME Starting(main'[q]), box'[r].state = "running", box'[r].fence = f
             PROVE  FALSE
  BY DEF StartOK, Alive, Run, Cur
<1>1. r \in RunIds /\ f \in Nat
  BY StepTypes
<1>2. CASE NewClaim(q)
  <2>1. f = rows[r].fence + 1 /\ UNCHANGED <<tasks, box>>
    BY <1>2, ClaimFacts
  <2>2. box[r].fence <= rows[r].fence
    BY <1>1 DEF HolderInv, AllIssued
  <2>3. rows[r].fence \in Nat /\ box[r].fence \in Nat
    BY <1>1, StepTypes
  <2> QED
    BY <2>1, <2>2, <2>3
<1>3. CASE Starting(main[q]) /\ main'[q].cur = Cur(q)
  <2>1. r = Run(q) /\ f = Cur(q).fence
    BY <1>3 DEF Run, Cur
  <2>2. ~ Alive(r, f)
    BY <1>3, <2>1 DEF ReservedInv, StartOK
  <2>3. ASSUME NEW s \in Supervisors, Booted(s, r)
        PROVE  FALSE
    <3>1. s = q
      BY <1>3, <2>1, <2>3, BootsIt DEF Booted
    <3> QED
      BY <2>3, <3>1 DEF Booted, Fresh, Starting, StartPC
  <2> QED
    BY <1>1, <2>2, <2>3, AliveStep
<1> QED
  BY <1>2, <1>3, StartingStep

LEMMA FinishOKNext ==
  ASSUME HolderInv, [SupNext]_vars, NEW q \in Supervisors
  PROVE  FinishOK(q)'
<1> DEFINE r == main'[q].cur.run
<1> SUFFICES ASSUME main'[q].pc \in FinishPC, box'[r].state = "running",
                    box'[r].fence = tasks'[q][r].fence
             PROVE  FALSE
  BY DEF FinishOK, Alive, Run, Cur
<1>1. r \in RunIds
  BY StepTypes
<1>2. box'[r].fence # 0
  BY <1>1, AliveStep
<1>3. tasks'[q][r].fence = tasks[q][r].fence
  <2>1. main'[q] # Fresh
    BY DEF Fresh, FinishPC
  <2> QED
    BY <1>1, <1>2, <2>1, TaskStep DEF HolderInv
<1>4. ~ NewClaim(q)
  BY ClaimFacts DEF FinishPC
<1>5. main[q].pc \in FinishPC /\ main'[q].cur = Cur(q)
  BY <1>3, <1>4, EveryMove DEF Moves
<1>6. ~ Alive(r, tasks[q][r].fence)
  BY <1>5 DEF HolderInv, FinishOK, Run, Cur
<1>7. ASSUME NEW s \in Supervisors, Booted(s, r)
      PROVE  FALSE
  <2>1. Starting(main[s]) /\ r = Run(s) /\ tasks[q][r].fence = Cur(s).fence
    BY <1>3, <1>7 DEF Booted, At, Starting, StartPC
  <2> QED
    BY <2>1 DEF HolderInv, StartNew
<1> QED
  BY <1>1, <1>3, <1>6, <1>7, AliveStep

\* A row that may still be handed back could be before the step, or the thread
\* has just found the container gone.
LEMMA DueStep ==
  ASSUME ~ DockerFaults, ClocksAreFresh, HolderInv, ReservedInv, [SupNext]_vars,
         NEW q \in Supervisors, Due(q)'
  PROVE  \/ Due(q) /\ main'[q].cur = Cur(q) /\ Cur(q).fence # 0
         \/ box'[main'[q].cur.run].fence # main'[q].cur.fence
<1> DEFINE r == main'[q].cur.run
           f == main'[q].cur.fence
<1> SUFFICES ASSUME box'[r].fence = f
             PROVE  Due(q) /\ main'[q].cur = Cur(q) /\ Cur(q).fence # 0
  OBVIOUS
<1>1. Reaping(main'[q]) /\ Lapsed(rows'[r], f, main'[q].age)
  BY DEF Due, Run, Cur
<1>2. ~ NewClaim(q)
  BY <1>1, ClaimFacts DEF Reaping, FinishPC
<1>3. /\ Reaping(main[q]) /\ main'[q].cur = Cur(q)
      /\ main'[q].age = main[q].age \/ (TimePasses /\ main'[q].age = main[q].age + 1)
  BY <1>1, <1>2, EveryMove DEF Moves
<1>4. r = Run(q) /\ f = Cur(q).fence
  BY <1>3 DEF Run, Cur
<1>5. r \in RunIds /\ rows[r] \in Row /\ rows[r].fence \in Nat /\ main[q].age \in Lags
  BY <1>4, StepTypes DEF Thread, Lags
<1>6. f \in 1..rows[r].fence /\ f # 0
  <2>1. main[q].pc \notin Idle
    BY <1>3 DEF Reaping, FinishPC, Idle
  <2>2. Cur(q) \in Claims /\ Issued(Cur(q))
    BY <2>1 DEF HolderInv, ReservedInv, SupIInv, CurKnown, Cur, AllIssued
  <2>3. f \in Nat /\ f # 0 /\ f <= rows[r].fence
    BY <1>4, <2>2, BoundsAssumption DEF Claims, Fences, Issued, Run, Cur
  <2> QED
    BY <1>5, <2>3
<1>7. Lapsed(rows[r], f, main[q].age)
  <2>1. CASE TimePasses
    <3>1. main'[q].age = main[q].age + 1
      <4>1. InReap(q)
        BY <1>3 DEF Reaping, InReap
      <4>2. main'[q] = [main[q] EXCEPT !.age = IF InReap(q) THEN @ + 1 ELSE @]
        BY <2>1 DEF TimePasses
      <4> QED
        BY <4>1, <4>2, StepTypes DEF Thread
    <3>2. rows'[r] = [rows[r] EXCEPT !.lease = IF @ > Past THEN @ - 1 ELSE @]
      BY <1>5, <2>1 DEF TimePasses, Tick
    <3> HIDE DEF r, f
    <3>3. /\ rows'[r].token = rows[r].token /\ rows'[r].fence = rows[r].fence
          /\ rows'[r].status = rows[r].status
          /\ rows'[r].lease = IF rows[r].lease > Past THEN rows[r].lease - 1 ELSE rows[r].lease
      BY <1>5, <3>2 DEF Row
    <3>4. rows[r].lease \in Int /\ MaxLag \in Nat /\ main[q].age \in 0..MaxLag
      BY <1>5, BoundsAssumption, LeaseAssumption DEF Row, Past, Lags
    <3>5. rows[r].lease <= -main[q].age
      BY <1>1, <3>1, <3>3, <3>4 DEF Lapsed, Past
    <3> QED
      BY <1>1, <3>3, <3>5 DEF Lapsed
  <2>2. CASE ~ TimePasses
    <3>1. main'[q].age = main[q].age
      BY <1>3, <2>2
    <3>2. CASE [Mild]_repo
      <4>1. RowCalm(r)
        BY <1>5, <3>2, MildIsCalm DEF HolderInv, ReservedInv, SupIInv
      <4> QED
        BY <1>1, <1>5, <1>6, <3>1, <4>1 DEF RowCalm
    <3>3. ASSUME NEW s \in Supervisors, Commits(s) \/ HandsBack(s)
          PROVE  Lapsed(rows[r], f, main[q].age)
      BY <1>1, <1>5, <1>6, <3>1, <3>3, EndingRow
    <3> QED
      BY <2>2, <3>2, <3>3, SystemStep DEF HolderInv, ReservedInv
  <2> QED
    BY <2>1, <2>2
<1> QED
  BY <1>3, <1>4, <1>6, <1>7 DEF Due

LEMMA ReapOKNext ==
  ASSUME ~ DockerFaults, ClocksAreFresh, HolderInv, ReservedInv, [SupNext]_vars,
         NEW q \in Supervisors
  PROVE  ReapOK(q)'
<1> DEFINE r == main'[q].cur.run
           f == main'[q].cur.fence
<1> SUFFICES ASSUME Due(q)', box'[r].fence = f
             PROVE  /\ box'[r].state # "running"
                    /\ \A o \in Supervisors : main'[o].pc = "boot" => main'[o].cur # main'[q].cur
  BY DEF ReapOK, Alive, Run, Cur, At
<1>1. Due(q) /\ main'[q].cur = Cur(q) /\ Cur(q).fence # 0
  BY DueStep
<1>2. r \in RunIds /\ r = Run(q) /\ f = Cur(q).fence
  BY <1>1, StepTypes DEF Run, Cur
<1>3. /\ ~ Alive(r, f)
      /\ \A o \in Supervisors : At(o, "boot") /\ Cur(o) = Cur(q) => box[r].fence # f
  BY <1>1, <1>2 DEF HolderInv, ReservedInv, ReapOK
<1>4. ASSUME NEW s \in Supervisors, At(s, "boot"), Run(s) = r, Cur(s).fence = f,
             box[r].fence = f
      PROVE  FALSE
  <2>1. Cur(s) = Cur(q)
    BY <1>2, <1>4, StepTypes
  <2> QED
    BY <1>3, <1>4, <2>1
<1>5. box'[r].state # "running"
  <2>1. ASSUME NEW s \in Supervisors, Booted(s, r)
        PROVE  FALSE
    BY <1>4, <2>1 DEF Booted
  <2> QED
    BY <1>2, <1>3, <2>1, AliveStep
\* The container would have been there before, or just be created by a thread
\* that is the one about to boot.
<1>6. ASSUME NEW o \in Supervisors, main'[o].pc = "boot", main'[o].cur = main'[q].cur
      PROVE  FALSE
  <2>1. ~ NewClaim(o)
    BY <1>6, ClaimFacts
  <2>2. Cur(o) = Cur(q) /\ (At(o, "boot") \/ (Mutable(Cur(o)) /\ rows' = rows))
    BY <1>1, <1>6, <2>1, EveryMove DEF Moves
  <2>3. Starting(main[o])
    BY <1>6, <2>1, StartingStep DEF Starting, StartPC
  <2>4. CASE Mutable(Cur(o))
    <3>1. rows[r].lease > 0 /\ rows[r] \in Row
      <4>1. Cur(o).run = r
        BY <1>2, <2>2 DEF Cur, Run
      <4>2. rows[r].lease > -0 /\ rows[r] \in Row /\ rows[r].lease \in Int
        BY <1>2, <2>4, <4>1, StepTypes, BoundsAssumption, LeaseAssumption
        DEF Mutable, Valid, Row, Past
      <4> QED
        BY <4>2
    <3>2. rows[r].lease <= -main[q].age /\ main[q].age \in 0..MaxLag
      BY <1>1, <1>2, StepTypes DEF Due, Lapsed, Thread
    <3> QED
      BY <3>1, <3>2, BoundsAssumption, LeaseAssumption DEF Row, Past
  <2>5. CASE At(o, "boot")
    <3>1. box[r].fence # f
      BY <1>3, <2>2, <2>5
    <3>2. ASSUME NEW s \in Supervisors, Created(s, r)
          PROVE  FALSE
      <4>1. Starting(main[s]) /\ Cur(s) = Cur(o)
        BY <1>2, <2>2, <3>2, StepTypes DEF Created, At, Starting, StartPC
      <4>2. s = o
        BY <2>3, <4>1 DEF HolderInv, ReservedInv, StartedByOne
      <4> QED
        BY <2>5, <3>2, <4>2 DEF Created, At
    <3> QED
      BY <1>1, <1>2, <3>1, <3>2, BoxStep DEF BoxKept, Booted, HolderInv, ReservedInv
  <2> QED
    BY <2>2, <2>4, <2>5
<1> QED
  BY <1>5, <1>6

LEMMA BootOKNext ==
  ASSUME ~ DockerFaults, ClocksAreFresh, HolderInv, ReservedInv, [SupNext]_vars,
         NEW q \in Supervisors
  PROVE  BootOK(q)'
<1> DEFINE r == main'[q].cur.run
           f == main'[q].cur.fence
<1> SUFFICES ASSUME main'[q].pc = "boot", box'[r].fence = f
             PROVE  rows'[r].status \in Active /\ rows'[r].fence = f
  BY DEF BootOK, Reserved, Run, Cur, At
<1>1. ~ NewClaim(q)
  BY ClaimFacts
<1>2. main'[q].cur = Cur(q) /\ (At(q, "boot") \/ (Mutable(Cur(q)) /\ rows' = rows))
  BY <1>1, EveryMove DEF Moves
<1>3. r \in RunIds /\ r = Run(q) /\ f = Cur(q).fence
  BY <1>2, StepTypes DEF Run, Cur
<1>4. Starting(main[q]) /\ f # 0
  <2>1. Starting(main[q])
    BY <1>1, StartingStep DEF Starting, StartPC
  <2>2. main[q].pc \notin Idle
    BY <2>1 DEF Starting, StartPC, Idle
  <2>3. Cur(q) \in Claims
    BY <2>2 DEF HolderInv, ReservedInv, SupIInv, CurKnown, Cur
  <2> QED
    BY <1>3, <2>1, <2>3 DEF Claims, Fences
<1>5. CASE Mutable(Cur(q)) /\ rows' = rows
  BY <1>3, <1>5 DEF Mutable, Valid, Run, Cur
<1>6. CASE At(q, "boot")
  <2>1. ASSUME NEW s \in Supervisors, Starting(main[s]), Run(s) = r, Cur(s).fence = f
        PROVE  s = q
    <3>1. Cur(s) = Cur(q)
      BY <1>3, <2>1, StepTypes
    <3> QED
      BY <1>4, <2>1, <3>1 DEF HolderInv, ReservedInv, StartedByOne
  <2>2. box[r].fence = f
    <3>1. ASSUME NEW s \in Supervisors, Created(s, r)
          PROVE  FALSE
      <4>1. Starting(main[s]) /\ Run(s) = r /\ Cur(s).fence = f
        BY <3>1 DEF Created, At, Starting, StartPC
      <4> QED
        BY <1>6, <2>1, <3>1, <4>1 DEF Created, At
    <3> QED
      BY <1>3, <1>4, <3>1, BoxStep DEF BoxKept, Booted, HolderInv, ReservedInv
  <2>3. Reserved(r, f)
    BY <1>3, <1>6, <2>2 DEF HolderInv, ReservedInv, BootOK
  <2>4. CASE [Mild]_repo
    <3>1. RowCalm(r)
      BY <1>3, <2>4, MildIsCalm DEF HolderInv, ReservedInv, SupIInv
    <3> QED
      BY <2>3, <3>1 DEF RowCalm, Reserved
  <2>5. ASSUME NEW s \in Supervisors, Commits(s) \/ HandsBack(s)
        PROVE  rows'[r] = rows[r]
    <3>1. CASE main[s].pc \in FinishPC /\ r = Run(s) /\ Reserved(r, tasks[s][r].fence)
      <4>1. tasks[s][Run(q)].fence # Cur(q).fence
        BY <1>4 DEF HolderInv, StartNew
      <4> QED
        BY <1>3, <2>3, <3>1, <4>1 DEF Reserved
    <3>2. CASE At(s, "giveUp") /\ r = Run(s) /\ Reserved(r, Cur(s).fence)
      <4>1. s = q
        BY <2>1, <2>3, <3>2 DEF Reserved, At, Starting, StartPC
      <4> QED
        BY <1>6, <3>2, <4>1 DEF At
    <3>3. CASE Due(s) /\ r = Run(s) /\ rows[r].fence = Cur(s).fence
      <4>1. Cur(s) = Cur(q)
        BY <1>3, <2>3, <3>3, StepTypes DEF Reserved
      <4> QED
        BY <1>3, <1>6, <2>2, <3>3, <4>1 DEF HolderInv, ReservedInv, ReapOK
    <3> QED
      BY <1>3, <2>5, <3>1, <3>2, <3>3, EndingRow
  <2>6. CASE TimePasses
    <3>1. rows'[r] = [rows[r] EXCEPT !.lease = IF @ > Past THEN @ - 1 ELSE @]
      BY <1>3, <2>6 DEF TimePasses, Tick
    <3>2. rows'[r].status = rows[r].status /\ rows'[r].fence = rows[r].fence
      BY <1>3, <3>1, StepTypes DEF Row
    <3> QED
      BY <2>3, <3>2 DEF Reserved
  <2> QED
    BY <2>3, <2>4, <2>5, <2>6, SystemStep DEF HolderInv, ReservedInv, Reserved
<1> QED
  BY <1>2, <1>5, <1>6

LEMMA ReservedNext ==
  ASSUME ~ DockerFaults, ClocksAreFresh, HolderInv, ReservedInv, [SupNext]_vars
  PROVE  ReservedWhileAlive'
<1> SUFFICES ASSUME NEW r \in RunIds, box'[r].state = "running"
             PROVE  rows'[r].status \in Active /\ rows'[r].fence = box'[r].fence
  BY DEF ReservedWhileAlive
<1> DEFINE f == box'[r].fence
<1>1. Alive(r, f) \/ \E s \in Supervisors : Booted(s, r)
  BY AliveStep
<1>2. ASSUME NEW s \in Supervisors, Booted(s, r)
      PROVE  rows'[r].status \in Active /\ rows'[r].fence = f
  BY <1>2 DEF Booted, HolderInv, ReservedInv, BootOK, Reserved
<1>3. CASE Alive(r, f)
  <2>1. Reserved(r, f)
    BY <1>3 DEF Alive, Reserved, HolderInv, ReservedInv, ReservedWhileAlive
  <2>2. CASE [Mild]_repo
    <3>1. RowCalm(r)
      BY <2>2, MildIsCalm DEF HolderInv, ReservedInv, SupIInv
    <3> QED
      BY <2>1, <3>1 DEF RowCalm, Reserved
  <2>3. ASSUME NEW s \in Supervisors, Commits(s) \/ HandsBack(s)
        PROVE  rows'[r] = rows[r]
    <3>1. CASE main[s].pc \in FinishPC /\ r = Run(s) /\ Reserved(r, tasks[s][r].fence)
      BY <1>3, <2>1, <3>1 DEF Reserved, HolderInv, ReservedInv, FinishOK
    <3>2. CASE At(s, "giveUp") /\ r = Run(s) /\ Reserved(r, Cur(s).fence)
      BY <1>3, <2>1, <3>2 DEF Reserved, HolderInv, ReservedInv, StartOK, At, Starting, StartPC
    <3>3. CASE Due(s) /\ r = Run(s) /\ rows[r].fence = Cur(s).fence
      BY <1>3, <2>1, <3>3 DEF Reserved, HolderInv, ReservedInv, ReapOK
    <3> QED
      BY <2>3, <3>1, <3>2, <3>3, EndingRow
  <2>4. CASE TimePasses
    <3>1. rows'[r] = [rows[r] EXCEPT !.lease = IF @ > Past THEN @ - 1 ELSE @]
      BY <2>4 DEF TimePasses, Tick
    <3>2. rows[r] \in Row
      BY DEF HolderInv, ReservedInv, SupIInv, IInv, TypeOK
    <3>3. rows'[r].status = rows[r].status /\ rows'[r].fence = rows[r].fence
      BY <3>1, <3>2 DEF Row
    <3> QED
      BY <2>1, <3>3 DEF Reserved
  <2> QED
    BY <2>1, <2>2, <2>3, <2>4, SystemStep DEF HolderInv, ReservedInv, Reserved
<1> QED
  BY <1>1, <1>2, <1>3

\* Every step keeps the first half of the invariant, even if Docker fails.
LEMMA HolderInvNext ==
  ASSUME HolderInv, [SupNext]_vars
  PROVE  HolderInv'
<1>1. SupIInv'
  BY SupNextInv DEF HolderInv
<1>2. Unclaimed'
  BY FencesGrow DEF Unclaimed
<1>3. ASSUME NEW q \in Supervisors
      PROVE  Coherent(main'[q])
  <2>1. CASE NewClaim(q)
    <3>1. Coherent(main[q])
      BY DEF HolderInv
    <3> QED
      BY <2>1, <3>1, ClaimFacts DEF Coherent, StartPC, FinishPC
  <2> QED
    BY <2>1, EveryMove DEF Moves
<1>4. \A s \in Supervisors : StartNew(s)' /\ FinishOK(s)'
  BY StartNewNext, FinishOKNext
<1>5. Tagged'
  BY AliveStep DEF Tagged
<1> QED
  BY <1>1, <1>2, <1>3, <1>4, <1>5, IssuedNext, StartedByOneNext DEF HolderInv

LEMMA ReservationInit == SupInit => HolderInv /\ ReservedInv
<1> SUFFICES ASSUME SupInit PROVE HolderInv /\ ReservedInv
  OBVIOUS
<1>1. SupIInv
  BY SupInitInv
<1>2. \A s \in Supervisors : main[s] = Fresh /\ \A r \in RunIds : tasks[s][r] = NoTask
  BY DEF SupInit
<1>3. \A r \in RunIds : rows[r] = AbsentRow /\ box[r] = NoBox
  BY DEF SupInit, Init
<1>4. AbsentRow.status = "absent" /\ AbsentRow.fence = 0
  BY DEF AbsentRow, NewRow
<1>5. /\ Fresh.pc = "top" /\ Fresh.cur = NoClaim /\ Fresh.todo = {} /\ Fresh.resume = "tend"
      /\ NoTask.fence = 0 /\ NoBox.fence = 0 /\ NoBox.state = "none"
      /\ NoClaim.run = 1 /\ NoClaim.fence = 0
  BY DEF Fresh, NoTask, NoBox, NoClaim
<1>6. Unclaimed
  BY <1>3, <1>4 DEF Unclaimed
<1>7. AllIssued
  <2>1. 1 \in RunIds
    BY BoundsAssumption DEF RunIds
  <2> QED
    BY <1>2, <1>3, <1>4, <1>5, <2>1 DEF AllIssued, Issued, Cur
<1>8. ReservedWhileAlive /\ Tagged
  BY <1>3, <1>5 DEF ReservedWhileAlive, Tagged
<1>9. \A s \in Supervisors : Coherent(main[s]) /\ ~ Starting(main[s]) /\ ~ Reaping(main[s])
                             /\ main[s].pc \notin FinishPC /\ ~ At(s, "boot")
  BY <1>2, <1>5 DEF Coherent, Starting, Reaping, StartPC, FinishPC, At
<1>10. HolderInv
  BY <1>1, <1>6, <1>7, <1>8, <1>9 DEF HolderInv, StartedByOne, StartNew, FinishOK
<1>11. ReservedInv
  BY <1>8, <1>9 DEF ReservedInv, StartOK, ReapOK, BootOK, Due
<1> QED
  BY <1>10, <1>11

\* A running container is always that of its run's current, still reserved
\* claim, whatever supervisors crash, stop, or go on with a claim they have
\* lost: so no attempt runs beside its replacement, and what runs fits what is
\* reserved.
THEOREM ReservationsOutliveWorkers ==
  ~ DockerFaults /\ ClocksAreFresh => (SupSpec => []ReservedWhileAlive)
<1> SUFFICES ASSUME ~ DockerFaults, ClocksAreFresh
             PROVE  SupSpec => []ReservedWhileAlive
  OBVIOUS
<1>1. SupInit => HolderInv /\ ReservedInv
  BY ReservationInit
<1>2. (HolderInv /\ ReservedInv) /\ [SupNext]_vars => (HolderInv /\ ReservedInv)'
  <2> SUFFICES ASSUME HolderInv, ReservedInv, [SupNext]_vars
               PROVE  HolderInv' /\ ReservedInv'
    OBVIOUS
  <2>1. \A s \in Supervisors : StartOK(s)' /\ ReapOK(s)' /\ BootOK(s)'
    BY StartOKNext, ReapOKNext, BootOKNext
  <2> QED
    BY <2>1, HolderInvNext, ReservedNext DEF ReservedInv
<1>3. HolderInv /\ ReservedInv => ReservedWhileAlive
  BY DEF ReservedInv
<1> QED
  BY <1>1, <1>2, <1>3, PTL DEF SupSpec

-----------------------------------------------------------------------------
(* A result is published after its worker is gone, even if Docker fails.   *)

\* The worker of a published result was gone when it was published, and only a
\* thread still starting that claim could bring it back: there is none.
LEMMA ResultNext ==
  ASSUME HolderInv, ResultAfterWorker, [SupNext]_vars
  PROVE  ResultAfterWorker'
<1> SUFFICES ASSUME NEW r \in RunIds, pointers'[r] # 0,
                    box'[r] = [fence |-> pointers'[r], state |-> "running"]
             PROVE  FALSE
  BY DEF ResultAfterWorker
<1>1. box'[r].state = "running" /\ box'[r].fence = pointers'[r]
  OBVIOUS
<1>2. box[r] = [fence |-> box[r].fence, state |-> box[r].state]
  BY DEF HolderInv, SupIInv, SupTypeOK
<1>3. CASE pointers'[r] = pointers[r]
  <2>1. ~ Alive(r, pointers[r])
    BY <1>2, <1>3 DEF Alive, ResultAfterWorker
  <2>2. ASSUME NEW s \in Supervisors, Booted(s, r)
        PROVE  FALSE
    <3>1. Starting(main[s]) /\ r = Run(s) /\ Cur(s).fence = pointers[r]
      BY <1>1, <1>3, <2>2 DEF Booted, At, Starting, StartPC
    <3> QED
      BY <3>1 DEF HolderInv, StartNew
  <2> QED
    BY <1>1, <1>3, <2>1, <2>2, AliveStep
<1>4. CASE pointers'[r] # pointers[r]
  BY <1>1, <1>4, ResultStep DEF Alive
<1> QED
  BY <1>3, <1>4

\* No result is published beside a worker that could still have added to it,
\* although the daemon may fail at any request and lose any reply, and the claim
\* may be reaped by another supervisor meanwhile.
THEOREM ResultsAreComplete == SupSpec => []ResultAfterWorker
<1>1. SupInit => HolderInv /\ ResultAfterWorker
  BY ReservationInit DEF SupInit, Init, ResultAfterWorker
<1>2. HolderInv /\ ResultAfterWorker /\ [SupNext]_vars
        => HolderInv' /\ ResultAfterWorker'
  BY HolderInvNext, ResultNext
<1>3. (HolderInv /\ ResultAfterWorker) /\ [SupNext]_vars
        => (HolderInv /\ ResultAfterWorker)'
  BY <1>2
<1> QED
  BY <1>1, <1>3, PTL DEF SupSpec
=============================================================================
