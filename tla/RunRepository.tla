--------------------------- MODULE RunRepository ---------------------------
(***************************************************************************)
(* DatabaseRunRepository: the table of runs that the API processes and     *)
(* every supervisor share.  One action is one database transaction.        *)
(*                                                                         *)
(* Time is relative: the model's lease_until is the column minus the       *)
(* clock, so a lease is live while it is positive, and a caller that read  *)
(* time.time() lag ticks before its transaction compares with -lag.  The   *)
(* values at or below Past are not told apart.                             *)
(***************************************************************************)
EXTENDS Integers, FiniteSets, FiniteSetsExt, Functions

CONSTANTS
  MaxRuns,        \* bound: rows ever inserted; ids follow created_at
  MaxFence,       \* bound: claims of one row
  MaxLag,         \* bound: age of a time.time() reading when it is used
  MaxProgress,    \* bound: completed_events
  MaxItems,       \* bound: size of a parameter batch
  LeaseTicks,     \* lease_seconds
  Keys,           \* idempotency keys of one owner
  Configs,        \* normalized configurations
  Resources,      \* dimensions of GroupBudget: cpu, memory, pids, tmp
  Limits,         \* worker limits of each configuration
  Budget, Reserve, Concurrency, QueueLimit,
  None            \* SQL NULL

RunIds   == 1..MaxRuns
Fences   == 1..MaxFence
Lags     == 0..MaxLag
Terminal == {"succeeded", "failed", "cancelled"}
Active   == {"starting", "running"}
Claims   == [run : RunIds, fence : Fences]
Past     == -MaxLag
KeySet   == {"submit", "batch", "retry"} \X Keys \X (0..MaxItems)

ASSUME BoundsAssumption ==
  /\ MaxRuns \in Nat \ {0} /\ MaxFence \in Nat /\ MaxLag \in Nat
  /\ MaxProgress \in Nat /\ MaxItems \in Nat
ASSUME LeaseAssumption  == LeaseTicks \in Nat \ {0}
ASSUME PolicyAssumption ==
  /\ Concurrency \in Nat \ {0} /\ QueueLimit \in Nat \ {0}
  /\ Limits \in [Configs -> [Resources -> Nat]]
  /\ Budget \in [Resources -> Nat] /\ Reserve \in [Resources -> Nat]
ASSUME NoneAssumption   == None \notin Keys \cup Configs \cup KeySet

VARIABLES
  made,           \* rows inserted so far: the ids 1..made
  rows,           \* s3_runs
  pointers        \* s3_run_results: fence of the attempt published, 0 if none

repo == <<made, rows, pointers>>

Row == [status   : {"absent", "queued"} \cup Active \cup Terminal,
        key      : KeySet \cup {None},
        batch    : Keys \cup {None},
        index    : 0..MaxItems,
        config   : Configs \cup {None},
        cancel   : BOOLEAN,
        fence    : 0..MaxFence,
        token    : 0..MaxFence,        \* uuid4 per claim: named by its fence
        lease    : Past..LeaseTicks,
        bound    : BOOLEAN,            \* attempt_identity is recorded
        progress : 0..MaxProgress]

NewRow(key, batch, index, config) ==
  [status |-> "queued", key |-> key, batch |-> batch, index |-> index,
   config |-> config, cancel |-> FALSE, fence |-> 0, token |-> 0,
   lease |-> Past, bound |-> FALSE, progress |-> 0]

AbsentRow == [NewRow(None, None, 0, None) EXCEPT !.status = "absent"]

Init == /\ made = 0
        /\ rows = [r \in RunIds |-> AbsentRow]
        /\ pointers = [r \in RunIds |-> 0]

-----------------------------------------------------------------------------
(* Helpers of the transactions.                                            *)

Live == {r \in RunIds : rows[r].status \in {"queued"} \cup Active}
Held == {r \in RunIds : rows[r].status \in Active}

\* GroupBudget.fits
Fits(S) ==
  /\ Cardinality(S) <= Concurrency
  /\ \A d \in Resources :
       SumFunction([r \in S |-> Limits[rows[r].config][d]]) + Reserve[d] <= Budget[d]

FitsAlone(config) ==
  \A d \in Resources : Limits[config][d] + Reserve[d] <= Budget[d]

\* Mutant of Room: one place is enough for a whole batch.
RoomForOne(n) == Cardinality(Live) < QueueLimit

\* _capacity
Room(n) == Cardinality(Live) + n <= QueueLimit

Unused(kind, k) == \A r \in RunIds : rows[r].key # None =>
                      ~ (rows[r].key[1] = kind /\ rows[r].key[2] = k)

\* Mutant of Valid: any claim of a live row is accepted.
ValidByLease(c, lag) == /\ rows[c.run].status \in Active
                        /\ rows[c.run].lease > -lag

\* _valid, at a reading of the clock lag ticks old
Valid(c, lag) == /\ rows[c.run].status \in Active
                 /\ rows[c.run].token = c.fence
                 /\ rows[c.run].fence = c.fence
                 /\ rows[c.run].lease > -lag

\* What work, bind_attempt, running and progress require; cancelled() is its
\* negation.
Mutable(c) == Valid(c, 0) /\ ~ rows[c.run].cancel
Cancelled(c) == ~ Mutable(c)

\* Mutant of MayCommit: cancel_requested is not read again at the commit.
MayCommitAnyway(c, outcome) == Valid(c, 0)

MayCommit(c, outcome) == /\ Valid(c, 0)
                         /\ rows[c.run].cancel => outcome = "cancelled"

\* A batch item's attempts share its index; the newest one stands for it.
Attempts(b, i) == {r \in RunIds : rows[r].batch = b /\ rows[r].index = i}
Latest(b, i)   == Max(Attempts(b, i))

\* Mutant of FailedItems: any failed attempt counts, not the newest.
FailedOnce(b) == {i \in 1..MaxItems :
                    \E r \in Attempts(b, i) : rows[r].status = "failed"}

FailedItems(b) == {i \in 1..MaxItems : /\ Attempts(b, i) # {}
                                       /\ rows[Latest(b, i)].status = "failed"}

\* One INSERT of several rows: created_at is the transaction's and the ids are
\* random, so the new rows come in any order.
Insert(items, RowOf(_)) ==
  LET n == Cardinality(items)
  IN  /\ made + n <= MaxRuns
      /\ Room(n)
      /\ \E item \in Bijection(made+1 .. made+n, items) :
           rows' = [r \in RunIds |-> IF r \in made+1 .. made+n
                                     THEN RowOf(item[r]) ELSE rows[r]]
      /\ made' = made + n
      /\ UNCHANGED pointers

Set(r, row) == /\ rows' = [rows EXCEPT ![r] = row]
               /\ UNCHANGED <<made, pointers>>

-----------------------------------------------------------------------------
(* The client's transactions.  A repeated idempotency key answers from the *)
(* stored row or refuses, and changes nothing.                             *)

Submit(k, config) ==
  /\ Unused("submit", k)
  /\ FitsAlone(config)
  /\ LET new(i) == NewRow(<<"submit", k, i>>, None, i, config)
     IN  Insert({0}, new)

SubmitBatch(k, n, config) ==
  /\ Unused("batch", k)
  /\ FitsAlone(config)
  /\ LET new(i) == NewRow(<<"batch", k, i>>, k, i, config)
     IN  Insert(1..n, new)

\* cancel_batch is one request_cancel per row of the batch, each in a
\* transaction of its own: any interleaving of this action.
RequestCancel(r) ==
  /\ r \in Live
  /\ Set(r, [rows[r] EXCEPT !.cancel = TRUE,
                            !.status = IF @ = "queued" THEN "cancelled" ELSE @])

RetryFailed(b, k) ==
  /\ Unused("retry", k)
  /\ FailedItems(b) # {}
  /\ LET new(i) == NewRow(<<"retry", k, i>>, b, i, rows[Latest(b, i)].config)
     IN  Insert(FailedItems(b), new)

-----------------------------------------------------------------------------
(* The supervisors' transactions.                                          *)

Waiting == {r \in RunIds : rows[r].status = "queued" /\ ~ rows[r].cancel}

\* Mutant of Claimable: the held rows are not counted.
ClaimableAlone(r) == /\ r \in Waiting
                     /\ \A q \in Waiting : r <= q
                     /\ Fits({r})
                     /\ rows[r].fence < MaxFence

\* Only the oldest waiting row is considered: one that does not fit holds back
\* the younger ones.
Claimable(r) ==
  /\ r \in Waiting
  /\ \A q \in Waiting : r <= q
  /\ Fits(Held \cup {r})
  /\ rows[r].fence < MaxFence

Claim(r, lag) ==
  /\ Claimable(r)
  /\ Set(r, [rows[r] EXCEPT !.status = "starting", !.fence = @ + 1,
                            !.token = rows[r].fence + 1,
                            !.lease = LeaseTicks - lag,
                            !.bound = FALSE, !.progress = 0])

BindAttempt(c) == /\ Mutable(c)
                  /\ Set(c.run, [rows[c.run] EXCEPT !.bound = TRUE])

Heartbeat(c, lag) == /\ Valid(c, lag)
                     /\ Set(c.run, [rows[c.run] EXCEPT !.lease = LeaseTicks - lag])

Running(c) == /\ Mutable(c)
              /\ Set(c.run, [rows[c.run] EXCEPT !.status = "running"])

Progress(c, v) == /\ Mutable(c)
                  /\ v >= rows[c.run].progress
                  /\ Set(c.run, [rows[c.run] EXCEPT !.progress = v])

\* The terminal row and the pointer of its sealed result, if it has one, in
\* one transaction.
CommitOutcome(c, outcome, sealed) ==
  /\ MayCommit(c, outcome)
  /\ outcome = "succeeded" => sealed
  /\ rows' = [rows EXCEPT ![c.run].status = outcome, ![c.run].lease = Past]
  /\ pointers' = [pointers EXCEPT ![c.run] = IF sealed THEN c.fence ELSE @]
  /\ UNCHANGED made

\* Mutant of Recoverable: the lease is not read again.
RecoverableAnyTime(c, lag) == /\ rows[c.run].token = c.fence
                              /\ rows[c.run].fence = c.fence
                              /\ rows[c.run].status \notin Terminal

Recoverable(c, lag) == /\ rows[c.run].token = c.fence
                       /\ rows[c.run].fence = c.fence
                       /\ rows[c.run].lease <= -lag
                       /\ rows[c.run].status \notin Terminal

\* Mutant of RecoverStopped: the row waits again even if it was cancelled.
RecoverQueued(c, lag) ==
  /\ Recoverable(c, lag)
  /\ Set(c.run, [rows[c.run] EXCEPT !.status = "queued", !.token = 0,
                                    !.lease = Past, !.bound = FALSE])

RecoverStopped(c, lag) ==
  /\ Recoverable(c, lag)
  /\ Set(c.run, [rows[c.run] EXCEPT
                   !.status = IF rows[c.run].cancel THEN "cancelled" ELSE "queued",
                   !.token = 0, !.lease = Past, !.bound = FALSE])

Expired == {c \in Claims : /\ rows[c.run].status \in Active
                           /\ rows[c.run].token = c.fence
                           /\ rows[c.run].lease <= 0}

Tick == /\ \E r \in RunIds : rows[r].lease > Past
        /\ rows' = [r \in RunIds |->
                      [rows[r] EXCEPT !.lease = IF @ > Past THEN @ - 1 ELSE @]]
        /\ UNCHANGED <<made, pointers>>

\* A claim once issued may be used at any later time, by a process that does
\* not know what has become of it.
UseClaim(c) ==
  \/ BindAttempt(c)
  \/ Running(c)
  \/ \E v \in 0..MaxProgress : Progress(c, v)
  \/ \E outcome \in Terminal, sealed \in BOOLEAN : CommitOutcome(c, outcome, sealed)
  \/ \E lag \in Lags : Heartbeat(c, lag) \/ RecoverStopped(c, lag)

Next ==
  \/ \E k \in Keys, config \in Configs :
       \/ Submit(k, config)
       \/ \E n \in 1..MaxItems : SubmitBatch(k, n, config)
  \/ \E b, k \in Keys : RetryFailed(b, k)
  \/ \E r \in RunIds : RequestCancel(r) \/ \E lag \in Lags : Claim(r, lag)
  \/ \E c \in Claims : UseClaim(c)
  \/ Tick

Spec == Init /\ [][Next]_repo

-----------------------------------------------------------------------------
(* Properties.                                                             *)

\* Every variable keeps its type.
TypeOK == /\ made \in 0..MaxRuns
          /\ rows \in [RunIds -> Row]
          /\ pointers \in [RunIds -> 0..MaxFence]

\* A cancellation wins: once cancel_requested is set the run is either still
\* held or cancelled.  It is never succeeded, failed, or queued for another
\* attempt, whatever stale supervisor commits or recovers it.
CancelWins ==
  \A r \in RunIds : rows[r].cancel => rows[r].status \in Active \cup {"cancelled"}

\* What a row's status says of its other columns, the part of the invariant
\* that makes the others inductive: only a held row has a live token, that of
\* its newest claim; a row nobody holds has no lease to lose, and a row waiting
\* again keeps no token its last holder could still use.
Consistent ==
  \A r \in RunIds :
    /\ r > made <=> rows[r].status = "absent"
    /\ rows[r].status = "absent" => rows[r].progress = 0
    /\ rows[r].status \in {"absent", "queued"} => rows[r].token = 0
    /\ rows[r].status \in Active => /\ rows[r].fence # 0
                                   /\ rows[r].token = rows[r].fence
    /\ rows[r].status \notin Active => rows[r].lease = Past

\* A published result belongs to the last claim of a run that has ended, and a
\* run is succeeded only with its result published ("one atomic terminal/result
\* winner").
ResultOfWinner ==
  \A r \in RunIds :
    /\ pointers[r] # 0 => /\ rows[r].status \in Terminal
                          /\ pointers[r] = rows[r].fence
    /\ rows[r].status = "succeeded" => pointers[r] # 0

\* Whatever claims, expiries and recoveries interleave, the held rows fit the
\* group budget shared by all supervisors.
ReservationsFit == Held = {} \/ Fits(Held)

\* The rows that have not ended never exceed queue_limit, retries and batches
\* included.
QueueBounded == Cardinality(Live) <= QueueLimit

\* An item of a batch is attempted again only after its earlier attempts have
\* failed: two retries, or a retry and a late outcome, never leave two attempts
\* of one item alive or replace a success.
OneLiveAttempt ==
  \A q, r \in RunIds :
    /\ q < r
    /\ rows[r].batch # None
    /\ rows[q].batch = rows[r].batch
    /\ rows[q].index = rows[r].index
    => rows[q].status = "failed"

\* A run that has ended keeps its outcome, its counters and its result.
Settled == [][\A r \in RunIds : rows[r].status \in Terminal =>
                 rows'[r] = rows[r] /\ pointers'[r] = pointers[r]]_repo

\* A run leaves its holder for the queue only after the lease ran out, and no
\* claim is taken while an earlier one is live.
LeaseHonoured ==
  [][\A r \in RunIds :
       /\ rows[r].status \in Active
       /\ rows'[r].status = "queued" \/ rows'[r].fence # rows[r].fence
       => rows[r].lease <= 0]_repo

\* "Expiry fences IPC and result submission immediately" (ops/s3-d12/README.md:23):
\* a claim whose lease has run out does not come back to life.
ExpiryIsFinal ==
  [][\A r \in RunIds :
       /\ rows[r].status \in Active /\ rows[r].lease <= 0
       /\ rows'[r].fence = rows[r].fence
       => rows'[r].lease <= 0]_repo

\* Progress of one attempt never goes back.  Only a new claim starts at zero.
ProgressOfAttempt ==
  [][\A r \in RunIds : rows'[r].fence = rows[r].fence =>
                          rows'[r].progress >= rows[r].progress]_repo

\* The abstract specification a run's history implements.
PhaseOf(row) == CASE row.status = "absent" -> "none"
                  [] row.status = "queued" -> "waiting"
                  [] row.status \in Active -> "held"
                  [] OTHER -> row.status

Lifecycle == INSTANCE RunLifecycle
  WITH Runs      <- RunIds,
       phase     <- [r \in RunIds |-> PhaseOf(rows[r])],
       asked     <- [r \in RunIds |-> rows[r].cancel],
       published <- [r \in RunIds |-> pointers[r] # 0]

\* The table of runs, used by any number of supervisors with claims of any
\* age, implements the life of a run.
LifecycleSpec == Lifecycle!Spec
=============================================================================
