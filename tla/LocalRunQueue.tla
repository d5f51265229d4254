---------------------------- MODULE LocalRunQueue ----------------------------
(***************************************************************************)
(* LocalRunRepository: the run repository over files.  Every operation     *)
(* holds a lock on the directory, reads what it needs, and then replaces   *)
(* one or several files, each atomically and durably; a crash or a failing *)
(* write releases the lock with the rest of the files as they were.        *)
(*                                                                         *)
(* Leases are relative to the clock, as in RunRepository.                  *)
(***************************************************************************)
EXTENDS Integers, FiniteSets, Functions, Sequences

CONSTANTS
  MaxRuns,        \* bound: run files ever written
  MaxFence,       \* bound: claims of one run
  MaxLag,         \* bound: age of a time.time() reading when it is used
  MaxProgress,    \* bound: completed_events
  MaxItems,       \* bound: size of a batch
  LeaseTicks,     \* lease_seconds
  Batches,        \* batch ids
  Configs,        \* normalized configurations
  Resources, Limits, Budget, Reserve, Concurrency, QueueLimit

RunIds   == 1..MaxRuns
Lags     == 0..MaxLag
Terminal == {"succeeded", "failed", "cancelled"}
Active   == {"starting", "running"}
Claims   == [run : RunIds, fence : 1..MaxFence]
Past     == -MaxLag

ASSUME QueueBounds ==
  /\ Batches # {} /\ Configs # {}
  /\ MaxRuns \in Nat \ {0} /\ MaxFence \in Nat /\ MaxLag \in Nat
  /\ MaxProgress \in Nat /\ MaxItems \in Nat \ {0} /\ LeaseTicks \in Nat \ {0}
ASSUME QueuePolicy ==
  /\ Concurrency \in Nat \ {0} /\ QueueLimit \in Nat \ {0}
  /\ Limits \in [Configs -> [Resources -> Nat]]
  /\ Budget \in [Resources -> Nat] /\ Reserve \in [Resources -> Nat]

VARIABLES
  made,           \* run ids drawn so far: uuid4, numbered in order
  rows,           \* <run_id>.json
  batches,        \* <batch_id>.batch: the run of each item, empty if no file
  roster,         \* active.json; its order is that of the ids
  kept,           \* claims whose sealed result directory is retained
  pending         \* writes the holder of the lock has still to do

vars == <<made, rows, batches, roster, kept, pending>>

Row == [status   : {"absent", "queued"} \cup Active \cup Terminal,
        batch    : Batches,
        item     : 0..MaxItems,
        retryOf  : 0..MaxRuns,
        config   : Configs,
        cancel   : BOOLEAN,
        fence    : 0..MaxFence,
        token    : 0..MaxFence,        \* uuid4 per claim: named by its fence
        lease    : Past..LeaseTicks,
        bound    : BOOLEAN,
        progress : 0..MaxProgress,
        result   : 0..MaxFence]        \* fence of the attempt whose result it is

NewRow(b, item, config, old) ==
  [status |-> "queued", batch |-> b, item |-> item, retryOf |-> old,
   config |-> config, cancel |-> FALSE, fence |-> 0, token |-> 0,
   lease |-> Past, bound |-> FALSE, progress |-> 0, result |-> 0]

NoRow == [NewRow(CHOOSE b \in Batches : TRUE, 0, CHOOSE c \in Configs : TRUE, 0)
            EXCEPT !.status = "absent"]

Init == /\ made = 0
        /\ rows = [r \in RunIds |-> NoRow]
        /\ batches = [b \in Batches |-> <<>>]
        /\ roster = {} /\ kept = {} /\ pending = <<>>

-----------------------------------------------------------------------------
(* Files.                                                                  *)

RowFile(r, row)     == [file |-> "row", run |-> r, row |-> row]
BatchFile(b, items) == [file |-> "batch", batch |-> b, items |-> items]
RosterFile(new)     == [file |-> "roster", new |-> new]
Retain(c)           == [file |-> "result", claim |-> c]

\* Mutant of Listed: what is being executed leaves the roster.
ListedWaiting == {r \in roster : rows[r].status = "queued"}

\* _active: the ended runs still listed are passed over.
Listed == {r \in roster : rows[r].status \notin Terminal}

Write(w) ==
  /\ rows'    = IF w.file = "row" THEN [rows EXCEPT ![w.run] = w.row] ELSE rows
  /\ batches' = IF w.file = "batch" THEN [batches EXCEPT ![w.batch] = w.items] ELSE batches
  /\ roster'  = IF w.file = "roster" THEN Listed \cup w.new ELSE roster
  /\ kept'    = IF w.file = "result" THEN kept \cup {w.claim} ELSE kept

\* An operation takes the lock and does the first of its writes.
Perform(writes) == /\ pending = <<>>
                   /\ Write(Head(writes))
                   /\ pending' = Tail(writes)

Continue == /\ pending # <<>>
            /\ Write(Head(pending))
            /\ pending' = Tail(pending)
            /\ UNCHANGED made

\* The process dies, or the write raises.
GiveUp == /\ pending # <<>>
          /\ pending' = <<>>
          /\ UNCHANGED <<made, rows, batches, roster, kept>>

\* Replace one row, and with it the roster when the row may have ended.
Save(r, row)    == Perform(<<RowFile(r, row)>>) /\ UNCHANGED made
SaveEnd(r, row) == Perform(<<RowFile(r, row), RosterFile({})>>) /\ UNCHANGED made

-----------------------------------------------------------------------------
(* The client's operations.                                                *)

Room(n) == Cardinality(Listed) + n <= QueueLimit

FitsAlone(config) ==
  \A d \in Resources : Limits[config][d] + Reserve[d] <= Budget[d]

EnqueueBatch(b, n, config) ==
  LET new == made+1 .. made+n
  IN  /\ batches[b] = <<>>
      /\ made + n <= MaxRuns
      /\ FitsAlone(config)
      /\ Room(n)
      /\ Perform([i \in 1..n |-> RowFile(made+i, NewRow(b, i, config, 0))]
                 \o <<BatchFile(b, [i \in 1..n |-> made+i]), RosterFile(new)>>)
      /\ made' = made + n

Cancel(row) == [row EXCEPT !.cancel = TRUE,
                           !.status = IF @ = "queued" THEN "cancelled" ELSE @]

\* What a client can name: the ids enqueue_batch returned and those its batch
\* lists.  cancel_batch is one request_cancel for each item.
Known == roster \cup {r \in RunIds : /\ rows[r].retryOf # 0
                                     /\ \E b \in Batches : \E i \in DOMAIN batches[b] :
                                          batches[b][i] = r}

RequestCancel(r) == /\ r \in Known
                    /\ rows[r].status \in {"queued"} \cup Active
                    /\ SaveEnd(r, Cancel(rows[r]))

FailedItems(b) == {i \in DOMAIN batches[b] : rows[batches[b][i]].status = "failed"}

\* The new runs of the failed items, in the order of the items.
Rank(b, i) == made + Cardinality({j \in FailedItems(b) : j <= i})
Retried(b, r) == CHOOSE i \in FailedItems(b) : Rank(b, i) = r
Retry(b, r) == LET old == batches[b][Retried(b, r)]
               IN  NewRow(b, Retried(b, r), rows[old].config, old)
RetryFiles(b, n) == [k \in 1..n |-> RowFile(made+k, Retry(b, made+k))]
RetryItems(b) == [i \in DOMAIN batches[b] |->
                    IF i \in FailedItems(b) THEN Rank(b, i) ELSE batches[b][i]]

\* Mutant of RetryFailed: the roster is written before the batch.
RetryRosterFirst(b) ==
  LET n == Cardinality(FailedItems(b))
  IN  /\ n > 0 /\ made + n <= MaxRuns /\ Room(n)
      /\ Perform(RetryFiles(b, n) \o <<RosterFile(made+1 .. made+n),
                                       BatchFile(b, RetryItems(b))>>)
      /\ made' = made + n

RetryFailed(b) ==
  LET n == Cardinality(FailedItems(b))
  IN  /\ batches[b] # <<>>
      /\ made + n <= MaxRuns
      /\ Room(n)
      /\ Perform(RetryFiles(b, n) \o <<BatchFile(b, RetryItems(b)),
                                       RosterFile(made+1 .. made+n)>>)
      /\ made' = made + n

-----------------------------------------------------------------------------
(* The supervisors' operations.                                            *)

Granted == {r \in Listed : rows[r].status \in Active}

\* GroupBudget.fits
Fits(S) ==
  /\ Cardinality(S) <= Concurrency
  /\ \A d \in Resources :
       SumFunction([r \in S |-> Limits[rows[r].config][d]]) + Reserve[d] <= Budget[d]

\* A run that does not fit is passed over for a younger one that does.
Claimable(r) == /\ r \in Listed
                /\ rows[r].status = "queued" /\ ~ rows[r].cancel
                /\ Fits(Granted \cup {r})

Claim(r, lag) ==
  /\ Claimable(r)
  /\ \A q \in RunIds : Claimable(q) => r <= q
  /\ rows[r].fence < MaxFence
  /\ Save(r, [rows[r] EXCEPT !.status = "starting", !.fence = @ + 1,
                             !.token = rows[r].fence + 1, !.progress = 0,
                             !.lease = LeaseTicks - lag])

Valid(c, lag) == /\ rows[c.run].status \in Active
                 /\ rows[c.run].token = c.fence
                 /\ rows[c.run].fence = c.fence
                 /\ rows[c.run].lease > -lag

Mutable(c) == Valid(c, 0) /\ ~ rows[c.run].cancel

BindAttempt(c) == /\ Valid(c, 0)
                  /\ Save(c.run, [rows[c.run] EXCEPT !.bound = TRUE])

Heartbeat(c, lag) == /\ Valid(c, lag)
                     /\ Save(c.run, [rows[c.run] EXCEPT !.lease = LeaseTicks - lag])

Running(c) == /\ Mutable(c)
              /\ Save(c.run, [rows[c.run] EXCEPT !.status = "running"])

Progress(c, v) == /\ Mutable(c)
                  /\ v >= rows[c.run].progress
                  /\ Save(c.run, [rows[c.run] EXCEPT !.progress = v])

Outcome(c, outcome, sealed) ==
  [rows[c.run] EXCEPT !.status = outcome, !.lease = Past,
                      !.result = IF sealed THEN c.fence ELSE 0]

MayCommit(c, outcome) == /\ Valid(c, 0)
                         /\ rows[c.run].cancel => outcome = "cancelled"

\* Mutant of CommitOutcome: the result is retained after its row is written.
CommitRowFirst(c, outcome, sealed) ==
  /\ MayCommit(c, outcome)
  /\ outcome = "succeeded" => sealed
  /\ Perform(<<RowFile(c.run, Outcome(c, outcome, sealed))>>
             \o (IF sealed THEN <<Retain(c)>> ELSE <<>>) \o <<RosterFile({})>>)
  /\ UNCHANGED made

\* _finish commits a success only with a sealed result.
CommitOutcome(c, outcome, sealed) ==
  /\ MayCommit(c, outcome)
  /\ outcome = "succeeded" => sealed
  /\ Perform((IF sealed THEN <<Retain(c)>> ELSE <<>>)
             \o <<RowFile(c.run, Outcome(c, outcome, sealed)), RosterFile({})>>)
  /\ UNCHANGED made

Recoverable(c, lag) == /\ rows[c.run].token = c.fence
                       /\ rows[c.run].fence = c.fence
                       /\ rows[c.run].lease <= -lag
                       /\ rows[c.run].status \notin Terminal

\* Mutant of RecoverStopped: a cancelled run goes back to the queue.
RecoverQueued(c, lag) ==
  /\ Recoverable(c, lag)
  /\ SaveEnd(c.run, [rows[c.run] EXCEPT !.status = "queued", !.token = 0,
                                        !.lease = Past, !.bound = FALSE])

RecoverStopped(c, lag) ==
  /\ Recoverable(c, lag)
  /\ SaveEnd(c.run, [rows[c.run] EXCEPT
                       !.status = IF rows[c.run].cancel THEN "cancelled" ELSE "queued",
                       !.token = 0, !.lease = Past, !.bound = FALSE])

Tick == /\ \E r \in RunIds : rows[r].lease > Past
        /\ rows' = [r \in RunIds |-> IF rows[r].lease > Past
                                      THEN [rows[r] EXCEPT !.lease = @ - 1] ELSE rows[r]]
        /\ UNCHANGED <<made, batches, roster, kept, pending>>

UseClaim(c) ==
  \/ BindAttempt(c)
  \/ Running(c)
  \/ \E v \in 0..MaxProgress : Progress(c, v)
  \/ \E outcome \in Terminal, sealed \in BOOLEAN : CommitOutcome(c, outcome, sealed)
  \/ \E lag \in Lags : Heartbeat(c, lag) \/ RecoverStopped(c, lag)

Next ==
  \/ \E b \in Batches :
       \/ \E n \in 1..MaxItems, config \in Configs : EnqueueBatch(b, n, config)
       \/ RetryFailed(b)
  \/ \E r \in RunIds : RequestCancel(r) \/ \E lag \in Lags : Claim(r, lag)
  \/ \E c \in Claims : UseClaim(c)
  \/ Continue \/ GiveUp
  \/ Tick

Spec == Init /\ [][Next]_vars

-----------------------------------------------------------------------------
(* Properties.                                                             *)

\* Types of the files; leases are within lease_seconds.
QueueTypeOK ==
  /\ made \in 0..MaxRuns
  /\ rows \in [RunIds -> Row]
  /\ \A b \in Batches : /\ DOMAIN batches[b] \in {1..n : n \in 0..MaxItems}
                         /\ \A i \in DOMAIN batches[b] : batches[b][i] \in 1..made
  /\ roster \subseteq 1..made
  /\ kept \subseteq Claims

\* claim() adds up the reservations, and expired() looks for lost workers, among
\* the runs active.json names: one that is executed and not named would be
\* forgotten by both.
HeldAreListed == \A r \in RunIds : rows[r].status \in Active => r \in roster

\* _active() raises for ever once active.json names more than queue_limit runs,
\* so a crash that leaves ended runs in it must not add up.
RosterFits == Cardinality(roster) <= QueueLimit

\* The reservations of all runs that are executed fit the group budget.
ReservationsFit == LET held == {r \in RunIds : rows[r].status \in Active}
                   IN  held # {} => Fits(held)

\* "A crash may leave an orphan result, never a published missing result."
\* (local_queue.py:360)
ResultsAreKept == \A r \in RunIds :
  rows[r].result # 0 => [run |-> r, fence |-> rows[r].result] \in kept

\* Of two attempts of one item that supervisors saw or may see, the older has
\* failed, wherever a retry was interrupted and however often it is repeated.
OneRunnableAttempt ==
  \A q, r \in {r \in RunIds : r \in roster \/ rows[r].fence > 0} :
    /\ q < r
    /\ rows[q].batch = rows[r].batch
    /\ rows[q].item = rows[r].item
    => rows[q].status = "failed"

\* What supervisors may run at all is one attempt of an item, and what they run
\* fits the budget and the roster, although no write is one with the next.
RunnableFits == QueueTypeOK /\ ReservationsFit /\ RosterFits /\ OneRunnableAttempt

\* "New run for each failed item" (local_queue.py:401): the run that a retried
\* item now names is one that supervisors can see, or has ended.
RetriedItemsRun ==
  pending = <<>> =>
    \A b \in Batches : \A i \in DOMAIN batches[b] :
      LET r == batches[b][i]
      IN  rows[r].retryOf # 0 /\ rows[r].status = "queued" => r \in roster

\* No later write touches the file of a run that has ended.
QueueSettled == [][\A r \in RunIds : rows[r].status \in Terminal =>
                                        rows'[r] = rows[r]]_vars

PhaseOf(row) == CASE row.status = "absent" -> "none"
                  [] row.status = "queued" -> "waiting"
                  [] row.status \in Active -> "held"
                  [] OTHER -> row.status

Lifecycle == INSTANCE RunLifecycle
  WITH Runs      <- RunIds,
       phase     <- [r \in RunIds |-> PhaseOf(rows[r])],
       asked     <- [r \in RunIds |-> rows[r].cancel],
       published <- [r \in RunIds |-> rows[r].result # 0]

\* The files, written one at a time with crashes between, implement the same
\* life of a run as the database does in one transaction.
QueueLifecycle == Lifecycle!Spec
=============================================================================
