------------------------ MODULE RunRepositoryProofs ------------------------
(***************************************************************************)
(* What the table of runs keeps, for any number of rows, claims,           *)
(* supervisors' readings of the clock, keys and configurations.            *)
(***************************************************************************)
EXTENDS RunRepository, FunctionSums

\* The inductive invariant.
IInv == TypeOK /\ Consistent /\ CancelWins /\ ResultOfWinner

-----------------------------------------------------------------------------
(* What the client's inserts have in common.                               *)

\* A row as it is inserted.
FreshRow(row) == /\ row \in Row
                 /\ row.status = "queued" /\ ~ row.cancel
                 /\ row.fence = 0 /\ row.token = 0
                 /\ row.lease = Past /\ row.progress = 0

\* n rows have been added after the first made.
Inserted(n) == /\ made' = made + n
               /\ made + n <= MaxRuns
               /\ Room(n)
               /\ \A r \in made+1 .. made+n : FreshRow(rows'[r])
               /\ \A r \in RunIds \ (made+1 .. made+n) : rows'[r] = rows[r]
               /\ rows' = [r \in RunIds |-> rows'[r]]
               /\ pointers' = pointers

\* NewRow builds a fresh row from values of the right types.
LEMMA NewRowIsFresh ==
  ASSUME NEW key \in KeySet \cup {None}, NEW batch \in Keys \cup {None},
         NEW index \in 0..MaxItems, NEW config \in Configs \cup {None}
  PROVE  FreshRow(NewRow(key, batch, index, config))
  BY BoundsAssumption, LeaseAssumption DEF FreshRow, NewRow, Row, Past

\* Submit inserts one row.
LEMMA SubmitInserts ==
  ASSUME TypeOK, NEW k \in Keys, NEW config \in Configs, Submit(k, config)
  PROVE  Inserted(1)
<1> DEFINE new(i) == NewRow(<<"submit", k, i>>, None, i, config)
<1>1. Insert({0}, new)
  BY DEF Submit
<1>2. Cardinality({0}) = 1
  BY FS_Singleton
<1>3. PICK item \in Bijection(made+1 .. made+1, {0}) :
         rows' = [r \in RunIds |-> IF r \in made+1 .. made+1
                                   THEN new(item[r]) ELSE rows[r]]
  BY <1>1, <1>2 DEF Insert
<1>4. \A r \in made+1 .. made+1 : item[r] = 0
  BY <1>3 DEF Bijection, Injection
<1>5. FreshRow(new(0))
  BY NewRowIsFresh, BoundsAssumption DEF KeySet
<1> HIDE DEF new
<1>6. \A r \in made+1 .. made+1 : r \in RunIds
  BY <1>1, <1>2, BoundsAssumption DEF Insert, TypeOK, RunIds
<1> QED
  BY <1>1, <1>2, <1>3, <1>4, <1>5, <1>6 DEF Inserted, Insert
\* SubmitBatch inserts one row per item.
LEMMA SubmitBatchInserts ==
  ASSUME TypeOK, NEW k \in Keys, NEW n \in 1..MaxItems, NEW config \in Configs,
         SubmitBatch(k, n, config)
  PROVE  Inserted(n)
<1> DEFINE new(i) == NewRow(<<"batch", k, i>>, k, i, config)
<1>1. Insert(1..n, new)
  BY DEF SubmitBatch
<1>2. Cardinality(1..n) = n
  BY FS_Interval, BoundsAssumption
<1>3. PICK item \in Bijection(made+1 .. made+n, 1..n) :
         rows' = [r \in RunIds |-> IF r \in made+1 .. made+n
                                   THEN new(item[r]) ELSE rows[r]]
  BY <1>1, <1>2 DEF Insert
<1>4. \A r \in made+1 .. made+n : item[r] \in 1..n
  BY <1>3 DEF Bijection, Injection
<1>5. \A i \in 1..n : FreshRow(new(i))
  BY NewRowIsFresh, BoundsAssumption DEF KeySet
<1> HIDE DEF new
<1>6. \A r \in made+1 .. made+n : r \in RunIds
  BY <1>1, <1>2, BoundsAssumption DEF Insert, TypeOK, RunIds
<1> QED
  BY <1>1, <1>2, <1>3, <1>4, <1>5, <1>6 DEF Inserted, Insert

\* The newest attempt of an item that has any is one of them.
LEMMA LatestIsAttempt ==
  ASSUME NEW b, NEW i, Attempts(b, i) # {}
  PROVE  /\ Latest(b, i) \in Attempts(b, i)
         /\ \A q \in Attempts(b, i) : q <= Latest(b, i)
<1> DEFINE S == Attempts(b, i)
           T == {MaxRuns - r : r \in S}
           R == {p \in Nat \X Nat : p[1] < p[2]}
<1>1. S \subseteq 1..MaxRuns /\ MaxRuns \in Nat
  BY BoundsAssumption DEF Attempts, RunIds
<1>2. T \subseteq Nat /\ T # {}
  BY <1>1
<1>3. IsWellFoundedOn(R, Nat)
  BY NatLessThanWellFounded DEF OpToRel
<1>4. PICK x \in T : \A y \in T : ~ (<<y, x>> \in R)
  BY <1>2, <1>3, WFMin
<1>5. PICK r \in S : x = MaxRuns - r
  OBVIOUS
<1>6. ASSUME NEW q \in S PROVE r >= q
  <2> DEFINE y == MaxRuns - q
  <2>1. y \in T /\ y \in Nat /\ x \in Nat /\ r \in Nat /\ q \in Nat
    BY <1>1, <1>2, <1>5
  <2>2. ~ (y < x)
    BY <1>4, <2>1
  <2> QED
    BY <1>1, <1>5, <2>1, <2>2
<1> QED
  BY <1>1, <1>5, <1>6 DEF Latest, Max

\* RetryFailed inserts one row per failed item.
LEMMA RetryFailedInserts ==
  ASSUME TypeOK, NEW b \in Keys, NEW k \in Keys, RetryFailed(b, k)
  PROVE  \E n \in Nat : Inserted(n)
<1> DEFINE items == FailedItems(b)
           n == Cardinality(items)
           new(i) == NewRow(<<"retry", k, i>>, b, i, rows[Latest(b, i)].config)
<1>1. Insert(items, new)
  BY DEF RetryFailed
<1>2. items \subseteq 1..MaxItems /\ IsFiniteSet(1..MaxItems)
  BY FS_Interval, BoundsAssumption DEF FailedItems
<1>3. n \in Nat
  BY <1>2, FS_Subset, FS_CardinalityType
<1>4. PICK item \in Bijection(made+1 .. made+n, items) :
         rows' = [r \in RunIds |-> IF r \in made+1 .. made+n
                                   THEN new(item[r]) ELSE rows[r]]
  BY <1>1 DEF Insert
<1>5. \A r \in made+1 .. made+n : item[r] \in items
  BY <1>4 DEF Bijection, Injection
<1>6. \A i \in items : FreshRow(new(i))
  <2> SUFFICES ASSUME NEW i \in items PROVE FreshRow(new(i))
    OBVIOUS
  <2>1. i \in 1..MaxItems /\ Attempts(b, i) # {}
    BY DEF FailedItems
  <2>2. Latest(b, i) \in RunIds
    BY <2>1, LatestIsAttempt DEF Attempts
  <2>3. rows[Latest(b, i)].config \in Configs \cup {None}
    BY <2>2 DEF TypeOK, Row
  <2>4. <<"retry", k, i>> \in KeySet
    BY <2>1, BoundsAssumption DEF KeySet
  <2> QED
    BY <2>1, <2>3, <2>4, NewRowIsFresh, BoundsAssumption
<1> HIDE DEF new, items
<1>7. \A r \in made+1 .. made+n : r \in RunIds
  BY <1>1, <1>3, BoundsAssumption DEF Insert, TypeOK, RunIds
<1>8. Inserted(n)
  BY <1>1, <1>4, <1>5, <1>6, <1>7 DEF Inserted, Insert
<1> QED
  BY <1>3, <1>8

-----------------------------------------------------------------------------
(* The invariant, row by row.                                              *)

\* What IInv says of row r when it holds row and its result is pointer.
RowInv(r, row, pointer) ==
  /\ row \in Row /\ pointer \in 0..MaxFence
  /\ r > made <=> row.status = "absent"
  /\ row.status = "absent" => row.progress = 0
  /\ row.status \in {"absent", "queued"} => row.token = 0
  /\ row.status \in Active => row.fence # 0 /\ row.token = row.fence
  /\ row.status \notin Active => row.lease = Past
  /\ row.cancel => row.status \in Active \cup {"cancelled"}
  /\ pointer # 0 => row.status \in Terminal /\ pointer = row.fence
  /\ row.status = "succeeded" => pointer # 0

\* Typing and consistency can be shown one row at a time.
LEMMA ByRow ==
  IInv <=> /\ made \in 0..MaxRuns
           /\ rows = [r \in RunIds |-> rows[r]]
           /\ pointers = [r \in RunIds |-> pointers[r]]
           /\ \A r \in RunIds : RowInv(r, rows[r], pointers[r])
  BY DEF IInv, TypeOK, Consistent, CancelWins, ResultOfWinner, RowInv

\* A step that rewrites one row, and perhaps its pointer, need only preserve
\* the invariant of that row.
LEMMA OneRow ==
  ASSUME IInv, NEW r \in RunIds, NEW row, NEW pointer, RowInv(r, row, pointer),
         made' = made, rows' = [rows EXCEPT ![r] = row],
         pointers' = [pointers EXCEPT ![r] = pointer]
  PROVE  IInv'
<1>1. \A q \in RunIds : RowInv(q, rows'[q], pointers'[q])
  BY ByRow
<1>2. (\A q \in RunIds : RowInv(q, rows[q], pointers[q]))'
  BY <1>1 DEF RowInv
<1>3. /\ made' \in 0..MaxRuns
      /\ rows' = [q \in RunIds |-> rows'[q]]
      /\ pointers' = [q \in RunIds |-> pointers'[q]]
  BY ByRow
<1> QED
  BY <1>2, <1>3 DEF IInv, TypeOK, Consistent, CancelWins, ResultOfWinner, RowInv

\* The same for a step that leaves every result alone.
LEMMA SetRow ==
  ASSUME IInv, NEW r \in RunIds, NEW row, RowInv(r, row, pointers[r]), Set(r, row)
  PROVE  IInv'
<1>1. pointers' = [pointers EXCEPT ![r] = pointers[r]]
  BY ByRow DEF Set
<1> QED
  BY <1>1, OneRow DEF Set

-----------------------------------------------------------------------------
(* Every step preserves the invariant.                                     *)

\* The empty table satisfies the invariant.
LEMMA InitInv == Init => IInv
<1>1. AbsentRow \in Row
  <2>1. NewRow(None, None, 0, None) \in Row
    BY NewRowIsFresh, BoundsAssumption DEF FreshRow
  <2> QED
    BY <2>1 DEF AbsentRow, Row
<1>2. /\ AbsentRow.status = "absent" /\ AbsentRow.progress = 0
      /\ AbsentRow.token = 0 /\ AbsentRow.lease = Past /\ ~ AbsentRow.cancel
  BY DEF AbsentRow, NewRow
<1>3. /\ 0 \in 0..MaxRuns /\ 0 \in 0..MaxFence
      /\ \A r \in RunIds : r > 0
  BY BoundsAssumption DEF RunIds
<1> QED
  BY <1>1, <1>2, <1>3
  DEF Init, IInv, TypeOK, Consistent, CancelWins, ResultOfWinner, Active, Terminal

\* submit, submit_batch and retry_failed add fresh rows only.
LEMMA InsertedInv ==
  ASSUME IInv, NEW n \in Nat, Inserted(n)
  PROVE  IInv'
<1> DEFINE N == made+1 .. made+n
<1>1. made \in Nat /\ made' \in 0..MaxRuns
  BY BoundsAssumption DEF IInv, TypeOK, Inserted
<1>2. ASSUME NEW r \in RunIds, r \in N
      PROVE  RowInv(r, rows[r], pointers[r])'
  <2>1. FreshRow(rows'[r])
    BY <1>2 DEF Inserted
  <2>2. rows[r].status = "absent" /\ pointers[r] = 0
    BY <1>1, <1>2 DEF IInv, Consistent, ResultOfWinner, Terminal, RunIds
  <2>3. ~ (r > made')
    BY <1>1, <1>2 DEF Inserted
  <2> QED
    BY <2>1, <2>2, <2>3, BoundsAssumption
    DEF RowInv, FreshRow, Inserted, Active, Terminal
<1>3. ASSUME NEW r \in RunIds, r \notin N
      PROVE  RowInv(r, rows[r], pointers[r])'
  BY <1>1, <1>3, ByRow DEF RowInv, Inserted, RunIds
<1>4. /\ rows' = [r \in RunIds |-> rows'[r]]
      /\ pointers' = [r \in RunIds |-> pointers'[r]]
  BY ByRow DEF Inserted
<1> QED
  BY <1>1, <1>2, <1>3, <1>4
  DEF IInv, TypeOK, Consistent, CancelWins, ResultOfWinner, RowInv

\* A waiting row is cancelled at once, a held one is only marked.
LEMMA RequestCancelInv ==
  ASSUME IInv, NEW r \in RunIds, RequestCancel(r)
  PROVE  IInv'
<1> DEFINE row == [rows[r] EXCEPT !.cancel = TRUE,
                     !.status = IF @ = "queued" THEN "cancelled" ELSE @]
<1>1. RowInv(r, rows[r], pointers[r])
  BY ByRow
<1>2. RowInv(r, row, pointers[r])
  BY <1>1 DEF RowInv, RequestCancel, Live, Row, Active, Terminal
<1> QED
  BY <1>2, SetRow DEF RequestCancel

\* A claim gives the row its newest fence, token and lease, and only to a row
\* nobody asked to cancel.
LEMMA ClaimInv ==
  ASSUME IInv, NEW r \in RunIds, NEW lag \in Lags, Claim(r, lag)
  PROVE  IInv'
<1> DEFINE row == [rows[r] EXCEPT !.status = "starting", !.fence = @ + 1,
                     !.token = rows[r].fence + 1, !.lease = LeaseTicks - lag,
                     !.bound = FALSE, !.progress = 0]
<1>1. RowInv(r, rows[r], pointers[r])
  BY ByRow
<1>2. row \in Row
  <2>1. rows[r] \in Row /\ rows[r].fence \in 0..MaxFence /\ rows[r].fence < MaxFence
    BY <1>1 DEF RowInv, Row, Claim, Claimable
  <2>2. rows[r].fence + 1 \in 0..MaxFence
    BY <2>1, BoundsAssumption
  <2>3. LeaseTicks - lag \in Past..LeaseTicks
    BY BoundsAssumption, LeaseAssumption DEF Lags, Past
  <2>4. 0 \in 0..MaxProgress
    BY BoundsAssumption
  <2> QED
    BY <2>1, <2>2, <2>3, <2>4 DEF Row, Active
<1>3. rows[r].status = "queued" /\ ~ rows[r].cancel
  BY DEF Claim, Claimable, Waiting
<1>4. rows[r].fence \in Nat /\ rows[r].fence + 1 # 0
  BY <1>1, BoundsAssumption DEF RowInv, Row
<1>5. RowInv(r, row, pointers[r])
  BY <1>1, <1>2, <1>3, <1>4 DEF RowInv, Row, Active, Terminal
<1> QED
  BY <1>5, SetRow DEF Claim

\* A live claim's holder rewrites lease, progress, identity or the running
\* status of its row.
LEMMA HeldRowInv ==
  ASSUME IInv, NEW c \in Claims, NEW row \in Row, Set(c.run, row),
         rows[c.run].status \in Active, row.status \in Active,
         row.cancel = rows[c.run].cancel,
         row.fence = rows[c.run].fence, row.token = rows[c.run].token
  PROVE  IInv'
<1>1. c.run \in RunIds /\ RowInv(c.run, rows[c.run], pointers[c.run])
  BY ByRow DEF Claims
<1>2. RowInv(c.run, row, pointers[c.run])
  BY <1>1 DEF RowInv, Active, Terminal
<1> QED
  BY <1>1, <1>2, SetRow

\* bind_attempt only records the attempt's identity.
LEMMA BindAttemptInv ==
  ASSUME IInv, NEW c \in Claims, BindAttempt(c)
  PROVE  IInv'
<1>1. rows[c.run] \in Row /\ rows[c.run].status \in Active
  BY DEF Claims, IInv, TypeOK, BindAttempt, Mutable, Valid
<1> DEFINE row == [rows[c.run] EXCEPT !.bound = TRUE]
<1>2. row \in Row /\ row.status \in Active
  BY <1>1 DEF Row
<1> QED
  BY <1>1, <1>2, HeldRowInv DEF BindAttempt, Row

\* A heartbeat moves the lease of a held row and nothing else.
LEMMA HeartbeatInv ==
  ASSUME IInv, NEW c \in Claims, NEW lag \in Lags, Heartbeat(c, lag)
  PROVE  IInv'
<1>1. rows[c.run] \in Row /\ rows[c.run].status \in Active
  BY DEF Claims, IInv, TypeOK, Heartbeat, Valid
<1>2. LeaseTicks - lag \in Past..LeaseTicks
  BY BoundsAssumption, LeaseAssumption DEF Lags, Past
<1> DEFINE row == [rows[c.run] EXCEPT !.lease = LeaseTicks - lag]
<1>3. row \in Row /\ row.status \in Active
  BY <1>1, <1>2 DEF Row
<1> QED
  BY <1>1, <1>3, HeldRowInv DEF Heartbeat, Row

\* running() moves a row from one held status to another.
LEMMA RunningInv ==
  ASSUME IInv, NEW c \in Claims, Running(c)
  PROVE  IInv'
<1>1. rows[c.run] \in Row /\ rows[c.run].status \in Active
  BY DEF Claims, IInv, TypeOK, Running, Mutable, Valid
<1> DEFINE row == [rows[c.run] EXCEPT !.status = "running"]
<1>2. row \in Row /\ row.status \in Active
  BY <1>1 DEF Row, Active
<1> QED
  BY <1>1, <1>2, HeldRowInv DEF Running, Row

\* progress() writes one counter of a held row.
LEMMA ProgressInv ==
  ASSUME IInv, NEW c \in Claims, NEW v \in 0..MaxProgress, Progress(c, v)
  PROVE  IInv'
<1>1. rows[c.run] \in Row /\ rows[c.run].status \in Active
  BY DEF Claims, IInv, TypeOK, Progress, Mutable, Valid
<1> DEFINE row == [rows[c.run] EXCEPT !.progress = v]
<1>2. row \in Row /\ row.status \in Active
  BY <1>1 DEF Row
<1> QED
  BY <1>1, <1>2, HeldRowInv DEF Progress, Row

\* The outcome of the newest claim ends the run: cancelled if that was asked
\* for, with its result if it succeeded.
LEMMA CommitOutcomeInv ==
  ASSUME IInv, NEW c \in Claims, NEW outcome \in Terminal, NEW sealed \in BOOLEAN,
         CommitOutcome(c, outcome, sealed)
  PROVE  IInv'
<1> DEFINE r == c.run
           row == [rows[r] EXCEPT !.status = outcome, !.lease = Past]
           pointer == IF sealed THEN c.fence ELSE pointers[r]
<1>1. r \in RunIds /\ c.fence \in 1..MaxFence
  BY DEF Claims, Fences
<1>2. RowInv(r, rows[r], pointers[r])
  BY <1>1, ByRow
<1>3. /\ rows[r].status \in Active /\ rows[r].fence = c.fence
      /\ rows[r].cancel => outcome = "cancelled"
      /\ outcome = "succeeded" => sealed
  BY DEF CommitOutcome, MayCommit, Valid
<1>4. Past \in Past..LeaseTicks
  BY BoundsAssumption, LeaseAssumption DEF Past
<1>5. row \in Row
  BY <1>2, <1>4 DEF RowInv, Row
<1>6. row.status = outcome /\ row.lease = Past /\ row.cancel = rows[r].cancel
      /\ row.fence = c.fence
  BY <1>2, <1>3 DEF RowInv, Row
<1>7. pointer \in 0..MaxFence /\ (pointer # 0 => pointer = c.fence)
      /\ (outcome = "succeeded" => pointer # 0)
  BY <1>1, <1>2, <1>3, BoundsAssumption DEF RowInv, Active, Terminal
<1>8. ~ (r > made)
  BY <1>2, <1>3 DEF RowInv, Active
<1>9. RowInv(r, row, pointer)
  BY <1>5, <1>6, <1>7, <1>8, <1>3 DEF RowInv, Active, Terminal
<1>10. rows' = [rows EXCEPT ![r] = row]
  BY <1>1 DEF CommitOutcome, IInv, TypeOK
<1>11. pointers' = [pointers EXCEPT ![r] = pointer]
  BY <1>1 DEF CommitOutcome, IInv, TypeOK
<1> QED
  BY <1>1, <1>9, <1>10, <1>11, OneRow DEF CommitOutcome

\* Only a held row can be handed back: the token of any other is not a claim's.
LEMMA RecoverStoppedInv ==
  ASSUME IInv, NEW c \in Claims, NEW lag \in Lags, RecoverStopped(c, lag)
  PROVE  IInv'
<1> DEFINE r == c.run
           row == [rows[r] EXCEPT
                     !.status = IF rows[r].cancel THEN "cancelled" ELSE "queued",
                     !.token = 0, !.lease = Past, !.bound = FALSE]
<1>1. r \in RunIds /\ c.fence \in 1..MaxFence
  BY DEF Claims, Fences
<1>2. RowInv(r, rows[r], pointers[r])
  BY <1>1, ByRow
<1>3. rows[r].token # 0 /\ rows[r].status \notin Terminal
  BY <1>1 DEF RecoverStopped, Recoverable
<1>4. rows[r].status \in Active
  BY <1>2, <1>3 DEF RowInv, Row
<1>5. Past \in Past..LeaseTicks /\ 0 \in 0..MaxFence
  BY BoundsAssumption, LeaseAssumption DEF Past
<1>6. row \in Row
  BY <1>2, <1>5 DEF RowInv, Row, Terminal
<1>7. RowInv(r, row, pointers[r])
  BY <1>2, <1>4, <1>6 DEF RowInv, Row, Active, Terminal
<1> QED
  BY <1>1, <1>7, SetRow DEF RecoverStopped

\* The passing of time only shortens leases.
LEMMA TickInv ==
  ASSUME IInv, Tick
  PROVE  IInv'
<1>1. ASSUME NEW r \in RunIds
      PROVE  RowInv(r, rows[r], pointers[r])'
  <2> DEFINE row == [rows[r] EXCEPT !.lease = IF @ > Past THEN @ - 1 ELSE @]
  <2>1. RowInv(r, rows[r], pointers[r])
    BY ByRow
  <2>2. rows[r].lease \in Past..LeaseTicks /\ Past \in Int /\ LeaseTicks \in Int
    BY <2>1, BoundsAssumption, LeaseAssumption DEF RowInv, Row, Past
  <2>3. row \in Row
    BY <2>1, <2>2 DEF RowInv, Row
  <2>4. RowInv(r, row, pointers[r])
    BY <2>1, <2>2, <2>3 DEF RowInv, Row
  <2>5. rows'[r] = row /\ pointers'[r] = pointers[r] /\ made' = made
    BY DEF Tick
  <2> QED
    BY <2>4, <2>5 DEF RowInv
<1>2. /\ made' \in 0..MaxRuns
      /\ rows' = [r \in RunIds |-> rows'[r]]
      /\ pointers' = [r \in RunIds |-> pointers'[r]]
  BY ByRow DEF Tick
<1> QED
  BY <1>1, <1>2
  DEF IInv, TypeOK, Consistent, CancelWins, ResultOfWinner, RowInv

\* Every transaction keeps the invariant.
LEMMA NextInv ==
  ASSUME IInv, [Next]_repo
  PROVE  IInv'
<1>1. TypeOK
  BY DEF IInv
<1>2. ASSUME NEW k \in Keys, NEW config \in Configs, Submit(k, config)
      PROVE  IInv'
  BY <1>1, <1>2, SubmitInserts, InsertedInv
<1>3. ASSUME NEW k \in Keys, NEW config \in Configs, NEW n \in 1..MaxItems,
             SubmitBatch(k, n, config)
      PROVE  IInv'
  BY <1>1, <1>3, SubmitBatchInserts, InsertedInv
<1>4. ASSUME NEW b \in Keys, NEW k \in Keys, RetryFailed(b, k)
      PROVE  IInv'
  BY <1>1, <1>4, RetryFailedInserts, InsertedInv
<1>5. ASSUME NEW r \in RunIds, RequestCancel(r)
      PROVE  IInv'
  BY <1>5, RequestCancelInv
<1>6. ASSUME NEW r \in RunIds, NEW lag \in Lags, Claim(r, lag)
      PROVE  IInv'
  BY <1>6, ClaimInv
<1>7. ASSUME NEW c \in Claims, UseClaim(c)
      PROVE  IInv'
  BY <1>7, BindAttemptInv, RunningInv, ProgressInv, CommitOutcomeInv,
     HeartbeatInv, RecoverStoppedInv DEF UseClaim
<1>8. CASE Tick
  BY <1>8, TickInv
<1>9. CASE UNCHANGED repo
  BY <1>9 DEF repo, IInv, TypeOK, Consistent, CancelWins, ResultOfWinner
<1> QED
  BY <1>2, <1>3, <1>4, <1>5, <1>6, <1>7, <1>8, <1>9 DEF Next

\* The invariant holds of every behaviour of the table.
THEOREM Invariant == Spec => []IInv
<1>1. Init => IInv
  BY InitInv
<1>2. IInv /\ [Next]_repo => IInv'
  BY NextInv
<1> QED
  BY <1>1, <1>2, PTL DEF Spec

\* Every variable keeps its type in every behaviour of the table, whatever the
\* bounds, keys and configurations.
THEOREM TypeCorrect == Spec => []TypeOK
  BY Invariant, PTL DEF IInv

\* A run whose cancellation was asked for is held or cancelled and nothing else.
THEOREM CancellationWins == Spec => []CancelWins
  BY Invariant, PTL DEF IInv

\* A published result is that of the last claim of an ended run, and every
\* succeeded run has one.
THEOREM ResultBelongsToWinner == Spec => []ResultOfWinner
  BY Invariant, PTL DEF IInv

-----------------------------------------------------------------------------
(* What one step may do to one row.                                        *)

Same(r, field) == rows'[r][field] = rows[r][field]

Appears(r) == rows[r].status = "absent" /\ FreshRow(rows'[r])

Asked(r) == /\ rows[r].status \in {"queued"} \cup Active
            /\ rows'[r] = [rows[r] EXCEPT !.cancel = TRUE,
                             !.status = IF @ = "queued" THEN "cancelled" ELSE @]

Taken(r) == /\ rows[r].status = "queued" /\ rows'[r].status = "starting"
            /\ rows'[r].fence = rows[r].fence + 1
            /\ Same(r, "cancel")

Kept(r) == /\ rows[r].status \in Active /\ rows'[r].status \in Active
           /\ Same(r, "cancel") /\ Same(r, "fence")
           /\ rows'[r].progress >= rows[r].progress

Ended(r) == /\ rows[r].status \in Active /\ rows'[r].status \in Terminal
            /\ rows[r].cancel => rows'[r].status = "cancelled"
            /\ Same(r, "cancel") /\ Same(r, "fence") /\ Same(r, "progress")
            /\ pointers'[r] \in {pointers[r], rows[r].fence}
            /\ rows'[r].status = "succeeded" => pointers'[r] = rows[r].fence

HandedBack(r) ==
  /\ rows[r].status \in Active /\ rows[r].lease <= 0
  /\ rows'[r].status = IF rows[r].cancel THEN "cancelled" ELSE "queued"
  /\ Same(r, "cancel") /\ Same(r, "fence") /\ Same(r, "progress")

RowStep(r) == \/ rows'[r] = rows[r] /\ pointers'[r] = pointers[r]
              \/ Ended(r)
              \/ /\ Appears(r) \/ Asked(r) \/ Taken(r) \/ Kept(r) \/ HandedBack(r)
                 /\ pointers'[r] = pointers[r]

\* No row that exists is touched by an insertion.
LEMMA InsertedRowStep ==
  ASSUME IInv, NEW n \in Nat, Inserted(n), NEW r \in RunIds
  PROVE  RowStep(r)
<1>1. made \in Nat /\ r \in Nat
  BY BoundsAssumption DEF IInv, TypeOK, RunIds
<1>2. CASE r \in made+1 .. made+n
  <2>1. rows[r].status = "absent"
    BY <1>1, <1>2 DEF IInv, Consistent
  <2> QED
    BY <1>2, <2>1 DEF Inserted, RowStep, Appears
<1>3. CASE r \notin made+1 .. made+n
  BY <1>3 DEF Inserted, RowStep
<1> QED
  BY <1>2, <1>3

\* A transaction under a claim touches its own run only, and ends it, keeps it
\* held or hands it back.
LEMMA UseClaimRowStep ==
  ASSUME IInv, NEW c \in Claims, UseClaim(c), NEW r \in RunIds
  PROVE  RowStep(r)
<1>1. /\ c.run \in RunIds /\ c.fence \in 1..MaxFence
      /\ RowInv(c.run, rows[c.run], pointers[c.run])
  BY ByRow DEF Claims, Fences
<1>2. /\ rows = [q \in RunIds |-> rows[q]] /\ rows[c.run] \in Row
      /\ pointers = [q \in RunIds |-> pointers[q]]
  BY <1>1, ByRow DEF RowInv
<1>3. CASE BindAttempt(c)
  BY <1>1, <1>2, <1>3, BoundsAssumption
  DEF BindAttempt, Mutable, Valid, Set, RowStep, Kept, Same, Row
<1>4. CASE Running(c)
  BY <1>1, <1>2, <1>4, BoundsAssumption
  DEF Running, Mutable, Valid, Set, RowStep, Kept, Same, Row, Active
<1>5. ASSUME NEW v \in 0..MaxProgress, Progress(c, v)
      PROVE  RowStep(r)
  BY <1>1, <1>2, <1>5, BoundsAssumption
  DEF Progress, Mutable, Valid, Set, RowStep, Kept, Same, Row
<1>6. ASSUME NEW lag \in Lags, Heartbeat(c, lag)
      PROVE  RowStep(r)
  BY <1>1, <1>2, <1>6, BoundsAssumption
  DEF Heartbeat, Valid, Set, RowStep, Kept, Same, Row
<1>7. ASSUME NEW outcome \in Terminal, NEW sealed \in BOOLEAN,
             CommitOutcome(c, outcome, sealed)
      PROVE  RowStep(r)
  BY <1>1, <1>2, <1>7
  DEF CommitOutcome, MayCommit, Valid, RowStep, Ended, Same, Row
<1>8. ASSUME NEW lag \in Lags, RecoverStopped(c, lag)
      PROVE  RowStep(r)
  <2>1. rows[c.run].status \in Active
    BY <1>1, <1>8 DEF RecoverStopped, Recoverable, RowInv, Row
  <2>2. rows[c.run].lease <= 0
    BY <1>2, <1>8, BoundsAssumption, LeaseAssumption
    DEF RecoverStopped, Recoverable, Row, Lags, Past
  <2> QED
    BY <1>1, <1>2, <1>8, <2>1, <2>2
    DEF RecoverStopped, Set, RowStep, HandedBack, Same, Row
<1> QED
  BY <1>3, <1>4, <1>5, <1>6, <1>7, <1>8 DEF UseClaim

\* What any transaction may do to any row.
LEMMA EveryRowStep ==
  ASSUME IInv, [Next]_repo, NEW r \in RunIds
  PROVE  RowStep(r)
<1>1. TypeOK /\ RowInv(r, rows[r], pointers[r])
  BY ByRow DEF IInv
<1>2. ASSUME NEW k \in Keys, NEW config \in Configs, Submit(k, config)
      PROVE  RowStep(r)
  BY <1>1, <1>2, SubmitInserts, InsertedRowStep
<1>3. ASSUME NEW k \in Keys, NEW config \in Configs, NEW n \in 1..MaxItems,
             SubmitBatch(k, n, config)
      PROVE  RowStep(r)
  BY <1>1, <1>3, SubmitBatchInserts, InsertedRowStep
<1>4. ASSUME NEW b \in Keys, NEW k \in Keys, RetryFailed(b, k)
      PROVE  RowStep(r)
  BY <1>1, <1>4, RetryFailedInserts, InsertedRowStep
<1>5. ASSUME NEW q \in RunIds, RequestCancel(q)
      PROVE  RowStep(r)
  BY <1>1, <1>5 DEF RequestCancel, Live, Set, RowStep, Asked, TypeOK, Active
<1>6. ASSUME NEW q \in RunIds, NEW lag \in Lags, Claim(q, lag)
      PROVE  RowStep(r)
  BY <1>1, <1>6
  DEF Claim, Claimable, Waiting, Set, RowStep, Taken, Same, TypeOK, Row
<1>7. ASSUME NEW c \in Claims, UseClaim(c)
      PROVE  RowStep(r)
  BY <1>7, UseClaimRowStep
<1>8. CASE Tick
  <2>1. rows'[r] = [rows[r] EXCEPT !.lease = IF @ > Past THEN @ - 1 ELSE @]
        /\ pointers'[r] = pointers[r]
    BY <1>8 DEF Tick
  <2>2. CASE rows[r].status \in Active
    BY <1>1, <2>1, <2>2, BoundsAssumption DEF RowStep, Kept, Same, RowInv, Row
  <2>3. CASE rows[r].status \notin Active
    <3>1. rows[r].lease = Past /\ ~ (Past > Past)
      BY <1>1, <2>3, BoundsAssumption DEF RowInv, Past
    <3>2. rows'[r] = rows[r]
      BY <1>1, <2>1, <3>1 DEF RowInv, Row
    <3> QED
      BY <2>1, <3>2 DEF RowStep
  <2> QED
    BY <2>2, <2>3
<1>9. CASE UNCHANGED repo
  BY <1>9 DEF repo, RowStep
<1> QED
  BY <1>2, <1>3, <1>4, <1>5, <1>6, <1>7, <1>8, <1>9 DEF Next

\* A run that has ended keeps its outcome, its counters and its result.
THEOREM EndedRunsAreSettled == Spec => Settled
<1>1. ASSUME IInv, [Next]_repo, NEW r \in RunIds, rows[r].status \in Terminal
      PROVE  rows'[r] = rows[r] /\ pointers'[r] = pointers[r]
  BY <1>1, EveryRowStep
  DEF RowStep, Ended, Appears, Asked, Taken, Kept, HandedBack, Active, Terminal
<1>2. IInv /\ [Next]_repo =>
        [\A r \in RunIds : rows[r].status \in Terminal =>
            rows'[r] = rows[r] /\ pointers'[r] = pointers[r]]_repo
  BY <1>1
<1> QED
  BY <1>2, Invariant, PTL DEF Spec, Settled

\* A run leaves its holder for the queue, or is claimed anew, only after its
\* lease ran out.
THEOREM LeasesAreHonoured == Spec => LeaseHonoured
<1>1. ASSUME IInv, [Next]_repo, NEW r \in RunIds, rows[r].status \in Active,
             rows'[r].status = "queued" \/ rows'[r].fence # rows[r].fence
      PROVE  rows[r].lease <= 0
  BY <1>1, EveryRowStep
  DEF RowStep, Ended, Appears, Asked, Taken, Kept, HandedBack, Same, Active,
      Terminal, IInv, TypeOK, Row
<1>2. IInv /\ [Next]_repo =>
        [\A r \in RunIds :
           /\ rows[r].status \in Active
           /\ rows'[r].status = "queued" \/ rows'[r].fence # rows[r].fence
           => rows[r].lease <= 0]_repo
  BY <1>1
<1> QED
  BY <1>2, Invariant, PTL DEF Spec, LeaseHonoured

\* The progress of one attempt never goes back.
THEOREM ProgressGrows == Spec => ProgressOfAttempt
<1>1. ASSUME IInv, [Next]_repo, NEW r \in RunIds, rows'[r].fence = rows[r].fence
      PROVE  rows'[r].progress >= rows[r].progress
  <2>1. /\ rows[r] \in Row /\ rows[r].fence \in Nat /\ rows[r].progress \in Nat
        /\ rows[r].status = "absent" => rows[r].progress = 0
    BY <1>1, BoundsAssumption DEF IInv, TypeOK, Consistent, Row
  <2>2. RowStep(r)
    BY <1>1, EveryRowStep
  <2> QED
    <3>1. CASE Appears(r)
      BY <2>1, <3>1, BoundsAssumption DEF Appears, FreshRow, Row
    <3>2. CASE Asked(r)
      BY <2>1, <3>2 DEF Asked, Row
    <3>3. CASE Taken(r)
      BY <1>1, <2>1, <3>3 DEF Taken
    <3>4. CASE Kept(r)
      BY <3>4 DEF Kept
    <3>5. CASE Ended(r) \/ HandedBack(r)
      BY <2>1, <3>5 DEF Ended, HandedBack, Same
    <3>6. CASE rows'[r] = rows[r]
      BY <2>1, <3>6
    <3> QED
      BY <2>2, <3>1, <3>2, <3>3, <3>4, <3>5, <3>6 DEF RowStep
<1>2. IInv /\ [Next]_repo =>
        [\A r \in RunIds : rows'[r].fence = rows[r].fence =>
            rows'[r].progress >= rows[r].progress]_repo
  BY <1>1
<1> QED
  BY <1>2, Invariant, PTL DEF Spec, ProgressOfAttempt

-----------------------------------------------------------------------------
(* The table's bounds on queued and held runs.                             *)

\* Sets of run ids are finite and have a cardinality.
LEMMA SetsOfRunsAreFinite ==
  ASSUME NEW S, S \subseteq RunIds
  PROVE  IsFiniteSet(S) /\ Cardinality(S) \in Nat
<1>1. IsFiniteSet(RunIds)
  BY FS_Interval, BoundsAssumption DEF RunIds
<1> QED
  BY <1>1, FS_Subset, FS_CardinalityType

\* A step inserts rows, or finds all the rows there.
LEMMA InsertsOrNot ==
  ASSUME IInv, [Next]_repo
  PROVE  (\E n \in Nat : Inserted(n)) \/ made' = made
<1>1. TypeOK
  BY DEF IInv
<1>2. ASSUME NEW k \in Keys, NEW config \in Configs, Submit(k, config)
      PROVE  Inserted(1)
  BY <1>1, <1>2, SubmitInserts
<1>3. ASSUME NEW k \in Keys, NEW config \in Configs, NEW n \in 1..MaxItems,
             SubmitBatch(k, n, config)
      PROVE  n \in Nat /\ Inserted(n)
  BY <1>1, <1>3, SubmitBatchInserts
<1>4. ASSUME NEW b \in Keys, NEW k \in Keys, RetryFailed(b, k)
      PROVE  \E n \in Nat : Inserted(n)
  BY <1>1, <1>4, RetryFailedInserts
<1>5. ASSUME NEW c \in Claims, UseClaim(c)
      PROVE  made' = made
  BY <1>5 DEF UseClaim, BindAttempt, Running, Progress, CommitOutcome,
              Heartbeat, RecoverStopped, Set
<1>6. ASSUME NEW r \in RunIds, RequestCancel(r) \/ \E lag \in Lags : Claim(r, lag)
      PROVE  made' = made
  BY <1>6 DEF RequestCancel, Claim, Set
<1>7. CASE Tick \/ UNCHANGED repo
  BY <1>7 DEF Tick, repo
<1> QED
  BY <1>2, <1>3, <1>4, <1>5, <1>6, <1>7 DEF Next

\* An insertion passes _capacity first, so the queue stays bounded.
LEMMA InsertedQueue ==
  ASSUME IInv, NEW n \in Nat, Inserted(n)
  PROVE  QueueBounded'
<1> DEFINE N == made+1 .. made+n
<1>1. made \in Nat /\ N \subseteq RunIds
  BY BoundsAssumption DEF IInv, TypeOK, Inserted, RunIds
<1>2. IsFiniteSet(N) /\ Cardinality(N) = n
  <2>1. made+1 \in Int /\ made+n \in Int
    BY <1>1
  <2>2. Cardinality(N) = IF made+1 > made+n THEN 0 ELSE (made+n) - (made+1) + 1
    BY <2>1, FS_Interval
  <2> QED
    BY <1>1, <2>1, <2>2, FS_Interval
<1>3. Live \subseteq RunIds /\ IsFiniteSet(Live) /\ Cardinality(Live) \in Nat
  BY SetsOfRunsAreFinite DEF Live
<1>4. Live' \subseteq Live \cup N
  BY DEF Live, Inserted
<1>5. Cardinality(Live \cup N) <= Cardinality(Live) + n /\ IsFiniteSet(Live \cup N)
  <2>1. Cardinality(Live \cap N) \in Nat
    BY <1>3, FS_Intersection, FS_CardinalityType
  <2>2. /\ IsFiniteSet(Live \cup N)
        /\ Cardinality(Live \cup N) = Cardinality(Live) + n - Cardinality(Live \cap N)
    BY <1>2, <1>3, FS_Union
  <2> QED
    BY <1>3, <2>1, <2>2
<1>6. Cardinality(Live') <= Cardinality(Live \cup N) /\ Cardinality(Live') \in Nat
      /\ Cardinality(Live \cup N) \in Nat
  BY <1>4, <1>5, FS_Subset, FS_CardinalityType
<1> QED
  BY <1>3, <1>5, <1>6, PolicyAssumption DEF QueueBounded, Inserted, Room

\* However submissions, batches, retries, cancellations and recoveries
\* interleave, the runs that have not ended fit the queue.
THEOREM QueueStaysBounded == Spec => []QueueBounded
<1>1. Init => QueueBounded
  <2> SUFFICES ASSUME Init PROVE Cardinality(Live) <= QueueLimit
    BY DEF QueueBounded
  <2>1. Live = {}
    BY DEF Init, Live, AbsentRow, NewRow, Active
  <2> QED
    BY <2>1, FS_EmptySet, PolicyAssumption
<1>2. ASSUME IInv, QueueBounded, [Next]_repo
      PROVE  QueueBounded'
  <2>1. CASE \E n \in Nat : Inserted(n)
    BY <1>2, <2>1, InsertedQueue
  <2>2. CASE made' = made
    <3>1. ASSUME NEW r \in RunIds PROVE ~ Appears(r)
      BY <1>2, <2>2, NextInv DEF Appears, FreshRow, IInv, Consistent
    <3>2. Live' \subseteq Live
      BY <1>2, <3>1, EveryRowStep
      DEF Live, RowStep, Ended, Asked, Taken, Kept, HandedBack, Active, Terminal
    <3>3. Cardinality(Live') <= Cardinality(Live)
          /\ Cardinality(Live) \in Nat /\ Cardinality(Live') \in Nat
      BY <3>2, SetsOfRunsAreFinite, FS_Subset, FS_CardinalityType DEF Live
    <3> QED
      BY <1>2, <3>3, PolicyAssumption DEF QueueBounded
  <2> QED
    BY <1>2, <2>1, <2>2, InsertsOrNot
<1> QED
  BY <1>1, <1>2, Invariant, PTL DEF Spec

-----------------------------------------------------------------------------
(* The attempts of a batch item.                                           *)

\* What marks a row as an attempt at an item of a batch is given at insertion;
\* while some row carries a batch's name, the name is a used key.
BatchKnown ==
  \A r \in RunIds :
    /\ rows[r].status = "absent" => rows[r].key = None /\ rows[r].batch = None
    /\ rows[r].batch # None => ~ Unused("batch", rows[r].batch)

SameLabels(r) == Same(r, "key") /\ Same(r, "batch") /\ Same(r, "index") /\ Same(r, "config")

\* Every transaction but the client's inserts leaves the labels alone.
LEMMA LabelsKept ==
  ASSUME IInv, [Next]_repo
  PROVE  \/ \A r \in RunIds : SameLabels(r)
         \/ \E k \in Keys, config \in Configs :
              \/ Submit(k, config)
              \/ \E n \in 1..MaxItems : SubmitBatch(k, n, config)
         \/ \E b, k \in Keys : RetryFailed(b, k)
<1>1. TypeOK
  BY DEF IInv
<1>2. ASSUME NEW r \in RunIds, RequestCancel(r)
      PROVE  \A q \in RunIds : SameLabels(q)
  BY <1>1, <1>2 DEF RequestCancel, Set, SameLabels, Same, TypeOK, Row
<1>3. ASSUME NEW r \in RunIds, NEW lag \in Lags, Claim(r, lag)
      PROVE  \A q \in RunIds : SameLabels(q)
  BY <1>1, <1>3 DEF Claim, Set, SameLabels, Same, TypeOK, Row
<1>4. ASSUME NEW c \in Claims, UseClaim(c)
      PROVE  \A q \in RunIds : SameLabels(q)
  <2>1. c.run \in RunIds
    BY DEF Claims
  <2>2. CASE BindAttempt(c)
    BY <1>1, <2>1, <2>2 DEF BindAttempt, Set, SameLabels, Same, TypeOK, Row
  <2>3. CASE Running(c)
    BY <1>1, <2>1, <2>3 DEF Running, Set, SameLabels, Same, TypeOK, Row
  <2>4. ASSUME NEW v \in 0..MaxProgress, Progress(c, v)
        PROVE  \A q \in RunIds : SameLabels(q)
    BY <1>1, <2>1, <2>4 DEF Progress, Set, SameLabels, Same, TypeOK, Row
  <2>5. ASSUME NEW outcome \in Terminal, NEW sealed \in BOOLEAN,
               CommitOutcome(c, outcome, sealed)
        PROVE  \A q \in RunIds : SameLabels(q)
    BY <1>1, <2>1, <2>5 DEF CommitOutcome, SameLabels, Same, TypeOK, Row
  <2>6. ASSUME NEW lag \in Lags, Heartbeat(c, lag)
        PROVE  \A q \in RunIds : SameLabels(q)
    BY <1>1, <2>1, <2>6 DEF Heartbeat, Set, SameLabels, Same, TypeOK, Row
  <2>7. ASSUME NEW lag \in Lags, RecoverStopped(c, lag)
        PROVE  \A q \in RunIds : SameLabels(q)
    BY <1>1, <2>1, <2>7 DEF RecoverStopped, Set, SameLabels, Same, TypeOK, Row
  <2> QED
    BY <1>4, <2>2, <2>3, <2>4, <2>5, <2>6, <2>7 DEF UseClaim
<1>5. CASE Tick
  BY <1>1, <1>5 DEF Tick, SameLabels, Same, TypeOK, Row
<1>6. CASE UNCHANGED repo
  BY <1>6 DEF repo, SameLabels, Same
<1> QED
  BY <1>2, <1>3, <1>4, <1>5, <1>6 DEF Next

\* The rows N are new, one for each of some items of batch b (None: of no
\* batch), under fresh keys.
Labelled(N, b) ==
  /\ \A r \in N : /\ rows[r].status = "absent" /\ rows'[r].status = "queued"
                  /\ rows'[r].key # None /\ rows'[r].batch = b
  /\ \A q, r \in N : rows'[q].index = rows'[r].index => q = r
  /\ \A r \in RunIds \ N : rows'[r] = rows[r]

\* The rows N are NewRow's for the items, in the order that item gives.
Placed(N, kind, k, b, items, item) ==
  /\ item \in Bijection(N, items)
  /\ \A r \in N : /\ rows'[r].status = "queued" /\ rows'[r].batch = b
                  /\ rows'[r].index = item[r]
                  /\ rows'[r].key = <<kind, k, item[r]>>
  /\ \A r \in RunIds \ N : rows'[r] = rows[r]

\* The rows of one INSERT carry the batch and the index asked for.
LEMMA InsertLabels ==
  ASSUME IInv, NEW N \in SUBSET RunIds, \A r \in N : r > made,
         NEW kind, NEW k, NEW b, NEW items, NEW item,
         Placed(N, kind, k, b, items, item),
         kind \in {"submit", "batch", "retry"}, k \in Keys, items \subseteq 0..MaxItems
  PROVE  Labelled(N, b)
<1>1. \A r \in N : item[r] \in items
  BY DEF Placed, Bijection, Injection
<1>2. \A q, r \in N : item[q] = item[r] => q = r
  BY DEF Placed, Bijection, Injection, IsInjective
<1>3. ASSUME NEW r \in N
      PROVE  rows'[r].key # None /\ rows[r].status = "absent"
  <2>1. <<kind, k, item[r]>> \in KeySet
    BY <1>1 DEF KeySet
  <2> QED
    BY <2>1, NoneAssumption DEF Placed, IInv, Consistent
<1>4. ASSUME NEW q \in N, NEW r \in N, rows'[q].index = rows'[r].index
      PROVE  q = r
  BY <1>2, <1>4 DEF Placed
<1> QED
  BY <1>3, <1>4 DEF Placed, Labelled

\* What an insert preserves, given that it names a used or fresh batch and that
\* the earlier attempts of its items have failed.
LEMMA LabelledBatches ==
  ASSUME IInv, NEW N \in SUBSET RunIds, NEW b \in Keys \cup {None},
         Labelled(N, b), BatchKnown, OneLiveAttempt,
         \A q \in N, r \in RunIds \ N : q < r => rows[r].status = "absent",
         b # None => \E r \in RunIds : /\ rows'[r].key # None
                                       /\ rows'[r].key[1] = "batch"
                                       /\ rows'[r].key[2] = b,
         \A q \in RunIds \ N, r \in N :
           (b # None /\ rows[q].batch = b /\ rows[q].index = rows'[r].index)
             => rows[q].status = "failed"
  PROVE  BatchKnown' /\ OneLiveAttempt'
<1>1. ASSUME NEW r \in RunIds, rows'[r].status = "absent"
      PROVE  rows'[r].key = None /\ rows'[r].batch = None
  BY <1>1 DEF Labelled, BatchKnown
<1>2. ASSUME NEW r \in RunIds, rows'[r].batch # None
      PROVE  \E q \in RunIds : /\ rows'[q].key # None
                               /\ rows'[q].key[1] = "batch"
                               /\ rows'[q].key[2] = rows'[r].batch
  <2>1. CASE r \in N
    BY <1>2, <2>1 DEF Labelled
  <2>2. CASE r \notin N
    <3>1. rows'[r] = rows[r] /\ ~ Unused("batch", rows[r].batch)
      BY <1>2, <2>2 DEF Labelled, BatchKnown
    <3>2. PICK q \in RunIds : /\ rows[q].key # None
                              /\ rows[q].key[1] = "batch"
                              /\ rows[q].key[2] = rows[r].batch
      BY <3>1 DEF Unused
    <3>3. q \notin N
      BY <3>2 DEF Labelled, BatchKnown
    <3> QED
      BY <3>1, <3>2, <3>3 DEF Labelled
  <2> QED
    BY <2>1, <2>2
<1>3. ASSUME NEW q \in RunIds, NEW r \in RunIds, q < r, rows'[r].batch # None,
             rows'[q].batch = rows'[r].batch, rows'[q].index = rows'[r].index
      PROVE  rows'[q].status = "failed"
  <2>1. CASE q \notin N /\ r \notin N
    BY <1>3, <2>1 DEF Labelled, OneLiveAttempt
  <2>2. CASE q \notin N /\ r \in N
    BY <1>3, <2>2 DEF Labelled
  <2>3. CASE q \in N /\ r \notin N
    BY <1>3, <2>3 DEF Labelled, BatchKnown
  <2>4. CASE q \in N /\ r \in N
    <3>1. q = r
      BY <1>3, <2>4 DEF Labelled
    <3> QED
      BY <1>3, <3>1 DEF RunIds
  <2> QED
    BY <2>1, <2>2, <2>3, <2>4
<1> QED
  BY <1>1, <1>2, <1>3 DEF BatchKnown, OneLiveAttempt, Unused

\* The ids an INSERT takes are run ids nobody has.
LEMMA RangeOfInsert ==
  ASSUME IInv, NEW n \in Nat, made + n <= MaxRuns
  PROVE  /\ made+1 .. made+n \in SUBSET RunIds
         /\ \A r \in made+1 .. made+n : r > made
         /\ \A q \in made+1 .. made+n, r \in RunIds \ (made+1 .. made+n) :
              q < r => rows[r].status = "absent"
  BY BoundsAssumption DEF IInv, TypeOK, Consistent, RunIds

\* submit() makes no batch row, so it adds no second attempt.
LEMMA SubmitBatches ==
  ASSUME IInv, BatchKnown, OneLiveAttempt,
         NEW k \in Keys, NEW config \in Configs, Submit(k, config)
  PROVE  BatchKnown' /\ OneLiveAttempt'
<1> DEFINE new(i) == NewRow(<<"submit", k, i>>, None, i, config)
           N == made+1 .. made+1
<1>1. Insert({0}, new) /\ Cardinality({0}) = 1
  BY FS_Singleton DEF Submit
<1>2. PICK item \in Bijection(N, {0}) :
         rows' = [r \in RunIds |-> IF r \in N THEN new(item[r]) ELSE rows[r]]
  BY <1>1 DEF Insert
<1>3. made + 1 <= MaxRuns
  BY <1>1 DEF Insert
<1>4. /\ N \in SUBSET RunIds /\ \A r \in N : r > made
      /\ \A q \in N, r \in RunIds \ N : q < r => rows[r].status = "absent"
  BY <1>3, RangeOfInsert
<1>5. Placed(N, "submit", k, None, {0}, item)
  BY <1>2, <1>4 DEF Placed, NewRow
<1>6. {0} \subseteq 0..MaxItems
  BY BoundsAssumption
<1> HIDE DEF N
<1>7. Labelled(N, None)
  BY <1>4, <1>5, <1>6, InsertLabels
<1> QED
  BY <1>4, <1>7, LabelledBatches

\* A batch's key is unused, so no row is an attempt at any of its items.
LEMMA SubmitBatchBatches ==
  ASSUME IInv, BatchKnown, OneLiveAttempt, NEW k \in Keys,
         NEW n \in 1..MaxItems, NEW config \in Configs, SubmitBatch(k, n, config)
  PROVE  BatchKnown' /\ OneLiveAttempt'
<1> DEFINE new(i) == NewRow(<<"batch", k, i>>, k, i, config)
           N == made+1 .. made+n
<1>1. Insert(1..n, new) /\ Unused("batch", k)
  BY DEF SubmitBatch
<1>2. n \in Nat /\ n >= 1 /\ Cardinality(1..n) = n
  BY FS_Interval, BoundsAssumption
<1>3. PICK item \in Bijection(N, 1..n) :
         rows' = [r \in RunIds |-> IF r \in N THEN new(item[r]) ELSE rows[r]]
  BY <1>1, <1>2 DEF Insert
<1>4. made + n <= MaxRuns /\ made \in Nat
  BY <1>1, <1>2, BoundsAssumption DEF Insert, IInv, TypeOK
<1>5. /\ N \in SUBSET RunIds /\ \A r \in N : r > made
      /\ \A q \in N, r \in RunIds \ N : q < r => rows[r].status = "absent"
  BY <1>2, <1>4, RangeOfInsert
<1>6. Placed(N, "batch", k, k, 1..n, item)
  BY <1>3, <1>5 DEF Placed, NewRow
<1>7. 1..n \subseteq 0..MaxItems /\ made+1 \in N
  BY <1>2, <1>4, BoundsAssumption
<1> HIDE DEF N
<1>8. Labelled(N, k)
  BY <1>5, <1>6, <1>7, InsertLabels
<1>9. \E r \in RunIds : /\ rows'[r].key # None /\ rows'[r].key[1] = "batch"
                        /\ rows'[r].key[2] = k
  BY <1>5, <1>6, <1>7, <1>8 DEF Labelled, Placed
<1>10. \A q \in RunIds : rows[q].batch # k
  BY <1>1, NoneAssumption DEF BatchKnown
<1> QED
  BY <1>5, <1>8, <1>9, <1>10, LabelledBatches

\* The newest attempt at an item that is retried has failed, and so have the
\* ones before it.
LEMMA RetryFailedBatches ==
  ASSUME IInv, BatchKnown, OneLiveAttempt, NEW b \in Keys, NEW k \in Keys,
         RetryFailed(b, k)
  PROVE  BatchKnown' /\ OneLiveAttempt'
<1> DEFINE items == FailedItems(b)
           n == Cardinality(items)
           new(i) == NewRow(<<"retry", k, i>>, b, i, rows[Latest(b, i)].config)
           N == made+1 .. made+n
<1>1. Insert(items, new) /\ items # {}
  BY DEF RetryFailed
<1>2. items \subseteq 0..MaxItems /\ n \in Nat
  <2>1. IsFiniteSet(1..MaxItems) /\ items \subseteq 1..MaxItems
    BY FS_Interval, BoundsAssumption DEF FailedItems
  <2> QED
    BY <2>1, FS_Subset, FS_CardinalityType, BoundsAssumption
<1>3. ASSUME NEW i \in items
      PROVE  /\ Latest(b, i) \in Attempts(b, i)
             /\ \A q \in Attempts(b, i) : q <= Latest(b, i)
             /\ rows[Latest(b, i)].status = "failed"
  BY LatestIsAttempt DEF FailedItems
<1>4. PICK item \in Bijection(N, items) :
         rows' = [r \in RunIds |-> IF r \in N THEN new(item[r]) ELSE rows[r]]
  BY <1>1 DEF Insert
<1>5. made + n <= MaxRuns
  BY <1>1 DEF Insert
<1>6. /\ N \in SUBSET RunIds /\ \A r \in N : r > made
      /\ \A q \in N, r \in RunIds \ N : q < r => rows[r].status = "absent"
  BY <1>2, <1>5, RangeOfInsert
<1>7. Placed(N, "retry", k, b, items, item)
  BY <1>4, <1>6 DEF Placed, NewRow
<1> HIDE DEF N, items
<1>8. Labelled(N, b)
  BY <1>2, <1>6, <1>7, InsertLabels
<1>9. \E q \in RunIds : /\ rows'[q].key # None /\ rows'[q].key[1] = "batch"
                        /\ rows'[q].key[2] = b
  <2>1. PICK i \in items : TRUE
    BY <1>1
  <2>2. Latest(b, i) \in RunIds /\ rows[Latest(b, i)].batch = b
    BY <1>3 DEF Attempts
  <2>3. PICK q \in RunIds : /\ rows[q].key # None /\ rows[q].key[1] = "batch"
                            /\ rows[q].key[2] = b
    BY <2>2, NoneAssumption DEF BatchKnown, Unused
  <2>4. q \notin N
    BY <1>8, <2>3 DEF Labelled, BatchKnown
  <2> QED
    BY <1>8, <2>3, <2>4 DEF Labelled
<1>10. ASSUME NEW q \in RunIds \ N, NEW r \in N, rows[q].batch = b,
              rows[q].index = rows'[r].index
       PROVE  rows[q].status = "failed"
  <2> DEFINE i == item[r]
             l == Latest(b, i)
  <2>1. i \in items
    BY <1>7 DEF Placed, Bijection, Injection
  <2>2. q \in Attempts(b, i)
    BY <1>7, <1>10 DEF Placed, Attempts
  <2>3. q <= l
    BY <1>3, <2>1, <2>2
  <2>4. l \in RunIds /\ rows[l].batch = b /\ rows[l].index = i /\ rows[l].status = "failed"
    BY <1>3, <2>1 DEF Attempts
  <2>5. rows[q].index = i
    BY <2>2 DEF Attempts
  <2>6. CASE q = l
    BY <2>4, <2>6
  <2>7. CASE q < l
    BY <1>10, <2>4, <2>5, <2>7, NoneAssumption DEF OneLiveAttempt
  <2> QED
    BY <2>3, <2>4, <2>6, <2>7 DEF RunIds
<1> QED
  BY <1>6, <1>8, <1>9, <1>10, LabelledBatches

\* An item of a batch is attempted again only after its earlier attempts have
\* failed, however submissions, retries, late outcomes and recoveries
\* interleave.
THEOREM AttemptsFollowFailures == Spec => []OneLiveAttempt
<1>1. Init => BatchKnown /\ OneLiveAttempt
  BY DEF Init, BatchKnown, OneLiveAttempt, AbsentRow, NewRow
<1>2. ASSUME IInv, BatchKnown, OneLiveAttempt, [Next]_repo
      PROVE  BatchKnown' /\ OneLiveAttempt'
  <2>1. ASSUME NEW k \in Keys, NEW config \in Configs,
               \/ Submit(k, config)
               \/ \E n \in 1..MaxItems : SubmitBatch(k, n, config)
        PROVE  BatchKnown' /\ OneLiveAttempt'
    BY <1>2, <2>1, SubmitBatches, SubmitBatchBatches
  <2>2. ASSUME NEW b \in Keys, NEW k \in Keys, RetryFailed(b, k)
        PROVE  BatchKnown' /\ OneLiveAttempt'
    BY <1>2, <2>2, RetryFailedBatches
  <2>3. CASE \A r \in RunIds : SameLabels(r)
    <3>1. ASSUME NEW r \in RunIds
          PROVE  /\ rows[r].status = "failed" => rows'[r].status = "failed"
                 /\ rows'[r].status = "absent" => rows[r].status = "absent"
      BY <1>2, EveryRowStep
      DEF RowStep, Ended, Appears, FreshRow, Asked, Taken, Kept, HandedBack,
          Active, Terminal, IInv, TypeOK, Row
    <3>2. BatchKnown'
      BY <1>2, <2>3, <3>1 DEF BatchKnown, Unused, SameLabels, Same
    <3>3. OneLiveAttempt'
      BY <1>2, <2>3, <3>1 DEF OneLiveAttempt, SameLabels, Same
    <3> QED
      BY <3>2, <3>3
  <2> QED
    BY <1>2, <2>1, <2>2, <2>3, LabelsKept
<1> QED
  BY <1>1, <1>2, Invariant, PTL DEF Spec
-----------------------------------------------------------------------------
(* The group budget.                                                       *)

\* Only a row that is not there has no configuration.
Configured == \A r \in RunIds : rows[r].status # "absent" => rows[r].config \in Configs

\* A row is left with its configuration, or is new and has one.
KeepsConfig(r) ==
  \/ rows'[r].config = rows[r].config /\ (rows[r].status = "absent" <=> rows'[r].status = "absent")
  \/ rows[r].status = "absent" /\ rows'[r].config \in Configs /\ rows'[r].status = "queued"

\* One INSERT of rows with configurations.
LEMMA InsertConfigures ==
  ASSUME IInv, NEW n \in Nat, Inserted(n),
         \A r \in made+1 .. made+n : rows'[r].config \in Configs
  PROVE  \A r \in RunIds : KeepsConfig(r)
<1> SUFFICES ASSUME NEW r \in RunIds PROVE KeepsConfig(r)
  OBVIOUS
<1>1. made \in Nat /\ r \in Nat
  BY BoundsAssumption DEF IInv, TypeOK, RunIds
<1>2. CASE r \in made+1 .. made+n
  <2>1. rows[r].status = "absent"
    BY <1>1, <1>2 DEF IInv, Consistent
  <2> QED
    BY <1>2, <2>1 DEF Inserted, KeepsConfig, FreshRow
<1>3. CASE r \notin made+1 .. made+n
  BY <1>3 DEF Inserted, KeepsConfig
<1> QED
  BY <1>2, <1>3

\* The rows a client adds have the configuration it asks for, or that of the
\* attempt they repeat.
LEMMA ClientConfigures ==
  ASSUME IInv, Configured,
         \/ \E k \in Keys, config \in Configs :
              Submit(k, config) \/ \E n \in 1..MaxItems : SubmitBatch(k, n, config)
         \/ \E b, k \in Keys : RetryFailed(b, k)
  PROVE  \A r \in RunIds : KeepsConfig(r)
<1>1. TypeOK
  BY DEF IInv
<1>2. ASSUME NEW k \in Keys, NEW config \in Configs, Submit(k, config)
      PROVE  \A r \in RunIds : KeepsConfig(r)
  <2>1. Inserted(1)
    BY <1>1, <1>2, SubmitInserts
  <2>2. Cardinality({0}) = 1
    BY FS_Singleton
  <2>3. \A r \in made+1 .. made+1 : r \in RunIds
    BY <1>1, <2>1, BoundsAssumption DEF Inserted, TypeOK, RunIds
  <2>4. \A r \in made+1 .. made+1 : rows'[r].config = config
    BY <1>2, <2>2, <2>3 DEF Submit, Insert, NewRow
  <2> QED
    BY <2>1, <2>4, InsertConfigures
<1>3. ASSUME NEW k \in Keys, NEW config \in Configs, NEW n \in 1..MaxItems,
             SubmitBatch(k, n, config)
      PROVE  \A r \in RunIds : KeepsConfig(r)
  <2>1. Inserted(n) /\ n \in Nat
    BY <1>1, <1>3, SubmitBatchInserts
  <2>2. Cardinality(1..n) = n
    BY FS_Interval, BoundsAssumption
  <2>3. \A r \in made+1 .. made+n : r \in RunIds
    BY <1>1, <2>1, BoundsAssumption DEF Inserted, TypeOK, RunIds
  <2>4. \A r \in made+1 .. made+n : rows'[r].config = config
    BY <1>3, <2>2, <2>3 DEF SubmitBatch, Insert, NewRow
  <2> QED
    BY <2>1, <2>4, InsertConfigures
<1>4. ASSUME NEW b \in Keys, NEW k \in Keys, RetryFailed(b, k)
      PROVE  \A r \in RunIds : KeepsConfig(r)
  <2> DEFINE items == FailedItems(b)
             n == Cardinality(items)
             new(i) == NewRow(<<"retry", k, i>>, b, i, rows[Latest(b, i)].config)
  <2>1. Insert(items, new)
    BY <1>4 DEF RetryFailed
  <2>2. PICK m \in Nat : Inserted(m)
    BY <1>1, <1>4, RetryFailedInserts
  <2>3. n \in Nat
    <3>1. items \subseteq 1..MaxItems /\ IsFiniteSet(1..MaxItems)
      BY FS_Interval, BoundsAssumption DEF FailedItems
    <3> QED
      BY <3>1, FS_Subset, FS_CardinalityType
  <2>4. m = n
    BY <1>1, <2>1, <2>2, <2>3, BoundsAssumption DEF Inserted, Insert, TypeOK
  <2>5. PICK item \in Bijection(made+1 .. made+n, items) :
           rows' = [r \in RunIds |-> IF r \in made+1 .. made+n
                                     THEN new(item[r]) ELSE rows[r]]
    BY <2>1 DEF Insert
  <2>6. \A r \in made+1 .. made+n : item[r] \in items
    BY <2>5 DEF Bijection, Injection
  <2>7. \A i \in items : new(i).config \in Configs
    <3> SUFFICES ASSUME NEW i \in items PROVE new(i).config \in Configs
      OBVIOUS
    <3>1. Latest(b, i) \in RunIds /\ rows[Latest(b, i)].status = "failed"
      BY LatestIsAttempt DEF FailedItems, Attempts
    <3> QED
      BY <3>1 DEF Configured, NewRow
  <2>8. \A r \in made+1 .. made+n : r \in RunIds
    BY <1>1, <2>2, <2>4, BoundsAssumption DEF Inserted, TypeOK, RunIds
  <2> HIDE DEF new, items, n
  <2>9. \A r \in made+1 .. made+n : rows'[r].config \in Configs
    BY <2>5, <2>6, <2>7, <2>8
  <2> QED
    BY <2>2, <2>4, <2>9, InsertConfigures
<1> QED
  BY <1>2, <1>3, <1>4

\* Every transaction leaves each row its configuration or gives it one.
LEMMA ConfigsKept ==
  ASSUME IInv, Configured, [Next]_repo
  PROVE  \A r \in RunIds : KeepsConfig(r)
<1> DEFINE Inserts == \/ \E k \in Keys, config \in Configs :
                           Submit(k, config) \/ \E n \in 1..MaxItems : SubmitBatch(k, n, config)
                     \/ \E b, k \in Keys : RetryFailed(b, k)
<1>1. CASE Inserts
  BY <1>1, ClientConfigures
<1>2. CASE ~ Inserts
  <2>1. \A r \in RunIds : SameLabels(r)
    BY <1>2, LabelsKept
  <2>2. made' = made
    <3>1. ASSUME NEW c \in Claims, UseClaim(c)
          PROVE  made' = made
      BY <3>1 DEF UseClaim, BindAttempt, Running, Progress, CommitOutcome,
                  Heartbeat, RecoverStopped, Set
    <3>2. ASSUME NEW r \in RunIds, RequestCancel(r) \/ \E lag \in Lags : Claim(r, lag)
          PROVE  made' = made
      BY <3>2 DEF RequestCancel, Claim, Set
    <3>3. CASE Tick \/ UNCHANGED repo
      BY <3>3 DEF Tick, repo
    <3> QED
      BY <1>2, <3>1, <3>2, <3>3 DEF Next
  <2>3. ASSUME NEW r \in RunIds
        PROVE  rows[r].status = "absent" <=> rows'[r].status = "absent"
    BY <2>2, NextInv DEF IInv, Consistent
  <2> QED
    BY <2>1, <2>3 DEF SameLabels, Same, KeepsConfig
<1> QED
  BY <1>1, <1>2

\* Rows come to be held one at a time, by a claim.
LEMMA ClaimedOrNot ==
  ASSUME IInv, [Next]_repo
  PROVE  \/ \E r \in RunIds, lag \in Lags : Claim(r, lag)
         \/ Held' \subseteq Held
<1>1. TypeOK
  BY DEF IInv
<1>2. ASSUME NEW n \in Nat, Inserted(n) PROVE Held' \subseteq Held
  BY <1>2 DEF Inserted, FreshRow, Held, Active
<1>3. ASSUME NEW r \in RunIds, RequestCancel(r) PROVE Held' \subseteq Held
  BY <1>1, <1>3 DEF RequestCancel, Set, Held, Active, TypeOK
<1>4. ASSUME NEW c \in Claims, UseClaim(c) PROVE Held' \subseteq Held
  <2>1. c.run \in RunIds /\ rows[c.run] \in Row
    BY <1>1 DEF Claims, TypeOK
  <2>2. CASE BindAttempt(c)
    BY <1>1, <2>1, <2>2 DEF BindAttempt, Set, Held, TypeOK
  <2>3. CASE Running(c)
    BY <1>1, <2>1, <2>3 DEF Running, Mutable, Valid, Set, Held, TypeOK
  <2>4. ASSUME NEW v \in 0..MaxProgress, Progress(c, v) PROVE Held' \subseteq Held
    BY <1>1, <2>1, <2>4 DEF Progress, Set, Held, TypeOK
  <2>5. ASSUME NEW outcome \in Terminal, NEW sealed \in BOOLEAN,
               CommitOutcome(c, outcome, sealed)
        PROVE  Held' \subseteq Held
    BY <1>1, <2>1, <2>5 DEF CommitOutcome, Held, Active, Terminal, TypeOK
  <2>6. ASSUME NEW lag \in Lags, Heartbeat(c, lag) PROVE Held' \subseteq Held
    BY <1>1, <2>1, <2>6 DEF Heartbeat, Set, Held, TypeOK
  <2>7. ASSUME NEW lag \in Lags, RecoverStopped(c, lag) PROVE Held' \subseteq Held
    BY <1>1, <2>1, <2>7 DEF RecoverStopped, Set, Held, Active, TypeOK
  <2> QED
    BY <1>4, <2>2, <2>3, <2>4, <2>5, <2>6, <2>7 DEF UseClaim
<1>5. CASE Tick
  BY <1>1, <1>5 DEF Tick, Held, TypeOK
<1>6. CASE UNCHANGED repo
  BY <1>6 DEF repo, Held
<1>7. CASE \E k \in Keys, config \in Configs :
             Submit(k, config) \/ \E n \in 1..MaxItems : SubmitBatch(k, n, config)
  BY <1>1, <1>2, <1>7, SubmitInserts, SubmitBatchInserts
<1>8. CASE \E b, k \in Keys : RetryFailed(b, k)
  BY <1>1, <1>2, <1>8, RetryFailedInserts
<1> QED
  BY <1>3, <1>4, <1>5, <1>6, <1>7, <1>8 DEF Next

\* Fits, said of any rows.
FitsOf(table, S) ==
  /\ Cardinality(S) <= Concurrency
  /\ \A d \in Resources :
       SumFunction([r \in S |-> Limits[table[r].config][d]]) + Reserve[d] <= Budget[d]

\* Fewer of the rows fit too.
LEMMA FewerFit ==
  ASSUME NEW old, NEW new, NEW S \in SUBSET RunIds, NEW T \in SUBSET S, FitsOf(old, S),
         \A r \in S : old[r].config \in Configs,
         \A r \in T : new[r].config = old[r].config
  PROVE  FitsOf(new, T)
<1>1. IsFiniteSet(S) /\ Cardinality(S) \in Nat /\ Cardinality(T) \in Nat
      /\ Cardinality(T) <= Cardinality(S)
  BY SetsOfRunsAreFinite, FS_Subset
<1>2. Cardinality(T) <= Concurrency
  BY <1>1, PolicyAssumption DEF FitsOf
<1>3. ASSUME NEW d \in Resources
      PROVE  SumFunction([r \in T |-> Limits[new[r].config][d]]) + Reserve[d] <= Budget[d]
  <2> DEFINE g == [r \in S |-> Limits[old[r].config][d]]
             h == [r \in T |-> Limits[new[r].config][d]]
  <2>1. g \in [S -> Nat]
    BY PolicyAssumption
  <2>2. h \in [T -> Nat] /\ \A x \in T : h[x] = g[x]
    BY PolicyAssumption
  <2>3. DOMAIN g = S /\ DOMAIN h = T
    OBVIOUS
  <2>4. SumFunction(g) + Reserve[d] <= Budget[d]
    BY DEF FitsOf
  <2> HIDE DEF g, h
  <2>5. /\ SumFunctionOnSet(g, S) \in Nat /\ SumFunctionOnSet(h, T) \in Nat
        /\ SumFunctionOnSet(h, T) <= SumFunctionOnSet(g, S)
    BY <1>1, <2>1, <2>2, SumGrows
  <2>6. SumFunction(g) = SumFunctionOnSet(g, S) /\ SumFunction(h) = SumFunctionOnSet(h, T)
    BY <2>3 DEF SumFunction
  <2>7. Reserve[d] \in Nat /\ Budget[d] \in Nat
    BY PolicyAssumption
  <2>8. SumFunction(h) + Reserve[d] <= Budget[d]
    BY <2>4, <2>5, <2>6, <2>7
  <2> QED
    BY <2>8 DEF h
<1> QED
  BY <1>2, <1>3 DEF FitsOf

\* The runs that supervisors hold fit the group budget: a claim adds up what is
\* held, under the lock of the queue, and nothing else comes to be held.
THEOREM HeldRunsFit == Spec => []ReservationsFit
<1>1. Init => Configured /\ ReservationsFit
  BY DEF Init, Configured, ReservationsFit, Held, AbsentRow, NewRow, Active
<1>2. ASSUME IInv, Configured, ReservationsFit, [Next]_repo
      PROVE  (Configured /\ ReservationsFit)'
  <2>1. \A r \in RunIds : KeepsConfig(r)
    BY <1>2, ConfigsKept
  <2>2. Configured'
    BY <1>2, <2>1 DEF Configured, KeepsConfig
  <2>3. \A r \in RunIds : rows[r].status \in Active \cup {"queued"} =>
          rows'[r].config = rows[r].config /\ rows[r].config \in Configs
    BY <1>2, <2>1 DEF Configured, KeepsConfig, Active
  <2>4. ASSUME NEW S \in SUBSET RunIds, FitsOf(rows, S), Held' \subseteq S,
               \A r \in S : rows[r].status \in Active \cup {"queued"}
        PROVE  FitsOf(rows', Held')
    BY <2>3, <2>4, FewerFit
  <2>0. ReservationsFit' <=> Held' = {} \/ FitsOf(rows', Held')
    BY DEF ReservationsFit, Fits, FitsOf
  <2>5. CASE Held' \subseteq Held
    <3>1. CASE Held = {}
      <4>1. Held' = {}
        BY <2>5, <3>1
      <4> QED
        BY <2>0, <2>2, <4>1
    <3>2. CASE Held # {}
      <4>1. FitsOf(rows, Held)
        BY <1>2, <3>2 DEF ReservationsFit, Fits, FitsOf
      <4>2. FitsOf(rows', Held')
        BY <2>4, <2>5, <4>1 DEF Held
      <4> QED
        BY <2>0, <2>2, <4>2
    <3> QED
      BY <3>1, <3>2
  <2>6. ASSUME NEW r \in RunIds, NEW lag \in Lags, Claim(r, lag)
        PROVE  ReservationsFit'
    <3>1. FitsOf(rows, Held \cup {r}) /\ rows[r].status = "queued"
      BY <2>6 DEF Claim, Claimable, Waiting, Fits, FitsOf
    <3>2. Held' \subseteq Held \cup {r}
      BY <1>2, <2>6 DEF Claim, Set, Held, IInv, TypeOK
    <3>3. FitsOf(rows', Held')
      BY <2>4, <3>1, <3>2 DEF Held
    <3> QED
      BY <2>0, <3>3
  <2> QED
    BY <1>2, <2>2, <2>5, <2>6, ClaimedOrNot
<1> QED
  BY <1>1, <1>2, Invariant, PTL DEF Spec

-----------------------------------------------------------------------------
(* The table implements the life of a run.                                 *)

phase     == [r \in RunIds |-> PhaseOf(rows[r])]
asked     == [r \in RunIds |-> rows[r].cancel]
published == [r \in RunIds |-> pointers[r] # 0]

\* The phase of a row is one of the abstract ones.
LEMMA Phases ==
  ASSUME NEW row \in Row
  PROVE  /\ PhaseOf(row) = "none"    <=> row.status = "absent"
         /\ PhaseOf(row) = "waiting" <=> row.status = "queued"
         /\ PhaseOf(row) = "held"    <=> row.status \in Active
         /\ row.status \in Terminal => PhaseOf(row) = row.status
  BY DEF PhaseOf, Row, Active, Terminal

\* Changing one row changes one run of the abstract specification.
LEMMA OneRowMaps ==
  ASSUME IInv, NEW r \in RunIds, NEW row, NEW p, NEW a, Set(r, row),
         p = PhaseOf(row), a = row.cancel
  PROVE  /\ phase' = [phase EXCEPT ![r] = p]
         /\ asked' = [asked EXCEPT ![r] = a]
         /\ published' = published
  BY DEF Set, phase, asked, published, IInv, TypeOK

\* A step that leaves a run's status class, its cancellation flag and its
\* result alone is invisible.
LEMMA KeptStutters ==
  ASSUME IInv, NEW r \in RunIds, NEW row \in Row, Set(r, row),
         PhaseOf(row) = PhaseOf(rows[r]), row.cancel = rows[r].cancel
  PROVE  UNCHANGED <<phase, asked, published>>
<1>1. /\ phase' = [phase EXCEPT ![r] = PhaseOf(rows[r])]
      /\ asked' = [asked EXCEPT ![r] = rows[r].cancel]
      /\ published' = published
  BY OneRowMaps
<1> QED
  BY <1>1 DEF phase, asked

\* New rows are new runs, accepted together.
LEMMA InsertedMaps ==
  ASSUME IInv, NEW n \in Nat, Inserted(n)
  PROVE  Lifecycle!Accept
<1> DEFINE N == {r \in RunIds : r \in made+1 .. made+n}
<1>1. \A r \in N : /\ rows[r].status = "absent" /\ rows[r] \in Row /\ ~ rows[r].cancel
                   /\ rows'[r].status = "queued" /\ rows'[r] \in Row
                   /\ ~ rows'[r].cancel
  BY BoundsAssumption
  DEF IInv, TypeOK, Consistent, CancelWins, Inserted, FreshRow, Active
<1>2. \A r \in RunIds \ N : rows'[r] = rows[r]
  BY DEF Inserted
<1>3. N \in SUBSET {r \in RunIds : phase[r] = "none"}
  BY <1>1, Phases DEF phase
<1>4. phase' = [r \in RunIds |-> IF r \in N THEN "waiting" ELSE phase[r]]
  BY <1>1, <1>2, Phases DEF phase
<1>5. asked' = asked
  BY <1>1, <1>2 DEF asked, IInv, TypeOK, Row
<1>6. published' = published
  BY DEF published, Inserted
<1> QED
  BY <1>3, <1>4, <1>5, <1>6 DEF Lifecycle!Accept, phase, asked, published

\* request_cancel is the abstract Ask.
LEMMA RequestCancelMaps ==
  ASSUME IInv, NEW r \in RunIds, RequestCancel(r)
  PROVE  Lifecycle!Ask(r)
<1> DEFINE row == [rows[r] EXCEPT !.cancel = TRUE,
                     !.status = IF @ = "queued" THEN "cancelled" ELSE @]
<1>1. rows[r] \in Row /\ row \in Row
  BY DEF IInv, TypeOK, Row, Terminal
<1>2. rows[r].status \in {"queued"} \cup Active
  BY DEF RequestCancel, Live
<1>3. /\ row.cancel
      /\ row.status = IF rows[r].status = "queued" THEN "cancelled" ELSE rows[r].status
  BY <1>1 DEF Row
<1>4. /\ PhaseOf(rows[r]) \in {"waiting", "held"}
      /\ PhaseOf(row) = IF PhaseOf(rows[r]) = "waiting" THEN "cancelled" ELSE PhaseOf(rows[r])
  BY <1>1, <1>2, <1>3 DEF PhaseOf, Active
<1>5. Set(r, row)
  BY DEF RequestCancel
<1> HIDE DEF row
<1>6. /\ phase' = [phase EXCEPT ![r] = PhaseOf(row)]
      /\ asked' = [asked EXCEPT ![r] = TRUE]
      /\ published' = published
  BY <1>3, <1>5, OneRowMaps
<1> QED
  BY <1>4, <1>6 DEF Lifecycle!Ask, phase, asked, published

\* claim is the abstract Take: Fits keeps the holders within Concurrency.
LEMMA ClaimMaps ==
  ASSUME IInv, NEW r \in RunIds, NEW lag \in Lags, Claim(r, lag)
  PROVE  Lifecycle!Take(r)
<1> DEFINE row == [rows[r] EXCEPT !.status = "starting", !.fence = @ + 1,
                     !.token = rows[r].fence + 1, !.lease = LeaseTicks - lag,
                     !.bound = FALSE, !.progress = 0]
<1>1. rows[r] \in Row /\ rows[r].status = "queued"
  BY DEF IInv, TypeOK, Claim, Claimable, Waiting
<1>2. row.cancel = rows[r].cancel /\ row.status = "starting"
  BY <1>1 DEF Row
<1>3. PhaseOf(rows[r]) = "waiting" /\ PhaseOf(row) = "held"
  BY <1>1, <1>2 DEF PhaseOf, Active
<1>4. Set(r, row)
  BY DEF Claim
<1> HIDE DEF row
<1>5. /\ phase' = [phase EXCEPT ![r] = "held"]
      /\ asked' = [asked EXCEPT ![r] = rows[r].cancel]
      /\ published' = published
  BY <1>2, <1>3, <1>4, OneRowMaps
<1>6. Cardinality({q \in RunIds : phase[q] = "held"}) < Concurrency
  <2>1. {q \in RunIds : phase[q] = "held"} = Held
    BY Phases DEF phase, Held, IInv, TypeOK
  <2>2. IsFiniteSet(Held) /\ Cardinality(Held) \in Nat
    BY SetsOfRunsAreFinite DEF Held
  <2>3. r \notin Held
    BY <1>1 DEF Held, Active
  <2>4. Cardinality(Held \cup {r}) <= Concurrency
    BY DEF Claim, Claimable, Fits
  <2>5. Cardinality(Held \cup {r}) = Cardinality(Held) + 1
    BY <2>2, <2>3, FS_AddElement
  <2>6. Cardinality(Held) < Concurrency
    BY <2>2, <2>4, <2>5, PolicyAssumption
  <2> QED
    BY <2>1, <2>6
<1>7. asked' = asked
  BY <1>5 DEF asked
<1>8. phase[r] = "waiting"
  BY <1>3 DEF phase
<1>9. Lifecycle!Holding = {q \in RunIds : phase[q] = "held"}
  BY DEF Lifecycle!Holding, phase
<1>10. Lifecycle!Cardinality(Lifecycle!Holding) < Concurrency
  BY <1>6, <1>9 DEF Lifecycle!Cardinality, Cardinality
<1> QED
  BY <1>5, <1>7, <1>8, <1>10 DEF Lifecycle!Take, phase, asked, published

\* A run that is let go of ends or is handed back.
LEMMA CommitOutcomeMaps ==
  ASSUME IInv, NEW c \in Claims, NEW outcome \in Terminal, NEW sealed \in BOOLEAN,
         CommitOutcome(c, outcome, sealed)
  PROVE  Lifecycle!End(c.run, outcome)
<1> DEFINE r == c.run
<1>1. r \in RunIds /\ c.fence \in 1..MaxFence
  BY DEF Claims, Fences
<1>2. /\ rows[r] \in Row /\ rows[r].status \in Active
      /\ rows[r].cancel => outcome = "cancelled"
      /\ outcome = "succeeded" => sealed
  BY <1>1 DEF CommitOutcome, MayCommit, Valid, IInv, TypeOK
<1>3. /\ rows'[r] \in Row /\ rows'[r].status = outcome
      /\ rows'[r].cancel = rows[r].cancel
      /\ \A q \in RunIds \ {r} : rows'[q] = rows[q]
  <2>1. IInv'
    BY CommitOutcomeInv
  <2> QED
    BY <1>1, <1>2, <2>1 DEF CommitOutcome, IInv, TypeOK, Row
<1>4. phase[r] = "held" /\ phase' = [phase EXCEPT ![r] = outcome]
  BY <1>1, <1>2, <1>3, Phases DEF phase
<1>5. asked' = asked /\ (asked[r] => outcome = "cancelled")
  BY <1>1, <1>2, <1>3 DEF asked
<1>6. published' = IF sealed THEN [published EXCEPT ![r] = TRUE] ELSE published
  <2>1. CASE sealed
    <3>1. pointers' = [pointers EXCEPT ![r] = c.fence]
      BY <1>1, <2>1 DEF CommitOutcome
    <3>2. /\ pointers'[r] # 0
          /\ \A q \in RunIds \ {r} : pointers'[q] = pointers[q]
      BY <1>1, <3>1, BoundsAssumption DEF IInv, TypeOK
    <3> QED
      BY <1>1, <2>1, <3>2 DEF published
  <2>2. CASE ~ sealed
    <3>1. pointers' = pointers
      BY <1>1, <2>2 DEF CommitOutcome, IInv, TypeOK
    <3> QED
      BY <2>2, <3>1 DEF published
  <2> QED
    BY <2>1, <2>2
<1>7. /\ published' \in {published, [published EXCEPT ![r] = TRUE]}
      /\ outcome = "succeeded" => published'[r]
  BY <1>1, <1>2, <1>6 DEF published
<1> QED
  BY <1>4, <1>5, <1>7 DEF Lifecycle!End, phase, asked, published

\* recover_stopped hands a run back, or ends one that was to be cancelled.
LEMMA RecoverStoppedMaps ==
  ASSUME IInv, NEW c \in Claims, NEW lag \in Lags, RecoverStopped(c, lag)
  PROVE  Lifecycle!HandBack(c.run) \/ Lifecycle!End(c.run, "cancelled")
<1> DEFINE r == c.run
<1>1. r \in RunIds /\ c.fence \in 1..MaxFence
  BY DEF Claims, Fences
<1>2. rows[r] \in Row /\ rows[r].status \in Active
  BY <1>1 DEF RecoverStopped, Recoverable, IInv, TypeOK, Consistent, Row
<1>3. /\ rows'[r] \in Row
      /\ rows'[r].status = IF rows[r].cancel THEN "cancelled" ELSE "queued"
      /\ rows'[r].cancel = rows[r].cancel
      /\ \A q \in RunIds \ {r} : rows'[q] = rows[q]
      /\ pointers' = pointers
  <2>1. IInv'
    BY RecoverStoppedInv
  <2> QED
    BY <1>1, <1>2, <2>1 DEF RecoverStopped, Set, IInv, TypeOK, Row
<1>4. /\ phase[r] = "held"
      /\ phase' = [phase EXCEPT ![r] = IF rows[r].cancel THEN "cancelled" ELSE "waiting"]
  BY <1>1, <1>2, <1>3, Phases DEF phase, Terminal
<1>5. asked' = asked /\ asked[r] = rows[r].cancel /\ published' = published
  BY <1>1, <1>2, <1>3 DEF asked, published
<1>6. CASE rows[r].cancel
  BY <1>4, <1>5, <1>6 DEF Lifecycle!End, phase, asked, published
<1>7. CASE ~ rows[r].cancel
  BY <1>4, <1>5, <1>7 DEF Lifecycle!HandBack, phase, asked, published
<1> QED
  BY <1>6, <1>7

\* A holder's other transactions, and the passing of time, do not show.
LEMMA HeldStutters ==
  ASSUME IInv, NEW c \in Claims,
         \/ BindAttempt(c) \/ Running(c)
         \/ \E v \in 0..MaxProgress : Progress(c, v)
         \/ \E lag \in Lags : Heartbeat(c, lag)
  PROVE  UNCHANGED <<phase, asked, published>>
<1> DEFINE r == c.run
<1>1. r \in RunIds /\ rows[r] \in Row /\ rows[r].status \in Active /\ IInv'
  BY BindAttemptInv, RunningInv, ProgressInv, HeartbeatInv
  DEF Claims, IInv, TypeOK, BindAttempt, Running, Progress, Heartbeat, Mutable, Valid
<1>2. /\ rows'[r].cancel = rows[r].cancel /\ rows'[r].status \in Active
      /\ \A q \in RunIds \ {r} : rows'[q] = rows[q]
      /\ pointers' = pointers
  <2>1. CASE BindAttempt(c)
    BY <1>1, <2>1 DEF BindAttempt, Set, IInv, TypeOK, Row
  <2>2. CASE Running(c)
    BY <1>1, <2>2 DEF Running, Set, IInv, TypeOK, Row, Active
  <2>3. CASE \E v \in 0..MaxProgress : Progress(c, v)
    BY <1>1, <2>3 DEF Progress, Set, IInv, TypeOK, Row
  <2>4. CASE \E lag \in Lags : Heartbeat(c, lag)
    BY <1>1, <2>4 DEF Heartbeat, Set, IInv, TypeOK, Row
  <2> QED
    BY <2>1, <2>2, <2>3, <2>4
<1>3. PhaseOf(rows'[r]) = PhaseOf(rows[r])
  BY <1>1, <1>2 DEF PhaseOf, Active
<1> QED
  BY <1>1, <1>2, <1>3 DEF phase, asked, published

\* Time is not visible in the abstract specification.
LEMMA TickStutters ==
  ASSUME IInv, Tick
  PROVE  UNCHANGED <<phase, asked, published>>
<1>1. ASSUME NEW r \in RunIds
      PROVE  rows'[r].status = rows[r].status /\ rows'[r].cancel = rows[r].cancel
  BY DEF Tick, IInv, TypeOK, Row
<1>2. pointers' = pointers
  BY DEF Tick
<1> QED
  BY <1>1, <1>2 DEF phase, asked, published, PhaseOf

\* The table of runs, used by any number of supervisors with claims of any age
\* and readings of the clock of any age, implements the life of a run: it is
\* held by one holder at a time, ends once, and what was cancelled is not
\* executed again.
THEOREM TableImplementsLifecycle == Spec => LifecycleSpec
<1>1. Init => Lifecycle!Init
  <2>1. AbsentRow.status = "absent" /\ AbsentRow.cancel = FALSE
    BY DEF AbsentRow, NewRow
  <2>2. PhaseOf(AbsentRow) = "none"
    BY <2>1 DEF PhaseOf, Active
  <2> QED
    BY <2>1, <2>2 DEF Init, Lifecycle!Init
<1>2. ASSUME IInv, [Next]_repo
      PROVE  Lifecycle!Next \/ UNCHANGED <<phase, asked, published>>
  <2>1. ASSUME NEW n \in Nat, Inserted(n)
        PROVE  Lifecycle!Next
    BY <1>2, <2>1, InsertedMaps DEF Lifecycle!Next
  <2>2. CASE \E n \in Nat : Inserted(n)
    BY <2>1, <2>2
  <2>3. TypeOK
    BY <1>2 DEF IInv
  <2>4. ASSUME NEW k \in Keys, NEW config \in Configs,
               \/ Submit(k, config)
               \/ \E n \in 1..MaxItems : SubmitBatch(k, n, config)
        PROVE  \E n \in Nat : Inserted(n)
    BY <2>3, <2>4, SubmitInserts, SubmitBatchInserts
  <2>5. ASSUME NEW b \in Keys, NEW k \in Keys, RetryFailed(b, k)
        PROVE  \E n \in Nat : Inserted(n)
    BY <2>3, <2>5, RetryFailedInserts
  <2>6. ASSUME NEW r \in RunIds, RequestCancel(r)
        PROVE  Lifecycle!Next
    BY <1>2, <2>6, RequestCancelMaps DEF Lifecycle!Next
  <2>7. ASSUME NEW r \in RunIds, NEW lag \in Lags, Claim(r, lag)
        PROVE  Lifecycle!Next
    BY <1>2, <2>7, ClaimMaps DEF Lifecycle!Next
  <2>8. ASSUME NEW c \in Claims, UseClaim(c)
        PROVE  Lifecycle!Next \/ UNCHANGED <<phase, asked, published>>
    <3>1. c.run \in RunIds /\ Lifecycle!Ended = Terminal /\ "cancelled" \in Terminal
      BY DEF Claims, Lifecycle!Ended, Terminal
    <3>2. ASSUME NEW outcome \in Terminal, NEW sealed \in BOOLEAN,
                 CommitOutcome(c, outcome, sealed)
          PROVE  Lifecycle!Next
      BY <1>2, <3>1, <3>2, CommitOutcomeMaps DEF Lifecycle!Next
    <3>3. ASSUME NEW lag \in Lags, RecoverStopped(c, lag)
          PROVE  Lifecycle!Next
      BY <1>2, <3>1, <3>3, RecoverStoppedMaps DEF Lifecycle!Next
    <3> QED
      BY <1>2, <2>8, <3>2, <3>3, HeldStutters DEF UseClaim
  <2>9. CASE Tick
    BY <1>2, <2>9, TickStutters
  <2>10. CASE UNCHANGED repo
    BY <2>10 DEF repo, phase, asked, published
  <2> QED
    BY <1>2, <2>2, <2>4, <2>5, <2>6, <2>7, <2>8, <2>9, <2>10 DEF Next
<1>3. IInv /\ [Next]_repo => [Lifecycle!Next]_(Lifecycle!vars)
  BY <1>2 DEF Lifecycle!vars, phase, asked, published
<1> QED
  BY <1>1, <1>3, Invariant, PTL DEF Spec, LifecycleSpec, Lifecycle!Spec

=============================================================================
