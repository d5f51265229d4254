-------------------------- MODULE MCTaskScheduler --------------------------
(***************************************************************************)
(* Instances of TaskScheduler: a collector, and local updates.             *)
(***************************************************************************)
EXTENDS TaskScheduler, TLC
Sym == Permutations(Procs)

MCPriority    == [t \in Tasks |-> IF t \in Local THEN 1 ELSE 0]
MCConcurrency == [t \in Tasks |-> IF t \in Local THEN 2 ELSE 1]
MCQueueLimit  == [t \in Tasks |-> 1]
MCCovers      == [t \in Local |-> Entries]

-----------------------------------------------------------------------------
(* Work that recurs for ever: an ended row to which nothing refers is      *)
(* forgotten, and the rows after it move down by one.  A row that waits    *)
(* moves down until it stays at one place, so that what every place leads  *)
(* to, every row does.                                                     *)

Referred(r) == \/ r \in lost.look \cup lost.ended
               \/ \E p \in Procs : \/ pick[p].open \/ r \in claimed[p] \cup Futures(p)

\* The latest claimed run of a task is kept when a global stop may depend on it.
Forgettable(r) ==
  LET others == Of(rows[r].task, Claimed) \ {r}
  IN  /\ rows[r].status \in Terminal /\ ~Referred(r)
      /\ (\E q \in others : q > r) \/ (~rows[r].halt /\ \A q \in others : ~rows[q].halt)

Down(S, r)        == {IF q > r THEN q - 1 ELSE q : q \in S \ {r}}
Shift(f, r, none) == [q \in RunIds |-> IF q < r THEN f[q] ELSE IF q < MaxRuns THEN f[q + 1] ELSE none]

Forget(r) ==
  /\ Forgettable(r)
  /\ rows' = Shift(rows, r, NoRow)
  /\ fut' = [p \in Procs |-> Shift(fut[p], r, NoFuture)]
  /\ claimed' = [p \in Procs |-> Down(claimed[p], r)]
  /\ lost' = [lost EXCEPT !.look = Down(@, r), !.ended = Down(@, r)]
  /\ starts' = Shift(starts, r, 0) /\ report' = Shift(report, r, "none")
  /\ UNCHANGED <<state, source, intent, mode, pick, outages, unknown>>

RecurringNext == Next \/ \E r \in RunIds : Forget(r)

\* A bound: such a row changes nothing any more, so that it is forgotten before
\* anything else happens; every step is put off only until then.
ForgetFirst == (\E r \in RunIds : Forgettable(r)) => \E r \in RunIds : Forget(r)

RecurringSpec == Init /\ [][RecurringNext]_vars /\ Fairness
=============================================================================
