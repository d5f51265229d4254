---------------------------- MODULE RunLifecycle ----------------------------
(***************************************************************************)
(* What the backtest run service promises of a run, whoever executes it:   *)
(* an accepted run waits, is executed by one holder at a time, may be      *)
(* handed back to the queue, and ends once.  The statuses and the promise  *)
(* are those of contracts/run_service.md:31-36.  RunRepository and         *)
(* LocalRunQueue implement this specification.                             *)
(***************************************************************************)
EXTENDS Naturals, FiniteSets

CONSTANTS Runs,          \* identities of runs
          Concurrency    \* holders at a time

VARIABLES phase,         \* none, waiting, held, succeeded, failed, cancelled
          asked,         \* cancellation has been asked for
          published      \* a result is visible to readers

vars == <<phase, asked, published>>

Ended == {"succeeded", "failed", "cancelled"}
Holding == {r \in Runs : phase[r] = "held"}

Init == /\ phase     = [r \in Runs |-> "none"]
        /\ asked     = [r \in Runs |-> FALSE]
        /\ published = [r \in Runs |-> FALSE]

Accept == \E new \in SUBSET {r \in Runs : phase[r] = "none"} :
             /\ phase' = [r \in Runs |-> IF r \in new THEN "waiting" ELSE phase[r]]
             /\ UNCHANGED <<asked, published>>

Take(r) == /\ phase[r] = "waiting"
           /\ Cardinality(Holding) < Concurrency
           /\ phase' = [phase EXCEPT ![r] = "held"]
           /\ UNCHANGED <<asked, published>>

\* A run nobody holds is cancelled at once; a held one is only asked to end.
Ask(r) == /\ phase[r] \in {"waiting", "held"}
          /\ asked' = [asked EXCEPT ![r] = TRUE]
          /\ phase' = [phase EXCEPT ![r] = IF @ = "waiting" THEN "cancelled" ELSE @]
          /\ UNCHANGED published

HandBack(r) == /\ phase[r] = "held"
               /\ ~ asked[r]
               /\ phase' = [phase EXCEPT ![r] = "waiting"]
               /\ UNCHANGED <<asked, published>>

\* Outcome and result appear together, success never without its result, and
\* a run that was asked to end can only end cancelled.
End(r, o) == /\ phase[r] = "held"
             /\ asked[r] => o = "cancelled"
             /\ phase' = [phase EXCEPT ![r] = o]
             /\ published' \in {published, [published EXCEPT ![r] = TRUE]}
             /\ o = "succeeded" => published'[r]
             /\ UNCHANGED asked

Next == \/ Accept
        \/ \E r \in Runs : \/ Take(r)
                           \/ Ask(r)
                           \/ HandBack(r)
                           \/ \E o \in Ended : End(r, o)

Spec == Init /\ [][Next]_vars
=============================================================================
