----------------------------- MODULE DataTable -----------------------------
(* What the current data store promises to those who read and update it:     *)
(* a dataset is one table whose rows change only by whole inputs, each over  *)
(* its own range; a read sees all its datasets at one instant; and datasets  *)
(* with open problems are not shown to strict readers.                       *)
EXTENDS Integers

CONSTANTS Datasets, Readers, Scopes, Keys, MaxVersions
CONSTANTS Feeds,    \* dataset and scope -> the inputs that come for it
          Strict,   \* the readers that accept no open problem
          Span,     \* the keys of a scope: what an input of it may touch
          Merges,   \* the scopes whose inputs are merged; the others replace
          Holds     \* the keys an input has a row for

VARIABLES table,    \* dataset -> its rows (0: no row), generation and problems
          page      \* reader -> what its last read returned

\* The rows after input n of scope s: a merge keeps the rows it has no row
\* for, a replacement removes them; nothing outside the span is touched.
After(old, s, n) ==
  [k \in Keys |->
    IF k \in Span[s] THEN IF k \in Holds[n] THEN n ELSE IF s \in Merges THEN old[k] ELSE 0
    ELSE old[k]]

Empty == [rows |-> [k \in Keys |-> 0], gen |-> 0, issue |-> [s \in Scopes |-> 0]]

Init == /\ table = [d \in Datasets |-> Empty]
        /\ page = [r \in Readers |-> <<>>]

\* A commit: an input over its range, or only the report of its problem.
Apply(d, s, n) ==
  /\ table[d].gen < MaxVersions
  /\ \E i \in {0, n, table[d].issue[s]}, new \in {table[d].rows, After(table[d].rows, s, n)} :
       /\ new = After(table[d].rows, s, n) \/ i = n
       /\ table' = [table EXCEPT ![d].rows = new, ![d].gen = @ + 1, ![d].issue[s] = i]
  /\ UNCHANGED page

\* A new descriptor: cursors into the old one become useless.
Redefine(d) ==
  /\ table[d].gen < MaxVersions
  /\ table' = [table EXCEPT ![d].gen = @ + 1]
  /\ UNCHANGED page

\* A read of the datasets D at one instant. A strict reader is shown
\* no dataset with an open problem.
Read(r, D) ==
  /\ r \in Strict => \A d \in D, s \in Scopes : table[d].issue[s] = 0
  /\ page' = [page EXCEPT ![r] = [d \in D |-> [gen |-> table[d].gen, rows |-> table[d].rows]]]
  /\ UNCHANGED table

\* A read fails, or its reader does not want the next page.
Forget(r) == page' = [page EXCEPT ![r] = <<>>] /\ UNCHANGED table

Next ==
  \/ \E d \in Datasets : Redefine(d) \/ \E s \in Scopes : \E n \in Feeds[<<d, s>>] : Apply(d, s, n)
  \/ \E r \in Readers : Forget(r)
  \/ \E r \in Readers, D \in SUBSET Datasets : Read(r, D)

Spec == Init /\ [][Next]_<<table, page>>
=============================================================================
