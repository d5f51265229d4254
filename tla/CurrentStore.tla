---------------------------- MODULE CurrentStore ----------------------------
(***************************************************************************)
(* The current data store: the rows of a dataset lie in immutable files,   *)
(* and a catalog in the database says which files are current.  A writer   *)
(* plans under the dataset's writer lock while readers go on, records each *)
(* new file as garbage before it appears under its final name, and commits *)
(* under the exclusive commit lock in one transaction that swaps files and *)
(* garbage.  A cleanup deletes what the garbage table lists.  Files and    *)
(* catalog never change together, and a process may die after every step;  *)
(* its file locks die with it.                                             *)
(*                                                                         *)
(* Both locks are held by the phases of a writer, so they are predicates.  *)
(***************************************************************************)
EXTENDS Integers, FiniteSets

CONSTANTS
  Datasets,     \* natural numbers: readers lock them in their order
  Writers, Readers,
  Strict,       \* readers with require_qualified
  Scopes,       \* source scopes of a dataset
  Keys,         \* natural numbers: key ranges of a partition, in their order
  Span,         \* the keys of a scope: [lower, upper)
  Merges,       \* scopes updated by upsert; the others replace their range
  Holds,        \* the keys an input has a row for
  Feeds,        \* the inputs of each dataset and scope
  MaxInputs,    \* bound: inputs, named by their tokens
  MaxFiles,     \* bound: object paths in use at a time
  MaxGarbage,   \* limits.garbage_count
  MaxVersions,  \* bound: generations of a dataset
  Verdicts,     \* bound: the scopes of datasets whose updates may report problems
  Reads,        \* bound: the sets of datasets that are read together
  Watched,      \* bound: the paths whose deletion is followed
  LateCommits   \* whether a COMMIT may take effect after its outcome was looked
                \* up, or after its process died

Inputs == 1..MaxInputs
Files  == 1..MaxFiles

ASSUME StoreShape ==
  /\ Datasets # {} /\ Datasets \subseteq Nat /\ Keys # {} /\ Keys \subseteq Nat
  /\ Scopes # {} /\ Span \in [Scopes -> SUBSET Keys] /\ Merges \subseteq Scopes
  /\ Holds \in [Inputs -> SUBSET Keys] /\ Feeds \in [Datasets \X Scopes -> SUBSET Inputs]
ASSUME StoreBounds ==
  /\ MaxInputs \in Nat /\ MaxFiles \in Nat /\ MaxGarbage \in Nat /\ MaxVersions \in Nat
  /\ Strict \subseteq Readers /\ Verdicts \subseteq Datasets \X Scopes /\ Reads \subseteq (SUBSET Datasets) \ {{}} /\ Watched \subseteq Files /\ LateCommits \in BOOLEAN

VARIABLES
  cat,        \* the catalog of each dataset: generation, files, scopes, problems
  garbage,    \* data_store_garbage: path -> why it is listed
  file,       \* what is written in a file, and the dataset of its path
  disk,       \* the paths linked in objects/
  op,         \* of each writer
  rd,         \* of each reader
  wrong       \* history: writers that were told what was not so

vars == <<cat, garbage, file, disk, op, rd, wrong>>

-----------------------------------------------------------------------------
(* Rows of files.                                                          *)

NoRows == [k \in Keys |-> 0]
KeysOf(rows) == {k \in Keys : rows[k] # 0}

Lowest(S)  == CHOOSE k \in S : \A q \in S : k <= q
Highest(S) == CHOOSE k \in S : \A q \in S : q <= k

\* catalog.files: the current files whose key range, from the lowest to the
\* highest key, meets that of the scope.
Overlaps(f, s) ==
  LET K == KeysOf(file[f].rows) IN
  /\ \E k \in K, q \in Span[s] : k <= q
  /\ \E k \in K, q \in Span[s] : q <= k
FilesOf(refs, s) == {f \in refs : Overlaps(f, s)}

\* The rows of a set of files; files of one dataset have no key in common.
Joined(S) ==
  [k \in Keys |-> IF \E f \in S : file[f].rows[k] # 0
                  THEN file[CHOOSE f \in S : file[f].rows[k] # 0].rows[k] ELSE 0]

\* _apply: the old rows of the files it rewrites, and the input over its range.
MergedAlone(old, s, n) == [k \in Keys |-> IF k \in Span[s] \cap Holds[n] THEN n ELSE 0]
Merged(old, s, n) ==
  [k \in Keys |->
    IF k \in Span[s] \cap Holds[n] THEN n
    ELSE IF s \in Merges \/ k \notin Span[s] THEN old[k] ELSE 0]

\* _stage_output: one file, or several that do not overlap.
Pieces(rows) ==
  IF KeysOf(rows) = {} THEN { {} }
  ELSE {{rows}, {[NoRows EXCEPT ![k] = rows[k]] : k \in KeysOf(rows)}}

-----------------------------------------------------------------------------
(* Locks.  A reader holds the commit locks of the datasets it has reached. *)

Planning(w)   == op[w].at \in {"planned", "linking"}
Committing(w) == op[w].at \in {"locked", "sent", "sweep"}
ReadableListed(d) == \A r \in Readers : d \in rd[r].held => rd[r].at = "listed"
WriterFree(d) == \A w \in Writers : op[w].d = d => ~Planning(w) /\ ~Committing(w)
CommitFree(d) == \A w \in Writers : op[w].d = d => ~Committing(w)
Readable(d)   == \A r \in Readers : d \notin rd[r].held

\* The row of data_store_runtime, locked by every garbage admission to its commit.
Admitting == \A w \in Writers : op[w].tx # "open"
Listed    == {f \in Files : garbage[f] # "none"}
FitsGarbage(count) == Admitting /\ Cardinality(Listed) + count <= MaxGarbage

NoOp ==
  [at |-> "idle", d |-> CHOOSE d \in Datasets : TRUE, s |-> CHOOSE s \in Scopes : TRUE,
   n |-> 0, bad |-> FALSE, rev |-> 0, gen |-> 0, seen |-> 0, base |-> 0, old |-> {}, todo |-> {},
   cur |-> 0, new |-> {}, id |-> 0, tx |-> "none", answer |-> "none"]
NoFile == [d |-> CHOOSE d \in Datasets : TRUE, rows |-> NoRows]
NoRead ==
  [at |-> "idle", want |-> {}, held |-> {}, gens |-> <<>>, refs |-> {},
   opened |-> <<>>, page |-> <<>>, next |-> FALSE]

Init ==
  /\ cat = [d \in Datasets |-> [gen |-> 0, refs |-> {}, last |-> <<>>,
            scope |-> [s \in Scopes |-> [rev |-> 0, input |-> 0, basis |-> {}, ok |-> FALSE]],
            issue |-> [s \in Scopes |-> 0]]]
  /\ garbage = [f \in Files |-> "none"]
  /\ file = [f \in Files |-> NoFile]
  /\ disk = {}
  /\ op = [w \in Writers |-> NoOp]
  /\ rd = [r \in Readers |-> NoRead]
  /\ wrong = {}

Files0 == <<cat, garbage, file, disk>>

-----------------------------------------------------------------------------
(* An update.                                                              *)

\* The end of an operation leaves its locks; what it staged but did not
\* commit stays listed as garbage.
Untrue(answer, tx) == \/ answer = "ok" /\ tx # "done"
                      \/ answer \in {"error", "noop"} /\ tx = "done"
Answer(w, answer) ==
  /\ op' = [op EXCEPT ![w] = IF op[w].tx = "open" THEN [@ EXCEPT !.at = "idle", !.answer = answer]
                             ELSE NoOp]
  /\ wrong' = IF Untrue(answer, op[w].tx) THEN wrong \cup {w} ELSE wrong

\* The caller reads the state of the scope, and later comes with an input.
\* The pipeline, which replaces partitions, also holds on to the generation.
Ask(w, d, s, n, bad) ==
  /\ op[w].at = "idle" /\ op[w].tx # "open"
  /\ cat[d].gen < MaxVersions
  /\ bad => <<d, s>> \in Verdicts
  /\ op' = [op EXCEPT ![w] = [NoOp EXCEPT !.at = "asked", !.d = d, !.s = s, !.n = n, !.bad = bad,
                              !.rev = cat[d].scope[s].rev, !.seen = cat[d].issue[s],
                              !.gen = IF s \in Merges THEN -1 ELSE cat[d].gen]]
  /\ UNCHANGED <<Files0, rd, wrong>>

\* The same input over the same files, asked for by nobody to change a verdict.
Replayed(w) ==
  LET c == cat[op[w].d] IN
  /\ c.scope[op[w].s].input = op[w].n /\ c.scope[op[w].s].ok /\ ~op[w].bad /\ op[w].seen = 0
  /\ c.scope[op[w].s].basis = FilesOf(c.refs, op[w].s)

CurrentRevision(w) == op[w].rev = cat[op[w].d].scope[op[w].s].rev
\* What the caller read still holds: its generation, and its revision.
Current(w) ==
  /\ op[w].gen \in {-1, cat[op[w].d].gen}
  /\ op[w].rev = cat[op[w].d].scope[op[w].s].rev

\* Under the writer lock the update reads the catalog and the old files, has room
\* for one more file, and stages its output in scratch space.  The check of the
\* room waits for a COMMIT under way; if that one changes the dataset after the
\* catalog was read, the update is refused at its own commit, as in Fail.
Plan(w) ==
  LET d   == op[w].d
      old == FilesOf(cat[d].refs, op[w].s)
      new == Merged(Joined(old), op[w].s, op[w].n)
  IN  /\ op[w].at = "asked" /\ WriterFree(d) /\ Current(w) /\ ~Replayed(w)
      /\ FitsGarbage(1)
      /\ IF new = Joined(old)
         THEN op' = [op EXCEPT ![w].at = "planned", ![w].base = cat[d].gen]
         ELSE \E pieces \in Pieces(new) :
                op' = [op EXCEPT ![w].at = "planned", ![w].base = cat[d].gen,
                                 ![w].old = old, ![w].todo = pieces]
      /\ UNCHANGED <<Files0, rd, wrong>>

\* record_problems opens no file, needs no room and waits for no COMMIT.
PlanProblem(w) ==
  /\ op[w].at = "asked" /\ op[w].bad /\ WriterFree(op[w].d)
  /\ op[w].gen \in {-1, cat[op[w].d].gen}
  /\ op' = [op EXCEPT ![w].at = "planned", ![w].base = cat[op[w].d].gen]
  /\ UNCHANGED <<Files0, rd, wrong>>

Replay(w) ==
  /\ op[w].at = "asked" /\ WriterFree(op[w].d) /\ Current(w) /\ Replayed(w)
  /\ op' = [op EXCEPT ![w] = [NoOp EXCEPT !.at = "tidy", !.d = op[w].d, !.answer = "noop"]]
  /\ UNCHANGED <<Files0, rd, wrong>>

\* Paths are drawn at random and never come again; here a path is as good as
\* new when nothing knows it any more.
Unused ==
  {f \in Files : /\ f \notin disk /\ garbage[f] = "none"
                 /\ \A d \in Datasets : /\ f \notin cat[d].refs
                                        /\ \A s \in Scopes : f \notin cat[d].scope[s].basis
                 /\ \A w \in Writers : f \notin op[w].new \cup op[w].old \cup {op[w].cur}
                 /\ \A r \in Readers : f \notin rd[r].refs}

\* prepare_file with the listing left for later.
PrepareUnlisted(w) ==
  LET f == Lowest(Unused) IN
  /\ op[w].at = "planned" /\ op[w].todo # {} /\ Unused # {} /\ FitsGarbage(1)
  /\ file' = [file EXCEPT ![f] = [d |-> op[w].d, rows |-> CHOOSE rows \in op[w].todo : TRUE]]
  /\ op' = [op EXCEPT ![w].at = "linking", ![w].cur = f]
  /\ UNCHANGED <<cat, garbage, disk, rd, wrong>>

\* prepare_file: a new path is listed before anything has that name.
Prepare(w) ==
  LET f == Lowest(Unused) IN
  /\ op[w].at = "planned" /\ op[w].todo # {} /\ Unused # {} /\ FitsGarbage(1)
  /\ garbage' = [garbage EXCEPT ![f] = "prepared"]
  /\ file' = [file EXCEPT ![f] = [d |-> op[w].d, rows |-> CHOOSE rows \in op[w].todo : TRUE]]
  /\ op' = [op EXCEPT ![w].at = "linking", ![w].cur = f]
  /\ UNCHANGED <<cat, disk, rd, wrong>>

Promote(w) ==
  /\ op[w].at = "linking"
  /\ disk' = disk \cup {op[w].cur}
  /\ op' = [op EXCEPT ![w].at = "planned", ![w].cur = 0, ![w].new = @ \cup {op[w].cur},
                      ![w].todo = @ \ {file[op[w].cur].rows}]
  /\ UNCHANGED <<cat, garbage, file, rd, wrong>>

\* Under the exclusive lock the transaction checks what the update was planned
\* on, before it waits for a COMMIT under way to count what is listed.
LockCommit(w) ==
  LET c == cat[op[w].d] IN
  /\ op[w].at = "planned" /\ op[w].todo = {}
  /\ Readable(op[w].d) /\ CommitFree(op[w].d)
  /\ c.gen = op[w].base /\ c.scope[op[w].s].rev = op[w].rev
  /\ op' = [op EXCEPT ![w].at = "locked",
                      ![w].id = CHOOSE i \in 1..2 : <<w, i>> # cat[op[w].d].last]
  /\ UNCHANGED <<Files0, rd, wrong>>

\* The statements of the transaction: what fits ...
MayCommit(w) ==
  /\ op[w].at = "locked" /\ cat[op[w].d].gen < MaxVersions
  /\ FitsGarbage(Cardinality(op[w].old))

Verdict(w) ==
  LET old == cat[op[w].d].issue[op[w].s] IN
  IF op[w].bad THEN op[w].n ELSE IF old = op[w].seen THEN 0 ELSE old

\* ... and what it leaves when it is committed.
Takes(w) ==
  LET d == op[w].d
      s == op[w].s
      refs == (cat[d].refs \ op[w].old) \cup op[w].new
  IN  /\ cat' = [cat EXCEPT ![d].gen = @ + 1, ![d].refs = refs, ![d].last = <<w, op[w].id>>,
                 ![d].scope[s] = [rev |-> op[w].rev + 1, input |-> op[w].n,
                                  basis |-> FilesOf(refs, s), ok |-> ~op[w].bad],
                 ![d].issue[s] = Verdict(w)]
      /\ garbage' = [f \in Files |-> IF f \in op[w].new THEN "none"
                                     ELSE IF f \in op[w].old THEN "retired" ELSE garbage[f]]
      /\ UNCHANGED <<file, disk>>

Commit(w) ==
  /\ MayCommit(w) /\ Takes(w)
  /\ op' = [op EXCEPT ![w] = [NoOp EXCEPT !.at = "tidy", !.d = op[w].d, !.tx = "done", !.answer = "ok"]]
  /\ UNCHANGED <<rd, wrong>>

\* The connection is lost while COMMIT is on its way.
CommitLost(w) ==
  /\ MayCommit(w)
  /\ op' = [op EXCEPT ![w].at = "sent", ![w].tx = "open"]
  /\ UNCHANGED <<Files0, rd, wrong>>

Land(w) ==
  /\ op[w].tx = "open" /\ Takes(w)
  /\ op' = [op EXCEPT ![w] = IF @.at = "idle" THEN NoOp ELSE [@ EXCEPT !.tx = "done"]]
  /\ UNCHANGED <<rd, wrong>>

Drop(w) ==
  /\ op[w].tx = "open"
  /\ op' = [op EXCEPT ![w] = IF @.at = "idle" THEN NoOp ELSE [@ EXCEPT !.tx = "gone"]]
  /\ UNCHANGED <<Files0, rd, wrong>>

\* Still under both locks the catalog is asked once whose commit was the last.
ConfirmAlways(w) ==
  /\ op[w].at = "sent" /\ (op[w].tx # "open" \/ LateCommits)
  /\ Answer(w, "error")
  /\ UNCHANGED <<Files0, rd>>

Confirm(w) ==
  /\ op[w].at = "sent" /\ (op[w].tx # "open" \/ LateCommits)
  /\ \/ /\ cat[op[w].d].last = <<w, op[w].id>>
        /\ op' = [op EXCEPT ![w] = [NoOp EXCEPT !.at = "tidy", !.d = op[w].d, !.tx = op[w].tx,
                                                !.answer = "ok"]]
        /\ UNCHANGED wrong
     \/ cat[op[w].d].last # <<w, op[w].id>> /\ Answer(w, "error")
     \/ Answer(w, "unknown")
  /\ UNCHANGED <<Files0, rd>>

\* Conflicts, cancellation, an elapsed limit, a full garbage table, a failing
\* disk or catalog, before COMMIT is sent; after a commit only the cleanup fails.
Fail(w) ==
  /\ \/ op[w].at \in {"asked", "planned", "linking", "locked"} /\ Answer(w, "error")
     \/ op[w].at \in {"tidy", "sweep"} /\ Answer(w, op[w].answer)
  /\ UNCHANGED <<Files0, rd>>

Crash(w) ==
  /\ op[w].at # "idle" /\ (op[w].tx # "open" \/ LateCommits)
  /\ Answer(w, "none")
  /\ UNCHANGED <<Files0, rd>>

\* The row of data_store_datasets, which a COMMIT under way has locked.
RowFree(d) == \A w \in Writers : op[w].d = d => op[w].tx # "open"

\* register: a changed descriptor, under both locks.
Register(d) ==
  /\ WriterFree(d) /\ CommitFree(d) /\ Readable(d) /\ RowFree(d) /\ cat[d].gen < MaxVersions
  /\ cat' = [cat EXCEPT ![d].gen = @ + 1]
  /\ UNCHANGED <<garbage, file, disk, op, rd, wrong>>

-----------------------------------------------------------------------------
(* Cleanup, after an update or by itself.  An entry it goes through may stay *)
(* listed: its grace or its next try lies ahead, or the batch is full.  The  *)
(* grace of a prepared file outlasts a COMMIT under way.                     *)

Graced == UNION {op[w].new : w \in {v \in Writers : op[v].tx = "open"}}

SweepRetired(w, d) ==
  LET due == {f \in Files : garbage[f] = "retired" /\ file[f].d = d} \ Graced IN
  /\ \/ op[w].at = "tidy" /\ op[w].d = d
     \/ op[w].at = "idle" /\ op[w].tx # "open"
  /\ WriterFree(d) /\ CommitFree(d) /\ Readable(d)
  /\ due # {}
  /\ op' = [op EXCEPT ![w] = [NoOp EXCEPT !.at = "sweep", !.d = d, !.old = due,
                                          !.tx = op[w].tx, !.answer = op[w].answer]]
  /\ UNCHANGED <<Files0, rd, wrong>>

Sweep(w, d) ==
  LET due == {f \in Listed : file[f].d = d} \ Graced IN
  /\ \/ op[w].at = "tidy" /\ op[w].d = d
     \/ op[w].at = "idle" /\ op[w].tx # "open"
  /\ WriterFree(d) /\ CommitFree(d) /\ Readable(d)
  /\ due # {}
  /\ op' = [op EXCEPT ![w] = [NoOp EXCEPT !.at = "sweep", !.d = d, !.old = due,
                                          !.tx = op[w].tx, !.answer = op[w].answer]]
  /\ UNCHANGED <<Files0, rd, wrong>>

Referenced(f) == \E d \in Datasets : f \in cat[d].refs

SweepDelete(w, f) ==
  /\ op[w].at = "sweep" /\ f \in op[w].old /\ op[w].cur = 0
  /\ \/ /\ ~Referenced(f)
        /\ disk' = disk \ {f}
        /\ op' = [op EXCEPT ![w].cur = f]
     \/ \* current, not due, or impossible to delete: it stays listed
        /\ op' = [op EXCEPT ![w].old = @ \ {f}]
        /\ UNCHANGED disk
  /\ UNCHANGED <<cat, garbage, file, rd, wrong>>

SweepForget(w) ==
  /\ op[w].at = "sweep" /\ op[w].cur # 0
  /\ garbage' = [garbage EXCEPT ![op[w].cur] = "none"]
  /\ file' = [file EXCEPT ![op[w].cur] = NoFile]
  /\ op' = [op EXCEPT ![w].old = @ \ {op[w].cur}, ![w].cur = 0]
  /\ UNCHANGED <<cat, disk, rd, wrong>>

SweepEnd(w) ==
  /\ op[w].at = "sweep" /\ op[w].old = {}
  /\ Answer(w, op[w].answer)
  /\ UNCHANGED <<Files0, rd>>

-----------------------------------------------------------------------------
(* A read of one or more datasets, and then of its next page by the cursor. *)

Ends(r, page) == rd' = [rd EXCEPT ![r] = [NoRead EXCEPT !.page = page]]

AskRead(r, want) ==
  /\ rd[r].at = "idle" /\ rd[r].page = <<>>
  /\ rd' = [rd EXCEPT ![r].at = "reading", ![r].want = want]
  /\ UNCHANGED <<Files0, op, wrong>>

\* The reader does not go on.
Leave(r) ==
  /\ rd[r].at = "idle" /\ rd[r].page # <<>>
  /\ Ends(r, <<>>)
  /\ UNCHANGED <<Files0, op, wrong>>

AskNext(r) ==
  /\ rd[r].at = "idle" /\ DOMAIN rd[r].page # {}
  /\ rd' = [rd EXCEPT ![r].at = "reading", ![r].want = DOMAIN rd[r].page, ![r].next = TRUE]
  /\ UNCHANGED <<Files0, op, wrong>>

Extended(fn, d, value) == [e \in DOMAIN fn \cup {d} |-> IF e = d THEN value ELSE fn[e]]

LockNone(r) ==
  /\ rd[r].at = "reading" /\ rd[r].held # rd[r].want
  /\ rd' = [rd EXCEPT ![r].held = rd[r].want]
  /\ UNCHANGED <<Files0, op, wrong>>

LockRead(r) ==
  LET d == Lowest(rd[r].want \ rd[r].held) IN
  /\ rd[r].at = "reading" /\ rd[r].held # rd[r].want
  /\ CommitFree(d)
  /\ rd' = [rd EXCEPT ![r].held = @ \cup {d}]
  /\ UNCHANGED <<Files0, op, wrong>>

Look(r) ==
  LET d == Lowest(rd[r].want \ DOMAIN rd[r].gens) IN
  /\ rd[r].at = "reading" /\ rd[r].held = rd[r].want /\ DOMAIN rd[r].gens # rd[r].want
  /\ rd' = [rd EXCEPT ![r].gens = Extended(@, d, cat[d].gen)]
  /\ UNCHANGED <<Files0, op, wrong>>

\* DATA_RESTRICTED, DATA_CHANGED
Restricted(r, d) == r \in Strict /\ \E s \in Scopes : cat[d].issue[s] # 0
ChangedAt(r, d)  == rd[r].next /\ rd[r].page[d].gen # rd[r].gens[d]
ChangedLast(r)   == rd[r].next /\ ChangedAt(r, Highest(rd[r].want))
Changed(r)       == \E d \in rd[r].want : ChangedAt(r, d)

List(r) ==
  LET d == Lowest(rd[r].want \ DOMAIN rd[r].opened) IN
  /\ rd[r].at = "reading" /\ rd[r].held = rd[r].want /\ DOMAIN rd[r].gens = rd[r].want
  /\ DOMAIN rd[r].opened # rd[r].want
  /\ IF Restricted(r, d) \/ Changed(r)
     THEN Ends(r, <<>>)
     ELSE rd' = [rd EXCEPT ![r].at = "listed", ![r].refs = cat[d].refs]
  /\ UNCHANGED <<Files0, op, wrong>>

Open(r) ==
  LET d == Lowest(rd[r].want \ DOMAIN rd[r].opened) IN
  /\ rd[r].at = "listed" /\ rd[r].refs \subseteq disk
  /\ rd' = [rd EXCEPT ![r].at = "reading", ![r].refs = {},
                      ![r].opened = Extended(@, d, Joined(rd[r].refs))]
  /\ UNCHANGED <<Files0, op, wrong>>

Return(r) ==
  /\ rd[r].at = "reading" /\ rd[r].held = rd[r].want /\ DOMAIN rd[r].opened = rd[r].want
  /\ Ends(r, [d \in rd[r].want |-> [gen |-> rd[r].gens[d], rows |-> rd[r].opened[d]]])
  /\ UNCHANGED <<Files0, op, wrong>>

\* A limit, a missing file, a cancellation, or the end of the reader.
FailRead(r) ==
  /\ rd[r].at # "idle"
  /\ Ends(r, <<>>)
  /\ UNCHANGED <<Files0, op, wrong>>

-----------------------------------------------------------------------------
Request == \E w \in Writers, d \in Datasets, s \in Scopes : \E n \in Feeds[<<d, s>>], bad \in BOOLEAN :
             Ask(w, d, s, n, bad)
Update  == \E w \in Writers :
  \/ Plan(w) \/ PlanProblem(w) \/ Replay(w) \/ Prepare(w) \/ Promote(w) \/ LockCommit(w)
  \/ Commit(w) \/ CommitLost(w) \/ Land(w) \/ Drop(w) \/ Confirm(w) \/ Fail(w) \/ Crash(w)
Define  == \E d \in Datasets : Register(d)
Cleanup == \E w \in Writers :
  \/ \E d \in Datasets : Sweep(w, d)
  \/ \E f \in Files : SweepDelete(w, f)
  \/ SweepForget(w) \/ SweepEnd(w)
Reading == \E r \in Readers :
  \/ \E want \in Reads : AskRead(r, want)
  \/ AskNext(r) \/ Leave(r) \/ LockRead(r) \/ Look(r) \/ List(r) \/ Open(r) \/ Return(r) \/ FailRead(r)

Next == Request \/ Update \/ Define \/ Cleanup \/ Reading
Spec == Init /\ [][Next]_vars

-----------------------------------------------------------------------------
(* Properties.                                                             *)

RowSet == [Keys -> 0..MaxInputs]

\* The store keeps its types.
TypeOK ==
  /\ \A d \in Datasets :
       /\ cat[d].gen \in 0..MaxVersions /\ cat[d].refs \in SUBSET Files
       /\ cat[d].last \in {<<>>} \cup (Writers \X (1..2))
       /\ cat[d].scope \in [Scopes -> [rev : 0..MaxVersions, input : 0..MaxInputs,
                                        basis : SUBSET Files, ok : BOOLEAN]]
       /\ cat[d].issue \in [Scopes -> 0..MaxInputs]
  /\ garbage \in [Files -> {"none", "prepared", "retired"}]
  /\ file \in [Files -> [d : Datasets, rows : RowSet]]
  /\ disk \in SUBSET Files
  /\ \A w \in Writers :
       /\ op[w].at \in {"idle", "asked", "planned", "linking", "locked", "sent", "tidy", "sweep"}
       /\ op[w].old \in SUBSET Files /\ op[w].new \in SUBSET Files /\ op[w].todo \in SUBSET RowSet
       /\ op[w].tx \in {"none", "open", "done", "gone"}
       /\ op[w].answer \in {"none", "ok", "noop", "error", "unknown"}
  /\ wrong \subseteq Writers
  /\ \A r \in Readers :
       /\ rd[r].at \in {"idle", "reading", "listed"}
       /\ rd[r].held \subseteq rd[r].want /\ rd[r].want \in SUBSET Datasets
       /\ rd[r].refs \in SUBSET Files

\* Whatever dies in whichever step, every current file exists.
RefsOnDisk == \A d \in Datasets : cat[d].refs \subseteq disk

\* Every file that exists is current or listed for deletion, never both, so
\* no crash makes a file that nobody finds and no cleanup meets a current one
\* except through a prepared entry of an unfinished update.
FilesAccounted ==
  /\ \A f \in disk : Referenced(f) \/ garbage[f] # "none"
  /\ \A f \in Files : Referenced(f) => garbage[f] = "none"

\* The entries waiting for deletion, of all datasets and writers together,
\* stay within the shared limit.
GarbageBounded == Cardinality(Listed) <= MaxGarbage

\* The current files of a dataset never give a key twice.
NoKeyTwice ==
  \A d \in Datasets, f, g \in Files :
    f \in cat[d].refs /\ g \in cat[d].refs /\ f # g =>
      KeysOf(file[f].rows) \cap KeysOf(file[g].rows) = {}

\* Files and catalog, which never change together, agree after every step.
StoreConsistent == TypeOK /\ RefsOnDisk /\ FilesAccounted /\ GarbageBounded /\ NoKeyTwice

\* A reader that has listed the files of a dataset finds every one of them.
ReadersFindFiles == \A r \in Readers : rd[r].at = "listed" => rd[r].refs \subseteq disk

\* An update that reports success is committed; one that reports a failure, or
\* that it changes nothing, is not, though a COMMIT under way may still land.
AnswersAreTrue == wrong = {}

\* The pages of one cursor are pages of the same rows.
CursorStable ==
  [][\A r \in Readers : rd[r].next => rd'[r].page \in {rd[r].page, <<>>}]_vars

\* An update replaces what its caller saw: the scope it read, and for the
\* pipeline the generation whose rows it loaded.
NothingOverwritten ==
  [][\A d \in Datasets :
       cat'[d].last # cat[d].last =>
         LET w == cat'[d].last[1] IN
         op[w].gen \in {-1, cat[d].gen} /\ op[w].rev = cat[d].scope[op[w].s].rev]_vars

Table == [d \in Datasets |-> [rows |-> Joined(cat[d].refs), gen |-> cat[d].gen,
                              issue |-> cat[d].issue]]
Simple == INSTANCE DataTable WITH table <- Table, page <- [r \in Readers |-> rd[r].page]

\* To its readers and writers the store is a table that changes by whole
\* inputs and is read at one instant.
TableSpec == Simple!Spec

-----------------------------------------------------------------------------
(* Liveness.                                                               *)

\* Updates, sweeps and reads end (their locks have deadlines), an update
\* tidies up or the operator recovers again and again, and a file that is
\* due again and again is at last deleted.  The database ends a COMMIT.
Fairness ==
  /\ \A w \in Writers : /\ WF_vars((Update \/ Cleanup) /\ op'[w] # op[w] /\ op[w].at # "idle")
                        /\ WF_vars(Land(w) \/ Drop(w))
  /\ \A r \in Readers : WF_vars(FailRead(r))
  /\ \A d \in Datasets : SF_vars(\E w \in Writers : Sweep(w, d))
  /\ \A f \in Watched : /\ SF_vars(\E w \in Writers : SweepDelete(w, f) /\ op'[w].cur = f)
                      /\ SF_vars(\E w \in Writers : op[w].cur = f /\ SweepForget(w))
LiveSpec == Spec /\ Fairness

\* Every listed file is in the end deleted or current.
GarbageGoes == \A f \in Watched : garbage[f] # "none" ~> garbage[f] = "none"
=============================================================================
