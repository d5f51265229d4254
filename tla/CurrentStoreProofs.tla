------------------------- MODULE CurrentStoreProofs -------------------------
(***************************************************************************)
(* The current store, for any number of datasets, writers, readers, scopes *)
(* and files, whatever dies in which step and however late a COMMIT takes  *)
(* effect; what readers see, when a COMMIT is decided before its outcome   *)
(* is looked up.                                                           *)
(***************************************************************************)
EXTENDS CurrentStore, FiniteSetTheorems, WellFoundedInduction, TLAPS

-----------------------------------------------------------------------------
(* Types.                                                                  *)

Phases == {"idle", "asked", "planned", "linking", "locked", "sent", "tidy", "sweep"}
OpSet ==
  [at : Phases, d : Datasets, s : Scopes, n : 0..MaxInputs, bad : BOOLEAN, rev : Int, gen : Int,
   seen : 0..MaxInputs, base : Int, old : SUBSET Files, todo : SUBSET RowSet, cur : {0} \cup Files,
   new : SUBSET Files, id : 0..2, tx : {"none", "open", "done", "gone"},
   answer : {"none", "ok", "noop", "error", "unknown"}]
ScopeSet == [rev : 0..MaxVersions, input : 0..MaxInputs, basis : SUBSET Files, ok : BOOLEAN]
CatSet ==
  [gen : 0..MaxVersions, refs : SUBSET Files, last : {<<>>} \cup (Writers \X (1..2)),
   scope : [Scopes -> ScopeSet], issue : [Scopes -> 0..MaxInputs]]
FileSet == [d : Datasets, rows : RowSet]
Of(V) == UNION {[D -> V] : D \in SUBSET Datasets}
PageSet == [gen : Int, rows : RowSet]
ReadSet ==
  [at : {"idle", "reading", "listed"}, want : SUBSET Datasets, held : SUBSET Datasets,
   gens : Of(Int), refs : SUBSET Files, opened : Of(RowSet), page : Of(PageSet), next : BOOLEAN]

\* The types of the store, and the revisions of a dataset are not more than its generations.
Types ==
  /\ cat \in [Datasets -> CatSet]
  /\ garbage \in [Files -> {"none", "prepared", "retired"}]
  /\ file \in [Files -> FileSet]
  /\ disk \in SUBSET Files
  /\ op \in [Writers -> OpSet]
  /\ rd \in [Readers -> ReadSet]
  /\ wrong \in SUBSET Writers
  /\ \A d \in Datasets, s \in Scopes : cat[d].scope[s].rev <= cat[d].gen
  /\ \A r \in Readers : rd[r].held \subseteq rd[r].want

\* The values that fields start with have their types.
LEMMA StartTypes ==
  /\ NoOp \in OpSet /\ NoFile \in FileSet /\ NoRead \in ReadSet /\ NoRows \in RowSet
         /\ <<>> \in Of(PageSet)
<1>1. (CHOOSE d \in Datasets : TRUE) \in Datasets /\ (CHOOSE s \in Scopes : TRUE) \in Scopes
  BY StoreShape
<1>2. NoOp \in OpSet
  BY <1>1, StoreBounds DEF NoOp, OpSet, Phases
<1>3. NoRows \in RowSet
  BY StoreBounds DEF NoRows, RowSet
<1>4. NoFile \in FileSet
  BY <1>1, <1>3 DEF NoFile, FileSet
<1>5. ASSUME NEW V PROVE <<>> \in Of(V)
  <2>1. <<>> \in [{} -> V]
    OBVIOUS
  <2>2. {} \in SUBSET Datasets
    OBVIOUS
  <2>3. [{} -> V] \in {[D -> V] : D \in SUBSET Datasets}
    BY <2>2
  <2> QED BY <2>1, <2>3 DEF Of
<1>6. NoRead \in ReadSet
  BY <1>5 DEF NoRead, ReadSet
<1> QED BY <1>2, <1>3, <1>4, <1>5, <1>6

\* A function that is extended keeps its type.
LEMMA ExtendedType ==
  ASSUME NEW V, NEW fn \in Of(V), NEW d \in Datasets, NEW v \in V
  PROVE  Extended(fn, d, v) \in Of(V)
<1>1. PICK D \in SUBSET Datasets : fn \in [D -> V]
  BY DEF Of
<1>2. Extended(fn, d, v) \in [D \cup {d} -> V]
  BY <1>1 DEF Extended
<1> QED BY <1>1, <1>2 DEF Of

\* The lowest number of a set.
LEMMA LowestIs ==
  ASSUME NEW S, S \subseteq Nat, S # {}
  PROVE  Lowest(S) \in S /\ \A q \in S : Lowest(S) <= q
<1>1. PICK x \in S : \A y \in S : ~ (<<y, x>> \in OpToRel(<, Nat))
  BY WFMin, NatLessThanWellFounded
<1>2. \A y \in S : ~ (y < x)
  BY <1>1, Zenon DEF OpToRel
<1>3. \A y \in S : x <= y
  BY <1>2
<1> QED BY <1>3 DEF Lowest

-----------------------------------------------------------------------------
(* Rows of files, as operators of the files.                               *)

\* Joined and FilesOf for the files F.
Join(F, S) ==
  [k \in Keys |-> IF \E f \in S : F[f].rows[k] # 0
                  THEN F[CHOOSE f \in S : F[f].rows[k] # 0].rows[k] ELSE 0]
Meets(rows, s) ==
  /\ \E k \in KeysOf(rows), q \in Span[s] : k <= q
  /\ \E k \in KeysOf(rows), q \in Span[s] : q <= k
Met(F, refs, s) == {f \in refs : Meets(F[f].rows, s)}

\* No key is given twice.
Apart(F, S) == \A f, g \in S : \A k \in Keys : F[f].rows[k] # 0 /\ F[g].rows[k] # 0 => f = g

\* The output of an update: the files it has linked and the pieces it has yet
\* to write are together the merged rows of the files it replaces.
Covers(F, T, new, todo) ==
  /\ \A k \in Keys : T[k] # 0 => \/ \E f \in new : F[f].rows[k] = T[k]
                                 \/ \E p \in todo : p[k] = T[k]
  /\ \A f \in new, k \in Keys : F[f].rows[k] \in {0, T[k]}
  /\ \A p \in todo, k \in Keys : p[k] \in {0, T[k]}
  /\ Apart(F, new)
  /\ \A f \in new, p \in todo, k \in Keys : F[f].rows[k] = 0 \/ p[k] = 0
  /\ \A p, q \in todo : \A k \in Keys : p[k] # 0 /\ q[k] # 0 => p = q
Rewrites(F, refs, o) ==
  /\ o.old = Met(F, refs, o.s)
  /\ Covers(F, Merged(Join(F, o.old), o.s, o.n), o.new, o.todo)

-----------------------------------------------------------------------------
(* The invariant.                                                          *)

Holder(o)  == o.at \in {"planned", "linking", "locked", "sent", "sweep"}
Working(o) ==
  \/ o.at \in {"planned", "linking", "locked"}
  \/ o.at = "sent" /\ o.tx # "done"
  \/ o.at = "idle" /\ o.tx = "open"

\* A transaction is at its checks or beyond them.
Checked(o) == o.at \in {"locked", "sent"} \/ o.tx = "open"

\* An update that changes no file and may be a report of problems: the only one
\* that is planned without waiting for a COMMIT under way.
Bare(o) == o.old = {} /\ o.new = {} /\ o.todo = {}
Firm(o) == Working(o) /\ ~ (o.bad /\ Bare(o))

\* A dataset has one writer, and one that commits or deletes has no reader.
LocksHeld ==
  /\ \A v, w \in Writers : v # w /\ Holder(op[v]) /\ Holder(op[w]) => op[v].d # op[w].d
  /\ \A w \in Writers, r \in Readers : Committing(w) => op[w].d \notin rd[r].held

\* While the COMMIT of o is under way, p counts on nothing that it may change,
\* although the locks of o may be free again.
OpenApart(o, p) ==
  o.tx = "open" =>
    /\ Firm(p) \/ p.at = "sent" => o.d # p.d
    /\ p.at = "sweep" => p.old \cap o.new = {}
RowHeld == \A v, w \in Writers : v # w => OpenApart(op[v], op[w])

\* What an update knows of its transaction: between the exclusive lock and its
\* commit the catalog carries another mark than its own, afterwards its own.
Outcome(w, o, last) ==
  /\ o.at = "idle" => o = NoOp \/ (LateCommits /\ o.tx = "open")
  /\ o.at \in {"asked", "planned", "linking", "locked"} => o.tx = "none"
  /\ o.at = "sent" => o.tx # "none"
  /\ Checked(o) => o.id \in 1..2
  /\ o.at \in {"tidy", "sweep"} => \/ o.answer = "ok" /\ o.tx = "done"
                                   \/ o.answer \in {"noop", "none"} /\ o.tx = "none"
  /\ o.at = "locked" \/ (o.at = "sent" /\ o.tx # "done") => last # <<w, o.id>>
  /\ o.at = "sent" /\ o.tx = "done" => last = <<w, o.id>>

\* What an update has staged still fits the catalog it read.
Staged(o, c, G, F, D) ==
  /\ o.at = "asked" => Bare(o)
  /\ o.at = "asked" \/ Working(o) =>
       o.n \in Feeds[<<o.d, o.s>>] /\ (o.bad => <<o.d, o.s>> \in Verdicts)
  /\ Working(o) =>
       /\ Checked(o) => o.todo = {} /\ 0 <= o.rev /\ o.rev <= c.gen
       /\ o.tx = "open" => c.gen < MaxVersions
       /\ \A f \in o.new : f \in D /\ G[f] = "prepared" /\ F[f].d = o.d
       /\ Bare(o) \/ (o.old \subseteq c.refs /\ Rewrites(F, c.refs, o))
  /\ Firm(o) \/ (Working(o) /\ ~ LateCommits) =>
       /\ o.base = c.gen /\ o.gen \in {-1, c.gen}
       /\ Checked(o) => o.rev = c.scope[o.s].rev
  /\ o.at = "linking" =>
       /\ o.cur \in Files /\ G[o.cur] = "prepared" /\ F[o.cur].d = o.d
       /\ o.cur \notin D /\ F[o.cur].rows \in o.todo

\* What a cleanup deletes is listed, and nothing has the name it forgets.
Swept(o, G, F, D) ==
  o.at = "sweep" =>
    /\ \A f \in o.old : G[f] # "none" /\ F[f].d = o.d
    /\ o.cur # 0 => o.cur \in o.old /\ o.cur \notin D

WriterOK(w, o, c, G, F, D) == Outcome(w, o, c.last) /\ Staged(o, c, G, F, D) /\ Swept(o, G, F, D)
Updates == \A w \in Writers : WriterOK(w, op[w], cat[op[w].d], garbage, file, disk)

\* Every current file exists, unlisted and of its dataset, and gives no key that
\* another gives; what else exists is listed.
Store ==
  /\ \A d \in Datasets : Apart(file, cat[d].refs)
  /\ \A d \in Datasets, f \in Files :
       f \in cat[d].refs => f \in disk /\ garbage[f] = "none" /\ file[f].d = d
  /\ \A f \in disk : Referenced(f) \/ garbage[f] # "none"

\* One transaction at a time counts what is listed, and what it retires fits.
Room ==
  /\ Cardinality(Listed) <= MaxGarbage
  /\ \A w \in Writers : op[w].tx = "open" =>
       /\ Cardinality(Listed) + Cardinality(op[w].old) <= MaxGarbage
       /\ \A v \in Writers : op[v].tx = "open" => v = w

\* A read goes through its datasets in order.
Shown(r, c) == r \in Strict => \A s \in Scopes : c.issue[s] = 0
Looks(q) ==
  /\ q.at = "idle" => q = [NoRead EXCEPT !.page = q.page]
  /\ q.at # "idle" => q.want # {}
  /\ q.next => q.want = DOMAIN q.page
  /\ DOMAIN q.gens \subseteq q.want /\ DOMAIN q.opened \subseteq q.want
  /\ DOMAIN q.gens # {} => q.held = q.want
  /\ q.at = "listed" \/ DOMAIN q.opened # {} =>
       /\ DOMAIN q.gens = q.want
       /\ q.next => \A d \in q.want : q.page[d].gen = q.gens[d]
  /\ q.at = "listed" => DOMAIN q.opened # q.want

\* What it has seen is the state of one instant, and the page of a cursor is
\* that of its generation.
Fresh(r, q, C, F) ==
  /\ \A d \in DOMAIN q.gens : q.gens[d] = C[d].gen
  /\ \A d \in DOMAIN q.opened : q.opened[d] = Join(F, C[d].refs) /\ Shown(r, C[d])
  /\ q.at = "listed" =>
       LET d == Lowest(q.want \ DOMAIN q.opened) IN
       q.refs = C[d].refs /\ Shown(r, C[d])
  /\ \A d \in DOMAIN q.page :
       /\ q.page[d].gen <= C[d].gen
       /\ q.page[d].gen = C[d].gen => q.page[d].rows = Join(F, C[d].refs)
Seen(r, q, C, F) == Looks(q) /\ (~ LateCommits => Fresh(r, q, C, F))
Reads0 == \A r \in Readers : Seen(r, rd[r], cat, file)

StoreInv == Types /\ LocksHeld /\ RowHeld /\ Updates /\ Store /\ Room /\ Reads0 /\ wrong = {}
-----------------------------------------------------------------------------
(* Rows.                                                                   *)

\* The model's operators are those of the files at hand.
LEMMA OfTheseFiles ==
  /\ \A S : Joined(S) = Join(file, S)
  /\ \A refs, s : FilesOf(refs, s) = Met(file, refs, s)
BY DEF Joined, Join, FilesOf, Met, Overlaps, Meets

\* Joined rows are rows.
LEMMA JoinTypes ==
  ASSUME NEW F \in [Files -> FileSet], NEW S \in SUBSET Files
  PROVE  Join(F, S) \in RowSet
<1>1. \A f \in S, k \in Keys : F[f].rows[k] \in 0..MaxInputs
  BY DEF FileSet, RowSet
<1>2. ASSUME NEW k \in Keys PROVE Join(F, S)[k] \in 0..MaxInputs
  BY <1>1, <1>2, StoreBounds DEF Join
<1> QED BY <1>2 DEF Join, RowSet

\* Files that are apart give the keys they have, and no other.
LEMMA JoinAt ==
  ASSUME NEW F, NEW S, NEW k \in Keys, Apart(F, S)
  PROVE  /\ \A f \in S : F[f].rows[k] # 0 => Join(F, S)[k] = F[f].rows[k]
         /\ Join(F, S)[k] # 0 => \E f \in S : F[f].rows[k] = Join(F, S)[k]
BY DEF Join, Apart

\* Files that hold nothing but the rows T, and all of them, join to T.
LEMMA JoinIs ==
  ASSUME NEW F, NEW S, NEW T \in RowSet,
         \A f \in S, k \in Keys : F[f].rows[k] \in {0, T[k]},
         \A k \in Keys : T[k] # 0 => \E f \in S : F[f].rows[k] = T[k]
  PROVE  Join(F, S) = T
<1>1. ASSUME NEW k \in Keys PROVE Join(F, S)[k] = T[k]
  <2>1. CASE \E f \in S : F[f].rows[k] # 0
    <3>1. PICK g \in S : g = CHOOSE f \in S : F[f].rows[k] # 0
      BY <2>1
    <3>2. F[g].rows[k] # 0
      BY <2>1, <3>1
    <3>3. Join(F, S)[k] = F[g].rows[k]
      BY <2>1, <3>1 DEF Join
    <3> QED BY <3>2, <3>3
  <2>2. CASE ~ \E f \in S : F[f].rows[k] # 0
    <3>1. Join(F, S)[k] = 0
      BY <2>2 DEF Join
    <3> QED BY <3>1, <2>2
  <2> QED BY <2>1, <2>2
<1> QED BY <1>1 DEF Join, RowSet

\* What other files hold does not matter.
LEMMA JoinSame ==
  ASSUME NEW F, NEW G, NEW S, \A f \in S : G[f] = F[f], Apart(F, S)
  PROVE  Apart(G, S) /\ Join(G, S) = Join(F, S)
<1>1. Apart(G, S)
  BY DEF Apart
<1>2. ASSUME NEW k \in Keys PROVE Join(G, S)[k] = Join(F, S)[k]
  <2>1. CASE \E f \in S : F[f].rows[k] # 0
    <3>1. PICK f \in S : F[f].rows[k] # 0
      BY <2>1
    <3> QED BY <3>1, <1>1, JoinAt
  <2>2. CASE ~ \E f \in S : F[f].rows[k] # 0
    BY <2>2 DEF Join
  <2> QED BY <2>1, <2>2
<1>3. Join(G, S) = Join(F, S)
  BY <1>2 DEF Join
<1> QED BY <1>1, <1>3

\* An update merges rows into rows, of its input or of the old ones.
LEMMA MergedTypes ==
  ASSUME NEW old \in RowSet, NEW s \in Scopes, NEW n \in Inputs
  PROVE  Merged(old, s, n) \in RowSet
BY StoreBounds DEF Merged, RowSet, Inputs

\* The pieces that rows are cut into are rows, and cover them.
LEMMA PiecesCover ==
  ASSUME NEW F, NEW T \in RowSet, NEW pieces \in Pieces(T)
  PROVE  pieces \in SUBSET RowSet /\ Covers(F, T, {}, pieces)
<1> DEFINE Only(k) == [NoRows EXCEPT ![k] = T[k]]
<1>1. \A k, q \in Keys : Only(k)[q] = IF q = k THEN T[k] ELSE 0
  BY DEF NoRows
<1>2. \A k \in Keys : Only(k) \in RowSet
  BY StartTypes DEF RowSet
<1> HIDE DEF Only
<1>3. CASE KeysOf(T) = {} /\ pieces = {}
  BY <1>3 DEF Covers, Apart, KeysOf
<1>4. CASE pieces = {T}
  BY <1>4 DEF Covers, Apart, KeysOf, RowSet
<1>5. CASE pieces = {Only(k) : k \in KeysOf(T)}
  <2>1. \A p \in pieces : \E k \in Keys : p = Only(k)
    BY <1>5 DEF KeysOf
  <2>2. pieces \in SUBSET RowSet
    BY <2>1, <1>2
  <2>3. \A k \in Keys : T[k] # 0 => Only(k) \in pieces /\ Only(k)[k] = T[k]
    BY <1>1, <1>5 DEF KeysOf
  <2>4. \A p \in pieces, k \in Keys : p[k] \in {0, T[k]}
    BY <2>1, <1>1
  <2>5. \A p, q \in pieces : \A k \in Keys : p[k] # 0 /\ q[k] # 0 => p = q
    BY <2>1, <1>1
  <2> QED BY <2>2, <2>3, <2>4, <2>5 DEF Covers, Apart
<1> QED BY <1>3, <1>4, <1>5 DEF Pieces, Only

\* A piece that is linked is one piece less to write.
LEMMA LinkedCovers ==
  ASSUME NEW F, NEW T, NEW new, NEW todo, Covers(F, T, new, todo),
         NEW f, f \notin new, F[f].rows \in todo
  PROVE  Covers(F, T, new \cup {f}, todo \ {F[f].rows})
<1> DEFINE p == F[f].rows
<1>1. \A k \in Keys : T[k] # 0 => \/ \E g \in new \cup {f} : F[g].rows[k] = T[k]
                                  \/ \E q \in todo \ {p} : q[k] = T[k]
  BY DEF Covers
<1>2. \A g \in new \cup {f}, k \in Keys : F[g].rows[k] \in {0, T[k]}
  BY DEF Covers
<1>3. Apart(F, new \cup {f})
  BY DEF Covers, Apart
<1>4. \A g \in new \cup {f}, q \in todo \ {p}, k \in Keys : F[g].rows[k] = 0 \/ q[k] = 0
  BY DEF Covers
<1> QED BY <1>1, <1>2, <1>3, <1>4 DEF Covers

\* Only the linked files matter.
LEMMA CoversSame ==
  ASSUME NEW F, NEW G, NEW T, NEW new, NEW todo, Covers(F, T, new, todo),
         \A f \in new : G[f] = F[f]
  PROVE  Covers(G, T, new, todo)
BY DEF Covers, Apart

\* An update that has linked all it staged changes the rows of its dataset to
\* what its input makes of them, although it reads only the files that meet
\* its scope, and leaves no key given twice.
LEMMA CommitRows ==
  ASSUME NEW F \in [Files -> FileSet], NEW refs \in SUBSET Files, NEW new \in SUBSET Files,
         NEW s \in Scopes, NEW n \in Inputs, Apart(F, refs),
         Covers(F, Merged(Join(F, Met(F, refs, s)), s, n), new, {})
  PROVE  /\ Apart(F, (refs \ Met(F, refs, s)) \cup new)
         /\ Join(F, (refs \ Met(F, refs, s)) \cup new) = Merged(Join(F, refs), s, n)
<1> DEFINE old  == Met(F, refs, s)
           R    == Join(F, refs)
           kept == refs \ old
           J    == Join(F, old)
           T    == Merged(J, s, n)
           W    == Merged(R, s, n)
<1>1. old \in SUBSET Files /\ old \subseteq refs /\ Apart(F, old) /\ Apart(F, kept)
  BY DEF Met, Apart
<1>2. J \in RowSet /\ T \in RowSet /\ R \in RowSet /\ W \in RowSet
  BY <1>1, JoinTypes, MergedTypes
<1>3. Span[s] \subseteq Keys /\ Keys \subseteq Nat
  BY StoreShape
<1>4. \A f \in refs, k \in Span[s] : F[f].rows[k] # 0 => f \in old
  <2> SUFFICES ASSUME NEW f \in refs, NEW k \in Span[s], F[f].rows[k] # 0 PROVE f \in old
    OBVIOUS
  <2>1. k \in Keys /\ k \in Nat
    BY <1>3
  <2>2. k \in KeysOf(F[f].rows) /\ k <= k
    BY <2>1 DEF KeysOf
  <2> QED BY <2>2 DEF Met, Meets
<1>5. \A k \in Keys : J[k] # 0 => \A f \in kept : F[f].rows[k] = 0
  <2> SUFFICES ASSUME NEW k \in Keys, J[k] # 0, NEW f \in kept, F[f].rows[k] # 0 PROVE FALSE
    OBVIOUS
  <2>1. PICK g \in old : F[g].rows[k] = J[k]
    BY <1>1, JoinAt
  <2>2. g = f
    BY <2>1, <1>1 DEF Apart
  <2> QED BY <2>2
<1>a. \A k \in Keys : /\ \A f \in refs : F[f].rows[k] # 0 => R[k] = F[f].rows[k]
                      /\ R[k] # 0 => \E f \in refs : F[f].rows[k] = R[k]
  BY JoinAt
<1>b. \A k \in Keys : /\ \A f \in old : F[f].rows[k] # 0 => J[k] = F[f].rows[k]
                      /\ J[k] # 0 => \E f \in old : F[f].rows[k] = J[k]
  BY <1>1, JoinAt
<1>c. kept = refs \ old
  OBVIOUS
<1>d. /\ \A k \in Span[s] \cap Holds[n] : T[k] = n /\ W[k] = n
      /\ \A k \in Span[s] \ Holds[n] : \/ T[k] = J[k] /\ W[k] = R[k]
                                       \/ T[k] = 0 /\ W[k] = 0
      /\ \A k \in Keys \ Span[s] : T[k] = J[k] /\ W[k] = R[k]
  BY <1>3 DEF Merged
<1>e. Covers(F, T, new, {})
  OBVIOUS
<1> HIDE DEF old, kept, J, R, T, W
<1>6. \A k \in Keys : R[k] = J[k] \/ (J[k] = 0 /\ \E f \in kept : F[f].rows[k] = R[k])
  <2> SUFFICES ASSUME NEW k \in Keys
               PROVE  R[k] = J[k] \/ (J[k] = 0 /\ \E f \in kept : F[f].rows[k] = R[k])
    OBVIOUS
  <2>1. CASE J[k] # 0
    <3>1. PICK g \in old : F[g].rows[k] = J[k]
      BY <2>1, <1>b
    <3>2. R[k] = F[g].rows[k]
      BY <2>1, <3>1, <1>1, <1>a
    <3> QED BY <3>1, <3>2
  <2>2. CASE J[k] = 0 /\ R[k] # 0
    <3>1. PICK g \in refs : F[g].rows[k] = R[k]
      BY <2>2, <1>a
    <3>2. g \notin old
      BY <3>1, <2>2, <1>b
    <3> QED BY <3>1, <3>2, <2>2, <1>c
  <2>3. J[k] = 0 /\ R[k] = 0 => R[k] = J[k]
    OBVIOUS
  <2> QED BY <2>1, <2>2, <2>3
<1>7. \A k \in Keys : T[k] # 0 => \A f \in kept : F[f].rows[k] = 0
  <2>1. \A k \in Span[s] : \A f \in kept : F[f].rows[k] = 0
    BY <1>4, <1>c, <1>3
  <2>2. \A k \in Keys : k \notin Span[s] => T[k] = J[k]
    BY <1>d
  <2> QED BY <2>1, <2>2, <1>5
<1>8. \A f \in new, k \in Keys : F[f].rows[k] \in {0, T[k]}
  BY <1>e DEF Covers
<1>9. Apart(F, kept \cup new)
  <2>1. Apart(F, new)
    BY <1>e DEF Covers
  <2>2. \A f \in kept, g \in new, k \in Keys : F[f].rows[k] = 0 \/ F[g].rows[k] = 0
    BY <1>7, <1>8
  <2> QED BY <2>1, <2>2, <1>1 DEF Apart
<1>10. \A k \in Keys : W[k] = T[k] \/ (T[k] = 0 /\ \E f \in kept : F[f].rows[k] = W[k])
  <2> SUFFICES ASSUME NEW k \in Keys
               PROVE  W[k] = T[k] \/ (T[k] = 0 /\ \E f \in kept : F[f].rows[k] = W[k])
    OBVIOUS
  <2>1. CASE k \in Span[s]
    <3>1. R[k] = J[k]
      BY <2>1, <1>4, <1>6, <1>c
    <3> QED BY <3>1, <2>1, <1>d
  <2>2. CASE k \notin Span[s]
    <3>1. W[k] = R[k] /\ T[k] = J[k]
      BY <2>2, <1>d
    <3> QED BY <3>1, <1>6
  <2> QED BY <2>1, <2>2
<1>11. \A f \in kept \cup new, k \in Keys : F[f].rows[k] \in {0, W[k]}
  <2> SUFFICES ASSUME NEW f \in kept \cup new, NEW k \in Keys, F[f].rows[k] # 0 PROVE F[f].rows[k] = W[k]
    OBVIOUS
  <2>1. CASE f \in new
    BY <2>1, <1>8, <1>10
  <2>2. CASE f \in kept
    <3>1. k \notin Span[s]
      BY <2>2, <1>4, <1>c
    <3>2. W[k] = R[k]
      BY <3>1, <1>d
    <3> QED BY <3>2, <2>2, <1>a, <1>c
  <2> QED BY <2>1, <2>2
<1>12. \A k \in Keys : W[k] # 0 => \E f \in kept \cup new : F[f].rows[k] = W[k]
  <2> SUFFICES ASSUME NEW k \in Keys, W[k] # 0 PROVE \E f \in kept \cup new : F[f].rows[k] = W[k]
    OBVIOUS
  <2>1. CASE W[k] = T[k]
    BY <2>1, <1>e DEF Covers
  <2> QED BY <2>1, <1>10
<1>13. Join(F, kept \cup new) = W
  <2> QED BY <1>2, <1>11, <1>12, JoinIs
<1> QED BY <1>9, <1>13 DEF old, kept, R, W
-----------------------------------------------------------------------------
(* What a step leaves alone.                                               *)

\* The files a writer counts on.
Known(o, c) ==
  {f \in Files : \/ Firm(o) /\ f \in c.refs \cup o.new
                 \/ o.at = "linking" /\ f = o.cur
                 \/ o.at = "sweep" /\ f \in o.old}

\* The catalog of a dataset goes on from c to e without harm to the writer w.
GoesOn(w, o, c, e) ==
  \/ e = c
  \/ /\ ~ Firm(o) /\ (Working(o) => LateCommits) /\ o.at # "sent" /\ o.tx # "open"
     /\ c.gen <= e.gen /\ (o.at = "locked" => e.last # <<w, o.id>>)

\* A writer that does nothing keeps what it knows, whatever happens to other
\* datasets and to files it does not count on.
LEMMA WriterKeeps ==
  ASSUME NEW w, NEW o \in OpSet, NEW c \in CatSet, NEW e \in CatSet,
         NEW G, NEW F, NEW D, NEW H, NEW E, NEW X,
         WriterOK(w, o, c, G, F, D), Apart(F, c.refs), GoesOn(w, o, c, e),
         \A f \in Known(o, c) : H[f] = G[f] /\ E[f] = F[f] /\ (f \in X <=> f \in D)
  PROVE  WriterOK(w, o, e, H, E, X)
<1>1. o.old \in SUBSET Files /\ o.new \in SUBSET Files /\ o.s \in Scopes /\ c.refs \in SUBSET Files
      /\ c.gen \in Int /\ e.gen \in Int /\ o.rev \in Int
  BY DEF OpSet, CatSet
<1>2. Swept(o, H, E, X)
  BY <1>1 DEF WriterOK, Swept, Known
<1>3. Outcome(w, o, e.last)
  BY DEF WriterOK, GoesOn, Outcome, Working
<1>4. o.at = "linking" /\ o.cur \in Files => o.cur \in Known(o, c)
  BY DEF Known
<1>5. CASE ~ Firm(o)
  <2>1. Working(o) => Bare(o)
    BY <1>5 DEF Firm
  <2>2. o.at = "linking" => Working(o) /\ o.todo # {}
    BY DEF Working, WriterOK, Staged
  <2>3. o.at # "linking"
    BY <2>1, <2>2 DEF Bare
  <2>4. ASSUME e = c PROVE Staged(o, e, H, E, X)
    BY <1>5, <2>1, <2>3, <2>4 DEF WriterOK, Staged, Bare
  <2>5. ASSUME ~ Working(o) PROVE Staged(o, e, H, E, X)
    BY <1>5, <2>3, <2>5 DEF WriterOK, Staged
  <2>6. ASSUME Working(o), LateCommits, c.gen <= e.gen, o.tx # "open" PROVE Staged(o, e, H, E, X)
    BY <1>1, <1>5, <2>1, <2>3, <2>6 DEF WriterOK, Staged, Bare
  <2> QED BY <1>2, <1>3, <2>4, <2>5, <2>6 DEF WriterOK, GoesOn
<1>6. CASE Firm(o)
  <2>1. e = c /\ Working(o)
    BY <1>6 DEF GoesOn, Firm
  <2>2. \A f \in c.refs \cup o.new : H[f] = G[f] /\ E[f] = F[f] /\ (f \in X <=> f \in D)
    BY <1>1, <1>6 DEF Known
  <2>3. ASSUME o.old \subseteq c.refs, Rewrites(F, c.refs, o) PROVE Rewrites(E, c.refs, o)
    <3>1. \A S : Apart(F, S) /\ (\A f \in S : E[f] = F[f]) => Join(E, S) = Join(F, S)
      BY ONLY JoinSame
    <3>2. Met(E, c.refs, o.s) = Met(F, c.refs, o.s)
      BY <2>2, <2>3 DEF Met
    <3>3. Apart(F, o.old)
      BY <2>3 DEF Apart
    <3>4. Join(E, o.old) = Join(F, o.old)
      BY <3>1, <3>3, <2>2, <2>3
    <3>5. \A T, N, Z : Covers(F, T, N, Z) /\ (\A f \in N : E[f] = F[f]) => Covers(E, T, N, Z)
      BY ONLY CoversSame
    <3> QED BY <2>2, <2>3, <3>2, <3>4, <3>5 DEF Rewrites
  <2>4. Staged(o, e, H, E, X)
    BY <1>4, <2>1, <2>2, <2>3 DEF WriterOK, Staged
  <2> QED BY <1>2, <1>3, <2>4 DEF WriterOK
<1> QED BY <1>5, <1>6

\* The dataset that a read comes to next is one of those it asked for.
LEMMA NextOne ==
  ASSUME NEW want \in SUBSET Datasets, NEW S, S \subseteq want, S # want
  PROVE  Lowest(want \ S) \in want \ S
BY LowestIs, StoreShape

\* A reader that does nothing keeps what it has seen, as long as the datasets it
\* holds keep their catalog and all others go on by generations.
LEMMA ReaderKeeps ==
  ASSUME NEW r, NEW q \in ReadSet, NEW C \in [Datasets -> CatSet], NEW A \in [Datasets -> CatSet],
         NEW F, NEW E,
         Seen(r, q, C, F), q.held \subseteq q.want,
         \A d \in Datasets : Apart(F, C[d].refs) /\ \A f \in C[d].refs : E[f] = F[f],
         ~ LateCommits => \A d \in Datasets : A[d] = C[d] \/ (A[d].gen > C[d].gen /\ d \notin q.held)
  PROVE  Seen(r, q, A, E)
<1> SUFFICES ASSUME ~ LateCommits PROVE Fresh(r, q, A, E)
  BY DEF Seen
<1>0. Looks(q) /\ Fresh(r, q, C, F)
  BY DEF Seen
<1>1. \A d \in Datasets : Join(E, C[d].refs) = Join(F, C[d].refs)
  <2>1. \A S : Apart(F, S) /\ (\A f \in S : E[f] = F[f]) => Join(E, S) = Join(F, S)
    BY ONLY JoinSame
  <2> QED BY <2>1
<1>2. q.want \in SUBSET Datasets /\ q.held \in SUBSET Datasets /\ DOMAIN q.page \in SUBSET Datasets
      /\ \A d \in DOMAIN q.page : q.page[d].gen \in Int
  BY DEF ReadSet, Of, PageSet
<1>3. ASSUME DOMAIN q.gens # {} PROVE \A d \in q.want : A[d] = C[d]
  BY <1>0, <1>2, <1>3 DEF Looks
<1>4. DOMAIN q.opened # {} \/ q.at = "listed" => DOMAIN q.gens # {}
  BY <1>0 DEF Looks, ReadSet
<1>5. \A d \in DOMAIN q.gens : q.gens[d] = A[d].gen
  BY <1>0, <1>3 DEF Looks, Fresh
<1>6. \A d \in DOMAIN q.opened : q.opened[d] = Join(E, A[d].refs) /\ Shown(r, A[d])
  BY <1>0, <1>1, <1>2, <1>3, <1>4 DEF Looks, Fresh
<1>7. ASSUME q.at = "listed"
      PROVE  LET d == Lowest(q.want \ DOMAIN q.opened) IN
             q.refs = A[d].refs /\ Shown(r, A[d])
  <2>1. Lowest(q.want \ DOMAIN q.opened) \in q.want
    BY <1>0, <1>7, <1>2, NextOne DEF Looks
  <2> QED BY <1>0, <2>1, <1>3, <1>4, <1>7 DEF Fresh
<1>8. ASSUME NEW d \in DOMAIN q.page
      PROVE  /\ q.page[d].gen <= A[d].gen
             /\ q.page[d].gen = A[d].gen => q.page[d].rows = Join(E, A[d].refs)
  <2>1. d \in Datasets /\ q.page[d].gen \in Int /\ C[d].gen \in Int /\ A[d].gen \in Int
    BY <1>2, <1>8 DEF CatSet
  <2>2. q.page[d].gen <= C[d].gen /\ (q.page[d].gen = C[d].gen => q.page[d].rows = Join(F, C[d].refs))
    BY <1>0, <1>8 DEF Fresh
  <2> QED BY <2>1, <2>2, <1>1
<1> QED BY <1>5, <1>6, <1>7, <1>8 DEF Fresh

\* A step of a reader.
LEMMA ReaderStep ==
  ASSUME StoreInv, NEW r \in Readers, NEW q \in ReadSet, q.held \subseteq q.want,
         rd' = [rd EXCEPT ![r] = q], UNCHANGED <<Files0, op, wrong>>,
         Seen(r, q, cat, file),
         \A d \in q.held : d \in rd[r].held \/ CommitFree(d)
  PROVE  StoreInv'
<1>1. rd' \in [Readers -> ReadSet] /\ rd'[r] = q /\ \A p \in Readers : p # r => rd'[p] = rd[p]
  BY DEF StoreInv, Types
<1>2. Types'
  BY <1>1 DEF StoreInv, Types, Files0
<1>3. LocksHeld'
  <2>1. \A w \in Writers : Committing(w)' <=> Committing(w)
    BY DEF Committing
  <2>2. ASSUME NEW w \in Writers, NEW p \in Readers, Committing(w) PROVE op[w].d \notin rd'[p].held
    <3>1. CASE p # r
      BY <3>1, <1>1, <2>2 DEF StoreInv, LocksHeld
    <3>2. CASE p = r
      BY <3>2, <1>1, <2>2 DEF StoreInv, LocksHeld, CommitFree
    <3> QED BY <3>1, <3>2
  <2> QED BY <2>1, <2>2 DEF StoreInv, LocksHeld
<1>4. RowHeld' /\ Updates' /\ Store' /\ Room' /\ wrong' = {}
  BY DEF StoreInv, RowHeld, Updates, Store, Room, Files0, Referenced, Listed
<1>5. Reads0'
  BY <1>1 DEF StoreInv, Reads0, Files0
<1> QED BY <1>2, <1>3, <1>4, <1>5 DEF StoreInv

\* A step of a writer that changes neither catalog nor files.
LEMMA WriterStep ==
  ASSUME StoreInv, NEW w \in Writers, NEW o \in OpSet,
         op' = [op EXCEPT ![w] = o], UNCHANGED <<Files0, rd, wrong>>,
         WriterOK(w, o, cat[o.d], garbage, file, disk),
         Holder(o) => \/ Holder(op[w]) /\ o.d = op[w].d
                      \/ \A v \in Writers : Holder(op[v]) => op[v].d # o.d,
         o.at \in {"locked", "sent", "sweep"} => \A r \in Readers : o.d \notin rd[r].held,
         o.tx = "open" => /\ \A v \in Writers : v # w => op[v].tx # "open"
                          /\ Cardinality(Listed) + Cardinality(o.old) <= MaxGarbage,
         \A v \in Writers : v # w => OpenApart(o, op[v]) /\ OpenApart(op[v], o)
  PROVE  StoreInv'
<1>1. op' \in [Writers -> OpSet] /\ op'[w] = o /\ \A v \in Writers : v # w => op'[v] = op[v]
  BY DEF StoreInv, Types
<1>2. Types'
  BY <1>1 DEF StoreInv, Types, Files0
<1>3. LocksHeld'
  BY <1>1 DEF StoreInv, LocksHeld, Committing
<1>4. Updates'
  BY <1>1 DEF StoreInv, Updates, Files0
<1>5. Room'
  BY <1>1 DEF StoreInv, Room, Files0, Listed
<1>6. Store' /\ Reads0' /\ wrong' = {}
  BY DEF StoreInv, Store, Reads0, Files0, Referenced
<1>7. RowHeld'
  BY <1>1 DEF StoreInv, RowHeld
<1> QED BY <1>2, <1>3, <1>4, <1>5, <1>6, <1>7 DEF StoreInv
-----------------------------------------------------------------------------
(* Reads.                                                                  *)

\* A reader that reads nothing has seen nothing but its last page.
LEMMA IdleReader ==
  ASSUME StoreInv, NEW r \in Readers, rd[r].at = "idle"
  PROVE  /\ rd[r].want = {} /\ rd[r].held = {} /\ rd[r].refs = {} /\ ~ rd[r].next
         /\ DOMAIN rd[r].gens = {} /\ DOMAIN rd[r].opened = {}
<1>1. rd[r] = [NoRead EXCEPT !.page = rd[r].page]
  BY DEF StoreInv, Reads0, Seen, Looks, Fresh
<1> QED BY <1>1 DEF NoRead

\* A reader ends, with a page of the present generation or none.
LEMMA Ending ==
  ASSUME StoreInv, NEW r \in Readers, NEW page \in Of(PageSet),
         ~ LateCommits => \A d \in DOMAIN page : /\ page[d].gen = cat[d].gen
                                                /\ page[d].rows = Join(file, cat[d].refs),
         Ends(r, page), UNCHANGED <<Files0, op, wrong>>
  PROVE  StoreInv'
<1> DEFINE q == [NoRead EXCEPT !.page = page]
<1>1. NoRead \in ReadSet
  BY StartTypes
<1>2. q \in ReadSet /\ q.page = page /\ q.at = "idle" /\ q.want = {} /\ q.held = {} /\ ~ q.next
      /\ DOMAIN q.gens = {} /\ DOMAIN q.opened = {}
  <2>1. q \in ReadSet
    BY <1>1 DEF ReadSet
  <2>2. q.page = page /\ q.at = "idle" /\ q.want = {} /\ q.held = {} /\ ~ q.next
    BY DEF NoRead
  <2>3. DOMAIN q.gens = {} /\ DOMAIN q.opened = {}
    BY DEF NoRead
  <2> QED BY <2>1, <2>2, <2>3
<1>3. page \in Of(PageSet) /\ DOMAIN page \in SUBSET Datasets
  BY DEF Of
<1>4. \A d \in DOMAIN page : cat[d].gen \in Int
  BY <1>3 DEF StoreInv, Types, CatSet
<1>5. q = [NoRead EXCEPT !.page = q.page]
  BY <1>2
<1>6. rd' = [rd EXCEPT ![r] = q]
  BY DEF Ends
<1> HIDE DEF q
<1>7. Seen(r, q, cat, file)
  BY <1>2, <1>4, <1>5 DEF Seen, Looks, Fresh
<1> QED BY <1>2, <1>6, <1>7, ReaderStep

LEMMA EndsEmpty ==
  ASSUME StoreInv, NEW r \in Readers, Ends(r, <<>>), UNCHANGED <<Files0, op, wrong>>
  PROVE  StoreInv'
BY StartTypes, Ending

LEMMA AskReadKeeps ==
  ASSUME StoreInv, NEW r \in Readers, NEW want \in Reads, AskRead(r, want)
  PROVE  StoreInv'
<1> DEFINE q == [rd[r] EXCEPT !.at = "reading", !.want = want]
<1>1. want \in SUBSET Datasets /\ want # {}
  BY StoreBounds
<1>2. rd[r] \in ReadSet /\ Seen(r, rd[r], cat, file)
  BY DEF StoreInv, Types, Reads0
<1>3. rd' = [rd EXCEPT ![r] = q] /\ UNCHANGED <<Files0, op, wrong>> /\ rd[r].at = "idle"
  BY DEF AskRead
<1>4. q \in ReadSet
  BY <1>1, <1>2 DEF ReadSet
<1>5. /\ q.at = "reading" /\ q.want = want /\ q.held = {} /\ ~ q.next /\ q.page = rd[r].page
      /\ DOMAIN q.gens = {} /\ DOMAIN q.opened = {}
  BY <1>2, <1>3, IdleReader DEF ReadSet
<1> HIDE DEF q
<1>6. Seen(r, q, cat, file)
  BY <1>1, <1>2, <1>5 DEF Seen, Looks, Fresh
<1> QED BY <1>3, <1>4, <1>5, <1>6, ReaderStep

LEMMA AskNextKeeps ==
  ASSUME StoreInv, NEW r \in Readers, AskNext(r)
  PROVE  StoreInv'
<1> DEFINE q == [rd[r] EXCEPT !.at = "reading", !.want = DOMAIN rd[r].page, !.next = TRUE]
<1>1. rd[r] \in ReadSet /\ Seen(r, rd[r], cat, file)
  BY DEF StoreInv, Types, Reads0
<1>2. DOMAIN rd[r].page \in SUBSET Datasets
  BY <1>1 DEF ReadSet, Of
<1>3. rd' = [rd EXCEPT ![r] = q] /\ UNCHANGED <<Files0, op, wrong>> /\ rd[r].at = "idle" /\ DOMAIN rd[r].page # {}
  BY DEF AskNext
<1>4. q \in ReadSet
  BY <1>1, <1>2 DEF ReadSet
<1>5. /\ q.at = "reading" /\ q.want = DOMAIN q.page /\ q.held = {} /\ q.page = rd[r].page
      /\ DOMAIN q.gens = {} /\ DOMAIN q.opened = {}
  BY <1>1, <1>3, IdleReader DEF ReadSet
<1> HIDE DEF q
<1>6. Seen(r, q, cat, file)
  BY <1>1, <1>3, <1>5 DEF Seen, Looks, Fresh
<1> QED BY <1>3, <1>4, <1>5, <1>6, ReaderStep

LEMMA LockReadKeeps ==
  ASSUME StoreInv, NEW r \in Readers, LockRead(r)
  PROVE  StoreInv'
<1> DEFINE d == Lowest(rd[r].want \ rd[r].held)
           q == [rd[r] EXCEPT !.held = @ \cup {d}]
<1>1. rd[r] \in ReadSet /\ Seen(r, rd[r], cat, file) /\ rd[r].held \subseteq rd[r].want
  BY DEF StoreInv, Types, Reads0
<1>2. rd' = [rd EXCEPT ![r] = q] /\ UNCHANGED <<Files0, op, wrong>> /\ CommitFree(d)
  BY DEF LockRead
<1>3. rd[r].at = "reading" /\ rd[r].held # rd[r].want
  BY DEF LockRead
<1>4. rd[r].want \in SUBSET Datasets
  BY <1>1 DEF ReadSet
<1>5. d \in rd[r].want
  BY <1>1, <1>3, <1>4, NextOne
<1> HIDE DEF d
<1>6. /\ q.held = rd[r].held \cup {d} /\ q.at = "reading"
      /\ q.want = rd[r].want /\ q.next = rd[r].next /\ q.page = rd[r].page
      /\ q.gens = rd[r].gens /\ q.opened = rd[r].opened /\ DOMAIN rd[r].gens = {} /\ DOMAIN rd[r].opened = {}
  BY <1>1, <1>3 DEF ReadSet, Seen, Looks, Fresh
<1>7. q \in ReadSet /\ q.held \subseteq q.want
  BY <1>1, <1>4, <1>5, <1>6 DEF ReadSet
<1> HIDE DEF q
<1>8. Seen(r, q, cat, file)
  BY <1>1, <1>3, <1>6 DEF Seen, Looks, Fresh
<1> QED BY <1>2, <1>6, <1>7, <1>8, ReaderStep

LEMMA LookKeeps ==
  ASSUME StoreInv, NEW r \in Readers, Look(r)
  PROVE  StoreInv'
<1> DEFINE d == Lowest(rd[r].want \ DOMAIN rd[r].gens)
           q == [rd[r] EXCEPT !.gens = Extended(@, d, cat[d].gen)]
<1>1. rd[r] \in ReadSet /\ Seen(r, rd[r], cat, file) /\ rd[r].held \subseteq rd[r].want
  BY DEF StoreInv, Types, Reads0
<1>2. rd' = [rd EXCEPT ![r] = q] /\ UNCHANGED <<Files0, op, wrong>>
  BY DEF Look
<1>3. rd[r].at = "reading" /\ rd[r].held = rd[r].want /\ DOMAIN rd[r].gens # rd[r].want
  BY DEF Look
<1>4. rd[r].want \in SUBSET Datasets /\ DOMAIN rd[r].gens \subseteq rd[r].want
  BY <1>1 DEF ReadSet, Seen, Looks, Fresh
<1>5. d \in rd[r].want /\ d \notin DOMAIN rd[r].gens
  BY <1>3, <1>4, NextOne
<1> HIDE DEF d
<1>6. cat[d].gen \in Int /\ d \in Datasets
  BY <1>4, <1>5 DEF StoreInv, Types, CatSet
<1>7. rd[r].gens \in Of(Int)
  BY <1>1 DEF ReadSet
<1> DEFINE g == Extended(rd[r].gens, d, cat[d].gen)
<1>8. g \in Of(Int) /\ DOMAIN g = DOMAIN rd[r].gens \cup {d} /\ g[d] = cat[d].gen
      /\ \A e \in DOMAIN rd[r].gens : e # d => g[e] = rd[r].gens[e]
  <2>1. \A fn \in Of(Int), e \in Datasets, v \in Int : Extended(fn, e, v) \in Of(Int)
    BY ExtendedType
  <2> QED BY <1>6, <1>7, <2>1 DEF Extended
<1> HIDE DEF g
<1>9. q = [rd[r] EXCEPT !.gens = g]
  BY DEF g
<1>10. /\ q.held = rd[r].held /\ q.at = "reading" /\ q.refs = rd[r].refs
       /\ q.want = rd[r].want /\ q.next = rd[r].next /\ q.page = rd[r].page
       /\ q.gens = g /\ q.opened = rd[r].opened /\ DOMAIN rd[r].opened = {}
  BY <1>1, <1>3, <1>9 DEF ReadSet, Seen, Looks, Fresh
<1>11. q \in ReadSet
  BY <1>1, <1>8, <1>9 DEF ReadSet
<1> HIDE DEF q
<1>12. Seen(r, q, cat, file)
  BY <1>1, <1>3, <1>4, <1>5, <1>8, <1>10 DEF Seen, Looks, Fresh
<1> QED BY <1>1, <1>2, <1>10, <1>11, <1>12, ReaderStep

LEMMA ListKeeps ==
  ASSUME StoreInv, NEW r \in Readers, List(r)
  PROVE  StoreInv'
<1> DEFINE d == Lowest(rd[r].want \ DOMAIN rd[r].opened)
           q == [rd[r] EXCEPT !.at = "listed", !.refs = cat[d].refs]
<1>1. rd[r] \in ReadSet /\ Seen(r, rd[r], cat, file) /\ rd[r].held \subseteq rd[r].want
  BY DEF StoreInv, Types, Reads0
<1>2. /\ rd[r].at = "reading" /\ rd[r].held = rd[r].want /\ DOMAIN rd[r].gens = rd[r].want
      /\ DOMAIN rd[r].opened # rd[r].want /\ UNCHANGED <<Files0, op, wrong>>
  BY DEF List
<1>3. CASE Ends(r, <<>>)
  BY <1>2, <1>3, EndsEmpty
<1>4. CASE ~ Restricted(r, d) /\ ~ Changed(r) /\ rd' = [rd EXCEPT ![r] = q]
  <2>1. rd[r].want \in SUBSET Datasets /\ DOMAIN rd[r].opened \subseteq rd[r].want
    BY <1>1 DEF ReadSet, Seen, Looks, Fresh
  <2>2. d \in rd[r].want
    BY <1>2, <2>1, NextOne
  <2>3. Shown(r, cat[d])
    BY <1>4 DEF Restricted, Shown
  <2>4. rd[r].next => \A e \in rd[r].want : rd[r].page[e].gen = rd[r].gens[e]
    BY <1>4 DEF Changed, ChangedAt
  <2>5. cat[d].refs \in SUBSET Files
    BY <2>1, <2>2 DEF StoreInv, Types, CatSet
  <2> DEFINE refs == cat[d].refs
  <2> HIDE DEF refs
  <2>6. q = [rd[r] EXCEPT !.at = "listed", !.refs = refs]
    BY DEF refs
  <2>7. /\ q.held = rd[r].held /\ q.at = "listed" /\ q.refs = refs
        /\ q.want = rd[r].want /\ q.next = rd[r].next /\ q.page = rd[r].page
        /\ q.gens = rd[r].gens /\ q.opened = rd[r].opened
    BY <1>1, <2>6 DEF ReadSet
  <2>8. q \in ReadSet
    BY <1>1, <2>5, <2>6 DEF ReadSet, refs
  <2>9. q.refs = cat[Lowest(q.want \ DOMAIN q.opened)].refs /\ Shown(r, cat[Lowest(q.want \ DOMAIN q.opened)])
    BY <2>3, <2>7 DEF refs
  <2> HIDE DEF q
  <2>10. Seen(r, q, cat, file)
    BY <1>1, <1>2, <2>4, <2>7, <2>9 DEF Seen, Looks, Fresh
  <2> QED BY <1>1, <1>2, <1>4, <2>7, <2>8, <2>10, ReaderStep
<1> QED BY <1>3, <1>4 DEF List

LEMMA OpenKeeps ==
  ASSUME StoreInv, NEW r \in Readers, Open(r)
  PROVE  StoreInv'
<1> DEFINE d == Lowest(rd[r].want \ DOMAIN rd[r].opened)
           x == Extended(rd[r].opened, d, Joined(rd[r].refs))
           q == [rd[r] EXCEPT !.at = "reading", !.refs = {}, !.opened = x]
<1>1. rd[r] \in ReadSet /\ Seen(r, rd[r], cat, file) /\ rd[r].held \subseteq rd[r].want
  BY DEF StoreInv, Types, Reads0
<1>2. rd' = [rd EXCEPT ![r] = q] /\ UNCHANGED <<Files0, op, wrong>>
  BY DEF Open
<1>3. rd[r].at = "listed"
  BY DEF Open
<1>4. /\ rd[r].want \in SUBSET Datasets /\ DOMAIN rd[r].opened \subseteq rd[r].want
      /\ DOMAIN rd[r].opened # rd[r].want /\ DOMAIN rd[r].gens = rd[r].want
      /\ ~ LateCommits => rd[r].refs = cat[d].refs /\ Shown(r, cat[d])
  BY <1>1, <1>3 DEF ReadSet, Seen, Looks, Fresh
<1>5. d \in rd[r].want /\ d \in Datasets
  BY <1>4, NextOne
<1> HIDE DEF d
<1>6. rd[r].refs \in SUBSET Files /\ file \in [Files -> FileSet]
  BY <1>1 DEF StoreInv, Types, ReadSet
<1>7. Joined(rd[r].refs) = Join(file, rd[r].refs) /\ Join(file, rd[r].refs) \in RowSet
  BY <1>6, OfTheseFiles, JoinTypes
<1>8. rd[r].opened \in Of(RowSet)
  BY <1>1 DEF ReadSet
<1>9. x \in Of(RowSet) /\ DOMAIN x = DOMAIN rd[r].opened \cup {d} /\ x[d] = Join(file, rd[r].refs)
      /\ \A e \in DOMAIN rd[r].opened : e # d => x[e] = rd[r].opened[e]
  <2>1. \A fn \in Of(RowSet), e \in Datasets, v \in RowSet : Extended(fn, e, v) \in Of(RowSet)
    BY ExtendedType
  <2> QED BY <1>5, <1>7, <1>8, <2>1 DEF Extended
<1> HIDE DEF x
<1>10. /\ q.held = rd[r].held /\ q.at = "reading"
       /\ q.want = rd[r].want /\ q.next = rd[r].next /\ q.page = rd[r].page
       /\ q.gens = rd[r].gens /\ q.opened = x
  BY <1>1 DEF ReadSet
<1>11. q \in ReadSet
  BY <1>1, <1>9 DEF ReadSet
<1> HIDE DEF q
<1>12. Seen(r, q, cat, file)
  BY <1>1, <1>3, <1>4, <1>5, <1>9, <1>10 DEF Seen, Looks, Fresh
<1> QED BY <1>1, <1>2, <1>10, <1>11, <1>12, ReaderStep

\* A read returns what it has seen: a page of the present generation, and the
\* same as the page before if it goes on from a cursor.
LEMMA Returned ==
  ASSUME StoreInv, NEW r \in Readers, Return(r)
  PROVE  LET D == rd[r].want
             page == [d \in rd[r].want |-> [gen |-> rd[r].gens[d], rows |-> rd[r].opened[d]]] IN
         /\ page \in Of(PageSet) /\ Ends(r, page)
         /\ ~ LateCommits =>
              /\ page = [d \in D |-> [gen |-> cat[d].gen, rows |-> Join(file, cat[d].refs)]]
              /\ \A d \in D : Shown(r, cat[d])
              /\ rd[r].next => rd[r].page = page
<1> DEFINE D == rd[r].want
           gens == rd[r].gens
           opened == rd[r].opened
           page == [d \in D |-> [gen |-> gens[d], rows |-> opened[d]]]
<1>1. rd[r] \in ReadSet /\ Seen(r, rd[r], cat, file)
  BY DEF StoreInv, Types, Reads0
<1>2. D \in SUBSET Datasets /\ D # {} /\ DOMAIN opened = D /\ DOMAIN gens = D
  BY <1>1 DEF Return, Seen, Looks, ReadSet
<1>3. gens \in [D -> Int] /\ opened \in [D -> RowSet]
  BY <1>1, <1>2 DEF ReadSet, Of
<1>4. Ends(r, page)
  BY DEF Return
<1> HIDE DEF gens, opened
<1>5. page \in [D -> PageSet]
  BY <1>3 DEF PageSet
<1>6. page \in Of(PageSet)
  BY <1>2, <1>5 DEF Of
<1>7. ASSUME ~ LateCommits
      PROVE  /\ \A d \in D : /\ gens[d] = cat[d].gen /\ opened[d] = Join(file, cat[d].refs)
                            /\ Shown(r, cat[d])
             /\ page = [d \in D |-> [gen |-> cat[d].gen, rows |-> Join(file, cat[d].refs)]]
             /\ rd[r].next => rd[r].page = page
  <2>1. \A d \in D : /\ gens[d] = cat[d].gen /\ opened[d] = Join(file, cat[d].refs) /\ Shown(r, cat[d])
    BY <1>1, <1>2, <1>7 DEF Seen, Fresh, gens, opened
  <2>2. page = [d \in D |-> [gen |-> cat[d].gen, rows |-> Join(file, cat[d].refs)]]
    BY <2>1
  <2>3. ASSUME rd[r].next PROVE rd[r].page = page
    <3>1. rd[r].page \in [D -> PageSet]
      BY <1>1, <2>3 DEF Seen, Looks, ReadSet, Of
    <3>2. \A d \in D : rd[r].page[d].gen = gens[d]
      BY <1>1, <1>2, <2>3 DEF Seen, Looks, gens, opened
    <3>3. \A d \in D : rd[r].page[d].gen = cat[d].gen /\ rd[r].page[d].rows = opened[d]
      BY <1>1, <1>7, <2>1, <3>1, <3>2 DEF Seen, Fresh
    <3>4. \A d \in D : rd[r].page[d] = page[d]
      BY <2>1, <3>1, <3>3 DEF PageSet
    <3> QED BY <3>1, <3>4, <1>5
  <2> QED BY <2>1, <2>2, <2>3
<1> QED BY <1>4, <1>6, <1>7 DEF gens, opened

LEMMA ReturnKeeps ==
  ASSUME StoreInv, NEW r \in Readers, Return(r)
  PROVE  StoreInv'
<1> DEFINE page == [d \in rd[r].want |-> [gen |-> rd[r].gens[d], rows |-> rd[r].opened[d]]]
<1>1. page \in Of(PageSet) /\ Ends(r, page)
  BY Returned
<1>2. ~ LateCommits => page = [d \in rd[r].want |-> [gen |-> cat[d].gen, rows |-> Join(file, cat[d].refs)]]
  BY Returned
<1>3. ~ LateCommits => \A d \in DOMAIN page : page[d].gen = cat[d].gen /\ page[d].rows = Join(file, cat[d].refs)
  BY <1>2
<1>4. UNCHANGED <<Files0, op, wrong>>
  BY DEF Return
<1> HIDE DEF page
<1> QED BY <1>1, <1>3, <1>4, Ending

\* Reads leave the invariant.
LEMMA ReadingKeeps ==
  ASSUME StoreInv, Reading
  PROVE  StoreInv'
<1>1. PICK r \in Readers :
        \/ \E want \in Reads : AskRead(r, want)
        \/ AskNext(r) \/ Leave(r) \/ LockRead(r) \/ Look(r) \/ List(r) \/ Open(r) \/ Return(r) \/ FailRead(r)
  BY DEF Reading
<1>2. CASE Leave(r) \/ FailRead(r)
  BY <1>2, EndsEmpty DEF Leave, FailRead
<1> QED BY <1>1, <1>2, AskReadKeeps, AskNextKeeps, LockReadKeeps, LookKeeps, ListKeeps, OpenKeeps, ReturnKeeps
-----------------------------------------------------------------------------
(* Steps of an update that change no file.                                 *)

\* What is known of a writer.
LEMMA WriterFacts ==
  ASSUME StoreInv, NEW w \in Writers
  PROVE  /\ op[w] \in OpSet /\ op[w].d \in Datasets /\ op[w].s \in Scopes
         /\ cat[op[w].d] \in CatSet
         /\ Outcome(w, op[w], cat[op[w].d].last)
         /\ Staged(op[w], cat[op[w].d], garbage, file, disk)
         /\ Swept(op[w], garbage, file, disk)
         /\ file \in [Files -> FileSet]
<1>1. op[w] \in OpSet
  BY DEF StoreInv, Types
<1>2. op[w].d \in Datasets /\ op[w].s \in Scopes
  BY <1>1 DEF OpSet
<1> QED BY <1>1, <1>2 DEF StoreInv, Types, Updates, WriterOK

\* A free dataset has no holder.
LEMMA FreeOfHolders ==
  ASSUME NEW d, WriterFree(d)
  PROVE  \A v \in Writers : Holder(op[v]) => op[v].d # d
BY DEF WriterFree, Holder, Planning, Committing

LEMMA FreeOfReaders ==
  ASSUME NEW d, Readable(d)
  PROVE  \A r \in Readers : d \notin rd[r].held
BY DEF Readable

\* Who has nothing under way, or counts on nothing, is apart from a COMMIT.
LEMMA RestApart ==
  ASSUME NEW o
  PROVE  /\ o.tx # "open" => \A p : OpenApart(o, p)
         /\ ~ Firm(o) /\ o.at \notin {"sent", "sweep"} => \A p : OpenApart(p, o)
BY DEF OpenApart

\* An open transaction is one whose outcome its writer has not looked up, or one
\* that its writer has left.
LEMMA OpenIs ==
  ASSUME StoreInv, NEW w \in Writers, op[w].tx = "open"
  PROVE  /\ op[w].at = "sent" \/ (op[w].at = "idle" /\ LateCommits)
         /\ \A v \in Writers : v # w => op[v].tx # "open"
<1>1. op[w].at \in Phases /\ NoOp.tx = "none"
  BY WriterFacts DEF OpSet, NoOp
<1>2. Outcome(w, op[w], cat[op[w].d].last)
  BY WriterFacts
<1>3. op[w].at = "sent" \/ (op[w].at = "idle" /\ LateCommits)
  BY <1>1, <1>2 DEF Outcome, Phases
<1> QED BY <1>3 DEF StoreInv, Room

\* Nothing under way fits any catalog.
LEMMA NothingOK ==
  ASSUME NEW w, NEW c, NEW G, NEW F, NEW D
  PROVE  WriterOK(w, NoOp, c, G, F, D)
<1>1. NoOp.at = "idle" /\ NoOp.tx = "none"
  BY DEF NoOp
<1> QED BY <1>1 DEF WriterOK, Outcome, Staged, Swept, Working, Checked, Firm

\* The states of a writer that has nothing under way.
LEMMA RestOK ==
  ASSUME NEW w \in Writers, NEW c, NEW d \in Datasets, NEW tx \in {"none", "done"},
         NEW answer \in {"ok", "noop", "none"}, answer = "ok" <=> tx = "done"
  PROVE  /\ NoOp \in OpSet /\ NoOp.at = "idle" /\ NoOp.tx = "none"
         /\ WriterOK(w, NoOp, c, garbage, file, disk)
         /\ LET o == [NoOp EXCEPT !.at = "tidy", !.d = d, !.tx = tx, !.answer = answer] IN
            o \in OpSet /\ o.at = "tidy" /\ o.d = d /\ o.tx = tx /\ WriterOK(w, o, c, garbage, file, disk)
<1> DEFINE o == [NoOp EXCEPT !.at = "tidy", !.d = d, !.tx = tx, !.answer = answer]
<1>1. NoOp \in OpSet
  BY StartTypes
<1>2. o \in OpSet
  BY <1>1 DEF OpSet, Phases
<1>3. NoOp.at = "idle" /\ NoOp.tx = "none"
  BY DEF NoOp
<1>4. o.at = "tidy" /\ o.d = d /\ o.tx = tx /\ o.answer = answer
  BY DEF NoOp
<1>5. WriterOK(w, NoOp, c, garbage, file, disk)
  BY NothingOK
<1> HIDE DEF o
<1>6. WriterOK(w, o, c, garbage, file, disk)
  BY <1>4 DEF WriterOK, Outcome, Staged, Swept, Working, Checked, Firm
<1> QED BY <1>1, <1>2, <1>3, <1>4, <1>5, <1>6 DEF o

\* An operation ends.
LEMMA EndKeeps ==
  ASSUME StoreInv, NEW w \in Writers, op' = [op EXCEPT ![w] = NoOp], UNCHANGED <<Files0, rd, wrong>>
  PROVE  StoreInv'
<1>1. NoOp.d \in Datasets /\ NoOp \in OpSet /\ NoOp.at = "idle" /\ NoOp.tx = "none"
  BY StartTypes DEF OpSet, NoOp
<1>2. WriterOK(w, NoOp, cat[NoOp.d], garbage, file, disk)
  BY NothingOK
<1>3. ~ Holder(NoOp) /\ ~ Firm(NoOp)
  BY <1>1 DEF Holder, Firm, Working
<1>4. \A v \in Writers : OpenApart(NoOp, op[v]) /\ OpenApart(op[v], NoOp)
  BY <1>1, <1>3, RestApart
<1> QED BY <1>1, <1>2, <1>3, <1>4, WriterStep

\* It ends truthfully.
LEMMA AnswerKeeps ==
  ASSUME StoreInv, NEW w \in Writers, NEW answer, Answer(w, answer), op[w].tx # "open",
         ~ Untrue(answer, op[w].tx), UNCHANGED <<Files0, rd>>
  PROVE  StoreInv'
<1>1. op' = [op EXCEPT ![w] = NoOp] /\ UNCHANGED wrong
  BY DEF Answer
<1> QED BY <1>1, EndKeeps

LEMMA TidyKeeps ==
  ASSUME StoreInv, NEW w \in Writers, NEW tx \in {"none", "done"},
         NEW answer \in {"ok", "noop", "none"}, answer = "ok" <=> tx = "done",
         op' = [op EXCEPT ![w] = [NoOp EXCEPT !.at = "tidy", !.d = op[w].d, !.tx = tx, !.answer = answer]],
         UNCHANGED <<Files0, rd, wrong>>
  PROVE  StoreInv'
<1> DEFINE o == [NoOp EXCEPT !.at = "tidy", !.d = op[w].d, !.tx = tx, !.answer = answer]
<1>1. op[w].d \in Datasets
  BY WriterFacts
<1>2. o \in OpSet /\ o.at = "tidy" /\ o.d = op[w].d /\ o.tx = tx /\ WriterOK(w, o, cat[o.d], garbage, file, disk)
  <2>1. \A d \in Datasets : \A c :
          WriterOK(w, [NoOp EXCEPT !.at = "tidy", !.d = d, !.tx = tx, !.answer = answer], c, garbage, file, disk)
    BY RestOK
  <2>2. NoOp \in OpSet
    BY StartTypes
  <2>3. o \in OpSet /\ o.at = "tidy" /\ o.d = op[w].d /\ o.tx = tx
    BY <1>1, <2>2 DEF OpSet, Phases
  <2> QED BY <1>1, <2>1, <2>3
<1>3. ~ Holder(o) /\ ~ Firm(o) /\ o.tx # "open" /\ o.at \notin {"locked", "sent", "sweep"}
  BY <1>2 DEF Holder, Firm, Working
<1> HIDE DEF o
<1>4. op' = [op EXCEPT ![w] = o]
  BY DEF o
<1>5. \A v \in Writers : OpenApart(o, op[v]) /\ OpenApart(op[v], o)
  BY <1>3, RestApart
<1> QED BY <1>2, <1>3, <1>4, <1>5, WriterStep

LEMMA AskKeeps ==
  ASSUME StoreInv, NEW w \in Writers, NEW d \in Datasets, NEW s \in Scopes, NEW n \in Feeds[<<d, s>>],
         NEW bad \in BOOLEAN, Ask(w, d, s, n, bad)
  PROVE  StoreInv'
<1> DEFINE rev == cat[d].scope[s].rev
           seen == cat[d].issue[s]
           gen == IF s \in Merges THEN -1 ELSE cat[d].gen
           o == [NoOp EXCEPT !.at = "asked", !.d = d, !.s = s, !.n = n, !.bad = bad,
                             !.rev = rev, !.seen = seen, !.gen = gen]
<1>1. op' = [op EXCEPT ![w] = o] /\ UNCHANGED <<Files0, rd, wrong>>
  BY DEF Ask
<1>2. n \in 0..MaxInputs /\ n \in Feeds[<<d, s>>]
  BY StoreShape, StoreBounds DEF Inputs
<1>3. rev \in Int /\ seen \in 0..MaxInputs /\ gen \in Int
  BY DEF StoreInv, Types, CatSet, ScopeSet
<1> HIDE DEF rev, seen, gen
<1>4. NoOp \in OpSet /\ NoOp.old = {} /\ NoOp.new = {} /\ NoOp.todo = {} /\ NoOp.tx = "none"
  BY StartTypes DEF NoOp
<1>5. o \in OpSet
  BY <1>2, <1>3, <1>4 DEF OpSet, Phases
<1>6. /\ o.at = "asked" /\ o.d = d /\ o.s = s /\ o.n = n /\ o.old = {} /\ o.new = {} /\ o.todo = {}
      /\ o.tx = "none" /\ o.bad = bad
  BY <1>4 DEF OpSet
<1>a. bad => <<d, s>> \in Verdicts
  BY DEF Ask
<1> HIDE DEF o
<1>7. WriterOK(w, o, cat[o.d], garbage, file, disk) /\ ~ Holder(o) /\ ~ Firm(o)
  BY <1>2, <1>6, <1>a DEF WriterOK, Outcome, Staged, Swept, Working, Holder, Checked, Firm, Bare
<1>8. \A v \in Writers : OpenApart(o, op[v]) /\ OpenApart(op[v], o)
  BY <1>6, <1>7, RestApart
<1> QED BY <1>1, <1>5, <1>6, <1>7, <1>8, WriterStep

\* A planned update that stages nothing, or all that the scope's input makes of
\* the files it meets.  Only a report of problems is planned beside a COMMIT.
LEMMA PlannedKeeps ==
  ASSUME StoreInv, NEW w \in Writers, NEW old, NEW todo,
         op[w].at = "asked", WriterFree(op[w].d), op[w].gen \in {-1, cat[op[w].d].gen},
         op' = [op EXCEPT ![w] = [op[w] EXCEPT !.at = "planned", !.base = cat[op[w].d].gen,
                                               !.old = old, !.todo = todo]],
         UNCHANGED <<Files0, rd, wrong>>,
         \/ old = {} /\ todo = {}
         \/ /\ old = FilesOf(cat[op[w].d].refs, op[w].s)
            /\ todo \in Pieces(Merged(Joined(old), op[w].s, op[w].n)),
         Admitting \/ (op[w].bad /\ old = {} /\ todo = {})
  PROVE  StoreInv'
<1> DEFINE c == cat[op[w].d]
           g == c.gen
           o == [op[w] EXCEPT !.at = "planned", !.base = g, !.old = old, !.todo = todo]
<1>1. op[w] \in OpSet /\ c \in CatSet /\ file \in [Files -> FileSet] /\ op[w].d \in Datasets /\ op[w].s \in Scopes
  BY WriterFacts
<1>2. /\ op[w].n \in Inputs /\ op[w].n \in Feeds[<<op[w].d, op[w].s>>] /\ op[w].new = {} /\ op[w].tx = "none"
      /\ op[w].bad => <<op[w].d, op[w].s>> \in Verdicts
  <2>1. /\ op[w].n \in Feeds[<<op[w].d, op[w].s>>] /\ op[w].new = {} /\ op[w].tx = "none"
        /\ op[w].bad => <<op[w].d, op[w].s>> \in Verdicts
    BY WriterFacts DEF Staged, Outcome, Bare
  <2> QED BY <2>1, <1>1, StoreShape
<1>3. g \in Int /\ c.refs \in SUBSET Files
  BY <1>1 DEF CatSet
<1>a. ASSUME NEW p \in OpSet, p.at = "planned", p.tx = "none", p.bad = op[w].bad, p.old = old, p.todo = todo, p.new = {}
      PROVE  \A v \in Writers : OpenApart(p, op[v]) /\ OpenApart(op[v], p)
  <2>1. \A v \in Writers : OpenApart(p, op[v])
    BY <1>a, RestApart
  <2>2. CASE Admitting
    BY <2>1, <2>2, RestApart DEF Admitting
  <2>3. CASE op[w].bad /\ old = {} /\ todo = {}
    <3>1. ~ Firm(p)
      BY <1>a, <2>3 DEF Firm, Bare
    <3> QED BY <1>a, <2>1, <3>1, RestApart
  <2> QED BY <2>2, <2>3
<1>4. CASE old = {} /\ todo = {}
  <2>1. o \in OpSet
    BY <1>1, <1>3, <1>4 DEF OpSet, Phases
  <2>2. /\ o.at = "planned" /\ o.d = op[w].d /\ o.s = op[w].s /\ o.n = op[w].n /\ o.old = {}
        /\ o.new = {} /\ o.todo = {} /\ o.tx = "none" /\ o.base = g /\ o.gen = op[w].gen /\ o.bad = op[w].bad
    BY <1>1, <1>2, <1>4 DEF OpSet
  <2>3. op' = [op EXCEPT ![w] = o]
    OBVIOUS
  <2> HIDE DEF o
  <2>4. WriterOK(w, o, cat[o.d], garbage, file, disk)
    BY <1>2, <2>2 DEF WriterOK, Outcome, Staged, Swept, Working, Checked, Bare
  <2>5. \A v \in Writers : OpenApart(o, op[v]) /\ OpenApart(op[v], o)
    BY <1>4, <1>a, <2>1, <2>2
  <2> QED BY <2>1, <2>2, <2>3, <2>4, <2>5, FreeOfHolders, WriterStep
<1>5. CASE /\ old = FilesOf(c.refs, op[w].s)
           /\ todo \in Pieces(Merged(Joined(old), op[w].s, op[w].n))
  <2> DEFINE T == Merged(Join(file, old), op[w].s, op[w].n)
  <2>1. old = Met(file, c.refs, op[w].s) /\ todo \in Pieces(T)
    BY <1>5, OfTheseFiles
  <2>2. old \in SUBSET Files /\ old \subseteq c.refs
    BY <1>3, <2>1 DEF Met
  <2>3. T \in RowSet
    BY <1>1, <1>2, <2>2, JoinTypes, MergedTypes
  <2> HIDE DEF T
  <2>4. todo \in SUBSET RowSet /\ Covers(file, T, {}, todo)
    BY <2>1, <2>3, PiecesCover
  <2>5. o \in OpSet
    BY <1>1, <1>3, <2>2, <2>4 DEF OpSet, Phases
  <2>6. /\ o.at = "planned" /\ o.d = op[w].d /\ o.s = op[w].s /\ o.n = op[w].n /\ o.old = old
        /\ o.new = {} /\ o.todo = todo /\ o.tx = "none" /\ o.base = g /\ o.gen = op[w].gen /\ o.bad = op[w].bad
    BY <1>1, <1>2 DEF OpSet
  <2>7. op' = [op EXCEPT ![w] = o]
    OBVIOUS
  <2> HIDE DEF o
  <2>8. Rewrites(file, c.refs, o)
    BY <2>1, <2>4, <2>6 DEF Rewrites, T
  <2>9. WriterOK(w, o, cat[o.d], garbage, file, disk)
    BY <1>2, <2>2, <2>6, <2>8 DEF WriterOK, Outcome, Staged, Swept, Working, Checked
  <2>10. \A v \in Writers : OpenApart(o, op[v]) /\ OpenApart(op[v], o)
    BY <1>a, <2>5, <2>6
  <2> QED BY <2>5, <2>6, <2>7, <2>9, <2>10, FreeOfHolders, WriterStep
<1> QED BY <1>4, <1>5

LEMMA PlanKeeps ==
  ASSUME StoreInv, NEW w \in Writers, Plan(w) \/ PlanProblem(w)
  PROVE  StoreInv'
<1>1. op[w] \in OpSet /\ op[w].old = {} /\ op[w].todo = {}
  BY WriterFacts DEF Plan, PlanProblem, Staged, Bare
<1>a. Plan(w) => Admitting
  BY DEF Plan, FitsGarbage
<1>b. PlanProblem(w) => op[w].bad
  BY DEF PlanProblem
<1>2. op[w].at = "asked" /\ WriterFree(op[w].d) /\ op[w].gen \in {-1, cat[op[w].d].gen}
      /\ UNCHANGED <<Files0, rd, wrong>>
  BY DEF Plan, PlanProblem, Current
<1>3. CASE op' = [op EXCEPT ![w].at = "planned", ![w].base = cat[op[w].d].gen]
  <2> DEFINE g == cat[op[w].d].gen
  <2>1. op \in [Writers -> OpSet]
    BY DEF StoreInv, Types
  <2> HIDE DEF g
  <2>2. [op[w] EXCEPT !.at = "planned", !.base = g]
          = [op[w] EXCEPT !.at = "planned", !.base = g, !.old = {}, !.todo = {}]
    BY <1>1 DEF OpSet
  <2>3. op' = [op EXCEPT ![w] = [op[w] EXCEPT !.at = "planned", !.base = g]]
    BY <1>3, <2>1 DEF g
  <2>4. op' = [op EXCEPT ![w] = [op[w] EXCEPT !.at = "planned", !.base = g, !.old = {}, !.todo = {}]]
    BY <2>2, <2>3
  <2> QED BY <1>2, <1>a, <1>b, <2>4, PlannedKeeps DEF g
<1>4. CASE Plan(w) /\ \E pieces \in Pieces(Merged(Joined(FilesOf(cat[op[w].d].refs, op[w].s)), op[w].s, op[w].n)) :
             op' = [op EXCEPT ![w].at = "planned", ![w].base = cat[op[w].d].gen,
                              ![w].old = FilesOf(cat[op[w].d].refs, op[w].s), ![w].todo = pieces]
  <2> DEFINE old == FilesOf(cat[op[w].d].refs, op[w].s)
             g == cat[op[w].d].gen
  <2>1. PICK pieces \in Pieces(Merged(Joined(old), op[w].s, op[w].n)) :
             op' = [op EXCEPT ![w].at = "planned", ![w].base = g, ![w].old = old, ![w].todo = pieces]
    BY <1>4
  <2>2. op \in [Writers -> OpSet]
    BY DEF StoreInv, Types
  <2> HIDE DEF old, g
  <2>3. op' = [op EXCEPT ![w] = [op[w] EXCEPT !.at = "planned", !.base = g, !.old = old, !.todo = pieces]]
    BY <2>1, <2>2
  <2>4. Admitting
    BY <1>4, <1>a
  <2> QED BY <1>2, <2>1, <2>3, <2>4, PlannedKeeps DEF old, g
<1> QED BY <1>3, <1>4 DEF Plan, PlanProblem

LEMMA ReplayKeeps ==
  ASSUME StoreInv, NEW w \in Writers, Replay(w)
  PROVE  StoreInv'
<1> DEFINE o == [NoOp EXCEPT !.at = "tidy", !.d = op[w].d, !.tx = "none", !.answer = "noop"]
<1>1. o = [NoOp EXCEPT !.at = "tidy", !.d = op[w].d, !.answer = "noop"]
  <2>1. NoOp \in OpSet /\ NoOp.tx = "none"
    BY StartTypes DEF NoOp
  <2> QED BY <2>1 DEF OpSet
<1>2. op' = [op EXCEPT ![w] = o] /\ UNCHANGED <<Files0, rd, wrong>>
  BY <1>1 DEF Replay
<1> QED BY <1>2, TidyKeeps

LEMMA LockCommitKeeps ==
  ASSUME StoreInv, NEW w \in Writers, LockCommit(w)
  PROVE  StoreInv'
<1> DEFINE i == CHOOSE i \in 1..2 : <<w, i>> # cat[op[w].d].last
           o == [op[w] EXCEPT !.at = "locked", !.id = i]
<1>1. op[w].at = "planned" /\ op[w].todo = {} /\ Readable(op[w].d) /\ UNCHANGED <<Files0, rd, wrong>>
  BY DEF LockCommit
<1>2. op[w] \in OpSet /\ op \in [Writers -> OpSet]
  BY WriterFacts DEF StoreInv, Types
<1>3. i \in 1..2 /\ <<w, i>> # cat[op[w].d].last
  <2>1. \E j \in 1..2 : <<w, j>> # cat[op[w].d].last
    <3>1. <<w, 1>> # <<w, 2>>
      OBVIOUS
    <3> QED BY <3>1
  <2> QED BY <2>1
<1>a. op' = [op EXCEPT ![w].at = "locked", ![w].id = i]
  BY DEF LockCommit
<1> HIDE DEF i
<1>4. op' = [op EXCEPT ![w] = o]
  BY <1>2, <1>a
<1>5. o \in OpSet
  <2>1. "locked" \in Phases /\ i \in 0..2
    BY <1>3 DEF Phases
  <2> QED BY <1>2, <2>1 DEF OpSet
<1>6. /\ o.at = "locked" /\ o.id = i /\ o.d = op[w].d /\ o.s = op[w].s /\ o.n = op[w].n /\ o.old = op[w].old
      /\ o.new = op[w].new /\ o.todo = {} /\ o.tx = op[w].tx /\ o.base = op[w].base /\ o.gen = op[w].gen
      /\ o.bad = op[w].bad /\ o.rev = op[w].rev
  BY <1>1, <1>2 DEF OpSet
<1> HIDE DEF o
<1>7. Outcome(w, op[w], cat[op[w].d].last) /\ Staged(op[w], cat[op[w].d], garbage, file, disk)
  BY WriterFacts
<1>b. 0 <= op[w].rev /\ op[w].rev <= cat[op[w].d].gen /\ op[w].rev = cat[op[w].d].scope[op[w].s].rev
  <2>1. op[w].d \in Datasets /\ op[w].s \in Scopes /\ cat[op[w].d] \in CatSet
    BY WriterFacts
  <2>2. op[w].rev = cat[op[w].d].scope[op[w].s].rev
    BY DEF LockCommit
  <2> QED BY <2>1, <2>2 DEF StoreInv, Types, CatSet, ScopeSet
<1>c. op[w].tx = "none" /\ Working(op[w]) /\ Working(o) /\ (Bare(o) <=> Bare(op[w]))
  BY <1>1, <1>6, <1>7 DEF Outcome, Working, Bare
<1>d. Firm(o) <=> Firm(op[w])
  BY <1>6, <1>c DEF Firm
<1>e. Rewrites(file, cat[op[w].d].refs, op[w]) => Rewrites(file, cat[op[w].d].refs, o)
  BY <1>1, <1>6 DEF Rewrites
<1>f. Staged(o, cat[o.d], garbage, file, disk)
  BY <1>1, <1>6, <1>7, <1>b, <1>c, <1>d, <1>e DEF Staged
<1>8. WriterOK(w, o, cat[o.d], garbage, file, disk) /\ o.tx # "open"
  BY <1>1, <1>3, <1>6, <1>c, <1>f DEF WriterOK, Outcome, Swept
<1>9. \A v \in Writers : v # w => OpenApart(o, op[v]) /\ OpenApart(op[v], o)
  BY <1>6, <1>8, <1>d DEF StoreInv, RowHeld, OpenApart
<1> QED BY <1>1, <1>4, <1>5, <1>6, <1>8, <1>9, FreeOfReaders, WriterStep DEF Holder

LEMMA CommitLostKeeps ==
  ASSUME StoreInv, NEW w \in Writers, CommitLost(w)
  PROVE  StoreInv'
<1> DEFINE o == [op[w] EXCEPT !.at = "sent", !.tx = "open"]
<1>1. op[w].at = "locked" /\ UNCHANGED <<Files0, rd, wrong>> /\ MayCommit(w)
  BY DEF CommitLost, MayCommit
<1>2. op[w] \in OpSet /\ op \in [Writers -> OpSet]
  BY WriterFacts DEF StoreInv, Types
<1>3. op' = [op EXCEPT ![w] = o]
  BY <1>2 DEF CommitLost
<1>4. o \in OpSet
  BY <1>2 DEF OpSet, Phases
<1>5. /\ o.at = "sent" /\ o.id = op[w].id /\ o.d = op[w].d /\ o.s = op[w].s /\ o.n = op[w].n /\ o.old = op[w].old
      /\ o.new = op[w].new /\ o.todo = op[w].todo /\ o.tx = "open" /\ o.base = op[w].base /\ o.gen = op[w].gen
      /\ o.rev = op[w].rev /\ o.bad = op[w].bad
  BY <1>2 DEF OpSet
<1> HIDE DEF o
<1>6. Outcome(w, op[w], cat[op[w].d].last) /\ Staged(op[w], cat[op[w].d], garbage, file, disk)
  BY WriterFacts
<1>a. Working(op[w]) /\ Working(o) /\ Checked(op[w]) /\ (Bare(o) <=> Bare(op[w]))
  BY <1>1, <1>5 DEF Working, Checked, Bare
<1>b. Firm(o) <=> Firm(op[w])
  BY <1>5, <1>a DEF Firm
<1>c. Rewrites(file, cat[op[w].d].refs, op[w]) => Rewrites(file, cat[op[w].d].refs, o)
  BY <1>5 DEF Rewrites
<1>d. Staged(o, cat[o.d], garbage, file, disk)
  BY <1>1, <1>5, <1>6, <1>a, <1>b, <1>c DEF Staged, MayCommit
<1>7. WriterOK(w, o, cat[o.d], garbage, file, disk)
  BY <1>1, <1>5, <1>6, <1>d DEF WriterOK, Outcome, Swept, Checked
<1>8. \A r \in Readers : o.d \notin rd[r].held
  BY <1>1, <1>5 DEF StoreInv, LocksHeld, Committing
<1>9. /\ \A v \in Writers : v # w => op[v].tx # "open"
      /\ Cardinality(Listed) + Cardinality(o.old) <= MaxGarbage
  BY <1>1, <1>5 DEF MayCommit, FitsGarbage, Admitting
<1>10. ASSUME NEW v \in Writers, v # w PROVE OpenApart(o, op[v]) /\ OpenApart(op[v], o)
  <2>1. op[v].tx # "open"
    BY <1>9, <1>10
  <2>2. Firm(op[v]) \/ op[v].at \in {"sent", "sweep"} => op[v].d # op[w].d
    BY <1>1, <1>10, <2>1 DEF StoreInv, LocksHeld, Holder, Firm, Working
  <2>3. ASSUME op[v].at = "sweep" PROVE op[v].old \cap op[w].new = {}
    <3>1. \A f \in op[v].old : file[f].d = op[v].d
      BY <2>3, WriterFacts DEF Swept
    <3>2. \A f \in op[w].new : file[f].d = op[w].d
      BY <1>6, <1>a DEF Staged
    <3> QED BY <2>2, <2>3, <3>1, <3>2
  <2> QED BY <1>5, <2>1, <2>2, <2>3 DEF OpenApart
<1> QED BY <1>1, <1>3, <1>4, <1>5, <1>7, <1>8, <1>9, <1>10, WriterStep DEF Holder

\* A writer that leaves its open transaction, without a word of success.
LEMMA LeftOpenKeeps ==
  ASSUME StoreInv, LateCommits, NEW w \in Writers, op[w].at # "idle", op[w].tx = "open",
         NEW answer \in {"none", "error", "unknown"}, Answer(w, answer), UNCHANGED <<Files0, rd>>
  PROVE  StoreInv'
<1> DEFINE o == [op[w] EXCEPT !.at = "idle", !.answer = answer]
<1>1. op[w].at = "sent" /\ \A v \in Writers : v # w => op[v].tx # "open"
  BY OpenIs
<1>2. op[w] \in OpSet /\ op \in [Writers -> OpSet]
  BY WriterFacts DEF StoreInv, Types
<1>3. op' = [op EXCEPT ![w] = o] /\ UNCHANGED wrong
  BY <1>2 DEF Answer, Untrue
<1>4. o \in OpSet
  BY <1>2 DEF OpSet, Phases
<1>5. /\ o.at = "idle" /\ o.id = op[w].id /\ o.d = op[w].d /\ o.s = op[w].s /\ o.n = op[w].n /\ o.old = op[w].old
      /\ o.new = op[w].new /\ o.todo = op[w].todo /\ o.tx = "open" /\ o.base = op[w].base /\ o.gen = op[w].gen
      /\ o.rev = op[w].rev /\ o.bad = op[w].bad
  BY <1>2 DEF OpSet
<1> HIDE DEF o
<1>6. Outcome(w, op[w], cat[op[w].d].last) /\ Staged(op[w], cat[op[w].d], garbage, file, disk)
  BY WriterFacts
<1>7. Working(op[w]) /\ Working(o) /\ Checked(op[w]) /\ Checked(o) /\ (Bare(o) <=> Bare(op[w])) /\ ~ Holder(o)
  BY <1>1, <1>5 DEF Working, Checked, Bare, Holder
<1>8. Firm(o) <=> Firm(op[w])
  BY <1>5, <1>7 DEF Firm
<1>9. Rewrites(file, cat[op[w].d].refs, op[w]) => Rewrites(file, cat[op[w].d].refs, o)
  BY <1>5 DEF Rewrites
<1>10. Staged(o, cat[o.d], garbage, file, disk)
  BY <1>1, <1>5, <1>6, <1>7, <1>8, <1>9 DEF Staged
<1>11. WriterOK(w, o, cat[o.d], garbage, file, disk)
  BY <1>1, <1>5, <1>6, <1>10 DEF WriterOK, Outcome, Swept, Checked
<1>12. Cardinality(Listed) + Cardinality(o.old) <= MaxGarbage
  BY <1>5 DEF StoreInv, Room
<1>13. \A v \in Writers : v # w => OpenApart(o, op[v]) /\ OpenApart(op[v], o)
  BY <1>1, <1>5 DEF StoreInv, RowHeld, OpenApart
<1> QED BY <1>1, <1>3, <1>4, <1>5, <1>7, <1>11, <1>12, <1>13, WriterStep

\* The transaction comes to nothing while its writer waits ...
LEMMA DropSent ==
  ASSUME StoreInv, NEW w \in Writers, Drop(w), op[w].at = "sent"
  PROVE  StoreInv'
<1> DEFINE o == [op[w] EXCEPT !.tx = "gone"]
<1>1. op[w].tx = "open" /\ UNCHANGED <<Files0, rd, wrong>> /\ \A v \in Writers : v # w => op[v].tx # "open"
  BY OpenIs DEF Drop
<1>2. op[w] \in OpSet /\ op \in [Writers -> OpSet]
  BY WriterFacts DEF StoreInv, Types
<1>3. op' = [op EXCEPT ![w] = o]
  BY <1>1, <1>2 DEF Drop
<1>4. o \in OpSet
  BY <1>2 DEF OpSet
<1>5. /\ o.at = "sent" /\ o.id = op[w].id /\ o.d = op[w].d /\ o.s = op[w].s /\ o.n = op[w].n /\ o.old = op[w].old
      /\ o.new = op[w].new /\ o.todo = op[w].todo /\ o.tx = "gone" /\ o.base = op[w].base /\ o.gen = op[w].gen
      /\ o.rev = op[w].rev /\ o.bad = op[w].bad
  BY <1>1, <1>2 DEF OpSet
<1> HIDE DEF o
<1>6. Outcome(w, op[w], cat[op[w].d].last) /\ Staged(op[w], cat[op[w].d], garbage, file, disk)
  BY WriterFacts
<1>7. Working(op[w]) /\ Working(o) /\ Checked(op[w]) /\ (Bare(o) <=> Bare(op[w]))
  BY <1>1, <1>5 DEF Working, Checked, Bare
<1>8. Firm(o) <=> Firm(op[w])
  BY <1>5, <1>7 DEF Firm
<1>9. Rewrites(file, cat[op[w].d].refs, op[w]) => Rewrites(file, cat[op[w].d].refs, o)
  BY <1>5 DEF Rewrites
<1>10. Staged(o, cat[o.d], garbage, file, disk)
  BY <1>1, <1>5, <1>6, <1>7, <1>8, <1>9 DEF Staged
<1>11. WriterOK(w, o, cat[o.d], garbage, file, disk)
  BY <1>1, <1>5, <1>6, <1>10 DEF WriterOK, Outcome, Swept, Checked
<1>12. \A r \in Readers : o.d \notin rd[r].held
  BY <1>5 DEF StoreInv, LocksHeld, Committing
<1>13. \A v \in Writers : v # w => OpenApart(o, op[v]) /\ OpenApart(op[v], o)
  BY <1>1, <1>5, RestApart
<1> QED BY <1>1, <1>3, <1>4, <1>5, <1>11, <1>12, <1>13, WriterStep DEF Holder

\* ... or after it has left.
LEMMA DropKeeps ==
  ASSUME StoreInv, NEW w \in Writers, Drop(w)
  PROVE  StoreInv'
<1>1. op[w].at = "sent" \/ op[w].at = "idle"
  BY OpenIs DEF Drop
<1>2. CASE op[w].at = "idle"
  BY <1>2, EndKeeps DEF Drop
<1> QED BY <1>1, <1>2, DropSent

\* The catalog tells a writer the truth as it is when it is asked.
LEMMA ConfirmKeeps ==
  ASSUME StoreInv, NEW w \in Writers, Confirm(w)
  PROVE  StoreInv'
<1>1. op[w].at = "sent" /\ (op[w].tx = "open" => LateCommits) /\ UNCHANGED <<Files0, rd>>
  BY DEF Confirm
<1>2. op[w].tx \in {"open", "done", "gone"} /\ (op[w].tx = "done" <=> cat[op[w].d].last = <<w, op[w].id>>)
  BY <1>1, WriterFacts DEF Outcome, OpSet
<1>3. CASE /\ cat[op[w].d].last = <<w, op[w].id>>
           /\ op' = [op EXCEPT ![w] = [NoOp EXCEPT !.at = "tidy", !.d = op[w].d, !.tx = op[w].tx,
                                                   !.answer = "ok"]]
           /\ UNCHANGED wrong
  BY <1>1, <1>2, <1>3, TidyKeeps
<1>4. CASE cat[op[w].d].last # <<w, op[w].id>> /\ Answer(w, "error")
  <2>1. ~ Untrue("error", op[w].tx)
    BY <1>2, <1>4 DEF Untrue
  <2> QED BY <1>1, <1>4, <2>1, AnswerKeeps, LeftOpenKeeps
<1>5. CASE Answer(w, "unknown")
  <2>1. ~ Untrue("unknown", op[w].tx)
    BY DEF Untrue
  <2> QED BY <1>1, <1>5, <2>1, AnswerKeeps, LeftOpenKeeps
<1> QED BY <1>3, <1>4, <1>5 DEF Confirm

\* What a writer tells at the end of its cleanup is what it knew before.
LEMMA CleanupAnswers ==
  ASSUME StoreInv, NEW w \in Writers, op[w].at \in {"tidy", "sweep"}
  PROVE  op[w].tx # "open" /\ ~ Untrue(op[w].answer, op[w].tx)
BY WriterFacts DEF Outcome, Untrue

LEMMA FailKeeps ==
  ASSUME StoreInv, NEW w \in Writers, Fail(w)
  PROVE  StoreInv'
<1>1. CASE op[w].at \in {"asked", "planned", "linking", "locked"} /\ Answer(w, "error")
  <2>1. op[w].tx = "none"
    BY <1>1, WriterFacts DEF Outcome
  <2>2. ~ Untrue("error", op[w].tx)
    BY <2>1 DEF Untrue
  <2> QED BY <1>1, <2>1, <2>2, AnswerKeeps DEF Fail
<1>2. CASE op[w].at \in {"tidy", "sweep"} /\ Answer(w, op[w].answer)
  BY <1>2, CleanupAnswers, AnswerKeeps DEF Fail
<1> QED BY <1>1, <1>2 DEF Fail

LEMMA CrashKeeps ==
  ASSUME StoreInv, NEW w \in Writers, Crash(w)
  PROVE  StoreInv'
<1>1. ~ Untrue("none", op[w].tx)
  BY DEF Untrue
<1>2. op[w].at # "idle" /\ (op[w].tx = "open" => LateCommits) /\ Answer(w, "none") /\ UNCHANGED <<Files0, rd>>
  BY DEF Crash
<1> QED BY <1>1, <1>2, AnswerKeeps, LeftOpenKeeps

LEMMA SweepKeeps ==
  ASSUME StoreInv, NEW w \in Writers, NEW d \in Datasets, Sweep(w, d)
  PROVE  StoreInv'
<1> DEFINE due == {f \in Listed : file[f].d = d} \ Graced
           tx == op[w].tx
           answer == op[w].answer
           o == [NoOp EXCEPT !.at = "sweep", !.d = d, !.old = due, !.tx = tx, !.answer = answer]
<1>1. op' = [op EXCEPT ![w] = o] /\ UNCHANGED <<Files0, rd, wrong>> /\ WriterFree(d) /\ Readable(d)
  BY DEF Sweep
<1>2. op[w] \in OpSet /\ due \in SUBSET Files
  BY WriterFacts DEF Listed
<1>3. tx \in {"none", "done", "gone", "open"} /\ answer \in {"none", "ok", "noop", "error", "unknown"}
  BY <1>2 DEF OpSet
<1>4. \/ answer = "ok" /\ tx = "done"
      \/ answer \in {"noop", "none"} /\ tx = "none"
  <2>1. CASE op[w].at = "tidy"
    BY <2>1, WriterFacts DEF Outcome
  <2>2. CASE op[w].at = "idle" /\ op[w].tx # "open"
    <3>1. op[w] = NoOp
      BY <2>2, WriterFacts DEF Outcome
    <3> QED BY <3>1 DEF NoOp
  <2> QED BY <2>1, <2>2 DEF Sweep
<1>5. \A f \in due : garbage[f] # "none" /\ file[f].d = d
  BY DEF Listed
<1>a. \A v \in Writers : op[v].tx = "open" => due \cap op[v].new = {}
  BY DEF Graced
<1> HIDE DEF due, tx, answer
<1>6. NoOp \in OpSet /\ NoOp.cur = 0
  BY StartTypes DEF NoOp
<1>7. o \in OpSet
  <2>1. "sweep" \in Phases
    BY DEF Phases
  <2>2. due \in SUBSET Files /\ NoOp \in OpSet
    BY <1>2, <1>6
  <2> QED BY ONLY <1>3, <2>1, <2>2, d \in Datasets DEF OpSet
<1>8. o.at = "sweep" /\ o.d = d /\ o.old = due /\ o.tx = tx /\ o.answer = answer /\ o.cur = 0
  BY <1>6 DEF OpSet
<1> HIDE DEF o
<1>9. WriterOK(w, o, cat[o.d], garbage, file, disk) /\ o.tx # "open"
  BY <1>4, <1>5, <1>8 DEF WriterOK, Outcome, Staged, Swept, Working, Checked, Firm
<1>10. \A v \in Writers : OpenApart(o, op[v]) /\ OpenApart(op[v], o)
  BY <1>8, <1>9, <1>a DEF OpenApart, Firm, Working
<1> QED BY <1>1, <1>7, <1>8, <1>9, <1>10, FreeOfHolders, FreeOfReaders, WriterStep

\* An entry that is passed over.
LEMMA SweepSkipKeeps ==
  ASSUME StoreInv, NEW w \in Writers, NEW f \in Files, op[w].at = "sweep", op[w].cur = 0,
         op' = [op EXCEPT ![w].old = @ \ {f}], UNCHANGED <<Files0, rd, wrong>>
  PROVE  StoreInv'
<1> DEFINE o == [op[w] EXCEPT !.old = @ \ {f}]
<1>1. op[w] \in OpSet /\ op \in [Writers -> OpSet]
  BY WriterFacts DEF StoreInv, Types
<1>2. op' = [op EXCEPT ![w] = o]
  BY <1>1
<1>3. o \in OpSet
  BY <1>1 DEF OpSet
<1>4. /\ o.at = "sweep" /\ o.d = op[w].d /\ o.old = op[w].old \ {f} /\ o.tx = op[w].tx
      /\ o.answer = op[w].answer /\ o.cur = 0
  BY <1>1 DEF OpSet
<1> HIDE DEF o
<1>5. Outcome(w, op[w], cat[op[w].d].last) /\ Swept(op[w], garbage, file, disk)
  BY WriterFacts
<1>6. WriterOK(w, o, cat[o.d], garbage, file, disk) /\ o.tx # "open"
  BY <1>4, <1>5 DEF WriterOK, Outcome, Staged, Swept, Working, Checked, Firm
<1>7. \A r \in Readers : o.d \notin rd[r].held
  BY <1>4 DEF StoreInv, LocksHeld, Committing
<1>8. \A v \in Writers : v # w => OpenApart(o, op[v]) /\ OpenApart(op[v], o)
  BY <1>4, <1>6 DEF StoreInv, RowHeld, OpenApart, Firm, Working
<1> QED BY <1>2, <1>3, <1>4, <1>6, <1>7, <1>8, WriterStep DEF Holder

LEMMA SweepEndKeeps ==
  ASSUME StoreInv, NEW w \in Writers, SweepEnd(w)
  PROVE  StoreInv'
BY CleanupAnswers, AnswerKeeps DEF SweepEnd
-----------------------------------------------------------------------------
(* Steps that change files or the catalog.                                 *)

\* A writer counts on files of its own dataset, that exist or are listed.
LEMMA KnownFiles ==
  ASSUME StoreInv, NEW w \in Writers, NEW f \in Known(op[w], cat[op[w].d])
  PROVE  f \in Files /\ file[f].d = op[w].d /\ (f \in disk \/ garbage[f] # "none")
<1>1. f \in Files /\ op[w].d \in Datasets
  BY WriterFacts DEF Known
<1>2. CASE Firm(op[w]) /\ f \in cat[op[w].d].refs
  BY <1>1, <1>2 DEF StoreInv, Store
<1>3. CASE Firm(op[w]) /\ f \in op[w].new
  BY <1>1, <1>3, WriterFacts DEF Staged, Firm
<1>4. CASE op[w].at = "linking" /\ f = op[w].cur
  BY <1>1, <1>4, WriterFacts DEF Staged
<1>5. CASE op[w].at = "sweep" /\ f \in op[w].old
  BY <1>1, <1>5, WriterFacts DEF Swept
<1> QED BY <1>2, <1>3, <1>4, <1>5 DEF Known

\* A writer that has a file to link has staged something.
LEMMA LinkingFirm ==
  ASSUME StoreInv, NEW w \in Writers, op[w].at = "linking"
  PROVE  Firm(op[w])
<1>1. Working(op[w]) /\ op[w].todo # {}
  BY WriterFacts DEF Staged, Working
<1> QED BY <1>1 DEF Firm, Bare

\* Nobody counts on what a COMMIT under way may change.
LEMMA OpenKnown ==
  ASSUME StoreInv, NEW v \in Writers, NEW w \in Writers, v # w, op[v].tx = "open",
         NEW f \in Known(op[v], cat[op[v].d]), f \in Known(op[w], cat[op[w].d])
  PROVE  FALSE
<1>1. op[v].d = op[w].d
  <2>1. file[f].d = op[v].d
    BY KnownFiles
  <2>2. file[f].d = op[w].d
    BY KnownFiles
  <2> QED BY <2>1, <2>2
<1>2. OpenApart(op[v], op[w])
  BY DEF StoreInv, RowHeld
<1>3. ~ Firm(op[w]) /\ op[w].at # "linking"
  BY <1>1, <1>2, LinkingFirm DEF OpenApart
<1>4. op[w].at = "sweep" /\ f \in op[w].old /\ f \in Files
  BY <1>3 DEF Known
<1>5. op[v].at \in {"sent", "idle"} /\ f \in cat[op[v].d].refs \cup op[v].new
  BY OpenIs DEF Known
<1>6. f \notin op[v].new
  BY <1>2, <1>4 DEF OpenApart
<1>7. garbage[f] # "none"
  BY <1>4, WriterFacts DEF Swept
<1>8. op[v].d \in Datasets
  BY WriterFacts
<1> QED BY <1>4, <1>5, <1>6, <1>7, <1>8 DEF StoreInv, Store

\* Nobody counts on what another writer counts on, nor on an unused path.
LEMMA KnownApart ==
  ASSUME StoreInv, NEW v \in Writers, NEW f \in Known(op[v], cat[op[v].d])
  PROVE  /\ f \notin Unused
         /\ \A w \in Writers : w # v => f \notin Known(op[w], cat[op[w].d])
<1>1. \A u \in Writers : op[u].tx # "open" /\ f \in Known(op[u], cat[op[u].d]) => Holder(op[u])
  BY DEF Known, Firm, Working, Holder
<1>2. f \notin Unused
  BY KnownFiles DEF Unused
<1>3. ASSUME NEW w \in Writers, w # v, f \in Known(op[w], cat[op[w].d]) PROVE FALSE
  <2>1. CASE op[v].tx = "open" \/ op[w].tx = "open"
    BY <1>3, <2>1, OpenKnown
  <2>2. CASE op[v].tx # "open" /\ op[w].tx # "open"
    <3>1. op[v].d # op[w].d
      BY <1>1, <1>3, <2>2 DEF StoreInv, LocksHeld
    <3>2. file[f].d = op[v].d
      BY KnownFiles
    <3>3. file[f].d = op[w].d
      BY <1>3, KnownFiles
    <3> QED BY <3>1, <3>2, <3>3
  <2> QED BY <2>1, <2>2
<1> QED BY <1>2, <1>3

\* The listed files are finitely many.
LEMMA ListedFinite ==
  ASSUME NEW S, S \subseteq Files
  PROVE  IsFiniteSet(S) /\ Cardinality(S) \in Nat
<1>1. IsFiniteSet(Files)
  BY FS_Interval, StoreBounds DEF Files
<1>2. IsFiniteSet(S)
  BY <1>1, FS_Subset
<1> QED BY <1>2, FS_CardinalityType

\* A set that gains no more than another is no larger than both.
LEMMA AtMostBoth ==
  ASSUME NEW S \in SUBSET Files, NEW T \in SUBSET Files, NEW U, U \subseteq S \cup T
  PROVE  /\ Cardinality(U) \in Nat /\ Cardinality(S) \in Nat /\ Cardinality(T) \in Nat
         /\ Cardinality(U) <= Cardinality(S) + Cardinality(T)
<1>1. IsFiniteSet(S) /\ IsFiniteSet(T) /\ IsFiniteSet(S \cup T) /\ IsFiniteSet(S \cap T)
  BY ListedFinite
<1>2. Cardinality(S \cup T) = Cardinality(S) + Cardinality(T) - Cardinality(S \cap T)
  BY <1>1, FS_Union
<1>3. Cardinality(U) <= Cardinality(S \cup T)
  BY <1>1, FS_Subset
<1>4. /\ Cardinality(S) \in Nat /\ Cardinality(T) \in Nat /\ Cardinality(U) \in Nat
      /\ Cardinality(S \cap T) \in Nat /\ Cardinality(S \cup T) \in Nat
  BY <1>1, ListedFinite
<1> QED BY <1>2, <1>3, <1>4

\* Readers go on, when the datasets they hold keep their catalog and current
\* files are not written again.
LEMMA ReadersKeep ==
  ASSUME StoreInv, cat' \in [Datasets -> CatSet], UNCHANGED rd,
         ~ LateCommits =>
           \A d \in Datasets : \/ cat'[d] = cat[d]
                               \/ cat'[d].gen > cat[d].gen /\ \A r \in Readers : d \notin rd[r].held,
         \A d \in Datasets : \A f \in cat[d].refs : file'[f] = file[f]
  PROVE  Reads0'
<1> SUFFICES ASSUME NEW r \in Readers PROVE Seen(r, rd[r], cat', file')
  BY DEF Reads0
<1>1. rd[r] \in ReadSet /\ Seen(r, rd[r], cat, file) /\ rd[r].held \subseteq rd[r].want /\ cat \in [Datasets -> CatSet]
  BY DEF StoreInv, Types, Reads0
<1>2. \A d \in Datasets : Apart(file, cat[d].refs)
  BY DEF StoreInv, Store
<1> QED BY <1>1, <1>2, ReaderKeeps

\* A writer goes on, when its dataset keeps its catalog or it counts on nothing
\* of it, and the files it counts on stay as they are.
LEMMA OtherKeeps ==
  ASSUME StoreInv, NEW v \in Writers, cat'[op[v].d] \in CatSet,
         GoesOn(v, op[v], cat[op[v].d], cat'[op[v].d]),
         \A f \in Known(op[v], cat[op[v].d]) :
           garbage'[f] = garbage[f] /\ file'[f] = file[f] /\ (f \in disk' <=> f \in disk)
  PROVE  WriterOK(v, op[v], cat'[op[v].d], garbage', file', disk')
<1> DEFINE o == op[v]
           c == cat[op[v].d]
           e == cat'[op[v].d]
<1>1. o \in OpSet /\ c \in CatSet /\ e \in CatSet /\ WriterOK(v, o, c, garbage, file, disk) /\ Apart(file, c.refs)
  BY WriterFacts DEF StoreInv, Updates, Store
<1>2. GoesOn(v, o, c, e)
  OBVIOUS
<1>3. \A f \in Known(o, c) : garbage'[f] = garbage[f] /\ file'[f] = file[f] /\ (f \in disk' <=> f \in disk)
  OBVIOUS
<1> HIDE DEF o, c, e
<1>4. WriterOK(v, o, e, garbage', file', disk')
  BY <1>1, <1>2, <1>3, WriterKeeps
<1> QED BY <1>4 DEF o, e

\* In particular when the catalog stays.
LEMMA OtherStays ==
  ASSUME StoreInv, NEW v \in Writers, UNCHANGED cat,
         \A f \in Known(op[v], cat[op[v].d]) :
           garbage'[f] = garbage[f] /\ file'[f] = file[f] /\ (f \in disk' <=> f \in disk)
  PROVE  WriterOK(v, op[v], cat'[op[v].d], garbage', file', disk')
<1>1. cat'[op[v].d] = cat[op[v].d] /\ cat'[op[v].d] \in CatSet
  BY WriterFacts
<1>2. GoesOn(v, op[v], cat[op[v].d], cat'[op[v].d])
  BY <1>1 DEF GoesOn
<1> QED BY <1>1, <1>2, OtherKeeps

LEMMA PrepareKeeps ==
  ASSUME StoreInv, NEW w \in Writers, Prepare(w)
  PROVE  StoreInv'
<1> DEFINE f == Lowest(Unused)
           rows == CHOOSE rows \in op[w].todo : TRUE
           o == [op[w] EXCEPT !.at = "linking", !.cur = f]
<1>1. /\ op[w].at = "planned" /\ op[w].todo # {} /\ Unused # {} /\ FitsGarbage(1)
      /\ garbage' = [garbage EXCEPT ![f] = "prepared"]
      /\ file' = [file EXCEPT ![f] = [d |-> op[w].d, rows |-> rows]]
      /\ op' = [op EXCEPT ![w].at = "linking", ![w].cur = f]
      /\ UNCHANGED <<cat, disk, rd, wrong>>
  BY DEF Prepare
<1>2. f \in Unused /\ f \in Files
  <2>1. Unused \subseteq Files /\ Files \subseteq Nat
    BY StoreBounds DEF Unused, Files
  <2> QED BY <1>1, <2>1, LowestIs
<1>3. rows \in op[w].todo
  BY <1>1
<1>4. /\ op[w] \in OpSet /\ op[w].d \in Datasets /\ Outcome(w, op[w], cat[op[w].d].last)
      /\ op \in [Writers -> OpSet] /\ file \in [Files -> FileSet]
      /\ garbage \in [Files -> {"none", "prepared", "retired"}] /\ disk \in SUBSET Files
  BY WriterFacts DEF StoreInv, Types
<1>5. rows \in RowSet
  BY <1>3, <1>4 DEF OpSet
<1>6. f \notin disk /\ garbage[f] = "none" /\ \A d \in Datasets : f \notin cat[d].refs
  BY <1>2 DEF Unused
<1> HIDE DEF f, rows
<1>7. op' = [op EXCEPT ![w] = o]
  BY <1>1, <1>4
<1>8. o \in OpSet
  BY <1>2, <1>4 DEF OpSet, Phases
<1>9. /\ o.at = "linking" /\ o.cur = f /\ o.d = op[w].d /\ o.s = op[w].s /\ o.n = op[w].n /\ o.old = op[w].old
      /\ o.new = op[w].new /\ o.todo = op[w].todo /\ o.tx = op[w].tx /\ o.base = op[w].base /\ o.gen = op[w].gen
      /\ o.bad = op[w].bad
  BY <1>4 DEF OpSet
<1> HIDE DEF o
<1>10. op' \in [Writers -> OpSet] /\ op'[w] = o /\ \A v \in Writers : v # w => op'[v] = op[v]
  BY <1>4, <1>7, <1>8
<1>11. /\ \A g \in Files : g # f => garbage'[g] = garbage[g] /\ file'[g] = file[g]
       /\ garbage'[f] = "prepared" /\ file'[f].d = op[w].d /\ file'[f].rows = rows
  BY <1>1, <1>2, <1>4
<1>12. Types'
  <2>1. file' \in [Files -> FileSet]
    BY <1>1, <1>4, <1>5 DEF FileSet
  <2>2. garbage' \in [Files -> {"none", "prepared", "retired"}]
    BY <1>1, <1>4
  <2> QED BY <1>1, <1>10, <2>1, <2>2 DEF StoreInv, Types
<1>13. LocksHeld'
  BY <1>1, <1>9, <1>10 DEF StoreInv, LocksHeld, Committing, Holder
<1>14. ASSUME NEW v \in Writers
       PROVE  WriterOK(v, op[v], cat'[op[v].d], garbage', file', disk')
  <2>1. \A g \in Known(op[v], cat[op[v].d]) : g # f /\ g \in Files
    BY <1>2, KnownApart DEF Known
  <2> QED BY <1>1, <1>11, <2>1, OtherStays
<1>15. Updates'
  <2>1. WriterOK(w, o, cat'[o.d], garbage', file', disk')
    <3>1. WriterOK(w, op[w], cat'[op[w].d], garbage', file', disk')
      BY <1>14
    <3>2. Working(op[w]) /\ Working(o) /\ op[w].tx # "open" /\ (Bare(o) <=> Bare(op[w]))
          /\ (Firm(o) <=> Firm(op[w])) /\ ~ Checked(o)
      BY <1>1, <1>4, <1>9 DEF Working, Outcome, Bare, Firm, Checked
    <3>3. ASSUME NEW c, NEW F, Rewrites(F, c.refs, op[w]) PROVE Rewrites(F, c.refs, o)
      BY <1>9, <3>3 DEF Rewrites
    <3>4. file'[f].rows \in o.todo /\ o.cur = f /\ o.cur \in Files /\ garbage'[o.cur] = "prepared"
          /\ file'[o.cur].d = o.d /\ o.cur \notin disk'
      BY <1>1, <1>2, <1>3, <1>6, <1>9, <1>11
    <3>5. Staged(op[w], cat'[op[w].d], garbage', file', disk')
      BY <3>1 DEF WriterOK
    <3>6. Staged(o, cat'[o.d], garbage', file', disk')
      BY <1>1, <1>9, <3>2, <3>3, <3>4, <3>5 DEF Staged
    <3>7. Outcome(w, o, cat'[o.d].last) /\ Swept(o, garbage', file', disk')
      BY <1>1, <1>4, <1>9, <3>2 DEF Outcome, Swept
    <3> QED BY <3>6, <3>7 DEF WriterOK
  <2> QED BY <1>10, <1>14, <2>1 DEF Updates
<1>a. \A v \in Writers : op[v].tx # "open" /\ op'[v].tx # "open"
  BY <1>1, <1>9, <1>10 DEF FitsGarbage, Admitting
<1>b. RowHeld'
  BY <1>a DEF RowHeld, OpenApart
<1>16. Store'
  <2>1. \A d \in Datasets, g \in Files : g \in cat[d].refs => g # f
    BY <1>6
  <2>2. \A d \in Datasets : cat[d].refs \in SUBSET Files
    BY DEF StoreInv, Types, CatSet
  <2>3. \A d \in Datasets : Apart(file', cat'[d].refs)
    BY <1>1, <1>11, <2>1, <2>2 DEF StoreInv, Store, Apart
  <2>4. \A d \in Datasets, g \in Files :
          g \in cat'[d].refs => g \in disk' /\ garbage'[g] = "none" /\ file'[g].d = d
    BY <1>1, <1>11, <2>1 DEF StoreInv, Store
  <2>5. \A g \in disk' : Referenced(g)' \/ garbage'[g] # "none"
    BY <1>1, <1>4, <1>6, <1>11 DEF StoreInv, Store, Referenced
  <2> QED BY <2>3, <2>4, <2>5 DEF Store
<1>17. Room'
  <2>1. Listed \in SUBSET Files /\ {f} \in SUBSET Files /\ Listed' \subseteq Listed \cup {f}
    BY <1>2, <1>11 DEF Listed
  <2>2. Cardinality({f}) = 1
    BY FS_Singleton
  <2>3. Cardinality(Listed') <= Cardinality(Listed) + 1
    BY <2>1, <2>2, AtMostBoth
  <2>4. Cardinality(Listed) + 1 <= MaxGarbage
    BY <1>1 DEF FitsGarbage
  <2>5. Cardinality(Listed) \in Nat /\ Cardinality(Listed') \in Nat
    BY <2>1, AtMostBoth
  <2> QED BY <1>a, <2>3, <2>4, <2>5, StoreBounds DEF Room
<1>18. Reads0'
  <2>1. \A d \in Datasets : \A g \in cat[d].refs : file'[g] = file[g]
    BY <1>6, <1>11 DEF StoreInv, Types, CatSet
  <2>2. cat' \in [Datasets -> CatSet] /\ \A d \in Datasets : cat'[d] = cat[d]
    BY <1>1 DEF StoreInv, Types
  <2> QED BY <1>1, <2>1, <2>2, ReadersKeep
<1>19. wrong' = {}
  BY <1>1 DEF StoreInv
<1> QED BY <1>12, <1>13, <1>15, <1>b, <1>16, <1>17, <1>18, <1>19 DEF StoreInv

LEMMA PromoteKeeps ==
  ASSUME StoreInv, NEW w \in Writers, Promote(w)
  PROVE  StoreInv'
<1> DEFINE p == op[w].cur
           rows == file[op[w].cur].rows
           new == op[w].new \cup {p}
           todo == op[w].todo \ {rows}
           o == [op[w] EXCEPT !.at = "planned", !.cur = 0, !.new = new, !.todo = todo]
<1>1. /\ op[w].at = "linking" /\ disk' = disk \cup {p}
      /\ op' = [op EXCEPT ![w].at = "planned", ![w].cur = 0, ![w].new = @ \cup {p}, ![w].todo = @ \ {rows}]
      /\ UNCHANGED <<cat, garbage, file, rd, wrong>>
  BY DEF Promote
<1>2. /\ op[w] \in OpSet /\ op[w].d \in Datasets /\ Outcome(w, op[w], cat[op[w].d].last)
      /\ op \in [Writers -> OpSet] /\ file \in [Files -> FileSet]
      /\ disk \in SUBSET Files
  BY WriterFacts DEF StoreInv, Types
<1>3. Staged(op[w], cat[op[w].d], garbage, file, disk)
  BY WriterFacts
<1>4. p \in Files /\ garbage[p] = "prepared" /\ file[p].d = op[w].d /\ p \notin disk /\ rows \in op[w].todo
  BY <1>1, <1>3 DEF Staged
<1>5. new \in SUBSET Files /\ todo \in SUBSET RowSet
  BY <1>2, <1>4 DEF OpSet
<1>6. op' = [op EXCEPT ![w] = o]
  BY <1>1, <1>2
<1>7. o \in OpSet
  BY <1>2, <1>5 DEF OpSet, Phases
<1>8. /\ o.at = "planned" /\ o.cur = 0 /\ o.d = op[w].d /\ o.s = op[w].s /\ o.n = op[w].n /\ o.old = op[w].old
      /\ o.new = new /\ o.todo = todo /\ o.tx = op[w].tx /\ o.base = op[w].base /\ o.gen = op[w].gen
      /\ o.bad = op[w].bad
  BY <1>2 DEF OpSet
<1> HIDE DEF o
<1>9. op' \in [Writers -> OpSet] /\ op'[w] = o /\ \A v \in Writers : v # w => op'[v] = op[v]
  BY <1>2, <1>6, <1>7
<1>10. Types'
  BY <1>1, <1>2, <1>4, <1>9 DEF StoreInv, Types
<1>11. LocksHeld'
  BY <1>1, <1>8, <1>9 DEF StoreInv, LocksHeld, Committing, Holder
<1>12. Working(op[w]) /\ Firm(op[w]) /\ op[w].tx = "none" /\ p \in Known(op[w], cat[op[w].d]) /\ ~ Bare(op[w])
  BY <1>1, <1>2, <1>4, LinkingFirm DEF Working, Outcome, Known, Bare
<1>a. Working(o) /\ Firm(o) /\ ~ Checked(o)
  BY <1>8, <1>12 DEF Working, Firm, Bare, Checked
<1>13. ASSUME NEW v \in Writers, v # w
       PROVE  WriterOK(v, op[v], cat'[op[v].d], garbage', file', disk')
  <2>1. \A g \in Known(op[v], cat[op[v].d]) : g # p
    BY <1>12, <1>13, KnownApart
  <2> QED BY <1>1, <2>1, OtherStays
<1>14. WriterOK(w, o, cat'[o.d], garbage', file', disk')
  <2>1. /\ op[w].base = cat[op[w].d].gen /\ op[w].gen \in {-1, cat[op[w].d].gen}
        /\ op[w].old \subseteq cat[op[w].d].refs /\ op[w].n \in Feeds[<<op[w].d, op[w].s>>]
        /\ op[w].bad => <<op[w].d, op[w].s>> \in Verdicts
        /\ \A f \in op[w].new : f \in disk /\ garbage[f] = "prepared" /\ file[f].d = op[w].d
        /\ Rewrites(file, cat[op[w].d].refs, op[w])
    BY <1>3, <1>4, <1>12 DEF Staged
  <2>2. p \notin op[w].new
    BY <1>4, <2>1
  <2>3. Rewrites(file, cat[op[w].d].refs, o)
    <3>1. \A T, N, Z : Covers(file, T, N, Z) /\ p \notin N /\ file[p].rows \in Z =>
                         Covers(file, T, N \cup {p}, Z \ {file[p].rows})
      BY LinkedCovers
    <3> QED BY <1>4, <1>8, <2>1, <2>2, <3>1 DEF Rewrites
  <2>4. \A f \in o.new : f \in disk' /\ garbage[f] = "prepared" /\ file[f].d = o.d
    BY <1>1, <1>4, <1>8, <2>1
  <2> HIDE DEF new, todo
  <2>5. Staged(o, cat'[o.d], garbage', file', disk')
    BY <1>1, <1>8, <1>12, <1>a, <2>1, <2>3, <2>4 DEF Staged
  <2>6. Outcome(w, o, cat'[o.d].last) /\ Swept(o, garbage', file', disk')
    BY <1>8, <1>12, <1>a DEF Outcome, Swept
  <2> QED BY <2>5, <2>6 DEF WriterOK
<1>15. Updates'
  BY <1>9, <1>13, <1>14 DEF Updates
<1>16. Store'
  <2>1. \A g \in disk' : Referenced(g)' \/ garbage'[g] # "none"
    BY <1>1, <1>4 DEF StoreInv, Store, Referenced
  <2> QED BY <1>1, <2>1 DEF StoreInv, Store
<1>17. Room'
  <2>1. \A v \in Writers : op'[v].tx = "open" => v # w /\ op[v].tx = "open" /\ op'[v].old = op[v].old
    BY <1>8, <1>9, <1>12
  <2>2. Listed' = Listed
    BY <1>1 DEF Listed
  <2> QED BY <2>1, <2>2 DEF StoreInv, Room
<1>18. Reads0' /\ wrong' = {}
  BY <1>1 DEF StoreInv, Reads0
<1>19. RowHeld'
  <2>1. \A v \in Writers : OpenApart(op[v], op[w]) => OpenApart(op[v], o)
    BY <1>8, <1>12 DEF OpenApart
  <2>2. \A v \in Writers : OpenApart(o, op[v])
    BY <1>8, <1>12, RestApart
  <2> QED BY <1>9, <2>1, <2>2 DEF StoreInv, RowHeld
<1> QED BY <1>10, <1>11, <1>15, <1>16, <1>17, <1>18, <1>19 DEF StoreInv

-----------------------------------------------------------------------------
(* The transaction.                                                        *)

\* A transaction that may take effect, in time or late.
Due(w) ==
  /\ (op[w].at = "locked" /\ op[w].tx = "none") \/ op[w].tx = "open"
  /\ cat[op[w].d].gen < MaxVersions
  /\ Cardinality(Listed) + Cardinality(op[w].old) <= MaxGarbage
  /\ \A v \in Writers : v # w => op[v].tx # "open"

LEMMA CommitIsDue ==
  ASSUME StoreInv, NEW w \in Writers, MayCommit(w)
  PROVE  Due(w)
BY WriterFacts DEF MayCommit, Due, FitsGarbage, Admitting, Outcome

LEMMA LandIsDue ==
  ASSUME StoreInv, NEW w \in Writers, op[w].tx = "open"
  PROVE  Due(w)
<1>1. Working(op[w])
  BY OpenIs DEF Working
<1>2. cat[op[w].d].gen < MaxVersions
  BY <1>1, WriterFacts DEF Staged
<1> QED BY <1>1, <1>2 DEF Due, StoreInv, Room

\* A transaction that is due is past its checks, and its writer has left only
\* if the commit is late.
LEMMA DueIs ==
  ASSUME StoreInv, NEW w \in Writers, Due(w)
  PROVE  /\ Working(op[w]) /\ Checked(op[w]) /\ op[w].id \in 1..2
         /\ Holder(op[w]) \/ (LateCommits /\ op[w].tx = "open")
         /\ ~ LateCommits => Committing(w)
<1>1. op[w].at = "locked" \/ (op[w].tx = "open" /\ op[w].at = "sent")
      \/ (op[w].tx = "open" /\ op[w].at = "idle" /\ LateCommits)
  BY OpenIs DEF Due
<1>2. Checked(op[w]) /\ Working(op[w])
  BY <1>1 DEF Checked, Working, Due
<1>3. op[w].id \in 1..2
  BY <1>2, WriterFacts DEF Outcome
<1> QED BY <1>1, <1>2, <1>3 DEF Holder, Committing

\* What a transaction leaves of the store.
LEMMA TakesKeeps ==
  ASSUME StoreInv, NEW w \in Writers, Due(w), Takes(w), UNCHANGED rd
  PROVE  LET d == op[w].d
             c == cat[op[w].d] IN
         /\ cat' \in [Datasets -> CatSet] /\ \A e \in Datasets : e # d => cat'[e] = cat[e]
         /\ \A e \in Datasets, s \in Scopes : cat'[e].scope[s].rev <= cat'[e].gen
         /\ cat'[d].gen = c.gen + 1 /\ cat'[d].refs = (c.refs \ op[w].old) \cup op[w].new
         /\ cat'[d].last = <<w, op[w].id>>
         /\ cat'[d].issue = [c.issue EXCEPT ![op[w].s] = Verdict(w)]
         /\ garbage' \in [Files -> {"none", "prepared", "retired"}]
         /\ Store' /\ Cardinality(Listed') <= MaxGarbage /\ Reads0'
         /\ \A v \in Writers : v # w => WriterOK(v, op[v], cat'[op[v].d], garbage', file', disk')
         /\ \/ Bare(op[w]) /\ cat'[d].refs = c.refs
            \/ Join(file, cat'[d].refs) = Merged(Join(file, c.refs), op[w].s, op[w].n)
<1> DEFINE d == op[w].d
           s == op[w].s
           c == cat[d]
           old == op[w].old
           new == op[w].new
           refs == (c.refs \ old) \cup new
           sc == [rev |-> op[w].rev + 1, input |-> op[w].n, basis |-> FilesOf(refs, s), ok |-> ~op[w].bad]
           e == [c EXCEPT !.gen = @ + 1, !.refs = refs, !.last = <<w, op[w].id>>,
                          !.scope = [@ EXCEPT ![s] = sc], !.issue = [@ EXCEPT ![s] = Verdict(w)]]
<1>1. /\ op[w] \in OpSet /\ d \in Datasets /\ s \in Scopes /\ c \in CatSet
      /\ Staged(op[w], c, garbage, file, disk) /\ file \in [Files -> FileSet]
      /\ cat \in [Datasets -> CatSet] /\ garbage \in [Files -> {"none", "prepared", "retired"}]
  BY WriterFacts DEF StoreInv, Types
<1>2. Working(op[w]) /\ Checked(op[w]) /\ op[w].id \in 1..2
  BY DueIs
<1>3. /\ old \subseteq c.refs /\ op[w].todo = {} /\ op[w].n \in Feeds[<<d, s>>]
      /\ \A f \in new : f \in disk /\ garbage[f] = "prepared" /\ file[f].d = d
      /\ Bare(op[w]) \/ Rewrites(file, c.refs, op[w])
      /\ 0 <= op[w].rev /\ op[w].rev <= c.gen
  BY <1>1, <1>2 DEF Staged, Bare
<1>4. /\ old \in SUBSET Files /\ new \in SUBSET Files /\ c.refs \in SUBSET Files /\ refs \in SUBSET Files
      /\ op[w].n \in Inputs /\ op[w].n \in 0..MaxInputs
  BY <1>1, <1>3, StoreShape, StoreBounds DEF OpSet, CatSet, Inputs
<1>5. cat' = [cat EXCEPT ![d] = e]
  <2> DEFINE v == Verdict(w)
             g == c.gen + 1
             l == <<w, op[w].id>>
  <2>1. cat' = [cat EXCEPT ![d].gen = @ + 1, ![d].refs = refs, ![d].last = l, ![d].scope[s] = sc, ![d].issue[s] = v]
    BY DEF Takes
  <2> HIDE DEF sc, refs, v, l, s
  <2>2. [cat EXCEPT ![d].gen = @ + 1, ![d].refs = refs, ![d].last = l, ![d].scope[s] = sc, ![d].issue[s] = v]
          = [cat EXCEPT ![d] = [c EXCEPT !.gen = @ + 1, !.refs = refs, !.last = l,
                                         !.scope = [@ EXCEPT ![s] = sc], !.issue = [@ EXCEPT ![s] = v]]]
    BY <1>1 DEF CatSet
  <2> QED BY <2>1, <2>2 DEF v, l
<1>6. /\ \A f \in Files : garbage'[f] = IF f \in new THEN "none" ELSE IF f \in old THEN "retired" ELSE garbage[f]
      /\ garbage' \in [Files -> {"none", "prepared", "retired"}] /\ file' = file /\ disk' = disk
  BY <1>1 DEF Takes
<1>7. /\ Apart(file, refs)
      /\ (Bare(op[w]) /\ refs = c.refs) \/ Join(file, refs) = Merged(Join(file, c.refs), s, op[w].n)
  <2>1. Apart(file, c.refs)
    BY <1>1 DEF StoreInv, Store
  <2>2. CASE Bare(op[w])
    BY <2>1, <2>2 DEF Bare
  <2>3. CASE Rewrites(file, c.refs, op[w])
    <3>1. old = Met(file, c.refs, s) /\ Covers(file, Merged(Join(file, Met(file, c.refs, s)), s, op[w].n), new, {})
      BY <1>3, <2>3 DEF Rewrites
    <3> DEFINE R == c.refs
               n == op[w].n
    <3>2. R \in SUBSET Files /\ Apart(file, R) /\ n \in Inputs
      BY <1>4, <2>1
    <3> HIDE DEF R, n, s, new, old
    <3>3. /\ Apart(file, (R \ Met(file, R, s)) \cup new)
          /\ Join(file, (R \ Met(file, R, s)) \cup new) = Merged(Join(file, R), s, n)
      BY <1>1, <1>4, <3>1, <3>2, CommitRows DEF R, n
    <3> QED BY <3>1, <3>3 DEF R, n
  <2> QED BY <1>3, <2>2, <2>3
<1>8. sc \in ScopeSet /\ sc.rev <= c.gen + 1 /\ c.gen + 1 \in 0..MaxVersions /\ <<w, op[w].id>> \in Writers \X (1..2)
      /\ Verdict(w) \in 0..MaxInputs
  <2>1. c.gen \in 0..MaxVersions /\ c.gen < MaxVersions /\ op[w].rev \in Int /\ c.issue[s] \in 0..MaxInputs
    BY <1>1 DEF CatSet, OpSet, Due
  <2>2. op[w].rev + 1 \in 0..MaxVersions /\ op[w].rev + 1 <= c.gen + 1 /\ c.gen + 1 \in 0..MaxVersions
    BY <1>3, <2>1, StoreBounds
  <2>3. FilesOf(refs, s) \in SUBSET Files
    BY <1>4 DEF FilesOf
  <2>4. op[w].bad \in BOOLEAN
    BY <1>1 DEF OpSet
  <2>5. sc \in ScopeSet /\ sc.rev = op[w].rev + 1
    BY <1>4, <2>2, <2>3, <2>4 DEF ScopeSet
  <2>6. Verdict(w) \in 0..MaxInputs
    BY <1>4, <2>1, StoreBounds DEF Verdict
  <2> QED BY <1>2, <2>2, <2>5, <2>6
<1>9. /\ cat' \in [Datasets -> CatSet] /\ (\A x \in Datasets : x # d => cat'[x] = cat[x])
      /\ cat'[d].gen = c.gen + 1 /\ cat'[d].refs = refs /\ cat'[d].last = <<w, op[w].id>>
      /\ cat'[d].issue = [c.issue EXCEPT ![s] = Verdict(w)] /\ cat'[d].scope = [c.scope EXCEPT ![s] = sc]
  <2> HIDE DEF sc, refs
  <2>1. e \in CatSet
    BY <1>1, <1>4, <1>8 DEF CatSet
  <2>2. /\ e.gen = c.gen + 1 /\ e.refs = refs /\ e.last = <<w, op[w].id>>
        /\ e.issue = [c.issue EXCEPT ![s] = Verdict(w)] /\ e.scope = [c.scope EXCEPT ![s] = sc]
    BY <1>1 DEF CatSet
  <2> HIDE DEF e
  <2> QED BY <1>1, <1>5, <2>1, <2>2
<1> HIDE DEF e, sc
<1>10. \A x \in Datasets, t \in Scopes : cat'[x].scope[t].rev <= cat'[x].gen
  <2> SUFFICES ASSUME NEW x \in Datasets, NEW t \in Scopes PROVE cat'[x].scope[t].rev <= cat'[x].gen
    OBVIOUS
  <2>1. cat[x].scope[t].rev <= cat[x].gen
    BY DEF StoreInv, Types
  <2>2. CASE x # d
    BY <2>1, <2>2, <1>9
  <2>3. CASE x = d /\ t # s
    <3>1. cat'[x].scope[t] = cat[x].scope[t] /\ c.scope[t].rev \in Int /\ c.gen \in Int
      BY <2>3, <1>1, <1>9 DEF CatSet, ScopeSet
    <3> QED BY <3>1, <2>1, <2>3, <1>9
  <2>4. CASE x = d /\ t = s
    <3>1. cat'[x].scope[t] = sc
      BY <2>4, <1>1, <1>9 DEF CatSet
    <3> QED BY <3>1, <2>4, <1>8, <1>9
  <2> QED BY <2>2, <2>3, <2>4
<1>11. /\ \A x \in Datasets : Apart(file, cat[x].refs)
       /\ \A x \in Datasets, f \in Files : f \in cat[x].refs => f \in disk /\ garbage[f] = "none" /\ file[f].d = x
       /\ \A f \in disk : f \in Files /\ (Referenced(f) \/ garbage[f] # "none")
  BY DEF StoreInv, Types, Store
<1>12. Store'
  <2>1. \A x \in Datasets : Apart(file', cat'[x].refs)
    BY <1>6, <1>7, <1>9, <1>11
  <2>2. ASSUME NEW x \in Datasets, NEW f \in Files, f \in cat'[x].refs
        PROVE  f \in disk' /\ garbage'[f] = "none" /\ file'[f].d = x
    <3>1. CASE x # d
      <4>1. f \in cat[x].refs
        BY <2>2, <3>1, <1>9
      <4>2. f \notin new /\ f \notin old
        BY <4>1, <3>1, <1>1, <1>3, <1>11
      <4> QED BY <4>1, <4>2, <1>6, <1>11
    <3>2. CASE x = d /\ f \in new
      BY <3>2, <1>3, <1>6
    <3>3. CASE x = d /\ f \in c.refs \ old /\ f \notin new
      BY <3>3, <1>1, <1>6, <1>11
    <3> QED BY <2>2, <3>1, <3>2, <3>3, <1>9
  <2>3. ASSUME NEW f \in disk' PROVE Referenced(f)' \/ garbage'[f] # "none"
    <3>1. f \in disk /\ f \in Files
      BY <2>3, <1>6, <1>11
    <3>2. CASE f \in new
      BY <3>2, <1>1, <1>9 DEF Referenced
    <3>3. CASE f \in old /\ f \notin new
      BY <3>1, <3>3, <1>6
    <3>4. CASE f \notin old /\ f \notin new
      <4>1. CASE garbage[f] # "none"
        BY <4>1, <3>1, <3>4, <1>6
      <4>2. CASE Referenced(f)
        <5>1. PICK x \in Datasets : f \in cat[x].refs
          BY <4>2 DEF Referenced
        <5>2. f \in cat'[x].refs
          BY <5>1, <3>4, <1>9
        <5> QED BY <5>2 DEF Referenced
      <4> QED BY <4>1, <4>2, <3>1, <1>11
    <3> QED BY <3>2, <3>3, <3>4
  <2> QED BY <2>1, <2>2, <2>3 DEF Store
<1>13. Cardinality(Listed') <= MaxGarbage
  <2>1. Listed \in SUBSET Files /\ Listed' \subseteq Listed \cup old
    BY <1>6 DEF Listed
  <2>2. Cardinality(Listed') <= Cardinality(Listed) + Cardinality(old)
        /\ Cardinality(Listed') \in Nat /\ Cardinality(Listed) \in Nat /\ Cardinality(old) \in Nat
    BY <2>1, <1>4, AtMostBoth
  <2>3. Cardinality(Listed) + Cardinality(old) <= MaxGarbage
    BY DEF Due
  <2> QED BY <2>2, <2>3, StoreBounds
<1>14. Reads0'
  <2>1. ~ LateCommits => \A r \in Readers : d \notin rd[r].held
    BY DueIs DEF StoreInv, LocksHeld
  <2>2. c.gen \in Int /\ cat'[d].gen > c.gen
    BY <1>1, <1>9 DEF CatSet
  <2>3. \A x \in Datasets : \A f \in cat[x].refs : file'[f] = file[f]
    BY <1>6
  <2>4. ~ LateCommits =>
          \A x \in Datasets : \/ cat'[x] = cat[x]
                              \/ cat'[x].gen > cat[x].gen /\ \A r \in Readers : x \notin rd[r].held
    BY <1>9, <2>1, <2>2
  <2> QED BY <1>9, <2>3, <2>4, ReadersKeep
<1>15. ASSUME NEW v \in Writers, v # w
       PROVE  WriterOK(v, op[v], cat'[op[v].d], garbage', file', disk')
  <2>1. \A f \in new \cup old : f \in Known(op[w], c)
    <3>1. CASE Firm(op[w])
      BY <1>3, <1>4, <3>1 DEF Known
    <3>2. CASE ~ Firm(op[w])
      BY <1>2, <3>2 DEF Firm, Bare
    <3> QED BY <3>1, <3>2
  <2>2. \A f \in Known(op[v], cat[op[v].d]) : f \in Files /\ f \notin new \cup old
    BY <1>15, <2>1, KnownApart DEF Known
  <2>3. op[v].d \in Datasets /\ op[v].tx # "open"
    BY <1>15, WriterFacts DEF Due
  <2>4. ASSUME op[v].d = d
        PROVE  ~ Firm(op[v]) /\ (Working(op[v]) => LateCommits) /\ op[v].at # "sent"
    <3>1. CASE Holder(op[w])
      <4>1. ~ Holder(op[v])
        BY <1>15, <2>4, <3>1 DEF StoreInv, LocksHeld
      <4> QED BY <2>3, <4>1 DEF Holder, Firm, Working
    <3>2. CASE LateCommits /\ op[w].tx = "open"
      <4>1. OpenApart(op[w], op[v])
        BY <1>15 DEF StoreInv, RowHeld
      <4> QED BY <2>4, <3>2, <4>1 DEF OpenApart
    <3> QED BY <3>1, <3>2, DueIs
  <2>5. cat'[op[v].d] \in CatSet
    BY <1>9, <2>3
  <2>6. GoesOn(v, op[v], cat[op[v].d], cat'[op[v].d])
    <3>1. CASE op[v].d # d
      BY <1>9, <2>3, <3>1 DEF GoesOn
    <3>2. CASE op[v].d = d
      <4>1. cat'[d].last # <<v, op[v].id>>
        BY <1>9, <1>15
      <4>2. c.gen <= cat'[d].gen
        BY <1>1, <1>9 DEF CatSet
      <4> QED BY <2>3, <2>4, <3>2, <4>1, <4>2 DEF GoesOn
    <3> QED BY <3>1, <3>2
  <2> QED BY <1>6, <2>2, <2>5, <2>6, OtherKeeps
<1> QED BY <1>6, <1>7, <1>9, <1>10, <1>12, <1>13, <1>14, <1>15

\* Whatever its writer is by now, a transaction leaves the invariant.
LEMMA DoneKeeps ==
  ASSUME StoreInv, NEW w \in Writers, Due(w), Takes(w), UNCHANGED <<rd, wrong>>,
         NEW o \in OpSet, op' = [op EXCEPT ![w] = o],
         \/ o = NoOp
         \/ /\ o.d = op[w].d /\ o.tx = "done"
            /\ \/ o.at = "tidy" /\ o.answer = "ok"
               \/ o.at = "sent" /\ o.id = op[w].id /\ op[w].at = "sent"
  PROVE  StoreInv'
<1>1. /\ cat' \in [Datasets -> CatSet] /\ garbage' \in [Files -> {"none", "prepared", "retired"}]
      /\ \A e \in Datasets, s \in Scopes : cat'[e].scope[s].rev <= cat'[e].gen
      /\ cat'[op[w].d].last = <<w, op[w].id>>
      /\ Store' /\ Cardinality(Listed') <= MaxGarbage /\ Reads0'
      /\ \A v \in Writers : v # w => WriterOK(v, op[v], cat'[op[v].d], garbage', file', disk')
  BY TakesKeeps
<1>2. op' \in [Writers -> OpSet] /\ op'[w] = o /\ \A v \in Writers : v # w => op'[v] = op[v]
  BY DEF StoreInv, Types
<1>3. UNCHANGED <<file, disk>>
  BY DEF Takes
<1>4. Types'
  BY <1>1, <1>2, <1>3 DEF StoreInv, Types
<1>5. NoOp.at = "idle" /\ NoOp.tx = "none"
  BY DEF NoOp
<1>6. LocksHeld'
  <2>1. Holder(o) => o.at = "sent" /\ Holder(op[w]) /\ o.d = op[w].d /\ Committing(w)
    BY <1>5 DEF Holder, Committing
  <2>2. Committing(w)' => Holder(o)
    BY <1>2 DEF Holder, Committing
  <2>3. \A v \in Writers : v # w => (Committing(v)' <=> Committing(v))
    BY <1>2 DEF Committing
  <2> QED BY <1>2, <2>1, <2>2, <2>3 DEF StoreInv, LocksHeld
<1>7. WriterOK(w, o, cat'[o.d], garbage', file', disk')
  <2>1. CASE o = NoOp
    BY <2>1, NothingOK
  <2>2. CASE o # NoOp
    <3>1. op[w].id \in 1..2
      BY DueIs
    <3>2. Outcome(w, o, cat'[o.d].last)
      BY <1>1, <2>2, <3>1 DEF Outcome, Checked
    <3>3. Staged(o, cat'[o.d], garbage', file', disk') /\ Swept(o, garbage', file', disk')
      BY <2>2 DEF Staged, Swept, Working, Firm
    <3> QED BY <3>2, <3>3 DEF WriterOK
  <2> QED BY <2>1, <2>2
<1>8. Updates'
  BY <1>1, <1>2, <1>7 DEF Updates
<1>9. Room' /\ RowHeld'
  <2>1. \A v \in Writers : op'[v].tx # "open"
    BY <1>2, <1>5 DEF Due
  <2> QED BY <1>1, <2>1 DEF Room, RowHeld, OpenApart
<1> QED BY <1>1, <1>4, <1>6, <1>8, <1>9 DEF StoreInv

LEMMA CommitKeeps ==
  ASSUME StoreInv, NEW w \in Writers, Commit(w)
  PROVE  StoreInv'
<1> DEFINE o == [NoOp EXCEPT !.at = "tidy", !.d = op[w].d, !.tx = "done", !.answer = "ok"]
<1>1. Due(w) /\ Takes(w) /\ UNCHANGED <<rd, wrong>> /\ op' = [op EXCEPT ![w] = o]
  BY CommitIsDue DEF Commit
<1>2. NoOp \in OpSet /\ op[w].d \in Datasets
  BY StartTypes, WriterFacts
<1>3. o \in OpSet /\ o.at = "tidy" /\ o.d = op[w].d /\ o.tx = "done" /\ o.answer = "ok"
  BY <1>2 DEF OpSet, Phases
<1> HIDE DEF o
<1> QED BY <1>1, <1>3, DoneKeeps

LEMMA LandKeeps ==
  ASSUME StoreInv, NEW w \in Writers, Land(w)
  PROVE  StoreInv'
<1> DEFINE o == [op[w] EXCEPT !.tx = "done"]
<1>1. op[w] \in OpSet /\ op \in [Writers -> OpSet]
  BY WriterFacts DEF StoreInv, Types
<1>2. Due(w) /\ Takes(w) /\ UNCHANGED <<rd, wrong>> /\ (op[w].at = "sent" \/ op[w].at = "idle")
  BY OpenIs, LandIsDue DEF Land
<1>3. CASE op[w].at = "sent"
  <2>1. op' = [op EXCEPT ![w] = o]
    BY <1>1, <1>3 DEF Land
  <2>2. o \in OpSet /\ o.at = "sent" /\ o.d = op[w].d /\ o.tx = "done" /\ o.id = op[w].id
    BY <1>1, <1>3 DEF OpSet
  <2> HIDE DEF o
  <2> QED BY <1>2, <1>3, <2>1, <2>2, DoneKeeps
<1>4. CASE op[w].at = "idle"
  <2>1. op' = [op EXCEPT ![w] = NoOp]
    BY <1>4 DEF Land
  <2> QED BY <1>2, <2>1, StartTypes, DoneKeeps
<1> QED BY <1>2, <1>3, <1>4

LEMMA RegisterKeeps ==
  ASSUME StoreInv, NEW d \in Datasets, Register(d)
  PROVE  StoreInv'
<1> DEFINE e == [cat[d] EXCEPT !.gen = @ + 1]
<1>1. /\ WriterFree(d) /\ Readable(d) /\ RowFree(d) /\ cat[d].gen < MaxVersions
      /\ UNCHANGED <<garbage, file, disk, op, rd, wrong>>
  BY DEF Register
<1>2. cat \in [Datasets -> CatSet] /\ cat[d] \in CatSet
  BY DEF StoreInv, Types
<1>3. cat' = [cat EXCEPT ![d] = e]
  BY <1>2 DEF Register
<1>4. cat[d].gen \in 0..MaxVersions /\ cat[d].gen + 1 \in 0..MaxVersions
  BY <1>1, <1>2, StoreBounds DEF CatSet
<1>5. e \in CatSet
  BY <1>2, <1>4 DEF CatSet
<1>6. e.gen = cat[d].gen + 1 /\ e.refs = cat[d].refs /\ e.scope = cat[d].scope
  BY <1>2 DEF CatSet
<1> HIDE DEF e
<1>7. cat' \in [Datasets -> CatSet] /\ cat'[d] = e /\ \A x \in Datasets : x # d => cat'[x] = cat[x]
  BY <1>2, <1>3, <1>5
<1>8. \A x \in Datasets : cat'[x].refs = cat[x].refs
  BY <1>6, <1>7
<1>9. \A x \in Datasets, s \in Scopes : cat'[x].scope[s].rev <= cat'[x].gen
  <2> SUFFICES ASSUME NEW x \in Datasets, NEW s \in Scopes PROVE cat'[x].scope[s].rev <= cat'[x].gen
    OBVIOUS
  <2>1. cat[x].scope[s].rev <= cat[x].gen /\ cat[x].scope[s].rev \in Int /\ cat[x].gen \in Int
    BY <1>2 DEF StoreInv, Types, CatSet, ScopeSet
  <2> QED BY <2>1, <1>6, <1>7
<1>10. Types'
  BY <1>1, <1>7, <1>9 DEF StoreInv, Types
<1>11. LocksHeld' /\ RowHeld' /\ Room' /\ wrong' = {}
  BY <1>1 DEF StoreInv, LocksHeld, RowHeld, Committing, Room, Listed
<1>12. Updates'
  <2> SUFFICES ASSUME NEW v \in Writers PROVE WriterOK(v, op[v], cat'[op[v].d], garbage', file', disk')
    BY <1>1 DEF Updates
  <2>1. op[v].d \in Datasets /\ cat'[op[v].d] \in CatSet
    BY <1>7, WriterFacts
  <2>2. GoesOn(v, op[v], cat[op[v].d], cat'[op[v].d])
    <3>1. CASE op[v].d # d
      BY <1>7, <2>1, <3>1 DEF GoesOn
    <3>2. CASE op[v].d = d
      <4>1. ~ Holder(op[v]) /\ op[v].tx # "open"
        BY <1>1, <3>2, FreeOfHolders DEF RowFree
      <4>2. cat[d].gen <= cat'[d].gen
        BY <1>4, <1>6, <1>7
      <4> QED BY <3>2, <4>1, <4>2 DEF GoesOn, Holder, Firm, Working
    <3> QED BY <3>1, <3>2
  <2> QED BY <1>1, <2>1, <2>2, OtherKeeps
<1>13. Store'
  BY <1>1, <1>8 DEF StoreInv, Store, Referenced
<1>14. Reads0'
  <2>1. \A r \in Readers : d \notin rd[r].held
    BY <1>1, FreeOfReaders
  <2>2. \A x \in Datasets : cat'[x] = cat[x] \/ (cat'[x].gen > cat[x].gen /\ \A r \in Readers : x \notin rd[r].held)
    BY <1>4, <1>6, <1>7, <2>1
  <2> QED BY <1>1, <1>7, <2>2, ReadersKeep
<1> QED BY <1>10, <1>11, <1>12, <1>13, <1>14 DEF StoreInv

-----------------------------------------------------------------------------
(* Cleanup.                                                                *)

LEMMA SweepDeleteKeeps ==
  ASSUME StoreInv, NEW w \in Writers, NEW f \in Files, SweepDelete(w, f)
  PROVE  StoreInv'
<1>1. /\ op[w].at = "sweep" /\ f \in op[w].old /\ op[w].cur = 0
      /\ UNCHANGED <<cat, garbage, file, rd, wrong>>
  BY DEF SweepDelete
<1>2. CASE op' = [op EXCEPT ![w].old = @ \ {f}] /\ UNCHANGED disk
  BY <1>1, <1>2, SweepSkipKeeps DEF Files0
<1>3. CASE ~Referenced(f) /\ disk' = disk \ {f} /\ op' = [op EXCEPT ![w].cur = f]
  <2> DEFINE o == [op[w] EXCEPT !.cur = f]
  <2>1. op[w] \in OpSet /\ op \in [Writers -> OpSet] /\ disk \in SUBSET Files
    BY WriterFacts DEF StoreInv, Types
  <2>2. Outcome(w, op[w], cat[op[w].d].last) /\ Swept(op[w], garbage, file, disk)
    BY WriterFacts
  <2>3. op' = [op EXCEPT ![w] = o]
    BY <1>3, <2>1
  <2>4. o \in OpSet
    BY <2>1 DEF OpSet
  <2>5. /\ o.at = "sweep" /\ o.d = op[w].d /\ o.old = op[w].old /\ o.tx = op[w].tx
        /\ o.answer = op[w].answer /\ o.cur = f
    BY <1>1, <2>1 DEF OpSet
  <2> HIDE DEF o
  <2>6. op' \in [Writers -> OpSet] /\ op'[w] = o /\ \A v \in Writers : v # w => op'[v] = op[v]
    BY <2>1, <2>3, <2>4
  <2>7. Types'
    BY <1>1, <1>3, <2>1, <2>6 DEF StoreInv, Types
  <2>8. LocksHeld'
    BY <1>1, <2>5, <2>6 DEF StoreInv, LocksHeld, Committing, Holder
  <2>9. op[w].tx # "open" /\ f \in Known(op[w], cat[op[w].d])
    BY <1>1, <2>2 DEF Outcome, Known
  <2>10. ASSUME NEW v \in Writers, v # w
         PROVE  WriterOK(v, op[v], cat'[op[v].d], garbage', file', disk')
    <3>1. \A g \in Known(op[v], cat[op[v].d]) : g # f
      BY <2>9, <2>10, KnownApart
    <3> QED BY <1>1, <1>3, <3>1, OtherStays
  <2>11. WriterOK(w, o, cat'[o.d], garbage', file', disk')
    BY <1>1, <1>3, <2>2, <2>5 DEF WriterOK, Outcome, Staged, Swept, Working, Checked, Firm
  <2>12. Updates'
    BY <2>6, <2>10, <2>11 DEF Updates
  <2>13. Store'
    BY <1>1, <1>3 DEF StoreInv, Store, Referenced
  <2>14. Room'
    BY <1>1, <2>5, <2>6, <2>9 DEF StoreInv, Room, Listed
  <2>15. Reads0' /\ wrong' = {}
    BY <1>1 DEF StoreInv, Reads0
  <2>16. RowHeld'
    <3>1. \A v \in Writers : OpenApart(o, op[v]) /\ (OpenApart(op[v], op[w]) => OpenApart(op[v], o))
      BY <1>1, <2>5, <2>9 DEF OpenApart, Firm, Working
    <3> QED BY <2>6, <3>1 DEF StoreInv, RowHeld
  <2> QED BY <2>7, <2>8, <2>12, <2>13, <2>14, <2>15, <2>16 DEF StoreInv
<1> QED BY <1>2, <1>3 DEF SweepDelete

LEMMA SweepForgetKeeps ==
  ASSUME StoreInv, NEW w \in Writers, SweepForget(w)
  PROVE  StoreInv'
<1> DEFINE f == op[w].cur
           old == op[w].old \ {f}
           o == [op[w] EXCEPT !.old = old, !.cur = 0]
<1>1. /\ op[w].at = "sweep" /\ f # 0
      /\ garbage' = [garbage EXCEPT ![f] = "none"]
      /\ file' = [file EXCEPT ![f] = NoFile]
      /\ op' = [op EXCEPT ![w].old = @ \ {f}, ![w].cur = 0]
      /\ UNCHANGED <<cat, disk, rd, wrong>>
  BY DEF SweepForget
<1>2. /\ op[w] \in OpSet /\ op \in [Writers -> OpSet] /\ file \in [Files -> FileSet]
      /\ garbage \in [Files -> {"none", "prepared", "retired"}]
      /\ Outcome(w, op[w], cat[op[w].d].last) /\ Swept(op[w], garbage, file, disk)
  BY WriterFacts DEF StoreInv, Types
<1>3. f \in Files /\ f \in op[w].old /\ f \notin disk /\ garbage[f] # "none" /\ old \in SUBSET Files
  BY <1>1, <1>2 DEF OpSet, Swept
<1>4. \A d \in Datasets : f \notin cat[d].refs
  BY <1>3 DEF StoreInv, Store
<1>5. op' = [op EXCEPT ![w] = o]
  BY <1>1, <1>2
<1>6. o \in OpSet
  BY <1>2, <1>3 DEF OpSet
<1>7. /\ o.at = "sweep" /\ o.d = op[w].d /\ o.old = old /\ o.tx = op[w].tx
      /\ o.answer = op[w].answer /\ o.cur = 0
  BY <1>1, <1>2 DEF OpSet
<1> HIDE DEF o
<1>8. op' \in [Writers -> OpSet] /\ op'[w] = o /\ \A v \in Writers : v # w => op'[v] = op[v]
  BY <1>2, <1>5, <1>6
<1>9. /\ garbage' \in [Files -> {"none", "prepared", "retired"}] /\ file' \in [Files -> FileSet]
      /\ \A g \in Files : g # f => garbage'[g] = garbage[g] /\ file'[g] = file[g]
      /\ garbage'[f] = "none"
  BY <1>1, <1>2, <1>3, StartTypes
<1>10. Types'
  BY <1>1, <1>8, <1>9 DEF StoreInv, Types
<1>11. LocksHeld'
  BY <1>1, <1>7, <1>8 DEF StoreInv, LocksHeld, Committing, Holder
<1>12. op[w].tx # "open" /\ f \in Known(op[w], cat[op[w].d])
  BY <1>1, <1>2, <1>3 DEF Outcome, Known
<1>13. ASSUME NEW v \in Writers, v # w
       PROVE  WriterOK(v, op[v], cat'[op[v].d], garbage', file', disk')
  <2>1. \A g \in Known(op[v], cat[op[v].d]) : g # f /\ g \in Files
    BY <1>12, <1>13, KnownApart DEF Known
  <2> QED BY <1>1, <1>9, <2>1, OtherStays
<1>14. WriterOK(w, o, cat'[o.d], garbage', file', disk')
  <2>1. \A g \in o.old : garbage'[g] # "none" /\ file'[g].d = o.d
    BY <1>1, <1>2, <1>3, <1>7, <1>9 DEF Swept
  <2> QED BY <1>1, <1>2, <1>7, <2>1 DEF WriterOK, Outcome, Staged, Swept, Working, Checked, Firm
<1>15. Updates'
  BY <1>8, <1>13, <1>14 DEF Updates
<1>16. Store'
  <2>1. \A d \in Datasets : cat[d].refs \in SUBSET Files
    BY DEF StoreInv, Types, CatSet
  <2>2. \A d \in Datasets : \A g \in cat[d].refs : garbage'[g] = garbage[g] /\ file'[g] = file[g]
    BY <1>4, <1>9, <2>1
  <2>3. \A d \in Datasets : Apart(file', cat'[d].refs)
    BY <1>1, <2>2 DEF StoreInv, Store, Apart
  <2>4. \A d \in Datasets, g \in Files :
          g \in cat'[d].refs => g \in disk' /\ garbage'[g] = "none" /\ file'[g].d = d
    BY <1>1, <2>2 DEF StoreInv, Store
  <2>5. \A g \in disk' : Referenced(g)' \/ garbage'[g] # "none"
    BY <1>1, <1>3, <1>9 DEF StoreInv, Types, Store, Referenced
  <2> QED BY <2>3, <2>4, <2>5 DEF Store
<1>17. Room'
  <2>1. Listed \in SUBSET Files /\ Listed' \subseteq Listed
    BY <1>9 DEF Listed
  <2>2. Cardinality(Listed') <= Cardinality(Listed) /\ Cardinality(Listed') \in Nat /\ Cardinality(Listed) \in Nat
    BY <2>1, ListedFinite, FS_Subset
  <2>3. \A v \in Writers : op'[v].tx = "open" => v # w /\ op[v].tx = "open" /\ op'[v].old = op[v].old
    BY <1>7, <1>8, <1>12
  <2>4. \A v \in Writers : Cardinality(op[v].old) \in Nat
    BY WriterFacts, ListedFinite DEF OpSet
  <2> QED BY <2>2, <2>3, <2>4, StoreBounds DEF StoreInv, Room
<1>18. Reads0'
  <2>1. \A d \in Datasets : \A g \in cat[d].refs : file'[g] = file[g]
    BY <1>4, <1>9 DEF StoreInv, Types, CatSet
  <2>2. cat' \in [Datasets -> CatSet] /\ \A d \in Datasets : cat'[d] = cat[d]
    BY <1>1 DEF StoreInv, Types
  <2> QED BY <1>1, <2>1, <2>2, ReadersKeep
<1>19. wrong' = {}
  BY <1>1 DEF StoreInv
<1>20. RowHeld'
  <2>1. \A v \in Writers : OpenApart(o, op[v]) /\ (OpenApart(op[v], op[w]) => OpenApart(op[v], o))
    BY <1>1, <1>7, <1>12 DEF OpenApart, Firm, Working
  <2> QED BY <1>8, <2>1 DEF StoreInv, RowHeld
<1> QED BY <1>10, <1>11, <1>15, <1>16, <1>17, <1>18, <1>19, <1>20 DEF StoreInv

-----------------------------------------------------------------------------
(* The theorems.                                                           *)

LEMMA InitStore ==
  ASSUME Init
  PROVE  StoreInv
<1> DEFINE scope0 == [s \in Scopes |-> [rev |-> 0, input |-> 0, basis |-> {}, ok |-> FALSE]]
           issue0 == [s \in Scopes |-> 0]
           c0 == [gen |-> 0, refs |-> {}, last |-> <<>>, scope |-> scope0, issue |-> issue0]
<1>1. cat = [d \in Datasets |-> c0]
  BY DEF Init
<1>2. scope0 \in [Scopes -> ScopeSet] /\ issue0 \in [Scopes -> 0..MaxInputs]
  BY StoreBounds DEF ScopeSet
<1>3. \A s \in Scopes : scope0[s].rev = 0
  OBVIOUS
<1> HIDE DEF scope0, issue0
<1>4. c0 \in CatSet
  BY <1>2, StoreBounds DEF CatSet
<1>5. c0.gen = 0 /\ c0.refs = {} /\ c0.scope = scope0
  OBVIOUS
<1> HIDE DEF c0
<1>6. \A d \in Datasets : cat[d] = c0
  BY <1>1
<1>7. \A w \in Writers : op[w] = NoOp
  BY DEF Init
<1>8. \A r \in Readers : rd[r] = NoRead
  BY DEF Init
<1>9. NoRead.held = {} /\ NoRead.want = {} /\ NoRead.at = "idle" /\ ~ NoRead.next
      /\ DOMAIN NoRead.gens = {} /\ DOMAIN NoRead.opened = {} /\ DOMAIN NoRead.page = {}
  BY DEF NoRead
<1>10. NoOp.at = "idle" /\ NoOp.tx = "none" /\ NoOp.d \in Datasets
  BY StoreShape DEF NoOp
<1>11. Types
  <2>1. /\ garbage \in [Files -> {"none", "prepared", "retired"}] /\ file \in [Files -> FileSet]
        /\ op \in [Writers -> OpSet] /\ rd \in [Readers -> ReadSet]
    BY StartTypes DEF Init
  <2>2. \A d \in Datasets, s \in Scopes : cat[d].scope[s].rev <= cat[d].gen
    BY <1>3, <1>5, <1>6
  <2>3. \A r \in Readers : rd[r].held \subseteq rd[r].want
    BY <1>8, <1>9
  <2>4. cat \in [Datasets -> CatSet]
    BY <1>1, <1>4
  <2> QED BY <2>1, <2>2, <2>3, <2>4 DEF Types, Init
<1>12. LocksHeld /\ RowHeld
  BY <1>7, <1>10 DEF LocksHeld, RowHeld, OpenApart, Holder, Committing
<1>13. Updates
  <2>1. \A w \in Writers : WriterOK(w, NoOp, cat[NoOp.d], garbage, file, disk)
    BY NothingOK
  <2> QED BY <1>7, <2>1 DEF Updates
<1>14. Store
  BY <1>5, <1>6 DEF Store, Apart, Init
<1>15. Room
  <2>1. Listed = {}
    BY DEF Listed, Init
  <2>2. Cardinality(Listed) = 0
    BY <2>1, FS_EmptySet
  <2> QED BY <2>2, <1>7, <1>10, StoreBounds DEF Room
<1>16. Reads0
  <2>1. NoRead = [NoRead EXCEPT !.page = NoRead.page]
    BY DEF NoRead
  <2> QED BY <1>8, <1>9, <2>1 DEF Reads0, Seen, Looks, Fresh
<1> QED BY <1>11, <1>12, <1>13, <1>14, <1>15, <1>16 DEF StoreInv, Init

LEMMA NextStore ==
  ASSUME StoreInv, [Next]_vars
  PROVE  StoreInv'
<1>1. CASE Request
  <2>1. PICK w \in Writers, d \in Datasets, s \in Scopes : \E n \in Feeds[<<d, s>>], bad \in BOOLEAN : Ask(w, d, s, n, bad)
    BY <1>1 DEF Request
  <2> QED BY <2>1, AskKeeps
<1>2. CASE Update
  <2>1. PICK w \in Writers :
          \/ Plan(w) \/ PlanProblem(w) \/ Replay(w) \/ Prepare(w) \/ Promote(w) \/ LockCommit(w)
          \/ Commit(w) \/ CommitLost(w) \/ Land(w) \/ Drop(w) \/ Confirm(w) \/ Fail(w) \/ Crash(w)
    BY <1>2 DEF Update
  <2> QED BY <2>1, PlanKeeps, ReplayKeeps, PrepareKeeps, PromoteKeeps, LockCommitKeeps, CommitKeeps,
             CommitLostKeeps, LandKeeps, DropKeeps, ConfirmKeeps, FailKeeps, CrashKeeps
<1>3. CASE Define
  BY <1>3, RegisterKeeps DEF Define
<1>4. CASE Cleanup
  <2>1. PICK w \in Writers :
          \/ \E d \in Datasets : Sweep(w, d)
          \/ \E f \in Files : SweepDelete(w, f)
          \/ SweepForget(w) \/ SweepEnd(w)
    BY <1>4 DEF Cleanup
  <2> QED BY <2>1, SweepKeeps, SweepDeleteKeeps, SweepForgetKeeps, SweepEndKeeps
<1>5. CASE Reading
  BY <1>5, ReadingKeeps
<1>6. CASE UNCHANGED vars
  BY <1>6 DEF vars, StoreInv, Types, LocksHeld, RowHeld, Committing, Updates, Store, Referenced, Room, Listed, Reads0
<1> QED BY <1>1, <1>2, <1>3, <1>4, <1>5, <1>6 DEF Next

\* The invariant holds in every state.
THEOREM StoreInvariant == Spec => []StoreInv
<1>1. Init => StoreInv
  BY InitStore
<1>2. StoreInv /\ [Next]_vars => StoreInv'
  BY NextStore
<1> QED BY <1>1, <1>2, PTL DEF Spec

\* The store is consistent in every state that satisfies the invariant.
LEMMA InvConsistent ==
  ASSUME StoreInv
  PROVE  StoreConsistent
<1>1. Types /\ Store
  BY DEF StoreInv
<1>2. TypeOK
  <2>1. \A d \in Datasets :
          /\ cat[d].gen \in 0..MaxVersions /\ cat[d].refs \in SUBSET Files
          /\ cat[d].last \in {<<>>} \cup (Writers \X (1..2))
          /\ cat[d].scope \in [Scopes -> [rev : 0..MaxVersions, input : 0..MaxInputs,
                                           basis : SUBSET Files, ok : BOOLEAN]]
          /\ cat[d].issue \in [Scopes -> 0..MaxInputs]
    BY <1>1 DEF Types, CatSet, ScopeSet
  <2>2. garbage \in [Files -> {"none", "prepared", "retired"}] /\ disk \in SUBSET Files /\ wrong \subseteq Writers
    BY <1>1 DEF Types
  <2>3. file \in [Files -> [d : Datasets, rows : RowSet]]
    BY <1>1 DEF Types, FileSet
  <2>4. \A w \in Writers :
          /\ op[w].at \in {"idle", "asked", "planned", "linking", "locked", "sent", "tidy", "sweep"}
          /\ op[w].old \in SUBSET Files /\ op[w].new \in SUBSET Files /\ op[w].todo \in SUBSET RowSet
          /\ op[w].tx \in {"none", "open", "done", "gone"}
          /\ op[w].answer \in {"none", "ok", "noop", "error", "unknown"}
    BY <1>1 DEF Types, OpSet, Phases
  <2>5. \A r \in Readers :
          /\ rd[r].at \in {"idle", "reading", "listed"}
          /\ rd[r].held \subseteq rd[r].want /\ rd[r].want \in SUBSET Datasets
          /\ rd[r].refs \in SUBSET Files
    BY <1>1 DEF Types, ReadSet
  <2> QED BY <2>1, <2>2, <2>3, <2>4, <2>5 DEF TypeOK
<1>3. \A d \in Datasets : cat[d].refs \in SUBSET Files
  BY <1>2 DEF TypeOK
<1>4. RefsOnDisk
  BY <1>1, <1>3 DEF RefsOnDisk, Store
<1>5. FilesAccounted
  BY <1>1 DEF FilesAccounted, Store, Referenced
<1>6. GarbageBounded
  BY DEF StoreInv, Room, GarbageBounded
<1>7. NoKeyTwice
  BY <1>1 DEF NoKeyTwice, Store, Apart, KeysOf
<1> QED BY <1>2, <1>4, <1>5, <1>6, <1>7 DEF StoreConsistent

\* What a reader has listed is the current files of one dataset.
LEMMA InvFinds ==
  ASSUME StoreInv, ~ LateCommits
  PROVE  ReadersFindFiles
<1> SUFFICES ASSUME NEW r \in Readers, rd[r].at = "listed" PROVE rd[r].refs \subseteq disk
  BY DEF ReadersFindFiles
<1> DEFINE d == Lowest(rd[r].want \ DOMAIN rd[r].opened)
<1>1. rd[r] \in ReadSet /\ Seen(r, rd[r], cat, file)
  BY DEF StoreInv, Types, Reads0
<1>2. rd[r].want \in SUBSET Datasets /\ DOMAIN rd[r].opened \subseteq rd[r].want
      /\ DOMAIN rd[r].opened # rd[r].want /\ rd[r].refs = cat[d].refs
  BY <1>1 DEF ReadSet, Seen, Looks, Fresh
<1>3. d \in Datasets
  BY <1>2, NextOne
<1> HIDE DEF d
<1>4. cat[d].refs \in SUBSET Files
  BY <1>3 DEF StoreInv, Types, CatSet
<1> QED BY <1>2, <1>3, <1>4 DEF StoreInv, Store

\* In every state, whichever steps updates, cleanups and crashes have taken and
\* however late a COMMIT has taken effect, the
\* current files exist, give no key twice and are not listed for deletion; what
\* else exists is listed; and the list stays within its limit.
THEOREM StoreIsConsistent == Spec => []StoreConsistent
<1>1. StoreInv => StoreConsistent
  BY InvConsistent
<1>2. Spec => []StoreInv
  BY StoreInvariant
<1> QED BY <1>1, <1>2, PTL

\* A writer that was told of a success has committed, and one that was told of
\* a failure had not when it was told, however late its COMMIT takes effect.
THEOREM AnswersTrue == Spec => []AnswersAreTrue
<1>1. StoreInv => AnswersAreTrue
  BY DEF StoreInv, AnswersAreTrue
<1>2. Spec => []StoreInv
  BY StoreInvariant
<1> QED BY <1>1, <1>2, PTL

\* No cleanup takes a file from a reader that has listed it.
THEOREM ReadersFind == ~ LateCommits => (Spec => []ReadersFindFiles)
<1> SUFFICES ASSUME ~ LateCommits PROVE Spec => []ReadersFindFiles
  OBVIOUS
<1>1. StoreInv => ReadersFindFiles
  BY InvFinds
<1>2. Spec => []StoreInv
  BY StoreInvariant
<1> QED BY <1>1, <1>2, PTL

-----------------------------------------------------------------------------
(* The kinds of steps, and the table they make.                            *)

\* What a step may do to what others see: commit a transaction, install a
\* descriptor, give a reader its page or take it away, or none of these.
CurrentKept == \A d \in Datasets : \A f \in cat[d].refs : file'[f] = file[f]
Commits(w)  == Due(w) /\ Takes(w) /\ UNCHANGED rd
Silent      == UNCHANGED <<cat, rd>> /\ CurrentKept
PagesKept   == \A r \in Readers : rd'[r].page = rd[r].page
Reader      == /\ UNCHANGED <<cat, file>>
               /\ PagesKept \/ \E r \in Readers : Ends(r, <<>>) \/ Return(r)

LEMMA UpdateKinds ==
  ASSUME StoreInv, Update
  PROVE  Silent \/ \E w \in Writers : Commits(w)
<1>1. PICK w \in Writers :
        \/ Plan(w) \/ PlanProblem(w) \/ Replay(w) \/ Prepare(w) \/ Promote(w) \/ LockCommit(w)
        \/ Commit(w) \/ CommitLost(w) \/ Land(w) \/ Drop(w) \/ Confirm(w) \/ Fail(w) \/ Crash(w)
  BY DEF Update
<1>2. CASE Commit(w)
  BY <1>2, CommitIsDue DEF Commits, Commit
<1>3. CASE Land(w)
  BY <1>3, LandIsDue DEF Commits, Land
<1>4. CASE Prepare(w)
  <2> DEFINE f == Lowest(Unused)
  <2>1. Unused # {} /\ Unused \subseteq Nat
    BY <1>4, StoreBounds DEF Prepare, Unused, Files
  <2>2. f \in Unused
    BY <2>1, LowestIs
  <2>3. \A d \in Datasets : f \notin cat[d].refs /\ cat[d].refs \in SUBSET Files
    BY <2>2 DEF Unused, StoreInv, Types, CatSet
  <2>4. UNCHANGED <<cat, rd>> /\ file \in [Files -> FileSet] /\ \E x : file' = [file EXCEPT ![f] = x]
    BY <1>4 DEF Prepare, StoreInv, Types
  <2> HIDE DEF f
  <2>5. CurrentKept
    BY <2>3, <2>4 DEF CurrentKept
  <2> QED BY <2>4, <2>5 DEF Silent
<1>5. CASE \/ Plan(w) \/ PlanProblem(w) \/ Replay(w) \/ LockCommit(w) \/ CommitLost(w)
           \/ Drop(w) \/ Confirm(w) \/ Fail(w) \/ Crash(w)
  <2>1. UNCHANGED <<Files0, rd>>
    BY <1>5 DEF Plan, PlanProblem, Replay, LockCommit, CommitLost, Drop, Confirm, Fail, Crash
  <2> QED BY <2>1 DEF Silent, CurrentKept, Files0
<1>6. CASE Promote(w)
  BY <1>6 DEF Promote, Silent, CurrentKept
<1> QED BY <1>1, <1>2, <1>3, <1>4, <1>5, <1>6

LEMMA CleanupKinds ==
  ASSUME StoreInv, Cleanup
  PROVE  Silent
<1>1. PICK w \in Writers :
        \/ \E d \in Datasets : Sweep(w, d)
        \/ \E f \in Files : SweepDelete(w, f)
        \/ SweepForget(w) \/ SweepEnd(w)
  BY DEF Cleanup
<1>2. CASE SweepForget(w)
  <2> DEFINE f == op[w].cur
  <2>1. op[w].at = "sweep" /\ f # 0 /\ UNCHANGED <<cat, rd>> /\ file' = [file EXCEPT ![f] = NoFile]
    BY <1>2 DEF SweepForget
  <2>2. f \notin disk /\ file \in [Files -> FileSet]
    BY <2>1, WriterFacts DEF Swept
  <2>3. \A d \in Datasets : f \notin cat[d].refs /\ cat[d].refs \in SUBSET Files
    BY <2>2 DEF StoreInv, Types, CatSet, Store
  <2>4. CurrentKept
    BY <2>1, <2>2, <2>3 DEF CurrentKept
  <2> QED BY <2>1, <2>4 DEF Silent
<1>3. CASE (\E d \in Datasets : Sweep(w, d)) \/ (\E f \in Files : SweepDelete(w, f)) \/ SweepEnd(w)
  BY <1>3 DEF Sweep, SweepDelete, SweepEnd, Files0, Silent, CurrentKept
<1> QED BY <1>1, <1>2, <1>3

LEMMA ReadingKinds ==
  ASSUME StoreInv, Reading
  PROVE  Reader
<1>1. PICK r \in Readers :
        \/ \E want \in Reads : AskRead(r, want)
        \/ AskNext(r) \/ Leave(r) \/ LockRead(r) \/ Look(r) \/ List(r) \/ Open(r) \/ Return(r) \/ FailRead(r)
  BY DEF Reading
<1>2. rd \in [Readers -> ReadSet]
  BY DEF StoreInv, Types
<1>3. UNCHANGED <<cat, file>>
  BY <1>1 DEF AskRead, AskNext, Leave, LockRead, Look, List, Open, Return, FailRead, Files0
<1>4. CASE Leave(r) \/ FailRead(r) \/ Return(r)
  BY <1>3, <1>4 DEF Leave, FailRead, Reader
<1>5. CASE (\E want \in Reads : AskRead(r, want)) \/ AskNext(r) \/ LockRead(r) \/ Look(r) \/ Open(r)
  BY <1>2, <1>3, <1>5 DEF AskRead, AskNext, LockRead, Look, Open, Reader, PagesKept, ReadSet
<1>6. CASE List(r)
  <2> DEFINE d == Lowest(rd[r].want \ DOMAIN rd[r].opened)
  <2>1. Ends(r, <<>>) \/ rd' = [rd EXCEPT ![r].at = "listed", ![r].refs = cat[d].refs]
    BY <1>6 DEF List
  <2> QED BY <1>2, <1>3, <2>1 DEF Reader, PagesKept, ReadSet
<1> QED BY <1>1, <1>4, <1>5, <1>6

\* Every step is of one of these kinds.
LEMMA StepKinds ==
  ASSUME StoreInv, [Next]_vars
  PROVE  \/ Silent \/ Reader
         \/ \E w \in Writers : Commits(w)
         \/ \E d \in Datasets : Register(d)
<1>1. CASE Request
  BY <1>1 DEF Request, Ask, Files0, Silent, CurrentKept
<1>2. CASE Define
  BY <1>2 DEF Define
<1>3. CASE UNCHANGED vars
  BY <1>3 DEF vars, Silent, CurrentKept
<1> QED BY <1>1, <1>2, <1>3, UpdateKinds, CleanupKinds, ReadingKinds DEF Next

\* A commit replaces what its caller has read: nobody has changed the scope
\* since, and for a partition nobody has changed the dataset.  A report of
\* problems and a late COMMIT together may break this.
THEOREM NothingIsOverwritten == ~ LateCommits \/ Verdicts = {} => (Spec => NothingOverwritten)
<1> SUFFICES ASSUME ~ LateCommits \/ Verdicts = {} PROVE Spec => NothingOverwritten
  OBVIOUS
<1> DEFINE Kept ==
      \A d \in Datasets :
        cat'[d].last # cat[d].last =>
          LET w == cat'[d].last[1] IN
          op[w].gen \in {-1, cat[d].gen} /\ op[w].rev = cat[d].scope[op[w].s].rev
<1>1. ASSUME StoreInv, [Next]_vars PROVE Kept
  <2>1. CASE Silent \/ Reader
    BY <2>1 DEF Silent, Reader
  <2>2. ASSUME NEW e \in Datasets, Register(e) PROVE Kept
    <3>1. cat \in [Datasets -> CatSet]
      BY <1>1 DEF StoreInv, Types
    <3> QED BY <2>2, <3>1 DEF Register, CatSet
  <2>3. ASSUME NEW w \in Writers, Commits(w) PROVE Kept
    <3>1. Due(w) /\ Takes(w) /\ UNCHANGED rd
      BY <2>3 DEF Commits
    <3>2. /\ \A e \in Datasets : e # op[w].d => cat'[e] = cat[e]
          /\ cat'[op[w].d].last = <<w, op[w].id>>
      BY <1>1, <3>1, TakesKeeps
    <3>3. Working(op[w]) /\ Checked(op[w]) /\ Staged(op[w], cat[op[w].d], garbage, file, disk)
      BY <3>1, <1>1, DueIs, WriterFacts
    <3>a. Firm(op[w]) \/ ~ LateCommits
      BY <3>3 DEF Staged, Firm
    <3>4. op[w].gen \in {-1, cat[op[w].d].gen} /\ op[w].rev = cat[op[w].d].scope[op[w].s].rev
      BY <3>3, <3>a DEF Staged
    <3>5. <<w, op[w].id>>[1] = w
      OBVIOUS
    <3> QED BY <3>2, <3>3, <3>4, <3>5
  <2> QED BY <1>1, <2>1, <2>2, <2>3, StepKinds
<1>2. Spec => []StoreInv
  BY StoreInvariant
<1> QED BY <1>1, <1>2, PTL DEF Spec, NothingOverwritten

\* A cursor gives the rows it gave before, or ends.
THEOREM CursorsStable == ~ LateCommits => (Spec => CursorStable)
<1> SUFFICES ASSUME ~ LateCommits PROVE Spec => CursorStable
  OBVIOUS
<1> DEFINE Stable == \A r \in Readers : rd[r].next => rd'[r].page \in {rd[r].page, <<>>}
<1>1. ASSUME StoreInv, [Next]_vars PROVE Stable
  <2>1. rd \in [Readers -> ReadSet]
    BY <1>1 DEF StoreInv, Types
  <2>2. CASE UNCHANGED rd \/ PagesKept
    BY <2>2 DEF PagesKept
  <2>3. ASSUME NEW r \in Readers, Ends(r, <<>>) PROVE Stable
    <3>1. [NoRead EXCEPT !.page = <<>>].page = <<>>
      BY DEF NoRead
    <3> QED BY <2>1, <2>3, <3>1 DEF Ends
  <2>4. ASSUME NEW r \in Readers, Return(r) PROVE Stable
    <3> DEFINE page == [d \in rd[r].want |-> [gen |-> cat[d].gen, rows |-> Join(file, cat[d].refs)]]
    <3>1. Ends(r, page) /\ (rd[r].next => rd[r].page = page)
      <4>1. Ends(r, [d \in rd[r].want |-> [gen |-> rd[r].gens[d], rows |-> rd[r].opened[d]]])
        BY <2>4 DEF Return
      <4>2. /\ [d \in rd[r].want |-> [gen |-> rd[r].gens[d], rows |-> rd[r].opened[d]]] = page
            /\ rd[r].next => rd[r].page = page
        BY <1>1, <2>4, Returned
      <4> QED BY <4>1, <4>2
    <3>2. [NoRead EXCEPT !.page = page].page = page
      BY DEF NoRead
    <3> HIDE DEF page
    <3> QED BY <2>1, <3>1, <3>2 DEF Ends
  <2> QED BY <1>1, <2>2, <2>3, <2>4, StepKinds DEF Silent, Reader, Commits, Register
<1>2. Spec => []StoreInv
  BY StoreInvariant
<1> QED BY <1>1, <1>2, PTL DEF Spec, CursorStable

-----------------------------------------------------------------------------
(* An update that leaves all files as they are.                            *)

\* An update that is under way without a file of its own and that reports no
\* problem: its input is in the rows already.
Idle(o) == Working(o) /\ Bare(o) /\ ~ o.bad
Steady(F, refs, o) ==
  Merged(Join(F, Met(F, refs, o.s)), o.s, o.n) = Join(F, Met(F, refs, o.s))
NothingNew == \A w \in Writers : Idle(op[w]) => Steady(file, cat[op[w].d].refs, op[w])

\* Nobody changes the files of the dataset meanwhile.
LEMMA FilesStay ==
  ASSUME StoreInv, [Next]_vars, NEW w \in Writers, Idle(op[w])
  PROVE  /\ cat'[op[w].d].refs = cat[op[w].d].refs
         /\ \A f \in cat[op[w].d].refs : file'[f] = file[f]
<1>1. cat \in [Datasets -> CatSet] /\ op[w].d \in Datasets
  BY WriterFacts DEF StoreInv, Types
<1>2. CASE Silent \/ Reader
  BY <1>1, <1>2 DEF Silent, Reader, CurrentKept
<1>3. CASE \E d \in Datasets : Register(d)
  BY <1>1, <1>3 DEF Register, CatSet
<1>4. ASSUME NEW v \in Writers, Commits(v)
      PROVE  cat'[op[w].d].refs = cat[op[w].d].refs /\ UNCHANGED file
  <2>1. Due(v) /\ Takes(v) /\ UNCHANGED <<rd, file>>
    BY <1>4 DEF Commits, Takes
  <2>2. /\ \A e \in Datasets : e # op[v].d => cat'[e] = cat[e]
        /\ cat'[op[v].d].refs = (cat[op[v].d].refs \ op[v].old) \cup op[v].new
    BY <2>1, TakesKeeps
  <2>3. CASE v = w
    BY <2>1, <2>2, <2>3 DEF Idle, Bare
  <2>4. CASE v # w
    <3>1. Firm(op[w])
      BY DEF Idle, Firm
    <3>2. CASE op[v].tx = "open"
      <4>1. op[v].d # op[w].d
        BY <2>4, <3>1, <3>2 DEF StoreInv, RowHeld, OpenApart
      <4> QED BY <1>1, <2>1, <2>2, <4>1
    <3>3. CASE op[v].tx # "open"
      <4>1. op[v].at = "locked"
        BY <2>1, <3>3 DEF Due
      <4>2. op[w].tx # "open"
        BY <2>1, <2>4 DEF Due
      <4>3. Holder(op[v]) /\ Holder(op[w])
        BY <4>1, <4>2 DEF Idle, Working, Holder
      <4>4. op[v].d # op[w].d
        BY <2>4, <4>3 DEF StoreInv, LocksHeld
      <4> QED BY <1>1, <2>1, <2>2, <4>4
    <3> QED BY <3>2, <3>3
  <2> QED BY <2>3, <2>4
<1> QED BY <1>2, <1>3, <1>4, StepKinds

\* As long as they stay, the input stays in them.
LEMMA SteadyStays ==
  ASSUME NEW F, NEW G, NEW refs, NEW o, NEW p, p.s = o.s, p.n = o.n,
         Apart(F, refs), \A f \in refs : G[f] = F[f], Steady(F, refs, o)
  PROVE  Steady(G, refs, p)
<1> DEFINE S == Met(F, refs, o.s)
<1>1. Met(G, refs, o.s) = S /\ S \subseteq refs
  BY DEF Met
<1>2. Apart(F, S) /\ \A f \in S : G[f] = F[f]
  BY <1>1 DEF Apart
<1>3. Join(G, S) = Join(F, S)
  BY ONLY <1>2, JoinSame
<1> QED BY <1>1, <1>3 DEF Steady

\* It is planned only when the merge gives what is there.
LEMMA IdleBegins ==
  ASSUME StoreInv, [Next]_vars, NEW w \in Writers, Idle(op'[w])
  PROVE  \/ Idle(op[w]) /\ op'[w].d = op[w].d /\ op'[w].s = op[w].s /\ op'[w].n = op[w].n
         \/ /\ op'[w].d = op[w].d /\ UNCHANGED <<cat, file>>
            /\ Steady(file, cat[op[w].d].refs, op'[w])
<1> DEFINE Same == Idle(op[w]) /\ op'[w].d = op[w].d /\ op'[w].s = op[w].s /\ op'[w].n = op[w].n
<1>1. op \in [Writers -> OpSet] /\ op[w] \in OpSet
  BY DEF StoreInv, Types
<1>2. CASE op'[w] = op[w]
  BY <1>2
<1>3. ASSUME NEW v \in Writers, NEW d \in Datasets, NEW s \in Scopes, NEW n, NEW bad, Ask(v, d, s, n, bad) PROVE Same
  BY <1>1, <1>3 DEF Ask, Idle, Working, NoOp
<1>4. ASSUME NEW v \in Writers, v # w,
             \/ Plan(v) \/ PlanProblem(v) \/ Replay(v) \/ Prepare(v) \/ Promote(v) \/ LockCommit(v)
             \/ Commit(v) \/ CommitLost(v) \/ Land(v) \/ Drop(v) \/ Confirm(v) \/ Fail(v) \/ Crash(v)
             \/ (\E d \in Datasets : Sweep(v, d)) \/ (\E f \in Files : SweepDelete(v, f))
             \/ SweepForget(v) \/ SweepEnd(v)
      PROVE  op'[w] = op[w]
  BY <1>1, <1>4 DEF Plan, PlanProblem, Replay, Prepare, Promote, LockCommit, Commit, CommitLost, Land, Drop,
     Confirm, Fail, Crash, Answer, Sweep, SweepDelete, SweepForget, SweepEnd
<1>5. CASE PlanProblem(w) \/ Replay(w) \/ Prepare(w) \/ Promote(w) \/ Commit(w)
  <2>1. ~ PlanProblem(w)
    <3>1. PlanProblem(w) => op'[w].bad
      BY <1>1 DEF PlanProblem, OpSet
    <3> QED BY <3>1 DEF Idle
  <2>2. ~ Replay(w)
    <3>1. Replay(w) => op'[w].at = "tidy" /\ op'[w].tx = "none"
      BY <1>1 DEF Replay, NoOp
    <3> QED BY <3>1 DEF Idle, Working
  <2>3. ~ Prepare(w)
    <3>1. Prepare(w) => op'[w].todo # {}
      BY <1>1 DEF Prepare, OpSet
    <3> QED BY <3>1 DEF Idle, Bare
  <2>4. ~ Promote(w)
    <3>1. Promote(w) => op[w].cur \in op'[w].new
      BY <1>1 DEF Promote, OpSet
    <3> QED BY <3>1 DEF Idle, Bare
  <2>5. ~ Commit(w)
    <3>1. Commit(w) => op'[w].at = "tidy" /\ op'[w].tx = "done"
      BY <1>1 DEF Commit, NoOp
    <3> QED BY <3>1 DEF Idle, Working
  <2> QED BY <1>5, <2>1, <2>2, <2>3, <2>4, <2>5
<1>6. CASE LockCommit(w) \/ CommitLost(w)
  BY <1>1, <1>6 DEF LockCommit, CommitLost, MayCommit, Idle, Working, Bare, OpSet
<1>7. CASE Land(w) \/ Drop(w)
  BY <1>1, <1>7, OpenIs DEF Land, Drop, Idle, Working, Bare, NoOp, OpSet
<1>8. CASE Confirm(w) \/ Fail(w) \/ Crash(w) \/ SweepEnd(w)
  <2>1. ASSUME NEW answer, Answer(w, answer) PROVE Same
    <3>1. op[w].tx = "open"
      <4>1. op[w].tx # "open" => op'[w] = NoOp
        BY <1>1, <2>1 DEF Answer
      <4>2. ~ Working(NoOp)
        BY DEF NoOp, Working
      <4> QED BY <4>1, <4>2 DEF Idle
    <3>2. op' = [op EXCEPT ![w] = [op[w] EXCEPT !.at = "idle", !.answer = answer]]
      BY <2>1, <3>1 DEF Answer
    <3>3. /\ op'[w].d = op[w].d /\ op'[w].s = op[w].s /\ op'[w].n = op[w].n /\ op'[w].bad = op[w].bad
          /\ op'[w].old = op[w].old /\ op'[w].new = op[w].new /\ op'[w].todo = op[w].todo
      BY <1>1, <3>2 DEF OpSet
    <3>4. Working(op[w])
      BY <3>1, OpenIs DEF Working
    <3> QED BY <3>3, <3>4 DEF Idle, Bare
  <2>2. ASSUME op' = [op EXCEPT ![w] = [NoOp EXCEPT !.at = "tidy", !.d = op[w].d, !.tx = op[w].tx, !.answer = "ok"]]
        PROVE  FALSE
    <3>1. op'[w].at = "tidy"
      BY <1>1, <2>2 DEF NoOp
    <3> QED BY <3>1 DEF Idle, Working
  <2> QED BY <1>8, <2>1, <2>2 DEF Confirm, Fail, Crash, SweepEnd
<1>9. CASE (\E d \in Datasets : Sweep(w, d)) \/ (\E f \in Files : SweepDelete(w, f)) \/ SweepForget(w)
  <2>1. ASSUME NEW d \in Datasets, Sweep(w, d) PROVE op'[w].at = "sweep"
    BY <1>1, <2>1 DEF Sweep, NoOp
  <2>2. ASSUME NEW f \in Files, SweepDelete(w, f) PROVE op'[w].at = "sweep"
    BY <1>1, <2>2 DEF SweepDelete, OpSet
  <2>3. SweepForget(w) => op'[w].at = "sweep"
    BY <1>1 DEF SweepForget, OpSet
  <2> QED BY <1>9, <2>1, <2>2, <2>3 DEF Idle, Working
<1>10. CASE Plan(w)
  <2> DEFINE d == op[w].d
             old == FilesOf(cat[d].refs, op[w].s)
             new == Merged(Joined(old), op[w].s, op[w].n)
  <2>1. old = Met(file, cat[d].refs, op[w].s) /\ Joined(old) = Join(file, old)
    BY OfTheseFiles
  <2>2. UNCHANGED <<cat, file>>
    BY <1>10 DEF Plan, Files0
  <2>3. CASE new = Joined(old)
    <3>1. op'[w].d = d /\ op'[w].s = op[w].s /\ op'[w].n = op[w].n
      BY <1>1, <1>10, <2>3 DEF Plan, OpSet
    <3>2. Steady(file, cat[d].refs, op'[w])
      BY <2>1, <2>3, <3>1 DEF Steady
    <3> QED BY <2>2, <3>1, <3>2
  <2>4. ASSUME NEW pieces \in Pieces(new), new # Joined(old),
               op' = [op EXCEPT ![w].at = "planned", ![w].base = cat[d].gen, ![w].old = old, ![w].todo = pieces]
        PROVE  FALSE
    <3>1. op'[w].old = old /\ op'[w].todo = pieces
      BY <1>1, <2>4 DEF OpSet
    <3>2. old = {} /\ pieces = {}
      BY <3>1 DEF Idle, Bare
    <3>3. old \in SUBSET Files /\ new \in RowSet
      <4>1. op[w].s \in Scopes /\ op[w].n \in Inputs /\ file \in [Files -> FileSet]
        BY <1>10, WriterFacts, StoreShape DEF Plan, Staged
      <4>2. Joined(old) \in RowSet
        BY <2>1, <3>2, <4>1, JoinTypes
      <4> QED BY <3>2, <4>1, <4>2, MergedTypes
    <3>4. \A k \in Keys : new[k] = 0
      <4>1. Covers(file, new, {}, pieces)
        BY <2>4, <3>3, PiecesCover
      <4> QED BY <3>2, <4>1 DEF Covers
    <3>5. new = Joined(old)
      BY <3>2, <3>3, <3>4 DEF Joined, RowSet
    <3> QED BY <2>4, <3>5
  <2> QED BY <1>10, <2>3, <2>4 DEF Plan
<1>11. CASE UNCHANGED vars \/ Reading \/ Define
  <2>1. UNCHANGED op
    BY <1>11 DEF vars, Reading, Define, Register, AskRead, AskNext, Leave, LockRead, Look, List, Open, Return,
       FailRead, Ends
  <2> QED BY <1>2, <2>1
<1>12. CASE Request
  BY <1>3, <1>12 DEF Request
<1>13. CASE Update
  BY <1>2, <1>4, <1>5, <1>6, <1>7, <1>8, <1>10, <1>13 DEF Update
<1>14. CASE Cleanup
  BY <1>2, <1>4, <1>8, <1>9, <1>14 DEF Cleanup
<1> QED BY <1>11, <1>12, <1>13, <1>14 DEF Next

LEMMA NothingNewKeeps ==
  ASSUME StoreInv, NothingNew, [Next]_vars
  PROVE  NothingNew'
<1> SUFFICES ASSUME NEW w \in Writers, Idle(op'[w])
             PROVE  Steady(file', cat'[op'[w].d].refs, op'[w])
  BY DEF NothingNew
<1>1. CASE Idle(op[w]) /\ op'[w].d = op[w].d /\ op'[w].s = op[w].s /\ op'[w].n = op[w].n
  <2> DEFINE refs == cat[op[w].d].refs
  <2>1. cat'[op'[w].d].refs = refs /\ \A f \in refs : file'[f] = file[f]
    BY <1>1, FilesStay
  <2>2. Apart(file, refs) /\ Steady(file, refs, op[w])
    BY <1>1, WriterFacts DEF StoreInv, Store, NothingNew
  <2> HIDE DEF refs
  <2>3. Steady(file', refs, op'[w])
    BY <1>1, <2>1, <2>2, SteadyStays
  <2> QED BY <2>1, <2>3
<1> QED BY <1>1, IdleBegins

\* Its input is in the rows of the dataset.
LEMMA SteadyRows ==
  ASSUME NEW F, NEW refs, NEW o, Apart(F, refs), Steady(F, refs, o), o.s \in Scopes
  PROVE  Merged(Join(F, refs), o.s, o.n) = Join(F, refs)
<1> DEFINE S == Met(F, refs, o.s)
           R == Join(F, refs)
           J == Join(F, S)
<1>1. Apart(F, S) /\ S \subseteq refs /\ Span[o.s] \subseteq Keys /\ Keys \subseteq Nat
  BY StoreShape DEF Met, Apart
<1>2. ASSUME NEW k \in Span[o.s] PROVE J[k] = R[k]
  <2>1. ASSUME NEW f \in refs, F[f].rows[k] # 0 PROVE f \in S
    <3>1. k \in KeysOf(F[f].rows) /\ k \in Nat
      BY <1>1, <1>2, <2>1 DEF KeysOf
    <3>2. k <= k
      BY <3>1
    <3>3. Meets(F[f].rows, o.s)
      BY <1>2, <3>1, <3>2 DEF Meets
    <3> QED BY <3>3 DEF Met
  <2>2. CASE R[k] # 0
    <3>1. PICK f \in refs : F[f].rows[k] = R[k]
      BY <1>1, <1>2, <2>2, JoinAt
    <3> QED BY <1>1, <1>2, <2>1, <2>2, <3>1, JoinAt
  <2>3. CASE R[k] = 0
    <3>1. ASSUME J[k] # 0 PROVE FALSE
      <4>1. PICK f \in S : F[f].rows[k] = J[k]
        BY <1>1, <1>2, <3>1, JoinAt
      <4> QED BY <1>1, <1>2, <2>3, <3>1, <4>1, JoinAt
    <3> QED BY <2>3, <3>1
  <2> QED BY <2>2, <2>3
<1>3. \A k \in Keys : Merged(J, o.s, o.n)[k] = J[k]
  BY DEF Steady
<1>4. ASSUME NEW k \in Keys PROVE Merged(R, o.s, o.n)[k] = R[k]
  BY <1>2, <1>3, <1>4 DEF Merged
<1>5. R = [k \in Keys |-> R[k]]
  BY DEF Join
<1> QED BY <1>4, <1>5 DEF Merged

-----------------------------------------------------------------------------
(* The store implements the table.                                         *)

Pages == [r \in Readers |-> rd[r].page]
RowOf(F, c) == [rows |-> Join(F, c.refs), gen |-> c.gen, issue |-> c.issue]

\* The table's row of a dataset, by its current files.
LEMMA TableIs == Table = [d \in Datasets |-> RowOf(file, cat[d])]
BY OfTheseFiles DEF Table, RowOf

LEMMA TableNext == Table' = [d \in Datasets |-> RowOf(file', cat'[d])]
<1>1. \A S : Joined(S)' = Join(file', S)
  BY DEF Joined, Join
<1> QED BY DEF Table, RowOf, Joined, Join

\* What the writer merges is what the table's promise is about.
LEMMA MergedIsAfter == \A rows, s, n : Merged(rows, s, n) = Simple!After(rows, s, n)
BY DEF Merged, Simple!After

\* As long as catalog and current files stay, so does the table.
LEMMA SilentMaps ==
  ASSUME StoreInv, UNCHANGED cat, CurrentKept
  PROVE  Table' = Table
<1>1. \A d \in Datasets : Join(file', cat[d].refs) = Join(file, cat[d].refs)
  <2>1. \A S : Apart(file, S) /\ (\A f \in S : file'[f] = file[f]) => Join(file', S) = Join(file, S)
    BY ONLY JoinSame
  <2>2. \A d \in Datasets : Apart(file, cat[d].refs) /\ \A f \in cat[d].refs : file'[f] = file[f]
    BY DEF StoreInv, Store, CurrentKept
  <2> QED BY <2>1, <2>2
<1> QED BY <1>1, TableIs, TableNext DEF RowOf

LEMMA CommitMaps ==
  ASSUME StoreInv, NothingNew, NEW w \in Writers, Commits(w)
  PROVE  Simple!Next
<1> DEFINE d == op[w].d
           s == op[w].s
           n == op[w].n
           c == cat[d]
           R == Join(file, c.refs)
           new == Join(file, cat'[d].refs)
           i == Verdict(w)
<1>1. Due(w) /\ Takes(w) /\ UNCHANGED rd /\ UNCHANGED file
  BY DEF Commits, Takes
<1>2. /\ \A e \in Datasets : e # d => cat'[e] = cat[e]
      /\ cat'[d].gen = c.gen + 1 /\ cat'[d].issue = [c.issue EXCEPT ![s] = i]
      /\ \/ Bare(op[w]) /\ cat'[d].refs = c.refs
         \/ new = Merged(R, s, n)
  BY <1>1, TakesKeeps
<1>3. d \in Datasets /\ s \in Scopes /\ op[w] \in OpSet
  BY WriterFacts
<1>4. n \in Feeds[<<d, s>>]
  BY <1>1, DueIs, WriterFacts DEF Staged
<1>5. /\ i \in {0, n, c.issue[s]} /\ new \in {R, Simple!After(R, s, n)}
      /\ new = Simple!After(R, s, n) \/ i = n
  <2>1. i \in {0, n, c.issue[s]} /\ (op[w].bad => i = n)
    BY DEF Verdict
  <2>2. ASSUME Bare(op[w]), cat'[d].refs = c.refs, ~ op[w].bad PROVE new = Merged(R, s, n)
    <3>1. Idle(op[w])
      BY <1>1, <2>2, DueIs DEF Idle
    <3>2. Apart(file, c.refs) /\ Steady(file, c.refs, op[w])
      BY <1>3, <3>1 DEF StoreInv, Store, NothingNew
    <3> QED BY <1>3, <2>2, <3>2, SteadyRows
  <2> QED BY <1>2, <2>1, <2>2, MergedIsAfter
<1>6. c.gen < MaxVersions
  BY <1>1 DEF Due
<1>7. Pages' = Pages
  BY <1>1 DEF Pages
<1> HIDE DEF d, s, n, c, R, new, i
<1>8. \A e \in Datasets : e # d => RowOf(file', cat'[e]) = RowOf(file, cat[e])
  BY <1>1, <1>2
<1>9. RowOf(file', cat'[d]) = [rows |-> new, gen |-> c.gen + 1, issue |-> [c.issue EXCEPT ![s] = i]]
  BY <1>1, <1>2 DEF RowOf, new
<1>10. Table[d].rows = R /\ Table[d].gen = c.gen /\ Table[d].issue = c.issue
  BY <1>3, TableIs DEF RowOf, c, R
<1>11. Table' = [Table EXCEPT ![d].rows = new, ![d].gen = @ + 1, ![d].issue[s] = i]
  BY <1>3, <1>8, <1>9, <1>10, TableIs, TableNext DEF RowOf
<1>12. Simple!Apply(d, s, n)
  BY <1>5, <1>6, <1>7, <1>10, <1>11 DEF Simple!Apply, Pages
<1> QED BY <1>3, <1>4, <1>12 DEF Simple!Next

LEMMA RegisterMaps ==
  ASSUME StoreInv, NEW d \in Datasets, Register(d)
  PROVE  Simple!Next
<1>1. cat \in [Datasets -> CatSet]
  BY DEF StoreInv, Types
<1>2. /\ cat[d].gen < MaxVersions /\ UNCHANGED <<file, rd>>
      /\ \A e \in Datasets : e # d => cat'[e] = cat[e]
      /\ cat'[d].gen = cat[d].gen + 1 /\ cat'[d].refs = cat[d].refs /\ cat'[d].issue = cat[d].issue
  BY <1>1 DEF Register, CatSet
<1>3. Table' = [Table EXCEPT ![d].gen = @ + 1]
  BY <1>2, TableIs, TableNext DEF RowOf
<1>4. Table[d].gen = cat[d].gen /\ UNCHANGED Pages
  BY <1>2, TableIs DEF RowOf, Pages
<1>5. Simple!Redefine(d)
  BY <1>2, <1>3, <1>4 DEF Simple!Redefine, Pages
<1> QED BY <1>5 DEF Simple!Next

LEMMA ReaderMaps ==
  ASSUME StoreInv, Reader, ~ LateCommits \/ Readers = {}
  PROVE  Simple!Next \/ UNCHANGED <<Table, Pages>>
<1>1. rd \in [Readers -> ReadSet]
  BY DEF StoreInv, Types
<1>2. Table' = Table
  BY SilentMaps DEF Reader, CurrentKept
<1>3. CASE PagesKept
  BY <1>2, <1>3 DEF PagesKept, Pages
<1>4. ASSUME NEW r \in Readers, NEW page, Ends(r, page) PROVE Pages' = [Pages EXCEPT ![r] = page]
  <2>1. [NoRead EXCEPT !.page = page].page = page
    BY DEF NoRead
  <2> QED BY <1>1, <1>4, <2>1 DEF Ends, Pages
<1>5. ASSUME NEW r \in Readers, Ends(r, <<>>) PROVE Simple!Next
  <2>1. Simple!Forget(r)
    BY <1>2, <1>4, <1>5 DEF Simple!Forget, Pages
  <2> QED BY <2>1 DEF Simple!Next
<1>6. ASSUME NEW r \in Readers, NEW D \in SUBSET Datasets, D = rd[r].want, Return(r) PROVE Simple!Next
  <2> DEFINE page == [d \in D |-> [gen |-> cat[d].gen, rows |-> Join(file, cat[d].refs)]]
  <2>1. Ends(r, page) /\ \A d \in D : Shown(r, cat[d])
    <3>1. Ends(r, [d \in D |-> [gen |-> rd[r].gens[d], rows |-> rd[r].opened[d]]])
      BY <1>6 DEF Return
    <3>2. /\ [d \in D |-> [gen |-> rd[r].gens[d], rows |-> rd[r].opened[d]]] = page
          /\ \A d \in D : Shown(r, cat[d])
      BY <1>6, Returned
    <3> QED BY <3>1, <3>2
  <2>3. Pages' = [Pages EXCEPT ![r] = page]
    BY <1>4, <2>1
  <2>4. \A d \in D : /\ Table[d].gen = cat[d].gen /\ Table[d].issue = cat[d].issue
                     /\ Table[d].rows = Join(file, cat[d].refs)
    BY TableIs DEF RowOf
  <2>5. page = [d \in D |-> [gen |-> Table[d].gen, rows |-> Table[d].rows]]
    BY <2>4
  <2>6. r \in Strict => \A d \in D, s \in Scopes : Table[d].issue[s] = 0
    BY <2>1, <2>4 DEF Shown
  <2>7. Simple!Read(r, D)
    BY <1>2, <2>3, <2>5, <2>6 DEF Simple!Read, Pages
  <2> QED BY <2>7 DEF Simple!Next
<1>7. \A r \in Readers : rd[r].want \in SUBSET Datasets
  BY <1>1 DEF ReadSet
<1> QED BY <1>3, <1>5, <1>6, <1>7 DEF Reader

\* The store, with its files, locks, transactions, crashes and cleanups, is a
\* table that changes by whole inputs over their own ranges, and whose readers
\* see all their datasets at one instant.  A late COMMIT disturbs only the readers.
THEOREM StoreIsTable == ~ LateCommits \/ Readers = {} => (Spec => TableSpec)
<1> SUFFICES ASSUME ~ LateCommits \/ Readers = {} PROVE Spec => TableSpec
  OBVIOUS
<1>1. Init => Simple!Init
  <2> SUFFICES ASSUME Init PROVE Simple!Init
    OBVIOUS
  <2>1. \A d \in Datasets : cat[d].refs = {} /\ cat[d].gen = 0 /\ cat[d].issue = [s \in Scopes |-> 0]
    BY DEF Init
  <2>2. Join(file, {}) = [k \in Keys |-> 0]
    BY DEF Join
  <2>3. Table = [d \in Datasets |-> Simple!Empty]
    BY <2>1, <2>2, TableIs DEF RowOf, Simple!Empty
  <2>4. \A r \in Readers : rd[r].page = <<>>
    BY DEF Init, NoRead
  <2> QED BY <2>3, <2>4 DEF Simple!Init
<1>2. ASSUME StoreInv, NothingNew, [Next]_vars PROVE [Simple!Next]_<<Table, [r \in Readers |-> rd[r].page]>>
  <2>1. CASE Silent
    BY <1>2, <2>1, SilentMaps DEF Silent
  <2> QED BY <1>2, <2>1, CommitMaps, RegisterMaps, ReaderMaps, StepKinds DEF Pages
<1>3. Spec => []StoreInv
  BY StoreInvariant
<1>4. Init => NothingNew
  BY DEF Init, NothingNew, Idle, Working, NoOp
<1>5. StoreInv /\ NothingNew /\ [Next]_vars => NothingNew'
  BY NothingNewKeeps
<1> QED BY <1>1, <1>2, <1>3, <1>4, <1>5, PTL DEF Spec, TableSpec, Simple!Spec
=============================================================================
