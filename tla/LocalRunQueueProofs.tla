------------------------ MODULE LocalRunQueueProofs ------------------------
(***************************************************************************)
(* What the files of the local queue keep, wherever the holder of the lock *)
(* is interrupted, for any number of runs, batches and claims.             *)
(*                                                                         *)
(* An operation is a plan: a sequence of writes of which the first is done *)
(* with the lock taken and the others are pending.  The invariant says     *)
(* what the files keep, that the writes still to come are harmless to it,  *)
(* and that the roster never names a run before its batch does; one lemma  *)
(* for each part shows that doing the first write of a plan keeps it, and  *)
(* one for each operation that it is such a plan.                          *)
(***************************************************************************)
EXTENDS LocalRunQueue, FunctionSums, SequenceTheorems

ActiveRuns == {r \in RunIds : rows[r].status \in Active}

-----------------------------------------------------------------------------
(* The invariant.                                                          *)

Accepts(r, row) == /\ rows[r].status = "absent" /\ r \notin roster
                   /\ row.status = "queued" /\ row.token = 0 /\ row.lease = Past
                   /\ row.result = 0

Takes(r, row) == /\ rows[r].status = "queued" /\ row.status = "starting"
                 /\ Cardinality(ActiveRuns) < Concurrency
                 /\ r \in roster
                 /\ row.result = rows[r].result

Keeps(r, row) == /\ rows[r].status \in Active /\ row.status \in Active
                 /\ row.result = rows[r].result

HandsBack(r, row) == /\ rows[r].status \in Active /\ row.status = "queued"
                     /\ ~ rows[r].cancel /\ row.token = 0 /\ row.lease = Past
                     /\ row.result = rows[r].result

Asks(r, row) == /\ \/ rows[r].status = "queued" /\ row.status = "cancelled"
                   \/ rows[r].status \in Active /\ row.status = rows[r].status
                /\ row.cancel = TRUE
                /\ row.status = "cancelled" => row.lease = Past
                /\ row.result = rows[r].result

Ends(r, row) == /\ rows[r].status \in Active /\ row.status \in Terminal
                /\ rows[r].cancel => row.status = "cancelled"
                /\ row.status = "succeeded" => row.result # 0
                /\ row.lease = Past

\* A write that waits: only insertions and outcomes are not first.
Later(r, row) == /\ row.cancel = rows[r].cancel
                 /\ Accepts(r, row) \/ Ends(r, row)

Lawful(r, row) == \/ Asks(r, row)
                  \/ /\ row.cancel = rows[r].cancel
                     /\ \/ Accepts(r, row) \/ Takes(r, row) \/ Keeps(r, row)
                        \/ HandsBack(r, row) \/ Ends(r, row)

IsSeq(ws) == ws \in Seq({ws[i] : i \in 1..Len(ws)})

\* A write on its own; m ids have been drawn.
Proper(w, m) ==
  /\ w.file \in {"row", "batch", "roster", "result"}
  /\ w.file = "row" => w.run \in RunIds /\ w.run <= m
  /\ w.file = "batch" => \E n \in Nat : DOMAIN w.items = 1..n
  /\ w.file = "roster" => /\ w.new \subseteq RunIds
                          /\ \A r \in w.new : r <= m
                          /\ Cardinality(Listed \cup w.new) <= QueueLimit

Claimed(w) == [run |-> w.run, fence |-> w.row.result]

\* A sequence of writes that harms nothing, wherever it is cut off.
PlanOK(ws, m) ==
  /\ IsSeq(ws)
  /\ \A i \in 1..Len(ws) : Proper(ws[i], m)
  /\ \A i \in 1..Len(ws) : ws[i].file = "row" =>
        IF i = 1 THEN Lawful(ws[i].run, ws[i].row) ELSE Later(ws[i].run, ws[i].row)
  /\ \A i, j \in 1..Len(ws) :
        ws[i].file = "row" /\ ws[j].file = "row" /\ ws[i].run = ws[j].run => i = j
  /\ \A i \in 1..Len(ws) : ws[i].file = "roster" => i = Len(ws)
  /\ \A j \in 1..Len(ws) :
        ws[j].file = "row" /\ ws[j].row.result # 0 =>
           \/ Claimed(ws[j]) \in kept
           \/ \E i \in 1..j-1 : ws[i].file = "result" /\ ws[i].claim = Claimed(ws[j])

Statuses == {"absent", "queued"} \cup Active \cup Terminal

Files ==
  /\ made \in Nat
  /\ rows = [r \in RunIds |-> rows[r]]
  /\ \A r \in RunIds : /\ rows[r].status \in Statuses
                       /\ r > made => rows[r].status = "absent"
                       /\ rows[r].status = "absent" => rows[r].cancel = FALSE
                       /\ rows[r].status \in {"absent", "queued"} => rows[r].token = 0
                       /\ rows[r].status \notin Active => rows[r].lease = Past
                       /\ rows[r].result # 0 => rows[r].status \in Terminal
  /\ batches = [b \in Batches |-> batches[b]]
  /\ \A b \in Batches : \E n \in Nat : DOMAIN batches[b] = 1..n
  /\ roster \subseteq RunIds /\ \A r \in roster : r <= made
  /\ HeldAreListed /\ RosterFits /\ ResultsAreKept

\* The runs that supervisors have seen or may see.
Visible == {r \in RunIds : r \in roster \/ rows[r].fence > 0}

\* The batch names this attempt of its item, or a later one and this has failed.
Listable(r, items) == /\ rows[r].item \in DOMAIN items
                      /\ r <= items[rows[r].item]
                      /\ r # items[rows[r].item] => rows[r].status = "failed"

Advances(b, items) == \A r \in Visible : rows[r].batch = b => Listable(r, items)

ItemsOK(items, m) == /\ \E n \in 0..MaxItems : DOMAIN items = 1..n
                     /\ \A i \in DOMAIN items : items[i] \in 1..m

\* A write of a row inserts a run that nobody sees, or leaves a run its item and
\* its configuration; only what is listed is claimed.
Steady(r, row) ==
  \/ rows[r].status = "absent" /\ r \notin roster /\ row.fence = 0
  \/ /\ row.batch = rows[r].batch /\ row.item = rows[r].item /\ row.config = rows[r].config
     /\ row.fence > 0 => r \in Visible

Typed(w, m) ==
  /\ w.file = "row" => w.row \in Row /\ w.row.status # "absent" /\ Steady(w.run, w.row)
  /\ w.file = "batch" => /\ w.batch \in Batches /\ ItemsOK(w.items, m)
                         /\ Advances(w.batch, w.items)
  /\ w.file = "result" => w.claim \in Claims

\* The item that a run takes, and the items of a batch, once ws are written.
WillTake(ws, r, b, i) ==
  \/ \E k \in 1..Len(ws) : /\ ws[k].file = "row" /\ ws[k].run = r
                           /\ ws[k].row.batch = b /\ ws[k].row.item = i
  \/ /\ rows[r].batch = b /\ rows[r].item = i
     /\ \A k \in 1..Len(ws) : ws[k].file = "row" => ws[k].run # r
WillList(ws, b, items) ==
  \/ \E k \in 1..Len(ws) : ws[k].file = "batch" /\ ws[k].batch = b /\ ws[k].items = items
  \/ items = batches[b] /\ \A k \in 1..Len(ws) : ws[k].file = "batch" => ws[k].batch # b

\* By the time the roster names r, its batch does.
Placed(ws, r) == \E b \in Batches : \E i : \E items :
  WillTake(ws, r, b, i) /\ WillList(ws, b, items) /\ i \in DOMAIN items /\ items[i] = r

Orderly(ws, m) ==
  /\ \A i \in 1..Len(ws) :
        /\ Typed(ws[i], m)
        /\ ws[i].file = "roster" => \A r \in ws[i].new : Placed(ws, r)
  /\ \A i, j \in 1..Len(ws) : ws[i].file = "batch" /\ ws[j].file = "batch" => i = j

\* What a write leaves to be executed, and was not before, fits the budget.
Fitting(w) ==
  w.file = "row" /\ w.row.status \in Active =>
    rows[w.run].status \in Active \/ Fits(ActiveRuns \cup {w.run})

Kinds == /\ made <= MaxRuns
         /\ \A r \in RunIds : rows[r] \in Row /\ (rows[r].status = "absent" => rows[r].fence = 0)
         /\ \A b \in Batches : ItemsOK(batches[b], made)
         /\ kept \subseteq Claims

Attempts == \A r \in Visible : Listable(r, batches[rows[r].batch])

\* The writes that wait make no run executed.
Quiet == \A i \in 1..Len(pending) : pending[i].file = "row" => pending[i].row.status \notin Active

Ranks == Kinds /\ Attempts /\ ReservationsFit
QInv == Files /\ PlanOK(pending, made) /\ Ranks /\ Orderly(pending, made) /\ Quiet

\* The first write of a harmless plan is done and the others are left.
Does(ws) == /\ ws # <<>> /\ PlanOK(ws, made') /\ Orderly(ws, made') /\ Fitting(Head(ws))
            /\ Write(Head(ws)) /\ pending' = Tail(ws)
            /\ made' \in Nat /\ made' >= made /\ made' <= MaxRuns

-----------------------------------------------------------------------------
(* Plans.                                                                  *)

\* A function on 1..n is a sequence of its own values.
LEMMA SeqOfItself ==
  ASSUME NEW S, NEW ws \in Seq(S)
  PROVE  IsSeq(ws)
<1>1. Len(ws) \in Nat /\ ws \in [1..Len(ws) -> S]
  BY LenProperties
<1>2. ws \in [1..Len(ws) -> {ws[i] : i \in 1..Len(ws)}]
  BY <1>1
<1> QED
  BY <1>1, <1>2, SeqDef DEF IsSeq

\* Taking the first write off a plan shifts the others by one.
LEMMA HeadAndTail ==
  ASSUME NEW ws, IsSeq(ws), ws # <<>>
  PROVE  /\ Len(ws) \in Nat \ {0} /\ Len(Tail(ws)) = Len(ws) - 1
         /\ Head(ws) = ws[1]
         /\ IsSeq(Tail(ws))
         /\ \A i \in 1..Len(Tail(ws)) : Tail(ws)[i] = ws[i+1]
<1> DEFINE S == {ws[i] : i \in 1..Len(ws)}
<1>1. ws \in Seq(S)
  BY DEF IsSeq
<1>2. /\ Tail(ws) \in Seq(S) /\ Len(Tail(ws)) = Len(ws) - 1
      /\ \A i \in 1..Len(Tail(ws)) : Tail(ws)[i] = ws[i+1]
  BY <1>1, HeadTailProperties
<1>3. Len(ws) \in Nat \ {0}
  BY <1>1, EmptySeq
<1>4. Head(ws) = ws[1]
  BY <1>1, <1>3
<1>5. IsSeq(Tail(ws))
  BY <1>2, SeqOfItself
<1> QED
  BY <1>2, <1>3, <1>4, <1>5

\* A set of run ids is finite.
LEMMA RunsAreFinite ==
  ASSUME NEW S, S \subseteq RunIds
  PROVE  IsFiniteSet(S) /\ Cardinality(S) \in Nat
<1>1. IsFiniteSet(RunIds)
  BY QueueBounds, FS_Interval DEF RunIds
<1> QED
  BY <1>1, FS_Subset, FS_CardinalityType

\* What the first write does to the rows: nothing, or one lawful replacement.
LEMMA RowOrNot ==
  ASSUME Files, NEW ws, Does(ws)
  PROVE  \/ rows' = rows
         \/ \E r \in RunIds : \E row : /\ r <= made' /\ Lawful(r, row)
                                       /\ rows' = [rows EXCEPT ![r] = row]
<1>1. IsSeq(ws) /\ ws # <<>>
  BY DEF Does, PlanOK
<1>2. Head(ws) = ws[1] /\ Len(ws) \in Nat \ {0}
  BY <1>1, HeadAndTail
<1>3. CASE ws[1].file = "row"
  <2>1. rows' = [rows EXCEPT ![ws[1].run] = ws[1].row]
    BY <1>2, <1>3 DEF Does, Write
  <2>2. /\ ws[1].run \in RunIds /\ ws[1].run <= made'
        /\ Lawful(ws[1].run, ws[1].row)
    <3>1. 1 \in 1..Len(ws)
      BY <1>2
    <3>2. PlanOK(ws, made')
      BY DEF Does
    <3> QED
      BY <1>3, <3>1, <3>2 DEF PlanOK, Proper
  <2> QED
    BY <2>1, <2>2
<1>4. CASE ws[1].file # "row"
  BY <1>2, <1>4 DEF Does, Write
<1> QED
  BY <1>3, <1>4

\* The first write of a plan keeps the files in order.
LEMMA DoesFiles ==
  ASSUME Files, NEW ws, Does(ws)
  PROVE  Files'
<1> DEFINE w == ws[1]
<1>1. IsSeq(ws) /\ ws # <<>> /\ PlanOK(ws, made')
  BY DEF Does, PlanOK
<1>2. Head(ws) = w /\ Len(ws) \in Nat \ {0} /\ 1 \in 1..Len(ws)
  BY <1>1, HeadAndTail
<1>3. Proper(w, made') /\ Write(w) /\ made' \in Nat /\ made' >= made /\ made \in Nat
  BY <1>1, <1>2 DEF Does, PlanOK, Files
<1>4. RunIds \subseteq Nat
  BY QueueBounds DEF RunIds
<1> HIDE DEF w
<1>5. CASE w.file = "row"
  <2> DEFINE r == w.run
             row == w.row
  <2>1. /\ r \in RunIds /\ r <= made' /\ Lawful(r, row)
        /\ rows' = [rows EXCEPT ![r] = row]
        /\ roster' = roster /\ kept' = kept /\ batches' = batches
    BY <1>1, <1>2, <1>3, <1>5 DEF PlanOK, Proper, Write, w
  <2>2. row.result # 0 => [run |-> r, fence |-> row.result] \in kept
    <3>1. ~ \E i \in 1..1-1 : TRUE
      OBVIOUS
    <3> QED
      BY <1>1, <1>2, <1>5, <3>1 DEF PlanOK, Claimed, w
  <2> HIDE DEF r, row
  <2>3. rows' = [q \in RunIds |-> rows'[q]] /\ rows'[r] = row
        /\ \A q \in RunIds \ {r} : rows'[q] = rows[q]
    BY <2>1 DEF Files
  <2>4. /\ row.status \in Statuses /\ row.status # "absent"
        /\ row.status = "queued" => row.token = 0
        /\ row.status \notin Active => row.lease = Past
        /\ row.result # 0 => row.status \in Terminal
        /\ row.status \in Active => r \in roster
    BY <2>1 DEF Lawful, Asks, Accepts, Takes, Keeps, HandsBack, Ends, Files,
                HeldAreListed, Statuses, Active, Terminal
  <2>5. \A q \in RunIds : /\ rows'[q].status \in Statuses
                          /\ q > made' => rows'[q].status = "absent"
                          /\ rows'[q].status = "absent" => rows'[q].cancel = FALSE
                          /\ rows'[q].status \in {"absent", "queued"} => rows'[q].token = 0
                          /\ rows'[q].status \notin Active => rows'[q].lease = Past
                          /\ rows'[q].result # 0 => rows'[q].status \in Terminal
    BY <1>3, <1>4, <2>1, <2>3, <2>4 DEF Files
  <2>6. HeldAreListed'
    BY <2>1, <2>3, <2>4 DEF Files, HeldAreListed
  <2>7. ResultsAreKept'
    BY <2>1, <2>2, <2>3 DEF Files, ResultsAreKept
  <2>8. RosterFits' /\ roster' \subseteq RunIds /\ \A q \in roster' : q <= made'
    BY <1>3, <1>4, <2>1 DEF Files, RosterFits
  <2> QED
    BY <1>3, <2>1, <2>3, <2>5, <2>6, <2>7, <2>8 DEF Files
<1>6. CASE w.file = "batch"
  <2>1. /\ batches' = [batches EXCEPT ![w.batch] = w.items]
        /\ rows' = rows /\ roster' = roster /\ kept' = kept
    BY <1>3, <1>6 DEF Write
  <2>2. \E n \in Nat : DOMAIN w.items = 1..n
    BY <1>3, <1>6 DEF Proper
  <2>3. batches' = [b \in Batches |-> batches'[b]]
    BY <2>1 DEF Files
  <2>4. \A b \in Batches : batches'[b] = batches[b] \/ batches'[b] = w.items
    BY <2>1 DEF Files
  <2>5. \A b \in Batches : \E n \in Nat : DOMAIN batches'[b] = 1..n
    BY <2>2, <2>4 DEF Files
  <2>6. HeldAreListed' /\ RosterFits' /\ ResultsAreKept'
    BY <2>1 DEF Files, HeldAreListed, RosterFits, ResultsAreKept
  <2> QED
    BY <1>3, <1>4, <2>1, <2>3, <2>5, <2>6 DEF Files
<1>7. CASE w.file = "roster"
  <2>1. /\ roster' = Listed \cup w.new
        /\ rows' = rows /\ batches' = batches /\ kept' = kept
    BY <1>3, <1>7 DEF Write
  <2>2. /\ w.new \subseteq RunIds /\ \A r \in w.new : r <= made'
        /\ Cardinality(Listed \cup w.new) <= QueueLimit
    BY <1>3, <1>7 DEF Proper
  <2>3. roster' \subseteq RunIds /\ \A r \in roster' : r <= made'
    BY <1>3, <1>4, <2>1, <2>2 DEF Listed, Files
  <2>4. HeldAreListed'
    BY <2>1 DEF Files, HeldAreListed, Listed, Active, Terminal
  <2>5. RosterFits' /\ ResultsAreKept'
    BY <2>1, <2>2 DEF Files, RosterFits, ResultsAreKept
  <2> QED
    BY <1>3, <1>4, <2>1, <2>3, <2>4, <2>5 DEF Files
<1>8. CASE w.file = "result"
  <2>1. /\ kept \subseteq kept'
        /\ rows' = rows /\ roster' = roster /\ batches' = batches
    BY <1>3, <1>8 DEF Write
  <2>2. HeldAreListed' /\ RosterFits' /\ ResultsAreKept'
    BY <2>1 DEF Files, HeldAreListed, RosterFits, ResultsAreKept
  <2> QED
    BY <1>3, <1>4, <2>1, <2>2 DEF Files
<1> QED
  BY <1>3, <1>5, <1>6, <1>7, <1>8 DEF Proper

\* A write of another file, or of another run, leaves a later write harmless.
LEMMA LaterKept ==
  ASSUME Files, NEW ws, Does(ws),
         NEW j \in 2..Len(ws), ws[j].file = "row"
  PROVE  Later(ws[j].run, ws[j].row)'
<1>1. IsSeq(ws) /\ ws # <<>> /\ PlanOK(ws, made') /\ Write(Head(ws))
  BY DEF Does, PlanOK
<1>2. Head(ws) = ws[1] /\ Len(ws) \in Nat \ {0}
  BY <1>1, HeadAndTail
<1>3. j \in 1..Len(ws) /\ 1 \in 1..Len(ws) /\ j # 1 /\ 1 # Len(ws)
  BY <1>2
<1>4. /\ ws[j].run \in RunIds
      /\ Later(ws[j].run, ws[j].row)
      /\ ws[1].file = "row" => ws[1].run # ws[j].run
      /\ ws[1].file # "roster"
  BY <1>1, <1>3 DEF PlanOK, Proper
<1>5. rows'[ws[j].run] = rows[ws[j].run] /\ roster' = roster
  BY <1>1, <1>2, <1>4 DEF Write, Files
<1>6. ASSUME NEW r, NEW row, rows'[r] = rows[r], roster' = roster, Later(r, row)
      PROVE  Later(r, row)'
  BY <1>6 DEF Later, Accepts, Ends
<1> QED
  BY <1>4, <1>5, <1>6 DEF Later, Accepts, Ends

\* As rows change, what occupies the queue does not grow beyond the roster.
LEMMA ListedShrinks ==
  ASSUME Files, NEW ws, Does(ws), roster' = roster
  PROVE  Listed' \subseteq Listed
<1>1. CASE rows' = rows
  BY <1>1 DEF Listed
<1>2. ASSUME NEW r \in RunIds, NEW row, Lawful(r, row),
             rows' = [rows EXCEPT ![r] = row]
      PROVE  Listed' \subseteq Listed
  <2>1. r \in roster => rows[r].status \notin Terminal
    BY <1>2 DEF Lawful, Asks, Accepts, Takes, Keeps, HandsBack, Ends, Terminal, Active
  <2>2. \A q \in RunIds \ {r} : rows'[q] = rows[q]
    BY <1>2 DEF Files
  <2> QED
    BY <2>1, <2>2 DEF Listed, Files
<1> QED
  BY <1>1, <1>2, RowOrNot

\* What is left of a plan after its first write is again such a plan.
LEMMA DoesPlan ==
  ASSUME Files, NEW ws, Does(ws)
  PROVE  PlanOK(pending, made)'
<1>1. IsSeq(ws) /\ ws # <<>> /\ PlanOK(ws, made') /\ Write(Head(ws)) /\ pending' = Tail(ws)
  BY DEF Does, PlanOK
<1>2. /\ Len(ws) \in Nat \ {0} /\ Len(pending') = Len(ws) - 1
      /\ Head(ws) = ws[1]
      /\ IsSeq(pending')
      /\ \A i \in 1..Len(pending') : pending'[i] = ws[i+1]
  BY <1>1, HeadAndTail
<1>3. /\ 1 \in 1..Len(ws)
      /\ \A i \in 1..Len(pending') : i + 1 \in 1..Len(ws) /\ i + 1 \in 2..Len(ws) /\ i + 1 # 1
  BY <1>2
<1>4. ASSUME NEW i \in 1..Len(pending')
      PROVE  Proper(pending[i], made)'
  <2> DEFINE w == ws[i+1]
  <2>1. Proper(w, made')
    BY <1>1, <1>3 DEF PlanOK
  <2>2. ASSUME w.file = "roster"
        PROVE  Cardinality(Listed' \cup w.new) <= QueueLimit
    <3> HIDE DEF w
    <3>1. ws[1].file # "roster"
      <4>1. 1 \in 1..Len(ws) /\ 1 # Len(ws)
        BY <1>2
      <4> QED
        BY <1>1, <4>1 DEF PlanOK
    <3>2. roster' = roster
      BY <1>1, <1>2, <3>1 DEF Write
    <3>3. Listed' \cup w.new \subseteq Listed \cup w.new
      BY <3>2, ListedShrinks
    <3>4. w.new \subseteq RunIds /\ Cardinality(Listed \cup w.new) <= QueueLimit
      BY <2>1, <2>2 DEF Proper
    <3>5. Listed \cup w.new \subseteq RunIds
      BY <3>4 DEF Listed, Files
    <3> DEFINE A == Listed' \cup w.new
               B == Listed \cup w.new
    <3>6. IsFiniteSet(B) /\ Cardinality(B) \in Nat /\ A \subseteq B
      BY <3>3, <3>5, RunsAreFinite
    <3>7. Cardinality(A) <= Cardinality(B) /\ IsFiniteSet(A) /\ Cardinality(A) \in Nat
      BY <3>6, FS_Subset, FS_CardinalityType
    <3>8. Cardinality(B) <= QueueLimit
      BY <3>4
    <3> HIDE DEF A, B
    <3>9. Cardinality(A) <= QueueLimit
      BY <3>6, <3>7, <3>8, QueuePolicy
    <3> QED
      BY <3>9 DEF A
  <2>3. pending'[i] = w
    BY <1>2
  <2> QED
    BY <2>1, <2>2, <2>3 DEF Proper
<1>5. ASSUME NEW i \in 1..Len(pending'), pending'[i].file = "row"
      PROVE  Later(pending[i].run, pending[i].row)' /\ Lawful(pending[i].run, pending[i].row)'
  <2>1. Later(ws[i+1].run, ws[i+1].row)'
    BY <1>2, <1>3, <1>5, LaterKept
  <2>2. pending'[i] = ws[i+1]
    BY <1>2
  <2>3. Later(pending[i].run, pending[i].row)'
    BY <2>1, <2>2 DEF Later, Accepts, Ends
  <2> QED
    BY <2>3 DEF Lawful, Later
<1>6. \A i, j \in 1..Len(pending') :
         /\ pending'[i].file = "row" /\ pending'[j].file = "row"
         /\ pending'[i].run = pending'[j].run
         => i = j
  <2> SUFFICES ASSUME NEW i \in 1..Len(pending'), NEW j \in 1..Len(pending'),
                      ws[i+1].file = "row", ws[j+1].file = "row",
                      ws[i+1].run = ws[j+1].run
               PROVE  i = j
    BY <1>2
  <2>1. i + 1 = j + 1
    BY <1>1, <1>3 DEF PlanOK
  <2> QED
    BY <1>2, <2>1
<1>7. \A i \in 1..Len(pending') : pending'[i].file = "roster" => i = Len(pending')
  <2> SUFFICES ASSUME NEW i \in 1..Len(pending'), ws[i+1].file = "roster"
               PROVE  i = Len(pending')
    BY <1>2
  <2>1. i + 1 = Len(ws)
    BY <1>1, <1>3 DEF PlanOK
  <2> QED
    BY <1>2, <2>1
<1>8. ASSUME NEW j \in 1..Len(pending'), pending'[j].file = "row", pending'[j].row.result # 0
      PROVE  \/ Claimed(pending'[j]) \in kept'
             \/ \E i \in 1..j-1 : /\ pending'[i].file = "result"
                                  /\ pending'[i].claim = Claimed(pending'[j])
  <2> DEFINE c == Claimed(pending'[j])
  <2>1. pending'[j] = ws[j+1]
    BY <1>2
  <2>2. c \in kept \/ \E i \in 1..(j+1)-1 : ws[i].file = "result" /\ ws[i].claim = c
    BY <1>1, <1>3, <1>8, <2>1 DEF PlanOK
  <2> HIDE DEF c
  <2>3. CASE c \in kept
    BY <1>1, <2>3 DEF Write, c
  <2>4. ASSUME NEW i \in 1..(j+1)-1, ws[i].file = "result", ws[i].claim = c
        PROVE  c \in kept' \/ \E k \in 1..j-1 : /\ pending'[k].file = "result"
                                                 /\ pending'[k].claim = c
    <3>1. CASE i = 1
      BY <1>1, <1>2, <2>4, <3>1 DEF Write
    <3>2. CASE i # 1
      <4>1. i-1 \in 1..j-1 /\ i-1 \in 1..Len(pending') /\ (i-1)+1 = i
        BY <1>2, <3>2
      <4> QED
        BY <1>2, <2>4, <4>1
    <3> QED
      BY <3>1, <3>2
  <2> QED
    BY <2>2, <2>3, <2>4 DEF c
<1> QED
  BY <1>2, <1>4, <1>5, <1>6, <1>7, <1>8 DEF PlanOK, IsSeq, Claimed

-----------------------------------------------------------------------------
(* What may be run at all: the first write of a plan keeps it.             *)

\* What is known of the first write.
LEMMA FirstWrite ==
  ASSUME NEW ws, Does(ws)
  PROVE  /\ Len(ws) \in Nat \ {0} /\ 1 \in 1..Len(ws)
         /\ Write(ws[1]) /\ Proper(ws[1], made') /\ Typed(ws[1], made') /\ Fitting(ws[1])
         /\ ws[1].file = "row" => Lawful(ws[1].run, ws[1].row)
         /\ ws[1].file = "roster" => Len(ws) = 1 /\ \A r \in ws[1].new : Placed(ws, r)
<1>1. IsSeq(ws) /\ ws # <<>> /\ PlanOK(ws, made') /\ Orderly(ws, made')
  BY DEF Does, PlanOK
<1>2. Head(ws) = ws[1] /\ Len(ws) \in Nat \ {0} /\ 1 \in 1..Len(ws)
  BY <1>1, HeadAndTail
<1>3. Write(ws[1]) /\ Fitting(ws[1])
  BY <1>2 DEF Does
<1>4. Proper(ws[1], made') /\ (ws[1].file = "row" => Lawful(ws[1].run, ws[1].row))
      /\ (ws[1].file = "roster" => Len(ws) = 1)
  BY <1>1, <1>2 DEF PlanOK
<1>5. Typed(ws[1], made') /\ (ws[1].file = "roster" => \A r \in ws[1].new : Placed(ws, r))
  BY <1>1, <1>2 DEF Orderly
<1> QED
  BY <1>2, <1>3, <1>4, <1>5

\* The kinds of values in the files.
LEMMA DoesKinds ==
  ASSUME Files, Kinds, NEW ws, Does(ws)
  PROVE  Kinds'
<1>1. made \in Nat /\ made' \in Nat /\ made <= made' /\ made' <= MaxRuns
  BY DEF Does, Files
<1>2. PICK w : Write(w) /\ Proper(w, made') /\ Typed(w, made')
  BY FirstWrite
<1>3. \A r \in RunIds : rows'[r] \in Row /\ (rows'[r].status = "absent" => rows'[r].fence = 0)
  <2>1. CASE w.file = "row"
    <3>1. /\ rows' = [rows EXCEPT ![w.run] = w.row]
          /\ w.row \in Row /\ w.row.status # "absent"
      BY <1>2, <2>1 DEF Write, Typed
    <3>2. \A r \in RunIds : rows'[r] = rows[r] \/ rows'[r] = w.row
      BY <3>1 DEF Files
    <3> QED
      BY <3>1, <3>2 DEF Kinds
  <2>2. CASE w.file # "row"
    BY <1>2, <2>2 DEF Write, Kinds
  <2> QED
    BY <2>1, <2>2
<1>4. ASSUME NEW b \in Batches
      PROVE  ItemsOK(batches'[b], made')
  <2>1. \A items : ItemsOK(items, made) => ItemsOK(items, made')
    BY <1>1 DEF ItemsOK
  <2>2. CASE w.file = "batch"
    <3>1. batches'[b] = batches[b] \/ batches'[b] = w.items
      BY <1>2, <2>2 DEF Write, Files
    <3> QED
      BY <1>2, <2>1, <2>2, <3>1 DEF Typed, Kinds
  <2>3. CASE w.file # "batch"
    BY <1>2, <2>1, <2>3 DEF Write, Kinds
  <2> QED
    BY <2>2, <2>3
<1>5. kept' \subseteq Claims
  BY <1>2 DEF Write, Typed, Kinds
<1> QED
  BY <1>1, <1>3, <1>4, <1>5 DEF Kinds, ItemsOK

\* A write of a row leaves the runs that are seen their items, and hides none
\* that has failed.
LEMMA RowKeepsItems ==
  ASSUME Files, NEW ws, Does(ws), ws[1].file = "row"
  PROVE  /\ batches' = batches /\ roster' = roster /\ kept' = kept
         /\ Visible' \subseteq Visible
         /\ \A r \in Visible' : /\ rows'[r].batch = rows[r].batch
                                /\ rows'[r].item = rows[r].item
                                /\ rows'[r].config = rows[r].config
         /\ \A r \in RunIds : rows[r].status = "failed" => rows'[r].status = "failed"
<1> DEFINE q == ws[1].run
           row == ws[1].row
<1>1. /\ rows' = [rows EXCEPT ![q] = row] /\ q \in RunIds
      /\ batches' = batches /\ roster' = roster /\ kept' = kept
      /\ Steady(q, row) /\ Lawful(q, row)
  BY FirstWrite DEF Write, Proper, Typed
<1> HIDE DEF q, row
<1>2. rows'[q] = row /\ \A r \in RunIds : r # q => rows'[r] = rows[r]
  BY <1>1 DEF Files
<1>3. rows[q].status # "failed"
  BY <1>1 DEF Lawful, Asks, Accepts, Takes, Keeps, HandsBack, Ends, Active
<1>4. q \in Visible' => q \in Visible /\ row.batch = rows[q].batch /\ row.item = rows[q].item
                        /\ row.config = rows[q].config
  <2> SUFFICES ASSUME q \in roster \/ row.fence > 0
               PROVE  q \in Visible /\ row.batch = rows[q].batch /\ row.item = rows[q].item
                      /\ row.config = rows[q].config
    BY <1>1, <1>2 DEF Visible
  <2>1. ~ (q \notin roster /\ row.fence = 0)
    OBVIOUS
  <2> QED
    BY <1>1, <2>1 DEF Steady, Visible
<1> QED
  BY <1>1, <1>2, <1>3, <1>4 DEF Visible

\* Every run that is seen is the attempt its batch names, or an older, failed one.
LEMMA DoesAttempts ==
  ASSUME Files, Kinds, Attempts, NEW ws, Does(ws)
  PROVE  Attempts'
<1> SUFFICES ASSUME NEW r \in Visible'
             PROVE  Listable(r, batches[rows[r].batch])'
  BY DEF Attempts
<1> DEFINE w == ws[1]
<1>1. Write(w) /\ Proper(w, made') /\ Typed(w, made')
  BY FirstWrite
<1>2. r \in RunIds
  BY DEF Visible
<1>3. CASE w.file = "row"
  <2>1. /\ r \in Visible /\ batches' = batches
        /\ rows'[r].batch = rows[r].batch /\ rows'[r].item = rows[r].item
        /\ rows[r].status = "failed" => rows'[r].status = "failed"
    BY <1>2, <1>3, RowKeepsItems
  <2> QED
    BY <2>1 DEF Attempts, Listable
<1> HIDE DEF w
<1>4. CASE w.file = "batch"
  <2>1. /\ rows' = rows /\ roster' = roster
        /\ batches' = [batches EXCEPT ![w.batch] = w.items]
    BY <1>1, <1>4 DEF Write
  <2>2. r \in Visible
    BY <2>1 DEF Visible
  <2>3. rows[r].batch \in Batches
    BY <1>2 DEF Kinds, Row
  <2>4. CASE rows[r].batch = w.batch
    <3>1. batches'[rows[r].batch] = w.items
      BY <2>1, <2>3, <2>4 DEF Files
    <3>2. Listable(r, w.items)
      BY <1>1, <1>4, <2>2, <2>4 DEF Typed, Advances
    <3> QED
      BY <2>1, <3>1, <3>2 DEF Listable
  <2>5. CASE rows[r].batch # w.batch
    <3>1. batches'[rows[r].batch] = batches[rows[r].batch]
      BY <2>1, <2>3, <2>5 DEF Files
    <3> QED
      BY <2>1, <2>2, <3>1 DEF Listable, Attempts
  <2> QED
    BY <2>4, <2>5
<1>5. CASE w.file = "roster"
  <2>1. /\ rows' = rows /\ batches' = batches /\ roster' = Listed \cup w.new
    BY <1>1, <1>5 DEF Write
  <2>2. CASE r \in Visible
    BY <2>1, <2>2 DEF Attempts, Listable
  <2>3. CASE r \notin Visible
    <3>1. r \in w.new
      BY <1>2, <2>1, <2>3 DEF Visible, Listed
    <3>2. Len(ws) = 1 /\ Placed(ws, r)
      BY <1>5, <3>1, FirstWrite DEF w
    <3>3. \A k \in 1..Len(ws) : ws[k].file = "roster"
      BY <1>5, <3>2 DEF w
    <3>0. PICK b \in Batches : \E i : \E items :
             WillTake(ws, r, b, i) /\ WillList(ws, b, items) /\ i \in DOMAIN items /\ items[i] = r
      BY <3>2 DEF Placed
    <3>4. PICK i, items :
             WillTake(ws, r, b, i) /\ WillList(ws, b, items) /\ i \in DOMAIN items /\ items[i] = r
      BY <3>0
    <3>5. rows[r].batch = b /\ rows[r].item = i /\ items = batches[b]
      BY <3>3, <3>4 DEF WillTake, WillList
    <3>6. r <= r
      BY <1>2 DEF RunIds
    <3> QED
      BY <2>1, <3>4, <3>5, <3>6 DEF Listable
  <2> QED
    BY <2>2, <2>3
<1>6. CASE w.file = "result"
  <2>1. rows' = rows /\ batches' = batches /\ roster' = roster
    BY <1>1, <1>6 DEF Write
  <2> QED
    BY <2>1 DEF Attempts, Listable, Visible
<1> QED
  BY <1>1, <1>3, <1>4, <1>5, <1>6 DEF Proper

\* Whether the runs S fit, by the configurations of table.
FitsOf(table, S) ==
  /\ Cardinality(S) <= Concurrency
  /\ \A d \in Resources :
       SumFunction([r \in S |-> Limits[table[r].config][d]]) + Reserve[d] <= Budget[d]

\* Fewer of the rows fit too.
LEMMA FewerFit ==
  ASSUME NEW old, NEW new, NEW S \in SUBSET RunIds, NEW T \in SUBSET S, FitsOf(old, S),
         \A r \in S : old[r].config \in Configs,
         \A r \in T : new[r].config = old[r].config
  PROVE  FitsOf(new, T)
<1>1. IsFiniteSet(S) /\ Cardinality(S) \in Nat /\ Cardinality(T) \in Nat
      /\ Cardinality(T) <= Cardinality(S)
  BY RunsAreFinite, FS_Subset
<1>2. Cardinality(T) <= Concurrency
  BY <1>1, QueuePolicy DEF FitsOf
<1>3. ASSUME NEW d \in Resources
      PROVE  SumFunction([r \in T |-> Limits[new[r].config][d]]) + Reserve[d] <= Budget[d]
  <2> DEFINE g == [r \in S |-> Limits[old[r].config][d]]
             h == [r \in T |-> Limits[new[r].config][d]]
  <2>1. g \in [S -> Nat]
    BY QueuePolicy
  <2>2. h \in [T -> Nat] /\ \A x \in T : h[x] = g[x]
    BY QueuePolicy
  <2>3. DOMAIN g = S /\ DOMAIN h = T
    OBVIOUS
  <2>4. SumFunction(g) + Reserve[d] <= Budget[d]
    BY DEF FitsOf
  <2> HIDE DEF g, h
  <2>5. /\ SumFunctionOnSet(g, S) \in Nat /\ SumFunctionOnSet(h, T) \in Nat
        /\ SumFunctionOnSet(h, T) <= SumFunctionOnSet(g, S)
    BY <1>1, <2>1, <2>2, SumGrows
  <2>6. SumFunction(g) = SumFunctionOnSet(g, S) /\ SumFunction(h) = SumFunctionOnSet(h, T)
    BY <2>3 DEF SumFunction
  <2>7. Reserve[d] \in Nat /\ Budget[d] \in Nat
    BY QueuePolicy
  <2>8. SumFunction(h) + Reserve[d] <= Budget[d]
    BY <2>4, <2>5, <2>6, <2>7
  <2> QED
    BY <2>8 DEF h
<1> QED
  BY <1>2, <1>3 DEF FitsOf

\* If what is executed then was among what fits now, it fits then.
LEMMA StillFits ==
  ASSUME Kinds, NEW S \in SUBSET RunIds, S = {} \/ FitsOf(rows, S), ActiveRuns' \subseteq S,
         \A r \in ActiveRuns' : rows'[r].config = rows[r].config
  PROVE  ReservationsFit'
<1>1. ReservationsFit' <=> ActiveRuns' = {} \/ FitsOf(rows', ActiveRuns')
  BY DEF ReservationsFit, ActiveRuns, Fits, FitsOf
<1>2. CASE S = {}
  BY <1>1, <1>2
<1>3. CASE FitsOf(rows, S)
  <2>1. \A r \in S : rows[r].config \in Configs
    BY DEF Kinds, Row
  <2>2. PICK T, new : T = ActiveRuns' /\ new = rows'
    OBVIOUS
  <2>3. FitsOf(new, T)
    BY <1>3, <2>1, <2>2, FewerFit
  <2> QED
    BY <1>1, <2>2, <2>3
<1> QED
  BY <1>2, <1>3

\* What is executed, and its limits.
LEMMA ReservationsAre ==
  /\ ActiveRuns \subseteq RunIds
  /\ ReservationsFit <=> ActiveRuns = {} \/ FitsOf(rows, ActiveRuns)
BY DEF ReservationsFit, ActiveRuns, Fits, FitsOf

\* What is executed fits the budget: only a claim adds to it.
LEMMA DoesFit ==
  ASSUME Files, Kinds, ReservationsFit, NEW ws, Does(ws)
  PROVE  ReservationsFit'
<1> DEFINE w == ws[1]
           q == w.run
<1>1. /\ Write(w) /\ Proper(w, made') /\ Typed(w, made') /\ Fitting(w)
      /\ w.file = "row" => Lawful(q, w.row)
  BY FirstWrite
<1> HIDE DEF w
<1>2. CASE w.file # "row"
  <2>1. rows' = rows
    BY <1>1, <1>2 DEF Write
  <2>2. ActiveRuns' = ActiveRuns
    BY <2>1 DEF ActiveRuns
  <2> QED
    BY <2>1, <2>2, StillFits, ReservationsAre
<1>3. CASE w.file = "row"
  <2>1. /\ rows' = [rows EXCEPT ![q] = w.row] /\ q \in RunIds
        /\ Steady(q, w.row) /\ Lawful(q, w.row)
    BY <1>1, <1>3 DEF Write, Proper, Typed
  <2> HIDE DEF q
  <2>2. rows'[q] = w.row /\ \A r \in RunIds : r # q => rows'[r] = rows[r]
    BY <2>1 DEF Files
  <2>3. w.row.status \in Active => w.row.config = rows[q].config
    BY <2>1 DEF Steady, Lawful, Asks, Accepts, Takes, Keeps, HandsBack, Ends,
                Active, Terminal
  <2>4. \A r \in ActiveRuns' : rows'[r].config = rows[r].config
    BY <2>2, <2>3 DEF ActiveRuns
  <2>5. CASE w.row.status \in Active /\ rows[q].status \notin Active
    <3>1. Fits(ActiveRuns \cup {q})
      BY <1>1, <1>3, <2>5 DEF Fitting, q
    <3>2. FitsOf(rows, ActiveRuns \cup {q})
      BY <3>1 DEF Fits, FitsOf
    <3>3. ActiveRuns' \subseteq ActiveRuns \cup {q}
      BY <2>2 DEF ActiveRuns
    <3> QED
      BY <2>1, <2>4, <3>2, <3>3, StillFits, ReservationsAre
  <2>6. CASE ~ (w.row.status \in Active /\ rows[q].status \notin Active)
    <3>1. ActiveRuns' \subseteq ActiveRuns
      BY <2>2, <2>6 DEF ActiveRuns
    <3> QED
      BY <2>4, <3>1, StillFits, ReservationsAre
  <2> QED
    BY <2>5, <2>6
<1> QED
  BY <1>2, <1>3

\* A waiting write stays what it is while its run, its batch's runs and the
\* roster do.
LEMMA TypedKept ==
  ASSUME Files, NEW ws, Does(ws), NEW j \in 2..Len(ws)
  PROVE  Typed(ws[j], made)'
<1> DEFINE w == ws[1]
           v == ws[j]
<1>1. IsSeq(ws) /\ ws # <<>> /\ PlanOK(ws, made') /\ Orderly(ws, made')
  BY DEF Does, PlanOK
<1>2. 1 \in 1..Len(ws) /\ Write(w) /\ Typed(w, made') /\ Proper(w, made')
  BY FirstWrite
<1>3. j \in 1..Len(ws) /\ j # 1 /\ 1 # Len(ws)
  <2>1. PICK n \in Nat : n = Len(ws)
    BY FirstWrite
  <2>2. j \in 2..n
    BY <2>1
  <2>3. j \in 1..n /\ j # 1 /\ 1 # n
    BY <2>2
  <2> QED
    BY <2>1, <2>3
<1>4. /\ Typed(v, made') /\ Proper(v, made')
      /\ w.file # "roster"
      /\ w.file = "row" /\ v.file = "row" => w.run # v.run
  BY <1>1, <1>2, <1>3 DEF PlanOK, Orderly
<1> HIDE DEF v
<1>5. ASSUME v.file = "row"
      PROVE  Steady(v.run, v.row)'
  <2>1. rows'[v.run] = rows[v.run] /\ roster' = roster
    <3>1. v.run \in RunIds
      BY <1>4, <1>5 DEF Proper
    <3> QED
      BY <1>2, <1>4, <1>5, <3>1 DEF Write, Files
  <2>2. Steady(v.run, v.row)
    BY <1>4, <1>5 DEF Typed
  <2> QED
    BY <2>1, <2>2 DEF Steady, Visible
<1>6. ASSUME v.file = "batch"
      PROVE  Advances(v.batch, v.items)'
  <2>1. Advances(v.batch, v.items)
    BY <1>4, <1>6 DEF Typed
  <2>2. CASE w.file = "row"
    <3>1. /\ Visible' \subseteq Visible
          /\ \A r \in Visible' : rows'[r].batch = rows[r].batch /\ rows'[r].item = rows[r].item
          /\ \A r \in RunIds : rows[r].status = "failed" => rows'[r].status = "failed"
      BY <2>2, RowKeepsItems
    <3> QED
      BY <2>1, <3>1 DEF Advances, Listable, Visible
  <2>3. CASE w.file # "row"
    <3>1. rows' = rows /\ roster' = roster
      BY <1>2, <1>4, <2>3 DEF Write
    <3> QED
      BY <2>1, <3>1 DEF Advances, Listable, Visible
  <2> QED
    BY <2>2, <2>3
<1>7. Typed(v, made)' <=>
        /\ v.file = "row" => v.row \in Row /\ v.row.status # "absent" /\ Steady(v.run, v.row)'
        /\ v.file = "batch" => /\ v.batch \in Batches /\ ItemsOK(v.items, made')
                               /\ Advances(v.batch, v.items)'
        /\ v.file = "result" => v.claim \in Claims
  BY DEF Typed
<1>8. Typed(v, made)'
  BY <1>4, <1>5, <1>6, <1>7 DEF Typed
<1> QED
  BY <1>8 DEF v

\* What a plan will have written is what its rest will, once the first is done.
LEMMA PlacedKept ==
  ASSUME Files, NEW ws, Does(ws), NEW r \in RunIds, Placed(ws, r), ws[1].file # "roster"
  PROVE  Placed(pending, r)'
<1> DEFINE w == ws[1]
           tl == pending'
<1>0. IsSeq(ws) /\ ws # <<>> /\ PlanOK(ws, made') /\ Orderly(ws, made') /\ tl = Tail(ws)
  BY DEF Does, PlanOK
<1>1. /\ Len(ws) \in Nat \ {0} /\ 1 \in 1..Len(ws) /\ Write(w)
      /\ Proper(w, made') /\ Typed(w, made')
  BY FirstWrite
<1>2. Len(tl) = Len(ws) - 1 /\ \A k \in 1..Len(tl) : tl[k] = ws[k+1]
  BY <1>0, HeadAndTail
<1> HIDE DEF w, tl
<1>3. /\ \A k \in 1..Len(ws) : k # 1 => k-1 \in 1..Len(tl) /\ tl[k-1] = ws[k]
      /\ \A k \in 1..Len(tl) : k+1 \in 1..Len(ws) /\ k+1 # 1 /\ tl[k] = ws[k+1]
  BY <1>1, <1>2
<1>4. PICK b \in Batches : \E i : \E items :
        WillTake(ws, r, b, i) /\ WillList(ws, b, items) /\ i \in DOMAIN items /\ items[i] = r
  BY DEF Placed
<1>5. PICK i, items :
        WillTake(ws, r, b, i) /\ WillList(ws, b, items) /\ i \in DOMAIN items /\ items[i] = r
  BY <1>4
<1>6. WillTake(pending, r, b, i)'
  <2>0. WillTake(pending, r, b, i)' <=>
          \/ \E k \in 1..Len(tl) : /\ tl[k].file = "row" /\ tl[k].run = r
                                   /\ tl[k].row.batch = b /\ tl[k].row.item = i
          \/ /\ rows'[r].batch = b /\ rows'[r].item = i
             /\ \A k \in 1..Len(tl) : tl[k].file = "row" => tl[k].run # r
    BY DEF WillTake, tl
  <2>1. ASSUME NEW k \in 1..Len(ws), ws[k].file = "row", ws[k].run = r,
               ws[k].row.batch = b, ws[k].row.item = i
        PROVE  WillTake(pending, r, b, i)'
    <3>1. CASE k = 1
      <4>1. rows'[r] = ws[1].row
        BY <1>1, <2>1, <3>1 DEF Write, Files, w
      <4>2. \A n \in 1..Len(tl) : tl[n].file = "row" => tl[n].run # r
        BY <1>0, <1>1, <1>3, <2>1, <3>1 DEF PlanOK
      <4> QED
        BY <2>0, <2>1, <3>1, <4>1, <4>2
    <3>2. CASE k # 1
      BY <1>3, <2>0, <2>1, <3>2
    <3> QED
      BY <3>1, <3>2
  <2>2. ASSUME rows[r].batch = b, rows[r].item = i,
               \A k \in 1..Len(ws) : ws[k].file = "row" => ws[k].run # r
        PROVE  WillTake(pending, r, b, i)'
    <3>1. rows'[r] = rows[r]
      BY <1>1, <2>2 DEF Write, Files, w
    <3> QED
      BY <1>3, <2>0, <2>2, <3>1
  <2> QED
    BY <1>5, <2>1, <2>2 DEF WillTake
<1>7. WillList(pending, b, items)'
  <2>0. WillList(pending, b, items)' <=>
          \/ \E k \in 1..Len(tl) : tl[k].file = "batch" /\ tl[k].batch = b /\ tl[k].items = items
          \/ items = batches'[b] /\ \A k \in 1..Len(tl) : tl[k].file = "batch" => tl[k].batch # b
    BY DEF WillList, tl
  <2>1. ASSUME NEW k \in 1..Len(ws), ws[k].file = "batch", ws[k].batch = b, ws[k].items = items
        PROVE  WillList(pending, b, items)'
    <3>1. CASE k = 1
      <4>1. batches'[b] = items
        BY <1>1, <2>1, <3>1 DEF Write, Files, w
      <4>2. \A n \in 1..Len(tl) : tl[n].file = "batch" => tl[n].batch # b
        BY <1>0, <1>1, <1>3, <2>1, <3>1 DEF Orderly
      <4> QED
        BY <2>0, <4>1, <4>2
    <3>2. CASE k # 1
      BY <1>3, <2>0, <2>1, <3>2
    <3> QED
      BY <3>1, <3>2
  <2>2. ASSUME items = batches[b],
               \A k \in 1..Len(ws) : ws[k].file = "batch" => ws[k].batch # b
        PROVE  WillList(pending, b, items)'
    <3>1. batches'[b] = batches[b]
      BY <1>1, <2>2 DEF Write, Files, w
    <3> QED
      BY <1>3, <2>0, <2>2, <3>1
  <2> QED
    BY <1>5, <2>1, <2>2 DEF WillList
<1>8. Placed(pending, r)' <=>
        \E bb \in Batches : \E ii : \E its :
          WillTake(pending, r, bb, ii)' /\ WillList(pending, bb, its)' /\ ii \in DOMAIN its /\ its[ii] = r
  BY DEF Placed
<1> QED
  BY <1>5, <1>6, <1>7, <1>8

\* What is left of a plan is orderly again.
LEMMA DoesOrderly ==
  ASSUME Files, NEW ws, Does(ws)
  PROVE  Orderly(pending, made)'
<1> DEFINE tl == pending'
<1>0. IsSeq(ws) /\ ws # <<>> /\ PlanOK(ws, made') /\ Orderly(ws, made') /\ tl = Tail(ws)
  BY DEF Does, PlanOK
<1>1. Len(ws) \in Nat \ {0} /\ 1 \in 1..Len(ws)
  BY FirstWrite
<1>2. Len(tl) = Len(ws) - 1 /\ \A k \in 1..Len(tl) : tl[k] = ws[k+1]
  BY <1>0, HeadAndTail
<1>3. \A k \in 1..Len(tl) : /\ k+1 \in 1..Len(ws) /\ k+1 \in 2..Len(ws)
                            /\ k \in Nat /\ tl[k] = ws[k+1]
  BY <1>1, <1>2
<1>4. ASSUME NEW k \in 1..Len(tl)
      PROVE  Typed(pending[k], made)'
  <2>1. Typed(ws[k+1], made)'
    BY <1>3, TypedKept
  <2>2. pending'[k] = ws[k+1]
    BY <1>3
  <2> QED
    BY <2>1, <2>2 DEF Typed, Steady, Advances
<1>5. ASSUME NEW k \in 1..Len(tl), tl[k].file = "roster", NEW r \in tl[k].new
      PROVE  Placed(pending, r)'
  <2>1. k+1 \in 1..Len(ws) /\ tl[k] = ws[k+1] /\ 1 # Len(ws)
    BY <1>1, <1>3
  <2>2. ws[1].file # "roster" /\ r \in RunIds /\ Placed(ws, r)
    BY <1>0, <1>1, <1>5, <2>1 DEF PlanOK, Proper, Orderly
  <2> QED
    BY <2>2, PlacedKept
<1>6. \A k, l \in 1..Len(tl) : tl[k].file = "batch" /\ tl[l].file = "batch" => k = l
  <2> SUFFICES ASSUME NEW k \in 1..Len(tl), NEW l \in 1..Len(tl),
                      ws[k+1].file = "batch", ws[l+1].file = "batch"
               PROVE  k = l
    BY <1>3
  <2>1. k+1 = l+1
    BY <1>0, <1>3 DEF Orderly
  <2> QED
    BY <1>3, <2>1
<1>7. Orderly(pending, made)' <=>
        /\ \A k \in 1..Len(tl) : /\ Typed(pending[k], made)'
                                 /\ tl[k].file = "roster" => \A r \in tl[k].new : Placed(pending, r)'
        /\ \A k, l \in 1..Len(tl) : tl[k].file = "batch" /\ tl[l].file = "batch" => k = l
  BY DEF Orderly, tl
<1> QED
  BY <1>4, <1>5, <1>6, <1>7

\* The writes that wait execute nothing.
LEMMA DoesQuiet ==
  ASSUME NEW ws, Does(ws)
  PROVE  Quiet'
<1>0. IsSeq(ws) /\ ws # <<>> /\ PlanOK(ws, made') /\ pending' = Tail(ws)
  BY DEF Does, PlanOK
<1>1. /\ Len(ws) \in Nat \ {0} /\ Len(pending') = Len(ws) - 1
      /\ \A k \in 1..Len(pending') : pending'[k] = ws[k+1]
  BY <1>0, HeadAndTail
<1>2. ASSUME NEW k \in 1..Len(pending'), pending'[k].file = "row"
      PROVE  pending'[k].row.status \notin Active
  <2>1. k+1 \in 1..Len(ws) /\ k+1 # 1 /\ pending'[k] = ws[k+1]
    BY <1>1
  <2>2. Later(ws[k+1].run, ws[k+1].row)
    BY <1>0, <1>2, <2>1 DEF PlanOK
  <2> QED
    BY <2>1, <2>2 DEF Later, Accepts, Ends, Active, Terminal
<1> QED
  BY <1>2 DEF Quiet

\* So the invariant survives every write, wherever the plan is then cut off.
LEMMA DoesKeeps ==
  ASSUME QInv, NEW ws, Does(ws)
  PROVE  QInv'
<1>1. Files' /\ PlanOK(pending, made)' /\ Orderly(pending, made)' /\ Quiet'
  BY DoesFiles, DoesPlan, DoesOrderly, DoesQuiet DEF QInv
<1>2. Kinds' /\ Attempts' /\ ReservationsFit'
  BY DoesKinds, DoesAttempts, DoesFit DEF QInv, Ranks
<1> QED
  BY <1>1, <1>2 DEF QInv, Ranks

-----------------------------------------------------------------------------
(* Every operation is such a plan.                                         *)

\* The roster without the ended runs still fits.
LEMMA ListedFits ==
  ASSUME Files
  PROVE  /\ IsFiniteSet(Listed) /\ Cardinality(Listed) \in Nat
         /\ Cardinality(Listed) <= QueueLimit
<1>1. roster \subseteq RunIds /\ Cardinality(roster) <= QueueLimit
  BY DEF Files, RosterFits
<1>2. Listed \subseteq roster
  BY DEF Listed
<1>3. /\ Cardinality(Listed) <= Cardinality(roster)
      /\ Cardinality(roster) \in Nat /\ IsFiniteSet(Listed) /\ Cardinality(Listed) \in Nat
  BY <1>1, <1>2, RunsAreFinite, FS_Subset
<1> QED
  BY <1>1, <1>3, QueuePolicy

\* A run that is written to once, and has been accepted, is one that was drawn.
LEMMA WrittenIsDrawn ==
  ASSUME Files, NEW r \in RunIds, rows[r].status # "absent"
  PROVE  r <= made
BY QueueBounds DEF Files, RunIds

\* A row that replaces another: the same run, executed only if it was or fits.
Edits(r, row) ==
  /\ rows[r].status # "absent" /\ Lawful(r, row) /\ row \in Row
  /\ row.batch = rows[r].batch /\ row.item = rows[r].item /\ row.config = rows[r].config
  /\ row.fence > 0 => r \in Visible
  /\ row.status \in Active => rows[r].status \in Active \/ Fits(ActiveRuns \cup {r})

\* So its write is as a plan wants it.
LEMMA EditIsOrderly ==
  ASSUME NEW r \in RunIds, NEW row, Edits(r, row), NEW w, NEW m,
         w.file = "row", w.run = r, w.row = row
  PROVE  Typed(w, m) /\ Fitting(w)
<1>1. row.status # "absent"
  BY DEF Edits, Lawful, Asks, Accepts, Takes, Keeps, HandsBack, Ends, Active, Terminal
<1>2. Steady(r, row)
  BY DEF Edits, Steady
<1> QED
  BY <1>1, <1>2 DEF Edits, Typed, Fitting

\* One lawful row.
LEMMA SaveDoes ==
  ASSUME Files, Kinds, NEW r \in RunIds, NEW row, Edits(r, row),
         row.result # 0 => [run |-> r, fence |-> row.result] \in kept,
         Save(r, row)
  PROVE  \E ws : Does(ws)
<1> DEFINE a == RowFile(r, row)
           ws == <<a>>
<1>1. /\ a.file = "row" /\ a.run = r /\ a.row = row
  BY DEF RowFile
<1> HIDE DEF a
<1>2. /\ ws # <<>> /\ Len(ws) = 1 /\ ws[1] = a /\ IsSeq(ws)
  BY DEF IsSeq
<1>3. Proper(a, made)
  BY <1>1, WrittenIsDrawn DEF Proper, Edits
<1>4. Claimed(a) = [run |-> r, fence |-> row.result]
  BY <1>1 DEF Claimed
<1>5. PlanOK(ws, made)
  BY <1>1, <1>2, <1>3, <1>4 DEF PlanOK, Edits
<1>6. /\ made' = made /\ made \in Nat /\ made <= MaxRuns
      /\ Write(Head(ws)) /\ pending' = Tail(ws) /\ Head(ws) = a
  BY DEF Save, Perform, Files, Kinds, a
<1>7. Typed(a, made) /\ Fitting(a)
  BY <1>1, EditIsOrderly
<1>8. Orderly(ws, made)
  BY <1>1, <1>2, <1>7 DEF Orderly
<1> HIDE DEF ws
<1> QED
  BY <1>2, <1>5, <1>6, <1>7, <1>8 DEF Does

\* One lawful row, and the roster without the ended runs.
LEMMA SaveEndDoes ==
  ASSUME Files, Kinds, NEW r \in RunIds, NEW row, Edits(r, row),
         row.result # 0 => [run |-> r, fence |-> row.result] \in kept,
         SaveEnd(r, row)
  PROVE  \E ws : Does(ws)
<1> DEFINE a == RowFile(r, row)
           z == RosterFile({})
           ws == <<a, z>>
<1>1. /\ a.file = "row" /\ a.run = r /\ a.row = row
      /\ z.file = "roster" /\ z.new = {}
  BY DEF RowFile, RosterFile
<1>2. /\ Write(Head(ws)) /\ pending' = Tail(ws) /\ Head(ws) = a
      /\ made' = made /\ made \in Nat /\ made <= MaxRuns
  BY DEF SaveEnd, Perform, Files, Kinds
<1> HIDE DEF a, z
<1>3. /\ ws # <<>> /\ Len(ws) = 2 /\ ws[1] = a /\ ws[2] = z /\ IsSeq(ws)
  BY DEF IsSeq
<1>4. Proper(a, made)
  BY <1>1, WrittenIsDrawn DEF Proper, Edits
<1>5. Proper(z, made)
  BY <1>1, ListedFits DEF Proper
<1>6. Claimed(a) = [run |-> r, fence |-> row.result]
  BY <1>1 DEF Claimed
<1>7. \A i \in 1..Len(ws) : i = 1 \/ i = 2
  BY <1>3
<1> HIDE DEF ws
<1>8. PlanOK(ws, made)
  BY <1>1, <1>3, <1>4, <1>5, <1>6, <1>7 DEF PlanOK, Edits
<1>9. Typed(a, made) /\ Fitting(a) /\ Typed(z, made)
  BY <1>1, EditIsOrderly DEF Typed
<1>10. Orderly(ws, made)
  BY <1>1, <1>3, <1>7, <1>9 DEF Orderly
<1> QED
  BY <1>2, <1>3, <1>8, <1>9, <1>10 DEF Does

\* New rows, their batch and the roster.
LEMMA InsertDoes ==
  ASSUME Files, Kinds, NEW n \in Nat, NEW new, NEW b \in Batches, NEW items,
         made + n <= MaxRuns, Room(n), ItemsOK(items, made + n), Advances(b, items),
         \A k \in 1..n : /\ new[k] \in Row /\ new[k].fence = 0 /\ new[k].batch = b
                         /\ new[k].item \in DOMAIN items /\ items[new[k].item] = made+k,
         \A k \in 1..n : /\ new[k].status = "queued" /\ new[k].result = 0
                         /\ new[k].cancel = FALSE /\ new[k].token = 0
                         /\ new[k].lease = Past,
         Perform([k \in 1..n |-> RowFile(made+k, new[k])]
                 \o <<BatchFile(b, items), RosterFile(made+1 .. made+n)>>),
         made' = made + n
  PROVE  \E ws : Does(ws)
<1> DEFINE u == [k \in 1..n |-> RowFile(made+k, new[k])]
           y == BatchFile(b, items)
           z == RosterFile(made+1 .. made+n)
           v == <<y, z>>
           ws == u \o v
           S == {u[k] : k \in 1..n} \cup {y, z}
<1>1. /\ y.file = "batch" /\ y.batch = b /\ y.items = items
      /\ z.file = "roster" /\ z.new = made+1 .. made+n
  BY DEF BatchFile, RosterFile
<1>2. \A k \in 1..n : u[k].file = "row" /\ u[k].run = made+k /\ u[k].row = new[k]
  BY DEF RowFile
<1>3. u \in [1..n -> S]
  OBVIOUS
<1>4. Write(Head(ws)) /\ pending' = Tail(ws)
  BY DEF Perform
<1>5. made \in Nat /\ made' \in Nat /\ made' >= made
  BY DEF Files
<1> HIDE DEF y, z
<1>6. u \in Seq(S) /\ Len(u) = n
  <2>1. u \in Seq(S)
    BY <1>3, SeqDef
  <2> QED
    BY <2>1, LenProperties
<1>7. v \in Seq(S) /\ Len(v) = 2 /\ v[1] = y /\ v[2] = z
  OBVIOUS
<1> HIDE DEF u, v, S
<1>8. /\ ws \in Seq(S) /\ Len(ws) = n + 2
      /\ \A i \in 1..n+2 : ws[i] = IF i <= n THEN u[i] ELSE v[i-n]
  <2>1. /\ u \o v \in Seq(S) /\ Len(u \o v) = Len(u) + Len(v)
        /\ \A i \in 1 .. Len(u) + Len(v) :
              (u \o v)[i] = IF i <= Len(u) THEN u[i] ELSE v[i - Len(u)]
    BY <1>6, <1>7, ConcatProperties, Zenon
  <2> QED
    BY <1>6, <1>7, <2>1
<1>9. /\ \A i \in 1..n : ws[i] = u[i]
      /\ ws[n+1] = y /\ ws[n+2] = z
  <2> HIDE DEF ws
  <2>1. /\ n+1 \in 1..n+2 /\ n+2 \in 1..n+2
        /\ ~ n+1 <= n /\ ~ n+2 <= n /\ (n+1)-n = 1 /\ (n+2)-n = 2
        /\ \A i \in 1..n : i \in 1..n+2 /\ i <= n
    OBVIOUS
  <2>2. ws[n+1] = v[1] /\ ws[n+2] = v[2]
    BY <1>8, <2>1
  <2>3. \A i \in 1..n : ws[i] = u[i]
    BY <1>8, <2>1
  <2> QED
    BY <1>7, <2>2, <2>3
<1>10. IsSeq(ws) /\ ws # <<>>
  <2>1. IsSeq(ws)
    BY <1>8, SeqOfItself
  <2>2. Len(ws) # 0
    BY <1>8
  <2> QED
    BY <2>1, <2>2
<1> HIDE DEF ws
<1>11. \A i \in 1..Len(ws) : i \in 1..n \/ i = n+1 \/ i = n+2
  BY <1>8
<1>12. \A k \in 1..n : made+k \in RunIds /\ made+k > made /\ made+k <= made'
  BY <1>5, QueueBounds DEF RunIds
<1>13. Cardinality(Listed \cup z.new) <= QueueLimit
  <2>1. IsFiniteSet(z.new) /\ Cardinality(z.new) = n
    BY <1>1, <1>5, FS_Interval
  <2>2. IsFiniteSet(Listed) /\ Cardinality(Listed) \in Nat
    BY ListedFits
  <2>3. /\ IsFiniteSet(Listed \cup z.new)
        /\ Cardinality(Listed \cup z.new)
             = Cardinality(Listed) + Cardinality(z.new) - Cardinality(Listed \cap z.new)
    BY <2>1, <2>2, FS_Union
  <2>4. IsFiniteSet(Listed \cap z.new)
    BY <2>2, FS_Subset
  <2>5. Cardinality(Listed \cap z.new) \in Nat
    BY <2>4, FS_CardinalityType
  <2>6. Cardinality(Listed) + n <= QueueLimit
    BY DEF Room
  <2> QED
    BY <2>1, <2>2, <2>3, <2>5, <2>6, QueuePolicy
<1>14. \A i \in 1..Len(ws) : Proper(ws[i], made')
  <2>1. Proper(y, made')
    <3>1. \E l \in Nat : DOMAIN items = 1..l
      BY QueueBounds DEF ItemsOK
    <3> QED
      BY <1>1, <3>1 DEF Proper
  <2>2. Proper(z, made')
    <3>1. \A r \in z.new : r \in RunIds /\ r <= made'
      BY <1>1, <1>5, QueueBounds DEF RunIds
    <3> QED
      BY <1>1, <1>13, <3>1 DEF Proper
  <2>3. \A k \in 1..n : Proper(u[k], made')
    BY <1>2, <1>12 DEF Proper
  <2> QED
    BY <1>9, <1>11, <2>1, <2>2, <2>3
<1>15. \A k \in 1..n : Later(made+k, new[k]) /\ Lawful(made+k, new[k])
  <2> TAKE k \in 1..n
  <2>1. /\ made+k \in RunIds /\ rows[made+k].status = "absent"
        /\ rows[made+k].cancel = FALSE /\ made+k \notin roster
    BY <1>5, <1>12 DEF Files
  <2> QED
    BY <2>1 DEF Later, Lawful, Accepts
<1>16. \A i \in 1..Len(ws) : ws[i].file = "row" =>
          i \in 1..n /\ ws[i].run = made+i /\ ws[i].row = new[i]
  BY <1>1, <1>2, <1>9, <1>11
<1>17. \A i, j \in 1..Len(ws) :
          ws[i].file = "row" /\ ws[j].file = "row" /\ ws[i].run = ws[j].run => i = j
  BY <1>5, <1>8, <1>16
<1>18. \A i \in 1..Len(ws) : ws[i].file = "roster" => i = Len(ws)
  BY <1>1, <1>2, <1>8, <1>9, <1>11
<1>19. \A i \in 1..Len(ws) : ws[i].file = "row" =>
          IF i = 1 THEN Lawful(ws[i].run, ws[i].row) ELSE Later(ws[i].run, ws[i].row)
  BY <1>15, <1>16
<1>20. \A i \in 1..Len(ws) : ws[i].file = "row" => ws[i].row.result = 0
  BY <1>16
<1>21. PlanOK(ws, made')
  BY <1>10, <1>14, <1>17, <1>18, <1>19, <1>20 DEF PlanOK
<1>22. /\ Typed(y, made') /\ Typed(z, made')
       /\ \A k \in 1..n : Typed(u[k], made')
  <2>1. Typed(y, made') /\ Typed(z, made')
    BY <1>1 DEF Typed
  <2>2. ASSUME NEW k \in 1..n PROVE Typed(u[k], made')
    <3>1. Steady(made+k, new[k])
      BY <1>5, <1>12 DEF Steady, Files
    <3> QED
      BY <1>2, <3>1 DEF Typed
  <2> QED
    BY <2>1, <2>2
<1>23. \A i \in 1..Len(ws) : ws[i].file = "batch" => i = n+1
  BY <1>1, <1>2, <1>9, <1>11
<1>24. ASSUME NEW r \in z.new
       PROVE  Placed(ws, r)
  <2>1. PICK k \in 1..n : r = made + k
    <3>1. r \in made+1 .. made+n
      BY <1>1
    <3>2. r - made \in 1..n /\ r = made + (r - made)
      BY <1>5, <3>1
    <3> QED
      BY <3>2
  <2>2. k \in 1..Len(ws) /\ n+1 \in 1..Len(ws)
    BY <1>8
  <2>3. ws[k].file = "row" /\ ws[k].run = r /\ ws[k].row = new[k]
    BY <1>2, <1>9, <2>1
  <2>4. WillTake(ws, r, b, new[k].item)
    BY <2>2, <2>3 DEF WillTake
  <2>5. WillList(ws, b, items)
    BY <1>1, <1>9, <2>2 DEF WillList
  <2> QED
    BY <2>1, <2>4, <2>5 DEF Placed
<1>25. Orderly(ws, made')
  <2>1. \A i \in 1..Len(ws) : Typed(ws[i], made')
    BY <1>9, <1>11, <1>22
  <2>2. \A i \in 1..Len(ws) : ws[i].file = "roster" => ws[i] = z
    BY <1>1, <1>2, <1>9, <1>11
  <2> QED
    BY <1>23, <1>24, <2>1, <2>2 DEF Orderly
<1>26. Fitting(Head(ws))
  <2>1. Head(ws) = ws[1] /\ 1 \in 1..Len(ws)
    BY <1>8, <1>10, HeadAndTail
  <2>2. ws[1].file = "row" => ws[1].row.status = "queued"
    BY <1>16, <2>1
  <2> QED
    BY <2>1, <2>2 DEF Fitting, Active
<1> QED
  BY <1>4, <1>5, <1>10, <1>21, <1>25, <1>26 DEF Does, ws

UpTo(F, i) == {j \in F : j <= i}

\* Of a set of items, one has any rank that there is.
LEMMA Ranked ==
  ASSUME NEW m \in Nat, NEW F, \A j \in F : j \in 1..m, NEW k \in 1..Cardinality(F)
  PROVE  \E i \in F : Cardinality(UpTo(F, i)) = k
<1> DEFINE B(i) == UpTo(F, i)
           N == {i \in Nat : Cardinality(B(i)) >= k}
<1>0. \A j \in F : j \in Nat /\ 1 <= j /\ j <= m
  OBVIOUS
<1>1. IsFiniteSet(F) /\ Cardinality(F) \in Nat
  <2>1. IsFiniteSet(1..m) /\ F \subseteq 1..m
    BY FS_Interval
  <2> QED
    BY <2>1, FS_Subset, FS_CardinalityType
<1>2. \A i : IsFiniteSet(B(i)) /\ Cardinality(B(i)) \in Nat
  <2>1. \A i : B(i) \subseteq F
    BY DEF UpTo
  <2> QED
    BY <1>1, <2>1, FS_Subset, FS_CardinalityType
<1>k. k \in Nat /\ k >= 1 /\ k <= Cardinality(F)
  BY <1>1
<1>3. m \in N
  <2>1. B(m) = F
    BY <1>0 DEF UpTo
  <2> QED
    BY <1>k, <1>1, <2>1
<1>4. PICK i \in N : \A j \in N : i <= j
  <2>1. N \subseteq Nat /\ N # {}
    BY <1>3
  <2> HIDE DEF N
  <2> QED BY <2>1, LeastNumber
<1>5. i \in Nat /\ Cardinality(B(i)) >= k
  OBVIOUS
<1>6. i # 0
  <2>1. B(0) = {}
    BY <1>0 DEF UpTo
  <2>2. Cardinality(B(0)) = 0
    BY <2>1, FS_EmptySet
  <2> HIDE DEF B
  <2> QED
    BY <1>k, <1>5, <2>2
<1>7. i-1 \in Nat /\ ~ Cardinality(B(i-1)) >= k
  <2>1. i-1 \in Nat /\ ~ i <= i-1
    BY <1>5, <1>6
  <2>2. i-1 \notin N
    BY <1>4, <2>1
  <2> QED
    BY <2>1, <2>2
<1>s. \A j \in F : j <= i <=> j <= i-1 \/ j = i
  BY <1>0, <1>5, <1>6
<1>8. i \in F
  <2> SUFFICES ASSUME i \notin F PROVE FALSE
    OBVIOUS
  <2>1. B(i) = B(i-1)
    BY <1>s DEF UpTo
  <2> HIDE DEF B
  <2> QED
    BY <1>5, <1>7, <2>1
<1>9. B(i) = B(i-1) \cup {i} /\ i \notin B(i-1)
  <2>1. ~ i <= i-1
    BY <1>5
  <2> QED
    BY <1>s, <1>8, <2>1 DEF UpTo
<1>10. Cardinality(B(i)) = Cardinality(B(i-1)) + 1
  <2>1. IsFiniteSet(B(i-1))
    BY <1>2
  <2> HIDE DEF B
  <2> QED
    BY <1>9, <2>1, FS_AddElement
<1>11. Cardinality(B(i)) = k
  <2>1. Cardinality(B(i)) \in Nat /\ Cardinality(B(i-1)) \in Nat
    BY <1>2
  <2> HIDE DEF B
  <2> QED
    BY <1>k, <1>5, <1>7, <1>10, <2>1
<1> QED
  BY <1>8, <1>11

IsNew(row, b, i) == /\ row \in Row /\ row.fence = 0 /\ row.batch = b /\ row.item = i
                    /\ row.status = "queued" /\ row.result = 0 /\ row.cancel = FALSE
                    /\ row.token = 0 /\ row.lease = Past

\* A new row of a batch.
LEMMA NewRowIs ==
  ASSUME NEW b \in Batches, NEW i \in 0..MaxItems, NEW config \in Configs,
         NEW old \in 0..MaxRuns, NEW row, row = NewRow(b, i, config, old)
  PROVE  IsNew(row, b, i)
<1>1. Past \in Past..LeaseTicks
  BY QueueBounds DEF Past
<1>2. 0 \in 0..MaxFence /\ 0 \in 0..MaxProgress
  BY QueueBounds
<1> QED
  BY <1>1, <1>2 DEF NewRow, Row, IsNew

\* enqueue_batch inserts the runs of one batch.
LEMMA EnqueueDoes ==
  ASSUME Files, Ranks, NEW b \in Batches, NEW n \in 1..MaxItems, NEW config \in Configs,
         EnqueueBatch(b, n, config)
  PROVE  \E ws : Does(ws)
<1> DEFINE new == [k \in 1..n |-> NewRow(b, k, config, 0)]
           items == [k \in 1..n |-> made+k]
<1>1. n \in Nat /\ n \in 0..MaxItems /\ made \in Nat /\ Kinds
  BY QueueBounds DEF Files, Ranks
<1>2. \A k \in 1..n : /\ new[k] \in Row /\ new[k].fence = 0 /\ new[k].batch = b
                      /\ new[k].status = "queued" /\ new[k].result = 0
                      /\ new[k].cancel = FALSE /\ new[k].token = 0
                      /\ new[k].lease = Past /\ new[k].item = k
  <2>1. 0 \in 0..MaxRuns /\ \A k \in 1..n : k \in 0..MaxItems
    BY QueueBounds
  <2> TAKE k \in 1..n
  <2>2. PICK row : row = new[k]
    OBVIOUS
  <2>3. row = NewRow(b, k, config, 0) /\ k \in 0..MaxItems
    BY <2>1, <2>2
  <2> HIDE DEF new
  <2>4. IsNew(row, b, k)
    BY <2>1, <2>3, NewRowIs
  <2> QED
    BY <2>2, <2>4 DEF IsNew
<1>3. [k \in 1..n |-> RowFile(made+k, new[k])]
        = [k \in 1..n |-> RowFile(made+k, NewRow(b, k, config, 0))]
  OBVIOUS
<1>4. DOMAIN items = 1..n /\ \A k \in 1..n : items[k] = made + k
  OBVIOUS
<1>5. /\ made + n <= MaxRuns /\ Room(n) /\ made' = made + n /\ batches[b] = <<>>
      /\ Perform([k \in 1..n |-> RowFile(made+k, new[k])]
                 \o <<BatchFile(b, items), RosterFile(made+1 .. made+n)>>)
  BY <1>3 DEF EnqueueBatch
<1> HIDE DEF new, items
<1>6. ItemsOK(items, made + n)
  BY <1>1, <1>4 DEF ItemsOK
<1>7. Advances(b, items)
  <2>1. DOMAIN batches[b] = {}
    BY <1>5
  <2> QED
    BY <2>1 DEF Advances, Ranks, Attempts, Listable
<1>8. \A k \in 1..n : new[k].item \in DOMAIN items /\ items[new[k].item] = made+k
  BY <1>2, <1>4
<1> QED
  BY <1>1, <1>2, <1>5, <1>6, <1>7, <1>8, InsertDoes

\* The new runs take the failed items in their order, one each.
LEMMA RetriedItems ==
  ASSUME Files, Kinds, NEW b \in Batches, NEW n, n = Cardinality(FailedItems(b)),
         made + n <= MaxRuns
  PROVE  /\ n \in Nat
         /\ FailedItems(b) \subseteq DOMAIN batches[b]
         /\ \A i \in FailedItems(b) : Rank(b, i) \in made+1 .. made+n
         /\ \A k \in 1..n : /\ Retried(b, made+k) \in FailedItems(b)
                            /\ Rank(b, Retried(b, made+k)) = made+k
<1> DEFINE F == FailedItems(b)
           B(i) == UpTo(F, i)
<1>1. PICK m \in 0..MaxItems : DOMAIN batches[b] = 1..m
  BY DEF Kinds, ItemsOK
<1>2. F \subseteq 1..m /\ m \in Nat /\ made \in Nat
  BY <1>1, QueueBounds DEF FailedItems, Files
<1>3. IsFiniteSet(F) /\ n \in Nat
  <2>1. IsFiniteSet(1..m)
    BY <1>2, FS_Interval
  <2> QED
    BY <1>2, <2>1, FS_Subset, FS_CardinalityType
<1>4. \A i : Rank(b, i) = made + Cardinality(B(i))
  BY DEF Rank, UpTo
<1> HIDE DEF F
<1>5. ASSUME NEW i \in F
      PROVE  Rank(b, i) \in made+1 .. made+n
  <2>1. B(i) \subseteq F /\ i \in B(i)
    BY <1>2 DEF UpTo
  <2>2. /\ IsFiniteSet(B(i)) /\ Cardinality(B(i)) \in Nat
        /\ Cardinality(B(i)) <= n
    BY <1>3, <2>1, FS_Subset, FS_CardinalityType DEF F
  <2>3. Cardinality(B(i)) # 0
    BY <2>1, <2>2, FS_EmptySet
  <2>4. Rank(b, i) = made + Cardinality(B(i))
    BY <1>4
  <2> HIDE DEF B
  <2> QED
    BY <1>2, <1>3, <2>2, <2>3, <2>4
<1>6. ASSUME NEW k \in 1..n
      PROVE  Retried(b, made+k) \in F /\ Rank(b, Retried(b, made+k)) = made+k
  <2>1. k \in 1..Cardinality(F)
    BY DEF F
  <2>2. \E i \in F : Cardinality(B(i)) = k
    <3>1. \A j \in F : j \in 1..m
      BY <1>2
    <3> QED
      BY <1>2, <2>1, <3>1, Ranked
  <2>3. \E i \in F : Rank(b, i) = made+k
    BY <1>4, <2>2
  <2> QED
    BY <2>3 DEF Retried, F
<1> QED
  BY <1>1, <1>2, <1>3, <1>5, <1>6 DEF F

\* A retry inserts one run for each failed item.
LEMMA RetryDoes ==
  ASSUME Files, Ranks, NEW b \in Batches, RetryFailed(b)
  PROVE  \E ws : Does(ws)
<1> DEFINE n == Cardinality(FailedItems(b))
           new == [k \in 1..n |-> Retry(b, made+k)]
           items == RetryItems(b)
<1>1. Kinds /\ made \in Nat
  BY DEF Ranks, Files
<1>2. PICK m \in 0..MaxItems : DOMAIN batches[b] = 1..m
  BY <1>1 DEF Kinds, ItemsOK
<1>3. RetryFiles(b, n) = [k \in 1..n |-> RowFile(made+k, new[k])]
  BY DEF RetryFiles
<1>4. /\ DOMAIN items = 1..m
      /\ \A i \in 1..m : items[i] = IF i \in FailedItems(b) THEN Rank(b, i) ELSE batches[b][i]
  BY <1>2 DEF RetryItems
<1>5. \A k \in 1..n : new[k] = Retry(b, made+k)
  OBVIOUS
<1>6. /\ made + n <= MaxRuns /\ Room(n) /\ made' = made + n
      /\ Perform([k \in 1..n |-> RowFile(made+k, new[k])]
                 \o <<BatchFile(b, items), RosterFile(made+1 .. made+n)>>)
  BY <1>3 DEF RetryFailed
<1> HIDE DEF new, items
<1>7. PICK l : l = n
  OBVIOUS
<1>8. /\ l \in Nat
      /\ FailedItems(b) \subseteq 1..m
      /\ \A i \in FailedItems(b) : Rank(b, i) \in made+1 .. made+l
      /\ \A k \in 1..l : /\ Retried(b, made+k) \in FailedItems(b)
                         /\ Rank(b, Retried(b, made+k)) = made+k
  BY <1>1, <1>2, <1>6, <1>7, RetriedItems
<1>9. \A i \in 1..m : batches[b][i] \in 1..made
  BY <1>1, <1>2 DEF Kinds, ItemsOK
<1>10. 1..made \subseteq RunIds
  BY <1>1, QueueBounds DEF Kinds, RunIds
<1>11. ASSUME NEW k \in 1..l
       PROVE  /\ new[k] \in Row /\ new[k].fence = 0 /\ new[k].batch = b
              /\ new[k].item \in DOMAIN items /\ items[new[k].item] = made+k
              /\ new[k].status = "queued" /\ new[k].result = 0
              /\ new[k].cancel = FALSE /\ new[k].token = 0 /\ new[k].lease = Past
  <2> DEFINE i == Retried(b, made+k)
             old == batches[b][i]
  <2>1. i \in FailedItems(b) /\ i \in 1..m /\ Rank(b, i) = made+k
    BY <1>8
  <2>2. new[k] = NewRow(b, i, rows[old].config, old)
    BY <1>5, <1>7 DEF Retry
  <2> HIDE DEF i
  <2>3. old \in 1..made /\ old \in RunIds
    BY <1>9, <1>10, <2>1
  <2>5. items[i] = made+k /\ i \in DOMAIN items
    BY <1>4, <2>1
  <2>a. rows[old].config \in Configs
    BY <1>1, <2>3 DEF Kinds, Row
  <2> HIDE DEF old
  <2>b. old \in 0..MaxRuns
    BY <2>3, QueueBounds DEF RunIds
  <2>c. i \in 0..MaxItems
    BY <1>2, <2>1, QueueBounds
  <2>4. old \in 0..MaxRuns /\ i \in 0..MaxItems /\ rows[old].config \in Configs
    BY <2>a, <2>b, <2>c
  <2>6. PICK row : row = new[k]
    OBVIOUS
  <2>7. IsNew(row, b, i)
    BY <2>2, <2>4, <2>6, NewRowIs
  <2> QED
    BY <2>5, <2>6, <2>7 DEF IsNew
<1>12. ItemsOK(items, made + l)
  <2>1. \A i \in 1..m : items[i] \in 1 .. made+l
    <3> TAKE i \in 1..m
    <3>1. CASE i \in FailedItems(b)
      <4>1. items[i] \in made+1 .. made+l
        BY <1>4, <1>8, <3>1
      <4> QED
        BY <1>1, <1>8, <4>1
    <3>2. CASE i \notin FailedItems(b)
      <4>1. items[i] \in 1..made
        BY <1>4, <1>9, <3>2
      <4> QED
        BY <1>1, <1>8, <4>1
    <3> QED
      BY <3>1, <3>2
  <2> QED
    BY <1>4, <2>1 DEF ItemsOK
<1>13. ASSUME NEW r \in Visible, rows[r].batch = b
       PROVE  Listable(r, items)
  <2> DEFINE i == rows[r].item
  <2>1. /\ i \in 1..m /\ r <= batches[b][i]
        /\ r # batches[b][i] => rows[r].status = "failed"
    BY <1>2, <1>13 DEF Ranks, Attempts, Listable
  <2>2. r \in Nat /\ batches[b][i] \in 1..made
    BY <1>9, <2>1, QueueBounds DEF Visible, RunIds
  <2>3. CASE i \in FailedItems(b)
    <3>1. items[i] \in made+1 .. made+l
      BY <1>4, <1>8, <2>1, <2>3
    <3>2. r = batches[b][i] => rows[r].status = "failed"
      BY <2>3 DEF FailedItems
    <3>3. r <= items[i]
      BY <1>1, <1>8, <2>1, <2>2, <3>1
    <3> QED
      BY <1>4, <2>1, <3>2, <3>3 DEF Listable
  <2>4. CASE i \notin FailedItems(b)
    BY <1>4, <2>1, <2>4 DEF Listable
  <2> QED
    BY <2>3, <2>4
<1>14. Advances(b, items)
  BY <1>13 DEF Advances
<1> HIDE DEF n
<1> QED
  BY <1>1, <1>6, <1>7, <1>8, <1>11, <1>12, <1>14, InsertDoes

\* Cancelling ends a queued run and marks an executed one.
LEMMA RequestCancelDoes ==
  ASSUME Files, Kinds, NEW r \in RunIds, RequestCancel(r)
  PROVE  \E ws : Does(ws)
<1> DEFINE row == Cancel(rows[r])
<1>1. rows[r].status \in {"queued"} \cup Active /\ SaveEnd(r, row)
  BY DEF RequestCancel
<1>2. /\ row.cancel = TRUE /\ row.result = rows[r].result /\ row.lease = rows[r].lease
      /\ row.status = IF rows[r].status = "queued" THEN "cancelled" ELSE rows[r].status
      /\ row \in Row /\ row.fence = rows[r].fence
      /\ row.batch = rows[r].batch /\ row.item = rows[r].item /\ row.config = rows[r].config
  BY DEF Cancel, Kinds, Row, Terminal
<1>3. rows[r].status # "absent" /\ rows[r].status \notin Terminal
  BY <1>1 DEF Active, Terminal
<1>4. row.result = 0 /\ (row.status = "cancelled" => row.lease = Past)
  BY <1>1, <1>2, <1>3 DEF Files, Active
<1> HIDE DEF row
<1>5. Lawful(r, row)
  BY <1>1, <1>2, <1>4 DEF Lawful, Asks
<1>6. Edits(r, row)
  BY <1>2, <1>3, <1>5 DEF Edits, Visible, Active
<1> QED
  BY <1>1, <1>4, <1>6, SaveEndDoes

\* A claim is granted only beside fewer than Concurrency others.
LEMMA ClaimDoes ==
  ASSUME Files, Kinds, NEW r \in RunIds, NEW lag \in Lags, Claim(r, lag)
  PROVE  \E ws : Does(ws)
<1> DEFINE row == [rows[r] EXCEPT !.status = "starting", !.fence = @ + 1,
                                  !.token = rows[r].fence + 1, !.progress = 0,
                                  !.lease = LeaseTicks - lag]
<1>1. /\ r \in Listed /\ rows[r].status = "queued"
      /\ Fits(Granted \cup {r}) /\ Save(r, row)
  BY DEF Claim, Claimable
<1>2. /\ row.cancel = rows[r].cancel /\ row.result = rows[r].result
      /\ row.status = "starting"
      /\ row.batch = rows[r].batch /\ row.item = rows[r].item /\ row.config = rows[r].config
  BY DEF Kinds, Row
<1>3. Granted = ActiveRuns
  BY DEF Granted, ActiveRuns, Listed, Files, HeldAreListed, Active, Terminal
<1>4. r \notin ActiveRuns /\ ActiveRuns \subseteq RunIds
  BY <1>1 DEF ActiveRuns, Active
<1>5. /\ Cardinality(ActiveRuns) \in Nat
      /\ Cardinality(ActiveRuns \cup {r}) = Cardinality(ActiveRuns) + 1
  BY <1>4, RunsAreFinite, FS_AddElement
<1>6. Cardinality(ActiveRuns) < Concurrency
  BY <1>1, <1>3, <1>5, QueuePolicy DEF Fits
<1>7. row.result = 0
  BY <1>1, <1>2 DEF Files, Terminal
<1>a. row \in Row
  <2>1. rows[r] \in Row /\ rows[r].fence < MaxFence /\ MaxFence \in Nat
    BY QueueBounds DEF Claim, Kinds
  <2>2. rows[r].fence + 1 \in 0..MaxFence
    BY <2>1 DEF Row
  <2>3. LeaseTicks - lag \in Past..LeaseTicks
    BY QueueBounds DEF Past, Lags
  <2>4. 0 \in 0..MaxProgress
    BY QueueBounds
  <2> QED
    BY <2>1, <2>2, <2>3, <2>4 DEF Row, Active
<1> HIDE DEF row
<1>8. Lawful(r, row)
  BY <1>1, <1>2, <1>6 DEF Lawful, Takes, Listed
<1>9. Edits(r, row)
  <2>1. r \in Visible /\ rows[r].status # "absent"
    BY <1>1 DEF Listed, Visible
  <2>2. Fits(ActiveRuns \cup {r})
    BY <1>1, <1>3
  <2> QED
    BY <1>2, <1>8, <1>a, <2>1, <2>2 DEF Edits
<1> QED
  BY <1>1, <1>7, <1>9, SaveDoes

\* A holder's writes to a row that stays active.
LEMMA KeepDoes ==
  ASSUME Files, Kinds, NEW c \in Claims, NEW row \in Row,
         row.batch = rows[c.run].batch, row.item = rows[c.run].item,
         row.config = rows[c.run].config, row.fence = rows[c.run].fence,
         rows[c.run].status \in Active, row.status \in Active,
         row.cancel = rows[c.run].cancel, row.result = rows[c.run].result,
         Save(c.run, row)
  PROVE  \E ws : Does(ws)
<1>1. c.run \in RunIds
  BY DEF Claims
<1>2. Lawful(c.run, row) /\ rows[c.run].status # "absent"
  BY DEF Lawful, Keeps, Active
<1>3. row.result = 0
  BY <1>1 DEF Files, Active, Terminal
<1>4. Edits(c.run, row)
  BY <1>1, <1>2 DEF Edits, Visible
<1> QED
  BY <1>1, <1>3, <1>4, SaveDoes

\* Recovery requeues a run, or ends one that was to be cancelled.
LEMMA RecoverDoes ==
  ASSUME Files, Kinds, NEW c \in Claims, NEW lag \in Lags, RecoverStopped(c, lag)
  PROVE  \E ws : Does(ws)
<1> DEFINE r == c.run
           row == [rows[r] EXCEPT
                     !.status = IF rows[r].cancel THEN "cancelled" ELSE "queued",
                     !.token = 0, !.lease = Past, !.bound = FALSE]
<1>1. /\ r \in RunIds /\ rows[r].status \notin Terminal /\ SaveEnd(r, row)
  BY DEF Claims, RecoverStopped, Recoverable
<1>2. /\ row.status = IF rows[r].cancel THEN "cancelled" ELSE "queued"
      /\ row.token = 0 /\ row.cancel = rows[r].cancel /\ row.result = rows[r].result
      /\ row.lease = Past /\ row.fence = rows[r].fence
      /\ row.batch = rows[r].batch /\ row.item = rows[r].item /\ row.config = rows[r].config
  BY <1>1 DEF Kinds, Row
<1>a. row \in Row
  <2>1. Past \in Past..LeaseTicks /\ 0 \in 0..MaxFence
    BY QueueBounds DEF Past
  <2>2. rows[r] \in Row
    BY <1>1 DEF Kinds
  <2> QED
    BY <2>1, <2>2 DEF Row, Terminal
<1>3. rows[r].token # 0
  BY DEF Claims, RecoverStopped, Recoverable
<1>4. rows[r].status \in Active /\ rows[r].status # "absent" /\ row.result = 0
  BY <1>1, <1>2, <1>3 DEF Files, Statuses, Active
<1> HIDE DEF row
<1>5. Lawful(r, row)
  BY <1>2, <1>4 DEF Lawful, HandsBack, Ends, Terminal
<1>6. Edits(r, row)
  BY <1>1, <1>2, <1>4, <1>5, <1>a DEF Edits, Visible
<1> QED
  BY <1>1, <1>4, <1>6, SaveEndDoes

\* A pair after one.
LEMMA ConcatOfThree ==
  ASSUME NEW x, NEW y, NEW z
  PROVE  <<x>> \o <<y, z>> = <<x, y, z>>
<1> DEFINE S == {x, y, z}
           s == <<x>>
           t == <<y, z>>
           u == <<x, y, z>>
<1>1. /\ s \in Seq(S) /\ Len(s) = 1 /\ s[1] = x
      /\ t \in Seq(S) /\ Len(t) = 2 /\ t[1] = y /\ t[2] = z
      /\ u \in Seq(S) /\ Len(u) = 3 /\ u[1] = x /\ u[2] = y /\ u[3] = z
  OBVIOUS
<1> HIDE DEF s, t, u, S
<1>2. /\ s \o t \in Seq(S) /\ Len(s \o t) = Len(s) + Len(t)
      /\ \A i \in 1 .. Len(s) + Len(t) :
            (s \o t)[i] = IF i <= Len(s) THEN s[i] ELSE t[i - Len(s)]
  BY <1>1, ConcatProperties, Zenon
<1>3. (s \o t)[1] = x /\ (s \o t)[2] = y /\ (s \o t)[3] = z
  BY <1>1, <1>2
<1>4. \A i \in 1..3 : i = 1 \/ i = 2 \/ i = 3
  OBVIOUS
<1>5. s \o t = u
  BY <1>1, <1>2, <1>3, <1>4, SeqEqual
<1> QED
  BY <1>5 DEF s, t, u

\* The outcome: the result first, then the row, then the roster.
LEMMA CommitDoes ==
  ASSUME Files, Kinds, NEW c \in Claims, NEW outcome \in Terminal, NEW sealed \in BOOLEAN,
         CommitOutcome(c, outcome, sealed)
  PROVE  \E ws : Does(ws)
<1> DEFINE r == c.run
           row == Outcome(c, outcome, sealed)
           k == Retain(c)
           a == RowFile(r, row)
           z == RosterFile({})
<1>1. /\ k.file = "result" /\ k.claim = c
      /\ a.file = "row" /\ a.run = r /\ a.row = row
      /\ z.file = "roster" /\ z.new = {}
  BY DEF Retain, RowFile, RosterFile
<1>2. /\ row.status = outcome /\ row.cancel = rows[r].cancel /\ row.lease = Past
      /\ row.result = IF sealed THEN c.fence ELSE 0
      /\ row.fence = rows[r].fence
      /\ row.batch = rows[r].batch /\ row.item = rows[r].item /\ row.config = rows[r].config
  BY DEF Outcome, Kinds, Row, Claims
<1>3. /\ r \in RunIds /\ c.fence # 0 /\ c = [run |-> r, fence |-> c.fence]
      /\ c.fence \in 1..MaxFence
  BY DEF Claims
<1>a. row \in Row
  <2>1. Past \in Past..LeaseTicks /\ (IF sealed THEN c.fence ELSE 0) \in 0..MaxFence
    BY <1>3, QueueBounds DEF Past
  <2> QED
    BY <1>3, <2>1 DEF Outcome, Kinds, Row
<1>4. /\ rows[r].status \in Active
      /\ rows[r].cancel => outcome = "cancelled"
      /\ outcome = "succeeded" => sealed
      /\ made' = made /\ made \in Nat /\ made <= MaxRuns
  BY DEF CommitOutcome, MayCommit, Valid, Files, Kinds
<1>5. Later(r, row) /\ Lawful(r, row)
  BY <1>2, <1>3, <1>4 DEF Later, Lawful, Ends
<1>b. Edits(r, row)
  BY <1>2, <1>3, <1>4, <1>5, <1>a DEF Edits, Visible, Active
<1>c. /\ Typed(a, made) /\ Fitting(a) /\ Typed(z, made)
      /\ Typed(k, made) /\ Fitting(k)
  BY <1>1, <1>3, <1>b, EditIsOrderly DEF Typed, Fitting
<1>6. Proper(a, made) /\ Proper(z, made) /\ Proper(k, made)
  <2>1. r <= made
    BY <1>3, <1>4, WrittenIsDrawn DEF Active
  <2> QED
    BY <1>1, <1>3, <2>1, ListedFits DEF Proper
<1>7. sealed => Claimed(a) = c
  BY <1>1, <1>2, <1>3 DEF Claimed
<1> HIDE DEF row
<1>8. CASE sealed
  <2> DEFINE ws == <<k, a, z>>
  <2>1. <<k>> \o <<a, z>> = ws
    BY ConcatOfThree
  <2>2. Write(Head(ws)) /\ pending' = Tail(ws)
    BY <1>8, <2>1 DEF CommitOutcome, Perform, row
  <2>h. Head(ws) = k
    OBVIOUS
  <2> HIDE DEF k, a, z
  <2>3. /\ ws # <<>> /\ Len(ws) = 3 /\ ws[1] = k /\ ws[2] = a /\ ws[3] = z /\ IsSeq(ws)
    BY DEF IsSeq
  <2>4. \A i \in 1..Len(ws) : i = 1 \/ i = 2 \/ i = 3
    BY <2>3
  <2> HIDE DEF ws
  <2>5. 1 \in 1..2-1
    OBVIOUS
  <2>6. PlanOK(ws, made)
    BY <1>1, <1>5, <1>6, <1>7, <1>8, <2>3, <2>4, <2>5 DEF PlanOK
  <2>7. Orderly(ws, made)
    BY <1>1, <1>c, <2>3, <2>4 DEF Orderly
  <2> QED
    BY <1>4, <1>c, <2>2, <2>3, <2>6, <2>7, <2>h DEF Does
<1>9. CASE ~ sealed
  <2> DEFINE ws == <<a, z>>
  <2>1. <<>> \o ws = ws
    OBVIOUS
  <2>2. Write(Head(ws)) /\ pending' = Tail(ws)
    BY <1>9, <2>1 DEF CommitOutcome, Perform, row
  <2>3. row.result = 0
    BY <1>2, <1>9
  <2>h. Head(ws) = a
    OBVIOUS
  <2> HIDE DEF a, z
  <2>4. /\ ws # <<>> /\ Len(ws) = 2 /\ ws[1] = a /\ ws[2] = z /\ IsSeq(ws)
    BY DEF IsSeq
  <2>5. \A i \in 1..Len(ws) : i = 1 \/ i = 2
    BY <2>4
  <2> HIDE DEF ws
  <2>6. PlanOK(ws, made)
    BY <1>1, <1>5, <1>6, <2>3, <2>4, <2>5 DEF PlanOK
  <2>7. Orderly(ws, made)
    BY <1>1, <1>c, <2>4, <2>5 DEF Orderly
  <2> QED
    BY <1>4, <1>c, <2>2, <2>4, <2>6, <2>7, <2>h DEF Does
<1> QED
  BY <1>8, <1>9

\* Whoever holds a claim, every use of it is a plan.
LEMMA UseClaimDoes ==
  ASSUME Files, Kinds, NEW c \in Claims, UseClaim(c)
  PROVE  \E ws : Does(ws)
<1>1. c.run \in RunIds
  BY DEF Claims
<1>2. CASE BindAttempt(c)
  <2> DEFINE row == [rows[c.run] EXCEPT !.bound = TRUE]
  <2>1. Save(c.run, row) /\ rows[c.run].status \in Active
    BY <1>2 DEF BindAttempt, Valid
  <2>2. /\ row.status = rows[c.run].status /\ row.cancel = rows[c.run].cancel
        /\ row.result = rows[c.run].result
        /\ row.batch = rows[c.run].batch /\ row.item = rows[c.run].item
        /\ row.config = rows[c.run].config /\ row.fence = rows[c.run].fence
    BY <1>1 DEF Kinds, Row
  <2>3. row \in Row
    BY <1>1 DEF Kinds, Row
  <2> HIDE DEF row
  <2> QED
    BY <2>1, <2>2, <2>3, KeepDoes
<1>3. CASE Running(c)
  <2> DEFINE row == [rows[c.run] EXCEPT !.status = "running"]
  <2>1. Save(c.run, row) /\ rows[c.run].status \in Active
    BY <1>3 DEF Running, Mutable, Valid
  <2>2. /\ row.status \in Active /\ row.cancel = rows[c.run].cancel
        /\ row.result = rows[c.run].result
        /\ row.batch = rows[c.run].batch /\ row.item = rows[c.run].item
        /\ row.config = rows[c.run].config /\ row.fence = rows[c.run].fence
    BY <1>1 DEF Kinds, Row, Active
  <2>3. row \in Row
    BY <1>1 DEF Kinds, Row, Active
  <2> HIDE DEF row
  <2> QED
    BY <2>1, <2>2, <2>3, KeepDoes
<1>4. ASSUME NEW v \in 0..MaxProgress, Progress(c, v)
      PROVE  \E ws : Does(ws)
  <2> DEFINE row == [rows[c.run] EXCEPT !.progress = v]
  <2>1. Save(c.run, row) /\ rows[c.run].status \in Active
    BY <1>4 DEF Progress, Mutable, Valid
  <2>2. /\ row.status = rows[c.run].status /\ row.cancel = rows[c.run].cancel
        /\ row.result = rows[c.run].result
        /\ row.batch = rows[c.run].batch /\ row.item = rows[c.run].item
        /\ row.config = rows[c.run].config /\ row.fence = rows[c.run].fence
    BY <1>1 DEF Kinds, Row
  <2>3. row \in Row
    BY <1>1 DEF Kinds, Row
  <2> HIDE DEF row
  <2> QED
    BY <2>1, <2>2, <2>3, KeepDoes
<1>5. ASSUME NEW lag \in Lags, Heartbeat(c, lag)
      PROVE  \E ws : Does(ws)
  <2> DEFINE row == [rows[c.run] EXCEPT !.lease = LeaseTicks - lag]
  <2>1. Save(c.run, row) /\ rows[c.run].status \in Active
    BY <1>5 DEF Heartbeat, Valid
  <2>2. /\ row.status = rows[c.run].status /\ row.cancel = rows[c.run].cancel
        /\ row.result = rows[c.run].result
        /\ row.batch = rows[c.run].batch /\ row.item = rows[c.run].item
        /\ row.config = rows[c.run].config /\ row.fence = rows[c.run].fence
    BY <1>1 DEF Kinds, Row
  <2>3. row \in Row
    <3>1. LeaseTicks - lag \in Past..LeaseTicks
      BY QueueBounds DEF Past, Lags
    <3> QED
      BY <1>1, <3>1 DEF Kinds, Row
  <2> HIDE DEF row
  <2> QED
    BY <2>1, <2>2, <2>3, KeepDoes
<1> QED
  BY <1>2, <1>3, <1>4, <1>5, CommitDoes, RecoverDoes DEF UseClaim

\* What is left of a plan is a plan.
LEMMA ContinueDoes ==
  ASSUME QInv, Continue
  PROVE  Does(pending)
<1>1. /\ PlanOK(pending, made) /\ Orderly(pending, made) /\ Quiet
      /\ made \in Nat /\ made <= MaxRuns
  BY DEF QInv, Files, Ranks, Kinds
<1>2. /\ pending # <<>> /\ Write(Head(pending)) /\ pending' = Tail(pending) /\ made' = made
  BY DEF Continue
<1>3. Head(pending) = pending[1] /\ 1 \in 1..Len(pending)
  BY <1>1, <1>2, HeadAndTail DEF PlanOK
<1>4. Fitting(Head(pending))
  BY <1>1, <1>3 DEF Quiet, Fitting
<1> QED
  BY <1>1, <1>2, <1>4 DEF Does

\* Every step begins or continues a plan, drops it, or lets time pass.
LEMMA NextDoes ==
  ASSUME QInv, Next
  PROVE  (\E ws : Does(ws)) \/ GiveUp \/ Tick
<1>1. Files /\ Kinds /\ Ranks
  BY DEF QInv, Ranks
<1>2. ASSUME NEW r \in RunIds, RequestCancel(r) \/ \E lag \in Lags : Claim(r, lag)
      PROVE  \E ws : Does(ws)
  BY <1>1, <1>2, RequestCancelDoes, ClaimDoes
<1>3. ASSUME NEW b \in Batches,
             \/ \E n \in 1..MaxItems, config \in Configs : EnqueueBatch(b, n, config)
             \/ RetryFailed(b)
      PROVE  \E ws : Does(ws)
  BY <1>1, <1>3, EnqueueDoes, RetryDoes
<1> QED
  BY <1>1, <1>2, <1>3, UseClaimDoes, ContinueDoes DEF Next

-----------------------------------------------------------------------------
(* Crashes and the passage of time.                                        *)

SameRuns == \A r \in RunIds :
  /\ rows'[r] \in Row
  /\ rows'[r].status = rows[r].status /\ rows'[r].fence = rows[r].fence
  /\ rows'[r].batch = rows[r].batch /\ rows'[r].item = rows[r].item
  /\ rows'[r].config = rows[r].config

\* What may be run does not change while the files do not.
LEMMA RestingRanks ==
  ASSUME Ranks, SameRuns, UNCHANGED <<made, batches, roster, kept>>
  PROVE  Ranks' /\ Visible' = Visible
<1>1. Kinds'
  BY DEF Ranks, Kinds, SameRuns
<1>2. Visible' = Visible
  BY DEF Visible, SameRuns
<1>3. Attempts'
  <2>1. \A r \in Visible : r \in RunIds
    BY DEF Visible
  <2> QED
    BY <1>2, <2>1 DEF Ranks, Attempts, Listable, SameRuns
<1>4. ReservationsFit'
  <2>1. ActiveRuns' = ActiveRuns /\ \A r \in ActiveRuns' : rows'[r].config = rows[r].config
    BY DEF ActiveRuns, SameRuns
  <2> QED
    BY <2>1, StillFits, ReservationsAre DEF Ranks
<1> QED
  BY <1>1, <1>2, <1>3, <1>4 DEF Ranks

\* Nor do the writes that wait become others.
LEMMA RestingPlan ==
  ASSUME Files, Ranks, PlanOK(pending, made), Orderly(pending, made), Quiet,
         SameRuns, UNCHANGED <<made, batches, roster, kept, pending>>
  PROVE  Orderly(pending, made)' /\ Quiet'
<1>1. Visible' = Visible /\ \A r \in Visible : r \in RunIds
  BY RestingRanks DEF Visible
<1>2. ASSUME NEW k \in 1..Len(pending)
      PROVE  Typed(pending[k], made)'
  <2> DEFINE w == pending[k]
  <2>1. Typed(w, made) /\ Proper(w, made)
    BY DEF Orderly, PlanOK
  <2>2. w' = w
    OBVIOUS
  <2> HIDE DEF w
  <2>3. w.file = "row" => Steady(w.run, w.row)'
    <3>1. w.file = "row" => w.run \in RunIds /\ Steady(w.run, w.row)
      BY <2>1 DEF Proper, Typed
    <3> QED
      BY <1>1, <2>2, <3>1 DEF Steady, SameRuns
  <2>4. w.file = "batch" => Advances(w.batch, w.items)'
    BY <1>1, <2>1, <2>2 DEF Typed, Advances, Listable, SameRuns
  <2>5. Typed(w, made)' <=>
          /\ w.file = "row" => w.row \in Row /\ w.row.status # "absent" /\ Steady(w.run, w.row)'
          /\ w.file = "batch" => /\ w.batch \in Batches /\ ItemsOK(w.items, made)
                                 /\ Advances(w.batch, w.items)'
          /\ w.file = "result" => w.claim \in Claims
    BY <2>2 DEF Typed
  <2>6. Typed(w, made)'
    BY <2>1, <2>3, <2>4, <2>5 DEF Typed
  <2> QED
    BY <2>6 DEF w
<1>3. ASSUME NEW r \in RunIds, Placed(pending, r)
      PROVE  Placed(pending, r)'
  <2>1. \A b, i : WillTake(pending, r, b, i) => WillTake(pending, r, b, i)'
    BY DEF WillTake, SameRuns
  <2>2. \A b, items : WillList(pending, b, items) => WillList(pending, b, items)'
    BY DEF WillList
  <2>3. Placed(pending, r)' <=>
          \E b \in Batches : \E i : \E items :
            WillTake(pending, r, b, i)' /\ WillList(pending, b, items)' /\ i \in DOMAIN items /\ items[i] = r
    BY DEF Placed
  <2> QED
    BY <1>3, <2>1, <2>2, <2>3 DEF Placed
<1>4. \A k \in 1..Len(pending) : pending[k].file = "roster" =>
        \A r \in pending[k].new : r \in RunIds /\ Placed(pending, r)
  BY DEF PlanOK, Proper, Orderly
<1>5. Orderly(pending, made)' <=>
        /\ \A k \in 1..Len(pending) :
             /\ Typed(pending[k], made)'
             /\ pending[k].file = "roster" => \A r \in pending[k].new : Placed(pending, r)'
        /\ \A k, l \in 1..Len(pending) : pending[k].file = "batch" /\ pending[l].file = "batch" => k = l
  BY DEF Orderly
<1>6. Orderly(pending, made)'
  BY <1>2, <1>3, <1>4, <1>5 DEF Orderly
<1>7. Quiet'
  BY DEF Quiet
<1> QED
  BY <1>6, <1>7

\* Nothing is harmed when the pending writes are dropped.
LEMMA GiveUpInv ==
  ASSUME QInv, GiveUp
  PROVE  QInv'
<1>1. pending' = <<>> /\ Len(pending') = 0 /\ IsSeq(pending')
  BY DEF GiveUp, IsSeq
<1>2. \A i : i \notin 1..Len(pending')
  BY <1>1
<1>3. PlanOK(pending, made)' /\ Orderly(pending, made)' /\ Quiet'
  BY <1>1, <1>2 DEF PlanOK, IsSeq, Orderly, Quiet
<1>4. Files'
  BY DEF QInv, GiveUp, Files, HeldAreListed, RosterFits, ResultsAreKept
<1>5. Ranks'
  <2>1. SameRuns
    BY DEF SameRuns, QInv, Ranks, Kinds, GiveUp
  <2> QED
    BY <2>1, RestingRanks DEF QInv, GiveUp
<1> QED
  BY <1>3, <1>4, <1>5 DEF QInv

\* Time only shortens leases.
LEMMA TickRows ==
  ASSUME Files, Tick
  PROVE  /\ rows' = [r \in RunIds |-> rows'[r]]
         /\ \A r \in RunIds : /\ rows'[r].status = rows[r].status
                              /\ rows'[r].cancel = rows[r].cancel
                              /\ rows'[r].token = rows[r].token
                              /\ rows'[r].result = rows[r].result
                              /\ rows[r].status \notin Active => rows'[r] = rows[r]
         /\ Listed' = Listed
<1>1. rows' = [r \in RunIds |-> IF rows[r].lease > Past
                                THEN [rows[r] EXCEPT !.lease = @ - 1] ELSE rows[r]]
  BY DEF Tick
<1>2. \A r \in RunIds : /\ rows'[r].status = rows[r].status
                        /\ rows'[r].cancel = rows[r].cancel
                        /\ rows'[r].token = rows[r].token
                        /\ rows'[r].result = rows[r].result
  BY <1>1
<1>3. rows' = [r \in RunIds |-> rows'[r]]
  BY <1>1
<1>4. Listed' = Listed
  BY <1>2 DEF Tick, Listed, Files
<1>5. \A r \in RunIds : rows[r].status \notin Active => rows'[r] = rows[r]
  <2>1. ~ Past > Past
    BY QueueBounds DEF Past
  <2> QED
    BY <1>1, <2>1 DEF Files
<1> QED
  BY <1>2, <1>3, <1>4, <1>5

\* Time harms neither the files nor what is pending.
LEMMA TickInv ==
  ASSUME QInv, Tick
  PROVE  QInv'
<1>1. Files /\ PlanOK(pending, made)
  BY DEF QInv
<1>2. /\ made' = made /\ batches' = batches /\ roster' = roster /\ kept' = kept
      /\ pending' = pending
  BY DEF Tick
<1>3. Files'
  <2>1. HeldAreListed' /\ RosterFits' /\ ResultsAreKept'
    BY <1>1, <1>2, TickRows DEF Files, HeldAreListed, RosterFits, ResultsAreKept
  <2> QED
    BY <1>1, <1>2, <2>1, TickRows DEF Files
<1>4. ActiveRuns' = ActiveRuns
  BY <1>1, TickRows DEF ActiveRuns
<1>5. ASSUME NEW r \in RunIds, NEW row
      PROVE  /\ Later(r, row) => Later(r, row)'
             /\ Lawful(r, row) => Lawful(r, row)'
  <2>1. /\ rows'[r].status = rows[r].status /\ rows'[r].cancel = rows[r].cancel
        /\ rows'[r].result = rows[r].result
    BY <1>1, TickRows
  <2> QED
    BY <1>2, <1>4, <2>1 DEF Later, Lawful, Asks, Accepts, Takes, Keeps, HandsBack, Ends
<1>6. ASSUME NEW i \in 1..Len(pending)
      PROVE  Proper(pending[i], made)'
  BY <1>1, <1>2, TickRows DEF PlanOK, Proper
<1>7. ASSUME NEW i \in 1..Len(pending), pending[i].file = "row"
      PROVE  IF i = 1 THEN Lawful(pending[i].run, pending[i].row)'
                      ELSE Later(pending[i].run, pending[i].row)'
  <2>1. pending[i].run \in RunIds
    BY <1>1, <1>7 DEF PlanOK, Proper
  <2>2. IF i = 1 THEN Lawful(pending[i].run, pending[i].row)
                 ELSE Later(pending[i].run, pending[i].row)
    BY <1>1, <1>7 DEF PlanOK
  <2> QED
    BY <1>2, <1>5, <2>1, <2>2
<1>8. PlanOK(pending, made)'
  BY <1>1, <1>2, <1>6, <1>7 DEF PlanOK, IsSeq, Claimed
<1>9. SameRuns
  <2> SUFFICES ASSUME NEW r \in RunIds
               PROVE  /\ rows'[r] \in Row
                      /\ rows'[r].status = rows[r].status /\ rows'[r].fence = rows[r].fence
                      /\ rows'[r].batch = rows[r].batch /\ rows'[r].item = rows[r].item
                      /\ rows'[r].config = rows[r].config
    BY DEF SameRuns
  <2>1. rows[r] \in Row
    BY DEF QInv, Ranks, Kinds
  <2>2. rows'[r] = IF rows[r].lease > Past THEN [rows[r] EXCEPT !.lease = @ - 1] ELSE rows[r]
    BY DEF Tick
  <2>3. rows[r].lease > Past => rows[r].lease - 1 \in Past..LeaseTicks
    BY <2>1, QueueBounds DEF Row, Past
  <2> QED
    BY <2>1, <2>2, <2>3 DEF Row
<1>10. Ranks' /\ Orderly(pending, made)' /\ Quiet'
  BY <1>2, <1>9, RestingRanks, RestingPlan DEF QInv
<1> QED
  BY <1>3, <1>8, <1>10 DEF QInv

\* An empty directory is in order.
LEMMA QInitInv == Init => QInv
<1> SUFFICES ASSUME Init PROVE QInv
  OBVIOUS
<1>1. /\ NoRow.status = "absent" /\ NoRow.cancel = FALSE /\ NoRow.lease = Past
      /\ NoRow.token = 0 /\ NoRow.result = 0
  BY DEF NoRow, NewRow
<1>2. rows = [r \in RunIds |-> NoRow] /\ made = 0 /\ roster = {} /\ pending = <<>>
      /\ batches = [b \in Batches |-> <<>>]
  BY DEF Init
<1> HIDE DEF NoRow
<1>3. HeldAreListed /\ ResultsAreKept
  BY <1>1, <1>2 DEF HeldAreListed, ResultsAreKept, Active
<1>4. RosterFits
  BY <1>2, FS_EmptySet, QueuePolicy DEF RosterFits
<1>5. \A b \in Batches : DOMAIN batches[b] = 1..0
  BY <1>2
<1>6. Files
  BY <1>1, <1>2, <1>3, <1>4, <1>5 DEF Files, Statuses
<1>7. PlanOK(pending, made)
  <2>1. Len(pending) = 0 /\ IsSeq(pending)
    BY <1>2 DEF IsSeq
  <2>2. \A i : i \notin 1..Len(pending)
    BY <2>1
  <2> QED
    BY <2>1, <2>2 DEF PlanOK
<1>8. Orderly(pending, made) /\ Quiet
  <2>1. \A i : i \notin 1..Len(pending)
    BY <1>2
  <2> QED
    BY <2>1 DEF Orderly, Quiet
<1>9. Kinds
  <2>1. NoRow \in Row
    <3>1. (CHOOSE b \in Batches : TRUE) \in Batches /\ (CHOOSE c \in Configs : TRUE) \in Configs
      BY QueueBounds
    <3>2. /\ 0 \in 0..MaxRuns /\ 0 \in 0..MaxItems /\ 0 \in 0..MaxFence
          /\ 0 \in 0..MaxProgress /\ Past \in Past..LeaseTicks
      BY QueueBounds DEF Past
    <3> QED
      BY <3>1, <3>2 DEF NoRow, NewRow, Row
  <2>2. NoRow.fence = 0
    BY DEF NoRow, NewRow
  <2>3. \A b \in Batches : ItemsOK(batches[b], made)
    BY <1>2, <1>5, QueueBounds DEF ItemsOK
  <2> QED
    BY <1>2, <2>1, <2>2, <2>3, QueueBounds DEF Kinds, Init
<1>10. Visible = {} /\ ReservationsFit
  <2>1. NoRow.fence = 0
    BY DEF NoRow, NewRow
  <2> QED
    BY <1>1, <1>2, <2>1 DEF Visible, ReservationsFit, Active
<1> QED
  BY <1>6, <1>7, <1>8, <1>9, <1>10 DEF QInv, Ranks, Attempts

-----------------------------------------------------------------------------
(* The theorems.                                                           *)

\* The files are in order, and what is left of every operation harmless, in
\* every reachable state.
THEOREM QueueInvariant == Spec => []QInv
<1>1. Init => QInv
  BY QInitInv
<1>2. QInv /\ [Next]_vars => QInv'
  <2> SUFFICES ASSUME QInv, [Next]_vars PROVE QInv'
    OBVIOUS
  <2>1. ASSUME NEW ws, Does(ws)
        PROVE  QInv'
    BY <2>1, DoesKeeps
  <2>2. CASE UNCHANGED vars
    <3>1. /\ made' = made /\ rows' = rows /\ batches' = batches /\ roster' = roster
          /\ kept' = kept /\ pending' = pending
      BY <2>2 DEF vars
    <3>2. Files'
      BY <3>1 DEF QInv, Files, HeldAreListed, RosterFits, ResultsAreKept
    <3>3. Listed' = Listed /\ ActiveRuns' = ActiveRuns
      BY <3>1 DEF Listed, ActiveRuns
    <3>4. ASSUME NEW w PROVE Proper(w, made) => Proper(w, made)'
      BY <3>1, <3>3 DEF Proper
    <3>5. ASSUME NEW r, NEW row
          PROVE  (Later(r, row) => Later(r, row)') /\ (Lawful(r, row) => Lawful(r, row)')
      BY <3>1, <3>3 DEF Later, Lawful, Asks, Accepts, Takes, Keeps, HandsBack, Ends
    <3>6. PlanOK(pending, made)'
      BY <3>1, <3>4, <3>5 DEF QInv, PlanOK, IsSeq, Claimed
    <3>7. SameRuns
      BY <3>1 DEF SameRuns, QInv, Ranks, Kinds
    <3>8. Ranks' /\ Orderly(pending, made)' /\ Quiet'
      BY <3>1, <3>7, RestingRanks, RestingPlan DEF QInv
    <3> QED
      BY <3>2, <3>6, <3>8 DEF QInv
  <2> QED
    BY <2>1, <2>2, NextDoes, GiveUpInv, TickInv
<1> QED
  BY <1>1, <1>2, PTL DEF Spec

\* claim() and expired() find every executed run in active.json, wherever an
\* operation was interrupted.
THEOREM ExecutedRunsAreListed == Spec => []HeldAreListed
BY QueueInvariant, PTL DEF QInv, Files

\* active.json never outgrows queue_limit, however many crashes leave ended
\* runs in it.
THEOREM RosterStaysBounded == Spec => []RosterFits
BY QueueInvariant, PTL DEF QInv, Files

\* A published result was retained before (local_queue.py:359-362).
THEOREM PublishedQueueResults == Spec => []ResultsAreKept
BY QueueInvariant, PTL DEF QInv, Files

\* Supervisors can run one attempt of an item only, and what they run fits the
\* group budget and the roster, wherever an enqueue, a retry or an outcome was
\* cut off: _active(), claim() and retry_failed() (local_queue.py:134-144, 233-258,
\* 400-439).
THEOREM WhatMayRunFits == Spec => []RunnableFits
<1>1. ASSUME QInv
      PROVE  RunnableFits
  <2>1. Files /\ Kinds /\ Attempts /\ ReservationsFit /\ RosterFits
    BY <1>1 DEF QInv, Ranks, Files
  <2>2. QueueTypeOK
    <3>1. made \in 0..MaxRuns /\ rows \in [RunIds -> Row] /\ kept \subseteq Claims
      BY <2>1 DEF Files, Kinds
    <3>2. roster \subseteq 1..made
      BY <2>1, QueueBounds DEF Files, RunIds
    <3>3. \A b \in Batches : /\ DOMAIN batches[b] \in {1..n : n \in 0..MaxItems}
                              /\ \A i \in DOMAIN batches[b] : batches[b][i] \in 1..made
      BY <2>1 DEF Kinds, ItemsOK
    <3> QED
      BY <3>1, <3>2, <3>3 DEF QueueTypeOK
  <2>3. OneRunnableAttempt
    <3> SUFFICES ASSUME NEW q \in Visible, NEW r \in Visible, q < r,
                        rows[q].batch = rows[r].batch, rows[q].item = rows[r].item
                 PROVE  rows[q].status = "failed"
      BY DEF OneRunnableAttempt, Visible
    <3> DEFINE latest == batches[rows[r].batch][rows[r].item]
    <3>1. r <= latest /\ (q # latest => rows[q].status = "failed")
      BY <2>1 DEF Attempts, Listable
    <3>2. q \in Nat /\ r \in Nat
      BY QueueBounds DEF Visible, RunIds
    <3> HIDE DEF latest
    <3> QED
      BY <3>1, <3>2
  <2> QED
    BY <2>1, <2>2, <2>3 DEF RunnableFits
<1> QED
  BY <1>1, QueueInvariant, PTL

\* No write, done at once or left pending, touches the file of an ended run.
THEOREM EndedFilesAreSettled == Spec => QueueSettled
<1>1. QInv /\ [Next]_vars => [\A r \in RunIds : rows[r].status \in Terminal =>
                                                rows'[r] = rows[r]]_vars
  <2> SUFFICES ASSUME QInv, Next, NEW r \in RunIds, rows[r].status \in Terminal
               PROVE  rows'[r] = rows[r]
    OBVIOUS
  <2>1. Files
    BY DEF QInv
  <2>2. ASSUME NEW q \in RunIds, NEW row, Lawful(q, row), rows' = [rows EXCEPT ![q] = row]
        PROVE  rows'[r] = rows[r]
    <3>1. rows[q].status \notin Terminal
      BY <2>2 DEF Lawful, Asks, Accepts, Takes, Keeps, HandsBack, Ends, Terminal, Active
    <3> QED
      BY <2>1, <2>2, <3>1 DEF Files
  <2>3. CASE \E ws : Does(ws)
    BY <2>1, <2>2, <2>3, RowOrNot
  <2>4. CASE GiveUp
    BY <2>4 DEF GiveUp
  <2>5. CASE Tick
    <3>1. rows[r].status \notin Active
      BY DEF Active, Terminal
    <3> QED
      BY <2>1, <2>5, <3>1, TickRows
  <2> QED
    BY <2>3, <2>4, <2>5, NextDoes
<1> QED
  BY <1>1, QueueInvariant, PTL DEF Spec, QueueSettled

-----------------------------------------------------------------------------
(* The files implement the life of a run.                                  *)

phase     == [r \in RunIds |-> PhaseOf(rows[r])]
asked     == [r \in RunIds |-> rows[r].cancel]
published == [r \in RunIds |-> rows[r].result # 0]

\* The phase stands for the status.
LEMMA PhaseOfStatus ==
  ASSUME NEW row
  PROVE  /\ row.status = "absent" => PhaseOf(row) = "none"
         /\ row.status = "queued" => PhaseOf(row) = "waiting"
         /\ row.status \in Active => PhaseOf(row) = "held"
         /\ row.status \in Terminal => PhaseOf(row) = row.status
BY DEF PhaseOf, Active, Terminal

\* A lawful write of a row is a step of that run's life.
LEMMA LawfulMaps ==
  ASSUME Files, NEW r \in RunIds, NEW row, Lawful(r, row), rows' = [rows EXCEPT ![r] = row]
  PROVE  Lifecycle!Next \/ UNCHANGED <<phase, asked, published>>
<1>1. /\ phase' = [phase EXCEPT ![r] = PhaseOf(row)]
      /\ asked' = [asked EXCEPT ![r] = row.cancel]
      /\ published' = [published EXCEPT ![r] = (row.result # 0)]
  BY DEF phase, asked, published, Files
<1>2. /\ phase = [phase EXCEPT ![r] = PhaseOf(rows[r])]
      /\ asked = [asked EXCEPT ![r] = rows[r].cancel]
      /\ published = [published EXCEPT ![r] = (rows[r].result # 0)]
      /\ phase[r] = PhaseOf(rows[r]) /\ asked[r] = rows[r].cancel
      /\ published[r] = (rows[r].result # 0)
  BY DEF phase, asked, published
<1>3. CASE row.cancel = rows[r].cancel /\ Accepts(r, row)
  <2>1. phase[r] = "none" /\ PhaseOf(row) = "waiting" /\ rows[r].result = 0 /\ row.result = 0
    BY <1>2, <1>3, PhaseOfStatus DEF Accepts, Files, Terminal
  <2>2. UNCHANGED <<asked, published>> /\ phase' = [phase EXCEPT ![r] = "waiting"]
    BY <1>1, <1>2, <1>3, <2>1
  <2>3. phase' = [q \in RunIds |-> IF q \in {r} THEN "waiting" ELSE phase[q]]
    BY <2>2 DEF phase
  <2>4. {r} \in SUBSET {q \in RunIds : phase[q] = "none"}
    BY <2>1
  <2>5. Lifecycle!Accept
    BY <2>2, <2>3, <2>4 DEF Lifecycle!Accept, phase, asked, published
  <2> QED
    BY <2>5 DEF Lifecycle!Next
<1>4. CASE row.cancel = rows[r].cancel /\ Takes(r, row)
  <2>1. phase[r] = "waiting" /\ PhaseOf(row) = "held" /\ row.result = rows[r].result
    BY <1>2, <1>4, PhaseOfStatus DEF Takes, Active
  <2>2. UNCHANGED <<asked, published>> /\ phase' = [phase EXCEPT ![r] = "held"]
    BY <1>1, <1>2, <1>4, <2>1
  <2>3. \A q \in RunIds : phase[q] = "held" <=> rows[q].status \in Active
    <3>1. \A q \in RunIds : rows[q].status \in Statuses /\ phase[q] = PhaseOf(rows[q])
      BY DEF Files, phase
    <3> QED
      BY <3>1 DEF Statuses, PhaseOf, Active, Terminal
  <2>4. Lifecycle!Holding = ActiveRuns
    BY <2>3 DEF Lifecycle!Holding, ActiveRuns, phase
  <2>5. Lifecycle!Cardinality(Lifecycle!Holding) < Concurrency
    BY <1>4, <2>4 DEF Takes, Lifecycle!Cardinality, Cardinality
  <2>6. Lifecycle!Take(r)
    BY <2>1, <2>2, <2>5 DEF Lifecycle!Take, phase, asked, published
  <2> QED
    BY <2>6 DEF Lifecycle!Next
<1>5. CASE row.cancel = rows[r].cancel /\ Keeps(r, row)
  <2>1. PhaseOf(rows[r]) = PhaseOf(row) /\ row.result = rows[r].result
    BY <1>5, PhaseOfStatus DEF Keeps
  <2> QED
    BY <1>1, <1>2, <1>5, <2>1
<1>6. CASE row.cancel = rows[r].cancel /\ HandsBack(r, row)
  <2>1. /\ phase[r] = "held" /\ PhaseOf(row) = "waiting" /\ ~ asked[r]
        /\ row.result = rows[r].result
    BY <1>2, <1>6, PhaseOfStatus DEF HandsBack
  <2>2. UNCHANGED <<asked, published>> /\ phase' = [phase EXCEPT ![r] = "waiting"]
    BY <1>1, <1>2, <1>6, <2>1
  <2>3. Lifecycle!HandBack(r)
    BY <2>1, <2>2 DEF Lifecycle!HandBack, phase, asked, published
  <2> QED
    BY <2>3 DEF Lifecycle!Next
<1>7. CASE row.cancel = rows[r].cancel /\ Ends(r, row)
  <2> DEFINE o == row.status
  <2>1. /\ phase[r] = "held" /\ PhaseOf(row) = o /\ o \in Terminal
        /\ asked[r] => o = "cancelled"
        /\ rows[r].result = 0
    BY <1>2, <1>7, PhaseOfStatus DEF Ends, Files, Active, Terminal
  <2>2. /\ asked' = asked /\ phase' = [phase EXCEPT ![r] = o]
        /\ published' \in {published, [published EXCEPT ![r] = TRUE]}
    <3>1. CASE row.result = 0
      BY <1>1, <1>2, <1>7, <2>1, <3>1
    <3>2. CASE row.result # 0
      BY <1>1, <1>2, <1>7, <2>1, <3>2
    <3> QED
      BY <3>1, <3>2
  <2>3. published'[r] = (row.result # 0)
    BY <1>1 DEF published
  <2>4. o = "succeeded" => published'[r]
    BY <1>7, <2>3 DEF Ends
  <2> HIDE DEF o
  <2>5. Lifecycle!End(r, o)
    BY <2>1, <2>2, <2>4 DEF Lifecycle!End, phase, asked, published
  <2>6. Lifecycle!Ended = Terminal
    BY DEF Lifecycle!Ended, Terminal
  <2> QED
    BY <2>1, <2>5, <2>6 DEF Lifecycle!Next
<1>8. CASE Asks(r, row)
  <2>1. /\ phase[r] \in {"waiting", "held"}
        /\ PhaseOf(row) = IF phase[r] = "waiting" THEN "cancelled" ELSE phase[r]
        /\ row.result = rows[r].result /\ row.cancel = TRUE
    BY <1>2, <1>8, PhaseOfStatus DEF Asks, Terminal
  <2>2. /\ phase' = [phase EXCEPT ![r] = IF @ = "waiting" THEN "cancelled" ELSE @]
        /\ asked' = [asked EXCEPT ![r] = TRUE]
        /\ published' = published
    BY <1>1, <1>2, <2>1
  <2>3. Lifecycle!Ask(r)
    BY <2>1, <2>2 DEF Lifecycle!Ask, phase, asked, published
  <2> QED
    BY <2>3 DEF Lifecycle!Next
<1> QED
  BY <1>3, <1>4, <1>5, <1>6, <1>7, <1>8 DEF Lawful

\* The files, written one at a time and left wherever a crash falls, implement
\* the same life of a run as the table of the database.
THEOREM FilesImplementLifecycle == Spec => QueueLifecycle
<1>1. Init => Lifecycle!Init
  <2>1. NoRow.status = "absent" /\ NoRow.cancel = FALSE /\ NoRow.result = 0
    BY DEF NoRow, NewRow
  <2>2. PhaseOf(NoRow) = "none"
    BY <2>1, PhaseOfStatus
  <2> QED
    BY <2>1, <2>2 DEF Init, Lifecycle!Init
<1>2. QInv /\ [Next]_vars => [Lifecycle!Next]_(Lifecycle!vars)
  <2> SUFFICES ASSUME QInv, [Next]_vars
               PROVE  Lifecycle!Next \/ UNCHANGED <<phase, asked, published>>
    BY DEF Lifecycle!vars, phase, asked, published
  <2>1. Files
    BY DEF QInv
  <2>2. CASE rows' = rows
    BY <2>2 DEF phase, asked, published
  <2>3. CASE \E ws : Does(ws)
    BY <2>1, <2>2, <2>3, RowOrNot, LawfulMaps
  <2>4. CASE Tick
    <3>1. \A r \in RunIds : /\ rows'[r].status = rows[r].status
                            /\ rows'[r].cancel = rows[r].cancel
                            /\ rows'[r].result = rows[r].result
      BY <2>1, <2>4, TickRows
    <3>2. \A r \in RunIds : PhaseOf(rows'[r]) = PhaseOf(rows[r])
      BY <3>1 DEF PhaseOf
    <3> QED
      BY <3>1, <3>2 DEF phase, asked, published
  <2>5. GiveUp \/ UNCHANGED vars => rows' = rows
    BY DEF GiveUp, vars
  <2> QED
    BY <2>2, <2>3, <2>4, <2>5, NextDoes
<1> QED
  BY <1>1, <1>2, QueueInvariant, PTL DEF Spec, QueueLifecycle, Lifecycle!Spec
=============================================================================
