--------------------------- MODULE MCCurrentStore ---------------------------
(***************************************************************************)
(* Instances of CurrentStore: one partition of two key ranges with an      *)
(* upserted scope and one that replaces the partition, under two writers;  *)
(* and two datasets under a reader of both.                                *)
(***************************************************************************)
EXTENDS CurrentStore, TLC
Sym == Permutations(Writers) \cup Permutations(Readers)

MCSpan  == [s \in Scopes |-> IF s \in Merges THEN {1} ELSE Keys]
MCHolds == [n \in Inputs |-> IF n = 1 THEN Keys ELSE {1}]
MCFeeds == [c \in Datasets \X Scopes |-> IF c[1] = 2 THEN {1} ELSE IF c[2] \in Merges THEN {2}
                                       ELSE IF Merges = {} THEN Inputs ELSE {1}]

Whole == {Datasets}

\* The updates that may report problems.
OfNone == {}
OfHead == Datasets \X Merges
OfPart == {2} \X (Scopes \ Merges)
=============================================================================
