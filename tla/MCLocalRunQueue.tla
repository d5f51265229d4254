-------------------------- MODULE MCLocalRunQueue --------------------------
(* Values of the constants for the runs of LocalRunQueue.                  *)
EXTENDS LocalRunQueue, TLC

MCResources == {"cpu", "memory"}

\* Two small workers fit together; a large one fits only alone.
MCLimits == [c \in Configs |-> IF c = "small" THEN [cpu |-> 1, memory |-> 1]
                                              ELSE [cpu |-> 2, memory |-> 3]]
MCBudget  == [cpu |-> 3, memory |-> 5]
MCReserve == [cpu |-> 1, memory |-> 2]

\* Bound: only the first run is claimed a second time.
ReclaimFirst == \A r \in RunIds : rows[r].fence > 1 => r = 1
=============================================================================
