------------------------ MODULE MCRunnerSupervisor ------------------------
(* Values of the constants for the runs of RunnerSupervisor: one resource, *)
(* one worker at a time costs one unit.                                    *)
EXTENDS RunnerSupervisor, TLC

MCLimits  == [c \in Configs |-> [cpu |-> 1]]
MCBudget  == [cpu |-> 3]
MCReserve == [cpu |-> 1]

\* Supervisors run the same code.
Identical == Permutations(Supervisors)

\* Bound: a cancellation is asked for before the last claim is taken.
EarlyCancel == \A r \in RunIds : rows[r].cancel => rows[r].fence < MaxFence
=============================================================================
