-------------------------- MODULE MCRunRepository --------------------------
(* Values of the constants for the runs of RunRepository.                  *)
EXTENDS RunRepository, TLC

MCResources == {"cpu", "memory"}

\* Two small workers fit together; a large one fits only alone.
MCLimits == [c \in Configs |-> IF c = "small" THEN [cpu |-> 1, memory |-> 1]
                                              ELSE [cpu |-> 2, memory |-> 3]]
MCBudget  == [cpu |-> 3, memory |-> 5]
MCReserve == [cpu |-> 1, memory |-> 2]

\* Idempotency keys are only compared.
KeySymmetry == Permutations(Keys)
=============================================================================
