------------------------- MODULE MCExecutionAttempts -------------------------
(* The runs carry the same key: the second is a recheck or a redelivery.    *)
EXTENDS ExecutionAttempts

CONSTANT k1

MCKeyOf == [r \in Runs |-> k1]
=============================================================================
