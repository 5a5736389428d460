----------------------- MODULE MCTransactionRecovery -----------------------
(* Small instances of TransactionRecovery for TLC. *)
EXTENDS TransactionRecovery

NoDependencies == [m \in Members |-> {}]
=============================================================================
