------------------------------ MODULE MCOutbox ------------------------------
(* Small instances of Outbox for TLC. *)
EXTENDS OutboxInvariant, TLC

MCSymmetry == Permutations(Workers) \cup Permutations(References)
=============================================================================
