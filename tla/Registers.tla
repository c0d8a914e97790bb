------------------------------ MODULE Registers ------------------------------
(* Notation shared by the clocked modules: a one-bit register is loaded with *)
(* the truth of a condition.                                                 *)

Bit(cond) == IF cond THEN TRUE ELSE FALSE

\* A sticky error bit: set wins over clear, otherwise it is held.
Sticky(bit, set, clear) == Bit(set \/ (bit /\ ~clear))
============================================================================
