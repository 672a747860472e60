----------------------------- MODULE MCVDeliver -----------------------------
(* Instances of VDeliver for the model checker. *)
EXTENDS VDeliver, TLC

(* A domain whose mail for unknown users is forwarded. *)
CatchAll == [mailbox |-> FALSE, forwards |-> TRUE, expired |-> FALSE]

Interchangeable == Permutations(Msgs) \cup Permutations(Files)

=============================================================================
