------------------------------ MODULE MCSession -------------------------------
(* Instances of Session for the model checker. *)
EXTENDS Session

ServeAll == [p \in Procs |-> Users]

=============================================================================
