----------------------------- MODULE MCVPwTable -----------------------------
(* Instances of VPwTable for the model checker. *)
EXTENDS VPwTable, TLC

Interchangeable == Permutations(Procs) \cup Permutations(Names)
                   \cup Permutations(Vals) \cup Permutations(Inodes)

=============================================================================
