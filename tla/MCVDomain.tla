----------------------------- MODULE MCVDomain ------------------------------
(* Instances of VDomain for the model checker. *)
EXTENDS VDomain, TLC

ServeAll == [p \in Procs |-> Users]

(* Each of two processes has one of two users to itself. *)
ServeApart ==
    CHOOSE f \in [Procs -> {{u} : u \in Users}] :
        \A p, q \in Procs : p # q => f[p] # f[q]

SameFiles == Permutations(Inodes)

(* Processes that each have users to themselves change places with them.   *)
Sides ==
    {f \in Permutations(Procs \cup Users) :
        \A p \in Procs : f[p] \in Procs /\ Serves[f[p]] = {f[u] : u \in Serves[p]}}

SameSides == {f @@ g : f \in SameFiles, g \in Sides}

=============================================================================
