------------------------------ MODULE Accounts ------------------------------
(***************************************************************************)
(* What the virtual domain promises those who administer it                *)
(* (lib/vdomain/vdomain.h): adduser, chattr and deluser each act on one    *)
(* account in one step, or are refused and change nothing, and the answer  *)
(* says which.  Only deluser may say that it failed when the account is    *)
(* gone: its directory was not.                                            *)
(***************************************************************************)

CONSTANTS Procs, Users, Reqs, Absent, None

VARIABLES
    account, \* the entry of each user, Absent if there is none
    want,    \* the request each process works on
    said     \* its answer, once it is decided

vars == <<account, want, said>>

Init ==
    /\ account = [u \in Users |-> Absent]
    /\ want = [p \in Procs |-> None]
    /\ said = [p \in Procs |-> None]

Ask(p, r) ==
    /\ want[p] = None
    /\ want' = [want EXCEPT ![p] = r]
    /\ UNCHANGED <<account, said>>

Decide(p, ok) ==
    /\ want[p] # None /\ said[p] = None
    /\ said' = [said EXCEPT ![p] = ok]
    /\ UNCHANGED want

AddUser(p) ==
    /\ Decide(p, TRUE)
    /\ want[p].kind = "adduser" /\ account[want[p].user] = Absent
    /\ account' = [account EXCEPT ![want[p].user] = want[p].entry]

(* One attribute of the account as it is now. *)
Change(p) ==
    /\ Decide(p, TRUE)
    /\ want[p].kind \in {"chattr", "chforwards"}
    /\ account[want[p].user] # Absent
    /\ account' = [account EXCEPT ![want[p].user].attr[want[p].attr] = want[p].word]

DelUser(p) ==
    /\ Decide(p, TRUE)
    /\ want[p].kind = "deluser" /\ account[want[p].user] # Absent
    /\ account' = [account EXCEPT ![want[p].user] = Absent]

Refuse(p) == Decide(p, FALSE) /\ UNCHANGED account

(* "Couldn't delete user's directory" *)
Complain(p) ==
    /\ want[p] # None /\ want[p].kind = "deluser" /\ said[p] = TRUE
    /\ said' = [said EXCEPT ![p] = FALSE]
    /\ UNCHANGED <<account, want>>

(* The process has answered, or is gone without an answer. *)
Leave(p) ==
    /\ want[p] # None
    /\ want' = [want EXCEPT ![p] = None]
    /\ said' = [said EXCEPT ![p] = None]
    /\ UNCHANGED account

Next ==
    \E p \in Procs :
        \/ \E r \in Reqs : Ask(p, r)
        \/ AddUser(p) \/ Change(p) \/ DelUser(p) \/ Refuse(p)
        \/ Complain(p) \/ Leave(p)

Spec == Init /\ [][Next]_vars

=============================================================================
