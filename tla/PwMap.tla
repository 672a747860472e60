------------------------------- MODULE PwMap --------------------------------
(***************************************************************************)
(* What the password table promises its callers (lib/vpwtable/vpwtable.h): *)
(* a map from names to records on which add, set and del act in one step   *)
(* and answer whether they did.                                            *)
(***************************************************************************)

CONSTANTS Procs, Names, Vals, Absent, None

VARIABLES
    map,    \* the table every reader sees
    call,   \* the update each process has asked for
    answer  \* its answer, once there is one

vars == <<map, call, answer>>

Ops == [kind: {"add", "set", "del"}, name: Names, val: Vals]

Init ==
    /\ map = [n \in Names |-> Absent]
    /\ call = [p \in Procs |-> None]
    /\ answer = [p \in Procs |-> None]

Invoke(p, o) ==
    /\ call[p] = None
    /\ call' = [call EXCEPT ![p] = o]
    /\ UNCHANGED <<map, answer>>

Pending(p) == call[p] # None /\ answer[p] = None

Reply(p, ok) ==
    /\ Pending(p)
    /\ answer' = [answer EXCEPT ![p] = ok]
    /\ UNCHANGED call

(* add only a name that is not there, set only one that is. *)
Add(p) ==
    /\ Reply(p, TRUE)
    /\ call[p].kind = "add" /\ map[call[p].name] = Absent
    /\ map' = [map EXCEPT ![call[p].name] = call[p].val]

Set(p) ==
    /\ Reply(p, TRUE)
    /\ call[p].kind = "set" /\ map[call[p].name] # Absent
    /\ map' = [map EXCEPT ![call[p].name] = call[p].val]

Del(p) ==
    /\ Reply(p, TRUE)
    /\ call[p].kind = "del"
    /\ map' = [map EXCEPT ![call[p].name] = Absent]

(* A refused update changes nothing. *)
Refuse(p) == Reply(p, FALSE) /\ UNCHANGED map

(* The caller has its answer, or is gone without one. *)
Leave(p) ==
    /\ call[p] # None
    /\ call' = [call EXCEPT ![p] = None]
    /\ answer' = [answer EXCEPT ![p] = None]
    /\ UNCHANGED map

Next ==
    \E p \in Procs :
        \/ \E o \in Ops : Invoke(p, o)
        \/ Add(p) \/ Set(p) \/ Del(p) \/ Refuse(p) \/ Leave(p)

Spec == Init /\ [][Next]_vars

=============================================================================
