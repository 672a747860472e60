---------------------------- MODULE VDomainProofs ----------------------------
(***************************************************************************)
(* Theorems about VDomain, for any number of processes, users, attributes  *)
(* and files.                                                              *)
(*                                                                         *)
(* The calls of the domain are steps of VPwTable, so that its theorems     *)
(* hold here (TableMoves, NextKeeps).  The invariant of the requests       *)
(* (Linked) ties each request to its call.  What makes accounts whole is   *)
(* Tidy: what the lookup of a request has found is still so when its       *)
(* update is decided (Fits), and its account is as far as the request says *)
(* it is (Settled).  This takes processes that serve users of their own    *)
(* (Separate): what one has looked up another might change before it is    *)
(* used.  That no copy of the table replaces a newer one it takes as well  *)
(* (Orderly); a process that is alone sees to that itself (Alone).         *)
(* Who is to blame for a directory left behind needs neither of the two:   *)
(* only what each request minds (MindsAtWork).                             *)
(***************************************************************************)
EXTENDS VDomain, TLAPS

TP == INSTANCE VPwTableProofs WITH Names <- Users, Vals <- Entries

-----------------------------------------------------------------------------
(* The table of VDomain is the one the theorems are about *)

(* What the table's theorems assume of the constants. *)
LEMMA TableAssumption == TP!ConstantsAssumption
BY DomainAssumption DEF TP!ConstantsAssumption

(* Its state, its types and what a reader finds.                           *)
LEMMA SameTable ==
    /\ Visible = TP!Visible
    /\ Table!TypeOK <=> TP!TypeOK
    /\ Table!Init <=> TP!Init
<1>1. Visible = TP!Visible
  BY DEF Visible, Table!Visible, TP!Visible, Table!View, TP!View, Table!EmptyTable, TP!EmptyTable
<1>2. Table!TypeOK <=> TP!TypeOK
  BY DEF Table!TypeOK, TP!TypeOK, Table!Contents, TP!Contents, Table!Progress,
     TP!Progress, Table!Steps, TP!Steps, Table!Writing, TP!Writing, Table!Ops, TP!Ops
<1>3. Table!Init <=> TP!Init
  BY DEF Table!Init, TP!Init, Table!NoBytes, TP!NoBytes, Table!EmptyTable, TP!EmptyTable
<1> QED
  BY <1>1, <1>2, <1>3

(* Its steps.                                                              *)
LEMMA SameReap == Table!Reap <=> TP!Reap
BY DEF Table!Reap, TP!Reap, Table!Referenced, TP!Referenced, Table!NoBytes,
   TP!NoBytes, Table!EmptyTable, TP!EmptyTable

(* Leaving a call.                                                         *)
LEMMA SameLeave ==
    ASSUME NEW p PROVE Table!Leave(p) <=> TP!Leave(p)
BY SameReap DEF Table!Leave, TP!Leave, Table!Goto, TP!Goto, Table!EmptyTable, TP!EmptyTable

(* Each step of a call.                                                    *)
LEMMA SameSteps ==
    ASSUME NEW p
    PROVE  /\ \A o : Table!Call(p, o) <=> TP!Call(p, o)
           /\ Table!OpenTable(p) <=> TP!OpenTable(p)
           /\ Table!CreateTmp(p) <=> TP!CreateTmp(p)
           /\ Table!Copy(p) <=> TP!Copy(p)
           /\ Table!FlushBody(p) <=> TP!FlushBody(p)
           /\ Table!FlushHeader(p) <=> TP!FlushHeader(p)
           /\ Table!Rename(p) <=> TP!Rename(p)
           /\ Table!Unlink(p) <=> TP!Unlink(p)
           /\ Table!WriteError(p) <=> TP!WriteError(p)
           /\ Table!OpenError(p) <=> TP!OpenError(p)
           /\ Table!Return(p) <=> TP!Return(p)
           /\ Table!Die(p) <=> TP!Die(p)
<1> USE DEF Table!Goto, TP!Goto, Table!Finish, TP!Finish
<1>1. \A o : Table!Call(p, o) <=> TP!Call(p, o)
  BY DEF Table!Call, TP!Call
<1>2. Table!OpenTable(p) <=> TP!OpenTable(p)
  BY SameLeave DEF Table!OpenTable, TP!OpenTable, Table!Torn, TP!Torn, Table!Contents,
     TP!Contents, Table!MayRead, TP!MayRead, Table!EmptyTable, TP!EmptyTable
<1>3. Table!CreateTmp(p) <=> TP!CreateTmp(p)
  BY DEF Table!CreateTmp, TP!CreateTmp, Table!Referenced, TP!Referenced
<1>4. Table!Copy(p) <=> TP!Copy(p)
  BY DEF Table!Copy, TP!Copy, Table!Allowed, TP!Allowed
<1>5. Table!FlushBody(p) <=> TP!FlushBody(p)
  BY DEF Table!FlushBody, TP!FlushBody, Table!Write, TP!Write, Table!Apply, TP!Apply
<1>6. Table!FlushHeader(p) <=> TP!FlushHeader(p)
  BY DEF Table!FlushHeader, TP!FlushHeader, Table!Write, TP!Write, Table!Apply, TP!Apply
<1>7. Table!Rename(p) <=> TP!Rename(p)
  BY SameReap DEF Table!Rename, TP!Rename
<1>8. Table!Unlink(p) <=> TP!Unlink(p)
  BY SameReap DEF Table!Unlink, TP!Unlink, Table!Holds, TP!Holds, Table!Writing, TP!Writing
<1>9. Table!WriteError(p) <=> TP!WriteError(p)
  BY DEF Table!WriteError, TP!WriteError, Table!Holds, TP!Holds, Table!Writing, TP!Writing,
     Table!CopiesRecords, TP!CopiesRecords
<1>10. Table!OpenError(p) <=> TP!OpenError(p)
  BY DEF Table!OpenError, TP!OpenError
<1>11. Table!Return(p) <=> TP!Return(p)
  BY SameLeave DEF Table!Return, TP!Return
<1>12. Table!Die(p) <=> TP!Die(p)
  BY SameLeave DEF Table!Die, TP!Die
<1> QED
  BY <1>1, <1>2, <1>3, <1>4, <1>5, <1>6, <1>7, <1>8, <1>9, <1>10, <1>11, <1>12

-----------------------------------------------------------------------------
(* The invariant of the requests *)

(* A process is in the table's code exactly while it calls it, with the    *)
(* call that its request makes of the entry it has found; it has an entry  *)
(* from the lookup to the end of the call.                                 *)
LinkedOf(p) ==
    /\ stage[p] = "calling" <=> pc[p] # "idle"
    /\ stage[p] = "idle" <=> req[p] = None
    /\ stage[p] # "idle" => req[p].kind \in Requests /\ req[p].user \in Serves[p]
    /\ stage[p] \in {"mkdirp", "maildir", "putting", "calling"} => vpw[p] \in Entries
    /\ stage[p] = "calling" => op[p] = OpOf(req[p], vpw[p])
    /\ stage[p] \in {"mkdirp", "maildir"} => req[p].kind \in {"adduser", "chforwards"}
    /\ stage[p] \in {"emptying", "sweeping", "rmdir"} => req[p].kind # "chattr"

Linked == \A p \in Procs : LinkedOf(p)

DInv == TP!IInv /\ TypeOK /\ Linked

(* What a request makes of an entry is an entry, and what it calls with it *)
(* is a call of the table.                                                 *)
LEMMA ReqType ==
    ASSUME NEW r \in Reqs
    PROVE  /\ r.user \in Users
           /\ r.kind \in Kinds
           /\ r.kind = "adduser" => r.entry \in Entries
           /\ r.kind \in {"chattr", "chforwards"} => r.word \in Words
BY DEF Reqs, Kinds

(* What a request makes of an entry is an entry.                           *)
LEMMA EditedType ==
    ASSUME NEW r \in Reqs, NEW found \in Entries \cup {Absent},
           r.kind # "adduser" => found \in Entries
    PROVE  Edited(r, found) \in Entries
<1>1. CASE r.kind = "adduser"
  BY <1>1, ReqType DEF Edited
<1>2. CASE r.kind \in {"chattr", "chforwards"}
  <2>1. Edited(r, found) = [found EXCEPT !.attr[r.attr] = r.word]
    BY <1>2 DEF Edited
  <2>2. found \in Entries /\ r.word \in Words
    BY <1>2, ReqType
  <2> QED
    BY <2>1, <2>2 DEF Entries
<1>3. CASE r.kind = "deluser"
  BY <1>3 DEF Edited
<1> QED
  BY <1>1, <1>2, <1>3, ReqType DEF Kinds

(* What it calls with it is a call of the table.                           *)
LEMMA OpOfType ==
    ASSUME NEW r \in Reqs, NEW e \in Entries
    PROVE  OpOf(r, e) \in TP!Ops
BY ReqType DEF OpOf, TP!Ops, Kinds

-----------------------------------------------------------------------------
(* What the steps of a call do, as far as the domain can tell *)

(* A step of one call leaves the others where they are; it ends the call's *)
(* process, or decides the call without touching the table, or unlinks, or *)
(* works on, or is the rename.                                             *)
Others(p) ==
    \A q \in Procs \ {p} : pc'[q] = pc[q] /\ op'[q] = op[q] /\ res'[q] = res[q]

Decided(p) == pc[p] \in {"unwinding", "returned"}

Lost(p) == pc'[p] = "idle" /\ table' = table

Failed(p) ==
    /\ ~Decided(p) /\ Decided(p)' /\ table' = table /\ op' = op
    /\ res'[p] => "io" \in Faults /\ op[p].kind = "del"

Worked(p) ==
    /\ pc[p] # "idle" /\ pc'[p] # "idle" /\ (Decided(p) <=> Decided(p)')
    /\ table' = table /\ op' = op /\ res' = res

(* The steps of a call are of one of these kinds.                          *)
LEMMA CallSteps ==
    ASSUME TP!IInv, NEW p \in Procs, stage[p] = "calling", TableStep(p)
    PROVE  /\ TP!Step(p) \/ TP!Fault(p)
           /\ Others(p)
           /\ Lost(p) \/ Failed(p) \/ Worked(p) \/ TP!Rename(p)
<1> USE DEF TP!Goto, TP!Finish, TP!IInv, TP!TypeOK, Others, Decided
<1>1. CASE TP!OpenTable(p)
  <2>1. CASE TP!Leave(p)
    BY <1>1, <2>1 DEF TP!Leave, Lost, TP!Step
  <2>2. CASE ~TP!Leave(p)
    BY <1>1, <2>2 DEF TP!OpenTable, Failed, Worked, TP!Step
  <2> QED
    BY <2>1, <2>2
<1>2. CASE TP!CreateTmp(p)
  BY <1>2 DEF TP!CreateTmp, Failed, Worked, TP!Step
<1>3. CASE TP!Copy(p)
  BY <1>3 DEF TP!Copy, Failed, Worked, TP!Step
<1>4. CASE TP!FlushBody(p) \/ TP!FlushHeader(p)
  BY <1>4 DEF TP!FlushBody, TP!FlushHeader, Worked, TP!Step
<1>5. CASE TP!Rename(p)
  BY <1>5 DEF TP!Rename, TP!Step
<1>6. CASE TP!Unlink(p)
  BY <1>6 DEF TP!Unlink, Worked, TP!Step
<1>7. CASE TP!WriteError(p)
  <2>1. (pc[p] = "copying" /\ op[p].kind = "del") \in BOOLEAN
    OBVIOUS
  <2> QED
    BY <1>7, <2>1 DEF TP!WriteError, Failed, TP!Fault, TP!Holds, TP!Writing
<1>8. CASE TP!OpenError(p)
  BY <1>8 DEF TP!OpenError, Failed, TP!Fault
<1> QED
  BY <1>1, <1>2, <1>3, <1>4, <1>5, <1>6, <1>7, <1>8, SameSteps DEF TableStep

(* Leaving the table's code, by its return or by dying in it. *)
LEMMA LeaveSteps ==
    ASSUME TP!IInv, NEW p \in Procs, TP!Leave(p)
    PROVE  Others(p) /\ Lost(p)
BY DEF TP!IInv, TP!TypeOK, TP!Leave, TP!Goto, Others, Lost

(* Every step is one of the table or leaves it alone. *)
LEMMA TableMoves ==
    ASSUME DInv, [Next]_vars
    PROVE  [TP!Next]_(TP!vars)
<1>1. ASSUME NEW p \in Procs, Put(p)
      PROVE  TP!Next
  <2>1. req[p] \in Reqs /\ vpw[p] \in Entries
    BY <1>1 DEF DInv, TypeOK, Linked, LinkedOf, Put
  <2>2. OpOf(req[p], vpw[p]) \in TP!Ops
    BY <2>1, OpOfType
  <2>3. TP!Call(p, OpOf(req[p], vpw[p]))
    BY <1>1, SameSteps DEF Put
  <2> QED
    BY <2>2, <2>3 DEF TP!Next
<1>2. ASSUME NEW p \in Procs, TableStep(p)
      PROVE  TP!Next
  <2>1. TP!Step(p) \/ TP!Fault(p)
    BY <1>2, CallSteps DEF TableStep, DInv
  <2> QED
    BY <2>1 DEF TP!Next
<1>3. ASSUME NEW p \in Procs, Called(p) \/ Table!Die(p)
      PROVE  TP!Next
  <2>1. TP!Return(p) \/ TP!Die(p)
    BY <1>3, SameSteps DEF Called
  <2> QED
    BY <2>1 DEF TP!Next, TP!Step, TP!Fault
<1>4. tableVars' = tableVars => UNCHANGED TP!vars
  BY DEF tableVars, TP!vars
<1>5. CASE UNCHANGED vars
  BY <1>4, <1>5 DEF vars
<1>6. CASE Next
  <2>1. CASE \E u \in Users : Delivery(u)
    BY <2>1, <1>4 DEF Delivery, LookUpToDeliver, Deliver, EndDeliveries, tableVars
  <2>2. ASSUME NEW p \in Procs, (\E r \in Reqs : Request(p, r)) \/ Step(p) \/ Die(p)
        PROVE  TP!Next \/ UNCHANGED TP!vars
    <3>1. CASE \E r \in Reqs : Request(p, r)
      BY <3>1, <1>4 DEF Request, tableVars
    <3>2. CASE Die(p)
      BY <3>2, <1>3, <1>4 DEF Die
    <3>3. CASE Put(p) \/ TableStep(p) \/ Called(p)
      BY <3>3, <1>1, <1>2, <1>3
    <3>4. CASE Lookup(p) \/ MkDirP(p) \/ MakeMaildir(p) \/ Empty(p) \/ Sweep(p) \/ RmDir(p) \/ Reply(p)
      <4>1. UNCHANGED tableVars
        BY <3>4 DEF Lookup, MkDirP, MakeMaildir, Empty, Sweep, RmDir, Reply, tableVars
      <4> QED
        BY <4>1, <1>4
    <3> QED
      BY <2>2, <3>1, <3>2, <3>3, <3>4 DEF Step
  <2> QED
    BY <1>6, <2>1, <2>2 DEF Next
<1> QED
  BY <1>5, <1>6

(* The invariant of the table holds in the domain.                         *)
LEMMA TableKeeps ==
    ASSUME DInv, [Next]_vars
    PROVE  TP!IInv'
BY TableMoves, TableAssumption, TP!NextKeeps DEF DInv

-----------------------------------------------------------------------------
(* The invariant of the requests holds at first and every step keeps it *)

DirTypes ==
    /\ dir \in [Users -> {"absent", "bare", "maildir"}]
    /\ mail \in [Users -> BOOLEAN]
    /\ bound \subseteq Users

ReqTypes ==
    /\ req \in [Procs -> Reqs \cup {None}]
    /\ stage \in [Procs -> Stages]
    /\ vpw \in [Procs -> Entries \cup {Absent}]
    /\ ans \in [Procs -> BOOLEAN]

(* The table's types after a step.                                         *)
LEMMA SameTypeNext == Table!TypeOK' <=> TP!TypeOK'
BY DEF Table!TypeOK, TP!TypeOK, Table!Contents, TP!Contents, Table!Progress,
   TP!Progress, Table!Steps, TP!Steps, Table!Writing, TP!Writing, Table!Ops, TP!Ops

(* Changing a directory keeps the types.                                   *)
LEMMA SetDirType ==
    ASSUME DirTypes, NEW u \in Users, NEW d \in {"absent", "bare", "maildir"},
           SetDir(u, d), bound' = bound
    PROVE  DirTypes'
<1>1. (mail[u] /\ d = "maildir") \in BOOLEAN
  OBVIOUS
<1> QED
  BY <1>1 DEF DirTypes, SetDir

(* The domain begins with an empty table and no request.                   *)
LEMMA InitRequests == Init => DInv
<1> SUFFICES ASSUME Init PROVE DInv
  OBVIOUS
<1>1. TP!IInv
  BY TP!InitInvariant, TableAssumption, SameTable DEF Init
<1>2. TypeOK
  BY <1>1, SameTable DEF Init, TypeOK, Stages, TP!IInv
<1>3. Linked
  BY SameTable DEF Init, Linked, LinkedOf, TP!Init
<1> QED
  BY <1>1, <1>2, <1>3 DEF DInv

(* A step of one request leaves the others where they are. *)
OneMoves(p) ==
    \A q \in Procs \ {p} :
        /\ stage'[q] = stage[q] /\ req'[q] = req[q] /\ vpw'[q] = vpw[q] /\ ans'[q] = ans[q]
        /\ pc'[q] = pc[q] /\ op'[q] = op[q] /\ res'[q] = res[q]

(* The three ways a request goes on. *)
LEMMA Continues ==
    ASSUME ReqTypes, NEW p \in Procs, NEW s \in Stages, Continue(p, s)
    PROVE  /\ ReqTypes' /\ stage'[p] = s
           /\ req' = req /\ vpw' = vpw /\ ans' = ans
           /\ \A q \in Procs \ {p} : stage'[q] = stage[q]
BY DEF ReqTypes, Continue, Goto

(* A request that is answered.                                             *)
LEMMA Answers ==
    ASSUME ReqTypes, NEW p \in Procs, NEW ok \in BOOLEAN, Answer(p, ok)
    PROVE  /\ ReqTypes' /\ stage'[p] = "done" /\ ans'[p] = ok
           /\ req' = req /\ vpw' = vpw
           /\ \A q \in Procs \ {p} : stage'[q] = stage[q] /\ ans'[q] = ans[q]
BY DEF ReqTypes, Answer, Goto, Stages

(* A request that is gone.                                                 *)
LEMMA Goes ==
    ASSUME ReqTypes, NEW p \in Procs, Gone(p)
    PROVE  /\ ReqTypes' /\ stage'[p] = "idle" /\ req'[p] = None
           /\ \A q \in Procs \ {p} :
                stage'[q] = stage[q] /\ req'[q] = req[q] /\ vpw'[q] = vpw[q] /\ ans'[q] = ans[q]
BY DEF ReqTypes, Gone, Goto, Stages

(* What each action of a request makes of it. *)
RequestDone(p) ==
    /\ DirTypes' /\ ReqTypes' /\ stale' \in BOOLEAN
    /\ OneMoves(p)
    /\ LinkedOf(p)'

(* A new request.                                                          *)
LEMMA AskKeeps ==
    ASSUME DInv, NEW p \in Procs, NEW r \in Reqs, Request(p, r)
    PROVE  RequestDone(p)
<1> USE DEF DInv, TypeOK, Linked
<1>1. DirTypes' /\ stale' \in BOOLEAN
  BY DEF Request, tableVars, homeVars, dirVars, DirTypes
<1>2. /\ ReqTypes' /\ OneMoves(p)
      /\ stage'[p] = "lookup" /\ req'[p] = r /\ pc' = pc
  BY DEF Request, Goto, ReqTypes, Stages, OneMoves, tableVars
<1>3. r # None
  BY DomainAssumption
<1> QED
  BY <1>1, <1>2, <1>3 DEF RequestDone, LinkedOf, Request

(* The lookup finds an entry for the call to come, or ends the request.    *)
LEMMA LookupKeeps ==
    ASSUME DInv, NEW p \in Procs, Lookup(p)
    PROVE  RequestDone(p)
<1> DEFINE r == req[p]
<1> USE DEF DInv, TypeOK, Linked
<1>1. DirTypes' /\ stale' \in BOOLEAN /\ UNCHANGED <<pc, op, res>>
  BY DEF Lookup, tableVars, homeVars, dirVars, DirTypes
<1>2. ReqTypes /\ stage[p] = "lookup" /\ r \in Reqs /\ LinkedOf(p)
  BY DEF Lookup, ReqTypes, LinkedOf
<1>3. pc[p] = "idle"
  BY <1>2 DEF LinkedOf
<1>4. CASE Gone(p)
  BY <1>1, <1>2, <1>3, <1>4, Goes DEF RequestDone, OneMoves, LinkedOf
<1>5. CASE Answer(p, FALSE)
  <2>1. FALSE \in BOOLEAN
    OBVIOUS
  <2>2. /\ ReqTypes' /\ stage'[p] = "done" /\ req' = req /\ vpw' = vpw
        /\ \A q \in Procs \ {p} : stage'[q] = stage[q] /\ ans'[q] = ans[q]
    BY <1>2, <1>5, <2>1, Answers
  <2> QED
    BY <1>1, <1>2, <1>3, <2>2 DEF RequestDone, OneMoves, LinkedOf
<1>6. ASSUME NEW recs \in Table!Contents, ~Refused(r, recs[r.user]),
             vpw' = [vpw EXCEPT ![p] = Edited(r, recs[r.user])],
             Goto(p, IF r.kind \in {"adduser", "chforwards"} THEN "mkdirp" ELSE "putting"),
             UNCHANGED <<req, ans>>
      PROVE  RequestDone(p)
  <2>1. recs[r.user] \in Entries \cup {Absent} /\ r.kind \in Kinds
    BY <1>2, ReqType DEF Table!Contents
  <2>2. r.kind # "adduser" => recs[r.user] \in Entries
    BY <1>6, <2>1 DEF Refused
  <2>3. Edited(r, recs[r.user]) \in Entries
    BY <1>2, <2>1, <2>2, EditedType
  <2>4. /\ vpw'[p] \in Entries /\ stage'[p] \in {"mkdirp", "putting"}
        /\ stage'[p] = "mkdirp" => r.kind \in {"adduser", "chforwards"}
        /\ ReqTypes' /\ OneMoves(p)
    BY <1>1, <1>2, <1>6, <2>3 DEF ReqTypes, Goto, Stages, OneMoves
  <2> QED
    BY <1>1, <1>2, <1>3, <1>6, <2>4 DEF RequestDone, LinkedOf
<1> QED
  BY <1>2, <1>4, <1>5, <1>6 DEF Lookup

(* The directories are changed outside of any call.                        *)
LEMMA DirectoryKeeps ==
    ASSUME DInv, NEW p \in Procs, MkDirP(p) \/ MakeMaildir(p) \/ Empty(p) \/ Sweep(p) \/ RmDir(p)
    PROVE  RequestDone(p)
<1> DEFINE u == req[p].user
<1> USE DEF DInv, TypeOK, Linked
<1>1. /\ ReqTypes /\ DirTypes /\ LinkedOf(p) /\ u \in Users
      /\ stage[p] \in {"mkdirp", "maildir", "emptying", "sweeping", "rmdir"}
  BY ReqType DEF MkDirP, MakeMaildir, Empty, Sweep, RmDir, ReqTypes, DirTypes, LinkedOf
<1>2. stale' \in BOOLEAN /\ UNCHANGED <<pc, op, res, bound>>
  BY DEF MkDirP, MakeMaildir, Empty, Sweep, RmDir, tableVars
<1>3. DirTypes'
  <2>1. CASE UNCHANGED dirVars
    BY <1>1, <1>2, <2>1 DEF dirVars, DirTypes
  <2>2. CASE \E d \in {"absent", "bare", "maildir"} : SetDir(u, d)
    BY <1>1, <1>2, <2>2, SetDirType
  <2>3. CASE mail' = [mail EXCEPT ![u] = FALSE] /\ UNCHANGED dir
    BY <1>1, <1>2, <2>3 DEF DirTypes
  <2> QED
    BY <2>1, <2>2, <2>3 DEF MkDirP, MakeMaildir, Empty, Sweep, RmDir
<1>4. pc[p] = "idle"
  BY <1>1 DEF LinkedOf
<1>5. CASE \E ok \in BOOLEAN : Answer(p, ok)
  <2>1. /\ ReqTypes' /\ stage'[p] = "done" /\ req' = req /\ vpw' = vpw
        /\ \A q \in Procs \ {p} : stage'[q] = stage[q] /\ ans'[q] = ans[q]
    BY <1>1, <1>5, Answers
  <2> QED
    BY <1>1, <1>2, <1>3, <1>4, <2>1 DEF RequestDone, OneMoves, LinkedOf
<1>6. ASSUME NEW s \in {"maildir", "putting", "emptying", "sweeping", "rmdir"},
             Continue(p, s),
             s \in {"maildir", "putting"} => stage[p] \in {"mkdirp", "maildir"},
             s \in {"emptying", "sweeping", "rmdir"} => stage[p] \in {"emptying", "sweeping", "rmdir"},
             s = "maildir" => stage[p] = "mkdirp"
      PROVE  RequestDone(p)
  <2>1. /\ ReqTypes' /\ stage'[p] = s /\ req' = req /\ vpw' = vpw /\ ans' = ans
        /\ \A q \in Procs \ {p} : stage'[q] = stage[q]
    BY <1>1, <1>6, Continues DEF Stages
  <2> QED
    BY <1>1, <1>2, <1>3, <1>4, <1>6, <2>1 DEF RequestDone, OneMoves, LinkedOf
<1>7. (req[p].kind = "deluser") \in BOOLEAN
  OBVIOUS
<1>8. CASE MkDirP(p)
  BY <1>5, <1>6, <1>8 DEF MkDirP
<1>9. CASE MakeMaildir(p)
  BY <1>5, <1>6, <1>9 DEF MakeMaildir
<1>10. CASE Empty(p)
  BY <1>5, <1>6, <1>10 DEF Empty
<1>11. CASE Sweep(p)
  BY <1>5, <1>6, <1>11 DEF Sweep
<1>12. CASE RmDir(p)
  BY <1>5, <1>6, <1>7, <1>12 DEF RmDir
<1> QED
  BY <1>8, <1>9, <1>10, <1>11, <1>12

(* The call begins with what the request makes of the entry.               *)
LEMMA PutKeeps ==
    ASSUME DInv, NEW p \in Procs, Put(p)
    PROVE  RequestDone(p)
<1> USE DEF DInv, TypeOK, Linked
<1>1. /\ ReqTypes /\ DirTypes' /\ stale' \in BOOLEAN /\ LinkedOf(p)
      /\ stage[p] = "putting" /\ Continue(p, "calling")
  BY DEF Put, ReqTypes, DirTypes, homeVars, dirVars, LinkedOf
<1>2. TP!Call(p, OpOf(req[p], vpw[p]))
  BY SameSteps DEF Put
<1>3. /\ pc'[p] = "opening" /\ op'[p] = OpOf(req[p], vpw[p]) /\ res' = res
      /\ \A q \in Procs \ {p} : pc'[q] = pc[q] /\ op'[q] = op[q]
  BY <1>2 DEF TP!Call, TP!Goto, TP!IInv, TP!TypeOK
<1>4. /\ ReqTypes' /\ stage'[p] = "calling" /\ req' = req /\ vpw' = vpw /\ ans' = ans
      /\ \A q \in Procs \ {p} : stage'[q] = stage[q]
  BY <1>1, Continues DEF Stages
<1> QED
  BY <1>1, <1>3, <1>4 DEF RequestDone, OneMoves, LinkedOf

(* A step of the call, which may be its end with the process.              *)
LEMMA TableStepKeeps ==
    ASSUME DInv, NEW p \in Procs, TableStep(p)
    PROVE  RequestDone(p)
<1> USE DEF DInv, TypeOK, Linked
<1>1. /\ ReqTypes /\ DirTypes' /\ LinkedOf(p) /\ stage[p] = "calling"
      /\ pc[p] # "idle"
  BY DEF TableStep, ReqTypes, DirTypes, homeVars, dirVars, LinkedOf
<1>2. stale' \in BOOLEAN
  <2>1. (pc[p] = "renaming" /\ res'[p] /\ snap[p] # Visible) \in BOOLEAN
    OBVIOUS
  <2> QED
    BY <2>1 DEF TableStep
<1>3. Others(p) /\ (Lost(p) \/ Failed(p) \/ Worked(p) \/ TP!Rename(p))
  BY <1>1, CallSteps
<1>4. CASE pc'[p] = "idle"
  <2>1. Gone(p)
    BY <1>4 DEF TableStep
  <2>2. /\ ReqTypes' /\ stage'[p] = "idle" /\ req'[p] = None
        /\ \A q \in Procs \ {p} :
             stage'[q] = stage[q] /\ req'[q] = req[q] /\ vpw'[q] = vpw[q] /\ ans'[q] = ans[q]
    BY <1>1, <2>1, Goes
  <2> QED
    BY <1>1, <1>2, <1>3, <1>4, <2>2 DEF RequestDone, OneMoves, Others, LinkedOf
<1>5. CASE pc'[p] # "idle"
  <2>1. UNCHANGED reqVars
    BY <1>5 DEF TableStep
  <2>2. op'[p] = op[p]
    BY <1>3, <1>5 DEF Lost, Failed, Worked, TP!Rename
  <2>3. ReqTypes'
    BY <1>1, <2>1 DEF ReqTypes, reqVars
  <2> QED
    BY <1>1, <1>2, <1>3, <1>5, <2>1, <2>2, <2>3
    DEF RequestDone, OneMoves, Others, LinkedOf, reqVars
<1> QED
  BY <1>4, <1>5

(* The call has returned.                                                  *)
LEMMA CalledKeeps ==
    ASSUME DInv, NEW p \in Procs, Called(p)
    PROVE  RequestDone(p)
<1> USE DEF DInv, TypeOK, Linked
<1>1. /\ ReqTypes /\ DirTypes' /\ stale' \in BOOLEAN /\ LinkedOf(p)
      /\ stage[p] = "calling" /\ res[p] \in BOOLEAN /\ req[p].kind \in Requests
  BY DEF Called, ReqTypes, DirTypes, homeVars, dirVars, LinkedOf, TP!IInv, TP!TypeOK
<1>2. Others(p) /\ pc'[p] = "idle"
  <2>1. TP!Leave(p)
    BY SameSteps DEF Called, TP!Return
  <2> QED
    BY <2>1, LeaveSteps DEF Lost
<1>3. CASE \E ok \in BOOLEAN : Answer(p, ok)
  <2>1. /\ ReqTypes' /\ stage'[p] = "done" /\ req' = req /\ vpw' = vpw
        /\ \A q \in Procs \ {p} : stage'[q] = stage[q] /\ ans'[q] = ans[q]
    BY <1>1, <1>3, Answers
  <2> QED
    BY <1>1, <1>2, <2>1 DEF RequestDone, OneMoves, Others, LinkedOf
<1>4. CASE Continue(p, "emptying") /\ req[p].kind # "chattr"
  <2>1. /\ ReqTypes' /\ stage'[p] = "emptying" /\ req' = req /\ vpw' = vpw /\ ans' = ans
        /\ \A q \in Procs \ {p} : stage'[q] = stage[q]
    BY <1>1, <1>4, Continues DEF Stages
  <2> QED
    BY <1>1, <1>2, <1>4, <2>1 DEF RequestDone, OneMoves, Others, LinkedOf
<1>5. req[p].kind \in Kinds
  BY <1>1, DomainAssumption
<1> QED
  BY <1>1, <1>3, <1>4, <1>5 DEF Called, Kinds

(* The process has answered or died.                                       *)
LEMMA EndKeeps ==
    ASSUME DInv, NEW p \in Procs, Reply(p) \/ Die(p)
    PROVE  RequestDone(p)
<1> USE DEF DInv, TypeOK, Linked
<1>1. ReqTypes /\ DirTypes' /\ stale' \in BOOLEAN /\ LinkedOf(p) /\ Gone(p)
  BY DEF Reply, Die, ReqTypes, DirTypes, homeVars, dirVars, tableVars, LinkedOf
<1>2. /\ ReqTypes' /\ stage'[p] = "idle" /\ req'[p] = None
      /\ \A q \in Procs \ {p} :
           stage'[q] = stage[q] /\ req'[q] = req[q] /\ vpw'[q] = vpw[q] /\ ans'[q] = ans[q]
  BY <1>1, Goes
<1>3. Others(p) /\ pc'[p] = "idle"
  <2>1. CASE stage[p] = "calling"
    <3>1. TP!Leave(p)
      BY <2>1, SameSteps DEF Reply, Die, TP!Die
    <3> QED
      BY <3>1, LeaveSteps DEF Lost
  <2>2. CASE stage[p] # "calling"
    BY <1>1, <2>2 DEF Reply, Die, tableVars, Others, LinkedOf
  <2> QED
    BY <2>1, <2>2
<1> QED
  BY <1>1, <1>2, <1>3 DEF RequestDone, OneMoves, Others, LinkedOf

(* All of them.                                                            *)
LEMMA StepsKeep ==
    ASSUME DInv, NEW p \in Procs, (\E r \in Reqs : Request(p, r)) \/ Step(p) \/ Die(p)
    PROVE  RequestDone(p)
BY AskKeeps, LookupKeeps, DirectoryKeeps, PutKeeps, TableStepKeeps, CalledKeeps, EndKeeps
DEF Step

(* Every step keeps the invariant.                                         *)
LEMMA RequestsKeep == DInv /\ [Next]_vars => DInv'
<1> SUFFICES ASSUME DInv, [Next]_vars PROVE DInv'
  OBVIOUS
<1>1. TP!IInv'
  BY TableKeeps
<1>2. Table!TypeOK'
  BY <1>1, SameTypeNext DEF TP!IInv
<1>3. ASSUME NEW p \in Procs, RequestDone(p)
      PROVE  DInv'
  <2>1. TypeOK'
    BY <1>2, <1>3 DEF TypeOK, RequestDone, DirTypes, ReqTypes
  <2>2. Linked'
    <3> SUFFICES ASSUME NEW q \in Procs PROVE LinkedOf(q)'
      BY DEF Linked
    <3>1. CASE q = p
      BY <1>3, <3>1 DEF RequestDone
    <3>2. CASE q # p
      BY <1>3, <3>2 DEF RequestDone, OneMoves, LinkedOf, DInv, Linked
    <3> QED
      BY <3>1, <3>2
  <2> QED
    BY <1>1, <2>1, <2>2 DEF DInv
<1>4. CASE \E u \in Users : Delivery(u)
  <2>1. PICK u \in Users : Delivery(u)
    BY <1>4
  <2>2. TypeOK'
    BY <1>2, <2>1 DEF DInv, TypeOK, Delivery, LookUpToDeliver, Deliver, EndDeliveries, dirVars,
       tableVars, reqVars
  <2>3. Linked'
    BY <2>1 DEF DInv, Linked, LinkedOf, Delivery, LookUpToDeliver, Deliver, EndDeliveries,
       tableVars, reqVars
  <2> QED
    BY <1>1, <2>2, <2>3 DEF DInv
<1>5. CASE UNCHANGED vars
  <2>1. TypeOK'
    BY <1>2, <1>5 DEF DInv, TypeOK, vars, tableVars, homeVars, dirVars, reqVars
  <2>2. Linked'
    BY <1>5 DEF DInv, Linked, LinkedOf, vars, tableVars, reqVars
  <2> QED
    BY <1>1, <2>1, <2>2 DEF DInv
<1> QED
  BY <1>3, <1>4, <1>5, StepsKeep DEF Next

(* The invariant holds in every state.                                     *)
LEMMA Invariance == Spec => []DInv
BY InitRequests, RequestsKeep, PTL DEF Spec

(* The table, the directories and the requests keep their types, for any   *)
(* number of processes and whatever fails.                                 *)
THEOREM TypeInvariance == Spec => []TypeOK
<1>1. DInv => TypeOK
  BY DEF DInv
<1> QED
  BY <1>1, Invariance, PTL

-----------------------------------------------------------------------------
(* Processes that have users to themselves *)

(* The users are shared out among the processes; no request deletes the    *)
(* directory of a user it has not added or found (chforwards does), and    *)
(* no write fails where accounts are deleted (del then answers true).      *)
Separate ==
    /\ Requests \subseteq {"adduser", "chattr", "deluser"}
    /\ "io" \in Faults => "deluser" \notin Requests
    /\ \A p, q \in Procs : p # q => Serves[p] \cap Serves[q] = {}

(* The request of p has passed the lookup and its update is to come. *)
Before(p) ==
    stage[p] \in {"mkdirp", "maildir", "putting"} \/ (stage[p] = "calling" /\ ~Decided(p))

(* What the lookup has found is still so, and the directory is ready for   *)
(* the entry.                                                              *)
Fits(p) ==
    LET u == req[p].user IN
    /\ req[p].kind = "adduser" <=> Visible[u] = Absent
    /\ vpw[p] = Edited(req[p], Visible[u])
    /\ req[p].kind = "adduser" /\ stage[p] \in {"putting", "calling"}
         => dir[u] # "absent" /\ (vpw[p].mailbox => dir[u] = "maildir")

(* How far a request has brought its account once the update is decided. *)
Settled(p) ==
    LET u == req[p].user IN
    /\ stage[p] = "calling" /\ Decided(p) /\ req[p].kind = "adduser"
         => (Visible[u] = Absent <=> ~res[p])
    /\ stage[p] = "calling" /\ Decided(p) /\ req[p].kind = "deluser"
         => (Visible[u] = Absent <=> res[p])
    /\ stage[p] \in {"emptying", "sweeping", "rmdir"} => Visible[u] = Absent
    /\ stage[p] = "sweeping" => dir[u] = "maildir"
    /\ (stage[p] = "emptying" \/ (stage[p] = "calling" /\ Decided(p) /\ res[p]))
         /\ req[p].kind = "deluser" => dir[u] # "absent"
    /\ stage[p] = "rmdir" => dir[u] = "bare"
    /\ stage[p] = "done" /\ ans[p] /\ req[p].kind = "deluser"
         => Visible[u] = Absent /\ dir[u] = "absent"

Tidy ==
    /\ \A p \in Procs : (Before(p) => Fits(p)) /\ Settled(p)
    /\ MailboxOfEveryEntry

KInv == DInv /\ (Orderly => Tidy)

-----------------------------------------------------------------------------
(* What others see of a step *)

(* What the table shows is an entry or none for each user.                 *)
LEMMA VisibleType == TypeOK => Visible \in [Users -> Entries \cup {Absent}]
BY DEF TypeOK, Table!TypeOK, Table!Contents, Visible, Table!Visible, Table!View,
   Table!EmptyTable

(* What a reader finds after a step.                                       *)
LEMMA SameVisibleNext == Visible' = TP!Visible'
BY DEF Visible, Table!Visible, TP!Visible, Table!View, TP!View, Table!EmptyTable, TP!EmptyTable

(* What has gone wrong once stays so. *)
LEMMA UnrobbedBefore ==
    ASSUME DInv, [Next]_vars, ~robbed'
    PROVE  ~robbed
<1>1. [TP!Next]_(TP!vars)
  BY TableMoves
<1> QED
  BY <1>1 DEF TP!vars, TP!Next, TP!Step, TP!Fault, TP!Call, TP!OpenTable, TP!Leave,
     TP!CreateTmp, TP!Copy, TP!FlushBody, TP!FlushHeader, TP!Rename, TP!Unlink,
     TP!Return, TP!WriteError, TP!OpenError, TP!Die

(* So with updates that were lost.                                         *)
LEMMA OrderlyBefore ==
    ASSUME DInv, [Next]_vars, Orderly'
    PROVE  Orderly
<1>1. stale => stale'
  BY DEF Next, Step, Request, Lookup, MkDirP, MakeMaildir, Put, TableStep, Called, Empty,
     Sweep, RmDir, Reply, Die, Delivery, LookUpToDeliver, Deliver, EndDeliveries, vars,
     tableVars
<1> QED
  BY <1>1, UnrobbedBefore DEF Orderly

(* What the table shows changes only with the file of its name.            *)
LEMMA Unseen ==
    ASSUME DInv, Orderly, [Next]_vars, table' = table
    PROVE  Visible' = Visible
<1>1. TP!Visible' = TP!Visible
  BY TableMoves, TableAssumption, TP!SameTableSameView DEF DInv, Orderly
<1> QED
  BY <1>1, SameTable, SameVisibleNext

(* A reader of a table whose lock was never removed reads what is there. *)
LEMMA ReadsWhole ==
    ASSUME DInv, ~robbed
    PROVE  /\ ~Table!Torn(table)
           /\ \A recs \in Table!Contents : Table!MayRead(table, recs) => recs = Visible
<1>1. table # None => file[table].state = "whole"
  BY DEF DInv, TP!IInv, TP!TornOnlyIfRobbed
<1> QED
  BY <1>1 DEF Table!Torn, Table!MayRead, Visible, Table!Visible, Table!View

(* So does one of a table that is in order.                                *)
LEMMA ReadsVisible ==
    ASSUME DInv, Orderly
    PROVE  /\ ~Table!Torn(table)
           /\ \A recs \in Table!Contents : Table!MayRead(table, recs) => recs = Visible
BY ReadsWhole DEF Orderly

(* The rename makes the change of the request and no other, and takes its  *)
(* place among the others at that.                                         *)
LEMMA RenameSeen ==
    ASSUME DInv, Orderly', NEW p \in Procs, TableStep(p), Next, TP!Rename(p)
    PROVE  /\ Decided(p)' /\ ~Decided(p) /\ res'[p] /\ UNCHANGED <<homeVars, reqVars>>
           /\ Visible' = [Visible EXCEPT ![req[p].user] =
                 IF req[p].kind = "deluser" THEN Absent ELSE vpw[p]]
<1>1. Orderly /\ stage[p] = "calling" /\ LinkedOf(p)
  BY OrderlyBefore DEF TableStep, DInv, Linked
<1>2. /\ TP!Finish(p, "unwinding", TRUE)
      /\ TP!Visible' = TP!Apply(op[p], snap[p])
  BY <1>1, TP!RenamePublishes, TableAssumption DEF DInv, Orderly
<1>3. /\ pc[p] = "renaming" /\ pc'[p] = "unwinding" /\ res'[p]
      /\ UNCHANGED <<homeVars, reqVars>>
  BY <1>2 DEF TP!Rename, TP!Finish, TP!Goto, DInv, TP!IInv, TP!TypeOK, TableStep
<1>4. snap[p] = Visible
  BY <1>3 DEF TableStep, Orderly
<1>5. /\ op[p].name = req[p].user /\ op[p].val = vpw[p]
      /\ op[p].kind = "del" <=> req[p].kind = "deluser"
  <2>1. op[p] = OpOf(req[p], vpw[p]) /\ req[p].kind \in Kinds
    BY <1>1, DomainAssumption DEF LinkedOf
  <2> QED
    BY <2>1 DEF OpOf, Kinds
<1> QED
  BY <1>2, <1>3, <1>4, <1>5, SameVisibleNext DEF TP!Apply, Decided

-----------------------------------------------------------------------------
(* A process leaves the accounts of the others alone *)

(* What the invariant says of one process and of its account. *)
Whole(u) ==
    Visible[u] # Absent =>
        /\ dir[u] # "absent"
        /\ Visible[u].mailbox => dir[u] = "maildir"

Own(p) ==
    /\ Before(p) => Fits(p)
    /\ Settled(p)

(* Accounts other than that of p's request are as they were. *)
Spared(p) ==
    \A u \in Users :
        stage[p] = "idle" \/ u # req[p].user => Visible'[u] = Visible[u] /\ dir'[u] = dir[u]

(* A step that spares the accounts of the others and leaves its own in     *)
(* order keeps all in order: no two processes have a request for the same  *)
(* user.                                                                   *)
LEMMA TidyFrom ==
    ASSUME Separate, DInv, Tidy, NEW p \in Procs, RequestDone(p), Spared(p),
           Own(p)',
           \A u \in Users : stage[p] # "idle" /\ u = req[p].user => Whole(u)'
    PROVE  Tidy'
<1>1. ASSUME NEW q \in Procs PROVE Own(q)'
  <2>1. CASE q = p
    BY <2>1
  <2>2. CASE q # p /\ stage[q] = "idle"
    BY <2>2 DEF RequestDone, OneMoves, Own, Before, Settled
  <2>3. CASE q # p /\ stage[q] # "idle"
    <3>1. req[q].user \in Users /\ (stage[p] # "idle" => req[q].user # req[p].user)
      BY <2>3, ReqType, DomainAssumption DEF Separate, DInv, TypeOK, Linked, LinkedOf
    <3>2. Visible'[req[q].user] = Visible[req[q].user] /\ dir'[req[q].user] = dir[req[q].user]
      BY <3>1 DEF Spared
    <3>3. /\ stage'[q] = stage[q] /\ req'[q] = req[q] /\ vpw'[q] = vpw[q] /\ ans'[q] = ans[q]
          /\ pc'[q] = pc[q] /\ res'[q] = res[q]
      BY <2>3 DEF RequestDone, OneMoves
    <3>4. Before(q)' <=> Before(q)
      BY <3>3 DEF Before, Decided
    <3>5. Fits(q)' <=> Fits(q)
      BY <3>2, <3>3 DEF Fits
    <3>6. Settled(q)' <=> Settled(q)
      BY <3>2, <3>3 DEF Settled, Decided
    <3> QED
      BY <3>4, <3>5, <3>6 DEF Own, Tidy
  <2> QED
    BY <2>1, <2>2, <2>3
<1>2. ASSUME NEW u \in Users PROVE Whole(u)'
  <2>1. CASE stage[p] # "idle" /\ u = req[p].user
    BY <2>1
  <2>2. CASE stage[p] = "idle" \/ u # req[p].user
    BY <2>2 DEF Spared, Tidy, MailboxOfEveryEntry, Whole
  <2> QED
    BY <2>1, <2>2
<1> QED
  BY <1>1, <1>2 DEF Tidy, Own, Whole, MailboxOfEveryEntry

-----------------------------------------------------------------------------
(* Every step of a request keeps what is so of its account *)

OwnDone(p) ==
    /\ Spared(p)
    /\ Own(p)'
    /\ \A u \in Users : stage[p] # "idle" /\ u = req[p].user => Whole(u)'

(* While neither the table nor a directory changes, no account does. *)
LEMMA NothingSeen ==
    ASSUME DInv, Orderly, MailboxOfEveryEntry, NEW p \in Procs, [Next]_vars,
           table' = table, dir' = dir
    PROVE  Visible' = Visible /\ Spared(p) /\ \A u \in Users : Whole(u)'
<1>1. Visible' = Visible
  BY Unseen
<1> QED
  BY <1>1 DEF Spared, Whole, MailboxOfEveryEntry

(* Nothing is said of a request that is asked, answered or gone. *)
LEMMA NothingOwn ==
    ASSUME NEW p \in Procs,
           stage'[p] \in {"idle", "lookup"} \/ (stage'[p] = "done" /\ ~ans'[p])
    PROVE  Own(p)'
BY DEF Own, Before, Settled

(* What the lookup has found is so.                                        *)
LEMMA LookupOwn ==
    ASSUME DInv, Orderly, Tidy, Separate, NEW p \in Procs, Lookup(p), Next
    PROVE  OwnDone(p)
<1> DEFINE r == req[p]
<1>1. Visible' = Visible /\ Spared(p) /\ \A u \in Users : Whole(u)'
  BY NothingSeen DEF Lookup, tableVars, homeVars, dirVars, Tidy
<1>2. /\ ReqTypes /\ stage[p] = "lookup" /\ r \in Reqs /\ r.user \in Users
  BY ReqType DEF Lookup, DInv, TypeOK, ReqTypes, Linked, LinkedOf
<1>3. CASE Answer(p, FALSE)
  <2>1. stage'[p] = "done" /\ ~ans'[p]
    BY <1>2, <1>3 DEF Answer, Goto, ReqTypes
  <2> QED
    BY <1>1, <2>1, NothingOwn DEF OwnDone
<1>4. ASSUME NEW recs \in Table!Contents, Table!MayRead(table, recs),
             ~Refused(r, recs[r.user]),
             vpw' = [vpw EXCEPT ![p] = Edited(r, recs[r.user])],
             Goto(p, IF r.kind \in {"adduser", "chforwards"} THEN "mkdirp" ELSE "putting"),
             UNCHANGED <<req, ans>>
      PROVE  OwnDone(p)
  <2>1. recs = Visible
    BY <1>4, ReadsVisible
  <2>2. /\ vpw'[p] = Edited(r, Visible[r.user]) /\ req' = req
        /\ stage'[p] \in {"mkdirp", "putting"} /\ (r.kind = "adduser" => stage'[p] = "mkdirp")
    BY <1>2, <1>4, <2>1 DEF ReqTypes, Goto
  <2>3. r.kind = "adduser" <=> Visible[r.user] = Absent
    BY <1>4, <2>1 DEF Refused
  <2>4. Fits(p)'
    BY <1>1, <2>2, <2>3 DEF Fits
  <2>5. Settled(p)'
    BY <2>2 DEF Settled
  <2> QED
    BY <1>1, <2>4, <2>5 DEF OwnDone, Own
<1> QED
  BY <1>2, <1>3, <1>4, ReadsVisible DEF Lookup

(* adduser makes the directory of a user the table does not have.          *)
LEMMA MkDirPOwn ==
    ASSUME DInv, Orderly, Tidy, Separate, NEW p \in Procs, MkDirP(p), Next
    PROVE  OwnDone(p)
<1> DEFINE u == req[p].user
<1>1. /\ ReqTypes /\ DirTypes /\ stage[p] = "mkdirp" /\ req[p].kind = "adduser" /\ u \in Users
  BY ReqType DEF MkDirP, DInv, TypeOK, ReqTypes, DirTypes, Linked, LinkedOf, Separate
<1>2. Visible' = Visible
  BY Unseen DEF MkDirP, tableVars
<1>3. Fits(p) /\ Visible[u] = Absent
  BY <1>1 DEF Tidy, Before, Fits
<1>4. \A w \in Users : w # u => dir'[w] = dir[w]
  BY <1>1 DEF MkDirP, SetDir, homeVars, dirVars, DirTypes
<1>5. Spared(p) /\ \A w \in Users : stage[p] # "idle" /\ w = u => Whole(w)'
  BY <1>1, <1>2, <1>3, <1>4 DEF Spared, Whole
<1>6. CASE Answer(p, FALSE)
  <2>1. stage'[p] = "done" /\ ~ans'[p]
    BY <1>1, <1>6 DEF Answer, Goto, ReqTypes
  <2> QED
    BY <1>5, <2>1, NothingOwn DEF OwnDone
<1>7. CASE /\ Continue(p, IF vpw[p].mailbox THEN "maildir" ELSE "putting")
           /\ dir'[u] # "absent"
  <2>1. /\ stage'[p] \in {"maildir", "putting"} /\ req' = req /\ vpw' = vpw
        /\ vpw[p].mailbox => stage'[p] = "maildir"
    BY <1>1, <1>7 DEF Continue, Goto, ReqTypes
  <2>2. Fits(p)'
    BY <1>1, <1>2, <1>3, <1>7, <2>1 DEF Fits
  <2>3. Settled(p)'
    BY <2>1 DEF Settled
  <2> QED
    BY <1>5, <2>2, <2>3 DEF OwnDone, Own
<1> QED
  BY <1>1, <1>6, <1>7 DEF MkDirP, SetDir, homeVars, dirVars, DirTypes

(* So it makes the maildir.                                                *)
LEMMA MakeMaildirOwn ==
    ASSUME DInv, Orderly, Tidy, Separate, NEW p \in Procs, MakeMaildir(p), Next
    PROVE  OwnDone(p)
<1> DEFINE u == req[p].user
<1>1. /\ ReqTypes /\ DirTypes /\ stage[p] = "maildir" /\ req[p].kind = "adduser" /\ u \in Users
  BY ReqType DEF MakeMaildir, DInv, TypeOK, ReqTypes, DirTypes, Linked, LinkedOf, Separate
<1>2. Visible' = Visible
  BY Unseen DEF MakeMaildir, tableVars
<1>3. Fits(p) /\ Visible[u] = Absent
  BY <1>1 DEF Tidy, Before, Fits
<1>4. \A w \in Users : w # u => dir'[w] = dir[w]
  BY <1>1 DEF MakeMaildir, SetDir, DirTypes
<1>5. Spared(p) /\ \A w \in Users : stage[p] # "idle" /\ w = u => Whole(w)'
  BY <1>1, <1>2, <1>3, <1>4 DEF Spared, Whole
<1>6. CASE Answer(p, FALSE)
  <2>1. stage'[p] = "done" /\ ~ans'[p]
    BY <1>1, <1>6 DEF Answer, Goto, ReqTypes
  <2> QED
    BY <1>5, <2>1, NothingOwn DEF OwnDone
<1>7. CASE SetDir(u, "maildir") /\ Continue(p, "putting")
  <2>1. stage'[p] = "putting" /\ req' = req /\ vpw' = vpw /\ dir'[u] = "maildir"
    BY <1>1, <1>7 DEF Continue, Goto, ReqTypes, SetDir, DirTypes
  <2>2. Fits(p)'
    BY <1>1, <1>2, <1>3, <2>1 DEF Fits
  <2>3. Settled(p)'
    BY <2>1 DEF Settled
  <2> QED
    BY <1>5, <2>2, <2>3 DEF OwnDone, Own
<1> QED
  BY <1>6, <1>7 DEF MakeMaildir

(* The call begins with what was found.                                    *)
LEMMA PutOwn ==
    ASSUME DInv, Orderly, Tidy, NEW p \in Procs, Put(p), Next
    PROVE  OwnDone(p)
<1>1. TP!Call(p, OpOf(req[p], vpw[p])) /\ ReqTypes /\ stage[p] = "putting"
  BY SameSteps DEF Put, DInv, TypeOK, ReqTypes
<1>2. Visible' = Visible /\ dir' = dir /\ Spared(p) /\ \A u \in Users : Whole(u)'
  BY <1>1, NothingSeen DEF Put, TP!Call, homeVars, dirVars, Tidy
<1>3. /\ pc'[p] = "opening" /\ stage'[p] = "calling" /\ req' = req /\ vpw' = vpw
  BY <1>1 DEF TP!Call, TP!Goto, DInv, TP!IInv, TP!TypeOK, Put, Continue, Goto, ReqTypes
<1>4. Fits(p)
  BY <1>1 DEF Tidy, Before
<1>5. Fits(p)'
  BY <1>1, <1>2, <1>3, <1>4 DEF Fits
<1>6. Settled(p)'
  BY <1>3 DEF Settled, Decided
<1> QED
  BY <1>2, <1>5, <1>6 DEF OwnDone, Own

(* The rename makes of the entry what the request asks, for its own user;  *)
(* a call that fails has changed nothing.                                  *)
LEMMA TableStepOwn ==
    ASSUME DInv, Orderly', Tidy, Separate, NEW p \in Procs, TableStep(p), Next
    PROVE  OwnDone(p)
<1> DEFINE u == req[p].user
<1>1. Orderly
  BY OrderlyBefore
<1>2. /\ stage[p] = "calling" /\ pc[p] # "idle" /\ ReqTypes /\ dir' = dir
      /\ u \in Users /\ req[p].kind \in {"adduser", "chattr", "deluser"}
      /\ op[p] = OpOf(req[p], vpw[p]) /\ vpw[p] \in Entries /\ req[p] \in Reqs
  <2>1. stage[p] = "calling" /\ ReqTypes /\ dir' = dir /\ LinkedOf(p)
    BY DEF TableStep, DInv, TypeOK, ReqTypes, homeVars, dirVars, Linked
  <2>2. req[p] \in Reqs
    BY <2>1 DEF ReqTypes, LinkedOf
  <2> QED
    BY <2>1, <2>2, ReqType DEF LinkedOf, Separate
<1>3. Before(p) => Fits(p)
  BY DEF Tidy
<1>4. CASE Lost(p)
  <2>1. Spared(p) /\ \A w \in Users : Whole(w)'
    BY <1>1, <1>2, <1>4, NothingSeen DEF Lost, Tidy
  <2>2. stage'[p] = "idle"
    BY <1>2, <1>4, Goes DEF TableStep, Lost
  <2> QED
    BY <2>1, <2>2, NothingOwn DEF OwnDone
<1>5. CASE Failed(p)
  <2>1. Visible' = Visible /\ Spared(p) /\ \A w \in Users : Whole(w)'
    BY <1>1, <1>2, <1>5, NothingSeen DEF Failed, Tidy
  <2>2. /\ Decided(p)' /\ ~Decided(p) /\ UNCHANGED reqVars
    BY <1>5 DEF TableStep, Failed, Decided
  <2>3. ~res'[p]
    <3>1. op[p].kind = "del" => req[p].kind = "deluser"
      BY <1>2 DEF OpOf
    <3>2. req[p].kind \in Requests
      BY <1>2 DEF DInv, Linked, LinkedOf
    <3> QED
      BY <1>5, <3>1, <3>2 DEF Failed, Separate
  <2>4. Visible[u] = Absent <=> req[p].kind = "adduser"
    BY <1>2, <1>3, <2>2 DEF Before, Fits
  <2> QED
    BY <1>2, <2>1, <2>2, <2>3, <2>4 DEF OwnDone, Own, Before, Settled, reqVars
<1>6. CASE Worked(p)
  <2>1. Visible' = Visible /\ Spared(p) /\ \A w \in Users : Whole(w)'
    BY <1>1, <1>2, <1>6, NothingSeen DEF Worked, Tidy
  <2>2. UNCHANGED <<reqVars, res>> /\ (Decided(p)' <=> Decided(p))
    BY <1>6 DEF TableStep, Worked
  <2>3. Before(p)' => Fits(p)'
    BY <1>2, <1>3, <2>1, <2>2 DEF Before, Fits, reqVars
  <2>4. Settled(p)'
    BY <1>2, <2>1, <2>2 DEF Tidy, Settled, reqVars
  <2> QED
    BY <2>1, <2>3, <2>4 DEF OwnDone, Own
<1>7. CASE TP!Rename(p)
  <2>1. /\ Decided(p)' /\ ~Decided(p) /\ res'[p] /\ UNCHANGED <<homeVars, reqVars>>
        /\ Visible' = [Visible EXCEPT ![u] =
              IF req[p].kind = "deluser" THEN Absent ELSE vpw[p]]
    BY <1>7, RenameSeen
  <2>2. Visible \in [Users -> Entries \cup {Absent}]
    BY VisibleType DEF DInv
  <2>3. /\ Visible'[u] = (IF req[p].kind = "deluser" THEN Absent ELSE vpw[p])
        /\ \A w \in Users : w # u => Visible'[w] = Visible[w]
    BY <1>2, <2>1, <2>2
  <2>4. Fits(p)
    BY <1>2, <1>3, <2>1 DEF Before
  <2>5. vpw[p] # Absent
    BY <1>2, DomainAssumption
  <2>6. Own(p)'
    <3>1. req[p].kind = "deluser" => dir[u] # "absent"
      BY <1>2, <2>4 DEF Fits, Tidy, MailboxOfEveryEntry
    <3> QED
      BY <1>2, <2>1, <2>3, <2>5, <3>1 DEF Own, Before, Settled, reqVars
  <2>7. req[p].kind = "chattr" => vpw[p].mailbox = Visible[u].mailbox /\ Visible[u] # Absent
    <3> SUFFICES ASSUME req[p].kind = "chattr"
                 PROVE  vpw[p].mailbox = Visible[u].mailbox /\ Visible[u] # Absent
      OBVIOUS
    <3>1. Visible[u] # Absent
      BY <2>4 DEF Fits
    <3>2. vpw[p] = [Visible[u] EXCEPT !.attr[req[p].attr] = req[p].word]
      BY <2>4 DEF Fits, Edited
    <3>3. Visible[u] \in Entries
      BY <1>2, <2>2, <3>1
    <3> QED
      BY <3>1, <3>2, <3>3 DEF Entries
  <2>8. Whole(u)
    BY <1>2 DEF Tidy, MailboxOfEveryEntry, Whole
  <2>9. ASSUME NEW w \in Users, w = u PROVE Whole(w)'
    <3>1. CASE req[p].kind = "adduser"
      BY <1>2, <2>3, <2>4, <2>9, <3>1 DEF Fits, Whole
    <3>2. CASE req[p].kind = "chattr"
      BY <1>2, <2>3, <2>7, <2>8, <2>9, <3>2 DEF Whole
    <3>3. CASE req[p].kind = "deluser"
      BY <2>3, <2>9, <3>3 DEF Whole
    <3> QED
      BY <1>2, <3>1, <3>2, <3>3
  <2>10. Spared(p)
    BY <1>2, <2>3 DEF Spared
  <2> QED
    BY <2>6, <2>9, <2>10 DEF OwnDone
<1> QED
  BY <1>2, <1>4, <1>5, <1>6, <1>7, CallSteps DEF DInv

(* A directory is emptied only for a user the table does not have.         *)
LEMMA CalledOwn ==
    ASSUME DInv, Orderly, Tidy, Separate, NEW p \in Procs, Called(p), Next
    PROVE  OwnDone(p)
<1> DEFINE u == req[p].user
<1>1. /\ TP!Leave(p) /\ pc[p] = "returned" /\ stage[p] = "calling" /\ ReqTypes
      /\ req[p].kind \in {"adduser", "chattr", "deluser"} /\ res[p] \in BOOLEAN
  BY SameSteps DEF Called, TP!Return, DInv, TypeOK, ReqTypes, Linked, LinkedOf, Separate,
     TP!IInv, TP!TypeOK
<1>2. Visible' = Visible /\ Spared(p) /\ \A w \in Users : Whole(w)'
  BY <1>1, NothingSeen DEF Called, TP!Leave, homeVars, dirVars, Tidy
<1>3. Settled(p) /\ Decided(p)
  BY <1>1 DEF Tidy, Decided
<1>4. ASSUME NEW ok \in BOOLEAN, Answer(p, ok), req[p].kind = "deluser" => ~ok
      PROVE  OwnDone(p)
  <2>1. stage'[p] = "done" /\ ans'[p] = ok /\ req' = req
    BY <1>1, <1>4 DEF Answer, Goto, ReqTypes
  <2> QED
    BY <1>2, <1>4, <2>1 DEF OwnDone, Own, Before, Settled
<1>5. CASE /\ Continue(p, "emptying") /\ Visible[u] = Absent
           /\ req[p].kind = "deluser" => dir[u] # "absent"
  <2>1. stage'[p] = "emptying" /\ req' = req
    BY <1>1, <1>5 DEF Continue, Goto, ReqTypes
  <2> QED
    BY <1>1, <1>2, <1>5, <2>1 DEF OwnDone, Own, Before, Settled, Called, homeVars, dirVars
<1>6. CASE req[p].kind = "adduser"
  BY <1>1, <1>3, <1>4, <1>5, <1>6 DEF Called, Settled
<1>7. CASE req[p].kind = "chattr"
  BY <1>1, <1>4, <1>7 DEF Called
<1>8. CASE req[p].kind = "deluser"
  BY <1>1, <1>3, <1>4, <1>5, <1>8 DEF Called, Settled
<1> QED
  BY <1>1, <1>6, <1>7, <1>8

(* So it is removed.                                                       *)
LEMMA EmptyOwn ==
    ASSUME DInv, Orderly, Tidy, NEW p \in Procs, Empty(p) \/ Sweep(p) \/ RmDir(p), Next
    PROVE  OwnDone(p)
<1> DEFINE u == req[p].user
<1>1. /\ ReqTypes /\ DirTypes /\ stage[p] \in {"emptying", "sweeping", "rmdir"} /\ u \in Users
  BY ReqType DEF Empty, Sweep, RmDir, DInv, TypeOK, ReqTypes, DirTypes, Linked, LinkedOf
<1>2. Visible' = Visible
  BY Unseen DEF Empty, Sweep, RmDir, tableVars
<1>3. /\ Visible[u] = Absent
      /\ stage[p] = "sweeping" => dir[u] = "maildir"
      /\ stage[p] = "rmdir" => dir[u] = "bare"
  BY <1>1 DEF Tidy, Settled
<1>4. \A w \in Users : w # u => dir'[w] = dir[w]
  BY <1>1 DEF Empty, Sweep, RmDir, SetDir, dirVars, DirTypes
<1>5. Spared(p) /\ \A w \in Users : stage[p] # "idle" /\ w = u => Whole(w)'
  BY <1>1, <1>2, <1>3, <1>4 DEF Spared, Whole
<1>6. CASE Answer(p, FALSE)
  <2>1. stage'[p] = "done" /\ ~ans'[p]
    BY <1>1, <1>6 DEF Answer, Goto, ReqTypes
  <2> QED
    BY <1>5, <2>1, NothingOwn DEF OwnDone
<1>7. ASSUME NEW s \in {"emptying", "sweeping", "rmdir"}, Continue(p, s),
             s = "emptying" => dir'[u] # "absent",
             s = "sweeping" => dir'[u] = "maildir",
             s = "rmdir" => dir'[u] = "bare"
      PROVE  OwnDone(p)
  <2>1. stage'[p] = s /\ req' = req
    BY <1>1, <1>7 DEF Continue, Goto, ReqTypes
  <2> QED
    BY <1>2, <1>3, <1>5, <1>7, <2>1 DEF OwnDone, Own, Before, Settled
<1>8. CASE SetDir(u, "absent") /\ \E ok \in BOOLEAN : Answer(p, ok)
  <2>1. stage'[p] = "done" /\ req' = req /\ dir'[u] = "absent"
    BY <1>1, <1>8 DEF Answer, Goto, ReqTypes, SetDir, DirTypes
  <2> QED
    BY <1>2, <1>3, <1>5, <2>1 DEF OwnDone, Own, Before, Settled
<1>9. (req[p].kind = "deluser") \in BOOLEAN
  OBVIOUS
<1>10. CASE Empty(p)
  BY <1>6, <1>7, <1>10 DEF Empty, dirVars
<1>11. CASE Sweep(p)
  <2>1. dir[u] = "maildir"
    BY <1>3, <1>11 DEF Sweep
  <2>2. SetDir(u, "bare") => dir'[u] = "bare"
    BY <1>1 DEF SetDir, DirTypes
  <2> QED
    BY <1>6, <1>7, <1>11, <2>1, <2>2 DEF Sweep, dirVars
<1>12. CASE RmDir(p)
  <2>1. dir[u] = "bare"
    BY <1>3, <1>12 DEF RmDir
  <2> QED
    BY <1>6, <1>7, <1>8, <1>9, <1>12, <2>1 DEF RmDir, dirVars
<1> QED
  BY <1>10, <1>11, <1>12

(* Nothing is left of a request that is gone.                              *)
LEMMA EndOwn ==
    ASSUME DInv, Orderly, Tidy, NEW p \in Procs,
           (\E r \in Reqs : Request(p, r)) \/ Reply(p) \/ Die(p), Next
    PROVE  OwnDone(p)
<1>1. ReqTypes /\ dir' = dir
  BY DEF DInv, TypeOK, ReqTypes, Request, Reply, Die, homeVars, dirVars
<1>2. table' = table
  BY SameSteps DEF Request, Reply, Die, tableVars, TP!Die, TP!Leave
<1>3. Spared(p) /\ \A w \in Users : Whole(w)'
  BY <1>1, <1>2, NothingSeen DEF Tidy
<1>4. stage'[p] \in {"idle", "lookup"}
  BY <1>1 DEF Request, Reply, Die, Gone, Goto, ReqTypes
<1> QED
  BY <1>3, <1>4, NothingOwn DEF OwnDone

(* All of them.                                                            *)
LEMMA StepsOwn ==
    ASSUME DInv, Orderly', Tidy, Separate, NEW p \in Procs, Next,
           (\E r \in Reqs : Request(p, r)) \/ Step(p) \/ Die(p)
    PROVE  OwnDone(p)
<1>1. Orderly
  BY OrderlyBefore
<1> QED
  BY <1>1, LookupOwn, MkDirPOwn, MakeMaildirOwn, PutOwn, TableStepOwn, CalledOwn, EmptyOwn,
     EndOwn DEF Step

-----------------------------------------------------------------------------
(* Accounts are kept whole and mail is kept *)

(* There is no account at first.                                           *)
LEMMA InitTidy == Init => KInv
<1> SUFFICES ASSUME Init PROVE KInv
  OBVIOUS
<1>1. DInv
  BY InitRequests
<1>2. Visible = [u \in Users |-> Absent]
  BY DEF Init, Table!Init, Visible, Table!Visible, Table!View, Table!EmptyTable
<1>3. Tidy
  BY <1>2 DEF Init, Tidy, MailboxOfEveryEntry, Before, Settled
<1> QED
  BY <1>1, <1>3 DEF KInv

(* Every step keeps accounts in order as long as the table is.             *)
LEMMA TidyKeeps ==
    ASSUME Separate, KInv, [Next]_vars
    PROVE  KInv'
<1>1. DInv'
  BY RequestsKeep DEF KInv
<1>2. ASSUME Orderly' PROVE Tidy'
  <2>1. DInv /\ Orderly /\ Tidy
    BY <1>2, OrderlyBefore DEF KInv
  <2>2. ASSUME NEW p \in Procs, Next, (\E r \in Reqs : Request(p, r)) \/ Step(p) \/ Die(p)
        PROVE  Tidy'
    BY <1>2, <2>1, <2>2, StepsKeep, StepsOwn, TidyFrom DEF OwnDone
  <2>3. CASE UNCHANGED <<tableVars, reqVars, dir>>
    <3>1. Visible' = Visible
      BY <2>1, <2>3, Unseen DEF tableVars
    <3>2. ASSUME NEW p \in Procs PROVE (Before(p) => Fits(p))' /\ Settled(p)'
      BY <2>1, <2>3, <3>1 DEF Tidy, Before, Fits, Settled, Decided, tableVars, reqVars
    <3> QED
      BY <2>1, <2>3, <3>1, <3>2 DEF Tidy, MailboxOfEveryEntry
  <2>4. CASE \E u \in Users : Delivery(u)
    BY <2>3, <2>4 DEF Delivery, LookUpToDeliver, Deliver, EndDeliveries, dirVars
  <2>5. CASE UNCHANGED vars
    BY <2>3, <2>5 DEF vars, homeVars, dirVars
  <2> QED
    BY <2>2, <2>4, <2>5 DEF Next
<1> QED
  BY <1>1, <1>2 DEF KInv

(* So accounts are in order in every state.                                *)
LEMMA TidyInvariance ==
    ASSUME Separate
    PROVE  Spec => []KInv
BY InitTidy, TidyKeeps, PTL DEF Spec

(* Processes that have their users to themselves keep accounts whole,      *)
(* however many they are and wherever they are killed, as long as no lock  *)
(* is removed and no update lost.                                          *)
THEOREM AccountsStayWhole ==
    ASSUME Separate
    PROVE  Spec => []AccountsAreWhole
<1>1. KInv => AccountsAreWhole
  BY DEF KInv, Tidy, Settled, AccountsAreWhole, DeletedMeansGone
<1> QED
  BY <1>1, TidyInvariance, PTL

(* Nor does one of them cost an account of another its mail. *)
THEOREM MailStays ==
    ASSUME Separate
    PROVE  Spec => MailIsKept
<1> DEFINE Kept ==
      \A u \in Users : Orderly /\ mail[u] /\ ~mail'[u] => Visible[u] = Absent
<1>1. KInv /\ [Next]_vars => [Kept]_vars
  <2> SUFFICES ASSUME KInv, Next, NEW u \in Users, Orderly, mail[u], ~mail'[u]
               PROVE  Visible[u] = Absent
    OBVIOUS
  <2>1. DirTypes
    BY DEF KInv, DInv, TypeOK, DirTypes
  <2>2. PICK p \in Procs : MkDirP(p) \/ MakeMaildir(p) \/ Empty(p) \/ Sweep(p) \/ RmDir(p)
    BY <2>1 DEF Next, Step, Request, Lookup, Put, TableStep, Called, Reply, Die,
       Delivery, LookUpToDeliver, Deliver, EndDeliveries, homeVars, dirVars, DirTypes
  <2>3. u = req[p].user
    BY <2>1, <2>2 DEF MkDirP, MakeMaildir, Empty, Sweep, RmDir, SetDir, homeVars, dirVars, DirTypes
  <2>4. /\ stage[p] \in {"mkdirp", "maildir", "emptying", "sweeping", "rmdir"}
        /\ stage[p] \in {"mkdirp", "maildir"} => req[p].kind = "adduser"
    BY <2>2 DEF MkDirP, MakeMaildir, Empty, Sweep, RmDir, KInv, DInv, Linked, LinkedOf, Separate
  <2>5. (Before(p) => Fits(p)) /\ Settled(p)
    BY DEF KInv, Tidy
  <2> QED
    BY <2>3, <2>4, <2>5 DEF Before, Fits, Settled
<1> QED
  BY <1>1, TidyInvariance, PTL DEF Spec, MailIsKept

-----------------------------------------------------------------------------
(* Mail goes with its account, however many work on it *)

(* A process in one of these stages minds its user's directory. *)
LEMMA MindsAtWork ==
    ASSUME NEW p,
           stage'[p] \in {"mkdirp", "maildir", "putting", "emptying", "sweeping", "rmdir"}
    PROVE  Minding(p)'
BY DEF Minding

(* What a process that neither dies nor fails makes of a directory it      *)
(* works on, it goes on minding; RmDir alone may be done with it.          *)
LEMMA MindsDirectory ==
    ASSUME DInv, NEW p \in Procs, MkDirP(p) \/ MakeMaildir(p) \/ Empty(p) \/ Sweep(p) \/ RmDir(p),
           stage'[p] = "done" => ans'[p]
    PROVE  /\ req' = req
           /\ Minding(p)' \/ dir'[req[p].user] = "absent"
<1>1. ReqTypes /\ DirTypes /\ req[p].user \in Users
  BY ReqType DEF DInv, TypeOK, ReqTypes, DirTypes, Linked, LinkedOf, MkDirP, MakeMaildir, Empty,
     Sweep, RmDir
<1>2. CASE Answer(p, FALSE)
  BY <1>1, <1>2, Answers
<1>3. CASE \E s \in {"maildir", "putting", "emptying", "sweeping", "rmdir"} : Continue(p, s)
  <2>1. PICK s \in {"maildir", "putting", "emptying", "sweeping", "rmdir"} : Continue(p, s)
    BY <1>3
  <2>2. s \in Stages
    BY DEF Stages
  <2>3. stage'[p] = s /\ req' = req
    BY <1>1, <2>1, <2>2, Continues
  <2> QED
    BY <2>3, MindsAtWork
<1>4. CASE SetDir(req[p].user, "absent") /\ Answer(p, req[p].kind = "deluser")
  BY <1>1, <1>4 DEF SetDir, Answer, DirTypes
<1> QED
  BY <1>2, <1>3, <1>4 DEF MkDirP, MakeMaildir, Empty, Sweep, RmDir

(* A call that succeeds is of no more concern, unless the user was deleted;*)
(* one that does not leaves the directory to be minded.                    *)
LEMMA MindsCall ==
    ASSUME DInv, Orderly', NEW p \in Procs, TableStep(p), Next, Minding(p), stage'[p] # "idle"
    PROVE  /\ req' = req
           /\ Minding(p)' \/ Visible'[req[p].user] # Absent
<1>1. /\ ReqTypes /\ LinkedOf(p) /\ stage[p] = "calling" /\ req[p].user \in Users
  BY ReqType DEF TableStep, DInv, TypeOK, ReqTypes, Linked, LinkedOf
<1>2. UNCHANGED reqVars /\ pc'[p] # "idle"
  BY <1>1, Goes DEF TableStep
<1>3. Lost(p) \/ Failed(p) \/ Worked(p) \/ TP!Rename(p)
  BY <1>1, CallSteps DEF DInv
<1>4. op[p].kind = "del" <=> req[p].kind = "deluser"
  <2>1. req[p].kind \in Kinds
    BY <1>1, DomainAssumption DEF LinkedOf
  <2> QED
    BY <1>1, <2>1 DEF LinkedOf, OpOf, Kinds
<1>5. CASE Lost(p)
  BY <1>2, <1>5 DEF Lost
<1>6. CASE Failed(p)
  BY <1>1, <1>2, <1>4, <1>6 DEF Failed, Minding, reqVars
<1>7. CASE Worked(p)
  BY <1>1, <1>2, <1>7 DEF Worked, Minding, Decided, reqVars
<1>8. CASE TP!Rename(p) /\ req[p].kind = "deluser"
  BY <1>1, <1>2, <1>8 DEF Minding, reqVars
<1>9. CASE TP!Rename(p) /\ req[p].kind # "deluser"
  <2>1. Visible' = [Visible EXCEPT ![req[p].user] = vpw[p]]
    BY <1>9, RenameSeen
  <2>2. Visible \in [Users -> Entries \cup {Absent}] /\ vpw[p] \in Entries
    BY <1>1, VisibleType DEF DInv, LinkedOf
  <2> QED
    BY <1>1, <1>2, <2>1, <2>2, DomainAssumption DEF reqVars
<1> QED
  BY <1>3, <1>5, <1>6, <1>7, <1>8, <1>9

(* Nor does the end of the call let go of it.                              *)
LEMMA MindsCalled ==
    ASSUME DInv, NEW p \in Procs, Called(p), Minding(p), stage'[p] = "done" => ans'[p]
    PROVE  req' = req /\ Minding(p)'
<1>1. /\ ReqTypes /\ stage[p] = "calling" /\ req[p].kind \in Kinds /\ res[p] \in BOOLEAN
      /\ pc[p] = "returned"
  BY SameSteps, DomainAssumption DEF Called, DInv, TypeOK, ReqTypes, Linked, LinkedOf, TP!IInv,
     TP!TypeOK, TP!Return
<1>2. res[p] => req[p].kind = "deluser"
  BY <1>1 DEF Minding
<1>3. CASE Answer(p, FALSE)
  BY <1>1, <1>3, Answers
<1>4. CASE Continue(p, "emptying")
  <2>1. stage'[p] = "emptying" /\ req' = req
    BY <1>1, <1>4, Continues DEF Stages
  <2> QED
    BY <2>1, MindsAtWork
<1>5. CASE res[p]
  BY <1>2, <1>4, <1>5 DEF Called
<1>6. CASE ~res[p]
  <2>1. res[p] = FALSE
    BY <1>1, <1>6
  <2> QED
    BY <1>1, <1>3, <1>4, <2>1 DEF Called, Kinds
<1> QED
  BY <1>5, <1>6

(* What a process minds it goes on minding until there is nothing to mind, *)
(* unless it dies or says that it has failed.                              *)
LEMMA MindsOn ==
    ASSUME DInv, Orderly', NEW p \in Procs, Next,
           (\E r \in Reqs : Request(p, r)) \/ Step(p) \/ Die(p),
           Minding(p), stage'[p] # "idle", stage'[p] = "done" => ans'[p]
    PROVE  LET u == req[p].user IN
           (Minding(p)' /\ req'[p].user = u) \/ dir'[u] = "absent" \/ Visible'[u] # Absent
<1>1. ReqTypes /\ stage[p] \notin {"idle", "lookup", "done"}
  BY DEF DInv, TypeOK, ReqTypes, Minding
<1>2. ~Die(p)
  BY <1>1, Goes DEF Die
<1>3. CASE MkDirP(p) \/ MakeMaildir(p) \/ Empty(p) \/ Sweep(p) \/ RmDir(p)
  BY <1>3, MindsDirectory
<1>4. CASE Put(p)
  <2>1. TP!Call(p, OpOf(req[p], vpw[p])) /\ Continue(p, "calling")
    BY <1>4, SameSteps DEF Put
  <2>2. pc'[p] = "opening" /\ stage'[p] = "calling" /\ req' = req
    BY <1>1, <2>1, Continues DEF TP!Call, TP!Goto, DInv, TP!IInv, TP!TypeOK, Stages
  <2> QED
    BY <2>2 DEF Minding
<1>5. CASE TableStep(p)
  BY <1>5, MindsCall
<1>6. CASE Called(p)
  BY <1>6, MindsCalled
<1> QED
  BY <1>1, <1>2, <1>3, <1>4, <1>5, <1>6 DEF Step, Request, Lookup, Reply

(* A directory is made by a process that minds it. *)
LEMMA MadeIsMinded ==
    ASSUME DInv, NEW p \in Procs, (\E r \in Reqs : Request(p, r)) \/ Step(p) \/ Die(p),
           NEW u \in Users, dir[u] = "absent", dir'[u] # "absent"
    PROVE  /\ MkDirP(p) \/ MakeMaildir(p)
           /\ req[p].user = u /\ stage[p] \notin {"idle", "done"}
<1>1. DirTypes
  BY DEF DInv, TypeOK, DirTypes
<1>2. MkDirP(p) \/ MakeMaildir(p)
  BY <1>1 DEF Step, Request, Lookup, Put, TableStep, Called, Empty, Sweep, RmDir, SetDir, Reply,
     Die, homeVars, dirVars, DirTypes
<1> QED
  BY <1>1, <1>2 DEF MkDirP, MakeMaildir, SetDir, dirVars, DirTypes

(* An account disappears in the call of a process that then minds its      *)
(* directory.                                                              *)
LEMMA DeletedIsMinded ==
    ASSUME DInv, Orderly', NEW p \in Procs, Next,
           (\E r \in Reqs : Request(p, r)) \/ Step(p) \/ Die(p),
           NEW u \in Users, Visible[u] # Absent, Visible'[u] = Absent
    PROVE  Minding(p)' /\ req'[p].user = u
<1>1. Orderly /\ table' # table
  BY OrderlyBefore, Unseen
<1>2. TableStep(p)
  BY <1>1, SameSteps DEF Step, Request, Lookup, MkDirP, MakeMaildir, Put, Called,
     Empty, Sweep, RmDir, Reply, Die, tableVars, TP!Call, TP!Return, TP!Leave, TP!Die
<1>3. /\ stage[p] = "calling" /\ LinkedOf(p) /\ req[p].user \in Users
      /\ Lost(p) \/ Failed(p) \/ Worked(p) \/ TP!Rename(p)
  BY <1>2, CallSteps, ReqType DEF TableStep, DInv, TypeOK, Linked, LinkedOf
<1>4. TP!Rename(p)
  BY <1>1, <1>3 DEF Lost, Failed, Worked
<1>5. /\ UNCHANGED reqVars
      /\ Visible' = [Visible EXCEPT ![req[p].user] =
            IF req[p].kind = "deluser" THEN Absent ELSE vpw[p]]
  BY <1>2, <1>4, RenameSeen
<1>6. Visible \in [Users -> Entries \cup {Absent}] /\ vpw[p] \in Entries
  BY <1>3, VisibleType DEF DInv, LinkedOf
<1>7. req[p].user = u /\ req[p].kind = "deluser"
  BY <1>3, <1>5, <1>6, DomainAssumption
<1> QED
  BY <1>3, <1>5, <1>7 DEF Minding, reqVars

(* A step leaves a directory behind only if a process at it dies or fails. *)
LEMMA MailIsTaken ==
    ASSUME DInv, Orderly', Next, NEW u \in Users, LeftBehind(u)', ~LeftBehind(u),
           \A q \in Procs : stage[q] \notin {"idle", "done"} /\ req[q].user = u
              => stage'[q] # "idle" /\ (stage'[q] = "done" => ans'[q])
    PROVE  FALSE
<1>1. /\ dir'[u] # "absent" /\ Visible'[u] = Absent
      /\ \A q \in Procs : Minding(q)' => req'[q].user # u
  BY DEF LeftBehind
<1>2. ASSUME NEW w \in Users, Delivery(w) PROVE FALSE
  <2>1. UNCHANGED <<tableVars, reqVars, dir>>
    BY <1>2 DEF Delivery, LookUpToDeliver, Deliver, EndDeliveries, dirVars
  <2>2. Visible' = Visible
    BY <2>1, OrderlyBefore, Unseen DEF tableVars
  <2> QED
    BY <1>1, <2>1, <2>2 DEF LeftBehind, Minding, tableVars, reqVars
<1>3. PICK p \in Procs : (\E r \in Reqs : Request(p, r)) \/ Step(p) \/ Die(p)
  BY <1>2 DEF Next
<1>4. CASE dir[u] = "absent"
  <2>1. /\ MkDirP(p) \/ MakeMaildir(p)
        /\ req[p].user = u /\ stage[p] \notin {"idle", "done"}
    BY <1>1, <1>3, <1>4, MadeIsMinded
  <2>2. req' = req /\ Minding(p)'
    BY <1>1, <2>1, MindsDirectory
  <2> QED
    BY <1>1, <2>1, <2>2
<1>5. CASE Visible[u] # Absent
  BY <1>1, <1>3, <1>5, DeletedIsMinded
<1>6. CASE dir[u] # "absent" /\ Visible[u] = Absent
  <2>1. PICK q \in Procs : Minding(q) /\ req[q].user = u
    BY <1>6 DEF LeftBehind
  <2>2. q = p
    <3>1. OneMoves(p)
      BY <1>3, StepsKeep DEF RequestDone
    <3> QED
      BY <1>1, <2>1, <3>1 DEF OneMoves, Minding
  <2>3. stage[p] \notin {"idle", "done"}
    BY <2>1, <2>2 DEF Minding
  <2> QED
    BY <1>1, <1>3, <2>1, <2>2, <2>3, MindsOn
<1> QED
  BY <1>4, <1>5, <1>6

(* A directory without an account is left behind only by a process that    *)
(* dies at it or says so, whatever processes, deliveries and errors come   *)
(* together.                                                               *)
THEOREM MailIsTakenAlong == Spec => MailGoesWithAccount
<1> DEFINE Taken ==
      \A u \in Users : Orderly' /\ LeftBehind(u)' /\ ~LeftBehind(u)
         => \E p \in Procs :
               /\ stage[p] \notin {"idle", "done"} /\ req[p].user = u
               /\ stage'[p] = "idle" \/ (stage'[p] = "done" /\ ~ans'[p])
<1>1. DInv /\ [Next]_vars => [Taken]_vars
  BY MailIsTaken
<1> QED
  BY <1>1, Invariance, PTL DEF Spec, MailGoesWithAccount

-----------------------------------------------------------------------------
(* One process at a time *)

Alone ==
    /\ \A p, q \in Procs : p = q
    /\ "io" \notin Faults
    /\ Requests \subseteq {"adduser", "chattr", "deluser"}

(* One process has its users to itself.                                    *)
LEMMA AloneIsSeparate == Alone => Separate /\ TP!Serial
BY DEF Alone, Separate, TP!Serial

(* Then no lock is removed and no update lost. *)
AInv == KInv /\ TP!SInv /\ ~stale

(* So it is at first.                                                      *)
LEMMA InitAlone == Init => AInv
BY InitTidy, TP!SerialInit, TableAssumption, SameTable DEF Init, AInv

(* The copy of the only writer is always current.                          *)
LEMMA AloneKeeps ==
    ASSUME Alone, AInv, [Next]_vars
    PROVE  AInv'
<1>1. KInv'
  BY AloneIsSeparate, TidyKeeps DEF AInv
<1>2. TP!SInv'
  BY AloneIsSeparate, TableMoves, TableAssumption, TP!SerialKeeps DEF AInv, KInv
<1>3. ~stale'
  <2>1. ASSUME NEW p \in Procs, TableStep(p) PROVE ~stale'
    <3>1. pc[p] = "renaming" => snap[p] = Visible
      BY SameTable DEF AInv, TP!SInv, TP!Current, TP!Holds, TP!Writing
    <3> QED
      BY <2>1, <3>1 DEF TableStep, AInv
  <2> QED
    BY <2>1 DEF Next, Step, Request, Lookup, MkDirP, MakeMaildir, Put, Called, Empty, Sweep, RmDir,
       Reply, Die, Delivery, LookUpToDeliver, Deliver, EndDeliveries, vars, tableVars, AInv
<1> QED
  BY <1>1, <1>2, <1>3 DEF AInv

(* So all that has processes in order holds.                               *)
LEMMA AloneOrderly == AInv => Orderly
BY DEF AInv, TP!SInv, TP!Current, Orderly

(* The invariant of one process holds in every state.                      *)
LEMMA AloneInvariance ==
    ASSUME Alone
    PROVE  Spec => []AInv
BY InitAlone, AloneKeeps, PTL DEF Spec

(* The atomic map of VDomain's table is the one of the table's theorem. *)
LEMMA SameMap ==
    /\ Table!Map!Init <=> TP!Map!Init
    /\ Table!Map!Next <=> TP!Map!Next
    /\ Table!Map!vars = TP!Map!vars /\ Table!Map!vars' = TP!Map!vars'
<1> USE SameTable, SameVisibleNext DEF Visible
<1>1. Table!Map!Init <=> TP!Map!Init
  BY DEF Table!Map!Init, TP!Map!Init
<1>2. Table!Map!vars = TP!Map!vars /\ Table!Map!vars' = TP!Map!vars'
  BY DEF Table!Map!vars, TP!Map!vars
<1>3. \A p, o : Table!Map!Invoke(p, o) <=> TP!Map!Invoke(p, o)
  BY DEF Table!Map!Invoke, TP!Map!Invoke
<1>4. \A p, ok : Table!Map!Reply(p, ok) <=> TP!Map!Reply(p, ok)
  BY DEF Table!Map!Reply, TP!Map!Reply, Table!Map!Pending, TP!Map!Pending
<1>5. \A p : Table!Map!Add(p) <=> TP!Map!Add(p)
  BY <1>4 DEF Table!Map!Add, TP!Map!Add
<1>6. \A p : Table!Map!Set(p) <=> TP!Map!Set(p)
  BY <1>4 DEF Table!Map!Set, TP!Map!Set
<1>7. \A p : Table!Map!Del(p) <=> TP!Map!Del(p)
  BY <1>4 DEF Table!Map!Del, TP!Map!Del
<1>8. \A p : Table!Map!Refuse(p) <=> TP!Map!Refuse(p)
  BY <1>4 DEF Table!Map!Refuse, TP!Map!Refuse
<1>9. \A p : Table!Map!Leave(p) <=> TP!Map!Leave(p)
  BY DEF Table!Map!Leave, TP!Map!Leave
<1>10. Table!Map!Next <=> TP!Map!Next
  BY <1>3, <1>5, <1>6, <1>7, <1>8, <1>9
  DEF Table!Map!Next, TP!Map!Next, Table!Map!Ops, TP!Map!Ops
<1> QED
  BY <1>1, <1>2, <1>10

(* To one process at a time the table is an atomic map, also as the domain *)
(* uses it.                                                                *)
THEOREM TableIsAtomic ==
    ASSUME Alone
    PROVE  Spec => AtomicTable
<1>1. Init => Table!Map!Init
  BY TP!InitImplements, TableAssumption, SameTable, SameMap DEF Init
<1>2. AInv /\ [Next]_vars => [Table!Map!Next]_(Table!Map!vars)
  BY AloneIsSeparate, TableMoves, TableAssumption, TP!NextImplements, SameMap DEF AInv, KInv
<1> QED
  BY <1>1, <1>2, AloneInvariance, PTL DEF Spec, AtomicTable, Table!AtomicMap, Table!Map!Spec

-----------------------------------------------------------------------------
(* Requests are those of atomic accounts *)

(* What is said of a request, by how far it is. *)
LEMMA SaidIs ==
    ASSUME NEW q
    PROVE  /\ stage[q] = "done" => Said(q) = ans[q]
           /\ stage[q] = "calling" /\ Decided(q) => Said(q) = res[q]
           /\ stage[q] \in {"emptying", "sweeping", "rmdir"} => Said(q) = (req[q].kind = "deluser")
           /\ stage[q] \in {"idle", "lookup", "mkdirp", "maildir", "putting"} => Said(q) = None
           /\ stage[q] = "calling" /\ ~Decided(q) => Said(q) = None
BY DEF Said, Decided

(* The same after a step.                                                  *)
LEMMA SaidIsNext ==
    ASSUME NEW q
    PROVE  /\ stage'[q] = "done" => Said(q)' = ans'[q]
           /\ stage'[q] = "calling" /\ Decided(q)' => Said(q)' = res'[q]
           /\ stage'[q] \in {"emptying", "sweeping", "rmdir"} => Said(q)' = (req'[q].kind = "deluser")
           /\ stage'[q] \in {"idle", "lookup", "mkdirp", "maildir", "putting"} => Said(q)' = None
           /\ stage'[q] = "calling" /\ ~Decided(q)' => Said(q)' = None
BY DEF Said, Decided

(* A step for one request says nothing new of the others. *)
LEMMA SaidChanges ==
    ASSUME NEW p \in Procs, RequestDone(p)
    PROVE  [q \in Procs |-> Said(q)]' = [[q \in Procs |-> Said(q)] EXCEPT ![p] = Said(p)']
<1>1. ASSUME NEW q \in Procs \ {p} PROVE Said(q)' = Said(q)
  BY <1>1 DEF RequestDone, OneMoves, Said
<1> QED
  BY <1>1

(* A step that decides nothing. *)
LEMMA Stutters ==
    ASSUME NEW p \in Procs, RequestDone(p), Visible' = Visible, req' = req, Said(p)' = Said(p)
    PROVE  UNCHANGED Promise!vars
BY SaidChanges DEF Promise!vars

(* A step that decides a request. *)
LEMMA Decides ==
    ASSUME NEW p \in Procs, RequestDone(p), req[p] # None, req' = req,
           NEW ok, Said(p) = None, Said(p)' = ok
    PROVE  Promise!Decide(p, ok)
BY SaidChanges DEF Promise!Decide

(* A process that has answered, or died. *)
LEMMA Leaves ==
    ASSUME DInv, NEW p \in Procs, RequestDone(p), stage[p] # "idle", Gone(p), Visible' = Visible
    PROVE  Promise!Next
<1>1. req[p] # None
  BY DEF DInv, Linked, LinkedOf
<1>2. stage'[p] = "idle" /\ req' = [req EXCEPT ![p] = None]
  BY DEF Gone, Goto, DInv, TypeOK
<1>3. Promise!Leave(p)
  BY <1>1, <1>2, SaidChanges, SaidIsNext DEF Promise!Leave
<1> QED
  BY <1>3 DEF Promise!Next

(* A request that comes is Ask.                                            *)
LEMMA AskImplements ==
    ASSUME DInv, Orderly, NEW p \in Procs, NEW r \in Reqs, Request(p, r), Next
    PROVE  Promise!Next
<1>1. /\ RequestDone(p) /\ stage[p] = "idle" /\ req[p] = None
      /\ stage'[p] = "lookup" /\ req' = [req EXCEPT ![p] = r] /\ ReqTypes
  BY AskKeeps DEF Request, Goto, DInv, TypeOK, Linked, LinkedOf, ReqTypes
<1>2. Visible' = Visible
  BY Unseen DEF Request, tableVars
<1>3. Said(p)' = Said(p)
  BY <1>1, SaidIs, SaidIsNext
<1>4. Promise!Ask(p, r)
  BY <1>1, <1>2, <1>3, SaidChanges DEF Promise!Ask
<1> QED
  BY <1>4 DEF Promise!Next

(* A lookup that refuses is Refuse, one that dies is Leave.                *)
LEMMA LookupImplements ==
    ASSUME DInv, Orderly, NEW p \in Procs, Lookup(p), Next
    PROVE  Promise!Next \/ UNCHANGED Promise!vars
<1>1. /\ RequestDone(p) /\ stage[p] = "lookup" /\ ReqTypes /\ req[p] # None
  BY LookupKeeps DEF Lookup, DInv, TypeOK, Linked, LinkedOf, ReqTypes
<1>2. Visible' = Visible
  BY Unseen DEF Lookup, tableVars
<1>3. CASE Gone(p)
  BY <1>1, <1>2, <1>3, Leaves
<1>4. CASE Answer(p, FALSE)
  <2>1. stage'[p] = "done" /\ ans'[p] = FALSE /\ req' = req
    BY <1>1, <1>4 DEF Answer, Goto, ReqTypes
  <2>2. Promise!Decide(p, FALSE)
    BY <1>1, <2>1, Decides, SaidIs, SaidIsNext
  <2> QED
    BY <1>2, <2>2 DEF Promise!Next, Promise!Refuse
<1>5. CASE UNCHANGED <<req, ans>> /\ \E s \in {"mkdirp", "putting"} : Goto(p, s)
  <2>1. stage'[p] \in {"mkdirp", "putting"} /\ req' = req
    BY <1>1, <1>5 DEF Goto, ReqTypes
  <2> QED
    BY <1>1, <1>2, <2>1, Stutters, SaidIs, SaidIsNext
<1> QED
  BY <1>3, <1>4, <1>5 DEF Lookup

(* The directories are not seen in the accounts, but that deluser says so  *)
(* when it could not remove one.                                           *)
LEMMA DirectoryImplements ==
    ASSUME Alone, DInv, Orderly, Tidy, NEW p \in Procs,
           MkDirP(p) \/ MakeMaildir(p) \/ Empty(p) \/ Sweep(p) \/ RmDir(p), Next
    PROVE  Promise!Next \/ UNCHANGED Promise!vars
<1>1. RequestDone(p) /\ ReqTypes /\ LinkedOf(p)
  BY DirectoryKeeps DEF DInv, TypeOK, Linked, ReqTypes
<1>2. Visible' = Visible
  BY Unseen DEF MkDirP, MakeMaildir, Empty, Sweep, RmDir, tableVars
<1>3. "io" \notin Faults
  BY DEF Alone
<1>4. CASE MkDirP(p) \/ MakeMaildir(p)
  <2>1. stage[p] \in {"mkdirp", "maildir"} /\ \E s \in {"maildir", "putting"} : Continue(p, s)
    BY <1>3, <1>4 DEF MkDirP, MakeMaildir
  <2>2. stage'[p] \in {"maildir", "putting"} /\ req' = req
    BY <1>1, <2>1 DEF Continue, Goto, ReqTypes
  <2> QED
    BY <1>1, <1>2, <2>1, <2>2, Stutters, SaidIs, SaidIsNext
<1>5. CASE Empty(p) \/ Sweep(p) \/ RmDir(p)
  <2>1. stage[p] \in {"emptying", "sweeping", "rmdir"} /\ Said(p) = (req[p].kind = "deluser")
    BY <1>5, SaidIs DEF Empty, Sweep, RmDir
  <2>2. \/ \E s \in {"emptying", "sweeping", "rmdir"} : Continue(p, s)
        \/ Answer(p, req[p].kind = "deluser")
        \/ Answer(p, FALSE)
    BY <1>5 DEF Empty, Sweep, RmDir
  <2>3. /\ req' = req
        /\ \/ stage'[p] \in {"emptying", "sweeping", "rmdir"}
           \/ stage'[p] = "done" /\ ans'[p] = (req[p].kind = "deluser")
           \/ stage'[p] = "done" /\ ans'[p] = FALSE
    BY <1>1, <2>2 DEF Continue, Answer, Goto, ReqTypes
  <2>4. CASE Said(p)' = (req[p].kind = "deluser")
    BY <1>1, <1>2, <2>1, <2>3, <2>4, Stutters
  <2>5. CASE Said(p)' = FALSE /\ req[p].kind = "deluser"
    <3>1. req[p] # None /\ Said(p) = TRUE
      BY <1>1, <2>1, <2>5 DEF LinkedOf
    <3>2. Promise!Complain(p)
      BY <1>1, <1>2, <2>3, <2>5, <3>1, SaidChanges DEF Promise!Complain
    <3> QED
      BY <3>2 DEF Promise!Next
  <2> QED
    BY <2>3, <2>4, <2>5, SaidIsNext
<1> QED
  BY <1>4, <1>5

(* Nor is the beginning of the call, which decides nothing.                *)
LEMMA PutImplements ==
    ASSUME DInv, Orderly, NEW p \in Procs, Put(p), Next
    PROVE  UNCHANGED Promise!vars
<1>1. RequestDone(p) /\ ReqTypes
  BY PutKeeps DEF DInv, TypeOK, ReqTypes
<1>2. TP!Call(p, OpOf(req[p], vpw[p]))
  BY SameSteps DEF Put
<1>3. Visible' = Visible
  BY <1>2, Unseen DEF TP!Call
<1>4. /\ stage[p] = "putting" /\ stage'[p] = "calling" /\ req' = req /\ ~Decided(p)'
  BY <1>1, <1>2 DEF Put, Continue, Goto, ReqTypes, TP!Call, TP!Goto, DInv, TP!IInv, TP!TypeOK,
     Decided
<1> QED
  BY <1>1, <1>3, <1>4, Stutters, SaidIs, SaidIsNext

(* What has been decided by the call is what is answered.                  *)
LEMMA CalledImplements ==
    ASSUME Alone, DInv, Orderly, NEW p \in Procs, Called(p), Next
    PROVE  UNCHANGED Promise!vars
<1>1. /\ RequestDone(p) /\ ReqTypes /\ stage[p] = "calling"
      /\ req[p].kind \in {"adduser", "chattr", "deluser"} /\ res[p] \in BOOLEAN
  BY CalledKeeps
  DEF DInv, TypeOK, ReqTypes, Called, Linked, LinkedOf, Alone, TP!IInv, TP!TypeOK
<1>2. TP!Leave(p) /\ pc[p] = "returned"
  BY SameSteps DEF Called, TP!Return
<1>3. Visible' = Visible
  BY <1>2, Unseen DEF TP!Leave
<1>4. Said(p) = res[p]
  BY <1>1, <1>2, SaidIs DEF Decided
<1>5. \/ Answer(p, res[p])
      \/ Continue(p, "emptying") /\ (req[p].kind = "deluser") = res[p]
  BY <1>1 DEF Called
<1>6. /\ req' = req
      /\ \/ stage'[p] = "done" /\ ans'[p] = res[p]
         \/ stage'[p] = "emptying" /\ (req[p].kind = "deluser") = res[p]
  BY <1>1, <1>5 DEF Answer, Continue, Goto, ReqTypes
<1>7. Said(p)' = res[p]
  BY <1>6, SaidIsNext
<1> QED
  BY <1>1, <1>3, <1>4, <1>6, <1>7, Stutters

(* The end of a request is Leave.                                          *)
LEMMA EndImplements ==
    ASSUME DInv, Orderly, NEW p \in Procs, Reply(p) \/ Die(p), Next
    PROVE  Promise!Next
<1>1. RequestDone(p) /\ stage[p] # "idle" /\ Gone(p)
  BY EndKeeps DEF Reply, Die
<1>2. table' = table
  BY SameSteps DEF Reply, Die, tableVars, TP!Die, TP!Leave
<1>3. Visible' = Visible
  BY <1>2, Unseen
<1> QED
  BY <1>1, <1>3, Leaves

(* The call of the table decides the request where it renames its copy,    *)
(* and refuses it where it gives up.                                       *)
LEMMA TableStepImplements ==
    ASSUME Alone, DInv, Orderly, Orderly', Tidy, NEW p \in Procs, TableStep(p), Next
    PROVE  Promise!Next \/ UNCHANGED Promise!vars
<1> DEFINE u == req[p].user
<1>1. /\ RequestDone(p) /\ stage[p] = "calling" /\ ReqTypes /\ LinkedOf(p)
  BY TableStepKeeps DEF TableStep, DInv, TypeOK, ReqTypes, Linked
<1>2. req[p] # None /\ req[p].kind \in {"adduser", "chattr", "deluser"}
  BY <1>1 DEF LinkedOf, Alone
<1>3. ~Decided(p) => Said(p) = None
  BY <1>1, SaidIs
<1>4. CASE Lost(p)
  <2>1. Visible' = Visible
    BY <1>4, Unseen DEF Lost
  <2>2. Gone(p)
    BY <1>4 DEF TableStep, Lost
  <2> QED
    BY <1>1, <2>1, <2>2, Leaves
<1>5. CASE Failed(p)
  <2>1. Visible' = Visible
    BY <1>5, Unseen DEF Failed
  <2>2. ~Decided(p) /\ Decided(p)' /\ UNCHANGED reqVars /\ res'[p] = FALSE
    <3>1. res'[p] \in BOOLEAN
      BY TableKeeps DEF TP!IInv, TP!TypeOK
    <3> QED
      BY <1>5, <3>1 DEF Failed, Decided, TableStep, Alone
  <2>3. Said(p)' = FALSE
    BY <1>1, <2>2, SaidIsNext DEF reqVars
  <2>4. Promise!Decide(p, FALSE)
    BY <1>1, <1>2, <1>3, <2>2, <2>3, Decides DEF reqVars
  <2> QED
    BY <2>1, <2>4 DEF Promise!Next, Promise!Refuse
<1>6. CASE Worked(p)
  <2>1. Visible' = Visible
    BY <1>6, Unseen DEF Worked
  <2>2. UNCHANGED <<reqVars, res>> /\ (Decided(p)' <=> Decided(p))
    BY <1>6 DEF TableStep, Worked
  <2>3. Said(p)' = Said(p)
    BY <1>1, <2>2, SaidIs, SaidIsNext DEF reqVars
  <2> QED
    BY <1>1, <2>1, <2>2, <2>3, Stutters DEF reqVars
<1>7. CASE TP!Rename(p)
  <2>1. /\ Decided(p)' /\ ~Decided(p) /\ res'[p] /\ UNCHANGED reqVars
        /\ Visible' = [Visible EXCEPT ![u] =
              IF req[p].kind = "deluser" THEN Absent ELSE vpw[p]]
    BY <1>7, RenameSeen
  <2>2. /\ (req[p].kind = "adduser" <=> Visible[u] = Absent)
        /\ vpw[p] = Edited(req[p], Visible[u])
    BY <1>1, <2>1 DEF Tidy, Before, Fits
  <2>3. Said(p)' = TRUE
    <3>1. res'[p] = TRUE
      BY <2>1, TableKeeps DEF TP!IInv, TP!TypeOK
    <3> QED
      BY <1>1, <2>1, <3>1, SaidIsNext DEF reqVars
  <2>4. Promise!Decide(p, TRUE)
    BY <1>1, <1>2, <1>3, <2>1, <2>3, Decides DEF reqVars
  <2>5. CASE req[p].kind = "adduser"
    BY <2>1, <2>2, <2>4, <2>5 DEF Promise!Next, Promise!AddUser, Edited
  <2>6. CASE req[p].kind = "chattr"
    <3>1. vpw[p] = [Visible[u] EXCEPT !.attr[req[p].attr] = req[p].word]
      BY <2>2, <2>6 DEF Edited
    <3>2. Visible' = [Visible EXCEPT ![u].attr[req[p].attr] = req[p].word]
      BY <2>1, <2>6, <3>1
    <3> QED
      BY <2>2, <2>4, <2>6, <3>2 DEF Promise!Next, Promise!Change
  <2>7. CASE req[p].kind = "deluser"
    BY <2>1, <2>2, <2>4, <2>7 DEF Promise!Next, Promise!DelUser
  <2> QED
    BY <1>2, <2>5, <2>6, <2>7
<1> QED
  BY <1>1, <1>4, <1>5, <1>6, <1>7, CallSteps DEF DInv

(* The domain begins without accounts.                                     *)
LEMMA InitPromised == Init => Promise!Init
<1> SUFFICES ASSUME Init PROVE Promise!Init
  OBVIOUS
<1>1. Visible = [u \in Users |-> Absent]
  BY DEF Init, Table!Init, Visible, Table!Visible, Table!View, Table!EmptyTable
<1>2. \A q \in Procs : Said(q) = None
  BY DEF Init, Said
<1> QED
  BY <1>1, <1>2 DEF Init, Promise!Init

(* Every step is one of Accounts or is not seen.                           *)
LEMMA NextPromised ==
    ASSUME Alone, AInv, [Next]_vars
    PROVE  [Promise!Next]_(Promise!vars)
<1>1. DInv /\ Orderly /\ Orderly' /\ Tidy
  BY AloneOrderly, AloneKeeps DEF AInv, KInv, TP!SInv, TP!Current, Orderly
<1>2. CASE UNCHANGED <<tableVars, reqVars>>
  <2>1. Visible' = Visible
    BY <1>1, <1>2, Unseen DEF tableVars
  <2>2. \A q \in Procs : Said(q)' = Said(q)
    BY <1>2 DEF Said, tableVars, reqVars
  <2> QED
    BY <1>2, <2>1, <2>2 DEF Promise!vars, reqVars
<1>3. CASE UNCHANGED vars \/ \E u \in Users : Delivery(u)
  BY <1>2, <1>3 DEF vars, Delivery, LookUpToDeliver, Deliver, EndDeliveries
<1>4. ASSUME NEW p \in Procs, Next, (\E r \in Reqs : Request(p, r)) \/ Step(p) \/ Die(p)
      PROVE  Promise!Next \/ UNCHANGED Promise!vars
  BY <1>1, <1>4, AskImplements, LookupImplements, DirectoryImplements, PutImplements,
     TableStepImplements, CalledImplements, EndImplements DEF Step
<1> QED
  BY <1>3, <1>4 DEF Next

(* One process at a time acts on accounts as the specification Accounts    *)
(* does: each request changes one account in one step or is refused and    *)
(* changes nothing, and is answered truly, wherever the process is killed. *)
THEOREM RequestsAreAtomic ==
    ASSUME Alone
    PROVE  Spec => AtomicAccounts
<1>1. AInv /\ [Next]_vars => [Promise!Next]_(Promise!vars)
  BY NextPromised
<1> QED
  BY <1>1, InitPromised, AloneInvariance, PTL DEF Spec, AtomicAccounts, Promise!Spec
=============================================================================
