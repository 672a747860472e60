--------------------------- MODULE SessionProofs ----------------------------
(***************************************************************************)
(* Theorems about requests to vmailmgrd, for any number of connections,    *)
(* messages of any length and whatever write fails: what a client is told  *)
(* is true, a request that is repeated takes effect once, and no alarm     *)
(* cuts a command short.                                                   *)
(*                                                                         *)
(* The processes at work take the steps of VDomain, whose invariant holds  *)
(* here (DomainMoves).  The invariant of the session (SessionInv) ties     *)
(* each process to its request (AtWork), what the client has read to what  *)
(* was done (Told, FirstIsTrue), and what was done to the table (Present): *)
(* an add leaves the user there for good, and whoever comes after an ok    *)
(* never gets past its lookup (Later).                                     *)
(***************************************************************************)
EXTENDS Session, VDomainProofs

-----------------------------------------------------------------------------
(* The inductive invariant *)

Waiting == {"none", "header", "body", "read", "work", "lookup"}
Answering == {"stream", "reply", "gone"}

SessionTypeOK ==
    /\ cl \in [Conns -> {"idle", "sending", "code", "length", "text"} \cup Outcomes]
    /\ kind \in [Conns -> {"add", "lookup"}]
    /\ srv \in [Conns -> Waiting \cup Answering]
    /\ alarm \in [Conns -> BOOLEAN]
    /\ first \in [Conns -> {"econn", "ok", "err"}]
    /\ done \in [Conns -> BOOLEAN]

(* Nothing is answered before the command has come back, a connection that *)
(* has not been made has no process, and the client makes one at a time.   *)
Untouched ==
    \A c \in Conns :
        /\ srv[c] \in Waiting => first[c] = "econn"
        /\ cl[c] = "idle" => srv[c] = "none"
        /\ cl[c] # "idle" => \A d \in 1..(c - 1) : Closed(d)

(* The request has renamed its table into place and has not forgotten it. *)
Effected(c) ==
    \/ stage[c] = "calling" /\ Decided(c) /\ res[c]
    \/ stage[c] = "done" /\ ans[c]

(* A process is at work in the domain while its request to add is; what it *)
(* streams is what a lookup has found.                                     *)
AtWorkOf(c) ==
    /\ srv[c] = "work" <=> stage[c] # "idle"
    /\ srv[c] = "work" => kind[c] = "add" /\ (done[c] <=> Effected(c))
    /\ srv[c] \in {"lookup", "stream"} => kind[c] = "lookup"
    /\ srv[c] = "stream" => first[c] = "ok"
    /\ srv[c] \in Waiting \ {"work"} \/ kind[c] = "lookup" => ~done[c]

AtWork == \A c \in Conns : AtWorkOf(c)

(* The first code sent is the one the client ends with, and it is true. *)
Told == \A c \in Conns : cl[c] \in {"ok", "err"} => first[c] = cl[c]

TrueOf(c) ==
    kind[c] = "add" => (first[c] = "ok" => done[c]) /\ (first[c] = "err" => ~done[c])

FirstIsTrue == \A c \in Conns : TrueOf(c)

(* Told ok to add, the client finds the user from then on. *)
PresentOf(c) ==
    /\ done[c] \/ first[c] = "ok" => Visible[User] # Absent
    /\ kind[c] = "lookup" /\ first[c] = "err"
         => \A d \in 1..(c - 1) : kind[d] = "add" => cl[d] # "ok"

Present == \A c \in Conns : PresentOf(c)

(* Who comes after an ok to an add gets no further than its lookup. *)
LaterOf(d) ==
    \A c \in 1..(d - 1) :
        kind[c] = "add" /\ cl[c] = "ok" => ~done[d] /\ stage[d] \in {"idle", "lookup", "done"}

Later == \A d \in Conns : LaterOf(d)

Once == \A c, d \in Conns : done[c] /\ done[d] => c = d

QuietOf(c) == srv[c] \in {"none", "work", "lookup", "stream"} => ~alarm[c]

Quiet == \A c \in Conns : QuietOf(c)

SessionInv ==
    /\ DInv
    /\ SessionTypeOK
    /\ Untouched
    /\ AtWork
    /\ Told
    /\ FirstIsTrue
    /\ ~robbed => Present /\ Later
    /\ Orderly => Once
    /\ Quiet

(* Nobody has asked for anything yet.                                      *)
LEMMA InitSession == SessionInit => SessionInv
<1> SUFFICES ASSUME SessionInit PROVE SessionInv
  OBVIOUS
<1>1. DInv
  BY InitRequests DEF SessionInit
<1>2. SessionTypeOK /\ Untouched /\ Told /\ FirstIsTrue /\ Once /\ Quiet
  BY DEF SessionInit, SessionTypeOK, Waiting, Outcomes, Untouched, Told, FirstIsTrue, TrueOf,
     Once, Quiet, QuietOf
<1>3. AtWork
  BY SessionAssumption DEF SessionInit, Init, AtWork, AtWorkOf
<1>4. Present /\ Later
  BY SessionAssumption DEF SessionInit, Present, PresentOf, Later, LaterOf, Conns
<1> QED
  BY <1>1, <1>2, <1>3, <1>4 DEF SessionInv

-----------------------------------------------------------------------------
(* The steps of the domain *)

(* Every step of a session is one of the domain or leaves it alone. *)
LEMMA DomainMoves == [SessionNext]_sessionVars => [Next]_vars
<1> SUFFICES ASSUME SessionNext, NEW c \in Conns,
               Connect(c) \/ Send(c) \/ ReadResponse(c) \/ Quit(c) \/ Daemon(c) \/ HandleAlrm(c)
             PROVE  [Next]_vars
  BY DEF SessionNext, sessionVars
<1>1. c \in Procs /\ AddUser \in Reqs
  BY SessionAssumption
<1>2. CASE Work(c) \/ Finish(c)
  <2>1. Step(c)
    BY <1>2 DEF Work, Finish, Step
  <2> QED
    BY <1>1, <2>1 DEF Next
<1>3. CASE Disarm(c)
  BY <1>1, <1>3 DEF Disarm, Command, Next
<1> QED
  BY <1>2, <1>3 DEF Connect, Send, ReadResponse, Quit, Daemon, HandleAlrm, ReadRequest, Find, Write

(* All requests are to add the user. *)
LEMMA AddsUser ==
    ASSUME DInv, NEW c \in Conns, stage[c] # "idle"
    PROVE  c \in Procs /\ req[c].kind = "adduser" /\ req[c].user = User /\ User \in Users
<1>1. c \in Procs /\ Serves[c] = {User} /\ Requests = {"adduser"}
  BY SessionAssumption
<1>2. req[c].kind = "adduser" /\ req[c].user = User /\ req[c] \in Reqs
  BY <1>1 DEF DInv, TypeOK, Linked, LinkedOf
<1> QED
  BY <1>1, <1>2, ReqType

(* A call that stands at its rename does it or fails.                      *)
LEMMA AtRename ==
    ASSUME DInv, NEW c \in Procs, Step(c), pc[c] = "renaming"
    PROVE  TableStep(c) /\ (TP!Rename(c) \/ res'[c] = FALSE)
<1>1. stage[c] = "calling"
  BY DEF DInv, Linked, LinkedOf
<1>2. TableStep(c)
  BY <1>1 DEF Step, Lookup, MkDirP, MakeMaildir, Put, Called, Table!Return, Empty, Sweep, RmDir,
     Reply
<1>3. TP!Rename(c) \/ TP!WriteError(c)
  BY <1>2, SameSteps DEF TableStep, TP!OpenTable, TP!CreateTmp, TP!Copy, TP!FlushBody,
     TP!FlushHeader, TP!Unlink, TP!OpenError
<1>4. CASE TP!WriteError(c)
  <2>1. res' = [res EXCEPT ![c] = FALSE]
    BY <1>4 DEF TP!WriteError, TP!Finish
  <2> QED
    BY <1>2, <2>1 DEF DInv, TP!IInv, TP!TypeOK
<1> QED
  BY <1>2, <1>3, <1>4

(* A request that is not at a rename goes on as it was: with an effect if  *)
(* it had one.                                                             *)
LEMMA EffectStep ==
    ASSUME DInv, NEW c \in Conns, Step(c), stage[c] \notin {"idle", "done"}, stage'[c] # "idle"
    PROVE  Effected(c)' <=> Effected(c) \/ (pc[c] = "renaming" /\ res'[c])
<1>1. /\ c \in Procs /\ req[c].kind = "adduser" /\ ReqTypes /\ LinkedOf(c)
  BY AddsUser DEF DInv, TypeOK, ReqTypes, Linked
<1>2. CASE Lookup(c)
  <2>1. stage[c] = "lookup" /\ pc[c] = "idle"
    BY <1>1, <1>2 DEF Lookup, LinkedOf
  <2>2. Answer(c, FALSE) \/ Goto(c, "mkdirp")
    <3>1. CASE Gone(c)
      BY <1>1, <3>1, Goes
    <3> QED
      BY <1>1, <1>2, <3>1 DEF Lookup
  <2>3. (stage'[c] = "done" /\ ~ans'[c]) \/ stage'[c] = "mkdirp"
    BY <1>1, <2>2 DEF Answer, Goto, ReqTypes
  <2> QED
    BY <2>1, <2>3 DEF Effected
<1>3. CASE MkDirP(c) \/ MakeMaildir(c) \/ Empty(c) \/ Sweep(c) \/ RmDir(c)
  <2>1. stage[c] \in {"mkdirp", "maildir", "emptying", "sweeping", "rmdir"} /\ pc[c] = "idle"
    BY <1>1, <1>3 DEF MkDirP, MakeMaildir, Empty, Sweep, RmDir, LinkedOf
  <2>2. \/ Answer(c, FALSE)
        \/ \E s \in {"maildir", "putting", "emptying", "sweeping", "rmdir"} : Continue(c, s)
    <3>1. (req[c].kind = "deluser") = FALSE
      BY <1>1
    <3> QED
      BY <1>3, <3>1 DEF MkDirP, MakeMaildir, Empty, Sweep, RmDir
  <2>3. \/ stage'[c] = "done" /\ ~ans'[c]
        \/ stage'[c] \in {"maildir", "putting", "emptying", "sweeping", "rmdir"}
    BY <1>1, <2>2 DEF Answer, Continue, Goto, ReqTypes
  <2> QED
    BY <2>1, <2>3 DEF Effected
<1>4. CASE Put(c)
  <2>1. TP!Call(c, OpOf(req[c], vpw[c])) /\ Continue(c, "calling") /\ stage[c] = "putting"
    BY <1>4, SameSteps DEF Put
  <2>2. pc[c] = "idle" /\ pc'[c] = "opening" /\ stage'[c] = "calling"
    BY <1>1, <2>1 DEF TP!Call, TP!Goto, DInv, TP!IInv, TP!TypeOK, Continue, Goto, ReqTypes
  <2> QED
    BY <2>1, <2>2 DEF Effected, Decided
<1>5. CASE TableStep(c)
  <2>1. stage[c] = "calling" /\ UNCHANGED reqVars /\ pc'[c] # "idle"
    BY <1>1, <1>5, Goes DEF TableStep
  <2>2. Lost(c) \/ Failed(c) \/ Worked(c) \/ TP!Rename(c)
    BY <1>1, <1>5, <2>1, CallSteps DEF DInv
  <2>3. CASE pc[c] = "renaming"
    <3>1. Decided(c)'
      BY <1>1, <1>5, <2>3, SameSteps DEF TableStep, TP!Rename, TP!Finish, TP!Goto, TP!WriteError,
         TP!OpenTable, TP!CreateTmp, TP!Copy, TP!FlushBody, TP!FlushHeader, TP!Unlink,
         TP!OpenError, DInv, TP!IInv, TP!TypeOK, Decided
    <3> QED
      BY <2>1, <2>3, <3>1 DEF Effected, Decided, reqVars
  <2>4. CASE pc[c] # "renaming"
    <3>1. op[c].kind # "del"
      BY <1>1, <2>1 DEF LinkedOf, OpOf
    <3>2. CASE Failed(c)
      BY <2>1, <2>4, <3>1, <3>2 DEF Failed, Effected, reqVars
    <3>3. CASE Worked(c)
      BY <2>1, <2>4, <3>3 DEF Worked, Effected, reqVars
    <3> QED
      BY <2>1, <2>2, <2>4, <3>2, <3>3 DEF Lost, TP!Rename
  <2> QED
    BY <2>3, <2>4
<1>6. CASE Called(c)
  <2>1. stage[c] = "calling" /\ pc[c] = "returned" /\ res[c] \in BOOLEAN
    BY <1>1, <1>6, SameSteps DEF Called, TP!Return, DInv, TP!IInv, TP!TypeOK
  <2>2. IF res[c] THEN Answer(c, TRUE) ELSE Continue(c, "emptying")
    BY <1>1, <1>6 DEF Called
  <2>3. IF res[c] THEN stage'[c] = "done" /\ ans'[c] ELSE stage'[c] = "emptying"
    BY <1>1, <2>2 DEF Answer, Continue, Goto, ReqTypes
  <2> QED
    BY <2>1, <2>3 DEF Effected, Decided
<1> QED
  BY <1>2, <1>3, <1>4, <1>5, <1>6 DEF Step, Reply

(* A process at work is ended by a torn table alone.                       *)
LEMMA EndsTorn ==
    ASSUME DInv, NEW c \in Conns, Step(c), stage[c] \notin {"idle", "done"}, stage'[c] = "idle"
    PROVE  Table!Torn(table)
<1>1. c \in Procs /\ req[c].kind = "adduser" /\ ReqTypes
  BY AddsUser DEF DInv, TypeOK, ReqTypes
<1>2. CASE Lookup(c)
  BY <1>1, <1>2 DEF Lookup, Answer, Goto, ReqTypes
<1>3. CASE MkDirP(c) \/ MakeMaildir(c) \/ Empty(c) \/ Sweep(c) \/ RmDir(c) \/ Put(c)
  BY <1>1, <1>3 DEF MkDirP, MakeMaildir, Empty, Sweep, RmDir, Put, Answer, Continue, Goto, ReqTypes
<1>4. CASE Called(c)
  BY <1>1, <1>4 DEF Called, Answer, Continue, Goto, ReqTypes
<1>5. CASE TableStep(c)
  <2>1. pc'[c] = "idle" /\ stage[c] = "calling"
    BY <1>5 DEF TableStep, reqVars
  <2>2. pc \in [Procs -> TP!Steps]
    BY DEF DInv, TP!IInv, TP!TypeOK
  <2>3. Table!OpenTable(c)
    BY <1>1, <1>5, <2>1, <2>2, SameSteps
    DEF TableStep, TP!CreateTmp, TP!Copy, TP!FlushBody, TP!FlushHeader, TP!Rename, TP!Unlink,
        TP!WriteError, TP!OpenError, TP!Finish, TP!Goto
  <2> QED
    BY <1>1, <2>1, <2>2, <2>3 DEF Table!OpenTable, Table!Finish, Table!Goto
<1> QED
  BY <1>2, <1>3, <1>4, <1>5 DEF Step, Reply

(* While no lock is removed every rename leaves the user in the table.     *)
LEMMA RenameAdds ==
    ASSUME DInv, ~robbed, NEW c \in Conns, stage[c] = "calling", TP!Rename(c)
    PROVE  /\ Visible'[User] # Absent
           /\ snap[c][User] = Absent
<1>1. /\ c \in Procs /\ req[c].kind = "adduser" /\ req[c].user = User /\ User \in Users
      /\ LinkedOf(c)
  BY AddsUser DEF DInv, Linked
<1>2. op[c].kind = "add" /\ op[c].name = User /\ op[c].val = vpw[c] /\ vpw[c] \in Entries
  BY <1>1 DEF LinkedOf, OpOf
<1>3. TP!Allowed(op[c], snap[c]) /\ TP!Visible' = TP!Apply(op[c], snap[c])
  BY <1>1, TP!RenamePublishes, TableAssumption DEF DInv
<1>4. snap[c] \in [Users -> Entries \cup {Absent}]
  BY <1>1 DEF DInv, TP!IInv, TP!TypeOK, TP!Contents
<1> QED
  BY <1>1, <1>2, <1>3, <1>4, SameVisibleNext, DomainAssumption DEF TP!Apply, TP!Allowed

(* So a user that is there stays. *)
LEMMA UserStays ==
    ASSUME DInv, ~robbed, [SessionNext]_sessionVars, Visible[User] # Absent
    PROVE  Visible'[User] # Absent
<1>1. [Next]_vars
  BY DomainMoves
<1>2. CASE table' = table
  <2>1. TP!Visible' = TP!Visible
    BY <1>1, <1>2, TableMoves, TableAssumption, TP!SameTableSameView DEF DInv
  <2> QED
    BY <2>1, SameTable, SameVisibleNext
<1>3. CASE table' # table
  <2>1. PICK c \in Conns : Work(c) \/ Finish(c) \/ Disarm(c)
    BY <1>3 DEF SessionNext, sessionVars, vars, tableVars, Connect, Send, ReadResponse, Quit,
       Daemon, HandleAlrm, ReadRequest, Find, Write
  <2>2. Work(c)
    BY <1>3, <2>1 DEF Finish, Reply, Disarm, Command, Request, vars, tableVars
  <2>3. TableStep(c) /\ c \in Procs
    BY <1>3, <2>2, SameSteps, SessionAssumption DEF Work, Step, Lookup, MkDirP, MakeMaildir, Put,
       Called, Empty, Sweep, RmDir, Reply, tableVars, TP!Call, TP!Return, TP!Leave
  <2>4. stage[c] = "calling" /\ TP!Rename(c)
    BY <1>3, <2>3, CallSteps DEF TableStep, DInv, Lost, Failed, Worked
  <2> QED
    BY <2>4, RenameAdds
<1> QED
  BY <1>2, <1>3

-----------------------------------------------------------------------------
(* Steps of the client: it learns no more than the first code says. *)

(* What its steps do: the client opens one connection after another, and   *)
(* ends with the code it has read.                                         *)
ClientStep(c) ==
    /\ UNCHANGED <<kind, first, done, stage, pc, res, ans>>
    /\ SessionTypeOK'
    /\ ~Closed(c) /\ cl'[c] # "idle"
    /\ \A d \in Conns \ {c} : cl'[d] = cl[d] /\ srv'[d] = srv[d] /\ alarm'[d] = alarm[d]
    /\ cl'[c] \in {"ok", "err"} => cl'[c] = first[c]
    /\ \/ srv'[c] = srv[c] /\ alarm'[c] = alarm[c]
       \/ cl[c] = "idle" /\ srv'[c] = "header"
    /\ cl[c] = "idle" /\ c > 1 => Closed(c - 1)

(* Each of them is one.                                                    *)
LEMMA ClientSteps ==
    ASSUME SessionTypeOK, NEW c \in Conns, Connect(c) \/ Send(c) \/ ReadResponse(c) \/ Quit(c)
    PROVE  ClientStep(c)
<1> USE DEF ClientStep, SessionTypeOK, Closed, Outcomes, Client, vars, tableVars, reqVars
<1>1. CASE Connect(c)
  BY <1>1 DEF Connect, Server, Alarm, Waiting
<1>2. CASE Send(c)
  BY <1>2 DEF Send
<1>3. CASE ReadResponse(c)
  BY <1>3 DEF ReadResponse
<1>4. CASE Quit(c)
  BY <1>4 DEF Quit
<1> QED
  BY <1>1, <1>2, <1>3, <1>4

(* They keep the invariant.                                                *)
LEMMA ClientKeeps ==
    ASSUME SessionInv, [SessionNext]_sessionVars, NEW c \in Conns, ClientStep(c)
    PROVE  SessionInv'
<1> USE DEF SessionInv, ClientStep, Closed, Outcomes
<1>1. DInv' /\ (~robbed' => ~robbed) /\ (Orderly' => Orderly)
  BY DomainMoves, RequestsKeep, UnrobbedBefore, OrderlyBefore
<1>2. c \in Nat /\ \A d \in Conns : d \in Nat /\ 1..(d - 1) \subseteq Conns
  BY SessionAssumption DEF Conns
<1>3. Untouched'
  <2>1. \A d \in Conns : cl'[d] # "idle" => \A e \in 1..(d - 1) : Closed(e)'
    <3> SUFFICES ASSUME NEW d \in Conns, cl'[d] # "idle", NEW e \in 1..(d - 1)
                 PROVE  Closed(e)'
      OBVIOUS
    <3>1. CASE cl[d] # "idle"
      BY <1>2, <3>1 DEF Untouched
    <3>2. CASE cl[d] = "idle"
      <4>1. d = c /\ c > 1 /\ Closed(c - 1) /\ c - 1 \in Conns
        BY <1>2, <3>2 DEF Conns
      <4>2. e = c - 1 \/ e \in 1..((c - 1) - 1)
        BY <1>2, <4>1
      <4>3. Closed(e) /\ e \in Conns /\ e # c
        BY <1>2, <4>1, <4>2 DEF Untouched
      <4> QED
        BY <4>3
    <3> QED
      BY <3>1, <3>2
  <2> QED
    BY <2>1 DEF Untouched, Waiting
<1>4. AtWork' /\ Quiet'
  <2> SUFFICES ASSUME NEW d \in Conns PROVE AtWorkOf(d)' /\ QuietOf(d)'
    BY DEF AtWork, Quiet
  <2>1. AtWorkOf(d) /\ QuietOf(d) /\ (Effected(d)' <=> Effected(d))
    BY DEF AtWork, Quiet, Effected, Decided
  <2>2. CASE srv'[d] = srv[d] /\ alarm'[d] = alarm[d]
    BY <2>1, <2>2 DEF AtWorkOf, QuietOf
  <2>3. CASE cl[c] = "idle" /\ srv'[c] = "header" /\ d = c
    BY <2>1, <2>3 DEF AtWorkOf, QuietOf, Untouched, Waiting
  <2> QED
    BY <2>2, <2>3
<1>5. Told' /\ FirstIsTrue'
  BY DEF Told, FirstIsTrue, TrueOf
<1>6. ASSUME ~robbed' PROVE Present' /\ Later'
  <2>1. Present /\ Later /\ ~robbed
    BY <1>1, <1>6
  <2>2. \A d \in Conns : c \in 1..(d - 1) => srv[d] = "none" /\ first[d] = "econn"
    BY <1>2 DEF Untouched, Waiting
  <2>3. \A d \in Conns : c \in 1..(d - 1) => ~done[d] /\ stage[d] = "idle"
    BY <2>2 DEF AtWork, AtWorkOf, Waiting
  <2>4. ASSUME NEW d \in Conns PROVE PresentOf(d)'
    <3>1. done'[d] \/ first'[d] = "ok" => Visible'[User] # Absent
      BY <2>1, UserStays DEF Present, PresentOf
    <3>2. ASSUME kind'[d] = "lookup", first'[d] = "err", NEW e \in 1..(d - 1), kind'[e] = "add"
          PROVE  cl'[e] # "ok"
      <4>1. e # c /\ e \in Conns
        BY <1>2, <2>2, <3>2
      <4> QED
        BY <2>1, <3>2, <4>1 DEF Present, PresentOf
    <3> QED
      BY <3>1, <3>2 DEF PresentOf
  <2>5. ASSUME NEW d \in Conns PROVE LaterOf(d)'
    <3> SUFFICES ASSUME NEW e \in 1..(d - 1), kind'[e] = "add", cl'[e] = "ok"
                 PROVE  ~done'[d] /\ stage'[d] \in {"idle", "lookup", "done"}
      BY DEF LaterOf
    <3>1. CASE e = c
      BY <2>3, <3>1
    <3>2. CASE e # c
      BY <1>2, <2>1, <3>2 DEF Later, LaterOf
    <3> QED
      BY <3>1, <3>2
  <2> QED
    BY <2>4, <2>5 DEF Present, Later
<1>7. Orderly' => Once'
  BY <1>1 DEF Once
<1> QED
  BY <1>1, <1>3, <1>4, <1>5, <1>6, <1>7

-----------------------------------------------------------------------------
(* Steps of the daemon: each leaves the other connections alone *)

Served(c) ==
    /\ UNCHANGED <<cl, kind>> /\ SessionTypeOK'
    /\ \A d \in Conns \ {c} :
         /\ srv'[d] = srv[d] /\ alarm'[d] = alarm[d] /\ first'[d] = first[d] /\ done'[d] = done[d]
         /\ stage'[d] = stage[d] /\ pc'[d] = pc[d] /\ res'[d] = res[d] /\ ans'[d] = ans[d]
    /\ srv[c] # "none"
    /\ srv'[c] \in Waiting => first'[c] = "econn"
    /\ first[c] # "econn" => first'[c] = first[c]
    /\ AtWorkOf(c)' /\ TrueOf(c)' /\ QuietOf(c)'
    /\ ~robbed' => PresentOf(c)' /\ LaterOf(c)'
    /\ Orderly' /\ done'[c] => done[c] \/ \A d \in Conns : ~done[d]

(* They keep the invariant when they keep it for their connection.         *)
LEMMA ServedKeeps ==
    ASSUME SessionInv, [SessionNext]_sessionVars, NEW c \in Conns, Served(c)
    PROVE  SessionInv'
<1> USE DEF SessionInv, Served
<1>1. DInv' /\ (~robbed' => ~robbed) /\ (Orderly' => Orderly)
  BY DomainMoves, RequestsKeep, UnrobbedBefore, OrderlyBefore
<1>2. Untouched'
  BY DEF Untouched, Closed
<1>3. AtWork' /\ Quiet' /\ FirstIsTrue'
  <2> SUFFICES ASSUME NEW d \in Conns PROVE AtWorkOf(d)' /\ QuietOf(d)' /\ TrueOf(d)'
    BY DEF AtWork, Quiet, FirstIsTrue
  <2>1. CASE d # c
    <3>1. Effected(d)' <=> Effected(d)
      BY <2>1 DEF Effected, Decided
    <3> QED
      BY <2>1, <3>1 DEF AtWork, AtWorkOf, Quiet, QuietOf, FirstIsTrue, TrueOf
  <2> QED
    BY <2>1
<1>4. Told'
  BY DEF Told
<1>5. ASSUME ~robbed' PROVE Present' /\ Later'
  <2> SUFFICES ASSUME NEW d \in Conns, d # c PROVE PresentOf(d)' /\ LaterOf(d)'
    BY <1>5 DEF Present, Later
  <2>1. PresentOf(d) /\ LaterOf(d) /\ ~robbed
    BY <1>1, <1>5 DEF Present, Later
  <2>2. Visible[User] # Absent => Visible'[User] # Absent
    BY <2>1, UserStays
  <2> QED
    BY <2>1, <2>2 DEF PresentOf, LaterOf
<1>6. Orderly' => Once'
  BY <1>1 DEF Once
<1> QED
  BY <1>1, <1>2, <1>3, <1>4, <1>5, <1>6

(* The steps that leave the domain alone and keep what they have said.     *)
LEMMA QuietSteps ==
    ASSUME SessionInv, [SessionNext]_sessionVars, NEW c \in Conns,
           UNCHANGED <<cl, kind, done, stage, pc, res, ans>>, SessionTypeOK', srv[c] # "none",
           \A d \in Conns \ {c} : srv'[d] = srv[d] /\ alarm'[d] = alarm[d],
           first' = first,
           srv[c] # "work", srv'[c] \notin {"none", "work", "stream"} \/ srv'[c] = srv[c],
           srv'[c] \in Waiting => srv[c] \in Waiting,
           srv'[c] = "lookup" => kind[c] = "lookup",
           QuietOf(c)'
    PROVE  Served(c)
<1> USE DEF SessionInv
<1>1. AtWorkOf(c) /\ TrueOf(c)
  BY DEF AtWork, FirstIsTrue
<1>2. AtWorkOf(c)' /\ TrueOf(c)'
  BY <1>1 DEF AtWorkOf, TrueOf, Waiting
<1>3. ASSUME ~robbed' PROVE PresentOf(c)' /\ LaterOf(c)'
  <2>1. ~robbed
    BY <1>3, DomainMoves, UnrobbedBefore
  <2>2. PresentOf(c) /\ LaterOf(c)
    BY <2>1 DEF Present, Later
  <2>3. Visible[User] # Absent => Visible'[User] # Absent
    BY <2>1, UserStays
  <2> QED
    BY <2>2, <2>3 DEF PresentOf, LaterOf
<1> QED
  BY <1>2, <1>3 DEF Served, Untouched

(* The request is read, or the alarm ends the process before it is.        *)
LEMMA ReadServes ==
    ASSUME SessionInv, [SessionNext]_sessionVars, NEW c \in Conns, ReadRequest(c) \/ HandleAlrm(c)
    PROVE  Served(c)
<1>1. UNCHANGED <<cl, kind, first, done, stage, pc, res, ans>>
  BY DEF ReadRequest, HandleAlrm, client, vars, tableVars, reqVars
<1>2. /\ SessionTypeOK' /\ srv[c] \notin {"none", "work"}
      /\ srv'[c] \in {"body", "read", "gone"}
      /\ srv'[c] \in Waiting => srv[c] \in Waiting
      /\ srv'[c] = "gone" => ~alarm'[c]
      /\ \A d \in Conns \ {c} : srv'[d] = srv[d] /\ alarm'[d] = alarm[d]
  <2> USE DEF SessionInv, SessionTypeOK, Server, Exit, Alarm, Waiting, Answering
  <2>1. CASE ReadRequest(c)
    BY <1>1, <2>1 DEF ReadRequest
  <2>2. CASE HandleAlrm(c)
    BY <1>1, <2>2 DEF HandleAlrm, Quiet, QuietOf
  <2> QED
    BY <2>1, <2>2
<1>3. QuietOf(c)'
  BY <1>2 DEF QuietOf
<1> QED
  BY <1>1, <1>2, <1>3, QuietSteps

(* The command begins once no alarm can end it.                            *)
LEMMA DisarmServes ==
    ASSUME SessionInv, [SessionNext]_sessionVars, NEW c \in Conns, Disarm(c)
    PROVE  Served(c)
<1> USE DEF SessionInv
<1>1. /\ UNCHANGED <<cl, kind, first, done>> /\ srv[c] = "read" /\ ~alarm'[c]
      /\ \A d \in Conns \ {c} : alarm'[d] = alarm[d]
      /\ alarm' \in [Conns -> BOOLEAN] /\ Command(c)
  BY DEF Disarm, client, Alarm, SessionTypeOK
<1>2. QuietOf(c)'
  BY <1>1 DEF QuietOf
<1>3. CASE kind[c] # "add"
  <2>1. Server(c, "lookup") /\ UNCHANGED vars /\ kind[c] = "lookup"
    BY <1>1, <1>3 DEF Command, SessionTypeOK
  <2>2. /\ SessionTypeOK' /\ srv'[c] = "lookup" /\ UNCHANGED <<stage, pc, res, ans>>
        /\ \A d \in Conns \ {c} : srv'[d] = srv[d]
    BY <1>1, <2>1 DEF Server, SessionTypeOK, Waiting, vars, tableVars, reqVars
  <2> QED
    BY <1>1, <1>2, <2>1, <2>2, QuietSteps DEF Waiting
<1>4. CASE kind[c] = "add"
  <2>1. Server(c, "work") /\ Request(c, AddUser) /\ c \in Procs
    BY <1>1, <1>4, SessionAssumption DEF Command
  <2>2. /\ SessionTypeOK' /\ srv'[c] = "work"
        /\ \A d \in Conns \ {c} : srv'[d] = srv[d]
    BY <1>1, <2>1 DEF Server, SessionTypeOK, Waiting
  <2>3. /\ UNCHANGED <<pc, res, ans>> /\ stage'[c] = "lookup"
        /\ \A d \in Conns \ {c} : stage'[d] = stage[d]
    BY <2>1 DEF Request, Goto, reqVars, tableVars, DInv, TypeOK
  <2>4. first[c] = "econn" /\ ~done[c]
    BY <1>1 DEF Untouched, Waiting, AtWork, AtWorkOf
  <2>5. ~Effected(c)'
    BY <2>3 DEF Effected
  <2>6. AtWorkOf(c)' /\ TrueOf(c)'
    BY <1>1, <1>4, <2>2, <2>3, <2>4, <2>5 DEF AtWorkOf, TrueOf
  <2>7. ASSUME ~robbed' PROVE PresentOf(c)' /\ LaterOf(c)'
    BY <1>1, <1>4, <2>3, <2>4 DEF PresentOf, LaterOf
  <2> QED
    BY <1>1, <1>2, <2>2, <2>3, <2>4, <2>6, <2>7 DEF Served
<1> QED
  BY <1>3, <1>4

(* The answer is that of the domain.                                       *)
LEMMA FinishServes ==
    ASSUME SessionInv, [SessionNext]_sessionVars, NEW c \in Conns, Finish(c)
    PROVE  Served(c)
<1> USE DEF SessionInv
<1>1. /\ UNCHANGED <<cl, kind, done>> /\ srv[c] = "work" /\ stage[c] = "done"
      /\ Reply(c) /\ Respond(c, IF ans[c] THEN "ok" ELSE "err") /\ c \in Procs
  BY SessionAssumption DEF Finish
<1>2. first[c] = "econn"
  BY <1>1 DEF Untouched, Waiting
<1>3. /\ SessionTypeOK' /\ srv'[c] = "reply"
      /\ first'[c] = IF ans[c] THEN "ok" ELSE "err"
      /\ \A d \in Conns \ {c} : srv'[d] = srv[d] /\ alarm'[d] = alarm[d] /\ first'[d] = first[d]
  BY <1>1, <1>2 DEF Respond, Server, Alarm, SessionTypeOK, Answering
<1>4. /\ stage'[c] = "idle"
      /\ \A d \in Conns \ {c} : stage'[d] = stage[d] /\ ans'[d] = ans[d]
      /\ UNCHANGED <<pc, res>>
  BY <1>1, Goes, SessionAssumption DEF Reply, DInv, TypeOK, ReqTypes, tableVars
<1>5. kind[c] = "add" /\ (done[c] <=> ans[c])
  BY <1>1 DEF AtWork, AtWorkOf, Effected
<1>6. AtWorkOf(c)' /\ TrueOf(c)' /\ QuietOf(c)'
  BY <1>1, <1>3, <1>4, <1>5 DEF AtWorkOf, TrueOf, QuietOf, Waiting
<1>7. ASSUME ~robbed' PROVE PresentOf(c)' /\ LaterOf(c)'
  <2>1. ~robbed
    BY <1>7, DomainMoves, UnrobbedBefore
  <2>2. PresentOf(c) /\ LaterOf(c)
    BY <2>1 DEF Present, Later
  <2>3. Visible[User] # Absent => Visible'[User] # Absent
    BY <2>1, UserStays
  <2> QED
    BY <1>1, <1>3, <1>4, <1>5, <2>2, <2>3 DEF PresentOf, LaterOf
<1> QED
  BY <1>1, <1>2, <1>3, <1>4, <1>6, <1>7 DEF Served, Waiting

(* A lookup finds what is there. *)
LEMMA FindServes ==
    ASSUME SessionInv, [SessionNext]_sessionVars, NEW c \in Conns, Find(c)
    PROVE  Served(c)
<1> USE DEF SessionInv
<1>1. /\ UNCHANGED <<cl, kind, done, stage, pc, res, ans>> /\ UNCHANGED vars
      /\ srv[c] = "lookup" /\ c \in Procs
  BY SessionAssumption DEF Find, vars, tableVars, reqVars
<1>2. first[c] = "econn" /\ kind[c] = "lookup" /\ ~done[c] /\ ~alarm[c] /\ stage[c] = "idle"
  BY <1>1 DEF Untouched, Waiting, AtWork, AtWorkOf, Quiet, QuietOf
<1>3. CASE Exit(c) /\ UNCHANGED <<due, first>>
  <2>1. /\ SessionTypeOK' /\ srv'[c] = "gone" /\ first' = first /\ ~alarm'[c]
        /\ \A d \in Conns \ {c} : srv'[d] = srv[d] /\ alarm'[d] = alarm[d]
    BY <1>1, <1>3 DEF Exit, Server, Alarm, SessionTypeOK, Answering
  <2>2. QuietOf(c)'
    BY <2>1 DEF QuietOf
  <2> QED
    BY <1>1, <2>1, <2>2, QuietSteps DEF Waiting
<1>4. ASSUME NEW recs \in Table!Contents, Table!MayRead(table, recs),
             NEW s \in {"reply", "stream"}, NEW r \in {"ok", "err"},
             recs[User] = Absent <=> r = "err", s = "stream" <=> r = "ok",
             Server(c, s), alarm' = alarm \/ (s = "reply" /\ Alarm(c, TRUE)),
             first' = [first EXCEPT ![c] = r]
      PROVE  Served(c)
  <2>1. /\ SessionTypeOK' /\ srv'[c] = s /\ first'[c] = r
        /\ \A d \in Conns \ {c} : srv'[d] = srv[d] /\ alarm'[d] = alarm[d] /\ first'[d] = first[d]
    BY <1>1, <1>4 DEF Server, Alarm, SessionTypeOK, Answering
  <2>2. AtWorkOf(c)' /\ TrueOf(c)' /\ QuietOf(c)'
    BY <1>1, <1>2, <1>4, <2>1 DEF AtWorkOf, TrueOf, QuietOf, Waiting
  <2>3. ASSUME ~robbed' PROVE PresentOf(c)' /\ LaterOf(c)'
    <3>1. ~robbed /\ Present /\ Later /\ recs = Visible
      BY <1>4, <2>3, DomainMoves, UnrobbedBefore, ReadsWhole
    <3>2. Visible[User] # Absent => Visible'[User] # Absent
      BY <3>1, UserStays
    <3>3. ASSUME r = "err", NEW d \in 1..(c - 1)
          PROVE  cl[d] # "ok"
      <4>1. d \in Conns
        BY SessionAssumption DEF Conns
      <4>2. cl[d] = "ok" => Visible[User] # Absent
        BY <3>1, <4>1 DEF Told, Present, PresentOf
      <4> QED
        BY <1>4, <3>1, <3>3, <4>2
    <3> QED
      BY <1>1, <1>2, <1>4, <2>1, <3>1, <3>2, <3>3 DEF PresentOf, Later, LaterOf
  <2> QED
    BY <1>1, <1>2, <2>1, <2>2, <2>3, <1>4 DEF Served, Waiting
<1> QED
  BY <1>2, <1>3, <1>4 DEF Find, Respond

(* What is to be written has been decided.                                 *)
LEMMA WriteServes ==
    ASSUME SessionInv, [SessionNext]_sessionVars, NEW c \in Conns, Write(c)
    PROVE  Served(c)
<1> USE DEF SessionInv
<1>1. UNCHANGED <<cl, kind, done, stage, pc, res, ans>> /\ srv[c] \in {"stream", "reply"}
  BY DEF Write, vars, tableVars, reqVars
<1>2. srv[c] = "stream" => first[c] = "ok"
  BY DEF AtWork, AtWorkOf
<1>3. \/ Exit(c) /\ first' = first
      \/ srv[c] = "stream" /\ Respond(c, "ok")
      \/ UNCHANGED <<srv, alarm, first>>
  BY DEF Write
<1>4. /\ SessionTypeOK' /\ first' = first
      /\ srv'[c] \in {"gone", "reply"} \/ (srv'[c] = srv[c] /\ alarm'[c] = alarm[c])
      /\ srv'[c] = "gone" => ~alarm'[c] \/ (srv'[c] = srv[c] /\ alarm'[c] = alarm[c])
      /\ \A d \in Conns \ {c} : srv'[d] = srv[d] /\ alarm'[d] = alarm[d]
  BY <1>1, <1>2, <1>3 DEF Exit, Respond, Server, Alarm, SessionTypeOK, Answering
<1>5. QuietOf(c)'
  BY <1>1, <1>4 DEF QuietOf, Quiet
<1> QED
  BY <1>1, <1>4, <1>5, QuietSteps DEF Waiting

-----------------------------------------------------------------------------
(* The step of a process at work *)

(* A process whose user is there already is refused at its lookup.         *)
LEMMA RefusedLater ==
    ASSUME DInv, ~robbed, NEW c \in Conns, stage[c] = "lookup", Step(c), Visible[User] # Absent
    PROVE  stage'[c] = "done" /\ ~ans'[c]
<1>1. c \in Procs /\ req[c].kind = "adduser" /\ req[c].user = User /\ ReqTypes
  BY AddsUser DEF DInv, TypeOK, ReqTypes
<1>2. Lookup(c)
  BY DEF Step, MkDirP, MakeMaildir, Put, TableStep, Called, Empty, Sweep, RmDir, Reply
<1>3. \A recs \in Table!Contents :
         Table!MayRead(table, recs) => Refused(req[c], recs[req[c].user])
  BY <1>1, ReadsWhole DEF Refused
<1>4. Answer(c, FALSE)
  BY <1>2, <1>3, ReadsWhole DEF Lookup
<1> QED
  BY <1>1, <1>4 DEF Answer, Goto, ReqTypes

(* The request has its effect when its table is renamed, which no alarm    *)
(* and no other process can take from it.                                  *)
LEMMA WorkServes ==
    ASSUME SessionInv, [SessionNext]_sessionVars, NEW c \in Conns, Work(c)
    PROVE  Served(c)
<1> USE DEF SessionInv
<1>1. /\ UNCHANGED <<cl, kind, first>> /\ srv[c] = "work" /\ Step(c)
      /\ stage[c] \notin {"idle", "done"} /\ c \in Procs
      /\ done' = [done EXCEPT ![c] = @ \/ (pc[c] = "renaming" /\ res'[c])]
      /\ IF stage'[c] = "idle" THEN Exit(c) ELSE UNCHANGED <<srv, alarm>>
  BY SessionAssumption DEF Work, client, AtWork, AtWorkOf
<1>2. /\ kind[c] = "add" /\ (done[c] <=> Effected(c)) /\ first[c] = "econn" /\ ~alarm[c]
  BY <1>1 DEF AtWork, AtWorkOf, Untouched, Waiting, Quiet, QuietOf
<1>3. RequestDone(c) /\ DInv'
  BY <1>1, StepsKeep, DomainMoves, RequestsKeep
<1>4. \A d \in Conns \ {c} :
         stage'[d] = stage[d] /\ pc'[d] = pc[d] /\ res'[d] = res[d] /\ ans'[d] = ans[d]
  BY <1>3, SessionAssumption DEF RequestDone, OneMoves
<1>5. /\ SessionTypeOK' /\ QuietOf(c)'
      /\ \A d \in Conns \ {c} :
            srv'[d] = srv[d] /\ alarm'[d] = alarm[d] /\ done'[d] = done[d]
      /\ srv'[c] = IF stage'[c] = "idle" THEN "gone" ELSE "work"
  <2>1. res'[c] \in BOOLEAN /\ done[c] \in BOOLEAN
    BY <1>1, <1>3 DEF DInv, TP!IInv, TP!TypeOK, SessionTypeOK
  <2>2. (done[c] \/ (pc[c] = "renaming" /\ res'[c])) \in BOOLEAN
    BY <2>1
  <2> QED
    BY <1>1, <1>2, <2>2 DEF Exit, Server, Alarm, SessionTypeOK, Answering, QuietOf
<1>6. done'[c] <=> done[c] \/ (pc[c] = "renaming" /\ res'[c])
  BY <1>1 DEF SessionTypeOK
<1>7. AtWorkOf(c)' /\ TrueOf(c)'
  <2>1. CASE stage'[c] = "idle"
    BY <1>1, <1>2, <1>5, <2>1 DEF AtWorkOf, TrueOf, Waiting
  <2>2. CASE stage'[c] # "idle"
    <3>1. done'[c] <=> Effected(c)'
      BY <1>1, <1>2, <1>6, <2>2, EffectStep
    <3> QED
      BY <1>1, <1>2, <1>5, <2>2, <3>1 DEF AtWorkOf, TrueOf, Waiting
  <2> QED
    BY <2>1, <2>2
<1>8. ASSUME ~robbed, pc[c] = "renaming", res'[c]
      PROVE  Visible'[User] # Absent /\ snap[c][User] = Absent /\ TableStep(c)
  <2>1. TableStep(c) /\ TP!Rename(c)
    BY <1>1, <1>8, AtRename
  <2> QED
    BY <1>8, <2>1, RenameAdds DEF TableStep
<1>9. ASSUME ~robbed' PROVE PresentOf(c)' /\ LaterOf(c)'
  <2>1. ~robbed /\ Present /\ Later
    BY <1>9, DomainMoves, UnrobbedBefore
  <2>2. done'[c] => Visible'[User] # Absent
    BY <1>6, <1>8, <2>1, UserStays DEF Present, PresentOf
  <2>3. ASSUME NEW d \in 1..(c - 1), kind[d] = "add", cl[d] = "ok"
        PROVE  ~done'[c] /\ stage'[c] \in {"idle", "lookup", "done"}
    <3>1. stage[c] = "lookup" /\ ~done[c] /\ d \in Conns
      BY <1>1, <2>1, <2>3, SessionAssumption DEF Later, LaterOf, Conns
    <3>2. Visible[User] # Absent
      BY <2>1, <2>3, <3>1 DEF Told, Present, PresentOf
    <3>3. stage'[c] = "done"
      BY <1>1, <2>1, <3>1, <3>2, RefusedLater
    <3>4. pc[c] = "idle"
      BY <1>1, <3>1 DEF DInv, Linked, LinkedOf
    <3> QED
      BY <1>6, <3>1, <3>3, <3>4
  <2> QED
    BY <1>1, <1>2, <2>2, <2>3 DEF PresentOf, LaterOf
<1>10. ASSUME Orderly', done'[c], ~done[c] PROVE \A d \in Conns : ~done[d]
  <2>1. Orderly /\ ~robbed /\ Present
    BY <1>10, DomainMoves, OrderlyBefore DEF Orderly
  <2>2. pc[c] = "renaming" /\ res'[c]
    BY <1>6, <1>10
  <2>3. snap[c] = Visible
    BY <1>8, <1>10, <2>1, <2>2 DEF TableStep, Orderly
  <2> QED
    BY <1>8, <2>1, <2>2, <2>3 DEF Present, PresentOf
<1> QED
  BY <1>1, <1>2, <1>4, <1>5, <1>7, <1>9, <1>10 DEF Served

-----------------------------------------------------------------------------
(* The theorems *)

(* Every step keeps the invariant.                                         *)
LEMMA SessionKeeps == SessionInv /\ [SessionNext]_sessionVars => SessionInv'
<1> SUFFICES ASSUME SessionInv, [SessionNext]_sessionVars PROVE SessionInv'
  OBVIOUS
<1>1. CASE SessionNext
  <2>1. PICK c \in Conns :
           Connect(c) \/ Send(c) \/ ReadResponse(c) \/ Quit(c) \/ Daemon(c) \/ HandleAlrm(c)
    BY <1>1 DEF SessionNext
  <2>2. CASE Connect(c) \/ Send(c) \/ ReadResponse(c) \/ Quit(c)
    BY <2>2, ClientSteps, ClientKeeps DEF SessionInv
  <2>3. CASE Daemon(c) \/ HandleAlrm(c)
    <3>1. Served(c)
      BY <2>3, ReadServes, DisarmServes, WorkServes, FinishServes, FindServes, WriteServes
      DEF Daemon
    <3> QED
      BY <3>1, ServedKeeps
  <2> QED
    BY <2>1, <2>2, <2>3
<1>2. CASE UNCHANGED sessionVars
  <2>1. UNCHANGED <<cl, kind, srv, alarm, first, done, stage, pc, res, ans, robbed, stale>>
    BY <1>2 DEF sessionVars, vars, tableVars, reqVars
  <2>2. DInv'
    BY DomainMoves, RequestsKeep DEF SessionInv
  <2>3. Visible' = Visible
    BY <1>2 DEF sessionVars, vars, tableVars, Visible, Table!Visible, Table!View,
       Table!EmptyTable
  <2> QED
    BY <2>1, <2>2, <2>3 DEF SessionInv, SessionTypeOK, Untouched, Closed, AtWork, AtWorkOf,
       Effected, Decided, Told, FirstIsTrue, TrueOf, Present, PresentOf, Later, LaterOf, Once,
       Quiet, QuietOf, Orderly
<1> QED
  BY <1>1, <1>2

(* So it holds.                                                            *)
LEMMA SessionInvariance == SessionSpec => []SessionInv
<1> QED
  BY InitSession, SessionKeeps, PTL DEF SessionSpec

(* What the client is told is true, whatever locks are met, writes fail    *)
(* and copies go stale: ok to add if this request has put the user into    *)
(* the table, err if it has not.  The user is there, and a later lookup    *)
(* says so, unless a lock was removed (cli_main, vdomain::set).            *)
THEOREM ToldTheTruth == SessionSpec => []AnswersAreTrue
<1>1. SessionInv => AnswersAreTrue
  BY DEF SessionInv, AnswersAreTrue, Told, FirstIsTrue, TrueOf, Present, PresentOf
<1> QED
  BY <1>1, SessionInvariance, PTL

(* Of the requests to add the user one takes effect, unless a copy of the  *)
(* table was renamed when it was stale or a lock was removed; and a stale  *)
(* copy takes no user from a client that was told ok for it                *)
(* (lookup_and_validate, vpwtable::put).                                   *)
THEOREM EffectOnce == SessionSpec => []OneEffect
<1>1. SessionInv => OneEffect
  BY DEF SessionInv, OneEffect, Once, Later, LaterOf
<1> QED
  BY <1>1, SessionInvariance, PTL

(* A command is ended by a torn table alone, never by the alarm that is    *)
(* set for its request and for its response (read_data).                   *)
THEOREM CommandsEnd == SessionSpec => NotCutShort
<1>1. ASSUME SessionInv, [SessionNext]_sessionVars, NEW c \in Conns,
             srv[c] \in {"work", "lookup"}, srv'[c] = "gone"
      PROVE  Table!Torn(table)
  <2>1. ~alarm[c]
    BY <1>1 DEF SessionInv, Quiet, QuietOf
  <2>2. ASSUME NEW d \in Conns,
               \/ Connect(d) \/ Send(d) \/ ReadResponse(d) \/ Quit(d)
               \/ ReadRequest(d) \/ Disarm(d) \/ Finish(d) \/ Write(d) \/ HandleAlrm(d)
        PROVE  FALSE
    <3> USE DEF SessionInv, SessionTypeOK, Server, Exit, Respond
    <3>1. CASE Connect(d)
      BY <1>1, <3>1 DEF Connect, Untouched
    <3>2. CASE Send(d) \/ ReadResponse(d) \/ Quit(d)
      BY <1>1, <3>2 DEF Send, ReadResponse, Quit
    <3>3. CASE ReadRequest(d) \/ HandleAlrm(d) \/ Write(d)
      BY <1>1, <2>1, <3>3 DEF ReadRequest, HandleAlrm, Write
    <3>4. CASE Disarm(d)
      BY <1>1, <3>4 DEF Disarm, Command
    <3>5. CASE Finish(d)
      BY <1>1, <3>5 DEF Finish
    <3> QED
      BY <2>2, <3>1, <3>2, <3>3, <3>4, <3>5
  <2>3. PICK d \in Conns : Work(d) \/ Find(d)
    BY <1>1, <2>2 DEF SessionNext, Daemon, sessionVars
  <2>4. d = c
    BY <1>1, <2>3 DEF Work, Find, Respond, Exit, Server, SessionInv, SessionTypeOK
  <2>5. CASE Find(c)
    BY <1>1, <2>5 DEF Find, Respond, Server, SessionInv, SessionTypeOK
  <2>6. CASE Work(c)
    <3>1. Step(c) /\ stage[c] \notin {"idle", "done"} /\ stage'[c] = "idle"
      BY <1>1, <2>6 DEF Work, SessionInv, AtWork, AtWorkOf
    <3> QED
      BY <1>1, <3>1, EndsTorn DEF SessionInv
  <2> QED
    BY <2>3, <2>4, <2>5, <2>6
<1>2. SessionInv /\ [SessionNext]_sessionVars
        => (\A c \in Conns :
              srv[c] \in {"work", "lookup"} /\ srv'[c] = "gone" => Table!Torn(table))
  BY <1>1
<1> QED
  BY <1>2, SessionInvariance, PTL DEF SessionSpec, NotCutShort

=============================================================================
