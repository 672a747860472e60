------------------------------ MODULE VDomain -------------------------------
(***************************************************************************)
(* The accounts of a virtual domain: an entry in the password table        *)
(* (VPwTable) and a directory, kept together by lib/vdomain.               *)
(*                                                                         *)
(* A process works on one request at a time: adduser, chattr and deluser   *)
(* from vmailmgrd or a command line tool, chforwards from vchforwards.     *)
(* Nothing but vpwtable::put and del takes a lock: every check of a        *)
(* request is made before them and every directory is changed outside      *)
(* them.  The directory of a user is named after the user (userdir).       *)
(* vdeliver, which reads the table once and delivers much later, is in the *)
(* model as far as it can get in the way (VDeliver has the rest).          *)
(***************************************************************************)

CONSTANTS
    Procs,    \* the processes that work for the domain
    Users,    \* user names, lower case as vdomain makes them
    Attrs,    \* the attributes of an entry; "forwards" is one
    Words,    \* values of an attribute
    Requests, \* the kinds of request considered
    Serves,   \* the users each process gets requests for
    Absent, Inodes, None, Faults   \* as in VPwTable

Kinds == {"adduser", "chattr", "chforwards", "deluser"}

(* A vpwentry: has_mailbox and the rest; its directory is its user's. *)
Entries == [mailbox: BOOLEAN, attr: [Attrs -> Words]]

Reqs ==
    [kind: {"adduser"}, user: Users, entry: Entries]
    \cup [kind: {"chattr"}, user: Users, attr: Attrs, word: Words]
    \cup [kind: {"chforwards"}, user: Users, attr: {"forwards"}, word: Words]
    \cup [kind: {"deluser"}, user: Users, mailboxToo: BOOLEAN]

ASSUME DomainAssumption ==
    /\ Absent \notin Entries
    /\ None \notin Reqs \cup Inodes \cup BOOLEAN
    /\ None \notin [kind: {"add", "set", "del"}, name: Users, val: Entries]
    /\ Faults \subseteq {"io", "kill"}
    /\ Requests \subseteq Kinds
    /\ Serves \in [Procs -> SUBSET Users]

VARIABLES
    table, tmp, file, pc, op, snap, fd, res, robbed,   \* as in VPwTable
    stale,   \* history: a copy that was no longer current was renamed into place
    dir,     \* the directory of each user: absent, bare or a maildir
    mail,    \* whether there is mail in it
    bound,   \* the users a running vdeliver has looked up to deliver to
    req,     \* the request of each process
    stage,   \* how far the process is with it
    vpw,     \* its vpwentry, once looked up
    ans      \* the answer it is about to give

tableVars == <<table, tmp, file, pc, op, snap, fd, res, robbed, stale>>
dirVars == <<dir, mail>>
homeVars == <<dirVars, bound>>
reqVars == <<req, stage, vpw, ans>>
vars == <<tableVars, homeVars, reqVars>>

Table == INSTANCE VPwTable WITH Names <- Users, Vals <- Entries

Visible == Table!Visible

Stages == {"idle", "lookup", "mkdirp", "maildir", "putting", "calling",
           "emptying", "sweeping", "rmdir", "done"}

TypeOK ==
    /\ Table!TypeOK
    /\ stale \in BOOLEAN
    /\ dir \in [Users -> {"absent", "bare", "maildir"}]
    /\ mail \in [Users -> BOOLEAN]
    /\ bound \subseteq Users
    /\ req \in [Procs -> Reqs \cup {None}]
    /\ stage \in [Procs -> Stages]
    /\ vpw \in [Procs -> Entries \cup {Absent}]
    /\ ans \in [Procs -> BOOLEAN]

-----------------------------------------------------------------------------
Init ==
    /\ Table!Init
    /\ stale = FALSE
    /\ dir = [u \in Users |-> "absent"]
    /\ mail = [u \in Users |-> FALSE]
    /\ bound = {}
    /\ req = [p \in Procs |-> None]
    /\ stage = [p \in Procs |-> "idle"]
    /\ vpw = [p \in Procs |-> Absent]
    /\ ans = [p \in Procs |-> FALSE]

Goto(p, s) == stage' = [stage EXCEPT ![p] = s]

Answer(p, ok) ==
    /\ Goto(p, "done")
    /\ ans' = [ans EXCEPT ![p] = ok]
    /\ UNCHANGED <<req, vpw>>

Continue(p, s) == Goto(p, s) /\ UNCHANGED <<req, vpw, ans>>

(* The process has answered or is gone. *)
Gone(p) ==
    /\ Goto(p, "idle")
    /\ req' = [req EXCEPT ![p] = None]
    /\ vpw' = [vpw EXCEPT ![p] = Absent]
    /\ ans' = [ans EXCEPT ![p] = FALSE]

SetDir(u, d) ==
    /\ dir' = [dir EXCEPT ![u] = d]
    /\ mail' = [mail EXCEPT ![u] = mail[u] /\ d = "maildir"]

(* A request that passed the checks of its words (validate_username and    *)
(* the like refuse the others before anything is done).                    *)
Request(p, r) ==
    /\ stage[p] = "idle"
    /\ r.kind \in Requests /\ r.user \in Serves[p]
    /\ Goto(p, "lookup")
    /\ req' = [req EXCEPT ![p] = r]
    /\ UNCHANGED <<vpw, ans, tableVars, homeVars>>

(* What a request makes of the entry that was found. *)
Edited(r, found) ==
    CASE r.kind = "adduser" -> r.entry
      [] r.kind \in {"chattr", "chforwards"} ->
            [found EXCEPT !.attr[r.attr] = r.word]
      [] r.kind = "deluser" -> found

(* adduser wants no such user, the others want one; deluser may be told    *)
(* to spare mailboxes.                                                     *)
Refused(r, found) ==
    IF found = Absent THEN r.kind # "adduser"
    ELSE r.kind = "adduser" \/ (r.kind = "deluser" /\ ~r.mailboxToo /\ found.mailbox)

(* getbyname or exists; the process may die on a torn table. *)
Lookup(p) ==
    LET r == req[p] IN
    /\ stage[p] = "lookup"
    /\ \/ Table!Torn(table) /\ Gone(p)
       \/ \E recs \in Table!Contents :
             /\ Table!MayRead(table, recs)
             /\ LET found == recs[r.user] IN
                IF Refused(r, found) THEN Answer(p, FALSE)
                ELSE /\ vpw' = [vpw EXCEPT ![p] = Edited(r, found)]
                     /\ Goto(p, IF r.kind \in {"adduser", "chforwards"}
                                THEN "mkdirp" ELSE "putting")
                     /\ UNCHANGED <<req, ans>>
    /\ UNCHANGED <<tableVars, homeVars>>

-----------------------------------------------------------------------------
(* vdomain::set *)

(* A wrong set: has_mailbox is not looked at. *)
MkDirPAlone(p) ==
    LET u == req[p].user IN
    /\ stage[p] = "mkdirp"
    /\ IF dir[u] = "absent" THEN SetDir(u, "bare") ELSE UNCHANGED dirVars
    /\ Continue(p, "putting")
    /\ UNCHANGED <<tableVars, bound>>

(* mkdirp(vpw->directory, 0700) *)
MkDirP(p) ==
    LET u == req[p].user IN
    /\ stage[p] = "mkdirp"
    /\ \/ /\ dir[u] = "absent" /\ SetDir(u, "bare")
          /\ Continue(p, IF vpw[p].mailbox THEN "maildir" ELSE "putting")
       \/ /\ dir[u] # "absent" /\ UNCHANGED dirVars
          /\ Continue(p, IF vpw[p].mailbox THEN "maildir" ELSE "putting")
       \/ /\ "io" \in Faults /\ dir[u] = "absent" /\ UNCHANGED dirVars
          /\ Answer(p, FALSE)
    /\ UNCHANGED <<tableVars, bound>>

(* make_maildir(vpw->directory): on failure what was made is taken down as *)
(* far as that is empty.                                                   *)
MakeMaildir(p) ==
    LET u == req[p].user IN
    /\ stage[p] = "maildir"
    /\ \/ SetDir(u, "maildir") /\ Continue(p, "putting")
       \/ /\ "io" \in Faults /\ dir[u] # "maildir"
          /\ \E left \in {"absent", "bare"} : SetDir(u, left)
          /\ Answer(p, FALSE)
    /\ UNCHANGED <<tableVars, bound>>

-----------------------------------------------------------------------------
(* The call to vpwtable::put or del *)

OpOf(r, entry) ==
    [kind |-> CASE r.kind = "adduser" -> "add"
                [] r.kind \in {"chattr", "chforwards"} -> "set"
                [] r.kind = "deluser" -> "del",
     name |-> r.user,
     val  |-> entry]

Put(p) ==
    /\ stage[p] = "putting"
    /\ Table!Call(p, OpOf(req[p], vpw[p]))
    /\ Continue(p, "calling")
    /\ UNCHANGED <<stale, homeVars>>

(* The steps of the table; the process may not survive a bad one. *)
TableStep(p) ==
    /\ stage[p] = "calling"
    /\ \/ Table!OpenTable(p) \/ Table!CreateTmp(p) \/ Table!Copy(p)
       \/ Table!FlushBody(p) \/ Table!FlushHeader(p) \/ Table!Rename(p)
       \/ Table!Unlink(p) \/ Table!WriteError(p) \/ Table!OpenError(p)
    /\ stale' = (stale \/ (pc[p] = "renaming" /\ res'[p] /\ snap[p] # Visible))
    /\ IF pc'[p] = "idle" THEN Gone(p) ELSE UNCHANGED reqVars
    /\ UNCHANGED homeVars

(* Wrong ends of a call: chattr goes through set and deletes the directory *)
(* like it; chattr does not look at the result; deluser stops at the table.*)
CalledDeleting(p) ==
    /\ stage[p] = "calling"
    /\ Table!Return(p)
    /\ IF res[p] = (req[p].kind = "deluser")
       THEN Continue(p, "emptying") ELSE Answer(p, res[p])
    /\ UNCHANGED <<stale, homeVars>>

CalledTrusting(p) ==
    /\ stage[p] = "calling"
    /\ Table!Return(p)
    /\ CASE req[p].kind = "chattr" -> Answer(p, TRUE)
         [] req[p].kind \in {"adduser", "chforwards"} ->
               IF res[p] THEN Answer(p, TRUE) ELSE Continue(p, "emptying")
         [] req[p].kind = "deluser" ->
               IF res[p] THEN Continue(p, "emptying") ELSE Answer(p, FALSE)
    /\ UNCHANGED <<stale, homeVars>>

CalledSparing(p) ==
    /\ stage[p] = "calling"
    /\ Table!Return(p)
    /\ IF res[p] \/ req[p].kind \in {"chattr", "deluser"}
       THEN Answer(p, res[p]) ELSE Continue(p, "emptying")
    /\ UNCHANGED <<stale, homeVars>>

(* set deletes the directory when put fails, deluser when del does not. *)
Called(p) ==
    /\ stage[p] = "calling"
    /\ Table!Return(p)
    /\ CASE req[p].kind = "chattr" -> Answer(p, res[p])
         [] req[p].kind \in {"adduser", "chforwards"} ->
               IF res[p] THEN Answer(p, TRUE) ELSE Continue(p, "emptying")
         [] req[p].kind = "deluser" ->
               IF res[p] THEN Continue(p, "emptying") ELSE Answer(p, FALSE)
    /\ UNCHANGED <<stale, homeVars>>

-----------------------------------------------------------------------------
(* delete_directory: the messages of a maildir, its cur, new and tmp, then *)
(* the directory itself.  What is not empty after all is gone over again,  *)
(* three rounds in all: any round that fails may be the last, and one that *)
(* fails with an error is, as an error that passes is none.  The result    *)
(* matters to deluser alone.                                               *)

Empty(p) ==
    LET u == req[p].user IN
    /\ stage[p] = "emptying"
    /\ \/ dir[u] = "absent" /\ Answer(p, FALSE) /\ UNCHANGED dirVars
       \/ dir[u] = "bare" /\ Continue(p, "rmdir") /\ UNCHANGED dirVars
       \/ /\ dir[u] = "maildir"
          /\ mail' = [mail EXCEPT ![u] = FALSE] /\ UNCHANGED dir
          /\ Continue(p, "sweeping")
       \/ "io" \in Faults /\ Answer(p, FALSE) /\ UNCHANGED dirVars
    /\ UNCHANGED <<tableVars, bound>>

(* rmdir of cur, new and tmp: a delivery may have linked its message, or   *)
(* begun a file in tmp, since they were emptied.                           *)
Sweep(p) ==
    LET u == req[p].user IN
    /\ stage[p] = "sweeping"
    /\ \/ /\ dir[u] = "maildir" /\ ~mail[u] /\ SetDir(u, "bare")
          /\ Continue(p, "rmdir") \/ ("io" \in Faults /\ Answer(p, FALSE))
       \/ /\ dir[u] # "maildir" \/ mail[u] \/ u \in bound
          /\ Continue(p, "emptying") \/ Answer(p, FALSE)
          /\ UNCHANGED dirVars
       \/ "io" \in Faults /\ Answer(p, FALSE) /\ UNCHANGED dirVars
    /\ UNCHANGED <<tableVars, bound>>

RmDir(p) ==
    LET u == req[p].user IN
    /\ stage[p] = "rmdir"
    /\ \/ /\ dir[u] = "bare" /\ SetDir(u, "absent")
          /\ Answer(p, req[p].kind = "deluser")
       \/ /\ dir[u] # "bare" /\ UNCHANGED dirVars
          /\ Continue(p, "emptying") \/ Answer(p, FALSE)
       \/ "io" \in Faults /\ Answer(p, FALSE) /\ UNCHANGED dirVars
    /\ UNCHANGED <<tableVars, bound>>

-----------------------------------------------------------------------------
(* vdeliver *)

(* It looks a user up and finds that it has a mailbox. *)
LookUpToDeliver(u) ==
    /\ u \notin bound
    /\ \E recs \in Table!Contents :
          Table!MayRead(table, recs) /\ recs[u] # Absent /\ recs[u].mailbox
    /\ bound' = bound \cup {u}
    /\ UNCHANGED <<tableVars, dirVars, reqVars>>

(* After predeliver, the write to tmp and the forwarding it links the      *)
(* message, wherever the account has got to; others may be at it as well.  *)
Deliver(u) ==
    /\ u \in bound
    /\ dir[u] = "maildir" /\ ~mail[u]
    /\ mail' = [mail EXCEPT ![u] = TRUE]
    /\ UNCHANGED <<dir, bound, tableVars, reqVars>>

(* The last of them has ended, well or not. *)
EndDeliveries(u) ==
    /\ u \in bound
    /\ bound' = bound \ {u}
    /\ UNCHANGED <<tableVars, dirVars, reqVars>>

Delivery(u) == LookUpToDeliver(u) \/ Deliver(u) \/ EndDeliveries(u)

Reply(p) ==
    /\ stage[p] = "done"
    /\ Gone(p)
    /\ UNCHANGED <<tableVars, homeVars>>

Die(p) ==
    /\ "kill" \in Faults
    /\ stage[p] # "idle"
    /\ Gone(p)
    /\ IF stage[p] = "calling" THEN Table!Die(p) /\ UNCHANGED stale ELSE UNCHANGED tableVars
    /\ UNCHANGED homeVars

Step(p) ==
    \/ Lookup(p)
    \/ MkDirP(p)
    \/ MakeMaildir(p)
    \/ Put(p)
    \/ TableStep(p)
    \/ Called(p)
    \/ Empty(p)
    \/ Sweep(p)
    \/ RmDir(p)
    \/ Reply(p)

Next ==
    \/ \E p \in Procs : (\E r \in Reqs : Request(p, r)) \/ Step(p) \/ Die(p)
    \/ \E u \in Users : Delivery(u)

Spec == Init /\ [][Next]_vars

-----------------------------------------------------------------------------
(* Properties *)

(* No lock was removed and no update lost to a stale copy: what goes wrong *)
(* in VPwTable when processes meet has not happened.                       *)
Orderly == ~robbed /\ ~stale

MailboxOfEveryEntry ==
    \A u \in Users :
        Visible[u] # Absent =>
            /\ dir[u] # "absent"
            /\ Visible[u].mailbox => dir[u] = "maildir"

DeletedMeansGone ==
    \A p \in Procs :
        stage[p] = "done" /\ ans[p] /\ req[p].kind = "deluser"
        => Visible[req[p].user] = Absent /\ dir[req[p].user] = "absent"

(* An account is there as a whole or not at all.  Every account in the     *)
(* table has its directory, and its maildir if it has a mailbox: the order *)
(* of vdomain::set and vdomain::deluser keeps it so wherever they are      *)
(* killed.  When deluser says "Deleted user." both parts are gone.         *)
AccountsAreWhole == Orderly => MailboxOfEveryEntry /\ DeletedMeansGone

(* Mail is only lost with its account: what is in the maildir of a user    *)
(* the table still has stays there, whatever requests fail (vdomain::set   *)
(* deletes the directory of a user it could not put).                      *)
MailIsKept ==
    [][\A u \in Users : Orderly /\ mail[u] /\ ~mail'[u] => Visible[u] = Absent]_vars

(* A process that has work to do on the directory of its user: it has made *)
(* it for an account that is to come, or takes it away.                    *)
Minding(p) ==
    /\ stage[p] \notin {"idle", "lookup", "done"}
    /\ stage[p] = "calling" /\ pc[p] \in {"unwinding", "returned"} /\ res[p]
         => req[p].kind = "deluser"

(* A directory without an account which no process minds.  A maildir among *)
(* them may hold mail, or be given more by a late delivery, and a new      *)
(* account of that name would be given all of it.                          *)
LeftBehind(u) ==
    /\ dir[u] # "absent" /\ Visible[u] = Absent
    /\ \A p \in Procs : Minding(p) => req[p].user # u

(* Mail goes with its account: a directory is left behind only when a      *)
(* process that worked on its user dies, or answers that it has failed     *)
(* (vdomain::deluser, vdomain::set).  Whatever deliveries, other requests  *)
(* and errors come in between, "Deleted user." is no lie about the mail.   *)
MailGoesWithAccount ==
    [][\A u \in Users : Orderly' /\ LeftBehind(u)' /\ ~LeftBehind(u)
         => \E p \in Procs :
               /\ stage[p] \notin {"idle", "done"} /\ req[p].user = u
               /\ stage'[p] = "idle" \/ (stage'[p] = "done" /\ ~ans'[p])]_vars

(* A request is decided when the table's file is renamed, and failing that *)
(* when it is refused; deluser may take its word back.                     *)
Said(p) ==
    CASE stage[p] = "done" -> ans[p]
      [] stage[p] = "calling" /\ pc[p] \in {"unwinding", "returned"} -> res[p]
      [] stage[p] \in {"emptying", "sweeping", "rmdir"} -> req[p].kind = "deluser"
      [] OTHER -> None

Promise == INSTANCE Accounts WITH
    account <- Visible,
    want    <- req,
    said    <- [p \in Procs |-> Said(p)]

(* Requests act on the entry of one account in one step and are answered   *)
(* truly (vdomain.h), but that deluser may fail at the directory when it   *)
(* has deleted the account: so they are for one process at a time.         *)
AtomicAccounts == Promise!Spec

(* The calls of put and del from vdomain are those of an atomic map, as    *)
(* VPwTable has it, for one process at a time (vpwtable.h).                *)
AtomicTable == Table!AtomicMap

=============================================================================
