------------------------------ MODULE VDeliver ------------------------------
(***************************************************************************)
(* The delivery of messages to one account (commands/vdeliver.cc).         *)
(*                                                                         *)
(* qmail-local runs one vdeliver per message: it looks the account up,     *)
(* writes the message to a file of its own in the maildir's tmp, gives a   *)
(* copy to qmail-queue for the forwarding addresses, links the file into   *)
(* new and removes it from tmp.  The exit code tells the queue whether the *)
(* message is done with (0, 99), is to be tried again (111) or bounces     *)
(* (100); a process that dies counts as 111.                               *)
(***************************************************************************)
EXTENDS Naturals, FiniteSets

CONSTANTS
    Msgs,     \* messages in the queue for the account
    Files,    \* file names, made of the time, the process and the host
    MaxTries, \* bound: how often a message is tried
    None,     \* no file, no account
    Default,  \* the entry of the default user, if the domain has one
    Faults    \* "io", "kill", "power", "scripts" and "account", see below

ASSUME DeliverAssumption ==
    /\ MaxTries \in Nat
    /\ None \notin Files
    /\ None \notin [mailbox: BOOLEAN, forwards: BOOLEAN, expired: BOOLEAN]
    /\ \/ Default = None
       \/ /\ Default \in [mailbox: BOOLEAN, forwards: BOOLEAN, expired: BOOLEAN]
          /\ ~Default.mailbox
    /\ None \notin [msg: Msgs, state: {"empty", "written", "synced"}]
    /\ Faults \subseteq {"io", "kill", "power", "scripts", "account"}

VARIABLES
    acct,     \* the entry of the account in the password table
    maildir,  \* whether its maildir is there
    tmp, new, \* the files in it
    status,   \* what the queue knows of each message
    tries,    \* how often each message has been tried
    stage,    \* where the vdeliver of each message is
    ent,      \* the entry it has looked up, kept if it says it delivered
    name,     \* the name of its file, partname
    arrived,  \* how often each message has been linked into new
    copies    \* how often it has been given to qmail-queue

account == <<acct, maildir>>
counts == <<arrived, copies>>
vars == <<acct, maildir, tmp, new, status, tries, stage, ent, name, arrived, copies>>

(* An entry: whether vdeliver delivers to its mailbox, whether it forwards *)
(* and whether it has expired.                                             *)
Entries == [mailbox: BOOLEAN, forwards: BOOLEAN, expired: BOOLEAN]

(* "empty": cut short; "written": not on the disk yet. *)
Contents == [msg: Msgs, state: {"empty", "written", "synced"}]

Stages == {"idle", "lookup", "predeliver", "checking", "naming", "sleeping",
           "writing", "syncing", "forwarding", "linking", "unlinking",
           "postdeliver"}

(* At most one file and one copy to a try. *)
TypeOK ==
    /\ acct \in Entries \cup {None}
    /\ maildir \in BOOLEAN
    /\ tmp \in [Files -> Contents \cup {None}]
    /\ new \in [Files -> Contents \cup {None}]
    /\ status \in [Msgs -> {"queued", "done", "skipped", "bounced"}]
    /\ tries \in [Msgs -> 0 .. MaxTries]
    /\ stage \in [Msgs -> Stages]
    /\ ent \in [Msgs -> Entries \cup {None}]
    /\ name \in [Msgs -> Files \cup {None}]
    /\ arrived \in [Msgs -> 0 .. MaxTries]
    /\ copies \in [Msgs -> 0 .. MaxTries]

-----------------------------------------------------------------------------
Init ==
    /\ acct \in Entries
    /\ maildir = TRUE
    /\ tmp = [f \in Files |-> None]
    /\ new = [f \in Files |-> None]
    /\ status = [m \in Msgs |-> "queued"]
    /\ tries = [m \in Msgs |-> 0]
    /\ stage = [m \in Msgs |-> "idle"]
    /\ ent = [m \in Msgs |-> None]
    /\ name = [m \in Msgs |-> None]
    /\ arrived = [m \in Msgs |-> 0]
    /\ copies = [m \in Msgs |-> 0]

Goto(m, s) == stage' = [stage EXCEPT ![m] = s]

Continue(m, s) == Goto(m, s) /\ UNCHANGED <<status, tries, ent, name>>

(* What the queue makes of an exit code (qmail-command). *)
Verdict(code) ==
    CASE code = 0 -> "done"
      [] code = 99 -> "skipped"
      [] code = 100 -> "bounced"
      [] code = 111 -> "queued"

Exit(m, code) ==
    /\ Goto(m, "idle")
    /\ status' = [status EXCEPT ![m] = Verdict(code)]
    /\ name' = [name EXCEPT ![m] = None]
    /\ ent' = IF code = 0 THEN ent ELSE [ent EXCEPT ![m] = None]
    /\ UNCHANGED tries

SetTmp(m, state) ==
    tmp' = [tmp EXCEPT ![name[m]] =
              IF @ = None THEN None ELSE [msg |-> m, state |-> state]]

(* deliver_fail: the file is removed, if there is one, and the message is  *)
(* tried again.                                                            *)
DeliverFail(m) ==
    /\ tmp' = [f \in Files |-> IF f = name[m] THEN None ELSE tmp[f]]
    /\ Exit(m, 111)

(* The exit codes of the scripts around a delivery; there may be none. *)
ScriptResults == IF "scripts" \in Faults THEN {0, 99, 100, 111} ELSE {0}

-----------------------------------------------------------------------------
(* qmail-lspawn tries a message that is due. *)
Start(m) ==
    /\ stage[m] = "idle"
    /\ status[m] = "queued" /\ tries[m] < MaxTries
    /\ tries' = [tries EXCEPT ![m] = @ + 1]
    /\ Goto(m, "lookup")
    /\ UNCHANGED <<account, tmp, new, status, ent, name, counts>>

(* domain.lookup(ext), then that of the default user.  An unknown or       *)
(* expired user is a permanent failure, and a table that cannot be opened  *)
(* has no users at all (cdb_getrec).                                       *)
Lookup(m) ==
    LET found == IF acct # None THEN acct ELSE Default IN
    /\ stage[m] = "lookup"
    /\ \/ /\ found # None /\ ~found.expired => "io" \in Faults
          /\ Exit(m, 100)
       \/ /\ found # None /\ ~found.expired
          /\ Goto(m, "predeliver")
          /\ ent' = [ent EXCEPT ![m] = found]
          /\ UNCHANGED <<status, tries, name>>
    /\ UNCHANGED <<account, tmp, new, counts>>

PreDeliver(m) ==
    /\ stage[m] = "predeliver"
    /\ \E r \in ScriptResults :
          IF r # 0 THEN Exit(m, r)
          ELSE Continue(m, IF ent[m].mailbox THEN "checking" ELSE "forwarding")
    /\ UNCHANGED <<account, tmp, new, counts>>

(* deliver_partial looks at the maildir once, before its loop. *)
CheckMaildir(m) ==
    /\ stage[m] = "checking"
    /\ IF maildir THEN Continue(m, "naming") ELSE Exit(m, 111)
    /\ UNCHANGED <<account, tmp, new, counts>>

(* Live processes on one host never make the same name. *)
Choices(m) == Files \ {name[q] : q \in Msgs \ {m}}

(* A wrong loop: the name is made once, before it. *)
CreateFixed(m) ==
    LET f == CHOOSE g \in Choices(m) : TRUE IN
    /\ stage[m] = "naming"
    /\ maildir
    /\ tmp[f] = None
    /\ tmp' = [tmp EXCEPT ![f] = [msg |-> m, state |-> "empty"]]
    /\ name' = [name EXCEPT ![m] = f]
    /\ Goto(m, "writing")
    /\ UNCHANGED <<account, new, status, tries, ent, counts>>

Create(m) ==
    /\ stage[m] = "naming"
    /\ maildir
    /\ \E f \in Choices(m) :
          /\ tmp[f] = None
          /\ tmp' = [tmp EXCEPT ![f] = [msg |-> m, state |-> "empty"]]
          /\ name' = [name EXCEPT ![m] = f]
    /\ Goto(m, "writing")
    /\ UNCHANGED <<account, new, status, tries, ent, counts>>

(* The name is taken, the maildir has gone, or any error but one about the *)
(* quota: try again in two seconds.                                        *)
Collide(m) ==
    /\ stage[m] = "naming"
    /\ ~maildir \/ "io" \in Faults \/ \E f \in Choices(m) : tmp[f] # None
    /\ Continue(m, "sleeping")
    /\ UNCHANGED <<account, tmp, new, counts>>

Wake(m) ==
    /\ stage[m] = "sleeping"
    /\ Continue(m, "naming")
    /\ UNCHANGED <<account, tmp, new, counts>>

(* A wrong dump: sync is left out. *)
WriteAlone(m) ==
    /\ stage[m] = "writing"
    /\ SetTmp(m, "written")
    /\ Continue(m, "forwarding")
    /\ UNCHANGED <<account, new, counts>>

(* dump(out, true): the message is written, then synced. *)
Write(m) ==
    /\ stage[m] = "writing"
    /\ SetTmp(m, "written")
    /\ Continue(m, "syncing")
    /\ UNCHANGED <<account, new, counts>>

Sync(m) ==
    /\ stage[m] = "syncing"
    /\ SetTmp(m, "synced")
    /\ Continue(m, "forwarding")
    /\ UNCHANGED <<account, new, counts>>

(* An error before the file is whole leaves it in tmp. *)
WriteError(m) ==
    /\ "io" \in Faults
    /\ stage[m] \in {"naming", "writing", "syncing"}
    /\ \E code \in IF stage[m] = "naming" THEN {100} ELSE {100, 111} : Exit(m, code)
    /\ UNCHANGED <<account, tmp, new, counts>>

(* A wrong enqueue: it asks the table again. *)
ForwardByTable(m) ==
    /\ stage[m] = "forwarding"
    /\ copies' = IF acct # None /\ acct.forwards
                 THEN [copies EXCEPT ![m] = @ + 1] ELSE copies
    /\ Continue(m, IF ent[m].mailbox THEN "linking" ELSE "postdeliver")
    /\ UNCHANGED <<account, tmp, new, arrived>>

(* enqueue: the copy comes before the link. *)
Forward(m) ==
    /\ stage[m] = "forwarding"
    /\ copies' = IF ent[m].forwards THEN [copies EXCEPT ![m] = @ + 1] ELSE copies
    /\ Continue(m, IF ent[m].mailbox THEN "linking" ELSE "postdeliver")
    /\ UNCHANGED <<account, tmp, new, arrived>>

(* A wrong enqueue: it is tried again at once. *)
ForwardErrorRetried(m) ==
    /\ "io" \in Faults
    /\ stage[m] = "forwarding" /\ ent[m].forwards
    /\ \E queued \in {0, 1} : copies' = [copies EXCEPT ![m] = @ + queued]
    /\ Continue(m, "forwarding")
    /\ UNCHANGED <<account, tmp, new, arrived>>

(* qmail-queue fails, or seems to. *)
ForwardError(m) ==
    /\ "io" \in Faults
    /\ stage[m] = "forwarding" /\ ent[m].forwards
    /\ \E queued \in {0, 1} : copies' = [copies EXCEPT ![m] = @ + queued]
    /\ DeliverFail(m)
    /\ UNCHANGED <<account, new, arrived>>

(* A wrong end: rename is used instead of link. *)
LinkReplacing(m) ==
    /\ stage[m] = "linking"
    /\ IF tmp[name[m]] # None
       THEN /\ new' = [new EXCEPT ![name[m]] = tmp[name[m]]]
            /\ arrived' = [arrived EXCEPT ![m] = @ + 1]
            /\ Continue(m, "unlinking")
            /\ UNCHANGED tmp
       ELSE DeliverFail(m) /\ UNCHANGED <<new, arrived>>
    /\ UNCHANGED <<account, copies>>

(* deliver_final: link fails if the file has gone or the name is taken. *)
Link(m) ==
    /\ stage[m] = "linking"
    /\ IF tmp[name[m]] # None /\ new[name[m]] = None
       THEN /\ new' = [new EXCEPT ![name[m]] = tmp[name[m]]]
            /\ arrived' = [arrived EXCEPT ![m] = @ + 1]
            /\ Continue(m, "unlinking")
            /\ UNCHANGED tmp
       ELSE DeliverFail(m) /\ UNCHANGED <<new, arrived>>
    /\ UNCHANGED <<account, copies>>

Unlink(m) ==
    /\ stage[m] = "unlinking"
    /\ IF tmp[name[m]] # None
       THEN /\ tmp' = [tmp EXCEPT ![name[m]] = None]
            /\ Continue(m, "postdeliver")
       ELSE DeliverFail(m)
    /\ UNCHANGED <<account, new, counts>>

(* unlink fails both times, or link does. *)
FinalError(m) ==
    /\ "io" \in Faults
    /\ stage[m] \in {"linking", "unlinking"}
    /\ \/ DeliverFail(m)
       \/ Exit(m, 111) /\ UNCHANGED tmp
    /\ UNCHANGED <<account, new, counts>>

(* The exit code of the postdeliver script is that of vdeliver. *)
PostDeliver(m) ==
    /\ stage[m] = "postdeliver"
    /\ \E r \in ScriptResults : Exit(m, r)
    /\ UNCHANGED <<account, tmp, new, counts>>

-----------------------------------------------------------------------------
(* The environment *)

Kill(m) ==
    /\ "kill" \in Faults
    /\ stage[m] # "idle"
    /\ Exit(m, 111)
    /\ UNCHANGED <<account, tmp, new, counts>>

(* Processes are gone; files keep what has been synced.  Directories are   *)
(* taken to be written synchronously, as the maildir protocol does.        *)
PowerLoss ==
    LET Survive(c) == IF c # None /\ c.state # "synced"
                      THEN [c EXCEPT !.state = "empty"] ELSE c
    IN
    /\ "power" \in Faults
    /\ \E m \in Msgs : stage[m] # "idle"
    /\ stage' = [m \in Msgs |-> "idle"]
    /\ name' = [m \in Msgs |-> None]
    /\ ent' = [m \in Msgs |-> IF status[m] = "done" THEN ent[m] ELSE None]
    /\ tmp' = [f \in Files |-> Survive(tmp[f])]
    /\ new' = [f \in Files |-> Survive(new[f])]
    /\ UNCHANGED <<account, status, tries, counts>>

(* The reader of the mailbox takes a message out of new. *)
Collect(f) ==
    /\ new[f] # None
    /\ new' = [new EXCEPT ![f] = None]
    /\ UNCHANGED <<account, tmp, status, tries, stage, ent, name, counts>>

(* chattr changes the entry, deluser removes it and then the directory,    *)
(* adduser makes both anew (VDomain).                                      *)
AccountChange ==
    /\ "account" \in Faults
    /\ \/ acct' \in Entries /\ acct' # acct /\ maildir' = TRUE /\ UNCHANGED <<tmp, new>>
       \/ acct # None /\ acct' = None /\ UNCHANGED <<maildir, tmp, new>>
       \/ /\ acct = None /\ maildir /\ maildir' = FALSE
          /\ tmp' = [f \in Files |-> None]
          /\ new' = [f \in Files |-> None]
          /\ UNCHANGED acct
    /\ UNCHANGED <<status, tries, stage, ent, name, counts>>

Step(m) ==
    \/ Lookup(m) \/ PreDeliver(m) \/ CheckMaildir(m)
    \/ Create(m) \/ Collide(m) \/ Wake(m)
    \/ Write(m) \/ Sync(m) \/ Forward(m) \/ Link(m) \/ Unlink(m)
    \/ PostDeliver(m)

Next ==
    \/ \E m \in Msgs :
          \/ Start(m) \/ Step(m)
          \/ WriteError(m) \/ ForwardError(m) \/ FinalError(m) \/ Kill(m)
    \/ PowerLoss
    \/ \E f \in Files : Collect(f)
    \/ AccountChange

Spec == Init /\ [][Next]_vars

(* A process runs, and as its clock does too it is offered a free name     *)
(* sooner or later.                                                        *)
Fairness == \A m \in Msgs : WF_vars(Step(m)) /\ SF_vars(Create(m))

FairSpec == Spec /\ Fairness

-----------------------------------------------------------------------------
(* Properties *)

(* What the reader of the mailbox finds in new is whole, whenever          *)
(* processes die or the power fails: the file is synced before it is       *)
(* linked.                                                                 *)
NewIsWhole == \A f \in Files : new[f] # None => new[f].state = "synced"

(* A message the queue is told is delivered has been put where the entry   *)
(* that was looked up says, whatever has become of the account since.      *)
DoneIsDelivered ==
    \A m \in Msgs : status[m] = "done" =>
        /\ ent[m].mailbox => arrived[m] > 0
        /\ ent[m].forwards => copies[m] > 0

(* No message takes the place of another: link does not replace, even if   *)
(* a name comes up again.                                                  *)
NewIsKept ==
    [][\A f \in Files : new[f] # None => new'[f] \in {new[f], None}]_vars

(* Every attempt ends, with an exit code or otherwise. *)
AttemptsEnd == \A m \in Msgs : stage[m] # "idle" ~> stage[m] = "idle"

=============================================================================
