---------------------------- MODULE Autoresponse ----------------------------
(***************************************************************************)
(* The autoresponse command of vmailmgrd (daemon/autoresponse.cc): one     *)
(* process per request, all of them in one directory with the names        *)
(*   location   the message that is sent,                                  *)
(*   disabled   the message that is kept but not sent,                     *)
(*   lock       the message that is being written.                         *)
(* Every check of a name and every change of one is a step of its own.     *)
(***************************************************************************)
EXTENDS Naturals, FiniteSets

CONSTANTS
    Procs,  \* the processes that serve requests
    Msgs,   \* the messages written
    Inodes, \* the files of the directory
    None,   \* no file, no text
    Part    \* what a file holds before its message has been flushed

Names == {"location", "disabled", "lock"}
Texts == Msgs \cup {Part}
Reqs == [act: {"write"}, msg: Msgs]
        \cup [act: {"enable", "disable", "read", "delete"}, msg: {None}]

ASSUME AutoresponseAssumption ==
    None \notin Inodes /\ Part \notin Msgs /\ None \notin Texts /\ None \notin Reqs

VARIABLES
    dir,    \* the directory exists
    link,   \* the file of each name
    text,   \* what each file holds
    pc,     \* the step each process is at
    req,    \* its request
    fd,     \* the file it has created
    todo,   \* the names its delete_directory has yet to unlink
    tries,  \* and how often it has failed to remove the directory
    shown,  \* the text the read command answered last
    alone,  \* history: no two requests have been under way at once
    swept   \* history: a delete has removed a lock that was in use

vars == <<dir, link, text, pc, req, fd, todo, tries, shown, alone, swept>>

PCs == {"idle", "isdir", "mkdir", "location", "lock", "disabled", "open", "flush",
        "rename", "unlink", "readlocation", "readdisabled", "opendir", "empty"}

TypeOK ==
    /\ dir \in BOOLEAN /\ alone \in BOOLEAN /\ swept \in BOOLEAN
    /\ link \in [Names -> Inodes \cup {None}]
    /\ text \in [Inodes -> Texts]
    /\ pc \in [Procs -> PCs]
    /\ req \in [Procs -> Reqs \cup {None}]
    /\ fd \in [Procs -> Inodes \cup {None}]
    /\ todo \in [Procs -> SUBSET Names]
    /\ tries \in [Procs -> 0..2]
    /\ shown \in Texts \cup {None}

Init ==
    /\ dir = FALSE /\ alone = TRUE /\ swept = FALSE
    /\ link = [n \in Names |-> None]
    /\ text \in [Inodes -> {Part}]
    /\ pc = [p \in Procs |-> "idle"]
    /\ req = [p \in Procs |-> None]
    /\ fd = [p \in Procs |-> None]
    /\ todo = [p \in Procs |-> {}]
    /\ tries = [p \in Procs |-> 0]
    /\ shown = None

Goto(p, s) == pc' = [pc EXCEPT ![p] = s]

(* The process answers, or is gone. *)
End(p) ==
    /\ Goto(p, "idle")
    /\ req' = [req EXCEPT ![p] = None]
    /\ fd' = [fd EXCEPT ![p] = None]
    /\ todo' = [todo EXCEPT ![p] = {}]
    /\ tries' = [tries EXCEPT ![p] = 0]

local == <<req, fd, todo, tries>>
rest == <<alone, swept>>

(* Goes on to s if the condition holds, and answers otherwise. *)
Check(p, ok, s) ==
    /\ IF ok THEN Goto(p, s) /\ UNCHANGED local ELSE End(p)
    /\ UNCHANGED <<dir, link, text, shown, rest>>

First(act) ==
    CASE act \in {"write", "delete"} -> "isdir"
      [] act \in {"enable", "disable", "read"} -> "location"

Request(p) ==
    /\ pc[p] = "idle"
    /\ \E r \in Reqs : req' = [req EXCEPT ![p] = r] /\ Goto(p, First(r.act))
    /\ alone' = (alone /\ \A q \in Procs \ {p} : pc[q] = "idle")
    /\ UNCHANGED <<dir, link, text, fd, todo, tries, shown, swept>>

IsDir(p) ==
    /\ pc[p] = "isdir"
    /\ IF req[p].act = "write"
       THEN Check(p, TRUE, IF dir THEN "lock" ELSE "mkdir")
       ELSE Check(p, dir, "opendir")

(* Fails if the directory has come up since. *)
MkDir(p) ==
    /\ pc[p] = "mkdir"
    /\ IF dir THEN Check(p, FALSE, "lock")
       ELSE dir' = TRUE /\ Goto(p, "lock") /\ UNCHANGED <<link, text, shown, local, rest>>

(* disable wants a message that is sent, enable wants none; read wants     *)
(* either, and looks for the other if there is none.                       *)
CheckLocation(p) ==
    /\ pc[p] = "location"
    /\ LET there == link["location"] # None IN
       CASE req[p].act = "disable" -> Check(p, there, "disabled")
         [] req[p].act = "enable" -> Check(p, ~there, "disabled")
         [] req[p].act = "read" -> Check(p, TRUE, IF there THEN "readlocation" ELSE "disabled")

(* A slip: write does not look for a disabled message. *)
CheckLockOnly(p) ==
    /\ pc[p] = "lock"
    /\ Check(p, link["lock"] = None, "open")

CheckLock(p) == pc[p] = "lock" /\ Check(p, link["lock"] = None, "disabled")

CheckDisabled(p) ==
    /\ pc[p] = "disabled"
    /\ LET there == link["disabled"] # None IN
       CASE req[p].act = "write" -> Check(p, ~there, "open")
         [] req[p].act = "disable" -> Check(p, ~there, "rename")
         [] req[p].act = "enable" -> Check(p, there, "rename")
         [] req[p].act = "read" -> Check(p, there, "readlocation")

InUse == {link[n] : n \in Names} \cup {fd[p] : p \in Procs}

(* A slip: no O_EXCL. *)
OpenTruncating(p) ==
    /\ pc[p] = "open" /\ dir
    /\ \E i \in Inodes :
         /\ IF link["lock"] = None THEN i \notin InUse ELSE i = link["lock"]
         /\ link' = [link EXCEPT !["lock"] = i]
         /\ text' = [text EXCEPT ![i] = Part]
         /\ fd' = [fd EXCEPT ![p] = i]
    /\ Goto(p, "flush")
    /\ UNCHANGED <<dir, req, todo, tries, shown, rest>>

(* O_CREAT | O_EXCL *)
Open(p) ==
    /\ pc[p] = "open"
    /\ IF dir /\ link["lock"] = None
       THEN \E i \in Inodes \ InUse :
              /\ link' = [link EXCEPT !["lock"] = i]
              /\ text' = [text EXCEPT ![i] = Part]
              /\ fd' = [fd EXCEPT ![p] = i]
              /\ Goto(p, "flush")
              /\ UNCHANGED <<dir, req, todo, tries, shown, rest>>
       ELSE Check(p, FALSE, "flush")

Flush(p) ==
    /\ pc[p] = "flush"
    /\ text' = [text EXCEPT ![fd[p]] = req[p].msg]
    /\ Goto(p, "rename")
    /\ UNCHANGED <<dir, link, shown, local, rest>>

FlushError(p) == pc[p] = "flush" /\ Check(p, TRUE, "unlink")

From(act) == CASE act = "write" -> "lock" [] act = "disable" -> "location" [] act = "enable" -> "disabled"
To(act) == IF act = "disable" THEN "disabled" ELSE "location"

Rename(p) ==
    /\ pc[p] = "rename"
    /\ LET from == From(req[p].act) IN
       IF link[from] # None
       THEN /\ link' = [link EXCEPT ![from] = None, ![To(req[p].act)] = link[from]]
            /\ End(p)
            /\ UNCHANGED <<dir, text, shown, rest>>
       ELSE Check(p, req[p].act = "write", "unlink")

Unlink(p) ==
    /\ pc[p] = "unlink"
    /\ link' = [link EXCEPT !["lock"] = None]
    /\ End(p)
    /\ UNCHANGED <<dir, text, shown, rest>>

(* read_file of the one and then of the other. *)
Read(p) ==
    /\ pc[p] \in {"readlocation", "readdisabled"}
    /\ LET n == IF pc[p] = "readlocation" THEN "location" ELSE "disabled" IN
       IF link[n] # None
       THEN shown' = text[link[n]] /\ End(p) /\ UNCHANGED <<dir, link, text, rest>>
       ELSE Check(p, pc[p] = "readlocation", "readdisabled")

(* delete_directory: what opendir lists, one name at a time. *)
OpenDir(p) ==
    /\ pc[p] = "opendir"
    /\ IF dir
       THEN /\ todo' = [todo EXCEPT ![p] = {n \in Names : link[n] # None}]
            /\ Goto(p, "empty")
            /\ UNCHANGED <<dir, link, text, req, fd, tries, shown, rest>>
       ELSE Check(p, FALSE, "empty")

Sweep(p) ==
    /\ pc[p] = "empty"
    /\ \E n \in todo[p] :
         IF link[n] = None THEN Check(p, FALSE, "empty")
         ELSE /\ link' = [link EXCEPT ![n] = None]
              /\ todo' = [todo EXCEPT ![p] = @ \ {n}]
              /\ swept' = (swept \/ (n = "lock" /\ \E q \in Procs : fd[q] = link[n]))
              /\ UNCHANGED <<dir, text, pc, req, fd, tries, shown, alone>>

RmDir(p) ==
    /\ pc[p] = "empty" /\ todo[p] = {}
    /\ IF dir /\ \A n \in Names : link[n] = None
       THEN dir' = FALSE /\ End(p) /\ UNCHANGED <<link, text, shown, rest>>
       ELSE /\ IF tries[p] < 2
               THEN /\ tries' = [tries EXCEPT ![p] = @ + 1]
                    /\ Goto(p, "opendir") /\ UNCHANGED <<req, fd, todo>>
               ELSE End(p)
            /\ UNCHANGED <<dir, link, text, shown, rest>>

Die(p) == pc[p] # "idle" /\ End(p) /\ UNCHANGED <<dir, link, text, shown, rest>>

Step(p) ==
    \/ IsDir(p) \/ MkDir(p) \/ CheckLocation(p) \/ CheckLock(p) \/ CheckDisabled(p)
    \/ Open(p) \/ Flush(p) \/ FlushError(p) \/ Rename(p) \/ Unlink(p)
    \/ Read(p) \/ OpenDir(p) \/ Sweep(p) \/ RmDir(p)

Next == \E p \in Procs : Request(p) \/ Step(p) \/ Die(p)

Spec == Init /\ [][Next]_vars

-----------------------------------------------------------------------------
(* A message that is sent, kept or shown to its owner has been written to  *)
(* its end, unless a delete has taken the lock of a live writer away: the  *)
(* exclusive creation of the lock and the rename after the flush see to it *)
(* (autoresponse_write).                                                   *)
WholeUnlessSwept ==
    swept \/ /\ shown # Part
             /\ \A n \in {"location", "disabled"} : link[n] # None => text[link[n]] # Part

(* As long as requests do not overlap a message is either sent or kept,    *)
(* never both, even if processes die: enable and disable can always undo   *)
(* each other (autoresponse_enable, autoresponse_disable).                 *)
OneCopyAlone == alone => link["location"] = None \/ link["disabled"] = None

=============================================================================
