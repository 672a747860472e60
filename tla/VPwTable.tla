------------------------------ MODULE VPwTable ------------------------------
(***************************************************************************)
(* The virtual password table of a domain: one constant database file,     *)
(* passwd.cdb, replaced as a whole by every update.                        *)
(*                                                                         *)
(* vpwtable::put and vpwtable::del (lib/vpwtable) map the current file,    *)
(* create passwd.cdb.tmp with O_EXCL, copy the records with one of them    *)
(* added, replaced or left out, write the index and rename the new file    *)
(* over the old one.  The exclusive creation is the only lock: a writer    *)
(* that finds the .tmp file gives up.  The cdb_writer destructor unlinks   *)
(* the .tmp name whatever it then refers to.                               *)
(*                                                                         *)
(* A process is a vmailmgrd child, a CGI program or a command line tool;   *)
(* nothing but the file system is shared.  A file is the table it holds    *)
(* and how much of it has reached the disk image.                          *)
(***************************************************************************)

CONSTANTS
    Procs,   \* the processes that may update the table at the same time
    Names,   \* user names, already lower case
    Vals,    \* encoded records
    Absent,  \* what a table holds for a name it does not have
    Inodes,  \* files; one more than Procs is never too few
    None,    \* no file, no call: a name that does not exist, a local unset
    Faults   \* what the environment may do: "io" errors, "kill" a process

ASSUME ConstantsAssumption ==
    /\ Absent \notin Vals
    /\ None \notin Inodes
    /\ None \notin [kind: {"add", "set", "del"}, name: Names, val: Vals]
    /\ None \notin BOOLEAN
    /\ Faults \subseteq {"io", "kill"}

VARIABLES
    table,   \* the directory entry passwd.cdb
    tmp,     \* the directory entry passwd.cdb.tmp
    file,    \* the contents of every file
    pc,      \* where each process is in put or del
    op,      \* the call: kind "add" (onlyadd), "set" or "del", name, record
    snap,    \* the table the process mapped before it took the lock
    fd,      \* the file the process is writing
    res,     \* the boolean the call returns
    robbed   \* history: some unlink removed the lock of another live writer

vars == <<table, tmp, file, pc, op, snap, fd, res, robbed>>

Contents == [Names -> Vals \cup {Absent}]
EmptyTable == [n \in Names |-> Absent]
NoBytes == [state |-> "empty", recs |-> EmptyTable]

Ops == [kind: {"add", "set", "del"}, name: Names, val: Vals]

(* "empty": no byte written; "headless": records but no header yet;        *)
(* "whole": the header points at the hash tables.                          *)
Progress == {"empty", "headless", "whole"}

Writing == {"copying", "ending", "flushing", "renaming"}
Steps == {"idle", "opening", "creating", "unwinding", "returned"} \cup Writing

Holds(p) == pc[p] \in Writing

TypeOK ==
    /\ table \in Inodes \cup {None}
    /\ tmp \in Inodes \cup {None}
    /\ file \in [Inodes -> [state: Progress, recs: Contents]]
    /\ pc \in [Procs -> Steps]
    /\ op \in [Procs -> Ops \cup {None}]
    /\ snap \in [Procs -> Contents]
    /\ fd \in [Procs -> Inodes \cup {None}]
    /\ res \in [Procs -> BOOLEAN]
    /\ robbed \in BOOLEAN

-----------------------------------------------------------------------------
(* What readers see.  In a file whose header was never set (cdbmake::final *)
(* is written first as it is found in memory, and again when it is filled  *)
(* in) a reader finds any of the records or none, or is killed by where    *)
(* the header sends it; a file of no bytes cannot be mapped, which         *)
(* cdb_reader does not notice: the process dies at its first access.       *)

Torn(i) == i # None /\ file[i].state # "whole"

MayRead(i, recs) ==
    IF i = None THEN recs = EmptyTable
    ELSE \/ file[i].state = "whole" /\ recs = file[i].recs
         \/ /\ file[i].state = "headless"
            /\ \A n \in Names : recs[n] \in {Absent, file[i].recs[n]}

(* The table as far as it can be relied on. *)
View(i) ==
    IF i # None /\ file[i].state = "whole" THEN file[i].recs ELSE EmptyTable

Visible == View(table)

(* A wrong del: the record is blanked, not left out. *)
ApplyBlanking(o, recs) ==
    [recs EXCEPT ![o.name] = IF o.kind = "del" THEN None ELSE o.val]

(* The table an update makes of the one it copies. *)
Apply(o, recs) ==
    [recs EXCEPT ![o.name] = IF o.kind = "del" THEN Absent ELSE o.val]

(* A wrong put: onlyadd is not looked at. *)
AllowedAlways(o, recs) == o.kind = "set" => recs[o.name] # Absent

(* put refuses to add a name that is there and to replace one that is not; *)
(* del never looks whether it left a record out.                           *)
Allowed(o, recs) ==
    CASE o.kind = "add" -> recs[o.name] = Absent
      [] o.kind = "set" -> recs[o.name] # Absent
      [] o.kind = "del" -> TRUE

-----------------------------------------------------------------------------
Init ==
    /\ table = None
    /\ tmp = None
    /\ file = [i \in Inodes |-> NoBytes]
    /\ pc = [p \in Procs |-> "idle"]
    /\ op = [p \in Procs |-> None]
    /\ snap = [p \in Procs |-> EmptyTable]
    /\ fd = [p \in Procs |-> None]
    /\ res = [p \in Procs |-> FALSE]
    /\ robbed = FALSE

(* The files that have a name or that a process has not let go of; any     *)
(* other ceases to exist.                                                  *)
Referenced == {table, tmp} \cup {fd[q] : q \in Procs}

Reap == file' = [i \in Inodes |-> IF i \in Referenced' THEN file[i] ELSE NoBytes]

Goto(p, step) == pc' = [pc EXCEPT ![p] = step]

(* The process is gone, or back in its caller: its locals are. *)
Leave(p) ==
    /\ Goto(p, "idle")
    /\ op' = [op EXCEPT ![p] = None]
    /\ snap' = [snap EXCEPT ![p] = EmptyTable]
    /\ fd' = [fd EXCEPT ![p] = None]
    /\ res' = [res EXCEPT ![p] = FALSE]
    /\ UNCHANGED <<table, tmp, robbed>>
    /\ Reap

Finish(p, step, ok) ==
    /\ Goto(p, step)
    /\ res' = [res EXCEPT ![p] = ok]

(* The caller enters put(vpw, onlyadd) or del(name). *)
Call(p, o) ==
    /\ pc[p] = "idle"
    /\ Goto(p, "opening")
    /\ op' = [op EXCEPT ![p] = o]
    /\ UNCHANGED <<table, tmp, file, snap, fd, res, robbed>>

(* cdb_reader in(filename): a missing table is an empty one to put and an  *)
(* error to del; the process may die on a torn one.                        *)
OpenTable(p) ==
    /\ pc[p] = "opening"
    /\ \/ /\ Torn(table)
          /\ Leave(p)
       \/ /\ table = None /\ op[p].kind = "del"
          /\ Finish(p, "returned", FALSE)
          /\ UNCHANGED <<table, tmp, file, op, snap, fd, robbed>>
       \/ /\ table # None \/ op[p].kind # "del"
          /\ \E recs \in Contents :
                /\ MayRead(table, recs)
                /\ snap' = [snap EXCEPT ![p] = recs]
          /\ Goto(p, "creating")
          /\ UNCHANGED <<table, tmp, file, op, fd, res, robbed>>

(* Wrong creations: one opens the .tmp file that is there, as without      *)
(* O_EXCL; one removes it first; one, born failed, still unlinks it; one   *)
(* waits until it is gone.                                                 *)
CreateTmpShared(p) ==
    /\ pc[p] = "creating"
    /\ \E i \in IF tmp = None THEN Inodes \ Referenced ELSE {tmp} :
          /\ tmp' = i
          /\ fd' = [fd EXCEPT ![p] = i]
    /\ Goto(p, "copying")
    /\ UNCHANGED <<table, file, op, snap, res, robbed>>

CreateTmpAfresh(p) ==
    /\ pc[p] = "creating"
    /\ \E i \in Inodes \ Referenced :
          /\ tmp' = i
          /\ fd' = [fd EXCEPT ![p] = i]
    /\ Goto(p, "copying")
    /\ UNCHANGED <<table, op, snap, res, robbed>>
    /\ Reap

CreateTmpUnlinking(p) ==
    /\ pc[p] = "creating"
    /\ \/ /\ tmp # None
          /\ Finish(p, "unwinding", FALSE)
          /\ UNCHANGED <<tmp, fd>>
       \/ /\ tmp = None
          /\ \E i \in Inodes \ Referenced :
                /\ tmp' = i
                /\ fd' = [fd EXCEPT ![p] = i]
          /\ Goto(p, "copying")
          /\ UNCHANGED res
    /\ UNCHANGED <<table, file, op, snap, robbed>>

CreateTmpWaiting(p) ==
    /\ pc[p] = "creating"
    /\ tmp = None
    /\ \E i \in Inodes \ Referenced :
          /\ tmp' = i
          /\ fd' = [fd EXCEPT ![p] = i]
    /\ Goto(p, "copying")
    /\ UNCHANGED <<table, file, op, snap, res, robbed>>

(* cdb_writer out(cdbtmpname, 0600): open with O_CREAT|O_EXCL.  When the   *)
(* name exists the writer is born failed and will not unlink it.           *)
CreateTmp(p) ==
    /\ pc[p] = "creating"
    /\ \/ /\ tmp # None
          /\ Finish(p, "returned", FALSE)
          /\ UNCHANGED <<tmp, fd>>
       \/ /\ tmp = None
          /\ \E i \in Inodes \ Referenced :
                /\ tmp' = i
                /\ fd' = [fd EXCEPT ![p] = i]
          /\ Goto(p, "copying")
          /\ UNCHANGED res
    /\ UNCHANGED <<table, file, op, snap, robbed>>

(* The record loop runs over the mapped table, not over the current one.   *)
Copy(p) ==
    /\ pc[p] = "copying"
    /\ IF Allowed(op[p], snap[p])
       THEN Goto(p, "ending") /\ UNCHANGED res
       ELSE Finish(p, "unwinding", FALSE)
    /\ UNCHANGED <<table, tmp, file, op, snap, fd, robbed>>

Write(p, state) ==
    file' = [file EXCEPT ![fd[p]] = [state |-> state,
                                     recs  |-> Apply(op[p], snap[p])]]

(* A wrong end: the file is renamed before its header is flushed. *)
FlushBodyOnly(p) ==
    /\ pc[p] = "ending"
    /\ Goto(p, "renaming")
    /\ Write(p, "headless")
    /\ UNCHANGED <<table, tmp, op, snap, fd, res, robbed>>

(* A table larger than the output buffer reaches the file before its       *)
(* header does; a smaller one is written with it in one call.              *)
FlushBody(p) ==
    /\ pc[p] = "ending"
    /\ Goto(p, "flushing")
    /\ Write(p, "headless")
    /\ UNCHANGED <<table, tmp, op, snap, fd, res, robbed>>

FlushHeader(p) ==
    /\ pc[p] \in {"ending", "flushing"}
    /\ Goto(p, "renaming")
    /\ Write(p, "whole")
    /\ UNCHANGED <<table, tmp, op, snap, fd, res, robbed>>

(* A wrong end: the result of rename is tested the wrong way round. *)
RenameInverted(p) ==
    /\ pc[p] = "renaming"
    /\ Finish(p, "unwinding", tmp = None)
    /\ table' = IF tmp = None THEN table ELSE tmp
    /\ tmp' = None
    /\ UNCHANGED <<op, snap, fd, robbed>>
    /\ Reap

(* rename(fntemp, filename) acts on the name, whichever file it now is.    *)
Rename(p) ==
    /\ pc[p] = "renaming"
    /\ IF tmp = None
       THEN Finish(p, "unwinding", FALSE) /\ UNCHANGED <<table, tmp>>
       ELSE /\ Finish(p, "unwinding", TRUE)
            /\ table' = tmp
            /\ tmp' = None
    /\ UNCHANGED <<op, snap, fd, robbed>>
    /\ Reap

(* Copying writes at least one record; del may have none to copy. *)
CopiesRecords(p) ==
    op[p].kind = "del" => \E n \in Names \ {op[p].name} : snap[p][n] # Absent

(* A wrong failure: the .tmp file is left behind. *)
WriteErrorLeaving(p) ==
    /\ "io" \in Faults
    /\ Holds(p)
    /\ pc[p] = "copying" => CopiesRecords(p)
    /\ Finish(p, "returned", pc[p] = "copying" /\ op[p].kind = "del")
    /\ fd' = [fd EXCEPT ![p] = None]
    /\ UNCHANGED <<table, tmp, op, snap, robbed>>
    /\ Reap

(* A write or the rename fails: put answers false, but del leaves its      *)
(* record loop with failed set and answers true.                           *)
WriteError(p) ==
    /\ "io" \in Faults
    /\ Holds(p)
    /\ pc[p] = "copying" => CopiesRecords(p)
    /\ Finish(p, "unwinding", pc[p] = "copying" /\ op[p].kind = "del")
    /\ UNCHANGED <<table, tmp, file, op, snap, fd, robbed>>

(* open, fstat or creat fails for a reason other than the lock. *)
OpenError(p) ==
    /\ "io" \in Faults
    /\ pc[p] \in {"opening", "creating"}
    /\ Finish(p, "returned", FALSE)
    /\ UNCHANGED <<table, tmp, file, op, snap, fd, robbed>>

(* abort(), from a failed step or from the destructor after a rename that  *)
(* succeeded: the name is unlinked if it is there.                         *)
Unlink(p) ==
    /\ pc[p] = "unwinding"
    /\ Goto(p, "returned")
    /\ tmp' = None
    /\ robbed' = (robbed \/ \E q \in Procs : Holds(q) /\ fd[q] = tmp)
    /\ fd' = [fd EXCEPT ![p] = None]
    /\ UNCHANGED <<table, op, snap, res>>
    /\ Reap

(* The caller takes the result. *)
Return(p) ==
    /\ pc[p] = "returned"
    /\ Leave(p)

(* A signal or a reboot ends the process; no destructor runs. *)
Die(p) ==
    /\ "kill" \in Faults
    /\ pc[p] # "idle"
    /\ Leave(p)

(* What a process does by itself once called. *)
Step(p) ==
    \/ OpenTable(p)
    \/ CreateTmp(p)
    \/ Copy(p)
    \/ FlushBody(p)
    \/ FlushHeader(p)
    \/ Rename(p)
    \/ Unlink(p)
    \/ Return(p)

Fault(p) == WriteError(p) \/ OpenError(p) \/ Die(p)

Next == \E p \in Procs : (\E o \in Ops : Call(p, o)) \/ Step(p) \/ Fault(p)

Spec == Init /\ [][Next]_vars

Fairness == \A p \in Procs : WF_vars(Step(p))

FairSpec == Spec /\ Fairness

-----------------------------------------------------------------------------
(* Properties *)

(* A reader never finds a table that is cut short, unless a writer's lock  *)
(* has been unlinked by the destructor of another writer: the promise of   *)
(* O_EXCL and rename in cdb_writer.                                        *)
TornOnlyIfRobbed ==
    ~robbed => (table # None => file[table].state = "whole")

(* The .tmp name is a lock: two writers are between creation and rename at *)
(* once only after such an unlink.                                         *)
LockExclusive ==
    ~robbed => \A p, q \in Procs : Holds(p) /\ Holds(q) => p = q

(* A published table is never written again: what a reader has mapped      *)
(* shared (mmap, MAP_SHARED) cannot change under it, whatever the writers  *)
(* do to each other's locks.                                               *)
PublishedIsFrozen ==
    [][table # None /\ table' = table /\ file[table].state = "whole"
         => file'[table] = file[table]]_vars

(* What a caller means by an update that succeeded. *)
MakesChange(o, before, after) ==
    /\ o.kind = "add" => before[o.name] = Absent
    /\ o.kind = "set" => before[o.name] # Absent
    /\ after[o.name] = IF o.kind = "del" THEN Absent ELSE o.val
    /\ \A n \in Names \ {o.name} : after[n] = before[n]

(* While no lock has been removed, an update whose copy is still current   *)
(* when it renames makes exactly its own change, and only when it may: add *)
(* never replaces a record and no other name is touched.                   *)
FreshUpdateIsExact ==
    [][\A p \in Procs :
         (~robbed /\ pc[p] = "renaming" /\ pc'[p] = "unwinding" /\ res'[p]
          /\ snap[p] = Visible)
         => MakesChange(op[p], Visible, Visible')]_vars

(* A .tmp file nobody will unlink: left by a process that died. *)
OrphanLock ==
    tmp # None /\ \A p \in Procs : ~Holds(p) /\ pc[p] # "unwinding"

(* Such a file stops every later update for good: no program in src/       *)
(* removes it and no update gets past it.                                  *)
OrphanLockIsForever == [][OrphanLock => OrphanLock' /\ table' = table]_vars

(* Unless a process dies, a .tmp file goes away: failures unlink it too.   *)
LockIsReleased == tmp # None ~> tmp = None

(* The table as its callers think of it: an update happens when its file   *)
(* is renamed.                                                             *)
Map == INSTANCE PwMap WITH
    map    <- Visible,
    call   <- op,
    answer <- [p \in Procs |-> IF pc[p] \in {"unwinding", "returned"}
                               THEN res[p] ELSE None]

(* put and del act in one step and answer truly (vpwtable.h): so they do   *)
(* for one process at a time, killed at any point or not.                  *)
AtomicMap == Map!Spec

(* The rename makes an update atomic to readers: there is never a table    *)
(* that is cut short.                                                      *)
TableIsWhole == table # None => file[table].state = "whole"

(* put and del come back, or the process is gone: nobody waits for a lock. *)
CallsReturn == \A p \in Procs : pc[p] # "idle" ~> pc[p] \in {"returned", "idle"}

=============================================================================
