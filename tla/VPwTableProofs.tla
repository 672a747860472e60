--------------------------- MODULE VPwTableProofs ---------------------------
(***************************************************************************)
(* Theorems about VPwTable, for any number of processes, names, records    *)
(* and files and any set of faults.                                        *)
(*                                                                         *)
(* The inductive invariant says what each file a process has in hand looks *)
(* like at each step of its update (Crafted), that no two processes have   *)
(* the same file in hand (Apart), and that until a lock is removed the     *)
(* .tmp name is the file of the one writer there is (Locked), so that only *)
(* a whole table can have been renamed (TornOnlyIfRobbed).                 *)
(***************************************************************************)
EXTENDS VPwTable, TLAPS

(* A process has a call exactly while it is busy, and a file only once it  *)
(* has created one.                                                        *)
Busy ==
    \A p \in Procs :
        /\ pc[p] # "idle" => op[p] \in Ops
        /\ pc[p] = "idle" => op[p] = None
        /\ pc[p] \in {"idle", "opening", "creating"} => fd[p] = None
        /\ Holds(p) => fd[p] \in Inodes

(* No two processes have the same file in hand. *)
Apart ==
    \A p, q \in Procs : p # q /\ fd[p] # None => fd[p] # fd[q]

(* How far the file of each writer is, and what it holds in the end. *)
CraftedBy(p) ==
    /\ pc[p] \in {"copying", "ending"} => file[fd[p]].state = "empty"
    /\ pc[p] = "flushing" => file[fd[p]].state = "headless"
    /\ pc[p] = "renaming" =>
          file[fd[p]] = [state |-> "whole", recs |-> Apply(op[p], snap[p])]
    /\ pc[p] \in {"ending", "flushing", "renaming"} => Allowed(op[p], snap[p])

Crafted == \A p \in Procs : CraftedBy(p)

(* Until a lock is removed, the .tmp name is the writer's file. *)
Locked ==
    ~robbed => \A p \in Procs : Holds(p) => tmp = fd[p]

(* A file that does not exist has no bytes. *)
Blank == \A i \in Inodes : i \notin Referenced => file[i] = NoBytes

IInv ==
    /\ TypeOK
    /\ Busy
    /\ Apart
    /\ Crafted
    /\ Blank
    /\ Locked
    /\ TornOnlyIfRobbed



-----------------------------------------------------------------------------
(* Facts about the operators *)

(* What an update makes of a table is a table. *)
LEMMA ApplyType ==
    ASSUME NEW o \in Ops, NEW recs \in Contents
    PROVE  Apply(o, recs) \in Contents
BY DEF Apply, Contents, Ops

LEMMA NoBytesType == NoBytes \in [state: Progress, recs: Contents]
BY DEF NoBytes, EmptyTable, Contents, Progress

(* Letting go of files keeps the type of the others and their contents. *)
LEMMA ReapKeeps ==
    ASSUME TypeOK, Reap
    PROVE  /\ file' \in [Inodes -> [state: Progress, recs: Contents]]
           /\ \A i \in Inodes : i \in Referenced' => file'[i] = file[i]
BY NoBytesType DEF TypeOK, Reap

(* Writing keeps the type and touches one file. *)
LEMMA WriteKeeps ==
    ASSUME TypeOK, NEW p \in Procs, NEW state \in Progress,
           op[p] \in Ops, fd[p] \in Inodes, Write(p, state)
    PROVE  /\ file' \in [Inodes -> [state: Progress, recs: Contents]]
           /\ file'[fd[p]] = [state |-> state, recs |-> Apply(op[p], snap[p])]
           /\ \A i \in Inodes : i # fd[p] => file'[i] = file[i]
<1>1. snap[p] \in Contents
  BY DEF TypeOK
<1>2. Apply(op[p], snap[p]) \in Contents
  BY <1>1, ApplyType
<1> QED
  BY <1>2 DEF TypeOK, Write

-----------------------------------------------------------------------------
(* The invariant holds at first and every action keeps it *)

LEMMA InitInvariant == Init => IInv
<1> SUFFICES ASSUME Init PROVE IInv
  OBVIOUS
<1>1. TypeOK
  BY NoBytesType DEF Init, TypeOK, EmptyTable, Contents, Steps
<1> QED
  BY <1>1 DEF Init, IInv, Busy, Apart, Crafted, CraftedBy, Blank, Locked, TornOnlyIfRobbed,
     Holds, Writing

LEMMA CallKeeps ==
    ASSUME IInv, NEW p \in Procs, NEW o \in Ops, Call(p, o)
    PROVE  IInv'
<1> USE DEF IInv, Call, Goto
<1>1. TypeOK'
  BY DEF TypeOK, Steps
<1>2. Busy'
  BY DEF TypeOK, Busy, Holds, Writing
<1>3. Apart'
  BY DEF Apart
<1>4. Crafted'
  BY DEF TypeOK, Crafted, CraftedBy
<1>5. Locked' /\ TornOnlyIfRobbed'
  BY DEF TypeOK, Locked, TornOnlyIfRobbed, Holds, Writing
<1>6. Blank'
  BY DEF Blank, Referenced
<1> QED
  BY <1>1, <1>2, <1>3, <1>4, <1>5, <1>6

(* Leaving resets the locals of one process and lets go of its file. *)
LEMMA LeaveKeeps ==
    ASSUME IInv, NEW p \in Procs, Leave(p)
    PROVE  IInv'
<1> USE DEF IInv, Leave, Goto
<1>1. \A q \in Procs : fd'[q] # None => fd'[q] = fd[q] /\ file'[fd[q]] = file[fd[q]]
  BY ReapKeeps DEF TypeOK, Referenced
<1>2. table # None => file'[table] = file[table]
  BY ReapKeeps DEF TypeOK, Referenced
<1>3. TypeOK'
  BY ReapKeeps DEF TypeOK, Steps, EmptyTable, Contents
<1>4. Busy'
  BY DEF TypeOK, Busy, Holds, Writing
<1>5. Apart'
  BY DEF TypeOK, Apart
<1>6. Crafted'
  <2> SUFFICES ASSUME NEW q \in Procs, pc'[q] # "idle"
               PROVE  CraftedBy(q)'
    BY DEF Crafted, CraftedBy
  <2>1. q # p /\ pc'[q] = pc[q] /\ fd'[q] = fd[q] /\ op'[q] = op[q] /\ snap'[q] = snap[q]
    BY DEF TypeOK
  <2>2. Holds(q) => fd[q] # None
    BY ConstantsAssumption DEF Busy
  <2> QED
    BY <1>1, <2>1, <2>2 DEF Crafted, CraftedBy, Holds, Writing
<1>7. Locked'
  BY DEF TypeOK, Locked, Holds, Writing
<1>8. TornOnlyIfRobbed'
  BY <1>2 DEF TornOnlyIfRobbed
<1>9. Blank'
  BY DEF Blank, Reap
<1> QED
  BY <1>3, <1>4, <1>5, <1>6, <1>7, <1>8, <1>9

(* A step that moves one process to an answer, or to the unlink, and       *)
(* touches no file.                                                        *)
LEMMA FinishKeeps ==
    ASSUME IInv, NEW p \in Procs, NEW step \in {"returned", "unwinding"},
           NEW ok \in BOOLEAN, pc[p] # "idle", Finish(p, step, ok),
           UNCHANGED <<table, tmp, file, op, snap, fd, robbed>>
    PROVE  IInv'
<1> USE DEF IInv, Finish, Goto
<1>1. TypeOK'
  BY DEF TypeOK, Steps
<1>2. Busy'
  BY DEF TypeOK, Busy, Holds, Writing
<1>3. Apart'
  BY DEF Apart
<1>4. Crafted'
  BY DEF TypeOK, Crafted, CraftedBy
<1>5. Locked' /\ TornOnlyIfRobbed'
  BY DEF TypeOK, Locked, TornOnlyIfRobbed, Holds, Writing
<1>6. Blank'
  BY DEF Blank, Referenced
<1> QED
  BY <1>1, <1>2, <1>3, <1>4, <1>5, <1>6

LEMMA OpenTableKeeps ==
    ASSUME IInv, NEW p \in Procs, OpenTable(p)
    PROVE  IInv'
<1> USE DEF IInv
<1>1. CASE Leave(p)
  BY <1>1, LeaveKeeps
<1>2. CASE /\ pc[p] = "opening" /\ Finish(p, "returned", FALSE)
           /\ UNCHANGED <<table, tmp, file, op, snap, fd, robbed>>
  BY <1>2, FinishKeeps
<1>3. CASE /\ pc[p] = "opening" /\ Goto(p, "creating")
           /\ \E recs \in Contents : snap' = [snap EXCEPT ![p] = recs]
           /\ UNCHANGED <<table, tmp, file, op, fd, res, robbed>>
  <2> USE <1>3 DEF Goto
  <2>1. TypeOK'
    BY DEF TypeOK, Steps
  <2>2. Busy'
    BY DEF TypeOK, Busy, Holds, Writing
  <2>3. Apart'
    BY DEF Apart
  <2>4. Crafted'
    BY DEF TypeOK, Crafted, CraftedBy
  <2>5. Locked' /\ TornOnlyIfRobbed'
    BY DEF TypeOK, Locked, TornOnlyIfRobbed, Holds, Writing
  <2>6. Blank'
    BY DEF Blank, Referenced
  <2> QED
    BY <2>1, <2>2, <2>3, <2>4, <2>5, <2>6
<1> QED
  BY <1>1, <1>2, <1>3 DEF OpenTable

(* A new .tmp file is one nobody has in hand, and nobody is writing: the   *)
(* .tmp name would be theirs.                                              *)
LEMMA CreateTmpKeeps ==
    ASSUME IInv, NEW p \in Procs, CreateTmp(p)
    PROVE  IInv'
<1> USE DEF IInv
<1>1. CASE /\ pc[p] = "creating" /\ Finish(p, "returned", FALSE)
           /\ UNCHANGED <<table, tmp, file, op, snap, fd, robbed>>
  BY <1>1, FinishKeeps
<1>2. ASSUME NEW i \in Inodes \ Referenced,
             pc[p] = "creating", tmp = None, tmp' = i,
             fd' = [fd EXCEPT ![p] = i], Goto(p, "copying"),
             UNCHANGED <<res, table, file, op, snap, robbed>>
      PROVE  IInv'
  <2> USE <1>2 DEF Goto
  <2>1. \A q \in Procs : fd[q] # i
    BY DEF Referenced
  <2>2. TypeOK'
    BY DEF TypeOK, Steps, Writing
  <2>3. Busy'
    BY DEF TypeOK, Busy, Holds, Writing
  <2>4. Apart'
    BY <2>1 DEF TypeOK, Apart
  <2>5. Crafted'
    <3>1. file[i] = NoBytes
      BY DEF Blank
    <3>2. \A q \in Procs : q # p => pc'[q] = pc[q] /\ fd'[q] = fd[q]
      BY DEF TypeOK
    <3>3. pc'[p] = "copying" /\ fd'[p] = i
      BY DEF TypeOK
    <3> QED
      BY <3>1, <3>2, <3>3 DEF Crafted, CraftedBy, NoBytes
  <2>6. Locked'
    <3>1. ~robbed => \A q \in Procs : ~Holds(q)
      BY ConstantsAssumption DEF Locked, Busy
    <3> QED
      BY <3>1 DEF TypeOK, Locked, Holds, Writing
  <2>7. TornOnlyIfRobbed'
    BY DEF TornOnlyIfRobbed
  <2>8. Blank'
    <3>1. fd[p] = None
      BY DEF Busy
    <3>2. \A q \in Procs : q # p => fd'[q] = fd[q]
      BY DEF TypeOK
    <3>3. \A j \in Inodes : j \in Referenced => j \in Referenced'
      BY <3>1, <3>2, ConstantsAssumption DEF Referenced
    <3> QED
      BY <3>3 DEF Blank
  <2> QED
    BY <2>2, <2>3, <2>4, <2>5, <2>6, <2>7, <2>8
<1> QED
  BY <1>1, <1>2 DEF CreateTmp

LEMMA CopyKeeps ==
    ASSUME IInv, NEW p \in Procs, Copy(p)
    PROVE  IInv'
<1> USE DEF IInv, Copy
<1>1. CASE ~Allowed(op[p], snap[p])
  BY <1>1, FinishKeeps
<1>2. CASE Allowed(op[p], snap[p])
  <2> USE <1>2 DEF Goto
  <2>1. TypeOK'
    BY DEF TypeOK, Steps, Writing
  <2>2. Busy'
    BY DEF TypeOK, Busy, Holds, Writing
  <2>3. Apart'
    BY DEF Apart
  <2>4. Crafted'
    BY DEF TypeOK, Crafted, CraftedBy
  <2>5. Locked' /\ TornOnlyIfRobbed'
    BY DEF TypeOK, Locked, TornOnlyIfRobbed, Holds, Writing
  <2>6. Blank'
    BY DEF Blank, Referenced
  <2> QED
    BY <2>1, <2>2, <2>3, <2>4, <2>5, <2>6
<1> QED
  BY <1>1, <1>2

(* Writing one's own file changes nobody else's, and not the table: that   *)
(* is whole and the writer's file is not, yet.                             *)
LEMMA WritingKeeps ==
    ASSUME IInv, NEW p \in Procs, pc[p] \in {"ending", "flushing"},
           NEW state \in {"headless", "whole"}, Write(p, state),
           Goto(p, IF state = "headless" THEN "flushing" ELSE "renaming"),
           UNCHANGED <<table, tmp, op, snap, fd, res, robbed>>
    PROVE  IInv'
<1> USE DEF IInv, Goto
<1>1. /\ op[p] \in Ops /\ fd[p] \in Inodes
      /\ state \in Progress
  BY DEF Busy, Holds, Writing, Progress
<1>2. TypeOK'
  BY <1>1, WriteKeeps DEF TypeOK, Steps, Writing
<1>3. Busy'
  BY DEF TypeOK, Busy, Holds, Writing
<1>4. Apart'
  BY DEF Apart
<1>5. Crafted'
  <2> SUFFICES ASSUME NEW q \in Procs PROVE CraftedBy(q)'
    BY DEF Crafted
  <2>1. CASE q = p
    <3>1. file'[fd'[p]] = [state |-> state, recs |-> Apply(op[p], snap[p])]
      BY <1>1, WriteKeeps
    <3>2. pc'[p] = IF state = "headless" THEN "flushing" ELSE "renaming"
      BY DEF TypeOK
    <3>3. Allowed(op[p], snap[p])
      BY DEF Crafted, CraftedBy
    <3>4. op'[p] = op[p] /\ snap'[p] = snap[p]
      OBVIOUS
    <3>5. CASE state = "headless"
      BY <2>1, <3>1, <3>2, <3>3, <3>4, <3>5 DEF CraftedBy
    <3>6. CASE state = "whole"
      BY <2>1, <3>1, <3>2, <3>3, <3>4, <3>6 DEF CraftedBy
    <3> QED
      BY <3>5, <3>6
  <2>2. CASE q # p
    <3>1. pc'[q] = pc[q]
      BY <2>2 DEF TypeOK
    <3>2. Holds(q) => fd[q] \in Inodes /\ fd[q] # fd[p]
      BY <2>2, ConstantsAssumption DEF Busy, Apart
    <3>3. Holds(q) => file'[fd[q]] = file[fd[q]]
      BY <1>1, <3>2, WriteKeeps
    <3> QED
      BY <3>1, <3>3 DEF Crafted, CraftedBy, Holds, Writing
  <2> QED
    BY <2>1, <2>2
<1>6. Locked'
  BY DEF TypeOK, Locked, Holds, Writing
<1>7. TornOnlyIfRobbed'
  <2> SUFFICES ASSUME ~robbed, table # None
               PROVE  file'[table].state = "whole"
    BY DEF TornOnlyIfRobbed
  <2>1. table \in Inodes /\ file[table].state = "whole"
    BY DEF TypeOK, TornOnlyIfRobbed
  <2>2. file[fd[p]].state # "whole"
    BY DEF Crafted, CraftedBy
  <2> QED
    BY <1>1, <2>1, <2>2, WriteKeeps
<1>8. Blank'
  <2>1. fd[p] \in Referenced /\ Referenced' = Referenced
    BY DEF Referenced
  <2> QED
    BY <1>1, <2>1, WriteKeeps DEF Blank
<1> QED
  BY <1>2, <1>3, <1>4, <1>5, <1>6, <1>7, <1>8

(* The file that is renamed is the writer's own, and whole, unless a lock  *)
(* has been removed.                                                       *)
LEMMA RenameKeeps ==
    ASSUME IInv, NEW p \in Procs, Rename(p)
    PROVE  IInv'
<1> USE DEF IInv, Rename, Finish, Goto
<1>1. \A q \in Procs : fd[q] # None => file'[fd[q]] = file[fd[q]]
  BY ReapKeeps DEF TypeOK, Referenced
<1>2. TypeOK'
  BY ReapKeeps DEF TypeOK, Steps
<1>3. Busy'
  BY DEF TypeOK, Busy, Holds, Writing
<1>4. Apart'
  BY DEF Apart
<1>5. Crafted'
  <2> SUFFICES ASSUME NEW q \in Procs PROVE CraftedBy(q)'
    BY DEF Crafted
  <2>1. pc'[q] = pc[q] \/ pc'[q] = "unwinding"
    BY DEF TypeOK
  <2>2. Holds(q) => fd[q] # None
    BY ConstantsAssumption DEF Busy
  <2> QED
    BY <1>1, <2>1, <2>2 DEF Crafted, CraftedBy, Holds, Writing
<1>6. Locked'
  <2> SUFFICES ASSUME ~robbed, NEW q \in Procs, q # p, Holds(q)
               PROVE  FALSE
    BY DEF TypeOK, Locked, Holds, Writing
  <2>1. tmp = fd[p] /\ tmp = fd[q]
    BY DEF Locked, Holds, Writing
  <2> QED
    BY <2>1, ConstantsAssumption DEF Apart, Busy
<1>7. TornOnlyIfRobbed'
  <2> SUFFICES ASSUME ~robbed, table' # None
               PROVE  file'[table'].state = "whole"
    BY DEF TornOnlyIfRobbed
  <2>1. tmp = fd[p] /\ fd[p] \in Inodes
    BY DEF Locked, Busy, Holds, Writing
  <2>2. table' = fd[p]
    BY <2>1, ConstantsAssumption
  <2>3. file[fd[p]].state = "whole"
    <3>1. pc[p] = "renaming" /\ CraftedBy(p)
      BY DEF Crafted
    <3>2. file[fd[p]] = [state |-> "whole", recs |-> Apply(op[p], snap[p])]
      BY <3>1 DEF CraftedBy
    <3> QED
      BY <3>2
  <2>4. file'[fd[p]] = file[fd[p]]
    BY <1>1, <2>1, ConstantsAssumption
  <2> QED
    BY <2>2, <2>3, <2>4
<1>8. Blank'
  BY DEF Blank, Reap
<1> QED
  BY <1>2, <1>3, <1>4, <1>5, <1>6, <1>7, <1>8

(* The unlink takes the .tmp name from whoever has it, and says so. *)
LEMMA UnlinkKeeps ==
    ASSUME IInv, NEW p \in Procs, Unlink(p)
    PROVE  IInv'
<1> USE DEF IInv, Unlink, Goto
<1>1. \A q \in Procs : fd'[q] # None => fd'[q] = fd[q] /\ file'[fd[q]] = file[fd[q]]
  BY ReapKeeps DEF TypeOK, Referenced
<1>2. table # None => file'[table] = file[table]
  BY ReapKeeps DEF TypeOK, Referenced
<1>3. TypeOK'
  BY ReapKeeps DEF TypeOK, Steps
<1>4. Busy'
  BY DEF TypeOK, Busy, Holds, Writing
<1>5. Apart'
  BY DEF TypeOK, Apart
<1>6. Crafted'
  <2> SUFFICES ASSUME NEW q \in Procs, q # p
               PROVE  CraftedBy(q)'
    BY DEF TypeOK, Crafted, CraftedBy
  <2>1. pc'[q] = pc[q] /\ fd'[q] = fd[q]
    BY DEF TypeOK
  <2>2. Holds(q) => fd[q] # None
    BY ConstantsAssumption DEF Busy
  <2> QED
    BY <1>1, <2>1, <2>2 DEF Crafted, CraftedBy, Holds, Writing
<1>7. Locked'
  <2> SUFFICES ASSUME ~robbed', NEW q \in Procs, Holds(q)'
               PROVE  FALSE
    BY DEF Locked
  <2>1. Holds(q)
    BY DEF TypeOK, Holds, Writing
  <2> QED
    BY <2>1 DEF Locked
<1>8. TornOnlyIfRobbed'
  BY <1>2 DEF TornOnlyIfRobbed
<1>9. Blank'
  BY DEF Blank, Reap
<1> QED
  BY <1>3, <1>4, <1>5, <1>6, <1>7, <1>8, <1>9

LEMMA NextKeeps == IInv /\ [Next]_vars => IInv'
<1> SUFFICES ASSUME IInv, [Next]_vars PROVE IInv'
  OBVIOUS
<1>1. ASSUME NEW p \in Procs, NEW o \in Ops, Call(p, o) PROVE IInv'
  BY <1>1, CallKeeps
<1>2. ASSUME NEW p \in Procs, OpenTable(p) PROVE IInv'
  BY <1>2, OpenTableKeeps
<1>3. ASSUME NEW p \in Procs, CreateTmp(p) PROVE IInv'
  BY <1>3, CreateTmpKeeps
<1>4. ASSUME NEW p \in Procs, Copy(p) PROVE IInv'
  BY <1>4, CopyKeeps
<1>5. ASSUME NEW p \in Procs, FlushBody(p) PROVE IInv'
  BY <1>5, WritingKeeps DEF FlushBody
<1>6. ASSUME NEW p \in Procs, FlushHeader(p) PROVE IInv'
  BY <1>6, WritingKeeps DEF FlushHeader
<1>7. ASSUME NEW p \in Procs, Rename(p) PROVE IInv'
  BY <1>7, RenameKeeps
<1>8. ASSUME NEW p \in Procs, Unlink(p) PROVE IInv'
  BY <1>8, UnlinkKeeps
<1>9. ASSUME NEW p \in Procs, Return(p) \/ Die(p) PROVE IInv'
  BY <1>9, LeaveKeeps DEF Return, Die
<1>10. ASSUME NEW p \in Procs, WriteError(p) PROVE IInv'
  <2>1. (pc[p] = "copying" /\ op[p].kind = "del") \in BOOLEAN
    OBVIOUS
  <2>2. pc[p] # "idle"
    BY <1>10 DEF WriteError, Holds, Writing
  <2> QED
    BY <1>10, <2>1, <2>2, FinishKeeps DEF WriteError
<1>11. ASSUME NEW p \in Procs, OpenError(p) PROVE IInv'
  BY <1>11, FinishKeeps DEF OpenError
<1>12. CASE UNCHANGED vars
  BY <1>12 DEF vars, IInv, TypeOK, Busy, Apart, Crafted, CraftedBy, Blank,
     Referenced, Locked, TornOnlyIfRobbed, Holds
<1> QED
  BY <1>1, <1>2, <1>3, <1>4, <1>5, <1>6, <1>7, <1>8, <1>9, <1>10, <1>11, <1>12
  DEF Next, Step, Fault

(* Until a lock is removed a rename publishes what its writer has made of  *)
(* its copy.                                                               *)
LEMMA RenamePublishes ==
    ASSUME IInv, ~robbed, NEW p \in Procs, Rename(p)
    PROVE  /\ Finish(p, "unwinding", TRUE)
           /\ Allowed(op[p], snap[p])
           /\ Visible' = Apply(op[p], snap[p])
<1>1. pc[p] = "renaming" /\ CraftedBy(p)
  BY DEF IInv, Crafted, Rename
<1>2. tmp = fd[p] /\ fd[p] \in Inodes /\ fd[p] # None
  BY <1>1, ConstantsAssumption DEF IInv, Locked, Busy, Holds, Writing
<1>3. table' = fd[p] /\ Finish(p, "unwinding", TRUE)
  BY <1>2 DEF Rename
<1>4. file[fd[p]] = [state |-> "whole", recs |-> Apply(op[p], snap[p])]
  BY <1>1 DEF CraftedBy
<1>5. file'[fd[p]] = file[fd[p]]
  BY <1>2, <1>3, ReapKeeps DEF Rename, Referenced, IInv
<1>6. Visible' = file'[table'].recs
  BY <1>2, <1>3, <1>4, <1>5 DEF Visible, View
<1>7. Visible' = Apply(op[p], snap[p])
  BY <1>3, <1>4, <1>5, <1>6
<1> QED
  BY <1>1, <1>3, <1>7 DEF CraftedBy

-----------------------------------------------------------------------------
(* What holds of every behaviour *)

LEMMA Invariance == Spec => []IInv
BY InitInvariant, NextKeeps, PTL DEF Spec

(* Every variable keeps its type through every update and every fault. *)
THEOREM TypeInvariance == Spec => []TypeOK
<1>1. IInv => TypeOK
  BY DEF IInv
<1> QED
  BY <1>1, Invariance, PTL

(* Readers never find a cut-short table unless a destructor has unlinked   *)
(* the lock of a live writer.                                              *)
THEOREM WholeUnlessRobbed == Spec => []TornOnlyIfRobbed
<1>1. IInv => TornOnlyIfRobbed
  BY DEF IInv
<1> QED
  BY <1>1, Invariance, PTL

(* Until that happens there is one writer at a time. *)
THEOREM OneWriter == Spec => []LockExclusive
<1>1. IInv => LockExclusive
  <2> SUFFICES ASSUME IInv, ~robbed, NEW p \in Procs, NEW q \in Procs,
                      Holds(p), Holds(q)
               PROVE  p = q
    BY DEF LockExclusive
  <2>1. tmp = fd[p] /\ tmp = fd[q] /\ fd[p] # None
    BY ConstantsAssumption DEF IInv, Locked, Busy
  <2> QED
    BY <2>1 DEF IInv, Apart
<1> QED
  BY <1>1, Invariance, PTL

LEMMA FrozenStep ==
    ASSUME IInv, [Next]_vars, table # None, table' = table,
           file[table].state = "whole"
    PROVE  file'[table] = file[table]
<1>1. CASE file' = file
  BY <1>1
<1>2. CASE Reap
  BY <1>2, ReapKeeps DEF IInv, TypeOK, Referenced
<1>3. ASSUME NEW p \in Procs, FlushBody(p) \/ FlushHeader(p)
      PROVE  file'[table] = file[table]
  <2>1. CraftedBy(p)
    BY DEF IInv, Crafted
  <2>2. file[fd[p]].state # "whole"
    BY <1>3, <2>1 DEF CraftedBy, FlushBody, FlushHeader
  <2>3. op[p] \in Ops /\ fd[p] \in Inodes
    BY <1>3 DEF IInv, Busy, Holds, Writing, FlushBody, FlushHeader
  <2>4. PICK state \in Progress : Write(p, state)
    BY <1>3 DEF FlushBody, FlushHeader, Progress
  <2> QED
    BY <2>2, <2>3, <2>4, WriteKeeps DEF IInv, TypeOK
<1>4. \/ file' = file \/ Reap
      \/ \E p \in Procs : FlushBody(p) \/ FlushHeader(p)
  BY DEF Next, vars, Step, Fault, Call, OpenTable, Leave, CreateTmp, Copy,
     Rename, Unlink, Return, WriteError, OpenError, Die
<1> QED
  BY <1>1, <1>2, <1>3, <1>4

(* A table that has been renamed into place is never written again. *)
THEOREM PublishedStaysFrozen == Spec => PublishedIsFrozen
<1> DEFINE Frozen ==
      table # None /\ table' = table /\ file[table].state = "whole"
        => file'[table] = file[table]
<1>1. IInv /\ [Next]_vars => [Frozen]_vars
  BY FrozenStep
<1> QED
  BY <1>1, Invariance, PTL DEF Spec, PublishedIsFrozen

(* A .tmp file that a dead process left ends all updates. *)
THEOREM OrphanLockStays == Spec => OrphanLockIsForever
<1> DEFINE Stays == OrphanLock => OrphanLock' /\ table' = table
<1>1. IInv /\ [Next]_vars => [Stays]_vars
  <2> SUFFICES ASSUME IInv, Next, OrphanLock
               PROVE  OrphanLock' /\ table' = table
    OBVIOUS
  <2> USE DEF OrphanLock, Goto, Holds, Writing, IInv, TypeOK
  <2>1. ASSUME NEW p \in Procs, NEW o \in Ops, Call(p, o)
        PROVE  OrphanLock' /\ table' = table
    BY <2>1 DEF Call
  <2>2. ASSUME NEW p \in Procs, OpenTable(p)
        PROVE  OrphanLock' /\ table' = table
    BY <2>2 DEF OpenTable, Leave, Finish
  <2>3. ASSUME NEW p \in Procs, CreateTmp(p) \/ OpenError(p)
        PROVE  OrphanLock' /\ table' = table
    BY <2>3 DEF CreateTmp, OpenError, Finish
  <2>4. ASSUME NEW p \in Procs, Return(p) \/ Die(p)
        PROVE  OrphanLock' /\ table' = table
    BY <2>4 DEF Return, Die, Leave
  <2>5. ASSUME NEW p \in Procs,
               Copy(p) \/ FlushBody(p) \/ FlushHeader(p) \/ Rename(p)
               \/ Unlink(p) \/ WriteError(p)
        PROVE  FALSE
    BY <2>5 DEF Copy, FlushBody, FlushHeader, Rename, Unlink, WriteError
  <2> QED
    BY <2>1, <2>2, <2>3, <2>4, <2>5 DEF Next, Step, Fault
<1> QED
  BY <1>1, Invariance, PTL DEF Spec, OrphanLockIsForever

(* Until a lock is removed, an update whose copy is current when it        *)
(* renames changes what it was asked to change and nothing else.           *)
THEOREM FreshUpdatesAreExact == Spec => FreshUpdateIsExact
<1> DEFINE Exact(p) ==
      (~robbed /\ pc[p] = "renaming" /\ pc'[p] = "unwinding" /\ res'[p]
       /\ snap[p] = Visible)
        => MakesChange(op[p], Visible, Visible')
<1> DEFINE AllExact == \A p \in Procs : Exact(p)
<1>1. IInv /\ [Next]_vars => [AllExact]_vars
  <2> SUFFICES ASSUME IInv, Next, NEW p \in Procs, ~robbed,
                      pc[p] = "renaming", pc'[p] = "unwinding", res'[p],
                      snap[p] = Visible
               PROVE  MakesChange(op[p], Visible, Visible')
    OBVIOUS
  <2>1. PICK q \in Procs : (\E o \in Ops : Call(q, o)) \/ Step(q) \/ Fault(q)
    BY DEF Next
  <2>2. q = p
    BY <2>1 DEF Step, Fault, Call, OpenTable, Leave, CreateTmp, Copy, FlushBody,
       FlushHeader, Rename, Unlink, Return, WriteError, OpenError, Die, Finish,
       Goto, IInv, TypeOK
  <2>3. Rename(p)
    BY <2>1, <2>2 DEF Step, Fault, Call, OpenTable, Leave, CreateTmp, Copy,
       FlushBody, FlushHeader, Unlink, Return, WriteError, OpenError, Die,
       Finish, Goto, IInv, TypeOK
  <2>4. Visible' = Apply(op[p], Visible) /\ Allowed(op[p], Visible)
    BY <2>3, RenamePublishes
  <2>5. op[p] \in Ops /\ Visible \in Contents
    BY DEF IInv, TypeOK, Busy
  <2> QED
    BY <2>4, <2>5 DEF MakesChange, Allowed, Apply, Ops, Contents
<1> QED
  BY <1>1, Invariance, PTL DEF Spec, FreshUpdateIsExact

-----------------------------------------------------------------------------
(* One process at a time implements the atomic map *)

Serial == (\A p, q \in Procs : p = q) /\ "io" \notin Faults

(* The copy of the one process there is is current until it renames. *)
Current ==
    ~robbed /\ \A p \in Procs : pc[p] = "creating" \/ Holds(p) => snap[p] = Visible

SInv == IInv /\ Current

Answer == [p \in Procs |-> IF pc[p] \in {"unwinding", "returned"}
                           THEN res[p] ELSE None]

(* Until it is renamed over, the table reads the same. *)
LEMMA SameTableSameView ==
    ASSUME IInv, ~robbed, [Next]_vars, table' = table
    PROVE  Visible' = Visible
<1>1. CASE table = None
  BY <1>1 DEF Visible, View, EmptyTable
<1>2. CASE table # None
  <2>1. file[table].state = "whole"
    BY <1>2 DEF IInv, TornOnlyIfRobbed
  <2>2. file'[table] = file[table]
    BY <1>2, <2>1, FrozenStep
  <2> QED
    BY <1>2, <2>1, <2>2 DEF Visible, View
<1> QED
  BY <1>1, <1>2

LEMMA SerialInit == Init => SInv
<1> SUFFICES ASSUME Init PROVE Current
  BY InitInvariant DEF SInv
<1> QED
  BY DEF Init, Current, Holds, Writing

LEMMA SerialKeeps ==
    ASSUME Serial, SInv, [Next]_vars
    PROVE  SInv'
<1>1. IInv' /\ IInv
  BY NextKeeps DEF SInv
<1>2. CASE UNCHANGED vars
  BY <1>1, <1>2 DEF SInv, Current, vars, Holds, Visible, View
<1>3. ASSUME NEW p \in Procs, (\E o \in Ops : Call(p, o)) \/ Step(p) \/ Fault(p)
      PROVE  Current'
  <2>1. \A q \in Procs : q = p
    BY DEF Serial
  <2>2. ~robbed'
    BY <1>1, <1>3, <2>1 DEF SInv, Current, Step, Fault, Call, OpenTable, Leave,
       CreateTmp, Copy, FlushBody, FlushHeader, Rename, Unlink, Return,
       WriteError, OpenError, Die, Holds, Writing
  <2>3. CASE OpenTable(p)
    <3>1. pc'[p] # "idle" => snap'[p] = Visible \/ pc'[p] = "returned"
      <4>1. ~Torn(table)
        BY <1>1 DEF SInv, Current, IInv, TornOnlyIfRobbed, Torn
      <4>2. \A recs \in Contents : MayRead(table, recs) => recs = Visible
        BY <4>1 DEF MayRead, Visible, View, Torn
      <4> QED
        BY <1>1, <2>3, <4>1, <4>2 DEF OpenTable, Finish, Goto, IInv, TypeOK
    <3>2. Visible' = Visible
      BY <1>1, <1>3, <2>3, SameTableSameView
      DEF SInv, Current, OpenTable, Leave, Next
    <3> QED
      BY <2>1, <2>2, <3>1, <3>2 DEF Current, Holds, Writing
  <2>4. CASE CreateTmp(p) \/ Copy(p) \/ FlushBody(p) \/ FlushHeader(p)
    <3>1. table' = table /\ snap' = snap
      BY <2>4 DEF CreateTmp, Copy, FlushBody, FlushHeader
    <3>2. Visible' = Visible
      BY <1>1, <1>3, <3>1, SameTableSameView DEF SInv, Current, Next
    <3>3. pc[p] = "creating" \/ Holds(p)
      BY <2>4 DEF CreateTmp, Copy, FlushBody, FlushHeader, Holds, Writing
    <3> QED
      BY <2>1, <2>2, <3>1, <3>2, <3>3 DEF SInv, Current
  <2>5. CASE \/ \E o \in Ops : Call(p, o)
             \/ Rename(p) \/ Unlink(p) \/ Return(p) \/ Fault(p)
    <3>1. pc'[p] \in {"idle", "opening", "unwinding", "returned"}
      BY <1>1, <2>5 DEF Call, Rename, Unlink, Return, Fault, WriteError,
         OpenError, Die, Leave, Finish, Goto, IInv, TypeOK
    <3> QED
      BY <2>1, <2>2, <3>1 DEF Current, Holds, Writing
  <2> QED
    BY <1>3, <2>3, <2>4, <2>5 DEF Step
<1> QED
  BY <1>1, <1>2, <1>3 DEF SInv, Next

(* How the answers the map has given follow the steps of a call. *)
LEMMA AnswerGiven ==
    ASSUME TypeOK, NEW p \in Procs, NEW ok \in BOOLEAN,
           NEW step \in {"unwinding", "returned"},
           pc[p] \notin {"unwinding", "returned"}, Finish(p, step, ok)
    PROVE  Answer[p] = None /\ Answer' = [Answer EXCEPT ![p] = ok]
BY DEF TypeOK, Answer, Finish, Goto

LEMMA AnswerKept ==
    ASSUME TypeOK, NEW p \in Procs, NEW step, Goto(p, step), res' = res,
           pc[p] \in {"unwinding", "returned"} <=> step \in {"unwinding", "returned"}
    PROVE  Answer' = Answer
BY DEF TypeOK, Answer, Goto

LEMMA AnswerTaken ==
    ASSUME TypeOK, NEW p \in Procs, Leave(p)
    PROVE  Answer' = [Answer EXCEPT ![p] = None]
BY DEF TypeOK, Answer, Leave, Goto

(* Leaving, refusing and working on a copy are steps of the map that leave *)
(* it as it is.                                                            *)
LEMMA LeaveImplements ==
    ASSUME IInv, ~robbed, NEW p \in Procs, pc[p] # "idle", Leave(p), Next
    PROVE  Map!Leave(p)
<1>1. Visible' = Visible
  BY SameTableSameView DEF Leave
<1>2. Answer' = [Answer EXCEPT ![p] = None]
  BY AnswerTaken DEF IInv
<1>3. op[p] # None
  BY ConstantsAssumption DEF IInv, Busy, Ops
<1> QED
  BY <1>1, <1>2, <1>3 DEF Map!Leave, Answer, Leave

LEMMA RefuseImplements ==
    ASSUME IInv, ~robbed, NEW p \in Procs, Next,
           pc[p] \notin {"idle", "unwinding", "returned"},
           NEW step \in {"unwinding", "returned"}, Finish(p, step, FALSE),
           table' = table, op' = op
    PROVE  Map!Refuse(p)
<1>1. Visible' = Visible
  BY SameTableSameView
<1>2. Answer[p] = None /\ Answer' = [Answer EXCEPT ![p] = FALSE]
  BY AnswerGiven DEF IInv
<1>3. op[p] # None
  BY ConstantsAssumption DEF IInv, Busy, Ops
<1> QED
  BY <1>1, <1>2, <1>3 DEF Map!Refuse, Map!Reply, Map!Pending, Answer

LEMMA WorkStutters ==
    ASSUME IInv, ~robbed, NEW p \in Procs, Next, NEW step, Goto(p, step),
           pc[p] \in {"unwinding", "returned"} <=> step \in {"unwinding", "returned"},
           table' = table, op' = op, res' = res
    PROVE  UNCHANGED Map!vars
<1>1. Visible' = Visible
  BY SameTableSameView
<1>2. Answer' = Answer
  BY AnswerKept DEF IInv
<1> QED
  BY <1>1, <1>2 DEF Map!vars, Answer

(* The rename is the step at which the update happens. *)
LEMMA RenameImplements ==
    ASSUME Serial, SInv, NEW p \in Procs, Next, Rename(p)
    PROVE  Map!Add(p) \/ Map!Set(p) \/ Map!Del(p)
<1>1. /\ IInv /\ ~robbed /\ pc[p] = "renaming"
      /\ snap[p] = Visible /\ op[p] \in Ops
  BY DEF SInv, Current, Rename, Holds, Writing, IInv, Busy
<1>2. Finish(p, "unwinding", TRUE) /\ op' = op
  BY <1>1, RenamePublishes DEF Rename
<1>3. Allowed(op[p], Visible) /\ Visible' = Apply(op[p], Visible)
  BY <1>1, RenamePublishes
<1>4. Map!Reply(p, TRUE)
  <2>1. Answer[p] = None /\ Answer' = [Answer EXCEPT ![p] = TRUE]
    BY <1>1, <1>2, AnswerGiven DEF IInv
  <2>2. op[p] # None
    BY <1>1, ConstantsAssumption DEF Ops
  <2> QED
    BY <1>2, <2>1, <2>2 DEF Map!Reply, Map!Pending, Answer
<1>5. CASE op[p].kind = "add"
  BY <1>3, <1>4, <1>5 DEF Map!Add, Allowed, Apply
<1>6. CASE op[p].kind = "set"
  BY <1>3, <1>4, <1>6 DEF Map!Set, Allowed, Apply
<1>7. CASE op[p].kind = "del"
  BY <1>3, <1>4, <1>7 DEF Map!Del, Apply
<1>8. op[p].kind \in {"add", "set", "del"}
  BY <1>1 DEF Ops
<1> QED
  BY <1>5, <1>6, <1>7, <1>8

(* Every other step leaves the map as it is. *)
LEMMA StepImplements ==
    ASSUME Serial, SInv, NEW p \in Procs, Next, Step(p) \/ Fault(p)
    PROVE  Map!Next \/ UNCHANGED Map!vars
<1>1. IInv /\ ~robbed
  BY DEF SInv, Current
<1>2. (Map!Leave(p) \/ Map!Refuse(p) \/ Map!Add(p) \/ Map!Set(p) \/ Map!Del(p))
        => Map!Next
  BY DEF Map!Next
<1>3. CASE OpenTable(p)
  <2>1. CASE Leave(p)
    BY <1>1, <1>2, <1>3, <2>1, LeaveImplements DEF OpenTable
  <2>2. CASE Finish(p, "returned", FALSE) /\ UNCHANGED <<table, op>>
    BY <1>1, <1>2, <1>3, <2>2, RefuseImplements DEF OpenTable
  <2>3. CASE Goto(p, "creating") /\ UNCHANGED <<table, op, res>>
    BY <1>1, <1>3, <2>3, WorkStutters DEF OpenTable
  <2> QED
    BY <1>3, <2>1, <2>2, <2>3 DEF OpenTable
<1>4. CASE CreateTmp(p)
  <2>1. CASE Finish(p, "returned", FALSE)
    BY <1>1, <1>2, <1>4, <2>1, RefuseImplements DEF CreateTmp
  <2>2. CASE Goto(p, "copying") /\ res' = res
    BY <1>1, <1>4, <2>2, WorkStutters DEF CreateTmp
  <2> QED
    BY <1>4, <2>1, <2>2 DEF CreateTmp
<1>5. CASE Copy(p)
  <2>1. CASE Finish(p, "unwinding", FALSE)
    BY <1>1, <1>2, <1>5, <2>1, RefuseImplements DEF Copy
  <2>2. CASE Goto(p, "ending") /\ res' = res
    BY <1>1, <1>5, <2>2, WorkStutters DEF Copy
  <2> QED
    BY <1>5, <2>1, <2>2 DEF Copy
<1>6. CASE FlushBody(p)
  BY <1>1, <1>6, WorkStutters DEF FlushBody
<1>7. CASE FlushHeader(p)
  BY <1>1, <1>7, WorkStutters DEF FlushHeader
<1>8. CASE Rename(p)
  BY <1>2, <1>8, RenameImplements
<1>9. CASE Unlink(p)
  BY <1>1, <1>9, WorkStutters DEF Unlink
<1>10. CASE Return(p) \/ Die(p)
  BY <1>1, <1>2, <1>10, LeaveImplements DEF Return, Die
<1>11. ~WriteError(p) /\ ~OpenError(p)
  BY DEF Serial, WriteError, OpenError
<1> QED
  BY <1>3, <1>4, <1>5, <1>6, <1>7, <1>8, <1>9, <1>10, <1>11 DEF Step, Fault

LEMMA CallImplements ==
    ASSUME IInv, ~robbed, NEW p \in Procs, NEW o \in Ops, Next, Call(p, o)
    PROVE  Map!Next
<1>1. Visible' = Visible
  BY SameTableSameView DEF Call
<1>2. Answer' = Answer
  BY AnswerKept DEF IInv, Call
<1>3. op[p] = None
  BY DEF IInv, Busy, Call
<1>4. Map!Invoke(p, o)
  BY <1>1, <1>2, <1>3 DEF Map!Invoke, Call, Answer
<1>5. o \in Map!Ops
  BY DEF Map!Ops, Ops
<1> QED
  BY <1>4, <1>5 DEF Map!Next

LEMMA InitImplements == Init => Map!Init
<1> SUFFICES ASSUME Init PROVE Map!Init
  OBVIOUS
<1>1. Visible = [n \in Names |-> Absent]
  BY DEF Init, Visible, View, EmptyTable
<1>2. Answer = [p \in Procs |-> None]
  BY DEF Init, Answer
<1> QED
  BY <1>1, <1>2 DEF Map!Init, Init, Answer

LEMMA NextImplements ==
    ASSUME Serial, SInv, [Next]_vars
    PROVE  [Map!Next]_(Map!vars)
<1>1. CASE Next
  <2>1. PICK p \in Procs : (\E o \in Ops : Call(p, o)) \/ Step(p) \/ Fault(p)
    BY <1>1 DEF Next
  <2>2. CASE \E o \in Ops : Call(p, o)
    BY <1>1, <2>2, CallImplements DEF SInv, Current
  <2>3. CASE Step(p) \/ Fault(p)
    BY <1>1, <2>3, StepImplements
  <2> QED
    BY <2>1, <2>2, <2>3
<1>2. CASE UNCHANGED vars
  BY <1>2 DEF vars, Map!vars, Visible, View
<1> QED
  BY <1>1, <1>2

(* One process at a time, whose writes do not fail, sees put and del act   *)
(* in one step and answer truly, wherever it may be killed.                *)
THEOREM SerialMap ==
    ASSUME Serial
    PROVE  Spec => AtomicMap
<1>1. Init => SInv /\ Map!Init
  BY SerialInit, InitImplements
<1>2. SInv /\ [Next]_vars => SInv' /\ [Map!Next]_(Map!vars)
  BY SerialKeeps, NextImplements
<1> QED
  BY <1>1, <1>2, PTL DEF Spec, AtomicMap, Map!Spec

=============================================================================
