--------------------------- MODULE VDeliverProofs ---------------------------
(***************************************************************************)
(* Theorems about delivery, for any messages, file names, number of tries  *)
(* and faults: what is in new is whole, what is reported delivered was     *)
(* delivered, and no message replaces another.                             *)
(***************************************************************************)
EXTENDS VDeliver, TLAPS

-----------------------------------------------------------------------------
(* The inductive invariant *)

(* A vdeliver works for a message that is queued; it has an entry once it  *)
(* has looked one up, and for a mailbox the name of a file once it has     *)
(* created one.                                                            *)
AtHand ==
    \A m \in Msgs :
        /\ stage[m] # "idle" => status[m] = "queued"
        /\ stage[m] \notin {"idle", "lookup"} => ent[m] \in Entries
        /\ stage[m] \in {"checking", "naming", "sleeping", "writing", "syncing",
                         "linking", "unlinking"} => ent[m].mailbox
        /\ \/ stage[m] \in {"writing", "syncing", "linking", "unlinking"}
           \/ stage[m] = "forwarding" /\ ent[m].mailbox
           => name[m] \in Files
        /\ stage[m] \in {"idle", "lookup", "predeliver", "checking", "naming",
                         "sleeping"} => name[m] = None

(* Two that run have different files. *)
NamesApart ==
    \A m, q \in Msgs : name[m] # None /\ name[m] = name[q] => m = q

(* From the forwarding on, the file is on the disk if it is there at all.  *)
SyncedFirst ==
    \A m \in Msgs : \A f \in Files :
        stage[m] \in {"forwarding", "linking"} /\ name[m] = f
        => tmp[f] = None \/ tmp[f].state = "synced"

(* What has been done by the time the postdeliver script is run. *)
DoneSoFar ==
    \A m \in Msgs :
        /\ stage[m] \in {"linking", "unlinking", "postdeliver"} /\ ent[m].forwards
           => copies[m] > 0
        /\ stage[m] \in {"unlinking", "postdeliver"} /\ ent[m].mailbox
           => arrived[m] > 0

(* A try makes one copy and one file at most. *)
OncePerTry ==
    \A m \in Msgs :
        /\ copies[m] <= tries[m] /\ arrived[m] <= tries[m]
        /\ stage[m] \notin {"idle", "linking", "unlinking", "postdeliver"}
           => copies[m] < tries[m]
        /\ stage[m] \notin {"idle", "unlinking", "postdeliver"}
           => arrived[m] < tries[m]

IInv == /\ TypeOK
        /\ AtHand
        /\ NamesApart
        /\ SyncedFirst
        /\ NewIsWhole
        /\ DoneSoFar
        /\ DoneIsDelivered
        /\ OncePerTry

LEMMA InitInvariant == Init => IInv
<1> SUFFICES ASSUME Init PROVE IInv
  OBVIOUS
<1>1. TypeOK
  BY DeliverAssumption DEF Init, TypeOK, Stages
<1>2. AtHand /\ DoneSoFar /\ OncePerTry
  BY DEF Init, AtHand, DoneSoFar, OncePerTry
<1>3. NamesApart /\ SyncedFirst
  BY DEF Init, NamesApart, SyncedFirst
<1>4. NewIsWhole /\ DoneIsDelivered
  BY DEF Init, NewIsWhole, DoneIsDelivered
<1> QED
  BY <1>1, <1>2, <1>3, <1>4 DEF IInv

-----------------------------------------------------------------------------
(* Every step keeps it *)

(* The end of an attempt, by whatever exit code, keeps the invariant: it   *)
(* may take its file out of tmp and may have queued one copy more, and the *)
(* code is 0 only after all that had to be done.                           *)
LEMMA ExitKeeps ==
    ASSUME IInv, NEW m \in Msgs, stage[m] # "idle",
           NEW code \in {0, 99, 100, 111}, Exit(m, code),
           code = 0 => stage[m] = "postdeliver",
           \/ UNCHANGED tmp
           \/ tmp' = [f \in Files |-> IF f = name[m] THEN None ELSE tmp[f]],
           \/ UNCHANGED copies
           \/ /\ stage[m] = "forwarding"
              /\ copies' = [copies EXCEPT ![m] = @ + 1],
           UNCHANGED <<account, new, arrived>>
    PROVE  IInv'
<1> USE DEF Exit, Goto, account
<1>1. /\ status' = [status EXCEPT ![m] = Verdict(code)]
      /\ Verdict(code) \in {"queued", "done", "skipped", "bounced"}
      /\ Verdict(code) = "done" <=> code = 0
  BY DEF Verdict
<1>2. TypeOK'
  BY <1>1, DeliverAssumption DEF IInv, TypeOK, Stages, OncePerTry
<1>3. AtHand' /\ NamesApart'
  BY <1>1, DeliverAssumption DEF IInv, TypeOK, AtHand, NamesApart
<1>4. SyncedFirst' /\ NewIsWhole'
  BY DeliverAssumption DEF IInv, TypeOK, SyncedFirst, NewIsWhole
<1>5. OncePerTry'
  BY DEF IInv, TypeOK, OncePerTry
<1>6. \A q \in Msgs : q # m => /\ stage'[q] = stage[q] /\ ent'[q] = ent[q]
                              /\ status'[q] = status[q]
                              /\ copies'[q] = copies[q] /\ arrived'[q] = arrived[q]
  BY <1>1 DEF IInv, TypeOK
<1>7. /\ stage'[m] = "idle" /\ status'[m] = Verdict(code)
      /\ code = 0 => ent'[m] = ent[m] /\ copies'[m] = copies[m] /\ arrived'[m] = arrived[m]
  BY <1>1 DEF IInv, TypeOK
<1>8. DoneSoFar'
  BY <1>6, <1>7 DEF IInv, DoneSoFar
<1>9. DoneIsDelivered'
  BY <1>1, <1>6, <1>7 DEF IInv, DoneSoFar, DoneIsDelivered
<1> QED
  BY <1>2, <1>3, <1>4, <1>5, <1>8, <1>9 DEF IInv

(* The steps of a vdeliver that goes on. *)
LEMMA StepKeeps ==
    ASSUME IInv, NEW m \in Msgs, Step(m)
    PROVE  IInv'
<1> USE DEF Goto, Continue, account, counts
<1>1. CASE Lookup(m)
  <2> DEFINE found == IF acct # None THEN acct ELSE Default
  <2>1. CASE Exit(m, 100)
    BY <1>1, <2>1, ExitKeeps DEF Lookup
  <2>2. CASE /\ found # None
             /\ Goto(m, "predeliver")
             /\ ent' = [ent EXCEPT ![m] = found]
             /\ UNCHANGED <<status, tries, name>>
    <3>1. TypeOK'
      BY <1>1, <2>2, DeliverAssumption DEF Lookup, Entries, IInv, TypeOK, Stages, OncePerTry
    <3>2. AtHand' /\ NamesApart'
      BY <1>1, <2>2, DeliverAssumption DEF Lookup, Entries, IInv, TypeOK, AtHand, NamesApart
    <3>3. SyncedFirst' /\ NewIsWhole'
      BY <1>1, <2>2, DeliverAssumption DEF Lookup, Entries, IInv, TypeOK, AtHand, NamesApart,
         SyncedFirst, NewIsWhole
    <3>4. DoneSoFar' /\ DoneIsDelivered'
      BY <1>1, <2>2, DeliverAssumption DEF Lookup, Entries, IInv, TypeOK, AtHand, DoneSoFar, DoneIsDelivered
    <3>5. OncePerTry'
      BY <1>1, <2>2, DeliverAssumption DEF Lookup, Entries, IInv, TypeOK, OncePerTry
    <3> QED
      BY <3>1, <3>2, <3>3, <3>4, <3>5 DEF IInv
  <2> QED
    BY <1>1, <2>1, <2>2 DEF Lookup
<1>2. CASE PreDeliver(m)
  <2>1. PICK r \in ScriptResults :
          IF r # 0 THEN Exit(m, r)
          ELSE Continue(m, IF ent[m].mailbox THEN "checking" ELSE "forwarding")
    BY <1>2 DEF PreDeliver
  <2>2. CASE r # 0
    BY <1>2, <2>1, <2>2, ExitKeeps DEF PreDeliver, ScriptResults
  <2>3. CASE r = 0
    <3>1. TypeOK'
      BY <1>2, <2>1, <2>3, DeliverAssumption DEF PreDeliver, IInv, TypeOK, Stages, OncePerTry
    <3>2. AtHand' /\ NamesApart'
      BY <1>2, <2>1, <2>3, DeliverAssumption DEF PreDeliver, IInv, TypeOK, AtHand, NamesApart
    <3>3. SyncedFirst' /\ NewIsWhole'
      BY <1>2, <2>1, <2>3, DeliverAssumption DEF PreDeliver, IInv, TypeOK, AtHand, NamesApart,
         SyncedFirst, NewIsWhole
    <3>4. DoneSoFar' /\ DoneIsDelivered'
      BY <1>2, <2>1, <2>3, DeliverAssumption DEF PreDeliver, IInv, TypeOK, AtHand, DoneSoFar, DoneIsDelivered
    <3>5. OncePerTry'
      BY <1>2, <2>1, <2>3, DeliverAssumption DEF PreDeliver, IInv, TypeOK, OncePerTry
    <3> QED
      BY <3>1, <3>2, <3>3, <3>4, <3>5 DEF IInv
  <2> QED
    BY <2>2, <2>3
<1>3. CASE CheckMaildir(m)
  <2>1. CASE ~maildir
    BY <1>3, <2>1, ExitKeeps DEF CheckMaildir
  <2>2. CASE maildir
    <3>1. TypeOK'
      BY <1>3, <2>2, DeliverAssumption DEF CheckMaildir, IInv, TypeOK, Stages, OncePerTry
    <3>2. AtHand' /\ NamesApart'
      BY <1>3, <2>2, DeliverAssumption DEF CheckMaildir, IInv, TypeOK, AtHand, NamesApart
    <3>3. SyncedFirst' /\ NewIsWhole'
      BY <1>3, <2>2, DeliverAssumption DEF CheckMaildir, IInv, TypeOK, AtHand, NamesApart,
         SyncedFirst, NewIsWhole
    <3>4. DoneSoFar' /\ DoneIsDelivered'
      BY <1>3, <2>2, DeliverAssumption DEF CheckMaildir, IInv, TypeOK, AtHand, DoneSoFar, DoneIsDelivered
    <3>5. OncePerTry'
      BY <1>3, <2>2, DeliverAssumption DEF CheckMaildir, IInv, TypeOK, OncePerTry
    <3> QED
      BY <3>1, <3>2, <3>3, <3>4, <3>5 DEF IInv
  <2> QED
    BY <2>1, <2>2
<1>4. CASE Create(m)
  <2>0. PICK f \in Choices(m) :
          /\ tmp[f] = None
          /\ tmp' = [tmp EXCEPT ![f] = [msg |-> m, state |-> "empty"]]
          /\ name' = [name EXCEPT ![m] = f]
    BY <1>4 DEF Create
  <2>1. TypeOK'
    BY <1>4, <2>0, DeliverAssumption DEF Create, Choices, Contents, IInv, TypeOK, Stages, OncePerTry
  <2>2. AtHand' /\ NamesApart'
    BY <1>4, <2>0, DeliverAssumption DEF Create, Choices, Contents, IInv, TypeOK, AtHand, NamesApart
  <2>3. SyncedFirst' /\ NewIsWhole'
    BY <1>4, <2>0, DeliverAssumption DEF Create, Choices, Contents, IInv, TypeOK, AtHand, NamesApart,
         SyncedFirst, NewIsWhole
  <2>4. DoneSoFar' /\ DoneIsDelivered'
    BY <1>4, <2>0, DeliverAssumption DEF Create, Choices, Contents, IInv, TypeOK, AtHand, DoneSoFar, DoneIsDelivered
  <2>5. OncePerTry'
    BY <1>4, <2>0, DeliverAssumption DEF Create, Choices, Contents, IInv, TypeOK, OncePerTry
  <2> QED
    BY <2>1, <2>2, <2>3, <2>4, <2>5 DEF IInv
<1>5. CASE Collide(m)
  <2>1. TypeOK'
    BY <1>5, DeliverAssumption DEF Collide, IInv, TypeOK, Stages, OncePerTry
  <2>2. AtHand' /\ NamesApart'
    BY <1>5, DeliverAssumption DEF Collide, IInv, TypeOK, AtHand, NamesApart
  <2>3. SyncedFirst' /\ NewIsWhole'
    BY <1>5, DeliverAssumption DEF Collide, IInv, TypeOK, AtHand, NamesApart,
         SyncedFirst, NewIsWhole
  <2>4. DoneSoFar' /\ DoneIsDelivered'
    BY <1>5, DeliverAssumption DEF Collide, IInv, TypeOK, AtHand, DoneSoFar, DoneIsDelivered
  <2>5. OncePerTry'
    BY <1>5, DeliverAssumption DEF Collide, IInv, TypeOK, OncePerTry
  <2> QED
    BY <2>1, <2>2, <2>3, <2>4, <2>5 DEF IInv
<1>6. CASE Wake(m)
  <2>1. TypeOK'
    BY <1>6, DeliverAssumption DEF Wake, IInv, TypeOK, Stages, OncePerTry
  <2>2. AtHand' /\ NamesApart'
    BY <1>6, DeliverAssumption DEF Wake, IInv, TypeOK, AtHand, NamesApart
  <2>3. SyncedFirst' /\ NewIsWhole'
    BY <1>6, DeliverAssumption DEF Wake, IInv, TypeOK, AtHand, NamesApart,
         SyncedFirst, NewIsWhole
  <2>4. DoneSoFar' /\ DoneIsDelivered'
    BY <1>6, DeliverAssumption DEF Wake, IInv, TypeOK, AtHand, DoneSoFar, DoneIsDelivered
  <2>5. OncePerTry'
    BY <1>6, DeliverAssumption DEF Wake, IInv, TypeOK, OncePerTry
  <2> QED
    BY <2>1, <2>2, <2>3, <2>4, <2>5 DEF IInv
<1>7. CASE Write(m)
  <2>1. TypeOK'
    BY <1>7, DeliverAssumption DEF Write, SetTmp, Contents, IInv, TypeOK, Stages, OncePerTry
  <2>2. AtHand' /\ NamesApart'
    BY <1>7, DeliverAssumption DEF Write, SetTmp, Contents, IInv, TypeOK, AtHand, NamesApart
  <2>3. SyncedFirst' /\ NewIsWhole'
    BY <1>7, DeliverAssumption DEF Write, SetTmp, Contents, IInv, TypeOK, AtHand, NamesApart,
         SyncedFirst, NewIsWhole
  <2>4. DoneSoFar' /\ DoneIsDelivered'
    BY <1>7, DeliverAssumption DEF Write, SetTmp, Contents, IInv, TypeOK, AtHand, DoneSoFar, DoneIsDelivered
  <2>5. OncePerTry'
    BY <1>7, DeliverAssumption DEF Write, SetTmp, Contents, IInv, TypeOK, OncePerTry
  <2> QED
    BY <2>1, <2>2, <2>3, <2>4, <2>5 DEF IInv
<1>8. CASE Sync(m)
  <2>1. TypeOK'
    BY <1>8, DeliverAssumption DEF Sync, SetTmp, Contents, IInv, TypeOK, Stages, OncePerTry
  <2>2. AtHand' /\ NamesApart'
    BY <1>8, DeliverAssumption DEF Sync, SetTmp, Contents, IInv, TypeOK, AtHand, NamesApart
  <2>3. SyncedFirst' /\ NewIsWhole'
    BY <1>8, DeliverAssumption DEF Sync, SetTmp, Contents, IInv, TypeOK, AtHand, NamesApart,
         SyncedFirst, NewIsWhole
  <2>4. DoneSoFar' /\ DoneIsDelivered'
    BY <1>8, DeliverAssumption DEF Sync, SetTmp, Contents, IInv, TypeOK, AtHand, DoneSoFar, DoneIsDelivered
  <2>5. OncePerTry'
    BY <1>8, DeliverAssumption DEF Sync, SetTmp, Contents, IInv, TypeOK, OncePerTry
  <2> QED
    BY <2>1, <2>2, <2>3, <2>4, <2>5 DEF IInv
<1>9. CASE Forward(m)
  <2>1. TypeOK'
    BY <1>9, DeliverAssumption DEF Forward, IInv, TypeOK, Stages, OncePerTry
  <2>2. AtHand' /\ NamesApart'
    BY <1>9, DeliverAssumption DEF Forward, IInv, TypeOK, AtHand, NamesApart
  <2>3. SyncedFirst' /\ NewIsWhole'
    BY <1>9, DeliverAssumption DEF Forward, IInv, TypeOK, AtHand, NamesApart,
         SyncedFirst, NewIsWhole
  <2>4. DoneSoFar' /\ DoneIsDelivered'
    BY <1>9, DeliverAssumption DEF Forward, IInv, TypeOK, AtHand, DoneSoFar, DoneIsDelivered
  <2>5. OncePerTry'
    BY <1>9, DeliverAssumption DEF Forward, IInv, TypeOK, OncePerTry
  <2> QED
    BY <2>1, <2>2, <2>3, <2>4, <2>5 DEF IInv
<1>10. CASE Link(m)
  <2>1. CASE ~(tmp[name[m]] # None /\ new[name[m]] = None)
    BY <1>10, <2>1, ExitKeeps DEF Link, DeliverFail
  <2>2. CASE tmp[name[m]] # None /\ new[name[m]] = None
    <3>1. TypeOK'
      BY <1>10, <2>2, DeliverAssumption DEF Link, IInv, TypeOK, Stages, OncePerTry
    <3>2. AtHand' /\ NamesApart'
      BY <1>10, <2>2, DeliverAssumption DEF Link, IInv, TypeOK, AtHand, NamesApart
    <3>3. SyncedFirst' /\ NewIsWhole'
      BY <1>10, <2>2, DeliverAssumption DEF Link, IInv, TypeOK, AtHand, NamesApart,
         SyncedFirst, NewIsWhole
    <3>4. DoneSoFar' /\ DoneIsDelivered'
      BY <1>10, <2>2, DeliverAssumption DEF Link, IInv, TypeOK, AtHand, DoneSoFar, DoneIsDelivered
    <3>5. OncePerTry'
      BY <1>10, <2>2, DeliverAssumption DEF Link, IInv, TypeOK, OncePerTry
    <3> QED
      BY <3>1, <3>2, <3>3, <3>4, <3>5 DEF IInv
  <2> QED
    BY <2>1, <2>2
<1>11. CASE Unlink(m)
  <2>1. CASE tmp[name[m]] = None
    BY <1>11, <2>1, ExitKeeps DEF Unlink, DeliverFail
  <2>2. CASE tmp[name[m]] # None
    <3>1. TypeOK'
      BY <1>11, <2>2, DeliverAssumption DEF Unlink, IInv, TypeOK, Stages, OncePerTry
    <3>2. AtHand' /\ NamesApart'
      BY <1>11, <2>2, DeliverAssumption DEF Unlink, IInv, TypeOK, AtHand, NamesApart
    <3>3. SyncedFirst' /\ NewIsWhole'
      BY <1>11, <2>2, DeliverAssumption DEF Unlink, IInv, TypeOK, AtHand, NamesApart,
         SyncedFirst, NewIsWhole
    <3>4. DoneSoFar' /\ DoneIsDelivered'
      BY <1>11, <2>2, DeliverAssumption DEF Unlink, IInv, TypeOK, AtHand, DoneSoFar, DoneIsDelivered
    <3>5. OncePerTry'
      BY <1>11, <2>2, DeliverAssumption DEF Unlink, IInv, TypeOK, OncePerTry
    <3> QED
      BY <3>1, <3>2, <3>3, <3>4, <3>5 DEF IInv
  <2> QED
    BY <2>1, <2>2
<1>12. CASE PostDeliver(m)
  BY <1>12, ExitKeeps DEF PostDeliver, ScriptResults
<1> QED
  BY <1>1, <1>2, <1>3, <1>4, <1>5, <1>6, <1>7, <1>8, <1>9, <1>10, <1>11, <1>12 DEF Step

(* A try that fails ends it. *)
LEMMA ErrorKeeps ==
    ASSUME IInv, NEW m \in Msgs,
           WriteError(m) \/ ForwardError(m) \/ FinalError(m) \/ Kill(m)
    PROVE  IInv'
<1>1. CASE WriteError(m)
  <2>1. PICK code \in {100, 111} : Exit(m, code)
    BY <1>1 DEF WriteError
  <2> QED
    BY <1>1, <2>1, ExitKeeps DEF WriteError, counts
<1>2. CASE ForwardError(m)
  <2>1. PICK queued \in {0, 1} : copies' = [copies EXCEPT ![m] = @ + queued]
    BY <1>2 DEF ForwardError
  <2>2. queued = 0 => UNCHANGED copies
    BY <2>1 DEF IInv, TypeOK
  <2>3. queued = 1 => copies' = [copies EXCEPT ![m] = @ + 1]
    BY <2>1
  <2>4. Exit(m, 111)
    BY <1>2 DEF ForwardError, DeliverFail
  <2>5. /\ stage[m] = "forwarding"
        /\ tmp' = [f \in Files |-> IF f = name[m] THEN None ELSE tmp[f]]
        /\ UNCHANGED <<account, new, arrived>>
    BY <1>2 DEF ForwardError, DeliverFail
  <2>6. \/ UNCHANGED copies
        \/ stage[m] = "forwarding" /\ copies' = [copies EXCEPT ![m] = @ + 1]
    BY <2>1, <2>2, <2>3, <2>5
  <2> QED
    BY <2>4, <2>5, <2>6, ExitKeeps
<1>3. CASE FinalError(m)
  BY <1>3, ExitKeeps DEF FinalError, DeliverFail, counts
<1>4. CASE Kill(m)
  BY <1>4, ExitKeeps DEF Kill, counts
<1> QED
  BY <1>1, <1>2, <1>3, <1>4

LEMMA NextKeeps ==
    ASSUME IInv, [Next]_vars
    PROVE  IInv'
<1> USE DEF account, counts
<1>1. ASSUME NEW m \in Msgs, Start(m) PROVE IInv'
  <2>1. TypeOK'
    BY <1>1, DeliverAssumption DEF Start, Goto, IInv, TypeOK, Stages, OncePerTry
  <2>2. AtHand' /\ NamesApart'
    BY <1>1, DeliverAssumption DEF Start, Goto, IInv, TypeOK, AtHand, NamesApart
  <2>3. SyncedFirst' /\ NewIsWhole'
    BY <1>1, DeliverAssumption DEF Start, Goto, IInv, TypeOK, AtHand, NamesApart,
      SyncedFirst, NewIsWhole
  <2>4. DoneSoFar' /\ DoneIsDelivered'
    BY <1>1, DeliverAssumption DEF Start, Goto, IInv, TypeOK, AtHand, DoneSoFar, DoneIsDelivered
  <2>5. OncePerTry'
    BY <1>1, DeliverAssumption DEF Start, Goto, IInv, TypeOK, OncePerTry
  <2> QED
    BY <2>1, <2>2, <2>3, <2>4, <2>5 DEF IInv
<1>2. ASSUME NEW m \in Msgs, Step(m) PROVE IInv'
  BY <1>2, StepKeeps
<1>3. ASSUME NEW m \in Msgs,
             WriteError(m) \/ ForwardError(m) \/ FinalError(m) \/ Kill(m)
      PROVE  IInv'
  BY <1>3, ErrorKeeps
<1>4. CASE PowerLoss
  <2>1. TypeOK'
    BY <1>4, DeliverAssumption DEF PowerLoss, Contents, Entries, IInv, TypeOK, Stages, OncePerTry
  <2>2. AtHand' /\ NamesApart'
    BY <1>4, DeliverAssumption DEF PowerLoss, Contents, Entries, IInv, TypeOK, AtHand, NamesApart
  <2>3. SyncedFirst' /\ NewIsWhole'
    BY <1>4, DeliverAssumption DEF PowerLoss, Contents, Entries, IInv, TypeOK, AtHand, NamesApart,
      SyncedFirst, NewIsWhole
  <2>4. DoneSoFar' /\ DoneIsDelivered'
    BY <1>4, DeliverAssumption DEF PowerLoss, Contents, Entries, IInv, TypeOK, AtHand, DoneSoFar, DoneIsDelivered
  <2>5. OncePerTry'
    BY <1>4, DeliverAssumption DEF PowerLoss, Contents, Entries, IInv, TypeOK, OncePerTry
  <2> QED
    BY <2>1, <2>2, <2>3, <2>4, <2>5 DEF IInv
<1>5. ASSUME NEW f \in Files, Collect(f) PROVE IInv'
  <2>1. TypeOK'
    BY <1>5, DeliverAssumption DEF Collect, IInv, TypeOK, Stages, OncePerTry
  <2>2. AtHand' /\ NamesApart'
    BY <1>5, DeliverAssumption DEF Collect, IInv, TypeOK, AtHand, NamesApart
  <2>3. SyncedFirst' /\ NewIsWhole'
    BY <1>5, DeliverAssumption DEF Collect, IInv, TypeOK, AtHand, NamesApart,
      SyncedFirst, NewIsWhole
  <2>4. DoneSoFar' /\ DoneIsDelivered'
    BY <1>5, DeliverAssumption DEF Collect, IInv, TypeOK, AtHand, DoneSoFar, DoneIsDelivered
  <2>5. OncePerTry'
    BY <1>5, DeliverAssumption DEF Collect, IInv, TypeOK, OncePerTry
  <2> QED
    BY <2>1, <2>2, <2>3, <2>4, <2>5 DEF IInv
<1>6. CASE AccountChange
  <2>1. TypeOK'
    <3>1. acct' \in Entries \cup {None} /\ maildir' \in BOOLEAN
      BY <1>6 DEF AccountChange, IInv, TypeOK
    <3>2. tmp' \in [Files -> Contents \cup {None}] /\ new' \in [Files -> Contents \cup {None}]
      BY <1>6 DEF AccountChange, IInv, TypeOK
    <3> QED
      BY <1>6, <3>1, <3>2 DEF AccountChange, IInv, TypeOK
  <2>2. AtHand' /\ NamesApart'
    BY <1>6, DeliverAssumption DEF AccountChange, IInv, TypeOK, AtHand, NamesApart
  <2>3. SyncedFirst' /\ NewIsWhole'
    BY <1>6, DeliverAssumption DEF AccountChange, IInv, TypeOK, AtHand, NamesApart,
      SyncedFirst, NewIsWhole
  <2>4. DoneSoFar' /\ DoneIsDelivered'
    BY <1>6, DeliverAssumption DEF AccountChange, IInv, TypeOK, AtHand, DoneSoFar, DoneIsDelivered
  <2>5. OncePerTry'
    BY <1>6, DeliverAssumption DEF AccountChange, IInv, TypeOK, OncePerTry
  <2> QED
    BY <2>1, <2>2, <2>3, <2>4, <2>5 DEF IInv
<1>7. CASE UNCHANGED vars
  <2>1. TypeOK'
    BY <1>7, DeliverAssumption DEF vars, IInv, TypeOK, Stages, OncePerTry
  <2>2. AtHand' /\ NamesApart'
    BY <1>7, DeliverAssumption DEF vars, IInv, TypeOK, AtHand, NamesApart
  <2>3. SyncedFirst' /\ NewIsWhole'
    BY <1>7, DeliverAssumption DEF vars, IInv, TypeOK, AtHand, NamesApart,
      SyncedFirst, NewIsWhole
  <2>4. DoneSoFar' /\ DoneIsDelivered'
    BY <1>7, DeliverAssumption DEF vars, IInv, TypeOK, AtHand, DoneSoFar, DoneIsDelivered
  <2>5. OncePerTry'
    BY <1>7, DeliverAssumption DEF vars, IInv, TypeOK, OncePerTry
  <2> QED
    BY <2>1, <2>2, <2>3, <2>4, <2>5 DEF IInv
<1> QED
  BY <1>1, <1>2, <1>3, <1>4, <1>5, <1>6, <1>7 DEF Next

LEMMA Invariance == Spec => []IInv
<1>1. Init => IInv
  BY InitInvariant
<1>2. IInv /\ [Next]_vars => IInv'
  BY NextKeeps
<1> QED
  BY <1>1, <1>2, PTL DEF Spec

-----------------------------------------------------------------------------
(* What follows *)

(* Every variable keeps its type; in particular no try makes two files in  *)
(* new or two copies for the forwarding addresses.                         *)
THEOREM TypeInvariance == Spec => []TypeOK
<1>1. IInv => TypeOK
  BY DEF IInv
<1> QED
  BY <1>1, Invariance, PTL

(* The mail reader never finds a message that is cut short, whatever dies  *)
(* and whenever the power fails.                                           *)
THEOREM NewStaysWhole == Spec => []NewIsWhole
<1>1. IInv => NewIsWhole
  BY DEF IInv
<1> QED
  BY <1>1, Invariance, PTL

(* vdeliver exits with 0 only when the message is where the entry it has   *)
(* looked up wants it.                                                     *)
THEOREM ZeroMeansDelivered == Spec => []DoneIsDelivered
<1>1. IInv => DoneIsDelivered
  BY DEF IInv
<1> QED
  BY <1>1, Invariance, PTL

(* A file in new is taken out or stays as it is: no delivery replaces it.  *)
THEOREM NoMessageReplaced == Spec => NewIsKept
<1> DEFINE Kept == \A f \in Files : new[f] # None => new'[f] \in {new[f], None}
<1>1. IInv /\ [Next]_vars => [Kept]_vars
  <2> SUFFICES ASSUME IInv, Next PROVE Kept
    OBVIOUS
  <2>1. new \in [Files -> Contents \cup {None}]
    BY DEF IInv, TypeOK
  <2>2. CASE UNCHANGED new
    BY <2>2
  <2>3. ASSUME NEW m \in Msgs, Link(m) PROVE Kept
    BY <2>1, <2>3 DEF Link, IInv, AtHand
  <2>4. CASE PowerLoss
    BY <2>1, <2>4 DEF PowerLoss, IInv, NewIsWhole
  <2>5. ASSUME NEW f \in Files, Collect(f) PROVE Kept
    BY <2>1, <2>5 DEF Collect
  <2>6. CASE AccountChange
    BY <2>1, <2>6 DEF AccountChange
  <2> QED
    BY <2>2, <2>3, <2>4, <2>5, <2>6
    DEF Next, Start, Step, Lookup, PreDeliver, CheckMaildir, Create, Collide,
        Wake, Write, Sync, Forward, Unlink, PostDeliver, WriteError,
        ForwardError, FinalError, Kill
<1> QED
  BY <1>1, Invariance, PTL DEF Spec, NewIsKept

=============================================================================
