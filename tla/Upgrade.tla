------------------------------ MODULE Upgrade -------------------------------
(***************************************************************************)
(* The programs that rewrite a password table as a whole with the table    *)
(* reader and writer objects (lib/vpwtable/cdb_read.cc, cdb_write.cc):     *)
(* vupgrade, which makes passwd.cdb from the text file passwd, and         *)
(* vrehash, which locks the domain with the sticky bit of its directory.   *)
(* The writer object opens passwd.cdb itself, not its .tmp file, with      *)
(* O_EXCL, and its operator! answers the opposite of what is meant: see    *)
(* OpenWriter and Rehash.  Meanwhile another program may add a user with   *)
(* vpwtable::put, which replaces the file.                                 *)
(***************************************************************************)
EXTENDS Naturals, Sequences, FiniteSets

CONSTANTS
    Users,    \* user names
    BadLine,  \* a line of passwd that is no record
    MaxLines  \* the most lines passwd has

(* A record of passwd may name the directory of its user or none.          *)
Records == [user: Users, named: BOOLEAN]

UpgradeAssumption == BadLine \notin Records /\ MaxLines \in Nat

Lines == UNION {[1..n -> Records \cup {BadLine}] : n \in 0..MaxLines}

(* The records getpw_passwd returns before it comes upon a line that is    *)
(* none, which it takes for the end.                                       *)
Listed(lines) ==
    {lines[i] : i \in {j \in DOMAIN lines : \A k \in 1..j : lines[k] # BadLine}}

VARIABLES
    passwd,  \* the text file
    cdb,     \* passwd.cdb: what it holds and how much of it is written
    dirs,    \* the users that have a directory
    sticky,  \* the directory of the domain is locked
    pc,      \* where vupgrade is
    line,    \* the record it is at
    mine,    \* the file it writes is the one called passwd.cdb
    out,     \* the records it has put into it
    status,  \* its exit status, once it has one
    alone,   \* history: no other program has changed the table since it started
    rehash,  \* where vrehash is
    aside    \* new.users or backup.users exists

vars == <<passwd, cdb, dirs, sticky, pc, line, mine, out, status, alone, rehash, aside>>
upgrade == <<pc, line, mine, out, status, alone>>
rehashing == <<sticky, rehash, aside>>

NoFile == [state |-> "absent", users |-> {}]
Whole(users) == [state |-> "whole", users |-> users]
(* The bytes of a file that is being written reach it as the buffer fills. *)
Partly(users) == [state |-> "torn", users |-> users]

TypeOK ==
    /\ passwd \in Lines
    /\ cdb \in [state: {"absent", "torn", "whole"}, users: SUBSET Users]
    /\ dirs \subseteq Users /\ out \subseteq Users
    /\ sticky \in BOOLEAN /\ mine \in BOOLEAN /\ alone \in BOOLEAN /\ aside \in BOOLEAN
    /\ pc \in {"idle", "text", "table", "refused", "reading", "ending", "ended"}
    /\ line \in 1..MaxLines + 1
    /\ status \in {"none", "0", "1", "killed"}
    /\ rehash \in {"idle", "lock", "reader", "writer", "ended"}

Init ==
    /\ passwd \in Lines
    /\ cdb \in {NoFile} \cup {Whole(u) : u \in SUBSET Users}
    /\ dirs \in SUBSET Users
    /\ sticky = FALSE
    /\ pc = "idle" /\ line = 1 /\ mine = FALSE /\ out = {} /\ status = "none"
    /\ alone = TRUE
    /\ rehash = "idle" /\ aside \in BOOLEAN

-----------------------------------------------------------------------------
(* vupgrade *)

Goto(s) == pc' = s /\ UNCHANGED status
Exit(code) == pc' = "ended" /\ status' = code

(* open_table: passwd.cdb if it can be read, else passwd if it can.        *)
OpenTable ==
    /\ pc \in {"idle", "ended"}
    /\ line' = 1 /\ out' = {} /\ mine' = FALSE /\ alone' = TRUE
    /\ \/ pc' = (IF cdb.state = "absent" THEN "text" ELSE "table") /\ status' = "none"
       \/ cdb.state = "absent" /\ Exit("1")
    /\ UNCHANGED <<passwd, cdb, dirs, rehashing>>

(* A slip: no O_EXCL. *)
OpenWriterTruncating ==
    /\ pc \in {"text", "table"}
    /\ cdb' = Partly({}) /\ mine' = TRUE
    /\ Goto("reading")
    /\ UNCHANGED <<passwd, dirs, line, out, alone, rehashing>>

(* start_write: a writer on a table that exists is there, but has failed;  *)
(* what it is told to put it refuses.  Nothing tests it.                   *)
OpenWriter ==
    /\ pc \in {"text", "table"}
    /\ IF cdb.state = "absent" THEN cdb' = Partly({}) /\ mine' = TRUE /\ Goto("reading")
       ELSE UNCHANGED <<cdb, mine>> /\ Goto("refused")
    /\ UNCHANGED <<passwd, dirs, line, out, alone, rehashing>>

(* With such a writer the first put, or the end, fails; the user it is for *)
(* may have been given a directory by then.  A torn table may kill the     *)
(* reader: one of no bytes cannot be mapped, which is not noticed          *)
(* (cdb_reader).                                                           *)
Refuse ==
    /\ pc = "refused"
    /\ \/ Exit("1") /\ \E d \in SUBSET Users : Cardinality(d) <= 1 /\ dirs' = dirs \cup d
       \/ cdb.state = "torn" /\ Exit("killed") /\ UNCHANGED dirs
    /\ UNCHANGED <<passwd, cdb, line, mine, out, alone, rehashing>>

(* A slip: the directory of the user is not looked at. *)
PutRecordAlone ==
    /\ pc = "reading" /\ line <= Len(passwd) /\ passwd[line] # BadLine
    /\ out' = out \cup {passwd[line].user} /\ line' = line + 1
    /\ cdb' = IF mine THEN Partly(out') ELSE cdb
    /\ Goto("reading")
    /\ UNCHANGED <<passwd, dirs, mine, alone, rehashing>>

(* The next account: its directory, unless its record names one, which     *)
(* need not be there; then its record.  Should the directory fail, abort   *)
(* unlinks the name tmpname refers to, a temporary long gone, and the      *)
(* table stays as it is; should the write fail, cdb_writer unlinks the     *)
(* name it has opened, whoever's file it is by then.                       *)
PutRecord ==
    /\ pc = "reading" /\ line <= Len(passwd) /\ passwd[line] # BadLine
    /\ LET rec == passwd[line]
           made == IF rec.named THEN dirs ELSE dirs \cup {rec.user} IN
       \/ /\ dirs' = made /\ out' = out \cup {rec.user} /\ line' = line + 1
          /\ cdb' = IF mine THEN Partly(out') ELSE cdb
          /\ Goto("reading") /\ UNCHANGED mine
       \/ /\ ~rec.named /\ rec.user \notin dirs
          /\ Exit("1") /\ mine' = FALSE /\ UNCHANGED <<dirs, cdb, line, out>>
       \/ /\ dirs' = made /\ cdb' = NoFile
          /\ Exit("1") /\ mine' = FALSE /\ UNCHANGED <<line, out>>
    /\ UNCHANGED <<passwd, alone, rehashing>>

LastLine ==
    /\ pc = "reading"
    /\ line <= Len(passwd) => passwd[line] = BadLine
    /\ Goto("ending")
    /\ UNCHANGED <<passwd, cdb, dirs, line, mine, out, alone, rehashing>>

(* end: the index and the header are written and the file is renamed to    *)
(* the name it has, or the one another program has put in its place is.    *)
(* Failing, cdb_writer unlinks that name.                                  *)
EndTable ==
    /\ pc = "ending"
    /\ \/ Exit("0") /\ cdb' = IF mine THEN Whole(out) ELSE cdb
       \/ Exit("1") /\ cdb' = NoFile
    /\ mine' = FALSE
    /\ UNCHANGED <<passwd, dirs, line, out, alone, rehashing>>

Kill ==
    /\ pc \in {"text", "table", "refused", "reading", "ending"}
    /\ Exit("killed") /\ mine' = FALSE
    /\ UNCHANGED <<passwd, cdb, dirs, line, out, alone, rehashing>>

-----------------------------------------------------------------------------
(* Another program adds a user: vpwtable::put copies what it can read of   *)
(* the table and renames a whole one over it.                              *)
Put ==
    /\ \E u \in Users, kept \in SUBSET cdb.users :
         /\ u \notin kept
         /\ cdb.state = "whole" => kept = cdb.users
         /\ cdb' = Whole(kept \cup {u})
    /\ mine' = FALSE /\ alone' = FALSE
    /\ UNCHANGED <<passwd, dirs, pc, line, out, status, rehashing>>

-----------------------------------------------------------------------------
(* vrehash *)

(* The directories it would make must not be there. *)
RehashStart ==
    /\ rehash \in {"idle", "ended"}
    /\ rehash' = IF aside THEN "ended" ELSE "lock"
    /\ UNCHANGED <<passwd, cdb, dirs, upgrade, sticky, aside>>

LockDir ==
    /\ rehash = "lock"
    /\ sticky' = TRUE
    /\ rehash' = IF sticky THEN "ended" ELSE "reader"
    /\ UNCHANGED <<passwd, cdb, dirs, upgrade, aside>>

RehashReader ==
    /\ rehash = "reader"
    /\ rehash' = IF cdb.state = "absent" THEN "ended" ELSE "writer"
    /\ UNCHANGED <<passwd, cdb, dirs, upgrade, sticky, aside>>

(* operator! of the new writer answers true, so vrehash gives up here with *)
(* the directory locked: no directory has been moved.  If the table went   *)
(* in the meantime an empty file is left in its place.                     *)
RehashWriter ==
    /\ rehash = "writer"
    /\ cdb' = IF cdb.state = "absent" THEN Partly({}) ELSE cdb
    /\ rehash' = "ended"
    /\ UNCHANGED <<passwd, dirs, upgrade, sticky, aside>>

Next ==
    \/ OpenTable \/ OpenWriter \/ Refuse \/ PutRecord \/ LastLine \/ EndTable \/ Kill
    \/ Put
    \/ RehashStart \/ LockDir \/ RehashReader \/ RehashWriter

Spec == Init /\ [][Next]_vars

-----------------------------------------------------------------------------
(* Exit status 0 of vupgrade, with nobody else at the table, means that    *)
(* the table is whole and has the accounts of passwd up to the first line  *)
(* that is none, and that each of them has a directory unless its record   *)
(* names one: that one is not looked at (cli_main in vupgrade.cc).         *)
UpgradeIsWhole ==
    (pc = "ended" /\ status = "0" /\ alone)
        => /\ cdb = Whole({rec.user : rec \in Listed(passwd)})
           /\ \A rec \in Listed(passwd) : rec.named \/ rec.user \in dirs

(* A table that is whole loses no account to vupgrade or vrehash: the      *)
(* exclusive creation refuses them, as the writer object gives it the name *)
(* of the table (cdb_write.cc).  Only the end of a vupgrade whose file     *)
(* another program has replaced may unlink it.                             *)
KeepsWholeTable ==
    cdb.state = "whole" /\ (pc \in {"reading", "ending"} => alone)
        => cdb'.state = "whole" /\ cdb.users \subseteq cdb'.users

WholeTableSurvives == [][KeepsWholeTable]_vars

=============================================================================
