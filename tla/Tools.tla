------------------------------- MODULE Tools --------------------------------
(***************************************************************************)
(* The command line tools that work through a list of names (commands/):   *)
(* vadduser and vaddusers add a user and its aliases, vdeluser, vpasswd,   *)
(* vpasswds, vchattr and vchforwards change accounts, vsetup prepares a    *)
(* domain and adds its system aliases.  What they call of the domain is    *)
(* one step each here; VDomain has its details.  A program looks for a     *)
(* name and then sets it, and goes on or gives up after a failure in a way *)
(* of its own; meanwhile other programs add and delete names.              *)
(***************************************************************************)
EXTENDS Naturals, Sequences

CONSTANTS
    Names,    \* users and aliases, lower case
    MaxLines, \* lines of a list
    MaxWords, \* names in a line: a user and its aliases
    Limit     \* the exit status of a program is taken modulo this

ToolsAssumption == MaxLines \in Nat /\ MaxWords \in Nat \ {0} /\ Limit \in Nat \ {0}

Adders == {"vadduser", "vaddusers"}
Programs == Adders \cup {"vsetup", "vdeluser", "vpasswd", "vpasswds", "vchattr", "vchforwards"}

SeqsUpTo(S, n) == UNION {[1..k -> S] : k \in 1..n}

(* What a program can be given: the adders lines of a user and aliases,    *)
(* the others single names; some of them no more than one.                 *)
Inputs(program) ==
    LET one == program \in {"vadduser", "vpasswd", "vchforwards"}
    IN SeqsUpTo(SeqsUpTo(Names, IF program \in Adders THEN MaxWords ELSE 1),
                IF one THEN 1 ELSE MaxLines)

VARIABLES
    users,    \* the names the table has
    usersdir, \* the users directory exists
    default,  \* .qmail-default: "none", "old" as the admin left it, "empty", "vdeliver"
    backup,   \* .qmail-default~
    prog,     \* the program that runs
    input,    \* its list
    pc,       \* where it is
    line, word,  \* and at which name of the list
    errors,   \* how many it has counted
    exit,     \* its exit status, once it has one
    did,      \* history: the words of the list it has done its work for
    met,      \* history: the words vsetup has found in the table
    before    \* history: .qmail-default when it began

disk == <<users, usersdir, default, backup>>
run == <<prog, input, before>>
place == <<line, word, errors, exit>>
vars == <<disk, run, pc, place, did, met>>

Init ==
    /\ users \in SUBSET Names
    /\ usersdir \in BOOLEAN /\ default \in {"none", "old"} /\ backup = "none"
    /\ prog = "none" /\ input = <<>> /\ before = "none"
    /\ pc = "ended" /\ line = 1 /\ word = 1 /\ errors = 0 /\ exit = "none"
    /\ did = {} /\ met = {}

Start ==
    /\ pc = "ended"
    /\ prog' \in Programs
    /\ input' \in Inputs(prog')
    /\ pc' = CASE prog' = "vsetup" -> "pre" [] prog' \in Adders -> "exists" [] OTHER -> "set"
    /\ line' = 1 /\ word' = 1 /\ errors' = 0 /\ exit' = "none"
    /\ did' = {} /\ met' = {} /\ before' = default
    /\ UNCHANGED disk

Goto(s) == pc' = s /\ UNCHANGED place
End(code) == pc' = "ended" /\ exit' = code /\ UNCHANGED <<line, word, errors>>

Name == input[line][word]
Here == <<line, word>>
IsAlias == prog \in Adders /\ word > 1
Look == IF prog \in Adders \cup {"vsetup"} THEN "exists" ELSE "set"

(* On to the next line, from the last to the end; n more errors.           *)
NextLine(n) ==
    /\ word' = 1 /\ line' = line + 1
    /\ pc' = IF line = Len(input) THEN "last" ELSE Look
    /\ errors' = errors + n
    /\ UNCHANGED exit

NextWord(n) ==
    IF word < Len(input[line])
    THEN word' = word + 1 /\ pc' = Look /\ errors' = errors + n /\ UNCHANGED <<line, exit>>
    ELSE NextLine(n)

-----------------------------------------------------------------------------
(* After a failure: vadduser ends if the user cannot be added and only     *)
(* warns of an alias; vaddusers leaves the rest of the line; vdeluser,     *)
(* vpasswds and vchattr count and go on; the programs for one name and     *)
(* vsetup end.                                                             *)
AddUserFailed == IF IsAlias THEN NextWord(0) ELSE End("1")
AddOneFailed == IF IsAlias THEN NextWord(1) ELSE NextLine(1)
OneFailed == End("1")

Failed ==
    CASE prog = "vadduser" -> AddUserFailed
      [] prog = "vaddusers" -> AddOneFailed
      [] prog \in {"vdeluser", "vpasswds", "vchattr"} -> NextWord(1)
      [] prog \in {"vpasswd", "vchforwards", "vsetup"} -> OneFailed

(* A slip: the aliases of a user that is there are added all the same.     *)
ExistsGoingOn ==
    /\ pc = "exists"
    /\ IF Name \in users THEN NextWord(0) ELSE Goto("set")
    /\ UNCHANGED <<disk, run, did, met>>

(* domain.exists: vsetup goes on to the next alias; for the adders a name  *)
(* that is there is a failure.                                             *)
Exists ==
    /\ pc = "exists"
    /\ CASE Name \notin users -> Goto("set") /\ UNCHANGED met
         [] Name \in users /\ prog = "vsetup" -> NextWord(0) /\ met' = met \cup {Here}
         [] Name \in users /\ prog # "vsetup" -> Failed /\ UNCHANGED met
    /\ UNCHANGED <<disk, run, did>>

(* domain.set with onlyadd, deluser, chattr or set, which refuse what the  *)
(* table does not allow and may fail.                                      *)
Set ==
    /\ pc = "set"
    /\ LET adds == Look = "exists" IN
       \/ /\ adds # (Name \in users)
          /\ users' = CASE adds -> users \cup {Name}
                        [] prog = "vdeluser" -> users \ {Name}
                        [] OTHER -> users
          /\ did' = did \cup {Here}
          /\ NextWord(0)
       \/ Failed /\ UNCHANGED <<users, did>>
    /\ UNCHANGED <<usersdir, default, backup, run, met>>

(* The end of the list; vchattr exits with the number of its errors.       *)
Last ==
    /\ pc = "last"
    /\ CASE prog = "vsetup" -> Goto("post")
         [] prog = "vchattr" -> End(IF errors % Limit = 0 THEN "0" ELSE "1")
         [] OTHER -> End(IF errors = 0 THEN "0" ELSE "1")
    /\ UNCHANGED <<disk, run, did, met>>

-----------------------------------------------------------------------------
(* vsetup before and after its aliases. *)

(* The scripts vsetup-pre and vsetup-post. *)
Script ==
    /\ pc \in {"pre", "post"}
    /\ \/ End("1")
       \/ IF pc = "pre" THEN Goto("userdir") ELSE End("0")
    /\ UNCHANGED <<disk, run, did, met>>

SetupUserDir ==
    /\ pc = "userdir"
    /\ \/ usersdir' = TRUE /\ Goto("default")
       \/ ~usersdir /\ End("1") /\ UNCHANGED usersdir
    /\ UNCHANGED <<users, default, backup, run, did, met>>

(* A slip: the file that is there is written over. *)
MoveDefaultNever ==
    /\ pc = "default"
    /\ default' = "none" /\ Goto("create")
    /\ UNCHANGED <<users, usersdir, backup, run, did, met>>

(* A .qmail-default that is there is renamed, over an earlier backup.      *)
MoveDefault ==
    /\ pc = "default"
    /\ \/ /\ IF default = "none" THEN UNCHANGED <<default, backup>>
             ELSE default' = "none" /\ backup' = default
          /\ Goto("create")
       \/ default # "none" /\ End("1") /\ UNCHANGED <<default, backup>>
    /\ UNCHANGED <<users, usersdir, run, did, met>>

CreateDefault ==
    /\ pc = "create"
    /\ \/ default' = "empty" /\ Goto("write")
       \/ End("1") /\ UNCHANGED default
    /\ UNCHANGED <<users, usersdir, backup, run, did, met>>

(* What cannot be written leaves the file empty. *)
WriteDefault ==
    /\ pc = "write"
    /\ \/ default' = "vdeliver" /\ Goto("exists")
       \/ End("1") /\ UNCHANGED default
    /\ UNCHANGED <<users, usersdir, backup, run, did, met>>

Kill == pc # "ended" /\ End("killed") /\ UNCHANGED <<disk, run, did, met>>

(* Another program adds or deletes a name. *)
Other ==
    /\ \E n \in Names : users' \in {users \cup {n}, users \ {n}}
    /\ UNCHANGED <<usersdir, default, backup, run, pc, place, did, met>>

Next ==
    \/ Start \/ Exists \/ Set \/ Last \/ Kill \/ Other
    \/ Script \/ SetupUserDir \/ MoveDefault \/ CreateDefault \/ WriteDefault

Spec == Init /\ [][Next]_vars

-----------------------------------------------------------------------------
Words == UNION {{<<l, w>> : w \in DOMAIN input[l]} : l \in DOMAIN input}

(* Exit status 0 means that everything on the list has been done by this   *)
(* run, or for vsetup was there; of vadduser it says so of the user only,  *)
(* not of its aliases, and of vchattr only while its errors do not come to *)
(* a multiple of 256.  No adder makes an alias in a line whose user it     *)
(* could not add (add_one in vaddusers.cc, add_user in vadduser.cc).       *)
ListsAreCarriedOut ==
    /\ exit = "0" =>
         CASE prog = "vadduser" -> <<1, 1>> \in did
           [] prog = "vchattr" -> errors < Limit => did = Words
           [] OTHER -> did \cup met = Words
    /\ prog \in Adders => \A x \in did : <<x[1], 1>> \in did

(* When vsetup has succeeded .qmail-default runs vdeliver and what it held *)
(* before is in .qmail-default~ (setup_qmail_default); after any end of    *)
(* vsetup it is in one of the two.                                         *)
SetupKeepsOld ==
    prog = "vsetup" =>
        /\ exit = "0" => usersdir /\ default = "vdeliver"
        /\ before # "none" => before \in {default, backup}

=============================================================================
