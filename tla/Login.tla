------------------------------- MODULE Login -------------------------------
(***************************************************************************)
(* The programs that let a user in: checkvpw, vauthenticate and the module *)
(* authvmailmgr of Courier IMAP, on top of authenticate/authvlib.cc and    *)
(* lib/courier-authlib.  A hook script or a system call may fail at each   *)
(* step, and Courier's login then runs again, in a process that may have   *)
(* become a user already.                                                  *)
(***************************************************************************)
EXTENDS Naturals, FiniteSets

CONSTANTS
    Accounts,  \* [base, virt, stored, expiry, has, dir]; virt None for a system user
    Passwords, \* what may be given; None is the empty one
    Now, None,
    Root       \* the uid at the start

LoginAssumption ==
    Now \in Nat /\ None \notin Accounts /\ None \notin {"served", "passed", "printed", "next"}

VARIABLES
    prog,    \* the program
    known,   \* AUTHENTICATED is set
    pc,
    pass,    \* the password given
    acct,    \* the account the name stands for, or None
    uid, cwd, \* of the process
    env,     \* VUSER, and the account export_env() has been called for
    maildir, \* MAILDIR
    outcome  \* "served", "passed", "printed", "next", "exit", or None

vars == <<prog, known, pc, pass, acct, uid, cwd, env, maildir, outcome>>

Programs == {"checkvpw", "authvmailmgr", "vauthenticate"}

(* A slip: without looking for empty strings. *)
CryptAny(p, stored) == stored.of = p

(* A stored password of any kind matches what it was made from. *)
CryptCmp(p, stored) == stored.kind # "empty" /\ p # None /\ stored.of = p

Init ==
    /\ prog \in Programs /\ known \in IF prog = "authvmailmgr" THEN BOOLEAN ELSE {FALSE}
    /\ pc = "start" /\ pass = None /\ acct = None
    /\ uid = Root /\ cwd = None /\ env = [user |-> None, of |-> None]
    /\ maildir = None /\ outcome = None

Given == UNCHANGED <<prog, known, pass, acct>>
Ends(how) == pc' = "end" /\ outcome' = how
Goes(to) == pc' = to /\ UNCHANGED outcome

(* authmod_fail_completely runs the login program again, with the user     *)
(* and the environment the process has by now; the others exit.            *)
Fail == Ends("exit") \/ (prog = "authvmailmgr" /\ Goes("start"))

AuthmodInit ==
    /\ pc = "start"
    /\ IF known THEN Ends("passed") \/ Ends("exit") ELSE Goes("data")
    /\ Given /\ UNCHANGED <<uid, cwd, env, maildir>>

(* What is asked for: some password for the account of some name. *)
Asked(to) ==
    /\ pc = "data"
    /\ \/ pass' \in Passwords /\ acct' \in Accounts \cup {None} /\ Goes(to)
       \/ Fail /\ UNCHANGED <<pass, acct>>
    /\ UNCHANGED <<prog, known, uid, cwd, env, maildir>>

(* checkvpw looks for the ends of the strings in the whole of its buffer,  *)
(* of which only the start may have been written, so that they may be      *)
(* anything.                                                               *)
GetData == prog = "checkvpw" /\ Asked("named")

(* Courier gives a name and a password, neither of them empty. *)
ParseData == prog = "authvmailmgr" /\ Asked("named") /\ (pc' = "named" => pass' # None)

(* vauthenticate is given the domain as well. *)
GetTriple == prog = "vauthenticate" /\ Asked("lookup")

(* Fails if the name or the domain is empty. *)
SetDomain ==
    /\ pc = "named"
    /\ Fail \/ Goes("lookup")
    /\ Given /\ UNCHANGED <<uid, cwd, env, maildir>>

(* authmod_fail: the next module takes over, unless it cannot be started.  *)
NextModule == Ends("next") \/ Ends("exit")

(* checkvpw alone lets system users in; Courier asks its next module.      *)
LookupBase ==
    /\ pc = "lookup"
    /\ IF acct = None THEN Fail /\ UNCHANGED env
       ELSE /\ env' = [env EXCEPT !.user = acct.virt]
            /\ IF acct.virt # None THEN Goes("become")
               ELSE IF prog = "checkvpw"
               THEN IF CryptCmp(pass, acct.stored) THEN Goes("become") ELSE Fail
               ELSE IF prog = "authvmailmgr" THEN NextModule ELSE Ends("exit")
    /\ Given /\ UNCHANGED <<uid, cwd, maildir>>

(* Only root may become another user. *)
ChangeUidGid(to) == uid \in {Root, to} /\ uid' = to

(* The hook, setgid and setuid, chdir. *)
SetUser ==
    /\ pc = "become"
    /\ \/ Fail /\ UNCHANGED <<uid, cwd>>
       \/ /\ ChangeUidGid(acct.base)
          /\ \/ Fail /\ UNCHANGED cwd
             \/ cwd' = acct.base /\ Goes(IF acct.virt = None THEN "hook" ELSE "check")
    /\ Given /\ UNCHANGED <<env, maildir>>

Check ==
    /\ pc = "check"
    /\ IF acct.has /\ CryptCmp(pass, acct.stored) /\ acct.expiry >= Now
       THEN env' = [env EXCEPT !.of = acct] /\ maildir' = acct.dir /\ Goes("hook")
       ELSE Fail /\ UNCHANGED <<env, maildir>>
    /\ Given /\ UNCHANGED <<uid, cwd>>

PostSetuid ==
    /\ pc = "hook"
    /\ (prog # "vauthenticate" /\ Fail) \/ Goes("serve")
    /\ Given /\ UNCHANGED <<uid, cwd, env, maildir>>

(* checkvpw passes the maildir in the arguments: theirs for a system user, *)
(* or the error maildir if there is no such directory.                     *)
SetMaildirArg ==
    /\ pc = "serve" /\ prog = "checkvpw"
    /\ maildir' \in {IF acct.virt = None THEN "argument" ELSE acct.dir, "error"}
    /\ Ends("served") \/ Ends("exit")
    /\ Given /\ UNCHANGED <<uid, cwd, env>>

(* The hook runs a second time, then authsuccess() becomes the user again  *)
(* and authmod_success() runs what is to be served.                        *)
AuthSuccess ==
    /\ pc = "serve" /\ prog = "authvmailmgr"
    /\ \/ (Fail \/ Ends("exit")) /\ UNCHANGED <<uid, cwd>>
       \/ ChangeUidGid(acct.base) /\ cwd' = acct.base /\ (Fail \/ Ends("served"))
    /\ Given /\ UNCHANGED <<env, maildir>>

PrintInfo ==
    /\ pc = "serve" /\ prog = "vauthenticate"
    /\ Ends("printed")
    /\ Given /\ UNCHANGED <<uid, cwd, env, maildir>>

Next ==
    \/ AuthmodInit \/ GetData \/ ParseData \/ GetTriple \/ SetDomain \/ LookupBase
    \/ SetUser \/ Check \/ PostSetuid \/ SetMaildirArg \/ AuthSuccess \/ PrintInfo

Spec == Init /\ [][Next]_vars

-----------------------------------------------------------------------------
(* Whoever is served gave the account's password, which is not empty, and  *)
(* a virtual user has a mailbox and has not expired; the process is then   *)
(* the domain's user in its home, and its environment is the account's,    *)
(* whatever attempts it has failed at before.  Courier's next module is    *)
(* asked only about system users (authvlib check, set_user, crypt_cmp,     *)
(* authmod_fail_completely, checkvpw).                                     *)
OnlyTheRightful ==
    /\ outcome \in {"served", "printed"} =>
         /\ pass # None /\ acct.stored.kind # "empty" /\ acct.stored.of = pass
         /\ uid = acct.base /\ cwd = acct.base /\ env.user = acct.virt
         /\ acct.virt # None =>
              acct.has /\ acct.expiry >= Now /\ env.of = acct /\ maildir \in {acct.dir, "error"}
         /\ acct.virt = None => prog = "checkvpw"
    /\ outcome = "next" => acct.virt = None
    /\ outcome = "passed" => known

=============================================================================
