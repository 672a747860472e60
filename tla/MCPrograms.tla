----------------------------- MODULE MCPrograms -----------------------------
(***************************************************************************)
(* Instances for the model checker of the programs that share nothing with *)
(* one another but the domain's directory: the autoresponse command,       *)
(* vupgrade with vrehash, and the tools that take lists.  Every behaviour  *)
(* is one of one component; the variables of the others do not change.     *)
(***************************************************************************)
EXTENDS Autoresponse, Sequences, TLC

CONSTANTS Users, BadLine, MaxLines, MaxWords, Limit

VARIABLES
    which,
    passwd, cdb, dirs, sticky, uppc, upline, mine, out, status, upalone, rehash, aside,
    users, usersdir, default, backup, prog, input, tlpc, line, word, errors, exit, did, met, before

UP == INSTANCE Upgrade WITH pc <- uppc, line <- upline, alone <- upalone
TL == INSTANCE Tools WITH Names <- Users, pc <- tlpc

upVars == <<passwd, cdb, dirs, sticky, uppc, upline, mine, out, status, upalone, rehash, aside>>
tlVars == <<users, usersdir, default, backup, prog, input, tlpc, line, word, errors, exit, did,
            met, before>>
programsVars == <<which, vars, upVars, tlVars>>

ASSUME ProgramsAssumption == UP!UpgradeAssumption /\ TL!ToolsAssumption

NoUpgrade ==
    /\ passwd = 0 /\ cdb = 0 /\ dirs = 0 /\ sticky = 0 /\ uppc = 0 /\ upline = 0 /\ mine = 0
    /\ out = 0 /\ status = 0 /\ upalone = 0 /\ rehash = 0 /\ aside = 0
NoTools ==
    /\ users = 0 /\ usersdir = 0 /\ default = 0 /\ backup = 0 /\ prog = 0 /\ input = 0
    /\ tlpc = 0 /\ line = 0 /\ word = 0 /\ errors = 0 /\ exit = 0 /\ did = 0 /\ met = 0
    /\ before = 0

(* The variables of Autoresponse stay as they begin while another runs. *)
ProgramsInit ==
    /\ Init
    /\ \/ which = "autoresponse" /\ NoUpgrade /\ NoTools
       \/ which = "upgrade" /\ UP!Init /\ NoTools
       \/ which = "tools" /\ TL!Init /\ NoUpgrade

ProgramsNext ==
    \/ which = "autoresponse" /\ Next /\ UNCHANGED <<which, upVars, tlVars>>
    \/ which = "upgrade" /\ UP!Next /\ UNCHANGED <<which, vars, tlVars>>
    \/ which = "tools" /\ TL!Next /\ UNCHANGED <<which, vars, upVars>>

ProgramsSpec == ProgramsInit /\ [][ProgramsNext]_programsVars

(* As in Upgrade and Tools (commands/vupgrade.cc, vaddusers.cc and         *)
(* vsetup.cc among others).                                                *)
UpgradeIsWhole == which = "upgrade" => UP!UpgradeIsWhole
WholeTableSurvives == [][which = "upgrade" => UP!KeepsWholeTable]_programsVars
ListsAreCarriedOut == which = "tools" => TL!ListsAreCarriedOut
SetupKeepsOld == which = "tools" => TL!SetupKeepsOld

SameFiles == Permutations(Inodes)

=============================================================================
