--------------------------- MODULE ProgramsProofs ---------------------------
(***************************************************************************)
(* Theorems about vupgrade and vrehash (Upgrade) and the tools that take   *)
(* lists (Tools) as MCPrograms puts them together, for any users and lists *)
(* of any length, and about the autoresponse command alone, for any        *)
(* processes, messages and files: what is sent, kept or shown is whole,    *)
(* and requests that do not overlap leave one copy of a message.           *)
(*                                                                         *)
(* The first two invariants say what a program has done when it is at a    *)
(* place of its list: vupgrade has written the accounts of the lines it    *)
(* has read (Reading), a tool has done its work for the words before       *)
(* (Passed), but for the ones its count of errors or its exit status tells *)
(* of.                                                                     *)
(***************************************************************************)
EXTENDS MCPrograms, SequenceTheorems, TLAPS

(* A list of some length is a sequence of that length. *)
LEMMA ListLength ==
    ASSUME NEW S, NEW k \in Nat, NEW s \in [1..k -> S]
    PROVE  s \in Seq(S) /\ Len(s) = k /\ DOMAIN s = 1..k
<1>1. s \in Seq(S)
  BY SeqDef
<1> QED
  BY <1>1, LenProperties

-----------------------------------------------------------------------------
(* vupgrade and vrehash *)

(* What vupgrade has done when it is at a line of passwd. *)
Reading ==
    /\ uppc \in {"text", "table"} => upline = 1 /\ out = {}
    /\ uppc \in {"reading", "ending"} =>
         /\ upline <= Len(passwd) + 1
         /\ \A i \in 1..upline - 1 : passwd[i] # BadLine
         /\ out = {passwd[i].user : i \in 1..upline - 1}
         /\ \A i \in 1..upline - 1 : passwd[i].named \/ passwd[i].user \in dirs
         /\ upalone => mine /\ cdb = UP!Partly(out)
    /\ uppc = "ending" => (upline <= Len(passwd) => passwd[upline] = BadLine)

UpgradeInv ==
    /\ passwd \in UP!Lines /\ upline \in Nat \ {0}
    /\ Reading
    /\ UP!UpgradeIsWhole

LEMMA PasswdIs ==
    ASSUME passwd \in UP!Lines
    PROVE  Len(passwd) \in Nat /\ DOMAIN passwd = 1..Len(passwd)
<1>1. PICK n \in 0..MaxLines : passwd \in [1..n -> UP!Records \cup {BadLine}]
  BY DEF UP!Lines
<1>2. n \in Nat
  BY ProgramsAssumption DEF UP!UpgradeAssumption
<1>3. Len(passwd) = n /\ DOMAIN passwd = 1..n
  BY <1>1, <1>2, ListLength
<1> QED
  BY <1>1, <1>2, <1>3

(* At the end of the list the accounts listed are those of the lines read. *)
LEMMA AllListed ==
    ASSUME UpgradeInv, uppc = "ending"
    PROVE  /\ out = {rec.user : rec \in UP!Listed(passwd)}
           /\ \A rec \in UP!Listed(passwd) : rec.named \/ rec.user \in dirs
<1>1. Len(passwd) \in Nat /\ DOMAIN passwd = 1..Len(passwd) /\ upline \in Nat \ {0}
  BY PasswdIs DEF UpgradeInv
<1>2. /\ upline <= Len(passwd) + 1
      /\ \A i \in 1..upline - 1 : passwd[i] # BadLine
      /\ out = {passwd[i].user : i \in 1..upline - 1}
      /\ \A i \in 1..upline - 1 : passwd[i].named \/ passwd[i].user \in dirs
      /\ upline <= Len(passwd) => passwd[upline] = BadLine
  BY DEF UpgradeInv, Reading
<1>3. {j \in DOMAIN passwd : \A k \in 1..j : passwd[k] # BadLine} = 1..upline - 1
  <2>1. ASSUME NEW j \in 1..Len(passwd), \A k \in 1..j : passwd[k] # BadLine
        PROVE  j \in 1..upline - 1
    BY <1>1, <1>2, <2>1
  <2>2. ASSUME NEW j \in 1..upline - 1
        PROVE  j \in 1..Len(passwd) /\ \A k \in 1..j : passwd[k] # BadLine
    BY <1>1, <1>2, <2>2
  <2> QED
    BY <1>1, <2>1, <2>2
<1>4. UP!Listed(passwd) = {passwd[i] : i \in 1..upline - 1}
  BY <1>3 DEF UP!Listed
<1> QED
  BY <1>2, <1>4

LEMMA InitUpgrade == UP!Init => UpgradeInv
BY DEF UP!Init, UpgradeInv, Reading, UP!UpgradeIsWhole

(* vupgrade opens its tables, or ends before it writes. *)
LEMMA OpensKeep ==
    ASSUME UpgradeInv, UP!OpenTable \/ UP!OpenWriter \/ UP!Refuse \/ UP!Kill
    PROVE  UpgradeInv'
<1> USE DEF UpgradeInv, Reading, UP!UpgradeIsWhole, UP!Goto, UP!Exit
<1>1. CASE UP!OpenTable
  BY <1>1 DEF UP!OpenTable
<1>2. CASE UP!OpenWriter
  <2>1. /\ upline = 1 /\ out = {} /\ uppc' \in {"reading", "refused"}
        /\ uppc' = "reading" => mine' /\ cdb' = UP!Partly({})
        /\ UNCHANGED <<passwd, dirs, upline, out>>
    BY <1>2 DEF UP!OpenWriter
  <2> QED
    BY <2>1, PasswdIs
<1>3. CASE UP!Refuse \/ UP!Kill
  BY <1>3 DEF UP!Refuse, UP!Kill
<1> QED
  BY <1>1, <1>2, <1>3

(* One more line is one more account, or the end. *)
LEMMA PutRecordKeeps ==
    ASSUME UpgradeInv, UP!PutRecord
    PROVE  UpgradeInv'
<1> DEFINE rec == passwd[upline]
<1> USE DEF UpgradeInv, UP!UpgradeIsWhole, UP!Goto, UP!Exit
<1>1. /\ Len(passwd) \in Nat /\ upline \in 1..Len(passwd)
      /\ uppc = "reading" /\ rec # BadLine /\ passwd' = passwd
  BY PasswdIs DEF UP!PutRecord
<1>2. CASE uppc' = "reading"
  <2>1. /\ dirs' = (IF rec.named THEN dirs ELSE dirs \cup {rec.user})
        /\ out' = out \cup {rec.user} /\ upline' = upline + 1
        /\ cdb' = (IF mine THEN UP!Partly(out') ELSE cdb)
        /\ UNCHANGED <<mine, upalone, status>>
    BY <1>1, <1>2 DEF UP!PutRecord
  <2>2. /\ \A i \in 1..upline - 1 : passwd[i] # BadLine
        /\ out = {passwd[i].user : i \in 1..upline - 1}
        /\ \A i \in 1..upline - 1 : passwd[i].named \/ passwd[i].user \in dirs
        /\ upalone => mine
    BY <1>1 DEF Reading
  <2>3. 1..upline' - 1 = (1..upline - 1) \cup {upline}
    BY <1>1, <2>1
  <2>4. /\ \A i \in 1..upline' - 1 : passwd[i] # BadLine
        /\ out' = {passwd[i].user : i \in 1..upline' - 1}
        /\ \A i \in 1..upline' - 1 : passwd[i].named \/ passwd[i].user \in dirs'
    BY <1>1, <2>1, <2>2, <2>3
  <2>5. Reading'
    BY <1>1, <1>2, <2>1, <2>2, <2>4 DEF Reading
  <2> QED
    BY <1>1, <1>2, <2>1, <2>5
<1>3. CASE uppc' # "reading"
  <2>1. uppc' = "ended" /\ status' = "1" /\ upline' = upline
    BY <1>3 DEF UP!PutRecord
  <2> QED
    BY <1>1, <2>1 DEF Reading
<1> QED
  BY <1>2, <1>3

(* The end of the list makes the table whole. *)
LEMMA EndsKeep ==
    ASSUME UpgradeInv, UP!LastLine \/ UP!EndTable
    PROVE  UpgradeInv'
<1>1. CASE UP!LastLine
  BY <1>1 DEF UP!LastLine, UpgradeInv, Reading, UP!UpgradeIsWhole, UP!Goto
<1>2. CASE UP!EndTable
  <2>1. /\ out = {rec.user : rec \in UP!Listed(passwd)}
        /\ \A rec \in UP!Listed(passwd) : rec.named \/ rec.user \in dirs
        /\ upalone => mine
    BY <1>2, AllListed DEF UP!EndTable, UpgradeInv, Reading
  <2>2. UP!Listed(passwd)' = UP!Listed(passwd)
    BY <1>2 DEF UP!EndTable, UP!Listed
  <2> QED
    BY <1>2, <2>1, <2>2 DEF UP!EndTable, UpgradeInv, Reading, UP!UpgradeIsWhole, UP!Exit
<1> QED
  BY <1>1, <1>2

(* Another program puts an end to being alone; vrehash changes nothing but *)
(* a table that is absent.                                                 *)
LEMMA OthersKeep ==
    ASSUME UpgradeInv,
           UP!Put \/ UP!RehashStart \/ UP!LockDir \/ UP!RehashReader \/ UP!RehashWriter
    PROVE  UpgradeInv'
<1> USE DEF UpgradeInv, Reading, UP!UpgradeIsWhole
<1>1. CASE UP!Put
  <2>1. /\ upalone' = FALSE /\ UNCHANGED <<passwd, dirs, uppc, upline, out>>
    BY <1>1 DEF UP!Put
  <2> QED
    BY <2>1
<1>2. CASE UP!RehashStart \/ UP!LockDir \/ UP!RehashReader \/ UP!RehashWriter
  <2>1. /\ UNCHANGED <<passwd, dirs, UP!upgrade>> /\ (cdb.state # "absent" => cdb' = cdb)
    BY <1>2 DEF UP!RehashStart, UP!LockDir, UP!RehashReader, UP!RehashWriter
  <2>2. UP!Listed(passwd)' = UP!Listed(passwd)
    BY <2>1 DEF UP!Listed
  <2>3. Reading'
    BY <2>1 DEF UP!Partly, UP!upgrade
  <2>4. UP!UpgradeIsWhole'
    BY <2>1, <2>2 DEF UP!Whole, UP!upgrade
  <2> QED
    BY <2>1, <2>3, <2>4 DEF UP!upgrade
<1> QED
  BY <1>1, <1>2

LEMMA UpgradeKeeps ==
    ASSUME UpgradeInv, UP!Next
    PROVE  UpgradeInv'
BY OpensKeep, PutRecordKeeps, EndsKeep, OthersKeep DEF UP!Next

(* What upgrade and tools hold while another program runs does not matter. *)
LEMMA UpgradeInvariance == ProgramsSpec => [](which = "upgrade" => UpgradeInv)
<1>1. ProgramsInit => (which = "upgrade" => UpgradeInv)
  BY InitUpgrade DEF ProgramsInit
<1>2. (which = "upgrade" => UpgradeInv) /\ [ProgramsNext]_programsVars
        => (which = "upgrade" => UpgradeInv)'
  <2> SUFFICES ASSUME which = "upgrade" => UpgradeInv, [ProgramsNext]_programsVars,
                      which' = "upgrade"
               PROVE  UpgradeInv'
    OBVIOUS
  <2>1. CASE UNCHANGED programsVars
    BY <2>1 DEF programsVars, upVars, UpgradeInv, Reading, UP!UpgradeIsWhole,
       UP!Listed, UP!Whole, UP!Partly
  <2>2. CASE which = "upgrade" /\ UP!Next
    BY <2>2, UpgradeKeeps
  <2> QED
    BY <2>1, <2>2 DEF ProgramsNext
<1> QED
  BY <1>1, <1>2, PTL DEF ProgramsSpec

(* vupgrade that has ended well, with nobody else at the table, has made a *)
(* whole table of the accounts of passwd, each with a directory unless its *)
(* record names one, whatever vrehash does meanwhile and however often     *)
(* vupgrade was killed before.                                             *)
THEOREM UpgradeMakesTheTable == ProgramsSpec => []UpgradeIsWhole
<1>1. (which = "upgrade" => UpgradeInv) => UpgradeIsWhole
  BY DEF UpgradeInv, UpgradeIsWhole
<1> QED
  BY <1>1, UpgradeInvariance, PTL

(* A whole table survives vupgrade and vrehash: while vupgrade writes and  *)
(* nobody has replaced its file the table is not whole.                    *)
THEOREM UpgradeSparesTheTable == ProgramsSpec => WholeTableSurvives
<1>1. ASSUME UpgradeInv, UP!Next PROVE UP!KeepsWholeTable
  <2> SUFFICES ASSUME cdb.state = "whole", uppc \in {"reading", "ending"} => upalone
               PROVE  cdb'.state = "whole" /\ cdb.users \subseteq cdb'.users
    BY DEF UP!KeepsWholeTable
  <2>1. uppc \notin {"reading", "ending"}
    BY <1>1 DEF UpgradeInv, Reading, UP!Partly
  <2>2. CASE UP!Put
    BY <2>2 DEF UP!Put, UP!Whole
  <2> QED
    BY <1>1, <2>1, <2>2
    DEF UP!Next, UP!OpenTable, UP!OpenWriter, UP!Refuse, UP!PutRecord, UP!LastLine,
        UP!EndTable, UP!Kill, UP!RehashStart, UP!LockDir, UP!RehashReader, UP!RehashWriter
<1>2. (which = "upgrade" => UpgradeInv) /\ [ProgramsNext]_programsVars
        => [which = "upgrade" => UP!KeepsWholeTable]_programsVars
  BY <1>1 DEF ProgramsNext
<1> QED
  BY <1>2, UpgradeInvariance, PTL DEF ProgramsSpec, WholeTableSurvives

-----------------------------------------------------------------------------
(* The tools that take lists *)

Running == tlpc \in {"exists", "set", "last", "post"}
Preparing == tlpc \in {"pre", "userdir", "default", "create", "write"}

(* A list has lines, a line has words. *)
IsList(list) ==
    /\ Len(list) \in Nat \ {0} /\ DOMAIN list = 1..Len(list)
    /\ \A l \in 1..Len(list) :
         Len(list[l]) \in Nat \ {0} /\ DOMAIN list[l] = 1..Len(list[l])

(* Where a program is in its list. *)
Placed ==
    /\ prog \in {"none"} \cup TL!Programs
    /\ tlpc \in {"exists", "set", "last", "post", "pre", "userdir", "default", "create",
                 "write", "ended"}
    /\ tlpc # "ended" => prog # "none" /\ IsList(input)
    /\ tlpc \in {"exists", "set"} => line \in 1..Len(input) /\ word \in 1..Len(input[line])
    /\ tlpc \in {"last", "post"} => line = Len(input) + 1 /\ word = 1
    /\ tlpc = "exists" => prog \in TL!Adders \cup {"vsetup"}
    /\ tlpc = "post" \/ Preparing => prog = "vsetup"
    /\ Preparing => line = 1 /\ word = 1 /\ errors = 0 /\ did = {} /\ met = {}

(* The words it has been past. *)
Passed ==
    {x \in TL!Words : x[1] < line \/ (x[1] = line /\ x[2] < word)}

(* What it has done for them. *)
Worked ==
    /\ Running =>
         /\ errors \in Nat
         /\ prog # "vadduser" /\ errors = 0 => did \cup met = Passed
         /\ prog = "vsetup" => errors = 0
         /\ prog # "vsetup" => met = {}
         /\ prog = "vadduser" /\ (line > 1 \/ word > 1) => <<1, 1>> \in did
         /\ prog \in TL!Adders /\ word > 1 => <<line, 1>> \in did
    /\ prog \in TL!Adders => \A x \in did : <<x[1], 1>> \in did
    /\ exit = "0" => tlpc = "ended"
    /\ TL!ListsAreCarriedOut

ToolsInv == Placed /\ Worked

LEMMA ListLines ==
    ASSUME NEW S, NEW n, NEW s \in TL!SeqsUpTo(S, n), n \in Nat
    PROVE  /\ Len(s) \in Nat \ {0} /\ DOMAIN s = 1..Len(s)
           /\ \A i \in 1..Len(s) : s[i] \in S
<1>1. PICK k \in 1..n : s \in [1..k -> S]
  BY DEF TL!SeqsUpTo
<1>2. Len(s) = k /\ DOMAIN s = 1..k
  BY <1>1, ListLength
<1> QED
  BY <1>1, <1>2

(* What a program is given is a list. *)
LEMMA InputIsList ==
    ASSUME NEW p \in TL!Programs, NEW list \in TL!Inputs(p)
    PROVE  IsList(list)
<1> DEFINE n == IF p \in TL!Adders THEN MaxWords ELSE 1
           m == IF p \in {"vadduser", "vpasswd", "vchforwards"} THEN 1 ELSE MaxLines
<1>1. n \in Nat /\ m \in Nat
  BY ProgramsAssumption DEF TL!ToolsAssumption
<1>2. list \in TL!SeqsUpTo(TL!SeqsUpTo(Users, n), m)
  BY DEF TL!Inputs
<1> HIDE DEF n, m
<1>3. /\ Len(list) \in Nat \ {0} /\ DOMAIN list = 1..Len(list)
      /\ \A l \in 1..Len(list) : list[l] \in TL!SeqsUpTo(Users, n)
  BY <1>1, <1>2, ListLines
<1>4. ASSUME NEW l \in 1..Len(list)
      PROVE  Len(list[l]) \in Nat \ {0} /\ DOMAIN list[l] = 1..Len(list[l])
  BY <1>1, <1>3, <1>4, ListLines
<1> QED
  BY <1>3, <1>4 DEF IsList

LEMMA WordsAre ==
    ASSUME IsList(input)
    PROVE  \A x : x \in TL!Words <=>
              \E l \in 1..Len(input) : \E w \in 1..Len(input[l]) : x = <<l, w>>
BY DEF IsList, TL!Words

(* The next word, or the first of the next line, or the end of the list:   *)
(* one more word has been passed.                                          *)
LEMMA NextWordPasses ==
    ASSUME IsList(input), line \in 1..Len(input), word \in 1..Len(input[line]), input' = input,
           NEW n, TL!NextWord(n)
    PROVE  Passed' = Passed \cup {<<line, word>>}
<1>1. TL!Words' = TL!Words
  BY DEF TL!Words
<1>2. \/ word < Len(input[line]) /\ line' = line /\ word' = word + 1
      \/ word = Len(input[line]) /\ line' = line + 1 /\ word' = 1
  <2>1. Len(input[line]) \in Nat
    BY DEF IsList
  <2> QED
    BY <2>1 DEF TL!NextWord, TL!NextLine
<1>3. ASSUME NEW l \in 1..Len(input), NEW w \in 1..Len(input[l])
      PROVE  (l < line' \/ (l = line' /\ w < word'))
                <=> (l < line \/ (l = line /\ w < word)) \/ (l = line /\ w = word)
  BY <1>2, <1>3 DEF IsList
<1>4. <<line, word>> \in TL!Words
  BY WordsAre
<1>5. ASSUME NEW x \in TL!Words
      PROVE  x \in Passed' <=> x \in Passed \cup {<<line, word>>}
  <2>1. PICK l \in 1..Len(input) : \E w \in 1..Len(input[l]) : x = <<l, w>>
    BY WordsAre
  <2>2. PICK w \in 1..Len(input[l]) : x = <<l, w>>
    BY <2>1
  <2> QED
    BY <1>1, <1>3, <2>2 DEF Passed
<1> QED
  BY <1>1, <1>4, <1>5 DEF Passed

(* Nothing is left to pass at the end of the list. *)
LEMMA AllPassed ==
    ASSUME IsList(input), line = Len(input) + 1
    PROVE  Passed = TL!Words
<1>1. ASSUME NEW x \in TL!Words PROVE x[1] < line
  <2>1. PICK l \in 1..Len(input) : \E w \in 1..Len(input[l]) : x = <<l, w>>
    BY WordsAre
  <2> QED
    BY <2>1 DEF IsList
<1> QED
  BY <1>1 DEF Passed

(* Nothing has been passed at its beginning. *)
LEMMA NothingPassed ==
    ASSUME IsList(input), line = 1, word = 1
    PROVE  Passed = {}
<1>1. ASSUME NEW x \in TL!Words PROVE ~(x[1] < 1) /\ ~(x[2] < 1)
  <2>1. PICK l \in 1..Len(input) : \E w \in 1..Len(input[l]) : x = <<l, w>>
    BY WordsAre
  <2> QED
    BY <2>1 DEF IsList
<1> QED
  BY <1>1 DEF Passed

LEMMA InitTools == TL!Init => ToolsInv
BY DEF TL!Init, ToolsInv, Placed, Worked, Preparing, Running, TL!Programs, TL!Adders,
   TL!ListsAreCarriedOut

(* A program that ends other than with status 0 leaves nothing to show. *)
LEMMA EndsBadly ==
    ASSUME ToolsInv, NEW code, code # "0", TL!End(code), UNCHANGED <<prog, input, did, met>>
    PROVE  ToolsInv'
BY DEF ToolsInv, Placed, Worked, Preparing, Running, TL!End, TL!ListsAreCarriedOut,
   TL!Adders, TL!Programs

LEMMA StartKeeps ==
    ASSUME ToolsInv, TL!Start
    PROVE  ToolsInv'
<1>1. /\ prog' \in TL!Programs /\ IsList(input') /\ line' = 1 /\ word' = 1 /\ errors' = 0
      /\ exit' = "none" /\ did' = {} /\ met' = {}
      /\ tlpc' = CASE prog' = "vsetup" -> "pre" [] prog' \in TL!Adders -> "exists" [] OTHER -> "set"
  BY InputIsList DEF TL!Start
<1>2. Passed' = {}
  <2>1. Passed' = {x \in TL!Words' : x[1] < 1 \/ (x[1] = 1 /\ x[2] < 1)}
    BY <1>1 DEF Passed
  <2>2. ASSUME NEW x \in TL!Words' PROVE ~(x[1] < 1) /\ ~(x[2] < 1)
    <3>1. PICK l \in DOMAIN input' : x \in {<<l, w>> : w \in DOMAIN input'[l]}
      BY DEF TL!Words
    <3> QED
      BY <1>1, <3>1 DEF IsList
  <2> QED
    BY <2>1, <2>2
<1>3. Placed'
  BY <1>1 DEF Placed, Preparing, TL!Programs, TL!Adders, IsList
<1>4. Worked'
  BY <1>1, <1>2 DEF Worked, Running, TL!ListsAreCarriedOut, TL!Adders
<1> QED
  BY <1>3, <1>4 DEF ToolsInv

(* On to the next word or line: there is one, or the list is at its end.   *)
LEMMA MovesPlace ==
    ASSUME Placed, tlpc \in {"exists", "set"}, UNCHANGED <<prog, input>>,
           NEW n \in Nat, TL!NextWord(n) \/ TL!NextLine(n)
    PROVE  /\ Placed' /\ tlpc' # "ended" /\ tlpc' # "post" /\ exit' = exit
           /\ errors' = errors + n
           /\ (line' = line /\ word' = word + 1) \/ (line' = line + 1 /\ word' = 1)
<1> DEFINE next ==
      /\ (tlpc' = TL!Look /\ line' \in 1..Len(input) /\ word' \in 1..Len(input[line']))
         \/ (tlpc' = "last" /\ line' = Len(input) + 1 /\ word' = 1)
      /\ (line' = line /\ word' = word + 1) \/ (line' = line + 1 /\ word' = 1)
      /\ exit' = exit /\ errors' = errors + n
<1>1. /\ IsList(input) /\ line \in 1..Len(input) /\ word \in 1..Len(input[line])
      /\ Len(input) \in Nat /\ Len(input[line]) \in Nat
  BY DEF Placed, IsList
<1>2. ASSUME TL!NextLine(n) PROVE next
  <2>1. /\ word' = 1 /\ line' = line + 1 /\ errors' = errors + n /\ exit' = exit
        /\ tlpc' = IF line = Len(input) THEN "last" ELSE TL!Look
    BY <1>2 DEF TL!NextLine
  <2>2. line # Len(input) => line + 1 \in 1..Len(input) /\ 1 \in 1..Len(input[line + 1])
    <3>1. line # Len(input) => line + 1 \in 1..Len(input)
      BY <1>1
    <3>2. \A l \in 1..Len(input) : Len(input[l]) \in Nat \ {0}
      BY <1>1 DEF IsList
    <3> QED
      BY <3>1, <3>2
  <2>3. line = Len(input) => tlpc' = "last" /\ line' = Len(input) + 1
    BY <2>1
  <2>4. line # Len(input) => tlpc' = TL!Look /\ line' \in 1..Len(input) /\ word' \in 1..Len(input[line'])
    BY <2>1, <2>2
  <2> QED
    BY <2>1, <2>3, <2>4
<1>3. ASSUME TL!NextWord(n), ~TL!NextLine(n) PROVE next
  <2>1. /\ word < Len(input[line]) /\ word' = word + 1 /\ line' = line
        /\ errors' = errors + n /\ exit' = exit /\ tlpc' = TL!Look
    BY <1>3 DEF TL!NextWord
  <2>2. word + 1 \in 1..Len(input[line])
    BY <1>1, <2>1
  <2> QED
    BY <1>1, <2>1, <2>2
<1>4. next
  <2>1. TL!NextWord(n) \/ TL!NextLine(n)
    OBVIOUS
  <2> QED
    BY <1>2, <1>3, <2>1
<1>5. TL!Look \in {"exists", "set"} /\ (TL!Look = "exists" <=> prog \in TL!Adders \cup {"vsetup"})
  BY DEF TL!Look
<1>6. prog \in TL!Programs /\ prog' = prog /\ input' = input
  BY DEF Placed
<1> HIDE DEF next
<1>7. Placed'
  BY <1>1, <1>4, <1>5, <1>6 DEF next, Placed, Preparing
<1> QED
  BY <1>4, <1>5, <1>7 DEF next

(* After a failure what has been done is as before: the count of errors,   *)
(* the exit status or the program itself tells of it.                      *)
LEMMA FailedKeeps ==
    ASSUME ToolsInv, tlpc \in {"exists", "set"}, TL!Failed, UNCHANGED <<prog, input, did, met>>
    PROVE  ToolsInv'
<1>1. CASE TL!End("1")
  BY <1>1, EndsBadly
<1>2. ASSUME NEW n \in {0, 1}, TL!NextWord(n) \/ TL!NextLine(n),
             n = 0 => prog = "vadduser" /\ word > 1,
             prog = "vadduser" => word > 1,
             prog # "vsetup",
             prog \in TL!Adders => TL!NextLine(n) \/ word > 1
      PROVE  ToolsInv'
  <2>1. /\ Placed' /\ exit' = exit /\ errors' = errors + n
        /\ (line' = line /\ word' = word + 1) \/ (line' = line + 1 /\ word' = 1)
        /\ tlpc' # "ended"
    BY <1>2, MovesPlace DEF ToolsInv
  <2>2. Running
    BY DEF Running
  <2>3. /\ errors \in Nat /\ line \in Nat /\ word \in Nat
    BY <2>2 DEF ToolsInv, Placed, Worked, IsList
  <2>4. prog \in TL!Adders /\ word' > 1 => <<line', 1>> \in did
    <3>1. prog \in TL!Adders /\ word' > 1 => word > 1
      BY <1>2 DEF TL!NextLine
    <3> QED
      BY <1>2, <2>1, <2>2, <2>3, <3>1 DEF ToolsInv, Worked
  <2>5. Worked'
    BY <1>2, <2>1, <2>2, <2>3, <2>4 DEF ToolsInv, Worked, TL!ListsAreCarriedOut
  <2> QED
    BY <2>1, <2>5 DEF ToolsInv
<1>3. prog \in TL!Programs /\ word \in Nat \ {0}
  BY DEF ToolsInv, Placed, IsList
<1> USE DEF TL!Failed, TL!Adders
<1>4. CASE prog = "vadduser"
  <2>1. (TL!NextWord(0) /\ word > 1) \/ TL!End("1")
    BY <1>4 DEF TL!AddUserFailed, TL!IsAlias
  <2> QED
    BY <1>1, <1>2, <1>4, <2>1
<1>5. CASE prog = "vaddusers"
  <2>1. TL!AddOneFailed
    BY <1>5
  <2>2. (TL!NextWord(1) /\ word > 1) \/ TL!NextLine(1)
    BY <1>5, <2>1 DEF TL!AddOneFailed, TL!IsAlias
  <2> QED
    BY <1>2, <1>5, <2>2
<1>6. CASE prog \in {"vdeluser", "vpasswds", "vchattr"}
  <2>1. TL!NextWord(1)
    BY <1>6
  <2> QED
    BY <1>2, <1>6, <2>1
<1>7. CASE prog \in {"vpasswd", "vchforwards", "vsetup"}
  BY <1>1, <1>7 DEF TL!OneFailed
<1> QED
  BY <1>3, <1>4, <1>5, <1>6, <1>7 DEF TL!Programs

(* A word that is there already, or that the work is done for. *)
LEMMA DoneKeeps ==
    ASSUME ToolsInv, tlpc \in {"exists", "set"}, TL!NextWord(0), UNCHANGED <<prog, input>>,
           \/ prog = "vsetup" /\ did' = did /\ met' = met \cup {TL!Here}
           \/ did' = did \cup {TL!Here} /\ met' = met
    PROVE  ToolsInv'
<1>1. /\ Placed' /\ exit' = exit /\ errors' = errors /\ tlpc' # "ended"
      /\ (line' = line /\ word' = word + 1) \/ (line' = line + 1 /\ word' = 1)
  BY MovesPlace DEF ToolsInv, Worked, Running
<1>2. /\ IsList(input) /\ line \in 1..Len(input) /\ word \in 1..Len(input[line])
      /\ line \in Nat \ {0} /\ word \in Nat \ {0} /\ errors \in Nat /\ Running
  BY DEF ToolsInv, Placed, Worked, Running, IsList
<1>3. Passed' = Passed \cup {TL!Here}
  BY <1>2, NextWordPasses DEF TL!Here
<1>4. TL!Here = <<line, word>>
  BY DEF TL!Here
<1>5. prog \in TL!Adders => <<line, 1>> \in did'
  BY <1>2, <1>4 DEF ToolsInv, Worked, TL!Adders
<1>6. prog = "vadduser" => <<1, 1>> \in did'
  BY <1>2, <1>4 DEF ToolsInv, Worked
<1>7. prog \in TL!Adders => \A x \in did' : <<x[1], 1>> \in did'
  <2> SUFFICES ASSUME prog \in TL!Adders, NEW x \in did' PROVE <<x[1], 1>> \in did'
    OBVIOUS
  <2>1. did' = did \cup {TL!Here}
    BY DEF TL!Adders
  <2>2. CASE x \in did
    BY <2>1, <2>2 DEF ToolsInv, Worked
  <2>3. CASE x = TL!Here
    BY <1>4, <1>5, <2>3
  <2> QED
    BY <2>1, <2>2, <2>3
<1>8. Worked'
  BY <1>1, <1>2, <1>3, <1>4, <1>5, <1>6, <1>7 DEF ToolsInv, Worked, TL!ListsAreCarriedOut
<1> QED
  BY <1>1, <1>8 DEF ToolsInv

LEMMA WordsKeep ==
    ASSUME ToolsInv, TL!Exists \/ TL!Set
    PROVE  ToolsInv'
<1>1. /\ tlpc \in {"exists", "set"} /\ UNCHANGED <<prog, input>>
  BY DEF TL!Exists, TL!Set, TL!run
<1>2. CASE TL!Failed /\ UNCHANGED <<did, met>>
  BY <1>1, <1>2, FailedKeeps
<1>3. CASE TL!NextWord(0) /\ \/ prog = "vsetup" /\ did' = did /\ met' = met \cup {TL!Here}
                             \/ did' = did \cup {TL!Here} /\ met' = met
  BY <1>1, <1>3, DoneKeeps
<1>4. CASE tlpc = "exists" /\ TL!Goto("set") /\ UNCHANGED <<did, met>>
  <2>1. Passed' = Passed /\ TL!Words' = TL!Words
    BY <1>1, <1>4 DEF Passed, TL!Words, TL!Goto, TL!place
  <2> QED
    BY <1>1, <1>4, <2>1
    DEF ToolsInv, Placed, Worked, Running, Preparing, TL!Goto, TL!place, TL!ListsAreCarriedOut
<1>5. CASE TL!Exists
  BY <1>2, <1>3, <1>4, <1>5 DEF TL!Exists
<1>6. CASE TL!Set
  BY <1>2, <1>3, <1>6 DEF TL!Set
<1> QED
  BY <1>5, <1>6

(* At the end of the list the count of errors tells whether all is done.   *)
LEMMA LastKeeps ==
    ASSUME ToolsInv, TL!Last
    PROVE  ToolsInv'
<1>1. /\ tlpc = "last" /\ IsList(input) /\ line = Len(input) + 1 /\ Len(input) \in Nat \ {0}
      /\ prog \in TL!Programs /\ UNCHANGED <<prog, input, did, met>> /\ word = 1
  BY DEF ToolsInv, Placed, TL!Last, TL!run, IsList
<1>2. /\ errors \in Nat
      /\ prog # "vadduser" /\ errors = 0 => did \cup met = TL!Words
      /\ prog = "vsetup" => errors = 0
      /\ prog # "vsetup" => met = {}
      /\ prog = "vadduser" => <<1, 1>> \in did
      /\ prog \in TL!Adders => \A x \in did : <<x[1], 1>> \in did
  BY <1>1, AllPassed DEF ToolsInv, Worked, Running
<1>3. TL!Words' = TL!Words
  BY <1>1 DEF TL!Words
<1>4. CASE prog = "vsetup"
  <2>1. Passed' = Passed
    BY <1>1, <1>3, <1>4 DEF TL!Last, TL!Goto, TL!place, Passed
  <2> QED
    BY <1>1, <1>2, <1>3, <1>4, <2>1
    DEF ToolsInv, Placed, Worked, Running, Preparing, TL!Last, TL!Goto, TL!place,
        TL!ListsAreCarriedOut
<1>5. ASSUME prog # "vsetup", TL!End("0"),
             prog = "vchattr" /\ errors < Limit => errors = 0,
             prog \notin {"vchattr", "vadduser"} => errors = 0
      PROVE  ToolsInv'
  <2>1. TL!ListsAreCarriedOut'
    BY <1>1, <1>2, <1>3, <1>5 DEF TL!ListsAreCarriedOut, TL!End
  <2> QED
    BY <1>1, <1>2, <1>5, <2>1
    DEF ToolsInv, Placed, Worked, Running, Preparing, TL!End, TL!ListsAreCarriedOut
<1>6. CASE TL!End("1")
  BY <1>1, <1>6, EndsBadly
<1>7. errors % Limit = 0 /\ errors < Limit => errors = 0
  <2>1. Limit \in Nat \ {0}
    BY ProgramsAssumption DEF TL!ToolsAssumption
  <2> QED
    BY <1>2, <2>1
<1> QED
  BY <1>1, <1>4, <1>5, <1>6, <1>7 DEF TL!Last

(* vsetup before and after its aliases. *)
LEMMA SetupKeeps ==
    ASSUME ToolsInv,
           TL!Script \/ TL!SetupUserDir \/ TL!MoveDefault \/ TL!CreateDefault \/ TL!WriteDefault
    PROVE  ToolsInv'
<1>1. /\ tlpc # "ended" /\ (Preparing \/ tlpc = "post") /\ prog = "vsetup" /\ IsList(input)
      /\ UNCHANGED <<prog, input, did, met>>
  BY DEF ToolsInv, Placed, Preparing, TL!Script, TL!SetupUserDir, TL!MoveDefault,
     TL!CreateDefault, TL!WriteDefault, TL!run
<1>2. CASE TL!End("1")
  BY <1>1, <1>2, EndsBadly
<1>3. CASE tlpc = "post" /\ TL!End("0")
  <2>1. did \cup met = TL!Words
    BY <1>1, <1>3, AllPassed DEF ToolsInv, Placed, Worked, Running
  <2>2. TL!Words' = TL!Words
    BY <1>1 DEF TL!Words
  <2> QED
    BY <1>1, <1>3, <2>1, <2>2
    DEF ToolsInv, Placed, Worked, Running, Preparing, TL!End, TL!ListsAreCarriedOut,
        TL!Adders, TL!Programs
<1>4. CASE /\ Preparing
           /\ \E s \in {"userdir", "default", "create", "write", "exists"} : TL!Goto(s)
  <2>1. Passed = {}
    BY <1>1, <1>4, NothingPassed DEF ToolsInv, Placed
  <2>2. Passed' = Passed
    BY <1>1, <1>4 DEF TL!Goto, TL!place, Passed, TL!Words
  <2>3. 1 \in 1..Len(input) /\ 1 \in 1..Len(input[1])
    BY <1>1 DEF IsList
  <2>4. /\ line = 1 /\ word = 1 /\ errors = 0 /\ did = {} /\ met = {} /\ exit # "0"
        /\ UNCHANGED <<line, word, errors, exit>>
        /\ tlpc' \in {"userdir", "default", "create", "write", "exists"}
    BY <1>1, <1>4 DEF ToolsInv, Placed, Worked, TL!Goto, TL!place
  <2>5. Placed'
    BY <1>1, <2>3, <2>4 DEF Placed, Preparing, TL!Programs
  <2>6. Worked'
    BY <1>1, <2>1, <2>2, <2>4 DEF Worked, Running, TL!ListsAreCarriedOut, TL!Adders
  <2> QED
    BY <2>5, <2>6 DEF ToolsInv
<1> QED
  BY <1>2, <1>3, <1>4
  DEF TL!Script, TL!SetupUserDir, TL!MoveDefault, TL!CreateDefault, TL!WriteDefault, Preparing

LEMMA ToolsKeep ==
    ASSUME ToolsInv, TL!Next
    PROVE  ToolsInv'
<1>1. CASE TL!Kill
  BY <1>1, EndsBadly DEF TL!Kill, TL!run
<1>2. CASE TL!Other
  <2>1. Passed' = Passed /\ TL!Words' = TL!Words
    BY <1>2 DEF TL!Other, TL!run, TL!place, Passed, TL!Words
  <2> QED
    BY <1>2, <2>1 DEF TL!Other, TL!run, TL!place, ToolsInv, Placed, Worked, Running,
       Preparing, TL!ListsAreCarriedOut
<1> QED
  BY <1>1, <1>2, StartKeeps, WordsKeep, LastKeeps, SetupKeeps DEF TL!Next

LEMMA ToolsInvariance == ProgramsSpec => [](which = "tools" => ToolsInv)
<1>1. ProgramsInit => (which = "tools" => ToolsInv)
  BY InitTools DEF ProgramsInit
<1>2. (which = "tools" => ToolsInv) /\ [ProgramsNext]_programsVars
        => (which = "tools" => ToolsInv)'
  <2> SUFFICES ASSUME which = "tools" => ToolsInv, [ProgramsNext]_programsVars,
                      which' = "tools"
               PROVE  ToolsInv'
    OBVIOUS
  <2>1. CASE UNCHANGED programsVars
    <3>1. Passed' = Passed /\ TL!Words' = TL!Words
      BY <2>1 DEF programsVars, tlVars, Passed, TL!Words
    <3> QED
      BY <2>1, <3>1 DEF programsVars, tlVars, ToolsInv, Placed, Worked, Running,
         Preparing, TL!ListsAreCarriedOut
  <2>2. CASE which = "tools" /\ TL!Next
    BY <2>2, ToolsKeep
  <2> QED
    BY <2>1, <2>2 DEF ProgramsNext
<1> QED
  BY <1>1, <1>2, PTL DEF ProgramsSpec

(* A tool that exits with status 0 has done all of its list, but for the   *)
(* aliases of vadduser and for vchattr once it has counted Limit errors;   *)
(* no adder adds an alias to a user it could not add.  So it is with lists *)
(* of any length and whatever other programs do to the table meanwhile.    *)
THEOREM ToolsCarryOutLists == ProgramsSpec => []ListsAreCarriedOut
<1>1. (which = "tools" => ToolsInv) => ListsAreCarriedOut
  BY DEF ToolsInv, Worked, ListsAreCarriedOut
<1> QED
  BY <1>1, ToolsInvariance, PTL

-----------------------------------------------------------------------------
(* vsetup and the file that was there *)

(* What vsetup has done about .qmail-default when it is at a step.         *)
Kept ==
    prog = "vsetup" =>
        /\ tlpc \in {"pre", "userdir", "default"} => default = before
        /\ tlpc \in {"create", "write"} \/ Running => (before # "none" => backup = before)
        /\ tlpc \in {"default", "create", "write"} \/ Running => usersdir
        /\ Running => default = "vdeliver"

SetupInv == Placed /\ Kept /\ (exit = "0" => tlpc = "ended") /\ TL!SetupKeepsOld

(* A program that is past its preparations leaves the files alone. *)
LEMMA FilesAlone ==
    ASSUME SetupInv, UNCHANGED <<prog, usersdir, default, backup, before>>, prog # "none",
           tlpc \in {"exists", "set", "last"}, tlpc' \in {"exists", "set", "last", "post"},
           exit' = exit
    PROVE  (Kept /\ (exit = "0" => tlpc = "ended") /\ TL!SetupKeepsOld)'
BY DEF SetupInv, Kept, Running, TL!SetupKeepsOld

(* An end other than with status 0 leaves the old file in one of its two   *)
(* places.                                                                 *)
LEMMA EndsKept ==
    ASSUME SetupInv, tlpc # "ended", NEW code, TL!End(code),
           code = "0" => tlpc \in {"last", "post"},
           UNCHANGED <<prog, usersdir, default, backup, before>>
    PROVE  (Kept /\ (exit = "0" => tlpc = "ended") /\ TL!SetupKeepsOld)'
BY DEF SetupInv, Placed, Kept, Running, Preparing, TL!End, TL!SetupKeepsOld

LEMMA SetupInvKeeps ==
    ASSUME SetupInv, ToolsInv, ToolsInv', TL!Next
    PROVE  SetupInv'
<1> DEFINE Goal == (Kept /\ (exit = "0" => tlpc = "ended") /\ TL!SetupKeepsOld)'
<1> SUFFICES Goal
  BY DEF SetupInv, ToolsInv
<1>1. CASE TL!Start
  BY <1>1 DEF TL!Start, TL!disk, Kept, Running, TL!SetupKeepsOld, TL!Adders
<1>2. CASE TL!Exists \/ TL!Set
  <2>1. /\ tlpc \in {"exists", "set"} /\ prog # "none"
        /\ UNCHANGED <<prog, usersdir, default, backup, before>>
    BY <1>2 DEF TL!Exists, TL!Set, TL!run, TL!disk, SetupInv, Placed
  <2>2. CASE TL!End("1")
    BY <2>1, <2>2, EndsKept
  <2>3. CASE exit' = exit /\ tlpc' \in {"exists", "set", "last"}
    BY <2>1, <2>3, FilesAlone
  <2>4. TL!End("1") \/ TL!NextWord(0) \/ TL!NextWord(1) \/ TL!NextLine(1) \/ TL!Goto("set")
    <3>1. TL!Failed => TL!End("1") \/ TL!NextWord(0) \/ TL!NextWord(1) \/ TL!NextLine(1)
      BY <2>1 DEF TL!Failed, TL!AddUserFailed, TL!AddOneFailed, TL!OneFailed, SetupInv,
         Placed, TL!Programs, TL!Adders
    <3> QED
      BY <1>2, <3>1 DEF TL!Exists, TL!Set
  <2>5. ASSUME NEW n, TL!NextWord(n) \/ TL!NextLine(n)
        PROVE  exit' = exit /\ tlpc' \in {"exists", "set", "last"}
    BY <2>5 DEF TL!NextWord, TL!NextLine, TL!Look
  <2> QED
    BY <2>2, <2>3, <2>4, <2>5 DEF TL!Goto, TL!place
<1>3. CASE TL!Last
  <2>1. /\ tlpc = "last" /\ prog # "none"
        /\ UNCHANGED <<prog, usersdir, default, backup, before>>
    BY <1>3 DEF TL!Last, TL!run, TL!disk, SetupInv, Placed
  <2>2. CASE TL!Goto("post")
    BY <2>1, <2>2, FilesAlone DEF TL!Goto, TL!place
  <2>3. CASE TL!End("0") \/ TL!End("1")
    BY <2>1, <2>3, EndsKept
  <2> QED
    BY <1>3, <2>2, <2>3 DEF TL!Last
<1>4. CASE TL!Kill
  BY <1>4, EndsKept DEF TL!Kill, TL!run, TL!disk
<1>5. CASE TL!Other
  BY <1>5 DEF TL!Other, TL!run, TL!place, SetupInv, Kept, Running, TL!SetupKeepsOld
<1>6. CASE TL!Script \/ TL!SetupUserDir \/ TL!MoveDefault \/ TL!CreateDefault \/ TL!WriteDefault
  <2>1. prog = "vsetup" /\ tlpc # "ended" /\ exit # "0" /\ UNCHANGED <<prog, before>>
    BY <1>6 DEF SetupInv, Placed, Preparing, TL!Script, TL!SetupUserDir, TL!MoveDefault,
       TL!CreateDefault, TL!WriteDefault, TL!run
  <2>2. CASE TL!Script
    <3>1. CASE TL!End("1") \/ (tlpc = "post" /\ TL!End("0"))
      BY <2>1, <2>2, <3>1, EndsKept DEF TL!Script, TL!disk, TL!run
    <3>2. CASE tlpc = "pre" /\ TL!Goto("userdir")
      BY <2>1, <2>2, <3>2
      DEF TL!Script, TL!disk, TL!Goto, TL!place, SetupInv, Kept, Running, TL!SetupKeepsOld
    <3> QED
      BY <2>2, <3>1, <3>2 DEF TL!Script
  <2>3. CASE TL!SetupUserDir
    BY <2>1, <2>3
    DEF TL!SetupUserDir, TL!Goto, TL!End, TL!place, SetupInv, Kept, Running, TL!SetupKeepsOld
  <2>4. CASE TL!MoveDefault
    BY <2>1, <2>4
    DEF TL!MoveDefault, TL!Goto, TL!End, TL!place, SetupInv, Kept, Running, TL!SetupKeepsOld
  <2>5. CASE TL!CreateDefault \/ TL!WriteDefault
    BY <2>1, <2>5
    DEF TL!CreateDefault, TL!WriteDefault, TL!Goto, TL!End, TL!place, SetupInv, Kept, Running,
        TL!SetupKeepsOld
  <2> QED
    BY <1>6, <2>2, <2>3, <2>4, <2>5
<1> QED
  BY <1>1, <1>2, <1>3, <1>4, <1>5, <1>6 DEF TL!Next

LEMMA SetupInvariance == ProgramsSpec => [](which = "tools" => SetupInv)
<1>1. ProgramsInit => (which = "tools" => SetupInv)
  BY InitTools
  DEF ProgramsInit, TL!Init, ToolsInv, SetupInv, Kept, Running, TL!SetupKeepsOld
<1>2. (which = "tools" => SetupInv) /\ (which = "tools" => ToolsInv)
      /\ (which = "tools" => ToolsInv)' /\ [ProgramsNext]_programsVars
        => (which = "tools" => SetupInv)'
  <2> SUFFICES ASSUME which = "tools" => SetupInv, which = "tools" => ToolsInv, ToolsInv',
                      [ProgramsNext]_programsVars, which' = "tools"
               PROVE  SetupInv'
    OBVIOUS
  <2>1. CASE UNCHANGED programsVars
    BY <2>1 DEF programsVars, tlVars, SetupInv, ToolsInv, Kept, Running, TL!SetupKeepsOld
  <2>2. CASE which = "tools" /\ TL!Next
    BY <2>2, SetupInvKeeps
  <2> QED
    BY <2>1, <2>2 DEF ProgramsNext
<1> QED
  BY <1>1, <1>2, ToolsInvariance, PTL DEF ProgramsSpec

(* What .qmail-default held before vsetup is in it or in its backup at any *)
(* end of vsetup and at any step on the way, and after success             *)
(* .qmail-default runs vdeliver.                                           *)
THEOREM SetupKeepsTheOldFile == ProgramsSpec => []SetupKeepsOld
<1>1. (which = "tools" => SetupInv) => SetupKeepsOld
  BY DEF SetupInv, SetupKeepsOld
<1> QED
  BY <1>1, SetupInvariance, PTL

-----------------------------------------------------------------------------
(* The autoresponse command: the inductive invariant *)

(* Where a request can take its process. *)
StepsOf(act) ==
    {pcs \in PCs :
        \/ /\ act = "write"
           /\ pcs \in {"isdir", "mkdir", "lock", "disabled", "open", "flush", "rename", "unlink"}
        \/ act \in {"enable", "disable"} /\ pcs \in {"location", "disabled", "rename"}
        \/ act = "read" /\ pcs \in {"location", "disabled", "readlocation", "readdisabled"}
        \/ act = "delete" /\ pcs \in {"isdir", "opendir", "empty"}}

AtWork ==
    \A p \in Procs : pc[p] # "idle" => req[p] \in Reqs /\ pc[p] \in StepsOf(req[p].act)

(* A write has a file from its creation of the lock to its end. *)
Writing(p) ==
    \/ pc[p] \in {"flush", "unlink"}
    \/ pc[p] = "rename" /\ req[p].act = "write"
HasFile == \A p \in Procs : IF Writing(p) THEN fd[p] \in Inodes ELSE fd[p] = None
FilesApart == \A p, q \in Procs : fd[p] = fd[q] => p = q \/ fd[p] = None

(* Until a delete interferes that file is the one named lock, and holds    *)
(* the message by the time it is renamed.                                  *)
Locked ==
    swept \/ \A p \in Procs : Writing(p) =>
                 /\ link["lock"] = fd[p]
                 /\ pc[p] = "rename" => text[fd[p]] # Part

(* A request that is alone finds what it has checked for. *)
OnlyOne == alone => \A p, q \in Procs : pc[p] # "idle" /\ pc[q] # "idle" => p = q
NoneKept ==
    alone => \A p \in Procs :
                 pc[p] \in {"open", "flush"} \/ Writing(p) => link["disabled"] = None

IInv == /\ TypeOK
        /\ AtWork
        /\ HasFile
        /\ FilesApart
        /\ Locked
        /\ WholeUnlessSwept
        /\ OnlyOne
        /\ NoneKept
        /\ OneCopyAlone

USE DEF Names, Texts, PCs

LEMMA InitInv == Init => IInv
<1> SUFFICES ASSUME Init PROVE IInv OBVIOUS
<1>1. TypeOK
  <2>1. text \in [Inodes -> Texts] BY DEF Init
  <2>2. pc \in [Procs -> PCs] /\ todo \in [Procs -> SUBSET Names] BY DEF Init
  <2>3. req \in [Procs -> Reqs \cup {None}] /\ fd \in [Procs -> Inodes \cup {None}]
    BY DEF Init
  <2>4. link \in [Names -> Inodes \cup {None}] /\ tries \in [Procs -> 0..2] BY DEF Init
  <2>5. QED BY <2>1, <2>2, <2>3, <2>4 DEF Init, TypeOK
<1>2. \A p \in Procs : pc[p] = "idle" /\ ~Writing(p) BY DEF Init, Writing
<1>3. AtWork /\ OnlyOne BY <1>2 DEF AtWork, OnlyOne
<1>4. HasFile /\ FilesApart BY <1>2 DEF HasFile, FilesApart, Init
<1>5. Locked /\ NoneKept BY <1>2 DEF Locked, NoneKept
<1>6. WholeUnlessSwept /\ OneCopyAlone
  BY AutoresponseAssumption DEF Init, WholeUnlessSwept, OneCopyAlone
<1>7. QED BY <1>1, <1>3, <1>4, <1>5, <1>6 DEF IInv

-----------------------------------------------------------------------------
(* Steps that change no name and no file *)

(* A process goes on to step s of its request; a write that has its file  *)
(* can only give up.                                                       *)
LEMMA OwnStep ==
    ASSUME IInv, NEW p \in Procs, pc[p] # "idle",
           NEW s \in PCs, s # "idle", s \in StepsOf(req[p].act),
           IF Writing(p) THEN s = "unlink"
           ELSE s \notin {"flush", "unlink"} /\ ~(s = "rename" /\ req[p].act = "write"),
           s = "open" => link["disabled"] = None,
           Goto(p, s), UNCHANGED <<dir, link, text, shown, local, rest>>
    PROVE  IInv'
<1> USE DEF IInv, Goto, local, rest
<1>1. TypeOK' BY DEF TypeOK
<1>2. AtWork' BY DEF AtWork, TypeOK
<1>3. \A q \in Procs : Writing(q)' <=> Writing(q)
  <2>1. Writing(p)' <=> Writing(p)
    <3>1. pc'[p] = s /\ req'[p] = req[p] BY DEF TypeOK
    <3>2. CASE Writing(p) BY <3>1, <3>2 DEF Writing
    <3>3. CASE ~Writing(p) BY <3>1, <3>3 DEF Writing
    <3>4. QED BY <3>2, <3>3
  <2>2. \A q \in Procs \ {p} : pc'[q] = pc[q] /\ req'[q] = req[q] BY DEF TypeOK
  <2>3. QED BY <2>1, <2>2 DEF Writing
<1>4. HasFile' /\ FilesApart' BY <1>3 DEF HasFile, FilesApart
<1>5. Locked' BY <1>3 DEF Locked, TypeOK
<1>6. WholeUnlessSwept' BY DEF WholeUnlessSwept
<1>7. OnlyOne' BY DEF OnlyOne, TypeOK
<1>8. NoneKept' BY <1>3 DEF NoneKept, TypeOK, Writing
<1>9. OneCopyAlone' BY DEF OneCopyAlone
<1>10. QED BY <1>1, <1>2, <1>4, <1>5, <1>6, <1>7, <1>8, <1>9

LEMMA Ending ==
    ASSUME IInv, NEW p \in Procs,
           End(p), UNCHANGED <<dir, link, text, shown, rest>>
    PROVE  IInv'
<1> USE DEF IInv, End, Goto, rest
<1>1. TypeOK' BY DEF TypeOK
<1>2. AtWork' BY DEF AtWork, TypeOK
<1>3. ~Writing(p)' /\ \A q \in Procs \ {p} : Writing(q)' <=> Writing(q)
  BY DEF Writing, TypeOK
<1>4. HasFile' /\ FilesApart' BY <1>3 DEF HasFile, FilesApart, TypeOK
<1>5. Locked' BY <1>3 DEF Locked, TypeOK
<1>6. WholeUnlessSwept' BY DEF WholeUnlessSwept
<1>7. OnlyOne' BY DEF OnlyOne, TypeOK
<1>8. NoneKept' BY <1>3 DEF NoneKept, TypeOK
<1>9. OneCopyAlone' BY DEF OneCopyAlone
<1>10. QED BY <1>1, <1>2, <1>4, <1>5, <1>6, <1>7, <1>8, <1>9

(* Check, in either way. *)
LEMMA Checking ==
    ASSUME IInv, NEW p \in Procs, pc[p] # "idle",
           NEW ok \in BOOLEAN, NEW s \in PCs, s # "idle",
           ok => /\ s \in StepsOf(req[p].act)
                 /\ IF Writing(p) THEN s = "unlink"
                    ELSE s \notin {"flush", "unlink"} /\ ~(s = "rename" /\ req[p].act = "write")
                 /\ s = "open" => link["disabled"] = None,
           Check(p, ok, s)
    PROVE  IInv'
<1>1. CASE ok
  <2>1. Goto(p, s) /\ UNCHANGED <<dir, link, text, shown, local, rest>>
    BY <1>1 DEF Check, local, rest
  <2>2. QED BY <1>1, <2>1, OwnStep
<1>2. CASE ~ok BY <1>2, Ending DEF Check
<1>3. QED BY <1>1, <1>2

-----------------------------------------------------------------------------
(* Steps that change a name, a file or the directory *)

LEMMA RequestKeeps ==
    ASSUME IInv, NEW p \in Procs, Request(p) PROVE IInv'
<1> USE DEF IInv, Request, Goto
<1>1. PICK r \in Reqs : req' = [req EXCEPT ![p] = r] /\ Goto(p, First(r.act)) OBVIOUS
<1>2. First(r.act) \in {"isdir", "location"} /\ First(r.act) \in StepsOf(r.act)
  BY DEF First, StepsOf, Reqs
<1>3. TypeOK' BY <1>1, <1>2 DEF TypeOK
<1>4. AtWork' BY <1>1, <1>2 DEF AtWork, TypeOK
<1>5. ~Writing(p)' /\ ~Writing(p) BY <1>1, <1>2 DEF Writing, TypeOK
<1>6. \A q \in Procs \ {p} : pc'[q] = pc[q] /\ (Writing(q)' <=> Writing(q))
  BY <1>1 DEF Writing, TypeOK
<1>7. HasFile' /\ FilesApart' BY <1>5, <1>6 DEF HasFile, FilesApart
<1>8. Locked' BY <1>5, <1>6 DEF Locked
<1>9. WholeUnlessSwept' BY DEF WholeUnlessSwept
<1>10. OnlyOne' BY <1>6 DEF OnlyOne, TypeOK
<1>11. NoneKept' BY <1>1, <1>2, <1>5, <1>6 DEF NoneKept, TypeOK
<1>12. OneCopyAlone' BY DEF OneCopyAlone
<1>13. QED BY <1>3, <1>4, <1>7, <1>8, <1>9, <1>10, <1>11, <1>12

LEMMA MkDirKeeps ==
    ASSUME IInv, NEW p \in Procs, MkDir(p) PROVE IInv'
<1>1. CASE dir
  <2>1. Check(p, FALSE, "lock") BY <1>1 DEF MkDir
  <2>2. QED BY <2>1, Checking DEF MkDir
<1>2. CASE ~dir
  <2> USE <1>2 DEF MkDir, IInv, Goto, local, rest
  <2>1. AtWork'
    <3>1. req[p] \in Reqs /\ req[p].act = "write" BY DEF AtWork, StepsOf, TypeOK
    <3>2. QED BY <3>1 DEF AtWork, StepsOf, TypeOK
  <2>2. ~Writing(p)' /\ ~Writing(p) /\ \A q \in Procs \ {p} : Writing(q)' <=> Writing(q)
    BY DEF Writing, TypeOK
  <2>3. TypeOK' BY DEF TypeOK
  <2>4. HasFile' /\ FilesApart' /\ Locked' BY <2>2 DEF HasFile, FilesApart, Locked, TypeOK
  <2>5. WholeUnlessSwept' /\ OneCopyAlone' BY DEF WholeUnlessSwept, OneCopyAlone
  <2>6. OnlyOne' BY DEF OnlyOne, TypeOK
  <2>7. NoneKept' BY <2>2 DEF NoneKept, TypeOK
  <2>8. QED BY <2>1, <2>3, <2>4, <2>5, <2>6, <2>7
<1>3. QED BY <1>1, <1>2

(* A file that nobody uses gets the name lock: nobody else has a file yet. *)
LEMMA OpenKeeps ==
    ASSUME IInv, NEW p \in Procs, Open(p) PROVE IInv'
<1>1. CASE dir /\ link["lock"] = None
  <2> USE DEF IInv, Goto, rest
  <2>1. PICK i \in Inodes \ InUse :
          /\ link' = [link EXCEPT !["lock"] = i]
          /\ text' = [text EXCEPT ![i] = Part]
          /\ fd' = [fd EXCEPT ![p] = i]
          /\ Goto(p, "flush")
          /\ UNCHANGED <<dir, req, todo, tries, shown, rest>>
    BY <1>1 DEF Open
  <2>2. TypeOK' BY <2>1 DEF TypeOK
  <2>3. req[p] \in Reqs /\ req[p].act = "write" BY DEF Open, AtWork, StepsOf, TypeOK
  <2>4. AtWork' BY <2>1, <2>3 DEF AtWork, StepsOf, TypeOK
  <2>5. Writing(p)' /\ ~Writing(p) BY <2>1 DEF Open, Writing, TypeOK
  <2>6. \A q \in Procs \ {p} : Writing(q)' <=> Writing(q) BY <2>1 DEF Writing, TypeOK
  <2>7. HasFile' /\ FilesApart' BY <2>1, <2>5, <2>6 DEF HasFile, FilesApart, InUse, TypeOK
  <2>8. Locked'
    <3>1. CASE swept BY <2>1, <3>1 DEF Locked
    <3>2. CASE ~swept
      <4>1. \A q \in Procs : ~Writing(q)
        BY <1>1, <3>2, AutoresponseAssumption DEF Locked, HasFile
      <4>2. QED BY <2>1, <2>6, <4>1 DEF Locked, TypeOK
    <3>3. QED BY <3>1, <3>2
  <2>9. link'["location"] = link["location"] /\ link'["disabled"] = link["disabled"]
    BY <2>1 DEF TypeOK
  <2>10. \A n \in Names : link[n] # None => link[n] # i BY DEF InUse
  <2>11. WholeUnlessSwept' BY <2>1, <2>9, <2>10 DEF WholeUnlessSwept, TypeOK
  <2>12. OnlyOne' BY <2>1 DEF OnlyOne, TypeOK, Open
  <2>13. NoneKept' BY <2>1, <2>5, <2>6, <2>9 DEF NoneKept, TypeOK, Open
  <2>14. OneCopyAlone' BY <2>1, <2>9 DEF OneCopyAlone
  <2>15. QED BY <2>2, <2>4, <2>7, <2>8, <2>11, <2>12, <2>13, <2>14
<1>2. CASE ~(dir /\ link["lock"] = None)
  <2>1. Check(p, FALSE, "flush") BY <1>2 DEF Open
  <2>2. QED BY <2>1, Checking DEF Open
<1>3. QED BY <1>1, <1>2

(* The lock is the only name of the file a write fills. *)
LEMMA FlushKeeps ==
    ASSUME IInv, NEW p \in Procs, Flush(p) PROVE IInv'
<1> USE DEF IInv, Flush, Goto, local, rest
<1>1. req[p] \in Reqs /\ req[p].act = "write" BY DEF AtWork, StepsOf, TypeOK
<1>2. req[p].msg \in Msgs BY <1>1 DEF Reqs
<1>3. Writing(p) /\ Writing(p)' BY <1>1 DEF Writing, TypeOK
<1>4. \A q \in Procs \ {p} : Writing(q)' <=> Writing(q) BY DEF Writing, TypeOK
<1>5. fd[p] \in Inodes BY <1>3 DEF HasFile
<1>6. TypeOK' BY <1>2, <1>5 DEF TypeOK
<1>7. AtWork' BY <1>1 DEF AtWork, StepsOf, TypeOK
<1>8. HasFile' /\ FilesApart' BY <1>3, <1>4, <1>5 DEF HasFile, FilesApart, TypeOK
<1>9. \A i \in Inodes : text[i] # Part => text'[i] # Part
  BY <1>2, <1>5, AutoresponseAssumption DEF TypeOK
<1>10. text'[fd[p]] # Part BY <1>2, <1>5, AutoresponseAssumption DEF TypeOK
<1>11. Locked'
  <2>1. SUFFICES ASSUME ~swept, NEW q \in Procs, Writing(q)'
                 PROVE  link'["lock"] = fd'[q] /\ (pc'[q] = "rename" => text'[fd'[q]] # Part)
    BY DEF Locked
  <2>2. CASE q = p BY <1>3, <1>10, <2>1, <2>2 DEF Locked
  <2>3. CASE q # p
    <3>1. Writing(q) /\ fd[q] \in Inodes /\ pc'[q] = pc[q]
      BY <1>4, <2>1, <2>3 DEF HasFile, TypeOK
    <3>2. QED BY <1>9, <2>1, <3>1 DEF Locked
  <2>4. QED BY <2>2, <2>3
<1>12. WholeUnlessSwept' BY <1>9, AutoresponseAssumption DEF WholeUnlessSwept, TypeOK
<1>13. OnlyOne' BY DEF OnlyOne, TypeOK
<1>14. NoneKept' BY <1>3, <1>4 DEF NoneKept, TypeOK
<1>15. OneCopyAlone' BY DEF OneCopyAlone
<1>16. QED BY <1>6, <1>7, <1>8, <1>11, <1>12, <1>13, <1>14, <1>15

(* The file of a write moves with its name; the others keep theirs. *)
LEMMA RenameKeeps ==
    ASSUME IInv, NEW p \in Procs, Rename(p) PROVE IInv'
<1> DEFINE from == From(req[p].act)
           to == To(req[p].act)
<1>1. req[p].act \in {"write", "enable", "disable"}
  BY DEF IInv, Rename, AtWork, StepsOf, TypeOK
<1>2. CASE link[from] # None
  <2> USE DEF IInv, End, Goto, rest
  <2>1. /\ link' = [link EXCEPT ![from] = None, ![to] = link[from]]
        /\ End(p) /\ UNCHANGED <<dir, text, shown, rest>>
    BY <1>2 DEF Rename
  <2>2. <<req[p].act, from, to>> \in {<<"write", "lock", "location">>,
           <<"disable", "location", "disabled">>, <<"enable", "disabled", "location">>}
    BY <1>1 DEF From, To
  <2>3. TypeOK' BY <2>1, <2>2 DEF TypeOK
  <2>4. AtWork' BY <2>1 DEF AtWork, TypeOK
  <2>5. ~Writing(p)' /\ \A q \in Procs \ {p} : Writing(q)' <=> Writing(q)
    BY <2>1 DEF Writing, TypeOK
  <2>6. HasFile' /\ FilesApart' BY <2>1, <2>5 DEF HasFile, FilesApart, TypeOK
  <2>7. Writing(p) <=> from = "lock" BY <2>2 DEF Writing, Rename
  <2>8. Locked'
    <3>1. SUFFICES ASSUME ~swept, NEW q \in Procs, Writing(q)'
                   PROVE  link'["lock"] = fd'[q] /\ (pc'[q] = "rename" => text'[fd'[q]] # Part)
      BY <2>1 DEF Locked
    <3>2. q # p /\ Writing(q) /\ fd[q] \in Inodes BY <2>5, <3>1 DEF HasFile
    <3>3. ~Writing(p)
      BY <3>1, <3>2, AutoresponseAssumption DEF Locked, FilesApart
    <3>4. link'["lock"] = link["lock"] BY <2>1, <2>2, <2>7, <3>3 DEF TypeOK
    <3>5. QED BY <2>1, <3>1, <3>2, <3>4 DEF Locked, TypeOK
  <2>9. WholeUnlessSwept'
    <3>1. SUFFICES ASSUME ~swept PROVE WholeUnlessSwept' BY <2>1 DEF WholeUnlessSwept
    <3>2. text[link[from]] # Part
      BY <1>2, <2>2, <2>7, <3>1 DEF Locked, WholeUnlessSwept, Rename
    <3>3. QED BY <2>1, <2>2, <3>1, <3>2 DEF WholeUnlessSwept, TypeOK
  <2>10. OnlyOne' BY <2>1 DEF OnlyOne, TypeOK
  <2>11. NoneKept'
    <3>1. SUFFICES ASSUME alone, NEW q \in Procs, pc'[q] # "idle" PROVE FALSE
      BY <2>1 DEF NoneKept, Writing
    <3>2. pc[q] # "idle" /\ q # p BY <2>1, <3>1 DEF TypeOK
    <3>3. QED BY <3>1, <3>2 DEF OnlyOne, Rename
  <2>12. OneCopyAlone'
    <3>1. CASE from = "lock"
      <4>1. alone => link["disabled"] = None BY <2>7, <3>1 DEF NoneKept
      <4>2. link'["disabled"] = link["disabled"] BY <2>1, <2>2, <3>1 DEF TypeOK
      <4>3. QED BY <2>1, <4>1, <4>2 DEF OneCopyAlone
    <3>2. CASE from # "lock" BY <2>1, <2>2, <3>2 DEF OneCopyAlone, TypeOK
    <3>3. QED BY <3>1, <3>2
  <2>13. QED BY <2>3, <2>4, <2>6, <2>8, <2>9, <2>10, <2>11, <2>12
<1>3. CASE link[from] = None
  <2>1. Check(p, req[p].act = "write", "unlink") BY <1>3 DEF Rename
  <2>2. req[p].act = "write" => Writing(p) /\ "unlink" \in StepsOf(req[p].act)
    BY DEF Rename, Writing, StepsOf
  <2>3. QED BY <2>1, <2>2, Checking DEF Rename
<1>4. QED BY <1>2, <1>3

(* What the steps that only take names away leave as it is. *)
LEMMA Unlinking ==
    ASSUME IInv, NEW n \in Names, link' = [link EXCEPT ![n] = None],
           UNCHANGED <<text, shown, alone>>, swept \in BOOLEAN, swept => swept'
    PROVE  WholeUnlessSwept' /\ OneCopyAlone' /\ (link["disabled"] = None => link'["disabled"] = None)
BY DEF IInv, WholeUnlessSwept, OneCopyAlone, TypeOK

LEMMA UnlinkKeeps ==
    ASSUME IInv, NEW p \in Procs, Unlink(p) PROVE IInv'
<1> USE DEF IInv, Unlink, End, Goto, rest
<1>1. TypeOK' BY DEF TypeOK
<1>2. AtWork' BY DEF AtWork, TypeOK
<1>3. Writing(p) /\ ~Writing(p)' /\ \A q \in Procs \ {p} : Writing(q)' <=> Writing(q)
  BY DEF Writing, TypeOK
<1>4. HasFile' /\ FilesApart' BY <1>3 DEF HasFile, FilesApart, TypeOK
<1>5. ~swept => \A q \in Procs : Writing(q) => q = p
  BY <1>3, AutoresponseAssumption DEF Locked, HasFile, FilesApart
<1>6. Locked' BY <1>3, <1>5 DEF Locked
<1>7. WholeUnlessSwept' /\ OneCopyAlone' /\ (link["disabled"] = None => link'["disabled"] = None)
  BY Unlinking DEF TypeOK
<1>8. OnlyOne' BY DEF OnlyOne, TypeOK
<1>9. NoneKept' BY <1>3, <1>7 DEF NoneKept, TypeOK
<1>10. QED BY <1>1, <1>2, <1>4, <1>6, <1>7, <1>8, <1>9

(* read answers with what it finds under a name that stands for a message. *)
LEMMA ReadKeeps ==
    ASSUME IInv, NEW p \in Procs, Read(p) PROVE IInv'
<1> DEFINE n == IF pc[p] = "readlocation" THEN "location" ELSE "disabled"
<1>1. CASE link[n] # None
  <2> USE DEF IInv, End, Goto, rest
  <2>1. shown' = text[link[n]] /\ End(p) /\ UNCHANGED <<dir, link, text, rest>>
    BY <1>1 DEF Read
  <2>2. text[link[n]] \in Texts BY <1>1 DEF TypeOK
  <2>3. TypeOK' BY <2>1, <2>2 DEF TypeOK
  <2>4. AtWork' BY <2>1 DEF AtWork, TypeOK
  <2>5. ~Writing(p)' /\ \A q \in Procs \ {p} : Writing(q)' <=> Writing(q)
    BY <2>1 DEF Writing, TypeOK
  <2>6. HasFile' /\ FilesApart' BY <2>1, <2>5 DEF HasFile, FilesApart, TypeOK
  <2>7. Locked' BY <2>1, <2>5 DEF Locked, TypeOK
  <2>8. WholeUnlessSwept' BY <1>1, <2>1 DEF WholeUnlessSwept
  <2>9. OnlyOne' BY <2>1 DEF OnlyOne, TypeOK
  <2>10. NoneKept' BY <2>1, <2>5 DEF NoneKept, TypeOK
  <2>11. OneCopyAlone' BY <2>1 DEF OneCopyAlone
  <2>12. QED BY <2>3, <2>4, <2>6, <2>7, <2>8, <2>9, <2>10, <2>11
<1>2. CASE link[n] = None
  <2>1. Check(p, pc[p] = "readlocation", "readdisabled") BY <1>2 DEF Read
  <2>2. req[p] \in Reqs /\ req[p].act = "read" BY DEF IInv, Read, AtWork, StepsOf, TypeOK
  <2>3. ~Writing(p) /\ "readdisabled" \in StepsOf(req[p].act) BY <2>2 DEF Read, Writing, StepsOf
  <2>4. QED BY <2>1, <2>3, Checking DEF Read
<1>3. QED BY <1>1, <1>2

LEMMA OpenDirKeeps ==
    ASSUME IInv, NEW p \in Procs, OpenDir(p) PROVE IInv'
<1>1. CASE dir
  <2> USE <1>1 DEF OpenDir, IInv, Goto, rest
  <2>1. TypeOK' BY DEF TypeOK
  <2>2. AtWork' BY DEF AtWork, StepsOf, TypeOK
  <2>3. ~Writing(p) /\ ~Writing(p)' /\ \A q \in Procs \ {p} : Writing(q)' <=> Writing(q)
    BY DEF Writing, TypeOK
  <2>4. HasFile' /\ FilesApart' /\ Locked' BY <2>3 DEF HasFile, FilesApart, Locked, TypeOK
  <2>5. WholeUnlessSwept' /\ OneCopyAlone' BY DEF WholeUnlessSwept, OneCopyAlone
  <2>6. OnlyOne' BY DEF OnlyOne, TypeOK
  <2>7. NoneKept' BY <2>3 DEF NoneKept, TypeOK
  <2>8. QED BY <2>1, <2>2, <2>4, <2>5, <2>6, <2>7
<1>2. CASE ~dir
  <2>1. Check(p, FALSE, "empty") BY <1>2 DEF OpenDir
  <2>2. QED BY <2>1, Checking DEF OpenDir
<1>3. QED BY <1>1, <1>2

(* If it takes the lock of a living write away, that is what swept says. *)
LEMMA SweepKeeps ==
    ASSUME IInv, NEW p \in Procs, Sweep(p) PROVE IInv'
<1>1. PICK n \in todo[p] :
        IF link[n] = None THEN Check(p, FALSE, "empty")
        ELSE /\ link' = [link EXCEPT ![n] = None]
             /\ todo' = [todo EXCEPT ![p] = @ \ {n}]
             /\ swept' = (swept \/ (n = "lock" /\ \E q \in Procs : fd[q] = link[n]))
             /\ UNCHANGED <<dir, text, pc, req, fd, tries, shown, alone>>
  BY DEF Sweep
<1>2. n \in Names BY <1>1 DEF IInv, TypeOK
<1>3. CASE link[n] = None
  <2>1. Check(p, FALSE, "empty") BY <1>1, <1>3
  <2>2. QED BY <2>1, Checking DEF Sweep
<1>4. CASE link[n] # None
  <2> USE DEF IInv
  <2>1. /\ link' = [link EXCEPT ![n] = None]
        /\ todo' = [todo EXCEPT ![p] = @ \ {n}]
        /\ swept' = (swept \/ (n = "lock" /\ \E q \in Procs : fd[q] = link[n]))
        /\ UNCHANGED <<dir, text, pc, req, fd, tries, shown, alone>>
    BY <1>1, <1>4
  <2>2. TypeOK' BY <1>2, <2>1 DEF TypeOK
  <2>3. AtWork' BY <2>1 DEF AtWork
  <2>4. \A q \in Procs : Writing(q)' <=> Writing(q) BY <2>1 DEF Writing
  <2>5. HasFile' /\ FilesApart' BY <2>1, <2>4 DEF HasFile, FilesApart
  <2>6. Locked'
    <3>1. SUFFICES ASSUME ~swept', NEW q \in Procs, Writing(q)'
                   PROVE  link'["lock"] = fd'[q] /\ (pc'[q] = "rename" => text'[fd'[q]] # Part)
      BY DEF Locked
    <3>2. ~swept /\ Writing(q) /\ link["lock"] = fd[q] BY <2>1, <2>4, <3>1 DEF Locked
    <3>3. n # "lock" BY <2>1, <3>1, <3>2
    <3>4. link'["lock"] = link["lock"] BY <1>2, <2>1, <3>3 DEF TypeOK
    <3>5. QED BY <2>1, <3>2, <3>4 DEF Locked
  <2>7. WholeUnlessSwept' /\ OneCopyAlone' /\ (link["disabled"] = None => link'["disabled"] = None)
    <3>1. swept \in BOOLEAN /\ (swept => swept') BY <2>1 DEF TypeOK
    <3>2. QED BY <1>2, <2>1, <3>1, Unlinking
  <2>8. OnlyOne' BY <2>1 DEF OnlyOne
  <2>9. NoneKept' BY <2>1, <2>4, <2>7 DEF NoneKept
  <2>10. QED BY <2>2, <2>3, <2>5, <2>6, <2>7, <2>8, <2>9
<1>5. QED BY <1>3, <1>4

LEMMA RmDirKeeps ==
    ASSUME IInv, NEW p \in Procs, RmDir(p) PROVE IInv'
<1> USE DEF IInv, rest
<1>1. req[p] \in Reqs /\ req[p].act = "delete" BY DEF RmDir, AtWork, StepsOf, TypeOK
<1>2. TypeOK'
  <2>1. dir' \in BOOLEAN BY DEF RmDir, TypeOK
  <2>2. CASE End(p)
    <3>1. /\ pc' \in [Procs -> PCs] /\ req' \in [Procs -> Reqs \cup {None}]
          /\ fd' \in [Procs -> Inodes \cup {None}] /\ todo' \in [Procs -> SUBSET Names]
          /\ tries' \in [Procs -> 0..2]
      BY <2>2 DEF End, Goto, TypeOK
    <3>2. QED BY <2>1, <3>1 DEF RmDir, TypeOK
  <2>3. CASE ~End(p)
    <3>1. /\ tries[p] < 2 /\ tries' = [tries EXCEPT ![p] = @ + 1]
          /\ Goto(p, "opendir") /\ UNCHANGED <<dir, link, text, shown, req, fd, todo, rest>>
      BY <2>3 DEF RmDir
    <3>2. tries' \in [Procs -> 0..2] BY <3>1 DEF TypeOK
    <3>3. QED BY <3>1, <3>2 DEF Goto, TypeOK
  <2>4. QED BY <2>2, <2>3
<1>3. pc'[p] \in {"idle", "opendir"} /\ pc' = [pc EXCEPT ![p] = pc'[p]]
  BY DEF RmDir, End, Goto, TypeOK
<1>4. \A q \in Procs \ {p} : req'[q] = req[q] /\ fd'[q] = fd[q]
  BY DEF RmDir, End, Goto, TypeOK
<1>5. (pc'[p] = "idle" /\ fd'[p] = None) \/ (pc'[p] = "opendir" /\ req'[p] = req[p] /\ fd'[p] = fd[p])
  BY DEF RmDir, End, Goto, TypeOK
<1>6. UNCHANGED <<link, text, shown, alone, swept>> BY DEF RmDir
<1>7. \A q \in Procs \ {p} : pc'[q] = pc[q] /\ (Writing(q)' <=> Writing(q))
  BY <1>3, <1>4 DEF Writing, TypeOK
<1>8. ~Writing(p) /\ ~Writing(p)' BY <1>3 DEF RmDir, Writing
<1>9. AtWork' BY <1>1, <1>4, <1>5, <1>7 DEF AtWork, StepsOf
<1>10. HasFile' /\ FilesApart' BY <1>4, <1>5, <1>7, <1>8 DEF HasFile, FilesApart
<1>11. Locked' BY <1>4, <1>6, <1>7, <1>8 DEF Locked
<1>12. WholeUnlessSwept' /\ OneCopyAlone' BY <1>6 DEF WholeUnlessSwept, OneCopyAlone
<1>13. OnlyOne' BY <1>6, <1>7 DEF OnlyOne, RmDir
<1>14. NoneKept' BY <1>3, <1>6, <1>7, <1>8 DEF NoneKept
<1>15. QED BY <1>2, <1>9, <1>10, <1>11, <1>12, <1>13, <1>14

(* The steps that only look. *)
LEMMA ChecksKeep ==
    ASSUME IInv, NEW p \in Procs,
           IsDir(p) \/ CheckLocation(p) \/ CheckLock(p) \/ CheckDisabled(p) \/ FlushError(p)
    PROVE  IInv'
<1>1. pc[p] # "idle" BY DEF IsDir, CheckLocation, CheckLock, CheckDisabled, FlushError
<1>2. req[p] \in Reqs /\ pc[p] \in StepsOf(req[p].act) BY <1>1 DEF IInv, AtWork
<1> USE <1>1, <1>2 DEF StepsOf, Writing
<1>3. CASE IsDir(p)
  <2>1. CASE req[p].act = "write"
    <3>1. PICK s \in {"lock", "mkdir"} : Check(p, TRUE, s) BY <1>3, <2>1 DEF IsDir
    <3>2. ~Writing(p) /\ s \in StepsOf(req[p].act) BY <1>3, <2>1 DEF IsDir
    <3>3. QED BY <3>1, <3>2, Checking
  <2>2. CASE req[p].act # "write"
    <3>1. Check(p, dir, "opendir") /\ ~Writing(p) /\ "opendir" \in StepsOf(req[p].act)
      BY <1>3, <2>2 DEF IsDir
    <3>2. QED BY <3>1, Checking DEF IInv, TypeOK
  <2>3. QED BY <2>1, <2>2
<1>4. CASE CheckLocation(p)
  <2>1. PICK ok \in BOOLEAN, s \in {"disabled", "readlocation"} :
          Check(p, ok, s) /\ s \in StepsOf(req[p].act)
    BY <1>4 DEF CheckLocation
  <2>2. ~Writing(p) BY <1>4 DEF CheckLocation
  <2>3. QED BY <2>1, <2>2, Checking
<1>5. CASE CheckLock(p)
  <2>1. Check(p, link["lock"] = None, "disabled") /\ ~Writing(p)
    BY <1>5 DEF CheckLock
  <2>2. "disabled" \in StepsOf(req[p].act) BY <1>5 DEF CheckLock
  <2>3. QED BY <2>1, <2>2, Checking
<1>6. CASE CheckDisabled(p)
  <2>1. PICK ok \in BOOLEAN, s \in {"open", "rename", "readlocation"} :
          /\ Check(p, ok, s) /\ s \in StepsOf(req[p].act)
          /\ s = "open" /\ ok => link["disabled"] = None
          /\ s = "rename" => req[p].act # "write"
    BY <1>6 DEF CheckDisabled
  <2>2. ~Writing(p) BY <1>6 DEF CheckDisabled
  <2>3. QED BY <2>1, <2>2, Checking
<1>7. CASE FlushError(p)
  <2>1. Check(p, TRUE, "unlink") /\ Writing(p) /\ "unlink" \in StepsOf(req[p].act)
    BY <1>7 DEF FlushError
  <2>2. QED BY <2>1, Checking
<1>8. QED BY <1>3, <1>4, <1>5, <1>6, <1>7

-----------------------------------------------------------------------------

LEMMA NextInv == IInv /\ [Next]_vars => IInv'
<1> SUFFICES ASSUME IInv, [Next]_vars PROVE IInv' OBVIOUS
<1>1. CASE UNCHANGED vars
  <2> USE <1>1 DEF vars, IInv
  <2>1. TypeOK' /\ AtWork' BY DEF TypeOK, AtWork
  <2>2. \A q \in Procs : Writing(q)' <=> Writing(q) BY DEF Writing
  <2>3. HasFile' /\ FilesApart' /\ Locked' BY <2>2 DEF HasFile, FilesApart, Locked
  <2>4. OnlyOne' /\ NoneKept' BY <2>2 DEF OnlyOne, NoneKept
  <2>5. WholeUnlessSwept' /\ OneCopyAlone' BY DEF WholeUnlessSwept, OneCopyAlone
  <2>6. QED BY <2>1, <2>3, <2>4, <2>5
<1>2. CASE Next
  <2>1. PICK p \in Procs : Request(p) \/ Step(p) \/ Die(p) BY <1>2 DEF Next
  <2>2. CASE Request(p) BY <2>2, RequestKeeps
  <2>3. CASE Step(p)
    BY <2>3, ChecksKeep, MkDirKeeps, OpenKeeps, FlushKeeps, RenameKeeps, UnlinkKeeps,
       ReadKeeps, OpenDirKeeps, SweepKeeps, RmDirKeeps DEF Step
  <2>4. CASE Die(p) BY <2>4, Ending DEF Die
  <2>5. QED BY <2>1, <2>2, <2>3, <2>4
<1>3. QED BY <1>1, <1>2

LEMMA Invariance == Spec => []IInv
<1>1. QED BY InitInv, NextInv, PTL DEF Spec

(* Every variable of the command keeps its type (daemon/autoresponse.cc).  *)
THEOREM TypeInvariance == Spec => []TypeOK
<1>1. IInv => TypeOK BY DEF IInv
<1>2. QED BY <1>1, Invariance, PTL

(* What is sent, kept or shown has been written to its end, unless a       *)
(* delete has taken the lock of a living write away (autoresponse_write).  *)
THEOREM MessagesAreWhole == Spec => []WholeUnlessSwept
<1>1. IInv => WholeUnlessSwept BY DEF IInv
<1>2. QED BY <1>1, Invariance, PTL

(* Requests that never overlap leave a message in one place, deaths        *)
(* included (autoresponse_enable, autoresponse_disable).                   *)
THEOREM AloneOneCopy == Spec => []OneCopyAlone
<1>1. IInv => OneCopyAlone BY DEF IInv
<1>2. QED BY <1>1, Invariance, PTL

=============================================================================
