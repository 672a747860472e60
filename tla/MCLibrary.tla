------------------------------ MODULE MCLibrary ------------------------------
(***************************************************************************)
(* Instances for the model checker of the parts of the library that run in *)
(* one process and keep their state to themselves.  Every behaviour is one *)
(* of one component, named by "which"; its variables are x1, x2, ... in    *)
(* the order the component declares them, and those it does not need are 0.*)
(***************************************************************************)
EXTENDS Naturals, Sequences, TLC

CONSTANTS
    None, Root, k1, k2, k3,
    OutBytes, OutSize, OutMaxLen,           \* of OutBuffer
    InBytes, Terminator, InSize, InMaxLen,  \* of InBuffer
    DigestBlock, DigestWord, DigestStream, DigestMaxLen, DigestLongest, \* of Digest
    HashKeys, HashValues, HashCodes, HashSizes, \* of HashTable
    ByteBase, ArgsMax, Commands, Asks, Systems, \* of Request
    CryptWords, CryptSalts, CryptSaltMax, CryptDigestLen, CryptRounds, CryptKeyMax, \* of Crypt
    CliOptions, CliWords, CliDigits, CliMaxUses, CliArgsMin, CliArgsMax, \* of Options
    StrNames, StrBytes, StrSpaces, StrUpper, StrLower, StrStep, StrSlackDiv, StrSlackMax,
    StrReps, StrNil, StrMaxText, StrMaxOperands, \* of MyString
    Accounts, Passwords, Now                \* of Login

VARIABLES which, x1, x2, x3, x4, x5, x6, x7, x8, x9, x10

xs == <<x1, x2, x3, x4, x5, x6, x7, x8, x9, x10>>
After9 == x10 = 0
After8 == x9 = 0 /\ After9
After7 == x8 = 0 /\ After8
After6 == x7 = 0 /\ After7
After5 == x6 = 0 /\ After6
After4 == x5 = 0 /\ After5
After2 == x3 = 0 /\ x4 = 0 /\ After4

-----------------------------------------------------------------------------
(* Files are of at most four bytes, buffers of two or three. *)
OB == INSTANCE OutBuffer WITH
        Bytes <- OutBytes, Size <- OutSize, MaxLen <- OutMaxLen,
        out <- x1, ref <- x2, at <- x3, astray <- x4, mixed <- x5

IB == INSTANCE InBuffer WITH
        Bytes <- InBytes, Size <- InSize, MaxLen <- InMaxLen,
        data <- x1, in <- x2, call <- x3, want <- x4, got <- x5, from <- x6, upto <- x7,
        skewed <- x8, stale <- x9

(* Hashes collide, are equal and wrap round a table of each size. *)
SomeSizes == <<2, 3, 5>>
HT == INSTANCE HashTable WITH
        Keys <- HashKeys, Values <- HashValues, Hashes <- HashCodes, Primes <- HashSizes,
        hash <- x1, table <- x2, index <- x3, count <- x4, meant <- x5, gapped <- x6

(* Two tables of up to six slots; position 18 is too far for three records.*)
CF == INSTANCE CdbFile WITH
        Keys <- {k1, k2, k3}, Data <- {<<>>, <<"x">>}, Hashes <- 0..4, Tables <- 2, Block <- 2,
        MaxPos <- 18, MaxPuts <- 3,
        hash <- x1, cells <- x2, pos <- x3, list <- x4, mode <- x5, ptr <- x6, walked <- x7,
        puts <- x8

(* Messages of up to nine blocks, whose length in bits needs both words.   *)
DG == INSTANCE Digest WITH
        Block <- DigestBlock, Word <- DigestWord, Stream <- DigestStream,
        MaxLen <- DigestMaxLen, Longest <- DigestLongest,
        ctx <- x1, given <- x2, mode <- x3, digest <- x4

(* Salts are shorter than, as long as and longer than what is used.        *)
SomeWords ==
    UNION {[1..n -> {"a", "b", "NUL"}] : n \in 0..2}
    \cup {<<"a", "b", "a">>, <<"a", "b", "b">>, <<"a", "b", "a", "NUL">>}
SomeSalts == {<<>>, <<"s">>, <<"s", "t">>, <<"s", "t", "u">>, <<"s", "t", "u", "v">>}
CR == INSTANCE Crypt WITH
        Words <- CryptWords, Salts <- CryptSalts, SaltMax <- CryptSaltMax,
        DigestLen <- CryptDigestLen, Rounds <- CryptRounds, CryptMax <- CryptKeyMax,
        form <- x1, pass <- x2, stored <- x3, tried <- x4, matches <- x5

(* Characters are their codes: "*", "-", ".", "0", "5", "7", "9", "a"; 7   *)
(* bits to an unsigned number.  Every old form, whole and cut short.       *)
RC == INSTANCE Record WITH
        UMax <- 127, Now <- 100, Expiry <- 20, MaxChanges <- 2,
        Defaults <- <<127, 127, 7, 127>>,
        Passwords <- {<<42>>, <<97>>}, Directories <- {<<>>, <<46, 97>>},
        Forwards <- {<<>>, <<97>>, <<97, 0, 98>>}, Personals <- {<<>>, <<97>>, <<97, 0, 53>>},
        Numerals <- {<<55>>, <<49, 50, 56>>, <<57, 57, 57>>, <<45, 53>>, <<55, 120>>,
                     <<32, 57, 48>>, <<48>>},
        OldRecords <- {<<58, 97, 58, 46, 97>>, <<58, 97, 58, 38, 97, 44, 98>>,
                       <<58, 97, 58, 97, 44, 44, 98>>, <<58, 97>>, <<58, 58>>,
                       <<1, 97, 0, 46, 0, 0, 97, 0, 48, 0, 45, 0, 55, 0, 48, 0, 48, 0, 45, 0>>,
                       <<1, 97, 0, 0, 97, 0, 98, 0, 0, 0, 48, 0, 45, 0, 55, 0, 48, 0, 48, 0, 45, 0>>,
                       <<2, 8, 0, 0, 97, 0, 46, 0, 0, 0, 48, 0, 45, 0, 55, 0, 48, 0, 48, 0, 45, 0>>,
                       <<3>>, <<>>},
        entry <- x1, changes <- x2

(* "b" owns the domain "d" and "b-c" those below it; in one of the hosts   *)
(* there are users "b-c" and "b-a" as well.  An argument may be longer     *)
(* than a length says.                                                     *)
Virtual == (<<100>> :> <<98>>) @@ (<<46, 100>> :> <<98, 45, 99>>) @@ (<<99>> :> <<>>)
Host(us) == [users |-> us, locals |-> {<<99>>}, virtual |-> Virtual]
Names == {<<>>, <<97>>, <<97, 45, 97>>, <<98, 45, 97>>}
SomeCommands ==
    (<<108>> :> [min |-> 3, max |-> 3, decode |-> TRUE])
        @@ (<<104>> :> [min |-> 5, max |-> 99, decode |-> TRUE])
        @@ (<<100>> :> [min |-> 2, max |-> 2, decode |-> FALSE])
        @@ (<<114>> :> [min |-> 4, max |-> 5, decode |-> TRUE])
SomeAsks ==
    {<<n, d, u, <<112>>>> : n \in {<<108>>, <<>>, <<113>>}, u \in Names,
        d \in {<<100>>, <<68>>, <<97, 46, 100>>, <<99>>, <<97>>}}
    \cup {<<<<114>>, d, u, <<112>>, <<119>>, [i \in 1..k |-> 97]>> :
            d \in {<<100>>, <<97, 46, 100>>}, u \in Names, k \in 0..20}
    \cup {<<<<104>>, <<100>>, u, <<112>>, <<50>>, <<97>>, <<97>>>> : u \in Names}
    \cup {<<<<100>>, d, p>> : d \in {<<98>>, <<98, 45, 97>>}, p \in {<<112>>, <<>>}}
SomeSystems == {Host({<<98>>}), Host({<<98>>, <<98, 45, 99>>, <<98, 45, 97>>})}
RQ == INSTANCE Request WITH
        Base <- ByteBase, MaxArgs <- ArgsMax,
        sys <- x1, asked <- x2, by <- x3, msg <- x4, cmd <- x5, user <- x6, stage <- x7

Stored(k, o) == [kind |-> k, of |-> o]
SomeAccounts ==
    [base : {"b", "c"}, virt : {None, "u"}, expiry : {1, 2, 3}, has : BOOLEAN, dir : {"d"},
     stored : {Stored("md5", "x"), Stored("null", "y"), Stored("empty", None),
               Stored("old", None)}]
SomePasswords == {"x", "y", None}
LG == INSTANCE Login WITH
        prog <- x1, known <- x2, pc <- x3, pass <- x4, acct <- x5, uid <- x6, cwd <- x7,
        env <- x8, maildir <- x9, outcome <- x10

(* One option of every type, two of which have long names that begin alike *)
(* and two of which set the same variable; one has no letter, one no name. *)
Option(c, n, x, t, v) == [ch |-> c, name |-> n, var |-> x, type |-> t, value |-> v]
SomeOptions ==
    {Option("h", <<"h", "e">>, "help", "help", 1), Option("f", <<>>, "f", "flag", 1),
     Option("F", <<"f">>, "f", "flag", 0), Option("", <<"c", "o">>, "c", "counter", 1),
     Option("s", <<"s">>, "s", "string", 0), Option("n", <<"s", "n">>, "n", "integer", 0),
     Option("l", <<"l">>, "l", "list", 0)}
SomeValues == {<<>>, <<"1">>, <<"-", "f">>}
OP == INSTANCE Options WITH
        Opts <- CliOptions, Words <- CliWords, Digits <- CliDigits, MaxUses <- CliMaxUses,
        MinArgs <- CliArgsMin, MaxArgs <- CliArgsMax,
        uses <- x1, operands <- x2, argv <- x3, at <- x4, vals <- x5, status <- x6

(* Two strings and an expression of up to four characters in all; buffers  *)
(* are sized as in the code, and a fourth character does not fit the       *)
(* first.  "a" is the lower case of "A", and a space.                      *)
SomeLower == "A" :> "a"
MS == INSTANCE MyString WITH
        Strings <- StrNames, Bytes <- StrBytes, Spaces <- StrSpaces, Upper <- StrUpper,
        LowerOf <- StrLower, Step <- StrStep, SlackDiv <- StrSlackDiv, SlackMax <- StrSlackMax,
        Reps <- StrReps, Nil <- StrNil, MaxText <- StrMaxText, MaxOperands <- StrMaxOperands,
        of <- x1, heap <- x2, join <- x3, value <- x4, expr <- x5

(* Every list of addresses with a comma at the start, in the middle, twice *)
(* or at the end; values longer than the buffer, of characters that are    *)
(* sent as they are, as "+" and in hexadecimal; fields that are not there. *)
In(n, v) == [var |-> <<n>>, val |-> v]
Base2 == <<In(118, <<100>>), In(112, <<112, 61, 38>>)>>
Optional(S) == {<<>>} \cup {<<f>> : f \in S}
Forms == {<<In(118, <<>>)>>, Tail(Base2)} \cup
    {Base2 \o <<In(117, u)>> \o d \o n \o e :
        u \in {<<65, 32, 43, 37>>},
        d \in Optional({In(100, v) : v \in {<<>>, <<97>>, <<97, 44, 98>>, <<44, 97>>, <<97, 44>>,
                                            <<97, 44, 44, 98>>}}),
        n \in {<<>>, <<In(49, <<113>>), In(50, <<113>>)>>, <<In(49, <<113>>), In(50, <<>>)>>,
               <<In(97, <<55>>), In(110, <<56>>)>>},
        e \in Optional({In(101, v) : v \in {<<48>>, <<49>>}})}
CG == INSTANCE CgiForm WITH
        Forms <- Forms, BufSize <- 4, Names <- {"u", "w"},
        form <- x1, input <- x2, cut <- x3, part <- x4, args <- x5, prog <- x6, calls <- x7,
        made <- x8, listed <- x9, page <- x10

ASSUME LibraryAssumption ==
    /\ OB!OutBufferAssumption /\ IB!InBufferAssumption /\ HT!HashTableAssumption
    /\ CF!CdbFileAssumption /\ DG!DigestAssumption /\ CR!CryptAssumption /\ RC!RecordAssumption
    /\ RQ!RequestAssumption /\ LG!LoginAssumption /\ OP!OptionsAssumption
    /\ MS!MyStringAssumption /\ CG!CgiFormAssumption

-----------------------------------------------------------------------------
Init ==
    \/ which = "outbuffer" /\ OB!Init /\ After5
    \/ which = "inbuffer" /\ IB!Init /\ After9
    \/ which = "hashtable" /\ HT!Init /\ After6
    \/ which = "cdbfile" /\ CF!Init /\ After8
    \/ which = "digest" /\ DG!Init /\ After4
    \/ which = "crypt" /\ CR!Init /\ After5
    \/ which = "record" /\ RC!Init /\ After2
    \/ which = "request" /\ RQ!Init /\ After7
    \/ which = "login" /\ LG!Init
    \/ which = "options" /\ OP!Init /\ After6
    \/ which = "mystring" /\ MS!Init /\ After5
    \/ which = "cgiform" /\ CG!Init

Next ==
    \/ which = "outbuffer" /\ OB!Next /\ UNCHANGED <<which, x6, x7, x8, x9, x10>>
    \/ which = "inbuffer" /\ IB!Next /\ UNCHANGED <<which, x10>>
    \/ which = "hashtable" /\ HT!Next /\ UNCHANGED <<which, x7, x8, x9, x10>>
    \/ which = "cdbfile" /\ CF!Next /\ UNCHANGED <<which, x9, x10>>
    \/ which = "digest" /\ DG!Next /\ UNCHANGED <<which, x5, x6, x7, x8, x9, x10>>
    \/ which = "crypt" /\ CR!Next /\ UNCHANGED <<which, x6, x7, x8, x9, x10>>
    \/ which = "record" /\ RC!Next /\ UNCHANGED <<which, x3, x4, x5, x6, x7, x8, x9, x10>>
    \/ which = "request" /\ RQ!Next /\ UNCHANGED <<which, x8, x9, x10>>
    \/ which = "login" /\ LG!Next /\ UNCHANGED which
    \/ which = "options" /\ OP!Next /\ UNCHANGED <<which, x7, x8, x9, x10>>
    \/ which = "mystring" /\ MS!Next /\ UNCHANGED <<which, x6, x7, x8, x9, x10>>
    \/ which = "cgiform" /\ CG!Next /\ UNCHANGED which

Spec == Init /\ [][Next]_<<which, xs>>

(* As in the components: the buffers and hash tables of the library, the   *)
(* constant database, passwords and records, the daemon's requests,        *)
(* logins, the options of a command, strings and forms.                    *)
WrittenInOrder == which = "outbuffer" => OB!WrittenInOrder
ReadInOrder == which = "inbuffer" => IB!ReadInOrder
HashTableIsMap == which = "hashtable" => HT!HashTableIsMap
FoundIsStored == which = "cdbfile" => CF!FoundIsStored
DigestIsOfTheWhole == which = "digest" => DG!DigestIsOfTheWhole
OnlyItselfMatches == which = "crypt" => CR!OnlyItselfMatches
RecordSurvives == which = "record" => RC!RecordSurvives
RequestAsMeant == which = "request" => RQ!RequestAsMeant
OnlyTheRightful == which = "login" => LG!OnlyTheRightful
OptionsAsMeant == which = "options" => OP!OptionsAsMeant
StringsAreValues == which = "mystring" => MS!StringsAreValues
FormAsMeant == which = "cgiform" => CG!FormAsMeant

=============================================================================
