------------------------------ MODULE Request ------------------------------
(***************************************************************************)
(* What a request to vmailmgrd says: how the three clients encode a        *)
(* command (lib/misc/server.cc, python/daemon.py, php/vmail.inc), how the  *)
(* daemon decodes it (daemon/main.cc), and which system user and virtual   *)
(* user it is about (daemon/dispatch.cc, lib/misc/lookup_domain.cc and     *)
(* lookup_baseuser.cc).  A string is a sequence of byte values.            *)
(***************************************************************************)
EXTENDS Integers, FiniteSets, SequencesExt

CONSTANTS
    Base,     \* values of a byte of a length: 256 in the code
    MaxArgs,  \* the greatest number of arguments: 255 in the code
    Commands, \* dispatch_table: [min, max, decode] under each name
    Asks,     \* commands that clients give: a name and arguments
    Systems,  \* users, locals and virtualdomains a host may have
    None

(* Names of commands are short, and have a user or a domain after them. *)
RequestAssumption ==
    /\ Base \in Nat \ {0, 1} /\ MaxArgs \in Nat
    /\ Commands \in [DOMAIN Commands -> [min : Nat \ {0, 1}, max : Nat, decode : BOOLEAN]]
    /\ Asks \subseteq Seq(Seq(Nat)) /\ \A c \in Asks : c # <<>> /\ Len(c[1]) < Base * Base
    /\ \A s \in Systems :
         s.users \subseteq Seq(Nat) /\ \A d \in DOMAIN s.virtual : s.virtual[d] \in Seq(Nat)

VARIABLES
    sys,   \* the host's tables
    asked, \* the command the client was given
    by,    \* the client
    msg,   \* what it sent
    cmd,   \* the daemon's command
    user,  \* the base user and the virtual user found
    stage  \* "idle", "sent", "decoded", "named", "found", "refused"

vars == <<sys, asked, by, msg, cmd, user, stage>>

Dash == 45
Dot == 46

Lower(s) == [i \in DOMAIN s |-> IF s[i] \in 65..90 THEN s[i] + 32 ELSE s[i]]

(* Of a number only the low bytes are sent. *)
EncodeInt(n) == <<(n \div Base) % Base, n % Base>>
EncodeString(s) == EncodeInt(Len(s)) \o s
Encoded(c) == FlattenSeq([i \in 1..Len(c) |-> EncodeString(c[i])])

(* server_call sends nothing if an argument or their number is too great.  *)
BuildMsg(c) ==
    LET body == <<Len(c) - 1>> \o Encoded(c) IN
    IF Len(c) - 1 > MaxArgs \/ \E i \in 2..Len(c) : Len(c[i]) >= Base * Base THEN <<>>
    ELSE <<2>> \o EncodeInt(Len(body)) \o body

(* Python looks at the number only. *)
PythonMsg(c) ==
    LET body == <<Len(c) - 1>> \o Encoded(c) IN
    IF Len(c) - 1 > MaxArgs THEN <<>> ELSE <<2>> \o EncodeInt(Len(body)) \o body

(* PHP adds the byte of the number of arguments without a carry. *)
PhpMsg(c) ==
    LET n == EncodeInt(Len(Encoded(c))) IN
    <<2, n[1], (n[2] + 1) % Base, (Len(c) - 1) % (MaxArgs + 1)>> \o Encoded(c)

(* The strings of a message of n arguments; None if they do not fit.       *)
DecodeString(st) ==
    IF st = None THEN None
    ELSE IF Len(st.rest) < 2 THEN None
    ELSE LET n == st.rest[1] * Base + st.rest[2] IN
         IF n > Len(st.rest) - 2 THEN None
         ELSE [args |-> Append(st.args, SubSeq(st.rest, 3, n + 2)),
               rest |-> SubSeq(st.rest, n + 3, Len(st.rest))]

DecodeData(d) ==
    IF d = <<>> THEN None
    ELSE LET st == FoldLeft(LAMBDA s, i : DecodeString(s), [args |-> <<>>, rest |-> Tail(d)],
                            [i \in 1..d[1] + 1 |-> i])
         IN IF st = None THEN None ELSE IF st.args[1] = <<>> THEN None ELSE st.args

(* The domain itself, or the longest of its ends that begin with a dot and *)
(* have a user.                                                            *)
FindVirtual(domain) ==
    LET d == Lower(domain)
        Tail_(i) == SubSeq(d, i, Len(d))
        Has(i) == /\ i = 1 \/ d[i] = Dot
                  /\ Tail_(i) \in DOMAIN sys.virtual /\ sys.virtual[Tail_(i)] # <<>>
        first == {i \in DOMAIN d : Has(i) /\ \A j \in 1..i - 1 : ~Has(j)}
    IN IF first = {} THEN <<>> ELSE sys.virtual[Tail_(CHOOSE i \in first : TRUE)]

(* A slip: the shortest name is tried first. *)
LookupShortest(full) ==
    LET is == {i \in 1..Len(full) : /\ i = Len(full) \/ full[i + 1] = Dash
                                    /\ Lower(SubSeq(full, 1, i)) \in sys.users}
        i == CHOOSE i \in is : \A j \in is : i <= j
    IN IF is = {} THEN None ELSE <<SubSeq(full, 1, i), SubSeq(full, i + 2, Len(full))>>

(* The longest part before a dash, or all, that is a system user.          *)
LookupBaseuser(full) ==
    LET is == {i \in 1..Len(full) : /\ i = Len(full) \/ full[i + 1] = Dash
                                    /\ Lower(SubSeq(full, 1, i)) \in sys.users}
        i == CHOOSE i \in is : \A j \in is : j <= i
    IN IF is = {} THEN None ELSE <<SubSeq(full, 1, i), SubSeq(full, i + 2, Len(full))>>

-----------------------------------------------------------------------------
Init ==
    /\ sys \in Systems
    /\ asked = <<>> /\ by = "" /\ msg = <<>> /\ cmd = <<>> /\ user = None /\ stage = "idle"

Send ==
    /\ stage = "idle"
    /\ asked' \in Asks
    /\ \/ by' = "server_call" /\ msg' = BuildMsg(asked')
       \/ by' = "python" /\ msg' = PythonMsg(asked')
       \/ by' = "php" /\ msg' = PhpMsg(asked')
    /\ stage' = IF msg' = <<>> THEN "refused" ELSE "sent"
    /\ UNCHANGED <<sys, cmd, user>>

(* As many bytes as the length says are read, and all of them must come.   *)
Decode ==
    /\ stage = "sent"
    /\ LET len == msg[2] * Base + msg[3]
           c == IF len > Len(msg) - 3 THEN None ELSE DecodeData(SubSeq(msg, 4, len + 3))
       IN IF c = None THEN stage' = "refused" /\ UNCHANGED cmd
          ELSE stage' = "decoded" /\ cmd' = c
    /\ UNCHANGED <<sys, asked, by, msg, user>>

(* Domain and user become one name. *)
Dispatch ==
    /\ stage = "decoded"
    /\ LET e == IF cmd[1] \in DOMAIN Commands THEN Commands[cmd[1]] ELSE None
           n == Len(cmd) - 1
           owner == FindVirtual(cmd[2])
           Named(full) == cmd' = <<cmd[1], full>> \o SubSeq(cmd, 4, Len(cmd)) /\ stage' = "named"
       IN IF e = None THEN stage' = "refused" /\ UNCHANGED cmd
          ELSE IF n < e.min \/ n > e.max THEN stage' = "refused" /\ UNCHANGED cmd
          ELSE IF ~e.decode THEN stage' = "named" /\ UNCHANGED cmd
          ELSE IF cmd[2] \in sys.locals THEN Named(cmd[3])
          ELSE IF owner = <<>> THEN stage' = "refused" /\ UNCHANGED cmd
          ELSE Named(IF cmd[3] = <<>> THEN owner ELSE owner \o <<Dash>> \o cmd[3])
    /\ UNCHANGED <<sys, asked, by, msg, user>>

Find ==
    /\ stage = "named"
    /\ user' = LookupBaseuser(cmd[2])
    /\ stage' = IF user' = None THEN "refused" ELSE "found"
    /\ UNCHANGED <<sys, asked, by, msg, cmd>>

Answer ==
    /\ stage \in {"found", "refused"}
    /\ asked' = <<>> /\ by' = "" /\ msg' = <<>> /\ cmd' = <<>> /\ user' = None /\ stage' = "idle"
    /\ UNCHANGED sys

Next == Send \/ Decode \/ Dispatch \/ Find \/ Answer

Spec == Init /\ [][Next]_vars

-----------------------------------------------------------------------------
(* No byte of a command is read as another: a message whose total length   *)
(* does not fit its two bytes is refused, and only the bindings of Python  *)
(* and PHP can have one cut short, as they do not look at the length of an *)
(* argument, nor PHP at their number.  The account a command is carried    *)
(* out on is the one it names, in the domain's own system user, unless a   *)
(* longer system user's name begins the joined name                        *)
(* (server_call::build_msg, decode_data, dispatch_cmd, find_virtual,       *)
(* lookup_baseuser).                                                       *)
RequestAsMeant ==
    LET whole == /\ Len(asked) - 1 <= MaxArgs
                 /\ \A i \in DOMAIN asked : Len(asked[i]) < Base * Base
        owner == FindVirtual(asked[2])
        hidden == \E u \in sys.users :
                    Len(u) > Len(owner) /\ IsPrefix(u \o <<Dash>>, Lower(cmd[2]) \o <<Dash>>)
    IN /\ stage = "decoded" /\ (whole \/ by = "server_call") => cmd = asked
       /\ stage = "found" /\ whole =>
            /\ SubSeq(cmd, Len(cmd) - Len(asked) + 4, Len(cmd)) = SubSeq(asked, 4, Len(asked))
            /\ (/\ Commands[cmd[1]].decode /\ asked[2] \notin sys.locals
                /\ Lower(owner) \in sys.users /\ ~hidden) => user = <<owner, asked[3]>>

=============================================================================
