------------------------------- MODULE Record -------------------------------
(***************************************************************************)
(* The record of a virtual user: how an entry becomes the bytes that the   *)
(* table stores and that listdomain and lookup send, and how the three     *)
(* versions of the record are read (lib/vpwentry, python/types.py,         *)
(* php/vmail.inc).  A string is a sequence of byte values.                 *)
(***************************************************************************)
EXTENDS Naturals, FiniteSets, SequencesExt

CONSTANTS
    UMax,       \* UINT_MAX
    Now,        \* the time
    Defaults,   \* default_hardquota, softquota, msgsize and msgcount
    Expiry,     \* default_expiry
    Passwords, Directories, Forwards, Personals, \* strings an entry is given
    Numerals,   \* strings given as numbers
    OldRecords, \* records of the earlier versions
    MaxChanges, \* bound on the changes
    None

RecordAssumption ==
    /\ UMax \in Nat /\ Now \in 0..UMax /\ Expiry \in 0..UMax
    /\ Defaults \in Seq(0..UMax) /\ Len(Defaults) = 4 /\ MaxChanges \in Nat

VARIABLES
    entry,  \* the vpwentry a program holds
    changes \* history: how often it has been changed

vars == <<entry, changes>>

NUL == 0
HAS_MAILBOX == 10
MAILBOX_ENABLED == 8
Digits == 48..57
Spaces == {9, 10, 11, 12, 13, 32}

Run(s, set) == CHOOSE n \in 0..Len(s) :
    /\ \A i \in 1..n : s[i] \in set
    /\ n < Len(s) => s[n + 1] \notin set

After(s, n) == SubSeq(s, n + 1, Len(s))
CString(s) == SubSeq(s, 1, Run(s, 1..255))

Utoa(u) ==
    IF u = 0 THEN <<48>>
    ELSE IF u = UMax THEN <<45>>
    ELSE LET n == CHOOSE d \in 1..10 : 10 ^ (d - 1) <= u /\ u < 10 ^ d
         IN [i \in 1..n |-> 48 + ((u \div 10 ^ (n - i)) % 10)]

(* The number and what follows it. *)
Strtou(s) ==
    LET t == After(s, Run(s, Spaces))
        dash == t # <<>> /\ t[1] = 45
        u == IF dash THEN After(t, 1) ELSE t
        n == Run(u, Digits)
    IN [rest |-> After(u, n),
        n |-> IF dash THEN UMax
              ELSE FoldLeft(LAMBDA v, d : (v * 10 + d - 48) % (UMax + 1), 0, SubSeq(u, 1, n))]

SetDefaults(e, ctime) ==
    LET sum == (Now + Expiry) % (UMax + 1) IN
    [e EXCEPT !.n = Defaults \o <<ctime, IF Expiry = UMax \/ sum < Now THEN UMax ELSE sum>>,
              !.enabled = TRUE]

Blank == [pass |-> <<>>, dir |-> <<>>, fwd |-> <<>>, personal |-> <<>>, n |-> <<>>,
          has |-> TRUE, enabled |-> TRUE]

(* A slip: the list of forwards is left unterminated when it is empty. *)
ForwardsUnended(e) == IF e.fwd = <<>> THEN <<>> ELSE e.fwd \o <<NUL, NUL>>

ForwardsOf(e) == IF e.fwd = <<>> THEN <<NUL>> ELSE e.fwd \o <<NUL, NUL>>

Bit(b) == IF b THEN 1 ELSE 0

ToRecord(e) ==
    <<2, HAS_MAILBOX, Bit(e.has /\ e.dir # <<>>), MAILBOX_ENABLED, Bit(e.enabled), NUL>>
    \o e.pass \o <<NUL>> \o e.dir \o <<NUL>> \o ForwardsOf(e) \o e.personal \o <<NUL>>
    \o FlattenSeq([i \in 1..6 |-> Utoa(e.n[i]) \o <<NUL>>])

(* The strings that the NULs of t end. *)
Strings(t) ==
    LET nul == SelectSeq([i \in DOMAIN t |-> i], LAMBDA i : t[i] = NUL)
    IN [i \in DOMAIN nul |-> SubSeq(t, IF i = 1 THEN 1 ELSE nul[i - 1] + 1, nul[i] - 1)]

(* Password, directory and personal information with the forwards, a list  *)
(* that an empty string ends, in the middle; then the numbers.             *)
DecodeBase(e, s) ==
    LET ends == {i \in 3..Len(s) : s[i] = <<>>}
        j == CHOOSE i \in ends : \A k \in ends : i <= k
    IN IF Len(s) < 2 \/ ends = {} THEN None
       ELSE IF Len(s) < j + 1 THEN None
       ELSE [e |-> [e EXCEPT !.pass = s[1], !.dir = s[2], !.personal = s[j + 1],
                             !.has = @ /\ s[2] # <<>>,
                             !.fwd = FlattenSeq([i \in 1..j - 3 |->
                                       s[i + 2] \o IF i < j - 3 THEN <<NUL>> ELSE <<>>])],
             s |-> After(s, j + 1)]

DecodeValues(e, s) ==
    IF Len(s) # 6 \/ \E i \in 1..6 : Strtou(s[i]).rest # <<>> THEN None
    ELSE [e EXCEPT !.n = [i \in 1..6 |-> Strtou(s[i]).n]]

Decode(e, t) ==
    LET base == DecodeBase(e, Strings(t))
    IN IF base = None THEN None ELSE DecodeValues(base.e, base.s)

(* The flags come in pairs, up to one that is 0. *)
FlagsEnd(t) ==
    LET ends == {k \in 0..Len(t) : 2 + 2 * k <= Len(t) /\ t[2 + 2 * k] = NUL}
    IN IF ends = {} THEN None ELSE CHOOSE k \in ends : \A j \in ends : k <= j

Flags(t) == {t[2 + 2 * k] : k \in 0..FlagsEnd(t) - 1}

Flag(t, f, default) ==
    LET at == {k \in 0..FlagsEnd(t) - 1 : t[2 + 2 * k] = f}
    IN IF at = {} THEN default ELSE t[3 + 2 * (CHOOSE k \in at : \A j \in at : j <= k)] # 0

FromVer2(t) ==
    IF t[Len(t)] # NUL \/ FlagsEnd(t) = None THEN None
    ELSE IF ~(Flags(t) \subseteq {HAS_MAILBOX, MAILBOX_ENABLED}) THEN None
    ELSE Decode([Blank EXCEPT !.has = Flag(t, HAS_MAILBOX, TRUE),
                              !.enabled = Flag(t, MAILBOX_ENABLED, TRUE)],
                After(t, 2 + 2 * FlagsEnd(t)))

FromVer1(t) == IF t[Len(t)] # NUL THEN None ELSE Decode(Blank, After(t, 1))

(* :password:directory, :password:&forward,... or :password:forward,...    *)
FromOld(t) ==
    LET c == After(t, 1)
        n == Run(c, 0..255 \ {58})
        rest == CString(After(c, n + 1))
        fwd == IF rest # <<>> /\ rest[1] = 38 THEN After(rest, 1) ELSE rest
        e == [Blank EXCEPT !.pass = SubSeq(c, 1, n)]
    IN IF n = Len(c) THEN None
       ELSE SetDefaults(IF rest # <<>> /\ rest[1] \in {46, 47} THEN [e EXCEPT !.dir = rest]
                        ELSE [e EXCEPT !.has = FALSE,
                                       !.fwd = [i \in DOMAIN fwd |-> IF fwd[i] = 44 THEN NUL
                                                                     ELSE fwd[i]]], 0)

FromRecord(t) ==
    CASE t = <<>> -> None
      [] t # <<>> /\ t[1] = 2 -> FromVer2(t)
      [] t # <<>> /\ t[1] = 1 -> FromVer1(t)
      [] t # <<>> /\ t[1] = 58 -> FromOld(t)
      [] OTHER -> None

(* What explode() makes of the rest once the flags are gone, unchecked. *)
Php(t) ==
    LET s == Strings(After(t, 2 + 2 * FlagsEnd(t)))
        j == CHOOSE i \in 3..Len(s) : s[i] = <<>> /\ \A k \in 3..i - 1 : s[k] # <<>>
    IN [mailbox |-> s[2], aliases |-> SubSeq(s, 3, j - 1), personal |-> s[j + 1],
        limits |-> SubSeq(s, j + 2, j + 7)]

PythonReads(t) == t[1] = 2 /\ Flags(t) \subseteq {MAILBOX_ENABLED}

(* The numbers in the environment of the delivery scripts. *)
ExportEnv(e) == [i \in 1..6 |-> Utoa(e.n[i])]

-----------------------------------------------------------------------------
Init == entry = None /\ changes = 0

New ==
    /\ entry' \in {SetDefaults([Blank EXCEPT !.pass = p, !.dir = d, !.fwd = f, !.has = h], Now) :
                     p \in Passwords, d \in Directories, f \in Forwards, h \in BOOLEAN}
    /\ changes' = 0

Upgrade ==
    /\ \E t \in OldRecords : FromRecord(t) # None /\ entry' = FromRecord(t)
    /\ changes' = 0

(* The attributes that are given as they come: personal information, the   *)
(* numbers and the flag.                                                   *)
Chattr ==
    /\ entry # None /\ changes < MaxChanges /\ changes' = changes + 1
    /\ \/ \E p \in Personals : entry' = [entry EXCEPT !.personal = p]
       \/ \E s \in Numerals :
            LET u == Strtou(CString(s)) IN
            /\ u.rest = <<>>
            /\ \/ \E i \in 1..6 \ {5} : entry' = [entry EXCEPT !.n[i] = u.n]
               \/ entry' = [entry EXCEPT !.enabled = u.n # 0]

Reload ==
    /\ entry # None /\ FromRecord(ToRecord(entry)) # None
    /\ entry' = FromRecord(ToRecord(entry))
    /\ UNCHANGED changes

Next == New \/ Upgrade \/ Chattr \/ Reload

Spec == Init /\ [][Next]_vars

-----------------------------------------------------------------------------
(* A record is read as the entry it was made from, except that an entry    *)
(* with no directory has no mailbox, or it is refused, and it is refused   *)
(* only when NULs stand in the personal information or around an empty     *)
(* forward, which shift all that follows.  The numbers survive, the        *)
(* greatest as "-", and so they do in the environment.  PHP finds the same *)
(* fields; Python refuses every record, as it does not know the flag       *)
(* has_mailbox (vpwentry::to_record, from_record, decode_base, utoa,       *)
(* strtou, VUser.from_binary, listdomain_parse_userdata).                  *)
RecordSurvives ==
    entry # None =>
        LET t == ToRecord(entry)
            back == FromRecord(t)
            fwds == Strings(entry.fwd \o <<NUL>>)
            plain == /\ NUL \notin ToSet(entry.personal)
                     /\ entry.fwd # <<>> => \A i \in DOMAIN fwds : fwds[i] # <<>>
        IN /\ back # None <=> plain
           /\ plain =>
                /\ back = [entry EXCEPT !.has = @ /\ entry.dir # <<>>]
                /\ Php(t) = [mailbox |-> entry.dir, personal |-> entry.personal,
                             aliases |-> IF entry.fwd = <<>> THEN <<>> ELSE fwds,
                             limits |-> ExportEnv(entry)]
           /\ \A i \in 1..6 : Strtou(ExportEnv(entry)[i]) = [rest |-> <<>>, n |-> entry.n[i]]
           /\ ~PythonReads(t)

=============================================================================
