------------------------------- MODULE Crypt -------------------------------
(***************************************************************************)
(* How passwords are stored and compared (lib/misc/md5-crypt.c and         *)
(* lib/misc/pwcrypt.cc).  A digest is a sequence of DigestLen cells, each  *)
(* naming the message it is of, so that no two messages share one; the     *)
(* context that computes it is the module Digest's.                        *)
(***************************************************************************)
EXTENDS Naturals, Sequences, SequencesExt

CONSTANTS
    Words,     \* the passwords, sequences of characters; "NUL" may be one of them
    Salts,     \* the salts of the stored passwords that are imported
    SaltMax,   \* the most characters of a salt (8)
    DigestLen, \* the bytes of a digest (16)
    Rounds,    \* 1000
    CryptMax,  \* the characters crypt(3) looks at (8)
    None

(* A digest has bytes, there is a round at least, and what is hashed are   *)
(* strings.                                                                *)
CryptAssumption ==
    /\ DigestLen \in Nat \ {0} /\ Rounds \in Nat \ {0} /\ SaltMax \in Nat /\ CryptMax \in Nat
    /\ Words \subseteq Seq(STRING) /\ Salts \subseteq Seq(STRING)

VARIABLES
    form,    \* how the password is stored
    pass,    \* the password that was stored
    stored,  \* what is stored, None before
    tried,   \* the password compared last
    matches  \* and whether it was accepted

(* A cell of a string: a character, or a byte of a digest. *)
Char(c) == [char |-> c, of |-> <<>>, byte |-> 0]
DigestByte(m, i) == [char |-> "", of |-> m, byte |-> i]
Chars(s) == [i \in DOMAIN s |-> Char(s[i])]
NUL == Char("NUL")

Candidates == {Chars(w) : w \in Words}

vars == <<form, pass, stored, tried, matches>>

(* c_str(): what precedes the first NUL. *)
CStr(s) ==
    LET nul == {i \in 1..Len(s) : s[i] = NUL}
    IN IF nul = {} THEN s ELSE SubSeq(s, 1, (CHOOSE i \in nul : \A j \in nul : i <= j) - 1)

Digest(pieces) == [i \in 1..DigestLen |-> DigestByte(FlattenSeq(pieces), i)]

Prefix == Chars(<<"$", "1", "$">>)
NullPrefix == Chars(<<"$", "0", "$">>)
OldCode == Chars(<<"3">>)

SkipPrefix(salt) == IF IsPrefix(Prefix, salt) THEN SubSeq(salt, 4, Len(salt)) ELSE salt

(* A slip: the salt's end is not looked for. *)
EightOf(s) ==
    LET salt == SkipPrefix(s) IN SubSeq(salt, 1, IF Len(salt) < SaltMax THEN Len(salt) ELSE SaltMax)

SaltOf(s) ==
    LET salt == SkipPrefix(s)
        cut == {n \in 0..Len(salt) : n = SaltMax \/ n = Len(salt) \/ salt[n + 1] = Char("$")}
    IN SubSeq(salt, 1, CHOOSE n \in cut : \A m \in cut : n <= m)

(* One byte of the digest for each character of the key. *)
Cycle(d, n) == [i \in 1..n |-> d[((i - 1) % DigestLen) + 1]]

(* A byte for each bit of the key's length, the lowest first. *)
Bits(key) ==
    LET bit[n \in Nat] ==
            IF n = 0 THEN <<>> ELSE <<IF n % 2 = 1 THEN NUL ELSE key[1]>> \o bit[n \div 2]
    IN bit[Len(key)]

(* The result of round n; the round before it takes its digest along. *)
RoundOf(key, salt, first) ==
    LET round[n \in Nat] ==
            IF n = 0 THEN first
            ELSE LET cnt == n - 1
                     last == round[n - 1]
                     odd == cnt % 2 = 1
                 IN Digest(<<IF odd THEN key ELSE last,
                             IF cnt % 3 # 0 THEN salt ELSE <<>>,
                             IF cnt % 7 # 0 THEN key ELSE <<>>,
                             IF odd THEN last ELSE key>>)
    IN round

(* md5_crypt_r; the buffer md5_crypt gives it is never too short. *)
Md5Crypt(key, s) ==
    LET salt == SaltOf(s)
        alt == Digest(<<key, salt, key>>)
        first == Digest(<<key, Prefix, salt, Cycle(alt, Len(key)), Bits(key)>>)
    IN Prefix \o salt \o Chars(<<"$">>) \o RoundOf(key, salt, first)[Rounds]

OldMd5(key) == OldCode \o Digest(<<key>>)

NullCrypt(p) == NullPrefix \o p

(* crypt(3): two characters of salt, the first characters of the key. *)
ExtCrypt(key, s) ==
    LET used == IF Len(key) > CryptMax THEN SubSeq(key, 1, CryptMax) ELSE key
        salt == SubSeq(s, 1, 2)
    IN salt \o Digest(<<salt, used>>)

CryptCmp(p, s) ==
    /\ p # <<>> /\ s # <<>>
    /\ s = CASE Len(s) = 1 + DigestLen /\ IsPrefix(OldCode, s) -> OldMd5(CStr(p))
             [] IsPrefix(Prefix, s) -> Md5Crypt(CStr(p), s)
             [] IsPrefix(NullPrefix, s) -> CStr(NullCrypt(p))
             [] OTHER -> ExtCrypt(CStr(p), s)

Init ==
    /\ form \in {"md5", "imported", "old", "null", "crypt"}
    /\ pass \in Candidates \ {<<>>}
    /\ stored = None /\ tried = None /\ matches = FALSE

NewSalt == [i \in 1..SaltMax |-> Char("r")]

(* pwcrypt stores new passwords in the first form with a random salt of    *)
(* full length; the others come from elsewhere.                            *)
Store ==
    /\ stored = None
    /\ CASE form = "md5" -> stored' = Md5Crypt(CStr(pass), Prefix \o NewSalt)
         [] form = "imported" -> \E salt \in Salts : stored' = Md5Crypt(CStr(pass), Prefix \o Chars(salt))
         [] form = "old" -> stored' = OldMd5(CStr(pass))
         [] form = "null" -> stored' = CStr(NullCrypt(pass))
         [] form = "crypt" -> stored' = ExtCrypt(CStr(pass), Chars(<<"r", "r">>))
    /\ UNCHANGED <<form, pass, tried, matches>>

Try ==
    /\ stored # None
    /\ \E p \in Candidates : tried' = p /\ matches' = CryptCmp(p, stored)
    /\ UNCHANGED <<form, pass, stored>>

Next == Store \/ Try

Spec == Init /\ [][Next]_vars

-----------------------------------------------------------------------------
(* A stored password is matched by itself and by no other, whatever the    *)
(* length of its salt; both count up to the first NUL, and to crypt(3)     *)
(* only by their first characters (crypt_cmp, md5_crypt_r, pwcrypt).       *)
OnlyItselfMatches ==
    LET Known(p) == IF form = "crypt" /\ Len(CStr(p)) > CryptMax
                    THEN SubSeq(CStr(p), 1, CryptMax) ELSE CStr(p)
    IN tried # None => (matches <=> tried # <<>> /\ Known(tried) = Known(pass))

=============================================================================
