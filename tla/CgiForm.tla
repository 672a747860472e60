------------------------------ MODULE CgiForm -------------------------------
(***************************************************************************)
(* The CGI programs (cgi, lib/cgi): a browser sends the fields of a form,  *)
(* the program decodes them and asks the daemon for what they mean.  Text  *)
(* is a sequence of byte values; the name of a field is one letter.        *)
(***************************************************************************)
EXTENDS Naturals, FiniteSets, SequencesExt

CONSTANTS
    Forms,   \* what users fill in: sequences of [var, val]
    BufSize, \* BUFSIZE
    Names    \* the users a domain may have

CgiFormAssumption == BufSize \in Nat \ {0, 1}

VARIABLES
    form,   \* history: the form as it was filled in
    input,  \* what the program has yet to read
    cut,    \* history: the browser went away before it had sent all
    part,   \* the field that is being read
    args,   \* those that have been
    prog,   \* the program
    calls,  \* the requests it has yet to make
    made,   \* those it has made
    listed, \* the users listdomain has sent
    page    \* "reading", "main", "calling", "listing" or what the user is shown

vars == <<form, input, cut, part, args, prog, calls, made, listed, page>>

NUL == 0
Comma == 44
Zero == <<48>>
vdomain == <<118>>
password == <<112>>
username == <<117>>
newpass1 == <<49>>
newpass2 == <<50>>
destination == <<100>>
userdir == <<114>>
enable == <<101>>
attribute == <<97>>
newvalue == <<110>>

(* The commands of the daemon, and the attributes in decimal. *)
AddUser3 == <<65>>
Chattr == <<67>>
DelUser == <<68>>
ListDomain == <<76>>
ATTR_PASS == <<49>>
ATTR_DEST == <<50>>
ATTR_MAILBOX_ENABLED == <<56>>

-----------------------------------------------------------------------------
(* The browser. *)
HexDigit(n) == IF n < 10 THEN 48 + n ELSE 55 + n
Plain == (48..57) \cup (65..90) \cup (97..122)
Encoded(c) ==
    CASE c = 32 -> <<43>>
      [] c \in Plain -> <<c>>
      [] OTHER -> <<37, HexDigit(c \div 16), HexDigit(c % 16)>>
EncodeAll(s) == FlattenSeq([i \in DOMAIN s |-> Encoded(s[i])])
Sent(f) ==
    FlattenSeq([i \in DOMAIN f |-> (IF i = 1 THEN <<>> ELSE <<38>>)
                                   \o EncodeAll(f[i].var) \o <<61>> \o EncodeAll(f[i].val)])

Blank == [var |-> <<>>, val |-> <<>>, have |-> FALSE, buf |-> <<>>]

(* Only a form that has been posted is read. *)
Init ==
    /\ form \in Forms /\ input = Sent(form) /\ cut = FALSE
    /\ part = Blank /\ args = <<>>
    /\ prog = "none" /\ calls = <<>> /\ made = <<>> /\ listed = <<>>
    /\ page \in {"reading", "error"}

-----------------------------------------------------------------------------
(* Reading the form. *)
FromHex(ch) == IF ch <= 57 THEN ch - 48 ELSE IF ch >= 97 THEN ch - 87 ELSE ch - 55

(* What has been read goes to the name or to the value, up to a NUL. *)
Emptied(p) ==
    LET nul == {i \in DOMAIN p.buf : p.buf[i] = NUL}
        s == IF nul = {} THEN p.buf
             ELSE SubSeq(p.buf, 1, (CHOOSE i \in nul : \A j \in nul : i <= j) - 1)
    IN IF p.have THEN [p EXCEPT !.val = @ \o s, !.buf = <<>>]
       ELSE [p EXCEPT !.var = @ \o s, !.buf = <<>>]

Put(p, c) ==
    LET q == [p EXCEPT !.buf = Append(@, c)]
    IN IF Len(q.buf) >= BufSize - 1 THEN Emptied(q) ELSE q

Field(p) == [var |-> Emptied(p).var, val |-> Emptied(p).val]

(* The next character, of which some are written as three. *)
Got(n) == input' = SubSeq(input, n + 1, Len(input))

GetChar ==
    /\ page = "reading" /\ input # <<>>
    /\ LET c == input[1] IN
       CASE c = 43 -> part' = Put(part, 32) /\ Got(1) /\ UNCHANGED args
         [] c = 37 -> part' = Put(part, FromHex(input[2]) * 16 + FromHex(input[3])) /\ Got(3)
                      /\ UNCHANGED args
         [] c = 61 /\ ~part.have -> part' = [Emptied(part) EXCEPT !.have = TRUE] /\ Got(1)
                                    /\ UNCHANGED args
         [] c = 38 -> args' = Append(args, Field(part)) /\ part' = Blank /\ Got(1)
         [] OTHER -> part' = Put(part, c) /\ Got(1) /\ UNCHANGED args
    /\ UNCHANGED <<form, cut, prog, calls, made, listed, page>>

(* The end of what was sent; a name that no "=" follows is dropped.        *)
EndOfForm ==
    /\ page = "reading"
    /\ cut' = (input # <<>>) /\ input' = <<>>
    /\ args' = IF part.have THEN Append(args, Field(part)) ELSE args
    /\ page' = "main"
    /\ UNCHANGED <<form, part, prog, calls, made, listed>>

-----------------------------------------------------------------------------
(* The programs. *)
Exists(var) == \E i \in DOMAIN args : args[i].var = var

Arg(var) ==
    LET at == {i \in DOMAIN args : args[i].var = var}
    IN IF at = {} THEN <<>> ELSE args[CHOOSE i \in at : \A j \in at : i <= j].val

Lower(s) == [i \in DOMAIN s |-> IF s[i] \in 65..90 THEN s[i] + 32 ELSE s[i]]

Needed == [vaddalias |-> {username, destination},
           vadduser |-> {username, newpass1, newpass2},
           vchattr |-> {username, attribute, newvalue},
           vchforwards |-> {username, destination},
           vdeluser |-> {username},
           vpasswd |-> {username, newpass1, newpass2},
           listvdomain |-> {}]

(* mystring_iter: an empty piece at the end is none. *)
Iter(s) ==
    LET commas == SelectSeq([i \in DOMAIN s |-> i], LAMBDA i : s[i] = Comma)
        ends == Append(commas, Len(s) + 1)
        pieces == [k \in DOMAIN ends |->
                     SubSeq(s, IF k = 1 THEN 1 ELSE ends[k - 1] + 1, ends[k] - 1)]
    IN IF Last(pieces) = <<>> THEN Front(pieces) ELSE pieces

(* mystring::count: a comma at the start ends the loop. *)
Count(s) == IF s # <<>> /\ s[1] = Comma THEN 0 ELSE Cardinality({i \in DOMAIN s : s[i] = Comma})

(* A slip: as many addresses as commas. *)
DestsCommas(s) == Count(s)

Dests(s) == Count(s) + 1

(* There is room for n addresses in the request. *)
Operands(s, n) == [i \in 1..n |-> IF i <= Len(Iter(s)) THEN Iter(s)[i] ELSE <<>>]

Account(command) == <<command, Arg(vdomain), Lower(Arg(username)), Arg(password)>>
SetAttr(attr, values) == Append(Account(Chattr), attr) \o values

Alias ==
    LET d == Arg(destination) IN
    <<Account(AddUser3) \o <<Arg(newpass1), <<>>, <<>>>> \o Operands(d, Dests(d))>>

User ==
    LET d == Arg(destination) IN
    <<Account(AddUser3) \o <<Arg(newpass1), Arg(userdir), <<121>>>>
      \o Operands(d, IF d = <<>> THEN 0 ELSE Dests(d))>>

(* The mailbox is enabled before the addresses change, and disabled after. *)
Forwards ==
    LET d == Arg(destination)
        e == Arg(enable)
        switch == <<SetAttr(ATTR_MAILBOX_ENABLED, <<e>>)>>
    IN (IF e # <<>> /\ e # Zero THEN switch ELSE <<>>)
       \o <<SetAttr(ATTR_DEST, Operands(d, Dests(d)))>>
       \o (IF e = Zero THEN switch ELSE <<>>)

Requests(p) ==
    CASE p = "vaddalias" -> Alias
      [] p = "vadduser" -> User
      [] p = "vchforwards" -> Forwards
      [] p = "vchattr" -> <<SetAttr(Arg(attribute), <<Arg(newvalue)>>)>>
      [] p = "vpasswd" -> <<SetAttr(ATTR_PASS, <<Arg(newpass1)>>)>>
      [] p = "vdeluser" -> <<Account(DelUser)>>
      [] p = "listvdomain" -> <<<<ListDomain, Arg(vdomain), Arg(password)>>>>

(* More addresses than there is room for are written past the operands,    *)
(* and what the program does then is not known; only vadduser stops.       *)
Overrun(p) ==
    p \in {"vaddalias", "vchforwards"} /\ Len(Iter(Arg(destination))) > Dests(Arg(destination))

Main ==
    /\ page = "main"
    /\ prog' \in DOMAIN Needed
    /\ IF \/ \E var \in {vdomain, password} \cup Needed[prog'] : ~Exists(var)
          \/ prog' \in {"vaddalias", "vadduser", "vpasswd"} /\ Arg(newpass1) # Arg(newpass2)
       THEN page' = "error" /\ UNCHANGED calls
       ELSE IF Overrun(prog') THEN page' = "undefined" /\ UNCHANGED calls
       ELSE page' = "calling" /\ calls' = Requests(prog')
    /\ UNCHANGED <<form, input, cut, part, args, made, listed>>

(* The daemon refuses, or carries the request out. *)
Call ==
    /\ page = "calling"
    /\ \/ page' = "error" /\ UNCHANGED <<calls, made>>
       \/ /\ made' = Append(made, Head(calls)) /\ calls' = Tail(calls)
          /\ page' = CASE prog = "listvdomain" -> "listing"
                       [] prog # "listvdomain" /\ Len(calls) = 1 -> "success"
                       [] OTHER -> "calling"
    /\ UNCHANGED <<form, input, cut, part, args, prog, listed>>

(* load_users: a response for each user, an empty one at the end.  Should  *)
(* the first be an error, the page says that there are no users.           *)
LoadUsers ==
    /\ page = "listing"
    /\ \/ \E n \in Names \ ToSet(listed) : listed' = Append(listed, n) /\ UNCHANGED page
       \/ page' = (IF listed = <<>> THEN "no users" ELSE "list") /\ UNCHANGED listed
       \/ page' = (IF listed = <<>> THEN "no users" ELSE "error") /\ UNCHANGED listed
    /\ UNCHANGED <<form, input, cut, part, args, prog, calls, made>>

Next == GetChar \/ EndOfForm \/ Main \/ Call \/ LoadUsers

Spec == Init /\ [][Next]_vars

-----------------------------------------------------------------------------
Filled(var) ==
    LET at == {i \in DOMAIN form : form[i].var = var}
    IN IF at = {} THEN <<>> ELSE form[CHOOSE i \in at : \A j \in at : i <= j].val

(* The addresses between the commas of the form. *)
Meant ==
    LET split == FoldLeft(LAMBDA acc, c : IF c = Comma THEN Append(acc, <<>>)
                                          ELSE Append(Front(acc), Append(Last(acc), c)),
                          <<<<>>>>, Filled(destination))
    IN SelectSeq(split, LAMBDA s : s # <<>>)

HasAddresses(request) ==
    prog \in {"vaddalias", "vadduser"} \/ (prog = "vchforwards" /\ request[5] = ATTR_DEST)

Addresses(request) ==
    SelectSeq(SubSeq(request, IF request[1] = AddUser3 THEN 8 ELSE 6, Len(request)),
              LAMBDA s : s # <<>>)

(* However long its values, a form that arrives whole is read as it was    *)
(* filled in, and one that does not as far as its last field (get_parts).  *)
(* The daemon is then asked to send the mail to the addresses meant, all   *)
(* of them and in order, unless the first is missing, which miscounts them *)
(* (count, vaddalias.cc, vadduser.cc, vchforwards.cc).  A mailbox is only  *)
(* disabled once the addresses have been changed, and the user is told of  *)
(* success only when all requests have been made.                          *)
FormAsMeant ==
    LET miscounted == Filled(destination) # <<>> /\ Filled(destination)[1] = Comma IN
    /\ page \notin {"reading", "error"} =>
         IF cut THEN args = <<>> \/ IsPrefix(Front(args), form) ELSE args = form
    /\ ~cut /\ ~miscounted =>
         page # "undefined" /\ \A i \in DOMAIN made : HasAddresses(made[i]) => Addresses(made[i]) = Meant
    /\ \A i \in DOMAIN made :
         prog = "vchforwards" /\ made[i][5] = ATTR_MAILBOX_ENABLED =>
           (made[i][6] = Zero) = (\E j \in 1..i - 1 : made[j][5] = ATTR_DEST)
    /\ page = "success" => calls = <<>> /\ made = Requests(prog)

=============================================================================
