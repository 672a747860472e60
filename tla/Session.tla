------------------------------ MODULE Session -------------------------------
(***************************************************************************)
(* One request to vmailmgrd after another: a client (lib/misc/server.cc,   *)
(* python/daemon.py, php/vmail.inc) connects, sends the request, reads one *)
(* response and may go on with another connection, to repeat the request   *)
(* or to see what has come of it.  Each connection has a daemon process of *)
(* its own (daemon/main.cc) that reads the request under an alarm, carries *)
(* it out and responds under an alarm.  Of what is sent only the number of *)
(* bytes is kept.  The request adds a user (adduser2), which is the work   *)
(* of VDomain, step by step, or it looks the user up (lookup), which like  *)
(* listdomain and autoresponse writes a response of its own while it runs. *)
(***************************************************************************)
EXTENDS Naturals, VDomain

CONSTANTS
    Tries,  \* how many connections the client makes
    User,   \* the user its requests are about
    Body,   \* bytes of a request after its header
    Text,   \* bytes of the text of a response
    Room    \* bytes a socket holds for a slow reader

Conns == 1..Tries

(* The entry that adduser2 makes of its arguments. *)
AddUser == [kind |-> "adduser", user |-> User, entry |-> CHOOSE e \in Entries : e.mailbox]

ASSUME SessionAssumption ==
    /\ Tries \in Nat /\ Body \in Nat \ {0} /\ Text \in Nat /\ Room \in Nat \ {0}
    /\ Procs = Conns /\ AddUser \in Reqs
    /\ Requests = {"adduser"} /\ \A c \in Conns : Serves[c] = {User}

Header == 3
Response == Header + Text

VARIABLES
    cl,     \* where the client is with each connection
    kind,   \* what it asks for on each: "add" or "lookup"
    sent,   \* bytes it has sent
    up,     \* bytes the daemon has yet to read
    srv,    \* where the daemon's process is
    alarm,  \* its alarm is set
    due,    \* bytes it has yet to write
    down,   \* bytes the client has yet to read
    first,  \* the code of the response the client reads, which is the first
    done    \* history: the request of each connection has added the user

sessionVars == <<vars, cl, kind, sent, up, srv, alarm, due, down, first, done>>
client == <<cl, kind, sent, first>>

Outcomes == {"ok", "err", "econn", "gone"}
Closed(c) == cl[c] \in Outcomes

SessionInit ==
    /\ Init
    /\ cl = [c \in Conns |-> "idle"]
    /\ kind \in [Conns -> {"add", "lookup"}]
    /\ sent = [c \in Conns |-> 0] /\ up = [c \in Conns |-> 0]
    /\ srv = [c \in Conns |-> "none"]
    /\ alarm = [c \in Conns |-> FALSE]
    /\ due = [c \in Conns |-> 0] /\ down = [c \in Conns |-> 0]
    /\ first = [c \in Conns |-> "econn"]
    /\ done = [c \in Conns |-> FALSE]

Client(c, s) == cl' = [cl EXCEPT ![c] = s]
Server(c, s) == srv' = [srv EXCEPT ![c] = s]
Alarm(c, on) == alarm' = [alarm EXCEPT ![c] = on]

-----------------------------------------------------------------------------
(* The client. *)

(* A slip: no alarm before the request is read. *)
ConnectUnarmed(c) ==
    /\ cl[c] = "idle"
    /\ c > 1 => Closed(c - 1)
    /\ Client(c, "sending") /\ Server(c, "header")
    /\ UNCHANGED <<alarm, kind, sent, up, due, down, first, done, vars>>

Connect(c) ==
    /\ cl[c] = "idle"
    /\ c > 1 => Closed(c - 1)
    /\ \/ Client(c, "econn") /\ UNCHANGED <<srv, alarm>>
       \/ Client(c, "sending") /\ Server(c, "header") /\ Alarm(c, TRUE)
    /\ UNCHANGED <<kind, sent, up, due, down, first, done, vars>>

(* One write of the loop; on a connection the daemon has closed it fails,  *)
(* or SIGPIPE ends the client.                                             *)
Send(c) ==
    /\ cl[c] = "sending"
    /\ \/ /\ srv[c] # "gone"
          /\ \E k \in 1..(Header + Body - sent[c]) :
               /\ sent' = [sent EXCEPT ![c] = @ + k]
               /\ up' = [up EXCEPT ![c] = @ + k]
               /\ Client(c, IF sent[c] + k = Header + Body THEN "code" ELSE "sending")
       \/ srv[c] = "gone" /\ \E o \in {"econn", "gone"} : Client(c, o) /\ UNCHANGED <<sent, up>>
    /\ UNCHANGED <<kind, srv, alarm, due, down, first, done, vars>>

(* read of one byte, of two and of the text; what is missing of the length *)
(* or of the text leaves an empty message and the code as it is.           *)
ReadResponse(c) ==
    /\ cl[c] \in {"code", "length", "text"}
    /\ down[c] > 0 \/ srv[c] = "gone"
    /\ LET want == CASE cl[c] = "code" -> 1 [] cl[c] = "length" -> 2 [] cl[c] = "text" -> Text
           got == IF down[c] < want THEN down[c] ELSE want
           next == CASE cl[c] = "code" -> "length" [] cl[c] = "length" -> "text" [] OTHER -> first[c]
       IN /\ down' = [down EXCEPT ![c] = @ - got]
          /\ Client(c, IF got = want THEN next ELSE IF cl[c] = "code" THEN "econn" ELSE first[c])
    /\ UNCHANGED <<kind, sent, up, srv, alarm, due, first, done, vars>>

(* The client is interrupted. *)
Quit(c) ==
    /\ cl[c] \in {"sending", "code", "length", "text"}
    /\ Client(c, "gone")
    /\ UNCHANGED <<kind, sent, up, srv, alarm, due, down, first, done, vars>>

-----------------------------------------------------------------------------
(* The daemon. *)

(* finishreq and the end of the process. *)
Exit(c) == Server(c, "gone") /\ Alarm(c, FALSE)

(* A read returns what there is, and blocks while there is nothing. *)
ReadRequest(c) ==
    /\ srv[c] \in {"header", "body"}
    /\ up[c] > 0 \/ Closed(c)
    /\ LET want == IF srv[c] = "header" THEN Header ELSE Body
           got == IF up[c] < want THEN up[c] ELSE want
       IN /\ up' = [up EXCEPT ![c] = @ - got]
          /\ IF got = want
             THEN Server(c, IF srv[c] = "header" THEN "body" ELSE "read") /\ UNCHANGED alarm
             ELSE Exit(c)
    /\ UNCHANGED <<client, due, down, done, vars>>

(* The command: the request is given to the domain, or looks for itself. *)
Command(c) ==
    IF kind[c] = "add" THEN Server(c, "work") /\ Request(c, AddUser)
    ELSE Server(c, "lookup") /\ UNCHANGED vars

(* A slip: no alarm(0). *)
DisarmNever(c) ==
    /\ srv[c] = "read"
    /\ Command(c)
    /\ UNCHANGED <<alarm, client, up, due, down, done>>

Disarm(c) ==
    /\ srv[c] = "read"
    /\ Alarm(c, FALSE) /\ Command(c)
    /\ UNCHANGED <<client, up, due, down, done>>

(* vdomain::set at work, whose process ends where a torn table ends it.    *)
(* The user is added when the table is renamed.                            *)
Work(c) ==
    /\ srv[c] = "work" /\ stage[c] # "done"
    /\ Step(c)
    /\ IF stage'[c] = "idle" THEN Exit(c) ELSE UNCHANGED <<srv, alarm>>
    /\ done' = [done EXCEPT ![c] = @ \/ (pc[c] = "renaming" /\ res'[c])]
    /\ UNCHANGED <<client, up, due, down>>

(* The result is logged and written after the command has come back. *)
Respond(c, r) ==
    /\ first' = [first EXCEPT ![c] = IF @ = "econn" THEN r ELSE @]
    /\ Server(c, "reply") /\ Alarm(c, TRUE)
    /\ due' = [due EXCEPT ![c] = Response]

(* A slip: the result is not looked at. *)
FinishWell(c) ==
    /\ srv[c] = "work" /\ stage[c] = "done"
    /\ Reply(c)
    /\ Respond(c, "ok")
    /\ UNCHANGED <<cl, kind, sent, up, down, done>>

Finish(c) ==
    /\ srv[c] = "work" /\ stage[c] = "done"
    /\ Reply(c)
    /\ Respond(c, IF ans[c] THEN "ok" ELSE "err")
    /\ UNCHANGED <<cl, kind, sent, up, down, done>>

(* lookup reads the table once. *)
Find(c) ==
    /\ srv[c] = "lookup"
    /\ \/ Table!Torn(table) /\ Exit(c) /\ UNCHANGED <<due, first>>
       \/ \E recs \in Table!Contents :
            /\ Table!MayRead(table, recs)
            /\ IF recs[User] = Absent THEN Respond(c, "err")
               ELSE /\ due' = [due EXCEPT ![c] = Response]
                    /\ first' = [first EXCEPT ![c] = "ok"]
                    /\ Server(c, "stream")
                    /\ UNCHANGED alarm
    /\ UNCHANGED <<cl, kind, sent, up, down, done, vars>>

(* What fits of a write is taken over; SIGPIPE ends the process when the   *)
(* client is gone.  Data is streamed while the alarm is off.               *)
Write(c) ==
    /\ srv[c] \in {"stream", "reply"}
    /\ IF Closed(c) THEN Exit(c) /\ UNCHANGED <<due, down, first>>
       ELSE IF due[c] = 0
       THEN /\ UNCHANGED down
            /\ IF srv[c] = "stream" THEN Respond(c, "ok")
               ELSE Exit(c) /\ UNCHANGED <<due, first>>
       ELSE /\ down[c] < Room
            /\ down' = [down EXCEPT ![c] = @ + 1]
            /\ due' = [due EXCEPT ![c] = @ - 1]
            /\ UNCHANGED <<srv, alarm, first>>
    /\ UNCHANGED <<cl, kind, sent, up, done, vars>>

HandleAlrm(c) ==
    /\ alarm[c]
    /\ Exit(c)
    /\ UNCHANGED <<client, up, due, down, done, vars>>

Daemon(c) ==
    ReadRequest(c) \/ Disarm(c) \/ Work(c) \/ Finish(c) \/ Find(c) \/ Write(c)

SessionNext ==
    \E c \in Conns :
        Connect(c) \/ Send(c) \/ ReadResponse(c) \/ Quit(c) \/ Daemon(c) \/ HandleAlrm(c)

(* The kernel runs the daemon, delivers its alarm, and runs a client that  *)
(* waits for a response; nothing makes a client send.                      *)
Fairness ==
    \A c \in Conns :
        /\ WF_sessionVars(Daemon(c)) /\ WF_sessionVars(HandleAlrm(c))
        /\ WF_sessionVars(ReadResponse(c))

SessionSpec == SessionInit /\ [][SessionNext]_sessionVars /\ Fairness

-----------------------------------------------------------------------------
(* What the client is told is true: ok to add if this request has renamed  *)
(* a table with the user into place, err if it has not; and a lookup finds *)
(* the user that an earlier request was told it has added.  The table has  *)
(* the user unless a lock was removed (cli_main in daemon/main.cc,         *)
(* vdomain::set).                                                          *)
AnswersAreTrue ==
    \A c \in Conns :
        /\ kind[c] = "add" => (cl[c] = "ok" => done[c]) /\ (cl[c] = "err" => ~done[c])
        /\ ~robbed /\ cl[c] = "ok" => Visible[User] # Absent
        /\ ~robbed /\ kind[c] = "lookup" /\ cl[c] = "err"
             => \A d \in 1..(c - 1) : kind[d] = "add" => cl[d] # "ok"

(* A repeated request takes effect once.  When the process of the first    *)
(* try is still at work the put refuses what the lookup has missed         *)
(* (lookup_and_validate, vpwtable::put), unless its copy of the table is   *)
(* the older one; when the first try was told ok, no other has an effect,  *)
(* whatever becomes of copies.                                             *)
OneEffect ==
    /\ Orderly => \A c, d \in Conns : done[c] /\ done[d] => c = d
    /\ ~robbed => \A d \in Conns : \A c \in 1..(d - 1) :
                     kind[c] = "add" /\ cl[c] = "ok" => ~done[d]

(* The alarm never ends a process between the first and the last step of   *)
(* a command (read_data); a table that is cut short may.                   *)
NotCutShort ==
    [][\A c \in Conns :
         srv[c] \in {"work", "lookup"} /\ srv'[c] = "gone" => Table!Torn(table)]_sessionVars

(* A process ends whatever its client does or fails to do, and a client    *)
(* that has sent its request gets its response or the end of the           *)
(* connection; a client that is sent data has to go on reading it.         *)
ConnectionsEnd ==
    \A c \in Conns :
        /\ srv[c] # "none" ~> srv[c] = "gone"
        /\ cl[c] \in {"code", "length", "text"} ~> Closed(c)

=============================================================================
