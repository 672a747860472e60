# vmailmgr in TLA+

vmailmgr keeps the mail accounts of virtual domains. Each domain belongs to one
Unix user; its accounts are the records of one constant database file,
`passwd.cdb`, and one directory (a maildir) for each. A daemon, command line
tools and CGI programs change them; `vdeliver` delivers mail to them;
`checkvpw` and `vauthenticate` let their owners in. No process talks to another
about a domain: **the file system is the only shared state**, and
`O_EXCL`, `rename`, `link`, `mkdir` are the only synchronisation.

This directory holds TLA+ models of that shared state, the TLC runs that check
them on small instances and TLAPS proofs about them. File and line numbers below
are those of the repository (`PROJECT.json` maps every definition to its lines).

## The system

| Component | State | Operations | Hard part | What makes it correct |
|---|---|---|---|---|
| constant database `lib/cdb++` | `passwd.cdb`, `passwd.cdb.tmp`, a writer's file and buffer, a reader's mapping | create, put, end, abort; open, nextrec, get | the `.tmp` name is the lock and outlives a killed process; the destructor unlinks it; the header is written last | a reader finds a whole table; one writer at a time; a published file is never written |
| password table `lib/vpwtable` | the records | `put` (add, set), `del`, `getbyname`, `exists`; table reader and writer objects | the table is read before the lock is taken | an atomic map with true answers |
| virtual domain `lib/vdomain` | accounts: a record and a directory each | adduser (`set`), `chattr`, `chpass`, `deluser`, `lookup` | several unlocked steps, each of which may fail or be the last | every account has its mailbox; mail goes with its account and not before |
| directories `lib/misc/maildir.cc` | user directories | `mkdirp`, `make_maildir`, `delete_directory` | partial failure, other processes inside the directory | nothing of a living account is removed |
| delivery `commands/vdeliver.cc` | `tmp` and `new` of a maildir, exit code | lookup, scripts, tmp file, forward, link, unlink | kill, power loss, retry, account changes during a delivery | what is in `new` is whole; what is reported delivered was delivered |
| vmailmgrd `daemon/` | one child per connection; its alarm and buffer | read a request, decode, run a command, answer | short reads, alarm, lost answers and repeated requests | a request is run once or not at all, and answered truly |
| autoresponses `daemon/autoresponse.cc` | message file, its disabled name, a `.lock` file | write, disable, enable, read, delete, status | check-then-act between processes, a lock left behind | an enabled message is a whole one |
| protocol client `lib/misc/server.cc` | socket, message buffer | build, send, receive | 16 bit lengths | the daemon decodes what the client encoded |
| name lookup `lib/misc/lookup_*.cc` | none | base user, domain | boundary cases of splitting | the account a name denotes |
| record format `lib/vpwentry` | none | encode, decode (every version) | records cut short | decode inverts encode |
| tools `commands/` | loops over users | vadduser, vaddusers, vdeluser, vchattr, vchforwards, vpasswd ... | one of many users failing | each user handled as by vdomain |
| vrehash, vupgrade | the table, the directories, the sticky bit | read the old records, make their directories, write the table | a writer that creates the table itself and whose test is the wrong way round | status 0 means a whole table; a table that is there is spared |
| vsetup | domain user's files | create table, `.qmail-default`, users directory | one of several steps failing | repeatable |
| authentication `authenticate/` | none | check a password, fall through to the next module | which passwords open which account | only the right password |
| buffered files `lib/fdbuf` | a buffer over a file | read, write, seek, flush | short transfers, seeks inside and outside the buffer | the file is what was written, in order |
| strings, containers `lib/mystring`, `hash_table.h` | counted representations; slots | assign, append, join, cut; lookup, insert, remove | sharing; probe runs | a string is a value; a table is a map |
| options `lib/cli++` | the variables of a program | parse | joined letters, values apart or not | what was meant |
| CGI programs `cgi/`, `lib/cgi` | the arguments of a form | decode, ask the daemon | truncated forms, lists of addresses | the request is the form's |
| Python and PHP bindings | none | build messages, parse records | no checks of lengths | as the library's |
| digests and passwords `md5.c`, `md5-crypt.c`, `pwcrypt.cc` | a context | add bytes, finish; encrypt, compare | message cut at any place, padding | a digest of the whole; a password matches itself |
| courier-authlib (vendored) | | the chain of authentication modules | | part of the logins |
| configuration `lib/config` | | read a file with a default | | |

The tools and the daemon's commands call `vdomain`; `vdomain` calls `vpwtable`
and the directory functions; `vpwtable` drives `cdb_writer` and `cdb_reader`.
`vdeliver` and the authenticators only read the table.

## Modules

| Module | Models | State and code |
|---|---|---|
| `VPwTable` | `put`, `del` and lookups down to the system calls | `table`, `tmp`: the two directory entries; `file`: contents per inode; `pc`, `op`, `snap`, `fd`, `res`: a process in `put`/`del`, with the table it mapped, the file it writes, the boolean it will return; `robbed`: history |
| `PwMap` | what the table promises | a map changed in one step; a call and its answer |
| `VDomain` | accounts; instantiates `VPwTable` | adds `dir`, `mail` per user, `bound`: the users a running vdeliver has looked up, and `req`, `stage`, `vpw`, `ans` per process; `stale`: history |
| `Accounts` | what the domain promises | an account changed in one step; a request and its answer |
| `VDeliver` | deliveries to one account | `tmp`, `new`; `stage`, `ent`, `name` per running vdeliver; `status`, `tries` of the queue; history counters |
| `Session` | a client and vmailmgrd, request after request; extends `VDomain` | per connection: `cl` and `srv` (where each side is), `kind` (to add a user or to look it up), bytes under way each way, `alarm`, `first` (the code of the first response); `done`: history, the request has added the user |
| `Autoresponse` | `daemon/autoresponse.cc` by several processes | `link`: what the three names denote; `text` of each file; `pc`, `req`, `fd` per process |
| `Upgrade` | vupgrade, vrehash, and the table's reader and writer objects | `passwd`, `cdb`, `dirs`, `sticky` (the mode that locks a domain), the program's place, another writer |
| `Tools` | the loops of the command line tools, and vsetup | `users`, `.qmail-default` and its backup; `prog`, `input`, `errors`, `exit` |
| `OutBuffer`, `InBuffer` | `fdobuf`, `fdibuf` | the buffer, its place in the file, the caller's place |
| `HashTable` | `hash_table.h` | slots, `index`, `count`; `meant`: the map it stands for |
| `CdbFile` | the bytes of `passwd.cdb` in cells | the writer's list and position, the file, the walking reader |
| `Digest`, `Crypt` | md5 contexts; MD5 passwords and `crypt_cmp` | the context with its buffer and two words of length; the password tried |
| `Record` | `vpwentry` to and from bytes, `chattr`, the other readers | an entry and the changes made to it |
| `Request` | encoding, decoding, dispatch, domain and base user | the arguments asked, the message, the account they come to |
| `Login` | checkvpw, vauthenticate, authvmailmgr | the account and password given; the process: user, directory, what its environment says of the account |
| `Options` | `cli++/main.cc` | `argv`, the position in it, the variables |
| `MyString` | `lib/mystring` | strings, the heap of representations with their counts, an expression |
| `CgiForm` | form decoding and five CGI programs | what is left of the form, the arguments, the requests made |
| `VPwTableProofs`, `VDomainProofs`, `VDeliverProofs`, `SessionProofs` | theorems about the modules they are named after | |
| `DataProofs`, `TextProofs` | theorems about `Request`, `HashTable`, `Crypt` and `Digest`, and about `MyString` and `Options`, each component alone | the constants and variables of all of them |
| `ProgramsProofs`, `LibraryProofs` | theorems about `Autoresponse`, and about `Upgrade` and `Tools` as `MCPrograms` has them; about all but three components of `MCLibrary`, as it has them | |
| `MCVPwTable`, `MCVDomain`, `MCVDeliver`, `MCSession`, `MCPrograms`, `MCLibrary` | constants and symmetry for TLC; the last two put several components side by side, one per behaviour | |

**VPwTable.** `OpenTable` is `cdb_reader in(filename)`, before the lock;
`CreateTmp` the constructor of `cdb_writer` (`O_CREAT|O_EXCL`); `Copy` the record
loop with its `onlyadd` test; `FlushBody` and `FlushHeader` when the bytes reach
the file (a table that fits the output buffer is written with its header in
one call, hence `FlushHeader` is possible without `FlushBody`); `Rename` acts on the name `.tmp`, whichever
file that is by then; `Unlink` is the destructor, which unlinks the name even
after a successful rename. The boolean of `del` is the code's, also where it is
wrong (a copy that fails answers true). A reader of a file without its header
finds any part of its records, or dies: `cdbmake::final` is first written
uninitialised. A mapped file without bytes kills the reader.

**VDomain.** `Lookup` is the existence check and, for `chattr`, the reading of
the entry that will be written back whole; `MkDirP` and `MakeMaildir` are the first half
of `vdomain::set`; `TableStep` lets the table take its own steps; `Called` is
what `set`, `chattr` and `deluser` do with the result; `Empty`, `Sweep` and `RmDir`
are `delete_directory`: its three rounds are not counted, any round that fails may be the last, and one that fails
with an error is. `vdeliver` is here as far as it meets the requests: `LookUpToDeliver` reads the table, `Deliver`
links a message any time later, whatever has become of the account, `EndDeliveries` is the end of the last that looked the user up.
A directory is `absent`, `bare` or a `maildir`; that it is named after its user is assumed (hash directories are left out).

**VDeliver.** The queue (qmail) and the mail reader are external: `Start` tries a
queued message, at most `MaxTries` times; `Collect` takes a message out of
`new`. An exit code is read as qmail-command(8) says, on which `vdeliver.cc` relies. Signals
and crashes count as 111. `PowerLoss` ends all processes and cuts every unsynced
file short; directories are taken to be synchronous, as the maildir protocol takes
them. `Lookup` falls back to the default user, who has an alias and no mailbox here.

**Session.** The client is `server_call` with `response::read`; Python and PHP do the same. A command that adds a user
takes the steps of `VDomain`, one at a time (`Work`), so that the processes of two tries meet as they do there: each with
a copy of the table made before the lock, at the lock, with writes that fail, and one deleting the directory
the other has made. `Finish` turns the result into the code. A command that looks the user up reads the table once (`Find`) and streams
what it has found, with the alarm off. Reads and writes move any number of bytes that is there, which is where a short read
of the daemon (`daemon/main.cc:157`) ends a request. A short read of the text of a response leaves the client with an empty message and the
code. The client may go on with another connection as soon as it has done with the last, also when the process of the last is still at work.

**Autoresponse.** Each `stat`, `open`, `rename`, `unlink` and directory read is a step. What a
process has not flushed is `Part`. `delete` empties the directory whoever is writing in it: `swept` records
that it took the lock of a living write.

**Upgrade.** The table writer opens the table by its own name (`cdb_write.cc`), not by `.tmp`, with
`O_EXCL`: `OpenWriter` fails when there is a table. A record of passwd that names a directory gets none made
(`vupgrade.cc:99`), and nobody looks whether that directory is there. Its `operator!` says the opposite of the truth,
so vrehash stops in `lock_dir` and never comes to rename a directory.

**Tools.** An input is a list of lines of names; what one name does to the table is one step, other
programs act between the steps. `vsetup` is step by step.

**The library parts** keep their state to themselves. Each is a small machine that makes calls in any
order within its bounds, with the value the calls stand for beside it (`meant`, `value`, `given`).
Characters are numbers or letters where a property needs their order, block and word sizes
are constants (`Digest` keeps the two words of length, each of `Word` values, and no piece is longer than `Longest`). The hash of a key, and the
compression of a digest, are any function, the latter injective. What is under `lib/courier-authlib`
is modelled as far as `authvmailmgr` runs through it.

## Properties

*Password table.* The two facts `cdb_writer` and `vpwtable` are built for are that a
reader never finds half a table and that updates do not mix. Both depend on the
`.tmp` lock, and the destructor breaks it: after a successful `end()` it unlinks
whatever file then has the `.tmp` name. `robbed` records that this hit a live
writer, and the properties say precisely what holds until then and what holds
even so:
`TornOnlyIfRobbed`, `LockExclusive`, `FreshUpdateIsExact` (until then),
`PublishedIsFrozen` (always: readers keep a shared mapping),
`OrphanLockIsForever` (a lock left by a dead process is never removed: updates end for
good), `LockIsReleased`, `CallsReturn`, and `AtomicMap` (refinement of `PwMap`
for one process at a time).

*Accounts.* `AccountsAreWhole` (every entry with a mailbox has its directory, and after a true
"deleted" neither is left), `MailIsKept`, `MailGoesWithAccount` (a directory is left behind without an account only when a process at work on
its user dies or answers that it has failed: a delivery may get in the way of `delete_directory`, but then "Deleted user." is not
said), `AtomicAccounts` (refinement of `Accounts`, whose `Complain` is the error of a `deluser` that has deleted the account and
could not delete its directory), `AtomicTable` (the table underneath refines `PwMap`). What goes wrong in the table goes wrong here: the first three
hold as long as things are `Orderly`, that is, until a lock is removed (`robbed`) or a copy that is no longer current
is renamed into place (`stale`). A run with `stale` left out finds no more with two processes that serve users of
their own; three are enough to lose mail of a user nobody deletes, without any fault:

1. p1 reads the table; p2 adds its user u2, with a maildir, and mail arrives; p1 renames its copy, without u2;
2. p3 reads the table before p1's rename and after p2's, and so still has u2;
3. p2 is asked to add u2 again and its lookup finds no such user; p3 renames its copy: u2 is there again;
4. p2's directory is there, so it goes on to `put`, which is refused because u2 exists (or the lock is taken);
   `vdomain::set` then deletes the directory, with the mail (`lib/vdomain/set.cc:34`).

`vdm_apart.cfg` shows it when it is given three processes and users, `Faults = {}`, only `adduser`, and `MailIsKept`
without `Orderly`. With three processes the lost update of `vpw_lost` is thus more than a lost update.

*Delivery.* `NewIsWhole`, `DoneIsDelivered`, `NewIsKept`, `AttemptsEnd`.

*Requests.* `AnswersAreTrue`: an add is answered ok only if this very request has renamed the user into the table, and err
only if it has not, without any condition (an err does not say that the user is not there: a put that meets the lock answers
so as well); and as long as no lock is removed, whoever was told ok has the user, and a later lookup finds it. `OneEffect`: of two
tries, the process of the first perhaps still at work, only one adds the user as long as things are `Orderly` (two adds that both
mapped the table before either had the lock may both succeed, one with a copy that is `stale` by then); after an answer ok to one
no later one adds anything, stale copies or not. `NotCutShort` (the alarm ends no command half way), `ConnectionsEnd`.

*Programs.* `WholeUnlessSwept` and `OneCopyAlone` of autoresponses; `UpgradeIsWhole` (status 0: the table has the
accounts of passwd, and each whose record names no directory has its own) and `WholeTableSurvives`; `ListsAreCarriedOut` (what exit status 0 of a tool with a list means) and
`SetupKeepsOld`.

*Library.* One property each, that a component is what it stands for:
`WrittenInOrder`, `ReadInOrder`, `HashTableIsMap`, `FoundIsStored`, `DigestIsOfTheWhole`,
`OnlyItselfMatches`, `RecordSurvives`, `RequestAsMeant`, `OnlyTheRightful`, `OptionsAsMeant`,
`StringsAreValues`, `FormAsMeant`. Where the code keeps a promise only under a condition, the property says under
which, so that it tells the limits of the code as well (see below).

## Runs

| Run | Instance | Shows |
|---|---|---|
| `vpw_two` | 2 writers, 2 names, 1 record, errors and deaths | the safety of the table |
| `vpw_live` | 2 writers, errors, fair | locks go away, calls return |
| `vpw_lost` | 2 writers, no faults | violated: one update takes another's record out again |
| `vpw_torn` | 2 writers, no faults | violated: an unfinished file becomes the table |
| `vdm_killed` | 1 process, 2 users, 2 values, deaths, deliveries | accounts are atomic and keep their mailboxes wherever a process is killed, what is left behind is told of, and the table is an atomic map |
| `vdm_apart` | 2 processes with a user each, errors, deliveries | the shared table and its lost updates do not cost a *living* account its directory |
| `vdm_forwards` | 1 process that may be killed, then vchforwards | violated: a failing vchforwards deletes the mailbox |
| `vdl_faults` | 2 messages, 2 names, 2 tries, all faults, account changes | delivery is safe |
| `vdl_live` | 2 messages, 2 names, 1 try, one may die | attempts end while the maildir is there |
| `ses_retry` | 2 tries, each to add or to look up, messages of several writes, write errors | requests are answered truly, an add takes effect once, and every process ends |
| `prg_all` | 2 processes and a message; passwd of 2 lines; lists of 2 lines of 2 names | autoresponses, vupgrade and vrehash, the tools |
| `lib_all` | see below | the twelve library parts |

**Bounds.** Two processes are enough for a conflict over the table, which is
between the holder of the `.tmp` name and one other; a process begins a new call
after each, so the third writer of `vpw_torn` is one of the two. For accounts they are not (see `MailIsKept` above):
what holds there of any number of processes is what the theorems say. Inodes: one more
than processes is never too few, because each process has at most one file open, the
table has one, and a file under the `.tmp` name that nobody has open stops
creation. Two names let an update disturb a record not its own; two records tell
replaced from kept. In `VDeliver`, two file names and two messages make a name
come up again after a death; two tries make a message meet its own earlier
try's file. Symmetry is used only in runs without liveness: of files, and in `vdm_apart` of
processes together with the users they serve (`SameSides`).
`vdm_apart` ends (`CONSTRAINT Orderly`) where a lock has been removed or a stale copy renamed: `MailIsKept` speaks of steps from
states before that, each of which is still looked at, and nothing makes things orderly again. `Session` has two tries: each further one meets
the same two cases, a first process that is done and one that is not, and the proofs cover any number. Its messages are of two bytes
more than a header, since only whether a transfer is whole matters, and a socket holds less than a response, so that writers wait.
Three inodes are again one more than processes. `AccountsAreWhole` is not claimed for two tries: the second, refused by `put`, deletes the directory the first
has made (`lib/vdomain/set.cc:34`).
In `Tools`, `Limit` (256) is the modulus of an exit status; `MaxLines` and `MaxWords` two, for a failure before
and after a success. In `lib_all`: buffers of two and three bytes with files of up to four, so that calls are shorter
than, as long as and longer than a buffer; hash tables that are filled, grown and wrapped; tables of three
records with every choice of hashes; messages of nine blocks whose length passes the low word of the count;
salts shorter and longer than is used; numbers of 7 bits in records; a length field of two digits to the
base 4, in place of 256; strings of four characters, of which the fourth does not fit the first buffer; form values
longer than the buffer. Each bound is a constant of its module, with its value in `MCPrograms`, in `MCLibrary`, or in `lib_all.cfg` where a
theorem is about any value.

**Fairness.** Weak fairness of a process' own steps: the kernel schedules it
(nothing in the code blocks). `VDeliver` adds strong fairness of `Create`: the loop
makes its name from the clock every two seconds, so a free name comes up again and again;
it does not hold once the maildir is gone: then the loop does not end. Requests, faults,
deaths and the mail reader have no fairness. `Session` has the daemon's steps, its alarm and the reading client fair;
that a client sends, or goes on, is not assumed: the alarm must see to the end then. While data is streamed the
alarm is off, so a process that streams ends because its client reads or goes.

**Deadlock** is checked for the table and the accounts. `VDeliver` stops when every message is
done and nothing is left to collect, `Session` when every try has ended, and the parts of `MCLibrary` at the end of a
parse or a login; their configurations say `CHECK_DEADLOCK FALSE`.

## Proofs

`VPwTableProofs` proves, for any sets of processes, names, records and files and
any faults, under `ConstantsAssumption` (the "no value" constants are not values):

* `TypeInvariance`, `WholeUnlessRobbed`, `OneWriter`: `Spec => []TypeOK`,
  `[]TornOnlyIfRobbed`, `[]LockExclusive`;
* `PublishedStaysFrozen`, `OrphanLockStays`, `FreshUpdatesAreExact`: the action
  properties;
* `SerialMap`: under `Serial` (one process, no write errors, deaths allowed),
  `Spec => AtomicMap`, that is, `put` and `del` implement `PwMap`.

`TornOnlyIfRobbed` is not inductive: that the file being renamed is whole follows
from who holds the name. The inductive invariant `IInv` adds: `Busy` (who is
where has a call and a file), `Apart` (writers' files are distinct and none is the published
one), `Crafted` (a file about to be renamed holds exactly the update of its
writer's copy), `Blank` (a file not yet written is empty), `Locked` (until a robbery, a
writer's file is the one named `.tmp`). `Apart` does
not depend on `robbed`, which is why `PublishedIsFrozen` holds always. `SerialMap`
adds `Current`: with one process, its copy is the table.

`VDeliverProofs` proves, for any messages, file names, number of tries and
faults, under `DeliverAssumption`: `TypeInvariance`, `NewStaysWhole`
(`[]NewIsWhole`), `ZeroMeansDelivered` (`[]DoneIsDelivered`) and
`NoMessageReplaced` (`NewIsKept`). That what is linked is on the disk depends on
the whole course of an attempt, so `IInv` adds: `AtHand` (a vdeliver works for a
queued message, has an entry after its lookup and a file name after its
creation), `NamesApart` (two that run have different names, which is what
`O_EXCL` and the process number in the name give), `SyncedFirst` (from the
forwarding on, the file is on the disk if it is there at all), `DoneSoFar` (what
has been done at each step) and `OncePerTry` (the counts, for the type
invariant). `ExitKeeps` treats all ends of an attempt at once, since most steps may be
one.

`SessionProofs` extends `VDomainProofs`, since a step of a session is one of the domain or leaves it alone (`DomainMoves`). It proves,
under `SessionAssumption` and `DomainAssumption`, for any number of tries, messages of any length and any entries, with or without write errors and
deaths: `ToldTheTruth` (`[]AnswersAreTrue`), `EffectOnce` (`[]OneEffect`) and `CommandsEnd` (`NotCutShort`). What a client has been told is tied
to the table through the whole course of a request, so `SessionInv` adds to the domain's invariant: which process is at work on what, and that `done` is
exactly having renamed the table and not yet forgotten it (`AtWork`, `Effected`); that before the command has come back nothing has been
said (`Untouched`); that the first code sent is the one the client ends with, and is true (`Told`, `FirstIsTrue`). While no lock is removed it
adds that the user stays once added (`Present`, since no request deletes and whoever has copied the table without the user is about to add it), and that
whoever connects after an ok gets no further than its lookup (`Later`); while things are `Orderly`, that one request at most has added (`Once`).
`Quiet` says when the alarm is off.

`ProgramsProofs` proves, for any processes, messages and files, under `AutoresponseAssumption` (the "no value"
constants are not values): `TypeInvariance`, `MessagesAreWhole` (`[]WholeUnlessSwept`) and `AloneOneCopy`
(`[]OneCopyAlone`). `IInv` adds where a request can take a process (`AtWork`), that exactly the writes from the
creation to the end have a file (`HasFile`), that these differ (`FilesApart`), that until a delete has interfered the
file of a write is the one named lock and is whole when it is renamed (`Locked`), and for the second property
that a request that is alone finds what it has checked (`OnlyOne`, `NoneKept`).

`VDomainProofs` rests on `VPwTableProofs`, whose every step it reuses: a step of a request is a step of the table or
leaves it alone (`TableMoves`), so the table's invariant, and with one process `Current`, are inherited. Under
`DomainAssumption` (the "no value" constants are not values):

* `TypeInvariance`: `Spec => []TypeOK`;
* `AccountsStayWhole` (`[]AccountsAreWhole`) and `MailStays` (`MailIsKept`) under `Separate`: any number of processes that each
  serve users of their own and add, change or delete them, with deaths everywhere, and write errors where nothing is deleted. The other cases are false, and
  runs or the list below show it: two processes at one user, vchforwards, and a `del` that fails to copy;
* `MailIsTakenAlong` (`MailGoesWithAccount`) under nothing more: any processes at any users, every kind of request, write errors, deaths
  and deliveries at any point;
* `TableIsAtomic` (`AtomicTable`) and `RequestsAreAtomic` (`AtomicAccounts`) under `Alone`: one process, no write
  errors. The mapping of the second decides a request at the rename of its table, or when it is refused.

`AccountsAreWhole` does not follow from itself: that `put` may enter a user rests on the directory made two
steps before, and that a directory may be deleted on what `put` has answered. `Tidy` therefore says what each
request knows of its account: before the update is decided (`Before`), that its lookup still holds and its
directory is ready (`Fits`); after, that the table is as the answer says (`Settled`). `Linked` ties a
request to its call of the table. `Fits` is what others could
spoil, hence `Separate` and `Orderly`; `AloneKeeps` shows that a process alone never makes things disorderly. `MailIsTakenAlong`
needs neither: a process minds the directory of its user from its lookup until its update is decided or the directory gone
(`MindsAtWork`), and a step after which nobody minds one is a death or an answer.

It also proves, of `MCPrograms` and for any users and lists of any length: `UpgradeMakesTheTable`
(`[]UpgradeIsWhole`), `UpgradeSparesTheTable` (`WholeTableSurvives`), `ToolsCarryOutLists`
(`[]ListsAreCarriedOut`) and `SetupKeepsTheOldFile` (`[]SetupKeepsOld`). What a program has done at its end follows from
what it has done at each line: `Reading` (vupgrade has put out what the lines before its own say), `Worked` (what a tool
has done or met is the words it has passed, unless it counts errors), `Kept` (where the old `.qmail-default` is at each step
of `vsetup`).

`LibraryProofs` proves, of `MCLibrary` under `LibraryAssumption` (the "no value" constants are not values,
sizes are positive): `WritesInOrder` (`[]WrittenInOrder`), `ReadsInOrder` (`[]ReadInOrder`) and
`OnlyOwnersAreServed` (`[]OnlyTheRightful`), for buffers, files and calls of any length and any accounts and
passwords. `Usable` says that fdobuf's buffer is never full between calls and never lies beyond the end of the file; without it
a flush would leave a hole. `InOrder` says that fdibuf's buffer is a piece of the file (`Fits`, `Matches`), and where
the caller is in it (`Place`). The rest of both proofs is what overlaying and cutting do to sequences (`Patch...`, `Segment...`).
The invariant of the logins says what has been looked up, who the process has become and what has been checked at each
step (`LookedUp`, `Become`, `Checked`), over any number of failed attempts.

`DataProofs` has the invariant of the MD5 context: it `HasTaken` the message so far, that is, what it has `Compressed` are the
blocks of a first part of the message, its two words count that part, and its buffer is the rest and at most a block. Each
way through `md5_process_bytes` compresses whole blocks and so keeps this, and what `md5_finish_ctx` adds is the only padding that fits. The
lemmas on quotients and remainders that this takes come before it. `DigestsAreOfTheWhole` in `LibraryProofs`
states the result of `MCLibrary`; `SameDigest` relates the two instances of `Digest`. It is assumed that no piece has more bytes
than a word counts (`Longest <= Word`, which is `WordSize` in `DataProofs`), which a `size_t` of the word's width gives: with one of 64 bits, a piece of more than 2^32
bytes would be miscounted. The callers in this repository pass passwords and salts, and a stream by buffers of 4096 bytes.

`DataProofs` and `TextProofs`, which extends it, are about components whose answers are computed by folds and recursive
functions over data of any size. The first three theorems are in `DataProofs`, the others in `TextProofs`:

* `RequestsAreAsMeant` (`RequestAsMeant`), under `RequestAssumption`: a length has two digits to a base of at least 2,
  a command has a name that fits into one, and takes at least two arguments (the domain and one more, as every
  row of the table in `daemon/dispatch.cc` does). The daemon believes the lengths in the message and never
  compares them with what is there, so the invariant `RqInv` says how the message was made: each string is found where
  the lengths before it say (`Body`, `EncodedIs`), and a client that cannot say a length sends nothing.
  Then the account is found whose domain and user were joined, unless a longer name hides it (`LookupIs`).
* `HashTablesAreMaps` (`HashTableIsMap`), under `HashTableAssumption`: the sizes of the tables grow. They are not
  assumed to be prime: probing goes to the next slot, so it meets every slot of a table of any size (`EverySlot`). `HtInv`
  says that every key in the table is found by the search for it (`Holds`), as long as none has been removed, and that
  fewer than all slots are in use, so every search ends. That `realloc` keeps this is an induction on the slots it
  enters again.
* `PasswordsMatchThemselves` (`OnlyItselfMatches`), under `CryptAssumption`: digests are not empty, there is at least one
  round, and passwords and salts are texts. A digest is modelled as the text it is of, so that equal results come from
  equal texts. The proof goes back through the rounds (`RoundsAgree`, `HashedTells`): the last round has
  the digest of the round before it, down to the first, and its text has the password.
* `StringsAreWhatTheyWereGiven` (`StringsAreValues`), under `MyStringAssumption`: strings and representations are finite in number and
  there are more representations than strings and operands, that is, the heap is not exhausted (the code does not look whether it is). `MsInv`
  counts the references that there are (`Held`) and says that the heap has counted the same (`HeapOf`), that the text of each
  string is its own, and that what the operands hold is what they were (`Sound`). An expression lets go of its operands one after another,
  and in between the counts are wrong for the heap as a whole: `OperandsRun` says what is still owed.
* `OptionsAreAsMeant` (`OptionsAsMeant`), under `OptionsAssumption`: no two options have the same letter or the same name, a name has
  no `=` and a letter is not `-`, and options that set the same variable are of one type. An option may lack its letter or
  its name, as in the tables of the tools. What was written has to be found again in what is left to be read, although a word
  may hold many switches, or the value of an option, or something that looks like an option and is a value. `SayAll` is the
  relation between the two texts: there are places in the words, a word and a letter in it, between one use and the next, and
  from each place to the next the words say that use (`AsLetter`, `AsName`). Writing keeps this, also where a letter joins the word
  before it, which moves no place but the last (`WriteUseKeeps`). While they are read, `OpInv` says that what has been read are the
  first k uses and that the parser is at the k-th place (`HasRead`); each step of it goes to the next place and does what that use
  means (`ParseShortOn`, `ParseLongOn`), or finds a number that is none.

Induction over data is induction over numbers: of a set of numbers that violate something, `LeastOf` gives the least. On it rest
`InductionTo`, and `FoldRuns`: a fold over a sequence is the last state of a run of as many steps (`IsRun`), of which each
can be looked at alone. No operator is a parameter of a lemma. `LibraryProofs` carries these five results over to
`MCLibrary`: its constants for them are parameters as well, to which `lib_all.cfg` gives values, and `SameRequest`,
`SameHashTable`, `SameCrypt`, `SameMyString` and `SameOptions` say that its instances are those of `TextProofs` and `DataProofs`.

TLC has checked every inductive invariant on the instance of its run before it was proved, and `OpInv`, which says that there are
places, by looking for them on three options and two uses.

Apart from `DataProofs` and `TextProofs`, and the end of a line in `fdibuf::getline`, the proofs use no induction; no set of `CONSTANTS` is
assumed to be finite but the strings and representations of `MyString`, whose number is compared.
`SerialMap` is stated of `VPwTable` itself; its passing check is that of `AtomicTable`, the same refinement
of the table inside `VDomain`. `AtomicMap` as such is a property of the run `vpw_lost`, which refutes it for two writers.

**Only model-checked:** liveness (`LockIsReleased`, `CallsReturn`, `AttemptsEnd`, `ConnectionsEnd`), which is
beyond the prover, and three of the library's properties: `FoundIsStored` (the layout of the file is a nested fold
over hash tables, lists and records), `RecordSurvives` (decimal digits there and back, and seven old formats),
and `FormAsMeant` (what was written has to be found again in what is left to be read, as for the options, but
through escapes, lists inside of fields and five programs). They can be reached in the same way as those
of `DataProofs` and `TextProofs`, and have not been.

## Where the code disagrees with its documentation

The three violated runs, each with its line in `PROJECT.json` `findings`. Also seen
while modelling, and kept in the models as the code has it:

* `del` answers true when a copy failed, so "Deleted user." may be said of a user who is still there
  (`lib/vpwtable/cdb_del.cc:38`).
* Two adds of one user at once may both succeed, the later record winning, and the loser of the lock
  deletes the directory both made (`lib/vdomain/set.cc:34`).
* deluser answers "Couldn't delete user's directory" when the account is gone already (`lib/vdomain/deluser.cc:32`), as it may when a
  delivery is under way (`lib/misc/maildir.cc:98`): the mail left behind goes to the next user of that name.
* The exit code of `vdeliver-postdeliver` replaces that of a delivery that has been made.
* A failure to open the table is taken for a table without the user: vdeliver bounces the message
  (`lib/vpwtable/cdb_getbyname.cc:24`).
* vdeliver tries to create its file for ever when the maildir has gone since it was looked at (`commands/vdeliver.cc:194`).
* vrehash stops in `lock_dir` at every table and leaves the sticky bit set, so qmail-local defers the domain's mail
  (`commands/vrehash.cc:84`, with the writer's `operator!`); vupgrade ends silently, with status 0, at the first line of passwd
  that is no record, and refuses to run over an existing table; a directory that a record names it neither makes nor looks for
  (`commands/vupgrade.cc:99`).
* vadduser exits 0 though an alias failed (`commands/vadduser.cc:94`); the status of vchattr is its errors modulo 256
  (`commands/vchattr.cc:66`); a second vsetup overwrites the backup of the first.
* `hash_table::exists` answers the opposite; `remove` breaks the runs of other keys.
* `fdobuf` misplaces what is written after a seek back into the buffer and a large write or flush;
  `fdibuf::seek` may return stale bytes after a large read, and `fdibuf::read` does not end on a read error
  (`lib/fdbuf/fdibuf.cc:145`).
* A NUL in the personal information (`vdomain/chattr.cc:93`) or an empty forward in an old record makes a record every reader refuses: the
  user is gone. Python refuses every record (it does not know the flag has_mailbox).
* Python and PHP do not look at the length of an argument, and a message of 65536 bytes or more is cut.
* A system user `b-c` captures the names `c...` of the domain of `b` (`lib/misc/lookup_baseuser.cc:34`).
* A leading comma in a list of addresses is miscounted (`lib/mystring/count.cc:22`): vaddalias and vchforwards then
  write past their arguments, vadduser drops the last address.
* After a failure, courier's `authmod_fail_completely` runs the login again as the user it has changed to.
* The daemon's stat command counts nothing in a directory with messages and does not end in an empty one
  (`daemon/stat.cc:62`: `done()` is the wrong way round; so is the test for seen messages at line 127).

## Not modelled

* The gdbm variant of the table: its locking is in the gdbm library, and its writer does not compile.
* Power loss for the table: `cdb_writer::end` does not sync, so nothing about a table after a power failure follows from the code.
* `lib/config`: a file for each setting, with a default.
* The checks of the password and of whose account it is in `lookup_and_validate` (`daemon/lookup.cc:34`): the requests modelled are
  those that pass them. That the daemon's listdomain looks its domain up itself (`daemon/listdomain.cc:37`), which `Request`
  leaves out; no clause of `RequestAsMeant` depends on it.
* The descriptors the authenticators read and the groups they set.
* listvdomain, dumpvuser, listdomain and the HTML of the CGI programs: they only print. The stat command: as above.
* What comes after `lock_dir` in vrehash, which cannot be reached as the code stands.
* The hash directories of `userdir`: a directory is named after its user.
* The reading of system files (`/etc/passwd`, qmail's control files) and when they are read again.
* crc32, crypt(3) and the compression functions of the digests: any function does.
* The time it takes to notice: clocks, `sleep`, quota sizes.
* Text: envelopes, headers, formatting, locale, logging.

## Plan

Done, in this order: `VPwTable`/`PwMap`, `VDomain`/`Accounts`, `VDeliver` and the proofs of the table and of
delivery; `Session`, `Autoresponse`, `Upgrade`, `Tools`; the library parts; the proofs of `Session` and
`Autoresponse`; the proofs of `VDomain`, of `Upgrade` and `Tools`, of the buffers and logins, of the digests, and of
the requests, hash tables, passwords, strings and options; deliveries inside of `VDomain`, and `VDomain` inside of `Session`, with
their proofs.

Left: proofs of what the constant database, the records and the forms make of their data (see "Only model-checked").

Composition: `VDomain` instantiates `VPwTable` and refines `Accounts`, `VPwTable` refines `PwMap`, `Session` extends `VDomain`. `MCPrograms` and
`MCLibrary` run components that do not interact.
