----------------------------- MODULE OutBuffer ------------------------------
(***************************************************************************)
(* A file written through a buffer (class fdobuf of lib/fdbuf).  The       *)
(* history keeps what the file would hold without the buffer: the program  *)
(* may seek back and write over what it has written, as cdb_writer does    *)
(* with the header of a table.                                             *)
(***************************************************************************)
EXTENDS Naturals, Sequences

CONSTANTS
    Bytes,  \* the bytes written
    Size,   \* bufsize
    MaxLen  \* the longest file

OutBufferAssumption == Size \in Nat \ {0} /\ MaxLen \in Nat

VARIABLES
    out,     \* the fdobuf, and the file as the kernel has it
    ref, at, \* history: the file and the position the program means
    astray,  \* history: a flush has forgotten a seek back into the buffer
    mixed    \* history: something has been written in the wrong place

vars == <<out, ref, at, astray, mixed>>

(* s with the bytes d from position p on. *)
Patch(s, p, d) ==
    [i \in 1..(IF p + Len(d) > Len(s) THEN p + Len(d) ELSE Len(s)) |->
        IF i > p /\ i <= p + Len(d) THEN d[i - p] ELSE s[i]]

Init ==
    /\ out = [file |-> <<>>, buf |-> <<>>, bufpos |-> 0, offset |-> 0, bad |-> FALSE]
    /\ ref = <<>> /\ at = 0 /\ astray = FALSE /\ mixed = FALSE

(* The kernel takes k bytes of d; if not all, it has reported an error.    *)
Written(o, d, k) ==
    [o EXCEPT !.file = Patch(@, o.offset, SubSeq(d, 1, k)), !.offset = @ + k, !.bad = k < Len(d)]

(* A slip: the buffer is used again without being emptied of its length.   *)
NflushLeaving(o, k) ==
    [Written(o, o.buf, k) EXCEPT !.bufpos = IF k = Len(o.buf) THEN 0 ELSE @]

Nflush(o, k) ==
    LET w == Written(o, o.buf, k)
    IN IF w.bad THEN w ELSE [w EXCEPT !.buf = <<>>, !.bufpos = 0]

Buffered(o, d) == [o EXCEPT !.buf = Patch(@, o.bufpos, d), !.bufpos = @ + Len(d)]

(* What the program means by writing d here. *)
Meant(d) ==
    /\ ref' = Patch(ref, at, d) /\ at' = at + Len(d)
    /\ mixed' = (mixed \/ astray)
    /\ UNCHANGED astray

WriteChar ==
    /\ ~out.bad /\ at < MaxLen
    /\ \E c \in Bytes :
         /\ Meant(<<c>>)
         /\ LET o == Buffered(out, <<c>>)
            IN IF Len(o.buf) < Size THEN out' = o
               ELSE \E k \in 0..Len(o.buf) : out' = Nflush(o, k)

(* As much as fits fills the buffer, which is flushed; the rest fits.      *)
Write ==
    /\ ~out.bad
    /\ \E n \in 1..Size - 1 : at + n <= MaxLen /\ \E d \in [1..n -> Bytes] :
         LET amount == Size - out.bufpos IN
         /\ Meant(d)
         /\ IF n < amount THEN out' = Buffered(out, d)
            ELSE \E k \in 0..Size :
                   LET o == Nflush(Buffered(out, SubSeq(d, 1, amount)), k)
                   IN out' = IF o.bad THEN o ELSE Buffered(o, SubSeq(d, amount + 1, n))

(* Goes to the file where the buffer ends, wherever bufpos is.             *)
WriteLarge ==
    /\ ~out.bad /\ at + Size <= MaxLen
    /\ \E d \in [1..Size -> Bytes], j \in 0..Len(out.buf), k \in 0..Size :
         /\ ref' = Patch(ref, at, d) /\ at' = at + Size
         /\ mixed' = (mixed \/ astray \/ out.bufpos < Len(out.buf))
         /\ UNCHANGED astray
         /\ LET o == Nflush(out, j) IN out' = IF o.bad THEN o ELSE Written(o, d, k)

(* flush and sync. *)
Flush ==
    /\ ~out.bad
    /\ \E k \in 0..Len(out.buf) : out' = Nflush(out, k)
    /\ astray' = (astray \/ out.bufpos < Len(out.buf))
    /\ UNCHANGED <<ref, at, mixed>>

Seek ==
    /\ ~out.bad
    /\ \E o \in 0..Len(ref) :
         /\ at' = o
         /\ IF o >= out.offset /\ o < out.offset + Len(out.buf)
            THEN out' = [out EXCEPT !.bufpos = o - out.offset]
            ELSE \E k \in 0..Len(out.buf) :
                   LET p == Nflush(out, k) IN out' = IF p.bad THEN p ELSE [p EXCEPT !.offset = o]
    /\ astray' = FALSE
    /\ UNCHANGED <<ref, mixed>>

Next == WriteChar \/ Write \/ WriteLarge \/ Flush \/ Seek

Spec == Init /\ [][Next]_vars

-----------------------------------------------------------------------------
(* Without an error, the file with the buffer laid over it is what the     *)
(* program has written, and goes on where the program means it to.  The    *)
(* code keeps this only as long as a seek back into the buffer is not      *)
(* followed by a write of bufsize bytes or more, or by a flush and then    *)
(* another write (fdobuf::seek, write_large, nflush).                      *)
WrittenInOrder ==
    (~out.bad /\ ~mixed) =>
        /\ Patch(out.file, out.offset, out.buf) = ref
        /\ ~astray => out.offset + out.bufpos = at

=============================================================================
