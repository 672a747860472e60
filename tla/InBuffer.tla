------------------------------ MODULE InBuffer ------------------------------
(***************************************************************************)
(* A file read through a buffer (class fdibuf of lib/fdbuf): single bytes, *)
(* lines and blocks, with short reads of the kernel, the end of the file   *)
(* and read errors, and seeking back.  A call that loops takes one step    *)
(* for each round.                                                         *)
(***************************************************************************)
EXTENDS Integers, Sequences

CONSTANTS
    Bytes,      \* bytes of the file
    Terminator, \* the one that ends a line
    Size,       \* bufsize
    MaxLen      \* the longest file

InBufferAssumption ==
    Terminator \in Bytes /\ Size \in Nat \ {0} /\ MaxLen \in Nat

VARIABLES
    data,   \* the file
    in,     \* the fdibuf
    call,   \* the call under way
    want,   \* bytes it has yet to read
    got,    \* what it has read
    from, upto, \* history: where it began and where the next byte is to come from
    skewed, \* history: a large read has gone past a buffer that is not empty
    stale   \* history: a seek has then gone back into that buffer

vars == <<data, in, call, want, got, from, upto, skewed, stale>>

Tell == in.offset - Len(in.buf) + in.start
Left == SubSeq(in.buf, in.start + 1, Len(in.buf))
Eof(b) == b.eof /\ b.start >= Len(b.buf)

Init ==
    /\ data \in UNION {[1..n -> Bytes] : n \in 0..MaxLen}
    /\ in = [buf |-> <<>>, start |-> 0, offset |-> 0, eof |-> FALSE, err |-> FALSE]
    /\ call = "none" /\ want = 0 /\ got = <<>> /\ from = 0 /\ upto = 0
    /\ skewed = FALSE /\ stale = FALSE

(* What one read of the kernel for n bytes does to b: it fails, or comes   *)
(* to the end, or brings some of them.                                     *)
KernelRead(b, n) ==
    {[b EXCEPT !.err = TRUE]}
    \cup (IF b.offset >= Len(data) THEN {[b EXCEPT !.eof = TRUE]}
          ELSE {[b EXCEPT !.offset = @ + k] :
                  k \in 1..(IF n < Len(data) - b.offset THEN n ELSE Len(data) - b.offset)})

Refill(b) ==
    LET kept == SubSeq(b.buf, b.start + 1, Len(b.buf)) IN
    IF b.eof \/ b.err THEN {b}
    ELSE IF Len(kept) = Size THEN {[b EXCEPT !.buf = kept, !.start = 0]}
    ELSE {[r EXCEPT !.buf = kept \o SubSeq(data, b.offset + 1, r.offset), !.start = 0] :
            r \in KernelRead(b, Size - Len(kept))}

Refilled == IF in.start >= Len(in.buf) THEN Refill(in) ELSE {in}

Take(b, n) ==
    /\ in' = [b EXCEPT !.start = @ + n]
    /\ got' = got \o SubSeq(b.buf, b.start + 1, b.start + n)

Begin(c, n) == call' = c /\ want' = n /\ got' = <<>> /\ from' = upto

(* Bytes have gone to the caller; reading anew empties a skewed buffer.    *)
Passed(n) ==
    /\ upto' = upto + n
    /\ skewed' = (skewed /\ in'.buf = in.buf)
    /\ UNCHANGED <<data, stale>>

Get ==
    /\ call = "none"
    /\ \E b \in Refilled :
         /\ from' = upto /\ want' = 0 /\ UNCHANGED call
         /\ IF Eof(b) \/ b.err THEN in' = b /\ got' = <<>> /\ Passed(0)
            ELSE /\ in' = [b EXCEPT !.start = @ + 1]
                 /\ got' = <<b.buf[b.start + 1]>> /\ Passed(1)

CallRead ==
    /\ call = "none"
    /\ \E n \in 1..MaxLen : Begin(IF n >= Size THEN "large" ELSE "read", n)
    /\ UNCHANGED <<data, in, upto, skewed, stale>>

(* With the error flag set and the buffer empty a round does nothing, and  *)
(* the loop never ends.                                                    *)
Read ==
    /\ call = "read"
    /\ IF want = 0 \/ Eof(in) THEN call' = "none" /\ UNCHANGED <<in, want, got>> /\ Passed(0)
       ELSE \E b \in Refilled :
              LET left == Len(b.buf) - b.start
                  n == IF left < want THEN left ELSE want
              IN Take(b, n) /\ want' = want - n /\ Passed(n) /\ UNCHANGED call
    /\ UNCHANGED from

(* First what is in the buffer, then straight from the file; the buffer    *)
(* keeps its length while the offset goes on.                              *)
LargeFromBuffer ==
    /\ call = "large"
    /\ LET left == Len(Left)
           n == IF left < want THEN left ELSE want
       IN Take(in, n) /\ want' = want - n /\ Passed(n)
    /\ call' = "direct"
    /\ UNCHANGED from

LargeFromFile ==
    /\ call = "direct"
    /\ UNCHANGED <<data, from, stale>>
    /\ IF want = 0 THEN call' = "none" /\ UNCHANGED <<in, want, got, upto, skewed>>
       ELSE \E b \in KernelRead(in, want) :
              LET n == b.offset - in.offset IN
              /\ in' = b /\ want' = want - n /\ upto' = upto + n
              /\ got' = got \o SubSeq(data, in.offset + 1, b.offset)
              /\ skewed' = (skewed \/ (n > 0 /\ in.buf # <<>>))
              /\ call' = IF n = 0 THEN "none" ELSE call

CallGetline ==
    /\ call = "none"
    /\ \E b \in Refilled :
         /\ in' = b
         /\ IF Eof(b) \/ b.err THEN want' = 0 /\ got' = <<>> /\ from' = upto /\ UNCHANGED call
            ELSE Begin("line", 0)
    /\ Passed(0)

(* To the terminator, if the buffer has one; else all of it and on.        *)
Getline ==
    /\ call = "line"
    /\ UNCHANGED <<want, from>>
    /\ IF Eof(in) \/ in.err THEN call' = "none" /\ UNCHANGED <<in, got>> /\ Passed(0)
       ELSE LET ends == {i \in DOMAIN Left : Left[i] = Terminator} IN
            IF ends # {}
            THEN LET n == CHOOSE i \in ends : \A j \in ends : i <= j IN
                 /\ got' = got \o SubSeq(Left, 1, n - 1)
                 /\ in' = [in EXCEPT !.start = @ + n]
                 /\ call' = "none" /\ Passed(n)
            ELSE /\ got' = got \o Left
                 /\ in' \in Refill([in EXCEPT !.start = Len(in.buf)])
                 /\ Passed(Len(Left)) /\ UNCHANGED call

(* A slip: as if the last read had filled the buffer. *)
BufStartIfFull(b) == b.offset - Size

BufStart(b) == b.offset - Len(b.buf)

Seek ==
    /\ call = "none"
    /\ \E o \in 0..Len(data) :
         LET start == BufStart(in)
             inside == o >= start /\ o < in.offset
         IN /\ in' = IF inside THEN [in EXCEPT !.start = o - start, !.eof = FALSE]
                     ELSE [in EXCEPT !.buf = <<>>, !.start = 0, !.offset = o, !.eof = FALSE]
            /\ upto' = o /\ from' = o /\ got' = <<>> /\ want' = 0
            /\ stale' = (stale \/ (inside /\ skewed))
            /\ skewed' = (skewed /\ inside)
    /\ UNCHANGED <<data, call>>

Next ==
    \/ Get \/ CallRead \/ Read \/ LargeFromBuffer \/ LargeFromFile
    \/ CallGetline \/ Getline \/ Seek

Spec == Init /\ [][Next]_vars

-----------------------------------------------------------------------------
(* Every byte comes to the caller once and in order, and tell says where   *)
(* the next is, unless a seek goes back into a buffer that a large read    *)
(* has gone past, which is not noticed (fdibuf::read_large, seek).  A call *)
(* that returns less than it was asked for has met an error or the end.    *)
ReadInOrder ==
    ~stale =>
        /\ got = SubSeq(data, from + 1, from + Len(got))
        /\ Tell = upto
        /\ call = "none" /\ want > 0 => in.err \/ upto >= Len(data)

=============================================================================
