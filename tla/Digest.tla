------------------------------- MODULE Digest -------------------------------
(***************************************************************************)
(* The MD5 context (lib/misc/md5.c): a message comes in pieces of any      *)
(* size and is compressed a block at a time.  The compression itself is    *)
(* taken to be a function that tells any two sequences of blocks apart, so *)
(* that the context is the sequence of the blocks it has seen; the n-th    *)
(* byte of the message is the number n, for nothing depends on the bytes.  *)
(***************************************************************************)
EXTENDS Naturals, Sequences, SequencesExt

CONSTANTS
    Block,  \* the bytes of a block (64)
    Word,   \* the values of one of the two words of the length (2^32)
    Stream, \* the blocks md5_stream reads at once (64)
    MaxLen, \* the longest message
    Longest,\* the longest piece
    None

DigestAssumption ==
    /\ Block \in Nat /\ Block > 2 /\ Stream \in Nat \ {0} /\ MaxLen \in Nat
    /\ Word \in Nat /\ Word % 8 = 0 /\ Word > 2 * Block /\ Word > Block * Stream
    /\ Longest \in 0..Word

VARIABLES
    ctx,    \* the blocks seen, their bytes counted in two words, and the bytes kept
    given,  \* the bytes of the message so far
    mode,   \* whether a stream is read to its end or pieces are given
    digest  \* the blocks of the message that was finished last, and its length

vars == <<ctx, given, mode, digest>>

LengthField == 2 \* in words, one cell each
Pad == "0x80"
Zero == "0"

NewCtx == [blocks |-> <<>>, total |-> <<0, 0>>, buffer |-> <<>>]

Init == ctx = NewCtx /\ given = 0 /\ mode \in {"pieces", "stream"} /\ digest = None

Piece(n) == [i \in 1..n |-> given + i]

(* The whole blocks of s. *)
Blocks(s) == [i \in 1..(Len(s) \div Block) |-> SubSeq(s, Block * (i - 1) + 1, Block * i)]
Whole(s) == SubSeq(s, 1, Len(s) - (Len(s) % Block))
Left(s) == SubSeq(s, Len(s) - (Len(s) % Block) + 1, Len(s))

(* A double word increment: right for up to Word bytes, as of a size_t of  *)
(* the word's width.                                                       *)
Count(total, n) ==
    LET low == (total[1] + n) % Word
    IN <<low, (total[2] + IF low < n THEN 1 ELSE 0) % Word>>

ProcessBlock(s, c) == [c EXCEPT !.blocks = @ \o Blocks(s), !.total = Count(@, Len(s))]

(* What joins the bytes kept fills two blocks at most, and more than a     *)
(* block of it is compressed; a block that is just full waits.             *)
ProcessBytes(s, c) ==
    LET add == IF c.buffer = <<>> THEN 0
               ELSE IF 2 * Block - Len(c.buffer) > Len(s) THEN Len(s)
               ELSE 2 * Block - Len(c.buffer)
        joined == c.buffer \o SubSeq(s, 1, add)
        rest == SubSeq(s, add + 1, Len(s))
        c1 == IF Len(joined) > Block
              THEN [ProcessBlock(Whole(joined), c) EXCEPT !.buffer = Left(joined)]
              ELSE [c EXCEPT !.buffer = joined]
        c2 == IF Len(rest) > Block THEN ProcessBlock(Whole(rest), c1) ELSE c1
        kept == IF Len(rest) > Block THEN Left(rest) ELSE rest
    IN IF kept = <<>> THEN c2 ELSE [c2 EXCEPT !.buffer = kept]

(* A slip: > for >=. *)
PadLengthShort(bytes) ==
    (IF bytes > Block - LengthField THEN 2 * Block ELSE Block) - LengthField - bytes

PadLength(bytes) ==
    (IF bytes >= Block - LengthField THEN 2 * Block ELSE Block) - LengthField - bytes

FillBuf(n) == [i \in 1..n |-> IF i = 1 THEN Pad ELSE Zero]

(* The length in bits. *)
Bits(total) ==
    <<(total[1] * 8) % Word, (total[2] * 8 + total[1] \div (Word \div 8)) % Word>>

FinishCtx(c) ==
    ProcessBlock(c.buffer \o FillBuf(PadLength(Len(c.buffer)))
                 \o Bits(Count(c.total, Len(c.buffer))), c).blocks

ProcessPiece ==
    /\ mode = "pieces"
    /\ \E n \in {m \in 0..Longest : given + m <= MaxLen} :
         ctx' = ProcessBytes(Piece(n), ctx) /\ given' = given + n
    /\ UNCHANGED <<mode, digest>>

Done(c, n) ==
    /\ digest' = [blocks |-> FinishCtx(c), length |-> n]
    /\ ctx' = NewCtx /\ given' = 0
    /\ mode' \in {"pieces", "stream"}

Finish == mode = "pieces" /\ Done(ctx, given)

(* md5_stream: a buffer full is compressed as it is, what is left of the   *)
(* file goes by way of the context's own buffer.                           *)
ReadStream ==
    /\ mode = "stream"
    /\ \E n \in 0..(Block * Stream) :
         /\ given + n <= MaxLen
         /\ IF n = Block * Stream
            THEN ctx' = ProcessBlock(Piece(n), ctx) /\ given' = given + n
                 /\ UNCHANGED <<mode, digest>>
            ELSE Done(ProcessBytes(Piece(n), ctx), given + n)

Next == ProcessPiece \/ Finish \/ ReadStream

Spec == Init /\ [][Next]_vars

-----------------------------------------------------------------------------
(* RFC 1321: the message, 0x80, zeroes, and the length in bits, in as few  *)
(* blocks as hold them.                                                    *)
Padded(n) ==
    LET zeroes == CHOOSE z \in 0..(Block - 1) : (n + 1 + z + LengthField) % Block = 0
    IN [i \in 1..n |-> i] \o FillBuf(1 + zeroes) \o <<(8 * n) % Word, ((8 * n) \div Word) % Word>>

(* However a message is cut into pieces, and wherever its length falls in  *)
(* a block, its digest is that of the whole padded message                 *)
(* (md5_process_bytes, md5_finish_ctx, md5_stream).                        *)
DigestIsOfTheWhole ==
    digest # None => digest.blocks = Blocks(Padded(digest.length))

=============================================================================
