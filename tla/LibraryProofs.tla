--------------------------- MODULE LibraryProofs ---------------------------
(***************************************************************************)
(* Theorems about the buffered files, the logins, the digests, the         *)
(* requests, the hash tables, the passwords, the strings and the options   *)
(* of MCLibrary.                                                           *)
(***************************************************************************)
EXTENDS MCLibrary, SequenceTheorems, WellFoundedInduction, TLAPS

-----------------------------------------------------------------------------
(* Buffers that are written. *)

(* The component's own names for its variables. *)
out == x1
ref == x2
at == x3
astray == x4
mixed == x5

(* fdobuf with the file under it. *)
Buffers ==
    [file : Seq(OutBytes), buf : Seq(OutBytes), bufpos : Nat, offset : Nat, bad : BOOLEAN]

(* The buffer is not full between two calls, lies inside the file or right *)
(* behind it, and is written to inside itself or right behind.             *)
Usable(o) ==
    /\ o \in Buffers
    /\ o.bufpos <= Len(o.buf) /\ Len(o.buf) < OutSize
    /\ o.offset <= Len(o.file)

(* Until an error or a misplaced write, everything is in its place. *)
OutBufferInv ==
    (~out.bad /\ ~mixed) =>
        /\ Usable(out) /\ ref \in Seq(OutBytes) /\ at \in 0..Len(ref)
        /\ OB!WrittenInOrder

OutBufferInvariant == which = "outbuffer" => OutBufferInv

(* What a patched sequence is, place by place. *)
LEMMA PatchIs ==
    ASSUME NEW S, NEW s \in Seq(S), NEW d \in Seq(S), NEW p \in 0..Len(s)
    PROVE  /\ OB!Patch(s, p, d) \in Seq(S)
           /\ Len(OB!Patch(s, p, d)) = IF p + Len(d) > Len(s) THEN p + Len(d) ELSE Len(s)
           /\ \A i \in 1..Len(OB!Patch(s, p, d)) :
                OB!Patch(s, p, d)[i] = IF i > p /\ i <= p + Len(d) THEN d[i - p] ELSE s[i]
<1> DEFINE n == IF p + Len(d) > Len(s) THEN p + Len(d) ELSE Len(s)
           e(i) == IF i > p /\ i <= p + Len(d) THEN d[i - p] ELSE s[i]
<1>1. n \in Nat /\ Len(s) \in Nat /\ Len(d) \in Nat
  OBVIOUS
<1>2. ASSUME NEW i \in 1..n PROVE e(i) \in S
  <2>1. CASE i > p /\ i <= p + Len(d)
    <3>1. i - p \in 1..Len(d)
      BY <1>1, <2>1
    <3>. QED
      BY <2>1, <3>1, ElementOfSeq
  <2>2. CASE ~(i > p /\ i <= p + Len(d))
    <3>1. i \in 1..Len(s)
      BY <1>1, <2>2
    <3>. QED
      BY <2>2, <3>1, ElementOfSeq
  <2>. QED
    BY <2>1, <2>2
<1>3. OB!Patch(s, p, d) = [i \in 1..n |-> e(i)]
  BY DEF OB!Patch
<1>4. [i \in 1..n |-> e(i)] \in Seq(S)
  <2> HIDE DEF n, e
  <2>. QED
    BY <1>1, <1>2, SeqDef
<1>5. Len([i \in 1..n |-> e(i)]) = n
  <2> HIDE DEF e, n
  <2>. QED
    BY <1>1, <1>4, LenProperties
<1>. QED
  <2>1. \A i \in 1..n : [j \in 1..n |-> e(j)][i] = e(i)
    OBVIOUS
  <2>. QED
    BY <1>3, <1>4, <1>5, <2>1

(* Nothing to lay over: nothing changes. *)
LEMMA PatchNothing ==
    ASSUME NEW S, NEW s \in Seq(S), NEW p \in 0..Len(s)
    PROVE  OB!Patch(s, p, <<>>) = s
<1> DEFINE r == OB!Patch(s, p, <<>>)
<1>1. <<>> \in Seq(S) /\ Len(<<>>) = 0 /\ Len(s) \in Nat
  BY EmptySeq, LenProperties
<1>2. /\ r \in Seq(S) /\ Len(r) = IF p + 0 > Len(s) THEN p + 0 ELSE Len(s)
      /\ \A i \in 1..Len(r) : r[i] = IF i > p /\ i <= p + 0 THEN <<>>[i - p] ELSE s[i]
  <2>1. /\ r \in Seq(S)
        /\ Len(r) = IF p + Len(<<>>) > Len(s) THEN p + Len(<<>>) ELSE Len(s)
        /\ \A i \in 1..Len(r) :
             r[i] = IF i > p /\ i <= p + Len(<<>>) THEN <<>>[i - p] ELSE s[i]
    BY <1>1, PatchIs
  <2>. QED
    BY <1>1, <2>1
<1> HIDE DEF r
<1>3. Len(r) = Len(s) /\ \A i \in 1..Len(r) : r[i] = s[i]
  BY <1>1, <1>2
<1>4. r = s
  BY <1>2, <1>3, SeqEqual
<1>. QED
  BY <1>4 DEF r

(* A change of the buffer is a change of what it lies over. *)
LEMMA PatchInside ==
    ASSUME NEW S, NEW s \in Seq(S), NEW e \in Seq(S), NEW d \in Seq(S),
           NEW p \in 0..Len(s), NEW q \in 0..Len(e)
    PROVE  OB!Patch(s, p, OB!Patch(e, q, d)) = OB!Patch(OB!Patch(s, p, e), p + q, d)
<1> DEFINE f == OB!Patch(e, q, d)
           t == OB!Patch(s, p, e)
           l == OB!Patch(s, p, f)
           r == OB!Patch(t, p + q, d)
<1>1. /\ f \in Seq(S)
      /\ Len(f) = IF q + Len(d) > Len(e) THEN q + Len(d) ELSE Len(e)
      /\ \A i \in 1..Len(f) : f[i] = IF i > q /\ i <= q + Len(d) THEN d[i - q] ELSE e[i]
  BY PatchIs
<1>2. /\ t \in Seq(S)
      /\ Len(t) = IF p + Len(e) > Len(s) THEN p + Len(e) ELSE Len(s)
      /\ \A i \in 1..Len(t) : t[i] = IF i > p /\ i <= p + Len(e) THEN e[i - p] ELSE s[i]
  BY PatchIs
<1>3. p + q \in 0..Len(t)
  BY <1>2, LenProperties
<1> HIDE DEF f, t
<1>4. /\ l \in Seq(S)
      /\ Len(l) = IF p + Len(f) > Len(s) THEN p + Len(f) ELSE Len(s)
      /\ \A i \in 1..Len(l) : l[i] = IF i > p /\ i <= p + Len(f) THEN f[i - p] ELSE s[i]
  BY <1>1, PatchIs
<1>5. /\ r \in Seq(S)
      /\ Len(r) = IF p + q + Len(d) > Len(t) THEN p + q + Len(d) ELSE Len(t)
      /\ \A i \in 1..Len(r) : r[i] = IF i > p + q /\ i <= p + q + Len(d)
                                     THEN d[i - (p + q)] ELSE t[i]
  BY <1>2, <1>3, PatchIs
<1> HIDE DEF l, r
<1>6. Len(s) \in Nat /\ Len(e) \in Nat /\ Len(d) \in Nat
  BY LenProperties
<1>7. Len(l) = Len(r)
  BY <1>1, <1>2, <1>4, <1>5, <1>6
<1>8. ASSUME NEW i \in 1..Len(l) PROVE l[i] = r[i]
  <2>1. CASE i > p + q /\ i <= p + q + Len(d)
    <3>1. i - p \in 1..Len(f) /\ i - p > q /\ i - p <= q + Len(d) /\ (i - p) - q = i - (p + q)
      BY <1>1, <1>6, <2>1
    <3>2. l[i] = f[i - p]
      BY <1>4, <1>6, <2>1, <3>1
    <3>3. f[i - p] = d[i - (p + q)]
      BY <1>1, <3>1
    <3>. QED
      BY <1>5, <1>7, <2>1, <3>2, <3>3
  <2>2. CASE i > p /\ i <= p + Len(f) /\ ~(i > p + q /\ i <= p + q + Len(d))
    <3>1. i - p \in 1..Len(f) /\ ~(i - p > q /\ i - p <= q + Len(d))
      BY <1>1, <1>6, <2>2
    <3>2. i <= p + Len(e)
      BY <1>1, <1>6, <2>2
    <3>3. l[i] = e[i - p]
      BY <1>1, <1>4, <2>2, <3>1
    <3>4. r[i] = t[i] /\ i \in 1..Len(t)
      BY <1>2, <1>5, <1>6, <1>7, <2>2, <3>2
    <3>. QED
      BY <1>2, <2>2, <3>2, <3>3, <3>4
  <2>3. CASE ~(i > p /\ i <= p + Len(f))
    <3>1. l[i] = s[i]
      BY <1>4, <2>3
    <3>2. ~(i > p + q /\ i <= p + q + Len(d)) /\ ~(i > p /\ i <= p + Len(e))
      BY <1>1, <1>6, <2>3
    <3>3. r[i] = t[i] /\ i \in 1..Len(t)
      BY <1>1, <1>2, <1>4, <1>5, <1>6, <1>7, <2>3, <3>2
    <3>. QED
      BY <1>2, <3>1, <3>2, <3>3
  <2>. QED
    BY <1>1, <1>6, <2>1, <2>2, <2>3
<1>9. l = r
  BY <1>4, <1>5, <1>7, <1>8, SeqEqual
<1>. QED
  BY <1>9 DEF l, r, f, t

(* Two patches, one behind the other. *)
LEMMA PatchOn ==
    ASSUME NEW S, NEW s \in Seq(S), NEW d \in Seq(S), NEW p \in 0..Len(s),
           NEW m \in 0..Len(d)
    PROVE  OB!Patch(OB!Patch(s, p, SubSeq(d, 1, m)), p + m, SubSeq(d, m + 1, Len(d)))
             = OB!Patch(s, p, d)
<1> DEFINE d1 == SubSeq(d, 1, m)
           d2 == SubSeq(d, m + 1, Len(d))
           f  == OB!Patch(d1, m, d2)
<1>1. Len(d) \in Nat /\ Len(s) \in Nat
  BY LenProperties
<1>2. \A i \in 1..Len(d) : d[i] \in S
  BY ElementOfSeq
<1>3. d1 \in Seq(S) /\ Len(d1) = m /\ \A i \in 1..m : d1[i] = d[i]
  <2>1. m \in Int /\ \A i \in 1..m : d[i] \in S
    BY <1>1, <1>2
  <2>. QED
    BY <2>1, SubSeqProperties
<1>4. d2 \in Seq(S) /\ Len(d2) = Len(d) - m
      /\ \A i \in 1..(Len(d) - m) : d2[i] = d[m + i]
  <2>1. m + 1 \in Int /\ Len(d) \in Int /\ \A i \in m + 1 .. Len(d) : d[i] \in S
    BY <1>1, <1>2
  <2>2. /\ d2 \in Seq(S)
        /\ Len(d2) = IF m + 1 <= Len(d) THEN Len(d) - (m + 1) + 1 ELSE 0
        /\ \A i \in 1 .. Len(d) - (m + 1) + 1 : d2[i] = d[m + 1 + i - 1]
    BY <2>1, SubSeqProperties
  <2>. QED
    BY <1>1, <2>2
<1> HIDE DEF d1, d2
<1>5. f = d
  <2>1. /\ f \in Seq(S) /\ Len(f) = Len(d)
        /\ \A i \in 1..Len(f) : f[i] = IF i > m /\ i <= m + Len(d2) THEN d2[i - m] ELSE d1[i]
    BY <1>1, <1>3, <1>4, PatchIs
  <2>2. ASSUME NEW i \in 1..Len(d) PROVE f[i] = d[i]
    <3>1. CASE i > m
      <4>1. i - m \in 1..(Len(d) - m) /\ m + (i - m) = i /\ i <= m + Len(d2)
        BY <1>1, <1>4, <3>1
      <4>. QED
        BY <1>4, <2>1, <3>1, <4>1
    <3>2. CASE i <= m
      BY <1>1, <1>3, <2>1, <3>2
    <3>. QED
      BY <1>1, <3>1, <3>2
  <2>. QED
    BY <2>1, <2>2, SeqEqual
<1>6. OB!Patch(s, p, f) = OB!Patch(OB!Patch(s, p, d1), p + m, d2)
  BY <1>1, <1>3, <1>4, PatchInside
<1>. QED
  BY <1>5, <1>6 DEF d1, d2, f

(* What a flush makes of a buffer, unless the kernel reports an error. *)
Flushed(o) ==
    [file |-> OB!Patch(o.file, o.offset, o.buf), buf |-> <<>>, bufpos |-> 0,
     offset |-> o.offset + Len(o.buf), bad |-> FALSE]

(* The kernel takes all of d, or there is an error. *)
LEMMA WrittenIs ==
    ASSUME NEW o \in Buffers, ~o.bad, NEW d \in Seq(OutBytes), NEW k \in 0..Len(d)
    PROVE  \/ OB!Written(o, d, k).bad
           \/ OB!Written(o, d, k) = [o EXCEPT !.file = OB!Patch(o.file, o.offset, d),
                                              !.offset = o.offset + Len(d)]
<1>1. Len(d) \in Nat
  BY LenProperties
<1>2. CASE k < Len(d)
  BY <1>2 DEF OB!Written, Buffers
<1>3. CASE k = Len(d)
  <2>1. SubSeq(d, 1, k) = d
    BY <1>3, SubSeqFull
  <2> DEFINE f == OB!Patch(o.file, o.offset, d)
  <2>2. OB!Written(o, d, k) =
          [o EXCEPT !.file = f, !.offset = o.offset + Len(d), !.bad = FALSE]
    <3>1. (k < Len(d)) = FALSE
      BY <1>1, <1>3
    <3>2. OB!Written(o, d, k) =
            [o EXCEPT !.file = OB!Patch(o.file, o.offset, SubSeq(d, 1, k)),
                      !.offset = o.offset + k, !.bad = k < Len(d)]
      BY DEF OB!Written
    <3>. QED
      BY <1>3, <2>1, <3>1, <3>2, Zenon
  <2> HIDE DEF f
  <2>3. [o EXCEPT !.file = f, !.offset = o.offset + Len(d), !.bad = FALSE]
          = [o EXCEPT !.file = f, !.offset = o.offset + Len(d)]
    BY DEF Buffers
  <2>. QED
    BY <2>2, <2>3 DEF f
<1>. QED
  BY <1>1, <1>2, <1>3

(* nflush empties the buffer, or there is an error. *)
LEMMA NflushIs ==
    ASSUME NEW o \in Buffers, ~o.bad, NEW k \in 0..Len(o.buf)
    PROVE  OB!Nflush(o, k).bad \/ OB!Nflush(o, k) = Flushed(o)
<1> DEFINE w == OB!Written(o, o.buf, k)
<1>1. o.buf \in Seq(OutBytes)
  BY DEF Buffers
<1>2. w.bad \/ w = [o EXCEPT !.file = OB!Patch(o.file, o.offset, o.buf),
                             !.offset = o.offset + Len(o.buf)]
  BY <1>1, WrittenIs
<1>3. OB!Nflush(o, k) = IF w.bad THEN w ELSE [w EXCEPT !.buf = <<>>, !.bufpos = 0]
  BY DEF OB!Nflush
<1> HIDE DEF w
<1>4. CASE w.bad
  BY <1>3, <1>4
<1>5. CASE ~w.bad
  <2>1. w = [o EXCEPT !.file = OB!Patch(o.file, o.offset, o.buf),
                      !.offset = o.offset + Len(o.buf)]
    BY <1>2, <1>5
  <2>. QED
    BY <1>3, <1>5, <2>1 DEF Buffers, Flushed
<1>. QED
  BY <1>4, <1>5

(* A flush leaves the whole in the file. *)
LEMMA FlushedUsable ==
    ASSUME NEW o \in Buffers, o.offset <= Len(o.file)
    PROVE  /\ Usable(Flushed(o))
           /\ OB!Patch(Flushed(o).file, Flushed(o).offset, Flushed(o).buf)
                = OB!Patch(o.file, o.offset, o.buf)
<1> DEFINE f == OB!Patch(o.file, o.offset, o.buf)
           n == o.offset + Len(o.buf)
<1>1. o.file \in Seq(OutBytes) /\ o.buf \in Seq(OutBytes) /\ o.offset \in 0..Len(o.file)
      /\ Len(o.buf) \in Nat /\ Len(o.file) \in Nat
  BY LenProperties DEF Buffers
<1>2. f \in Seq(OutBytes) /\ Len(f) \in Nat /\ n \in 0..Len(f)
  <2>1. f \in Seq(OutBytes)
        /\ Len(f) = IF o.offset + Len(o.buf) > Len(o.file) THEN o.offset + Len(o.buf)
                    ELSE Len(o.file)
    BY <1>1, PatchIs
  <2>. QED
    BY <1>1, <2>1
<1>3. Flushed(o) = [file |-> f, buf |-> <<>>, bufpos |-> 0, offset |-> n, bad |-> FALSE]
  BY DEF Flushed
<1> HIDE DEF f, n
<1>4. OB!Patch(f, n, <<>>) = f
  BY <1>2, PatchNothing
<1>5. Usable(Flushed(o))
  <2>1. <<>> \in Seq(OutBytes) /\ Len(<<>>) = 0 /\ OutSize \in Nat \ {0}
    BY EmptySeq, LibraryAssumption DEF LibraryAssumption, OB!OutBufferAssumption
  <2>. QED
    BY <1>2, <1>3, <2>1 DEF Usable, Buffers
<1>. QED
  BY <1>3, <1>4, <1>5 DEF f

(* What goes into the buffer goes where it stands over the file. *)
LEMMA BufferedIs ==
    ASSUME NEW o \in Buffers, o.bufpos <= Len(o.buf), o.offset <= Len(o.file), ~o.bad,
           NEW d \in Seq(OutBytes)
    PROVE  LET b == OB!Buffered(o, d) IN
           /\ b \in Buffers /\ ~b.bad
           /\ b.file = o.file /\ b.offset = o.offset /\ b.bufpos = o.bufpos + Len(d)
           /\ Len(b.buf) = IF b.bufpos > Len(o.buf) THEN b.bufpos ELSE Len(o.buf)
           /\ OB!Patch(b.file, b.offset, b.buf)
                = OB!Patch(OB!Patch(o.file, o.offset, o.buf), o.offset + o.bufpos, d)
<1> DEFINE f == OB!Patch(o.buf, o.bufpos, d)
           b == OB!Buffered(o, d)
<1>1. o.file \in Seq(OutBytes) /\ o.buf \in Seq(OutBytes) /\ o.offset \in 0..Len(o.file)
      /\ o.bufpos \in 0..Len(o.buf) /\ o.bufpos + Len(d) \in Nat
  BY LenProperties DEF Buffers
<1>2. f \in Seq(OutBytes)
      /\ Len(f) = IF o.bufpos + Len(d) > Len(o.buf) THEN o.bufpos + Len(d) ELSE Len(o.buf)
  BY <1>1, PatchIs
<1>3. OB!Patch(o.file, o.offset, f)
        = OB!Patch(OB!Patch(o.file, o.offset, o.buf), o.offset + o.bufpos, d)
  BY <1>1, PatchInside
<1>4. b = [o EXCEPT !.buf = f, !.bufpos = o.bufpos + Len(d)]
  BY DEF OB!Buffered
<1> HIDE DEF f, b
<1>5. b \in Buffers /\ ~b.bad /\ b.file = o.file /\ b.offset = o.offset
      /\ b.bufpos = o.bufpos + Len(d) /\ b.buf = f
  BY <1>1, <1>2, <1>4 DEF Buffers
<1>. QED
  BY <1>2, <1>3, <1>5 DEF b

(* What the program means. *)
LEMMA MeantIs ==
    ASSUME ref \in Seq(OutBytes), at \in 0..Len(ref), NEW d \in Seq(OutBytes)
    PROVE  /\ OB!Patch(ref, at, d) \in Seq(OutBytes)
           /\ at + Len(d) \in 0..Len(OB!Patch(ref, at, d))
<1>1. Len(d) \in Nat /\ Len(ref) \in Nat
  BY LenProperties
<1>. QED
  BY <1>1, PatchIs

(* The buffer o stands for the file r, in which the program is at a. *)
Sound(o, r, a) ==
    /\ Usable(o) /\ r \in Seq(OutBytes) /\ a \in 0..Len(r)
    /\ OB!Patch(o.file, o.offset, o.buf) = r

(* Every call keeps the file and the buffer over it what is meant. *)
LEMMA OutBufferKeeps ==
    ASSUME OutBufferInv, OB!Next
    PROVE  OutBufferInv'
<1>1. SUFFICES ASSUME ~out'.bad, ~mixed'
               PROVE  Sound(out', ref', at') /\ (~astray' => out'.offset + out'.bufpos = at')
  BY DEF OutBufferInv, Sound, OB!WrittenInOrder, out, ref, at, astray, mixed, Usable
<1>2. OutSize \in Nat \ {0}
  BY LibraryAssumption DEF LibraryAssumption, OB!OutBufferAssumption
<1>3. ~out.bad /\ ~mixed
  <2>1. ~out.bad
    BY DEF OB!Next, OB!WriteChar, OB!Write, OB!WriteLarge, OB!Flush, OB!Seek, out
  <2>2. CASE OB!WriteChar \/ OB!Write
    <3>1. \E d : OB!Meant(d)
      BY <2>2, Zenon DEF OB!WriteChar, OB!Write
    <3>2. mixed' = (mixed \/ astray)
      BY <3>1, Zenon DEF OB!Meant, mixed, astray
    <3>. QED
      BY <1>1, <2>1, <3>2, Zenon
  <2>3. CASE OB!WriteLarge
    <3>1. mixed' = (mixed \/ astray \/ out.bufpos < Len(out.buf))
      BY <2>3, Zenon DEF OB!WriteLarge, mixed, astray, out
    <3>. QED
      BY <1>1, <2>1, <3>1, Zenon
  <2>4. CASE OB!Flush \/ OB!Seek
    <3>1. mixed' = mixed
      BY <2>4 DEF OB!Flush, OB!Seek, mixed
    <3>. QED
      BY <1>1, <2>1, <3>1
  <2>. QED
    BY <2>1, <2>2, <2>3, <2>4 DEF OB!Next
<1>4. Sound(out, ref, at) /\ (~astray => out.offset + out.bufpos = at)
  BY <1>3 DEF OutBufferInv, Sound, OB!WrittenInOrder, out, ref, at, astray, mixed
<1>5. /\ out \in Buffers /\ out.bufpos <= Len(out.buf) /\ Len(out.buf) < OutSize
      /\ out.offset <= Len(out.file) /\ ref \in Seq(OutBytes) /\ at \in 0..Len(ref)
      /\ OB!Patch(out.file, out.offset, out.buf) = ref
  BY <1>4 DEF Sound, Usable
<1>6. /\ out.file \in Seq(OutBytes) /\ out.buf \in Seq(OutBytes) /\ Len(out.file) \in Nat
      /\ Len(out.buf) \in Nat /\ out.bufpos \in Nat /\ out.offset \in Nat /\ at \in Nat
  BY <1>5, LenProperties DEF Buffers
<1>7. Sound(Flushed(out), ref, at)
  BY <1>5, FlushedUsable DEF Sound
<1>8. CASE OB!WriteChar
  <2>1. PICK c \in OutBytes :
          /\ OB!Meant(<<c>>)
          /\ IF Len(OB!Buffered(out, <<c>>).buf) < OutSize
             THEN out' = OB!Buffered(out, <<c>>)
             ELSE \E k \in 0..Len(OB!Buffered(out, <<c>>).buf) :
                    out' = OB!Nflush(OB!Buffered(out, <<c>>), k)
    BY <1>8 DEF OB!WriteChar, out
  <2> DEFINE d == <<c>>
             o == OB!Buffered(out, d)
  <2>2. d \in Seq(OutBytes) /\ Len(d) = 1
    OBVIOUS
  <2>3. ref' = OB!Patch(ref, at, d) /\ at' = at + Len(d) /\ ~astray
        /\ out.offset + out.bufpos = at
    BY <1>1, <1>4, <2>1 DEF OB!Meant, ref, at, astray, mixed
  <2> HIDE DEF d
  <2>4. /\ o \in Buffers /\ ~o.bad /\ o.file = out.file /\ o.offset = out.offset
        /\ o.bufpos = out.bufpos + Len(d)
        /\ Len(o.buf) = IF o.bufpos > Len(out.buf) THEN o.bufpos ELSE Len(out.buf)
        /\ OB!Patch(o.file, o.offset, o.buf) = ref'
    BY <1>3, <1>5, <2>2, <2>3, BufferedIs
  <2>5. IF Len(o.buf) < OutSize THEN out' = o
        ELSE \E k \in 0..Len(o.buf) : out' = OB!Nflush(o, k)
    BY <2>1 DEF d
  <2>6. ref' \in Seq(OutBytes) /\ at' \in 0..Len(ref')
    BY <1>5, <2>2, <2>3, MeantIs
  <2> HIDE DEF o
  <2>7. CASE Len(o.buf) < OutSize
    <3>1. out' = o
      BY <2>5, <2>7
    <3>2. Usable(o) /\ o.offset + o.bufpos = at'
      BY <1>5, <1>6, <2>2, <2>3, <2>4, <2>7 DEF Usable
    <3>. QED
      BY <2>4, <2>6, <3>1, <3>2 DEF Sound
  <2>8. CASE ~(Len(o.buf) < OutSize)
    <3>1. out' = Flushed(o)
      BY <1>1, <2>4, <2>5, <2>8, NflushIs
    <3>2. Sound(Flushed(o), ref', at')
      BY <1>5, <2>4, <2>6, FlushedUsable DEF Sound
    <3>3. Len(o.buf) = o.bufpos
      BY <1>2, <1>5, <1>6, <2>2, <2>4, <2>8
    <3>4. Flushed(o).offset + Flushed(o).bufpos = at'
      BY <1>6, <2>2, <2>3, <2>4, <3>3, SMTT(40) DEF Flushed
    <3>. QED
      BY <3>1, <3>2, <3>4
  <2>. QED
    BY <2>7, <2>8
<1>9. CASE OB!Write
  <2>1. PICK n \in 1..OutSize - 1 : \E d \in [1..n -> OutBytes] :
          LET amount == OutSize - out.bufpos IN
          /\ OB!Meant(d)
          /\ IF n < amount THEN out' = OB!Buffered(out, d)
             ELSE \E k \in 0..OutSize :
                    LET o == OB!Nflush(OB!Buffered(out, SubSeq(d, 1, amount)), k)
                    IN out' = IF o.bad THEN o ELSE OB!Buffered(o, SubSeq(d, amount + 1, n))
    BY <1>9 DEF OB!Write, out
  <2> DEFINE amount == OutSize - out.bufpos
  <2>2. PICK d \in [1..n -> OutBytes] :
          /\ OB!Meant(d)
          /\ IF n < amount THEN out' = OB!Buffered(out, d)
             ELSE \E k \in 0..OutSize :
                    LET o == OB!Nflush(OB!Buffered(out, SubSeq(d, 1, amount)), k)
                    IN out' = IF o.bad THEN o ELSE OB!Buffered(o, SubSeq(d, amount + 1, n))
    BY <2>1
  <2>3. d \in Seq(OutBytes) /\ Len(d) = n /\ n \in Nat
    <3>1. n \in Nat
      BY <1>2
    <3>2. d \in Seq(OutBytes)
      BY <3>1, SeqDef
    <3>. QED
      BY <3>1, <3>2, LenProperties
  <2>4. ref' = OB!Patch(ref, at, d) /\ at' = at + n /\ ~astray
        /\ out.offset + out.bufpos = at
    BY <1>1, <1>4, <2>2, <2>3 DEF OB!Meant, ref, at, astray, mixed
  <2>5. ref' \in Seq(OutBytes) /\ at' \in 0..Len(ref')
    BY <1>5, <2>3, <2>4, MeantIs
  <2>6. CASE n < amount
    <3> DEFINE b == OB!Buffered(out, d)
    <3>1. out' = b
      BY <2>2, <2>6
    <3>2. /\ b \in Buffers /\ b.file = out.file /\ b.offset = out.offset
          /\ b.bufpos = out.bufpos + Len(d)
          /\ Len(b.buf) = IF b.bufpos > Len(out.buf) THEN b.bufpos ELSE Len(out.buf)
          /\ OB!Patch(b.file, b.offset, b.buf) = ref'
      BY <1>3, <1>5, <2>3, <2>4, BufferedIs
    <3> HIDE DEF b
    <3>3. b.offset = out.offset /\ b.bufpos = out.bufpos + n
          /\ b.bufpos <= Len(b.buf) /\ Len(b.buf) < OutSize
      BY <1>2, <1>5, <1>6, <2>3, <2>6, <3>2
    <3>4. b.offset + b.bufpos = at'
      BY <1>6, <2>3, <2>4, <3>3, SMTT(40)
    <3>5. Usable(b)
      BY <1>5, <3>2, <3>3 DEF Usable
    <3>. QED
      BY <2>5, <3>1, <3>2, <3>4, <3>5 DEF Sound
  <2>7. CASE ~(n < amount)
    <3> DEFINE d1 == SubSeq(d, 1, amount)
               d2 == SubSeq(d, amount + 1, n)
               b == OB!Buffered(out, d1)
               g == OB!Patch(ref, at, d1)
    <3>1. amount \in 1..n
      BY <1>2, <1>5, <1>6, <2>3, <2>7
    <3>2. d1 \in Seq(OutBytes) /\ Len(d1) = amount /\ d2 \in Seq(OutBytes)
          /\ Len(d2) = n - amount
      <4>1. \A i \in 1..n : d[i] \in OutBytes
        OBVIOUS
      <4>2. amount \in Int /\ n \in Int /\ amount + 1 \in Int
            /\ (\A i \in 1..amount : d[i] \in OutBytes)
            /\ (\A i \in amount + 1 .. n : d[i] \in OutBytes)
        BY <2>3, <3>1, <4>1
      <4> HIDE DEF amount
      <4>3. d1 \in Seq(OutBytes) /\ Len(d1) = IF 1 <= amount THEN amount - 1 + 1 ELSE 0
        BY <4>2, SubSeqProperties
      <4>4. d2 \in Seq(OutBytes)
            /\ Len(d2) = IF amount + 1 <= n THEN n - (amount + 1) + 1 ELSE 0
        BY <4>2, SubSeqProperties
      <4>. QED
        BY <2>3, <3>1, <4>3, <4>4
    <3>3. OB!Patch(g, at + amount, d2) = ref'
      BY <1>5, <2>3, <2>4, <3>1, PatchOn
    <3> HIDE DEF d1, d2
    <3>4. /\ b \in Buffers /\ ~b.bad /\ b.file = out.file /\ b.offset = out.offset
          /\ b.bufpos = out.bufpos + amount
          /\ Len(b.buf) = IF b.bufpos > Len(out.buf) THEN b.bufpos ELSE Len(out.buf)
          /\ OB!Patch(b.file, b.offset, b.buf) = g
      BY <1>3, <1>5, <2>4, <3>2, BufferedIs
    <3>5. PICK k \in 0..OutSize :
            out' = IF OB!Nflush(b, k).bad THEN OB!Nflush(b, k)
                   ELSE OB!Buffered(OB!Nflush(b, k), d2)
      BY <2>2, <2>7 DEF d1, d2
    <3> HIDE DEF b
    <3>6. Len(b.buf) = OutSize /\ b.offset + OutSize = at + amount
      BY <1>2, <1>5, <1>6, <2>4, <3>4, SMTT(40)
    <3> HIDE DEF amount
    <3>7. out' = OB!Buffered(Flushed(b), d2)
      BY <1>1, <3>4, <3>5, <3>6, NflushIs
    <3>8. Usable(Flushed(b)) /\ OB!Patch(Flushed(b).file, Flushed(b).offset, Flushed(b).buf) = g
      BY <1>5, <3>4, FlushedUsable
    <3>9. /\ ~Flushed(b).bad /\ Flushed(b).offset = at + amount /\ Flushed(b).bufpos = 0
          /\ Len(Flushed(b).buf) = 0
      BY <3>6, EmptySeq DEF Flushed
    <3>10. /\ out' \in Buffers /\ out'.offset = at + amount
           /\ out'.file = Flushed(b).file
           /\ out'.bufpos = 0 + Len(d2)
           /\ Len(out'.buf) = IF out'.bufpos > 0 THEN out'.bufpos ELSE 0
           /\ OB!Patch(out'.file, out'.offset, out'.buf) = OB!Patch(g, at + amount + 0, d2)
      <4> DEFINE f == Flushed(b)
      <4>1. f \in Buffers /\ f.bufpos <= Len(f.buf) /\ f.offset <= Len(f.file) /\ ~f.bad
        BY <3>8, <3>9 DEF Usable
      <4> HIDE DEF f
      <4>. QED
        BY <3>2, <3>7, <3>8, <3>9, <4>1, BufferedIs DEF f
    <3>11. out'.bufpos = n - amount /\ n - amount \in 0..OutSize - 1
      BY <1>2, <2>3, <3>1, <3>2, <3>10
    <3>12. Usable(out')
      <4>1. Flushed(b).offset <= Len(Flushed(b).file)
        BY <3>8 DEF Usable
      <4>2. out'.offset <= Len(out'.file)
        BY <3>9, <3>10, <4>1
      <4>3. out'.bufpos <= Len(out'.buf) /\ Len(out'.buf) < OutSize
        BY <1>2, <3>10, <3>11
      <4>. QED
        BY <3>10, <4>2, <4>3 DEF Usable
    <3>13. out'.offset + out'.bufpos = at' /\ at + amount + 0 = at + amount
      BY <1>6, <2>3, <2>4, <3>1, <3>10, <3>11, SMTT(40)
    <3>. QED
      BY <2>5, <3>3, <3>10, <3>12, <3>13 DEF Sound
  <2>. QED
    BY <2>6, <2>7
<1>10. CASE OB!WriteLarge
  <2>1. PICK d \in [1..OutSize -> OutBytes], j \in 0..Len(out.buf), k \in 0..OutSize :
          /\ ref' = OB!Patch(ref, at, d) /\ at' = at + OutSize
          /\ mixed' = (mixed \/ astray \/ out.bufpos < Len(out.buf))
          /\ out' = IF OB!Nflush(out, j).bad THEN OB!Nflush(out, j)
                    ELSE OB!Written(OB!Nflush(out, j), d, k)
    BY <1>10 DEF OB!WriteLarge, out, ref, at, mixed, astray
  <2>2. d \in Seq(OutBytes) /\ Len(d) = OutSize
    BY <1>2, SeqDef, LenProperties
  <2>3. ~astray /\ ~(out.bufpos < Len(out.buf))
    BY <1>1, <2>1, Zenon
  <2>4. out.offset + Len(out.buf) = at
    BY <1>4, <1>5, <1>6, <2>3
  <2>5. out' = OB!Written(Flushed(out), d, k)
    BY <1>1, <1>3, <1>5, <2>1, NflushIs
  <2>6. Flushed(out) = [file |-> ref, buf |-> <<>>, bufpos |-> 0, offset |-> at, bad |-> FALSE]
    BY <1>5, <2>4 DEF Flushed
  <2>7. ref' \in Seq(OutBytes) /\ at' \in 0..Len(ref')
    BY <1>5, <2>1, <2>2, MeantIs
  <2>8. Flushed(out) \in Buffers /\ ~Flushed(out).bad /\ k \in 0..Len(d)
        /\ Flushed(out).file = ref /\ Flushed(out).offset = at
        /\ Flushed(out).buf = <<>> /\ Flushed(out).bufpos = 0
    BY <1>7, <2>2, <2>6 DEF Sound, Usable
  <2>9. out' = [Flushed(out) EXCEPT !.file = OB!Patch(Flushed(out).file, Flushed(out).offset, d),
                                    !.offset = Flushed(out).offset + Len(d)]
    BY <1>1, <2>2, <2>5, <2>8, WrittenIs
  <2>10. out' = [Flushed(out) EXCEPT !.file = ref', !.offset = at']
    BY <2>1, <2>2, <2>8, <2>9
  <2> DEFINE F == Flushed(out)
  <2>11. Len(ref') \in Nat /\ at' \in Nat /\ at' <= Len(ref')
    <3>1. Len(ref') \in Nat
      BY <2>7, LenProperties
    <3>2. \A m \in Nat : \A i \in 0..m : i \in Nat /\ i <= m
      OBVIOUS
    <3>. QED
      BY <2>7, <3>1, <3>2, Zenon
  <2> HIDE DEF F
  <2>12. out' \in Buffers /\ out'.file = ref' /\ out'.offset = at'
         /\ out'.buf = F.buf /\ out'.bufpos = F.bufpos
    BY <2>7, <2>8, <2>10, <2>11 DEF Buffers, F
  <2>13. OB!Patch(ref', at', <<>>) = ref'
    BY <2>7, PatchNothing
  <2>14. out'.buf = <<>> /\ out'.bufpos = 0 /\ Len(<<>>) = 0
    BY <2>8, <2>12, EmptySeq DEF F
  <2>15. Usable(out')
    BY <1>2, <2>11, <2>12, <2>14 DEF Usable
  <2>16. out'.offset + out'.bufpos = at'
    <3>1. \A m \in Nat : m + 0 = m
      OBVIOUS
    <3>. QED
      BY <2>11, <2>12, <2>14, <3>1, Zenon
  <2>. QED
    BY <2>7, <2>12, <2>13, <2>14, <2>15, <2>16 DEF Sound
<1>11. CASE OB!Flush
  <2>1. PICK k \in 0..Len(out.buf) : out' = OB!Nflush(out, k)
    BY <1>11 DEF OB!Flush, out
  <2>2. out' = Flushed(out)
    BY <1>1, <1>3, <1>5, <2>1, NflushIs
  <2>3. UNCHANGED <<ref, at>> /\ astray' = (astray \/ out.bufpos < Len(out.buf))
    BY <1>11 DEF OB!Flush, out, ref, at, astray
  <2>4. ASSUME ~astray' PROVE Flushed(out).offset + Flushed(out).bufpos = at
    <3>1. ~astray /\ ~(out.bufpos < Len(out.buf))
      BY <2>3, <2>4, Zenon
    <3>2. out.offset + Len(out.buf) = at
      BY <1>4, <1>5, <1>6, <3>1
    <3>. QED
      BY <1>6, <3>2 DEF Flushed
  <2>. QED
    BY <1>7, <2>2, <2>3, <2>4
<1>12. CASE OB!Seek
  <2>1. PICK o \in 0..Len(ref) :
          /\ at' = o
          /\ IF o >= out.offset /\ o < out.offset + Len(out.buf)
             THEN out' = [out EXCEPT !.bufpos = o - out.offset]
             ELSE \E k \in 0..Len(out.buf) :
                    out' = IF OB!Nflush(out, k).bad THEN OB!Nflush(out, k)
                           ELSE [OB!Nflush(out, k) EXCEPT !.offset = o]
    BY <1>12 DEF OB!Seek, out, ref, at
  <2>2. ref' = ref
    BY <1>12 DEF OB!Seek, ref
  <2>3. CASE o >= out.offset /\ o < out.offset + Len(out.buf)
    <3>1. out' = [out EXCEPT !.bufpos = o - out.offset] /\ o - out.offset \in Nat
      BY <1>6, <2>1, <2>3
    <3>2. /\ out' \in Buffers /\ out'.file = out.file /\ out'.buf = out.buf
          /\ out'.offset = out.offset /\ out'.bufpos = o - out.offset
      BY <1>5, <1>6, <3>1 DEF Buffers
    <3>. QED
      BY <1>5, <1>6, <2>1, <2>2, <2>3, <3>2 DEF Sound, Usable
  <2>4. CASE ~(o >= out.offset /\ o < out.offset + Len(out.buf))
    <3>1. out' = [Flushed(out) EXCEPT !.offset = o]
      <4>1. PICK k \in 0..Len(out.buf) :
              out' = IF OB!Nflush(out, k).bad THEN OB!Nflush(out, k)
                     ELSE [OB!Nflush(out, k) EXCEPT !.offset = o]
        BY <2>1, <2>4
      <4>2. ~OB!Nflush(out, k).bad /\ OB!Nflush(out, k) = Flushed(out)
        BY <1>1, <1>3, <1>5, <4>1, NflushIs
      <4>. QED
        BY <4>1, <4>2
    <3>2. out' = [file |-> ref, buf |-> <<>>, bufpos |-> 0, offset |-> o, bad |-> FALSE]
      BY <1>5, <3>1 DEF Flushed
    <3>3. OB!Patch(ref, o, <<>>) = ref
      BY <1>5, <2>1, PatchNothing
    <3>4. <<>> \in Seq(OutBytes) /\ Len(<<>>) = 0 /\ o \in Nat /\ o <= Len(ref) /\ o + 0 = o
      BY <1>5, <2>1, EmptySeq, LenProperties
    <3>5. out' \in Buffers /\ out'.bufpos = 0 /\ out'.buf = <<>> /\ out'.offset = o
          /\ out'.file = ref
      BY <1>5, <3>2, <3>4 DEF Buffers
    <3>. QED
      BY <1>2, <1>5, <2>1, <2>2, <3>3, <3>4, <3>5 DEF Sound, Usable
  <2>. QED
    BY <2>3, <2>4
<1>. QED
  BY <1>8, <1>9, <1>10, <1>11, <1>12 DEF OB!Next

LEMMA OutBufferInit == Init => OutBufferInvariant
<1> SUFFICES ASSUME OB!Init
             PROVE  OutBufferInv
  BY DEF Init, OutBufferInvariant
<1>1. out = [file |-> <<>>, buf |-> <<>>, bufpos |-> 0, offset |-> 0, bad |-> FALSE]
      /\ ref = <<>> /\ at = 0
  BY DEF OB!Init, out, ref, at
<1>2. <<>> \in Seq(OutBytes) /\ Len(<<>>) = 0 /\ OutSize \in Nat \ {0}
  BY EmptySeq, LibraryAssumption DEF LibraryAssumption, OB!OutBufferAssumption
<1>3. OB!Patch(<<>>, 0, <<>>) = <<>>
  <2>1. 0 \in 0..Len(<<>>)
    BY <1>2
  <2>. QED
    BY <1>2, <2>1, PatchNothing
<1>4. Usable(out) /\ at \in 0..Len(ref)
  BY <1>1, <1>2 DEF Usable, Buffers
<1>5. OB!Patch(out.file, out.offset, out.buf) = ref /\ out.offset + out.bufpos = at
  BY <1>1, <1>3
<1>. QED
  BY <1>1, <1>2, <1>4, <1>5 DEF OutBufferInv, OB!WrittenInOrder, out, ref, at

(* Until a seek back is lost or an error is reported, the file with its    *)
(* buffer is what has been written, in order, for files of any length and  *)
(* buffers of any size (fdobuf).                                           *)
THEOREM WritesInOrder == Spec => []WrittenInOrder
<1>1. OutBufferInvariant /\ [Next]_<<which, xs>> => OutBufferInvariant'
  <2> SUFFICES ASSUME OutBufferInvariant, [Next]_<<which, xs>>, which' = "outbuffer"
               PROVE  OutBufferInv'
    BY DEF OutBufferInvariant
  <2>1. which = "outbuffer" /\ OutBufferInv
    BY DEF OutBufferInvariant, Next
  <2>2. CASE OB!Next
    BY <2>1, <2>2, OutBufferKeeps
  <2>3. CASE UNCHANGED xs
    BY <2>1, <2>3 DEF OutBufferInv, Usable, OB!WrittenInOrder, out, ref, at, mixed, xs
  <2>. QED
    BY <2>1, <2>2, <2>3 DEF Next
<1>2. OutBufferInvariant => WrittenInOrder
  BY DEF OutBufferInvariant, OutBufferInv, WrittenInOrder, OB!WrittenInOrder, out, mixed
<1>. QED
  BY OutBufferInit, <1>1, <1>2, PTL DEF Spec

-----------------------------------------------------------------------------
(* Buffers that are read. *)

(* The component's own names for its variables. *)
data == x1
in == x2
call == x3
want == x4
got == x5
from == x6
upto == x7
skewed == x8
stale == x9

(* fdibuf. *)
InBuffers ==
    [buf : Seq(InBytes), start : Nat, offset : Nat, eof : BOOLEAN, err : BOOLEAN]

(* n bytes of s after the first a. *)
Segment(s, a, n) == SubSeq(s, a + 1, a + n)

(* The buffer holds what is before its offset in the file. *)
Matches(b) == b.buf = Segment(data, b.offset - Len(b.buf), Len(b.buf))

(* Where the next byte is to come from. *)
Place(b) == b.offset - Len(b.buf) + b.start

(* What is left in the buffer is what comes next in the file. *)
Fits(b) ==
    /\ b \in InBuffers
    /\ b.start <= Len(b.buf) /\ Len(b.buf) <= b.offset /\ b.offset <= Len(data)
    /\ b.start = Len(b.buf) \/ Matches(b)
    /\ b.eof => b.offset = Len(data)

(* Between and during calls: the buffer, and what has been passed on. *)
InOrder ==
    /\ Fits(in) /\ (~skewed => Matches(in)) /\ Place(in) = upto
    /\ want \in Nat /\ from \in Nat /\ upto \in Nat /\ got \in Seq(InBytes)
    /\ from + Len(got) <= upto
    /\ got = Segment(data, from, Len(got))
    /\ call # "none" => upto = from + Len(got)
    /\ call = "line" => want = 0
    /\ call = "direct" /\ want > 0 => in.start = Len(in.buf)
    /\ call = "none" /\ want > 0 => in.err \/ upto >= Len(data)

(* Until a seek has gone back into a skewed buffer, all is in order. *)
InBufferInv == data \in Seq(InBytes) /\ (~stale => InOrder)

InBufferInvariant == which = "inbuffer" => InBufferInv

(* What a segment is, place by place. *)
LEMMA SegmentIs ==
    ASSUME NEW S, NEW s \in Seq(S), NEW a \in Nat, NEW n \in Nat, a + n <= Len(s)
    PROVE  /\ Segment(s, a, n) \in Seq(S) /\ Len(Segment(s, a, n)) = n
           /\ \A i \in 1..n : Segment(s, a, n)[i] = s[a + i]
<1>1. Len(s) \in Nat
  BY LenProperties
<1>2. a + 1 \in Int /\ a + n \in Int /\ \A i \in a + 1 .. a + n : s[i] \in S
  <2>1. \A i \in a + 1 .. a + n : i \in 1..Len(s)
    BY <1>1
  <2>. QED
    BY <2>1, ElementOfSeq
<1>3. /\ Segment(s, a, n) \in Seq(S)
      /\ Len(Segment(s, a, n)) = IF a + 1 <= a + n THEN a + n - (a + 1) + 1 ELSE 0
      /\ \A i \in 1 .. a + n - (a + 1) + 1 : Segment(s, a, n)[i] = s[a + 1 + i - 1]
  BY <1>2, SubSeqProperties DEF Segment
<1>4. a + n - (a + 1) + 1 = n /\ (a + 1 <= a + n <=> n > 0)
  OBVIOUS
<1>5. \A i \in 1..n : a + 1 + i - 1 = a + i
  OBVIOUS
<1>. QED
  BY <1>3, <1>4, <1>5

(* A part of a segment. *)
LEMMA SegmentPart ==
    ASSUME NEW S, NEW s \in Seq(S), NEW a \in Nat, NEW n \in Nat, a + n <= Len(s),
           NEW b \in Nat, NEW m \in Nat, b + m <= n
    PROVE  Segment(Segment(s, a, n), b, m) = Segment(s, a + b, m)
<1> DEFINE t == Segment(s, a, n)
           l == Segment(t, b, m)
           r == Segment(s, a + b, m)
<1>1. t \in Seq(S) /\ Len(t) = n /\ \A i \in 1..n : t[i] = s[a + i]
  BY SegmentIs
<1>2. Len(s) \in Nat /\ a + b \in Nat /\ (a + b) + m <= Len(s)
  BY LenProperties
<1>3. r \in Seq(S) /\ Len(r) = m /\ \A i \in 1..m : r[i] = s[(a + b) + i]
  BY <1>2, SegmentIs
<1> HIDE DEF t
<1>4. l \in Seq(S) /\ Len(l) = m /\ \A i \in 1..m : l[i] = t[b + i]
  BY <1>1, SegmentIs, SMTT(40)
<1> HIDE DEF l, r
<1>5. ASSUME NEW i \in 1..m PROVE l[i] = r[i]
  <2>1. b + i \in 1..n /\ a + (b + i) = (a + b) + i
    OBVIOUS
  <2>. QED
    BY <1>1, <1>3, <1>4, <2>1
<1>6. l = r
  BY <1>3, <1>4, <1>5, SeqEqual
<1>. QED
  BY <1>6 DEF l, r, t

(* A segment and the one behind it. *)
LEMMA SegmentOn ==
    ASSUME NEW S, NEW s \in Seq(S), NEW a \in Nat, NEW n \in Nat, NEW m \in Nat,
           a + n + m <= Len(s)
    PROVE  Segment(s, a, n) \o Segment(s, a + n, m) = Segment(s, a, n + m)
<1> DEFINE t == Segment(s, a, n)
           u == Segment(s, a + n, m)
           r == Segment(s, a, n + m)
<1>1. Len(s) \in Nat /\ a + n <= Len(s) /\ a + (n + m) <= Len(s) /\ (a + n) + m <= Len(s)
  BY LenProperties
<1>2. t \in Seq(S) /\ Len(t) = n /\ \A i \in 1..n : t[i] = s[a + i]
  BY <1>1, SegmentIs
<1>3. u \in Seq(S) /\ Len(u) = m /\ \A i \in 1..m : u[i] = s[(a + n) + i]
  BY <1>1, SegmentIs
<1>4. r \in Seq(S) /\ Len(r) = n + m /\ \A i \in 1..(n + m) : r[i] = s[a + i]
  <2>1. n + m \in Nat
    OBVIOUS
  <2>. QED
    BY <1>1, <2>1, SegmentIs
<1> HIDE DEF t, u, r
<1> DEFINE v == t \o u
<1>5. v \in Seq(S) /\ Len(v) = n + m
      /\ \A i \in 1..(n + m) : v[i] = IF i <= n THEN t[i] ELSE u[i - n]
  BY <1>2, <1>3, ConcatProperties
<1> HIDE DEF v
<1>6. ASSUME NEW i \in 1..(n + m) PROVE v[i] = r[i]
  <2>1. i \in Nat /\ i >= 1 /\ i <= n + m
    OBVIOUS
  <2>2. CASE i <= n
    <3>1. i \in 1..n
      BY <2>1, <2>2
    <3>. QED
      BY <1>2, <1>4, <1>5, <2>2, <3>1
  <2>3. CASE i > n
    <3>1. i - n \in 1..m /\ (a + n) + (i - n) = a + i /\ ~(i <= n)
      BY <2>1, <2>3
    <3>. QED
      BY <1>3, <1>4, <1>5, <3>1
  <2>. QED
    BY <2>1, <2>2, <2>3
<1>7. v = r
  BY <1>4, <1>5, <1>6, SeqEqual
<1>. QED
  BY <1>7 DEF t, u, r, v

(* The empty segment. *)
LEMMA SegmentNone ==
    ASSUME NEW s, NEW a \in Nat
    PROVE  Segment(s, a, 0) = <<>>
BY SubSeqEmpty DEF Segment

(* The next n bytes of a buffer are the next n of the file. *)
LEMMA NextOfFile ==
    ASSUME data \in Seq(InBytes), NEW b, Fits(b), NEW n \in Nat, n <= Len(b.buf) - b.start
    PROVE  /\ SubSeq(b.buf, b.start + 1, b.start + n) = Segment(data, Place(b), n)
           /\ Place(b) \in Nat /\ Place(b) + n <= Len(data)
<1>1. b.buf \in Seq(InBytes) /\ Len(b.buf) \in Nat /\ b.start \in Nat /\ b.offset \in Nat
      /\ Len(data) \in Nat /\ b.start <= Len(b.buf) /\ Len(b.buf) <= b.offset
      /\ b.offset <= Len(data)
  BY LenProperties DEF Fits, InBuffers
<1> DEFINE a == b.offset - Len(b.buf)
<1>2. a \in Nat /\ a + Len(b.buf) <= Len(data) /\ Place(b) = a + b.start
      /\ Place(b) \in Nat /\ Place(b) + n <= Len(data)
  BY <1>1 DEF Place
<1>3. CASE Matches(b)
  <2>1. b.buf = Segment(data, a, Len(b.buf))
    BY <1>3 DEF Matches
  <2>2. b.start + n <= Len(b.buf)
    BY <1>1
  <2> HIDE DEF a
  <2>3. Segment(Segment(data, a, Len(b.buf)), b.start, n) = Segment(data, a + b.start, n)
    BY <1>1, <1>2, <2>2, SegmentPart
  <2>. QED
    BY <1>2, <2>1, <2>3 DEF Segment
<1>4. CASE b.start = Len(b.buf)
  <2>1. n = 0
    BY <1>1, <1>4
  <2>. QED
    BY <1>1, <1>2, <2>1, SegmentNone DEF Segment
<1>. QED
  BY <1>3, <1>4 DEF Fits

(* A set of numbers has a least one. *)
LEMMA LeastOf ==
    ASSUME NEW T, T \subseteq Nat, T # {}
    PROVE  \E i \in T : \A j \in T : i <= j
<1>1. IsWellFoundedOn(OpToRel(<, Nat), Nat)
  BY NatLessThanWellFounded
<1>2. PICK i \in T : \A j \in T : <<j, i>> \notin OpToRel(<, Nat)
  BY <1>1, WFMin
<1>3. ASSUME NEW j \in T PROVE i <= j
  <2>1. i \in Nat /\ j \in Nat
    OBVIOUS
  <2>2. ~(j < i)
    BY <1>2, <2>1 DEF OpToRel
  <2>. QED
    BY <2>1, <2>2
<1>. QED
  BY <1>3

LEMMA InSizes == InSize \in Nat \ {0} /\ InMaxLen \in Nat
BY LibraryAssumption DEF LibraryAssumption, IB!InBufferAssumption

(* The kernel moves the offset on, or sets one of the flags. *)
LEMMA KernelReadIs ==
    ASSUME NEW b \in InBuffers, Len(data) \in Nat, b.offset <= Len(data), NEW n \in Nat,
           NEW r \in IB!KernelRead(b, n)
    PROVE  /\ r \in InBuffers /\ r.buf = b.buf /\ r.start = b.start
           /\ b.offset <= r.offset /\ r.offset <= Len(data) /\ r.offset - b.offset <= n
           /\ r.offset = b.offset => r.err \/ r.eof
           /\ r.eof => b.eof \/ r.offset = Len(data)
<1>1. b.offset \in Nat
  BY DEF InBuffers
<1>2. CASE r = [b EXCEPT !.err = TRUE]
  <2>1. /\ r \in InBuffers /\ r.buf = b.buf /\ r.start = b.start /\ r.offset = b.offset
        /\ r.err /\ r.eof = b.eof
    BY <1>2 DEF InBuffers
  <2>. QED
    BY <1>1, <2>1
<1>3. CASE b.offset >= Len(data) /\ r = [b EXCEPT !.eof = TRUE]
  <2>1. r \in InBuffers /\ r.buf = b.buf /\ r.start = b.start /\ r.offset = b.offset /\ r.eof
    BY <1>3 DEF InBuffers
  <2>. QED
    BY <1>1, <1>3, <2>1
<1>4. CASE ~(b.offset >= Len(data))
           /\ \E k \in 1..(IF n < Len(data) - b.offset THEN n ELSE Len(data) - b.offset) :
                r = [b EXCEPT !.offset = @ + k]
  <2>1. PICK k \in 1..(IF n < Len(data) - b.offset THEN n ELSE Len(data) - b.offset) :
          r = [b EXCEPT !.offset = @ + k]
    BY <1>4
  <2>2. k \in Nat /\ k >= 1 /\ k <= n /\ b.offset + k <= Len(data)
    BY <1>1, <1>4
  <2>. QED
    BY <1>1, <2>1, <2>2 DEF InBuffers
<1>5. r = [b EXCEPT !.err = TRUE]
      \/ r \in IF b.offset >= Len(data) THEN {[b EXCEPT !.eof = TRUE]}
               ELSE {[b EXCEPT !.offset = @ + k] :
                      k \in 1..(IF n < Len(data) - b.offset THEN n ELSE Len(data) - b.offset)}
  BY DEF IB!KernelRead, data
<1>. QED
  BY <1>2, <1>3, <1>4, <1>5

(* A read buffer is filled from where it ended. *)
LEMMA RefillIs ==
    ASSUME data \in Seq(InBytes), NEW b, Fits(b), b.start = Len(b.buf), NEW r \in IB!Refill(b)
    PROVE  /\ Fits(r) /\ Place(r) = Place(b) /\ (r = b \/ Matches(r))
           /\ r.start < Len(r.buf) \/ r.err \/ r.eof
<1>1. /\ b \in InBuffers /\ b.buf \in Seq(InBytes) /\ Len(b.buf) \in Nat /\ b.start \in Nat
      /\ b.offset \in Nat /\ Len(data) \in Nat /\ Len(b.buf) <= b.offset
      /\ b.offset <= Len(data) /\ (b.eof => b.offset = Len(data))
  BY LenProperties DEF Fits, InBuffers
<1>2. CASE b.eof \/ b.err
  BY <1>2 DEF IB!Refill
<1>3. CASE ~(b.eof \/ b.err)
  <2>1. SubSeq(b.buf, b.start + 1, Len(b.buf)) = <<>>
    <3>1. b.start + 1 \in Int /\ Len(b.buf) \in Int /\ Len(b.buf) < b.start + 1
      BY <1>1
    <3>. QED
      BY <3>1, SubSeqEmpty
  <2>2. Len(<<>>) = 0 /\ InSize # 0 /\ InSize - 0 = InSize
    BY EmptySeq, InSizes
  <2>3. PICK k \in IB!KernelRead(b, InSize) :
          r = [k EXCEPT !.buf = <<>> \o SubSeq(data, b.offset + 1, k.offset), !.start = 0]
    BY <1>3, <2>1, <2>2 DEF IB!Refill, data
  <2>4. /\ k \in InBuffers /\ b.offset <= k.offset /\ k.offset <= Len(data)
        /\ (k.offset = b.offset => k.err \/ k.eof) /\ (k.eof => k.offset = Len(data))
    BY <1>1, <1>3, InSizes, KernelReadIs
  <2> DEFINE n == k.offset - b.offset
             s == Segment(data, b.offset, n)
  <2>5. n \in Nat /\ b.offset + n = k.offset /\ k.offset \in Nat
    BY <1>1, <2>4 DEF InBuffers
  <2>6. s \in Seq(InBytes) /\ Len(s) = n
    BY <1>1, <2>4, <2>5, SegmentIs
  <2>7. <<>> \o SubSeq(data, b.offset + 1, k.offset) = s
    <3>1. SubSeq(data, b.offset + 1, k.offset) = s
      BY <2>5 DEF Segment
    <3>. QED
      BY <2>6, <3>1, ConcatEmptySeq
  <2> HIDE DEF s
  <2>8. /\ r \in InBuffers /\ r.buf = s /\ r.start = 0 /\ r.offset = k.offset
        /\ r.eof = k.eof /\ r.err = k.err
    BY <2>3, <2>4, <2>6, <2>7 DEF InBuffers
  <2>9. r.offset - Len(r.buf) = b.offset /\ Len(r.buf) = n
    BY <1>1, <2>5, <2>6, <2>8
  <2>10. Matches(r)
    BY <2>8, <2>9 DEF Matches, s
  <2>11. Place(r) = Place(b)
    BY <1>1, <2>8, <2>9 DEF Place
  <2>12. r.start < Len(r.buf) \/ r.err \/ r.eof
    BY <1>1, <2>4, <2>5, <2>8, <2>9
  <2>. QED
    BY <1>1, <2>4, <2>5, <2>8, <2>9, <2>10, <2>11, <2>12 DEF Fits
<1>. QED
  BY <1>2, <1>3

(* To pass on n bytes of a buffer. *)
LEMMA TakenIs ==
    ASSUME NEW b, Fits(b), Len(data) \in Nat, NEW n \in Nat, n <= Len(b.buf) - b.start,
           NEW c, c = [b EXCEPT !.start = @ + n]
    PROVE  /\ Fits(c) /\ Place(c) = Place(b) + n /\ c.buf = b.buf /\ c.offset = b.offset
           /\ c.start = b.start + n /\ c.err = b.err /\ c.eof = b.eof
           /\ Matches(b) => Matches(c)
<1>1. b \in InBuffers /\ Len(b.buf) \in Nat /\ b.start \in Nat /\ b.offset \in Nat
  BY LenProperties DEF Fits, InBuffers
<1>2. c \in InBuffers /\ c.buf = b.buf /\ c.offset = b.offset /\ c.start = b.start + n
      /\ c.err = b.err /\ c.eof = b.eof
  <2>1. b.start + n \in Nat
    BY <1>1
  <2>. QED
    BY <1>1, <2>1 DEF InBuffers
<1>3. Matches(b) => Matches(c)
  BY <1>2 DEF Matches
<1>4. Place(c) = Place(b) + n
  BY <1>1, <1>2 DEF Place
<1>5. c.start <= Len(c.buf) /\ (b.start = Len(b.buf) => c.start = Len(c.buf))
  BY <1>1, <1>2 DEF Fits
<1>. QED
  BY <1>2, <1>3, <1>4, <1>5 DEF Fits

(* What has been read, and the next n bytes of the file. *)
LEMMA GotOn ==
    ASSUME data \in Seq(InBytes), NEW a \in Nat, NEW g \in Seq(InBytes), NEW n \in Nat,
           g = Segment(data, a, Len(g)), a + Len(g) + n <= Len(data)
    PROVE  LET h == g \o Segment(data, a + Len(g), n) IN
           /\ h \in Seq(InBytes) /\ Len(h) = Len(g) + n /\ h = Segment(data, a, Len(h))
<1>1. Len(g) \in Nat /\ Len(data) \in Nat
  BY LenProperties
<1>2. g \o Segment(data, a + Len(g), n) = Segment(data, a, Len(g) + n)
  <2> DEFINE k == Len(g)
  <2>1. k \in Nat /\ a + k + n <= Len(data) /\ g = Segment(data, a, k)
    BY <1>1
  <2> HIDE DEF k
  <2>2. Segment(data, a, k) \o Segment(data, a + k, n) = Segment(data, a, k + n)
    BY <2>1, SegmentOn
  <2>. QED
    BY <2>1, <2>2 DEF k
<1>3. Segment(data, a, Len(g) + n) \in Seq(InBytes)
      /\ Len(Segment(data, a, Len(g) + n)) = Len(g) + n
  <2>1. Len(g) + n \in Nat /\ a + (Len(g) + n) <= Len(data)
    BY <1>1
  <2>. QED
    BY <2>1, SegmentIs
<1>. QED
  BY <1>2, <1>3

(* A buffer that may be filled first. *)
LEMMA RefilledIs ==
    ASSUME data \in Seq(InBytes), Fits(in), NEW b \in IB!Refilled
    PROVE  /\ Fits(b) /\ Place(b) = Place(in) /\ (b = in \/ Matches(b))
           /\ b.start < Len(b.buf) \/ b.err \/ b.eof
<1>1. in.start \in Nat /\ Len(in.buf) \in Nat /\ in.start <= Len(in.buf)
  BY LenProperties DEF Fits, InBuffers
<1>2. CASE in.start >= Len(in.buf)
  <2>1. in.start = Len(in.buf) /\ b \in IB!Refill(in)
    BY <1>1, <1>2 DEF IB!Refilled, in
  <2>. QED
    BY <2>1, RefillIs
<1>3. CASE ~(in.start >= Len(in.buf))
  <2>1. b = in
    BY <1>3 DEF IB!Refilled, in
  <2>. QED
    BY <1>1, <1>3, <2>1
<1>. QED
  BY <1>2, <1>3

(* A step that passes on n bytes of the buffer b leaves things in order. *)
LEMMA PassedOn ==
    ASSUME data \in Seq(InBytes), InOrder, NEW b, Fits(b), Place(b) = upto,
           b = in \/ Matches(b),
           NEW n \in Nat, n <= Len(b.buf) - b.start, in' = [b EXCEPT !.start = @ + n],
           IB!Passed(n)
    PROVE  /\ Fits(in') /\ (~skewed' => Matches(in')) /\ Place(in') = upto'
           /\ upto' = upto + n /\ upto' \in Nat
<1>1. Len(data) \in Nat /\ upto \in Nat /\ (~skewed => Matches(in))
  BY LenProperties DEF InOrder
<1>2. Fits(in') /\ Place(in') = Place(b) + n /\ in'.buf = b.buf
      /\ (Matches(b) => Matches(in'))
  <2>1. \A c : c = [b EXCEPT !.start = @ + n] =>
            Fits(c) /\ Place(c) = Place(b) + n /\ c.buf = b.buf /\ (Matches(b) => Matches(c))
    BY <1>1, TakenIs
  <2>. QED
    BY <2>1
<1>3. upto' = upto + n /\ skewed' = (skewed /\ in'.buf = in.buf)
  BY DEF IB!Passed, upto, skewed, in
<1>4. upto' \in Nat
  BY <1>1, <1>3
<1>5. ~skewed' => Matches(b)
  <2>1. CASE ~skewed
    BY <1>1, <2>1
  <2>2. CASE in'.buf # in.buf
    BY <1>2, <2>2
  <2>. QED
    BY <1>3, <2>1, <2>2, Zenon
<1>. QED
  BY <1>2, <1>3, <1>4, <1>5

(* The same where nothing is passed on. *)
LEMMA NonePassed ==
    ASSUME data \in Seq(InBytes), InOrder, NEW b, Fits(b), Place(b) = upto,
           b = in \/ Matches(b), in' = b, IB!Passed(0)
    PROVE  Fits(in') /\ (~skewed' => Matches(in')) /\ Place(in') = upto' /\ upto' = upto
<1>1. b \in InBuffers /\ b.start \in Nat /\ Len(b.buf) \in Nat /\ b.start <= Len(b.buf)
      /\ upto \in Nat
  BY LenProperties DEF Fits, InBuffers, InOrder
<1>2. b = [b EXCEPT !.start = @ + 0] /\ 0 \in Nat /\ 0 <= Len(b.buf) - b.start
      /\ upto + 0 = upto
  BY <1>1 DEF InBuffers
<1>. QED
  BY <1>2, PassedOn

(* Every call, and every round of one, keeps the order. *)
LEMMA InBufferKeeps ==
    ASSUME InBufferInv, IB!Next
    PROVE  InBufferInv'
<1>1. data \in Seq(InBytes) /\ Len(data) \in Nat
  BY LenProperties DEF InBufferInv
<1>2. data' = data
  BY DEF IB!Next, IB!Get, IB!CallRead, IB!Read, IB!LargeFromBuffer, IB!LargeFromFile,
      IB!CallGetline, IB!Getline, IB!Seek, IB!Passed, data
<1>3. SUFFICES
        ASSUME ~stale'
        PROVE  /\ Fits(in') /\ (~skewed' => Matches(in')) /\ Place(in') = upto'
               /\ want' \in Nat /\ from' \in Nat /\ upto' \in Nat /\ got' \in Seq(InBytes)
               /\ from' + Len(got') <= upto'
               /\ got' = Segment(data, from', Len(got'))
               /\ call' # "none" => upto' = from' + Len(got')
               /\ call' = "line" => want' = 0
               /\ call' = "direct" /\ want' > 0 => in'.start = Len(in'.buf)
               /\ call' = "none" /\ want' > 0 => in'.err \/ upto' >= Len(data)
  BY <1>1, <1>2, Zenon DEF InBufferInv, InOrder, Fits, Matches, Place
<1>4. ~stale
  <2>1. CASE IB!Seek
    <3>1. \E x : stale' = (stale \/ x)
      BY <2>1 DEF IB!Seek, stale
    <3>. QED
      BY <1>3, <3>1, Zenon
  <2>2. CASE ~IB!Seek
    <3>1. stale' = stale
      BY <2>2 DEF IB!Next, IB!Get, IB!CallRead, IB!Read, IB!LargeFromBuffer, IB!LargeFromFile,
          IB!CallGetline, IB!Getline, IB!Passed, stale
    <3>. QED
      BY <1>3, <3>1
  <2>. QED
    BY <2>1, <2>2
<1>5. InOrder
  BY <1>4 DEF InBufferInv
<1>6. /\ Fits(in) /\ (~skewed => Matches(in)) /\ Place(in) = upto
      /\ want \in Nat /\ from \in Nat /\ upto \in Nat /\ got \in Seq(InBytes)
      /\ from + Len(got) <= upto /\ Len(got) \in Nat
      /\ got = Segment(data, from, Len(got))
      /\ call # "none" => upto = from + Len(got)
      /\ call = "line" => want = 0
      /\ call = "direct" /\ want > 0 => in.start = Len(in.buf)
      /\ call = "none" /\ want > 0 => in.err \/ upto >= Len(data)
  BY <1>5, LenProperties DEF InOrder
<1>7. <<>> \in Seq(InBytes) /\ Len(<<>>) = 0 /\ \A a \in Nat : <<>> = Segment(data, a, 0)
  BY EmptySeq, SegmentNone
<1>8. in \in InBuffers /\ in.buf \in Seq(InBytes) /\ Len(in.buf) \in Nat /\ in.start \in Nat
      /\ in.offset \in Nat /\ in.start <= Len(in.buf) /\ Len(in.buf) <= in.offset
      /\ in.offset <= Len(data)
  BY <1>6, LenProperties DEF Fits, InBuffers
<1>9. ASSUME call # "none", NEW n \in Nat, upto + n <= Len(data),
             got' = got \o Segment(data, upto, n)
      PROVE  /\ got' \in Seq(InBytes) /\ got' = Segment(data, from, Len(got'))
             /\ upto + n = from + Len(got')
  <2>1. upto = from + Len(got) /\ from + Len(got) + n <= Len(data)
    BY <1>6, <1>9
  <2> DEFINE h == got \o Segment(data, from + Len(got), n)
  <2>2. h \in Seq(InBytes) /\ Len(h) = Len(got) + n /\ h = Segment(data, from, Len(h))
    BY <1>1, <1>6, <2>1, GotOn
  <2>3. got' = h
    BY <1>9, <2>1
  <2>4. upto + n = from + (Len(got) + n)
    BY <1>6, <2>1
  <2> HIDE DEF h
  <2>. QED
    BY <2>2, <2>3, <2>4
<1>10. CASE IB!Get
  <2>1. PICK b \in IB!Refilled :
          /\ from' = upto /\ want' = 0
          /\ IF (b.eof /\ b.start >= Len(b.buf)) \/ b.err
             THEN in' = b /\ got' = <<>> /\ IB!Passed(0)
             ELSE /\ in' = [b EXCEPT !.start = @ + 1]
                  /\ got' = <<b.buf[b.start + 1]>> /\ IB!Passed(1)
    BY <1>10 DEF IB!Get, IB!Eof, from, upto, want, in, got
  <2>2. call' = "none"
    BY <1>10 DEF IB!Get, call
  <2>3. /\ Fits(b) /\ Place(b) = upto /\ (b = in \/ Matches(b))
        /\ b.start < Len(b.buf) \/ b.err \/ b.eof
    BY <1>1, <1>6, RefilledIs
  <2>4. b.buf \in Seq(InBytes) /\ b.start \in Nat /\ Len(b.buf) \in Nat
        /\ b.start <= Len(b.buf)
    BY <2>3, LenProperties DEF Fits, InBuffers
  <2>5. CASE (b.eof /\ b.start >= Len(b.buf)) \/ b.err
    <3>1. in' = b /\ got' = <<>> /\ IB!Passed(0)
      BY <2>1, <2>5
    <3>2. Fits(in') /\ (~skewed' => Matches(in')) /\ Place(in') = upto' /\ upto' = upto
      BY <1>1, <1>5, <2>3, <3>1, NonePassed
    <3>. QED
      BY <1>6, <1>7, <2>1, <2>2, <3>1, <3>2
  <2>6. CASE ~((b.eof /\ b.start >= Len(b.buf)) \/ b.err)
    <3>1. in' = [b EXCEPT !.start = @ + 1] /\ got' = <<b.buf[b.start + 1]>> /\ IB!Passed(1)
      BY <2>1, <2>6
    <3>2. 1 \in Nat /\ 1 <= Len(b.buf) - b.start
      BY <2>3, <2>4, <2>6
    <3>3. /\ Fits(in') /\ (~skewed' => Matches(in')) /\ Place(in') = upto'
          /\ upto' = upto + 1 /\ upto' \in Nat
      BY <1>1, <1>5, <2>3, <3>1, <3>2, PassedOn
    <3>4. got' = Segment(data, upto, 1) /\ got' \in Seq(InBytes) /\ Len(got') = 1
      <4> DEFINE s == Segment(b.buf, b.start, 1)
      <4>1. s = Segment(data, upto, 1) /\ upto + 1 <= Len(data)
        BY <1>1, <2>3, <3>2, NextOfFile DEF Segment
      <4>2. s \in Seq(InBytes) /\ Len(s) = 1 /\ s[1] = b.buf[b.start + 1]
        <5>1. b.start + 1 <= Len(b.buf) /\ 1 \in Nat
          BY <2>4, <3>2
        <5>2. s \in Seq(InBytes) /\ Len(s) = 1 /\ \A i \in 1..1 : s[i] = b.buf[b.start + i]
          <6> DEFINE w == b.buf
                     k == b.start
          <6>1. w \in Seq(InBytes) /\ k \in Nat /\ k + 1 <= Len(w)
            BY <2>4, <5>1
          <6> HIDE DEF w, k
          <6>2. /\ Segment(w, k, 1) \in Seq(InBytes) /\ Len(Segment(w, k, 1)) = 1
                /\ \A i \in 1..1 : Segment(w, k, 1)[i] = w[k + i]
            BY <5>1, <6>1, SegmentIs
          <6>. QED
            BY <6>2 DEF w, k
        <5> HIDE DEF s
        <5>3. s[1] = b.buf[b.start + 1]
          BY <5>2
        <5>. QED
          BY <5>2, <5>3
      <4> HIDE DEF s
      <4>3. <<b.buf[b.start + 1]>> = s
        <5> DEFINE x == b.buf[b.start + 1]
        <5>1. x \in InBytes
          <6>1. b.start + 1 \in 1..Len(b.buf)
            BY <2>4, <3>2
          <6>. QED
            BY <2>4, <6>1, ElementOfSeq
        <5> HIDE DEF x
        <5>2. <<x>> \in Seq(InBytes) /\ Len(<<x>>) = 1 /\ <<x>>[1] = x
          BY <5>1
        <5>3. \A i \in 1..Len(s) : s[i] = <<x>>[i]
          BY <4>2, <5>2 DEF x
        <5>. QED
          BY <4>2, <5>2, <5>3, SeqEqual DEF x
      <4>. QED
        BY <3>1, <4>1, <4>2, <4>3
    <3>5. from' + Len(got') = upto' /\ got' = Segment(data, from', Len(got'))
      BY <1>6, <2>1, <3>3, <3>4
    <3>. QED
      BY <1>6, <2>1, <2>2, <3>3, <3>4, <3>5
  <2>. QED
    BY <2>5, <2>6
<1>11. CASE IB!CallRead
  <2>1. PICK n \in 1..InMaxLen :
          call' = (IF n >= InSize THEN "large" ELSE "read") /\ want' = n /\ got' = <<>>
          /\ from' = upto
    BY <1>11 DEF IB!CallRead, IB!Begin, call, want, got, from, upto
  <2>2. UNCHANGED <<in, upto, skewed>>
    BY <1>11 DEF IB!CallRead, in, upto, skewed
  <2>3. want' \in Nat /\ call' \notin {"none", "line", "direct"}
    BY <2>1, InSizes
  <2>. QED
    BY <1>6, <1>7, <2>1, <2>2, <2>3
<1>12. CASE IB!Read
  <2>1. from' = from /\ call = "read"
    BY <1>12 DEF IB!Read, from, call
  <2>2. CASE want = 0 \/ (in.eof /\ in.start >= Len(in.buf))
    <3>1. call' = "none" /\ UNCHANGED <<in, want, got>> /\ IB!Passed(0)
      BY <1>12, <2>2 DEF IB!Read, IB!Eof, in, want, got, call
    <3>2. Fits(in') /\ (~skewed' => Matches(in')) /\ Place(in') = upto' /\ upto' = upto
      BY <1>1, <1>5, <1>6, <3>1, NonePassed
    <3>3. want > 0 => upto = Len(data)
      BY <1>6, <1>8, <2>2 DEF Fits, Place
    <3>. QED
      BY <1>1, <1>6, <2>1, <3>1, <3>2, <3>3
  <2>3. CASE ~(want = 0 \/ (in.eof /\ in.start >= Len(in.buf)))
    <3>1. PICK b \in IB!Refilled :
            LET left == Len(b.buf) - b.start
                n == IF left < want THEN left ELSE want
            IN IB!Take(b, n) /\ want' = want - n /\ IB!Passed(n)
      BY <1>12, <2>3 DEF IB!Read, IB!Eof, in, want
    <3> DEFINE left == Len(b.buf) - b.start
               n == IF left < want THEN left ELSE want
    <3>2. Fits(b) /\ Place(b) = upto /\ (b = in \/ Matches(b))
      BY <1>1, <1>6, RefilledIs
    <3>3. n \in Nat /\ n <= Len(b.buf) - b.start /\ n <= want
      BY <1>6, <3>2, LenProperties DEF Fits, InBuffers
    <3>4. /\ in' = [b EXCEPT !.start = @ + n] /\ want' = want - n /\ IB!Passed(n)
          /\ got' = got \o SubSeq(b.buf, b.start + 1, b.start + n) /\ call' = call
      BY <1>12, <2>3, <3>1 DEF IB!Take, IB!Read, IB!Eof, in, want, got, call
    <3> HIDE DEF n
    <3>5. /\ Fits(in') /\ (~skewed' => Matches(in')) /\ Place(in') = upto'
          /\ upto' = upto + n /\ upto' \in Nat
      BY <1>1, <1>5, <3>2, <3>3, <3>4, PassedOn
    <3>6. got' = got \o Segment(data, upto, n) /\ upto + n <= Len(data)
      BY <1>1, <3>2, <3>3, <3>4, NextOfFile
    <3>7. /\ got' \in Seq(InBytes) /\ got' = Segment(data, from, Len(got'))
          /\ upto + n = from + Len(got')
      BY <1>9, <2>1, <3>3, <3>6
    <3>8. want' \in Nat /\ call' = "read"
      BY <1>6, <2>1, <3>3, <3>4
    <3>. QED
      BY <1>6, <2>1, <3>5, <3>7, <3>8
  <2>. QED
    BY <2>2, <2>3
<1>13. CASE IB!LargeFromBuffer
  <2>1. from' = from /\ call = "large" /\ call' = "direct"
    BY <1>13 DEF IB!LargeFromBuffer, from, call
  <2> DEFINE left == Len(in.buf) - in.start
             n == IF left < want THEN left ELSE want
  <2>2. Len(IB!Left) = left
    <3>1. in.start + left <= Len(in.buf) /\ left \in Nat /\ in.start + left = Len(in.buf)
      BY <1>8
    <3>2. Len(Segment(in.buf, in.start, left)) = left
      BY <1>8, <3>1, SegmentIs
    <3>. QED
      BY <3>1, <3>2 DEF Segment, IB!Left, in
  <2>3. /\ in' = [in EXCEPT !.start = @ + n] /\ want' = want - n /\ IB!Passed(n)
        /\ got' = got \o SubSeq(in.buf, in.start + 1, in.start + n)
    BY <1>13, <2>2 DEF IB!LargeFromBuffer, IB!Take, in, want, got
  <2>4. n \in Nat /\ n <= Len(in.buf) - in.start /\ n <= want
        /\ (want - n > 0 => in.start + n = Len(in.buf))
    BY <1>6, <1>8
  <2> HIDE DEF n
  <2>5. /\ Fits(in') /\ (~skewed' => Matches(in')) /\ Place(in') = upto'
        /\ upto' = upto + n /\ upto' \in Nat
    BY <1>1, <1>5, <1>6, <2>3, <2>4, PassedOn
  <2>6. got' = got \o Segment(data, upto, n) /\ upto + n <= Len(data)
    BY <1>1, <1>6, <2>3, <2>4, NextOfFile
  <2>7. /\ got' \in Seq(InBytes) /\ got' = Segment(data, from, Len(got'))
        /\ upto + n = from + Len(got')
    BY <1>9, <2>1, <2>4, <2>6
  <2>8. want' \in Nat
    BY <1>6, <2>3, <2>4
  <2>9. want' > 0 => in'.start = Len(in'.buf)
    <3>1. in'.start = in.start + n /\ in'.buf = in.buf
      <4>1. in.start + n \in Nat
        BY <1>8, <2>4
      <4>. QED
        BY <1>8, <2>3, <4>1 DEF InBuffers
    <3>. QED
      BY <2>3, <2>4, <3>1
  <2>. QED
    BY <1>6, <2>1, <2>5, <2>7, <2>8, <2>9
<1>14. CASE IB!LargeFromFile
  <2>1. from' = from /\ call = "direct"
    BY <1>14 DEF IB!LargeFromFile, from, call
  <2>2. CASE want = 0
    <3>1. call' = "none" /\ UNCHANGED <<in, want, got, upto, skewed>>
      BY <1>14, <2>2 DEF IB!LargeFromFile, in, want, got, call, upto, skewed
    <3>. QED
      BY <1>6, <2>1, <2>2, <3>1
  <2>3. CASE want # 0
    <3>1. PICK b \in IB!KernelRead(in, want) :
            LET n == b.offset - in.offset IN
            /\ in' = b /\ want' = want - n /\ upto' = upto + n
            /\ got' = got \o SubSeq(data, in.offset + 1, b.offset)
            /\ skewed' = (skewed \/ (n > 0 /\ in.buf # <<>>))
            /\ call' = IF n = 0 THEN "none" ELSE call
      BY <1>14, <2>3 DEF IB!LargeFromFile, in, want, got, call, upto, skewed, data
    <3> DEFINE n == b.offset - in.offset
    <3>2. /\ b \in InBuffers /\ b.buf = in.buf /\ b.start = in.start
          /\ in.offset <= b.offset /\ b.offset <= Len(data) /\ n <= want
          /\ (b.offset = in.offset => b.err \/ b.eof)
          /\ (b.eof => in.eof \/ b.offset = Len(data))
      BY <1>1, <1>6, <1>8, KernelReadIs
    <3>3. b.offset \in Nat /\ n \in Nat /\ in.offset + n = b.offset
      BY <1>8, <3>2 DEF InBuffers
    <3>4. in.start = Len(in.buf) /\ upto = in.offset
      BY <1>6, <1>8, <2>1, <2>3 DEF Place
    <3>5. (in.eof => in.offset = Len(data))
      BY <1>6 DEF Fits
    <3>6. b.eof => b.offset = Len(data)
      BY <1>1, <1>8, <3>2, <3>3, <3>5
    <3>7. Fits(b) /\ Place(b) = upto + n
      BY <1>8, <3>2, <3>3, <3>4, <3>6 DEF Fits, Place
    <3>8. ~skewed' => Matches(b)
      <4>1. ASSUME ~skewed' PROVE ~skewed /\ ~(n > 0 /\ in.buf # <<>>)
        BY <3>1, <4>1, Zenon
      <4>2. CASE n = 0 /\ Matches(in)
        BY <1>8, <3>2, <3>3, <4>2 DEF Matches
      <4>3. CASE in.buf = <<>>
        BY <1>7, <3>2, <3>3, <4>3 DEF Matches
      <4>. QED
        BY <1>6, <3>3, <4>1, <4>2, <4>3
    <3>9. got' = got \o Segment(data, upto, n) /\ upto + n <= Len(data)
      BY <3>1, <3>2, <3>3, <3>4 DEF Segment
    <3>10. /\ in' = b /\ want' = want - n /\ upto' = upto + n
           /\ call' = IF n = 0 THEN "none" ELSE call
      BY <3>1
    <3> HIDE DEF n
    <3>11. /\ got' \in Seq(InBytes) /\ got' = Segment(data, from, Len(got'))
           /\ upto + n = from + Len(got')
      BY <1>9, <2>1, <3>3, <3>9
    <3>12. want' \in Nat /\ upto' \in Nat
      BY <1>6, <3>2, <3>3, <3>10 DEF n
    <3>13. n = 0 => b.err \/ upto' >= Len(data)
      BY <1>1, <1>6, <1>8, <3>2, <3>3, <3>4, <3>6, <3>10
    <3>. QED
      BY <1>6, <2>1, <3>2, <3>4, <3>7, <3>8, <3>10, <3>11, <3>12, <3>13
  <2>. QED
    BY <2>2, <2>3
<1>15. CASE IB!CallGetline
  <2>1. PICK b \in IB!Refilled :
          in' = b /\ want' = 0 /\ got' = <<>> /\ from' = upto /\ call' \in {"none", "line"}
    <3>1. call = "none"
      BY <1>15 DEF IB!CallGetline, call
    <3>. QED
      BY <1>15, <3>1 DEF IB!CallGetline, IB!Begin, in, want, got, from, upto, call
  <2>2. IB!Passed(0)
    BY <1>15 DEF IB!CallGetline
  <2>3. Fits(b) /\ Place(b) = upto /\ (b = in \/ Matches(b))
    BY <1>1, <1>6, RefilledIs
  <2>4. Fits(in') /\ (~skewed' => Matches(in')) /\ Place(in') = upto' /\ upto' = upto
    BY <1>1, <1>5, <2>1, <2>2, <2>3, NonePassed
  <2>. QED
    BY <1>6, <1>7, <2>1, <2>4
<1>16. CASE IB!Getline
  <2>1. want' = want /\ from' = from /\ call = "line"
    BY <1>16 DEF IB!Getline, want, from, call
  <2> DEFINE left == Len(in.buf) - in.start
  <2>2. left \in Nat /\ in.start + left = Len(in.buf)
    BY <1>8
  <2>3. IB!Left = Segment(data, upto, left) /\ upto + left <= Len(data)
    BY <1>1, <1>6, <2>2, NextOfFile DEF IB!Left, in
  <2>4. CASE (in.eof /\ in.start >= Len(in.buf)) \/ in.err
    <3>1. call' = "none" /\ UNCHANGED <<in, got>> /\ IB!Passed(0)
      BY <1>16, <2>4 DEF IB!Getline, IB!Eof, in, got, call
    <3>2. Fits(in') /\ (~skewed' => Matches(in')) /\ Place(in') = upto' /\ upto' = upto
      BY <1>1, <1>5, <1>6, <3>1, NonePassed
    <3>. QED
      BY <1>6, <2>1, <3>1, <3>2
  <2> DEFINE ends == {i \in DOMAIN IB!Left : IB!Left[i] = Terminator}
  <2>5. CASE ~((in.eof /\ in.start >= Len(in.buf)) \/ in.err) /\ ends # {}
    <3> DEFINE n == CHOOSE i \in ends : \A j \in ends : i <= j
    <3>1. IB!Left \in Seq(InBytes) /\ Len(IB!Left) = left /\ DOMAIN IB!Left = 1..left
      BY <1>1, <1>6, <2>2, <2>3, SegmentIs, LenProperties
    <3>2. n \in 1..left
      <4>1. ends \subseteq Nat /\ ends \subseteq 1..left
        BY <3>1
      <4> HIDE DEF ends
      <4>2. \E i \in ends : \A j \in ends : i <= j
        BY <2>5, <4>1, LeastOf
      <4>. QED
        BY <4>1, <4>2
    <3>3. /\ got' = got \o SubSeq(IB!Left, 1, n - 1) /\ in' = [in EXCEPT !.start = @ + n]
          /\ call' = "none" /\ IB!Passed(n)
      BY <1>16, <2>5 DEF IB!Getline, IB!Eof, in, got, call
    <3> HIDE DEF n, ends
    <3>4. n \in Nat /\ n <= Len(in.buf) - in.start /\ n - 1 \in Nat
      BY <2>2, <3>2
    <3>5. /\ Fits(in') /\ (~skewed' => Matches(in')) /\ Place(in') = upto'
          /\ upto' = upto + n /\ upto' \in Nat
      BY <1>1, <1>5, <1>6, <3>3, <3>4, PassedOn
    <3>6. SubSeq(IB!Left, 1, n - 1) = Segment(data, upto, n - 1)
      <4>1. 0 \in Nat /\ 0 + (n - 1) <= left /\ 0 + 1 = 1 /\ 0 + (n - 1) = n - 1
            /\ upto + 0 = upto
        BY <1>6, <2>2, <3>2, <3>4
      <4>2. Segment(Segment(data, upto, left), 0, n - 1) = Segment(data, upto + 0, n - 1)
        BY <1>1, <1>6, <2>2, <2>3, <3>4, <4>1, SegmentPart
      <4>3. Segment(IB!Left, 0, n - 1) = SubSeq(IB!Left, 1, n - 1)
        BY <4>1 DEF Segment
      <4>. QED
        BY <2>3, <4>1, <4>2, <4>3
    <3>7. upto + (n - 1) <= Len(data)
      BY <1>1, <1>6, <2>2, <2>3, <3>2
    <3>8. /\ got' \in Seq(InBytes) /\ got' = Segment(data, from, Len(got'))
          /\ upto + (n - 1) = from + Len(got')
      BY <1>9, <2>1, <3>3, <3>4, <3>6, <3>7
    <3>9. from + Len(got') <= upto'
      BY <1>6, <3>4, <3>5, <3>8
    <3>. QED
      BY <1>6, <2>1, <3>3, <3>5, <3>8, <3>9
  <2>6. CASE ~((in.eof /\ in.start >= Len(in.buf)) \/ in.err) /\ ends = {}
    <3> DEFINE c == [in EXCEPT !.start = Len(in.buf)]
    <3>1. /\ got' = got \o IB!Left /\ in' \in IB!Refill(c)
          /\ IB!Passed(Len(IB!Left)) /\ call' = call
      BY <1>16, <2>6 DEF IB!Getline, IB!Eof, in, got, call
    <3>2. Len(IB!Left) = left
      BY <1>1, <1>6, <2>2, <2>3, SegmentIs
    <3>3. Fits(c) /\ Place(c) = upto + left /\ c.buf = in.buf /\ c.start = Len(c.buf)
          /\ (Matches(in) => Matches(c))
      <4>1. c = [in EXCEPT !.start = @ + left]
        BY <1>8, <2>2
      <4> HIDE DEF c
      <4>2. left <= Len(in.buf) - in.start
        BY <2>2
      <4>. QED
        BY <1>1, <1>6, <1>8, <2>2, <4>1, <4>2, TakenIs
    <3> HIDE DEF c
    <3>4. Fits(in') /\ Place(in') = Place(c) /\ (in' = c \/ Matches(in'))
      BY <1>1, <3>1, <3>3, RefillIs
    <3>5. upto' = upto + left /\ skewed' = (skewed /\ in'.buf = in.buf)
      BY <3>1, <3>2 DEF IB!Passed, upto, skewed, in
    <3>6. ~skewed' => Matches(in')
      <4>1. CASE ~skewed
        BY <1>6, <3>3, <3>4, <4>1
      <4>2. CASE in'.buf # in.buf
        BY <3>3, <3>4, <4>2
      <4>. QED
        BY <3>5, <4>1, <4>2, Zenon
    <3>7. got' = got \o Segment(data, upto, left)
      BY <2>3, <3>1
    <3> HIDE DEF left
    <3>8. /\ got' \in Seq(InBytes) /\ got' = Segment(data, from, Len(got'))
          /\ upto + left = from + Len(got')
      BY <1>9, <2>1, <2>2, <2>3, <3>7
    <3>9. upto' \in Nat /\ upto' = from + Len(got')
      BY <1>6, <2>2, <3>5, <3>8
    <3>. QED
      BY <1>6, <2>1, <3>1, <3>3, <3>4, <3>5, <3>6, <3>8, <3>9
  <2>. QED
    BY <2>4, <2>5, <2>6
<1>17. CASE IB!Seek
  <2>1. call' = "none"
    BY <1>17 DEF IB!Seek, call
  <2> DEFINE start == in.offset - Len(in.buf)
             inside(o) == o >= start /\ o < in.offset
  <2>2. PICK o \in 0..Len(data) :
          /\ in' = IF inside(o) THEN [in EXCEPT !.start = o - start, !.eof = FALSE]
                   ELSE [in EXCEPT !.buf = <<>>, !.start = 0, !.offset = o, !.eof = FALSE]
          /\ upto' = o /\ from' = o /\ got' = <<>> /\ want' = 0
          /\ stale' = (stale \/ (inside(o) /\ skewed))
    BY <1>17 DEF IB!Seek, IB!BufStart, data, in, upto, from, got, want, stale, skewed
  <2>3. o \in Nat /\ o <= Len(data) /\ start \in Nat
    BY <1>1, <1>8
  <2>4. CASE inside(o)
    <3>1. in' = [in EXCEPT !.start = o - start, !.eof = FALSE]
      BY <2>2, <2>4
    <3>2. o - start \in Nat /\ o - start <= Len(in.buf)
      BY <1>8, <2>3, <2>4
    <3>3. Matches(in)
      <4>1. ~skewed
        BY <1>3, <2>2, <2>4, Zenon
      <4>. QED
        BY <1>6, <4>1
    <3> HIDE DEF start
    <3>4. /\ in' \in InBuffers /\ in'.buf = in.buf /\ in'.start = o - start
          /\ in'.offset = in.offset /\ ~in'.eof
      BY <1>8, <3>1, <3>2 DEF InBuffers
    <3>5. Matches(in')
      BY <3>3, <3>4 DEF Matches
    <3>6. Fits(in') /\ Place(in') = o
      BY <1>8, <2>3, <3>2, <3>4, <3>5 DEF Fits, Place, start
    <3>. QED
      BY <1>7, <2>1, <2>2, <2>3, <3>5, <3>6
  <2>5. CASE ~inside(o)
    <3>1. in' = [in EXCEPT !.buf = <<>>, !.start = 0, !.offset = o, !.eof = FALSE]
      BY <2>2, <2>5
    <3>2. /\ in' \in InBuffers /\ in'.buf = <<>> /\ in'.start = 0 /\ in'.offset = o /\ ~in'.eof
      BY <1>7, <1>8, <2>3, <3>1 DEF InBuffers
    <3>3. Matches(in')
      <4>1. o - 0 = o
        BY <2>3
      <4>. QED
        BY <1>7, <2>3, <3>2, <4>1 DEF Matches
    <3>4. Fits(in') /\ Place(in') = o
      BY <1>7, <2>3, <3>2, <3>3 DEF Fits, Place
    <3>. QED
      BY <1>7, <2>1, <2>2, <2>3, <3>3, <3>4
  <2>. QED
    BY <2>4, <2>5
<1>. QED
  BY <1>10, <1>11, <1>12, <1>13, <1>14, <1>15, <1>16, <1>17 DEF IB!Next

LEMMA InBufferInit == Init => InBufferInvariant
<1> SUFFICES ASSUME IB!Init
             PROVE  InBufferInv
  BY DEF Init, InBufferInvariant
<1>1. data \in Seq(InBytes) /\ Len(data) \in Nat
  <2>1. PICK n \in 0..InMaxLen : data \in [1..n -> InBytes]
    BY DEF IB!Init, data
  <2>2. n \in Nat
    BY InSizes
  <2>. QED
    BY <2>1, <2>2, SeqDef, LenProperties
<1>2. /\ in = [buf |-> <<>>, start |-> 0, offset |-> 0, eof |-> FALSE, err |-> FALSE]
      /\ call = "none" /\ want = 0 /\ got = <<>> /\ from = 0 /\ upto = 0
  BY DEF IB!Init, in, call, want, got, from, upto
<1>3. <<>> \in Seq(InBytes) /\ Len(<<>>) = 0 /\ Segment(data, 0, 0) = <<>>
  BY EmptySeq, SegmentNone
<1>4. Fits(in) /\ Matches(in) /\ Place(in) = upto
  BY <1>1, <1>2, <1>3 DEF Fits, Matches, Place, InBuffers
<1>. QED
  BY <1>1, <1>2, <1>3, <1>4 DEF InBufferInv, InOrder

(* Every byte comes once and in order, for any file and a buffer of any    *)
(* size, whatever the kernel reads short (fdibuf).                         *)
THEOREM ReadsInOrder == Spec => []ReadInOrder
<1>1. InBufferInvariant /\ [Next]_<<which, xs>> => InBufferInvariant'
  <2> SUFFICES ASSUME InBufferInvariant, [Next]_<<which, xs>>, which' = "inbuffer"
               PROVE  InBufferInv'
    BY DEF InBufferInvariant
  <2>1. which = "inbuffer" /\ InBufferInv
    BY DEF InBufferInvariant, Next
  <2>2. CASE IB!Next
    BY <2>1, <2>2, InBufferKeeps
  <2>3. CASE UNCHANGED xs
    BY <2>1, <2>3 DEF InBufferInv, InOrder, Fits, Matches, Place, data, in, call, want, got, from, upto, skewed, stale, xs
  <2>. QED
    BY <2>1, <2>2, <2>3 DEF Next
<1>2. InBufferInvariant => ReadInOrder
  <2> SUFFICES ASSUME InBufferInv
               PROVE  IB!ReadInOrder
    BY DEF InBufferInvariant, ReadInOrder
  <2>1. SUFFICES ASSUME ~stale
                 PROVE  /\ got = SubSeq(data, from + 1, from + Len(got)) /\ Place(in) = upto
                        /\ call = "none" /\ want > 0 => in.err \/ upto >= Len(data)
    BY DEF IB!ReadInOrder, IB!Tell, Place, data, in, call, want, got, from, upto, stale
  <2>. QED
    BY <2>1 DEF InBufferInv, InOrder, Segment
<1>. QED
  BY InBufferInit, <1>1, <1>2, PTL DEF Spec

-----------------------------------------------------------------------------
(* Logins. *)

(* The component's own names for its variables. *)
prog == x1
known == x2
pc == x3
pass == x4
acct == x5
uid == x6
cwd == x7
env == x8
maildir == x9
outcome == x10

(* The password given is the account's, and not empty. *)
Proven == pass # None /\ acct.stored.kind # "empty" /\ acct.stored.of = pass

(* From the lookup on there is an account, and the environment has its     *)
(* name; a system user has been let in by checkvpw for its password.       *)
LookedUp ==
    pc \in {"become", "check", "hook", "serve"} =>
        /\ acct \in Accounts /\ env.user = acct.virt
        /\ acct.virt = None => prog = "checkvpw" /\ Proven

(* Once the process has become a user it is the account's, in its home.    *)
Become == pc \in {"check", "hook", "serve"} => uid = acct.base /\ cwd = acct.base

(* After the check a virtual user has given its password.                  *)
Checked ==
    /\ pc = "check" => acct.virt # None
    /\ pc \in {"hook", "serve"} /\ acct.virt # None =>
         /\ Proven /\ acct.has /\ acct.expiry >= Now
         /\ env.of = acct /\ maildir = acct.dir

(* What holds in the course of a login. *)
LoginInv ==
    /\ acct \in Accounts \cup {None}
    /\ env \in [user : {env.user}, of : {env.of}]
    /\ pc # "end" => outcome = None
    /\ LookedUp /\ Become /\ Checked
    /\ LG!OnlyTheRightful

LoginInvariant == which = "login" => LoginInv

USE DEF prog, known, pc, pass, acct, uid, cwd, env, maildir, outcome

LEMMA LoginInit == Init => LoginInvariant
  BY LibraryAssumption
  DEF Init, LG!Init, LoginInvariant, LoginInv, LookedUp, Become, Checked, Proven,
      LG!OnlyTheRightful, LG!LoginAssumption

(* Every step of the three programs, and every failure, keeps it. *)
LEMMA LoginKeeps ==
    ASSUME LoginInv, [LG!Next]_xs
    PROVE  LoginInv'
<1> USE LibraryAssumption
    DEF LoginInv, LookedUp, Become, Checked, Proven, LG!OnlyTheRightful, LG!LoginAssumption,
        LG!Given, LG!Ends, LG!Goes, LG!Fail
<1>1. CASE LG!AuthmodInit
  BY <1>1 DEF LG!AuthmodInit
<1>2. CASE LG!GetData
  BY <1>2 DEF LG!GetData, LG!Asked
<1>3. CASE LG!ParseData
  BY <1>3 DEF LG!ParseData, LG!Asked
<1>4. CASE LG!GetTriple
  BY <1>4 DEF LG!GetTriple, LG!Asked
<1>5. CASE LG!SetDomain
  BY <1>5 DEF LG!SetDomain
<1>6. CASE LG!LookupBase
  <2>1. pc = "lookup" /\ UNCHANGED <<prog, known, pass, acct, uid, cwd, maildir>>
    BY <1>6 DEF LG!LookupBase
  <2>2. CASE acct = None /\ LG!Fail /\ UNCHANGED env
    BY <2>1, <2>2
  <2>3. CASE acct # None /\ env' = [env EXCEPT !.user = acct.virt]
    <3>1. env'.user = acct.virt /\ env' \in [user : {env'.user}, of : {env'.of}]
      BY <2>3
    <3>2. acct.virt # None => LG!Goes("become")
      BY <1>6, <2>3 DEF LG!LookupBase
    <3>3. acct.virt = None =>
            \/ LG!Fail \/ LG!Ends("next") \/ LG!Ends("exit")
            \/ prog = "checkvpw" /\ Proven /\ LG!Goes("become")
      BY <1>6, <2>3 DEF LG!LookupBase, LG!NextModule, LG!CryptCmp
    <3>4. CASE LG!Fail
      BY <2>1, <2>3, <3>1, <3>4
    <3>5. CASE LG!Ends("exit")
      BY <2>1, <2>3, <3>1, <3>5
    <3>6. CASE LG!Ends("next") /\ acct.virt = None
      BY <2>1, <2>3, <3>1, <3>6
    <3>7. CASE LG!Goes("become") /\ (acct.virt = None => prog = "checkvpw" /\ Proven)
      BY <2>1, <2>3, <3>1, <3>7
    <3>. QED
      BY <3>2, <3>3, <3>4, <3>5, <3>6, <3>7
  <2>. QED
    BY <1>6, <2>2, <2>3 DEF LG!LookupBase
<1>7. CASE LG!SetUser
  BY <1>7 DEF LG!SetUser, LG!ChangeUidGid
<1>8. CASE LG!Check
  BY <1>8 DEF LG!Check, LG!CryptCmp
<1>9. CASE LG!PostSetuid
  BY <1>9 DEF LG!PostSetuid
<1>10. CASE LG!SetMaildirArg
  BY <1>10 DEF LG!SetMaildirArg
<1>11. CASE LG!AuthSuccess
  BY <1>11 DEF LG!AuthSuccess, LG!ChangeUidGid
<1>12. CASE LG!PrintInfo
  BY <1>12 DEF LG!PrintInfo
<1>13. CASE UNCHANGED xs
  BY <1>13 DEF xs
<1>. QED
  BY <1>1, <1>2, <1>3, <1>4, <1>5, <1>6, <1>7, <1>8, <1>9, <1>10, <1>11, <1>12, <1>13
  DEF LG!Next

(* Whoever is served has given the password of the account, for any        *)
(* accounts and passwords and any number of failed attempts (checkvpw,     *)
(* vauthenticate, authvmailmgr).                                           *)
THEOREM OnlyOwnersAreServed == Spec => []OnlyTheRightful
<1>1. LoginInvariant /\ [Next]_<<which, xs>> => LoginInvariant'
  <2> SUFFICES ASSUME LoginInvariant, [Next]_<<which, xs>>, which' = "login"
               PROVE  LoginInv'
    BY DEF LoginInvariant
  <2>1. which = "login"
    BY DEF Next
  <2>2. [LG!Next]_xs
    BY <2>1 DEF Next
  <2>. QED
    BY <2>1, <2>2, LoginKeeps DEF LoginInvariant
<1>2. LoginInvariant => OnlyTheRightful
  BY DEF LoginInvariant, LoginInv, OnlyTheRightful
<1>. QED
  BY LoginInit, <1>1, <1>2, PTL DEF Spec

-----------------------------------------------------------------------------
(* Requests, hash tables, passwords, digests, strings and options. *)

DT == INSTANCE TextProofs WITH
        Base <- ByteBase, MaxArgs <- ArgsMax,
        sys <- x1, asked <- x2, by <- x3, msg <- x4, cmd <- x5, user <- x6, stage <- x7,
        Keys <- HashKeys, Values <- HashValues, Hashes <- HashCodes, Primes <- HashSizes,
        hash <- x1, table <- x2, index <- x3, count <- x4, meant <- x5, gapped <- x6,
        Passwords <- CryptWords, Salts <- CryptSalts, SaltMax <- CryptSaltMax,
        DigestLen <- CryptDigestLen, Rounds <- CryptRounds, CryptMax <- CryptKeyMax,
        form <- x1, pass <- x2, stored <- x3, tried <- x4, matches <- x5,
        Strings <- StrNames, Bytes <- StrBytes, Spaces <- StrSpaces, Upper <- StrUpper,
        LowerOf <- StrLower, Step <- StrStep, SlackDiv <- StrSlackDiv, SlackMax <- StrSlackMax,
        Reps <- StrReps, Nil <- StrNil, MaxText <- StrMaxText, MaxOperands <- StrMaxOperands,
        Block <- DigestBlock, WordSize <- DigestWord, Stream <- DigestStream,
        MaxLen <- DigestMaxLen, Longest <- DigestLongest,
        ctx <- x1, given <- x2, mode <- x3, digest <- x4,
        of <- x1, heap <- x2, join <- x3, value <- x4, expr <- x5,
        Opts <- CliOptions, OptWords <- CliWords, Digits <- CliDigits, MaxUses <- CliMaxUses,
        MinOperands <- CliArgsMin, MaxArguments <- CliArgsMax,
        uses <- x1, operands <- x2, argv <- x3, at <- x4, vals <- x5, status <- x6

RequestInvariant == which = "request" => DT!RqInv

(* The requests here are those the theorems are about.                     *)
LEMMA SameRequest ==
    /\ DT!RQ!RequestAssumption
    /\ RQ!Init => DT!RQ!Init
    /\ RQ!Next => DT!RQ!Next
    /\ RQ!RequestAsMeant <=> DT!RQ!RequestAsMeant
<1>1. DT!RQ!RequestAssumption
  BY LibraryAssumption DEF RQ!RequestAssumption, DT!RQ!RequestAssumption
<1>2. RQ!Init = DT!RQ!Init
  BY Zenon DEF RQ!Init, DT!RQ!Init
<1>3. RQ!Next = DT!RQ!Next
  BY Zenon DEF RQ!Next, DT!RQ!Next, RQ!Send, DT!RQ!Send, RQ!Decode, DT!RQ!Decode, RQ!Dispatch,
     DT!RQ!Dispatch, RQ!Find, DT!RQ!Find, RQ!Answer, DT!RQ!Answer, RQ!DecodeData,
     DT!RQ!DecodeData, RQ!DecodeString, DT!RQ!DecodeString, RQ!FoldLeft, DT!RQ!FoldLeft,
     RQ!MapThenFoldSet, DT!RQ!MapThenFoldSet, RQ!Max, DT!RQ!Max, RQ!EncodeInt, DT!RQ!EncodeInt,
     RQ!EncodeString, DT!RQ!EncodeString, RQ!Encoded, DT!RQ!Encoded, RQ!FlattenSeq,
     DT!RQ!FlattenSeq, RQ!BuildMsg, DT!RQ!BuildMsg, RQ!PythonMsg, DT!RQ!PythonMsg, RQ!PhpMsg,
     DT!RQ!PhpMsg, RQ!FindVirtual, DT!RQ!FindVirtual, RQ!LookupBaseuser, DT!RQ!LookupBaseuser,
     RQ!Lower, DT!RQ!Lower, RQ!Dash, DT!RQ!Dash, RQ!Dot, DT!RQ!Dot
<1>4. RQ!RequestAsMeant = DT!RQ!RequestAsMeant
  BY Zenon DEF RQ!RequestAsMeant, DT!RQ!RequestAsMeant, RQ!FindVirtual, DT!RQ!FindVirtual,
     RQ!Lower, DT!RQ!Lower, RQ!Dash, DT!RQ!Dash, RQ!Dot, DT!RQ!Dot, RQ!IsPrefix, DT!RQ!IsPrefix
<1>. QED
  BY <1>1, <1>2, <1>3, <1>4

(* Whatever a client of any of the three kinds sends is carried out as it  *)
(* was meant or not at all, for any commands, accounts and sizes of bytes  *)
(* and messages (server_call::build_msg, decode_data, dispatch_cmd,        *)
(* find_virtual, lookup_baseuser).                                         *)
THEOREM RequestsAreAsMeant == Spec => []RequestAsMeant
<1>1. Init => RequestInvariant
  BY SameRequest, DT!RqInit DEF Init, RequestInvariant
<1>2. RequestInvariant /\ [Next]_<<which, xs>> => RequestInvariant'
  <2> SUFFICES ASSUME RequestInvariant, [Next]_<<which, xs>>, which' = "request"
               PROVE  DT!RqInv'
    BY DEF RequestInvariant
  <2>1. which = "request"
    BY DEF Next
  <2>2. RQ!Next \/ UNCHANGED xs
    BY <2>1 DEF Next
  <2>3. [DT!RQ!Next]_(DT!RqVars)
    BY <2>2, SameRequest DEF DT!RqVars, xs
  <2>. QED
    BY <2>1, <2>3, SameRequest, DT!RqNext DEF RequestInvariant
<1>3. RequestInvariant => RequestAsMeant
  BY SameRequest, DT!RqMeans DEF RequestInvariant, RequestAsMeant
<1>. QED
  BY <1>1, <1>2, <1>3, PTL DEF Spec

HashInvariant == which = "hashtable" => DT!HtInv

(* The hash tables here are those the theorems are about.                  *)
LEMMA SameHashTable ==
    /\ DT!HT!HashTableAssumption
    /\ HT!Init => DT!HT!Init
    /\ HT!Next => DT!HT!Next
    /\ HT!HashTableIsMap <=> DT!HT!HashTableIsMap
<1>1. DT!HT!HashTableAssumption
  BY LibraryAssumption DEF HT!HashTableAssumption, DT!HT!HashTableAssumption
<1>2. HT!Init = DT!HT!Init
  BY Zenon DEF HT!Init, DT!HT!Init, HT!Empty, DT!HT!Empty
<1>3. HT!Next = DT!HT!Next
  <2>1. \A t, k : HT!Lookup(t, k) = DT!HT!Lookup(t, k)
    BY Zenon DEF HT!Lookup, DT!HT!Lookup, HT!Cardinality, DT!HT!Cardinality
  <2>2. \A h, e, u : HT!BaseInsert(h, e, u) = DT!HT!BaseInsert(h, e, u)
    BY <2>1, Zenon DEF HT!BaseInsert, DT!HT!BaseInsert
  <2>3. \A t, i : HT!Realloc(t, i) = DT!HT!Realloc(t, i)
    BY Zenon DEF HT!Realloc, DT!HT!Realloc, HT!BaseInsert, DT!HT!BaseInsert, HT!Lookup,
       DT!HT!Lookup, HT!Empty, DT!HT!Empty, HT!FoldLeft, DT!HT!FoldLeft, HT!MapThenFoldSet,
       DT!HT!MapThenFoldSet, HT!Max, DT!HT!Max, HT!Cardinality, DT!HT!Cardinality
  <2>4. \A S : HT!Cardinality(S) = DT!HT!Cardinality(S)
    BY Zenon DEF HT!Cardinality, DT!HT!Cardinality
  <2>5. \A k, v, u : HT!Store(k, v, u) = DT!HT!Store(k, v, u)
    BY <2>2, <2>3, <2>4 DEF HT!Store, DT!HT!Store, HT!Oversize, DT!HT!Oversize
  <2>6. HT!RemoveKey = DT!HT!RemoveKey /\ HT!Clear = DT!HT!Clear
    BY <2>1, Zenon DEF HT!RemoveKey, DT!HT!RemoveKey, HT!Clear, DT!HT!Clear, HT!Empty, DT!HT!Empty
  <2>. QED
    BY <2>5, <2>6, Zenon DEF HT!Next, DT!HT!Next, HT!Insert, DT!HT!Insert, HT!Set, DT!HT!Set
<1>4. HT!HashTableIsMap = DT!HT!HashTableIsMap
  BY Zenon DEF HT!HashTableIsMap, DT!HT!HashTableIsMap, HT!Exists, DT!HT!Exists, HT!At,
     DT!HT!At, HT!Lookup, DT!HT!Lookup, HT!Cardinality, DT!HT!Cardinality
<1>. QED
  BY <1>1, <1>2, <1>3, <1>4

(* Until a key is removed a hash table is the map that the calls describe, *)
(* and after that too its searches end and its count is right, for any     *)
(* keys, hash function and growing sizes (hash_table::lookup, base_insert, *)
(* realloc, remove).                                                       *)
THEOREM HashTablesAreMaps == Spec => []HashTableIsMap
<1>1. Init => HashInvariant
  BY SameHashTable, DT!HashTableStarts DEF Init, HashInvariant
<1>2. HashInvariant /\ [Next]_<<which, xs>> => HashInvariant'
  <2> SUFFICES ASSUME HashInvariant, [Next]_<<which, xs>>, which' = "hashtable"
               PROVE  DT!HtInv'
    BY DEF HashInvariant
  <2>1. which = "hashtable"
    BY DEF Next
  <2>2. HT!Next \/ UNCHANGED xs
    BY <2>1 DEF Next
  <2>3. [DT!HT!Next]_(DT!HT!vars)
    BY <2>2, SameHashTable DEF DT!HT!vars, xs
  <2>. QED
    BY <2>1, <2>3, SameHashTable, DT!HashTableSteps DEF HashInvariant
<1>3. HashInvariant => HashTableIsMap
  BY SameHashTable, DT!HashTableMeans DEF HashInvariant, HashTableIsMap
<1>. QED
  BY <1>1, <1>2, <1>3, PTL DEF Spec

PasswordInvariant == which = "crypt" => DT!CrInv

(* The passwords here are those the theorems are about.                    *)
LEMMA SameCrypt ==
    /\ DT!CR!CryptAssumption
    /\ CR!Init => DT!CR!Init
    /\ CR!Next => DT!CR!Next
    /\ CR!OnlyItselfMatches <=> DT!CR!OnlyItselfMatches
<1>1. DT!CR!CryptAssumption
  BY LibraryAssumption DEF CR!CryptAssumption, DT!CR!CryptAssumption
<1>2. CR!Init = DT!CR!Init
  BY Zenon DEF CR!Init, DT!CR!Init, CR!Candidates, DT!CR!Candidates, CR!Chars, DT!CR!Chars,
     CR!Char, DT!CR!Char
<1>3. CR!Next = DT!CR!Next
  <2>1. CR!Prefix = DT!CR!Prefix
    BY Zenon DEF CR!Prefix, DT!CR!Prefix, CR!Chars, DT!CR!Chars, CR!Char, DT!CR!Char
  <2>2. \A s : CR!CStr(s) = DT!CR!CStr(s)
    BY Zenon DEF CR!CStr, DT!CR!CStr, CR!NUL, DT!CR!NUL, CR!Char, DT!CR!Char
  <2>3. \A s : CR!Digest(s) = DT!CR!Digest(s)
    BY Zenon DEF CR!Digest, DT!CR!Digest, CR!DigestByte, DT!CR!DigestByte, CR!FlattenSeq,
       DT!CR!FlattenSeq, CR!FoldLeft, DT!CR!FoldLeft, CR!MapThenFoldSet, DT!CR!MapThenFoldSet
  <2>4. \A s : CR!SaltOf(s) = DT!CR!SaltOf(s)
    BY Zenon DEF CR!SaltOf, DT!CR!SaltOf, CR!SkipPrefix, DT!CR!SkipPrefix, CR!IsPrefix,
       DT!CR!IsPrefix, CR!Prefix, DT!CR!Prefix, CR!Chars, DT!CR!Chars, CR!Char, DT!CR!Char
  <2>5. \A d, n : CR!Cycle(d, n) = DT!CR!Cycle(d, n)
    BY Zenon DEF CR!Cycle, DT!CR!Cycle
  <2>6. \A k : CR!Bits(k) = DT!CR!Bits(k)
    BY Zenon DEF CR!Bits, DT!CR!Bits, CR!NUL, DT!CR!NUL, CR!Char, DT!CR!Char
  <2>7. \A k, s, f : CR!RoundOf(k, s, f) = DT!CR!RoundOf(k, s, f)
    BY Zenon DEF CR!RoundOf, DT!CR!RoundOf, CR!Digest, DT!CR!Digest, CR!DigestByte,
       DT!CR!DigestByte, CR!FlattenSeq, DT!CR!FlattenSeq, CR!FoldLeft, DT!CR!FoldLeft,
       CR!MapThenFoldSet, DT!CR!MapThenFoldSet
  <2>8. \A k, s : CR!Md5Crypt(k, s) = DT!CR!Md5Crypt(k, s)
    BY <2>1, <2>3, <2>4, <2>5, <2>6, <2>7, Zenon DEF CR!Md5Crypt, DT!CR!Md5Crypt, CR!Chars,
       DT!CR!Chars, CR!Char, DT!CR!Char
  <2>9. \A k : CR!OldMd5(k) = DT!CR!OldMd5(k)
    BY <2>3, Zenon DEF CR!OldMd5, DT!CR!OldMd5, CR!OldCode, DT!CR!OldCode, CR!Chars,
       DT!CR!Chars, CR!Char, DT!CR!Char
  <2>10. \A p : CR!NullCrypt(p) = DT!CR!NullCrypt(p)
    BY Zenon DEF CR!NullCrypt, DT!CR!NullCrypt, CR!NullPrefix, DT!CR!NullPrefix, CR!Chars,
       DT!CR!Chars, CR!Char, DT!CR!Char
  <2>11. \A k, s : CR!ExtCrypt(k, s) = DT!CR!ExtCrypt(k, s)
    BY <2>3, Zenon DEF CR!ExtCrypt, DT!CR!ExtCrypt
  <2>12. \A p, s : CR!CryptCmp(p, s) = DT!CR!CryptCmp(p, s)
    BY <2>1, <2>2, <2>8, <2>9, <2>10, <2>11, Zenon DEF CR!CryptCmp, DT!CR!CryptCmp, CR!IsPrefix,
       DT!CR!IsPrefix, CR!OldCode, DT!CR!OldCode, CR!NullPrefix, DT!CR!NullPrefix, CR!Chars,
       DT!CR!Chars, CR!Char, DT!CR!Char
  <2>13. CR!Store = DT!CR!Store
    BY <2>1, <2>2, <2>8, <2>9, <2>10, <2>11, Zenon DEF CR!Store, DT!CR!Store, CR!NewSalt,
       DT!CR!NewSalt, CR!Chars, DT!CR!Chars, CR!Char, DT!CR!Char
  <2>14. CR!Try = DT!CR!Try
    BY <2>12, Zenon DEF CR!Try, DT!CR!Try, CR!Candidates, DT!CR!Candidates, CR!Chars,
       DT!CR!Chars, CR!Char, DT!CR!Char
  <2>. QED
    BY <2>13, <2>14, Zenon DEF CR!Next, DT!CR!Next
<1>4. CR!OnlyItselfMatches = DT!CR!OnlyItselfMatches
  BY Zenon DEF CR!OnlyItselfMatches, DT!CR!OnlyItselfMatches, CR!CStr, DT!CR!CStr, CR!NUL,
     DT!CR!NUL, CR!Char, DT!CR!Char
<1>. QED
  BY <1>1, <1>2, <1>3, <1>4

(* A stored password is matched by itself and by no other, however it is   *)
(* stored, for passwords, salts and digests of any length (crypt_cmp,      *)
(* md5_crypt_r, pwcrypt).                                                  *)
THEOREM PasswordsMatchThemselves == Spec => []OnlyItselfMatches
<1>1. Init => PasswordInvariant
  BY SameCrypt, DT!PasswordStarts DEF Init, PasswordInvariant
<1>2. PasswordInvariant /\ [Next]_<<which, xs>> => PasswordInvariant'
  <2> SUFFICES ASSUME PasswordInvariant, [Next]_<<which, xs>>, which' = "crypt"
               PROVE  DT!CrInv'
    BY DEF PasswordInvariant
  <2>1. which = "crypt"
    BY DEF Next
  <2>2. CR!Next \/ UNCHANGED xs
    BY <2>1 DEF Next
  <2>3. [DT!CR!Next]_(DT!CR!vars)
    BY <2>2, SameCrypt DEF DT!CR!vars, xs
  <2>. QED
    BY <2>1, <2>3, SameCrypt, DT!PasswordSteps DEF PasswordInvariant
<1>3. PasswordInvariant => OnlyItselfMatches
  BY SameCrypt, DT!PasswordMeans DEF PasswordInvariant, OnlyItselfMatches
<1>. QED
  BY <1>1, <1>2, <1>3, PTL DEF Spec

DigestInvariant == which = "digest" => DT!DigestInv

(* The digests here are those the theorems are about. *)
LEMMA SameDigest ==
    /\ DT!DG!DigestAssumption
    /\ DG!Init => DT!DG!Init
    /\ DG!Next => DT!DG!Next
    /\ DG!DigestIsOfTheWhole <=> DT!DG!DigestIsOfTheWhole
<1>1. DT!DG!DigestAssumption
  BY LibraryAssumption DEF DG!DigestAssumption, DT!DG!DigestAssumption
<1>2. DG!Init => DT!DG!Init
  BY DEF DG!Init, DT!DG!Init, DG!NewCtx, DT!DG!NewCtx
<1>3. DG!Next => DT!DG!Next
  <2>1. \A s : /\ DG!Blocks(s) = DT!DG!Blocks(s)
               /\ DG!Whole(s) = DT!DG!Whole(s) /\ DG!Left(s) = DT!DG!Left(s)
    BY DEF DG!Blocks, DT!DG!Blocks, DG!Whole, DT!DG!Whole, DG!Left, DT!DG!Left
  <2>2. \A t, n : DG!Count(t, n) = DT!DG!Count(t, n) /\ DG!Piece(n) = DT!DG!Piece(n)
    BY DEF DG!Count, DT!DG!Count, DG!Piece, DT!DG!Piece
  <2>3. \A s, c : DG!ProcessBlock(s, c) = DT!DG!ProcessBlock(s, c)
    BY <2>1, <2>2 DEF DG!ProcessBlock, DT!DG!ProcessBlock
  <2>4. \A s, c : DG!ProcessBytes(s, c) = DT!DG!ProcessBytes(s, c)
    <3> SUFFICES ASSUME NEW s, NEW c
                 PROVE  DG!ProcessBytes(s, c) = DT!DG!ProcessBytes(s, c)
      OBVIOUS
    <3> DEFINE
          add == IF c.buffer = <<>> THEN 0
                 ELSE IF 2 * DigestBlock - Len(c.buffer) > Len(s) THEN Len(s)
                 ELSE 2 * DigestBlock - Len(c.buffer)
          joined == c.buffer \o SubSeq(s, 1, add)
          rest == SubSeq(s, add + 1, Len(s))
          First(c0, l) == IF Len(joined) > DigestBlock
                          THEN [c0 EXCEPT !.buffer = l] ELSE [c EXCEPT !.buffer = joined]
          g1 == First(DG!ProcessBlock(DG!Whole(joined), c), DG!Left(joined))
          p1 == First(DT!DG!ProcessBlock(DT!DG!Whole(joined), c), DT!DG!Left(joined))
          Last(c0, c2, l) ==
              LET c3 == IF Len(rest) > DigestBlock THEN c2 ELSE c0
                  kept == IF Len(rest) > DigestBlock THEN l ELSE rest
              IN IF kept = <<>> THEN c3 ELSE [c3 EXCEPT !.buffer = kept]
          g2 == DG!ProcessBlock(DG!Whole(rest), g1)
          p2 == DT!DG!ProcessBlock(DT!DG!Whole(rest), p1)
    <3>1. DG!ProcessBytes(s, c) = Last(g1, g2, DG!Left(rest))
      BY Zenon DEF DG!ProcessBytes
    <3>2. DT!DG!ProcessBytes(s, c) = Last(p1, p2, DT!DG!Left(rest))
      BY Zenon DEF DT!DG!ProcessBytes
    <3> HIDE DEF add, joined, rest, First, Last
    <3>3. g1 = p1
      BY <2>1, <2>3, Zenon
    <3> HIDE DEF g1, p1
    <3>4. g2 = p2 /\ DG!Left(rest) = DT!DG!Left(rest)
      <4>1. DG!ProcessBlock(DG!Whole(rest), g1) = DT!DG!ProcessBlock(DT!DG!Whole(rest), p1)
        BY <2>1, <2>3, <3>3, Zenon
      <4>. QED
        BY <2>1, <4>1, Zenon
    <3> HIDE DEF g2, p2
    <3>. QED
      BY <3>1, <3>2, <3>3, <3>4, Zenon
  <2>5. \A n : DG!FillBuf(n) = DT!DG!FillBuf(n) /\ DG!PadLength(n) = DT!DG!PadLength(n)
    BY DEF DG!FillBuf, DT!DG!FillBuf, DG!PadLength, DT!DG!PadLength, DG!LengthField, DT!DG!LengthField,
       DG!Pad, DT!DG!Pad, DG!Zero, DT!DG!Zero
  <2>6. \A t : DG!Bits(t) = DT!DG!Bits(t)
    BY DEF DG!Bits, DT!DG!Bits
  <2>7. \A c : DG!FinishCtx(c) = DT!DG!FinishCtx(c)
    BY <2>2, <2>3, <2>5, <2>6 DEF DG!FinishCtx, DT!DG!FinishCtx
  <2>8. \A c, n : DG!Done(c, n) <=> DT!DG!Done(c, n)
    BY <2>7 DEF DG!Done, DT!DG!Done, DG!NewCtx, DT!DG!NewCtx
  <2>9. DG!ProcessPiece => DT!DG!ProcessPiece
    BY <2>2, <2>4 DEF DG!ProcessPiece, DT!DG!ProcessPiece
  <2>10. DG!Finish => DT!DG!Finish
    BY <2>8 DEF DG!Finish, DT!DG!Finish
  <2>11. DG!ReadStream => DT!DG!ReadStream
    BY <2>2, <2>3, <2>4, <2>8 DEF DG!ReadStream, DT!DG!ReadStream
  <2>. QED
    BY <2>9, <2>10, <2>11 DEF DG!Next, DT!DG!Next
<1>4. DG!DigestIsOfTheWhole <=> DT!DG!DigestIsOfTheWhole
  BY DEF DG!DigestIsOfTheWhole, DT!DG!DigestIsOfTheWhole, DG!Padded, DT!DG!Padded,
     DG!Blocks, DT!DG!Blocks, DG!FillBuf, DT!DG!FillBuf, DG!LengthField, DT!DG!LengthField,
     DG!Pad, DT!DG!Pad, DG!Zero, DT!DG!Zero
<1>. QED
  BY <1>1, <1>2, <1>3, <1>4

(* A message may be cut into pieces anywhere and its length lie anywhere   *)
(* in a block: its digest is that of the whole, for blocks and words of    *)
(* any size and messages of any length (md5_process_bytes, md5_finish_ctx, *)
(* md5_stream).                                                            *)
THEOREM DigestsAreOfTheWhole == Spec => []DigestIsOfTheWhole
<1>1. Init => DigestInvariant
  BY SameDigest, DT!DigestInit DEF Init, DigestInvariant
<1>2. DigestInvariant /\ [Next]_<<which, xs>> => DigestInvariant'
  <2> SUFFICES ASSUME DigestInvariant, [Next]_<<which, xs>>, which' = "digest"
               PROVE  DT!DigestInv'
    BY DEF DigestInvariant
  <2>1. which = "digest"
    BY DEF Next
  <2>2. DG!Next \/ UNCHANGED xs
    BY <2>1 DEF Next
  <2>3. [DT!DG!Next]_(DT!DG!vars)
    BY <2>2, SameDigest DEF DT!DG!vars, xs
  <2>. QED
    BY <2>1, <2>3, SameDigest, DT!DigestKeeps DEF DigestInvariant
<1>3. DigestInvariant => DigestIsOfTheWhole
  BY SameDigest DEF DigestInvariant, DT!DigestInv, DigestIsOfTheWhole
<1>. QED
  BY <1>1, <1>2, <1>3, PTL DEF Spec

StringsInvariant == which = "mystring" => DT!MsInv

(* The strings here are those the theorems are about.                      *)
LEMMA SameMyString ==
    /\ DT!MS!MyStringAssumption
    /\ MS!Init => DT!MS!Init
    /\ MS!Next => DT!MS!Next
    /\ MS!StringsAreValues <=> DT!MS!StringsAreValues
<1>1. DT!MS!MyStringAssumption
  <2>1. \A S : MS!Cardinality(S) = DT!MS!Cardinality(S) /\ MS!IsFiniteSet(S) = DT!MS!IsFiniteSet(S)
    BY Zenon DEF MS!Cardinality, DT!MS!Cardinality, MS!IsFiniteSet, DT!MS!IsFiniteSet
  <2>. QED
    BY <2>1, LibraryAssumption, Zenon DEF MS!MyStringAssumption, DT!MS!MyStringAssumption
<1>2. MS!Init = DT!MS!Init
  BY Zenon DEF MS!Init, DT!MS!Init, MS!Cardinality, DT!MS!Cardinality, MS!Freed, DT!MS!Freed
<1>3. MS!Next = DT!MS!Next
  <2>1. \A h, s : MS!Dup(h, s) = DT!MS!Dup(h, s)
    BY Zenon DEF MS!Dup, DT!MS!Dup, MS!Attach, DT!MS!Attach, MS!Freed, DT!MS!Freed, MS!SizeFor,
       DT!MS!SizeFor
  <2>2. \A h, r : MS!Detach(h, r) = DT!MS!Detach(h, r)
    BY Zenon DEF MS!Detach, DT!MS!Detach, MS!Freed, DT!MS!Freed
  <2>3. \A h, x, s : MS!Assign(h, x, s) = DT!MS!Assign(h, x, s)
    BY <2>1, <2>2, Zenon DEF MS!Assign, DT!MS!Assign
  <2>4. \A x : MS!Text(x) = DT!MS!Text(x)
    BY Zenon DEF MS!Text, DT!MS!Text
  <2>5. \A x, s : MS!RepAppend(x, s) = DT!MS!RepAppend(x, s)
    BY <2>3, Zenon DEF MS!RepAppend, DT!MS!RepAppend
  <2>6. \A x, s : MS!Appended(x, s) = DT!MS!Appended(x, s)
    BY <2>3, <2>4, <2>5, Zenon DEF MS!Appended, DT!MS!Appended
  <2>7. \A s : MS!Rstrip(s) = DT!MS!Rstrip(s)
    BY Zenon DEF MS!Rstrip, DT!MS!Rstrip
  <2>8. \A s : MS!Lstrip(s) = DT!MS!Lstrip(s)
    BY <2>7, Zenon DEF MS!Lstrip, DT!MS!Lstrip, MS!Reverse, DT!MS!Reverse
  <2>9. \A s : MS!Strip(s) = DT!MS!Strip(s)
    BY <2>7, <2>8, Zenon DEF MS!Strip, DT!MS!Strip
  <2>10. \A s : MS!Results(s) = DT!MS!Results(s)
    BY <2>7, <2>8, <2>9, Zenon DEF MS!Results, DT!MS!Results, MS!Lower, DT!MS!Lower, MS!Left,
       DT!MS!Left, MS!Right, DT!MS!Right, MS!Sub, DT!MS!Sub
  <2>11. \A x, y : MS!AssignString(x, y) = DT!MS!AssignString(x, y)
    BY <2>3, <2>4, Zenon DEF MS!AssignString, DT!MS!AssignString
  <2>12. \A x, y : MS!AppendString(x, y) = DT!MS!AppendString(x, y)
    BY <2>4, <2>6, Zenon DEF MS!AppendString, DT!MS!AppendString
  <2>13. \A x, y : MS!Derive(x, y) = DT!MS!Derive(x, y)
    BY <2>3, <2>4, <2>10, Zenon DEF MS!Derive, DT!MS!Derive
  <2>14. \A x : MS!AppendChar(x) = DT!MS!AppendChar(x)
    BY <2>6, Zenon DEF MS!AppendChar, DT!MS!AppendChar
  <2>15. \A x : MS!Renew(x) = DT!MS!Renew(x)
    BY <2>2, Zenon DEF MS!Renew, DT!MS!Renew, MS!Attach, DT!MS!Attach
  <2>16. \A y : MS!Operand(y) = DT!MS!Operand(y)
    BY Zenon DEF MS!Operand, DT!MS!Operand, MS!Attach, DT!MS!Attach
  <2>17. MS!OperandChars = DT!MS!OperandChars
    BY Zenon DEF MS!OperandChars, DT!MS!OperandChars
  <2>18. \A x : MS!AssignJoin(x) = DT!MS!AssignJoin(x)
    BY Zenon DEF MS!AssignJoin, DT!MS!AssignJoin, MS!Dup, DT!MS!Dup, MS!Detach, DT!MS!Detach,
       MS!Attach, DT!MS!Attach, MS!Freed, DT!MS!Freed, MS!SizeFor, DT!MS!SizeFor, MS!Traverse,
       DT!MS!Traverse, MS!FlattenSeq, DT!MS!FlattenSeq, MS!FoldLeft, DT!MS!FoldLeft,
       MS!MapThenFoldSet, DT!MS!MapThenFoldSet, MS!Max, DT!MS!Max
  <2>19. MS!Fits' = DT!MS!Fits'
    BY Zenon DEF MS!Fits, DT!MS!Fits, MS!MapThenFoldSet, DT!MS!MapThenFoldSet
  <2>. QED
    BY <2>11, <2>12, <2>13, <2>14, <2>15, <2>16, <2>17, <2>18, <2>19,
       Zenon DEF MS!Next, DT!MS!Next
<1>4. MS!StringsAreValues = DT!MS!StringsAreValues
  BY Zenon DEF MS!StringsAreValues, DT!MS!StringsAreValues, MS!Text, DT!MS!Text, MS!Traverse,
     DT!MS!Traverse, MS!FlattenSeq, DT!MS!FlattenSeq, MS!FoldLeft, DT!MS!FoldLeft,
     MS!MapThenFoldSet, DT!MS!MapThenFoldSet, MS!Cardinality, DT!MS!Cardinality
<1>. QED
  BY <1>1, <1>2, <1>3, <1>4

(* A string is what it was given, whatever becomes of those that shared    *)
(* its representation, and nothing is freed that is referred to, for any   *)
(* strings, texts and sizes of buffers (mystringrep::dup, append, attach,  *)
(* detach, mystringjoin::traverse).                                        *)
THEOREM StringsAreWhatTheyWereGiven == Spec => []StringsAreValues
<1>1. Init => StringsInvariant
  BY SameMyString, DT!StringsStart DEF Init, StringsInvariant
<1>2. StringsInvariant /\ [Next]_<<which, xs>> => StringsInvariant'
  <2> SUFFICES ASSUME StringsInvariant, [Next]_<<which, xs>>, which' = "mystring"
               PROVE  DT!MsInv'
    BY DEF StringsInvariant
  <2>1. which = "mystring"
    BY DEF Next
  <2>2. MS!Next \/ UNCHANGED xs
    BY <2>1 DEF Next
  <2>3. [DT!MS!Next]_(DT!MS!vars)
    BY <2>2, SameMyString DEF DT!MS!vars, xs
  <2>. QED
    BY <2>1, <2>3, SameMyString, DT!StringsStep DEF StringsInvariant
<1>3. StringsInvariant => StringsAreValues
  BY SameMyString, DT!StringsMean DEF StringsInvariant, StringsAreValues
<1>. QED
  BY <1>1, <1>2, <1>3, PTL DEF Spec

OptionsInvariant == which = "options" => DT!OpInv

(* The options here are those the theorems are about.                      *)
LEMMA SameOptions ==
    /\ DT!OP!OptionsAssumption
    /\ OP!Init => DT!OP!Init
    /\ OP!Next => DT!OP!Next
    /\ OP!OptionsAsMeant <=> DT!OP!OptionsAsMeant
<1>1. DT!OP!OptionsAssumption
  BY LibraryAssumption, Zenon DEF OP!OptionsAssumption, DT!OP!OptionsAssumption,
     OP!Vars, DT!OP!Vars, OP!Settings, DT!OP!Settings, OP!NoLetter, DT!OP!NoLetter,
     OP!NoName, DT!OP!NoName
<1>2. OP!Init = DT!OP!Init
  BY Zenon DEF OP!Init, DT!OP!Init, OP!Defaults, DT!OP!Defaults, OP!Vars, DT!OP!Vars, OP!Type,
     DT!OP!Type, OP!Switches, DT!OP!Switches
<1>3. OP!Next = DT!OP!Next
  <2>1. \A v, o, arg : OP!SetTo(v, o, arg) = DT!OP!SetTo(v, o, arg)
    BY Zenon DEF OP!SetTo, DT!OP!SetTo, OP!Switches, DT!OP!Switches, OP!ToSet, DT!OP!ToSet
  <2>2. \A u : OP!Spelled(u) = DT!OP!Spelled(u)
    BY Zenon DEF OP!Spelled, DT!OP!Spelled, OP!Switches, DT!OP!Switches
  <2>3. OP!WriteUse = DT!OP!WriteUse
    BY Zenon DEF OP!WriteUse, DT!OP!WriteUse, OP!Use, DT!OP!Use, OP!Spelled, DT!OP!Spelled,
       OP!Switches, DT!OP!Switches, OP!Forms, DT!OP!Forms, OP!NoLetter, DT!OP!NoLetter,
       OP!NoName, DT!OP!NoName
  <2>4. OP!WriteOperands = DT!OP!WriteOperands
    BY Zenon DEF OP!WriteOperands, DT!OP!WriteOperands, OP!Option, DT!OP!Option
  <2>5. \A o, arg, n : OP!Take(o, arg, n) = DT!OP!Take(o, arg, n)
    BY <2>1, Zenon DEF OP!Take, DT!OP!Take, OP!Usage, DT!OP!Usage
  <2>6. OP!ParseShort = DT!OP!ParseShort
    BY <2>1, <2>5, Zenon DEF OP!ParseShort, DT!OP!ParseShort, OP!Parsing, DT!OP!Parsing,
       OP!Option, DT!OP!Option, OP!Usage, DT!OP!Usage, OP!Rest, DT!OP!Rest, OP!Switches,
       DT!OP!Switches
  <2>7. OP!ParseLong = DT!OP!ParseLong
    BY <2>5, Zenon DEF OP!ParseLong, DT!OP!ParseLong, OP!Parsing, DT!OP!Parsing, OP!Option,
       DT!OP!Option, OP!Usage, DT!OP!Usage, OP!IsPrefix, DT!OP!IsPrefix, OP!NoName,
       DT!OP!NoName, OP!Switches, DT!OP!Switches
  <2>8. OP!Main = DT!OP!Main
    BY Zenon DEF OP!Main, DT!OP!Main, OP!Option, DT!OP!Option
  <2>. QED
    BY <2>3, <2>4, <2>6, <2>7, <2>8, Zenon DEF OP!Next, DT!OP!Next
<1>4. OP!OptionsAsMeant = DT!OP!OptionsAsMeant
  BY Zenon DEF OP!OptionsAsMeant, DT!OP!OptionsAsMeant, OP!SetTo, DT!OP!SetTo, OP!Defaults,
     DT!OP!Defaults, OP!Vars, DT!OP!Vars, OP!Type, DT!OP!Type, OP!Switches, DT!OP!Switches,
     OP!ToSet, DT!OP!ToSet, OP!FoldLeft, DT!OP!FoldLeft, OP!MapThenFoldSet,
     DT!OP!MapThenFoldSet, OP!Max, DT!OP!Max
<1>. QED
  BY <1>1, <1>2, <1>3, <1>4

(* In whatever forms the options are written, the program starts with what *)
(* was meant, for any options, words and numbers of operands, and shows    *)
(* its usage only for a number that is none or operands too few or too     *)
(* many (parse_short, parse_long, parse_args, main).                       *)
THEOREM OptionsAreAsMeant == Spec => []OptionsAsMeant
<1>1. Init => OptionsInvariant
  BY SameOptions, DT!OptionsStart DEF Init, OptionsInvariant
<1>2. OptionsInvariant /\ [Next]_<<which, xs>> => OptionsInvariant'
  <2> SUFFICES ASSUME OptionsInvariant, [Next]_<<which, xs>>, which' = "options"
               PROVE  DT!OpInv'
    BY DEF OptionsInvariant
  <2>1. which = "options"
    BY DEF Next
  <2>2. OP!Next \/ UNCHANGED xs
    BY <2>1 DEF Next
  <2>3. [DT!OP!Next]_(DT!OP!vars)
    BY <2>2, SameOptions DEF DT!OP!vars, xs
  <2>. QED
    BY <2>1, <2>3, SameOptions, DT!OptionsStep DEF OptionsInvariant
<1>3. OptionsInvariant => OptionsAsMeant
  BY SameOptions, DT!OptionsMean DEF OptionsInvariant, OptionsAsMeant
<1>. QED
  BY <1>1, <1>2, <1>3, PTL DEF Spec

=============================================================================
