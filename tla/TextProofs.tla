----------------------------- MODULE TextProofs -----------------------------
(***************************************************************************)
(* What the library makes of text: a string is what it was given, whoever  *)
(* else shares its representation, and the options of a command line are   *)
(* read as they were meant, in whatever form they are written.             *)
(*                                                                         *)
(* Induction over data, folds and parts of sequences are those of          *)
(* DataProofs.                                                             *)
(***************************************************************************)
EXTENDS DataProofs

CONSTANTS
    Strings, Bytes, Spaces, Upper, LowerOf, Step, SlackDiv, SlackMax, \* MyString
    Reps, Nil, MaxText, MaxOperands,
    Opts, OptWords, Digits, MaxUses, MinOperands, MaxArguments        \* Options

VARIABLES
    of, heap, join, value, expr,            \* MyString
    uses, operands, argv, at, vals, status  \* Options

MS == INSTANCE MyString
OP == INSTANCE Options WITH
        Words <- OptWords, MinArgs <- MinOperands, MaxArgs <- MaxArguments

-----------------------------------------------------------------------------
(* Strings *)

(* Characters, and what tolower() makes of them.                           *)
Letters == Bytes \cup {LowerOf[c] : c \in Upper}

(* The representations, the heaps of them, and the expressions.            *)
AllReps == Reps \cup {Nil}
Heaps == [AllReps -> [buf : Seq(Letters), size : Nat, refs : Nat]]
Operands == [rep : AllReps \cup {None}, chars : Seq(Letters)]
Joins == Seq(Operands)

(* How many of the strings, and of the operands from the k-th on, refer to *)
(* r; how many references there are to each.                               *)
OfStrings(o, r) == Cardinality({x \in Strings : o[x] = r})
Holders(j, k, r) == {i \in k..Len(j) : j[i].rep = r}
OfOperands(j, k, r) == Cardinality(Holders(j, k, r))
Held(o, j, k) == [r \in AllReps |-> OfStrings(o, r) + OfOperands(j, k, r) + (IF r = Nil THEN 1 ELSE 0)]

(* A heap with the references that c counts.                               *)
HeapOf(h, c) ==
    /\ h \in Heaps /\ c \in [AllReps -> Nat]
    /\ c[Nil] > 0 /\ h[Nil].buf = <<>>
    /\ \A r \in AllReps :
         /\ h[r].refs = c[r]
         /\ c[r] = 0 => h[r] = MS!Freed
         /\ c[r] > 0 => Len(h[r].buf) < h[r].size

(* No text that c has a reference to has changed.                          *)
SameTexts(h, g, c) == \A r \in AllReps : c[r] > 0 => g[r].buf = h[r].buf

(* What the assumption says of representations and their number.           *)
LEMMA MsSizes ==
    ASSUME MS!MyStringAssumption
    PROVE  /\ Step \in Nat \ {0} /\ SlackDiv \in Nat \ {0} /\ SlackMax \in Nat /\ MaxOperands \in Nat
           /\ Nil \notin Reps /\ None \notin AllReps /\ IsFiniteSet(Reps) /\ IsFiniteSet(Strings)
           /\ Cardinality(Reps) > Cardinality(Strings) + MaxOperands
<1>1. \A S : MS!IsFiniteSet(S) <=> IsFiniteSet(S)
  BY DEF MS!IsFiniteSet, IsFiniteSet
<1>2. \A S : MS!Cardinality(S) = Cardinality(S)
  BY DEF MS!Cardinality, Cardinality
<1>. QED
  BY <1>1, <1>2 DEF MS!MyStringAssumption, AllReps

(* The buffer is longer than the text.                                     *)
LEMMA SizeIs ==
    ASSUME MS!MyStringAssumption, NEW n \in Nat
    PROVE  MS!SizeFor(n) \in Nat /\ n < MS!SizeFor(n)
<1>1. Step \in Nat \ {0} /\ SlackDiv \in Nat \ {0} /\ SlackMax \in Nat
  BY MsSizes
<1> DEFINE slack == IF n \div SlackDiv > SlackMax THEN SlackMax ELSE n \div SlackDiv
           size == n + 1 + Step - 1 + slack
<1>2. slack \in Nat
  <2>1. n \div SlackDiv \in Nat
    BY <1>1
  <2>. QED
    BY <1>1, <2>1
<1> HIDE DEF slack
<1>3. size \in Nat /\ size >= n + Step
  BY <1>1, <1>2
<1>4. MS!SizeFor(n) = size - (size % Step)
  BY DEF MS!SizeFor, slack
<1> HIDE DEF size
<1>5. size % Step \in 0..Step - 1
  BY <1>1, <1>3
<1>. QED
  BY <1>1, <1>3, <1>4, <1>5

(* attach() counts one reference more.                                     *)
LEMMA AttachIs ==
    ASSUME NEW h, NEW c, HeapOf(h, c), NEW r \in AllReps, c[r] > 0
    PROVE  /\ HeapOf(MS!Attach(h, r), [c EXCEPT ![r] = @ + 1])
           /\ \A q \in AllReps : MS!Attach(h, r)[q].buf = h[q].buf
<1> DEFINE g == MS!Attach(h, r)
           d == [c EXCEPT ![r] = @ + 1]
<1>1. h \in Heaps /\ c \in [AllReps -> Nat] /\ c[Nil] > 0 /\ h[Nil].buf = <<>>
  BY DEF HeapOf
<1>2. g = [h EXCEPT ![r] = [h[r] EXCEPT !.refs = h[r].refs + 1]]
  BY DEF MS!Attach
<1>3. g \in Heaps /\ g[r] = [h[r] EXCEPT !.refs = h[r].refs + 1] /\ \A q \in AllReps : q # r => g[q] = h[q]
  <2>1. h[r] \in [buf : Seq(Letters), size : Nat, refs : Nat]
    BY <1>1 DEF Heaps
  <2>2. PICK m : m = [h[r] EXCEPT !.refs = h[r].refs + 1]
    OBVIOUS
  <2>3. m \in [buf : Seq(Letters), size : Nat, refs : Nat]
    BY <2>1, <2>2
  <2>4. g = [h EXCEPT ![r] = m]
    BY <1>2, <2>2
  <2> HIDE DEF g
  <2>5. g \in Heaps /\ g[r] = m /\ \A q \in AllReps : q # r => g[q] = h[q]
    BY <1>1, <2>3, <2>4 DEF Heaps
  <2>. QED
    BY <2>2, <2>5
<1>4. \A q \in AllReps : g[q].buf = h[q].buf /\ g[q].size = h[q].size
                         /\ g[q].refs = IF q = r THEN h[q].refs + 1 ELSE h[q].refs
  BY <1>1, <1>3 DEF Heaps
<1>5. d \in [AllReps -> Nat] /\ \A q \in AllReps : d[q] = IF q = r THEN c[q] + 1 ELSE c[q]
  BY <1>1
<1>6. Nil \in AllReps
  BY DEF AllReps
<1> HIDE DEF g, d
<1>7. ASSUME NEW q \in AllReps
      PROVE  g[q].refs = d[q] /\ (d[q] = 0 => g[q] = MS!Freed)
             /\ (d[q] > 0 => Len(g[q].buf) < g[q].size)
  <2>1. h[q].refs = c[q] /\ (c[q] = 0 => h[q] = MS!Freed) /\ (c[q] > 0 => Len(h[q].buf) < h[q].size)
    BY DEF HeapOf
  <2>2. CASE q = r
    BY <1>1, <1>4, <1>5, <2>1, <2>2
  <2>3. CASE q # r
    BY <1>3, <1>4, <1>5, <2>1, <2>3
  <2>. QED
    BY <2>2, <2>3
<1>8. d[Nil] > 0 /\ g[Nil].buf = <<>>
  BY <1>1, <1>4, <1>5, <1>6
<1>9. HeapOf(g, d)
  BY <1>3, <1>5, <1>7, <1>8 DEF HeapOf
<1>. QED
  BY <1>4, <1>9 DEF g, d

(* detach() counts one less, and frees what has none.                      *)
LEMMA DetachIs ==
    ASSUME NEW h, NEW c, HeapOf(h, c), NEW r \in AllReps, c[r] > 0, r = Nil => c[r] > 1,
           NEW d, d = [c EXCEPT ![r] = @ - 1]
    PROVE  HeapOf(MS!Detach(h, r), d) /\ SameTexts(h, MS!Detach(h, r), d)
<1> DEFINE g == MS!Detach(h, r)
<1>1. h \in Heaps /\ c \in [AllReps -> Nat] /\ c[Nil] > 0 /\ h[Nil].buf = <<>> /\ h[r].refs = c[r]
      /\ \A q \in AllReps : h[q].refs = c[q] /\ (c[q] = 0 => h[q] = MS!Freed)
                            /\ (c[q] > 0 => Len(h[q].buf) < h[q].size)
  BY DEF HeapOf
<1>2. d \in [AllReps -> Nat] /\ \A q \in AllReps : d[q] = IF q = r THEN c[q] - 1 ELSE c[q]
  BY <1>1
<1>3. MS!Freed = [buf |-> <<>>, size |-> 0, refs |-> 0]
      /\ MS!Freed \in [buf : Seq(Letters), size : Nat, refs : Nat]
  BY DEF MS!Freed
<1>4. Nil \in AllReps
  BY DEF AllReps
<1>5. CASE c[r] = 1
  <2>1. g = [h EXCEPT ![r] = MS!Freed]
    BY <1>1, <1>5 DEF MS!Detach
  <2>2. g \in Heaps /\ g[r] = MS!Freed /\ \A q \in AllReps : q # r => g[q] = h[q]
    BY <1>1, <1>3, <2>1 DEF Heaps
  <2>3. d[r] = 0 /\ r # Nil
    BY <1>2, <1>5
  <2> HIDE DEF g
  <2>4. ASSUME NEW q \in AllReps
        PROVE  g[q].refs = d[q] /\ (d[q] = 0 => g[q] = MS!Freed)
               /\ (d[q] > 0 => Len(g[q].buf) < g[q].size /\ g[q].buf = h[q].buf)
    <3>1. CASE q = r
      BY <1>3, <2>2, <2>3, <3>1
    <3>2. CASE q # r
      BY <1>1, <1>2, <2>2, <3>2
    <3>. QED
      BY <3>1, <3>2
  <2>5. d[Nil] > 0 /\ g[Nil].buf = <<>>
    BY <1>1, <1>2, <1>4, <2>2, <2>3
  <2>. QED
    BY <1>2, <2>2, <2>4, <2>5 DEF HeapOf, SameTexts, g
<1>6. CASE c[r] # 1
  <2>1. g = [h EXCEPT ![r] = [h[r] EXCEPT !.refs = h[r].refs - 1]]
    <3>1. h[r].refs # 1
      BY <1>1, <1>6
    <3>. QED
      BY <3>1 DEF MS!Detach
  <2>2. h[r].refs - 1 \in Nat /\ h[r] \in [buf : Seq(Letters), size : Nat, refs : Nat]
    BY <1>1 DEF Heaps
  <2>3. g \in Heaps /\ g[r] = [h[r] EXCEPT !.refs = h[r].refs - 1] /\ \A q \in AllReps : q # r => g[q] = h[q]
    BY <1>1, <2>1, <2>2 DEF Heaps
  <2> HIDE DEF g
  <2>4. g[r].buf = h[r].buf /\ g[r].size = h[r].size /\ g[r].refs = h[r].refs - 1
    BY <2>2, <2>3
  <2>5. d[r] > 0
    BY <1>1, <1>2, <1>6
  <2>6. ASSUME NEW q \in AllReps
        PROVE  g[q].refs = d[q] /\ (d[q] = 0 => g[q] = MS!Freed)
               /\ (d[q] > 0 => Len(g[q].buf) < g[q].size /\ g[q].buf = h[q].buf)
    <3>1. CASE q = r
      BY <1>1, <1>2, <2>4, <2>5, <3>1
    <3>2. CASE q # r
      BY <1>1, <1>2, <2>3, <3>2
    <3>. QED
      BY <3>1, <3>2
  <2>7. d[Nil] > 0 /\ g[Nil].buf = <<>>
    BY <1>1, <1>2, <1>4, <2>3, <2>4, <2>5
  <2>. QED
    BY <1>2, <2>3, <2>6, <2>7 DEF HeapOf, SameTexts, g
<1>. QED
  BY <1>5, <1>6

(* A representation for the text s, with one reference more.               *)
DupOf(h, s, c, r, g) ==
    /\ r \in AllReps
    /\ HeapOf(g, [c EXCEPT ![r] = @ + 1])
    /\ g[r].buf = s
    /\ SameTexts(h, g, c)

(* dup() gives one, and leaves all texts that are referred to.             *)
LEMMA DupIs ==
    ASSUME MS!MyStringAssumption, NEW h, NEW c, HeapOf(h, c), NEW s \in Seq(Letters),
           \E q \in Reps : c[q] = 0,
           NEW k, NEW f, MS!Dup(h, s) = [rep |-> k, heap |-> f]
    PROVE  DupOf(h, s, c, k, f)
<1> DEFINE r == IF s = <<>> THEN Nil ELSE CHOOSE x \in Reps : h[x] = MS!Freed
           e == IF r = Nil THEN h
                ELSE [h EXCEPT ![r] = [buf |-> s, size |-> MS!SizeFor(Len(s)), refs |-> 0]]
           g == MS!Attach(e, r)
           d == [c EXCEPT ![r] = @ + 1]
<1>1. k = r /\ f = g
  <2>1. MS!Dup(h, s) = [rep |-> r, heap |-> g]
    BY DEF MS!Dup
  <2> HIDE DEF r, g
  <2>. QED
    BY <2>1
<1>2. h \in Heaps /\ c \in [AllReps -> Nat] /\ c[Nil] > 0 /\ h[Nil].buf = <<>> /\ Nil \in AllReps
      /\ Reps \subseteq AllReps /\ Nil \notin Reps
      /\ \A q \in AllReps : h[q].refs = c[q] /\ (c[q] = 0 => h[q] = MS!Freed)
                            /\ (c[q] > 0 => Len(h[q].buf) < h[q].size)
  BY MsSizes DEF HeapOf, AllReps
<1>3. CASE s = <<>>
  <2>1. r = Nil /\ e = h
    BY <1>3
  <2> HIDE DEF r, e, d
  <2>2. d = [c EXCEPT ![r] = c[r] + 1]
    BY DEF d
  <2>3. HeapOf(g, d) /\ \A q \in AllReps : g[q].buf = h[q].buf
    BY <1>2, <2>2, <2>1, AttachIs
  <2>4. g[r].buf = s /\ SameTexts(h, g, c) /\ r \in AllReps
    BY <1>2, <1>3, <2>1, <2>3 DEF SameTexts
  <2>. QED
    BY <1>1, <2>3, <2>4 DEF d, DupOf
<1>4. CASE s # <<>>
  <2>1. \E x \in Reps : h[x] = MS!Freed
    BY <1>2
  <2>2. r \in Reps /\ h[r] = MS!Freed
    BY <1>4, <2>1
  <2> HIDE DEF r
  <2>3. r \in AllReps /\ r # Nil /\ c[r] = 0
    BY <1>2, <2>2 DEF MS!Freed
  <2>4. Len(s) \in Nat /\ MS!SizeFor(Len(s)) \in Nat /\ Len(s) < MS!SizeFor(Len(s))
    BY SizeIs, LenProperties
  <2> DEFINE n == [buf |-> s, size |-> MS!SizeFor(Len(s)), refs |-> 0]
             m == [buf |-> s, size |-> MS!SizeFor(Len(s)), refs |-> 1]
  <2>5. n \in [buf : Seq(Letters), size : Nat, refs : Nat]
        /\ m \in [buf : Seq(Letters), size : Nat, refs : Nat]
        /\ m = [n EXCEPT !.refs = n.refs + 1] /\ m.buf = s /\ m.refs = 1 /\ Len(m.buf) < m.size
    BY <2>4
  <2>6. e = [h EXCEPT ![r] = n]
    BY <2>3
  <2> HIDE DEF n, m, e
  <2>7. g = [e EXCEPT ![r] = [e[r] EXCEPT !.refs = e[r].refs + 1]]
    BY DEF MS!Attach
  <2>8. e \in Heaps /\ e[r] = n
    BY <1>2, <2>3, <2>5, <2>6 DEF Heaps
  <2>9. g \in Heaps /\ g[r] = m /\ \A q \in AllReps : q # r => g[q] = h[q]
    BY <1>2, <2>3, <2>5, <2>6, <2>7, <2>8 DEF Heaps
  <2> HIDE DEF g
  <2>10. d \in [AllReps -> Nat] /\ d[r] = 1 /\ \A q \in AllReps : q # r => d[q] = c[q]
    BY <1>2, <2>3
  <2> HIDE DEF d
  <2>11. ASSUME NEW q \in AllReps
        PROVE  g[q].refs = d[q] /\ (d[q] = 0 => g[q] = MS!Freed)
               /\ (d[q] > 0 => Len(g[q].buf) < g[q].size)
    <3>1. CASE q = r
      BY <2>5, <2>9, <2>10, <3>1
    <3>2. CASE q # r
      BY <1>2, <2>9, <2>10, <3>2
    <3>. QED
      BY <3>1, <3>2
  <2>12. HeapOf(g, d)
    BY <1>2, <2>3, <2>9, <2>10, <2>11 DEF HeapOf
  <2>13. SameTexts(h, g, c)
    BY <1>2, <2>3, <2>9 DEF SameTexts
  <2>14. g[r].buf = s /\ r \in AllReps
    BY <2>3, <2>5, <2>9
  <2>. QED
    BY <1>1, <2>12, <2>13, <2>14 DEF d, DupOf
<1>. QED
  BY <1>3, <1>4

(* The strings that refer to r are a number of strings.                    *)
LEMMA StringsCount ==
    ASSUME MS!MyStringAssumption, NEW o, NEW r
    PROVE  /\ IsFiniteSet({x \in Strings : o[x] = r}) /\ OfStrings(o, r) \in Nat
           /\ OfStrings(o, r) = 0 <=> \A x \in Strings : o[x] # r
           /\ OfStrings(o, r) = 1 => \A x, y \in Strings : o[x] = r /\ o[y] = r => x = y
<1> DEFINE S == {x \in Strings : o[x] = r}
<1>1. IsFiniteSet(S)
  BY MsSizes, FS_Subset
<1>2. OfStrings(o, r) = Cardinality(S)
  BY DEF OfStrings
<1>3. Cardinality(S) \in Nat
  BY <1>1, FS_CardinalityType
<1>4. Cardinality(S) = 0 <=> S = {}
  <2> HIDE DEF S
  <2>. QED
    BY <1>1, FS_EmptySet
<1>5. Cardinality(S) = 1 => \E x : S = {x}
  <2> HIDE DEF S
  <2>. QED
    BY <1>1, FS_Singleton
<1>6. Cardinality(S) = 1 => \A x, y \in Strings : o[x] = r /\ o[y] = r => x = y
  <2>1. SUFFICES ASSUME Cardinality(S) = 1, NEW x \in Strings, NEW y \in Strings, o[x] = r, o[y] = r
                 PROVE  x = y
    OBVIOUS
  <2>2. x \in S /\ y \in S
    BY <2>1
  <2> HIDE DEF S
  <2>. QED
    BY <1>5, <2>1, <2>2
<1>. QED
  BY <1>1, <1>2, <1>3, <1>4, <1>6

(* One string goes from one representation to another. *)
Moves(o, p, x, n) == p[x] = n /\ \A y \in Strings : y # x => p[y] = o[y]

(* One string goes from one representation to another.                     *)
LEMMA StringsMove ==
    ASSUME MS!MyStringAssumption, NEW o, NEW p, NEW x \in Strings, NEW n, Moves(o, p, x, n), NEW r
    PROVE  OfStrings(p, r)
           = OfStrings(o, r) + (IF r = n THEN 1 ELSE 0) - (IF r = o[x] THEN 1 ELSE 0)
<1> DEFINE S == {y \in Strings : o[y] = r}
           T == {y \in Strings : p[y] = r}
<1>1. IsFiniteSet(S) /\ OfStrings(o, r) = Cardinality(S) /\ Cardinality(S) \in Nat
  <2>1. IsFiniteSet(S)
    BY MsSizes, FS_Subset
  <2>2. OfStrings(o, r) = Cardinality(S)
    BY DEF OfStrings
  <2> HIDE DEF S
  <2>. QED
    BY <2>1, <2>2, FS_CardinalityType
<1>2. OfStrings(p, r) = Cardinality(T)
  BY DEF OfStrings
<1>3. p[x] = n /\ \A y \in Strings : y # x => p[y] = o[y]
  BY DEF Moves
<1>4. (x \in S <=> o[x] = r) /\ (r = n => T = S \cup {x}) /\ (r # n => T = S \ {x})
  BY <1>3
<1> HIDE DEF S, T
<1>5. CASE r = n
  <2>1. Cardinality(T) = IF x \in S THEN Cardinality(S) ELSE Cardinality(S) + 1
    BY <1>1, <1>4, <1>5, FS_AddElement
  <2>. QED
    BY <1>1, <1>2, <1>4, <1>5, <2>1
<1>6. CASE r # n
  <2>1. Cardinality(T) = IF x \in S THEN Cardinality(S) - 1 ELSE Cardinality(S)
    BY <1>1, <1>4, <1>6, FS_RemoveElement
  <2>. QED
    BY <1>1, <1>2, <1>4, <1>6, <2>1
<1>. QED
  BY <1>5, <1>6

(* The operands that refer to r are a number of operands.                  *)
LEMMA OperandsCount ==
    ASSUME NEW j \in Joins, NEW k \in Nat \ {0}, NEW r
    PROVE  /\ IsFiniteSet(Holders(j, k, r)) /\ OfOperands(j, k, r) \in Nat
           /\ OfOperands(j, k, r) = 0 <=> \A i \in k..Len(j) : j[i].rep # r
           /\ k > Len(j) => OfOperands(j, k, r) = 0
<1>1. Len(j) \in Nat /\ Holders(j, k, r) \subseteq 1..Len(j)
  BY LenProperties DEF Holders, Joins
<1>2. IsFiniteSet(Holders(j, k, r))
  <2>1. 1 \in Int /\ Len(j) \in Int
    BY <1>1
  <2>2. IsFiniteSet(1..Len(j))
    BY <2>1, FS_Interval
  <2>. QED
    BY <1>1, <2>2, FS_Subset
<1>3. Cardinality(Holders(j, k, r)) \in Nat /\ (Cardinality(Holders(j, k, r)) = 0 <=> Holders(j, k, r) = {})
  BY <1>2, FS_CardinalityType, FS_EmptySet
<1>4. Holders(j, k, r) = {} <=> \A i \in k..Len(j) : j[i].rep # r
  BY DEF Holders
<1>5. k > Len(j) => k..Len(j) = {}
  BY <1>1
<1>. QED
  BY <1>2, <1>3, <1>4, <1>5 DEF OfOperands

(* If there is no such operand, none of them refers to r.                  *)
LEMMA NoneRefers ==
    ASSUME NEW j \in Joins, NEW r, OfOperands(j, 1, r) = 0
    PROVE  \A i \in 1..Len(j) : j[i].rep # r
<1>1. 1 \in Nat \ {0}
  OBVIOUS
<1>2. IsFiniteSet(Holders(j, 1, r))
  BY <1>1, OperandsCount
<1>3. Holders(j, 1, r) = {}
  BY <1>2, FS_EmptySet DEF OfOperands
<1>. QED
  BY <1>3 DEF Holders

(* The first of them goes.                                                 *)
LEMMA OperandsLess ==
    ASSUME NEW j \in Joins, NEW k \in 1..Len(j), NEW r
    PROVE  OfOperands(j, k, r) = OfOperands(j, k + 1, r) + (IF j[k].rep = r THEN 1 ELSE 0)
<1> DEFINE A == Holders(j, k, r)
           B == Holders(j, k + 1, r)
<1>1. Len(j) \in Nat /\ k + 1 \in Nat \ {0}
  BY LenProperties DEF Joins
<1>2. IsFiniteSet(B) /\ Cardinality(B) \in Nat /\ OfOperands(j, k + 1, r) = Cardinality(B)
  BY <1>1, OperandsCount DEF OfOperands
<1>3. k \notin B /\ A = IF j[k].rep = r THEN B \cup {k} ELSE B
  BY <1>1 DEF Holders
<1>4. OfOperands(j, k, r) = Cardinality(A)
  BY DEF OfOperands
<1> HIDE DEF A, B
<1>5. Cardinality(B \cup {k}) = Cardinality(B) + 1
  BY <1>2, <1>3, FS_AddElement
<1>. QED
  BY <1>2, <1>3, <1>4, <1>5

(* One more comes.                                                         *)
LEMMA OperandsMore ==
    ASSUME NEW j \in Joins, NEW e \in Operands, NEW r
    PROVE  OfOperands(Append(j, e), 1, r) = OfOperands(j, 1, r) + (IF e.rep = r THEN 1 ELSE 0)
<1> DEFINE t == Append(j, e)
           n == Len(j)
           A == Holders(t, 1, r)
           B == Holders(j, 1, r)
<1>1. n \in Nat /\ t \in Seq(Operands) /\ Len(t) = n + 1 /\ t[n + 1] = e /\ \A i \in 1..n : t[i] = j[i]
  BY AppendProperties, LenProperties DEF Joins
<1>2. IsFiniteSet(B) /\ Cardinality(B) \in Nat /\ OfOperands(j, 1, r) = Cardinality(B)
  BY OperandsCount DEF OfOperands
<1>3. OfOperands(t, 1, r) = Cardinality(A)
  BY DEF OfOperands
<1> HIDE DEF t
<1>4. n + 1 \notin B /\ A = IF e.rep = r THEN B \cup {n + 1} ELSE B
  <2>1. 1..n + 1 = (1..n) \cup {n + 1} /\ n + 1 \notin 1..n
    BY <1>1
  <2> HIDE DEF n
  <2>. QED
    BY <1>1, <2>1 DEF Holders, n
<1> HIDE DEF A, B, n
<1>5. Cardinality(B \cup {n + 1}) = Cardinality(B) + 1
  BY <1>2, <1>4, FS_AddElement
<1>. QED
  BY <1>2, <1>3, <1>4, <1>5 DEF t

(* Both are numbers.                                                       *)
LEMMA CountsAre ==
    ASSUME MS!MyStringAssumption, NEW o, NEW j \in Joins, NEW k \in Nat \ {0}, NEW r
    PROVE  OfStrings(o, r) \in Nat /\ OfOperands(j, k, r) \in Nat
BY StringsCount, OperandsCount

(* Every string and operand is counted, and nil has a reference of its own *)
(* besides.                                                                *)
HeldRightly(o, j, k) ==
    /\ Held(o, j, k) \in [AllReps -> Nat] /\ Held(o, j, k)[Nil] > 0
    /\ \A x \in Strings : Held(o, j, k)[o[x]] > 0 /\ (o[x] = Nil => Held(o, j, k)[Nil] > 1)
    /\ \A i \in k..Len(j) :
         j[i].rep \in AllReps => /\ Held(o, j, k)[j[i].rep] > 0
                                 /\ j[i].rep = Nil => Held(o, j, k)[Nil] > 1

(* The references are so.                                                  *)
LEMMA HeldIs ==
    ASSUME MS!MyStringAssumption, NEW o \in [Strings -> AllReps], NEW j \in Joins,
           NEW k \in Nat \ {0}
    PROVE  HeldRightly(o, j, k)
<1> DEFINE c == Held(o, j, k)
<1>1. \A r \in AllReps : OfStrings(o, r) \in Nat /\ OfOperands(j, k, r) \in Nat
  BY StringsCount, OperandsCount
<1>2. \A r \in AllReps : c[r] = OfStrings(o, r) + OfOperands(j, k, r) + (IF r = Nil THEN 1 ELSE 0)
  BY DEF Held
<1>3. c \in [AllReps -> Nat]
  BY <1>1 DEF Held
<1>4. Nil \in AllReps /\ c[Nil] > 0
  BY <1>1, <1>2 DEF AllReps
<1> HIDE DEF c
<1>5. ASSUME NEW x \in Strings
      PROVE  c[o[x]] > 0 /\ (o[x] = Nil => c[Nil] > 1)
  <2>1. OfStrings(o, o[x]) # 0 /\ o[x] \in AllReps
    BY StringsCount
  <2>. QED
    BY <1>1, <1>2, <1>4, <2>1
<1>6. ASSUME NEW i \in k..Len(j), j[i].rep \in AllReps
      PROVE  c[j[i].rep] > 0 /\ (j[i].rep = Nil => c[Nil] > 1)
  <2>1. OfOperands(j, k, j[i].rep) # 0
    BY OperandsCount
  <2>2. PICK r : r = j[i].rep
    OBVIOUS
  <2>. QED
    BY <1>1, <1>2, <1>4, <1>6, <2>1, <2>2
<1>. QED
  BY <1>3, <1>4, <1>5, <1>6 DEF c, HeldRightly

(* There is a representation left for any string that is made.             *)
LEMMA RoomOnHeap ==
    ASSUME MS!MyStringAssumption, NEW o \in [Strings -> AllReps], NEW j \in Joins,
           Len(j) <= MaxOperands
    PROVE  \E r \in Reps : Held(o, j, 1)[r] = 0
<1> DEFINE n == Len(j)
           A == {o[x] : x \in Strings}
           B == {j[i].rep : i \in 1..n}
           g == [i \in 1..n |-> j[i].rep]
<1>1. n \in Nat
  BY LenProperties DEF Joins
<1>2. IsFiniteSet(A) /\ Cardinality(A) <= Cardinality(Strings)
  <2>1. o \in Surjection(Strings, A)
    BY DEF Surjection
  <2>. QED
    BY <2>1, MsSizes, FS_Surjection
<1>3. IsFiniteSet(B) /\ Cardinality(B) <= n
  <2>1. g \in Surjection(1..n, B)
    BY DEF Surjection
  <2>2. IsFiniteSet(1..n) /\ Cardinality(1..n) = n
    <3>1. PICK m \in Nat : m = n
      BY <1>1
    <3>2. 1 \in Int /\ m \in Int /\ Cardinality(1..m) = (IF 1 > m THEN 0 ELSE m - 1 + 1)
      BY FS_Interval
    <3>3. IsFiniteSet(1..m)
      BY <3>2, FS_Interval
    <3>. QED
      BY <3>1, <3>2, <3>3
  <2> HIDE DEF B, g
  <2>3. Cardinality(B) <= Cardinality(1..n) /\ IsFiniteSet(B)
    BY <2>1, <2>2, FS_Surjection
  <2>. QED
    BY <2>2, <2>3
<1> HIDE DEF A, B
<1>4. IsFiniteSet(A \cup B) /\ Cardinality(A \cup B) <= Cardinality(Strings) + MaxOperands
  <2>1. Cardinality(A) \in Nat /\ Cardinality(B) \in Nat /\ Cardinality(A \cap B) \in Nat
        /\ Cardinality(Strings) \in Nat
    BY <1>2, <1>3, MsSizes, FS_CardinalityType, FS_Intersection
  <2>2. Cardinality(A \cup B) = Cardinality(A) + Cardinality(B) - Cardinality(A \cap B)
        /\ IsFiniteSet(A \cup B)
    BY <1>2, <1>3, FS_Union
  <2>. QED
    BY <1>1, <1>2, <1>3, <2>1, <2>2, MsSizes
<1>5. PICK r \in Reps : r \notin A \cup B
  <2>1. SUFFICES ASSUME Reps \subseteq A \cup B PROVE FALSE
    OBVIOUS
  <2>2. Cardinality(Reps) <= Cardinality(A \cup B)
    BY <1>4, <2>1, FS_Subset
  <2>3. Cardinality(A \cup B) \in Nat /\ Cardinality(Reps) \in Nat /\ Cardinality(Strings) \in Nat
    BY <1>4, MsSizes, FS_CardinalityType
  <2>. QED
    BY <1>4, <2>2, <2>3, MsSizes
<1>6. OfStrings(o, r) = 0
  <2>1. \A x \in Strings : o[x] # r
    BY <1>5 DEF A
  <2>. QED
    BY <2>1, StringsCount
<1>7. OfOperands(j, 1, r) = 0
  <2>1. \A i \in 1..Len(j) : j[i].rep # r
    BY <1>5 DEF B
  <2>. QED
    BY <2>1, OperandsCount
<1>8. r \in AllReps /\ r # Nil
  BY MsSizes DEF AllReps
<1>. QED
  BY <1>6, <1>7, <1>8 DEF Held

(* rstrip() leaves the beginning of a text.                                *)
LEMMA RstripIs ==
    ASSUME NEW s \in Seq(Letters)
    PROVE  MS!Rstrip(s) \in Seq(Letters)
<1> DEFINE keep == {n \in 0..Len(s) : n > 0 => s[n] \notin Spaces}
           n == CHOOSE n \in keep : \A m \in keep : m <= n
           T == keep \ {0}
<1>1. Len(s) \in Nat
  BY LenProperties
<1>2. \E k \in keep : \A m \in keep : m <= k
  <2>1. 0 \in keep
    BY <1>1
  <2>2. T \in SUBSET (1..Len(s)) /\ \A k \in keep : k = 0 \/ k \in T
    BY <1>1
  <2>3. T \subseteq keep
    OBVIOUS
  <2> HIDE DEF T, keep
  <2>4. CASE T = {}
    <3>1. \A m \in keep : m <= 0
      BY <2>2, <2>4
    <3>. QED
      BY <2>1, <3>1
  <2>5. CASE T # {}
    <3>1. PICK k \in T : \A x \in T : x <= k
      BY <1>1, <2>2, <2>5, GreatestOf
    <3>2. 0 <= k
      BY <2>2
    <3>. QED
      BY <2>2, <2>3, <3>1, <3>2
  <2>. QED
    BY <2>4, <2>5
<1>3. n \in 0..Len(s)
  <2>1. n \in keep
    <3> HIDE DEF keep
    <3>. QED
      BY <1>2
  <2> HIDE DEF n
  <2>. QED
    BY <2>1
<1>4. MS!Rstrip(s) = SubSeq(s, 1, n)
  BY DEF MS!Rstrip
<1> HIDE DEF n
<1>. QED
  BY <1>3, <1>4, FirstIs

(* A text reversed is text.                                                *)
LEMMA ReverseIs ==
    ASSUME NEW s \in Seq(Letters)
    PROVE  MS!Reverse(s) \in Seq(Letters)
<1>1. Len(s) \in Nat /\ s \in [1..Len(s) -> Letters]
  BY LenProperties
<1>2. \A i \in 1..Len(s) : (Len(s) - i) + 1 \in 1..Len(s)
  BY <1>1
<1>3. MS!Reverse(s) \in [1..Len(s) -> Letters]
  BY <1>1, <1>2 DEF MS!Reverse
<1>. QED
  BY <1>1, <1>3

(* What a string makes of another is text.                                 *)
LEMMA ResultsAre ==
    ASSUME NEW s \in Seq(Letters), NEW t \in MS!Results(s)
    PROVE  t \in Seq(Letters)
<1>1. Len(s) \in Nat /\ s \in [1..Len(s) -> Letters] /\ DOMAIN s = 1..Len(s)
  BY LenProperties
<1>2. MS!Lower(s) \in Seq(Letters)
  <2>1. \A i \in 1..Len(s) : (IF s[i] \in Upper THEN LowerOf[s[i]] ELSE s[i]) \in Letters
    BY <1>1 DEF Letters
  <2>2. MS!Lower(s) \in [1..Len(s) -> Letters]
    BY <1>1, <2>1 DEF MS!Lower
  <2>. QED
    BY <1>1, <2>2
<1>3. MS!Rstrip(s) \in Seq(Letters)
  BY RstripIs
<1>4. MS!Lstrip(s) \in Seq(Letters)
  BY RstripIs, ReverseIs DEF MS!Lstrip
<1>5. MS!Strip(s) \in Seq(Letters)
  BY <1>4, RstripIs DEF MS!Strip
<1>6. ASSUME NEW k \in 0..Len(s)
      PROVE  MS!Left(s, k) \in Seq(Letters) /\ MS!Right(s, k) \in Seq(Letters)
  <2>1. SubSeq(s, 1, k) \in Seq(Letters)
    BY FirstIs
  <2>2. SubSeq(s, k + 1, Len(s)) \in Seq(Letters)
    BY <1>1, CutIs
  <2>. QED
    BY <2>1, <2>2, EmptySeq, Zenon DEF MS!Left, MS!Right
<1>7. ASSUME NEW k \in 0..Len(s), NEW n \in 0..Len(s)
      PROVE  MS!Sub(s, k, n) \in Seq(Letters)
  <2> DEFINE m == IF n + k >= Len(s) THEN Len(s) ELSE k + n
  <2>1. k \in Nat /\ m \in Nat /\ k <= m /\ m <= Len(s)
    BY <1>1
  <2>2. MS!Sub(s, k, n) = IF n = 0 THEN <<>> ELSE IF k = 0 /\ n >= Len(s) THEN s
                          ELSE SubSeq(s, k + 1, m)
    BY DEF MS!Sub
  <2> HIDE DEF m
  <2>3. SubSeq(s, k + 1, m) \in Seq(Letters)
    BY <2>1, CutIs
  <2>. QED
    BY <2>2, <2>3, EmptySeq, Zenon
<1>8. \/ t \in {MS!Lower(s), MS!Lstrip(s), MS!Rstrip(s), MS!Strip(s)}
      \/ \E k \in 0..Len(s) : t = MS!Left(s, k) \/ t = MS!Right(s, k)
                               \/ \E n \in 0..Len(s) : t = MS!Sub(s, k, n)
  BY DEF MS!Results
<1>. QED
  BY <1>2, <1>3, <1>4, <1>5, <1>6, <1>7, <1>8, Zenon

(* x has the text s, and the other strings and the operands have the texts *)
(* they had.                                                               *)
TextGiven(o, h, j, x, s, p, f) ==
    /\ p \in [Strings -> AllReps] /\ HeapOf(f, Held(p, j, 1)) /\ f[p[x]].buf = s
    /\ \A q \in AllReps : Held(o, j, 1)[q] > 0 /\ Held(p, j, 1)[q] > 0 => f[q].buf = h[q].buf

(* A new text for a string, while the operands stay.                       *)
LEMMA NewText ==
    ASSUME MS!MyStringAssumption, NEW o \in [Strings -> AllReps], NEW j \in Joins,
           Len(j) <= MaxOperands, NEW h, HeapOf(h, Held(o, j, 1)),
           NEW x \in Strings, NEW s \in Seq(Letters),
           NEW r, NEW g, MS!Dup(h, s) = [rep |-> r, heap |-> g],
           NEW p, p = [o EXCEPT ![x] = r], NEW f, f = MS!Detach(g, o[x])
    PROVE  TextGiven(o, h, j, x, s, p, f)
<1>1. PICK c : c = Held(o, j, 1)
  OBVIOUS
<1>2. /\ c \in [AllReps -> Nat] /\ HeapOf(h, c) /\ c[o[x]] > 0 /\ (o[x] = Nil => c[Nil] > 1)
      /\ o[x] \in AllReps
  BY <1>1, HeldIs DEF HeldRightly
<1>3. \E q \in Reps : c[q] = 0
  BY <1>1, RoomOnHeap
<1>4. DupOf(h, s, c, r, g)
  BY <1>2, <1>3, DupIs
<1>5. PICK d : d = [c EXCEPT ![r] = @ + 1]
  OBVIOUS
<1>6. r \in AllReps /\ HeapOf(g, d) /\ g[r].buf = s /\ SameTexts(h, g, c)
  BY <1>4, <1>5 DEF DupOf
<1>7. d \in [AllReps -> Nat] /\ (\A q \in AllReps : d[q] = IF q = r THEN c[q] + 1 ELSE c[q])
      /\ d[o[x]] > 0 /\ (o[x] = Nil => d[o[x]] > 1)
  BY <1>2, <1>5, <1>6
<1>8. PICK e : e = [d EXCEPT ![o[x]] = @ - 1]
  OBVIOUS
<1>9. HeapOf(f, e) /\ SameTexts(g, f, e)
  BY <1>2, <1>6, <1>7, <1>8, DetachIs
<1>10. e \in [AllReps -> Nat] /\ \A q \in AllReps : e[q] = IF q = o[x] THEN d[q] - 1 ELSE d[q]
  BY <1>2, <1>7, <1>8
<1>11. p \in [Strings -> AllReps] /\ Moves(o, p, x, r) /\ p[x] = r
  BY <1>6 DEF Moves
<1>12. HeldRightly(p, j, 1)
  <2>1. 1 \in Nat \ {0}
    OBVIOUS
  <2>. QED
    BY <1>11, <2>1, HeldIs, Zenon
<1>13. e = Held(p, j, 1)
  <2>1. ASSUME NEW q \in AllReps PROVE e[q] = Held(p, j, 1)[q]
    <3>1. OfStrings(p, q) = OfStrings(o, q) + (IF q = r THEN 1 ELSE 0) - (IF q = o[x] THEN 1 ELSE 0)
      BY <1>11, StringsMove
    <3>2. OfStrings(o, q) \in Nat /\ OfOperands(j, 1, q) \in Nat
      BY CountsAre
    <3>3. c[q] = OfStrings(o, q) + OfOperands(j, 1, q) + (IF q = Nil THEN 1 ELSE 0)
      BY <1>1 DEF Held
    <3>4. Held(p, j, 1)[q] = OfStrings(p, q) + OfOperands(j, 1, q) + (IF q = Nil THEN 1 ELSE 0)
      BY DEF Held
    <3>5. e[q] = c[q] + (IF q = r THEN 1 ELSE 0) - (IF q = o[x] THEN 1 ELSE 0)
      BY <1>2, <1>7, <1>10
    <3>. QED
      BY <3>1, <3>2, <3>3, <3>4, <3>5
  <2>2. Held(p, j, 1) \in [AllReps -> Nat]
    BY <1>12, <1>11 DEF HeldRightly
  <2>. QED
    <3>1. PICK w : w = Held(p, j, 1)
      OBVIOUS
    <3>2. e \in [AllReps -> Nat] /\ w \in [AllReps -> Nat] /\ \A q \in AllReps : e[q] = w[q]
      BY <1>10, <2>1, <2>2, <3>1
    <3>3. e = w
      BY <3>2
    <3>. QED
      BY <3>1, <3>3
<1>14. f[p[x]].buf = s
  <2>1. Held(p, j, 1)[p[x]] > 0
    BY <1>12, Zenon DEF HeldRightly
  <2>. QED
    BY <1>6, <1>9, <1>11, <1>13, <2>1 DEF SameTexts
<1>15. ASSUME NEW q \in AllReps, c[q] > 0, e[q] > 0 PROVE f[q].buf = h[q].buf
  <2>1. f[q].buf = g[q].buf
    BY <1>9, <1>15 DEF SameTexts
  <2>2. g[q].buf = h[q].buf
    BY <1>6, <1>15 DEF SameTexts
  <2>. QED
    BY <2>1, <2>2
<1>. QED
  BY <1>1, <1>9, <1>11, <1>13, <1>14, <1>15 DEF TextGiven

(* An operand goes, and a heap that is not yet known to count its          *)
(* references.                                                             *)
Gone(h, e) == IF e.rep = None THEN h ELSE MS!Detach(h, e.rep)
LooseHeaps == [AllReps -> [buf : Seq(Letters), size : Nat, refs : Int]]

(* It leaves such a heap.                                                  *)
LEMMA GoneType ==
    ASSUME NEW h \in LooseHeaps, NEW e \in Operands
    PROVE  Gone(h, e) \in LooseHeaps
<1>1. CASE e.rep = None
  BY <1>1 DEF Gone
<1>2. CASE e.rep # None
  <2>1. PICK r \in AllReps : r = e.rep
    BY <1>2 DEF Operands
  <2>2. Gone(h, e) = MS!Detach(h, r)
    BY <1>2, <2>1 DEF Gone
  <2>3. h[r] \in [buf : Seq(Letters), size : Nat, refs : Int]
    BY DEF LooseHeaps
  <2>4. MS!Freed \in [buf : Seq(Letters), size : Nat, refs : Int]
    BY DEF MS!Freed
  <2>5. PICK m : m = [h[r] EXCEPT !.refs = h[r].refs - 1]
    OBVIOUS
  <2>6. m \in [buf : Seq(Letters), size : Nat, refs : Int]
    BY <2>3, <2>5
  <2>7. MS!Detach(h, r) = [h EXCEPT ![r] = MS!Freed] \/ MS!Detach(h, r) = [h EXCEPT ![r] = m]
    BY <2>5 DEF MS!Detach
  <2>. QED
    BY <2>2, <2>4, <2>6, <2>7 DEF LooseHeaps
<1>. QED
  BY <1>1, <1>2

(* Every heap is one.                                                      *)
LEMMA HeapIsLoose ==
    ASSUME NEW h, NEW c, HeapOf(h, c)
    PROVE  h \in LooseHeaps
<1>1. h \in Heaps
  BY DEF HeapOf
<1>2. [buf : Seq(Letters), size : Nat, refs : Nat] \subseteq [buf : Seq(Letters), size : Nat, refs : Int]
  OBVIOUS
<1>. QED
  BY <1>1, <1>2 DEF Heaps, LooseHeaps

(* What is left of a heap when all operands have gone, and how they go.    *)
Parted(h, j) == MS!FoldLeft(LAMBDA k, e : IF e.rep = None THEN k ELSE MS!Detach(k, e.rep), h, j)
Going(h, j, r) ==
    /\ r \in [0..Len(j) -> LooseHeaps] /\ r[0] = h
    /\ \A i \in 1..Len(j) : r[i] = Gone(r[i - 1], j[i])

(* The operands go one after another.                                      *)
LEMMA OperandsRun ==
    ASSUME NEW b \in LooseHeaps, NEW j \in Joins
    PROVE  \E r : Going(b, j, r) /\ Parted(b, j) = r[Len(j)]
<1> DEFINE A == LooseHeaps
           p == Len(j)
           D == 1..p
           G == [s \in D |-> [x \in A |-> Gone(x, j[s])]]
           F(h) == h = [s \in SUBSET D |->
                          IF s = {} THEN b ELSE Gone(h[s \ {Max(s)}], j[Max(s)])]
           c == CHOOSE h : F(h)
           V == Parted(b, j)
<1>1. p \in Nat /\ DOMAIN j = D /\ \A s \in D : j[s] \in Operands
  BY LenProperties, ElementOfSeq DEF Joins
<1>2. V = c[D]
  <2>1. \A s : MS!Max(s) = Max(s)
    BY DEF MS!Max, Max
  <2> HIDE DEF D
  <2>. QED
    BY <1>1, <2>1, Zenon DEF Parted, MS!FoldLeft, MS!MapThenFoldSet, Gone
<1>3. G \in [D -> [A -> A]] /\ \A s \in D, x \in A : G[s][x] = Gone(x, j[s])
  <2>1. \A s \in D, x \in A : Gone(x, j[s]) \in A
    BY <1>1, GoneType
  <2> HIDE DEF A, D
  <2>. QED
    BY <2>1
<1> HIDE DEF G, V
<1>4. b \in A
  OBVIOUS
<1> HIDE DEF A, c
<1>5. \A s \in SUBSET D : s # {} => Max(s) \in D /\ s \ {Max(s)} \in SUBSET D
  BY <1>1, MaxIn
<1>6. F(c)
  <2>1. PICK h \in [SUBSET D -> A] :
          h = [s \in SUBSET D |-> IF s = {} THEN b ELSE G[Max(s)][h[s \ {Max(s)}]]]
    <3>1. \E h \in [SUBSET D -> A] : IsFold(h, p, b, G)
      BY <1>1, <1>3, <1>4, FoldExists
    <3>. QED
      BY <3>1 DEF IsFold
  <2>2. ASSUME NEW s \in SUBSET D
        PROVE  (IF s = {} THEN b ELSE G[Max(s)][h[s \ {Max(s)}]])
               = IF s = {} THEN b ELSE Gone(h[s \ {Max(s)}], j[Max(s)])
    BY <1>3, <1>5, <2>1
  <2> HIDE DEF D
  <2>3. F(h)
    BY <2>1, <2>2
  <2> HIDE DEF F
  <2>. QED
    BY <2>3 DEF c
<1>7. PICK r \in [0..p -> A] : IsRun(r, p, b, G)
  BY <1>1, <1>3, <1>4, Running
<1>8. c[D] = r[p]
  <2>1. c[{}] = b
    BY <1>6
  <2>2. ASSUME NEW s \in SUBSET D, s # {}, c[s \ {Max(s)}] \in A
        PROVE  c[s] = G[Max(s)][c[s \ {Max(s)}]]
    <3>1. c[s] = Gone(c[s \ {Max(s)}], j[Max(s)])
      BY <1>6, <2>2, Zenon
    <3>. QED
      BY <1>3, <1>5, <2>2, <3>1
  <2>3. FoldsUp(c, p, A, b, G)
    BY <2>1, <2>2 DEF FoldsUp
  <2> HIDE DEF F, D
  <2>4. r \in [0..p -> A] /\ IsRun(r, p, b, G) /\ G \in [1..p -> [A -> A]] /\ p \in Nat
    BY <1>1, <1>3, <1>7 DEF D
  <2>5. c[1..p] = r[p]
    BY <1>4, <2>3, <2>4, FoldRuns
  <2>. QED
    BY <2>5 DEF D
<1>9. \A s \in 1..p : r[s] = Gone(r[s - 1], j[s])
  <2>1. \A s \in 1..p : s - 1 \in 0..p /\ r[s] = G[s][r[s - 1]]
    BY <1>1, <1>7 DEF IsRun
  <2>. QED
    BY <1>3, <2>1
<1>. QED
  <2>1. Going(b, j, r)
    BY <1>7, <1>9 DEF IsRun, A, Going
  <2>. QED
    BY <1>2, <1>8, <2>1 DEF V

(* Each takes its reference along, and the texts that are still referred   *)
(* to stay.                                                                *)
LEMMA OperandsLeave ==
    ASSUME MS!MyStringAssumption, NEW o \in [Strings -> AllReps], NEW j \in Joins,
           NEW h, HeapOf(h, Held(o, j, 1)), NEW r, Going(h, j, r), NEW g, g = r[Len(j)]
    PROVE  HeapOf(g, Held(o, <<>>, 1)) /\ SameTexts(h, g, Held(o, <<>>, 1))
<1> DEFINE n == Len(j)
<1>1. n \in Nat
  BY LenProperties DEF Joins
<1>2. r[0] = h /\ (\A i \in 1..n : r[i] = Gone(r[i - 1], j[i])) /\ g = r[n]
  BY DEF Going
<1> DEFINE Ok(i) == HeapOf(r[i], Held(o, j, i + 1)) /\ SameTexts(h, r[i], Held(o, j, i + 1))
           T == {i \in 0..n : Ok(i)}
<1>3. 0 \in T
  <2>1. 0 + 1 = 1 /\ 0 \in 0..n
    BY <1>1
  <2>. QED
    BY <1>2, <2>1 DEF SameTexts
<1>4. ASSUME NEW i \in 0..n - 1, i \in T PROVE i + 1 \in T
  <2>1. PICK k : k = i + 1
    OBVIOUS
  <2>2. k \in 1..n /\ k \in Nat \ {0} /\ k + 1 \in Nat \ {0} /\ k - 1 = i /\ k \in k..Len(j)
    BY <1>1, <2>1
  <2>3. PICK c, d : c = Held(o, j, k) /\ d = Held(o, j, k + 1)
    OBVIOUS
  <2>4. HeapOf(r[i], c) /\ SameTexts(h, r[i], c)
    BY <1>4, <2>1, <2>3
  <2>5. HeldRightly(o, j, k) /\ HeldRightly(o, j, k + 1)
    BY <2>2, HeldIs
  <2>6. c \in [AllReps -> Nat] /\ d \in [AllReps -> Nat]
    BY <2>3, <2>5 DEF HeldRightly
  <2>7. \A q \in AllReps : c[q] = d[q] + (IF j[k].rep = q THEN 1 ELSE 0)
    <3>1. SUFFICES ASSUME NEW q \in AllReps PROVE c[q] = d[q] + (IF j[k].rep = q THEN 1 ELSE 0)
      OBVIOUS
    <3>2. OfOperands(j, k, q) = OfOperands(j, k + 1, q) + (IF j[k].rep = q THEN 1 ELSE 0)
      BY <2>2, OperandsLess
    <3>3. OfStrings(o, q) \in Nat /\ OfOperands(j, k + 1, q) \in Nat
      BY <2>2, CountsAre
    <3>4. c[q] = OfStrings(o, q) + OfOperands(j, k, q) + (IF q = Nil THEN 1 ELSE 0)
      BY <2>3 DEF Held
    <3>5. d[q] = OfStrings(o, q) + OfOperands(j, k + 1, q) + (IF q = Nil THEN 1 ELSE 0)
      BY <2>3 DEF Held
    <3>. QED
      BY <3>2, <3>3, <3>4, <3>5
  <2>8. r[k] = Gone(r[i], j[k])
    BY <1>2, <2>2
  <2>9. j[k] \in Operands
    BY <2>2, ElementOfSeq DEF Joins
  <2>10. CASE j[k].rep = None
    <3>1. \A q \in AllReps : c[q] = d[q]
      BY <2>6, <2>7, <2>10, MsSizes
    <3>2. c = d
      BY <2>6, <3>1
    <3>3. r[k] = r[i]
      BY <2>8, <2>10 DEF Gone
    <3>. QED
      BY <2>1, <2>2, <2>3, <2>4, <3>2, <3>3
  <2>11. CASE j[k].rep # None
    <3>1. PICK a \in AllReps : a = j[k].rep
      BY <2>9, <2>11 DEF Operands
    <3>2. c[a] > 0 /\ (a = Nil => c[a] > 1)
      BY <2>2, <2>3, <2>5, <3>1 DEF HeldRightly
    <3>3. d = [c EXCEPT ![a] = @ - 1]
      <4>1. PICK w : w = [c EXCEPT ![a] = c[a] - 1]
        OBVIOUS
      <4>2. w \in [AllReps -> Nat]
        BY <2>6, <3>2, <4>1
      <4>3. \A q \in AllReps : w[q] = d[q]
        BY <2>6, <2>7, <3>1, <4>1
      <4>4. w = d
        BY <2>6, <4>2, <4>3
      <4>. QED
        BY <4>1, <4>4
    <3>4. r[k] = MS!Detach(r[i], a)
      BY <2>8, <2>11, <3>1 DEF Gone
    <3>5. HeapOf(r[k], d) /\ SameTexts(r[i], r[k], d)
      BY <2>4, <3>2, <3>3, <3>4, DetachIs
    <3>6. SameTexts(h, r[k], d)
      <4>1. SUFFICES ASSUME NEW q \in AllReps, d[q] > 0 PROVE r[k][q].buf = h[q].buf
        BY DEF SameTexts
      <4>2. c[q] > 0
        BY <2>6, <2>7, <4>1
      <4>3. r[k][q].buf = r[i][q].buf
        BY <3>5, <4>1 DEF SameTexts
      <4>4. r[i][q].buf = h[q].buf
        BY <2>4, <4>2 DEF SameTexts
      <4>. QED
        BY <4>3, <4>4
    <3>. QED
      BY <2>1, <2>2, <2>3, <3>5, <3>6
  <2>. QED
    BY <2>10, <2>11
<1>5. n \in T
  <2> HIDE DEF T
  <2>1. 0..n \subseteq T
    BY <1>1, <1>3, <1>4, InductionTo
  <2>. QED
    BY <1>1, <2>1
<1>6. Held(o, j, n + 1) = Held(o, <<>>, 1)
  <2>1. \A q : OfOperands(j, n + 1, q) = 0
    <3>1. n + 1 \in Nat \ {0} /\ n + 1 > Len(j)
      BY <1>1
    <3>. QED
      BY <3>1, OperandsCount
  <2>2. \A q : OfOperands(<<>>, 1, q) = 0
    <3>1. <<>> \in Joins /\ 1 \in Nat \ {0} /\ 1 > Len(<<>>)
      BY EmptySeq DEF Joins
    <3>. QED
      BY <3>1, OperandsCount
  <2>. QED
    BY <2>1, <2>2 DEF Held
<1>. QED
  BY <1>2, <1>5, <1>6

(* When all have gone the strings' references are left.                    *)
LEMMA OperandsGo ==
    ASSUME MS!MyStringAssumption, NEW o \in [Strings -> AllReps], NEW j \in Joins,
           NEW h, HeapOf(h, Held(o, j, 1)),
           NEW g, g = Parted(h, j)
    PROVE  HeapOf(g, Held(o, <<>>, 1)) /\ SameTexts(h, g, Held(o, <<>>, 1))
<1>1. h \in LooseHeaps
  BY HeapIsLoose
<1>2. PICK r : Going(h, j, r) /\ g = r[Len(j)]
  BY <1>1, OperandsRun
<1>. QED
  BY <1>2, OperandsLeave

(* The texts of the operands.                                              *)
Pieces(h, j) == [i \in DOMAIN j |-> IF j[i].rep = None THEN j[i].chars ELSE h[j[i].rep].buf]

(* Strings and an expression are what v and e say, and the references are  *)
(* those there are.                                                        *)
Sound(o, h, j, v, e) ==
    /\ o \in [Strings -> AllReps] /\ j \in Joins /\ Len(j) <= MaxOperands
    /\ v \in [Strings -> Seq(Letters)] /\ e \in Seq(Letters)
    /\ HeapOf(h, Held(o, j, 1))
    /\ \A x \in Strings : h[o[x]].buf = v[x]
    /\ FlattenSeq(Pieces(h, j)) = e

(* The inductive invariant of the strings.                                 *)
MsInv == Sound(of, heap, join, value, expr)

(* traverse() joins the texts of the operands.                             *)
LEMMA TraverseIs == MS!Traverse = FlattenSeq(Pieces(heap, join))
<1>1. \A s : MS!FlattenSeq(s) = FlattenSeq(s)
  BY DEF MS!FlattenSeq, FlattenSeq
<1>. QED
  BY <1>1 DEF MS!Traverse, Pieces

(* They are texts.                                                         *)
LEMMA PiecesAre ==
    ASSUME MS!MyStringAssumption, NEW h \in Heaps, NEW j \in Joins
    PROVE  /\ Pieces(h, j) \in Seq(Seq(Letters)) /\ Len(Pieces(h, j)) = Len(j)
           /\ \A i \in 1..Len(j) :
                Pieces(h, j)[i] = IF j[i].rep = None THEN j[i].chars ELSE h[j[i].rep].buf
<1>1. Len(j) \in Nat /\ DOMAIN j = 1..Len(j) /\ \A i \in 1..Len(j) : j[i] \in Operands
  BY LenProperties, ElementOfSeq DEF Joins
<1>2. ASSUME NEW i \in 1..Len(j)
      PROVE  (IF j[i].rep = None THEN j[i].chars ELSE h[j[i].rep].buf) \in Seq(Letters)
  <2>1. j[i].chars \in Seq(Letters) /\ (j[i].rep # None => j[i].rep \in AllReps)
    BY <1>1 DEF Operands
  <2>2. \A q \in AllReps : h[q].buf \in Seq(Letters)
    BY DEF Heaps
  <2>. QED
    BY <2>1, <2>2, Zenon
<1>3. Pieces(h, j) \in [1..Len(j) -> Seq(Letters)]
  BY <1>1, <1>2 DEF Pieces
<1>4. \A i \in 1..Len(j) :
        Pieces(h, j)[i] = IF j[i].rep = None THEN j[i].chars ELSE h[j[i].rep].buf
  BY <1>1 DEF Pieces
<1>. QED
  BY <1>1, <1>3, <1>4

(* The operands of an expression keep their texts.                         *)
LEMMA PiecesStay ==
    ASSUME MS!MyStringAssumption, NEW h \in Heaps, NEW g \in Heaps, NEW j \in Joins,
           \A i \in 1..Len(j) : j[i].rep \in AllReps => g[j[i].rep].buf = h[j[i].rep].buf
    PROVE  Pieces(g, j) = Pieces(h, j)
<1>1. /\ Pieces(h, j) \in Seq(Seq(Letters)) /\ Len(Pieces(h, j)) = Len(j)
      /\ \A i \in 1..Len(j) :
           Pieces(h, j)[i] = IF j[i].rep = None THEN j[i].chars ELSE h[j[i].rep].buf
  BY PiecesAre
<1>2. /\ Pieces(g, j) \in Seq(Seq(Letters)) /\ Len(Pieces(g, j)) = Len(j)
      /\ \A i \in 1..Len(j) :
           Pieces(g, j)[i] = IF j[i].rep = None THEN j[i].chars ELSE g[j[i].rep].buf
  BY PiecesAre
<1>3. ASSUME NEW i \in 1..Len(j) PROVE Pieces(g, j)[i] = Pieces(h, j)[i]
  <2>1. j[i] \in Operands
    BY ElementOfSeq DEF Joins
  <2>2. j[i].rep # None => j[i].rep \in AllReps
    BY <2>1 DEF Operands
  <2>. QED
    BY <1>1, <1>2, <2>2, Zenon
<1>. QED
  BY <1>1, <1>2, <1>3, SeqEqual

(* A string is given a text.                                               *)
LEMMA SoundGiven ==
    ASSUME MS!MyStringAssumption, NEW o, NEW h, NEW j, NEW v, NEW e, Sound(o, h, j, v, e),
           NEW x \in Strings, NEW s \in Seq(Letters),
           NEW r, NEW g, MS!Dup(h, s) = [rep |-> r, heap |-> g],
           NEW p, p = [o EXCEPT ![x] = r], NEW f, f = MS!Detach(g, o[x]),
           NEW w, w = [v EXCEPT ![x] = s]
    PROVE  Sound(p, f, j, w, e)
<1>1. /\ o \in [Strings -> AllReps] /\ j \in Joins /\ Len(j) <= MaxOperands
      /\ v \in [Strings -> Seq(Letters)] /\ e \in Seq(Letters)
      /\ HeapOf(h, Held(o, j, 1)) /\ (\A y \in Strings : h[o[y]].buf = v[y])
      /\ FlattenSeq(Pieces(h, j)) = e
  BY DEF Sound
<1>2. /\ p \in [Strings -> AllReps] /\ HeapOf(f, Held(p, j, 1)) /\ f[p[x]].buf = s
      /\ \A q \in AllReps : Held(o, j, 1)[q] > 0 /\ Held(p, j, 1)[q] > 0 => f[q].buf = h[q].buf
  <2>1. TextGiven(o, h, j, x, s, p, f)
    BY <1>1, NewText
  <2>. QED
    BY <2>1, Zenon DEF TextGiven
<1>3. HeldRightly(o, j, 1) /\ HeldRightly(p, j, 1)
  <2>1. 1 \in Nat \ {0}
    OBVIOUS
  <2>. QED
    BY <1>1, <1>2, <2>1, HeldIs, Zenon
<1>4. w \in [Strings -> Seq(Letters)]
  BY <1>1
<1>5. ASSUME NEW y \in Strings PROVE f[p[y]].buf = w[y]
  <2>1. CASE y = x
    BY <1>1, <1>2, <2>1
  <2>2. CASE y # x
    <3>1. p[y] = o[y] /\ w[y] = v[y] /\ o[y] \in AllReps
      BY <1>1, <2>2
    <3>2. Held(o, j, 1)[o[y]] > 0 /\ Held(p, j, 1)[p[y]] > 0
      BY <1>3, Zenon DEF HeldRightly
    <3>. QED
      BY <1>1, <1>2, <3>1, <3>2, Zenon
  <2>. QED
    BY <2>1, <2>2
<1>6. Pieces(f, j) = Pieces(h, j)
  <2>1. f \in Heaps /\ h \in Heaps
    BY <1>1, <1>2 DEF HeapOf
  <2>2. ASSUME NEW i \in 1..Len(j), j[i].rep \in AllReps
        PROVE  f[j[i].rep].buf = h[j[i].rep].buf
    <3>1. Held(o, j, 1)[j[i].rep] > 0 /\ Held(p, j, 1)[j[i].rep] > 0
      BY <1>3, <2>2, Zenon DEF HeldRightly
    <3>. QED
      BY <1>2, <2>2, <3>1, Zenon
  <2>. QED
    BY <1>1, <2>1, <2>2, PiecesStay
<1>. QED
  BY <1>1, <1>2, <1>4, <1>5, <1>6, Zenon DEF Sound

(* Characters are written behind the text of a representation that nobody  *)
(* else has.                                                               *)
LEMMA SoundInPlace ==
    ASSUME MS!MyStringAssumption, NEW o, NEW h, NEW j, NEW v, NEW e, Sound(o, h, j, v, e),
           NEW x \in Strings, NEW s \in Seq(Letters),
           h[o[x]].buf # <<>>, ~(h[o[x]].refs > 1), ~(Len(h[o[x]].buf) + Len(s) >= h[o[x]].size),
           NEW f, f = [h EXCEPT ![o[x]].buf = @ \o s],
           NEW w, w = [v EXCEPT ![x] = v[x] \o s]
    PROVE  Sound(o, f, j, w, e)
<1>1. /\ o \in [Strings -> AllReps] /\ j \in Joins /\ Len(j) <= MaxOperands
      /\ v \in [Strings -> Seq(Letters)] /\ e \in Seq(Letters)
      /\ HeapOf(h, Held(o, j, 1)) /\ (\A y \in Strings : h[o[y]].buf = v[y])
      /\ FlattenSeq(Pieces(h, j)) = e
  BY DEF Sound
<1>2. PICK c, r : c = Held(o, j, 1) /\ r = o[x]
  OBVIOUS
<1>3. /\ h \in Heaps /\ c \in [AllReps -> Nat] /\ c[Nil] > 0 /\ h[Nil].buf = <<>>
      /\ \A q \in AllReps : h[q].refs = c[q] /\ (c[q] = 0 => h[q] = MS!Freed)
                            /\ (c[q] > 0 => Len(h[q].buf) < h[q].size)
  BY <1>1, <1>2 DEF HeapOf
<1>4. HeldRightly(o, j, 1)
  <2>1. 1 \in Nat \ {0}
    OBVIOUS
  <2>. QED
    BY <1>1, <2>1, HeldIs, Zenon
<1>5. r \in AllReps /\ r # Nil /\ c[r] > 0 /\ c[r] = 1
  <2>1. r \in AllReps /\ r # Nil
    BY <1>1, <1>2, <1>3
  <2>2. c[r] > 0
    BY <1>2, <1>4, Zenon DEF HeldRightly
  <2>. QED
    BY <1>2, <1>3, <2>1, <2>2
<1>6. /\ \A y \in Strings : o[y] = r => y = x
      /\ \A i \in 1..Len(j) : j[i].rep # r
  <2>1. 1 \in Nat \ {0}
    OBVIOUS
  <2>2. OfStrings(o, r) \in Nat /\ OfOperands(j, 1, r) \in Nat
    BY <1>1, <2>1, CountsAre, Zenon
  <2>3. c[r] = OfStrings(o, r) + OfOperands(j, 1, r)
    BY <1>2, <1>5, <2>2 DEF Held
  <2>4. OfStrings(o, r) # 0
    BY <1>2, StringsCount
  <2>5. OfStrings(o, r) = 1 /\ OfOperands(j, 1, r) = 0
    BY <1>5, <2>2, <2>3, <2>4
  <2>6. \A i \in 1..Len(j) : j[i].rep # r
    <3>1. j \in Joins
      BY <1>1
    <3>. QED
      BY <2>5, <3>1, NoneRefers
  <2>7. \A y, z \in Strings : o[y] = r /\ o[z] = r => y = z
    BY <2>5, StringsCount
  <2>. QED
    BY <1>2, <2>6, <2>7
<1>7. h[r] \in [buf : Seq(Letters), size : Nat, refs : Nat]
  BY <1>3, <1>5 DEF Heaps
<1>8. PICK t : t = h[r].buf \o s
  OBVIOUS
<1>9. t \in Seq(Letters) /\ Len(t) = Len(h[r].buf) + Len(s)
  BY <1>7, <1>8, ConcatProperties
<1>10. PICK m : m = [h[r] EXCEPT !.buf = t]
  OBVIOUS
<1>11. m \in [buf : Seq(Letters), size : Nat, refs : Nat] /\ m.buf = t /\ m.size = h[r].size
       /\ m.refs = h[r].refs
  BY <1>7, <1>9, <1>10
<1>12. f = [h EXCEPT ![r] = m]
  BY <1>2, <1>8, <1>10
<1>13. f \in Heaps /\ f[r] = m /\ \A q \in AllReps : q # r => f[q] = h[q]
  BY <1>3, <1>5, <1>11, <1>12 DEF Heaps
<1>14. Len(t) < m.size
  <2>1. Len(h[r].buf) \in Nat /\ Len(s) \in Nat /\ h[r].size \in Nat
    BY <1>7, LenProperties
  <2>. QED
    BY <1>2, <1>9, <1>11, <2>1
<1>15. HeapOf(f, c)
  <2>1. ASSUME NEW q \in AllReps
        PROVE  f[q].refs = c[q] /\ (c[q] = 0 => f[q] = MS!Freed)
               /\ (c[q] > 0 => Len(f[q].buf) < f[q].size)
    <3>1. CASE q = r
      BY <1>3, <1>5, <1>11, <1>13, <1>14, <3>1
    <3>2. CASE q # r
      BY <1>3, <1>13, <3>2
    <3>. QED
      BY <3>1, <3>2
  <2>2. f[Nil].buf = <<>>
    BY <1>3, <1>5, <1>13 DEF AllReps
  <2>. QED
    BY <1>3, <1>13, <2>1, <2>2 DEF HeapOf
<1>16. w \in [Strings -> Seq(Letters)] /\ w[x] = t /\ \A y \in Strings : y # x => w[y] = v[y]
  <2>1. v[x] \o s = t
    BY <1>1, <1>2, <1>8
  <2>. QED
    BY <1>1, <1>9, <2>1
<1>17. ASSUME NEW y \in Strings PROVE f[o[y]].buf = w[y]
  <2>1. CASE y = x
    BY <1>2, <1>11, <1>13, <1>16, <2>1
  <2>2. CASE y # x
    <3>1. o[y] # r /\ o[y] \in AllReps
      BY <1>1, <1>6, <2>2
    <3>. QED
      BY <1>1, <1>13, <1>16, <2>2, <3>1
  <2>. QED
    BY <2>1, <2>2
<1>18. Pieces(f, j) = Pieces(h, j)
  <2>1. ASSUME NEW i \in 1..Len(j), j[i].rep \in AllReps
        PROVE  f[j[i].rep].buf = h[j[i].rep].buf
    BY <1>6, <1>13, <2>1
  <2>. QED
    BY <1>1, <1>3, <1>13, <2>1, PiecesStay
<1>. QED
  BY <1>1, <1>2, <1>15, <1>16, <1>17, <1>18, Zenon DEF Sound

(* A constructor, or the end of a scope.                                   *)
LEMMA SoundRenewed ==
    ASSUME MS!MyStringAssumption, NEW o, NEW h, NEW j, NEW v, NEW e, Sound(o, h, j, v, e),
           NEW x \in Strings, NEW p, p = [o EXCEPT ![x] = Nil],
           NEW f, f = MS!Attach(MS!Detach(h, o[x]), Nil), NEW w, w = [v EXCEPT ![x] = <<>>]
    PROVE  Sound(p, f, j, w, e)
<1>1. /\ o \in [Strings -> AllReps] /\ j \in Joins /\ Len(j) <= MaxOperands
      /\ v \in [Strings -> Seq(Letters)] /\ e \in Seq(Letters)
      /\ HeapOf(h, Held(o, j, 1)) /\ (\A y \in Strings : h[o[y]].buf = v[y])
      /\ FlattenSeq(Pieces(h, j)) = e
  BY DEF Sound
<1>2. PICK c, r, g : c = Held(o, j, 1) /\ r = o[x] /\ g = MS!Detach(h, r)
  OBVIOUS
<1>3. p \in [Strings -> AllReps] /\ Moves(o, p, x, Nil) /\ Nil \in AllReps /\ r \in AllReps
  BY <1>1, <1>2 DEF AllReps, Moves
<1>4. 1 \in Nat \ {0}
  OBVIOUS
<1>5. HeldRightly(o, j, 1) /\ HeldRightly(p, j, 1)
  BY <1>1, <1>3, <1>4, HeldIs, Zenon
<1>6. c \in [AllReps -> Nat] /\ c[r] > 0 /\ (r = Nil => c[r] > 1)
  <2>1. c[o[x]] > 0 /\ (o[x] = Nil => c[Nil] > 1) /\ c \in [AllReps -> Nat]
    BY <1>2, <1>5, Zenon DEF HeldRightly
  <2>. QED
    BY <1>2, <2>1
<1>7. PICK d : d = [c EXCEPT ![r] = @ - 1]
  OBVIOUS
<1>8. HeapOf(g, d) /\ SameTexts(h, g, d)
  BY <1>1, <1>2, <1>3, <1>6, <1>7, DetachIs
<1>9. d[Nil] > 0 /\ d \in [AllReps -> Nat]
  BY <1>8 DEF HeapOf
<1>10. PICK b : b = [d EXCEPT ![Nil] = @ + 1]
  OBVIOUS
<1>11. HeapOf(f, b) /\ \A q \in AllReps : f[q].buf = g[q].buf
  BY <1>2, <1>3, <1>8, <1>9, <1>10, AttachIs
<1>12. b = Held(p, j, 1)
  <2>1. PICK a : a = Held(p, j, 1)
    OBVIOUS
  <2>2. a \in [AllReps -> Nat]
    BY <1>5, <2>1 DEF HeldRightly
  <2>3. b \in [AllReps -> Nat]
    BY <1>11 DEF HeapOf
  <2>4. ASSUME NEW q \in AllReps PROVE b[q] = a[q]
    <3>1. OfStrings(p, q) = OfStrings(o, q) + (IF q = Nil THEN 1 ELSE 0) - (IF q = o[x] THEN 1 ELSE 0)
      BY <1>3, StringsMove
    <3>2. OfStrings(o, q) \in Nat /\ OfOperands(j, 1, q) \in Nat
      BY <1>1, <1>4, CountsAre, Zenon
    <3>3. c[q] = OfStrings(o, q) + OfOperands(j, 1, q) + (IF q = Nil THEN 1 ELSE 0)
      BY <1>2 DEF Held
    <3>4. a[q] = OfStrings(p, q) + OfOperands(j, 1, q) + (IF q = Nil THEN 1 ELSE 0)
      BY <2>1 DEF Held
    <3>5. b[q] = c[q] + (IF q = Nil THEN 1 ELSE 0) - (IF q = r THEN 1 ELSE 0)
      <4>1. d[q] = c[q] - (IF q = r THEN 1 ELSE 0)
        BY <1>6, <1>7
      <4>2. b[q] = d[q] + (IF q = Nil THEN 1 ELSE 0)
        BY <1>9, <1>10
      <4>3. c[q] \in Nat
        BY <1>6
      <4>. QED
        BY <4>1, <4>2, <4>3
    <3>. QED
      BY <1>2, <3>1, <3>2, <3>3, <3>4, <3>5
  <2>5. b = a
    BY <2>2, <2>3, <2>4
  <2>. QED
    BY <2>1, <2>5
<1>13. \A q \in AllReps : d[q] = 0 => b[q] = 0 \/ q = Nil
  BY <1>9, <1>10
<1>14. ASSUME NEW q \in AllReps, q # Nil, b[q] > 0 PROVE f[q].buf = h[q].buf
  <2>1. d[q] > 0
    BY <1>9, <1>10, <1>14
  <2>2. f[q].buf = g[q].buf
    BY <1>11
  <2>3. g[q].buf = h[q].buf
    BY <1>8, <2>1 DEF SameTexts
  <2>. QED
    BY <2>2, <2>3
<1>15. f[Nil].buf = <<>> /\ h[Nil].buf = <<>>
  BY <1>1, <1>11 DEF HeapOf
<1>16. ASSUME NEW q \in AllReps, b[q] > 0 PROVE f[q].buf = h[q].buf
  BY <1>14, <1>15, <1>16
<1>17. w \in [Strings -> Seq(Letters)]
  BY <1>1, EmptySeq
<1>18. ASSUME NEW y \in Strings PROVE f[p[y]].buf = w[y]
  <2>1. CASE y = x
    BY <1>1, <1>3, <1>15, <2>1 DEF Moves
  <2>2. CASE y # x
    <3>1. p[y] = o[y] /\ w[y] = v[y] /\ o[y] \in AllReps
      BY <1>1, <2>2
    <3>2. b[p[y]] > 0
      BY <1>5, <1>12, Zenon DEF HeldRightly
    <3>. QED
      BY <1>1, <1>16, <3>1, <3>2
  <2>. QED
    BY <2>1, <2>2
<1>19. Pieces(f, j) = Pieces(h, j)
  <2>1. f \in Heaps /\ h \in Heaps
    BY <1>1, <1>11 DEF HeapOf
  <2>2. ASSUME NEW i \in 1..Len(j), j[i].rep \in AllReps
        PROVE  f[j[i].rep].buf = h[j[i].rep].buf
    <3>1. b[j[i].rep] > 0
      BY <1>5, <1>12, <2>2, Zenon DEF HeldRightly
    <3>. QED
      BY <1>16, <2>2, <3>1, Zenon
  <2>. QED
    BY <1>1, <2>1, <2>2, PiecesStay
<1>. QED
  BY <1>1, <1>3, <1>11, <1>12, <1>17, <1>18, <1>19, Zenon DEF Sound

(* The text of an expression with another operand.                         *)
Extended(e, t) == e \o t

(* An operand comes: another reference, or characters of its own.          *)
LEMMA SoundOperand ==
    ASSUME MS!MyStringAssumption, NEW o, NEW h, NEW j, NEW v, NEW e, Sound(o, h, j, v, e),
           Len(j) < MaxOperands, NEW m \in Operands, NEW t \in Seq(Letters),
           NEW k, k = Append(j, m), NEW f \in Heaps, HeapOf(f, Held(o, k, 1)),
           \A q \in AllReps : f[q].buf = h[q].buf,
           t = (IF m.rep = None THEN m.chars ELSE h[m.rep].buf)
    PROVE  Sound(o, f, k, v, Extended(e, t))
<1>1. /\ o \in [Strings -> AllReps] /\ j \in Joins /\ Len(j) <= MaxOperands
      /\ v \in [Strings -> Seq(Letters)] /\ e \in Seq(Letters)
      /\ HeapOf(h, Held(o, j, 1)) /\ (\A y \in Strings : h[o[y]].buf = v[y])
      /\ FlattenSeq(Pieces(h, j)) = e
  BY DEF Sound
<1>2. Len(j) \in Nat /\ j \in Seq(Operands) /\ h \in Heaps /\ MaxOperands \in Nat
  BY <1>1, LenProperties, MsSizes DEF Joins, HeapOf
<1>3. k \in Seq(Operands) /\ Len(k) = Len(j) + 1 /\ k[Len(j) + 1] = m
      /\ \A i \in 1..Len(j) : k[i] = j[i]
  BY <1>2, AppendProperties
<1>4. k \in Joins /\ Len(k) <= MaxOperands
  BY <1>2, <1>3 DEF Joins
<1>5. PICK P : P = Pieces(h, j)
  OBVIOUS
<1>6. /\ P \in Seq(Seq(Letters)) /\ Len(P) = Len(j)
      /\ \A i \in 1..Len(j) : P[i] = IF j[i].rep = None THEN j[i].chars ELSE h[j[i].rep].buf
  BY <1>1, <1>2, <1>5, PiecesAre
<1>7. PICK Q : Q = Pieces(f, k)
  OBVIOUS
<1>8. /\ Q \in Seq(Seq(Letters)) /\ Len(Q) = Len(j) + 1
      /\ \A i \in 1..Len(j) + 1 : Q[i] = IF k[i].rep = None THEN k[i].chars ELSE f[k[i].rep].buf
  <2>1. /\ Q \in Seq(Seq(Letters)) /\ Len(Q) = Len(k)
        /\ \A i \in 1..Len(k) : Q[i] = IF k[i].rep = None THEN k[i].chars ELSE f[k[i].rep].buf
    BY <1>4, <1>7, PiecesAre
  <2>. QED
    BY <1>3, <2>1
<1>9. PICK R : R = Append(P, t)
  OBVIOUS
<1>10. R \in Seq(Seq(Letters)) /\ Len(R) = Len(j) + 1 /\ R[Len(j) + 1] = t
       /\ \A i \in 1..Len(j) : R[i] = P[i]
  BY <1>6, <1>9, AppendProperties
<1>11. ASSUME NEW i \in 1..Len(j) + 1 PROVE Q[i] = R[i]
  <2>1. k[i] \in Operands
    BY <1>3, ElementOfSeq
  <2>2. k[i].rep # None => k[i].rep \in AllReps
    BY <2>1 DEF Operands
  <2>3. Q[i] = IF k[i].rep = None THEN k[i].chars ELSE h[k[i].rep].buf
    BY <1>8, <2>2, Zenon
  <2>4. CASE i = Len(j) + 1
    BY <1>3, <1>10, <2>3, <2>4
  <2>5. CASE i # Len(j) + 1
    <3>1. i \in 1..Len(j)
      BY <1>2, <2>5
    <3>. QED
      BY <1>3, <1>6, <1>10, <2>3, <3>1
  <2>. QED
    BY <2>4, <2>5
<1>12. Q = R
  BY <1>8, <1>10, <1>11, SeqEqual
<1>13. FlattenSeq(R) = e \o t
  BY <1>1, <1>5, <1>6, <1>9, FlattenAppend
<1>14. e \o t \in Seq(Letters)
  BY <1>1, ConcatProperties
<1>. QED
  BY <1>1, <1>4, <1>7, <1>12, <1>13, <1>14, Zenon DEF Sound, Extended

(* The expression is assigned, and its operands go.                        *)
LEMMA SoundJoined ==
    ASSUME MS!MyStringAssumption, NEW o, NEW h, NEW j, NEW v, NEW e, Sound(o, h, j, v, e),
           NEW x \in Strings,
           NEW r, NEW g, MS!Dup(h, e) = [rep |-> r, heap |-> g],
           NEW p, p = [o EXCEPT ![x] = r], NEW f, f = Parted(MS!Detach(g, o[x]), j),
           NEW w, w = [v EXCEPT ![x] = e]
    PROVE  Sound(p, f, <<>>, w, <<>>)
<1>1. PICK b : b = MS!Detach(g, o[x])
  OBVIOUS
<1>2. e \in Seq(Letters)
  BY Zenon DEF Sound
<1>3. Sound(p, b, j, w, e)
  BY <1>1, <1>2, SoundGiven
<1>4. /\ p \in [Strings -> AllReps] /\ j \in Joins
      /\ w \in [Strings -> Seq(Letters)]
      /\ HeapOf(b, Held(p, j, 1)) /\ (\A y \in Strings : b[p[y]].buf = w[y])
  BY <1>3, Zenon DEF Sound
<1>5. f = Parted(b, j)
  BY <1>1
<1>6. HeapOf(f, Held(p, <<>>, 1)) /\ SameTexts(b, f, Held(p, <<>>, 1))
  BY <1>4, <1>5, OperandsGo
<1>7. <<>> \in Joins /\ 1 \in Nat \ {0} /\ Len(<<>>) <= MaxOperands /\ <<>> \in Seq(Letters)
  BY EmptySeq, MsSizes DEF Joins
<1>8. HeldRightly(p, <<>>, 1)
  BY <1>4, <1>7, HeldIs, Zenon
<1>9. ASSUME NEW y \in Strings PROVE f[p[y]].buf = w[y]
  <2>1. Held(p, <<>>, 1)[p[y]] > 0
    BY <1>8, Zenon DEF HeldRightly
  <2>2. p[y] \in AllReps
    BY <1>4
  <2>3. f[p[y]].buf = b[p[y]].buf
    BY <1>6, <2>1, <2>2, Zenon DEF SameTexts
  <2>. QED
    BY <1>4, <2>3
<1>10. FlattenSeq(Pieces(f, <<>>)) = <<>>
  <2>1. f \in Heaps
    BY <1>6 DEF HeapOf
  <2>2. Pieces(f, <<>>) \in Seq(Seq(Letters)) /\ Len(Pieces(f, <<>>)) = 0
    BY <1>7, <2>1, PiecesAre, EmptySeq
  <2>3. Pieces(f, <<>>) = <<>>
    BY <2>2, EmptySeq
  <2>. QED
    BY <2>3, FlattenEmpty
<1>. QED
  BY <1>4, <1>6, <1>7, <1>9, <1>10, Zenon DEF Sound

(* Empty strings are sound.                                                *)
LEMMA StringsStart ==
    ASSUME MS!MyStringAssumption, MS!Init
    PROVE  MsInv
<1>1. /\ of = [x \in Strings |-> Nil]
      /\ heap = [r \in AllReps |-> IF r = Nil THEN [buf |-> <<>>, size |-> 1, refs |-> Cardinality(Strings) + 1]
                                   ELSE MS!Freed]
      /\ join = <<>> /\ value = [x \in Strings |-> <<>>] /\ expr = <<>>
  <2>1. MS!Cardinality(Strings) = Cardinality(Strings)
    BY DEF MS!Cardinality, Cardinality
  <2>. QED
    BY <2>1 DEF MS!Init, AllReps
<1>2. PICK k : k = Cardinality(Strings)
  OBVIOUS
<1>3. k \in Nat /\ IsFiniteSet(Strings)
  BY <1>2, MsSizes, FS_CardinalityType
<1>4. Nil \in AllReps /\ <<>> \in Joins /\ 1 \in Nat \ {0} /\ <<>> \in Seq(Letters) /\ Len(<<>>) = 0
      /\ MaxOperands \in Nat
  BY EmptySeq, MsSizes DEF AllReps, Joins
<1>5. of \in [Strings -> AllReps] /\ value \in [Strings -> Seq(Letters)]
      /\ \A x \in Strings : of[x] = Nil /\ value[x] = <<>>
  BY <1>1, <1>4
<1>6. PICK c : c = Held(of, join, 1)
  OBVIOUS
<1>7. c \in [AllReps -> Nat] /\ c[Nil] > 0 /\ \A r \in AllReps : c[r] = IF r = Nil THEN k + 1 ELSE 0
  <2>1. HeldRightly(of, join, 1)
    BY <1>1, <1>4, <1>5, HeldIs, Zenon
  <2>2. c \in [AllReps -> Nat] /\ c[Nil] > 0
    BY <1>6, <2>1, Zenon DEF HeldRightly
  <2>3. ASSUME NEW r \in AllReps PROVE c[r] = IF r = Nil THEN k + 1 ELSE 0
    <3>1. OfOperands(join, 1, r) = 0
      <4>1. 1 > Len(join) /\ join \in Joins
        BY <1>1, <1>4
      <4>. QED
        BY <1>4, <4>1, OperandsCount
    <3>2. CASE r = Nil
      <4>1. {x \in Strings : of[x] = r} = Strings
        BY <1>5, <3>2
      <4>2. OfStrings(of, r) = k
        BY <1>2, <4>1 DEF OfStrings
      <4>. QED
        BY <1>3, <1>6, <3>1, <3>2, <4>2 DEF Held
    <3>3. CASE r # Nil
      <4>1. OfStrings(of, r) = 0
        BY <1>5, <3>3, StringsCount
      <4>. QED
        BY <1>6, <3>1, <3>3, <4>1 DEF Held
    <3>. QED
      BY <3>2, <3>3
  <2>. QED
    BY <2>2, <2>3
<1>8. PICK m : m = [buf |-> <<>>, size |-> 1, refs |-> k + 1]
  OBVIOUS
<1>9. m \in [buf : Seq(Letters), size : Nat, refs : Nat] /\ MS!Freed \in [buf : Seq(Letters), size : Nat, refs : Nat]
      /\ m.buf = <<>> /\ m.size = 1 /\ m.refs = k + 1 /\ MS!Freed.refs = 0
  BY <1>3, <1>4, <1>8 DEF MS!Freed
<1>10. heap = [r \in AllReps |-> IF r = Nil THEN m ELSE MS!Freed]
  BY <1>1, <1>2, <1>8
<1>11. heap \in Heaps /\ heap[Nil] = m /\ \A r \in AllReps : heap[r] = IF r = Nil THEN m ELSE MS!Freed
  BY <1>4, <1>9, <1>10 DEF Heaps
<1>12. HeapOf(heap, c)
  <2>1. ASSUME NEW r \in AllReps
        PROVE  heap[r].refs = c[r] /\ (c[r] = 0 => heap[r] = MS!Freed)
               /\ (c[r] > 0 => Len(heap[r].buf) < heap[r].size)
    <3>1. CASE r = Nil
      BY <1>3, <1>4, <1>7, <1>9, <1>11, <3>1
    <3>2. CASE r # Nil
      BY <1>7, <1>9, <1>11, <3>2
    <3>. QED
      BY <3>1, <3>2
  <2>. QED
    BY <1>7, <1>9, <1>11, <2>1 DEF HeapOf
<1>13. FlattenSeq(Pieces(heap, join)) = <<>>
  <2>1. Pieces(heap, join) \in Seq(Seq(Letters)) /\ Len(Pieces(heap, join)) = 0
    BY <1>1, <1>4, <1>11, PiecesAre
  <2>2. Pieces(heap, join) = <<>>
    BY <2>1, EmptySeq
  <2>. QED
    BY <2>2, FlattenEmpty
<1>14. \A x \in Strings : heap[of[x]].buf = value[x]
  BY <1>5, <1>9, <1>11
<1>15. join \in Joins /\ Len(join) <= MaxOperands /\ expr \in Seq(Letters) /\ expr = <<>>
  BY <1>1, <1>4
<1>. QED
  BY <1>5, <1>6, <1>12, <1>13, <1>14, <1>15, Zenon DEF MsInv, Sound

(* dup() gives a representation and a heap.                                *)
LEMMA DupHas ==
    ASSUME NEW h, NEW s
    PROVE  \E r, g : MS!Dup(h, s) = [rep |-> r, heap |-> g]
BY DEF MS!Dup

(* assign() keeps the invariant.                                           *)
LEMMA AssignKeeps ==
    ASSUME MS!MyStringAssumption, MsInv, NEW x \in Strings, NEW s \in Seq(Letters),
           MS!Assign(heap, x, s), value' = [value EXCEPT ![x] = s], UNCHANGED <<join, expr>>
    PROVE  MsInv'
<1>1. PICK r, g : MS!Dup(heap, s) = [rep |-> r, heap |-> g]
  BY DupHas, Zenon
<1>2. of' = [of EXCEPT ![x] = r] /\ heap' = MS!Detach(g, of[x])
  BY <1>1 DEF MS!Assign
<1>3. Sound(of, heap, join, value, expr)
  BY DEF MsInv
<1>4. Sound(of', heap', join, value', expr)
  BY <1>1, <1>2, <1>3, SoundGiven
<1>. QED
  BY <1>4 DEF MsInv

(* append() does, in place or in a copy.                                   *)
LEMMA AppendKeeps ==
    ASSUME MS!MyStringAssumption, MsInv, NEW x \in Strings, NEW s \in Seq(Letters),
           MS!Appended(x, s), value' = [value EXCEPT ![x] = value[x] \o s], UNCHANGED <<join, expr>>
    PROVE  MsInv'
<1>1. Sound(of, heap, join, value, expr)
  BY DEF MsInv
<1>2. /\ value \in [Strings -> Seq(Letters)] /\ (\A y \in Strings : heap[of[y]].buf = value[y])
  BY <1>1, Zenon DEF Sound
<1>3. MS!Text(x) = value[x] /\ value[x] \in Seq(Letters)
  BY <1>2 DEF MS!Text
<1>4. PICK t : t = value[x] \o s
  OBVIOUS
<1>5. t \in Seq(Letters) /\ value' = [value EXCEPT ![x] = t]
  BY <1>3, <1>4, ConcatProperties
<1>6. ASSUME MS!Assign(heap, x, t) PROVE MsInv'
  BY <1>5, <1>6, AssignKeeps
<1>7. CASE s = <<>>
  <2>1. of' = of /\ heap' = heap
    BY <1>7 DEF MS!Appended
  <2>2. value' = value
    BY <1>2, <1>3, <1>4, <1>5, <1>7, ConcatEmptySeq
  <2>. QED
    BY <1>1, <2>1, <2>2 DEF MsInv
<1>8. CASE s # <<>> /\ value[x] = <<>>
  <2>1. MS!Assign(heap, x, s)
    BY <1>3, <1>8 DEF MS!Appended
  <2>2. t = s
    BY <1>4, <1>8, ConcatEmptySeq
  <2>. QED
    BY <1>6, <2>1, <2>2
<1>9. CASE s # <<>> /\ value[x] # <<>>
  <2>1. MS!RepAppend(x, s)
    BY <1>3, <1>9 DEF MS!Appended
  <2>2. PICK r : r = heap[of[x]]
    OBVIOUS
  <2>3. r.buf = value[x]
    BY <1>2, <2>2
  <2>4. CASE r.refs > 1 \/ Len(r.buf) + Len(s) >= r.size
    <3>1. MS!Assign(heap, x, r.buf \o s)
      BY <2>1, <2>2, <2>4 DEF MS!RepAppend
    <3>. QED
      BY <1>4, <1>6, <2>3, <3>1
  <2>5. CASE ~(r.refs > 1 \/ Len(r.buf) + Len(s) >= r.size)
    <3>1. heap' = [heap EXCEPT ![of[x]].buf = @ \o s] /\ of' = of
      BY <2>1, <2>2, <2>5 DEF MS!RepAppend
    <3>2. heap[of[x]].buf # <<>> /\ ~(heap[of[x]].refs > 1)
          /\ ~(Len(heap[of[x]].buf) + Len(s) >= heap[of[x]].size)
      BY <1>9, <2>2, <2>3, <2>5
    <3>3. Sound(of, heap', join, value', expr)
      BY <1>1, <3>1, <3>2, SoundInPlace
    <3>. QED
      BY <3>1, <3>3 DEF MsInv
  <2>. QED
    BY <2>4, <2>5
<1>. QED
  BY <1>7, <1>8, <1>9

(* An expression refers to one string more.                                *)
LEMMA OperandKeeps ==
    ASSUME MS!MyStringAssumption, MsInv, NEW y \in Strings, MS!Operand(y)
    PROVE  MsInv'
<1>1. Sound(of, heap, join, value, expr)
  BY DEF MsInv
<1>2. /\ Len(join) < MaxOperands
      /\ join' = Append(join, [rep |-> of[y], chars |-> <<>>]) /\ heap' = MS!Attach(heap, of[y])
      /\ expr' = expr \o value[y] /\ of' = of /\ value' = value
  BY DEF MS!Operand
<1>3. /\ of \in [Strings -> AllReps] /\ join \in Joins /\ value \in [Strings -> Seq(Letters)]
      /\ HeapOf(heap, Held(of, join, 1)) /\ \A x \in Strings : heap[of[x]].buf = value[x]
  BY <1>1, Zenon DEF Sound
<1>4. PICK m, t, k : m = [rep |-> of[y], chars |-> <<>>] /\ t = value[y] /\ k = Append(join, m)
  OBVIOUS
<1>5. m \in Operands /\ m.rep = of[y] /\ of[y] \in AllReps /\ m.rep # None /\ t \in Seq(Letters)
      /\ t = heap[m.rep].buf
  BY <1>3, <1>4, MsSizes, EmptySeq DEF Operands
<1>6. 1 \in Nat \ {0}
  OBVIOUS
<1>7. HeldRightly(of, join, 1)
  BY <1>3, <1>6, HeldIs, Zenon
<1>8. PICK c : c = Held(of, join, 1)
  OBVIOUS
<1>9. c[of[y]] > 0 /\ c \in [AllReps -> Nat] /\ HeapOf(heap, c)
  BY <1>3, <1>7, <1>8, Zenon DEF HeldRightly
<1>10. PICK d : d = [c EXCEPT ![of[y]] = @ + 1]
  OBVIOUS
<1>11. HeapOf(heap', d) /\ \A q \in AllReps : heap'[q].buf = heap[q].buf
  BY <1>2, <1>5, <1>9, <1>10, AttachIs
<1>12. k \in Joins
  <2>1. join \in Seq(Operands)
    BY <1>3 DEF Joins
  <2>. QED
    BY <1>4, <1>5, <2>1, AppendProperties DEF Joins
<1>13. d = Held(of, k, 1)
  <2>1. PICK a : a = Held(of, k, 1)
    OBVIOUS
  <2>2. HeldRightly(of, k, 1)
    BY <1>3, <1>6, <1>12, HeldIs, Zenon
  <2>3. a \in [AllReps -> Nat] /\ d \in [AllReps -> Nat]
    <3>1. a \in [AllReps -> Nat]
      BY <2>1, <2>2, Zenon DEF HeldRightly
    <3>2. d \in [AllReps -> Nat]
      BY <1>11, Zenon DEF HeapOf
    <3>. QED
      BY <3>1, <3>2
  <2>4. ASSUME NEW q \in AllReps PROVE d[q] = a[q]
    <3>1. OfOperands(k, 1, q) = OfOperands(join, 1, q) + (IF m.rep = q THEN 1 ELSE 0)
      BY <1>3, <1>4, <1>5, OperandsMore
    <3>2. OfStrings(of, q) \in Nat /\ OfOperands(join, 1, q) \in Nat
      BY <1>3, <1>6, CountsAre, Zenon
    <3>3. c[q] = OfStrings(of, q) + OfOperands(join, 1, q) + (IF q = Nil THEN 1 ELSE 0)
      BY <1>8 DEF Held
    <3>4. a[q] = OfStrings(of, q) + OfOperands(k, 1, q) + (IF q = Nil THEN 1 ELSE 0)
      BY <2>1 DEF Held
    <3>5. d[q] = IF q = of[y] THEN c[q] + 1 ELSE c[q]
      BY <1>9, <1>10
    <3>. QED
      BY <1>5, <3>1, <3>2, <3>3, <3>4, <3>5
  <2>5. d = a
    BY <2>3, <2>4
  <2>. QED
    BY <2>1, <2>5
<1>14. heap' \in Heaps /\ HeapOf(heap', Held(of, k, 1)) /\ t = (IF m.rep = None THEN m.chars ELSE heap[m.rep].buf)
  BY <1>5, <1>11, <1>13 DEF HeapOf
<1>15. Sound(of, heap', k, value, Extended(expr, t))
  BY <1>1, <1>2, <1>4, <1>5, <1>11, <1>14, SoundOperand
<1>16. join' = k /\ expr' = Extended(expr, t)
  BY <1>2, <1>4 DEF Extended
<1>. QED
  BY <1>2, <1>15, <1>16 DEF MsInv

(* An expression has some characters more.                                 *)
LEMMA CharsKeep ==
    ASSUME MS!MyStringAssumption, MsInv, MS!OperandChars
    PROVE  MsInv'
<1>1. Sound(of, heap, join, value, expr)
  BY DEF MsInv
<1>2. PICK c \in Bytes :
        join' = Append(join, [rep |-> None, chars |-> <<c>>]) /\ expr' = Append(expr, c)
  BY DEF MS!OperandChars
<1>3. Len(join) < MaxOperands /\ of' = of /\ heap' = heap /\ value' = value
  BY DEF MS!OperandChars
<1>4. /\ of \in [Strings -> AllReps] /\ join \in Joins /\ expr \in Seq(Letters)
      /\ HeapOf(heap, Held(of, join, 1))
  BY <1>1, Zenon DEF Sound
<1>5. PICK m, t, k : m = [rep |-> None, chars |-> t] /\ t = <<c>> /\ k = Append(join, m)
  OBVIOUS
<1>6. c \in Letters
  BY DEF Letters
<1>7. t \in Seq(Letters) /\ m \in Operands /\ m.rep = None /\ m.chars = t
  BY <1>5, <1>6 DEF Operands
<1>8. k \in Joins
  <2>1. join \in Seq(Operands)
    BY <1>4 DEF Joins
  <2>. QED
    BY <1>5, <1>7, <2>1, AppendProperties DEF Joins
<1>9. 1 \in Nat \ {0}
  OBVIOUS
<1>10. Held(of, k, 1) = Held(of, join, 1)
  <2>1. ASSUME NEW q \in AllReps PROVE OfOperands(k, 1, q) = OfOperands(join, 1, q)
    <3>1. OfOperands(k, 1, q) = OfOperands(join, 1, q) + (IF m.rep = q THEN 1 ELSE 0)
      BY <1>4, <1>5, <1>7, OperandsMore
    <3>2. OfOperands(join, 1, q) \in Nat
      BY <1>4, <1>9, CountsAre, Zenon
    <3>3. m.rep # q
      BY <1>7, MsSizes
    <3>. QED
      BY <3>1, <3>2, <3>3
  <2>. QED
    BY <2>1 DEF Held
<1>11. heap \in Heaps /\ HeapOf(heap, Held(of, k, 1)) /\ t = (IF m.rep = None THEN m.chars ELSE heap[m.rep].buf)
       /\ \A q \in AllReps : heap[q].buf = heap[q].buf
  BY <1>4, <1>7, <1>10 DEF HeapOf
<1>12. Sound(of, heap, k, value, Extended(expr, t))
  BY <1>1, <1>3, <1>5, <1>7, <1>11, SoundOperand
<1>13. join' = k /\ expr' = Extended(expr, t)
  <2>1. Append(expr, c) = expr \o <<c>>
    BY <1>4, <1>6, AppendIsConcat
  <2>. QED
    BY <1>2, <1>5, <2>1 DEF Extended
<1>. QED
  BY <1>3, <1>12, <1>13 DEF MsInv

(* An expression is assigned to a string.                                  *)
LEMMA JoinKeeps ==
    ASSUME MS!MyStringAssumption, MsInv, NEW x \in Strings, MS!AssignJoin(x)
    PROVE  MsInv'
<1>1. Sound(of, heap, join, value, expr)
  BY DEF MsInv
<1>2. MS!Traverse = expr
  BY <1>1, TraverseIs DEF Sound
<1>3. PICK r, g : MS!Dup(heap, expr) = [rep |-> r, heap |-> g]
  BY DupHas, Zenon
<1>4. of' = [of EXCEPT ![x] = r]
  <2>1. MS!Dup(heap, MS!Traverse).rep = r
    BY <1>2, <1>3
  <2>. QED
    BY <2>1, Zenon DEF MS!AssignJoin
<1>5. heap' = Parted(MS!Detach(g, of[x]), join)
  <2>1. MS!Dup(heap, MS!Traverse).heap = g
    BY <1>2, <1>3
  <2>. QED
    BY <2>1, Zenon DEF MS!AssignJoin, Parted
<1>6. value' = [value EXCEPT ![x] = expr] /\ join' = <<>> /\ expr' = <<>>
  BY DEF MS!AssignJoin
<1>7. Sound(of', heap', <<>>, value', <<>>)
  BY <1>1, <1>3, <1>4, <1>5, <1>6, SoundJoined
<1>. QED
  BY <1>6, <1>7 DEF MsInv

(* Every step keeps the invariant.                                         *)
LEMMA StringsStep ==
    ASSUME MS!MyStringAssumption, MsInv, [MS!Next]_(MS!vars)
    PROVE  MsInv'
<1>1. Sound(of, heap, join, value, expr)
  BY DEF MsInv
<1>2. /\ value \in [Strings -> Seq(Letters)] /\ (\A y \in Strings : heap[of[y]].buf = value[y])
  BY <1>1, Zenon DEF Sound
<1>3. \A x \in Strings : MS!Text(x) = value[x] /\ value[x] \in Seq(Letters)
  BY <1>2 DEF MS!Text
<1>4. ASSUME NEW x \in Strings, NEW y \in Strings, MS!AssignString(x, y) PROVE MsInv'
  <2>1. value' = [value EXCEPT ![x] = value[y]] /\ UNCHANGED <<join, expr>>
    BY <1>4 DEF MS!AssignString
  <2>2. CASE of[x] = of[y]
    <3>1. of' = of /\ heap' = heap
      BY <1>4, <2>2 DEF MS!AssignString
    <3>2. value[x] = value[y]
      BY <1>2, <2>2
    <3>3. value' = value
      BY <1>2, <2>1, <3>2
    <3>. QED
      BY <1>1, <2>1, <3>1, <3>3 DEF MsInv
  <2>3. CASE of[x] # of[y]
    <3>1. MS!Assign(heap, x, value[y])
      BY <1>3, <1>4, <2>3 DEF MS!AssignString
    <3>. QED
      BY <1>3, <2>1, <3>1, AssignKeeps
  <2>. QED
    BY <2>2, <2>3
<1>5. ASSUME NEW x \in Strings, NEW y \in Strings, MS!AppendString(x, y) PROVE MsInv'
  <2>1. MS!Appended(x, value[y]) /\ value' = [value EXCEPT ![x] = value[x] \o value[y]] /\ UNCHANGED <<join, expr>>
    BY <1>3, <1>5 DEF MS!AppendString
  <2>. QED
    BY <1>3, <2>1, AppendKeeps
<1>6. ASSUME NEW x \in Strings, NEW y \in Strings, MS!Derive(x, y) PROVE MsInv'
  <2>1. PICK s \in MS!Results(value[y]) : MS!Assign(heap, x, s) /\ value' = [value EXCEPT ![x] = s]
    BY <1>3, <1>6 DEF MS!Derive
  <2>2. UNCHANGED <<join, expr>>
    BY <1>6 DEF MS!Derive
  <2>3. s \in Seq(Letters)
    BY <1>3, <2>1, ResultsAre
  <2>. QED
    BY <2>1, <2>2, <2>3, AssignKeeps
<1>7. ASSUME NEW x \in Strings, MS!AppendChar(x) PROVE MsInv'
  <2>1. PICK c \in Bytes : MS!Appended(x, <<c>>) /\ value' = [value EXCEPT ![x] = Append(@, c)]
    BY <1>7 DEF MS!AppendChar
  <2>2. UNCHANGED <<join, expr>>
    BY <1>7 DEF MS!AppendChar
  <2>3. c \in Letters
    BY DEF Letters
  <2>4. <<c>> \in Seq(Letters) /\ Append(value[x], c) = value[x] \o <<c>>
    BY <1>3, <2>3, AppendIsConcat
  <2>5. value' = [value EXCEPT ![x] = value[x] \o <<c>>]
    BY <2>1, <2>4
  <2>. QED
    BY <2>1, <2>2, <2>4, <2>5, AppendKeeps
<1>8. ASSUME NEW x \in Strings, MS!Renew(x) PROVE MsInv'
  <2>1. /\ heap' = MS!Attach(MS!Detach(heap, of[x]), Nil) /\ of' = [of EXCEPT ![x] = Nil]
        /\ value' = [value EXCEPT ![x] = <<>>] /\ join' = join /\ expr' = expr
    BY <1>8 DEF MS!Renew
  <2>2. Sound(of', heap', join, value', expr)
    BY <1>1, <2>1, SoundRenewed
  <2>. QED
    BY <2>1, <2>2 DEF MsInv
<1>9. CASE UNCHANGED MS!vars
  BY <1>1, <1>9 DEF MS!vars, MsInv
<1>10. CASE MS!Next
  <2>1. \/ \E x, y \in Strings : MS!AssignString(x, y) \/ MS!AppendString(x, y) \/ MS!Derive(x, y)
        \/ \E x \in Strings : MS!AppendChar(x) \/ MS!Renew(x) \/ MS!Operand(x) \/ MS!AssignJoin(x)
        \/ MS!OperandChars
    BY <1>10 DEF MS!Next
  <2>. QED
    BY <1>4, <1>5, <1>6, <1>7, <1>8, <2>1, OperandKeeps, CharsKeep, JoinKeeps
<1>. QED
  BY <1>9, <1>10

(* The invariant implies the property.                                     *)
LEMMA StringsMean ==
    ASSUME MS!MyStringAssumption, MsInv
    PROVE  MS!StringsAreValues
<1>1. /\ of \in [Strings -> AllReps] /\ join \in Joins /\ HeapOf(heap, Held(of, join, 1))
      /\ (\A x \in Strings : heap[of[x]].buf = value[x]) /\ FlattenSeq(Pieces(heap, join)) = expr
  BY Zenon DEF MsInv, Sound
<1>2. MS!Traverse = expr
  BY <1>1, TraverseIs
<1>3. \A x \in Strings : MS!Text(x) = value[x]
  BY <1>1 DEF MS!Text
<1>4. ASSUME NEW r \in AllReps
      PROVE  /\ heap[r].refs = MS!Cardinality({x \in Strings : of[x] = r})
                               + MS!Cardinality({i \in DOMAIN join : join[i].rep = r})
                               + (IF r = Nil THEN 1 ELSE 0)
             /\ heap[r].refs > 0 => Len(heap[r].buf) < heap[r].size
  <2>1. heap[r].refs = Held(of, join, 1)[r]
        /\ (Held(of, join, 1)[r] > 0 => Len(heap[r].buf) < heap[r].size)
    BY <1>1 DEF HeapOf
  <2>2. \A S : MS!Cardinality(S) = Cardinality(S)
    BY DEF MS!Cardinality, Cardinality
  <2>3. DOMAIN join = 1..Len(join)
    BY <1>1, LenProperties DEF Joins
  <2>4. Held(of, join, 1)[r] = OfStrings(of, r) + OfOperands(join, 1, r) + (IF r = Nil THEN 1 ELSE 0)
    BY DEF Held
  <2>5. OfStrings(of, r) = Cardinality({x \in Strings : of[x] = r})
        /\ OfOperands(join, 1, r) = Cardinality({i \in DOMAIN join : join[i].rep = r})
    BY <2>3 DEF OfStrings, OfOperands, Holders
  <2>. QED
    BY <2>1, <2>2, <2>4, <2>5
<1>. QED
  BY <1>2, <1>3, <1>4 DEF MS!StringsAreValues, AllReps

(* A string is what it was given, whatever becomes of those it shared its  *)
(* representation with, an expression is what its operands were, and a     *)
(* representation is freed with its last reference and never before; for   *)
(* any strings, characters, sizes of buffers and number of operands        *)
(* (mystringrep::dup, append, attach, detach, mystringjoin).               *)
THEOREM StringsAreWhatTheyWereGiven ==
    ASSUME MS!MyStringAssumption
    PROVE  MS!Spec => []MS!StringsAreValues
<1>1. MS!Init => MsInv
  BY StringsStart
<1>2. MsInv /\ [MS!Next]_(MS!vars) => MsInv'
  BY StringsStep
<1>3. MsInv => MS!StringsAreValues
  BY StringsMean
<1>. QED
  BY <1>1, <1>2, <1>3, PTL DEF MS!Spec

-----------------------------------------------------------------------------
(* Options *)

(* Characters, and words of them.                                          *)
Letter == STRING \cup {"-", "="}
Word == Seq(Letter)

(* What an option is used as; what the variables are; what they may be     *)
(* while options are read.                                                 *)
Uses == {u \in [opt : Opts, form : OP!Forms, val : OptWords] :
           /\ u.form \in {"short", "joined"} => u.opt.ch # OP!NoLetter
           /\ u.form \in {"long", "equals"} => u.opt.name # OP!NoName
           /\ u.opt.type \in OP!Switches => u.form # "equals"
           /\ u.form = "joined" => u.val # <<>>}
Settled ==
    {v \in [OP!Vars -> OP!Settings] :
       \A o \in Opts : /\ o.type \in OP!Switches => v[o.var] \in Int
                       /\ o.type = "list" => v[o.var] \in Seq(OptWords)}
MaySettle == Settled \cup {None}

(* What the use u makes of the variables.                                  *)
Setting(v, u) == IF v = None THEN None ELSE OP!SetTo(v, u.opt, u.val)

(* What the uses us make of the variables, one after another.              *)
Set(r, us) ==
    /\ r \in [0..Len(us) -> MaySettle] /\ r[0] = OP!Defaults
    /\ \A i \in 1..Len(us) : r[i] = Setting(r[i - 1], us[i])

(* The words ws say u from the place of word a and letter t on to that of  *)
(* b and s: as a letter of a word of switches, as one that ends a word and *)
(* has its value after it or in the next word, or as a name.               *)
Switch(u) == u.opt.type \in OP!Switches

AsLetter(ws, u, a, t, b, s) ==
    \E i \in Nat :
      /\ i = (IF t = 0 THEN 1 ELSE t) + 1 /\ i <= Len(ws[a + 1])
      /\ ws[a + 1][1] = "-" /\ ws[a + 1][2] # "-" /\ ws[a + 1][i] = u.opt.ch
      /\ u.form \in {"short", "joined"}
      /\ \/ Switch(u) /\ i = Len(ws[a + 1]) /\ b = a + 1 /\ s = 0
         \/ Switch(u) /\ i < Len(ws[a + 1]) /\ b = a /\ s = i
         \/ /\ ~Switch(u) /\ u.form = "joined" /\ i < Len(ws[a + 1])
            /\ SubSeq(ws[a + 1], i + 1, Len(ws[a + 1])) = u.val /\ b = a + 1 /\ s = 0
         \/ /\ ~Switch(u) /\ u.form = "short" /\ i = Len(ws[a + 1])
            /\ a + 2 <= Len(ws) /\ ws[a + 2] = u.val /\ b = a + 2 /\ s = 0

Dashes == <<"-", "-">>

AsName(ws, u, a, t, b, s) ==
    /\ t = 0 /\ s = 0
    /\ \/ /\ u.form = "long" /\ Switch(u) /\ ws[a + 1] = Dashes \o u.opt.name /\ b = a + 1
       \/ /\ u.form = "long" /\ ~Switch(u) /\ ws[a + 1] = Dashes \o u.opt.name
          /\ a + 2 <= Len(ws) /\ ws[a + 2] = u.val /\ b = a + 2
       \/ /\ u.form = "equals" /\ ~Switch(u) /\ b = a + 1
          /\ ws[a + 1] = Dashes \o u.opt.name \o <<"=">> \o u.val

Says(ws, u, a, t, b, s) ==
    /\ a + 1 <= Len(ws)
    /\ AsLetter(ws, u, a, t, b, s) \/ AsName(ws, u, a, t, b, s)

(* The words ws say the uses us, and stop after m words; w and l are the   *)
(* places between them.                                                    *)
SayAll(ws, us, w, l, m) ==
    /\ w \in [0..Len(us) -> 0..Len(ws)] /\ l \in [0..Len(us) -> Nat]
    /\ w[0] = 0 /\ l[0] = 0 /\ w[Len(us)] = m /\ l[Len(us)] = 0
    /\ \A i \in 1..Len(us) : Says(ws, us[i], w[i - 1], l[i - 1], w[i], l[i])

(* What follows the options.                                               *)
Stop == {<<"-">>, Dashes}
Follows(rest) ==
    \/ rest = operands /\ (operands # <<>> => ~OP!Option(operands[1]))
    \/ \E stop \in Stop : rest = <<stop>> \o operands

(* What has been read of ws are the first k uses.                          *)
HasRead(r, ws, w, l, k) ==
    /\ Set(r, uses) /\ ws \in Seq(Word) /\ k \in 0..Len(uses)
    /\ \E m \in 0..Len(ws) : SayAll(ws, uses, w, l, m) /\ Follows(SubSeq(ws, m + 1, Len(ws)))
    /\ argv = SubSeq(ws, w[k] + 1, Len(ws)) /\ at = l[k]
    /\ vals = r[k] /\ vals # None

(* What the assumption says of options.                                    *)
LEMMA OpSizes ==
    ASSUME OP!OptionsAssumption
    PROVE  /\ OptWords \subseteq Seq(STRING) /\ None \notin [OP!Vars -> OP!Settings]
           /\ \A o \in Opts :
                /\ o.ch \in STRING /\ o.ch # "-" /\ o.name \in Seq(STRING \ {"="})
                /\ o.var \in OP!Vars /\ o.value \in Int
                /\ o.type \in {"flag", "counter", "help", "string", "integer", "list"}
           /\ \A o, p \in Opts : /\ o.ch = p.ch /\ o.ch # OP!NoLetter => o = p
                                 /\ o.name = p.name /\ o.name # OP!NoName => o = p
                                 /\ o.var = p.var => o.type = p.type
BY DEF OP!OptionsAssumption, OP!Vars

(* What a use of an option is.                                             *)
LEMMA UseHas ==
    ASSUME NEW u \in Uses
    PROVE  /\ u.opt \in Opts /\ u.form \in {"short", "joined", "long", "equals"}
           /\ u.val \in OptWords
           /\ u.form \in {"short", "joined"} => u.opt.ch # OP!NoLetter
           /\ u.form \in {"long", "equals"} => u.opt.name # OP!NoName
           /\ Switch(u) => u.form # "equals"
           /\ u.form = "joined" => u.val # <<>>
BY DEF Uses, OP!Forms, Switch

(* The variables have their defaults at first, and are never none.         *)
LEMMA SettledIsOne ==
    ASSUME OP!OptionsAssumption
    PROVE  None \notin Settled /\ OP!Defaults \in Settled
<1>1. None \notin Settled
  BY OpSizes DEF Settled
<1>2. PICK d : d = OP!Defaults
  OBVIOUS
<1>3. /\ d \in [OP!Vars -> OP!Settings]
      /\ \A o \in Opts : d[o.var] = CASE o.type \in OP!Switches -> 0
                                      [] o.type = "list" -> <<>>
                                      [] OTHER -> None
  <2>1. ASSUME NEW o \in Opts
        PROVE  /\ o.var \in OP!Vars /\ OP!Type(o.var) = o.type
               /\ (CASE o.type \in OP!Switches -> 0
                     [] o.type = "list" -> <<>>
                     [] OTHER -> None) \in OP!Settings
    <3>1. <<>> \in Seq(OptWords)
      BY EmptySeq
    <3>2. o.var \in OP!Vars /\ \A p \in Opts : p.var = o.var => p.type = o.type
      BY OpSizes
    <3>. QED
      BY <3>1, <3>2 DEF OP!Settings, OP!Type
  <2>2. ASSUME NEW x \in OP!Vars
        PROVE  (CASE OP!Type(x) \in OP!Switches -> 0
                  [] OP!Type(x) = "list" -> <<>>
                  [] OTHER -> None) \in OP!Settings
    <3>1. PICK o \in Opts : o.var = x
      BY DEF OP!Vars
    <3>. QED
      BY <2>1, <3>1
  <2>3. d \in [OP!Vars -> OP!Settings]
    BY <1>2, <2>2 DEF OP!Defaults
  <2>. QED
    BY <1>2, <2>1, <2>3 DEF OP!Defaults
<1>4. ASSUME NEW o \in Opts
      PROVE  /\ o.type \in OP!Switches => d[o.var] \in Int
             /\ o.type = "list" => d[o.var] \in Seq(OptWords)
  <2>1. CASE o.type \in OP!Switches
    <3>1. d[o.var] = 0 /\ o.type # "list"
      BY <1>3, <2>1 DEF OP!Switches
    <3>. QED
      BY <3>1
  <2>2. CASE o.type = "list"
    <3>1. d[o.var] = <<>> /\ o.type \notin OP!Switches
      BY <1>3, <2>2 DEF OP!Switches
    <3>. QED
      BY <3>1, EmptySeq
  <2>. QED
    BY <2>1, <2>2
<1>5. d \in Settled
  BY <1>3, <1>4 DEF Settled
<1>. QED
  BY <1>1, <1>2, <1>5

(* One variable is set; all options that set it are alike.                 *)
LEMMA OneIsSet ==
    ASSUME OP!OptionsAssumption, NEW v \in Settled, NEW o \in Opts, NEW x \in OP!Settings,
           o.type \in OP!Switches => x \in Int, o.type = "list" => x \in Seq(OptWords)
    PROVE  [v EXCEPT ![o.var] = x] \in Settled
<1>1. PICK n : n = [v EXCEPT ![o.var] = x]
  OBVIOUS
<1>2. /\ v \in [OP!Vars -> OP!Settings]
      /\ \A p \in Opts : /\ p.type \in OP!Switches => v[p.var] \in Int
                         /\ p.type = "list" => v[p.var] \in Seq(OptWords)
  BY DEF Settled
<1>3. \A p \in Opts : p.var \in OP!Vars /\ (p.var = o.var => p.type = o.type)
  BY OpSizes
<1>4. /\ n \in [OP!Vars -> OP!Settings] /\ n[o.var] = x
      /\ \A p \in Opts : p.var # o.var => n[p.var] = v[p.var]
  BY <1>1, <1>2, <1>3
<1>5. ASSUME NEW p \in Opts
      PROVE  /\ p.type \in OP!Switches => n[p.var] \in Int
             /\ p.type = "list" => n[p.var] \in Seq(OptWords)
  <2>1. CASE p.var = o.var
    BY <1>3, <1>4, <2>1
  <2>2. CASE p.var # o.var
    BY <1>2, <1>4, <2>2
  <2>. QED
    BY <2>1, <2>2
<1>6. n \in Settled
  BY <1>4, <1>5 DEF Settled
<1>. QED
  BY <1>1, <1>6

(* An option sets its variable, or cannot.                                 *)
LEMMA SetToIs ==
    ASSUME OP!OptionsAssumption, NEW v \in Settled, NEW o \in Opts, NEW arg \in OptWords
    PROVE  OP!SetTo(v, o, arg) \in MaySettle
<1>1. v[o.var] \in OP!Settings /\ (o.type \in OP!Switches => v[o.var] \in Int)
      /\ (o.type = "list" => v[o.var] \in Seq(OptWords))
  BY OpSizes DEF Settled
<1>2. o.value \in Int /\ o.type \in {"flag", "counter", "help", "string", "integer", "list"}
  BY OpSizes
<1>3. arg \in OP!Settings
  BY DEF OP!Settings
<1>4. CASE o.type \in {"flag", "help"}
  <2>1. OP!SetTo(v, o, arg) = [v EXCEPT ![o.var] = o.value]
    BY <1>4 DEF OP!SetTo
  <2>2. o.value \in OP!Settings /\ o.type # "list"
    BY <1>2, <1>4 DEF OP!Settings
  <2>3. [v EXCEPT ![o.var] = o.value] \in Settled
    BY <1>2, <2>2, OneIsSet
  <2>. QED
    BY <2>1, <2>3 DEF MaySettle
<1>5. CASE o.type = "counter"
  <2>1. v[o.var] \in Int
    BY <1>1, <1>5 DEF OP!Switches
  <2>2. PICK x : x = v[o.var] + o.value
    OBVIOUS
  <2>3. x \in Int
    BY <1>2, <2>1, <2>2
  <2>4. OP!SetTo(v, o, arg) = [v EXCEPT ![o.var] = x]
    BY <1>5, <2>2 DEF OP!SetTo
  <2>5. x \in OP!Settings /\ o.type # "list"
    BY <2>3, <1>5 DEF OP!Settings
  <2>6. [v EXCEPT ![o.var] = x] \in Settled
    BY <2>3, <2>5, OneIsSet
  <2>. QED
    BY <2>4, <2>6 DEF MaySettle
<1>6. CASE o.type = "integer" \/ o.type = "string"
  <2>1. o.type \notin OP!Switches /\ o.type # "list"
    BY <1>6 DEF OP!Switches
  <2>2. [v EXCEPT ![o.var] = arg] \in Settled
    BY <1>3, <2>1, OneIsSet
  <2>3. OP!SetTo(v, o, arg) = [v EXCEPT ![o.var] = arg] \/ OP!SetTo(v, o, arg) = None
    BY <1>6 DEF OP!SetTo
  <2>. QED
    BY <2>2, <2>3 DEF MaySettle
<1>7. CASE o.type = "list"
  <2>1. PICK x : x = Append(v[o.var], arg)
    OBVIOUS
  <2>2. x \in Seq(OptWords)
    BY <1>1, <1>7, <2>1, AppendProperties
  <2>3. OP!SetTo(v, o, arg) = [v EXCEPT ![o.var] = x]
    BY <1>7, <2>1 DEF OP!SetTo
  <2>4. x \in OP!Settings /\ o.type \notin OP!Switches
    BY <1>7, <2>2 DEF OP!Settings, OP!Switches
  <2>5. [v EXCEPT ![o.var] = x] \in Settled
    BY <2>2, <2>4, OneIsSet
  <2>. QED
    BY <2>3, <2>5 DEF MaySettle
<1>. QED
  BY <1>2, <1>4, <1>5, <1>6, <1>7

(* A switch sets the same, whatever value it is given, and always.         *)
LEMMA SwitchIs ==
    ASSUME OP!OptionsAssumption, NEW v \in Settled, NEW u \in Uses, Switch(u)
    PROVE  OP!SetTo(v, u.opt, <<>>) = OP!SetTo(v, u.opt, u.val)
           /\ OP!SetTo(v, u.opt, u.val) # None
<1>1. u.opt \in Opts /\ u.val \in OptWords /\ u.opt.type \in {"flag", "counter", "help"}
  BY UseHas DEF Switch, OP!Switches
<1>2. OP!SetTo(v, u.opt, <<>>) = OP!SetTo(v, u.opt, u.val)
  BY <1>1 DEF OP!SetTo
<1>3. PICK o : o = u.opt
  OBVIOUS
<1>4. v \in [OP!Vars -> OP!Settings] /\ v[o.var] \in Int /\ o.value \in Int
  BY <1>1, <1>3, OpSizes DEF Settled, OP!Switches
<1>5. \E x \in Int : OP!SetTo(v, o, u.val) = [v EXCEPT ![o.var] = x]
  <2>1. PICK x, y : x = v[o.var] + o.value /\ y = o.value
    OBVIOUS
  <2>2. x \in Int /\ y \in Int
    BY <1>4, <2>1
  <2>3. \/ OP!SetTo(v, o, u.val) = [v EXCEPT ![o.var] = x]
        \/ OP!SetTo(v, o, u.val) = [v EXCEPT ![o.var] = y]
    BY <1>1, <1>3, <2>1 DEF OP!SetTo
  <2>. QED
    BY <2>2, <2>3
<1>6. PICK x \in Int : OP!SetTo(v, o, u.val) = [v EXCEPT ![o.var] = x]
  BY <1>5
<1>7. [v EXCEPT ![o.var] = x] \in Settled
  <2>1. x \in OP!Settings /\ o.type # "list" /\ o \in Opts
    BY <1>1, <1>3 DEF OP!Settings
  <2>. QED
    BY <2>1, OneIsSet
<1>. QED
  BY <1>2, <1>3, <1>6, <1>7, SettledIsOne

(* A use leaves variables, or none.                                        *)
LEMMA SettingIs ==
    ASSUME OP!OptionsAssumption, NEW v \in MaySettle, NEW u \in Uses
    PROVE  Setting(v, u) \in MaySettle
<1>1. u.opt \in Opts /\ u.val \in OptWords
  BY UseHas
<1>. QED
  BY <1>1, SetToIs DEF Setting, MaySettle

(* The variables that the uses us mean.                                    *)
AllSet(us) ==
    OP!FoldLeft(LAMBDA v, u : IF v = None THEN None ELSE OP!SetTo(v, u.opt, u.val), OP!Defaults, us)

(* The uses are made one after another.                                    *)
LEMMA SetRuns ==
    ASSUME OP!OptionsAssumption, NEW us \in Seq(Uses)
    PROVE  \E r : Set(r, us) /\ AllSet(us) = r[Len(us)]
<1> DEFINE A == MaySettle
           b == OP!Defaults
           p == Len(us)
           D == 1..p
           G == [s \in D |-> [x \in A |-> Setting(x, us[s])]]
           F(h) == h = [s \in SUBSET D |->
                          IF s = {} THEN b ELSE Setting(h[s \ {Max(s)}], us[Max(s)])]
           c == CHOOSE h : F(h)
           V == AllSet(us)
<1>1. p \in Nat /\ DOMAIN us = D /\ \A s \in D : us[s] \in Uses
  BY LenProperties, ElementOfSeq
<1>2. V = c[D]
  <2>1. \A s : OP!Max(s) = Max(s)
    BY DEF OP!Max, Max
  <2> HIDE DEF D
  <2>. QED
    BY <1>1, <2>1, Zenon DEF AllSet, OP!FoldLeft, OP!MapThenFoldSet, Setting
<1>3. G \in [D -> [A -> A]] /\ \A s \in D, x \in A : G[s][x] = Setting(x, us[s])
  <2>1. \A s \in D, x \in A : Setting(x, us[s]) \in A
    BY <1>1, SettingIs
  <2> HIDE DEF A, D
  <2>. QED
    BY <2>1
<1> HIDE DEF G, V
<1>4. b \in A
  BY SettledIsOne DEF MaySettle
<1> HIDE DEF A, b, c
<1>5. \A s \in SUBSET D : s # {} => Max(s) \in D /\ s \ {Max(s)} \in SUBSET D
  BY <1>1, MaxIn
<1>6. F(c)
  <2>1. PICK h \in [SUBSET D -> A] :
          h = [s \in SUBSET D |-> IF s = {} THEN b ELSE G[Max(s)][h[s \ {Max(s)}]]]
    <3>1. \E h \in [SUBSET D -> A] : IsFold(h, p, b, G)
      BY <1>1, <1>3, <1>4, FoldExists
    <3>. QED
      BY <3>1 DEF IsFold
  <2>2. ASSUME NEW s \in SUBSET D
        PROVE  (IF s = {} THEN b ELSE G[Max(s)][h[s \ {Max(s)}]])
               = IF s = {} THEN b ELSE Setting(h[s \ {Max(s)}], us[Max(s)])
    BY <1>3, <1>5, <2>1
  <2> HIDE DEF D
  <2>3. F(h)
    BY <2>1, <2>2
  <2> HIDE DEF F
  <2>. QED
    BY <2>3 DEF c
<1>7. PICK r \in [0..p -> A] : IsRun(r, p, b, G)
  BY <1>1, <1>3, <1>4, Running
<1>8. c[D] = r[p]
  <2>1. c[{}] = b
    BY <1>6
  <2>2. ASSUME NEW s \in SUBSET D, s # {}, c[s \ {Max(s)}] \in A
        PROVE  c[s] = G[Max(s)][c[s \ {Max(s)}]]
    <3>1. c[s] = Setting(c[s \ {Max(s)}], us[Max(s)])
      BY <1>6, <2>2, Zenon
    <3>. QED
      BY <1>3, <1>5, <2>2, <3>1
  <2>3. FoldsUp(c, p, A, b, G)
    BY <2>1, <2>2 DEF FoldsUp
  <2> HIDE DEF F, D
  <2>4. r \in [0..p -> A] /\ IsRun(r, p, b, G) /\ G \in [1..p -> [A -> A]] /\ p \in Nat
    BY <1>1, <1>3, <1>7 DEF D
  <2>5. c[1..p] = r[p]
    BY <1>4, <2>3, <2>4, FoldRuns
  <2>. QED
    BY <2>5 DEF D
<1>9. \A s \in 1..p : r[s] = Setting(r[s - 1], us[s])
  <2>1. \A s \in 1..p : s - 1 \in 0..p /\ r[s] = G[s][r[s - 1]]
    BY <1>1, <1>7 DEF IsRun
  <2>. QED
    BY <1>3, <2>1
<1>. QED
  <2>1. r \in [0..Len(us) -> MaySettle] /\ r[0] = OP!Defaults
    BY <1>7 DEF IsRun, A, b
  <2>2. Set(r, us)
    BY <1>9, <2>1 DEF Set
  <2>. QED
    BY <1>2, <1>8, <2>2 DEF V

(* There is only one way to make them.                                     *)
LEMMA SetOnce ==
    ASSUME NEW us \in Seq(Uses), NEW r, NEW q, Set(r, us), Set(q, us)
    PROVE  r[Len(us)] = q[Len(us)]
<1> DEFINE n == Len(us)
           T == {k \in 0..n : r[k] = q[k]}
<1>1. n \in Nat
  BY LenProperties
<1>2. r[0] = q[0]
      /\ \A i \in 1..n : r[i] = Setting(r[i - 1], us[i]) /\ q[i] = Setting(q[i - 1], us[i])
  BY DEF Set
<1> HIDE DEF n
<1>3. 0 \in T
  BY <1>1, <1>2
<1>4. ASSUME NEW k \in 0..n - 1, k \in T PROVE k + 1 \in T
  <2>1. k + 1 \in 1..n /\ k + 1 \in 0..n /\ (k + 1) - 1 = k /\ r[k] = q[k]
    BY <1>1, <1>4
  <2>2. r[k + 1] = Setting(r[k], us[k + 1]) /\ q[k + 1] = Setting(q[k], us[k + 1])
    BY <1>2, <2>1
  <2>. QED
    BY <2>1, <2>2
<1>5. 0..n \subseteq T
  <2> HIDE DEF T
  <2>. QED
    BY <1>1, <1>3, <1>4, InductionTo
<1>. QED
  BY <1>1, <1>5 DEF n

(* What has failed once has failed.                                        *)
LEMMA FailsOnce ==
    ASSUME NEW us \in Seq(Uses), NEW r, Set(r, us), NEW k \in 0..Len(us), r[k] = None
    PROVE  r[Len(us)] = None
<1> DEFINE n == Len(us)
           T == {i \in 0..n : i >= k => r[i] = None}
<1>1. n \in Nat /\ k \in 0..n
  BY LenProperties
<1>2. \A i \in 1..n : r[i] = Setting(r[i - 1], us[i])
  BY DEF Set
<1> HIDE DEF n
<1>3. 0 \in T
  BY <1>1
<1>4. ASSUME NEW i \in 0..n - 1, i \in T PROVE i + 1 \in T
  <2>1. i + 1 \in 1..n /\ i + 1 \in 0..n /\ (i + 1) - 1 = i
    BY <1>1
  <2>2. CASE i + 1 = k
    BY <2>1, <2>2
  <2>3. CASE i + 1 # k
    <3>1. r[i + 1] = Setting(r[i], us[i + 1])
      BY <1>2, <2>1
    <3>2. i + 1 >= k => r[i] = None
      BY <1>1, <1>4, <2>3
    <3>. QED
      BY <2>1, <3>1, <3>2 DEF Setting
  <2>. QED
    BY <2>2, <2>3
<1>5. 0..n \subseteq T
  <2> HIDE DEF T
  <2>. QED
    BY <1>1, <1>3, <1>4, InductionTo
<1>. QED
  BY <1>1, <1>5 DEF n

(* What words say depends on them alone.                                   *)
LEMMA SaysAgain ==
    ASSUME NEW ws, NEW vs, NEW u, NEW a \in Nat, NEW t, NEW b, NEW s, Says(ws, u, a, t, b, s),
           Len(ws) \in Nat, Len(vs) \in Nat, Len(ws) <= Len(vs), \A i \in 1..Len(ws) : vs[i] = ws[i]
    PROVE  Says(vs, u, a, t, b, s)
<1>1. a + 1 <= Len(ws) /\ a + 1 <= Len(vs) /\ vs[a + 1] = ws[a + 1]
  BY DEF Says
<1>2. a + 2 <= Len(ws) => a + 2 <= Len(vs) /\ vs[a + 2] = ws[a + 2]
  OBVIOUS
<1>3. AsLetter(ws, u, a, t, b, s) => AsLetter(vs, u, a, t, b, s)
  BY <1>1, <1>2 DEF AsLetter
<1>4. AsName(ws, u, a, t, b, s) => AsName(vs, u, a, t, b, s)
  BY <1>1, <1>2 DEF AsName
<1>. QED
  BY <1>1, <1>3, <1>4 DEF Says

(* The next place is not before this one.                                  *)
LEMMA SaysOn ==
    ASSUME NEW ws, NEW u, NEW a \in Nat, NEW t, NEW b,
           NEW s, Says(ws, u, a, t, b, s), Len(ws) \in Nat
    PROVE  a <= b /\ b <= Len(ws) /\ b \in Nat
<1>1. a + 1 <= Len(ws) /\ (b = a \/ b = a + 1 \/ (b = a + 2 /\ a + 2 <= Len(ws)))
  BY DEF Says, AsLetter, AsName
<1>. QED
  BY <1>1

(* How a use is written.                                                   *)
Wrote(u, e) ==
    /\ e \in Seq(Word)
    /\ \/ Switch(u) /\ u.form \in {"short", "joined"} /\ Len(e) = 1 /\ e[1] = <<"-", u.opt.ch>>
       \/ Switch(u) /\ u.form = "long" /\ Len(e) = 1 /\ e[1] = Dashes \o u.opt.name
       \/ ~Switch(u) /\ u.form = "joined" /\ Len(e) = 1 /\ e[1] = <<"-", u.opt.ch>> \o u.val
       \/ ~Switch(u) /\ u.form = "short" /\ Len(e) = 2 /\ e[1] = <<"-", u.opt.ch>> /\ e[2] = u.val
       \/ /\ ~Switch(u) /\ u.form = "long" /\ Len(e) = 2
          /\ e[1] = Dashes \o u.opt.name /\ e[2] = u.val
       \/ ~Switch(u) /\ u.form = "equals" /\ Len(e) = 1
          /\ e[1] = Dashes \o u.opt.name \o <<"=">> \o u.val

(* Values, names, letters and dashes are words.                            *)
LEMMA TextIsWord ==
    ASSUME OP!OptionsAssumption
    PROVE  /\ OptWords \subseteq Word
           /\ \A o \in Opts : o.name \in Word /\ o.ch \in Letter /\ <<"-", o.ch>> \in Word
           /\ Dashes \in Word /\ <<"=">> \in Word
<1>1. Seq(STRING) \subseteq Word
  <2>1. STRING \subseteq Letter
    BY DEF Letter
  <2>. QED
    BY <2>1, SeqWider DEF Word
<1>2. STRING \ {"="} \subseteq Letter
  BY DEF Letter
<1>3. ASSUME NEW o \in Opts PROVE o.name \in Word /\ o.ch \in Letter /\ <<"-", o.ch>> \in Word
  <2>1. o.name \in Seq(STRING \ {"="}) /\ o.ch \in Letter /\ "-" \in Letter
    BY OpSizes DEF Letter
  <2>2. o.name \in Word
    BY <1>2, <2>1, SeqWider, Zenon DEF Word
  <2>3. <<"-", o.ch>> \in Word
    BY <2>1 DEF Word
  <2>. QED
    BY <2>1, <2>2, <2>3
<1>4. Dashes \in Word /\ <<"=">> \in Word
  BY DEF Dashes, Word, Letter
<1>5. OptWords \subseteq Word
  BY <1>1, OpSizes
<1>. QED
  BY <1>3, <1>4, <1>5

(* Two words joined are one.                                               *)
LEMMA WordsJoin ==
    ASSUME NEW x \in Word, NEW y \in Word
    PROVE  x \o y \in Word
BY ConcatProperties DEF Word

(* Spelled writes a use so.                                                *)
LEMMA SpelledIs ==
    ASSUME OP!OptionsAssumption, NEW u \in Uses
    PROVE  Wrote(u, OP!Spelled(u))
<1>1. PICK e : e = OP!Spelled(u)
  OBVIOUS
<1>2. /\ u.opt \in Opts /\ u.form \in {"short", "joined", "long", "equals"} /\ u.val \in OptWords
      /\ Switch(u) => u.form # "equals"
  BY UseHas, Zenon
<1>3. PICK c, d, n, v : c = <<"-", u.opt.ch>> /\ d = Dashes /\ n = d \o u.opt.name /\ v = u.val
  OBVIOUS
<1>4. c \in Word /\ n \in Word /\ v \in Word
  <2>1. c \in Word /\ d \in Word /\ u.opt.name \in Word /\ v \in Word
    BY <1>2, <1>3, TextIsWord
  <2>. QED
    BY <1>3, <2>1, WordsJoin
<1>5. PICK j, q : j = c \o v /\ q = n \o <<"=">> \o v
  OBVIOUS
<1>6. j \in Word /\ q \in Word
  <2>1. j \in Word
    BY <1>4, <1>5, WordsJoin
  <2>2. <<"=">> \in Word
    BY TextIsWord
  <2>3. n \o <<"=">> \in Word
    BY <1>4, <2>2, WordsJoin
  <2>4. q \in Word
    BY <1>4, <1>5, <2>3, WordsJoin
  <2>. QED
    BY <2>1, <2>4
<1>7. CASE u.form \in {"short", "joined"}
  <2>1. e = IF Switch(u) THEN <<c>> ELSE IF u.form = "joined" THEN <<j>> ELSE <<c, v>>
    BY <1>1, <1>3, <1>5, <1>7 DEF OP!Spelled, Switch
  <2>2. CASE Switch(u)
    <3>1. e = <<c>>
      BY <2>1, <2>2
    <3>2. e \in Seq(Word) /\ Len(e) = 1 /\ e[1] = c
      BY <1>4, <3>1
    <3>. QED
      BY <1>1, <1>3, <1>7, <2>2, <3>2 DEF Wrote
  <2>3. CASE ~Switch(u) /\ u.form = "joined"
    <3>1. e = <<j>>
      BY <2>1, <2>3
    <3>2. e \in Seq(Word) /\ Len(e) = 1 /\ e[1] = j
      BY <1>6, <3>1
    <3>. QED
      BY <1>1, <1>3, <1>5, <2>3, <3>2 DEF Wrote
  <2>4. CASE ~Switch(u) /\ u.form # "joined"
    <3>1. e = <<c, v>> /\ u.form = "short"
      BY <1>7, <2>1, <2>4
    <3>2. e \in Seq(Word) /\ Len(e) = 2 /\ e[1] = c /\ e[2] = v
      BY <1>4, <3>1
    <3>. QED
      BY <1>1, <1>3, <2>4, <3>1, <3>2 DEF Wrote
  <2>. QED
    BY <2>2, <2>3, <2>4
<1>8. CASE u.form = "long"
  <2>1. e = IF Switch(u) THEN <<n>> ELSE <<n, v>>
    BY <1>1, <1>3, <1>8 DEF OP!Spelled, Switch, Dashes
  <2>2. CASE Switch(u)
    <3>1. e = <<n>>
      BY <2>1, <2>2
    <3>2. e \in Seq(Word) /\ Len(e) = 1 /\ e[1] = n
      BY <1>4, <3>1
    <3>. QED
      BY <1>1, <1>3, <1>8, <2>2, <3>2 DEF Wrote
  <2>3. CASE ~Switch(u)
    <3>1. e = <<n, v>>
      BY <2>1, <2>3
    <3>2. e \in Seq(Word) /\ Len(e) = 2 /\ e[1] = n /\ e[2] = v
      BY <1>4, <3>1
    <3>. QED
      BY <1>1, <1>3, <1>8, <2>3, <3>2 DEF Wrote
  <2>. QED
    BY <2>2, <2>3
<1>9. CASE u.form = "equals"
  <2>1. e = <<q>> /\ ~Switch(u)
    BY <1>1, <1>2, <1>3, <1>5, <1>9 DEF OP!Spelled, Switch, Dashes
  <2>2. e \in Seq(Word) /\ Len(e) = 1 /\ e[1] = q
    BY <1>6, <2>1
  <2>. QED
    BY <1>1, <1>3, <1>5, <1>9, <2>1, <2>2 DEF Wrote
<1>. QED
  BY <1>2, <1>7, <1>8, <1>9

(* What a use is written as at the end of the words.                       *)
Lettered(w, c, v) ==
    /\ w \in Word /\ Len(w) = 2 + Len(v) /\ w[1] = "-" /\ w[2] = c
    /\ SubSeq(w, 3, Len(w)) = v /\ Len(v) \in Nat

(* A dash and a letter, and perhaps a value, is a word of one letter.      *)
LEMMA LetterWord ==
    ASSUME NEW c \in Letter, NEW v \in Word, NEW w, w = <<"-", c>> \o v
    PROVE  Lettered(w, c, v)
<1>1. PICK d : d = <<"-", c>>
  OBVIOUS
<1>2. d \in Seq(Letter) /\ Len(d) = 2 /\ d[1] = "-" /\ d[2] = c
  <2>1. "-" \in Letter
    BY DEF Letter
  <2>. QED
    BY <1>1, <2>1
<1>3. v \in Seq(Letter) /\ w = d \o v
  BY <1>1 DEF Word
<1>4. /\ w \in Seq(Letter) /\ Len(w) = Len(d) + Len(v) /\ Len(v) \in Nat
      /\ \A m \in 1..Len(d) : w[m] = d[m]
  BY <1>2, <1>3, ConcatPlaces
<1>5. SubSeq(d \o v, Len(d) + 1, Len(d) + Len(v)) = v
  BY <1>2, <1>3, JoinCut
<1>6. SubSeq(w, 3, Len(w)) = v
  BY <1>2, <1>3, <1>4, <1>5
<1>. QED
  BY <1>2, <1>4, <1>6 DEF Word, Lettered

(* The words e after ws say the use u, and those before stay.              *)
EndSays(vs, ws, u, e) ==
    /\ Says(vs, u, Len(ws), 0, Len(ws) + Len(e), 0)
    /\ Len(e) \in Nat \ {0} /\ vs \in Seq(Word) /\ Len(vs) = Len(ws) + Len(e)
    /\ Len(ws) \in Nat /\ \A i \in 1..Len(ws) : vs[i] = ws[i]

(* What is written of a use says it.                                       *)
LEMMA SaysEnd ==
    ASSUME OP!OptionsAssumption, NEW u \in Uses, NEW ws \in Seq(Word), NEW e, Wrote(u, e),
           NEW vs, vs = ws \o e
    PROVE  EndSays(vs, ws, u, e)
<1>1. PICK a : a = Len(ws)
  OBVIOUS
<1>2. e \in Seq(Word)
  BY DEF Wrote
<1>3. /\ vs \in Seq(Word) /\ Len(vs) = a + Len(e) /\ a \in Nat
      /\ \A m \in 1..a : vs[m] = ws[m]
      /\ \A m \in 1..Len(e) : vs[a + m] = e[m]
  BY <1>1, <1>2, ConcatPlaces
<1>4. (Len(e) = 1 \/ Len(e) = 2) /\ vs[a + 1] = e[1] /\ (Len(e) = 2 => vs[a + 2] = e[2])
  <2>1. (Len(e) = 1 \/ Len(e) = 2)
    BY DEF Wrote
  <2>. QED
    BY <1>3, <2>1
<1>5. /\ u.opt.ch \in Letter /\ u.opt.ch # "-" /\ u.val \in Word
      /\ u.form = "joined" => u.val # <<>>
  <2>1. u.opt \in Opts /\ u.val \in OptWords
    BY UseHas
  <2>. QED
    BY <2>1, OpSizes, TextIsWord, UseHas
<1>6. Says(vs, u, a, 0, a + Len(e), 0)
  <2>1. CASE /\ e[1] = <<"-", u.opt.ch>> /\ u.form \in {"short", "joined"}
             /\ \/ Switch(u) /\ Len(e) = 1
                \/ ~Switch(u) /\ u.form = "short" /\ Len(e) = 2 /\ e[2] = u.val
    <3>1. Len(e[1]) = 2 /\ e[1][1] = "-" /\ e[1][2] = u.opt.ch
      BY <2>1
    <3>2. AsLetter(vs, u, a, 0, a + Len(e), 0)
      <4>1. 2 \in Nat /\ 2 = (IF 0 = 0 THEN 1 ELSE 0) + 1 /\ 2 <= Len(vs[a + 1])
            /\ vs[a + 1][1] = "-" /\ vs[a + 1][2] # "-" /\ vs[a + 1][2] = u.opt.ch
            /\ 2 = Len(vs[a + 1])
        BY <1>4, <1>5, <3>1
      <4>2. a + 2 <= Len(vs) \/ Len(e) = 1
        BY <1>3, <2>1
      <4>. QED
        BY <1>3, <1>4, <2>1, <4>1, <4>2 DEF AsLetter
    <3>. QED
      BY <1>3, <1>4, <3>2 DEF Says
  <2>2. CASE ~Switch(u) /\ u.form = "joined" /\ Len(e) = 1 /\ e[1] = <<"-", u.opt.ch>> \o u.val
    <3>1. PICK y, c, v : y = e[1] /\ c = u.opt.ch /\ v = u.val
      OBVIOUS
    <3>2. /\ Len(y) = 2 + Len(u.val) /\ y[1] = "-" /\ y[2] = u.opt.ch
          /\ SubSeq(y, 3, Len(y)) = u.val /\ Len(u.val) \in Nat
      <4>1. c \in Letter /\ v \in Word /\ y = <<"-", c>> \o v
        BY <1>5, <2>2, <3>1
      <4>2. /\ Len(y) = 2 + Len(v) /\ y[1] = "-" /\ y[2] = c
            /\ SubSeq(y, 3, Len(y)) = v /\ Len(v) \in Nat
        BY <4>1, LetterWord DEF Lettered
      <4>. QED
        BY <3>1, <4>2
    <3>3. Len(u.val) # 0
      BY <1>5, <2>2, EmptySeq DEF Word
    <3>4. vs[a + 1] = y
      BY <1>4, <3>1
    <3>5. AsLetter(vs, u, a, 0, a + Len(e), 0)
      <4>1. 2 \in Nat /\ 2 = (IF 0 = 0 THEN 1 ELSE 0) + 1 /\ 2 <= Len(y) /\ 2 < Len(y)
            /\ SubSeq(y, 2 + 1, Len(y)) = u.val /\ a + Len(e) = a + 1
        BY <2>2, <3>2, <3>3
      <4>. QED
        BY <1>5, <2>2, <3>2, <3>4, <4>1 DEF AsLetter
    <3>. QED
      BY <1>3, <1>4, <3>5 DEF Says
  <2>3. CASE \/ Switch(u) /\ u.form = "long" /\ Len(e) = 1 /\ e[1] = Dashes \o u.opt.name
             \/ /\ ~Switch(u) /\ u.form = "long" /\ Len(e) = 2
                /\ e[1] = Dashes \o u.opt.name /\ e[2] = u.val
             \/ ~Switch(u) /\ u.form = "equals" /\ Len(e) = 1
                /\ e[1] = Dashes \o u.opt.name \o <<"=">> \o u.val
    <3>1. PICK y, q : y = Dashes \o u.opt.name /\ q = y \o <<"=">> \o u.val
      OBVIOUS
    <3>2. AsName(vs, u, a, 0, a + Len(e), 0)
      <4>1. Len(e) = 2 => a + 2 <= Len(vs)
        BY <1>3
      <4>. QED
        BY <1>4, <2>3, <4>1, Zenon DEF AsName
    <3>. QED
      BY <1>3, <1>4, <3>2 DEF Says
  <2>. QED
    BY <2>1, <2>2, <2>3 DEF Wrote
<1>. QED
  BY <1>1, <1>3, <1>4, <1>6 DEF EndSays

(* One place more.                                                         *)
Longer(g, f, n, x, S) ==
    g \in [0..n + 1 -> S] /\ g[n + 1] = x /\ \A i \in 0..n : g[i] = f[i]

(* There is one.                                                           *)
LEMMA PlaceMore ==
    ASSUME NEW S, NEW n \in Nat, NEW f \in [0..n -> S], NEW x \in S
    PROVE  \E g : Longer(g, f, n, x, S)
<1>1. PICK g : g = [i \in 0..n + 1 |-> IF i = n + 1 THEN x ELSE f[i]]
  OBVIOUS
<1>2. g \in [0..n + 1 -> S] /\ g[n + 1] = x /\ \A i \in 0..n : g[i] = f[i]
  BY <1>1
<1>. QED
  BY <1>2 DEF Longer

(* The words say one use more.                                             *)
LEMMA SayOneMore ==
    ASSUME NEW us \in Seq(Uses), NEW u \in Uses, NEW vs \in Seq(Word),
           NEW w \in [0..Len(us) -> 0..Len(vs)], NEW l \in [0..Len(us) -> Nat],
           w[0] = 0, l[0] = 0,
           \A i \in 1..Len(us) : Says(vs, us[i], w[i - 1], l[i - 1], w[i], l[i]),
           Says(vs, u, w[Len(us)], l[Len(us)], Len(vs), 0)
    PROVE  \E x, y : SayAll(vs, Append(us, u), x, y, Len(vs))
<1>1. PICK n, m : n = Len(us) /\ m = Len(vs)
  OBVIOUS
<1>2. PICK us2 : us2 = Append(us, u)
  OBVIOUS
<1>3. /\ us2 \in Seq(Uses) /\ n \in Nat /\ m \in Nat /\ Len(us2) = n + 1 /\ us2[n + 1] = u
      /\ \A i \in 1..n : us2[i] = us[i]
  BY <1>1, <1>2, AppendProperties, LenProperties
<1>4. n \in Nat /\ m \in Nat /\ 0 \in Nat
  BY <1>3
<1>5. w \in [0..n -> 0..m] /\ l \in [0..n -> Nat] /\ m \in 0..m
  BY <1>1, <1>4
<1>6. PICK x : Longer(x, w, n, m, 0..m)
  BY <1>5, <1>4, PlaceMore
<1>7. x \in [0..n + 1 -> 0..m] /\ x[n + 1] = m /\ \A i \in 0..n : x[i] = w[i]
  BY <1>6 DEF Longer
<1>8. PICK y : Longer(y, l, n, 0, Nat)
  BY <1>5, <1>4, PlaceMore
<1>9. y \in [0..n + 1 -> Nat] /\ y[n + 1] = 0 /\ \A i \in 0..n : y[i] = l[i]
  BY <1>8 DEF Longer
<1>10. ASSUME NEW i \in 1..n + 1 PROVE Says(vs, us2[i], x[i - 1], y[i - 1], x[i], y[i])
  <2>1. CASE i = n + 1
    <3>1. i - 1 = n /\ n \in 0..n
      BY <1>4, <2>1
    <3>. QED
      BY <1>1, <1>2, <1>3, <1>7, <1>9, <2>1, <3>1
  <2>2. CASE i # n + 1
    <3>1. i \in 1..n /\ i \in 0..n /\ i - 1 \in 0..n
      BY <1>4, <2>2
    <3>. QED
      BY <1>1, <1>2, <1>3, <1>7, <1>9, <1>4, <3>1
  <2>. QED
    BY <2>1, <2>2
<1>11. 0 \in 0..n
  BY <1>4
<1>12. SayAll(vs, us2, x, y, m)
  BY <1>1, <1>2, <1>3, <1>7, <1>9, <1>10, <1>11 DEF SayAll
<1>. QED
  BY <1>1, <1>2, <1>12

(* What does not go back at any step does not go back.                     *)
LEMMA PlacesOn ==
    ASSUME NEW n \in Nat, NEW w, \A i \in 0..n : w[i] \in Nat, \A i \in 1..n : w[i - 1] <= w[i],
           NEW k \in 0..n
    PROVE  w[k] <= w[n]
<1> DEFINE T == {i \in 0..n : w[n - i] <= w[n]}
<1>1. 0 \in T
  OBVIOUS
<1>2. ASSUME NEW i \in 0..n - 1, i \in T PROVE i + 1 \in T
  <2>1. PICK j : j = n - i
    OBVIOUS
  <2>2. j \in 1..n /\ j - 1 \in 0..n /\ n - (i + 1) = j - 1 /\ i + 1 \in 0..n /\ j \in 0..n
        /\ n \in 0..n
    BY <2>1
  <2>3. w[j] <= w[n] /\ w[j - 1] \in Nat /\ w[j] \in Nat /\ w[n] \in Nat /\ w[j - 1] <= w[j]
    BY <1>2, <2>1, <2>2
  <2>4. w[j - 1] <= w[n]
    BY <2>3
  <2>. QED
    BY <2>2, <2>4
<1>3. 0..n \subseteq T
  <2> HIDE DEF T
  <2>. QED
    BY <1>1, <1>2, InductionTo
<1>4. n - k \in 0..n /\ n - (n - k) = k
  OBVIOUS
<1>. QED
  BY <1>3, <1>4

(* A letter, and perhaps a value, joins the letters x of a word.           *)
GrownBy(y, x, c, v) ==
    /\ y \in Word /\ Len(x) \in Nat /\ Len(v) \in Nat /\ Len(y) = Len(x) + 1 + Len(v)
    /\ \A i \in 1..Len(x) : y[i] = x[i]
    /\ y[Len(x) + 1] = c /\ SubSeq(y, Len(x) + 1 + 1, Len(y)) = v

(* The word y is x and what follows the dash of e.                         *)
JoinedBy(y, x, e) == y = x \o SubSeq(e, 2, Len(e))

(* Such a word has grown so.                                               *)
LEMMA Growing ==
    ASSUME NEW x \in Word, NEW c \in Letter, NEW v \in Word, NEW e, Lettered(e, c, v),
           NEW y, JoinedBy(y, x, e)
    PROVE  GrownBy(y, x, c, v)
<1>1. e \in Seq(Letter) /\ Len(e) = 2 + Len(v) /\ e[2] = c /\ SubSeq(e, 3, Len(e)) = v
      /\ Len(v) \in Nat
  BY DEF Lettered, Word
<1>2. PICK z, k, b : z = SubSeq(e, b, Len(e)) /\ k = Len(v) /\ b = 2
  OBVIOUS
<1>3. z \in Seq(Letter) /\ Len(z) = k + 1 /\ \A j \in 1..k + 1 : z[j] = e[1 + j]
  <2>1. 1 \in Nat /\ Len(e) \in Nat /\ 1 <= Len(e) /\ Len(e) <= Len(e) /\ b = 1 + 1
        /\ Len(e) - 1 = k + 1
    BY <1>1, <1>2
  <2>2. z \in Seq(Letter) /\ Len(z) = Len(e) - 1 /\ \A j \in 1..Len(e) - 1 : z[j] = e[1 + j]
    BY <1>1, <1>2, <2>1, CutAs
  <2>. QED
    BY <2>1, <2>2
<1>4. \A j \in 1..k : v[j] = e[2 + j]
  <2>1. PICK d : d = 3
    OBVIOUS
  <2>2. 2 \in Nat /\ Len(e) \in Nat /\ 2 <= Len(e) /\ Len(e) <= Len(e) /\ d = 2 + 1
        /\ v = SubSeq(e, d, Len(e)) /\ Len(e) - 2 = k
    BY <1>1, <1>2, <2>1
  <2>3. \A j \in 1..Len(e) - 2 : v[j] = e[2 + j]
    BY <1>1, <2>2, CutAs
  <2>. QED
    BY <2>2, <2>3
<1>5. PICK a : a = Len(x)
  OBVIOUS
<1>6. /\ y \in Seq(Letter) /\ a \in Nat /\ Len(y) = a + (k + 1)
      /\ \A m \in 1..a : y[m] = x[m]
      /\ \A m \in 1..k + 1 : y[a + m] = z[m]
  <2>1. x \in Seq(Letter) /\ y = x \o z
    BY <1>2 DEF Word, JoinedBy
  <2>2. z \in Seq(Letter)
    BY <1>3
  <2>3. /\ y \in Seq(Letter) /\ Len(y) = Len(x) + Len(z) /\ Len(x) \in Nat
        /\ \A m \in 1..Len(x) : y[m] = x[m]
        /\ \A m \in 1..Len(z) : y[Len(x) + m] = z[m]
    BY <2>1, <2>2, ConcatPlaces
  <2>. QED
    BY <1>3, <1>5, <2>3
<1>7. k \in Nat
  BY <1>1, <1>2
<1>8. y[a + 1] = c
  <2>1. 1 \in 1..k + 1 /\ 1 + 1 = 2
    BY <1>7
  <2>. QED
    BY <1>1, <1>3, <1>6, <2>1
<1>9. PICK b2, t : b2 = a + 1 + 1 /\ t = SubSeq(y, b2, Len(y))
  OBVIOUS
<1>10. t \in Seq(Letter) /\ Len(t) = k /\ \A j \in 1..k : t[j] = y[(a + 1) + j]
  <2>1. PICK d, n : d = a + 1 /\ n = Len(y)
    OBVIOUS
  <2>2. d \in Nat /\ n \in Nat /\ d <= n /\ n <= Len(y) /\ b2 = d + 1 /\ n - d = k
        /\ t = SubSeq(y, b2, n)
    BY <1>6, <1>7, <1>9, <2>1
  <2>3. t \in Seq(Letter) /\ Len(t) = n - d /\ \A j \in 1..n - d : t[j] = y[d + j]
    BY <1>6, <2>2, CutAs
  <2>. QED
    BY <2>1, <2>2, <2>3
<1>11. ASSUME NEW j \in 1..k PROVE t[j] = v[j]
  <2>1. j + 1 \in 1..k + 1 /\ (a + 1) + j = a + (j + 1) /\ 1 + (j + 1) = 2 + j
    BY <1>6, <1>7
  <2>2. t[j] = y[a + (j + 1)]
    BY <1>10, <2>1
  <2>. QED
    BY <1>3, <1>4, <1>6, <2>1, <2>2
<1>12. t = v
  <2>1. v \in Seq(Letter) /\ Len(v) = k
    BY <1>2 DEF Word
  <2>. QED
    BY <1>10, <1>11, <2>1, SeqEqual
<1>. QED
  <2>1. Len(y) = Len(x) + 1 + Len(v) /\ Len(x) \in Nat
    BY <1>2, <1>5, <1>6, <1>7
  <2>. QED
    BY <1>1, <1>5, <1>6, <1>8, <1>9, <1>12, <2>1 DEF GrownBy, Word

(* One or two words are not none.                                          *)
LEMMA OneOrTwo == \A e : Len(e) = 1 \/ Len(e) = 2 => Len(e) # 0
OBVIOUS

(* The last word has grown by a letter, and another may follow.            *)
Merged(vs, ws, y, e) ==
    /\ vs \in Seq(Word) /\ Len(ws) \in Nat \ {0} /\ (Len(e) = 1 \/ Len(e) = 2)
    /\ Len(vs) = Len(ws) - 1 + Len(e)
    /\ \A i \in 1..Len(ws) - 1 : vs[i] = ws[i]
    /\ vs[Len(ws)] = y /\ (Len(e) = 2 => vs[Len(ws) + 1] = e[2])

(* The words vs are those of ws, with y for the last, and what follows the *)
(* first of e.                                                             *)
MergedBy(vs, ws, y, e) == vs = SubSeq(ws, 1, Len(ws) - 1) \o <<y>> \o Tail(e)

(* Such words have grown so.                                               *)
LEMMA Merging ==
    ASSUME NEW ws \in Seq(Word), Len(ws) # 0, NEW e \in Seq(Word), (Len(e) = 1 \/ Len(e) = 2),
           NEW y \in Word,
           NEW vs, MergedBy(vs, ws, y, e)
    PROVE  Merged(vs, ws, y, e)
<1>1. Len(e) # 0
  BY OneOrTwo, Zenon
<1>2. PICK L, p, r, q : L = Len(ws) /\ p = SubSeq(ws, 1, L - 1) /\ r = Tail(e) /\ q = <<y>>
  OBVIOUS
<1>3. L \in Nat \ {0}
  BY <1>2, LenProperties
<1>4. p \in Seq(Word) /\ Len(p) = L - 1 /\ \A j \in 1..L - 1 : p[j] = ws[j]
  <2>1. PICK d, m : d = 1 /\ m = L - 1
    OBVIOUS
  <2>2. 0 \in Nat /\ m \in Nat /\ 0 <= m /\ m <= Len(ws) /\ d = 0 + 1 /\ p = SubSeq(ws, d, m)
        /\ m - 0 = m /\ \A j \in 1..m : 0 + j = j
    BY <1>2, <1>3, <2>1
  <2>3. p \in Seq(Word) /\ Len(p) = m - 0 /\ \A j \in 1..m - 0 : p[j] = ws[0 + j]
    BY <2>2, CutAs
  <2>. QED
    BY <2>1, <2>2, <2>3
<1>5. r \in Seq(Word) /\ Len(r) = Len(e) - 1 /\ (Len(e) = 2 => r[1] = e[2])
  <2>1. e # <<>>
    <3>1. Len(<<>>) = 0
      BY NothingIsSeq, Zenon
    <3>. QED
      BY <1>1, <3>1
  <2>2. r \in Seq(Word) /\ Len(r) = Len(e) - 1 /\ \A i \in 1..Len(r) : r[i] = e[i + 1]
    BY <1>2, <2>1, HeadTailProperties
  <2>. QED
    BY <2>2
<1>6. q \in Seq(Word) /\ Len(q) = 1 /\ q[1] = y
  BY <1>2
<1>7. PICK s : s = p \o q
  OBVIOUS
<1>8. s \in Seq(Word) /\ Len(s) = L /\ (\A j \in 1..L - 1 : s[j] = p[j]) /\ s[L] = y
  <2>1. /\ s \in Seq(Word) /\ Len(s) = Len(p) + Len(q)
        /\ \A m \in 1..Len(p) : s[m] = p[m]
        /\ \A m \in 1..Len(q) : s[Len(p) + m] = q[m]
    <3>1. p \in Seq(Word) /\ q \in Seq(Word)
      BY <1>4, <1>6
    <3>. QED
      BY <1>7, <3>1, ConcatPlaces
  <2>2. Len(p) + Len(q) = L /\ Len(p) + 1 = L /\ 1 \in 1..Len(q)
    BY <1>3, <1>4, <1>6
  <2>. QED
    BY <1>4, <1>6, <2>1, <2>2
<1>9. /\ vs \in Seq(Word) /\ Len(vs) = L + (Len(e) - 1)
      /\ \A m \in 1..L : vs[m] = s[m]
      /\ \A m \in 1..Len(r) : vs[L + m] = r[m]
  <2>1. vs = s \o r
    BY <1>2, <1>7 DEF MergedBy
  <2>2. s \in Seq(Word) /\ r \in Seq(Word)
    BY <1>5, <1>8
  <2>3. /\ vs \in Seq(Word) /\ Len(vs) = Len(s) + Len(r)
        /\ \A m \in 1..Len(s) : vs[m] = s[m]
        /\ \A m \in 1..Len(r) : vs[Len(s) + m] = r[m]
    BY <2>1, <2>2, ConcatPlaces
  <2>. QED
    BY <1>5, <1>8, <2>3
<1>10. Len(vs) = L - 1 + Len(e)
  BY <1>3, <1>9
<1>11. \A i \in 1..L - 1 : vs[i] = ws[i]
  BY <1>3, <1>4, <1>8, <1>9
<1>12. vs[L] = y /\ (Len(e) = 2 => vs[L + 1] = e[2])
  <2>1. L \in 1..L /\ (Len(e) = 2 => 1 \in 1..Len(r))
    BY <1>3, <1>5
  <2>. QED
    BY <1>5, <1>8, <1>9, <2>1
<1>. QED
  BY <1>2, <1>3, <1>9, <1>10, <1>11, <1>12 DEF Merged

(* Which letter a use of a letter is.                                      *)
LEMMA LetterIs ==
    ASSUME OP!OptionsAssumption, NEW u \in Uses, u.form \in {"short", "joined"},
           NEW e, Wrote(u, e)
    PROVE  \E v \in Word :
             /\ Lettered(e[1], u.opt.ch, v) /\ e \in Seq(Word) /\ u.opt.ch \in Letter
             /\ \/ v = <<>> /\ Switch(u) /\ Len(e) = 1
                \/ v = <<>> /\ ~Switch(u) /\ u.form = "short" /\ Len(e) = 2 /\ e[2] = u.val
                \/ v = u.val /\ v # <<>> /\ ~Switch(u) /\ u.form = "joined" /\ Len(e) = 1
<1>1. u.opt.ch \in Letter /\ u.val \in Word /\ (u.form = "joined" => u.val # <<>>)
  <2>1. u.opt \in Opts /\ u.val \in OptWords /\ (u.form = "joined" => u.val # <<>>)
    BY UseHas
  <2>. QED
    BY <2>1, TextIsWord
<1>2. e \in Seq(Word)
  BY DEF Wrote
<1>3. PICK c, v, x : c = u.opt.ch /\ v = u.val /\ x = e[1]
  OBVIOUS
<1>4. <<>> \in Word /\ Len(<<>>) = 0
  BY EmptySeq DEF Word
<1>5. ASSUME x = <<"-", c>> PROVE Lettered(x, c, <<>>)
  <2>1. "-" \in Letter /\ c \in Letter
    BY <1>1, <1>3 DEF Letter
  <2>2. x \in Word /\ Len(x) = 2 /\ x[1] = "-" /\ x[2] = c
    BY <1>5, <2>1 DEF Word
  <2>3. SubSeq(x, 3, Len(x)) = <<>>
    BY <2>2, SubSeqEmpty
  <2>. QED
    BY <1>4, <2>2, <2>3 DEF Lettered
<1>6. ASSUME x = <<"-", c>> \o v PROVE Lettered(x, c, v)
  BY <1>1, <1>3, <1>6, LetterWord
<1>7. CASE Switch(u) /\ Len(e) = 1 /\ x = <<"-", c>>
  BY <1>1, <1>2, <1>3, <1>4, <1>5, <1>7
<1>8. CASE ~Switch(u) /\ u.form = "joined" /\ Len(e) = 1 /\ x = <<"-", c>> \o v
  BY <1>1, <1>2, <1>3, <1>6, <1>8
<1>9. CASE ~Switch(u) /\ u.form = "short" /\ Len(e) = 2 /\ x = <<"-", c>> /\ e[2] = u.val
  BY <1>1, <1>2, <1>3, <1>4, <1>5, <1>9
<1>. QED
  <2>1. u.form # "long" /\ u.form # "equals"
    OBVIOUS
  <2>. QED
    BY <1>3, <1>7, <1>8, <1>9, <2>1 DEF Wrote

(* A switch that ends the words is the last letter of the last.            *)
EndsSo(x, u, a, t, L) ==
    /\ a = L - 1 /\ Len(x) = (IF t = 0 THEN 1 ELSE t) + 1
    /\ x[1] = "-" /\ x[2] # "-" /\ x[Len(x)] = u.opt.ch
    /\ Len(x) \in Nat /\ Len(x) >= 2

(* It is.                                                                  *)
LEMMA LastLetter ==
    ASSUME NEW u, Switch(u), NEW ws, NEW a \in Nat, NEW t \in Nat,
           NEW L \in Nat, L = Len(ws), Says(ws, u, a, t, L, 0), u.form \in {"short", "joined"}
    PROVE  EndsSo(ws[L], u, a, t, L)
<1>1. a + 1 <= L
  BY DEF Says
<1>2. AsLetter(ws, u, a, t, L, 0)
  BY DEF Says, AsName
<1>3. PICK i \in Nat :
        /\ i = (IF t = 0 THEN 1 ELSE t) + 1 /\ i <= Len(ws[a + 1])
        /\ ws[a + 1][1] = "-" /\ ws[a + 1][2] # "-" /\ ws[a + 1][i] = u.opt.ch
        /\ \/ i = Len(ws[a + 1]) /\ L = a + 1
           \/ L = a
  BY <1>2 DEF AsLetter
<1>4. L = a + 1 /\ i = Len(ws[L])
  BY <1>1, <1>3
<1>5. a = L - 1 /\ L # 0
  BY <1>4
<1>6. i >= 2
  BY <1>3
<1>. QED
  BY <1>3, <1>4, <1>5, <1>6 DEF EndsSo

(* y begins with x, which has a letter.                                    *)
StartsWith(y, x) ==
    /\ Len(x) \in Nat /\ Len(y) \in Nat /\ Len(x) >= 2 /\ Len(x) < Len(y)
    /\ \A i \in 1..Len(x) : y[i] = x[i]

(* What is said before the last word, or in its letters but the last.      *)
LEMMA SaysStill ==
    ASSUME NEW u, NEW ws, NEW vs, NEW y, NEW e, Merged(vs, ws, y, e), NEW a \in Nat,
           NEW t \in Nat, NEW b \in Nat,
           NEW s, Says(ws, u, a, t, b, s), b < Len(ws),
           StartsWith(y, ws[Len(ws)])
    PROVE  Says(vs, u, a, t, b, s)
<1>1. PICK L : L = Len(ws)
  OBVIOUS
<1>2. L \in Nat \ {0} /\ L <= Len(vs) /\ Len(vs) \in Nat /\ vs[L] = y
      /\ \A i \in 1..L - 1 : vs[i] = ws[i]
  <2>1. /\ L \in Nat \ {0} /\ (Len(e) = 1 \/ Len(e) = 2) /\ Len(vs) = L - 1 + Len(e) /\ vs[L] = y
        /\ \A i \in 1..L - 1 : vs[i] = ws[i]
    BY <1>1, Zenon DEF Merged
  <2>2. PICK k, d : k = Len(e) /\ d = Len(vs)
    OBVIOUS
  <2>3. L \in Nat /\ (k = 1 \/ k = 2) /\ d = L - 1 + k
    BY <2>1, <2>2
  <2>4. L <= d /\ d \in Nat
    BY <2>3
  <2>5. L <= Len(vs) /\ Len(vs) \in Nat
    BY <2>2, <2>4
  <2>. QED
    BY <2>1, <2>5
<1>3. a + 1 <= L /\ b < L
  BY <1>1 DEF Says
<1>4. CASE a + 1 < L
  <2>1. vs[a + 1] = ws[a + 1] /\ a + 1 <= Len(vs)
    BY <1>2, <1>4
  <2>2. b = a + 2 => vs[a + 2] = ws[a + 2] /\ a + 2 <= Len(vs)
    BY <1>2, <1>3
  <2>3. AsLetter(ws, u, a, t, b, s) => AsLetter(vs, u, a, t, b, s)
    BY <2>1, <2>2 DEF AsLetter
  <2>4. AsName(ws, u, a, t, b, s) => AsName(vs, u, a, t, b, s)
    BY <2>1, <2>2 DEF AsName
  <2>. QED
    BY <2>1, <2>3, <2>4 DEF Says
<1>5. CASE a + 1 = L
  <2>1. PICK x : x = ws[L]
    OBVIOUS
  <2>2. /\ Len(x) \in Nat /\ Len(y) \in Nat /\ Len(x) >= 2 /\ Len(x) < Len(y)
         /\ \A i \in 1..Len(x) : y[i] = x[i]
    BY <1>1, <2>1, Zenon DEF StartsWith
  <2>3. b # a + 1 /\ b # a + 2
    BY <1>3, <1>5
  <2>4. ws[a + 1] = x /\ vs[a + 1] = y
    BY <1>1, <1>2, <1>5, <2>1
  <2>5. AsLetter(ws, u, a, t, b, s)
    BY <2>3 DEF Says, AsName
  <2>6. PICK i \in Nat :
          /\ i = (IF t = 0 THEN 1 ELSE t) + 1 /\ i <= Len(x)
          /\ x[1] = "-" /\ x[2] # "-" /\ x[i] = u.opt.ch
          /\ u.form \in {"short", "joined"}
          /\ Switch(u) /\ i < Len(x) /\ b = a /\ s = i
    BY <2>3, <2>4, <2>5, Zenon DEF AsLetter
  <2>7. x[1] = y[1] /\ x[2] = y[2]
    BY <2>2
  <2>8. i # 0
    BY <2>6
  <2>9. x[i] = y[i]
    BY <2>6, <2>8, <2>2
  <2>10. i <= Len(y) /\ i < Len(y)
    BY <2>6, <2>2
  <2>11. AsLetter(vs, u, a, t, b, s)
    BY <2>4, <2>6, <2>7, <2>9, <2>10 DEF AsLetter
  <2>. QED
    BY <1>2, <1>5, <2>11 DEF Says
<1>. QED
  BY <1>2, <1>3, <1>4, <1>5

(* A letter joins the last word, whose last letter is that of a switch.    *)
MergeCase(us, n, ws, L, w, l, u, e, y, vs) ==
    /\ us \in Seq(Uses) /\ n = Len(us) /\ n # 0 /\ ws \in Seq(Word) /\ L = Len(ws)
    /\ SayAll(ws, us, w, l, L) /\ Switch(us[n]) /\ us[n].form \in {"short", "joined"}
    /\ u \in Uses /\ u.form \in {"short", "joined"} /\ Wrote(u, e)
    /\ JoinedBy(y, ws[L], e[1]) /\ MergedBy(vs, ws, y, e)

(* The words say what they said, and the use besides.                      *)
LEMMA MergeSays ==
    ASSUME OP!OptionsAssumption, NEW us, NEW n, NEW ws, NEW L, NEW w, NEW l, NEW u, NEW e,
           NEW y, NEW vs,
           MergeCase(us, n, ws, L, w, l, u, e, y, vs)
    PROVE  vs \in Seq(Word) /\ \E w2, l2 : SayAll(vs, Append(us, u), w2, l2, Len(vs))
<1>1. us \in Seq(Uses) /\ n = Len(us) /\ n # 0 /\ ws \in Seq(Word) /\ L = Len(ws)
  BY Zenon DEF MergeCase
<1>2. SayAll(ws, us, w, l, L)
  BY Zenon DEF MergeCase
<1>3. Switch(us[n]) /\ us[n].form \in {"short", "joined"}
  BY Zenon DEF MergeCase
<1>4. u \in Uses /\ u.form \in {"short", "joined"} /\ Wrote(u, e)
  BY Zenon DEF MergeCase
<1>5. JoinedBy(y, ws[L], e[1]) /\ MergedBy(vs, ws, y, e)
  BY Zenon DEF MergeCase
<1>6. n \in Nat \ {0} /\ L \in Nat /\ n \in 1..n /\ n - 1 \in 0..n /\ n \in 0..n /\ 0 \in 0..n
  <2>1. Len(us) \in Nat /\ Len(ws) \in Nat
    BY <1>1, LenProperties
  <2>. QED
    BY <1>1, <2>1
<1>7. /\ w \in [0..n -> 0..L] /\ l \in [0..n -> Nat] /\ w[0] = 0 /\ l[0] = 0 /\ w[n] = L
      /\ l[n] = 0
      /\ \A i \in 1..n : Says(ws, us[i], w[i - 1], l[i - 1], w[i], l[i])
  BY <1>1, <1>2, Zenon DEF SayAll
<1>8. PICK a, t, x, d : a = w[n - 1] /\ t = l[n - 1] /\ x = ws[L] /\ d = us[n]
  OBVIOUS
<1>9. a \in Nat /\ t \in Nat /\ Says(ws, d, a, t, L, 0)
  <2>1. a \in 0..L /\ t \in Nat
    BY <1>6, <1>7, <1>8
  <2>2. Says(ws, us[n], w[n - 1], l[n - 1], w[n], l[n])
    BY <1>6, <1>7
  <2>. QED
    BY <1>6, <1>7, <1>8, <2>1, <2>2
<1>10. L # 0 /\ L \in 1..L
  BY <1>6, <1>9, <1>1 DEF Says
<1>11. x \in Word
  BY <1>8, <1>10, <1>1, ElementOfSeq
<1>12. /\ a = L - 1 /\ Len(x) = (IF t = 0 THEN 1 ELSE t) + 1
      /\ x[1] = "-" /\ x[2] # "-" /\ x[Len(x)] = d.opt.ch
      /\ Len(x) \in Nat /\ Len(x) >= 2
  <2>1. d.form \in {"short", "joined"} /\ Switch(d) /\ L = Len(ws) /\ L \in Nat /\ ws[L] \in Word
    BY <1>6, <1>8, <1>11, <1>1, <1>3
  <2>2. L \in Nat /\ a \in Nat /\ t \in Nat /\ Says(ws, d, a, t, L, 0)
    BY <1>6, <1>9
  <2>3. EndsSo(ws[L], d, a, t, L)
    BY <2>1, <2>2, LastLetter, Zenon
  <2>. QED
    BY <1>8, <2>3, Zenon DEF EndsSo
<1>13. PICK v \in Word :
             /\ Lettered(e[1], u.opt.ch, v) /\ e \in Seq(Word) /\ u.opt.ch \in Letter
             /\ \/ v = <<>> /\ Switch(u) /\ Len(e) = 1
                \/ v = <<>> /\ ~Switch(u) /\ u.form = "short" /\ Len(e) = 2 /\ e[2] = u.val
                \/ v = u.val /\ v # <<>> /\ ~Switch(u) /\ u.form = "joined" /\ Len(e) = 1
  BY <1>4, LetterIs
<1>14. GrownBy(y, x, u.opt.ch, v)
  <2>1. JoinedBy(y, x, e[1])
    BY <1>8, <1>5
  <2>. QED
    BY <1>11, <1>13, <2>1, Growing
<1>15. Merged(vs, ws, y, e)
  <2>1. y \in Word
    BY <1>14 DEF GrownBy
  <2>2. ws \in Seq(Word) /\ Len(ws) # 0
    BY <1>10, <1>1
  <2>3. e \in Seq(Word) /\ (Len(e) = 1 \/ Len(e) = 2)
    BY <1>13
  <2>. QED
    BY <2>1, <2>2, <2>3, <1>5, Merging
<1>16. /\ vs \in Seq(Word) /\ Len(vs) = L - 1 + Len(e) /\ vs[L] = y
       /\ (Len(e) = 2 => vs[L + 1] = e[2])
  BY <1>15, <1>1 DEF Merged
<1>17. PICK p, q, m : p = Len(x) /\ q = Len(y) /\ m = Len(vs)
  OBVIOUS
<1>18. /\ p \in Nat /\ p >= 2 /\ q = p + 1 + Len(v) /\ Len(v) \in Nat /\ q \in Nat
       /\ \A i \in 1..p : y[i] = x[i]
       /\ y[p + 1] = u.opt.ch /\ SubSeq(y, p + 1 + 1, q) = v
  <2>1. q = p + 1 + Len(v) /\ Len(v) \in Nat /\ (\A i \in 1..p : y[i] = x[i])
        /\ y[p + 1] = u.opt.ch /\ SubSeq(y, p + 1 + 1, q) = v
    BY <1>14, <1>17, Zenon DEF GrownBy
  <2>2. p \in Nat /\ p >= 2
    BY <1>12, <1>17
  <2>. QED
    BY <2>1, <2>2
<1>19. StartsWith(y, ws[Len(ws)])
  <2>1. Len(x) \in Nat /\ Len(y) \in Nat /\ Len(x) >= 2 /\ Len(x) < Len(y)
    BY <1>17, <1>18
  <2>2. \A i \in 1..Len(x) : y[i] = x[i]
    BY <1>17, <1>18
  <2>. QED
    BY <1>8, <1>1, <2>1, <2>2 DEF StartsWith
<1>20. y[1] = "-" /\ y[2] # "-" /\ y[p] = d.opt.ch
  <2>1. 1 \in 1..p /\ 2 \in 1..p /\ p \in 1..p
    BY <1>18
  <2>. QED
    BY <1>12, <1>17, <1>18, <2>1
<1>21. m \in Nat /\ L <= m /\ (Len(e) = 1 \/ Len(e) = 2) /\ m = L - 1 + Len(e)
  <2>1. Len(e) = 1 \/ Len(e) = 2
    BY <1>13
  <2>2. m = L - 1 + Len(e)
    BY <1>16, <1>17
  <2>3. PICK k : k = Len(e)
    OBVIOUS
  <2>4. m \in Nat /\ L <= m
    BY <1>6, <2>1, <2>2, <2>3
  <2>. QED
    BY <2>1, <2>2, <2>4
<1>22. Says(vs, d, L - 1, t, L - 1, p)
  <2>1. vs[(L - 1) + 1] = y /\ (L - 1) + 1 <= m
    BY <1>6, <1>16, <1>21
  <2>2. /\ p = (IF t = 0 THEN 1 ELSE t) + 1
        /\ p <= q /\ p < q /\ Switch(d) /\ d.form \in {"short", "joined"}
    <3>1. p <= q /\ p < q
      BY <1>18
    <3>2. p = (IF t = 0 THEN 1 ELSE t) + 1
      BY <1>12, <1>17
    <3>. QED
      BY <1>8, <1>3, <3>1, <3>2
  <2>3. AsLetter(vs, d, L - 1, t, L - 1, p)
    BY <1>17, <1>18, <1>20, <2>1, <2>2 DEF AsLetter
  <2>. QED
    BY <1>17, <2>1, <2>3 DEF Says
<1>23. Says(vs, u, L - 1, p, m, 0)
  <2>1. PICK k, i : k = L - 1 /\ i = p + 1
    OBVIOUS
  <2>2. vs[k + 1] = y /\ k + 1 <= m /\ k + 1 = L /\ k + 2 = L + 1
    BY <1>6, <1>16, <1>21, <2>1
  <2>3. i \in Nat /\ i = (IF p = 0 THEN 1 ELSE p) + 1 /\ i <= q /\ y[i] = u.opt.ch
        /\ SubSeq(y, i + 1, q) = v
    <3>1. i \in Nat /\ i = (IF p = 0 THEN 1 ELSE p) + 1 /\ i <= q
      BY <1>18, <2>1
    <3>. QED
      BY <1>18, <2>1, <3>1
  <2>4. \/ Switch(u) /\ i = q /\ m = k + 1
        \/ ~Switch(u) /\ u.form = "joined" /\ i < q /\ SubSeq(y, i + 1, q) = u.val /\ m = k + 1
        \/ /\ ~Switch(u) /\ u.form = "short" /\ i = q
           /\ k + 2 <= m /\ vs[k + 2] = u.val /\ m = k + 2
    <3>1. CASE v = <<>> /\ Switch(u) /\ Len(e) = 1
      <4>1. Len(v) = 0
        BY <3>1, NothingIsSeq
      <4>2. i = q /\ m = k + 1
        BY <1>6, <1>18, <1>21, <2>1, <3>1, <4>1
      <4>. QED
        BY <3>1, <4>2
    <3>2. CASE v = <<>> /\ ~Switch(u) /\ u.form = "short" /\ Len(e) = 2 /\ e[2] = u.val
      <4>1. Len(v) = 0
        BY <3>2, NothingIsSeq
      <4>2. i = q /\ m = k + 2 /\ k + 2 <= m
        BY <1>6, <1>18, <1>21, <2>1, <3>2, <4>1
      <4>3. vs[k + 2] = u.val
        BY <1>16, <2>2, <3>2
      <4>. QED
        BY <3>2, <4>2, <4>3
    <3>3. CASE v = u.val /\ v # <<>> /\ ~Switch(u) /\ u.form = "joined" /\ Len(e) = 1
      <4>1. Len(v) # 0
        BY <3>3, EmptySeq DEF Word
      <4>2. i < q /\ m = k + 1
        <5>1. m = L - 1 + 1 /\ L \in Nat
          BY <1>6, <1>21, <3>3
        <5>. QED
          BY <1>18, <2>1, <4>1, <5>1
      <4>. QED
        BY <2>3, <3>3, <4>2
    <3>. QED
      BY <1>13, <3>1, <3>2, <3>3
  <2>5. AsLetter(vs, u, k, p, m, 0)
    BY <1>17, <1>20, <1>4, <2>2, <2>3, <2>4 DEF AsLetter
  <2>. QED
    BY <1>17, <2>1, <2>2, <2>5 DEF Says
<1>24. \A i \in 1..n : w[i - 1] <= w[i]
  <2>1. ASSUME NEW i \in 1..n PROVE w[i - 1] <= w[i]
    <3>1. w[i - 1] \in Nat /\ Says(ws, us[i], w[i - 1], l[i - 1], w[i], l[i])
      BY <1>6, <1>7
    <3>2. Len(ws) \in Nat
      BY <1>6, <1>1
    <3>. QED
      BY <3>1, <3>2, SaysOn
  <2>. QED
    BY <2>1
<1>25. \A i \in 0..n - 1 : w[i] <= L - 1
  <2>1. PICK k : k = n - 1
    OBVIOUS
  <2>2. k \in Nat
        /\ (\A i \in 0..k : w[i] \in Nat) /\ (\A i \in 1..k : w[i - 1] <= w[i]) /\ w[k] = L - 1
    <3>1. k \in Nat /\ (\A i \in 0..k : i \in 0..n) /\ \A i \in 1..k : i \in 1..n
      BY <1>6, <2>1
    <3>2. \A i \in 0..n : w[i] \in Nat
      BY <1>6, <1>7
    <3>3. w[k] = L - 1
      BY <1>8, <1>12, <2>1
    <3>. QED
      BY <1>24, <3>1, <3>2, <3>3
  <2>3. \A i \in 0..k : w[i] <= w[k]
    BY <2>2, PlacesOn
  <2>. QED
    BY <2>1, <2>2, <2>3
<1>26. PICK w2 : w2 = [i \in 0..n |-> IF i = n THEN L - 1 ELSE w[i]]
  OBVIOUS
<1>27. PICK l2 : l2 = [i \in 0..n |-> IF i = n THEN p ELSE l[i]]
  OBVIOUS
<1>28. w2 \in [0..n -> 0..m] /\ w2[n] = L - 1 /\ \A i \in 0..n - 1 : w2[i] = w[i]
  <2>1. L - 1 \in 0..m
    BY <1>6, <1>10, <1>21
  <2>2. ASSUME NEW i \in 0..n, i # n PROVE w[i] \in 0..m
    <3>1. i \in 0..n - 1
      BY <1>6, <2>2
    <3>2. w[i] \in Nat /\ w[i] <= L - 1
      BY <1>6, <1>7, <1>25, <3>1
    <3>. QED
      BY <1>6, <1>21, <3>2
  <2>3. w2[n] = L - 1
    BY <1>6, <1>26
  <2>4. \A i \in 0..n - 1 : w2[i] = w[i]
    BY <1>6, <1>26
  <2>. QED
    BY <1>26, <2>1, <2>2, <2>3, <2>4
<1>29. l2 \in [0..n -> Nat] /\ l2[n] = p /\ \A i \in 0..n - 1 : l2[i] = l[i]
  BY <1>6, <1>7, <1>18, <1>27
<1>30. ASSUME NEW i \in 1..n PROVE Says(vs, us[i], w2[i - 1], l2[i - 1], w2[i], l2[i])
  <2>1. i - 1 \in 0..n - 1
    BY <1>6
  <2>2. CASE i = n
    <3>1. w2[i - 1] = L - 1 /\ l2[i - 1] = t /\ w2[i] = L - 1 /\ l2[i] = p /\ us[i] = d
      BY <1>8, <1>12, <1>28, <1>29, <2>1, <2>2
    <3>. QED
      BY <1>22, <3>1
  <2>3. CASE i # n
    <3>1. i \in 0..n - 1 /\ i \in 0..n /\ i - 1 \in 0..n
      BY <1>6, <2>3
    <3>2. w2[i - 1] = w[i - 1] /\ l2[i - 1] = l[i - 1] /\ w2[i] = w[i] /\ l2[i] = l[i]
      BY <1>28, <1>29, <2>1, <3>1
    <3>3. w[i - 1] \in Nat /\ l[i - 1] \in Nat /\ w[i] \in Nat /\ w[i] < Len(ws)
      <4>1. w[i - 1] \in 0..L /\ w[i] \in 0..L /\ l[i - 1] \in Nat
        BY <1>7, <3>1
      <4>2. w[i] <= L - 1
        BY <1>25, <3>1
      <4>3. w[i - 1] \in Nat /\ w[i] \in Nat /\ w[i] < L
        BY <1>6, <4>1, <4>2
      <4>. QED
        BY <1>1, <4>1, <4>3
    <3>4. Says(ws, us[i], w[i - 1], l[i - 1], w[i], l[i])
      BY <1>7
    <3>5. Says(vs, us[i], w[i - 1], l[i - 1], w[i], l[i])
      BY <1>15, <1>19, <3>3, <3>4, SaysStill
    <3>. QED
      BY <3>2, <3>5
  <2>. QED
    BY <2>2, <2>3
<1>31. w2[0] = 0 /\ l2[0] = 0
  <2>1. 0 \in 0..n - 1
    BY <1>6
  <2>. QED
    BY <1>7, <1>28, <1>29, <2>1
<1>32. \E x1, y1 : SayAll(vs, Append(us, u), x1, y1, Len(vs))
  <2>1. /\ w2 \in [0..Len(us) -> 0..Len(vs)] /\ l2 \in [0..Len(us) -> Nat]
        /\ w2[Len(us)] = L - 1 /\ l2[Len(us)] = p
    BY <1>17, <1>28, <1>29, <1>1
  <2>2. \A i \in 1..Len(us) : Says(vs, us[i], w2[i - 1], l2[i - 1], w2[i], l2[i])
    BY <1>30, <1>1
  <2>3. Says(vs, u, w2[Len(us)], l2[Len(us)], Len(vs), 0)
    BY <1>17, <1>23, <2>1
  <2>4. vs \in Seq(Word) /\ us \in Seq(Uses) /\ u \in Uses
    BY <1>16, <1>1, <1>4
  <2>. QED
    BY <1>31, <2>1, <2>2, <2>3, <2>4, SayOneMore
<1>. QED
  BY <1>16, <1>32

(* The words are written, and say the uses.                                *)
Spelling(us, ws) ==
    us \in Seq(Uses) /\ ws \in Seq(Word) /\ \E w, l : SayAll(ws, us, w, l, Len(ws))

(* No words say nothing.                                                   *)
LEMMA NothingSaid == Spelling(<<>>, <<>>)
<1>1. <<>> \in Seq(Uses) /\ <<>> \in Seq(Word) /\ Len(<<>>) = 0
  BY EmptySeq
<1>2. PICK f : f = [i \in 0..0 |-> 0]
  OBVIOUS
<1>3. f \in [0..0 -> 0..0] /\ f \in [0..0 -> Nat] /\ f[0] = 0
  BY <1>2
<1>4. PICK z : z = <<>>
  OBVIOUS
<1>5. SayAll(z, z, f, f, 0)
  <2>1. Len(z) = 0 /\ \A i \in 1..0 : FALSE
    BY <1>1, <1>4
  <2>. QED
    BY <1>3, <2>1 DEF SayAll
<1>. QED
  BY <1>1, <1>4, <1>5 DEF Spelling

(* One more use is written after the words.                                *)
LEMMA WriteEnd ==
    ASSUME OP!OptionsAssumption, NEW us, NEW ws, Spelling(us, ws), NEW u \in Uses
    PROVE  Spelling(Append(us, u), ws \o OP!Spelled(u))
<1>1. PICK e : e = OP!Spelled(u)
  OBVIOUS
<1>2. PICK vs : vs = ws \o e
  OBVIOUS
<1>3. PICK w, l : SayAll(ws, us, w, l, Len(ws))
  BY DEF Spelling
<1>4. us \in Seq(Uses) /\ ws \in Seq(Word)
  BY DEF Spelling
<1>5. /\ Says(vs, u, Len(ws), 0, Len(ws) + Len(e), 0)
      /\ Len(e) \in Nat \ {0} /\ vs \in Seq(Word) /\ Len(vs) = Len(ws) + Len(e)
      /\ Len(ws) \in Nat /\ \A i \in 1..Len(ws) : vs[i] = ws[i]
  <2>1. Wrote(u, e)
    BY <1>1, SpelledIs
  <2>2. EndSays(vs, ws, u, e)
    BY <1>2, <1>4, <2>1, SaysEnd
  <2>. QED
    BY <2>2, Zenon DEF EndSays
<1>6. PICK n, k, m : n = Len(us) /\ k = Len(ws) /\ m = Len(vs)
  OBVIOUS
<1>7. n \in Nat /\ k \in Nat /\ m \in Nat /\ k <= m
  <2>1. n \in Nat
    BY <1>4, <1>6, LenProperties
  <2>. QED
    BY <1>5, <1>6, <2>1
<1>8. /\ w \in [0..n -> 0..k] /\ l \in [0..n -> Nat]
      /\ w[0] = 0 /\ l[0] = 0 /\ w[n] = k /\ l[n] = 0
      /\ \A i \in 1..n : Says(ws, us[i], w[i - 1], l[i - 1], w[i], l[i])
  BY <1>3, <1>6, Zenon DEF SayAll
<1>9. w \in [0..n -> 0..m]
  BY <1>7, <1>8
<1>10. ASSUME NEW i \in 1..n PROVE Says(vs, us[i], w[i - 1], l[i - 1], w[i], l[i])
  <2>1. w[i - 1] \in Nat
    <3>1. i - 1 \in 0..n
      BY <1>7
    <3>2. w[i - 1] \in 0..k
      BY <1>8, <3>1
    <3>. QED
      BY <1>7, <3>2
  <2>2. Says(ws, us[i], w[i - 1], l[i - 1], w[i], l[i])
    BY <1>8
  <2>3. Len(ws) \in Nat /\ Len(vs) \in Nat /\ Len(ws) <= Len(vs)
        /\ \A j \in 1..Len(ws) : vs[j] = ws[j]
    BY <1>5, <1>6, <1>7
  <2>. QED
    BY <2>1, <2>2, <2>3, SaysAgain
<1>11. Says(vs, u, w[n], l[n], m, 0)
  BY <1>5, <1>6, <1>8
<1>12. \E x1, y1 : SayAll(vs, Append(us, u), x1, y1, Len(vs))
  <2>1. w \in [0..Len(us) -> 0..Len(vs)] /\ l \in [0..Len(us) -> Nat]
    BY <1>6, <1>8, <1>9
  <2>2. \A i \in 1..Len(us) : Says(vs, us[i], w[i - 1], l[i - 1], w[i], l[i])
    BY <1>6, <1>10
  <2>3. Says(vs, u, w[Len(us)], l[Len(us)], Len(vs), 0)
    BY <1>6, <1>11
  <2>. QED
    BY <1>4, <1>5, <1>8, <2>1, <2>2, <2>3, SayOneMore
<1>13. Append(us, u) \in Seq(Uses)
  BY <1>4, AppendProperties
<1>. QED
  BY <1>1, <1>2, <1>5, <1>12, <1>13 DEF Spelling

(* However a use is written the words say it.                              *)
LEMMA WriteUseKeeps ==
    ASSUME OP!OptionsAssumption, Spelling(uses, argv), OP!WriteUse
    PROVE  Spelling(uses', argv')
<1>1. PICK o \in Opts, f \in OP!Forms, val \in OptWords :
         LET u == OP!Use(o, f, val)
             last == uses[Len(uses)]
             spelled == OP!Spelled(u)
         IN /\ f \in {"short", "joined"} => o.ch # OP!NoLetter
            /\ f \in {"long", "equals"} => o.name # OP!NoName
            /\ o.type \in OP!Switches => f # "equals"
            /\ f = "joined" => val # <<>>
            /\ uses' = Append(uses, u)
            /\ \/ argv' = argv \o spelled
               \/ /\ uses # <<>> /\ last.form \in {"short", "joined"} /\ last.opt.type \in OP!Switches
                  /\ f \in {"short", "joined"}
                  /\ argv' = SubSeq(argv, 1, Len(argv) - 1)
                               \o <<argv[Len(argv)] \o SubSeq(spelled[1], 2, Len(spelled[1]))>>
                               \o Tail(spelled)
  BY Zenon DEF OP!WriteUse
<1>2. PICK u : u = OP!Use(o, f, val)
  OBVIOUS
<1>3. u \in Uses /\ u.form = f
  <2>1. u = [opt |-> o, form |-> f, val |-> val]
    BY <1>2 DEF OP!Use
  <2>2. u.opt = o /\ u.form = f /\ u.val = val
        /\ u \in [opt : Opts, form : OP!Forms, val : OptWords]
    BY <2>1
  <2>3. /\ f \in {"short", "joined"} => o.ch # OP!NoLetter
        /\ f \in {"long", "equals"} => o.name # OP!NoName
        /\ (o.type \in OP!Switches => f # "equals") /\ (f = "joined" => val # <<>>)
    BY <1>1
  <2>. QED
    BY <2>2, <2>3 DEF Uses
<1>4. PICK e : e = OP!Spelled(u)
  OBVIOUS
<1>5. uses' = Append(uses, u)
  BY <1>1, <1>2
<1>6. CASE argv' = argv \o e
  BY <1>3, <1>4, <1>5, <1>6, WriteEnd
<1>7. CASE /\ uses # <<>> /\ uses[Len(uses)].form \in {"short", "joined"}
           /\ uses[Len(uses)].opt.type \in OP!Switches
           /\ f \in {"short", "joined"}
           /\ argv' = SubSeq(argv, 1, Len(argv) - 1)
                               \o <<argv[Len(argv)] \o SubSeq(e[1], 2, Len(e[1]))>> \o Tail(e)
  <2>1. PICK vs, y, n, L : /\ vs = argv' /\ y = argv[Len(argv)] \o SubSeq(e[1], 2, Len(e[1]))
                           /\ n = Len(uses) /\ L = Len(argv)
    OBVIOUS
  <2>2. MergedBy(vs, argv, y, e) /\ JoinedBy(y, argv[L], e[1])
    BY <1>7, <2>1, Zenon DEF MergedBy, JoinedBy
  <2>3. PICK w, l : SayAll(argv, uses, w, l, L)
    BY <2>1 DEF Spelling
  <2>4. uses \in Seq(Uses) /\ argv \in Seq(Word)
    BY DEF Spelling
  <2>5. n # 0
    BY <1>7, <2>1, <2>4, EmptySeq
  <2>6. Switch(uses[n]) /\ uses[n].form \in {"short", "joined"}
    BY <1>7, <2>1, Zenon DEF Switch
  <2>7. u \in Uses /\ u.form \in {"short", "joined"} /\ Wrote(u, e)
    <3>1. Wrote(u, e)
      BY <1>3, <1>4, SpelledIs
    <3>. QED
      BY <1>3, <1>7, <3>1, Zenon
  <2>8. MergeCase(uses, n, argv, L, w, l, u, e, y, vs)
    BY <2>1, <2>2, <2>3, <2>4, <2>5, <2>6, <2>7, Zenon DEF MergeCase
  <2>9. vs \in Seq(Word) /\ \E w2, l2 : SayAll(vs, Append(uses, u), w2, l2, Len(vs))
    BY <2>8, MergeSays
  <2>10. Append(uses, u) \in Seq(Uses)
    BY <1>3, <2>4, AppendProperties
  <2>. QED
    BY <1>5, <2>1, <2>9, <2>10 DEF Spelling
<1>. QED
  BY <1>1, <1>2, <1>4, <1>6, <1>7, Zenon

(* All of a sequence.                                                      *)
LEMMA CutAll ==
    ASSUME NEW S, NEW s \in Seq(S)
    PROVE  SubSeq(s, 1, Len(s)) = s
<1>1. PICK t, b, n : t = SubSeq(s, b, n) /\ b = 1 /\ n = Len(s)
  OBVIOUS
<1>2. n \in Nat
  BY <1>1, LenProperties
<1>3. t \in Seq(S) /\ Len(t) = n - 0 /\ \A j \in 1..n - 0 : t[j] = s[0 + j]
  <2>1. 0 \in Nat /\ 0 <= n /\ n <= Len(s) /\ b = 0 + 1
    BY <1>1, <1>2
  <2>. QED
    BY <1>1, <1>2, <2>1, CutAs
<1>4. Len(t) = n /\ \A j \in 1..n : t[j] = s[j]
  BY <1>2, <1>3
<1>5. t = s
  BY <1>1, <1>3, <1>4, SeqEqual
<1>. QED
  BY <1>1, <1>5

(* Whatever follows, the words say the same.                               *)
LEMMA SayAllAgain ==
    ASSUME NEW us \in Seq(Uses), NEW ws \in Seq(Word), NEW vs \in Seq(Word), NEW w, NEW l,
           SayAll(ws, us, w, l, Len(ws)), Len(ws) <= Len(vs), \A i \in 1..Len(ws) : vs[i] = ws[i]
    PROVE  SayAll(vs, us, w, l, Len(ws))
<1>1. PICK n, k, m : n = Len(us) /\ k = Len(ws) /\ m = Len(vs)
  OBVIOUS
<1>2. n \in Nat /\ k \in Nat /\ m \in Nat /\ k <= m
  BY <1>1, LenProperties
<1>3. /\ w \in [0..n -> 0..k] /\ l \in [0..n -> Nat]
      /\ w[0] = 0 /\ l[0] = 0 /\ w[n] = k /\ l[n] = 0
      /\ \A i \in 1..n : Says(ws, us[i], w[i - 1], l[i - 1], w[i], l[i])
  BY <1>1, Zenon DEF SayAll
<1>4. w \in [0..n -> 0..m]
  BY <1>2, <1>3
<1>5. ASSUME NEW i \in 1..n PROVE Says(vs, us[i], w[i - 1], l[i - 1], w[i], l[i])
  <2>1. w[i - 1] \in Nat
    <3>1. i - 1 \in 0..n
      BY <1>2
    <3>2. w[i - 1] \in 0..k
      BY <1>3, <3>1
    <3>. QED
      BY <1>2, <3>2
  <2>2. Says(ws, us[i], w[i - 1], l[i - 1], w[i], l[i])
    BY <1>3
  <2>3. Len(ws) \in Nat /\ Len(vs) \in Nat
    BY <1>1, <1>2
  <2>. QED
    BY <2>1, <2>2, <2>3, SaysAgain
<1>. QED
  BY <1>1, <1>3, <1>4, <1>5, Zenon DEF SayAll

(* The operands follow the options, and nothing has been read.             *)
LEMMA ReadingStarts ==
    ASSUME OP!OptionsAssumption, Spelling(uses, argv), at = 0, vals = OP!Defaults, OP!WriteOperands
    PROVE  operands' \in Seq(OptWords) /\ (\E r, ws, w, l, k : HasRead(r, ws, w, l, k))'
<1>1. PICK N, xs :
         /\ N \in Nat /\ xs \in [1..N -> OptWords] /\ operands' = xs
         /\ \/ argv' = argv \o xs /\ (xs # <<>> => ~OP!Option(xs[1]))
            \/ \E stop \in Stop : argv' = argv \o <<stop>> \o xs
  <2>1. PICK xs \in UNION {[1..k -> OptWords] : k \in 0..MaxArguments + 1} :
         /\ operands' = xs
         /\ \/ argv' = argv \o xs /\ (xs # <<>> => ~OP!Option(xs[1]))
            \/ \E stop \in Stop : argv' = argv \o <<stop>> \o xs
    BY Zenon DEF OP!WriteOperands, Stop, Dashes
  <2>2. MaxArguments \in Nat
    BY DEF OP!OptionsAssumption
  <2>3. \E k \in Nat : xs \in [1..k -> OptWords]
    BY <2>2
  <2>. QED
    BY <2>1, <2>3
<1>2. xs \in Seq(OptWords) /\ xs \in Seq(Word)
  <2>1. xs \in Seq(OptWords)
    BY <1>1, SeqDef
  <2>2. OptWords \subseteq Word
    BY TextIsWord
  <2>. QED
    BY <2>1, <2>2, SeqWider
<1>3. uses \in Seq(Uses) /\ argv \in Seq(Word)
  BY DEF Spelling
<1>4. PICK rest \in Seq(Word) :
        /\ argv' = argv \o rest
        /\ \/ rest = xs /\ (xs # <<>> => ~OP!Option(xs[1]))
           \/ \E stop \in Stop : rest = <<stop>> \o xs
  <2>1. CASE argv' = argv \o xs /\ (xs # <<>> => ~OP!Option(xs[1]))
    BY <1>2, <2>1
  <2>2. ASSUME NEW stop \in Stop, argv' = argv \o <<stop>> \o xs
        PROVE  \E rest \in Seq(Word) : argv' = argv \o rest /\ rest = <<stop>> \o xs
    <3>1. PICK p, q : p = <<stop>> /\ q = p \o xs
      OBVIOUS
    <3>2. stop \in Word
      <4>1. <<"-">> \in Word
        BY DEF Word, Letter
      <4>. QED
        BY <4>1, TextIsWord DEF Stop
    <3>3. p \in Seq(Word)
      BY <3>1, <3>2
    <3>4. q \in Seq(Word)
      BY <1>2, <3>1, <3>3, ConcatProperties
    <3>5. (argv \o p) \o xs = argv \o (p \o xs)
      BY <1>2, <1>3, <3>3, ConcatAssociative
    <3>6. argv' = argv \o q
      BY <2>2, <3>1, <3>5
    <3>. QED
      BY <3>1, <3>4, <3>6
  <2>3. ASSUME NEW stop \in Stop, argv' = argv \o <<stop>> \o xs
        PROVE  \E rest \in Seq(Word) :
                 /\ argv' = argv \o rest
                 /\ \E st \in Stop : rest = <<st>> \o xs
    BY <2>2, <2>3
  <2>. QED
    BY <1>1, <2>1, <2>3
<1>5. PICK vs, n, m : vs = argv' /\ n = Len(uses) /\ m = Len(argv)
  OBVIOUS
<1>6. /\ vs \in Seq(Word) /\ Len(vs) = m + Len(rest) /\ m \in Nat /\ Len(rest) \in Nat
      /\ \A i \in 1..m : vs[i] = argv[i]
  <2>1. vs = argv \o rest
    BY <1>4, <1>5
  <2>2. /\ vs \in Seq(Word) /\ Len(vs) = Len(argv) + Len(rest) /\ Len(argv) \in Nat
        /\ Len(rest) \in Nat
        /\ \A i \in 1..Len(argv) : vs[i] = argv[i]
    BY <1>3, <2>1, ConcatPlaces
  <2>. QED
    BY <1>5, <2>2
<1>7. PICK w, l : SayAll(argv, uses, w, l, m)
  BY <1>5 DEF Spelling
<1>8. SayAll(vs, uses, w, l, m)
  <2>1. SayAll(argv, uses, w, l, Len(argv)) /\ Len(argv) <= Len(vs)
        /\ \A i \in 1..Len(argv) : vs[i] = argv[i]
    BY <1>5, <1>6, <1>7
  <2>. QED
    BY <1>3, <1>5, <1>6, <2>1, SayAllAgain
<1>9. SubSeq(vs, m + 1, Len(vs)) = rest
  <2>1. SubSeq(argv \o rest, Len(argv) + 1, Len(argv) + Len(rest)) = rest
    BY <1>3, JoinCut
  <2>. QED
    BY <1>4, <1>5, <1>6, <2>1, Zenon
<1>10. PICK r : Set(r, uses)
  BY <1>3, SetRuns
<1>11. uses' = uses /\ at' = 0 /\ vals' = OP!Defaults /\ operands' = xs
  BY <1>1 DEF OP!WriteOperands
<1>12. w[0] = 0 /\ l[0] = 0 /\ r[0] = OP!Defaults /\ 0 \in 0..Len(uses)
  <2>1. Len(uses) \in Nat
    BY <1>3, LenProperties
  <2>2. w[0] = 0 /\ l[0] = 0 /\ r[0] = OP!Defaults
    BY <1>7, <1>10, Zenon DEF SayAll, Set
  <2>. QED
    BY <2>1, <2>2
<1>13. argv' = SubSeq(vs, w[0] + 1, Len(vs))
  <2>1. SubSeq(vs, 1, Len(vs)) = vs
    BY <1>6, CutAll
  <2>2. w[0] + 1 = 1
    BY <1>12
  <2>. QED
    BY <1>5, <2>1, <2>2, Zenon
<1>14. vals' # None
  BY <1>11, SettledIsOne
<1>15. Follows(rest)'
  <2>1. operands' = xs /\ (\/ rest = xs /\ (xs # <<>> => ~OP!Option(xs[1]))
                           \/ \E stop \in Stop : rest = <<stop>> \o xs)
    BY <1>4, <1>11
  <2>. QED
    BY <2>1 DEF Follows
<1>16. m \in 0..Len(vs)
  BY <1>6
<1>17. HasRead(r, vs, w, l, 0)'
  BY <1>6, <1>8, <1>9, <1>10, <1>11, <1>12, <1>13, <1>14, <1>15, <1>16 DEF HasRead
<1>. QED
  BY <1>2, <1>11, <1>17

(* Where the reading is.                                                   *)
AtPlace(r, ws, w, l, k, n, N, a, t, m) ==
    /\ n = Len(uses) /\ n \in Nat /\ N = Len(ws) /\ N \in Nat /\ ws \in Seq(Word)
    /\ uses \in Seq(Uses)
    /\ Set(r, uses) /\ r \in [0..n -> MaySettle] /\ k \in 0..n
    /\ w \in [0..n -> 0..N] /\ l \in [0..n -> Nat] /\ m = w[n] /\ l[n] = 0
    /\ \A i \in 1..n : Says(ws, uses[i], w[i - 1], l[i - 1], w[i], l[i])
    /\ a = w[k] /\ t = l[k] /\ a \in 0..N /\ t \in Nat /\ at = t
    /\ argv = SubSeq(ws, a + 1, N) /\ argv \in Seq(Word) /\ Len(argv) = N - a
    /\ \A j \in 1..N - a : argv[j] = ws[a + j]
    /\ vals = r[k] /\ vals \in Settled
    /\ m \in 0..N /\ SayAll(ws, uses, w, l, m) /\ Follows(SubSeq(ws, m + 1, N))

(* It is at such a place.                                                  *)
LEMMA PlaceIs ==
    ASSUME OP!OptionsAssumption, uses \in Seq(Uses), NEW r, NEW ws, NEW w, NEW l,
           NEW k, HasRead(r, ws, w, l, k)
    PROVE  \E n, N, a, t, m : AtPlace(r, ws, w, l, k, n, N, a, t, m)
<1>1. PICK n, N, a, t : n = Len(uses) /\ N = Len(ws) /\ a = w[k] /\ t = l[k]
  OBVIOUS
<1>2. ws \in Seq(Word) /\ Set(r, uses) /\ k \in 0..n
  BY <1>1, Zenon DEF HasRead
<1>3. n \in Nat /\ N \in Nat
  BY <1>1, <1>2, LenProperties
<1>4. PICK m \in 0..N : SayAll(ws, uses, w, l, m) /\ Follows(SubSeq(ws, m + 1, N))
  BY <1>1, Zenon DEF HasRead
<1>5. /\ w \in [0..n -> 0..N] /\ l \in [0..n -> Nat] /\ m = w[n] /\ l[n] = 0
      /\ \A i \in 1..n : Says(ws, uses[i], w[i - 1], l[i - 1], w[i], l[i])
  BY <1>1, <1>4, Zenon DEF SayAll
<1>6. argv = SubSeq(ws, a + 1, N) /\ at = t /\ vals = r[k] /\ vals # None
  BY <1>1, Zenon DEF HasRead
<1>7. r \in [0..n -> MaySettle]
  BY <1>1, <1>2, Zenon DEF Set
<1>8. vals \in Settled
  BY <1>2, <1>6, <1>7 DEF MaySettle
<1>9. a \in 0..N /\ t \in Nat
  BY <1>1, <1>2, <1>5
<1>10. argv \in Seq(Word) /\ Len(argv) = N - a /\ \A j \in 1..N - a : argv[j] = ws[a + j]
  <2>1. PICK b : b = a + 1
    OBVIOUS
  <2>2. a \in Nat /\ N \in Nat /\ a <= N /\ N <= Len(ws) /\ argv = SubSeq(ws, b, N)
    BY <1>1, <1>3, <1>6, <1>9, <2>1
  <2>. QED
    BY <1>2, <2>1, <2>2, CutAs
<1>11. AtPlace(r, ws, w, l, k, n, N, a, t, m)
  BY <1>1, <1>2, <1>3, <1>4, <1>5, <1>6, <1>7, <1>8, <1>9, <1>10, Zenon DEF AtPlace
<1>. QED
  BY <1>11

(* The use k + 1 has been read, or could not be.                           *)
GoesOn(r, ws, w, l, k) ==
    \/ status' = status /\ HasRead(r, ws, w, l, k + 1)'
    \/ status' = "usage" /\ r[Len(uses)] = None

(* It has been read.                                                       *)
Reads(r, ws, w, l, k, n, N, a, t, m) ==
    /\ AtPlace(r, ws, w, l, k, n, N, a, t, m) /\ k < n
    /\ uses' = uses /\ operands' = operands /\ status' = status
    /\ at' = l[k + 1] /\ argv' = SubSeq(ws, w[k + 1] + 1, N)
    /\ vals' = OP!SetTo(vals, uses[k + 1].opt, uses[k + 1].val) /\ vals' # None

(* Then one more use has been read.                                        *)
LEMMA Advance ==
    ASSUME OP!OptionsAssumption, NEW r, NEW ws, NEW w, NEW l, NEW k, NEW n, NEW N, NEW a,
           NEW t, NEW m,
           Reads(r, ws, w, l, k, n, N, a, t, m)
    PROVE  GoesOn(r, ws, w, l, k)
<1>1. /\ n = Len(uses) /\ n \in Nat /\ N = Len(ws) /\ N \in Nat /\ ws \in Seq(Word)
      /\ Set(r, uses)
      /\ k \in 0..n /\ vals = r[k] /\ vals \in Settled
  BY Zenon DEF Reads, AtPlace
<1>2. m \in 0..N /\ SayAll(ws, uses, w, l, m) /\ Follows(SubSeq(ws, m + 1, N)) /\ k < n
  BY Zenon DEF Reads, AtPlace
<1>3. /\ uses' = uses /\ operands' = operands /\ status' = status
      /\ at' = l[k + 1] /\ argv' = SubSeq(ws, w[k + 1] + 1, N)
      /\ vals' = OP!SetTo(vals, uses[k + 1].opt, uses[k + 1].val) /\ vals' # None
  BY Zenon DEF Reads
<1>4. k + 1 \in 1..n /\ k + 1 \in 0..n /\ (k + 1) - 1 = k
  BY <1>1, <1>2
<1>5. r[k + 1] = vals'
  <2>1. r[k + 1] = Setting(r[k], uses[k + 1])
    <3>1. r[k + 1] = Setting(r[(k + 1) - 1], uses[k + 1])
      BY <1>1, <1>4, Zenon DEF Set
    <3>. QED
      BY <1>4, <3>1
  <2>2. r[k] # None
    BY <1>1, SettledIsOne
  <2>. QED
    BY <1>1, <1>3, <2>1, <2>2, Zenon DEF Setting
<1>6. Set(r, uses)' /\ SayAll(ws, uses, w, l, m)'
  BY <1>1, <1>2, <1>3
<1>7. Follows(SubSeq(ws, m + 1, Len(ws)))'
  <2>1. Follows(SubSeq(ws, m + 1, N))'
    BY <1>2, <1>3 DEF Follows
  <2>. QED
    BY <1>1, <2>1
<1>8. /\ ws \in Seq(Word) /\ k + 1 \in 0..Len(uses') /\ m \in 0..Len(ws)
      /\ argv' = SubSeq(ws, w[k + 1] + 1, Len(ws)) /\ at' = l[k + 1]
      /\ vals' = r[k + 1] /\ vals' # None
  BY <1>1, <1>2, <1>3, <1>4, <1>5
<1>9. HasRead(r, ws, w, l, k + 1)'
  BY <1>6, <1>7, <1>8, Zenon DEF HasRead
<1>. QED
  BY <1>3, <1>9 DEF GoesOn

(* If it cannot be made, none of the variables that are meant can be.      *)
LEMMA CannotRead ==
    ASSUME OP!OptionsAssumption, NEW r, NEW ws, NEW w, NEW l, NEW k, NEW n, NEW N, NEW a,
           NEW t, NEW m,
           AtPlace(r, ws, w, l, k, n, N, a, t, m), k < n,
           OP!SetTo(vals, uses[k + 1].opt, uses[k + 1].val) = None
    PROVE  r[Len(uses)] = None
<1>1. /\ n = Len(uses) /\ n \in Nat /\ Set(r, uses) /\ k \in 0..n /\ vals = r[k]
      /\ vals \in Settled
      /\ uses \in Seq(Uses)
  BY Zenon DEF AtPlace
<1>2. k + 1 \in 1..n /\ k + 1 \in 0..n /\ (k + 1) - 1 = k
  BY <1>1
<1>3. r[k + 1] = Setting(r[k], uses[k + 1])
  <2>1. r[k + 1] = Setting(r[(k + 1) - 1], uses[k + 1])
    BY <1>1, <1>2, Zenon DEF Set
  <2>. QED
    BY <1>2, <2>1
<1>4. r[k + 1] = None
  BY <1>1, <1>3, Zenon DEF Setting
<1>5. k + 1 \in 0..Len(uses)
  BY <1>1, <1>2
<1>. QED
  BY <1>1, <1>4, <1>5, FailsOnce

(* An option takes what it is meant to take, from as many words as it      *)
(* fills.                                                                  *)
Takes(r, ws, w, l, k, n, N, a, t, m, o, arg, d) ==
    /\ AtPlace(r, ws, w, l, k, n, N, a, t, m) /\ k < n
    /\ uses' = uses /\ operands' = operands /\ status = "parsing"
    /\ w[k + 1] = a + d /\ l[k + 1] = 0 /\ d \in Nat /\ a + d <= N
    /\ OP!SetTo(vals, o, arg) = OP!SetTo(vals, uses[k + 1].opt, uses[k + 1].val)
    /\ OP!Take(o, arg, d)

(* Take makes the use, or shows that it cannot be made.                    *)
LEMMA TakesOn ==
    ASSUME OP!OptionsAssumption, NEW r, NEW ws, NEW w, NEW l, NEW k, NEW n, NEW N, NEW a,
           NEW t, NEW m,
           NEW o, NEW arg, NEW d, Takes(r, ws, w, l, k, n, N, a, t, m, o, arg, d)
    PROVE  GoesOn(r, ws, w, l, k)
<1>1. AtPlace(r, ws, w, l, k, n, N, a, t, m) /\ k < n
  BY Zenon DEF Takes
<1>2. /\ uses' = uses /\ operands' = operands /\ status = "parsing"
      /\ w[k + 1] = a + d /\ l[k + 1] = 0 /\ d \in Nat /\ a + d <= N
  BY Zenon DEF Takes
<1>3. PICK x : x = OP!SetTo(vals, uses[k + 1].opt, uses[k + 1].val)
  OBVIOUS
<1>4. OP!SetTo(vals, o, arg) = x /\ OP!Take(o, arg, d)
  BY <1>3, Zenon DEF Takes
<1>5. CASE x = None
  <2>1. status' = "usage"
    BY <1>4, <1>5, Zenon DEF OP!Take, OP!Usage
  <2>2. r[Len(uses)] = None
    BY <1>1, <1>3, <1>5, CannotRead
  <2>. QED
    BY <2>1, <2>2 DEF GoesOn
<1>6. CASE x # None
  <2>1. /\ vals' = x /\ argv' = SubSeq(argv, d + 1, Len(argv)) /\ at' = 0 /\ status' = status
    BY <1>4, <1>6, Zenon DEF OP!Take
  <2>2. argv = SubSeq(ws, a + 1, N) /\ Len(argv) = N - a /\ ws \in Seq(Word) /\ a \in 0..N
        /\ N \in Nat
        /\ N = Len(ws)
    BY <1>1, Zenon DEF AtPlace
  <2>3. SubSeq(argv, d + 1, N - a) = SubSeq(ws, (a + d) + 1, a + (N - a))
    <3>1. a \in Nat /\ N \in Nat /\ d \in Nat /\ a <= N /\ N <= Len(ws) /\ N - a \in Nat
          /\ d <= N - a
          /\ N - a <= N - a
      BY <1>2, <2>2
    <3>2. PartOfPart(ws, a, N, d, N - a)
      BY <2>2, <3>1, CutOfCut
    <3>. QED
      BY <2>2, <3>2, Zenon DEF PartOfPart
  <2>4. a + (N - a) = N
    BY <2>2
  <2>5. argv' = SubSeq(ws, w[k + 1] + 1, N)
    BY <1>2, <2>1, <2>2, <2>3, <2>4, Zenon
  <2>6. Reads(r, ws, w, l, k, n, N, a, t, m)
    BY <1>1, <1>2, <1>3, <1>6, <2>1, <2>5, Zenon DEF Reads
  <2>. QED
    BY <2>6, Advance
<1>. QED
  BY <1>5, <1>6

(* When all has been read there is no more to be read.                     *)
LEMMA NoMore ==
    ASSUME OP!OptionsAssumption, operands \in Seq(OptWords),
           NEW r, NEW ws, NEW w, NEW l, NEW k, NEW n, NEW N, NEW a, NEW t, NEW m,
           AtPlace(r, ws, w, l, k, n, N, a, t, m), k = n
    PROVE  /\ at = 0 /\ vals = r[n] /\ Follows(argv)
           /\ ~OP!ParseShort /\ ~OP!ParseLong
<1>1. /\ m = w[n] /\ l[n] = 0 /\ a = w[k] /\ t = l[k] /\ at = t /\ vals = r[k]
      /\ argv = SubSeq(ws, a + 1, N) /\ Follows(SubSeq(ws, m + 1, N))
  BY Zenon DEF AtPlace
<1>2. at = 0 /\ vals = r[n] /\ Follows(argv)
  BY <1>1, Zenon
<1>3. CASE argv = operands /\ (operands # <<>> => ~OP!Option(operands[1]))
  <2>1. ~OP!Parsing
    BY <1>3, Zenon DEF OP!Parsing
  <2>. QED
    BY <1>2, <2>1, Zenon DEF OP!ParseShort, OP!ParseLong
<1>4. ASSUME NEW stop \in Stop, argv = <<stop>> \o operands
      PROVE  ~OP!ParseShort /\ ~OP!ParseLong
  <2>1. argv[1] = stop
    <3>1. PICK p : p = <<stop>>
      OBVIOUS
    <3>2. stop \in Word /\ operands \in Seq(Word)
      <4>1. <<"-">> \in Word
        BY DEF Word, Letter
      <4>2. stop \in Word
        BY <4>1, TextIsWord DEF Stop
      <4>3. OptWords \subseteq Word
        BY TextIsWord
      <4>. QED
        BY <4>2, <4>3, SeqWider
    <3>3. p \in Seq(Word) /\ Len(p) = 1 /\ p[1] = stop
      BY <3>1, <3>2
    <3>4. \A i \in 1..Len(p) : (p \o operands)[i] = p[i]
      <4>1. p \in Seq(Word)
        BY <3>3
      <4>. QED
        BY <3>2, <4>1, ConcatPlaces
    <3>5. 1 \in 1..Len(p)
      BY <3>3
    <3>. QED
      BY <1>4, <3>1, <3>3, <3>4, <3>5, Zenon
  <2>2. CASE stop = <<"-">>
    <3>1. Len(stop) = 1
      BY <2>2
    <3>2. ~(Len(stop) > 1)
      BY <3>1
    <3>. QED
      BY <2>1, <3>2, Zenon DEF OP!ParseShort, OP!ParseLong, OP!Parsing
  <2>3. CASE stop = Dashes
    <3>1. Len(stop) = 2 /\ stop[2] = "-"
      BY <2>3 DEF Dashes
    <3>2. ~(Len(stop) > 2)
      BY <3>1
    <3>. QED
      BY <2>1, <3>1, <3>2, Zenon DEF OP!ParseShort, OP!ParseLong
  <2>. QED
    BY <2>2, <2>3 DEF Stop
<1>. QED
  BY <1>2, <1>3, <1>4 DEF Follows

(* The word y is two dashes and x.                                         *)
NameWord(y, x) ==
    /\ y \in Word /\ x \in Word /\ Len(x) \in Nat /\ Len(y) = 2 + Len(x) /\ y[1] = "-"
    /\ y[2] = "-"
    /\ SubSeq(y, 3, Len(y)) = x

(* Two dashes and x are such a word.                                       *)
LEMMA NamedIs ==
    ASSUME OP!OptionsAssumption, NEW x \in Word, NEW y, y = Dashes \o x
    PROVE  NameWord(y, x)
<1>1. PICK d, c : d = Dashes /\ c = 3
  OBVIOUS
<1>2. d \in Seq(Letter) /\ Len(d) = 2 /\ d[1] = "-" /\ d[2] = "-"
  BY <1>1 DEF Dashes, Letter
<1>3. x \in Seq(Letter) /\ y = d \o x
  BY <1>1 DEF Word
<1>4. /\ y \in Seq(Letter) /\ Len(y) = Len(d) + Len(x) /\ Len(x) \in Nat
      /\ \A i \in 1..Len(d) : y[i] = d[i]
  <2>1. d \in Seq(Letter)
    BY <1>2
  <2>. QED
    BY <1>3, <2>1, ConcatPlaces
<1>5. SubSeq(d \o x, Len(d) + 1, Len(d) + Len(x)) = x
  BY <1>2, <1>3, JoinCut
<1>6. SubSeq(y, 3, Len(y)) = x
  BY <1>2, <1>3, <1>4, <1>5
<1>7. y[1] = "-" /\ y[2] = "-" /\ Len(y) = 2 + Len(x)
  BY <1>2, <1>4
<1>. QED
  BY <1>3, <1>4, <1>6, <1>7, Zenon DEF NameWord, Word

(* The long form, with and without a value in the same word.               *)
WithValue(x, name, val) == x = name \o <<"=">> \o val

(* The word y is the long form of u, whose name and value are x.           *)
LongWord(y, u, x) ==
    /\ NameWord(y, x)
    /\ \/ u.form = "long" /\ x = u.opt.name
       \/ u.form = "equals" /\ WithValue(x, u.opt.name, u.val)

(* A use by name is such a word.                                           *)
LEMMA LongIs ==
    ASSUME OP!OptionsAssumption, NEW u \in Uses, NEW ws, NEW a, NEW t, NEW b,
           NEW s, AsName(ws, u, a, t, b, s)
    PROVE  \E x : LongWord(ws[a + 1], u, x)
<1>1. u.opt.name \in Word /\ u.val \in Word /\ <<"=">> \in Word /\ Dashes \in Word
  <2>1. u.opt \in Opts /\ u.val \in OptWords
    BY UseHas
  <2>. QED
    BY <2>1, TextIsWord
<1>2. PICK y : y = ws[a + 1]
  OBVIOUS
<1>3. CASE u.form = "long" /\ y = Dashes \o u.opt.name
  <2>1. NameWord(y, u.opt.name)
    BY <1>1, <1>3, NamedIs
  <2>. QED
    BY <1>2, <1>3, <2>1, Zenon DEF LongWord
<1>4. CASE u.form = "equals" /\ y = Dashes \o u.opt.name \o <<"=">> \o u.val
  <2>1. PICK d, c, e, v : d = Dashes /\ c = u.opt.name /\ e = <<"=">> /\ v = u.val
    OBVIOUS
  <2>2. d \in Word /\ c \in Word /\ e \in Word /\ v \in Word
    BY <1>1, <2>1
  <2>3. y = ((d \o c) \o e) \o v
    BY <1>4, <2>1, Zenon
  <2>4. (d \o c) \in Word /\ c \o e \in Word
    BY <2>2, WordsJoin
  <2>5. (d \o c) \o e = d \o (c \o e)
    BY <2>2, ConcatAssociative DEF Word
  <2>6. (d \o (c \o e)) \o v = d \o ((c \o e) \o v)
    <3>1. PICK f : f = c \o e
      OBVIOUS
    <3>2. f \in Seq(Letter) /\ d \in Seq(Letter) /\ v \in Seq(Letter)
      BY <2>2, <2>4, <3>1 DEF Word
    <3>3. (d \o f) \o v = d \o (f \o v)
      BY <3>2, ConcatAssociative
    <3>. QED
      BY <3>1, <3>3
  <2>7. PICK x : x = (c \o e) \o v
    OBVIOUS
  <2>8. x \in Word
    BY <2>2, <2>4, <2>7, WordsJoin
  <2>9. y = Dashes \o x
    BY <2>1, <2>3, <2>5, <2>6, <2>7, Zenon
  <2>10. NameWord(y, x)
    BY <2>8, <2>9, NamedIs
  <2>11. WithValue(x, u.opt.name, u.val)
    BY <2>1, <2>7, Zenon DEF WithValue
  <2>. QED
    BY <1>2, <1>4, <2>10, <2>11, Zenon DEF LongWord
<1>. QED
  BY <1>2, <1>3, <1>4, Zenon DEF AsName

(* There is one option with the letter of another.                         *)
LEMMA TheLetter ==
    ASSUME OP!OptionsAssumption, NEW o \in Opts, NEW c, o.ch = c, c # OP!NoLetter,
           NEW S, S = {p \in Opts : p.ch = c}
    PROVE  S # {} /\ (CHOOSE x \in S : TRUE) = o
<1>1. o \in S /\ \A p \in S : p = o
  BY OpSizes
<1>2. S = {o}
  BY <1>1
<1>. QED
  BY <1>2

(* What is said next.                                                      *)
NextSays(ws, k, n, N, a, t, b, s, u) ==
    /\ k < n /\ u = uses[k + 1] /\ u \in Uses /\ Says(ws, u, a, t, b, s) /\ a \in Nat /\ N \in Nat
    /\ N = Len(ws) /\ t \in Nat /\ a + 1 <= N /\ at = t /\ Len(argv) = N - a
    /\ argv[1] = ws[a + 1]
    /\ a + 2 <= N => argv[2] = ws[a + 2]
    /\ vals \in Settled /\ ws[a + 1] \in Word

(* While there is a use to be read the words say it next.                  *)
LEMMA NextIs ==
    ASSUME OP!OptionsAssumption,
           NEW r, NEW ws, NEW w, NEW l, NEW k, NEW n, NEW N, NEW a, NEW t, NEW m,
           AtPlace(r, ws, w, l, k, n, N, a, t, m), k < n
    PROVE  NextSays(ws, k, n, N, a, t, w[k + 1], l[k + 1], uses[k + 1])
<1>1. /\ n = Len(uses) /\ n \in Nat /\ k \in 0..n /\ uses \in Seq(Uses) /\ N = Len(ws)
      /\ N \in Nat
      /\ a = w[k] /\ t = l[k] /\ a \in 0..N /\ t \in Nat /\ at = t /\ Len(argv) = N - a
      /\ vals \in Settled /\ ws \in Seq(Word)
  BY Zenon DEF AtPlace
<1>2. /\ \A i \in 1..n : Says(ws, uses[i], w[i - 1], l[i - 1], w[i], l[i])
      /\ \A j \in 1..N - a : argv[j] = ws[a + j]
  BY Zenon DEF AtPlace
<1>3. k + 1 \in 1..n /\ (k + 1) - 1 = k
  BY <1>1
<1>4. Says(ws, uses[k + 1], a, t, w[k + 1], l[k + 1])
  <2>1. Says(ws, uses[k + 1], w[(k + 1) - 1], l[(k + 1) - 1], w[k + 1], l[k + 1])
    BY <1>2, <1>3
  <2>. QED
    BY <1>1, <1>3, <2>1
<1>5. uses[k + 1] \in Uses
  BY <1>1, <1>3, ElementOfSeq
<1>6. a + 1 <= N
  BY <1>1, <1>4 DEF Says
<1>7. argv[1] = ws[a + 1] /\ (a + 2 <= N => argv[2] = ws[a + 2])
  <2>1. 1 \in 1..N - a /\ (a + 2 <= N => 2 \in 1..N - a)
    BY <1>1, <1>6
  <2>. QED
    BY <1>2, <2>1
<1>8. ws[a + 1] \in Word
  <2>1. a + 1 \in 1..Len(ws)
    BY <1>1, <1>6
  <2>. QED
    BY <1>1, <2>1, ElementOfSeq
<1>9. a \in Nat
  BY <1>1
<1>. QED
  BY <1>1, <1>4, <1>5, <1>6, <1>7, <1>8, <1>9, Zenon DEF NextSays

(* A letter is read.                                                       *)
LEMMA ParseShortOn ==
    ASSUME OP!OptionsAssumption,
           NEW r, NEW ws, NEW w, NEW l, NEW k, NEW n, NEW N, NEW a, NEW t, NEW m,
           AtPlace(r, ws, w, l, k, n, N, a, t, m), k < n, OP!ParseShort
    PROVE  GoesOn(r, ws, w, l, k)
<1>1. PICK b, s, u, y : b = w[k + 1] /\ s = l[k + 1] /\ u = uses[k + 1] /\ y = ws[a + 1]
  OBVIOUS
<1>2. NextSays(ws, k, n, N, a, t, b, s, u)
  BY <1>1, NextIs
<1>3. /\ u = uses[k + 1] /\ u \in Uses /\ Says(ws, u, a, t, b, s) /\ a \in Nat /\ N \in Nat
      /\ N = Len(ws) /\ t \in Nat /\ a + 1 <= N /\ at = t /\ Len(argv) = N - a /\ argv[1] = y
      /\ vals \in Settled /\ y \in Word
  BY <1>1, <1>2, Zenon DEF NextSays
<1>4. a + 2 <= N => argv[2] = ws[a + 2]
  BY <1>2, Zenon DEF NextSays
<1>5. /\ status = "parsing" /\ y[2] # "-" /\ uses' = uses /\ operands' = operands
  BY <1>3, Zenon DEF OP!ParseShort, OP!Parsing
<1>6. AsLetter(ws, u, a, t, b, s)
  <2>1. ASSUME AsName(ws, u, a, t, b, s) PROVE FALSE
    <3>1. PICK x : LongWord(y, u, x)
      BY <1>1, <1>3, <2>1, LongIs
    <3>. QED
      BY <1>5, <3>1, Zenon DEF LongWord, NameWord
  <2>. QED
    BY <1>3, <2>1 DEF Says
<1>7. PICK i \in Nat :
      /\ i = (IF t = 0 THEN 1 ELSE t) + 1 /\ i <= Len(y) /\ y[i] = u.opt.ch
      /\ u.form \in {"short", "joined"}
      /\ \/ Switch(u) /\ i = Len(y) /\ b = a + 1 /\ s = 0
         \/ Switch(u) /\ i < Len(y) /\ b = a /\ s = i
         \/ /\ ~Switch(u) /\ i < Len(y)
            /\ SubSeq(y, i + 1, Len(y)) = u.val /\ b = a + 1 /\ s = 0
         \/ /\ ~Switch(u) /\ i = Len(y)
            /\ a + 2 <= Len(ws) /\ ws[a + 2] = u.val /\ b = a + 2 /\ s = 0
  BY <1>1, <1>6, Zenon DEF AsLetter
<1>8. PICK S : S = {p \in Opts : p.ch = y[i]}
  OBVIOUS
<1>9. u.opt \in Opts /\ u.val \in OptWords /\ u.opt.ch # OP!NoLetter
  BY <1>3, <1>7, UseHas
<1>10. S # {} /\ (CHOOSE x \in S : TRUE) = u.opt
  BY <1>7, <1>8, <1>9, TheLetter
<1>11. PICK o : o = u.opt
  OBVIOUS
<1>12. IF o.type \in OP!Switches
       THEN IF i = Len(y) THEN OP!Take(o, <<>>, 1)
            ELSE /\ vals' = OP!SetTo(vals, o, <<>>) /\ at' = i
                 /\ UNCHANGED <<argv, status>>
       ELSE IF i < Len(y) THEN OP!Take(o, OP!Rest(y, i), 1)
       ELSE IF Len(argv) = 1 THEN OP!Usage
       ELSE OP!Take(o, argv[2], 2)
  <2>1. LET w1 == argv[1]
            i1 == (IF at = 0 THEN 1 ELSE at) + 1
            opts == {p \in Opts : p.ch = w1[i1]}
        IN IF opts = {} THEN OP!Usage
           ELSE LET p == CHOOSE x \in opts : TRUE IN
               IF p.type \in OP!Switches
               THEN IF i1 = Len(w1) THEN OP!Take(p, <<>>, 1)
                    ELSE /\ vals' = OP!SetTo(vals, p, <<>>) /\ at' = i1
                         /\ UNCHANGED <<argv, status>>
               ELSE IF i1 < Len(w1) THEN OP!Take(p, OP!Rest(w1, i1), 1)
               ELSE IF Len(argv) = 1 THEN OP!Usage
               ELSE OP!Take(p, argv[2], 2)
    BY Zenon DEF OP!ParseShort
  <2>2. argv[1] = y /\ i = (IF at = 0 THEN 1 ELSE at) + 1
    BY <1>3, <1>7, Zenon
  <2>. QED
    BY <1>8, <1>10, <1>11, <2>1, <2>2, Zenon
<1>13. a \in Nat /\ N = Len(ws) /\ (b = a + 1 \/ b = a \/ b = a + 2)
  BY <1>3, <1>7, Zenon
<1>14. CASE Switch(u) /\ i = Len(y) /\ b = a + 1 /\ s = 0
  <2>1. OP!Take(o, <<>>, 1)
    BY <1>11, <1>12, <1>14, Zenon DEF Switch
  <2>2. OP!SetTo(vals, o, <<>>) = OP!SetTo(vals, u.opt, u.val)
    BY <1>3, <1>11, <1>14, SwitchIs
  <2>3. 1 \in Nat
    OBVIOUS
  <2>4. Takes(r, ws, w, l, k, n, N, a, t, m, o, <<>>, 1)
    BY <1>1, <1>3, <1>5, <1>14, <2>1, <2>2, <2>3, Zenon DEF Takes
  <2>. QED
    BY <2>4, TakesOn
<1>15. CASE Switch(u) /\ i < Len(y) /\ b = a /\ s = i
  <2>1. i # Len(y)
    <3>1. Len(y) \in Nat
      BY <1>3, LenProperties DEF Word
    <3>. QED
      BY <1>15, <3>1
  <2>2. vals' = OP!SetTo(vals, o, <<>>) /\ at' = i /\ argv' = argv /\ status' = status
    BY <1>11, <1>12, <1>15, <2>1, Zenon DEF Switch
  <2>3. OP!SetTo(vals, o, <<>>) = OP!SetTo(vals, u.opt, u.val)
        /\ OP!SetTo(vals, u.opt, u.val) # None
    BY <1>3, <1>11, <1>15, SwitchIs
  <2>4. argv = SubSeq(ws, a + 1, N)
    BY Zenon DEF AtPlace
  <2>5. Reads(r, ws, w, l, k, n, N, a, t, m)
    BY <1>1, <1>3, <1>5, <1>15, <2>2, <2>3, <2>4, Zenon DEF Reads
  <2>. QED
    BY <2>5, Advance
<1>16. CASE ~Switch(u) /\ i < Len(y) /\ SubSeq(y, i + 1, Len(y)) = u.val /\ b = a + 1 /\ s = 0
  <2>1. OP!Take(o, OP!Rest(y, i), 1)
    BY <1>11, <1>12, <1>16, Zenon DEF Switch
  <2>2. OP!Rest(y, i) = u.val
    BY <1>16, Zenon DEF OP!Rest
  <2>3. 1 \in Nat
    OBVIOUS
  <2>4. Takes(r, ws, w, l, k, n, N, a, t, m, o, u.val, 1)
    BY <1>1, <1>3, <1>5, <1>11, <1>16, <2>1, <2>2, <2>3, Zenon DEF Takes
  <2>. QED
    BY <2>4, TakesOn
<1>17. CASE ~Switch(u) /\ i = Len(y) /\ a + 2 <= Len(ws) /\ ws[a + 2] = u.val /\ b = a + 2
       /\ s = 0
  <2>1. ~(i < Len(y)) /\ Len(argv) # 1 /\ argv[2] = u.val
    <3>1. ~(i < Len(y))
      BY <1>17
    <3>2. Len(argv) # 1
      BY <1>3, <1>17
    <3>. QED
      BY <1>3, <1>4, <1>17, <3>1, <3>2
  <2>2. OP!Take(o, u.val, 2)
    BY <1>11, <1>12, <1>17, <2>1, Zenon DEF Switch
  <2>3. 2 \in Nat
    OBVIOUS
  <2>4. Takes(r, ws, w, l, k, n, N, a, t, m, o, u.val, 2)
    BY <1>1, <1>3, <1>5, <1>11, <1>17, <2>2, <2>3, Zenon DEF Takes
  <2>. QED
    BY <2>4, TakesOn
<1>. QED
  BY <1>7, <1>14, <1>15, <1>16, <1>17

(* Where the parts of a name with a value are.                             *)
Parts(x, name, v) ==
    /\ x \in Word /\ Len(name) \in Nat /\ Len(v) \in Nat /\ Len(x) = Len(name) + 1 + Len(v)
    /\ \A i \in 1..Len(name) : x[i] = name[i]
    /\ x[Len(name) + 1] = "=" /\ SubSeq(x, Len(name) + 2, Len(x)) = v

(* They are there.                                                         *)
LEMMA PartsAre ==
    ASSUME NEW name \in Word, NEW v \in Word, NEW x, WithValue(x, name, v)
    PROVE  Parts(x, name, v)
<1>1. PICK e, f : e = <<"=">> /\ f = name \o e
  OBVIOUS
<1>2. e \in Seq(Letter) /\ Len(e) = 1 /\ e[1] = "="
  BY <1>1 DEF Letter
<1>3. x = f \o v
  BY <1>1, Zenon DEF WithValue
<1>4. name \in Seq(Letter) /\ v \in Seq(Letter)
  BY DEF Word
<1>5. /\ f \in Seq(Letter) /\ Len(f) = Len(name) + Len(e) /\ Len(name) \in Nat
      /\ \A i \in 1..Len(name) : f[i] = name[i]
      /\ \A i \in 1..Len(e) : f[Len(name) + i] = e[i]
  <2>1. e \in Seq(Letter)
    BY <1>2
  <2>. QED
    BY <1>1, <1>4, <2>1, ConcatPlaces
<1>6. PICK k, p : k = Len(name) /\ p = Len(f)
  OBVIOUS
<1>7. p = k + 1 /\ k \in Nat /\ p \in Nat /\ f[k + 1] = "=" /\ \A i \in 1..k : f[i] = name[i]
  <2>1. 1 \in 1..Len(e)
    BY <1>2
  <2>2. f[k + 1] = "="
    BY <1>2, <1>5, <1>6, <2>1
  <2>3. p = k + 1 /\ k \in Nat /\ p \in Nat
    BY <1>2, <1>5, <1>6
  <2>. QED
    BY <1>5, <1>6, <2>2, <2>3
<1>8. /\ x \in Seq(Letter) /\ Len(x) = Len(f) + Len(v) /\ Len(v) \in Nat
      /\ \A i \in 1..Len(f) : x[i] = f[i]
  <2>1. f \in Seq(Letter)
    BY <1>5
  <2>. QED
    BY <1>3, <1>4, <2>1, ConcatPlaces
<1>9. SubSeq(f \o v, Len(f) + 1, Len(f) + Len(v)) = v
  <2>1. f \in Seq(Letter)
    BY <1>5
  <2>. QED
    BY <1>4, <2>1, JoinCut
<1>10. SubSeq(x, Len(name) + 2, Len(x)) = v
  <2>1. Len(f) + 1 = Len(name) + 2
    BY <1>6, <1>7
  <2>. QED
    BY <1>3, <1>8, <1>9, <2>1, Zenon
<1>11. Len(x) = Len(name) + 1 + Len(v)
  BY <1>6, <1>7, <1>8
<1>12. (\A i \in 1..Len(name) : x[i] = name[i]) /\ x[Len(name) + 1] = "="
  <2>1. k + 1 \in 1..p /\ \A i \in 1..k : i \in 1..p
    BY <1>7
  <2>. QED
    BY <1>6, <1>7, <1>8, <2>1
<1>. QED
  BY <1>5, <1>8, <1>10, <1>11, <1>12, Zenon DEF Parts, Word

(* No name with a value is a name.                                         *)
LEMMA NoName ==
    ASSUME OP!OptionsAssumption, NEW o \in Opts, NEW v \in Word, NEW x, WithValue(x, o.name, v),
           NEW p \in Opts
    PROVE  x # p.name
<1>1. o.name \in Word /\ p.name \in Seq(STRING \ {"="})
  BY TextIsWord, OpSizes
<1>2. Parts(x, o.name, v)
  BY <1>1, PartsAre
<1>3. PICK k, q : k = Len(o.name) /\ q = p.name
  OBVIOUS
<1>4. x[k + 1] = "=" /\ k \in Nat /\ Len(v) \in Nat /\ Len(x) = k + 1 + Len(v)
  BY <1>2, <1>3, Zenon DEF Parts
<1>5. ASSUME x = q PROVE FALSE
  <2>1. k + 1 \in 1..Len(q)
    BY <1>4, <1>5
  <2>2. q[k + 1] \in STRING \ {"="}
    BY <1>1, <1>3, <2>1, ElementOfSeq
  <2>. QED
    BY <1>4, <1>5, <2>2
<1>. QED
  BY <1>3, <1>5

(* It begins with the name of one option only.                             *)
LEMMA OneName ==
    ASSUME OP!OptionsAssumption, NEW o \in Opts, NEW v \in Word, NEW x, WithValue(x, o.name, v),
           o.name # OP!NoName, NEW p \in Opts
    PROVE  p.name # OP!NoName /\ OP!IsPrefix(p.name \o <<"=">>, x) <=> p = o
<1>1. o.name \in Word /\ p.name \in Word /\ o.name \in Seq(STRING \ {"="})
      /\ p.name \in Seq(STRING \ {"="})
  BY TextIsWord, OpSizes
<1>2. Parts(x, o.name, v)
  BY <1>1, PartsAre
<1>3. PICK k, j, f, g, q : k = Len(o.name) /\ j = Len(p.name) /\ f = o.name /\ g = p.name
                           /\ q = p.name \o <<"=">>
  OBVIOUS
<1>4. /\ x[k + 1] = "=" /\ k \in Nat /\ Len(v) \in Nat /\ Len(x) = k + 1 + Len(v)
      /\ \A i \in 1..k : x[i] = f[i]
      /\ x \in Word
  BY <1>2, <1>3, Zenon DEF Parts
<1>5. /\ q \in Word /\ j \in Nat /\ Len(q) = j + 1 /\ q[j + 1] = "="
      /\ \A i \in 1..j : q[i] = g[i]
  <2>1. PICK e : e = <<"=">>
    OBVIOUS
  <2>2. e \in Seq(Letter) /\ Len(e) = 1 /\ e[1] = "="
    BY <2>1 DEF Letter
  <2>3. g \in Seq(Letter) /\ e \in Seq(Letter)
    BY <1>1, <1>3, <2>2 DEF Word
  <2>4. /\ g \o e \in Seq(Letter) /\ Len(g \o e) = Len(g) + Len(e) /\ Len(g) \in Nat
        /\ \A i \in 1..Len(g) : (g \o e)[i] = g[i]
        /\ \A i \in 1..Len(e) : (g \o e)[Len(g) + i] = e[i]
    BY <2>3, ConcatPlaces
  <2>5. q = g \o e
    BY <1>3, <2>1
  <2>6. 1 \in 1..Len(e)
    BY <2>2
  <2>7. q \in Seq(Letter) /\ Len(q) = j + 1 /\ j \in Nat /\ q[j + 1] = e[1]
        /\ \A i \in 1..j : q[i] = g[i]
    BY <1>3, <2>2, <2>4, <2>5, <2>6
  <2>. QED
    BY <2>2, <2>7 DEF Word
<1>6. OP!IsPrefix(q, x) <=> Begins(q, x)
  <2>1. IsSeq(q) /\ IsSeq(x)
    BY <1>4, <1>5 DEF IsSeq, Word
  <2>2. CR!IsPrefix(q, x) <=> Begins(q, x)
    BY <2>1, PrefixIs
  <2>3. OP!IsPrefix(q, x) <=> CR!IsPrefix(q, x)
    BY Zenon DEF OP!IsPrefix, CR!IsPrefix
  <2>. QED
    BY <2>2, <2>3
<1>7. (\A i \in 1..k : f[i] # "=") /\ (\A i \in 1..j : g[i] # "=")
  BY <1>1, <1>3, ElementOfSeq
<1>8. ASSUME Begins(q, x) PROVE p = o
  <2>1. \A i \in 1..j + 1 : x[i] = q[i]
    BY <1>5, <1>8, Zenon DEF Begins
  <2>2. ~(j < k)
    <3>1. ASSUME j < k PROVE FALSE
      <4>1. j + 1 \in 1..k /\ j + 1 \in 1..j + 1
        BY <1>4, <1>5, <3>1
      <4>2. x[j + 1] = "=" /\ x[j + 1] = f[j + 1]
        BY <1>4, <1>5, <2>1, <4>1
      <4>. QED
        BY <1>7, <4>1, <4>2
    <3>. QED
      BY <3>1
  <2>3. ~(k < j)
    <3>1. ASSUME k < j PROVE FALSE
      <4>1. k + 1 \in 1..j /\ k + 1 \in 1..j + 1
        BY <1>4, <1>5, <3>1
      <4>2. q[k + 1] = "=" /\ q[k + 1] = g[k + 1]
        BY <1>4, <1>5, <2>1, <4>1
      <4>. QED
        BY <1>7, <4>1, <4>2
    <3>. QED
      BY <3>1
  <2>4. k = j
    BY <1>4, <1>5, <2>2, <2>3
  <2>5. \A i \in 1..k : f[i] = g[i]
    <3>1. \A i \in 1..j : i \in 1..j + 1
      BY <1>5
    <3>. QED
      BY <1>4, <1>5, <2>1, <2>4, <3>1
  <2>6. f = g
    <3>1. f \in Seq(Letter) /\ g \in Seq(Letter) /\ Len(f) = Len(g) /\ Len(f) = k
      BY <1>1, <1>3, <2>4 DEF Word
    <3>. QED
      BY <2>5, <3>1, SeqEqual
  <2>. QED
    BY <1>3, <2>6, OpSizes
<1>9. ASSUME p = o PROVE Begins(q, x)
  <2>1. f = g /\ k = j
    BY <1>3, <1>9
  <2>2. Len(q) <= Len(x)
    BY <1>4, <1>5, <2>1
  <2>3. ASSUME NEW i \in 1..j + 1 PROVE x[i] = q[i]
    <3>1. CASE i = j + 1
      BY <1>4, <1>5, <2>1, <3>1
    <3>2. CASE i # j + 1
      <4>1. i \in 1..j
        BY <1>5, <3>2
      <4>. QED
        BY <1>4, <1>5, <2>1, <4>1
    <3>. QED
      BY <3>1, <3>2
  <2>. QED
    BY <1>5, <2>2, <2>3, Zenon DEF Begins
<1>. QED
  BY <1>3, <1>6, <1>8, <1>9

(* There is one option with the name of another.                           *)
LEMMA TheName ==
    ASSUME OP!OptionsAssumption, NEW o \in Opts, NEW x, x = o.name, x # OP!NoName,
           NEW S, S = {p \in Opts : x = p.name}
    PROVE  S # {} /\ (CHOOSE y \in S : TRUE) = o
<1>1. o \in S /\ \A p \in S : p = o
  BY OpSizes
<1>2. S = {o}
  BY <1>1
<1>. QED
  BY <1>2

(* The options that x may be a name of, without and with a value.          *)
NamesOf(S, T, x) ==
    /\ S = {p \in Opts : x = p.name}
    /\ T = {p \in Opts : p.name # OP!NoName /\ OP!IsPrefix(p.name \o <<"=">>, x)}

(* There is one option that x names with a value, and none without.        *)
LEMMA TheNameWith ==
    ASSUME OP!OptionsAssumption, NEW o \in Opts, NEW v \in Word, NEW x, WithValue(x, o.name, v),
           o.name # OP!NoName, NEW S, NEW T, NamesOf(S, T, x)
    PROVE  S = {} /\ T # {} /\ (CHOOSE y \in T : TRUE) = o
<1>1. \A p \in Opts : x # p.name
  BY NoName
<1>2. S = {}
  BY <1>1, Zenon DEF NamesOf
<1>3. \A p \in Opts : p.name # OP!NoName /\ OP!IsPrefix(p.name \o <<"=">>, x) <=> p = o
  BY OneName
<1>4. T = {o}
  BY <1>3, Zenon DEF NamesOf
<1>. QED
  BY <1>2, <1>4

(* A name is read.                                                         *)
LEMMA ParseLongOn ==
    ASSUME OP!OptionsAssumption,
           NEW r, NEW ws, NEW w, NEW l, NEW k, NEW n, NEW N, NEW a, NEW t, NEW m,
           AtPlace(r, ws, w, l, k, n, N, a, t, m), k < n, OP!ParseLong
    PROVE  GoesOn(r, ws, w, l, k)
<1>1. PICK b, s, u, y : b = w[k + 1] /\ s = l[k + 1] /\ u = uses[k + 1] /\ y = ws[a + 1]
  OBVIOUS
<1>2. NextSays(ws, k, n, N, a, t, b, s, u)
  BY <1>1, NextIs
<1>3. /\ u = uses[k + 1] /\ u \in Uses /\ Says(ws, u, a, t, b, s) /\ a \in Nat /\ N \in Nat
      /\ N = Len(ws) /\ t \in Nat /\ a + 1 <= N /\ at = t /\ Len(argv) = N - a /\ argv[1] = y
      /\ vals \in Settled /\ y \in Word
  BY <1>1, <1>2, Zenon DEF NextSays
<1>4. a + 2 <= N => argv[2] = ws[a + 2]
  BY <1>2, Zenon DEF NextSays
<1>5. /\ status = "parsing" /\ y[2] = "-" /\ uses' = uses /\ operands' = operands
  BY <1>3, Zenon DEF OP!ParseLong, OP!Parsing
<1>6. AsName(ws, u, a, t, b, s)
  BY <1>1, <1>3, <1>5, Zenon DEF Says, AsLetter
<1>7. PICK x : LongWord(y, u, x)
  BY <1>1, <1>3, <1>6, LongIs
<1>8. SubSeq(y, 3, Len(y)) = x
  BY <1>7, Zenon DEF LongWord, NameWord
<1>9. s = 0 /\ \/ u.form = "long" /\ Switch(u) /\ b = a + 1
               \/ /\ u.form = "long" /\ ~Switch(u)
                  /\ a + 2 <= Len(ws) /\ ws[a + 2] = u.val /\ b = a + 2
               \/ u.form = "equals" /\ ~Switch(u) /\ b = a + 1
  BY <1>6, Zenon DEF AsName
<1>10. u.opt \in Opts /\ u.val \in Word /\ u.opt.name # OP!NoName
  <2>1. u.opt \in Opts /\ u.val \in OptWords /\ u.opt.name # OP!NoName
    BY <1>3, <1>9, UseHas
  <2>. QED
    BY <2>1, TextIsWord
<1>11. PICK S, T, o : /\ S = {p \in Opts : x = p.name} /\ o = u.opt
                      /\ T = {p \in Opts : p.name # OP!NoName /\ OP!IsPrefix(p.name \o <<"=">>, x)}
  OBVIOUS
<1>12. IF S # {}
       THEN LET p == CHOOSE z \in S : TRUE IN
            IF p.type \in OP!Switches THEN OP!Take(p, <<>>, 1)
            ELSE IF Len(argv) = 1 THEN OP!Usage
            ELSE OP!Take(p, argv[2], 2)
       ELSE IF T = {} THEN OP!Usage
       ELSE LET p == CHOOSE z \in T : TRUE IN
            IF p.type \in OP!Switches THEN OP!Usage
            ELSE OP!Take(p, SubSeq(x, Len(p.name) + 2, Len(x)), 1)
  BY <1>3, <1>8, <1>11, Zenon DEF OP!ParseLong
<1>13. CASE u.form = "long" /\ x = u.opt.name
  <2>1. S # {} /\ (CHOOSE z \in S : TRUE) = o
    BY <1>10, <1>11, <1>13, TheName
  <2>2. IF o.type \in OP!Switches THEN OP!Take(o, <<>>, 1)
            ELSE IF Len(argv) = 1 THEN OP!Usage
            ELSE OP!Take(o, argv[2], 2)
    BY <1>12, <2>1, Zenon
  <2>3. u.form # "equals"
    BY <1>13
  <2>4. CASE Switch(u) /\ b = a + 1
    <3>1. OP!Take(o, <<>>, 1)
      BY <1>11, <2>2, <2>4, Zenon DEF Switch
    <3>2. OP!SetTo(vals, o, <<>>) = OP!SetTo(vals, u.opt, u.val)
      BY <1>3, <1>11, <2>4, SwitchIs
    <3>3. 1 \in Nat
      OBVIOUS
    <3>4. Takes(r, ws, w, l, k, n, N, a, t, m, o, <<>>, 1)
      BY <1>1, <1>3, <1>5, <1>9, <2>4, <3>1, <3>2, <3>3, Zenon DEF Takes
    <3>. QED
      BY <3>4, TakesOn
  <2>5. CASE ~Switch(u) /\ a + 2 <= Len(ws) /\ ws[a + 2] = u.val /\ b = a + 2
    <3>1. Len(argv) # 1
      BY <1>3, <2>5
    <3>2. argv[2] = u.val
      BY <1>3, <1>4, <2>5, Zenon
    <3>3. OP!Take(o, u.val, 2)
      BY <1>11, <2>2, <2>5, <3>1, <3>2, Zenon DEF Switch
    <3>4. 2 \in Nat
      OBVIOUS
    <3>5. Takes(r, ws, w, l, k, n, N, a, t, m, o, u.val, 2)
      BY <1>1, <1>3, <1>5, <1>9, <1>11, <2>5, <3>3, <3>4, Zenon DEF Takes
    <3>. QED
      BY <3>5, TakesOn
  <2>. QED
    BY <1>9, <2>3, <2>4, <2>5
<1>14. CASE u.form = "equals" /\ WithValue(x, u.opt.name, u.val)
  <2>1. S = {} /\ T # {} /\ (CHOOSE z \in T : TRUE) = o
    <3>1. NamesOf(S, T, x)
      BY <1>11, Zenon DEF NamesOf
    <3>2. o \in Opts /\ o.name # OP!NoName /\ u.val \in Word /\ WithValue(x, o.name, u.val)
      BY <1>10, <1>11, <1>14
    <3>. QED
      BY <3>1, <3>2, TheNameWith, Zenon
  <2>2. ~Switch(u) /\ b = a + 1
    BY <1>9, <1>14
  <2>3. OP!Take(o, SubSeq(x, Len(o.name) + 2, Len(x)), 1)
    BY <1>11, <1>12, <2>1, <2>2, Zenon DEF Switch
  <2>4. SubSeq(x, Len(o.name) + 2, Len(x)) = u.val
    <3>1. o.name \in Word
      BY <1>10, <1>11, TextIsWord
    <3>2. Parts(x, o.name, u.val)
      BY <1>10, <1>11, <1>14, <3>1, PartsAre
    <3>. QED
      BY <3>2, Zenon DEF Parts
  <2>5. 1 \in Nat
    OBVIOUS
  <2>6. Takes(r, ws, w, l, k, n, N, a, t, m, o, u.val, 1)
    BY <1>1, <1>3, <1>5, <1>9, <1>11, <2>2, <2>3, <2>4, <2>5, Zenon DEF Takes
  <2>. QED
    BY <2>6, TakesOn
<1>. QED
  BY <1>7, <1>13, <1>14 DEF LongWord

(* The program does not start before all has been read.                    *)
LEMMA NotYet ==
    ASSUME OP!OptionsAssumption,
           NEW r, NEW ws, NEW w, NEW l, NEW k, NEW n, NEW N, NEW a, NEW t, NEW m,
           AtPlace(r, ws, w, l, k, n, N, a, t, m), k < n
    PROVE  ~OP!Main
<1>1. PICK b, s, u, y : b = w[k + 1] /\ s = l[k + 1] /\ u = uses[k + 1] /\ y = ws[a + 1]
  OBVIOUS
<1>2. NextSays(ws, k, n, N, a, t, b, s, u)
  BY <1>1, NextIs
<1>3. /\ u \in Uses /\ Says(ws, u, a, t, b, s) /\ a \in Nat /\ N \in Nat
      /\ a + 1 <= N /\ Len(argv) = N - a /\ argv[1] = y /\ y \in Word /\ t \in Nat
  BY <1>1, <1>2, Zenon DEF NextSays
<1>4. y[1] = "-" /\ Len(y) \in Nat /\ Len(y) >= 2 /\ (Len(y) > 2 \/ y[2] # "-")
  <2>1. CASE AsLetter(ws, u, a, t, b, s)
    <3>1. PICK i \in Nat : /\ i = (IF t = 0 THEN 1 ELSE t) + 1 /\ i <= Len(y)
                         /\ y[1] = "-" /\ y[2] # "-"
      BY <1>1, <2>1, Zenon DEF AsLetter
    <3>2. Len(y) \in Nat
      BY <1>3, LenProperties DEF Word
    <3>. QED
      BY <1>3, <3>1, <3>2
  <2>2. CASE AsName(ws, u, a, t, b, s)
    <3>1. PICK x : LongWord(y, u, x)
      BY <1>1, <1>3, <2>2, LongIs
    <3>2. NameWord(y, x)
      BY <3>1, Zenon DEF LongWord
    <3>3. x \in Word /\ Len(x) \in Nat /\ Len(y) = 2 + Len(x) /\ y[1] = "-"
      BY <3>2, Zenon DEF NameWord
    <3>4. u.opt \in Opts /\ u.val \in OptWords /\ u.opt.name # <<>>
      <4>1. u.form \in {"long", "equals"}
        BY <2>2, Zenon DEF AsName
      <4>. QED
        BY <1>3, <4>1, UseHas DEF OP!NoName
    <3>5. u.opt.name \in Word /\ u.opt.name # <<>> /\ u.val \in Word
      BY <3>4, TextIsWord
    <3>6. Len(u.opt.name) # 0 /\ Len(u.opt.name) \in Nat
      BY <3>5, EmptySeq DEF Word
    <3>7. Len(x) # 0
      <4>1. CASE x = u.opt.name
        BY <3>6, <4>1
      <4>2. CASE WithValue(x, u.opt.name, u.val)
        <5>1. Parts(x, u.opt.name, u.val)
          BY <3>5, <4>2, PartsAre
        <5>2. Len(x) = Len(u.opt.name) + 1 + Len(u.val) /\ Len(u.val) \in Nat
          BY <5>1, Zenon DEF Parts
        <5>3. PICK p, q, d : p = Len(x) /\ q = Len(u.opt.name) /\ d = Len(u.val)
          OBVIOUS
        <5>4. p = q + 1 + d /\ q \in Nat /\ d \in Nat
          BY <3>6, <5>2, <5>3, Zenon
        <5>5. p # 0
          BY <5>4
        <5>. QED
          BY <5>3, <5>5
      <4>. QED
        BY <3>1, <4>1, <4>2 DEF LongWord
    <3>. QED
      BY <3>3, <3>7
  <2>. QED
    BY <1>3, <2>1, <2>2 DEF Says
<1>5. y # <<>> /\ argv # <<>>
  <2>1. Len(<<>>) = 0
    BY NothingIsSeq, Zenon
  <2>2. Len(y) # 0 /\ Len(argv) # 0
    BY <1>3, <1>4
  <2>. QED
    BY <2>1, <2>2
<1>6. OP!Option(argv[1])
  BY <1>3, <1>4, <1>5, Zenon DEF OP!Option
<1>7. argv[1] # <<"-">> /\ argv[1] # <<"-", "-">>
  <2>1. PICK d, e : d = <<"-">> /\ e = <<"-", "-">>
    OBVIOUS
  <2>2. Len(d) = 1 /\ Len(e) = 2 /\ e[2] = "-"
    BY <2>1
  <2>3. PICK q : q = Len(y)
    OBVIOUS
  <2>4. q \in Nat /\ q >= 2 /\ (q > 2 \/ y[2] # "-")
    BY <1>4, <2>3, Zenon
  <2>5. q # 1 /\ (q # 2 \/ y[2] # "-")
    BY <2>4
  <2>6. y # d /\ y # e
    BY <2>2, <2>3, <2>5, Zenon
  <2>. QED
    BY <1>3, <2>1, <2>6
<1>8. argv[1] \notin {<<"-">>, <<"-", "-">>}
  BY <1>7, Zenon
<1>. QED
  BY <1>5, <1>6, <1>8, Zenon DEF OP!Main

(* The operands are neither too few nor too many.                          *)
OperandsFit ==
    /\ Len(operands) >= MinOperands
    /\ MaxArguments >= MinOperands => Len(operands) <= MaxArguments

(* The inductive invariant of the options: while they are read, there are  *)
(* places in the words between the uses, and the reading is at one of      *)
(* them.                                                                   *)
OpInv ==
    /\ uses \in Seq(Uses) /\ operands \in Seq(OptWords)
    /\ status \in {"writing", "parsing", "usage", "help", "main"}
    /\ status = "writing" => Spelling(uses, argv) /\ at = 0 /\ vals = OP!Defaults
    /\ status = "parsing" => \E r, ws, w, l, k : HasRead(r, ws, w, l, k)
    /\ status \in {"main", "help"} => vals = AllSet(uses) /\ argv = operands
    /\ status = "main" => OperandsFit
    /\ status = "usage" => AllSet(uses) = None \/ ~OperandsFit

(* The fold over the uses is the last state of their run.                  *)
LEMMA AllSetIs ==
    ASSUME OP!OptionsAssumption, NEW us \in Seq(Uses), NEW r, Set(r, us)
    PROVE  AllSet(us) = r[Len(us)]
<1>1. PICK q : Set(q, us) /\ AllSet(us) = q[Len(us)]
  BY SetRuns
<1>2. q[Len(us)] = r[Len(us)]
  BY <1>1, SetOnce
<1>. QED
  BY <1>1, <1>2

(* After what ends the options come the operands.                          *)
LEMMA OperandsFollow ==
    ASSUME OP!OptionsAssumption, operands \in Seq(OptWords), Follows(argv)
    PROVE  (IF argv # <<>> /\ OP!Option(argv[1]) THEN Tail(argv) ELSE argv) = operands
<1>1. CASE argv = operands /\ (operands # <<>> => ~OP!Option(operands[1]))
  BY <1>1, Zenon
<1>2. ASSUME NEW stop \in Stop, argv = <<stop>> \o operands
      PROVE  argv # <<>> /\ OP!Option(argv[1]) /\ Tail(argv) = operands
  <2>1. PICK p : p = <<stop>>
    OBVIOUS
  <2>2. stop \in Word /\ operands \in Seq(Word)
    <3>1. <<"-">> \in Word
      BY DEF Word, Letter
    <3>2. stop \in Word
      BY <3>1, TextIsWord DEF Stop
    <3>3. OptWords \subseteq Word
      BY TextIsWord
    <3>. QED
      BY <3>2, <3>3, SeqWider
  <2>3. p \in Seq(Word) /\ Len(p) = 1 /\ p[1] = stop
    BY <2>1, <2>2
  <2>4. p \in Seq(Word)
    BY <2>3
  <2>5. PICK s : s = p \o operands
    OBVIOUS
  <2>6. /\ s \in Seq(Word) /\ Len(s) = Len(p) + Len(operands) /\ Len(operands) \in Nat
        /\ \A i \in 1..Len(p) : s[i] = p[i]
        /\ \A i \in 1..Len(operands) : s[Len(p) + i] = operands[i]
    BY <2>2, <2>4, <2>5, ConcatPlaces
  <2>7. s[1] = stop
    <3>1. 1 \in 1..Len(p)
      BY <2>3
    <3>. QED
      BY <2>3, <2>6, <3>1
  <2>8. s # <<>>
    <3>1. Len(s) # 0
      BY <2>3, <2>6
    <3>2. Len(<<>>) = 0
      BY NothingIsSeq, Zenon
    <3>. QED
      BY <3>1, <3>2
  <2>9. stop # <<>> /\ stop[1] = "-"
    BY DEF Stop, Dashes
  <2>10. Tail(s) = operands
    <3>1. PICK q : q = Tail(s)
      OBVIOUS
    <3>2. /\ q \in Seq(Word) /\ Len(q) = Len(s) - 1 /\ \A i \in 1..Len(q) : q[i] = s[i + 1]
      <4>1. s \in Seq(Word) /\ s # <<>>
        BY <2>6, <2>8
      <4>. QED
        BY <3>1, <4>1, HeadTailProperties
    <3>3. Len(q) = Len(operands)
      BY <2>3, <2>6, <3>2
    <3>4. ASSUME NEW i \in 1..Len(q) PROVE q[i] = operands[i]
      <4>1. i \in 1..Len(operands) /\ Len(p) + i = i + 1
        BY <2>3, <3>3
      <4>. QED
        BY <2>6, <3>2, <4>1
    <3>5. q = operands
      BY <2>2, <3>2, <3>3, <3>4, SeqEqual
    <3>. QED
      BY <3>1, <3>5
  <2>11. argv = s
    BY <1>2, <2>1, <2>5
  <2>. QED
    BY <2>7, <2>8, <2>9, <2>10, <2>11, Zenon DEF OP!Option
<1>. QED
  <2>1. CASE \E stop \in Stop : argv = <<stop>> \o operands
    BY <1>2, <2>1, Zenon
  <2>. QED
    BY <1>1, <2>1, Zenon DEF Follows

(* Nothing has been written at first.                                      *)
LEMMA OptionsStart ==
    ASSUME OP!OptionsAssumption, OP!Init
    PROVE  OpInv
<1>1. /\ uses = <<>> /\ operands = <<>> /\ argv = <<>> /\ at = 0
      /\ vals = OP!Defaults /\ status = "writing"
  BY Zenon DEF OP!Init
<1>2. uses \in Seq(Uses) /\ operands \in Seq(OptWords)
  <2>1. <<>> \in Seq(Uses) /\ <<>> \in Seq(OptWords)
    BY EmptySeq
  <2>. QED
    BY <1>1, <2>1, Zenon
<1>3. Spelling(uses, argv)
  BY <1>1, NothingSaid, Zenon
<1>4. status # "parsing" /\ status # "main" /\ status # "help" /\ status # "usage"
  BY <1>1
<1>. QED
  BY <1>1, <1>2, <1>3, <1>4 DEF OpInv

(* When the program starts its variables and operands are as meant.        *)
LEMMA MainMeans ==
    ASSUME OP!OptionsAssumption, uses \in Seq(Uses), operands \in Seq(OptWords),
           \E r, ws, w, l, k : HasRead(r, ws, w, l, k), OP!Main
    PROVE  /\ uses' = uses /\ operands' = operands /\ vals' = AllSet(uses) /\ argv' = operands
           /\ \/ status' = "help"
              \/ status' = "usage" /\ ~OperandsFit
              \/ status' = "main" /\ OperandsFit
<1>1. PICK r, ws, w, l, k : HasRead(r, ws, w, l, k)
  OBVIOUS
<1>2. PICK n, N, a, t, m : AtPlace(r, ws, w, l, k, n, N, a, t, m)
  BY <1>1, PlaceIs
<1>3. /\ n = Len(uses) /\ n \in Nat /\ k \in 0..n /\ Set(r, uses)
  BY <1>2, Zenon DEF AtPlace
<1>4. k = n
  <2>1. ~(k < n)
    BY <1>2, NotYet
  <2>. QED
    BY <1>3, <2>1
<1>5. vals = r[n] /\ Follows(argv)
  BY <1>2, <1>4, NoMore
<1>6. vals = AllSet(uses)
  BY <1>3, <1>5, AllSetIs
<1>7. PICK rest : rest = (IF argv # <<>> /\ OP!Option(argv[1]) THEN Tail(argv) ELSE argv)
  OBVIOUS
<1>8. rest = operands
  BY <1>5, <1>7, OperandsFollow
<1>9. /\ argv' = rest
      /\ status' = IF \E o \in Opts : o.type = "help" /\ vals[o.var] # 0 THEN "help"
                   ELSE IF Len(rest) < MinOperands THEN "usage"
                   ELSE IF MaxArguments >= MinOperands /\ Len(rest) > MaxArguments THEN "usage"
                   ELSE "main"
      /\ uses' = uses /\ operands' = operands /\ vals' = vals
  BY <1>7, Zenon DEF OP!Main
<1>10. PICK c : c = Len(operands)
  OBVIOUS
<1>11. c \in Nat /\ MinOperands \in Nat /\ MaxArguments \in Nat
  <2>1. Len(operands) \in Nat
    BY LenProperties
  <2>. QED
    BY <1>10, <2>1 DEF OP!OptionsAssumption
<1>12. OperandsFit <=> c >= MinOperands /\ (MaxArguments >= MinOperands => c <= MaxArguments)
  BY <1>10 DEF OperandsFit
<1>13. \/ status' = "help"
       \/ status' = "usage" /\ (c < MinOperands \/ (MaxArguments >= MinOperands /\ c > MaxArguments))
       \/ /\ status' = "main" /\ ~(c < MinOperands)
          /\ ~(MaxArguments >= MinOperands /\ c > MaxArguments)
  BY <1>8, <1>9, <1>10, Zenon
<1>14. \/ status' = "help"
       \/ status' = "usage" /\ ~OperandsFit
       \/ status' = "main" /\ OperandsFit
  <2>1. (c < MinOperands \/ (MaxArguments >= MinOperands /\ c > MaxArguments)) => ~OperandsFit
    BY <1>11, <1>12
  <2>2. ~(c < MinOperands) /\ ~(MaxArguments >= MinOperands /\ c > MaxArguments) => OperandsFit
    BY <1>11, <1>12
  <2>. QED
    BY <1>13, <2>1, <2>2
<1>. QED
  BY <1>6, <1>8, <1>9, <1>14

(* Every step keeps the invariant.                                         *)
LEMMA OptionsStep ==
    ASSUME OP!OptionsAssumption, OpInv, [OP!Next]_OP!vars
    PROVE  OpInv'
<1>1. uses \in Seq(Uses) /\ operands \in Seq(OptWords)
  BY Zenon DEF OpInv
<1>2. CASE OP!WriteUse
  <2>1. status = "writing" /\ Spelling(uses, argv) /\ at = 0 /\ vals = OP!Defaults
    BY <1>2, Zenon DEF OpInv, OP!WriteUse
  <2>2. Spelling(uses', argv')
    BY <1>2, <2>1, WriteUseKeeps
  <2>3. operands' = operands /\ at' = 0 /\ vals' = OP!Defaults /\ status' = "writing"
    BY <1>2, <2>1, Zenon DEF OP!WriteUse
  <2>4. uses' \in Seq(Uses)
    BY <2>2, Zenon DEF Spelling
  <2>. QED
    BY <1>1, <2>2, <2>3, <2>4 DEF OpInv
<1>3. CASE OP!WriteOperands
  <2>1. status = "writing" /\ Spelling(uses, argv) /\ at = 0 /\ vals = OP!Defaults
    BY <1>3, Zenon DEF OpInv, OP!WriteOperands
  <2>2. operands' \in Seq(OptWords) /\ (\E r, ws, w, l, k : HasRead(r, ws, w, l, k))'
    BY <1>3, <2>1, ReadingStarts
  <2>3. uses' = uses /\ status' = "parsing"
    BY <1>3, Zenon DEF OP!WriteOperands
  <2>. QED
    BY <1>1, <2>2, <2>3 DEF OpInv
<1>4. CASE OP!ParseShort \/ OP!ParseLong
  <2>1. status = "parsing" /\ uses' = uses /\ operands' = operands
    BY <1>4, Zenon DEF OP!ParseShort, OP!ParseLong, OP!Parsing
  <2>2. PICK r, ws, w, l, k : HasRead(r, ws, w, l, k)
    BY <2>1, Zenon DEF OpInv
  <2>3. PICK n, N, a, t, m : AtPlace(r, ws, w, l, k, n, N, a, t, m)
    BY <1>1, <2>2, PlaceIs
  <2>4. k \in 0..n /\ n \in Nat /\ n = Len(uses) /\ Set(r, uses)
    BY <2>3, Zenon DEF AtPlace
  <2>5. k # n
    BY <1>1, <1>4, <2>3, NoMore
  <2>6. k < n
    BY <2>4, <2>5
  <2>7. GoesOn(r, ws, w, l, k)
    BY <1>4, <2>3, <2>6, ParseShortOn, ParseLongOn
  <2>8. CASE status' = status /\ HasRead(r, ws, w, l, k + 1)'
    <3>1. status' = "parsing" /\ (\E r1, ws1, w1, l1, k1 : HasRead(r1, ws1, w1, l1, k1))'
      BY <2>1, <2>8
    <3>. QED
      BY <1>1, <2>1, <3>1 DEF OpInv
  <2>9. CASE status' = "usage" /\ r[Len(uses)] = None
    <3>1. AllSet(uses) = None
      BY <1>1, <2>4, <2>9, AllSetIs
    <3>2. AllSet(uses') = None
      BY <2>1, <3>1
    <3>. QED
      BY <1>1, <2>1, <2>9, <3>2 DEF OpInv
  <2>. QED
    BY <2>7, <2>8, <2>9 DEF GoesOn
<1>5. CASE OP!Main
  <2>1. \E r, ws, w, l, k : HasRead(r, ws, w, l, k)
    BY <1>5, Zenon DEF OpInv, OP!Main
  <2>2. /\ uses' = uses /\ operands' = operands /\ vals' = AllSet(uses) /\ argv' = operands
        /\ \/ status' = "help"
           \/ status' = "usage" /\ ~OperandsFit
           \/ status' = "main" /\ OperandsFit
    BY <1>1, <1>5, <2>1, MainMeans
  <2>3. OperandsFit' <=> OperandsFit
    BY <2>2, Zenon DEF OperandsFit
  <2>4. AllSet(uses') = AllSet(uses)
    BY <2>2
  <2>. QED
    BY <1>1, <2>2, <2>3, <2>4 DEF OpInv
<1>6. CASE UNCHANGED OP!vars
  <2>1. /\ uses' = uses /\ operands' = operands /\ argv' = argv /\ at' = at /\ vals' = vals
        /\ status' = status
    BY <1>6 DEF OP!vars
  <2>2. (\E r, ws, w, l, k : HasRead(r, ws, w, l, k))
        => (\E r, ws, w, l, k : HasRead(r, ws, w, l, k))'
    BY <2>1 DEF HasRead, Follows
  <2>3. OperandsFit' <=> OperandsFit
    BY <2>1, Zenon DEF OperandsFit
  <2>. QED
    BY <2>1, <2>2, <2>3 DEF OpInv
<1>. QED
  BY <1>2, <1>3, <1>4, <1>5, <1>6, Zenon DEF OP!Next

(* The invariant implies the property.                                     *)
LEMMA OptionsMean ==
    ASSUME OpInv
    PROVE  OP!OptionsAsMeant
<1>1. /\ status \in {"main", "help"} => vals = AllSet(uses) /\ argv = operands
      /\ status = "main" => OperandsFit
      /\ status = "usage" => AllSet(uses) = None \/ ~OperandsFit
  BY Zenon DEF OpInv
<1>. QED
  BY <1>1, Zenon DEF OP!OptionsAsMeant, AllSet, OperandsFit

(* In whatever form a user writes the options, apart, joined or with an    *)
(* equals sign, a program starts with the variables and the operands that  *)
(* were meant, or shows its usage for a reason, for any options with       *)
(* letters and names of their own, values and operands of any length, and  *)
(* any number of them (parse_short, parse_long, parse_args, main,          *)
(* cli_option::set).                                                       *)
THEOREM OptionsAreAsMeant ==
    ASSUME OP!OptionsAssumption
    PROVE  OP!Spec => []OP!OptionsAsMeant
<1>1. OP!Init => OpInv
  BY OptionsStart
<1>2. OpInv /\ [OP!Next]_OP!vars => OpInv'
  BY OptionsStep
<1>3. OpInv => OP!OptionsAsMeant
  BY OptionsMean
<1>. QED
  BY <1>1, <1>2, <1>3, PTL DEF OP!Spec

=============================================================================
