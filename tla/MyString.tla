------------------------------ MODULE MyString ------------------------------
(***************************************************************************)
(* The strings of the library (lib/mystring).  A string refers to a        *)
(* representation with a count of its references.  Only an expression      *)
(* a + b + ... shares representations with strings: it holds those of its  *)
(* operands until the whole of it has been evaluated, while other operands *)
(* of it may still change the strings they came from.                      *)
(***************************************************************************)
EXTENDS Naturals, FiniteSets, SequencesExt

CONSTANTS
    Strings,  \* the variables of the program
    Bytes, Spaces, Upper, LowerOf, \* characters, those of two kinds, and tolower()
    Step, SlackDiv, SlackMax, \* sizestep, slackdiv and slackmax
    Reps,     \* representations on the heap
    Nil,      \* nil, the representation of every empty string
    None,
    MaxText, MaxOperands \* bounds: all text there is, and the operands of an expression

MyStringAssumption ==
    /\ Step \in Nat \ {0} /\ SlackDiv \in Nat \ {0} /\ SlackMax \in Nat /\ MaxOperands \in Nat
    /\ Nil \notin Reps /\ None \notin Reps \cup {Nil} /\ IsFiniteSet(Reps) /\ IsFiniteSet(Strings)
    /\ Cardinality(Reps) > Cardinality(Strings) + MaxOperands

VARIABLES
    of,    \* the representation of each string
    heap,  \* [buf, size, refs] of each representation
    join,  \* the operands of the expression under way, [rep, chars] each
    value, \* history: what each string has been given
    expr   \* history: what the operands were when they were evaluated

vars == <<of, heap, join, value, expr>>

Freed == [buf |-> <<>>, size |-> 0, refs |-> 0]

Init ==
    /\ of = [x \in Strings |-> Nil]
    /\ heap = [r \in Reps \cup {Nil} |->
                 IF r = Nil THEN [buf |-> <<>>, size |-> 1, refs |-> Cardinality(Strings) + 1]
                 ELSE Freed]
    /\ join = <<>> /\ value = [x \in Strings |-> <<>>] /\ expr = <<>>

SizeFor(length) ==
    LET slack == IF length \div SlackDiv > SlackMax THEN SlackMax ELSE length \div SlackDiv
        size == length + 1 + Step - 1 + slack
    IN size - (size % Step)

Attach(h, r) == [h EXCEPT ![r].refs = @ + 1]
Detach(h, r) ==
    IF h[r].refs = 1 THEN [h EXCEPT ![r] = Freed] ELSE [h EXCEPT ![r].refs = @ - 1]

(* A representation for s, the one it gets on the heap or nil, with a      *)
(* reference to it.                                                        *)
Dup(h, s) ==
    LET r == IF s = <<>> THEN Nil ELSE CHOOSE x \in Reps : h[x] = Freed
    IN [rep |-> r,
        heap |-> Attach(IF r = Nil THEN h
                        ELSE [h EXCEPT ![r] = [buf |-> s, size |-> SizeFor(Len(s)), refs |-> 0]],
                        r)]

(* The string x refers to s from now on: the new representation is there   *)
(* before the old one goes, of which s may be a part.                      *)
Assign(h, x, s) ==
    LET d == Dup(h, s) IN
    /\ of' = [of EXCEPT ![x] = d.rep]
    /\ heap' = Detach(d.heap, of[x])

Text(x) == heap[of[x]].buf

AssignString(x, y) ==
    /\ IF of[x] = of[y] THEN UNCHANGED <<of, heap>> ELSE Assign(heap, x, Text(y))
    /\ value' = [value EXCEPT ![x] = value[y]]
    /\ UNCHANGED <<join, expr>>

(* A slip: also appended to while an expression has it. *)
RepAppendShared(x, s) ==
    LET r == heap[of[x]] IN
    IF Len(r.buf) + Len(s) >= r.size THEN Assign(heap, x, r.buf \o s)
    ELSE heap' = [heap EXCEPT ![of[x]].buf = @ \o s] /\ UNCHANGED of

(* Somebody else's representation, or one that is too small, is copied.    *)
RepAppend(x, s) ==
    LET r == heap[of[x]] IN
    IF r.refs > 1 \/ Len(r.buf) + Len(s) >= r.size THEN Assign(heap, x, r.buf \o s)
    ELSE heap' = [heap EXCEPT ![of[x]].buf = @ \o s] /\ UNCHANGED of

Appended(x, s) ==
    CASE s = <<>> -> UNCHANGED <<of, heap>>
      [] s # <<>> /\ Text(x) = <<>> -> Assign(heap, x, s)
      [] s # <<>> /\ Text(x) # <<>> -> RepAppend(x, s)

AppendString(x, y) ==
    /\ Appended(x, Text(y))
    /\ value' = [value EXCEPT ![x] = value[x] \o value[y]]
    /\ UNCHANGED <<join, expr>>

AppendChar(x) ==
    /\ \E c \in Bytes :
         /\ Appended(x, <<c>>)
         /\ value' = [value EXCEPT ![x] = Append(@, c)]
    /\ UNCHANGED <<join, expr>>

(* The end of a string's scope, and its constructor. *)
Renew(x) ==
    /\ heap' = Attach(Detach(heap, of[x]), Nil)
    /\ of' = [of EXCEPT ![x] = Nil]
    /\ value' = [value EXCEPT ![x] = <<>>]
    /\ UNCHANGED <<join, expr>>

-----------------------------------------------------------------------------
(* What a string makes of another. *)
Lower(s) == [i \in DOMAIN s |-> IF s[i] \in Upper THEN LowerOf[s[i]] ELSE s[i]]

Rstrip(s) ==
    LET keep == {n \in 0..Len(s) : n > 0 => s[n] \notin Spaces}
    IN SubSeq(s, 1, CHOOSE n \in keep : \A m \in keep : m <= n)

Lstrip(s) == Reverse(Rstrip(Reverse(s)))
Strip(s) == Rstrip(Lstrip(s))

Left(s, offset) == IF offset > Len(s) THEN s ELSE SubSeq(s, 1, offset)
Right(s, offset) ==
    IF offset >= Len(s) THEN <<>> ELSE IF offset = 0 THEN s ELSE SubSeq(s, offset + 1, Len(s))
Sub(s, offset, len) ==
    IF len = 0 THEN <<>>
    ELSE IF offset = 0 /\ len >= Len(s) THEN s
    ELSE SubSeq(s, offset + 1, IF len + offset >= Len(s) THEN Len(s) ELSE offset + len)

Results(s) ==
    {Lower(s), Lstrip(s), Rstrip(s), Strip(s)}
    \cup UNION {{Left(s, offset), Right(s, offset)} \cup {Sub(s, offset, len) : len \in 0..Len(s)} :
                  offset \in 0..Len(s)}

(* The result is a string of its own, which ends after it has been copied. *)
Derive(x, y) ==
    /\ \E s \in Results(Text(y)) :
         Assign(heap, x, s) /\ value' = [value EXCEPT ![x] = s]
    /\ UNCHANGED <<join, expr>>

-----------------------------------------------------------------------------
(* An operand of a + b + ...: a string, or characters of no string. *)
Operand(y) ==
    /\ Len(join) < MaxOperands
    /\ join' = Append(join, [rep |-> of[y], chars |-> <<>>])
    /\ heap' = Attach(heap, of[y])
    /\ expr' = expr \o value[y]
    /\ UNCHANGED <<of, value>>

OperandChars ==
    /\ Len(join) < MaxOperands
    /\ \E c \in Bytes :
         /\ join' = Append(join, [rep |-> None, chars |-> <<c>>])
         /\ expr' = Append(expr, c)
    /\ UNCHANGED <<of, heap, value>>

Traverse ==
    FlattenSeq([i \in DOMAIN join |-> IF join[i].rep = None THEN join[i].chars
                                      ELSE heap[join[i].rep].buf])

(* The temporaries of the expression go after the assignment. *)
AssignJoin(x) ==
    /\ join # <<>>
    /\ LET d == Dup(heap, Traverse)
       IN /\ of' = [of EXCEPT ![x] = d.rep]
          /\ heap' = FoldLeft(LAMBDA h, j : IF j.rep = None THEN h ELSE Detach(h, j.rep),
                              Detach(d.heap, of[x]), join)
    /\ value' = [value EXCEPT ![x] = expr]
    /\ join' = <<>> /\ expr' = <<>>

Fits == MapThenFoldSet(+, Len(expr), LAMBDA x : Len(value[x]), LAMBDA S : CHOOSE x \in S : TRUE,
                       Strings) <= MaxText

Next ==
    /\ \/ \E x, y \in Strings : AssignString(x, y) \/ AppendString(x, y) \/ Derive(x, y)
       \/ \E x \in Strings : AppendChar(x) \/ Renew(x) \/ Operand(x) \/ AssignJoin(x)
       \/ OperandChars
    /\ Fits'

Spec == Init /\ [][Next]_vars

-----------------------------------------------------------------------------
(* A string is what it was given, whatever becomes of the others, and an   *)
(* expression is what its operands were when they were evaluated, though   *)
(* their strings have changed since (mystringrep::append).  A              *)
(* representation is freed with its last reference and never before, and   *)
(* no text outgrows its buffer (attach, detach, alloc).                    *)
StringsAreValues ==
    /\ \A x \in Strings : Text(x) = value[x]
    /\ Traverse = expr
    /\ \A r \in Reps \cup {Nil} :
         /\ heap[r].refs = Cardinality({x \in Strings : of[x] = r})
                           + Cardinality({i \in DOMAIN join : join[i].rep = r})
                           + (IF r = Nil THEN 1 ELSE 0)
         /\ heap[r].refs > 0 => Len(heap[r].buf) < heap[r].size

=============================================================================
