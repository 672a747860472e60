----------------------------- MODULE DataProofs -----------------------------
(***************************************************************************)
(* What the library and the protocol make of data, proved for data of any  *)
(* size: a request is carried out as it was meant, a hash table is a map,  *)
(* a password is matched by itself alone, and the digest of a message does *)
(* not depend on how it is cut into pieces.                                *)
(*                                                                         *)
(* Each theorem is about a component alone, with the assumption on its     *)
(* constants that the component names.  Induction over data is induction   *)
(* on numbers, which is the least counterexample of a set of numbers, and  *)
(* a fold is the last state of a run of as many steps as there are data.   *)
(***************************************************************************)
EXTENDS Naturals, FiniteSets, SequencesExt, SequenceTheorems, WellFoundedInduction,
        FiniteSetTheorems, TLAPS

CONSTANTS
    None,
    Base, MaxArgs, Commands, Asks, Systems, \* Request
    Keys, Values, Hashes, Primes,           \* HashTable
    Passwords, Salts, SaltMax, DigestLen, Rounds, CryptMax, \* Crypt
    Block, WordSize, Stream, MaxLen, Longest \* Digest

VARIABLES
    sys, asked, by, msg, cmd, user, stage,    \* Request
    hash, table, index, count, meant, gapped, \* HashTable
    form, pass, stored, tried, matches,       \* Crypt
    ctx, given, mode, digest                  \* Digest

RQ == INSTANCE Request
HT == INSTANCE HashTable
CR == INSTANCE Crypt WITH Words <- Passwords
DG == INSTANCE Digest WITH Word <- WordSize

-----------------------------------------------------------------------------
(* Induction, folds and sequences *)

(* Any set of numbers has a least one, if it has one at all.               *)
LEMMA LeastOf ==
    ASSUME NEW T, T \subseteq Nat, T # {}
    PROVE  \E i \in T : \A j \in T : i <= j
<1>1. IsWellFoundedOn(OpToRel(<, Nat), Nat)
  BY NatLessThanWellFounded
<1>2. PICK i \in T : \A j \in T : <<j, i>> \notin OpToRel(<, Nat)
  BY <1>1, WFMin
<1>3. ASSUME NEW j \in T PROVE i <= j
  <2>1. i \in Nat /\ j \in Nat
    OBVIOUS
  <2>2. ~(j < i)
    BY <1>2, <2>1 DEF OpToRel
  <2>. QED
    BY <2>1, <2>2
<1>. QED
  BY <1>3

(* Induction, for a set.                                                   *)
LEMMA Induction ==
    ASSUME NEW T, 0 \in T, \A n \in Nat : n \in T => n + 1 \in T
    PROVE  Nat \subseteq T
<1>1. SUFFICES ASSUME Nat \ T # {} PROVE FALSE
  OBVIOUS
<1>2. PICK n \in Nat \ T : \A m \in Nat \ T : n <= m
  BY <1>1, LeastOf
<1>3. n # 0 /\ n - 1 \in Nat /\ n - 1 < n
  OBVIOUS
<1>4. n - 1 \in T
  BY <1>2, <1>3
<1>5. (n - 1) + 1 = n
  BY <1>2
<1>. QED
  BY <1>3, <1>4, <1>5

(* Induction up to a number.                                               *)
LEMMA InductionTo ==
    ASSUME NEW k \in Nat, NEW T, 0 \in T, \A n \in 0..k - 1 : n \in T => n + 1 \in T
    PROVE  0..k \subseteq T
<1> DEFINE S == T \cup {n \in Nat : n > k}
<1>1. 0 \in S
  OBVIOUS
<1>2. ASSUME NEW n \in Nat, n \in S PROVE n + 1 \in S
  BY <1>2
<1>3. Nat \subseteq S
  <2> HIDE DEF S
  <2>. QED
    BY <1>1, <1>2, Induction
<1>. QED
  BY <1>3

(* What n steps make of a: G[i] is what step i makes of what it finds.     *)
IsRun(r, n, a, G) == r[0] = a /\ \A i \in 1..n : r[i] = G[i][r[i - 1]]

(* There is such a run.                                                    *)
LEMMA Running ==
    ASSUME NEW n \in Nat, NEW A, NEW a \in A, NEW G \in [1..n -> [A -> A]]
    PROVE  \E r \in [0..n -> A] : IsRun(r, n, a, G)
<1> DEFINE P(k, r) == r \in [0..k -> A] /\ r[0] = a /\ \A i \in 1..k : r[i] = G[i][r[i - 1]]
           T == {k \in 0..n : \E r : P(k, r)}
<1>1. 0 \in T
  <2> DEFINE q == [i \in 0..0 |-> a]
  <2>1. q \in [0..0 -> A] /\ q[0] = a /\ \A i \in 1..0 : q[i] = G[i][q[i - 1]]
    OBVIOUS
  <2> HIDE DEF q
  <2>2. P(0, q)
    BY <2>1
  <2> HIDE DEF P
  <2>. QED
    BY <2>2
<1>2. ASSUME NEW k \in 0..n - 1, k \in T PROVE k + 1 \in T
  <2>1. PICK r : P(k, r)
    BY <1>2
  <2>2. k \in Nat /\ k + 1 \in 1..n /\ k + 1 \in 0..n
    OBVIOUS
  <2> DEFINE l == k + 1
             w == G[l][r[k]]
             q == [i \in 0..l |-> IF i = l THEN w ELSE r[i]]
  <2>3. w \in A
    BY <2>1, <2>2
  <2>4. q \in [0..l -> A] /\ q[0] = a
    <3> HIDE DEF w
    <3>1. r \in [0..k -> A] /\ r[0] = a
      BY <2>1
    <3>. QED
      BY <2>2, <2>3, <3>1
  <2>5. ASSUME NEW i \in 1..l PROVE q[i] = G[i][q[i - 1]]
    <3>1. CASE i = l
      <4>1. q[i] = w /\ q[i - 1] = r[k]
        <5> HIDE DEF w
        <5>. QED
          BY <2>2, <3>1
      <4>. QED
        BY <3>1, <4>1
    <3>2. CASE i # l
      <4>1. i \in 1..k /\ i - 1 \in 0..l /\ i - 1 # l /\ i \in 0..l
        BY <2>2, <3>2
      <4>2. q[i] = r[i] /\ q[i - 1] = r[i - 1]
        <5> HIDE DEF w, l
        <5>. QED
          BY <3>2, <4>1
      <4>. QED
        BY <2>1, <4>1, <4>2
    <3>. QED
      BY <3>1, <3>2
  <2> HIDE DEF q
  <2>6. P(l, q)
    BY <2>4, <2>5
  <2> HIDE DEF P
  <2>. QED
    BY <2>2, <2>6
<1>3. n \in T
  <2> HIDE DEF T
  <2>1. 0..n \subseteq T
    BY <1>1, <1>2, InductionTo
  <2>. QED
    BY <2>1
<1>. QED
  BY <1>3 DEF IsRun

(* A number of T that no other exceeds is what Max chooses.                *)
LEMMA MaxIs ==
    ASSUME NEW T, T \subseteq Nat, NEW m \in T, \A x \in T : x <= m
    PROVE  Max(T) = m
<1> DEFINE P(x) == x \in T /\ \A y \in T : x >= y
<1>1. P(m)
  OBVIOUS
<1>2. \A x : P(x) => x = m
  OBVIOUS
<1>3. Max(T) = CHOOSE x : P(x)
  BY DEF Max
<1> HIDE DEF P
<1>. QED
  BY <1>1, <1>2, <1>3

(* A set of numbers up to n has a greatest one.                            *)
LEMMA GreatestOf ==
    ASSUME NEW n \in Nat, NEW T \in SUBSET (1..n), T # {}
    PROVE  \E m \in T : \A x \in T : x <= m
<1> DEFINE R == {n - x : x \in T}
<1>1. \A x \in T : x \in Nat /\ n - x \in Nat
  OBVIOUS
<1>2. R \subseteq Nat /\ R # {}
  BY <1>1
<1>3. PICK i \in R : \A j \in R : i <= j
  <2> HIDE DEF R
  <2>. QED
    BY <1>2, LeastOf
<1>4. PICK m \in T : i = n - m
  OBVIOUS
<1>5. ASSUME NEW x \in T PROVE x <= m
  <2>1. n - x \in R
    OBVIOUS
  <2>2. n - m <= n - x
    BY <1>3, <1>4, <2>1
  <2>. QED
    BY <1>1, <1>4, <2>2
<1>. QED
  BY <1>4, <1>5

(* The function that a fold is made of: the fold of any set of the steps.  *)
IsFold(h, n, a, G) ==
    h = [s \in SUBSET (1..n) |-> IF s = {} THEN a ELSE G[Max(s)][h[s \ {Max(s)}]]]

(* What such a function does, set by set.                                  *)
FoldsUp(h, n, A, a, G) ==
    /\ h[{}] = a
    /\ \A s \in SUBSET (1..n) :
         s # {} /\ h[s \ {Max(s)}] \in A => h[s] = G[Max(s)][h[s \ {Max(s)}]]

(* The greatest of a set of steps, and the steps before it.                *)
LEMMA MaxIn ==
    ASSUME NEW n \in Nat, NEW s \in SUBSET (1..n), s # {}
    PROVE  Max(s) \in s /\ Max(s) \in 1..n /\ s \ {Max(s)} \in SUBSET (1..n)
<1>1. PICK m \in s : \A x \in s : x <= m
  BY GreatestOf
<1>2. s \subseteq Nat
  OBVIOUS
<1>3. Max(s) = m
  BY <1>1, <1>2, MaxIs
<1>. QED
  BY <1>3

(* There is such a function: the recursion on sets that MapThenFoldSet is  *)
(* written with is one on their greatest members.                          *)
LEMMA FoldExists ==
    ASSUME NEW n \in Nat, NEW A, NEW a \in A, NEW G \in [1..n -> [A -> A]]
    PROVE  \E h \in [SUBSET (1..n) -> A] : IsFold(h, n, a, G)
<1> DEFINE P(k, h) == /\ h \in [SUBSET (1..k) -> A]
                      /\ h[{}] = a
                      /\ \A s \in SUBSET (1..k) : s # {} => h[s] = G[Max(s)][h[s \ {Max(s)}]]
           T == {k \in 0..n : \E h : P(k, h)}
<1>1. 0 \in T
  <2> DEFINE q == [s \in SUBSET (1..0) |-> a]
  <2>1. 1..0 = {}
    OBVIOUS
  <2>2. \A s \in SUBSET (1..0) : s = {}
    BY <2>1
  <2>3. q \in [SUBSET (1..0) -> A] /\ q[{}] = a
    OBVIOUS
  <2> HIDE DEF q
  <2>4. P(0, q)
    BY <2>2, <2>3
  <2> HIDE DEF P
  <2>. QED
    BY <2>4
<1>2. ASSUME NEW k \in 0..n - 1, k \in T PROVE k + 1 \in T
  <2>1. PICK h : P(k, h)
    BY <1>2
  <2> DEFINE l == k + 1
             q == [s \in SUBSET (1..l) |-> IF l \in s THEN G[l][h[s \ {l}]] ELSE h[s]]
  <2>2. k \in Nat /\ l \in 1..n /\ l \in 0..n /\ l \in Nat
    OBVIOUS
  <2>3. \A s \in SUBSET (1..l) : s \ {l} \in SUBSET (1..k) /\ (l \notin s => s \in SUBSET (1..k))
    BY <2>2
  <2>4. ASSUME NEW s \in SUBSET (1..l), l \in s PROVE Max(s) = l
    <3>1. s \subseteq Nat /\ l \in s /\ \A x \in s : x <= l
      BY <2>2, <2>4
    <3> HIDE DEF l
    <3>. QED
      BY <3>1, MaxIs
  <2> HIDE DEF l
  <2>5. q \in [SUBSET (1..l) -> A]
    <3>1. ASSUME NEW s \in SUBSET (1..l)
          PROVE  (IF l \in s THEN G[l][h[s \ {l}]] ELSE h[s]) \in A
      <4>1. h[s \ {l}] \in A /\ (l \notin s => h[s] \in A)
        BY <2>1, <2>3
      <4>2. G[l] \in [A -> A]
        BY <2>2
      <4>. QED
        BY <4>1, <4>2
    <3>. QED
      BY <3>1
  <2>6. \A s \in SUBSET (1..l) : q[s] = IF l \in s THEN G[l][h[s \ {l}]] ELSE h[s]
    OBVIOUS
  <2> HIDE DEF q
  <2>7. q[{}] = a
    BY <2>1, <2>6
  <2>8. ASSUME NEW s \in SUBSET (1..l), s # {} PROVE q[s] = G[Max(s)][q[s \ {Max(s)}]]
    <3>1. CASE l \in s
      <4>1. Max(s) = l /\ s \ {l} \in SUBSET (1..l) /\ l \notin s \ {l}
        BY <2>4, <3>1
      <4>2. q[s \ {l}] = h[s \ {l}] /\ q[s] = G[l][h[s \ {l}]]
        BY <2>6, <3>1, <4>1
      <4>. QED
        BY <4>1, <4>2
    <3>2. CASE l \notin s
      <4>1. s \in SUBSET (1..k)
        BY <2>3, <3>2
      <4>2. q[s] = h[s] /\ h[s] = G[Max(s)][h[s \ {Max(s)}]]
        BY <2>1, <2>6, <2>8, <3>2, <4>1
      <4>3. s \ {Max(s)} \in SUBSET (1..l) /\ l \notin s \ {Max(s)}
        BY <3>2
      <4>4. q[s \ {Max(s)}] = h[s \ {Max(s)}]
        BY <2>6, <4>3
      <4>. QED
        BY <4>2, <4>4
    <3>. QED
      BY <3>1, <3>2
  <2>9. P(l, q)
    BY <2>5, <2>7, <2>8
  <2> HIDE DEF P
  <2>. QED
    BY <2>2, <2>9 DEF l
<1>3. n \in T
  <2> HIDE DEF T
  <2>1. 0..n \subseteq T
    BY <1>1, <1>2, InductionTo
  <2>. QED
    BY <2>1
<1>4. PICK h : P(n, h)
  BY <1>3
<1> DEFINE E == [s \in SUBSET (1..n) |-> IF s = {} THEN a ELSE G[Max(s)][h[s \ {Max(s)}]]]
<1>5. \A s \in SUBSET (1..n) : h[s] = E[s]
  BY <1>4
<1>6. h = E
  BY <1>4, <1>5
<1>. QED
  BY <1>4, <1>6 DEF IsFold

(* A fold over 1..n is the last state of a run of n steps.                 *)
LEMMA FoldRuns ==
    ASSUME NEW n \in Nat, NEW A, NEW a \in A, NEW G \in [1..n -> [A -> A]],
           NEW r \in [0..n -> A], IsRun(r, n, a, G),
           NEW h, FoldsUp(h, n, A, a, G)
    PROVE  h[1..n] = r[n]
<1> DEFINE T == {k \in 0..n : h[1..k] = r[k]}
<1>1. r[0] = a /\ \A i \in 1..n : r[i] = G[i][r[i - 1]]
  BY DEF IsRun
<1>2. /\ h[{}] = a
      /\ \A s \in SUBSET (1..n) :
           s # {} /\ h[s \ {Max(s)}] \in A => h[s] = G[Max(s)][h[s \ {Max(s)}]]
  BY DEF FoldsUp
<1>3. 0 \in T
  <2>1. 1..0 = {}
    OBVIOUS
  <2>. QED
    BY <1>1, <1>2, <2>1
<1>4. ASSUME NEW k \in 0..n - 1, k \in T PROVE k + 1 \in T
  <2> DEFINE l == k + 1
             s == 1..l
  <2>1. l \in 1..n /\ l - 1 = k /\ l \in s /\ \A x \in s : x <= l
    OBVIOUS
  <2>2. s \in SUBSET (1..n) /\ s \subseteq Nat /\ s # {}
    <3>1. \A x \in s : x \in 1..n /\ x \in Nat
      OBVIOUS
    <3> HIDE DEF s
    <3>. QED
      BY <2>1, <3>1
  <2>3. s \ {l} = 1..k
    <3>1. \A x : x \in s /\ x # l <=> x \in 1..k
      OBVIOUS
    <3>. QED
      BY <3>1
  <2>4. Max(s) = l
    <3> HIDE DEF s, l
    <3>. QED
      BY <2>1, <2>2, MaxIs
  <2>5. h[1..k] = r[k] /\ r[k] \in A
    BY <1>4
  <2> HIDE DEF l, s
  <2>6. h[s \ {Max(s)}] = r[k]
    BY <2>5, <2>3, <2>4
  <2>7. h[s] = G[Max(s)][h[s \ {Max(s)}]]
    BY <1>2, <2>2, <2>5, <2>6
  <2>8. h[s] = r[l] /\ l \in 0..n
    BY <1>1, <2>1, <2>6, <2>4, <2>7
  <2>. QED
    BY <2>8 DEF s, l
<1>5. n \in T
  <2> HIDE DEF T
  <2>1. 0..n \subseteq T
    BY <1>3, <1>4, InductionTo
  <2>. QED
    BY <2>1
<1>. QED
  BY <1>5

(* FlattenSeq joins the sequences one after another.                       *)
LEMMA FlattenIs ==
    ASSUME NEW S, NEW s \in Seq(Seq(S)), NEW r, r[0] = <<>>,
           \A i \in 1..Len(s) : r[i] = r[i - 1] \o s[i]
    PROVE  FlattenSeq(s) = r[Len(s)] /\ r[Len(s)] \in Seq(S)
<1> DEFINE n == Len(s)
           F(f) == f = [i \in 1..n |-> IF i = 1 THEN s[i] ELSE f[i - 1] \o s[i]]
<1>1. n \in Nat /\ \A i \in 1..n : s[i] \in Seq(S)
  BY ElementOfSeq, LenProperties
<1> DEFINE T == {k \in 0..n : r[k] \in Seq(S)}
<1>2. 0 \in T
  <2>1. 0 \in 0..n
    BY <1>1
  <2>2. r[0] \in Seq(S)
    OBVIOUS
  <2>. QED
    BY <2>1, <2>2
<1>3. ASSUME NEW k \in 0..n - 1, k \in T PROVE k + 1 \in T
  <2> DEFINE l == k + 1
  <2>1. l \in 1..n /\ l \in 0..n /\ l - 1 = k
    BY <1>1
  <2>2. r[l] = r[k] \o s[l] /\ r[k] \in Seq(S) /\ s[l] \in Seq(S)
    BY <1>1, <1>3, <2>1
  <2>3. r[l] \in Seq(S)
    BY <2>2, ConcatProperties
  <2>. QED
    BY <2>1, <2>3
<1>4. 0..n \subseteq T
  <2> HIDE DEF T, n
  <2>. QED
    BY <1>1, <1>2, <1>3, InductionTo
<1>5. CASE n = 0
  <2>1. s = <<>>
    BY <1>5, EmptySeq
  <2>2. FlattenSeq(s) = s
    BY <1>5 DEF FlattenSeq
  <2>3. r[n] = <<>> /\ <<>> \in Seq(S)
    BY <1>5
  <2>. QED
    BY <2>1, <2>2, <2>3
<1>6. CASE n # 0
  <2> DEFINE f == [i \in 1..n |-> r[i]]
  <2>1. F(f)
    <3>1. ASSUME NEW i \in 1..n PROVE r[i] = IF i = 1 THEN s[i] ELSE f[i - 1] \o s[i]
      <4>1. CASE i = 1
        <5>1. 1 \in 1..n /\ 1 - 1 = 0
          BY <3>1, <4>1
        <5>2. r[1] = r[0] \o s[1] /\ s[1] \in Seq(S)
          BY <1>1, <5>1
        <5>3. <<>> \o s[1] = s[1]
          BY <5>2, ConcatEmptySeq
        <5>. QED
          BY <4>1, <5>2, <5>3
      <4>2. CASE i # 1
        <5>1. i - 1 \in 1..n
          BY <1>1, <4>2
        <5>. QED
          BY <4>2, <5>1
      <4>. QED
        BY <4>1, <4>2
    <3>. QED
      BY <3>1
  <2> DEFINE c == CHOOSE g : F(g)
  <2>2. F(c)
    <3> HIDE DEF F, f
    <3>. QED
      BY <2>1
  <2>3. FlattenSeq(s) = c[n]
    BY <1>6 DEF FlattenSeq
  <2> HIDE DEF c
  <2>4. \A i \in 1..n : c[i] = IF i = 1 THEN s[i] ELSE c[i - 1] \o s[i]
    BY <2>2
  <2> DEFINE U == {k \in 0..n : k = 0 \/ c[k] = r[k]}
  <2>5. ASSUME NEW k \in 0..n - 1, k \in U PROVE k + 1 \in U
    <3> DEFINE l == k + 1
    <3>1. l \in 1..n /\ l \in 0..n /\ l - 1 = k /\ (l = 1 <=> k = 0)
      BY <1>1
    <3>2. r[l] = r[k] \o s[l] /\ s[l] \in Seq(S)
      BY <1>1, <3>1
    <3>3. c[l] = IF l = 1 THEN s[l] ELSE c[k] \o s[l]
      BY <2>4, <3>1
    <3>4. CASE k = 0
      BY <3>1, <3>2, <3>3, <3>4, ConcatEmptySeq
    <3>5. CASE k # 0
      BY <2>5, <3>1, <3>2, <3>3, <3>5
    <3>. QED
      BY <3>4, <3>5
  <2>6. 0 \in U
    BY <1>1
  <2>7. 0..n \subseteq U
    <3> HIDE DEF U, n
    <3>. QED
      BY <1>1, <2>5, <2>6, InductionTo
  <2>8. n \in T /\ n \in U
    BY <1>1, <1>4, <2>7
  <2>. QED
    BY <1>6, <2>3, <2>8
<1>. QED
  BY <1>5, <1>6

(* FlattenSeq is a run, too.                                               *)
LEMMA FlattenRuns ==
    ASSUME NEW S, NEW s \in Seq(Seq(S))
    PROVE  \E r \in [0..Len(s) -> Seq(S)] :
             /\ r[0] = <<>> /\ \A i \in 1..Len(s) : r[i] = r[i - 1] \o s[i]
             /\ FlattenSeq(s) = r[Len(s)]
<1> DEFINE n == Len(s)
           A == Seq(S)
           G == [i \in 1..n |-> [x \in A |-> x \o s[i]]]
<1>1. n \in Nat /\ \A i \in 1..n : s[i] \in A
  BY ElementOfSeq, LenProperties
<1>2. \A x \in A : \A i \in 1..n : x \o s[i] \in A
  BY <1>1, ConcatProperties
<1>3. G \in [1..n -> [A -> A]]
  <2> HIDE DEF n
  <2>. QED
    BY <1>2
<1>4. <<>> \in A
  OBVIOUS
<1>5. PICK r \in [0..n -> A] : r[0] = <<>> /\ \A i \in 1..n : r[i] = G[i][r[i - 1]]
  <2> HIDE DEF G, A, n
  <2>1. \E r \in [0..n -> A] : IsRun(r, n, <<>>, G)
    BY <1>1, <1>3, <1>4, Running
  <2>. QED
    BY <2>1 DEF IsRun
<1>6. ASSUME NEW i \in 1..n PROVE r[i] = r[i - 1] \o s[i]
  <2>1. i - 1 \in 0..n
    BY <1>1
  <2>2. r[i - 1] \in A
    BY <2>1
  <2>3. r[i] = G[i][r[i - 1]]
    BY <1>5
  <2> HIDE DEF A
  <2>. QED
    BY <2>2, <2>3
<1>7. FlattenSeq(s) = r[n]
  BY <1>5, <1>6, FlattenIs
<1>. QED
  BY <1>5, <1>6, <1>7

(* What is joined is a sequence of the same things.                        *)
LEMMA FlattenType ==
    ASSUME NEW S, NEW s \in Seq(Seq(S))
    PROVE  FlattenSeq(s) \in Seq(S)
<1>1. PICK r \in [0..Len(s) -> Seq(S)] : FlattenSeq(s) = r[Len(s)]
  BY FlattenRuns
<1>2. Len(s) \in 0..Len(s)
  BY LenProperties
<1>. QED
  BY <1>1, <1>2

(* Nothing is joined to nothing.                                           *)
LEMMA FlattenEmpty == FlattenSeq(<<>>) = <<>>
BY DEF FlattenSeq

(* One sequence more is joined at the end.                                 *)
LEMMA FlattenAppend ==
    ASSUME NEW S, NEW s \in Seq(Seq(S)), NEW e \in Seq(S)
    PROVE  FlattenSeq(Append(s, e)) = FlattenSeq(s) \o e
<1> DEFINE n == Len(s)
           t == Append(s, e)
<1>1. PICK r \in [0..n -> Seq(S)] :
        r[0] = <<>> /\ (\A i \in 1..n : r[i] = r[i - 1] \o s[i]) /\ FlattenSeq(s) = r[n]
  BY FlattenRuns
<1>2. n \in Nat /\ t \in Seq(Seq(S)) /\ Len(t) = n + 1 /\ t[n + 1] = e
      /\ \A i \in 1..n : t[i] = s[i]
  BY AppendProperties, LenProperties
<1> DEFINE w == r[n] \o e
           q == [i \in 0..n + 1 |-> IF i = n + 1 THEN w ELSE r[i]]
<1> HIDE DEF t, n
<1>3. q[0] = <<>> /\ q[n + 1] = w /\ q[n] = r[n]
  BY <1>1, <1>2
<1>4. ASSUME NEW i \in 1..n + 1 PROVE q[i] = q[i - 1] \o t[i]
  <2>1. CASE i = n + 1
    <3>1. i - 1 = n
      BY <1>2, <2>1
    <3> HIDE DEF q
    <3>. QED
      BY <1>2, <1>3, <2>1, <3>1
  <2>2. CASE i # n + 1
    <3>1. i \in 1..n /\ i - 1 \in 0..n + 1 /\ i \in 0..n + 1 /\ i - 1 # n + 1
      BY <1>2, <2>2
    <3> HIDE DEF w
    <3>2. q[i] = r[i] /\ q[i - 1] = r[i - 1]
      BY <2>2, <3>1
    <3>. QED
      BY <1>1, <1>2, <3>1, <3>2
  <2>. QED
    BY <2>1, <2>2
<1> HIDE DEF q
<1>5. FlattenSeq(t) = q[n + 1]
  BY <1>2, <1>3, <1>4, FlattenIs
<1>. QED
  BY <1>1, <1>3, <1>5 DEF t

(* Two sequences joined, place by place.                                   *)
LEMMA ConcatPlaces ==
    ASSUME NEW S, NEW p \in Seq(S), NEW q \in Seq(S)
    PROVE  /\ p \o q \in Seq(S) /\ Len(p \o q) = Len(p) + Len(q)
           /\ Len(p) \in Nat /\ Len(q) \in Nat
           /\ \A m \in 1..Len(p) : (p \o q)[m] = p[m]
           /\ \A m \in 1..Len(q) : (p \o q)[Len(p) + m] = q[m]
<1> DEFINE a == Len(p)
           b == Len(q)
           w == p \o q
<1>1. a \in Nat /\ b \in Nat
  BY LenProperties
<1>2. /\ w \in Seq(S) /\ Len(w) = a + b
      /\ \A i \in 1..a + b : w[i] = IF i <= a THEN p[i] ELSE q[i - a]
  BY ConcatProperties
<1> HIDE DEF a, b, w
<1>3. \A m \in 1..a : w[m] = p[m]
  BY <1>1, <1>2
<1>4. ASSUME NEW m \in 1..b PROVE w[a + m] = q[m]
  <2>1. a + m \in 1..a + b /\ ~(a + m <= a) /\ (a + m) - a = m
    BY <1>1
  <2>. QED
    BY <1>2, <2>1
<1>. QED
  BY <1>1, <1>2, <1>3, <1>4 DEF a, b, w

(* Where the parts of a sequence of sequences begin.                       *)
LEMMA FlattenPlaces ==
    ASSUME NEW S, NEW s \in Seq(Seq(S))
    PROVE  \E o \in [0..Len(s) -> Nat] :
             /\ o[0] = 0 /\ o[Len(s)] = Len(FlattenSeq(s))
             /\ \A i \in 1..Len(s) :
                  /\ o[i] = o[i - 1] + Len(s[i]) /\ o[i] <= o[Len(s)]
                  /\ \A m \in 1..Len(s[i]) : FlattenSeq(s)[o[i - 1] + m] = s[i][m]
<1> DEFINE n == Len(s)
<1>1. n \in Nat /\ \A i \in 1..n : s[i] \in Seq(S) /\ Len(s[i]) \in Nat
  BY ElementOfSeq, LenProperties
<1>2. PICK r \in [0..n -> Seq(S)] :
        r[0] = <<>> /\ (\A i \in 1..n : r[i] = r[i - 1] \o s[i]) /\ FlattenSeq(s) = r[n]
  BY FlattenRuns
<1> HIDE DEF n
<1> DEFINE o == [i \in 0..n |-> Len(r[i])]
<1>3. \A i \in 0..n : r[i] \in Seq(S) /\ Len(r[i]) \in Nat
  BY LenProperties
<1>4. o \in [0..n -> Nat] /\ \A i \in 0..n : o[i] = Len(r[i]) /\ o[i] \in Nat
  BY <1>3
<1> HIDE DEF o
<1>5. ASSUME NEW i \in 1..n
      PROVE  /\ i - 1 \in 0..n /\ i \in 0..n /\ o[i] = o[i - 1] + Len(s[i])
             /\ \A m \in 1..o[i - 1] : r[i][m] = r[i - 1][m]
             /\ \A m \in 1..Len(s[i]) : r[i][o[i - 1] + m] = s[i][m]
  <2>1. i - 1 \in 0..n /\ i \in 0..n
    BY <1>1
  <2> DEFINE p == r[i - 1]
             a == o[i - 1]
             w == r[i]
             q == s[i]
  <2>2. w = p \o q /\ p \in Seq(S) /\ q \in Seq(S)
    BY <1>1, <1>2, <1>3, <2>1
  <2>3. Len(p) = a /\ Len(w) = o[i]
    BY <1>4, <2>1
  <2> HIDE DEF p, a, w, q
  <2>4. /\ Len(w) = a + Len(q)
        /\ \A m \in 1..a : w[m] = p[m]
        /\ \A m \in 1..Len(q) : w[a + m] = q[m]
    <3>1. /\ Len(p \o q) = Len(p) + Len(q)
          /\ \A m \in 1..Len(p) : (p \o q)[m] = p[m]
          /\ \A m \in 1..Len(q) : (p \o q)[Len(p) + m] = q[m]
      BY <2>2, ConcatPlaces
    <3>. QED
      BY <2>2, <2>3, <3>1, Zenon
  <2>. QED
    BY <2>1, <2>3, <2>4 DEF p, a, w, q
<1> DEFINE T == {k \in 0..n : \A i \in 1..k :
                   /\ o[i] <= o[k]
                   /\ \A m \in 1..Len(s[i]) : r[k][o[i - 1] + m] = s[i][m]}
<1>6. 0 \in T
  BY <1>1
<1>7. ASSUME NEW k \in 0..n - 1, k \in T PROVE k + 1 \in T
  <2> DEFINE l == k + 1
  <2>1. l \in 1..n /\ l - 1 = k /\ k \in 0..n /\ l \in 0..n
    BY <1>1
  <2> HIDE DEF l
  <2>2. ASSUME NEW i \in 1..l
        PROVE  o[i] <= o[l] /\ \A m \in 1..Len(s[i]) : r[l][o[i - 1] + m] = s[i][m]
    <3>1. CASE i = l
      BY <1>4, <1>5, <2>1, <3>1
    <3>2. CASE i # l
      <4>1. i \in 1..k /\ i \in 1..n /\ i \in 0..n /\ i - 1 \in 0..n
        BY <1>1, <2>1, <3>2
      <4>2. o[i] <= o[k] /\ \A m \in 1..Len(s[i]) : r[k][o[i - 1] + m] = s[i][m]
        BY <1>7, <4>1
      <4> DEFINE a == o[i - 1]
                 b == Len(s[i])
                 d == Len(s[l])
      <4>3. /\ o[l] = o[k] + d /\ o[i] = a + b
            /\ \A m \in 1..o[k] : r[l][m] = r[k][m]
        BY <1>5, <2>1, <4>1
      <4>4. o[k] \in Nat /\ o[l] \in Nat /\ o[i] \in Nat /\ a \in Nat /\ d \in Nat /\ b \in Nat
        BY <1>1, <1>4, <2>1, <4>1
      <4>5. \A m \in 1..b : r[k][a + m] = s[i][m]
        BY <4>2
      <4> HIDE DEF a, b, d
      <4>6. \A m \in 1..b : a + m \in 1..o[k]
        BY <4>2, <4>3, <4>4
      <4>7. \A m \in 1..b : r[l][a + m] = s[i][m]
        BY <4>3, <4>5, <4>6
      <4>8. o[i] <= o[l]
        BY <4>2, <4>3, <4>4
      <4>. QED
        BY <4>7, <4>8 DEF a, b
    <3>. QED
      BY <3>1, <3>2
  <2>. QED
    BY <2>1, <2>2 DEF l
<1>8. n \in T
  <2> HIDE DEF T
  <2>1. 0..n \subseteq T
    BY <1>1, <1>6, <1>7, InductionTo
  <2>. QED
    BY <1>1, <2>1
<1>9. \A i \in 1..n : o[i] <= o[n] /\ \A m \in 1..Len(s[i]) : r[n][o[i - 1] + m] = s[i][m]
  BY <1>8
<1>10. o[0] = 0 /\ o[n] = Len(FlattenSeq(s))
  BY <1>1, <1>2, <1>4
<1>11. /\ o[0] = 0 /\ o[n] = Len(FlattenSeq(s))
       /\ \A i \in 1..n :
            /\ o[i] = o[i - 1] + Len(s[i]) /\ o[i] <= o[n]
            /\ \A m \in 1..Len(s[i]) : FlattenSeq(s)[o[i - 1] + m] = s[i][m]
  <2>1. PICK f : f = FlattenSeq(s)
    OBVIOUS
  <2>2. f = r[n]
    BY <1>2, <2>1
  <2>3. o[0] = 0 /\ o[n] = Len(f)
    BY <1>10, <2>1
  <2>4. \A i \in 1..n : o[i] = o[i - 1] + Len(s[i])
    BY <1>5
  <2>5. \A i \in 1..n : o[i] <= o[n]
    BY <1>9
  <2>6. \A i \in 1..n : \A m \in 1..Len(s[i]) : f[o[i - 1] + m] = s[i][m]
    BY <1>9, <2>2
  <2>. QED
    BY <2>1, <2>3, <2>4, <2>5, <2>6, Zenon
<1>. QED
  <2>1. o \in [0..n -> Nat]
    BY <1>4
  <2>. QED
    BY <1>11, <2>1, Zenon DEF n

(* What is cut out of a sequence, and cut out of that again.               *)
LEMMA CutIs ==
    ASSUME NEW S, NEW s \in Seq(S), NEW a \in Nat, NEW m \in Nat, a <= m, m <= Len(s)
    PROVE  /\ SubSeq(s, a + 1, m) \in Seq(S) /\ Len(SubSeq(s, a + 1, m)) = m - a
           /\ \A j \in 1..m - a : SubSeq(s, a + 1, m)[j] = s[a + j]
<1> DEFINE b == a + 1
           t == SubSeq(s, b, m)
<1>1. b \in Int /\ m \in Int /\ m - b + 1 = m - a /\ \A j \in 1..m - a : b + j - 1 = a + j
  OBVIOUS
<1>2. \A j \in b..m : s[j] \in S
  <2>1. Len(s) \in Nat
    BY LenProperties
  <2>2. \A j \in b..m : j \in 1..Len(s)
    BY <2>1
  <2>. QED
    BY <2>2, ElementOfSeq
<1>3. m - a = IF b <= m THEN m - a ELSE 0
  OBVIOUS
<1> HIDE DEF b
<1>4. /\ t \in Seq(S) /\ Len(t) = IF b <= m THEN m - b + 1 ELSE 0
      /\ \A j \in 1..m - b + 1 : t[j] = s[b + j - 1]
  BY <1>1, <1>2, SubSeqProperties
<1> HIDE DEF t
<1>5. Len(t) = m - a /\ \A j \in 1..m - a : t[j] = s[a + j]
  BY <1>1, <1>4, <1>3
<1>. QED
  BY <1>4, <1>5 DEF t, b

(* The same of a part that has a name.                                     *)
LEMMA CutAs ==
    ASSUME NEW S, NEW s \in Seq(S), NEW a \in Nat, NEW m \in Nat, a <= m, m <= Len(s),
           NEW b, b = a + 1, NEW w, w = SubSeq(s, b, m)
    PROVE  w \in Seq(S) /\ Len(w) = m - a /\ \A j \in 1..m - a : w[j] = s[a + j]
BY CutIs

(* There is a part of s that begins after a places and ends at m.          *)
Fits(s, a, m) == s \in Seq(Nat) /\ a \in Nat /\ m \in Nat /\ a <= m /\ m <= Len(s)

(* w is the part of s that begins after a places and ends at m.            *)
CutFrom(w, s, a, m) == w \in Seq(Nat) /\ Len(w) = m - a /\ \A j \in 1..m - a : w[j] = s[a + j]

(* What is cut out of a sequence of numbers holds what is there.           *)
LEMMA NumbersCut ==
    ASSUME NEW s, NEW a, NEW m, Fits(s, a, m), NEW b, b = a + 1, NEW w, w = SubSeq(s, b, m)
    PROVE  CutFrom(w, s, a, m)
<1>1. s \in Seq(Nat) /\ a \in Nat /\ m \in Nat /\ a <= m /\ m <= Len(s) /\ b = a + 1
  BY DEF Fits
<1>2. w \in Seq(Nat) /\ Len(w) = m - a /\ \A j \in 1..m - a : w[j] = s[a + j]
  BY <1>1
<1>. QED
  BY <1>2, Zenon DEF CutFrom

(* A part of a part, as a part of the whole.                               *)
PartOfPart(s, a, m, p, q) ==
    SubSeq(SubSeq(s, a + 1, m), p + 1, q) = SubSeq(s, (a + p) + 1, a + q)

(* Every part of a part is one.                                            *)
LEMMA CutOfCut ==
    ASSUME NEW S, NEW s \in Seq(S), NEW a \in Nat, NEW m \in Nat, a <= m, m <= Len(s),
           NEW p \in Nat, NEW q \in Nat, p <= q, q <= m - a
    PROVE  PartOfPart(s, a, m, p, q)
<1> DEFINE t == SubSeq(s, a + 1, m)
           u == SubSeq(t, p + 1, q)
           v == SubSeq(s, (a + p) + 1, a + q)
<1>1. t \in Seq(S) /\ Len(t) = m - a /\ \A j \in 1..m - a : t[j] = s[a + j]
  BY CutIs
<1>2. Len(s) \in Nat /\ a + p \in Nat /\ a + q \in Nat /\ a + p <= a + q /\ a + q <= Len(s)
      /\ (a + q) - (a + p) = q - p
  BY LenProperties
<1> HIDE DEF t
<1>3. u \in Seq(S) /\ Len(u) = q - p /\ \A j \in 1..q - p : u[j] = t[p + j]
  <2>1. PICK b, x : b = p + 1 /\ x = SubSeq(t, b, q)
    OBVIOUS
  <2>2. q <= Len(t) /\ u = x
    BY <1>1, <2>1
  <2> HIDE DEF u
  <2>3. x \in Seq(S) /\ Len(x) = q - p /\ \A j \in 1..q - p : x[j] = t[p + j]
    BY <1>1, <2>1, <2>2, CutAs
  <2>. QED
    BY <2>2, <2>3
<1> DEFINE c == a + p
           d == a + q
           w == SubSeq(s, c + 1, d)
<1>4. w \in Seq(S) /\ Len(w) = d - c /\ \A j \in 1..d - c : w[j] = s[c + j]
  <2> HIDE DEF c, d
  <2>1. c \in Nat /\ d \in Nat /\ c <= d /\ d <= Len(s)
    BY <1>2 DEF c, d
  <2>. QED
    BY <2>1, CutIs
<1>5. w = v
  OBVIOUS
<1> HIDE DEF u, v, w
<1>6. \A j \in 1..q - p : p + j \in 1..m - a /\ a + (p + j) = (a + p) + j
  OBVIOUS
<1>7. \A j \in 1..q - p : u[j] = w[j]
  BY <1>1, <1>2, <1>3, <1>4, <1>6
<1>8. u = w
  BY <1>2, <1>3, <1>4, <1>7, SeqEqual
<1>. QED
  BY <1>5, <1>8 DEF u, v, t, PartOfPart

(* The first k of a sequence.                                              *)
LEMMA FirstIs ==
    ASSUME NEW S, NEW s \in Seq(S), NEW k \in 0..Len(s)
    PROVE  /\ SubSeq(s, 1, k) \in Seq(S) /\ Len(SubSeq(s, 1, k)) = k
           /\ \A j \in 1..k : SubSeq(s, 1, k)[j] = s[j]
<1>1. Len(s) \in Nat
  BY LenProperties
<1>2. 0 \in Nat /\ k \in Nat /\ 0 <= k /\ k <= Len(s)
  BY <1>1
<1>3. /\ SubSeq(s, 0 + 1, k) \in Seq(S) /\ Len(SubSeq(s, 0 + 1, k)) = k - 0
      /\ \A j \in 1..k - 0 : SubSeq(s, 0 + 1, k)[j] = s[0 + j]
  BY <1>2, CutIs
<1> DEFINE t == SubSeq(s, 1, k)
<1>4. t = SubSeq(s, 0 + 1, k)
  OBVIOUS
<1> HIDE DEF t
<1>5. k - 0 = k /\ \A j \in 1..k : 0 + j = j
  BY <1>2
<1>6. t \in Seq(S) /\ Len(t) = k /\ \A j \in 1..k : t[j] = s[j]
  BY <1>3, <1>4, <1>5
<1>. QED
  BY <1>6 DEF t

(* One element more.                                                       *)
LEMMA OneMore ==
    ASSUME NEW S, NEW p \in Seq(S), NEW x \in S
    PROVE  /\ p \o <<x>> \in Seq(S) /\ Len(p \o <<x>>) = Len(p) + 1
           /\ (p \o <<x>>)[Len(p) + 1] = x
           /\ \A j \in 1..Len(p) : (p \o <<x>>)[j] = p[j]
<1>1. PICK d : d = <<x>>
  OBVIOUS
<1>2. d \in Seq(S) /\ Len(d) = 1 /\ d[1] = x
  BY <1>1
<1>3. d \in Seq(S)
  BY <1>2
<1>4. /\ p \o d \in Seq(S) /\ Len(p \o d) = Len(p) + Len(d)
      /\ \A m \in 1..Len(p) : (p \o d)[m] = p[m]
      /\ \A m \in 1..Len(d) : (p \o d)[Len(p) + m] = d[m]
  BY <1>3, ConcatPlaces
<1> DEFINE w == p \o d
<1> HIDE DEF w
<1>5. 1 \in 1..Len(d)
  BY <1>2
<1>6. w \in Seq(S) /\ Len(w) = Len(p) + 1 /\ w[Len(p) + 1] = x /\ \A m \in 1..Len(p) : w[m] = p[m]
  BY <1>2, <1>4, <1>5 DEF w
<1>. QED
  BY <1>1, <1>6 DEF w

(* Two sequences joined are cut where they were joined.                    *)
LEMMA JoinCut ==
    ASSUME NEW S, NEW p \in Seq(S), NEW q \in Seq(S)
    PROVE  /\ SubSeq(p \o q, 1, Len(p)) = p
           /\ SubSeq(p \o q, Len(p) + 1, Len(p) + Len(q)) = q
<1> DEFINE a == Len(p)
           b == Len(q)
           w == p \o q
           m == a + b
<1>1. /\ w \in Seq(S) /\ Len(w) = m /\ a \in Nat /\ b \in Nat
      /\ \A j \in 1..a : w[j] = p[j]
      /\ \A j \in 1..b : w[a + j] = q[j]
  BY ConcatPlaces
<1>2. m \in Nat /\ a <= m /\ m <= m /\ m - a = b /\ a \in 0..m
  BY <1>1
<1> HIDE DEF w, a, b, m
<1>3. SubSeq(w, 1, a) \in Seq(S) /\ Len(SubSeq(w, 1, a)) = a
      /\ \A j \in 1..a : SubSeq(w, 1, a)[j] = w[j]
  BY <1>1, <1>2, FirstIs
<1>4. /\ SubSeq(w, a + 1, m) \in Seq(S) /\ Len(SubSeq(w, a + 1, m)) = m - a
      /\ \A j \in 1..m - a : SubSeq(w, a + 1, m)[j] = w[a + j]
  BY <1>1, <1>2, CutIs
<1> DEFINE u == SubSeq(w, 1, a)
           v == SubSeq(w, a + 1, m)
<1> HIDE DEF u, v
<1>5. u \in Seq(S) /\ Len(u) = a /\ \A j \in 1..a : u[j] = p[j]
  BY <1>1, <1>3 DEF u
<1>6. v \in Seq(S) /\ Len(v) = b /\ \A j \in 1..b : v[j] = q[j]
  BY <1>1, <1>2, <1>4 DEF v
<1>7. u = p
  <2>1. Len(p) = a
    BY DEF a
  <2>. QED
    BY <1>5, <2>1, SeqEqual
<1>8. v = q
  <2>1. Len(q) = b
    BY DEF b
  <2>. QED
    BY <1>6, <2>1, SeqEqual
<1>. QED
  BY <1>7, <1>8 DEF u, v, w, a, b, m

-----------------------------------------------------------------------------
(* Requests *)

(* Commands, and what decode_string leaves: the strings it has taken and   *)
(* the rest.                                                               *)
Words == Seq(Seq(Nat))
Decodings == [args : Words, rest : Seq(Nat)]

(* The daemon has the first i strings of c, which begin in E at o[1], ..., *)
(* and the rest of E up to place m.                                        *)
Got(c, E, o, m, i) == [args |-> SubSeq(c, 1, i), rest |-> SubSeq(E, o[i] + 1, m)]

(* Bytes have at least two values, and a command has a name that can be    *)
(* said.                                                                   *)
LEMMA RqSizes ==
    ASSUME RQ!RequestAssumption
    PROVE
    /\ Base \in Nat \ {0, 1} /\ MaxArgs \in Nat
    /\ Base * Base \in Nat
    /\ \A c \in Asks : c \in Words /\ c # <<>> /\ Len(c[1]) < Base * Base
BY DEF RQ!RequestAssumption, Words

(* Two bytes hold a number that fits.                                      *)
LEMMA EncodeIntIs ==
    ASSUME RQ!RequestAssumption, NEW n \in Nat
    PROVE  /\ RQ!EncodeInt(n) \in Seq(Nat) /\ Len(RQ!EncodeInt(n)) = 2
           /\ n < Base * Base => RQ!EncodeInt(n)[1] * Base + RQ!EncodeInt(n)[2] = n
<1> DEFINE B == Base
           q == n \div B
           a == q % B
           b == n % B
<1>1. B \in Nat \ {0}
  BY RqSizes
<1> HIDE DEF B
<1>2. n = B * q + b /\ b \in 0..B - 1 /\ q \in Nat
  BY <1>1
<1> HIDE DEF q, b
<1>3. q = B * (q \div B) + a /\ a \in 0..B - 1 /\ q \div B \in Nat
  BY <1>1, <1>2
<1> DEFINE z == q \div B
<1>4. RQ!EncodeInt(n) = <<a, b>>
  BY DEF RQ!EncodeInt, a, b, q, B
<1> HIDE DEF a, z
<1>5. ASSUME n < B * B PROVE a * B + b = n
  <2>1. q < B
    <3>1. SUFFICES ASSUME q >= B PROVE FALSE
      BY <1>1, <1>2
    <3>2. B * q >= B * B
      BY <1>1, <1>2, <3>1
    <3>3. B * q \in Nat /\ B * B \in Nat
      BY <1>1, <1>2
    <3>. QED
      BY <1>2, <1>5, <3>2, <3>3
  <2>2. a = q
    BY <1>1, <1>2, <2>1 DEF a
  <2>3. a * B = B * q
    BY <1>1, <1>2, <2>2
  <2>. QED
    BY <1>2, <2>3
<1>6. a \in Nat /\ b \in Nat
  BY <1>1, <1>2, <1>3
<1>. QED
  BY <1>4, <1>5, <1>6 DEF B

(* A string with its length before it.                                     *)
LEMMA EncodeStringIs ==
    ASSUME RQ!RequestAssumption, NEW s \in Seq(Nat)
    PROVE  LET e == RQ!EncodeString(s) IN
           /\ e \in Seq(Nat) /\ Len(e) = Len(s) + 2
           /\ Len(s) < Base * Base => e[1] * Base + e[2] = Len(s)
           /\ \A m \in 1..Len(s) : e[m + 2] = s[m]
<1> DEFINE n == Len(s)
           h == RQ!EncodeInt(n)
           e == h \o s
<1>1. n \in Nat
  BY LenProperties
<1>2. h \in Seq(Nat) /\ Len(h) = 2 /\ (n < Base * Base => h[1] * Base + h[2] = n)
  BY <1>1, EncodeIntIs
<1>3. RQ!EncodeString(s) = e
  BY DEF RQ!EncodeString
<1> HIDE DEF h
<1>4. /\ h \o s \in Seq(Nat) /\ Len(h \o s) = Len(h) + Len(s)
      /\ \A m \in 1..Len(h) : (h \o s)[m] = h[m]
      /\ \A m \in 1..Len(s) : (h \o s)[Len(h) + m] = s[m]
  <2>1. h \in Seq(Nat) /\ s \in Seq(Nat)
    BY <1>2
  <2>. QED
    BY <2>1, ConcatPlaces
<1>5. /\ e \in Seq(Nat) /\ Len(e) = Len(h) + n
      /\ \A m \in 1..Len(h) : e[m] = h[m]
      /\ \A m \in 1..n : e[Len(h) + m] = s[m]
  BY <1>4
<1> HIDE DEF e, n
<1>6. e[1] = h[1] /\ e[2] = h[2] /\ Len(e) = n + 2
  BY <1>1, <1>2, <1>5
<1>7. \A m \in 1..n : e[m + 2] = s[m]
  <2>1. \A m \in 1..n : 2 + m = m + 2
    BY <1>1
  <2>. QED
    BY <1>2, <1>5, <2>1
<1>. QED
  BY <1>2, <1>3, <1>5, <1>6, <1>7 DEF n

(* Request takes FlattenSeq from the same module.                          *)
LEMMA SameFlatten == \A s : RQ!FlattenSeq(s) = FlattenSeq(s)
BY DEF RQ!FlattenSeq, FlattenSeq

(* Where the strings of a command are in what is sent.                     *)
Laid(c, E, o) ==
    /\ E \in Seq(Nat) /\ o \in [0..Len(c) -> Nat] /\ o[0] = 0 /\ o[Len(c)] = Len(E)
    /\ \A i \in 1..Len(c) :
         /\ o[i] = o[i - 1] + Len(c[i]) + 2 /\ o[i] <= Len(E)
         /\ \A m \in 1..Len(c[i]) + 2 : E[o[i - 1] + m] = RQ!EncodeString(c[i])[m]

(* An encoded command is laid out so.                                      *)
LEMMA EncodedIs ==
    ASSUME RQ!RequestAssumption, NEW c \in Words
    PROVE  \E o : Laid(c, RQ!Encoded(c), o)
<1> DEFINE n == Len(c)
           s == [i \in 1..n |-> RQ!EncodeString(c[i])]
           E == FlattenSeq(s)
<1>1. n \in Nat /\ \A i \in 1..n : c[i] \in Seq(Nat) /\ Len(c[i]) \in Nat
  BY LenProperties, ElementOfSeq DEF Words
<1>2. \A i \in 1..n : RQ!EncodeString(c[i]) \in Seq(Nat)
                      /\ Len(RQ!EncodeString(c[i])) = Len(c[i]) + 2
  BY <1>1, EncodeStringIs
<1>3. E = RQ!Encoded(c)
  BY SameFlatten DEF RQ!Encoded
<1>4. s \in [1..n -> Seq(Nat)] /\ \A i \in 1..n : s[i] = RQ!EncodeString(c[i])
  BY <1>2
<1> HIDE DEF s, n
<1>5. s \in Words /\ Len(s) = n
  BY <1>1, <1>4, SeqDef, LenProperties DEF Words
<1> HIDE DEF E
<1>6. E \in Seq(Nat)
  BY <1>5, FlattenType DEF E, Words
<1>7. PICK o \in [0..n -> Nat] :
        /\ o[0] = 0 /\ o[n] = Len(E)
        /\ \A i \in 1..n :
             /\ o[i] = o[i - 1] + Len(s[i]) /\ o[i] <= o[n]
             /\ \A m \in 1..Len(s[i]) : E[o[i - 1] + m] = s[i][m]
  <2>1. s \in Seq(Seq(Nat))
    BY <1>5 DEF Words
  <2>2. \E o \in [0..Len(s) -> Nat] :
             /\ o[0] = 0 /\ o[Len(s)] = Len(FlattenSeq(s))
             /\ \A i \in 1..Len(s) :
                  /\ o[i] = o[i - 1] + Len(s[i]) /\ o[i] <= o[Len(s)]
                  /\ \A m \in 1..Len(s[i]) : FlattenSeq(s)[o[i - 1] + m] = s[i][m]
    BY <2>1, FlattenPlaces, Zenon
  <2>. QED
    BY <1>5, <2>2, Zenon DEF E
<1>8. ASSUME NEW i \in 1..n
      PROVE  /\ o[i] = o[i - 1] + Len(c[i]) + 2 /\ o[i] <= Len(E)
             /\ \A m \in 1..Len(c[i]) + 2 : E[o[i - 1] + m] = RQ!EncodeString(c[i])[m]
  <2> DEFINE a == o[i - 1]
             b == Len(c[i])
             e == RQ!EncodeString(c[i])
  <2>1. e = s[i] /\ Len(e) = b + 2 /\ b \in Nat
    BY <1>1, <1>2, <1>4
  <2>2. a \in Nat
    BY <1>1, <1>7
  <2>3. o[i] = a + Len(s[i]) /\ o[i] <= Len(E) /\ \A m \in 1..Len(s[i]) : E[a + m] = s[i][m]
    BY <1>7
  <2> HIDE DEF a, b, e
  <2>4. o[i] = a + (b + 2) /\ o[i] <= Len(E) /\ \A m \in 1..b + 2 : E[a + m] = e[m]
    BY <2>1, <2>3, Zenon
  <2>5. a + (b + 2) = a + b + 2
    BY <2>1, <2>2
  <2>. QED
    BY <2>4, <2>5 DEF a, b, e
<1>. QED
  <2>1. E \in Seq(Nat) /\ o \in [0..n -> Nat] /\ o[0] = 0 /\ o[n] = Len(E)
    BY <1>6, <1>7
  <2>2. Laid(c, E, o)
    BY <2>1, <1>8, Zenon DEF Laid, n
  <2>. QED
    BY <1>3, <2>2, Zenon

(* One string more is decoded, or none: never another.                     *)
LEMMA DecodeStringIs ==
    ASSUME RQ!RequestAssumption, NEW c \in Words, NEW E, NEW o, Laid(c, E, o), NEW m \in 0..Len(E),
           NEW i \in 1..Len(c), o[i - 1] <= m, Len(c[i]) < Base * Base,
           NEW st, st = Got(c, E, o, m, i - 1)
    PROVE  \/ RQ!DecodeString(st) = None
           \/ o[i] <= m /\ RQ!DecodeString(st) = Got(c, E, o, m, i)
<1> DEFINE a == o[i - 1]
           b == Len(c[i])
           e == RQ!EncodeString(c[i])
           t == SubSeq(E, a + 1, m)
           x == SubSeq(t, 3, b + 2)
           y == SubSeq(t, b + 3, m - a)
<1>1. E \in Seq(Nat) /\ Len(E) \in Nat /\ m \in Nat /\ m <= Len(E) /\ c[i] \in Seq(Nat) /\ b \in Nat
      /\ i \in Nat /\ Len(c) \in Nat /\ i - 1 \in 0..Len(c)
  <2>1. E \in Seq(Nat) /\ c \in Seq(Seq(Nat))
    BY DEF Laid, Words
  <2>2. Len(E) \in Nat /\ Len(c) \in Nat /\ c[i] \in Seq(Nat)
    BY <2>1, LenProperties, ElementOfSeq
  <2>3. b \in Nat
    BY <2>2, LenProperties
  <2>. QED
    BY <2>1, <2>2, <2>3
<1>2. a \in Nat /\ a <= m /\ o[i] = a + b + 2 /\ a + b + 2 <= Len(E)
      /\ \A j \in 1..b + 2 : E[a + j] = e[j]
  <2>1. o \in [0..Len(c) -> Nat]
    BY DEF Laid
  <2>2. a \in Nat /\ a <= m
    BY <1>1, <2>1
  <2>3. o[i] = a + b + 2 /\ o[i] <= Len(E) /\ \A j \in 1..b + 2 : E[a + j] = e[j]
    BY Zenon DEF Laid
  <2>. QED
    BY <2>2, <2>3
<1>3. e[1] * Base + e[2] = b /\ \A j \in 1..b : e[j + 2] = c[i][j]
  BY <1>1, EncodeStringIs
<1> HIDE DEF a, b, e
<1>4. t \in Seq(Nat) /\ Len(t) = m - a /\ \A j \in 1..m - a : t[j] = E[a + j]
  <2>1. Fits(E, a, m)
    BY <1>1, <1>2 DEF Fits
  <2>2. PICK w, p : w = SubSeq(E, p, m) /\ p = a + 1
    OBVIOUS
  <2>3. CutFrom(w, E, a, m)
    BY <2>1, <2>2, NumbersCut, Zenon
  <2>4. w = t
    BY <2>2, Zenon
  <2>. QED
    BY <2>3, <2>4 DEF CutFrom
<1>5. \A j \in 1..b + 2 : j <= m - a => t[j] = e[j]
  <2> HIDE DEF t
  <2>1. \A j \in 1..b + 2 : j <= m - a => j \in 1..m - a
    BY <1>1, <1>2
  <2>. QED
    BY <1>2, <1>4, <2>1, Zenon
<1>6. st = [args |-> SubSeq(c, 1, i - 1), rest |-> t]
  BY DEF Got, a
<1>7. SUFFICES ASSUME st # None, m - a >= 2, t[1] * Base + t[2] <= (m - a) - 2
               PROVE  o[i] <= m /\ RQ!DecodeString(st) = Got(c, E, o, m, i)
  <2> DEFINE n == t[1] * Base + t[2]
  <2>1. st.rest = t /\ Len(t) = m - a
    BY <1>4, <1>6
  <2>2. st = None => RQ!DecodeString(st) = None
    BY DEF RQ!DecodeString
  <2>3. CASE m - a >= 2
    <3>1. 1 \in 1..Len(t) /\ 2 \in 1..Len(t)
      BY <1>1, <1>2, <1>4, <2>3
    <3> HIDE DEF t
    <3>2. t[1] \in Nat /\ t[2] \in Nat
      BY <1>4, <3>1, ElementOfSeq
    <3>3. Base \in Nat
      BY RqSizes
    <3>4. n \in Nat
      <4>1. PICK x1, x2 : x1 = t[1] /\ x2 = t[2]
        OBVIOUS
      <4>2. x1 \in Nat /\ x2 \in Nat
        BY <3>2, <4>1
      <4>3. x1 * Base + x2 \in Nat
        BY <3>3, <4>2
      <4>. QED
        BY <4>1, <4>3
    <3>5. n > (m - a) - 2 => RQ!DecodeString(st) = None
      BY <2>1 DEF RQ!DecodeString
    <3> HIDE DEF n
    <3>6. n > (m - a) - 2 \/ n <= (m - a) - 2
      BY <1>1, <1>2, <3>4
    <3>. QED
      BY <2>3, <2>2, <3>5, <3>6 DEF n
  <2>4. CASE ~(m - a >= 2)
    <3>1. m - a < 2
      BY <1>1, <1>2, <2>4
    <3> HIDE DEF t
    <3>. QED
      BY <2>1, <3>1 DEF RQ!DecodeString
  <2>. QED
    BY <2>3, <2>4
<1>8. t[1] * Base + t[2] = b
  <2>1. 1 \in 1..m - a /\ 2 \in 1..m - a /\ 1 \in 1..b + 2 /\ 2 \in 1..b + 2
    BY <1>1, <1>2, <1>7
  <2> HIDE DEF t
  <2>2. t[1] = e[1] /\ t[2] = e[2]
    BY <1>5, <1>7, <2>1
  <2>. QED
    BY <1>3, <2>2
<1>9. b <= (m - a) - 2
  BY <1>7, <1>8
<1>10. o[i] <= m /\ ~(m - a < 2) /\ ~(b > (m - a) - 2) /\ o[i] = a + (b + 2)
  BY <1>1, <1>2, <1>7, <1>9
<1>11. RQ!DecodeString(st) = [args |-> Append(SubSeq(c, 1, i - 1), x), rest |-> y]
  <2>1. st.rest = t /\ st.args = SubSeq(c, 1, i - 1) /\ Len(t) = m - a
    BY <1>4, <1>6
  <2> HIDE DEF t
  <2>. QED
    BY <1>7, <1>8, <1>10, <2>1 DEF RQ!DecodeString
<1>12. x = c[i]
  <2> HIDE DEF t
  <2>1. x \in Seq(Nat) /\ Len(x) = b /\ \A j \in 1..b : x[j] = t[2 + j]
    <3> DEFINE z == b + 2
               w == SubSeq(t, 2 + 1, z)
    <3>1. z \in Nat /\ 2 <= z /\ z <= Len(t) /\ z - 2 = b
      BY <1>1, <1>2, <1>4, <1>9
    <3>2. w = x
      OBVIOUS
    <3> HIDE DEF z
    <3>3. w \in Seq(Nat) /\ Len(w) = z - 2 /\ \A j \in 1..z - 2 : w[j] = t[2 + j]
      <4>1. Fits(t, 2, z)
        BY <1>4, <3>1 DEF Fits
      <4>2. PICK p : p = 2 + 1
        OBVIOUS
      <4>3. w = SubSeq(t, p, z)
        BY <4>2
      <4>4. CutFrom(w, t, 2, z)
        BY <4>1, <4>2, <4>3, NumbersCut, Zenon
      <4>. QED
        BY <4>4 DEF CutFrom
    <3> HIDE DEF w, x
    <3>. QED
      BY <3>1, <3>2, <3>3
  <2> HIDE DEF x
  <2>2. \A j \in 1..b : 2 + j \in 1..b + 2 /\ 2 + j <= m - a /\ 2 + j = j + 2
    BY <1>1, <1>2, <1>9
  <2>3. \A j \in 1..b : x[j] = c[i][j]
    BY <1>3, <1>5, <2>1, <2>2
  <2>4. Len(c[i]) = b
    BY DEF b
  <2>. QED
    BY <1>1, <2>1, <2>3, <2>4, SeqEqual
<1>13. y = SubSeq(E, o[i] + 1, m)
  <2> DEFINE p == b + 2
             q == m - a
  <2>1. p \in Nat /\ q \in Nat /\ p <= q /\ q <= m - a /\ p + 1 = b + 3 /\ a + q = m /\ a + p = o[i]
    BY <1>1, <1>2, <1>9
  <2> HIDE DEF p, q
  <2>2. SubSeq(SubSeq(E, a + 1, m), p + 1, q) = SubSeq(E, (a + p) + 1, a + q)
    <3>1. E \in Seq(Nat) /\ a \in Nat /\ m \in Nat /\ a <= m /\ m <= Len(E)
      BY <1>1, <1>2
    <3>2. PartOfPart(E, a, m, p, q)
      BY <2>1, <3>1, CutOfCut
    <3>. QED
      BY <3>2 DEF PartOfPart
  <2>3. q = m - a
    BY DEF q
  <2>. QED
    BY <2>1, <2>2, <2>3
<1>14. Append(SubSeq(c, 1, i - 1), c[i]) = SubSeq(c, 1, i)
  <2>1. c \in Seq(Seq(Nat)) /\ i \in 1..Len(c) /\ 1 \in 1..Len(c)
    BY <1>1 DEF Words
  <2>2. SubSeq(c, 1, i) = SubSeq(c, 1, i - 1) \o <<c[i]>>
    BY <1>1, <2>1, SubSeqRecursiveSecond
  <2>3. SubSeq(c, 1, i - 1) \in Seq(Seq(Nat))
    <3> DEFINE k == i - 1
    <3>1. k \in Nat /\ 0 <= k /\ k <= Len(c) /\ 0 \in Nat
      BY <1>1
    <3> HIDE DEF k
    <3>2. SubSeq(c, 0 + 1, k) \in Seq(Seq(Nat))
      BY <2>1, <3>1, CutIs
    <3>3. 0 + 1 = 1
      OBVIOUS
    <3>. QED
      BY <3>2, <3>3 DEF k
  <2>4. Append(SubSeq(c, 1, i - 1), c[i]) = SubSeq(c, 1, i - 1) \o <<c[i]>>
    BY <1>1, <2>3, AppendIsConcat
  <2>. QED
    BY <2>2, <2>4
<1> HIDE DEF x, y
<1>. QED
  BY <1>10, <1>11, <1>12, <1>13, <1>14 DEF Got

(* decode_string leaves strings and a rest, or fails.                      *)
LEMMA DecodeStringType ==
    ASSUME RQ!RequestAssumption, NEW st \in Decodings \cup {None}
    PROVE  RQ!DecodeString(st) \in Decodings \cup {None}
<1> DEFINE t == st.rest
           k == Len(t)
           n == t[1] * Base + t[2]
           x == SubSeq(t, 3, n + 2)
           y == SubSeq(t, n + 3, k)
<1>1. SUFFICES ASSUME st # None, st \in Decodings, ~(k < 2), ~(n > k - 2)
               PROVE  [args |-> Append(st.args, x), rest |-> y] \in Decodings
  <2>1. \/ st = None \/ k < 2 \/ n > k - 2
        \/ st # None /\ st \in Decodings /\ ~(k < 2) /\ ~(n > k - 2)
    OBVIOUS
  <2>2. st = None \/ k < 2 \/ n > k - 2 => RQ!DecodeString(st) = None
    BY DEF RQ!DecodeString
  <2>3. st # None /\ ~(k < 2) /\ ~(n > k - 2)
          => RQ!DecodeString(st) = [args |-> Append(st.args, x), rest |-> y]
    BY DEF RQ!DecodeString
  <2> HIDE DEF t, k, n, x, y
  <2>. QED
    BY <2>1, <2>2, <2>3
<1>2. t \in Seq(Nat) /\ st.args \in Words
  BY <1>1 DEF Decodings
<1> HIDE DEF t
<1>3. k \in Nat /\ k >= 2
  BY <1>1, <1>2, LenProperties
<1>4. n \in Nat
  <2>1. 1 \in 1..Len(t) /\ 2 \in 1..Len(t)
    BY <1>3
  <2>2. t[1] \in Nat /\ t[2] \in Nat
    BY <1>2, <2>1, ElementOfSeq
  <2>3. Base \in Nat
    BY RqSizes
  <2>. QED
    BY <2>2, <2>3
<1> HIDE DEF n, k
<1>5. n <= k - 2
  BY <1>1, <1>3, <1>4
<1>6. x \in Seq(Nat)
  <2> DEFINE m == n + 2
  <2>1. 2 \in Nat /\ m \in Nat /\ 2 <= m /\ m <= Len(t) /\ 2 + 1 = 3
    BY <1>3, <1>4, <1>5 DEF k
  <2> HIDE DEF m
  <2>2. SubSeq(t, 2 + 1, m) \in Seq(Nat)
    BY <1>2, <2>1, CutIs
  <2>. QED
    BY <2>1, <2>2 DEF m
<1>7. y \in Seq(Nat)
  <2> DEFINE a == n + 2
  <2>1. a \in Nat /\ k \in Nat /\ a <= k /\ k <= Len(t) /\ a + 1 = n + 3
    BY <1>3, <1>4, <1>5 DEF k
  <2> HIDE DEF a
  <2>2. SubSeq(t, a + 1, k) \in Seq(Nat)
    BY <1>2, <2>1, CutIs
  <2>. QED
    BY <2>1, <2>2
<1> HIDE DEF x, y
<1>8. Append(st.args, x) \in Words
  BY <1>2, <1>6, AppendProperties DEF Words
<1>. QED
  BY <1>7, <1>8 DEF Decodings

(* The strings are decoded one after another.                              *)
LEMMA DecodingRuns ==
    ASSUME RQ!RequestAssumption, NEW n \in Nat, NEW b \in Decodings \cup {None}
    PROVE  \E r \in [0..n -> Decodings \cup {None}] :
             /\ r[0] = b /\ \A i \in 1..n : r[i] = RQ!DecodeString(r[i - 1])
             /\ RQ!FoldLeft(LAMBDA s, i : RQ!DecodeString(s), b, [i \in 1..n |-> i]) = r[n]
<1> DEFINE A == Decodings \cup {None}
           D == 1..n
           G == [i \in D |-> [x \in A |-> RQ!DecodeString(x)]]
           F(h) == h = [s \in SUBSET D |->
                          IF s = {} THEN b ELSE RQ!DecodeString(h[s \ {Max(s)}])]
           c == CHOOSE h : F(h)
           V == RQ!FoldLeft(LAMBDA s, i : RQ!DecodeString(s), b, [i \in 1..n |-> i])
<1>1. V = c[D]
  <2>1. \A s : RQ!Max(s) = Max(s)
    BY DEF RQ!Max, Max
  <2>2. DOMAIN [i \in 1..n |-> i] = D
    OBVIOUS
  <2>. QED
    BY <2>1, <2>2, Zenon DEF RQ!FoldLeft, RQ!MapThenFoldSet
<1>2. G \in [D -> [A -> A]] /\ \A i \in D, x \in A : G[i][x] = RQ!DecodeString(x)
  <2>1. \A x \in A : RQ!DecodeString(x) \in A
    BY DecodeStringType
  <2> HIDE DEF A, D
  <2>. QED
    BY <2>1
<1> HIDE DEF G, V
<1>3. b \in A
  OBVIOUS
<1> HIDE DEF A, c
<1>4. \A s \in SUBSET D : s # {} => Max(s) \in D /\ s \ {Max(s)} \in SUBSET D
  BY MaxIn
<1>5. F(c)
  <2>1. PICK h \in [SUBSET D -> A] :
          h = [s \in SUBSET D |-> IF s = {} THEN b ELSE G[Max(s)][h[s \ {Max(s)}]]]
    <3>1. \E h \in [SUBSET D -> A] : IsFold(h, n, b, G)
      BY <1>2, <1>3, FoldExists
    <3>. QED
      BY <3>1 DEF IsFold
  <2>2. ASSUME NEW s \in SUBSET D
        PROVE  (IF s = {} THEN b ELSE G[Max(s)][h[s \ {Max(s)}]])
               = IF s = {} THEN b ELSE RQ!DecodeString(h[s \ {Max(s)}])
    BY <1>2, <1>4, <2>1
  <2>3. F(h)
    <3> HIDE DEF D
    <3>. QED
      BY <2>1, <2>2, Zenon
  <2> HIDE DEF F
  <2>. QED
    BY <2>3 DEF c
<1>6. PICK r \in [0..n -> A] : IsRun(r, n, b, G)
  BY <1>2, <1>3, Running
<1>7. c[D] = r[n]
  <2>1. c[{}] = b
    BY <1>5
  <2>2. ASSUME NEW s \in SUBSET D, s # {}, c[s \ {Max(s)}] \in A
        PROVE  c[s] = G[Max(s)][c[s \ {Max(s)}]]
    <3>1. c[s] = RQ!DecodeString(c[s \ {Max(s)}])
      BY <1>5, <2>2, Zenon
    <3>. QED
      BY <1>2, <1>4, <2>2, <3>1
  <2>3. FoldsUp(c, n, A, b, G)
    BY <2>1, <2>2 DEF FoldsUp
  <2>. QED
    BY <1>2, <1>3, <1>6, <2>3, FoldRuns
<1>8. \A i \in 1..n : r[i] = RQ!DecodeString(r[i - 1])
  <2>1. \A i \in 1..n : i - 1 \in 0..n /\ r[i] = G[i][r[i - 1]]
    BY <1>6 DEF IsRun
  <2>. QED
    BY <1>2, <2>1
<1>. QED
  BY <1>1, <1>6, <1>7, <1>8 DEF IsRun, A, V

(* What a command is sent as: the number of its arguments and its strings. *)
Body(z, E) == <<z>> \o E

(* A part of the body that begins with its number begins with that number. *)
LEMMA BodyCut ==
    ASSUME NEW z \in Nat, NEW E \in Seq(Nat), NEW l \in 1..Len(E) + 1
    PROVE  LET d == SubSeq(Body(z, E), 1, l) IN
           /\ d # <<>> /\ d[1] = z /\ l - 1 \in 0..Len(E)
           /\ Tail(d) = SubSeq(E, 0 + 1, l - 1) /\ Tail(d) \in Seq(Nat)
<1> DEFINE w == Body(z, E)
           k == Len(E)
           m == l - 1
           t == SubSeq(E, 0 + 1, m)
           d == SubSeq(w, 0 + 1, l)
<1>1. k \in Nat /\ l \in Nat /\ m \in Nat /\ m <= k /\ m \in 0..k /\ l = m + 1 /\ 0 <= l /\ 0 <= m
  BY LenProperties
<1>2. w \in Seq(Nat) /\ Len(w) = k + 1 /\ w[1] = z /\ \A j \in 1..k : w[1 + j] = E[j]
  <2>1. <<z>> \in Seq(Nat) /\ Len(<<z>>) = 1 /\ <<z>>[1] = z
    OBVIOUS
  <2>2. /\ <<z>> \o E \in Seq(Nat) /\ Len(<<z>> \o E) = Len(<<z>>) + Len(E)
        /\ \A j \in 1..Len(<<z>>) : (<<z>> \o E)[j] = <<z>>[j]
        /\ \A j \in 1..Len(E) : (<<z>> \o E)[Len(<<z>>) + j] = E[j]
    BY <2>1, ConcatPlaces
  <2> DEFINE h == <<z>>
  <2>3. w = h \o E
    BY DEF Body
  <2> HIDE DEF h, w
  <2>4. w \in Seq(Nat) /\ Len(w) = 1 + k /\ w[1] = z /\ \A j \in 1..k : w[1 + j] = E[j]
    BY <2>1, <2>2, <2>3 DEF h
  <2>. QED
    BY <1>1, <2>4
<1> HIDE DEF w, m, k
<1>3. d \in Seq(Nat) /\ Len(d) = l /\ \A j \in 1..l : d[j] = w[j]
  <2>1. d \in Seq(Nat) /\ Len(d) = l - 0 /\ \A j \in 1..l - 0 : d[j] = w[0 + j]
    BY <1>1, <1>2, CutIs
  <2> HIDE DEF d
  <2>2. l - 0 = l /\ \A j \in 1..l : 0 + j = j
    BY <1>1
  <2>. QED
    BY <2>1, <2>2
<1>4. t \in Seq(Nat) /\ Len(t) = m /\ \A j \in 1..m : t[j] = E[j]
  <2>1. t \in Seq(Nat) /\ Len(t) = m - 0 /\ \A j \in 1..m - 0 : t[j] = E[0 + j]
    BY <1>1, CutIs DEF k
  <2> HIDE DEF t
  <2>2. m - 0 = m /\ \A j \in 1..m : 0 + j = j
    BY <1>1
  <2>. QED
    BY <2>1, <2>2
<1> HIDE DEF d, t
<1>5. d # <<>> /\ d[1] = z
  <2>1. 1 \in 1..l /\ l # 0
    BY <1>1
  <2>. QED
    BY <1>2, <1>3, <2>1
<1>6. Tail(d) \in Seq(Nat) /\ Len(Tail(d)) = m /\ \A j \in 1..m : Tail(d)[j] = d[j + 1]
  <2>1. /\ Tail(d) \in Seq(Nat) /\ Len(Tail(d)) = Len(d) - 1
        /\ \A j \in 1..Len(Tail(d)) : Tail(d)[j] = d[j + 1]
    BY <1>3, <1>5, HeadTailProperties
  <2>. QED
    BY <1>3, <2>1 DEF m
<1>7. \A j \in 1..m : Tail(d)[j] = t[j]
  <2>1. \A j \in 1..m : j + 1 \in 1..l /\ j \in 1..k /\ j + 1 = 1 + j
    BY <1>1
  <2>. QED
    BY <1>2, <1>3, <1>4, <1>6, <2>1
<1>8. Tail(d) = t
  BY <1>4, <1>6, <1>7, SeqEqual
<1>9. 0 + 1 = 1
  OBVIOUS
<1>. QED
  BY <1>1, <1>5, <1>6, <1>8, <1>9 DEF d, t, w, m, k

(* Of what a command is encoded into any part that begins with it is       *)
(* decoded to the command or to nothing.                                   *)
LEMMA DecodeDataIs ==
    ASSUME RQ!RequestAssumption, NEW c \in Words, c # <<>>,
           \A i \in 1..Len(c) : Len(c[i]) < Base * Base,
           NEW l \in 0..Len(RQ!Encoded(c)) + 1
    PROVE  RQ!DecodeData(SubSeq(Body(Len(c) - 1, RQ!Encoded(c)), 1, l)) \in {None, c}
<1> DEFINE E == RQ!Encoded(c)
           n == Len(c)
           z == n - 1
           d == SubSeq(Body(z, E), 1, l)
           m == l - 1
<1>1. n \in Nat /\ n # 0 /\ z \in Nat /\ z + 1 = n /\ c \in Seq(Seq(Nat))
  <2>1. c \in Seq(Seq(Nat))
    BY DEF Words
  <2>2. n \in Nat \ {0}
    BY <2>1, EmptySeq
  <2>. QED
    BY <2>1, <2>2
<1>2. PICK o : Laid(c, E, o)
  BY EncodedIs
<1>3. E \in Seq(Nat) /\ o \in [0..n -> Nat] /\ o[0] = 0
  BY <1>2 DEF Laid
<1> HIDE DEF E
<1>4. CASE l = 0
  <2>1. d = <<>>
    BY <1>4, SubSeqEmpty
  <2> HIDE DEF d
  <2>2. RQ!DecodeData(d) = None
    BY <2>1 DEF RQ!DecodeData
  <2>. QED
    BY <2>2 DEF d, E
<1>5. CASE l # 0
  <2>1. l \in 1..Len(E) + 1
    BY <1>3, <1>5, LenProperties DEF E
  <2> HIDE DEF z
  <2>2. d # <<>> /\ d[1] = z /\ m \in 0..Len(E) /\ Tail(d) = SubSeq(E, 0 + 1, m) /\ Tail(d) \in Seq(Nat)
    BY <1>1, <1>3, <2>1, BodyCut
  <2> HIDE DEF d, n
  <2> DEFINE b == [args |-> <<>>, rest |-> Tail(d)]
             V == RQ!FoldLeft(LAMBDA s, i : RQ!DecodeString(s), b, [i \in 1..n |-> i])
  <2>3. b \in Decodings \cup {None}
    BY <2>2 DEF Decodings, Words
  <2>4. b = Got(c, E, o, m, 0)
    <3>1. SubSeq(c, 1, 0) = <<>>
      BY SubSeqEmpty
    <3>. QED
      BY <1>3, <2>2, <3>1 DEF Got
  <2> HIDE DEF b
  <2>5. PICK r \in [0..n -> Decodings \cup {None}] :
          /\ r[0] = b /\ \A i \in 1..n : r[i] = RQ!DecodeString(r[i - 1])
          /\ V = r[n]
    BY <1>1, <2>3, DecodingRuns
  <2> HIDE DEF V
  <2> DEFINE T == {k \in 0..n : r[k] = None \/ (o[k] <= m /\ r[k] = Got(c, E, o, m, k))}
  <2>6. 0 \in T
    BY <1>1, <1>3, <2>2, <2>4, <2>5
  <2>7. ASSUME NEW k \in 0..n - 1, k \in T PROVE k + 1 \in T
    <3> DEFINE i == k + 1
    <3>1. i \in 1..n /\ i \in 0..n /\ i - 1 = k
      BY <1>1
    <3> HIDE DEF i
    <3>2. r[i] = RQ!DecodeString(r[k])
      BY <2>5, <3>1
    <3>3. CASE r[k] = None
      <4>1. r[i] = None
        BY <3>2, <3>3 DEF RQ!DecodeString
      <4>. QED
        BY <3>1, <4>1 DEF i
    <3>4. CASE o[k] <= m /\ r[k] = Got(c, E, o, m, k)
      <4>1. i \in 1..Len(c) /\ o[i - 1] <= m /\ r[k] = Got(c, E, o, m, i - 1)
        BY <3>1, <3>4 DEF n
      <4>2. Len(c[i]) < Base * Base
        BY <4>1
      <4>3. \/ RQ!DecodeString(r[k]) = None
            \/ o[i] <= m /\ RQ!DecodeString(r[k]) = Got(c, E, o, m, i)
        BY <1>2, <2>2, <4>1, <4>2, DecodeStringIs
      <4>. QED
        BY <3>1, <3>2, <4>3 DEF i
    <3>. QED
      BY <2>7, <3>3, <3>4
  <2>8. n \in T
    <3> HIDE DEF T
    <3>1. 0..n \subseteq T
      BY <1>1, <2>6, <2>7, InductionTo
    <3>. QED
      BY <1>1, <3>1
  <2>9. V = None \/ V.args = c
    <3>1. SubSeq(c, 1, n) = c
      BY <1>1, SubSeqFull DEF n
    <3>2. r[n] = None \/ r[n] = Got(c, E, o, m, n)
      BY <2>8
    <3>3. Got(c, E, o, m, n).args = c
      BY <3>1 DEF Got
    <3>. QED
      BY <2>5, <3>2, <3>3
  <2>10. RQ!DecodeData(d) = IF V = None THEN None ELSE IF V.args[1] = <<>> THEN None ELSE V.args
    <3>1. d[1] + 1 = n
      BY <1>1, <2>2
    <3>. QED
      BY <2>2, <3>1 DEF RQ!DecodeData, V, b
  <2>11. RQ!DecodeData(d) \in {None, c}
    BY <2>9, <2>10
  <2>. QED
    BY <2>11 DEF d, z, n, E
<1>. QED
  BY <1>4, <1>5

-----------------------------------------------------------------------------

(* A byte and its lower case.                                              *)
LowerByte(b) == IF b \in 65..90 THEN b + 32 ELSE b

(* Lower makes every byte lower case.                                      *)
LEMMA LowerIs ==
    ASSUME NEW s \in Seq(Nat)
    PROVE  /\ RQ!Lower(s) \in Seq(Nat) /\ Len(RQ!Lower(s)) = Len(s)
           /\ \A m \in 1..Len(s) : RQ!Lower(s)[m] = LowerByte(s[m])
<1> DEFINE n == Len(s)
           t == [i \in 1..n |-> LowerByte(s[i])]
<1>1. n \in Nat /\ DOMAIN s = 1..n /\ \A i \in 1..n : s[i] \in Nat
  BY LenProperties, ElementOfSeq
<1>2. RQ!Lower(s) = t
  BY <1>1 DEF RQ!Lower, LowerByte
<1>3. \A i \in 1..n : LowerByte(s[i]) \in Nat
  BY <1>1 DEF LowerByte
<1> HIDE DEF n
<1>4. t \in [1..n -> Nat] /\ \A i \in 1..n : t[i] = LowerByte(s[i])
  BY <1>3
<1> HIDE DEF t
<1>5. t \in Seq(Nat) /\ Len(t) = n
  BY <1>1, <1>4, SeqDef, LenProperties
<1>. QED
  BY <1>2, <1>4, <1>5 DEF n

(* The name that domain and user are joined to.                            *)
Joined(owner, w) == IF w = <<>> THEN owner ELSE owner \o <<RQ!Dash>> \o w

(* The owner and the user's name are cut out of the joined name again.     *)
LEMMA JoinedIs ==
    ASSUME NEW owner \in Seq(Nat), owner # <<>>, NEW w \in Seq(Nat)
    PROVE  LET full == Joined(owner, w) IN
           /\ full \in Seq(Nat) /\ Len(owner) \in 1..Len(full)
           /\ Len(owner) = Len(full) \/ full[Len(owner) + 1] = RQ!Dash
           /\ SubSeq(full, 1, Len(owner)) = owner
           /\ SubSeq(full, Len(owner) + 2, Len(full)) = w
<1> DEFINE k == Len(owner)
           full == Joined(owner, w)
           n == Len(full)
<1>1. k \in Nat /\ k # 0 /\ Len(w) \in Nat
  BY EmptySeq, LenProperties
<1>2. CASE w = <<>>
  <2>1. full = owner
    BY <1>2 DEF Joined
  <2>2. SubSeq(owner, 1, k) = owner
    BY SubSeqFull
  <2>3. SubSeq(owner, k + 2, k) = <<>>
    BY <1>1, SubSeqEmpty
  <2>. QED
    BY <1>1, <1>2, <2>1, <2>2, <2>3
<1>3. CASE w # <<>>
  <2>1. RQ!Dash \in Nat
    BY DEF RQ!Dash
  <2>2. PICK h : h = owner \o <<RQ!Dash>>
    OBVIOUS
  <2>3. h \in Seq(Nat) /\ Len(h) = k + 1 /\ h[k + 1] = RQ!Dash /\ \A m \in 1..k : h[m] = owner[m]
    BY <2>1, <2>2, OneMore
  <2>4. PICK f : f = h \o w
    OBVIOUS
  <2>5. full = f
    BY <1>3, <2>2, <2>4 DEF Joined
  <2>6. h \in Seq(Nat)
    BY <2>3
  <2>7. f \in Seq(Nat) /\ Len(f) = Len(h) + Len(w) /\ \A m \in 1..Len(h) : f[m] = h[m]
    BY <2>4, <2>6, ConcatPlaces
  <2>8. SubSeq(f, Len(h) + 1, Len(h) + Len(w)) = w
    BY <2>4, <2>6, JoinCut
  <2> HIDE DEF k
  <2>9. k \in 0..Len(f) /\ k \in 1..Len(f) /\ (k + 1) + 1 = k + 2 /\ k + 1 \in 1..Len(h)
    BY <1>1, <2>3, <2>7
  <2>10. f[k + 1] = RQ!Dash /\ SubSeq(f, k + 2, Len(f)) = w
    BY <2>3, <2>7, <2>8, <2>9
  <2>11. SubSeq(f, 1, k) = owner
    <3>1. PICK u : u = SubSeq(f, 1, k)
      OBVIOUS
    <3>2. u \in Seq(Nat) /\ Len(u) = k /\ \A j \in 1..k : u[j] = f[j]
      BY <2>7, <2>9, <3>1, FirstIs
    <3>3. \A j \in 1..k : u[j] = owner[j]
      <4>1. \A j \in 1..k : j \in 1..Len(h)
        BY <1>1, <2>3
      <4>. QED
        BY <2>3, <2>7, <3>2, <4>1
    <3>4. Len(owner) = k
      BY DEF k
    <3>. QED
      BY <3>1, <3>2, <3>3, <3>4, SeqEqual
  <2>. QED
    BY <2>5, <2>7, <2>9, <2>10, <2>11 DEF k
<1>. QED
  BY <1>2, <1>3

(* A longer user's name begins the joined name.                            *)
Hidden(owner, full) ==
    \E u \in sys.users :
      Len(u) > Len(owner)
      /\ RQ!IsPrefix(u \o <<RQ!Dash>>, RQ!Lower(full) \o <<RQ!Dash>>)

(* An owner that the system knows, and that no longer name hides, is found *)
(* again with the name that was joined to it.                              *)
LEMMA LookupIs ==
    ASSUME RQ!RequestAssumption, sys \in Systems, NEW owner \in Seq(Nat), owner # <<>>,
           NEW w \in Seq(Nat), RQ!Lower(owner) \in sys.users, ~Hidden(owner, Joined(owner, w))
    PROVE  RQ!LookupBaseuser(Joined(owner, w)) = <<owner, w>>
<1> DEFINE full == Joined(owner, w)
           n == Len(full)
           k == Len(owner)
           is == {i \in 1..n : /\ i = n \/ full[i + 1] = RQ!Dash
                               /\ RQ!Lower(SubSeq(full, 1, i)) \in sys.users}
<1>1. /\ full \in Seq(Nat) /\ k \in 1..n
      /\ k = n \/ full[k + 1] = RQ!Dash
      /\ SubSeq(full, 1, k) = owner /\ SubSeq(full, k + 2, n) = w
  BY JoinedIs
<1>2. ~Hidden(owner, full)
  OBVIOUS
<1> HIDE DEF full
<1>3. n \in Nat /\ k \in Nat
  BY <1>1, LenProperties
<1>4. k \in is
  BY <1>1
<1>5. ASSUME NEW j \in is PROVE j <= k
  <2>1. SUFFICES ASSUME j > k PROVE FALSE
    BY <1>3
  <2>2. j \in 1..n /\ (j = n \/ full[j + 1] = RQ!Dash) /\ RQ!Lower(SubSeq(full, 1, j)) \in sys.users
    OBVIOUS
  <2> HIDE DEF is
  <2>3. PICK s : s = SubSeq(full, 1, j)
    OBVIOUS
  <2>4. s \in Seq(Nat) /\ Len(s) = j /\ \A i \in 1..j : s[i] = full[i]
    <3>1. j \in 0..Len(full)
      BY <2>2
    <3>. QED
      BY <1>1, <2>3, <3>1, FirstIs
  <2>5. PICK u : u = RQ!Lower(s)
    OBVIOUS
  <2>6. u \in Seq(Nat) /\ Len(u) = j /\ \A i \in 1..j : u[i] = LowerByte(full[i])
    BY <2>4, <2>5, LowerIs
  <2>7. PICK v : v = RQ!Lower(full)
    OBVIOUS
  <2>8. v \in Seq(Nat) /\ Len(v) = n /\ \A i \in 1..n : v[i] = LowerByte(full[i])
    BY <1>1, <2>7, LowerIs
  <2>9. RQ!Dash \in Nat /\ LowerByte(RQ!Dash) = RQ!Dash
    BY DEF RQ!Dash, LowerByte
  <2>10. PICK p, q : p = u \o <<RQ!Dash>> /\ q = v \o <<RQ!Dash>>
    OBVIOUS
  <2>11. p \in Seq(Nat) /\ Len(p) = j + 1 /\ p[j + 1] = RQ!Dash /\ \A i \in 1..j : p[i] = u[i]
    BY <2>6, <2>9, <2>10, OneMore
  <2>12. q \in Seq(Nat) /\ Len(q) = n + 1 /\ q[n + 1] = RQ!Dash /\ \A i \in 1..n : q[i] = v[i]
    <3>1. v \in Seq(Nat) /\ q = v \o <<RQ!Dash>>
      BY <2>8, <2>10
    <3>2. q \in Seq(Nat) /\ Len(q) = Len(v) + 1 /\ q[Len(v) + 1] = RQ!Dash /\ \A i \in 1..Len(v) : q[i] = v[i]
      BY <2>9, <3>1, OneMore
    <3>3. Len(v) = n
      BY <2>8
    <3> HIDE DEF n
    <3>. QED
      BY <3>2, <3>3
  <2>13. j \in Nat /\ j + 1 <= n + 1 /\ j + 1 \in 0..n + 1
    BY <1>3, <2>2
  <2>14. \A i \in 1..j + 1 : p[i] = q[i]
    <3>1. \A i \in 1..j : p[i] = q[i]
      <4>1. \A i \in 1..j : i \in 1..n
        BY <1>3, <2>2
      <4>. QED
        BY <2>6, <2>8, <2>11, <2>12, <4>1
    <3>2. p[j + 1] = q[j + 1]
      <4>1. CASE j = n
        BY <2>11, <2>12, <4>1
      <4>2. CASE j # n
        <5>1. j + 1 \in 1..n /\ full[j + 1] = RQ!Dash
          BY <1>3, <2>2, <4>2
        <5>. QED
          BY <2>8, <2>9, <2>11, <2>12, <5>1
      <4>. QED
        BY <4>1, <4>2
    <3>3. \A i \in 1..j + 1 : i \in 1..j \/ i = j + 1
      BY <2>13
    <3>. QED
      BY <3>1, <3>2, <3>3
  <2>15. PICK m : m = j + 1
    OBVIOUS
  <2>16. p = SubSeq(q, 1, m)
    <3>1. m \in 0..Len(q) /\ q \in Seq(Nat)
      BY <2>12, <2>13, <2>15
    <3>2. PICK y : y = SubSeq(q, 1, m)
      OBVIOUS
    <3>3. y \in Seq(Nat) /\ Len(y) = m /\ \A i \in 1..m : y[i] = q[i]
      BY <3>1, <3>2, FirstIs
    <3>4. p \in Seq(Nat) /\ Len(p) = m /\ \A i \in 1..m : p[i] = q[i]
      BY <2>11, <2>14, <2>15
    <3>5. \A i \in 1..m : y[i] = p[i]
      BY <3>3, <3>4
    <3>. QED
      BY <3>2, <3>3, <3>4, <3>5, SeqEqual
  <2>17. SubSeq(p, 1, m) = p
    BY <2>11, <2>15, SubSeqFull
  <2>18. Len(p) <= Len(q) /\ Len(p) = m
    BY <2>11, <2>12, <2>13, <2>15
  <2>19. RQ!IsPrefix(p, q)
    BY <2>16, <2>17, <2>18 DEF RQ!IsPrefix
  <2>20. Len(u) > Len(owner) /\ u \in sys.users
    BY <2>1, <2>2, <2>3, <2>5, <2>6
  <2>21. Hidden(owner, full)
    BY <2>7, <2>10, <2>19, <2>20 DEF Hidden
  <2>. QED
    BY <1>2, <2>21
<1> DEFINE c == CHOOSE i \in is : \A j \in is : j <= i
<1>6. c = k
  <2>1. \A i \in is : i \in Nat
    BY <1>3
  <2> HIDE DEF is, k
  <2>2. c \in is /\ \A j \in is : j <= c
    BY <1>4, <1>5
  <2>3. c \in Nat /\ k \in Nat
    BY <1>4, <2>1, <2>2
  <2>4. c <= k /\ k <= c
    BY <1>4, <1>5, <2>2
  <2> HIDE DEF c
  <2>. QED
    BY <2>3, <2>4
<1>7. RQ!LookupBaseuser(full)
      = IF is = {} THEN None ELSE <<SubSeq(full, 1, c), SubSeq(full, c + 2, n)>>
  BY DEF RQ!LookupBaseuser
<1> HIDE DEF is, c
<1>8. RQ!LookupBaseuser(full) = <<owner, w>>
  BY <1>1, <1>4, <1>6, <1>7
<1>. QED
  BY <1>8 DEF full

-----------------------------------------------------------------------------
(* What the message says of its length is before what it is the length of. *)
Headed(h, k, b) == <<2, h, k>> \o b

(* What is read of the two bytes of a message, and what follows them.      *)
HeadAndBody(m, h, k, b) ==
    /\ m[2] = h /\ m[3] = k /\ Len(m) - 3 = Len(b)
    /\ \A l \in 0..Len(b) : SubSeq(m, 4, l + 3) = SubSeq(b, 1, l)

(* What is read of a message that has two bytes and a length before it.    *)
LEMMA HeadedIs ==
    ASSUME NEW h \in Nat, NEW k \in Nat, NEW b \in Seq(Nat), NEW m, m = Headed(h, k, b)
    PROVE  HeadAndBody(m, h, k, b)
<1>1. PICK p : p = <<2, h, k>>
  OBVIOUS
<1>2. p \in Seq(Nat) /\ Len(p) = 3 /\ p[2] = h /\ p[3] = k
  BY <1>1
<1>3. p \in Seq(Nat)
  BY <1>2
<1>4. m = p \o b
  BY <1>1 DEF Headed
<1>5. /\ m \in Seq(Nat) /\ Len(m) = Len(p) + Len(b) /\ Len(b) \in Nat
      /\ \A j \in 1..Len(p) : m[j] = p[j]
      /\ \A j \in 1..Len(b) : m[Len(p) + j] = b[j]
  BY <1>3, <1>4, ConcatPlaces
<1>6. m[2] = h /\ m[3] = k /\ Len(m) - 3 = Len(b)
  BY <1>2, <1>5
<1>7. ASSUME NEW l \in 0..Len(b) PROVE SubSeq(m, 4, l + 3) = SubSeq(b, 1, l)
  <2>1. PICK x, y : x = SubSeq(m, 4, l + 3) /\ y = SubSeq(b, 1, l)
    OBVIOUS
  <2>2. y \in Seq(Nat) /\ Len(y) = l /\ \A j \in 1..l : y[j] = b[j]
    BY <2>1, FirstIs
  <2>3. m \in Seq(Nat) /\ l \in Nat /\ l + 3 <= Len(m)
    BY <1>2, <1>5
  <2>4. x = SubSeq(m, 4, l + 3)
    BY <2>1
  <2>5. x \in Seq(Nat) /\ Len(x) = l /\ \A j \in 1..l : x[j] = m[3 + j]
    <3>1. PICK z, f, a : z = l + 3 /\ f = 4 /\ a = 3
      OBVIOUS
    <3>2. Fits(m, a, z) /\ f = a + 1 /\ z - a = l
      BY <2>3, <3>1 DEF Fits
    <3>3. x = SubSeq(m, f, z)
      BY <2>4, <3>1
    <3>4. CutFrom(x, m, a, z)
      BY <3>2, <3>3, NumbersCut, Zenon
    <3>. QED
      BY <3>1, <3>2, <3>4 DEF CutFrom
  <2>6. ASSUME NEW j \in 1..l PROVE x[j] = y[j]
    <3>1. j \in 1..Len(b) /\ Len(p) = 3
      BY <1>2
    <3>2. m[3 + j] = b[j]
      BY <1>5, <3>1
    <3>. QED
      BY <2>2, <2>5, <3>2
  <2>. QED
    BY <2>1, <2>2, <2>5, <2>6, SeqEqual
<1>. QED
  BY <1>6, <1>7 DEF HeadAndBody

(* All of c can be said.                                                   *)
AllOf(c) == Len(c) - 1 <= MaxArgs /\ \A i \in DOMAIN c : Len(c[i]) < Base * Base

(* A client says all of a command or sends nothing.                        *)
LEMMA SentIs ==
    ASSUME RQ!RequestAssumption, NEW c \in Asks
    PROVE  LET Said(m) == \E h, k \in Nat : m = Headed(h, k, Body(Len(c) - 1, RQ!Encoded(c))) IN
           /\ RQ!BuildMsg(c) # <<>> => AllOf(c) /\ Said(RQ!BuildMsg(c))
           /\ AllOf(c) => RQ!PythonMsg(c) = <<>> \/ Said(RQ!PythonMsg(c))
           /\ AllOf(c) => Said(RQ!PhpMsg(c))
<1> DEFINE E == RQ!Encoded(c)
           z == Len(c) - 1
           body == Body(z, E)
           t == RQ!EncodeInt(Len(body))
           Said(m) == \E h, k \in Nat : m = Headed(h, k, body)
<1>1. c \in Words /\ c # <<>> /\ Len(c[1]) < Base * Base /\ MaxArgs \in Nat /\ Base \in Nat \ {0}
  BY RqSizes
<1>2. Len(c) \in Nat /\ Len(c) # 0 /\ z \in Nat /\ DOMAIN c = 1..Len(c)
  BY <1>1, EmptySeq, LenProperties DEF Words
<1>3. E \in Seq(Nat)
  BY <1>1, EncodedIs DEF Laid
<1>4. body = <<z>> \o E
  BY DEF Body
<1> HIDE DEF z, E
<1>5. body \in Seq(Nat) /\ Len(body) \in Nat
  <2>1. <<z>> \in Seq(Nat)
    BY <1>2
  <2>2. <<z>> \o E \in Seq(Nat)
    BY <1>3, <2>1, ConcatProperties
  <2>. QED
    BY <1>4, <2>2, LenProperties
<1> HIDE DEF body
<1>6. ASSUME NEW h \in Nat, NEW k \in Nat
      PROVE  <<2>> \o <<h, k>> \o body = Headed(h, k, body)
  <2>1. <<2>> \o <<h, k>> = <<2, h, k>>
    <3>1. PICK p, q, r : p = <<2>> /\ q = <<h, k>> /\ r = <<2, h, k>>
      OBVIOUS
    <3>2. p \in Seq(Nat) /\ q \in Seq(Nat)
      BY <3>1
    <3>3. /\ p \o q \in Seq(Nat) /\ Len(p \o q) = Len(p) + Len(q)
          /\ \A j \in 1..Len(p) : (p \o q)[j] = p[j]
          /\ \A j \in 1..Len(q) : (p \o q)[Len(p) + j] = q[j]
      BY <3>2, ConcatPlaces
    <3>4. PICK u : u = p \o q
      OBVIOUS
    <3>5. Len(p) = 1 /\ Len(q) = 2 /\ p[1] = 2 /\ q[1] = h /\ q[2] = k
      BY <3>1
    <3>6. u \in Seq(Nat) /\ Len(u) = 3 /\ u[1] = 2 /\ u[2] = h /\ u[3] = k
      BY <3>3, <3>4, <3>5
    <3>7. r \in Seq(Nat) /\ Len(r) = 3 /\ r[1] = 2 /\ r[2] = h /\ r[3] = k
      BY <3>1
    <3>8. \A j \in 1..3 : u[j] = r[j]
      BY <3>6, <3>7
    <3>. QED
      BY <3>1, <3>4, <3>6, <3>7, <3>8, SeqEqual
  <2>. QED
    BY <2>1 DEF Headed
<1>7. \E h, k \in Nat : t = <<h, k>>
  <2>1. PICK n : n = Len(body)
    OBVIOUS
  <2>2. PICK h, k : h = (n \div Base) % Base /\ k = n % Base
    OBVIOUS
  <2>3. h \in Nat /\ k \in Nat
    BY <1>1, <1>5, <2>1, <2>2
  <2>4. t = <<h, k>>
    BY <2>1, <2>2 DEF RQ!EncodeInt
  <2>. QED
    BY <2>3, <2>4
<1>8. Said(<<2>> \o t \o body)
  BY <1>6, <1>7
<1>9. \/ RQ!BuildMsg(c) = <<>>
      \/ RQ!BuildMsg(c) = <<2>> \o t \o body /\ ~(z > MaxArgs) /\ ~\E i \in 2..Len(c) : Len(c[i]) >= Base * Base
  BY <1>4 DEF RQ!BuildMsg, z, E
<1>10. RQ!PythonMsg(c) \in {<<>>, <<2>> \o t \o body}
  BY <1>4 DEF RQ!PythonMsg, z, E
<1> HIDE DEF t
<1>11. RQ!BuildMsg(c) # <<>> => AllOf(c)
  <2>1. SUFFICES ASSUME ~(z > MaxArgs), ~\E i \in 2..Len(c) : Len(c[i]) >= Base * Base
                 PROVE  AllOf(c)
    BY <1>9
  <2>2. \A i \in 1..Len(c) : Len(c[i]) \in Nat
    BY <1>1, ElementOfSeq, LenProperties DEF Words
  <2>3. Base * Base \in Nat
    BY <1>1
  <2>4. \A i \in 1..Len(c) : i = 1 \/ i \in 2..Len(c)
    BY <1>2
  <2>5. \A i \in 1..Len(c) : Len(c[i]) < Base * Base
    BY <1>1, <2>1, <2>2, <2>3, <2>4
  <2>6. z <= MaxArgs
    BY <1>1, <1>2, <2>1
  <2>. QED
    BY <1>2, <2>5, <2>6 DEF AllOf, z
<1>12. AllOf(c) => Said(RQ!PhpMsg(c))
  <2>1. SUFFICES ASSUME z <= MaxArgs PROVE Said(RQ!PhpMsg(c))
    BY DEF AllOf, z
  <2>2. z % (MaxArgs + 1) = z
    BY <1>1, <1>2, <2>1
  <2>3. PICK u : u = RQ!EncodeInt(Len(E))
    OBVIOUS
  <2>4. u \in Seq(Nat) /\ Len(u) = 2
    BY <1>3, <2>3, LenProperties, EncodeIntIs
  <2>5. PICK h, k : h = u[1] /\ k = (u[2] + 1) % Base
    OBVIOUS
  <2>6. h \in Nat /\ k \in Nat
    <3>1. u[1] \in Nat /\ u[2] \in Nat
      BY <2>4
    <3>. QED
      BY <1>1, <2>5, <3>1
  <2>7. RQ!PhpMsg(c) = <<2, h, k, z>> \o E
    BY <2>2, <2>3, <2>5 DEF RQ!PhpMsg, z, E
  <2>8. <<2, h, k, z>> = <<2, h, k>> \o <<z>>
    OBVIOUS
  <2>9. (<<2, h, k>> \o <<z>>) \o E = <<2, h, k>> \o (<<z>> \o E)
    <3>1. <<2, h, k>> \in Seq(Nat) /\ <<z>> \in Seq(Nat)
      BY <1>2, <2>6
    <3>. QED
      BY <1>3, <3>1, ConcatAssociative
  <2>10. RQ!PhpMsg(c) = Headed(h, k, body)
    BY <1>4, <2>7, <2>8, <2>9 DEF Headed
  <2>. QED
    BY <2>6, <2>10
<1>13. RQ!BuildMsg(c) # <<>> => Said(RQ!BuildMsg(c))
  BY <1>8, <1>9
<1>14. RQ!PythonMsg(c) = <<>> \/ Said(RQ!PythonMsg(c))
  BY <1>8, <1>10
<1> HIDE DEF Said
<1>15. /\ RQ!BuildMsg(c) # <<>> => AllOf(c) /\ Said(RQ!BuildMsg(c))
       /\ AllOf(c) => RQ!PythonMsg(c) = <<>> \/ Said(RQ!PythonMsg(c))
       /\ AllOf(c) => Said(RQ!PhpMsg(c))
  BY <1>11, <1>12, <1>13, <1>14
<1>. QED
  BY <1>15 DEF Said, body, z, E

(* Whatever of its body a message claims, what is decoded is the command.  *)
LEMMA ReceivedIs ==
    ASSUME RQ!RequestAssumption, NEW c \in Asks, AllOf(c), NEW h \in Nat, NEW k \in Nat,
           NEW m, m = Headed(h, k, Body(Len(c) - 1, RQ!Encoded(c))),
           m[2] * Base + m[3] <= Len(m) - 3
    PROVE  RQ!DecodeData(SubSeq(m, 4, (m[2] * Base + m[3]) + 3)) \in {None, c}
<1>1. PICK E, b, z : E = RQ!Encoded(c) /\ z = Len(c) - 1 /\ b = Body(z, E)
  OBVIOUS
<1>2. c \in Words /\ c # <<>> /\ Base \in Nat
  BY RqSizes
<1>3. Len(c) \in Nat /\ Len(c) # 0 /\ z \in Nat /\ DOMAIN c = 1..Len(c)
  BY <1>1, <1>2, EmptySeq, LenProperties DEF Words
<1>4. E \in Seq(Nat) /\ Len(E) \in Nat
  <2>1. E \in Seq(Nat)
    BY <1>1, <1>2, EncodedIs DEF Laid
  <2>. QED
    BY <2>1, LenProperties
<1>5. b \in Seq(Nat) /\ Len(b) = Len(E) + 1
  <2>1. PICK p : p = <<z>>
    OBVIOUS
  <2>2. p \in Seq(Nat) /\ Len(p) = 1
    BY <1>3, <2>1
  <2>3. p \in Seq(Nat)
    BY <2>2
  <2>4. p \o E \in Seq(Nat) /\ Len(p \o E) = Len(p) + Len(E)
    BY <1>4, <2>3, ConcatPlaces
  <2>5. b = p \o E
    BY <1>1, <2>1 DEF Body
  <2>. QED
    BY <1>4, <2>2, <2>4, <2>5
<1>6. m[2] = h /\ m[3] = k /\ Len(m) - 3 = Len(b)
      /\ \A l \in 0..Len(b) : SubSeq(m, 4, l + 3) = SubSeq(b, 1, l)
  <2>1. b \in Seq(Nat) /\ m = Headed(h, k, b)
    BY <1>1, <1>5
  <2>2. HeadAndBody(m, h, k, b)
    BY <2>1, HeadedIs, Zenon
  <2>. QED
    BY <2>2 DEF HeadAndBody
<1>7. PICK l : l = h * Base + k
  OBVIOUS
<1>8. l \in 0..Len(b)
  <2>1. l \in Nat
    BY <1>2, <1>7
  <2>2. l <= Len(b)
    BY <1>6, <1>7
  <2>. QED
    BY <1>4, <1>5, <2>1, <2>2
<1>9. \A i \in 1..Len(c) : Len(c[i]) < Base * Base
  BY <1>3 DEF AllOf
<1>10. RQ!DecodeData(SubSeq(b, 1, l)) \in {None, c}
  BY <1>1, <1>2, <1>4, <1>5, <1>8, <1>9, DecodeDataIs
<1>. QED
  BY <1>6, <1>7, <1>8, <1>10

(* The owner of a domain is a string.                                      *)
LEMMA OwnerType ==
    ASSUME RQ!RequestAssumption, sys \in Systems, NEW d
    PROVE  RQ!FindVirtual(d) \in Seq(Nat)
<1> DEFINE e == RQ!Lower(d)
           t(i) == SubSeq(e, i, Len(e))
           has(i) == /\ i = 1 \/ e[i] = RQ!Dot
                     /\ t(i) \in DOMAIN sys.virtual /\ sys.virtual[t(i)] # <<>>
           first == {i \in DOMAIN e : has(i) /\ \A j \in 1..i - 1 : ~has(j)}
           c == CHOOSE i \in first : TRUE
<1>1. RQ!FindVirtual(d) = IF first = {} THEN <<>> ELSE sys.virtual[t(c)]
  BY DEF RQ!FindVirtual
<1>2. \A x \in DOMAIN sys.virtual : sys.virtual[x] \in Seq(Nat)
  BY DEF RQ!RequestAssumption
<1>3. \A i \in first : t(i) \in DOMAIN sys.virtual
  OBVIOUS
<1> HIDE DEF first, t
<1>4. first # {} => c \in first
  OBVIOUS
<1>5. <<>> \in Seq(Nat)
  OBVIOUS
<1> HIDE DEF c
<1>. QED
  BY <1>1, <1>2, <1>3, <1>4, <1>5

(* The arguments after the account.                                        *)
LEMMA TailIs ==
    ASSUME NEW c \in Words, Len(c) >= 3, NEW a \in Seq(Nat), NEW f \in Seq(Nat)
    PROVE  LET w == <<a, f>> \o SubSeq(c, 4, Len(c)) IN
           /\ w[1] = a /\ w[2] = f
           /\ SubSeq(w, Len(w) - Len(c) + 4, Len(w)) = SubSeq(c, 4, Len(c))
<1>1. c \in Seq(Seq(Nat)) /\ Len(c) \in Nat
  BY LenProperties DEF Words
<1>2. PICK p : p = <<a, f>>
  OBVIOUS
<1>3. p \in Seq(Seq(Nat)) /\ Len(p) = 2 /\ p[1] = a /\ p[2] = f
  BY <1>2
<1>4. PICK m, k, n : m = 3 /\ n = Len(c) /\ k = n - 3
  OBVIOUS
<1>5. m \in Nat /\ n \in Nat /\ m <= n /\ n <= Len(c) /\ m + 1 = 4
  BY <1>1, <1>4
<1>6. SubSeq(c, m + 1, n) \in Seq(Seq(Nat)) /\ Len(SubSeq(c, m + 1, n)) = n - m
  BY <1>1, <1>5, CutIs
<1>7. PICK q : q = SubSeq(c, 4, Len(c))
  OBVIOUS
<1>8. q \in Seq(Seq(Nat)) /\ Len(q) = k
  BY <1>4, <1>5, <1>6, <1>7
<1>9. PICK w : w = p \o q
  OBVIOUS
<1>10. p \in Seq(Seq(Nat)) /\ q \in Seq(Seq(Nat))
  BY <1>3, <1>8
<1>11. Len(w) = Len(p) + Len(q) /\ \A j \in 1..Len(p) : w[j] = p[j]
  BY <1>9, <1>10, ConcatPlaces
<1>12. SubSeq(w, Len(p) + 1, Len(p) + Len(q)) = q
  BY <1>9, <1>10, JoinCut
<1>13. Len(w) - Len(c) + 4 = Len(p) + 1 /\ Len(w) = Len(p) + Len(q)
  BY <1>3, <1>4, <1>5, <1>8, <1>11
<1>14. w[1] = a /\ w[2] = f
  BY <1>3, <1>11
<1>15. SubSeq(w, Len(w) - Len(c) + 4, Len(w)) = q
  BY <1>12, <1>13
<1>16. w = <<a, f>> \o SubSeq(c, 4, Len(c))
  BY <1>2, <1>7, <1>9
<1>. QED
  BY <1>7, <1>14, <1>15, <1>16

(* The command that is carried out is that which was asked for, on the     *)
(* account that its user and domain come to.                               *)
Named ==
    /\ cmd[1] = asked[1]
    /\ SubSeq(cmd, Len(cmd) - Len(asked) + 4, Len(cmd)) = SubSeq(asked, 4, Len(asked))
    /\ Commands[cmd[1]].decode /\ asked[2] \notin sys.locals =>
         /\ RQ!FindVirtual(asked[2]) # <<>> /\ asked[3] \in Seq(Nat)
         /\ cmd[2] = Joined(RQ!FindVirtual(asked[2]), asked[3])

(* The inductive invariant of a request: whatever was sent, decoded and    *)
(* named is what was asked for, if all of that could be said.              *)
RqInv ==
    /\ sys \in Systems
    /\ stage # "idle" => asked \in Asks
    /\ stage = "sent" /\ (AllOf(asked) \/ by = "server_call") =>
         /\ AllOf(asked)
         /\ \E h, k \in Nat : msg = Headed(h, k, Body(Len(asked) - 1, RQ!Encoded(asked)))
    /\ stage = "decoded" /\ (AllOf(asked) \/ by = "server_call") => cmd = asked
    /\ stage \in {"named", "found"} /\ AllOf(asked) => Named
    /\ stage = "found" => user = RQ!LookupBaseuser(cmd[2])

(* All of a request's variables.                                           *)
RqVars == <<sys, asked, by, msg, cmd, user, stage>>

(* What is sent says what was asked.                                       *)
LEMMA RqSend ==
    ASSUME RQ!RequestAssumption, RqInv, RQ!Send
    PROVE  RqInv'
<1>1. sys \in Systems /\ sys' = sys /\ asked' \in Asks /\ stage' \in {"sent", "refused"}
  BY DEF RQ!Send, RqInv
<1>2. ASSUME stage' = "sent", AllOf(asked') \/ by' = "server_call"
      PROVE  /\ AllOf(asked')
             /\ \E h, k \in Nat : msg' = Headed(h, k, Body(Len(asked') - 1, RQ!Encoded(asked')))
  <2>1. msg' # <<>>
    BY <1>2 DEF RQ!Send
  <2>2. PICK c \in Asks : c = asked'
    BY <1>1
  <2> DEFINE Said(m) == \E h, k \in Nat : m = Headed(h, k, Body(Len(c) - 1, RQ!Encoded(c)))
  <2>3. /\ RQ!BuildMsg(c) # <<>> => AllOf(c) /\ Said(RQ!BuildMsg(c))
        /\ AllOf(c) => RQ!PythonMsg(c) = <<>> \/ Said(RQ!PythonMsg(c))
        /\ AllOf(c) => Said(RQ!PhpMsg(c))
    BY SentIs
  <2>4. \/ by' = "server_call" /\ msg' = RQ!BuildMsg(c)
        \/ by' = "python" /\ msg' = RQ!PythonMsg(c)
        \/ by' = "php" /\ msg' = RQ!PhpMsg(c)
    BY <2>2 DEF RQ!Send
  <2>5. AllOf(c) \/ by' = "server_call"
    BY <1>2, <2>2
  <2> HIDE DEF Said
  <2>6. AllOf(c) /\ Said(msg')
    BY <2>1, <2>3, <2>4, <2>5
  <2>. QED
    BY <2>2, <2>6 DEF Said
<1>. QED
  BY <1>1, <1>2 DEF RqInv

(* What is decoded is what was sent.                                       *)
LEMMA RqDecode ==
    ASSUME RQ!RequestAssumption, RqInv, RQ!Decode
    PROVE  RqInv'
<1>1. sys \in Systems /\ sys' = sys /\ asked \in Asks /\ asked' = asked /\ by' = by /\ stage = "sent"
      /\ stage' \in {"decoded", "refused"}
  BY DEF RQ!Decode, RqInv
<1>2. ASSUME stage' = "decoded", AllOf(asked) \/ by = "server_call" PROVE cmd' = asked
  <2>1. AllOf(asked) /\ \E h, k \in Nat : msg = Headed(h, k, Body(Len(asked) - 1, RQ!Encoded(asked)))
    BY <1>1, <1>2 DEF RqInv
  <2>2. PICK h \in Nat, k \in Nat : msg = Headed(h, k, Body(Len(asked) - 1, RQ!Encoded(asked)))
    BY <2>1
  <2>3. PICK l : l = msg[2] * Base + msg[3]
    OBVIOUS
  <2>4. ~(l > Len(msg) - 3) /\ cmd' = RQ!DecodeData(SubSeq(msg, 4, l + 3)) /\ cmd' # None
    BY <1>2, <2>3 DEF RQ!Decode
  <2>5. PICK E, b, n : E = RQ!Encoded(asked) /\ n = Len(asked) - 1 /\ b = Body(n, E)
    OBVIOUS
  <2>6. b \in Seq(Nat)
    <3>1. asked \in Words /\ asked # <<>>
      BY <1>1, RqSizes
    <3>2. E \in Seq(Nat)
      BY <2>5, <3>1, EncodedIs DEF Laid
    <3>3. n \in Nat
      BY <2>5, <3>1, EmptySeq, LenProperties DEF Words
    <3>4. <<n>> \in Seq(Nat)
      BY <3>3
    <3>5. <<n>> \o E \in Seq(Nat)
      BY <3>2, <3>4, ConcatProperties
    <3>. QED
      BY <2>5, <3>5 DEF Body
  <2>7. l \in Nat /\ Len(msg) - 3 \in Nat
    <3>1. msg[2] = h /\ msg[3] = k /\ Len(msg) - 3 = Len(b)
      <4>1. msg = Headed(h, k, b)
        BY <2>2, <2>5
      <4>2. HeadAndBody(msg, h, k, b)
        BY <2>6, <4>1, HeadedIs, Zenon
      <4>. QED
        BY <4>2 DEF HeadAndBody
    <3>2. Base \in Nat /\ Len(b) \in Nat
      BY <2>6, RqSizes, LenProperties
    <3>. QED
      BY <2>3, <3>1, <3>2
  <2>8. l <= Len(msg) - 3
    BY <2>4, <2>7
  <2>9. RQ!DecodeData(SubSeq(msg, 4, l + 3)) \in {None, asked}
    BY <1>1, <2>1, <2>2, <2>3, <2>8, ReceivedIs
  <2>. QED
    BY <2>4, <2>9
<1>. QED
  BY <1>1, <1>2 DEF RqInv

(* The account named in the command is that of the domain and user asked   *)
(* for.                                                                    *)
LEMMA RqDispatch ==
    ASSUME RQ!RequestAssumption, RqInv, RQ!Dispatch
    PROVE  RqInv'
<1>1. sys \in Systems /\ sys' = sys /\ asked \in Asks /\ asked' = asked /\ stage = "decoded"
      /\ stage' \in {"named", "refused"}
  BY DEF RQ!Dispatch, RqInv
<1>2. ASSUME stage' = "named", AllOf(asked) PROVE Named'
  <2>1. cmd = asked
    BY <1>1, <1>2 DEF RqInv
  <2>2. PICK n, e, owner : n = Len(cmd) - 1 /\ owner = RQ!FindVirtual(cmd[2]) /\ e = Commands[cmd[1]]
    OBVIOUS
  <2>3. /\ cmd[1] \in DOMAIN Commands /\ ~(n < e.min)
        /\ \/ ~e.decode /\ cmd' = cmd
           \/ e.decode /\ cmd[2] \in sys.locals
              /\ cmd' = <<cmd[1], cmd[3]>> \o SubSeq(cmd, 4, Len(cmd))
           \/ e.decode /\ cmd[2] \notin sys.locals /\ owner # <<>>
              /\ cmd' = <<cmd[1], Joined(owner, cmd[3])>> \o SubSeq(cmd, 4, Len(cmd))
    BY <1>2, <2>2 DEF RQ!Dispatch, Joined
  <2>4. cmd \in Words /\ cmd # <<>> /\ Len(cmd) \in Nat /\ n \in Nat
    <3>1. cmd \in Words /\ cmd # <<>>
      BY <1>1, <2>1, RqSizes
    <3>. QED
      BY <2>2, <3>1, EmptySeq, LenProperties DEF Words
  <2>5. e.min \in Nat \ {0, 1}
    BY <2>2, <2>3 DEF RQ!RequestAssumption
  <2>6. Len(cmd) >= 3
    BY <2>2, <2>3, <2>4, <2>5
  <2>7. cmd[1] \in Seq(Nat) /\ cmd[3] \in Seq(Nat) /\ owner \in Seq(Nat)
    <3>1. 1 \in 1..Len(cmd) /\ 3 \in 1..Len(cmd)
      BY <2>4, <2>6
    <3>. QED
      BY <1>1, <2>2, <2>4, <3>1, ElementOfSeq, OwnerType DEF Words
  <2>8. RQ!FindVirtual(asked[2])' = RQ!FindVirtual(asked[2])
    BY <1>1 DEF RQ!FindVirtual
  <2>9. CASE ~e.decode /\ cmd' = cmd
    <3>1. (Len(cmd) - Len(cmd)) + 4 = 4
      BY <2>4
    <3>. QED
      BY <1>1, <2>1, <2>2, <2>9, <3>1 DEF Named
  <2>10. CASE e.decode /\ cmd[2] \in sys.locals /\ cmd' = <<cmd[1], cmd[3]>> \o SubSeq(cmd, 4, Len(cmd))
    <3>1. PICK f : f = cmd[3]
      OBVIOUS
    <3>2. /\ cmd'[1] = cmd[1]
          /\ SubSeq(cmd', Len(cmd') - Len(cmd) + 4, Len(cmd')) = SubSeq(cmd, 4, Len(cmd))
      <4>1. f \in Seq(Nat) /\ cmd[1] \in Seq(Nat) /\ cmd' = <<cmd[1], f>> \o SubSeq(cmd, 4, Len(cmd))
        BY <2>7, <2>10, <3>1
      <4>. QED
        BY <2>4, <2>6, <4>1, TailIs
    <3>. QED
      BY <1>1, <2>1, <2>10, <3>2 DEF Named
  <2>11. CASE e.decode /\ cmd[2] \notin sys.locals /\ owner # <<>>
              /\ cmd' = <<cmd[1], Joined(owner, cmd[3])>> \o SubSeq(cmd, 4, Len(cmd))
    <3>1. PICK f : f = Joined(owner, cmd[3])
      OBVIOUS
    <3>2. /\ cmd'[1] = cmd[1] /\ cmd'[2] = f
          /\ SubSeq(cmd', Len(cmd') - Len(cmd) + 4, Len(cmd')) = SubSeq(cmd, 4, Len(cmd))
      <4>1. f \in Seq(Nat) /\ cmd[1] \in Seq(Nat) /\ cmd' = <<cmd[1], f>> \o SubSeq(cmd, 4, Len(cmd))
        BY <2>7, <2>11, <3>1, JoinedIs
      <4>. QED
        BY <2>4, <2>6, <4>1, TailIs
    <3>3. cmd'[2] = Joined(RQ!FindVirtual(asked[2]), asked[3]) /\ RQ!FindVirtual(asked[2]) # <<>>
      BY <2>1, <2>2, <2>11, <3>1, <3>2
    <3>. QED
      BY <1>1, <2>1, <2>7, <2>8, <3>2, <3>3 DEF Named
  <2>. QED
    BY <2>3, <2>9, <2>10, <2>11
<1>. QED
  BY <1>1, <1>2 DEF RqInv

(* The account that is named is looked up.                                 *)
LEMMA RqFind ==
    ASSUME RQ!RequestAssumption, RqInv, RQ!Find
    PROVE  RqInv'
<1>1. sys \in Systems /\ sys' = sys /\ asked \in Asks /\ asked' = asked /\ stage = "named" /\ cmd' = cmd
      /\ stage' \in {"found", "refused"} /\ user' = RQ!LookupBaseuser(cmd[2])
  BY DEF RQ!Find, RqInv
<1>2. AllOf(asked) => Named
  BY <1>1 DEF RqInv
<1>3. RQ!FindVirtual(asked[2])' = RQ!FindVirtual(asked[2])
  BY <1>1 DEF RQ!FindVirtual
<1>4. Named' <=> Named
  BY <1>1, <1>3 DEF Named
<1>5. RQ!LookupBaseuser(cmd[2])' = RQ!LookupBaseuser(cmd[2])
  BY <1>1 DEF RQ!LookupBaseuser
<1>. QED
  BY <1>1, <1>2, <1>4, <1>5 DEF RqInv

(* Every step of a request keeps the invariant.                            *)
LEMMA RqNext ==
    ASSUME RQ!RequestAssumption, RqInv, [RQ!Next]_RqVars
    PROVE  RqInv'
<1>1. CASE RQ!Send
  BY <1>1, RqSend
<1>2. CASE RQ!Decode
  BY <1>2, RqDecode
<1>3. CASE RQ!Dispatch
  BY <1>3, RqDispatch
<1>4. CASE RQ!Find
  BY <1>4, RqFind
<1>5. CASE RQ!Answer
  BY <1>5 DEF RQ!Answer, RqInv
<1>6. CASE UNCHANGED RqVars
  <2>1. /\ RQ!FindVirtual(asked[2])' = RQ!FindVirtual(asked[2])
        /\ RQ!LookupBaseuser(cmd[2])' = RQ!LookupBaseuser(cmd[2])
    BY <1>6 DEF RqVars, RQ!FindVirtual, RQ!LookupBaseuser
  <2>2. Named' <=> Named
    BY <1>6, <2>1 DEF Named, RqVars
  <2>. QED
    BY <1>6, <2>1, <2>2 DEF RqInv, RqVars
<1>. QED
  BY <1>1, <1>2, <1>3, <1>4, <1>5, <1>6 DEF RQ!Next

(* The invariant says what the property says.                              *)
LEMMA RqMeans ==
    ASSUME RQ!RequestAssumption, RqInv
    PROVE  RQ!RequestAsMeant
<1> DEFINE owner == RQ!FindVirtual(asked[2])
<1>1. ASSUME stage = "decoded", AllOf(asked) \/ by = "server_call" PROVE cmd = asked
  BY <1>1 DEF RqInv
<1>2. ASSUME stage = "found", AllOf(asked)
      PROVE  SubSeq(cmd, Len(cmd) - Len(asked) + 4, Len(cmd)) = SubSeq(asked, 4, Len(asked))
  BY <1>2 DEF RqInv, Named
<1>3. ASSUME stage = "found", AllOf(asked), Commands[cmd[1]].decode, asked[2] \notin sys.locals,
             RQ!Lower(owner) \in sys.users, ~Hidden(owner, cmd[2])
      PROVE  user = <<owner, asked[3]>>
  <2>1. /\ owner # <<>> /\ asked[3] \in Seq(Nat) /\ cmd[2] = Joined(owner, asked[3])
        /\ user = RQ!LookupBaseuser(cmd[2]) /\ sys \in Systems
    BY <1>3 DEF RqInv, Named
  <2>2. owner \in Seq(Nat)
    BY <2>1, OwnerType
  <2>3. PICK o, w : o = owner /\ w = asked[3]
    OBVIOUS
  <2> HIDE DEF owner
  <2>4. RQ!LookupBaseuser(Joined(o, w)) = <<o, w>>
    BY <1>3, <2>1, <2>2, <2>3, LookupIs
  <2>. QED
    BY <2>1, <2>3, <2>4
<1>. QED
  BY <1>1, <1>2, <1>3 DEF RQ!RequestAsMeant, AllOf, Hidden

(* A request that has not been made satisfies the invariant.               *)
LEMMA RqInit ==
    ASSUME RQ!RequestAssumption, RQ!Init
    PROVE  RqInv
BY DEF RQ!Init, RqInv

(* Any command that a client of any of the three kinds sends is carried    *)
(* out as it was meant or not at all, for any commands, accounts and sizes *)
(* of bytes: what is decoded is the command that was encoded, although the *)
(* daemon believes the lengths in the message, and the account found is    *)
(* that of the domain and the user it names (server_call_send, decode2,    *)
(* decode_string, command::operator(), domain::baseuser).                  *)
THEOREM RequestsAreAsMeant ==
    ASSUME RQ!RequestAssumption
    PROVE  RQ!Spec => []RQ!RequestAsMeant
<1>1. RQ!Init => RqInv
  BY RqInit
<1>2. RqInv /\ [RQ!Next]_RqVars => RqInv'
  BY RqNext
<1>3. RqInv => RQ!RequestAsMeant
  BY RqMeans
<1>. QED
  BY <1>1, <1>2, <1>3, PTL DEF RQ!Spec, RQ!vars, RqVars

-----------------------------------------------------------------------------
(* The hash table *)

(* The remainder of a number that is a multiple and a little more.         *)
LEMMA Divided ==
    ASSUME NEW b \in Nat \ {0}, NEW q \in Nat, NEW r \in 0..b - 1
    PROVE  (b * q + r) % b = r
OBVIOUS

(* From any hash on, p probes in a row meet every slot.                    *)
LEMMA EverySlot ==
    ASSUME NEW p \in Nat \ {0}, NEW h \in Nat, NEW s \in 0..p - 1
    PROVE  \E i \in 0..p - 1 : (h + i) % p = s
<1>1. PICK q \in Nat, r \in 0..p - 1 : h = p * q + r
  <2>1. PICK q, r : q = h \div p /\ r = h % p
    OBVIOUS
  <2>2. h = p * q + r /\ q \in Nat /\ r \in 0..p - 1
    BY <2>1
  <2>. QED
    BY <2>2
<1>2. CASE s >= r
  <2>1. s - r \in 0..p - 1 /\ h + (s - r) = p * q + s
    BY <1>1, <1>2
  <2>2. (p * q + s) % p = s
    BY <1>1, Divided
  <2>. QED
    BY <2>1, <2>2
<1>3. CASE ~(s >= r)
  <2>1. (s + p) - r \in 0..p - 1 /\ h + ((s + p) - r) = (p * q + p) + s
    BY <1>1, <1>3
  <2>2. p * q + p = p * (q + 1) /\ q + 1 \in Nat
    BY <1>1
  <2>3. (p * (q + 1) + s) % p = s
    BY <2>2, Divided
  <2>. QED
    BY <2>1, <2>2, <2>3
<1>. QED
  BY <1>2, <1>3

-----------------------------------------------------------------------------
(* The hash table.                                                         *)

(* Entries and tables of p slots.                                          *)
Entries == [key : Keys, data : Values]
Tables(p) == [0..p - 1 -> Entries \cup {None}]

(* The slot that is probed for k after i others; where the search for k    *)
(* ends; the slots in use.                                                 *)
Slot(k, i, p) == (hash[k] + i) % p
Ends(t, k, s) == t[s] = None \/ t[s].key = k
Used(t) == {s \in DOMAIN t : t[s] # None}

(* The sizes of the tables grow, and None is no entry.                     *)
LEMMA HtSizes ==
    ASSUME HT!HashTableAssumption
    PROVE  /\ \A i \in 1..Len(Primes) : Primes[i] \in Nat \ {0}
           /\ \A i \in 1..Len(Primes) - 1 : Primes[i] < Primes[i + 1]
           /\ Len(Primes) \in Nat /\ 1 \in 1..Len(Primes)
           /\ None \notin Entries /\ Hashes \subseteq Nat
<1>1. Primes \in Seq(Nat \ {0}) /\ Primes # <<>>
  BY DEF HT!HashTableAssumption
<1>2. Len(Primes) \in Nat /\ Len(Primes) # 0
  BY <1>1, EmptySeq, LenProperties
<1>3. \A i \in 1..Len(Primes) : Primes[i] \in Nat \ {0}
  BY <1>1, ElementOfSeq
<1>. QED
  BY <1>2, <1>3 DEF HT!HashTableAssumption, Entries

(* The slots that are probed for k are all the slots.                      *)
LEMMA Slots ==
    ASSUME HT!HashTableAssumption, hash \in [Keys -> Hashes], NEW p \in Nat \ {0}, NEW k \in Keys
    PROVE  /\ \A i \in 0..p - 1 : Slot(k, i, p) \in 0..p - 1
           /\ \A s \in 0..p - 1 : \E i \in 0..p - 1 : Slot(k, i, p) = s
<1>1. hash[k] \in Nat
  BY HtSizes
<1>2. \A i \in 0..p - 1 : (hash[k] + i) % p \in 0..p - 1
  BY <1>1
<1>3. \A s \in 0..p - 1 : \E i \in 0..p - 1 : (hash[k] + i) % p = s
  BY <1>1, EverySlot
<1>. QED
  BY <1>2, <1>3 DEF Slot

(* HashTable takes Cardinality from the same module.                       *)
LEMMA SameCardinality == \A s : HT!Cardinality(s) = Cardinality(s)
BY DEF HT!Cardinality, Cardinality

(* A table has as many slots as its prime, and no more in use.             *)
LEMMA TableSize ==
    ASSUME NEW p \in Nat \ {0}, NEW t \in Tables(p)
    PROVE  DOMAIN t = 0..p - 1 /\ Cardinality(DOMAIN t) = p /\ IsFiniteSet(DOMAIN t)
           /\ IsFiniteSet(Used(t)) /\ Cardinality(Used(t)) \in 0..p
           /\ (Cardinality(Used(t)) = p => Used(t) = DOMAIN t)
<1>1. DOMAIN t = 0..p - 1
  BY DEF Tables
<1>2. IsFiniteSet(0..p - 1) /\ Cardinality(0..p - 1) = p
  <2>1. 0 \in Int /\ p - 1 \in Int /\ ~(0 > p - 1) /\ (p - 1) - 0 + 1 = p
    OBVIOUS
  <2>. QED
    BY <2>1, FS_Interval
<1>3. Used(t) \in SUBSET (0..p - 1)
  BY <1>1 DEF Used
<1>4. /\ IsFiniteSet(Used(t)) /\ Cardinality(Used(t)) <= p
      /\ Cardinality(Used(t)) = p => Used(t) = 0..p - 1
  BY <1>2, <1>3, FS_Subset
<1>5. Cardinality(Used(t)) \in Nat
  BY <1>4, FS_CardinalityType
<1>. QED
  BY <1>1, <1>2, <1>4, <1>5

(* The search ends where it first can, if a slot is free.                  *)
LEMMA LookupEnds ==
    ASSUME HT!HashTableAssumption, hash \in [Keys -> Hashes],
           NEW p \in Nat \ {0}, NEW t \in Tables(p), NEW k \in Keys, Cardinality(Used(t)) < p
    PROVE  \E i \in 0..p - 1 :
             /\ HT!Lookup(t, k) = Slot(k, i, p)
             /\ Ends(t, k, Slot(k, i, p)) /\ \A j \in 0..i - 1 : ~Ends(t, k, Slot(k, j, p))
<1> DEFINE I == {i \in 0..p - 1 : Ends(t, k, Slot(k, i, p))}
           first(i) == Ends(t, k, Slot(k, i, p)) /\ \A j \in 0..i - 1 : ~Ends(t, k, Slot(k, j, p))
           c == CHOOSE i \in 0..p - 1 : first(i)
<1>1. DOMAIN t = 0..p - 1 /\ Cardinality(DOMAIN t) = p /\ Used(t) # DOMAIN t
  <2>1. Cardinality(Used(t)) \in 0..p
    BY TableSize
  <2>. QED
    BY <2>1, TableSize
<1>2. PICK s \in 0..p - 1 : t[s] = None
  BY <1>1 DEF Used
<1>3. PICK n \in 0..p - 1 : Slot(k, n, p) = s
  BY Slots
<1>4. n \in I
  BY <1>2, <1>3 DEF Ends
<1>5. PICK i \in I : \A j \in I : i <= j
  <2>1. I \subseteq Nat /\ I # {}
    BY <1>4
  <2> HIDE DEF I
  <2>. QED
    BY <2>1, LeastOf
<1>6. i \in 0..p - 1 /\ first(i)
  <2>1. \A j \in 0..i - 1 : j \notin I /\ j \in 0..p - 1
    BY <1>5
  <2>. QED
    BY <1>5, <2>1
<1>7. HT!Lookup(t, k) = Slot(k, c, p)
  BY <1>1, SameCardinality, Zenon DEF HT!Lookup, Slot, Ends
<1> HIDE DEF first
<1>8. c \in 0..p - 1 /\ first(c)
  BY <1>6
<1> HIDE DEF c
<1>. QED
  BY <1>7, <1>8 DEF first

(* What a table of p slots says is the map m.                              *)
Holds(t, p, m) ==
    /\ DOMAIN m \subseteq Keys
    /\ \A s \in 0..p - 1 : t[s] # None => t[s].key \in DOMAIN m /\ t[s].data = m[t[s].key]
    /\ \A s1, s2 \in 0..p - 1 :
         t[s1] # None /\ t[s2] # None /\ t[s1].key = t[s2].key => s1 = s2
    /\ \A k \in DOMAIN m : \E i \in 0..p - 1 :
         /\ t[Slot(k, i, p)] # None /\ t[Slot(k, i, p)].key = k
         /\ \A j \in 0..i - 1 : ~Ends(t, k, Slot(k, j, p))

(* In a table that holds a map the search finds the key, or a free slot if *)
(* the map has none.                                                       *)
LEMMA LookupFinds ==
    ASSUME HT!HashTableAssumption, hash \in [Keys -> Hashes], NEW p \in Nat \ {0},
           NEW t \in Tables(p), NEW k \in Keys, Cardinality(Used(t)) < p, NEW m, Holds(t, p, m)
    PROVE  LET s == HT!Lookup(t, k) IN
           /\ s \in 0..p - 1
           /\ k \in DOMAIN m => t[s] # None /\ t[s].key = k /\ t[s].data = m[k]
           /\ k \notin DOMAIN m => t[s] = None
<1>1. PICK i \in 0..p - 1 :
        /\ HT!Lookup(t, k) = Slot(k, i, p)
        /\ Ends(t, k, Slot(k, i, p)) /\ \A j \in 0..i - 1 : ~Ends(t, k, Slot(k, j, p))
  BY LookupEnds
<1>2. PICK s : s = Slot(k, i, p)
  OBVIOUS
<1>3. s \in 0..p - 1 /\ HT!Lookup(t, k) = s /\ (t[s] = None \/ t[s].key = k)
  BY <1>1, <1>2, Slots DEF Ends
<1>4. k \notin DOMAIN m => t[s] = None
  BY <1>3 DEF Holds
<1>5. ASSUME k \in DOMAIN m PROVE t[s] # None /\ t[s].key = k /\ t[s].data = m[k]
  <2>1. PICK l \in 0..p - 1 :
          /\ t[Slot(k, l, p)] # None /\ t[Slot(k, l, p)].key = k
          /\ \A j \in 0..l - 1 : ~Ends(t, k, Slot(k, j, p))
    BY <1>5 DEF Holds
  <2>2. ~(l < i) /\ ~(i < l)
    <3>1. Ends(t, k, Slot(k, l, p))
      BY <2>1 DEF Ends
    <3>2. l < i => l \in 0..i - 1
      OBVIOUS
    <3>3. i < l => i \in 0..l - 1
      OBVIOUS
    <3>. QED
      BY <1>1, <2>1, <3>1, <3>2, <3>3
  <2>3. l = i
    BY <2>2
  <2>4. t[s] # None /\ t[s].key = k
    BY <1>2, <2>1, <2>3
  <2>. QED
    BY <1>3, <2>4 DEF Holds
<1>. QED
  BY <1>3, <1>4, <1>5

(* The map with one key set, an entry, and a table with one slot set.      *)
With(m, k, v) == [x \in DOMAIN m \cup {k} |-> IF x = k THEN v ELSE m[x]]
Entry(k, v) == [key |-> k, data |-> v]

Put(t, s, e) == [t EXCEPT ![s] = e]

(* Writing a slot counts it once.                                          *)
LEMMA Written ==
    ASSUME HT!HashTableAssumption, NEW p \in Nat \ {0}, NEW t \in Tables(p),
           NEW s \in 0..p - 1, NEW e \in Entries, NEW w, w = Put(t, s, e)
    PROVE  /\ w \in Tables(p) /\ w[s] = e /\ \A x \in 0..p - 1 : x # s => w[x] = t[x]
           /\ Cardinality(Used(w)) = IF t[s] = None THEN Cardinality(Used(t)) + 1
                                     ELSE Cardinality(Used(t))
<1>1. w \in Tables(p) /\ w[s] = e /\ \A x \in 0..p - 1 : x # s => w[x] = t[x]
  BY DEF Tables, Put
<1>2. DOMAIN w = 0..p - 1 /\ DOMAIN t = 0..p - 1 /\ e # None
  BY <1>1, HtSizes DEF Tables
<1>3. Used(w) = Used(t) \cup {s}
  BY <1>1, <1>2 DEF Used
<1>4. s \in Used(t) <=> t[s] # None
  BY <1>2 DEF Used
<1>5. Cardinality(Used(w)) = IF s \in Used(t) THEN Cardinality(Used(t)) ELSE Cardinality(Used(t)) + 1
  BY <1>3, TableSize, FS_AddElement
<1>. QED
  BY <1>1, <1>4, <1>5

(* base_insert counts a slot when it takes a free one.                     *)
LEMMA InsertCounts ==
    ASSUME HT!HashTableAssumption, hash \in [Keys -> Hashes], NEW p \in Nat \ {0},
           NEW t \in Tables(p), NEW c, c = Cardinality(Used(t)), c < p,
           NEW k \in Keys, NEW v \in Values, NEW unique \in BOOLEAN, NEW h,
           h = HT!BaseInsert([table |-> t, count |-> c], Entry(k, v), unique)
    PROVE  /\ h.table \in Tables(p) /\ h.count = Cardinality(Used(h.table)) /\ h.count \in c..c + 1
<1>1. PICK s : s = HT!Lookup(t, k)
  OBVIOUS
<1>2. s \in 0..p - 1
  <2>1. PICK i \in 0..p - 1 : s = Slot(k, i, p)
    BY <1>1, LookupEnds
  <2>. QED
    BY <2>1, Slots
<1>3. PICK e : e = Entry(k, v)
  OBVIOUS
<1>4. e \in Entries /\ e.key = k
  BY <1>3 DEF Entry, Entries
<1>5. PICK w : w = Put(t, s, e)
  OBVIOUS
<1>6. /\ w \in Tables(p)
      /\ Cardinality(Used(w)) = IF t[s] = None THEN c + 1 ELSE c
  BY <1>2, <1>4, <1>5, Written
<1>7. HT!BaseInsert([table |-> t, count |-> c], e, unique)
      = IF t[s] = None THEN [table |-> w, count |-> c + 1]
        ELSE IF unique THEN [table |-> t, count |-> c] ELSE [table |-> w, count |-> c]
  BY <1>1, <1>4, <1>5 DEF HT!BaseInsert, Put
<1>8. c \in Nat
  BY TableSize
<1>. QED
  BY <1>3, <1>6, <1>7, <1>8

(* After base_insert the table holds the map with the key set, or the old  *)
(* one if only new keys may be set.                                        *)
LEMMA InsertHolds ==
    ASSUME HT!HashTableAssumption, hash \in [Keys -> Hashes], NEW p \in Nat \ {0},
           NEW t \in Tables(p), NEW c, Cardinality(Used(t)) < p, NEW m, Holds(t, p, m),
           NEW k \in Keys, NEW v \in Values, NEW unique \in BOOLEAN, NEW h,
           h = HT!BaseInsert([table |-> t, count |-> c], Entry(k, v), unique)
    PROVE  Holds(h.table, p, IF unique /\ k \in DOMAIN m THEN m ELSE With(m, k, v))
<1>1. PICK i \in 0..p - 1 :
        /\ HT!Lookup(t, k) = Slot(k, i, p)
        /\ Ends(t, k, Slot(k, i, p)) /\ \A j \in 0..i - 1 : ~Ends(t, k, Slot(k, j, p))
  BY LookupEnds
<1>2. PICK s : s = Slot(k, i, p)
  OBVIOUS
<1>3. /\ s \in 0..p - 1
      /\ k \in DOMAIN m => t[s] # None /\ t[s].key = k
      /\ k \notin DOMAIN m => t[s] = None
  BY <1>1, <1>2, LookupFinds
<1>4. PICK e : e = Entry(k, v)
  OBVIOUS
<1>5. e \in Entries /\ e.key = k /\ e.data = v /\ e # None
  BY <1>4, HtSizes DEF Entry, Entries
<1>6. PICK w : w = Put(t, s, e)
  OBVIOUS
<1>7. w[s] = e /\ \A x \in 0..p - 1 : x # s => w[x] = t[x]
  BY <1>3, <1>5, <1>6, Written
<1>8. PICK n : n = With(m, k, v)
  OBVIOUS
<1>9. DOMAIN n = DOMAIN m \cup {k} /\ n[k] = v /\ \A x \in DOMAIN m : x # k => n[x] = m[x]
  BY <1>8 DEF With
<1>10. \A x \in Keys : \A j \in 0..p - 1 : Slot(x, j, p) \in 0..p - 1
  BY Slots
<1>11. Holds(w, p, n)
  <2>1. ASSUME NEW x \in 0..p - 1, w[x] # None
        PROVE  w[x].key \in DOMAIN n /\ w[x].data = n[w[x].key]
    <3>1. CASE x = s
      BY <1>5, <1>7, <1>9, <3>1
    <3>2. CASE x # s
      <4>1. w[x] = t[x] /\ t[x].key \in DOMAIN m /\ t[x].data = m[t[x].key]
        BY <1>7, <2>1, <3>2 DEF Holds
      <4>2. t[x].key # k
        BY <1>3, <1>7, <2>1, <3>2, <4>1 DEF Holds
      <4>. QED
        BY <1>9, <4>1, <4>2
    <3>. QED
      BY <3>1, <3>2
  <2>2. ASSUME NEW x \in 0..p - 1, NEW y \in 0..p - 1, w[x] # None, w[y] # None, w[x].key = w[y].key
        PROVE  x = y
    <3>1. ASSUME NEW z \in 0..p - 1, z # s, w[z] # None PROVE w[z].key # k
      <4>1. w[z] = t[z] /\ t[z].key \in DOMAIN m
        BY <1>7, <3>1 DEF Holds
      <4>. QED
        BY <1>3, <3>1, <4>1 DEF Holds
    <3>2. w[s].key = k
      BY <1>5, <1>7
    <3>3. CASE x = s \/ y = s
      BY <2>2, <3>1, <3>2, <3>3
    <3>4. CASE x # s /\ y # s
      <4>1. w[x] = t[x] /\ w[y] = t[y]
        BY <1>7, <3>4
      <4>. QED
        BY <2>2, <4>1 DEF Holds
    <3>. QED
      BY <3>3, <3>4
  <2>3. ASSUME NEW x \in DOMAIN n
        PROVE  \E l \in 0..p - 1 :
                 /\ w[Slot(x, l, p)] # None /\ w[Slot(x, l, p)].key = x
                 /\ \A j \in 0..l - 1 : ~Ends(w, x, Slot(x, j, p))
    <3>1. CASE x = k
      <4>1. w[Slot(x, i, p)] # None /\ w[Slot(x, i, p)].key = x
        BY <1>2, <1>5, <1>7, <3>1
      <4>2. ASSUME NEW j \in 0..i - 1 PROVE ~Ends(w, x, Slot(x, j, p))
        <5>1. PICK y : y = Slot(k, j, p)
          OBVIOUS
        <5>2. y \in 0..p - 1 /\ t[y] # None /\ t[y].key # k
          <6>1. j \in 0..p - 1 /\ k \in Keys
            OBVIOUS
          <6>. QED
            BY <1>1, <1>10, <5>1, <6>1 DEF Ends
        <5>3. y # s
          BY <1>3, <5>2
        <5>4. w[y] = t[y]
          BY <1>7, <5>2, <5>3
        <5>. QED
          BY <3>1, <5>1, <5>2, <5>4 DEF Ends
      <4>. QED
        BY <4>1, <4>2
    <3>2. CASE x # k
      <4>1. x \in DOMAIN m /\ x \in Keys
        BY <1>9, <3>2 DEF Holds
      <4>2. PICK l \in 0..p - 1 :
              /\ t[Slot(x, l, p)] # None /\ t[Slot(x, l, p)].key = x
              /\ \A j \in 0..l - 1 : ~Ends(t, x, Slot(x, j, p))
        BY <4>1 DEF Holds
      <4>3. PICK y : y = Slot(x, l, p)
        OBVIOUS
      <4>4. y # s /\ w[y] = t[y]
        <5>1. y \in 0..p - 1
          BY <1>10, <4>1, <4>3
        <5>. QED
          BY <1>3, <1>7, <3>2, <4>2, <4>3, <5>1
      <4>5. ASSUME NEW j \in 0..l - 1 PROVE ~Ends(w, x, Slot(x, j, p))
        <5>1. PICK z : z = Slot(x, j, p)
          OBVIOUS
        <5>2. z \in 0..p - 1 /\ t[z] # None /\ t[z].key # x
          <6>1. j \in 0..p - 1
            OBVIOUS
          <6>. QED
            BY <1>10, <4>1, <4>2, <5>1, <6>1 DEF Ends
        <5>3. w[z] # None /\ w[z].key # x
          <6>1. CASE z = s
            BY <1>5, <1>7, <3>2, <6>1
          <6>2. CASE z # s
            BY <1>7, <5>2, <6>2
          <6>. QED
            BY <6>1, <6>2
        <5>. QED
          BY <5>1, <5>3 DEF Ends
      <4>. QED
        BY <4>2, <4>3, <4>4, <4>5
    <3>. QED
      BY <3>1, <3>2
  <2>4. DOMAIN n \subseteq Keys
    BY <1>9 DEF Holds
  <2>. QED
    BY <2>1, <2>2, <2>3, <2>4 DEF Holds
<1>12. HT!BaseInsert([table |-> t, count |-> c], e, unique)
      = IF t[s] = None THEN [table |-> w, count |-> c + 1]
        ELSE IF unique THEN [table |-> t, count |-> c] ELSE [table |-> w, count |-> c]
  BY <1>1, <1>2, <1>5, <1>6 DEF HT!BaseInsert, Put
<1>13. h = HT!BaseInsert([table |-> t, count |-> c], e, unique)
  BY <1>4
<1>14. CASE unique /\ k \in DOMAIN m
  <2>1. t[s] # None /\ unique
    BY <1>3, <1>14
  <2>2. h = [table |-> t, count |-> c]
    BY <1>12, <1>13, <2>1, Zenon
  <2>3. h.table = t
    BY <2>2
  <2>. QED
    BY <1>4, <1>13, <1>14, <2>3
<1>15. CASE ~(unique /\ k \in DOMAIN m)
  <2>1. h.table = w
    BY <1>3, <1>12, <1>13, <1>15
  <2>. QED
    BY <1>4, <1>8, <1>11, <1>13, <1>15, <2>1
<1>. QED
  BY <1>14, <1>15

(* A table that is being filled, and the number of its entries.            *)
Filled(q) == [table : Tables(q), count : Nat]

(* base_insert leaves a table and a number.                                *)
LEMMA InsertType ==
    ASSUME HT!HashTableAssumption, NEW q \in Nat \ {0}, NEW h \in Filled(q), NEW e \in Entries
    PROVE  HT!BaseInsert(h, e, TRUE) \in Filled(q)
<1>1. PICK s : s = HT!Lookup(h.table, e.key)
  OBVIOUS
<1>2. PICK w : w = [h.table EXCEPT ![s] = e]
  OBVIOUS
<1>3. h.table \in Tables(q) /\ h.count \in Nat
  BY DEF Filled
<1>4. w \in Tables(q)
  BY <1>2, <1>3 DEF Tables
<1>5. HT!BaseInsert(h, e, TRUE) = IF h.table[s] = None THEN [table |-> w, count |-> h.count + 1] ELSE h
  BY <1>1, <1>2 DEF HT!BaseInsert
<1>6. [table |-> w, count |-> h.count + 1] \in Filled(q)
  BY <1>3, <1>4 DEF Filled
<1>. QED
  BY <1>5, <1>6

(* A new table holds nothing.                                              *)
LEMMA EmptyIs ==
    ASSUME HT!HashTableAssumption, NEW i \in 1..Len(Primes)
    PROVE  LET h == HT!Empty(i) IN
           /\ h \in Filled(Primes[i]) /\ h.count = 0 /\ Used(h.table) = {}
           /\ \A s \in 0..Primes[i] - 1 : h.table[s] = None
<1>1. PICK t : t = [s \in 0..Primes[i] - 1 |-> None]
  OBVIOUS
<1>2. HT!Empty(i) = [table |-> t, count |-> 0]
  BY <1>1 DEF HT!Empty
<1>3. DOMAIN t = 0..Primes[i] - 1 /\ \A s \in 0..Primes[i] - 1 : t[s] = None
  BY <1>1
<1>4. t \in Tables(Primes[i]) /\ Used(t) = {}
  BY <1>1, <1>3 DEF Tables, Used
<1>. QED
  BY <1>2, <1>3, <1>4 DEF Filled

(* What realloc does with one slot of the old table.                       *)
Moved(h, e) == IF e = None THEN h ELSE HT!BaseInsert(h, e, TRUE)

(* What is in the table is moved slot after slot.                          *)
LEMMA ReallocRuns ==
    ASSUME HT!HashTableAssumption, NEW p \in Nat \ {0}, NEW t \in Tables(p), NEW i \in 1..Len(Primes)
    PROVE  \E r \in [0..p -> Filled(Primes[i])] :
             /\ r[0] = HT!Empty(i) /\ \A s \in 1..p : r[s] = Moved(r[s - 1], t[s - 1])
             /\ HT!Realloc(t, i) = r[p]
<1> DEFINE A == Filled(Primes[i])
           D == 1..p
           b == HT!Empty(i)
           G == [s \in D |-> [x \in A |-> Moved(x, t[s - 1])]]
           F(h) == h = [s \in SUBSET D |->
                          IF s = {} THEN b ELSE Moved(h[s \ {Max(s)}], t[Max(s) - 1])]
           c == CHOOSE h : F(h)
           e == [s \in 1..p |-> t[s - 1]]
           V == HT!FoldLeft(LAMBDA h, x : IF x = None THEN h ELSE HT!BaseInsert(h, x, TRUE), b, e)
<1>1. Primes[i] \in Nat \ {0} /\ \A s \in D : t[s - 1] \in Entries \cup {None}
  <2>1. Primes[i] \in Nat \ {0}
    BY HtSizes
  <2>2. \A s \in D : s - 1 \in 0..p - 1
    OBVIOUS
  <2>. QED
    BY <2>1, <2>2 DEF Tables
<1>2. V = c[D]
  <2> DEFINE K(h) == h = [s \in SUBSET D |->
                          IF s = {} THEN b ELSE Moved(h[s \ {Max(s)}], e[Max(s)])]
             d == CHOOSE h : K(h)
  <2>1. \A s : HT!Max(s) = Max(s)
    BY DEF HT!Max, Max
  <2>2. DOMAIN e = D
    OBVIOUS
  <2>3. V = d[D]
    <3> HIDE DEF e, D, b
    <3>. QED
      BY <2>1, <2>2, Zenon DEF HT!FoldLeft, HT!MapThenFoldSet, Moved
  <2>4. \A s \in SUBSET D : s # {} => e[Max(s)] = t[Max(s) - 1]
    BY MaxIn
  <2>5. \A h : K(h) <=> F(h)
    <3> HIDE DEF D, e
    <3>. QED
      BY <2>4
  <2> HIDE DEF K, F, V
  <2>6. d = c
    BY <2>5
  <2>. QED
    BY <2>3, <2>6
<1>3. G \in [D -> [A -> A]] /\ \A s \in D, x \in A : G[s][x] = Moved(x, t[s - 1])
  <2>1. \A s \in D, x \in A : Moved(x, t[s - 1]) \in A
    BY <1>1, InsertType DEF Moved
  <2> HIDE DEF A, D
  <2>. QED
    BY <2>1
<1> HIDE DEF G, V
<1>4. b \in A
  BY EmptyIs
<1>5. HT!Realloc(t, i) = V
  <2>1. Cardinality(DOMAIN t) = p
    BY TableSize
  <2>. QED
    BY <2>1, SameCardinality, Zenon DEF HT!Realloc, V
<1> HIDE DEF A, c, b
<1>6. \A s \in SUBSET D : s # {} => Max(s) \in D /\ s \ {Max(s)} \in SUBSET D
  BY MaxIn
<1>7. F(c)
  <2>1. PICK h \in [SUBSET D -> A] :
          h = [s \in SUBSET D |-> IF s = {} THEN b ELSE G[Max(s)][h[s \ {Max(s)}]]]
    <3>1. \E h \in [SUBSET D -> A] : IsFold(h, p, b, G)
      BY <1>3, <1>4, FoldExists
    <3>. QED
      BY <3>1 DEF IsFold
  <2>2. ASSUME NEW s \in SUBSET D
        PROVE  (IF s = {} THEN b ELSE G[Max(s)][h[s \ {Max(s)}]])
               = IF s = {} THEN b ELSE Moved(h[s \ {Max(s)}], t[Max(s) - 1])
    BY <1>3, <1>6, <2>1
  <2> HIDE DEF D
  <2>3. F(h)
    BY <2>1, <2>2
  <2> HIDE DEF F
  <2>. QED
    BY <2>3 DEF c
<1>8. PICK r \in [0..p -> A] : IsRun(r, p, b, G)
  BY <1>3, <1>4, Running
<1>9. c[D] = r[p]
  <2>1. c[{}] = b
    BY <1>7
  <2>2. ASSUME NEW s \in SUBSET D, s # {}, c[s \ {Max(s)}] \in A
        PROVE  c[s] = G[Max(s)][c[s \ {Max(s)}]]
    <3>1. c[s] = Moved(c[s \ {Max(s)}], t[Max(s) - 1])
      BY <1>7, <2>2, Zenon
    <3>. QED
      BY <1>3, <1>6, <2>2, <3>1
  <2>3. FoldsUp(c, p, A, b, G)
    BY <2>1, <2>2 DEF FoldsUp
  <2> HIDE DEF F, D, e
  <2>4. r \in [0..p -> A] /\ IsRun(r, p, b, G) /\ G \in [1..p -> [A -> A]] /\ p \in Nat
    BY <1>3, <1>8 DEF D
  <2>5. c[1..p] = r[p]
    BY <1>4, <2>3, <2>4, FoldRuns
  <2>. QED
    BY <2>5 DEF D
<1>10. \A s \in 1..p : r[s] = Moved(r[s - 1], t[s - 1])
  <2>1. \A s \in 1..p : s - 1 \in 0..p /\ r[s] = G[s][r[s - 1]]
    BY <1>8 DEF IsRun
  <2>. QED
    BY <1>3, <2>1
<1>. QED
  BY <1>2, <1>8, <1>9, <1>10, <1>5 DEF IsRun, A, b

(* A bigger table holds what the old one held.                             *)
Before(t, j) == {s \in 0..j - 1 : t[s] # None}

(* The slots in use among the first j.                                     *)
LEMMA BeforeIs ==
    ASSUME HT!HashTableAssumption, NEW p \in Nat \ {0}, NEW t \in Tables(p), NEW j \in 0..p
    PROVE  /\ IsFiniteSet(Before(t, j)) /\ Cardinality(Before(t, j)) \in 0..Cardinality(Used(t))
           /\ Before(t, 0) = {} /\ Before(t, p) = Used(t)
           /\ j < p => Before(t, j + 1) = (IF t[j] = None THEN Before(t, j) ELSE Before(t, j) \cup {j})
           /\ j \notin Before(t, j)
<1>1. DOMAIN t = 0..p - 1 /\ IsFiniteSet(Used(t)) /\ Cardinality(Used(t)) \in Nat
  BY TableSize
<1>2. Before(t, j) \in SUBSET Used(t)
  BY <1>1 DEF Before, Used
<1>3. IsFiniteSet(Before(t, j)) /\ Cardinality(Before(t, j)) <= Cardinality(Used(t))
  BY <1>1, <1>2, FS_Subset
<1>4. Cardinality(Before(t, j)) \in Nat
  BY <1>3, FS_CardinalityType
<1>5. j < p => Before(t, j + 1) = (IF t[j] = None THEN Before(t, j) ELSE Before(t, j) \cup {j})
  <2>1. (j + 1) - 1 = j /\ \A s : s \in 0..j <=> s \in 0..j - 1 \/ s = j
    OBVIOUS
  <2>. QED
    BY <2>1 DEF Before
<1>6. Before(t, 0) = {} /\ Before(t, p) = Used(t) /\ j \notin Before(t, j)
  BY <1>1 DEF Before, Used
<1>. QED
  BY <1>1, <1>3, <1>4, <1>5, <1>6

(* The states of the new table while the old one is moved.                 *)
IsMove(r, p, t) == \A s \in 1..p : r[s] = Moved(r[s - 1], t[s - 1])

(* The new table has no more entries than were moved.                      *)
LEMMA ReallocCounts ==
    ASSUME HT!HashTableAssumption, hash \in [Keys -> Hashes], NEW p \in Nat \ {0}, NEW t \in Tables(p),
           NEW i \in 1..Len(Primes), Cardinality(Used(t)) < Primes[i],
           NEW r \in [0..p -> Filled(Primes[i])], r[0] = HT!Empty(i),
           IsMove(r, p, t), NEW j \in 0..p
    PROVE  /\ r[j].table \in Tables(Primes[i]) /\ r[j].count = Cardinality(Used(r[j].table))
           /\ r[j].count \in 0..Cardinality(Used(t))
<1>1. /\ \A n \in 0..p : /\ IsFiniteSet(Before(t, n))
                          /\ Cardinality(Before(t, n)) \in 0..Cardinality(Used(t))
                          /\ n \notin Before(t, n)
      /\ \A n \in 0..p - 1 :
           Before(t, n + 1) = (IF t[n] = None THEN Before(t, n) ELSE Before(t, n) \cup {n})
  <2>1. \A n \in 0..p - 1 : n \in 0..p /\ n < p
    OBVIOUS
  <2>. QED
    BY <2>1, BeforeIs
<1> DEFINE q == Primes[i]
           T == {n \in 0..p : /\ r[n].table \in Tables(q) /\ r[n].count \in Nat
                              /\ r[n].count = Cardinality(Used(r[n].table))
                              /\ r[n].count <= Cardinality(Before(t, n))}
<1>2. q \in Nat \ {0} /\ Cardinality(Used(t)) \in Nat
  BY HtSizes, TableSize
<1>3. 0 \in T
  <2>1. /\ r[0] \in Filled(q) /\ r[0].count = 0 /\ Used(r[0].table) = {}
    BY EmptyIs
  <2>2. Cardinality({}) = 0
    BY FS_EmptySet
  <2>3. Cardinality(Before(t, 0)) \in Nat /\ 0 \in 0..p
    <3>1. 0 \in 0..p
      OBVIOUS
    <3>. QED
      BY <1>2, <1>1, <3>1
  <2>4. PICK x, c : x = r[0].table /\ c = r[0].count
    OBVIOUS
  <2>5. x \in Tables(q) /\ c = 0 /\ Cardinality(Used(x)) = 0
    BY <2>1, <2>2, <2>4 DEF Filled
  <2>6. c \in Nat /\ c = Cardinality(Used(x)) /\ c <= Cardinality(Before(t, 0))
    BY <2>3, <2>5
  <2>. QED
    BY <2>3, <2>4, <2>5, <2>6
<1>4. ASSUME NEW n \in 0..p - 1, n \in T PROVE n + 1 \in T
  <2>1. PICK l : l = n + 1
    OBVIOUS
  <2>2. l \in 1..p /\ l \in 0..p /\ l - 1 = n /\ n \in 0..p /\ n < p
    BY <2>1
  <2>3. PICK x, c, a, b : x = r[n].table /\ c = r[n].count /\ a = Cardinality(Before(t, n))
                          /\ b = Cardinality(Before(t, l))
    OBVIOUS
  <2>4. x \in Tables(q) /\ c = Cardinality(Used(x)) /\ c \in Nat /\ c <= a /\ r[n] \in Filled(q)
    BY <1>4, <2>2, <2>3
  <2>5. a \in Nat /\ b \in Nat /\ a <= Cardinality(Used(t)) /\ IsFiniteSet(Before(t, n))
        /\ n \notin Before(t, n)
        /\ Before(t, l) = (IF t[n] = None THEN Before(t, n) ELSE Before(t, n) \cup {n})
    <3>1. Cardinality(Before(t, n)) \in 0..Cardinality(Used(t))
          /\ Cardinality(Before(t, l)) \in 0..Cardinality(Used(t))
      BY <1>1, <2>2
    <3>2. IsFiniteSet(Before(t, n)) /\ n \notin Before(t, n)
      BY <1>1, <2>2
    <3>3. Before(t, l) = (IF t[n] = None THEN Before(t, n) ELSE Before(t, n) \cup {n})
      BY <1>1, <2>1
    <3> HIDE DEF T, q
    <3>. QED
      BY <1>2, <2>3, <3>1, <3>2, <3>3
  <2>6. r[l] = Moved(r[n], t[n])
    BY <2>2 DEF IsMove
  <2>7. CASE t[n] = None
    <3>1. r[l] = r[n] /\ b = a
      BY <2>3, <2>5, <2>6, <2>7 DEF Moved
    <3>. QED
      BY <2>1, <2>2, <2>3, <2>4, <3>1
  <2>8. CASE t[n] # None
    <3>1. b = a + 1
      BY <2>3, <2>5, <2>8, FS_AddElement
    <3>2. t[n] \in Entries
      BY <2>2, <2>8 DEF Tables
    <3>3. PICK k \in Keys, v \in Values : t[n] = Entry(k, v)
      BY <3>2 DEF Entries, Entry
    <3>4. r[n] = [table |-> x, count |-> c]
      BY <2>3, <2>4 DEF Filled
    <3>5. r[l] = HT!BaseInsert([table |-> x, count |-> c], Entry(k, v), TRUE)
      BY <2>6, <2>8, <3>3, <3>4 DEF Moved
    <3>6. c < q
      BY <1>2, <2>4, <2>5
    <3>7. r[l].table \in Tables(q) /\ r[l].count = Cardinality(Used(r[l].table)) /\ r[l].count \in c..c + 1
      <4>1. PICK u \in BOOLEAN : u = TRUE
        OBVIOUS
      <4>2. PICK h : h = r[l]
        OBVIOUS
      <4>3. h = HT!BaseInsert([table |-> x, count |-> c], Entry(k, v), u)
        BY <3>5, <4>1, <4>2
      <4>4. x \in Tables(q) /\ c = Cardinality(Used(x)) /\ c < q
        BY <2>4, <3>6
      <4> HIDE DEF T, q
      <4>. QED
        BY <1>2, <4>2, <4>3, <4>4, InsertCounts
    <3>8. r[l].count \in Nat /\ r[l].count <= b
      BY <2>4, <2>5, <3>1, <3>7
    <3>. QED
      BY <2>1, <2>2, <2>3, <3>7, <3>8
  <2>. QED
    BY <2>7, <2>8
<1>5. j \in T
  <2> HIDE DEF T
  <2>1. 0..p \subseteq T
    BY <1>3, <1>4, InductionTo
  <2>. QED
    BY <2>1
<1>6. Cardinality(Before(t, j)) \in 0..Cardinality(Used(t))
  BY BeforeIs
<1>. QED
  BY <1>2, <1>5, <1>6

(* What of the map m the first j slots of t hold.                          *)
Part(m, t, j) == [k \in {t[s].key : s \in Before(t, j)} |-> m[k]]

(* All of the map is moved.                                                *)
LEMMA ReallocHolds ==
    ASSUME HT!HashTableAssumption, hash \in [Keys -> Hashes], NEW p \in Nat \ {0}, NEW t \in Tables(p),
           NEW m, m = [k \in DOMAIN m |-> m[k]], Holds(t, p, m),
           NEW i \in 1..Len(Primes), Cardinality(Used(t)) < Primes[i],
           NEW r \in [0..p -> Filled(Primes[i])], r[0] = HT!Empty(i),
           IsMove(r, p, t)
    PROVE  Holds(r[p].table, Primes[i], m)
<1>1. \A n \in 0..p :
        /\ r[n].table \in Tables(Primes[i]) /\ r[n].count = Cardinality(Used(r[n].table))
        /\ r[n].count \in 0..Cardinality(Used(t))
  BY ReallocCounts
<1> DEFINE q == Primes[i]
           T == {n \in 0..p : Holds(r[n].table, q, Part(m, t, n))}
<1>2. q \in Nat \ {0} /\ Cardinality(Used(t)) \in Nat
  BY HtSizes, TableSize
<1>3. 0 \in T
  <2>1. Before(t, 0) = {} /\ 0 \in 0..p
    BY DEF Before
  <2>2. DOMAIN Part(m, t, 0) = {}
    BY <2>1 DEF Part
  <2>3. \A s \in 0..q - 1 : r[0].table[s] = None
    BY EmptyIs
  <2>. QED
    BY <2>1, <2>2, <2>3 DEF Holds
<1>4. ASSUME NEW n \in 0..p - 1, n \in T PROVE n + 1 \in T
  <2>1. PICK l : l = n + 1
    OBVIOUS
  <2>2. l \in 1..p /\ l \in 0..p /\ l - 1 = n /\ n \in 0..p /\ n < p
    BY <2>1
  <2>3. PICK x, c, a : x = r[n].table /\ c = r[n].count /\ a = Part(m, t, n)
    OBVIOUS
  <2>4. x \in Tables(q) /\ c = Cardinality(Used(x)) /\ c < q /\ r[n] \in Filled(q) /\ Holds(x, q, a)
    <3>1. /\ r[n].table \in Tables(q) /\ r[n].count = Cardinality(Used(r[n].table))
          /\ r[n].count \in 0..Cardinality(Used(t))
      BY <1>1, <2>2
    <3>. QED
      BY <1>2, <1>4, <2>2, <2>3, <3>1
  <2>5. Before(t, l) = (IF t[n] = None THEN Before(t, n) ELSE Before(t, n) \cup {n})
    BY <2>1, <2>2, BeforeIs
  <2>6. r[l] = Moved(r[n], t[n])
    BY <2>2 DEF IsMove
  <2>7. CASE t[n] = None
    <3>1. r[l] = r[n] /\ Part(m, t, l) = a
      BY <2>3, <2>5, <2>6, <2>7 DEF Moved, Part
    <3>. QED
      BY <2>1, <2>2, <2>3, <2>4, <3>1
  <2>8. CASE t[n] # None
    <3>1. t[n] \in Entries
      BY <2>2, <2>8 DEF Tables
    <3>2. PICK k \in Keys, v \in Values : t[n] = Entry(k, v)
      BY <3>1 DEF Entries, Entry
    <3>3. t[n].key = k /\ t[n].data = v
      BY <3>2 DEF Entry
    <3>4. r[n] = [table |-> x, count |-> c]
      BY <2>3, <2>4 DEF Filled
    <3>5. r[l] = HT!BaseInsert([table |-> x, count |-> c], Entry(k, v), TRUE)
      BY <2>6, <2>8, <3>2, <3>4 DEF Moved
    <3>6. Holds(r[l].table, q, IF TRUE /\ k \in DOMAIN a THEN a ELSE With(a, k, v))
      <4>1. PICK u \in BOOLEAN : u = TRUE
        OBVIOUS
      <4>2. PICK h : h = r[l]
        OBVIOUS
      <4>3. h = HT!BaseInsert([table |-> x, count |-> c], Entry(k, v), u)
        BY <3>5, <4>1, <4>2
      <4>4. Cardinality(Used(x)) < q /\ x \in Tables(q) /\ Holds(x, q, a)
        BY <2>4
      <4> HIDE DEF q
      <4>. QED
        BY <1>2, <4>1, <4>2, <4>3, <4>4, InsertHolds
    <3>7. k \notin DOMAIN a
      <4>1. DOMAIN a = {t[s].key : s \in Before(t, n)}
        BY <2>3 DEF Part
      <4>2. ASSUME NEW s \in Before(t, n) PROVE t[s].key # k
        <5>1. s \in 0..p - 1 /\ t[s] # None /\ s # n /\ n \in 0..p - 1
          BY <2>2 DEF Before
        <5>. QED
          BY <2>8, <3>3, <5>1 DEF Holds
      <4>. QED
        BY <4>1, <4>2
    <3>8. With(a, k, v) = Part(m, t, l)
      <4>1. m[k] = v
        BY <2>2, <2>8, <3>3 DEF Holds
      <4>2. PICK S : S = {t[s].key : s \in Before(t, n)}
        OBVIOUS
      <4>3. {t[s].key : s \in Before(t, l)} = S \cup {k}
        BY <2>5, <2>8, <3>3, <4>2
      <4>4. a = [y \in S |-> m[y]] /\ Part(m, t, l) = [y \in S \cup {k} |-> m[y]]
        BY <2>3, <4>2, <4>3 DEF Part
      <4>. QED
        BY <4>1, <4>4 DEF With
    <3>. QED
      BY <2>1, <2>2, <3>6, <3>7, <3>8
  <2>. QED
    BY <2>7, <2>8
<1>5. p \in T
  <2> HIDE DEF T
  <2>1. 0..p \subseteq T
    BY <1>3, <1>4, InductionTo
  <2>. QED
    BY <2>1
<1>6. Part(m, t, p) = m
  <2>1. {t[s].key : s \in Before(t, p)} = DOMAIN m
    <3>1. ASSUME NEW s \in Before(t, p) PROVE t[s].key \in DOMAIN m
      BY DEF Before, Holds
    <3>2. ASSUME NEW k \in DOMAIN m PROVE \E s \in Before(t, p) : t[s].key = k
      <4>1. k \in Keys
        BY DEF Holds
      <4>2. PICK l \in 0..p - 1 : t[Slot(k, l, p)] # None /\ t[Slot(k, l, p)].key = k
        BY DEF Holds
      <4>3. Slot(k, l, p) \in 0..p - 1
        BY <4>1, Slots
      <4>. QED
        BY <4>2, <4>3 DEF Before
    <3>. QED
      BY <3>1, <3>2
  <2>. QED
    BY <2>1 DEF Part
<1>. QED
  BY <1>5, <1>6

(* Growing keeps the number of entries, or makes it smaller, and the map.  *)
LEMMA ReallocIs ==
    ASSUME HT!HashTableAssumption, hash \in [Keys -> Hashes], NEW p \in Nat \ {0}, NEW t \in Tables(p),
           NEW i \in 1..Len(Primes), Cardinality(Used(t)) < Primes[i],
           NEW m, m = [k \in DOMAIN m |-> m[k]], NEW h, h = HT!Realloc(t, i)
    PROVE  /\ h \in Filled(Primes[i]) /\ h.count = Cardinality(Used(h.table))
           /\ h.count \in 0..Cardinality(Used(t))
           /\ Holds(t, p, m) => Holds(h.table, Primes[i], m)
<1>1. PICK r \in [0..p -> Filled(Primes[i])] : r[0] = HT!Empty(i) /\ IsMove(r, p, t) /\ h = r[p]
  BY ReallocRuns DEF IsMove
<1>2. p \in 0..p
  OBVIOUS
<1>3. h \in Filled(Primes[i])
  BY <1>1, <1>2
<1>4. /\ r[p].count = Cardinality(Used(r[p].table))
      /\ r[p].count \in 0..Cardinality(Used(t))
  BY <1>1, <1>2, ReallocCounts
<1>5. ASSUME Holds(t, p, m) PROVE Holds(r[p].table, Primes[i], m)
  BY <1>1, <1>5, ReallocHolds
<1>. QED
  BY <1>1, <1>3, <1>4, <1>5

(* What the calls so far come to.                                          *)
IsMap(m) == m = [k \in DOMAIN m |-> m[k]]
HtTable(t, p, c) == t \in Tables(p) /\ c = Cardinality(Used(t)) /\ c < p

(* The inductive invariant of the hash table: it counts its entries, has a *)
(* free slot, and until a key is removed it holds the map that the calls   *)
(* describe.                                                               *)
HtInv ==
    /\ hash \in [Keys -> Hashes] /\ index \in 1..Len(Primes)
    /\ HtTable(table, Primes[index], count)
    /\ IsMap(meant)
    /\ gapped \in BOOLEAN /\ (~gapped => Holds(table, Primes[index], meant))

(* A new table holds the empty map.                                        *)
LEMMA EmptyHolds ==
    ASSUME HT!HashTableAssumption, NEW i \in 1..Len(Primes)
    PROVE  /\ HtTable(HT!Empty(i).table, Primes[i], 0) /\ IsMap(<<>>)
           /\ Holds(HT!Empty(i).table, Primes[i], <<>>)
<1>1. Primes[i] \in Nat \ {0}
  BY HtSizes
<1>2. PICK t : t = HT!Empty(i).table
  OBVIOUS
<1>3. HT!Empty(i) \in Filled(Primes[i]) /\ Used(t) = {} /\ \A s \in 0..Primes[i] - 1 : t[s] = None
  BY <1>2, EmptyIs
<1>4. t \in Tables(Primes[i])
  BY <1>2, <1>3 DEF Filled
<1>5. Cardinality(Used(t)) = 0
  BY <1>3, FS_EmptySet
<1>6. DOMAIN <<>> = {} /\ IsMap(<<>>)
  BY DEF IsMap
<1>. QED
  BY <1>1, <1>2, <1>3, <1>4, <1>5, <1>6 DEF HtTable, Holds

(* Three quarters of p slots are in use at most, or the table grows.       *)
LEMMA RoomLeft ==
    ASSUME NEW p \in Nat \ {0}, NEW c \in Nat, c < (p * 3) \div 4
    PROVE  c + 1 < p
  OBVIOUS

(* Storing, growing before it if need be, keeps the invariant.             *)
LEMMA StoreKeeps ==
    ASSUME HT!HashTableAssumption, HtInv, NEW k \in Keys, NEW v \in Values, NEW unique \in BOOLEAN,
           HT!Store(k, v, unique)
    PROVE  HtInv'
<1>1. /\ hash \in [Keys -> Hashes] /\ index \in 1..Len(Primes) /\ IsMap(meant) /\ gapped \in BOOLEAN
      /\ HtTable(table, Primes[index], count)
      /\ ~gapped => Holds(table, Primes[index], meant)
  BY DEF HtInv
<1>2. PICK p \in Nat \ {0} : p = Primes[index]
  BY <1>1, HtSizes
<1>3. table \in Tables(p) /\ count = Cardinality(Used(table)) /\ count < p /\ count \in Nat
  BY <1>1, <1>2, TableSize DEF HtTable
<1>4. PICK o : o = (p * 3) \div 4
  OBVIOUS
<1>5. HT!Oversize(table) = o
  BY <1>3, <1>4, TableSize, SameCardinality DEF HT!Oversize
<1>6. PICK h, new :
        /\ h = IF count >= o THEN HT!Realloc(table, index + 1) ELSE [table |-> table, count |-> count]
        /\ new = HT!BaseInsert(h, Entry(k, v), unique)
        /\ count >= o => index < Len(Primes)
        /\ index' = IF count >= o THEN index + 1 ELSE index
        /\ table' = new.table /\ count' = new.count
        /\ meant' = IF unique /\ k \in DOMAIN meant THEN meant ELSE With(meant, k, v)
        /\ UNCHANGED <<hash, gapped>>
  BY <1>5 DEF HT!Store, Entry, With
<1>7. index' \in 1..Len(Primes) /\ Primes[index'] \in Nat \ {0}
  <2>1. Len(Primes) \in Nat
    BY HtSizes
  <2>. QED
    BY <1>1, <1>6, <2>1, HtSizes
<1>8. PICK q \in Nat \ {0} : q = Primes[index']
  BY <1>7
<1>9. /\ h = [table |-> h.table, count |-> h.count]
      /\ h.table \in Tables(q) /\ h.count = Cardinality(Used(h.table)) /\ h.count + 1 < q
      /\ ~gapped => Holds(h.table, q, meant)
  <2>1. CASE count >= o
    <3>1. PICK i : i = index + 1
      OBVIOUS
    <3>2. i \in 1..Len(Primes) /\ q = Primes[i] /\ p < q
      BY <1>1, <1>2, <1>6, <1>7, <1>8, <2>1, <3>1, HtSizes
    <3>3. Cardinality(Used(table)) < Primes[i] /\ h = HT!Realloc(table, i)
      BY <1>3, <1>6, <2>1, <3>1, <3>2
    <3>4. PICK m : m = meant
      OBVIOUS
    <3>5. m = [x \in DOMAIN m |-> m[x]]
      BY <1>1, <3>4 DEF IsMap
    <3>6. /\ h \in Filled(Primes[i]) /\ h.count = Cardinality(Used(h.table))
          /\ h.count \in 0..Cardinality(Used(table))
          /\ Holds(table, p, m) => Holds(h.table, Primes[i], m)
      BY <1>1, <1>3, <3>2, <3>3, <3>5, ReallocIs
    <3>7. h.count + 1 < q
      BY <1>3, <3>2, <3>6
    <3>. QED
      BY <1>1, <1>2, <3>2, <3>4, <3>6, <3>7 DEF Filled
  <2>2. CASE ~(count >= o)
    <3>1. q = p /\ h = [table |-> table, count |-> count]
      BY <1>2, <1>6, <1>8, <2>2
    <3>2. count < (p * 3) \div 4
      BY <1>3, <1>4, <2>2
    <3>3. count + 1 < p
      BY <1>3, <3>2, RoomLeft
    <3>. QED
      BY <1>1, <1>2, <1>3, <3>1, <3>3
  <2>. QED
    BY <2>1, <2>2
<1>10. PICK x, c : x = h.table /\ c = h.count
  OBVIOUS
<1>11. new = HT!BaseInsert([table |-> x, count |-> c], Entry(k, v), unique)
  BY <1>6, <1>9, <1>10
<1>12. x \in Tables(q) /\ c = Cardinality(Used(x)) /\ c + 1 < q /\ (~gapped => Holds(x, q, meant))
  BY <1>9, <1>10
<1>13. c \in Nat /\ c < q /\ Cardinality(Used(x)) < q
  BY <1>12, TableSize
<1>14. new.table \in Tables(q) /\ new.count = Cardinality(Used(new.table)) /\ new.count \in c..c + 1
  BY <1>1, <1>11, <1>12, <1>13, InsertCounts
<1>15. ASSUME ~gapped
       PROVE  Holds(new.table, q, IF unique /\ k \in DOMAIN meant THEN meant ELSE With(meant, k, v))
  BY <1>1, <1>11, <1>12, <1>13, <1>15, InsertHolds
<1>16. HtTable(table', q, count')
  BY <1>6, <1>12, <1>13, <1>14 DEF HtTable
<1>17. IsMap(meant')
  BY <1>1, <1>6 DEF IsMap, With
<1>18. ~gapped' => Holds(table', q, meant')
  <2>1. hash' = hash
    BY <1>6
  <2>. QED
    BY <1>6, <1>15, <2>1
<1>19. (~gapped => Holds(table, Primes[index], meant))'
  <2>1. ASSUME ~gapped' PROVE Holds(table, Primes[index], meant)'
    <3>1. hash' = hash
      BY <1>6
    <3>2. Holds(table', q, meant')
      BY <1>18, <2>1
    <3>. QED
      BY <1>8, <3>1, <3>2 DEF Holds, Ends, Slot
  <2>. QED
    BY <2>1
<1>. QED
  BY <1>1, <1>6, <1>7, <1>8, <1>16, <1>17, <1>19 DEF HtInv, HtTable, IsMap, Tables, Used

(* Removing a key frees one slot; what it leaves need not be found.        *)
LEMMA RemoveKeeps ==
    ASSUME HT!HashTableAssumption, HtInv, HT!RemoveKey
    PROVE  HtInv'
<1>1. /\ hash \in [Keys -> Hashes] /\ index \in 1..Len(Primes)
      /\ HtTable(table, Primes[index], count)
  BY DEF HtInv
<1>2. PICK p \in Nat \ {0} : p = Primes[index]
  BY <1>1, HtSizes
<1>3. table \in Tables(p) /\ count = Cardinality(Used(table)) /\ count < p /\ count \in Nat
  BY <1>1, <1>2, TableSize DEF HtTable
<1>4. PICK k, s :
        /\ k \in Keys
        /\ s = HT!Lookup(table, k) /\ table[s] # None
        /\ table' = [table EXCEPT ![s] = None] /\ count' = count - 1
        /\ meant' = [x \in DOMAIN meant \ {k} |-> meant[x]]
        /\ gapped' = TRUE /\ hash' = hash /\ index' = index
  BY DEF HT!RemoveKey
<1>5. s \in 0..p - 1
  <2>1. PICK i \in 0..p - 1 : s = Slot(k, i, p)
    BY <1>1, <1>3, <1>4, LookupEnds
  <2>. QED
    BY <1>1, <1>4, <2>1, Slots
<1>6. table' \in Tables(p) /\ Used(table') = Used(table) \ {s} /\ s \in Used(table)
  BY <1>3, <1>4, <1>5 DEF Tables, Used
<1>7. IsFiniteSet(Used(table))
  BY <1>3, TableSize
<1>8. Cardinality(Used(table')) = count - 1
  <2>1. PICK U : U = Used(table)
    OBVIOUS
  <2>2. IsFiniteSet(U) /\ s \in U /\ Used(table') = U \ {s} /\ count = Cardinality(U)
    BY <1>3, <1>6, <1>7, <2>1
  <2>. QED
    BY <2>2, FS_RemoveElement
<1>9. HtTable(table', p, count')
  BY <1>3, <1>4, <1>6, <1>8 DEF HtTable
<1>10. IsMap(meant')
  BY <1>4 DEF IsMap
<1>. QED
  BY <1>1, <1>2, <1>4, <1>9, <1>10 DEF HtInv, HtTable, IsMap, Holds, Tables, Used, Ends, Slot

(* A new table satisfies the invariant.                                    *)
LEMMA HashTableStarts ==
    ASSUME HT!HashTableAssumption, HT!Init PROVE HtInv
<1>1. 1 \in 1..Len(Primes)
  BY HtSizes
<1>. QED
  BY <1>1, EmptyHolds DEF HtInv, HT!Init

(* Clearing starts again with an empty map.                                *)
LEMMA ClearKeeps ==
    ASSUME HT!HashTableAssumption, HtInv, HT!Clear PROVE HtInv'
<1>1. /\ hash \in [Keys -> Hashes] /\ index \in 1..Len(Primes)
      /\ hash' = hash /\ index' = index /\ meant' = <<>> /\ gapped' = FALSE /\ count' = 0
      /\ table' = HT!Empty(index).table
  BY DEF HtInv, HT!Clear
<1>2. /\ HtTable(table', Primes[index], count') /\ IsMap(meant')
      /\ Holds(table', Primes[index], meant')
  BY <1>1, EmptyHolds
<1>3. Holds(table, Primes[index], meant)'
  BY <1>1, <1>2 DEF Holds, Ends, Slot
<1>. QED
  BY <1>1, <1>2, <1>3 DEF HtInv, HtTable, IsMap, Tables, Used

(* Every step keeps the invariant.                                         *)
LEMMA HashTableSteps ==
    ASSUME HT!HashTableAssumption, HtInv, [HT!Next]_HT!vars PROVE HtInv'
<1>1. CASE HT!Insert
  <2>1. PICK k \in Keys, v \in Values : HT!Store(k, v, TRUE)
    BY <1>1 DEF HT!Insert
  <2>. QED
    BY <2>1, StoreKeeps
<1>2. CASE HT!Set
  <2>1. PICK k \in Keys, v \in Values : HT!Store(k, v, FALSE)
    BY <1>2 DEF HT!Set
  <2>. QED
    BY <2>1, StoreKeeps
<1>3. CASE HT!RemoveKey
  BY <1>3, RemoveKeeps
<1>4. CASE HT!Clear
  BY <1>4, ClearKeeps
<1>5. CASE UNCHANGED HT!vars
  BY <1>5 DEF HT!vars, HtInv, HtTable, IsMap, Holds, Tables, Used, Ends, Slot
<1>. QED
  BY <1>1, <1>2, <1>3, <1>4, <1>5 DEF HT!Next

(* A table that holds a map has an entry for each of its keys.             *)
LEMMA AsManyEntries ==
    ASSUME HT!HashTableAssumption, hash \in [Keys -> Hashes], NEW p \in Nat \ {0},
           NEW t \in Tables(p), NEW m, Holds(t, p, m)
    PROVE  Cardinality(Used(t)) = Cardinality(DOMAIN m)
<1> DEFINE f == [s \in Used(t) |-> t[s].key]
<1>1. IsFiniteSet(Used(t)) /\ Used(t) = {s \in 0..p - 1 : t[s] # None}
  BY TableSize DEF Used
<1>2. f \in [Used(t) -> DOMAIN m]
  BY <1>1 DEF Holds
<1>3. \A s1, s2 \in Used(t) : f[s1] = f[s2] => s1 = s2
  BY <1>1 DEF Holds
<1>4. ASSUME NEW k \in DOMAIN m PROVE \E s \in Used(t) : f[s] = k
  <2>1. k \in Keys
    BY DEF Holds
  <2>2. PICK i \in 0..p - 1 : t[Slot(k, i, p)] # None /\ t[Slot(k, i, p)].key = k
    BY DEF Holds
  <2>3. Slot(k, i, p) \in 0..p - 1
    BY <2>1, Slots
  <2>. QED
    BY <1>1, <2>2, <2>3
<1>5. f \in Bijection(Used(t), DOMAIN m)
  <2> HIDE DEF f
  <2>. QED
    BY <1>2, <1>3, <1>4 DEF Bijection, Injection, Surjection, IsInjective
<1>6. ExistsBijection(Used(t), DOMAIN m)
  BY <1>5 DEF ExistsBijection
<1>. QED
  BY <1>1, <1>6, FS_Bijection

(* The invariant says what the property says.                              *)
LEMMA HashTableMeans ==
    ASSUME HT!HashTableAssumption, HtInv PROVE HT!HashTableIsMap
<1>1. /\ hash \in [Keys -> Hashes] /\ index \in 1..Len(Primes)
      /\ HtTable(table, Primes[index], count)
      /\ ~gapped => Holds(table, Primes[index], meant)
  BY DEF HtInv
<1>2. PICK p \in Nat \ {0} : p = Primes[index]
  BY <1>1, HtSizes
<1>3. table \in Tables(p) /\ count = Cardinality(Used(table)) /\ count < p
  BY <1>1, <1>2 DEF HtTable
<1>4. count = HT!Cardinality({s \in DOMAIN table : table[s] # None})
      /\ {s \in DOMAIN table : table[s] # None} # DOMAIN table
  <2>1. Used(table) # DOMAIN table
    BY <1>3, TableSize
  <2>. QED
    BY <1>3, <2>1, SameCardinality DEF Used
<1>5. ASSUME ~gapped
      PROVE  /\ \A k \in Keys : /\ HT!Exists(k) <=> k \notin DOMAIN meant
                                /\ HT!At(k) = IF k \in DOMAIN meant THEN meant[k] ELSE None
             /\ count = HT!Cardinality(DOMAIN meant)
  <2>1. Holds(table, p, meant)
    BY <1>1, <1>2, <1>5
  <2>2. ASSUME NEW k \in Keys
        PROVE  /\ HT!Exists(k) <=> k \notin DOMAIN meant
               /\ HT!At(k) = IF k \in DOMAIN meant THEN meant[k] ELSE None
    <3>1. PICK s : s = HT!Lookup(table, k)
      OBVIOUS
    <3>2. /\ k \in DOMAIN meant => table[s] # None /\ table[s].key = k /\ table[s].data = meant[k]
          /\ k \notin DOMAIN meant => table[s] = None
      BY <1>1, <1>3, <2>1, <3>1, LookupFinds
    <3>. QED
      BY <3>1, <3>2 DEF HT!Exists, HT!At
  <2>3. Cardinality(Used(table)) = Cardinality(DOMAIN meant)
    BY <1>1, <1>3, <2>1, AsManyEntries
  <2>. QED
    BY <1>3, <2>2, <2>3, SameCardinality
<1>. QED
  BY <1>4, <1>5 DEF HT!HashTableIsMap

(* Until a key is removed a hash table is the map that the calls describe, *)
(* for any keys, values and hash function, however they collide, and any   *)
(* growing sizes; at all times it counts its entries and has a free slot   *)
(* where every search ends (hash_table::lookup, base_insert, realloc,      *)
(* remove, clear).                                                         *)
THEOREM HashTablesAreMaps ==
    ASSUME HT!HashTableAssumption PROVE HT!Spec => []HT!HashTableIsMap
<1>1. HT!Init => HtInv
  BY HashTableStarts
<1>2. HtInv /\ [HT!Next]_HT!vars => HtInv'
  BY HashTableSteps
<1>3. HtInv => HT!HashTableIsMap
  BY HashTableMeans
<1>. QED
  BY <1>1, <1>2, <1>3, PTL DEF HT!Spec

-----------------------------------------------------------------------------
(* Passwords *)

(* A sequence, of whatever it is.                                          *)
IsSeq(x) == \E S : x \in Seq(S)

(* A sequence is one of members of any larger set.                         *)
LEMMA SeqWider ==
    ASSUME NEW S, NEW T, S \subseteq T, NEW x \in Seq(S)
    PROVE  x \in Seq(T)
<1>1. Len(x) \in Nat /\ x \in [1..Len(x) -> S]
  BY LenProperties
<1>2. x \in [1..Len(x) -> T]
  BY <1>1
<1>. QED
  BY <1>1, <1>2, SeqDef

(* Two sequences are sequences of members of one set.                      *)
LEMMA OneSet ==
    ASSUME NEW p, NEW q, IsSeq(p), IsSeq(q)
    PROVE  \E S : p \in Seq(S) /\ q \in Seq(S)
<1>1. PICK S, T : p \in Seq(S) /\ q \in Seq(T)
  BY DEF IsSeq
<1>2. PICK U : U = S \cup T
  OBVIOUS
<1>3. S \subseteq U /\ T \subseteq U
  BY <1>2
<1>4. p \in Seq(U) /\ q \in Seq(U)
  BY <1>1, <1>3, SeqWider, Zenon
<1>. QED
  BY <1>4

(* w is p followed by q.                                                   *)
Join(w, p, q) ==
    /\ IsSeq(w) /\ Len(p) \in Nat /\ Len(q) \in Nat /\ Len(w) = Len(p) + Len(q)
    /\ \A m \in 1..Len(p) : w[m] = p[m]
    /\ \A m \in 1..Len(q) : w[Len(p) + m] = q[m]

(* Two sequences joined are the one followed by the other.                 *)
LEMMA JoinIs ==
    ASSUME NEW p, NEW q, IsSeq(p), IsSeq(q)
    PROVE  Join(p \o q, p, q)
<1>1. PICK S : p \in Seq(S) /\ q \in Seq(S)
  BY OneSet
<1>2. PICK w : w = p \o q
  OBVIOUS
<1>3. /\ w \in Seq(S) /\ Len(w) = Len(p) + Len(q)
      /\ Len(p) \in Nat /\ Len(q) \in Nat
      /\ \A m \in 1..Len(p) : w[m] = p[m]
      /\ \A m \in 1..Len(q) : w[Len(p) + m] = q[m]
  BY <1>1, <1>2, ConcatPlaces
<1>. QED
  BY <1>2, <1>3 DEF Join, IsSeq

(* Sequences with the same in every place are the same.                    *)
LEMMA SamePlaces ==
    ASSUME NEW p, NEW q, IsSeq(p), IsSeq(q), Len(p) = Len(q), \A m \in 1..Len(p) : p[m] = q[m]
    PROVE  p = q
<1>1. PICK S : p \in Seq(S) /\ q \in Seq(S)
  BY OneSet
<1>. QED
  BY <1>1, SeqEqual

(* p and q joined are s and t joined, and two of the parts are as long.    *)
SameJoin(p, q, s, t) ==
    /\ IsSeq(p) /\ IsSeq(q) /\ IsSeq(s) /\ IsSeq(t)
    /\ p \o q = s \o t
    /\ Len(p) = Len(s) \/ Len(q) = Len(t)

(* What is joined of parts as long is the same only if the parts are.      *)
LEMMA JoinTells ==
    ASSUME NEW p, NEW q, NEW s, NEW t, SameJoin(p, q, s, t)
    PROVE  p = s /\ q = t
<1>1. IsSeq(p) /\ IsSeq(q) /\ IsSeq(s) /\ IsSeq(t) /\ p \o q = s \o t
      /\ (Len(p) = Len(s) \/ Len(q) = Len(t))
  BY DEF SameJoin
<1>2. PICK w : w = p \o q
  OBVIOUS
<1>3. Join(w, p, q) /\ Join(w, s, t)
  BY <1>1, <1>2, JoinIs
<1> DEFINE a == Len(p)
           b == Len(q)
           c == Len(s)
           d == Len(t)
<1>4. a \in Nat /\ b \in Nat /\ c \in Nat /\ d \in Nat /\ a + b = c + d /\ (a = c \/ b = d)
  BY <1>1, <1>3 DEF Join
<1>5. /\ \A m \in 1..a : w[m] = p[m]
      /\ \A m \in 1..b : w[a + m] = q[m]
      /\ \A m \in 1..c : w[m] = s[m]
      /\ \A m \in 1..d : w[c + m] = t[m]
  BY <1>3 DEF Join
<1> HIDE DEF a, b, c, d
<1>6. a = c /\ b = d
  BY <1>4
<1>7. (\A m \in 1..a : p[m] = s[m]) /\ \A m \in 1..b : q[m] = t[m]
  BY <1>5, <1>6
<1>. QED
  BY <1>1, <1>6, <1>7, SamePlaces DEF a, b, c, d

(* The empty sequence is one.                                              *)
LEMMA NothingIsSeq == IsSeq(<<>>) /\ Len(<<>>) = 0
<1>1. <<>> \in Seq({})
  BY EmptySeq
<1>2. Len(<<>>) = 0
  BY EmptySeq
<1>. QED
  BY <1>1, <1>2 DEF IsSeq

(* What is appended comes last.                                            *)
LEMMA AppendTwo ==
    ASSUME NEW a, NEW b
    PROVE  Append(<<a>>, b) = <<a, b>>
<1>1. PICK t, u, v, S : t = <<a>> /\ u = Append(t, b) /\ v = <<a, b>> /\ S = {a, b}
  OBVIOUS
<1>2. t \in Seq(S) /\ Len(t) = 1 /\ t[1] = a /\ b \in S
  BY <1>1
<1>3. u \in Seq(S) /\ Len(u) = 2 /\ u[1] = a /\ u[2] = b
  BY <1>1, <1>2, AppendProperties
<1>4. v \in Seq(S) /\ Len(v) = 2 /\ v[1] = a /\ v[2] = b
  BY <1>1
<1>5. \A i \in 1..2 : u[i] = v[i]
  BY <1>3, <1>4
<1>6. u = v
  BY <1>3, <1>4, <1>5, SeqEqual
<1>. QED
  BY <1>1, <1>6

(* The same of three.                                                      *)
LEMMA AppendThree ==
    ASSUME NEW a, NEW b, NEW c
    PROVE  Append(<<a, b>>, c) = <<a, b, c>>
<1>1. PICK t, u, v, S : t = <<a, b>> /\ u = Append(t, c) /\ v = <<a, b, c>> /\ S = {a, b, c}
  OBVIOUS
<1>2. t \in Seq(S) /\ Len(t) = 2 /\ t[1] = a /\ t[2] = b /\ c \in S
  BY <1>1
<1>3. u \in Seq(S) /\ Len(u) = 3 /\ u[1] = a /\ u[2] = b /\ u[3] = c
  BY <1>1, <1>2, AppendProperties
<1>4. v \in Seq(S) /\ Len(v) = 3 /\ v[1] = a /\ v[2] = b /\ v[3] = c
  BY <1>1
<1>5. \A i \in 1..3 : u[i] = v[i]
  BY <1>3, <1>4
<1>6. u = v
  BY <1>3, <1>4, <1>5, SeqEqual
<1>. QED
  BY <1>1, <1>6

(* The same of four.                                                       *)
LEMMA AppendFour ==
    ASSUME NEW a, NEW b, NEW c, NEW d
    PROVE  Append(<<a, b, c>>, d) = <<a, b, c, d>>
<1>1. PICK t, u, v, S : t = <<a, b, c>> /\ u = Append(t, d) /\ v = <<a, b, c, d>> /\ S = {a, b, c, d}
  OBVIOUS
<1>2. t \in Seq(S) /\ Len(t) = 3 /\ t[1] = a /\ t[2] = b /\ t[3] = c /\ d \in S
  BY <1>1
<1>3. u \in Seq(S) /\ Len(u) = 4 /\ u[1] = a /\ u[2] = b /\ u[3] = c /\ u[4] = d
  BY <1>1, <1>2, AppendProperties
<1>4. v \in Seq(S) /\ Len(v) = 4 /\ v[1] = a /\ v[2] = b /\ v[3] = c /\ v[4] = d
  BY <1>1
<1>5. \A i \in 1..4 : u[i] = v[i]
  BY <1>3, <1>4
<1>6. u = v
  BY <1>3, <1>4, <1>5, SeqEqual
<1>. QED
  BY <1>1, <1>6

(* What FlattenSeq makes of one, two and four sequences.                   *)
Flattened(a, b, c, d) ==
    /\ FlattenSeq(<<a>>) = a
    /\ FlattenSeq(<<a, b>>) = a \o b
    /\ FlattenSeq(<<a, b, c, d>>) = ((a \o b) \o c) \o d

(* It makes this of any.                                                   *)
LEMMA FlattenFew ==
    ASSUME NEW a, NEW b, NEW c, NEW d, IsSeq(a), IsSeq(b), IsSeq(c), IsSeq(d)
    PROVE  Flattened(a, b, c, d)
<1>1. PICK S : a \in Seq(S) /\ b \in Seq(S) /\ c \in Seq(S) /\ d \in Seq(S)
  <2>1. PICK S : a \in Seq(S) /\ b \in Seq(S)
    BY OneSet
  <2>2. PICK T : c \in Seq(T) /\ d \in Seq(T)
    BY OneSet
  <2>3. PICK U : U = S \cup T
    OBVIOUS
  <2>4. S \subseteq U /\ T \subseteq U
    BY <2>3
  <2>5. a \in Seq(U) /\ b \in Seq(U) /\ c \in Seq(U) /\ d \in Seq(U)
    BY <2>1, <2>2, <2>4, SeqWider, Zenon
  <2>. QED
    BY <2>5
<1>2. PICK R : R = Seq(S)
  OBVIOUS
<1>3. PICK e, f, g, h, i : e = <<>> /\ f = Append(e, a) /\ g = Append(f, b) /\ h = Append(g, c)
                           /\ i = Append(h, d)
  OBVIOUS
<1>4. /\ e \in Seq(Seq(S)) /\ f \in Seq(Seq(S)) /\ g \in Seq(Seq(S)) /\ h \in Seq(Seq(S))
  <2>1. e \in Seq(R)
    BY <1>3, EmptySeq
  <2>2. f \in Seq(R)
    BY <1>1, <1>2, <1>3, <2>1, AppendProperties
  <2>3. g \in Seq(R)
    BY <1>1, <1>2, <1>3, <2>2, AppendProperties
  <2>4. h \in Seq(R)
    BY <1>1, <1>2, <1>3, <2>3, AppendProperties
  <2>. QED
    BY <1>2, <2>1, <2>2, <2>3, <2>4
<1>5. f = <<a>> /\ g = <<a, b>> /\ i = <<a, b, c, d>>
  <2>1. f = <<a>>
    BY <1>3
  <2>2. g = <<a, b>>
    BY <1>3, <2>1, AppendTwo
  <2>3. h = <<a, b, c>>
    BY <1>3, <2>2, AppendThree
  <2>4. i = <<a, b, c, d>>
    BY <1>3, <2>3, AppendFour
  <2>. QED
    BY <2>1, <2>2, <2>4
<1>6. FlattenSeq(e) = <<>>
  BY <1>3, FlattenEmpty
<1>7. FlattenSeq(f) = <<>> \o a /\ FlattenSeq(g) = FlattenSeq(f) \o b
      /\ FlattenSeq(h) = FlattenSeq(g) \o c /\ FlattenSeq(i) = FlattenSeq(h) \o d
  <2>1. FlattenSeq(f) = FlattenSeq(e) \o a
    BY <1>1, <1>3, <1>4, FlattenAppend, Zenon
  <2>2. FlattenSeq(g) = FlattenSeq(f) \o b
    BY <1>1, <1>3, <1>4, FlattenAppend, Zenon
  <2>3. FlattenSeq(h) = FlattenSeq(g) \o c
    BY <1>1, <1>3, <1>4, FlattenAppend, Zenon
  <2>4. FlattenSeq(i) = FlattenSeq(h) \o d
    BY <1>1, <1>3, <1>4, FlattenAppend, Zenon
  <2>. QED
    BY <1>6, <2>1, <2>2, <2>3, <2>4
<1>8. <<>> \o a = a
  BY <1>1, ConcatEmptySeq
<1>. QED
  BY <1>5, <1>7, <1>8 DEF Flattened

(* The digest of the library is that of the model.                         *)
LEMMA SameFlattenCr == \A s : CR!FlattenSeq(s) = FlattenSeq(s)
BY DEF CR!FlattenSeq, FlattenSeq

(* Characters of passwords and salts are sequences.                        *)
LEMMA CharsIs ==
    ASSUME NEW T, NEW s \in Seq(T)
    PROVE  IsSeq(CR!Chars(s)) /\ Len(CR!Chars(s)) = Len(s)
           /\ \A i \in 1..Len(s) : CR!Chars(s)[i] = CR!Char(s[i])
<1> DEFINE S == {CR!Char(c) : c \in T}
           t == CR!Chars(s)
<1>1. Len(s) \in Nat /\ s \in [1..Len(s) -> T] /\ DOMAIN s = 1..Len(s)
  BY LenProperties
<1>2. t \in [1..Len(s) -> S] /\ \A i \in 1..Len(s) : t[i] = CR!Char(s[i])
  BY <1>1 DEF CR!Chars
<1> HIDE DEF S, t
<1>3. t \in Seq(S) /\ Len(t) = Len(s)
  BY <1>1, <1>2, SeqDef, LenProperties
<1>. QED
  BY <1>2, <1>3 DEF t, IsSeq

(* A digest is a sequence of its length, and another for another message.  *)
LEMMA DigestIs ==
    ASSUME CR!CryptAssumption, NEW p
    PROVE  IsSeq(CR!Digest(p)) /\ Len(CR!Digest(p)) = DigestLen
<1> DEFINE S == {CR!DigestByte(CR!FlattenSeq(p), i) : i \in 1..DigestLen}
           t == CR!Digest(p)
<1>1. DigestLen \in Nat
  BY DEF CR!CryptAssumption
<1>2. t \in [1..DigestLen -> S]
  BY DEF CR!Digest
<1> HIDE DEF S, t
<1>3. t \in Seq(S) /\ Len(t) = DigestLen
  BY <1>1, <1>2, SeqDef, LenProperties
<1>. QED
  BY <1>3 DEF t, IsSeq

(* Messages with the same digest are the same.                             *)
LEMMA DigestTells ==
    ASSUME CR!CryptAssumption, NEW p, NEW q, CR!Digest(p) = CR!Digest(q)
    PROVE  FlattenSeq(p) = FlattenSeq(q)
<1>1. PICK u, v : u = CR!FlattenSeq(p) /\ v = CR!FlattenSeq(q)
  OBVIOUS
<1>2. 1 \in 1..DigestLen
  BY DEF CR!CryptAssumption
<1>3. CR!Digest(p)[1] = CR!DigestByte(u, 1) /\ CR!Digest(q)[1] = CR!DigestByte(v, 1)
  BY <1>1, <1>2 DEF CR!Digest
<1>4. CR!DigestByte(u, 1) = CR!DigestByte(v, 1)
  BY <1>3
<1>5. u = v
  BY <1>4 DEF CR!DigestByte
<1>. QED
  BY <1>1, <1>5, SameFlattenCr

(* The digest of round n, made of the key, of the digest before and, in    *)
(* most rounds, of the salt and of the key again.                          *)
RoundStep(key, salt, n, last) ==
    LET odd == (n - 1) % 2 = 1
    IN CR!Digest(<<IF odd THEN key ELSE last,
                   IF (n - 1) % 3 # 0 THEN salt ELSE <<>>,
                   IF (n - 1) % 7 # 0 THEN key ELSE <<>>,
                   IF odd THEN last ELSE key>>)

(* A run of n rounds.                                                      *)
IsRounds(r, key, salt, first, n) ==
    /\ DOMAIN r = 0..n /\ r = [i \in 0..n |-> r[i]] /\ r[0] = first
    /\ \A i \in 1..n : r[i] = RoundStep(key, salt, i, r[i - 1])

(* There are runs of any number of rounds, and they go on as they began.   *)
LEMMA RoundsRun ==
    ASSUME NEW key, NEW salt, NEW first, NEW n \in Nat
    PROVE  \E r : IsRounds(r, key, salt, first, n)
<1> DEFINE T == {m \in Nat : \E r : IsRounds(r, key, salt, first, m)}
<1>1. 0 \in T
  <2>1. PICK r : r = [i \in 0..0 |-> first]
    OBVIOUS
  <2>2. DOMAIN r = 0..0 /\ r[0] = first /\ r = [i \in 0..0 |-> r[i]]
    BY <2>1
  <2>3. IsRounds(r, key, salt, first, 0)
    BY <2>2 DEF IsRounds
  <2>. QED
    BY <2>3
<1>2. ASSUME NEW m \in Nat, m \in T PROVE m + 1 \in T
  <2>1. PICK r : IsRounds(r, key, salt, first, m)
    BY <1>2
  <2>2. PICK k : k = m + 1
    OBVIOUS
  <2>3. k \in Nat /\ k \notin 0..m /\ k - 1 = m /\ 0 \in 0..m /\ 0..m \subseteq 0..k
        /\ \A i \in 1..k : i = k \/ (i \in 1..m /\ i - 1 \in 0..m /\ i \in 0..m)
    BY <2>2
  <2>4. PICK q : q = [i \in 0..k |-> IF i = k THEN RoundStep(key, salt, k, r[m]) ELSE r[i]]
    OBVIOUS
  <2>5. DOMAIN q = 0..k /\ q = [i \in 0..k |-> q[i]]
    BY <2>4
  <2>6. q[k] = RoundStep(key, salt, k, r[m]) /\ \A i \in 0..m : q[i] = r[i]
    BY <2>3, <2>4
  <2>7. q[0] = first
    BY <2>1, <2>3, <2>6 DEF IsRounds
  <2>8. ASSUME NEW i \in 1..k PROVE q[i] = RoundStep(key, salt, i, q[i - 1])
    <3>1. CASE i = k
      <4>1. q[k - 1] = r[m]
        BY <2>3, <2>6
      <4>. QED
        BY <2>6, <3>1, <4>1
    <3>2. CASE i # k
      <4>1. i \in 1..m /\ q[i - 1] = r[i - 1] /\ q[i] = r[i]
        BY <2>3, <2>6, <3>2
      <4>. QED
        BY <2>1, <4>1 DEF IsRounds
    <3>. QED
      BY <3>1, <3>2
  <2>9. IsRounds(q, key, salt, first, k)
    BY <2>5, <2>7, <2>8 DEF IsRounds
  <2>. QED
    BY <2>2, <2>3, <2>9
<1>3. n \in T
  <2> HIDE DEF T
  <2>. QED
    BY <1>1, <1>2, Induction
<1>. QED
  BY <1>3

(* Runs agree as far as both go.                                           *)
LEMMA RoundsAgree ==
    ASSUME NEW key, NEW salt, NEW first, NEW n \in Nat, NEW m \in Nat, NEW q, NEW r,
           IsRounds(q, key, salt, first, n), IsRounds(r, key, salt, first, m),
           NEW k \in 0..n, k \in 0..m
    PROVE  q[k] = r[k]
<1> DEFINE T == {i \in 0..k : q[i] = r[i]}
<1>1. 0 \in T
  BY DEF IsRounds
<1>2. ASSUME NEW i \in 0..k - 1, i \in T PROVE i + 1 \in T
  <2>1. PICK j : j = i + 1
    OBVIOUS
  <2>2. j - 1 = i /\ j \in 1..n /\ j \in 1..m /\ j \in 0..k
    BY <2>1
  <2>3. q[j] = RoundStep(key, salt, j, q[i]) /\ r[j] = RoundStep(key, salt, j, r[i])
    BY <2>2 DEF IsRounds
  <2>4. q[i] = r[i]
    BY <1>2
  <2>5. q[j] = r[j]
    BY <2>3, <2>4
  <2>. QED
    BY <2>1, <2>2, <2>5
<1>3. k \in T
  <2> HIDE DEF T
  <2>1. k \in Nat
    OBVIOUS
  <2>2. 0..k \subseteq T
    BY <1>1, <1>2, <2>1, InductionTo
  <2>. QED
    BY <2>1, <2>2
<1>. QED
  BY <1>3

(* What the recursion of the rounds is at every round.                     *)
LEMMA RoundOfIs ==
    ASSUME NEW key, NEW salt, NEW first
    PROVE  /\ CR!RoundOf(key, salt, first)[0] = first
           /\ \A n \in Nat \ {0} :
                CR!RoundOf(key, salt, first)[n]
                  = RoundStep(key, salt, n, CR!RoundOf(key, salt, first)[n - 1])
<1> DEFINE IsRec(f) == f = [n \in Nat |-> IF n = 0 THEN first ELSE RoundStep(key, salt, n, f[n - 1])]
           f == CHOOSE f : IsRec(f)
<1>1. CR!RoundOf(key, salt, first) = f
  BY Zenon DEF CR!RoundOf, RoundStep
<1>2. \E g : IsRec(g)
  <2> DEFINE R(n) == CHOOSE r : IsRounds(r, key, salt, first, n)
             g == [n \in Nat |-> R(n)[n]]
  <2>1. ASSUME NEW n \in Nat PROVE IsRounds(R(n), key, salt, first, n)
    BY RoundsRun, Zenon
  <2>2. \A n \in Nat : g[n] = R(n)[n]
    OBVIOUS
  <2>3. ASSUME NEW n \in Nat
        PROVE  g[n] = IF n = 0 THEN first ELSE RoundStep(key, salt, n, g[n - 1])
    <3> HIDE DEF R
    <3>1. CASE n = 0
      <4>1. g[n] = R(0)[0]
        BY <3>1
      <4>2. R(0)[0] = first
        BY <2>1 DEF IsRounds
      <4>. QED
        BY <3>1, <4>1, <4>2
    <3>2. CASE n # 0
      <4>1. PICK m : m = n - 1
        OBVIOUS
      <4>2. m \in Nat /\ n \in 1..n /\ m \in 0..n /\ m \in 0..m
        BY <3>2, <4>1
      <4>3. PICK q, r : q = R(n) /\ r = R(m)
        OBVIOUS
      <4>4. IsRounds(q, key, salt, first, n) /\ IsRounds(r, key, salt, first, m)
        BY <2>1, <4>2, <4>3
      <4>5. q[m] = r[m]
        BY <4>2, <4>4, RoundsAgree
      <4>6. q[n] = RoundStep(key, salt, n, q[m])
        BY <4>1, <4>2, <4>4 DEF IsRounds
      <4>7. g[n] = q[n] /\ g[m] = r[m]
        BY <2>2, <4>2, <4>3
      <4>. QED
        BY <3>2, <4>1, <4>5, <4>6, <4>7
    <3>. QED
      BY <3>1, <3>2
  <2> HIDE DEF R
  <2>4. IsRec(g)
    BY <2>3
  <2>. QED
    BY <2>4
<1>3. IsRec(f)
  BY <1>2, Zenon
<1> HIDE DEF f
<1>. QED
  BY <1>1, <1>3

(* A sequence of the size of a digest.                                     *)
Sized(d) == IsSeq(d) /\ Len(d) = DigestLen

(* The length of two sequences joined.                                     *)
LEMMA LenJoin ==
    ASSUME NEW p, NEW q, IsSeq(p), IsSeq(q)
    PROVE  IsSeq(p \o q) /\ Len(p \o q) = Len(p) + Len(q) /\ Len(p) \in Nat /\ Len(q) \in Nat
BY JoinIs DEF Join

(* A round tells keys apart, whatever the digests before it were.          *)
LEMMA RoundTells ==
    ASSUME CR!CryptAssumption, NEW k, NEW l, NEW salt, IsSeq(k), IsSeq(l), IsSeq(salt),
           NEW n, NEW d, NEW e, Sized(d), Sized(e),
           RoundStep(k, salt, n, d) = RoundStep(l, salt, n, e)
    PROVE  k = l
<1> DEFINE odd == (n - 1) % 2 = 1
           third == (n - 1) % 3 # 0
           seventh == (n - 1) % 7 # 0
           a1 == IF odd THEN k ELSE d
           a2 == IF odd THEN l ELSE e
           b == IF third THEN salt ELSE <<>>
           c1 == IF seventh THEN k ELSE <<>>
           c2 == IF seventh THEN l ELSE <<>>
           d1 == IF odd THEN d ELSE k
           d2 == IF odd THEN e ELSE l
<1>1. CR!Digest(<<a1, b, c1, d1>>) = CR!Digest(<<a2, b, c2, d2>>)
  BY DEF RoundStep
<1>2. FlattenSeq(<<a1, b, c1, d1>>) = FlattenSeq(<<a2, b, c2, d2>>)
  BY <1>1, DigestTells
<1>3. IsSeq(a1) /\ IsSeq(a2) /\ IsSeq(b) /\ IsSeq(c1) /\ IsSeq(c2) /\ IsSeq(d1) /\ IsSeq(d2)
  BY NothingIsSeq DEF Sized
<1>4. (odd /\ a1 = k /\ a2 = l /\ d1 = d /\ d2 = e) \/ (a1 = d /\ a2 = e /\ d1 = k /\ d2 = l)
  OBVIOUS
<1>5. (c1 = k /\ c2 = l) \/ (c1 = <<>> /\ c2 = <<>>)
  OBVIOUS
<1> HIDE DEF odd, third, seventh, a1, a2, b, c1, c2, d1, d2
<1>6. ((a1 \o b) \o c1) \o d1 = ((a2 \o b) \o c2) \o d2
  <2>1. Flattened(a1, b, c1, d1) /\ Flattened(a2, b, c2, d2)
    BY <1>3, FlattenFew, Zenon
  <2>2. FlattenSeq(<<a1, b, c1, d1>>) = ((a1 \o b) \o c1) \o d1
        /\ FlattenSeq(<<a2, b, c2, d2>>) = ((a2 \o b) \o c2) \o d2
    BY <2>1, Zenon DEF Flattened
  <2>. QED
    BY <1>2, <2>2, Zenon
<1>7. PICK f1, f2, g1, g2 : f1 = a1 \o b /\ f2 = a2 \o b /\ g1 = f1 \o c1 /\ g2 = f2 \o c2
  OBVIOUS
<1>8. g1 \o d1 = g2 \o d2
  BY <1>6, <1>7
<1>9. IsSeq(f1) /\ IsSeq(f2) /\ Len(f1) = Len(a1) + Len(b) /\ Len(f2) = Len(a2) + Len(b)
  BY <1>3, <1>7, LenJoin
<1>10. IsSeq(g1) /\ IsSeq(g2) /\ Len(g1) = Len(f1) + Len(c1) /\ Len(g2) = Len(f2) + Len(c2)
  BY <1>3, <1>7, <1>9, LenJoin
<1>11. Len(g1) + Len(d1) = Len(g2) + Len(d2)
  BY <1>3, <1>8, <1>10, LenJoin
<1>12. /\ Len(a1) \in Nat /\ Len(a2) \in Nat /\ Len(b) \in Nat /\ Len(c1) \in Nat /\ Len(c2) \in Nat
       /\ Len(d1) \in Nat /\ Len(d2) \in Nat
  BY <1>3, LenJoin
<1>13. Len(k) = Len(l)
  <2>1. Len(d) = Len(e) /\ Len(<<>>) = 0
    BY NothingIsSeq DEF Sized
  <2>2. Len(a1) + Len(b) + Len(c1) + Len(d1) = Len(a2) + Len(b) + Len(c2) + Len(d2)
    BY <1>9, <1>10, <1>11
  <2>3. PICK x, y, z : x = Len(k) /\ y = Len(l) /\ z = Len(d)
    OBVIOUS
  <2>4. (Len(a1) = x /\ Len(a2) = y /\ Len(d1) = z /\ Len(d2) = z)
        \/ (Len(a1) = z /\ Len(a2) = z /\ Len(d1) = x /\ Len(d2) = y)
    BY <1>4, <2>1, <2>3
  <2>5. (Len(c1) = x /\ Len(c2) = y) \/ (Len(c1) = 0 /\ Len(c2) = 0)
    BY <1>5, <2>1, <2>3
  <2>6. x = y
    BY <1>12, <2>2, <2>4, <2>5
  <2>. QED
    BY <2>3, <2>6
<1>14. CASE a1 = d /\ a2 = e /\ d1 = k /\ d2 = l
  <2>1. SameJoin(g1, d1, g2, d2)
    BY <1>3, <1>8, <1>10, <1>13, <1>14 DEF SameJoin
  <2>. QED
    BY <1>14, <2>1, JoinTells, Zenon
<1>15. CASE a1 = k /\ a2 = l /\ d1 = d /\ d2 = e
  <2>1. Len(d1) = Len(d2)
    BY <1>15 DEF Sized
  <2>2. g1 = g2
    <3>1. SameJoin(g1, d1, g2, d2)
      BY <1>3, <1>8, <1>10, <2>1 DEF SameJoin
    <3>. QED
      BY <3>1, JoinTells, Zenon
  <2>3. Len(c1) = Len(c2)
    BY <1>5, <1>13
  <2>4. f1 \o c1 = f2 \o c2
    BY <1>7, <2>2
  <2>5. f1 = f2
    <3>1. SameJoin(f1, c1, f2, c2)
      BY <1>3, <1>9, <2>3, <2>4 DEF SameJoin
    <3>. QED
      BY <3>1, JoinTells, Zenon
  <2>6. SameJoin(a1, b, a2, b)
    BY <1>3, <1>7, <2>5 DEF SameJoin
  <2>. QED
    BY <1>15, <2>6, JoinTells, Zenon
<1>. QED
  BY <1>4, <1>14, <1>15

(* The digest of md5_crypt.                                                *)
Hashed(key, salt) ==
    CR!RoundOf(key, salt,
               CR!Digest(<<key, CR!Prefix, salt,
                           CR!Cycle(CR!Digest(<<key, salt, key>>), Len(key)), CR!Bits(key)>>))[Rounds]

(* It is a digest, and the last round makes it of another.                 *)
LEMMA HashedIs ==
    ASSUME CR!CryptAssumption, NEW key, NEW salt
    PROVE  /\ Sized(Hashed(key, salt))
           /\ \E d : Sized(d) /\ Hashed(key, salt) = RoundStep(key, salt, Rounds, d)
<1>1. PICK first : first = CR!Digest(<<key, CR!Prefix, salt,
                           CR!Cycle(CR!Digest(<<key, salt, key>>), Len(key)), CR!Bits(key)>>)
  OBVIOUS
<1>2. PICK f : f = CR!RoundOf(key, salt, first)
  OBVIOUS
<1>3. f[0] = first /\ \A n \in Nat \ {0} : f[n] = RoundStep(key, salt, n, f[n - 1])
  BY <1>2, RoundOfIs
<1>4. Sized(first)
  BY <1>1, DigestIs DEF Sized
<1>5. ASSUME NEW n, NEW d PROVE Sized(RoundStep(key, salt, n, d))
  BY DigestIs DEF Sized, RoundStep
<1>6. Rounds \in Nat \ {0}
  BY DEF CR!CryptAssumption
<1>7. PICK m : m = Rounds - 1
  OBVIOUS
<1>8. m \in Nat /\ (m = 0 \/ m \in Nat \ {0})
  BY <1>6, <1>7
<1>9. Sized(f[m])
  BY <1>3, <1>4, <1>5, <1>8
<1>10. f[Rounds] = RoundStep(key, salt, Rounds, f[m])
  BY <1>3, <1>6, <1>7
<1>11. Hashed(key, salt) = f[Rounds]
  BY <1>1, <1>2 DEF Hashed
<1>. QED
  BY <1>5, <1>9, <1>10, <1>11

(* It tells keys apart.                                                    *)
LEMMA HashedTells ==
    ASSUME CR!CryptAssumption, NEW k, NEW l, NEW salt, IsSeq(k), IsSeq(l), IsSeq(salt),
           Hashed(k, salt) = Hashed(l, salt)
    PROVE  k = l
<1>1. PICK d : Sized(d) /\ Hashed(k, salt) = RoundStep(k, salt, Rounds, d)
  BY HashedIs
<1>2. PICK e : Sized(e) /\ Hashed(l, salt) = RoundStep(l, salt, Rounds, e)
  BY HashedIs
<1>3. RoundStep(k, salt, Rounds, d) = RoundStep(l, salt, Rounds, e)
  BY <1>1, <1>2
<1>. QED
  BY <1>1, <1>2, <1>3, RoundTells

(* One sequence is the beginning of another.                               *)
Begins(p, s) == Len(p) <= Len(s) /\ \A i \in 1..Len(p) : s[i] = p[i]

(* IsPrefix looks at the first characters.                                 *)
LEMMA PrefixIs ==
    ASSUME NEW p, NEW s, IsSeq(p), IsSeq(s)
    PROVE  CR!IsPrefix(p, s) <=> Begins(p, s)
<1>1. PICK S : p \in Seq(S) /\ s \in Seq(S)
  BY OneSet
<1>2. PICK a, b, t : a = Len(p) /\ b = Len(s) /\ t = SubSeq(s, 1, a)
  OBVIOUS
<1>3. a \in Nat /\ b \in Nat
  BY <1>1, <1>2, LenProperties
<1>4. SubSeq(p, 1, a) = p
  <2>1. a \in 0..Len(p)
    BY <1>2, <1>3
  <2>2. PICK u : u = SubSeq(p, 1, a)
    OBVIOUS
  <2>3. u \in Seq(S) /\ Len(u) = a /\ \A j \in 1..a : u[j] = p[j]
    BY <1>1, <2>1, <2>2, FirstIs
  <2>4. u = p
    BY <1>1, <1>2, <2>3, SeqEqual
  <2>. QED
    BY <2>2, <2>4
<1>5. CR!IsPrefix(p, s) <=> a <= b /\ p = t
  BY <1>2, <1>4, Zenon DEF CR!IsPrefix
<1>6. Begins(p, s) <=> a <= b /\ \A i \in 1..a : s[i] = p[i]
  BY <1>2 DEF Begins
<1>7. ASSUME a <= b PROVE p = t <=> \A i \in 1..a : s[i] = p[i]
  <2>1. a \in 0..Len(s)
    BY <1>2, <1>3, <1>7
  <2>2. t \in Seq(S) /\ Len(t) = a /\ \A j \in 1..a : t[j] = s[j]
    BY <1>1, <1>2, <2>1, FirstIs
  <2>3. ASSUME \A i \in 1..a : s[i] = p[i] PROVE p = t
    BY <1>1, <1>2, <2>2, <2>3, SeqEqual
  <2>4. ASSUME p = t PROVE \A i \in 1..a : s[i] = p[i]
    BY <2>2, <2>4
  <2>. QED
    BY <2>3, <2>4
<1>. QED
  BY <1>5, <1>6, <1>7

(* The character that ends a salt.                                         *)
Dollar == CR!Char("$")

(* What the marks of the forms begin with.                                 *)
LEMMA MarksAre ==
    /\ IsSeq(CR!Prefix) /\ Len(CR!Prefix) = 3 /\ CR!Prefix[1] = Dollar /\ CR!Prefix[2] = CR!Char("1")
    /\ CR!Prefix[3] = Dollar
    /\ IsSeq(CR!NullPrefix) /\ Len(CR!NullPrefix) = 3 /\ CR!NullPrefix[1] = Dollar
    /\ CR!NullPrefix[2] = CR!Char("0") /\ CR!NullPrefix[3] = Dollar
    /\ IsSeq(CR!OldCode) /\ Len(CR!OldCode) = 1 /\ CR!OldCode[1] = CR!Char("3")
    /\ IsSeq(CR!Chars(<<"r", "r">>)) /\ Len(CR!Chars(<<"r", "r">>)) = 2
    /\ CR!Chars(<<"r", "r">>)[1] = CR!Char("r")
    /\ IsSeq(CR!Chars(<<"$">>)) /\ Len(CR!Chars(<<"$">>)) = 1 /\ CR!Chars(<<"$">>)[1] = Dollar
<1>1. PICK S, a, f, z, g, h : S = {a, f, z, g, h} /\ a = "$" /\ f = "1" /\ z = "0" /\ g = "3" /\ h = "r"
  OBVIOUS
<1>2. a \in S /\ f \in S /\ z \in S /\ g \in S /\ h \in S
  BY <1>1
<1>3. PICK p, n, o, r, d : p = <<a, f, a>> /\ n = <<a, z, a>> /\ o = <<g>> /\ r = <<h, h>> /\ d = <<a>>
  OBVIOUS
<1>4. p \in Seq(S) /\ Len(p) = 3 /\ p[1] = a /\ p[2] = f /\ p[3] = a
  BY <1>2, <1>3
<1>5. n \in Seq(S) /\ Len(n) = 3 /\ n[1] = a /\ n[2] = z /\ n[3] = a
  BY <1>2, <1>3
<1>6. o \in Seq(S) /\ Len(o) = 1 /\ o[1] = g
  BY <1>2, <1>3
<1>7. r \in Seq(S) /\ Len(r) = 2 /\ r[1] = h
  BY <1>2, <1>3
<1>8. d \in Seq(S) /\ Len(d) = 1 /\ d[1] = a
  BY <1>2, <1>3
<1>9. Dollar = CR!Char(a)
  BY <1>1 DEF Dollar
<1>10. IsSeq(CR!Chars(p)) /\ Len(CR!Chars(p)) = 3 /\ CR!Chars(p)[1] = Dollar
      /\ CR!Chars(p)[2] = CR!Char("1") /\ CR!Chars(p)[3] = Dollar
  BY <1>1, <1>4, <1>9, CharsIs
<1>11. IsSeq(CR!Chars(n)) /\ Len(CR!Chars(n)) = 3 /\ CR!Chars(n)[1] = Dollar
      /\ CR!Chars(n)[2] = CR!Char("0") /\ CR!Chars(n)[3] = Dollar
  BY <1>1, <1>5, <1>9, CharsIs
<1>12. IsSeq(CR!Chars(o)) /\ Len(CR!Chars(o)) = 1 /\ CR!Chars(o)[1] = CR!Char("3")
  <2>1. IsSeq(CR!Chars(o)) /\ Len(CR!Chars(o)) = Len(o)
        /\ \A i \in 1..Len(o) : CR!Chars(o)[i] = CR!Char(o[i])
    BY <1>6, CharsIs
  <2>2. 1 \in 1..Len(o)
    BY <1>6
  <2>3. CR!Chars(o)[1] = CR!Char(g)
    BY <1>6, <2>1, <2>2
  <2>. QED
    BY <1>1, <1>6, <2>1, <2>3
<1>13. IsSeq(CR!Chars(r)) /\ Len(CR!Chars(r)) = 2 /\ CR!Chars(r)[1] = CR!Char("r")
  BY <1>1, <1>7, CharsIs
<1>14. IsSeq(CR!Chars(d)) /\ Len(CR!Chars(d)) = 1 /\ CR!Chars(d)[1] = Dollar
  BY <1>1, <1>8, <1>9, CharsIs
<1>15. CR!Prefix = CR!Chars(p) /\ CR!NullPrefix = CR!Chars(n) /\ CR!OldCode = CR!Chars(o)
       /\ CR!Chars(<<"r", "r">>) = CR!Chars(r) /\ CR!Chars(<<"$">>) = CR!Chars(d)
  BY <1>1, <1>3 DEF CR!Prefix, CR!NullPrefix, CR!OldCode
<1>. QED
  BY <1>10, <1>11, <1>12, <1>13, <1>14, <1>15

(* The characters of the marks differ.                                     *)
LEMMA CharsDiffer ==
    /\ Dollar # CR!Char("3") /\ Dollar # CR!Char("r") /\ CR!Char("1") # CR!Char("0")
    /\ CR!Char("3") # CR!Char("r") /\ CR!NUL # Dollar /\ CR!NUL # CR!Char("0")
BY DEF Dollar, CR!Char, CR!NUL

(* c is what precedes the first NUL of s.                                  *)
IsCStr(c, s) ==
    /\ IsSeq(c) /\ Len(c) \in Nat /\ Len(s) \in Nat /\ Len(c) <= Len(s)
    /\ \A j \in 1..Len(c) : c[j] = s[j] /\ s[j] # CR!NUL
    /\ Len(c) = Len(s) \/ s[Len(c) + 1] = CR!NUL

(* c_str() gives what precedes the first NUL.                              *)
LEMMA CStrIs ==
    ASSUME NEW s, IsSeq(s)
    PROVE  IsCStr(CR!CStr(s), s)
<1>1. PICK S : s \in Seq(S)
  BY DEF IsSeq
<1>2. PICK n : n = Len(s)
  OBVIOUS
<1>3. n \in Nat
  BY <1>1, <1>2, LenProperties
<1> DEFINE nul == {i \in 1..n : s[i] = CR!NUL}
           k == CHOOSE i \in nul : \A j \in nul : i <= j
<1>4. CR!CStr(s) = IF nul = {} THEN s ELSE SubSeq(s, 1, k - 1)
  BY <1>2 DEF CR!CStr
<1>5. CASE nul = {}
  <2>1. CR!CStr(s) = s
    BY <1>4, <1>5
  <2>2. \A j \in 1..n : s[j] # CR!NUL
    BY <1>5
  <2>. QED
    BY <1>2, <1>3, <2>1, <2>2 DEF IsCStr
<1>6. CASE nul # {}
  <2>1. \E i \in nul : \A j \in nul : i <= j
    <3>1. nul \subseteq Nat
      OBVIOUS
    <3> HIDE DEF nul
    <3>. QED
      BY <1>6, <3>1, LeastOf
  <2>2. k \in nul /\ \A j \in nul : k <= j
    BY <2>1, Zenon
  <2>3. k \in 1..n /\ s[k] = CR!NUL /\ \A j \in 1..n : s[j] = CR!NUL => k <= j
    BY <2>2
  <2>4. CR!CStr(s) = SubSeq(s, 1, k - 1)
    BY <1>4, <1>6
  <2> HIDE DEF k, nul
  <2>5. PICK l, c : l = k - 1 /\ c = CR!CStr(s)
    OBVIOUS
  <2>6. l \in 0..Len(s) /\ l \in Nat /\ l + 1 = k /\ l <= n
    BY <1>2, <1>3, <2>3, <2>5
  <2>7. c = SubSeq(s, 1, l)
    BY <2>4, <2>5
  <2>8. c \in Seq(S) /\ Len(c) = l /\ \A j \in 1..l : c[j] = s[j]
    BY <1>1, <2>6, <2>7, FirstIs
  <2>9. ASSUME NEW j \in 1..l PROVE s[j] # CR!NUL
    <3>1. j \in 1..n /\ ~(k <= j)
      BY <1>3, <2>3, <2>6
    <3>. QED
      BY <2>3, <3>1
  <2>10. s[l + 1] = CR!NUL
    BY <2>3, <2>6
  <2>11. IsCStr(c, s)
    BY <1>2, <1>3, <2>6, <2>8, <2>9, <2>10 DEF IsCStr, IsSeq
  <2>. QED
    BY <2>5, <2>11
<1>. QED
  BY <1>5, <1>6

(* There is only one such string.                                          *)
LEMMA CStrIsOne ==
    ASSUME NEW s, NEW c, NEW d, IsCStr(c, s), IsCStr(d, s)
    PROVE  c = d
<1>1. PICK a, b : a = Len(c) /\ b = Len(d)
  OBVIOUS
<1>2. /\ a \in Nat /\ b \in Nat /\ Len(s) \in Nat /\ a <= Len(s) /\ b <= Len(s)
      /\ \A j \in 1..a : c[j] = s[j] /\ s[j] # CR!NUL
      /\ \A j \in 1..b : d[j] = s[j] /\ s[j] # CR!NUL
      /\ a = Len(s) \/ s[a + 1] = CR!NUL
      /\ b = Len(s) \/ s[b + 1] = CR!NUL
      /\ IsSeq(c) /\ IsSeq(d)
  BY <1>1 DEF IsCStr
<1>3. ~(a < b)
  <2>1. ASSUME a < b PROVE FALSE
    <3>1. a + 1 \in 1..b /\ a # Len(s)
      BY <1>2, <2>1
    <3>. QED
      BY <1>2, <3>1
  <2>. QED
    BY <2>1
<1>4. ~(b < a)
  <2>1. ASSUME b < a PROVE FALSE
    <3>1. b + 1 \in 1..a /\ b # Len(s)
      BY <1>2, <2>1
    <3>. QED
      BY <1>2, <3>1
  <2>. QED
    BY <2>1
<1>5. a = b
  BY <1>2, <1>3, <1>4
<1>6. \A j \in 1..a : c[j] = d[j]
  BY <1>2, <1>5
<1>. QED
  BY <1>1, <1>2, <1>5, <1>6, SamePlaces

(* The mark of a password in the clear has no NUL.                         *)
LEMMA NullCryptIs ==
    ASSUME NEW p, IsSeq(p)
    PROVE  CR!CStr(CR!NullCrypt(p)) = CR!NullPrefix \o CR!CStr(p)
<1>1. PICK m, c, w, v : m = CR!NullPrefix /\ c = CR!CStr(p) /\ w = m \o p /\ v = m \o c
  OBVIOUS
<1>2. IsSeq(m) /\ Len(m) = 3 /\ \A j \in 1..3 : m[j] # CR!NUL
  <2>1. m[1] # CR!NUL /\ m[2] # CR!NUL /\ m[3] # CR!NUL
    BY <1>1, MarksAre, CharsDiffer
  <2>2. \A j \in 1..3 : j = 1 \/ j = 2 \/ j = 3
    OBVIOUS
  <2>3. IsSeq(m) /\ Len(m) = 3
    BY <1>1, MarksAre
  <2>. QED
    BY <2>1, <2>2, <2>3
<1>3. IsCStr(c, p)
  BY <1>1, CStrIs
<1>4. IsSeq(c)
  BY <1>3 DEF IsCStr
<1>5. Join(w, m, p) /\ Join(v, m, c)
  BY <1>1, <1>2, <1>4, JoinIs
<1> DEFINE a == Len(c)
           b == Len(p)
<1>6. /\ a \in Nat /\ b \in Nat /\ a <= b
      /\ \A j \in 1..a : c[j] = p[j] /\ p[j] # CR!NUL
      /\ a = b \/ p[a + 1] = CR!NUL
  BY <1>3 DEF IsCStr
<1>7. /\ IsSeq(w) /\ Len(w) = 3 + b
      /\ \A j \in 1..3 : w[j] = m[j]
      /\ \A j \in 1..b : w[3 + j] = p[j]
  BY <1>2, <1>5 DEF Join
<1>8. /\ IsSeq(v) /\ Len(v) = 3 + a
      /\ \A j \in 1..3 : v[j] = m[j]
      /\ \A j \in 1..a : v[3 + j] = c[j]
  BY <1>2, <1>5 DEF Join
<1> HIDE DEF a, b
<1>9. ASSUME NEW j \in 1..3 + a PROVE v[j] = w[j] /\ w[j] # CR!NUL
  <2>1. CASE j \in 1..3
    BY <1>2, <1>7, <1>8, <2>1
  <2>2. CASE j \notin 1..3
    <3>1. PICK i : i = j - 3
      OBVIOUS
    <3>2. i \in 1..a /\ i \in 1..b /\ j = 3 + i
      BY <1>6, <2>2, <3>1
    <3>3. v[3 + i] = c[i] /\ w[3 + i] = p[i] /\ c[i] = p[i] /\ p[i] # CR!NUL
      BY <1>6, <1>7, <1>8, <3>2
    <3>. QED
      BY <3>2, <3>3
  <2>. QED
    BY <2>1, <2>2
<1>10. Len(v) = Len(w) \/ w[Len(v) + 1] = CR!NUL
  <2>1. CASE a = b
    BY <1>7, <1>8, <2>1
  <2>2. CASE a # b
    <3>1. a + 1 \in 1..b /\ Len(v) + 1 = 3 + (a + 1)
      BY <1>6, <1>8, <2>2
    <3>2. w[3 + (a + 1)] = p[a + 1]
      BY <1>7, <3>1
    <3>. QED
      BY <1>6, <2>2, <3>1, <3>2
  <2>. QED
    BY <2>1, <2>2
<1>11. IsCStr(v, w)
  BY <1>6, <1>7, <1>8, <1>9, <1>10 DEF IsCStr
<1>12. IsSeq(w)
  BY <1>7
<1>13. CR!CStr(w) = v
  BY <1>11, <1>12, CStrIs, CStrIsOne
<1>. QED
  BY <1>1, <1>13 DEF CR!NullCrypt

(* A salt as it is used: not too long, and without what ends a salt.       *)
IsSalt(t) == IsSeq(t) /\ Len(t) \in Nat /\ Len(t) <= SaltMax /\ \A j \in 1..Len(t) : t[j] # Dollar

(* t begins with the salt c, and c ends where a salt does.                 *)
Salted(c, t) ==
    /\ IsSalt(c) /\ Len(t) \in Nat /\ Len(c) <= Len(t)
    /\ \A j \in 1..Len(c) : c[j] = t[j]
    /\ Len(c) = SaltMax \/ Len(c) = Len(t) \/ t[Len(c) + 1] = Dollar

(* There is only one such salt.                                            *)
LEMMA SaltedOne ==
    ASSUME NEW t, NEW c, NEW d, Salted(c, t), Salted(d, t), SaltMax \in Nat
    PROVE  c = d
<1>1. PICK a, b : a = Len(c) /\ b = Len(d)
  OBVIOUS
<1>2. /\ a \in Nat /\ b \in Nat /\ Len(t) \in Nat /\ a <= Len(t) /\ b <= Len(t)
      /\ a <= SaltMax /\ b <= SaltMax
      /\ \A j \in 1..a : c[j] = t[j] /\ c[j] # Dollar
      /\ \A j \in 1..b : d[j] = t[j] /\ d[j] # Dollar
      /\ a = SaltMax \/ a = Len(t) \/ t[a + 1] = Dollar
      /\ b = SaltMax \/ b = Len(t) \/ t[b + 1] = Dollar
      /\ IsSeq(c) /\ IsSeq(d)
  BY <1>1 DEF Salted, IsSalt
<1>3. ~(a < b)
  <2>1. ASSUME a < b PROVE FALSE
    <3>1. a + 1 \in 1..b /\ a # Len(t) /\ a # SaltMax
      BY <1>2, <2>1
    <3>. QED
      BY <1>2, <3>1
  <2>. QED
    BY <2>1
<1>4. ~(b < a)
  <2>1. ASSUME b < a PROVE FALSE
    <3>1. b + 1 \in 1..a /\ b # Len(t) /\ b # SaltMax
      BY <1>2, <2>1
    <3>. QED
      BY <1>2, <3>1
  <2>. QED
    BY <2>1
<1>5. a = b
  BY <1>2, <1>3, <1>4
<1>6. \A j \in 1..a : c[j] = d[j]
  BY <1>2, <1>5
<1>. QED
  BY <1>1, <1>2, <1>5, <1>6, SamePlaces

(* What follows the mark of the form, if it is there.                      *)
LEMMA SkipIs ==
    ASSUME NEW s, IsSeq(s)
    PROVE  /\ IsSeq(CR!SkipPrefix(s))
           /\ Begins(CR!Prefix, s) =>
                /\ Len(s) \in Nat /\ 3 <= Len(s) /\ Len(CR!SkipPrefix(s)) = Len(s) - 3
                /\ \A j \in 1..Len(s) - 3 : CR!SkipPrefix(s)[j] = s[3 + j]
<1>1. PICK S : s \in Seq(S)
  BY DEF IsSeq
<1>2. CR!IsPrefix(CR!Prefix, s) <=> Begins(CR!Prefix, s)
  BY PrefixIs, MarksAre
<1>3. CR!SkipPrefix(s) = IF Begins(CR!Prefix, s) THEN SubSeq(s, 4, Len(s)) ELSE s
  BY <1>2 DEF CR!SkipPrefix
<1>4. CASE ~Begins(CR!Prefix, s)
  BY <1>3, <1>4
<1>5. CASE Begins(CR!Prefix, s)
  <2>1. PICK a, b, m, w : a = 3 /\ b = 4 /\ m = Len(s) /\ w = CR!SkipPrefix(s)
    OBVIOUS
  <2>2. m \in Nat /\ a \in Nat /\ a <= m /\ m <= Len(s) /\ b = a + 1
    BY <1>1, <1>5, <2>1, MarksAre, LenProperties DEF Begins
  <2>3. w = SubSeq(s, b, m)
    BY <1>3, <1>5, <2>1
  <2>4. w \in Seq(S) /\ Len(w) = m - a /\ \A j \in 1..m - a : w[j] = s[a + j]
    BY <1>1, <2>2, <2>3, CutAs
  <2>. QED
    BY <2>1, <2>2, <2>4 DEF IsSeq
<1>. QED
  BY <1>4, <1>5

(* The salt that is looked for is one, and ends where a salt does.         *)
LEMMA SaltOfIs ==
    ASSUME NEW s, IsSeq(s), SaltMax \in Nat
    PROVE  Salted(CR!SaltOf(s), CR!SkipPrefix(s))
<1>1. PICK t, n : t = CR!SkipPrefix(s) /\ n = Len(t)
  OBVIOUS
<1>2. IsSeq(t)
  BY <1>1, SkipIs
<1>3. PICK S : t \in Seq(S)
  BY <1>2 DEF IsSeq
<1>4. n \in Nat
  BY <1>1, <1>3, LenProperties
<1> DEFINE cut == {i \in 0..n : i = SaltMax \/ i = n \/ t[i + 1] = Dollar}
           k == CHOOSE i \in cut : \A j \in cut : i <= j
<1>5. CR!SaltOf(s) = SubSeq(t, 1, k)
  BY <1>1 DEF CR!SaltOf, Dollar
<1>6. k \in cut /\ \A j \in cut : k <= j
  <2>1. cut \subseteq Nat /\ n \in cut
    BY <1>4
  <2> HIDE DEF cut
  <2>2. \E i \in cut : \A j \in cut : i <= j
    BY <2>1, LeastOf
  <2>. QED
    BY <2>2, Zenon
<1>7. k \in 0..n /\ (k = SaltMax \/ k = n \/ t[k + 1] = Dollar)
  BY <1>6
<1>8. \A j \in 0..n : (j = SaltMax \/ j = n \/ t[j + 1] = Dollar) => k <= j
  BY <1>6
<1> HIDE DEF k, cut
<1>9. k <= SaltMax
  BY <1>4, <1>7, <1>8
<1>10. PICK c : c = CR!SaltOf(s)
  OBVIOUS
<1>11. c \in Seq(S) /\ Len(c) = k /\ \A j \in 1..k : c[j] = t[j]
  BY <1>1, <1>3, <1>5, <1>7, <1>10, FirstIs
<1>12. ASSUME NEW j \in 1..k PROVE c[j] # Dollar
  <2>1. PICK i : i = j - 1
    OBVIOUS
  <2>2. i \in 0..n /\ ~(k <= i) /\ i + 1 = j
    BY <1>4, <1>7, <2>1
  <2>3. t[i + 1] # Dollar
    BY <1>8, <2>2
  <2>. QED
    BY <1>11, <2>2, <2>3
<1>13. IsSalt(c)
  BY <1>4, <1>7, <1>9, <1>11, <1>12 DEF IsSalt, IsSeq
<1>14. Salted(c, t)
  BY <1>1, <1>4, <1>7, <1>11, <1>13 DEF Salted
<1>. QED
  BY <1>1, <1>10, <1>14

(* What md5_crypt stores.                                                  *)
Md5Stored(salt, h) == ((CR!Prefix \o salt) \o CR!Chars(<<"$">>)) \o h

(* This is what md5_crypt_r computes.                                      *)
LEMMA Md5CryptIs ==
    ASSUME NEW k, NEW s
    PROVE  CR!Md5Crypt(k, s) = Md5Stored(CR!SaltOf(s), Hashed(k, CR!SaltOf(s)))
BY DEF CR!Md5Crypt, Md5Stored, Hashed

(* Its salt is found again, and its digest.                                *)
LEMMA StoredSalt ==
    ASSUME SaltMax \in Nat, NEW salt, NEW h, IsSalt(salt), IsSeq(h)
    PROVE  /\ IsSeq(Md5Stored(salt, h)) /\ Begins(CR!Prefix, Md5Stored(salt, h))
           /\ Len(Md5Stored(salt, h)) = Len(salt) + Len(h) + 4 /\ Len(h) \in Nat /\ Len(salt) \in Nat
           /\ CR!SaltOf(Md5Stored(salt, h)) = salt
<1>1. PICK m, d, u, v, w : m = CR!Prefix /\ d = CR!Chars(<<"$">>) /\ u = m \o salt /\ v = u \o d
                           /\ w = v \o h
  OBVIOUS
<1>2. IsSeq(m) /\ Len(m) = 3 /\ IsSeq(d) /\ Len(d) = 1 /\ d[1] = Dollar /\ IsSeq(salt)
  BY <1>1, MarksAre DEF IsSalt
<1>3. Join(u, m, salt)
  BY <1>1, <1>2, JoinIs
<1>4. Join(v, u, d)
  <2>1. IsSeq(u)
    BY <1>3 DEF Join
  <2>. QED
    BY <1>1, <1>2, <2>1, JoinIs
<1>5. Join(w, v, h)
  <2>1. IsSeq(v)
    BY <1>4 DEF Join
  <2>. QED
    BY <1>1, <2>1, JoinIs
<1>6. PICK a, b : a = Len(salt) /\ b = Len(h)
  OBVIOUS
<1>7. /\ a \in Nat /\ Len(u) = 3 + a
      /\ \A j \in 1..3 : u[j] = m[j]
      /\ \A j \in 1..a : u[3 + j] = salt[j]
  BY <1>2, <1>3, <1>6 DEF Join
<1>8. /\ Len(v) = 3 + a + 1
      /\ \A j \in 1..3 + a : v[j] = u[j]
      /\ v[3 + a + 1] = Dollar
  <2>1. /\ Len(v) = Len(u) + Len(d)
        /\ \A j \in 1..Len(u) : v[j] = u[j]
        /\ \A j \in 1..Len(d) : v[Len(u) + j] = d[j]
    BY <1>4 DEF Join
  <2>2. 1 \in 1..Len(d)
    BY <1>2
  <2>. QED
    BY <1>2, <1>7, <2>1, <2>2
<1>9. /\ IsSeq(w) /\ b \in Nat /\ Len(w) = 3 + a + 1 + b
      /\ \A j \in 1..3 + a + 1 : w[j] = v[j]
  BY <1>5, <1>6, <1>8 DEF Join
<1>10. \A j \in 1..3 : w[j] = m[j]
  BY <1>7, <1>8, <1>9
<1>11. \A j \in 1..a : w[3 + j] = salt[j]
  <2>1. ASSUME NEW j \in 1..a PROVE w[3 + j] = salt[j]
    <3>1. 3 + j \in 1..3 + a /\ 3 + j \in 1..3 + a + 1
      BY <1>7
    <3>. QED
      BY <1>7, <1>8, <1>9, <3>1
  <2>. QED
    BY <2>1
<1>12. w[3 + (a + 1)] = Dollar
  <2>1. 3 + a + 1 \in 1..3 + a + 1 /\ 3 + (a + 1) = 3 + a + 1
    BY <1>7
  <2>. QED
    BY <1>8, <1>9, <2>1
<1>13. Begins(m, w)
  BY <1>2, <1>7, <1>9, <1>10 DEF Begins
<1>14. PICK t : t = CR!SkipPrefix(w)
  OBVIOUS
<1>15. Len(t) = Len(w) - 3 /\ \A j \in 1..Len(w) - 3 : t[j] = w[3 + j]
  <2>1. Begins(CR!Prefix, w)
    BY <1>1, <1>13
  <2>2. /\ Len(CR!SkipPrefix(w)) = Len(w) - 3
        /\ \A j \in 1..Len(w) - 3 : CR!SkipPrefix(w)[j] = w[3 + j]
    BY <1>9, <2>1, SkipIs
  <2>. QED
    BY <1>14, <2>2
<1>16. Len(t) = a + 1 + b
  BY <1>7, <1>9, <1>15
<1>17. \A j \in 1..a : t[j] = salt[j]
  BY <1>7, <1>9, <1>11, <1>15
<1>18. t[a + 1] = Dollar
  BY <1>7, <1>9, <1>12, <1>15
<1>19. Salted(salt, t)
  BY <1>6, <1>7, <1>9, <1>16, <1>17, <1>18 DEF Salted
<1>20. Salted(CR!SaltOf(w), t)
  BY <1>9, <1>14, SaltOfIs
<1>21. CR!SaltOf(w) = salt
  BY <1>19, <1>20, SaltedOne
<1>22. w = Md5Stored(salt, h)
  BY <1>1 DEF Md5Stored
<1>23. Len(w) = a + b + 4
  BY <1>7, <1>9
<1>. QED
  BY <1>1, <1>6, <1>7, <1>9, <1>13, <1>21, <1>22, <1>23

(* The passwords are sequences, and so is what is hashed of them.          *)
LEMMA PasswordsAre ==
    ASSUME CR!CryptAssumption
    PROVE  /\ \A p \in CR!Candidates : IsSeq(p) /\ IsSeq(CR!CStr(p))
           /\ \A salt \in Salts : IsSeq(CR!Chars(salt))
           /\ IsSeq(CR!NewSalt) /\ IsSeq(CR!Prefix \o CR!NewSalt)
           /\ \A salt \in Salts : IsSeq(CR!Prefix \o CR!Chars(salt))
<1>1. Passwords \subseteq Seq(STRING) /\ Salts \subseteq Seq(STRING) /\ SaltMax \in Nat
  BY DEF CR!CryptAssumption
<1>2. ASSUME NEW p \in CR!Candidates PROVE IsSeq(p) /\ IsSeq(CR!CStr(p))
  <2>1. PICK w \in Passwords : p = CR!Chars(w)
    BY DEF CR!Candidates
  <2>2. IsSeq(p)
    BY <1>1, <2>1, CharsIs
  <2>. QED
    BY <2>2, CStrIs DEF IsCStr
<1>3. \A salt \in Salts : IsSeq(CR!Chars(salt))
  BY <1>1, CharsIs
<1>4. IsSeq(CR!NewSalt)
  <2>1. PICK n, S : n = CR!NewSalt /\ S = {CR!Char("r")}
    OBVIOUS
  <2>2. n \in [1..SaltMax -> S]
    BY <2>1 DEF CR!NewSalt
  <2>3. n \in Seq(S)
    BY <1>1, <2>2, SeqDef
  <2>. QED
    BY <2>1, <2>3 DEF IsSeq
<1>5. ASSUME NEW t, IsSeq(t) PROVE IsSeq(CR!Prefix \o t)
  BY <1>5, MarksAre, LenJoin
<1>. QED
  BY <1>2, <1>3, <1>4, <1>5

(* What crypt(3) looks at of a key.                                        *)
Looked(k) == IF Len(k) > CryptMax THEN SubSeq(k, 1, CryptMax) ELSE k

(* It is a sequence.                                                       *)
LEMMA LookedIs ==
    ASSUME CryptMax \in Nat, NEW k, IsSeq(k)
    PROVE  IsSeq(Looked(k))
<1>1. PICK S : k \in Seq(S)
  BY DEF IsSeq
<1>2. CASE Len(k) > CryptMax
  <2>1. CryptMax \in 0..Len(k)
    BY <1>1, <1>2, LenProperties
  <2>2. PICK t : t = SubSeq(k, 1, CryptMax)
    OBVIOUS
  <2>3. t \in Seq(S)
    BY <1>1, <2>1, <2>2, FirstIs
  <2>. QED
    BY <1>2, <2>2, <2>3 DEF Looked, IsSeq
<1>3. CASE ~(Len(k) > CryptMax)
  BY <1>3 DEF Looked
<1>. QED
  BY <1>2, <1>3

(* What crypt(3) makes of a key, with the salt of the model.                *)
CryptOf(k) == CR!Chars(<<"r", "r">>) \o CR!Digest(<<CR!Chars(<<"r", "r">>), Looked(k)>>)

(* How a string begins tells the form in which it was stored.              *)
LEMMA MarksApart ==
    ASSUME NEW s, IsSeq(s)
    PROVE  /\ CR!IsPrefix(CR!Prefix, s) => s[1] = Dollar /\ s[2] = CR!Char("1")
           /\ CR!IsPrefix(CR!NullPrefix, s) => s[1] = Dollar /\ s[2] = CR!Char("0")
           /\ CR!IsPrefix(CR!OldCode, s) => s[1] = CR!Char("3")
<1>1. ASSUME CR!IsPrefix(CR!Prefix, s) PROVE s[1] = Dollar /\ s[2] = CR!Char("1")
  <2>1. Begins(CR!Prefix, s)
    BY <1>1, PrefixIs, MarksAre
  <2>. QED
    BY <2>1, MarksAre DEF Begins
<1>2. ASSUME CR!IsPrefix(CR!NullPrefix, s) PROVE s[1] = Dollar /\ s[2] = CR!Char("0")
  <2>1. Begins(CR!NullPrefix, s)
    BY <1>2, PrefixIs, MarksAre
  <2>. QED
    BY <2>1, MarksAre DEF Begins
<1>3. ASSUME CR!IsPrefix(CR!OldCode, s) PROVE s[1] = CR!Char("3")
  <2>1. Begins(CR!OldCode, s)
    BY <1>3, PrefixIs, MarksAre
  <2>. QED
    BY <2>1, MarksAre DEF Begins
<1>. QED
  BY <1>1, <1>2, <1>3

(* The one of four cases that holds.                                       *)
LEMMA CompareIs ==
    ASSUME NEW p, NEW s, s # <<>>
    PROVE  LET a == Len(s) = 1 + DigestLen /\ CR!IsPrefix(CR!OldCode, s)
               b == CR!IsPrefix(CR!Prefix, s)
               c == CR!IsPrefix(CR!NullPrefix, s)
               cmp == CR!CryptCmp(p, s)
           IN /\ a /\ ~b /\ ~c => (cmp <=> p # <<>> /\ s = CR!OldMd5(CR!CStr(p)))
              /\ ~a /\ b /\ ~c => (cmp <=> p # <<>> /\ s = CR!Md5Crypt(CR!CStr(p), s))
              /\ ~a /\ ~b /\ c => (cmp <=> p # <<>> /\ s = CR!CStr(CR!NullCrypt(p)))
              /\ ~a /\ ~b /\ ~c => (cmp <=> p # <<>> /\ s = CR!ExtCrypt(CR!CStr(p), s))
BY DEF CR!CryptCmp

(* A key is compared in the form in which the other was stored.            *)
LEMMA ComparedMd5 ==
    ASSUME CR!CryptAssumption, NEW k, NEW l, IsSeq(k), IsSeq(l), NEW salt, IsSalt(salt),
           NEW p, NEW s, s = Md5Stored(salt, Hashed(k, salt)), CR!CStr(p) = l
    PROVE  s # <<>> /\ (CR!CryptCmp(p, s) <=> p # <<>> /\ l = k)
<1>1. SaltMax \in Nat /\ DigestLen \in Nat
  BY DEF CR!CryptAssumption
<1>2. Sized(Hashed(k, salt)) /\ Sized(Hashed(l, salt))
  BY HashedIs
<1>3. PICK h, g : h = Hashed(k, salt) /\ g = Hashed(l, salt)
  OBVIOUS
<1>4. IsSeq(h) /\ Len(h) = DigestLen /\ IsSeq(g) /\ Len(g) = DigestLen
  BY <1>2, <1>3 DEF Sized
<1>5. s = Md5Stored(salt, h)
  BY <1>3
<1>6. /\ IsSeq(s) /\ Begins(CR!Prefix, s) /\ Len(s) = Len(salt) + Len(h) + 4 /\ Len(salt) \in Nat
      /\ CR!SaltOf(s) = salt
  BY <1>1, <1>4, <1>5, StoredSalt
<1>7. s # <<>> /\ Len(s) # 1 + DigestLen
  <2>1. Len(s) = Len(salt) + DigestLen + 4
    BY <1>4, <1>6
  <2>2. Len(s) # 0 /\ Len(s) # 1 + DigestLen
    BY <1>1, <1>6, <2>1
  <2>. QED
    BY <2>2, NothingIsSeq
<1>8. CR!IsPrefix(CR!Prefix, s)
  BY <1>6, PrefixIs, MarksAre
<1>9. CR!CryptCmp(p, s) <=> p # <<>> /\ s = CR!Md5Crypt(l, s)
  <2>1. ~CR!IsPrefix(CR!NullPrefix, s)
    BY <1>6, <1>8, MarksApart, CharsDiffer
  <2>. QED
    BY <1>7, <1>8, <2>1, CompareIs
<1>10. CR!Md5Crypt(l, s) = Md5Stored(salt, g)
  BY <1>3, <1>6, Md5CryptIs
<1>11. ASSUME Md5Stored(salt, h) = Md5Stored(salt, g) PROVE l = k
  <2>1. PICK v : v = (CR!Prefix \o salt) \o CR!Chars(<<"$">>)
    OBVIOUS
  <2>2. IsSeq(v)
    <3>1. IsSeq(salt) /\ IsSeq(CR!Prefix) /\ IsSeq(CR!Chars(<<"$">>))
      BY MarksAre DEF IsSalt
    <3>2. IsSeq(CR!Prefix \o salt)
      BY <3>1, LenJoin
    <3>. QED
      BY <2>1, <3>1, <3>2, LenJoin
  <2>3. v \o h = v \o g
    BY <1>11, <2>1 DEF Md5Stored
  <2>4. SameJoin(v, h, v, g)
    BY <1>4, <2>2, <2>3 DEF SameJoin
  <2>5. h = g
    BY <2>4, JoinTells, Zenon
  <2>6. Hashed(k, salt) = Hashed(l, salt) /\ IsSeq(salt)
    BY <1>3, <2>5 DEF IsSalt
  <2>7. k = l
    BY <2>6, HashedTells
  <2>. QED
    BY <2>7
<1>12. l = k => g = h
  BY <1>3
<1>. QED
  BY <1>5, <1>7, <1>9, <1>10, <1>11, <1>12

(* The same of the old form.                                               *)
LEMMA ComparedOld ==
    ASSUME CR!CryptAssumption, NEW k, NEW l, IsSeq(k), IsSeq(l),
           NEW p, NEW s, s = CR!OldMd5(k), CR!CStr(p) = l
    PROVE  s # <<>> /\ (CR!CryptCmp(p, s) <=> p # <<>> /\ l = k)
<1>1. DigestLen \in Nat
  BY DEF CR!CryptAssumption
<1>2. PICK m, h, g : m = CR!OldCode /\ h = CR!Digest(<<k>>) /\ g = CR!Digest(<<l>>)
  OBVIOUS
<1>3. IsSeq(h) /\ Len(h) = DigestLen /\ IsSeq(g) /\ Len(g) = DigestLen
  BY <1>2, DigestIs
<1>4. IsSeq(m) /\ Len(m) = 1
  BY <1>2, MarksAre
<1>5. s = m \o h /\ CR!OldMd5(l) = m \o g
  BY <1>2 DEF CR!OldMd5
<1>6. Join(s, m, h)
  BY <1>3, <1>4, <1>5, JoinIs
<1>7. IsSeq(s) /\ Len(s) = 1 + DigestLen /\ \A i \in 1..1 : s[i] = m[i]
  BY <1>3, <1>4, <1>6 DEF Join
<1>8. Begins(m, s)
  BY <1>1, <1>4, <1>7 DEF Begins
<1>9. CR!IsPrefix(CR!OldCode, s) /\ s # <<>>
  <2>1. Len(s) # 0
    BY <1>1, <1>7
  <2>. QED
    BY <1>2, <1>4, <1>7, <1>8, <2>1, PrefixIs, NothingIsSeq
<1>10. ~CR!IsPrefix(CR!Prefix, s) /\ ~CR!IsPrefix(CR!NullPrefix, s)
  BY <1>7, <1>9, MarksApart, CharsDiffer
<1>11. CR!CryptCmp(p, s) <=> p # <<>> /\ s = CR!OldMd5(l)
  BY <1>3, <1>7, <1>9, <1>10, CompareIs
<1>12. ASSUME m \o h = m \o g PROVE l = k
  <2>1. SameJoin(m, h, m, g)
    BY <1>3, <1>4, <1>12 DEF SameJoin
  <2>2. h = g
    BY <2>1, JoinTells, Zenon
  <2>3. FlattenSeq(<<k>>) = FlattenSeq(<<l>>)
    BY <1>2, <2>2, DigestTells
  <2>4. Flattened(k, k, k, k) /\ Flattened(l, l, l, l)
    BY FlattenFew, Zenon
  <2>5. FlattenSeq(<<k>>) = k /\ FlattenSeq(<<l>>) = l
    BY <2>4, Zenon DEF Flattened
  <2>. QED
    BY <2>3, <2>5, Zenon
<1>13. l = k => m \o h = m \o g
  BY <1>2
<1>. QED
  BY <1>5, <1>9, <1>11, <1>12, <1>13

(* The same of a password in the clear.                                    *)
LEMMA ComparedNull ==
    ASSUME NEW k, NEW l, IsSeq(k), IsSeq(l),
           NEW p, IsSeq(p), NEW s, s = CR!NullPrefix \o k, CR!CStr(p) = l
    PROVE  s # <<>> /\ (CR!CryptCmp(p, s) <=> p # <<>> /\ l = k)
<1>1. PICK m : m = CR!NullPrefix
  OBVIOUS
<1>2. IsSeq(m) /\ Len(m) = 3
  BY <1>1, MarksAre
<1>3. s = m \o k /\ Join(s, m, k)
  BY <1>1, <1>2, JoinIs
<1>4. IsSeq(s) /\ Len(k) \in Nat /\ Len(s) = 3 + Len(k) /\ \A i \in 1..3 : s[i] = m[i]
  BY <1>2, <1>3 DEF Join
<1>5. Begins(m, s) /\ s # <<>>
  <2>1. 3 <= Len(s) /\ Len(s) # 0
    BY <1>4
  <2>. QED
    BY <1>2, <1>4, <2>1, NothingIsSeq DEF Begins
<1>6. CR!IsPrefix(CR!NullPrefix, s)
  BY <1>1, <1>2, <1>4, <1>5, PrefixIs
<1>7. ~CR!IsPrefix(CR!Prefix, s) /\ ~CR!IsPrefix(CR!OldCode, s)
  BY <1>4, <1>6, MarksApart, CharsDiffer
<1>8. CR!CryptCmp(p, s) <=> p # <<>> /\ s = CR!CStr(CR!NullCrypt(p))
  BY <1>5, <1>6, <1>7, CompareIs
<1>9. CR!CStr(CR!NullCrypt(p)) = m \o l
  BY <1>1, NullCryptIs
<1>10. ASSUME m \o k = m \o l PROVE l = k
  <2>1. SameJoin(m, k, m, l)
    BY <1>2, <1>10 DEF SameJoin
  <2>2. k = l
    BY <2>1, JoinTells, Zenon
  <2>. QED
    BY <2>2
<1>. QED
  BY <1>3, <1>5, <1>8, <1>9, <1>10

(* The same of crypt(3), which looks at the first characters only.         *)
LEMMA ComparedCrypt ==
    ASSUME CR!CryptAssumption, NEW k, NEW l, IsSeq(k), IsSeq(l),
           NEW p, NEW s, CR!CStr(p) = l, s = CryptOf(k)
    PROVE  s # <<>> /\ (CR!CryptCmp(p, s) <=> p # <<>> /\ Looked(l) = Looked(k))
<1>1. DigestLen \in Nat /\ CryptMax \in Nat
  BY DEF CR!CryptAssumption
<1>2. PICK m, a, b : m = CR!Chars(<<"r", "r">>) /\ a = Looked(k) /\ b = Looked(l)
  OBVIOUS
<1>3. IsSeq(m) /\ Len(m) = 2 /\ m[1] = CR!Char("r") /\ IsSeq(a) /\ IsSeq(b)
  BY <1>1, <1>2, MarksAre, LookedIs
<1>4. PICK h, g : h = CR!Digest(<<m, a>>) /\ g = CR!Digest(<<m, b>>)
  OBVIOUS
<1>5. IsSeq(h) /\ Len(h) = DigestLen /\ IsSeq(g) /\ Len(g) = DigestLen
  BY <1>4, DigestIs
<1>6. s = m \o h /\ Join(s, m, h)
  BY <1>2, <1>3, <1>4, <1>5, JoinIs DEF CryptOf
<1>7. IsSeq(s) /\ Len(s) = 2 + DigestLen /\ \A i \in 1..2 : s[i] = m[i]
  BY <1>3, <1>5, <1>6 DEF Join
<1>8. s # <<>> /\ s[1] = CR!Char("r") /\ Len(s) # 0
  <2>1. Len(s) # 0
    BY <1>1, <1>7
  <2>. QED
    BY <1>3, <1>7, <2>1, NothingIsSeq
<1>9. ~CR!IsPrefix(CR!Prefix, s) /\ ~CR!IsPrefix(CR!NullPrefix, s) /\ ~CR!IsPrefix(CR!OldCode, s)
  BY <1>7, <1>8, MarksApart, CharsDiffer
<1>10. CR!CryptCmp(p, s) <=> p # <<>> /\ s = CR!ExtCrypt(l, s)
  BY <1>8, <1>9, CompareIs
<1>11. SubSeq(s, 1, 2) = m
  <2>1. PICK S : s \in Seq(S) /\ m \in Seq(S)
    BY <1>3, <1>7, OneSet
  <2>2. PICK c, t : c = 2 /\ t = SubSeq(s, 1, c)
    OBVIOUS
  <2>3. c \in 0..Len(s)
    BY <1>1, <1>7, <2>2
  <2>4. t \in Seq(S) /\ Len(t) = c /\ \A j \in 1..c : t[j] = s[j]
    BY <2>1, <2>2, <2>3, FirstIs
  <2>5. t = m
    BY <1>3, <1>7, <2>1, <2>2, <2>4, SeqEqual
  <2>. QED
    BY <2>2, <2>5
<1>12. CR!ExtCrypt(l, s) = m \o g
  BY <1>2, <1>4, <1>11 DEF CR!ExtCrypt, Looked
<1>13. ASSUME m \o h = m \o g PROVE b = a
  <2>1. SameJoin(m, h, m, g)
    BY <1>3, <1>5, <1>13 DEF SameJoin
  <2>2. h = g
    BY <2>1, JoinTells, Zenon
  <2>3. FlattenSeq(<<m, a>>) = FlattenSeq(<<m, b>>)
    BY <1>4, <2>2, DigestTells
  <2>4. Flattened(m, a, m, a) /\ Flattened(m, b, m, b)
    BY <1>3, FlattenFew, Zenon
  <2>5. FlattenSeq(<<m, a>>) = m \o a /\ FlattenSeq(<<m, b>>) = m \o b
    BY <2>4, Zenon DEF Flattened
  <2>6. SameJoin(m, a, m, b)
    BY <1>3, <2>3, <2>5 DEF SameJoin
  <2>7. a = b
    BY <2>6, JoinTells, Zenon
  <2>. QED
    BY <2>7
<1>14. b = a => m \o h = m \o g
  BY <1>4
<1>. QED
  BY <1>2, <1>6, <1>8, <1>10, <1>12, <1>13, <1>14

(* What pwcrypt, or whoever made the table, has stored.                    *)
StoredAs(f, p, s) ==
    \/ f = "md5" /\ s = CR!Md5Crypt(CR!CStr(p), CR!Prefix \o CR!NewSalt)
    \/ f = "imported" /\ \E salt \in Salts : s = CR!Md5Crypt(CR!CStr(p), CR!Prefix \o CR!Chars(salt))
    \/ f = "old" /\ s = CR!OldMd5(CR!CStr(p))
    \/ f = "null" /\ s = CR!CStr(CR!NullCrypt(p))
    \/ f = "crypt" /\ s = CR!ExtCrypt(CR!CStr(p), CR!Chars(<<"r", "r">>))

(* The inductive invariant of the passwords: what is stored is the         *)
(* password given, in its form, and the answer is that of crypt_cmp.       *)
CrInv ==
    /\ form \in {"md5", "imported", "old", "null", "crypt"}
    /\ pass \in CR!Candidates \ {<<>>}
    /\ stored # None => StoredAs(form, pass, stored)
    /\ tried # None =>
         /\ stored # None /\ tried \in CR!Candidates
         /\ matches = CR!CryptCmp(tried, stored)

(* Nothing is stored at first.                                             *)
LEMMA PasswordStarts == CR!Init => CrInv
BY DEF CR!Init, CrInv

(* Every step keeps the invariant.                                         *)
LEMMA PasswordSteps ==
    ASSUME CrInv, [CR!Next]_(CR!vars)
    PROVE  CrInv'
<1>1. CASE CR!Store
  <2>1. stored = None /\ UNCHANGED <<form, pass, tried, matches>>
    BY <1>1, Zenon DEF CR!Store
  <2>2. form \in {"md5", "imported", "old", "null", "crypt"} /\ pass \in CR!Candidates \ {<<>>}
        /\ tried = None
    BY <2>1, Zenon DEF CrInv
  <2>3. form = "md5" => stored' = CR!Md5Crypt(CR!CStr(pass), CR!Prefix \o CR!NewSalt)
    BY <1>1 DEF CR!Store
  <2>4. form = "imported" =>
          \E salt \in Salts : stored' = CR!Md5Crypt(CR!CStr(pass), CR!Prefix \o CR!Chars(salt))
    BY <1>1 DEF CR!Store
  <2>5. form = "old" => stored' = CR!OldMd5(CR!CStr(pass))
    BY <1>1 DEF CR!Store
  <2>6. form = "null" => stored' = CR!CStr(CR!NullCrypt(pass))
    BY <1>1 DEF CR!Store
  <2>7. form = "crypt" => stored' = CR!ExtCrypt(CR!CStr(pass), CR!Chars(<<"r", "r">>))
    BY <1>1 DEF CR!Store
  <2>8. StoredAs(form, pass, stored')
    BY <2>2, <2>3, <2>4, <2>5, <2>6, <2>7, Zenon DEF StoredAs
  <2>9. form' = form /\ pass' = pass /\ tried' = None
    BY <2>1, <2>2
  <2>. QED
    BY <2>2, <2>8, <2>9, Zenon DEF CrInv
<1>2. CASE CR!Try
  BY <1>2, Zenon DEF CR!Try, CrInv
<1>3. CASE UNCHANGED CR!vars
  BY <1>3, Zenon DEF CR!vars, CrInv, StoredAs
<1>. QED
  BY <1>1, <1>2, <1>3 DEF CR!Next

(* What counts of a password in a form.                                    *)
Known(f, p) == IF f = "crypt" THEN Looked(CR!CStr(p)) ELSE CR!CStr(p)

(* The invariant implies the property.                                     *)
LEMMA PasswordMeans ==
    ASSUME CR!CryptAssumption, CrInv
    PROVE  CR!OnlyItselfMatches
<1>1. SUFFICES ASSUME tried # None
               PROVE  matches <=> tried # <<>> /\ Known(form, tried) = Known(form, pass)
  BY DEF CR!OnlyItselfMatches, Known, Looked
<1>2. /\ stored # None /\ tried \in CR!Candidates /\ matches = CR!CryptCmp(tried, stored)
      /\ pass \in CR!Candidates /\ StoredAs(form, pass, stored)
  BY <1>1, Zenon DEF CrInv
<1>3. PICK k, l, s : k = CR!CStr(pass) /\ l = CR!CStr(tried) /\ s = stored
  OBVIOUS
<1>4. IsSeq(k) /\ IsSeq(l) /\ IsSeq(tried) /\ IsSeq(pass)
  BY <1>2, <1>3, PasswordsAre
<1>5. ASSUME form # "crypt", CR!CryptCmp(tried, stored) <=> tried # <<>> /\ l = k
      PROVE  matches <=> tried # <<>> /\ Known(form, tried) = Known(form, pass)
  BY <1>2, <1>3, <1>5 DEF Known
<1>6. ASSUME form # "crypt", NEW salt, IsSeq(salt), stored = CR!Md5Crypt(k, salt)
      PROVE  matches <=> tried # <<>> /\ Known(form, tried) = Known(form, pass)
  <2>1. PICK u : u = CR!SaltOf(salt)
    OBVIOUS
  <2>2. SaltMax \in Nat
    BY DEF CR!CryptAssumption
  <2>3. IsSalt(u)
    BY <1>6, <2>1, <2>2, SaltOfIs DEF Salted
  <2>4. stored = Md5Stored(u, Hashed(k, u))
    BY <1>6, <2>1, Md5CryptIs
  <2>5. CR!CryptCmp(tried, stored) <=> tried # <<>> /\ l = k
    BY <1>3, <1>4, <2>3, <2>4, ComparedMd5
  <2>. QED
    BY <1>5, <1>6, <2>5
<1>7. CASE form = "md5" /\ stored = CR!Md5Crypt(k, CR!Prefix \o CR!NewSalt)
  <2>1. IsSeq(CR!Prefix \o CR!NewSalt) /\ form # "crypt"
    BY <1>7, PasswordsAre
  <2>. QED
    BY <1>6, <1>7, <2>1
<1>8. CASE form = "imported" /\ \E salt \in Salts : stored = CR!Md5Crypt(k, CR!Prefix \o CR!Chars(salt))
  <2>1. PICK salt \in Salts : stored = CR!Md5Crypt(k, CR!Prefix \o CR!Chars(salt))
    BY <1>8
  <2>2. IsSeq(CR!Prefix \o CR!Chars(salt)) /\ form # "crypt"
    BY <1>8, PasswordsAre
  <2>. QED
    BY <1>6, <2>1, <2>2
<1>9. CASE form = "old" /\ stored = CR!OldMd5(k)
  <2>1. CR!CryptCmp(tried, stored) <=> tried # <<>> /\ l = k
    BY <1>3, <1>4, <1>9, ComparedOld
  <2>2. form # "crypt"
    BY <1>9
  <2>. QED
    BY <1>5, <2>1, <2>2
<1>10. CASE form = "null" /\ stored = CR!CStr(CR!NullCrypt(pass))
  <2>1. stored = CR!NullPrefix \o k
    BY <1>3, <1>4, <1>10, NullCryptIs
  <2>2. CR!CryptCmp(tried, stored) <=> tried # <<>> /\ l = k
    BY <1>3, <1>4, <2>1, ComparedNull
  <2>3. form # "crypt"
    BY <1>10
  <2>. QED
    BY <1>5, <2>2, <2>3
<1>11. CASE form = "crypt" /\ stored = CR!ExtCrypt(k, CR!Chars(<<"r", "r">>))
  <2>1. PICK m : m = CR!Chars(<<"r", "r">>)
    OBVIOUS
  <2>2. SubSeq(m, 1, 2) = m
    <3>1. PICK S : m \in Seq(S)
      BY <2>1, MarksAre DEF IsSeq
    <3>2. Len(m) = 2
      BY <2>1, MarksAre
    <3>3. PICK c, t : c = 2 /\ t = SubSeq(m, 1, c)
      OBVIOUS
    <3>4. c \in 0..Len(m)
      BY <3>2, <3>3
    <3>5. t \in Seq(S) /\ Len(t) = c /\ \A j \in 1..c : t[j] = m[j]
      BY <3>1, <3>3, <3>4, FirstIs
    <3>6. t = m
      BY <3>1, <3>2, <3>3, <3>5, SeqEqual
    <3>. QED
      BY <3>3, <3>6
  <2>3. stored = m \o CR!Digest(<<m, Looked(k)>>)
    BY <1>11, <2>1, <2>2 DEF CR!ExtCrypt, Looked
  <2>4. CR!CryptCmp(tried, stored) <=> tried # <<>> /\ Looked(l) = Looked(k)
    <3>1. stored = CryptOf(k)
      BY <2>1, <2>3, Zenon DEF CryptOf
    <3>. QED
      BY <1>3, <1>4, <3>1, ComparedCrypt
  <2>. QED
    BY <1>2, <1>3, <1>11, <2>4 DEF Known
<1>. QED
  BY <1>2, <1>3, <1>7, <1>8, <1>9, <1>10, <1>11, Zenon DEF StoredAs

(* A stored password is matched by itself and by no other, in each of the  *)
(* four forms, for any passwords, salts of any length and any number of    *)
(* rounds; both count up to the first NUL, and to crypt(3) by their first  *)
(* characters (crypt_cmp, md5_crypt_r, pwcrypt).                           *)
THEOREM PasswordsMatchThemselves ==
    ASSUME CR!CryptAssumption PROVE CR!Spec => []CR!OnlyItselfMatches
<1>1. CR!Init => CrInv
  BY PasswordStarts
<1>2. CrInv /\ [CR!Next]_(CR!vars) => CrInv'
  BY PasswordSteps
<1>3. CrInv => CR!OnlyItselfMatches
  BY PasswordMeans
<1>. QED
  BY <1>1, <1>2, <1>3, PTL DEF CR!Spec

-----------------------------------------------------------------------------
(* Digests: a context has taken in a message s (HasTaken) when what it has *)
(* compressed are the blocks of a first part of s, of whole blocks, and    *)
(* what it keeps is the rest.                                              *)

Cells == Nat \cup {DG!Pad, DG!Zero}
Contexts == [blocks : Seq(Seq(Cells)), total : Nat \X Nat, buffer : Seq(Cells)]

Msg(n) == [i \in 1..n |-> i]
Total(n) == <<n % WordSize, (n \div WordSize) % WordSize>>

Compressed(c, p) ==
    /\ c \in Contexts /\ Len(p) % Block = 0
    /\ c.blocks = DG!Blocks(p) /\ c.total = Total(Len(p))

HasTaken(c, s) ==
    /\ Len(c.buffer) <= Block
    /\ \E p \in Seq(Cells) : Compressed(c, p) /\ s = p \o c.buffer

-----------------------------------------------------------------------------
(* Division *)

LEMMA DividedIs ==
    ASSUME NEW n \in Nat, NEW b \in Nat \ {0}
    PROVE  n = b * (n \div b) + (n % b) /\ n % b \in 0..b-1 /\ n \div b \in Nat
OBVIOUS

LEMMA DividedUniquely ==
    ASSUME NEW b \in Nat \ {0}, NEW n \in Nat, NEW q \in Nat, NEW r \in 0..b-1, n = b * q + r
    PROVE  n \div b = q /\ n % b = r
OBVIOUS

LEMMA Multiple ==
    ASSUME NEW b \in Nat \ {0}, NEW n \in Nat, n % b = 0
    PROVE  \E q \in Nat : n = b * q /\ q = n \div b
BY DividedIs

(* What is left of a number does not depend on a multiple before it, and   *)
(* what it is divided into adds up.                                        *)
LEMMA MultiplesAdd ==
    ASSUME NEW b \in Nat \ {0}, NEW m \in Nat, NEW n \in Nat, m % b = 0
    PROVE  (m + n) % b = n % b /\ (m + n) \div b = (m \div b) + (n \div b)
<1> DEFINE d == n \div b
           r == n % b
<1>1. PICK q \in Nat : m = b * q /\ q = m \div b
  BY Multiple
<1>2. n = b * d + r /\ r \in 0..b-1 /\ d \in Nat
  BY DividedIs
<1> HIDE DEF d, r
<1>3. m + n = b * (q + d) + r /\ q + d \in Nat /\ m + n \in Nat
  BY <1>1, <1>2
<1>4. (m + n) \div b = q + d /\ (m + n) % b = r
  BY <1>2, <1>3, DividedUniquely
<1> QED
  BY <1>1, <1>4 DEF d, r

(* A number is a multiple and what is left of it. *)
LEMMA MultipleBefore ==
    ASSUME NEW b \in Nat \ {0}, NEW n \in Nat
    PROVE  \E m \in Nat : n = m + (n % b) /\ m % b = 0 /\ m \div b = n \div b /\ m <= n
<1> DEFINE d == n \div b
           r == n % b
           m == b * d
<1>1. n = b * d + r /\ r \in 0..b-1 /\ d \in Nat
  BY DividedIs
<1> HIDE DEF d, r
<1>2. m \in Nat /\ m = b * d + 0 /\ 0 \in 0..b-1
  BY <1>1
<1>3. m \div b = d /\ m % b = 0
  BY <1>1, <1>2, DividedUniquely
<1>4. n = m + r /\ m <= n
  BY <1>1, <1>2
<1> QED
  BY <1>2, <1>3, <1>4 DEF d, r

-----------------------------------------------------------------------------
(* Blocks *)

LEMMA BlockIsPositive == DG!DigestAssumption => Block \in Nat \ {0} /\ WordSize \in Nat \ {0}
BY DEF DG!DigestAssumption

LEMMA BlocksAre ==
    ASSUME DG!DigestAssumption, NEW s \in Seq(Cells)
    PROVE  /\ DG!Blocks(s) \in Seq(Seq(Cells))
           /\ Len(DG!Blocks(s)) = Len(s) \div Block
           /\ \A i \in 1..Len(DG!Blocks(s)) :
                /\ DG!Blocks(s)[i] \in Seq(Cells) /\ Len(DG!Blocks(s)[i]) = Block
                /\ \A j \in 1..Block :
                     /\ Block * (i - 1) + j \in 1..Len(s)
                     /\ DG!Blocks(s)[i][j] = s[Block * (i - 1) + j]
<1> DEFINE n == Len(s) \div Block
           e(i) == SubSeq(s, Block * (i - 1) + 1, Block * i)
<1>1. Len(s) \in Nat /\ Block \in Nat \ {0}
  BY BlockIsPositive
<1>2. n \in Nat /\ Block * n <= Len(s)
  <2> DEFINE l == Len(s)
             m == l \div Block
  <2>1. l = Block * m + (l % Block) /\ l % Block \in 0..Block-1 /\ m \in Nat
    BY <1>1, DividedIs
  <2> QED
    BY <1>1, <2>1
<1>3. ASSUME NEW i \in 1..n
      PROVE  /\ e(i) \in Seq(Cells) /\ Len(e(i)) = Block
             /\ \A j \in 1..Block :
                  Block * (i - 1) + j \in 1..Len(s) /\ e(i)[j] = s[Block * (i - 1) + j]
  <2> HIDE DEF n
  <2> DEFINE a == Block * (i - 1)
  <2>1. a \in Nat /\ Block * i = a + Block /\ a + Block <= Len(s)
    <3>1. Block * i = Block * (i - 1) + Block
      BY <1>1, <1>2
    <3>2. Block * i <= Block * n
      BY <1>1, <1>2
    <3>3. i - 1 \in Nat
      BY <1>2
    <3> QED
      BY <1>1, <1>2, <3>1, <3>2, <3>3
  <2> HIDE DEF a
  <2>2. \A j \in (a + 1)..(a + Block) : s[j] \in Cells
    BY <1>1, <2>1, ElementOfSeq
  <2>3. /\ SubSeq(s, a + 1, a + Block) \in Seq(Cells)
        /\ Len(SubSeq(s, a + 1, a + Block)) = Block
        /\ \A j \in 1..Block : SubSeq(s, a + 1, a + Block)[j] = s[a + j]
    <3> DEFINE m == a + 1
               k == a + Block
               t == SubSeq(s, m, k)
    <3>1. m \in Int /\ k \in Int /\ m <= k /\ k - m + 1 = Block
          /\ \A j \in 1..Block : m + j - 1 = a + j
      BY <1>1, <2>1
    <3>2. \A j \in m..k : s[j] \in Cells
      BY <2>2
    <3> HIDE DEF m, k
    <3>3. /\ t \in Seq(Cells) /\ Len(t) = IF m <= k THEN k - m + 1 ELSE 0
          /\ \A j \in 1..k - m + 1 : t[j] = s[m + j - 1]
      BY <3>1, <3>2, SubSeqProperties
    <3> QED
      BY <3>1, <3>3 DEF m, k
  <2>4. \A j \in 1..Block : a + j \in 1..Len(s)
    BY <1>1, <2>1
  <2> QED
    BY <2>1, <2>3, <2>4 DEF a
<1>4. DG!Blocks(s) = [i \in 1..n |-> e(i)]
  BY DEF DG!Blocks
<1> HIDE DEF n, e
<1>5. [i \in 1..n |-> e(i)] \in Seq(Seq(Cells))
  BY <1>2, <1>3, SeqDef
<1>6. Len([i \in 1..n |-> e(i)]) = n
  BY <1>2, <1>5, LenProperties
<1>7. \A i \in 1..n : [k \in 1..n |-> e(k)][i] = e(i)
  OBVIOUS
<1>8. DG!Blocks(s) \in Seq(Seq(Cells)) /\ Len(DG!Blocks(s)) = n
  BY <1>4, <1>5, <1>6
<1>9. ASSUME NEW i \in 1..n
      PROVE  /\ DG!Blocks(s)[i] \in Seq(Cells) /\ Len(DG!Blocks(s)[i]) = Block
             /\ \A j \in 1..Block :
                  Block * (i - 1) + j \in 1..Len(s) /\ DG!Blocks(s)[i][j] = s[Block * (i - 1) + j]
  <2>1. DG!Blocks(s)[i] = e(i)
    BY <1>4, <1>7
  <2> QED
    BY <1>3, <2>1
<1>10. n = Len(s) \div Block
  BY DEF n
<1> QED
  BY <1>8, <1>9, <1>10

(* Whole blocks in front of a sequence stay blocks of their own. *)
LEMMA BlocksConcat ==
    ASSUME DG!DigestAssumption, NEW s \in Seq(Cells), NEW t \in Seq(Cells), Len(s) % Block = 0
    PROVE  DG!Blocks(s \o t) = DG!Blocks(s) \o DG!Blocks(t)
<1> DEFINE x == s \o t
           l == DG!Blocks(x)
           r == DG!Blocks(s) \o DG!Blocks(t)
           S == Seq(Cells)
<1>1. Len(s) \in Nat /\ Len(t) \in Nat /\ Block \in Nat \ {0}
  BY BlockIsPositive
<1>2. PICK q \in Nat : Len(s) = Block * q /\ q = Len(s) \div Block
  BY <1>1, Multiple
<1>3. /\ x \in S /\ Len(x) = Len(s) + Len(t)
      /\ \A i \in 1..Len(s) + Len(t) : x[i] = IF i <= Len(s) THEN s[i] ELSE t[i - Len(s)]
  BY ConcatProperties
<1> HIDE DEF x
<1>4. /\ l \in Seq(S) /\ Len(l) = Len(x) \div Block
      /\ \A i \in 1..Len(l) :
           /\ l[i] \in S /\ Len(l[i]) = Block
           /\ \A j \in 1..Block :
                Block * (i - 1) + j \in 1..Len(x) /\ l[i][j] = x[Block * (i - 1) + j]
  BY <1>3, BlocksAre
<1>5. /\ DG!Blocks(s) \in Seq(S) /\ Len(DG!Blocks(s)) = q
      /\ \A i \in 1..q :
           /\ DG!Blocks(s)[i] \in S /\ Len(DG!Blocks(s)[i]) = Block
           /\ \A j \in 1..Block :
                Block * (i - 1) + j \in 1..Len(s) /\ DG!Blocks(s)[i][j] = s[Block * (i - 1) + j]
  <2> DEFINE p == Len(s) \div Block
  <2>1. /\ DG!Blocks(s) \in Seq(S) /\ Len(DG!Blocks(s)) = p
        /\ \A i \in 1..p :
             /\ DG!Blocks(s)[i] \in S /\ Len(DG!Blocks(s)[i]) = Block
             /\ \A j \in 1..Block :
                  Block * (i - 1) + j \in 1..Len(s) /\ DG!Blocks(s)[i][j] = s[Block * (i - 1) + j]
    BY BlocksAre
  <2>2. p = q
    BY <1>2
  <2> HIDE DEF p
  <2> QED
    BY <2>1, <2>2
<1> DEFINE m == Len(t) \div Block
<1>6. /\ DG!Blocks(t) \in Seq(S) /\ Len(DG!Blocks(t)) = m
      /\ \A i \in 1..m :
           /\ DG!Blocks(t)[i] \in S /\ Len(DG!Blocks(t)[i]) = Block
           /\ \A j \in 1..Block :
                Block * (i - 1) + j \in 1..Len(t) /\ DG!Blocks(t)[i][j] = t[Block * (i - 1) + j]
  BY BlocksAre
<1>7. /\ r \in Seq(S) /\ Len(r) = q + m
      /\ \A i \in 1..q + m : r[i] = IF i <= q THEN DG!Blocks(s)[i] ELSE DG!Blocks(t)[i - q]
  <2> DEFINE a == DG!Blocks(s)
             b == DG!Blocks(t)
  <2>1. a \in Seq(S) /\ Len(a) = q /\ b \in Seq(S) /\ Len(b) = m
    BY <1>5, <1>6
  <2> HIDE DEF S, a, b, m
  <2>2. /\ a \o b \in Seq(S) /\ Len(a \o b) = Len(a) + Len(b)
        /\ \A i \in 1..Len(a) + Len(b) :
             (a \o b)[i] = IF i <= Len(a) THEN a[i] ELSE b[i - Len(a)]
    BY <2>1, ConcatProperties
  <2>3. a \o b = r
    BY DEF a, b
  <2> QED
    BY <2>1, <2>2, <2>3 DEF a, b
<1>8. m \in Nat
  BY <1>6, LenProperties
<1>9. Len(l) = q + m
  <2>1. (Len(s) + Len(t)) \div Block = (Len(s) \div Block) + (Len(t) \div Block)
    BY <1>1, MultiplesAdd
  <2> QED
    BY <1>2, <1>3, <1>4, <2>1
<1> HIDE DEF l, r, m
<1>10. ASSUME NEW i \in 1..q + m PROVE l[i] = r[i]
  <2>1. CASE i <= q
    <3>1. i \in 1..q /\ r[i] = DG!Blocks(s)[i]
      BY <1>7, <2>1
    <3>2. ASSUME NEW j \in 1..Block PROVE l[i][j] = DG!Blocks(s)[i][j]
      <4> DEFINE k == Block * (i - 1) + j
      <4>1. k \in 1..Len(s) /\ DG!Blocks(s)[i][j] = s[k] /\ l[i][j] = x[k]
        BY <1>4, <1>5, <1>9, <3>1
      <4> HIDE DEF k
      <4> QED
        BY <1>1, <1>3, <4>1
    <3>3. /\ l[i] \in S /\ DG!Blocks(s)[i] \in S
          /\ Len(l[i]) = Block /\ Len(DG!Blocks(s)[i]) = Block
      BY <1>4, <1>5, <1>9, <3>1
    <3>4. l[i] = DG!Blocks(s)[i]
      <4> HIDE DEF S
      <4>1. \A j \in 1..Len(l[i]) : l[i][j] = DG!Blocks(s)[i][j]
        BY <3>2, <3>3
      <4> QED
        BY <3>3, <4>1, SeqEqual DEF S
    <3> QED
      BY <3>1, <3>4
  <2>2. CASE i > q
    <3>1. i - q \in 1..m /\ r[i] = DG!Blocks(t)[i - q]
      BY <1>7, <1>8, <2>2
    <3>2. ASSUME NEW j \in 1..Block PROVE l[i][j] = DG!Blocks(t)[i - q][j]
      <4> DEFINE k == Block * (i - q - 1) + j
      <4>1. k \in 1..Len(t) /\ DG!Blocks(t)[i - q][j] = t[k]
        BY <1>6, <3>1
      <4>2. Block * (i - 1) + j = Len(s) + k
        <5>1. Block * (q + (i - q - 1)) = Block * q + Block * (i - q - 1)
          BY <1>1, <3>1
        <5>2. q + (i - q - 1) = i - 1
          OBVIOUS
        <5>3. Block * (i - 1) \in Int /\ Block * q \in Int /\ Block * (i - q - 1) \in Int
          BY <1>1
        <5> QED
          BY <1>2, <5>1, <5>2, <5>3
      <4>3. l[i][j] = x[Block * (i - 1) + j]
        BY <1>4, <1>9
      <4> HIDE DEF k
      <4>4. l[i][j] = x[Len(s) + k]
        BY <4>2, <4>3
      <4>5. Len(s) + k \in 1..Len(s) + Len(t) /\ ~(Len(s) + k <= Len(s))
            /\ Len(s) + k - Len(s) = k
        BY <1>1, <4>1
      <4> QED
        BY <1>3, <4>1, <4>4, <4>5
    <3>3. /\ l[i] \in S /\ DG!Blocks(t)[i - q] \in S
          /\ Len(l[i]) = Block /\ Len(DG!Blocks(t)[i - q]) = Block
      BY <1>4, <1>6, <1>9, <3>1
    <3>4. l[i] = DG!Blocks(t)[i - q]
      <4>1. \A j \in 1..Len(l[i]) : l[i][j] = DG!Blocks(t)[i - q][j]
        BY <3>2, <3>3
      <4> QED
        BY <3>3, <4>1, SeqEqual DEF S
    <3> QED
      BY <3>1, <3>4
  <2> QED
    BY <2>1, <2>2
<1>11. l = r
  <2>1. \A i \in 1..Len(l) : l[i] = r[i]
    BY <1>9, <1>10
  <2> HIDE DEF S
  <2> QED
    BY <1>4, <1>7, <1>9, <2>1, SeqEqual
<1> QED
  BY <1>11 DEF l, r, x

(* The two parts that a sequence is cut into. *)
LEMMA CutAt ==
    ASSUME NEW s \in Seq(Cells), NEW k \in 0..Len(s)
    PROVE  /\ SubSeq(s, 1, k) \in Seq(Cells) /\ SubSeq(s, k + 1, Len(s)) \in Seq(Cells)
           /\ Len(SubSeq(s, 1, k)) = k /\ Len(SubSeq(s, k + 1, Len(s))) = Len(s) - k
           /\ s = SubSeq(s, 1, k) \o SubSeq(s, k + 1, Len(s))
<1> DEFINE l == Len(s)
           a == SubSeq(s, 1, k)
           b == SubSeq(s, k + 1, l)
<1>1. l \in Nat /\ k \in Nat /\ k <= l
  OBVIOUS
<1>2. \A i \in 1..l : s[i] \in Cells
  BY ElementOfSeq
<1>3. a \in Seq(Cells) /\ Len(a) = k /\ \A i \in 1..k : a[i] = s[i]
  <2>1. \A i \in 1..k : s[i] \in Cells
    BY <1>1, <1>2
  <2>2. /\ a \in Seq(Cells) /\ Len(a) = IF 1 <= k THEN k - 1 + 1 ELSE 0
        /\ \A i \in 1..k - 1 + 1 : a[i] = s[1 + i - 1]
    BY <1>1, <2>1, SubSeqProperties
  <2> QED
    BY <1>1, <2>2
<1>4. b \in Seq(Cells) /\ Len(b) = l - k /\ \A i \in 1..l - k : b[i] = s[k + i]
  <2> DEFINE c == k + 1
             t == SubSeq(s, c, l)
  <2>1. \A i \in c..l : s[i] \in Cells
    BY <1>1, <1>2
  <2>2. c \in Int /\ l \in Int /\ l - c + 1 = l - k /\ \A i \in 1..l - k : c + i - 1 = k + i
    BY <1>1
  <2> HIDE DEF c, l
  <2>3. /\ t \in Seq(Cells) /\ Len(t) = IF c <= l THEN l - c + 1 ELSE 0
        /\ \A i \in 1..l - c + 1 : t[i] = s[c + i - 1]
    <3>1. \A i \in c..l : s[i] \in Cells
      BY <2>1
    <3>2. c \in Int /\ l \in Int
      BY <2>2
    <3> QED
      BY ONLY <3>1, <3>2, SubSeqProperties
  <2>4. Len(t) = l - k
    BY <1>1, <2>3 DEF c
  <2> QED
    BY <2>2, <2>3, <2>4 DEF c
<1> HIDE DEF a, b
<1>5. s = a \o b
  <2>1. /\ a \o b \in Seq(Cells) /\ Len(a \o b) = Len(a) + Len(b)
        /\ \A i \in 1..Len(a) + Len(b) :
             (a \o b)[i] = IF i <= Len(a) THEN a[i] ELSE b[i - Len(a)]
    BY <1>3, <1>4, ConcatProperties
  <2>2. Len(a \o b) = l
    BY <1>1, <1>3, <1>4, <2>1
  <2>3. ASSUME NEW i \in 1..l PROVE s[i] = (a \o b)[i]
    <3>1. CASE i <= k
      BY <1>1, <1>3, <1>4, <2>1, <2>2, <3>1
    <3>2. CASE i > k
      <4>1. i - k \in 1..l - k /\ k + (i - k) = i
        BY <1>1, <3>2
      <4> QED
        BY <1>1, <1>3, <1>4, <2>1, <2>2, <3>2, <4>1
    <3>3. i <= k \/ i > k
      BY <1>1
    <3> QED
      BY <3>1, <3>2, <3>3
  <2> QED
    BY <2>1, <2>2, <2>3, SeqEqual
<1> QED
  BY <1>3, <1>4, <1>5 DEF a, b

(* A sequence is its whole blocks and what is left. *)
LEMMA WholeAndLeft ==
    ASSUME DG!DigestAssumption, NEW s \in Seq(Cells)
    PROVE  /\ DG!Whole(s) \in Seq(Cells) /\ DG!Left(s) \in Seq(Cells)
           /\ s = DG!Whole(s) \o DG!Left(s)
           /\ Len(DG!Whole(s)) % Block = 0 /\ Len(DG!Whole(s)) <= Len(s)
           /\ Len(DG!Left(s)) < Block /\ Len(DG!Left(s)) = Len(s) % Block
<1>1. Len(s) \in Nat /\ Block \in Nat \ {0}
  BY BlockIsPositive
<1>2. PICK w \in Nat : Len(s) = w + (Len(s) % Block) /\ w % Block = 0 /\ w <= Len(s)
  BY <1>1, MultipleBefore
<1>3. Len(s) % Block \in 0..Block-1
  BY <1>1, DividedIs
<1>4. /\ w \in 0..Len(s) /\ Len(s) - w < Block
      /\ Len(s) - (Len(s) % Block) = w /\ Len(s) - w = Len(s) % Block
  BY <1>1, <1>2, <1>3
<1>5. DG!Whole(s) = SubSeq(s, 1, w) /\ DG!Left(s) = SubSeq(s, w + 1, Len(s))
  BY <1>4 DEF DG!Whole, DG!Left
<1>6. /\ SubSeq(s, 1, w) \in Seq(Cells) /\ SubSeq(s, w + 1, Len(s)) \in Seq(Cells)
      /\ Len(SubSeq(s, 1, w)) = w /\ Len(SubSeq(s, w + 1, Len(s))) = Len(s) - w
      /\ s = SubSeq(s, 1, w) \o SubSeq(s, w + 1, Len(s))
  BY <1>4, CutAt
<1> QED
  BY <1>2, <1>4, <1>5, <1>6

-----------------------------------------------------------------------------
(* Blocks that are compressed *)

(* The two words count modulo the square of a word, as long as no piece is *)
(* longer than a word counts.                                              *)
LEMMA CountIs ==
    ASSUME DG!DigestAssumption, NEW n \in Nat, NEW m \in 0..WordSize
    PROVE  DG!Count(Total(n), m) = Total(n + m)
<1>1. WordSize \in Nat \ {0}
  BY BlockIsPositive
<1> DEFINE r == n % WordSize
           q == n \div WordSize
           k == r + m
           low == k % WordSize
<1>2. PICK w \in Nat : n = w + r /\ w % WordSize = 0 /\ w \div WordSize = q
  BY <1>1, MultipleBefore
<1>3. r \in 0..WordSize-1 /\ q \in Nat
  BY <1>1, DividedIs
<1> HIDE DEF r, q
<1>4. k \in Nat /\ n + m = w + k
  BY <1>2, <1>3
<1> HIDE DEF k
<1>5. (n + m) % WordSize = low /\ (n + m) \div WordSize = q + (k \div WordSize)
  <2>1. (w + k) % WordSize = k % WordSize
        /\ (w + k) \div WordSize = (w \div WordSize) + (k \div WordSize)
    BY <1>1, <1>2, <1>4, MultiplesAdd
  <2> QED
    BY <1>2, <1>4, <2>1
<1>6. CASE k < WordSize
  <2>1. k = WordSize * 0 + k /\ k \in 0..WordSize-1
    BY <1>1, <1>4, <1>6
  <2>2. low = k /\ k \div WordSize = 0
    BY <1>1, <1>4, <2>1, DividedUniquely
  <2>3. ~(low < m)
    BY <1>3, <2>2 DEF k
  <2> HIDE DEF low
  <2>4. DG!Count(Total(n), m) = <<low, ((q % WordSize) + 0) % WordSize>>
    BY <2>3 DEF DG!Count, Total, low, k, q, r
  <2>5. q % WordSize \in 0..WordSize-1 /\ q % WordSize = WordSize * 0 + (q % WordSize)
    BY <1>1, <1>3, DividedIs
  <2>6. ((q % WordSize) + 0) % WordSize = q % WordSize /\ q + 0 = q
        /\ (q % WordSize) + 0 = q % WordSize
    <3> DEFINE v == q % WordSize
    <3>1. v \in Nat /\ v \in 0..WordSize-1 /\ v = WordSize * 0 + v
      BY <1>1, <2>5
    <3> HIDE DEF v
    <3>2. v % WordSize = v
      BY <1>1, <3>1, DividedUniquely
    <3>3. v + 0 = v /\ q + 0 = q
      BY <1>3, <3>1
    <3> QED
      BY <3>2, <3>3 DEF v
  <2> QED
    BY <1>5, <2>2, <2>4, <2>6 DEF Total
<1>7. CASE k >= WordSize
  <2> DEFINE j == k - WordSize
  <2>1. j \in 0..WordSize-1 /\ k = WordSize * 1 + j
    BY <1>1, <1>3, <1>4, <1>7 DEF k
  <2> HIDE DEF j
  <2>2. low = j /\ k \div WordSize = 1
    BY <1>1, <1>4, <2>1, DividedUniquely
  <2>3. low < m
    BY <1>1, <1>3, <2>2 DEF k, j
  <2>4. ((q % WordSize) + 1) % WordSize = (q + 1) % WordSize
    <3> DEFINE i == (q % WordSize) + 1
    <3>1. PICK v \in Nat : q = v + (q % WordSize) /\ v % WordSize = 0
      BY <1>1, <1>3, MultipleBefore
    <3>2. i \in Nat /\ q + 1 = v + i
      BY <1>1, <1>3, <3>1
    <3> HIDE DEF i
    <3>3. (v + i) % WordSize = i % WordSize
      BY <1>1, <3>1, <3>2, MultiplesAdd
    <3> QED
      BY <3>2, <3>3 DEF i
  <2> HIDE DEF low
  <2>5. DG!Count(Total(n), m) = <<low, ((q % WordSize) + 1) % WordSize>>
    BY <2>3 DEF DG!Count, Total, low, k, q, r
  <2> QED
    BY <1>3, <1>5, <2>2, <2>4, <2>5 DEF Total
<1> QED
  BY <1>1, <1>4, <1>6, <1>7

LEMMA TotalType == DG!DigestAssumption => \A n \in Nat : Total(n) \in Nat \X Nat
<1> SUFFICES ASSUME DG!DigestAssumption, NEW n \in Nat PROVE Total(n) \in Nat \X Nat
  OBVIOUS
<1>1. WordSize \in Nat \ {0}
  BY BlockIsPositive
<1>2. n % WordSize \in Nat /\ n \div WordSize \in Nat
  BY <1>1, DividedIs
<1>3. (n \div WordSize) % WordSize \in Nat
  BY <1>1, <1>2, DividedIs
<1> QED
  BY <1>2, <1>3 DEF Total

(* Whole blocks follow those that have been compressed.                    *)
LEMMA ProcessBlockIs ==
    ASSUME DG!DigestAssumption, NEW c, NEW p \in Seq(Cells), NEW t \in Seq(Cells),
           Compressed(c, p), Len(t) % Block = 0, Len(t) <= WordSize
    PROVE  /\ Compressed(DG!ProcessBlock(t, c), p \o t)
           /\ DG!ProcessBlock(t, c).buffer = c.buffer
<1> DEFINE d == DG!ProcessBlock(t, c)
           x == p \o t
<1>1. Len(p) \in Nat /\ Len(t) \in Nat /\ Block \in Nat \ {0}
  BY BlockIsPositive
<1>2. x \in Seq(Cells) /\ Len(x) = Len(p) + Len(t)
  BY ConcatProperties
<1>3. Len(x) % Block = 0
  <2> DEFINE l == Len(p)
             m == Len(t)
  <2>1. l \in Nat /\ m \in Nat /\ l % Block = 0 /\ m % Block = 0 /\ Len(x) = l + m
    BY <1>1, <1>2 DEF Compressed
  <2> HIDE DEF l, m
  <2>2. (l + m) % Block = m % Block
    BY <1>1, <2>1, MultiplesAdd
  <2> QED
    BY <2>1, <2>2
<1>4. DG!Blocks(x) = DG!Blocks(p) \o DG!Blocks(t) /\ DG!Blocks(x) \in Seq(Seq(Cells))
  BY <1>2, BlocksConcat, BlocksAre DEF Compressed
<1>5. Total(Len(x)) = DG!Count(Total(Len(p)), Len(t)) /\ Total(Len(x)) \in Nat \X Nat
  <2>1. Len(t) \in 0..WordSize
    BY <1>1 DEF DG!DigestAssumption
  <2>2. Len(p) + Len(t) \in Nat
    BY <1>1
  <2> QED
    BY <1>1, <1>2, <2>1, <2>2, CountIs, TotalType
<1>6. d = [c EXCEPT !.blocks = DG!Blocks(x), !.total = Total(Len(x))]
  BY <1>4, <1>5 DEF DG!ProcessBlock, Compressed
<1> HIDE DEF d, x
<1>7. d \in Contexts /\ d.blocks = DG!Blocks(x) /\ d.total = Total(Len(x)) /\ d.buffer = c.buffer
  BY <1>4, <1>5, <1>6 DEF Compressed, Contexts
<1> QED
  BY <1>3, <1>7 DEF Compressed, d, x

-----------------------------------------------------------------------------
(* Bytes that come *)
LEMMA KeepIs ==
    ASSUME NEW c, NEW p, Compressed(c, p), NEW y \in Seq(Cells)
    PROVE  Compressed([c EXCEPT !.buffer = y], p) /\ [c EXCEPT !.buffer = y].buffer = y
BY DEF Compressed, Contexts

(* What the bytes kept become when the first new ones join them.           *)
Add(s, c) ==
    IF c.buffer = <<>> THEN 0
    ELSE IF 2 * Block - Len(c.buffer) > Len(s) THEN Len(s)
    ELSE 2 * Block - Len(c.buffer)
Gathered(s, c) == c.buffer \o SubSeq(s, 1, Add(s, c))
Rest(s, c) == SubSeq(s, Add(s, c) + 1, Len(s))

WithGathered(s, c) ==
    IF Len(Gathered(s, c)) > Block
    THEN [DG!ProcessBlock(DG!Whole(Gathered(s, c)), c) EXCEPT !.buffer = DG!Left(Gathered(s, c))]
    ELSE [c EXCEPT !.buffer = Gathered(s, c)]

LEMMA GatheredIs ==
    ASSUME DG!DigestAssumption, NEW c \in Contexts, Len(c.buffer) <= Block, NEW t \in Seq(Cells)
    PROVE  /\ SubSeq(t, 1, Add(t, c)) \in Seq(Cells) /\ Rest(t, c) \in Seq(Cells)
           /\ t = SubSeq(t, 1, Add(t, c)) \o Rest(t, c) /\ Len(Rest(t, c)) <= Len(t)
           /\ Gathered(t, c) \in Seq(Cells) /\ Len(Gathered(t, c)) <= 2 * Block
           /\ Rest(t, c) # <<>> => Gathered(t, c) = <<>> \/ Len(Gathered(t, c)) = 2 * Block
<1> DEFINE b == c.buffer
           k == Add(t, c)
           h == SubSeq(t, 1, k)
<1>1. Len(t) \in Nat /\ b \in Seq(Cells) /\ Len(b) \in Nat /\ Block \in Nat \ {0}
      /\ Len(b) <= Block
  BY BlockIsPositive DEF Contexts
<1>2. /\ k \in 0..Len(t) /\ Len(b) + k <= 2 * Block
      /\ b = <<>> => k = 0
      /\ b # <<>> => k = Len(t) \/ Len(b) + k = 2 * Block
  <2>1. CASE b = <<>>
    <3>1. k = 0
      BY <2>1 DEF Add
    <3> HIDE DEF k
    <3> QED
      BY <1>1, <2>1, <3>1
  <2>2. CASE b # <<>> /\ 2 * Block - Len(b) > Len(t)
    <3>1. k = Len(t)
      BY <2>2 DEF Add
    <3> HIDE DEF k, b
    <3>2. k \in 0..Len(t)
      BY <1>1, <3>1
    <3>3. Len(b) + k <= 2 * Block
      BY <1>1, <2>2, <3>1
    <3> QED
      BY <2>2, <3>1, <3>2, <3>3
  <2>3. CASE b # <<>> /\ ~(2 * Block - Len(b) > Len(t))
    <3>1. k = 2 * Block - Len(b)
      BY <2>3 DEF Add
    <3> HIDE DEF k, b
    <3>2. k \in 0..Len(t)
      BY <1>1, <2>3, <3>1
    <3>3. Len(b) + k = 2 * Block
      BY <1>1, <3>1
    <3> QED
      BY <1>1, <2>3, <3>2, <3>3
  <2> QED
    BY <2>1, <2>2, <2>3
<1> HIDE DEF k
<1>3. /\ h \in Seq(Cells) /\ SubSeq(t, k + 1, Len(t)) \in Seq(Cells) /\ Len(h) = k
      /\ Len(SubSeq(t, k + 1, Len(t))) = Len(t) - k
      /\ t = h \o SubSeq(t, k + 1, Len(t))
  BY <1>2, CutAt
<1> HIDE DEF h
<1>4. b \o h \in Seq(Cells) /\ Len(b \o h) = Len(b) + k
  BY <1>1, <1>3, ConcatProperties
<1>5. Rest(t, c) = SubSeq(t, k + 1, Len(t)) /\ Gathered(t, c) = b \o h
  BY DEF Rest, Gathered, k, h
<1>6. Rest(t, c) # <<>> => b \o h = <<>> \/ Len(b \o h) = 2 * Block
  <2> SUFFICES ASSUME Rest(t, c) # <<>> PROVE b \o h = <<>> \/ Len(b \o h) = 2 * Block
    OBVIOUS
  <2>1. k # Len(t)
    BY <1>1, <1>3, <1>5, EmptySeq
  <2>2. CASE b = <<>>
    <3>1. Len(b \o h) = 0
      BY <1>2, <1>4, <2>2
    <3> QED
      BY <1>4, <3>1, EmptySeq
  <2>3. CASE b # <<>>
    BY <1>2, <1>4, <2>1, <2>3
  <2> QED
    BY <2>2, <2>3
<1> QED
  <2>1. Len(Rest(t, c)) <= Len(t)
    BY <1>1, <1>2, <1>3, <1>5
  <2> QED
    BY <1>2, <1>3, <1>4, <1>5, <1>6, <2>1 DEF h, k

(* The bytes kept and those that join them, compressed if they fill more   *)
(* than a block.                                                           *)
LEMMA GatheredHolds ==
    ASSUME DG!DigestAssumption, NEW c, NEW s \in Seq(Cells), NEW t \in Seq(Cells), HasTaken(c, s)
    PROVE  /\ HasTaken(WithGathered(t, c), s \o SubSeq(t, 1, Add(t, c)))
           /\ Rest(t, c) # <<>> => WithGathered(t, c).buffer = <<>>
<1> DEFINE b == c.buffer
           h == SubSeq(t, 1, Add(t, c))
           j == Gathered(t, c)
           x == DG!Whole(j)
           y == DG!Left(j)
           c1 == WithGathered(t, c)
<1>1. PICK p \in Seq(Cells) : Compressed(c, p) /\ s = p \o b
  BY DEF HasTaken
<1>2. c \in Contexts /\ b \in Seq(Cells) /\ Len(b) <= Block /\ Block \in Nat \ {0}
  BY <1>1, BlockIsPositive DEF Compressed, Contexts, HasTaken
<1>3. /\ h \in Seq(Cells) /\ j \in Seq(Cells) /\ Len(j) \in Nat /\ Len(j) <= 2 * Block
      /\ Rest(t, c) # <<>> => j = <<>> \/ Len(j) = 2 * Block
  <2>1. /\ h \in Seq(Cells) /\ j \in Seq(Cells) /\ Len(j) <= 2 * Block
        /\ Rest(t, c) # <<>> => j = <<>> \/ Len(j) = 2 * Block
    BY <1>2, GatheredIs
  <2> HIDE DEF h, j
  <2> QED
    BY <2>1, LenProperties
<1>4. s \o h = p \o j
  <2>1. (p \o b) \o h = p \o (b \o h)
    <3> HIDE DEF b, h, j, x, y, c1
    <3>1. b \in Seq(Cells) /\ h \in Seq(Cells)
      BY <1>2, <1>3
    <3> QED
      BY <3>1, ConcatAssociative, SMTT(40)
  <2> QED
    BY <1>1, <2>1 DEF Gathered
<1>5. CASE Len(j) > Block
  <2>1. /\ x \in Seq(Cells) /\ y \in Seq(Cells) /\ j = x \o y
        /\ Len(x) % Block = 0 /\ Len(x) <= Len(j) /\ Len(y) < Block /\ Len(y) = Len(j) % Block
    BY <1>3, WholeAndLeft
  <2>2. Len(x) <= WordSize
    <3> HIDE DEF x, j
    <3>1. Len(x) \in Nat /\ 2 * Block < WordSize /\ WordSize \in Nat
      BY <2>1, LenProperties DEF DG!DigestAssumption
    <3> QED
      BY <1>2, <1>3, <2>1, <3>1
  <2>3. Compressed(DG!ProcessBlock(x, c), p \o x) /\ p \o x \in Seq(Cells)
    BY <1>1, <2>1, <2>2, ProcessBlockIs, ConcatProperties
  <2>4. c1 = [DG!ProcessBlock(x, c) EXCEPT !.buffer = y]
    BY <1>5 DEF WithGathered
  <2>5. Compressed(c1, p \o x) /\ c1.buffer = y
    BY <2>1, <2>3, <2>4, KeepIs
  <2>6. s \o h = (p \o x) \o y
    <3> HIDE DEF x, y, j
    <3>1. (p \o x) \o y = p \o (x \o y)
      BY <2>1, ConcatAssociative, SMTT(40)
    <3> QED
      BY <1>4, <2>1, <3>1
  <2>7. HasTaken(c1, s \o h)
    <3> HIDE DEF c1, h, x, y
    <3>1. Len(y) <= Block
      BY <1>2, <2>1, LenProperties
    <3> QED
      BY <2>3, <2>5, <2>6, <3>1 DEF HasTaken
  <2>8. Rest(t, c) # <<>> => c1.buffer = <<>>
    <3> SUFFICES ASSUME Rest(t, c) # <<>> PROVE y = <<>>
      BY <2>5
    <3> HIDE DEF j, x, y
    <3>1. Len(j) = Block * 2 + 0 /\ 0 \in 0..Block-1
      BY <1>2, <1>3, <1>5, EmptySeq
    <3>2. Len(j) % Block = 0
      BY <1>2, <1>3, <3>1, DividedUniquely
    <3> QED
      BY <2>1, <3>2, EmptySeq
  <2> QED
    BY <2>7, <2>8
<1>6. CASE ~(Len(j) > Block)
  <2>1. c1 = [c EXCEPT !.buffer = j]
    BY <1>6 DEF WithGathered
  <2>2. Compressed(c1, p) /\ c1.buffer = j
    BY <1>1, <1>3, <2>1, KeepIs
  <2>3. HasTaken(c1, s \o h)
    <3> HIDE DEF c1, h, j
    <3>1. Len(j) <= Block
      BY <1>2, <1>3, <1>6
    <3> QED
      BY <1>4, <2>2, <3>1 DEF HasTaken
  <2>4. Rest(t, c) # <<>> => j = <<>>
    BY <1>2, <1>3, <1>6
  <2> QED
    BY <2>2, <2>3, <2>4
<1> QED
  BY <1>5, <1>6

(* md5_process_bytes takes in what it is given. *)
LEMMA ProcessBytesTakes ==
    ASSUME DG!DigestAssumption, NEW c, NEW s \in Seq(Cells), NEW t \in Seq(Cells), HasTaken(c, s),
           Len(t) <= WordSize
    PROVE  HasTaken(DG!ProcessBytes(t, c), s \o t)
<1> DEFINE h == SubSeq(t, 1, Add(t, c))
           r == Rest(t, c)
           c1 == WithGathered(t, c)
           c2 == IF Len(r) > Block THEN DG!ProcessBlock(DG!Whole(r), c1) ELSE c1
           kept == IF Len(r) > Block THEN DG!Left(r) ELSE r
           d == IF kept = <<>> THEN c2 ELSE [c2 EXCEPT !.buffer = kept]
<1>1. DG!ProcessBytes(t, c) = d
  BY DEF DG!ProcessBytes, WithGathered, Gathered, Rest, Add
<1>2. c \in Contexts /\ Len(c.buffer) <= Block
  BY DEF HasTaken, Compressed
<1>3. /\ h \in Seq(Cells) /\ r \in Seq(Cells) /\ t = h \o r
      /\ Len(r) <= Len(t) /\ Len(r) \in Nat /\ Len(t) \in Nat /\ Block \in Nat \ {0}
      /\ WordSize \in Nat
  <2>1. h \in Seq(Cells) /\ r \in Seq(Cells) /\ t = h \o r /\ Len(r) <= Len(t)
    BY <1>2, GatheredIs
  <2>2. Len(t) \in Nat
    OBVIOUS
  <2> HIDE DEF h, r
  <2>3. Len(r) \in Nat
    BY <2>1, LenProperties
  <2> QED
    BY <2>1, <2>2, <2>3, BlockIsPositive
<1>4. HasTaken(c1, s \o h) /\ (r # <<>> => c1.buffer = <<>>)
  BY GatheredHolds
<1> HIDE DEF h, r, c1
<1>5. s \o h \in Seq(Cells) /\ s \o t = (s \o h) \o r
  BY <1>3, ConcatProperties, ConcatAssociative, SMTT(40)
<1>6. CASE r = <<>>
  <2>1. Len(r) = 0
    BY <1>6, EmptySeq
  <2>2. d = c1
    BY <1>3, <1>6, <2>1
  <2>3. s \o t = s \o h
    BY <1>5, <1>6, ConcatEmptySeq
  <2> QED
    BY <1>1, <1>4, <2>2, <2>3
<1>7. CASE r # <<>>
  <2>1. PICK p \in Seq(Cells) : Compressed(c1, p) /\ s \o h = p \o c1.buffer
    BY <1>4 DEF HasTaken
  <2>2. s \o h = p
    BY <1>4, <1>7, <2>1, ConcatEmptySeq
  <2>3. CASE Len(r) > Block
    <3> DEFINE x == DG!Whole(r)
               y == DG!Left(r)
    <3>1. /\ x \in Seq(Cells) /\ y \in Seq(Cells) /\ r = x \o y
          /\ Len(x) % Block = 0 /\ Len(x) <= Len(r) /\ Len(y) < Block
      BY <1>3, WholeAndLeft
    <3>2. Len(x) <= WordSize /\ Len(y) <= Block
      BY <1>3, <3>1, LenProperties
    <3>3. /\ Compressed(DG!ProcessBlock(x, c1), p \o x) /\ DG!ProcessBlock(x, c1).buffer = <<>>
          /\ p \o x \in Seq(Cells)
      BY <1>4, <1>7, <2>1, <3>1, <3>2, ProcessBlockIs, ConcatProperties
    <3>4. d = IF y = <<>> THEN DG!ProcessBlock(x, c1)
              ELSE [DG!ProcessBlock(x, c1) EXCEPT !.buffer = y]
      BY <2>3
    <3>5. Compressed(d, p \o x) /\ d.buffer = y
      <4> HIDE DEF x, y, d
      <4> QED
        BY <3>1, <3>3, <3>4, KeepIs
    <3>6. s \o t = (p \o x) \o y
      <4> HIDE DEF x, y
      <4>1. (p \o x) \o y = p \o (x \o y)
        BY <3>1, ConcatAssociative, SMTT(40)
      <4> QED
        BY <1>5, <2>2, <3>1, <4>1
    <3> HIDE DEF x, y, d
    <3> QED
      BY <1>1, <3>2, <3>3, <3>5, <3>6 DEF HasTaken
  <2>4. CASE ~(Len(r) > Block)
    <3>1. d = [c1 EXCEPT !.buffer = r]
      BY <1>7, <2>4
    <3>2. Compressed(d, p) /\ d.buffer = r
      <4> HIDE DEF d
      <4> QED
        BY <1>3, <2>1, <3>1, KeepIs
    <3>3. Len(r) <= Block /\ s \o t = p \o r
      BY <1>3, <1>5, <2>2, <2>4
    <3> HIDE DEF d
    <3> QED
      BY <1>1, <3>2, <3>3 DEF HasTaken
  <2> QED
    BY <2>3, <2>4
<1> QED
  BY <1>6, <1>7

-----------------------------------------------------------------------------
(* The end of a message *)

LEMMA FillBufIs ==
    ASSUME NEW n \in Nat
    PROVE  DG!FillBuf(n) \in Seq(Cells) /\ Len(DG!FillBuf(n)) = n
<1>1. DG!FillBuf(n) \in [1..n -> Cells]
  BY DEF DG!FillBuf, Cells
<1>2. DG!FillBuf(n) \in Seq(Cells) /\ DOMAIN DG!FillBuf(n) = 1..n
  BY <1>1, SeqDef
<1> QED
  BY <1>2, LenProperties

(* The padding fills the last block, or that and one more. *)
LEMMA PadLengthIs ==
    ASSUME DG!DigestAssumption, NEW k \in 0..Block
    PROVE  /\ DG!PadLength(k) \in 1..Block
           /\ k + DG!PadLength(k) + DG!LengthField \in {Block, 2 * Block}
<1>1. Block \in Nat /\ Block > 2 /\ DG!LengthField = 2
  BY DEF DG!DigestAssumption, DG!LengthField
<1> QED
  BY <1>1 DEF DG!PadLength

LEMMA OneOrTwoBlocks ==
    ASSUME DG!DigestAssumption, NEW k \in {Block, 2 * Block}
    PROVE  k \in Nat /\ k % Block = 0 /\ k <= WordSize
<1>1. Block \in Nat \ {0} /\ WordSize \in Nat /\ 2 * Block <= WordSize
  BY BlockIsPositive DEF DG!DigestAssumption
<1>2. 0 \in 0..Block-1 /\ k \in Nat /\ (k = Block * 1 + 0 \/ k = Block * 2 + 0)
  BY <1>1
<1>3. k % Block = 0
  BY <1>1, <1>2, DividedUniquely
<1> QED
  BY <1>1, <1>2, <1>3

(* It has as few zeroes as will do. *)
LEMMA ZeroesAre ==
    ASSUME DG!DigestAssumption, NEW w \in Nat, w % Block = 0, NEW k \in 0..Block
    PROVE  DG!PadLength(k) - 1 =
             CHOOSE z \in 0..(Block - 1) : (w + k + 1 + z + DG!LengthField) % Block = 0
<1> DEFINE Fills(z) == (w + k + 1 + z + DG!LengthField) % Block = 0
           y == DG!PadLength(k) - 1
           f == k + DG!PadLength(k) + DG!LengthField
<1>1. Block \in Nat \ {0} /\ DG!LengthField = 2
  BY BlockIsPositive DEF DG!LengthField
<1>2. y \in 0..(Block - 1) /\ DG!PadLength(k) = y + 1 /\ f \in {Block, 2 * Block}
  BY <1>1, PadLengthIs
<1>3. f \in Nat /\ f % Block = 0
  BY <1>2, OneOrTwoBlocks
<1>4. w + k + 1 + y + DG!LengthField = w + f
  BY <1>1, <1>2
<1> HIDE DEF y, f
<1>5. Fills(y)
  BY <1>1, <1>3, <1>4, MultiplesAdd
<1>6. ASSUME NEW z \in 0..(Block - 1), Fills(z) PROVE z = y
  <2>1. ASSUME NEW a \in 0..(Block - 1), NEW b \in 0..(Block - 1), a < b, Fills(a), Fills(b)
        PROVE  FALSE
    <3> DEFINE m == w + k + 1 + a + DG!LengthField
               d == b - a
    <3>1. m \in Nat /\ m % Block = 0
      BY <1>1, <2>1
    <3>2. d \in Nat /\ d \in 0..Block-1 /\ d # 0 /\ d = Block * 0 + d
      BY <1>1, <2>1
    <3>3. w + k + 1 + b + DG!LengthField = m + d
      BY <1>1, <2>1
    <3>4. (m + d) % Block = 0
      BY <2>1, <3>3
    <3> HIDE DEF m, d
    <3>5. (m + d) % Block = d % Block
      BY <1>1, <3>1, <3>2, MultiplesAdd
    <3>6. d % Block = d
      BY <1>1, <3>2, DividedUniquely
    <3> QED
      BY <3>2, <3>4, <3>5, <3>6
  <2>2. z < y \/ z > y \/ z = y
    BY <1>1, <1>2
  <2> QED
    BY <1>2, <1>5, <1>6, <2>1, <2>2
<1> HIDE DEF Fills
<1>7. y = CHOOSE z \in 0..(Block - 1) : Fills(z)
  BY <1>2, <1>5, <1>6
<1> QED
  BY <1>7 DEF Fills, y

(* The two words of the length in bytes give those of the length in bits.  *)
LEMMA BitsAre ==
    ASSUME DG!DigestAssumption, NEW n \in Nat
    PROVE  /\ DG!Bits(Total(n)) = <<(8 * n) % WordSize, ((8 * n) \div WordSize) % WordSize>>
           /\ DG!Bits(Total(n)) \in Seq(Cells) /\ Len(DG!Bits(Total(n))) = 2
<1> DEFINE q == n \div WordSize
           r == n % WordSize
           w == WordSize \div 8
           d == r \div w
           e == r % w
<1>1. WordSize \in Nat \ {0} /\ WordSize % 8 = 0
  BY BlockIsPositive DEF DG!DigestAssumption
<1>2. n = WordSize * q + r /\ r \in 0..WordSize-1 /\ q \in Nat
  BY <1>1, DividedIs
<1>3. w \in Nat \ {0} /\ WordSize = 8 * w
  <2>1. PICK x \in Nat : WordSize = 8 * x /\ x = WordSize \div 8
    BY <1>1, Multiple
  <2> QED
    BY <1>1, <2>1
<1> HIDE DEF q, r, w
<1>4. r = w * d + e /\ e \in 0..w-1 /\ d \in Nat
  <2>1. r \in Nat
    BY <1>1, <1>2
  <2> QED
    BY <1>3, <2>1, DividedIs
<1> HIDE DEF d, e
<1> DEFINE u == 8 * r
           m == WordSize * (8 * q)
<1>5. u \in Nat /\ m \in Nat /\ 8 * n = m + u
  BY <1>1, <1>2
<1>6. u = WordSize * d + 8 * e /\ 8 * e \in 0..WordSize-1
  BY <1>1, <1>3, <1>4
<1>7. m = WordSize * (8 * q) + 0 /\ 8 * q \in Nat /\ 0 \in 0..WordSize-1
  BY <1>1, <1>2
<1> HIDE DEF u, m
<1>8. u \div WordSize = d
  BY <1>1, <1>4, <1>5, <1>6, DividedUniquely
<1>9. m % WordSize = 0 /\ m \div WordSize = 8 * q
  <2> DEFINE q8 == 8 * q
  <2>1. q8 \in Nat /\ m = WordSize * q8 + 0 /\ 0 \in 0..WordSize-1
    BY <1>7
  <2> HIDE DEF q8
  <2>2. m % WordSize = 0 /\ m \div WordSize = q8
    BY <1>1, <1>5, <2>1, DividedUniquely
  <2> QED
    BY <2>2 DEF q8
<1>10. (m + u) % WordSize = u % WordSize
       /\ (m + u) \div WordSize = (m \div WordSize) + (u \div WordSize)
  BY <1>1, <1>5, <1>9, MultiplesAdd
<1>11. (8 * n) % WordSize = (r * 8) % WordSize
  <2>1. u = r * 8
    BY <1>2 DEF u
  <2> QED
    BY <1>5, <1>10, <2>1
<1>12. (8 * n) \div WordSize = 8 * q + d
  BY <1>5, <1>8, <1>9, <1>10
<1>13. ((q % WordSize) * 8 + d) % WordSize = (8 * q + d) % WordSize
  <2> DEFINE i == q % WordSize
             j == i * 8 + d
  <2>1. PICK v \in Nat : q = v + i /\ v % WordSize = 0
    BY <1>1, <1>2, MultipleBefore
  <2>2. i \in Nat
    BY <1>1, <1>2, DividedIs
  <2> HIDE DEF i
  <2>3. PICK x \in Nat : v = WordSize * x
    BY <1>1, <2>1, Multiple
  <2> DEFINE v8 == 8 * v
             x8 == 8 * x
  <2>4. v8 \in Nat /\ x8 \in Nat /\ v8 = WordSize * x8 + 0 /\ 0 \in 0..WordSize-1
    BY <1>1, <2>1, <2>3
  <2>5. j \in Nat /\ 8 * q + d = v8 + j
    BY <1>2, <1>4, <2>1, <2>2
  <2> HIDE DEF v8, x8, j
  <2>6. v8 % WordSize = 0
    BY <1>1, <2>4, DividedUniquely
  <2>7. (v8 + j) % WordSize = j % WordSize
    BY <1>1, <2>4, <2>5, <2>6, MultiplesAdd
  <2> QED
    BY <2>5, <2>7 DEF j, i
<1>14. DG!Bits(Total(n)) = <<(r * 8) % WordSize, ((q % WordSize) * 8 + d) % WordSize>>
  BY DEF DG!Bits, Total, q, r, w, d
<1>15. DG!Bits(Total(n)) = <<(8 * n) % WordSize, ((8 * n) \div WordSize) % WordSize>>
  BY <1>11, <1>12, <1>13, <1>14
<1>16. (8 * n) % WordSize \in Nat /\ ((8 * n) \div WordSize) % WordSize \in Nat
  <2> DEFINE n8 == 8 * n
  <2>1. n8 \in Nat
    OBVIOUS
  <2> HIDE DEF n8
  <2>2. n8 % WordSize \in Nat /\ n8 \div WordSize \in Nat
    BY <1>1, <2>1, DividedIs
  <2>3. (n8 \div WordSize) % WordSize \in Nat
    BY <1>1, <2>2, DividedIs
  <2> QED
    BY <2>2, <2>3 DEF n8
<1>17. \A a, b \in Nat : <<a, b>> \in Seq(Cells) /\ Len(<<a, b>>) = 2
  BY DEF Cells
<1> QED
  BY <1>15, <1>16, <1>17

-----------------------------------------------------------------------------
(* Messages *)

(* The bytes of a message, and what a piece adds to it. *)
LEMMA MsgIs ==
    ASSUME NEW m \in Nat, NEW n \in Nat
    PROVE  /\ Msg(m) \in Seq(Cells) /\ Len(Msg(m)) = m
           /\ [i \in 1..n |-> m + i] \in Seq(Cells) /\ Len([i \in 1..n |-> m + i]) = n
           /\ Msg(m) \o [i \in 1..n |-> m + i] = Msg(m + n)
<1> DEFINE t == [i \in 1..n |-> m + i]
<1>1. ASSUME NEW k \in Nat PROVE Msg(k) \in Seq(Cells) /\ Len(Msg(k)) = k
  <2>1. Msg(k) \in [1..k -> Cells] /\ DOMAIN Msg(k) = 1..k
    BY DEF Msg, Cells
  <2>2. Msg(k) \in Seq(Cells)
    BY <2>1, SeqDef
  <2> QED
    BY <2>1, <2>2, LenProperties
<1>2. t \in Seq(Cells) /\ Len(t) = n
  <2>1. t \in [1..n -> Cells] /\ DOMAIN t = 1..n
    BY DEF Cells
  <2> HIDE DEF t
  <2>2. t \in Seq(Cells)
    BY <2>1, SeqDef
  <2> QED
    BY <2>1, <2>2, LenProperties
<1>3. \A i \in 1..n : t[i] = m + i
  OBVIOUS
<1>4. Msg(m) \in Seq(Cells) /\ Len(Msg(m)) = m /\ \A i \in 1..m : Msg(m)[i] = i
  BY <1>1 DEF Msg
<1>5. m + n \in Nat
  OBVIOUS
<1>6. /\ Msg(m + n) \in Seq(Cells) /\ Len(Msg(m + n)) = m + n
      /\ \A i \in 1..m + n : Msg(m + n)[i] = i
  BY <1>1, <1>5 DEF Msg
<1> DEFINE a == Msg(m)
           b == Msg(m + n)
<1> HIDE DEF t, a, b
<1>7. /\ a \o t \in Seq(Cells) /\ Len(a \o t) = Len(a) + Len(t)
      /\ \A i \in 1..Len(a) + Len(t) : (a \o t)[i] = IF i <= Len(a) THEN a[i] ELSE t[i - Len(a)]
  BY <1>2, <1>4, ConcatProperties DEF a
<1>8. ASSUME NEW i \in 1..m + n PROVE (a \o t)[i] = b[i]
  <2>1. CASE i <= m
    BY <1>2, <1>4, <1>6, <1>7, <2>1 DEF a, b
  <2>2. CASE i > m
    <3>1. i - m \in 1..n /\ m + (i - m) = i
      BY <2>2
    <3>2. (a \o t)[i] = t[i - m]
      BY <1>2, <1>4, <1>7, <2>2 DEF a
    <3> QED
      BY <1>3, <1>6, <3>1, <3>2 DEF b
  <2>3. i <= m \/ i > m
    OBVIOUS
  <2> QED
    BY <2>1, <2>2, <2>3
<1>9. a \o t = b
  <2>1. Len(a \o t) = m + n /\ b \in Seq(Cells) /\ Len(b) = m + n
    BY <1>2, <1>4, <1>6, <1>7 DEF a, b
  <2>2. \A i \in 1..Len(a \o t) : (a \o t)[i] = b[i]
    BY <1>8, <2>1
  <2> QED
    BY <1>7, <2>1, <2>2, SeqEqual
<1> QED
  BY <1>2, <1>4, <1>9 DEF a, b, t

LEMMA Regroup ==
    ASSUME NEW p \in Seq(Cells), NEW b \in Seq(Cells), NEW f \in Seq(Cells), NEW w \in Seq(Cells)
    PROVE  p \o (b \o f \o w) = p \o b \o f \o w
<1>1. b \o f \in Seq(Cells)
  BY ConcatProperties
<1>2. p \o (b \o f) = (p \o b) \o f
  BY ConcatAssociative
<1>3. p \o ((b \o f) \o w) = (p \o (b \o f)) \o w
  BY <1>1, ConcatAssociative, SMTT(40)
<1> QED
  BY <1>2, <1>3

(* The end of a context is the end of the padded message. *)
LEMMA FinishIs ==
    ASSUME DG!DigestAssumption, NEW c, NEW n \in Nat, HasTaken(c, Msg(n))
    PROVE  DG!FinishCtx(c) = DG!Blocks(DG!Padded(n))
<1>1. PICK p \in Seq(Cells) : Compressed(c, p) /\ Msg(n) = p \o c.buffer
  BY DEF HasTaken
<1> DEFINE b == c.buffer
           k == Len(b)
           f == DG!FillBuf(DG!PadLength(k))
           w == DG!Bits(DG!Count(c.total, k))
           t == b \o f \o w
<1>2. b \in Seq(Cells) /\ k \in 0..Block /\ Block \in Nat \ {0} /\ WordSize \in Nat
      /\ 2 * Block <= WordSize
  <2>1. b \in Seq(Cells) /\ k <= Block /\ Block \in Nat \ {0} /\ WordSize \in Nat
        /\ 2 * Block <= WordSize
    BY <1>1, BlockIsPositive DEF HasTaken, Compressed, Contexts, DG!DigestAssumption
  <2> HIDE DEF b
  <2>2. k \in Nat
    BY <2>1, LenProperties
  <2> QED
    BY <2>1, <2>2
<1>3. Len(p) \in Nat /\ n = Len(p) + k /\ Len(p) % Block = 0
  <2>1. Len(Msg(n)) = n
    BY MsgIs
  <2> HIDE DEF b
  <2>2. Len(p \o b) = Len(p) + Len(b)
    BY <1>2, ConcatProperties
  <2>3. p \o b = Msg(n)
    BY <1>1 DEF b
  <2> QED
    BY <1>1, <2>1, <2>2, <2>3 DEF Compressed
<1>4. w = DG!Bits(Total(n))
  <2>1. k \in 0..WordSize
    BY <1>2
  <2> HIDE DEF k
  <2>2. DG!Count(Total(Len(p)), k) = Total(Len(p) + k)
    BY <1>3, <2>1, CountIs
  <2> QED
    BY <1>1, <1>3, <2>2 DEF Compressed
<1>5. /\ w \in Seq(Cells) /\ Len(w) = 2
      /\ w = <<(8 * n) % WordSize, ((8 * n) \div WordSize) % WordSize>>
  BY <1>4, BitsAre
<1>6. DG!PadLength(k) \in 1..Block /\ k + DG!PadLength(k) + DG!LengthField \in {Block, 2 * Block}
  BY <1>2, PadLengthIs
<1>7. f \in Seq(Cells) /\ Len(f) = DG!PadLength(k)
  BY <1>2, <1>6, FillBufIs
<1>8. DG!Padded(n) = Msg(n) \o f \o w
  <2>1. DG!PadLength(k) - 1 =
          CHOOSE z \in 0..(Block - 1) : (Len(p) + k + 1 + z + DG!LengthField) % Block = 0
    BY <1>2, <1>3, ZeroesAre
  <2>2. DG!PadLength(k) - 1 =
          CHOOSE z \in 0..(Block - 1) : (n + 1 + z + DG!LengthField) % Block = 0
    BY <1>3, <2>1
  <2>3. 1 + (DG!PadLength(k) - 1) = DG!PadLength(k)
    BY <1>2, <1>6
  <2> QED
    BY <1>5, <2>2, <2>3 DEF DG!Padded, Msg
<1>9. DG!FinishCtx(c) = DG!ProcessBlock(t, c).blocks
  BY DEF DG!FinishCtx
<1> HIDE DEF b, k, f, w
<1>10. b \o f \in Seq(Cells) /\ Len(b \o f) = k + DG!PadLength(k)
  BY <1>2, <1>7, ConcatProperties DEF k
<1>11. t \in Seq(Cells) /\ Len(t) = k + DG!PadLength(k) + DG!LengthField
  <2>1. t \in Seq(Cells) /\ Len(t) = Len(b \o f) + Len(w)
    BY <1>5, <1>10, ConcatProperties
  <2> QED
    BY <1>5, <1>10, <2>1 DEF DG!LengthField
<1>12. Len(t) % Block = 0 /\ Len(t) <= WordSize
  BY <1>6, <1>11, OneOrTwoBlocks
<1>13. p \o t = Msg(n) \o f \o w
  <2>1. b \in Seq(Cells) /\ f \in Seq(Cells) /\ w \in Seq(Cells)
    BY <1>2, <1>5, <1>7
  <2>2. \A x, y, z \in Seq(Cells) : p \o (x \o y \o z) = p \o x \o y \o z
    BY Regroup
  <2> HIDE DEF t
  <2>3. p \o (b \o f \o w) = p \o b \o f \o w
    BY <2>1, <2>2
  <2>4. p \o t = p \o b \o f \o w
    BY <2>3 DEF t
  <2> QED
    BY <1>1, <2>4 DEF b
<1> HIDE DEF t
<1>14. Compressed(DG!ProcessBlock(t, c), p \o t)
  BY <1>1, <1>11, <1>12, ProcessBlockIs
<1> QED
  BY <1>8, <1>9, <1>13, <1>14 DEF Compressed

-----------------------------------------------------------------------------
(* A context has taken in the message that has been given. *)
DigestInv ==
    /\ given \in Nat /\ HasTaken(ctx, Msg(given))
    /\ mode = "stream" => ctx.buffer = <<>>
    /\ DG!DigestIsOfTheWhole

LEMMA NewCtxTakes == DG!DigestAssumption => HasTaken(DG!NewCtx, Msg(0)) /\ DG!NewCtx.buffer = <<>>
<1> SUFFICES ASSUME DG!DigestAssumption PROVE HasTaken(DG!NewCtx, Msg(0))
             /\ DG!NewCtx.buffer = <<>>
  OBVIOUS
<1>1. Block \in Nat \ {0} /\ WordSize \in Nat \ {0}
  BY BlockIsPositive
<1>2. /\ 0 \in 0..Block-1 /\ 0 \in 0..WordSize-1
      /\ 0 = Block * 0 + 0 /\ 0 = WordSize * 0 + 0
  BY <1>1
<1>3. 0 % Block = 0 /\ 0 \div Block = 0 /\ 0 % WordSize = 0 /\ 0 \div WordSize = 0
  BY <1>1, <1>2, DividedUniquely
<1> DEFINE e == <<>>
<1>4. e \in Seq(Cells) /\ Len(e) = 0 /\ e \in Seq(Seq(Cells))
  BY EmptySeq
<1>5. DG!Blocks(e) = <<>>
  <2>1. DG!Blocks(e) \in Seq(Seq(Cells)) /\ Len(DG!Blocks(e)) = 0
    BY <1>3, <1>4, BlocksAre
  <2> QED
    BY <2>1, EmptySeq
<1>6. Total(0) = <<0, 0>>
  BY <1>3 DEF Total
<1>7. Compressed(DG!NewCtx, e)
  BY <1>3, <1>4, <1>5, <1>6 DEF Compressed, DG!NewCtx, Contexts
<1>8. Msg(0) = e \o DG!NewCtx.buffer
  <2>1. Msg(0) \in Seq(Cells) /\ Len(Msg(0)) = 0
    BY MsgIs
  <2>2. Msg(0) = <<>>
    BY <2>1, EmptySeq
  <2>3. <<>> \o <<>> = <<>>
    BY <1>4, ConcatEmptySeq
  <2> QED
    BY <2>2, <2>3 DEF DG!NewCtx
<1>9. DG!NewCtx.buffer = <<>> /\ Len(DG!NewCtx.buffer) <= Block
  BY <1>1, <1>4 DEF DG!NewCtx
<1> QED
  BY <1>4, <1>7, <1>8, <1>9 DEF HasTaken

LEMMA DigestInit == DG!DigestAssumption /\ DG!Init => DigestInv
BY NewCtxTakes DEF DG!Init, DigestInv, DG!DigestIsOfTheWhole

(* A finished message has the digest of the whole. *)
LEMMA DoneKeeps ==
    ASSUME DG!DigestAssumption, NEW c, NEW n \in Nat, HasTaken(c, Msg(n)), DG!Done(c, n)
    PROVE  DigestInv'
<1>1. DG!FinishCtx(c) = DG!Blocks(DG!Padded(n))
  BY FinishIs
<1>2. digest'.blocks = DG!Blocks(DG!Padded(digest'.length))
  BY <1>1 DEF DG!Done
<1>3. ctx' = DG!NewCtx /\ given' = 0
  BY DEF DG!Done
<1> QED
  BY <1>2, <1>3, NewCtxTakes DEF DigestInv, DG!DigestIsOfTheWhole

LEMMA DigestKeeps ==
    ASSUME DG!DigestAssumption, DigestInv, [DG!Next]_(DG!vars)
    PROVE  DigestInv'
<1>1. given \in Nat /\ HasTaken(ctx, Msg(given)) /\ DG!DigestIsOfTheWhole
  BY DEF DigestInv
<1>2. ASSUME NEW n \in Nat, n <= WordSize
      PROVE  /\ HasTaken(DG!ProcessBytes(DG!Piece(n), ctx), Msg(given + n))
             /\ DG!Piece(n) \in Seq(Cells) /\ Len(DG!Piece(n)) = n
             /\ Msg(given) \o DG!Piece(n) = Msg(given + n)
  <2>1. /\ Msg(given) \in Seq(Cells) /\ DG!Piece(n) \in Seq(Cells) /\ Len(DG!Piece(n)) = n
        /\ Msg(given) \o DG!Piece(n) = Msg(given + n)
    BY <1>1, MsgIs DEF DG!Piece
  <2>2. HasTaken(DG!ProcessBytes(DG!Piece(n), ctx), Msg(given) \o DG!Piece(n))
    BY <1>1, <1>2, <2>1, ProcessBytesTakes
  <2> QED
    BY <2>1, <2>2
<1>3. CASE DG!ProcessPiece
  <2>1. PICK n \in {m \in 0..Longest : given + m <= MaxLen} :
          ctx' = DG!ProcessBytes(DG!Piece(n), ctx) /\ given' = given + n
    BY <1>3 DEF DG!ProcessPiece
  <2>2. n \in Nat /\ n <= WordSize /\ given + n \in Nat
    BY <1>1 DEF DG!DigestAssumption
  <2>3. mode' # "stream" /\ digest' = digest
    BY <1>3 DEF DG!ProcessPiece
  <2> QED
    BY <1>1, <1>2, <2>1, <2>2, <2>3 DEF DigestInv, DG!DigestIsOfTheWhole
<1>4. CASE DG!Finish
  BY <1>1, <1>4, DoneKeeps DEF DG!Finish
<1>5. CASE DG!ReadStream
  <2>1. ctx.buffer = <<>>
    BY <1>5 DEF DG!ReadStream, DigestInv
  <2> DEFINE l == Block * Stream
  <2>2. Block \in Nat \ {0} /\ l \in Nat /\ l <= WordSize /\ l = Block * Stream + 0
        /\ Stream \in Nat
    BY BlockIsPositive DEF DG!DigestAssumption
  <2>3. PICK n \in 0..l :
          IF n = l
          THEN ctx' = DG!ProcessBlock(DG!Piece(n), ctx) /\ given' = given + n
               /\ UNCHANGED <<mode, digest>>
          ELSE DG!Done(DG!ProcessBytes(DG!Piece(n), ctx), given + n)
    BY <1>5 DEF DG!ReadStream
  <2>4. 0 \in 0..Block-1
    BY <2>2
  <2>5. l % Block = 0
    <3> HIDE DEF l
    <3> QED
      BY <2>2, <2>4, DividedUniquely
  <2> HIDE DEF l
  <2>6. n \in Nat /\ n <= WordSize /\ given + n \in Nat
    BY <1>1, <2>2 DEF DG!DigestAssumption
  <2>7. CASE n # l
    BY <1>2, <2>3, <2>6, <2>7, DoneKeeps
  <2>8. CASE n = l
    <3> DEFINE t == DG!Piece(n)
    <3>1. t \in Seq(Cells) /\ Len(t) = l /\ Msg(given) \o t = Msg(given + n)
      BY <1>2, <2>6, <2>8
    <3>2. PICK p \in Seq(Cells) : Compressed(ctx, p) /\ Msg(given) = p \o ctx.buffer
      BY <1>1 DEF HasTaken
    <3> HIDE DEF t
    <3>3. Msg(given) = p
      BY <2>1, <3>2, ConcatEmptySeq
    <3>4. Compressed(DG!ProcessBlock(t, ctx), p \o t) /\ DG!ProcessBlock(t, ctx).buffer = <<>>
      BY <2>1, <2>2, <2>5, <3>1, <3>2, ProcessBlockIs
    <3>5. p \o t \in Seq(Cells) /\ Msg(given + n) = (p \o t) \o <<>>
      <4>1. p \o t \in Seq(Cells)
        BY <3>1, ConcatProperties
      <4> QED
        BY <3>1, <3>3, <4>1, ConcatEmptySeq
    <3>6. ctx' = DG!ProcessBlock(t, ctx) /\ given' = given + n /\ digest' = digest
      BY <2>3, <2>8 DEF t
    <3>7. Len(<<>>) <= Block
      BY <2>2
    <3>8. HasTaken(ctx', Msg(given')) /\ ctx'.buffer = <<>>
      BY <3>4, <3>5, <3>6, <3>7 DEF HasTaken
    <3> QED
      BY <1>1, <2>6, <3>6, <3>8 DEF DigestInv, DG!DigestIsOfTheWhole
  <2> QED
    BY <2>7, <2>8
<1>6. CASE UNCHANGED DG!vars
  BY <1>1, <1>6 DEF DG!vars, DigestInv, DG!DigestIsOfTheWhole
<1> QED
  BY <1>3, <1>4, <1>5, <1>6 DEF DG!Next

(* However a message is cut into pieces its digest is that of the whole,   *)
(* for blocks and words of any size and messages of any length             *)
(* (md5_process_bytes, md5_finish_ctx, md5_stream).                        *)
THEOREM DigestsAreOfTheWhole ==
    ASSUME DG!DigestAssumption
    PROVE  DG!Spec => []DG!DigestIsOfTheWhole
<1>1. DigestInv => DG!DigestIsOfTheWhole
  BY DEF DigestInv
<1> QED
  BY <1>1, DigestInit, DigestKeeps, PTL DEF DG!Spec

=============================================================================
