----------------------------- MODULE HashTable -----------------------------
(***************************************************************************)
(* The open hash table of lib/misc/hash_table.h, which map_table and       *)
(* list_table fill from qmail's control files: linear probing, and a       *)
(* bigger table when three quarters are in use.                            *)
(***************************************************************************)
EXTENDS Naturals, FiniteSets, SequencesExt

CONSTANTS
    Keys, Values, None,
    Hashes, \* what the hash function may return
    Primes  \* hash_prime_list; its length bounds the growth

HashTableAssumption ==
    /\ Hashes \subseteq Nat /\ Primes \in Seq(Nat \ {0}) /\ Primes # <<>>
    /\ \A i \in 1..Len(Primes) - 1 : Primes[i] < Primes[i + 1]
    /\ None \notin Keys \cup Values \cup [key : Keys, data : Values]

VARIABLES
    hash,   \* the hash function
    table,  \* table and prime: a key and data, or None, for each slot
    index,  \* prime_index
    count,  \* _count
    meant,  \* history: the map the calls so far describe
    gapped  \* history: a key has been removed

vars == <<hash, table, index, count, meant, gapped>>

Oversize(t) == (Cardinality(DOMAIN t) * 3) \div 4

Empty(i) == [table |-> [s \in 0..Primes[i] - 1 |-> None], count |-> 0]

Init ==
    /\ hash \in [Keys -> Hashes]
    /\ table = Empty(1).table /\ index = 1 /\ count = 0
    /\ meant = <<>> /\ gapped = FALSE

(* Where the search for k ends: at k or at the first slot that is free.    *)
Lookup(t, k) ==
    LET prime == Cardinality(DOMAIN t)
        Slot(i) == (hash[k] + i) % prime
        Ends(i) == t[Slot(i)] = None \/ t[Slot(i)].key = k
    IN Slot(CHOOSE i \in 0..prime - 1 : Ends(i) /\ \A j \in 0..i - 1 : ~Ends(j))

Exists(k) == table[Lookup(table, k)] = None
At(k) == IF table[Lookup(table, k)] = None THEN None ELSE table[Lookup(table, k)].data

(* With unique, an entry that is there already stays. *)
BaseInsert(h, e, unique) ==
    LET s == Lookup(h.table, e.key) IN
    IF h.table[s] = None THEN [table |-> [h.table EXCEPT ![s] = e], count |-> h.count + 1]
    ELSE IF unique THEN h
    ELSE [table |-> [h.table EXCEPT ![s] = e], count |-> h.count]

(* A slip: what is in the table keeps its slot. *)
ReallocInPlace(t, i) ==
    [table |-> [s \in 0..Primes[i] - 1 |-> IF s \in DOMAIN t THEN t[s] ELSE None],
     count |-> Cardinality({s \in DOMAIN t : t[s] # None})]

Realloc(t, i) ==
    FoldLeft(LAMBDA h, e : IF e = None THEN h ELSE BaseInsert(h, e, TRUE),
             Empty(i), [s \in 1..Cardinality(DOMAIN t) |-> t[s - 1]])

Store(k, v, unique) ==
    LET grow == count >= Oversize(table)
        h == IF grow THEN Realloc(table, index + 1) ELSE [table |-> table, count |-> count]
        new == BaseInsert(h, [key |-> k, data |-> v], unique)
    IN /\ grow => index < Len(Primes)
       /\ index' = IF grow THEN index + 1 ELSE index
       /\ table' = new.table /\ count' = new.count
       /\ meant' = IF unique /\ k \in DOMAIN meant THEN meant
                   ELSE [x \in DOMAIN meant \cup {k} |-> IF x = k THEN v ELSE meant[x]]
       /\ UNCHANGED <<hash, gapped>>

Insert == \E k \in Keys, v \in Values : Store(k, v, TRUE)
Set == \E k \in Keys, v \in Values : Store(k, v, FALSE)

RemoveKey == \E k \in Keys :
    LET s == Lookup(table, k) IN
    /\ table[s] # None
    /\ table' = [table EXCEPT ![s] = None] /\ count' = count - 1
    /\ meant' = [x \in DOMAIN meant \ {k} |-> meant[x]]
    /\ gapped' = TRUE
    /\ UNCHANGED <<hash, index>>

Clear ==
    /\ table' = Empty(index).table /\ count' = 0
    /\ meant' = <<>> /\ gapped' = FALSE
    /\ UNCHANGED <<hash, index>>

Next == Insert \/ Set \/ RemoveKey \/ Clear

Spec == Init /\ [][Next]_vars

-----------------------------------------------------------------------------
(* Until a key is removed, the table is the map the calls describe: []     *)
(* finds what was stored and the shared default otherwise, exists answers  *)
(* the opposite of its name, and the iterator meets every entry once.      *)
(* remove() frees the slot in the middle of a run, after which entries     *)
(* behind it are no longer found; even so a slot stays free to end every   *)
(* search, and count() is right (hash_table::lookup, base_insert, realloc, *)
(* remove).                                                                *)
HashTableIsMap ==
    LET used == {s \in DOMAIN table : table[s] # None} IN
    /\ count = Cardinality(used) /\ used # DOMAIN table
    /\ ~gapped =>
         /\ \A k \in Keys :
              /\ Exists(k) <=> k \notin DOMAIN meant
              /\ At(k) = IF k \in DOMAIN meant THEN meant[k] ELSE None
         /\ count = Cardinality(DOMAIN meant)

=============================================================================
