------------------------------ MODULE CdbFile ------------------------------
(***************************************************************************)
(* The constant database of lib/cdb++: how a table is written, and how the *)
(* lookup of a key and the walk over the records read it.  The file is a   *)
(* sequence of cells: a packed pair of numbers, a key, or a byte of data.  *)
(* It starts with a pair for each hash table, then has the records, then   *)
(* the tables.                                                             *)
(***************************************************************************)
EXTENDS Naturals, FiniteSets, SequencesExt

CONSTANTS
    Keys, Data, \* keys of one cell, and sequences of cells
    None,
    Hashes,     \* what the hash function may return
    Tables,     \* hash tables: 256 in the code
    Block,      \* CDBMAKE_HPLIST
    MaxPos,     \* the largest position: 2^32 - 1 in the code
    MaxPuts     \* bound on the records

CdbFileAssumption ==
    /\ Hashes \subseteq Nat /\ Tables \in Nat \ {0} /\ Block \in Nat \ {0}
    /\ MaxPos \in Nat /\ MaxPuts \in Nat

VARIABLES
    hash,   \* the hash function
    cells,  \* what has been written
    pos,    \* where cdb_writer believes to be
    list,   \* cdbmake's blocks of hash and position, the newest first
    mode,   \* "writing", "failed", "written"
    ptr,    \* the reader's next record
    walked, \* what nextrec has returned
    puts    \* history: what has been put

vars == <<hash, cells, pos, list, mode, ptr, walked, puts>>

Init ==
    /\ hash \in [Keys -> Hashes]
    /\ cells = [b \in 1..Tables |-> <<0, 0>>] /\ pos = Tables
    /\ list = <<>> /\ mode = "writing" /\ ptr = 0 /\ walked = <<>> /\ puts = <<>>

Add(l, hp) ==
    IF l = <<>> \/ Len(Head(l)) >= Block THEN <<<<hp>>>> \o l
    ELSE <<Append(Head(l), hp)>> \o Tail(l)

Put ==
    /\ mode = "writing" /\ Len(puts) < MaxPuts
    /\ \E k \in Keys, d \in Data :
         LET end == pos + 2 + Len(d) IN
         /\ cells' = cells \o <<<<1, Len(d)>>, k>> \o d
         /\ list' = Add(list, [h |-> hash[k], p |-> pos])
         /\ puts' = Append(puts, <<k, d>>)
         /\ IF end <= MaxPos THEN pos' = end /\ UNCHANGED mode
            ELSE mode' = "failed" /\ UNCHANGED pos
    /\ UNCHANGED <<hash, ptr, walked>>

(* A write that fails removes the file. *)
Abort ==
    /\ mode = "writing" /\ mode' = "failed"
    /\ UNCHANGED <<hash, cells, pos, list, ptr, walked, puts>>

(* The entries of table b in the order they were put in. *)
Split(b) == SelectSeq(FlattenSeq(Reverse(list)), LAMBDA e : e.h % Tables = b)

(* A slip: the search for a free slot begins at the whole hash. *)
StartWhole(h, len) == h % len

Start(h, len) == (h \div Tables) % len

ThrowHash(b) ==
    LET len == 2 * Len(Split(b))
        Place(slots, e) ==
            LET At(i) == 1 + (((e.h \div Tables) + i) % len)
                free == {i \in 0..len - 1 : slots[At(i)][2] = 0}
            IN [slots EXCEPT ![At(CHOOSE i \in free : \A j \in free : i <= j)] = <<e.h, e.p>>]
    IN FoldLeft(Place, [i \in 1..len |-> <<0, 0>>], Split(b))

(* The tables follow the records; then the writer goes back and fills in   *)
(* where each begins.                                                      *)
End ==
    /\ mode = "writing"
    /\ LET From(b) == pos + Len(FlattenSeq([i \in 1..b |-> ThrowHash(i - 1)]))
       IN IF From(Tables) > MaxPos THEN mode' = "failed" /\ UNCHANGED cells
          ELSE /\ mode' = "written"
               /\ cells' = [b \in 1..Tables |-> <<From(b - 1), Len(ThrowHash(b - 1))>>]
                            \o SubSeq(cells, Tables + 1, Len(cells))
                            \o FlattenSeq([b \in 1..Tables |-> ThrowHash(b - 1)])
    /\ ptr' = Tables
    /\ UNCHANGED <<hash, pos, list, walked, puts>>

Cell(p) == cells[p + 1]

(* The data under k: the search ends at an empty slot or after a round.    *)
Seek(k) ==
    LET h == hash[k]
        tab == Cell(h % Tables)
        Slot(i) == Cell(tab[1] + ((Start(h, tab[2]) + i) % tab[2]))
        Match(i) == Slot(i)[1] = h /\ Cell(Slot(i)[2] + 1) = k
        Stops(i) == Slot(i)[2] = 0 \/ Match(i)
        ends == {i \in 0..tab[2] - 1 : Stops(i) /\ \A j \in 0..i - 1 : ~Stops(j)}
        rec == Slot(CHOOSE i \in ends : TRUE)[2]
    IN IF tab[2] = 0 \/ ends = {} \/ rec = 0 THEN None
       ELSE SubSeq(cells, rec + 3, rec + 2 + Cell(rec)[2])

(* The records end where the first table begins. *)
Eod == Cell(0)[1]

NextRec ==
    /\ mode = "written" /\ ptr < Eod
    /\ LET end == ptr + 2 + Cell(ptr)[2] IN
       IF end > Eod THEN ptr' = Eod /\ UNCHANGED walked
       ELSE /\ ptr' = end
            /\ walked' = Append(walked, <<Cell(ptr + 1), SubSeq(cells, ptr + 3, end)>>)
    /\ UNCHANGED <<hash, cells, pos, list, mode, puts>>

Next == Put \/ Abort \/ End \/ NextRec

Spec == Init /\ [][Next]_vars

-----------------------------------------------------------------------------
(* A table that end() has put in place answers every key with what was     *)
(* first put under it and no other key, and the walk over its records      *)
(* meets all of them in order: the writer and the two readers agree on     *)
(* positions, on the slot where a search starts and on where it stops      *)
(* (cdb_writer::put, end, cdbmake::throw_hash, cdb_reader::seek, nextrec). *)
FoundIsStored ==
    mode = "written" =>
        /\ \A k \in Keys :
             LET mine == {i \in DOMAIN puts : puts[i][1] = k}
             IN Seek(k) = IF mine = {} THEN None
                          ELSE puts[CHOOSE i \in mine : \A j \in mine : i <= j][2]
        /\ walked = SubSeq(puts, 1, Len(walked))
        /\ ptr >= Eod => walked = puts

=============================================================================
