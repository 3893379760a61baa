----------------------------- MODULE StringTable -----------------------------
(***************************************************************************)
(* The string table of libelftc (src/libelftc/elftc_string_table.c): a     *)
(* pool of NUL-terminated strings and a hash table whose entries hold only *)
(* an offset into the pool, negated when the string was removed.  An entry *)
(* is found by comparing the bytes at its offset, also while the pool is   *)
(* compacted in place and a part of the entries has moved; that loop is    *)
(* the machine's steps, the other calls are atomic.  The buckets are one   *)
(* set of offsets: a string is compared with every entry.                  *)
(***************************************************************************)
EXTENDS Integers, Sequences, FiniteSets

CONSTANTS
    Strings,    \* the strings of the application: sequences of bytes, none 0
    PoolSize,   \* the size of the first pool
    Increment,  \* ELFTC_STRING_TABLE_POOL_SIZE_INCREMENT
    MaxLen      \* bound: bytes in use when a string is inserted

ASSUME TableAssumption ==
    /\ Strings \subseteq Seq(Nat \ {0})
    /\ PoolSize \in Nat \ {0} /\ Increment \in Nat \ {0} /\ MaxLen \in Nat

VARIABLES
    pool,     \* the bytes of st_string_pool, from offset 0
    len,      \* ELFTC_STRING_TABLE_LENGTH
    flag,     \* ELFTC_STRING_TABLE_COMPACTION_FLAG
    size,     \* st_string_pool_size
    entries,  \* the ste_idx of all entries
    loop      \* the locals of the compaction: s, r and newsize; or LoopDone

poolVars == <<pool, len, flag, size, entries, loop>>

LoopDone == [s |-> 0, r |-> 0, newsize |-> 0]

Abs(i) == IF i < 0 THEN -i ELSE i

\* The string at offset p, without its NUL; the last one may lack it.
Text(p) ==
    LET end == CHOOSE q \in p..Len(pool) : /\ q = Len(pool) \/ pool[q + 1] = 0
                                           /\ \A k \in p..q - 1 : pool[k + 1] # 0
    IN  SubSeq(pool, p + 1, end)

\* elftc_string_table_find_hash_entry.
Find(str) == {i \in entries : Text(Abs(i)) = str}

\* elftc_string_table_create.
PoolInit ==
    /\ pool = <<0>> /\ len = 1 /\ flag = FALSE /\ size = PoolSize
    /\ entries = {} /\ loop = LoopDone

Ready == loop = LoopDone

----------------------------------------------------------------------------
(* The calls. *)

roundup(x, y) == ((x + y - 1) \div y) * y

\* elftc_string_table_add_to_pool: the pool grows by one increment, once.
Grown(n) == IF len + n >= size THEN roundup(size + Increment, Increment) ELSE size

\* elftc_string_table_insert; a new string may find no memory, which changes
\* nothing.
Insert(str) ==
    /\ Ready /\ len <= MaxLen /\ UNCHANGED <<flag, loop>>
    /\ IF Find(str) = {}
       THEN /\ pool' = SubSeq(pool, 1, len) \o str \o <<0>>
            /\ len' = len + Len(str) + 1
            /\ size' = Grown(Len(str) + 1)
            /\ entries' = entries \cup {len}
       ELSE /\ entries' = (entries \ Find(str)) \cup {Abs(i) : i \in Find(str)}
            /\ UNCHANGED <<pool, len, size>>

\* elftc_string_table_lookup: 0 when there is no such string.
Lookup_IgnoresSign(str) == IF Find(str) = {} THEN 0 ELSE Abs(CHOOSE i \in Find(str) : TRUE)
Lookup(str) ==
    IF \E i \in Find(str) : i > 0 THEN CHOOSE i \in Find(str) : i > 0 ELSE 0

\* elftc_string_table_remove.
RemoveString(str) ==
    /\ Ready /\ Lookup(str) # 0 /\ flag' = TRUE
    /\ entries' = (entries \ {Lookup(str)}) \cup {-Lookup(str)}
    /\ UNCHANGED <<pool, len, size, loop>>

\* elftc_string_table_to_string: <<>> for NULL.
StringAt(p) ==
    IF p = 0 \/ p >= len \/ pool[p + 1] = 0 \/ pool[p] # 0 THEN <<>> ELSE Text(p)

----------------------------------------------------------------------------
(* elftc_string_table_image: without removals the pool as it is. *)

MakeImage ==
    /\ Ready /\ flag
    /\ loop' = [s |-> 1, r |-> 1, newsize |-> 1]
    /\ UNCHANGED <<pool, len, flag, size, entries>>

Running == loop # LoopDone /\ loop.s < len
Length == Len(Text(loop.s)) + 1

CompactDrop ==
    /\ Running
    /\ \E i \in Find(Text(loop.s)) : i < 0 /\ entries' = entries \ {i}
    /\ loop' = [loop EXCEPT !.s = @ + Length]
    /\ UNCHANGED <<pool, len, flag, size>>

\* memmove(r, s, length).
Moved == [k \in DOMAIN pool |->
            IF k - 1 \in loop.r..loop.r + Length - 1 THEN pool[k - loop.r + loop.s] ELSE pool[k]]

\* A string that stays is moved up; its entry then holds its new offset.
KeepEntry(i) == IF loop.r = loop.s THEN entries ELSE (entries \ {i}) \cup {loop.newsize}

CompactKeep ==
    /\ Running
    /\ \E i \in Find(Text(loop.s)) : i > 0 /\ entries' = KeepEntry(i)
    /\ pool' = Moved
    /\ loop' = [s |-> loop.s + Length, r |-> loop.r + Length,
                newsize |-> loop.newsize + Length]
    /\ UNCHANGED <<len, flag, size>>

CompactEnd ==
    /\ loop # LoopDone /\ loop.s >= len
    /\ len' = loop.newsize /\ flag' = FALSE /\ loop' = LoopDone
    /\ UNCHANGED <<pool, size, entries>>

Compact == CompactDrop \/ CompactKeep \/ CompactEnd

PoolNext == MakeImage \/ Compact \/ \E str \in Strings : Insert(str) \/ RemoveString(str)

PoolSpec == PoolInit /\ [][PoolNext]_poolVars

----------------------------------------------------------------------------
(* What holds. *)

\* The types of the state.
PoolTypeOK ==
    /\ pool \in Seq(Nat) /\ len \in 1..Len(pool) /\ flag \in BOOLEAN
    /\ size \in Nat /\ entries \subseteq Int \ {0}
    /\ loop \in [s : Nat, r : Nat, newsize : Nat]

\* The offsets at which a string of the pool starts.
Starts(from, to) == {p \in from..to - 1 : pool[p] = 0}

\* Every string of the pool, removed or not, has exactly one entry, and no two
\* of them are the same string; in the middle of a compaction this is so of the
\* part that has moved and the part that has not.
OneEntryEach ==
    LET starts == IF loop = LoopDone THEN Starts(1, len)
                  ELSE Starts(1, loop.r) \cup Starts(loop.s, len)
    IN  /\ {Abs(i) : i \in entries} = starts
        /\ \A i, j \in entries : i # j => Text(Abs(i)) # Text(Abs(j))

\* assert(ste != NULL): compaction finds the entry of each string it passes, though
\* entries hold offsets from before and after the move.
EntryAlwaysFound == Running => Find(Text(loop.s)) # {}

\* What is exported without compaction holds no removed string.
ImageHasNoRemoved == Ready /\ ~flag => \A i \in entries : i > 0

\* The string at the offset that lookup returns is the one looked up.
ReadsBack == \A str \in Strings \ {<<>>} :
                Ready /\ Lookup(str) # 0 => StringAt(Lookup(str)) = str

\* The bytes in use are in the memory allocated for them ("Resize the pool, if
\* needed", elftc_string_table.c).
PoolHoldsStrings == len <= size

Map == INSTANCE StringMap WITH at <- [str \in Strings |-> Lookup(str)], busy <- loop # LoopDone

\* The table implements the map of strings to offsets: offsets are distinct and
\* change only while the image is made.
ImplementsMap == Map!Spec

\* elftc_string_table_to_string returns the string at an offset "returned by a
\* prior call to elftc_string_table_insert" (elftc_string_table_create.3).
EveryOffsetReads == \A str \in Strings :
                      Ready /\ Lookup(str) # 0 =>
                        LET p == Lookup(str) IN p < len /\ pool[p + 1] # 0 /\ pool[p] = 0
==============================================================================
