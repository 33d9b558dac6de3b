----------------------------- MODULE Dictionary -----------------------------
(***************************************************************************)
(* container/dictionary.c: a hash table of hash_table_size buckets, each  *)
(* a singly linked list of entries that own a copy of their key string.   *)
(* A bucket is a sequence, head first; a key string is a member of Key,   *)
(* and MurmurHash2(key) % hash_table_size is the function Hash.  The      *)
(* operators on a table value are what KernelCache uses; the variables    *)
(* below are one dictionary used through the whole of dictionary.h, with  *)
(* `last` and `result` the caller's view of the latest call.              *)
(***************************************************************************)
EXTENDS Naturals, Sequences

CONSTANTS
    Key,        \* the key strings
    Payload,    \* the payload pointers
    NULL,
    TableSize,  \* hash_table_size, 1024 in dictionary_init
    Hash        \* MurmurHash2(key, strlen(key)) % hash_table_size

Buckets == 0..(TableSize - 1)

Entry == [key : Key, payload : Payload]

(* What the provers need of the constants; TLC meets it in KernelCache.   *)
HashAssumption ==
    /\ TableSize \in Nat \ {0}
    /\ Hash \in [Key -> Buckets]
    /\ NULL \notin Payload

\* dictionary_init: hash_table_size empty buckets.
NewTable == [b \in Buckets |-> <<>>]

\* Mutant: the walk stops at the head of the list without comparing keys.
MatchHead(chain, k) == IF chain # <<>> THEN 1 ELSE 0

\* The loop `while (entry) { if (strcmp(key, entry->key) == 0) break; ... }`:
\* the position of the first entry of the list with the key, 0 for none.
Match(chain, k) ==
    IF \E i \in 1..Len(chain) : chain[i].key = k
    THEN CHOOSE i \in 1..Len(chain) :
            /\ chain[i].key = k
            /\ \A j \in 1..(i - 1) : chain[j].key # k
    ELSE 0

\* dictionary_get: the payload of the key's entry in its bucket, or NULL.
GetIn(t, k) ==
    LET c == t[Hash[k]]
        i == Match(c, k)
    IN  IF i = 0 THEN NULL ELSE c[i].payload

\* Mutant: the new entry is made but the bucket head is not set to it.
InsertInUnlinked(t, k, p) ==
    LET c == t[Hash[k]]
        i == Match(c, k)
    IN  IF i # 0
        THEN [table |-> [t EXCEPT ![Hash[k]][i].payload = p], ret |-> c[i].payload]
        ELSE [table |-> t, ret |-> NULL]

\* dictionary_insert: overwrite the payload of a known key and return the
\* old one, or push a new entry with a copy of the key at the head of the
\* bucket and return NULL.
InsertIn(t, k, p) ==
    LET b == Hash[k]
        c == t[b]
        i == Match(c, k)
    IN  IF i # 0
        THEN [table |-> [t EXCEPT ![b][i].payload = p], ret |-> c[i].payload]
        ELSE [table |-> [t EXCEPT ![b] = <<[key |-> k, payload |-> p]>> \o c],
              ret |-> NULL]

\* dictionary_remove: unlink the first entry with the key, if any.
RemoveIn(t, k) ==
    LET b == Hash[k]
        c == t[b]
        i == Match(c, k)
    IN  IF i = 0 THEN t
        ELSE [t EXCEPT ![b] = SubSeq(c, 1, i - 1) \o SubSeq(c, i + 1, Len(c))]

(***************************************************************************)
(* dictionary_iterator_t: current_bucket, and the position of             *)
(* current_list_element in that bucket's list (0 for NULL).                *)
(***************************************************************************)
Iterator == [bucket : Nat, element : Nat]

\* The `for` loop of dictionary_iterator_next: from the iterator's bucket
\* on, stop at the first non-empty bucket; when there is none the iterator
\* is returned as it came, with no element.
ScanFrom(t, it) ==
    LET full == {b \in Buckets : b >= it.bucket /\ t[b] # <<>>}
    IN  IF full = {} THEN it
        ELSE [bucket |-> CHOOSE b \in full : \A c \in full : b <= c,
              element |-> 1]

\* Mutant: at an element, move on to the next bucket instead of the list.
IteratorNextSkipList(t, it) ==
    IF it.element = 0 THEN ScanFrom(t, it)
    ELSE ScanFrom(t, [bucket |-> it.bucket + 1, element |-> 0])

\* dictionary_iterator_next: follow the list; at its end move to the next
\* bucket and scan from there.
IteratorNext(t, it) ==
    IF it.element = 0 THEN ScanFrom(t, it)
    ELSE IF it.element < Len(t[it.bucket])
    THEN [it EXCEPT !.element = it.element + 1]
    ELSE ScanFrom(t, [bucket |-> it.bucket + 1, element |-> 0])

\* dictionary_iterator_init: bucket 0, no element, then one step.
IteratorInit(t) == IteratorNext(t, [bucket |-> 0, element |-> 0])

\* dictionary_iterator_key and dictionary_iterator_value.
IteratorKey(t, it) ==
    IF it.element = 0 THEN NULL ELSE t[it.bucket][it.element].key

IteratorValue(t, it) ==
    IF it.element = 0 THEN NULL ELSE t[it.bucket][it.element].payload

-----------------------------------------------------------------------------
VARIABLES
    table,      \* dictionary->hash_table, the lists of the buckets
    live,       \* the dictionary is allocated
    last,       \* the key of the latest call, NULL for init and release
    result      \* what it returned

vars == <<table, live, last, result>>

Init ==
    /\ table = NewTable
    /\ live = FALSE
    /\ last = NULL
    /\ result = NULL

\* dictionary_init.
Create ==
    /\ ~live
    /\ table' = NewTable
    /\ live' = TRUE
    /\ last' = NULL
    /\ result' = NULL

\* dictionary_release(dictionary, 0): free every entry and key, then the
\* table; the payloads stay with the caller.
Release ==
    /\ live
    /\ table' = NewTable
    /\ live' = FALSE
    /\ last' = NULL
    /\ result' = NULL

Get(k) ==
    /\ live
    /\ last' = k
    /\ result' = GetIn(table, k)
    /\ UNCHANGED <<table, live>>

Insert(k, p) ==
    /\ live
    /\ table' = InsertIn(table, k, p).table
    /\ last' = k
    /\ result' = InsertIn(table, k, p).ret
    /\ UNCHANGED live

Remove(k) ==
    /\ live
    /\ table' = RemoveIn(table, k)
    /\ last' = k
    /\ result' = NULL
    /\ UNCHANGED live

Next ==
    \/ Create \/ Release
    \/ \E k \in Key : Get(k) \/ Remove(k) \/ \E p \in Payload : Insert(k, p)

Spec == Init /\ [][Next]_vars

-----------------------------------------------------------------------------
(* The type invariant.                                                      *)
TypeOK ==
    /\ table \in [Buckets -> Seq(Entry)]
    /\ live \in BOOLEAN
    /\ last \in Key \cup {NULL}
    /\ result \in Payload \cup {NULL}

(* The representation invariant: every list holds entries whose key hashes *)
(* to its bucket, and no key twice (insert pushes a key only when the walk *)
(* of its bucket did not meet it).                                         *)
WellHashed ==
    \A b \in Buckets : \A i \in 1..Len(table[b]) :
        /\ Hash[table[b][i].key] = b
        /\ \A j \in 1..Len(table[b]) : j # i => table[b][j].key # table[b][i].key

(* The map the table stands for: each stored key to its payload.           *)
StoredKeys == {k \in Key : Match(table[Hash[k]], k) # 0}

AbsMap == [k \in StoredKeys |-> GetIn(table, k)]

Abstract == INSTANCE KeyValueMap WITH map <- AbsMap

(* dictionary.h's contract: whatever the hash collisions, the dictionary   *)
(* behaves as a map from key strings to payloads, its release and init     *)
(* as clearing it (Theorem Refinement in DictionaryProofs).               *)
RefinesKeyValueMap == Abstract!Spec

=============================================================================
