----------------------------- MODULE Directory -----------------------------
(***************************************************************************)
(* container/directory.c: a sorted array of fixed-size byte keys beside an *)
(* array of payloads, grown by GrowBy slots when full, with a cached       *)
(* position of the last successful find. The key array keeps what memmove *)
(* leaves behind beyond `entries`, and slots never written are Unset:     *)
(* directory_find may read the slot at `entries`, so stale and            *)
(* uninitialised keys are part of its behaviour. Payload slots beyond     *)
(* `entries` are never read and are kept as they are left.                *)
(***************************************************************************)
EXTENDS Integers

CONSTANTS
    KeySize,          \* key_size in bytes (sizeof(Oid) for the registry)
    Bytes,            \* the values of one byte
    Payload,          \* the payload pointers
    NULL,
    Unset,            \* a key slot that was allocated and never written
    InitialCapacity,  \* directory_init's initial_capacity
    GrowBy            \* the growth step of directory_insert

ASSUME DirectoryAssumption ==
    /\ KeySize \in Nat \ {0}
    /\ InitialCapacity \in Nat
    /\ GrowBy \in Nat \ {0}

VARIABLES
    dir,       \* the directory_tt record
    last,      \* the key argument of the latest call
    op,        \* the latest call
    ret,       \* what it returned (a position for find, a payload otherwise)
    overread   \* whether it read a key slot beyond the allocated capacity

vars == <<dir, last, op, ret, overread>>

Key == [0..KeySize-1 -> Bytes]

(* dir_keycmp: bytes are compared from the last one down, so the first    *)
(* difference from the top decides.                                        *)
KeyCmp(a, b) ==
    LET diff == {i \in 0..KeySize-1 : a[i] # b[i]}
        top  == CHOOSE i \in diff : \A j \in diff : j <= i
    IN  IF diff = {} THEN 0 ELSE IF a[top] < b[top] THEN -1 ELSE 1

(* A binary search that leaves its loop with the upper bound h, the slot *)
(* below the insertion point.                                              *)
BSearchUpperBound(d, key) ==
    LET loop[l \in 0..d.entries, h \in 0..d.entries] ==
            IF h < l THEN h
            ELSE LET mid == (l + h) \div 2
                     cmp == KeyCmp(key, d.keys[mid])
                 IN  CASE cmp < 0 /\ mid = 0 -> 0
                       [] cmp < 0 /\ mid > 0 -> loop[l, mid - 1]
                       [] cmp > 0            -> loop[mid + 1, h]
                       [] cmp = 0            -> mid
    IN  IF d.entries = 0 THEN 0 ELSE loop[0, d.entries - 1]

(* dir_bsearch: the first position whose key is not below `key`, with the *)
(* early return of a match and the underflow guard at mid = 0.             *)
BSearch(d, key) ==
    LET loop[l \in 0..d.entries, h \in 0..d.entries] ==
            IF h < l THEN l
            ELSE LET mid == (l + h) \div 2
                     cmp == KeyCmp(key, d.keys[mid])
                 IN  CASE cmp < 0 /\ mid = 0 -> 0
                       [] cmp < 0 /\ mid > 0 -> loop[l, mid - 1]
                       [] cmp > 0            -> loop[mid + 1, h]
                       [] cmp = 0            -> mid
    IN  IF d.entries = 0 THEN 0 ELSE loop[0, d.entries - 1]

(* What a read of key slot pos can yield: an allocated, written slot its  *)
(* bytes; past the allocation or before the first write, any key.         *)
SlotKeys(d, pos) ==
    IF pos < d.capacity /\ d.keys[pos] # Unset THEN {d.keys[pos]} ELSE Key

\* directory_init
NewDirectory(capacity) ==
    [capacity |-> capacity, entries |-> 0, last_access |-> 0,
     keys |-> [i \in 0..capacity-1 |-> Unset],
     payloads |-> [i \in 0..capacity-1 |-> NULL]]

(* A find that trusts the cached position without comparing its key.    *)
FindInTrustCache(d, key, slot) ==
    LET pos == BSearch(d, key)
        hit == KeyCmp(key, slot) = 0
    IN  CASE d.entries = 0 ->
               [dir |-> d, ret |-> 0, overread |-> FALSE]
          [] d.entries > 0 /\ d.last_access < d.entries ->
               [dir |-> d, ret |-> d.last_access, overread |-> FALSE]
          [] OTHER ->
               [dir |-> IF hit THEN [d EXCEPT !.last_access = pos] ELSE d,
                ret |-> IF hit THEN pos ELSE d.entries,
                overread |-> pos >= d.capacity]

(* directory_find: the empty case, then the cached position, then binary  *)
(* search and a comparison with the slot it returns.                      *)
(* `slot` is what the read of the slot bsearch returns yielded.           *)
FindIn(d, key, slot) ==
    LET pos == BSearch(d, key)
        hit == KeyCmp(key, slot) = 0
    IN  CASE d.entries = 0 ->
               [dir |-> d, ret |-> 0, overread |-> FALSE]
          [] d.entries > 0 /\ d.last_access < d.entries
               /\ KeyCmp(key, d.keys[d.last_access]) = 0 ->
               [dir |-> d, ret |-> d.last_access, overread |-> FALSE]
          [] OTHER ->
               [dir |-> IF hit THEN [d EXCEPT !.last_access = pos] ELSE d,
                ret |-> IF hit THEN pos ELSE d.entries,
                overread |-> pos >= d.capacity]

(* An insert that grows only once the entries exceed the capacity.       *)
InsertInLateGrow(d, key, p) ==
    LET pos   == BSearch(d, key)
        cap   == IF d.capacity < d.entries THEN d.capacity + GrowBy ELSE d.capacity
        Shift(f, new, fresh) ==
            [i \in 0..cap-1 |->
                CASE i < pos                       -> f[i]
                  [] i = pos                       -> new
                  [] pos < i /\ i <= d.entries     -> f[i - 1]
                  [] d.entries < i /\ i < d.capacity -> f[i]
                  [] d.capacity <= i               -> fresh]
    IN  IF pos < d.entries /\ KeyCmp(key, d.keys[pos]) = 0
        THEN [dir |-> [d EXCEPT !.payloads[pos] = p], ret |-> d.payloads[pos]]
        ELSE [dir |-> [d EXCEPT !.capacity = cap, !.entries = @ + 1,
                                !.keys = Shift(@, key, Unset),
                                !.payloads = Shift(@, p, NULL)],
              ret |-> NULL]

(* directory_insert: replace the payload of a present key (directory_put) *)
(* or grow when full, shift the tail up one slot and write the new entry. *)
InsertIn(d, key, p) ==
    LET pos   == BSearch(d, key)
        cap   == IF d.capacity <= d.entries THEN d.capacity + GrowBy ELSE d.capacity
        Shift(f, new, fresh) ==
            [i \in 0..cap-1 |->
                CASE i < pos                       -> f[i]
                  [] i = pos                       -> new
                  [] pos < i /\ i <= d.entries     -> f[i - 1]
                  [] d.entries < i /\ i < d.capacity -> f[i]
                  [] d.capacity <= i               -> fresh]
    IN  IF pos < d.entries /\ KeyCmp(key, d.keys[pos]) = 0
        THEN [dir |-> [d EXCEPT !.payloads[pos] = p], ret |-> d.payloads[pos]]
        ELSE [dir |-> [d EXCEPT !.capacity = cap, !.entries = @ + 1,
                                !.keys = Shift(@, key, Unset),
                                !.payloads = Shift(@, p, NULL)],
              ret |-> NULL]

(* A remove that trusts bsearch's position without comparing its key.     *)
RemoveInUnchecked(d, key) ==
    LET pos == BSearch(d, key)
        Unshift(f) ==
            [i \in DOMAIN f |-> IF pos <= i /\ i < d.entries - 1 THEN f[i + 1] ELSE f[i]]
    IN  IF pos >= d.entries THEN d
        ELSE [d EXCEPT !.entries = @ - 1, !.keys = Unshift(@),
                       !.payloads = Unshift(@)]

(* directory_remove: nothing unless the key is present, then shift the    *)
(* tail down one slot; the last slot keeps its old contents.              *)
RemoveIn(d, key) ==
    LET pos == BSearch(d, key)
        Unshift(f) ==
            [i \in DOMAIN f |-> IF pos <= i /\ i < d.entries - 1 THEN f[i + 1] ELSE f[i]]
    IN  IF pos >= d.entries \/ KeyCmp(key, d.keys[pos]) # 0 THEN d
        ELSE [d EXCEPT !.entries = @ - 1, !.keys = Unshift(@),
                       !.payloads = Unshift(@)]

(* directory_clear: with release_payloads the payload slots are nulled.   *)
ClearIn(d, release) ==
    [d EXCEPT !.entries = 0,
              !.payloads = [i \in DOMAIN @ |->
                              IF release /\ i < d.entries THEN NULL ELSE @[i]]]

-----------------------------------------------------------------------------

Init ==
    /\ dir = NewDirectory(InitialCapacity)
    /\ last = NULL
    /\ op = "init"
    /\ ret = NULL
    /\ overread = FALSE

Insert(k, p) ==
    LET r == InsertIn(dir, k, p)
    IN  /\ dir' = r.dir
        /\ ret' = r.ret
        /\ last' = k
        /\ op' = "insert"
        /\ overread' = FALSE

Remove(k) ==
    /\ dir' = RemoveIn(dir, k)
    /\ last' = k
    /\ op' = "remove"
    /\ ret' = NULL
    /\ overread' = FALSE

Clear ==
    /\ \E release \in BOOLEAN : dir' = ClearIn(dir, release)
    /\ last' = NULL
    /\ op' = "clear"
    /\ ret' = NULL
    /\ overread' = FALSE

Find(k) ==
    \E slot \in SlotKeys(dir, BSearch(dir, k)) :
        LET r == FindIn(dir, k, slot)
        IN  /\ dir' = r.dir
            /\ ret' = r.ret
            /\ overread' = r.overread
            /\ last' = k
            /\ op' = "find"

\* directory_fetch: find, then the payload at the position or NULL.
Fetch(k) ==
    \E slot \in SlotKeys(dir, BSearch(dir, k)) :
        LET r == FindIn(dir, k, slot)
        IN  /\ dir' = r.dir
            /\ ret' = IF r.ret = dir.entries THEN NULL ELSE dir.payloads[r.ret]
            /\ overread' = r.overread
            /\ last' = k
            /\ op' = "fetch"

Next ==
    \/ \E k \in Key, p \in Payload : Insert(k, p)
    \/ \E k \in Key : Remove(k) \/ Find(k) \/ Fetch(k)
    \/ Clear

Spec == Init /\ [][Next]_vars

-----------------------------------------------------------------------------

Live(d) == 0..d.entries-1

TypeOK ==
    /\ dir.capacity \in Nat
    /\ dir.entries \in 0..dir.capacity
    /\ dir.last_access \in Nat
    /\ dir.keys \in [0..dir.capacity-1 -> Key \cup {Unset}]
    /\ dir.payloads \in [0..dir.capacity-1 -> Payload \cup {NULL}]
    /\ \A i \in Live(dir) : dir.keys[i] # Unset
    /\ op \in {"init", "insert", "remove", "clear", "find", "fetch"}
    /\ overread \in BOOLEAN

(* The live keys are strictly ascending in dir_keycmp's order: the         *)
(* precondition of dir_bsearch, kept by insert's and remove's memmoves at  *)
(* the positions bsearch returns.                                          *)
SortedKeys ==
    \A i \in Live(dir) : i + 1 \in Live(dir) => KeyCmp(dir.keys[i], dir.keys[i + 1]) = -1

(* directory_find never compares against a key slot past the allocated   *)
(* capacity (its comment: bsearch "might return an upper bound").         *)
FindWithinCapacity == ~overread

(* The refinement mapping: the live prefix is the map, and a find's       *)
(* position reads as the payload it designates.                           *)
AbsMap ==
    [k \in {dir.keys[i] : i \in Live(dir)} |->
        dir.payloads[CHOOSE i \in Live(dir) : dir.keys[i] = k]]

AbsResult ==
    IF op = "find"
    THEN IF ret < dir.entries THEN dir.payloads[ret] ELSE NULL
    ELSE ret

Abstract == INSTANCE KeyValueMap WITH map <- AbsMap, result <- AbsResult

(* directory.c implements directory.h: every insert, remove, clear, find  *)
(* and fetch is the abstract map's step on the same key with the same     *)
(* result, whatever the stale slots and the cached position hold.         *)
RefinesKeyValueMap == Abstract!Spec

=============================================================================
