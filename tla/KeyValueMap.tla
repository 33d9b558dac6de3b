---------------------------- MODULE KeyValueMap ----------------------------
(***************************************************************************)
(* What container/directory.h and container/dictionary.h promise their   *)
(* callers: a map from keys to payloads. Inserting a key that is present replaces its payload *)
(* and returns the old one, removing drops it, fetching returns the       *)
(* payload or NULL. `last` is the key the latest call was made with and   *)
(* `result` what it returned, so that a caller's view of every call is    *)
(* part of the state.                                                     *)
(***************************************************************************)
CONSTANTS Key, Payload, NULL

VARIABLES map, last, result

vars == <<map, last, result>>

EmptyMap == [k \in {} |-> NULL]

Lookup(k) == IF k \in DOMAIN map THEN map[k] ELSE NULL

Init ==
    /\ map = EmptyMap
    /\ last = NULL
    /\ result = NULL

\* directory_insert: replace and return the old payload, or add and return NULL.
Put(k, p) ==
    /\ last' = k
    /\ map' = [x \in DOMAIN map \cup {k} |-> IF x = k THEN p ELSE map[x]]
    /\ result' = Lookup(k)

\* directory_remove: drop the key if present.
Delete(k) ==
    /\ last' = k
    /\ map' = [x \in DOMAIN map \ {k} |-> map[x]]
    /\ result' = NULL

\* directory_clear: drop every key.
Clear ==
    /\ map' = EmptyMap
    /\ last' = NULL
    /\ result' = NULL

\* directory_fetch (and directory_find, read through its position).
Get(k) ==
    /\ last' = k
    /\ UNCHANGED map
    /\ result' = Lookup(k)

Next ==
    \/ \E k \in Key, p \in Payload : Put(k, p)
    \/ \E k \in Key : Delete(k) \/ Get(k)
    \/ Clear

Spec == Init /\ [][Next]_vars

=============================================================================
