----------------------------- MODULE Registry ------------------------------
(***************************************************************************)
(* The estimator registry of ocl_estimator.c: a process-wide record,      *)
(* created on first use from the pg_kdemodels catalog, holding a          *)
(* Directory from table Oid to estimator and a presence bitmap that        *)
(* lookups test first. It is written back to the catalog and freed by      *)
(* ocl_releaseRegistry, which the assign hooks of kde_enable, ocl_use_gpu *)
(* and kde_samplesize call when the value changes. The directory is the   *)
(* Directory module's, instantiated on the registry's state; an Oid is    *)
(* stored as its KeySize bytes, least significant first.                  *)
(***************************************************************************)
EXTENDS Integers, FiniteSets, Folds, Functions

CONSTANTS
    KeySize,           \* sizeof(Oid)
    ByteBase,          \* the number of values of a byte
    Tables,            \* the Oids of the relations the session works on
    Estimator,         \* the estimator pointers malloc can hand out
    NULL,
    Unset,
    RegistryCapacity,  \* directory_init(sizeof(Oid), 20)
    GrowBy,            \* the directory's growth step
    BitmapBytes,       \* calloc(1, 4 * 1024 * 1024)
    MaxOnExits         \* the slots of PostgreSQL's on_shmem_exit list

Oid == 0..(ByteBase^KeySize - 1)

ASSUME RegistryAssumption ==
    /\ ByteBase \in Nat \ {0}
    /\ Tables \subseteq Oid
    /\ BitmapBytes \in Nat
    /\ MaxOnExits \in Nat

VARIABLES
    on,          \* registry # NULL
    directory,   \* registry->estimator_directory
    bitmap,      \* the set bits of registry->estimator_bitmap
    catalog,     \* the tables with a row in pg_kdemodels
    live,        \* the allocated estimators
    enabled,     \* the GUC kde_enable
    exits,       \* ocl_cleanUpRegistry callbacks registered with on_shmem_exit
    overflow,    \* some bitmap access went past its allocation
    overread,    \* some directory lookup read a key slot past its capacity
    built,       \* history: the tables an estimator was constructed for
    last,        \* the table of the latest call, if it was ocl_getEstimator
    ret          \* what that call returned

vars == <<on, directory, bitmap, catalog, live, enabled, exits, overflow,
          overread, built, last, ret>>

Dir == INSTANCE Directory WITH
    Bytes <- 0..ByteBase-1, Payload <- Estimator,
    InitialCapacity <- RegistryCapacity,
    dir <- directory, last <- NULL, op <- "init", ret <- NULL, overread <- overread

Bits == 0..8 * BitmapBytes - 1

\* The bytes of an Oid as it lies in memory, least significant first.
KeyOf(t) == [i \in 0..KeySize-1 |-> (t \div ByteBase^i) % ByteBase]

\* The tables the directory holds an estimator for, and that estimator.
RegisteredTables(d) == {t \in Oid : \E i \in Dir!Live(d) : d.keys[i] = KeyOf(t)}

EstimatorOf(d, t) ==
    LET i == CHOOSE i \in Dir!Live(d) : d.keys[i] = KeyOf(t) IN d.payloads[i]

\* Bit t of the bitmap: a write past the allocation is lost to the model,
\* a read past it yields either value.
SetBit(b, t) == IF t \in Bits THEN b \cup {t} ELSE b
ToggleBit(b, t) == IF t \in Bits THEN (b \ {t}) \cup ({t} \ b) ELSE b
TestBit(b, t) == IF t \in Bits THEN {t \in b} ELSE BOOLEAN

(* ocl_initializeRegistry: a fresh bitmap and directory, one estimator     *)
(* allocated per catalog row, and the rows whose sample file reads         *)
(* (`loaded`) inserted and flagged; the estimator of a row that fails is   *)
(* not freed. Inserts into a fresh directory give the same array in any   *)
(* scan order. Then ocl_cleanUpRegistry is registered with on_shmem_exit.  *)
Loaded(loaded, alloc) ==
    [dir    |-> MapThenFoldSet(LAMBDA t, d : Dir!InsertIn(d, KeyOf(t), alloc[t]).dir,
                               Dir!NewDirectory(RegistryCapacity), LAMBDA t : t,
                               LAMBDA s : CHOOSE t \in s : TRUE, loaded),
     bitmap |-> {t \in loaded : t \in Bits},
     live   |-> live \cup Range(alloc),
     exits  |-> exits + 1,
     overflow |-> overflow \/ \E t \in loaded : t \notin Bits]

(* The choices of ocl_getRegistry: none for a registry that exists, which  *)
(* rows load and the estimators malloc returns for one read from the       *)
(* catalog. A full on_shmem_exit list is FATAL, so no registry then.       *)
LoadChoices ==
    IF on THEN {[loaded |-> {}, alloc |-> [t \in {} |-> NULL]]}
    ELSE IF exits >= MaxOnExits THEN {}
    ELSE {[loaded |-> l, alloc |-> a] :
             l \in SUBSET catalog, a \in Injection(catalog, Estimator \ live)}

\* The registry ocl_getRegistry hands back.
Current(c) ==
    IF on THEN [dir |-> directory, bitmap |-> bitmap, live |-> live,
                exits |-> exits, overflow |-> overflow]
    ELSE Loaded(c.loaded, c.alloc)

(* ocl_releaseRegistry on a live registry: every estimator is written to   *)
(* the catalog (ocl_updateEstimatorInCatalog inserts or updates its row),  *)
(* its bit toggled and it is freed; then the directory and the registry   *)
(* are freed. The bitmap goes with the registry, so no bit survives.       *)
Released ==
    /\ catalog' = catalog \cup RegisteredTables(directory)
    /\ live' = live \ {EstimatorOf(directory, t) : t \in RegisteredTables(directory)}
    /\ on' = FALSE
    /\ directory' = Dir!NewDirectory(RegistryCapacity)
    /\ bitmap' = {}

-----------------------------------------------------------------------------

Init ==
    /\ on = FALSE
    /\ directory = Dir!NewDirectory(RegistryCapacity)
    /\ bitmap = {}
    /\ catalog \in SUBSET Tables
    /\ live = {}
    /\ enabled \in BOOLEAN
    /\ exits = 0
    /\ overflow = FALSE
    /\ overread = FALSE
    /\ built = {}
    /\ last = NULL
    /\ ret = NULL

(* A construct that sets the bit before freeing the replaced estimator.  *)
ConstructBitFirst(t) ==
    \E c \in LoadChoices, e \in Estimator :
        LET r     == Current(c)
            ins   == Dir!InsertIn(r.dir, KeyOf(t), e)
            old   == ins.ret
            set   == SetBit(r.bitmap, t)
        IN  /\ e \notin r.live
            /\ on' = TRUE
            /\ directory' = ins.dir
            /\ bitmap' = IF old = NULL THEN set ELSE ToggleBit(set, t)
            /\ live' = (r.live \ {old}) \cup {e}
            /\ exits' = r.exits
            /\ overflow' = (r.overflow \/ t \notin Bits)
            /\ built' = built \cup {t}
            /\ last' = NULL
            /\ ret' = NULL
            /\ UNCHANGED <<catalog, enabled, overread>>

(* A construct that frees the new estimator in place of the replaced one. *)
ConstructFreesNew(t) ==
    \E c \in LoadChoices, e \in Estimator :
        LET r     == Current(c)
            ins   == Dir!InsertIn(r.dir, KeyOf(t), e)
            old   == ins.ret
            freed == IF old = NULL THEN r.bitmap ELSE ToggleBit(r.bitmap, t)
        IN  /\ e \notin r.live
            /\ on' = TRUE
            /\ directory' = ins.dir
            /\ bitmap' = SetBit(freed, t)
            /\ live' = IF old = NULL THEN r.live \cup {e} ELSE r.live
            /\ exits' = r.exits
            /\ overflow' = (r.overflow \/ t \notin Bits)
            /\ built' = built \cup {t}
            /\ last' = NULL
            /\ ret' = NULL
            /\ UNCHANGED <<catalog, enabled, overread>>

(* ocl_constructEstimator: get the registry, allocate the estimator,      *)
(* insert it, free the estimator it replaces (whose ocl_freeEstimator     *)
(* toggles the table's bit) and then set the table's bit.                  *)
Construct(t) ==
    \E c \in LoadChoices, e \in Estimator :
        LET r     == Current(c)
            ins   == Dir!InsertIn(r.dir, KeyOf(t), e)
            old   == ins.ret
            freed == IF old = NULL THEN r.bitmap ELSE ToggleBit(r.bitmap, t)
        IN  /\ e \notin r.live
            /\ on' = TRUE
            /\ directory' = ins.dir
            /\ bitmap' = SetBit(freed, t)
            /\ live' = (r.live \ {old}) \cup {e}
            /\ exits' = r.exits
            /\ overflow' = (r.overflow \/ t \notin Bits)
            /\ built' = built \cup {t}
            /\ last' = NULL
            /\ ret' = NULL
            /\ UNCHANGED <<catalog, enabled, overread>>

(* A lookup that goes to the directory without testing the bitmap.       *)
GetEstimatorNoBitmap(t) ==
    /\ last' = t
    /\ \/ /\ ~enabled
          /\ ret' = NULL
          /\ UNCHANGED <<on, directory, bitmap, catalog, live, enabled, exits,
                         overflow, overread, built>>
       \/ /\ enabled
          /\ \E c \in LoadChoices :
               LET r == Current(c)
               IN  /\ on' = TRUE
                   /\ bitmap' = r.bitmap
                   /\ live' = r.live
                   /\ exits' = r.exits
                   /\ overflow' = (r.overflow \/ t \notin Bits)
                   /\ \E slot \in Dir!SlotKeys(r.dir, Dir!BSearch(r.dir, KeyOf(t))) :
                        LET f == Dir!FindIn(r.dir, KeyOf(t), slot)
                        IN  /\ directory' = f.dir
                            /\ ret' = IF f.ret = r.dir.entries THEN NULL
                                      ELSE r.dir.payloads[f.ret]
                            /\ overread' = (overread \/ f.overread)
          /\ UNCHANGED <<catalog, enabled, built>>

(* ocl_getEstimator, and the same lookup at the start of                  *)
(* ocl_estimateSelectivity: NULL while kde_enable is off; otherwise get   *)
(* the registry, test the table's bit and fetch from the directory.        *)
GetEstimator(t) ==
    /\ last' = t
    /\ \/ /\ ~enabled
          /\ ret' = NULL
          /\ UNCHANGED <<on, directory, bitmap, catalog, live, enabled, exits,
                         overflow, overread, built>>
       \/ /\ enabled
          /\ \E c \in LoadChoices :
               LET r == Current(c)
               IN  /\ on' = TRUE
                   /\ bitmap' = r.bitmap
                   /\ live' = r.live
                   /\ exits' = r.exits
                   /\ overflow' = (r.overflow \/ t \notin Bits)
                   /\ \E bit \in TestBit(r.bitmap, t) :
                        \/ /\ ~bit
                           /\ ret' = NULL
                           /\ directory' = r.dir
                           /\ UNCHANGED overread
                        \/ /\ bit
                           /\ \E slot \in Dir!SlotKeys(r.dir, Dir!BSearch(r.dir, KeyOf(t))) :
                                LET f == Dir!FindIn(r.dir, KeyOf(t), slot)
                                IN  /\ directory' = f.dir
                                    /\ ret' = IF f.ret = r.dir.entries THEN NULL
                                              ELSE r.dir.payloads[f.ret]
                                    /\ overread' = (overread \/ f.overread)
          /\ UNCHANGED <<catalog, enabled, built>>

(* assign_ocl_use_gpu / assign_kde_samplesize with a new value, and       *)
(* ocl_cleanUpRegistry: release a live registry.                           *)
ReleaseRegistry ==
    /\ on
    /\ Released
    /\ last' = NULL
    /\ ret' = NULL
    /\ UNCHANGED <<enabled, exits, overflow, overread, built>>

(* assign_kde_enable with a new value: release the registry, if any.       *)
SetKdeEnable(v) ==
    /\ v # enabled
    /\ enabled' = v
    /\ IF on THEN Released
       ELSE UNCHANGED <<catalog, live, on, directory, bitmap>>
    /\ last' = NULL
    /\ ret' = NULL
    /\ UNCHANGED <<exits, overflow, overread, built>>

Next ==
    \/ \E t \in Tables : Construct(t) \/ GetEstimator(t)
    \/ ReleaseRegistry
    \/ \E v \in BOOLEAN : SetKdeEnable(v)

Spec == Init /\ [][Next]_vars

-----------------------------------------------------------------------------

TypeOK ==
    /\ on \in BOOLEAN
    /\ Dir!TypeOK
    /\ bitmap \subseteq Bits
    /\ catalog \subseteq Oid
    /\ live \subseteq Estimator
    /\ enabled \in BOOLEAN
    /\ exits \in 0..MaxOnExits
    /\ overflow \in BOOLEAN
    /\ built \subseteq Tables
    /\ last \in Tables \cup {NULL}
    /\ ret \in Estimator \cup {NULL}

(* While the registry exists, its bitmap flags exactly the tables its     *)
(* directory holds: ocl_constructEstimator's replace path clears the bit   *)
(* through ocl_freeEstimator's toggle before setting it again, and no     *)
(* other path toggles a bit.                                               *)
BitmapMatchesDirectory ==
    on => bitmap = RegisteredTables(directory) \cap Bits

(* ocl_getEstimator with kde_enable on returns the estimator the registry *)
(* holds for the table, or NULL when it holds none: the bitmap test never *)
(* hides a registered estimator, and the fetch never returns another      *)
(* table's.                                                                *)
LookupReturnsRegistered ==
    (last \in Tables /\ enabled) =>
        ret = IF last \in RegisteredTables(directory)
              THEN EstimatorOf(directory, last) ELSE NULL

(* Every registered estimator is allocated: a lookup never hands out an   *)
(* estimator that ocl_freeEstimator has freed.                            *)
NoFreedEstimatorRegistered ==
    on => \A t \in RegisteredTables(directory) : EstimatorOf(directory, t) \in live

(* Registry lookups never make directory_find read past the key array:   *)
(* the bitmap test lets only registered tables reach the directory.       *)
LookupWithinCapacity == ~overread

(* No bitmap access lands outside the calloc'ed 4 MiB.                     *)
BitmapWithinAllocation == ~overflow

=============================================================================
