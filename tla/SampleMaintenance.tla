------------------------- MODULE SampleMaintenance -------------------------
(***************************************************************************)
(* Sample maintenance of one estimator (ocl_sample_maintenance.c): the      *)
(* insertion and deletion notifications (CAR) and the selectivity feedback  *)
(* (PRR, TKR, PKR) of this backend, racing other backends that insert into *)
(* and delete from the same table and VACUUM that truncates it.            *)
(*                                                                         *)
(* A row is its projected coordinates; the table is the set of committed   *)
(* live rows. The device kernels that flag slots (get_point_deletion_      *)
(* bitmap, get_karma_threshold_bitmap, minOfArray over the karma) are not  *)
(* in the repository: the deletion bitmap flags the slots equal to the     *)
(* deleted point (spec), the karma kernels flag any slots. Every           *)
(* ocl_createSample(rel, ..., 1) is one step of the backend: sampleTuple   *)
(* retries random blocks until it meets a live tuple, so with no live row  *)
(* it spins, or fails reading block InvalidBlockNumber when the relation   *)
(* has no block left.                                                      *)
(***************************************************************************)
EXTENDS Integers, FiniteSets, BinomialDraw

CONSTANTS
    N,          \* estimator->rows_in_sample
    ByteBits,   \* bits per byte of the hit bitmaps (8 in the code)
    Row,        \* the coordinates a row can have
    NoRow,
    Options,    \* the values kde_sample_maintenance_option may have
    Period,     \* kde_sample_maintenance_period
    Modulus,    \* 2^32: rows_in_table is an unsigned int
    MaxCount,   \* bound: this backend's inserts stop at this count
    MaxWrap,    \* bound: its deletes stop this far below the wrap
    FloydSets(_, _)  \* the bitmaps floydSampling(n, m) can return

ASSUME SampleAssumption ==
    /\ N \in Nat \ {0}
    /\ ByteBits \in Nat \ {0}
    /\ Period \in Nat \ {0}
    /\ NoRow \notin Row
    /\ Options \subseteq {"NONE", "CAR", "PRR", "TKR", "PKR"}
    /\ MaxCount >= Cardinality(Row)
    /\ MaxWrap \in Nat \ {0}
    /\ Modulus > MaxCount + MaxWrap

VARIABLES
    option,             \* kde_sample_maintenance_option
    table,              \* committed live rows of the relation
    has_blocks,         \* RelationGetNumberOfBlocks(rel) > 0
    sample,             \* sample_buffer, slot -> row
    rows_in_table,      \* estimator->rows_in_table
    nr_of_estimations,  \* stats->nr_of_estimations, modulo Period
    open_estimation,    \* estimator->open_estimation
    pc,                 \* "idle", "binomial" (in getBinomial), "draw" (refilling),
                        \* "spin" (sampleTuple looping for ever)
    pending,            \* the row a CAR insertion is placing
    bx, bsum,           \* getBinomial's x and sum
    hits,               \* the slots the current handler was asked to refill
    targets,            \* the slots its loop still refills
    replaced,           \* the slots it has refilled
    victim              \* the row the latest deletion removed, or NoRow

vars == <<option, table, has_blocks, sample, rows_in_table, nr_of_estimations,
          open_estimation, pc, pending, bx, bsum, hits, targets, replaced,
          victim>>

Slot == 0..N-1

\* Mutant: the bitmap loop stops one slot early.
AddressableShortLoop(flags) == {s \in flags : s < ByteBits * (N \div ByteBits) - 1}

\* The flagged slots the host's loop over the hit bitmap reaches: the bitmap
\* read back has rows_in_sample / 8 bytes, rounded down.
Addressable(flags) == {s \in flags : s < ByteBits * (N \div ByteBits)}

\* floydSampling into a zeroed map, then ocl_pushEntryToSampleBufer(estimator,
\* i * 8 + j, item) for every set bit.
CarPush(r, k) ==
    \E S \in FloydSets(N, k) :
        /\ sample' = [s \in Slot |-> IF s + 1 \in S THEN r ELSE sample[s]]
        /\ replaced' = {i - 1 : i \in S}

\* A handler hands the slots flags to its refill loop, which reaches tg.
StartRefill(flags, tg) ==
    /\ hits' = flags
    /\ targets' = tg
    /\ replaced' = {}
    /\ pc' = IF tg = {} THEN "idle" ELSE "draw"

Init ==
    /\ option \in Options
    /\ table \in SUBSET Row \ {{}}
    /\ has_blocks = TRUE
    /\ sample \in [Slot -> table]
    /\ rows_in_table = Cardinality(table)
    /\ nr_of_estimations = 0
    /\ open_estimation = FALSE
    /\ pc = "idle"
    /\ pending = NoRow
    /\ bx = 0
    /\ bsum = "zero"
    /\ hits = {}
    /\ targets = {}
    /\ replaced = {}
    /\ victim = NoRow

\* ocl_estimateSelectivity opens an estimation.
Estimate ==
    /\ pc = "idle"
    /\ open_estimation' = TRUE
    /\ UNCHANGED <<option, table, has_blocks, sample, rows_in_table,
                   nr_of_estimations, pc, pending, bx, bsum, hits, targets,
                   replaced, victim>>

\* ocl_notifySampleMaintenanceOfInsertion after this backend inserted r.
Insert(r) ==
    LET rows == (rows_in_table + 1) % Modulus IN
    /\ pc = "idle"
    /\ r \notin table
    /\ rows_in_table # MaxCount
    /\ table' = table \cup {r}
    /\ has_blocks' = TRUE
    /\ rows_in_table' = rows
    /\ hits' = {}
    /\ targets' = {}
    /\ victim' = NoRow
    /\ \/ /\ option # "CAR"
          /\ replaced' = {}
          /\ UNCHANGED <<sample, pc, pending, bx, bsum>>
       \/ /\ option = "CAR"
          /\ LogQ(rows) = "-inf"     \* getBinomial returns n at once
          /\ CarPush(r, N)
          /\ UNCHANGED <<pc, pending, bx, bsum>>
       \/ /\ option = "CAR"
          /\ LogQ(rows) # "-inf"
          /\ pc' = "binomial"
          /\ pending' = r
          /\ bx' = 0
          /\ bsum' = "zero"
          /\ replaced' = {}
          /\ UNCHANGED sample
    /\ UNCHANGED <<option, nr_of_estimations, open_estimation>>

\* One iteration of getBinomial(rows_in_sample, 1.0 / rows_in_table); when it
\* returns x, the x slots floydSampling draws get the new row. x saturates at
\* n + 1: beyond n only the sign of n - x matters.
BinomialStep ==
    /\ pc = "binomial"
    /\ \E r \in Draw, s \in FloatClass :
         /\ s \in AddF(bsum, Term(r, N - bx))
         /\ \/ /\ TRUE \in Below(s, LogQ(rows_in_table))
               /\ CarPush(pending, bx)
               /\ pc' = "idle"
               /\ pending' = NoRow
               /\ bx' = 0
               /\ bsum' = "zero"
            \/ /\ FALSE \in Below(s, LogQ(rows_in_table))
               /\ bx' = IF bx > N THEN bx ELSE bx + 1
               /\ bsum' = s
               /\ UNCHANGED <<sample, replaced, pc, pending>>
    /\ UNCHANGED <<option, table, has_blocks, rows_in_table, nr_of_estimations,
                   open_estimation, hits, targets, victim>>

\* Mutant: the count kept as a signed value that goes below zero.
RemoveSigned(r) ==
    /\ pc = "idle"
    /\ r \in table
    /\ rows_in_table # Modulus - MaxWrap
    /\ table' = table \ {r}
    /\ rows_in_table' = rows_in_table - 1
    /\ StartRefill({}, {})
    /\ victim' = NoRow
    /\ UNCHANGED <<option, has_blocks, sample, nr_of_estimations,
                   open_estimation, pending, bx, bsum>>

\* ocl_notifySampleMaintenanceOfDeletion after this backend deleted r: the
\* count drops, and under CAR the slots holding r are flagged for refill.
Remove(r) ==
    /\ pc = "idle"
    /\ r \in table
    /\ rows_in_table # Modulus - MaxWrap
    /\ table' = table \ {r}
    /\ rows_in_table' = (rows_in_table - 1) % Modulus
    /\ \/ /\ option = "CAR"
          /\ LET flags == {s \in Slot : sample[s] = r}
             IN StartRefill(flags, Addressable(flags))
          /\ victim' = r
       \/ /\ option # "CAR"
          /\ StartRefill({}, {})
          /\ victim' = NoRow
    /\ UNCHANGED <<option, has_blocks, sample, nr_of_estimations,
                   open_estimation, pending, bx, bsum>>

\* ocl_notifyModelMaintenanceOfSelectivity up to ocl_runOnlineLearningStep:
\* the count is reset to the rows the query saw, the estimate is counted, and
\* PRR (random() % rows_in_sample), TKR (the threshold bitmap) or PKR (the
\* arg-min of the karma) pick the slots to refill.
Feedback ==
    LET nr == (nr_of_estimations + 1) % Period IN
    /\ pc = "idle"
    /\ open_estimation
    /\ open_estimation' = FALSE
    /\ rows_in_table' = Cardinality(table)
    /\ nr_of_estimations' = nr
    /\ victim' = NoRow
    /\ \/ /\ option \in {"PRR", "PKR"}
          /\ nr = 0
          /\ \E s \in Slot : StartRefill({s}, {s})
       \/ /\ option = "TKR"
          /\ \E flags \in SUBSET Slot : StartRefill(flags, Addressable(flags))
       \/ /\ \/ option \in {"NONE", "CAR"}
             \/ option \in {"PRR", "PKR"} /\ nr # 0
          /\ StartRefill({}, {})
    /\ UNCHANGED <<option, table, has_blocks, sample, pending, bx, bsum>>

\* The slot the refill loop reaches first: the loops run up the slots.
LowestSlot(S) == CHOOSE s \in S : \A x \in S : s <= x

\* Mutant: sampleTuple also accepts the tuple this transaction is deleting.
DrawOneSeesOwnDelete ==
    LET s == LowestSlot(targets) IN
    /\ pc = "draw"
    /\ table \cup ({victim} \ {NoRow}) # {}
    /\ \E row \in table \cup ({victim} \ {NoRow}) :
         sample' = [sample EXCEPT ![s] = row]
    /\ targets' = targets \ {s}
    /\ replaced' = replaced \cup {s}
    /\ pc' = IF targets' = {} THEN "idle" ELSE "draw"
    /\ UNCHANGED <<option, table, has_blocks, rows_in_table, nr_of_estimations,
                   open_estimation, pending, bx, bsum, hits, victim>>

\* Mutant: sampleTuple counts a HEAPTUPLE_RECENTLY_DEAD tuple as qualifying,
\* so the refill may take a row that is no longer in the table.
DrawOneTakesDead ==
    LET s == LowestSlot(targets) IN
    /\ pc = "draw"
    /\ table # {}
    /\ \E row \in Row : sample' = [sample EXCEPT ![s] = row]
    /\ targets' = targets \ {s}
    /\ replaced' = replaced \cup {s}
    /\ pc' = IF targets' = {} THEN "idle" ELSE "draw"
    /\ UNCHANGED <<option, table, has_blocks, rows_in_table, nr_of_estimations,
                   open_estimation, pending, bx, bsum, hits, victim>>

\* The refill loop's next slot: ocl_createSample meets a live row, which
\* ocl_pushEntryToSampleBufer writes to the slot.
DrawOne ==
    LET s == LowestSlot(targets) IN
    /\ pc = "draw"
    /\ table # {}
    /\ \E row \in table : sample' = [sample EXCEPT ![s] = row]
    /\ targets' = targets \ {s}
    /\ replaced' = replaced \cup {s}
    /\ pc' = IF targets' = {} THEN "idle" ELSE "draw"
    /\ UNCHANGED <<option, table, has_blocks, rows_in_table, nr_of_estimations,
                   open_estimation, pending, bx, bsum, hits, victim>>

\* ocl_createSample on a relation with no block: sampleTuple's block number
\* blocks - 1 is P_NEW, so every ReadBuffer appends an empty page and the
\* loop never meets a tuple; blocks was read once, so later inserts do not
\* help. The handler never returns.
DrawSpins ==
    /\ pc = "draw"
    /\ ~has_blocks
    /\ pc' = "spin"
    /\ has_blocks' = TRUE
    /\ UNCHANGED <<option, table, sample, rows_in_table, nr_of_estimations,
                   open_estimation, pending, bx, bsum, hits, targets,
                   replaced, victim>>

\* Other backends: their writes commit without touching this backend's
\* estimator. The row this backend is inserting is not yet visible to them,
\* and the tuple it is deleting still holds its coordinates: rows are
\* distinct tuples, so none of them reappears before that deletion returns.
OtherInsert(r) ==
    /\ r \notin table
    /\ ~(pc = "draw" /\ r = victim)
    /\ table' = table \cup {r}
    /\ has_blocks' = TRUE
    /\ UNCHANGED <<option, sample, rows_in_table, nr_of_estimations,
                   open_estimation, pc, pending, bx, bsum, hits, targets,
                   replaced, victim>>

OtherDelete(r) ==
    /\ r \in table \ {pending}
    /\ table' = table \ {r}
    /\ UNCHANGED <<option, has_blocks, sample, rows_in_table, nr_of_estimations,
                   open_estimation, pc, pending, bx, bsum, hits, targets,
                   replaced, victim>>

\* VACUUM truncates an empty relation, unless this backend's deletion of a
\* tuple is still in progress.
Vacuum ==
    /\ table = {}
    /\ has_blocks
    /\ ~(pc = "draw" /\ victim # NoRow)
    /\ has_blocks' = FALSE
    /\ UNCHANGED <<option, table, sample, rows_in_table, nr_of_estimations,
                   open_estimation, pc, pending, bx, bsum, hits, targets,
                   replaced, victim>>

Next ==
    \/ Estimate
    \/ \E r \in Row : Insert(r) \/ Remove(r) \/ OtherInsert(r) \/ OtherDelete(r)
    \/ BinomialStep
    \/ Feedback
    \/ DrawOne
    \/ DrawSpins
    \/ Vacuum

\* The backend runs its loops without waiting for anyone. sampleTuple draws
\* random blocks and pages, so a live row that is there again and again is
\* met in the end (with probability one): strong fairness for DrawOne.
Fairness == WF_vars(BinomialStep) /\ SF_vars(DrawOne) /\ WF_vars(DrawSpins)

Spec == Init /\ [][Next]_vars /\ Fairness

-----------------------------------------------------------------------------
TypeOK ==
    /\ option \in Options
    /\ table \subseteq Row
    /\ has_blocks \in BOOLEAN
    /\ sample \in [Slot -> Row]
    /\ rows_in_table \in 0..(Modulus - 1)
    /\ nr_of_estimations \in 0..(Period - 1)
    /\ open_estimation \in BOOLEAN
    /\ pc \in {"idle", "binomial", "draw", "spin"}
    /\ pending \in Row \cup {NoRow}
    /\ bx \in 0..(N + 1)
    /\ bsum \in FloatClass
    /\ targets \subseteq hits /\ hits \subseteq Slot
    /\ replaced \subseteq Slot
    /\ victim \in Row \cup {NoRow}

\* Every slot the deletion bitmap or the karma-threshold bitmap flags is
\* refilled by the time the handler returns (spec: TKR replaces any point
\* whose karma crosses the threshold; CAR refills each matching slot).
HitSlotsRefilled == pc = "idle" => hits \subseteq replaced

\* Once this backend's CAR deletion of a row returns, no sample slot holds
\* that row any more: every slot matching it was refilled from a row that is
\* still live (sampleTuple skips the tuple this transaction deletes), even
\* when other backends have inserted and deleted meanwhile.
DeletedRowLeavesSample ==
    pc = "idle" /\ victim # NoRow => \A s \in Slot : sample[s] # victim

\* No step puts a dead row into the sample: every slot a step changes gets a
\* row that is in the table after the step. ocl_pushEntryToSampleBufer is
\* handed either the tuple this backend has just inserted, which nobody else
\* can delete before the insert's notification returns, however long
\* getBinomial runs, or a tuple sampleTuple has met alive.
SampleWritesLiveRows ==
    [][\A s \in Slot : sample'[s] # sample[s] => sample'[s] \in table']_vars

\* Every notification returns: getBinomial's loop ends and sampleTuple's
\* refill ends, so the backend gets back between calls, under the fairness
\* the random draws justify.
NotificationsReturn == pc # "idle" ~> pc = "idle"

=============================================================================
