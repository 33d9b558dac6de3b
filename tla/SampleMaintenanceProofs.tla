----------------------- MODULE SampleMaintenanceProofs -----------------------
(***************************************************************************)
(* The refill invariants of sample maintenance, for every sample size that *)
(* is a multiple of the byte, every set of rows, options, period and       *)
(* count bounds, and whatever bitmaps floydSampling returns.  When the     *)
(* sample size is a multiple of the byte the host's loop over the hit      *)
(* bitmap reaches every flagged slot, so each handler's refill loop is     *)
(* handed every slot it was asked to refill; the loop refills them one by  *)
(* one from live rows.  During a CAR deletion's refill the deleted row is  *)
(* out of the table, the relation still has blocks, and every slot that    *)
(* still holds it waits in the loop's targets.                             *)
(***************************************************************************)
EXTENDS SampleMaintenance, TLAPS

(* The sample size is a whole number of bitmap bytes.                      *)
WholeBytes == \E k \in Nat : N = ByteBits * k

(* The refill loop owes the slots it has not reached yet, and no other.    *)
RefillOwed ==
    /\ hits \ targets \subseteq replaced
    /\ pc \in {"idle", "binomial"} => targets = {}
    /\ pc = "binomial" => hits = {}

(* Where the row of a CAR deletion can still be in the sample.             *)
VictimTracked ==
    /\ table # {} => has_blocks
    /\ pc = "binomial" => victim = NoRow
    /\ pc = "draw" /\ victim # NoRow =>
          /\ victim \notin table
          /\ has_blocks
          /\ \A s \in Slot : sample[s] = victim => s \in targets
    /\ pc = "idle" /\ victim # NoRow => \A s \in Slot : sample[s] # victim

(* The inductive invariant.                                                *)
RefillInv ==
    /\ table \subseteq Row
    /\ sample \in [Slot -> Row \cup {NoRow}]
    /\ pending \in Row \cup {NoRow}
    /\ RefillOwed
    /\ VictimTracked


-----------------------------------------------------------------------------
USE SampleAssumption DEF Slot

(* With whole bytes, the host's loop over the read-back bitmap reaches     *)
(* every slot.                                                             *)
LEMMA AddressableAll ==
  ASSUME WholeBytes, NEW flags \in SUBSET Slot
  PROVE  Addressable(flags) = flags
<1>1. PICK q \in Nat : /\ q = N \div ByteBits
                      /\ q * ByteBits <= N
                      /\ N < (q + 1) * ByteBits
  BY SMT
<1>2. PICK k \in Nat : N = ByteBits * k
  BY DEF WholeBytes
<1>3. ~(q < k)
  <2>1. SUFFICES ASSUME q < k PROVE FALSE
    OBVIOUS
  <2>2. (q + 1) * ByteBits <= k * ByteBits
    BY <2>1, SMT
  <2>. QED  BY <1>1, <1>2, <2>2, SMT
<1>4. ~(k < q)
  <2>1. SUFFICES ASSUME k < q PROVE FALSE
    OBVIOUS
  <2>2. (k + 1) * ByteBits <= q * ByteBits
    BY <2>1, SMT
  <2>. QED  BY <1>1, <1>2, <2>2, SMT
<1>5. ByteBits * (N \div ByteBits) = N
  BY <1>1, <1>2, <1>3, <1>4
<1>6. \A s \in flags : s < ByteBits * (N \div ByteBits)
  BY <1>5
<1>. QED
  BY <1>6, Zenon DEF Addressable

(* A handler that hands its refill loop every flagged slot owes exactly    *)
(* those slots.                                                            *)
LEMMA StartRefillOwed ==
  ASSUME NEW F, StartRefill(F, F)
  PROVE  RefillOwed' /\ pc' \in {"idle", "draw"} /\ (pc' = "idle" <=> F = {})
BY DEF StartRefill, RefillOwed

LEMMA InitInv == Init => RefillInv
BY DEF Init, RefillInv, RefillOwed, VictimTracked

LEMMA EstimateInv ==
  ASSUME RefillInv, Estimate
  PROVE  RefillInv'
BY DEF Estimate, RefillInv, RefillOwed, VictimTracked

LEMMA InsertInv ==
  ASSUME RefillInv, NEW r \in Row, Insert(r)
  PROVE  RefillInv'
<1>1. /\ pc = "idle"
      /\ victim' = NoRow /\ hits' = {} /\ targets' = {}
      /\ table' = table \cup {r} /\ has_blocks'
  BY DEF Insert
<1>2. /\ sample' \in [Slot -> Row \cup {NoRow}]
      /\ pending' \in Row \cup {NoRow}
      /\ pc' \in {"idle", "binomial"}
  <2>1. CASE option # "CAR" /\ replaced' = {}
             /\ UNCHANGED <<sample, pc, pending, bx, bsum>>
    BY <1>1, <2>1 DEF RefillInv
  <2>2. CASE option = "CAR" /\ CarPush(r, N) /\ UNCHANGED <<pc, pending, bx, bsum>>
    BY <1>1, <2>2 DEF RefillInv, CarPush
  <2>3. CASE option = "CAR" /\ pc' = "binomial" /\ pending' = r /\ UNCHANGED sample
    BY <2>3 DEF RefillInv
  <2>. QED
    BY <2>1, <2>2, <2>3 DEF Insert
<1>. QED
  BY <1>1, <1>2 DEF RefillInv, RefillOwed, VictimTracked

LEMMA BinomialInv ==
  ASSUME RefillInv, BinomialStep
  PROVE  RefillInv'
<1>1. /\ pc = "binomial"
      /\ hits = {} /\ targets = {} /\ victim = NoRow
      /\ UNCHANGED <<table, has_blocks, hits, targets, victim>>
  BY DEF BinomialStep, RefillInv, RefillOwed, VictimTracked
<1>2. /\ sample' \in [Slot -> Row \cup {NoRow}]
      /\ pending' \in Row \cup {NoRow}
      /\ pc' \in {"idle", "binomial"}
  BY DEF BinomialStep, RefillInv, CarPush
<1>. QED
  BY <1>1, <1>2 DEF RefillInv, RefillOwed, VictimTracked

(* ocl_notifySampleMaintenanceOfDeletion: the slots holding the deleted    *)
(* row are all handed to the refill loop, and the row is out of the table. *)
LEMMA RemoveInv ==
  ASSUME RefillInv, WholeBytes, NEW r \in Row, Remove(r)
  PROVE  RefillInv'
<1>1. /\ pc = "idle" /\ r \in table
      /\ table' = table \ {r}
      /\ UNCHANGED <<has_blocks, sample, pending>>
  BY DEF Remove
<1>2. has_blocks
  BY <1>1 DEF RefillInv, VictimTracked
<1>3. CASE option = "CAR"
  <2>. DEFINE flags == {s \in Slot : sample[s] = r}
  <2>1. StartRefill(flags, Addressable(flags)) /\ victim' = r
    BY <1>3 DEF Remove
  <2>2. StartRefill(flags, flags)
    BY <2>1, AddressableAll
  <2>3. RefillOwed' /\ pc' \in {"idle", "draw"} /\ (pc' = "idle" <=> flags = {})
    BY <2>2, StartRefillOwed
  <2>4. targets' = flags
    BY <2>2 DEF StartRefill
  <2>. QED
    BY <1>1, <1>2, <2>1, <2>3, <2>4 DEF RefillInv, VictimTracked
<1>4. CASE option # "CAR"
  <2>1. StartRefill({}, {}) /\ victim' = NoRow
    BY <1>4 DEF Remove
  <2>2. RefillOwed' /\ pc' = "idle"
    BY <2>1, StartRefillOwed
  <2>. QED
    BY <1>1, <1>2, <2>1, <2>2 DEF RefillInv, VictimTracked
<1>. QED
  BY <1>3, <1>4

LEMMA FeedbackInv ==
  ASSUME RefillInv, WholeBytes, Feedback
  PROVE  RefillInv'
<1>1. /\ victim' = NoRow
      /\ UNCHANGED <<table, has_blocks, sample, pending>>
  BY DEF Feedback
<1>2. RefillOwed' /\ pc' \in {"idle", "draw"}
  <2>1. CASE \E s \in Slot : StartRefill({s}, {s})
    BY <2>1, StartRefillOwed
  <2>2. CASE \E flags \in SUBSET Slot : StartRefill(flags, Addressable(flags))
    <3>1. PICK flags \in SUBSET Slot : StartRefill(flags, Addressable(flags))
      BY <2>2
    <3>2. StartRefill(flags, flags)
      BY <3>1, AddressableAll
    <3>. QED
      BY <3>2, StartRefillOwed
  <2>3. CASE StartRefill({}, {})
    BY <2>3, StartRefillOwed
  <2>. QED
    BY <2>1, <2>2, <2>3 DEF Feedback
<1>. QED
  BY <1>1, <1>2 DEF RefillInv, VictimTracked

(* One iteration of the refill loop: the slot it writes gets a live row,   *)
(* which is not the deleted one.                                           *)
LEMMA DrawOneInv ==
  ASSUME RefillInv, DrawOne
  PROVE  RefillInv'
<1>1. PICK s : s = LowestSlot(targets)
  OBVIOUS
<1>2. PICK row \in table : sample' = [sample EXCEPT ![s] = row]
  BY <1>1 DEF DrawOne
<1>3. /\ pc = "draw"
      /\ targets' = targets \ {s} /\ replaced' = replaced \cup {s}
      /\ pc' = IF targets' = {} THEN "idle" ELSE "draw"
      /\ UNCHANGED <<table, has_blocks, pending, hits, victim>>
  BY <1>1 DEF DrawOne
<1>4. RefillOwed'
  BY <1>3 DEF RefillInv, RefillOwed
<1>5. sample' \in [Slot -> Row \cup {NoRow}]
  BY <1>2 DEF RefillInv
<1>6. ASSUME victim # NoRow, NEW x \in Slot, sample'[x] = victim
      PROVE  x \in targets'
  <2>1. victim \notin table /\ \A y \in Slot : sample[y] = victim => y \in targets
    BY <1>3, <1>6 DEF RefillInv, VictimTracked
  <2>2. x # s
    BY <1>2, <1>6, <2>1 DEF RefillInv
  <2>3. sample[x] = victim
    BY <1>2, <1>6, <2>2 DEF RefillInv
  <2>. QED
    BY <1>3, <2>1, <2>2, <2>3
<1>7. VictimTracked'
  BY <1>3, <1>6 DEF RefillInv, VictimTracked
<1>. QED
  BY <1>3, <1>4, <1>5, <1>7 DEF RefillInv

LEMMA DrawSpinsInv ==
  ASSUME RefillInv, DrawSpins
  PROVE  RefillInv'
<1>1. victim = NoRow
  BY DEF DrawSpins, RefillInv, VictimTracked
<1>. QED
  BY <1>1 DEF DrawSpins, RefillInv, RefillOwed, VictimTracked

(* Other backends never bring the deleted row back while its slots are     *)
(* being refilled, and VACUUM waits for the deletion.                      *)
LEMMA OthersInv ==
  ASSUME RefillInv,
         \/ \E r \in Row : OtherInsert(r) \/ OtherDelete(r)
         \/ Vacuum
  PROVE  RefillInv'
<1>1. CASE \E r \in Row : OtherInsert(r)
  BY <1>1 DEF OtherInsert, RefillInv, RefillOwed, VictimTracked
<1>2. CASE \E r \in Row : OtherDelete(r)
  BY <1>2 DEF OtherDelete, RefillInv, RefillOwed, VictimTracked
<1>3. CASE Vacuum
  BY <1>3 DEF Vacuum, RefillInv, RefillOwed, VictimTracked
<1>. QED
  BY <1>1, <1>2, <1>3

LEMMA NextInv == RefillInv /\ WholeBytes /\ [Next]_vars => RefillInv'
<1>. SUFFICES ASSUME RefillInv, WholeBytes, [Next]_vars PROVE RefillInv'
  OBVIOUS
<1>1. CASE Estimate
  BY <1>1, EstimateInv
<1>2. CASE \E r \in Row : Insert(r)
  BY <1>2, InsertInv
<1>3. CASE \E r \in Row : Remove(r)
  BY <1>3, RemoveInv
<1>4. CASE \E r \in Row : OtherInsert(r) \/ OtherDelete(r)
  BY <1>4, OthersInv
<1>5. CASE BinomialStep
  BY <1>5, BinomialInv
<1>6. CASE Feedback
  BY <1>6, FeedbackInv
<1>7. CASE DrawOne
  BY <1>7, DrawOneInv
<1>8. CASE DrawSpins
  BY <1>8, DrawSpinsInv
<1>9. CASE Vacuum
  BY <1>9, OthersInv
<1>10. CASE UNCHANGED vars
  BY <1>10 DEF vars, RefillInv, RefillOwed, VictimTracked
<1>. QED
  BY <1>1, <1>2, <1>3, <1>4, <1>5, <1>6, <1>7, <1>8, <1>9, <1>10 DEF Next

(* For a sample of whole bytes, every slot the deletion bitmap, the        *)
(* karma-threshold bitmap or the PRR/PKR draw flags has been refilled by   *)
(* the time the handler returns.                                           *)
THEOREM RefillComplete ==
  ASSUME WholeBytes
  PROVE  Spec => []HitSlotsRefilled
<1>1. RefillInv => HitSlotsRefilled
  BY DEF RefillInv, RefillOwed, HitSlotsRefilled
<1>. QED
  BY <1>1, InitInv, NextInv, PTL DEF Spec

(* For a sample of whole bytes, once a CAR deletion returns no sample slot *)
(* holds the deleted row, whatever other backends and VACUUM do meanwhile. *)
THEOREM DeletedRowGone ==
  ASSUME WholeBytes
  PROVE  Spec => []DeletedRowLeavesSample
<1>1. RefillInv => DeletedRowLeavesSample
  BY DEF RefillInv, VictimTracked, DeletedRowLeavesSample
<1>. QED
  BY <1>1, InitInv, NextInv, PTL DEF Spec


-----------------------------------------------------------------------------
(* The step SampleWritesLiveRows asks of every transition. *)
LiveWrite == \A s \in Slot : sample'[s] # sample[s] => sample'[s] \in table'

(* Why it holds: the row getBinomial will push stays in the table, because *)
(* other backends cannot see it and this backend is inside the insert's    *)
(* notification.                                                           *)
LiveInv ==
    /\ DOMAIN sample = Slot
    /\ pc = "binomial" => pending \in table

LEMMA InitLive == Init => LiveInv
BY DEF Init, LiveInv

LEMMA CarPushLive ==
  ASSUME NEW r, NEW k, CarPush(r, k), r \in table'
  PROVE  DOMAIN sample' = Slot /\ LiveWrite
BY DEF CarPush, LiveWrite

LEMMA InsertLive ==
  ASSUME LiveInv, NEW r \in Row, Insert(r)
  PROVE  LiveInv' /\ LiveWrite
<1>1. r \in table' /\ pc = "idle"
  BY DEF Insert
<1>2. CASE option # "CAR" /\ UNCHANGED <<sample, pc, pending>>
  BY <1>1, <1>2 DEF LiveInv, LiveWrite
<1>3. CASE CarPush(r, N) /\ UNCHANGED <<pc, pending>>
  BY <1>1, <1>3, CarPushLive DEF LiveInv
<1>4. CASE pending' = r /\ UNCHANGED sample
  BY <1>1, <1>4 DEF LiveInv, LiveWrite
<1>. QED
  BY <1>2, <1>3, <1>4 DEF Insert

LEMMA BinomialLive ==
  ASSUME LiveInv, BinomialStep
  PROVE  LiveInv' /\ LiveWrite
<1>1. pc = "binomial" /\ pending \in table /\ UNCHANGED table
  BY DEF BinomialStep, LiveInv
<1>2. CASE CarPush(pending, bx) /\ pc' = "idle"
  BY <1>1, <1>2, CarPushLive DEF LiveInv
<1>3. CASE UNCHANGED <<sample, pc, pending>>
  BY <1>1, <1>3 DEF LiveInv, LiveWrite
<1>. QED
  BY <1>2, <1>3 DEF BinomialStep

LEMMA DrawOneLive ==
  ASSUME LiveInv, DrawOne
  PROVE  LiveInv' /\ LiveWrite
<1>1. PICK x : x = LowestSlot(targets)
  OBVIOUS
<1>2. PICK row \in table : sample' = [sample EXCEPT ![x] = row]
  BY <1>1 DEF DrawOne
<1>3. pc' # "binomial" /\ UNCHANGED table
  BY DEF DrawOne
<1>. QED
  BY <1>2, <1>3 DEF LiveInv, LiveWrite

LEMMA NextLive == LiveInv /\ [Next]_vars => LiveInv' /\ LiveWrite
<1>. SUFFICES ASSUME LiveInv, [Next]_vars PROVE LiveInv' /\ LiveWrite
  OBVIOUS
<1>1. CASE \E r \in Row : Insert(r)
  BY <1>1, InsertLive
<1>2. CASE BinomialStep
  BY <1>2, BinomialLive
<1>3. CASE DrawOne
  BY <1>3, DrawOneLive
<1>4. CASE \E r \in Row : Remove(r)
  BY <1>4 DEF Remove, StartRefill, LiveInv, LiveWrite
<1>5. CASE Feedback
  BY <1>5 DEF Feedback, StartRefill, LiveInv, LiveWrite
<1>6. CASE \E r \in Row : OtherInsert(r) \/ OtherDelete(r)
  BY <1>6 DEF OtherInsert, OtherDelete, LiveInv, LiveWrite
<1>7. CASE Estimate \/ DrawSpins \/ Vacuum \/ UNCHANGED vars
  BY <1>7 DEF Estimate, DrawSpins, Vacuum, vars, LiveInv, LiveWrite
<1>. QED
  BY <1>1, <1>2, <1>3, <1>4, <1>5, <1>6, <1>7 DEF Next

(* For every instance of the constants, no step puts a dead row into the   *)
(* sample: the insert's push, getBinomial's delayed push and the refill    *)
(* loop write only rows that are in the table.                             *)
THEOREM LiveRowsWritten == Spec => SampleWritesLiveRows
<1>1. LiveInv /\ [Next]_vars => [LiveWrite]_vars
  BY NextLive
<1>. QED
  BY <1>1, InitLive, NextLive, PTL DEF Spec, SampleWritesLiveRows, LiveWrite

=============================================================================
