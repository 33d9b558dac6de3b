------------------------- MODULE ReductionPartition -------------------------
(***************************************************************************)
(* The host-side arithmetic of ocl_utilities.c's reductions: the local    *)
(* size of prepareSumDescriptor and minOfArray, and how their kernels     *)
(* split `elements` over the work-groups and the sequential kernel.       *)
(* Operators are stated for any local size L; the code's are SumLocal and *)
(* MinLocal.                                                               *)
(***************************************************************************)
EXTENDS Integers

CONSTANTS
    P,          \* context->max_compute_units
    MaxLocal,   \* CL_KERNEL_WORK_GROUP_SIZE of the kernels
    LocalMem    \* context->local_mem_size / sizeof(kde_float_t)

ASSUME PartitionAssumption ==
    /\ P \in Nat \ {0}
    /\ MaxLocal \in Nat \ {0}
    /\ LocalMem \in Nat /\ LocalMem >= 2

\* Min(a, b) of the code.
Smaller(a, b) == IF a < b THEN a ELSE b

\* (size_t)0x1 << (int)(log2((double)x)): the largest power of two <= x.
PowerFloor(x) ==
    LET pf[y \in 1..x] == IF y = 1 THEN 1 ELSE 2 * pf[y \div 2] IN pf[x]

\* prepareSumDescriptor's local size, and minOfArray's (two floats per thread).
SumLocal == PowerFloor(Smaller(MaxLocal, LocalMem))
MinLocal == PowerFloor(Smaller(MaxLocal, LocalMem \div 2))

\* elements / (processors * local_size), rounded up when elements are left over.
TuplesPerThreadUp(n, L) ==
    IF (n \div (P * L)) * (P * L) < n THEN n \div (P * L) + 1 ELSE n \div (P * L)

\* Mutant: elements / (processors * local_size) without rounding up.
SumTuplesPerThreadFloor(n) == n \div (P * SumLocal)

SumTuplesPerThread(n) == TuplesPerThreadUp(n, SumLocal)

\* minOfArray's split: whole stripes for min_par, the rest for min_seq.
SlowOffsetOf(n, L) == P * (n \div (P * L)) * L
MinTuplesPerThread(n) == n \div (P * MinLocal)
SlowOffset(n) == SlowOffsetOf(n, MinLocal)
SlowElements(n) == n - SlowOffset(n)

\* Mutant: min_seq's result slot one past the P + 1 slots of tmp_buffer_min.
SlowResultOffsetPastEnd == P + 1

SlowResultOffset == P

\* The elements work-group g of a stripe kernel covers (bounded by elements).
Stripe(g, tpt, L, n) == {i \in (g * L * tpt)..((g + 1) * L * tpt - 1) : i < n}

=============================================================================
