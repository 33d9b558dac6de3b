-------------------------- MODULE ReductionProofs --------------------------
(***************************************************************************)
(* Proofs about the partition arithmetic of ocl_utilities.c, for every    *)
(* number of compute units, every local size the host may settle on and   *)
(* every number of elements.                                              *)
(***************************************************************************)
EXTENDS ReductionPartition, TLAPS

USE PartitionAssumption

\* The quotient of a by a positive d, named, with the bounds that define it.
LEMMA Quotient ==
    ASSUME NEW a \in Nat, NEW d \in Nat \ {0}
    PROVE  \E q \in Nat : /\ q = a \div d
                          /\ q * d <= a
                          /\ a < (q + 1) * d
BY SMT

\* prepareSumDescriptor rounds tuples_per_thread up so that the P stripes of
\* sum_par reach every element: processors * local_size * tuples_per_thread
\* is at least `elements`.
LEMMA RoundUpCovers ==
    ASSUME NEW n \in Nat, NEW L \in Nat \ {0}
    PROVE  /\ TuplesPerThreadUp(n, L) \in Nat
           /\ n <= P * (L * TuplesPerThreadUp(n, L))
<1>1. P * L \in Nat \ {0}
  BY SMT
<1>2. PICK q \in Nat : /\ q = n \div (P * L)
                       /\ q * (P * L) <= n
                       /\ n < (q + 1) * (P * L)
  BY <1>1, Quotient
<1>3. CASE q * (P * L) < n
  <2>1. TuplesPerThreadUp(n, L) = q + 1
    BY <1>2, <1>3 DEF TuplesPerThreadUp
  <2>. QED  BY <1>2, <2>1, SMT
<1>4. CASE ~(q * (P * L) < n)
  <2>1. TuplesPerThreadUp(n, L) = q
    BY <1>2, <1>4 DEF TuplesPerThreadUp
  <2>. QED  BY <1>2, <1>4, <2>1, SMT
<1>. QED  BY <1>3, <1>4

\* The index i lies in the stripe of work-group i \div (L * t) whenever the
\* P stripes of L * t elements reach past i.
LEMMA StripeOfIndex ==
    ASSUME NEW n \in Nat, NEW L \in Nat \ {0}, NEW t \in Nat \ {0},
           NEW i \in 0..(n - 1), i < P * (L * t)
    PROVE  \E g \in 0..(P - 1) : i \in Stripe(g, t, L, n)
<1>1. L * t \in Nat \ {0}
  BY SMT
<1>2. PICK g \in Nat : /\ g = i \div (L * t)
                       /\ g * (L * t) <= i
                       /\ i < (g + 1) * (L * t)
  BY <1>1, Quotient
<1>3. g < P
  <2>1. SUFFICES ASSUME g >= P PROVE FALSE
    BY <1>2, SMT
  <2>2. P * (L * t) <= g * (L * t)
    BY <1>1, <1>2, <2>1, SMT
  <2>. QED  BY <1>2, <2>2, SMT
<1>. QED
  BY <1>2, <1>3, SMT DEF Stripe

\* sum(buffer, n) reads every element: with tuples_per_thread rounded up,
\* each of the n elements lies in the stripe of some work-group of sum_par,
\* for every local size.
THEOREM SumStripesCover ==
    ASSUME NEW n \in Nat, NEW L \in Nat \ {0}, NEW i \in 0..(n - 1)
    PROVE  \E g \in 0..(P - 1) : i \in Stripe(g, TuplesPerThreadUp(n, L), L, n)
<1>1. TuplesPerThreadUp(n, L) \in Nat /\ n <= P * (L * TuplesPerThreadUp(n, L))
  BY RoundUpCovers
<1>2. TuplesPerThreadUp(n, L) # 0
  <2>1. SUFFICES ASSUME TuplesPerThreadUp(n, L) = 0 PROVE FALSE
    OBVIOUS
  <2>. QED  BY <1>1, <2>1, SMT
<1>3. i < P * (L * TuplesPerThreadUp(n, L))
  BY <1>1, SMT
<1>. QED  BY <1>1, <1>2, <1>3, StripeOfIndex

\* The stripes of two work-groups are disjoint, whatever their size.
LEMMA StripesDisjoint ==
    ASSUME NEW n \in Nat, NEW L \in Nat, NEW t \in Nat,
           NEW g \in Nat, NEW h \in Nat, g < h
    PROVE  Stripe(g, t, L, n) \cap Stripe(h, t, L, n) = {}
<1>1. (g + 1) * (L * t) <= h * (L * t)
  BY SMT
<1>. QED  BY <1>1, SMT DEF Stripe

\* sum_par with prepareSumDescriptor's rounded-up tuples_per_thread adds each
\* of the n elements in exactly one of its P work-groups: none is skipped and
\* none is added twice, for every local size.
THEOREM SumReadsEachOnce ==
    ASSUME NEW n \in Nat, NEW L \in Nat \ {0}, NEW i \in 0..(n - 1)
    PROVE  \E g \in 0..(P - 1) :
              /\ i \in Stripe(g, TuplesPerThreadUp(n, L), L, n)
              /\ \A h \in 0..(P - 1) :
                    i \in Stripe(h, TuplesPerThreadUp(n, L), L, n) => h = g
<1>1. PICK g \in 0..(P - 1) : i \in Stripe(g, TuplesPerThreadUp(n, L), L, n)
  BY SumStripesCover
<1>2. TuplesPerThreadUp(n, L) \in Nat
  BY RoundUpCovers
<1>3. ASSUME NEW h \in 0..(P - 1), i \in Stripe(h, TuplesPerThreadUp(n, L), L, n)
      PROVE  h = g
  <2>1. SUFFICES ASSUME h # g PROVE FALSE
    OBVIOUS
  <2>2. CASE g < h
    BY <1>1, <1>2, <1>3, <2>2, StripesDisjoint
  <2>3. CASE h < g
    BY <1>1, <1>2, <1>3, <2>3, StripesDisjoint
  <2>. QED  BY <2>1, <2>2, <2>3, SMT
<1>. QED  BY <1>1, <1>3

\* minOfArray's split never underflows the unsigned subtraction at
\* slow_kernel_elements, leaves min_seq fewer elements than one stride of
\* the work-groups, and min_par's stripes reach every element before
\* slow_kernel_data_offset: min_par and min_seq together read all n.
THEOREM MinSplitCovers ==
    ASSUME NEW n \in Nat, NEW L \in Nat \ {0}
    PROVE  /\ SlowOffsetOf(n, L) \in 0..n
           /\ n - SlowOffsetOf(n, L) < P * L
           /\ \A i \in 0..(SlowOffsetOf(n, L) - 1) :
                 \E g \in 0..(P - 1) : i \in Stripe(g, n \div (P * L), L, n)
<1>1. P * L \in Nat \ {0}
  BY SMT
<1>2. PICK q \in Nat : /\ q = n \div (P * L)
                       /\ q * (P * L) <= n
                       /\ n < (q + 1) * (P * L)
  BY <1>1, Quotient
<1>3. SlowOffsetOf(n, L) = q * (P * L)
  BY <1>2, SMT DEF SlowOffsetOf
<1>4. ASSUME NEW i \in 0..(SlowOffsetOf(n, L) - 1)
      PROVE  \E g \in 0..(P - 1) : i \in Stripe(g, q, L, n)
  <2>1. q # 0
    BY <1>2, <1>3, SMT
  <2>2. i \in 0..(n - 1) /\ i < P * (L * q)
    BY <1>2, <1>3, SMT
  <2>. QED  BY <1>2, <2>1, <2>2, StripeOfIndex
<1>. QED  BY <1>2, <1>3, <1>4, SMT

=============================================================================
