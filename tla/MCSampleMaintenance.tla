------------------------ MODULE MCSampleMaintenance ------------------------
(***************************************************************************)
(* Instantiates SampleMaintenance for TLC with the bitmaps floydSampling   *)
(* really returns: the cfg substitutes FloydOutcomes of RandomSelection    *)
(* for FloydSets.  The uniformity of those draws is stated here, beside    *)
(* the recursive tables it is checked against.                             *)
(***************************************************************************)
EXTENDS SampleMaintenance, RandomSelection

\* floydSampling's result counts for each number of slots, computed once.
FloydCount == [k \in 0..N |-> FloydRuns(N, k)]

\* Floyd's algorithm draws its slots uniformly without replacement (spec,
\* CAR): whenever a call has just replaced k slots, floydSampling(N, k)
\* returns exactly the k-subsets of the slots, that set among them, each one
\* from exactly k! of its draw sequences.
FloydUniform ==
    LET k == Cardinality(replaced) IN
    pc = "idle" =>
        /\ FloydCount[k] = UniformSubsets(N, k)
        /\ {i + 1 : i \in replaced} \in DOMAIN FloydCount[k]

=============================================================================
