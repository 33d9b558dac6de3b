-------------------------- MODULE RandomSelection --------------------------
(***************************************************************************)
(* floydSampling, the random draw of the CAR slots                       *)
(* (ocl_sample_maintenance.c), as pure operators.                          *)
(*                                                                         *)
(* floydSampling(map, n, m) sets m bits of a zeroed bitmap: for j from     *)
(* n-m+1 to n it draws t = random() % j + 1 and sets bit t-1, or bit j-1   *)
(* when bit t-1 is already set. A bitmap is the set of its 1-based indices. *)
(***************************************************************************)
EXTENDS Integers, FiniteSets, FiniteSetsExt, Combinatorics

\* Mutant: the collision branch dropped, so a repeated draw sets no new bit.
FloydPickNoCollision(map, j, t) == map \cup {t}

\* One iteration of floydSampling's loop.
FloydPick(map, j, t) == IF t \in map THEN map \cup {j} ELSE map \cup {t}

\* For every bitmap floydSampling(n, m) can return, the number of sequences of
\* draws t (one per iteration, t \in 1..j) that produce it.
FloydRuns(n, m) ==
    LET start == n - m + 1
        runs[j \in (start - 1)..n] ==
            IF j = start - 1 THEN [S \in {{}} |-> 1]
            ELSE LET prev  == runs[j - 1]
                     steps == (DOMAIN prev) \X (1..j)
                     out   == {FloydPick(st[1], j, st[2]) : st \in steps}
                 IN [S \in out |->
                       MapThenSumSet(LAMBDA st : prev[st[1]],
                                     {st \in steps : FloydPick(st[1], j, st[2]) = S})]
    IN runs[n]

\* The bitmaps floydSampling(n, m) can return.
FloydOutcomes(n, m) == DOMAIN FloydRuns(n, m)

\* The reference: m distinct indices of 1..n, each set of them equally likely.
UniformSubsets(n, m) == [S \in kSubset(m, 1..n) |-> factorial[m]]

=============================================================================
