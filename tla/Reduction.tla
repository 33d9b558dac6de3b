----------------------------- MODULE Reduction -----------------------------
(***************************************************************************)
(* One call of the reduction primitives of ocl_utilities.c on an out-of-   *)
(* order queue: prepareSumDescriptor with predefinedSumOfArray (sum_par,   *)
(* then sum_seq) and minOfArray (init, min_par, min_seq, then              *)
(* min_seq_last_pass). The host's partition arithmetic and the wait-lists  *)
(* are the code's; the kernels are not in the repository and do what spec  *)
(* 4.1 says: each work-group reduces its stripe into its partial slot, the *)
(* sequential kernel the elements past the stripes, and the last pass      *)
(* combines the slots and keeps the index of the minimal one.              *)
(***************************************************************************)
EXTENDS ReductionPartition, FiniteSets, FiniteSetsExt

CONSTANTS
    MaxN,       \* bound: the largest array reduced
    Values      \* the element values

ASSUME ReductionAssumption ==
    /\ MaxN \in Nat \ {0}
    /\ Values \subseteq Nat /\ Values # {}

\* +INFINITY, larger than every element.
Inf == Max(Values) + 1
\* What an uninitialised cl_mem slot holds.
Garbage == -1

\* The partial kernels minOfArray enqueues: min_par if tuples_per_thread > 0,
\* min_seq if slow_kernel_elements > 0.
Partials(n) ==
    {k \in {"min_par", "min_seq"} :
        IF k = "min_par" THEN MinTuplesPerThread(n) > 0 ELSE SlowElements(n) > 0}

\* Mutant: the last pass waits only for the first event of events[].
LastWaitListFirstOnly(n) ==
    IF MinTuplesPerThread(n) > 0 THEN {"min_par"} ELSE Partials(n)

\* events[0..nr_of_events-1], which min_seq_last_pass waits for.
LastWaitList(n) == Partials(n)

\* The commands of one call, each with the events it waits for.
Commands(op, n) ==
    IF op = "sum"
    THEN [c \in {"sum_par", "sum_seq"} |-> IF c = "sum_par" THEN {} ELSE {"sum_par"}]
    ELSE [c \in {"init"} \cup Partials(n) \cup {"min_seq_last_pass"} |->
            IF c = "init" THEN {}
            ELSE IF c = "min_seq_last_pass" THEN LastWaitList(n)
            ELSE {"init"}]

SumOver(a, I) == MapThenSumSet(LAMBDA i : a[i], I)

\* The indices of I where f is minimal.
ArgMins(f, I) == {i \in I : \A k \in I : f[i] <= f[k]}

-----------------------------------------------------------------------------
VARIABLES
    op,         \* "sum" or "min"
    n,          \* elements
    a,          \* input_buffer
    done,       \* the commands that have completed
    partial,    \* intermediate_result_buffer, or tmp_buffer_min
    index,      \* tmp_buffer_index
    result,     \* result_buffer at the offset, or result_min
    result_idx  \* result_index

vars == <<op, n, a, done, partial, index, result, result_idx>>

Init ==
    /\ op \in {"sum", "min"}
    /\ n \in 1..MaxN
    /\ a \in [0..(n - 1) -> Values]
    /\ done = {}
    /\ partial = [s \in 0..P |-> Garbage]
    /\ index = [s \in 0..P |-> Garbage]
    /\ result = Garbage
    /\ result_idx = Garbage

\* Command c may run: it was enqueued, has not run, and its wait-list is done.
Ready(c) ==
    /\ c \in DOMAIN Commands(op, n)
    /\ c \notin done
    /\ Commands(op, n)[c] \subseteq done

\* sum_par: work-group g adds up its stripe into slot g.
SumPar ==
    LET tpt == SumTuplesPerThread(n) IN
    /\ Ready("sum_par")
    /\ partial' = [s \in 0..P |->
                     IF s < P THEN SumOver(a, Stripe(s, tpt, SumLocal, n)) ELSE partial[s]]
    /\ done' = done \cup {"sum_par"}
    /\ UNCHANGED <<op, n, a, index, result, result_idx>>

\* sum_seq: one worker adds the P partial slots into the result.
SumSeq ==
    /\ Ready("sum_seq")
    /\ result' = SumOver(partial, 0..(P - 1))
    /\ done' = done \cup {"sum_seq"}
    /\ UNCHANGED <<op, n, a, partial, index, result_idx>>

\* init: tmp_buffer_min[0..processors] = +INFINITY (the indices stay as they are).
MinInit ==
    /\ Ready("init")
    /\ partial' = [s \in 0..P |-> Inf]
    /\ done' = done \cup {"init"}
    /\ UNCHANGED <<op, n, a, index, result, result_idx>>

\* min_par: work-group g writes the minimum of its stripe and where it is.
MinPar ==
    LET tpt == MinTuplesPerThread(n) IN
    /\ Ready("min_par")
    /\ \E pick \in [0..(P - 1) -> 0..(n - 1)] :
         /\ \A g \in 0..(P - 1) : pick[g] \in ArgMins(a, Stripe(g, tpt, MinLocal, n))
         /\ partial' = [s \in 0..P |-> IF s < P THEN a[pick[s]] ELSE partial[s]]
         /\ index' = [s \in 0..P |-> IF s < P THEN pick[s] ELSE index[s]]
    /\ done' = done \cup {"min_par"}
    /\ UNCHANGED <<op, n, a, result, result_idx>>

\* min_seq: one worker scans the slow_kernel_elements from the offset and
\* writes into slot slow_kernel_result_offset.
MinSeq ==
    LET I == SlowOffset(n)..(SlowOffset(n) + SlowElements(n) - 1)
        slot == SlowResultOffset IN
    /\ Ready("min_seq")
    /\ \E i \in ArgMins(a, I) :
         /\ partial' = [s \in DOMAIN partial \cup {slot} |-> IF s = slot THEN a[i] ELSE partial[s]]
         /\ index' = [s \in DOMAIN index \cup {slot} |-> IF s = slot THEN i ELSE index[s]]
    /\ done' = done \cup {"min_seq"}
    /\ UNCHANGED <<op, n, a, result, result_idx>>

\* min_seq_last_pass over the processors + 1 slots: the minimal value and the
\* index stored with a slot that holds it.
MinLastPass ==
    /\ Ready("min_seq_last_pass")
    /\ \E s \in ArgMins(partial, 0..P) :
         /\ result' = partial[s]
         /\ result_idx' = index[s]
    /\ done' = done \cup {"min_seq_last_pass"}
    /\ UNCHANGED <<op, n, a, partial, index>>

Next == SumPar \/ SumSeq \/ MinInit \/ MinPar \/ MinSeq \/ MinLastPass

Spec == Init /\ [][Next]_vars

-----------------------------------------------------------------------------
\* The type invariant: every write stays within the processors + 1 slots of
\* the temporary buffers, and each stored index is an element of the input.
TypeOK ==
    /\ op \in {"sum", "min"}
    /\ n \in 1..MaxN
    /\ done \subseteq DOMAIN Commands(op, n)
    /\ partial \in [0..P -> Int]
    /\ index \in [0..P -> {Garbage} \cup 0..(MaxN - 1)]

\* sum(buffer, n) (spec 4.1): once the finishing pass has run, the result is
\* the sum of all n elements, for every n, however n falls on the stripes.
SumMatchesReference ==
    "sum_seq" \in done => result = SumOver(a, 0..(n - 1))

\* min(buffer, n) -> (value, index) (spec 4.1): once the last pass has run,
\* it holds the minimum of the n elements and an index where it occurs,
\* whatever order the out-of-order queue ran the partial kernels in.
MinMatchesReference ==
    "min_seq_last_pass" \in done =>
        /\ result = Min({a[i] : i \in 0..(n - 1)})
        /\ result_idx \in 0..(n - 1)
        /\ a[result_idx] = result

=============================================================================
