---------------------------- MODULE KernelCache ----------------------------
(***************************************************************************)
(* OpenCL programs and kernels across the life of the global context.     *)
(* ocl_getKernel (ocl_utilities.c) builds one program per build-parameter *)
(* string "[-DLOG_BANDWIDTH ]-DD=<dims>" and keeps it in the context's    *)
(* program_registry, a Dictionary; ocl_releaseContext walks the registry, *)
(* releases every program and frees it.  Several call sites keep the      *)
(* kernel they fetched in a file-level static (ocl_adaptive_bandwidth.c,  *)
(* the min kernels of ocl_utilities.c) and fetch only while it is NULL.   *)
(* The assign hooks of ocl_use_gpu, kde_samplesize and kde_enable release *)
(* the context when the value changes; the next ocl_getContext builds a   *)
(* new one.  A program is named by the context it was built in and its    *)
(* build parameters; a kernel by its program.                              *)
(***************************************************************************)
EXTENDS Naturals, Sequences, FiniteSets

CONSTANTS
    Dims,               \* estimator->nr_of_dimensions of the session's tables
    Representation,     \* kde_bandwidth_representation
    StaticKernels,      \* the call sites that cache their kernel in a static
    DimensionalKernels, \* those that fetch it for the estimator's dimensions
    TableSize,          \* the registry's hash_table_size
    Hash,               \* MurmurHash2 of the build-parameter string
    MaxContexts,        \* bound: contexts created in one behaviour
    NULL

\* The build_params strings ocl_getKernel formats: 0 for the kernels that
\* do not depend on the dimensionality.
BuildParams == {<<Representation, d>> : d \in {0} \cup Dims}

Contexts == 1..MaxContexts

Programs == [ctx : Contexts, params : BuildParams]

\* A saturating count of calls, enough to tell once from twice.
MaxCount == 2

VARIABLES
    context,    \* ocl_context: 0 for NULL, else the number of the context
    created,    \* the contexts created so far
    registry,   \* ocl_context->program_registry
    statics,    \* the file-level kernel statics: the program of their kernel
    compiled,   \* history: clBuildProgram calls that succeeded, per program
    releases,   \* history: clReleaseProgram calls, per program
    fetched,    \* the latest ocl_getKernel: what was asked and what came back
    used        \* the latest kernel enqueued from a static

Registry == INSTANCE Dictionary WITH
    Key <- BuildParams, Payload <- Programs,
    table <- registry, live <- context # 0, last <- NULL, result <- NULL

ASSUME KernelCacheAssumption ==
    /\ Dims \subseteq Nat \ {0}
    /\ IsFiniteSet(Dims)
    /\ DimensionalKernels \subseteq StaticKernels
    /\ MaxContexts \in Nat \ {0}
    /\ Registry!HashAssumption

vars == <<context, created, registry, statics, compiled, releases, fetched, used>>

Bump(f, p) == [f EXCEPT ![p] = IF @ < MaxCount THEN @ + 1 ELSE @]

(***************************************************************************)
(* ocl_releaseContext's loop: the programs dictionary_iterator_init and    *)
(* dictionary_iterator_next visit until dictionary_iterator_key is NULL.   *)
(* A table holds at most one entry per build parameter, so the loop body   *)
(* runs at most Cardinality(BuildParams) times; the walk is followed one   *)
(* step further to see it end.                                             *)
(***************************************************************************)
Walk(t) ==
    LET pos[i \in 0..Cardinality(BuildParams)] ==
            IF i = 0 THEN Registry!IteratorInit(t)
            ELSE Registry!IteratorNext(t, pos[i - 1])
    IN  pos

\* The steps of the loop that run: those before the first NULL key.
Visits(t) ==
    LET w == Walk(t) IN
    {i \in 0..Cardinality(BuildParams) :
        \A j \in 0..i : Registry!IteratorKey(t, w[j]) # NULL}

\* clReleaseProgram once per visit.
ReleaseCounts(t, r) ==
    LET w == Walk(t) IN
    [p \in Programs |->
        LET n == r[p] + Cardinality({i \in Visits(t) : Registry!IteratorValue(t, w[i]) = p})
        IN  IF n < MaxCount THEN n ELSE MaxCount]

(***************************************************************************)
(* ocl_getContext: a NULL context is initialised first (ocl_initialize,    *)
(* with a fresh dictionary_init registry).  `c` is the context after it.   *)
(***************************************************************************)
ContextReady ==
    context # 0 \/ created < MaxContexts

\* Mutant: the new context takes the number of the last one.
ContextAfterReused == IF context # 0 THEN context ELSE created

ContextAfter == IF context # 0 THEN context ELSE created + 1

RegistryAfter == IF context # 0 THEN registry ELSE Registry!NewTable

(***************************************************************************)
(* ocl_getKernel(name, d) within context c on registry t: dictionary_get   *)
(* the program for the build parameters; if it is missing, buildProgram   *)
(* compiles it and, when clBuildProgram succeeds, dictionary_insert's it;  *)
(* when it fails the call returns NULL.  The result records the registry   *)
(* after the call, the program of the kernel (or NULL), and whether a     *)
(* build succeeded.                                                        *)
(***************************************************************************)
GetKernelIn(c, t, d, ok) ==
    LET key == <<Representation, d>>
        hit == Registry!GetIn(t, key)
        new == [ctx |-> c, params |-> key]
    IN  IF hit # NULL THEN [table |-> t, kernel |-> hit, built |-> NULL]
        ELSE IF ok
        THEN [table |-> Registry!InsertIn(t, key, new).table, kernel |-> new,
              built |-> new]
        ELSE [table |-> t, kernel |-> NULL, built |-> NULL]

Compiled(b) == IF b = NULL THEN compiled ELSE Bump(compiled, b)

(* A call site that fetches its kernel on every call: ocl_allocateEstimator *)
(* (the KDE kernel), the sample and model maintenance descriptors, and     *)
(* prepareSumDescriptor.                                                   *)
GetKernel(d) ==
    /\ ContextReady
    /\ \E ok \in BOOLEAN :
         LET r == GetKernelIn(ContextAfter, RegistryAfter, d, ok) IN
         /\ context' = ContextAfter
         /\ created' = IF context # 0 THEN created ELSE created + 1
         /\ registry' = r.table
         /\ compiled' = Compiled(r.built)
         /\ fetched' = [want |-> [ctx |-> ContextAfter, params |-> <<Representation, d>>],
                        kernel |-> r.kernel]
    /\ UNCHANGED <<statics, releases, used>>

(* A call site with a static kernel, for an estimator of d dimensions:     *)
(* ocl_getContext, then `if (k == NULL) k = ocl_getKernel(name, dims)`     *)
(* with dims = d for computePartialGradient and 0 for the others, then    *)
(* clSetKernelArg and the enqueue of k.                                    *)
UseStatic(s, d) ==
    LET dims == IF s \in DimensionalKernels THEN d ELSE 0 IN
    /\ ContextReady
    /\ context' = ContextAfter
    /\ created' = IF context # 0 THEN created ELSE created + 1
    /\ \/ /\ statics[s] # NULL
          /\ registry' = RegistryAfter
          /\ UNCHANGED <<statics, compiled>>
       \/ /\ statics[s] = NULL
          /\ \E ok \in BOOLEAN :
               LET r == GetKernelIn(ContextAfter, RegistryAfter, dims, ok) IN
               /\ registry' = r.table
               /\ compiled' = Compiled(r.built)
               /\ statics' = [statics EXCEPT ![s] = r.kernel]
    /\ used' = [want |-> [ctx |-> ContextAfter, params |-> <<Representation, dims>>],
                kernel |-> statics'[s]]
    /\ UNCHANGED <<releases, fetched>>

(* assign_ocl_use_gpu, assign_kde_samplesize or assign_kde_enable with a   *)
(* new value: ocl_releaseRegistry, then ocl_releaseContext, which releases *)
(* each program the iterator visits and dictionary_release's the registry. *)
(* The statics are left as they are.                                       *)
ReleaseContext ==
    /\ context # 0
    /\ created < MaxContexts
    /\ releases' = ReleaseCounts(registry, releases)
    /\ registry' = Registry!NewTable
    /\ context' = 0
    /\ UNCHANGED <<created, statics, compiled, fetched, used>>

Init ==
    /\ context = 0
    /\ created = 0
    /\ registry = Registry!NewTable
    /\ statics = [s \in StaticKernels |-> NULL]
    /\ compiled = [p \in Programs |-> 0]
    /\ releases = [p \in Programs |-> 0]
    /\ fetched = NULL
    /\ used = NULL

Next ==
    \/ \E d \in Dims : GetKernel(d) \/ GetKernel(0)
    \/ \E s \in StaticKernels, d \in Dims : UseStatic(s, d)
    \/ ReleaseContext

Spec == Init /\ [][Next]_vars

-----------------------------------------------------------------------------
Request == [want : Programs, kernel : Programs \cup {NULL}]

TypeOK ==
    /\ context \in {0} \cup Contexts
    /\ created \in 0..MaxContexts
    /\ registry \in [Registry!Buckets -> Seq(Registry!Entry)]
    /\ statics \in [StaticKernels -> Programs \cup {NULL}]
    /\ compiled \in [Programs -> 0..MaxCount]
    /\ releases \in [Programs -> 0..MaxCount]
    /\ fetched \in Request \cup {NULL}
    /\ used \in Request \cup {NULL}

\* The context a program was built in has been released.
Dead(p) == p.ctx < created \/ (p.ctx = created /\ context = 0)

(* ocl_getKernel hands out a kernel of the live context, built for the     *)
(* dimensions and bandwidth representation it was asked for: the registry  *)
(* lookup finds the program under its own build parameters whatever the   *)
(* hash collisions, and a new registry never returns an old program.       *)
FetchedKernelMatchesRequest ==
    (fetched # NULL /\ fetched.kernel # NULL) => fetched.kernel = fetched.want

(* A context compiles the kernels for each build-parameter string at most  *)
(* once: once buildProgram has inserted a program, every later lookup of   *)
(* the same parameters in that context finds it.                           *)
CompiledOncePerContext ==
    \A p \in Programs : compiled[p] <= 1

(* When a context is released, ocl_releaseContext's walk of the registry   *)
(* releases every program built in it exactly once: no bucket list is cut *)
(* short, no entry is visited twice, and no program is left over.          *)
ProgramsReleasedOnce ==
    \A p \in Programs : Dead(p) => releases[p] = compiled[p]

(* Spec 5: a kernel runs in the context whose queue it is enqueued on, and *)
(* with the dimensionality it was built for.  A kernel taken from a static *)
(* belongs to the live context and was built for the parameters this call *)
(* would ask ocl_getKernel for.                                             *)
CachedKernelMatchesUse ==
    (used # NULL /\ used.kernel # NULL) => used.kernel = used.want

=============================================================================
