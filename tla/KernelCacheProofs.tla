-------------------------- MODULE KernelCacheProofs --------------------------
(***************************************************************************)
(* The kernel cache hands out the kernel it was asked for and compiles     *)
(* each program at most once, for every number of dimensionalities,       *)
(* contexts, buckets and every hash of the build-parameter strings.  The  *)
(* argument: the live context's registry maps each build-parameter string *)
(* to the program of that context and string exactly when that program    *)
(* has been built, and to NULL otherwise; a released context leaves an    *)
(* empty registry behind, and a new context's programs have never been    *)
(* built.  The registry lookups rest on DictionaryProofs.                 *)
(***************************************************************************)
EXTENDS KernelCache, FiniteSetTheorems, TLAPS

RP == INSTANCE DictionaryProofs WITH
    Key <- BuildParams, Payload <- Programs,
    table <- registry, live <- context # 0, last <- NULL, result <- NULL

(* The program of context c for build parameters x.                        *)
Prog(c, x) == [ctx |-> c, params |-> x]

(* Registry t of context c holds, for each build-parameter string, the     *)
(* program of c when it has been built according to comp, and nothing     *)
(* otherwise.                                                              *)
OwnedBy(t, c, comp) ==
    \A x \in BuildParams :
        RP!GetIn(t, x) = IF comp[Prog(c, x)] >= 1 THEN Prog(c, x) ELSE NULL

(* What the registry and the build counts satisfy in every state.          *)
CoreInv ==
    /\ context \in {0} \cup Contexts
    /\ created \in 0..MaxContexts
    /\ registry \in RP!Tables
    /\ compiled \in [Programs -> 0..MaxCount]
    /\ context = 0 \/ context = created
    /\ \A p \in Programs : p.ctx > created => compiled[p] = 0
    /\ RP!WH(registry)
    /\ context = 0 => \A x \in BuildParams : RP!GetIn(registry, x) = NULL
    /\ context # 0 => OwnedBy(registry, context, compiled)
    /\ CompiledOncePerContext

(* The inductive invariant.                                                *)
CacheInv ==
    /\ CoreInv
    /\ fetched \in Request \cup {NULL}
    /\ FetchedKernelMatchesRequest

-----------------------------------------------------------------------------
(* The registry operators of KernelCache are those DictionaryProofs        *)
(* reasons about.                                                          *)
LEMMA SameRegistry ==
  /\ \A t, x : Registry!GetIn(t, x) = RP!GetIn(t, x)
  /\ \A t, k, p : Registry!InsertIn(t, k, p) = RP!InsertIn(t, k, p)
  /\ Registry!NewTable = RP!NewTable
BY DEF Registry!GetIn, RP!GetIn, Registry!InsertIn, RP!InsertIn,
       Registry!NewTable, RP!NewTable, Registry!Match, RP!Match,
       Registry!Buckets, RP!Buckets

LEMMA HashOK == RP!HashAssumption
BY KernelCacheAssumption
   DEF Registry!HashAssumption, RP!HashAssumption, Registry!Buckets, RP!Buckets

LEMMA ProgType ==
  ASSUME NEW c \in Contexts, NEW x \in BuildParams
  PROVE  /\ Prog(c, x) \in Programs
         /\ Prog(c, x).ctx = c /\ Prog(c, x).params = x
BY DEF Prog, Programs

LEMMA KeyType ==
  ASSUME NEW d \in {0} \cup Dims
  PROVE  <<Representation, d>> \in BuildParams
BY DEF BuildParams

(* ocl_getKernel within context c on a registry owned by c: a hit returns  *)
(* c's program for the build parameters; a miss builds it (it had not     *)
(* been built) and inserts it, or fails and changes nothing.               *)
LEMMA GetKernelInOwned ==
  ASSUME NEW c \in Contexts, NEW t \in RP!Tables, RP!WH(t),
         NEW comp \in [Programs -> 0..MaxCount], OwnedBy(t, c, comp),
         NEW d \in {0} \cup Dims, NEW ok \in BOOLEAN
  PROVE  /\ GetKernelIn(c, t, d, ok).table \in RP!Tables
         /\ RP!WH(GetKernelIn(c, t, d, ok).table)
         /\ GetKernelIn(c, t, d, ok).built \in {NULL, Prog(c, <<Representation, d>>)}
         /\ GetKernelIn(c, t, d, ok).built # NULL =>
               comp[GetKernelIn(c, t, d, ok).built] = 0
         /\ OwnedBy(GetKernelIn(c, t, d, ok).table, c,
                    IF GetKernelIn(c, t, d, ok).built = NULL THEN comp
                    ELSE Bump(comp, GetKernelIn(c, t, d, ok).built))
         /\ GetKernelIn(c, t, d, ok).kernel \in {NULL, Prog(c, <<Representation, d>>)}
<1>1. PICK key \in BuildParams : key = <<Representation, d>>
  BY KeyType
<1>2. PICK new \in Programs : new = Prog(c, key)
  BY ProgType
<1>3. /\ new.ctx = c /\ new.params = key
      /\ new # NULL
  BY <1>2, ProgType, HashOK DEF RP!HashAssumption
<1>4. Registry!GetIn(t, key) = IF comp[new] >= 1 THEN new ELSE NULL
  BY <1>2, SameRegistry DEF OwnedBy
<1>5. GetKernelIn(c, t, d, ok) =
        IF Registry!GetIn(t, key) # NULL
        THEN [table |-> t, kernel |-> Registry!GetIn(t, key), built |-> NULL]
        ELSE IF ok
        THEN [table |-> Registry!InsertIn(t, key, new).table, kernel |-> new,
              built |-> new]
        ELSE [table |-> t, kernel |-> NULL, built |-> NULL]
  BY <1>1, <1>2 DEF GetKernelIn, Prog
<1>6. CASE comp[new] >= 1
  BY <1>3, <1>4, <1>5, <1>6, <1>1, <1>2
<1>7. CASE comp[new] = 0 /\ ~ok
  BY <1>4, <1>5, <1>7, <1>1, <1>2
<1>8. CASE comp[new] = 0 /\ ok
  <2>1. GetKernelIn(c, t, d, ok) =
          [table |-> RP!InsertIn(t, key, new).table, kernel |-> new, built |-> new]
    BY <1>4, <1>5, <1>8, SameRegistry
  <2>2. /\ RP!InsertIn(t, key, new).table \in RP!Tables
        /\ RP!WH(RP!InsertIn(t, key, new).table)
    BY HashOK, RP!InsertLemma
  <2>3. ASSUME NEW x \in BuildParams
        PROVE  RP!GetIn(RP!InsertIn(t, key, new).table, x)
                 = IF Bump(comp, new)[Prog(c, x)] >= 1 THEN Prog(c, x) ELSE NULL
    <3>1. RP!GetIn(RP!InsertIn(t, key, new).table, x)
            = IF x = key THEN new ELSE RP!GetIn(t, x)
      BY HashOK, RP!InsertGetIn
    <3>2. CASE x = key
      <4>1. Bump(comp, new)[new] = 1
        BY <1>8 DEF Bump, MaxCount
      <4>. QED
        BY <1>2, <3>1, <3>2, <4>1
    <3>3. CASE x # key
      <4>1. Prog(c, x) # new /\ Prog(c, x) \in Programs
        BY <1>3, <3>3, ProgType
      <4>2. Bump(comp, new)[Prog(c, x)] = comp[Prog(c, x)]
        BY <4>1 DEF Bump
      <4>. QED
        BY <3>1, <3>3, <4>2 DEF OwnedBy
    <3>. QED
      BY <3>2, <3>3
  <2>4. OwnedBy(RP!InsertIn(t, key, new).table, c, Bump(comp, new))
    BY <2>3 DEF OwnedBy
  <2>5. /\ GetKernelIn(c, t, d, ok).table = RP!InsertIn(t, key, new).table
        /\ GetKernelIn(c, t, d, ok).built = new
        /\ GetKernelIn(c, t, d, ok).kernel = new
    BY <2>1
  <2>6. new = Prog(c, <<Representation, d>>)
    BY <1>1, <1>2
  <2>. QED
    BY <1>3, <1>8, <2>2, <2>4, <2>5, <2>6, Zenon
<1>. QED
  BY <1>2, <1>6, <1>7, <1>8 DEF MaxCount

(* A saturating count stays in range, and counts a first call as one.      *)
LEMMA BumpProps ==
  ASSUME NEW comp \in [Programs -> 0..MaxCount], NEW p \in Programs
  PROVE  /\ Bump(comp, p) \in [Programs -> 0..MaxCount]
         /\ comp[p] = 0 => Bump(comp, p)[p] = 1
         /\ \A q \in Programs : q # p => Bump(comp, p)[q] = comp[q]
BY DEF Bump, MaxCount

(* ocl_getContext: the context after it is the newest one, and its         *)
(* registry is owned by it; no program of a later context has been built.  *)
LEMMA ContextAfterOwned ==
  ASSUME CoreInv, ContextReady
  PROVE  /\ ContextAfter \in Contexts
         /\ ContextAfter = IF context # 0 THEN created ELSE created + 1
         /\ created <= ContextAfter
         /\ RegistryAfter \in RP!Tables
         /\ RP!WH(RegistryAfter)
         /\ OwnedBy(RegistryAfter, ContextAfter, compiled)
<1>1. CASE context # 0
  BY <1>1 DEF CacheInv, CoreInv, ContextAfter, RegistryAfter, Contexts
<1>2. CASE context = 0
  <2>1. /\ ContextAfter = created + 1
        /\ ContextAfter \in Contexts
        /\ RegistryAfter = RP!NewTable
    BY <1>2, SameRegistry, KernelCacheAssumption
       DEF CacheInv, CoreInv, ContextReady, ContextAfter, RegistryAfter, Contexts
  <2>2. /\ RP!NewTable \in RP!Tables
        /\ RP!WH(RP!NewTable)
    BY HashOK, RP!NewTableProps
  <2>3. ASSUME NEW x \in BuildParams
        PROVE  RP!GetIn(RP!NewTable, x) = NULL
               /\ compiled[Prog(ContextAfter, x)] = 0
    <3>1. Prog(ContextAfter, x) \in Programs /\ Prog(ContextAfter, x).ctx > created
      BY <2>1, ProgType DEF CacheInv, CoreInv
    <3>. QED
      BY <3>1, HashOK, RP!NewTableGetIn DEF CacheInv, CoreInv
  <2>. QED
    BY <1>2, <2>1, <2>2, <2>3 DEF OwnedBy, CacheInv, CoreInv
<1>. QED
  BY <1>1, <1>2

LEMMA InitCacheInv == Init => CacheInv
<1>. SUFFICES ASSUME Init PROVE CacheInv
  OBVIOUS
<1>1. /\ RP!NewTable \in RP!Tables
      /\ RP!WH(RP!NewTable)
      /\ \A x \in BuildParams : RP!GetIn(RP!NewTable, x) = NULL
  BY HashOK, RP!NewTableProps, RP!NewTableGetIn
<1>2. registry = RP!NewTable
  BY SameRegistry DEF Init
<1>. QED
  BY <1>1, <1>2, KernelCacheAssumption
     DEF Init, CacheInv, CoreInv, MaxCount, CompiledOncePerContext, FetchedKernelMatchesRequest

(* A call of ocl_getKernel after ocl_getContext keeps the registry owned   *)
(* by the live context and builds each program at most once; the kernel   *)
(* it returns is NULL or the program it was asked for.                     *)
LEMMA FetchCore ==
  ASSUME CoreInv, ContextReady, NEW d \in {0} \cup Dims, NEW ok \in BOOLEAN,
         context' = ContextAfter,
         created' = IF context # 0 THEN created ELSE created + 1,
         registry' = GetKernelIn(ContextAfter, RegistryAfter, d, ok).table,
         compiled' = Compiled(GetKernelIn(ContextAfter, RegistryAfter, d, ok).built)
  PROVE  /\ CoreInv'
         /\ GetKernelIn(ContextAfter, RegistryAfter, d, ok).kernel
              \in {NULL, Prog(ContextAfter, <<Representation, d>>)}
         /\ Prog(ContextAfter, <<Representation, d>>) \in Programs
<1>1. /\ ContextAfter \in Contexts
      /\ ContextAfter = IF context # 0 THEN created ELSE created + 1
      /\ created <= ContextAfter
      /\ RegistryAfter \in RP!Tables
      /\ RP!WH(RegistryAfter)
      /\ OwnedBy(RegistryAfter, ContextAfter, compiled)
  BY ContextAfterOwned
<1>2. PICK r : r = GetKernelIn(ContextAfter, RegistryAfter, d, ok)
  OBVIOUS
<1>3. compiled \in [Programs -> 0..MaxCount]
  BY DEF CoreInv
<1>4. /\ r.table \in RP!Tables
      /\ RP!WH(r.table)
      /\ r.built \in {NULL, Prog(ContextAfter, <<Representation, d>>)}
      /\ r.built # NULL => compiled[r.built] = 0
      /\ OwnedBy(r.table, ContextAfter,
                 IF r.built = NULL THEN compiled ELSE Bump(compiled, r.built))
      /\ r.kernel \in {NULL, Prog(ContextAfter, <<Representation, d>>)}
  BY <1>1, <1>2, <1>3, GetKernelInOwned
<1>5. /\ Prog(ContextAfter, <<Representation, d>>) \in Programs
      /\ Prog(ContextAfter, <<Representation, d>>).ctx = ContextAfter
  BY <1>1, ProgType, KeyType
<1>6. compiled' = IF r.built = NULL THEN compiled ELSE Bump(compiled, r.built)
  BY <1>2 DEF Compiled
<1>7. compiled' \in [Programs -> 0..MaxCount]
  BY <1>3, <1>4, <1>5, <1>6, BumpProps
<1>8. CompiledOncePerContext'
  <2>1. CASE r.built = NULL
    BY <1>6, <2>1 DEF CoreInv, CompiledOncePerContext
  <2>2. CASE r.built # NULL
    <3>1. r.built \in Programs /\ compiled[r.built] = 0
      BY <1>4, <1>5, <2>2
    <3>2. /\ Bump(compiled, r.built)[r.built] = 1
          /\ \A q \in Programs : q # r.built => Bump(compiled, r.built)[q] = compiled[q]
      BY <1>3, <3>1, BumpProps
    <3>. QED
      BY <1>6, <2>2, <3>2 DEF CoreInv, CompiledOncePerContext
  <2>. QED
    BY <2>1, <2>2
<1>9. \A p \in Programs : p.ctx > created' => compiled'[p] = 0
  <2>. SUFFICES ASSUME NEW p \in Programs, p.ctx > created' PROVE compiled'[p] = 0
    OBVIOUS
  <2>1. p # r.built /\ compiled[p] = 0
    <3>1. p.ctx > ContextAfter /\ p.ctx > created
      BY <1>1 DEF CoreInv, Contexts, Programs
    <3>2. p # r.built
      <4>1. NULL \notin Programs
        BY HashOK DEF RP!HashAssumption
      <4>2. CASE r.built = NULL
        BY <4>1, <4>2
      <4>3. CASE r.built = Prog(ContextAfter, <<Representation, d>>)
        BY <1>1, <1>5, <3>1, <4>3 DEF Contexts
      <4>4. r.built = NULL \/ r.built = Prog(ContextAfter, <<Representation, d>>)
        BY <1>4
      <4>. QED
        BY <4>2, <4>3, <4>4
    <3>3. compiled[p] = 0
      BY <3>1 DEF CoreInv
    <3>. QED
      BY <3>2, <3>3
  <2>2. CASE r.built = NULL
    BY <1>6, <2>1, <2>2
  <2>3. CASE r.built # NULL
    BY <1>3, <1>4, <1>5, <1>6, <2>1, <2>3, BumpProps
  <2>. QED
    BY <2>2, <2>3
<1>10. /\ context' \in {0} \cup Contexts
       /\ context' # 0
       /\ created' \in 0..MaxContexts
       /\ context' = created'
  BY <1>1 DEF Contexts
<1>11. /\ registry' \in RP!Tables
       /\ RP!WH(registry')
       /\ OwnedBy(registry', context', compiled')
  BY <1>2, <1>4, <1>6
<1>. QED
  BY <1>2, <1>4, <1>5, <1>7, <1>8, <1>9, <1>10, <1>11 DEF CoreInv

(* ocl_getKernel at a call site that fetches on every call: the request it *)
(* records is answered by NULL or by the program asked for.                *)
LEMMA GetKernelInv ==
  ASSUME CacheInv, NEW d \in {0} \cup Dims, GetKernel(d)
  PROVE  CacheInv'
<1>1. PICK ok \in BOOLEAN :
        LET r == GetKernelIn(ContextAfter, RegistryAfter, d, ok) IN
        /\ context' = ContextAfter
        /\ created' = IF context # 0 THEN created ELSE created + 1
        /\ registry' = r.table
        /\ compiled' = Compiled(r.built)
        /\ fetched' = [want |-> [ctx |-> ContextAfter, params |-> <<Representation, d>>],
                       kernel |-> r.kernel]
  BY DEF GetKernel
<1>2. PICK r : r = GetKernelIn(ContextAfter, RegistryAfter, d, ok)
  OBVIOUS
<1>3. /\ CoreInv'
      /\ r.kernel \in {NULL, Prog(ContextAfter, <<Representation, d>>)}
      /\ Prog(ContextAfter, <<Representation, d>>) \in Programs
  BY <1>1, <1>2, FetchCore DEF CacheInv, GetKernel
<1>4. fetched' = [want |-> Prog(ContextAfter, <<Representation, d>>), kernel |-> r.kernel]
  BY <1>1, <1>2 DEF Prog
<1>5. fetched' \in Request
  BY <1>3, <1>4 DEF Request
<1>6. FetchedKernelMatchesRequest'
  BY <1>3, <1>4 DEF FetchedKernelMatchesRequest
<1>. QED
  BY <1>3, <1>5, <1>6 DEF CacheInv

(* A call site with a static kernel: when the static is set the registry   *)
(* is only the one ocl_getContext leaves, and when it is NULL the call is  *)
(* an ocl_getKernel; the fetch of the other call sites is untouched.       *)
LEMMA UseStaticInv ==
  ASSUME CacheInv, NEW s \in StaticKernels, NEW d \in Dims, UseStatic(s, d)
  PROVE  CacheInv'
<1>. DEFINE dims == IF s \in DimensionalKernels THEN d ELSE 0
<1>1. /\ ContextReady
      /\ context' = ContextAfter
      /\ created' = IF context # 0 THEN created ELSE created + 1
      /\ fetched' = fetched
  BY DEF UseStatic
<1>2. dims \in {0} \cup Dims
  OBVIOUS
<1>3. CASE statics[s] # NULL
  <2>1. registry' = RegistryAfter /\ compiled' = compiled
    BY <1>3 DEF UseStatic
  <2>2. /\ ContextAfter \in Contexts
        /\ ContextAfter = created'
        /\ created <= created'
        /\ RegistryAfter \in RP!Tables
        /\ RP!WH(RegistryAfter)
        /\ OwnedBy(RegistryAfter, ContextAfter, compiled)
    BY <1>1, ContextAfterOwned DEF CacheInv
  <2>3. \A p \in Programs : p.ctx > created' => compiled'[p] = 0
    BY <2>1, <2>2 DEF CacheInv, CoreInv, Contexts, Programs
  <2>4. created' \in 0..MaxContexts
    BY <2>2 DEF Contexts
  <2>5. CoreInv'
    BY <1>1, <2>1, <2>2, <2>3, <2>4 DEF CacheInv, CoreInv, CompiledOncePerContext
  <2>. QED
    BY <1>1, <2>5 DEF CacheInv, FetchedKernelMatchesRequest
<1>4. CASE statics[s] = NULL
  <2>1. PICK ok \in BOOLEAN :
          /\ registry' = GetKernelIn(ContextAfter, RegistryAfter, dims, ok).table
          /\ compiled' = Compiled(GetKernelIn(ContextAfter, RegistryAfter, dims, ok).built)
    BY <1>4 DEF UseStatic
  <2>2. CoreInv'
    BY <1>1, <1>2, <2>1, FetchCore DEF CacheInv
  <2>. QED
    BY <1>1, <2>2 DEF CacheInv, FetchedKernelMatchesRequest
<1>. QED
  BY <1>3, <1>4

(* ocl_releaseContext leaves an empty registry and no live context; the    *)
(* build counts and the last fetch are untouched.                          *)
LEMMA ReleaseContextInv ==
  ASSUME CacheInv, ReleaseContext
  PROVE  CacheInv'
<1>1. /\ context' = 0
      /\ registry' = RP!NewTable
      /\ created' = created /\ compiled' = compiled /\ fetched' = fetched
  BY SameRegistry DEF ReleaseContext
<1>2. /\ RP!NewTable \in RP!Tables
      /\ RP!WH(RP!NewTable)
      /\ \A x \in BuildParams : RP!GetIn(RP!NewTable, x) = NULL
  BY HashOK, RP!NewTableProps, RP!NewTableGetIn
<1>3. CoreInv'
  BY <1>1, <1>2 DEF CacheInv, CoreInv, CompiledOncePerContext
<1>. QED
  BY <1>1, <1>3 DEF CacheInv, FetchedKernelMatchesRequest

LEMMA NextCacheInv == CacheInv /\ [Next]_vars => CacheInv'
<1>. SUFFICES ASSUME CacheInv, [Next]_vars PROVE CacheInv'
  OBVIOUS
<1>1. ASSUME NEW d \in Dims, GetKernel(d) \/ GetKernel(0) PROVE CacheInv'
  BY <1>1, GetKernelInv
<1>2. ASSUME NEW s \in StaticKernels, NEW d \in Dims, UseStatic(s, d) PROVE CacheInv'
  BY <1>2, UseStaticInv
<1>3. ASSUME ReleaseContext PROVE CacheInv'
  BY <1>3, ReleaseContextInv
<1>4. CASE UNCHANGED vars
  BY <1>4 DEF vars, CacheInv, CoreInv, OwnedBy, CompiledOncePerContext,
            FetchedKernelMatchesRequest
<1>. QED
  BY <1>1, <1>2, <1>3, <1>4 DEF Next

(* Every kernel ocl_getKernel hands out, to any call site that fetches on  *)
(* every call, is the program of the live context built for the requested *)
(* dimensions, for every number of contexts, buckets and every hash.       *)
THEOREM FetchedKernelCorrect == Spec => []FetchedKernelMatchesRequest
<1>1. CacheInv => FetchedKernelMatchesRequest
  BY DEF CacheInv
<1>. QED
  BY <1>1, InitCacheInv, NextCacheInv, PTL DEF Spec

(* No context ever compiles the program for one build-parameter string     *)
(* twice: buildProgram runs only when dictionary_get misses.               *)
THEOREM CompiledOnce == Spec => []CompiledOncePerContext
<1>1. CacheInv => CompiledOncePerContext
  BY DEF CacheInv, CoreInv
<1>. QED
  BY <1>1, InitCacheInv, NextCacheInv, PTL DEF Spec

-----------------------------------------------------------------------------
(* The types of the statics, the release counts and the kernels enqueued  *)
(* from a static.                                                          *)

LEMMA TablesSame == RP!Tables = [Registry!Buckets -> Seq(Registry!Entry)]
BY DEF RP!Tables, RP!Buckets, RP!Entry, Registry!Buckets, Registry!Entry

(* There are finitely many build-parameter strings: one per dimensionality *)
(* of the session's tables, and the one of the dimension-free kernels.     *)
LEMMA BuildParamsFinite == Cardinality(BuildParams) \in Nat
<1>1. IsFiniteSet({0} \cup Dims)
  BY KernelCacheAssumption, FS_Singleton, FS_Union
<1>2. PICK f : f = [d \in {0} \cup Dims |-> <<Representation, d>>]
  OBVIOUS
<1>3. f \in Surjection({0} \cup Dims, BuildParams)
  BY <1>2 DEF Surjection, BuildParams
<1>4. IsFiniteSet(BuildParams)
  BY <1>1, <1>3, FS_Surjection
<1>. QED
  BY <1>4, FS_CardinalityType

(* ocl_releaseContext's walk visits a finite number of steps, so each     *)
(* saturating release count stays in range whatever the walk meets.        *)
LEMMA ReleaseCountsType ==
  ASSUME NEW t, NEW r \in [Programs -> 0..MaxCount]
  PROVE  ReleaseCounts(t, r) \in [Programs -> 0..MaxCount]
<1>1. Cardinality(BuildParams) \in Nat
  BY BuildParamsFinite
<1>2. ASSUME NEW p \in Programs
      PROVE  ReleaseCounts(t, r)[p] \in 0..MaxCount
  <2>1. PICK S : S = {i \in Visits(t) : Registry!IteratorValue(t, Walk(t)[i]) = p}
    OBVIOUS
  <2>2. S \subseteq 0..Cardinality(BuildParams)
    BY <2>1 DEF Visits
  <2>3. IsFiniteSet(S)
    <3>1. IsFiniteSet(0..Cardinality(BuildParams))
      BY <1>1, FS_Interval
    <3>. QED
      BY <2>2, <3>1, FS_Subset
  <2>4. Cardinality(S) \in Nat
    BY <2>3, FS_CardinalityType
  <2>5. ReleaseCounts(t, r)[p] =
          IF r[p] + Cardinality(S) < MaxCount THEN r[p] + Cardinality(S) ELSE MaxCount
    BY <2>1 DEF ReleaseCounts
  <2>. QED
    BY <2>4, <2>5 DEF MaxCount
<1>. QED
  BY <1>2 DEF ReleaseCounts

(* The parts of TypeOK that CacheInv does not state.                       *)
StaticsType ==
    /\ statics \in [StaticKernels -> Programs \cup {NULL}]
    /\ releases \in [Programs -> 0..MaxCount]
    /\ used \in Request \cup {NULL}

LEMMA InitStaticsType == Init => StaticsType
BY DEF Init, StaticsType, MaxCount

LEMMA GetKernelStaticsType ==
  ASSUME StaticsType, NEW d \in {0} \cup Dims, GetKernel(d)
  PROVE  StaticsType'
BY DEF GetKernel, StaticsType

LEMMA UseStaticStaticsType ==
  ASSUME CacheInv, StaticsType, NEW s \in StaticKernels, NEW d \in Dims,
         UseStatic(s, d)
  PROVE  StaticsType'
<1>. DEFINE dims == IF s \in DimensionalKernels THEN d ELSE 0
<1>1. /\ ContextReady
      /\ context' = ContextAfter
      /\ created' = IF context # 0 THEN created ELSE created + 1
      /\ releases' = releases
      /\ used' = [want |-> [ctx |-> ContextAfter, params |-> <<Representation, dims>>],
                  kernel |-> statics'[s]]
  BY DEF UseStatic
<1>2. Prog(ContextAfter, <<Representation, dims>>) \in Programs
  <2>1. ContextAfter \in Contexts
    BY <1>1, ContextAfterOwned DEF CacheInv
  <2>2. <<Representation, dims>> \in BuildParams
    BY KeyType
  <2>. QED
    BY <2>1, <2>2, ProgType
<1>3. statics' \in [StaticKernels -> Programs \cup {NULL}]
  <2>1. CASE statics[s] # NULL
    BY <2>1 DEF UseStatic, StaticsType
  <2>2. CASE statics[s] = NULL
    <3>1. PICK ok \in BOOLEAN :
            /\ registry' = GetKernelIn(ContextAfter, RegistryAfter, dims, ok).table
            /\ compiled' = Compiled(GetKernelIn(ContextAfter, RegistryAfter, dims, ok).built)
            /\ statics' = [statics EXCEPT ![s] =
                             GetKernelIn(ContextAfter, RegistryAfter, dims, ok).kernel]
      BY <2>2 DEF UseStatic
    <3>2. GetKernelIn(ContextAfter, RegistryAfter, dims, ok).kernel
            \in {NULL, Prog(ContextAfter, <<Representation, dims>>)}
      BY <1>1, <3>1, FetchCore DEF CacheInv
    <3>. QED
      BY <1>2, <3>1, <3>2 DEF StaticsType
  <2>. QED
    BY <2>1, <2>2
<1>4. used' \in Request
  BY <1>1, <1>2, <1>3 DEF Request, Prog
<1>. QED
  BY <1>1, <1>3, <1>4 DEF StaticsType

LEMMA ReleaseStaticsType ==
  ASSUME StaticsType, ReleaseContext
  PROVE  StaticsType'
BY ReleaseCountsType DEF ReleaseContext, StaticsType

LEMMA NextStaticsType == CacheInv /\ StaticsType /\ [Next]_vars => StaticsType'
<1>. SUFFICES ASSUME CacheInv, StaticsType, [Next]_vars PROVE StaticsType'
  OBVIOUS
<1>1. ASSUME NEW d \in Dims, GetKernel(d) \/ GetKernel(0) PROVE StaticsType'
  BY <1>1, GetKernelStaticsType
<1>2. ASSUME NEW s \in StaticKernels, NEW d \in Dims, UseStatic(s, d)
      PROVE StaticsType'
  BY <1>2, UseStaticStaticsType
<1>3. ASSUME ReleaseContext PROVE StaticsType'
  BY <1>3, ReleaseStaticsType
<1>4. CASE UNCHANGED vars
  BY <1>4 DEF vars, StaticsType
<1>. QED
  BY <1>1, <1>2, <1>3, <1>4 DEF Next

LEMMA TypeParts == CacheInv /\ StaticsType => TypeOK
BY TablesSame DEF CacheInv, CoreInv, StaticsType, TypeOK

(* Every state the kernel cache reaches is well typed, for every instance: *)
(* in particular the static kernels and the kernels enqueued from them are *)
(* programs or NULL, and ocl_releaseContext's release counts stay counts.  *)
THEOREM TypeCorrect == Spec => []TypeOK
<1>1. Init => CacheInv /\ StaticsType
  BY InitCacheInv, InitStaticsType
<1>2. CacheInv /\ StaticsType /\ [Next]_vars => (CacheInv /\ StaticsType)'
  BY NextCacheInv, NextStaticsType
<1>. QED
  BY <1>1, <1>2, TypeParts, PTL DEF Spec

====
