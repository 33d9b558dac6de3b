--------------------------- MODULE BandwidthProofs ---------------------------
(***************************************************************************)
(* The bandwidth-ordering invariants of KdeEstimator, for every value of   *)
(* the constants.  BandwidthInv is inductive on its own: a running command *)
(* has an empty wait-list, a KDE kernel exists only while the host blocks  *)
(* on it in rangeKDE, and every queued bandwidth writer is accounted for   *)
(* by the host's position (the optimization_event between calls, a        *)
(* dependency of the KDE kernel during an estimate, the blocking call or  *)
(* the optimization_event inside a SQL function).  KdeReadsSettledBandwidth *)
(* and PendingBandwidthWriteTracked follow from it.                        *)
(***************************************************************************)
EXTENDS KdeEstimatorProofs

(* The three conjuncts of BandwidthInv after TypeOK.                       *)
ReadyToRun ==
    \A e \in DOMAIN queue : queue[e].running => queue[e].wait = {}

KdeOwned ==
    \A e \in DOMAIN queue : queue[e].kernel = "kde" => pc = "estimate" /\ waiting = e

WritersTracked ==
    \A w \in DOMAIN queue : BandwidthWriter(w) =>
          /\ pc \in {"idle", "maintenance", "online"} => w = optimization_event
          /\ pc = "estimate" => waiting \in DOMAIN queue /\ w \in queue[waiting].wait
          /\ pc \in {"scott", "blocked", "released"} =>
                w \in {waiting, optimization_event}

LEMMA InvParts ==
  BandwidthInv <=> TypeOK /\ ReadyToRun /\ KdeOwned /\ WritersTracked
BY DEF BandwidthInv, ReadyToRun, KdeOwned, WritersTracked

(* A command the host enqueues that does not start at once and is no KDE   *)
(* kernel.                                                                 *)
Calm(c) == ~c.running /\ c.kernel # "kde"

(* q2 keeps every command of q and adds calm ones only.                    *)
CalmExt(q2, q) ==
    /\ DOMAIN q \subseteq DOMAIN q2
    /\ \A f \in DOMAIN q : q2[f] = q[f]
    /\ \A f \in DOMAIN q2 \ DOMAIN q : Calm(q2[f])

(* Which kernels write the bandwidth.                                       *)
LEMMA WriterKernels ==
  /\ "bandwidth" \in Writes["updateVsgdOnlineEstimate"]
  /\ "bandwidth" \in Writes["setScottsBandwidth"]
  /\ "bandwidth" \in Writes["optimizeBandwidth"]
  /\ "bandwidth" \in Writes["writeBandwidth"]
  /\ \A k \in {"input_transfer", "kde", "computePartialGradient",
               "computeShiftedGradient", "finalizeEstimate",
               "accumulateVsgdOnlineBuffers", "initializeVsgdOnlineEstimate",
               "readBandwidth", "readModel", "pushSampleEntry"} :
        "bandwidth" \notin Writes[k]
BY DEF Writes

LEMMA CommandFields ==
  ASSUME NEW k, NEW w
  PROVE  Command(k, w).kernel = k /\ Command(k, w).wait = w
         /\ ~Command(k, w).running
BY DEF Command

LEMMA CalmRefl ==
  ASSUME NEW q
  PROVE  CalmExt(q, q)
BY DEF CalmExt

(* Enqueueing a calm command under a new event keeps an extension calm.    *)
LEMMA CalmEnqueue ==
  ASSUME NEW q, NEW q2, CalmExt(q2, q), NEW e, e \notin DOMAIN q2,
         NEW c, Calm(c)
  PROVE  /\ CalmExt(Enqueue(q2, e, c), q)
         /\ DOMAIN Enqueue(q2, e, c) = DOMAIN q2 \cup {e}
         /\ Enqueue(q2, e, c)[e] = c
         /\ \A f \in DOMAIN q2 : Enqueue(q2, e, c)[f] = q2[f]
BY DEF CalmExt, Enqueue

(* A calm extension adds no KDE kernel, no running command and, when its   *)
(* new commands write no bandwidth, no writer.                             *)
LEMMA CalmExtFacts ==
  ASSUME NEW q2, NEW q, CalmExt(q2, q), NEW f \in DOMAIN q2
  PROVE  /\ f \in DOMAIN q => q2[f] = q[f]
         /\ f \notin DOMAIN q => ~q2[f].running /\ q2[f].kernel # "kde"
BY DEF CalmExt, Calm

-----------------------------------------------------------------------------
LEMMA InitInv == Init => BandwidthInv
<1>. SUFFICES ASSUME Init PROVE BandwidthInv
  OBVIOUS
<1>1. TypeOK
  BY InitTypeOK
<1>2. DOMAIN queue = {}
  BY DEF Init
<1>. QED
  BY <1>1, <1>2, InvParts DEF ReadyToRun, KdeOwned, WritersTracked

(* The device: Start marks a command with an empty wait-list running,      *)
(* Finish removes one and strips it from the other wait-lists; a writer    *)
(* that stays is not the finished command, so the optimization_event that  *)
(* names it is unchanged, and a KDE kernel the host waits for cannot have  *)
(* finished while a writer is in its wait-list.                            *)
LEMMA StartInv ==
  ASSUME BandwidthInv, NEW e \in Events, Start(e)
  PROVE  BandwidthInv'
<1>1. TypeOK'
  BY StartTypeOK DEF BandwidthInv
<1>2. /\ DOMAIN queue' = DOMAIN queue
      /\ \A f \in DOMAIN queue : queue'[f].kernel = queue[f].kernel
      /\ \A f \in DOMAIN queue : queue'[f].wait = queue[f].wait
      /\ \A f \in DOMAIN queue \ {e} : queue'[f].running = queue[f].running
  BY Zenon DEF Start, BandwidthInv, TypeOK, WellFormedQueue, CommandType
<1>3. queue[e].wait = {}
  BY DEF Start
<1>4. ReadyToRun'
  BY <1>2, <1>3, InvParts DEF ReadyToRun
<1>5. KdeOwned'
  BY <1>2, InvParts DEF KdeOwned, Start
<1>6. WritersTracked'
  BY <1>2, InvParts DEF WritersTracked, BandwidthWriter, Start
<1>. QED
  BY <1>1, <1>4, <1>5, <1>6 DEF BandwidthInv, ReadyToRun, KdeOwned, WritersTracked

LEMMA FinishInv ==
  ASSUME BandwidthInv, NEW e \in Events, Finish(e)
  PROVE  BandwidthInv'
<1>1. TypeOK'
  BY FinishTypeOK DEF BandwidthInv
<1>2. /\ DOMAIN queue' = DOMAIN queue \ {e}
      /\ \A f \in DOMAIN queue \ {e} : queue'[f].kernel = queue[f].kernel
      /\ \A f \in DOMAIN queue \ {e} : queue'[f].wait = queue[f].wait \ {e}
      /\ \A f \in DOMAIN queue \ {e} : queue'[f].running = queue[f].running
  BY DEF Finish, BandwidthInv, TypeOK, WellFormedQueue, CommandType
<1>3. ReadyToRun'
  BY <1>2, InvParts DEF ReadyToRun
<1>4. KdeOwned'
  BY <1>2, InvParts DEF KdeOwned, Finish
<1>5. WritersTracked'
  <2>. SUFFICES ASSUME NEW w \in DOMAIN queue', BandwidthWriter(w)'
                PROVE  WritersTracked!(w)'
    BY DEF WritersTracked
  <2>1. w \in DOMAIN queue \ {e} /\ BandwidthWriter(w)
    BY <1>2 DEF BandwidthWriter
  <2>2. WritersTracked!(w)
    BY <2>1, InvParts DEF WritersTracked
  <2>4. pc' = pc /\ waiting' = waiting
    BY DEF Finish
  <2>5. pc = "estimate" => waiting # e
    <3>. SUFFICES ASSUME pc = "estimate", waiting = e PROVE FALSE
      OBVIOUS
    <3>1. queue[e].running /\ w \in queue[e].wait
      BY <2>1, <2>2 DEF Finish
    <3>. QED
      BY <3>1, InvParts DEF ReadyToRun, Finish
  <2>6. optimization_event = w => optimization_event' = w
    BY <2>1 DEF Finish
  <2>. QED
    BY <1>2, <2>1, <2>2, <2>4, <2>5, <2>6
<1>. QED
  BY <1>1, <1>3, <1>4, <1>5 DEF BandwidthInv, ReadyToRun, KdeOwned, WritersTracked

(* An estimate enqueues the bounds transfer and the KDE kernel; the KDE    *)
(* kernel's wait-list holds the optimization_event, the only writer that   *)
(* may be queued between host calls.                                        *)
LEMMA EstimateBeginInv ==
  ASSUME BandwidthInv, EstimateBegin
  PROVE  BandwidthInv'
<1>. DEFINE i == Fresh(Free)
            k == Fresh(Free \ {i})
<1>1. /\ i \in Events \ DOMAIN queue
      /\ k \in Events \ DOMAIN queue
      /\ k # i
  <2>1. /\ i \in Free
        /\ IsFiniteSet(Free \ {i})
        /\ Cardinality(Free \ {i}) >= 1
    BY FreeFinite, PickFresh DEF EstimateBegin
  <2>2. k \in Free \ {i}
    BY <2>1, PickFresh
  <2>. QED
    BY <2>1, <2>2 DEF Free
<1>2. /\ DOMAIN queue' = DOMAIN queue \cup {i, k}
      /\ queue'[i] = Command("input_transfer", {})
      /\ queue'[k] = Command("kde", KdeWaitList(i))
      /\ \A f \in DOMAIN queue : queue'[f] = queue[f]
  BY <1>1 DEF EstimateBegin, Enqueue
<1>3. pc = "idle" /\ pc' = "estimate" /\ waiting' = k
  BY DEF EstimateBegin
<1>4. TypeOK'
  BY EstimateBeginTypeOK DEF BandwidthInv
<1>5. ReadyToRun'
  BY <1>2, CommandFields, InvParts DEF ReadyToRun
<1>6. KdeOwned'
  BY <1>1, <1>2, <1>3, CommandFields, InvParts DEF KdeOwned
<1>7. WritersTracked'
  <2>. SUFFICES ASSUME NEW w \in DOMAIN queue', BandwidthWriter(w)'
                PROVE  waiting' \in DOMAIN queue' /\ w \in queue'[waiting'].wait
    BY <1>3 DEF WritersTracked
  <2>1. w \in DOMAIN queue
    BY <1>2, CommandFields, WriterKernels DEF BandwidthWriter
  <2>2. BandwidthWriter(w)
    BY <1>2, <2>1 DEF BandwidthWriter
  <2>3. w = optimization_event
    BY <1>3, <2>1, <2>2, InvParts DEF WritersTracked
  <2>4. w \in KdeWaitList(i)
    BY <2>1, <2>3 DEF KdeWaitList, WaitOn
  <2>. QED
    BY <1>2, <1>3, <2>4, CommandFields
<1>. QED
  BY <1>4, <1>5, <1>6, <1>7 DEF BandwidthInv, ReadyToRun, KdeOwned, WritersTracked

(* The end of an estimate: the host has read the KDE result, so the KDE    *)
(* kernel is gone and, since every writer was in its wait-list, so is      *)
(* every writer; the gradient tasks of the online step write none.         *)
LEMMA EstimateEndInv ==
  ASSUME BandwidthInv, EstimateEnd
  PROVE  BandwidthInv'
<1>1. TypeOK'
  BY EstimateEndTypeOK DEF BandwidthInv
<1>2. \A f \in DOMAIN queue : queue[f].kernel # "kde" /\ ~BandwidthWriter(f)
  BY InvParts DEF KdeOwned, WritersTracked, EstimateEnd
<1>3. CalmExt(queue', queue)
      /\ \A f \in DOMAIN queue' \ DOMAIN queue : ~BandwidthWriter(f)'
  <2>1. CASE ~adaptive
    BY <2>1, CalmRefl DEF EstimateEnd
  <2>2. CASE adaptive
    <3>. DEFINE g == Fresh(Free)
                sh == Fresh(Free \ {g})
                f == Fresh(Free \ {g, sh})
                q1 == Enqueue(queue, g, Command("computePartialGradient", {}))
                q2 == Enqueue(q1, sh, Command("computeShiftedGradient", {}))
    <3>1. /\ g \in Events \ DOMAIN queue
          /\ sh \in Events \ (DOMAIN queue \cup {g})
          /\ f \in Events \ (DOMAIN queue \cup {g, sh})
      <4>1. /\ g \in Free
            /\ IsFiniteSet(Free \ {g})
            /\ Cardinality(Free \ {g}) >= 2
        BY <2>2, FreeFinite, PickFresh DEF EstimateEnd, PrepareVsgdOnlineLearningStep
      <4>2. /\ sh \in Free \ {g}
            /\ IsFiniteSet((Free \ {g}) \ {sh})
            /\ Cardinality((Free \ {g}) \ {sh}) >= 1
        BY <4>1, PickFresh
      <4>3. f \in (Free \ {g}) \ {sh}
        <5>1. Free \ {g, sh} = (Free \ {g}) \ {sh}
          OBVIOUS
        <5>. QED
          BY <4>2, <5>1, PickFresh
      <4>. QED
        BY <4>1, <4>2, <4>3 DEF Free
    <3>2. queue' = Enqueue(q2, f, Command("finalizeEstimate", {g, sh}))
      BY <2>2 DEF EstimateEnd, PrepareVsgdOnlineLearningStep
    <3>3. /\ DOMAIN queue' = DOMAIN queue \cup {g, sh, f}
          /\ queue'[f] = Command("finalizeEstimate", {g, sh})
          /\ queue'[sh] = Command("computeShiftedGradient", {})
          /\ queue'[g] = Command("computePartialGradient", {})
          /\ \A x \in DOMAIN queue : queue'[x] = queue[x]
      BY <3>1, <3>2 DEF Enqueue
    <3>6. CalmExt(queue', queue)
      BY <3>3 DEF CalmExt, Calm, Command
    <3>. QED
      BY <3>3, <3>6, CommandFields, WriterKernels DEF BandwidthWriter
  <2>. QED
    BY <2>1, <2>2
<1>4. pc' = "idle"
  BY DEF EstimateEnd
<1>5. ReadyToRun'
  BY <1>3, InvParts DEF ReadyToRun, CalmExt, Calm
<1>6. KdeOwned'
  BY <1>2, <1>3 DEF KdeOwned, CalmExt, Calm
<1>7. WritersTracked'
  BY <1>2, <1>3 DEF WritersTracked, CalmExt, BandwidthWriter
<1>. QED
  BY <1>1, <1>5, <1>6, <1>7 DEF BandwidthInv, ReadyToRun, KdeOwned, WritersTracked

(* Feedback before the online step: under PRR the sample write is queued;  *)
(* it writes no bandwidth, and the host stays between calls as far as the  *)
(* optimization_event is concerned.                                        *)
LEMMA FeedbackBeginInv ==
  ASSUME BandwidthInv, FeedbackBegin
  PROVE  BandwidthInv'
<1>1. TypeOK'
  BY FeedbackBeginTypeOK DEF BandwidthInv
<1>2. /\ pc = "idle" /\ pc' \in {"maintenance", "online"}
      /\ optimization_event' = optimization_event
  BY DEF FeedbackBegin
<1>3. /\ DOMAIN queue \subseteq DOMAIN queue'
      /\ \A f \in DOMAIN queue : queue'[f] = queue[f]
      /\ \A f \in DOMAIN queue' \ DOMAIN queue :
            queue'[f] = Command("pushSampleEntry", {})
  <2>1. CASE MaintenancePolicy = "PRR" /\ nr_of_estimations' = 0
    <3>1. Fresh(Free) \notin DOMAIN queue
      BY <2>1 DEF FeedbackBegin, Fresh, Free
    <3>. QED
      BY <2>1, <3>1 DEF FeedbackBegin, Enqueue
  <2>2. CASE ~(MaintenancePolicy = "PRR" /\ nr_of_estimations' = 0)
    BY <2>2 DEF FeedbackBegin
  <2>. QED
    BY <2>1, <2>2
<1>4. /\ ~Command("pushSampleEntry", {}).running
      /\ Command("pushSampleEntry", {}).kernel = "pushSampleEntry"
  BY CommandFields
<1>5. "bandwidth" \notin Writes["pushSampleEntry"]
  BY WriterKernels
<1>6. ReadyToRun'
  BY <1>3, <1>4, InvParts DEF ReadyToRun
<1>7. KdeOwned'
  BY <1>2, <1>3, <1>4, InvParts DEF KdeOwned
<1>8. WritersTracked'
  BY <1>2, <1>3, <1>4, <1>5, InvParts DEF WritersTracked, BandwidthWriter
<1>. QED
  BY <1>1, <1>6, <1>7, <1>8 DEF BandwidthInv, ReadyToRun, KdeOwned, WritersTracked

LEMMA SampleMaintainedInv ==
  ASSUME BandwidthInv, SampleMaintained
  PROVE  BandwidthInv'
<1>1. TypeOK'
  BY SampleMaintainedTypeOK DEF BandwidthInv
<1>. QED
  BY <1>1 DEF SampleMaintained, BandwidthInv, BandwidthWriter

(* The online step runs only once the previous optimization_event has      *)
(* completed, so no writer is queued; the model kernel it may enqueue is   *)
(* the new optimization_event.                                             *)
LEMMA FeedbackEndInv ==
  ASSUME BandwidthInv, FeedbackEnd
  PROVE  BandwidthInv'
<1>1. TypeOK'
  BY FeedbackEndTypeOK DEF BandwidthInv
<1>2. pc = "online" /\ pc' = "idle"
  BY DEF FeedbackEnd
<1>3. \A f \in DOMAIN queue : queue[f].kernel # "kde"
  BY <1>2, InvParts DEF KdeOwned
<1>4. CASE ~adaptive
  <2>1. UNCHANGED <<queue, optimization_event>>
    BY <1>4 DEF FeedbackEnd
  <2>. QED
    BY <1>1, <1>2, <1>3, <2>1 DEF BandwidthInv, BandwidthWriter
<1>5. CASE adaptive
  <2>. DEFINE a == Fresh(Free)
              m == Fresh(Free \ {a})
  <2>1. \A f \in DOMAIN queue : ~BandwidthWriter(f)
    BY <1>2, <1>5, InvParts DEF WritersTracked, FeedbackEnd
  <2>2. /\ a \in Events \ DOMAIN queue
        /\ m \in Events \ (DOMAIN queue \cup {a})
    <3>1. /\ a \in Free
          /\ IsFiniteSet(Free \ {a})
          /\ Cardinality(Free \ {a}) >= 1
      BY <1>5, FreeFinite, PickFresh DEF FeedbackEnd, RunVsgdOnlineLearningStep
    <3>2. m \in Free \ {a}
      BY <3>1, PickFresh
    <3>. QED
      BY <3>1, <3>2 DEF Free
  <2>3. /\ DOMAIN queue \subseteq DOMAIN queue'
        /\ \A f \in DOMAIN queue : queue'[f] = queue[f]
        /\ DOMAIN queue' \ DOMAIN queue \subseteq {a, m}
        /\ a \in DOMAIN queue' => queue'[a] = Command("accumulateVsgdOnlineBuffers", {})
        /\ m \in DOMAIN queue' => /\ queue'[m] = Command(ModelKernel, {a})
                                  /\ optimization_event' = m
    BY <1>5, <2>2 DEF FeedbackEnd, RunVsgdOnlineLearningStep, Enqueue
  <2>4. ModelKernel # "kde"
    BY DEF ModelKernel
  <2>5. "bandwidth" \notin Writes["accumulateVsgdOnlineBuffers"]
    BY WriterKernels
  <2>6. ReadyToRun'
    BY <2>3, CommandFields, InvParts DEF ReadyToRun
  <2>7. KdeOwned'
    BY <1>3, <2>3, <2>4, CommandFields DEF KdeOwned
  <2>8. WritersTracked'
    <3>. SUFFICES ASSUME NEW w \in DOMAIN queue', BandwidthWriter(w)'
                  PROVE  w = optimization_event'
      BY <1>2 DEF WritersTracked
    <3>1. w \notin DOMAIN queue
      BY <2>1, <2>3 DEF BandwidthWriter
    <3>2. w # a
      <4>1. a \in DOMAIN queue' => queue'[a].kernel = "accumulateVsgdOnlineBuffers"
        BY <2>3, CommandFields
      <4>. QED
        BY <4>1, <2>5 DEF BandwidthWriter
    <3>3. w = m
      BY <3>1, <3>2, <2>3
    <3>. QED
      BY <3>3, <2>3
  <2>. QED
    BY <1>1, <2>6, <2>7, <2>8 DEF BandwidthInv, ReadyToRun, KdeOwned, WritersTracked
<1>. QED
  BY <1>4, <1>5

(* A SQL function enqueues one blocking command and waits for it: the new  *)
(* command is the one the host waits for, the old writers are still the    *)
(* optimization_event.                                                      *)
LEMMA BlockingInv ==
  ASSUME BandwidthInv, NEW op, NEW k \in Kernels \ {"kde"},
         NEW next \in {"scott", "blocked", "released"},
         Blocking(op, k, next)
  PROVE  BandwidthInv'
<1>1. TypeOK'
  BY BlockingTypeOK DEF BandwidthInv
<1>2. /\ pc = "idle" /\ pc' = next
      /\ optimization_event' = optimization_event
      /\ waiting' = Fresh(Free)
  BY DEF Blocking
<1>3. Fresh(Free) \notin DOMAIN queue
  BY DEF Blocking, Fresh, Free
<1>4. /\ DOMAIN queue' = DOMAIN queue \cup {Fresh(Free)}
      /\ queue'[Fresh(Free)] = Command(k, {})
      /\ \A f \in DOMAIN queue : queue'[f] = queue[f]
  BY <1>3 DEF Blocking, Enqueue
<1>5. ReadyToRun'
  BY <1>4, CommandFields, InvParts DEF ReadyToRun
<1>6. KdeOwned'
  BY <1>2, <1>4, CommandFields, InvParts DEF KdeOwned
<1>7. WritersTracked'
  <2>. SUFFICES ASSUME NEW w \in DOMAIN queue', BandwidthWriter(w)'
                PROVE  w \in {waiting', optimization_event'}
    BY <1>2 DEF WritersTracked
  <2>1. CASE w \in DOMAIN queue
    BY <1>2, <1>4, <2>1, InvParts DEF WritersTracked, BandwidthWriter
  <2>2. CASE w \notin DOMAIN queue
    BY <1>2, <1>4, <2>2
  <2>. QED
    BY <2>1, <2>2
<1>. QED
  BY <1>1, <1>5, <1>6, <1>7 DEF BandwidthInv, ReadyToRun, KdeOwned, WritersTracked

(* After Scott's rule the host either returns or runs the optimizer, whose *)
(* blocking command it then waits for; Scott's rule itself has completed,  *)
(* so the only writer left from before is the optimization_event.          *)
LEMMA ScottsBandwidthSetInv ==
  ASSUME BandwidthInv, ScottsBandwidthSet
  PROVE  BandwidthInv'
<1>1. TypeOK'
  BY ScottsBandwidthSetTypeOK DEF BandwidthInv
<1>2. /\ pc = "scott" /\ pc' \in {"idle", "blocked"}
      /\ optimization_event' = optimization_event
  BY DEF ScottsBandwidthSet
<1>3. \A f \in DOMAIN queue : queue[f].kernel # "kde"
  BY <1>2, InvParts DEF KdeOwned
<1>4. \A w \in DOMAIN queue : BandwidthWriter(w) => w = optimization_event
  BY <1>2, InvParts DEF WritersTracked, ScottsBandwidthSet
<1>5. CASE pc' = "idle"
  <2>1. queue' = queue
    BY <1>5 DEF ScottsBandwidthSet
  <2>. QED
    BY <1>1, <1>2, <1>3, <1>4, <1>5, <2>1, InvParts
       DEF BandwidthInv, ReadyToRun, KdeOwned, WritersTracked, BandwidthWriter
<1>6. CASE pc' = "blocked"
  <2>1. /\ Fresh(Free) \notin DOMAIN queue
        /\ queue' = Enqueue(queue, Fresh(Free), Command("optimizeBandwidth", {}))
        /\ waiting' = Fresh(Free)
    BY <1>6 DEF ScottsBandwidthSet, Fresh, Free
  <2>2. /\ DOMAIN queue' = DOMAIN queue \cup {Fresh(Free)}
        /\ queue'[Fresh(Free)] = Command("optimizeBandwidth", {})
        /\ \A f \in DOMAIN queue : queue'[f] = queue[f]
    BY <2>1 DEF Enqueue
  <2>3. ReadyToRun'
    BY <2>2, CommandFields, InvParts DEF ReadyToRun
  <2>4. KdeOwned'
    BY <1>3, <2>2, CommandFields DEF KdeOwned
  <2>5. WritersTracked'
    BY <1>2, <1>4, <1>6, <2>1, <2>2 DEF WritersTracked, BandwidthWriter
  <2>. QED
    BY <1>1, <2>3, <2>4, <2>5 DEF BandwidthInv, ReadyToRun, KdeOwned, WritersTracked
<1>. QED
  BY <1>2, <1>5, <1>6

(* The blocking call returns once its command has completed: a writer left *)
(* is the optimization_event.                                              *)
LEMMA UnblockInv ==
  ASSUME BandwidthInv, Unblock
  PROVE  BandwidthInv'
<1>1. TypeOK'
  BY UnblockTypeOK DEF BandwidthInv
<1>2. pc = "blocked" /\ pc' = "idle"
  BY DEF Unblock
<1>3. \A w \in DOMAIN queue : BandwidthWriter(w) => w = optimization_event
  BY <1>2, InvParts DEF WritersTracked, Unblock
<1>. QED
  BY <1>1, <1>2, <1>3, InvParts
     DEF Unblock, BandwidthInv, ReadyToRun, KdeOwned, WritersTracked, BandwidthWriter

LEMMA RegistryReleasedInv ==
  ASSUME BandwidthInv, RegistryReleased
  PROVE  BandwidthInv'
<1>1. TypeOK'
  BY RegistryReleasedTypeOK DEF BandwidthInv
<1>2. DOMAIN queue' = {}
  BY DEF RegistryReleased
<1>. QED
  BY <1>1, <1>2 DEF BandwidthInv

LEMMA ToggleAdaptiveInv ==
  ASSUME BandwidthInv, ToggleAdaptive
  PROVE  BandwidthInv'
<1>1. TypeOK'
  BY ToggleAdaptiveTypeOK DEF BandwidthInv
<1>. QED
  BY <1>1 DEF ToggleAdaptive, BandwidthInv, BandwidthWriter

-----------------------------------------------------------------------------
(* BandwidthInv is inductive.                                              *)
LEMMA NextInv ==
  ASSUME BandwidthInv, [Next]_vars
  PROVE  BandwidthInv'
<1>1. /\ {"writeBandwidth", "readBandwidth", "readModel", "setScottsBandwidth"}
           \subseteq Kernels \ {"kde"}
  BY KernelNames
<1>2. CASE \E e \in Events : Start(e)
  BY <1>2, StartInv
<1>3. CASE \E e \in Events : Finish(e)
  BY <1>3, FinishInv
<1>4. CASE EstimateBegin
  BY <1>4, EstimateBeginInv
<1>5. CASE EstimateEnd
  BY <1>5, EstimateEndInv
<1>6. CASE FeedbackBegin
  BY <1>6, FeedbackBeginInv
<1>7. CASE SampleMaintained
  BY <1>7, SampleMaintainedInv
<1>8. CASE FeedbackEnd
  BY <1>8, FeedbackEndInv
<1>9. CASE SetBandwidth \/ GetBandwidth \/ Persist \/ Reoptimize
  BY <1>1, <1>9, BlockingInv DEF SetBandwidth, GetBandwidth, Persist, Reoptimize
<1>10. CASE ScottsBandwidthSet
  BY <1>10, ScottsBandwidthSetInv
<1>11. CASE RegistryReleased
  BY <1>11, RegistryReleasedInv
<1>12. CASE Unblock
  BY <1>12, UnblockInv
<1>13. CASE ToggleAdaptive
  BY <1>13, ToggleAdaptiveInv
<1>14. CASE UNCHANGED vars
  BY <1>14 DEF vars, BandwidthInv, TypeOK, WellFormedQueue, BandwidthWriter
<1>. QED
  BY <1>2, <1>3, <1>4, <1>5, <1>6, <1>7, <1>8, <1>9, <1>10, <1>11, <1>12,
     <1>13, <1>14 DEF Next

(* A running KDE kernel has an empty wait-list and is the command rangeKDE *)
(* blocks on, whose wait-list holds every queued writer: so there is none. *)
LEMMA InvImpliesSettled ==
  BandwidthInv => KdeReadsSettledBandwidth
<1>. SUFFICES ASSUME BandwidthInv, NEW k \in DOMAIN queue,
                     queue[k].kernel = "kde", queue[k].running,
                     NEW w \in DOMAIN queue, BandwidthWriter(w)
              PROVE  FALSE
  BY DEF KdeReadsSettledBandwidth, BandwidthWriter
<1>1. pc = "estimate" /\ waiting = k /\ queue[k].wait = {}
  BY InvParts DEF KdeOwned, ReadyToRun
<1>2. w \in queue[waiting].wait
  BY <1>1, InvParts DEF WritersTracked
<1>. QED
  BY <1>1, <1>2

LEMMA InvImpliesTracked ==
  BandwidthInv => PendingBandwidthWriteTracked
BY DEF BandwidthInv, PendingBandwidthWriteTracked, BandwidthWriter

(* BandwidthInv holds in every reachable state, for every number of events, *)
(* mini-batch size, sample period, maintenance policy and set of entry      *)
(* points: the optimization_event hand-over between rangeKDE, the online   *)
(* step and the SQL functions accounts for every queued bandwidth writer.  *)
THEOREM BandwidthInvariant == Spec => []BandwidthInv
BY InitInv, NextInv, PTL DEF Spec

(* Spec 4.2 and 5, for every instance: a running KDE kernel never overlaps  *)
(* a queued or running command that writes the bandwidth (rangeKDE's wait  *)
(* on optimization_event, and the host's wait on every other writer).      *)
THEOREM SettledBandwidth == Spec => []KdeReadsSettledBandwidth
BY BandwidthInvariant, InvImpliesSettled, PTL

(* Between host calls every queued bandwidth writer is the                  *)
(* optimization_event that the next rangeKDE waits for, for every instance. *)
THEOREM WriteTracked == Spec => []PendingBandwidthWriteTracked
BY BandwidthInvariant, InvImpliesTracked, PTL

====
