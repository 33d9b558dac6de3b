------------------------- MODULE KdeEstimatorProofs -------------------------
(***************************************************************************)
(* Proofs about KdeEstimator for every value of the constants: the queue   *)
(* stays well formed, and the bandwidth read by a running KDE kernel is    *)
(* never being written by a queued or running command.                     *)
(***************************************************************************)
EXTENDS KdeEstimator, FiniteSetTheorems, TLAPS

-----------------------------------------------------------------------------
(* Lemmas on the operators the model is built from.                         *)

(* The set of free events is finite.                                       *)
LEMMA FreeFinite == IsFiniteSet(Free)
<1>1. IsFiniteSet(Events)
  BY ConstantsAssumption, FS_Interval DEF Events
<1>. QED
  BY <1>1, FS_Subset DEF Free

(* From a finite set with more than n elements, Fresh picks a member and   *)
(* leaves a finite set with at least n.                                    *)
LEMMA PickFresh ==
  ASSUME NEW S, IsFiniteSet(S), NEW n \in Nat, Cardinality(S) >= n + 1
  PROVE  /\ Fresh(S) \in S
         /\ IsFiniteSet(S \ {Fresh(S)})
         /\ Cardinality(S \ {Fresh(S)}) >= n
<1>1. S # {}
  BY FS_EmptySet
<1>2. Fresh(S) \in S
  BY <1>1 DEF Fresh
<1>. QED
  BY <1>2, FS_RemoveElement, FS_CardinalityType

(* A command built from a kernel name and a set of events is well typed.   *)
LEMMA CommandTyped ==
  ASSUME NEW k \in Kernels, NEW w \in SUBSET Events
  PROVE  Command(k, w) \in CommandType
BY DEF Command, CommandType

(* Enqueueing a command under a fresh event whose wait-list names live     *)
(* events keeps the queue well formed.                                     *)
LEMMA EnqueueWellFormed ==
  ASSUME NEW q, WellFormedQueue(q), NEW e \in Events \ DOMAIN q,
         NEW c \in CommandType, c.wait \subseteq DOMAIN q
  PROVE  /\ WellFormedQueue(Enqueue(q, e, c))
         /\ DOMAIN Enqueue(q, e, c) = DOMAIN q \cup {e}
         /\ Enqueue(q, e, c)[e] = c
         /\ \A f \in DOMAIN q : Enqueue(q, e, c)[f] = q[f]
BY DEF WellFormedQueue, Enqueue, CommandType

(* The kernels the host enqueues are kernels of the access tables.         *)
LEMMA KernelNames ==
  {"input_transfer", "kde", "computePartialGradient", "computeShiftedGradient",
   "finalizeEstimate", "accumulateVsgdOnlineBuffers",
   "updateVsgdOnlineEstimate", "initializeVsgdOnlineEstimate",
   "setScottsBandwidth", "optimizeBandwidth", "writeBandwidth",
   "readBandwidth", "readModel", "pushSampleEntry"} \subseteq Kernels
BY DEF Kernels, Reads

(* The free events are the events of the model that name no command.       *)
LEMMA FreeEvents ==
  ASSUME NEW e \in Free
  PROVE  e \in Events \ DOMAIN queue
BY DEF Free

(* Enqueueing a command of a known kernel under a free event, waiting for  *)
(* live events only, keeps the queue well formed.                          *)
LEMMA EnqueueCommand ==
  ASSUME NEW q, WellFormedQueue(q), NEW e \in Events \ DOMAIN q,
         NEW k \in Kernels, NEW w \in SUBSET DOMAIN q
  PROVE  /\ WellFormedQueue(Enqueue(q, e, Command(k, w)))
         /\ DOMAIN Enqueue(q, e, Command(k, w)) = DOMAIN q \cup {e}
<1>1. /\ Command(k, w) \in CommandType
      /\ Command(k, w).wait \subseteq DOMAIN q
  BY CommandTyped DEF Command, WellFormedQueue
<1>. QED
  BY <1>1, EnqueueWellFormed

-----------------------------------------------------------------------------
(* Type correctness.                                                        *)

LEMMA InitTypeOK == Init => TypeOK
<1>. SUFFICES ASSUME Init PROVE TypeOK
  OBVIOUS
<1>1. WellFormedQueue(queue)
  <2>1. DOMAIN queue = {}
    BY DEF Init
  <2>. QED
    BY <2>1, Zenon DEF WellFormedQueue
<1>2. nr_of_accumulated_gradients \in 0 .. MinibatchSize - 1
  BY ConstantsAssumption DEF Init
<1>3. nr_of_estimations \in 0 .. SamplePeriod - 1
  BY ConstantsAssumption DEF Init
<1>4. waiting \in Events \cup {NULL}
  BY DEF Init
<1>. QED
  BY <1>1, <1>2, <1>3, <1>4 DEF Init, TypeOK

(* Device steps keep the queue well formed: Start only marks a command     *)
(* running, Finish removes it and strips it from the other wait-lists.     *)
LEMMA StartTypeOK ==
  ASSUME TypeOK, NEW e \in Events, Start(e)
  PROVE  TypeOK'
<1>1. /\ DOMAIN queue' = DOMAIN queue
      /\ queue'[e] = [queue[e] EXCEPT !.running = TRUE]
      /\ \A f \in DOMAIN queue \ {e} : queue'[f] = queue[f]
  BY Zenon DEF Start
<1>2. queue'[e] \in CommandType
  BY <1>1, Zenon DEF TypeOK, WellFormedQueue, CommandType, Start
<1>3. WellFormedQueue(queue')
  BY <1>1, <1>2, Zenon DEF TypeOK, WellFormedQueue, CommandType, Start
<1>. QED
  BY <1>3 DEF TypeOK, Start

LEMMA FinishTypeOK ==
  ASSUME TypeOK, NEW e \in Events, Finish(e)
  PROVE  TypeOK'
<1>1. WellFormedQueue(queue')
  <2>1. DOMAIN queue' = DOMAIN queue \ {e}
    BY DEF Finish
  <2>2. ASSUME NEW f \in DOMAIN queue \ {e}
        PROVE  /\ queue'[f] \in CommandType
               /\ queue'[f].wait \subseteq DOMAIN queue' \ {f}
    <3>1. queue'[f] = [queue[f] EXCEPT !.wait = queue[f].wait \ {e}]
      BY DEF Finish
    <3>2. queue[f] \in CommandType /\ queue[f].wait \subseteq DOMAIN queue \ {f}
      BY DEF TypeOK, WellFormedQueue
    <3>. QED
      BY <2>1, <3>1, <3>2, Zenon DEF CommandType
  <2>. QED
    BY <2>1, <2>2 DEF TypeOK, WellFormedQueue
<1>2. optimization_event' \in DOMAIN queue' \cup {NULL, CompletedEvent}
  BY DEF TypeOK, Finish
<1>. QED
  BY <1>1, <1>2 DEF TypeOK, Finish

LEMMA EstimateBeginTypeOK ==
  ASSUME TypeOK, EstimateBegin
  PROVE  TypeOK'
<1>. DEFINE i == Fresh(Free)
            k == Fresh(Free \ {i})
            q1 == Enqueue(queue, i, Command("input_transfer", {}))
<1>1. /\ i \in Free
      /\ k \in Free \ {i}
  <2>1. /\ i \in Free
        /\ IsFiniteSet(Free \ {i})
        /\ Cardinality(Free \ {i}) >= 1
    BY FreeFinite, PickFresh DEF EstimateBegin
  <2>. QED
    BY <2>1, PickFresh
<1>2. /\ WellFormedQueue(q1)
      /\ DOMAIN q1 = DOMAIN queue \cup {i}
  <2>1. i \in Events \ DOMAIN queue
    BY <1>1, FreeEvents
  <2>2. Command("input_transfer", {}) \in CommandType
    BY CommandTyped, KernelNames
  <2>. QED
    BY <2>1, <2>2, EnqueueWellFormed DEF TypeOK, Command
<1>3. KdeWaitList(i) \subseteq DOMAIN q1
  BY <1>2 DEF KdeWaitList, WaitOn
<1>4. Command("kde", KdeWaitList(i)) \in CommandType
  BY <1>2, <1>3, CommandTyped, KernelNames DEF WellFormedQueue
<1>5. queue' = Enqueue(q1, k, Command("kde", KdeWaitList(i)))
  BY DEF EstimateBegin
<1>6. k \in Events \ DOMAIN q1
  BY <1>1, <1>2, FreeEvents
<1>7. WellFormedQueue(queue')
  <2>1. Command("kde", KdeWaitList(i)).wait \subseteq DOMAIN q1
    BY <1>3 DEF Command
  <2>. QED
    BY <1>2, <1>4, <1>5, <1>6, <2>1, EnqueueWellFormed
<1>8. waiting' \in Events
  BY <1>6 DEF EstimateBegin
<1>. QED
  BY <1>7, <1>8 DEF EstimateBegin, TypeOK, NULL

(* Enqueueing the gradient, the shifted gradient and the finalize task     *)
(* that waits for both, under three distinct new events, keeps the queue   *)
(* well formed.                                                            *)
LEMMA EnqueuePrepare ==
  ASSUME NEW q, WellFormedQueue(q), NEW g \in Events \ DOMAIN q,
         NEW s \in Events \ (DOMAIN q \cup {g}),
         NEW f \in Events \ (DOMAIN q \cup {g, s})
  PROVE  LET q3 == Enqueue(Enqueue(Enqueue(q,
                      g, Command("computePartialGradient", {})),
                      s, Command("computeShiftedGradient", {})),
                      f, Command("finalizeEstimate", {g, s}))
         IN  WellFormedQueue(q3) /\ f \in DOMAIN q3
<1>1. /\ "computePartialGradient" \in Kernels
      /\ "computeShiftedGradient" \in Kernels
      /\ "finalizeEstimate" \in Kernels
  BY KernelNames
<1>2. /\ WellFormedQueue(Enqueue(q, g, Command("computePartialGradient", {})))
      /\ DOMAIN Enqueue(q, g, Command("computePartialGradient", {}))
            = DOMAIN q \cup {g}
  <2>1. {} \in SUBSET DOMAIN q
    OBVIOUS
  <2>. QED
    BY <1>1, <2>1, EnqueueCommand, Zenon
<1>3. /\ WellFormedQueue(Enqueue(Enqueue(q,
              g, Command("computePartialGradient", {})),
              s, Command("computeShiftedGradient", {})))
      /\ DOMAIN Enqueue(Enqueue(q,
              g, Command("computePartialGradient", {})),
              s, Command("computeShiftedGradient", {}))
            = DOMAIN q \cup {g, s}
  <2>1. /\ s \in Events \ DOMAIN Enqueue(q, g, Command("computePartialGradient", {}))
        /\ {} \in SUBSET DOMAIN Enqueue(q, g, Command("computePartialGradient", {}))
    BY <1>2
  <2>2. /\ WellFormedQueue(Enqueue(Enqueue(q,
                g, Command("computePartialGradient", {})),
                s, Command("computeShiftedGradient", {})))
        /\ DOMAIN Enqueue(Enqueue(q,
                g, Command("computePartialGradient", {})),
                s, Command("computeShiftedGradient", {}))
              = DOMAIN Enqueue(q, g, Command("computePartialGradient", {})) \cup {s}
    BY <1>1, <2>1, EnqueueCommand, Zenon
  <2>. QED
    BY <1>2, <2>2
<1>4. /\ f \in Events \ DOMAIN Enqueue(Enqueue(q,
              g, Command("computePartialGradient", {})),
              s, Command("computeShiftedGradient", {}))
      /\ {g, s} \in SUBSET DOMAIN Enqueue(Enqueue(q,
              g, Command("computePartialGradient", {})),
              s, Command("computeShiftedGradient", {}))
  BY <1>3
<1>5. /\ WellFormedQueue(Enqueue(Enqueue(Enqueue(q,
              g, Command("computePartialGradient", {})),
              s, Command("computeShiftedGradient", {})),
              f, Command("finalizeEstimate", {g, s})))
      /\ DOMAIN Enqueue(Enqueue(Enqueue(q,
              g, Command("computePartialGradient", {})),
              s, Command("computeShiftedGradient", {})),
              f, Command("finalizeEstimate", {g, s}))
            = DOMAIN Enqueue(Enqueue(q,
                g, Command("computePartialGradient", {})),
                s, Command("computeShiftedGradient", {})) \cup {f}
  BY <1>1, <1>3, <1>4, EnqueueCommand
<1>. QED
  BY <1>5

(* The gradient, the shifted gradient and the finalize task get three      *)
(* distinct free events.                                                   *)
LEMMA PrepareTypeOK ==
  ASSUME TypeOK, PrepareVsgdOnlineLearningStep
  PROVE  /\ WellFormedQueue(queue')
         /\ optimization_event' \in DOMAIN queue'
<1>1. /\ Fresh(Free) \in Free
      /\ IsFiniteSet(Free \ {Fresh(Free)})
      /\ Cardinality(Free \ {Fresh(Free)}) >= 2
  BY FreeFinite, PickFresh DEF PrepareVsgdOnlineLearningStep
<1>2. /\ Fresh(Free \ {Fresh(Free)}) \in Free \ {Fresh(Free)}
      /\ IsFiniteSet((Free \ {Fresh(Free)}) \ {Fresh(Free \ {Fresh(Free)})})
      /\ Cardinality((Free \ {Fresh(Free)})
                       \ {Fresh(Free \ {Fresh(Free)})}) >= 1
  BY <1>1, PickFresh
<1>3. Fresh(Free \ {Fresh(Free), Fresh(Free \ {Fresh(Free)})})
        \in Free \ {Fresh(Free), Fresh(Free \ {Fresh(Free)})}
  <2>1. Free \ {Fresh(Free), Fresh(Free \ {Fresh(Free)})}
          = (Free \ {Fresh(Free)}) \ {Fresh(Free \ {Fresh(Free)})}
    OBVIOUS
  <2>. QED
    BY <1>2, <2>1, PickFresh
<1>. QED
  BY <1>1, <1>2, <1>3, EnqueuePrepare
     DEF TypeOK, Free, PrepareVsgdOnlineLearningStep

LEMMA EstimateEndTypeOK ==
  ASSUME TypeOK, EstimateEnd
  PROVE  TypeOK'
<1>1. CASE adaptive
  BY <1>1, PrepareTypeOK DEF EstimateEnd, TypeOK, NULL
<1>2. CASE ~adaptive
  BY <1>2 DEF EstimateEnd, TypeOK, NULL
<1>. QED
  BY <1>1, <1>2

(* A host call that enqueues one command with an empty wait-list under the *)
(* first free event keeps the queue well formed.                           *)
LEMMA EnqueueFree ==
  ASSUME TypeOK, Free # {}, NEW k \in Kernels
  PROVE  /\ Fresh(Free) \in Events \ DOMAIN queue
         /\ WellFormedQueue(Enqueue(queue, Fresh(Free), Command(k, {})))
         /\ DOMAIN Enqueue(queue, Fresh(Free), Command(k, {}))
              = DOMAIN queue \cup {Fresh(Free)}
<1>1. Fresh(Free) \in Events \ DOMAIN queue
  BY DEF Fresh, Free
<1>2. {} \in SUBSET DOMAIN queue
  OBVIOUS
<1>. QED
  BY <1>1, <1>2, EnqueueCommand DEF TypeOK

LEMMA FeedbackBeginTypeOK ==
  ASSUME TypeOK, FeedbackBegin
  PROVE  TypeOK'
<1>1. nr_of_estimations' \in 0 .. SamplePeriod - 1
  BY ConstantsAssumption DEF FeedbackBegin, TypeOK
<1>2. CASE MaintenancePolicy = "PRR" /\ nr_of_estimations' = 0
  <2>1. "pushSampleEntry" \in Kernels
    BY KernelNames
  <2>. QED
    BY <1>1, <1>2, <2>1, EnqueueFree DEF FeedbackBegin, TypeOK
<1>3. CASE ~(MaintenancePolicy = "PRR" /\ nr_of_estimations' = 0)
  BY <1>1, <1>3 DEF FeedbackBegin, TypeOK
<1>. QED
  BY <1>2, <1>3

LEMMA SampleMaintainedTypeOK ==
  ASSUME TypeOK, SampleMaintained
  PROVE  TypeOK'
BY DEF SampleMaintained, TypeOK, WellFormedQueue

(* The accumulate kernel and, on a full mini-batch, the model kernel that  *)
(* waits for it get two distinct free events; the count wraps at the       *)
(* mini-batch size.                                                        *)
LEMMA RunVsgdTypeOK ==
  ASSUME TypeOK, RunVsgdOnlineLearningStep
  PROVE  /\ WellFormedQueue(queue')
         /\ optimization_event' \in DOMAIN queue' \cup {NULL}
         /\ nr_of_accumulated_gradients' \in 0 .. MinibatchSize - 1
         /\ online_learning_initialized' \in BOOLEAN
<1>1. /\ Fresh(Free) \in Free
      /\ IsFiniteSet(Free \ {Fresh(Free)})
      /\ Cardinality(Free \ {Fresh(Free)}) >= 1
  BY FreeFinite, PickFresh DEF RunVsgdOnlineLearningStep
<1>2. Fresh(Free \ {Fresh(Free)}) \in Free \ {Fresh(Free)}
  BY <1>1, PickFresh
<1>3. /\ "accumulateVsgdOnlineBuffers" \in Kernels
      /\ ModelKernel \in Kernels
  BY KernelNames DEF ModelKernel
<1>4. /\ WellFormedQueue(Enqueue(queue, Fresh(Free),
                           Command("accumulateVsgdOnlineBuffers", {})))
      /\ DOMAIN Enqueue(queue, Fresh(Free),
                        Command("accumulateVsgdOnlineBuffers", {}))
           = DOMAIN queue \cup {Fresh(Free)}
  BY <1>1, <1>3, EnqueueFree
<1>5. /\ Fresh(Free \ {Fresh(Free)})
           \in Events \ DOMAIN Enqueue(queue, Fresh(Free),
                                       Command("accumulateVsgdOnlineBuffers", {}))
      /\ {Fresh(Free)} \in SUBSET DOMAIN Enqueue(queue, Fresh(Free),
                                   Command("accumulateVsgdOnlineBuffers", {}))
  BY <1>2, <1>4 DEF Free
<1>6. /\ WellFormedQueue(Enqueue(Enqueue(queue, Fresh(Free),
                             Command("accumulateVsgdOnlineBuffers", {})),
                           Fresh(Free \ {Fresh(Free)}),
                           Command(ModelKernel, {Fresh(Free)})))
      /\ DOMAIN Enqueue(Enqueue(queue, Fresh(Free),
                             Command("accumulateVsgdOnlineBuffers", {})),
                           Fresh(Free \ {Fresh(Free)}),
                           Command(ModelKernel, {Fresh(Free)}))
           = DOMAIN Enqueue(queue, Fresh(Free),
                             Command("accumulateVsgdOnlineBuffers", {}))
             \cup {Fresh(Free \ {Fresh(Free)})}
  BY <1>3, <1>4, <1>5, EnqueueCommand
<1>7. nr_of_accumulated_gradients' \in 0 .. MinibatchSize - 1
  BY ConstantsAssumption DEF RunVsgdOnlineLearningStep, FullMinibatch, TypeOK
<1>. QED
  BY <1>4, <1>6, <1>7 DEF RunVsgdOnlineLearningStep, TypeOK

LEMMA FeedbackEndTypeOK ==
  ASSUME TypeOK, FeedbackEnd
  PROVE  TypeOK'
<1>1. CASE adaptive
  BY <1>1, RunVsgdTypeOK DEF FeedbackEnd, TypeOK
<1>2. CASE ~adaptive
  BY <1>2 DEF FeedbackEnd, TypeOK
<1>. QED
  BY <1>1, <1>2

(* The SQL functions enqueue one blocking command and wait for it.         *)
LEMMA BlockingTypeOK ==
  ASSUME TypeOK, NEW op, NEW k \in Kernels,
         NEW next \in {"idle", "scott", "blocked", "released"},
         Blocking(op, k, next)
  PROVE  TypeOK'
BY EnqueueFree DEF Blocking, TypeOK

LEMMA ScottsBandwidthSetTypeOK ==
  ASSUME TypeOK, ScottsBandwidthSet
  PROVE  TypeOK'
<1>1. "optimizeBandwidth" \in Kernels
  BY KernelNames
<1>. QED
  BY <1>1, EnqueueFree DEF ScottsBandwidthSet, TypeOK, NULL

LEMMA RegistryReleasedTypeOK ==
  ASSUME TypeOK, RegistryReleased
  PROVE  TypeOK'
<1>1. WellFormedQueue(queue')
  <2>1. DOMAIN queue' = {}
    BY DEF RegistryReleased
  <2>. QED
    BY <2>1, Zenon DEF WellFormedQueue
<1>2. nr_of_accumulated_gradients' \in 0 .. MinibatchSize - 1
  BY ConstantsAssumption DEF RegistryReleased
<1>3. nr_of_estimations' \in 0 .. SamplePeriod - 1
  BY ConstantsAssumption DEF RegistryReleased
<1>. QED
  BY <1>1, <1>2, <1>3 DEF RegistryReleased, TypeOK, NULL

LEMMA UnblockTypeOK ==
  ASSUME TypeOK, Unblock
  PROVE  TypeOK'
BY DEF Unblock, TypeOK, NULL

LEMMA ToggleAdaptiveTypeOK ==
  ASSUME TypeOK, ToggleAdaptive
  PROVE  TypeOK'
BY DEF ToggleAdaptive, TypeOK

(* TypeOK is inductive.                                                     *)
LEMMA NextTypeOK ==
  ASSUME TypeOK, [Next]_vars
  PROVE  TypeOK'
<1>1. /\ {"writeBandwidth", "readBandwidth", "readModel",
          "setScottsBandwidth"} \subseteq Kernels
  BY KernelNames
<1>2. CASE \E e \in Events : Start(e)
  BY <1>2, StartTypeOK
<1>3. CASE \E e \in Events : Finish(e)
  BY <1>3, FinishTypeOK
<1>4. CASE EstimateBegin
  BY <1>4, EstimateBeginTypeOK
<1>5. CASE EstimateEnd
  BY <1>5, EstimateEndTypeOK
<1>6. CASE FeedbackBegin
  BY <1>6, FeedbackBeginTypeOK
<1>7. CASE SampleMaintained
  BY <1>7, SampleMaintainedTypeOK
<1>8. CASE FeedbackEnd
  BY <1>8, FeedbackEndTypeOK
<1>9. CASE SetBandwidth \/ GetBandwidth \/ Persist \/ Reoptimize
  BY <1>1, <1>9, BlockingTypeOK
     DEF SetBandwidth, GetBandwidth, Persist, Reoptimize
<1>10. CASE ScottsBandwidthSet
  BY <1>10, ScottsBandwidthSetTypeOK
<1>14. CASE RegistryReleased
  BY <1>14, RegistryReleasedTypeOK
<1>11. CASE Unblock
  BY <1>11, UnblockTypeOK
<1>12. CASE ToggleAdaptive
  BY <1>12, ToggleAdaptiveTypeOK
<1>13. CASE UNCHANGED vars
  BY <1>13 DEF vars, TypeOK, WellFormedQueue
<1>. QED
  BY <1>2, <1>3, <1>4, <1>5, <1>6, <1>7, <1>8, <1>9, <1>10, <1>11, <1>12,
     <1>13, <1>14 DEF Next

(* The queue of OpenCL commands stays well formed in every reachable       *)
(* state: live events only, each naming a command whose wait-list holds    *)
(* other live events, and optimization_event names a live command, NULL    *)
(* or a completed one.                                                     *)
THEOREM TypeCorrect == Spec => []TypeOK
BY InitTypeOK, NextTypeOK, PTL DEF Spec

====
