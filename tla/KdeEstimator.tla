---------------------------- MODULE KdeEstimator ----------------------------
(***************************************************************************)
(* One KDE estimator (ocl_estimator.c) driven by a single backend thread   *)
(* against the OpenCL command queue that ocl_initialize creates with       *)
(* CL_QUEUE_OUT_OF_ORDER_EXEC_MODE_ENABLE.  A command may start once every *)
(* event of its wait-list has completed; commands that do not depend on    *)
(* each other may run at the same time, in any order.                      *)
(*                                                                         *)
(* The host side is the selectivity estimation (ocl_estimateSelectivity,   *)
(* rangeKDE), the feedback path (ocl_notifyModelMaintenanceOfSelectivity,  *)
(* with PRR sample maintenance and the VSGD-FD online learning step), and  *)
(* the SQL functions that read or write the bandwidth.  Every blocking     *)
(* OpenCL call splits a host operation into the part before the block and *)
(* the part after it.  Buffer contents are abstracted away: a command is   *)
(* its kernel name, the buffers it reads and writes, and its wait-list.    *)
(***************************************************************************)
EXTENDS Naturals, FiniteSets

CONSTANTS
    MaxEvents,          \* cl_event objects that may be alive at once
    MinibatchSize,      \* kde_adaptive_bandwidth_minibatch_size
    SamplePeriod,       \* kde_sample_maintenance_period
    MaintenancePolicy,  \* kde_sample_maintenance_option: "NONE" or "PRR"
    Operations          \* the entry points the workload calls

ASSUME ConstantsAssumption ==
    /\ MaxEvents \in Nat \ {0}
    /\ MinibatchSize \in Nat \ {0}
    /\ SamplePeriod \in Nat \ {0}
    /\ MaintenancePolicy \in {"NONE", "PRR"}
    /\ Operations \subseteq {"estimate", "feedback", "setBandwidth",
                             "getBandwidth", "persist", "reoptimize", "guc"}

VARIABLES
    queue,                         \* live events -> enqueued command
    optimization_event,            \* bandwidth_optimization->optimization_event
    pc,                            \* where the backend thread is
    waiting,                       \* the event a blocking call waits for
    open_estimation,               \* estimator->open_estimation
    nr_of_accumulated_gradients,   \* descriptor->nr_of_accumulated_gradients
    online_learning_initialized,   \* descriptor->online_learning_initialized
    vsgd_buffers,                  \* descriptor->gradient_accumulator != NULL
    nr_of_estimations,             \* stats->nr_of_estimations, modulo the period
    adaptive,                      \* GUC kde_enable_adaptive_bandwidth
    seeded                         \* history: an initialize kernel has completed

vars == <<queue, optimization_event, pc, waiting, open_estimation,
          nr_of_accumulated_gradients, online_learning_initialized,
          vsgd_buffers, nr_of_estimations, adaptive, seeded>>

Events == 1 .. MaxEvents
NULL == 0                        \* a cl_event variable holding NULL
CompletedEvent == MaxEvents + 1  \* a retained event whose command is done

Buffers == {"input", "bandwidth", "sample", "local_results", "temp_gradient",
            "temp_shifted", "accumulators", "running_averages"}

(* The device buffers each command reads and writes, from the kernel       *)
(* arguments set before each clEnqueue* call.                              *)
Reads == [input_transfer              |-> {},
          kde                         |-> {"input", "bandwidth", "sample"},
          computePartialGradient      |-> {"input", "bandwidth", "sample"},
          computeShiftedGradient      |-> {"input", "bandwidth", "sample",
                                           "running_averages"},
          finalizeEstimate            |-> {"temp_shifted"},
          accumulateVsgdOnlineBuffers |-> {"temp_gradient", "temp_shifted",
                                           "bandwidth", "running_averages",
                                           "accumulators"},
          updateVsgdOnlineEstimate    |-> {"accumulators", "running_averages",
                                           "bandwidth"},
          initializeVsgdOnlineEstimate |-> {"accumulators"},
          setScottsBandwidth          |-> {"sample"},
          optimizeBandwidth           |-> {"sample", "bandwidth"},
          writeBandwidth              |-> {},
          readBandwidth               |-> {"bandwidth"},
          readModel                   |-> {"bandwidth", "sample"},
          pushSampleEntry             |-> {}]

Writes == [input_transfer              |-> {"input"},
           kde                         |-> {"local_results"},
           computePartialGradient      |-> {"temp_gradient"},
           computeShiftedGradient      |-> {"temp_shifted"},
           finalizeEstimate            |-> {"temp_shifted"},
           accumulateVsgdOnlineBuffers |-> {"accumulators"},
           updateVsgdOnlineEstimate    |-> {"accumulators", "running_averages",
                                            "bandwidth"},
           initializeVsgdOnlineEstimate |-> {"accumulators", "running_averages"},
           setScottsBandwidth          |-> {"bandwidth"},
           optimizeBandwidth           |-> {"bandwidth"},
           writeBandwidth              |-> {"bandwidth"},
           readBandwidth               |-> {},
           readModel                   |-> {},
           pushSampleEntry             |-> {"sample"}]

Kernels == DOMAIN Reads

CommandType == [kernel : Kernels, wait : SUBSET Events, running : BOOLEAN]

Command(k, wait) == [kernel |-> k, wait |-> wait, running |-> FALSE]

(* clEnqueue*: the queue gains command c under the new event e.           *)
Enqueue(q, e, c) == [f \in DOMAIN q \cup {e} |-> IF f = e THEN c ELSE q[f]]

Free == Events \ DOMAIN queue

(* A free event.  The choice is a fixed function of the set, so equal      *)
(* queues get equal names.                                                  *)
Fresh(S) == CHOOSE e \in S : TRUE

(* A wait-list entry for an event variable: NULL and completed events do   *)
(* not hold a command back.                                                *)
WaitOn(e) == IF e \in DOMAIN queue THEN {e} ELSE {}

-----------------------------------------------------------------------------
(* Device: a command starts when its wait-list is empty and finishes later. *)

Start(e) ==
    /\ e \in DOMAIN queue
    /\ ~queue[e].running
    /\ queue[e].wait = {}
    /\ queue' = [queue EXCEPT ![e].running = TRUE]
    /\ UNCHANGED <<optimization_event, pc, waiting, open_estimation,
                   nr_of_accumulated_gradients, online_learning_initialized,
                   vsgd_buffers, nr_of_estimations, adaptive, seeded>>

Finish(e) ==
    /\ e \in DOMAIN queue
    /\ queue[e].running
    /\ queue' = [f \in DOMAIN queue \ {e} |-> [queue[f] EXCEPT !.wait = @ \ {e}]]
    /\ optimization_event' = IF optimization_event = e THEN CompletedEvent
                                                      ELSE optimization_event
    /\ seeded' = (seeded \/ queue[e].kernel = "initializeVsgdOnlineEstimate")
    /\ UNCHANGED <<pc, waiting, open_estimation, nr_of_accumulated_gradients,
                   online_learning_initialized, vsgd_buffers,
                   nr_of_estimations, adaptive>>

-----------------------------------------------------------------------------
(* Selectivity estimation.                                                  *)

(* A mutant: the KDE kernel waits for the query bounds only.              *)
KdeWaitListBoundsOnly(input) == {input}

(* rangeKDE: the KDE kernel waits for the query bounds and, when one is    *)
(* set, for the pending optimization_event.                                *)
KdeWaitList(input) == {input} \cup WaitOn(optimization_event)

(* ocl_estimateSelectivity up to the blocking read of the result in        *)
(* rangeKDE: transfer the bounds, launch the KDE kernel and its sum,       *)
(* release optimization_event.                                             *)
EstimateBegin ==
    /\ pc = "idle"
    /\ "estimate" \in Operations
    /\ Cardinality(Free) >= 2
    /\ LET i == Fresh(Free)
           k == Fresh(Free \ {i})
       IN /\ queue' = Enqueue(Enqueue(queue, i, Command("input_transfer", {})),
                                   k, Command("kde", KdeWaitList(i)))
          /\ waiting' = k
    /\ optimization_event' = NULL
    /\ pc' = "estimate"
    /\ UNCHANGED <<open_estimation, nr_of_accumulated_gradients,
                   online_learning_initialized, vsgd_buffers,
                   nr_of_estimations, adaptive, seeded>>

(* ocl_prepareVsgdOnlineLearningStep: the gradient and the shifted         *)
(* gradient (each a partial-gradient kernel and its sums) have empty       *)
(* wait-lists; the finalize task waits for both and becomes the            *)
(* optimization_event.                                                     *)
PrepareVsgdOnlineLearningStep ==
    LET g == Fresh(Free)
        s == Fresh(Free \ {g})
        f == Fresh(Free \ {g, s})
    IN /\ Cardinality(Free) >= 3
       /\ queue' = Enqueue(Enqueue(Enqueue(queue,
                              g, Command("computePartialGradient", {})),
                              s, Command("computeShiftedGradient", {})),
                              f, Command("finalizeEstimate", {g, s}))
       /\ optimization_event' = f

(* The rest of ocl_estimateSelectivity once the result is read: open the   *)
(* estimation and, with adaptive bandwidth on, prepare the online step.    *)
(* The first preparation allocates the VSGD buffers and ends in clFinish.  *)
EstimateEnd ==
    /\ pc = "estimate"
    /\ waiting \notin DOMAIN queue
    /\ open_estimation' = TRUE
    /\ IF adaptive
         THEN /\ vsgd_buffers \/ DOMAIN queue = {}
              /\ PrepareVsgdOnlineLearningStep
              /\ vsgd_buffers' = TRUE
         ELSE UNCHANGED <<queue, optimization_event, vsgd_buffers>>
    /\ pc' = "idle"
    /\ waiting' = NULL
    /\ UNCHANGED <<nr_of_accumulated_gradients, online_learning_initialized,
                   nr_of_estimations, adaptive, seeded>>

-----------------------------------------------------------------------------
(* Feedback from the executor (kde_finish).                                 *)

(* ocl_notifyModelMaintenanceOfSelectivity up to the online step: count    *)
(* the estimation and, under PRR, every SamplePeriod-th time overwrite a   *)
(* random sample slot (ocl_pushEntryToSampleBufer: a non-blocking write    *)
(* with an empty wait-list, then clFinish).                                *)
FeedbackBegin ==
    /\ pc = "idle"
    /\ "feedback" \in Operations
    /\ open_estimation
    /\ nr_of_estimations' = (nr_of_estimations + 1) % SamplePeriod
    /\ IF MaintenancePolicy = "PRR" /\ nr_of_estimations' = 0
         THEN /\ Free # {}
              /\ queue' = Enqueue(queue, Fresh(Free), Command("pushSampleEntry", {}))
              /\ pc' = "maintenance"
         ELSE /\ pc' = "online"
              /\ UNCHANGED queue
    /\ UNCHANGED <<optimization_event, waiting, open_estimation,
                   nr_of_accumulated_gradients, online_learning_initialized,
                   vsgd_buffers, adaptive, seeded>>

(* The clFinish that ends ocl_pushEntryToSampleBufer.                       *)
SampleMaintained ==
    /\ pc = "maintenance"
    /\ DOMAIN queue = {}
    /\ pc' = "online"
    /\ UNCHANGED <<queue, optimization_event, waiting, open_estimation,
                   nr_of_accumulated_gradients, online_learning_initialized,
                   vsgd_buffers, nr_of_estimations, adaptive, seeded>>

(* A mutant: the mini-batch test is off by one.                           *)
FullMinibatchLate == nr_of_accumulated_gradients + 1 > MinibatchSize

(* The mini-batch is full once this feedback's gradient is counted.        *)
FullMinibatch == nr_of_accumulated_gradients + 1 >= MinibatchSize

(* A full mini-batch updates the bandwidth once the averages are seeded,   *)
(* and seeds them otherwise.                                               *)
ModelKernel ==
    IF online_learning_initialized THEN "updateVsgdOnlineEstimate"
                                   ELSE "initializeVsgdOnlineEstimate"

(* ocl_runVsgdOnlineLearningStep after its blocking read (which waits on   *)
(* optimization_event and then sets it to NULL): accumulate with an empty  *)
(* wait-list; on a full mini-batch enqueue the model kernel after the      *)
(* accumulation as the new optimization_event and reset the count.         *)
(* Without the VSGD buffers every enqueue fails and only the host state    *)
(* moves.                                                                  *)
RunVsgdOnlineLearningStep ==
    LET a == Fresh(Free)
        m == Fresh(Free \ {a})
        accumulated == Enqueue(queue, a, Command("accumulateVsgdOnlineBuffers", {}))
    IN /\ Cardinality(Free) >= 2
       /\ queue' = IF ~vsgd_buffers THEN queue
                   ELSE IF FullMinibatch THEN Enqueue(accumulated, m, Command(ModelKernel, {a}))
                   ELSE accumulated
       /\ optimization_event' = IF FullMinibatch /\ vsgd_buffers THEN m ELSE NULL
       /\ online_learning_initialized' = (online_learning_initialized \/ FullMinibatch)
       /\ nr_of_accumulated_gradients' =
              IF FullMinibatch THEN 0 ELSE nr_of_accumulated_gradients + 1

(* ocl_runOnlineLearningStep and the end of                                *)
(* ocl_notifyModelMaintenanceOfSelectivity: close the estimation.          *)
FeedbackEnd ==
    /\ pc = "online"
    /\ IF adaptive
         THEN /\ optimization_event \notin DOMAIN queue
              /\ RunVsgdOnlineLearningStep
         ELSE UNCHANGED <<queue, optimization_event, online_learning_initialized,
                          nr_of_accumulated_gradients>>
    /\ open_estimation' = FALSE
    /\ pc' = "idle"
    /\ UNCHANGED <<waiting, vsgd_buffers, nr_of_estimations, adaptive, seeded>>

-----------------------------------------------------------------------------
(* SQL functions on the bandwidth and the model.                            *)

(* A blocking transfer or kernel chain with an empty wait-list.            *)
Blocking(op, k, next) ==
    /\ pc = "idle"
    /\ op \in Operations
    /\ Free # {}
    /\ queue' = Enqueue(queue, Fresh(Free), Command(k, {}))
    /\ waiting' = Fresh(Free)
    /\ pc' = next
    /\ UNCHANGED <<optimization_event, open_estimation,
                   nr_of_accumulated_gradients, online_learning_initialized,
                   vsgd_buffers, nr_of_estimations, adaptive, seeded>>

(* ocl_setKDEBandwidth: blocking clEnqueueWriteBuffer of the bandwidth.    *)
SetBandwidth == Blocking("setBandwidth", "writeBandwidth", "blocked")

(* ocl_getBandwidth: blocking clEnqueueReadBuffer of the bandwidth.        *)
GetBandwidth == Blocking("getBandwidth", "readBandwidth", "blocked")

(* ocl_releaseRegistry, from the assign hooks of kde_enable, ocl_use_gpu   *)
(* and kde_samplesize: ocl_updateEstimatorInCatalog reads the bandwidth,   *)
(* the sample and the karma with blocking reads that wait for nothing.     *)
Persist == Blocking("persist", "readModel", "released")

(* The rest of ocl_releaseRegistry and the assign hook: the estimator is   *)
(* freed and the context released; the next ocl_estimateSelectivity       *)
(* rebuilds the registry from the catalog, so the estimator starts again   *)
(* with a fresh descriptor and fresh stats.  Commands of the freed         *)
(* estimator still in flight touch only its own buffers, whose release     *)
(* OpenCL defers until they complete, so they leave the model.             *)
RegistryReleased ==
    /\ pc = "released"
    /\ waiting \notin DOMAIN queue
    /\ queue' = <<>>
    /\ optimization_event' = NULL
    /\ pc' = "idle"
    /\ waiting' = NULL
    /\ open_estimation' = FALSE
    /\ nr_of_accumulated_gradients' = 0
    /\ online_learning_initialized' = FALSE
    /\ vsgd_buffers' = FALSE
    /\ nr_of_estimations' = 0
    /\ seeded' = FALSE
    /\ UNCHANGED adaptive

(* A mutant: Scott's rule is enqueued and not waited for.                  *)
ReoptimizeNoWait == Blocking("reoptimize", "setScottsBandwidth", "idle")

(* ocl_reoptimizeBandwidth -> ocl_runModelOptimization: Scott's rule,      *)
(* waited for with clWaitForEvents.                                        *)
Reoptimize == Blocking("reoptimize", "setScottsBandwidth", "scott")

(* The rest of ocl_runModelOptimization: return when optimization is off   *)
(* or there is no feedback, else read the bandwidth, run nlopt and write   *)
(* the result, each a blocking call with an empty wait-list.               *)
ScottsBandwidthSet ==
    /\ pc = "scott"
    /\ waiting \notin DOMAIN queue
    /\ \/ /\ pc' = "idle"
          /\ waiting' = NULL
          /\ UNCHANGED queue
       \/ /\ Free # {}
          /\ queue' = Enqueue(queue, Fresh(Free), Command("optimizeBandwidth", {}))
          /\ waiting' = Fresh(Free)
          /\ pc' = "blocked"
    /\ UNCHANGED <<optimization_event, open_estimation,
                   nr_of_accumulated_gradients, online_learning_initialized,
                   vsgd_buffers, nr_of_estimations, adaptive, seeded>>

(* The blocking call returns.                                              *)
Unblock ==
    /\ pc = "blocked"
    /\ waiting \notin DOMAIN queue
    /\ pc' = "idle"
    /\ waiting' = NULL
    /\ UNCHANGED <<queue, optimization_event, open_estimation,
                   nr_of_accumulated_gradients, online_learning_initialized,
                   vsgd_buffers, nr_of_estimations, adaptive, seeded>>

(* SET kde_enable_adaptive_bandwidth between statements (no assign hook).  *)
ToggleAdaptive ==
    /\ pc = "idle"
    /\ "guc" \in Operations
    /\ adaptive' = ~adaptive
    /\ UNCHANGED <<queue, optimization_event, pc, waiting, open_estimation,
                   nr_of_accumulated_gradients, online_learning_initialized,
                   vsgd_buffers, nr_of_estimations, seeded>>

-----------------------------------------------------------------------------

Init ==
    /\ queue = <<>>
    /\ optimization_event = NULL
    /\ pc = "idle"
    /\ waiting = NULL
    /\ open_estimation = FALSE
    /\ nr_of_accumulated_gradients = 0
    /\ online_learning_initialized = FALSE
    /\ vsgd_buffers = FALSE
    /\ nr_of_estimations = 0
    /\ adaptive \in BOOLEAN
    /\ seeded = FALSE

Next ==
    \/ \E e \in Events : Start(e) \/ Finish(e)
    \/ EstimateBegin \/ EstimateEnd
    \/ FeedbackBegin \/ SampleMaintained \/ FeedbackEnd
    \/ SetBandwidth \/ GetBandwidth \/ Persist \/ RegistryReleased
    \/ Reoptimize \/ ScottsBandwidthSet \/ Unblock
    \/ ToggleAdaptive

Spec == Init /\ [][Next]_vars

-----------------------------------------------------------------------------
(* Properties.                                                              *)

(* Every live event names a command whose wait-list holds only other live  *)
(* events.                                                                 *)
WellFormedQueue(q) ==
    /\ DOMAIN q \subseteq Events
    /\ \A e \in DOMAIN q : q[e] \in CommandType
    /\ \A e \in DOMAIN q : q[e].wait \subseteq DOMAIN q \ {e}

TypeOK ==
    /\ WellFormedQueue(queue)
    /\ optimization_event \in DOMAIN queue \cup {NULL, CompletedEvent}
    /\ pc \in {"idle", "estimate", "maintenance", "online", "scott", "blocked",
              "released"}
    /\ waiting \in Events \cup {NULL}
    /\ open_estimation \in BOOLEAN
    /\ nr_of_accumulated_gradients \in 0 .. MinibatchSize - 1
    /\ online_learning_initialized \in BOOLEAN
    /\ vsgd_buffers \in BOOLEAN
    /\ nr_of_estimations \in 0 .. SamplePeriod - 1
    /\ adaptive \in BOOLEAN
    /\ seeded \in BOOLEAN

(* Spec 4.2 and 5: a bandwidth write always completes before the next     *)
(* evaluation's KDE kernel reads it.  While a KDE kernel runs, no command  *)
(* that writes the bandwidth is still queued or running (rangeKDE waits on *)
(* the online update's optimization_event; every other writer is waited   *)
(* for by the host before it returns).                                     *)
KdeReadsSettledBandwidth ==
    \A k \in DOMAIN queue :
        (queue[k].kernel = "kde" /\ queue[k].running)
            => \A w \in DOMAIN queue : "bandwidth" \notin Writes[queue[w].kernel]

(* Spec 4.3: the first full mini-batch seeds the running averages and     *)
(* only later batches update the bandwidth.  An update kernel runs only    *)
(* after an initialize kernel has completed and none is still queued.      *)
SeedBeforeUpdate ==
    \A u \in DOMAIN queue :
        (queue[u].kernel = "updateVsgdOnlineEstimate" /\ queue[u].running)
            => /\ seeded
               /\ \A i \in DOMAIN queue :
                     queue[i].kernel # "initializeVsgdOnlineEstimate"

(* Between host calls every queued command that writes the bandwidth is   *)
(* the optimization_event, so the next rangeKDE waits for it.              *)
PendingBandwidthWriteTracked ==
    pc = "idle" =>
        \A w \in DOMAIN queue :
            "bandwidth" \in Writes[queue[w].kernel] => w = optimization_event

(* Spec 5: commands with a true data dependency on buffer b are ordered   *)
(* by wait-lists, so no two commands run at the same time while one of    *)
(* them writes b and the other reads or writes it.                        *)
RaceFree(b) ==
    \A c, d \in DOMAIN queue :
        (c # d /\ queue[c].running /\ queue[d].running)
            => ~(/\ b \in Writes[queue[c].kernel]
                 /\ b \in Reads[queue[d].kernel] \cup Writes[queue[d].kernel])

(* Spec 5, for every buffer the kernels share: the bounds in input_buffer, *)
(* temp_gradient_buffer between the accumulate kernel and the next         *)
(* estimate's gradient sums, the bandwidth between the SQL functions and   *)
(* the online update, sample_buffer between PRR and the gradient kernels,  *)
(* and the VSGD running averages: no write overlaps another access.        *)
DataDependenciesOrdered ==
    \A b \in {"input", "temp_gradient", "bandwidth", "sample", "running_averages"} :
        RaceFree(b)

(* Why the KDE kernel reads a settled bandwidth: a command runs only with   *)
(* an empty wait-list; a KDE kernel is the one rangeKDE blocks on; and     *)
(* every queued bandwidth writer is the optimization_event between host    *)
(* calls, a dependency of the KDE kernel during an estimate, and the       *)
(* blocking call itself or the optimization_event inside a SQL function.   *)
BandwidthWriter(w) == "bandwidth" \in Writes[queue[w].kernel]

BandwidthInv ==
    /\ TypeOK
    /\ \A e \in DOMAIN queue : queue[e].running => queue[e].wait = {}
    /\ \A e \in DOMAIN queue :
          queue[e].kernel = "kde" => pc = "estimate" /\ waiting = e
    /\ \A w \in DOMAIN queue : BandwidthWriter(w) =>
          /\ pc \in {"idle", "maintenance", "online"} => w = optimization_event
          /\ pc = "estimate" => waiting \in DOMAIN queue /\ w \in queue[waiting].wait
          /\ pc \in {"scott", "blocked", "released"} =>
                w \in {waiting, optimization_event}

=============================================================================
