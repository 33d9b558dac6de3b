--------------------------- MODULE MCKdeEstimator ---------------------------
(***************************************************************************)
(* Instantiates KdeEstimator for TLC.  Six live events cover the longest  *)
(* chain the host can leave in flight (an estimate's gradient, shifted     *)
(* gradient and finalize task, plus an accumulate and an update from the   *)
(* previous feedback, plus a blocking call).  A mini-batch of two and a    *)
(* PRR period of three make the seed, the first update and a sample        *)
(* replacement all happen within three feedbacks, the replacement apart    *)
(* from the mini-batch's end; the device-race run replaces on every        *)
(* feedback (period one).                                                  *)
(***************************************************************************)
EXTENDS KdeEstimator

AllOperations == {"estimate", "feedback", "setBandwidth", "getBandwidth",
                  "persist", "reoptimize", "guc"}

(* Every entry point except GUC changes.                                   *)
SessionOperations == AllOperations \ {"guc"}

(* The planner and executor alone: estimates and their feedback.           *)
QueryOperations == {"estimate", "feedback"}

(* Queries plus SQL bandwidth maintenance, without GUC changes.            *)
MaintenanceOperations == {"estimate", "feedback", "reoptimize", "setBandwidth"}

(* Queries with SET kde_enable_adaptive_bandwidth in between.             *)
GucOperations == {"estimate", "feedback", "guc"}
=============================================================================
