--------------------------- MODULE MCKernelCache ---------------------------
(***************************************************************************)
(* Instantiates KernelCache for TLC.  Tables of one and two dimensions    *)
(* give three build-parameter strings; a registry of two buckets where    *)
(* the strings for 0 and 1 dimensions share a bucket makes the lookup and *)
(* the release walk follow a list of two.  Two contexts let one be        *)
(* released and the next one built.                                        *)
(***************************************************************************)
EXTENDS KernelCache

MCHash == [k \in BuildParams |-> IF k[2] = 2 THEN 1 ELSE 0]
=============================================================================
