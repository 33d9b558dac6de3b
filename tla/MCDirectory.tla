---------------------------- MODULE MCDirectory ----------------------------
(***************************************************************************)
(* Instantiates Directory for TLC.  Nothing in directory.c looks at a      *)
(* payload other than to store, move and return it, so the payloads are   *)
(* interchangeable and their permutations a symmetry of the model.         *)
(***************************************************************************)
EXTENDS Directory, TLC

PayloadSymmetry == Permutations(Payload)
=============================================================================
