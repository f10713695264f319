--------------------------- MODULE MCAloofClient ---------------------------
(***************************************************************************)
(* Instances of AloofClient for TLC.  Callers are model values; those of a *)
(* run that checks no liveness property are interchangeable.               *)
(***************************************************************************)
EXTENDS AloofClient, TLC

CallerSymmetry == Permutations(Callers)
=============================================================================
