---------------------------- MODULE MCForensicApi ----------------------------
(***************************************************************************)
(* Instances of ForensicApi: a few interchangeable cases, contents and     *)
(* requests; Faults chooses what may go wrong in each.                     *)
(***************************************************************************)
EXTENDS ForensicApi, TLC

Symmetry == Permutations(Case) \cup Permutations(Content) \cup Permutations(Upload)
               \cup Permutations(Analysis)
=============================================================================
