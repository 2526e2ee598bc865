--------------------------- MODULE MCEvidenceStore ---------------------------
(***************************************************************************)
(* Instances of EvidenceStore: contents of zero bytes, of exactly the      *)
(* upload limit, just above it, and with an unsupported signature.         *)
(***************************************************************************)
EXTENDS EvidenceStore

CONSTANTS empty, photo, large, unknown

MCSize == [c \in Content |->
    CASE c = empty -> 0 [] c = photo -> 3 [] c = large -> 4 [] c = unknown -> 2]
=============================================================================
