--------------------------- MODULE MCAuditService ---------------------------
(***************************************************************************)
(* Instances of AuditService for TLC: every audit is the upload of one     *)
(* actor, so all of them share one glossary.  Audits and workers are       *)
(* interchangeable where only invariants are checked.                      *)
(***************************************************************************)
EXTENDS AuditService, TLC

CONSTANT u1

MCOwnerOf == [a \in Audits |-> u1]

Symmetry == Permutations(Audits) \cup Permutations(Workers)
=============================================================================
