------------------------------ MODULE AuditIds ------------------------------
(***************************************************************************)
(* Identities shared by every part of the service.  An audit id is the     *)
(* digest of the actor and of the uploaded bytes, so an audit belongs to   *)
(* one actor and uploading the same file again names the same audit.       *)
(* Digest collisions are left out: distinct uploads are distinct audits.   *)
(***************************************************************************)
CONSTANTS
  Audits,     \* the audit ids that occur
  Actors,     \* the values of the X-Actor-Id header
  OwnerOf     \* the actor whose upload an audit id names

ASSUME OwnerAssumption == OwnerOf \in [Audits -> Actors]
=============================================================================
