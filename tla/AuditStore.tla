----------------------------- MODULE AuditStore -----------------------------
(***************************************************************************)
(* The directory data/audits/<audit id> of each audit, reduced to what the *)
(* API, the workers, the reconciler and the sweeper look at: owner.json,   *)
(* report.json, meta.json and the age of the directory.  The intermediate  *)
(* artifacts of the stages are the subject of PipelineRun.                 *)
(*                                                                         *)
(* report : "none", "clean" (a report without questions, status succeeded  *)
(*          or degraded) or "questions" (status needs_input)               *)
(* meta   : "none", "ready" (written by explain for the report beside it)  *)
(*          or "failed" (written by Pipeline.run when a stage fails)       *)
(* old    : the directory's mtime is before the retention cutoff           *)
(***************************************************************************)
EXTENDS AuditIds

VARIABLE disk

Reports == {"none", "clean", "questions"}
Metas   == {"none", "ready", "failed"}

Folder == [owner : BOOLEAN, report : Reports, meta : Metas, old : BOOLEAN]

StoreTypeOK == disk \in [Audits -> Folder]

NoFolder == [owner |-> FALSE, report |-> "none", meta |-> "none", old |-> FALSE]

StoreInit == disk = [a \in Audits |-> NoFolder]

HasReport(a) == disk[a].report # "none"
HasMeta(a)   == disk[a].meta # "none"

(* The explain stage is skipped when its whole set of files exists. *)
Complete(a) == HasReport(a) /\ HasMeta(a)

(* mkdir, source.xlsx and owner.json of an upload: files that exist already *)
(* are left as they are, and then the directory keeps its age.              *)
Stored(a) ==
  disk' = [disk EXCEPT ![a].owner = TRUE, ![a].old = @ /\ disk[a].owner]

(* The explain stage publishes a report, then the meta.json that commits it. *)
Published(a, r) == disk' = [disk EXCEPT ![a].report = r, ![a].old = FALSE]
Committed(a, m) == disk' = [disk EXCEPT ![a].meta = m, ![a].old = FALSE]

(* apply_hitl: the answers go to the glossary and every file from           *)
(* mapping.json to meta.json is unlinked.                                   *)
TailDropped(a) ==
  disk' = [disk EXCEPT ![a] = [@ EXCEPT !.report = "none", !.meta = "none", !.old = FALSE]]

(* shutil.rmtree of an expired directory. *)
Removed(a) == disk' = [disk EXCEPT ![a] = NoFolder]

(* Fourteen days pass without a write to the directory. *)
Aged(a) == disk' = [disk EXCEPT ![a].old = TRUE]
=============================================================================
