--------------------------- MODULE AuditLogRefinement ---------------------------
(***************************************************************************)
(* The refinement mapping from the audit log to the promise of ChainedLog, *)
(* seen in the lines of the file: the hash an entry carries stands for the *)
(* history it was recorded after.                                          *)
(***************************************************************************)
EXTENDS AuditLog

Trail == INSTANCE ChainedLog
  WITH log <- [k \in 1..Len(file) |-> [content |-> file[k].content, after |-> file[k].prev_hash]]

\* The file (audit_log.py) records the history of events: every line that is
\* added carries the hash of all the lines before it.
RecordsHistory == Trail!Spec
=============================================================================
