-------------------------- MODULE MCAuditPartition ---------------------------
(* Instances of AuditPartition for TLC: the order of the two windows of the two
   tables is the one of the code (scan_audit_log shorter), in fewer months. *)
EXTENDS AuditPartition

DetachAfter == [t \in Tables |-> IF t = "scan_audit_log" THEN 1 ELSE 2]
DropAfter == [t \in Tables |-> IF t = "scan_audit_log" THEN 2 ELSE 4]
=============================================================================
