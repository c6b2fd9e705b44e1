SPECIFICATION Spec
CONSTANTS
    Detach <- DetachAfter
    Drop <- DropAfter
    WithDefault = {"scan_audit_log"}
    MaxMonth = 4
    MaxFaults = 3
INVARIANT
    AuditTypeOK
PROPERTIES
    RetentionKept
    CompletedRunPrepares
    CompletedRunDrops
