SPECIFICATION Spec
CONSTANTS
    Detach <- DetachAfter
    Drop <- DropAfter
    WithDefault = {"rule_audit_log", "scan_audit_log"}
    MaxMonth = 3
    MaxFaults = 0
INVARIANT
    PartitionReady
