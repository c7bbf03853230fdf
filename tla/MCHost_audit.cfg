SPECIFICATION Spec
CONSTANTS
    Plan <- MCPlan
    Modes = {"local", "ssh"}
    Elevates = {"none", "sudo"}
    MaxLost = 1
INVARIANTS
    AuditWhole
