SPECIFICATION Spec
CONSTANTS
    Plan <- MCPlan
    Modes = {"local", "ssh", "jump"}
    Elevates = {"none", "sudo"}
    MaxLost = 2
INVARIANTS
    HostAccounts
PROPERTIES
    KeepsPromise
    HostReturns
