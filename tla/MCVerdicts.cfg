CONSTANTS
 Catalog <- MCCatalog
 CustomIds = {"custom"}
 Platform = "linux"
 RuleStatus <- MCRuleStatus
 Evidences = {"e1", "e2"}
 Usable = {"e1"}
 Listeners = {"p1", "p2"}
 Reports <- MCReports
 Contexts <- MCContexts
 Emulated = TRUE
 Judgments <- MCJudgments
 DeclarationSets <- MCDeclarationSets
 Owner <- MCOwner
 Supersedable = {"v"}
 EntryLists <- MCEntryLists
 Days <- MCDays
 Members = {"m1", "m2"}
 Rating = 2
 Threshold = 2
 MaxIterations = 2
 AgentChecks = 2
 AgentWallClock = 2
 ModelInputTotal = 2
 Replies <- MCReplies
 Prices <- MCPrices
 Candidates <- MCCandidates
 MaxItems = 2
 MaxFollowUps = 2
SPECIFICATION Spec
INVARIANTS StoreSound ReportHonest BudgetsHold FiledOnSignal
PROPERTIES FloorKept GradesHold
CHECK_DEADLOCK FALSE
