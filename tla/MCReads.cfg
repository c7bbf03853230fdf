SPECIFICATION MCSpec
CONSTANTS
    Names = {r1, r2, o1, x1, inv}
    InRoot = {r1, r2}
    Excluded = {x1}
    Controls = {inv}
    MaxChain = 2
    MaxHops = 2
    MaxSPFLookups = 2
    MaxReads = 3
    TargetLists <- MCTargetLists
    CandidateSets <- MCCandidateSets
    Now = 2
    MaxResolved = 2
    MaxUnverified = 1
    RepositorySets <- MCRepositorySets
    RepositoryBudget = 4
    NumKinds = 3
    Leavers <- MCLeavers
    Repos <- MCRepos
    Triggers = {"fired", "none", "closed"}
    ListStates = {"not_listed", "not_write", "denied"}
    FollowUpCap = 2
    Above <- MCAbove
    Carries <- MCCarries
    Class <- MCClass
    Files <- MCFiles
    Asks <- MCAsks
    Lookups <- MCLookups
    Accounts = {"board", "odd", "staff"}
    UnitOf <- MCUnitOf
    Ids <- MCIds
    Contacts <- MCContacts
    KeyDomain <- MCKeyDomain
    Tenant = "t"
    UserMaxPages = 3
    UserMaxItems = 4
    MaxListings = 2
    MaxRows = 1
    PlaceKind <- MCPlaceKind
    Over <- MCOver
    Malformed = Malformed
    Interviews <- MCInterviews
CHECK_DEADLOCK FALSE
INVARIANTS
    LookupsHold
    ReadsEarned
    BudgetHonest
    ExcludeWins
    WrittenAsHeard
PROPERTIES
    EvidenceHeld
    ExcludedUnseen
    ReadsEnd
