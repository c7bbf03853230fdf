CONSTANTS
    u1 = u1
    u2 = u2
    root = root
    other = other
    None = None
    Users = {u1, u2}
    Subject = u1
    ServiceAccount = TRUE
    Selected = {"oauth", "mail"}
    Names = {root, other}
    Root = root
    DomainOf <- MCDomainOf
    DomainLists <- MCDomainLists
    AliasLists <- MCAliasLists
    UserPages <- MCUserPages
    From = 1
    Until = 2
    Cap = 2
    BreakerFirst = 1
    BreakerInARow = 2
    MaxPages = 2
    MaxLife = 2
    MaxTime = 2
    MaxAuths = 2
SPECIFICATION Spec
INVARIANTS OneAuthentication SignInsHold ActedAsComplete
CHECK_DEADLOCK FALSE
