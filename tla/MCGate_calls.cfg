CONSTANTS
    a = a
    b = b
    c = c
    org = org
    site = site
    repo = repo
    home = home
    away = away
    hidden = hidden
    deep = deep
    alice = alice
    mallory = mallory
    None = None
    Sends = {a, b, c}
    Op <- MCOpCalls
    Assets = {org, site}
    Subjects = {repo, home, away}
    Place <- MCPlace
    Under <- MCUnder
    Accounts = {alice}
    Prior = {}
    Ceiling = "probe"
    Floor = {"github"}
    Retries = 1
    MaxRedirects = 1
    MaxIds = 4
    MaxFaults = 0
    Clock = {"deadline", "window", "cancel"}
    WebIds = 3
SPECIFICATION CallsSpec
SYMMETRY Symmetry
INVARIANTS
    AuditHolds
    PagesHold
    SendsAllowed
PROPERTIES
    WindowCutsReads
CHECK_DEADLOCK FALSE
