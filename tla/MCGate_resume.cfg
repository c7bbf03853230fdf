CONSTANTS
    a = a
    b = b
    c = c
    org = org
    site = site
    repo = repo
    home = home
    away = away
    hidden = hidden
    deep = deep
    alice = alice
    mallory = mallory
    None = None
    Sends = {a, b}
    Op <- MCOpResume
    Assets = {org}
    Subjects = {repo}
    Place <- MCPlace
    Under <- MCUnder
    Accounts = {alice, mallory}
    Prior <- MCPrior
    Ceiling = "observe"
    Floor = {"github"}
    Retries = 1
    MaxRedirects = 1
    MaxIds = 4
    MaxFaults = 1
    Clock = {}
    WebIds = 0
SPECIFICATION ResumeSpec
INVARIANTS ReuseHolds
PROPERTY SendReturns
CHECK_DEADLOCK FALSE
