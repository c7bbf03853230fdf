CONSTANTS
    w1 = w1
    w2 = w2
    p1 = p1
    p2 = p2
    p3 = p3
    site = site
    org = org
    other = other
    github = github
    Requests = {w1, w2, p1, p2, p3}
    Web = {w1, w2}
    Assets = {site, org, other}
    Asset <- MCAsset
    Providers = {github}
    Provider <- MCProvider
    Throttled = {site, org}
    Addrs = {1, 2}
    Answer <- MCAnswer
    Cap <- MCCap
    Interval <- MCInterval
    MaxDials <- MCMaxDials
SPECIFICATION MCSpec
INVARIANTS SlotsHold
PROPERTIES AllSlotsReturn
CHECK_DEADLOCK FALSE
