SPECIFICATION Spec
CONSTANTS
    j1 = j1
    j2 = j2
    site = site
    cdn = cdn
    home = home
    a = a
    b = b
    bb = bb
    c = c
    d = d
    secret = secret
    intranet = intranet
    away = away
    pic = pic
    loop = loop
    None = None
    Job = {j1, j2}
    Url = {home, a, b, bb, c, d, secret, intranet, away, pic, loop}
    Host = {site, cdn}
    HostOf <- MCHostOf
    Seeds <- MCSeeds
    Scope <- MCScope
    MediaFile = {pic}
    Blocked = {intranet}
    Disallowed = {secret}
    Redirect <- MCRedirect
    Links <- MCLinks
    Media <- MCMedia
    MaxPages <- MCMaxPages
    MaxDepth <- MCMaxDepth
    MaxRedirects = 2
    MaxRestarts = 1
INVARIANTS
    TypeOK
    WalkExact
    SpacedPerJob
    RobotsKept
PROPERTIES
    EndsWithReport
    TasksEnd
CHECK_DEADLOCK FALSE
