CONSTANTS
    old = old
    new = new
    None = None
    Urls <- BothUrls
    Slots = {1, 2}

SPECIFICATION ListsFairSpec

INVARIANTS QuietUnlessActive KeepsRefreshing
PROPERTIES SettledConfigurationIsServed
