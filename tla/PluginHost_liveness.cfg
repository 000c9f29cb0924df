CONSTANTS
    p1 = p1
    p2 = p2
    b1 = b1
    b2 = b2
    c1 = c1
    r1 = r1
    r2 = r2
    None = None
    NoOffer = NoOffer
    Plugins = {p1}
    Providers = {b1}
    Offers <- OnlyOne
    Reloaders = {r1, r2}
    Callers = {c1}
    MaxProcesses = 2
    MaxInstalls = 0
    MaxFailures = 1
    MaxUpdates = 1
SPECIFICATION FairSpec
INVARIANT RoutedIsServed
PROPERTY ManagerReturns
CHECK_DEADLOCK FALSE
