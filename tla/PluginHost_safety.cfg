CONSTANTS
    p1 = p1
    p2 = p2
    b1 = b1
    b2 = b2
    c1 = c1
    r1 = r1
    r2 = r2
    None = None
    NoOffer = NoOffer
    Plugins = {p1}
    Providers = {b1, b2}
    Offers <- BothOrOne
    Reloaders = {r1, r2}
    Callers = {c1}
    MaxProcesses = 3
    MaxInstalls = 1
    MaxFailures = 0
    MaxUpdates = 0
SYMMETRY Symmetry
SPECIFICATION Spec
INVARIANT CurrentIsRouted
INVARIANT DrainedCallsFinish
CHECK_DEADLOCK FALSE
