SPECIFICATION Spec
CONSTANTS
    c1 = c1
    None = None
    Client = {c1}
    Limits <- MCLimits
    Rest <- MCRest
    MaxClock = 10
    MaxRequests = 9
INVARIANTS TypeOK BurstBound RefusalIsEarned RefusedWereServed
