CONSTANTS
    plain = plain
    vary = vary
    other = other
    short = short
    long = long
    here = here
    there = there
    Ids <- AllIds
    Bodies <- BothBodies
    Responses <- MCResponses
    Requests <- MCRequests
    KeyOf <- MCKeyOf
    RequestKey <- MCRequestKey
    Matches <- MCMatches
    Locations <- BothLocations
    LocationOf <- MCLocationOf
    Size <- MCSize
    LocationLimit <- MCLocationLimit
    Limits = {2, 3}
    Ttls = {1}
    AbruptEnds = TRUE
    MaxTime = 1
    MaxStarts = 2
    MaxFaults = 1

SPECIFICATION Spec

INVARIANTS Accounted
PROPERTIES ImplementsLossyCache
