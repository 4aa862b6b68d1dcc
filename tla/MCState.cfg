SPECIFICATION Spec
CONSTANTS
    r1 = r1  r2 = r2  r3 = r3  r4 = r4  r5 = r5  m1 = m1  p = p
    None = None
    Clients = {c1, c2}
    RequestIds = {r1, r2, r3, r4, r5}
    Participants = {p}
    Markers = {m1}
    MaxStates = 3
    MaxTransitions = 4
    MaxPrerequisites = 2
    MaxCapabilities = 1
    Arguments <- Calls
SYMMETRY ClientSymmetry
INVARIANTS StateTypeOK HistoryIsChain AdvanceWasJustified OpportunityWasReal
PROPERTIES DetachedStateIsFrozen ImplementsVersionedMarkers
