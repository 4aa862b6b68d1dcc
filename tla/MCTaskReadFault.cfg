SPECIFICATION Spec
CONSTANTS
    r1 = r1  r2 = r2  r3 = r3  r4 = r4  k1 = k1  p = p  q = q
    None = None
    Threads = {t1, t2}
    RequestIds = {r1, r2}
    Tasks = {k1}
    Participants = {p, q}
    Calls <- EditCalls
    Faults = {"read"}
INVARIANT RejectedMeansUntouched
