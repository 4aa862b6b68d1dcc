SPECIFICATION Spec
CONSTANTS
    p = p  q = q  general = general  dev = dev  all = all
    r1 = r1  r2 = r2  r3 = r3  r4 = r4  r5 = r5  r6 = r6
    None = None
    Participants = {p, q}
    Channels = {general, dev}
    General = general
    Broadcast = all
    Calls <- MailCalls
    Faults = {"crash", "io", "foreign"}
INVARIANTS MemoryIsHead LeftoversAreOwned OwnHistoryVerifies MailInv
PROPERTY ImplementsRequestLog
