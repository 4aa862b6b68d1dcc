SPECIFICATION Spec
CONSTANTS
    w1 = w1  w2 = w2  own = own  common = common  r1 = r1
    None = None
    Threads = {t1, t2}
    Workspaces = {w1, w2}
    Databases = {own, common}
    External = {common}
    Owned <- OwnStores
    Repositories = {r1}
    Found <- Discoveries
    Calls <- Requests
    Faults = {"save", "sync", "create", "crash"}
SYMMETRY ThreadSymmetry
INVARIANTS RegistryTypeOK OneWorkerPerDatabase OneOwner LinksResolve StoresAreServed
    RetiredStaysRetired AttachmentsSurvive
