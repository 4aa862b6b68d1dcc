SPECIFICATION Spec
CONSTANTS
    r1 = r1  r2 = r2  seed = seed  f1 = f1  f2 = f2  x = x  y = y  l = l
    None = None
    Paths = {f1, f2}
    Contents = {x, y, l}
    Links = {l}
    Faults = {"io", "crash", "tear"}
    Editable = {f1}
    Arguments <- Calls
    Seed <- SeedUpload
INVARIANTS ArtifactTypeOK PlanIsCommitted OnePending LeftoversCanBeRetried
PROPERTIES DeleteTakesWhatItSaw ImplementsRevisions
