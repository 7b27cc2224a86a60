SPECIFICATION FairSpec
CONSTANTS
    h1 = h1
    h2 = h2
    f1 = f1
    f2 = f2
    Hashes = {h1, h2}
    Backends = {w1}
    Buckets = {0, 1}
    Fps = {f1, f2}
    Probe <- MCProbe
    Alt <- MCAlt
    Slots = 1
    MaxKicks = 1
    Timer = timer
    Pools = {p1, p2}
    Ingesters = {t1, t2}
    PublicationThreshold = 2
    MaxEvents = 2
    MaxBarriers = 2
INVARIANTS RelayTypeOK NothingStranded AlignedLaneIsExact
PROPERTY ChangesGetPublished
CHECK_DEADLOCK FALSE
