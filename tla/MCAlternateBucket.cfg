SPECIFICATION ConsumerSpec
CONSTANTS
    h1 = h1
    h2 = h2
    h3 = h3
    f1 = f1
    f2 = f2
    Hashes = {h1, h2, h3}
    Backends = {w1}
    Buckets = {0, 1}
    Fps = {f1, f2}
    Probe <- MCProbe
    Alt <- MCAlt
    Slots = 1
    MaxKicks = 1
    RemoteLanes = {0, 1}
    Regions = {ra}
    NoRegion = none
    Images <- MCImages
    Queries <- MCQueries
PROPERTY EitherBucketCounts
