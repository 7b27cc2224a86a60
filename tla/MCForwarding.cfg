SPECIFICATION FairSpec
CONSTANTS
    Backends = {b1, b2}
    Requests = {r1, r2}
    MaxRetries = 1
    None = None
    FailureThreshold = 2
    Cooldown = 1
    HalfOpenSuccessThreshold = 2
INVARIANTS TypeOK CountsMatchOutcomes OneTruthfulEvent ReplyMatchesAttempts
PROPERTIES TransitionsAreEarned GateReopens RequestsResolve
