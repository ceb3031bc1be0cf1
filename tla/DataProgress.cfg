CONSTANTS
    c1 = c1
    c2 = c2
    Claims <- MCTwoClaims
    MaxIndex = 1
    None = None
    Deletable <- MCNothing
    Pool = TRUE
    Lag = TRUE
    MaxFaults = 2
SPECIFICATION MCSecondUse
INVARIANT
    OneDataPerClaim
PROPERTIES
    ClaimGetsRendered
    RenderedDataGetsReady
