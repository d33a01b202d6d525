CONSTANTS
    Handlers <- MCHandlers
    NoHandler = NoHandler
    NoExit = NoExit
    AuxSpawn <- MCAuxSpawn
    Respawn <- MCRespawn
    Internal <- MCInternal
    Cacheable <- MCCacheable
    Structural <- MCStructural
    Masking <- MCMasking
    Ladder <- MCLadder
    Codes = {0, 2}
    Signals = {15}
    RawLens = {0, 201, 20001}
    ViewLens = {0, 200, 281, 282}
SPECIFICATION Spec
INVARIANT FailOpenOnlyIfNothingRan
