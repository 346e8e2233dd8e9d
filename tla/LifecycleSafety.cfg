SPECIFICATION SpecLifecycle
CONSTANTS
    MaxFaults = 3
    Careful = TRUE
INVARIANTS StopReturnsTheRest UpstreamKept RunsOneRelease RemovalSurvivesOneFault
PROPERTIES ImplementsService RetryReturnsAll RestartCompletes
