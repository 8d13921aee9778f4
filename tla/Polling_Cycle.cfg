SPECIFICATION Spec
CONSTANTS
  Providers = {1, 2}
  Declaring = {1, 2}
  Caching = {2}
  MaxConcurrency = 1
  MaxAttempts = 2
  Backoff = 1
  FallbackCooldown = 2
  RetryAfters = {1}
  MaxCompetitions = 1
  MaxEvents = 1
  None = None
INVARIANTS TypeOK PolledOnlyWhenOpen CoolingIsDegraded BoundedConcurrency
PROPERTIES CycleCompletes AskedAgain
