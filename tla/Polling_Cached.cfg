SPECIFICATION Spec
CONSTANTS
  Providers = {1}
  Declaring = {1}
  Caching = {1}
  MaxConcurrency = 1
  MaxAttempts = 2
  Backoff = 1
  FallbackCooldown = 1
  RetryAfters = {0, 2}
  MaxCompetitions = 1
  MaxEvents = 2
  None = None
PROPERTY CachedAskedAgain
