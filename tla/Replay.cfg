SPECIFICATION Spec
CONSTANTS
  home = home
  away = away
  low = low
  high = high
  Selections = {home, away}
  SelectionOf <- MCSelectionOf
  SlotOf <- MCSlotOf
  ProviderOf <- MCProviderOf
  Price <- MCPrice
  PriceScale = 10
  MinMargin = 0
  EventStart = 6
  FreshnessWindow = 2
  NoTimestamp = NoTimestamp
  Keys = {1, 2, 3, 4}
  Offers = {low, high}
  SkewTolerance = 1
  NoVersion = NoVersion
  Unlimited = 1000
  Corpora <- MCCorpora
  Configs <- MCConfigs
  None = None
INVARIANTS
  ReplayMatchesLive
  FalsePositivesAreStale
  ReportAddsUp
CHECK_DEADLOCK FALSE
