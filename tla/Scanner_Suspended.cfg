SPECIFICATION Spec
CONSTANTS
  home = home
  away = away
  low = low
  high = high
  Selections = {home, away}
  SelectionOf <- SingleSelectionOf
  SlotOf <- SingleSlotOf
  Price <- MCPrice
  PriceScale = 10
  MinMargin = 5
  EventStart = 3
  NoTimestamp = NoTimestamp
  NoVersion = NoVersion
  Keys = {1, 2, 3, 4}
  Offers = {low, high}
  FreshnessWindow = 2
  SkewTolerance = 0
  MaxTime = 3
  MaxRevision = 2
  Transports = {"f1"}
  Providers = {"p1", "p2"}
  KeyOf <- SingleKeyOf
  Polls <- SuspendedPolls
  MultiSource = FALSE
INVARIANT SuspendedNotEligible
