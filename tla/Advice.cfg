SPECIFICATION Spec
CONSTANTS
  home = home
  away = away
  m1 = m1
  m2 = m2
  Selections = {home, away}
  Runners = {home, away}
  OddsUnit = 10
  RateUnit = 100
  Markets = {m1, m2}
  NoPlan = NoPlan
  NoLimit = NoLimit
  NoItem = NoItem
  Unknown = Unknown
  Prices = {19, 21, 25}
  Quotes <- MCQuotes
  Policies <- MCPolicies
  Portfolios <- MCPortfolios
SYMMETRY MCSymmetry
INVARIANTS
  ActionableIsSafe
  NoSafePlanMissed
  PortfoliosEquivalent
PROPERTY AlertsExact
