SPECIFICATION Spec
CONSTANTS
  c1 = c1
  c2 = c2
  Callers = {c1, c2}
  NoValue = NoValue
  Competitions = {"epl", "atp", "nba"}
  SportOf <- MCSportOf
  Fixtures <- MCFixtures
  Results <- MCResults
  Catalogues <- MCCatalogues
  Headers <- MCHeaders
  Accounts <- MCAccounts
  RawMarkets <- MCRawMarkets
SYMMETRY MCSymmetry
INVARIANTS
  TelemetryAgrees
  SnapshotOfDiscoveredEvent
  MarketsSettleExclusively
