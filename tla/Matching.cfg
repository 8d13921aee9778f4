SPECIFICATION Spec
CONSTANTS
  None = None
  NoRegistry = NoRegistry
  NoCall = NoCall
  Matchers <- MCMatchers
  Sources <- MCSources
  CompetitionAliases <- MCCompetitionAliases
  ParticipantAliases <- MCParticipantAliases
  StartTolerance = 30
  ReferencedTolerance = 2880
  MinimumConfidence = 8500
  AmbiguityMargin = 250
  Results <- MCResults
INVARIANTS
  SupportedMarketsPartition
  DecisionsAreExact
  ContextOnlyConfirms
