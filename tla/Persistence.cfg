SPECIFICATION PersistenceSpec
CONSTANTS
  Processes = {"p1", "p2"}
  Quotes = {"q1", "q2"}
  Opportunities = {"o1"}
  Plans = {"s1"}
  Payloads <- MCPayloads
  OccurredAt <- MCOccurredAt
  QuotesOf <- MCQuotesOf
  OpportunityOf <- MCOpportunityOf
  Jobs <- MCJobs
  Cutoffs = {1, 2}
  MaxCreations = 2
  None = None
INVARIANTS TypeOK WholeOpportunities AuditableUnlessOverlapped RecordedIsComplete ReturnedIsCurrent
PROPERTIES EvidenceProtected AuditTrail
