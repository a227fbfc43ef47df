SPECIFICATION FairSpec
CONSTANTS
  MaxInbox = 5
  None = None
INVARIANTS TypeOK AlwaysSearching DisplayMatchesLink WaitMeansSubscribed
PROPERTIES OneProcedureAtATime StallHasCause StallIsForever DiscoveryCompletes
  IndicationsAreConfirmed
