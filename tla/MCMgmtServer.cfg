SPECIFICATION FairSpec
CONSTANTS
  Client = {c1, c2}
  NULL = NULL
  InitialSlots = 1
  MaxCommands = 2
  Asked = {"counters", "timers", "quit"}
  MaxCounters = 2
  MaxSamples = 2
INVARIANTS
  AnsweredAsAsked
  ListingCoversTable
PROPERTIES
  EveryCommandAnswered
CHECK_DEADLOCK FALSE
