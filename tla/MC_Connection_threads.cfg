SPECIFICATION FairSpec
CONSTANTS
  MaxFailures = 2
  Locators = {A}
  Same = Same
  InheritedStates = {"Unresolved"}
  ReentrantAt <- CheckedPublications
  OffOwnerCalls = TRUE
  SchedulerFails = TRUE
  DispatchFails = TRUE
  LateTimers = TRUE
  MaxBatch = 2
  MaxCalls = 2
INVARIANTS StateMatchesActivity OneActivity ClosedIsQuiet
PROPERTIES StopIsFinal StopCompletes CloseCompletes WaitsEnd RetryLeadsOn
CHECK_DEADLOCK FALSE
