SPECIFICATION FairSpec
CONSTANTS
  MaxFailures = 3
  Locators = {A}
  Same = Same
  InheritedStates = {"Unresolved", "Connected", "Failed"}
  ReentrantAt <- CheckedPublications
  OffOwnerCalls = TRUE
  SchedulerFails = TRUE
  DispatchFails = TRUE
  LateTimers = TRUE
  MaxBatch = 2
  MaxCalls = 2
INVARIANTS TypeOK StateMatchesActivity ClosedIsQuiet
PROPERTIES LifecycleKept StopIsFinal StopCompletes WaitsEnd RetryLeadsOn
CHECK_DEADLOCK FALSE
