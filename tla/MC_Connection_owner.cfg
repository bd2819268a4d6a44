SPECIFICATION Spec
CONSTANTS
  MaxFailures = 3
  Locators = {A, B}
  Same = Same
  InheritedStates <- AnyInherited
  ReentrantAt <- CheckedPublications
  OffOwnerCalls = FALSE
  SchedulerFails = TRUE
  DispatchFails = TRUE
  LateTimers = TRUE
  MaxBatch = 2
  MaxCalls = 3
SYMMETRY LocatorSymmetry
INVARIANTS TypeOK StateMatchesActivity OneActivity CancelledTimersInert ClosedIsQuiet AttemptsBounded LocatorHonoured
PROPERTIES StopIsFinal
CHECK_DEADLOCK FALSE
