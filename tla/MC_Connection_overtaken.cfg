SPECIFICATION Spec
CONSTANTS
  MaxFailures = 1
  Locators = {A, B}
  Same = Same
  InheritedStates = {"Unresolved"}
  ReentrantAt = {}
  OffOwnerCalls = TRUE
  SchedulerFails = FALSE
  DispatchFails = FALSE
  LateTimers = FALSE
  MaxBatch = 1
  MaxCalls = 2
SYMMETRY LocatorSymmetry
INVARIANTS LocatorHonoured
CHECK_DEADLOCK FALSE
