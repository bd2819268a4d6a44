SPECIFICATION Spec
CONSTANTS
  MaxFailures = 2
  Locators = {A}
  Same = Same
  InheritedStates = {"Unresolved"}
  ReentrantAt = {"cleared"}
  OffOwnerCalls = FALSE
  SchedulerFails = FALSE
  DispatchFails = FALSE
  LateTimers = FALSE
  MaxBatch = 1
  MaxCalls = 1
INVARIANTS NeverStranded
CHECK_DEADLOCK FALSE
