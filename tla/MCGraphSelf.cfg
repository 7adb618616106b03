SPECIFICATION Spec
CONSTANTS
  A = A
  B = B
  C = C
  s1 = s1
  s2 = s2
  NoService = NoService
  NoStamp = NoStamp
  Services <- MCServices
  Steps <- MCSteps
  ServiceOf <- MCServiceOf
  GroupOf <- MCGroupOf
  Groups <- MCGroups
  Stamps <- MCStamps
  Inputs <- SelfInputs
CHECK_DEADLOCK FALSE
INVARIANT CyclesAreDetected
