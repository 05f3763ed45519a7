SPECIFICATION Spec
CONSTANTS
  Chain = {c1, c2, c3, c4}
  Private = {c1}
  MAX_OUTSTANDING = 1
  MAX_DELAYED = 2
INVARIANTS OutstandingExact OneRequestPerChain AcceptedStaysAccepted
PROPERTIES ConsentAskedAnew OverLimitEnds
