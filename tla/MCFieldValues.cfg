SPECIFICATION Spec
CONSTANTS
  W = 8
  P = 4
  S = 3
  Limit <- SmallLimits
  Sizes <- SmallSizes
  None = None
INVARIANTS AcceptedIffInt64 StoresAsSaved TransferKeeps
