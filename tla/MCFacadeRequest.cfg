SPECIFICATION Spec
CONSTANTS
  Models <- MCModels
  Facades = {"native", "openai", "anthropic"}
  CallNames <- MCCallNames
  ItemIds <- MCItemIds
  MaxText = 1
  PieceSize = 5
  MaxAttempts = 2
  ChunkSize = 2
  MaxRequests = 2
INVARIANTS
  BlocksWellFormed
  CallsReachClientOnce
  HitsAgree
