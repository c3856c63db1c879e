SPECIFICATION Spec
CONSTANTS
  NoEvent = NoEvent
  Event <- Requests
  Pubkey <- MCPubkey
  Stripped <- MCStripped
  ServiceUrl = "wss://here"
  IntMax = 1000
  TagsText <- MCTagsText
  Folded <- MCFolded
  LowerLimit = 0
  UpperLimit = 0
  MinPow = 0
  MaxPurge = 2
  MaxNow = 0
  Legacy <- Empty
  Faults = {"delete"}
INVARIANT RequestHonoured
INVARIANT RemovalIsOwed
PROPERTY KeepsPromise
