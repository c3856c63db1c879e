SPECIFICATION Spec
CONSTANTS
  NoEvent = NoEvent
  Event <- Brittle
  Pubkey <- MCPubkey
  Stripped <- MCStripped
  ServiceUrl = "wss://here"
  IntMax = 1000
  TagsText <- MCTagsText
  Folded <- MCFolded
  LowerLimit = 0
  UpperLimit = 0
  MinPow = 0
  MaxPurge = 2
  MaxNow = 1
  Legacy <- Inherited
  Faults = {"crash", "read", "delete", "insert", "index"}
INVARIANT TypeOK
INVARIANT DelegationSound
PROPERTY KeepsPromise
