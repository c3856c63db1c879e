SPECIFICATION FairSpec
CONSTANTS
  NoEvent = NoEvent
  Event <- Starving
  Pubkey <- MCPubkey
  Stripped <- MCStripped
  ServiceUrl = "wss://here"
  IntMax = 1000
  TagsText <- MCTagsText
  Folded <- MCFolded
  LowerLimit = 1
  UpperLimit = 1
  MinPow = 8
  MaxPurge = 1
  MaxNow = 3
  Legacy <- Empty
  Faults = {}
PROPERTY ExpiredSwept
