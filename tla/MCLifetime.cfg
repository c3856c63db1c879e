SPECIFICATION FairSpec
CONSTANTS
  NoEvent = NoEvent
  Event <- Perishable
  Pubkey <- MCPubkey
  Stripped <- MCStripped
  ServiceUrl = "wss://here"
  IntMax = 1000
  TagsText <- MCTagsText
  Folded <- MCFolded
  LowerLimit = 1
  UpperLimit = 1
  MinPow = 8
  MaxPurge = 3
  MaxNow = 3
  Legacy <- Older
  Faults = {"mark"}
INVARIANT DelegationComplete
PROPERTY ExpiredSwept
PROPERTY KeepsPromise
