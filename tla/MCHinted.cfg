SPECIFICATION RelaySpec
CONSTANTS
  NoEvent = NoEvent
  Event <- Hinted
  FilterLists <- HintedLists
  CountLists = {}
  Connection <- One
  SubId = {"s1"}
  MaxSubscriptions = 1
  MaxChallenge = 2
  NoRandom = FALSE
  MaxLimit = 3
  MaxParams = 6
  MaxAuthors = 4
  Pubkey <- MCPubkey
  Stripped <- MCStripped
  ServiceUrl = "wss://here/"
  IntMax = 1000
  TagsText <- MCTagsText
  Folded <- MCFolded
  LowerLimit = 0
  UpperLimit = 0
  MinPow = 0
  MaxPurge = 2
  MaxNow = 0
  Legacy <- Empty
  Faults = {}
INVARIANT FinishIsComplete
