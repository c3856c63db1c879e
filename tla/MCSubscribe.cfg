SPECIFICATION RelaySpec
CONSTANTS
  NoEvent = NoEvent
  Event <- Public
  FilterLists <- PublicLists
  CountLists <- PublicCounts
  Connection <- One
  SubId = {"s1", "s2"}
  MaxSubscriptions = 1
  MaxChallenge = 2
  NoRandom = FALSE
  MaxLimit = 3
  MaxParams = 6
  MaxAuthors = 4
  Pubkey <- MCPubkey
  Stripped <- MCStripped
  ServiceUrl = "wss://here/"
  IntMax = 1000
  TagsText <- MCTagsText
  Folded <- MCFolded
  LowerLimit = 0
  UpperLimit = 0
  MinPow = 0
  MaxPurge = 2
  MaxNow = 1
  Legacy <- Empty
  Faults = {}
INVARIANT RelayTypeOK
INVARIANT NothingOutlivesConnection
INVARIANT FinishIsComplete
INVARIANT CountIsOfMatches
