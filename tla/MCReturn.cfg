SPECIFICATION WireFairSpec
CONSTANTS
  NoEvent = NoEvent
  Nothing = Nothing
  BufferSize = 65536
  Margin = 160
  MaxSubId = 100
  MaxContent = 16384
  SubscriberId <- MCSubscriberId
  PartsOf <- MCPartsOf
  LengthOf <- MCLengthOf
  Token <- MCToken
  MaxTokenLength = 512
  MaxTags <- MCMaxTags
  MaxElements <- MCMaxElements
  MaxElement <- MCMaxElement
  TagField <- MCTagField
  MaxItems = 3
  MaxRows = 5
  MaxFilters = 2
  MaxValues = 6
  Published <- Returned
  Requested <- None
PROPERTY EveryMessageAnswered
CHECK_DEADLOCK FALSE
