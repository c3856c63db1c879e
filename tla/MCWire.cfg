SPECIFICATION WireFairSpec
CONSTANTS
  NoEvent = NoEvent
  Nothing = Nothing
  BufferSize = 65536
  Margin = 160
  MaxSubId = 100
  MaxContent = 16384
  SubscriberId <- MCSubscriberId
  PartsOf <- MCPartsOf
  LengthOf <- MCLengthOf
  Token <- MCToken
  MaxTokenLength = 512
  MaxTags <- MCMaxTags
  MaxElements <- MCMaxElements
  MaxElement <- MCMaxElement
  TagField <- MCTagField
  MaxItems = 3
  MaxRows = 5
  MaxFilters = 2
  MaxValues = 6
  Published <- MCPublished
  Requested <- MCRequested
INVARIANT WireTypeOK
INVARIANT NeverOverruns
INVARIANT AdmittedIsSentWhole
INVARIANT SizeIsExact
INVARIANT AcceptedAlwaysParse
INVARIANT ScannedWhole
INVARIANT TokensAreVerified
INVARIANT FiltersAreAsAsked
PROPERTY EveryMessageAnswered
