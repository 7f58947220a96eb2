CONSTANTS
  Account = {alice, bob}
  None = None
  MaxToken = 2
  LastDay = 5
  MaxLimit = 2
  Week = 2
  Durations = {1, 3, 5}
  Undefined = Undefined
  Grain = 20000
  Exact = 75000
  Requests <- MCRequests
  FillPrice = {0, 7, 12}
  CostPrice = 10
  MaxTrades = 3
SPECIFICATION ClientSpec
INVARIANTS
  SharedTokenUsed
  NumberOfAccount
  DownloadComplete
  SizeRoundedDown
  PreviewTellsOrder
  RecordsTellOrder
PROPERTIES
  CollectionEnds
