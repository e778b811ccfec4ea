SPECIFICATION Spec
CONSTANTS
  mod = 11
  felts_per_item = 2
  tags_per_bucket = 1
  max_cuckoo_kicks = 3
  num_bins = 2
  max_bin_size = 3
  felts_per_item_min = 2
  felts_per_item_max = 32
  hash_func_count_min = 1
  hash_func_count_max = 8
  item_bit_count_min = 4
  item_bit_count_max = 128
  label_bit_count = 9
  MaxCalls = 3
  Sessions = {1, 2}
  params <- MCParams
  Batches <- MCBatches
  Labels <- MCLabels
  LocationsOf <- MCLocationsOf
  KkrtOutput <- MCKkrtOutput
  OprfHash <- MCOprfHash
  TagOf <- MCTagOf
  IndexOf <- MCIndexOf
  AltOf <- MCAltOf
  VictimAt <- MCVictimAt
CHECK_DEADLOCK FALSE
INVARIANTS
  StoreHoldsItems
  CachesMatchBins
  LoadsBack
  FilterFindsAll
PROPERTIES
  NoChangeUnderReader
  QueryMeetsFreshCache
