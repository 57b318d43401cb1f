SPECIFICATION BlocksSpec
CONSTANTS
  \* Two lanes, two on-chip words in two banks (0, 1) and external words 2..3.
  W = 2
  ValMod = 4
  NumDataBanks = 2
  DataBankDepth = 1
  OnChipBase = 0
  OnChipLimit = 2
  StoreRvalid = FALSE
  MaxOutstanding = 2
  LaneOps <- AnyOps
  \* Four managed slots: the ring wraps, empties, and every order of frees occurs.
  ManagedCnt = 4
  FreePoolBase = 2
  \* Three requestors on two banks of two words: conflicts of two and of all three.
  NumReqs = 3
  NumBanks = 2
  BankWords = 2
  \* Two table entries, three one-bit slices, a threshold of two and a ring of two,
  \* which four addresses fill past its end.
  IdxW = 1
  SliceCnt = 3
  Threshold = 2
  CntMod = 4
  RecqDepth = 2
  Addrs <- FewAddrs
  \* One watcher (the watchers share nothing but the bus they snoop), two addresses,
  \* and words on which the three conditions differ.
  NumLanes = 1
  WordW = 2
  WatchAddrs = {10, 11}
  Word = {0, 1, 3}
  Targets = {4, 8}
INVARIANTS PendingLaneWaits NoOrphanWait PoolSafe LowestPerBankWins HitIsExact OnlyHotRecommended LostOnlyAtArm
PROPERTIES OwnResponse FifoPool DataAfterGrant
