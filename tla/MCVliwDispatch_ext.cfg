\* The on-chip window is elsewhere: address 0 is on the external bus.
SPECIFICATION FairSpec
CONSTANTS
  W = 2
  ValMod = 4
  NumDataBanks = 2
  DataBankDepth = 1
  OnChipBase = 1
  OnChipLimit = 2
  StoreRvalid = FALSE
  MaxOutstanding = 1
  LaneOps = {}
  BankDepth = 8
  NumRegs = 2
  PcMod = 16
  Images <- AccessImages
  Fills <- HaltFills
  FetchEnable = {FALSE, TRUE}
INVARIANT NoFetchAfterHalt
PROPERTIES HaltIsFinal BundleCompletes HaltDrains
