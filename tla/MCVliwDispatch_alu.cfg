SPECIFICATION Spec
CONSTANTS
  W = 4
  ValMod = 128
  NumDataBanks = 2
  DataBankDepth = 1
  OnChipBase = 0
  OnChipLimit = 2
  StoreRvalid = FALSE
  MaxOutstanding = 1
  LaneOps = {}
  BankDepth = 32
  NumRegs = 12
  PcMod = 32
  Images <- AluImages
  Fills <- NoFills
  FetchEnable = {TRUE}
INVARIANT AluTestPasses
