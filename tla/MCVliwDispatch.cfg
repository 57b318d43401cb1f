SPECIFICATION Spec
CONSTANTS
  W = 2
  ValMod = 4
  NumDataBanks = 2
  DataBankDepth = 1
  OnChipBase = 0
  OnChipLimit = 2
  StoreRvalid = FALSE
  MaxOutstanding = 1
  LaneOps = {}
  BankDepth = 8
  NumRegs = 2
  PcMod = 16
  Images <- RefImages
  Fills <- NoFills
  FetchEnable = {TRUE}
PROPERTY ExecutesBundles
