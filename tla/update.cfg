SPECIFICATION FairSpec
CONSTANTS
  Versions = {1, 2}
  Boot = 1
  Contract <- ContractOf
  Accounts = {a1, a2}
  Null = Null
  MaxUpdates = 2
  MaxAttempts = 4
  MaxFaults = 2
INVARIANTS AdmittedReads NeverStranded ReceiptTruthful PairReadable
PROPERTIES UpdatesSettle
CHECK_DEADLOCK FALSE
