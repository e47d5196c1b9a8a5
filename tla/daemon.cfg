SPECIFICATION FairSpec
CONSTANTS
  Runtimes = {r1, r2}
  Tokens = {t1, t2, t3}
  Null = Null
  MaxOps = 3
  MaxUpdates = 1
  MaxFaults = 2
INVARIANTS RunningIsRecorded ActivationQuiesced StopWins
PROPERTIES HandoverExact MaintenanceEnds SyncReturns
