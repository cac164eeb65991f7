SPECIFICATION FairSpec
CONSTANTS
  NoFrame = NoFrame
  Tanks = {t1}
  Kinds = {"cmd"}
  IdModulus = 2
  AttemptLimit <- MCAttempts
  GuardMs <- MCGuardMs
  BackoffMs = 700
  RecoveryMs = 1350
  NotifyLatency = 0
  FailuresBeforeRecovery = 1
  UartErrorLimit = 1
  MaxSeq = 3
INVARIANTS
  TypeOK
  AcksBelong
  RepairOutsideTransactions
PROPERTIES
  PromiseKept
  TransactionEnds
  RadioRecovers
CHECK_DEADLOCK FALSE
