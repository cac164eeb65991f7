SPECIFICATION Spec
CONSTANTS
  NoFrame = NoFrame
  Tanks = {t1}
  Kinds = {"cmd"}
  IdModulus = 2
  AttemptLimit <- MCThreeAttempts
  GuardMs <- MCGuardMs
  BackoffMs = 700
  RecoveryMs = 1350
  NotifyLatency = 1
  FailuresBeforeRecovery = 1
  UartErrorLimit = 1
  MaxSeq = 2
INVARIANT AckAttribution
CHECK_DEADLOCK FALSE
