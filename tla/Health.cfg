SPECIFICATION MonitorSpec
CONSTANTS
  missedPongsUpperThreshold = 3
  connectionUnhealthyThreshold = 3
  maximumAudioDelayDataPoints = 1
  connectionWaitTime = 1
  Restarts = {FALSE, TRUE}
  MaxAudioChanges = 1
  MaxNextTicks = 2
INVARIANTS MonitorTypeOK PingsAreOwn
PROPERTIES ReportsAreRealAtFirst DeadIsReported
CHECK_DEADLOCK FALSE
