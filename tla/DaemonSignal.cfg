SPECIFICATION DaemonSpec
CONSTANTS
  MaxSignals = 1
  MaxConnectFailures = 1
PROPERTY SignalStopsDaemon
CHECK_DEADLOCK FALSE
