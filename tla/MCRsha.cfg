SPECIFICATION FairSpec
CONSTANTS
  Interval <- MCInterval
  Times <- MCTimes
  HandshakeInterval = 1
  BusyTimeout = 2
  PeerErrorMax = 0
  SeqWindow = 1
  NetMax = 2
INVARIANTS
  TunnelIsAnswered
  SilenceBounded
PROPERTIES
  RestartForCause
  Reconnects
  EchoesGoOn
