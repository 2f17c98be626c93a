CONSTANTS
  Processes = {p1, p2}
  MaxOps = 1
  MaxTokens = 2
  MaxFaults = 1
SPECIFICATION RecoverySpec
PROPERTY RecoveryConverges
CHECK_DEADLOCK FALSE
