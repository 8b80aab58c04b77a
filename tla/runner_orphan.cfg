\* A signal may come at any moment.
SPECIFICATION Spec
CONSTANTS
  INT = INT  TERM = TERM
  Signal = {INT, TERM}
  TtySignal = {INT}
  Number <- MCNumber
  Buffer = 1
  Terminal <- AnyTerminal
  MaxSends = 2
  Codes = {0, 1}
CHECK_DEADLOCK FALSE
INVARIANTS NoOrphan
