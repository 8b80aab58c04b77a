\* With and without a terminal, standard input redirected or not, every interleaving of two signals.
SPECIFICATION FairSpec
CONSTANTS
  INT = INT  TERM = TERM
  Signal = {INT, TERM}
  TtySignal = {INT}
  Number <- MCNumber
  Buffer = 1
  Terminal <- AnyTerminal
  MaxSends = 2
  Codes = {0, 1}
CHECK_DEADLOCK FALSE
INVARIANTS DeliveredOnce Mirrored
PROPERTIES EndsWithChild Responds
