SPECIFICATION FairSpec
CONSTANTS
  Client = {c1, c2}
  FD = {f1, f2}
  message_quit = quit
  GREETING_SIZE = 1
  DIF_SEQUENCE_SIZE = 1
  ACT_MSG_SIZE = 2
  RestSize = 2
  MaxUnits = 1
  MaxCalls = 1
PROPERTIES QuitEnds LeaverDropped
\* serve returns.
CHECK_DEADLOCK FALSE
