SPECIFICATION USpec
CONSTANTS
  N_PCBS = 4
  N_STACKS = 4
  N_PRIORITIES = 2
  BUF_SIZE = 1
  TIME_MOD = 2
  PID_MAX = 5
  Calls = {"fork", "exec", "exit", "wait", "sleep", "readc", "setprio", "settime"}
  Prios = {1, 2}
  Ticks = {1}
  Times = {0}
  ExitCodes = {0}
INVARIANTS
  NeverPanics
  ParentExists
  NothingLost
