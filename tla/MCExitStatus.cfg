SPECIFICATION Spec
CONSTANTS
  N_PCBS = 3
  N_STACKS = 3
  N_PRIORITIES = 2
  BUF_SIZE = 0
  TIME_MOD = 1
  PID_MAX = 3
  Calls = {"fork", "exit", "wait"}
  Prios = {1}
  Ticks = {1}
  Times = {}
  ExitCodes = {1}
INVARIANT ExitStatusKept
