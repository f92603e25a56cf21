SPECIFICATION USpec
CONSTANTS
  N_PCBS = 3
  N_STACKS = 3
  N_PRIORITIES = 2
  BUF_SIZE = 1
  TIME_MOD = 2
  PID_MAX = 3
  Calls = {"fork", "exit", "yield"}
  Prios = {1, 2}
  Ticks = {1}
  Times = {0}
  ExitCodes = {0}
INVARIANT YielderRescheduled
