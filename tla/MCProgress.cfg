SPECIFICATION USpec
CONSTANTS
  N_PCBS = 4
  N_STACKS = 4
  N_PRIORITIES = 2
  BUF_SIZE = 0
  TIME_MOD = 3
  PID_MAX = 4
  Calls = {"fork", "exit", "wait", "sleep", "exec"}
  Prios = {1}
  Ticks = {0,2}
  Times = {}
  ExitCodes = {0}
PROPERTIES MaximumRuns SleeperRuns
