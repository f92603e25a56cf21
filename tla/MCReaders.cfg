SPECIFICATION Spec
CONSTANTS
  N_PCBS = 3
  N_STACKS = 3
  N_PRIORITIES = 2
  BUF_SIZE = 2
  TIME_MOD = 1
  PID_MAX = 4
  Calls = {"fork", "exec", "exit", "kill", "readc", "setprio"}
  Prios = {0, 2}
  Ticks = {1}
  Times = {}
  ExitCodes = {0}
INVARIANT
  NoCharacterKept
