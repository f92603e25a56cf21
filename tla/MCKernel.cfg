SPECIFICATION Spec
CONSTANTS
  N_PCBS = 4
  N_STACKS = 3
  N_PRIORITIES = 2
  BUF_SIZE = 0
  TIME_MOD = 1
  PID_MAX = 5
  Calls = {"fork", "exit", "wait", "kill", "sleep", "yield"}
  Prios = {1}
  Ticks = {1}
  Times = {}
  ExitCodes = {0}
INVARIANTS
  TypeOK
  InOneQueue
  StateMatchesQueue
  StackOwnership
  PidsUnique
  OnlyDesignPanics
  NoLostWakeup
PROPERTY ZombiesOnlyFreed
