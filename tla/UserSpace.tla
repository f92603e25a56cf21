----------------------------- MODULE UserSpace -----------------------------
(***************************************************************************)
(* The kernel under the user programs it boots with: init() and idle() of  *)
(* user.c, and user processes that make any of the calls in Calls.  The    *)
(* first process forks the idle process before any other, then the user    *)
(* processes, and then waits for whoever exits, for ever.  The idle        *)
(* process takes the lowest priority and makes no further system call that *)
(* gives up the CPU.                                                       *)
(***************************************************************************)
EXTENDS Kernel

VARIABLES
  initpc,        \* where init() is: "fork idle", "fork users" or "wait"
  idle_started   \* the idle process has made its exec()

uvars == <<vars, initpc, idle_started>>

PID_IDLE == PID_INIT + 1
PRIO_MINIMUM == N_PRIORITIES - 1

UInit == Init /\ initpc = "fork idle" /\ idle_started = FALSE

\* The process with this PID is on the CPU, in its own code.
Runs(x) == mode = "user" /\ pcb[current].pid = x

InitForkIdle ==
  /\ Runs(PID_INIT) /\ initpc = "fork idle"
  /\ Fork
  /\ initpc' = "fork users"
  /\ UNCHANGED idle_started

InitForkUser ==
  /\ Runs(PID_INIT) /\ initpc = "fork users"
  /\ Fork
  /\ UNCHANGED <<initpc, idle_started>>

\* How many users init forks is a compile-time choice (the SPAWN_* macros).
InitForkedAll ==
  /\ Runs(PID_INIT) /\ initpc = "fork users"
  /\ initpc' = "wait"
  /\ UNCHANGED <<vars, idle_started>>

InitWait ==
  /\ Runs(PID_INIT) /\ initpc = "wait"
  /\ WaitReap(0) \/ WaitBlock(0)
  /\ UNCHANGED <<initpc, idle_started>>

InitStep == InitForkIdle \/ InitForkUser \/ InitForkedAll \/ InitWait

IdleExec ==
  /\ Runs(PID_IDLE) /\ ~ idle_started
  /\ Exec(PRIO_MINIMUM)
  /\ idle_started' = TRUE
  /\ UNCHANGED initpc

UserCall ==
  /\ pcb[current].pid \notin {PID_INIT, PID_IDLE}
  /\ SyscallNext
  /\ UNCHANGED <<initpc, idle_started>>

ClockStep == ClockNext /\ UNCHANGED <<initpc, idle_started>>
SioStep == SioNext /\ UNCHANGED <<initpc, idle_started>>
DispatchStep == Dispatch /\ UNCHANGED <<initpc, idle_started>>

UNext == InitStep \/ IdleExec \/ UserCall \/ ClockStep \/ SioStep \/ DispatchStep

(***************************************************************************)
(* A handler's loops run to their end with interrupts off.  A timer        *)
(* interrupt that is pending is taken as soon as interrupts are on, so a   *)
(* tick that is possible again and again is taken, and init gets to its    *)
(* next system call if it is on the CPU again and again.  Nothing is       *)
(* assumed of the users or of the serial line.                             *)
(***************************************************************************)
Tick == ClockTick /\ UNCHANGED <<initpc, idle_started>>

Fairness ==
  /\ WF_uvars(ClockStep /\ mode = "clock")
  /\ WF_uvars(DispatchStep)
  /\ SF_uvars(Tick)
  /\ SF_uvars(InitStep)

USpec == UInit /\ [][UNext]_uvars /\ Fairness

-----------------------------------------------------------------------------
(***************************************************************************)
(* Properties.                                                             *)
(***************************************************************************)

(***************************************************************************)
(* No panic: with kill() out of the picture there is always a process to   *)
(* dispatch (the idle one) and every process that ends has a parent that   *)
(* _pcb_find finds, although init's own PCB is FREE until its first tick.  *)
(***************************************************************************)
NeverPanics == mode \notin Panics

(***************************************************************************)
(* Every process has a parent, alive or a zombie, whatever the order in    *)
(* which the two end: exit() hands its children to init.                   *)
(***************************************************************************)
ParentExists ==
  \A p \in Slots : pcb[p] # ClearedPcb =>
    \E q \in Slots : pcb[q] # ClearedPcb /\ pcb[q].pid = pcb[p].ppid

(***************************************************************************)
(* No process gets lost: while a process runs, every other one is in a     *)
(* queue that some event empties.                                          *)
(***************************************************************************)
NothingLost ==
  mode = "user" =>
    \A p \in Slots :
      \/ pcb[p] = ClearedPcb
      \/ p = current
      \/ p \in ReadySlots \cup sleep \cup reading \cup waiting \cup zombie

(***************************************************************************)
(* A process in the queue of PRIO_MAXIMUM, where woken sleepers and        *)
(* parents go for their `quick dispatch', gets the CPU, however many calls *)
(* the others make.                                                        *)
(***************************************************************************)
MaximumRuns ==
  \A p \in Slots : p \in RangeOf(ready[PRIO_MAXIMUM]) ~> (mode = "user" /\ current = p)

(***************************************************************************)
(* A sleeper wakes up and runs.                                            *)
(***************************************************************************)
SleeperRuns == \A p \in Slots : p \in sleep ~> (mode = "user" /\ current = p)

(***************************************************************************)
(* docs/syscalls/baseline/yield: "Reschedules the current process and      *)
(* dispatches a new one": the process that yields is in a ready queue, so  *)
(* that it runs again; NothingLost of a system that calls yield().         *)
(***************************************************************************)
YielderRescheduled == NothingLost
=============================================================================
