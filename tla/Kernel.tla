------------------------------- MODULE Kernel -------------------------------
(***************************************************************************)
(* Processes, scheduling and the blocking system calls of the kernel:      *)
(* process.c, stack.c, scheduler.c, clock.c, the process calls of          *)
(* syscall.c, _zombify and the end of _init in system.c, and as much of    *)
(* sio.c as readc needs.                                                   *)
(*                                                                         *)
(* A system call and an interrupt handler run with interrupts off, so      *)
(* each is atomic.  The two loops a handler can be in the middle of, the   *)
(* wake-up loop of _isr_clock and the loop of _dispatch, take one step per *)
(* iteration; `mode' says which loop the CPU is in, and while it is not    *)
(* "user" nothing but that loop's next iteration can happen.               *)
(*                                                                         *)
(* A PCB is its slot in _pcbs[], 1..N_PCBS.  The queues of PCBs hold       *)
(* slots: a queue whose order the code relies on is a sequence, and a      *)
(* queue used by key alone (_sleep, _reading, _waiting, _zombie) is a set. *)
(***************************************************************************)
EXTENDS Naturals, Sequences, FiniteSets

CONSTANTS
  N_PCBS,         \* process.h: entries of _pcbs[]
  N_STACKS,       \* defs.h: entries of _stacks[]
  N_PRIORITIES,   \* process.h: ready queues
  BUF_SIZE,       \* sio.c: characters the input buffer is allowed to hold
  TIME_MOD,       \* 2^w, for a time_t of w bits
  PID_MAX,        \* bound: no fork once this PID is out
  Calls,          \* the system calls user programs make
  Prios, Ticks, Times, ExitCodes   \* the arguments they make them with

PID_INIT == 1
PRIO_MAXIMUM == 0
BLOCKED == 5
NULL == 0

ASSUME KernelAssumption ==
  /\ N_PCBS \in Nat \ {0}
  /\ N_PRIORITIES \in Nat \ {0}
  /\ BUF_SIZE \in Nat
  /\ TIME_MOD \in Nat \ {0}
  /\ PID_MAX \in Nat
  /\ N_STACKS \in Nat \ {0}
  /\ Prios \subseteq Nat /\ Ticks \subseteq Nat
  /\ Times \subseteq 0..(TIME_MOD - 1)
  /\ ExitCodes \subseteq Nat

Slots == 1..N_PCBS
Stacks == 1..N_STACKS
Levels == 0..(N_PRIORITIES - 1)
States == {"FREE", "READY", "RUNNING", "SLEEPING", "WAITING", "KILLED", "ZOMBIE"}

(***************************************************************************)
(* struct pcb.  `arg' is ARG(context,1), the first argument on the         *)
(* process's saved stack, where the kernel reads it again later: the PID a *)
(* waiting process wants (0: any) and the code a process exited with.      *)
(* `wake' is the key of the process's qnode on _sleep.                     *)
(***************************************************************************)
PCB == [state : States, pid : Nat, ppid : Nat, prio : Nat,
        stack : Stacks \cup {NULL}, status : Nat, arg : Nat, wake : Nat]

ClearedPcb == [state |-> "FREE", pid |-> 0, ppid |-> 0, prio |-> 0,
               stack |-> NULL, status |-> 0, arg |-> 0, wake |-> 0]

Panics == {"no process parent", "all queues empty", "non-ready",
           "wait remove", "zombie not on queue"}
Modes == {"user", "clock", "dispatch"} \cup Panics

VARIABLES
  pcb,           \* _pcbs[]
  current,       \* _current
  pcb_avail,     \* _pcb_avail
  stack_avail,   \* _stack_avail
  ready,         \* _ready[]
  sleep,         \* _sleep
  reading,       \* _reading
  waiting,       \* _waiting
  zombie,        \* _zombie
  system_time,   \* _system_time
  next_pid,      \* _next_pid.id
  incount,       \* _incount
  mode           \* what the CPU is doing

queues == <<ready, sleep, reading, waiting, zombie>>
pools == <<pcb_avail, stack_avail, next_pid>>
vars == <<pcb, current, queues, pools, system_time, incount, mode>>

RangeOf(s) == {s[i] : i \in DOMAIN s}

-----------------------------------------------------------------------------
(***************************************************************************)
(* Lookups and queue operations the handlers share.                        *)
(***************************************************************************)

\* _pcb_find: the slots holding a live process with this PID, in table `t'.
Find(t, x) == {p \in Slots : t[p].state # "FREE" /\ t[p].pid = x}

\* The queue _schedule picks: a priority out of range goes to the last one.
Level(x) == IF x >= N_PRIORITIES THEN N_PRIORITIES - 1 ELSE x

\* Mutant: the PCB goes to the front of its queue.
EnqueueFront(rq, p, x) == [rq EXCEPT ![Level(x)] = <<p>> \o @]

Enqueue(rq, p, x) == [rq EXCEPT ![Level(x)] = Append(@, p)]

\* Mutant: the state is left alone.
ScheduleStale(t, p, x) == pcb' = t /\ ready' = Enqueue(ready, p, x)

\* _schedule(p, x), given the table and the ready queues it starts from.
Schedule(t, p, x) ==
  /\ pcb' = [t EXCEPT ![p].state = "READY"]
  /\ ready' = Enqueue(ready, p, x)

\* Mutants: the stack is leaked; the stack is freed after the PCB is cleared.
ReleaseLeak(t, p) ==
  /\ pcb' = [t EXCEPT ![p] = ClearedPcb]
  /\ pcb_avail' = Append(pcb_avail, p)
  /\ UNCHANGED <<stack_avail, next_pid>>

ReleaseLate(t, p) ==
  /\ pcb' = [t EXCEPT ![p] = ClearedPcb]
  /\ pcb_avail' = Append(pcb_avail, p)
  /\ stack_avail' = Append(stack_avail, ClearedPcb.stack)
  /\ UNCHANGED next_pid

\* _pcb_free and _stack_free of slot p of table t.
Release(t, p) ==
  /\ pcb' = [t EXCEPT ![p] = ClearedPcb]
  /\ pcb_avail' = Append(pcb_avail, p)
  /\ stack_avail' = Append(stack_avail, t[p].stack)
  /\ UNCHANGED next_pid

\* A handler that ends in _dispatch(): its loop comes next.
ThenDispatch == mode' = "dispatch"

(***************************************************************************)
(* _zombify(p), from table t and ready queues rq.  The parent is asked     *)
(* what it waits for; if that is any child, or this one, it is given the   *)
(* status and runs next, and p is cleaned up; otherwise p is a zombie.     *)
(***************************************************************************)
\* Mutants: the parent's state is not looked at; `any child' is forgotten.
WantsAnyState(t, q, p) == t[q].arg \in {0, t[p].pid}

WantsNamed(t, q, p) == t[q].state = "WAITING" /\ t[q].arg = t[p].pid

Wants(t, q, p) == t[q].state = "WAITING" /\ t[q].arg \in {0, t[p].pid}

Zombify(t, rq, p) ==
  \/ /\ Find(t, t[p].ppid) = {}
     /\ mode' = "no process parent"
     /\ pcb' = t /\ ready' = rq
     /\ UNCHANGED <<pools, sleep, reading, waiting, zombie>>
  \/ \E q \in Find(t, t[p].ppid) :
       /\ Wants(t, q, p)
       /\ q \notin waiting
       /\ mode' = "wait remove"
       /\ pcb' = t /\ ready' = rq
       /\ UNCHANGED <<pools, sleep, reading, waiting, zombie>>
  \/ \E q \in Find(t, t[p].ppid) :
       /\ Wants(t, q, p)
       /\ q \in waiting
       /\ waiting' = waiting \ {q}
       /\ Release([t EXCEPT ![q].state = "READY", ![q].arg = 0], p)
       /\ ready' = Enqueue(rq, q, PRIO_MAXIMUM)
       /\ ThenDispatch
       /\ UNCHANGED <<sleep, reading, zombie>>
  \/ \E q \in Find(t, t[p].ppid) :
       /\ ~ Wants(t, q, p)
       /\ pcb' = [t EXCEPT ![p].state = "ZOMBIE"]
       /\ zombie' = zombie \cup {p}
       /\ ready' = rq
       /\ ThenDispatch
       /\ UNCHANGED <<pools, sleep, reading, waiting>>

-----------------------------------------------------------------------------
(***************************************************************************)
(* _init leaves one process, on the CPU but still in the state _memclr     *)
(* gave its PCB.                                                           *)
(***************************************************************************)
Init ==
  /\ pcb = [p \in Slots |->
              IF p = 1 THEN [ClearedPcb EXCEPT !.pid = PID_INIT, !.ppid = PID_INIT,
                                               !.prio = PRIO_MAXIMUM, !.stack = 1]
              ELSE ClearedPcb]
  /\ current = 1
  /\ pcb_avail = [i \in 1..(N_PCBS - 1) |-> i + 1]
  /\ stack_avail = [i \in 1..(N_STACKS - 1) |-> i + 1]
  /\ ready = [i \in Levels |-> <<>>]
  /\ sleep = {} /\ reading = {} /\ waiting = {} /\ zombie = {}
  /\ system_time = 0
  /\ next_pid = PID_INIT + 1
  /\ incount = 0
  /\ mode = "user"

-----------------------------------------------------------------------------
(***************************************************************************)
(* System calls of the current process.  A call that fails before it       *)
(* changes anything (fork with no PCB, kill or wait for an unknown PID) is *)
(* a stuttering step and has no action; nor has a call that only reads.    *)
(***************************************************************************)
Syscall(name) == mode = "user" /\ name \in Calls

\* _sys_setprio: the new value is stored unchecked.
SetPrio(x) ==
  /\ Syscall("setprio")
  /\ pcb' = [pcb EXCEPT ![current].prio = x]
  /\ UNCHANGED <<current, queues, pools, system_time, incount, mode>>

SetTime(t) ==
  /\ Syscall("settime")
  /\ system_time' = t
  /\ UNCHANGED <<pcb, current, queues, pools, incount, mode>>

Sleep(ticks) ==
  /\ Syscall("sleep")
  /\ pcb' = [pcb EXCEPT ![current].state = "SLEEPING",
                        ![current].wake = (system_time + ticks) % TIME_MOD]
  /\ sleep' = sleep \cup {current}
  /\ ThenDispatch
  /\ UNCHANGED <<current, ready, reading, waiting, zombie, pools, system_time, incount>>

\* Mutant: the child's PID is that of the last process forked.
ChildSamePid ==
  [ClearedPcb EXCEPT !.pid = next_pid - 1, !.ppid = pcb[current].pid,
                     !.prio = pcb[current].prio, !.stack = Head(stack_avail)]

\* The child gets the parent's priority and is scheduled; the parent goes on.
Child ==
  [ClearedPcb EXCEPT !.pid = next_pid, !.ppid = pcb[current].pid,
                     !.prio = pcb[current].prio, !.stack = Head(stack_avail)]

Fork ==
  /\ Syscall("fork")
  /\ next_pid <= PID_MAX
  /\ pcb_avail # <<>>
  /\ stack_avail # <<>>
  /\ Schedule([pcb EXCEPT ![Head(pcb_avail)] = Child],
              Head(pcb_avail), pcb[current].prio)
  /\ pcb_avail' = Tail(pcb_avail)
  /\ stack_avail' = Tail(stack_avail)
  /\ next_pid' = next_pid + 1
  /\ UNCHANGED <<current, sleep, reading, waiting, zombie, system_time, incount, mode>>

\* Mutant: the PCB is put back without having been taken out.
ForkNoStackTwice ==
  /\ Syscall("fork")
  /\ pcb_avail # <<>>
  /\ stack_avail = <<>>
  /\ pcb_avail' = Append(pcb_avail, Head(pcb_avail))
  /\ UNCHANGED <<pcb, current, queues, stack_avail, next_pid, system_time, incount, mode>>

\* _sys_fork with a PCB but no stack: the PCB goes back, to the end of its list.
ForkNoStack ==
  /\ Syscall("fork")
  /\ pcb_avail # <<>>
  /\ stack_avail = <<>>
  /\ pcb_avail' = Append(Tail(pcb_avail), Head(pcb_avail))
  /\ UNCHANGED <<pcb, current, queues, stack_avail, next_pid, system_time, incount, mode>>

Exec(x) ==
  /\ Syscall("exec")
  /\ Schedule([pcb EXCEPT ![current].prio = x], current, x)
  /\ ThenDispatch
  /\ UNCHANGED <<current, sleep, reading, waiting, zombie, pools, system_time, incount>>

\* _sys_readc with a character in the input buffer, and without one.
ReadcNow ==
  /\ Syscall("readc")
  /\ incount > 0
  /\ incount' = incount - 1
  /\ UNCHANGED <<pcb, current, queues, pools, system_time, mode>>

ReadcBlock ==
  /\ Syscall("readc")
  /\ incount = 0
  /\ pcb' = [pcb EXCEPT ![current].status = BLOCKED]
  /\ reading' = reading \cup {current}
  /\ ThenDispatch
  /\ UNCHANGED <<current, ready, sleep, waiting, zombie, pools, system_time, incount>>

\* _sys_kill of another process, and of the caller: _schedule makes that READY.
KillOther(x) ==
  /\ Syscall("kill")
  /\ \E p \in Find(pcb, x) \ {current} : pcb' = [pcb EXCEPT ![p].state = "KILLED"]
  /\ UNCHANGED <<current, queues, pools, system_time, incount, mode>>

KillSelf ==
  /\ Syscall("kill")
  /\ current \in Find(pcb, pcb[current].pid)
  /\ Schedule([pcb EXCEPT ![current].state = "KILLED"], current, pcb[current].prio)
  /\ ThenDispatch
  /\ UNCHANGED <<current, sleep, reading, waiting, zombie, pools, system_time, incount>>

(***************************************************************************)
(* _sys_wait.  A caller that names a PID waits for the process found,      *)
(* child or not.  A caller that waits for any child is given its first     *)
(* zombie child; when it has none, the search loop leaves i = N_PCBS and   *)
(* pcb at the last slot, and `i > N_PCBS' is false, so it is the last slot *)
(* that is looked at.                                                      *)
(***************************************************************************)
ZombieChildren ==
  {p \in Slots : pcb[p].ppid = pcb[current].pid /\ pcb[p].state = "ZOMBIE"}

AnyChild ==
  IF ZombieChildren = {} THEN {N_PCBS}
  ELSE {p \in ZombieChildren : \A q \in ZombieChildren : p <= q}

\* Mutant: the zombie leaves its queue, its PCB and stack are not freed.
ReapLeak(p) ==
  /\ p \in zombie
  /\ pcb[p].state = "ZOMBIE"
  /\ zombie' = zombie \ {p}
  /\ UNCHANGED <<pcb, pools, mode, current, ready, sleep, reading, waiting, system_time, incount>>

Reap(p) ==
  /\ pcb[p].state = "ZOMBIE"
  /\ \/ /\ p \in zombie
        /\ zombie' = zombie \ {p}
        /\ Release(pcb, p)
        /\ UNCHANGED mode
     \/ /\ p \notin zombie
        /\ mode' = "zombie not on queue"
        /\ UNCHANGED <<pcb, pools, zombie>>
  /\ UNCHANGED <<current, ready, sleep, reading, waiting, system_time, incount>>

Block(x) ==
  /\ pcb' = [pcb EXCEPT ![current].state = "WAITING", ![current].arg = x]
  /\ waiting' = waiting \cup {current}
  /\ ThenDispatch
  /\ UNCHANGED <<current, ready, sleep, reading, zombie, pools, system_time, incount>>

WaitReap(x) ==
  /\ Syscall("wait")
  /\ \E p \in IF x = 0 THEN AnyChild ELSE Find(pcb, x) : Reap(p)

WaitBlock(x) ==
  /\ Syscall("wait")
  /\ \E p \in IF x = 0 THEN AnyChild ELSE Find(pcb, x) : pcb[p].state # "ZOMBIE"
  /\ Block(x)

\* Mutants: the children stay; only those that have not ended go to init.
ExitTableOrphans(code) == [pcb EXCEPT ![current].arg = code]

ExitTableAlive(code) ==
  [p \in Slots |->
     [pcb[p] EXCEPT !.ppid = IF @ = pcb[current].pid /\ pcb[p].state # "ZOMBIE"
                             THEN PID_INIT ELSE @,
                    !.arg = IF p = current THEN code ELSE @]]

\* _sys_exit: the children go to init, then _zombify.
ExitTable(code) ==
  [p \in Slots |->
     [pcb[p] EXCEPT !.ppid = IF @ = pcb[current].pid THEN PID_INIT ELSE @,
                    !.arg = IF p = current THEN code ELSE @]]

Exit(code) ==
  /\ Syscall("exit")
  /\ Zombify(ExitTable(code), ready, current)
  /\ UNCHANGED <<current, system_time, incount>>

\* _sys_yield calls _dispatch() and nothing else.
Yield ==
  /\ Syscall("yield")
  /\ ThenDispatch
  /\ UNCHANGED <<pcb, current, queues, pools, system_time, incount>>

-----------------------------------------------------------------------------
(***************************************************************************)
(* Interrupts.                                                             *)
(***************************************************************************)

\* _isr_clock: the time moves on, then due sleepers are woken one by one, in
\* the order of their keys, then the interrupted process is scheduled again.
ClockTick ==
  /\ mode = "user"
  /\ system_time' = (system_time + 1) % TIME_MOD
  /\ mode' = "clock"
  /\ UNCHANGED <<pcb, current, queues, pools, incount>>

\* Mutant: a sleeper is due only when its time is past.
DueLate == {p \in sleep : pcb[p].wake < system_time}

Due == {p \in sleep : pcb[p].wake <= system_time}

ClockWake(p) ==
  /\ mode = "clock"
  /\ p \in Due
  /\ \A q \in Due : pcb[p].wake <= pcb[q].wake
  /\ sleep' = sleep \ {p}
  /\ Schedule([pcb EXCEPT ![p].wake = 0], p, PRIO_MAXIMUM)
  /\ UNCHANGED <<current, reading, waiting, zombie, pools, system_time, incount, mode>>

ClockPreempt ==
  /\ mode = "clock"
  /\ Due = {}
  /\ Schedule(pcb, current, pcb[current].prio)
  /\ ThenDispatch
  /\ UNCHANGED <<current, sleep, reading, waiting, zombie, pools, system_time, incount>>

\* Mutant: the reader leaves its queue and is not scheduled.
SioWakeLost(p) ==
  /\ mode = "user"
  /\ p \in reading
  /\ \A q \in reading : pcb[p].pid <= pcb[q].pid
  /\ reading' = reading \ {p}
  /\ UNCHANGED <<pcb, ready, current, sleep, waiting, zombie, pools, system_time, incount, mode>>

\* _isr_sio, a received character: the reader with the lowest PID gets it.
SioWake(p) ==
  /\ mode = "user"
  /\ p \in reading
  /\ \A q \in reading : pcb[p].pid <= pcb[q].pid
  /\ reading' = reading \ {p}
  /\ Schedule(pcb, p, pcb[p].prio)
  /\ UNCHANGED <<current, sleep, waiting, zombie, pools, system_time, incount, mode>>

\* Mutant: a character is stored whether or not a reader waits for it.
SioStoreAlways ==
  /\ mode = "user"
  /\ incount < BUF_SIZE
  /\ incount' = incount + 1
  /\ UNCHANGED <<pcb, current, queues, pools, system_time, mode>>

SioStore ==
  /\ mode = "user"
  /\ reading = {}
  /\ incount < BUF_SIZE
  /\ incount' = incount + 1
  /\ UNCHANGED <<pcb, current, queues, pools, system_time, mode>>

-----------------------------------------------------------------------------
(***************************************************************************)
(* The loop of _dispatch.                                                  *)
(***************************************************************************)

\* The next process: head of the first ready queue that has one.
First(i) == ready[i] # <<>> /\ \A j \in Levels : j < i => ready[j] = <<>>

Popped(i) == [ready EXCEPT ![i] = Tail(@)]

\* The popped process runs if it is READY, is zombified if it is KILLED, and
\* stops the kernel if it is anything else.
DispatchRun ==
  /\ mode = "dispatch"
  /\ \E i \in Levels :
       /\ First(i)
       /\ pcb[Head(ready[i])].state # "KILLED"
       /\ current' = Head(ready[i])
       /\ ready' = Popped(i)
       /\ IF pcb[Head(ready[i])].state = "READY"
          THEN /\ pcb' = [pcb EXCEPT ![Head(ready[i])].state = "RUNNING"]
               /\ mode' = "user"
          ELSE /\ mode' = "non-ready"
               /\ UNCHANGED pcb
  /\ UNCHANGED <<sleep, reading, waiting, zombie, pools, system_time, incount>>

DispatchKilled ==
  /\ mode = "dispatch"
  /\ \E i \in Levels :
       /\ First(i)
       /\ pcb[Head(ready[i])].state = "KILLED"
       /\ current' = Head(ready[i])
       /\ Zombify(pcb, Popped(i), Head(ready[i]))
  /\ UNCHANGED <<system_time, incount>>

DispatchEmpty ==
  /\ mode = "dispatch"
  /\ \A i \in Levels : ready[i] = <<>>
  /\ mode' = "all queues empty"
  /\ UNCHANGED <<pcb, current, queues, pools, system_time, incount>>

Dispatch == DispatchRun \/ DispatchKilled \/ DispatchEmpty

\* _kpanic never returns.
Panicked == mode \in Panics /\ UNCHANGED vars

-----------------------------------------------------------------------------
SyscallNext ==
  \/ \E x \in Prios : SetPrio(x) \/ Exec(x)
  \/ \E t \in Times : SetTime(t)
  \/ \E ticks \in Ticks : Sleep(ticks)
  \/ Fork \/ ForkNoStack
  \/ ReadcNow \/ ReadcBlock
  \/ \E x \in 1..PID_MAX : KillOther(x)
  \/ KillSelf
  \/ \E x \in 0..PID_MAX : WaitReap(x) \/ WaitBlock(x)
  \/ \E code \in ExitCodes : Exit(code)
  \/ Yield

ClockNext == ClockTick \/ (\E p \in Slots : ClockWake(p)) \/ ClockPreempt

SioNext == (\E p \in Slots : SioWake(p)) \/ SioStore

Next == SyscallNext \/ ClockNext \/ SioNext \/ Dispatch \/ Panicked

Spec == Init /\ [][Next]_vars
-----------------------------------------------------------------------------
(***************************************************************************)
(* Properties.                                                             *)
(***************************************************************************)
TypeOK ==
  /\ pcb \in [Slots -> PCB]
  /\ current \in Slots
  /\ pcb_avail \in Seq(Slots)
  /\ stack_avail \in Seq(Stacks)
  /\ ready \in [Levels -> Seq(Slots)]
  /\ sleep \subseteq Slots /\ reading \subseteq Slots
  /\ waiting \subseteq Slots /\ zombie \subseteq Slots
  /\ system_time \in 0..(TIME_MOD - 1)
  /\ next_pid \in Nat
  /\ incount \in 0..BUF_SIZE
  /\ mode \in Modes

NoDuplicates(s) == \A i, j \in DOMAIN s : s[i] = s[j] => i = j

\* The places a PCB can be: one number each, so that they can be told apart.
Places ==
  [k \in 0..4 |-> CASE k = 0 -> RangeOf(pcb_avail)
                    [] k = 1 -> sleep
                    [] k = 2 -> reading
                    [] k = 3 -> waiting
                    [] k = 4 -> zombie]

(***************************************************************************)
(* A PCB is in at most one queue, and in it once; the process on the CPU   *)
(* is in none.  A PCB in two queues would be scheduled twice, or freed     *)
(* while it can still be scheduled (queue.c hands out plain pointers).     *)
(***************************************************************************)
ReadySlots == UNION {RangeOf(ready[i]) : i \in Levels}

InOneQueue ==
  /\ NoDuplicates(pcb_avail)
  /\ \A i \in Levels : NoDuplicates(ready[i])
  /\ \A i, j \in Levels : i # j => RangeOf(ready[i]) \cap RangeOf(ready[j]) = {}
  /\ \A k \in 0..4 : Places[k] \cap ReadySlots = {}
  /\ \A k, l \in 0..4 : k # l => Places[k] \cap Places[l] = {}
  /\ mode \in {"user", "clock"} =>
       current \notin ReadySlots \cup UNION {Places[k] : k \in 0..4}

(***************************************************************************)
(* What a queue holds has the state the queue stands for, unless it was    *)
(* killed there; and a process that sleeps, waits, is ready or is a zombie *)
(* is in the queue that can end that state.                                *)
(***************************************************************************)
StateMatchesQueue ==
  \A p \in Slots :
    /\ p \in ReadySlots => pcb[p].state \in {"READY", "KILLED"}
    /\ p \in sleep => pcb[p].state \in {"SLEEPING", "KILLED"}
    /\ p \in waiting => pcb[p].state \in {"WAITING", "KILLED"}
    /\ p \in zombie => pcb[p].state \in {"ZOMBIE", "KILLED"}
    /\ p \in RangeOf(pcb_avail) <=> pcb[p] = ClearedPcb
    /\ pcb[p].state = "READY" => p \in ReadySlots
    /\ pcb[p].state = "SLEEPING" => p \in sleep
    /\ pcb[p].state = "WAITING" => p \in waiting
    /\ pcb[p].state = "ZOMBIE" => p \in zombie

(***************************************************************************)
(* Every stack is free or belongs to one process, and every process that   *)
(* is not a free PCB has one: no path of fork, exit, kill or wait leaks,   *)
(* shares or twice frees a stack.                                          *)
(***************************************************************************)
StackOwnership ==
  /\ \A p \in Slots : pcb[p].stack = NULL <=> pcb[p] = ClearedPcb
  /\ NoDuplicates(stack_avail)
  /\ \A p \in Slots : pcb[p].stack \notin RangeOf(stack_avail)
  /\ \A p, q \in Slots : pcb[p].stack = pcb[q].stack /\ pcb[p].stack # NULL => p = q
  /\ \A s \in Stacks : s \in RangeOf(stack_avail) \/ \E p \in Slots : pcb[p].stack = s

(***************************************************************************)
(* A PID names one process for ever: no two PCBs share one, none is        *)
(* reused.  _waiting and _zombie are searched by PID.                      *)
(***************************************************************************)
PidsUnique ==
  \A p \in Slots :
    /\ pcb[p].pid < next_pid
    /\ pcb[p].pid = 0 <=> pcb[p] = ClearedPcb
    /\ \A q \in Slots : pcb[p].pid = pcb[q].pid /\ pcb[p].pid # 0 => p = q

(***************************************************************************)
(* The panics the code guards against with a status test never happen; a   *)
(* process that is killed or init that exits can leave a child without a   *)
(* parent, and a system whose every process blocks has nothing to run.     *)
(***************************************************************************)
OnlyDesignPanics == mode \notin {"non-ready", "wait remove", "zombie not on queue"}

(***************************************************************************)
(* No wakeup is lost between wait() and exit(): while a process other than *)
(* init waits for a child, that child is not a zombie (syscall.c:604: none *)
(* of our children are zombies (yet)).                                     *)
(***************************************************************************)
WaitsInVain(p) ==
  /\ pcb[p].state = "WAITING"
  /\ \E q \in Slots : /\ pcb[q].state = "ZOMBIE"
                      /\ pcb[q].ppid = pcb[p].pid
                      /\ pcb[p].arg \in {0, pcb[q].pid}

NoLostWakeup == \A p \in Slots : pcb[p].pid # PID_INIT => ~ WaitsInVain(p)

(***************************************************************************)
(* No reader waits beside a character: while a process blocks in readc,    *)
(* the input buffer is empty, whichever of the two came first (sio.c:137,  *)
(* "if there is a waiting process, this must be the first input            *)
(* character").                                                            *)
(***************************************************************************)
NoCharacterKept == reading # {} => incount = 0

(***************************************************************************)
(* A terminated process stays terminated: from the zombie queue there is   *)
(* no way but back to the free list.                                       *)
(***************************************************************************)
ZombiesOnlyFreed ==
  [][\A p \in zombie : p \in zombie' \/ pcb'[p] = ClearedPcb]_vars

(***************************************************************************)
(* What the sources and the documentation say, and the code does not do.   *)
(***************************************************************************)

(***************************************************************************)
(* docs/syscalls/baseline/wait: "Exit status of the child".  The status of *)
(* a zombie is the one it exited with, for wait() returns pcb->status.     *)
(***************************************************************************)
ExitStatusKept == \A p \in zombie : pcb[p].status = pcb[p].arg

(***************************************************************************)
(* syscall.c:448, "mark it as killed (_dispatch() will clean it up)": a    *)
(* process that was killed is not made READY again.                        *)
(***************************************************************************)
KilledStaysKilled ==
  [][\A p \in Slots : pcb[p].state = "KILLED" => pcb'[p].state # "READY"]_vars

(***************************************************************************)
(* syscall.c:536-543, "If found is null and i > N_PCBS, we did not find a  *)
(* child of the current process": a process that waits for any child when  *)
(* it has none is told so, and neither blocks nor reaps anything.          *)
(***************************************************************************)
ChildlessTold ==
  [][WaitReap(0) \/ WaitBlock(0) =>
       \E p \in Slots : pcb[p].ppid = pcb[current].pid]_vars

(***************************************************************************)
(* syscall.c:604, "none of our children are zombies (yet).  Block this     *)
(* process until that happens": nobody, init included, waits for a zombie. *)
(***************************************************************************)
NobodyWaitsForZombies == \A p \in Slots : ~ WaitsInVain(p)
=============================================================================
