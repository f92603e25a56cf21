----------------------------- MODULE UserProofs -----------------------------
(***************************************************************************)
(* Proofs about UserSpace, for any number of PCBs, stacks and priorities   *)
(* and any system calls but kill(): the kernel never panics, every process *)
(* has a parent, and none is lost.  kill() is left out because it can take *)
(* init and idle away; yield() because it loses its caller (MCYield).      *)
(***************************************************************************)
EXTENDS UserSpace, KernelProofs

-----------------------------------------------------------------------------
(***************************************************************************)
(* The inductive invariant.                                                *)
(***************************************************************************)
Alive(t, p) == t[p] # ClearedPcb

(***************************************************************************)
(* What exit(), wait() and the dispatcher rely on in a process table: the  *)
(* first slot is init, its own parent; every process has a parent, and it  *)
(* is no zombie; nobody was killed; and only init's PCB can be in the      *)
(* state FREE while it is in use, until its first tick.                    *)
(***************************************************************************)
Family(t) ==
  /\ t[1].pid = PID_INIT /\ t[1].ppid = PID_INIT
  /\ \A p \in Slots : Alive(t, p) =>
       /\ \E q \in Slots : Alive(t, q) /\ t[q].pid = t[p].ppid
       /\ \A q \in Slots : t[q].state = "ZOMBIE" => t[p].ppid # t[q].pid
       /\ t[p].state # "KILLED"
       /\ p # 1 => t[p].state # "FREE"

\* The process with PID x is on the CPU or in a ready queue.
OnCpu(p) == p = current /\ mode \in {"user", "clock"}
Runnable(x) == \E p \in Slots : pcb[p].pid = x /\ (p \in Occupied(ready) \/ OnCpu(p))

(***************************************************************************)
(* Some process can always run: idle, which never blocks, and before there *)
(* is an idle process init, the only process then.                         *)
(***************************************************************************)
Boot ==
  /\ initpc \in {"fork idle", "fork users", "wait"}
  /\ initpc = "fork idle" => next_pid = PID_IDLE /\ Runnable(PID_INIT)
  /\ initpc # "fork idle" => Runnable(PID_IDLE)
  /\ pcb[1].state = "FREE" => OnCpu(1)
  /\ mode \notin Panics

UInv == IInv /\ Family(pcb) /\ Boot

\* Every process is on the CPU or in a queue that some event empties.
Placed ==
  \A p \in Slots : Alive(pcb, p) =>
    OnCpu(p) \/ p \in Occupied(ready) \cup sleep \cup reading \cup waiting \cup zombie

-----------------------------------------------------------------------------
(***************************************************************************)
(* What the handlers do to the family of processes.                        *)
(***************************************************************************)

(***************************************************************************)
(* A process that moves between the CPU and the queues keeps its PID and   *)
(* its parent, and does not end.                                           *)
(***************************************************************************)
LEMMA FamilyMove ==
  ASSUME NEW t \in [Slots -> PCB], NEW n, Named(t, n), Family(t),
         NEW p \in Slots, Alive(t, p),
         NEW r \in PCB, r.pid = t[p].pid, r.ppid = t[p].ppid,
         r.state \notin {"ZOMBIE", "KILLED"},
         r.state = "FREE" => t[p].state = "FREE"
  PROVE  Family([t EXCEPT ![p] = r])
<1> DEFINE u == [t EXCEPT ![p] = r]
<1>1. u[p] = r /\ \A q \in Slots \ {p} : u[q] = t[q]
  OBVIOUS
<1>2. r # ClearedPcb
  BY DEF Named, Alive, ClearedPcb
<1> HIDE DEF u
<1>3. \A q \in Slots : /\ u[q].pid = t[q].pid /\ u[q].ppid = t[q].ppid
                       /\ Alive(u, q) <=> Alive(t, q)
                       /\ u[q].state = "ZOMBIE" => t[q].state = "ZOMBIE"
  BY <1>1, <1>2 DEF Alive
<1>4. 1 \in Slots
  BY KernelAssumption DEF Slots
<1>5. u[1].pid = PID_INIT /\ u[1].ppid = PID_INIT
  BY <1>3, <1>4 DEF Family
<1>6. ASSUME NEW c \in Slots, Alive(u, c)
      PROVE  /\ \E q \in Slots : Alive(u, q) /\ u[q].pid = u[c].ppid
             /\ \A q \in Slots : u[q].state = "ZOMBIE" => u[c].ppid # u[q].pid
             /\ u[c].state # "KILLED"
             /\ c # 1 => u[c].state # "FREE"
  BY <1>1, <1>3, <1>6 DEF Family
<1> QED BY <1>5, <1>6 DEF Family, u

\* The process in slot p has no children, itself included.
Childless(t, p) == \A c \in Slots : Alive(t, c) => t[c].ppid # t[p].pid

(***************************************************************************)
(* A process without children can become a zombie.                         *)
(***************************************************************************)
LEMMA FamilyEnd ==
  ASSUME NEW t \in [Slots -> PCB], Family(t), NEW p \in Slots, Alive(t, p), Childless(t, p)
  PROVE  Family([t EXCEPT ![p].state = "ZOMBIE"])
<1> DEFINE u == [t EXCEPT ![p].state = "ZOMBIE"]
<1>1. /\ u[p].state = "ZOMBIE" /\ u[p].pid = t[p].pid /\ u[p].ppid = t[p].ppid
      /\ \A q \in Slots \ {p} : u[q] = t[q]
  BY DEF PCB
<1>2. Alive(u, p)
  BY <1>1 DEF Alive, ClearedPcb
<1> HIDE DEF u
<1>3. \A q \in Slots : /\ u[q].pid = t[q].pid /\ u[q].ppid = t[q].ppid
                       /\ Alive(u, q) <=> Alive(t, q)
  BY <1>1, <1>2 DEF Alive
<1>4. 1 \in Slots
  BY KernelAssumption DEF Slots
<1>5. u[1].pid = PID_INIT /\ u[1].ppid = PID_INIT
  BY <1>3, <1>4 DEF Family
<1>6. ASSUME NEW c \in Slots, Alive(u, c)
      PROVE  /\ \E q \in Slots : Alive(u, q) /\ u[q].pid = u[c].ppid
             /\ \A q \in Slots : u[q].state = "ZOMBIE" => u[c].ppid # u[q].pid
             /\ u[c].state # "KILLED"
             /\ c # 1 => u[c].state # "FREE"
  <2>1. \E q \in Slots : Alive(u, q) /\ u[q].pid = u[c].ppid
    BY <1>3, <1>6 DEF Family
  <2>2. \A q \in Slots : u[q].state = "ZOMBIE" => u[c].ppid # u[q].pid
    BY <1>1, <1>3, <1>6 DEF Family, Childless
  <2>3. u[c].state # "KILLED" /\ (c # 1 => u[c].state # "FREE")
    BY <1>1, <1>3, <1>6 DEF Family
  <2> QED BY <2>1, <2>2, <2>3
<1> QED BY <1>5, <1>6 DEF Family, u

(***************************************************************************)
(* The PCB of a process without children can be freed.                     *)
(***************************************************************************)
LEMMA FamilyFree ==
  ASSUME NEW t \in [Slots -> PCB], Family(t), NEW p \in Slots, Alive(t, p), Childless(t, p)
  PROVE  Family([t EXCEPT ![p] = ClearedPcb])
<1> DEFINE u == [t EXCEPT ![p] = ClearedPcb]
<1>1. u[p] = ClearedPcb /\ \A q \in Slots \ {p} : u[q] = t[q]
  OBVIOUS
<1> HIDE DEF u
<1>2. 1 \in Slots
  BY KernelAssumption DEF Slots
<1>3. Alive(t, 1) /\ p # 1
  BY <1>2 DEF Family, Childless, Alive, PID_INIT, ClearedPcb
<1>4. u[1].pid = PID_INIT /\ u[1].ppid = PID_INIT
  BY <1>1, <1>2, <1>3 DEF Family
<1>5. ASSUME NEW c \in Slots, Alive(u, c)
      PROVE  /\ \E q \in Slots : Alive(u, q) /\ u[q].pid = u[c].ppid
             /\ \A q \in Slots : u[q].state = "ZOMBIE" => u[c].ppid # u[q].pid
             /\ u[c].state # "KILLED"
             /\ c # 1 => u[c].state # "FREE"
  <2>1. c # p /\ Alive(t, c) /\ u[c] = t[c]
    BY <1>1, <1>5 DEF Alive
  <2>2. PICK q \in Slots : Alive(t, q) /\ t[q].pid = t[c].ppid
    BY <2>1 DEF Family
  <2>3. q # p
    BY <2>1, <2>2 DEF Childless
  <2>4. ClearedPcb.state # "ZOMBIE"
    BY DEF ClearedPcb
  <2>5. \A z \in Slots : u[z].state = "ZOMBIE" => u[c].ppid # u[z].pid
    BY <1>1, <2>1, <2>4 DEF Family
  <2> QED BY <1>1, <2>1, <2>2, <2>3, <2>5 DEF Family, Alive
<1> QED BY <1>4, <1>5 DEF Family, u

(***************************************************************************)
(* fork(): the child has its caller's PID for a parent.                    *)
(***************************************************************************)
LEMMA FamilyFork ==
  ASSUME NEW t \in [Slots -> PCB], NEW n, Named(t, n), Family(t),
         NEW h \in Slots, t[h] = ClearedPcb,
         NEW q \in Slots, Alive(t, q), t[q].state # "ZOMBIE",
         NEW r \in PCB, r.state = "READY", r.pid = n, n # 0, r.ppid = t[q].pid
  PROVE  Family([t EXCEPT ![h] = r])
<1> DEFINE u == [t EXCEPT ![h] = r]
<1>1. u[h] = r /\ \A c \in Slots \ {h} : u[c] = t[c]
  OBVIOUS
<1>2. r # ClearedPcb
  BY DEF ClearedPcb
<1> HIDE DEF u
<1>3. 1 \in Slots
  BY KernelAssumption DEF Slots
<1>4. h # 1
  BY DEF Family, ClearedPcb, PID_INIT
<1>5. q # h /\ Alive(u, h)
  BY <1>1, <1>2 DEF Alive
<1>6. u[1].pid = PID_INIT /\ u[1].ppid = PID_INIT
  BY <1>1, <1>3, <1>4 DEF Family
<1>7. ASSUME NEW c \in Slots, Alive(u, c)
      PROVE  /\ \E z \in Slots : Alive(u, z) /\ u[z].pid = u[c].ppid
             /\ \A z \in Slots : u[z].state = "ZOMBIE" => u[c].ppid # u[z].pid
             /\ u[c].state # "KILLED"
             /\ c # 1 => u[c].state # "FREE"
  <2>1. CASE c = h
    <3>1. \A z \in Slots : u[z].state = "ZOMBIE" => r.ppid # u[z].pid
      <4> SUFFICES ASSUME NEW z \in Slots, u[z].state = "ZOMBIE", r.ppid = u[z].pid
                   PROVE  FALSE
        OBVIOUS
      <4>1. z # h /\ t[z].pid = t[q].pid /\ t[z].state = "ZOMBIE"
        BY <1>1
      <4>2. t[q].pid # 0
        BY DEF Named, Alive
      <4> QED BY <4>1, <4>2 DEF Named
    <3> QED BY <1>1, <1>5, <2>1, <3>1 DEF Alive
  <2>2. CASE c # h
    <3>1. Alive(t, c) /\ u[c] = t[c]
      BY <1>1, <1>7, <2>2 DEF Alive
    <3>2. PICK z \in Slots : Alive(t, z) /\ t[z].pid = t[c].ppid
      BY <3>1 DEF Family
    <3>3. z # h
      BY <3>2 DEF Alive
    <3>4. \A y \in Slots : u[y].state = "ZOMBIE" => u[c].ppid # u[y].pid
      BY <1>1, <3>1 DEF Family
    <3> QED BY <1>1, <3>1, <3>2, <3>3, <3>4 DEF Family, Alive
  <2> QED BY <2>1, <2>2
<1> QED BY <1>6, <1>7 DEF Family, u

(***************************************************************************)
(* exit() first hands the children of the process that ends to init, which *)
(* is not the process that ends.                                           *)
(***************************************************************************)
LEMMA FamilyExit ==
  ASSUME pcb \in [Slots -> PCB], Named(pcb, next_pid), Family(pcb),
         current \in Slots, Alive(pcb, current), pcb[current].pid # PID_INIT,
         NEW code \in Nat
  PROVE  /\ ExitTable(code) \in [Slots -> PCB]
         /\ Named(ExitTable(code), next_pid)
         /\ Family(ExitTable(code))
         /\ Alive(ExitTable(code), current)
         /\ Childless(ExitTable(code), current)
         /\ \A p \in Slots : /\ ExitTable(code)[p].pid = pcb[p].pid
                             /\ ExitTable(code)[p].state = pcb[p].state
<1> DEFINE t == ExitTable(code)
<1>1. \A p \in Slots :
        /\ t[p] \in PCB /\ t[p].pid = pcb[p].pid /\ t[p].state = pcb[p].state
        /\ t[p].ppid = IF pcb[p].ppid = pcb[current].pid THEN PID_INIT ELSE pcb[p].ppid
        /\ pcb[p] = ClearedPcb => t[p] = ClearedPcb
  <2> SUFFICES ASSUME NEW p \in Slots
               PROVE  /\ t[p] \in PCB /\ t[p].pid = pcb[p].pid /\ t[p].state = pcb[p].state
                      /\ t[p].ppid = IF pcb[p].ppid = pcb[current].pid THEN PID_INIT
                                                                       ELSE pcb[p].ppid
                      /\ pcb[p] = ClearedPcb => t[p] = ClearedPcb
    OBVIOUS
  <2> DEFINE x == IF pcb[p].ppid = pcb[current].pid THEN PID_INIT ELSE pcb[p].ppid
             y == IF p = current THEN code ELSE pcb[p].arg
  <2>1. pcb[p] \in PCB /\ x \in Nat /\ y \in Nat
    BY DEF PCB, PID_INIT
  <2>2. t[p] = [pcb[p] EXCEPT !.ppid = x, !.arg = y]
    BY DEF ExitTable
  <2>3. pcb[current].pid # 0
    BY DEF Named, Alive
  <2>4. pcb[p] = ClearedPcb => x = pcb[p].ppid /\ y = pcb[p].arg
    BY <2>3 DEF ClearedPcb, Alive
  <2>5. x = IF pcb[p].ppid = pcb[current].pid THEN PID_INIT ELSE pcb[p].ppid
    OBVIOUS
  <2> HIDE DEF x, y, t
  <2>6. /\ t[p] \in PCB /\ t[p].pid = pcb[p].pid /\ t[p].state = pcb[p].state
        /\ t[p].ppid = x
    BY <2>1, <2>2 DEF PCB
  <2>7. pcb[p] = ClearedPcb => t[p] = ClearedPcb
    BY <2>1, <2>2, <2>4 DEF PCB
  <2> QED BY <2>5, <2>6, <2>7
<1>2. t \in [Slots -> PCB]
  BY <1>1 DEF ExitTable
<1> HIDE DEF t
<1>3. \A p \in Slots : t[p] = ClearedPcb <=> pcb[p] = ClearedPcb
  <2>1. ClearedPcb.pid = 0
    BY DEF ClearedPcb
  <2> QED BY <1>1, <2>1 DEF Named
<1>4. Named(t, next_pid)
  BY <1>1, <1>3 DEF Named
<1>5. 1 \in Slots /\ Alive(t, 1) /\ Alive(t, current) /\ t[1].pid = PID_INIT
  <2>1. 1 \in Slots
    BY KernelAssumption DEF Slots
  <2>2. pcb[1].pid = PID_INIT
    BY DEF Family
  <2> QED BY <1>1, <1>3, <2>1, <2>2 DEF Alive, PID_INIT, ClearedPcb
<1>6. Childless(t, current)
  BY <1>1 DEF Childless
<1>7. \A z \in Slots : t[z].state = "ZOMBIE" => t[z].pid # PID_INIT
  BY <1>1, <1>3, <1>5 DEF Family, Alive
<1>8. ASSUME NEW c \in Slots, Alive(t, c)
      PROVE  /\ \E q \in Slots : Alive(t, q) /\ t[q].pid = t[c].ppid
             /\ \A q \in Slots : t[q].state = "ZOMBIE" => t[c].ppid # t[q].pid
             /\ t[c].state # "KILLED"
             /\ c # 1 => t[c].state # "FREE"
  <2>1. Alive(pcb, c)
    BY <1>3, <1>8 DEF Alive
  <2>2. CASE pcb[c].ppid = pcb[current].pid
    BY <1>1, <1>5, <1>7, <2>1, <2>2 DEF Family
  <2>3. CASE pcb[c].ppid # pcb[current].pid
    <3>1. PICK q \in Slots : Alive(pcb, q) /\ pcb[q].pid = pcb[c].ppid
      BY <2>1 DEF Family
    <3>2. Alive(t, q) /\ t[q].pid = t[c].ppid
      BY <1>1, <1>3, <2>3, <3>1 DEF Alive
    <3>3. \A z \in Slots : t[z].state = "ZOMBIE" => t[c].ppid # t[z].pid
      BY <1>1, <2>1, <2>3 DEF Family
    <3> QED BY <1>1, <2>1, <3>2, <3>3 DEF Family
  <2> QED BY <2>2, <2>3
<1>9. t[1].pid = PID_INIT /\ t[1].ppid = PID_INIT
  BY <1>1, <1>5 DEF Family
<1>10. Family(t)
  BY <1>8, <1>9 DEF Family
<1> QED BY <1>1, <1>2, <1>4, <1>5, <1>6, <1>10 DEF t

(***************************************************************************)
(* _zombify of a process without children whose parent _pcb_find finds:    *)
(* the parent takes it over, or it becomes a zombie.                       *)
(***************************************************************************)
LEMMA FamilyZombify ==
  ASSUME NEW t \in [Slots -> PCB], NEW rq, NEW n, Named(t, n), Family(t),
         NEW p \in Slots, Alive(t, p), Childless(t, p), t[1].state # "FREE",
         Zombify(t, rq, p)
  PROVE  /\ Family(pcb')
         /\ mode' # "no process parent"
         /\ \A c \in Slots : /\ pcb'[c] # t[c] => t[c].state = "WAITING" \/ c = p
                             /\ c # p => pcb'[c].pid = t[c].pid
                             /\ c # p => Alive(pcb', c) <=> Alive(t, c)
<1>1. Find(t, t[p].ppid) # {}
  BY DEF Find, Family, Alive
<1>2. ASSUME NEW q \in Find(t, t[p].ppid), t[q].state = "WAITING",
             Release([t EXCEPT ![q].state = "READY", ![q].arg = 0], p)
      PROVE  /\ Family(pcb')
             /\ \A c \in Slots : /\ pcb'[c] # t[c] => t[c].state = "WAITING" \/ c = p
                                 /\ c # p => pcb'[c].pid = t[c].pid
                                 /\ c # p => Alive(pcb', c) <=> Alive(t, c)
  <2> DEFINE r == [t[q] EXCEPT !.state = "READY", !.arg = 0]
             u == [t EXCEPT ![q] = r]
  <2>1. q \in Slots /\ t[q].pid = t[p].ppid /\ Alive(t, q)
    BY <1>2 DEF Find, Alive, ClearedPcb
  <2>2. q # p
    BY <2>1 DEF Childless
  <2>3. r \in PCB /\ r.state = "READY" /\ r.pid = t[q].pid /\ r.ppid = t[q].ppid
    BY <2>1 DEF PCB, States
  <2>4. pcb' = [u EXCEPT ![p] = ClearedPcb]
    BY <1>2 DEF Release
  <2>5. u \in [Slots -> PCB] /\ u[q] = r /\ \A c \in Slots \ {q} : u[c] = t[c]
    BY <2>1, <2>3
  <2> HIDE DEF r
  <2>6. Family(u)
    BY <2>1, <2>3, FamilyMove
  <2> HIDE DEF u
  <2>7. r # ClearedPcb
    BY <2>3 DEF ClearedPcb
  <2>8. Alive(u, p) /\ Childless(u, p)
    BY <2>1, <2>2, <2>3, <2>5 DEF Alive, Childless
  <2>9. Family(pcb')
    BY <2>4, <2>5, <2>6, <2>8, FamilyFree
  <2> QED BY <1>2, <2>1, <2>3, <2>4, <2>5, <2>7, <2>9 DEF Alive
<1>3. ASSUME pcb' = [t EXCEPT ![p].state = "ZOMBIE"]
      PROVE  /\ Family(pcb')
             /\ \A c \in Slots : pcb'[c] # t[c] => c = p
  BY <1>3, FamilyEnd
<1>4. mode' # "no process parent"
  BY <1>1 DEF Zombify, ThenDispatch
<1>5. ASSUME pcb' = t
      PROVE  /\ Family(pcb')
             /\ \A c \in Slots : pcb'[c] = t[c]
  BY <1>5
<1>6. CASE \E q \in Find(t, t[p].ppid) :
             /\ t[q].state = "WAITING"
             /\ Release([t EXCEPT ![q].state = "READY", ![q].arg = 0], p)
  BY <1>2, <1>4, <1>6
<1>7. CASE pcb' = [t EXCEPT ![p].state = "ZOMBIE"]
  BY <1>3, <1>4, <1>7 DEF Alive
<1>8. CASE pcb' = t
  BY <1>4, <1>5, <1>8 DEF Alive
<1> QED BY <1>6, <1>7, <1>8 DEF Zombify, Wants

-----------------------------------------------------------------------------
(***************************************************************************)
(* Every handler but the dispatcher, in two parts: what all of them do to  *)
(* the processes that do not run (Kept), and where they leave the one that *)
(* does (Stays).  yield() is the one call that does not have the second.   *)
(***************************************************************************)
Queued == Occupied(ready) \cup sleep \cup reading \cup waiting \cup zombie

Kept ==
  /\ Family(pcb')
  /\ Occupied(ready) \subseteq Occupied(ready)'
  /\ \A p \in Slots : p \in Occupied(ready) => pcb'[p].pid = pcb[p].pid
  /\ mode' \notin Panics
  /\ pcb'[1].state = "FREE" => pcb[1].state = "FREE"
  /\ \A p \in Slots : Alive(pcb', p) => p \in Queued' \/ (p \notin Queued /\ Alive(pcb, p))

Stays == mode' = mode \/ current \in Queued' \/ ~ Alive(pcb', current)

(***************************************************************************)
(* Handlers that leave the tables and the queues alone.                    *)
(***************************************************************************)
LEMMA IdleHandler ==
  ASSUME UInv, UNCHANGED <<pcb, queues>>, mode' \notin Panics
  PROVE  Kept
<1>1. /\ pcb' = pcb /\ ready' = ready /\ sleep' = sleep /\ reading' = reading
      /\ waiting' = waiting /\ zombie' = zombie
  BY DEF queues
<1>2. Occupied(ready)' = Occupied(ready) /\ Queued' = Queued
  BY <1>1 DEF Occupied, Queued
<1> QED BY <1>1, <1>2 DEF Kept, UInv

(***************************************************************************)
(* Handlers that change the PCB of the process on the CPU, and put it in a *)
(* queue if it does not go on.                                             *)
(***************************************************************************)
LEMMA CurrentMoves ==
  ASSUME UInv, mode \in {"user", "clock"},
         NEW r \in PCB, r.pid = pcb[current].pid, r.ppid = pcb[current].ppid,
         r.state \notin {"ZOMBIE", "KILLED"},
         r.state = "FREE" => pcb[current].state = "FREE",
         pcb' = [pcb EXCEPT ![current] = r],
         Occupied(ready) \subseteq Occupied(ready)',
         sleep \subseteq sleep', reading \subseteq reading',
         waiting \subseteq waiting', zombie \subseteq zombie',
         mode' \notin Panics,
         mode' = mode \/ current \in Queued'
  PROVE  Kept /\ Stays
<1>1. /\ IInv /\ Family(pcb) /\ pcb \in [Slots -> PCB] /\ Named(pcb, next_pid)
      /\ current \in Slots /\ Alive(pcb, current)
  BY CurrentFacts DEF UInv, SafeNow, Safe, Alive
<1>2. Family(pcb')
  BY <1>1, FamilyMove
<1>3. \A p \in Slots : /\ pcb'[p].pid = pcb[p].pid
                       /\ pcb'[p].state = "FREE" => pcb[p].state = "FREE"
                       /\ Alive(pcb', p) => Alive(pcb, p)
  BY <1>1 DEF Alive
<1>4. Queued \subseteq Queued'
  BY DEF Queued
<1>5. 1 \in Slots
  BY KernelAssumption DEF Slots
<1> QED BY <1>2, <1>3, <1>4, <1>5 DEF Kept, Stays

(***************************************************************************)
(* A process that was in no ready queue is in one after _schedule.         *)
(***************************************************************************)
LEMMA ScheduleOccupied ==
  ASSUME SafeNow, NEW t, NEW p \in Slots, p \notin Occupied(ready), NEW x \in Nat,
         Schedule(t, p, x)
  PROVE  Occupied(ready)' = Occupied(ready) \cup {p}
<1>1. ready \in ReadyType /\ ReadyOK(ready)
  BY DEF SafeNow, Safe, Types
<1>2. ready' = Enqueue(ready, p, x)
  BY DEF Schedule
<1>3. Occupied(Enqueue(ready, p, x)) = Occupied(ready) \cup {p}
  BY <1>1, EnqueueOK
<1> QED BY <1>2, <1>3 DEF Occupied

(***************************************************************************)
(* The calls and the interrupt that take the running process off the CPU.  *)
(***************************************************************************)
LEMMA SetPrioKept == ASSUME UInv, NEW x \in Prios, SetPrio(x) PROVE Kept /\ Stays
<1> DEFINE r == [pcb[current] EXCEPT !.prio = x]
<1>1. /\ current \in Slots /\ pcb \in [Slots -> PCB] /\ pcb[current] \in PCB /\ mode = "user"
      /\ pcb[current].state \notin {"ZOMBIE", "KILLED"}
      /\ mode' = mode /\ UNCHANGED queues
  BY CurrentFacts DEF SetPrio, Syscall, UInv, Family, Alive
<1>2. x \in Nat
  BY KernelAssumption
<1>3. /\ r \in PCB /\ r.pid = pcb[current].pid /\ r.ppid = pcb[current].ppid
      /\ r.state = pcb[current].state
  BY <1>1, <1>2 DEF PCB
<1>4. pcb' = [pcb EXCEPT ![current] = r]
  BY <1>1 DEF SetPrio
<1> HIDE DEF r
<1>5. Occupied(ready)' = Occupied(ready)
  BY <1>1 DEF queues, Occupied
<1> QED BY <1>1, <1>3, <1>4, <1>5, CurrentMoves DEF queues, Panics

(***************************************************************************)
(* exec(): the process goes to the ready queue of its new priority.        *)
(***************************************************************************)
LEMMA ExecKept == ASSUME UInv, NEW x \in Nat, Exec(x) PROVE Kept /\ Stays
<1> DEFINE r == [pcb[current] EXCEPT !.prio = x, !.state = "READY"]
           t == [pcb EXCEPT ![current].prio = x]
<1>1. /\ current \in Slots /\ pcb \in [Slots -> PCB] /\ pcb[current] \in PCB /\ mode = "user"
      /\ SafeNow /\ Outside(current)
  BY CurrentFacts DEF Exec, Syscall, UInv
<1>2. /\ r \in PCB /\ r.pid = pcb[current].pid /\ r.ppid = pcb[current].ppid
      /\ r.state = "READY"
  BY <1>1 DEF PCB, States
<1>3. Schedule(t, current, x)
  BY DEF Exec
<1>4. pcb' = [pcb EXCEPT ![current] = r]
  BY <1>1, <1>3 DEF Schedule, PCB
<1> HIDE DEF r, t
<1>5. Occupied(ready)' = Occupied(ready) \cup {current}
  BY <1>1, <1>3, ScheduleOccupied DEF Outside
<1>6. current \in Queued' /\ mode' = "dispatch"
  BY <1>5 DEF Queued, Exec, ThenDispatch
<1> QED BY <1>1, <1>2, <1>4, <1>5, <1>6, CurrentMoves DEF Exec, Panics

(***************************************************************************)
(* The end of _isr_clock: the interrupted process is scheduled again.      *)
(***************************************************************************)
LEMMA ClockPreemptKept == ASSUME UInv, ClockPreempt PROVE Kept /\ Stays
<1> DEFINE r == [pcb[current] EXCEPT !.state = "READY"]
<1>1. /\ current \in Slots /\ pcb \in [Slots -> PCB] /\ pcb[current] \in PCB
      /\ mode = "clock" /\ SafeNow /\ Outside(current) /\ pcb[current].prio \in Nat
  BY CurrentFacts DEF ClockPreempt, UInv
<1>2. /\ r \in PCB /\ r.pid = pcb[current].pid /\ r.ppid = pcb[current].ppid
      /\ r.state = "READY"
  BY <1>1 DEF PCB, States
<1>3. Schedule(pcb, current, pcb[current].prio)
  BY DEF ClockPreempt
<1>4. pcb' = [pcb EXCEPT ![current] = r]
  BY <1>1, <1>3 DEF Schedule
<1> HIDE DEF r
<1>5. Occupied(ready)' = Occupied(ready) \cup {current}
  BY <1>1, <1>3, ScheduleOccupied DEF Outside
<1>6. current \in Queued' /\ mode' = "dispatch"
  BY <1>5 DEF Queued, ClockPreempt, ThenDispatch
<1> QED BY <1>1, <1>2, <1>4, <1>5, <1>6, CurrentMoves DEF ClockPreempt, Panics

(***************************************************************************)
(* sleep(), readc() without a character and wait() without a zombie: the   *)
(* process goes to the set of those that wait for the same event.          *)
(***************************************************************************)
LEMMA BlockKept ==
  ASSUME UInv,
         \/ \E ticks \in Ticks : Sleep(ticks)
         \/ ReadcBlock
         \/ \E x \in Nat : WaitBlock(x)
  PROVE  Kept /\ Stays
<1>1. /\ current \in Slots /\ pcb \in [Slots -> PCB] /\ pcb[current] \in PCB
      /\ mode = "user" /\ system_time \in Nat
      /\ pcb[current].state \notin {"ZOMBIE", "KILLED"}
  <2>1. mode = "user"
    BY DEF Sleep, ReadcBlock, WaitBlock, Syscall
  <2>2. IInv /\ Family(pcb)
    BY DEF UInv
  <2>3. system_time \in Nat
    <3>1. system_time \in 0..(TIME_MOD - 1) /\ TIME_MOD \in Nat
      BY <2>2, KernelAssumption DEF IInv
    <3> QED BY <3>1
  <2> QED BY <2>1, <2>2, <2>3, CurrentFacts DEF Family, Alive
<1>2. Occupied(ready)' = Occupied(ready) /\ mode' = "dispatch"
  BY DEF Sleep, ReadcBlock, WaitBlock, Block, ThenDispatch, Occupied
<1>3. CASE \E ticks \in Ticks : Sleep(ticks)
  <2>1. PICK ticks \in Ticks : Sleep(ticks)
    BY <1>3
  <2> DEFINE w == (system_time + ticks) % TIME_MOD
             r == [pcb[current] EXCEPT !.state = "SLEEPING", !.wake = w]
  <2>2. w \in Nat
    <3>1. system_time + ticks \in Nat /\ TIME_MOD \in Nat \ {0}
      BY <1>1, KernelAssumption
    <3> QED BY <3>1, ModRange
  <2>3. pcb' = [pcb EXCEPT ![current] = r]
    BY <1>1, <2>1 DEF Sleep
  <2> HIDE DEF w
  <2>4. /\ r \in PCB /\ r.pid = pcb[current].pid /\ r.ppid = pcb[current].ppid
        /\ r.state = "SLEEPING"
    BY <1>1, <2>2 DEF PCB, States
  <2> HIDE DEF r
  <2>5. current \in Queued'
    BY <2>1 DEF Sleep, Queued
  <2> QED BY <1>1, <1>2, <2>1, <2>3, <2>4, <2>5, CurrentMoves DEF Sleep, Panics
<1>4. CASE ReadcBlock
  <2> DEFINE r == [pcb[current] EXCEPT !.status = BLOCKED]
  <2>1. pcb' = [pcb EXCEPT ![current] = r]
    BY <1>1, <1>4 DEF ReadcBlock
  <2>2. /\ r \in PCB /\ r.pid = pcb[current].pid /\ r.ppid = pcb[current].ppid
        /\ r.state = pcb[current].state
    BY <1>1 DEF PCB, BLOCKED
  <2> HIDE DEF r
  <2>3. current \in Queued'
    BY <1>4 DEF ReadcBlock, Queued
  <2> QED BY <1>1, <1>2, <1>4, <2>1, <2>2, <2>3, CurrentMoves DEF ReadcBlock, Panics
<1>5. CASE \E x \in Nat : WaitBlock(x)
  <2>1. PICK x \in Nat : WaitBlock(x)
    BY <1>5
  <2> DEFINE r == [pcb[current] EXCEPT !.state = "WAITING", !.arg = x]
  <2>2. pcb' = [pcb EXCEPT ![current] = r]
    BY <1>1, <2>1 DEF WaitBlock, Block
  <2>3. /\ r \in PCB /\ r.pid = pcb[current].pid /\ r.ppid = pcb[current].ppid
        /\ r.state = "WAITING"
    BY <1>1 DEF PCB, States
  <2> HIDE DEF r
  <2>4. current \in Queued'
    BY <2>1 DEF WaitBlock, Block, Queued
  <2> QED BY <1>1, <1>2, <2>1, <2>2, <2>3, <2>4, CurrentMoves DEF WaitBlock, Block, Panics
<1> QED BY <1>3, <1>4, <1>5

(***************************************************************************)
(* fork(): the child is in a ready queue, and nobody else moves.           *)
(***************************************************************************)
LEMMA ForkKept ==
  ASSUME UInv, Fork
  PROVE  /\ Kept /\ Stays
         /\ \E p \in Slots : pcb'[p].pid = next_pid /\ p \in Occupied(ready)'
<1> DEFINE h == Head(pcb_avail)
           s == Head(stack_avail)
           r == [Child EXCEPT !.state = "READY"]
<1>1. /\ pcb \in [Slots -> PCB] /\ current \in Slots /\ pcb[current] \in PCB /\ mode = "user"
      /\ SafeNow /\ Alive(pcb, current) /\ pcb[current].prio \in Nat
      /\ pcb[current].state # "ZOMBIE" /\ Family(pcb) /\ Named(pcb, next_pid)
  BY CurrentFacts DEF Fork, Syscall, UInv, Alive, SafeNow, Safe
<1>2. /\ pcb_avail \in Seq(Slots) /\ pcb_avail # <<>> /\ NoDuplicates(pcb_avail)
      /\ stack_avail \in Seq(Stacks) /\ stack_avail # <<>> /\ next_pid \in Nat \ {0}
  BY <1>1 DEF SafeNow, Safe, Types, Fork
<1>3. h \in Slots /\ h \in RangeOf(pcb_avail) /\ s \in Stacks
  BY <1>2, TailRange, HeadTailProperties
<1>4. pcb[h] = ClearedPcb /\ h \notin Occupied(ready)
  BY <1>1, <1>3 DEF SafeNow, Safe, Faithful, Apart
<1>5. Schedule([pcb EXCEPT ![h] = Child], h, pcb[current].prio)
  BY DEF Fork
<1>6. /\ r \in PCB /\ r.state = "READY" /\ r.pid = next_pid /\ r.ppid = pcb[current].pid
  <2>1. ClearedPcb \in PCB
    BY DEF ClearedPcb, PCB, States
  <2>2. pcb[current].pid \in Nat
    BY <1>1 DEF PCB
  <2>3. Child = [ClearedPcb EXCEPT !.pid = next_pid, !.ppid = pcb[current].pid,
                                   !.prio = pcb[current].prio, !.stack = s]
    BY DEF Child
  <2> HIDE DEF s
  <2> QED BY <1>1, <1>2, <1>3, <2>1, <2>2, <2>3 DEF PCB, States
<1>7. pcb' = [pcb EXCEPT ![h] = r]
  BY <1>1, <1>3, <1>5 DEF Schedule
<1> HIDE DEF h, r
<1>8. Occupied(ready)' = Occupied(ready) \cup {h}
  BY <1>1, <1>3, <1>4, <1>5, ScheduleOccupied
<1>9. Family(pcb')
  BY <1>1, <1>2, <1>3, <1>4, <1>6, <1>7, FamilyFork
<1>10. \A p \in Slots \ {h} : pcb'[p] = pcb[p]
  BY <1>1, <1>3, <1>7
<1>11. pcb'[h] = r
  BY <1>1, <1>3, <1>7
<1>12. 1 \in Slots
  BY KernelAssumption DEF Slots
<1>13. /\ sleep' = sleep /\ reading' = reading /\ waiting' = waiting /\ zombie' = zombie
       /\ mode' = mode
  BY DEF Fork
<1>14. \A p \in Slots : Alive(pcb', p) => p \in Queued' \/ (p \notin Queued /\ Alive(pcb, p))
  BY <1>8, <1>10, <1>13 DEF Queued, Alive
<1>15. Kept
  BY <1>1, <1>3, <1>4, <1>6, <1>8, <1>9, <1>10, <1>11, <1>12, <1>13, <1>14 DEF Kept, Panics
<1> QED BY <1>3, <1>6, <1>8, <1>11, <1>13, <1>15 DEF Stays

(***************************************************************************)
(* wait() with a zombie: it is on its queue, and its PCB is freed.         *)
(***************************************************************************)
LEMMA WaitReapKept == ASSUME UInv, NEW x \in Nat, WaitReap(x) PROVE Kept /\ Stays
<1>1. /\ pcb \in [Slots -> PCB] /\ SafeNow /\ Family(pcb) /\ mode = "user"
      /\ zombie \subseteq Slots
  BY DEF UInv, IInv, SafeNow, Safe, Types, WaitReap, Syscall
<1>2. IInv'
  BY WaitReapStep DEF UInv
<1>3. PICK p \in IF x = 0 THEN AnyChild ELSE Find(pcb, x) : Reap(p)
  BY DEF WaitReap
<1>4. p \in zombie /\ pcb' = [pcb EXCEPT ![p] = ClearedPcb] /\ zombie' = zombie \ {p}
      /\ mode' = mode /\ pcb[p].state = "ZOMBIE"
  BY <1>2, <1>3 DEF Reap, Release, IInv
<1>5. /\ ready' = ready /\ sleep' = sleep /\ reading' = reading /\ waiting' = waiting
  BY <1>3 DEF Reap
<1>6. Childless(pcb, p) /\ Alive(pcb, p)
  BY <1>1, <1>4 DEF Family, Childless, Alive, ClearedPcb
<1>7. Family(pcb')
  BY <1>1, <1>4, <1>6, FamilyFree
<1>8. \A q \in Slots \ {p} : pcb'[q] = pcb[q]
  BY <1>1, <1>4
<1>9. pcb'[p] = ClearedPcb /\ p \notin Occupied(ready)
  BY <1>1, <1>4 DEF SafeNow, Safe, Apart
<1>10. Occupied(ready)' = Occupied(ready)
  BY <1>5 DEF Occupied
<1>11. 1 \in Slots /\ p # 1
  BY <1>1, <1>6, KernelAssumption DEF Slots, Family, Childless, Alive, ClearedPcb, PID_INIT
<1>12. \A q \in Slots : Alive(pcb', q) => q \in Queued' \/ (q \notin Queued /\ Alive(pcb, q))
  BY <1>4, <1>5, <1>8, <1>9, <1>10 DEF Queued, Alive
<1> QED
  BY <1>1, <1>4, <1>7, <1>8, <1>9, <1>10, <1>11, <1>12 DEF Kept, Stays, Panics

(***************************************************************************)
(* Waking a process up: it moves from the set it blocks in to a ready      *)
(* queue.                                                                  *)
(***************************************************************************)
LEMMA WakeKept ==
  ASSUME UInv, NEW p \in Slots, ClockWake(p) \/ SioWake(p)
  PROVE  Kept /\ Stays
<1>1. /\ pcb \in [Slots -> PCB] /\ SafeNow /\ Family(pcb) /\ Named(pcb, next_pid)
      /\ p \in sleep \cup reading /\ pcb[p] \in PCB /\ mode' = mode /\ mode \notin Panics
      /\ waiting' = waiting /\ zombie' = zombie
      /\ sleep \subseteq sleep' \cup {p} /\ reading \subseteq reading' \cup {p}
  <2>1. IInv /\ Family(pcb) /\ mode \notin Panics
    BY DEF UInv, Boot
  <2>2. pcb \in [Slots -> PCB] /\ SafeNow /\ Named(pcb, next_pid)
    BY <2>1 DEF IInv, SafeNow, Safe, Types
  <2>3. pcb[p] \in PCB
    BY <2>2
  <2>4. CASE ClockWake(p)
    BY <2>1, <2>2, <2>3, <2>4 DEF ClockWake, Due
  <2>5. CASE SioWake(p)
    BY <2>1, <2>2, <2>3, <2>5 DEF SioWake
  <2> QED BY <2>4, <2>5
<1>2. p \notin Occupied(ready) /\ p \notin RangeOf(pcb_avail)
  BY <1>1 DEF SafeNow, Safe, Apart
<1>3. Alive(pcb, p)
  BY <1>1, <1>2 DEF SafeNow, Safe, Faithful, Alive
<1>4. \E w \in Nat, x \in Nat : \E t : t = [pcb EXCEPT ![p].wake = w] /\ Schedule(t, p, x)
  <2>1. CASE ClockWake(p)
    BY <2>1 DEF ClockWake, PRIO_MAXIMUM
  <2>2. CASE SioWake(p)
    <3>1. [pcb EXCEPT ![p].wake = pcb[p].wake] = pcb /\ pcb[p].wake \in Nat /\ pcb[p].prio \in Nat
      BY <1>1 DEF PCB
    <3> QED BY <2>2, <3>1 DEF SioWake
  <2> QED BY <2>1, <2>2
<1>5. PICK w \in Nat, x \in Nat : \E t : t = [pcb EXCEPT ![p].wake = w] /\ Schedule(t, p, x)
  BY <1>4
<1>t. PICK t : t = [pcb EXCEPT ![p].wake = w] /\ Schedule(t, p, x)
  BY <1>5
<1> DEFINE r == [pcb[p] EXCEPT !.wake = w, !.state = "READY"]
<1>6. r \in PCB /\ r.pid = pcb[p].pid /\ r.ppid = pcb[p].ppid /\ r.state = "READY"
  BY <1>1 DEF PCB, States
<1>7. pcb' = [pcb EXCEPT ![p] = r]
  BY <1>1, <1>t DEF Schedule, PCB
<1> HIDE DEF r
<1>8. Occupied(ready)' = Occupied(ready) \cup {p}
  BY <1>1, <1>2, <1>t, ScheduleOccupied
<1>9. Family(pcb')
  BY <1>1, <1>3, <1>6, <1>7, FamilyMove
<1>10. pcb'[p] = r /\ \A q \in Slots \ {p} : pcb'[q] = pcb[q]
  BY <1>1, <1>7
<1>11. 1 \in Slots
  BY KernelAssumption DEF Slots
<1>12. \A q \in Slots : Alive(pcb', q) => q \in Queued' \/ (q \notin Queued /\ Alive(pcb, q))
  BY <1>1, <1>8, <1>10 DEF Queued, Alive
<1> QED BY <1>1, <1>6, <1>8, <1>9, <1>10, <1>11, <1>12 DEF Kept, Stays

(***************************************************************************)
(* exit() of a process other than init: the parent it has left is found,   *)
(* for init is not in the state FREE any more.                             *)
(***************************************************************************)
LEMMA ExitKept ==
  ASSUME UInv, NEW code \in ExitCodes, Exit(code), pcb[current].pid # PID_INIT
  PROVE  Kept /\ Stays
<1> DEFINE t == ExitTable(code)
<1>1. /\ IInv /\ SafeNow /\ current \in Slots /\ Outside(current) /\ mode = "user"
      /\ pcb \in [Slots -> PCB] /\ Alive(pcb, current) /\ Named(pcb, next_pid) /\ Family(pcb)
  BY CurrentFacts DEF Exit, Syscall, UInv, Alive, SafeNow, Safe
<1>2. code \in Nat
  BY KernelAssumption
<1>3. 1 \in Slots /\ current # 1 /\ pcb[1].state # "FREE"
  <2>1. 1 \in Slots
    BY KernelAssumption DEF Slots
  <2>2. pcb[1].pid = PID_INIT
    BY <1>1 DEF Family
  <2>3. pcb[1].state = "FREE" => current = 1
    BY DEF UInv, Boot, OnCpu
  <2> QED BY <2>1, <2>2, <2>3
<1>4. /\ t \in [Slots -> PCB] /\ Named(t, next_pid) /\ Family(t)
      /\ Alive(t, current) /\ Childless(t, current)
      /\ \A p \in Slots : t[p].pid = pcb[p].pid /\ t[p].state = pcb[p].state
  BY <1>1, <1>2, FamilyExit
<1>5. Zombify(t, ready, current)
  BY DEF Exit
<1> HIDE DEF t
<1>6. /\ Family(pcb') /\ mode' # "no process parent"
      /\ \A c \in Slots : /\ pcb'[c] # t[c] => t[c].state = "WAITING" \/ c = current
                          /\ c # current => pcb'[c].pid = t[c].pid
                          /\ c # current => Alive(pcb', c) <=> Alive(t, c)
  <2>1. t[1].state # "FREE"
    BY <1>3, <1>4
  <2> QED BY <1>1, <1>4, <1>5, <2>1, FamilyZombify, ZenonT(40)
<1>7. \A c \in Slots : Alive(t, c) <=> Alive(pcb, c)
  <2>1. \A c \in Slots : Alive(t, c) <=> t[c].pid # 0
    BY <1>4 DEF Named, Alive
  <2>2. \A c \in Slots : Alive(pcb, c) <=> pcb[c].pid # 0
    BY <1>1 DEF Named, Alive
  <2> QED BY <1>4, <2>1, <2>2
<1>8. mode' \notin Panics /\ mode' = "dispatch"
  <2>1. ASSUME NEW q \in Find(t, t[current].ppid), Wants(t, q, current), q \notin waiting
        PROVE  FALSE
    <3>1. q \in Slots /\ pcb[q].state = "WAITING"
      BY <1>4, <2>1 DEF Wants, Find
    <3> QED BY <1>1, <2>1, <3>1 DEF SafeNow, Safe, Faithful
  <2> QED BY <1>5, <1>6, <2>1 DEF Zombify, ThenDispatch, Panics
<1>9. /\ Occupied(ready) \subseteq Occupied(ready)'
      /\ \A c \in Slots : c \in Queued /\ Alive(pcb', c) => c \in Queued'
      /\ Alive(pcb', current) => current \in Queued'
  <2>1. ready \in ReadyType /\ ReadyOK(ready)
    BY <1>1 DEF SafeNow, Safe, Types
  <2>2. ASSUME NEW q \in Find(t, t[current].ppid), q \in waiting,
               waiting' = waiting \ {q}, ready' = Enqueue(ready, q, PRIO_MAXIMUM),
               Release([t EXCEPT ![q].state = "READY", ![q].arg = 0], current),
               UNCHANGED <<sleep, reading, zombie>>
        PROVE  /\ Occupied(ready) \subseteq Occupied(ready)'
               /\ \A c \in Slots : c \in Queued => c \in Queued'
               /\ ~ Alive(pcb', current)
    <3>1. q \in Slots /\ q \notin Occupied(ready)
      BY <1>1, <2>2 DEF Find, SafeNow, Safe, Apart
    <3>2. Occupied(Enqueue(ready, q, PRIO_MAXIMUM)) = Occupied(ready) \cup {q}
      BY <2>1, <3>1, EnqueueOK DEF PRIO_MAXIMUM
    <3>3. Occupied(ready)' = Occupied(ready) \cup {q}
      BY <2>2, <3>2 DEF Occupied
    <3>4. pcb'[current] = ClearedPcb
      BY <1>1, <1>4, <2>2 DEF Release
    <3> QED BY <2>2, <3>3, <3>4 DEF Queued, Alive
  <2>3. ASSUME zombie' = zombie \cup {current}, ready' = ready,
               UNCHANGED <<sleep, reading, waiting>>
        PROVE  /\ Occupied(ready) \subseteq Occupied(ready)'
               /\ \A c \in Slots : c \in Queued => c \in Queued'
               /\ current \in Queued'
    BY <2>3 DEF Queued, Occupied
  <2>4. \/ \E q \in Find(t, t[current].ppid) :
              /\ q \in waiting /\ waiting' = waiting \ {q}
              /\ ready' = Enqueue(ready, q, PRIO_MAXIMUM)
              /\ Release([t EXCEPT ![q].state = "READY", ![q].arg = 0], current)
              /\ UNCHANGED <<sleep, reading, zombie>>
        \/ /\ zombie' = zombie \cup {current} /\ ready' = ready
           /\ UNCHANGED <<sleep, reading, waiting>>
    BY <1>5, <1>8 DEF Zombify, Panics
  <2> QED BY <2>2, <2>3, <2>4
<1>10. ASSUME NEW p \in Slots, Alive(pcb', p)
       PROVE  p \in Queued' \/ (p \notin Queued /\ Alive(pcb, p))
  <2>1. CASE p = current
    BY <1>9, <1>10, <2>1
  <2>2. CASE p # current
    <3>1. Alive(pcb, p)
      BY <1>6, <1>7, <1>10, <2>2
    <3> QED BY <1>9, <1>10, <3>1
  <2> QED BY <2>1, <2>2
<1>11. ASSUME NEW p \in Slots, p \in Occupied(ready)
       PROVE  pcb'[p].pid = pcb[p].pid
  <2>1. p # current
    BY <1>1, <1>11 DEF Outside
  <2>2. pcb'[p].pid = t[p].pid /\ t[p].pid = pcb[p].pid
    BY <1>4, <1>6, <2>1
  <2> QED BY <2>2
<1>12. pcb'[1].state # "FREE"
  <2>1. CASE pcb'[1] = t[1]
    BY <1>3, <1>4, <2>1
  <2>2. CASE pcb'[1] # t[1]
    <3>1. pcb'[1].state = "READY"
      <4>1. ASSUME NEW q \in Find(t, t[current].ppid),
                   Release([t EXCEPT ![q].state = "READY", ![q].arg = 0], current)
            PROVE  pcb'[1].state = "READY"
        BY <1>3, <1>4, <2>2, <4>1 DEF Release, Find, PCB
      <4>2. ASSUME pcb' = [t EXCEPT ![current].state = "ZOMBIE"] PROVE FALSE
        BY <1>3, <1>4, <2>2, <4>2
      <4> QED BY <1>5, <1>8, <4>1, <4>2 DEF Zombify, Panics
    <3> QED BY <3>1
  <2> QED BY <2>1, <2>2
<1> QED BY <1>6, <1>8, <1>9, <1>10, <1>11, <1>12 DEF Kept, Stays

(***************************************************************************)
(* Every system call but kill(), of a process other than init; and none    *)
(* but yield() leaves its caller nowhere.                                  *)
(***************************************************************************)
LEMMA CallKept ==
  ASSUME UInv, SyscallNext, "kill" \notin Calls, pcb[current].pid # PID_INIT
  PROVE  /\ Kept /\ current' = current /\ mode = "user"
         /\ Stays \/ Yield
<1>1. ASSUME NEW x \in Prios, SetPrio(x) \/ Exec(x)
      PROVE  Kept /\ Stays /\ current' = current /\ mode = "user"
  <2>1. x \in Nat
    BY KernelAssumption
  <2>2. Kept /\ Stays
    BY <1>1, <2>1, SetPrioKept, ExecKept
  <2> QED BY <1>1, <2>2 DEF SetPrio, Exec, Syscall
<1>2. ASSUME NEW ticks \in Ticks, Sleep(ticks)
      PROVE  Kept /\ Stays /\ current' = current /\ mode = "user"
  <2>1. Kept /\ Stays
    BY <1>2, BlockKept
  <2> QED BY <1>2, <2>1 DEF Sleep, Syscall
<1>3. CASE Fork
  <2>1. Kept /\ Stays
    BY <1>3, ForkKept
  <2> QED BY <1>3, <2>1 DEF Fork, Syscall
<1>4. CASE ReadcBlock
  <2>1. Kept /\ Stays
    BY <1>4, BlockKept
  <2> QED BY <1>4, <2>1 DEF ReadcBlock, Syscall
<1>5. ASSUME NEW x \in 0..PID_MAX, WaitReap(x) \/ WaitBlock(x)
      PROVE  Kept /\ Stays /\ current' = current /\ mode = "user"
  <2>1. x \in Nat
    BY KernelAssumption
  <2>2. Kept /\ Stays
    BY <1>5, <2>1, WaitReapKept, BlockKept
  <2> QED BY <1>5, <2>2 DEF WaitReap, WaitBlock, Reap, Block, Syscall
<1>6. ASSUME NEW code \in ExitCodes, Exit(code)
      PROVE  Kept /\ Stays /\ current' = current /\ mode = "user"
  <2>1. Kept /\ Stays
    BY <1>6, ExitKept
  <2> QED BY <1>6, <2>1 DEF Exit, Syscall
<1>7. ASSUME (\E t \in Times : SetTime(t)) \/ ForkNoStack \/ ReadcNow
      PROVE  Kept /\ Stays /\ current' = current /\ mode = "user"
  <2>1. UNCHANGED <<pcb, queues>> /\ mode' = mode /\ current' = current /\ mode = "user"
    BY <1>7 DEF SetTime, ForkNoStack, ReadcNow, Syscall
  <2>2. Kept
    BY <2>1, IdleHandler DEF Panics
  <2> QED BY <2>1, <2>2 DEF Stays
<1>8. CASE Yield
  <2>1. UNCHANGED <<pcb, queues>> /\ mode' = "dispatch" /\ current' = current /\ mode = "user"
    BY <1>8 DEF Yield, ThenDispatch, Syscall
  <2>2. Kept
    BY <2>1, IdleHandler DEF Panics
  <2> QED BY <1>8, <2>1, <2>2
<1>9. ASSUME (\E x \in 1..PID_MAX : KillOther(x)) \/ KillSelf
      PROVE  FALSE
  BY <1>9 DEF KillOther, KillSelf, Syscall
<1> QED BY <1>1, <1>2, <1>3, <1>4, <1>5, <1>6, <1>7, <1>8, <1>9 DEF SyscallNext

-----------------------------------------------------------------------------
(***************************************************************************)
(* The steps of the booted system.                                         *)
(***************************************************************************)

(***************************************************************************)
(* A process that can run still can, unless the CPU was taken from it by a *)
(* call of its own.                                                        *)
(***************************************************************************)
LEMMA RunnableKept ==
  ASSUME Kept, current' = current, NEW x, Runnable(x),
         \/ current \in Slots /\ pcb[current].pid # x
         \/ /\ pcb'[current].pid = pcb[current].pid
            /\ mode' \in {"user", "clock"} \/ current \in Occupied(ready)'
  PROVE  Runnable(x)'
<1>1. PICK p \in Slots : pcb[p].pid = x /\ (p \in Occupied(ready) \/ OnCpu(p))
  BY DEF Runnable
<1>2. CASE p \in Occupied(ready)
  BY <1>1, <1>2 DEF Kept, Runnable
<1>3. CASE OnCpu(p)
  BY <1>1, <1>3 DEF OnCpu, Runnable
<1> QED BY <1>1, <1>2, <1>3

(***************************************************************************)
(* init's slot.                                                            *)
(***************************************************************************)
LEMMA InitSlot ==
  ASSUME UInv
  PROVE  /\ 1 \in Slots /\ pcb[1].pid = PID_INIT
         /\ current \in Slots
         /\ pcb[current].pid = PID_INIT <=> current = 1
         /\ mode \in {"user", "clock", "dispatch"}
         /\ initpc = "fork idle" /\ mode \in {"user", "clock"} => pcb[current].pid = PID_INIT
<1>1. 1 \in Slots
  BY KernelAssumption DEF Slots
<1>2. pcb[1].pid = PID_INIT /\ current \in Slots /\ Named(pcb, next_pid) /\ IInv
  BY DEF UInv, Family, IInv, SafeNow, Safe
<1>3. pcb[current].pid = PID_INIT <=> current = 1
  BY <1>1, <1>2 DEF Named, PID_INIT
<1>4. mode \in {"user", "clock", "dispatch"}
  BY DEF UInv, IInv, Boot, Modes
<1>5. ASSUME initpc = "fork idle", mode \in {"user", "clock"}
      PROVE  pcb[current].pid = PID_INIT
  <2>1. next_pid = 2
    <3>1. next_pid = PID_IDLE
      BY <1>5 DEF UInv, Boot
    <3> QED BY <3>1 DEF PID_IDLE, PID_INIT
  <2>2. pcb[current].pid \in Nat \ {0} /\ pcb[current].pid < 2
    BY <1>2, <1>5, <2>1, CurrentFacts DEF Named
  <2> QED BY <2>2 DEF PID_INIT
<1> QED BY <1>1, <1>2, <1>3, <1>4, <1>5

(***************************************************************************)
(* init: the fork of the idle process, the forks of the users, the waits.  *)
(***************************************************************************)
LEMMA InitStepBoot ==
  ASSUME UInv, IInv', InitStep
  PROVE  Family(pcb') /\ Boot'
<1>1. /\ mode = "user" /\ current = 1 /\ pcb[1].pid = PID_INIT /\ current \in Slots
      /\ PID_INIT # PID_IDLE /\ 1 \in Slots /\ mode \notin Panics
  <2>1. mode = "user" /\ pcb[current].pid = PID_INIT
    BY DEF InitStep, InitForkIdle, InitForkUser, InitForkedAll, InitWait, Runs
  <2>2. PID_INIT # PID_IDLE
    BY DEF PID_IDLE, PID_INIT
  <2> QED BY <2>1, <2>2, InitSlot DEF Panics
<1>2. CASE InitForkIdle
  <2>1. /\ Fork /\ initpc = "fork idle" /\ initpc' = "fork users"
        /\ current' = current /\ mode' = mode /\ next_pid = PID_IDLE
    BY <1>2 DEF InitForkIdle, Fork, UInv, Boot
  <2>2. Kept /\ \E p \in Slots : pcb'[p].pid = next_pid /\ p \in Occupied(ready)'
    BY <2>1, ForkKept
  <2>3. Runnable(PID_IDLE)'
    BY <2>1, <2>2 DEF Runnable, PID_IDLE, PID_INIT
  <2>4. OnCpu(1)'
    BY <1>1, <2>1 DEF OnCpu
  <2> QED BY <2>1, <2>2, <2>3, <2>4 DEF Boot, Kept
<1>3. CASE InitForkUser
  <2>1. /\ Fork /\ initpc = "fork users" /\ initpc' = initpc
        /\ current' = current /\ mode' = mode /\ Runnable(PID_IDLE)
    BY <1>3 DEF InitForkUser, Fork, UInv, Boot
  <2>2. Kept
    BY <2>1, ForkKept
  <2>3. Runnable(PID_IDLE)'
    BY <1>1, <2>1, <2>2, RunnableKept
  <2>4. OnCpu(1)'
    BY <1>1, <2>1 DEF OnCpu
  <2> QED BY <2>1, <2>2, <2>3, <2>4 DEF Boot, Kept
<1>4. CASE InitForkedAll
  <2>1. /\ initpc' = "wait" /\ Runnable(PID_IDLE) /\ UNCHANGED vars
        /\ (pcb[1].state = "FREE" => OnCpu(1))
    BY <1>4 DEF InitForkedAll, UInv, Boot
  <2>2. pcb' = pcb /\ current' = current /\ mode' = mode /\ ready' = ready
    BY <2>1 DEF vars, queues
  <2>3. Runnable(PID_IDLE)'
    BY <2>1, <2>2 DEF Runnable, OnCpu, Occupied, PID_IDLE, PID_INIT
  <2>4. Family(pcb')
    BY <2>2 DEF UInv
  <2>5. OnCpu(1)'
    BY <1>1, <2>2 DEF OnCpu
  <2> QED BY <1>1, <2>1, <2>2, <2>3, <2>4, <2>5 DEF Boot
<1>5. CASE InitWait
  <2>1. /\ initpc = "wait" /\ initpc' = initpc /\ current' = current
        /\ WaitReap(0) \/ WaitBlock(0)
        /\ Runnable(PID_IDLE)
    BY <1>5 DEF InitWait, WaitReap, WaitBlock, Reap, Block, UInv, Boot
  <2>2. Kept
    BY <2>1, WaitReapKept, BlockKept
  <2>3. Runnable(PID_IDLE)'
    BY <1>1, <2>1, <2>2, RunnableKept
  <2>4. pcb'[1].state = "FREE" => OnCpu(1)'
    <3>1. CASE WaitReap(0)
      <4>1. mode' = mode
        BY <2>2, <3>1 DEF WaitReap, Reap, Kept, Panics
      <4> QED BY <1>1, <2>1, <4>1 DEF OnCpu
    <3>2. CASE WaitBlock(0)
      <4>1. pcb' = [pcb EXCEPT ![current].state = "WAITING", ![current].arg = 0]
        BY <3>2 DEF WaitBlock, Block
      <4>2. pcb \in [Slots -> PCB]
        BY DEF UInv, IInv, SafeNow, Safe, Types
      <4>3. pcb'[1].state = "WAITING"
        BY <1>1, <4>1, <4>2 DEF PCB
      <4> QED BY <4>3
    <3> QED BY <2>1, <3>1, <3>2
  <2> QED BY <2>1, <2>2, <2>3, <2>4 DEF Boot, Kept
<1> QED BY <1>2, <1>3, <1>4, <1>5 DEF InitStep

(***************************************************************************)
(* The idle process takes the lowest priority, and is in its ready queue.  *)
(***************************************************************************)
LEMMA IdleExecBoot ==
  ASSUME UInv, IdleExec
  PROVE  Family(pcb') /\ Boot'
<1>1. /\ mode = "user" /\ pcb[current].pid = PID_IDLE /\ current # 1 /\ current \in Slots
      /\ initpc # "fork idle" /\ initpc' = initpc /\ Exec(PRIO_MINIMUM)
  <2>1. mode = "user" /\ pcb[current].pid = PID_IDLE /\ initpc' = initpc /\ Exec(PRIO_MINIMUM)
    BY DEF IdleExec, Runs
  <2>2. PID_INIT # PID_IDLE
    BY DEF PID_IDLE, PID_INIT
  <2> QED BY <2>1, <2>2, InitSlot
<1>2. PRIO_MINIMUM \in Nat
  BY KernelAssumption DEF PRIO_MINIMUM
<1>3. Kept
  BY <1>1, <1>2, ExecKept
<1>4. /\ SafeNow /\ pcb \in [Slots -> PCB] /\ current \notin Occupied(ready)
      /\ current' = current
  BY <1>1, CurrentFacts DEF UInv, Outside, Exec
<1>5. current \in Occupied(ready)' /\ pcb'[current].pid = pcb[current].pid
  <2> DEFINE t == [pcb EXCEPT ![current].prio = PRIO_MINIMUM]
  <2>1. Schedule(t, current, PRIO_MINIMUM)
    BY <1>1 DEF Exec
  <2>2. pcb' = [t EXCEPT ![current].state = "READY"]
    BY <2>1 DEF Schedule
  <2>3. pcb'[current].pid = pcb[current].pid
    BY <1>1, <1>4, <2>2 DEF PCB
  <2> HIDE DEF t
  <2> QED BY <1>1, <1>2, <1>4, <2>1, <2>3, ScheduleOccupied
<1>6. Runnable(PID_IDLE)
  BY <1>1 DEF UInv, Boot
<1>7. Runnable(PID_IDLE)'
  BY <1>3, <1>4, <1>5, <1>6, RunnableKept
<1>8. pcb'[1].state # "FREE"
  BY <1>1, <1>3 DEF Kept, UInv, Boot, OnCpu
<1>9. initpc' \in {"fork idle", "fork users", "wait"} /\ initpc' # "fork idle"
  BY <1>1 DEF UInv, Boot
<1> QED BY <1>3, <1>7, <1>8, <1>9 DEF Boot, Kept

(***************************************************************************)
(* The calls of the users: neither init nor idle is on the CPU.            *)
(***************************************************************************)
LEMMA UserCallBoot ==
  ASSUME UInv, UserCall, "kill" \notin Calls
  PROVE  Family(pcb') /\ Boot'
<1>1. pcb[current].pid \notin {PID_INIT, PID_IDLE} /\ SyscallNext /\ initpc' = initpc
  BY DEF UserCall
<1>2. Kept /\ current' = current /\ mode = "user"
  BY <1>1, CallKept
<1>3. current # 1 /\ current \in Slots /\ initpc # "fork idle"
  BY <1>1, <1>2, InitSlot
<1>4. Runnable(PID_IDLE)
  BY <1>3 DEF UInv, Boot
<1>5. Runnable(PID_IDLE)'
  BY <1>1, <1>2, <1>3, <1>4, RunnableKept
<1>6. pcb'[1].state # "FREE"
  BY <1>2, <1>3 DEF Kept, UInv, Boot, OnCpu
<1>7. initpc' \in {"fork idle", "fork users", "wait"} /\ initpc' # "fork idle"
  BY <1>1, <1>3 DEF UInv, Boot
<1> QED BY <1>2, <1>5, <1>6, <1>7 DEF Boot, Kept

(***************************************************************************)
(* The clock and the serial line.                                          *)
(***************************************************************************)
LEMMA InterruptBoot ==
  ASSUME UInv, ClockStep \/ SioStep
  PROVE  Family(pcb') /\ Boot'
<1>1. initpc' = initpc /\ (ClockNext \/ SioNext)
  BY DEF ClockStep, SioStep
<1>2. /\ Kept /\ current' = current /\ next_pid' = next_pid
      /\ pcb'[1].state = "FREE" /\ OnCpu(1) => OnCpu(1)'
      /\ \/ mode' \in {"user", "clock"} /\ \A p \in Slots : OnCpu(p) => pcb'[p].pid = pcb[p].pid
         \/ current \in Occupied(ready)' /\ pcb'[current].pid = pcb[current].pid
  <2>1. CASE ClockTick
    <3>1. /\ UNCHANGED <<pcb, queues>> /\ mode' = "clock" /\ current' = current
          /\ next_pid' = next_pid
      BY <2>1 DEF ClockTick, pools
    <3>2. Kept
      BY <3>1, IdleHandler DEF Panics
    <3> QED BY <3>1, <3>2 DEF OnCpu
  <2>2. CASE SioStore
    <3>1. /\ UNCHANGED <<pcb, queues>> /\ mode' = "user" /\ current' = current
          /\ next_pid' = next_pid
      BY <2>2 DEF SioStore, pools
    <3>2. Kept
      BY <3>1, IdleHandler DEF Panics
    <3> QED BY <3>1, <3>2 DEF OnCpu
  <2>3. ASSUME NEW q \in Slots, ClockWake(q) \/ SioWake(q)
        PROVE  /\ Kept /\ current' = current /\ next_pid' = next_pid
               /\ OnCpu(1) => OnCpu(1)'
               /\ mode' \in {"user", "clock"}
               /\ \A p \in Slots : OnCpu(p) => pcb'[p].pid = pcb[p].pid
    <3>1. Kept
      BY <2>3, WakeKept
    <3>2. /\ current' = current /\ next_pid' = next_pid /\ mode' = mode
          /\ mode \in {"user", "clock"} /\ q \in sleep \cup reading
      BY <2>3 DEF ClockWake, SioWake, Due, pools
    <3>3. pcb \in [Slots -> PCB] /\ \A p \in Slots : OnCpu(p) => p # q
      BY <3>2, CurrentFacts DEF UInv, Outside, OnCpu
    <3>4. \A p \in Slots \ {q} : pcb'[p] = pcb[p]
      BY <2>3, <3>3 DEF ClockWake, SioWake, Schedule
    <3> QED BY <3>1, <3>2, <3>3, <3>4 DEF OnCpu
  <2>4. CASE ClockPreempt
    <3>1. Kept
      BY <2>4, ClockPreemptKept
    <3>2. /\ mode = "clock" /\ Schedule(pcb, current, pcb[current].prio) /\ next_pid' = next_pid
          /\ current' = current
      BY <2>4 DEF ClockPreempt, pools
    <3>3. /\ SafeNow /\ current \in Slots /\ current \notin Occupied(ready)
          /\ pcb \in [Slots -> PCB] /\ pcb[current].prio \in Nat
      BY <3>2, CurrentFacts DEF UInv, Outside
    <3>4. current \in Occupied(ready)'
      BY <3>2, <3>3, ScheduleOccupied
    <3>5. pcb'[current].pid = pcb[current].pid /\ pcb'[current].state = "READY"
      BY <3>2, <3>3 DEF Schedule, PCB
    <3> QED BY <3>1, <3>2, <3>4, <3>5 DEF OnCpu
  <2> QED BY <1>1, <2>1, <2>2, <2>3, <2>4 DEF ClockNext, SioNext
<1>3. ASSUME NEW x, Runnable(x) PROVE Runnable(x)'
  <2>1. PICK p \in Slots : pcb[p].pid = x /\ (p \in Occupied(ready) \/ OnCpu(p))
    BY <1>3 DEF Runnable
  <2>2. CASE p \in Occupied(ready)
    BY <1>2, <2>1, <2>2 DEF Kept, Runnable
  <2>3. CASE OnCpu(p)
    BY <1>2, <2>1, <2>3 DEF OnCpu, Runnable
  <2> QED BY <2>1, <2>2, <2>3
<1>4. initpc' = "fork idle" => next_pid' = PID_IDLE' /\ Runnable(PID_INIT)'
  BY <1>1, <1>2, <1>3 DEF UInv, Boot, PID_IDLE, PID_INIT
<1>5. initpc' # "fork idle" => Runnable(PID_IDLE)'
  BY <1>1, <1>3 DEF UInv, Boot
<1>6. pcb'[1].state = "FREE" => OnCpu(1)'
  BY <1>2 DEF UInv, Boot, Kept
<1> QED BY <1>1, <1>2, <1>4, <1>5, <1>6 DEF Boot, Kept, UInv

(***************************************************************************)
(* The dispatcher finds a process to run, and it is not one that was       *)
(* killed.                                                                 *)
(***************************************************************************)
LEMMA DispatchFinds ==
  ASSUME UInv, IInv', Dispatch
  PROVE  \E h \in Slots :
           /\ current' = h /\ mode' = "user" /\ h \in Occupied(ready)
           /\ Occupied(ready)' = Occupied(ready) \ {h}
           /\ pcb' = [pcb EXCEPT ![h].state = "RUNNING"]
           /\ UNCHANGED <<sleep, reading, waiting, zombie, pools>>
<1>1. /\ IInv /\ ready \in ReadyType /\ ReadyOK(ready) /\ SafeNow /\ mode = "dispatch"
  BY DEF UInv, IInv, SafeNow, Safe, Types, Dispatch, DispatchRun, DispatchKilled, DispatchEmpty
<1>2. Occupied(ready) # {}
  <2>1. PICK x : Runnable(x)
    BY DEF UInv, Boot
  <2> QED BY <1>1, <2>1 DEF Runnable, OnCpu
<1>3. ~ DispatchEmpty
  <2>1. RangeOf(<<>>) = {}
    BY DEF RangeOf
  <2> QED BY <1>2, <2>1 DEF DispatchEmpty, Occupied
<1>4. ~ DispatchKilled
  <2> SUFFICES ASSUME NEW i \in Levels, ready[i] # <<>>,
                      pcb[Head(ready[i])].state = "KILLED"
               PROVE  FALSE
    BY DEF DispatchKilled, First
  <2>1. Head(ready[i]) \in Slots
    BY <1>1, PoppedOK
  <2> QED BY <2>1 DEF UInv, Family, Alive, ClearedPcb
<1>5. DispatchRun
  BY <1>3, <1>4 DEF Dispatch
<1>6. PICK i \in Levels :
        /\ ready[i] # <<>>
        /\ current' = Head(ready[i])
        /\ ready' = Popped(i)
        /\ IF pcb[Head(ready[i])].state = "READY"
           THEN pcb' = [pcb EXCEPT ![Head(ready[i])].state = "RUNNING"] /\ mode' = "user"
           ELSE mode' = "non-ready" /\ UNCHANGED pcb
  BY <1>5 DEF DispatchRun, First
<1>7. mode' # "non-ready"
  BY DEF IInv
<1> DEFINE h == Head(ready[i])
<1>8. h \in Slots /\ h \in Occupied(ready) /\ Occupied(Popped(i)) = Occupied(ready) \ {h}
  BY <1>1, <1>6, PoppedOK
<1>9. Occupied(ready)' = Occupied(ready) \ {h}
  BY <1>6, <1>8 DEF Occupied
<1>10. UNCHANGED <<sleep, reading, waiting, zombie, pools>>
  BY <1>5 DEF DispatchRun
<1> QED BY <1>6, <1>7, <1>8, <1>9, <1>10

(***************************************************************************)
(* The dispatcher.                                                         *)
(***************************************************************************)
LEMMA DispatchBoot ==
  ASSUME UInv, IInv', DispatchStep
  PROVE  Family(pcb') /\ Boot'
<1>1. initpc' = initpc /\ Dispatch
  BY DEF DispatchStep
<1>2. PICK h \in Slots :
        /\ current' = h /\ mode' = "user" /\ h \in Occupied(ready)
        /\ Occupied(ready)' = Occupied(ready) \ {h}
        /\ pcb' = [pcb EXCEPT ![h].state = "RUNNING"]
        /\ UNCHANGED <<sleep, reading, waiting, zombie, pools>>
  BY <1>1, DispatchFinds
<1>3. /\ pcb \in [Slots -> PCB] /\ Named(pcb, next_pid) /\ Family(pcb) /\ mode = "dispatch"
      /\ h \notin RangeOf(pcb_avail) /\ 1 \in Slots
  <2>1. pcb \in [Slots -> PCB] /\ Named(pcb, next_pid) /\ Family(pcb)
    BY DEF UInv, IInv, SafeNow, Safe, Types
  <2>2. mode = "dispatch"
    BY <1>1 DEF Dispatch, DispatchRun, DispatchKilled, DispatchEmpty
  <2>3. h \notin RangeOf(pcb_avail)
    BY <1>2 DEF UInv, IInv, SafeNow, Safe, Apart
  <2> QED BY <2>1, <2>2, <2>3, InitSlot
<1>4. Alive(pcb, h)
  BY <1>2, <1>3 DEF UInv, IInv, SafeNow, Safe, Faithful, Alive
<1> DEFINE r == [pcb[h] EXCEPT !.state = "RUNNING"]
<1>5. r \in PCB /\ r.pid = pcb[h].pid /\ r.ppid = pcb[h].ppid /\ r.state = "RUNNING"
  BY <1>3 DEF PCB, States
<1>6. pcb' = [pcb EXCEPT ![h] = r]
  BY <1>2, <1>3
<1> HIDE DEF r
<1>7. Family(pcb')
  BY <1>3, <1>4, <1>5, <1>6, FamilyMove
<1>8. /\ \A p \in Slots : pcb'[p].pid = pcb[p].pid
      /\ pcb'[1].state = "FREE" => pcb[1].state = "FREE"
  BY <1>3, <1>5, <1>6
<1>9. ASSUME NEW x, Runnable(x) PROVE Runnable(x)'
  <2>1. PICK p \in Slots : pcb[p].pid = x /\ p \in Occupied(ready)
    BY <1>3, <1>9 DEF Runnable, OnCpu
  <2>2. p \in Occupied(ready)' \/ OnCpu(p)'
    BY <1>2, <2>1 DEF OnCpu
  <2> QED BY <1>8, <2>1, <2>2 DEF Runnable
<1>10. initpc' = "fork idle" => next_pid' = PID_IDLE' /\ Runnable(PID_INIT)'
  BY <1>1, <1>2, <1>9 DEF UInv, Boot, PID_IDLE, PID_INIT, pools
<1>11. initpc' # "fork idle" => Runnable(PID_IDLE)'
  BY <1>1, <1>9 DEF UInv, Boot
<1>12. pcb'[1].state # "FREE"
  BY <1>3, <1>8 DEF UInv, Boot, OnCpu
<1>13. mode' \notin Panics /\ initpc' \in {"fork idle", "fork users", "wait"}
  BY <1>1, <1>2 DEF Panics, UInv, Boot
<1> QED BY <1>7, <1>10, <1>11, <1>12, <1>13 DEF Boot

(***************************************************************************)
(* The booted system takes steps of the kernel only.  (That exec() of the  *)
(* lowest priority is among them does not matter: ExecStep needs no more   *)
(* than a number.)                                                         *)
(***************************************************************************)
LEMMA KernelSteps == IInv /\ [UNext]_uvars => IInv'
<1> SUFFICES ASSUME IInv, [UNext]_uvars PROVE IInv'
  OBVIOUS
<1>1. CASE InitForkIdle \/ InitForkUser
  BY <1>1, ForkStep DEF InitForkIdle, InitForkUser
<1>2. CASE InitForkedAll \/ UNCHANGED uvars
  <2>1. UNCHANGED vars
    BY <1>2 DEF InitForkedAll, uvars
  <2> QED BY <2>1, StepIInv
<1>3. CASE InitWait
  BY <1>3, WaitReapStep, WaitBlockStep DEF InitWait
<1>4. CASE IdleExec
  <2>1. PRIO_MINIMUM \in Nat
    BY KernelAssumption DEF PRIO_MINIMUM
  <2> QED BY <1>4, <2>1, ExecStep DEF IdleExec
<1>5. CASE UserCall \/ ClockStep \/ SioStep \/ DispatchStep
  <2>1. Next
    BY <1>5 DEF UserCall, ClockStep, SioStep, DispatchStep, Next
  <2> QED BY <2>1, StepIInv
<1> QED BY <1>1, <1>2, <1>3, <1>4, <1>5 DEF UNext, InitStep

(***************************************************************************)
(* The system as it boots satisfies the invariant.                         *)
(***************************************************************************)
LEMMA UInitInv == UInit => UInv
<1> SUFFICES ASSUME UInit PROVE UInv
  OBVIOUS
<1>1. Init /\ initpc = "fork idle"
  BY DEF UInit
<1>2. IInv
  BY <1>1, InitIInv
<1> DEFINE first == [ClearedPcb EXCEPT !.pid = PID_INIT, !.ppid = PID_INIT,
                                       !.prio = PRIO_MAXIMUM, !.stack = 1]
<1>3. pcb = [p \in Slots |-> IF p = 1 THEN first ELSE ClearedPcb]
  BY <1>1 DEF Init
<1>4. first.pid = PID_INIT /\ first.ppid = PID_INIT /\ first.state = "FREE"
  BY DEF ClearedPcb
<1>5. first # ClearedPcb
  <2>1. first.pid = 1 /\ ClearedPcb.pid = 0
    BY DEF ClearedPcb, PID_INIT
  <2> HIDE DEF first
  <2> QED BY <2>1
<1>6. 1 \in Slots /\ ClearedPcb.state = "FREE"
  BY KernelAssumption DEF Slots, ClearedPcb
<1> HIDE DEF first
<1>7. pcb[1] = first /\ \A p \in Slots \ {1} : pcb[p] = ClearedPcb
  BY <1>3, <1>6
<1>8. Family(pcb)
  BY <1>4, <1>5, <1>6, <1>7 DEF Family, Alive
<1>9. OnCpu(1) /\ mode \notin Panics /\ next_pid = PID_IDLE
  BY <1>1 DEF Init, OnCpu, Panics, PID_IDLE, PID_INIT
<1>10. Runnable(PID_INIT)
  BY <1>4, <1>6, <1>7, <1>9 DEF Runnable
<1> QED BY <1>1, <1>2, <1>8, <1>9, <1>10 DEF UInv, Boot

(***************************************************************************)
(* Every step of the booted system keeps the invariant, when no program    *)
(* calls kill().                                                           *)
(***************************************************************************)
LEMMA UStepInv ==
  ASSUME "kill" \notin Calls
  PROVE  UInv /\ [UNext]_uvars => UInv'
<1> SUFFICES ASSUME UInv, [UNext]_uvars PROVE UInv'
  OBVIOUS
<1>1. IInv'
  BY KernelSteps DEF UInv
<1>2. CASE InitStep
  BY <1>1, <1>2, InitStepBoot DEF UInv
<1>3. CASE IdleExec
  BY <1>1, <1>3, IdleExecBoot DEF UInv
<1>4. CASE UserCall
  BY <1>1, <1>4, UserCallBoot DEF UInv
<1>5. CASE ClockStep \/ SioStep
  BY <1>1, <1>5, InterruptBoot DEF UInv
<1>6. CASE DispatchStep
  BY <1>1, <1>6, DispatchBoot DEF UInv
<1>7. CASE UNCHANGED uvars
  <2>1. /\ pcb' = pcb /\ current' = current /\ mode' = mode /\ ready' = ready
        /\ next_pid' = next_pid /\ initpc' = initpc
    BY <1>7 DEF uvars, vars, queues, pools
  <2>2. Boot'
    BY <2>1 DEF UInv, Boot, Runnable, OnCpu, Occupied, PID_IDLE, PID_INIT
  <2> QED BY <1>1, <2>1, <2>2 DEF UInv
<1> QED BY <1>2, <1>3, <1>4, <1>5, <1>6, <1>7 DEF UNext

(***************************************************************************)
(* The invariant of the booted system.                                     *)
(***************************************************************************)
THEOREM BootInvariance ==
  ASSUME "kill" \notin Calls
  PROVE  USpec => []UInv
BY UInitInv, UStepInv, PTL DEF USpec

(***************************************************************************)
(* The kernel never panics: there is always a process to dispatch, and     *)
(* _zombify always finds a parent.                                         *)
(***************************************************************************)
THEOREM PanicFree ==
  ASSUME "kill" \notin Calls
  PROVE  USpec => []NeverPanics
<1>1. UInv => NeverPanics
  BY DEF UInv, Boot, NeverPanics
<1> QED BY <1>1, BootInvariance, PTL

(***************************************************************************)
(* Every process has a parent, in whatever order parents and children end. *)
(***************************************************************************)
THEOREM ParentsExist ==
  ASSUME "kill" \notin Calls
  PROVE  USpec => []ParentExists
<1>1. UInv => ParentExists
  BY DEF UInv, Family, Alive, ParentExists
<1> QED BY <1>1, BootInvariance, PTL

-----------------------------------------------------------------------------
(***************************************************************************)
(* Nothing is lost.                                                        *)
(***************************************************************************)

(***************************************************************************)
(* A handler that keeps the others in their queues, and the caller on the  *)
(* CPU or in a queue, loses nobody.                                        *)
(***************************************************************************)
LEMMA KeptPlaced ==
  ASSUME UInv, Placed, Kept, current' = current, Stays \/ mode' = "clock"
  PROVE  Placed'
<1>1. ASSUME NEW p \in Slots, Alive(pcb', p), p \notin Queued'
      PROVE  OnCpu(p)'
  <2>1. p \notin Queued /\ Alive(pcb, p)
    BY <1>1 DEF Kept
  <2>2. OnCpu(p)
    BY <2>1 DEF Placed, Queued
  <2>3. mode' = mode \/ mode' = "clock"
    BY <1>1, <2>2 DEF Stays, OnCpu
  <2> QED BY <2>2, <2>3 DEF OnCpu
<1>2. \A p \in Slots : Alive(pcb', p) => OnCpu(p)' \/ p \in Queued'
  BY <1>1
<1> QED BY <1>2 DEF Placed, Queued

(***************************************************************************)
(* Every step of the booted system, when no program calls kill() or        *)
(* yield().                                                                *)
(***************************************************************************)
LEMMA PlacedStep ==
  ASSUME "kill" \notin Calls, "yield" \notin Calls
  PROVE  UInv /\ Placed /\ [UNext]_uvars => Placed'
<1> SUFFICES ASSUME UInv, Placed, [UNext]_uvars PROVE Placed'
  OBVIOUS
<1>1. IInv'
  BY KernelSteps DEF UInv
<1>2. CASE InitForkIdle \/ InitForkUser
  <2>1. Fork /\ current' = current
    BY <1>2 DEF InitForkIdle, InitForkUser, Fork
  <2>2. Kept /\ Stays
    BY <2>1, ForkKept
  <2> QED BY <2>1, <2>2, KeptPlaced
<1>3. CASE InitForkedAll \/ UNCHANGED uvars
  <2>1. /\ pcb' = pcb /\ current' = current /\ mode' = mode /\ ready' = ready /\ sleep' = sleep
        /\ reading' = reading /\ waiting' = waiting /\ zombie' = zombie
    BY <1>3 DEF InitForkedAll, uvars, vars, queues
  <2> QED BY <2>1 DEF Placed, OnCpu, Alive, Occupied
<1>4. CASE InitWait
  <2>1. (WaitReap(0) \/ WaitBlock(0)) /\ current' = current
    BY <1>4 DEF InitWait, WaitReap, WaitBlock, Reap, Block
  <2>2. Kept /\ Stays
    BY <2>1, WaitReapKept, BlockKept
  <2> QED BY <2>1, <2>2, KeptPlaced
<1>5. CASE IdleExec
  <2>1. PRIO_MINIMUM \in Nat
    BY KernelAssumption DEF PRIO_MINIMUM
  <2>2. Exec(PRIO_MINIMUM) /\ current' = current
    BY <1>5 DEF IdleExec, Exec
  <2>3. Kept /\ Stays
    BY <2>1, <2>2, ExecKept
  <2> QED BY <2>2, <2>3, KeptPlaced
<1>6. CASE UserCall
  <2>1. SyscallNext /\ pcb[current].pid # PID_INIT
    BY <1>6 DEF UserCall
  <2>2. Kept /\ current' = current /\ Stays
    BY <2>1, CallKept DEF Yield, Syscall
  <2> QED BY <2>2, KeptPlaced
<1>7. CASE ClockStep \/ SioStep
  <2>1. CASE ClockTick \/ SioStore
    <3>1. /\ UNCHANGED <<pcb, queues>> /\ current' = current
          /\ mode' = "clock" \/ (mode' = mode /\ mode = "user")
      BY <2>1 DEF ClockTick, SioStore
    <3>2. Kept
      BY <3>1, IdleHandler DEF Panics
    <3> QED BY <3>1, <3>2, KeptPlaced DEF Stays
  <2>2. ASSUME NEW p \in Slots, ClockWake(p) \/ SioWake(p) PROVE Placed'
    <3>1. Kept /\ Stays
      BY <2>2, WakeKept
    <3> QED BY <2>2, <3>1, KeptPlaced DEF ClockWake, SioWake
  <2>3. CASE ClockPreempt
    <3>1. Kept /\ Stays
      BY <2>3, ClockPreemptKept
    <3> QED BY <2>3, <3>1, KeptPlaced DEF ClockPreempt
  <2> QED BY <1>7, <2>1, <2>2, <2>3 DEF ClockStep, SioStep, ClockNext, SioNext
<1>8. CASE DispatchStep
  <2>1. PICK h \in Slots :
          /\ current' = h /\ mode' = "user" /\ h \in Occupied(ready)
          /\ Occupied(ready)' = Occupied(ready) \ {h}
          /\ pcb' = [pcb EXCEPT ![h].state = "RUNNING"]
          /\ UNCHANGED <<sleep, reading, waiting, zombie, pools>>
    BY <1>1, <1>8, DispatchFinds DEF DispatchStep
  <2>2. mode = "dispatch" /\ pcb \in [Slots -> PCB]
    BY <1>8 DEF DispatchStep, Dispatch, DispatchRun, DispatchKilled, DispatchEmpty,
                UInv, IInv, SafeNow, Safe, Types
  <2>3. \A p \in Slots \ {h} : pcb'[p] = pcb[p]
    BY <2>1, <2>2
  <2> QED BY <2>1, <2>2, <2>3 DEF Placed, OnCpu, Alive
<1> QED
  BY <1>2, <1>3, <1>4, <1>5, <1>6, <1>7, <1>8 DEF UNext, InitStep

(***************************************************************************)
(* While a process runs, every other one is in a queue that some event     *)
(* empties, as long as no program calls kill() or yield().                 *)
(***************************************************************************)
THEOREM NobodyLost ==
  ASSUME "kill" \notin Calls, "yield" \notin Calls
  PROVE  USpec => []NothingLost
<1>1. UInit => Placed
  <2> SUFFICES ASSUME UInit PROVE Placed
    OBVIOUS
  <2>1. current = 1 /\ mode = "user" /\ \A p \in Slots : p # 1 => pcb[p] = ClearedPcb
    BY DEF UInit, Init
  <2> QED BY <2>1 DEF Placed, OnCpu, Alive
<1>2. Placed => NothingLost
  BY DEF Placed, NothingLost, OnCpu, Alive, ReadySlots, Occupied
<1>3. UInv /\ Placed /\ [UNext]_uvars => Placed'
  BY PlacedStep
<1> QED BY <1>1, <1>2, <1>3, BootInvariance, PTL DEF USpec
=============================================================================
