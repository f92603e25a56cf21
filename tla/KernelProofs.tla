---------------------------- MODULE KernelProofs ----------------------------
(***************************************************************************)
(* Proofs about Kernel, for any number of PCBs, stacks and priorities.     *)
(***************************************************************************)
EXTENDS Kernel, SequenceTheorems, TLAPS

-----------------------------------------------------------------------------
(***************************************************************************)
(* Sequences as queues of distinct elements.                               *)
(***************************************************************************)

(***************************************************************************)
(* Putting an element at the end of a queue adds it to the set of its      *)
(* elements (_q_append).                                                   *)
(***************************************************************************)
LEMMA AppendRange ==
  ASSUME NEW S, NEW s \in Seq(S), NEW x \in S
  PROVE  /\ Append(s, x) \in Seq(S)
         /\ RangeOf(Append(s, x)) = RangeOf(s) \cup {x}
         /\ NoDuplicates(s) /\ x \notin RangeOf(s) => NoDuplicates(Append(s, x))
<1>1. /\ Append(s, x) \in Seq(S)
      /\ Len(Append(s, x)) = Len(s) + 1
      /\ \A i \in 1..Len(s) : Append(s, x)[i] = s[i]
      /\ Append(s, x)[Len(s) + 1] = x
  BY AppendProperties
<1>2. Len(s) \in Nat /\ DOMAIN s = 1..Len(s) /\ DOMAIN Append(s, x) = 1..(Len(s) + 1)
  BY <1>1, LenProperties
<1>3. RangeOf(Append(s, x)) = RangeOf(s) \cup {x}
  <2>1. RangeOf(Append(s, x)) \subseteq RangeOf(s) \cup {x}
    BY <1>1, <1>2 DEF RangeOf
  <2>2. RangeOf(s) \subseteq RangeOf(Append(s, x))
    BY <1>1, <1>2 DEF RangeOf
  <2>3. x \in RangeOf(Append(s, x))
    BY <1>1, <1>2 DEF RangeOf
  <2> QED BY <2>1, <2>2, <2>3
<1>4. ASSUME NoDuplicates(s), x \notin RangeOf(s)
      PROVE  NoDuplicates(Append(s, x))
  BY <1>1, <1>2, <1>4 DEF NoDuplicates, RangeOf
<1> QED BY <1>1, <1>3, <1>4

(***************************************************************************)
(* Taking the first element off a queue without duplicates removes it from *)
(* the set of its elements (_q_remove).                                    *)
(***************************************************************************)
LEMMA TailRange ==
  ASSUME NEW S, NEW s \in Seq(S), s # <<>>, NoDuplicates(s)
  PROVE  /\ Head(s) \in S
         /\ Tail(s) \in Seq(S)
         /\ Head(s) \in RangeOf(s)
         /\ RangeOf(Tail(s)) = RangeOf(s) \ {Head(s)}
         /\ NoDuplicates(Tail(s))
<1>1. /\ Head(s) \in S
      /\ Tail(s) \in Seq(S)
      /\ Len(Tail(s)) = Len(s) - 1
      /\ \A i \in 1..Len(Tail(s)) : Tail(s)[i] = s[i + 1]
  BY HeadTailProperties
<1>2. Len(s) \in Nat \ {0}
  BY EmptySeq
<1>3. DOMAIN s = 1..Len(s) /\ DOMAIN Tail(s) = 1..(Len(s) - 1)
  BY <1>1, <1>2, LenProperties
<1>4. Head(s) = s[1]
  BY <1>2
<1>5. Head(s) \in RangeOf(s)
  BY <1>2, <1>3, <1>4 DEF RangeOf
<1>6. RangeOf(Tail(s)) \subseteq RangeOf(s) \ {Head(s)}
  <2> SUFFICES ASSUME NEW i \in 1..(Len(s) - 1)
               PROVE  Tail(s)[i] \in RangeOf(s) \ {Head(s)}
    BY <1>3 DEF RangeOf
  <2>1. Tail(s)[i] = s[i + 1] /\ i + 1 \in 1..Len(s) /\ i + 1 # 1
    BY <1>1, <1>2
  <2> QED BY <2>1, <1>2, <1>3, <1>4 DEF RangeOf, NoDuplicates
<1>7. RangeOf(s) \ {Head(s)} \subseteq RangeOf(Tail(s))
  <2> SUFFICES ASSUME NEW i \in 1..Len(s), s[i] # s[1]
               PROVE  s[i] \in RangeOf(Tail(s))
    BY <1>3, <1>4 DEF RangeOf
  <2>1. i - 1 \in 1..(Len(s) - 1) /\ (i - 1) + 1 = i
    BY <1>2
  <2>2. Tail(s)[i - 1] = s[i]
    BY <1>1, <2>1
  <2> QED BY <1>3, <2>1, <2>2 DEF RangeOf
<1>8. NoDuplicates(Tail(s))
  <2> SUFFICES ASSUME NEW i \in 1..(Len(s) - 1), NEW j \in 1..(Len(s) - 1),
                      Tail(s)[i] = Tail(s)[j]
               PROVE  i = j
    BY <1>3 DEF NoDuplicates
  <2>1. s[i + 1] = s[j + 1] /\ i + 1 \in 1..Len(s) /\ j + 1 \in 1..Len(s)
    BY <1>1, <1>2
  <2>2. i + 1 = j + 1
    BY <2>1, <1>3 DEF NoDuplicates
  <2> QED BY <2>2
<1> QED BY <1>1, <1>5, <1>6, <1>7, <1>8

-----------------------------------------------------------------------------
(***************************************************************************)
(* The ready queues.                                                       *)
(***************************************************************************)
ReadyType == [Levels -> Seq(Slots)]

Occupied(rq) == UNION {RangeOf(rq[i]) : i \in Levels}

ReadyOK(rq) ==
  /\ \A i \in Levels : NoDuplicates(rq[i])
  /\ \A i, j \in Levels : i # j => RangeOf(rq[i]) \cap RangeOf(rq[j]) = {}

(***************************************************************************)
(* The priority _schedule is called with always names a ready queue.       *)
(***************************************************************************)
LEMMA LevelInRange ==
  ASSUME NEW x \in Nat
  PROVE  Level(x) \in Levels
BY KernelAssumption DEF Level, Levels

(***************************************************************************)
(* _schedule of a PCB that is in no ready queue puts it in one of them.    *)
(***************************************************************************)
LEMMA EnqueueOK ==
  ASSUME NEW rq \in ReadyType, ReadyOK(rq), NEW x \in Nat,
         NEW p \in Slots, p \notin Occupied(rq)
  PROVE  /\ Enqueue(rq, p, x) \in ReadyType
         /\ ReadyOK(Enqueue(rq, p, x))
         /\ Occupied(Enqueue(rq, p, x)) = Occupied(rq) \cup {p}
<1> DEFINE l == Level(x)
           new == Enqueue(rq, p, x)
<1>1. l \in Levels
  BY LevelInRange
<1>2. \A i \in Levels : p \notin RangeOf(rq[i])
  BY DEF Occupied
<1>3. /\ Append(rq[l], p) \in Seq(Slots)
      /\ RangeOf(Append(rq[l], p)) = RangeOf(rq[l]) \cup {p}
      /\ NoDuplicates(Append(rq[l], p))
  <2>1. rq[l] \in Seq(Slots) /\ NoDuplicates(rq[l]) /\ p \notin RangeOf(rq[l])
    BY <1>1, <1>2 DEF ReadyType, ReadyOK
  <2> HIDE DEF l
  <2> QED BY <2>1, AppendRange
<1>4. new[l] = Append(rq[l], p) /\ \A i \in Levels \ {l} : new[i] = rq[i]
  BY <1>1 DEF Enqueue, ReadyType
<1>5. new \in ReadyType
  BY <1>1, <1>3 DEF Enqueue, ReadyType
<1> HIDE DEF l, new
<1>6. \A i \in Levels : RangeOf(new[i]) = IF i = l THEN RangeOf(rq[i]) \cup {p}
                                           ELSE RangeOf(rq[i])
  BY <1>3, <1>4
<1>7. ReadyOK(new)
  <2>1. \A i \in Levels : NoDuplicates(new[i])
    BY <1>3, <1>4 DEF ReadyOK
  <2>2. \A i, j \in Levels : i # j => RangeOf(new[i]) \cap RangeOf(new[j]) = {}
    BY <1>2, <1>6 DEF ReadyOK
  <2> QED BY <2>1, <2>2 DEF ReadyOK
<1>8. Occupied(new) = Occupied(rq) \cup {p}
  BY <1>1, <1>6 DEF Occupied
<1> QED BY <1>5, <1>7, <1>8 DEF new

(***************************************************************************)
(* The PCB _dispatch takes off a ready queue is in none of them any more.  *)
(***************************************************************************)
LEMMA PoppedOK ==
  ASSUME ready \in ReadyType, ReadyOK(ready),
         NEW i \in Levels, ready[i] # <<>>
  PROVE  /\ Head(ready[i]) \in Slots
         /\ Head(ready[i]) \in Occupied(ready)
         /\ Popped(i) \in ReadyType
         /\ ReadyOK(Popped(i))
         /\ Occupied(Popped(i)) = Occupied(ready) \ {Head(ready[i])}
<1> DEFINE s == ready[i]
           new == Popped(i)
<1>1. s \in Seq(Slots) /\ s # <<>> /\ NoDuplicates(s)
  BY DEF ReadyType, ReadyOK
<1>2. /\ Head(s) \in Slots /\ Tail(s) \in Seq(Slots)
      /\ Head(s) \in RangeOf(s)
      /\ RangeOf(Tail(s)) = RangeOf(s) \ {Head(s)}
      /\ NoDuplicates(Tail(s))
  <2> HIDE DEF s
  <2> QED BY <1>1, TailRange
<1>3. new[i] = Tail(s) /\ \A j \in Levels \ {i} : new[j] = ready[j]
  BY DEF Popped, ReadyType
<1>4. new \in ReadyType
  BY <1>2 DEF Popped, ReadyType
<1>5. \A j \in Levels \ {i} : Head(s) \notin RangeOf(ready[j])
  BY <1>2 DEF ReadyOK
<1> HIDE DEF new
<1>6. \A j \in Levels : RangeOf(new[j]) = RangeOf(ready[j]) \ {Head(s)}
  BY <1>2, <1>3, <1>5
<1> HIDE DEF s
<1>7. ReadyOK(new)
  <2>1. \A j \in Levels : NoDuplicates(new[j])
    BY <1>2, <1>3 DEF ReadyOK
  <2>2. \A j, k \in Levels : j # k => RangeOf(new[j]) \cap RangeOf(new[k]) = {}
    BY <1>6 DEF ReadyOK
  <2> QED BY <2>1, <2>2 DEF ReadyOK
<1>8. Occupied(new) = Occupied(ready) \ {Head(s)}
  BY <1>6, SMTT(30) DEF Occupied
<1>9. Head(s) \in Occupied(ready)
  BY <1>2 DEF Occupied, s
<1> QED BY <1>2, <1>4, <1>7, <1>8, <1>9 DEF s, new

-----------------------------------------------------------------------------
(***************************************************************************)
(* The inductive invariant, of a table and queues that a handler may be in *)
(* the middle of changing.                                                 *)
(***************************************************************************)
\* No PCB is in two of: the free list, the ready queues, the four sets.
Apart(F, R, S, D, W, Z) ==
  /\ F \cap R = {} /\ F \cap S = {} /\ F \cap D = {} /\ F \cap W = {} /\ F \cap Z = {}
  /\ R \cap S = {} /\ R \cap D = {} /\ R \cap W = {} /\ R \cap Z = {}
  /\ S \cap D = {} /\ S \cap W = {} /\ S \cap Z = {}
  /\ D \cap W = {} /\ D \cap Z = {}
  /\ W \cap Z = {}

\* StateMatchesQueue, of a table and queues.
Faithful(t, F, R, S, W, Z) ==
  \A p \in Slots :
    /\ p \in R => t[p].state \in {"READY", "KILLED"}
    /\ p \in S => t[p].state \in {"SLEEPING", "KILLED"}
    /\ p \in W => t[p].state \in {"WAITING", "KILLED"}
    /\ p \in Z => t[p].state \in {"ZOMBIE", "KILLED"}
    /\ p \in F <=> t[p] = ClearedPcb
    /\ t[p].state = "READY" => p \in R
    /\ t[p].state = "SLEEPING" => p \in S
    /\ t[p].state = "WAITING" => p \in W
    /\ t[p].state = "ZOMBIE" => p \in Z

\* StackOwnership, of a table and a free list.
Owned(t, sa) ==
  /\ \A p \in Slots : t[p].stack = NULL <=> t[p] = ClearedPcb
  /\ NoDuplicates(sa)
  /\ \A p \in Slots : t[p].stack \notin RangeOf(sa)
  /\ \A p, q \in Slots : t[p].stack = t[q].stack /\ t[p].stack # NULL => p = q
  /\ \A s \in Stacks : s \in RangeOf(sa) \/ \E p \in Slots : t[p].stack = s

\* PidsUnique, of a table and a next PID.
Named(t, n) ==
  \A p \in Slots :
    /\ t[p].pid < n
    /\ t[p].pid = 0 <=> t[p] = ClearedPcb
    /\ \A q \in Slots : t[p].pid = t[q].pid /\ t[p].pid # 0 => p = q

Types(t, rq, pa, sa, sl, rd, wt, zb, n) ==
  /\ t \in [Slots -> PCB]
  /\ rq \in ReadyType
  /\ pa \in Seq(Slots) /\ sa \in Seq(Stacks)
  /\ sl \subseteq Slots /\ rd \subseteq Slots /\ wt \subseteq Slots /\ zb \subseteq Slots
  /\ n \in Nat \ {0}

Safe(t, rq, pa, sa, sl, rd, wt, zb, n) ==
  /\ Types(t, rq, pa, sa, sl, rd, wt, zb, n)
  /\ ReadyOK(rq) /\ NoDuplicates(pa)
  /\ Apart(RangeOf(pa), Occupied(rq), sl, rd, wt, zb)
  /\ Faithful(t, RangeOf(pa), Occupied(rq), sl, wt, zb)
  /\ Owned(t, sa)
  /\ Named(t, n)

SafeNow == Safe(pcb, ready, pcb_avail, stack_avail, sleep, reading, waiting, zombie, next_pid)

\* p is in no queue.
Outside(p) ==
  p \notin RangeOf(pcb_avail) \cup Occupied(ready) \cup sleep \cup reading \cup waiting \cup zombie

IInv ==
  /\ SafeNow
  /\ current \in Slots
  /\ system_time \in 0..(TIME_MOD - 1)
  /\ incount \in 0..BUF_SIZE
  /\ mode \in Modes \ {"non-ready", "wait remove", "zombie not on queue"}
  /\ mode \in {"user", "clock"} => Outside(current)

-----------------------------------------------------------------------------
(***************************************************************************)
(* What the steps of the handlers do to Safe.                              *)
(***************************************************************************)

(***************************************************************************)
(* Whoever owns which stack and which PID is not disturbed by a handler    *)
(* that changes other fields of live PCBs.                                 *)
(***************************************************************************)
LEMMA SameNames ==
  ASSUME NEW t \in [Slots -> PCB], NEW u \in [Slots -> PCB], NEW sa, NEW n,
         Owned(t, sa), Named(t, n),
         \A p \in Slots : u[p].pid = t[p].pid /\ u[p].stack = t[p].stack,
         \A p \in Slots : t[p] = ClearedPcb => u[p] = ClearedPcb
  PROVE  /\ Owned(u, sa) /\ Named(u, n)
         /\ \A p \in Slots : u[p] = ClearedPcb <=> t[p] = ClearedPcb
<1>1. ClearedPcb.pid = 0
  BY DEF ClearedPcb
<1>2. \A p \in Slots : u[p] = ClearedPcb <=> t[p] = ClearedPcb
  BY <1>1 DEF Named
<1>3. Owned(u, sa)
  BY <1>2 DEF Owned
<1>4. Named(u, n)
  BY <1>2 DEF Named
<1> QED BY <1>2, <1>3, <1>4

(***************************************************************************)
(* A change of the fields of PCBs that no queue and no pool depends on.    *)
(***************************************************************************)
LEMMA Relabel ==
  ASSUME NEW t, NEW rq, NEW pa, NEW sa, NEW sl, NEW rd, NEW wt, NEW zb, NEW n,
         Safe(t, rq, pa, sa, sl, rd, wt, zb, n),
         NEW u \in [Slots -> PCB],
         \A p \in Slots : u[p].pid = t[p].pid /\ u[p].stack = t[p].stack,
         \A p \in Slots : u[p].state = t[p].state \/ (u[p].state = "KILLED" /\ t[p] # ClearedPcb),
         \A p \in Slots : t[p] = ClearedPcb => u[p] = ClearedPcb
  PROVE  Safe(u, rq, pa, sa, sl, rd, wt, zb, n)
<1>1. t \in [Slots -> PCB]
  BY DEF Safe, Types
<1>2. /\ Owned(u, sa) /\ Named(u, n)
      /\ \A p \in Slots : u[p] = ClearedPcb <=> t[p] = ClearedPcb
  BY <1>1, SameNames DEF Safe
<1>3. Faithful(u, RangeOf(pa), Occupied(rq), sl, wt, zb)
  BY <1>2 DEF Safe, Faithful
<1> QED BY <1>2, <1>3 DEF Safe, Types

(***************************************************************************)
(* A process that is taken off the set it is in, and whose state no queue  *)
(* stands for, is nowhere.                                                 *)
(***************************************************************************)
LEMMA Detach ==
  ASSUME NEW t, NEW rq, NEW pa, NEW sa, NEW sl, NEW rd, NEW wt, NEW zb, NEW n,
         Safe(t, rq, pa, sa, sl, rd, wt, zb, n),
         NEW p \in Slots, p \notin RangeOf(pa), p \notin Occupied(rq),
         NEW r \in PCB, r.pid = t[p].pid, r.stack = t[p].stack,
         r.state \in {"FREE", "RUNNING", "KILLED"}
  PROVE  Safe([t EXCEPT ![p] = r], rq, pa, sa, sl \ {p}, rd \ {p}, wt \ {p}, zb \ {p}, n)
<1> DEFINE u == [t EXCEPT ![p] = r]
<1>1. t \in [Slots -> PCB]
  BY DEF Safe, Types
<1>2. u \in [Slots -> PCB] /\ u[p] = r /\ \A q \in Slots \ {p} : u[q] = t[q]
  BY <1>1
<1>3. t[p] # ClearedPcb
  BY DEF Safe, Faithful
<1> HIDE DEF u
<1>4. /\ Owned(u, sa) /\ Named(u, n)
      /\ \A q \in Slots : u[q] = ClearedPcb <=> t[q] = ClearedPcb
  <2>1. \A q \in Slots : u[q].pid = t[q].pid /\ u[q].stack = t[q].stack
    BY <1>2
  <2>2. \A q \in Slots : t[q] = ClearedPcb => u[q] = ClearedPcb
    BY <1>2, <1>3
  <2> QED BY <1>1, <1>2, <2>1, <2>2, SameNames DEF Safe
<1>5. Faithful(u, RangeOf(pa), Occupied(rq), sl \ {p}, wt \ {p}, zb \ {p})
  BY <1>2, <1>4 DEF Safe, Faithful
<1>6. Apart(RangeOf(pa), Occupied(rq), sl \ {p}, rd \ {p}, wt \ {p}, zb \ {p})
  BY DEF Safe, Apart
<1>7. Types(u, rq, pa, sa, sl \ {p}, rd \ {p}, wt \ {p}, zb \ {p}, n)
  BY <1>2 DEF Safe, Types
<1> QED BY <1>4, <1>5, <1>6, <1>7 DEF Safe, u

(***************************************************************************)
(* _schedule of a process that is nowhere.                                 *)
(***************************************************************************)
LEMMA AttachReady ==
  ASSUME NEW t, NEW rq, NEW pa, NEW sa, NEW sl, NEW rd, NEW wt, NEW zb, NEW n,
         Safe(t, rq, pa, sa, sl, rd, wt, zb, n),
         NEW p \in Slots, NEW x \in Nat,
         p \notin RangeOf(pa) \cup Occupied(rq) \cup sl \cup rd \cup wt \cup zb
  PROVE  Safe([t EXCEPT ![p].state = "READY"], Enqueue(rq, p, x), pa, sa, sl, rd, wt, zb, n)
<1> DEFINE u == [t EXCEPT ![p].state = "READY"]
           nq == Enqueue(rq, p, x)
<1>1. t \in [Slots -> PCB] /\ rq \in ReadyType
  BY DEF Safe, Types
<1>2. /\ u \in [Slots -> PCB]
      /\ u[p] = [t[p] EXCEPT !.state = "READY"]
      /\ \A q \in Slots \ {p} : u[q] = t[q]
  BY <1>1 DEF PCB, States
<1>3. u[p].state = "READY" /\ u[p].pid = t[p].pid /\ u[p].stack = t[p].stack
  BY <1>1, <1>2 DEF PCB
<1>4. /\ nq \in ReadyType /\ ReadyOK(nq)
      /\ Occupied(nq) = Occupied(rq) \cup {p}
  BY <1>1, EnqueueOK DEF Safe
<1>5. t[p] # ClearedPcb
  BY DEF Safe, Faithful
<1> HIDE DEF u, nq
<1>6. /\ Owned(u, sa) /\ Named(u, n)
      /\ \A q \in Slots : u[q] = ClearedPcb <=> t[q] = ClearedPcb
  <2>1. \A q \in Slots : u[q].pid = t[q].pid /\ u[q].stack = t[q].stack
    BY <1>2, <1>3
  <2>2. \A q \in Slots : t[q] = ClearedPcb => u[q] = ClearedPcb
    BY <1>2, <1>5
  <2> QED BY <1>1, <1>2, <2>1, <2>2, SameNames DEF Safe
<1>7. Faithful(u, RangeOf(pa), Occupied(nq), sl, wt, zb)
  BY <1>2, <1>3, <1>4, <1>6 DEF Safe, Faithful
<1>8. Apart(RangeOf(pa), Occupied(nq), sl, rd, wt, zb)
  BY <1>4 DEF Safe, Apart
<1>9. Types(u, nq, pa, sa, sl, rd, wt, zb, n)
  BY <1>2, <1>4 DEF Safe, Types
<1> QED BY <1>4, <1>6, <1>7, <1>8, <1>9 DEF Safe, u, nq

(***************************************************************************)
(* A process that is nowhere blocks or ends: it goes into the set its new  *)
(* state stands for (P says which), or into the readers' with its state as *)
(* it was.                                                                 *)
(***************************************************************************)
LEMMA AttachSet ==
  ASSUME NEW t, NEW rq, NEW pa, NEW sa, NEW sl, NEW rd, NEW wt, NEW zb, NEW n,
         Safe(t, rq, pa, sa, sl, rd, wt, zb, n),
         NEW p \in Slots,
         p \notin RangeOf(pa) \cup Occupied(rq) \cup sl \cup rd \cup wt \cup zb,
         NEW r \in PCB, r.pid = t[p].pid, r.stack = t[p].stack
  PROVE  /\ r.state = "SLEEPING" =>
              Safe([t EXCEPT ![p] = r], rq, pa, sa, sl \cup {p}, rd, wt, zb, n)
         /\ r.state = "WAITING" =>
              Safe([t EXCEPT ![p] = r], rq, pa, sa, sl, rd, wt \cup {p}, zb, n)
         /\ r.state = "ZOMBIE" =>
              Safe([t EXCEPT ![p] = r], rq, pa, sa, sl, rd, wt, zb \cup {p}, n)
         /\ r.state = t[p].state =>
              Safe([t EXCEPT ![p] = r], rq, pa, sa, sl, rd \cup {p}, wt, zb, n)
<1> DEFINE u == [t EXCEPT ![p] = r]
<1>1. t \in [Slots -> PCB]
  BY DEF Safe, Types
<1>2. u \in [Slots -> PCB] /\ u[p] = r /\ \A q \in Slots \ {p} : u[q] = t[q]
  BY <1>1
<1>3. t[p] # ClearedPcb
  BY DEF Safe, Faithful
<1> HIDE DEF u
<1>4. /\ Owned(u, sa) /\ Named(u, n)
      /\ \A q \in Slots : u[q] = ClearedPcb <=> t[q] = ClearedPcb
  <2>1. \A q \in Slots : u[q].pid = t[q].pid /\ u[q].stack = t[q].stack
    BY <1>2
  <2>2. \A q \in Slots : t[q] = ClearedPcb => u[q] = ClearedPcb
    BY <1>2, <1>3
  <2> QED BY <1>1, <1>2, <2>1, <2>2, SameNames DEF Safe
<1>5. ReadyOK(rq) /\ NoDuplicates(pa)
  BY DEF Safe
<1>6. ASSUME r.state = "SLEEPING"
      PROVE  Safe(u, rq, pa, sa, sl \cup {p}, rd, wt, zb, n)
  <2>1. Faithful(u, RangeOf(pa), Occupied(rq), sl \cup {p}, wt, zb)
    BY <1>2, <1>4, <1>6 DEF Safe, Faithful
  <2>2. Apart(RangeOf(pa), Occupied(rq), sl \cup {p}, rd, wt, zb)
    BY DEF Safe, Apart
  <2>3. Types(u, rq, pa, sa, sl \cup {p}, rd, wt, zb, n)
    BY <1>2 DEF Safe, Types
  <2> QED BY <1>4, <1>5, <2>1, <2>2, <2>3 DEF Safe
<1>7. ASSUME r.state = "WAITING"
      PROVE  Safe(u, rq, pa, sa, sl, rd, wt \cup {p}, zb, n)
  <2>1. Faithful(u, RangeOf(pa), Occupied(rq), sl, wt \cup {p}, zb)
    BY <1>2, <1>4, <1>7 DEF Safe, Faithful
  <2>2. Apart(RangeOf(pa), Occupied(rq), sl, rd, wt \cup {p}, zb)
    BY DEF Safe, Apart
  <2>3. Types(u, rq, pa, sa, sl, rd, wt \cup {p}, zb, n)
    BY <1>2 DEF Safe, Types
  <2> QED BY <1>4, <1>5, <2>1, <2>2, <2>3 DEF Safe
<1>8. ASSUME r.state = "ZOMBIE"
      PROVE  Safe(u, rq, pa, sa, sl, rd, wt, zb \cup {p}, n)
  <2>1. Faithful(u, RangeOf(pa), Occupied(rq), sl, wt, zb \cup {p})
    BY <1>2, <1>4, <1>8 DEF Safe, Faithful
  <2>2. Apart(RangeOf(pa), Occupied(rq), sl, rd, wt, zb \cup {p})
    BY DEF Safe, Apart
  <2>3. Types(u, rq, pa, sa, sl, rd, wt, zb \cup {p}, n)
    BY <1>2 DEF Safe, Types
  <2> QED BY <1>4, <1>5, <2>1, <2>2, <2>3 DEF Safe
<1>9. ASSUME r.state = t[p].state
      PROVE  Safe(u, rq, pa, sa, sl, rd \cup {p}, wt, zb, n)
  <2>1. Faithful(u, RangeOf(pa), Occupied(rq), sl, wt, zb)
    BY <1>2, <1>4, <1>9 DEF Safe, Faithful
  <2>2. Apart(RangeOf(pa), Occupied(rq), sl, rd \cup {p}, wt, zb)
    BY DEF Safe, Apart
  <2>3. Types(u, rq, pa, sa, sl, rd \cup {p}, wt, zb, n)
    BY <1>2 DEF Safe, Types
  <2> QED BY <1>4, <1>5, <2>1, <2>2, <2>3 DEF Safe
<1> QED BY <1>6, <1>7, <1>8, <1>9 DEF u

(***************************************************************************)
(* _stack_free and _pcb_free of a process that is nowhere.                 *)
(***************************************************************************)
LEMMA AttachFree ==
  ASSUME NEW t, NEW rq, NEW pa, NEW sa, NEW sl, NEW rd, NEW wt, NEW zb, NEW n,
         Safe(t, rq, pa, sa, sl, rd, wt, zb, n),
         NEW p \in Slots,
         p \notin RangeOf(pa) \cup Occupied(rq) \cup sl \cup rd \cup wt \cup zb
  PROVE  Safe([t EXCEPT ![p] = ClearedPcb], rq, Append(pa, p), Append(sa, t[p].stack),
              sl, rd, wt, zb, n)
<1> DEFINE u == [t EXCEPT ![p] = ClearedPcb]
           s == t[p].stack
           nf == Append(pa, p)
           ns == Append(sa, s)
<1>1. /\ t \in [Slots -> PCB] /\ pa \in Seq(Slots) /\ sa \in Seq(Stacks)
      /\ n \in Nat \ {0}
  BY DEF Safe, Types
<1>2. ClearedPcb \in PCB /\ ClearedPcb.pid = 0 /\ ClearedPcb.stack = NULL
                         /\ ClearedPcb.state = "FREE"
  BY DEF ClearedPcb, PCB, States
<1>3. u \in [Slots -> PCB] /\ u[p] = ClearedPcb /\ \A q \in Slots \ {p} : u[q] = t[q]
  BY <1>1, <1>2
<1>4. t[p] # ClearedPcb
  BY DEF Safe, Faithful
<1>5. s \in Stacks /\ s # NULL /\ s \notin RangeOf(sa)
  BY <1>1, <1>4 DEF Safe, Owned, PCB
<1>6. /\ nf \in Seq(Slots) /\ RangeOf(nf) = RangeOf(pa) \cup {p} /\ NoDuplicates(nf)
  BY <1>1, AppendRange DEF Safe
<1>7. /\ ns \in Seq(Stacks) /\ RangeOf(ns) = RangeOf(sa) \cup {s} /\ NoDuplicates(ns)
  <2> HIDE DEF s
  <2> QED BY <1>1, <1>5, AppendRange DEF Safe, Owned
<1>8. \A q \in Slots : u[q] = ClearedPcb <=> t[q] = ClearedPcb \/ q = p
  BY <1>3
<1> HIDE DEF u, nf, ns
<1>9. Owned(u, ns)
  <2>1. \A q \in Slots : u[q].stack = NULL <=> u[q] = ClearedPcb
    BY <1>2, <1>3 DEF Safe, Owned
  <2>2. \A q \in Slots : u[q].stack \notin RangeOf(ns)
    <3>1. NULL \notin RangeOf(ns)
      <4>1. RangeOf(ns) \subseteq Stacks
        BY <1>7, LenProperties, ElementOfSeq DEF RangeOf
      <4> QED BY <4>1 DEF Stacks, NULL
    <3>2. \A q \in Slots \ {p} : t[q].stack # s
      BY <1>5 DEF Safe, Owned
    <3> QED BY <1>2, <1>3, <1>7, <3>1, <3>2 DEF Safe, Owned
  <2>3. \A q, r \in Slots : u[q].stack = u[r].stack /\ u[q].stack # NULL => q = r
    BY <1>2, <1>3 DEF Safe, Owned
  <2>4. \A x \in Stacks : x \in RangeOf(ns) \/ \E q \in Slots : u[q].stack = x
    BY <1>3, <1>7 DEF Safe, Owned
  <2> QED BY <1>7, <2>1, <2>2, <2>3, <2>4 DEF Owned
<1>10. Named(u, n)
  BY <1>1, <1>2, <1>3, <1>8 DEF Safe, Named
<1>11. Faithful(u, RangeOf(nf), Occupied(rq), sl, wt, zb)
  BY <1>2, <1>3, <1>6, <1>8 DEF Safe, Faithful
<1>12. Apart(RangeOf(nf), Occupied(rq), sl, rd, wt, zb)
  BY <1>6 DEF Safe, Apart
<1>13. Types(u, rq, nf, ns, sl, rd, wt, zb, n)
  BY <1>3, <1>6, <1>7 DEF Safe, Types
<1> QED BY <1>6, <1>9, <1>10, <1>11, <1>12, <1>13 DEF Safe, u, nf, ns

(***************************************************************************)
(* _zombify of a process that is nowhere: whichever way it goes, it does   *)
(* not meet a parent that is WAITING and not on the waiting queue.         *)
(***************************************************************************)
LEMMA ZombifySafe ==
  ASSUME NEW t, NEW rq, NEW p \in Slots,
         Safe(t, rq, pcb_avail, stack_avail, sleep, reading, waiting, zombie, next_pid),
         p \notin RangeOf(pcb_avail) \cup Occupied(rq) \cup sleep \cup reading \cup waiting \cup zombie,
         Zombify(t, rq, p)
  PROVE  SafeNow' /\ mode' \in {"no process parent", "dispatch"}
<1>1. t \in [Slots -> PCB]
  BY DEF Safe, Types
<1>2. \A q \in Find(t, t[p].ppid) : q \in Slots
  BY DEF Find
<1>3. CASE /\ Find(t, t[p].ppid) = {}
           /\ mode' = "no process parent"
           /\ pcb' = t /\ ready' = rq
           /\ UNCHANGED <<pools, sleep, reading, waiting, zombie>>
  BY <1>3 DEF SafeNow, pools
<1>4. ASSUME NEW q \in Find(t, t[p].ppid), Wants(t, q, p)
      PROVE  q \in Slots /\ q \in waiting /\ t[q].state = "WAITING" /\ q # p
  BY <1>2, <1>4 DEF Wants, Safe, Faithful
<1>5. ASSUME NEW q \in Find(t, t[p].ppid), Wants(t, q, p),
             waiting' = waiting \ {q},
             Release([t EXCEPT ![q].state = "READY", ![q].arg = 0], p),
             ready' = Enqueue(rq, q, PRIO_MAXIMUM),
             ThenDispatch,
             UNCHANGED <<sleep, reading, zombie>>
      PROVE  SafeNow' /\ mode' = "dispatch"
  <2> DEFINE r == [t[q] EXCEPT !.state = "RUNNING", !.arg = 0]
             t1 == [t EXCEPT ![q] = r]
             t2 == [t1 EXCEPT ![p] = ClearedPcb]
             nf == Append(pcb_avail, p)
             ns == Append(stack_avail, t1[p].stack)
  <2>1. q \in Slots /\ q \in waiting /\ q # p
    BY <1>4, <1>5
  <2>2. q \notin RangeOf(pcb_avail) \cup Occupied(rq) \cup sleep \cup reading \cup zombie
    BY <2>1 DEF Safe, Apart
  <2>3. r \in PCB /\ r.pid = t[q].pid /\ r.stack = t[q].stack /\ r.state = "RUNNING"
    BY <1>1, <2>1 DEF PCB, States
  <2>4. Safe(t1, rq, pcb_avail, stack_avail, sleep, reading, waiting \ {q}, zombie, next_pid)
    <3>1. Safe(t1, rq, pcb_avail, stack_avail, sleep \ {q}, reading \ {q}, waiting \ {q},
               zombie \ {q}, next_pid)
      <4> HIDE DEF r
      <4> QED BY <2>1, <2>2, <2>3, Detach
    <3>2. sleep \ {q} = sleep /\ reading \ {q} = reading /\ zombie \ {q} = zombie
      BY <2>2
    <3> QED BY <3>1, <3>2
  <2>5. Safe(t2, rq, nf, ns, sleep, reading, waiting \ {q}, zombie, next_pid)
    <3> HIDE DEF t1
    <3> QED BY <2>4, AttachFree
  <2>6. q \notin RangeOf(nf)
    BY <2>1, <2>2, AppendRange DEF Safe, Types
  <2>7. Safe([t2 EXCEPT ![q].state = "READY"], Enqueue(rq, q, PRIO_MAXIMUM), nf, ns,
             sleep, reading, waiting \ {q}, zombie, next_pid)
    <3> HIDE DEF t2, nf, ns
    <3> QED BY <2>1, <2>2, <2>5, <2>6, AttachReady DEF PRIO_MAXIMUM
  <2>8. pcb' = [t2 EXCEPT ![q].state = "READY"]
    <3> DEFINE a == [t EXCEPT ![q].state = "READY", ![q].arg = 0]
               b == [t2 EXCEPT ![q].state = "READY"]
    <3>1. pcb' = [a EXCEPT ![p] = ClearedPcb]
      BY <1>5 DEF Release
    <3>2. a[q] = [t[q] EXCEPT !.state = "READY", !.arg = 0]
      BY <1>1, <2>1 DEF PCB
    <3>3. b[q] = [r EXCEPT !.state = "READY"]
      BY <1>1, <2>1
    <3>4. [r EXCEPT !.state = "READY"] = [t[q] EXCEPT !.state = "READY", !.arg = 0]
      BY <1>1, <2>1 DEF PCB
    <3>5. \A x \in Slots : pcb'[x] = b[x]
      BY <1>1, <2>1, <3>1, <3>2, <3>3, <3>4
    <3>6. DOMAIN pcb' = Slots /\ DOMAIN b = Slots
      BY <1>1, <3>1
    <3> QED BY <1>1, <3>1, <3>5, <3>6
  <2>9. stack_avail' = ns /\ pcb_avail' = nf /\ next_pid' = next_pid
    BY <1>1, <1>5, <2>1 DEF Release
  <2> QED BY <1>5, <2>7, <2>8, <2>9 DEF SafeNow, ThenDispatch
<1>6. ASSUME pcb' = [t EXCEPT ![p].state = "ZOMBIE"],
             zombie' = zombie \cup {p},
             ready' = rq, ThenDispatch,
             UNCHANGED <<pools, sleep, reading, waiting>>
      PROVE  SafeNow' /\ mode' = "dispatch"
  <2> DEFINE r == [t[p] EXCEPT !.state = "ZOMBIE"]
  <2>1. r \in PCB /\ r.pid = t[p].pid /\ r.stack = t[p].stack /\ r.state = "ZOMBIE"
    BY <1>1 DEF PCB, States
  <2>2. pcb' = [t EXCEPT ![p] = r]
    BY <1>1, <1>6
  <2> HIDE DEF r
  <2>3. Safe(pcb', rq, pcb_avail, stack_avail, sleep, reading, waiting, zombie \cup {p}, next_pid)
    BY <2>1, <2>2, AttachSet
  <2> QED BY <1>6, <2>3 DEF SafeNow, ThenDispatch, pools
<1> QED BY <1>3, <1>4, <1>5, <1>6 DEF Zombify

(***************************************************************************)
(* _sys_fork: the child is a PCB that was free, with a stack that was free *)
(* and a PID no process has had.                                           *)
(***************************************************************************)
LEMMA ForkSafe ==
  ASSUME SafeNow, current \in Slots, Fork
  PROVE  SafeNow'
<1> DEFINE h == Head(pcb_avail)
           s == Head(stack_avail)
           t == [pcb EXCEPT ![h] = Child]
           nf == Tail(pcb_avail)
           ns == Tail(stack_avail)
<1>1. /\ pcb \in [Slots -> PCB] /\ pcb_avail \in Seq(Slots) /\ stack_avail \in Seq(Stacks)
      /\ next_pid \in Nat \ {0}
      /\ pcb_avail # <<>> /\ stack_avail # <<>>
  BY DEF SafeNow, Safe, Types, Fork
<1>2. /\ h \in Slots /\ nf \in Seq(Slots) /\ NoDuplicates(nf)
      /\ h \in RangeOf(pcb_avail) /\ RangeOf(nf) = RangeOf(pcb_avail) \ {h}
  BY <1>1, TailRange DEF SafeNow, Safe
<1>3. /\ s \in Stacks /\ ns \in Seq(Stacks) /\ NoDuplicates(ns)
      /\ s \in RangeOf(stack_avail) /\ RangeOf(ns) = RangeOf(stack_avail) \ {s}
  BY <1>1, TailRange DEF SafeNow, Safe, Owned
<1>4. s # NULL
  BY <1>3 DEF Stacks, NULL
<1>5. /\ Child \in PCB /\ Child.state = "FREE" /\ Child.pid = next_pid /\ Child.stack = s
      /\ Child # ClearedPcb
  <2>1. ClearedPcb \in PCB
    BY DEF ClearedPcb, PCB, States
  <2>2. pcb[current].pid \in Nat /\ pcb[current].prio \in Nat
    BY <1>1 DEF PCB
  <2> HIDE DEF s
  <2>3. s \in Stacks \cup {NULL} /\ Child = [ClearedPcb EXCEPT !.pid = next_pid,
             !.ppid = pcb[current].pid, !.prio = pcb[current].prio, !.stack = s]
    BY <1>3 DEF Child, s
  <2>4. Child \in PCB
    BY <1>1, <2>1, <2>2, <2>3 DEF PCB
  <2>5. Child.state = ClearedPcb.state /\ Child.pid = next_pid /\ Child.stack = s
    BY <2>1, <2>3 DEF PCB
  <2>6. ClearedPcb.state = "FREE" /\ ClearedPcb.pid = 0
    BY DEF ClearedPcb
  <2> QED BY <1>1, <2>4, <2>5, <2>6
<1>6. pcb[h] = ClearedPcb
  BY <1>2 DEF SafeNow, Safe, Faithful
<1>7. t \in [Slots -> PCB] /\ t[h] = Child /\ \A q \in Slots \ {h} : t[q] = pcb[q]
  BY <1>1, <1>2, <1>5
<1> HIDE DEF h, s, t, nf, ns
<1>8. Owned(t, ns)
  <2>1. \A q \in Slots : t[q].stack = NULL <=> t[q] = ClearedPcb
    BY <1>4, <1>5, <1>7 DEF SafeNow, Safe, Owned
  <2>2. \A q \in Slots \ {h} : pcb[q].stack # s /\ pcb[q].stack \notin RangeOf(stack_avail)
    BY <1>3 DEF SafeNow, Safe, Owned
  <2>3. \A q \in Slots : t[q].stack \notin RangeOf(ns)
    BY <1>3, <1>5, <1>7, <2>2
  <2>4. \A q, r \in Slots : t[q].stack = t[r].stack /\ t[q].stack # NULL => q = r
    BY <1>5, <1>7, <2>2 DEF SafeNow, Safe, Owned
  <2>5. \A x \in Stacks : x \in RangeOf(ns) \/ \E q \in Slots : t[q].stack = x
    <3> SUFFICES ASSUME NEW x \in Stacks, x \notin RangeOf(ns)
                 PROVE  \E q \in Slots : t[q].stack = x
      OBVIOUS
    <3>1. CASE x = s
      BY <1>2, <1>5, <1>7, <3>1
    <3>2. CASE x # s
      <4>1. PICK q \in Slots : pcb[q].stack = x
        BY <1>3, <3>2 DEF SafeNow, Safe, Owned
      <4>2. q # h
        BY <1>6, <4>1 DEF ClearedPcb, Stacks, NULL
      <4> QED BY <1>7, <4>1, <4>2
    <3> QED BY <3>1, <3>2
  <2> QED BY <1>3, <2>1, <2>3, <2>4, <2>5 DEF Owned
<1>9. Named(t, next_pid + 1)
  <2>1. \A q \in Slots \ {h} :
           pcb[q].pid < next_pid /\ (pcb[q].pid = 0 <=> pcb[q] = ClearedPcb)
    BY DEF SafeNow, Safe, Named
  <2>2. \A q \in Slots : pcb[q].pid \in Nat
    BY <1>1 DEF PCB
  <2>3. \A q \in Slots : t[q].pid < next_pid + 1
    BY <1>1, <1>5, <1>7, <2>1, <2>2
  <2>4. \A q \in Slots : t[q].pid = 0 <=> t[q] = ClearedPcb
    BY <1>1, <1>5, <1>7, <2>1
  <2>5. \A q, r \in Slots : t[q].pid = t[r].pid /\ t[q].pid # 0 => q = r
    <3> SUFFICES ASSUME NEW q \in Slots, NEW r \in Slots, q # r,
                        t[q].pid = t[r].pid, t[q].pid # 0
                 PROVE  FALSE
      OBVIOUS
    <3>1. CASE q # h /\ r # h
      BY <1>7, <3>1 DEF SafeNow, Safe, Named
    <3>2. CASE q = h \/ r = h
      BY <1>1, <1>5, <1>7, <2>1, <2>2, <3>2
    <3> QED BY <3>1, <3>2
  <2> QED BY <2>3, <2>4, <2>5 DEF Named
<1>10. h \notin RangeOf(nf) \cup Occupied(ready) \cup sleep \cup reading \cup waiting \cup zombie
  BY <1>2 DEF SafeNow, Safe, Apart
<1>11. Faithful(t, RangeOf(nf), Occupied(ready), sleep, waiting, zombie)
  BY <1>2, <1>5, <1>7, <1>10 DEF SafeNow, Safe, Faithful
<1>12. Apart(RangeOf(nf), Occupied(ready), sleep, reading, waiting, zombie)
  BY <1>2 DEF SafeNow, Safe, Apart
<1>13. Safe(t, ready, nf, ns, sleep, reading, waiting, zombie, next_pid + 1)
  BY <1>1, <1>2, <1>3, <1>7, <1>8, <1>9, <1>11, <1>12 DEF SafeNow, Safe, Types
<1>14. pcb[current].prio \in Nat
  BY <1>1 DEF PCB
<1>15. Safe([t EXCEPT ![h].state = "READY"], Enqueue(ready, h, pcb[current].prio), nf, ns,
            sleep, reading, waiting, zombie, next_pid + 1)
  BY <1>2, <1>10, <1>13, <1>14, AttachReady
<1> QED BY <1>15 DEF SafeNow, Fork, Schedule, h, t, nf, ns

(***************************************************************************)
(* _dispatch takes a process off a ready queue, to run it or to end it.    *)
(***************************************************************************)
LEMMA PopSafe ==
  ASSUME SafeNow, NEW i \in Levels, ready[i] # <<>>,
         NEW r \in PCB,
         r.pid = pcb[Head(ready[i])].pid, r.stack = pcb[Head(ready[i])].stack,
         r.state \in {"RUNNING", "KILLED"}
  PROVE  /\ Head(ready[i]) \in Slots
         /\ pcb[Head(ready[i])].state \in {"READY", "KILLED"}
         /\ Head(ready[i]) \notin RangeOf(pcb_avail) \cup Occupied(Popped(i)) \cup sleep
                                  \cup reading \cup waiting \cup zombie
         /\ Safe([pcb EXCEPT ![Head(ready[i])] = r], Popped(i), pcb_avail, stack_avail,
                 sleep, reading, waiting, zombie, next_pid)
<1> DEFINE h == Head(ready[i])
           u == [pcb EXCEPT ![h] = r]
           nq == Popped(i)
<1>1. pcb \in [Slots -> PCB] /\ ready \in ReadyType /\ ReadyOK(ready)
  BY DEF SafeNow, Safe, Types
<1>2. /\ h \in Slots /\ h \in Occupied(ready)
      /\ nq \in ReadyType /\ ReadyOK(nq) /\ Occupied(nq) = Occupied(ready) \ {h}
  BY <1>1, PoppedOK
<1>3. u \in [Slots -> PCB] /\ u[h] = r /\ \A q \in Slots \ {h} : u[q] = pcb[q]
  BY <1>1, <1>2
<1>4. r.pid = pcb[h].pid /\ r.stack = pcb[h].stack
  OBVIOUS
<1> HIDE DEF h, u, nq
<1>5. h \notin RangeOf(pcb_avail) \cup Occupied(nq) \cup sleep \cup reading \cup waiting \cup zombie
  BY <1>2 DEF SafeNow, Safe, Apart
<1>6. pcb[h] # ClearedPcb
  BY <1>2, <1>5 DEF SafeNow, Safe, Faithful
<1>7. /\ Owned(u, stack_avail) /\ Named(u, next_pid)
      /\ \A q \in Slots : u[q] = ClearedPcb <=> pcb[q] = ClearedPcb
  <2>1. \A q \in Slots : u[q].pid = pcb[q].pid /\ u[q].stack = pcb[q].stack
    BY <1>3, <1>4
  <2>2. \A q \in Slots : pcb[q] = ClearedPcb => u[q] = ClearedPcb
    BY <1>3, <1>6
  <2> QED BY <1>1, <1>3, <2>1, <2>2, SameNames DEF SafeNow, Safe
<1>8. Faithful(u, RangeOf(pcb_avail), Occupied(nq), sleep, waiting, zombie)
  BY <1>2, <1>3, <1>5, <1>7 DEF SafeNow, Safe, Faithful
<1>9. Apart(RangeOf(pcb_avail), Occupied(nq), sleep, reading, waiting, zombie)
  BY <1>2 DEF SafeNow, Safe, Apart
<1>10. Safe(u, nq, pcb_avail, stack_avail, sleep, reading, waiting, zombie, next_pid)
  BY <1>2, <1>3, <1>7, <1>8, <1>9 DEF SafeNow, Safe, Types
<1>11. pcb[h].state \in {"READY", "KILLED"}
  BY <1>2 DEF SafeNow, Safe, Faithful
<1> QED BY <1>2, <1>5, <1>10, <1>11 DEF h, u, nq

-----------------------------------------------------------------------------
(***************************************************************************)
(* The process on the CPU.                                                 *)
(***************************************************************************)
LEMMA CurrentFacts ==
  ASSUME IInv, mode \in {"user", "clock"}
  PROVE  /\ SafeNow /\ current \in Slots /\ Outside(current)
         /\ pcb \in [Slots -> PCB] /\ pcb[current] \in PCB
         /\ pcb[current].state \in {"FREE", "RUNNING", "KILLED"}
         /\ pcb[current] # ClearedPcb
         /\ pcb[current].pid \in Nat \ {0}
         /\ pcb[current].prio \in Nat
<1>1. SafeNow /\ current \in Slots /\ Outside(current)
  BY DEF IInv
<1>2. pcb \in [Slots -> PCB] /\ pcb[current] \in PCB
  BY <1>1 DEF SafeNow, Safe, Types
<1>3. pcb[current] # ClearedPcb
  BY <1>1 DEF SafeNow, Safe, Faithful, Outside
<1>4. pcb[current].state \notin {"READY", "SLEEPING", "WAITING", "ZOMBIE"}
  BY <1>1 DEF SafeNow, Safe, Faithful, Outside
<1>5. pcb[current].state \in {"FREE", "RUNNING", "KILLED"}
  BY <1>2, <1>4 DEF PCB, States
<1>6. pcb[current].pid \in Nat \ {0}
  BY <1>1, <1>2, <1>3 DEF SafeNow, Safe, Named, PCB
<1>7. pcb[current].prio \in Nat
  BY <1>2 DEF PCB
<1> QED BY <1>1, <1>2, <1>3, <1>5, <1>6, <1>7

(***************************************************************************)
(* The current process gives up the CPU for a ready queue (exec, kill of   *)
(* itself, the clock): _schedule, from any table that differs in fields    *)
(* of the current process alone.                                           *)
(***************************************************************************)
LEMMA ScheduleCurrent ==
  ASSUME IInv, mode \in {"user", "clock"},
         NEW x \in Nat,
         NEW r \in PCB, r.pid = pcb[current].pid, r.stack = pcb[current].stack,
         r.state \in {"FREE", "RUNNING", "KILLED"},
         Schedule([pcb EXCEPT ![current] = r], current, x),
         UNCHANGED <<sleep, reading, waiting, zombie, pools>>
  PROVE  SafeNow'
<1> DEFINE t == [pcb EXCEPT ![current] = r]
<1>1. SafeNow /\ current \in Slots /\ Outside(current)
  BY CurrentFacts
<1>2. Safe(t, ready, pcb_avail, stack_avail, sleep, reading, waiting, zombie, next_pid)
  <2>1. Safe(t, ready, pcb_avail, stack_avail, sleep \ {current}, reading \ {current},
             waiting \ {current}, zombie \ {current}, next_pid)
    BY <1>1, Detach DEF SafeNow, Outside
  <2>2. /\ sleep \ {current} = sleep /\ reading \ {current} = reading
        /\ waiting \ {current} = waiting /\ zombie \ {current} = zombie
    BY <1>1 DEF Outside
  <2> QED BY <2>1, <2>2
<1> HIDE DEF t
<1>3. Safe([t EXCEPT ![current].state = "READY"], Enqueue(ready, current, x), pcb_avail,
           stack_avail, sleep, reading, waiting, zombie, next_pid)
  BY <1>1, <1>2, AttachReady DEF Outside
<1> QED BY <1>3 DEF SafeNow, Schedule, pools, t

(***************************************************************************)
(* A process is woken: taken off the set it blocks in, and scheduled.      *)
(***************************************************************************)
LEMMA Wake ==
  ASSUME SafeNow, NEW p \in sleep \cup reading, NEW x \in Nat,
         NEW r \in PCB, r.pid = pcb[p].pid, r.stack = pcb[p].stack,
         sleep' = sleep \ {p}, reading' = reading \ {p},
         pcb' = [[pcb EXCEPT ![p] = r] EXCEPT ![p].state = "READY"],
         ready' = Enqueue(ready, p, x),
         UNCHANGED <<waiting, zombie, pools>>
  PROVE  /\ SafeNow'
         /\ \A c \in Slots : Outside(c) => Outside(c)'
<1> DEFINE r1 == [r EXCEPT !.state = "RUNNING"]
           t == [pcb EXCEPT ![p] = r1]
<1>1. pcb \in [Slots -> PCB] /\ p \in Slots /\ ready \in ReadyType /\ ReadyOK(ready)
  BY DEF SafeNow, Safe, Types
<1>2. p \notin RangeOf(pcb_avail) \cup Occupied(ready) \cup waiting \cup zombie
  BY DEF SafeNow, Safe, Apart
<1>3. r1 \in PCB /\ r1.pid = pcb[p].pid /\ r1.stack = pcb[p].stack /\ r1.state = "RUNNING"
  BY DEF PCB, States
<1>4. Safe(t, ready, pcb_avail, stack_avail, sleep', reading', waiting, zombie, next_pid)
  <2>1. waiting \ {p} = waiting /\ zombie \ {p} = zombie
    BY <1>2
  <2> HIDE DEF r1
  <2>2. Safe(t, ready, pcb_avail, stack_avail, sleep \ {p}, reading \ {p}, waiting \ {p},
             zombie \ {p}, next_pid)
    BY <1>1, <1>2, <1>3, Detach DEF SafeNow
  <2> QED BY <2>1, <2>2
<1>5. pcb' = [t EXCEPT ![p].state = "READY"]
  <2>1. [r1 EXCEPT !.state = "READY"] = [r EXCEPT !.state = "READY"]
    BY DEF PCB
  <2>2. [t EXCEPT ![p].state = "READY"] = [pcb EXCEPT ![p] = [r1 EXCEPT !.state = "READY"]]
    <3> HIDE DEF r1
    <3> QED BY <1>1
  <2>3. pcb' = [pcb EXCEPT ![p] = [r EXCEPT !.state = "READY"]]
    BY <1>1
  <2> QED BY <2>1, <2>2, <2>3
<1> HIDE DEF t
<1>6. Safe(pcb', ready', pcb_avail, stack_avail, sleep', reading', waiting, zombie, next_pid)
  <2>1. p \notin RangeOf(pcb_avail) \cup Occupied(ready) \cup sleep' \cup reading' \cup waiting \cup zombie
    BY <1>2
  <2>2. Safe([t EXCEPT ![p].state = "READY"], Enqueue(ready, p, x), pcb_avail, stack_avail,
             sleep', reading', waiting, zombie, next_pid)
    BY <1>1, <1>4, <2>1, AttachReady
  <2> QED BY <1>5, <2>2
<1>7. Occupied(ready') = Occupied(ready) \cup {p}
  BY <1>1, <1>2, EnqueueOK
<1>8. \A c \in Slots : Outside(c) => Outside(c)'
  BY <1>7 DEF Outside, pools
<1> QED BY <1>6, <1>8 DEF SafeNow, pools

-----------------------------------------------------------------------------
(***************************************************************************)
(* The steps, one lemma for each kind.  Rest is what a step owes the       *)
(* invariant beside SafeNow'.                                              *)
(***************************************************************************)
Rest ==
  /\ current' \in Slots
  /\ system_time' \in 0..(TIME_MOD - 1)
  /\ incount' \in 0..BUF_SIZE
  /\ mode' \in Modes \ {"non-ready", "wait remove", "zombie not on queue"}
  /\ mode' \in {"user", "clock"} => Outside(current)'

(***************************************************************************)
(* Every step below shows separately that the pools and queues stay Safe,  *)
(* and that the rest of the invariant holds.                               *)
(***************************************************************************)
LEMMA FromRest == ASSUME SafeNow', Rest PROVE IInv'
BY DEF Rest, IInv

(***************************************************************************)
(* The system time stays within the width of a time_t.                     *)
(***************************************************************************)
LEMMA ModRange ==
  ASSUME NEW a \in Nat, NEW n \in Nat \ {0}
  PROVE  a % n \in 0..(n - 1) /\ a % n \in Nat
OBVIOUS

(***************************************************************************)
(* Blocking: the current process goes from the CPU into a set (sleep,      *)
(* readc and wait).                                                        *)
(***************************************************************************)
LEMMA SleepStep == ASSUME IInv, NEW ticks \in Ticks, Sleep(ticks) PROVE IInv'
<1> DEFINE r == [pcb[current] EXCEPT !.state = "SLEEPING",
                                     !.wake = (system_time + ticks) % TIME_MOD]
<1>1. /\ SafeNow /\ current \in Slots /\ Outside(current)
      /\ pcb \in [Slots -> PCB] /\ pcb[current] \in PCB
  BY CurrentFacts DEF Sleep, Syscall
<1>2. (system_time + ticks) % TIME_MOD \in Nat
  <2>1. system_time \in 0..(TIME_MOD - 1)
    BY DEF IInv
  <2>2. ticks \in Nat /\ TIME_MOD \in Nat \ {0}
    BY KernelAssumption
  <2>3. system_time + ticks \in Nat
    BY <2>1, <2>2
  <2> QED BY <2>2, <2>3, ModRange
<1>3. r \in PCB /\ r.pid = pcb[current].pid /\ r.stack = pcb[current].stack
                /\ r.state = "SLEEPING"
  BY <1>1, <1>2 DEF PCB, States
<1>4. pcb' = [pcb EXCEPT ![current] = r]
  BY <1>1 DEF Sleep
<1> HIDE DEF r
<1>5. Safe(pcb', ready, pcb_avail, stack_avail, sleep \cup {current}, reading, waiting, zombie, next_pid)
  BY <1>1, <1>3, <1>4, AttachSet DEF SafeNow, Outside
<1>6. SafeNow'
  BY <1>5 DEF SafeNow, Sleep, pools
<1>7. Rest
  BY DEF Sleep, Rest, IInv, ThenDispatch, Modes
<1> QED BY <1>6, <1>7, FromRest

(***************************************************************************)
(* A reader with no character blocks on _reading.                          *)
(***************************************************************************)
LEMMA ReadcBlockStep == ASSUME IInv, ReadcBlock PROVE IInv'
<1> DEFINE r == [pcb[current] EXCEPT !.status = BLOCKED]
<1>1. /\ SafeNow /\ current \in Slots /\ Outside(current)
      /\ pcb \in [Slots -> PCB] /\ pcb[current] \in PCB
  BY CurrentFacts DEF ReadcBlock, Syscall
<1>2. r \in PCB /\ r.pid = pcb[current].pid /\ r.stack = pcb[current].stack
                /\ r.state = pcb[current].state
  BY <1>1 DEF PCB, BLOCKED
<1>3. pcb' = [pcb EXCEPT ![current] = r]
  BY <1>1 DEF ReadcBlock
<1> HIDE DEF r
<1>4. Safe(pcb', ready, pcb_avail, stack_avail, sleep, reading \cup {current}, waiting, zombie, next_pid)
  BY <1>1, <1>2, <1>3, AttachSet DEF SafeNow, Outside
<1>5. SafeNow'
  BY <1>4 DEF SafeNow, ReadcBlock, pools
<1>6. Rest
  BY DEF ReadcBlock, Rest, IInv, ThenDispatch, Modes
<1> QED BY <1>5, <1>6, FromRest

(***************************************************************************)
(* A process that waits for a live child blocks on _waiting.               *)
(***************************************************************************)
LEMMA WaitBlockStep == ASSUME IInv, NEW x \in Nat, WaitBlock(x) PROVE IInv'
<1> DEFINE r == [pcb[current] EXCEPT !.state = "WAITING", !.arg = x]
<1>1. /\ SafeNow /\ current \in Slots /\ Outside(current)
      /\ pcb \in [Slots -> PCB] /\ pcb[current] \in PCB
  BY CurrentFacts DEF WaitBlock, Syscall
<1>2. r \in PCB /\ r.pid = pcb[current].pid /\ r.stack = pcb[current].stack
                /\ r.state = "WAITING"
  BY <1>1 DEF PCB, States
<1>3. pcb' = [pcb EXCEPT ![current] = r]
  BY <1>1 DEF WaitBlock, Block
<1> HIDE DEF r
<1>4. Safe(pcb', ready, pcb_avail, stack_avail, sleep, reading, waiting \cup {current}, zombie, next_pid)
  BY <1>1, <1>2, <1>3, AttachSet DEF SafeNow, Outside
<1>5. SafeNow'
  BY <1>4 DEF SafeNow, WaitBlock, Block, pools
<1>6. Rest
  BY DEF WaitBlock, Block, Rest, IInv, ThenDispatch, Modes
<1> QED BY <1>5, <1>6, FromRest

(***************************************************************************)
(* wait() that finds a zombie: it is on the zombie queue.                  *)
(***************************************************************************)
LEMMA WaitReapStep == ASSUME IInv, NEW x \in Nat, WaitReap(x) PROVE IInv'
<1>1. /\ SafeNow /\ current \in Slots /\ Outside(current)
      /\ pcb \in [Slots -> PCB] /\ mode = "user"
  BY CurrentFacts DEF WaitReap, Syscall
<1>2. PICK p \in Slots : Reap(p)
  BY KernelAssumption DEF WaitReap, AnyChild, ZombieChildren, Find, Slots
<1>3. p \in zombie
  BY <1>1, <1>2 DEF Reap, SafeNow, Safe, Faithful
<1>4. p \notin RangeOf(pcb_avail) \cup Occupied(ready) \cup sleep \cup reading \cup waiting
  BY <1>1, <1>3 DEF SafeNow, Safe, Apart
<1>5. p # current
  BY <1>1, <1>3 DEF Outside
<1> DEFINE r == [pcb[p] EXCEPT !.state = "KILLED"]
           t == [pcb EXCEPT ![p] = r]
<1>6. r \in PCB /\ r.pid = pcb[p].pid /\ r.stack = pcb[p].stack /\ r.state = "KILLED"
  BY <1>1 DEF PCB, States
<1>7. Safe(t, ready, pcb_avail, stack_avail, sleep, reading, waiting, zombie \ {p}, next_pid)
  <2>1. sleep \ {p} = sleep /\ reading \ {p} = reading /\ waiting \ {p} = waiting
    BY <1>4
  <2> HIDE DEF r
  <2>2. Safe(t, ready, pcb_avail, stack_avail, sleep \ {p}, reading \ {p}, waiting \ {p},
             zombie \ {p}, next_pid)
    BY <1>1, <1>4, <1>6, Detach DEF SafeNow
  <2> QED BY <2>1, <2>2
<1>8. t[p].stack = pcb[p].stack
  BY <1>1, <1>6
<1>9. [t EXCEPT ![p] = ClearedPcb] = [pcb EXCEPT ![p] = ClearedPcb]
  BY <1>1
<1> HIDE DEF t
<1>10. Safe([pcb EXCEPT ![p] = ClearedPcb], ready, Append(pcb_avail, p),
            Append(stack_avail, pcb[p].stack), sleep, reading, waiting, zombie \ {p}, next_pid)
  BY <1>4, <1>7, <1>8, <1>9, AttachFree
<1>11. SafeNow'
  BY <1>2, <1>3, <1>10 DEF SafeNow, Reap, Release
<1>12. RangeOf(pcb_avail') = RangeOf(pcb_avail) \cup {p}
  <2>1. pcb_avail' = Append(pcb_avail, p)
    BY <1>2, <1>3 DEF Reap, Release
  <2>2. pcb_avail \in Seq(Slots)
    BY <1>1 DEF SafeNow, Safe, Types
  <2> QED BY <2>1, <2>2, AppendRange
<1>13. Outside(current)'
  BY <1>1, <1>2, <1>3, <1>5, <1>12 DEF Outside, Reap
<1>14. Rest
  BY <1>1, <1>2, <1>3, <1>13 DEF Rest, IInv, Reap, Modes
<1> QED BY <1>11, <1>14, FromRest

(***************************************************************************)
(* The current process keeps the CPU: calls that change a field of a PCB,  *)
(* or nothing but a counter.                                               *)
(***************************************************************************)
LEMMA SetPrioStep == ASSUME IInv, NEW x \in Prios, SetPrio(x) PROVE IInv'
<1>1. /\ SafeNow /\ current \in Slots /\ Outside(current) /\ mode = "user"
      /\ pcb \in [Slots -> PCB] /\ pcb[current] \in PCB /\ pcb[current] # ClearedPcb
  BY CurrentFacts DEF SetPrio, Syscall
<1>2. x \in Nat
  BY KernelAssumption
<1>3. pcb' = [pcb EXCEPT ![current] = [pcb[current] EXCEPT !.prio = x]]
  BY <1>1 DEF SetPrio
<1>4. pcb' \in [Slots -> PCB]
  BY <1>1, <1>2, <1>3 DEF PCB
<1>5. \A p \in Slots : /\ pcb'[p].pid = pcb[p].pid /\ pcb'[p].stack = pcb[p].stack
                       /\ pcb'[p].state = pcb[p].state
  BY <1>1, <1>3 DEF PCB
<1>6. \A p \in Slots : pcb[p] = ClearedPcb => pcb'[p] = ClearedPcb
  BY <1>1, <1>3
<1>7. Safe(pcb', ready, pcb_avail, stack_avail, sleep, reading, waiting, zombie, next_pid)
  BY <1>1, <1>4, <1>5, <1>6, Relabel DEF SafeNow
<1>8. SafeNow'
  BY <1>7 DEF SafeNow, SetPrio, queues, pools
<1>9. Rest
  BY <1>1 DEF SetPrio, Rest, IInv, Outside, queues, pools
<1> QED BY <1>8, <1>9, FromRest

(***************************************************************************)
(* Killing another process only marks it: it stays in the queue it is in.  *)
(***************************************************************************)
LEMMA KillOtherStep == ASSUME IInv, NEW x \in Nat, KillOther(x) PROVE IInv'
<1>1. /\ SafeNow /\ current \in Slots /\ Outside(current) /\ mode = "user"
      /\ pcb \in [Slots -> PCB]
  BY CurrentFacts DEF KillOther, Syscall
<1>2. PICK k \in Find(pcb, x) : pcb' = [pcb EXCEPT ![k].state = "KILLED"]
  BY DEF KillOther
<1>3. k \in Slots /\ pcb[k] # ClearedPcb
  BY DEF Find, ClearedPcb
<1>4. pcb' = [pcb EXCEPT ![k] = [pcb[k] EXCEPT !.state = "KILLED"]]
  BY <1>1, <1>2, <1>3
<1>5. pcb' \in [Slots -> PCB]
  BY <1>1, <1>3, <1>4 DEF PCB, States
<1>6. \A p \in Slots : pcb'[p].pid = pcb[p].pid /\ pcb'[p].stack = pcb[p].stack
  BY <1>1, <1>3, <1>4 DEF PCB
<1>7. \A p \in Slots : \/ pcb'[p].state = pcb[p].state
                       \/ pcb'[p].state = "KILLED" /\ pcb[p] # ClearedPcb
  BY <1>1, <1>3, <1>4 DEF PCB
<1>8. \A p \in Slots : pcb[p] = ClearedPcb => pcb'[p] = ClearedPcb
  BY <1>1, <1>3, <1>4
<1>9. Safe(pcb', ready, pcb_avail, stack_avail, sleep, reading, waiting, zombie, next_pid)
  BY <1>1, <1>5, <1>6, <1>7, <1>8, Relabel DEF SafeNow
<1>10. SafeNow'
  BY <1>9 DEF SafeNow, KillOther, queues, pools
<1>11. Rest
  BY <1>1 DEF KillOther, Rest, IInv, Outside, queues, pools
<1> QED BY <1>10, <1>11, FromRest

(***************************************************************************)
(* fork() with a PCB and a stack to spare; the caller keeps the CPU.       *)
(***************************************************************************)
LEMMA ForkStep == ASSUME IInv, Fork PROVE IInv'
<1>1. /\ SafeNow /\ current \in Slots /\ Outside(current) /\ mode = "user"
      /\ pcb \in [Slots -> PCB] /\ pcb[current].prio \in Nat
  BY CurrentFacts DEF Fork, Syscall
<1>2. SafeNow'
  BY <1>1, ForkSafe
<1>3. Outside(current)'
  <2> DEFINE h == Head(pcb_avail)
  <2>1. /\ pcb_avail \in Seq(Slots) /\ pcb_avail # <<>> /\ NoDuplicates(pcb_avail)
        /\ ready \in ReadyType /\ ReadyOK(ready)
    BY <1>1 DEF SafeNow, Safe, Types, Fork
  <2>2. h \in Slots /\ h \in RangeOf(pcb_avail)
        /\ RangeOf(Tail(pcb_avail)) = RangeOf(pcb_avail) \ {h}
    BY <2>1, TailRange
  <2> HIDE DEF h
  <2>3. h \notin Occupied(ready) /\ h # current
    BY <1>1, <2>2 DEF SafeNow, Safe, Apart, Outside
  <2>4. Occupied(Enqueue(ready, h, pcb[current].prio)) = Occupied(ready) \cup {h}
    BY <1>1, <2>1, <2>2, <2>3, EnqueueOK
  <2>5. /\ ready' = Enqueue(ready, h, pcb[current].prio) /\ pcb_avail' = Tail(pcb_avail)
        /\ UNCHANGED <<current, sleep, reading, waiting, zombie>>
    BY DEF Fork, Schedule, h
  <2> QED BY <1>1, <2>2, <2>3, <2>4, <2>5 DEF Outside
<1>4. Rest
  BY <1>1, <1>3 DEF Fork, Rest, IInv
<1> QED BY <1>2, <1>4, FromRest

(***************************************************************************)
(* fork() without a stack puts the PCB it took back, once.                 *)
(***************************************************************************)
LEMMA ForkNoStackStep == ASSUME IInv, ForkNoStack PROVE IInv'
<1>1. /\ SafeNow /\ current \in Slots /\ Outside(current) /\ mode = "user"
  BY CurrentFacts DEF ForkNoStack, Syscall
<1> DEFINE h == Head(pcb_avail)
           s == Tail(pcb_avail)
<1>2. pcb_avail \in Seq(Slots) /\ pcb_avail # <<>> /\ NoDuplicates(pcb_avail)
  BY <1>1 DEF SafeNow, Safe, Types, ForkNoStack
<1>3. /\ h \in Slots /\ s \in Seq(Slots) /\ h \in RangeOf(pcb_avail)
      /\ RangeOf(s) = RangeOf(pcb_avail) \ {h} /\ NoDuplicates(s)
  BY <1>2, TailRange
<1>4. pcb_avail' = Append(s, h)
  BY DEF ForkNoStack
<1> HIDE DEF h, s
<1>5. /\ pcb_avail' \in Seq(Slots) /\ NoDuplicates(pcb_avail')
      /\ RangeOf(pcb_avail') = RangeOf(pcb_avail)
  <2>1. h \notin RangeOf(s) /\ RangeOf(s) \cup {h} = RangeOf(pcb_avail)
    BY <1>3
  <2>2. /\ Append(s, h) \in Seq(Slots) /\ RangeOf(Append(s, h)) = RangeOf(s) \cup {h}
        /\ NoDuplicates(Append(s, h))
    BY <1>3, <2>1, AppendRange
  <2> QED BY <1>4, <2>1, <2>2
<1>6. Safe(pcb, ready, pcb_avail', stack_avail, sleep, reading, waiting, zombie, next_pid)
  BY <1>1, <1>5 DEF SafeNow, Safe, Types
<1>7. SafeNow'
  BY <1>6 DEF SafeNow, ForkNoStack, queues
<1>8. Rest
  BY <1>1, <1>5 DEF ForkNoStack, Rest, IInv, Outside, queues
<1> QED BY <1>7, <1>8, FromRest

(***************************************************************************)
(* The current process ends.                                               *)
(***************************************************************************)
LEMMA ExitStep == ASSUME IInv, NEW code \in ExitCodes, Exit(code) PROVE IInv'
<1>1. /\ SafeNow /\ current \in Slots /\ Outside(current)
      /\ pcb \in [Slots -> PCB] /\ pcb[current] # ClearedPcb
      /\ pcb[current].pid \in Nat \ {0}
  BY CurrentFacts DEF Exit, Syscall
<1> DEFINE t == ExitTable(code)
<1>2. code \in Nat
  BY KernelAssumption
<1>3. \A p \in Slots :
        \E x, y \in Nat : /\ t[p] = [pcb[p] EXCEPT !.ppid = x, !.arg = y]
                          /\ x = pcb[p].ppid \/ pcb[p].ppid = pcb[current].pid
                          /\ y = pcb[p].arg \/ p = current
  <2> SUFFICES ASSUME NEW p \in Slots
               PROVE  \E x, y \in Nat :
                        /\ t[p] = [pcb[p] EXCEPT !.ppid = x, !.arg = y]
                        /\ x = pcb[p].ppid \/ pcb[p].ppid = pcb[current].pid
                        /\ y = pcb[p].arg \/ p = current
    OBVIOUS
  <2> DEFINE x == IF pcb[p].ppid = pcb[current].pid THEN PID_INIT ELSE pcb[p].ppid
             y == IF p = current THEN code ELSE pcb[p].arg
  <2>1. pcb[p].ppid \in Nat /\ pcb[p].arg \in Nat
    BY <1>1 DEF PCB
  <2>2. x \in Nat /\ y \in Nat
    BY <1>2, <2>1 DEF PID_INIT
  <2>3. t[p] = [pcb[p] EXCEPT !.ppid = x, !.arg = y]
    BY DEF ExitTable
  <2>4. (x = pcb[p].ppid \/ pcb[p].ppid = pcb[current].pid) /\ (y = pcb[p].arg \/ p = current)
    OBVIOUS
  <2> HIDE DEF x, y, t
  <2> QED BY <2>2, <2>3, <2>4
<1>4. t \in [Slots -> PCB]
  <2>1. ASSUME NEW p \in Slots PROVE t[p] \in PCB
    <3>1. PICK x \in Nat, y \in Nat : t[p] = [pcb[p] EXCEPT !.ppid = x, !.arg = y]
      BY <1>3, ZenonT(40)
    <3> HIDE DEF t
    <3> QED BY <1>1, <3>1 DEF PCB
  <2> QED BY <2>1 DEF ExitTable
<1> HIDE DEF t
<1>5. \A p \in Slots : t[p].pid = pcb[p].pid /\ t[p].stack = pcb[p].stack /\ t[p].state = pcb[p].state
  BY <1>1, <1>3 DEF PCB
<1>6. \A p \in Slots : pcb[p] = ClearedPcb => t[p] = ClearedPcb
  <2> SUFFICES ASSUME NEW p \in Slots, pcb[p] = ClearedPcb PROVE t[p] = ClearedPcb
    OBVIOUS
  <2>1. p # current /\ pcb[p].ppid = 0 /\ pcb[p].ppid # pcb[current].pid
    BY <1>1 DEF ClearedPcb
  <2>2. t[p] = [pcb[p] EXCEPT !.ppid = pcb[p].ppid, !.arg = pcb[p].arg]
    BY <1>3, <2>1
  <2>3. t[p] = pcb[p]
    BY <1>1, <2>2 DEF PCB
  <2> QED BY <2>3
<1>7. Safe(t, ready, pcb_avail, stack_avail, sleep, reading, waiting, zombie, next_pid)
  BY <1>1, <1>4, <1>5, <1>6, Relabel DEF SafeNow
<1>8. Zombify(t, ready, current)
  BY DEF Exit, t
<1>9. SafeNow' /\ mode' \in {"no process parent", "dispatch"}
  BY <1>1, <1>7, <1>8, ZombifySafe DEF Outside
<1>10. Rest
  BY <1>9 DEF Exit, Rest, IInv, Modes, Panics
<1> QED BY <1>9, <1>10, FromRest

(***************************************************************************)
(* The current process goes to a ready queue: exec, kill of itself, and    *)
(* the end of _isr_clock.                                                  *)
(***************************************************************************)
LEMMA ExecStep == ASSUME IInv, NEW x \in Nat, Exec(x) PROVE IInv'
<1> DEFINE r == [pcb[current] EXCEPT !.prio = x]
<1>1. /\ current \in Slots /\ pcb \in [Slots -> PCB] /\ pcb[current] \in PCB /\ mode = "user"
      /\ pcb[current].state \in {"FREE", "RUNNING", "KILLED"}
  BY CurrentFacts DEF Exec, Syscall
<1>2. x \in Nat
  OBVIOUS
<1>3. r \in PCB /\ r.pid = pcb[current].pid /\ r.stack = pcb[current].stack
                /\ r.state = pcb[current].state
  BY <1>1, <1>2 DEF PCB
<1>4. [pcb EXCEPT ![current].prio = x] = [pcb EXCEPT ![current] = r]
  BY <1>1
<1> HIDE DEF r
<1>5. Schedule([pcb EXCEPT ![current] = r], current, x)
  BY <1>4 DEF Exec
<1>6. SafeNow'
  BY <1>1, <1>2, <1>3, <1>5, ScheduleCurrent DEF Exec
<1>7. Rest
  BY DEF Exec, Rest, IInv, ThenDispatch, Modes
<1> QED BY <1>6, <1>7, FromRest

(***************************************************************************)
(* A process that kills itself is scheduled like one that calls exec().    *)
(***************************************************************************)
LEMMA KillSelfStep == ASSUME IInv, KillSelf PROVE IInv'
<1> DEFINE r == [pcb[current] EXCEPT !.state = "KILLED"]
<1>1. /\ current \in Slots /\ pcb \in [Slots -> PCB] /\ pcb[current] \in PCB /\ mode = "user"
      /\ pcb[current].prio \in Nat
  BY CurrentFacts DEF KillSelf, Syscall
<1>2. r \in PCB /\ r.pid = pcb[current].pid /\ r.stack = pcb[current].stack
                /\ r.state = "KILLED"
  BY <1>1 DEF PCB, States
<1>3. [pcb EXCEPT ![current].state = "KILLED"] = [pcb EXCEPT ![current] = r]
  BY <1>1
<1> HIDE DEF r
<1>4. Schedule([pcb EXCEPT ![current] = r], current, pcb[current].prio)
  BY <1>3 DEF KillSelf
<1>5. SafeNow'
  BY <1>1, <1>2, <1>4, ScheduleCurrent DEF KillSelf
<1>6. Rest
  BY DEF KillSelf, Rest, IInv, ThenDispatch, Modes
<1> QED BY <1>5, <1>6, FromRest

(***************************************************************************)
(* The interrupted process is scheduled when no sleeper is due any more.   *)
(***************************************************************************)
LEMMA ClockPreemptStep == ASSUME IInv, ClockPreempt PROVE IInv'
<1>1. /\ current \in Slots /\ pcb \in [Slots -> PCB] /\ pcb[current] \in PCB /\ mode = "clock"
      /\ pcb[current].prio \in Nat
      /\ pcb[current].state \in {"FREE", "RUNNING", "KILLED"}
  BY CurrentFacts DEF ClockPreempt
<1>2. [pcb EXCEPT ![current] = pcb[current]] = pcb
  BY <1>1
<1>3. Schedule([pcb EXCEPT ![current] = pcb[current]], current, pcb[current].prio)
  BY <1>2 DEF ClockPreempt
<1>4. SafeNow'
  BY <1>1, <1>3, ScheduleCurrent DEF ClockPreempt
<1>5. Rest
  BY DEF ClockPreempt, Rest, IInv, ThenDispatch, Modes
<1> QED BY <1>4, <1>5, FromRest

(***************************************************************************)
(* Wakeups.                                                                *)
(***************************************************************************)
LEMMA ClockWakeStep == ASSUME IInv, NEW p \in Slots, ClockWake(p) PROVE IInv'
<1> DEFINE r == [pcb[p] EXCEPT !.wake = 0]
<1>1. /\ SafeNow /\ current \in Slots /\ Outside(current) /\ pcb \in [Slots -> PCB]
      /\ mode = "clock"
  BY CurrentFacts DEF ClockWake
<1>2. p \in sleep /\ p \notin reading
  BY <1>1 DEF ClockWake, Due, SafeNow, Safe, Apart
<1>3. r \in PCB /\ r.pid = pcb[p].pid /\ r.stack = pcb[p].stack
  BY <1>1 DEF PCB
<1>4. [pcb EXCEPT ![p].wake = 0] = [pcb EXCEPT ![p] = r]
  BY <1>1
<1> HIDE DEF r
<1>5. pcb' = [[pcb EXCEPT ![p] = r] EXCEPT ![p].state = "READY"]
  BY <1>4 DEF ClockWake, Schedule
<1>6. /\ sleep' = sleep \ {p} /\ reading' = reading \ {p}
      /\ ready' = Enqueue(ready, p, PRIO_MAXIMUM)
      /\ UNCHANGED <<waiting, zombie, pools>>
  BY <1>2 DEF ClockWake, Schedule
<1>7. SafeNow' /\ \A c \in Slots : Outside(c) => Outside(c)'
  BY <1>1, <1>2, <1>3, <1>5, <1>6, Wake DEF PRIO_MAXIMUM
<1>8. Outside(current)'
  BY <1>1, <1>7 DEF ClockWake, Outside
<1>9. Rest
  BY <1>1, <1>8 DEF ClockWake, Rest, IInv
<1> QED BY <1>7, <1>9, FromRest

(***************************************************************************)
(* A received character moves a reader from _reading to a ready queue.     *)
(***************************************************************************)
LEMMA SioWakeStep == ASSUME IInv, NEW p \in Slots, SioWake(p) PROVE IInv'
<1>1. /\ SafeNow /\ current \in Slots /\ Outside(current) /\ pcb \in [Slots -> PCB]
      /\ mode = "user"
  BY CurrentFacts DEF SioWake
<1>2. p \in reading /\ p \notin sleep
  BY <1>1 DEF SioWake, SafeNow, Safe, Apart
<1>3. pcb[p] \in PCB /\ pcb[p].prio \in Nat
  BY <1>1 DEF PCB
<1>4. pcb' = [[pcb EXCEPT ![p] = pcb[p]] EXCEPT ![p].state = "READY"]
  BY <1>1 DEF SioWake, Schedule
<1>5. /\ sleep' = sleep \ {p} /\ reading' = reading \ {p}
      /\ ready' = Enqueue(ready, p, pcb[p].prio)
      /\ UNCHANGED <<waiting, zombie, pools>>
  BY <1>2 DEF SioWake, Schedule
<1>6. SafeNow' /\ \A c \in Slots : Outside(c) => Outside(c)'
  BY <1>1, <1>2, <1>3, <1>4, <1>5, Wake
<1>7. Outside(current)'
  BY <1>1, <1>6 DEF SioWake, Outside
<1>8. Rest
  BY <1>1, <1>7 DEF SioWake, Rest, IInv
<1> QED BY <1>6, <1>8, FromRest

(***************************************************************************)
(* _dispatch: what it finds in a ready queue is READY or KILLED.           *)
(***************************************************************************)
LEMMA DispatchRunStep == ASSUME IInv, DispatchRun PROVE IInv'
<1>1. SafeNow /\ pcb \in [Slots -> PCB]
  BY DEF IInv, SafeNow, Safe, Types
<1>2. PICK i \in Levels :
        /\ ready[i] # <<>>
        /\ pcb[Head(ready[i])].state # "KILLED"
        /\ current' = Head(ready[i])
        /\ ready' = Popped(i)
        /\ IF pcb[Head(ready[i])].state = "READY"
           THEN pcb' = [pcb EXCEPT ![Head(ready[i])].state = "RUNNING"] /\ mode' = "user"
           ELSE mode' = "non-ready" /\ UNCHANGED pcb
  BY DEF DispatchRun, First
<1> DEFINE h == Head(ready[i])
           r == [pcb[h] EXCEPT !.state = "RUNNING"]
<1>3. h \in Slots
  BY <1>1, <1>2, PoppedOK DEF SafeNow, Safe, Types
<1>4. r \in PCB /\ r.pid = pcb[h].pid /\ r.stack = pcb[h].stack /\ r.state = "RUNNING"
  BY <1>1, <1>3 DEF PCB, States
<1>5. [pcb EXCEPT ![h].state = "RUNNING"] = [pcb EXCEPT ![h] = r]
  BY <1>1, <1>3
<1> HIDE DEF r
<1>6. /\ pcb[h].state \in {"READY", "KILLED"}
      /\ h \notin RangeOf(pcb_avail) \cup Occupied(Popped(i)) \cup sleep \cup reading \cup waiting \cup zombie
      /\ Safe([pcb EXCEPT ![h] = r], Popped(i), pcb_avail, stack_avail,
              sleep, reading, waiting, zombie, next_pid)
  BY <1>1, <1>2, <1>4, PopSafe
<1>7. pcb' = [pcb EXCEPT ![h] = r] /\ mode' = "user" /\ ready' = Popped(i) /\ current' = h
  BY <1>2, <1>5, <1>6
<1>8. UNCHANGED <<sleep, reading, waiting, zombie, pools, system_time, incount>>
  BY DEF DispatchRun
<1> HIDE DEF h
<1>9. SafeNow'
  BY <1>6, <1>7, <1>8 DEF SafeNow, pools
<1>10. Rest
  BY <1>3, <1>6, <1>7, <1>8 DEF Rest, IInv, Outside, Modes, pools
<1> QED BY <1>9, <1>10, FromRest

(***************************************************************************)
(* _dispatch zombifies the killed process it finds.                        *)
(***************************************************************************)
LEMMA DispatchKilledStep == ASSUME IInv, DispatchKilled PROVE IInv'
<1>1. SafeNow /\ pcb \in [Slots -> PCB]
  BY DEF IInv, SafeNow, Safe, Types
<1>2. PICK i \in Levels :
        /\ ready[i] # <<>>
        /\ pcb[Head(ready[i])].state = "KILLED"
        /\ current' = Head(ready[i])
        /\ Zombify(pcb, Popped(i), Head(ready[i]))
  BY DEF DispatchKilled, First
<1> DEFINE h == Head(ready[i])
<1>3. h \in Slots
  BY <1>1, <1>2, PoppedOK DEF SafeNow, Safe, Types
<1>4. pcb[h] \in PCB /\ [pcb EXCEPT ![h] = pcb[h]] = pcb
  BY <1>1, <1>3
<1>5. /\ h \notin RangeOf(pcb_avail) \cup Occupied(Popped(i)) \cup sleep \cup reading \cup waiting \cup zombie
      /\ Safe([pcb EXCEPT ![h] = pcb[h]], Popped(i), pcb_avail, stack_avail,
              sleep, reading, waiting, zombie, next_pid)
  BY <1>1, <1>2, <1>4, PopSafe
<1>6. Zombify(pcb, Popped(i), h) /\ current' = h
  BY <1>2
<1> HIDE DEF h
<1>7. SafeNow' /\ mode' \in {"no process parent", "dispatch"}
  BY <1>3, <1>4, <1>5, <1>6, ZombifySafe
<1>8. Rest
  BY <1>3, <1>6, <1>7 DEF DispatchKilled, Rest, IInv, Modes, Panics
<1> QED BY <1>7, <1>8, FromRest

(***************************************************************************)
(* Steps that touch no PCB and no queue.                                   *)
(***************************************************************************)
LEMMA SettledStep ==
  ASSUME IInv, UNCHANGED <<pcb, current, queues, pools>>,
         system_time' \in 0..(TIME_MOD - 1),
         incount' \in 0..BUF_SIZE,
         \/ mode' = mode
         \/ mode = "user" /\ mode' = "clock"
         \/ mode' \in {"dispatch", "all queues empty"}
  PROVE  IInv'
<1>1. SafeNow'
  BY DEF IInv, SafeNow, queues, pools
<1>2. Outside(current) => Outside(current)'
  BY DEF Outside, queues, pools
<1>3. Rest
  BY <1>2 DEF IInv, Rest, Modes, Panics
<1> QED BY <1>1, <1>3, FromRest

(***************************************************************************)
(* Calls and interrupts that change a counter or the mode and nothing      *)
(* else.                                                                   *)
(***************************************************************************)
LEMMA CounterStep ==
  ASSUME IInv,
         \/ \E t \in Times : SetTime(t)
         \/ ReadcNow \/ Yield \/ ClockTick \/ SioStore \/ DispatchEmpty
         \/ UNCHANGED vars
  PROVE  IInv'
<1>1. system_time \in 0..(TIME_MOD - 1) /\ incount \in 0..BUF_SIZE /\ BUF_SIZE \in Nat
      /\ TIME_MOD \in Nat \ {0}
  BY KernelAssumption DEF IInv
<1>2. CASE \E t \in Times : SetTime(t)
  BY <1>1, <1>2, KernelAssumption, SettledStep DEF SetTime
<1>3. CASE ReadcNow
  BY <1>1, <1>3, SettledStep DEF ReadcNow
<1>4. CASE Yield
  BY <1>1, <1>4, SettledStep DEF Yield, ThenDispatch
<1>5. CASE ClockTick
  <2>1. system_time + 1 \in Nat
    BY <1>1
  <2>2. system_time' \in 0..(TIME_MOD - 1)
    BY <1>1, <1>5, <2>1, ModRange DEF ClockTick
  <2> QED BY <1>1, <1>5, <2>2, SettledStep DEF ClockTick
<1>6. CASE SioStore
  BY <1>1, <1>6, SettledStep DEF SioStore
<1>7. CASE DispatchEmpty
  BY <1>1, <1>7, SettledStep DEF DispatchEmpty
<1>8. CASE UNCHANGED vars
  BY <1>1, <1>8, SettledStep DEF vars
<1> QED BY <1>2, <1>3, <1>4, <1>5, <1>6, <1>7, <1>8

-----------------------------------------------------------------------------
(***************************************************************************)
(* The invariant.                                                          *)
(***************************************************************************)

(***************************************************************************)
(* What _init sets up: PCB and stack 1 belong to init, the rest is free.   *)
(***************************************************************************)
LEMMA FreeList ==
  ASSUME NEW n \in Nat \ {0}
  PROVE  LET s == [i \in 1..(n - 1) |-> i + 1]
         IN  s \in Seq(1..n) /\ RangeOf(s) = (1..n) \ {1} /\ NoDuplicates(s)
<1> DEFINE s == [i \in 1..(n - 1) |-> i + 1]
<1>1. \A i \in 1..(n - 1) : i + 1 \in 1..n
  OBVIOUS
<1>2. s \in Seq(1..n)
  <2>1. n - 1 \in Nat /\ s \in [1..(n - 1) -> 1..n]
    BY <1>1
  <2> QED BY <2>1, SeqDef
<1>3. RangeOf(s) = (1..n) \ {1}
  <2>1. RangeOf(s) \subseteq (1..n) \ {1}
    BY DEF RangeOf
  <2>2. ASSUME NEW x \in (1..n) \ {1} PROVE x \in RangeOf(s)
    <3>1. x - 1 \in 1..(n - 1) /\ s[x - 1] = x
      BY <2>2
    <3> QED BY <3>1 DEF RangeOf
  <2> QED BY <2>1, <2>2
<1>4. NoDuplicates(s)
  BY DEF NoDuplicates
<1> QED BY <1>2, <1>3, <1>4

(***************************************************************************)
(* The system _init leaves satisfies the invariant.                        *)
(***************************************************************************)
LEMMA InitIInv == Init => IInv
<1> SUFFICES ASSUME Init PROVE IInv
  OBVIOUS
<1> DEFINE first == [ClearedPcb EXCEPT !.pid = PID_INIT, !.ppid = PID_INIT,
                                       !.prio = PRIO_MAXIMUM, !.stack = 1]
<1>1. /\ N_PCBS \in Nat \ {0} /\ N_STACKS \in Nat \ {0} /\ BUF_SIZE \in Nat
      /\ TIME_MOD \in Nat \ {0} /\ 1 \in Slots /\ 1 \in Stacks
  BY KernelAssumption DEF Slots, Stacks
<1>2. ClearedPcb \in PCB /\ ClearedPcb.pid = 0 /\ ClearedPcb.stack = 0 /\ ClearedPcb.state = "FREE"
  BY DEF ClearedPcb, PCB, States, NULL
<1>3. first \in PCB /\ first.pid = 1 /\ first.stack = 1 /\ first.state = "FREE" /\ first # ClearedPcb
  <2>1. first \in PCB /\ first.pid = 1 /\ first.stack = 1 /\ first.state = ClearedPcb.state
    BY <1>1, <1>2 DEF PCB, PID_INIT, PRIO_MAXIMUM
  <2> HIDE DEF first
  <2> QED BY <1>2, <2>1
<1>4. pcb = [p \in Slots |-> IF p = 1 THEN first ELSE ClearedPcb]
  BY DEF Init
<1> HIDE DEF first
<1>5. /\ pcb \in [Slots -> PCB] /\ pcb[1] = first
      /\ \A p \in Slots \ {1} : pcb[p] = ClearedPcb
  BY <1>1, <1>2, <1>3, <1>4
<1>6. pcb_avail \in Seq(Slots) /\ RangeOf(pcb_avail) = Slots \ {1} /\ NoDuplicates(pcb_avail)
  BY <1>1, FreeList DEF Init, Slots
<1>7. stack_avail \in Seq(Stacks) /\ RangeOf(stack_avail) = Stacks \ {1} /\ NoDuplicates(stack_avail)
  BY <1>1, FreeList DEF Init, Stacks
<1>8. ready \in ReadyType /\ \A i \in Levels : ready[i] = <<>>
  BY EmptySeq DEF Init, ReadyType
<1>9. Occupied(ready) = {} /\ ReadyOK(ready)
  <2>1. RangeOf(<<>>) = {} /\ NoDuplicates(<<>>)
    BY DEF RangeOf, NoDuplicates
  <2> QED BY <1>8, <2>1 DEF Occupied, ReadyOK
<1>10. /\ sleep = {} /\ reading = {} /\ waiting = {} /\ zombie = {} /\ next_pid = 2
       /\ current = 1 /\ system_time = 0 /\ incount = 0 /\ mode = "user"
  BY DEF Init, PID_INIT
<1>11. Owned(pcb, stack_avail)
  BY <1>1, <1>2, <1>3, <1>5, <1>7 DEF Owned, Stacks, NULL
<1>12. Named(pcb, next_pid)
  BY <1>2, <1>3, <1>5, <1>10 DEF Named
<1>13. Faithful(pcb, RangeOf(pcb_avail), Occupied(ready), sleep, waiting, zombie)
  BY <1>2, <1>3, <1>5, <1>6, <1>9, <1>10 DEF Faithful
<1>14. Apart(RangeOf(pcb_avail), Occupied(ready), sleep, reading, waiting, zombie)
  BY <1>9, <1>10 DEF Apart
<1>15. SafeNow
  BY <1>5, <1>6, <1>7, <1>8, <1>9, <1>10, <1>11, <1>12, <1>13, <1>14 DEF SafeNow, Safe, Types
<1>16. Outside(current)
  BY <1>6, <1>9, <1>10 DEF Outside
<1> QED BY <1>1, <1>10, <1>15, <1>16 DEF IInv, Modes

(***************************************************************************)
(* Every system call, interrupt and iteration of the dispatch loop keeps   *)
(* the invariant.                                                          *)
(***************************************************************************)
LEMMA StepIInv == IInv /\ [Next]_vars => IInv'
<1> SUFFICES ASSUME IInv, [Next]_vars PROVE IInv'
  OBVIOUS
<1>1. ASSUME NEW x \in Prios, SetPrio(x) \/ Exec(x) PROVE IInv'
  <2>1. x \in Nat
    BY KernelAssumption
  <2> QED BY <1>1, <2>1, SetPrioStep, ExecStep
<1>2. ASSUME NEW ticks \in Ticks, Sleep(ticks) PROVE IInv'
  BY <1>2, SleepStep
<1>3. CASE Fork \/ ForkNoStack
  BY <1>3, ForkStep, ForkNoStackStep
<1>4. CASE ReadcBlock
  BY <1>4, ReadcBlockStep
<1>5. ASSUME NEW x \in 1..PID_MAX, KillOther(x) PROVE IInv'
  BY <1>5, KillOtherStep
<1>6. CASE KillSelf
  BY <1>6, KillSelfStep
<1>7. ASSUME NEW x \in 0..PID_MAX, WaitReap(x) \/ WaitBlock(x) PROVE IInv'
  BY <1>7, WaitReapStep, WaitBlockStep
<1>8. ASSUME NEW code \in ExitCodes, Exit(code) PROVE IInv'
  BY <1>8, ExitStep
<1>9. ASSUME NEW p \in Slots, ClockWake(p) \/ SioWake(p) PROVE IInv'
  BY <1>9, ClockWakeStep, SioWakeStep
<1>10. CASE ClockPreempt
  BY <1>10, ClockPreemptStep
<1>11. CASE DispatchRun \/ DispatchKilled
  BY <1>11, DispatchRunStep, DispatchKilledStep
<1>12. CASE \/ \E t \in Times : SetTime(t)
            \/ ReadcNow \/ Yield \/ ClockTick \/ SioStore \/ DispatchEmpty
            \/ UNCHANGED vars
  BY <1>12, CounterStep
<1>13. CASE Panicked
  BY <1>13, CounterStep DEF Panicked
<1> QED
  BY <1>1, <1>2, <1>3, <1>4, <1>5, <1>6, <1>7, <1>8, <1>9, <1>10, <1>11, <1>12, <1>13
     DEF Next, SyscallNext, ClockNext, SioNext, Dispatch

(***************************************************************************)
(* The inductive invariant holds in every state: whatever programs call    *)
(* and whenever the clock ticks or a character comes in.                   *)
(***************************************************************************)
THEOREM Invariance == Spec => []IInv
BY InitIInv, StepIInv, PTL DEF Spec

(***************************************************************************)
(* Type correctness.  It is not inductive: that the stack a handler frees  *)
(* is a stack needs the ownership of stacks.                               *)
(***************************************************************************)
THEOREM TypeCorrect == Spec => []TypeOK
<1>1. IInv => TypeOK
  BY DEF IInv, SafeNow, Safe, Types, TypeOK, ReadyType
<1> QED BY <1>1, Invariance, PTL

(***************************************************************************)
(* A PCB is in at most one queue, the process on the CPU in none.          *)
(***************************************************************************)
THEOREM OneQueue == Spec => []InOneQueue
<1>1. IInv => InOneQueue
  <2> SUFFICES ASSUME IInv PROVE InOneQueue
    OBVIOUS
  <2>1. /\ NoDuplicates(pcb_avail) /\ ReadyOK(ready)
        /\ Apart(RangeOf(pcb_avail), Occupied(ready), sleep, reading, waiting, zombie)
        /\ mode \in {"user", "clock"} => Outside(current)
    BY DEF IInv, SafeNow, Safe
  <2>2. ReadySlots = Occupied(ready)
    BY DEF ReadySlots, Occupied
  <2>3. /\ Places[0] = RangeOf(pcb_avail) /\ Places[1] = sleep /\ Places[2] = reading
        /\ Places[3] = waiting /\ Places[4] = zombie
    BY DEF Places
  <2>4. 0..4 = {0, 1, 2, 3, 4}
    OBVIOUS
  <2>5. \A k \in 0..4 : Places[k] \cap ReadySlots = {}
    BY <2>1, <2>2, <2>3, <2>4 DEF Apart
  <2>6. \A k, l \in 0..4 : k # l => Places[k] \cap Places[l] = {}
    BY <2>1, <2>3, <2>4 DEF Apart
  <2>7. mode \in {"user", "clock"} =>
          current \notin ReadySlots \cup UNION {Places[k] : k \in 0..4}
    BY <2>1, <2>2, <2>3, <2>4 DEF Outside
  <2> QED BY <2>1, <2>5, <2>6, <2>7 DEF InOneQueue, ReadyOK
<1> QED BY <1>1, Invariance, PTL

(***************************************************************************)
(* The state of a process and the queue it is in agree.                    *)
(***************************************************************************)
THEOREM StatesAgree == Spec => []StateMatchesQueue
<1>1. ReadySlots = Occupied(ready)
  BY DEF ReadySlots, Occupied
<1>2. IInv => StateMatchesQueue
  BY <1>1 DEF IInv, SafeNow, Safe, Faithful, StateMatchesQueue
<1> QED BY <1>2, Invariance, PTL

(***************************************************************************)
(* No stack is leaked, shared or freed twice.                              *)
(***************************************************************************)
THEOREM StacksOwned == Spec => []StackOwnership
<1>1. IInv => StackOwnership
  BY DEF IInv, SafeNow, Safe, Owned, StackOwnership
<1> QED BY <1>1, Invariance, PTL

(***************************************************************************)
(* No two processes share a PID, and no PID is used again.                 *)
(***************************************************************************)
THEOREM PidsNameOne == Spec => []PidsUnique
<1>1. IInv => PidsUnique
  BY DEF IInv, SafeNow, Safe, Named, PidsUnique
<1> QED BY <1>1, Invariance, PTL

(***************************************************************************)
(* The panics of _dispatch, _zombify and _sys_wait that stand for a queue  *)
(* and a state that disagree are never reached.                            *)
(***************************************************************************)
THEOREM NoQueuePanics == Spec => []OnlyDesignPanics
<1>1. IInv => OnlyDesignPanics
  BY DEF IInv, OnlyDesignPanics
<1> QED BY <1>1, Invariance, PTL

-----------------------------------------------------------------------------
(***************************************************************************)
(* Zombies and those who wait for them.                                    *)
(***************************************************************************)

(***************************************************************************)
(* Only _sys_wait takes a process off the zombie queue, and it frees it.   *)
(***************************************************************************)
THEOREM ZombiesFreed == Spec => ZombiesOnlyFreed
<1> DEFINE Kept == \A p \in zombie : p \in zombie' \/ pcb'[p] = ClearedPcb
<1>1. IInv /\ [Next]_vars => Kept
  <2> SUFFICES ASSUME IInv, [Next]_vars PROVE Kept
    OBVIOUS
  <2>1. ASSUME NEW x \in Nat, WaitReap(x) PROVE Kept
    <3>1. pcb \in [Slots -> PCB] /\ zombie \subseteq Slots
      BY DEF IInv, SafeNow, Safe, Types
    <3>2. PICK p \in Slots : Reap(p)
      BY <2>1, KernelAssumption DEF WaitReap, AnyChild, ZombieChildren, Find, Slots
    <3> QED BY <3>1, <3>2 DEF Reap, Release
  <2>2. ASSUME NEW t, NEW rq, NEW p, Zombify(t, rq, p) PROVE Kept
    BY <2>2 DEF Zombify
  <2>3. ASSUME NEW x \in Prios, SetPrio(x) \/ Exec(x) PROVE Kept
    BY <2>3 DEF SetPrio, Exec, queues
  <2>4. ASSUME NEW x, SetTime(x) \/ Sleep(x) \/ KillOther(x) \/ WaitBlock(x) PROVE Kept
    BY <2>4 DEF SetTime, Sleep, KillOther, WaitBlock, Block, queues
  <2>5. CASE Fork \/ ForkNoStack \/ ReadcNow \/ ReadcBlock \/ KillSelf \/ Yield
    BY <2>5 DEF Fork, ForkNoStack, ReadcNow, ReadcBlock, KillSelf, Yield, queues
  <2>6. ASSUME NEW code \in ExitCodes, Exit(code) PROVE Kept
    BY <2>2, <2>6 DEF Exit
  <2>7. CASE ClockTick \/ ClockPreempt \/ SioStore
    BY <2>7 DEF ClockTick, ClockPreempt, SioStore, queues
  <2>8. ASSUME NEW p \in Slots, ClockWake(p) \/ SioWake(p) PROVE Kept
    BY <2>8 DEF ClockWake, SioWake
  <2>9. CASE DispatchRun \/ DispatchEmpty
    BY <2>9 DEF DispatchRun, DispatchEmpty, queues
  <2>10. CASE DispatchKilled
    BY <2>2, <2>10 DEF DispatchKilled
  <2>11. CASE UNCHANGED vars \/ Panicked
    BY <2>11 DEF vars, queues, Panicked
  <2> HIDE DEF Kept
  <2> QED BY <2>1, <2>3, <2>4, <2>5, <2>6, <2>7, <2>8, <2>9, <2>10, <2>11
            DEF Next, SyscallNext, ClockNext, SioNext, Dispatch
<1>2. IInv /\ [Next]_vars => [Kept]_vars
  BY <1>1
<1> QED BY <1>2, Invariance, PTL DEF Spec, ZombiesOnlyFreed

(***************************************************************************)
(* readc and the serial interrupt keep the buffer empty while a reader     *)
(* waits.  NoCharacterKept needs nothing else to be inductive.             *)
(***************************************************************************)
LEMMA KeptStep == NoCharacterKept /\ [Next]_vars => NoCharacterKept'
<1> SUFFICES ASSUME NoCharacterKept, [Next]_vars PROVE NoCharacterKept'
  OBVIOUS
<1>1. CASE ReadcBlock
  BY <1>1 DEF ReadcBlock, NoCharacterKept
<1>2. CASE ReadcNow
  <2>1. reading' = reading /\ incount > 0
    BY <1>2 DEF ReadcNow, queues
  <2>2. incount # 0
    BY <2>1
  <2> QED BY <2>1, <2>2 DEF NoCharacterKept
<1>3. CASE SioStore
  BY <1>3 DEF SioStore, NoCharacterKept, queues
<1>4. ASSUME NEW p \in Slots, SioWake(p) PROVE NoCharacterKept'
  BY <1>4 DEF SioWake, NoCharacterKept
<1>5. ASSUME UNCHANGED <<reading, incount>> PROVE NoCharacterKept'
  BY <1>5 DEF NoCharacterKept
<1>6. ASSUME NEW t, NEW rq, NEW p, Zombify(t, rq, p) PROVE reading' = reading
  BY <1>6 DEF Zombify
<1>7. ASSUME NEW x \in Prios, SetPrio(x) \/ Exec(x) PROVE NoCharacterKept'
  BY <1>5, <1>7 DEF SetPrio, Exec, queues
<1>8. ASSUME NEW ticks \in Ticks, Sleep(ticks) PROVE NoCharacterKept'
  BY <1>5, <1>8 DEF Sleep
<1>9. ASSUME NEW x \in 1..PID_MAX, KillOther(x) PROVE NoCharacterKept'
  BY <1>5, <1>9 DEF KillOther, queues
<1>10. ASSUME NEW x \in 0..PID_MAX, WaitReap(x) \/ WaitBlock(x) PROVE NoCharacterKept'
  BY <1>5, <1>10 DEF WaitReap, WaitBlock, Reap, Block
<1>11. ASSUME NEW code \in ExitCodes, Exit(code) PROVE NoCharacterKept'
  BY <1>5, <1>6, <1>11 DEF Exit
<1>12. ASSUME NEW p \in Slots, ClockWake(p) PROVE NoCharacterKept'
  BY <1>5, <1>12 DEF ClockWake
<1>13. CASE DispatchKilled
  BY <1>5, <1>6, <1>13 DEF DispatchKilled
<1>14. CASE Fork \/ ForkNoStack \/ KillSelf \/ Yield \/ ClockTick \/ ClockPreempt
  BY <1>5, <1>14 DEF Fork, ForkNoStack, KillSelf, Yield, ClockTick, ClockPreempt, queues
<1>15. CASE \/ \E t \in Times : SetTime(t)
           \/ DispatchRun \/ DispatchEmpty \/ Panicked \/ UNCHANGED vars
  BY <1>5, <1>15 DEF SetTime, DispatchRun, DispatchEmpty, Panicked, vars, queues
<1> QED
  BY <1>1, <1>2, <1>3, <1>4, <1>7, <1>8, <1>9, <1>10, <1>11, <1>12, <1>13, <1>14, <1>15
     DEF Next, SyscallNext, ClockNext, SioNext, Dispatch

(***************************************************************************)
(* While a process blocks in readc the input buffer is empty.              *)
(***************************************************************************)
THEOREM ReadersGoFirst == Spec => []NoCharacterKept
<1>1. Init => NoCharacterKept
  BY DEF Init, NoCharacterKept
<1> QED BY <1>1, KeptStep, PTL DEF Spec

-----------------------------------------------------------------------------
(***************************************************************************)
(* No wakeup is lost between wait() and exit(), for any number of          *)
(* processes.  Two handlers can make a process wait beside its zombie:     *)
(* wait(), which blocks the caller, and _zombify, which makes a zombie.    *)
(* All others leave no new waiter, no new zombie, and change a zombie's    *)
(* parent to init at most.                                                 *)
(***************************************************************************)

\* WaitsInVain and NoLostWakeup, of a table.
InVain(t, p) ==
  /\ t[p].state = "WAITING"
  /\ \E q \in Slots : /\ t[q].state = "ZOMBIE"
                      /\ t[q].ppid = t[p].pid
                      /\ t[p].arg \in {0, t[q].pid}

NoneInVain(t) == \A p \in Slots : t[p].pid # PID_INIT => ~ InVain(t, p)

\* From table t to table u: no new waiter, no new zombie, none adopted but by init.
Quiet(t, u) ==
  \A p \in Slots :
    /\ u[p].state = "WAITING" =>
         t[p].state = "WAITING" /\ u[p].arg = t[p].arg /\ u[p].pid = t[p].pid
    /\ u[p].state = "ZOMBIE" =>
         t[p].state = "ZOMBIE" /\ u[p].ppid \in {t[p].ppid, PID_INIT} /\ u[p].pid = t[p].pid

(***************************************************************************)
(* NoLostWakeup is NoneInVain of the process table.                        *)
(***************************************************************************)
LEMMA SameProperty == /\ NoLostWakeup <=> NoneInVain(pcb)
                      /\ NoLostWakeup' <=> NoneInVain(pcb')
BY DEF NoLostWakeup, WaitsInVain, NoneInVain, InVain

(***************************************************************************)
(* A handler that makes no waiter and no zombie loses no wakeup.           *)
(***************************************************************************)
LEMMA QuietKeeps ==
  ASSUME NEW t, NEW u, NoneInVain(t), Quiet(t, u)
  PROVE  NoneInVain(u)
<1> SUFFICES ASSUME NEW p \in Slots, u[p].pid # PID_INIT, u[p].state = "WAITING",
                    NEW q \in Slots, u[q].state = "ZOMBIE", u[q].ppid = u[p].pid,
                    u[p].arg \in {0, u[q].pid}
             PROVE  FALSE
  BY DEF NoneInVain, InVain
<1>1. t[p].state = "WAITING" /\ t[p].arg = u[p].arg /\ t[p].pid = u[p].pid
  BY DEF Quiet
<1>2. t[q].state = "ZOMBIE" /\ t[q].ppid = u[q].ppid /\ t[q].pid = u[q].pid
  BY DEF Quiet
<1> QED BY <1>1, <1>2 DEF NoneInVain, InVain

(***************************************************************************)
(* A change of one process that ends neither WAITING nor ZOMBIE is quiet.  *)
(***************************************************************************)
LEMMA QuietExcept ==
  ASSUME NEW t \in [Slots -> PCB], NEW p \in Slots, NEW r,
         r.state \notin {"WAITING", "ZOMBIE"}
  PROVE  Quiet(t, [t EXCEPT ![p] = r])
BY DEF Quiet

(***************************************************************************)
(* _zombify of a process that does not wait: the one parent it can have is *)
(* asked what it waits for before the process becomes a zombie.            *)
(***************************************************************************)
LEMMA ZombifyKeeps ==
  ASSUME NEW t \in [Slots -> PCB], NEW rq, NEW p \in Slots, NEW n,
         Named(t, n), NoneInVain(t), Zombify(t, rq, p)
  PROVE  NoneInVain(pcb')
<1>1. CASE pcb' = t
  BY <1>1
<1>2. ASSUME NEW q \in Slots, Release([t EXCEPT ![q].state = "READY", ![q].arg = 0], p)
      PROVE  NoneInVain(pcb')
  <2> DEFINE r == [t[q] EXCEPT !.state = "READY", !.arg = 0]
             u == [t EXCEPT ![q] = r]
  <2>1. u = [t EXCEPT ![q].state = "READY", ![q].arg = 0]
    OBVIOUS
  <2>2. r \in PCB /\ r.state = "READY"
    BY DEF PCB, States
  <2>3. u \in [Slots -> PCB] /\ pcb' = [u EXCEPT ![p] = ClearedPcb]
    BY <1>2, <2>1, <2>2 DEF Release
  <2> HIDE DEF r
  <2>4. NoneInVain(u)
    BY <2>2, QuietExcept, QuietKeeps
  <2> HIDE DEF u
  <2>5. ClearedPcb.state \notin {"WAITING", "ZOMBIE"}
    BY DEF ClearedPcb
  <2> QED BY <2>3, <2>4, <2>5, QuietExcept, QuietKeeps
<1>3. ASSUME NEW q \in Find(t, t[p].ppid), ~ Wants(t, q, p),
             pcb' = [t EXCEPT ![p].state = "ZOMBIE"]
      PROVE  NoneInVain(pcb')
  <2> SUFFICES ASSUME NEW a \in Slots, pcb'[a].pid # PID_INIT, pcb'[a].state = "WAITING",
                      NEW z \in Slots, pcb'[z].state = "ZOMBIE", pcb'[z].ppid = pcb'[a].pid,
                      pcb'[a].arg \in {0, pcb'[z].pid}
               PROVE  FALSE
    BY DEF NoneInVain, InVain
  <2>1. a # p /\ pcb'[a] = t[a]
    BY <1>3
  <2>2. CASE z # p
    BY <1>3, <2>1, <2>2 DEF NoneInVain, InVain
  <2>3. CASE z = p
    <3>1. t[p].ppid = t[a].pid /\ t[a].arg \in {0, t[p].pid} /\ t[a].state = "WAITING"
      BY <1>3, <2>1, <2>3 DEF PCB
    <3>2. q \in Slots /\ t[q].pid = t[a].pid
      BY <1>3, <3>1 DEF Find
    <3>3. t[a].pid # 0
      <4>1. t[a] # ClearedPcb
        BY <3>1 DEF ClearedPcb
      <4> QED BY <4>1 DEF Named
    <3>4. q = a
      BY <3>2, <3>3 DEF Named
    <3> QED BY <1>3, <3>1, <3>4 DEF Wants
  <2> QED BY <2>2, <2>3
<1> QED
  BY <1>1, <1>2, <1>3 DEF Zombify, Find

(***************************************************************************)
(* wait(): the search has looked at every zombie the caller could be       *)
(* waiting for.  A PID names one process, so the process found is it.      *)
(***************************************************************************)
LEMMA WaitBlockKeeps ==
  ASSUME IInv, NoneInVain(pcb), NEW x \in Nat, WaitBlock(x)
  PROVE  NoneInVain(pcb')
<1>1. /\ current \in Slots /\ pcb \in [Slots -> PCB] /\ Named(pcb, next_pid)
      /\ pcb[current].state # "ZOMBIE"
  BY CurrentFacts DEF WaitBlock, Syscall, SafeNow, Safe
<1>2. PICK f \in IF x = 0 THEN AnyChild ELSE Find(pcb, x) : pcb[f].state # "ZOMBIE"
  BY DEF WaitBlock
<1>3. pcb' = [pcb EXCEPT ![current].state = "WAITING", ![current].arg = x]
  BY DEF WaitBlock, Block
<1> SUFFICES ASSUME NEW a \in Slots, pcb'[a].pid # PID_INIT, pcb'[a].state = "WAITING",
                    NEW z \in Slots, pcb'[z].state = "ZOMBIE", pcb'[z].ppid = pcb'[a].pid,
                    pcb'[a].arg \in {0, pcb'[z].pid}
             PROVE  FALSE
  BY DEF NoneInVain, InVain
<1>4. z # current /\ pcb'[z] = pcb[z]
  BY <1>1, <1>3
<1>5. CASE a # current
  BY <1>1, <1>3, <1>4, <1>5 DEF NoneInVain, InVain
<1>6. CASE a = current
  <2>1. pcb[z].state = "ZOMBIE" /\ pcb[z].ppid = pcb[current].pid /\ x \in {0, pcb[z].pid}
    BY <1>1, <1>3, <1>4, <1>6 DEF PCB
  <2>2. CASE x = 0
    <3>1. z \in ZombieChildren
      BY <2>1 DEF ZombieChildren
    <3>2. f \in ZombieChildren
      BY <1>2, <2>2, <3>1 DEF AnyChild
    <3> QED BY <1>2, <3>2 DEF ZombieChildren
  <2>3. CASE x # 0
    <3>1. f \in Slots /\ pcb[f].pid = x /\ pcb[z].pid = x
      BY <1>2, <2>1, <2>3 DEF Find
    <3>2. f = z
      BY <1>1, <2>3, <3>1 DEF Named
    <3> QED BY <1>2, <2>1, <3>2
  <2> QED BY <2>2, <2>3
<1> QED BY <1>5, <1>6

(***************************************************************************)
(* exit(): the children go to init before the process is zombified.        *)
(***************************************************************************)
LEMMA ExitKeeps ==
  ASSUME IInv, NoneInVain(pcb), NEW code \in ExitCodes, Exit(code)
  PROVE  NoneInVain(pcb')
<1> DEFINE t == ExitTable(code)
<1>1. /\ current \in Slots /\ pcb \in [Slots -> PCB] /\ Named(pcb, next_pid)
      /\ pcb[current].state # "WAITING" /\ pcb[current].pid \in Nat \ {0}
  BY CurrentFacts DEF Exit, Syscall, SafeNow, Safe
<1>2. code \in Nat /\ PID_INIT \in Nat
  BY KernelAssumption DEF PID_INIT
<1>3. \A p \in Slots : /\ t[p] \in PCB
                       /\ t[p].state = pcb[p].state /\ t[p].pid = pcb[p].pid
                       /\ t[p].ppid \in {pcb[p].ppid, PID_INIT}
                       /\ p # current => t[p].arg = pcb[p].arg
                       /\ pcb[p] = ClearedPcb => t[p] = ClearedPcb
  <2> SUFFICES ASSUME NEW p \in Slots
               PROVE  /\ t[p] \in PCB
                      /\ t[p].state = pcb[p].state /\ t[p].pid = pcb[p].pid
                      /\ t[p].ppid \in {pcb[p].ppid, PID_INIT}
                      /\ p # current => t[p].arg = pcb[p].arg
                      /\ pcb[p] = ClearedPcb => t[p] = ClearedPcb
    OBVIOUS
  <2> DEFINE x == IF pcb[p].ppid = pcb[current].pid THEN PID_INIT ELSE pcb[p].ppid
             y == IF p = current THEN code ELSE pcb[p].arg
  <2>1. pcb[p] \in PCB /\ x \in Nat /\ y \in Nat
    BY <1>1, <1>2 DEF PCB
  <2>2. t[p] = [pcb[p] EXCEPT !.ppid = x, !.arg = y]
    BY DEF ExitTable
  <2>3. pcb[p] = ClearedPcb => x = pcb[p].ppid /\ y = pcb[p].arg
    BY <1>1 DEF ClearedPcb
  <2>4. x \in {pcb[p].ppid, PID_INIT} /\ (p # current => y = pcb[p].arg)
    OBVIOUS
  <2> HIDE DEF x, y, t
  <2> QED BY <2>1, <2>2, <2>3, <2>4 DEF PCB
<1>4. t \in [Slots -> PCB]
  BY <1>3 DEF ExitTable
<1>5. Zombify(t, ready, current)
  BY DEF Exit
<1> HIDE DEF t
<1>6. Quiet(pcb, t)
  BY <1>1, <1>3 DEF Quiet
<1>7. Named(t, next_pid)
  <2>1. \A p \in Slots : t[p] = ClearedPcb => pcb[p] = ClearedPcb
    <3>1. ClearedPcb.pid = 0
      BY DEF ClearedPcb
    <3> QED BY <1>1, <1>3, <3>1 DEF Named
  <2> QED BY <1>1, <1>3, <2>1 DEF Named
<1> QED BY <1>1, <1>4, <1>5, <1>6, <1>7, QuietKeeps, ZombifyKeeps

(***************************************************************************)
(* A handler that ends in _schedule of a process makes that one READY.     *)
(***************************************************************************)
LEMMA ScheduleKeeps ==
  ASSUME NEW t \in [Slots -> PCB], NoneInVain(t), NEW p \in Slots, NEW x, Schedule(t, p, x)
  PROVE  NoneInVain(pcb')
<1> DEFINE r == [t[p] EXCEPT !.state = "READY"]
<1>1. pcb' = [t EXCEPT ![p] = r] /\ r.state = "READY"
  BY DEF Schedule, PCB
<1> HIDE DEF r
<1> QED BY <1>1, QuietExcept, QuietKeeps

(***************************************************************************)
(* Every other handler is quiet.                                           *)
(***************************************************************************)
LEMMA CurrentKeeps ==
  ASSUME IInv, NoneInVain(pcb),
         \/ \E x \in Prios : SetPrio(x) \/ Exec(x)
         \/ \E ticks \in Ticks : Sleep(ticks)
         \/ Fork \/ ReadcBlock \/ KillSelf \/ ClockPreempt
  PROVE  NoneInVain(pcb')
<1>1. mode \in {"user", "clock"}
  BY DEF SetPrio, Exec, Sleep, Fork, ReadcBlock, KillSelf, ClockPreempt, Syscall
<1>2. /\ current \in Slots /\ pcb \in [Slots -> PCB] /\ pcb[current] \in PCB
      /\ pcb[current].state \notin {"WAITING", "ZOMBIE"}
  BY <1>1, CurrentFacts
<1>3. ASSUME NEW r \in PCB, r.state \notin {"WAITING", "ZOMBIE"}
      PROVE  /\ NoneInVain([pcb EXCEPT ![current] = r])
             /\ [pcb EXCEPT ![current] = r] \in [Slots -> PCB]
  BY <1>2, <1>3, QuietExcept, QuietKeeps
<1>4. ASSUME NEW x \in Prios, SetPrio(x) PROVE NoneInVain(pcb')
  <2> DEFINE r == [pcb[current] EXCEPT !.prio = x]
  <2>1. x \in Nat
    BY KernelAssumption
  <2>2. r \in PCB /\ r.state \notin {"WAITING", "ZOMBIE"}
    BY <1>2, <2>1 DEF PCB
  <2>3. pcb' = [pcb EXCEPT ![current] = r]
    BY <1>4 DEF SetPrio
  <2> HIDE DEF r
  <2> QED BY <1>3, <2>2, <2>3
<1>5. ASSUME NEW x \in Prios, Exec(x) PROVE NoneInVain(pcb')
  <2> DEFINE r == [pcb[current] EXCEPT !.prio = x]
  <2>1. x \in Nat
    BY KernelAssumption
  <2>2. r \in PCB /\ r.state \notin {"WAITING", "ZOMBIE"}
    BY <1>2, <2>1 DEF PCB
  <2>3. Schedule([pcb EXCEPT ![current] = r], current, x)
    BY <1>5 DEF Exec
  <2> HIDE DEF r
  <2> QED BY <1>2, <1>3, <2>2, <2>3, ScheduleKeeps
<1>6. ASSUME NEW ticks \in Ticks, Sleep(ticks) PROVE NoneInVain(pcb')
  <2> DEFINE r == [pcb[current] EXCEPT !.state = "SLEEPING",
                                       !.wake = (system_time + ticks) % TIME_MOD]
  <2>1. r.state = "SLEEPING" /\ pcb' = [pcb EXCEPT ![current] = r]
    BY <1>2, <1>6 DEF Sleep, PCB
  <2> HIDE DEF r
  <2> QED BY <1>2, <2>1, QuietExcept, QuietKeeps
<1>7. CASE Fork
  <2>1. pcb_avail \in Seq(Slots) /\ pcb_avail # <<>>
    BY <1>7 DEF Fork, IInv, SafeNow, Safe, Types
  <2> DEFINE h == Head(pcb_avail)
             r == [Child EXCEPT !.state = "READY"]
  <2>2. h \in Slots
    BY <2>1, HeadTailProperties
  <2>3. pcb' = [pcb EXCEPT ![h] = r] /\ r.state = "READY"
    BY <1>2, <1>7, <2>2 DEF Fork, Schedule, Child, ClearedPcb
  <2> HIDE DEF h, r
  <2> QED BY <1>2, <2>2, <2>3, QuietExcept, QuietKeeps
<1>8. CASE ReadcBlock
  <2> DEFINE r == [pcb[current] EXCEPT !.status = BLOCKED]
  <2>1. r \in PCB /\ r.state \notin {"WAITING", "ZOMBIE"}
    BY <1>2 DEF PCB, BLOCKED
  <2>2. pcb' = [pcb EXCEPT ![current] = r]
    BY <1>8 DEF ReadcBlock
  <2> HIDE DEF r
  <2> QED BY <1>3, <2>1, <2>2
<1>9. CASE KillSelf
  <2> DEFINE r == [pcb[current] EXCEPT !.state = "KILLED"]
  <2>1. r \in PCB /\ r.state \notin {"WAITING", "ZOMBIE"}
    BY <1>2 DEF PCB, States
  <2>2. Schedule([pcb EXCEPT ![current] = r], current, pcb[current].prio)
    BY <1>9 DEF KillSelf
  <2> HIDE DEF r
  <2> QED BY <1>2, <1>3, <2>1, <2>2, ScheduleKeeps
<1>10. CASE ClockPreempt
  BY <1>2, <1>10, ScheduleKeeps DEF ClockPreempt
<1> QED BY <1>4, <1>5, <1>6, <1>7, <1>8, <1>9, <1>10

(***************************************************************************)
(* Handlers that change another process than the current one: wakeups, the *)
(* dispatcher, kill, and the clean-up of a zombie.                         *)
(***************************************************************************)
LEMMA OtherKeeps ==
  ASSUME IInv, NoneInVain(pcb),
         \/ \E p \in Slots : ClockWake(p) \/ SioWake(p)
         \/ \E x \in 1..PID_MAX : KillOther(x)
         \/ \E x \in 0..PID_MAX : WaitReap(x)
         \/ DispatchRun \/ DispatchKilled
  PROVE  NoneInVain(pcb')
<1>1. pcb \in [Slots -> PCB] /\ Named(pcb, next_pid)
  BY DEF IInv, SafeNow, Safe, Types
<1>2. ASSUME NEW p \in Slots, ClockWake(p) PROVE NoneInVain(pcb')
  <2> DEFINE r == [pcb[p] EXCEPT !.state = "READY", !.wake = 0]
  <2>1. pcb' = [pcb EXCEPT ![p] = r] /\ r.state = "READY"
    BY <1>1, <1>2 DEF ClockWake, Schedule, PCB
  <2> HIDE DEF r
  <2> QED BY <1>1, <2>1, QuietExcept, QuietKeeps
<1>3. ASSUME NEW p \in Slots, SioWake(p) PROVE NoneInVain(pcb')
  BY <1>1, <1>3, ScheduleKeeps DEF SioWake
<1>4. ASSUME NEW x \in 1..PID_MAX, KillOther(x) PROVE NoneInVain(pcb')
  <2>1. PICK p \in Slots : pcb' = [pcb EXCEPT ![p].state = "KILLED"]
    BY <1>4 DEF KillOther, Find
  <2> DEFINE r == [pcb[p] EXCEPT !.state = "KILLED"]
  <2>2. pcb' = [pcb EXCEPT ![p] = r] /\ r.state = "KILLED"
    BY <1>1, <2>1 DEF PCB
  <2> HIDE DEF r
  <2> QED BY <1>1, <2>2, QuietExcept, QuietKeeps
<1>5. ASSUME NEW x \in 0..PID_MAX, WaitReap(x) PROVE NoneInVain(pcb')
  <2>1. PICK p \in IF x = 0 THEN AnyChild ELSE Find(pcb, x) : Reap(p)
    BY <1>5 DEF WaitReap
  <2>2. CASE p \in zombie
    <3>1. p \in Slots /\ pcb' = [pcb EXCEPT ![p] = ClearedPcb]
      BY <2>1, <2>2 DEF Reap, Release, IInv, SafeNow, Safe, Types
    <3>2. ClearedPcb.state \notin {"WAITING", "ZOMBIE"}
      BY DEF ClearedPcb
    <3> QED BY <1>1, <3>1, <3>2, QuietExcept, QuietKeeps
  <2>3. CASE p \notin zombie
    BY <2>1, <2>3 DEF Reap
  <2> QED BY <2>2, <2>3
<1>6. CASE DispatchRun
  <2>1. PICK i \in Levels :
          /\ ready[i] # <<>>
          /\ IF pcb[Head(ready[i])].state = "READY"
             THEN pcb' = [pcb EXCEPT ![Head(ready[i])].state = "RUNNING"]
             ELSE UNCHANGED pcb
    BY <1>6 DEF DispatchRun, First
  <2> DEFINE h == Head(ready[i])
             r == [pcb[h] EXCEPT !.state = "RUNNING"]
  <2>2. h \in Slots
    BY <2>1, PoppedOK DEF IInv, SafeNow, Safe, Types
  <2>3. CASE pcb' = pcb
    BY <2>3
  <2>4. CASE pcb' = [pcb EXCEPT ![h].state = "RUNNING"]
    <3>1. pcb' = [pcb EXCEPT ![h] = r] /\ r.state = "RUNNING"
      BY <1>1, <2>2, <2>4 DEF PCB
    <3> HIDE DEF h, r
    <3> QED BY <1>1, <2>2, <3>1, QuietExcept, QuietKeeps
  <2> QED BY <2>1, <2>3, <2>4
<1>7. CASE DispatchKilled
  <2>1. PICK i \in Levels :
          /\ ready[i] # <<>>
          /\ Zombify(pcb, Popped(i), Head(ready[i]))
    BY <1>7 DEF DispatchKilled, First
  <2>2. Head(ready[i]) \in Slots
    BY <2>1, PoppedOK DEF IInv, SafeNow, Safe, Types
  <2> QED BY <1>1, <2>1, <2>2, ZombifyKeeps
<1> QED BY <1>2, <1>3, <1>4, <1>5, <1>6, <1>7

(***************************************************************************)
(* Every step of the kernel keeps NoLostWakeup.                            *)
(***************************************************************************)
LEMMA WakeupStep == IInv /\ NoLostWakeup /\ [Next]_vars => NoLostWakeup'
<1> SUFFICES ASSUME IInv, NoneInVain(pcb), [Next]_vars PROVE NoneInVain(pcb')
  BY SameProperty
<1>1. ASSUME NEW x \in Prios, SetPrio(x) \/ Exec(x) PROVE NoneInVain(pcb')
  BY <1>1, CurrentKeeps
<1>2. ASSUME NEW ticks \in Ticks, Sleep(ticks) PROVE NoneInVain(pcb')
  BY <1>2, CurrentKeeps
<1>3. CASE Fork \/ ReadcBlock \/ KillSelf \/ ClockPreempt
  BY <1>3, CurrentKeeps
<1>4. ASSUME NEW x \in 1..PID_MAX, KillOther(x) PROVE NoneInVain(pcb')
  BY <1>4, OtherKeeps
<1>5. ASSUME NEW x \in 0..PID_MAX, WaitReap(x) PROVE NoneInVain(pcb')
  BY <1>5, OtherKeeps
<1>6. ASSUME NEW x \in 0..PID_MAX, WaitBlock(x) PROVE NoneInVain(pcb')
  BY <1>6, WaitBlockKeeps
<1>7. ASSUME NEW code \in ExitCodes, Exit(code) PROVE NoneInVain(pcb')
  BY <1>7, ExitKeeps
<1>8. ASSUME NEW p \in Slots, ClockWake(p) \/ SioWake(p) PROVE NoneInVain(pcb')
  BY <1>8, OtherKeeps
<1>9. CASE DispatchRun \/ DispatchKilled
  BY <1>9, OtherKeeps
<1>10. ASSUME UNCHANGED pcb PROVE NoneInVain(pcb')
  BY <1>10
<1>11. ASSUME NEW t \in Times, SetTime(t) PROVE NoneInVain(pcb')
  BY <1>10, <1>11 DEF SetTime
<1>12. CASE ForkNoStack \/ ReadcNow \/ Yield \/ ClockTick \/ SioStore
  BY <1>10, <1>12 DEF ForkNoStack, ReadcNow, Yield, ClockTick, SioStore
<1>13. CASE DispatchEmpty \/ Panicked \/ UNCHANGED vars
  BY <1>10, <1>13 DEF DispatchEmpty, Panicked, vars
<1> QED
  BY <1>1, <1>2, <1>3, <1>4, <1>5, <1>6, <1>7, <1>8, <1>9, <1>11, <1>12, <1>13
     DEF Next, SyscallNext, ClockNext, SioNext, Dispatch

(***************************************************************************)
(* While a process other than init waits for a child, that child is not a  *)
(* zombie, whatever the order of their calls.                              *)
(***************************************************************************)
THEOREM NoWakeupLost == Spec => []NoLostWakeup
<1>1. Init => NoLostWakeup
  BY DEF Init, NoLostWakeup, WaitsInVain, ClearedPcb
<1>2. Init => IInv
  BY InitIInv
<1>3. IInv /\ NoLostWakeup /\ [Next]_vars => IInv' /\ NoLostWakeup'
  BY StepIInv, WakeupStep
<1> QED BY <1>1, <1>2, <1>3, PTL DEF Spec
=============================================================================
