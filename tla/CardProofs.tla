----------------------------- MODULE CardProofs -----------------------------
(***************************************************************************)
(* What is proved about cards.  Of the network interface: that the search  *)
(* for its interrupt ends with the handler where interrupts find it, and   *)
(* that no frame is handed on twice.  Of the PCI bus: that it is listed as *)
(* it was found, and that drives stay reachable where they answered.       *)
(***************************************************************************)
EXTENDS Probe, Ethernet, Pci, Lists

ProbeSpec == ProbeInit /\ [][ProbeNext]_probeVars

-----------------------------------------------------------------------------
(* The search for the interrupt *)

ProbePcs == {"try", "waiting", "critical", "confirm", "testing", "found", "default", "too many"}

ProbeTypes ==
  /\ raised \subseteq ProbeVectors
  /\ ifs \in BOOLEAN
  /\ isrTable \in {"global", "wait"}
  /\ actions \in [ProbeVectors -> Seq({"i8255x"})]
  /\ probe \in [pc : ProbePcs, try : 0..MAX_IRQ_FIND_TRIES, count : 0..2, changed : BOOLEAN]
  /\ nic \in [irq_vector : ProbeVectors \cup {NO_VECTOR}, wrong_irq : BOOLEAN, swi : BOOLEAN]

\* The driver knows a vector, and its handler is on the list of that one.
Installed == nic.irq_vector \in ProbeVectors /\ actions[nic.irq_vector] # <<>>

\* What setup_irq relies on, by where it is: while it waits for the first interrupt the
\* cause is set, so that the handler learns a vector from it.
Progress ==
  /\ isrTable = (IF probe.pc = "waiting" THEN "wait" ELSE "global")
  /\ probe.pc = "try" => probe.try <= MAX_IRQ_FIND_TRIES
  /\ probe.pc = "waiting" => IF probe.count = 0 THEN nic.irq_vector = NO_VECTOR /\ nic.swi
                             ELSE nic.irq_vector \in ProbeVectors
  /\ probe.pc \in {"waiting", "confirm", "testing"} => probe.try < MAX_IRQ_FIND_TRIES
  /\ probe.pc \in {"confirm", "testing", "default", "found"} => Installed
  /\ probe.pc = "found" => ~ ifs
  /\ probe.pc # "critical"

ProbeInv == ProbeTypes /\ Progress

(***************************************************************************)
(* A vector is no NO_VECTOR, and the default one is a vector.              *)
(***************************************************************************)
LEMMA Vectors ==
  /\ I8255X_DEFAULT_IRQ \in ProbeVectors
  /\ NO_VECTOR \notin ProbeVectors
  /\ NIC_VECTORS \subseteq ProbeVectors /\ OTHER_VECTORS \subseteq ProbeVectors
  BY ProbeAssumption DEF ProbeVectors

(***************************************************************************)
(* i8255x_driver_isr keeps the types, and a vector the driver knows.       *)
(***************************************************************************)
LEMMA IsrKeeps ==
  ASSUME NEW n \in [irq_vector : ProbeVectors \cup {NO_VECTOR}, wrong_irq : BOOLEAN, swi : BOOLEAN],
         NEW v \in ProbeVectors
  PROVE  /\ DriverIsr(n, v) \in
              [irq_vector : ProbeVectors \cup {NO_VECTOR}, wrong_irq : BOOLEAN, swi : BOOLEAN]
         /\ n.irq_vector # NO_VECTOR => DriverIsr(n, v).irq_vector = n.irq_vector
         /\ n.swi => DriverIsr(n, v).irq_vector \in ProbeVectors
  BY Vectors DEF DriverIsr

(***************************************************************************)
(* So does _interrupt_global_handler.                                      *)
(***************************************************************************)
LEMMA GlobalKeeps ==
  ASSUME ProbeTypes, NEW v \in ProbeVectors
  PROVE  /\ GlobalHandler(nic, v) \in
              [irq_vector : ProbeVectors \cup {NO_VECTOR}, wrong_irq : BOOLEAN, swi : BOOLEAN]
         /\ nic.irq_vector # NO_VECTOR => GlobalHandler(nic, v).irq_vector = nic.irq_vector
  <1> DEFINE first == DriverIsr(nic, v)
             second == DriverIsr(first, v)
  <1>1. nic \in [irq_vector : ProbeVectors \cup {NO_VECTOR}, wrong_irq : BOOLEAN, swi : BOOLEAN]
    BY DEF ProbeTypes
  <1>2. /\ first \in [irq_vector : ProbeVectors \cup {NO_VECTOR}, wrong_irq : BOOLEAN, swi : BOOLEAN]
        /\ nic.irq_vector # NO_VECTOR => first.irq_vector = nic.irq_vector
    BY <1>1, IsrKeeps
  <1> HIDE DEF first
  <1>3. /\ second \in [irq_vector : ProbeVectors \cup {NO_VECTOR}, wrong_irq : BOOLEAN, swi : BOOLEAN]
        /\ first.irq_vector # NO_VECTOR => second.irq_vector = first.irq_vector
    BY <1>2, IsrKeeps
  <1> HIDE DEF second
  <1>4. GlobalHandler(nic, v) \in {nic, first, second}
    BY DEF GlobalHandler, first, second
  <1> QED
    BY <1>1, <1>2, <1>3, <1>4

(***************************************************************************)
(* _interrupt_add_isr leaves a list that is not empty, _interrupt_del_isr  *)
(* takes the first handler off, all of them being the driver's.            *)
(***************************************************************************)
LEMMA Lists ==
  ASSUME NEW a \in [ProbeVectors -> Seq({"i8255x"})], NEW v \in ProbeVectors
  PROVE  /\ AddIsr(a, "i8255x", v) \in [ProbeVectors -> Seq({"i8255x"})]
         /\ AddIsr(a, "i8255x", v)[v] # <<>>
         /\ DelIsr(a, "i8255x", v) \in [ProbeVectors -> Seq({"i8255x"})]
  <1> DEFINE s == a[v]
             at == {i \in DOMAIN s : s[i] = "i8255x"}
             i == CHOOSE i \in at : \A j \in at : i <= j
             rest == SubSeq(s, 1, i - 1) \o SubSeq(s, i + 1, Len(s))
  <1>1. s \in Seq({"i8255x"})
    OBVIOUS
  <1> HIDE DEF s
  <1>2. Append(s, "i8255x") \in Seq({"i8255x"}) /\ Append(s, "i8255x") # <<>>
    BY <1>1
  <1>3. ASSUME at # {} PROVE rest \in Seq({"i8255x"})
    <2>1. at = 1..Len(s) /\ Len(s) \in Nat
      BY <1>1
    <2>2. 1 \in at /\ \A j \in at : 1 <= j
      BY <1>3, <2>1
    <2>3. i \in at /\ \A j \in at : i <= j
      BY <2>2
    <2> HIDE DEF at, i
    <2>4. i = 1
      BY <2>1, <2>2, <2>3
    <2>5. SubSeq(s, 1, i - 1) \in Seq({"i8255x"}) /\ SubSeq(s, i + 1, Len(s)) \in Seq({"i8255x"})
      BY <1>1, <2>1, <2>4
    <2> QED
      BY <2>5
  <1>4. AddIsr(a, "i8255x", v) = [a EXCEPT ![v] = Append(s, "i8255x")]
    BY DEF AddIsr, s
  <1>5. DelIsr(a, "i8255x", v) = IF at = {} THEN a ELSE [a EXCEPT ![v] = rest]
    BY DEF DelIsr, s
  <1> QED
    BY <1>1, <1>2, <1>3, <1>4, <1>5

-----------------------------------------------------------------------------
(***************************************************************************)
(* setup_irq begins with nothing known.                                    *)
(***************************************************************************)
LEMMA ProbeInitInv == ProbeInit => ProbeInv
  <1> SUFFICES ASSUME ProbeInit PROVE ProbeInv
    OBVIOUS
  <1>1. <<>> \in Seq({"i8255x"})
    OBVIOUS
  <1>2. ProbeTypes
    <2>1. 0 \in 0..MAX_IRQ_FIND_TRIES /\ 0 \in 0..2
      BY ProbeAssumption
    <2>2. probe \in [pc : ProbePcs, try : 0..MAX_IRQ_FIND_TRIES, count : 0..2, changed : BOOLEAN]
      BY <2>1 DEF ProbeInit, ProbePcs
    <2>3. actions \in [ProbeVectors -> Seq({"i8255x"})]
      BY <1>1 DEF ProbeInit
    <2> QED
      BY <2>2, <2>3 DEF ProbeInit, ProbeTypes
  <1>3. Progress
    BY ProbeAssumption DEF ProbeInit, Progress
  <1> QED
    BY <1>2, <1>3 DEF ProbeInv

(***************************************************************************)
(* An interrupt, of whichever device and to whichever handler: the first   *)
(* one while setup_irq waits tells a vector, later ones change none.       *)
(***************************************************************************)
LEMMA InterruptStep == ASSUME ProbeInv, NEW v \in ProbeVectors, Interrupt(v) PROVE ProbeInv'
  <1> DEFINE NicType == [irq_vector : ProbeVectors \cup {NO_VECTOR}, wrong_irq : BOOLEAN, swi : BOOLEAN]
             served == IF isrTable = "wait" THEN DriverIsr(nic, v) ELSE GlobalHandler(nic, v)
  <1>1. nic \in NicType
    BY DEF ProbeInv, ProbeTypes
  <1>2. /\ served \in NicType
        /\ nic.irq_vector # NO_VECTOR => served.irq_vector = nic.irq_vector
        /\ isrTable = "wait" /\ nic.swi => served.irq_vector \in ProbeVectors
    BY <1>1, IsrKeeps, GlobalKeeps DEF ProbeInv
  <1>3. nic' = served
    BY DEF Interrupt
  <1> HIDE DEF served
  <1>4. UNCHANGED <<ifs, isrTable, actions>> /\ ifs /\ raised' \subseteq ProbeVectors
    BY DEF Interrupt, Asked, ProbeInv, ProbeTypes
  <1>5. probe' = IF isrTable = "wait"
                 THEN [probe EXCEPT !.count = IF @ < 2 THEN @ + 1 ELSE @]
                 ELSE [probe EXCEPT !.changed = @ \/ v = nic.irq_vector]
    BY DEF Interrupt
  <1>6. /\ probe' \in [pc : ProbePcs, try : 0..MAX_IRQ_FIND_TRIES, count : 0..2, changed : BOOLEAN]
        /\ probe'.pc = probe.pc /\ probe'.try = probe.try
        /\ isrTable = "wait" => probe'.count # 0
    <2>1. probe \in [pc : ProbePcs, try : 0..MAX_IRQ_FIND_TRIES, count : 0..2, changed : BOOLEAN]
      BY DEF ProbeInv, ProbeTypes
    <2>2. probe.count \in 0..2
      BY <2>1
    <2>3. (IF probe.count < 2 THEN probe.count + 1 ELSE probe.count) \in 0..2 \ {0}
      BY <2>2
    <2> QED
      BY <1>5, <2>1, <2>3
  <1>7. ProbeTypes'
    BY <1>2, <1>3, <1>4, <1>6 DEF ProbeInv, ProbeTypes
  <1>8. Progress'
    BY <1>2, <1>3, <1>4, <1>6, Vectors DEF ProbeInv, ProbeTypes, Progress, Installed
  <1> QED
    BY <1>7, <1>8 DEF ProbeInv

(***************************************************************************)
(* Each step of setup_irq, and a request to the interrupt controller.      *)
(***************************************************************************)
LEMMA ProbeStep == ProbeInv /\ [ProbeNext]_probeVars => ProbeInv'
  <1> SUFFICES ASSUME ProbeInv, [ProbeNext]_probeVars
               PROVE  ProbeInv'
    OBVIOUS
  <1> DEFINE NicType == [irq_vector : ProbeVectors \cup {NO_VECTOR}, wrong_irq : BOOLEAN, swi : BOOLEAN]
             ProbeType == [pc : ProbePcs, try : 0..MAX_IRQ_FIND_TRIES, count : 0..2, changed : BOOLEAN]
             ActionsType == [ProbeVectors -> Seq({"i8255x"})]
  <1>1. raised \subseteq ProbeVectors /\ ifs \in BOOLEAN /\ isrTable \in {"global", "wait"}
    BY DEF ProbeInv, ProbeTypes
  <1>2. actions \in ActionsType /\ probe \in ProbeType /\ nic \in NicType
    BY DEF ProbeInv, ProbeTypes
  <1>3. Progress
    BY DEF ProbeInv
  <1>4. \A n \in Nat : n < MAX_IRQ_FIND_TRIES => n + 1 \in 0..MAX_IRQ_FIND_TRIES
    BY ProbeAssumption
  <1>5. probe.try \in Nat
    BY <1>2
  <1> HIDE DEF ActionsType
  <1>a. ASSUME NEW v \in ProbeVectors, Raise(v) PROVE ProbeInv'
    <2>1. ProbeTypes'
      BY <1>a, <1>1, <1>2 DEF Raise, ProbeTypes, ActionsType
    <2> QED
      BY <1>a, <1>3, <2>1 DEF Raise, Progress, Installed, ProbeInv
  <1>b. CASE Try
    <2>1. nic' \in NicType
      BY <1>b DEF Try
    <2>2. probe' \in ProbeType
      <3>1. probe' = [probe EXCEPT !.pc = "waiting", !.count = 0] /\ 0 \in 0..2
        BY <1>b DEF Try
      <3> QED
        BY <1>2, <3>1 DEF ProbePcs
    <2>3. ProbeTypes'
      BY <1>b, <1>1, <1>2, <2>1, <2>2 DEF Try, Asked, ProbeTypes, ActionsType
    <2>4. Progress'
      BY <1>b, <1>2 DEF Try, Progress, Installed
    <2> QED
      BY <2>3, <2>4 DEF ProbeInv
  <1>c. CASE Waited
    <2>1. probe.pc = "waiting" /\ UNCHANGED <<raised, nic>> /\ isrTable' = "global" /\ ifs' = FALSE
      BY <1>c DEF Waited
    <2>2. CASE probe.count # 1
      <3>1. probe' = [probe EXCEPT !.pc = "try", !.try = @ + 1] /\ UNCHANGED actions
        BY <1>c, <2>2 DEF Waited
      <3>2. probe.try + 1 \in 0..MAX_IRQ_FIND_TRIES
        BY <1>3, <1>4, <1>5, <2>1 DEF Progress
      <3>3. probe' \in ProbeType /\ probe'.pc = "try"
        BY <1>2, <3>1, <3>2 DEF ProbePcs
      <3>4. probe'.try <= MAX_IRQ_FIND_TRIES
        BY <1>2, <3>1, <3>2
      <3>5. ProbeTypes'
        BY <1>1, <1>2, <2>1, <3>1, <3>3 DEF ProbeTypes, ActionsType
      <3> QED
        BY <2>1, <3>3, <3>4, <3>5 DEF Progress, ProbeInv
    <2>3. CASE probe.count = 1
      <3>1. nic.irq_vector \in ProbeVectors
        BY <1>3, <2>1, <2>3 DEF Progress
      <3>2. /\ actions' = AddIsr(actions, "i8255x", nic.irq_vector)
            /\ probe' = [probe EXCEPT !.pc = "confirm", !.changed = FALSE]
        BY <1>c, <2>3, <3>1, Vectors DEF Waited
      <3>3. actions' \in ActionsType /\ actions'[nic.irq_vector] # <<>>
        BY <1>2, <3>1, <3>2, Lists DEF ActionsType
      <3>4. probe' \in ProbeType /\ probe'.pc = "confirm" /\ probe'.try = probe.try
        BY <1>2, <3>2 DEF ProbePcs
      <3>5. ProbeTypes'
        BY <1>1, <1>2, <2>1, <3>3, <3>4 DEF ProbeTypes, ActionsType
      <3>6. Installed'
        BY <2>1, <3>1, <3>3 DEF Installed
      <3> QED
        BY <1>3, <2>1, <3>4, <3>5, <3>6 DEF Progress, ProbeInv
    <2> QED
      BY <2>2, <2>3
  <1>d. CASE Confirm
    <2>1. /\ probe.pc = "confirm" /\ ifs' = TRUE /\ UNCHANGED <<raised, isrTable>>
          /\ \/ /\ actions' = DelIsr(actions, "i8255x", nic.irq_vector)
                /\ probe' = [probe EXCEPT !.pc = "try", !.try = @ + 1]
                /\ UNCHANGED nic
             \/ /\ nic' = [nic EXCEPT !.swi = TRUE]
                /\ probe' = [probe EXCEPT !.pc = "testing"]
                /\ UNCHANGED actions
      BY <1>d DEF Confirm
    <2>2. probe.try + 1 \in 0..MAX_IRQ_FIND_TRIES /\ nic.irq_vector \in ProbeVectors
      BY <1>3, <1>4, <1>5, <2>1 DEF Progress, Installed
    <2>3. actions' \in ActionsType
      BY <1>2, <2>1, <2>2, Lists, SMTT(30) DEF ActionsType
    <2>4. nic' \in NicType /\ nic'.irq_vector = nic.irq_vector
      BY <1>2, <2>1
    <2>5. probe' \in ProbeType /\ probe'.pc \in {"try", "testing"}
      BY <1>2, <2>1, <2>2 DEF ProbePcs
    <2>6. ProbeTypes'
      BY <1>1, <2>1, <2>3, <2>4, <2>5 DEF ProbeTypes, ActionsType
    <2>7. probe'.pc = "testing" => actions' = actions /\ probe'.try = probe.try
      BY <1>2, <2>1
    <2>8. probe'.try <= MAX_IRQ_FIND_TRIES
      BY <2>5, ProbeAssumption
    <2> QED
      BY <1>3, <2>1, <2>4, <2>5, <2>6, <2>7, <2>8 DEF Progress, Installed, ProbeInv
  <1>e. CASE Tested
    <2>1. /\ probe.pc = "testing" /\ UNCHANGED <<raised, isrTable, actions, nic>>
          /\ \/ probe' = [probe EXCEPT !.pc = "try", !.try = @ + 1] /\ UNCHANGED ifs
             \/ probe' = [probe EXCEPT !.pc = "found"] /\ ifs' = FALSE
      BY <1>e DEF Tested
    <2>2. probe.try + 1 \in 0..MAX_IRQ_FIND_TRIES
      BY <1>3, <1>4, <1>5, <2>1 DEF Progress
    <2>3. probe' \in ProbeType /\ probe'.pc \in {"try", "found"}
      BY <1>2, <2>1, <2>2 DEF ProbePcs
    <2>4. probe'.pc = "found" => ~ ifs'
      BY <1>2, <2>1
    <2>5. ProbeTypes'
      BY <1>1, <1>2, <2>1, <2>3 DEF ProbeTypes, ActionsType
    <2>6. probe'.try <= MAX_IRQ_FIND_TRIES
      BY <2>3, ProbeAssumption
    <2> QED
      BY <1>3, <2>1, <2>3, <2>4, <2>5, <2>6 DEF Progress, Installed, ProbeInv
  <1>f. CASE TryDefault
    <2>1. nic' \in NicType /\ nic'.irq_vector = I8255X_DEFAULT_IRQ
      BY <1>f, <1>2, Vectors DEF TryDefault
    <2>2. actions' \in ActionsType /\ actions'[I8255X_DEFAULT_IRQ] # <<>>
      BY <1>f, <1>2, Lists, Vectors DEF TryDefault, ActionsType
    <2>3. probe' \in ProbeType /\ probe'.pc = "default"
      BY <1>f, <1>2 DEF TryDefault, ProbePcs
    <2>4. ProbeTypes'
      BY <1>f, <1>1, <2>1, <2>2, <2>3 DEF TryDefault, ProbeTypes, ActionsType
    <2> QED
      BY <1>f, <1>3, <2>1, <2>2, <2>3, <2>4, Vectors DEF TryDefault, Progress, Installed, ProbeInv
  <1>g. CASE DefaultTested
    <2>1. /\ probe.pc = "default" /\ ifs' = FALSE /\ UNCHANGED <<raised, isrTable, nic>>
          /\ \/ /\ actions' = DelIsr(actions, "i8255x", I8255X_DEFAULT_IRQ)
                /\ probe' = [probe EXCEPT !.pc = "too many"]
             \/ probe' = [probe EXCEPT !.pc = "found"] /\ UNCHANGED actions
      BY <1>g DEF DefaultTested
    <2>2. actions' \in ActionsType
      <3>1. DelIsr(actions, "i8255x", I8255X_DEFAULT_IRQ) \in ActionsType
        BY <1>2, Lists, Vectors DEF ActionsType
      <3> QED
        BY <1>2, <2>1, <3>1
    <2>3. probe' \in ProbeType /\ probe'.pc \in {"too many", "found"}
      BY <1>2, <2>1 DEF ProbePcs
    <2>4. probe'.pc = "found" => actions' = actions
      BY <1>2, <2>1
    <2>5. ProbeTypes'
      BY <1>1, <1>2, <2>1, <2>2, <2>3 DEF ProbeTypes, ActionsType
    <2> QED
      BY <1>3, <2>1, <2>3, <2>4, <2>5 DEF Progress, Installed, ProbeInv
  <1>h. CASE UNCHANGED probeVars
    BY <1>h DEF probeVars, ProbeInv, ProbeTypes, Progress, Installed
  <1> QED
    BY <1>a, <1>b, <1>c, <1>d, <1>e, <1>f, <1>g, <1>h, InterruptStep DEF ProbeNext

(***************************************************************************)
(* Whatever vector the interface is wired to, whatever else interrupts, in *)
(* whichever order and however many tries there are: setup_irq does not    *)
(* panic over vector -1, and it reports success with the handler on the    *)
(* list of the vector it learnt, interrupts off and the table restored.    *)
(***************************************************************************)
THEOREM InterruptFound == ProbeSpec => []HandlerInPlace
  <1>1. ProbeInv => HandlerInPlace
    <2> SUFFICES ASSUME ProbeInv PROVE HandlerInPlace
      OBVIOUS
    <2>1. ASSUME Installed
          PROVE  "i8255x" \in {actions[nic.irq_vector][i] : i \in DOMAIN actions[nic.irq_vector]}
      <3>1. actions[nic.irq_vector] \in Seq({"i8255x"}) /\ actions[nic.irq_vector] # <<>>
        BY <2>1 DEF ProbeInv, ProbeTypes, Installed
      <3>2. 1 \in DOMAIN actions[nic.irq_vector] /\ actions[nic.irq_vector][1] = "i8255x"
        BY <3>1
      <3> QED
        BY <3>2
    <2> QED
      BY <2>1 DEF ProbeInv, Progress, HandlerInPlace
  <1> QED
    BY <1>1, ProbeInitInv, ProbeStep, PTL DEF ProbeSpec

-----------------------------------------------------------------------------
(* The ring of receive buffers *)

EtherSpec == EtherInit /\ [][EtherNext]_etherVars

N == I8255X_RX_BUFFER_COUNT

EtherTypes ==
  /\ arrived \in Nat
  /\ ring \in [RxBuffers -> [frame : Nat, status : BOOLEAN, el : BOOLEAN]]
  /\ rxp \in [ptr : RxBuffers, base : RxBuffers]
  /\ ru \in [ready : BOOLEAN, at : RxBuffers]
  /\ isr \in [pc : {"out", "FR?", "loop", "init", "RNR?", "ack", "spinning"}, buf : RxBuffers]
  /\ delivered \subseteq 1..arrived

\* A frame lies in one buffer, and a buffer that is marked as received has one.
FramesOnce ==
  /\ \A b \in RxBuffers : ring[b].frame <= arrived /\ (ring[b].status => ring[b].frame # 0)
  /\ \A b, c \in RxBuffers : ring[b].frame = ring[c].frame => b = c \/ ring[b].frame = 0

\* Where the handler is about to make the buffer ready again.
Resetting == isr.pc \in {"init", "spinning"}

\* Until the first buffer is used a second time: d frames are delivered, those behind
\* wait in their buffers, and the handler is at the first of these.
FirstLap(d) ==
  /\ delivered = 1..d /\ d <= arrived
  /\ arrived < N => ru.at = arrived /\ "RNR" \notin scb
  /\ \A b \in RxBuffers :
       /\ b < arrived => ring[b].frame = b + 1
       /\ ring[b].status <=> (d <= b /\ b < arrived) \/ (Resetting /\ b = isr.buf)
       /\ d <= b \/ (Resetting /\ b = isr.buf) => (ring[b].el <=> b = N - 1)
  /\ IF Resetting THEN isr.buf + 1 = d
     ELSE (IF isr.pc = "loop" THEN isr.buf ELSE rxp.ptr) = (IF d = N THEN 0 ELSE d)

EtherInv ==
  /\ EtherTypes
  /\ FramesOnce
  /\ NoneTwice
  /\ arrived <= N => \E d \in Nat : FirstLap(d)

(***************************************************************************)
(* The buffer behind a buffer.                                             *)
(***************************************************************************)
LEMMA Links ==
  /\ N \in Nat /\ N > 1
  /\ \A b \in RxBuffers : b \in Nat /\ b < N
  /\ \A b \in Nat : b < N => b \in RxBuffers
  /\ \A b \in RxBuffers : LinkOf(b) = (IF b = N - 1 THEN 0 ELSE b + 1) /\ LinkOf(b) \in RxBuffers
  <1>1. N \in Nat /\ N > 1
    BY EthernetAssumption DEF N
  <1>2. RxBuffers = {b \in Nat : b < N}
    BY <1>1 DEF RxBuffers, N
  <1>3. ASSUME NEW b \in RxBuffers
        PROVE  LinkOf(b) = (IF b = N - 1 THEN 0 ELSE b + 1)
    <2>1. LinkOf(b) = (b + 1) % N
      BY DEF LinkOf, N
    <2>2. \A x \in Nat : x < N => x % N = x
      BY <1>1
    <2>3. N % N = 0
      BY <1>1
    <2> QED
      BY <1>1, <1>2, <2>1, <2>2, <2>3
  <1> QED
    BY <1>1, <1>2, <1>3

(***************************************************************************)
(* The ring as i8255x_setup_rfa makes it.                                  *)
(***************************************************************************)
LEMMA EtherInitInv == EtherInit => EtherInv
  <1> SUFFICES ASSUME EtherInit PROVE EtherInv
    OBVIOUS
  <1>1. 0 \in RxBuffers
    BY Links
  <1>2. /\ ring = [b \in RxBuffers |-> [frame |-> 0, status |-> FALSE, el |-> LinkOf(b) = 0]]
        /\ arrived = 0 /\ delivered = {} /\ scb = {}
        /\ rxp = [ptr |-> 0, base |-> 0] /\ ru = [ready |-> TRUE, at |-> 0]
        /\ isr = [pc |-> "out", buf |-> 0]
    BY DEF EtherInit, SetupRfa
  <1>3. EtherTypes
    BY <1>1, <1>2 DEF EtherTypes
  <1>4. FramesOnce /\ NoneTwice
    BY <1>2 DEF FramesOnce, NoneTwice
  <1>5. FirstLap(0)
    <2>1. \A b \in RxBuffers : (LinkOf(b) = 0 <=> b = N - 1) /\ b \in Nat
      BY Links
    <2>2. ~ Resetting /\ rxp.ptr = 0 /\ isr.pc = "out" /\ ru.at = 0
      BY <1>2 DEF Resetting
    <2>3. 1..0 = {} /\ N # 0
      BY Links
    <2>4. ASSUME NEW b \in RxBuffers
          PROVE  ring[b].status = FALSE /\ ring[b].el = (LinkOf(b) = 0) /\ ~ (b < arrived)
      BY <1>2, <2>1
    <2>5. delivered = 1..0 /\ 0 <= arrived /\ "RNR" \notin scb /\ (0 = N <=> FALSE)
      BY <1>2, <2>3
    <2>6. ASSUME NEW b \in RxBuffers
          PROVE  /\ b < arrived => ring[b].frame = b + 1
                 /\ ring[b].status <=> (0 <= b /\ b < arrived) \/ (Resetting /\ b = isr.buf)
                 /\ 0 <= b \/ (Resetting /\ b = isr.buf) => (ring[b].el <=> b = N - 1)
      BY <2>1, <2>2, <2>4
    <2> QED
      BY <1>2, <2>2, <2>5, <2>6 DEF FirstLap
  <1> QED
    BY <1>3, <1>4, <1>5 DEF EtherInv

(***************************************************************************)
(* A frame comes in, at any time: its number is that of no other.          *)
(***************************************************************************)
LEMMA ReceiveStep == ASSUME EtherInv, ReceiveFrame PROVE EtherInv'
  <1> DEFINE b == ru.at
             cell == [ring[b] EXCEPT !.frame = arrived + 1, !.status = TRUE]
  <1>1. EtherTypes /\ FramesOnce /\ NoneTwice /\ (arrived <= N => \E d \in Nat : FirstLap(d))
    BY DEF EtherInv
  <1>2. b \in RxBuffers /\ arrived \in Nat
    BY <1>1 DEF EtherTypes
  <1>3. /\ arrived' = arrived + 1 /\ UNCHANGED <<rxp, isr, delivered>>
        /\ ring' = [ring EXCEPT ![b] = cell]
        /\ ru' = [ready |-> ~ ring[b].el, at |-> LinkOf(b)]
        /\ scb' = scb \cup {"FR"} \cup (IF ring[b].el THEN {"RNR"} ELSE {})
    <2>1. ring[b] \in [frame : Nat, status : BOOLEAN, el : BOOLEAN]
      BY <1>1, <1>2 DEF EtherTypes
    <2> HIDE DEF cell
    <2>3. ring' = [ring EXCEPT ![b] = cell]
      BY <1>1, <1>2 DEF ReceiveFrame, EtherTypes, cell
    <2> QED
      BY <2>3 DEF ReceiveFrame
  <1>4. cell \in [frame : Nat, status : BOOLEAN, el : BOOLEAN]
    <2>1. ring[b] \in [frame : Nat, status : BOOLEAN, el : BOOLEAN] /\ arrived + 1 \in Nat
      BY <1>1, <1>2 DEF EtherTypes
    <2> QED
      BY <2>1
  <1>5. cell.frame = arrived + 1 /\ cell.status = TRUE /\ cell.el = ring[b].el
    BY <1>1, <1>2 DEF EtherTypes
  <1> HIDE DEF cell
  <1>6. EtherTypes'
    <2>1. delivered' \subseteq 1..arrived'
      BY <1>1, <1>2, <1>3 DEF EtherTypes
    <2> QED
      BY <1>1, <1>2, <1>3, <1>4, <2>1, Links DEF EtherTypes
  <1>7. FramesOnce'
    BY <1>1, <1>2, <1>3, <1>5 DEF EtherTypes, FramesOnce
  <1>8. NoneTwice'
    BY <1>1, <1>2, <1>3, <1>5 DEF EtherTypes, NoneTwice
  <1>9. ASSUME arrived' <= N PROVE \E d \in Nat : FirstLap(d)'
    <2>1. arrived < N
      BY <1>2, <1>3, <1>9, Links
    <2>2. PICK d \in Nat : FirstLap(d)
      BY <1>1, <1>2, <2>1, Links
    <2>3. b = arrived /\ "RNR" \notin scb
      BY <2>1, <2>2 DEF FirstLap
    <2>4. d <= arrived /\ arrived < N /\ (ring[b].el <=> b = N - 1)
      BY <1>2, <2>1, <2>2, <2>3 DEF FirstLap
    <2>5. arrived' < N => ru'.at = arrived' /\ "RNR" \notin scb'
      BY <1>2, <1>3, <2>3, <2>4, Links
    <2>6. ASSUME NEW c \in RxBuffers
          PROVE  /\ c < arrived' => ring'[c].frame = c + 1
                 /\ ring'[c].status <=> (d <= c /\ c < arrived') \/ (Resetting' /\ c = isr'.buf)
                 /\ d <= c \/ (Resetting' /\ c = isr'.buf) => (ring'[c].el <=> c = N - 1)
      <3>1. ring'[c] = IF c = b THEN cell ELSE ring[c]
        BY <1>1, <1>3 DEF EtherTypes
      <3>2. c \in Nat
        BY Links
      <3>3. /\ c < arrived => ring[c].frame = c + 1
            /\ ring[c].status <=> (d <= c /\ c < arrived) \/ (Resetting /\ c = isr.buf)
            /\ d <= c \/ (Resetting /\ c = isr.buf) => (ring[c].el <=> c = N - 1)
        BY <2>2 DEF FirstLap
      <3>4. Resetting' = Resetting /\ isr' = isr
        BY <1>3 DEF Resetting
      <3> QED
        BY <1>2, <1>3, <1>5, <2>3, <2>4, <3>1, <3>2, <3>3, <3>4
    <2>7. IF Resetting' THEN isr'.buf + 1 = d
          ELSE (IF isr'.pc = "loop" THEN isr'.buf ELSE rxp'.ptr) = (IF d = N THEN 0 ELSE d)
      BY <1>3, <2>2 DEF FirstLap, Resetting
    <2>8. delivered' = 1..d /\ d <= arrived'
      BY <1>2, <1>3, <2>2 DEF FirstLap
    <2>9. FirstLap(d)'
      BY <2>5, <2>6, <2>7, <2>8 DEF FirstLap, N
    <2> QED
      BY <2>9
  <1> QED
    BY <1>6, <1>7, <1>8, <1>9 DEF EtherInv, N

(***************************************************************************)
(* The handler makes a buffer ready again and goes on to the next one.     *)
(***************************************************************************)
LEMMA InitRxbStep == ASSUME EtherInv, IsrInitRxb PROVE EtherInv'
  <1> DEFINE b == isr.buf
             cell == [ring[b] EXCEPT !.status = FALSE, !.el = TRUE]
  <1>1. EtherTypes /\ FramesOnce /\ NoneTwice /\ (arrived <= N => \E d \in Nat : FirstLap(d))
    BY DEF EtherInv
  <1>2. /\ b \in RxBuffers /\ isr.pc = "init" /\ LinkOf(b) \in RxBuffers
        /\ ring[b] \in [frame : Nat, status : BOOLEAN, el : BOOLEAN]
    BY <1>1, Links DEF IsrInitRxb, EtherTypes
  <1>3. cell \in [frame : Nat, status : BOOLEAN, el : BOOLEAN]
    BY <1>2
  <1>4. cell.frame = ring[b].frame /\ cell.status = FALSE /\ cell.el = TRUE
    BY <1>2
  <1> HIDE DEF cell
  <1>5. /\ ring' = [ring EXCEPT ![b] = cell]
        /\ isr' = [pc |-> IF ring[b].el THEN "RNR?" ELSE "loop", buf |-> LinkOf(b)]
        /\ rxp' = IF ring[b].el THEN [rxp EXCEPT !.ptr = LinkOf(b)] ELSE rxp
        /\ UNCHANGED <<ru, arrived, delivered, scb>>
    BY <1>1, <1>2 DEF IsrInitRxb, EtherTypes, cell
  <1>6. \A c \in RxBuffers : ring'[c] = IF c = b THEN cell ELSE ring[c]
    BY <1>1, <1>5 DEF EtherTypes
  <1>7. EtherTypes'
    <2>1. rxp' \in [ptr : RxBuffers, base : RxBuffers]
      BY <1>1, <1>2, <1>5 DEF EtherTypes
    <2>2. isr' \in [pc : {"out", "FR?", "loop", "init", "RNR?", "ack", "spinning"}, buf : RxBuffers]
      BY <1>2, <1>5
    <2>3. ring' \in [RxBuffers -> [frame : Nat, status : BOOLEAN, el : BOOLEAN]]
      BY <1>1, <1>3, <1>5 DEF EtherTypes
    <2> QED
      BY <1>1, <1>5, <2>1, <2>2, <2>3 DEF EtherTypes
  <1>8. FramesOnce'
    BY <1>1, <1>2, <1>4, <1>5, <1>6 DEF FramesOnce
  <1>9. NoneTwice'
    BY <1>1, <1>2, <1>4, <1>5, <1>6 DEF NoneTwice
  <1>10. ASSUME arrived' <= N PROVE \E d \in Nat : FirstLap(d)'
    <2>1. PICK d \in Nat : FirstLap(d)
      BY <1>1, <1>5, <1>10
    <2>2. b + 1 = d /\ (ring[b].el <=> b = N - 1) /\ b \in Nat /\ Resetting
      BY <1>2, <2>1, Links DEF FirstLap, Resetting
    <2>3. LinkOf(b) = (IF d = N THEN 0 ELSE d)
      BY <1>2, <2>2, Links
    <2>4. ~ Resetting'
      BY <1>5 DEF Resetting
    <2>5. (IF isr'.pc = "loop" THEN isr'.buf ELSE rxp'.ptr) = (IF d = N THEN 0 ELSE d)
      <3>1. CASE ring[b].el
        <4>1. rxp'.ptr = LinkOf(b) /\ isr'.pc = "RNR?"
          BY <1>1, <1>5, <3>1 DEF EtherTypes
        <4> QED
          BY <2>3, <4>1
      <3>2. CASE ~ ring[b].el
        BY <1>5, <2>3, <3>2
      <3> QED
        BY <3>1, <3>2
    <2>6. ASSUME NEW c \in RxBuffers
          PROVE  /\ c < arrived' => ring'[c].frame = c + 1
                 /\ ring'[c].status <=> (d <= c /\ c < arrived') \/ (Resetting' /\ c = isr'.buf)
                 /\ d <= c \/ (Resetting' /\ c = isr'.buf) => (ring'[c].el <=> c = N - 1)
      <3>1. /\ c < arrived => ring[c].frame = c + 1
            /\ ring[c].status <=> (d <= c /\ c < arrived) \/ (Resetting /\ c = isr.buf)
            /\ d <= c \/ (Resetting /\ c = isr.buf) => (ring[c].el <=> c = N - 1)
        BY <2>1 DEF FirstLap
      <3>2. c \in Nat
        BY Links
      <3>3. ring'[c] = IF c = b THEN cell ELSE ring[c]
        BY <1>6
      <3> QED
        BY <1>4, <1>5, <2>2, <2>4, <3>1, <3>2, <3>3
    <2>7. delivered' = 1..d /\ d <= arrived' /\ (arrived' < N => ru'.at = arrived' /\ "RNR" \notin scb')
      BY <1>5, <2>1 DEF FirstLap, N
    <2>8. FirstLap(d)'
      BY <2>4, <2>5, <2>6, <2>7 DEF FirstLap, N
    <2> QED
      BY <2>8
  <1> QED
    BY <1>7, <1>8, <1>9, <1>10 DEF EtherInv, N

(***************************************************************************)
(* The handler hands on the frame of the buffer it is at.                  *)
(***************************************************************************)
LEMMA DeliverStep == ASSUME EtherInv, IsrDeliver PROVE EtherInv'
  <1> DEFINE b == isr.buf
  <1>1. EtherTypes /\ FramesOnce /\ NoneTwice /\ (arrived <= N => \E d \in Nat : FirstLap(d))
    BY DEF EtherInv
  <1>2. /\ b \in RxBuffers /\ isr.pc = "loop" /\ ring[b].status
        /\ ring[b] \in [frame : Nat, status : BOOLEAN, el : BOOLEAN]
    BY <1>1 DEF IsrDeliver, EtherTypes
  <1>3. /\ delivered' = delivered \cup {ring[b].frame}
        /\ UNCHANGED <<ring, rxp, ru, arrived, scb>>
    BY DEF IsrDeliver
  <1>4. isr' = [isr EXCEPT !.pc = "init"] \/ isr' = [isr EXCEPT !.pc = "spinning"]
    BY DEF IsrDeliver, GetAvailMsg, IsrAt
  <1>5. /\ isr' \in [pc : {"out", "FR?", "loop", "init", "RNR?", "ack", "spinning"}, buf : RxBuffers]
        /\ isr'.buf = b /\ isr'.pc \in {"init", "spinning"}
    <2>1. isr \in [pc : {"out", "FR?", "loop", "init", "RNR?", "ack", "spinning"}, buf : RxBuffers]
      BY <1>1 DEF EtherTypes
    <2> QED
      BY <1>4, <2>1
  <1>6. ring[b].frame \in 1..arrived /\ arrived \in Nat
    BY <1>1, <1>2 DEF FramesOnce, EtherTypes
  <1>7. EtherTypes'
    <2>1. delivered' \subseteq 1..arrived'
      BY <1>1, <1>3, <1>6 DEF EtherTypes
    <2> QED
      BY <1>1, <1>3, <1>5, <2>1 DEF EtherTypes
  <1>8. FramesOnce'
    BY <1>1, <1>3 DEF FramesOnce
  <1>9. NoneTwice'
    <2>1. \A c \in RxBuffers : ring[c].frame = ring[b].frame => c = b
      BY <1>1, <1>2, <1>6 DEF FramesOnce
    <2> QED
      BY <1>1, <1>2, <1>3, <1>5, <2>1 DEF NoneTwice
  <1>10. ASSUME arrived' <= N PROVE \E d \in Nat : FirstLap(d)'
    <2>1. PICK d \in Nat : FirstLap(d)
      BY <1>1, <1>3, <1>10
    <2>2. ~ Resetting /\ b = (IF d = N THEN 0 ELSE d)
      BY <1>2, <2>1 DEF FirstLap, Resetting
    <2>3. d <= b /\ b < arrived /\ b \in Nat /\ ring[b].frame = b + 1
      BY <1>2, <2>1, <2>2, Links DEF FirstLap
    <2>4. b = d /\ d + 1 \in Nat
      BY <2>2, <2>3, Links
    <2>5. delivered' = 1..(d + 1)
      <3>1. delivered = 1..d
        BY <2>1 DEF FirstLap
      <3>2. 1..(d + 1) = (1..d) \cup {d + 1}
        OBVIOUS
      <3> QED
        BY <1>3, <2>3, <2>4, <3>1, <3>2
    <2>6. Resetting'
      BY <1>5 DEF Resetting
    <2>7. ASSUME NEW c \in RxBuffers
          PROVE  /\ c < arrived' => ring'[c].frame = c + 1
                 /\ ring'[c].status <=> (d + 1 <= c /\ c < arrived') \/ (Resetting' /\ c = isr'.buf)
                 /\ d + 1 <= c \/ (Resetting' /\ c = isr'.buf) => (ring'[c].el <=> c = N - 1)
      <3>1. /\ c < arrived => ring[c].frame = c + 1
            /\ ring[c].status <=> (d <= c /\ c < arrived)
            /\ d <= c => (ring[c].el <=> c = N - 1)
        BY <2>1, <2>2 DEF FirstLap
      <3>2. c \in Nat
        BY Links
      <3> QED
        BY <1>3, <1>5, <1>6, <2>3, <2>4, <2>6, <3>1, <3>2
    <2>8. /\ d + 1 <= arrived' /\ isr'.buf + 1 = d + 1
          /\ arrived' < N => ru'.at = arrived' /\ "RNR" \notin scb'
      BY <1>3, <1>5, <1>6, <2>1, <2>3, <2>4 DEF FirstLap
    <2>9. FirstLap(d + 1)'
      BY <2>5, <2>6, <2>7, <2>8 DEF FirstLap, N
    <2> QED
      BY <2>4, <2>9
  <1> QED
    BY <1>7, <1>8, <1>9, <1>10 DEF EtherInv, N

\* Where the handler is to look next.
LookAt == IF isr.pc = "loop" THEN isr.buf ELSE rxp.ptr

(***************************************************************************)
(* The other steps leave the ring and what was delivered alone, and the    *)
(* place where the handler looks next.                                     *)
(***************************************************************************)
LEMMA Elsewhere ==
  ASSUME EtherInv, UNCHANGED <<ring, arrived, delivered>>,
         rxp' \in [ptr : RxBuffers, base : RxBuffers], ru' \in [ready : BOOLEAN, at : RxBuffers],
         isr' \in [pc : {"out", "FR?", "loop", "init", "RNR?", "ack", "spinning"}, buf : RxBuffers],
         "RNR" \in scb' => "RNR" \in scb,
         "RNR" \notin scb => ru' = ru,
         ~ Resetting, ~ Resetting', LookAt' = LookAt
  PROVE  EtherInv'
  <1>1. EtherTypes /\ FramesOnce /\ NoneTwice /\ (arrived <= N => \E d \in Nat : FirstLap(d))
    BY DEF EtherInv
  <1>2. EtherTypes'
    BY <1>1 DEF EtherTypes
  <1>3. FramesOnce'
    BY <1>1 DEF FramesOnce
  <1>4. NoneTwice'
    BY <1>1 DEF NoneTwice, Resetting
  <1>5. ASSUME arrived' <= N PROVE \E d \in Nat : FirstLap(d)'
    <2>1. PICK d \in Nat : FirstLap(d)
      BY <1>1, <1>5
    <2>2. LookAt' = (IF d = N THEN 0 ELSE d)
      BY <2>1 DEF FirstLap, LookAt
    <2>3. delivered' = 1..d /\ d <= arrived' /\ (arrived' < N => ru'.at = arrived' /\ "RNR" \notin scb')
      BY <2>1 DEF FirstLap
    <2>4. ASSUME NEW c \in RxBuffers
          PROVE  /\ c < arrived' => ring'[c].frame = c + 1
                 /\ ring'[c].status <=> (d <= c /\ c < arrived') \/ (Resetting' /\ c = isr'.buf)
                 /\ d <= c \/ (Resetting' /\ c = isr'.buf) => (ring'[c].el <=> c = N - 1)
      BY <2>1 DEF FirstLap
    <2>5. FirstLap(d)'
      BY <2>2, <2>3, <2>4 DEF FirstLap, LookAt, N
    <2> QED
      BY <2>5
  <1> QED
    BY <1>2, <1>3, <1>4, <1>5 DEF EtherInv, N

(***************************************************************************)
(* A step of the handler, of the interface or of sendmsg.                  *)
(***************************************************************************)
LEMMA EtherStep == EtherInv /\ [EtherNext]_etherVars => EtherInv'
  <1> SUFFICES ASSUME EtherInv, [EtherNext]_etherVars
               PROVE  EtherInv'
    OBVIOUS
  <1> DEFINE IsrType == [pc : {"out", "FR?", "loop", "init", "RNR?", "ack", "spinning"}, buf : RxBuffers]
             RxpType == [ptr : RxBuffers, base : RxBuffers]
             RuType == [ready : BOOLEAN, at : RxBuffers]
  <1>1. isr \in IsrType /\ rxp \in RxpType /\ ru \in RuType
    BY DEF EtherInv, EtherTypes
  <1>a. CASE Transmitted
    <2>1. UNCHANGED rxVars /\ scb' = scb \cup {"CX"}
      BY <1>a DEF Transmitted
    <2>2. UNCHANGED <<ring, rxp, ru, isr, arrived, delivered>> /\ ("RNR" \in scb' <=> "RNR" \in scb)
      BY <2>1 DEF rxVars
    <2>3. \A c \in RxBuffers : ring'[c] = ring[c]
      BY <2>2
    <2> QED
      BY <1>1, <2>2 DEF EtherInv, EtherTypes, FramesOnce, NoneTwice, FirstLap, Resetting, N
  <1>b. CASE IsrEnter
    <2>1. /\ isr.pc = "out" /\ isr' = [isr EXCEPT !.pc = "FR?"]
          /\ UNCHANGED <<ring, rxp, ru, arrived, delivered, scb>>
      BY <1>b DEF IsrEnter, IsrAt
    <2>2. isr' \in IsrType /\ isr'.pc = "FR?"
      BY <1>1, <2>1
    <2> QED
      BY <1>1, <2>1, <2>2, Elsewhere DEF Resetting, LookAt
  <1>c. CASE IsrFrames
    <2>1. /\ isr.pc = "FR?" /\ UNCHANGED <<ring, rxp, ru, arrived, delivered, scb>>
          /\ isr' = [pc |-> "loop", buf |-> rxp.ptr] \/ isr' = [isr EXCEPT !.pc = "RNR?"]
      BY <1>c DEF IsrFrames
    <2>2. isr' \in IsrType /\ ((isr'.pc = "loop" /\ isr'.buf = rxp.ptr) \/ isr'.pc = "RNR?")
      BY <1>1, <2>1
    <2> QED
      BY <1>1, <2>1, <2>2, Elsewhere DEF Resetting, LookAt
  <1>d. CASE IsrLoopEnds
    <2>1. /\ isr.pc = "loop" /\ isr' = [isr EXCEPT !.pc = "RNR?"] /\ rxp' = [rxp EXCEPT !.ptr = isr.buf]
          /\ UNCHANGED <<ring, ru, arrived, delivered, scb>>
      BY <1>d DEF IsrLoopEnds, IsrAt
    <2>2. isr' \in IsrType /\ isr'.pc = "RNR?" /\ rxp' \in RxpType /\ rxp'.ptr = isr.buf
      BY <1>1, <2>1
    <2> QED
      BY <1>1, <2>1, <2>2, Elsewhere DEF Resetting, LookAt
  <1>e. CASE IsrRestart
    <2>1. /\ isr.pc = "RNR?" /\ isr' = [isr EXCEPT !.pc = "ack"]
          /\ UNCHANGED <<ring, arrived, delivered, scb>>
          /\ IF "RNR" \in scb
             THEN /\ rxp' = [rxp EXCEPT !.base = LinkOf(@)]
                  /\ ru' = [ready |-> TRUE, at |-> LinkOf(rxp.base)]
             ELSE UNCHANGED <<rxp, ru>>
      BY <1>e DEF IsrRestart, IsrAt
    <2>2. isr' \in IsrType /\ isr'.pc = "ack"
      BY <1>1, <2>1
    <2>3. LinkOf(rxp.base) \in RxBuffers
      BY <1>1, Links
    <2>4. rxp' \in RxpType /\ rxp'.ptr = rxp.ptr /\ ru' \in RuType
      <3>1. CASE "RNR" \in scb
        <4>1. rxp' = [rxp EXCEPT !.base = LinkOf(rxp.base)]
          BY <2>1, <3>1
        <4>2. ru' = [ready |-> TRUE, at |-> LinkOf(rxp.base)]
          BY <2>1, <3>1
        <4> QED
          BY <1>1, <2>3, <4>1, <4>2
      <3>2. CASE "RNR" \notin scb
        BY <1>1, <2>1, <3>2
      <3> QED
        BY <3>1, <3>2
    <2> QED
      BY <1>1, <2>1, <2>2, <2>4, Elsewhere DEF Resetting, LookAt
  <1>f. CASE IsrAcknowledge
    <2>1. /\ isr.pc = "ack" /\ isr' = [isr EXCEPT !.pc = "out"] /\ scb' = {}
          /\ UNCHANGED <<ring, rxp, ru, arrived, delivered>>
      BY <1>f DEF IsrAcknowledge, IsrAt
    <2>2. isr' \in IsrType /\ isr'.pc = "out"
      BY <1>1, <2>1
    <2> QED
      BY <1>1, <2>1, <2>2, Elsewhere DEF Resetting, LookAt
  <1>g. CASE SendMsg
    BY <1>g DEF SendMsg, rxVars, EtherInv, EtherTypes, FramesOnce, NoneTwice, FirstLap, Resetting, N
  <1>h. CASE IsrSpins \/ EtherQuiet \/ UNCHANGED etherVars
    <2>1. UNCHANGED <<ring, rxp, ru, isr, arrived, delivered, scb>>
      BY <1>h DEF IsrSpins, EtherQuiet, etherVars, rxVars
    <2> QED
      BY <2>1 DEF EtherInv, EtherTypes, FramesOnce, NoneTwice, FirstLap, Resetting, N
  <1> QED
    BY <1>a, <1>b, <1>c, <1>d, <1>e, <1>f, <1>g, <1>h, ReceiveStep, InitRxbStep, DeliverStep
    DEF EtherNext

(***************************************************************************)
(* Whatever the interface writes into the ring between two steps of the    *)
(* handler, for a ring of any size and any number of frames: what was      *)
(* handed to _knet_process_frame is not handed on again.                   *)
(***************************************************************************)
THEOREM FrameOnce == EtherSpec => []NoneTwice
  <1>1. EtherInv => NoneTwice
    BY DEF EtherInv
  <1> QED
    BY <1>1, EtherInitInv, EtherStep, PTL DEF EtherSpec

(***************************************************************************)
(* Until a buffer is used again, frames are handed on in the order they    *)
(* came, without a gap, however late the handler runs.                     *)
(***************************************************************************)
THEOREM InOrder == EtherSpec => []FirstLapInOrder
  <1>1. EtherInv => FirstLapInOrder
    <2> SUFFICES ASSUME EtherInv, arrived <= N PROVE delivered = 1..Cardinality(delivered)
      BY DEF FirstLapInOrder, N
    <2>1. PICK d \in Nat : delivered = 1..d
      BY DEF EtherInv, FirstLap
    <2>2. Cardinality(1..d) = d
      BY <2>1, FS_Interval
    <2> QED
      BY <2>1, <2>2
  <1> QED
    BY <1>1, EtherInitInv, EtherStep, PTL DEF EtherSpec

-----------------------------------------------------------------------------
(* The PCI bus and its disk controllers *)

PciSpec == PciInit /\ [][PciNext]_pciVars

LastPlace == <<PCI_MAX_SLOT_COUNT, 0>>
Places == PciAddresses \cup {LastPlace}

Device == [address : PciAddresses, config : BusFunctions]

BusTypes ==
  /\ firmware \in PCI_BUSES
  /\ bus \in [PciAddresses -> BusFunctions]
  /\ config \in BusFunctions
  /\ devices \in Seq(Device)

Stages ==
  stage \in [doing : {"scan"}, at : Places] \cup [doing : {"panic"}]
              \cup [doing : {"ide", "channel"}, device : Nat \ {0}, channel : {0, 1}, type : {0, 1}]

\* Where the scan is; behind the bus when it is over.
Here == IF stage.doing = "scan" THEN stage.at ELSE LastPlace

\* The list: in order, of functions passed, and of all of them.
Listed(l, f, here) ==
  /\ \A m, n \in DOMAIN l : m < n => Before(l[m].address, l[n].address)
  /\ \A n \in DOMAIN l : Before(l[n].address, here) /\ f[l[n].address].class # "none"
  /\ \A a \in PciAddresses : Before(a, here) /\ f[a].class # "none" => \E n \in DOMAIN l : l[n].address = a

\* A register that printing its configuration spoils.
Moved(a, i) == i # 0 /\ firmware[a].class = "nic" /\ firmware[a].bars[i].kind = "mem"

AsRead ==
  /\ \A n \in DOMAIN devices :
       LET f == firmware[devices[n].address]
           g == devices[n].config
       IN  /\ g.class = f.class /\ g.multi = f.multi
           /\ ~ f.multi /\ f.class # "ide" => g.bars = f.bars
  /\ \A a \in PciAddresses : bus[a].class = firmware[a].class /\ bus[a].multi = firmware[a].multi
  /\ \A a \in PciAddresses : bus[a].class # "ide" =>
       \A i \in BarIndices : ~ Moved(a, i) => bus[a].bars[i] = firmware[a].bars[i]
  /\ stage.doing = "scan" => bus = firmware
  /\ stage.doing = "channel" => stage.device \in DOMAIN devices /\ devices[stage.device].config.class = "ide"

BusInv == BusTypes /\ Stages /\ Listed(devices, firmware, Here) /\ AsRead

(***************************************************************************)
(* An address is a slot and a function.                                    *)
(***************************************************************************)
LEMMA AddressIs ==
  ASSUME NEW a \in PciAddresses
  PROVE  /\ a[1] \in Nat /\ a[1] < PCI_MAX_SLOT_COUNT /\ a[2] \in Nat /\ a[2] < PCI_MAX_FUNC_COUNT
         /\ a = <<a[1], a[2]>>
  BY PciAssumption DEF PciAddresses

(***************************************************************************)
(* What is on a bus has types.                                             *)
(***************************************************************************)
LEMMA FirmwareIs ==
  ASSUME NEW b \in PCI_BUSES
  PROVE  b \in [PciAddresses -> BusFunctions]
  BY BusAssumption

(***************************************************************************)
(* The registers of a function.                                            *)
(***************************************************************************)
LEMMA FunctionIs ==
  ASSUME NEW f \in BusFunctions
  PROVE  /\ f.bars \in [BarIndices -> [kind : {"none", "io", "mem"}, base : Nat]]
         /\ f.multi \in BOOLEAN /\ f.class \in {"none", "nic", "ide", "bridge"}
         /\ \A i \in BarIndices : f.bars[i].base \in Nat
  BY DEF BusFunctions

\* Registers of the function at a were written, and nothing else.
Written(b, c, a, regs) ==
  /\ c \in [PciAddresses -> BusFunctions]
  /\ \A x \in PciAddresses : c[x].class = b[x].class /\ c[x].multi = b[x].multi
  /\ \A x \in PciAddresses : x # a => c[x] = b[x]
  /\ \A i \in BarIndices : i \notin regs => c[a].bars[i] = b[a].bars[i]

(***************************************************************************)
(* Writing registers: the others keep what they have, and so do other      *)
(* functions.                                                              *)
(***************************************************************************)
LEMMA SetBasesIs ==
  ASSUME NEW b \in [PciAddresses -> BusFunctions], NEW a \in PciAddresses, NEW regs, NEW base \in Nat
  PROVE  Written(b, SetBases(b, a, regs, base), a, {i \in regs : base # b[a].bars[i].base})
  <1> DEFINE r == [i \in BarIndices |-> IF i \in regs THEN [b[a].bars[i] EXCEPT !.base = base] ELSE b[a].bars[i]]
             c == [b EXCEPT ![a].bars = r]
             Register == [kind : {"none", "io", "mem"}, base : Nat]
  <1>1. SetBases(b, a, regs, base) = c
    BY DEF SetBases
  <1>2. b[a] \in BusFunctions /\ b[a].bars \in [BarIndices -> Register]
    BY FunctionIs
  <1>3. r \in [BarIndices -> Register]
    BY <1>2
  <1>4. \A i \in BarIndices : (i \notin regs \/ base = b[a].bars[i].base) => r[i] = b[a].bars[i]
    <2> SUFFICES ASSUME NEW i \in BarIndices, i \notin regs \/ base = b[a].bars[i].base
                 PROVE  r[i] = b[a].bars[i]
      OBVIOUS
    <2>1. CASE i \notin regs
      BY <2>1
    <2>2. CASE i \in regs /\ base = b[a].bars[i].base
      <3>1. b[a].bars[i] \in Register
        BY <1>2
      <3>2. r[i] = [b[a].bars[i] EXCEPT !.base = b[a].bars[i].base]
        BY <2>2
      <3> QED
        BY <3>1, <3>2
    <2> QED
      BY <2>1, <2>2
  <1> HIDE DEF r
  <1>5. c \in [PciAddresses -> BusFunctions] /\ c[a].bars = r
    BY <1>2, <1>3 DEF BusFunctions
  <1>6. \A x \in PciAddresses : x # a => c[x] = b[x]
    OBVIOUS
  <1>7. \A x \in PciAddresses : c[x].class = b[x].class /\ c[x].multi = b[x].multi
    BY <1>2 DEF BusFunctions
  <1> HIDE DEF c
  <1> QED
    BY <1>1, <1>4, <1>5, <1>6, <1>7 DEF Written

(***************************************************************************)
(* A base address written where it is already changes nothing.             *)
(***************************************************************************)
LEMMA SetSame ==
  ASSUME NEW b \in [PciAddresses -> BusFunctions], NEW a \in PciAddresses
  PROVE  SetBases(b, a, {0}, b[a].bars[0].base) = b
  <1> DEFINE r == [i \in BarIndices |-> IF i \in {0} THEN [b[a].bars[i] EXCEPT !.base = b[a].bars[0].base] ELSE b[a].bars[i]]
             Register == [kind : {"none", "io", "mem"}, base : Nat]
  <1>1. SetBases(b, a, {0}, b[a].bars[0].base) = [b EXCEPT ![a].bars = r]
    BY DEF SetBases
  <1>2. b[a] \in BusFunctions /\ b[a].bars \in [BarIndices -> Register] /\ 0 \in BarIndices
    BY FunctionIs DEF BarIndices
  <1>3. b[a].bars[0] \in Register
    BY <1>2
  <1>4. [b[a].bars[0] EXCEPT !.base = b[a].bars[0].base] = b[a].bars[0]
    BY <1>3
  <1>5. r = b[a].bars
    BY <1>2, <1>4
  <1> HIDE DEF r
  <1>6. [b[a] EXCEPT !.bars = b[a].bars] = b[a]
    BY <1>2 DEF BusFunctions
  <1>7. [b EXCEPT ![a] = b[a]] = b
    OBVIOUS
  <1>8. [b EXCEPT ![a].bars = r] = [b EXCEPT ![a] = [b[a] EXCEPT !.bars = r]]
    OBVIOUS
  <1> QED
    BY <1>1, <1>5, <1>6, <1>7, <1>8

(***************************************************************************)
(* _pci_read_config: what was read is the function's own, but for the base *)
(* addresses of one with the flag of several functions.                    *)
(***************************************************************************)
LEMMA ReadConfigIs ==
  ASSUME NEW c \in BusFunctions, NEW f \in BusFunctions
  PROVE  /\ ReadConfig(c, f) \in BusFunctions
         /\ ReadConfig(c, f).class = f.class /\ ReadConfig(c, f).multi = f.multi
         /\ ~ f.multi => ReadConfig(c, f).bars = f.bars
  BY DEF ReadConfig, BusFunctions

(***************************************************************************)
(* The scan passes over nothing that is there: between an address and the  *)
(* next one looked at there is no function.                                *)
(***************************************************************************)
LEMMA NextIs ==
  ASSUME NEW a \in PciAddresses, NEW b \in PCI_BUSES, NEW cfg, cfg.class = b[a].class, cfg.multi = b[a].multi
  PROVE  /\ NextAddress(a, cfg) \in Places
         /\ Before(a, NextAddress(a, cfg))
         /\ \A x \in PciAddresses : Before(x, a) => Before(x, NextAddress(a, cfg))
         /\ \A x \in PciAddresses :
              Before(x, NextAddress(a, cfg)) /\ b[x].class # "none" => x = a \/ Before(x, a)
  <1>1. /\ a[1] \in Nat /\ a[1] < PCI_MAX_SLOT_COUNT /\ a[2] \in Nat /\ a[2] < PCI_MAX_FUNC_COUNT
        /\ PCI_MAX_SLOT_COUNT \in Nat /\ PCI_MAX_FUNC_COUNT \in Nat /\ PCI_MAX_FUNC_COUNT > 0
        /\ a = <<a[1], a[2]>>
    BY AddressIs, PciAssumption
  <1>x. \A x \in PciAddresses : /\ x[1] \in Nat /\ x[1] < PCI_MAX_SLOT_COUNT /\ x[2] \in Nat
                                     /\ x[2] < PCI_MAX_FUNC_COUNT
                                /\ x = <<x[1], x[2]>>
    BY AddressIs
  <1> DEFINE p == <<a[1], a[2] + 1>>
             q == <<a[1] + 1, 0>>
             y == NextAddress(a, cfg)
  <1>2. CASE a[2] + 1 < PCI_MAX_FUNC_COUNT /\ (a[2] = 0 => cfg.class # "none" /\ cfg.multi)
    <2>1. y = p /\ p[1] = a[1] /\ p[2] = a[2] + 1
      BY <1>2 DEF NextAddress
    <2>2. p \in PciAddresses
      BY <1>1, <1>2 DEF PciAddresses
    <2>3. y[1] = a[1] /\ y[2] = a[2] + 1 /\ y \in Places
      BY <2>1, <2>2 DEF Places
    <2> HIDE DEF y
    <2>4. Before(a, y) /\ \A x \in PciAddresses : Before(x, a) => Before(x, y)
      BY <1>1, <1>x, <2>3 DEF Before
    <2>5. ASSUME NEW x \in PciAddresses, Before(x, y) PROVE x = a \/ Before(x, a)
      <3>1. x[1] < a[1] \/ (x[1] = a[1] /\ x[2] < a[2]) \/ (x[1] = a[1] /\ x[2] = a[2])
        BY <1>1, <1>x, <2>3, <2>5 DEF Before
      <3>2. x = <<x[1], x[2]>>
        BY <1>x
      <3> QED
        BY <1>1, <3>1, <3>2 DEF Before
    <2> QED
      BY <2>3, <2>4, <2>5 DEF y
  <1>3. CASE ~ (a[2] + 1 < PCI_MAX_FUNC_COUNT /\ (a[2] = 0 => cfg.class # "none" /\ cfg.multi))
    <2>1. y = q
      BY <1>3 DEF NextAddress
    <2>2. y[1] = a[1] + 1 /\ y[2] = 0
      BY <2>1
    <2>3. y \in Places
      <3>1. CASE a[1] + 1 < PCI_MAX_SLOT_COUNT
        <4>1. a[1] + 1 \in 0..(PCI_MAX_SLOT_COUNT - 1) /\ 0 \in 0..(PCI_MAX_FUNC_COUNT - 1)
          BY <1>1, <3>1
        <4> QED
          BY <2>1, <4>1 DEF Places, PciAddresses
      <3>2. CASE a[1] + 1 >= PCI_MAX_SLOT_COUNT
        <4>1. a[1] + 1 = PCI_MAX_SLOT_COUNT
          BY <1>1, <3>2
        <4> QED
          BY <2>1, <4>1 DEF Places, LastPlace
      <3> QED
        BY <1>1, <3>1, <3>2
    <2> HIDE DEF y
    <2>4. Before(a, y) /\ \A x \in PciAddresses : Before(x, a) => Before(x, y)
      BY <1>1, <1>x, <2>2 DEF Before
    <2>5. ASSUME NEW x \in PciAddresses, Before(x, y), b[x].class # "none" PROVE x = a \/ Before(x, a)
      <3> SUFFICES ASSUME x # a, ~ Before(x, a) PROVE FALSE
        OBVIOUS
      <3>1. x[1] < a[1] + 1
        BY <1>x, <2>2, <2>5 DEF Before
      <3>2. x[1] = a[1] /\ ~ (x[2] < a[2])
        BY <1>1, <1>x, <3>1 DEF Before
      <3>3. x = <<x[1], x[2]>>
        BY <1>x
      <3>4. x[2] # a[2]
        BY <1>1, <3>2, <3>3
      <3>5. x[2] > a[2] /\ x[2] # 0
        BY <1>1, <1>x, <3>2, <3>4
      <3>6. a[2] + 1 < PCI_MAX_FUNC_COUNT
        BY <1>1, <1>x, <3>5
      <3>7. a[2] = 0 /\ ~ (cfg.class # "none" /\ cfg.multi)
        BY <1>3, <3>6
      <3>8. <<x[1], 0>> = a
        BY <1>1, <3>2, <3>7
      <3>9. b[a].class # "none" /\ b[a].multi
        BY <2>5, <3>5, <3>8, BusAssumption
      <3> QED
        BY <3>7, <3>9
    <2> QED
      BY <2>3, <2>4, <2>5 DEF y
  <1> QED
    BY <1>2, <1>3

(***************************************************************************)
(* allocate_ports_align returns numbers.                                   *)
(***************************************************************************)
LEMMA PortsNat ==
  ASSUME NEW p \in Nat, NEW n \in Nat, NEW a \in {4, 8, 16}
  PROVE  AllocatePorts(p, n, a)[1] \in Nat /\ AllocatePorts(p, n, a)[2] \in Nat
  <1> DEFINE end == (p + n) % PORT_NUMBERS
             off == (a - (end % a)) % a
             new == (end + off) % PORT_NUMBERS
             r == AllocatePorts(p, n, a)
  <1>1. PORT_NUMBERS \in Nat /\ PORT_NUMBERS > 0 /\ a \in Nat /\ a > 0
    BY DEF PORT_NUMBERS
  <1>2. end \in Nat
    BY <1>1
  <1> HIDE DEF end
  <1>3. end % a \in Nat /\ end % a < a
    BY <1>1, <1>2
  <1>4. off \in Nat
    BY <1>1, <1>3
  <1> HIDE DEF off
  <1>5. new \in Nat /\ (p + off) % PORT_NUMBERS \in Nat
    BY <1>1, <1>2, <1>4
  <1> HIDE DEF new
  <1>6. r = IF new <= last_port THEN <<(p + off) % PORT_NUMBERS, new>> ELSE <<0, p>>
    BY DEF AllocatePorts, end, off, new
  <1>7. CASE new <= last_port
    <2>1. r = <<(p + off) % PORT_NUMBERS, new>>
      BY <1>6, <1>7
    <2> QED
      BY <1>5, <2>1
  <1>8. CASE ~ (new <= last_port)
    <2>1. r = <<0, p>>
      BY <1>6, <1>8
    <2> QED
      BY <2>1
  <1> QED
    BY <1>7, <1>8

(***************************************************************************)
(* Setting a base address changes no other.                                *)
(***************************************************************************)
LEMMA SetBarIs ==
  ASSUME NEW b \in [PciAddresses -> BusFunctions], NEW a \in PciAddresses, NEW i \in BarIndices,
         NEW port \in Nat
  PROVE  /\ Written(b, SetBar(b, a, i, port), a, {i})
         /\ SetBar(b, a, i, port)[a].bars[i].base = port
  <1> DEFINE Register == [kind : {"none", "io", "mem"}, base : Nat]
             r == [b[a].bars EXCEPT ![i].base = port]
             c == [b EXCEPT ![a].bars[i].base = port]
  <1>2. b[a] \in BusFunctions /\ b[a].bars \in [BarIndices -> Register]
    BY FunctionIs
  <1>3. r \in [BarIndices -> Register] /\ r[i].base = port /\ \A j \in BarIndices : j # i =>
          r[j] = b[a].bars[j]
    BY <1>2
  <1>4. c = [b EXCEPT ![a].bars = r] /\ SetBar(b, a, i, port) = c
    BY DEF SetBar
  <1> HIDE DEF r, c
  <1>5. c \in [PciAddresses -> BusFunctions] /\ c[a].bars = r
    <2> DEFINE g == [b[a] EXCEPT !.bars = r]
    <2>1. g \in BusFunctions /\ g.bars = r
      BY <1>2, <1>3 DEF BusFunctions
    <2>2. c = [b EXCEPT ![a] = g]
      BY <1>4
    <2> HIDE DEF g
    <2> QED
      BY <2>1, <2>2
  <1>6. \A x \in PciAddresses : x # a => c[x] = b[x]
    BY <1>4
  <1>7. \A x \in PciAddresses : c[x].class = b[x].class /\ c[x].multi = b[x].multi
    BY <1>2, <1>4 DEF BusFunctions
  <1> QED
    BY <1>3, <1>4, <1>5, <1>6, <1>7 DEF Written

\* The list with a base address noted in a configuration.
Noted(l, n, i, base) == [l EXCEPT ![n].config.bars[i].base = base]

\* Nothing but that base address is other in list k.
SameBut(l, k, n, i) ==
  /\ k \in Seq(Device) /\ DOMAIN k = DOMAIN l
  /\ \A m \in DOMAIN l : m # n => k[m] = l[m]
  /\ \A m \in DOMAIN l : /\ k[m].address = l[m].address
                         /\ k[m].config.class = l[m].config.class
                         /\ k[m].config.multi = l[m].config.multi
  /\ \A j \in BarIndices : j # i => k[n].config.bars[j] = l[n].config.bars[j]

(***************************************************************************)
(* Noting one changes nothing else in the list.                            *)
(***************************************************************************)
LEMMA NotedIs ==
  ASSUME NEW l \in Seq(Device), NEW n \in DOMAIN l, NEW i \in BarIndices, NEW base \in Nat
  PROVE  SameBut(l, Noted(l, n, i, base), n, i)
  <1> DEFINE Register == [kind : {"none", "io", "mem"}, base : Nat]
             d == l[n]
             r == [d.config.bars EXCEPT ![i].base = base]
             g == [d.config EXCEPT !.bars = r]
             e == [d EXCEPT !.config = g]
             c == [l EXCEPT ![n] = e]
  <1>1. d \in Device /\ d.config \in BusFunctions /\ d.config.bars \in [BarIndices -> Register]
          /\ d.address \in PciAddresses
    <2>1. d \in Device
      OBVIOUS
    <2> HIDE DEF d
    <2>2. d.config \in BusFunctions /\ d.address \in PciAddresses
      BY <2>1 DEF Device
    <2> QED
      BY <2>1, <2>2, FunctionIs
  <1>2. c = Noted(l, n, i, base)
    BY DEF Noted
  <1> HIDE DEF d
  <1>3. r \in [BarIndices -> Register] /\ \A j \in BarIndices : j # i => r[j] = d.config.bars[j]
    BY <1>1
  <1> HIDE DEF r
  <1>4. g \in BusFunctions /\ g.bars = r /\ g.class = d.config.class /\ g.multi = d.config.multi
    BY <1>1, <1>3 DEF BusFunctions
  <1> HIDE DEF g
  <1>5. e \in Device /\ e.config = g /\ e.address = d.address
    BY <1>1, <1>4 DEF Device
  <1> HIDE DEF e
  <1>6. c \in Seq(Device) /\ DOMAIN c = DOMAIN l /\ c[n] = e /\ \A m \in DOMAIN l : m # n => c[m] = l[m]
    BY <1>5
  <1> HIDE DEF c
  <1>7. \A j \in BarIndices : j # i => c[n].config.bars[j] = l[n].config.bars[j]
    BY <1>3, <1>4, <1>5, <1>6 DEF d
  <1>8. \A m \in DOMAIN l :
          c[m].address = l[m].address /\ c[m].config.class = l[m].config.class
            /\ c[m].config.multi = l[m].config.multi
    <2> SUFFICES ASSUME NEW m \in DOMAIN l
                 PROVE  c[m].address = l[m].address /\ c[m].config.class = l[m].config.class
                          /\ c[m].config.multi = l[m].config.multi
      OBVIOUS
    <2>1. CASE m = n
      BY <1>4, <1>5, <1>6, <2>1 DEF d
    <2>2. CASE m # n
      BY <1>6, <2>2
    <2> QED
      BY <2>1, <2>2
  <1> QED
    BY <1>2, <1>6, <1>7, <1>8 DEF SameBut

(***************************************************************************)
(* The elements of a sequence.                                             *)
(***************************************************************************)
LEMMA InSeq ==
  ASSUME NEW T, NEW s \in Seq(T)
  PROVE  Len(s) \in Nat /\ DOMAIN s = 1..Len(s) /\ \A n \in DOMAIN s : s[n] \in T
  OBVIOUS

(***************************************************************************)
(* The list is no longer than the bus has places.                          *)
(***************************************************************************)
LEMMA ListedShort ==
  ASSUME BusTypes, Listed(devices, firmware, Here)
  PROVE  Len(devices) <= PCI_MAX_SLOT_COUNT * PCI_MAX_FUNC_COUNT
  <1> DEFINE S == 0..(PCI_MAX_SLOT_COUNT - 1)
             T == 0..(PCI_MAX_FUNC_COUNT - 1)
             len == Len(devices)
             f == [n \in 1..len |-> devices[n].address]
  <1>1. PCI_MAX_SLOT_COUNT \in Nat /\ PCI_MAX_FUNC_COUNT \in Nat
    BY PciAssumption
  <1>2. /\ IsFiniteSet(S) /\ Cardinality(S) = PCI_MAX_SLOT_COUNT
        /\ IsFiniteSet(T) /\ Cardinality(T) = PCI_MAX_FUNC_COUNT
    BY <1>1, FS_Interval, SMTT(30)
  <1>3. IsFiniteSet(PciAddresses) /\ Cardinality(PciAddresses) = PCI_MAX_SLOT_COUNT * PCI_MAX_FUNC_COUNT
    <2> HIDE DEF S, T
    <2>1. IsFiniteSet(S \X T) /\ Cardinality(S \X T) = Cardinality(S) * Cardinality(T)
      BY <1>2, FS_Product
    <2> QED
      BY <1>2, <2>1 DEF PciAddresses, S, T
  <1>4. len \in Nat /\ DOMAIN devices = 1..len /\ \A n \in 1..len : devices[n].address \in PciAddresses
    <2>1. devices \in Seq(Device)
      BY DEF BusTypes
    <2>2. len \in Nat /\ DOMAIN devices = 1..len
      BY <2>1
    <2>3. \A n \in 1..len : devices[n] \in Device
      BY <2>1, <2>2, InSeq
    <2> HIDE DEF len
    <2>4. \A n \in 1..len : devices[n].address \in PciAddresses
      BY <2>3 DEF Device
    <2> QED
      BY <2>2, <2>4
  <1>5. \A m, n \in 1..len : m < n => devices[m].address # devices[n].address
    <2> SUFFICES ASSUME NEW m \in 1..len, NEW n \in 1..len, m < n, devices[m].address = devices[n].address
                 PROVE  FALSE
      OBVIOUS
    <2> DEFINE a == devices[m].address
    <2>1. Before(a, a) /\ a \in PciAddresses
      BY <1>4 DEF Listed
    <2> HIDE DEF a
    <2> QED
      BY <2>1, AddressIs DEF Before
  <1>6. f \in Injection(1..len, PciAddresses)
    <2>1. f \in [1..len -> PciAddresses]
      BY <1>4
    <2>2. \A m, n \in 1..len : f[m] = f[n] => m = n
      BY <1>4, <1>5
    <2> QED
      BY <2>1, <2>2 DEF Injection, IsInjective
  <1>7. Cardinality(1..len) <= Cardinality(PciAddresses) /\ Cardinality(1..len) = len
    <2>1. Cardinality(1..len) = len
      BY <1>4, FS_Interval
    <2> HIDE DEF len, f
    <2>2. Cardinality(1..len) <= Cardinality(PciAddresses)
      BY <1>3, <1>6, FS_Injection
    <2> QED
      BY <2>1, <2>2
  <1> QED
    BY <1>3, <1>7

(***************************************************************************)
(* What all steps need to know.                                            *)
(***************************************************************************)
LEMMA BusFacts ==
  ASSUME BusInv
  PROVE  /\ firmware \in PCI_BUSES /\ firmware \in [PciAddresses -> BusFunctions]
         /\ bus \in [PciAddresses -> BusFunctions] /\ config \in BusFunctions
         /\ devices \in Seq(Device) /\ Len(devices) \in Nat /\ DOMAIN devices = 1..Len(devices)
         /\ \A n \in DOMAIN devices : /\ devices[n] \in Device /\ devices[n].address \in PciAddresses
                                           /\ devices[n].config \in BusFunctions
                                      /\ \A i \in BarIndices : devices[n].config.bars[i].base \in Nat
  <1>1. BusTypes
    BY DEF BusInv
  <1>2. firmware \in [PciAddresses -> BusFunctions] /\ devices \in Seq(Device)
    BY <1>1, FirmwareIs DEF BusTypes
  <1>3. Len(devices) \in Nat /\ DOMAIN devices = 1..Len(devices) /\ \A n \in DOMAIN devices :
          devices[n] \in Device
    BY <1>2, InSeq
  <1>4. \A n \in DOMAIN devices : devices[n].address \in PciAddresses /\ devices[n].config \in BusFunctions
    BY <1>3 DEF Device
  <1> QED
    BY <1>1, <1>2, <1>3, <1>4, FunctionIs DEF BusTypes

(***************************************************************************)
(* The invariant holds when the scan begins.                               *)
(***************************************************************************)
LEMMA BusBegins == PciInit => BusInv
  <1> SUFFICES ASSUME PciInit PROVE BusInv
    OBVIOUS
  <1>1. firmware \in PCI_BUSES /\ bus = firmware /\ bus \in [PciAddresses -> BusFunctions]
    BY FirmwareIs DEF PciInit
  <1>2. config \in BusFunctions
    <2>1. PICK left \in {NO_BAR, Bar("io", FIRST_PORT)} :
                 config = [ABSENT EXCEPT !.bars = [i \in BarIndices |-> left]]
      BY DEF PciInit
    <2>2. left \in [kind : {"none", "io", "mem"}, base : Nat]
      BY <2>1, PciAssumption DEF NO_BAR, Bar
    <2> QED
      BY <2>1, <2>2 DEF ABSENT, BusFunctions
  <1>3. devices = <<>> /\ stage.doing = "scan" /\ stage.at = <<0, 0>>
          /\ stage \in [doing : {"scan"}, at : Places]
    <2>1. <<0, 0>> \in Places
      BY PciAssumption DEF Places, PciAddresses
    <2> QED
      BY <2>1 DEF PciInit, Scanning
  <1>4. BusTypes /\ Stages
    BY <1>1, <1>2, <1>3 DEF BusTypes, Stages
  <1>5. Listed(devices, firmware, Here)
    <2>1. Here = <<0, 0>> /\ DOMAIN devices = {}
      BY <1>3 DEF Here
    <2>2. \A a \in PciAddresses : ~ Before(a, <<0, 0>>)
      BY AddressIs DEF Before
    <2> QED
      BY <2>1, <2>2 DEF Listed
  <1>6. AsRead
    BY <1>1, <1>3 DEF AsRead
  <1> QED
    BY <1>4, <1>5, <1>6 DEF BusInv

(***************************************************************************)
(* A list stays in order when only configurations in it change.            *)
(***************************************************************************)
LEMMA ListedStays ==
  ASSUME NEW l, NEW k, NEW f, NEW here, Listed(l, f, here), DOMAIN k = DOMAIN l,
         \A n \in DOMAIN l : k[n].address = l[n].address
  PROVE  Listed(k, f, here)
  BY DEF Listed

(***************************************************************************)
(* _pci_scan, a function: listed as it was read, with its first register   *)
(* written back.                                                           *)
(***************************************************************************)
LEMMA ScanKeeps == ASSUME BusInv, ScanFunction PROVE BusInv'
  <1> DEFINE a == stage.at
             f == bus[a]
             cfg == ReadConfig(config, f)
             y == NextAddress(a, cfg)
             Len1 == Len(devices) + 1
  <1>1. /\ stage.doing = "scan" /\ a \in PciAddresses /\ config' = cfg /\ stage' = Scanning(y)
             /\ firmware' = firmware
        /\ IF cfg.class = "none" THEN devices' = devices /\ bus' = bus
           ELSE /\ devices' = Append(devices, [address |-> a, config |-> cfg])
                /\ bus' = IF cfg.multi THEN bus ELSE ReadBarSize(bus, a, cfg, {0})
    BY DEF ScanFunction
  <1>2. /\ firmware \in PCI_BUSES /\ firmware \in [PciAddresses -> BusFunctions] /\ bus = firmware
        /\ config \in BusFunctions /\ devices \in Seq(Device) /\ Len(devices) \in Nat
             /\ DOMAIN devices = 1..Len(devices)
        /\ \A n \in DOMAIN devices : devices[n] \in Device /\ devices[n].address \in PciAddresses
    BY <1>1, BusFacts DEF BusInv, AsRead
  <1>3. f \in BusFunctions /\ f = firmware[a]
    BY <1>1, <1>2
  <1>4. cfg \in BusFunctions /\ cfg.class = f.class /\ cfg.multi = f.multi /\ (~ f.multi => cfg.bars = f.bars)
    BY <1>2, <1>3, ReadConfigIs
  <1>5. bus' = bus
    <2>1. CASE cfg.class = "none" \/ cfg.multi
      BY <1>1, <2>1
    <2>2. CASE ~ (cfg.class = "none" \/ cfg.multi)
      <3>1. bus' = SetBases(bus, a, {0}, cfg.bars[0].base)
        BY <1>1, <2>2 DEF ReadBarSize
      <3>2. cfg.bars[0].base = bus[a].bars[0].base
        BY <1>4, <2>2
      <3> HIDE DEF cfg, a
      <3> QED
        BY <1>1, <1>2, <3>1, <3>2, SetSame DEF f
    <2> QED
      BY <2>1, <2>2
  <1>6. Here = a /\ Here' = y /\ stage'.doing = "scan" /\ stage'.at = y
    BY <1>1 DEF Here, Scanning
  <1>7. /\ y \in Places /\ Before(a, y)
        /\ \A x \in PciAddresses : Before(x, a) => Before(x, y)
        /\ \A x \in PciAddresses : Before(x, y) /\ firmware[x].class # "none" => x = a \/ Before(x, a)
    <2> HIDE DEF cfg
    <2> QED
      BY <1>1, <1>2, <1>3, <1>4, NextIs
  <1>8. Listed(devices, firmware, a)
    BY <1>6 DEF BusInv
  <1> HIDE DEF y, a, f, cfg
  <1>9. Stages'
    BY <1>1, <1>7 DEF Stages, Scanning
  <1>10. CASE cfg.class = "none"
    <2>1. devices' = devices
      BY <1>1, <1>10
    <2>2. BusTypes'
      BY <1>1, <1>2, <1>4, <1>5, <2>1 DEF BusTypes
    <2>3. Listed(devices, firmware, y)
      <3>1. firmware[a].class = "none"
        BY <1>3, <1>4, <1>10
      <3> QED
        BY <1>2, <1>7, <1>8, <3>1 DEF Listed
    <2>4. AsRead'
      BY <1>1, <1>2, <1>5, <1>6, <2>1 DEF AsRead, BusInv
    <2> QED
      BY <1>1, <1>6, <1>9, <2>1, <2>2, <2>3, <2>4 DEF BusInv
  <1>11. CASE cfg.class # "none"
    <2> DEFINE d == [address |-> a, config |-> cfg]
    <2>1. devices' = Append(devices, d)
      BY <1>1, <1>11
    <2>2. d \in Device /\ d.address = a /\ d.config = cfg
      BY <1>1, <1>4 DEF Device
    <2> HIDE DEF d
    <2>3. /\ devices' \in Seq(Device) /\ DOMAIN devices' = 1..Len1 /\ devices'[Len1] = d
          /\ \A n \in DOMAIN devices : devices'[n] = devices[n]
      BY <1>2, <2>1, <2>2
    <2>4. \A n \in DOMAIN devices' : n \in DOMAIN devices \/ n = Len1
      BY <1>2, <2>3
    <2>5. BusTypes'
      BY <1>1, <1>2, <1>4, <1>5, <2>3 DEF BusTypes
    <2>6. Listed(devices', firmware, y)
      <3>1. ASSUME NEW m \in DOMAIN devices', NEW n \in DOMAIN devices', m < n
            PROVE  Before(devices'[m].address, devices'[n].address)
        <4>1. m \in DOMAIN devices /\ m # Len1
          BY <1>2, <2>3, <3>1
        <4>2. CASE n = Len1
          BY <1>8, <2>2, <2>3, <4>1, <4>2 DEF Listed
        <4>3. CASE n # Len1
          <5>1. n \in DOMAIN devices
            BY <2>4, <4>3
          <5> QED
            BY <1>8, <2>3, <3>1, <4>1, <5>1 DEF Listed
        <4> QED
          BY <4>2, <4>3
      <3>2. ASSUME NEW n \in DOMAIN devices'
            PROVE  Before(devices'[n].address, y) /\ firmware[devices'[n].address].class # "none"
        <4>1. CASE n = Len1
          BY <1>3, <1>4, <1>7, <1>11, <2>2, <2>3, <4>1
        <4>2. CASE n # Len1
          <5>1. n \in DOMAIN devices
            BY <2>4, <4>2
          <5> QED
            BY <1>2, <1>7, <1>8, <2>3, <5>1 DEF Listed
        <4> QED
          BY <4>1, <4>2
      <3>3. ASSUME NEW x \in PciAddresses, Before(x, y), firmware[x].class # "none"
            PROVE  \E n \in DOMAIN devices' : devices'[n].address = x
        <4>1. CASE x = a
          <5>1. Len1 \in DOMAIN devices' /\ devices'[Len1].address = x
            BY <1>2, <2>2, <2>3, <4>1
          <5> QED
            BY <5>1
        <4>2. CASE Before(x, a)
          <5>1. PICK n \in DOMAIN devices : devices[n].address = x
            BY <1>8, <3>3, <4>2 DEF Listed
          <5>2. n \in DOMAIN devices' /\ devices'[n].address = x
            BY <1>2, <2>3, <5>1
          <5> QED
            BY <5>2
        <4> QED
          BY <1>7, <3>3, <4>1, <4>2
      <3> QED
        BY <3>1, <3>2, <3>3 DEF Listed
    <2>7. AsRead'
      <3>1. ASSUME NEW n \in DOMAIN devices'
            PROVE  LET h == firmware[devices'[n].address]
                       g == devices'[n].config
                   IN  g.class = h.class /\ g.multi = h.multi
                     /\ (~ h.multi /\ h.class # "ide" => g.bars = h.bars)
        <4>1. CASE n = Len1
          BY <1>3, <1>4, <2>2, <2>3, <4>1
        <4>2. CASE n # Len1
          <5>1. n \in DOMAIN devices
            BY <2>4, <4>2
          <5> QED
            BY <2>3, <5>1 DEF BusInv, AsRead
        <4> QED
          BY <4>1, <4>2
      <3> QED
        BY <1>1, <1>2, <1>5, <1>6, <3>1 DEF AsRead
    <2> QED
      BY <1>1, <1>6, <1>9, <2>5, <2>6, <2>7 DEF BusInv
  <1> QED
    BY <1>10, <1>11

(***************************************************************************)
(* After the scan, a step that changes no more than the registers of disk  *)
(* controllers, and of a network interface its memory.                     *)
(***************************************************************************)
LEMMA AfterScan ==
  ASSUME BusInv, firmware' = firmware, config' = config,
         Here' = Here, stage.doing # "scan" \/ Here = LastPlace, stage'.doing # "scan", Stages',
         stage'.doing = "channel" =>
           stage'.device \in DOMAIN devices /\ devices[stage'.device].config.class = "ide",
         devices' \in Seq(Device), DOMAIN devices' = DOMAIN devices,
         \A n \in DOMAIN devices : /\ devices'[n].address = devices[n].address
                                   /\ devices'[n].config.class = devices[n].config.class
                                   /\ devices'[n].config.multi = devices[n].config.multi
                                   /\ devices[n].config.class # "ide" =>
                                        devices'[n].config.bars = devices[n].config.bars,
         bus' \in [PciAddresses -> BusFunctions],
         \A a \in PciAddresses : bus'[a].class = bus[a].class /\ bus'[a].multi = bus[a].multi,
         \A a \in PciAddresses :
           bus[a].class # "ide" => \A i \in BarIndices : ~ Moved(a, i) => bus'[a].bars[i] = bus[a].bars[i]
  PROVE  BusInv'
  <1>1. BusTypes /\ Listed(devices, firmware, Here) /\ AsRead
    BY DEF BusInv
  <1>2. \A n \in DOMAIN devices : devices[n].address \in PciAddresses
    BY BusFacts
  <1>3. BusTypes'
    BY <1>1 DEF BusTypes
  <1>4. Listed(devices', firmware, Here)
    BY <1>1, ListedStays
  <1>5. AsRead'
    <2>1. ASSUME NEW n \in DOMAIN devices'
          PROVE  LET h == firmware[devices'[n].address]
                     g == devices'[n].config
                 IN  g.class = h.class /\ g.multi = h.multi
                   /\ (~ h.multi /\ h.class # "ide" => g.bars = h.bars)
      BY <1>1 DEF AsRead
    <2>2. ASSUME NEW a \in PciAddresses
          PROVE  /\ bus'[a].class = firmware[a].class /\ bus'[a].multi = firmware[a].multi
                 /\ bus'[a].class # "ide" =>
                      \A i \in BarIndices : ~ Moved(a, i) => bus'[a].bars[i] = firmware[a].bars[i]
      BY <1>1 DEF AsRead
    <2>3. \A a, i : Moved(a, i)' <=> Moved(a, i)
      BY DEF Moved
    <2>4. stage'.doing = "channel" =>
            stage'.device \in DOMAIN devices' /\ devices'[stage'.device].config.class = "ide"
      OBVIOUS
    <2> QED
      BY <2>1, <2>2, <2>3, <2>4 DEF AsRead
  <1> QED
    BY <1>3, <1>4, <1>5 DEF BusInv

(***************************************************************************)
(* _pci_get_device: what it finds is of the class asked for.               *)
(***************************************************************************)
LEMMA FirstOfIs ==
  ASSUME BusInv, NEW class, FirstOf(class) # 0
  PROVE  FirstOf(class) \in DOMAIN devices /\ devices[FirstOf(class)].config.class = class
  <1> DEFINE found == {n \in DOMAIN devices : devices[n].config.class = class}
             k == CHOOSE n \in found : \A m \in found : n <= m
  <1>1. FirstOf(class) = IF found = {} THEN 0 ELSE k
    BY DEF FirstOf
  <1>2. found # {}
    BY <1>1
  <1>3. found \in SUBSET Nat
    BY BusFacts
  <1>4. \E n \in found : \A m \in found : n <= m
    <2> HIDE DEF found
    <2> QED
      BY <1>2, <1>3, LeastOf
  <1>5. k \in found
    <2> HIDE DEF found
    <2> QED
      BY <1>4
  <1> HIDE DEF k
  <1> QED
    BY <1>1, <1>2, <1>5

(***************************************************************************)
(* The network driver: printing a configuration moves no more than memory. *)
(***************************************************************************)
LEMMA NicKeeps == ASSUME BusInv, NicInit PROVE BusInv'
  <1> DEFINE n == FirstOf("nic")
             d == devices[n]
             regs == SizedByPrint(d.config)
  <1>1. /\ stage.doing = "scan" /\ stage.at \notin PciAddresses
        /\ firmware' = firmware /\ config' = config /\ devices' = devices
        /\ IF n = 0 THEN stage' = [doing |-> "panic"] /\ bus' = bus
           ELSE /\ stage' = [doing |-> "ide", device |-> 1, channel |-> 0, type |-> 0]
                /\ bus' = SetBases(bus, d.address, regs, d.config.bars[0].base)
    BY DEF NicInit, ReadBarSize
  <1>2. Stages /\ AsRead
    BY DEF BusInv
  <1>3. Here = LastPlace /\ Here' = LastPlace /\ stage'.doing # "scan" /\ stage'.doing # "channel"
    BY <1>1, <1>2 DEF Here, Stages, Places
  <1>4. Stages'
    BY <1>1 DEF Stages
  <1>5. bus \in [PciAddresses -> BusFunctions] /\ bus = firmware /\ devices \in Seq(Device)
    BY <1>1, <1>2, BusFacts DEF AsRead
  <1>6. /\ bus' \in [PciAddresses -> BusFunctions]
        /\ \A a \in PciAddresses : bus'[a].class = bus[a].class /\ bus'[a].multi = bus[a].multi
        /\ \A a \in PciAddresses :
             bus[a].class # "ide" => \A i \in BarIndices : ~ Moved(a, i) => bus'[a].bars[i] = bus[a].bars[i]
    <2>1. CASE n = 0
      BY <1>1, <1>5, <2>1
    <2>2. CASE n # 0
      <3> DEFINE base == d.config.bars[0].base
      <3>1. n \in DOMAIN devices /\ d.config.class = "nic"
        BY <2>2, FirstOfIs
      <3>2. d.address \in PciAddresses /\ base \in Nat /\ d.config \in BusFunctions
        BY <3>1, BusFacts DEF BarIndices
      <3>3. firmware[d.address].class = "nic"
              /\ (~ d.config.multi => d.config.bars = firmware[d.address].bars)
        BY <1>2, <3>1 DEF AsRead
      <3> HIDE DEF n
      <3>4. \A i \in regs : i \in BarIndices /\ ~ d.config.multi /\ d.config.bars[i].kind = "mem"
        BY DEF SizedByPrint
      <3> HIDE DEF regs
      <3>5. /\ bus' \in [PciAddresses -> BusFunctions]
            /\ \A x \in PciAddresses : x # d.address => bus'[x] = bus[x]
            /\ \A x \in PciAddresses : bus'[x].class = bus[x].class /\ bus'[x].multi = bus[x].multi
            /\ \A i \in BarIndices :
                 i \in regs /\ base = bus[d.address].bars[i].base =>
                   bus'[d.address].bars[i] = bus[d.address].bars[i]
            /\ \A i \in BarIndices : i \notin regs => bus'[d.address].bars[i] = bus[d.address].bars[i]
        <4> DEFINE others == {i \in regs : base # bus[d.address].bars[i].base}
        <4>1. bus' = SetBases(bus, d.address, regs, base)
          BY <1>1, <2>2
        <4>2. Written(bus, SetBases(bus, d.address, regs, base), d.address, others)
          <5> HIDE DEF base, d
          <5> QED
            BY <1>5, <3>2, SetBasesIs
        <4>3. \A i : (i \notin regs => i \notin others)
                /\ (base = bus[d.address].bars[i].base => i \notin others)
          OBVIOUS
        <4> HIDE DEF others
        <4> QED
          BY <4>1, <4>2, <4>3 DEF Written
      <3>6. ASSUME NEW i \in BarIndices, ~ Moved(d.address, i)
            PROVE  bus'[d.address].bars[i] = bus[d.address].bars[i]
        <4>1. CASE i \in regs
          <5>1. d.config.bars = firmware[d.address].bars /\ d.config.bars[i].kind = "mem"
            BY <3>3, <3>4, <4>1
          <5>2. i = 0
            BY <3>3, <3>6, <5>1 DEF Moved
          <5>3. base = bus[d.address].bars[i].base
            BY <1>5, <5>1, <5>2
          <5> QED
            BY <3>5, <4>1, <5>3
        <4>2. CASE i \notin regs
          BY <3>5, <4>2
        <4> QED
          BY <4>1, <4>2
      <3>7. ASSUME NEW a \in PciAddresses, NEW i \in BarIndices, ~ Moved(a, i)
            PROVE  bus'[a].bars[i] = bus[a].bars[i]
        BY <3>5, <3>6, <3>7
      <3> QED
        BY <3>5, <3>7
    <2> QED
      BY <2>1, <2>2
  <1> QED
    BY <1>1, <1>3, <1>4, <1>5, <1>6, AfterScan

(***************************************************************************)
(* _ide_init passes over other devices.                                    *)
(***************************************************************************)
LEMMA SkipKeeps == ASSUME BusInv, IdeSkip PROVE BusInv'
  <1>1. /\ stage.doing = "ide" /\ stage' = [stage EXCEPT !.device = @ + 1]
        /\ UNCHANGED <<firmware, bus, config, devices>>
    BY DEF IdeSkip
  <1>2. Stages
    BY DEF BusInv
  <1>3. stage \in [doing : {"ide", "channel"}, device : Nat \ {0}, channel : {0, 1}, type : {0, 1}]
    BY <1>1, <1>2 DEF Stages
  <1>4. stage' \in [doing : {"ide", "channel"}, device : Nat \ {0}, channel : {0, 1}, type : {0, 1}]
          /\ stage'.doing = "ide"
    BY <1>1, <1>3
  <1>5. Stages' /\ Here' = Here
    BY <1>1, <1>4 DEF Stages, Here
  <1>6. bus \in [PciAddresses -> BusFunctions] /\ devices \in Seq(Device)
    BY BusFacts
  <1> QED
    BY <1>1, <1>4, <1>5, <1>6, AfterScan

IdeStages == [doing : {"ide", "channel"}, device : Nat \ {0}, channel : {0, 1}, type : {0, 1}]

(***************************************************************************)
(* _ide_init, the bus master register of a controller.                     *)
(***************************************************************************)
LEMMA ControllerKeeps == ASSUME BusInv, current_port \in Nat, IdeController PROVE BusInv'
  <1> DEFINE n == stage.device
             d == devices[n]
             p == AllocatePorts(current_port, 16, 16)[1]
  <1>1. /\ stage.doing = "ide" /\ n \in DOMAIN devices /\ d.config.class = "ide" /\ firmware' = firmware
             /\ config' = config
        /\ stage' = [stage EXCEPT !.doing = "channel", !.type = 0]
        /\ \/ bus' = bus /\ devices' = devices
           \/ bus' = SetBar(bus, d.address, BAR_BM, p) /\ devices' = Noted(devices, n, BAR_BM, p)
    BY DEF IdeController, Noted
  <1>2. stage \in IdeStages
    BY <1>1 DEF BusInv, Stages, IdeStages
  <1>3. stage' \in IdeStages /\ stage'.doing = "channel" /\ stage'.device = n
    BY <1>1, <1>2 DEF IdeStages
  <1>4. Stages' /\ Here' = Here
    BY <1>1, <1>3 DEF Stages, Here, IdeStages
  <1>5. p \in Nat /\ BAR_BM \in BarIndices
    BY PortsNat DEF BAR_BM, BarIndices
  <1>6. bus \in [PciAddresses -> BusFunctions] /\ devices \in Seq(Device) /\ d.address \in PciAddresses
          /\ bus[d.address].class = "ide"
    BY <1>1, BusFacts DEF BusInv, AsRead
  <1> HIDE DEF p, n
  <1>7. /\ bus' \in [PciAddresses -> BusFunctions]
        /\ \A a \in PciAddresses : bus'[a].class = bus[a].class /\ bus'[a].multi = bus[a].multi
        /\ \A a \in PciAddresses : bus[a].class # "ide" => bus'[a] = bus[a]
    <2>1. CASE bus' = bus
      BY <1>6, <2>1
    <2>2. CASE bus' = SetBar(bus, d.address, BAR_BM, p)
      <3>1. Written(bus, bus', d.address, {BAR_BM})
        BY <1>5, <1>6, <2>2, SetBarIs
      <3> QED
        BY <1>6, <3>1 DEF Written
    <2> QED
      BY <1>1, <2>1, <2>2
  <1>8. /\ devices' \in Seq(Device) /\ DOMAIN devices' = DOMAIN devices
        /\ \A m \in DOMAIN devices : /\ devices'[m].address = devices[m].address
                                     /\ devices'[m].config.class = devices[m].config.class
                                     /\ devices'[m].config.multi = devices[m].config.multi
        /\ \A m \in DOMAIN devices : m # n => devices'[m] = devices[m]
    <2>1. CASE devices' = devices
      BY <1>6, <2>1
    <2>2. CASE devices' = Noted(devices, n, BAR_BM, p)
      <3>1. SameBut(devices, devices', n, BAR_BM)
        BY <1>1, <1>5, <1>6, <2>2, NotedIs
      <3> QED
        BY <3>1 DEF SameBut
    <2> QED
      BY <1>1, <2>1, <2>2
  <1>9. \A m \in DOMAIN devices :
          devices[m].config.class # "ide" => devices'[m].config.bars = devices[m].config.bars
    BY <1>1, <1>8
  <1>10. stage'.doing = "channel" =>
           stage'.device \in DOMAIN devices /\ devices[stage'.device].config.class = "ide"
    BY <1>1, <1>3
  <1> QED
    BY <1>1, <1>3, <1>4, <1>7, <1>8, <1>9, <1>10, AfterScan

(***************************************************************************)
(* _ide_init, a channel.                                                   *)
(***************************************************************************)
LEMMA ChannelKeeps == ASSUME BusInv, current_port \in Nat, NEW found, IdeChannel(found) PROVE BusInv'
  <1> DEFINE n == stage.device
             d == devices[n]
             i == stage.channel
             io == AllocatePorts(current_port, 8, 8)
             control == AllocatePorts(io[2], 4, 4)
             type == IF stage.type = 1 \/ d.config.bars[2 * i].base = 0 THEN 1 ELSE 0
  <1>1. /\ stage.doing = "channel" /\ firmware' = firmware /\ config' = config
        /\ stage' = IF i = 0 THEN [stage EXCEPT !.channel = 1, !.type = type]
                    ELSE [stage EXCEPT !.doing = "ide", !.device = @ + 1, !.channel = 0]
        /\ \/ bus' = bus /\ devices' = devices
           \/ /\ bus' = SetBar(SetBar(bus, d.address, 2 * i, io[1]), d.address, 2 * i + 1, control[1])
              /\ devices' = Noted(devices, n, 2 * i, control[1])
    BY DEF IdeChannel, Noted
  <1>2. stage \in IdeStages /\ n \in DOMAIN devices /\ d.config.class = "ide"
    BY <1>1 DEF BusInv, Stages, IdeStages, AsRead
  <1>t. type \in {0, 1}
    OBVIOUS
  <1> HIDE DEF type
  <1>3. stage' \in IdeStages /\ (stage'.doing = "channel" => stage'.device = n) /\ stage'.doing # "scan"
    <2>1. CASE i = 0
      <3>1. stage' = [stage EXCEPT !.channel = 1, !.type = type]
        BY <1>1, <2>1
      <3> QED
        BY <1>1, <1>2, <1>t, <3>1 DEF IdeStages
    <2>2. CASE i # 0
      <3>1. stage' = [stage EXCEPT !.doing = "ide", !.device = @ + 1, !.channel = 0]
        BY <1>1, <2>2
      <3> DEFINE k == stage.device + 1
      <3>2. stage \in IdeStages /\ k \in Nat \ {0}
        BY <1>2 DEF IdeStages
      <3>3. stage' = [stage EXCEPT !.doing = "ide", !.device = k, !.channel = 0]
        BY <3>1
      <3> HIDE DEF k
      <3> QED
        BY <3>2, <3>3 DEF IdeStages
    <2> QED
      BY <2>1, <2>2
  <1>4. Stages' /\ Here' = Here
    BY <1>1, <1>3 DEF Stages, Here, IdeStages
  <1>5. io[1] \in Nat /\ io[2] \in Nat /\ control[1] \in Nat /\ 2 * i \in BarIndices
          /\ 2 * i + 1 \in BarIndices
    <2>1. io[1] \in Nat /\ io[2] \in Nat
      BY PortsNat
    <2> HIDE DEF io
    <2>2. control[1] \in Nat
      BY <2>1, PortsNat
    <2>3. 2 * i \in BarIndices /\ 2 * i + 1 \in BarIndices
      BY <1>2 DEF IdeStages, BarIndices
    <2> QED
      BY <2>1, <2>2, <2>3
  <1>6. bus \in [PciAddresses -> BusFunctions] /\ devices \in Seq(Device) /\ d.address \in PciAddresses
          /\ bus[d.address].class = "ide"
    BY <1>2, BusFacts DEF BusInv, AsRead
  <1> HIDE DEF n, i, io, control
  <1>7. /\ bus' \in [PciAddresses -> BusFunctions]
        /\ \A a \in PciAddresses : bus'[a].class = bus[a].class /\ bus'[a].multi = bus[a].multi
        /\ \A a \in PciAddresses : bus[a].class # "ide" => bus'[a] = bus[a]
    <2>1. CASE bus' = bus
      BY <1>6, <2>1
    <2>2. CASE bus' = SetBar(SetBar(bus, d.address, 2 * i, io[1]), d.address, 2 * i + 1, control[1])
      <3> DEFINE b == SetBar(bus, d.address, 2 * i, io[1])
      <3>1. /\ b \in [PciAddresses -> BusFunctions]
            /\ \A a \in PciAddresses : b[a].class = bus[a].class /\ b[a].multi = bus[a].multi
            /\ \A a \in PciAddresses : a # d.address => b[a] = bus[a]
        BY <1>5, <1>6, SetBarIs DEF Written
      <3>2. bus' = SetBar(b, d.address, 2 * i + 1, control[1])
        BY <2>2
      <3> HIDE DEF b
      <3>3. /\ bus' \in [PciAddresses -> BusFunctions]
            /\ \A a \in PciAddresses : bus'[a].class = b[a].class /\ bus'[a].multi = b[a].multi
            /\ \A a \in PciAddresses : a # d.address => bus'[a] = b[a]
        BY <1>5, <1>6, <3>1, <3>2, SetBarIs DEF Written
      <3> QED
        BY <1>6, <3>1, <3>3
    <2> QED
      BY <1>1, <2>1, <2>2
  <1>8. /\ devices' \in Seq(Device) /\ DOMAIN devices' = DOMAIN devices
        /\ \A m \in DOMAIN devices : /\ devices'[m].address = devices[m].address
                                     /\ devices'[m].config.class = devices[m].config.class
                                     /\ devices'[m].config.multi = devices[m].config.multi
        /\ \A m \in DOMAIN devices : m # n => devices'[m] = devices[m]
    <2>1. CASE devices' = devices
      BY <1>6, <2>1
    <2>2. CASE devices' = Noted(devices, n, 2 * i, control[1])
      <3>1. SameBut(devices, devices', n, 2 * i)
        BY <1>2, <1>5, <1>6, <2>2, NotedIs
      <3> QED
        BY <3>1 DEF SameBut
    <2> QED
      BY <1>1, <2>1, <2>2
  <1>9. \A m \in DOMAIN devices :
          devices[m].config.class # "ide" => devices'[m].config.bars = devices[m].config.bars
    BY <1>2, <1>8
  <1>10. stage'.doing = "channel" =>
           stage'.device \in DOMAIN devices /\ devices[stage'.device].config.class = "ide"
    BY <1>2, <1>3
  <1> QED
    BY <1>1, <1>3, <1>4, <1>7, <1>8, <1>9, <1>10, AfterScan

(***************************************************************************)
(* The invariant says that the list is as the bus was found.               *)
(***************************************************************************)
LEMMA BusMeans == BusInv => ListedAsFound
  <1> SUFFICES ASSUME BusInv PROVE ListedAsFound
    OBVIOUS
  <1> DEFINE address(n) == devices[n].address
             moved(a) == {i \in BarIndices \ {0} :
               firmware[a].class = "nic" /\ firmware[a].bars[i].kind = "mem"}
  <1>1. /\ Listed(devices, firmware, Here) /\ AsRead /\ Len(devices) \in Nat
             /\ DOMAIN devices = 1..Len(devices)
        /\ \A n \in DOMAIN devices : devices[n].address \in PciAddresses
    BY BusFacts DEF BusInv
  <1>2. \A n \in 1..(Len(devices) - 1) : Before(address(n), address(n + 1))
    <2> SUFFICES ASSUME NEW n \in 1..(Len(devices) - 1) PROVE Before(address(n), address(n + 1))
      OBVIOUS
    <2>1. n \in DOMAIN devices /\ n + 1 \in DOMAIN devices /\ n < n + 1
      BY <1>1
    <2> QED
      BY <1>1, <2>1 DEF Listed
  <1>3. stage.doing # "scan" =>
          {address(n) : n \in DOMAIN devices} = {a \in PciAddresses : bus[a].class # "none"}
    <2> SUFFICES ASSUME stage.doing # "scan"
                 PROVE  {address(n) : n \in DOMAIN devices} = {a \in PciAddresses : bus[a].class # "none"}
      OBVIOUS
    <2>1. Here = LastPlace
      BY DEF Here
    <2>2. \A a \in PciAddresses : Before(a, LastPlace)
      BY AddressIs DEF Before, LastPlace
    <2>3. \A a \in PciAddresses : bus[a].class = firmware[a].class
      BY <1>1 DEF AsRead
    <2>4. \A n \in DOMAIN devices : address(n) \in PciAddresses /\ bus[address(n)].class # "none"
      BY <1>1, <2>3 DEF Listed
    <2>5. \A a \in PciAddresses : bus[a].class # "none" => \E n \in DOMAIN devices : address(n) = a
      BY <1>1, <2>1, <2>2, <2>3 DEF Listed
    <2> QED
      BY <2>4, <2>5
  <1>4. \A n \in DOMAIN devices :
          LET f == firmware[address(n)]
          IN  /\ devices[n].config.class = f.class
              /\ ~ f.multi /\ f.class # "ide" => devices[n].config.bars = f.bars
    BY <1>1 DEF AsRead
  <1>5. \A a \in PciAddresses : bus[a].class # "ide" =>
          \A i \in BarIndices \ moved(a) : bus[a].bars[i] = firmware[a].bars[i]
    <2>1. \A a, i : i \in BarIndices /\ i \notin moved(a) => ~ Moved(a, i)
      BY DEF Moved
    <2> QED
      BY <1>1, <2>1 DEF AsRead
  <1> QED
    BY <1>2, <1>3, <1>4, <1>5 DEF ListedAsFound

\* Channel i of controller n has been given its ports.
Done(n, i) ==
  /\ stage.doing \in {"ide", "channel"}
  /\ n < stage.device \/ (n = stage.device /\ stage.doing = "channel" /\ i < stage.channel)

OldPorts(c) == c.base_io = 496 - 128 * c.primary /\ c.base_control = 1012 - 128 * c.primary

NewPorts(c, port) ==
  /\ FIRST_PORT <= c.base_io /\ c.base_io + 8 <= c.base_control /\ c.base_control + 4 <= port
  /\ c.base_io % 8 = 0 /\ c.base_control % 4 = 0

Channel == [address : PciAddresses, primary : {0, 1}, base_io : Nat, base_control : Nat]

IdeTypes ==
  /\ current_port \in Nat /\ ide_num_channels \in Nat
  /\ channels \in Seq(Channel) /\ ide_num_channels <= Len(channels)

\* At most so many ports have been given, with gaps.
Spent ==
  IF stage.doing \in {"scan", "panic"} THEN 0
  ELSE IF stage.doing = "ide" THEN 80 * (stage.device - 1)
  ELSE 80 * (stage.device - 1) + 31 + 22 * stage.channel

\* The controller that is looked at.
AtController ==
  /\ stage.doing = "ide" => stage.channel = 0
  /\ stage.doing = "channel" =>
       /\ stage.channel = 0 => stage.type = 0
       /\ stage.channel = 1 /\ ~ devices[stage.device].config.multi =>
            (stage.type = 1 <=> firmware[devices[stage.device].address].bars[0].base = 0)
  /\ \A n \in DOMAIN devices, i \in {0, 1} :
       devices[n].config.class = "ide" /\ ~ devices[n].config.multi /\ ~ Done(n, i) =>
         devices[n].config.bars[2 * i].base = firmware[devices[n].address].bars[2 * i].base

\* The ports of a channel, as they are noted and as the controller has them.
PortsOf(c) ==
  /\ \E n \in DOMAIN devices :
       devices[n].address = c.address /\ devices[n].config.class = "ide" /\ Done(n, c.primary)
  /\ OldPorts(c) \/ NewPorts(c, current_port)
  /\ ~ bus[c.address].multi =>
       IF firmware[c.address].bars[2 * c.primary].base = 0 THEN OldPorts(c)
       ELSE /\ NewPorts(c, current_port)
            /\ bus[c.address].bars[2 * c.primary].base = c.base_io
            /\ bus[c.address].bars[2 * c.primary + 1].base = c.base_control

\* Two channels, b the later one.
InTurn(a, b) ==
  /\ a.address # b.address \/ a.primary # b.primary
  /\ FIRST_PORT <= a.base_io /\ FIRST_PORT <= b.base_io => a.base_control + 4 <= b.base_io

IdeInv ==
  /\ IdeTypes /\ AtController
  /\ FIRST_PORT <= current_port /\ current_port <= FIRST_PORT + Spent
  /\ \A m \in DOMAIN channels : PortsOf(channels[m])
  /\ \A k, m \in DOMAIN channels : k < m => InTurn(channels[k], channels[m])
  /\ \A d \in drives : d.channel \in 1..ide_num_channels
                       /\ d.answered = <<channels[d.channel].address, channels[d.channel].primary>>
PciInv == BusInv /\ IdeInv

\* Enough ports: the next ones that are aligned.
Given(p, a, r) == /\ r[1] \in Nat /\ r[2] \in Nat
                  /\ r[1] % a = 0 /\ p <= r[1] /\ r[2] = r[1] + a /\ r[2] <= p + 2 * a - 1

(***************************************************************************)
(* allocate_ports_align, when there are ports left: it returns the next    *)
(* aligned ones. What it rounds up is the end; that the start is aligned   *)
(* too needs an amount that is a multiple of the alignment.                *)
(***************************************************************************)
LEMMA PortsEnough ==
  ASSUME NEW p \in Nat, NEW a \in {4, 8, 16}, p + 2 * a - 1 <= last_port
  PROVE  Given(p, a, AllocatePorts(p, a, a))
  <1>1. PORT_NUMBERS = 65536 /\ a \in Nat /\ a > 0 /\ last_port \in Nat /\ last_port < 65536
    <2>1. last_port \in 0..(PORT_NUMBERS - 1)
      BY PciAssumption, Zenon
    <2>2. PORT_NUMBERS = 65536
      BY DEF PORT_NUMBERS
    <2>3. last_port \in Nat /\ last_port < 65536
      BY <2>1, <2>2
    <2>4. a \in Nat /\ a > 0
      OBVIOUS
    <2> QED
      BY <2>2, <2>3, <2>4, SMTT(30)
  <1> DEFINE end == (p + a) % PORT_NUMBERS
             off == (a - (end % a)) % a
             new == (end + off) % PORT_NUMBERS
             r == AllocatePorts(p, a, a)
  <1>2. end = p + a
    BY <1>1
  <1>3. r = IF new <= last_port THEN <<(p + off) % PORT_NUMBERS, new>> ELSE <<0, p>>
    BY DEF AllocatePorts
  <1> HIDE DEF end
  <1>4. off \in Nat /\ off <= a - 1 /\ (end + off) % a = 0 /\ (p + off) % a = 0
    <2>1. end \in Nat
      BY <1>1, <1>2
    <2>2. CASE a = 4
      BY <1>2, <2>1, <2>2
    <2>3. CASE a = 8
      BY <1>2, <2>1, <2>3
    <2>4. CASE a = 16
      BY <1>2, <2>1, <2>4
    <2> QED
      BY <2>2, <2>3, <2>4
  <1> HIDE DEF off
  <1>5. new = p + a + off /\ (p + off) % PORT_NUMBERS = p + off
    BY <1>1, <1>2, <1>4
  <1> HIDE DEF new
  <1>6. new <= last_port
    BY <1>1, <1>4, <1>5
  <1>7. r = <<p + off, p + a + off>>
    BY <1>3, <1>5, <1>6
  <1> HIDE DEF r
  <1>8. r[1] = p + off /\ r[2] = p + a + off
    BY <1>7
  <1>9. Given(p, a, r)
    BY <1>1, <1>4, <1>8 DEF Given
  <1> QED
    BY <1>9 DEF r

(***************************************************************************)
(* During the scan no channel has been noted.                              *)
(***************************************************************************)
LEMMA NoneYet ==
  ASSUME IdeInv, stage.doing = "scan"
  PROVE  channels = <<>> /\ ide_num_channels = 0 /\ drives = {} /\ current_port = FIRST_PORT
  <1>1. IdeTypes /\ \A m \in DOMAIN channels : \E n, i : Done(n, i)
    BY DEF IdeInv, PortsOf
  <1>2. \A n, i : ~ Done(n, i)
    BY DEF Done
  <1>3. channels = <<>>
    <2>1. DOMAIN channels = {} /\ channels \in Seq(Channel)
      BY <1>1, <1>2 DEF IdeTypes
    <2> QED
      BY <2>1, InSeq
  <1>4. ide_num_channels = 0
    BY <1>1, <1>3 DEF IdeTypes
  <1>5. \A d \in drives : d.channel \in 1..0
    BY <1>4 DEF IdeInv
  <1>6. drives = {}
    BY <1>5
  <1>7. current_port = FIRST_PORT
    BY <1>1, PciAssumption DEF IdeInv, Spent, IdeTypes
  <1> QED
    BY <1>3, <1>4, <1>6, <1>7

(***************************************************************************)
(* While there are no channels only the list matters.                      *)
(***************************************************************************)
LEMMA NoChannels ==
  ASSUME channels = <<>>, ide_num_channels = 0, drives = {}, current_port = FIRST_PORT, AtController,
         Spent = 0
  PROVE  IdeInv
  <1>1. IdeTypes
    BY PciAssumption DEF IdeTypes
  <1>2. DOMAIN channels = {}
    OBVIOUS
  <1> QED
    BY <1>1, <1>2, PciAssumption DEF IdeInv

(***************************************************************************)
(* Nor when it begins.                                                     *)
(***************************************************************************)
LEMMA IdeBegins == PciInit => IdeInv
  <1> SUFFICES ASSUME PciInit PROVE IdeInv
    OBVIOUS
  <1>1. stage.doing = "scan" /\ DOMAIN devices = {}
    BY DEF PciInit, Scanning
  <1>2. AtController /\ Spent = 0
    BY <1>1 DEF AtController, Spent
  <1> QED
    BY <1>2, NoChannels DEF PciInit

(***************************************************************************)
(* The scan lists controllers with their own base addresses.               *)
(***************************************************************************)
LEMMA ScanKeepsIde == ASSUME PciInv, ScanFunction PROVE IdeInv'
  <1> DEFINE a == stage.at
             f == bus[a]
             cfg == ReadConfig(config, f)
             d == [address |-> a, config |-> cfg]
             Len1 == Len(devices) + 1
  <1>1. /\ stage.doing = "scan" /\ a \in PciAddresses /\ firmware' = firmware /\ stage'.doing = "scan"
        /\ UNCHANGED ideVars
        /\ devices' = devices \/ devices' = Append(devices, d)
    BY DEF ScanFunction, Scanning
  <1>2. channels' = <<>> /\ ide_num_channels' = 0 /\ drives' = {} /\ current_port' = FIRST_PORT
    BY <1>1, NoneYet DEF PciInv, ideVars
  <1>3. /\ bus = firmware /\ f \in BusFunctions /\ config \in BusFunctions /\ f = firmware[a]
        /\ devices \in Seq(Device) /\ Len(devices) \in Nat /\ DOMAIN devices = 1..Len(devices)
    BY <1>1, BusFacts DEF PciInv, BusInv, AsRead
  <1>4. cfg \in BusFunctions /\ cfg.multi = f.multi /\ (~ f.multi => cfg.bars = f.bars)
    BY <1>3, ReadConfigIs
  <1> HIDE DEF cfg, f, a
  <1>5. d \in Device /\ d.address = a /\ d.config = cfg
    BY <1>1, <1>4 DEF Device
  <1> HIDE DEF d
  <1>6. \A n, i : ~ Done(n, i)
    BY <1>1 DEF Done
  <1>7. AtController'
    <2>1. ASSUME NEW n \in DOMAIN devices', NEW i \in {0, 1}, devices'[n].config.class = "ide",
                 ~ devices'[n].config.multi
          PROVE  devices'[n].config.bars[2 * i].base = firmware[devices'[n].address].bars[2 * i].base
      <3>1. CASE n \in DOMAIN devices /\ devices'[n] = devices[n]
        BY <1>6, <2>1, <3>1 DEF PciInv, IdeInv, AtController
      <3>2. CASE devices'[n] = d
        BY <1>3, <1>4, <1>5, <2>1, <3>2
      <3>3. (n \in DOMAIN devices /\ devices'[n] = devices[n]) \/ devices'[n] = d
        <4>1. CASE devices' = devices
          BY <4>1
        <4>2. CASE devices' = Append(devices, d)
          BY <1>3, <1>5, <4>2
        <4> QED
          BY <1>1, <4>1, <4>2
      <3> QED
        BY <3>1, <3>2, <3>3
    <2> QED
      BY <1>1, <2>1 DEF AtController
  <1>8. Spent' = 0
    BY <1>1 DEF Spent
  <1>9. IdeInv'
    <2>1. /\ IdeTypes' /\ DOMAIN channels' = {}
      BY <1>2, PciAssumption DEF IdeTypes
    <2> QED
      BY <1>2, <1>7, <1>8, <2>1, PciAssumption DEF IdeInv
  <1> QED
    BY <1>9

(***************************************************************************)
(* The network driver does not look at controllers.                        *)
(***************************************************************************)
LEMMA NicKeepsIde == ASSUME PciInv, NicInit PROVE IdeInv'
  <1>1. /\ stage.doing = "scan" /\ firmware' = firmware /\ devices' = devices /\ UNCHANGED ideVars
        /\ stage' = [doing |-> "panic"] \/ stage' = [doing |-> "ide", device |-> 1, channel |-> 0, type |-> 0]
    BY DEF NicInit
  <1>2. channels' = <<>> /\ ide_num_channels' = 0 /\ drives' = {} /\ current_port' = FIRST_PORT
    BY <1>1, NoneYet DEF PciInv, ideVars
  <1>3. \A n, i : ~ Done(n, i)
    BY <1>1 DEF Done
  <1>4. AtController'
    <2>1. \A n \in DOMAIN devices, i \in {0, 1} :
            devices[n].config.class = "ide" /\ ~ devices[n].config.multi =>
              devices[n].config.bars[2 * i].base = firmware[devices[n].address].bars[2 * i].base
      BY <1>3 DEF PciInv, IdeInv, AtController
    <2> QED
      BY <1>1, <2>1 DEF AtController
  <1>5. Spent' = 0
    BY <1>1 DEF Spent
  <1>6. IdeTypes' /\ DOMAIN channels' = {}
    BY <1>2, PciAssumption DEF IdeTypes
  <1> QED
    BY <1>2, <1>4, <1>5, <1>6, PciAssumption DEF IdeInv

(***************************************************************************)
(* A channel keeps its ports if its controller does.                       *)
(***************************************************************************)
LEMMA PortsStay ==
  ASSUME NEW c, PortsOf(c), firmware' = firmware, DOMAIN devices' = DOMAIN devices,
         \A n \in DOMAIN devices : /\ devices'[n].address = devices[n].address
                                   /\ devices'[n].config.class = devices[n].config.class,
         \A n \in DOMAIN devices, i \in {0, 1} : Done(n, i) => Done(n, i)',
         c \in Channel, current_port \in Nat, current_port' \in Nat, current_port <= current_port',
         bus'[c.address].multi = bus[c.address].multi,
         bus'[c.address].bars[2 * c.primary] = bus[c.address].bars[2 * c.primary],
         bus'[c.address].bars[2 * c.primary + 1] = bus[c.address].bars[2 * c.primary + 1]
  PROVE  PortsOf(c)'
  <1>1. c.base_control \in Nat /\ c.primary \in {0, 1}
    BY DEF Channel
  <1>2. NewPorts(c, current_port) => NewPorts(c, current_port')
    BY <1>1 DEF NewPorts
  <1>3. \E n \in DOMAIN devices' :
          devices'[n].address = c.address /\ devices'[n].config.class = "ide" /\ Done(n, c.primary)'
    <2>1. PICK n \in DOMAIN devices :
                 devices[n].address = c.address /\ devices[n].config.class = "ide" /\ Done(n, c.primary)
      BY DEF PortsOf
    <2>2. Done(n, c.primary)'
      BY <1>1, <2>1
    <2> QED
      BY <2>1, <2>2
  <1>4. OldPorts(c) \/ NewPorts(c, current_port')
    BY <1>2 DEF PortsOf
  <1>5. ~ bus'[c.address].multi =>
          IF firmware'[c.address].bars[2 * c.primary].base = 0 THEN OldPorts(c)
          ELSE /\ NewPorts(c, current_port')
               /\ bus'[c.address].bars[2 * c.primary].base = c.base_io
               /\ bus'[c.address].bars[2 * c.primary + 1].base = c.base_control
    BY <1>2 DEF PortsOf
  <1> QED
    BY <1>3, <1>4, <1>5 DEF PortsOf

(***************************************************************************)
(* Channels and drives are what they were when nothing is added to them.   *)
(***************************************************************************)
LEMMA ChannelsStay ==
  ASSUME PciInv, firmware' = firmware, DOMAIN devices' = DOMAIN devices,
         \A n \in DOMAIN devices : /\ devices'[n].address = devices[n].address
                                   /\ devices'[n].config.class = devices[n].config.class,
         \A n \in DOMAIN devices, i \in {0, 1} : Done(n, i) => Done(n, i)',
         current_port' \in Nat, current_port <= current_port', current_port' <= FIRST_PORT + Spent',
         \A a \in PciAddresses : /\ bus'[a].multi = bus[a].multi
                                 /\ \A j \in {0, 1, 2, 3} : bus'[a].bars[j] = bus[a].bars[j],
         channels' = channels, ide_num_channels' = ide_num_channels, drives' = drives, AtController'
  PROVE  IdeInv'
  <1>1. IdeInv /\ IdeTypes /\ \A m \in DOMAIN channels : channels[m] \in Channel /\ PortsOf(channels[m])
    BY DEF PciInv, IdeInv, IdeTypes
  <1>2. IdeTypes'
    BY <1>1 DEF IdeTypes
  <1>3. \A m \in DOMAIN channels' : PortsOf(channels[m])'
    <2> SUFFICES ASSUME NEW m \in DOMAIN channels PROVE PortsOf(channels[m])'
      OBVIOUS
    <2>1. PICK c : c = channels[m]
      OBVIOUS
    <2>2. c = channels'[m]
      BY <2>1
    <2>3. c \in Channel /\ PortsOf(c)
      BY <1>1, <2>1
    <2>4. c.address \in PciAddresses /\ 2 * c.primary \in {0, 1, 2, 3} /\ 2 * c.primary + 1 \in {0, 1, 2, 3}
      BY <2>3 DEF Channel
    <2>5. PortsOf(c)'
      BY <1>1, <2>3, <2>4, PortsStay DEF IdeTypes
    <2> QED
      BY <2>2, <2>5 DEF PortsOf
  <1>4. FIRST_PORT <= current_port' /\ current_port' <= FIRST_PORT + Spent'
    BY <1>1, PciAssumption DEF IdeInv, IdeTypes
  <1>5. \A k, m \in DOMAIN channels' : k < m => InTurn(channels'[k], channels'[m])
    BY <1>1 DEF IdeInv
  <1>6. \A d \in drives' : /\ d.channel \in 1..ide_num_channels'
                           /\ d.answered = <<channels'[d.channel].address, channels'[d.channel].primary>>
    BY <1>1 DEF IdeInv
  <1> QED
    BY <1>2, <1>3, <1>4, <1>5, <1>6 DEF IdeInv

(***************************************************************************)
(* Other devices get no ports.                                             *)
(***************************************************************************)
LEMMA SkipKeepsIde == ASSUME PciInv, IdeSkip PROVE IdeInv'
  <1>1. /\ stage.doing = "ide" /\ stage' = [stage EXCEPT !.device = @ + 1]
        /\ UNCHANGED <<firmware, bus, config, devices, current_port, channels, ide_num_channels, drives>>
        /\ devices[stage.device].config.class # "ide"
    BY DEF IdeSkip, ideVars
  <1>2. stage \in IdeStages
    BY <1>1 DEF PciInv, BusInv, Stages, IdeStages
  <1>3. stage'.doing = "ide" /\ stage'.device = stage.device + 1 /\ stage'.channel = stage.channel
    BY <1>1, <1>2 DEF IdeStages
  <1>4. stage.device \in Nat /\ DOMAIN devices \subseteq Nat
    BY <1>2, BusFacts DEF IdeStages, PciInv
  <1>5. \A n \in DOMAIN devices, i \in {0, 1} : Done(n, i) => Done(n, i)'
    BY <1>1, <1>3, <1>4 DEF Done
  <1>6. Spent' = Spent + 80 /\ Spent \in Int
    BY <1>1, <1>3, <1>4 DEF Spent
  <1>7. AtController'
    <2>1. \A n \in DOMAIN devices, i \in {0, 1} :
            devices[n].config.class = "ide" /\ ~ devices[n].config.multi /\ ~ Done(n, i)' =>
              devices[n].config.bars[2 * i].base = firmware[devices[n].address].bars[2 * i].base
      BY <1>5 DEF PciInv, IdeInv, AtController
    <2>2. stage'.channel = 0
      BY <1>1, <1>3 DEF PciInv, IdeInv, AtController
    <2> QED
      BY <1>1, <1>3, <2>1, <2>2 DEF AtController
  <1>8. current_port' \in Nat /\ current_port <= current_port' /\ current_port' <= FIRST_PORT + Spent'
    BY <1>1, <1>6, PciAssumption DEF PciInv, IdeInv, IdeTypes
  <1> QED
    BY <1>1, <1>5, <1>7, <1>8, ChannelsStay

(***************************************************************************)
(* There are ports for the next controller.                                *)
(***************************************************************************)
LEMMA DevicesFew ==
  ASSUME BusInv, NEW n \in DOMAIN devices
  PROVE  n \in Nat /\ n > 0 /\ FIRST_PORT + 80 * n <= last_port
  <1>1. Len(devices) <= PCI_MAX_SLOT_COUNT * PCI_MAX_FUNC_COUNT
    BY ListedShort DEF BusInv
  <1>2. Len(devices) \in Nat /\ n \in 1..Len(devices)
    BY BusFacts
  <1> DEFINE most == PCI_MAX_SLOT_COUNT * PCI_MAX_FUNC_COUNT
  <1>3. most \in Nat /\ FIRST_PORT \in Nat /\ last_port \in Int /\ FIRST_PORT + 80 * most <= last_port
    <2>1. /\ PCI_MAX_SLOT_COUNT \in Nat /\ PCI_MAX_FUNC_COUNT \in Nat /\ FIRST_PORT \in Nat
          /\ last_port \in 0..(PORT_NUMBERS - 1) /\ FIRST_PORT + 80 * most <= last_port
      BY PciAssumption, Zenon
    <2>2. most \in Nat
      BY <2>1
    <2> HIDE DEF most
    <2> QED
      BY <2>1, <2>2
  <1>4. n <= most
    BY <1>1, <1>2, <1>3
  <1> HIDE DEF most
  <1> QED
    BY <1>2, <1>3, <1>4

(***************************************************************************)
(* The bus master register gets ports of its own.                          *)
(***************************************************************************)
LEMMA ControllerKeepsIde == ASSUME PciInv, IdeController PROVE IdeInv'
  <1> DEFINE n == stage.device
             d == devices[n]
             p == AllocatePorts(current_port, 16, 16)[1]
             q == AllocatePorts(current_port, 16, 16)[2]
  <1>1. /\ stage.doing = "ide" /\ n \in DOMAIN devices /\ d.config.class = "ide" /\ firmware' = firmware
             /\ config' = config
        /\ stage' = [stage EXCEPT !.doing = "channel", !.type = 0]
        /\ \/ bus' = bus /\ devices' = devices /\ current_port' = current_port
           \/ bus' = SetBar(bus, d.address, BAR_BM, p) /\ devices' = Noted(devices, n, BAR_BM, p)
                /\ current_port' = q
        /\ channels' = channels /\ ide_num_channels' = ide_num_channels /\ drives' = drives
    BY DEF IdeController, Noted
  <1>2. stage \in IdeStages
    BY <1>1 DEF PciInv, BusInv, Stages, IdeStages
  <1>3. stage'.doing = "channel" /\ stage'.device = n /\ stage'.type = 0 /\ stage'.channel = stage.channel
    BY <1>1, <1>2 DEF IdeStages
  <1>4. stage'.channel = 0 /\ IdeTypes
    BY <1>1, <1>3 DEF PciInv, IdeInv, AtController
  <1>5. p \in Nat /\ q \in Nat /\ BAR_BM \in BarIndices
    BY <1>4, PortsNat DEF BAR_BM, BarIndices, IdeTypes
  <1>6. /\ bus \in [PciAddresses -> BusFunctions] /\ devices \in Seq(Device) /\ d.address \in PciAddresses
        /\ DOMAIN devices \subseteq Nat /\ n \in Nat
    BY <1>1, BusFacts DEF PciInv
  <1>7. n \in Nat /\ n > 0 /\ FIRST_PORT + 80 * n <= last_port
    BY <1>1, DevicesFew DEF PciInv
  <1>8. current_port \in Nat /\ FIRST_PORT \in Nat /\ current_port <= FIRST_PORT + 80 * (n - 1)
          /\ last_port \in Nat
    BY <1>1, <1>4, PciAssumption DEF PciInv, IdeInv, IdeTypes, Spent
  <1>9. current_port <= q /\ q <= current_port + 31
    <2>1. current_port + 2 * 16 - 1 <= last_port
      BY <1>7, <1>8
    <2>2. Given(current_port, 16, AllocatePorts(current_port, 16, 16))
      BY <1>8, <2>1, PortsEnough
    <2> QED
      BY <1>8, <2>2 DEF Given
  <1> HIDE DEF p, q, n
  <1>10. current_port' \in Nat /\ current_port <= current_port' /\ current_port' <= FIRST_PORT + Spent'
    <2>1. Spent' = 80 * (n - 1) + 31
      BY <1>3, <1>4, <1>7 DEF Spent
    <2>2. current_port' = current_port \/ current_port' = q
      BY <1>1
    <2> QED
      BY <1>5, <1>7, <1>8, <1>9, <2>1, <2>2
  <1>11. \A a \in PciAddresses :
           bus'[a].multi = bus[a].multi /\ \A j \in {0, 1, 2, 3} : bus'[a].bars[j] = bus[a].bars[j]
    <2>1. CASE bus' = bus
      BY <2>1
    <2>2. CASE bus' = SetBar(bus, d.address, BAR_BM, p)
      <3>1. Written(bus, bus', d.address, {BAR_BM})
        BY <1>5, <1>6, <2>2, SetBarIs
      <3>2. \A j \in {0, 1, 2, 3} : j \in BarIndices /\ j \notin {BAR_BM}
        BY DEF BarIndices, BAR_BM
      <3> QED
        BY <1>6, <3>1, <3>2 DEF Written
    <2> QED
      BY <1>1, <2>1, <2>2
  <1>12. /\ DOMAIN devices' = DOMAIN devices
         /\ \A m \in DOMAIN devices : /\ devices'[m].address = devices[m].address
                                      /\ devices'[m].config.class = devices[m].config.class
                                      /\ devices'[m].config.multi = devices[m].config.multi
                                      /\ \A j \in {0, 1, 2, 3} :
                                           devices'[m].config.bars[j] = devices[m].config.bars[j]
    <2>1. CASE devices' = devices
      BY <2>1
    <2>2. CASE devices' = Noted(devices, n, BAR_BM, p)
      <3>1. SameBut(devices, devices', n, BAR_BM)
        BY <1>1, <1>5, <1>6, <2>2, NotedIs
      <3>2. \A j \in {0, 1, 2, 3} : j \in BarIndices /\ j # BAR_BM
        BY DEF BarIndices, BAR_BM
      <3>3. \A m \in DOMAIN devices :
              \A j \in {0, 1, 2, 3} : devices'[m].config.bars[j] = devices[m].config.bars[j]
        <4> SUFFICES ASSUME NEW m \in DOMAIN devices, NEW j \in {0, 1, 2, 3}
                     PROVE  devices'[m].config.bars[j] = devices[m].config.bars[j]
          OBVIOUS
        <4>1. CASE m = n
          BY <3>1, <3>2, <4>1 DEF SameBut
        <4>2. CASE m # n
          BY <3>1, <4>2 DEF SameBut
        <4> QED
          BY <4>1, <4>2
      <3> QED
        BY <3>1, <3>3 DEF SameBut
    <2> QED
      BY <1>1, <2>1, <2>2
  <1>13. \A m \in DOMAIN devices, i \in {0, 1} : Done(m, i) <=> Done(m, i)'
    <2> SUFFICES ASSUME NEW m \in DOMAIN devices, NEW i \in {0, 1} PROVE Done(m, i) <=> Done(m, i)'
      OBVIOUS
    <2>1. m \in Nat
      BY <1>6
    <2>2. Done(m, i) <=> m < n
      BY <1>1, <1>6, <2>1 DEF Done, n
    <2>3. Done(m, i)' <=> m < n
      BY <1>3, <1>4, <1>6, <2>1 DEF Done
    <2> QED
      BY <2>2, <2>3
  <1>14. AtController'
    <2>1. ASSUME NEW m \in DOMAIN devices', NEW i \in {0, 1}, devices'[m].config.class = "ide",
                 ~ devices'[m].config.multi, ~ Done(m, i)'
          PROVE  devices'[m].config.bars[2 * i].base = firmware'[devices'[m].address].bars[2 * i].base
      <3>1. 2 * i \in {0, 1, 2, 3}
        OBVIOUS
      <3>2. m \in DOMAIN devices /\ devices[m].config.class = "ide" /\ ~ devices[m].config.multi
              /\ ~ Done(m, i)
        BY <1>12, <1>13, <2>1
      <3>3. devices[m].config.bars[2 * i].base = firmware[devices[m].address].bars[2 * i].base
        BY <3>2 DEF PciInv, IdeInv, AtController
      <3> QED
        BY <1>1, <1>12, <3>1, <3>2, <3>3
    <2> QED
      BY <1>3, <1>4, <2>1 DEF AtController
  <1> QED
    BY <1>1, <1>10, <1>11, <1>12, <1>13, <1>14, ChannelsStay

\* From channel i, of a type t, to the next one.
Advanced(i, t) ==
  stage' = IF i = 0 THEN [stage EXCEPT !.channel = 1, !.type = t]
           ELSE [stage EXCEPT !.doing = "ide", !.device = @ + 1, !.channel = 0]

\* What a step that looks at channel i of controller n does.  t: whether the channel is
\* at the old ports; c: the channel noted.
Looked(n, i, t, c, p, q) ==
  /\ Advanced(i, t)
  /\ t \in {0, 1} /\ (t = 1 <=> stage.type = 1 \/ devices[n].config.bars[2 * i].base = 0)
  /\ c \in Channel /\ c.address = devices[n].address /\ c.primary = i
  /\ channels' = Append(SubSeq(channels, 1, ide_num_channels), c)
  /\ IF t = 1 THEN bus' = bus /\ devices' = devices /\ current_port' = current_port /\ OldPorts(c)
     ELSE /\ bus' = SetBar(SetBar(bus, devices[n].address, 2 * i, p), devices[n].address, 2 * i + 1, q)
          /\ devices' = Noted(devices, n, 2 * i, q)
          /\ c.base_io = p /\ c.base_control = q
          /\ current_port <= p /\ p + 8 <= q /\ p % 8 = 0 /\ q % 4 = 0
          /\ current_port' = q + 4 /\ current_port' <= current_port + 22

(***************************************************************************)
(* What IdeChannel does, in these terms.                                   *)
(***************************************************************************)
LEMMA LookIs ==
  ASSUME PciInv, NEW found, IdeChannel(found)
  PROVE  /\ stage \in IdeStages /\ stage.doing = "channel" /\ stage.device \in DOMAIN devices
         /\ devices[stage.device].config.class = "ide" /\ firmware' = firmware
         /\ current_port \in Nat
              /\ current_port <= FIRST_PORT + 80 * (stage.device - 1) + 31 + 22 * stage.channel
         /\ \E t, c, p, q \in Nat \cup Channel :
              p \in Nat /\ q \in Nat /\ Looked(stage.device, stage.channel, t, c, p, q)
  <1> DEFINE n == stage.device
             d == devices[n]
             i == stage.channel
             type == IF stage.type = 1 \/ d.config.bars[2 * i].base = 0 THEN 1 ELSE 0
             io == AllocatePorts(current_port, 8, 8)
             control == AllocatePorts(io[2], 4, 4)
             c == [address |-> d.address, primary |-> i,
                   base_io |-> IF type = 1 THEN 496 - 128 * i ELSE io[1],
                   base_control |-> IF type = 1 THEN 1012 - 128 * i ELSE control[1]]
  <1>1. /\ stage.doing = "channel" /\ firmware' = firmware
        /\ stage' = IF i = 0 THEN [stage EXCEPT !.channel = 1, !.type = type]
                    ELSE [stage EXCEPT !.doing = "ide", !.device = @ + 1, !.channel = 0]
        /\ channels' = Append(SubSeq(channels, 1, ide_num_channels), c)
        /\ IF type = 1 THEN bus' = bus /\ devices' = devices /\ current_port' = current_port
           ELSE /\ bus' = SetBar(SetBar(bus, d.address, 2 * i, io[1]), d.address, 2 * i + 1, control[1])
                /\ devices' = Noted(devices, n, 2 * i, control[1])
                /\ current_port' = control[2]
    BY DEF IdeChannel, Noted
  <1>2. stage \in IdeStages /\ n \in DOMAIN devices /\ d.config.class = "ide" /\ IdeTypes
    BY <1>1 DEF PciInv, BusInv, Stages, IdeStages, AsRead, IdeInv
  <1>3. n \in Nat /\ n > 0 /\ FIRST_PORT + 80 * n <= last_port
    BY <1>2, DevicesFew DEF PciInv
  <1>4. current_port \in Nat /\ FIRST_PORT \in Nat
          /\ current_port <= FIRST_PORT + 80 * (n - 1) + 31 + 22 * i /\ last_port \in Nat /\ i \in {0, 1}
    <2>1. FIRST_PORT \in Nat /\ last_port \in Nat /\ i \in {0, 1} /\ current_port \in Nat
      BY <1>2, PciAssumption DEF IdeStages, IdeTypes
    <2>2. Spent = 80 * (n - 1) + 31 + 22 * i
      BY <1>1 DEF Spent
    <2>3. current_port <= FIRST_PORT + Spent
      BY DEF PciInv, IdeInv
    <2> HIDE DEF n, i
    <2> QED
      BY <1>3, <2>1, <2>2, <2>3
  <1>5. d.address \in PciAddresses
    BY <1>2, BusFacts DEF PciInv
  <1>6. type \in {0, 1} /\ (type = 1 <=> stage.type = 1 \/ d.config.bars[2 * i].base = 0)
    OBVIOUS
  <1>7. /\ io[1] \in Nat /\ io[2] \in Nat /\ io[1] % 8 = 0 /\ current_port <= io[1] /\ io[2] = io[1] + 8
             /\ io[2] <= current_port + 15
    <2>1. current_port + 2 * 8 - 1 <= last_port
      BY <1>3, <1>4
    <2>2. Given(current_port, 8, AllocatePorts(current_port, 8, 8))
      BY <1>4, <2>1, PortsEnough
    <2> QED
      BY <1>4, <2>2 DEF Given
  <1> HIDE DEF io
  <1>8. /\ control[1] \in Nat /\ control[2] \in Nat /\ control[1] % 4 = 0 /\ io[2] <= control[1]
             /\ control[2] = control[1] + 4 /\ control[2] <= io[2] + 7
    <2> DEFINE r == io[2]
    <2>1. r \in Nat /\ r + 2 * 4 - 1 <= last_port
      BY <1>3, <1>4, <1>7
    <2>2. Given(r, 4, AllocatePorts(r, 4, 4))
      <3> HIDE DEF r
      <3> QED
        BY <2>1, PortsEnough
    <2> QED
      BY <1>7, <2>2 DEF Given
  <1> HIDE DEF control
  <1>9. c \in Channel /\ c.address = d.address /\ c.primary = i
    <2>1. 496 - 128 * i \in Nat /\ 1012 - 128 * i \in Nat
      BY <1>4
    <2> HIDE DEF d, i, type
    <2> QED
      BY <1>4, <1>5, <1>7, <1>8, <2>1 DEF Channel
  <1>10. IF type = 1 THEN OldPorts(c) ELSE c.base_io = io[1] /\ c.base_control = control[1]
    BY DEF OldPorts
  <1> HIDE DEF c, type
  <1> DEFINE p == io[1]
             q == control[1]
  <1>11. p \in Nat /\ q \in Nat /\ current_port <= p /\ p + 8 <= q /\ p % 8 = 0 /\ q % 4 = 0
           /\ control[2] = q + 4 /\ q + 4 <= current_port + 22
    BY <1>4, <1>7, <1>8
  <1>12. Looked(n, i, type, c, p, q)
    BY <1>1, <1>6, <1>9, <1>10, <1>11 DEF Looked, Advanced
  <1> HIDE DEF n, p, q
  <1>13. type \in Nat \cup Channel /\ c \in Nat \cup Channel /\ p \in Nat \cup Channel
           /\ q \in Nat \cup Channel
    BY <1>6, <1>9, <1>11
  <1>14. \E u, v, x, y \in Nat \cup Channel : x \in Nat /\ y \in Nat /\ Looked(n, i, u, v, x, y)
    <2> HIDE DEF i
    <2> QED
      BY <1>11, <1>12, <1>13
  <1> QED
    BY <1>1, <1>2, <1>4, <1>14 DEF n

(***************************************************************************)
(* A sequence cut off and with one more element.                           *)
(***************************************************************************)
LEMMA PutNext ==
  ASSUME NEW T, NEW s \in Seq(T), NEW len \in Nat, len <= Len(s), NEW c \in T, NEW r,
         r = Append(SubSeq(s, 1, len), c)
  PROVE  /\ r \in Seq(T) /\ Len(r) = len + 1 /\ DOMAIN r = 1..(len + 1) /\ r[len + 1] = c
         /\ \A m \in 1..len : r[m] = s[m]
  <1> DEFINE u == SubSeq(s, 1, len)
  <1>1. u \in Seq(T) /\ Len(u) = len /\ \A m \in 1..len : u[m] = s[m]
    OBVIOUS
  <1> HIDE DEF u
  <1>2. r = Append(u, c)
    BY DEF u
  <1> QED
    BY <1>1, <1>2

(***************************************************************************)
(* No function is listed twice.                                            *)
(***************************************************************************)
LEMMA AddressesApart ==
  ASSUME BusInv, NEW m \in DOMAIN devices, NEW n \in DOMAIN devices, devices[m].address = devices[n].address
  PROVE  m = n
  <1> DEFINE a == devices[m].address
  <1>1. a \in PciAddresses /\ m \in Nat /\ n \in Nat
    BY BusFacts
  <1>2. Listed(devices, firmware, Here)
    BY DEF BusInv
  <1>3. m < n => Before(a, a)
    BY <1>2 DEF Listed
  <1>4. n < m => Before(a, a)
    BY <1>2 DEF Listed
  <1>5. ~ Before(a, a)
    <2> HIDE DEF a
    <2> QED
      BY <1>1, AddressIs DEF Before
  <1> QED
    BY <1>1, <1>3, <1>4, <1>5

\* What the registers and the list are after a look at channel i of controller n.
LookedAt(n, i, t, c) ==
  /\ \A x \in PciAddresses : bus'[x].multi = bus[x].multi
  /\ \A x \in PciAddresses, k \in {0, 1} : x # devices[n].address \/ k # i =>
       bus'[x].bars[2 * k] = bus[x].bars[2 * k] /\ bus'[x].bars[2 * k + 1] = bus[x].bars[2 * k + 1]
  /\ t = 0 => bus'[c.address].bars[2 * i].base = c.base_io
       /\ bus'[c.address].bars[2 * i + 1].base = c.base_control
  /\ DOMAIN devices' = DOMAIN devices
  /\ \A m \in DOMAIN devices : /\ devices'[m].address = devices[m].address
                               /\ devices'[m].config.class = devices[m].config.class
                               /\ devices'[m].config.multi = devices[m].config.multi
                               /\ \A k \in {0, 1} :
                                    m # n \/ k # i =>
                                      devices'[m].config.bars[2 * k] = devices[m].config.bars[2 * k]

(***************************************************************************)
(* A look at a channel changes the registers of that one.                  *)
(***************************************************************************)
LEMMA LookedChanges ==
  ASSUME PciInv, NEW n \in DOMAIN devices, NEW i \in {0, 1}, NEW t, NEW c, NEW p \in Nat, NEW q \in Nat,
         Looked(n, i, t, c, p, q)
  PROVE  LookedAt(n, i, t, c)
  <1> DEFINE a == devices[n].address
  <1>1. /\ bus \in [PciAddresses -> BusFunctions] /\ devices \in Seq(Device) /\ a \in PciAddresses
    BY BusFacts DEF PciInv
  <1>2. 2 * i \in BarIndices /\ 2 * i + 1 \in BarIndices /\ 2 * i # 2 * i + 1
    BY DEF BarIndices
  <1>3. \A k \in {0, 1} : 2 * k \in BarIndices /\ 2 * k + 1 \in BarIndices
    BY DEF BarIndices
  <1>4. \A k \in {0, 1} : k # i => /\ 2 * k # 2 * i /\ 2 * k # 2 * i + 1 /\ 2 * k + 1 # 2 * i
                                        /\ 2 * k + 1 # 2 * i + 1
    OBVIOUS
  <1>5. CASE t = 1
    <2>1. bus' = bus /\ devices' = devices
      BY <1>5 DEF Looked
    <2> QED
      BY <1>5, <2>1 DEF LookedAt
  <1>6. CASE t = 0
    <2>1. /\ bus' = SetBar(SetBar(bus, a, 2 * i, p), a, 2 * i + 1, q)
               /\ devices' = Noted(devices, n, 2 * i, q)
          /\ c.base_io = p /\ c.base_control = q /\ c.address = a
      BY <1>6 DEF Looked
    <2> DEFINE b == SetBar(bus, a, 2 * i, p)
               j == 2 * i
               l == 2 * i + 1
    <2>2. bus' = SetBar(b, a, l, q)
      BY <2>1
    <2>3. Written(bus, b, a, {j}) /\ b[a].bars[j].base = p
      BY <1>1, <1>2, SetBarIs
    <2> HIDE DEF b
    <2>4. b \in [PciAddresses -> BusFunctions]
      BY <2>3 DEF Written
    <2>5. Written(b, bus', a, {l}) /\ bus'[a].bars[l].base = q
      BY <1>1, <1>2, <2>2, <2>4, SetBarIs
    <2>6. SameBut(devices, devices', n, j)
      BY <1>1, <1>2, <2>1, NotedIs
    <2>7. \A x \in PciAddresses : bus'[x].multi = bus[x].multi
      BY <2>3, <2>5 DEF Written
    <2>8. \A x \in PciAddresses : x # a => bus'[x] = bus[x]
      BY <2>3, <2>5 DEF Written
    <2>9. \A k \in BarIndices : k # j /\ k # l => bus'[a].bars[k] = bus[a].bars[k]
      BY <2>3, <2>5 DEF Written
    <2>10. bus'[a].bars[j].base = p
      BY <1>2, <2>3, <2>5 DEF Written
    <2>11. \A x \in PciAddresses, k \in {0, 1} : x # a \/ k # i =>
             bus'[x].bars[2 * k] = bus[x].bars[2 * k] /\ bus'[x].bars[2 * k + 1] = bus[x].bars[2 * k + 1]
      BY <1>3, <1>4, <2>8, <2>9
    <2>12. \A m \in DOMAIN devices :
             \A k \in {0, 1} :
               m # n \/ k # i => devices'[m].config.bars[2 * k] = devices[m].config.bars[2 * k]
      <3> SUFFICES ASSUME NEW m \in DOMAIN devices, NEW k \in {0, 1}, m # n \/ k # i
                   PROVE  devices'[m].config.bars[2 * k] = devices[m].config.bars[2 * k]
        OBVIOUS
      <3>1. CASE m # n
        BY <2>6, <3>1 DEF SameBut
      <3>2. CASE m = n
        <4>1. 2 * k \in BarIndices /\ 2 * k # j
          BY <1>3, <1>4, <3>2
        <4> HIDE DEF j
        <4> QED
          BY <2>6, <3>2, <4>1 DEF SameBut
      <3> QED
        BY <3>1, <3>2
    <2> QED
      BY <2>1, <2>5, <2>6, <2>7, <2>10, <2>11, <2>12 DEF LookedAt, SameBut
  <1> QED
    BY <1>5, <1>6 DEF Looked

(***************************************************************************)
(* And it is done then, with those that were before.                       *)
(***************************************************************************)
LEMMA LookedDone ==
  ASSUME PciInv, NEW n, n = stage.device, NEW i, i = stage.channel, NEW t \in {0, 1},
         stage \in IdeStages, stage.doing = "channel", n \in DOMAIN devices,
         Advanced(i, t)
  PROVE  /\ i \in {0, 1}
         /\ i = 0 => stage'.doing = "channel" /\ stage'.device = n /\ stage'.channel = 1 /\ stage'.type = t
         /\ i = 1 => stage'.doing = "ide" /\ stage'.device = n + 1 /\ stage'.channel = 0
         /\ \A m \in DOMAIN devices, k \in {0, 1} : Done(m, k)' <=> Done(m, k) \/ (m = n /\ k = i)
         /\ ~ Done(n, i)
  <1>1. i \in {0, 1} /\ n \in Nat /\ DOMAIN devices \subseteq Nat
    BY BusFacts DEF IdeStages, PciInv
  <1>2. i = 0 => stage'.doing = "channel" /\ stage'.device = n /\ stage'.channel = 1 /\ stage'.type = t
    <2> HAVE i = 0
    <2>1. stage' = [stage EXCEPT !.channel = 1, !.type = t]
      BY DEF Advanced
    <2> QED
      BY <2>1 DEF IdeStages
  <1>3. i = 1 => stage'.doing = "ide" /\ stage'.device = n + 1 /\ stage'.channel = 0
    <2> HAVE i = 1
    <2>1. stage' = [stage EXCEPT !.doing = "ide", !.device = @ + 1, !.channel = 0]
      BY DEF Advanced
    <2> QED
      BY <2>1 DEF IdeStages
  <1>4. \A m \in DOMAIN devices, k \in {0, 1} : Done(m, k) <=> m < n \/ (m = n /\ k < i)
    BY DEF Done
  <1>5. \A m \in DOMAIN devices, k \in {0, 1} : Done(m, k)' <=> m < n \/ (m = n /\ k < i) \/ (m = n /\ k = i)
    <2>1. CASE i = 0
      <3>1. \A m \in DOMAIN devices, k \in {0, 1} : Done(m, k)' <=> m < n \/ (m = n /\ k < 1)
        BY <1>2, <2>1 DEF Done
      <3> QED
        BY <1>1, <2>1, <3>1
    <2>2. CASE i = 1
      <3>1. \A m \in DOMAIN devices, k \in {0, 1} : Done(m, k)' <=> m < n + 1
        BY <1>3, <2>2 DEF Done
      <3> QED
        BY <1>1, <2>2, <3>1
    <2> QED
      BY <1>1, <2>1, <2>2
  <1> QED
    BY <1>1, <1>2, <1>3, <1>4, <1>5

(***************************************************************************)
(* A controller is at the old ports with both channels or with neither.    *)
(***************************************************************************)
LEMMA BothOld ==
  ASSUME BusInv, NEW n \in DOMAIN devices, devices[n].config.class = "ide", ~ devices[n].config.multi
  PROVE  /\ firmware[devices[n].address].class = "ide" /\ ~ firmware[devices[n].address].multi
         /\ firmware[devices[n].address].bars[0].base = 0 <=> firmware[devices[n].address].bars[2].base = 0
  <1>1. firmware \in PCI_BUSES /\ devices[n].address \in PciAddresses
    BY BusFacts
  <1>2. firmware[devices[n].address].class = "ide" /\ ~ firmware[devices[n].address].multi
    BY DEF BusInv, AsRead
  <1> QED
    BY <1>1, <1>2, BusAssumption

(***************************************************************************)
(* A channel gets ports of its own: the next ones, or the old ones if its  *)
(* controller decodes those.                                               *)
(***************************************************************************)
LEMMA ChannelKeepsIde == ASSUME PciInv, NEW found, IdeChannel(found) PROVE IdeInv'
  <1> DEFINE num == ide_num_channels
  <1>0. PICK n, i : n = stage.device /\ i = stage.channel
    OBVIOUS
  <1>1. /\ stage \in IdeStages /\ stage.doing = "channel" /\ n \in DOMAIN devices
        /\ devices[n].config.class = "ide" /\ firmware' = firmware
        /\ current_port \in Nat /\ current_port <= FIRST_PORT + 80 * (n - 1) + 31 + 22 * i
        /\ \E t, c, p, q \in Nat \cup Channel : p \in Nat /\ q \in Nat /\ Looked(n, i, t, c, p, q)
    BY <1>0, LookIs
  <1>2. PICK t, c, p, q \in Nat \cup Channel : p \in Nat /\ q \in Nat /\ Looked(n, i, t, c, p, q)
    BY <1>1
  <1>3. /\ t \in {0, 1} /\ c \in Channel /\ c.address = devices[n].address /\ c.primary = i
        /\ t = 1 <=> stage.type = 1 \/ devices[n].config.bars[2 * i].base = 0
        /\ channels' = Append(SubSeq(channels, 1, num), c)
        /\ Advanced(i, t)
        /\ t = 1 => OldPorts(c) /\ current_port' = current_port
        /\ t = 0 => /\ c.base_io = p /\ c.base_control = q /\ current_port <= p /\ p + 8 <= q /\ p % 8 = 0
                         /\ q % 4 = 0
                    /\ current_port' = q + 4 /\ current_port' <= current_port + 22
    BY <1>2 DEF Looked
  <1>4. /\ i \in {0, 1}
        /\ i = 0 => stage'.doing = "channel" /\ stage'.device = n /\ stage'.channel = 1 /\ stage'.type = t
        /\ i = 1 => stage'.doing = "ide" /\ stage'.device = n + 1 /\ stage'.channel = 0
        /\ \A m \in DOMAIN devices, k \in {0, 1} : Done(m, k)' <=> Done(m, k) \/ (m = n /\ k = i)
        /\ ~ Done(n, i)
    BY <1>0, <1>1, <1>3, LookedDone
  <1>5. LookedAt(n, i, t, c)
    BY <1>1, <1>2, <1>4, LookedChanges
  <1>6. /\ num' = num + (IF found = {} THEN 0 ELSE 1)
        /\ drives' = drives \cup {[channel |-> num + 1, drive |-> j, answered |-> <<devices[n].address, i>>] :
             j \in found}
    BY <1>0 DEF IdeChannel
  <1>7. /\ IdeTypes /\ channels \in Seq(Channel) /\ num \in Nat /\ num <= Len(channels)
        /\ FIRST_PORT \in Nat /\ FIRST_PORT > 1015 /\ FIRST_PORT <= current_port
        /\ n \in Nat /\ n > 0
    BY <1>1, PciAssumption, DevicesFew DEF PciInv, IdeInv, IdeTypes
  <1>8. /\ channels' \in Seq(Channel) /\ Len(channels') = num + 1 /\ DOMAIN channels' = 1..(num + 1)
             /\ channels'[num + 1] = c
        /\ \A m \in 1..num : channels'[m] = channels[m] /\ m \in DOMAIN channels
    <2> HIDE DEF num
    <2>1. \A m \in 1..num : m \in DOMAIN channels
      BY <1>7
    <2> QED
      BY <1>3, <1>7, <2>1, PutNext
  <1>9. current_port' \in Nat /\ current_port <= current_port' /\ current_port' <= current_port + 22
    BY <1>1, <1>2, <1>3, SMTT(30)
  <1>10. IdeTypes'
    <2>1. num' \in Nat /\ num' <= num + 1
      BY <1>6, <1>7
    <2> QED
      BY <1>8, <1>9, <2>1 DEF IdeTypes
  <1>11. FIRST_PORT <= current_port' /\ current_port' <= FIRST_PORT + Spent'
    <2>1. CASE i = 0
      <3>1. Spent' = 80 * (n - 1) + 53
        BY <1>4, <1>7, <2>1 DEF Spent
      <3> QED
        BY <1>1, <1>7, <1>9, <2>1, <3>1
    <2>2. CASE i = 1
      <3>1. Spent' = 80 * n
        <4>1. stage'.device - 1 = n
          BY <1>4, <1>7, <2>2
        <4> QED
          BY <1>4, <2>2, <4>1 DEF Spent
      <3>2. current_port <= FIRST_PORT + 80 * (n - 1) + 53
        BY <1>1, <1>7, <2>2
      <3>3. FIRST_PORT <= current_port' /\ current_port' <= FIRST_PORT + 80 * n
        BY <1>1, <1>7, <1>9, <3>2, SMTT(30)
      <3> QED
        BY <3>1, <3>3
    <2> QED
      BY <1>4, <2>1, <2>2
  <1> HIDE DEF num
  <1>12. ASSUME ~ devices[n].config.multi
         PROVE  t = 1 <=> firmware[devices[n].address].bars[2 * i].base = 0
    <2>1. ~ Done(n, i) /\ AtController
      BY <1>4 DEF PciInv, IdeInv
    <2>2. devices[n].config.bars[2 * i].base = firmware[devices[n].address].bars[2 * i].base
      BY <1>1, <1>4, <1>12, <2>1 DEF AtController
    <2>3. CASE i = 0
      <3>1. stage.type = 0
        BY <1>0, <1>1, <2>1, <2>3 DEF AtController
      <3> QED
        BY <1>3, <2>2, <3>1
    <2>4. CASE i = 1
      <3>1. stage.type = 1 <=> firmware[devices[n].address].bars[0].base = 0
        BY <1>0, <1>1, <1>12, <2>1, <2>4 DEF AtController
      <3>2. firmware[devices[n].address].bars[0].base = 0 <=> firmware[devices[n].address].bars[2].base = 0
        BY <1>1, <1>12, BothOld DEF PciInv
      <3> QED
        BY <1>3, <2>2, <2>4, <3>1, <3>2
    <2> QED
      BY <1>4, <2>3, <2>4
  <1>13. AtController'
    <2>1. ASSUME NEW m \in DOMAIN devices', NEW k \in {0, 1}, devices'[m].config.class = "ide",
                 ~ devices'[m].config.multi, ~ Done(m, k)'
          PROVE  devices'[m].config.bars[2 * k].base = firmware'[devices'[m].address].bars[2 * k].base
      <3>1. /\ m \in DOMAIN devices /\ devices[m].config.class = "ide" /\ ~ devices[m].config.multi
            /\ devices'[m].address = devices[m].address
        BY <1>5, <2>1 DEF LookedAt
      <3>2. ~ Done(m, k) /\ (m # n \/ k # i)
        BY <1>4, <2>1, <3>1
      <3>3. devices'[m].config.bars[2 * k] = devices[m].config.bars[2 * k]
        BY <1>5, <3>1, <3>2 DEF LookedAt
      <3>4. devices[m].config.bars[2 * k].base = firmware[devices[m].address].bars[2 * k].base
        BY <3>1, <3>2 DEF PciInv, IdeInv, AtController
      <3> QED
        BY <1>1, <3>1, <3>3, <3>4
    <2>2. i = 0 => (~ devices'[n].config.multi => (t = 1 <=> firmware'[devices'[n].address].bars[0].base = 0))
      <3>1. devices'[n].address = devices[n].address /\ devices'[n].config.multi = devices[n].config.multi
        BY <1>1, <1>5 DEF LookedAt
      <3> QED
        BY <1>1, <1>12, <3>1
    <2>3. CASE i = 0
      BY <1>4, <2>1, <2>2, <2>3 DEF AtController
    <2>4. CASE i = 1
      BY <1>4, <2>1, <2>4 DEF AtController
    <2> QED
      BY <1>4, <2>3, <2>4
  <1>14. ASSUME NEW m \in 1..num
         PROVE  PortsOf(channels[m])' /\ (channels[m].address # c.address \/ channels[m].primary # c.primary)
    <2>1. PICK e : e = channels[m]
      OBVIOUS
    <2>2. e = channels'[m]
      BY <1>8, <1>14, <2>1
    <2>3. e \in Channel /\ PortsOf(e)
      BY <1>7, <1>8, <2>1 DEF PciInv, IdeInv
    <2>4. e.address # devices[n].address \/ e.primary # i
      <3> SUFFICES ASSUME e.address = devices[n].address, e.primary = i PROVE FALSE
        OBVIOUS
      <3>1. PICK l \in DOMAIN devices : devices[l].address = e.address /\ Done(l, e.primary)
        BY <2>3 DEF PortsOf
      <3>2. l = n
        BY <1>1, <3>1, AddressesApart DEF PciInv
      <3> QED
        BY <1>4, <3>1, <3>2
    <2>5. e.address \in PciAddresses /\ e.primary \in {0, 1}
      BY <2>3 DEF Channel
    <2>6. PortsOf(e)'
      <3>1. /\ DOMAIN devices' = DOMAIN devices
            /\ \A l \in DOMAIN devices :
                 devices'[l].address = devices[l].address
                   /\ devices'[l].config.class = devices[l].config.class
            /\ bus'[e.address].multi = bus[e.address].multi
            /\ bus'[e.address].bars[2 * e.primary] = bus[e.address].bars[2 * e.primary]
            /\ bus'[e.address].bars[2 * e.primary + 1] = bus[e.address].bars[2 * e.primary + 1]
        BY <1>5, <2>4, <2>5 DEF LookedAt
      <3>2. \A l \in DOMAIN devices, k \in {0, 1} : Done(l, k) => Done(l, k)'
        BY <1>4
      <3> QED
        BY <1>1, <1>9, <2>3, <3>1, <3>2, PortsStay
    <2>7. PortsOf(channels[m])'
      BY <2>2, <2>6 DEF PortsOf
    <2> QED
      BY <1>3, <2>1, <2>4, <2>7
  <1>15. PortsOf(c)'
    <2>1. \E l \in DOMAIN devices' :
            devices'[l].address = c.address /\ devices'[l].config.class = "ide" /\ Done(l, c.primary)'
      <3>1. Done(n, i)'
        BY <1>1, <1>4
      <3> QED
        BY <1>1, <1>3, <1>5, <3>1 DEF LookedAt
    <2>2. t = 1 => OldPorts(c)
      BY <1>3
    <2>3. t = 0 => NewPorts(c, current_port')
      <3> HAVE t = 0
      <3>1. p \in Nat /\ q \in Nat /\ c.base_io = p /\ c.base_control = q /\ current_port <= p /\ p + 8 <= q
              /\ p % 8 = 0 /\ q % 4 = 0 /\ current_port' = q + 4
        BY <1>2, <1>3
      <3>2. FIRST_PORT <= p /\ q + 4 <= current_port'
        <4>1. current_port \in Nat /\ FIRST_PORT \in Nat /\ FIRST_PORT <= current_port /\ current_port <= p
          BY <1>1, <1>7, <3>1
        <4>2. FIRST_PORT <= p
          BY <3>1, <4>1
        <4> QED
          BY <3>1, <4>2
      <3> QED
        BY <3>1, <3>2 DEF NewPorts
    <2>4. ~ bus'[c.address].multi => ~ devices[n].config.multi
      <3>1. c.address \in PciAddresses
        BY <1>3 DEF Channel
      <3>2. devices[n].config.multi = bus[c.address].multi
        BY <1>1, <1>3, <3>1 DEF PciInv, BusInv, AsRead
      <3> QED
        BY <1>5, <3>1, <3>2 DEF LookedAt
    <2>5. t = 0 => bus'[c.address].bars[2 * i].base = c.base_io
            /\ bus'[c.address].bars[2 * i + 1].base = c.base_control
      BY <1>5 DEF LookedAt
    <2>6. ~ bus'[c.address].multi =>
            IF firmware'[c.address].bars[2 * c.primary].base = 0 THEN OldPorts(c)
            ELSE /\ NewPorts(c, current_port')
                 /\ bus'[c.address].bars[2 * c.primary].base = c.base_io
                 /\ bus'[c.address].bars[2 * c.primary + 1].base = c.base_control
      <3> HAVE ~ bus'[c.address].multi
      <3>1. t = 1 <=> firmware'[c.address].bars[2 * c.primary].base = 0
        BY <1>1, <1>3, <1>12, <2>4
      <3> QED
        BY <1>3, <2>2, <2>3, <2>5, <3>1
    <2> QED
      BY <1>3, <2>1, <2>2, <2>3, <2>6 DEF PortsOf
  <1>16. \A m \in DOMAIN channels' : PortsOf(channels[m])'
    <2> SUFFICES ASSUME NEW m \in 1..(num + 1) PROVE PortsOf(channels[m])'
      BY <1>8
    <2>1. CASE m \in 1..num
      BY <1>14, <2>1
    <2>2. CASE m = num + 1
      <3>1. channels'[m] = c
        BY <1>8, <2>2
      <3> QED
        BY <1>15, <3>1 DEF PortsOf
    <2> QED
      BY <1>7, <2>1, <2>2
  <1>17. ASSUME NEW m \in 1..num PROVE InTurn(channels[m], c)
    <2> DEFINE e == channels[m]
    <2>1. e \in Channel /\ PortsOf(e)
      BY <1>7, <1>8 DEF PciInv, IdeInv
    <2>2. e.address # c.address \/ e.primary # c.primary
      BY <1>14
    <2> HIDE DEF e
    <2>3. e.base_io \in Nat /\ e.base_control \in Nat /\ e.primary \in {0, 1} /\ c.primary \in {0, 1}
            /\ c.base_io \in Nat
      BY <1>3, <2>1 DEF Channel
    <2>4. FIRST_PORT <= e.base_io => e.base_control + 4 <= current_port
      <3> HAVE FIRST_PORT <= e.base_io
      <3>1. ~ OldPorts(e)
        BY <1>7, <2>3 DEF OldPorts
      <3>2. NewPorts(e, current_port)
        BY <2>1, <3>1 DEF PortsOf
      <3> QED
        BY <3>2 DEF NewPorts
    <2>5. FIRST_PORT <= c.base_io => current_port <= c.base_io
      <3> HAVE FIRST_PORT <= c.base_io
      <3>1. ~ OldPorts(c)
        BY <1>7, <2>3 DEF OldPorts
      <3>2. t = 0
        BY <1>3, <3>1
      <3> QED
        BY <1>3, <3>2
    <2>6. FIRST_PORT <= e.base_io /\ FIRST_PORT <= c.base_io => e.base_control + 4 <= c.base_io
      BY <1>1, <2>3, <2>4, <2>5
    <2>7. InTurn(e, c)
      BY <2>2, <2>6 DEF InTurn
    <2> QED
      BY <2>7 DEF e
  <1>18. \A k, m \in DOMAIN channels' : k < m => InTurn(channels'[k], channels'[m])
    <2> SUFFICES ASSUME NEW k \in 1..(num + 1), NEW m \in 1..(num + 1), k < m
                 PROVE  InTurn(channels'[k], channels'[m])
      BY <1>8
    <2>1. k \in 1..num
      BY <1>7
    <2>2. CASE m \in 1..num
      <3>1. channels'[k] = channels[k] /\ channels'[m] = channels[m] /\ k \in DOMAIN channels
              /\ m \in DOMAIN channels
        BY <1>8, <2>1, <2>2
      <3> QED
        BY <3>1 DEF PciInv, IdeInv
    <2>3. CASE m = num + 1
      <3>1. channels'[k] = channels[k] /\ channels'[m] = c
        BY <1>8, <2>1, <2>3
      <3> QED
        BY <1>17, <2>1, <3>1
    <2> QED
      BY <1>7, <2>2, <2>3
  <1>19. \A d \in drives' : /\ d.channel \in 1..ide_num_channels'
                            /\ d.answered = <<channels'[d.channel].address, channels'[d.channel].primary>>
    <2> SUFFICES ASSUME NEW d \in drives'
                 PROVE  /\ d.channel \in 1..num'
                        /\ d.answered = <<channels'[d.channel].address, channels'[d.channel].primary>>
      BY DEF num
    <2>0. num' \in Nat /\ num <= num'
      BY <1>6, <1>7
    <2>1. CASE d \in drives
      <3>1. d.channel \in 1..num /\ d.answered = <<channels[d.channel].address, channels[d.channel].primary>>
        BY <2>1 DEF PciInv, IdeInv, num
      <3>2. d.channel \in 1..num'
        BY <1>7, <2>0, <3>1
      <3> QED
        BY <1>8, <3>1, <3>2
    <2>2. ASSUME NEW j \in found,
                 d = [channel |-> num + 1, drive |-> j, answered |-> <<devices[n].address, i>>]
          PROVE  /\ d.channel \in 1..num'
                 /\ d.answered = <<channels'[d.channel].address, channels'[d.channel].primary>>
      <3>1. num' = num + 1
        BY <1>6, <2>2
      <3>2. d.channel = num + 1 /\ d.answered = <<devices[n].address, i>>
        BY <2>2
      <3>3. d.channel \in 1..num'
        BY <1>7, <3>1, <3>2
      <3> QED
        BY <1>3, <1>8, <3>2, <3>3
    <2> QED
      BY <1>6, <2>1, <2>2
  <1> QED
    BY <1>10, <1>11, <1>13, <1>16, <1>18, <1>19 DEF IdeInv

(***************************************************************************)
(* The invariant holds at first,                                           *)
(***************************************************************************)
LEMMA PciBegins == PciInit => PciInv
  BY BusBegins, IdeBegins DEF PciInv

(***************************************************************************)
(* and every step keeps it.                                                *)
(***************************************************************************)
LEMMA PciStays == PciInv /\ [PciNext]_pciVars => PciInv'
  <1> SUFFICES ASSUME PciInv, [PciNext]_pciVars PROVE PciInv'
    OBVIOUS
  <1>0. BusInv /\ current_port \in Nat
    BY DEF PciInv, IdeInv, IdeTypes
  <1>1. CASE ScanFunction
    BY <1>0, <1>1, ScanKeeps, ScanKeepsIde DEF PciInv
  <1>2. CASE NicInit
    BY <1>0, <1>2, NicKeeps, NicKeepsIde DEF PciInv
  <1>3. CASE IdeSkip
    BY <1>0, <1>3, SkipKeeps, SkipKeepsIde DEF PciInv
  <1>4. CASE IdeController
    BY <1>0, <1>4, ControllerKeeps, ControllerKeepsIde DEF PciInv
  <1>5. ASSUME NEW found \in {{}, {0}, {0, 1}}, IdeChannel(found) PROVE PciInv'
    BY <1>0, <1>5, ChannelKeeps, ChannelKeepsIde DEF PciInv
  <1>6. CASE UNCHANGED pciVars
    <2>1. /\ firmware' = firmware /\ bus' = bus /\ stage' = stage /\ config' = config /\ devices' = devices
          /\ current_port' = current_port /\ channels' = channels /\ ide_num_channels' = ide_num_channels
          /\ drives' = drives
      BY <1>6 DEF pciVars
    <2>2. BusInv'
      <3>1. BusTypes' /\ Stages'
        BY <1>0, <2>1 DEF BusInv, BusTypes, Stages
      <3>2. Listed(devices, firmware, Here)'
        BY <1>0, <2>1 DEF BusInv, Listed, Here
      <3>3. AsRead'
        BY <1>0, <2>1 DEF BusInv, AsRead, Moved
      <3> QED
        BY <3>1, <3>2, <3>3 DEF BusInv
    <2>3. \A n \in DOMAIN devices, i \in {0, 1} : Done(n, i) <=> Done(n, i)'
      BY <2>1 DEF Done
    <2>4. AtController'
      BY <2>1, <2>3 DEF PciInv, IdeInv, AtController
    <2>5. Spent' = Spent
      BY <2>1 DEF Spent
    <2>6. current_port' \in Nat /\ current_port <= current_port' /\ current_port' <= FIRST_PORT + Spent'
      BY <1>0, <2>1, <2>5 DEF PciInv, IdeInv
    <2>7. IdeInv'
      BY <2>1, <2>3, <2>4, <2>6, ChannelsStay
    <2> QED
      BY <2>2, <2>7 DEF PciInv
  <1>7. CASE PciDone
    BY <1>6, <1>7 DEF PciDone
  <1> QED
    BY <1>1, <1>2, <1>3, <1>4, <1>5, <1>6, <1>7 DEF PciNext

\* Where the ports of a channel are, and what is there.
PortsLie(c) ==
  /\ c.base_io \in Nat /\ c.base_control \in Nat
  /\ \/ c.base_io = 496 - 128 * c.primary /\ c.base_control = 1012 - 128 * c.primary
     \/ FIRST_PORT <= c.base_io /\ c.base_io + 8 <= c.base_control

(***************************************************************************)
(* Where the ports of two channels lie apart.                              *)
(***************************************************************************)
LEMMA Disjoint ==
  ASSUME NEW c, NEW e, PortsLie(c), PortsLie(e), c.primary \in {0, 1}, e.primary \in {0, 1},
         (c.base_io < FIRST_PORT /\ e.base_io < FIRST_PORT) => c.primary # e.primary,
         FIRST_PORT <= c.base_io /\ FIRST_PORT <= e.base_io =>
           c.base_control + 4 <= e.base_io \/ e.base_control + 4 <= c.base_io
  PROVE  ChannelPorts(c) \cap ChannelPorts(e) = {}
  <1> SUFFICES ASSUME NEW p \in ChannelPorts(c), p \in ChannelPorts(e) PROVE FALSE
    OBVIOUS
  <1>1. FIRST_PORT \in Nat /\ FIRST_PORT > 1015
    BY PciAssumption
  <1> DEFINE u == c.base_io
             v == c.base_control
             x == e.base_io
             y == e.base_control
  <1>2. /\ u \in Nat /\ v \in Nat /\ x \in Nat /\ y \in Nat
        /\ (u = 496 - 128 * c.primary /\ v = 1012 - 128 * c.primary) \/ (FIRST_PORT <= u /\ u + 8 <= v)
        /\ (x = 496 - 128 * e.primary /\ y = 1012 - 128 * e.primary) \/ (FIRST_PORT <= x /\ x + 8 <= y)
    BY DEF PortsLie
  <1>3. /\ (u < FIRST_PORT /\ x < FIRST_PORT) => c.primary # e.primary
        /\ FIRST_PORT <= u /\ FIRST_PORT <= x => v + 4 <= x \/ y + 4 <= u
    OBVIOUS
  <1>4. p \in (u .. (u + 7)) \cup (v .. (v + 3)) /\ p \in (x .. (x + 7)) \cup (y .. (y + 3))
    BY DEF ChannelPorts
  <1> HIDE DEF u, v, x, y
  <1>5. p \in Int
    BY <1>2, <1>4
  <1>6. CASE FIRST_PORT <= u /\ FIRST_PORT <= x
    BY <1>1, <1>2, <1>3, <1>4, <1>5, <1>6
  <1>7. CASE u < FIRST_PORT /\ x < FIRST_PORT
    BY <1>1, <1>2, <1>3, <1>4, <1>5, <1>7
  <1>8. CASE FIRST_PORT <= u /\ x < FIRST_PORT
    BY <1>1, <1>2, <1>4, <1>5, <1>8
  <1>9. CASE u < FIRST_PORT /\ FIRST_PORT <= x
    BY <1>1, <1>2, <1>4, <1>5, <1>9
  <1> QED
    BY <1>1, <1>2, <1>6, <1>7, <1>8, <1>9

(***************************************************************************)
(* The old ports are one controller's.                                     *)
(***************************************************************************)
LEMMA OneOld ==
  ASSUME BusInv, NEW c \in Channel, NEW e \in Channel, PortsOf(c), PortsOf(e), OldPorts(c), OldPorts(e),
         ~ bus[c.address].multi, ~ bus[e.address].multi
  PROVE  c.address = e.address
  <1>1. FIRST_PORT \in Nat /\ FIRST_PORT > 1015
    BY PciAssumption
  <1>2. ASSUME NEW x \in Channel, PortsOf(x), OldPorts(x), ~ bus[x.address].multi
        PROVE  x.address \in PciAddresses /\ AtOldPorts(firmware[x.address])
    <2>1. x.address \in PciAddresses /\ x.primary \in {0, 1}
      BY DEF Channel
    <2>2. ~ NewPorts(x, current_port)
      BY <1>1, <1>2, <2>1 DEF OldPorts, NewPorts
    <2>3. firmware[x.address].bars[2 * x.primary].base = 0
      BY <1>2, <2>2 DEF PortsOf
    <2>4. firmware[x.address].class = "ide" /\ ~ firmware[x.address].multi
      <3>1. PICK n \in DOMAIN devices : devices[n].address = x.address /\ devices[n].config.class = "ide"
        BY <1>2 DEF PortsOf
      <3> QED
        BY <1>2, <2>1, <3>1 DEF BusInv, AsRead
    <2>5. firmware[x.address].bars[0].base = 0
      <3>1. firmware[x.address].bars[0].base = 0 <=> firmware[x.address].bars[2].base = 0
        BY <2>1, <2>4, BusAssumption, BusFacts
      <3>2. CASE x.primary = 0
        BY <2>3, <3>2
      <3>3. CASE x.primary = 1
        BY <2>3, <3>1, <3>3
      <3> QED
        BY <2>1, <3>2, <3>3
    <2> QED
      BY <2>1, <2>4, <2>5 DEF AtOldPorts
  <1>3. c.address \in PciAddresses /\ AtOldPorts(firmware[c.address])
    BY <1>2
  <1>4. e.address \in PciAddresses /\ AtOldPorts(firmware[e.address])
    BY <1>2
  <1> QED
    BY <1>3, <1>4, BusAssumption, BusFacts

(***************************************************************************)
(* The invariant says that drives stay where they answered.                *)
(***************************************************************************)
LEMMA IdeMeans == PciInv => DrivesReachable
  <1> SUFFICES ASSUME PciInv, NEW d \in drives
               PROVE  LET c == channels[d.channel]
                          registers == bus[c.address].bars
                      IN  /\ <<c.address, c.primary>> = d.answered
                          /\ ~ bus[c.address].multi =>
                               /\ firmware[c.address].bars[2 * c.primary].base # 0 =>
                                    /\ registers[2 * c.primary].base = c.base_io /\ c.base_io % 8 = 0
                                    /\ registers[2 * c.primary + 1].base = c.base_control
                                         /\ c.base_control % 4 = 0
                               /\ \A m \in DOMAIN channels \ {d.channel} :
                                    bus[channels[m].address].multi
                                      \/ ChannelPorts(c) \cap ChannelPorts(channels[m]) = {}
    BY DEF DrivesReachable
  <1> DEFINE k == d.channel
             c == channels[k]
  <1>1. k \in DOMAIN channels /\ <<c.address, c.primary>> = d.answered /\ DOMAIN channels \subseteq Nat
    BY DEF PciInv, IdeInv, IdeTypes
  <1>2. \A m \in DOMAIN channels : channels[m] \in Channel /\ PortsOf(channels[m])
    BY DEF PciInv, IdeInv, IdeTypes
  <1>3. FIRST_PORT \in Nat /\ FIRST_PORT > 1015
    BY PciAssumption
  <1> HIDE DEF k
  <1>4. ~ bus[c.address].multi /\ firmware[c.address].bars[2 * c.primary].base # 0 =>
          /\ bus[c.address].bars[2 * c.primary].base = c.base_io /\ c.base_io % 8 = 0
          /\ bus[c.address].bars[2 * c.primary + 1].base = c.base_control /\ c.base_control % 4 = 0
    BY <1>1, <1>2 DEF PortsOf, NewPorts
  <1>5. ASSUME NEW m \in DOMAIN channels, m # k, ~ bus[c.address].multi, ~ bus[channels[m].address].multi
        PROVE  ChannelPorts(c) \cap ChannelPorts(channels[m]) = {}
    <2> DEFINE e == channels[m]
    <2>1. c \in Channel /\ PortsOf(c) /\ e \in Channel /\ PortsOf(e)
      BY <1>1, <1>2
    <2>2. InTurn(c, e) \/ InTurn(e, c)
      <3>1. k < m \/ m < k
        BY <1>1, <1>5
      <3> QED
        BY <1>1, <3>1 DEF PciInv, IdeInv
    <2>3. ~ bus[c.address].multi /\ ~ bus[e.address].multi
      BY <1>5
    <2> HIDE DEF c, e
    <2>4. c.primary \in {0, 1} /\ e.primary \in {0, 1} /\ c.base_io \in Nat /\ e.base_io \in Nat
      BY <2>1 DEF Channel
    <2>5. PortsLie(c) /\ PortsLie(e)
      BY <2>1 DEF PortsOf, PortsLie, OldPorts, NewPorts, Channel
    <2>6. (c.base_io < FIRST_PORT /\ e.base_io < FIRST_PORT) => c.primary # e.primary
      <3> HAVE c.base_io < FIRST_PORT /\ e.base_io < FIRST_PORT
      <3>1. OldPorts(c) /\ OldPorts(e)
        BY <1>3, <2>1, <2>4 DEF PortsOf, NewPorts
      <3>2. c.address = e.address
        BY <2>1, <2>3, <3>1, OneOld DEF PciInv
      <3> QED
        BY <2>2, <3>2 DEF InTurn
    <2>7. FIRST_PORT <= c.base_io /\ FIRST_PORT <= e.base_io =>
            c.base_control + 4 <= e.base_io \/ e.base_control + 4 <= c.base_io
      BY <2>2 DEF InTurn
    <2>8. ChannelPorts(c) \cap ChannelPorts(e) = {}
      BY <2>4, <2>5, <2>6, <2>7, Disjoint
    <2> QED
      BY <2>8 DEF e
  <1> QED
    BY <1>1, <1>4, <1>5 DEF k

(***************************************************************************)
(* For any bus and whatever was on the stack before: after the scan every  *)
(* function is listed once, in the order of addresses, with its own base   *)
(* addresses, and no driver disturbs another's device.                     *)
(***************************************************************************)
THEOREM BusListed == PciSpec => []ListedAsFound
  <1>1. PciInit => PciInv
    BY PciBegins
  <1>2. PciInv /\ [PciNext]_pciVars => PciInv'
    BY PciStays
  <1>3. PciInv => ListedAsFound
    BY BusMeans DEF PciInv
  <1> QED
    BY <1>1, <1>2, <1>3, PTL DEF PciSpec

(***************************************************************************)
(* For any bus: the ports noted for the channel of a drive are those its   *)
(* controller decodes, aligned, and no other channel's.                    *)
(***************************************************************************)
THEOREM DrivesKept == PciSpec => []DrivesReachable
  <1>1. PciInit => PciInv
    BY PciBegins
  <1>2. PciInv /\ [PciNext]_pciVars => PciInv'
    BY PciStays
  <1>3. PciInv => DrivesReachable
    BY IdeMeans
  <1> QED
    BY <1>1, <1>2, <1>3, PTL DEF PciSpec
=============================================================================
