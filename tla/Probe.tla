-------------------------------- MODULE Probe --------------------------------
(***************************************************************************)
(* The interrupt subsystem (irqs.c) and the one driver that uses all of    *)
(* it: at start-up the driver of the i8255x network interface finds out by *)
(* trial which vector its interrupts come in on (i8255x_driver_setup_irq). *)
(* The stub, the handler and the EOI of an interrupt are one step:         *)
(* handlers run with interrupts off and the driver's does not turn them on. *)
(*                                                                         *)
(* External: the interrupt controller, which delivers the lowest vector    *)
(* first, and the interface, which sets SWI in its status as soon as it is *)
(* told to and asks for its interrupt while its status is not 0.           *)
(***************************************************************************)
EXTENDS Naturals, Sequences, FiniteSets

CONSTANTS
  OTHER_VECTORS,       \* vectors other devices interrupt on meanwhile
  NIC_VECTORS,         \* the vectors the interface may be wired to
  I8255X_DEFAULT_IRQ,
  MAX_IRQ_FIND_TRIES

ProbeVectors == OTHER_VECTORS \cup NIC_VECTORS \cup {I8255X_DEFAULT_IRQ}
NO_VECTOR == 0

ASSUME ProbeAssumption ==
  /\ ProbeVectors \subseteq Nat \ {NO_VECTOR}
  /\ OTHER_VECTORS \cap NIC_VECTORS = {}
  /\ MAX_IRQ_FIND_TRIES \in Nat

VARIABLES
  wired,      \* the vector the interface is wired to
  raised,     \* vectors the interrupt controller has a request for
  ifs,        \* EFLAGS.IF
  isrTable,   \* __isr_table: "global" or "wait" in all of its entries
  actions,    \* _isr_vector_table: handlers of a vector, without the empty head
  probe,      \* where setup_irq is: pc, try, and of irqs.c: _wait_irq_count (no
              \* further than 2), and whether `calls' changed in wait_for_irq
  nic         \* _i8255x_device: irq_vector, wrong_irq; and SWI of its status

probeVars == <<wired, raised, ifs, isrTable, actions, probe, nic>>

-----------------------------------------------------------------------------
(* irqs.c *)

\* _interrupt_add_isr, at the end of the list; the vector is checked by the caller here.
AddIsr(a, handler, v) == [a EXCEPT ![v] = Append(@, handler)]

\* _interrupt_del_isr: the first action of the handler.
DelIsr(a, handler, v) ==
  LET at == {i \in DOMAIN a[v] : a[v][i] = handler}
      i == CHOOSE i \in at : \A j \in at : i <= j
  IN  IF at = {} THEN a
      ELSE [a EXCEPT ![v] = SubSeq(@, 1, i - 1) \o SubSeq(@, i + 1, Len(@))]

\* i8255x_driver_isr: without a cause it is the wrong interrupt; else the first
\* one tells the vector, and everything is acknowledged.
DriverIsr(n, v) ==
  IF ~ n.swi THEN [n EXCEPT !.wrong_irq = TRUE]
  ELSE [n EXCEPT !.irq_vector = IF @ = NO_VECTOR THEN v ELSE @, !.swi = FALSE]

\* _interrupt_global_handler: every action of the vector, all of them the driver's; a
\* third one finds and does what the second did.
GlobalHandler(n, v) ==
  LET first == DriverIsr(n, v)
  IN  CASE Len(actions[v]) = 0 -> n
        [] Len(actions[v]) = 1 -> first
        [] OTHER -> DriverIsr(first, v)

\* An interface that was acknowledged asks no more, but what was asked may be
\* with the controller already.
Asked(rest, n) == IF n.swi THEN {rest} ELSE {rest, rest \ {wired}}

\* The stub, the handler in the table, _interrupt_clear.
Interrupt(v) ==
  LET served == IF isrTable = "wait" THEN DriverIsr(nic, v) ELSE GlobalHandler(nic, v)
  IN  /\ ifs
      /\ v \in raised
      /\ \A w \in raised : v <= w
      /\ nic' = served
      /\ raised' \in Asked(raised \ {v}, served)
      /\ probe' = IF isrTable = "wait"
                  THEN [probe EXCEPT !.count = IF @ < 2 THEN @ + 1 ELSE @]
                  ELSE [probe EXCEPT !.changed = @ \/ v = nic.irq_vector]
      /\ UNCHANGED <<wired, ifs, isrTable, actions>>

\* External: a device asks for an interrupt.
Raise(v) ==
  /\ v \in OTHER_VECTORS \/ (v = wired /\ nic.swi)
  /\ raised' = raised \cup {v}
  /\ UNCHANGED <<wired, ifs, isrTable, actions, probe, nic>>

-----------------------------------------------------------------------------
(* i8255x_driver_setup_irq *)

\* _interrupt_init, and _init before the driver.
ProbeInit ==
  /\ wired \in NIC_VECTORS
  /\ raised = {} /\ ifs = FALSE /\ isrTable = "global"
  /\ actions = [v \in ProbeVectors |-> <<>>]
  /\ probe = [pc |-> "try", try |-> 0, count |-> 0, changed |-> FALSE]
  /\ nic = [irq_vector |-> NO_VECTOR, wrong_irq |-> FALSE, swi |-> FALSE]

\* The start of a try: what is pending is acknowledged, the software interrupt is
\* triggered, and _interrupt_wait hands all vectors to its own handler.
Try ==
  /\ probe.pc = "try"
  /\ probe.try < MAX_IRQ_FIND_TRIES
  /\ nic' = [irq_vector |-> NO_VECTOR, wrong_irq |-> FALSE, swi |-> TRUE]
  /\ raised' \in Asked(raised, [swi |-> FALSE])
  /\ probe' = [probe EXCEPT !.pc = "waiting", !.count = 0]
  /\ isrTable' = "wait" /\ ifs' = TRUE
  /\ UNCHANGED <<wired, actions>>

\* _interrupt_wait ends, after an interrupt or by its time; with exactly one the
\* driver's handler is put on the vector that one came in on.
Waited ==
  /\ probe.pc = "waiting"
  /\ isrTable' = "global" /\ ifs' = FALSE
  /\ IF probe.count # 1
     THEN probe' = [probe EXCEPT !.pc = "try", !.try = @ + 1] /\ UNCHANGED actions
     ELSE IF nic.irq_vector = NO_VECTOR
     THEN probe' = [probe EXCEPT !.pc = "critical"] /\ UNCHANGED actions
     ELSE /\ actions' = AddIsr(actions, "i8255x", nic.irq_vector)
          /\ probe' = [probe EXCEPT !.pc = "confirm", !.changed = FALSE]
  /\ UNCHANGED <<wired, raised, nic>>

\* What _interrupt_wait_for_irq may return; a change in its last millisecond is lost.
WaitForIrq == IF probe.changed THEN {"E_SUCCESS", "E_TIMEOUT"} ELSE {"E_TIMEOUT"}

\* No interrupt is expected now.  If one came the handler is removed, which leaves
\* interrupts on; else it is tried.
Confirm ==
  \E status \in WaitForIrq :
    /\ probe.pc = "confirm"
    /\ ifs' = TRUE
    /\ IF nic.wrong_irq \/ status # "E_TIMEOUT"
       THEN /\ actions' = DelIsr(actions, "i8255x", nic.irq_vector)
            /\ probe' = [probe EXCEPT !.pc = "try", !.try = @ + 1]
            /\ UNCHANGED nic
       ELSE /\ nic' = [nic EXCEPT !.swi = TRUE]
            /\ probe' = [probe EXCEPT !.pc = "testing"]
            /\ UNCHANGED actions
    /\ UNCHANGED <<wired, raised, isrTable>>

\* 10 ms later: the handler ran if the status is 0.  Else it stays where it is.
Tested ==
  /\ probe.pc = "testing"
  /\ IF nic.swi
     THEN probe' = [probe EXCEPT !.pc = "try", !.try = @ + 1] /\ UNCHANGED ifs
     ELSE probe' = [probe EXCEPT !.pc = "found"] /\ ifs' = FALSE
  /\ UNCHANGED <<wired, raised, isrTable, actions, nic>>

\* Mutant: the default vector is tried without a handler.
TryDefaultBare ==
  /\ probe.pc = "try"
  /\ probe.try = MAX_IRQ_FIND_TRIES
  /\ nic' = [nic EXCEPT !.irq_vector = I8255X_DEFAULT_IRQ, !.swi = TRUE]
  /\ probe' = [probe EXCEPT !.pc = "default"]
  /\ ifs' = TRUE
  /\ UNCHANGED <<wired, raised, isrTable, actions>>

\* All tries used up: the default vector.
TryDefault ==
  /\ probe.pc = "try"
  /\ probe.try = MAX_IRQ_FIND_TRIES
  /\ nic' = [nic EXCEPT !.irq_vector = I8255X_DEFAULT_IRQ, !.swi = TRUE]
  /\ actions' = AddIsr(actions, "i8255x", I8255X_DEFAULT_IRQ)
  /\ probe' = [probe EXCEPT !.pc = "default"]
  /\ ifs' = TRUE
  /\ UNCHANGED <<wired, raised, isrTable>>

DefaultTested ==
  /\ probe.pc = "default"
  /\ ifs' = FALSE
  /\ IF nic.swi
     THEN /\ actions' = DelIsr(actions, "i8255x", I8255X_DEFAULT_IRQ)
          /\ probe' = [probe EXCEPT !.pc = "too many"]
     ELSE probe' = [probe EXCEPT !.pc = "found"] /\ UNCHANGED actions
  /\ UNCHANGED <<wired, raised, isrTable, nic>>

ProbeNext ==
  \/ \E v \in ProbeVectors : Interrupt(v) \/ Raise(v)
  \/ Try
  \/ Waited
  \/ Confirm
  \/ Tested
  \/ TryDefault
  \/ DefaultTested

-----------------------------------------------------------------------------
ProbeTypeOK ==
  /\ wired \in NIC_VECTORS
  /\ raised \subseteq ProbeVectors
  /\ ifs \in BOOLEAN
  /\ isrTable \in {"global", "wait"}
  /\ \A v \in ProbeVectors : \A i \in DOMAIN actions[v] : actions[v][i] = "i8255x"
  /\ probe.try \in 0..MAX_IRQ_FIND_TRIES /\ probe.count \in 0..2
  /\ nic.irq_vector \in ProbeVectors \cup {NO_VECTOR}

\* Whatever tries and interrupts come in which order: setup_irq never asks for a handler
\* on vector -1, which ends in a panic, since its handler has learnt a vector whenever
\* _interrupt_wait reports a single interrupt; and a driver that is told its vector was
\* found can be interrupted there, its handler being on the list of that vector, with
\* interrupts off and handled by the lists as _init expects.
HandlerInPlace ==
  /\ probe.pc # "critical"
  /\ probe.pc = "found" =>
       /\ "i8255x" \in {actions[nic.irq_vector][i] : i \in DOMAIN actions[nic.irq_vector]}
       /\ ~ ifs
       /\ isrTable = "global"
=============================================================================
