------------------------------ MODULE Ethernet ------------------------------
(***************************************************************************)
(* The i8255x network interface in operation: the ring of receive buffers  *)
(* it fills while i8255x_driver_isr empties it, the one transmit buffer,    *)
(* and the messages of knet.c.  The handler and the system call sendmsg run *)
(* with interrupts off, so never at once; but the interface goes on by     *)
(* itself between any two accesses of theirs to the memory they share.      *)
(* Its receive unit (RU) and command unit (CU) are external.                *)
(*                                                                         *)
(* Frames are numbered as they arrive, messages as they are sent.           *)
(***************************************************************************)
EXTENDS Naturals, FiniteSets

CONSTANTS
  I8255X_RX_BUFFER_COUNT,
  NUM_MESSAGES,   \* knet.c: buffers for messages that arrived
  FRAMES_MAX,     \* bound: frames that arrive
  SENT_MAX        \* bound: messages that are sent

ASSUME EthernetAssumption ==
  /\ I8255X_RX_BUFFER_COUNT \in Nat \ {0, 1}
  /\ NUM_MESSAGES \in Nat /\ FRAMES_MAX \in Nat /\ SENT_MAX \in Nat

RxBuffers == 0..(I8255X_RX_BUFFER_COUNT - 1)
LinkOf(b) == (b + 1) % I8255X_RX_BUFFER_COUNT

VARIABLES
  ring,       \* receive buffers: the frame, and whether header.status and EL are set
  rxp,        \* rx_buffer_ptr and rx_buffer_base
  ru,         \* RU: whether it is ready, and the buffer it fills next
  scb,        \* causes of interrupts in the status
  isr,        \* i8255x_driver_isr: where it is, and rx_buf
  arrived,    \* frames that arrived while the RU was ready
  delivered,  \* the frames _knet_process_frame was given
  claimed,    \* messages of knet.c that are not available
  txb,        \* the transmit buffer: the message in it, whether the CU is at it
  sent        \* the last message that was sent, and the one that left last

rxVars == <<ring, rxp, ru, isr, arrived, delivered, claimed>>
txVars == <<txb, sent>>
etherVars == <<rxVars, txVars, scb>>

-----------------------------------------------------------------------------
\* i8255x_setup_rfa: a ring of empty buffers; the RU is to stop behind the last.
SetupRfa ==
  [b \in RxBuffers |-> [frame |-> 0, status |-> FALSE, el |-> LinkOf(b) = 0]]

\* The end of _i8255x_driver_init: the RU is started.
EtherInit ==
  /\ ring = SetupRfa
  /\ rxp = [ptr |-> 0, base |-> 0]
  /\ ru = [ready |-> TRUE, at |-> 0]
  /\ scb = {}
  /\ isr = [pc |-> "out", buf |-> 0]
  /\ arrived = 0 /\ delivered = {} /\ claimed = 0
  /\ txb = [message |-> 0, active |-> FALSE]
  /\ sent = [last |-> 0, left |-> 0]

-----------------------------------------------------------------------------
(* The interface (external) *)

\* A frame into the next buffer; the RU stops behind a buffer that has EL set.
ReceiveFrame ==
  LET b == ru.at
  IN  /\ ru.ready
      /\ arrived < FRAMES_MAX
      /\ arrived' = arrived + 1
      /\ ring' = [ring EXCEPT ![b].frame = arrived + 1, ![b].status = TRUE]
      /\ ru' = [ready |-> ~ ring[b].el, at |-> LinkOf(b)]
      /\ scb' = scb \cup {"FR"} \cup (IF ring[b].el THEN {"RNR"} ELSE {})
      /\ UNCHANGED <<rxp, isr, delivered, claimed, txVars>>

\* The CU has sent what is in the transmit buffer.
Transmitted ==
  /\ txb.active
  /\ txb' = [txb EXCEPT !.active = FALSE]
  /\ sent' = [sent EXCEPT !.left = txb.message]
  /\ scb' = scb \cup {"CX"}
  /\ UNCHANGED rxVars

-----------------------------------------------------------------------------
(* i8255x_driver_isr *)

IsrAt(pc) == isr' = [isr EXCEPT !.pc = pc]

IsrEnter ==
  /\ isr.pc = "out"
  /\ scb # {}
  /\ IsrAt("FR?")
  /\ UNCHANGED <<ring, rxp, ru, arrived, delivered, claimed, txVars, scb>>

IsrFrames ==
  /\ isr.pc = "FR?"
  /\ isr' = IF "FR" \in scb THEN [pc |-> "loop", buf |-> rxp.ptr] ELSE [isr EXCEPT !.pc = "RNR?"]
  /\ UNCHANGED <<ring, rxp, ru, arrived, delivered, claimed, txVars, scb>>

\* Mutant: the buffer the loop ended at is passed over.
IsrLoopSkips ==
  /\ isr.pc = "loop"
  /\ ~ ring[isr.buf].status \/ LinkOf(isr.buf) = rxp.ptr
  /\ rxp' = [rxp EXCEPT !.ptr = LinkOf(isr.buf)]
  /\ IsrAt("RNR?")
  /\ UNCHANGED <<ring, ru, arrived, delivered, claimed, txVars, scb>>

\* The loop ends at an empty buffer, and at the one before that it began with.
IsrLoopEnds ==
  /\ isr.pc = "loop"
  /\ ~ ring[isr.buf].status \/ LinkOf(isr.buf) = rxp.ptr
  /\ rxp' = [rxp EXCEPT !.ptr = isr.buf]
  /\ IsrAt("RNR?")
  /\ UNCHANGED <<ring, ru, arrived, delivered, claimed, txVars, scb>>

\* _knet_get_avail_msg: a search that finds nothing does not end, as
\* _next_message_idx is 0 and the index is never 0 where the two are compared.
GetAvailMsg ==
  IF claimed < NUM_MESSAGES
  THEN claimed' = claimed + 1 /\ IsrAt("init")
  ELSE IsrAt("spinning") /\ UNCHANGED claimed

\* The frame of the buffer to _knet_process_frame, which keeps the messages for
\* this host: those whose header says so, the length in which the sender leaves
\* as it finds it.
IsrDeliver ==
  /\ isr.pc = "loop"
  /\ ring[isr.buf].status /\ LinkOf(isr.buf) # rxp.ptr
  /\ delivered' = delivered \cup {ring[isr.buf].frame}
  /\ \/ GetAvailMsg
     \/ IsrAt("init") /\ UNCHANGED claimed
  /\ UNCHANGED <<ring, rxp, ru, arrived, txVars, scb>>

\* Mutant: the status of the buffer is not reset.
IsrInitKeeps ==
  LET b == isr.buf
  IN  /\ isr.pc = "init"
      /\ ring' = [ring EXCEPT ![b].el = TRUE]
      /\ isr' = [pc |-> IF ring[b].el THEN "RNR?" ELSE "loop", buf |-> LinkOf(b)]
      /\ rxp' = IF ring[b].el THEN [rxp EXCEPT !.ptr = LinkOf(b)] ELSE rxp
      /\ UNCHANGED <<ru, arrived, delivered, claimed, txVars, scb>>

\* i8255x_init_rxb, which sets EL, and on to the next buffer; behind a buffer that
\* had EL set the loop ends.
IsrInitRxb ==
  LET b == isr.buf
  IN  /\ isr.pc = "init"
      /\ ring' = [ring EXCEPT ![b].status = FALSE, ![b].el = TRUE]
      /\ isr' = [pc |-> IF ring[b].el THEN "RNR?" ELSE "loop", buf |-> LinkOf(b)]
      /\ rxp' = IF ring[b].el THEN [rxp EXCEPT !.ptr = LinkOf(b)] ELSE rxp
      /\ UNCHANGED <<ru, arrived, delivered, claimed, txVars, scb>>

\* The RU stopped: it is started again, at the buffer after the one before.
IsrRestart ==
  /\ isr.pc = "RNR?"
  /\ IF "RNR" \in scb
     THEN /\ rxp' = [rxp EXCEPT !.base = LinkOf(@)]
          /\ ru' = [ready |-> TRUE, at |-> LinkOf(rxp.base)]
     ELSE UNCHANGED <<rxp, ru>>
  /\ IsrAt("ack")
  /\ UNCHANGED <<ring, arrived, delivered, claimed, txVars, scb>>

\* All causes are acknowledged, those that came meanwhile too.
IsrAcknowledge ==
  /\ isr.pc = "ack"
  /\ scb' = {}
  /\ IsrAt("out")
  /\ UNCHANGED <<ring, rxp, ru, arrived, delivered, claimed, txVars>>

\* The search for a message buffer goes on for ever, with interrupts off.
IsrSpins == isr.pc = "spinning" /\ UNCHANGED etherVars

-----------------------------------------------------------------------------
(* sendmsg *)

\* _knet_send_msg, i8255x_driver_transmit: into the one buffer, whatever the CU is
\* doing with it.
SendMsg ==
  /\ isr.pc = "out"
  /\ sent.last < SENT_MAX
  /\ txb' = [message |-> sent.last + 1, active |-> TRUE]
  /\ sent' = [sent EXCEPT !.last = @ + 1]
  /\ UNCHANGED <<rxVars, scb>>

\* Where the bounds end what is looked at, or the RU stopped for good.
EtherQuiet ==
  /\ isr.pc = "out" /\ scb = {} /\ ~ txb.active
  /\ sent.last = SENT_MAX /\ (ru.ready => arrived = FRAMES_MAX)
  /\ UNCHANGED etherVars

EtherNext ==
  \/ ReceiveFrame
  \/ Transmitted
  \/ IsrEnter
  \/ IsrFrames
  \/ IsrLoopEnds
  \/ IsrDeliver
  \/ IsrInitRxb
  \/ IsrRestart
  \/ IsrAcknowledge
  \/ IsrSpins
  \/ SendMsg
  \/ EtherQuiet

-----------------------------------------------------------------------------
EtherTypeOK ==
  /\ \A b \in RxBuffers : ring[b].frame \in 0..FRAMES_MAX
  /\ rxp.ptr \in RxBuffers /\ rxp.base \in RxBuffers /\ ru.at \in RxBuffers
  /\ scb \subseteq {"FR", "RNR", "CX"}
  /\ isr.pc \in {"out", "FR?", "loop", "init", "RNR?", "ack", "spinning"}
  /\ isr.buf \in RxBuffers
  /\ delivered \subseteq 1..FRAMES_MAX /\ claimed \in 0..NUM_MESSAGES

\* No frame is given to _knet_process_frame twice, also when the interface writes
\* into the ring, or the handler is interrupted for good, between any two steps:
\* what was delivered is not marked as received any more, but for the buffer the
\* handler is about to make ready again.
NoneTwice ==
  \A b \in RxBuffers :
    ring[b].status /\ ring[b].frame \in delivered =>
      isr.buf = b /\ isr.pc \in {"init", "spinning"}

\* As long as no buffer is used a second time frames are delivered in the order in
\* which they arrived and none is passed over, however late the handler runs.
FirstLapInOrder ==
  arrived <= I8255X_RX_BUFFER_COUNT => delivered = 1..Cardinality(delivered)

\* knet.c says of a message that finds no buffer "Packet dropped, buffers full": the
\* handler goes on after it.
DroppedWhenFull == isr.pc # "spinning"
=============================================================================
