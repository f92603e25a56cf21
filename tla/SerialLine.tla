----------------------------- MODULE SerialLine -----------------------------
(***************************************************************************)
(* sio.c: the serial line.  The calls and _isr_sio run with interrupts     *)
(* off, so each call is a step, and so is each event the interrupt handler *)
(* deals with.  The UART is external: it holds the character being sent.   *)
(*                                                                         *)
(* A store that does not fit into its buffer ends the behaviour: what it   *)
(* destroys is not modelled, only that it happens (`overrun').             *)
(***************************************************************************)
EXTENDS Naturals, Sequences

CONSTANTS
  BUF_SIZE,   \* sio.c: size of the input and of the output buffer
  SIO_CHARS,  \* characters other than CR and LF
  SIO_TEXTS,  \* what is passed to _sio_writes, which nothing in the kernel calls
  READERS_MAX \* bound: processes blocked in readc at one time

CR == "CR"
LF == "LF"

ASSUME SerialAssumption ==
  /\ BUF_SIZE \in Nat \ {0}
  /\ READERS_MAX \in Nat
  /\ {CR, LF, "none"} \cap SIO_CHARS = {}
  /\ SIO_TEXTS \subseteq Seq(SIO_CHARS) \ {<<>>}

SioBytes == SIO_CHARS \cup {CR, LF}
NoByte == "none"
Slots == 0..(BUF_SIZE - 1)

VARIABLES
  rx,       \* _inbuffer, _inlast, _innext, _incount
  tx,       \* _outbuffer, _outlast, _outnext, _outcount, _sending, _ier, and the
            \* UART's transmitter (`thr')
  readers,  \* how many processes are on _reading
  eax,      \* the character last given to a process
  wire,     \* the character that left the UART last
  overrun   \* "no", or the buffer a store did not fit into

serialVars == <<rx, tx, readers, eax, wire, overrun>>

-----------------------------------------------------------------------------
Intact == overrun = "no"

\* _sio_init, and the receiver turned on at the end of _init.
SerialInit ==
  /\ rx = [buffer |-> [i \in Slots |-> NoByte], last |-> 0, next |-> 0, count |-> 0]
  /\ tx = [buffer |-> [i \in Slots |-> NoByte], last |-> 0, next |-> 0, count |-> 0,
           sending |-> FALSE, ier |-> {"RX"}, thr |-> NoByte]
  /\ readers = 0 /\ eax = NoByte /\ wire = NoByte /\ overrun = "no"

\* Mutant: the pointer goes back one byte too late.
WrappedLate(p) == IF p + 1 > BUF_SIZE THEN 0 ELSE p + 1

\* A pointer moved on by one, back to the start at the end of the buffer.
Wrapped(p) == IF p + 1 >= BUF_SIZE THEN 0 ELSE p + 1

\* _sio_enable, _sio_disable
Enable(t, which) == [t EXCEPT !.ier = @ \cup {which}]
Disable(t, which) == [t EXCEPT !.ier = @ \ {which}]

-----------------------------------------------------------------------------
(* Input *)

\* The reset of the pointers when the buffer is empty.
Drained(r) == IF r.count < 1 THEN [r EXCEPT !.last = 0, !.next = 0] ELSE r

\* _isr_sio, RX event: the first of the blocked readers gets the character.
RxWake(c) ==
  /\ Intact
  /\ "RX" \in tx.ier
  /\ readers > 0
  /\ readers' = readers - 1
  /\ eax' = IF c = CR THEN LF ELSE c
  /\ UNCHANGED <<rx, tx, wire, overrun>>

Room == rx.count < BUF_SIZE

\* _isr_sio, RX event: nobody waits; the character is kept if the count allows.
RxStore(c) ==
  /\ Intact
  /\ "RX" \in tx.ier
  /\ readers = 0
  /\ Room
  /\ IF rx.last \in Slots
     THEN /\ rx' = [rx EXCEPT !.buffer[rx.last] = IF c = CR THEN LF ELSE c,
                              !.last = @ + 1, !.count = @ + 1]
          /\ UNCHANGED overrun
     ELSE /\ overrun' = "in"
          /\ UNCHANGED rx
  /\ UNCHANGED <<tx, readers, eax, wire>>

\* _sio_readc and _sys_readc, with a character in the buffer.
ReadCharacter ==
  /\ Intact
  /\ rx.count > 0
  /\ eax' = rx.buffer[rx.next]
  /\ rx' = Drained([rx EXCEPT !.next = @ + 1, !.count = @ - 1])
  /\ UNCHANGED <<tx, readers, wire, overrun>>

\* _sys_readc, with none.
BlockReader ==
  /\ Intact
  /\ rx.count = 0
  /\ readers < READERS_MAX
  /\ readers' = readers + 1
  /\ UNCHANGED <<rx, tx, eax, wire, overrun>>

\* _sio_reads: up to n characters at once; `eax' stands for the last of them.
ReadMany(n) ==
  LET copied == IF n < rx.count THEN n ELSE rx.count
  IN  /\ Intact
      /\ rx.count >= 1
      /\ eax' = rx.buffer[rx.next + copied - 1]
      /\ rx' = Drained([rx EXCEPT !.next = @ + copied, !.count = @ - copied])
      /\ UNCHANGED <<tx, readers, wire, overrun>>

-----------------------------------------------------------------------------
(* Output *)

\* Mutant: transmitter interrupts are not enabled for the first character.
PrimeSilently(t, b) == [t EXCEPT !.sending = TRUE, !.thr = b]

\* _sio_writec, not sending: the character goes to the UART.
Prime(t, b) == Enable([t EXCEPT !.sending = TRUE, !.thr = b], "TX")

\* _sio_writec, sending: no wrap and no test for room.
Queued(t, b) ==
  [t EXCEPT !.buffer[t.last] = b, !.last = @ + 1, !.count = @ + 1]

PutByte(t, b) == IF t.sending THEN Queued(t, b) ELSE Prime(t, b)

\* Whether a byte can be put without leaving the buffer or covering one that waits.
Fits(t) == t.sending => t.last \in Slots /\ t.count < BUF_SIZE

\* One byte of _sio_writec; the line feed is preceded by a carriage return.
Writec(c) ==
  LET first == PutByte(tx, CR)
  IN  /\ Intact
      /\ IF c = LF
         THEN /\ tx' = CASE ~ Fits(tx) -> tx
                         [] Fits(tx) /\ ~ Fits(first) -> first
                         [] OTHER -> PutByte(first, LF)
              /\ overrun' = IF Fits(tx) /\ Fits(first) THEN "no" ELSE "out"
         ELSE /\ tx' = IF Fits(tx) THEN PutByte(tx, c) ELSE tx
              /\ overrun' = IF Fits(tx) THEN "no" ELSE "out"
      /\ UNCHANGED <<rx, readers, eax, wire>>

\* _sio_writes: t with the bytes of w appended from the k-th on, as long as the
\* count allows (the function counts down the bytes left to append).
Appended(t, w) ==
  LET done[n \in 0..Len(w)] ==
        IF n = 0 \/ (n = 1 /\ ~ t.sending) THEN t
        ELSE LET u == done[n - 1]
             IN  IF u.count < BUF_SIZE
                 THEN [u EXCEPT !.buffer[u.last] = w[n], !.last = Wrapped(u.last),
                                !.count = @ + 1]
                 ELSE u
  IN  done[Len(w)]

\* Mutant: the first character goes out at once and is appended as well.
WritesTwice(w) ==
  /\ Intact
  /\ tx' = Appended(IF tx.sending THEN tx ELSE PutByte(tx, w[1]), w)
  /\ UNCHANGED <<rx, readers, eax, wire, overrun>>

\* _sio_writes, a text that does not begin with a line feed.
Writes(w) ==
  /\ Intact
  /\ IF tx.sending /\ tx.count < BUF_SIZE /\ tx.last \notin Slots
     THEN overrun' = "out" /\ UNCHANGED tx
     ELSE /\ tx' = IF tx.sending THEN Appended(tx, w)
                   ELSE PutByte(Appended(tx, w), w[1])
          /\ UNCHANGED overrun
  /\ UNCHANGED <<rx, readers, eax, wire>>

\* External: the UART is done with the character.
UartSends ==
  /\ Intact
  /\ tx.thr # NoByte
  /\ wire' = tx.thr
  /\ tx' = [tx EXCEPT !.thr = NoByte]
  /\ UNCHANGED <<rx, readers, eax, overrun>>

TxPending == "TX" \in tx.ier /\ tx.thr = NoByte

\* _isr_sio, TX event, with another character to send.
TxNext ==
  /\ Intact
  /\ TxPending
  /\ tx.sending /\ tx.count > 0
  /\ tx' = [tx EXCEPT !.thr = tx.buffer[tx.next], !.next = Wrapped(@), !.count = @ - 1]
  /\ UNCHANGED <<rx, readers, eax, wire, overrun>>

\* _isr_sio, TX event, with none: the output variables are reset.
TxDone ==
  /\ Intact
  /\ TxPending
  /\ ~ (tx.sending /\ tx.count > 0)
  /\ tx' = Disable([tx EXCEPT !.count = 0, !.last = 0, !.next = 0, !.sending = FALSE], "TX")
  /\ UNCHANGED <<rx, readers, eax, wire, overrun>>

-----------------------------------------------------------------------------
\* What the store destroyed is not modelled.
SerialCorrupted == overrun # "no" /\ UNCHANGED serialVars

SerialInput ==
  \/ \E c \in SioBytes : RxWake(c) \/ RxStore(c)
  \/ ReadCharacter
  \/ BlockReader
  \/ \E n \in 1..BUF_SIZE : ReadMany(n)
  \/ SerialCorrupted

SerialOutput ==
  \/ \E c \in SioBytes : Writec(c)
  \/ \E w \in SIO_TEXTS : Writes(w)
  \/ UartSends
  \/ TxNext
  \/ TxDone
  \/ SerialCorrupted

SerialNext == SerialInput \/ SerialOutput

SerialSpec == SerialInit /\ [][SerialNext]_serialVars

-----------------------------------------------------------------------------
\* Types, and the pointers of sio.c against its counts: what waits to be read
\* lies between _innext and _inlast, and no more is counted than a buffer holds.
SerialTypeOK ==
  /\ rx \in [buffer : [Slots -> SioBytes \cup {NoByte}],
            last : 0..BUF_SIZE, next : 0..BUF_SIZE, count : 0..BUF_SIZE]
  /\ tx \in [buffer : [Slots -> SioBytes \cup {NoByte}],
            last : 0..BUF_SIZE, next : Slots, count : 0..BUF_SIZE,
            sending : BOOLEAN, ier : SUBSET {"RX", "TX"}, thr : SioBytes \cup {NoByte}]
  /\ readers \in 0..READERS_MAX
  /\ eax \in SioBytes \cup {NoByte}
  /\ wire \in SioBytes \cup {NoByte}
  /\ overrun \in {"no", "in", "out"}
  /\ rx.count = rx.last - rx.next

\* As long as a byte waits in the output buffer, the UART holds one or a TX
\* interrupt is pending: _isr_sio is the only one to take bytes out, and nothing
\* starts it again once TX interrupts are off while `_sending' says they are on.
TransmissionGoesOn ==
  tx.sending \/ tx.count > 0 => tx.sending /\ "TX" \in tx.ier

\* Up to an overrun, sio.c is two queues: nothing is lost, doubled or overtaken,
\* whichever of its calls and interrupts come in whichever order.
Line == INSTANCE AbsLine WITH
  Arrivals <- SIO_CHARS \cup {LF},
  WrittenTexts <- {<<c>> : c \in SIO_CHARS \cup {CR}} \cup {<<CR, LF>>} \cup SIO_TEXTS,
  IN_ROOM <- BUF_SIZE,
  incoming <- [i \in 1..rx.count |-> rx.buffer[rx.next + i - 1]],
  outgoing <- (IF tx.thr = NoByte THEN <<>> ELSE <<tx.thr>>) \o
              [i \in 1..tx.count |-> tx.buffer[(tx.next + i - 1) % BUF_SIZE]],
  taken <- eax,
  left <- wire

ImplementsAbsLine == Line!Spec
=============================================================================
