------------------------------ MODULE AbsLine ------------------------------
(***************************************************************************)
(* What the comment at the head of sio.c promises: characters wait in the  *)
(* order they came until a process takes them; characters processes write  *)
(* wait in the order they were written until they leave on the line.       *)
(***************************************************************************)
EXTENDS Naturals, Sequences

CONSTANTS
  Arrivals,   \* characters that may come in, as processes are to see them
  WrittenTexts, \* the sequences of characters that one call may write
  IN_ROOM     \* how many characters may wait to be read

VARIABLES
  incoming,   \* characters waiting to be read
  outgoing,   \* characters waiting to leave
  taken,      \* the character last given to a process
  left        \* the character that left last

linevars == <<incoming, outgoing, taken, left>>

Init ==
  /\ incoming = <<>> /\ outgoing = <<>>
  /\ taken = "none" /\ left = "none"

Arrive ==
  /\ Len(incoming) < IN_ROOM
  /\ \E c \in Arrivals : incoming' = Append(incoming, c)
  /\ UNCHANGED <<outgoing, taken, left>>

\* A character may be handed over as it comes in, if nothing waits before it.
Deliver ==
  /\ incoming = <<>>
  /\ taken' \in Arrivals
  /\ UNCHANGED <<incoming, outgoing, left>>

\* A read takes one character or more.
Take ==
  /\ \E n \in 1..Len(incoming) :
       /\ taken' = incoming[n]
       /\ incoming' = SubSeq(incoming, n + 1, Len(incoming))
  /\ UNCHANGED <<outgoing, left>>

\* As much of what a call writes as there is room for.
Write ==
  /\ \E w \in WrittenTexts : \E n \in 1..Len(w) :
       outgoing' = outgoing \o SubSeq(w, 1, n)
  /\ UNCHANGED <<incoming, taken, left>>

Leave ==
  /\ outgoing # <<>>
  /\ left' = Head(outgoing)
  /\ outgoing' = Tail(outgoing)
  /\ UNCHANGED <<incoming, taken>>

Next == Arrive \/ Deliver \/ Take \/ Write \/ Leave

Spec == Init /\ [][Next]_linevars
=============================================================================
