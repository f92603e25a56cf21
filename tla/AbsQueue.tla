------------------------------ MODULE AbsQueue ------------------------------
(***************************************************************************)
(* What queue.c promises: every queue is a sequence of entries.  A `fifo'  *)
(* queue keeps them in the order they came; any other keeps them in        *)
(* ascending order of their keys, equal keys in the order they came, and   *)
(* is searched by key.  All queues draw on one pool of nodes.              *)
(***************************************************************************)
EXTENDS Naturals, Sequences, FiniteSets

CONSTANTS N_QNODES, Queues, Entries, Discipline

VARIABLES
  contents,   \* queue -> sequence of entries
  result      \* what the last call returned: its status and the entry removed

absvars == <<contents, result>>

Keys == {e.key : e \in Entries}

NoEntry == [key |-> 0, data |-> "none"]
Status(s) == [status |-> s, entry |-> NoEntry]
Taken(e) == [status |-> "E_SUCCESS", entry |-> e]

Used ==
  LET now == contents
  IN  {at \in Queues \X (1..N_QNODES) : at[2] <= Len(now[at[1]])}

Full == Cardinality(Used) = N_QNODES

Init ==
  /\ contents = [q \in Queues |-> <<>>]
  /\ result = Status("none")

\* Whether x, an entry of q, stays ahead of e, which comes later.
Ahead(q, x, e) == Discipline[q] = "fifo" \/ x.key <= e.key

Add(q, e) ==
  \/ /\ result' = Status("E_NO_QNODES")
     /\ Full
     /\ UNCHANGED contents
  \/ /\ result' = Status("E_SUCCESS")
     /\ ~ Full
     /\ \E k \in 1..(Len(contents[q]) + 1) :
          /\ \A i \in DOMAIN contents[q] : i < k <=> Ahead(q, contents[q][i], e)
          /\ contents' = [contents EXCEPT ![q] = SubSeq(@, 1, k - 1) \o <<e>> \o SubSeq(@, k, Len(@))]

\* The entries a removal from q with key k may pick.
Candidates(q, k) ==
  LET now == contents[q]
  IN  {i \in DOMAIN now :
         CASE Discipline[q] = "fifo" -> TRUE
           [] Discipline[q] = "equal" -> now[i].key = k
           [] Discipline[q] = "le" -> now[i].key <= k}

TakeOut(q, i) ==
  /\ result' = Taken(contents[q][i])
  /\ contents' = [contents EXCEPT ![q] = SubSeq(@, 1, i - 1) \o SubSeq(@, i + 1, Len(@))]

Remove(q) ==
  \/ result' = Status("E_EMPTY") /\ contents[q] = <<>> /\ UNCHANGED contents
  \/ contents[q] # <<>> /\ TakeOut(q, 1)

RemoveByKey(q, k) ==
  \/ result' = Status("E_EMPTY") /\ contents[q] = <<>> /\ UNCHANGED contents
  \/ /\ result' = Status("E_NOT_FOUND")
     /\ contents[q] # <<>>
     /\ Candidates(q, k) = {}
     /\ UNCHANGED contents
  \/ \E i \in Candidates(q, k) :
       /\ \A j \in Candidates(q, k) : i <= j
       /\ TakeOut(q, i)

Next ==
  \E q \in Queues :
    \/ \E e \in Entries : Add(q, e)
    \/ Remove(q)
    \/ \E k \in Keys : RemoveByKey(q, k)

Spec == Init /\ [][Next]_absvars
=============================================================================
