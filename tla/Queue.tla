------------------------------- MODULE Queue -------------------------------
(***************************************************************************)
(* queue.c: doubly-linked lists of nodes from one pool.  A node that is    *)
(* not in a queue is in the free list, which is linked by `next' alone;    *)
(* its other fields keep what they held.  Every operation runs with        *)
(* interrupts off and is one step.                                         *)
(***************************************************************************)
EXTENDS Naturals, Sequences, FiniteSets

CONSTANTS
  N_QNODES,     \* queue.h: nodes in the pool
  Queues,
  Entries,      \* what is queued: records with a `key' and a `data' field
  Discipline    \* _q_reset: the comparison and removal routines of a queue

ASSUME QueueAssumption ==
  /\ N_QNODES \in Nat \ {0}
  /\ Entries \subseteq [key : Nat, data : STRING]
  /\ Discipline \in [Queues -> {"fifo", "equal", "le"}]

NULL == 0
Nodes == 1..N_QNODES
Pointers == Nodes \cup {NULL}
NoEntry == [key |-> 0, data |-> "none"]
Keys == {e.key : e \in Entries}
Statuses == {"none", "E_SUCCESS", "E_NO_QNODES", "E_EMPTY", "E_NOT_FOUND"}

VARIABLES
  entry,    \* node -> its key and data
  prev,     \* node -> its predecessor
  next,     \* node -> its successor
  avail,    \* _qnode_avail
  head, tail, length,   \* queue -> those fields of its queue_t
  result    \* what the last call returned: its status and the entry removed

links == <<prev, next, avail, head, tail, length>>
queueVars == <<entry, links, result>>

-----------------------------------------------------------------------------
Status(s) == [status |-> s, entry |-> NoEntry]
Taken(e) == [status |-> "E_SUCCESS", entry |-> e]

\* _q_empty
Empty(q) == length[q] < 1

\* The node i steps after the first one of q, or NULL if the list is shorter.
Walk(q) ==
  LET at[i \in 0..N_QNODES] ==
        IF i = 0 THEN head[q]
        ELSE LET n == at[i - 1] IN IF n = NULL THEN NULL ELSE next[n]
  IN  at

\* The node a traversal of q stops at: the first with `test', NULL if none.
Search(q, test(_)) ==
  LET walk == Walk(q)
      Stops(i) == IF walk[i] = NULL THEN TRUE ELSE test(walk[i])
  IN  walk[CHOOSE i \in 0..N_QNODES :
             Stops(i) /\ \A j \in 0..(i - 1) : ~ Stops(j)]

\* f[n] = v, for a node n; nothing if n is NULL, where the code has a branch.
Set(f, n, v) == IF n = NULL THEN f ELSE [f EXCEPT ![n] = v]

\* Mutant: the freed node takes the place of the whole free list.
FreeLosingRest(n, nx) ==
  /\ avail' = n
  /\ next' = [nx EXCEPT ![n] = NULL]

\* _qnode_free, from links `nx'.
Free(n, nx) ==
  /\ avail' = n
  /\ next' = [nx EXCEPT ![n] = avail]

-----------------------------------------------------------------------------
\* _q_init pushes the nodes one by one; _q_reset empties each queue.
QueueInit ==
  /\ entry = [n \in Nodes |-> NoEntry]
  /\ prev = [n \in Nodes |-> NULL]
  /\ next = [n \in Nodes |-> n - 1]
  /\ avail = N_QNODES
  /\ head = [q \in Queues |-> NULL]
  /\ tail = [q \in Queues |-> NULL]
  /\ length = [q \in Queues |-> 0]
  /\ result = Status("none")

NoNodes ==
  /\ avail = NULL
  /\ result' = Status("E_NO_QNODES")
  /\ UNCHANGED <<entry, links>>

\* The allocated node becomes the last one of q, with `back' before it.
AddLast(q, e, back) ==
  /\ avail # NULL
  /\ avail' = next[avail]
  /\ entry' = [entry EXCEPT ![avail] = e]
  /\ next' = [Set(next, IF Empty(q) THEN NULL ELSE tail[q], avail) EXCEPT ![avail] = NULL]
  /\ prev' = [prev EXCEPT ![avail] = back]
  /\ head' = IF Empty(q) THEN [head EXCEPT ![q] = avail] ELSE head
  /\ tail' = [tail EXCEPT ![q] = avail]
  /\ length' = [length EXCEPT ![q] = @ + 1]
  /\ result' = Status("E_SUCCESS")

\* The allocated node is linked in before node curr of q.
AddBefore(q, e, curr) ==
  /\ avail # NULL
  /\ avail' = next[avail]
  /\ entry' = [entry EXCEPT ![avail] = e]
  /\ next' = Set([next EXCEPT ![avail] = curr], prev[curr], avail)
  /\ prev' = [prev EXCEPT ![avail] = prev[curr], ![curr] = avail]
  /\ head' = IF prev[curr] = NULL THEN [head EXCEPT ![q] = avail] ELSE head
  /\ length' = [length EXCEPT ![q] = @ + 1]
  /\ result' = Status("E_SUCCESS")
  /\ UNCHANGED tail

\* _q_append: `prev' of the first node of a queue is the queue's old tail.
\* The kernel appends to queues without a comparison routine only.
QAppend(q, e) ==
  /\ Discipline[q] = "fifo"
  /\ NoNodes \/ AddLast(q, e, tail[q])

\* Mutant: among equal keys the new entry comes first.
PlaceFirst(q, e) ==
  IF Empty(q) \/ Discipline[q] = "fifo" THEN NULL
  ELSE Search(q, LAMBDA n : entry[n].key >= e.key)

\* _q_insert: the node it inserts before, NULL for the end.
Place(q, e) ==
  IF Empty(q) \/ Discipline[q] = "fifo" THEN NULL
  ELSE Search(q, LAMBDA n : entry[n].key > e.key)

Insert(q, e) ==
  \/ NoNodes
  \/ Place(q, e) = NULL /\ AddLast(q, e, IF Empty(q) THEN NULL ELSE tail[q])
  \/ Place(q, e) # NULL /\ AddBefore(q, e, Place(q, e))

\* Mutants: the queue is not looked at first; the new head keeps its `prev'.
UnlinkFirstUnchecked(q) ==
  /\ length' = [length EXCEPT ![q] = @ - 1]
  /\ result' = Status("E_SUCCESS")
  /\ UNCHANGED <<entry, prev, next, avail, head, tail>>

UnlinkFirstStale(q) ==
  /\ ~ Empty(q)
  /\ length' = [length EXCEPT ![q] = @ - 1]
  /\ head' = [head EXCEPT ![q] = next[head[q]]]
  /\ tail' = IF next[head[q]] = NULL THEN [tail EXCEPT ![q] = NULL] ELSE tail
  /\ result' = Taken(entry[head[q]])
  /\ Free(head[q], next)
  /\ UNCHANGED <<entry, prev>>

\* The part of _q_remove that takes the first node of q out.
UnlinkFirst(q) ==
  /\ ~ Empty(q)
  /\ length' = [length EXCEPT ![q] = @ - 1]
  /\ head' = [head EXCEPT ![q] = next[head[q]]]
  /\ tail' = IF next[head[q]] = NULL THEN [tail EXCEPT ![q] = NULL] ELSE tail
  /\ prev' = Set(prev, next[head[q]], NULL)
  /\ result' = Taken(entry[head[q]])
  /\ Free(head[q], next)
  /\ UNCHANGED entry

FoundEmpty(q) ==
  /\ Empty(q)
  /\ result' = Status("E_EMPTY")
  /\ UNCHANGED <<entry, links>>

Remove(q) == FoundEmpty(q) \/ UnlinkFirst(q)

\* The part of _q_remove_by_key that takes node n out of q, wherever it is.
Unlink(q, n) ==
  /\ head' = IF prev[n] = NULL THEN [head EXCEPT ![q] = next[n]] ELSE head
  /\ tail' = IF next[n] = NULL THEN [tail EXCEPT ![q] = prev[n]] ELSE tail
  /\ prev' = Set(prev, next[n], prev[n])
  /\ length' = [length EXCEPT ![q] = @ - 1]
  /\ result' = Taken(entry[n])
  /\ Free(n, Set(next, prev[n], next[n]))
  /\ UNCHANGED entry

\* _remove_if_equal and _remove_if_le_u
Matches(q, n, k) ==
  \/ Discipline[q] = "equal" /\ entry[n].key = k
  \/ Discipline[q] = "le" /\ entry[n].key <= k

RemoveByKey(q, k) ==
  \/ FoundEmpty(q)
  \/ Discipline[q] = "fifo" /\ UnlinkFirst(q)
  \/ /\ ~ Empty(q)
     /\ Discipline[q] # "fifo"
     /\ LET n == Search(q, LAMBDA m : Matches(q, m, k))
        IN  \/ /\ n = NULL
               /\ result' = Status("E_NOT_FOUND")
               /\ UNCHANGED <<entry, links>>
            \/ n # NULL /\ Unlink(q, n)

QueueNext ==
  \E q \in Queues :
    \/ \E e \in Entries : QAppend(q, e) \/ Insert(q, e)
    \/ Remove(q)
    \/ \E k \in Keys : RemoveByKey(q, k)

-----------------------------------------------------------------------------
(***************************************************************************)
(* Properties.                                                             *)
(***************************************************************************)
QueueTypeOK ==
  /\ entry \in [Nodes -> Entries \cup {NoEntry}]
  /\ prev \in [Nodes -> Pointers]
  /\ next \in [Nodes -> Pointers]
  /\ avail \in Pointers
  /\ head \in [Queues -> Pointers]
  /\ tail \in [Queues -> Pointers]
  /\ length \in [Queues -> 0..N_QNODES]
  /\ result \in [status : Statuses, entry : Entries \cup {NoEntry}]

\* The nodes of q, and those of the free list.
NodesOf(q) == LET walk == Walk(q) IN {walk[i] : i \in 0..N_QNODES} \ {NULL}

FreeNodes ==
  LET at[i \in 0..N_QNODES] ==
        IF i = 0 THEN avail ELSE LET n == at[i - 1] IN IF n = NULL THEN NULL ELSE next[n]
  IN  {at[i] : i \in 0..N_QNODES} \ {NULL}

(***************************************************************************)
(* A node is in one list, always: none is lost, and none is in two queues  *)
(* or in a queue and free.                                                 *)
(***************************************************************************)
NodesConserved ==
  /\ Nodes = FreeNodes \cup UNION {NodesOf(q) : q \in Queues}
  /\ \A q \in Queues : NodesOf(q) \cap FreeNodes = {}
  /\ \A q, r \in Queues : q # r => NodesOf(q) \cap NodesOf(r) = {}

(***************************************************************************)
(* The redundant fields of a queue agree: `length' with the nodes reached  *)
(* by `next', `tail' with the last of them, `prev' with `next' backwards,  *)
(* and NULL at both ends, on which removal from the middle, append to an   *)
(* empty queue and insertion before the head rely.                         *)
(***************************************************************************)
Linked ==
  \A q \in Queues :
    /\ length[q] = Cardinality(NodesOf(q))
    /\ Empty(q) => head[q] = NULL /\ tail[q] = NULL
    /\ ~ Empty(q) => /\ tail[q] \in NodesOf(q) /\ next[tail[q]] = NULL
                     /\ prev[head[q]] = NULL
    /\ \A n \in NodesOf(q) : next[n] # NULL => prev[next[n]] = n

(***************************************************************************)
(* The lists implement the sequences of AbsQueue: order, stability among   *)
(* equal keys, which entry a removal finds, and every status returned.     *)
(***************************************************************************)
Abs == INSTANCE AbsQueue WITH
         contents <- [q \in Queues |-> LET walk == Walk(q) IN [i \in 1..length[q] |-> entry[walk[i - 1]]]]

ImplementsAbsQueue == Abs!Spec
=============================================================================
